----------------------------- MODULE MCCampaign -----------------------------
EXTENDS Campaign, TLC

Symmetry == Permutations(Procs)

Live(sender, profile) == [dry |-> FALSE, sender |-> sender, profile |-> profile]
Dry == [dry |-> TRUE, sender |-> FALSE, profile |-> "ok"]

\* Calls that take every branch of execute_request (a missing profile skips
\* mails like a dry run and turns forms into tasks like a good one).
MCOptions == {Live(TRUE, "ok"), Live(TRUE, "broken"), Dry}

\* What `plan execute' of the CLI and the MCP tool do: no email sender.
ShippedOptions == {Live(FALSE, "ok")}

\* `plan execute --dry-run'.
DryOptions == {Dry}
=============================================================================
