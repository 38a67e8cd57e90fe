------------------------------ MODULE CliParse ------------------------------
(***************************************************************************)
(* The command line (crates/symeraseme-cli/src/cli.rs, parse): words walk  *)
(* down the tree of commands, flags are looked up in the command reached   *)
(* so far, and --output means two things. clap checks the same arguments   *)
(* before and may refuse more; it is external. An argument is              *)
(* [raw, kind, name, value]: kind is "word", "flag", "help", "version" or  *)
(* "short", and value the text after "=", None without one.                *)
(***************************************************************************)
EXTENDS Absent, Integers, Sequences, SequencesExt, FiniteSets, FiniteSetsExt

CONSTANTS Surface,     \* command_surface: path -> [flags, positionals, required]
          Numerals,    \* the texts that are integers in range
          Argvs        \* command lines

VARIABLES argv, parsed

cli_vars == <<argv, parsed>>

FlagNames == UNION {DOMAIN Surface[p].flags : p \in DOMAIN Surface} \cup {"output"}
Start == [path |-> <<>>, positional |-> <<>>, flags |-> [n \in FlagNames |-> None],
          help |-> FALSE, help_path |-> <<>>, root_output |-> None, local_output |-> None,
          needs |-> None, error |-> ""]

CliInit == argv \in Argvs /\ parsed = None

Failed(s, message) == [s EXCEPT !.error = message]

\* known_flag: --output is known everywhere.
known_flag(path, name) == name = "output" \/ name \in DOMAIN Surface[path].flags
Kind(path, name) == IF name \in DOMAIN Surface[path].flags THEN Surface[path].flags[name]
                    ELSE "string"

\* --since and --since-days of poll-inbox are one flag with two names.
same_flag(path, name) ==
    IF path = <<"poll-inbox">> /\ name \in {"since", "since-days"}
    THEN {"since", "since-days"} ELSE {name}

\* Faulty variant: --output always names the format.
set_flag_NoShadow(s, name, value) ==
    [s EXCEPT !.flags = [n \in FlagNames |-> IF n \in same_flag(s.path, name) THEN value
                                             ELSE @[n]],
              !.root_output = IF name = "output" THEN value ELSE @]
\* A flag that has its value; where --output stands decides what it means.
set_flag(s, name, value) ==
    [s EXCEPT !.flags = [n \in FlagNames |-> IF n \in same_flag(s.path, name) THEN value
                                             ELSE @[n]],
              !.root_output = IF name = "output" /\ s.path = <<>> THEN value ELSE @,
              !.local_output = IF name = "output" /\ s.path # <<>> THEN value ELSE @]

\* The value of a flag that takes one; numbers are checked at once.
value_of(s, name, value) ==
    IF Kind(s.path, name) = "int" /\ value \notin Numerals THEN Failed(s, "invalid argument")
    ELSE [set_flag(s, name, value) EXCEPT !.needs = None]

flag(s, arg) ==
    CASE ~known_flag(s.path, arg.name) -> Failed(s, "unknown flag")
      [] Kind(s.path, arg.name) = "bool" ->
           LET value == IF arg.value = None THEN "true" ELSE arg.value IN
           IF value \in {"true", "false"} THEN set_flag(s, arg.name, value)
           ELSE Failed(s, "invalid argument")
      [] arg.value # None -> value_of(s, arg.name, arg.value)
      [] OTHER -> [s EXCEPT !.needs = arg.name]

\* A word is the name of a subcommand, or a positional where one is left.
word(s, arg) ==
    CASE Append(s.path, arg.raw) \in DOMAIN Surface -> [s EXCEPT !.path = Append(@, arg.raw)]
      [] s.path = <<"brokers", "list">> \/ Surface[s.path].positionals > Len(s.positional) ->
           [s EXCEPT !.positional = Append(@, arg.raw)]
      [] OTHER -> Failed(s, "unknown command")

\* One argument. Whatever follows a flag that needs a value is its value.
parse_arg(s, arg) ==
    CASE s.error # "" -> s
      [] s.needs # None -> value_of(s, s.needs, arg.raw)
      [] arg.kind = "help" -> [s EXCEPT !.help = TRUE, !.help_path = s.path]
      [] arg.kind = "version" -> Failed(s, IF s.path = <<>> THEN "version" ELSE "unknown flag")
      [] arg.kind = "short" -> Failed(s, "unknown shorthand flag")
      [] arg.kind = "flag" -> flag(s, arg)
      [] arg.kind = "word" -> word(s, arg)

\* "help x" is the help of x; what is required must be there unless help is asked.
ended_help(s) ==
    IF s.path = <<"help">> /\ ~s.help
    THEN [s EXCEPT !.path = s.positional, !.positional = <<>>, !.help = TRUE,
                   !.help_path = s.positional]
    ELSE s

parse(args) ==
    LET s == FoldLeft(parse_arg, Start, args)
        t == ended_help(s)
    IN  CASE s.error # ""        -> s
          [] s.needs # None      -> Failed(s, "flag needs an argument")
          [] t.path \notin DOMAIN Surface -> Failed(t, "unknown command")
          [] ~t.help /\ Surface[t.path].required /\ Len(t.positional) < Surface[t.path].positionals ->
               Failed(t, "accepts args")
          [] OTHER -> IF t.help /\ t.help_path = <<>> THEN [t EXCEPT !.help_path = t.path] ELSE t

execute ==
    /\ parsed = None
    /\ parsed' = parse(argv)
    /\ UNCHANGED argv

CliNext == execute
CliSpec == CliInit /\ [][CliNext]_cli_vars

-----------------------------------------------------------------------------
(* What the command line promises. *)

Runs(p) == p.error = "" /\ ~p.help

\* The i-th argument is the value of the flag before it.
Booleans == {n \in FlagNames : \E p \in DOMAIN Surface :
                 n \in DOMAIN Surface[p].flags /\ Surface[p].flags[n] = "bool"}
IsValue[i \in Nat] ==
    /\ i > 1
    /\ argv[i - 1].kind = "flag" /\ argv[i - 1].value = None /\ argv[i - 1].name \notin Booleans
    /\ ~IsValue[i - 1]
Stands(i) == argv[i].kind = "flag" /\ ~IsValue[i]

\* --dry-run asked for and not taken back later on is never lost: the command
\* runs dry or is not run at all, wherever the flag stands.
DryRunIsHeard ==
    parsed # None /\ Runs(parsed) =>
      \A i \in DOMAIN argv :
        /\ Stands(i) /\ argv[i].name = "dry-run" /\ argv[i].value = None
        /\ \A j \in i + 1..Len(argv) : argv[j].name # "dry-run"
        => parsed.flags["dry-run"] = "true"

Swapped(i) == [argv EXCEPT ![i] = argv[i + 1], ![i + 1] = argv[i]]

\* Where a flag with its value and a word change places and both lines are
\* accepted, the same command runs with the same positionals and flags; only
\* --output may change its meaning, and only with the word that starts a path.
OrderIsIrrelevant ==
    parsed # None /\ Runs(parsed) =>
      \A i \in 1..Len(argv) - 1 :
        LET other == parse(Swapped(i)) IN
        /\ Stands(i) /\ argv[i].value # None /\ argv[i + 1].kind = "word" /\ Runs(other)
        => /\ other.path = parsed.path /\ other.positional = parsed.positional
           /\ other.flags = parsed.flags
           /\ other.root_output # parsed.root_output => argv[i].name = "output"

\* "--output after a subcommand belongs to a shadowing local file flag and
\* never reaches the format" of a report: the format is what stood before the
\* command, the file what stood after it.
OutputIsShadowed ==
    parsed # None /\ Runs(parsed) /\ parsed.path = <<"generate-report">> =>
      LET at == CHOOSE i \in DOMAIN argv : argv[i].raw = "generate-report" /\ ~IsValue[i]
          outputs(where) == {i \in where : Stands(i) /\ argv[i].name = "output"}
          text(i) == IF argv[i].value = None THEN argv[i + 1].raw ELSE argv[i].value
          last(where) == IF outputs(where) = {} THEN None ELSE text(Max(outputs(where)))
      IN  /\ parsed.root_output = last(1..at - 1)
          /\ parsed.local_output = last(at + 1..Len(argv))

\* A command line runs as it was meant, or not at all.
CliCorrect == DryRunIsHeard /\ OrderIsIrrelevant /\ OutputIsShadowed

=============================================================================
