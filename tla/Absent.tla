-------------------------------- MODULE Absent --------------------------------
(***************************************************************************)
(* The value of what is not there: Rust's Option::None, SQL's NULL, a file *)
(* that does not exist, a lock nobody holds.                               *)
(***************************************************************************)
CONSTANT None

=============================================================================
