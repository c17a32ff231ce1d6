----------------------------- MODULE Declarations -----------------------------
(***************************************************************************)
(* What the code declares once and finds by name (APIs, jobs, datasets,    *)
(* processors, tools): a set of records with a name each.                  *)
(***************************************************************************)

Names(declared) == {d.name : d \in declared}

\* The declarations by their names.
Named(declared) == [n \in Names(declared) |-> CHOOSE d \in declared : d.name = n]
=============================================================================
