-------------------------------- MODULE Checks --------------------------------
(***************************************************************************)
(* The guard clauses of a function that refuses: a sequence of records     *)
(* [code, fails], in the order in which the code makes its early returns.  *)
(***************************************************************************)
EXTENDS Integers

\* The first of the checks that fails answers; "none" when none does.
FirstFailure(checks) ==
  LET failing == {i \in DOMAIN checks : checks[i].fails}
  IN IF failing = {} THEN "none"
     ELSE checks[CHOOSE i \in failing : \A j \in failing : i <= j].code
===============================================================================
