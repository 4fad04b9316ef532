-------------------------- MODULE OutputLedgerProofs --------------------------
(***************************************************************************)
(* The accounting of OutputLedger is exact for counters of every width.    *)
(* The invariant is inductive as it stands: what an admission adds is what *)
(* Refuses has bounded.                                                    *)
(***************************************************************************)
EXTENDS OutputLedger, TLAPS

LedgerInv == TypeOK /\ AccountIsExact /\ RefusalHasACause

\* An output admitted or refused keeps the account.
LEMMA AdmitKeepsInv ==
  ASSUME LedgerInv, NEW bytes \in Counter, NEW truncated \in BOOLEAN,
         Admit(bytes, truncated)
  PROVE  LedgerInv'
<1>0. /\ Width \in Nat \ {0} /\ bytes \in 0..Width - 1
      /\ total_limit \in 0..Width - 1 /\ total_consumed \in 0..Width - 1
      /\ per_tool_limit \in 0..Width - 1
      /\ admitted = total_consumed /\ admitted <= total_limit
  BY WidthAssumption DEF LedgerInv, TypeOK, AccountIsExact, Counter
<1>1. offered' \in [bytes : Counter, truncated : BOOLEAN]
  BY DEF Admit
<1>2. CASE Refuse(bytes, truncated)
  <2>1. TypeOK'
    BY <1>1, <1>2 DEF LedgerInv, TypeOK, Refuse, ledger
  <2>2. AccountIsExact'
    BY <1>0, <1>2 DEF AccountIsExact, Refuse, ledger
  <2>3. RefusalHasACause'
    <3>1. truncated \/ bytes > per_tool_limit \/ admitted + bytes > total_limit
      BY <1>0, <1>2 DEF Refuse, Refuses, Overflows
    <3>2. /\ offered' = [bytes |-> bytes, truncated |-> truncated]
          /\ UNCHANGED <<per_tool_limit, total_limit, admitted>>
      BY <1>2 DEF Admit, Refuse, ledger
    <3> QED
      BY <3>1, <3>2 DEF RefusalHasACause
  <2> QED
    BY <2>1, <2>2, <2>3 DEF LedgerInv
<1>3. CASE Accept(bytes, truncated)
  <2>1. /\ total_consumed' = total_consumed + bytes
        /\ admitted' = admitted + bytes
        /\ total_consumed + bytes <= total_limit
        /\ UNCHANGED <<per_tool_limit, total_limit>> /\ verdict' = "ok"
    BY <1>0, <1>3 DEF Accept, Refuses
  <2>2. total_consumed' \in Counter /\ admitted' \in Nat
    BY <1>0, <2>1 DEF Counter
  <2>3. TypeOK'
    BY <1>1, <2>1, <2>2 DEF LedgerInv, TypeOK
  <2>4. AccountIsExact' /\ RefusalHasACause'
    BY <1>0, <2>1 DEF AccountIsExact, RefusalHasACause
  <2> QED
    BY <2>3, <2>4 DEF LedgerInv
<1> QED
  BY <1>2, <1>3 DEF Admit

\* The invariant of the ledger, for every width and every sequence of outputs
\* (outputs.rs:31-43).
THEOREM LedgerInvariant == Spec => []LedgerInv
<1>1. Init => LedgerInv
  BY WidthAssumption
     DEF Init, LedgerInv, TypeOK, AccountIsExact, RefusalHasACause, Counter
<1>2. LedgerInv /\ [Next]_vars => LedgerInv'
  <2> SUFFICES ASSUME LedgerInv, [Next]_vars PROVE LedgerInv'
    OBVIOUS
  <2>1. CASE Next
    BY <2>1, AdmitKeepsInv DEF Next
  <2>2. CASE UNCHANGED vars
    BY <2>2 DEF vars, ledger, LedgerInv, TypeOK, AccountIsExact,
       RefusalHasACause
  <2> QED
    BY <2>1, <2>2
<1> QED
  BY <1>1, <1>2, PTL DEF Spec

\* The limits, the total and the verdict keep their types, and the total is within
\* the counter's width (outputs.rs:13-43).
THEOREM LedgersAreTyped == Spec => []TypeOK
<1>1. LedgerInv => TypeOK
  BY DEF LedgerInv
<1> QED
  BY <1>1, LedgerInvariant, PTL

\* No wrapped addition and no refused output is counted (outputs.rs:28-42).
THEOREM AccountsAreExact == Spec => []AccountIsExact
<1>1. LedgerInv => AccountIsExact
  BY DEF LedgerInv
<1> QED
  BY <1>1, LedgerInvariant, PTL

\* The overflow of the counter is never the only cause of a refusal
\* (outputs.rs:35-37).
THEOREM RefusalsHaveACause == Spec => []RefusalHasACause
<1>1. LedgerInv => RefusalHasACause
  BY DEF LedgerInv
<1> QED
  BY <1>1, LedgerInvariant, PTL
===============================================================================
