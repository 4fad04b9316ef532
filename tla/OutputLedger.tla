----------------------------- MODULE OutputLedger -----------------------------
(***************************************************************************)
(* OutputLedger of src/outputs.rs: the byte accounting of a run's captured *)
(* outputs, over counters of a fixed width.  A caller admits any sequence  *)
(* of outputs; run_confined_attested admits one.                           *)
(***************************************************************************)
EXTENDS Integers

CONSTANT Width   \* 2^64 in the code: the values of an unsigned counter

ASSUME WidthAssumption == Width \in Nat \ {0}

Counter == 0..Width - 1

VARIABLES
  per_tool_limit, total_limit, total_consumed,
  verdict,    \* answer to the last output: "none", "ok", "refused"
  offered,    \* the last output offered: its bytes and its truncation flag
  admitted    \* history: the true sum of the outputs admitted so far

ledger == <<per_tool_limit, total_limit, total_consumed>>
vars == <<ledger, verdict, offered, admitted>>

Init ==
  /\ per_tool_limit \in Counter /\ total_limit \in Counter
  /\ total_consumed = 0
  /\ verdict = "none"
  /\ offered = [bytes |-> 0, truncated |-> FALSE]
  /\ admitted = 0

\* u64::checked_add has no value past the width.
Overflows(consumed, bytes) == consumed + bytes >= Width

\* Mutation of Refuses: an output that fills the total bound exactly is refused.
StrictRefuses(per_tool, total, consumed, bytes, truncated) ==
  \/ truncated
  \/ bytes > per_tool
  \/ Overflows(consumed, bytes)
  \/ consumed + bytes >= total

\* What admit refuses, on the ledger's three numbers.
Refuses(per_tool, total, consumed, bytes, truncated) ==
  \/ truncated
  \/ bytes > per_tool
  \/ Overflows(consumed, bytes)
  \/ consumed + bytes > total

Refuse(bytes, truncated) ==
  /\ Refuses(per_tool_limit, total_limit, total_consumed, bytes, truncated)
  /\ verdict' = "refused"
  /\ UNCHANGED <<ledger, admitted>>

\* Mutation of Accept: the sum wraps, as + does in a release build.
WrappingAccept(bytes, truncated) ==
  LET next == (total_consumed + bytes) % Width
  IN /\ ~truncated /\ bytes <= per_tool_limit /\ next <= total_limit
     /\ total_consumed' = next
     /\ verdict' = "ok"
     /\ admitted' = admitted + bytes
     /\ UNCHANGED <<per_tool_limit, total_limit>>

\* Mutation of Accept: only the bound on one output is checked.
PerToolOnlyAccept(bytes, truncated) ==
  /\ ~truncated /\ bytes <= per_tool_limit
  /\ total_consumed' = total_consumed + bytes
  /\ verdict' = "ok"
  /\ admitted' = admitted + bytes
  /\ UNCHANGED <<per_tool_limit, total_limit>>

Accept(bytes, truncated) ==
  /\ ~Refuses(per_tool_limit, total_limit, total_consumed, bytes, truncated)
  /\ total_consumed' = total_consumed + bytes
  /\ verdict' = "ok"
  /\ admitted' = admitted + bytes
  /\ UNCHANGED <<per_tool_limit, total_limit>>

Admit(bytes, truncated) ==
  /\ Refuse(bytes, truncated) \/ Accept(bytes, truncated)
  /\ offered' = [bytes |-> bytes, truncated |-> truncated]

Next == \E bytes \in Counter, truncated \in BOOLEAN : Admit(bytes, truncated)

Spec == Init /\ [][Next]_vars

-------------------------------------------------------------------------------
TypeOK ==
  /\ per_tool_limit \in Counter /\ total_limit \in Counter
  /\ total_consumed \in Counter
  /\ verdict \in {"none", "ok", "refused"}
  /\ offered \in [bytes : Counter, truncated : BOOLEAN]
  /\ admitted \in Nat

\* The ledger holds the true sum of what it admitted, and that sum fits the
\* total bound: no wrapped addition and no refused output is ever counted
\* (outputs.rs:28-42).
AccountIsExact == admitted = total_consumed /\ admitted <= total_limit

\* A refusal has a cause the caller can see: an output is refused only when it
\* was cut, is over its own bound, or does not fit what the total bound leaves.
\* That the sum does not fit the counter is never the only cause
\* (outputs.rs:31-41).
RefusalHasACause ==
  verdict = "refused" =>
    \/ offered.truncated
    \/ offered.bytes > per_tool_limit
    \/ admitted + offered.bytes > total_limit
===============================================================================
