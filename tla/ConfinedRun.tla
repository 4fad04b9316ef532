----------------------------- MODULE ConfinedRun -----------------------------
(***************************************************************************)
(* What spawn_confined promises its caller, without saying how: a run is   *)
(* refused, or settles once with an outcome that tells the truth about     *)
(* what the worker wrote and how its leader ended.  ConfinedOutcome        *)
(* (src/host/process.rs:33-86) is the record of those promises;            *)
(* SpawnConfined implements them and AttestedRun builds on them.           *)
(***************************************************************************)
EXTENDS Integers, Sequences

CONSTANTS
  Units,   \* what a worker writes; contains "token" and "nl"
  Limit    \* the bound on the worker's content

ASSUME LimitAssumption == Limit \in Nat

VARIABLES
  stage,    \* "idle", "running", "refused", "settled"
  stream,   \* everything the worker side wrote
  exit,     \* how the leader ended
  faults,   \* which of "truncated", "timed_out", "capture_failed" are reported
  bound,    \* run_binding_proved
  content,  \* the output handed over
  ok        \* exit_ok

runVars == <<stage, stream, exit, faults, bound, content, ok>>

Faulty == {"truncated", "timed_out", "capture_failed"}

\* A response carries the run token: alone, or followed by the separator.
CarriesToken(s) ==
  /\ Len(s) > 0 /\ s[1] = "token"
  /\ Len(s) > 1 => s[2] = "nl"

Unframed(s) == IF CarriesToken(s) THEN SubSeq(s, 3, Len(s)) ELSE s

RunInit ==
  /\ stage = "idle" /\ stream = <<>> /\ exit = "none"
  /\ faults = {} /\ bound = FALSE /\ content = <<>> /\ ok = FALSE

Start ==
  /\ stage = "idle" /\ stage' = "running"
  /\ UNCHANGED <<stream, exit, faults, bound, content, ok>>

RefuseRun ==
  /\ stage \in {"idle", "running"} /\ stage' = "refused"
  /\ UNCHANGED <<stream, exit, faults, bound, content, ok>>

Emit ==
  /\ stage = "running"
  /\ \E u \in Units : stream' = Append(stream, u)
  /\ UNCHANGED <<stage, exit, faults, bound, content, ok>>

ExitLeader ==
  /\ stage # "idle" /\ exit = "none"
  /\ exit' \in {"zero", "nonzero", "killed"}
  /\ UNCHANGED <<stage, stream, faults, bound, content, ok>>

\* The capture is a prefix of the stream no longer than the bound and the frame,
\* short of it only when one fault, and one alone, is reported; success needs a
\* zero exit and no fault.
SettleRun ==
  /\ stage = "running" /\ stage' = "settled"
  /\ faults' \in {{}} \cup {{fault} : fault \in Faulty}
  /\ \E n \in 0..Len(stream) :
       LET captured == SubSeq(stream, 1, n)
       IN /\ n <= Limit + 2
          /\ faults' = {} => n = Len(stream)
          /\ bound' = CarriesToken(captured)
          /\ content' = Unframed(captured)
  /\ ok' \in BOOLEAN
  /\ ok' => exit = "zero" /\ faults' = {} /\ bound'
  /\ UNCHANGED <<stream, exit>>

RunNext == Start \/ RefuseRun \/ Emit \/ ExitLeader \/ SettleRun

RunSpec == RunInit /\ [][RunNext]_runVars
===============================================================================
