--------------------------- MODULE SpawnInvariants ---------------------------
(***************************************************************************)
(* The inductive invariants behind the safety properties of SpawnConfined: *)
(* what has to be true at each program counter for them to hold next.      *)
(***************************************************************************)
EXTENDS SpawnConfined

\* Before the spawn nothing exists yet.
BeforeSpawn ==
  pc = "spawn" => /\ life = [p \in Procs |-> "unborn"]
                  /\ group = {} /\ status = "none" /\ collected = "none"
                  /\ ~cleared /\ reset = "none" /\ ~timed_out

\* The leader is reaped on the way out of the two waits and nowhere else, and
\* its identifier is reused only afterwards.
Reserved ==
  /\ life[Leader] = "gone" => pc \in {"final", "done"}
  /\ recycled => life[Leader] = "gone"
  /\ ~strangerHit

\* The collected status is the leader's own.
StatusIsNative ==
  /\ collected # "none" => life[Leader] = "gone" /\ collected = status
  /\ status # "none" <=> life[Leader] \notin {"unborn", "running"}
  /\ life[Leader] = "gone" => pc = "done" \/ collected # "none"

\* A transport call starts before the deadline, so at most one ends after it.
OneLateCall ==
  /\ pc \in {"send", "recv"} => late = 0
  /\ late = 0 \/ (late = 1 /\ expired)

\* The leader never leaves its group, and a cleared group stays cleared.
Cleared ==
  /\ group # {} => Leader \in group
  /\ \A p \in group : life[p] # "unborn"
  /\ cleared => group # {} /\ LiveMembers \subseteq signalled

\* The output is what has left the socket.
Captured ==
  /\ CaptureIsExact
  /\ truncated => pc \in {"reapStop", "final", "done"}
  /\ capture_failed => pc \in {"reapStop", "final", "done"}

\* An error is only ever raised by the worker side's last close, and taken by
\* a send of what is left of the frame or reported.
ResetIsClosed ==
  /\ reset # "none" => holds = {} /\ readIn < written
  /\ capture_failed => reset = "taken"
  /\ pc = "send" => written < FramedLen
  /\ reset = "taken" /\ written = FramedLen => capture_failed

\* The worker side can write no more, and everything it wrote is captured.
AllCaptured == w2h = <<>> /\ ~OutOpen
FailedIsCaptured == capture_failed => AllCaptured

\* On the way to a verdict without a fault.
Unfaulted ==
  \/ pc \in {"reapEof", "collect"}
  \/ pc \in {"final", "done"} /\ ~timed_out /\ ~truncated /\ ~capture_failed

CompleteAtEof ==
  /\ Unfaulted => AllCaptured
  /\ pc \in {"reapEof", "collect"} => ~timed_out /\ ~truncated /\ ~capture_failed
  /\ pc = "reapStop" => timed_out \/ truncated \/ capture_failed
  /\ pc = "recv" => ~timed_out

\* What the verdict was computed from.
VerdictIsSound ==
  /\ exit_ok => /\ pc = "done" /\ collected = "zero"
                /\ ~timed_out /\ ~truncated /\ ~capture_failed
  /\ run_binding_proved => pc = "done"
  /\ (pc = "done" /\ run_binding_proved) => Bound(output)
  /\ exit_ok => run_binding_proved

\* A run reports one fault at most: each ends the loop or the wait it appears in,
\* and what comes after cannot raise another.
OneFault ==
  /\ ~(truncated /\ timed_out) /\ ~(truncated /\ capture_failed)
  /\ ~(timed_out /\ capture_failed)

\* Until it has formed its group, the wrapper leaves the transport alone.
WrapperIsQuiet ==
  /\ pc = "spawn" => shut = {}
  /\ KillsGroup /\ Leader \notin group /\ life[Leader] = "running" =>
       Leader \in holds /\ shut = {}

\* Past end of file the group is dying, or was never formed and never will be.
ClearedAtEof ==
  (pc # "reapEof" /\ Unfaulted) =>
    cleared \/ (group = {} /\ life[Leader] # "running")
===============================================================================
