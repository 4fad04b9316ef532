---------------------------- MODULE SpawnConfined ----------------------------
(***************************************************************************)
(* spawn_confined of src/host/process.rs: one confined run, from the       *)
(* socket pair to the outcome.  The harness is a single thread whose       *)
(* program counter stands between two system calls; the worker's processes *)
(* (ProcessGroup) and the socket pair (Socketpair) move in between.        *)
(*                                                                         *)
(* Data: the run token is one unit, the separator is one, every other byte *)
(* of a response is "x", and the payload is a number of units.  The clock  *)
(* is the answer of started.elapsed() >= max_duration, which turns true    *)
(* once, at any moment.                                                    *)
(***************************************************************************)
EXTENDS ProcessGroup, Socketpair

CONSTANTS
  KillsGroup,   \* plan.kills_process_group(): the chain starts with setsid
  Faults,       \* the host calls that may fail in this instance
  PayloadLen,   \* units of payload
  MaxOutput,    \* limits.max_output_bytes, in units
  ReadBuffer,   \* the size of the read buffer, in units
  MaxProduced,  \* bound of the model: units the worker side ever writes
  Filter        \* the worker reads its input to the end, answers and exits

FaultKinds == {"spawn", "arm", "cap", "intr", "kill", "wait"}

ASSUME ParameterAssumption ==
  /\ KillsGroup \in BOOLEAN /\ Filter \in BOOLEAN
  /\ Faults \subseteq FaultKinds
  /\ PayloadLen \in Nat /\ MaxOutput \in Nat /\ MaxProduced \in Nat
  /\ ReadBuffer \in Nat \ {0}

VARIABLES
  pc,                   \* what the harness does next
  expired,              \* started.elapsed() >= limits.max_duration
  output, truncated, timed_out, capture_failed, collected,
  run_binding_proved, exit_ok,
  \* history
  late,                 \* transport calls that returned after the deadline
  cleared,              \* a group signal has been delivered
  strangerHit           \* a signal went to a group that is not the worker's

flags == <<truncated, timed_out, capture_failed>>
verdict == <<run_binding_proved, exit_ok>>
history == <<late, cleared, strangerHit>>
vars == <<pc, expired, output, flags, collected, verdict, history,
          procVars, netVars>>

\* binding.frame_len(), the framed payload and the capture bound.
FrameLen == 2
FramedLen == FrameLen + PayloadLen
\* Mutation of Cap: the byte bound is spent on the frame.
FrameCountedCap == MaxOutput

Cap == MaxOutput + FrameLen

\* binding.unframe: the token alone, or the token and the separator.
Bound(s) ==
  /\ Len(s) > 0 /\ s[1] = "token"
  /\ Len(s) > 1 => s[2] = "nl"

\* What the outcome hands to its caller.
Content == IF run_binding_proved THEN SubSeq(output, 3, Len(output)) ELSE output

Stopped == pc \in {"done", "refused"}
Labels == {"spawn", "arm", "write", "send", "reapWrite", "shutdown", "size",
           "read", "recv", "reapEof", "reapStop", "collect", "final",
           "done", "refused"}

Init ==
  /\ pc = "spawn" /\ expired = FALSE
  /\ output = <<>>
  /\ truncated = FALSE /\ timed_out = FALSE /\ capture_failed = FALSE
  /\ collected = "none"
  /\ run_binding_proved = FALSE /\ exit_ok = FALSE
  /\ late = 0 /\ cleared = FALSE /\ strangerHit = FALSE
  /\ ProcInit /\ NetInit

-------------------------------------------------------------------------------
(* Setting up.  Everything after the spawn that returns an error leaves the *)
(* child as it is: Child has no Drop that kills or waits.                   *)

Spawn ==
  /\ pc = "spawn"
  /\ \/ /\ pc' = "arm"
        /\ SpawnLeader
        /\ Inherit(Leader)
     \/ /\ "spawn" \in Faults
        /\ pc' = "refused"
        /\ UNCHANGED <<procVars, netVars>>
  /\ UNCHANGED <<expired, output, flags, collected, verdict, history>>

Arm ==
  /\ pc = "arm"
  /\ pc' \in {"write"} \cup (IF "arm" \in Faults THEN {"refused"} ELSE {})
  /\ UNCHANGED <<expired, output, flags, collected, verdict, history,
                 procVars, netVars>>

-------------------------------------------------------------------------------
(* The write loop.                                                          *)

\* Mutation of WriteNext: only the slices are bounded, not the loop.
UnclockedWriteNext ==
  /\ pc = "write"
  /\ pc' = IF written >= FramedLen THEN "shutdown" ELSE "send"
  /\ UNCHANGED <<expired, output, flags, collected, verdict, history, procVars,
                 netVars>>

WriteNext ==
  /\ pc = "write"
  /\ \/ /\ written >= FramedLen
        /\ pc' = "shutdown" /\ UNCHANGED timed_out
     \/ /\ written < FramedLen /\ expired
        /\ pc' = "reapWrite" /\ timed_out' = TRUE
     \/ /\ written < FramedLen /\ ~expired
        /\ pc' = "send" /\ UNCHANGED timed_out
  /\ UNCHANGED <<expired, output, truncated, capture_failed, collected,
                 verdict, history, procVars, netVars>>

\* Every transport call returns within its slice and touches none of these;
\* late counts the calls that return past the deadline, up to LateBound, a
\* bound of the model above what a property tells apart.
LateBound == 2

Returned ==
  /\ late' = IF expired /\ late < LateBound THEN late + 1 ELSE late
  /\ UNCHANGED <<expired, collected, verdict, cleared, strangerHit, procVars>>

\* Mutation of Send: the slice sent is not what is left of the frame.
WholeFrameSend ==
  /\ pc = "send"
  /\ \E n \in 1..FramedLen : Accept(n)
  /\ pc' = "write"
  /\ Returned
  /\ UNCHANGED <<output, flags>>

Send ==
  /\ pc = "send"
  /\ \E n \in 1..(FramedLen - written) : Accept(n)
  /\ pc' = "write"
  /\ Returned
  /\ UNCHANGED <<output, flags>>

\* WouldBlock and TimedOut after a slice without room, or Interrupted.
SendAgain ==
  /\ pc = "send"
  /\ \/ InOpen /\ written - readIn >= InCap
     \/ "intr" \in Faults
  /\ pc' = "write"
  /\ Returned
  /\ UNCHANGED <<output, flags, netVars>>

\* Mutation of SendFailed: a send that fails ends the run.
AbandoningSendFailed ==
  /\ pc = "send"
  /\ Refuse
  /\ pc' = "final"
  /\ Returned
  /\ UNCHANGED <<output, flags>>

SendFailed ==
  /\ pc = "send"
  /\ Refuse
  /\ pc' = "shutdown"
  /\ Returned
  /\ UNCHANGED <<output, flags>>

\* Mutation of Shutdown: the worker's input is never ended.
SkippedShutdown ==
  /\ pc = "shutdown"
  /\ pc' = "size"
  /\ UNCHANGED <<expired, output, flags, collected, verdict, history, procVars,
                 netVars>>

Shutdown ==
  /\ pc = "shutdown"
  /\ EndInput
  /\ pc' = "size"
  /\ UNCHANGED <<expired, output, flags, collected, verdict, history, procVars>>

Size ==
  /\ pc = "size"
  /\ pc' \in {"read"} \cup (IF "cap" \in Faults THEN {"refused"} ELSE {})
  /\ UNCHANGED <<expired, output, flags, collected, verdict, history,
                 procVars, netVars>>

-------------------------------------------------------------------------------
(* The read loop.                                                           *)

\* Mutation of ReadNext: only the slices are bounded, not the loop.
UnclockedReadNext ==
  /\ pc = "read" /\ pc' = "recv"
  /\ UNCHANGED <<expired, output, flags, collected, verdict, history, procVars,
                 netVars>>

ReadNext ==
  /\ pc = "read"
  /\ \/ /\ timed_out
        /\ pc' = "final" /\ UNCHANGED timed_out
     \/ /\ ~timed_out /\ expired
        /\ pc' = "reapStop" /\ timed_out' = TRUE
     \/ /\ ~timed_out /\ ~expired
        /\ pc' = "recv" /\ UNCHANGED timed_out
  /\ UNCHANGED <<expired, output, truncated, capture_failed, collected,
                 verdict, history, procVars, netVars>>

\* Mutation of Capture: what is beyond the bound is dropped silently.
SilentCapture(n) ==
  LET room == Cap - Len(output)
  IN /\ output' = output \o SubSeq(w2h, 1, IF n > room THEN room ELSE n)
     /\ UNCHANGED truncated
     /\ pc' = "read"

\* n units arrive; those beyond the bound are dropped and end the capture.
Capture(n) ==
  LET room == Cap - Len(output)
  IN IF n > room
     THEN /\ output' = output \o SubSeq(w2h, 1, room)
          /\ truncated' = TRUE
          /\ pc' = "reapStop"
     ELSE /\ output' = output \o SubSeq(w2h, 1, n)
          /\ UNCHANGED truncated
          /\ pc' = "read"

Recv ==
  /\ pc = "recv"
  /\ \E n \in 1..ReadBuffer : Deliver(n) /\ Capture(n)
  /\ Returned
  /\ UNCHANGED <<timed_out, capture_failed>>

\* Mutation of RecvEof: end of file is taken for the end of the group.
TrustingRecvEof ==
  /\ pc = "recv"
  /\ EndOfFile
  /\ pc' = "collect"
  /\ Returned
  /\ UNCHANGED <<output, flags, netVars>>

RecvEof ==
  /\ pc = "recv"
  /\ EndOfFile
  /\ pc' = "reapEof"
  /\ Returned
  /\ UNCHANGED <<output, flags, netVars>>

\* Mutation of RecvAgain: an interrupted or expired slice ends the capture.
FatalRecvAgain ==
  /\ pc = "recv"
  /\ \/ w2h = <<>> /\ OutOpen
     \/ "intr" \in Faults
  /\ capture_failed' = TRUE
  /\ pc' = "reapStop"
  /\ Returned
  /\ UNCHANGED <<output, truncated, timed_out, netVars>>

\* WouldBlock and TimedOut after a slice without data, or Interrupted.
RecvAgain ==
  /\ pc = "recv"
  /\ \/ w2h = <<>> /\ OutOpen
     \/ "intr" \in Faults
  /\ pc' = "read"
  /\ Returned
  /\ UNCHANGED <<output, flags, netVars>>

RecvFailed ==
  /\ pc = "recv"
  /\ TakeReset
  /\ capture_failed' = TRUE
  /\ pc' = "reapStop"
  /\ Returned
  /\ UNCHANGED <<output, truncated, timed_out>>

-------------------------------------------------------------------------------
(* Cleanup and the outcome.                                                 *)

\* Mutation of Reap: the direct child is killed in place of its group.
LeaderOnlyReap ==
  /\ SignalLeader
  /\ cleared' = (cleared \/ KillsGroup)
  /\ UNCHANGED strangerHit

\* reap and reap_group: /bin/kill on the group, whose failure is ignored, or
\* child.kill() when the plan forms no group.
Reap ==
  /\ \/ /\ KillsGroup
        /\ SignalGroup
        /\ cleared' = (cleared \/ group # {})
        /\ strangerHit' = (strangerHit \/ recycled)
     \/ /\ KillsGroup /\ "kill" \in Faults
        /\ UNCHANGED <<procVars, cleared, strangerHit>>
     \/ /\ ~KillsGroup
        /\ SignalLeader
        /\ UNCHANGED <<cleared, strangerHit>>

\* The three call sites, each with what follows it.
AfterReap == [reapWrite |-> "shutdown", reapStop |-> "final",
              reapEof |-> "collect"]

ReapStep ==
  /\ pc \in DOMAIN AfterReap
  /\ Reap
  /\ pc' = AfterReap[pc]
  /\ UNCHANGED <<expired, output, flags, collected, verdict, late, netVars>>

\* Mutation of Collect: the group is signalled after the wait.
CollectThenReap ==
  /\ pc = "collect"
  /\ CollectLeader
  /\ collected' = status
  /\ pc' = "reapStop"
  /\ UNCHANGED <<expired, output, flags, verdict, history, netVars>>

\* Mutation of Collect: one try_wait, without the grace of the deadline.
ImpatientCollect ==
  /\ pc = "collect"
  /\ \/ CollectLeader /\ collected' = status /\ UNCHANGED timed_out
     \/ /\ life[Leader] # "zombie"
        /\ timed_out' = TRUE
        /\ UNCHANGED <<procVars, collected>>
  /\ pc' = "final"
  /\ UNCHANGED <<expired, output, truncated, capture_failed, verdict, history,
                 netVars>>

\* wait_within; a round that finds no status and time left changes nothing.
Collect ==
  /\ pc = "collect"
  /\ \/ /\ CollectLeader
        /\ collected' = status
        /\ UNCHANGED timed_out
     \/ /\ \/ life[Leader] # "zombie" /\ expired
           \/ "wait" \in Faults
        /\ timed_out' = TRUE
        /\ UNCHANGED <<procVars, collected>>
  /\ pc' = "final"
  /\ UNCHANGED <<expired, output, truncated, capture_failed, verdict, history,
                 netVars>>

\* Mutation of Conclude: complete bound output implies success.
OutputImpliesSuccess ==
  /\ pc = "final"
  /\ \/ collected # "none" /\ UNCHANGED <<procVars, collected>>
     \/ collected = "none" /\ CollectLeader /\ collected' = status
  /\ run_binding_proved' = Bound(output)
  /\ exit_ok' = (run_binding_proved' /\ ~timed_out /\ ~truncated /\ ~capture_failed)
  /\ pc' = "done"
  /\ UNCHANGED <<expired, output, flags, history, netVars>>

\* The run token is checked, and child.wait() blocks until there is a status
\* unless wait_within has one.
Conclude ==
  /\ pc = "final"
  /\ \/ collected # "none" /\ UNCHANGED <<procVars, collected>>
     \/ collected = "none" /\ CollectLeader /\ collected' = status
     \/ collected = "none" /\ "wait" \in Faults /\ UNCHANGED <<procVars, collected>>
  /\ run_binding_proved' = Bound(output)
  /\ exit_ok' = /\ collected' = "zero"
                /\ ~timed_out /\ ~truncated /\ ~capture_failed
                /\ run_binding_proved'
  /\ pc' = "done"
  /\ UNCHANGED <<expired, output, flags, history, netVars>>

Harness ==
  \/ Spawn \/ Arm
  \/ WriteNext \/ Send \/ SendAgain \/ SendFailed \/ Shutdown \/ Size
  \/ ReadNext \/ Recv \/ RecvEof \/ RecvAgain \/ RecvFailed
  \/ ReapStep \/ Collect \/ Conclude

-------------------------------------------------------------------------------
(* The worker side: what the program may do, at any moment.                 *)

harnessVars == <<pc, expired, output, flags, collected, verdict, history>>

\* The program itself runs once the wrapper has formed the group.
Active(p) == Running(p) /\ (KillsGroup => Leader \in group)

Wrapper == KillsGroup /\ FormGroup /\ UNCHANGED <<harnessVars, netVars>>

\* The answer of a filter, which it starts at the end of its input.
Answer == <<"token", "nl">> \o [i \in 1..MaxOutput |-> "x"]
MayWrite(u) ==
  Filter => /\ ended /\ readIn = written
            /\ Len(produced) < Len(Answer)
            /\ u = Answer[Len(produced) + 1]

WorkerReads(p) ==
  /\ Active(p) /\ p \in holds
  /\ ReadInput
  /\ UNCHANGED <<harnessVars, procVars>>

\* Once spawn_confined has returned, the harness's end is closed.
WorkerWrites(p) ==
  /\ Active(p) /\ p \in holds /\ ~Stopped
  /\ Len(produced) < MaxProduced
  /\ \E u \in Units : MayWrite(u) /\ WriteOutput(u)
  /\ UNCHANGED <<harnessVars, procVars>>

WorkerShuts(p) ==
  /\ ~Filter
  /\ Active(p) /\ p \in holds
  /\ \E d \in {"in", "out"} : ShutDirection(d)
  /\ UNCHANGED <<harnessVars, procVars>>

WorkerCloses(p) ==
  /\ ~Filter
  /\ Active(p) /\ p \in holds
  /\ Close(p)
  /\ UNCHANGED <<harnessVars, procVars>>

WorkerForks(p) ==
  /\ ~Filter
  /\ Active(p)
  /\ \E c \in Descendants :
       /\ Fork(p, c)
       /\ IF p \in holds THEN Inherit(c) ELSE UNCHANGED netVars
  /\ UNCHANGED harnessVars

WorkerLeavesGroup(p) ==
  /\ Active(p)
  /\ LeaveGroup(p)
  /\ UNCHANGED <<harnessVars, netVars>>

\* Before the program runs, the wrapper can only fail.  A filter exits zero
\* once it has answered, and gives up when its input is cut short.
WorkerExits(p) ==
  /\ \/ /\ Active(p)
        /\ Filter => Len(produced) >= Len(Answer)
        /\ BeginExit(p, "zero")
     \/ /\ Filter => ended /\ written < FramedLen
        /\ BeginExit(p, "nonzero")
  /\ IF p \in holds THEN Close(p) ELSE UNCHANGED netVars
  /\ UNCHANGED harnessVars

Dies(p) ==
  /\ BeginExit(p, "killed")
  /\ IF p \in holds THEN Close(p) ELSE UNCHANGED netVars
  /\ UNCHANGED harnessVars

Ends(p) == EndExit(p) /\ UNCHANGED <<harnessVars, netVars>>

Worker(p) ==
  \/ WorkerReads(p) \/ WorkerWrites(p) \/ WorkerShuts(p) \/ WorkerCloses(p)
  \/ WorkerForks(p) \/ WorkerLeavesGroup(p) \/ WorkerExits(p)

Deadline ==
  /\ pc # "spawn" /\ ~Stopped /\ ~expired
  /\ expired' = TRUE
  /\ UNCHANGED <<pc, output, flags, collected, verdict, history, procVars,
                 netVars>>

RecycleGroup == ~Stopped /\ Recycle /\ UNCHANGED <<harnessVars, netVars>>

\* Nothing is left to happen once every process is settled.
Terminated == Stopped /\ UNCHANGED vars

Environment ==
  \/ Wrapper \/ RecycleGroup
  \/ \E p \in Procs : Worker(p) \/ Dies(p) \/ Ends(p)

Next == Harness \/ Environment \/ Deadline \/ Terminated

Spec == Init /\ [][Next]_vars

-------------------------------------------------------------------------------
(* Properties.                                                              *)

\* Types of the variables, the bound on what is sent included.
TypeOK ==
  /\ ProcTypeOK
  /\ NetTypeOK /\ written =< FramedLen /\ holds \subseteq Procs
  /\ pc \in Labels /\ expired \in BOOLEAN
  /\ output \in Seq(Units)
  /\ truncated \in BOOLEAN /\ timed_out \in BOOLEAN
  /\ capture_failed \in BOOLEAN
  /\ collected \in Status
  /\ run_binding_proved \in BOOLEAN /\ exit_ok \in BOOLEAN
  /\ late \in Nat /\ cleared \in BOOLEAN /\ strangerHit \in BOOLEAN

\* The group is signalled only while its identifier is still the worker's:
\* no interleaving of exits, waits and reuse of identifiers sends the KILL of
\* reap_group to somebody else's group (process.rs:211-216, 318-321).
StrangerNeverSignalled == ~strangerHit

\* Once the signal has reached the group, no member is left that is not dying,
\* whatever was being forked meanwhile (process.rs:302-307).
ClearedGroupIsDoomed == cleared => LiveMembers \subseteq signalled

\* A run reported successful leaves no member of the worker's group running,
\* provided /bin/kill works (process.rs:207-212).
SuccessLeavesNoGroup == exit_ok => LiveMembers \subseteq signalled

\* exit_ok means what its documentation says: the leader exited zero by
\* itself, and the capture is everything the worker side ever wrote, token
\* first (process.rs:78-81).
SuccessIsNativeAndComplete ==
  exit_ok => /\ status = "zero"
             /\ output = produced
             /\ Bound(produced)

\* The capture is an exact prefix of what was written: nothing is lost,
\* repeated or reordered, and only a capture marked truncated is short of the
\* units that have left the socket (process.rs:228-238).
CaptureIsExact ==
  /\ ~truncated => produced = output \o w2h
  /\ truncated => /\ Len(output) = Cap /\ Len(produced) > Cap
                  /\ output = SubSeq(produced, 1, Cap)

\* The byte bound is the worker's content's: the frame neither spends it nor
\* extends it, and a bound response within it is never marked truncated
\* (process.rs:185-189, 258-261).
BoundIsTheContents ==
  pc = "done" =>
    /\ run_binding_proved => Len(Content) =< MaxOutput
    /\ truncated => Len(produced) > MaxOutput + FrameLen
    /\ (Len(produced) > Cap /\ ~timed_out /\ ~capture_failed) => truncated

\* The deadline bounds the phase and not each call: past it, at most the one
\* call already under way returns (process.rs:139-142).
DeadlineHonoured == late =< 1

\* A failed capture is the transport's failure, never an interruption or a
\* silent worker: the worker side closed with input left unread; and when the
\* whole frame has been sent, so that no send can have taken that error, it
\* is reported (process.rs:166-171, 239-250).
CaptureFailureIsReset ==
  /\ capture_failed => reset = "taken" /\ readIn < written
  /\ reset = "taken" /\ written = FramedLen => capture_failed

\* Neither a send that fails nor a read that does loses an answer: unless the
\* deadline or the bound has cut it, the output is everything the worker side
\* wrote before it closed (process.rs:166-175, 245-251).
AnswerSurvives == pc = "done" /\ ~timed_out /\ ~truncated => output = produced

\* A run is called timed out only past its deadline (process.rs:150, 201, 292).
TimeoutIsReal == timed_out => expired

-------------------------------------------------------------------------------
(* SpawnConfined implements ConfinedRun.                                    *)

AbstractStage ==
  CASE pc = "spawn"   -> "idle"
    [] pc = "refused" -> "refused"
    [] pc = "done"    -> "settled"
    [] OTHER          -> "running"

ReportedFaults ==
  {f \in {"truncated", "timed_out", "capture_failed"} :
     \/ f = "truncated" /\ truncated
     \/ f = "timed_out" /\ timed_out
     \/ f = "capture_failed" /\ capture_failed}

Run == INSTANCE ConfinedRun WITH
  Limit   <- MaxOutput,
  stage   <- AbstractStage,
  stream  <- produced,
  exit    <- status,
  faults  <- IF pc = "done" THEN ReportedFaults ELSE {},
  bound   <- run_binding_proved,
  content <- IF pc = "done" THEN Content ELSE <<>>,
  ok      <- exit_ok

\* The outcome is settled once and is never better than the run: one fault at
\* most, a full capture without one, success only on a native zero exit
\* (process.rs:33-86, 255-276).
ImplementsConfinedRun == Run!RunSpec

-------------------------------------------------------------------------------
(* What the repository says and the code does not do.                       *)

\* "the direct kill remains as the last resort if the signal cannot be sent"
\* (process.rs:309): after a cleanup the leader is at least dying.
LastResortKill == pc \in {"collect", "final"} => ~Running(Leader)

-------------------------------------------------------------------------------
(* Progress.  The harness is scheduled, the clock passes the deadline, and the *)
(* kernel finishes the deaths and exits it has begun; nothing is assumed of    *)
(* the worker.                                                                 *)

KernelFairness == \A p \in Procs : WF_vars(Dies(p) \/ Ends(p))
FairSpec == Spec /\ WF_vars(Harness) /\ WF_vars(Deadline) /\ KernelFairness

\* Past the deadline the harness leaves both loops and the bounded wait,
\* whatever the worker does (process.rs:149-171, 196-253, 283-300).
DeadlineEndsCapture == expired ~> (pc = "final" \/ Stopped)

\* A run whose leader has been signalled ends, in user-space cleanup, forking
\* or blocked alike (process.rs:263-264).
SignalledRunEnds == (Leader \in signalled) ~> Stopped

\* "maxDurationSeconds must bound the RUN, not merely the read phase"
\* (tests/host_process.rs:101): past the deadline spawn_confined returns.
DurationBoundsTheRun == expired ~> Stopped

\* Without a deadline to end it, a run is ended by the protocol: a worker that
\* reads its input to the end and answers within the bound succeeds.
PatientSpec ==
  Spec /\ WF_vars(Harness) /\ KernelFairness
       /\ WF_vars(Wrapper) /\ WF_vars(Worker(Leader))

\* sender.shutdown ends the worker's input (process.rs:175), so a filter gets
\* to answer, and its zero status survives the KILL sent at end of file
\* (process.rs:207-226).
FilterSucceeds == []~expired => <>(pc = "done" /\ exit_ok)
===============================================================================
