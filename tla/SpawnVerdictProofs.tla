-------------------------- MODULE SpawnVerdictProofs --------------------------
(***************************************************************************)
(* What the outcome of spawn_confined says is true, for every value of the *)
(* constants: the last part of the safety argument, which builds on the    *)
(* process and capture invariants of SpawnSafetyProofs; and with it,       *)
(* spawn_confined implements ConfinedRun.                                  *)
(***************************************************************************)
EXTENDS SpawnSafetyProofs

-------------------------------------------------------------------------------
(* The error of the transport.                                              *)

\* Nobody holds the worker's end again once its last holder has closed it.
LEMMA ResetEnvironment ==
  ASSUME Typed, ResetIsClosed, Environment
  PROVE  ResetIsClosed'
<1>0. UNCHANGED <<pc, capture_failed>>
  BY EnvironmentFrame DEF harnessVars, flags
<1>1. CASE UNCHANGED netVars
  BY <1>0, <1>1 DEF netVars, ResetIsClosed
<1>2. CASE holds # {} /\ ReadInput
  BY <1>0, <1>2 DEF ReadInput, ResetIsClosed
<1>3. ASSUME NEW d \in {"in", "out"}, ShutDirection(d) PROVE ResetIsClosed'
  BY <1>0, <1>3 DEF ShutDirection, ResetIsClosed
<1>4. ASSUME NEW u \in Units, WriteOutput(u) PROVE ResetIsClosed'
  BY <1>0, <1>4 DEF WriteOutput, ResetIsClosed
<1>5. ASSUME NEW c \in Procs, holds # {}, Inherit(c) PROVE ResetIsClosed'
  BY <1>0, <1>5 DEF Inherit, ResetIsClosed
<1>6. ASSUME NEW p \in holds, Close(p) PROVE ResetIsClosed'
  BY <1>0, <1>6 DEF Close, ResetIsClosed
<1> QED
  BY <1>1, <1>2, <1>3, <1>4, <1>5, <1>6, EnvironmentNet DEF EnvNet

\* The error appears with the last close, and only RecvFailed reports it.
THEOREM ResetInvariant == Spec => []ResetIsClosed
<1>1. Init => ResetIsClosed
  BY DEF Init, NetInit, ResetIsClosed
<1>2. Typed /\ ProcInv /\ ResetIsClosed /\ [Next]_vars => ResetIsClosed'
  <2> SUFFICES ASSUME Typed, ProcInv, ResetIsClosed, [Next]_vars
               PROVE  ResetIsClosed'
    OBVIOUS
  <2> USE DEF ResetIsClosed
  <2>1. CASE Spawn
    BY <2>1 DEF Spawn, Inherit, netVars, flags, ProcInv, BeforeSpawn
  <2>2. CASE Arm \/ Size \/ WriteNext \/ ReadNext
    BY <2>2 DEF Arm, Size, WriteNext, ReadNext, flags, netVars
  <2>3. CASE Shutdown
    BY <2>3 DEF Shutdown, EndInput, flags
  <2>4. CASE Send
    BY <2>4 DEF Send, Accept, InOpen, flags
  <2>5. CASE SendAgain
    BY <2>5 DEF SendAgain, flags, netVars
  <2>6. CASE SendFailed
    <3>1. written # FramedLen
      BY <2>6, ParameterAssumption
         DEF SendFailed, Typed, TypeOK, NetTypeOK, FramedLen, FrameLen
    <3> QED
      BY <2>6, <3>1 DEF SendFailed, Refuse, flags
  <2>7. CASE Recv
    BY <2>7 DEF Recv, Deliver, Capture
  <2>8. CASE RecvEof \/ RecvAgain
    BY <2>8 DEF RecvEof, RecvAgain, flags, netVars
  <2>9. CASE RecvFailed
    BY <2>9 DEF RecvFailed, TakeReset
  <2>10. CASE ReapStep \/ Collect \/ Conclude
    <3>1. pc' # "send" /\ UNCHANGED <<reset, holds, readIn, written, capture_failed>>
      <4>1. CASE ReapStep
        BY <4>1 DEF ReapStep, AfterReap, flags, netVars
      <4>2. CASE Collect
        BY <4>2 DEF Collect, netVars
      <4>3. CASE Conclude
        BY <4>3 DEF Conclude, flags, netVars
      <4> QED
        BY <2>10, <4>1, <4>2, <4>3
    <3> QED
      BY <3>1
  <2>11. CASE Environment
    BY <2>11, ResetEnvironment
  <2>12. CASE Deadline \/ UNCHANGED vars
    BY <2>12 DEF Deadline, vars, flags, netVars
  <2> QED
    BY <2>1, <2>2, <2>3, <2>4, <2>5, <2>6, <2>7, <2>8, <2>9, <2>10, <2>11,
       <2>12 DEF Next, Harness, Terminated
<1> QED
  BY <1>1, <1>2, TypeCorrect, ProcInvariant, PTL DEF Spec, Typed

\* A failed capture is a worker side that closed with input left unread
\* (process.rs:239-250).
THEOREM CaptureFailuresAreResets == Spec => []CaptureFailureIsReset
<1>1. ResetIsClosed => CaptureFailureIsReset
  BY DEF ResetIsClosed, CaptureFailureIsReset
<1> QED
  BY <1>1, ResetInvariant, PTL

-------------------------------------------------------------------------------
(* The end of file and the verdict.                                         *)

\* After its end the stream stays ended: nobody can write to it any more.
LEMMA AllCapturedIsStable ==
  ASSUME Environment, AllCaptured
  PROVE  AllCaptured'
<1> USE DEF AllCaptured, OutOpen
<1>1. CASE UNCHANGED netVars
  BY <1>1 DEF netVars
<1>2. CASE holds # {} /\ ReadInput
  BY <1>2 DEF ReadInput
<1>3. ASSUME NEW d \in {"in", "out"}, ShutDirection(d) PROVE AllCaptured'
  BY <1>3 DEF ShutDirection
<1>4. ASSUME NEW u \in Units, holds # {}, WriteOutput(u) PROVE AllCaptured'
  BY <1>4 DEF WriteOutput
<1>5. ASSUME NEW c \in Procs, holds # {}, Inherit(c) PROVE AllCaptured'
  BY <1>5 DEF Inherit
<1>6. ASSUME NEW p \in holds, Close(p) PROVE AllCaptured'
  BY <1>6 DEF Close
<1> QED
  BY <1>1, <1>2, <1>3, <1>4, <1>5, <1>6, EnvironmentNet DEF EnvNet

\* An error is read only when everything before it has been.
THEOREM FailedInvariant == Spec => []FailedIsCaptured
<1>1. Init => FailedIsCaptured
  BY DEF Init, FailedIsCaptured
<1>2. Captured /\ ResetIsClosed /\ FailedIsCaptured /\ [Next]_vars => FailedIsCaptured'
  <2> SUFFICES ASSUME Captured, ResetIsClosed, FailedIsCaptured, [Next]_vars
               PROVE  FailedIsCaptured'
    OBVIOUS
  <2>1. CASE RecvFailed
    BY <2>1 DEF RecvFailed, TakeReset, ResetIsClosed, FailedIsCaptured,
       AllCaptured, OutOpen
  <2>2. ASSUME ~capture_failed, UNCHANGED capture_failed PROVE FailedIsCaptured'
    BY <2>2 DEF FailedIsCaptured
  <2>3. ASSUME UNCHANGED capture_failed, UNCHANGED netVars
        PROVE  FailedIsCaptured'
    BY <2>3 DEF FailedIsCaptured, AllCaptured, OutOpen, netVars
  <2>4. CASE Spawn \/ Arm \/ Size \/ Shutdown \/ WriteNext \/ ReadNext
    BY <2>2, <2>4 DEF Spawn, Arm, Size, Shutdown, WriteNext, ReadNext, flags,
       Captured
  <2>5. CASE Send \/ SendAgain \/ SendFailed \/ Recv \/ RecvEof \/ RecvAgain
    BY <2>2, <2>5 DEF Send, SendAgain, SendFailed, Recv, RecvEof, RecvAgain,
       flags, Captured
  <2>6. CASE ReapStep \/ Collect \/ Conclude
    BY <2>3, <2>6 DEF ReapStep, Collect, Conclude, flags
  <2>7. CASE Environment
    <3>1. UNCHANGED capture_failed
      BY <2>7, EnvironmentFrame DEF harnessVars, flags
    <3> QED
      BY <2>7, <3>1, AllCapturedIsStable DEF FailedIsCaptured
  <2>8. CASE Deadline \/ UNCHANGED vars
    BY <2>3, <2>8 DEF Deadline, vars, flags
  <2> QED
    BY <2>1, <2>4, <2>5, <2>6, <2>7, <2>8 DEF Next, Harness, Terminated
<1> QED
  BY <1>1, <1>2, CaptureInvariant, ResetInvariant, PTL DEF Spec

\* A step into a program counter that is on no way to a verdict.
LEMMA NotConcluding ==
  ASSUME pc' \notin {"recv", "reapStop", "reapEof", "collect", "final", "done"}
  PROVE  CompleteAtEof'
BY DEF CompleteAtEof, Unfaulted

\* Without a fault, the verdict is on a stream that has ended.
THEOREM CompleteInvariant == Spec => []CompleteAtEof
<1>1. Init => CompleteAtEof
  BY DEF Init, CompleteAtEof, Unfaulted
<1>2. Typed /\ Captured /\ CompleteAtEof /\ [Next]_vars => CompleteAtEof'
  <2> SUFFICES ASSUME Typed, Captured, CompleteAtEof, [Next]_vars
               PROVE  CompleteAtEof'
    OBVIOUS
  <2>1. CASE Spawn \/ Arm \/ Shutdown \/ Size
    BY <2>1, NotConcluding DEF Spawn, Arm, Shutdown, Size
  <2>2. CASE Send \/ SendAgain \/ SendFailed
    BY <2>2, NotConcluding DEF Send, SendAgain, SendFailed
  <2>3. CASE WriteNext
    BY <2>3, NotConcluding DEF WriteNext
  <2>4. CASE ReadNext
    BY <2>4 DEF ReadNext, CompleteAtEof, Unfaulted
  <2>5. CASE Recv
    <3>1. (pc' = "read" /\ UNCHANGED truncated) \/ (pc' = "reapStop" /\ truncated')
      BY <2>5 DEF Recv, Capture
    <3> QED
      BY <3>1, NotConcluding DEF CompleteAtEof, Unfaulted
  <2>6. CASE RecvEof
    BY <2>6 DEF RecvEof, EndOfFile, flags, netVars, Captured, CompleteAtEof,
       Unfaulted, AllCaptured, OutOpen
  <2>7. CASE RecvAgain
    BY <2>7, NotConcluding DEF RecvAgain
  <2>8. CASE RecvFailed
    BY <2>8 DEF RecvFailed, CompleteAtEof, Unfaulted
  <2>9. CASE ReapStep
    BY <2>9 DEF ReapStep, AfterReap, flags, netVars, CompleteAtEof, Unfaulted,
       AllCaptured, OutOpen
  <2>10. CASE Collect
    BY <2>10 DEF Collect, netVars, CompleteAtEof, Unfaulted, AllCaptured, OutOpen
  <2>11. CASE Conclude
    BY <2>11 DEF Conclude, flags, netVars, CompleteAtEof, Unfaulted,
       AllCaptured, OutOpen
  <2>12. CASE Environment
    <3>1. UNCHANGED <<pc, truncated, timed_out, capture_failed>>
      BY <2>12, EnvironmentFrame DEF harnessVars, flags
    <3> QED
      BY <2>12, <3>1, AllCapturedIsStable DEF CompleteAtEof, Unfaulted
  <2>13. CASE Deadline
    BY <2>13 DEF Deadline, flags, netVars, CompleteAtEof, Unfaulted,
       AllCaptured, OutOpen
  <2>14. CASE UNCHANGED vars
    BY <2>14 DEF vars, flags, netVars, CompleteAtEof, Unfaulted, AllCaptured,
       OutOpen
  <2> QED
    BY <2>1, <2>2, <2>3, <2>4, <2>5, <2>6, <2>7, <2>8, <2>9, <2>10, <2>11,
       <2>12, <2>13, <2>14 DEF Next, Harness, Terminated
<1> QED
  BY <1>1, <1>2, TypeCorrect, CaptureInvariant, PTL DEF Spec, Typed

\* Unless the deadline or the bound has cut it, the output is everything the
\* worker side wrote (process.rs:166-175, 245-251).
THEOREM AnswersSurvive == Spec => []AnswerSurvives
<1>1. Typed /\ Captured /\ CompleteAtEof /\ FailedIsCaptured => AnswerSurvives
  <2> SUFFICES ASSUME Typed, Captured, CompleteAtEof, FailedIsCaptured,
                      pc = "done", ~timed_out, ~truncated
               PROVE  output = produced
    BY DEF AnswerSurvives
  <2>1. w2h = <<>> /\ produced = output \o w2h
    BY DEF CompleteAtEof, Unfaulted, FailedIsCaptured, AllCaptured, Captured,
       CaptureIsExact
  <2> QED
    BY <2>1, ConcatEmptySeq DEF Typed, TypeOK
<1> QED
  BY <1>1, TypeCorrect, CaptureInvariant, CompleteInvariant, FailedInvariant,
     PTL DEF Typed

\* The verdict is settled with the outcome and not touched again.
THEOREM VerdictInvariant == Spec => []VerdictIsSound
<1>1. Init => VerdictIsSound
  BY DEF Init, VerdictIsSound
<1>2. VerdictIsSound /\ [Next]_vars => VerdictIsSound'
  <2> SUFFICES ASSUME VerdictIsSound, [Next]_vars PROVE VerdictIsSound'
    OBVIOUS
  <2>1. ASSUME pc # "done", UNCHANGED verdict PROVE VerdictIsSound'
    BY <2>1 DEF verdict, VerdictIsSound
  <2>2. CASE Spawn \/ Arm \/ Shutdown \/ Size \/ WriteNext \/ ReadNext
    BY <2>1, <2>2 DEF Spawn, Arm, Shutdown, Size, WriteNext, ReadNext
  <2>3. CASE Send \/ SendAgain \/ SendFailed
    BY <2>1, <2>3 DEF Send, SendAgain, SendFailed, Returned
  <2>4. CASE Recv \/ RecvEof \/ RecvAgain \/ RecvFailed
    BY <2>1, <2>4 DEF Recv, RecvEof, RecvAgain, RecvFailed, Returned
  <2>5. CASE ReapStep \/ Collect
    BY <2>1, <2>5 DEF ReapStep, AfterReap, Collect
  <2>6. CASE Conclude
    BY <2>6 DEF Conclude, flags, VerdictIsSound
  <2>7. CASE Environment
    BY <2>7, EnvironmentFrame DEF harnessVars, flags, verdict, VerdictIsSound,
       Bound
  <2>8. CASE Deadline
    BY <2>1, <2>8 DEF Deadline, Stopped
  <2>9. CASE UNCHANGED vars
    BY <2>9 DEF vars, flags, verdict, VerdictIsSound, Bound
  <2> QED
    BY <2>2, <2>3, <2>4, <2>5, <2>6, <2>7, <2>8, <2>9
       DEF Next, Harness, Terminated
<1> QED
  BY <1>1, <1>2, PTL DEF Spec

\* Success is a native zero exit with a complete, bound capture
\* (process.rs:78-81).
THEOREM SuccessesAreNativeAndComplete == Spec => []SuccessIsNativeAndComplete
<1>1. /\ Typed /\ ProcInv /\ Captured /\ CompleteAtEof /\ VerdictIsSound
      => SuccessIsNativeAndComplete
  <2> SUFFICES ASSUME Typed, ProcInv, Captured, CompleteAtEof, VerdictIsSound,
                      exit_ok
               PROVE  status = "zero" /\ output = produced /\ Bound(produced)
    BY DEF SuccessIsNativeAndComplete
  <2>1. /\ pc = "done" /\ collected = "zero" /\ run_binding_proved
        /\ ~timed_out /\ ~truncated /\ ~capture_failed
    BY DEF VerdictIsSound
  <2>2. status = "zero"
    BY <2>1 DEF ProcInv, StatusIsNative
  <2>3. w2h = <<>> /\ produced = output \o w2h
    BY <2>1 DEF CompleteAtEof, Unfaulted, AllCaptured, Captured, CaptureIsExact
  <2>4. output = produced
    BY <2>3, ConcatEmptySeq DEF Typed, TypeOK
  <2> QED
    BY <2>1, <2>2, <2>4 DEF VerdictIsSound
<1> QED
  BY <1>1, TypeCorrect, ProcInvariant, CaptureInvariant, CompleteInvariant,
     VerdictInvariant, PTL DEF Typed

\* The bound is on the worker's content, and truncated says exactly that it was
\* exceeded (process.rs:185-189, 258-261).
THEOREM BoundsAreTheContents == Spec => []BoundIsTheContents
<1>1. Typed /\ Captured /\ CompleteAtEof => BoundIsTheContents
  <2> SUFFICES ASSUME Typed, Captured, CompleteAtEof, pc = "done"
               PROVE  /\ run_binding_proved => Len(Content) =< MaxOutput
                      /\ truncated => Len(produced) > MaxOutput + FrameLen
                      /\ (Len(produced) > Cap /\ ~timed_out /\ ~capture_failed)
                           => truncated
    BY DEF BoundIsTheContents
  <2>1. output \in Seq(Units) /\ Len(output) \in Nat /\ Len(output) =< Cap
        /\ Cap = MaxOutput + FrameLen /\ MaxOutput \in Nat /\ FrameLen = 2
    BY LenProperties, ParameterAssumption
       DEF Typed, TypeOK, HarnessTypeOK, Cap, FrameLen
  <2>2. run_binding_proved => Len(Content) =< MaxOutput
    <3> SUFFICES ASSUME run_binding_proved
                 PROVE  Len(SubSeq(output, 3, Len(output))) =< MaxOutput
      BY DEF Content
    <3>1. \A i \in 3..Len(output) : output[i] \in Units
      BY <2>1, ElementOfSeq
    <3>2. Len(SubSeq(output, 3, Len(output)))
            = IF 3 =< Len(output) THEN Len(output) - 2 ELSE 0
      BY <2>1, <3>1, SubSeqProperties
    <3> QED
      BY <2>1, <3>2
  <2>3. truncated => Len(produced) > MaxOutput + FrameLen
    BY <2>1 DEF Captured, CaptureIsExact
  <2>4. ASSUME Len(produced) > Cap, ~timed_out, ~capture_failed, ~truncated
        PROVE  FALSE
    <3>1. w2h = <<>> /\ produced = output \o w2h
      BY <2>4 DEF CompleteAtEof, Unfaulted, AllCaptured, Captured, CaptureIsExact
    <3>2. produced = output
      BY <2>1, <3>1, ConcatEmptySeq
    <3> QED
      BY <2>1, <2>4, <3>2
  <2> QED
    BY <2>2, <2>3, <2>4
<1> QED
  BY <1>1, TypeCorrect, CaptureInvariant, CompleteInvariant, PTL DEF Typed

-------------------------------------------------------------------------------
(* The group at success.                                                    *)

\* Before the wrapper has formed its group no program runs, so nothing is done
\* to the transport except by the leader's own end.
LEMMA QuietEnvironment ==
  ASSUME WrapperIsQuiet, Environment, pc # "spawn",
         KillsGroup, Leader \notin group', life'[Leader] = "running",
         Typed, ProcInv
  PROVE  /\ Leader \notin group /\ life[Leader] = "running"
         /\ Leader \in holds' /\ shut' = {}
<1> Leader \in Procs /\ Leader \notin Descendants
  BY LeaderAssumption DEF Procs
<1>0. life \in [Procs -> {"unborn", "running", "exiting", "zombie", "gone"}]
  BY DEF Typed, TypeOK, ProcTypeOK
<1>1. CASE Wrapper
  BY <1>1 DEF Wrapper, FormGroup
<1>2. CASE RecycleGroup
  BY <1>2 DEF RecycleGroup, Recycle, netVars, WrapperIsQuiet
<1>3. Leader \notin group
  <2>1. ASSUME NEW p \in Procs, NEW c \in Descendants, Fork(p, c)
        PROVE  Leader \notin group
    BY <2>1 DEF Fork
  <2>2. ASSUME NEW p \in Procs, LeaveGroup(p) PROVE Leader \notin group
    BY <2>2 DEF LeaveGroup
  <2>3. ASSUME NEW p \in Procs, EndExit(p) \/ (\E s \in Status : BeginExit(p, s))
        PROVE  Leader \notin group
    BY <2>3 DEF EndExit, BeginExit
  <2>4. CASE FormGroup \/ Recycle \/ UNCHANGED procVars
    BY <2>4 DEF FormGroup, Recycle, procVars
  <2> QED
    BY <2>1, <2>2, <2>3, <2>4, EnvironmentProc DEF EnvProc, Status
<1>4. \A p \in Procs : ~Active(p)
  BY <1>3 DEF Active
<1>5. ASSUME NEW p \in Procs, NEW s, BeginExit(p, s),
             IF p \in holds THEN Close(p) ELSE UNCHANGED netVars
      PROVE  /\ life[Leader] = "running" /\ Leader \in holds' /\ shut' = {}
  <2>1. p # Leader /\ life[Leader] = "running"
    BY <1>0, <1>5 DEF BeginExit
  <2>2. Leader \in holds /\ shut = {}
    BY <1>3, <2>1 DEF WrapperIsQuiet
  <2> QED
    BY <1>5, <2>1, <2>2 DEF Close, netVars
<1>6. ASSUME NEW p \in Procs, Worker(p)
      PROVE  /\ life[Leader] = "running" /\ Leader \in holds' /\ shut' = {}
  <2>1. WorkerExits(p)
    BY <1>4, <1>6 DEF Worker, WorkerReads, WorkerWrites, WorkerShuts,
       WorkerCloses, WorkerForks, WorkerLeavesGroup, LeaveGroup, Active
  <2> QED
    BY <1>5, <2>1 DEF WorkerExits
<1>7. ASSUME NEW p \in Procs, Dies(p)
      PROVE  /\ life[Leader] = "running" /\ Leader \in holds' /\ shut' = {}
  BY <1>5, <1>7 DEF Dies
<1>8. ASSUME NEW p \in Procs, Ends(p)
      PROVE  /\ life[Leader] = "running" /\ Leader \in holds' /\ shut' = {}
  <2>1. life[Leader] = "running"
    BY <1>0, <1>8 DEF Ends, EndExit
  <2> QED
    BY <1>3, <1>8, <2>1 DEF Ends, netVars, WrapperIsQuiet
<1> QED
  BY <1>1, <1>2, <1>3, <1>6, <1>7, <1>8 DEF Environment

\* Until the group is formed the transport stays in the wrapper's hands.
THEOREM WrapperInvariant == Spec => []WrapperIsQuiet
<1> Leader \in Procs
  BY DEF Procs
<1>1. Init => WrapperIsQuiet
  BY DEF Init, ProcInit, NetInit, WrapperIsQuiet
<1>2. Typed /\ ProcInv /\ WrapperIsQuiet /\ [Next]_vars => WrapperIsQuiet'
  <2> SUFFICES ASSUME Typed, ProcInv, WrapperIsQuiet, [Next]_vars
               PROVE  WrapperIsQuiet'
    OBVIOUS
  <2>0. life \in [Procs -> {"unborn", "running", "exiting", "zombie", "gone"}]
    BY DEF Typed, TypeOK, ProcTypeOK
  <2>1. ASSUME UNCHANGED <<holds, shut, life, group>>,
               pc # "spawn", pc' # "spawn"
        PROVE  WrapperIsQuiet'
    BY <2>1 DEF WrapperIsQuiet
  <2>2. CASE Spawn
    BY <2>0, <2>2 DEF Spawn, SpawnLeader, Inherit, procVars, netVars,
       WrapperIsQuiet, ProcInv, BeforeSpawn
  <2>3. CASE Arm \/ Size \/ WriteNext \/ ReadNext
    BY <2>1, <2>3 DEF Arm, Size, WriteNext, ReadNext, procVars, netVars
  <2>4. CASE Shutdown
    BY <2>1, <2>4 DEF Shutdown, EndInput, procVars
  <2>5. CASE Send \/ SendAgain \/ SendFailed
    BY <2>1, <2>5 DEF Send, SendAgain, SendFailed, Accept, Refuse, Returned,
       procVars, netVars
  <2>6. CASE RecvEof \/ RecvAgain \/ RecvFailed
    BY <2>1, <2>6 DEF RecvEof, RecvAgain, RecvFailed, TakeReset, Returned,
       procVars, netVars
  <2>7. CASE Recv
    BY <2>1, <2>7 DEF Recv, Capture, Deliver, Returned, procVars
  <2>8. CASE ReapStep
    <3>1. pc # "spawn" /\ pc' # "spawn"
      BY <2>8 DEF ReapStep, AfterReap
    <3> QED
      BY <2>1, <2>8, <3>1 DEF ReapStep, Reap, SignalGroup, SignalLeader,
         procVars, netVars
  <2>9. CASE Collect \/ Conclude
    <3>1. pc' # "spawn" /\ shut' = shut /\ holds' = holds /\ group' = group
      BY <2>9 DEF Collect, Conclude, CollectLeader, procVars, netVars
    <3>2. life'[Leader] = "running" => life[Leader] = "running"
      BY <2>0, <2>9 DEF Collect, Conclude, CollectLeader, procVars
    <3> QED
      BY <3>1, <3>2 DEF WrapperIsQuiet
  <2>10. CASE Environment
    <3>1. pc # "spawn" /\ pc' = pc
      BY <2>10, EnvironmentNeedsLife, EnvironmentFrame
         DEF harnessVars, ProcInv, BeforeSpawn
    <3> QED
      BY <2>10, <3>1, QuietEnvironment DEF WrapperIsQuiet
  <2>11. CASE Deadline
    BY <2>1, <2>11 DEF Deadline, procVars, netVars
  <2>12. CASE UNCHANGED vars
    BY <2>12 DEF vars, procVars, netVars, WrapperIsQuiet
  <2> QED
    BY <2>2, <2>3, <2>4, <2>5, <2>6, <2>7, <2>8, <2>9, <2>10, <2>11, <2>12
       DEF Next, Harness, Terminated
<1> QED
  BY <1>1, <1>2, TypeCorrect, ProcInvariant, PTL DEF Spec, Typed

\* When the end of file is reached by a wrapper that never ran, it is dead.
LEMMA EofWithoutGroup ==
  ASSUME KillsGroup, WrapperIsQuiet, AllCaptured, ProcInv, group = {}
  PROVE  life[Leader] # "running"
BY DEF WrapperIsQuiet, AllCaptured, OutOpen

\* A step of the worker side does not undo the cleanup.
LEMMA ClearedEnvironment ==
  ASSUME Typed, Environment, cleared \/ (group = {} /\ life[Leader] # "running"),
         ProcInv
  PROVE  (cleared \/ (group = {} /\ life[Leader] # "running"))'
<1> Leader \in Procs /\ Leader \notin Descendants
  BY LeaderAssumption DEF Procs
<1>0. life \in [Procs -> {"unborn", "running", "exiting", "zombie", "gone"}]
  BY DEF Typed, TypeOK, ProcTypeOK
<1>1. cleared' = cleared
  BY EnvironmentFrame DEF harnessVars, history
<1>2. CASE UNCHANGED procVars
  BY <1>1, <1>2 DEF procVars
<1>3. CASE FormGroup \/ Recycle
  BY <1>1, <1>3 DEF FormGroup, Recycle, Running
<1>4. ASSUME NEW p \in Procs, NEW c \in Descendants, Fork(p, c), ~cleared
      PROVE  (group = {} /\ life[Leader] # "running")'
  BY <1>0, <1>4 DEF Fork
<1>5. ASSUME NEW p \in Procs, LeaveGroup(p), ~cleared
      PROVE  (group = {} /\ life[Leader] # "running")'
  BY <1>5 DEF LeaveGroup
<1>6. ASSUME NEW p \in Procs, EndExit(p) \/ (\E s \in Status : BeginExit(p, s)),
             ~cleared
      PROVE  (group = {} /\ life[Leader] # "running")'
  BY <1>0, <1>6 DEF EndExit, BeginExit
<1> QED
  BY <1>1, <1>2, <1>3, <1>4, <1>5, <1>6, EnvironmentProc DEF EnvProc, Status

\* Past the end of file every member of the group is dying, as long as
\* /bin/kill does what it is asked.
THEOREM ClearedInvariant ==
  ASSUME KillsGroup, "kill" \notin Faults
  PROVE  Spec => []ClearedAtEof
<1>1. Init => ClearedAtEof
  BY DEF Init, ClearedAtEof, Unfaulted
<1>2. ASSUME Typed, ProcInv, CompleteAtEof, WrapperIsQuiet, ClearedAtEof,
             [Next]_vars
      PROVE  ClearedAtEof'
  <2> DEFINE Clean == cleared \/ (group = {} /\ life[Leader] # "running")
  <2>1. ASSUME ~Unfaulted' \/ pc' = "reapEof" PROVE ClearedAtEof'
    BY <2>1 DEF ClearedAtEof
  <2>2. ASSUME Clean' PROVE ClearedAtEof'
    BY <2>2 DEF ClearedAtEof
  <2>3. CASE Spawn \/ Arm \/ Shutdown \/ Size \/ WriteNext
    BY <2>1, <2>3 DEF Spawn, Arm, Shutdown, Size, WriteNext, Unfaulted
  <2>4. CASE Send \/ SendAgain \/ SendFailed \/ RecvEof \/ RecvAgain
    BY <2>1, <2>4 DEF Send, SendAgain, SendFailed, RecvEof, RecvAgain, Unfaulted
  <2>5. CASE ReadNext
    BY <2>1, <2>5 DEF ReadNext, Unfaulted
  <2>6. CASE Recv \/ RecvFailed
    <3>1. pc' \in {"read", "reapStop"}
      BY <2>6 DEF Recv, Capture, RecvFailed
    <3> QED
      BY <2>1, <3>1 DEF Unfaulted
  <2>7. CASE ReapStep
    <3>1. CASE pc = "reapEof"
      <4>1. AllCaptured
        BY <1>2, <3>1 DEF CompleteAtEof, Unfaulted
      <4>2. /\ cleared' = (cleared \/ group # {})
            /\ UNCHANGED <<group, life>>
        BY <1>2, <2>7 DEF ReapStep, Reap, SignalGroup
      <4>3. group = {} => life[Leader] # "running"
        BY <1>2, <4>1, EofWithoutGroup
      <4>4. Clean'
        BY <4>2, <4>3
      <4> QED
        BY <2>2, <4>4
    <3>2. CASE pc # "reapEof"
      BY <1>2, <2>1, <2>7, <3>2
         DEF ReapStep, AfterReap, flags, CompleteAtEof, Unfaulted
    <3> QED
      BY <3>1, <3>2
  <2>8. CASE Collect
    <3>1. CASE Unfaulted'
      <4>1. Clean
        BY <1>2, <2>8 DEF Collect, ClearedAtEof, Unfaulted
      <4>2. Clean'
        <5>1. group' = group /\ cleared' = cleared
          BY <2>8 DEF Collect, CollectLeader, procVars, history
        <5>2. life'[Leader] = "running" => life[Leader] = "running"
          BY <1>2, <2>8 DEF Collect, CollectLeader, procVars, Typed, TypeOK,
             ProcTypeOK, Procs
        <5> QED
          BY <4>1, <5>1, <5>2
      <4> QED
        BY <2>2, <4>2
    <3> QED
      BY <2>1, <3>1
  <2>9. CASE Conclude
    <3>1. CASE Unfaulted'
      <4>1. Clean
        BY <1>2, <2>9, <3>1 DEF Conclude, flags, ClearedAtEof, Unfaulted
      <4>2. Clean'
        <5>1. group' = group /\ cleared' = cleared
          BY <2>9 DEF Conclude, CollectLeader, procVars, history
        <5>2. life'[Leader] = "running" => life[Leader] = "running"
          BY <1>2, <2>9 DEF Conclude, CollectLeader, procVars, Typed, TypeOK,
             ProcTypeOK, Procs
        <5> QED
          BY <4>1, <5>1, <5>2
      <4> QED
        BY <2>2, <4>2
    <3> QED
      BY <2>1, <3>1
  <2>10. CASE Environment
    <3>1. UNCHANGED <<pc, truncated, timed_out, capture_failed>>
      BY <2>10, EnvironmentFrame DEF harnessVars, flags
    <3>2. CASE Unfaulted' /\ pc' # "reapEof"
      <4>1. Clean
        BY <1>2, <3>1, <3>2 DEF ClearedAtEof, Unfaulted
      <4>2. Clean'
        BY <1>2, <2>10, <4>1, ClearedEnvironment
      <4> QED
        BY <2>2, <4>2
    <3> QED
      BY <2>1, <3>2
  <2>11. CASE Deadline \/ UNCHANGED vars
    BY <1>2, <2>11 DEF Deadline, vars, flags, procVars, history, ClearedAtEof,
       Unfaulted
  <2> QED
    BY <1>2, <2>3, <2>4, <2>5, <2>6, <2>7, <2>8, <2>9, <2>10, <2>11
       DEF Next, Harness, Terminated
<1> QED
  BY <1>1, <1>2, TypeCorrect, ProcInvariant, CompleteInvariant,
     WrapperInvariant, PTL DEF Spec, Typed

\* A run reported successful leaves no member of its group running
\* (process.rs:207-212).
THEOREM SuccessesLeaveNoGroup ==
  ASSUME KillsGroup, "kill" \notin Faults
  PROVE  Spec => []SuccessLeavesNoGroup
<1>1. ProcInv /\ VerdictIsSound /\ ClearedAtEof => SuccessLeavesNoGroup
  <2> SUFFICES ASSUME ProcInv, VerdictIsSound, ClearedAtEof, exit_ok
               PROVE  LiveMembers \subseteq signalled
    BY DEF SuccessLeavesNoGroup
  <2>1. cleared \/ group = {}
    BY DEF VerdictIsSound, ClearedAtEof, Unfaulted
  <2> QED
    BY <2>1 DEF ProcInv, Cleared, LiveMembers
<1> QED
  BY <1>1, ProcInvariant, VerdictInvariant, ClearedInvariant, PTL

-------------------------------------------------------------------------------
(* The promise of ConfinedRun.                                              *)

\* Every fault ends the loop it appears in before another can appear.
THEOREM FaultsExclude == Spec => []OneFault
<1>1. Init => OneFault
  BY DEF Init, OneFault
<1>2. Captured /\ CompleteAtEof /\ OneFault /\ [Next]_vars => OneFault'
  <2> SUFFICES ASSUME Captured, CompleteAtEof, OneFault, [Next]_vars PROVE OneFault'
    OBVIOUS
  <2>1. CASE UNCHANGED flags
    BY <2>1 DEF flags, OneFault
  <2>2. CASE WriteNext \/ ReadNext
    BY <2>2 DEF WriteNext, ReadNext, Captured, OneFault
  <2>3. CASE Recv
    BY <2>3 DEF Recv, Captured, CompleteAtEof, OneFault
  <2>4. CASE RecvFailed
    BY <2>4 DEF RecvFailed, Captured, CompleteAtEof, OneFault
  <2>5. CASE Collect
    BY <2>5 DEF Collect, CompleteAtEof, OneFault
  <2>6. CASE Spawn \/ Arm \/ Shutdown \/ Size \/ ReapStep \/ Conclude
    BY <2>1, <2>6 DEF Spawn, Arm, Shutdown, Size, ReapStep, Conclude
  <2>7. CASE Send \/ SendAgain \/ SendFailed \/ RecvEof \/ RecvAgain
    BY <2>1, <2>7 DEF Send, SendAgain, SendFailed, RecvEof, RecvAgain
  <2>8. CASE Environment
    BY <2>1, <2>8, EnvironmentFrame DEF harnessVars
  <2>9. CASE Deadline \/ UNCHANGED vars
    BY <2>1, <2>9 DEF Deadline, vars
  <2> QED
    BY <2>2, <2>3, <2>4, <2>5, <2>6, <2>7, <2>8, <2>9
       DEF Next, Harness, Terminated
<1> QED
  BY <1>1, <1>2, CaptureInvariant, CompleteInvariant, PTL DEF Spec

\* So a set of faults that is reported has one member or none.
LEMMA OneFaultIsReported ==
  ASSUME OneFault
  PROVE  ReportedFaults \in {{}} \cup {{fault} : fault \in Run!Faulty}
<1>1. ReportedFaults \subseteq Run!Faulty
  BY DEF ReportedFaults, Run!Faulty
<1>2. \A f, g \in ReportedFaults : f = g
  BY DEF ReportedFaults, OneFault
<1>3. ReportedFaults = {} \/ \E f \in Run!Faulty : ReportedFaults = {f}
  BY <1>1, <1>2
<1> QED
  BY <1>3

\* What is handed over is a prefix of what was written, within the capture bound.
LEMMA OutputIsAPrefix ==
  ASSUME Typed, Captured
  PROVE  /\ Len(output) \in 0..Len(produced) /\ Len(output) =< MaxOutput + 2
         /\ SubSeq(produced, 1, Len(output)) = output
<1>1. /\ output \in Seq(Units) /\ w2h \in Seq(Units) /\ produced \in Seq(Units)
      /\ Len(output) \in Nat /\ Len(w2h) \in Nat /\ Len(produced) \in Nat
      /\ Cap \in Nat /\ Len(output) =< Cap /\ Cap = MaxOutput + 2
  BY LenProperties, SizesAreNat
     DEF Typed, TypeOK, NetTypeOK, HarnessTypeOK, Cap, FrameLen
<1>2. CASE truncated
  BY <1>1, <1>2 DEF Captured, CaptureIsExact
<1>3. CASE ~truncated
  <2>1. produced = output \o w2h
    BY <1>3 DEF Captured, CaptureIsExact
  <2>2. Len(produced) = Len(output) + Len(w2h)
    BY <1>1, <2>1, ConcatProperties
  <2>3. SubSeq(output \o w2h, 1, Len(output) + 0) = output \o SubSeq(w2h, 1, 0)
    BY <1>1, PrefixOfConcat
  <2>4. SubSeq(w2h, 1, 0) = << >>
    BY <1>1, SubSeqEmpty
  <2>5. output \o << >> = output
    BY <1>1, ConcatEmptySeq
  <2> QED
    BY <1>1, <2>1, <2>2, <2>3, <2>4, <2>5
<1> QED
  BY <1>2, <1>3

\* Outside the end of a run, a step that neither writes nor ends the leader starts
\* it, refuses it, or is not seen.
LEMMA QuietStep ==
  ASSUME pc \notin {"done", "refused"}, pc' # "done",
         pc = "spawn" \/ pc' # "spawn", UNCHANGED <<produced, status, verdict>>
  PROVE  [Run!RunNext]_(Run!runVars)
<1> USE DEF AbstractStage, verdict
<1>1. CASE pc' = pc \/ (pc # "spawn" /\ pc' # "refused")
  BY <1>1 DEF Run!runVars
<1>2. CASE pc' = "refused"
  BY <1>2 DEF Run!RunNext, Run!RefuseRun
<1>3. CASE pc = "spawn" /\ pc' \notin {"spawn", "refused"}
  BY <1>3 DEF Run!RunNext, Run!Start
<1> QED
  BY <1>1, <1>2, <1>3

\* What is seen of the environment: a unit written while the run lasts, or the end
\* of the leader.
LEMMA ObservedEnvironment ==
  ASSUME Typed, ProcInv, Environment
  PROVE  \/ UNCHANGED <<produced, status>>
         \/ /\ ~Stopped /\ UNCHANGED status
            /\ \E u \in Units : produced' = Append(produced, u)
         \/ /\ status = "none" /\ status' \in {"zero", "nonzero", "killed"}
            /\ UNCHANGED produced
<1> DEFINE Seen ==
      \/ UNCHANGED <<produced, status>>
      \/ /\ ~Stopped /\ UNCHANGED status
         /\ \E u \in Units : produced' = Append(produced, u)
      \/ /\ status = "none" /\ status' \in {"zero", "nonzero", "killed"}
         /\ UNCHANGED produced
<1>1. CASE Wrapper \/ RecycleGroup
  BY <1>1 DEF Wrapper, RecycleGroup, FormGroup, Recycle, netVars
<1>2. ASSUME NEW p \in Procs, NEW s \in {"zero", "nonzero", "killed"},
             BeginExit(p, s), Close(p) \/ UNCHANGED netVars
      PROVE  Seen
  <2>1. UNCHANGED produced
    BY <1>2 DEF Close, netVars
  <2>2. CASE p # Leader
    BY <1>2, <2>1, <2>2 DEF BeginExit
  <2>3. CASE p = Leader
    <3>1. status = "none" /\ status' = s
      BY <1>2, <2>3 DEF BeginExit, ProcInv, StatusIsNative
    <3> QED
      BY <2>1, <3>1
  <2> QED
    BY <2>2, <2>3
<1>3. ASSUME NEW p \in Procs, Worker(p) PROVE Seen
  <2>1. CASE WorkerReads(p) \/ WorkerShuts(p) \/ WorkerCloses(p)
    BY <2>1 DEF WorkerReads, WorkerShuts, WorkerCloses, ReadInput, ShutDirection,
       Close, procVars
  <2>2. CASE WorkerWrites(p)
    BY <2>2 DEF WorkerWrites, WriteOutput, procVars
  <2>3. CASE WorkerForks(p)
    BY <2>3 DEF WorkerForks, Fork, Inherit, netVars
  <2>4. CASE WorkerLeavesGroup(p)
    BY <2>4 DEF WorkerLeavesGroup, LeaveGroup, netVars
  <2>5. CASE WorkerExits(p)
    <3>1. \E s \in {"zero", "nonzero", "killed"} : BeginExit(p, s)
      BY <2>5 DEF WorkerExits
    <3>2. Close(p) \/ UNCHANGED netVars
      BY <2>5 DEF WorkerExits
    <3> QED
      BY <1>2, <3>1, <3>2
  <2> QED
    BY <1>3, <2>1, <2>2, <2>3, <2>4, <2>5 DEF Worker
<1>4. ASSUME NEW p \in Procs, Dies(p) PROVE Seen
  BY <1>2, <1>4 DEF Dies
<1>5. ASSUME NEW p \in Procs, Ends(p) PROVE Seen
  BY <1>5 DEF Ends, EndExit, netVars
<1> QED
  BY <1>1, <1>3, <1>4, <1>5 DEF Environment

\* The environment's part of the refinement.
LEMMA EnvironmentRefines ==
  ASSUME Typed, ProcInv, Environment
  PROVE  [Run!RunNext]_(Run!runVars)
<1>1. /\ UNCHANGED <<pc, output, verdict>> /\ ReportedFaults' = ReportedFaults
      /\ Content' = Content /\ AbstractStage' = AbstractStage
  BY EnvironmentFrame DEF harnessVars, flags, verdict, ReportedFaults, Content,
     AbstractStage
<1>2. pc # "spawn"
  <2>1. \E p \in Procs : life[p] \in {"running", "exiting", "gone"}
    BY EnvironmentNeedsLife
  <2> QED
    BY <2>1 DEF ProcInv, BeforeSpawn
<1>3. CASE UNCHANGED <<produced, status>>
  BY <1>1, <1>3 DEF Run!runVars, verdict
<1>4. CASE /\ ~Stopped /\ UNCHANGED status
           /\ \E u \in Units : produced' = Append(produced, u)
  <2>1. AbstractStage = "running"
    BY <1>2, <1>4 DEF AbstractStage, Stopped
  <2> QED
    BY <1>1, <1>4, <2>1 DEF Run!RunNext, Run!Emit, verdict
<1>5. CASE /\ status = "none" /\ status' \in {"zero", "nonzero", "killed"}
           /\ UNCHANGED produced
  <2>1. AbstractStage # "idle"
    BY <1>2 DEF AbstractStage
  <2> QED
    BY <1>1, <1>5, <2>1 DEF Run!RunNext, Run!ExitLeader, verdict
<1> QED
  BY <1>3, <1>4, <1>5, ObservedEnvironment

\* The verdict is the abstract run's settlement.
LEMMA ConcludeSettles ==
  ASSUME Typed, ProcInv, ProcInv', Captured, CompleteAtEof, OneFault, Conclude
  PROVE  Run!SettleRun
<1>1. /\ pc = "final" /\ pc' = "done" /\ UNCHANGED <<output, flags, netVars>>
      /\ run_binding_proved' = Bound(output)
      /\ exit_ok' => /\ collected' = "zero" /\ run_binding_proved'
                     /\ ~timed_out /\ ~truncated /\ ~capture_failed
  BY DEF Conclude
<1>2. UNCHANGED <<produced, status>>
  BY DEF Conclude, CollectLeader, procVars, netVars
<1>3. AbstractStage = "running" /\ AbstractStage' = "settled"
  BY <1>1 DEF AbstractStage
<1>4. ReportedFaults' = ReportedFaults
  BY <1>1 DEF flags, ReportedFaults
<1>5. ReportedFaults = {} => ~timed_out /\ ~truncated /\ ~capture_failed
  BY DEF ReportedFaults
<1>6. ReportedFaults = {} => output = produced
  <2> SUFFICES ASSUME ReportedFaults = {} PROVE output = produced
    OBVIOUS
  <2>1. w2h = <<>> /\ produced = output \o w2h
    BY <1>1, <1>5 DEF CompleteAtEof, Unfaulted, AllCaptured, Captured, CaptureIsExact
  <2> QED
    BY <2>1, ConcatEmptySeq DEF Typed, TypeOK
<1>7. /\ Len(output) \in 0..Len(produced) /\ Len(output) =< MaxOutput + 2
      /\ SubSeq(produced, 1, Len(output)) = output
  BY OutputIsAPrefix
<1>8. /\ run_binding_proved' = Run!CarriesToken(output)
      /\ Content' = Run!Unframed(output)
  BY <1>1 DEF Bound, Content, Run!CarriesToken, Run!Unframed
<1>9. exit_ok' \in BOOLEAN /\ (exit_ok' => /\ status = "zero" /\ ReportedFaults = {}
                                           /\ run_binding_proved')
  <2>1. exit_ok' \in BOOLEAN
    BY DEF Conclude
  <2>2. collected' = "zero" => status = "zero"
    BY <1>2 DEF ProcInv, StatusIsNative
  <2> QED
    BY <1>1, <2>1, <2>2 DEF ReportedFaults
<1>10. ReportedFaults \in {{}} \cup {{fault} : fault \in Run!Faulty}
  BY OneFaultIsReported
<1> QED
  BY <1>1, <1>2, <1>3, <1>4, <1>6, <1>7, <1>8, <1>9, <1>10 DEF Run!SettleRun

\* The outcome is settled once and is never better than the run, for any payload,
\* bounds, descendants and faults: spawn_confined implements what it promises
\* (process.rs:33-86, 255-276).
THEOREM SpawnImplementsConfinedRun == Spec => ImplementsConfinedRun
<1>1. Init => Run!RunInit
  BY DEF Init, ProcInit, NetInit, AbstractStage, Run!RunInit
<1>2. /\ Typed /\ ProcInv /\ ProcInv' /\ Captured /\ CompleteAtEof
      /\ VerdictIsSound /\ OneFault /\ [Next]_vars
      => [Run!RunNext]_(Run!runVars)
  <2> SUFFICES ASSUME Typed, ProcInv, ProcInv', Captured, CompleteAtEof,
                      VerdictIsSound, OneFault, [Next]_vars
               PROVE  [Run!RunNext]_(Run!runVars)
    OBVIOUS
  <2>1. CASE Spawn
    BY <2>1, QuietStep DEF Spawn, SpawnLeader, Inherit, netVars, procVars
  <2>2. CASE Arm \/ Size \/ WriteNext \/ ReadNext
    BY <2>2, QuietStep DEF Arm, Size, WriteNext, ReadNext, netVars, procVars
  <2>3. CASE Shutdown
    BY <2>3, QuietStep DEF Shutdown, EndInput, procVars
  <2>4. CASE Send \/ SendAgain \/ SendFailed
    BY <2>4, QuietStep DEF Send, SendAgain, SendFailed, Accept, Refuse, Returned,
       netVars, procVars
  <2>5. CASE Recv
    <3>1. pc = "recv" /\ pc' \in {"read", "reapStop"}
      BY <2>5 DEF Recv, Capture
    <3>2. UNCHANGED <<produced, status, verdict>>
      BY <2>5 DEF Recv, Deliver, Returned, procVars
    <3> QED
      BY <3>1, <3>2, QuietStep
  <2>6. CASE RecvEof \/ RecvAgain \/ RecvFailed
    BY <2>6, QuietStep DEF RecvEof, RecvAgain, RecvFailed, TakeReset, Returned,
       netVars, procVars
  <2>7. CASE ReapStep
    BY <2>7, QuietStep DEF ReapStep, AfterReap, Reap, SignalGroup, SignalLeader,
       netVars, procVars
  <2>8. CASE Collect
    BY <2>8, QuietStep DEF Collect, CollectLeader, netVars, procVars
  <2>9. CASE Conclude
    BY <2>9, ConcludeSettles DEF Run!RunNext
  <2>10. CASE Environment
    BY <2>10, EnvironmentRefines
  <2>11. CASE Deadline
    BY <2>11, QuietStep DEF Deadline, Stopped, netVars, procVars
  <2>12. CASE UNCHANGED vars
    BY <2>12 DEF vars, flags, verdict, procVars, netVars, AbstractStage, Content,
       ReportedFaults, Run!runVars
  <2> QED
    BY <2>1, <2>2, <2>3, <2>4, <2>5, <2>6, <2>7, <2>8, <2>9, <2>10, <2>11,
       <2>12 DEF Next, Harness, Terminated
<1> QED
  BY <1>1, <1>2, TypeCorrect, ProcInvariant, CaptureInvariant, CompleteInvariant,
     VerdictInvariant, FaultsExclude, PTL
     DEF Spec, Typed, ImplementsConfinedRun, Run!RunSpec
===============================================================================
