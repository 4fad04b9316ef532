-------------------------- MODULE SpawnSafetyProofs --------------------------
(***************************************************************************)
(* Theorems about SpawnConfined for every set of descendants, every size   *)
(* of payload, bound and buffer, and every set of host calls that may      *)
(* fail: which actions leave which parts of the state alone, the type      *)
(* invariant, and the safety properties of the processes and of the        *)
(* capture, by the inductive invariants of SpawnInvariants.                *)
(***************************************************************************)
EXTENDS SpawnInvariants, SequenceTheorems, TLAPS

-------------------------------------------------------------------------------
(* Every step of the system is at most one step of the processes and one of *)
(* the socket pair; most of them leave both alone.                          *)

ProcNext ==
  \/ SpawnLeader \/ FormGroup \/ SignalGroup \/ SignalLeader
  \/ CollectLeader \/ Recycle
  \/ \E p \in Procs :
       \/ \E c \in Descendants : Fork(p, c)
       \/ LeaveGroup(p) \/ EndExit(p)
       \/ \E s \in Status \ {"none"} : BeginExit(p, s)

NetNext ==
  \/ ReadInput \/ Refuse \/ TakeReset \/ EndInput
  \/ \E u \in Units : WriteOutput(u)
  \/ \E d \in {"in", "out"} : ShutDirection(d)
  \/ \E p \in Procs : Inherit(p) \/ Close(p)
  \/ \E n \in 1..(FramedLen - written) : Accept(n)
  \/ \E n \in 1..ReadBuffer : Deliver(n)

\* The sizes the harness computes with are natural numbers.
LEMMA SizesAreNat == FramedLen \in Nat /\ Cap \in Nat
  BY ParameterAssumption DEF FramedLen, Cap, FrameLen

-------------------------------------------------------------------------------
(* Type correctness.                                                        *)

TransportTypeOK == NetTypeOK /\ written =< FramedLen /\ holds \subseteq Procs

\* The initial state is well typed.
LEMMA InitType == Init => TypeOK
<1> SUFFICES ASSUME Init PROVE TypeOK
  OBVIOUS
<1>1. ProcTypeOK
  BY DEF Init, ProcInit, ProcTypeOK, Status
<1>0. <<>> \in Seq(Units)
  BY EmptySeq
<1>2. TransportTypeOK
  <2>1. NetTypeOK
    <3>1. written \in Nat /\ readIn \in 0..written
      BY DEF Init, NetInit
    <3>2. ended \in BOOLEAN /\ shut \subseteq {"in", "out"}
      BY DEF Init, NetInit
    <3>3. reset \in {"none", "pending", "taken"}
      BY DEF Init, NetInit
    <3>4. w2h \in Seq(Units) /\ produced \in Seq(Units)
      BY <1>0 DEF Init, NetInit
    <3> QED
      BY <3>1, <3>2, <3>3, <3>4 DEF NetTypeOK
  <2>2. written =< FramedLen /\ holds \subseteq Procs
    BY SizesAreNat DEF Init, NetInit
  <2> QED
    BY <2>1, <2>2 DEF TransportTypeOK
<1>3. output \in Seq(Units)
  BY <1>0 DEF Init
<1> QED
  BY <1>1, <1>2, <1>3 DEF Init, TypeOK, TransportTypeOK, Labels, Status

\* A step of the processes keeps their type.
LEMMA ProcStepType ==
  ASSUME ProcTypeOK, ProcNext \/ UNCHANGED procVars
  PROVE  ProcTypeOK'
<1> USE DEF ProcTypeOK
<1> Leader \in Procs /\ Descendants \subseteq Procs
  BY DEF Procs
<1>1. CASE SpawnLeader \/ FormGroup \/ CollectLeader \/ Recycle
  BY <1>1 DEF SpawnLeader, FormGroup, CollectLeader, Recycle
<1>2. CASE SignalGroup \/ SignalLeader
  BY <1>2 DEF SignalGroup, SignalLeader, LiveMembers
<1>3. ASSUME NEW p \in Procs, NEW c \in Descendants, Fork(p, c)
      PROVE  ProcTypeOK'
  BY <1>3 DEF Fork
<1>4. ASSUME NEW p \in Procs, LeaveGroup(p) \/ EndExit(p)
      PROVE  ProcTypeOK'
  BY <1>4 DEF LeaveGroup, EndExit
<1>5. ASSUME NEW p \in Procs, NEW s \in Status, BeginExit(p, s)
      PROVE  ProcTypeOK'
  BY <1>5 DEF BeginExit
<1>6. CASE UNCHANGED procVars
  BY <1>6 DEF procVars
<1> QED
  BY <1>1, <1>2, <1>3, <1>4, <1>5, <1>6 DEF ProcNext

\* A step of the socket pair keeps its type.
LEMMA NetStepType ==
  ASSUME TransportTypeOK, NetNext \/ UNCHANGED netVars
  PROVE  TransportTypeOK'
<1> USE DEF TransportTypeOK, NetTypeOK
<1>1. CASE ReadInput
  BY <1>1 DEF ReadInput
<1>8. CASE EndInput
  BY <1>8 DEF EndInput
<1>9. CASE Refuse
  BY <1>9 DEF Refuse
<1>10. CASE TakeReset
  BY <1>10 DEF TakeReset
<1>2. ASSUME NEW u \in Units, WriteOutput(u) PROVE TransportTypeOK'
  BY <1>2, AppendProperties DEF WriteOutput
<1>3. ASSUME NEW d \in {"in", "out"}, ShutDirection(d) PROVE TransportTypeOK'
  BY <1>3 DEF ShutDirection
<1>4. ASSUME NEW p \in Procs, Inherit(p) \/ Close(p) PROVE TransportTypeOK'
  BY <1>4 DEF Inherit, Close
<1>5. ASSUME NEW n \in 1..(FramedLen - written), Accept(n)
      PROVE  TransportTypeOK'
  BY <1>5, SizesAreNat DEF Accept
<1>6. ASSUME NEW n \in 1..ReadBuffer, Deliver(n) PROVE TransportTypeOK'
  <2>1. w2h' \in Seq(Units)
    BY <1>6, LenProperties, SubSeqProperties DEF Deliver
  <2> QED
    BY <1>6, <2>1 DEF Deliver
<1>7. CASE UNCHANGED netVars
  BY <1>7 DEF netVars
<1> QED
  BY <1>1, <1>2, <1>3, <1>4, <1>5, <1>6, <1>7, <1>8, <1>9, <1>10
     DEF NetNext

\* Every step of the system is a step or a stutter of the processes.
LEMMA ProcProjection ==
  ASSUME [Next]_vars
  PROVE  ProcNext \/ UNCHANGED procVars
<1>1. CASE Harness
  <2>1. CASE Spawn
    BY <2>1 DEF Spawn, ProcNext
  <2>2. CASE ReapStep
    BY <2>2 DEF ReapStep, Reap, ProcNext
  <2>3. CASE Collect \/ Conclude
    BY <2>3 DEF Collect, Conclude, ProcNext
  <2>4. CASE Arm \/ WriteNext \/ Shutdown \/ Size \/ ReadNext
    BY <2>4 DEF Arm, WriteNext, Shutdown, Size, ReadNext
  <2>5. CASE Send \/ SendAgain \/ SendFailed
    BY <2>5 DEF Send, SendAgain, SendFailed, Returned
  <2>6. CASE Recv \/ RecvEof \/ RecvAgain \/ RecvFailed
    BY <2>6 DEF Recv, RecvEof, RecvAgain, RecvFailed, Returned
  <2> QED
    BY <1>1, <2>1, <2>2, <2>3, <2>4, <2>5, <2>6 DEF Harness
<1>2. CASE Wrapper \/ RecycleGroup
  BY <1>2 DEF Wrapper, RecycleGroup, ProcNext
<1>3. ASSUME NEW p \in Procs, Worker(p) PROVE ProcNext \/ UNCHANGED procVars
  <2>1. CASE WorkerReads(p) \/ WorkerWrites(p) \/ WorkerShuts(p) \/ WorkerCloses(p)
    BY <2>1 DEF WorkerReads, WorkerWrites, WorkerShuts, WorkerCloses
  <2>2. CASE WorkerForks(p) \/ WorkerLeavesGroup(p)
    BY <2>2 DEF WorkerForks, WorkerLeavesGroup, ProcNext
  <2>3. CASE WorkerExits(p)
    BY <2>3 DEF WorkerExits, ProcNext, Status
  <2> QED
    BY <1>3, <2>1, <2>2, <2>3 DEF Worker
<1>4. ASSUME NEW p \in Procs, Dies(p) \/ Ends(p)
      PROVE  ProcNext \/ UNCHANGED procVars
  BY <1>4 DEF Dies, Ends, ProcNext, Status
<1>5. CASE Deadline \/ UNCHANGED vars
  BY <1>5 DEF Deadline, vars
<1> QED
  BY <1>1, <1>2, <1>3, <1>4, <1>5 DEF Next, Environment, Terminated

\* Every step of the system is a step or a stutter of the socket pair.
LEMMA NetProjection ==
  ASSUME [Next]_vars
  PROVE  NetNext \/ UNCHANGED netVars
<1>1. CASE Harness
  <2>1. CASE Spawn
    BY <2>1 DEF Spawn, NetNext, Procs
  <2>2. CASE ReapStep \/ Collect \/ Conclude
    BY <2>2 DEF ReapStep, Collect, Conclude
  <2>3. CASE Arm \/ WriteNext \/ Size \/ ReadNext
    BY <2>3 DEF Arm, WriteNext, Size, ReadNext
  <2>4. CASE Shutdown
    BY <2>4 DEF Shutdown, NetNext
  <2>5. CASE Send \/ SendAgain \/ SendFailed
    BY <2>5 DEF Send, SendAgain, SendFailed, NetNext
  <2>6. CASE Recv \/ RecvEof \/ RecvAgain \/ RecvFailed
    BY <2>6 DEF Recv, RecvEof, RecvAgain, RecvFailed, NetNext
  <2> QED
    BY <1>1, <2>1, <2>2, <2>3, <2>4, <2>5, <2>6 DEF Harness
<1>2. CASE Wrapper \/ RecycleGroup
  BY <1>2 DEF Wrapper, RecycleGroup
<1>3. ASSUME NEW p \in Procs, Worker(p) PROVE NetNext \/ UNCHANGED netVars
  <2>1. CASE WorkerReads(p) \/ WorkerWrites(p) \/ WorkerShuts(p) \/ WorkerCloses(p)
    BY <2>1 DEF WorkerReads, WorkerWrites, WorkerShuts, WorkerCloses, NetNext
  <2>2. CASE WorkerForks(p) \/ WorkerLeavesGroup(p)
    BY <2>2 DEF WorkerForks, WorkerLeavesGroup, NetNext, Procs
  <2>3. CASE WorkerExits(p)
    BY <2>3 DEF WorkerExits, NetNext
  <2> QED
    BY <1>3, <2>1, <2>2, <2>3 DEF Worker
<1>4. ASSUME NEW p \in Procs, Dies(p) \/ Ends(p)
      PROVE  NetNext \/ UNCHANGED netVars
  BY <1>4 DEF Dies, Ends, NetNext
<1>5. CASE Deadline \/ UNCHANGED vars
  BY <1>5 DEF Deadline, vars
<1> QED
  BY <1>1, <1>2, <1>3, <1>4, <1>5 DEF Next, Environment, Terminated

\* The worker side and the kernel change nothing the harness keeps.
LEMMA EnvironmentFrame ==
  ASSUME Environment
  PROVE  UNCHANGED harnessVars
BY DEF Environment, Wrapper, RecycleGroup, Worker, WorkerReads, WorkerWrites,
   WorkerShuts, WorkerCloses, WorkerForks, WorkerLeavesGroup, WorkerExits,
   Dies, Ends

\* What a capture adds keeps the output a sequence of units and counts exactly.
LEMMA CapturedUnits ==
  ASSUME NEW out \in Seq(Units), NEW in \in Seq(Units),
         NEW k \in 0..Len(in)
  PROVE  /\ SubSeq(in, 1, k) \in Seq(Units)
         /\ Len(SubSeq(in, 1, k)) = k
         /\ out \o SubSeq(in, 1, k) \in Seq(Units)
         /\ Len(out \o SubSeq(in, 1, k)) = Len(out) + k
<1>1. Len(in) \in Nat /\ \A i \in 1..k : in[i] \in Units
  BY LenProperties, ElementOfSeq
<1>2. SubSeq(in, 1, k) \in Seq(Units) /\ Len(SubSeq(in, 1, k)) = k
  BY <1>1, SubSeqProperties
<1> QED
  BY <1>2, ConcatProperties

HarnessTypeOK ==
  /\ pc \in Labels /\ expired \in BOOLEAN
  /\ output \in Seq(Units) /\ Len(output) =< Cap
  /\ truncated \in BOOLEAN /\ timed_out \in BOOLEAN
  /\ capture_failed \in BOOLEAN
  /\ collected \in Status
  /\ run_binding_proved \in BOOLEAN /\ exit_ok \in BOOLEAN
  /\ late \in Nat /\ cleared \in BOOLEAN /\ strangerHit \in BOOLEAN

\* The capture never exceeds its bound, and every variable of the harness keeps
\* its type.
LEMMA HarnessStepType ==
  ASSUME TypeOK, HarnessTypeOK, [Next]_vars
  PROVE  HarnessTypeOK'
<1> USE DEF HarnessTypeOK
<1>1. CASE Spawn
  BY <1>1 DEF Spawn, flags, verdict, history, Labels
<1>2. CASE Arm
  BY <1>2 DEF Arm, flags, verdict, history, Labels
<1>3. CASE WriteNext
  BY <1>3 DEF WriteNext, verdict, history, Labels
<1>4. CASE Send
  BY <1>4 DEF Send, Returned, flags, verdict, Labels
<1>5. CASE SendAgain
  BY <1>5 DEF SendAgain, Returned, flags, verdict, Labels
<1>6. CASE SendFailed
  BY <1>6 DEF SendFailed, Returned, flags, verdict, Labels
<1>7. CASE Shutdown
  BY <1>7 DEF Shutdown, flags, verdict, history, Labels
<1>8. CASE Size
  BY <1>8 DEF Size, flags, verdict, history, Labels
<1>9. CASE ReadNext
  BY <1>9 DEF ReadNext, verdict, history, Labels
<1>10. CASE Recv
  <2>1. PICK n \in 1..ReadBuffer : Deliver(n) /\ Capture(n)
    BY <1>10 DEF Recv
  <2>2. n \in Nat /\ n =< Len(w2h) /\ w2h \in Seq(Units) /\ Len(output) \in Nat
    BY <2>1, LenProperties DEF Deliver, TypeOK, NetTypeOK
  <2>3. output' \in Seq(Units) /\ Len(output') =< Cap
    <3> DEFINE k == IF n > Cap - Len(output) THEN Cap - Len(output) ELSE n
    <3>1. k \in 0..Len(w2h) /\ Len(output) + k =< Cap
      BY <2>2, SizesAreNat
    <3>2. output' = output \o SubSeq(w2h, 1, k)
      BY <2>1 DEF Capture
    <3> HIDE DEF k
    <3> QED
      BY <2>2, <3>1, <3>2, CapturedUnits
  <2>4. truncated' \in BOOLEAN /\ pc' \in Labels
    BY <2>1 DEF Capture, Labels
  <2> QED
    BY <1>10, <2>3, <2>4 DEF Recv, Returned, verdict
<1>11. CASE RecvEof
  BY <1>11 DEF RecvEof, Returned, flags, verdict, Labels
<1>12. CASE RecvAgain
  BY <1>12 DEF RecvAgain, Returned, flags, verdict, Labels
<1>13. CASE RecvFailed
  BY <1>13 DEF RecvFailed, Returned, verdict, Labels
<1>14. CASE ReapStep
  <2>1. pc' \in Labels
    BY <1>14 DEF ReapStep, AfterReap, Labels
  <2>2. cleared' \in BOOLEAN /\ strangerHit' \in BOOLEAN
    BY <1>14 DEF ReapStep, Reap
  <2> QED
    BY <1>14, <2>1, <2>2 DEF ReapStep, flags, verdict
<1>15. CASE Collect
  BY <1>15 DEF Collect, verdict, history, Labels, TypeOK, ProcTypeOK
<1>16. CASE Conclude
  <2>1. run_binding_proved' \in BOOLEAN /\ exit_ok' \in BOOLEAN
    BY <1>16 DEF Conclude, Bound
  <2>2. collected' \in Status
    BY <1>16 DEF Conclude, TypeOK, ProcTypeOK
  <2> QED
    BY <1>16, <2>1, <2>2 DEF Conclude, flags, history, Labels
<1>17. CASE Environment
  BY <1>17, EnvironmentFrame DEF harnessVars, flags, verdict, history
<1>18. CASE Deadline
  BY <1>18 DEF Deadline, flags, verdict, history
<1>19. CASE UNCHANGED vars
  BY <1>19 DEF vars, flags, verdict, history
<1> QED
  BY <1>1, <1>2, <1>3, <1>4, <1>5, <1>6, <1>7, <1>8, <1>9, <1>10, <1>11,
     <1>12, <1>13, <1>14, <1>15, <1>16, <1>17, <1>18, <1>19
     DEF Next, Harness, Terminated

\* Every variable keeps its type and the captured output never exceeds the
\* bound plus the frame (process.rs:187-189, 228-237).
THEOREM TypeCorrect == Spec => [](TypeOK /\ HarnessTypeOK)
<1>1. Init => TypeOK /\ HarnessTypeOK
  <2> SUFFICES ASSUME Init PROVE TypeOK /\ HarnessTypeOK
    OBVIOUS
  <2>1. Len(output) =< Cap
    BY SizesAreNat, EmptySeq DEF Init
  <2> QED
    BY <2>1, InitType DEF HarnessTypeOK, TypeOK
<1>2. TypeOK /\ HarnessTypeOK /\ [Next]_vars => (TypeOK /\ HarnessTypeOK)'
  <2> SUFFICES ASSUME TypeOK, HarnessTypeOK, [Next]_vars
               PROVE  TypeOK' /\ HarnessTypeOK'
    OBVIOUS
  <2>1. HarnessTypeOK'
    BY HarnessStepType
  <2>2. ProcTypeOK'
    BY ProcStepType, ProcProjection DEF TypeOK
  <2>3. TransportTypeOK'
    BY NetStepType, NetProjection DEF TypeOK, TransportTypeOK
  <2> QED
    BY <2>1, <2>2, <2>3 DEF TypeOK, HarnessTypeOK, TransportTypeOK
<1> QED
  BY <1>1, <1>2, PTL DEF Spec

-------------------------------------------------------------------------------

Typed == TypeOK /\ HarnessTypeOK

-------------------------------------------------------------------------------
(* What the environment does to the processes and to the socket pair.       *)

EnvProc ==
  \/ FormGroup \/ Recycle
  \/ \E p \in Procs :
       \/ \E c \in Descendants : Fork(p, c)
       \/ LeaveGroup(p) \/ EndExit(p)
       \/ BeginExit(p, "zero") /\ Active(p)
       \/ \E s \in {"nonzero", "killed"} : BeginExit(p, s)

EnvNet ==
  \/ /\ holds # {}
     /\ \/ ReadInput
        \/ \E d \in {"in", "out"} : ShutDirection(d)
        \/ \E u \in Units : WriteOutput(u) /\ ~Stopped
        \/ \E c \in Procs : Inherit(c)
  \/ \E p \in holds : Close(p)

\* The steps of the processes the environment can take.
LEMMA EnvironmentProc ==
  ASSUME Environment
  PROVE  EnvProc \/ UNCHANGED procVars
<1>1. CASE Wrapper \/ RecycleGroup
  BY <1>1 DEF Wrapper, RecycleGroup, EnvProc
<1>2. ASSUME NEW p \in Procs, Worker(p) PROVE EnvProc \/ UNCHANGED procVars
  <2>1. CASE WorkerReads(p) \/ WorkerWrites(p) \/ WorkerShuts(p) \/ WorkerCloses(p)
    BY <2>1 DEF WorkerReads, WorkerWrites, WorkerShuts, WorkerCloses
  <2>2. CASE WorkerForks(p) \/ WorkerLeavesGroup(p)
    BY <2>2 DEF WorkerForks, WorkerLeavesGroup, EnvProc
  <2>3. CASE WorkerExits(p)
    BY <2>3 DEF WorkerExits, EnvProc
  <2> QED
    BY <1>2, <2>1, <2>2, <2>3 DEF Worker
<1>3. ASSUME NEW p \in Procs, Dies(p) \/ Ends(p)
      PROVE  EnvProc \/ UNCHANGED procVars
  BY <1>3 DEF Dies, Ends, EnvProc
<1> QED
  BY <1>1, <1>2, <1>3 DEF Environment

\* The steps of the socket pair the environment can take.
LEMMA EnvironmentNet ==
  ASSUME Environment
  PROVE  EnvNet \/ UNCHANGED netVars
<1>1. CASE Wrapper \/ RecycleGroup
  BY <1>1 DEF Wrapper, RecycleGroup
<1>2. ASSUME NEW p \in Procs, Worker(p) PROVE EnvNet \/ UNCHANGED netVars
  <2>1. CASE WorkerReads(p) \/ WorkerWrites(p) \/ WorkerShuts(p) \/ WorkerCloses(p)
    BY <2>1 DEF WorkerReads, WorkerWrites, WorkerShuts, WorkerCloses, EnvNet
  <2>2. CASE WorkerForks(p) \/ WorkerLeavesGroup(p)
    BY <2>2 DEF WorkerForks, WorkerLeavesGroup, EnvNet, Procs
  <2>3. CASE WorkerExits(p)
    BY <2>3 DEF WorkerExits, EnvNet
  <2> QED
    BY <1>2, <2>1, <2>2, <2>3 DEF Worker
<1>3. ASSUME NEW p \in Procs, Dies(p) \/ Ends(p)
      PROVE  EnvNet \/ UNCHANGED netVars
  BY <1>3 DEF Dies, Ends, EnvNet
<1> QED
  BY <1>1, <1>2, <1>3 DEF Environment

-------------------------------------------------------------------------------
(* The deadline.                                                            *)

\* At most one transport call ends after the deadline (process.rs:139-142).
THEOREM DeadlineIsHonoured == Spec => []DeadlineHonoured
<1>1. Init => OneLateCall
  BY DEF Init, OneLateCall
<1>2. Typed /\ OneLateCall /\ [Next]_vars => OneLateCall'
  <2> SUFFICES ASSUME Typed, OneLateCall, [Next]_vars PROVE OneLateCall'
    OBVIOUS
  <2> USE DEF OneLateCall
  <2>1. CASE Spawn \/ Arm \/ Shutdown \/ Size
    BY <2>1 DEF Spawn, Arm, Shutdown, Size, history
  <2>2. CASE WriteNext \/ ReadNext
    BY <2>2 DEF WriteNext, ReadNext, history
  <2>3. CASE Send \/ SendAgain \/ SendFailed
    BY <2>3 DEF Send, SendAgain, SendFailed, Returned
  <2>4. CASE RecvEof \/ RecvAgain \/ RecvFailed
    BY <2>4 DEF RecvEof, RecvAgain, RecvFailed, Returned
  <2>5. CASE Recv
    <3>1. pc' \in {"read", "reapStop"}
      BY <2>5 DEF Recv, Capture
    <3> QED
      BY <2>5, <3>1 DEF Recv, Returned
  <2>6. CASE ReapStep
    BY <2>6 DEF ReapStep, AfterReap
  <2>7. CASE Collect \/ Conclude
    BY <2>7 DEF Collect, Conclude, history
  <2>8. CASE Environment
    BY <2>8, EnvironmentFrame DEF harnessVars, history
  <2>9. CASE Deadline
    BY <2>9 DEF Deadline, history
  <2>10. CASE UNCHANGED vars
    BY <2>10 DEF vars, history
  <2> QED
    BY <2>1, <2>2, <2>3, <2>4, <2>5, <2>6, <2>7, <2>8, <2>9, <2>10
       DEF Next, Harness, Terminated
<1>3. Typed /\ OneLateCall => DeadlineHonoured
  BY DEF OneLateCall, DeadlineHonoured
<1> QED
  BY <1>1, <1>2, <1>3, TypeCorrect, PTL DEF Spec, Typed

\* A run is called timed out only past its deadline, as long as the wait itself
\* does not fail (process.rs:150, 201, 292).
THEOREM TimeoutsAreReal ==
  ASSUME "wait" \notin Faults
  PROVE  Spec => []TimeoutIsReal
<1>1. Init => TimeoutIsReal
  BY DEF Init, TimeoutIsReal
<1>2. TimeoutIsReal /\ [Next]_vars => TimeoutIsReal'
  <2> SUFFICES ASSUME TimeoutIsReal, [Next]_vars PROVE TimeoutIsReal'
    OBVIOUS
  <2> USE DEF TimeoutIsReal
  <2>1. CASE Spawn \/ Arm \/ Shutdown \/ Size \/ ReapStep \/ Conclude
    BY <2>1 DEF Spawn, Arm, Shutdown, Size, ReapStep, Conclude, flags
  <2>2. CASE WriteNext \/ ReadNext
    BY <2>2 DEF WriteNext, ReadNext
  <2>3. CASE Send \/ SendAgain \/ SendFailed
    BY <2>3 DEF Send, SendAgain, SendFailed, Returned, flags
  <2>4. CASE Recv \/ RecvEof \/ RecvAgain \/ RecvFailed
    BY <2>4 DEF Recv, RecvEof, RecvAgain, RecvFailed, Returned, flags
  <2>5. CASE Collect
    BY <2>5 DEF Collect
  <2>6. CASE Environment
    BY <2>6, EnvironmentFrame DEF harnessVars, flags
  <2>7. CASE Deadline \/ UNCHANGED vars
    BY <2>7 DEF Deadline, vars, flags
  <2> QED
    BY <2>1, <2>2, <2>3, <2>4, <2>5, <2>6, <2>7 DEF Next, Harness, Terminated
<1> QED
  BY <1>1, <1>2, PTL DEF Spec

-------------------------------------------------------------------------------
(* The process group.                                                       *)

ProcInv == BeforeSpawn /\ Reserved /\ StatusIsNative /\ Cleared

\* The process invariants hold initially.
LEMMA ProcInvInit == Init => ProcInv
<1> SUFFICES ASSUME Init PROVE ProcInv
  OBVIOUS
<1> Leader \in Procs
  BY DEF Procs
<1>1. BeforeSpawn
  BY DEF Init, ProcInit, NetInit, BeforeSpawn
<1>2. Reserved
  BY DEF Init, ProcInit, Reserved
<1>3. StatusIsNative
  BY DEF Init, ProcInit, StatusIsNative
<1>4. Cleared
  BY DEF Init, ProcInit, Cleared
<1> QED
  BY <1>1, <1>2, <1>3, <1>4 DEF ProcInv

\* A step that moves the program counter between two points past the spawn and
\* before the outcome, and no process, keeps the process invariants.
LEMMA ProcInvQuiet ==
  ASSUME ProcInv, UNCHANGED <<procVars, collected, cleared, strangerHit>>,
         pc' = pc \/ (pc \notin {"final", "done"} /\ pc' # "spawn"),
         pc' = "spawn" => UNCHANGED <<reset, timed_out>>
  PROVE  ProcInv'
<1> USE DEF procVars
<1>1. BeforeSpawn'
  BY DEF ProcInv, BeforeSpawn
<1>2. Reserved'
  BY DEF ProcInv, Reserved, BeforeSpawn
<1>3. StatusIsNative'
  BY DEF ProcInv, StatusIsNative, Reserved, BeforeSpawn
<1>4. Cleared'
  BY DEF ProcInv, Cleared, LiveMembers
<1> QED
  BY <1>1, <1>2, <1>3, <1>4 DEF ProcInv

\* Only a process that is alive takes a step.
LEMMA EnvironmentNeedsLife ==
  ASSUME Environment
  PROVE  \E p \in Procs : life[p] \in {"running", "exiting", "gone"}
<1> Leader \in Procs
  BY DEF Procs
<1>1. CASE Wrapper
  BY <1>1 DEF Wrapper, FormGroup, Running
<1>2. CASE RecycleGroup
  BY <1>2 DEF RecycleGroup, Recycle
<1>3. ASSUME NEW p \in Procs, Worker(p)
      PROVE  life[p] \in {"running", "exiting", "gone"}
  BY <1>3 DEF Worker, WorkerReads, WorkerWrites, WorkerShuts, WorkerCloses,
     WorkerForks, WorkerLeavesGroup, WorkerExits, BeginExit, Active, Running
<1>4. ASSUME NEW p \in Procs, Dies(p) \/ Ends(p)
      PROVE  life[p] \in {"running", "exiting", "gone"}
  BY <1>4 DEF Dies, Ends, BeginExit, EndExit
<1> QED
  BY <1>1, <1>2, <1>3, <1>4 DEF Environment

\* A step of the worker side keeps the process invariants: a process that is
\* forked into a cleared group would need a parent that is not dying.
LEMMA ProcInvEnvironment ==
  ASSUME Typed, ProcInv, Environment
  PROVE  ProcInv'
<1> Leader \in Procs /\ Descendants \subseteq Procs /\ Leader \notin Descendants
  BY LeaderAssumption DEF Procs
<1>0. UNCHANGED harnessVars /\ life \in [Procs -> {"unborn", "running", "exiting", "zombie", "gone"}]
  BY EnvironmentFrame DEF Typed, TypeOK, ProcTypeOK
<1> USE DEF harnessVars, flags, history
<1>1. pc # "spawn"
  BY EnvironmentNeedsLife DEF ProcInv, BeforeSpawn
<1>2. CASE UNCHANGED procVars
  BY <1>0, <1>1, <1>2, ProcInvQuiet
<1>3. CASE FormGroup
  BY <1>0, <1>1, <1>3
     DEF FormGroup, Running, ProcInv, BeforeSpawn, Reserved, StatusIsNative,
         Cleared, LiveMembers
<1>4. CASE Recycle
  BY <1>0, <1>1, <1>4
     DEF Recycle, ProcInv, BeforeSpawn, Reserved, StatusIsNative, Cleared,
         LiveMembers
<1>5. ASSUME NEW p \in Procs, NEW c \in Descendants, Fork(p, c) PROVE ProcInv'
  <2>1. (BeforeSpawn /\ Reserved /\ StatusIsNative)'
    BY <1>0, <1>1, <1>5 DEF Fork, ProcInv, BeforeSpawn, Reserved, StatusIsNative
  <2>2. c \notin group /\ (p \in group => ~cleared)
    BY <1>5 DEF Fork, Running, ProcInv, Cleared, LiveMembers
  <2>3. Cleared'
    BY <1>0, <1>5, <2>2 DEF Fork, ProcInv, Cleared, LiveMembers
  <2> QED
    BY <2>1, <2>3 DEF ProcInv
<1>6. ASSUME NEW p \in Procs, LeaveGroup(p) PROVE ProcInv'
  BY <1>0, <1>1, <1>6
     DEF LeaveGroup, Running, ProcInv, BeforeSpawn, Reserved, StatusIsNative,
         Cleared, LiveMembers
<1>7. ASSUME NEW p \in Procs, EndExit(p) PROVE ProcInv'
  BY <1>0, <1>1, <1>7
     DEF EndExit, ProcInv, BeforeSpawn, Reserved, StatusIsNative, Cleared,
         LiveMembers
<1>8. ASSUME NEW p \in Procs, NEW s \in Status \ {"none"}, BeginExit(p, s)
      PROVE  ProcInv'
  BY <1>0, <1>1, <1>8
     DEF BeginExit, ProcInv, BeforeSpawn, Reserved, StatusIsNative, Cleared,
         LiveMembers
<1> QED
  BY <1>2, <1>3, <1>4, <1>5, <1>6, <1>7, <1>8, EnvironmentProc
     DEF EnvProc, Status

\* A step of the harness keeps the process invariants: it signals before it
\* waits, so the identifier it signals is still reserved.
LEMMA ProcInvHarness ==
  ASSUME Typed, ProcInv, Harness
  PROVE  ProcInv'
<1> Leader \in Procs
  BY DEF Procs
<1>0. life \in [Procs -> {"unborn", "running", "exiting", "zombie", "gone"}]
  BY DEF Typed, TypeOK, ProcTypeOK
<1>1. CASE Spawn
  <2>1. CASE UNCHANGED procVars
    BY <1>1, <2>1, ProcInvQuiet DEF Spawn, history
  <2>2. CASE pc' = "arm" /\ SpawnLeader
    BY <1>0, <1>1, <2>2
       DEF Spawn, SpawnLeader, history, ProcInv, BeforeSpawn, Reserved,
           StatusIsNative, Cleared, LiveMembers
  <2> QED
    BY <1>1, <2>1, <2>2 DEF Spawn
<1>2. CASE Arm \/ Shutdown \/ Size
  BY <1>2, ProcInvQuiet DEF Arm, Shutdown, Size, history
<1>3. CASE WriteNext \/ ReadNext
  BY <1>3, ProcInvQuiet DEF WriteNext, ReadNext, history
<1>4. CASE Send \/ SendAgain \/ SendFailed
  BY <1>4, ProcInvQuiet DEF Send, SendAgain, SendFailed, Returned
<1>5. CASE RecvEof \/ RecvAgain \/ RecvFailed
  BY <1>5, ProcInvQuiet DEF RecvEof, RecvAgain, RecvFailed, Returned
<1>6. CASE Recv
  <2>1. pc = "recv" /\ pc' \in {"read", "reapStop"}
    BY <1>6 DEF Recv, Capture
  <2> QED
    BY <1>6, <2>1, ProcInvQuiet DEF Recv, Returned
<1>7. CASE ReapStep
  <2>1. pc \in {"reapWrite", "reapStop", "reapEof"}
        /\ pc' \in {"shutdown", "final", "collect"}
    BY <1>7 DEF ReapStep, AfterReap
  <2>2. UNCHANGED <<life, group, status, recycled, collected>> /\ ~recycled
    BY <1>7, <2>1 DEF ReapStep, Reap, SignalGroup, SignalLeader, procVars,
       ProcInv, Reserved
  <2>3. (BeforeSpawn /\ StatusIsNative)'
    BY <2>1, <2>2 DEF ProcInv, BeforeSpawn, StatusIsNative, Reserved
  <2>4. Reserved'
    <3>1. ~strangerHit'
      BY <1>7, <2>2 DEF ReapStep, Reap, ProcInv, Reserved
    <3> QED
      BY <2>1, <2>2, <3>1 DEF ProcInv, Reserved
  <2>5. Cleared'
    <3>1. LiveMembers' = LiveMembers
      BY <2>2 DEF LiveMembers
    <3>2. signalled \subseteq signalled'
      BY <1>7 DEF ReapStep, Reap, SignalGroup, SignalLeader, procVars
    <3>3. cleared' => group # {} /\ LiveMembers \subseteq signalled'
      <4>1. CASE SignalGroup /\ cleared' = (cleared \/ group # {})
        BY <4>1 DEF SignalGroup, ProcInv, Cleared
      <4>2. CASE UNCHANGED cleared
        BY <3>2, <4>2 DEF ProcInv, Cleared
      <4> QED
        BY <1>7, <4>1, <4>2 DEF ReapStep, Reap
    <3> QED
      BY <2>2, <3>1, <3>3 DEF ProcInv, Cleared
  <2> QED
    BY <2>3, <2>4, <2>5 DEF ProcInv
<1>8. CASE Collect
  <2>1. CASE UNCHANGED <<procVars, collected>>
    BY <1>8, <2>1, ProcInvQuiet DEF Collect, history
  <2>2. CASE CollectLeader /\ collected' = status
    BY <1>0, <1>8, <2>2
       DEF Collect, CollectLeader, history, ProcInv, BeforeSpawn, Reserved,
           StatusIsNative, Cleared, LiveMembers
  <2> QED
    BY <1>8, <2>1, <2>2 DEF Collect
<1>9. CASE Conclude
  <2>1. CASE UNCHANGED <<procVars, collected>>
    BY <1>9, <2>1
       DEF Conclude, history, procVars, ProcInv, BeforeSpawn, Reserved,
           StatusIsNative, Cleared, LiveMembers
  <2>2. CASE CollectLeader /\ collected' = status
    BY <1>0, <1>9, <2>2
       DEF Conclude, CollectLeader, history, ProcInv, BeforeSpawn, Reserved,
           StatusIsNative, Cleared, LiveMembers
  <2> QED
    BY <1>9, <2>1, <2>2 DEF Conclude
<1> QED
  BY <1>1, <1>2, <1>3, <1>4, <1>5, <1>6, <1>7, <1>8, <1>9 DEF Harness

\* The process invariants are inductive.
THEOREM ProcInvariant == Spec => []ProcInv
<1>1. Init => ProcInv
  BY ProcInvInit
<1>2. Typed /\ ProcInv /\ [Next]_vars => ProcInv'
  <2> SUFFICES ASSUME Typed, ProcInv, [Next]_vars PROVE ProcInv'
    OBVIOUS
  <2>1. CASE Deadline
    BY <2>1, ProcInvQuiet DEF Deadline, history
  <2>2. CASE UNCHANGED vars
    BY <2>2, ProcInvQuiet DEF vars, history, flags, netVars
  <2> QED
    BY <2>1, <2>2, ProcInvHarness, ProcInvEnvironment DEF Next, Terminated
<1> QED
  BY <1>1, <1>2, TypeCorrect, PTL DEF Spec, Typed

\* No interleaving sends the group signal to a group that is not the worker's
\* (process.rs:211-216, 318-321).
THEOREM NoStrangerIsSignalled == Spec => []StrangerNeverSignalled
<1>1. ProcInv => StrangerNeverSignalled
  BY DEF ProcInv, Reserved, StrangerNeverSignalled
<1> QED
  BY <1>1, ProcInvariant, PTL

\* After a delivered group signal no member of the group is left running
\* (process.rs:302-307).
THEOREM ClearedGroupsAreDoomed == Spec => []ClearedGroupIsDoomed
<1>1. ProcInv => ClearedGroupIsDoomed
  BY DEF ProcInv, Cleared, ClearedGroupIsDoomed
<1> QED
  BY <1>1, ProcInvariant, PTL

-------------------------------------------------------------------------------
(* Sequences.                                                               *)

\* Appending to what is in flight appends to what was written.
LEMMA AppendAfterConcat ==
  ASSUME NEW a \in Seq(Units), NEW b \in Seq(Units), NEW u \in Units
  PROVE  a \o Append(b, u) = Append(a \o b, u)
<1>1. <<u>> \in Seq(Units) /\ a \o b \in Seq(Units)
  BY EmptySeq, AppendProperties, ConcatProperties
<1>2. Append(b, u) = b \o <<u>> /\ Append(a \o b, u) = (a \o b) \o <<u>>
  BY <1>1, AppendIsConcat
<1>3. a \o (b \o <<u>>) = (a \o b) \o <<u>>
  BY <1>1, ConcatAssociative
<1> QED
  BY <1>2, <1>3

\* A prefix that covers the first part of a concatenation.
LEMMA PrefixOfConcat ==
  ASSUME NEW a \in Seq(Units), NEW b \in Seq(Units), NEW k \in 0..Len(b)
  PROVE  SubSeq(a \o b, 1, Len(a) + k) = a \o SubSeq(b, 1, k)
<1> DEFINE l == SubSeq(a \o b, 1, Len(a) + k)
           r == a \o SubSeq(b, 1, k)
<1>1. Len(a) \in Nat /\ Len(b) \in Nat /\ k \in Nat
  BY LenProperties
<1>2. /\ a \o b \in Seq(Units) /\ Len(a \o b) = Len(a) + Len(b)
      /\ \A i \in 1..Len(a) + Len(b) :
           (a \o b)[i] = IF i <= Len(a) THEN a[i] ELSE b[i - Len(a)]
  BY ConcatProperties
<1>3. \A i \in 1..Len(a) + k : (a \o b)[i] \in Units
  BY <1>1, <1>2, ElementOfSeq
<1>4. /\ l \in Seq(Units) /\ Len(l) = Len(a) + k
      /\ \A i \in 1..Len(a) + k : l[i] = (a \o b)[i]
  BY <1>1, <1>3, SubSeqProperties
<1>5. /\ SubSeq(b, 1, k) \in Seq(Units) /\ Len(SubSeq(b, 1, k)) = k
      /\ \A i \in 1..k : SubSeq(b, 1, k)[i] = b[i]
  BY <1>1, ElementOfSeq, SubSeqProperties
<1>6. /\ r \in Seq(Units) /\ Len(r) = Len(a) + k
      /\ \A i \in 1..Len(a) + k :
           r[i] = IF i <= Len(a) THEN a[i] ELSE SubSeq(b, 1, k)[i - Len(a)]
  BY <1>5, ConcatProperties
<1>7. \A i \in 1..Len(l) : l[i] = r[i]
  BY <1>1, <1>2, <1>4, <1>5, <1>6
<1> QED
  BY <1>4, <1>6, <1>7, SeqEqual

\* What is read and what stays in the socket is what was there.
LEMMA SplitDelivery ==
  ASSUME NEW w \in Seq(Units), NEW n \in 1..Len(w)
  PROVE  /\ SubSeq(w, n + 1, Len(w)) \in Seq(Units)
         /\ SubSeq(w, 1, n) \o SubSeq(w, n + 1, Len(w)) = w
<1>1. Len(w) \in Nat /\ n \in Nat
  BY LenProperties
<1>2. SubSeq(w, 1, n) \o SubSeq(w, n + 1, Len(w)) = SubSeq(w, 1, Len(w))
  BY <1>1, ConcatAdjacentSubSeq
<1>3. \A i \in n + 1..Len(w) : w[i] \in Units
  BY <1>1, ElementOfSeq
<1> QED
  BY <1>1, <1>2, <1>3, SubSeqFull, SubSeqProperties

\* Moving a part of what is in flight to the output loses nothing.
LEMMA RegroupConcat ==
  \A a, b, c \in Seq(Units) : (a \o b) \o c = a \o (b \o c)
BY ConcatAssociative

-------------------------------------------------------------------------------
(* The capture.                                                             *)

\* Neither the socket nor the output moves, and no fault appears.
LEMMA CapturedQuiet ==
  ASSUME Captured, UNCHANGED <<output, truncated, capture_failed, w2h, produced>>,
         pc' = pc \/ pc \notin {"reapStop", "final", "done"}
                 \/ pc' \in {"final", "done"}
  PROVE  Captured'
BY DEF Captured, CaptureIsExact

\* The worker side writes at the end of what is in flight.
LEMMA CapturedWrite ==
  ASSUME Typed, Captured, NEW u \in Units, WriteOutput(u),
         UNCHANGED <<pc, output, truncated, capture_failed>>
  PROVE  Captured'
<1>1. output \in Seq(Units) /\ w2h \in Seq(Units) /\ produced \in Seq(Units)
  BY DEF Typed, TypeOK, NetTypeOK
<1>2. w2h' = Append(w2h, u) /\ produced' = Append(produced, u)
  BY DEF WriteOutput
<1>3. CASE ~truncated
  <2>1. produced' = output \o w2h'
    <3>1. produced = output \o w2h
      BY <1>3 DEF Captured, CaptureIsExact
    <3> QED
      BY <1>1, <1>2, <3>1, AppendAfterConcat
  <2> QED
    BY <1>3, <2>1 DEF Captured, CaptureIsExact
<1>4. CASE truncated
  <2>1. Len(produced) \in Nat /\ Cap \in 1..Len(produced) /\ Len(produced') > Cap
    BY <1>1, <1>2, <1>4, SizesAreNat, LenProperties, AppendProperties,
       ParameterAssumption
       DEF Captured, CaptureIsExact, Cap, FrameLen
  <2>2. <<u>> \in Seq(Units) /\ produced' = produced \o <<u>>
    BY <1>1, <1>2, EmptySeq, AppendProperties, AppendIsConcat
  <2>3. SubSeq(produced', 1, Cap) = SubSeq(produced, 1, Cap)
    BY <1>1, <2>1, <2>2, SubSeqOfConcat1
  <2> QED
    BY <1>4, <2>1, <2>3 DEF Captured, CaptureIsExact
<1> QED
  BY <1>3, <1>4

\* A read moves what is in flight to the output, up to the bound.
LEMMA CapturedRecv ==
  ASSUME Typed, Captured, Recv
  PROVE  Captured'
<1>1. PICK n \in 1..ReadBuffer : Deliver(n) /\ Capture(n)
  BY DEF Recv
<1>2. /\ output \in Seq(Units) /\ w2h \in Seq(Units) /\ produced \in Seq(Units)
      /\ Len(output) \in Nat /\ Len(w2h) \in Nat /\ Len(output) =< Cap
      /\ n \in 1..Len(w2h) /\ n \in Nat
  BY <1>1, LenProperties
     DEF Deliver, Typed, TypeOK, NetTypeOK, HarnessTypeOK
<1>3. pc = "recv" /\ ~truncated /\ produced = output \o w2h
      /\ UNCHANGED <<produced, capture_failed>> /\ ~capture_failed
  BY <1>1 DEF Recv, Deliver, Captured, CaptureIsExact, Typed, TypeOK
<1>4. CASE n > Cap - Len(output)
  <2> DEFINE room == Cap - Len(output)
  <2>1. room \in 0..Len(w2h) /\ room < Len(w2h) /\ Len(output) + room = Cap
    BY <1>2, <1>4, SizesAreNat
  <2>2. output' = output \o SubSeq(w2h, 1, room) /\ truncated' = TRUE /\ pc' = "reapStop"
    BY <1>1, <1>4 DEF Capture
  <2> HIDE DEF room
  <2>3. Len(output') = Cap /\ output' = SubSeq(produced, 1, Cap)
    BY <1>2, <1>3, <2>1, <2>2, CapturedUnits, PrefixOfConcat
  <2>4. Len(produced) > Cap
    BY <1>2, <1>3, <2>1, ConcatProperties
  <2> QED
    BY <1>3, <2>2, <2>3, <2>4 DEF Captured, CaptureIsExact
<1>5. CASE ~(n > Cap - Len(output))
  <2>1. output' = output \o SubSeq(w2h, 1, n) /\ UNCHANGED truncated /\ pc' = "read"
    BY <1>1, <1>5 DEF Capture
  <2>2. w2h' = SubSeq(w2h, n + 1, Len(w2h))
    BY <1>1 DEF Deliver
  <2>3. SubSeq(w2h, 1, n) \in Seq(Units)
    BY <1>2, CapturedUnits
  <2>4. w2h' \in Seq(Units) /\ SubSeq(w2h, 1, n) \o w2h' = w2h
    BY <1>2, <2>2, SplitDelivery
  <2>5. output' \o w2h' = output \o w2h
    <3>1. (output \o SubSeq(w2h, 1, n)) \o w2h' = output \o (SubSeq(w2h, 1, n) \o w2h')
      BY <1>2, <2>3, <2>4, RegroupConcat, SMTT(60)
    <3> QED
      BY <2>1, <2>4, <3>1
  <2> QED
    BY <1>3, <2>1, <2>5 DEF Captured, CaptureIsExact
<1> QED
  BY <1>4, <1>5

\* The capture is exact whatever the reads return (process.rs:228-238).
THEOREM CaptureInvariant == Spec => []Captured
<1>1. Init => Captured
  BY ConcatEmptySeq, EmptySeq DEF Init, NetInit, Captured, CaptureIsExact
<1>2. Typed /\ Captured /\ [Next]_vars => Captured'
  <2> SUFFICES ASSUME Typed, Captured, [Next]_vars PROVE Captured'
    OBVIOUS
  <2>1. CASE Spawn
    BY <2>1, CapturedQuiet DEF Spawn, SpawnLeader, Inherit, flags, netVars
  <2>2. CASE Arm \/ Size
    BY <2>2, CapturedQuiet DEF Arm, Size, flags, netVars
  <2>3. CASE Shutdown
    BY <2>3, CapturedQuiet DEF Shutdown, EndInput, flags
  <2>4. CASE WriteNext \/ ReadNext
    BY <2>4, CapturedQuiet DEF WriteNext, ReadNext, netVars
  <2>5. CASE Send
    BY <2>5, CapturedQuiet DEF Send, Accept, flags
  <2>6. CASE SendAgain \/ SendFailed
    BY <2>6, CapturedQuiet DEF SendAgain, SendFailed, Refuse, flags, netVars
  <2>7. CASE RecvEof \/ RecvAgain
    BY <2>7, CapturedQuiet DEF RecvEof, RecvAgain, flags, netVars
  <2>8. CASE RecvFailed
    BY <2>8 DEF RecvFailed, TakeReset, Captured, CaptureIsExact
  <2>9. CASE Recv
    BY <2>9, CapturedRecv
  <2>10. CASE ReapStep
    <3>1. pc' = "final" \/ pc \in {"reapWrite", "reapEof"}
      BY <2>10 DEF ReapStep, AfterReap
    <3> QED
      BY <2>10, <3>1, CapturedQuiet DEF ReapStep, flags, netVars
  <2>11. CASE Collect \/ Conclude
    BY <2>11, CapturedQuiet DEF Collect, Conclude, flags, netVars
  <2>12. CASE Environment
    <3>1. UNCHANGED <<pc, output, truncated, capture_failed>>
      BY <2>12, EnvironmentFrame DEF harnessVars, flags
    <3>2. CASE UNCHANGED netVars
      BY <3>1, <3>2, CapturedQuiet DEF netVars
    <3>3. ASSUME NEW u \in Units, WriteOutput(u) PROVE Captured'
      BY <3>1, <3>3, CapturedWrite
    <3>4. CASE \/ ReadInput \/ \E d \in {"in", "out"} : ShutDirection(d)
               \/ \E p \in Procs : Inherit(p)
               \/ \E p \in holds : Close(p)
      BY <3>1, <3>4, CapturedQuiet DEF ReadInput, ShutDirection, Inherit, Close
    <3> QED
      BY <2>12, <3>2, <3>3, <3>4, EnvironmentNet DEF EnvNet
  <2>13. CASE Deadline \/ UNCHANGED vars
    BY <2>13, CapturedQuiet DEF Deadline, vars, flags, netVars
  <2> QED
    BY <2>1, <2>2, <2>3, <2>4, <2>5, <2>6, <2>7, <2>8, <2>9, <2>10, <2>11,
       <2>12, <2>13 DEF Next, Harness, Terminated
<1> QED
  BY <1>1, <1>2, TypeCorrect, PTL DEF Spec, Typed

\* The output is an exact prefix of what was written, short of it only when it
\* is marked truncated (process.rs:228-238).
THEOREM CapturesAreExact == Spec => []CaptureIsExact
<1>1. Captured => CaptureIsExact
  BY DEF Captured
<1> QED
  BY <1>1, CaptureInvariant, PTL
===============================================================================
