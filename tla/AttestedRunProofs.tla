--------------------------- MODULE AttestedRunProofs ---------------------------
(***************************************************************************)
(* Theorems about AttestedRun, for every engine: the worker comes after    *)
(* admission, what is signed was applied, and a result says what happened. *)
(***************************************************************************)
EXTENDS AttestedRun, HelperProofs, SequenceTheorems

-------------------------------------------------------------------------------
(* What the two sequences of checks answer.                                  *)

\* The controls are resolved when no check fails, and refused with a code of the
\* matrix when one does.
LEMMA ControlVerdict ==
  /\ FirstFailure(ControlChecks) \in
       {"none", "platform_unsupported", "capability_not_enabled",
        "control_not_enforceable"}
  /\ FirstFailure(ControlChecks) = "none" =>
       /\ request.platform /\ ~request.verify_os_peer /\ modes # {}
       /\ \A c \in request.required : Enforceable(c)
<1>1. DOMAIN ControlChecks = 1..3
  BY DEF ControlChecks
<1>2. \A i \in 1..3 : ControlChecks[i].code \in
        {"platform_unsupported", "capability_not_enabled", "control_not_enforceable"}
  BY DEF ControlChecks
<1>3. ASSUME NEW k \in 1..3, ControlChecks[k].fails
      PROVE  FirstFailure(ControlChecks) \in
        {"platform_unsupported", "capability_not_enabled", "control_not_enforceable"}
  <2> DOMAIN ControlChecks \subseteq 1..5
    BY <1>1
  <2> HIDE DEF ControlChecks
  <2> QED
    BY <1>1, <1>2, <1>3, FailureIsNamed
<1>4. CASE \A k \in 1..3 : ~ControlChecks[k].fails
  <2>1. FirstFailure(ControlChecks) = "none"
    BY <1>1, <1>4, NoFailure
  <2>2. ControlChecks[1].fails = ~request.platform
    BY DEF ControlChecks
  <2>3. ControlChecks[3].fails
          = (request.verify_os_peer \/ Denied # {} \/ ModeMissing)
    BY DEF ControlChecks
  <2>4. ~ControlChecks[1].fails /\ ~ControlChecks[3].fails
    BY <1>4
  <2>5. request.platform /\ ~request.verify_os_peer /\ Denied = {} /\ ~ModeMissing
    BY <2>2, <2>3, <2>4, Zenon
  <2> QED
    BY <2>1, <2>5 DEF Denied, ModeMissing
<1>5. CASE \E k \in 1..3 : ControlChecks[k].fails
  BY <1>3, <1>5
<1> QED
  BY <1>4, <1>5

\* A judgement names the first of the four tests that the outcome fails.
LEMMA JudgementVerdict ==
  LET code == FirstFailure(Judgements)
  IN /\ code \in {"none", LimitCheck.code, ScanCheck.code, BindingCheck.code,
                  WorkerCheck.code}
     /\ code = LimitCheck.code => LimitCheck.fails
     /\ code # LimitCheck.code => ~LimitCheck.fails
     /\ code = ScanCheck.code => ScanCheck.fails
     /\ code \in {"none", BindingCheck.code, WorkerCheck.code} => ~ScanCheck.fails
     /\ code = BindingCheck.code => BindingCheck.fails
     /\ code \in {"none", WorkerCheck.code} => ~BindingCheck.fails
     /\ code = WorkerCheck.code => WorkerCheck.fails
     /\ code = "none" => ~WorkerCheck.fails
<1>1. DOMAIN Judgements = 1..4
  BY DEF Judgements
<1>2. /\ Judgements[1] = LimitCheck /\ Judgements[2] = ScanCheck
      /\ Judgements[3] = BindingCheck /\ Judgements[4] = WorkerCheck
  BY DEF Judgements
<1>3. /\ LimitCheck.code = "output_limit_exceeded"
      /\ ScanCheck.code = "output_scan_incomplete"
      /\ BindingCheck.code = "run_binding_unproved"
      /\ WorkerCheck.code = "worker_fault"
  BY DEF LimitCheck, ScanCheck, BindingCheck, WorkerCheck
<1>4. CASE \A k \in 1..4 : ~Judgements[k].fails
  <2>1. FirstFailure(Judgements) = "none"
    BY <1>1, <1>4, NoFailure
  <2>2. /\ ~Judgements[1].fails /\ ~Judgements[2].fails
        /\ ~Judgements[3].fails /\ ~Judgements[4].fails
    BY <1>4
  <2> QED
    BY <1>2, <1>3, <2>1, <2>2
<1>5. CASE \E k \in 1..4 : Judgements[k].fails
  <2>1. PICK i \in 1..4 :
          /\ Judgements[i].fails
          /\ FirstFailure(Judgements) = Judgements[i].code
          /\ \A j \in 1..4 : j < i => ~Judgements[j].fails
    <3> DOMAIN Judgements \subseteq 1..5
      BY <1>1
    <3> HIDE DEF Judgements
    <3> QED
      BY <1>1, <1>5, FailureIsNamed
  <2>2. CASE i = 1
    BY <2>1, <2>2, <1>2, <1>3
  <2>3. CASE i = 2
    <3>1. ~Judgements[1].fails
      BY <2>1, <2>3
    <3> QED
      BY <2>1, <2>3, <3>1, <1>2, <1>3
  <2>4. CASE i = 3
    <3>1. ~Judgements[1].fails /\ ~Judgements[2].fails
      BY <2>1, <2>4
    <3> QED
      BY <2>1, <2>4, <3>1, <1>2, <1>3
  <2>5. CASE i = 4
    <3>1. ~Judgements[1].fails /\ ~Judgements[2].fails /\ ~Judgements[3].fails
      BY <2>1, <2>5
    <3> QED
      BY <2>1, <2>5, <3>1, <1>2, <1>3
  <2> QED
    BY <2>1, <2>2, <2>3, <2>4, <2>5
<1> QED
  BY <1>4, <1>5

\* A judgement never attests, and finds no failure only in a success.
LEMMA JudgementCodes ==
  /\ FirstFailure(Judgements) # "attested"
  /\ FirstFailure(Judgements) = "none" => ok
<1>1. /\ LimitCheck.code = "output_limit_exceeded"
      /\ ScanCheck.code = "output_scan_incomplete"
      /\ BindingCheck.code = "run_binding_unproved"
      /\ WorkerCheck.code = "worker_fault" /\ WorkerCheck.fails = ~ok
  BY DEF LimitCheck, ScanCheck, BindingCheck, WorkerCheck
<1> QED
  BY <1>1, JudgementVerdict

-------------------------------------------------------------------------------
(* What a signature rests on.                                                *)

Admitted == {"workspace", "program", "chain", "pin", "spawn", "run", "judge",
             "sign"}
Planned == {"pin", "spawn", "run", "judge", "sign"}

\* Before the spawn there is no child.
NoChildYet ==
  step \notin {"run", "judge", "sign", "done"} => stage = "idle"

\* The wrappers that ran are those of the chain whenever the worker exits zero.
ZeroThroughChain == exit = "zero" => stage # "idle" /\ ran = chain

PlannedInFull ==
  step \in Planned => chain = Wrappers /\ request.identity = "dedicated"

AdmittedInFull ==
  step \in Admitted =>
    controls = request.required /\ \A c \in request.required : Enforceable(c)

FactsAreObserved == root \in BOOLEAN /\ (facts.root => root)

SuccessIsZero == (ok => exit = "zero") /\ (step = "sign" => ok)

AttestedIsLast == result = "attested" => step = "done"

Applied ==
  /\ NoChildYet /\ ZeroThroughChain /\ PlannedInFull /\ AdmittedInFull
  /\ FactsAreObserved /\ SuccessIsZero /\ AttestedIsLast
  /\ SignedControlsWereApplied

\* Every step preserves what the signature rests on.
LEMMA AppliedStep == Applied /\ [Next]_vars => Applied'
<1> SUFFICES ASSUME Applied, [Next]_vars PROVE Applied'
  OBVIOUS
<1> USE DEF Applied, NoChildYet, ZeroThroughChain, PlannedInFull, AdmittedInFull,
            FactsAreObserved, SuccessIsZero, AttestedIsLast,
            SignedControlsWereApplied, Admitted, Planned, Enforceable
<1>1. CASE ResolveProfile
  BY <1>1 DEF ResolveProfile, Continue, Conclude, foundVars, runVars, hostVars
<1>2. CASE ProbeSetpriv
  BY <1>2 DEF ProbeSetpriv, Continue, runVars, hostVars
<1>3. CASE ProbeTool("setsid", "prlimit")
  BY <1>3 DEF ProbeTool, Continue, runVars, hostVars
<1>4. CASE ProbeTool("prlimit", "facts")
  BY <1>4 DEF ProbeTool, Continue, runVars, hostVars
<1>5. CASE GatherFacts
  <2>1. PICK seen \in {root, FALSE} :
          facts' = [root |-> seen, setpriv |-> "setpriv" \in tools]
    BY <1>5 DEF GatherFacts
  <2>2. root' = root /\ step = "facts" /\ step' = "controls"
    BY <1>5 DEF GatherFacts, Continue, hostVars
  <2>3. facts'.root = seen
    BY <2>1
  <2>4. FactsAreObserved'
    <3>1. root' \in BOOLEAN
      BY <2>2
    <3>2. ASSUME facts'.root PROVE root'
      <4>1. seen
        BY <3>2, <2>3, Zenon
      <4>2. seen = root
        BY <4>1, <2>1, Zenon
      <4> QED
        BY <4>1, <4>2, <2>2, Zenon
    <3> QED
      BY <3>1, <3>2, Zenon DEF FactsAreObserved
  <2>5. (NoChildYet /\ ZeroThroughChain /\ PlannedInFull /\ SuccessIsZero
         /\ AttestedIsLast /\ SignedControlsWereApplied)'
    BY <1>5 DEF GatherFacts, Continue, runVars, hostVars
  <2>6. AdmittedInFull'
    BY <2>2 DEF AdmittedInFull
  <2> QED
    BY <2>4, <2>5, <2>6
<1>6. CASE ResolveControls
  <2>1. PICK code : /\ code = FirstFailure(ControlChecks)
                    /\ \/ code # "none" /\ Conclude(code)
                       \/ /\ code = "none" /\ controls' = request.required
                          /\ Continue("workspace")
                          /\ UNCHANGED <<plan, facts, chain, ran, touched, signed>>
    BY <1>6 DEF ResolveControls
  <2>2. step = "controls" /\ UNCHANGED runVars
    BY <1>6 DEF ResolveControls
  <2>3. CASE code # "none"
    <3>1. Conclude(code) /\ code # "attested"
      BY <2>1, <2>3, ControlVerdict
    <3> QED
      BY <2>2, <3>1 DEF Conclude, foundVars, runVars, hostVars
  <2>4. CASE code = "none"
    <3>1. \A c \in request.required : Enforceable(c)
      BY <2>1, <2>4, ControlVerdict
    <3>2. (\A c \in request.required : Enforceable(c))'
      BY <2>1, <2>4, <3>1 DEF Continue
    <3> QED
      BY <2>1, <2>2, <2>4, <3>2 DEF Continue, runVars, hostVars
  <2> QED
    BY <2>3, <2>4
<1>7. CASE Touch("workspace", "program")
  BY <1>7 DEF Touch, Continue, runVars, hostVars
<1>8. CASE Touch("program", "chain")
  BY <1>8 DEF Touch, Continue, runVars, hostVars
<1>9. CASE PlanChain
  BY <1>9 DEF PlanChain, ChainRefused, Continue, Conclude, foundVars, runVars, hostVars
<1>10. CASE PinEngine
  BY <1>10 DEF PinEngine, Continue, Conclude, foundVars, runVars, hostVars
<1>11. CASE StartWorker
  BY <1>11 DEF StartWorker, Start, RefuseRun, Continue, Conclude, foundVars,
               hostVars
<1>12. CASE RunEnds
  BY <1>12 DEF RunEnds, SettleRun, RefuseRun, Continue, Conclude, foundVars,
               hostVars
<1>13. CASE Judge
  BY <1>13, JudgementCodes DEF Judge, Continue, Conclude, foundVars, runVars,
                               hostVars
<1>14. CASE Sign
  BY <1>14 DEF Sign, Conclude, foundVars, runVars, hostVars
<1>15. CASE WorkerStep
  BY <1>15 DEF WorkerStep, Emit, ExitLeader, foundVars, hostVars
<1>16. CASE HostChanges
  BY <1>16 DEF HostChanges, foundVars, runVars
<1>17. CASE UNCHANGED vars
  BY <1>17 DEF vars, foundVars, runVars, hostVars
<1> QED
  BY <1>1, <1>2, <1>3, <1>4, <1>5, <1>6, <1>7, <1>8, <1>9, <1>10, <1>11, <1>12,
     <1>13, <1>14, <1>15, <1>16, <1>17
  DEF Next, Pipeline, Answered

\* Whatever tools come and go between the probes and the execution, a signed
\* control had its mechanism: every wrapper ran, with the dedicated identity and,
\* for isolation, the root it takes (confinement.rs:109-114, controls.rs:63-65).
THEOREM SignedControlsHadTheirMechanism == Spec => []SignedControlsWereApplied
<1>1. Init => Applied
  BY DEF Init, RunInit, Applied, NoChildYet, ZeroThroughChain, PlannedInFull,
         AdmittedInFull, FactsAreObserved, SuccessIsZero, AttestedIsLast,
         SignedControlsWereApplied, Admitted, Planned
<1>2. Applied => SignedControlsWereApplied
  BY DEF Applied
<1> QED
  BY <1>1, <1>2, AppliedStep, PTL DEF Spec

-------------------------------------------------------------------------------
(* Types, and admission.                                                     *)

Early == {"resolve", "setpriv", "setsid", "prlimit", "facts", "controls"}

\* What a later step finds is still empty before it.
NotYet ==
  /\ step \in Early => controls = {}
  /\ step \in Early \cup {"workspace", "program", "chain"} => chain = {}
  /\ step \notin {"run", "judge", "sign", "done"} => ran = {}
  /\ step # "done" => signed = {}

Typed == TypeOK /\ NotYet /\ root \in BOOLEAN

\* Every step keeps the types: what is found is among the wrappers, what is planned
\* among what is found, and what is signed is what was required.
LEMMA TypedStep == Typed /\ [Next]_vars => Typed'
<1> SUFFICES ASSUME Typed, [Next]_vars PROVE Typed'
  OBVIOUS
<1> USE RunAssumption DEF Typed, TypeOK, NotYet, Early, Results, Refusals, Wrappers
<1>1. CASE ResolveProfile
  BY <1>1 DEF ResolveProfile, Continue, Conclude, foundVars, runVars, hostVars
<1>2. CASE ProbeSetpriv
  BY <1>2 DEF ProbeSetpriv, Continue, runVars, hostVars
<1>3. CASE ProbeTool("setsid", "prlimit")
  BY <1>3 DEF ProbeTool, Continue, runVars, hostVars
<1>4. CASE ProbeTool("prlimit", "facts")
  BY <1>4 DEF ProbeTool, Continue, runVars, hostVars
<1>5. CASE GatherFacts
  <2>1. PICK seen \in {root, FALSE} :
          facts' = [root |-> seen, setpriv |-> "setpriv" \in tools]
    BY <1>5 DEF GatherFacts
  <2>2. facts' \in [root : BOOLEAN, setpriv : BOOLEAN]
    <3>1. seen \in BOOLEAN
      BY Zenon
    <3>2. ("setpriv" \in tools) \in BOOLEAN
      OBVIOUS
    <3> QED
      BY <2>1, <3>1, <3>2
  <2> QED
    BY <1>5, <2>2 DEF GatherFacts, Continue, runVars, hostVars
<1>6. CASE ResolveControls
  BY <1>6, ControlVerdict DEF ResolveControls, Continue, Conclude, foundVars,
                              runVars, hostVars
<1>7. CASE Touch("workspace", "program")
  BY <1>7 DEF Touch, Continue, runVars, hostVars
<1>8. CASE Touch("program", "chain")
  BY <1>8 DEF Touch, Continue, runVars, hostVars
<1>9. CASE PlanChain
  BY <1>9 DEF PlanChain, ChainRefused, Continue, Conclude, foundVars, runVars, hostVars
<1>10. CASE PinEngine
  BY <1>10 DEF PinEngine, Continue, Conclude, foundVars, runVars, hostVars
<1>11. CASE StartWorker
  BY <1>11 DEF StartWorker, Start, RefuseRun, Continue, Conclude, foundVars,
               hostVars
<1>12. CASE RunEnds
  BY <1>12 DEF RunEnds, SettleRun, RefuseRun, Continue, Conclude, foundVars,
               hostVars
<1>13. CASE Judge
  <2>1. FirstFailure(Judgements) \in Results
    BY JudgementVerdict DEF LimitCheck, ScanCheck, BindingCheck, WorkerCheck
  <2> QED
    BY <1>13, <2>1 DEF Judge, Continue, Conclude, foundVars, runVars, hostVars
<1>14. CASE Sign
  BY <1>14 DEF Sign, Conclude, foundVars, runVars, hostVars
<1>15. CASE WorkerStep
  BY <1>15 DEF WorkerStep, Emit, ExitLeader, foundVars, hostVars
<1>16. CASE HostChanges
  BY <1>16 DEF HostChanges, foundVars, runVars
<1>17. CASE UNCHANGED vars
  BY <1>17 DEF vars, foundVars, runVars, hostVars
<1> QED
  BY <1>1, <1>2, <1>3, <1>4, <1>5, <1>6, <1>7, <1>8, <1>9, <1>10, <1>11, <1>12,
     <1>13, <1>14, <1>15, <1>16, <1>17
  DEF Next, Pipeline, Answered

\* The types, and what runs is what was planned and found (confinement.rs:115-174).
THEOREM RunIsTyped == Spec => []TypeOK
<1>1. Init => Typed
  BY RunAssumption DEF Init, RunInit, Typed, TypeOK, NotYet, Early, Results
<1>2. Typed => TypeOK
  BY DEF Typed
<1> QED
  BY <1>1, <1>2, TypedStep, PTL DEF Spec

\* What ResolveControls has found by the time the worker is touched.
Admission ==
  /\ request.document = "valid" /\ request.platform /\ ~request.verify_os_peer
  /\ modes # {}
  /\ \A c \in request.required : Enforceable(c)

AdmittedFirst ==
  /\ step \notin {"resolve", "done"} => request.document = "valid"
  /\ step \in Early => touched = {} /\ stage = "idle"
  /\ step \in Admitted => Admission
  /\ touched # {} \/ stage # "idle" => Admission

\* Past the controls, every capability required was found enforceable on facts that
\* no later step changes.
LEMMA AdmittedFirstStep == AdmittedFirst /\ [Next]_vars => AdmittedFirst'
<1> SUFFICES ASSUME AdmittedFirst, [Next]_vars PROVE AdmittedFirst'
  OBVIOUS
<1> USE DEF AdmittedFirst, Admission, Admitted, Early, Enforceable
<1>1. CASE ResolveProfile
  BY <1>1 DEF ResolveProfile, Continue, Conclude, foundVars, runVars, hostVars
<1>2. CASE ProbeSetpriv
  BY <1>2 DEF ProbeSetpriv, Continue, runVars, hostVars
<1>3. CASE ProbeTool("setsid", "prlimit")
  BY <1>3 DEF ProbeTool, Continue, runVars, hostVars
<1>4. CASE ProbeTool("prlimit", "facts")
  BY <1>4 DEF ProbeTool, Continue, runVars, hostVars
<1>5. CASE GatherFacts
  BY <1>5 DEF GatherFacts, Continue, runVars, hostVars
<1>6. CASE ResolveControls
  <2>1. CASE FirstFailure(ControlChecks) = "none"
    <3>1. Admission
      BY <2>1, <1>6, ControlVerdict DEF ResolveControls
    <3>2. Admission'
      BY <3>1, <2>1, <1>6 DEF ResolveControls, Continue, hostVars
    <3> QED
      BY <3>2, <2>1, <1>6 DEF ResolveControls, Continue, runVars, hostVars
  <2>2. CASE FirstFailure(ControlChecks) # "none"
    BY <2>2, <1>6 DEF ResolveControls, Conclude, foundVars, runVars, hostVars
  <2> QED
    BY <2>1, <2>2
<1>7. CASE Touch("workspace", "program")
  BY <1>7 DEF Touch, Continue, runVars, hostVars
<1>8. CASE Touch("program", "chain")
  BY <1>8 DEF Touch, Continue, runVars, hostVars
<1>9. CASE PlanChain
  BY <1>9 DEF PlanChain, Continue, Conclude, foundVars, runVars, hostVars
<1>10. CASE PinEngine
  BY <1>10 DEF PinEngine, Continue, Conclude, foundVars, runVars, hostVars
<1>11. CASE StartWorker
  BY <1>11 DEF StartWorker, Start, RefuseRun, Continue, Conclude, foundVars,
               hostVars
<1>12. CASE RunEnds
  BY <1>12 DEF RunEnds, SettleRun, RefuseRun, Continue, Conclude, foundVars,
               hostVars
<1>13. CASE Judge
  BY <1>13 DEF Judge, Continue, Conclude, foundVars, runVars, hostVars
<1>14. CASE Sign
  BY <1>14 DEF Sign, Conclude, foundVars, runVars, hostVars
<1>15. CASE WorkerStep
  BY <1>15 DEF WorkerStep, Emit, ExitLeader, foundVars, hostVars
<1>16. CASE HostChanges
  BY <1>16 DEF HostChanges, foundVars, runVars
<1>17. CASE UNCHANGED vars
  BY <1>17 DEF vars, foundVars, runVars, hostVars
<1> QED
  BY <1>1, <1>2, <1>3, <1>4, <1>5, <1>6, <1>7, <1>8, <1>9, <1>10, <1>11, <1>12,
     <1>13, <1>14, <1>15, <1>16, <1>17
  DEF Next, Pipeline, Answered

\* Nothing of the worker is read or run before every control that the profile
\* requires has been found enforceable (run.rs:151-153).
THEOREM AdmissionComesFirst == Spec => []AdmissionBeforeWorker
<1>1. Init => AdmittedFirst
  BY DEF Init, RunInit, AdmittedFirst, Admitted, Early
<1>2. AdmittedFirst => AdmissionBeforeWorker
  BY DEF AdmittedFirst, Admission, AdmissionBeforeWorker
<1> QED
  BY <1>1, <1>2, AdmittedFirstStep, PTL DEF Spec

-------------------------------------------------------------------------------
(* What a result says of the run.                                            *)

\* The outcome that a settled run hands over.
Told(captured) ==
  /\ faults \subseteq Faulty /\ \A f, g \in faults : f = g
  /\ ok => exit = "zero" /\ faults = {} /\ bound
  /\ faults = {} => captured = stream
  /\ bound = CarriesToken(captured) /\ content = Unframed(captured)

Truthful ==
  /\ stream \in Seq(Units) /\ content \in Seq(Units)
  /\ stage = "settled" => \E captured \in Seq(Units) : Told(captured)
  /\ step \in {"judge", "sign"} => stage = "settled"
  /\ step = "sign" => ~LimitCheck.fails /\ ok
  /\ step # "done" => result = "none"
  /\ result = "attested" => stage = "settled"
  /\ AttestationIsHonest /\ ResultNamesTheCause

\* Taking the frame off a sequence leaves a sequence.
LEMMA UnframedType ==
  ASSUME NEW s \in Seq(Units)
  PROVE  Unframed(s) \in Seq(Units)
<1>0. PICK n \in Nat : n = Len(s)
  BY LenProperties
<1>1. CASE CarriesToken(s) /\ n < 3
  <2>1. SubSeq(s, 3, n) = << >>
    BY <1>1, SubSeqEmpty
  <2> QED
    BY <1>0, <1>1, <2>1 DEF Unframed
<1>2. CASE CarriesToken(s) /\ n >= 3
  <2>1. SubSeq(s, 3, n) \in Seq(Units)
    BY <1>0, <1>2, SubSeqProperties
  <2> QED
    BY <1>0, <1>2, <2>1 DEF Unframed
<1>3. CASE ~CarriesToken(s)
  BY <1>3 DEF Unframed
<1> QED
  BY <1>1, <1>2, <1>3

\* What a settled run hands over is true of one capture: everything the worker
\* wrote when no fault is reported.
LEMMA SettlingTells ==
  ASSUME SettleRun, stream \in Seq(Units)
  PROVE  \E captured \in Seq(Units) : Told(captured)' /\ content' \in Seq(Units)
<1>1. PICK n \in 0..Len(stream) :
        /\ faults' = {} => n = Len(stream)
        /\ bound' = CarriesToken(SubSeq(stream, 1, n))
        /\ content' = Unframed(SubSeq(stream, 1, n))
  BY DEF SettleRun
<1>2. SubSeq(stream, 1, n) \in Seq(Units)
  BY SubSeqProperties
<1>0. PICK captured \in Seq(Units) : captured = SubSeq(stream, 1, n)
  BY <1>2
<1>3. faults' = {} => captured = stream
  BY <1>0, <1>1, SubSeqFull
<1>4. stream' = stream /\ exit' = exit
  BY DEF SettleRun
<1>5. faults' \subseteq Faulty /\ \A f, g \in faults' : f = g
  BY DEF SettleRun, Faulty
<1>6. ok' => exit' = "zero" /\ faults' = {} /\ bound'
  BY <1>4 DEF SettleRun
<1>7. content' \in Seq(Units)
  BY <1>1, <1>2, UnframedType
<1>8. Told(captured)'
  BY <1>0, <1>1, <1>3, <1>4, <1>5, <1>6 DEF Told
<1> QED
  BY <1>7, <1>8

\* The four tests, on the outcome they judge.
LEMMA LimitCheckFails ==
  ASSUME Len(content) \in Nat
  PROVE  LimitCheck.fails <=>
           "truncated" \in faults \/ Len(content) > Limit \/ Len(content) > TotalLimit
BY RunAssumption DEF LimitCheck, FreshLedger!Refuses, FreshLedger!Overflows

\* Every step keeps the outcome true of the run, each test of Judgements passed on
\* to the signature.
LEMMA TruthfulStep == Truthful /\ [Next]_vars => Truthful'
<1> SUFFICES ASSUME Truthful, [Next]_vars PROVE Truthful'
  OBVIOUS
<1>0. Len(content) \in Nat /\ Len(stream) \in Nat
  BY LenProperties DEF Truthful
<1> USE DEF Truthful, AttestationIsHonest, ResultNamesTheCause
<1>1. ASSUME UNCHANGED runVars,
             \/ step \notin {"judge", "sign", "done"} /\ step' \notin {"judge", "sign", "done"}
                /\ UNCHANGED result
             \/ /\ step \notin {"judge", "sign", "done"} /\ step' = "done"
                /\ result' \in Refusals \ {"output_limit_exceeded", "output_scan_incomplete"}
             \/ UNCHANGED <<step, result>>
      PROVE  Truthful'
  BY <1>1 DEF runVars, Told, LimitCheck, Refusals
<1>2. CASE Pipeline /\ step \notin {"judge", "sign", "spawn", "run"}
  <2>1. UNCHANGED runVars
    BY <1>2 DEF Pipeline, ResolveProfile, ProbeSetpriv, ProbeTool, GatherFacts,
      ResolveControls, Touch, PlanChain, PinEngine, StartWorker, RunEnds, Judge, Sign
  <2> QED
    BY <1>1, <1>2, <2>1, ControlVerdict DEF Pipeline, ResolveProfile, ProbeSetpriv,
      ProbeTool, GatherFacts, ResolveControls, Touch, PlanChain, PinEngine,
      StartWorker, RunEnds, Judge, Sign, Continue, Conclude, Refusals
<1>3. CASE StartWorker
  BY <1>3 DEF StartWorker, Start, RefuseRun, Continue, Conclude
<1>4. CASE RunEnds /\ SettleRun
  <2>1. PICK captured \in Seq(Units) : Told(captured)' /\ content' \in Seq(Units)
    BY <1>4, SettlingTells
  <2>2. step' = "judge" /\ result' = "none" /\ stage' = "settled" /\ stream' = stream
    BY <1>4 DEF RunEnds, SettleRun, RefuseRun, Continue
  <2> QED
    BY <2>1, <2>2
<1>5. CASE RunEnds /\ RefuseRun
  BY <1>5 DEF RunEnds, RefuseRun, SettleRun, Conclude
<1>6. CASE Judge
  <2> DEFINE code == FirstFailure(Judgements)
  <2>1. UNCHANGED runVars /\ step = "judge" /\ stage = "settled"
    BY <1>6 DEF Judge
  <2>2. /\ LimitCheck.code = "output_limit_exceeded"
        /\ ScanCheck.code = "output_scan_incomplete"
        /\ BindingCheck.code = "run_binding_unproved"
        /\ WorkerCheck.code = "worker_fault"
        /\ ScanCheck.fails = ("capture_failed" \in faults)
        /\ BindingCheck.fails = ~bound /\ WorkerCheck.fails = ~ok
    BY DEF LimitCheck, ScanCheck, BindingCheck, WorkerCheck
  <2>3. /\ faults \subseteq Faulty /\ \A f, g \in faults : f = g
    BY <2>1 DEF Told
  <2>4. CASE code = "none"
    <3>1. ~LimitCheck.fails /\ ok
      BY <2>2, <2>4, JudgementVerdict
    <3>2. (~LimitCheck.fails)'
      BY <2>1, <3>1 DEF LimitCheck, runVars
    <3> QED
      BY <1>6, <2>1, <2>4, <3>1, <3>2 DEF Judge, Continue, Told, runVars
  <2>5. CASE code # "none"
    <3>1. step' = "done" /\ result' = code
      BY <1>6, <2>5 DEF Judge, Conclude
    <3>2. code \in {"output_limit_exceeded", "output_scan_incomplete",
                   "run_binding_unproved", "worker_fault"}
      BY <2>2, <2>5, JudgementVerdict
    <3>3. ResultNamesTheCause'
      <4>1. LimitCheck.fails <=>
              \/ "truncated" \in faults
              \/ Len(content) > Limit \/ Len(content) > TotalLimit
        BY <1>0, LimitCheckFails
      <4>2. code = "output_limit_exceeded" => LimitCheck.fails
        BY <2>2, JudgementVerdict
      <4>3. code = "output_scan_incomplete" => "capture_failed" \in faults
        BY <2>2, JudgementVerdict, Zenon
      <4>4. code # "output_limit_exceeded" => "truncated" \notin faults
        BY <2>2, <4>1, JudgementVerdict
      <4>5. code \in {"run_binding_unproved", "worker_fault"}
              => "capture_failed" \notin faults
        BY <2>2, JudgementVerdict, Zenon
      <4>6. /\ code = "run_binding_unproved" => ~bound
            /\ code = "worker_fault" => bound /\ ~ok
        BY <2>2, JudgementVerdict, Zenon
      <4>7. code = "output_scan_incomplete" => faults = {"capture_failed"}
        BY <4>3, <2>3
      <4>8. code \in {"run_binding_unproved", "worker_fault"}
              => faults \subseteq {"timed_out"}
        BY <4>4, <4>5, <2>3 DEF Faulty
      <4> HIDE DEF code
      <4> QED
        BY <2>1, <3>1, <3>2, <4>1, <4>2, <4>6, <4>7, <4>8 DEF runVars
    <3> HIDE DEF code
    <3> QED
      BY <2>1, <3>1, <3>2, <3>3 DEF Told, runVars
  <2> QED
    BY <2>4, <2>5
<1>7. CASE Sign
  <2>1. step = "sign" /\ UNCHANGED runVars /\ step' = "done"
        /\ result' \in {"attested", "attestation_binding_incomplete"}
    BY <1>7 DEF Sign, Conclude
  <2>2. PICK captured \in Seq(Units) : Told(captured)
    BY <2>1
  <2>3. exit = "zero" /\ faults = {} /\ bound /\ captured = stream
    BY <2>1, <2>2 DEF Told
  <2>4. CarriesToken(stream) /\ content = Unframed(stream)
    BY <2>2, <2>3 DEF Told
  <2>5. Len(content) =< Limit /\ Len(content) =< TotalLimit
    BY <1>0, <2>1, LimitCheckFails, RunAssumption
  <2>6. AttestationIsHonest'
    BY <2>1, <2>3, <2>4, <2>5 DEF runVars
  <2> QED
    BY <2>1, <2>6 DEF Told, runVars
<1>8. CASE WorkerStep
  <2>1. UNCHANGED <<step, result, faults, bound, content, ok>>
    BY <1>8 DEF WorkerStep, Emit, ExitLeader
  <2>2. CASE Emit
    <3>1. stage = "running" /\ stage' = "running" /\ stream' \in Seq(Units)
      BY <2>2 DEF Emit
    <3> QED
      BY <2>1, <3>1 DEF LimitCheck
  <2>3. CASE ExitLeader
    <3>1. exit = "none" /\ UNCHANGED <<stage, stream>>
      BY <2>3 DEF ExitLeader
    <3>2. stage = "settled" => \E captured \in Seq(Units) : Told(captured)'
      BY <2>1, <3>1 DEF Told
    <3> QED
      BY <2>1, <3>1, <3>2 DEF LimitCheck
  <2> QED
    BY <1>8, <2>2, <2>3 DEF WorkerStep
<1>9. CASE HostChanges \/ UNCHANGED vars
  BY <1>1, <1>9 DEF HostChanges, vars
<1> QED
  BY <1>2, <1>3, <1>4, <1>5, <1>6, <1>7, <1>8, <1>9
  DEF Next, Pipeline, Answered, RunEnds, ResolveProfile, ProbeSetpriv, ProbeTool,
      GatherFacts, ResolveControls, Touch, PlanChain, PinEngine

\* Before the run there is no outcome.
LEMMA TruthfulInit == Init => Truthful
BY DEF Init, RunInit, Truthful, AttestationIsHonest, ResultNamesTheCause

\* An attestation is only ever of a run that succeeded, captured whole, bound to
\* its token and within both bounds, whatever the two limits (run.rs:203-220).
THEOREM AttestationsAreHonest == Spec => []AttestationIsHonest
<1>1. Truthful => AttestationIsHonest
  BY DEF Truthful
<1> QED
  BY <1>1, TruthfulInit, TruthfulStep, PTL DEF Spec

\* A result names the first thing that went wrong with the outcome, and neither a
\* worker fault nor an unproved binding hides a cut or a failed capture
\* (run.rs:19-28).
THEOREM ResultsNameTheirCause == Spec => []ResultNamesTheCause
<1>1. Truthful => ResultNamesTheCause
  BY DEF Truthful
<1> QED
  BY <1>1, TruthfulInit, TruthfulStep, PTL DEF Spec
===============================================================================
