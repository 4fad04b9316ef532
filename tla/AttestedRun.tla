------------------------------ MODULE AttestedRun ------------------------------
(***************************************************************************)
(* run_confined_attested of src/host/run.rs, from the requested profile to *)
(* the signed attestation, on a host whose tools come and go between two   *)
(* looks at them.  The spawn itself is the abstract ConfinedRun, which     *)
(* SpawnConfined implements; the ledger is OutputLedger's rule on a fresh  *)
(* ledger.                                                                 *)
(*                                                                         *)
(* enforced_network_mode() refuses every run in this version: modes = {}   *)
(* is that engine.  An engine that enforces a mode is checked beside it,   *)
(* for the rest of the pipeline, which is code that no run reaches yet.    *)
(***************************************************************************)
EXTENDS ConfinedRun, Checks

CONSTANTS
  Required,       \* the sets of capabilities a requested profile may require
  Engines,        \* the sets of network modes that an engine may enforce
  TotalLimit,     \* profile.max_total_bytes(); Limit is max_bytes_per_tool()
  Width,          \* the width of the ledger's counters
  MaxChanges      \* bound of the model: changes of the host during a run

ASSUME RunAssumption ==
  /\ MaxChanges \in Nat
  /\ Width \in Nat \ {0} /\ Limit \in 0..Width - 1 /\ TotalLimit \in 0..Width - 1

VARIABLES
  step,      \* what run_confined_attested does next
  request,   \* what the caller asks for: the profile and the identity
  modes,     \* network modes the engine enforces: {} in this version
  root,      \* the harness runs as root
  tools,     \* the wrapper tools installed now
  changes,   \* how often tools has changed
  plan,      \* tools the ConfinementPlan has found
  facts,     \* HostFacts
  controls,  \* identifiers of the EffectiveControls
  chain,     \* wrappers of the WrapperChain
  ran,       \* wrappers that were there when the chain was executed
  touched,   \* what the run has used of the host on the worker's behalf
  signed,    \* controls an attestation has been signed for
  result     \* "none", a code, or "attested"

hostVars == <<modes, root, tools, changes>>
foundVars == <<plan, facts, controls, chain, ran, touched, signed>>
vars == <<step, request, result, hostVars, foundVars, runVars>>

EngineCapabilities == {"output_bounds", "process_isolation", "resource_limits"}
Wrappers == {"setsid", "prlimit", "setpriv"}

\* A fresh ledger: one spawn, one admission.
FreshLedger == INSTANCE OutputLedger WITH
  per_tool_limit <- Limit, total_limit <- TotalLimit, total_consumed <- 0,
  admitted <- 0, verdict <- "none",
  offered <- [bytes |-> 0, truncated |-> FALSE]

Init ==
  /\ step = "resolve" /\ result = "none"
  /\ request \in [document : {"valid", "unresolved", "mismatch"},
                  platform : BOOLEAN,
                  kind : {"private-unix-socket", "private-network-namespace"},
                  verify_os_peer : BOOLEAN,
                  required : Required,
                  pinned : BOOLEAN,
                  identity : {"none", "root", "dedicated"}]
  /\ modes \in Engines
  /\ root \in BOOLEAN /\ tools \in SUBSET Wrappers /\ changes = 0
  /\ plan = {} /\ facts = [root |-> FALSE, setpriv |-> FALSE]
  /\ controls = {} /\ chain = {} /\ ran = {} /\ touched = {} /\ signed = {}
  /\ RunInit

-------------------------------------------------------------------------------
Continue(next) == step' = next /\ UNCHANGED <<request, result, hostVars>>

Conclude(code) ==
  /\ step' = "done" /\ result' = code
  /\ UNCHANGED <<request, hostVars, foundVars>>

ResolveProfile ==
  /\ step = "resolve"
  /\ \/ request.document = "valid" /\ Continue("setpriv") /\ UNCHANGED foundVars
     \/ request.document = "unresolved" /\ Conclude("profile_unresolved")
     \/ request.document = "mismatch" /\ Conclude("profile_digest_mismatch")
  /\ UNCHANGED runVars

\* host_plan: three looks at the file system, none without setpriv and an
\* identity.
ProbeSetpriv ==
  /\ step = "setpriv"
  /\ IF "setpriv" \in tools /\ request.identity # "none"
     THEN plan' = {"setpriv"} /\ Continue("setsid")
     ELSE plan' = {} /\ Continue("facts")
  /\ UNCHANGED <<facts, controls, chain, ran, touched, signed, runVars>>

ProbeTool(tool, next) ==
  /\ step = tool
  /\ plan' = plan \cup ({tool} \cap tools)
  /\ Continue(next)
  /\ UNCHANGED <<facts, controls, chain, ran, touched, signed, runVars>>

\* gather_host_facts: id may fail, which reads as not root; setpriv is looked
\* for a second time.
GatherFacts ==
  /\ step = "facts"
  /\ \E seen \in {root, FALSE} :
       facts' = [root |-> seen, setpriv |-> "setpriv" \in tools]
  /\ Continue("controls")
  /\ UNCHANGED <<plan, controls, chain, ran, touched, signed, runVars>>

Enforceable(capability) ==
  /\ capability \in EngineCapabilities
  /\ capability = "process_isolation" => facts.root /\ facts.setpriv
  /\ capability = "resource_limits" => facts.setpriv

\* Mutation of Denied: what the engine has never heard of is not denied.
KnownDenied == {c \in request.required \cap EngineCapabilities : ~Enforceable(c)}

Denied == {c \in request.required : ~Enforceable(c)}

\* Mutation of ModeMissing: the network mode is taken for granted.
ModeAssumed == FALSE

ModeMissing == modes = {}

ControlChecks ==
  <<[code |-> "platform_unsupported", fails |-> ~request.platform],
    [code |-> "capability_not_enabled",
     fails |-> request.kind = "private-network-namespace"],
    [code |-> "control_not_enforceable",
     fails |-> request.verify_os_peer \/ Denied # {} \/ ModeMissing]>>

ResolveControls ==
  /\ step = "controls"
  /\ LET code == FirstFailure(ControlChecks)
     IN \/ code # "none" /\ Conclude(code)
        \/ /\ code = "none" /\ controls' = request.required
           /\ Continue("workspace")
           /\ UNCHANGED <<plan, facts, chain, ran, touched, signed>>
  /\ UNCHANGED runVars

\* canonical_workspace and the reading of the worker's program.
Touch(what, next) ==
  /\ step = what
  /\ touched' = touched \cup {what}
  /\ UNCHANGED <<plan, facts, controls, chain, ran, signed, runVars>>
  /\ \/ Continue(next)
     \/ step' = "done" /\ result' = "control_not_enforceable"
        /\ UNCHANGED <<request, hostVars>>

\* Mutations of ChainRefused: the plan, then the identity is not consulted.
UnplannedRefusal == request.identity # "dedicated"
RootedRefusal == ~(Wrappers \subseteq plan)

ChainRefused == ~(Wrappers \subseteq plan) \/ request.identity # "dedicated"

\* plan_wrapper_chain: the contract fixes every prescription of the process
\* block, so all the wrappers are asked for, and an identity that is not root.
PlanChain ==
  /\ step = "chain"
  /\ \/ ~ChainRefused /\ chain' = Wrappers /\ Continue("pin")
        /\ UNCHANGED <<plan, facts, controls, ran, touched, signed>>
     \/ ChainRefused /\ Conclude("control_not_enforceable")
  /\ UNCHANGED runVars

\* effective_profile_digest, the pinned engine manifest, then RunBinding::fresh: the
\* first and the last may fail.
PinEngine ==
  /\ step = "pin"
  /\ \/ request.pinned /\ Continue("spawn") /\ UNCHANGED foundVars
     \/ Conclude("profile_unresolved")
     \/ Conclude("control_not_enforceable")
  /\ UNCHANGED runVars

-------------------------------------------------------------------------------
(* The spawn.  Tools are looked up again when the chain is executed: without *)
(* setsid there is no child, without another wrapper the child fails.        *)

StartWorker ==
  /\ step = "spawn"
  /\ \/ /\ "setsid" \in tools
        /\ Start
        /\ ran' = chain \cap tools
        /\ Continue("run")
        /\ UNCHANGED <<plan, facts, controls, chain, touched, signed>>
     \/ RefuseRun /\ Conclude("control_not_enforceable")

\* Bound of the model: one unit more than a capture holds.
StreamBound == Limit + 3

\* The worker writes and exits zero only through the whole chain; a wrapper that
\* does not find the next one fails.
WorkerStep ==
  /\ \/ Emit /\ ran = chain /\ Len(stream) < StreamBound
     \/ ExitLeader /\ (ran # chain => exit' # "zero")
  /\ UNCHANGED <<step, request, result, hostVars, foundVars>>

RunEnds ==
  /\ step = "run"
  /\ \/ SettleRun /\ Continue("judge") /\ UNCHANGED foundVars
     \/ RefuseRun /\ Conclude("control_not_enforceable")

LimitCheck ==
  [code |-> "output_limit_exceeded",
   fails |-> FreshLedger!Refuses(Limit, TotalLimit, 0, Len(content),
                                 "truncated" \in faults)]
ScanCheck ==
  [code |-> "output_scan_incomplete", fails |-> "capture_failed" \in faults]
BindingCheck == [code |-> "run_binding_unproved", fails |-> ~bound]
WorkerCheck == [code |-> "worker_fault", fails |-> ~ok]

\* Mutations of Judgements: the answer is judged before its size is; a bound,
\* complete answer is taken for a success.
BindingFirst == <<BindingCheck, LimitCheck, ScanCheck, WorkerCheck>>
ExitIgnored == <<LimitCheck, ScanCheck, BindingCheck>>

Judgements == <<LimitCheck, ScanCheck, BindingCheck, WorkerCheck>>

Judge ==
  /\ step = "judge"
  /\ LET code == FirstFailure(Judgements)
     IN \/ code # "none" /\ Conclude(code)
        \/ code = "none" /\ Continue("sign") /\ UNCHANGED foundVars
  /\ UNCHANGED runVars

\* sign_attestation: nothing is signed for no control or for one the engine does
\* not offer, and the contract may still refuse what the caller supplied.
Sign ==
  /\ step = "sign"
  /\ \/ /\ controls # {} /\ controls \subseteq EngineCapabilities
        /\ signed' = controls
        /\ step' = "done" /\ result' = "attested"
        /\ UNCHANGED <<request, hostVars, plan, facts, controls, chain, ran,
                       touched>>
     \/ Conclude("attestation_binding_incomplete")
  /\ UNCHANGED runVars

\* Somebody installs or removes a wrapper.
HostChanges ==
  /\ step # "done" /\ changes < MaxChanges
  /\ \E tool \in Wrappers :
       tools' = IF tool \in tools THEN tools \ {tool} ELSE tools \cup {tool}
  /\ changes' = changes + 1
  /\ UNCHANGED <<step, request, result, modes, root, foundVars, runVars>>

Pipeline ==
  \/ ResolveProfile \/ ProbeSetpriv
  \/ ProbeTool("setsid", "prlimit") \/ ProbeTool("prlimit", "facts")
  \/ GatherFacts \/ ResolveControls
  \/ Touch("workspace", "program") \/ Touch("program", "chain")
  \/ PlanChain \/ PinEngine \/ StartWorker \/ RunEnds \/ Judge \/ Sign

Answered == step = "done" /\ UNCHANGED vars

Next == Pipeline \/ WorkerStep \/ HostChanges \/ Answered

Spec == Init /\ [][Next]_vars

FairSpec == Spec /\ WF_vars(Pipeline)

-------------------------------------------------------------------------------
(* Properties.                                                              *)

Refusals ==
  {"profile_unresolved", "profile_digest_mismatch", "platform_unsupported",
   "control_not_enforceable", "capability_not_enabled",
   "output_limit_exceeded", "output_scan_incomplete",
   "attestation_binding_incomplete"}

Results == Refusals \cup {"none", "worker_fault", "run_binding_unproved", "attested"}

\* The types of the run's own variables; what runs is what was planned.
TypeOK ==
  /\ tools \subseteq Wrappers /\ changes \in 0..MaxChanges
  /\ plan \subseteq Wrappers /\ chain \subseteq plan /\ ran \subseteq chain
  /\ facts \in [root : BOOLEAN, setpriv : BOOLEAN]
  /\ controls \in {{}, request.required} /\ signed \in {{}, controls}
  /\ touched \subseteq {"workspace", "program"}
  /\ result \in Results

\* Nothing of the worker is touched, let alone run, before every control the
\* profile requires has been found enforceable (run.rs:151-153).
AdmissionBeforeWorker ==
  touched # {} \/ stage # "idle" =>
    /\ request.document = "valid" /\ request.platform /\ ~request.verify_os_peer
    /\ modes # {}
    /\ \A c \in request.required : Enforceable(c)

\* An attestation is of a run that succeeded: the program exited zero, all it
\* wrote was captured and fits both bounds, and it starts with the run's token
\* (run.rs:203-220).
AttestationIsHonest ==
  result = "attested" =>
    /\ exit = "zero" /\ faults = {}
    /\ CarriesToken(stream) /\ content = Unframed(stream)
    /\ Len(content) <= Limit /\ Len(content) <= TotalLimit

\* Every signed control had its mechanism: all the wrappers ran, whatever tools
\* came and went between the probes and the execution, with the dedicated
\* identity and the privileges it takes (confinement.rs:109-114, controls.rs:63-65).
SignedControlsWereApplied ==
  result = "attested" =>
    /\ signed = request.required /\ signed \subseteq EngineCapabilities
    /\ ran = Wrappers /\ request.identity = "dedicated"
    /\ "process_isolation" \in signed => root

\* A result names what happened: a matrix code for a cut or failed capture, and
\* neither a worker fault nor an unproved binding hides one (run.rs:19-28).
ResultNamesTheCause ==
  /\ result = "output_limit_exceeded" =>
       "truncated" \in faults \/ Len(content) > Limit \/ Len(content) > TotalLimit
  /\ result = "output_scan_incomplete" => faults = {"capture_failed"}
  /\ result = "run_binding_unproved" => ~bound /\ faults \subseteq {"timed_out"}
  /\ result = "worker_fault" => bound /\ faults \subseteq {"timed_out"} /\ ~ok

\* "Unsupported platforms and invalid profiles retain their specific refusals"
\* (run.rs:126-127): with no network mode to enforce, every request is
\* answered with a refusal of the matrix.
EveryRequestIsRefused == modes = {} => <>(result \in Refusals)
===============================================================================
