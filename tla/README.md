# A verification of the execution harness

TLA+ models of `libre-ai-harness`, the crate that runs a worker inside a set of
controls and attests what it applied. Paths are relative to the repository root;
`src/src/host/process.rs` is written `process.rs` and so on.

`PROJECT.json` holds the machine-readable side: which definition stands for
which lines (`map`), the runs, one mutation of the model per property, the
theorems, the findings and the list of hazards.

## The system

| Component | State | Operations | Depends on |
| --- | --- | --- | --- |
| Confined spawn, `host/process.rs` and `host/binding.rs` | the child and its process group; both ends of a socket pair; what has been written and captured; the clock; five verdict flags | `spawn_confined`, `reap`, `reap_group`, `wait_within`, `RunBinding::frame`/`unframe` | the kernel, `/bin/kill`, the wrapper tools |
| Output ledger, `outputs.rs` | two limits, the running total | `admit`, `admit_scan` | nothing |
| Attested run, `host/run.rs` | one pass: the request, what the host was seen to offer, the controls found, the chain built, the outcome | `run_confined_attested`, `gather_host_facts`, `host_plan` | all the others |
| Control resolution, `controls.rs` | none | `resolve_controls` | host facts |
| Wrapper chain, `confinement.rs` | a plan | `plan_wrapper_chain` | the plan |
| Path policy, `fs_policy.rs` | none | `glob_matches`, `evaluate_path_access` | the profile |
| Workspace observer, `host/fs.rs` | the canonical root | `observe`, `judge` | the file system |
| Profile, `profile.rs` | none | `parse_profile`, `resolve_profile`, the two digests | the contract registry |
| Attestation, `attestation.rs` | none; the document travels | `sign_attestation`, `verify_attestation` | the contract registry, the encodings |
| Encodings, `canonical.rs` | none | base64url, hexadecimal, canonical digest | nothing |
| Gates, `verification/`, `tools/` | none | scanners of the repository itself | nothing |

The attested run calls the others in sequence: it resolves the profile, looks at
the host three times over, resolves the controls, touches the workspace and the
worker's program, plans the wrapper chain, spawns, judges the outcome through
the ledger, and signs. Nothing in the crate is persisted and the harness is one
thread, so the hard part is what goes on around that thread: the worker and its
descendants, the kernel, the clock, and a host that changes between two looks.

What makes each part correct, and hard:

- **Confined spawn.** The outcome must be true of what the worker did, whatever
  the order of writes, closes, forks, exits, signals and the deadline; the group
  must be signalled while its identifier is still its own; the deadline must
  bound the phases and not the calls; and a success must be a native zero exit
  with a complete, bound capture that leaves no member of the group behind.
- **Output ledger.** The total is the true sum, at every width, and refusing is
  never an accident of arithmetic.
- **Attested run.** No worker before admission; no signature without success; no
  signed control without its mechanism; and one answer that names the cause.
- **Glob matcher.** The two loops must decide the language of the patterns
  although they only ever go back to the last star, at a bounded cost.
- **Path policy and observer.** What is admitted has to be where the path leads
  however it is spelled, through links and `..`, whether or not it exists yet;
  and a refusal has to blame a link exactly when a link did it.
- **Profile.** The requested digest is recomputed from the document and never
  taken on its word; the effective digest names all that a run enforces and
  nothing that is merely ornamental, so that an operator can recompute it.
- **Attestation.** What verifies is what was signed, to the last symbol, although
  the document may be edited on its way and a text may decode in more ways than
  one; what was signed verifies; and a refusal blames the party it should, since
  "malformed key" and "unsigned" send an operator in different directions.

## Modules

| Module | Models | Used by |
| --- | --- | --- |
| `ProcessGroup` | the operating system's processes, group, signals, statuses and identifiers (external) | `SpawnConfined` |
| `Socketpair` | the anonymous socket pair, its buffers, its end of file and its reset (external) | `SpawnConfined` |
| `SpawnConfined` | `spawn_confined` call by call, the worker, the clock | |
| `SpawnInvariants` | the inductive invariants of `SpawnConfined` | the proof modules |
| `ConfinedRun` | what `spawn_confined` promises, without saying how | `SpawnConfined` implements it, `AttestedRun` builds on it |
| `OutputLedger` | `OutputLedger::admit` over counters of a fixed width | `AttestedRun` uses its rule |
| `Checks` | a sequence of early returns, and the one that answers | `AttestedRun`, `Profile`, `Attestation` |
| `AttestedRun` | `run_confined_attested`, with `controls.rs` and `confinement.rs` | |
| `Canonical` | unpadded base64url, with its strict decoder | `Attestation` |
| `Profile` | profile documents, their two digests, `resolve_profile` | `Attestation` |
| `Attestation` | a profile resolved, a run or a caller signing, the document edited on its way, `verify_attestation` | |
| `GlobMatch` | both loops of `glob_matches` | |
| `GlobLanguage` | the language of the patterns, and the matcher's properties against it | the runs |
| `WorkspaceObserver` | `WorkspaceObserver` and `evaluate_path_access`, with the file system they look at | |
| `MC*` | instances for TLC | |
| `HelperProofs` | lemmas on `Checks`, and induction over the natural numbers | the proof modules |
| `SpawnSafetyProofs`, `SpawnVerdictProofs` | theorems about `SpawnConfined`; that it implements `ConfinedRun` | |
| `OutputLedgerProofs`, `AttestedRunProofs`, `AttestationProofs`, `GlobMatchProofs`, `WorkspaceObserverProofs` | theorems about the module they are named for, and the modules it uses | |

### SpawnConfined

`pc` names the place between two system calls. One action is one call and the
code around it up to the next: `WriteNext` and `ReadNext` are the tests at the
head of the two loops, `Send*` and `Recv*` the outcomes of one socket call,
`ReapStep` the three call sites of `reap` with what follows each, `Collect`
`wait_within`, `Conclude` the token test, the last wait and the verdict. `Spawn`,
`Arm` and `Size` have the error returns of the code: they end in `refused` and
leave the child as it is. `output`, `truncated`, `timed_out`, `capture_failed`,
`collected`, `run_binding_proved` and `exit_ok` are the variables of the code;
`late`, `cleared` and `strangerHit` are history.

The worker is unconstrained: any process of its group reads, writes, shuts a
direction, closes, forks, leaves the group, exits or dies between any two steps
of the harness. It only cannot write a token it has not read. The setsid wrapper
runs before the program does. Exit has two steps, descriptors first and status
later, which is the gap the code's comment at `process.rs:207-219` is about. A
KILL is pending until the process takes it, a killed process may still finish an
exit it has begun, and the group's identifier is reused once the leader has been
collected and no member is left alive.

Data is abstract where no property tells it apart: the token is one unit, the
separator one, every other byte is `"x"`; the payload is a length; a read returns
any number of queued units up to the size of the buffer; time is one bit, whether
`started.elapsed()` has passed `max_duration`. `kill(1)` succeeds or fails as a
whole; that `wait_within` polls is a stutter. The slice of the reads is taken to be
set: the code ignores a failure to set it (`process.rs:183`), and with a read that
blocks for longer than a slice the deadline would not be looked at.

### AttestedRun

`step` walks the function. `ProbeSetpriv`, `ProbeTool` and `GatherFacts` are the
looks at the file system, so `setpriv` is looked for twice, and `StartWorker` is
a third look, by the kernel. `tools` changes at any moment, up to `MaxChanges`
times. `ControlChecks` and `Judgements` list the tests of the code in its order
with the code each answers with, and `FirstFailure` is what a sequence of early
returns does.

The engine of this version enforces no network mode, and so refuses every
otherwise admissible run before the spawn: `modes = {}` is that engine. The
instance also has one with a mode (`Engines`), which checks the rest of the
function, written and tested code that nothing reaches yet. `EveryRequestIsRefused`
is about the first, and `AdmissionBeforeWorker` says of it that nothing of the worker
is read or run; the properties that need a worker are about the second, and nothing
of it is claimed of a run that happens today.

The spawn is `ConfinedRun`, not `SpawnConfined`: every outcome the abstract run
allows, which includes all that the concrete one produces. Resolving the profile
and signing are decisions here and have modules of their own; the contract's
validation of the caller's data is a refusal that may always happen.

### Profile, Canonical and Attestation

A profile's body is a function from JSON pointers to values; the fields that are read
get a pointer each, and `Enforced` lists them by the function that reads them. `Taken`
is what a run takes from a profile: the values of these fields, and of `verifyOsPeer`,
which is optional, whether it is prescribed. A digest is the content it digests:
SHA-256 over canonical JSON is taken to be injective, so that two digests are equal
exactly when the documents are. What the contract registry checks is the constant
`Profiles` with `ContractAssumption` (the members the schema fixes by `const` are the
same in all of them).

`Attestation` is one document's life. `ResolveProfile` is `resolve_profile`,
`SignRun` the end of `run_confined_attested`, `SignDirectly` any other caller of
the public `sign_attestation`; `Depart`, `Edit` and `Verify` are the way to the
operator. An edit takes the content, the address or the signature of another
attestation, or a text of its own. `verify_attestation` is the sequence of its
five checks. Signatures are ideal as well: one verifies under a key when the
owner of that key has emitted those bytes for that message. The texts are not:
`base64url_decode` is the code's, symbol by symbol, since a decoder that ignores
leftover bits would let two texts carry one signature. The contract's opinion of
an attestation is one bit of its content; whatever else it says of the two texts
only refuses more, and nothing rests on it.

### GlobMatch

A cursor is the four variables of a loop. The loops have the same shape, so they
share `AtStar`, `PastStar`, `PastMatch` and `Resumed`; the inner loop runs when the
outer compares a segment, and returns to it. `GlobLanguage` defines the language
without any cursor: for each element of a pattern, from its end, the places of the
subject from which the rest of the pattern leads to the end of both.

### WorkspaceObserver

A file system is a function from places to entries, and `Walk` is what the
operating system does with a path, name by name: the one external part. The
steps are those of `new`, `observe` and `judge`; the walk for links goes by names
(`Walked`), which is what the code does and what makes it worth comparing with
`Walk`. The properties only use `Walk` on the path as the caller spelled it,
through the root as it was given. The file system is still while a path is
judged, a link's target is absolute, and the profile's patterns are the sets of
paths they match (matching is `GlobMatch`).

`Steps` is how many names a resolution may take. A walk is defined for every
number of names, and resolves if it has ended after one of those in `Steps`: TLC
tries a range, the theorems about the answers are of `Steps = Nat`.

`Landings` is where a path takes a read or a write when the system follows every
link, the last one too: where its walk ends, or the free name that is all it has
left. It uses nothing of the code's, and where the code means something else the
properties say so:

- A link to nothing is judged under the link's name, since its parent is made
  canonical and the name put back. `AdmittedIsWhereItLeads` and `RefusalIsDeserved`
  name this case apart; that a write through such a link may leave the workspace is
  a finding (`WorkspaceDangling`).
- A path that goes on below a file is judged under the name it would have there. It
  lands nowhere, and what is admitted can be neither read nor written.
- A link is only blamed when the path is spelled inside the workspace: a path that
  comes back into it from outside through another name of the root is not walked
  for links.
- "Both spellings judge identically" (`fs.rs:48`) has an exception, which the proof
  of `EscapeNamesItsLink` came upon and TLC confirms: a root that is itself given by
  way of the workspace. With `/ws/s` a link to `/ws` and given as the root, the
  relative path `s/..` becomes `/ws/s/..`, which starts with the given root and is
  rebased once more, to `/ws/..`; its escape is reported as a plain one although a
  link is in the spelling. `NamedInside` excludes such roots, and the run has one.
  What is admitted or refused is not affected: `AdmittedIsWhereItLeads` and
  `RefusalIsDeserved` hold of these roots too.
- The walk by names can blame a link of the workspace that the operating system
  never crosses: in `../alias/../ws/a` the first `..` leaves the workspace, a link
  of the host changes what the second one undoes, and the names come back to
  `/ws/a` while the system is elsewhere. For such a path the property only says that
  some link was crossed; for one spelled inside the workspace, that a link of the
  workspace was.

## Runs

| Run | Question | Instance |
| --- | --- | --- |
| `SpawnGroup` | Who is signalled, and who is left? | a process group, two interchangeable descendants, refusals and interruptions, no payload |
| `SpawnCapture` | Does the outcome tell the truth, and does an answer survive a failing transport? Does it implement `ConfinedRun`? | up to four units against a bound of one and its frame, one unit of payload, buffers of two |
| `SpawnProgress` | What ends? | one descendant, `/bin/kill` and `wait` failing at will |
| `SpawnFilter` | Does a worker that waits for the end of its input get to answer? | two units of payload through a buffer of two, an answer of four |
| `OutputLedger` | Is the account true? | all pairs of bounds and all sequences, over counters of three bits |
| `AttestedRun` | Is an attestation deserved, and a refusal the right one? Is every request refused today? | every request, with and without a network mode, one change of the tools, a capture bound of two and a total bound of one |
| `Attestation` | Does what verifies say what was signed, and the reverse? Who is blamed? What do the two digests name? | a usual profile and thirteen that differ from it in one field, `verifyOsPeer` left out, false and true among them, and one that breaks the contract; two signers, up to two signatures, up to two edits; texts with leftover bits, with padding, too short, too long |
| `GlobMatch` | Do the loops decide the language, at what cost? | patterns and paths of up to five segments, globs of up to five characters, mixed patterns of up to three |
| `WorkspaceObserver` | Is what is admitted where the system takes the path, and is a refusal deserved and well named? | 129 file systems, a root given as itself, through a link of the host or of the workspace, or missing; all relative paths of three names over a file or link, a directory, a name in it and `..`, absolute ones under both spellings, and some from outside |
| `SpawnLastResort`, `SpawnDuration` | Does the code do what the repository says of it? | one process; see Findings |
| `WorkspaceDangling` | Does an admitted write stay inside? | that of `WorkspaceObserver`; see Findings |

Every property has a mutation of the model, next to the definition it replaces,
that breaks it under the run's own configuration: `WrappingAccept` is the `+` of
a release build, `CollectThenReap` the order that was in the code before,
`AtUnmatchedStar` a defect the code's comment at `fs_policy.rs:98-102` remembers.

**Bounds.** The spawn distinguishes three kinds of units and compares lengths with the
bound, the frame and the buffers, so what matters is to be below, at and above each:
`MaxProduced` is one more than the capture bound, buffers hold one or two units so
that both sides block, and the read size is such that one read crosses the bound. Two
descendants are the least that can fork from one another and leave the group in
different orders. `LateBound` caps a counter of which only zero, one and more are told
apart. In `AttestedRun`, `TotalLimit` is below `Limit` so that both ledger tests can
fail, `StreamBound` is one more unit than a capture can hold, and one change of the
tools can fall between any two looks, which is what a check followed by a use can be
wrong about. Five segments hold two double stars with literals around each of them,
the least for which the last star and an earlier one differ. In `Attestation` a
signature is one byte and a key two, which leave as many bits over as 64 and 32 bytes
do; two signatures are what it takes to put the parts of one attestation into another,
and two edits to do so with a second part adjusted to the first. In
`WorkspaceObserver` three names are what it takes to follow a link and climb back out
of where it led; `MCSteps` is above the longest walk that ends in these file systems,
so that only loops of links run into it.

**Fairness.** `SpawnConfined` has weak fairness of the harness's steps (it is
scheduled, and every call of its has a timeout or returns), of the clock passing
the deadline, and of the kernel ending processes that are dying; none of the
worker, of the wrapper or of `/bin/kill` succeeding. `SpawnFilter` alone assumes
a worker that makes progress, because its question is whether such a worker is
served; it assumes the deadline does not pass instead of the clock. `AttestedRun`
has weak fairness of the function's own steps; its liveness property is only
claimed without a network mode, where the spawn, which may not return, is not
reached.

Deadlock is checked in every run but that of `Attestation`: a finished run, answer
or match may stutter, and nothing else may stop. A document's life does stop, when
the profile is refused or the operator has judged.

## Findings

Each is a run that violates one property, stated by the repository:

- `SpawnLastResort`. `process.rs:309` keeps `child.kill()` "as the last resort if
  the signal cannot be sent". The code returns after `reap_group` and drops the
  status of `/bin/kill`.
- `SpawnDuration`. `tests/host_process.rs:101` asks `maxDurationSeconds` to
  "bound the RUN, not merely the read phase". The two loops and `wait_within` are
  bounded (`DeadlineEndsCapture`), but the last `child.wait()` is not: when the
  deadline passes before the wrapper has formed the group, nobody is signalled
  and a worker that never ends is waited for.
- `WorkspaceDangling`. `docs/apps/harness.md:25` refuses "a path escaping the
  workspace root after canonicalization", and `docs/apps/harness.md:127` has "no path
  escape on the platform's canonicalization semantics". A path that does not
  canonicalize is judged by its parent and its last name (`fs.rs:61-71`), also when
  that name is a link: a write through a link of the workspace to a free name outside
  is admitted under the name of the link.

Two disagreements need no run of their own:

- `docs/apps/harness.md:38` excludes "a warning followed by execution". The error
  returns after the spawn (`process.rs:136-145`, `187-188`) leave the child running,
  neither signalled nor waited for: `Arm` and `Size`.
- `profile.rs:228` puts every field that "a code path reads [...] AND acts on" in the
  effective digest, "the way `verifyOsPeer` did" (`profile.rs:235`). The list leaves
  `verifyOsPeer` out (`profile.rs:262-264`) while `resolve_controls` refuses on it
  (`controls.rs:130-132`), so a profile that is refused has the effective digest of one
  that is not. `EffectiveNamesTheConfinement` says how far this goes: the digest is
  exact among the profiles that can have a run, and leaves this one field of the
  others open.

## Proofs

TLC checks the instances above; TLAPS proves the following for every value of the
constants, from the assumptions named in the modules (`LeaderAssumption`,
`CapAssumption`, `ParameterAssumption`, `WidthAssumption`, `RunAssumption`,
`InputsAssumption`, `KeyAssumption`, `DocumentAssumption`, `ContractAssumption`,
`TreesAssumption`, `PathsAssumption`, `StepsAssumption`) and those a theorem states.
Every safety invariant that a run checks is proved.

**The spawn.** The properties are not inductive; `SpawnInvariants` says what has
to be true at each `pc`.

- `TypeCorrect`: types, and that the slice sent never passes the frame.
- `DeadlineIsHonoured` rests on `OneLateCall`: a call only starts when the clock
  was read before the deadline, so there is at most one late one.
  `TimeoutsAreReal` needs that `wait` does not fail, since the code reports such
  a failure as a timeout, before the deadline too (`process.rs:297`).
- `NoStrangerIsSignalled` and `ClearedGroupsAreDoomed` rest on `ProcInv`
  (`BeforeSpawn`, `Reserved`, `StatusIsNative`, `Cleared`): the leader is collected
  only on the way out of the two waits, after which no signal is sent, and until
  then its identifier is reserved; a child is born with the group's signal only if
  its parent was running without one, and a cleared group has no such parent.
- `CapturesAreExact`: what has left the socket is what was captured, by
  reassociating the two halves of `produced` at each delivery.
- `CaptureFailuresAreResets` from `ResetIsClosed`: a reset is raised by the last
  close and is taken once, by a send of what is left of the frame or by a read, which
  reports it.
- `AnswersSurvive` from `FailedIsCaptured` and `CompleteAtEof`: an error is read only
  after everything before it, and like end of file only when nobody can write any
  more; a send that fails leaves the rest to the reads.
- `SuccessesAreNativeAndComplete` and `BoundsAreTheContents` from `CompleteAtEof`
  and `VerdictIsSound`: end of file means that the worker side can write no more
  and that all of it has been read, and this stays true to the verdict.
- `SuccessesLeaveNoGroup` from `ClearedAtEof` and `WrapperIsQuiet`: the wrapper
  holds the transport open until it has formed the group, so end of file finds the
  group formed or the leader gone. It assumes a process group and a `/bin/kill`
  that works.
- `SpawnImplementsConfinedRun`: the whole of it, against the promise that
  `AttestedRun` builds on. A step that neither writes nor ends the leader is not
  seen, or starts or refuses the run (`QuietStep`); the environment writes or ends
  the leader, never both in one step (`ObservedEnvironment`); and the verdict is
  the abstract settlement (`ConcludeSettles`), which needs, beyond the invariants
  above, that no second fault is ever reported (`OneFault`).

**The ledger.** `LedgersAreTyped`, `AccountsAreExact` and `RefusalsHaveACause`, at
every width, from an invariant that bounds the total by the limit.

**The attested run.** All its safety properties. `SignedControlsHadTheirMechanism`:
the chain is planned in full or refused; an exit code of zero comes through the whole
chain, so tools that vanished after the plan cannot be behind a success; and `root`
was seen by the same facts that made isolation enforceable. `AdmissionComesFirst`:
what the controls were admitted on does not change afterwards, since the facts are
looked at once. `AttestationsAreHonest` and `ResultsNameTheirCause` carry what each
test of `Judgements` has established on to the signature, over an outcome that
`ConfinedRun` does not change any more.

**The attestation.** All its properties. A text that decodes is the encoding of
what it decodes to (`DecodedIsEncoded`, the strict decoder), and each check of
`verify_attestation` ties one field to something emitted: the address to the
content, the message to the address, the signature's bytes to the text, the key's
to its text. Together they leave nothing that could differ, which is
`VerifiedWasSigned`. The other direction, `GenuineAttestationsVerify`, needs that
decoding undoes encoding: `DecodingUndoesEncoding`, for any
bytes, chunk by chunk, from the digits of a 24-bit triple in base 64 and base 256;
then no check can fail on a document as it was emitted.
`VerdictsBlameTheRightParty` follows from the order of the checks and both
directions. `OperatorsCanRecompute` and `EffectiveDigestsNameTheConfinement` rest
on the projection to `APPLIED_PROFILE_SURFACE` being, locked members aside, `Enforced`
without `verifyOsPeer` (`SurfaceIsEnforcedAndLocked`), of which a run takes the same from
all profiles that `resolve_controls` lets through.

**The matcher.** `TypeCorrect`, and `CostsAreBounded`: an iteration moves the
pattern on or moves the resumption on, and a resumption moves the pattern back by
at most its length; `Credit` weighs the two so that every iteration earns one and
no cursor holds more than the product of the lengths.

`VerdictIsCorrect` and `LastStarIsEnough` rest on what a cursor promises of the
language (`Promises`): what is reachable from its place, or from a later resumption,
is a match (`Sound`); if there is a match, it is reachable from its place or from a
later resumption of the last star (`Complete`); and what follows the last star has
matched as a block, so that whatever a later resumption can do, it can also do
shifted, at the end of the block (`Shifts`). The third is what makes the second
inductive when a new star is met: the old star is forgotten, and the new one holds
all that the old one could still do. The argument is made once, for patterns and
subjects of any kind (`Unfolds`), and used for both loops; the inner loop's answer is
what the outer one's alphabet is (`ComparedElement`).

**The observer.** `TypeCorrect` (what is judged has no `..` left and no link above it),
`AdmissionIsCorrect`, `RefusalIsCorrect` and `BlameIsCorrect`, on every file system
that `TreesAssumption` allows, loops of links included, for every spelling of the
path and of the root and for every policy. `Inv` says what each step has computed;
the rest is about walks:

- A walk has one way, so at most one end (`OneWay`, `OneEnd`); with more names to go
  it comes by the same places and goes on from where it would have ended, unless
  that is a file, where it is stuck (`GoesOn`); and the place of what is there leads
  to itself through directories (`PlacesLeadToThemselves`).
- So the beginning of a path can be replaced by the place it leads to, whatever
  follows (`SameEnd`), and if the path leads nowhere, its parent and its last name
  stay the same (`AlikeByPlace`). Rebasing does nothing else (`RebasedIsAlike`): the
  rebased path and the path as it was spelled are resolved alike.
- A path whose walk ends lands at that end alone, and one that lands on a free name
  has walked its parent to an end and stops before that name, which is no link
  (`LandsAtTheEnd`, `DownToTheLast`, `LandsAtItsPlace`). So the place that is judged,
  whichever way it was found, is the one landing there is, a name that is a link to
  nothing aside (`LandsAtDestination`). That is admission and refusal.
- As far as its names stand for no link, a path that leads somewhere goes by its
  names (`GoesByTheNames`). With no link at all it ends where the names end
  (`NoLinkNoEscape`); the first link among them is walked into by the rebased path
  (`FirstLinkIsCrossed`) and, since the walk to the root is over by then, by the path
  as it was spelled (`SpelledWalksIntoIt`). That is the blame.

The last three theorems assume `Steps = Nat`: the system gives up on loops of links
and on nothing else. With a limit on the length of a walk they would be false, since
the rebased path may be shorter than the spelled one, and resolve where that one is
given up.

**Induction.** The language of the matcher and the walks of the observer are recursive
functions. That they exist and unfold, and what holds all along them, is proved by
`Climb` in `HelperProofs`: a set of numbers that contains zero and with each number
the next contains all, since the order of the numbers is well founded.

**Model-checked only.** Liveness (`DeadlineEndsCapture`, `SignalledRunEnds`,
`FilterSucceeds`, `EveryRequestIsRefused`) rests on fairness and `ENABLED`, which are
out of the prover's reach. The three findings are counterexamples, which TLC shows.

## What is not modelled

- Files that change while one path is judged: the observer's answer is a fact
  about the moment of its looks (`fs.rs:59`).
- A program that is replaced between the reading of its digest and its execution
  (`run.rs:160`): the code signs the digest it has read and executes by path, and
  promises nothing about the time in between.
- SHA-256, canonical JSON and hexadecimal text: a digest is its content. That two
  spellings of one JSON document have one digest is the serializer's business.
- Ed25519: a signature is what its owner emitted.
- The contract registry: which documents satisfy a schema is a constant.
- The gates in `verification/` and `tools/`: scanners of text, no part of what
  runs.
- The content of a worker's answer beyond its token, the environment and working
  directory of the child, `stderr`, and what the wrappers do to privileges: a
  wrapper is present or not.

## Plan

Done: 1. the spawn with its operating system, its abstract promise, its theorems
and the theorem that it keeps the promise; 2. the ledger; 3. the attested run on
the abstract spawn, all its safety properties proved; 4. the matcher, which
decides the language of its patterns, proved for patterns and paths of every
length; 5. the workspace observer and the path policy on a still file system, all
its properties proved; 6. the profile and its two digests; 7. the attestation from
signing to the operator's verdict, all its properties proved.

Next, in this order:

8. A socket whose read slice could not be set, with what is left of
   `DeadlineEndsCapture` without it.
9. A file system that moves while the observer judges, to say which answers can
   still be relied on.
10. `SpawnFilter` and `SpawnProgress` as invariants that bound the steps left, so that
   what ends is proved up to the fairness it needs.
