----------------------------- MODULE ProcessGroup -----------------------------
(***************************************************************************)
(* The processes a spawn creates, as the operating system keeps them: the  *)
(* direct child (Leader), the processes it forks, the process group that   *)
(* the setsid wrapper makes of them, SIGKILL, and the identifier of the    *)
(* group, which stays reserved while the leader is unreaped or a member is *)
(* alive.  src/host/process.rs relies on these rules and states them in    *)
(* its comments; nothing here is code of the repository.                   *)
(***************************************************************************)
EXTENDS Integers

CONSTANTS Leader,      \* the process the harness spawns
          Descendants  \* the processes it may fork, directly or not

ASSUME LeaderAssumption == Leader \notin Descendants

Procs == Descendants \cup {Leader}

\* "none" is the status of a leader that has not exited.
Status == {"none", "zero", "nonzero", "killed"}

VARIABLES
  life,       \* where each process is in its life
  group,      \* members (dead ones included) of the group led by Leader
  signalled,  \* processes with a SIGKILL pending
  status,     \* native exit status of Leader
  recycled    \* the group identifier now names a stranger's group

procVars == <<life, group, signalled, status, recycled>>

ProcTypeOK ==
  /\ life \in [Procs -> {"unborn", "running", "exiting", "zombie", "gone"}]
  /\ group \subseteq Procs
  /\ signalled \subseteq Procs
  /\ status \in Status
  /\ recycled \in BOOLEAN

ProcInit ==
  /\ life = [p \in Procs |-> "unborn"]
  /\ group = {}
  /\ signalled = {}
  /\ status = "none"
  /\ recycled = FALSE

Running(p) == life[p] = "running" /\ p \notin signalled

\* Members of the group a signal still finds able to run.
LiveMembers == {p \in group : life[p] = "running"}

-------------------------------------------------------------------------------
SpawnLeader ==
  /\ life' = [life EXCEPT ![Leader] = "running"]
  /\ UNCHANGED <<group, signalled, status, recycled>>

\* The setsid wrapper runs: the leader's pid becomes a group identifier.
FormGroup ==
  /\ Running(Leader)
  /\ Leader \notin group
  /\ group' = {Leader}
  /\ UNCHANGED <<life, signalled, status, recycled>>

Fork(p, c) ==
  /\ Running(p)
  /\ c \in Descendants /\ life[c] = "unborn"
  /\ life' = [life EXCEPT ![c] = "running"]
  /\ group' = IF p \in group THEN group \cup {c} ELSE group
  /\ UNCHANGED <<signalled, status, recycled>>

\* A descendant starts a session of its own; a group leader cannot.
LeaveGroup(p) ==
  /\ p # Leader /\ p \in group
  /\ Running(p)
  /\ group' = group \ {p}
  /\ UNCHANGED <<life, signalled, status, recycled>>

\* Exit runs in two steps: descriptors close first, the status becomes
\* collectable afterwards, and a SIGKILL sent in between changes nothing.
BeginExit(p, s) ==
  /\ life[p] = "running"
  /\ s = "killed" <=> p \in signalled
  /\ life' = [life EXCEPT ![p] = "exiting"]
  /\ status' = IF p = Leader THEN s ELSE status
  /\ UNCHANGED <<group, signalled, recycled>>

\* Only the leader waits for its parent: an orphan is collected by init.
EndExit(p) ==
  /\ life[p] = "exiting"
  /\ life' = [life EXCEPT ![p] = IF p = Leader THEN "zombie" ELSE "gone"]
  /\ UNCHANGED <<group, signalled, status, recycled>>

SignalGroup ==
  /\ signalled' = signalled \cup LiveMembers
  /\ UNCHANGED <<life, group, status, recycled>>

SignalLeader ==
  /\ signalled' = IF life[Leader] = "running"
                  THEN signalled \cup {Leader} ELSE signalled
  /\ UNCHANGED <<life, group, status, recycled>>

\* wait(2) on the leader: frees its pid.
CollectLeader ==
  /\ life[Leader] = "zombie"
  /\ life' = [life EXCEPT ![Leader] = "gone"]
  /\ UNCHANGED <<group, signalled, status, recycled>>

\* With the leader collected and no member left, the identifier is reused.
Recycle ==
  /\ ~recycled
  /\ life[Leader] = "gone"
  /\ \A p \in group : life[p] \notin {"running", "exiting"}
  /\ recycled' = TRUE
  /\ UNCHANGED <<life, group, signalled, status>>
===============================================================================
