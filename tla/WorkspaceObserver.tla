--------------------------- MODULE WorkspaceObserver ---------------------------
(***************************************************************************)
(* WorkspaceObserver::judge of src/host/fs.rs with evaluate_path_access of *)
(* src/fs_policy.rs: a path as the caller spells it is made canonical      *)
(* against the workspace root and then judged by the profile.              *)
(*                                                                         *)
(* A file system is a function from places to entries.  A place is the     *)
(* sequence of the names from the top, <<>> is the top itself; a path is a *)
(* sequence of names and "..", which a link may send anywhere.  The file   *)
(* system is still while one path is judged.  A pattern of the profile is  *)
(* the set of the relative paths it matches: GlobMatch is about matching.  *)
(***************************************************************************)
EXTENDS Naturals, Sequences, SequencesExt

CONSTANTS
  Names,       \* the names of a path, ".." among them
  Trees,       \* the file systems
  GivenRoots,  \* the absolute paths a root may be given as
  Raws,        \* the paths to judge
  Denied,      \* relative places the profile's denied paths match
  Writable,    \* relative places the profile's writable paths match
  Steps        \* how many names a resolution may take: as many as TLC tries

Up == ".."
Nothing == [kind |-> "none"]
Entries ==
  [kind : {"none", "dir", "file"}] \cup [kind : {"link"}, to : Seq(Names)]

\* The top is a directory, what is there is in a directory, and ".." names nothing.
ASSUME TreesAssumption ==
  \A t \in Trees :
    /\ DOMAIN t \subseteq Seq(Names) /\ <<>> \in DOMAIN t /\ t[<<>>].kind = "dir"
    /\ \A place \in DOMAIN t :
         /\ t[place] \in Entries /\ Up \notin ToSet(place)
         /\ place # <<>> /\ t[place].kind # "none" =>
              Front(place) \in DOMAIN t /\ t[Front(place)].kind = "dir"

ASSUME PathsAssumption ==
  /\ GivenRoots \subseteq Seq(Names)
  /\ Raws \subseteq [absolute : BOOLEAN, path : Seq(Names)]

ASSUME StepsAssumption == Steps \subseteq Nat

VARIABLES
  tree, given_root, raw, kind,             \* the file system and the arguments
  root, absolute, traversed_symlink, canonical,
  step,      \* what judge does next
  result     \* "none", "admitted" or a refusal

vars == <<tree, given_root, raw, kind,
          root, absolute, traversed_symlink, canonical, step, result>>
arguments == <<tree, given_root, raw, kind>>

Entry(place) == IF place \in DOMAIN tree THEN tree[place] ELSE Nothing

(***************************************************************************)
(* What the operating system does with an absolute path.  It takes one     *)
(* name at a time from where it is; a link starts again from its target,   *)
(* and only a directory can be walked out of.  A walk that cannot go on    *)
(* stays where it is; a walk that never ends is the loop of links that the *)
(* system gives up on.                                                     *)
(***************************************************************************)
Entered(walk, place, rest) ==
  LET entry == Entry(place)
  IN  CASE entry.kind = "link" -> [at |-> <<>>, todo |-> entry.to \o rest]
        [] entry.kind = "dir" \/ (entry.kind = "file" /\ rest = <<>>) ->
             [at |-> place, todo |-> rest]
        [] OTHER -> walk

Advance(walk) ==
  IF walk.todo = <<>> THEN walk
  ELSE LET name == Head(walk.todo)  rest == Tail(walk.todo)
       IN  IF name = Up
           THEN [at |-> Front(walk.at), todo |-> rest]
           ELSE Entered(walk, Append(walk.at, name), rest)

\* Where a walk is after each number of names, and what is left of its path.
Walk(start) ==
  LET walk[k \in Nat] == IF k = 0 THEN start ELSE Advance(walk[k - 1])
  IN  walk

FromTop(path) == Walk([at |-> <<>>, todo |-> path])

Ended(path, k) == FromTop(path)[k].todo = <<>>

Resolves(path) == \E k \in Steps : Ended(path, k)

\* fs::canonicalize.
Canonical(path) == FromTop(path)[CHOOSE k \in Steps : Ended(path, k)].at

(***************************************************************************)
(* Init: an observer is about to be made of given_root, and judge to be    *)
(* called with raw.                                                        *)
(***************************************************************************)
Init ==
  /\ tree \in Trees /\ given_root \in GivenRoots
  /\ raw \in Raws /\ kind \in {"read", "write"}
  /\ root = <<>> /\ absolute = <<>> /\ canonical = <<>>
  /\ traversed_symlink = FALSE
  /\ step = "new" /\ result = "none"

Answer(r) == step' = "done" /\ result' = r

\* WorkspaceObserver::new: the root has to be there.
New ==
  /\ step = "new"
  /\ \/ /\ Resolves(given_root)
        /\ root' = Canonical(given_root) /\ step' = "rebase" /\ UNCHANGED result
     \/ /\ ~Resolves(given_root)
        /\ Answer("control_not_enforceable") /\ UNCHANGED root
  /\ UNCHANGED <<arguments, absolute, traversed_symlink, canonical>>

\* Path::strip_prefix, on paths that start with it.
Below(prefix, path) == SubSeq(path, Len(prefix) + 1, Len(path))

\* The two spellings of the root are made one, name by name.
Joined == IF raw.absolute THEN raw.path ELSE root \o raw.path
\* mutant: a path under the given root keeps its spelling.
UnrebasedRebased == Joined

Rebased == IF IsPrefix(given_root, Joined)
           THEN root \o Below(given_root, Joined) ELSE Joined

Rebase ==
  /\ step = "rebase"
  /\ absolute' = Rebased
  /\ step' = "look"
  /\ UNCHANGED <<arguments, root, traversed_symlink, canonical, result>>

\* walks_through_symlink goes by the names alone: ".." undoes the name before.
Pushed(place, name) == IF name = Up THEN Front(place) ELSE Append(place, name)

\* Where each number of the names leads, by the names alone.
Walked(below) ==
  LET walked[n \in 0..Len(below)] ==
        IF n = 0 THEN root ELSE Pushed(walked[n - 1], below[n])
  IN  walked

\* It only looks at places in the workspace.  Their parents have been looked at
\* before, so symlink_metadata follows no link on the way to them.
WalksThroughSymlink(below) ==
  \E n \in 1..Len(below) :
    IsPrefix(root, Walked(below)[n]) /\ Entry(Walked(below)[n]).kind = "link"

Look ==
  /\ step = "look"
  /\ traversed_symlink' = (/\ IsPrefix(root, absolute)
                           /\ WalksThroughSymlink(Below(root, absolute)))
  /\ step' = "canonicalize"
  /\ UNCHANGED <<arguments, root, absolute, canonical, result>>

\* mutant: what is not there yet cannot be judged.
StrictCanonicalize ==
  /\ step = "canonicalize"
  /\ \/ /\ Resolves(absolute)
        /\ canonical' = Canonical(absolute) /\ step' = "evaluate" /\ UNCHANGED result
     \/ /\ ~Resolves(absolute)
        /\ Answer("path_escapes_workspace") /\ UNCHANGED canonical
  /\ UNCHANGED <<arguments, root, absolute, traversed_symlink>>

Canonicalize ==
  /\ step = "canonicalize"
  /\ \/ /\ Resolves(absolute)
        /\ canonical' = Canonical(absolute) /\ step' = "evaluate"
     \/ /\ ~Resolves(absolute)
        /\ step' = "parent" /\ UNCHANGED canonical
  /\ UNCHANGED <<arguments, root, absolute, traversed_symlink, result>>

\* mutant: the parent of what is not there yet is taken as it is spelled.
LexicalCanonicalizeParent ==
  /\ step = "parent"
  /\ \/ /\ Last(absolute) # Up
        /\ canonical' = absolute /\ step' = "evaluate" /\ UNCHANGED result
     \/ /\ Last(absolute) = Up
        /\ Answer("path_escapes_workspace") /\ UNCHANGED canonical
  /\ UNCHANGED <<arguments, root, absolute, traversed_symlink>>

\* The target of a write may not exist yet: its parent has to, and its name has
\* to be a name.  The top has no parent, but always resolves.
Named(path) == Last(path) # Up /\ Resolves(Front(path))
Place(path) == Append(Canonical(Front(path)), Last(path))

CanonicalizeParent ==
  /\ step = "parent"
  /\ \/ /\ Named(absolute)
        /\ canonical' = Place(absolute) /\ step' = "evaluate" /\ UNCHANGED result
     \/ /\ ~Named(absolute)
        /\ Answer("path_escapes_workspace") /\ UNCHANGED canonical
  /\ UNCHANGED <<arguments, root, absolute, traversed_symlink>>

\* evaluate_path_access: escape before policy, denial before write rights.
PathAccess ==
  LET relative == Below(root, canonical)
  IN  CASE ~IsPrefix(root, canonical) ->
             IF traversed_symlink THEN "symlink_policy_violation"
                                  ELSE "path_escapes_workspace"
        [] relative \in Denied -> "denied_path_touched"
        [] kind = "write" /\ relative \notin Writable -> "write_outside_writable_set"
        [] OTHER -> "admitted"

Evaluate ==
  /\ step = "evaluate"
  /\ Answer(PathAccess)
  /\ UNCHANGED <<arguments, root, absolute, traversed_symlink, canonical>>

Judged == step = "done" /\ UNCHANGED vars

Next == New \/ Rebase \/ Look \/ Canonicalize \/ CanonicalizeParent \/ Evaluate \/ Judged

Spec == Init /\ [][Next]_vars

-------------------------------------------------------------------------------
(***************************************************************************)
(* Properties.  They compare the answer with where the operating system    *)
(* leads the path as the caller spelled it, through the root as it was     *)
(* given: nothing the observer has computed on the way.                    *)
(***************************************************************************)
Spelled == IF raw.absolute THEN raw.path ELSE given_root \o raw.path

\* The path leads to a place, or its last name is a name where its parent leads.
HasPlace == Resolves(Spelled) \/ (Spelled # <<>> /\ Named(Spelled))

(***************************************************************************)
(* Where the operating system reads or writes what a path spells.  It      *)
(* follows every link, the last one too: a walk lands where it ends, or    *)
(* where the one name that it has left is not there yet and can be made.   *)
(* A path lands at one place, or at none.                                  *)
(***************************************************************************)
Lands(walk) ==
  \/ walk.todo = <<>>
  \/ /\ walk.todo # <<>> /\ Tail(walk.todo) = <<>> /\ Head(walk.todo) # Up
     /\ Entry(Append(walk.at, Head(walk.todo))).kind = "none"

Landings ==
  {walk.at \o walk.todo : walk \in {w \in {FromTop(Spelled)[k] : k \in Steps} : Lands(w)}}

\* What the policy allows.
Allowed(place) ==
  /\ IsPrefix(root, place)
  /\ Below(root, place) \notin Denied
  /\ kind = "write" => Below(root, place) \in Writable

\* The places of the links that a path goes through.
Crossed(path) ==
  {place \in {Append(FromTop(path)[k].at, Head(FromTop(path)[k].todo)) :
                k \in {k \in Steps : FromTop(path)[k].todo # <<>>}} :
     Entry(place).kind = "link"}

\* A root that resolved is a place, and what is judged is a place: it has no ".."
\* left in it and nothing above it is a link (fs.rs:36-40).
TypeOK ==
  /\ step \in {"new", "rebase", "look", "canonicalize", "parent", "evaluate", "done"}
  /\ result \in {"none", "admitted", "control_not_enforceable",
                 "path_escapes_workspace", "symlink_policy_violation",
                 "denied_path_touched", "write_outside_writable_set"}
  /\ traversed_symlink \in BOOLEAN
  /\ \A i \in 1..Len(root) : Entry(SubSeq(root, 1, i)).kind \in {"dir", "file"}
  /\ \A i \in 1..Len(canonical) - 1 :
       Entry(SubSeq(canonical, 1, i)).kind \in {"dir", "file"}
  /\ Up \notin ToSet(canonical)

\* The path that judge gives back is the very place where the operating system
\* takes the caller's spelling, and the policy allows it.  Two spellings have no
\* such place to compare with: one that goes on below a file lands nowhere, and one
\* whose last name is a link to nothing is judged under the name of that
\* link, wherever it would take a write (fs.rs:59-72, fs_policy.rs:138-165).
AdmittedIsWhereItLeads ==
  result = "admitted" =>
    /\ Allowed(canonical)
    /\ \/ Landings = {canonical}
       \/ Landings = {} /\ Entry(Front(canonical)).kind = "file"
       \/ canonical \in Crossed(Spelled)

\* judge refuses nothing that the policy allows: a path that lands inside the
\* workspace at a place that is not denied, and read or writable, is admitted
\* however it is spelled, unless it is judged under the name of a link to nothing
\* (fs.rs:47-52, 59-72).
RefusalIsDeserved ==
  result \notin {"none", "admitted"} =>
    \/ ~Resolves(given_root)
    \/ ~\E place \in Landings : Allowed(place)
    \/ canonical \in Crossed(Spelled)

\* What the documentation says of every path: one that is admitted for a write
\* is written in the workspace ("A path escaping the workspace root after
\* canonicalization is refused before any process starts", docs/apps/harness.md:25).
\* A link to nothing does not canonicalize; the code goes on with the name of
\* the link, and a write follows it (fs.rs:59-71).
WritesStayInside ==
  result = "admitted" /\ kind = "write" =>
    \A place \in Landings : IsPrefix(root, place)

\* The caller names a path in the workspace, through a root that is not itself
\* given by way of it, and never climbs above the root.
NamedInside(path) ==
  /\ IsPrefix(given_root, path)
  /\ IsPrefix(root, given_root) => given_root = root
  /\ LET below == Below(given_root, path)
     IN  \A n \in 0..Len(below) : IsPrefix(root, Walked(below)[n])

\* An escape is blamed on the workspace's links when they did it: a path that is
\* spelled inside the workspace and leads out of it is a violation of the symlink
\* policy, under either spelling of the root.  The policy is only said to be
\* violated when a link was on the way, and a link of the workspace if the path
\* is spelled inside it (fs.rs:36-38, 91-93).
EscapeNamesItsLink ==
  /\ result = "path_escapes_workspace" /\ HasPlace => ~NamedInside(Spelled)
  /\ result = "symlink_policy_violation" =>
       /\ Crossed(Spelled) # {}
       /\ NamedInside(Spelled) =>
            \E link \in Crossed(Spelled) : IsPrefix(root, link) /\ link # root
===============================================================================
