------------------------------ MODULE GlobMatch ------------------------------
(***************************************************************************)
(* glob_matches of src/fs_policy.rs: two nested loops of the same shape,   *)
(* segments_match over the segments of a path and segment_matches over the *)
(* characters of a segment.  Each has one place to resume from, the last   *)
(* star it has seen.                                                       *)
(*                                                                         *)
(* A segment is a sequence of characters, a pattern or a path a sequence   *)
(* of segments.  Indices start at 1, so a cursor whose star is 0 has none. *)
(***************************************************************************)
EXTENDS Integers, Sequences

CONSTANTS
  Chars,    \* the characters of patterns and paths
  Inputs    \* the pairs of a pattern and a path that are matched

ASSUME InputsAssumption ==
  Inputs \subseteq [pattern : Seq(Seq(Chars)), path : Seq(Seq(Chars))]

VARIABLES
  pattern, path,
  level,     \* the loop that runs: "segments", "characters", or "done"
  outer,     \* the cursor of segments_match
  inner,     \* the cursor of segment_matches
  verdict,
  turns,     \* history: iterations of segments_match
  ticks      \* history: iterations of the running segment_matches

vars == <<pattern, path, level, outer, inner, verdict, turns, ticks>>

DoubleStar == <<"*", "*">>

\* The state of a loop: where it is in the pattern and in the subject, the last
\* star and where the subject stood when it was seen.
Start == [p |-> 1, s |-> 1, star |-> 0, resume |-> 0]

\* Mutation of AtStar: a subject that carries a star consumes the wildcard.
AtUnmatchedStar(c, pat, subject, star) ==
  c.p <= Len(pat) /\ pat[c.p] = star /\ subject[c.s] # star

AtStar(c, pat, subject, star) == c.p <= Len(pat) /\ pat[c.p] = star

\* Mutation of PastStar: the place to resume from is the one after.
LatePastStar(c) == [p |-> c.p + 1, s |-> c.s, star |-> c.p, resume |-> c.s + 1]

PastStar(c) == [p |-> c.p + 1, s |-> c.s, star |-> c.p, resume |-> c.s]

PastMatch(c) ==
  [p |-> c.p + 1, s |-> c.s + 1, star |-> c.star, resume |-> c.resume]

\* Mutation of Resumed: the star absorbs nothing more.
StuckResumed(c) ==
  [p |-> c.star + 1, s |-> c.resume, star |-> c.star, resume |-> c.resume]

\* Mutation of Resumed: the star absorbs all that has been tried in vain.
GreedyResumed(c) ==
  [p |-> c.star + 1, s |-> c.s + 1, star |-> c.star, resume |-> c.s + 1]

\* The star absorbs one more of the subject, and the pattern starts after it.
Resumed(c) ==
  [p |-> c.star + 1, s |-> c.resume + 1, star |-> c.star, resume |-> c.resume + 1]

\* What is left of the pattern at the end of the subject.
OnlyStars(c, pat, star) == \A i \in c.p..Len(pat) : pat[i] = star

Init ==
  /\ \E in \in Inputs : pattern = in.pattern /\ path = in.path
  /\ level = "segments" /\ outer = Start /\ inner = Start
  /\ verdict = FALSE /\ turns = 0 /\ ticks = 0

-------------------------------------------------------------------------------
(* segments_match                                                            *)

Conclude(answer) ==
  level' = "done" /\ verdict' = answer /\ UNCHANGED <<pattern, path, inner, ticks>>

\* The end of an iteration, with what it makes of the cursor.
Turn(cursor) ==
  /\ level' = "segments" /\ outer' = cursor /\ turns' = turns + 1
  /\ UNCHANGED <<pattern, path, inner, verdict, ticks>>

\* Back to the last double star, or no match.
Retreat ==
  \/ outer.star # 0 /\ Turn(Resumed(outer))
  \/ outer.star = 0 /\ Conclude(FALSE) /\ turns' = turns + 1 /\ UNCHANGED outer

SegmentsStar ==
  /\ level = "segments" /\ outer.s <= Len(path)
  /\ AtStar(outer, pattern, path, DoubleStar)
  /\ Turn(PastStar(outer))

\* segment_matches is called.
SegmentsCompare ==
  /\ level = "segments" /\ outer.s <= Len(path)
  /\ outer.p <= Len(pattern) /\ ~AtStar(outer, pattern, path, DoubleStar)
  /\ level' = "characters" /\ inner' = Start /\ ticks' = 0
  /\ UNCHANGED <<pattern, path, outer, verdict, turns>>

SegmentsMiss ==
  /\ level = "segments" /\ outer.s <= Len(path) /\ outer.p > Len(pattern)
  /\ Retreat

SegmentsEnd ==
  /\ level = "segments" /\ outer.s > Len(path)
  /\ Conclude(OnlyStars(outer, pattern, DoubleStar))
  /\ UNCHANGED <<outer, turns>>

-------------------------------------------------------------------------------
(* segment_matches, on the segments at the outer cursor                      *)

Glob == pattern[outer.p]
Segment == path[outer.s]

AtMatch(c) == c.p <= Len(Glob) /\ Glob[c.p] = Segment[c.s]

Tick(cursor) ==
  /\ inner' = cursor /\ ticks' = ticks + 1
  /\ UNCHANGED <<pattern, path, level, outer, verdict, turns>>

CharactersStar ==
  /\ level = "characters" /\ inner.s <= Len(Segment)
  /\ AtStar(inner, Glob, Segment, "*")
  /\ Tick(PastStar(inner))

CharactersMatch ==
  /\ level = "characters" /\ inner.s <= Len(Segment)
  /\ ~AtStar(inner, Glob, Segment, "*") /\ AtMatch(inner)
  /\ Tick(PastMatch(inner))

CharactersResume ==
  /\ level = "characters" /\ inner.s <= Len(Segment)
  /\ ~AtStar(inner, Glob, Segment, "*") /\ ~AtMatch(inner)
  /\ inner.star # 0 /\ Tick(Resumed(inner))

\* The answer goes back to segments_match.
CharactersMiss ==
  /\ level = "characters" /\ inner.s <= Len(Segment)
  /\ ~AtStar(inner, Glob, Segment, "*") /\ ~AtMatch(inner)
  /\ inner.star = 0 /\ Retreat

CharactersEnd ==
  /\ level = "characters" /\ inner.s > Len(Segment)
  /\ \/ OnlyStars(inner, Glob, "*") /\ Turn(PastMatch(outer))
     \/ ~OnlyStars(inner, Glob, "*") /\ Retreat

Answered == level = "done" /\ UNCHANGED vars

Next ==
  \/ SegmentsStar \/ SegmentsCompare \/ SegmentsMiss \/ SegmentsEnd
  \/ CharactersStar \/ CharactersMatch \/ CharactersResume \/ CharactersMiss
  \/ CharactersEnd \/ Answered

Spec == Init /\ [][Next]_vars

-------------------------------------------------------------------------------
(* Properties.                                                              *)

Cursor(pat, subject) ==
  [p : 1..Len(pat) + 1, s : 1..Len(subject) + 1,
   star : 0..Len(pat), resume : 0..Len(subject) + 1]

InBounds(c) == c.star < c.p /\ c.resume <= c.s /\ (c.star # 0 => c.resume # 0)

\* Both cursors stay within the pattern and the subject, so that no index is
\* out of bounds and no decision panics.
TypeOK ==
  /\ pattern \in Seq(Seq(Chars)) /\ path \in Seq(Seq(Chars))
  /\ level \in {"segments", "characters", "done"}
  /\ outer \in Cursor(pattern, path) /\ InBounds(outer)
  /\ level = "characters" =>
       /\ outer.p <= Len(pattern) /\ outer.s <= Len(path)
       /\ inner \in Cursor(Glob, Segment) /\ InBounds(inner)
  /\ verdict \in BOOLEAN /\ turns \in Nat /\ ticks \in Nat

\* "Cost is bounded by pattern length times path length" (fs_policy.rs:53), in
\* each of the two loops, with one more of each for the ends.
CostIsBounded ==
  /\ turns < (Len(pattern) + 1) * (Len(path) + 1)
  /\ level = "characters" =>
       ticks < (Len(Glob) + 1) * (Len(Segment) + 1)
===============================================================================
