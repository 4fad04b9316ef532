----------------------------- MODULE GlobLanguage -----------------------------
(***************************************************************************)
(* The language of the patterns, and what GlobMatch decides about it: a    *)
(* double star stands for any number of segments, a star for any number of *)
(* characters of one segment, everything else for itself.                  *)
(***************************************************************************)
EXTENDS GlobMatch

\* For each element of a pattern, and for its end, the places of the subject from
\* which the pattern leads from there to the end of both.
Spans(pat, subject, star, alike) ==
  LET from[i \in 1..Len(pat) + 1] ==
        IF i > Len(pat) THEN {Len(subject) + 1}
        ELSE LET after == from[i + 1]
             IN  IF pat[i] = star
                 THEN {j \in 1..Len(subject) + 1 : \E k \in after : j <= k}
                 ELSE {j \in 1..Len(subject) : <<i, j>> \in alike /\ j + 1 \in after}
  IN  from

\* A character stands for itself, a segment for those it matches.
SameCharacters(glob, segment) ==
  {ij \in (1..Len(glob)) \X (1..Len(segment)) : glob[ij[1]] = segment[ij[2]]}

GlobSpans(glob, segment) ==
  Spans(glob, segment, "*", SameCharacters(glob, segment))

SegmentMatches(glob, segment) == 1 \in GlobSpans(glob, segment)[1]

MatchingSegments ==
  {ij \in (1..Len(pattern)) \X (1..Len(path)) :
     SegmentMatches(pattern[ij[1]], path[ij[2]])}

PatternSpans == Spans(pattern, path, DoubleStar, MatchingSegments)

Matches == 1 \in PatternSpans[1]

\* The verdict is the language's: no pattern loses a match to the wildcards that
\* precede it, and none gains one (fs_policy.rs:41-59, 98-103).
VerdictIsTheLanguages ==
  level = "done" => (verdict <=> Matches)

\* "Resuming from the LAST ** is complete" (fs_policy.rs:51-53): when a path
\* belongs to the pattern, at any moment either the place the loop has reached
\* or a later resumption of the last double star still leads to its end.
NothingIsLost ==
  level # "done" /\ Matches =>
    \/ outer.s \in PatternSpans[outer.p]
    \/ /\ outer.star # 0
       /\ \E k \in outer.resume + 1..Len(path) + 1 : k \in PatternSpans[outer.star + 1]
===============================================================================
