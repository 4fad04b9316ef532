---------------------------- MODULE GlobMatchProofs ----------------------------
(***************************************************************************)
(* Theorems about GlobMatch, for patterns and paths of any length: no      *)
(* index is ever out of bounds, the cost of each loop is bounded by the    *)
(* product of the two lengths, and the verdict is the language's.          *)
(*                                                                         *)
(* The argument for the cost: an iteration either moves the pattern on or  *)
(* moves the resumption on, and a resumption moves the pattern back by at  *)
(* most its length.  Credit weighs the two so that every iteration earns.  *)
(*                                                                         *)
(* The argument for the verdict: a cursor promises (Promises) that what it *)
(* may still reach is a match, and that a match is still to be reached,    *)
(* from its place or from a later resumption of the last star.  The last   *)
(* star is enough because what follows it has matched as a block, which a  *)
(* later resumption shifts: a new star, met at the end of the block, holds *)
(* whatever the old one could still do.  The same argument serves the two  *)
(* loops, over segments and over characters.                               *)
(***************************************************************************)
EXTENDS GlobLanguage, HelperProofs

\* A cursor of a loop over m elements of pattern and n of subject.
CursorIn(c, m, n) ==
  /\ c \in [p : 1..m + 1, s : 1..n + 1, star : 0..m, resume : 0..n + 1]
  /\ InBounds(c)

Credit(c, m) == (IF c.star = 0 THEN 0 ELSE c.resume - 1) * (m + 1) + c.p - 1

\* Products grow with their first factor, by at least the second for each unit.
LEMMA ProductGrows ==
  ASSUME NEW x \in Nat, NEW y \in Nat, NEW w \in Nat, x <= y
  PROVE  /\ x * w \in Nat /\ y * w \in Nat
         /\ x * w <= y * w
         /\ (x + 1) * w = x * w + w
OBVIOUS

\* A loop starts within its bounds, with no credit.
LEMMA StartOK ==
  ASSUME NEW m \in Nat, NEW n \in Nat
  PROVE  CursorIn(Start, m, n) /\ Credit(Start, m) = 0
BY DEF CursorIn, InBounds, Start, Credit

\* Moving past a star stays within bounds and earns a credit.
LEMMA PastStarOK ==
  ASSUME NEW m \in Nat, NEW n \in Nat, NEW c, CursorIn(c, m, n),
         c.p <= m, c.s <= n
  PROVE  /\ CursorIn(PastStar(c), m, n)
         /\ Credit(c, m) + 1 <= Credit(PastStar(c), m)
<1>1. CursorIn(PastStar(c), m, n)
  BY DEF CursorIn, InBounds, PastStar
<1>2. Credit(PastStar(c), m) = (c.s - 1) * (m + 1) + c.p
  BY DEF Credit, CursorIn, PastStar
<1> DEFINE x == IF c.star = 0 THEN 0 ELSE c.resume - 1
<1>3. x \in Nat /\ c.s - 1 \in Nat /\ m + 1 \in Nat /\ x <= c.s - 1
  BY DEF CursorIn, InBounds
<1>4. Credit(c, m) = x * (m + 1) + c.p - 1
  BY DEF Credit
<1> HIDE DEF x
<1>5. x * (m + 1) \in Nat /\ (c.s - 1) * (m + 1) \in Nat
      /\ x * (m + 1) <= (c.s - 1) * (m + 1)
  BY <1>3, ProductGrows
<1>6. c.p \in Nat
  BY DEF CursorIn
<1> QED
  BY <1>1, <1>2, <1>4, <1>5, <1>6

\* Moving past a match stays within bounds and earns a credit.
LEMMA PastMatchOK ==
  ASSUME NEW m \in Nat, NEW n \in Nat, NEW c, CursorIn(c, m, n),
         c.p <= m, c.s <= n
  PROVE  /\ CursorIn(PastMatch(c), m, n)
         /\ Credit(c, m) + 1 <= Credit(PastMatch(c), m)
<1>1. CursorIn(PastMatch(c), m, n)
  BY DEF CursorIn, InBounds, PastMatch
<1> DEFINE x == (IF c.star = 0 THEN 0 ELSE c.resume - 1) * (m + 1)
<1>2. Credit(c, m) = x + c.p - 1 /\ Credit(PastMatch(c), m) = x + (c.p + 1) - 1
  BY DEF Credit, CursorIn, PastMatch
<1>3. x \in Int /\ c.p \in Int
  BY DEF CursorIn
<1> HIDE DEF x
<1> QED
  BY <1>1, <1>2, <1>3

\* Resuming stays within bounds, and earns more than going back costs.
LEMMA ResumedOK ==
  ASSUME NEW m \in Nat, NEW n \in Nat, NEW c, CursorIn(c, m, n),
         c.star # 0, c.s <= n
  PROVE  /\ CursorIn(Resumed(c), m, n)
         /\ Credit(c, m) + 1 <= Credit(Resumed(c), m)
<1>1. CursorIn(Resumed(c), m, n)
  BY DEF CursorIn, InBounds, Resumed
<1> DEFINE x == c.resume - 1
<1>2. Credit(c, m) = x * (m + 1) + c.p - 1
  BY DEF Credit
<1>3. Credit(Resumed(c), m) = (x + 1) * (m + 1) + c.star
  BY DEF Credit, CursorIn, InBounds, Resumed
<1>4. x \in Nat /\ m + 1 \in Nat /\ c.p \in 1..m + 1 /\ c.star \in Nat
  BY DEF CursorIn, InBounds
<1> HIDE DEF x
<1>5. (x + 1) * (m + 1) = x * (m + 1) + (m + 1) /\ x * (m + 1) \in Nat
  BY <1>4, ProductGrows
<1> QED
  BY <1>1, <1>2, <1>3, <1>4, <1>5

\* The credit of a cursor is below the product of the lengths.
LEMMA CreditBound ==
  ASSUME NEW m \in Nat, NEW n \in Nat, NEW c, CursorIn(c, m, n)
  PROVE  /\ Credit(c, m) \in Nat
         /\ Credit(c, m) < (m + 1) * (n + 1)
<1> DEFINE x == IF c.star = 0 THEN 0 ELSE c.resume - 1
<1>1. Credit(c, m) = x * (m + 1) + c.p - 1
  BY DEF Credit
<1>2. x \in Nat /\ x <= n /\ m + 1 \in Nat /\ c.p \in 1..m + 1
  BY DEF CursorIn, InBounds
<1> HIDE DEF x
<1>3. /\ x * (m + 1) \in Nat /\ n * (m + 1) \in Nat
      /\ x * (m + 1) <= n * (m + 1)
      /\ (n + 1) * (m + 1) = n * (m + 1) + (m + 1)
  BY <1>2, ProductGrows
<1>4. (n + 1) * (m + 1) = (m + 1) * (n + 1)
  OBVIOUS
<1> QED
  BY <1>1, <1>2, <1>3, <1>4

-------------------------------------------------------------------------------
(* The inductive invariant.                                                  *)

Typed ==
  /\ pattern \in Seq(Seq(Chars)) /\ path \in Seq(Seq(Chars))
  /\ level \in {"segments", "characters", "done"}
  /\ verdict \in BOOLEAN /\ turns \in Nat /\ ticks \in Nat

OuterInv ==
  /\ CursorIn(outer, Len(pattern), Len(path))
  /\ level # "done" => turns <= Credit(outer, Len(pattern))
  /\ level = "done" => turns < (Len(pattern) + 1) * (Len(path) + 1)

InnerInv ==
  level = "characters" =>
    /\ outer.p <= Len(pattern) /\ outer.s <= Len(path)
    /\ CursorIn(inner, Len(Glob), Len(Segment))
    /\ ticks <= Credit(inner, Len(Glob))

Inv == Typed /\ OuterInv /\ InnerInv

\* The lengths are natural numbers.
LEMMA Lengths ==
  ASSUME Typed
  PROVE  Len(pattern) \in Nat /\ Len(path) \in Nat
BY DEF Typed

\* The lengths within the segments that are compared.
LEMMA SegmentLengths ==
  ASSUME Inv, level = "characters"
  PROVE  Len(Glob) \in Nat /\ Len(Segment) \in Nat
<1>1. outer.p \in 1..Len(pattern) /\ outer.s \in 1..Len(path)
  BY Lengths DEF Inv, OuterInv, InnerInv, CursorIn
<1>2. pattern[outer.p] \in Seq(Chars) /\ path[outer.s] \in Seq(Chars)
  BY <1>1 DEF Inv, Typed
<1> QED
  BY <1>2 DEF Glob, Segment

\* The invariant holds at the start of a match.
LEMMA InitOK == Init => Inv
<1> SUFFICES ASSUME Init PROVE Inv
  OBVIOUS
<1>1. Typed
  BY InputsAssumption DEF Init, Typed
<1>2. OuterInv
  BY <1>1, Lengths, StartOK DEF Init, OuterInv
<1> QED
  BY <1>1, <1>2 DEF Init, Inv, InnerInv

\* An iteration that moves the outer cursor on, within the loop.
LEMMA TurnOK ==
  ASSUME Inv, level # "done", NEW cursor, Turn(cursor),
         CursorIn(cursor, Len(pattern), Len(path)),
         Credit(outer, Len(pattern)) + 1 <= Credit(cursor, Len(pattern))
  PROVE  Inv'
<1>1. Typed'
  BY DEF Inv, Typed, Turn
<1>2. /\ Credit(outer, Len(pattern)) \in Nat
      /\ Credit(cursor, Len(pattern)) \in Nat
  BY Lengths, CreditBound DEF Inv, OuterInv
<1>3. turns + 1 <= Credit(cursor, Len(pattern))
  BY <1>2 DEF Inv, Typed, OuterInv
<1>4. OuterInv'
  BY <1>3 DEF Turn, OuterInv
<1>5. InnerInv'
  BY DEF Turn, InnerInv
<1> QED
  BY <1>1, <1>4, <1>5 DEF Inv

\* A retreat resumes within bounds, or answers within the cost.
LEMMA RetreatOK ==
  ASSUME Inv, level # "done", outer.s <= Len(path), Retreat
  PROVE  Inv'
<1> DEFINE m == Len(pattern)
           n == Len(path)
<1>1. m \in Nat /\ n \in Nat /\ CursorIn(outer, m, n)
  BY Lengths DEF Inv, OuterInv
<1>2. CASE outer.star # 0 /\ Turn(Resumed(outer))
  BY <1>1, <1>2, ResumedOK, TurnOK
<1>3. CASE outer.star = 0 /\ Conclude(FALSE) /\ turns' = turns + 1
           /\ UNCHANGED outer
  <2>1. turns <= outer.p - 1 /\ outer.p \in 1..m + 1 /\ 1 <= n
    <3>1. turns <= Credit(outer, m)
      BY DEF Inv, OuterInv
    <3>2. outer.s \in 1..n + 1 /\ outer.p \in 1..m + 1
      BY <1>1 DEF CursorIn
    <3>3. Credit(outer, m) = outer.p - 1
      BY <1>1, <1>3, <3>2 DEF Credit
    <3> QED
      BY <1>1, <3>1, <3>2, <3>3
  <2>2. turns + 1 < (m + 1) * (n + 1)
    <3>1. turns \in Nat
      BY DEF Inv, Typed
    <3>2. /\ 1 * (m + 1) <= n * (m + 1)
          /\ (n + 1) * (m + 1) = n * (m + 1) + (m + 1)
          /\ n * (m + 1) \in Nat
      BY <1>1, <2>1, ProductGrows
    <3>3. (m + 1) * (n + 1) = (n + 1) * (m + 1)
      BY <1>1
    <3> QED
      BY <1>1, <2>1, <3>1, <3>2, <3>3
  <2>3. Typed'
    <3>1. verdict' \in BOOLEAN
      BY <1>3 DEF Conclude
    <3>2. turns' \in Nat
      BY <1>3 DEF Inv, Typed
    <3>3. level' = "done" /\ UNCHANGED <<pattern, path, ticks>>
      BY <1>3 DEF Conclude
    <3> QED
      BY <3>1, <3>2, <3>3 DEF Inv, Typed
  <2>4. OuterInv'
    BY <1>1, <1>3, <2>2 DEF OuterInv, Conclude
  <2>5. InnerInv'
    BY <1>3 DEF InnerInv, Conclude
  <2> QED
    BY <2>3, <2>4, <2>5 DEF Inv
<1> QED
  BY <1>2, <1>3 DEF Retreat

\* An iteration that moves the inner cursor on.
LEMMA TickOK ==
  ASSUME Inv, level = "characters", NEW cursor, Tick(cursor),
         CursorIn(cursor, Len(Glob), Len(Segment)),
         Credit(inner, Len(Glob)) + 1 <= Credit(cursor, Len(Glob))
  PROVE  Inv'
<1>1. Typed' /\ OuterInv'
  BY DEF Inv, Typed, OuterInv, Tick
<1>2. /\ Credit(inner, Len(Glob)) \in Nat
      /\ Credit(cursor, Len(Glob)) \in Nat
  BY SegmentLengths, CreditBound DEF Inv, InnerInv
<1>3. ticks + 1 <= Credit(cursor, Len(Glob))
  BY <1>2 DEF Inv, Typed, InnerInv
<1>4. Glob' = Glob /\ Segment' = Segment
  BY DEF Tick, Glob, Segment
<1>5. InnerInv'
  BY <1>3, <1>4 DEF Inv, InnerInv, Tick
<1> QED
  BY <1>1, <1>5 DEF Inv

\* Every step preserves the invariant.
LEMMA NextOK == Inv /\ [Next]_vars => Inv'
<1> SUFFICES ASSUME Inv, [Next]_vars PROVE Inv'
  OBVIOUS
<1> DEFINE m == Len(pattern)
           n == Len(path)
<1>1. m \in Nat /\ n \in Nat /\ CursorIn(outer, m, n)
  BY Lengths DEF Inv, OuterInv
<1>2. ASSUME level = "characters"
      PROVE  /\ Len(Glob) \in Nat /\ Len(Segment) \in Nat
             /\ CursorIn(inner, Len(Glob), Len(Segment))
             /\ outer.p <= m /\ outer.s <= n
  BY <1>2, SegmentLengths DEF Inv, InnerInv
<1>3. CASE SegmentsStar
  BY <1>1, <1>3, PastStarOK, TurnOK DEF SegmentsStar, AtStar
<1>4. CASE SegmentsCompare
  <2>1. Typed' /\ OuterInv'
    BY <1>4 DEF SegmentsCompare, Inv, Typed, OuterInv
  <2>2. outer.p \in 1..m /\ outer.s \in 1..n
    BY <1>1, <1>4 DEF SegmentsCompare, CursorIn
  <2>3. pattern[outer.p] \in Seq(Chars) /\ path[outer.s] \in Seq(Chars)
    BY <2>2 DEF Inv, Typed
  <2>4. Glob' = pattern[outer.p] /\ Segment' = path[outer.s]
    BY <1>4 DEF SegmentsCompare, Glob, Segment
  <2>5. InnerInv'
    BY <1>4, <2>2, <2>3, <2>4, StartOK DEF SegmentsCompare, InnerInv
  <2> QED
    BY <2>1, <2>5 DEF Inv
<1>5. CASE SegmentsMiss
  BY <1>5, RetreatOK DEF SegmentsMiss
<1>6. CASE SegmentsEnd
  <2>1. turns <= Credit(outer, m) /\ turns \in Nat
    BY <1>6 DEF SegmentsEnd, Inv, OuterInv, Typed
  <2>2. turns < (m + 1) * (n + 1)
    BY <1>1, <2>1, CreditBound
  <2>3. verdict' \in BOOLEAN
    BY <1>6 DEF SegmentsEnd, Conclude, OnlyStars
  <2> QED
    BY <1>6, <2>2, <2>3
    DEF SegmentsEnd, Conclude, Inv, Typed, OuterInv, InnerInv
<1>7. CASE CharactersStar
  BY <1>2, <1>7, PastStarOK, TickOK DEF CharactersStar, AtStar
<1>8. CASE CharactersMatch
  BY <1>2, <1>8, PastMatchOK, TickOK DEF CharactersMatch, AtMatch
<1>9. CASE CharactersResume
  BY <1>2, <1>9, ResumedOK, TickOK DEF CharactersResume
<1>10. CASE CharactersMiss
  BY <1>2, <1>10, RetreatOK DEF CharactersMiss
<1>11. CASE CharactersEnd
  <2>1. CASE Turn(PastMatch(outer))
    BY <1>1, <1>2, <1>11, <2>1, PastMatchOK, TurnOK DEF CharactersEnd
  <2>2. CASE Retreat
    BY <1>2, <1>11, <2>2, RetreatOK DEF CharactersEnd
  <2> QED
    BY <1>11, <2>1, <2>2 DEF CharactersEnd
<1>12. CASE UNCHANGED vars
  BY <1>12 DEF vars, Inv, Typed, OuterInv, InnerInv, Glob, Segment
<1> QED
  BY <1>3, <1>4, <1>5, <1>6, <1>7, <1>8, <1>9, <1>10, <1>11, <1>12
  DEF Next, Answered

\* The cursors of both loops stay in bounds and every iteration earns a credit
\* (fs_policy.rs:57-72, 97-117).
THEOREM Invariant == Spec => []Inv
BY InitOK, NextOK, PTL DEF Spec

\* No decision indexes outside a pattern, a path or a segment, whatever their
\* lengths and characters.
THEOREM TypeCorrect == Spec => []TypeOK
<1>1. Inv => TypeOK
  BY DEF Inv, Typed, OuterInv, InnerInv, CursorIn, TypeOK, Cursor
<1> QED
  BY <1>1, Invariant, PTL

\* Neither loop takes more iterations than the product of its two lengths, each
\* with one more for its end (fs_policy.rs:53).
THEOREM CostsAreBounded == Spec => []CostIsBounded
<1>1. Inv => CostIsBounded
  <2> SUFFICES ASSUME Inv PROVE CostIsBounded
    OBVIOUS
  <2>1. turns < (Len(pattern) + 1) * (Len(path) + 1)
    <3>1. CASE level = "done"
      BY <3>1 DEF Inv, OuterInv
    <3>2. CASE level # "done"
      BY <3>2, Lengths, CreditBound DEF Inv, OuterInv, Typed
    <3> QED
      BY <3>1, <3>2
  <2>2. ASSUME level = "characters"
        PROVE  ticks < (Len(Glob) + 1) * (Len(Segment) + 1)
    <3>1. /\ CursorIn(inner, Len(Glob), Len(Segment))
          /\ ticks <= Credit(inner, Len(Glob)) /\ ticks \in Nat
      BY <2>2 DEF Inv, InnerInv, Typed
    <3>2. Len(Glob) \in Nat /\ Len(Segment) \in Nat
      BY <2>2, SegmentLengths
    <3>3. /\ Credit(inner, Len(Glob)) \in Nat
          /\ Credit(inner, Len(Glob)) < (Len(Glob) + 1) * (Len(Segment) + 1)
      BY <3>1, <3>2, CreditBound
    <3> QED
      BY <3>1, <3>2, <3>3
  <2> QED
    BY <2>1, <2>2 DEF CostIsBounded
<1> QED
  BY <1>1, Invariant, PTL

-------------------------------------------------------------------------------
(* The language.                                                             *)

\* What the places of a pattern are, element by element from its end.
Unfolds(F, pat, subject, star, alike) ==
  /\ \A i \in 1..Len(pat) + 1 : F[i] \subseteq 1..Len(subject) + 1
  /\ \A j \in 1..Len(subject) + 1 : j \in F[Len(pat) + 1] <=> j = Len(subject) + 1
  /\ \A i \in 1..Len(pat), j \in 1..Len(subject) + 1 :
       j \in F[i] <=> IF pat[i] = star
                      THEN \E k \in F[i + 1] : j <= k
                      ELSE /\ j <= Len(subject) /\ <<i, j>> \in alike
                           /\ j + 1 \in F[i + 1]

\* Every set of places lies within the subject and one past its end.
LEMMA PlacesAreBounded ==
  ASSUME NEW F, NEW pat, NEW subject, NEW star, NEW alike,
         Unfolds(F, pat, subject, star, alike)
  PROVE  \A i \in 1..Len(pat) + 1 : F[i] \subseteq 1..Len(subject) + 1
BY Zenon DEF Unfolds

\* The places from one element on, given those from the next.
Step(g, i, pat, subject, star, alike) ==
  IF i > Len(pat) THEN {Len(subject) + 1}
  ELSE IF pat[i] = star
       THEN {j \in 1..Len(subject) + 1 : \E k \in g[i + 1] : j <= k}
       ELSE {j \in 1..Len(subject) : <<i, j>> \in alike /\ j + 1 \in g[i + 1]}

\* The recursion has a solution: it is built from the end of the pattern.
LEMMA StepsHaveASolution ==
  ASSUME NEW pat, NEW subject, NEW star, NEW alike, Len(pat) \in Nat
  PROVE  \E g : g = [i \in 1..Len(pat) + 1 |-> Step(g, i, pat, subject, star, alike)]
<1> DEFINE m == Len(pat)
           S(g, i) == Step(g, i, pat, subject, star, alike)
           Solves(g, d) == \A i \in m + 1 - d..m + 1 : g[i] = S(g, i)
           Done == {d \in Nat : d <= m => \E g : Solves(g, d)}
<1>1. \A f, g : \A i \in Int : i > m \/ f[i + 1] = g[i + 1] => S(f, i) = S(g, i)
  <2> SUFFICES ASSUME NEW f, NEW g, NEW i \in Int, i > m \/ f[i + 1] = g[i + 1]
               PROVE  Step(f, i, pat, subject, star, alike)
                        = Step(g, i, pat, subject, star, alike)
    BY Zenon
  <2>1. CASE i > m
    BY <2>1, Zenon DEF Step
  <2>2. CASE f[i + 1] = g[i + 1]
    BY <2>2, Zenon DEF Step
  <2> QED
    BY <2>1, <2>2, Zenon
<1> HIDE DEF S
<1>2. 0 \in Done
  <2> DEFINE g == [i \in {m + 1} |-> S(<<>>, i)]
  <2>1. S(g, m + 1) = S(<<>>, m + 1)
    BY <1>1
  <2>2. Solves(g, 0)
    BY <2>1
  <2> QED
    BY <2>2
<1>3. ASSUME NEW d \in Nat, d \in Done PROVE d + 1 \in Done
  <2>1. SUFFICES ASSUME d + 1 <= m PROVE \E g : Solves(g, d + 1)
    OBVIOUS
  <2>2. PICK f : Solves(f, d)
    BY <1>3, <2>1
  <2> DEFINE g == [i \in m - d..m + 1 |-> IF i = m - d THEN S(f, i) ELSE f[i]]
  <2>3. ASSUME NEW i \in m + 1 - (d + 1)..m + 1 PROVE g[i] = S(g, i)
    <3>1. i \in Int /\ m - d <= i /\ i <= m + 1 /\ i \in m - d..m + 1
      OBVIOUS
    <3>2. i <= m => i + 1 \in m - d..m + 1 /\ i + 1 # m - d
      BY <3>1
    <3>3. i <= m => g[i + 1] = f[i + 1]
      BY <3>2
    <3>4. S(g, i) = S(f, i)
      BY <1>1, <3>1, <3>3
    <3>5. i # m - d => i \in m + 1 - d..m + 1
      BY <3>1
    <3>6. g[i] = S(f, i)
      BY <2>2, <3>1, <3>5
    <3> QED
      BY <3>4, <3>6
  <2> QED
    BY <2>3
<1>4. PICK f : Solves(f, m)
  <2>1. Nat \subseteq Done
    <3> HIDE DEF Done
    <3> QED
      BY <1>2, <1>3, Climb
  <2> QED
    BY <2>1
<1> DEFINE g == [i \in 1..m + 1 |-> f[i]]
<1>5. ASSUME NEW i \in 1..m + 1 PROVE g[i] = S(g, i)
  <2>1. i <= m => g[i + 1] = f[i + 1]
    OBVIOUS
  <2> QED
    BY <1>1, <1>4, <2>1
<1>6. g = [i \in 1..m + 1 |-> S(g, i)]
  BY <1>5
<1> QED
  BY <1>6 DEF S

\* The places of a pattern satisfy their recursive definition.
LEMMA SpansUnfold ==
  ASSUME NEW pat, NEW subject, NEW star, NEW alike,
         Len(pat) \in Nat, Len(subject) \in Nat
  PROVE  Unfolds(Spans(pat, subject, star, alike), pat, subject, star, alike)
<1> DEFINE F == Spans(pat, subject, star, alike)
           S(g, i) == Step(g, i, pat, subject, star, alike)
<1>1. F = CHOOSE g : g = [i \in 1..Len(pat) + 1 |-> S(g, i)]
  BY Zenon DEF Spans, Step
<1>2. F = [i \in 1..Len(pat) + 1 |-> S(F, i)]
  BY <1>1, StepsHaveASolution
<1> HIDE DEF F
<1>3. \A i \in 1..Len(pat) + 1 : F[i] = S(F, i)
  BY <1>2
<1>4. \A i \in 1..Len(pat) + 1 : F[i] \subseteq 1..Len(subject) + 1
  <2> TAKE i \in 1..Len(pat) + 1
  <2>1. F[i] = S(F, i)
    BY <1>3
  <2> QED
    BY <2>1 DEF Step
<1>5. \A j \in 1..Len(subject) + 1 : j \in F[Len(pat) + 1] <=> j = Len(subject) + 1
  <2>1. F[Len(pat) + 1] = S(F, Len(pat) + 1)
    BY <1>3
  <2> QED
    BY <2>1 DEF Step
<1>6. ASSUME NEW i \in 1..Len(pat), NEW j \in 1..Len(subject) + 1
      PROVE  j \in F[i] <=> IF pat[i] = star
                            THEN \E k \in F[i + 1] : j <= k
                            ELSE /\ j <= Len(subject) /\ <<i, j>> \in alike
                                 /\ j + 1 \in F[i + 1]
  <2>1. F[i] = S(F, i) /\ ~(i > Len(pat))
    BY <1>3
  <2> QED
    BY <2>1 DEF Step
<1> QED
  BY <1>4, <1>5, <1>6, Zenon DEF Unfolds, F

\* At the end of the subject, only stars lead to the end of the pattern.
LEMMA OnlyStarsRemain ==
  ASSUME NEW F, NEW pat, NEW subject, NEW star, NEW alike,
         Len(pat) \in Nat, Len(subject) \in Nat,
         Unfolds(F, pat, subject, star, alike), NEW p \in 1..Len(pat) + 1
  PROVE  Len(subject) + 1 \in F[p] <=> \A i \in p..Len(pat) : pat[i] = star
<1> DEFINE m == Len(pat)
           n == Len(subject)
           Only(i) == \A k \in i..m : pat[k] = star
           Done == {d \in Nat : d <= m => (n + 1 \in F[m + 1 - d] <=> Only(m + 1 - d))}
<1>1. 0 \in Done
  BY DEF Unfolds
<1>2. ASSUME NEW d \in Nat, d \in Done PROVE d + 1 \in Done
  <2>1. SUFFICES ASSUME d + 1 <= m
                 PROVE  n + 1 \in F[m - d] <=> Only(m - d)
    OBVIOUS
  <2> DEFINE i == m - d
  <2>2. i \in 1..m /\ i + 1 = m + 1 - d /\ i + 1 \in 1..m + 1 /\ n + 1 \in 1..n + 1
    BY <2>1
  <2>3. n + 1 \in F[i + 1] <=> Only(i + 1)
    <3>1. d <= m
      BY <2>1
    <3>2. n + 1 \in F[m + 1 - d] <=> Only(m + 1 - d)
      BY <1>2, <3>1, Zenon
    <3> HIDE DEF i, Only
    <3> QED
      BY <2>2, <3>2, Zenon
  <2>4. Only(i) <=> pat[i] = star /\ Only(i + 1)
    <3> HIDE DEF i
    <3>1. i..m = {i} \cup (i + 1..m)
      BY <2>2
    <3> QED
      BY <3>1, Zenon
  <2> HIDE DEF i, Only
  <2>5. n + 1 \in F[i] <=> IF pat[i] = star
                           THEN \E k \in F[i + 1] : n + 1 <= k
                           ELSE /\ n + 1 <= n /\ <<i, n + 1>> \in alike
                                /\ n + 1 + 1 \in F[i + 1]
    BY <2>2, Zenon DEF Unfolds
  <2>6. F[i + 1] \subseteq 1..n + 1
    BY <2>2, PlacesAreBounded, Zenon
  <2>7. (\E k \in F[i + 1] : n + 1 <= k) <=> n + 1 \in F[i + 1]
    BY <2>6
  <2> QED
    BY <2>3, <2>4, <2>5, <2>7 DEF i
<1>3. Nat \subseteq Done
  <2> HIDE DEF Done
  <2> QED
    BY <1>1, <1>2, Climb
<1>4. m + 1 - p \in Nat /\ m + 1 - p <= m /\ m + 1 - (m + 1 - p) = p
  OBVIOUS
<1> QED
  BY <1>3, <1>4

\* What a cursor still promises of the language: nothing it may reach was not
\* reachable, and if anything was, it is from where the cursor stands or from
\* a later resumption, which the elements since the last star shift as a block.
Sound(c, F) ==
  /\ c.s \in F[c.p] => 1 \in F[1]
  /\ c.star # 0 => \A k \in F[c.star + 1] : c.resume <= k => 1 \in F[1]

Shifts(c, F) ==
  c.star # 0 =>
    /\ c.s - c.resume = c.p - c.star - 1
    /\ \A k \in F[c.star + 1] :
         c.resume < k => k + (c.p - c.star - 1) \in F[c.p]

Complete(c, F) ==
  1 \in F[1] =>
    \/ c.s \in F[c.p]
    \/ c.star # 0 /\ \E k \in F[c.star + 1] : c.resume < k

Promises(c, F) == Sound(c, F) /\ Shifts(c, F) /\ Complete(c, F)

\* At the start nothing is decided.
LEMMA StartPromises ==
  ASSUME NEW F
  PROVE  Promises(Start, F)
BY DEF Promises, Sound, Shifts, Complete, Start

\* Moving past a star: the star now holds what any earlier one could still do.
LEMMA PastStarPromises ==
  ASSUME NEW F, NEW pat, NEW subject, NEW star, NEW alike,
         Len(pat) \in Nat, Len(subject) \in Nat,
         Unfolds(F, pat, subject, star, alike),
         NEW c, CursorIn(c, Len(pat), Len(subject)), Promises(c, F),
         c.s <= Len(subject), c.p <= Len(pat), pat[c.p] = star
  PROVE  Promises(PastStar(c), F)
<1> DEFINE m == Len(pat)
           n == Len(subject)
           d == PastStar(c)
<1>1. /\ c.p \in 1..m /\ c.s \in 1..n /\ c.star \in 0..m /\ c.resume \in 0..n + 1
      /\ c.star < c.p /\ c.resume <= c.s
  BY DEF CursorIn, InBounds
<1>2. d.p = c.p + 1 /\ d.s = c.s /\ d.star = c.p /\ d.resume = c.s
  BY DEF PastStar
<1>3. \A j \in 1..n + 1 : j \in F[c.p] <=> \E k \in F[c.p + 1] : j <= k
  BY <1>1, Zenon DEF Unfolds
<1>4. F[c.p] \subseteq 1..n + 1 /\ F[c.p + 1] \subseteq 1..n + 1
  <2>1. c.p \in 1..m + 1 /\ c.p + 1 \in 1..m + 1
    BY <1>1
  <2> QED
    BY <2>1, PlacesAreBounded, Zenon
<1>5. ASSUME NEW k \in F[c.p + 1], c.s <= k PROVE 1 \in F[1]
  BY <1>1, <1>3, <1>5 DEF Promises, Sound
<1>6. ASSUME 1 \in F[1] PROVE \E k \in F[c.p + 1] : c.s <= k
  <2>1. CASE c.s \in F[c.p]
    BY <1>1, <1>3, <2>1
  <2>2. CASE c.star # 0 /\ \E k \in F[c.star + 1] : c.resume < k
    <3>1. PICK k \in F[c.star + 1] : c.resume < k
      BY <2>2
    <3>2. F[c.star + 1] \subseteq 1..n + 1
      <4>1. c.star + 1 \in 1..m + 1
        BY <1>1
      <4> QED
        BY <4>1, PlacesAreBounded, Zenon
    <3>3. /\ c.s - c.resume = c.p - c.star - 1
          /\ k + (c.p - c.star - 1) \in F[c.p]
      BY <2>2, <3>1 DEF Promises, Shifts
    <3>4. k \in Int /\ c.s <= k + (c.p - c.star - 1)
      BY <1>1, <3>1, <3>2, <3>3
    <3>5. PICK l \in F[c.p + 1] : k + (c.p - c.star - 1) <= l
      BY <1>3, <1>4, <3>3
    <3> QED
      BY <1>1, <1>4, <3>4, <3>5
  <2> QED
    BY <1>6, <2>1, <2>2 DEF Promises, Complete
<1> HIDE DEF d
<1>7. Sound(d, F)
  BY <1>1, <1>2, <1>5 DEF Sound
<1>8. Shifts(d, F)
  <2>1. d.s - d.resume = 0 /\ d.p - d.star - 1 = 0
    BY <1>1, <1>2
  <2>2. \A k \in F[c.p + 1] : k + 0 = k
    BY <1>4
  <2> QED
    BY <1>2, <2>1, <2>2 DEF Shifts
<1>9. Complete(d, F)
  <2>1. \A k \in F[c.p + 1] : c.s <= k => k = c.s \/ c.s < k
    BY <1>1, <1>4
  <2> QED
    BY <1>1, <1>2, <1>6, <2>1 DEF Complete
<1> QED
  BY <1>7, <1>8, <1>9 DEF Promises, d

\* Moving past a match: what is reachable moves on with the cursor.
LEMMA PastMatchPromises ==
  ASSUME NEW F, NEW pat, NEW subject, NEW star, NEW alike,
         Len(pat) \in Nat, Len(subject) \in Nat,
         Unfolds(F, pat, subject, star, alike),
         NEW c, CursorIn(c, Len(pat), Len(subject)), Promises(c, F),
         c.s <= Len(subject), c.p <= Len(pat), pat[c.p] # star,
         <<c.p, c.s>> \in alike
  PROVE  Promises(PastMatch(c), F)
<1> DEFINE m == Len(pat)
           n == Len(subject)
           d == PastMatch(c)
<1>1. /\ c.p \in 1..m /\ c.s \in 1..n /\ c.star \in 0..m /\ c.resume \in 0..n + 1
      /\ c.star < c.p /\ c.resume <= c.s
  BY DEF CursorIn, InBounds
<1>2. d.p = c.p + 1 /\ d.s = c.s + 1 /\ d.star = c.star /\ d.resume = c.resume
  BY DEF PastMatch
<1>3. \A j \in 1..n + 1 :
        j \in F[c.p] <=> j <= n /\ <<c.p, j>> \in alike /\ j + 1 \in F[c.p + 1]
  BY <1>1, Zenon DEF Unfolds
<1>4. F[c.p] \subseteq 1..n + 1 /\ F[c.star + 1] \subseteq 1..n + 1
  <2>1. c.p \in 1..m + 1 /\ c.star + 1 \in 1..m + 1
    BY <1>1
  <2> QED
    BY <2>1, PlacesAreBounded, Zenon
<1>5. c.s \in F[c.p] <=> c.s + 1 \in F[c.p + 1]
  BY <1>1, <1>3
<1> HIDE DEF d
<1>6. /\ d.p - d.star - 1 = (c.p - c.star - 1) + 1
       /\ d.s - d.resume = (c.s - c.resume) + 1
  <2>1. /\ c.p \in Int /\ c.s \in Int /\ c.star \in Int /\ c.resume \in Int
    BY <1>1
  <2>2. /\ d.p - d.star - 1 = (c.p + 1) - c.star - 1
        /\ d.s - d.resume = (c.s + 1) - c.resume
    BY <1>2, Zenon
  <2>3. /\ (c.p + 1) - c.star - 1 = (c.p - c.star - 1) + 1
        /\ (c.s + 1) - c.resume = (c.s - c.resume) + 1
    <3> DEFINE p == c.p
               s == c.s
               a == c.star
               r == c.resume
    <3>1. p \in Int /\ s \in Int /\ a \in Int /\ r \in Int
      BY <2>1, Zenon DEF p, s, a, r
    <3> HIDE DEF p, s, a, r
    <3>2. /\ (p + 1) - a - 1 = (p - a - 1) + 1 /\ (s + 1) - r = (s - r) + 1
      BY <3>1
    <3> QED
      BY <3>2, Zenon DEF p, s, a, r
  <2> QED
    BY <2>2, <2>3, Zenon
<1>7. Sound(d, F) /\ Complete(d, F)
  <2>1. d.s \in F[d.p] <=> c.s \in F[c.p]
    BY <1>2, <1>5, Zenon
  <2> QED
    BY <1>2, <2>1, Zenon DEF Promises, Sound, Complete
<1>8. ASSUME c.star # 0 PROVE d.s - d.resume = d.p - d.star - 1
  <2>1. c.s - c.resume = c.p - c.star - 1
    BY <1>8 DEF Promises, Shifts
  <2> QED
    BY <1>1, <1>6, <2>1
<1>9. ASSUME c.star # 0, NEW k \in F[c.star + 1], c.resume < k
      PROVE  k + (d.p - d.star - 1) \in F[d.p]
  <2> DEFINE j == k + (c.p - c.star - 1)
  <2>1. j \in F[c.p]
    BY <1>9 DEF Promises, Shifts
  <2>2. j + 1 \in F[c.p + 1]
    BY <1>3, <1>4, <2>1
  <2>3. j + 1 = k + (d.p - d.star - 1)
    <3>1. k \in Int /\ c.p \in Int /\ c.star \in Int
      BY <1>1, <1>4, <1>9
    <3>2. j + 1 = k + ((c.p - c.star - 1) + 1)
      BY <3>1
    <3> QED
      BY <1>6, <3>2, Zenon
  <2> QED
    BY <1>2, <2>2, <2>3, Zenon
<1>10. Shifts(d, F)
  BY <1>2, <1>8, <1>9 DEF Shifts
<1> QED
  BY <1>7, <1>10 DEF Promises, d

\* Resuming after a mismatch loses nothing: the place that failed led nowhere.
LEMMA ResumedPromises ==
  ASSUME NEW F, NEW pat, NEW subject, NEW star, NEW alike,
         Len(pat) \in Nat, Len(subject) \in Nat,
         Unfolds(F, pat, subject, star, alike),
         NEW c, CursorIn(c, Len(pat), Len(subject)), Promises(c, F),
         c.star # 0, c.s \notin F[c.p]
  PROVE  Promises(Resumed(c), F)
<1> DEFINE m == Len(pat)
           n == Len(subject)
           d == Resumed(c)
<1>1. c.star \in 1..m /\ c.resume \in 0..n + 1
  BY DEF CursorIn
<1>2. /\ d.p = c.star + 1 /\ d.s = c.resume + 1
      /\ d.star = c.star /\ d.resume = c.resume + 1
  BY DEF Resumed
<1>3. F[c.star + 1] \subseteq 1..n + 1
  <2>1. c.star + 1 \in 1..m + 1
    BY <1>1
  <2> QED
    BY <2>1, PlacesAreBounded, Zenon
<1> HIDE DEF d
<1>4. Sound(d, F)
  BY <1>1, <1>2, <1>3 DEF Promises, Sound
<1>5. Shifts(d, F)
  <2>1. d.s - d.resume = 0 /\ d.p - d.star - 1 = 0
    BY <1>1, <1>2
  <2>2. \A k \in F[c.star + 1] : k + 0 = k
    BY <1>3
  <2> QED
    BY <1>2, <2>1, <2>2 DEF Shifts
<1>6. Complete(d, F)
  <2>1. \A k \in F[c.star + 1] :
          c.resume < k => k = c.resume + 1 \/ c.resume + 1 < k
    BY <1>1, <1>3
  <2> QED
    BY <1>1, <1>2, <2>1 DEF Promises, Complete
<1> QED
  BY <1>4, <1>5, <1>6 DEF Promises, d

\* A mismatch with no star to go back to: the subject is not in the language.
LEMMA MissDecides ==
  ASSUME NEW F, NEW c, Promises(c, F), c.star = 0, c.s \notin F[c.p]
  PROVE  1 \notin F[1]
BY DEF Promises, Complete

\* At the end of the subject, what is left of the pattern decides: a resumption
\* would take the pattern past the end.
LEMMA EndDecides ==
  ASSUME NEW F, NEW pat, NEW subject, NEW star, NEW alike,
         Len(pat) \in Nat, Len(subject) \in Nat,
         Unfolds(F, pat, subject, star, alike),
         NEW c, CursorIn(c, Len(pat), Len(subject)), Promises(c, F),
         c.s > Len(subject)
  PROVE  1 \in F[1] <=> OnlyStars(c, pat, star)
<1> DEFINE m == Len(pat)
           n == Len(subject)
<1>1. /\ c.p \in 1..m + 1 /\ c.s \in 1..n + 1 /\ c.star \in 0..m
      /\ c.resume \in 0..n + 1 /\ c.s = n + 1
  BY DEF CursorIn
<1>2. n + 1 \in F[c.p] <=> OnlyStars(c, pat, star)
  <2>1. \A p \in 1..m + 1 :
          n + 1 \in F[p] <=> \A i \in p..m : pat[i] = star
    BY OnlyStarsRemain
  <2> QED
    BY <1>1, <2>1, Zenon DEF OnlyStars
<1>3. ASSUME c.star # 0, NEW k \in F[c.star + 1], c.resume < k PROVE FALSE
  <2>1. F[c.star + 1] \subseteq 1..n + 1 /\ F[c.p] \subseteq 1..n + 1
    <3>1. c.star + 1 \in 1..m + 1 /\ c.p \in 1..m + 1
      BY <1>1
    <3> QED
      BY <3>1, PlacesAreBounded, Zenon
  <2>2. c.s - c.resume = c.p - c.star - 1 /\ k + (c.p - c.star - 1) \in F[c.p]
    BY <1>3 DEF Promises, Shifts
  <2>3. k \in Int /\ k + (c.s - c.resume) <= n + 1
    BY <1>3, <2>1, <2>2
  <2> QED
    BY <1>1, <1>3, <2>3
<1> QED
  BY <1>1, <1>2, <1>3 DEF Promises, Sound, Complete

\* Where the elements do not match, or the pattern has ended, nothing leads on.
LEMMA MismatchLeadsNowhere ==
  ASSUME NEW F, NEW pat, NEW subject, NEW star, NEW alike,
         Len(pat) \in Nat, Len(subject) \in Nat,
         Unfolds(F, pat, subject, star, alike),
         NEW c, CursorIn(c, Len(pat), Len(subject)), c.s <= Len(subject),
         \/ c.p > Len(pat)
         \/ pat[c.p] # star /\ <<c.p, c.s>> \notin alike
  PROVE  c.s \notin F[c.p]
<1>1. c.p \in 1..Len(pat) + 1 /\ c.s \in 1..Len(subject)
      /\ c.s \in 1..Len(subject) + 1
  BY DEF CursorIn
<1>2. CASE c.p > Len(pat)
  <2>1. c.p = Len(pat) + 1 /\ c.s # Len(subject) + 1
    BY <1>1, <1>2
  <2> QED
    BY <1>1, <2>1, Zenon DEF Unfolds
<1>3. CASE c.p <= Len(pat) /\ pat[c.p] # star /\ <<c.p, c.s>> \notin alike
  <2>1. c.p \in 1..Len(pat)
    BY <1>1, <1>3
  <2> QED
    BY <1>1, <1>3, <2>1, Zenon DEF Unfolds
<1> QED
  BY <1>1, <1>2, <1>3

-------------------------------------------------------------------------------
(* What the cursors promise while the loops run.                             *)

Told ==
  /\ level # "done" => Promises(outer, PatternSpans)
  /\ level = "characters" =>
       /\ pattern[outer.p] # DoubleStar
       /\ Promises(inner, GlobSpans(Glob, Segment))
  /\ level = "done" => (verdict <=> Matches)

\* The languages of the two loops unfold.
LEMMA LanguagesUnfold ==
  ASSUME Inv
  PROVE  /\ Unfolds(PatternSpans, pattern, path, DoubleStar, MatchingSegments)
         /\ level = "characters" =>
              Unfolds(GlobSpans(Glob, Segment), Glob, Segment, "*",
                      SameCharacters(Glob, Segment))
<1>1. Unfolds(PatternSpans, pattern, path, DoubleStar, MatchingSegments)
  BY Lengths, SpansUnfold DEF Inv, PatternSpans
<1>2. ASSUME level = "characters"
      PROVE  Unfolds(GlobSpans(Glob, Segment), Glob, Segment, "*",
                     SameCharacters(Glob, Segment))
  BY <1>2, SegmentLengths, SpansUnfold DEF GlobSpans
<1> QED
  BY <1>1, <1>2

\* While segments are compared, the comparison is of the element and the segment
\* that the outer cursor stands at.
LEMMA ComparedElement ==
  ASSUME Inv, level = "characters"
  PROVE  /\ CursorIn(inner, Len(Glob), Len(Segment))
         /\ CursorIn(outer, Len(pattern), Len(path))
         /\ outer.p \in 1..Len(pattern) /\ outer.s \in 1..Len(path)
         /\ <<outer.p, outer.s>> \in MatchingSegments <=>
              1 \in GlobSpans(Glob, Segment)[1]
<1>1. outer.p \in 1..Len(pattern) /\ outer.s \in 1..Len(path)
  BY Lengths DEF Inv, OuterInv, InnerInv, CursorIn
<1> QED
  BY <1>1 DEF Inv, OuterInv, InnerInv, MatchingSegments, SegmentMatches, Glob, Segment

\* A retreat from a place that leads nowhere keeps the promises, or decides.
LEMMA RetreatTold ==
  ASSUME Inv, Told, level # "done", outer.s \notin PatternSpans[outer.p], Retreat
  PROVE  Told'
<1>1. /\ CursorIn(outer, Len(pattern), Len(path))
      /\ Len(pattern) \in Nat /\ Len(path) \in Nat
      /\ Unfolds(PatternSpans, pattern, path, DoubleStar, MatchingSegments)
      /\ Promises(outer, PatternSpans)
  BY Lengths, LanguagesUnfold DEF Inv, OuterInv, Told
<1>2. CASE outer.star # 0 /\ Turn(Resumed(outer))
  <2>1. Promises(Resumed(outer), PatternSpans)
    BY <1>1, <1>2, ResumedPromises
  <2>2. PatternSpans' = PatternSpans
    BY <1>2 DEF Turn, PatternSpans, MatchingSegments
  <2>3. outer' = Resumed(outer) /\ level' = "segments"
    BY <1>2 DEF Turn
  <2> QED
    BY <2>1, <2>2, <2>3 DEF Told
<1>3. CASE outer.star = 0 /\ Conclude(FALSE)
  <2>1. ~Matches
    BY <1>1, <1>3, MissDecides DEF Matches
  <2>2. Matches' = Matches
    BY <1>3 DEF Conclude, Matches, PatternSpans, MatchingSegments
  <2>3. level' = "done" /\ verdict' = FALSE
    BY <1>3 DEF Conclude
  <2> QED
    BY <2>1, <2>2, <2>3 DEF Told
<1> QED
  BY <1>2, <1>3 DEF Retreat

\* An iteration of segments_match that keeps the promises of its cursor.
LEMMA TurnTold ==
  ASSUME NEW cursor, Turn(cursor), Promises(cursor, PatternSpans)
  PROVE  Told'
<1>1. PatternSpans' = PatternSpans /\ outer' = cursor /\ level' = "segments"
  BY DEF Turn, PatternSpans, MatchingSegments
<1> QED
  BY <1>1 DEF Told

\* An iteration of segment_matches that keeps the promises of its cursor.
LEMMA TickTold ==
  ASSUME Told, level = "characters", NEW cursor, Tick(cursor),
         Promises(cursor, GlobSpans(Glob, Segment))
  PROVE  Told'
<1>1. /\ PatternSpans' = PatternSpans /\ Glob' = Glob /\ Segment' = Segment
      /\ outer' = outer /\ level' = level /\ inner' = cursor /\ pattern' = pattern
  BY DEF Tick, PatternSpans, MatchingSegments, Glob, Segment
<1> QED
  BY <1>1 DEF Told

\* Every step keeps the promises of both cursors.
LEMMA NextTold ==
  ASSUME Inv, Told, [Next]_vars
  PROVE  Told'
<1> DEFINE m == Len(pattern)
           n == Len(path)
           F == PatternSpans
           G == GlobSpans(Glob, Segment)
           Same == SameCharacters(Glob, Segment)
<1>1. /\ m \in Nat /\ n \in Nat /\ CursorIn(outer, m, n)
      /\ Unfolds(F, pattern, path, DoubleStar, MatchingSegments)
      /\ level # "done" => Promises(outer, F)
  BY Lengths, LanguagesUnfold DEF Inv, OuterInv, Told
<1>2. ASSUME level = "characters"
      PROVE  /\ Len(Glob) \in Nat /\ Len(Segment) \in Nat
             /\ CursorIn(inner, Len(Glob), Len(Segment))
             /\ Unfolds(G, Glob, Segment, "*", Same)
             /\ Promises(inner, G)
             /\ outer.p \in 1..m /\ outer.s \in 1..n
             /\ pattern[outer.p] # DoubleStar
             /\ <<outer.p, outer.s>> \in MatchingSegments <=> 1 \in G[1]
  BY <1>2, SegmentLengths, LanguagesUnfold, ComparedElement DEF Told
<1> HIDE DEF F, G, Same
<1>3. ASSUME level = "characters", 1 \notin G[1]
      PROVE  outer.s \notin F[outer.p]
  BY <1>1, <1>2, <1>3, MismatchLeadsNowhere
<1>4. ASSUME level = "characters", inner.s <= Len(Segment)
      PROVE  <<inner.p, inner.s>> \in Same <=> AtMatch(inner)
  <2>1. inner.p \in 1..Len(Glob) + 1 /\ inner.s \in 1..Len(Segment)
    BY <1>2, <1>4 DEF CursorIn
  <2> QED
    BY <1>2, <1>4, <2>1 DEF Same, SameCharacters, AtMatch
<1>5. CASE SegmentsStar
  <2>1. Promises(PastStar(outer), F)
    BY <1>1, <1>5, PastStarPromises DEF SegmentsStar, AtStar
  <2> QED
    BY <1>5, <2>1, TurnTold DEF SegmentsStar, F
<1>6. CASE SegmentsCompare
  <2>1. /\ PatternSpans' = PatternSpans /\ outer' = outer /\ inner' = Start
        /\ level = "segments" /\ level' = "characters" /\ pattern' = pattern
        /\ pattern[outer.p] # DoubleStar
    BY <1>6 DEF SegmentsCompare, AtStar, PatternSpans, MatchingSegments
  <2> QED
    BY <2>1, StartPromises DEF Told
<1>7. CASE SegmentsMiss
  <2>1. outer.s \notin F[outer.p]
    BY <1>1, <1>7, MismatchLeadsNowhere DEF SegmentsMiss
  <2> QED
    BY <1>7, <2>1, RetreatTold DEF SegmentsMiss, F
<1>8. CASE SegmentsEnd
  <2>1. Matches <=> OnlyStars(outer, pattern, DoubleStar)
    BY <1>1, <1>8, EndDecides DEF SegmentsEnd, Matches, F
  <2>2. /\ level' = "done" /\ verdict' = OnlyStars(outer, pattern, DoubleStar)
        /\ Matches' = Matches
    BY <1>8 DEF SegmentsEnd, Conclude, Matches, PatternSpans, MatchingSegments
  <2> QED
    BY <2>1, <2>2 DEF Told
<1>9. CASE CharactersStar
  <2>1. Promises(PastStar(inner), G)
    BY <1>2, <1>9, PastStarPromises DEF CharactersStar, AtStar
  <2> QED
    BY <1>9, <2>1, TickTold DEF CharactersStar, G
<1>10. CASE CharactersMatch
  <2>1. Promises(PastMatch(inner), G)
    BY <1>2, <1>4, <1>10, PastMatchPromises DEF CharactersMatch, AtStar, AtMatch
  <2> QED
    BY <1>10, <2>1, TickTold DEF CharactersMatch, G
<1>11. ASSUME level = "characters", inner.s <= Len(Segment),
              ~AtStar(inner, Glob, Segment, "*"), ~AtMatch(inner)
       PROVE  inner.s \notin G[inner.p]
  <2>1. inner.p > Len(Glob) \/ Glob[inner.p] # "*"
    <3>1. ~(inner.p <= Len(Glob)) \/ Glob[inner.p] # "*"
      BY <1>11, Zenon DEF AtStar
    <3>2. inner.p \in Int /\ Len(Glob) \in Int
      BY <1>2, <1>11 DEF CursorIn
    <3> QED
      BY <3>1, <3>2
  <2>2. <<inner.p, inner.s>> \notin Same
    BY <1>4, <1>11
  <2> QED
    BY <1>2, <1>11, <2>1, <2>2, MismatchLeadsNowhere
<1>12. CASE CharactersResume
  <2>1. Promises(Resumed(inner), G)
    BY <1>2, <1>11, <1>12, ResumedPromises DEF CharactersResume
  <2> QED
    BY <1>12, <2>1, TickTold DEF CharactersResume, G
<1>13. CASE CharactersMiss
  <2>1. 1 \notin G[1]
    BY <1>2, <1>11, <1>13, MissDecides DEF CharactersMiss
  <2>2. outer.s \notin F[outer.p]
    BY <1>3, <1>13, <2>1 DEF CharactersMiss
  <2> QED
    BY <1>13, <2>2, RetreatTold DEF CharactersMiss, F
<1>14. CASE CharactersEnd
  <2>1. 1 \in G[1] <=> OnlyStars(inner, Glob, "*")
    BY <1>2, <1>14, EndDecides DEF CharactersEnd
  <2>2. CASE OnlyStars(inner, Glob, "*") /\ Turn(PastMatch(outer))
    <3>1. Promises(PastMatch(outer), F)
      BY <1>1, <1>2, <1>14, <2>1, <2>2, PastMatchPromises DEF CharactersEnd
    <3> QED
      BY <2>2, <3>1, TurnTold DEF F
  <2>3. CASE ~OnlyStars(inner, Glob, "*") /\ Retreat
    <3>1. outer.s \notin F[outer.p]
      BY <1>3, <1>14, <2>1, <2>3 DEF CharactersEnd
    <3> QED
      BY <1>14, <2>3, <3>1, RetreatTold DEF CharactersEnd, F
  <2> QED
    BY <1>14, <2>2, <2>3 DEF CharactersEnd
<1>15. CASE UNCHANGED vars
  BY <1>15 DEF vars, Told, PatternSpans, MatchingSegments, Matches, Glob, Segment
<1> QED
  BY <1>5, <1>6, <1>7, <1>8, <1>9, <1>10, <1>12, <1>13, <1>14, <1>15
  DEF Next, Answered

\* The cursors of both loops keep their promises.
THEOREM PromisesKept == Spec => []Told
<1>1. Init => Told
  BY StartPromises DEF Init, Told
<1>2. Inv /\ Told /\ [Next]_vars => Told'
  BY NextTold
<1> QED
  BY <1>1, <1>2, Invariant, PTL DEF Spec

\* glob_matches decides the language of its patterns, for patterns and paths of
\* any length (fs_policy.rs:41-59, 98-103).
THEOREM VerdictIsCorrect == Spec => []VerdictIsTheLanguages
<1>1. Told => VerdictIsTheLanguages
  BY DEF Told, VerdictIsTheLanguages
<1> QED
  BY <1>1, PromisesKept, PTL

\* Resuming from the last double star is complete (fs_policy.rs:51-53).
THEOREM LastStarIsEnough == Spec => []NothingIsLost
<1>1. Inv /\ Told => NothingIsLost
  <2> SUFFICES ASSUME Inv, Told, level # "done", Matches,
                      outer.s \notin PatternSpans[outer.p]
               PROVE  /\ outer.star # 0
                      /\ \E k \in outer.resume + 1..Len(path) + 1 :
                           k \in PatternSpans[outer.star + 1]
    BY DEF NothingIsLost
  <2>1. PICK k \in PatternSpans[outer.star + 1] :
               outer.star # 0 /\ outer.resume < k
    BY DEF Told, Promises, Complete, Matches
  <2>2. outer.star + 1 \in 1..Len(pattern) + 1 /\ outer.resume \in Nat
        /\ Len(path) \in Nat
    BY Lengths DEF Inv, OuterInv, CursorIn
  <2>3. k \in 1..Len(path) + 1
    BY <2>2, LanguagesUnfold, PlacesAreBounded
  <2>4. k \in outer.resume + 1..Len(path) + 1
    BY <2>1, <2>2, <2>3
  <2> QED
    BY <2>1, <2>4
<1> QED
  BY <1>1, Invariant, PromisesKept, PTL
===============================================================================
