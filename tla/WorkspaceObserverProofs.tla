------------------------ MODULE WorkspaceObserverProofs ------------------------
(***************************************************************************)
(* Theorems about WorkspaceObserver, for every file system, every spelling *)
(* and every policy.  That what is judged is a place holds of any          *)
(* resolution; that it is the place the caller's spelling lands at, and    *)
(* what the refusals say of it, of one that gives up on loops alone.       *)
(*                                                                         *)
(* The argument.  A walk has one way and so at most one end (OneWay,       *)
(* OneEnd).  It stays on solid ground, at directories, and can only end at *)
(* a file (SolidStays); a walk with more names to go comes by the same     *)
(* places and goes on from where it ended (GoesOn).  The place of an entry *)
(* leads to itself, through directories (PlacesLeadToThemselves).  So what *)
(* a path begins with can be replaced by the place it leads to, whatever   *)
(* follows (SameEnd), and this is all that rebasing does: the rebased path *)
(* and the spelled one are Alike.                                          *)
(*                                                                         *)
(* A walk that lands goes no further, so a path lands at one place at most *)
(* (OneLanding): where it ends, or where its last name is put, unless that *)
(* name is a link's or is put below a file (LandsAtItsPlace).              *)
(*                                                                         *)
(* For the links, a path goes by its names alone as far as they stand for  *)
(* no link (GoesByTheNames).  With no link it ends where its names lead;   *)
(* the first link they name is one that the operating system walks into,   *)
(* on the way of the rebased path and so on that of the spelled one.       *)
(***************************************************************************)
EXTENDS WorkspaceObserver, HelperProofs, SequenceTheorems

-------------------------------------------------------------------------------
(* Sequences.                                                                 *)

Paths == Seq(Names)

\* A sequence is its parts.
LEMMA FrontLast ==
  ASSUME NEW S, NEW s \in Seq(S), s # <<>>
  PROVE  /\ Len(s) \in Nat \ {0}
         /\ Front(s) \in Seq(S) /\ Len(Front(s)) = Len(s) - 1
         /\ \A i \in 1..Len(s) - 1 : Front(s)[i] = s[i]
         /\ Last(s) \in S /\ s = Append(Front(s), Last(s))
<1>1. Len(s) \in Nat \ {0}
  BY EmptySeq
<1>2. \A i \in 1..Len(s) - 1 : s[i] \in S
  BY <1>1
<1>3. /\ Front(s) \in Seq(S) /\ Len(Front(s)) = Len(s) - 1
      /\ \A i \in 1..Len(s) - 1 : Front(s)[i] = s[i]
  <2> DEFINE n == Len(s) - 1
  <2>1. 1 \in Int /\ n \in Int /\ \A i \in 1..n : s[i] \in S
    BY <1>1, <1>2
  <2> HIDE DEF n
  <2>2. /\ SubSeq(s, 1, n) \in Seq(S)
        /\ Len(SubSeq(s, 1, n)) = IF 1 <= n THEN n - 1 + 1 ELSE 0
        /\ \A i \in 1..n - 1 + 1 : SubSeq(s, 1, n)[i] = s[1 + i - 1]
    BY <2>1, SubSeqProperties
  <2>3. Front(s) = SubSeq(s, 1, n)
    BY DEF Front, n
  <2>4. n - 1 + 1 = n /\ \A i \in 1..n : 1 + i - 1 = i
    BY <2>1
  <2>5. Len(Front(s)) = n
    BY <1>1, <2>2, <2>3, <2>4 DEF n
  <2>6. \A i \in 1..n : Front(s)[i] = s[i]
    BY <2>2, <2>3, <2>4
  <2> QED
    BY <2>2, <2>3, <2>5, <2>6 DEF n
<1>4. Last(s) \in S
  BY <1>1 DEF Last
<1>5. s = Append(Front(s), Last(s))
  <2>1. /\ Append(Front(s), Last(s)) \in Seq(S)
        /\ Len(Append(Front(s), Last(s))) = Len(s)
        /\ \A i \in 1..Len(s) - 1 : Append(Front(s), Last(s))[i] = Front(s)[i]
        /\ Append(Front(s), Last(s))[Len(s)] = Last(s)
    BY <1>1, <1>3, <1>4, AppendProperties
  <2>2. \A i \in 1..Len(s) : Append(Front(s), Last(s))[i] = s[i]
    BY <1>1, <1>3, <2>1 DEF Last
  <2> QED
    BY <2>1, <2>2, SeqEqual
<1> QED
  BY <1>1, <1>3, <1>4, <1>5

\* Taking the last element off an append gives back what it was put on.
LEMMA FrontOfAppend ==
  ASSUME NEW S, NEW s \in Seq(S), NEW e \in S
  PROVE  Front(Append(s, e)) = s /\ Last(Append(s, e)) = e
<1>1. /\ Append(s, e) \in Seq(S) /\ Append(s, e) # <<>>
  BY AppendProperties
<1>2. /\ Front(Append(s, e)) \in Seq(S) /\ Last(Append(s, e)) \in S
      /\ Append(s, e) = Append(Front(Append(s, e)), Last(Append(s, e)))
  BY <1>1, FrontLast
<1> QED
  BY <1>2, AppendInjective

\* A path under a prefix is the prefix and what is below it.
LEMMA PrefixSplits ==
  ASSUME NEW S, NEW p \in Seq(S), NEW q \in Seq(S), IsPrefix(p, q)
  PROVE  Below(p, q) \in Seq(S) /\ q = p \o Below(p, q)
<1>1. Len(p) \in Nat /\ Len(q) \in Nat /\ Len(p) <= Len(q)
      /\ SubSeq(p, 1, Len(p)) = SubSeq(q, 1, Len(p))
  BY DEF IsPrefix
<1>2. SubSeq(p, 1, Len(p)) = p /\ SubSeq(q, 1, Len(q)) = q
  BY SubSeqFull
<1>3. SubSeq(q, 1, Len(p)) \o SubSeq(q, Len(p) + 1, Len(q)) = SubSeq(q, 1, Len(q))
  <2>1. 1 \in 1..Len(q) + 1 /\ Len(p) \in 1 - 1..Len(q) /\ Len(q) \in Len(p)..Len(q)
    BY <1>1
  <2> QED
    BY <2>1, ConcatAdjacentSubSeq, Zenon
<1>4. \A i \in Len(p) + 1..Len(q) : q[i] \in S
  BY <1>1
<1>5. Below(p, q) \in Seq(S)
  BY <1>1, <1>4, SubSeqProperties DEF Below
<1> QED
  BY <1>1, <1>2, <1>3, <1>5 DEF Below

\* And the other way round.
LEMMA ConcatIsBelow ==
  ASSUME NEW S, NEW p \in Seq(S), NEW t \in Seq(S)
  PROVE  IsPrefix(p, p \o t) /\ Below(p, p \o t) = t
<1>1. /\ p \o t \in Seq(S) /\ Len(p \o t) = Len(p) + Len(t)
      /\ Len(p) \in Nat /\ Len(t) \in Nat
      /\ \A i \in 1..Len(p) + Len(t) :
           (p \o t)[i] = IF i <= Len(p) THEN p[i] ELSE t[i - Len(p)]
  BY ConcatProperties
<1>2. SubSeq(p \o t, 1, Len(p)) = SubSeq(p, 1, Len(p))
  <2>1. CASE p = <<>>
    <3>1. Len(p) = 0
      BY <2>1
    <3> QED
      BY <3>1, SubSeqEmpty
  <2>2. CASE p # <<>>
    <3>1. Len(p) # 0
      BY <2>2, EmptySeq
    <3> QED
      BY <1>1, <3>1, SubSeqOfConcat1
  <2> QED
    BY <2>1, <2>2
<1>3. IsPrefix(p, p \o t)
  BY <1>1, <1>2 DEF IsPrefix
<1>4. p \o Below(p, p \o t) = p \o t /\ Below(p, p \o t) \in Seq(S)
  BY <1>1, <1>3, PrefixSplits
<1>5. Below(p, p \o t) = t
  BY <1>4, ConcatSimplifications
<1> QED
  BY <1>3, <1>5

\* ConcatAssociative, in the form that a first-order prover can instantiate.
LEMMA Reassociated ==
  \A S : \A p, q, r \in Seq(S) : (p \o q) \o r = p \o (q \o r)
<1> SUFFICES ASSUME NEW S, NEW p \in Seq(S), NEW q \in Seq(S), NEW r \in Seq(S)
             PROVE  (p \o q) \o r = p \o (q \o r)
  OBVIOUS
<1> QED
  BY ConcatAssociative, SMTT(30)

\* The front and the last of a concatenation are those of its second part.
LEMMA FrontOfConcat ==
  ASSUME NEW S, NEW p \in Seq(S), NEW t \in Seq(S), t # <<>>
  PROVE  /\ p \o t # <<>> /\ Front(p \o t) = p \o Front(t)
         /\ Last(p \o t) = Last(t)
<1>1. Front(t) \in Seq(S) /\ Last(t) \in S /\ t = Append(Front(t), Last(t))
  BY FrontLast
<1>2. t = Front(t) \o <<Last(t)>>
  BY <1>1, AppendIsConcat, Zenon
<1>3. <<Last(t)>> \in Seq(S)
  BY <1>1
<1>4. p \o t = (p \o Front(t)) \o <<Last(t)>>
  <2> DEFINE f == Front(t)
             e == <<Last(t)>>
  <2>1. f \in Seq(S) /\ e \in Seq(S) /\ t = f \o e
    BY <1>1, <1>2, <1>3
  <2> HIDE DEF f, e
  <2>2. (p \o f) \o e = p \o (f \o e)
    BY <2>1, Reassociated, SMTT(30)
  <2> QED
    BY <2>1, <2>2, Zenon DEF f, e
<1>5. p \o Front(t) \in Seq(S)
  BY <1>1, ConcatProperties
<1>6. p \o t = Append(p \o Front(t), Last(t))
  BY <1>1, <1>4, <1>5, AppendIsConcat, Zenon
<1>7. p \o t # <<>>
  BY ConcatEqualIffEmpty
<1>8. /\ Front(Append(p \o Front(t), Last(t))) = p \o Front(t)
      /\ Last(Append(p \o Front(t), Last(t))) = Last(t)
  BY <1>1, <1>5, FrontOfAppend, Zenon
<1> QED
  BY <1>6, <1>7, <1>8, Zenon

-------------------------------------------------------------------------------
(* Walks, name by name.                                                       *)

Walks == [at : Paths, todo : Paths]

\* What a place holds.
LEMMA EntryOf ==
  ASSUME tree \in Trees, NEW place
  PROVE  /\ Entry(place).kind \in {"none", "dir", "file", "link"}
         /\ Entry(place).kind = "link" => Entry(place).to \in Paths
<1>1. CASE place \in DOMAIN tree
  <2>1. tree[place] \in Entries /\ Entry(place) = tree[place]
    BY <1>1, TreesAssumption DEF Entry
  <2>2. CASE tree[place] \in [kind : {"none", "dir", "file"}]
    BY <2>1, <2>2
  <2>3. CASE tree[place] \in [kind : {"link"}, to : Seq(Names)]
    BY <2>1, <2>3 DEF Paths
  <2> QED
    BY <2>1, <2>2, <2>3 DEF Entries
<1>2. CASE place \notin DOMAIN tree
  BY <1>2 DEF Entry, Nothing
<1> QED
  BY <1>1, <1>2

\* The top holds a directory.
LEMMA TopIsDirectory ==
  ASSUME tree \in Trees
  PROVE  Entry(<<>>).kind = "dir"
BY TreesAssumption DEF Entry

\* One can take the last name off any place; the top stays the top.
LEMMA FrontOfPlace ==
  ASSUME NEW place \in Paths
  PROVE  Front(place) \in Paths /\ (place = <<>> => Front(place) = <<>>)
<1>1. CASE place = <<>>
  <2>1. Len(place) - 1 < 1 /\ Len(place) - 1 \in Int
    BY <1>1
  <2>2. Front(place) = <<>>
    BY <2>1, SubSeqEmpty DEF Front
  <2> QED
    BY <1>1, <2>2 DEF Paths
<1>2. CASE place # <<>>
  BY <1>2, FrontLast DEF Paths
<1> QED
  BY <1>1, <1>2

\* The names of a path one by one.
LEMMA HeadAndTail ==
  ASSUME NEW path \in Paths, path # <<>>
  PROVE  Head(path) \in Names /\ Tail(path) \in Paths
BY HeadTailProperties DEF Paths

\* The ways a walk can go on from where it is.
LEMMA AdvanceCases ==
  ASSUME tree \in Trees, NEW w \in Walks, w.todo # <<>>
  PROVE  LET name == Head(w.todo)
             rest == Tail(w.todo)
             place == Append(w.at, name)
         IN  /\ name \in Names /\ rest \in Paths
             /\ w.at \in Paths /\ place \in Paths
             /\ \/ name = Up /\ Advance(w) = [at |-> Front(w.at), todo |-> rest]
                \/ /\ name # Up /\ Entry(place).kind = "link"
                   /\ Entry(place).to \in Paths
                   /\ Advance(w) = [at |-> <<>>, todo |-> Entry(place).to \o rest]
                \/ /\ name # Up
                   /\ \/ Entry(place).kind = "dir"
                      \/ Entry(place).kind = "file" /\ rest = <<>>
                   /\ Advance(w) = [at |-> place, todo |-> rest]
                \/ /\ name # Up
                   /\ \/ Entry(place).kind = "none"
                      \/ Entry(place).kind = "file" /\ rest # <<>>
                   /\ Advance(w) = w
<1> DEFINE name == Head(w.todo)
           rest == Tail(w.todo)
           place == Append(w.at, name)
<1>1. w.at \in Paths /\ w.todo \in Paths
  BY DEF Walks
<1>2. name \in Names /\ rest \in Paths
  BY <1>1, HeadAndTail
<1>3. place \in Paths
  BY <1>1, <1>2, AppendProperties DEF Paths
<1>4. /\ Entry(place).kind \in {"none", "dir", "file", "link"}
      /\ Entry(place).kind = "link" => Entry(place).to \in Paths
  BY EntryOf
<1>5. CASE name = Up
  <2>1. Advance(w) = [at |-> Front(w.at), todo |-> rest]
    BY <1>5 DEF Advance
  <2> QED
    BY <1>1, <1>2, <1>3, <1>5, <2>1
<1>6. CASE name # Up
  <2>1. Advance(w) = Entered(w, place, rest)
    BY <1>6 DEF Advance
  <2> DEFINE kd == Entry(place).kind
  <2>2. /\ kd = "link" => Entered(w, place, rest)
                            = [at |-> <<>>, todo |-> Entry(place).to \o rest]
        /\ kd = "dir" \/ (kd = "file" /\ rest = <<>>) =>
             Entered(w, place, rest) = [at |-> place, todo |-> rest]
        /\ kd = "none" \/ (kd = "file" /\ rest # <<>>) =>
             Entered(w, place, rest) = w
    BY DEF Entered
  <2> HIDE DEF name, rest, place
  <2> QED
    BY <1>1, <1>2, <1>3, <1>4, <1>6, <2>1, <2>2 DEF name, rest, place
<1> QED
  BY <1>5, <1>6

\* A walk stays a walk.
LEMMA AdvanceType ==
  ASSUME tree \in Trees, NEW w \in Walks
  PROVE  Advance(w) \in Walks
<1>1. CASE w.todo = <<>>
  BY <1>1 DEF Advance
<1>2. CASE w.todo # <<>>
  <2> DEFINE name == Head(w.todo)
             rest == Tail(w.todo)
             place == Append(w.at, name)
  <2>1. Front(w.at) \in Paths /\ <<>> \in Paths
    BY FrontOfPlace DEF Walks, Paths
  <2>2. \A to \in Paths : rest \in Paths => to \o rest \in Paths
    BY ConcatProperties DEF Paths
  <2>3. /\ name \in Names /\ rest \in Paths
        /\ w.at \in Paths /\ place \in Paths
        /\ \/ Advance(w) = [at |-> Front(w.at), todo |-> rest]
           \/ /\ Entry(place).to \in Paths
              /\ Advance(w) = [at |-> <<>>, todo |-> Entry(place).to \o rest]
           \/ Advance(w) = [at |-> place, todo |-> rest]
           \/ Advance(w) = w
    <3> HIDE DEF name, rest, place
    <3> QED
      BY <1>2, AdvanceCases DEF name, rest, place
  <2> HIDE DEF name, rest, place
  <2>4. \A at \in Paths, todo \in Paths : [at |-> at, todo |-> todo] \in Walks
    BY DEF Walks
  <2>5. Entry(place).to \in Paths => Entry(place).to \o rest \in Paths
    BY <2>2, <2>3
  <2> QED
    BY <2>1, <2>3, <2>4, <2>5
<1> QED
  BY <1>1, <1>2

\* Where a walk is, name by name.
LEMMA WalkUnfolds ==
  ASSUME tree \in Trees, NEW w \in Walks
  PROVE  /\ Walk(w)[0] = w
         /\ \A k \in Nat : /\ Walk(w)[k] \in Walks
                           /\ Walk(w)[k + 1] = Advance(Walk(w)[k])
<1> DEFINE f == [v \in Walks |-> Advance(v)]
           Solves(g) == g = [k \in Nat |-> IF k = 0 THEN w ELSE Advance(g[k - 1])]
<1>1. f \in [Walks -> Walks]
  BY AdvanceType
<1> HIDE DEF f
<1>2. PICK g \in [Nat -> Walks] :
        g[0] = w /\ \A k \in Nat : g[k + 1] = f[g[k]]
  <2>1. \A h \in [Walks -> Walks] :
          \E g \in [Nat -> Walks] : g[0] = w /\ \A k \in Nat : g[k + 1] = h[g[k]]
    BY IterationExists, SMTT(60)
  <2> QED
    BY <1>1, <2>1
<1>3. \A k \in Nat : g[k + 1] = Advance(g[k])
  BY <1>2 DEF f
<1>4. Solves(g)
  <2>1. ASSUME NEW k \in Nat PROVE g[k] = IF k = 0 THEN w ELSE Advance(g[k - 1])
    <3>1. CASE k = 0
      BY <1>2, <3>1
    <3>2. CASE k # 0
      <4>1. k - 1 \in Nat /\ (k - 1) + 1 = k
        BY <3>2
      <4> QED
        BY <1>3, <3>2, <4>1
    <3> QED
      BY <3>1, <3>2
  <2> QED
    BY <1>2, <2>1
<1>5. Walk(w) = CHOOSE h : Solves(h)
  BY Zenon DEF Walk
<1>6. Solves(Walk(w))
  <2> HIDE DEF Solves
  <2> QED
    BY <1>4, <1>5
<1>7. Walk(w)[0] = w
  BY <1>6
<1>8. \A k \in Nat : Walk(w)[k + 1] = Advance(Walk(w)[k])
  <2> TAKE k \in Nat
  <2>1. k + 1 \in Nat /\ k + 1 # 0 /\ (k + 1) - 1 = k
    OBVIOUS
  <2>2. Walk(w)[k + 1] = IF k + 1 = 0 THEN w ELSE Advance(Walk(w)[(k + 1) - 1])
    BY <1>6, <2>1
  <2> QED
    BY <2>1, <2>2
<1>9. \A k \in Nat : Walk(w)[k] \in Walks
  <2> DEFINE Ok == {k \in Nat : Walk(w)[k] \in Walks}
  <2>1. 0 \in Ok
    BY <1>7
  <2>2. \A k \in Nat : k \in Ok => k + 1 \in Ok
    BY <1>8, AdvanceType
  <2> HIDE DEF Ok
  <2>3. Nat \subseteq Ok
    BY <2>1, <2>2, Climb
  <2> QED
    BY <2>3 DEF Ok
<1> QED
  BY <1>7, <1>8, <1>9

-------------------------------------------------------------------------------
(* What a walk comes by.                                                      *)

\* A walk comes by a place, with the names that are left there.
Leads(w, v) == \E k \in Nat : Walk(w)[k] = v

Start(path) == [at |-> <<>>, todo |-> path]
Done(place) == [at |-> place, todo |-> <<>>]

\* What holds of a walk and is kept by every name holds wherever it comes by.
LEMMA Carried ==
  ASSUME tree \in Trees, NEW w \in Walks, NEW S, w \in S,
         \A v \in Walks : v \in S => Advance(v) \in S
  PROVE  \A v : Leads(w, v) => v \in Walks /\ v \in S
<1> DEFINE Ok == {k \in Nat : Walk(w)[k] \in S}
<1>1. 0 \in Ok
  BY WalkUnfolds
<1>2. \A k \in Nat : k \in Ok => k + 1 \in Ok
  BY WalkUnfolds
<1>3. Nat \subseteq Ok
  <2> HIDE DEF Ok
  <2> QED
    BY <1>1, <1>2, Climb
<1> QED
  BY <1>3, WalkUnfolds DEF Leads

\* It comes by where it starts, and by what follows each place it comes by.
LEMMA LeadsOneMore ==
  ASSUME tree \in Trees, NEW w \in Walks
  PROVE  /\ Leads(w, w)
         /\ \A v : Leads(w, v) => v \in Walks /\ Leads(w, Advance(v))
<1>1. Walk(w)[0] = w /\ 0 \in Nat
  BY WalkUnfolds
<1>2. ASSUME NEW v, Leads(w, v) PROVE v \in Walks /\ Leads(w, Advance(v))
  <2>1. PICK k \in Nat : Walk(w)[k] = v
    BY <1>2 DEF Leads
  <2>2. k + 1 \in Nat /\ Walk(w)[k + 1] = Advance(v) /\ v \in Walks
    BY <2>1, WalkUnfolds
  <2> QED
    BY <2>2 DEF Leads
<1> QED
  BY <1>1, <1>2 DEF Leads

\* What a walk comes by after a place it comes by, it comes by.
LEMMA LeadsFurther ==
  ASSUME tree \in Trees, NEW w \in Walks, NEW v, NEW u, Leads(w, v), Leads(v, u)
  PROVE  Leads(w, u)
<1> DEFINE S == {x \in Walks : Leads(w, x)}
<1>1. v \in Walks /\ v \in S
  BY LeadsOneMore
<1>2. \A x \in Walks : x \in S => Advance(x) \in S
  BY LeadsOneMore, AdvanceType
<1> HIDE DEF S
<1>3. u \in S
  BY <1>1, <1>2, Carried
<1> QED
  BY <1>3 DEF S

\* What a walk comes by is its start, or what it comes by after one name.
LEMMA LeadsFirst ==
  ASSUME tree \in Trees, NEW w \in Walks, NEW v, Leads(w, v)
  PROVE  v = w \/ Leads(Advance(w), v)
<1> DEFINE a == Advance(w)
           S == {x \in Walks : x = w \/ Leads(a, x)}
<1>1. a \in Walks
  BY AdvanceType
<1>2. w \in S
  OBVIOUS
<1>3. \A x \in Walks : x \in S => Advance(x) \in S
  <2> SUFFICES ASSUME NEW x \in Walks, x \in S PROVE Advance(x) \in S
    OBVIOUS
  <2>1. Advance(x) \in Walks
    BY AdvanceType
  <2>2. x = w => Leads(a, Advance(x))
    BY <1>1, LeadsOneMore
  <2>3. Leads(a, x) => Leads(a, Advance(x))
    BY <1>1, LeadsOneMore
  <2> QED
    BY <2>1, <2>2, <2>3
<1> HIDE DEF S
<1>4. v \in S
  BY <1>2, <1>3, Carried
<1> QED
  BY <1>4 DEF S

\* A walk that cannot go on stays.
LEMMA StuckStays ==
  ASSUME tree \in Trees, NEW w \in Walks, Advance(w) = w, NEW v, Leads(w, v)
  PROVE  v = w
<1> DEFINE S == {w}
<1>1. w \in S /\ \A x \in Walks : x \in S => Advance(x) \in S
  OBVIOUS
<1>2. v \in S
  BY <1>1, Carried
<1> QED
  BY <1>2

\* A walk has one way: of two places that it comes by one leads to the other.
LEMMA OneWay ==
  ASSUME tree \in Trees, NEW w \in Walks, NEW v, NEW u, Leads(w, v), Leads(w, u)
  PROVE  Leads(v, u) \/ Leads(u, v)
<1> DEFINE S == {x \in Walks : Leads(x, u) \/ Leads(u, x)}
<1>1. u \in Walks /\ w \in S
  BY LeadsOneMore
<1>2. \A x \in Walks : x \in S => Advance(x) \in S
  <2> SUFFICES ASSUME NEW x \in Walks, x \in S PROVE Advance(x) \in S
    OBVIOUS
  <2>1. Advance(x) \in Walks
    BY AdvanceType
  <2>2. CASE Leads(u, x)
    BY <1>1, <2>1, <2>2, LeadsOneMore
  <2>3. CASE Leads(x, u)
    <3>1. CASE u = x
      <4>1. Leads(u, Advance(u))
        BY <1>1, LeadsOneMore
      <4> QED
        BY <2>1, <3>1, <4>1
    <3>2. CASE Leads(Advance(x), u)
      BY <2>1, <3>2
    <3> QED
      BY <2>3, <3>1, <3>2, LeadsFirst
  <2> QED
    BY <2>2, <2>3
<1> HIDE DEF S
<1>3. v \in S
  BY <1>1, <1>2, Carried
<1> QED
  BY <1>3 DEF S

\* Where a walk ends is where it ends from anywhere on its way.
LEMMA SameEndFromOnTheWay ==
  ASSUME tree \in Trees, NEW w \in Walks, NEW v, Leads(w, v),
         NEW u \in Walks, Advance(u) = u
  PROVE  Leads(w, u) <=> Leads(v, u)
<1>1. ASSUME Leads(v, u) PROVE Leads(w, u)
  BY <1>1, LeadsFurther
<1>2. ASSUME Leads(w, u) PROVE Leads(v, u)
  <2>1. CASE Leads(v, u)
    BY <2>1
  <2>2. CASE Leads(u, v)
    <3>1. v = u
      BY <2>2, StuckStays
    <3> QED
      BY <3>1, LeadsOneMore
  <2> QED
    BY <1>2, <2>1, <2>2, OneWay
<1> QED
  BY <1>1, <1>2

\* A walk ends at one place.
LEMMA OneEnd ==
  ASSUME tree \in Trees, NEW w \in Walks, NEW v \in Walks, NEW u \in Walks,
         Leads(w, v), Leads(w, u), Advance(v) = v, Advance(u) = u
  PROVE  v = u
<1>1. Leads(v, u)
  BY SameEndFromOnTheWay
<1> QED
  BY <1>1, StuckStays

\* A path is a walk from the top, a place one that has ended.
LEMMA EndIsPlace ==
  ASSUME NEW path \in Paths
  PROVE  Start(path) \in Walks /\ Done(path) \in Walks /\ Advance(Done(path)) = Done(path)
<1>1. <<>> \in Paths
  BY DEF Paths
<1> QED
  BY <1>1 DEF Start, Done, Walks, Advance

\* A path that resolves leads to its canonical form.
LEMMA CanonicalIsTheEnd ==
  ASSUME tree \in Trees, NEW path \in Paths, Resolves(path)
  PROVE  Canonical(path) \in Paths /\ Leads(Start(path), Done(Canonical(path)))
<1> DEFINE k == CHOOSE k \in Steps : Ended(path, k)
<1>1. k \in Steps /\ Ended(path, k)
  BY DEF Resolves
<1>2. k \in Nat
  BY <1>1, StepsAssumption
<1> HIDE DEF k
<1> DEFINE v == Walk(Start(path))[k]
<1>3. v \in Walks
  BY <1>2, EndIsPlace, WalkUnfolds
<1>4. v.todo = <<>>
  BY <1>1 DEF Ended, FromTop, Start
<1>5. Canonical(path) = v.at
  BY DEF Canonical, FromTop, Start, k
<1>6. v.at \in Paths /\ v = Done(v.at)
  <2> HIDE DEF v
  <2> QED
    BY <1>3, <1>4 DEF Done, Walks
<1>7. Leads(Start(path), v)
  BY <1>2 DEF Leads
<1> QED
  BY <1>5, <1>6, <1>7

\* A path that leads somewhere resolves, and there.
LEMMA EndIsCanonical ==
  ASSUME tree \in Trees, Steps = Nat,
         NEW path \in Paths, NEW place \in Paths, Leads(Start(path), Done(place))
  PROVE  Resolves(path) /\ Canonical(path) = place
<1>1. PICK k \in Nat : Walk(Start(path))[k] = Done(place)
  BY DEF Leads
<1>2. Resolves(path)
  BY <1>1 DEF Resolves, Ended, FromTop, Start, Done
<1>3. Canonical(path) \in Paths /\ Leads(Start(path), Done(Canonical(path)))
  BY <1>2, CanonicalIsTheEnd
<1>4. Done(place) = Done(Canonical(path))
  BY <1>3, EndIsPlace, OneEnd
<1> QED
  BY <1>2, <1>4 DEF Done

-------------------------------------------------------------------------------
(* Walks stay on solid ground.                                                *)

\* A directory, or a file with nothing left to walk: where walks can be.
Solid(w) ==
  \/ Entry(w.at).kind = "dir"
  \/ Entry(w.at).kind = "file" /\ w.todo = <<>>

\* A walk that has ended at a file cannot be walked further.
Filed(w) == w.todo = <<>> /\ Entry(w.at).kind = "file"

\* The walk with more to go.
On(w, more) == [at |-> w.at, todo |-> w.todo \o more]

\* What is there is a place, and it is in a directory.
LEMMA InADirectory ==
  ASSUME tree \in Trees, NEW place, Entry(place).kind # "none"
  PROVE  /\ place \in Paths /\ Up \notin ToSet(place)
         /\ Entry(Front(place)).kind = "dir"
<1>1. place \in DOMAIN tree /\ tree[place] = Entry(place)
  BY DEF Entry, Nothing
<1>2. place \in Paths /\ Up \notin ToSet(place)
  BY <1>1, TreesAssumption DEF Paths
<1>3. place = <<>> => Entry(Front(place)).kind = "dir"
  <2> SUFFICES ASSUME place = <<>> PROVE Entry(Front(place)).kind = "dir"
    OBVIOUS
  <2>1. Front(place) = <<>>
    BY <1>2, FrontOfPlace
  <2> QED
    BY <2>1, TopIsDirectory
<1>4. place # <<>> => Entry(Front(place)).kind = "dir"
  BY <1>1, TreesAssumption DEF Entry
<1> QED
  BY <1>2, <1>3, <1>4

\* The names of a place are names.
LEMMA NamesOfAPlace ==
  ASSUME tree \in Trees, NEW place, Entry(place).kind # "none"
  PROVE  \A i \in 1..Len(place) : place[i] # Up
<1>1. place \in Paths /\ Up \notin ToSet(place)
  BY InADirectory
<1> QED
  BY <1>1 DEF ToSet

\* The part of a path that ends before some name, and that name.
LEMMA PartAndName ==
  ASSUME NEW path \in Paths, NEW i \in Nat, i < Len(path)
  PROVE  /\ SubSeq(path, 1, i) \in Paths /\ SubSeq(path, 1, i + 1) \in Paths
         /\ SubSeq(path, i + 1, Len(path)) \in Paths
         /\ SubSeq(path, i + 2, Len(path)) \in Paths
         /\ path[i + 1] \in Names
         /\ SubSeq(path, 1, i + 1) = Append(SubSeq(path, 1, i), path[i + 1])
         /\ SubSeq(path, i + 1, Len(path)) # <<>>
         /\ Head(SubSeq(path, i + 1, Len(path))) = path[i + 1]
         /\ Tail(SubSeq(path, i + 1, Len(path))) = SubSeq(path, i + 2, Len(path))
         /\ Front(SubSeq(path, 1, i + 1)) = SubSeq(path, 1, i)
<1>1. Len(path) \in Nat /\ \A j \in 1..Len(path) : path[j] \in Names
  BY DEF Paths
<1>2. /\ SubSeq(path, 1, i) \in Paths /\ SubSeq(path, 1, i + 1) \in Paths
      /\ SubSeq(path, i + 1, Len(path)) \in Paths
      /\ SubSeq(path, i + 2, Len(path)) \in Paths
  BY <1>1, SubSeqProperties DEF Paths
<1>3. path[i + 1] \in Names
  BY <1>1
<1>4. SubSeq(path, 1, i + 1) = Append(SubSeq(path, 1, i), path[i + 1])
  <2> DEFINE a == SubSeq(path, 1, i + 1)
             b == SubSeq(path, 1, i)
             c == Append(b, path[i + 1])
  <2>1. Len(a) = i + 1 /\ \A j \in 1..i + 1 : a[j] = path[j]
    BY <1>1, SubSeqProperties
  <2>2. Len(b) = i /\ \A j \in 1..i : b[j] = path[j]
    BY <1>1, SubSeqProperties
  <2>3. a \in Seq(Names) /\ b \in Seq(Names)
    BY <1>2 DEF Paths
  <2> HIDE DEF a, b
  <2>4. /\ c \in Seq(Names) /\ Len(c) = i + 1
        /\ \A j \in 1..i : c[j] = b[j]
        /\ c[i + 1] = path[i + 1]
    BY <1>3, <2>2, <2>3, AppendProperties
  <2> HIDE DEF c
  <2>5. \A j \in 1..i + 1 : c[j] = a[j]
    BY <2>1, <2>2, <2>4
  <2>6. c = a
    BY <2>1, <2>3, <2>4, <2>5, SeqEqual
  <2> QED
    BY <2>6 DEF a, b, c
<1>5. /\ SubSeq(path, i + 1, Len(path)) # <<>>
      /\ Head(SubSeq(path, i + 1, Len(path))) = path[i + 1]
      /\ Tail(SubSeq(path, i + 1, Len(path))) = SubSeq(path, i + 2, Len(path))
  <2> DEFINE a == SubSeq(path, i + 1, Len(path))
             b == SubSeq(path, i + 2, Len(path))
  <2>1. /\ Len(a) = Len(path) - i
        /\ \A j \in 1..Len(path) - i : a[j] = path[i + j]
    BY <1>1, SubSeqProperties
  <2>2. /\ Len(b) = Len(path) - i - 1
        /\ \A j \in 1..Len(path) - i - 1 : b[j] = path[i + 1 + j]
    BY <1>1, SubSeqProperties
  <2>3. a \in Seq(Names) /\ b \in Seq(Names)
    BY <1>2 DEF Paths
  <2> HIDE DEF a, b
  <2>4. a # <<>>
    BY <1>1, <2>1
  <2>5. /\ Head(a) = a[1] /\ Tail(a) \in Seq(Names) /\ Len(Tail(a)) = Len(a) - 1
        /\ \A j \in 1..Len(Tail(a)) : Tail(a)[j] = a[j + 1]
    BY <2>3, <2>4, HeadTailProperties
  <2>6. Head(a) = path[i + 1]
    BY <1>1, <2>1, <2>5
  <2>7. \A j \in 1..Len(b) : Tail(a)[j] = b[j]
    <3> TAKE j \in 1..Len(b)
    <3>1. j \in 1..Len(path) - i - 1 /\ j \in 1..Len(Tail(a))
      BY <1>1, <2>1, <2>2, <2>5
    <3>2. j + 1 \in 1..Len(path) - i /\ i + (j + 1) = i + 1 + j
      BY <1>1, <3>1
    <3>3. a[j + 1] = path[i + (j + 1)]
      BY <2>1, <3>2
    <3>4. b[j] = path[i + 1 + j]
      BY <2>2, <3>1
    <3> QED
      BY <2>5, <3>1, <3>2, <3>3, <3>4
  <2>8. Len(Tail(a)) = Len(b)
    BY <1>1, <2>1, <2>2, <2>5
  <2>9. Tail(a) = b
    BY <2>3, <2>5, <2>7, <2>8, SeqEqual
  <2> QED
    BY <2>4, <2>6, <2>9 DEF a, b
<1>6. Front(SubSeq(path, 1, i + 1)) = SubSeq(path, 1, i)
  BY <1>2, <1>3, <1>4, FrontOfAppend DEF Paths
<1> QED
  BY <1>2, <1>3, <1>4, <1>5, <1>6

\* Everything above a place that is there is a directory.
LEMMA AboveAreDirectories ==
  ASSUME tree \in Trees, NEW place, Entry(place).kind # "none"
  PROVE  \A i \in Nat : i < Len(place) => Entry(SubSeq(place, 1, i)).kind = "dir"
<1> DEFINE Ok == {d \in Nat : \A i \in Nat : i + d + 1 = Len(place) =>
                                Entry(SubSeq(place, 1, i)).kind = "dir"}
<1>1. place \in Paths /\ Len(place) \in Nat
  BY InADirectory DEF Paths
<1>2. 0 \in Ok
  <2> SUFFICES ASSUME NEW i \in Nat, i + 0 + 1 = Len(place)
               PROVE  Entry(SubSeq(place, 1, i)).kind = "dir"
    OBVIOUS
  <2>1. i + 1 = Len(place) /\ i < Len(place)
    OBVIOUS
  <2>2. SubSeq(place, 1, i + 1) = place
    BY <1>1, <2>1, SubSeqFull DEF Paths
  <2>3. Front(place) = SubSeq(place, 1, i)
    <3>1. Front(SubSeq(place, 1, i + 1)) = SubSeq(place, 1, i)
      BY <1>1, <2>1, PartAndName, Zenon
    <3> QED
      BY <2>2, <3>1, Zenon
  <2> QED
    BY <2>3, InADirectory
<1>3. ASSUME NEW d \in Nat, d \in Ok PROVE d + 1 \in Ok
  <2> SUFFICES ASSUME NEW i \in Nat, i + (d + 1) + 1 = Len(place)
               PROVE  Entry(SubSeq(place, 1, i)).kind = "dir"
    BY SMT
  <2>1. i + 1 \in Nat /\ (i + 1) + d + 1 = Len(place) /\ i < Len(place)
    BY <1>1
  <2>2. Entry(SubSeq(place, 1, i + 1)).kind = "dir"
    BY <1>3, <2>1
  <2>3. Front(SubSeq(place, 1, i + 1)) = SubSeq(place, 1, i)
    BY <1>1, <2>1, PartAndName
  <2>4. Entry(SubSeq(place, 1, i + 1)).kind # "none"
    BY <2>2
  <2>5. Entry(Front(SubSeq(place, 1, i + 1))).kind = "dir"
    BY <2>4, InADirectory
  <2> QED
    BY <2>3, <2>5
<1>4. Nat \subseteq Ok
  <2> HIDE DEF Ok
  <2> QED
    BY <1>2, <1>3, Climb
<1>5. \A i \in Nat : i < Len(place) =>
        Len(place) - i - 1 \in Nat /\ i + (Len(place) - i - 1) + 1 = Len(place)
  BY <1>1
<1> QED
  BY <1>4, <1>5

\* A walk from a solid place stays on solid ground.
LEMMA SolidStays ==
  ASSUME tree \in Trees, NEW w \in Walks, Solid(w)
  PROVE  /\ Solid(Advance(w))
         /\ Filed(Advance(w)) => \/ Advance(w) = w
                                 \/ /\ w.todo # <<>> /\ Tail(w.todo) = <<>>
                                    /\ Head(w.todo) # Up
                                    /\ Entry(Append(w.at, Head(w.todo))).kind = "file"
<1>1. CASE w.todo = <<>>
  BY <1>1 DEF Advance
<1>2. CASE w.todo # <<>>
  <2> DEFINE name == Head(w.todo)
             rest == Tail(w.todo)
             place == Append(w.at, name)
             a == Advance(w)
  <2>1. /\ \/ name = Up /\ a = [at |-> Front(w.at), todo |-> rest]
           \/ a = [at |-> <<>>, todo |-> Entry(place).to \o rest]
           \/ /\ name # Up
              /\ \/ Entry(place).kind = "dir"
                 \/ Entry(place).kind = "file" /\ rest = <<>>
              /\ a = [at |-> place, todo |-> rest]
           \/ a = w
    BY <1>2, AdvanceCases
  <2>2. Entry(<<>>).kind = "dir"
    BY TopIsDirectory
  <2>3. Entry(Front(w.at)).kind = "dir"
    <3>1. Entry(w.at).kind # "none"
      BY DEF Solid
    <3> QED
      BY <3>1, InADirectory
  <2> HIDE DEF name, rest, place, a
  <2>4. Solid(a) /\ (Filed(a) => \/ a = w
                                 \/ /\ rest = <<>> /\ name # Up
                                    /\ Entry(place).kind = "file")
    BY <2>1, <2>2, <2>3 DEF Solid, Filed
  <2> QED
    BY <1>2, <2>4 DEF name, rest, place, a
<1> QED
  BY <1>1, <1>2

-------------------------------------------------------------------------------
(* Walks that go on.                                                          *)

\* A path that goes on begins as it did.
LEMMA HeadOfConcat ==
  ASSUME NEW path \in Paths, path # <<>>, NEW more \in Paths
  PROVE  /\ path \o more \in Paths /\ path \o more # <<>>
         /\ Head(path \o more) = Head(path)
         /\ Tail(path \o more) = Tail(path) \o more
<1> DEFINE h == Head(path)
           t == Tail(path)
<1>1. /\ path \in Seq(Names) /\ more \in Seq(Names)
      /\ path \o more \in Seq(Names) /\ path \o more # <<>>
  BY ConcatProperties, ConcatEqualIffEmpty DEF Paths
<1>2. h \in Names /\ t \in Seq(Names)
  BY HeadAndTail DEF Paths
<1>3. Len(t) = Len(path) - 1 /\ \A i \in 1..Len(t) : t[i] = path[i + 1]
  BY <1>1, HeadTailProperties
<1>4. h = path[1] /\ Len(path) \in Nat \ {0} /\ Len(more) \in Nat
  BY <1>1, EmptySeq
<1> HIDE DEF h, t
<1> DEFINE c == path \o more
           d == t \o more
           tc == Tail(c)
<1>5. /\ c \in Seq(Names) /\ c # <<>> /\ Len(c) = Len(path) + Len(more)
      /\ \A i \in 1..Len(path) + Len(more) :
           c[i] = IF i <= Len(path) THEN path[i] ELSE more[i - Len(path)]
  BY <1>1, ConcatProperties
<1>6. /\ d \in Seq(Names) /\ Len(d) = Len(t) + Len(more)
      /\ \A i \in 1..Len(t) + Len(more) :
           d[i] = IF i <= Len(t) THEN t[i] ELSE more[i - Len(t)]
  BY <1>1, <1>2, ConcatProperties
<1> HIDE DEF c, d
<1>7. /\ Head(c) = c[1] /\ tc \in Seq(Names) /\ Len(tc) = Len(c) - 1
      /\ \A i \in 1..Len(tc) : tc[i] = c[i + 1]
  BY <1>5, HeadTailProperties
<1> HIDE DEF tc
<1>8. Head(c) = h
  BY <1>4, <1>5, <1>7
<1>9. \A i \in 1..Len(tc) : tc[i] = d[i]
  <2> TAKE i \in 1..Len(tc)
  <2>1. i \in 1..Len(t) + Len(more) /\ i + 1 \in 1..Len(path) + Len(more)
    BY <1>3, <1>4, <1>5, <1>7
  <2>2. CASE i <= Len(t)
    <3>1. i \in 1..Len(t) /\ i + 1 <= Len(path)
      BY <1>3, <1>4, <2>1, <2>2
    <3> QED
      BY <1>3, <1>5, <1>6, <1>7, <2>1, <2>2, <3>1
  <2>3. CASE ~(i <= Len(t))
    <3>1. ~(i + 1 <= Len(path)) /\ (i + 1) - Len(path) = i - Len(t)
      BY <1>3, <1>4, <2>1, <2>3
    <3> QED
      BY <1>5, <1>6, <1>7, <2>1, <2>3, <3>1
  <2> QED
    BY <2>2, <2>3
<1>10. tc = d
  <2>1. Len(tc) = Len(d)
    BY <1>3, <1>4, <1>5, <1>6, <1>7
  <2> QED
    BY <1>6, <1>7, <1>9, <2>1, SeqEqual
<1> QED
  BY <1>1, <1>8, <1>10 DEF c, d, tc, h, t, Paths

\* A walk with more to go takes the same way, up to a file.
LEMMA OnGoesAlong ==
  ASSUME tree \in Trees, NEW x \in Walks, Solid(x), x.todo # <<>>,
         NEW more \in Paths, more # <<>>
  PROVE  /\ On(x, more) \in Walks /\ On(x, more).todo # <<>>
         /\ Tail(On(x, more).todo) # <<>>
         /\ Advance(On(x, more)) =
              IF Filed(Advance(x)) THEN On(x, more) ELSE On(Advance(x), more)
<1> DEFINE name == Head(x.todo)
           rest == Tail(x.todo)
           place == Append(x.at, name)
           z == On(x, more)
<1>1. x.at \in Paths /\ x.todo \in Paths
  BY DEF Walks
<1>2. /\ z.at = x.at /\ z.todo \in Paths /\ z.todo # <<>>
      /\ Head(z.todo) = name /\ Tail(z.todo) = rest \o more
  BY <1>1, HeadOfConcat DEF On
<1>3. z \in Walks
  BY <1>1, <1>2 DEF On, Walks
<1> HIDE DEF z
<1>4. /\ name \in Names /\ rest \in Paths /\ place \in Paths
      /\ \/ name = Up /\ Advance(x) = [at |-> Front(x.at), todo |-> rest]
         \/ /\ name # Up /\ Entry(place).kind = "link"
            /\ Entry(place).to \in Paths
            /\ Advance(x) = [at |-> <<>>, todo |-> Entry(place).to \o rest]
         \/ /\ name # Up
            /\ \/ Entry(place).kind = "dir"
               \/ Entry(place).kind = "file" /\ rest = <<>>
            /\ Advance(x) = [at |-> place, todo |-> rest]
         \/ /\ name # Up
            /\ \/ Entry(place).kind = "none"
               \/ Entry(place).kind = "file" /\ rest # <<>>
            /\ Advance(x) = x
  BY AdvanceCases
<1> DEFINE onward == rest \o more
<1>5. /\ \/ name = Up /\ Advance(z) = [at |-> Front(x.at), todo |-> onward]
         \/ /\ name # Up /\ Entry(place).kind = "link"
            /\ Advance(z) = [at |-> <<>>, todo |-> Entry(place).to \o onward]
         \/ /\ name # Up
            /\ \/ Entry(place).kind = "dir"
               \/ Entry(place).kind = "file" /\ onward = <<>>
            /\ Advance(z) = [at |-> place, todo |-> onward]
         \/ /\ name # Up
            /\ \/ Entry(place).kind = "none"
               \/ Entry(place).kind = "file" /\ onward # <<>>
            /\ Advance(z) = z
  BY <1>2, <1>3, AdvanceCases
<1>6. onward # <<>>
  <2>1. rest \in Seq(Names) /\ more \in Seq(Names)
    BY <1>4 DEF Paths
  <2> HIDE DEF rest
  <2> QED
    BY <2>1, FrontOfConcat
<1>7. Entry(Front(x.at)).kind = "dir" /\ Entry(<<>>).kind = "dir"
  <2>1. Entry(x.at).kind # "none"
    BY DEF Solid
  <2> QED
    BY <2>1, InADirectory, TopIsDirectory
<1>8. Entry(place).to \in Paths =>
        (Entry(place).to \o rest) \o more = Entry(place).to \o onward
  <2> HIDE DEF rest
  <2>1. rest \in Seq(Names) /\ more \in Seq(Names)
    BY <1>4 DEF Paths
  <2>2. \A p \in Seq(Names) : (p \o rest) \o more = p \o (rest \o more)
    BY <2>1, Reassociated, SMTT(30)
  <2> QED
    BY <2>2, Zenon DEF Paths, onward
<1>9. z = On(x, more) /\ Tail(z.todo) # <<>>
  BY <1>2, <1>6 DEF z
<1> HIDE DEF onward, name, place, rest
<1>10. CASE name = Up
  <2>1. Advance(x) = [at |-> Front(x.at), todo |-> rest]
        /\ Advance(z) = [at |-> Front(x.at), todo |-> onward]
    BY <1>4, <1>5, <1>10
  <2>2. ~Filed(Advance(x))
    BY <1>7, <2>1 DEF Filed
  <2> QED
    BY <1>2, <1>3, <1>9, <2>1, <2>2 DEF On, onward
<1>11. CASE name # Up /\ Entry(place).kind = "link"
  <2>1. /\ Entry(place).to \in Paths
        /\ Advance(x) = [at |-> <<>>, todo |-> Entry(place).to \o rest]
        /\ Advance(z) = [at |-> <<>>, todo |-> Entry(place).to \o onward]
    BY <1>4, <1>5, <1>11
  <2>2. ~Filed(Advance(x))
    BY <1>7, <2>1 DEF Filed
  <2>3. On(Advance(x), more) = Advance(z)
    <3>1. Advance(x).at = <<>> /\ Advance(x).todo = Entry(place).to \o rest
      BY <2>1
    <3>2. On(Advance(x), more)
            = [at |-> <<>>, todo |-> (Entry(place).to \o rest) \o more]
      BY <3>1, Zenon DEF On
    <3> QED
      BY <1>8, <2>1, <3>2, Zenon
  <2> QED
    BY <1>2, <1>3, <1>9, <2>2, <2>3
<1>12. CASE name # Up /\ Entry(place).kind = "dir"
  <2>1. /\ Advance(x) = [at |-> place, todo |-> rest]
        /\ Advance(z) = [at |-> place, todo |-> onward]
    BY <1>4, <1>5, <1>12
  <2>2. ~Filed(Advance(x))
    BY <1>12, <2>1 DEF Filed
  <2> QED
    BY <1>2, <1>3, <1>9, <2>1, <2>2 DEF On, onward
<1>13. CASE name # Up /\ Entry(place).kind \in {"none", "file"}
  <2>1. Advance(z) = z
    BY <1>5, <1>6, <1>13
  <2>2. CASE Advance(x) = x
    <3>1. ~Filed(Advance(x))
      BY <2>2 DEF Filed
    <3> QED
      BY <1>2, <1>3, <1>9, <2>1, <2>2, <3>1
  <2>3. CASE rest = <<>> /\ Entry(place).kind = "file"
    <3>1. Filed(Advance(x))
      BY <1>4, <1>13, <2>3 DEF Filed
    <3> QED
      BY <1>2, <1>3, <1>9, <2>1, <3>1
  <2> QED
    BY <1>4, <1>13, <2>2, <2>3
<1> QED
  BY <1>4, <1>10, <1>11, <1>12, <1>13

\* With more to go, a walk comes by what it came by before, and goes on from
\* where it ended; where it ended at a file it is stuck.
LEMMA GoesOn ==
  ASSUME tree \in Trees, NEW w \in Walks, Solid(w), ~Filed(w),
         NEW more \in Paths, more # <<>>, NEW v, Leads(w, v)
  PROVE  /\ Solid(v)
         /\ ~Filed(v) => Leads(On(w, more), On(v, more))
         /\ Filed(v) => \E u \in Walks : /\ Leads(On(w, more), u) /\ Advance(u) = u
                                         /\ u.todo # <<>> /\ Tail(u.todo) # <<>>
<1> DEFINE o == On(w, more)
           Stops == \E u \in Walks : /\ Leads(o, u) /\ Advance(u) = u
                                      /\ u.todo # <<>> /\ Tail(u.todo) # <<>>
           S == {x \in Walks : /\ Solid(x)
                               /\ ~Filed(x) => Leads(o, On(x, more))
                               /\ Filed(x) => Stops}
<1>1. o \in Walks
  <2>1. w.at \in Paths /\ w.todo \o more \in Paths
    BY ConcatProperties DEF Walks, Paths
  <2> QED
    BY <2>1 DEF On, Walks
<1> HIDE DEF o
<1>2. w \in S
  BY <1>1, LeadsOneMore DEF o
<1>3. ASSUME NEW x \in Walks, x \in S PROVE Advance(x) \in S
  <2>1. Advance(x) \in Walks /\ Solid(Advance(x))
    BY <1>3, AdvanceType, SolidStays
  <2>2. CASE x.todo = <<>>
    <3>1. Advance(x) = x
      BY <2>2 DEF Advance
    <3> QED
      BY <1>3, <3>1
  <2>3. CASE x.todo # <<>>
    <3>1. Leads(o, On(x, more))
      BY <1>3, <2>3 DEF Filed
    <3>2. /\ On(x, more) \in Walks /\ On(x, more).todo # <<>>
          /\ Tail(On(x, more).todo) # <<>>
          /\ Advance(On(x, more)) =
               IF Filed(Advance(x)) THEN On(x, more) ELSE On(Advance(x), more)
      BY <1>3, <2>3, OnGoesAlong
    <3>3. Leads(o, Advance(On(x, more)))
      BY <1>1, <3>1, LeadsOneMore
    <3>4. ~Filed(Advance(x)) => Leads(o, On(Advance(x), more))
      BY <3>2, <3>3
    <3>5. Filed(Advance(x)) => Stops
      BY <3>1, <3>2
    <3> HIDE DEF Stops
    <3> QED
      BY <2>1, <3>4, <3>5
  <2> QED
    BY <2>2, <2>3
<1> HIDE DEF S
<1>4. v \in S
  BY <1>2, <1>3, Carried
<1> QED
  BY <1>4 DEF S, o

-------------------------------------------------------------------------------
(* Places lead to themselves.                                                 *)

Arrives(path, place) == Leads(Start(path), Done(place))
From(place, more) == [at |-> place, todo |-> more]

\* What a place that is there spells leads to it through directories alone.
LEMMA PlacesLeadToThemselves ==
  ASSUME tree \in Trees, NEW place, Entry(place).kind \in {"dir", "file"},
         NEW more \in Paths, Entry(place).kind = "dir" \/ more = <<>>
  PROVE  /\ place \in Paths /\ From(place, more) \in Walks
         /\ Leads(Start(place \o more), From(place, more))
         /\ \A v : Leads(Start(place \o more), v) =>
              \/ Leads(From(place, more), v)
              \/ \E i \in Nat :
                   /\ i < Len(place)
                   /\ v = From(SubSeq(place, 1, i), SubSeq(place, i + 1, Len(place)) \o more)
<1> DEFINE n == Len(place)
           At(i) == From(SubSeq(place, 1, i), SubSeq(place, i + 1, n) \o more)
<1>1. place \in Paths /\ n \in Nat
  BY InADirectory DEF Paths
<1>2. At(0) = Start(place \o more)
  <2>1. SubSeq(place, 1, 0) = <<>> /\ SubSeq(place, 0 + 1, n) = place
    BY <1>1, SubSeqEmpty, SubSeqFull DEF Paths
  <2> QED
    BY <2>1, Zenon DEF From, Start
<1>3. At(n) = From(place, more)
  <2>1. n + 1 \in Int /\ n < n + 1
    BY <1>1
  <2>2. SubSeq(place, 1, n) = place
    BY <1>1, SubSeqFull DEF Paths
  <2>3. SubSeq(place, n + 1, n) = <<>>
    <3> DEFINE m == n + 1
    <3>1. \A s : \A a, b \in Int : b < a => SubSeq(s, a, b) = <<>>
      BY SubSeqEmpty
    <3> HIDE DEF m
    <3>2. n \in Int /\ m \in Int /\ n < m
      BY <1>1, <2>1 DEF m
    <3>3. SubSeq(place, m, n) = <<>>
      BY <3>1, <3>2, Zenon
    <3> QED
      BY <3>3 DEF m
  <2>4. <<>> \o more = more
    BY ConcatEmptySeq DEF Paths
  <2> QED
    BY <2>2, <2>3, <2>4, Zenon DEF From
<1>4. ASSUME NEW i \in Nat, i < n
      PROVE  /\ At(i) \in Walks /\ Advance(At(i)) = At(i + 1)
             /\ i + 1 \in Nat /\ i + 1 <= n
  <2> DEFINE todo == SubSeq(place, i + 1, n)
             rest == SubSeq(place, i + 2, n)
             above == SubSeq(place, 1, i)
             next == SubSeq(place, 1, i + 1)
             name == place[i + 1]
  <2>1. /\ above \in Paths /\ next \in Paths /\ todo \in Paths /\ rest \in Paths
        /\ name \in Names /\ next = Append(above, name)
        /\ todo # <<>> /\ Head(todo) = name /\ Tail(todo) = rest
    BY <1>1, <1>4, PartAndName
  <2>2. name # Up
    BY <1>1, <1>4, NamesOfAPlace
  <2>3. Entry(next).kind = "dir" \/ (Entry(next).kind = "file" /\ rest \o more = <<>>)
    <3>1. CASE i + 1 < n
      <4>1. i + 1 \in Nat /\ Entry(place).kind # "none"
        BY <1>4
      <4> QED
        BY <3>1, <4>1, AboveAreDirectories
    <3>2. CASE i + 1 = n
      <4>1. next = place
        BY <1>1, <3>2, SubSeqFull DEF Paths
      <4>2. rest = <<>>
        <5>1. i + 2 \in Int /\ n \in Int /\ n < i + 2
          BY <1>1, <3>2
        <5> QED
          BY <5>1, SubSeqEmpty
      <4>3. more = <<>> => rest \o more = <<>>
        BY <4>2, ConcatEmptySeq DEF Paths
      <4> HIDE DEF rest, next
      <4> QED
        BY <4>1, <4>3
    <3> QED
      BY <1>1, <1>4, <3>1, <3>2
  <2>4. At(i + 1) = From(next, rest \o more)
    <3>1. (i + 1) + 1 = i + 2
      BY <1>4
    <3> QED
      BY <3>1, Zenon
  <2>5. At(i) = From(above, todo \o more)
    BY Zenon
  <2> HIDE DEF todo, rest, above, next, name
  <2>6. /\ todo \o more \in Paths /\ todo \o more # <<>>
        /\ Head(todo \o more) = name /\ Tail(todo \o more) = rest \o more
    BY <2>1, HeadOfConcat
  <2> DEFINE x == From(above, todo \o more)
  <2>7. /\ x \in Walks /\ x.at = above /\ x.todo = todo \o more
    BY <2>1, <2>6 DEF From, Walks
  <2>8. /\ \/ name = Up
           \/ name # Up /\ Entry(next).kind = "link"
           \/ Advance(x) = [at |-> next, todo |-> rest \o more]
           \/ /\ \/ Entry(next).kind = "none"
                 \/ Entry(next).kind = "file" /\ rest \o more # <<>>
    <3> HIDE DEF x
    <3> QED
      BY <2>1, <2>6, <2>7, AdvanceCases
  <2>9. Advance(x) = From(next, rest \o more)
    <3> HIDE DEF x
    <3> QED
      BY <2>2, <2>3, <2>8 DEF From
  <2> QED
    BY <1>1, <1>4, <2>4, <2>5, <2>7, <2>9
<1>5. /\ Start(place \o more) \in Walks
  BY <1>1, ConcatProperties, EndIsPlace DEF Paths
<1>6. From(place, more) \in Walks
  BY <1>1 DEF From, Walks
<1> DEFINE s == Start(place \o more)
<1> HIDE DEF At, s
<1>7. \A i \in Nat : i <= n => Leads(s, At(i))
  <2> DEFINE Ok == {i \in Nat : i <= n => Leads(s, At(i))}
  <2>1. 0 \in Ok
    BY <1>2, <1>5, LeadsOneMore DEF s
  <2>2. ASSUME NEW i \in Nat, i \in Ok PROVE i + 1 \in Ok
    <3> SUFFICES ASSUME i + 1 <= n PROVE Leads(s, At(i + 1))
      OBVIOUS
    <3>1. i < n /\ Leads(s, At(i))
      BY <1>1, <2>2
    <3>2. Advance(At(i)) = At(i + 1)
      BY <1>4, <3>1
    <3>3. Leads(s, Advance(At(i)))
      BY <1>5, <3>1, LeadsOneMore DEF s
    <3> QED
      BY <3>2, <3>3
  <2>3. Nat \subseteq Ok
    <3> HIDE DEF Ok
    <3> QED
      BY <2>1, <2>2, Climb
  <2> QED
    BY <2>3
<1>8. Leads(s, From(place, more))
  <2>1. n <= n
    BY <1>1
  <2> QED
    BY <1>1, <1>3, <1>7, <2>1
<1>9. \A v : Leads(s, v) =>
        Leads(From(place, more), v) \/ \E i \in Nat : i < n /\ v = At(i)
  <2> DEFINE S == {x \in Walks : \/ Leads(From(place, more), x)
                                 \/ \E i \in Nat : i < n /\ x = At(i)}
  <2>1. s \in S
    <3>1. CASE n = 0
      <4>1. s = From(place, more)
        BY <1>2, <1>3, <3>1 DEF s
      <4> QED
        BY <1>6, <4>1, LeadsOneMore
    <3>2. CASE n # 0
      BY <1>1, <1>2, <1>5, <3>2 DEF s
    <3> QED
      BY <3>1, <3>2
  <2>2. ASSUME NEW x \in Walks, x \in S PROVE Advance(x) \in S
    <3>1. Advance(x) \in Walks
      BY AdvanceType
    <3>2. CASE Leads(From(place, more), x)
      BY <1>6, <3>1, <3>2, LeadsOneMore
    <3>3. ASSUME NEW i \in Nat, i < n, x = At(i) PROVE Advance(x) \in S
      <4>1. Advance(x) = At(i + 1) /\ i + 1 \in Nat /\ i + 1 <= n
        BY <1>4, <3>3
      <4>2. CASE i + 1 < n
        BY <3>1, <4>1, <4>2
      <4>3. CASE i + 1 = n
        <5>1. Advance(x) = From(place, more)
          BY <1>3, <4>1, <4>3
        <5>2. Leads(From(place, more), Advance(x))
          BY <1>6, <5>1, LeadsOneMore
        <5> QED
          BY <3>1, <5>2
      <4> QED
        BY <1>1, <4>1, <4>2, <4>3
    <3> QED
      BY <2>2, <3>2, <3>3
  <2> HIDE DEF S
  <2>3. \A v : Leads(s, v) => v \in S
    BY <1>5, <2>1, <2>2, Carried DEF s
  <2> QED
    BY <2>3 DEF S
<1> QED
  BY <1>1, <1>6, <1>8, <1>9 DEF s, At

-------------------------------------------------------------------------------
(* Paths that are alike.                                                      *)

\* A walk from the top starts on solid ground, and it is not at a file.
LEMMA TopIsSolid ==
  ASSUME tree \in Trees, NEW path \in Paths
  PROVE  Start(path) \in Walks /\ Solid(Start(path)) /\ ~Filed(Start(path))
<1>1. Start(path) \in Walks /\ Start(path).at = <<>>
  BY EndIsPlace DEF Start
<1> QED
  BY <1>1, TopIsDirectory DEF Solid, Filed

\* Where a path leads, something is there.
LEMMA EndIsThere ==
  ASSUME tree \in Trees, NEW path \in Paths, NEW place \in Paths, Arrives(path, place)
  PROVE  Entry(place).kind \in {"dir", "file"}
<1> DEFINE S == {x \in Walks : Solid(x)}
<1>1. Start(path) \in Walks /\ Start(path) \in S
  BY TopIsSolid
<1>2. \A x \in Walks : x \in S => Advance(x) \in S
  BY AdvanceType, SolidStays
<1> HIDE DEF S
<1>3. Done(place) \in S
  BY <1>1, <1>2, Carried DEF Arrives
<1>4. Solid(Done(place)) /\ Done(place).at = place
  BY <1>3 DEF S, Done
<1> QED
  BY <1>4 DEF Solid

\* A path that goes on where another leads goes on from there; from a file it
\* does not go on.
LEMMA GoesOnFromTheEnd ==
  ASSUME tree \in Trees, NEW path \in Paths, NEW place \in Paths,
         Arrives(path, place), NEW more \in Paths, more # <<>>
  PROVE  /\ Entry(place).kind = "dir" =>
              Leads(Start(path \o more), From(place, more))
         /\ Entry(place).kind = "file" => \A end \in Paths : ~Arrives(path \o more, end)
<1> DEFINE s == Start(path)
           d == Done(place)
           o == On(s, more)
<1>1. s \in Walks /\ Solid(s) /\ ~Filed(s) /\ Leads(s, d)
  BY TopIsSolid DEF Arrives
<1>2. o = Start(path \o more)
  BY DEF On, Start
<1>3. path \o more \in Paths
  BY ConcatProperties DEF Paths
<1>4. o \in Walks
  BY <1>2, <1>3, EndIsPlace
<1>5. On(d, more) = From(place, more)
  <2>1. d.at = place /\ d.todo = <<>>
    BY DEF Done
  <2>2. <<>> \o more = more
    BY ConcatEmptySeq DEF Paths
  <2> QED
    BY <2>1, <2>2 DEF On, From
<1>6. Filed(d) <=> Entry(place).kind = "file"
  BY DEF Filed, Done
<1> HIDE DEF s, d, o
<1>7. /\ ~Filed(d) => Leads(o, On(d, more))
      /\ Filed(d) => \E u \in Walks : Leads(o, u) /\ u.todo # <<>> /\ Advance(u) = u
  BY <1>1, GoesOn DEF o
<1>8. ASSUME Entry(place).kind = "file", NEW end \in Paths, Arrives(path \o more, end)
      PROVE  FALSE
  <2>1. PICK u \in Walks : Leads(o, u) /\ u.todo # <<>> /\ Advance(u) = u
    BY <1>6, <1>7, <1>8
  <2>2. Done(end) \in Walks /\ Advance(Done(end)) = Done(end)
    BY EndIsPlace
  <2>3. Leads(o, Done(end))
    BY <1>2, <1>8 DEF Arrives
  <2>4. u = Done(end)
    BY <1>4, <2>1, <2>2, <2>3, OneEnd
  <2> QED
    BY <2>1, <2>4 DEF Done
<1>9. Entry(place).kind = "dir" => Leads(o, On(d, more))
  BY <1>6, <1>7
<1> QED
  BY <1>2, <1>5, <1>8, <1>9

\* A place that is there spells a path that leads to it.
LEMMA ThereLeadsThere ==
  ASSUME tree \in Trees, NEW place, Entry(place).kind \in {"dir", "file"}
  PROVE  Arrives(place, place)
<1> DEFINE none == <<>>
<1>1. none \in Paths /\ place \in Paths
  <2>1. Entry(place).kind # "none"
    OBVIOUS
  <2> QED
    BY <2>1, InADirectory DEF Paths
<1>2. Leads(Start(place \o none), From(place, none))
  <2>1. \A more \in Paths :
          Entry(place).kind = "dir" \/ more = <<>> =>
            Leads(Start(place \o more), From(place, more))
    BY PlacesLeadToThemselves
  <2> QED
    BY <1>1, <2>1, Zenon
<1>3. place \o none = place
  BY <1>1, ConcatEmptySeq DEF Paths
<1> QED
  BY <1>2, <1>3 DEF Arrives, From, Done

\* A path may be replaced by the place it leads to, whatever follows it.
LEMMA SameEnd ==
  ASSUME tree \in Trees, NEW path \in Paths, NEW place \in Paths,
         Arrives(path, place), NEW more \in Paths
  PROVE  \A end \in Paths : Arrives(path \o more, end) <=> Arrives(place \o more, end)
<1>1. Entry(place).kind \in {"dir", "file"}
  BY EndIsThere
<1>2. Arrives(place, place)
  BY <1>1, ThereLeadsThere
<1>3. SUFFICES ASSUME NEW end \in Paths
               PROVE  Arrives(path \o more, end) <=> Arrives(place \o more, end)
  OBVIOUS
<1>4. Done(end) \in Walks /\ Advance(Done(end)) = Done(end)
  BY EndIsPlace
<1>5. CASE more = <<>>
  <2>1. path \o more = path /\ place \o more = place
    BY <1>5, ConcatEmptySeq DEF Paths
  <2>2. Start(path) \in Walks /\ Start(place) \in Walks /\ Done(place) \in Walks
        /\ Advance(Done(place)) = Done(place)
    BY EndIsPlace
  <2>3. Leads(Start(path), Done(end)) <=> Leads(Done(place), Done(end))
    BY <1>4, <2>2, SameEndFromOnTheWay DEF Arrives
  <2>4. Leads(Start(place), Done(end)) <=> Leads(Done(place), Done(end))
    BY <1>2, <1>4, <2>2, SameEndFromOnTheWay DEF Arrives
  <2> QED
    BY <2>1, <2>3, <2>4 DEF Arrives
<1>6. CASE more # <<>> /\ Entry(place).kind = "file"
  BY <1>2, <1>6, GoesOnFromTheEnd
<1>7. CASE more # <<>> /\ Entry(place).kind = "dir"
  <2>1. /\ Leads(Start(path \o more), From(place, more))
        /\ Leads(Start(place \o more), From(place, more))
    BY <1>2, <1>7, GoesOnFromTheEnd
  <2>2. Start(path \o more) \in Walks /\ Start(place \o more) \in Walks
    BY ConcatProperties, EndIsPlace DEF Paths
  <2>3. Leads(Start(path \o more), Done(end)) <=> Leads(From(place, more), Done(end))
    BY <1>4, <2>1, <2>2, SameEndFromOnTheWay
  <2>4. Leads(Start(place \o more), Done(end)) <=> Leads(From(place, more), Done(end))
    BY <1>4, <2>1, <2>2, SameEndFromOnTheWay
  <2> QED
    BY <2>3, <2>4 DEF Arrives
<1> QED
  BY <1>1, <1>5, <1>6, <1>7

\* Two paths that the system leads to the same place, and whose last names, if
\* they lead nowhere, would be put in the same place.
Alike(p, q) ==
  /\ \A end \in Paths : Arrives(p, end) <=> Arrives(q, end)
  /\ (\E end \in Paths : Arrives(p, end)) \/
       /\ p # <<>> /\ q # <<>> /\ Last(p) = Last(q)
       /\ \A end \in Paths : Arrives(Front(p), end) <=> Arrives(Front(q), end)

\* A path is alike to itself: the one with no names leads to the top.
LEMMA AlikeToItself ==
  ASSUME tree \in Trees, NEW p \in Paths
  PROVE  Alike(p, p)
<1>1. CASE p = <<>>
  <2>1. Start(p) = Done(p) /\ Start(p) \in Walks
    BY <1>1, EndIsPlace DEF Start, Done
  <2>2. Arrives(p, p)
    BY <2>1, LeadsOneMore DEF Arrives
  <2> QED
    BY <2>2 DEF Alike
<1>2. CASE p # <<>>
  BY <1>2 DEF Alike
<1> QED
  BY <1>1, <1>2

\* Likeness goes further.
LEMMA AlikeFurther ==
  ASSUME NEW p, NEW q, NEW r, Alike(p, q), Alike(q, r)
  PROVE  Alike(p, r)
BY DEF Alike

\* A path is alike to the one in which its beginning is replaced by the place
\* that this leads to.
LEMMA AlikeByPlace ==
  ASSUME tree \in Trees, NEW path \in Paths, NEW place \in Paths,
         Arrives(path, place), NEW more \in Paths
  PROVE  Alike(path \o more, place \o more)
<1>1. \A end \in Paths : Arrives(path \o more, end) <=> Arrives(place \o more, end)
  BY SameEnd
<1>2. CASE more = <<>>
  <2>1. path \o more = path
    BY <1>2, ConcatEmptySeq DEF Paths
  <2> QED
    BY <1>1, <2>1 DEF Alike
<1>3. CASE more # <<>>
  <2>1. /\ path \o more # <<>> /\ Front(path \o more) = path \o Front(more)
        /\ Last(path \o more) = Last(more)
    BY <1>3, FrontOfConcat DEF Paths
  <2>2. /\ place \o more # <<>> /\ Front(place \o more) = place \o Front(more)
        /\ Last(place \o more) = Last(more)
    BY <1>3, FrontOfConcat DEF Paths
  <2>3. Front(more) \in Paths
    BY FrontOfPlace
  <2>4. \A end \in Paths :
          Arrives(path \o Front(more), end) <=> Arrives(place \o Front(more), end)
    BY <2>3, SameEnd
  <2> QED
    BY <1>1, <2>1, <2>2, <2>4 DEF Alike
<1> QED
  BY <1>2, <1>3

\* What the system says of two paths that are alike is the same.
LEMMA AlikeIsAlike ==
  ASSUME tree \in Trees, Steps = Nat, NEW p \in Paths, NEW q \in Paths, Alike(p, q)
  PROVE  /\ Resolves(p) <=> Resolves(q)
         /\ Resolves(p) => Canonical(p) = Canonical(q)
         /\ ~Resolves(p) => /\ p # <<>> /\ q # <<>>
                            /\ Named(p) <=> Named(q)
                            /\ Named(p) => Place(p) = Place(q)
<1>1. \A x, y \in Paths : (\A end \in Paths : Arrives(x, end) <=> Arrives(y, end)) =>
         /\ Resolves(x) <=> Resolves(y)
         /\ Resolves(x) => Canonical(x) = Canonical(y)
  <2> SUFFICES ASSUME NEW x \in Paths, NEW y \in Paths,
                      \A end \in Paths : Arrives(x, end) <=> Arrives(y, end)
               PROVE  /\ Resolves(x) <=> Resolves(y)
                      /\ Resolves(x) => Canonical(x) = Canonical(y)
    OBVIOUS
  <2>1. ASSUME Resolves(x) PROVE Resolves(y) /\ Canonical(y) = Canonical(x)
    <3>1. Canonical(x) \in Paths /\ Arrives(x, Canonical(x))
      BY <2>1, CanonicalIsTheEnd DEF Arrives
    <3>2. Arrives(y, Canonical(x))
      BY <3>1
    <3> QED
      BY <3>1, <3>2, EndIsCanonical DEF Arrives
  <2>2. ASSUME Resolves(y) PROVE Resolves(x)
    <3>1. Canonical(y) \in Paths /\ Arrives(y, Canonical(y))
      BY <2>2, CanonicalIsTheEnd DEF Arrives
    <3>2. Arrives(x, Canonical(y))
      BY <3>1
    <3> QED
      BY <3>1, <3>2, EndIsCanonical DEF Arrives
  <2> QED
    BY <2>1, <2>2
<1>2. Resolves(p) <=> Resolves(q)
  BY <1>1 DEF Alike
<1>3. Resolves(p) => Canonical(p) = Canonical(q)
  BY <1>1 DEF Alike
<1>4. ASSUME ~Resolves(p)
      PROVE  /\ p # <<>> /\ q # <<>>
             /\ Named(p) <=> Named(q)
             /\ Named(p) => Place(p) = Place(q)
  <2>1. ~\E end \in Paths : Arrives(p, end)
    BY <1>4, EndIsCanonical DEF Arrives
  <2>2. /\ p # <<>> /\ q # <<>> /\ Last(p) = Last(q)
        /\ \A end \in Paths : Arrives(Front(p), end) <=> Arrives(Front(q), end)
    BY <2>1 DEF Alike
  <2>3. Front(p) \in Paths /\ Front(q) \in Paths
    BY FrontOfPlace
  <2>4. /\ Resolves(Front(p)) <=> Resolves(Front(q))
        /\ Resolves(Front(p)) => Canonical(Front(p)) = Canonical(Front(q))
    BY <1>1, <2>2, <2>3
  <2> QED
    BY <2>2, <2>4 DEF Named, Place
<1> QED
  BY <1>2, <1>3, <1>4

-------------------------------------------------------------------------------
(* By the names alone.                                                        *)

\* One name leads from a place to a place, by the names alone.
LEMMA PushedType ==
  ASSUME NEW place \in Paths, NEW name \in Names
  PROVE  Pushed(place, name) \in Paths
<1>1. Front(place) \in Paths
  BY FrontOfPlace
<1>2. Append(place, name) \in Paths
  BY AppendProperties DEF Paths
<1> QED
  BY <1>1, <1>2 DEF Pushed

\* Where the names of a path lead by themselves, one by one.
LEMMA WalkedUnfolds ==
  ASSUME root \in Paths, NEW below \in Paths
  PROVE  /\ Walked(below)[0] = root
         /\ \A n \in Nat : n <= Len(below) => Walked(below)[n] \in Paths
         /\ \A n \in Nat : n < Len(below) =>
              Walked(below)[n + 1] = Pushed(Walked(below)[n], below[n + 1])
<1> DEFINE len == Len(below)
           V == [n : Nat, place : Paths]
           v0 == [n |-> 0, place |-> root]
           f == [v \in V |->
                  [n |-> v.n + 1,
                   place |-> IF v.n < len THEN Pushed(v.place, below[v.n + 1])
                                          ELSE v.place]]
           Solves(g) == g = [n \in 0..len |->
                              IF n = 0 THEN root ELSE Pushed(g[n - 1], below[n])]
<1>1. len \in Nat /\ \A i \in 1..len : below[i] \in Names
  BY DEF Paths
<1> HIDE DEF len
<1>2. v0 \in V
  OBVIOUS
<1>3. f \in [V -> V]
  <2> SUFFICES ASSUME NEW v \in V
               PROVE  (IF v.n < len THEN Pushed(v.place, below[v.n + 1])
                                    ELSE v.place) \in Paths
    OBVIOUS
  <2>1. v.n \in Nat /\ v.place \in Paths
    OBVIOUS
  <2>2. v.n < len => below[v.n + 1] \in Names
    BY <1>1, <2>1
  <2> QED
    BY <2>1, <2>2, PushedType
<1>4. PICK g \in [Nat -> V] : g[0] = v0 /\ \A k \in Nat : g[k + 1] = f[g[k]]
  <2> HIDE DEF V, f, v0
  <2>1. \A v \in V : \A h \in [V -> V] :
          \E g \in [Nat -> V] : g[0] = v /\ \A k \in Nat : g[k + 1] = h[g[k]]
    BY IterationExists, SMTT(60)
  <2> QED
    BY <1>2, <1>3, <2>1
<1>5. \A k \in Nat : /\ g[k] \in V /\ g[k + 1].n = g[k].n + 1
                     /\ g[k].n < len => g[k + 1].place
                                          = Pushed(g[k].place, below[g[k].n + 1])
  <2>1. \A v \in V : f[v].n = v.n + 1
          /\ (v.n < len => f[v].place = Pushed(v.place, below[v.n + 1]))
    <3> TAKE v \in V
    <3> DEFINE place == IF v.n < len THEN Pushed(v.place, below[v.n + 1]) ELSE v.place
    <3>1. f[v] = [n |-> v.n + 1, place |-> place]
      OBVIOUS
    <3>2. v.n < len => place = Pushed(v.place, below[v.n + 1])
      BY Zenon
    <3> HIDE DEF place, f
    <3>3. f[v].n = v.n + 1 /\ f[v].place = place
      BY <3>1
    <3> QED
      BY <3>2, <3>3
  <2> TAKE k \in Nat
  <2> HIDE DEF V, f
  <2>2. g[k] \in V /\ g[k + 1] = f[g[k]]
    BY <1>4
  <2> QED
    BY <2>1, <2>2, Zenon
<1>6. \A k \in Nat : g[k].n = k
  <2> DEFINE Ok == {k \in Nat : g[k].n = k}
  <2>1. 0 \in Ok
    BY <1>4
  <2>2. \A k \in Nat : k \in Ok => k + 1 \in Ok
    BY <1>5
  <2>3. Nat \subseteq Ok
    <3> HIDE DEF Ok
    <3> QED
      BY <2>1, <2>2, Climb
  <2> QED
    BY <2>3
<1> DEFINE w == [n \in 0..len |-> g[n].place]
<1>7. Solves(w)
  <2>1. ASSUME NEW n \in 0..len
        PROVE  w[n] = IF n = 0 THEN root ELSE Pushed(w[n - 1], below[n])
    <3>1. CASE n = 0
      BY <1>4, <3>1
    <3>2. CASE n # 0
      <4>1. n - 1 \in Nat /\ (n - 1) + 1 = n /\ n - 1 < len /\ n - 1 \in 0..len
        BY <1>1, <3>2
      <4>2. g[n].place = Pushed(g[n - 1].place, below[n])
        BY <1>5, <1>6, <4>1
      <4> QED
        BY <3>2, <4>1, <4>2
    <3> QED
      BY <3>1, <3>2
  <2> HIDE DEF Pushed
  <2> QED
    BY <2>1
<1>8. Walked(below) = CHOOSE h : Solves(h)
  BY Zenon DEF Walked, len
<1> DEFINE W == Walked(below)
<1>9. Solves(W)
  <2> HIDE DEF Solves, w
  <2> QED
    BY <1>7, <1>8
<1> HIDE DEF W
<1>10. W[0] = root
  BY <1>1, <1>9
<1>11. \A n \in Nat : n < len => W[n + 1] = Pushed(W[n], below[n + 1])
  <2> TAKE n \in Nat
  <2> SUFFICES ASSUME n < len PROVE W[n + 1] = Pushed(W[n], below[n + 1])
    OBVIOUS
  <2>1. n + 1 \in 0..len /\ n + 1 # 0 /\ (n + 1) - 1 = n
    BY <1>1
  <2>2. W[n + 1] = IF n + 1 = 0 THEN root ELSE Pushed(W[(n + 1) - 1], below[n + 1])
    BY <1>9, <2>1
  <2> QED
    BY <2>1, <2>2
<1>12. \A n \in Nat : n <= len => W[n] \in Paths
  <2> DEFINE Ok == {n \in Nat : n <= len => W[n] \in Paths}
  <2>1. 0 \in Ok
    BY <1>10
  <2>2. ASSUME NEW n \in Nat, n \in Ok PROVE n + 1 \in Ok
    <3> SUFFICES ASSUME n + 1 <= len PROVE W[n + 1] \in Paths
      OBVIOUS
    <3>1. n < len /\ W[n] \in Paths /\ below[n + 1] \in Names
      BY <1>1, <2>2
    <3> QED
      BY <1>11, <3>1, PushedType
  <2>3. Nat \subseteq Ok
    <3> HIDE DEF Ok
    <3> QED
      BY <2>1, <2>2, Climb
  <2> QED
    BY <2>3
<1> QED
  BY <1>10, <1>11, <1>12 DEF W, len

\* The names but the last lead as far without the last.
LEMMA WalkedOfFront ==
  ASSUME root \in Paths, NEW below \in Paths, below # <<>>
  PROVE  \A n \in Nat : n < Len(below) => Walked(Front(below))[n] = Walked(below)[n]
<1> DEFINE f == Front(below)
           W == Walked(below)
           WF == Walked(f)
           Ok == {n \in Nat : n < Len(below) => WF[n] = W[n]}
<1>1. /\ f \in Paths /\ Len(below) \in Nat \ {0} /\ Len(f) = Len(below) - 1
      /\ \A i \in 1..Len(below) - 1 : f[i] = below[i]
  BY FrontLast DEF Paths
<1>2. /\ W[0] = root
      /\ \A n \in Nat : n < Len(below) => W[n + 1] = Pushed(W[n], below[n + 1])
  BY WalkedUnfolds
<1> HIDE DEF f
<1>3. /\ WF[0] = root
      /\ \A n \in Nat : n < Len(f) => WF[n + 1] = Pushed(WF[n], f[n + 1])
  BY <1>1, WalkedUnfolds
<1> HIDE DEF W, WF
<1>4. 0 \in Ok
  BY <1>2, <1>3
<1>5. ASSUME NEW n \in Nat, n \in Ok PROVE n + 1 \in Ok
  <2> SUFFICES ASSUME n + 1 < Len(below) PROVE WF[n + 1] = W[n + 1]
    OBVIOUS
  <2>1. n < Len(f) /\ n < Len(below) /\ n + 1 \in 1..Len(below) - 1
    BY <1>1
  <2>2. WF[n] = W[n] /\ f[n + 1] = below[n + 1]
    BY <1>1, <1>5, <2>1
  <2> QED
    BY <1>2, <1>3, <2>1, <2>2
<1>6. Nat \subseteq Ok
  <2> HIDE DEF Ok
  <2> QED
    BY <1>4, <1>5, Climb
<1> QED
  BY <1>6 DEF W, WF, f

\* The walk that has taken n names of a path from the root, if they went by themselves.
ByNames(path, n) == From(Walked(path)[n], SubSeq(path, n + 1, Len(path)))

\* One more name, when it stands for no link.
LEMMA OneName ==
  ASSUME tree \in Trees, root \in Paths, NEW path \in Paths,
         NEW n \in Nat, n < Len(path)
  PROVE  LET place == Walked(path)[n + 1]
             x == ByNames(path, n)
         IN  /\ x \in Walks /\ x.todo # <<>>
             /\ path[n + 1] = Up => place = Front(Walked(path)[n])
             /\ path[n + 1] # Up => place = Append(Walked(path)[n], path[n + 1])
             /\ \/ path[n + 1] = Up
                \/ Entry(place).kind = "dir"
                \/ Entry(place).kind = "file" /\ n + 1 = Len(path)
                => Advance(x) = ByNames(path, n + 1)
             /\ /\ path[n + 1] # Up
                /\ \/ Entry(place).kind = "none"
                   \/ Entry(place).kind = "file" /\ n + 1 # Len(path)
                => Advance(x) = x
<1> DEFINE here == Walked(path)[n]
           place == Walked(path)[n + 1]
           todo == SubSeq(path, n + 1, Len(path))
           rest == SubSeq(path, n + 2, Len(path))
           name == path[n + 1]
           x == ByNames(path, n)
           y == ByNames(path, n + 1)
<1>1. /\ here \in Paths /\ place = Pushed(here, name)
  BY WalkedUnfolds
<1>2. /\ todo \in Paths /\ rest \in Paths /\ name \in Names
      /\ todo # <<>> /\ Head(todo) = name /\ Tail(todo) = rest
  BY PartAndName
<1>3. rest = <<>> <=> n + 1 = Len(path)
  <2>1. Len(path) \in Nat /\ \A i \in 1..Len(path) : path[i] \in Names
    BY DEF Paths
  <2>2. Len(rest) = Len(path) - n - 1
    BY <2>1, SubSeqProperties
  <2>3. Len(rest) = 0 <=> rest = <<>>
    <3> HIDE DEF rest
    <3> QED
      BY <1>2, EmptySeq DEF Paths
  <2> QED
    BY <2>1, <2>2, <2>3
<1>4. x = From(here, todo) /\ x \in Walks /\ x.at = here /\ x.todo = todo
  BY <1>1, <1>2 DEF ByNames, From, Walks
<1>5. y = From(place, rest)
  <2>1. (n + 1) + 1 = n + 2
    OBVIOUS
  <2> QED
    BY <2>1, Zenon DEF ByNames
<1>6. /\ name = Up => place = Front(here)
      /\ name # Up => place = Append(here, name)
  BY <1>1 DEF Pushed
<1> HIDE DEF here, place, todo, rest, name, x, y
<1>7. LET named == Append(here, name)
      IN  \/ name = Up /\ Advance(x) = [at |-> Front(here), todo |-> rest]
          \/ name # Up /\ Entry(named).kind = "link"
          \/ /\ name # Up
             /\ \/ Entry(named).kind = "dir"
                \/ Entry(named).kind = "file" /\ rest = <<>>
             /\ Advance(x) = [at |-> named, todo |-> rest]
          \/ /\ name # Up
             /\ \/ Entry(named).kind = "none"
                \/ Entry(named).kind = "file" /\ rest # <<>>
             /\ Advance(x) = x
  BY <1>2, <1>4, AdvanceCases
<1>8. /\ \/ name = Up
         \/ Entry(place).kind = "dir"
         \/ Entry(place).kind = "file" /\ n + 1 = Len(path)
         => Advance(x) = y
      /\ /\ name # Up
         /\ \/ Entry(place).kind = "none"
            \/ Entry(place).kind = "file" /\ n + 1 # Len(path)
         => Advance(x) = x
  <2>1. CASE name = Up
    BY <1>5, <1>6, <1>7, <2>1 DEF From
  <2>2. CASE name # Up
    <3>1. \/ Entry(place).kind = "link"
          \/ /\ \/ Entry(place).kind = "dir"
                \/ Entry(place).kind = "file" /\ rest = <<>>
             /\ Advance(x) = [at |-> place, todo |-> rest]
          \/ /\ \/ Entry(place).kind = "none"
                \/ Entry(place).kind = "file" /\ rest # <<>>
             /\ Advance(x) = x
      BY <1>6, <1>7, <2>2
    <3>2. y = [at |-> place, todo |-> rest]
      BY <1>5 DEF From
    <3> QED
      BY <1>3, <2>2, <3>1, <3>2
  <2> QED
    BY <2>1, <2>2
<1> QED
  BY <1>2, <1>4, <1>6, <1>8 DEF place, name, here, x, y

\* No name of a path has been taken at the root, all have been at the end.
LEMMA FirstAndLastName ==
  ASSUME root \in Paths, NEW path \in Paths
  PROVE  /\ ByNames(path, 0) = From(root, path)
         /\ ByNames(path, Len(path)) = Done(Walked(path)[Len(path)])
<1>1. Walked(path)[0] = root
  BY WalkedUnfolds
<1>2. SubSeq(path, 0 + 1, Len(path)) = path
  BY SubSeqFull DEF Paths
<1>3. SubSeq(path, Len(path) + 1, Len(path)) = <<>>
  <2> DEFINE l == Len(path)
             m == l + 1
  <2>1. \A s : \A a, b \in Int : b < a => SubSeq(s, a, b) = <<>>
    BY SubSeqEmpty
  <2>2. l \in Int /\ m \in Int /\ l < m
    BY DEF Paths
  <2> HIDE DEF l, m
  <2>3. SubSeq(path, m, l) = <<>>
    BY <2>1, <2>2, Zenon
  <2> QED
    BY <2>3 DEF l, m
<1> QED
  BY <1>1, <1>2, <1>3, Zenon DEF ByNames, From, Done

\* Through directories the names go by themselves.
LEMMA ThroughDirectories ==
  ASSUME tree \in Trees, root \in Paths, NEW path \in Paths,
         NEW n \in Nat, n <= Len(path),
         \A i \in 1..n : Entry(Walked(path)[i]).kind = "dir"
  PROVE  Leads(From(root, path), ByNames(path, n))
<1> DEFINE Ok == {k \in Nat : k <= n => Leads(From(root, path), ByNames(path, k))}
<1>1. From(root, path) \in Walks
  BY DEF From, Walks
<1>2. 0 \in Ok
  BY <1>1, FirstAndLastName, LeadsOneMore
<1>3. ASSUME NEW k \in Nat, k \in Ok PROVE k + 1 \in Ok
  <2> SUFFICES ASSUME k + 1 <= n
               PROVE  Leads(From(root, path), ByNames(path, k + 1))
    OBVIOUS
  <2>1. Len(path) \in Nat
    BY DEF Paths
  <2>2. k < Len(path) /\ k + 1 \in 1..n /\ k <= n
    BY <2>1
  <2>3. Entry(Walked(path)[k + 1]).kind = "dir"
    BY <2>2
  <2>4. Advance(ByNames(path, k)) = ByNames(path, k + 1)
    BY <2>2, <2>3, OneName
  <2>5. Leads(From(root, path), Advance(ByNames(path, k)))
    BY <1>1, <1>3, <2>2, LeadsOneMore
  <2> QED
    BY <2>4, <2>5
<1>4. Nat \subseteq Ok
  <2> HIDE DEF Ok
  <2> QED
    BY <1>2, <1>3, Climb
<1> QED
  BY <1>4

\* A path that ends somewhere goes by the names as far as they stand for no link.
LEMMA GoesByTheNames ==
  ASSUME tree \in Trees, root \in Paths, Entry(root).kind = "dir",
         NEW path \in Paths, NEW end \in Paths, Leads(From(root, path), Done(end)),
         NEW n \in Nat, n <= Len(path),
         \A i \in 1..n : Entry(Walked(path)[i]).kind # "link"
  PROVE  \A i \in 0..n : \/ Entry(Walked(path)[i]).kind = "dir"
                         \/ Entry(Walked(path)[i]).kind = "file" /\ i = Len(path)
<1> DEFINE W == Walked(path)
           Good(i) == \/ Entry(W[i]).kind = "dir"
                      \/ Entry(W[i]).kind = "file" /\ i = Len(path)
           Ok == {k \in Nat : k <= n => \A i \in 0..k : Good(i)}
<1>1. Len(path) \in Nat /\ From(root, path) \in Walks /\ W[0] = root
  BY WalkedUnfolds DEF From, Walks, Paths
<1> HIDE DEF W
<1>2. 0 \in Ok
  BY <1>1
<1>3. ASSUME NEW k \in Nat, k \in Ok PROVE k + 1 \in Ok
  <2> SUFFICES ASSUME k + 1 <= n PROVE Good(k + 1)
    BY <1>3
  <2>1. k < Len(path) /\ \A i \in 0..k : Entry(W[i]).kind = "dir"
    BY <1>1, <1>3
  <2> DEFINE x == ByNames(path, k)
             place == W[k + 1]
  <2>2. Leads(From(root, path), x)
    <3>1. \A i \in 1..k : Entry(Walked(path)[i]).kind = "dir"
      BY <2>1 DEF W
    <3> QED
      BY <2>1, <3>1, ThroughDirectories
  <2>3. /\ x \in Walks /\ x.todo # <<>>
        /\ path[k + 1] = Up => place = Front(W[k])
        /\ /\ path[k + 1] # Up
           /\ \/ Entry(place).kind = "none"
              \/ Entry(place).kind = "file" /\ k + 1 # Len(path)
           => Advance(x) = x
    BY <2>1, OneName DEF W
  <2>4. Done(end) \in Walks /\ Advance(Done(end)) = Done(end) /\ Done(end).todo = <<>>
    BY EndIsPlace DEF Done
  <2> HIDE DEF x
  <2>5. Advance(x) # x
    <3> SUFFICES ASSUME Advance(x) = x PROVE FALSE
      OBVIOUS
    <3>1. x = Done(end)
      BY <1>1, <2>2, <2>3, <2>4, OneEnd
    <3> QED
      BY <2>3, <2>4, <3>1
  <2>6. CASE path[k + 1] = Up
    <3>1. Entry(W[k]).kind # "none" /\ place = Front(W[k])
      BY <2>1, <2>3, <2>6
    <3> QED
      BY <3>1, InADirectory
  <2>7. CASE path[k + 1] # Up
    <3>1. Entry(place).kind # "link"
      BY DEF W
    <3>2. Entry(place).kind \in {"none", "dir", "file", "link"}
      BY EntryOf
    <3> QED
      BY <2>3, <2>5, <2>7, <3>1, <3>2
  <2> QED
    BY <2>6, <2>7
<1>4. Nat \subseteq Ok
  <2> HIDE DEF Ok
  <2> QED
    BY <1>2, <1>3, Climb
<1> QED
  BY <1>4 DEF W

\* A path that names no link below the root leads where its names lead.
LEMMA EndsByTheNames ==
  ASSUME tree \in Trees, root \in Paths, Entry(root).kind = "dir",
         NEW path \in Paths, NEW end \in Paths, Leads(From(root, path), Done(end)),
         \A i \in 1..Len(path) : Entry(Walked(path)[i]).kind # "link"
  PROVE  end = Walked(path)[Len(path)]
<1> DEFINE W == Walked(path)
           l == Len(path)
           o == From(root, path)
<1>1. l \in Nat /\ W[l] \in Paths /\ o \in Walks
  BY WalkedUnfolds DEF From, Walks, Paths
<1>2. l <= l /\ \A i \in 1..l : Entry(W[i]).kind # "link"
  BY <1>1
<1>3. \A i \in 0..l : \/ Entry(W[i]).kind = "dir"
                      \/ Entry(W[i]).kind = "file" /\ i = l
  BY <1>1, <1>2, GoesByTheNames
<1>4. ByNames(path, l) = Done(W[l])
  BY FirstAndLastName
<1>5. Leads(o, Done(W[l]))
  <2>1. CASE Entry(W[l]).kind = "dir"
    <3>1. \A i \in 1..l : Entry(W[i]).kind = "dir"
      BY <1>1, <1>3, <2>1
    <3> QED
      BY <1>1, <1>2, <1>4, <3>1, ThroughDirectories
  <2>2. CASE Entry(W[l]).kind = "file"
    <3>1. l # 0
      <4>1. W[0] = root
        BY WalkedUnfolds
      <4> HIDE DEF W, l
      <4> QED
        BY <2>2, <4>1
    <3> DEFINE m == l - 1
    <3>2. m \in Nat /\ m < l /\ m + 1 = l /\ m <= l
      BY <1>1, <3>1
    <3> HIDE DEF m
    <3>3. \A i \in 1..m : Entry(W[i]).kind = "dir"
      BY <1>1, <1>3, <3>2
    <3>4. Leads(o, ByNames(path, m))
      BY <3>2, <3>3, ThroughDirectories
    <3>5. Advance(ByNames(path, m)) = ByNames(path, l)
      <4>1. Entry(W[m + 1]).kind = "file" /\ m + 1 = l
        BY <2>2, <3>2
      <4> QED
        BY <3>2, <4>1, OneName
    <3>6. Leads(o, Advance(ByNames(path, m)))
      BY <1>1, <3>4, LeadsOneMore
    <3> QED
      BY <1>4, <3>5, <3>6
  <2>3. l \in 0..l
    BY <1>1
  <2> QED
    BY <1>3, <2>1, <2>2, <2>3
<1> HIDE DEF W, l, o
<1>6. /\ Done(end) \in Walks /\ Advance(Done(end)) = Done(end)
      /\ Done(W[l]) \in Walks /\ Advance(Done(W[l])) = Done(W[l])
  BY <1>1, EndIsPlace
<1>7. Done(end) = Done(W[l])
  BY <1>1, <1>5, <1>6, OneEnd DEF o
<1>8. end = W[l]
  BY <1>7 DEF Done
<1> QED
  BY <1>8 DEF W, l

\* A path below a directory is walked from there.
LEMMA BelowADirectory ==
  ASSUME tree \in Trees, NEW place \in Paths, Entry(place).kind = "dir",
         NEW path \in Paths
  PROVE  /\ Leads(Start(place \o path), From(place, path))
         /\ From(place, path) \in Walks /\ Start(place \o path) \in Walks
         /\ \A end \in Paths : Arrives(place \o path, end) <=>
                               Leads(From(place, path), Done(end))
<1>1. Leads(Start(place \o path), From(place, path)) /\ From(place, path) \in Walks
  BY PlacesLeadToThemselves
<1>2. Start(place \o path) \in Walks
  BY ConcatProperties, EndIsPlace DEF Paths
<1>3. \A end \in Paths : Done(end) \in Walks /\ Advance(Done(end)) = Done(end)
  BY EndIsPlace
<1>4. \A end \in Paths : Leads(Start(place \o path), Done(end)) <=>
                         Leads(From(place, path), Done(end))
  BY <1>1, <1>2, <1>3, SameEndFromOnTheWay
<1> QED
  BY <1>1, <1>2, <1>4 DEF Arrives

\* Nothing that leads somewhere goes on below a file.
LEMMA BelowAFile ==
  ASSUME tree \in Trees, NEW place \in Paths, Entry(place).kind = "file",
         NEW path \in Paths, path # <<>>, NEW end \in Paths
  PROVE  ~Arrives(place \o path, end)
<1>1. Entry(place).kind \in {"dir", "file"}
  OBVIOUS
<1>2. Arrives(place, place)
  BY <1>1, ThereLeadsThere
<1> QED
  BY <1>2, GoesOnFromTheEnd

\* The first link that a path names below the root is walked into, if the path leads
\* somewhere or its parent does.
LEMMA FirstLinkIsCrossed ==
  ASSUME tree \in Trees, root \in Paths, Entry(root).kind \in {"dir", "file"},
         NEW path \in Paths,
         \/ \E end \in Paths : Arrives(root \o path, end)
         \/ Last(path) # Up /\ \E end \in Paths : Arrives(root \o Front(path), end),
         NEW n \in 1..Len(path), Entry(Walked(path)[n]).kind = "link",
         \A i \in 1..n - 1 : Entry(Walked(path)[i]).kind # "link"
  PROVE  /\ Entry(root).kind = "dir"
         /\ Leads(From(root, path), ByNames(path, n - 1))
         /\ ByNames(path, n - 1) \in Walks /\ ByNames(path, n - 1).todo # <<>>
         /\ Walked(path)[n] = Append(ByNames(path, n - 1).at, Head(ByNames(path, n - 1).todo))
<1> DEFINE W == Walked(path)
           m == n - 1
<1>1. /\ Len(path) \in Nat /\ m \in Nat /\ m < Len(path) /\ m <= Len(path)
      /\ m + 1 = n
  BY DEF Paths
<1>2. W[0] = root /\ W[m] \in Paths /\ path[n] \in Names
  <2>1. path[n] \in Names
    BY DEF Paths
  <2> QED
    BY <1>1, <2>1, WalkedUnfolds
<1> HIDE DEF m
<1>3. /\ path[n] = Up => W[n] = Front(W[m])
      /\ path[n] # Up => W[n] = Append(W[m], path[n])
      /\ ByNames(path, m) \in Walks /\ ByNames(path, m).todo # <<>>
  BY <1>1, OneName
<1>4. /\ ByNames(path, m).at = W[m]
      /\ Head(ByNames(path, m).todo) = path[n]
  <2>1. Head(SubSeq(path, m + 1, Len(path))) = path[m + 1]
    BY <1>1, PartAndName
  <2> QED
    BY <1>1, <2>1 DEF ByNames, From
<1>5. Entry(W[n]).kind # "none" /\ path # <<>>
  <2>1. path # <<>>
    BY <1>1
  <2> QED
    BY <2>1
<1>6. path[n] # Up => Entry(W[m]).kind = "dir"
  <2> SUFFICES ASSUME path[n] # Up PROVE Entry(W[m]).kind = "dir"
    OBVIOUS
  <2>1. W[n] = Append(W[m], path[n])
    BY <1>3
  <2>2. Front(W[n]) = W[m]
    BY <1>2, <2>1, FrontOfAppend DEF Paths
  <2> QED
    BY <1>5, <2>2, InADirectory
<1>7. ASSUME NEW q \in Paths, NEW end \in Paths, Arrives(root \o q, end),
             m <= Len(q), q # <<>>, \A i \in 0..m : Walked(q)[i] = W[i]
      PROVE  /\ Entry(root).kind = "dir"
             /\ \A i \in 0..m : Entry(W[i]).kind \in {"dir", "file"}
             /\ \A i \in 0..m : i < Len(q) => Entry(W[i]).kind = "dir"
  <2>1. Entry(root).kind = "dir"
    BY <1>7, BelowAFile
  <2>2. Leads(From(root, q), Done(end))
    BY <1>7, <2>1, BelowADirectory
  <2>3. \A i \in 1..m : Entry(Walked(q)[i]).kind # "link"
    BY <1>1, <1>7
  <2>4. \A i \in 0..m : \/ Entry(Walked(q)[i]).kind = "dir"
                        \/ Entry(Walked(q)[i]).kind = "file" /\ i = Len(q)
    BY <1>1, <1>7, <2>1, <2>2, <2>3, GoesByTheNames
  <2>5. \A i \in 0..m : \/ Entry(W[i]).kind = "dir"
                        \/ Entry(W[i]).kind = "file" /\ i = Len(q)
    BY <1>7, <2>4
  <2> HIDE DEF W
  <2>6. Len(q) \in Nat
    BY DEF Paths
  <2> QED
    BY <1>1, <2>1, <2>5, <2>6
<1>8. /\ Entry(root).kind = "dir" /\ path[n] # Up
      /\ \A i \in 0..m : Entry(W[i]).kind = "dir"
  <2>1. CASE \E end \in Paths : Arrives(root \o path, end)
    <3>1. PICK end \in Paths : Arrives(root \o path, end)
      BY <2>1
    <3>2. Entry(root).kind = "dir" /\ \A i \in 0..m : Entry(W[i]).kind = "dir"
      <4>1. \A i \in 0..m : Walked(path)[i] = W[i]
        OBVIOUS
      <4> HIDE DEF W
      <4>2. /\ Entry(root).kind = "dir"
            /\ \A i \in 0..m : i < Len(path) => Entry(W[i]).kind = "dir"
        BY <1>1, <1>5, <1>7, <3>1, <4>1
      <4> QED
        BY <1>1, <4>2
    <3>3. path[n] # Up
      <4> SUFFICES ASSUME path[n] = Up PROVE FALSE
        OBVIOUS
      <4>1. W[n] = Front(W[m]) /\ Entry(W[m]).kind # "none"
        BY <1>1, <1>3, <3>2
      <4>2. Entry(W[n]).kind = "dir"
        BY <4>1, InADirectory
      <4> QED
        BY <4>2
    <3> QED
      BY <3>2, <3>3
  <2>2. CASE Last(path) # Up /\ \E end \in Paths : Arrives(root \o Front(path), end)
    <3>1. PICK end \in Paths : Arrives(root \o Front(path), end)
      BY <2>2
    <3> DEFINE q == Front(path)
    <3>2. /\ q \in Paths /\ Len(q) = Len(path) - 1 /\ Last(path) = path[Len(path)]
      BY <1>5, FrontLast DEF Paths, Last
    <3>3. \A i \in 0..m : Walked(q)[i] = W[i]
      BY <1>1, <1>5, WalkedOfFront
    <3> HIDE DEF q, W
    <3>4. m <= Len(q)
      BY <1>1, <3>2
    <3>5. CASE q = <<>>
      <4>1. Len(path) = 1 /\ m = 0 /\ n = 1 /\ path[n] # Up
        <5>1. Len(q) = 0
          BY <3>5
        <5>2. Len(path) = 1
          BY <1>1, <3>2, <5>1
        <5>3. Len(path) = 1 /\ m = 0 /\ n = 1
          BY <1>1, <5>2
        <5>4. Last(path) # Up /\ Last(path) = path[n]
          BY <2>2, <3>2, <5>3
        <5> QED
          BY <5>3, <5>4
      <4>2. Entry(W[0]).kind = "dir"
        BY <1>6, <4>1
      <4> QED
        BY <1>2, <4>1, <4>2
    <3>6. CASE q # <<>>
      <4>1. /\ Entry(root).kind = "dir"
            /\ \A i \in 0..m : Entry(W[i]).kind \in {"dir", "file"}
            /\ \A i \in 0..m : i < Len(q) => Entry(W[i]).kind = "dir"
        BY <1>7, <3>1, <3>2, <3>3, <3>4, <3>6 DEF q
      <4>2. path[n] # Up
        <5> SUFFICES ASSUME path[n] = Up PROVE FALSE
          OBVIOUS
        <5>1. m \in 0..m
          BY <1>1
        <5>2. W[n] = Front(W[m]) /\ Entry(W[m]).kind # "none"
          BY <1>3, <4>1, <5>1
        <5>3. Entry(W[n]).kind = "dir"
          BY <5>2, InADirectory
        <5> QED
          BY <5>3 DEF W
      <4>3. Entry(W[m]).kind = "dir"
        BY <1>6, <4>2
      <4>4. \A i \in 0..m : i = m \/ i < Len(q)
        BY <1>1, <3>4
      <4> QED
        BY <4>1, <4>2, <4>3, <4>4
    <3> QED
      BY <3>5, <3>6
  <2> QED
    BY <2>1, <2>2
<1>9. Leads(From(root, path), ByNames(path, m))
  <2>1. \A i \in 1..m : Entry(Walked(path)[i]).kind = "dir"
    BY <1>1, <1>8
  <2> QED
    BY <1>1, <2>1, ThroughDirectories
<1> QED
  BY <1>3, <1>4, <1>8, <1>9 DEF m, W

-------------------------------------------------------------------------------
(* Rebasing.                                                                  *)

\* The arguments of a call, with a root that is there.
Rooted ==
  /\ tree \in Trees /\ given_root \in Paths
  /\ raw.absolute \in BOOLEAN /\ raw.path \in Paths
  /\ root \in Paths /\ Arrives(given_root, root)

\* Rebasing a path changes neither where it leads nor what its last name stands for.
LEMMA RebasedIsAlike ==
  ASSUME Rooted
  PROVE  /\ Rebased \in Paths /\ Spelled \in Paths /\ Alike(Spelled, Rebased)
         /\ root \o raw.path \in Paths /\ given_root \o raw.path \in Paths
<1>1. /\ tree \in Trees /\ given_root \in Paths /\ raw.path \in Paths /\ root \in Paths
      /\ Arrives(given_root, root)
  BY DEF Rooted
<1>2. /\ root \o raw.path \in Paths /\ given_root \o raw.path \in Paths
  BY <1>1, ConcatProperties DEF Paths
<1>3. Joined \in Paths /\ Spelled \in Paths
  BY <1>1, <1>2 DEF Joined, Spelled
<1>4. Alike(Spelled, Joined)
  <2>1. CASE raw.absolute
    BY <1>1, <1>3, <2>1, AlikeToItself DEF Joined, Spelled
  <2>2. CASE ~raw.absolute
    <3>1. Alike(given_root \o raw.path, root \o raw.path)
      BY <1>1, AlikeByPlace
    <3> QED
      BY <2>2, <3>1 DEF Joined, Spelled
  <2> QED
    BY <2>1, <2>2
<1>5. Rebased \in Paths /\ Alike(Joined, Rebased)
  <2>1. CASE IsPrefix(given_root, Joined)
    <3> DEFINE t == Below(given_root, Joined)
    <3>1. t \in Paths /\ Joined = given_root \o t
      BY <1>1, <1>3, <2>1, PrefixSplits DEF Paths
    <3> HIDE DEF t
    <3>2. Alike(given_root \o t, root \o t) /\ root \o t \in Paths
      BY <1>1, <3>1, AlikeByPlace, ConcatProperties DEF Paths
    <3>3. Rebased = root \o t
      BY <2>1 DEF Rebased, t
    <3> QED
      BY <3>1, <3>2, <3>3
  <2>2. CASE ~IsPrefix(given_root, Joined)
    BY <1>1, <1>3, <2>2, AlikeToItself DEF Rebased
  <2> QED
    BY <2>1, <2>2
<1> QED
  BY <1>2, <1>3, <1>4, <1>5, AlikeFurther

\* A root given as a part of the place it leads to is that place.
LEMMA GivenAbove ==
  ASSUME Rooted, IsPrefix(given_root, root)
  PROVE  given_root = root
<1>1. /\ tree \in Trees /\ given_root \in Paths /\ root \in Paths
      /\ Arrives(given_root, root)
  BY DEF Rooted
<1>2. Entry(root).kind \in {"dir", "file"}
  BY <1>1, EndIsThere
<1>3. /\ Len(given_root) \in Nat /\ Len(root) \in Nat /\ Len(given_root) <= Len(root)
      /\ SubSeq(root, 1, Len(given_root)) = given_root
  BY <1>1, SubSeqFull DEF IsPrefix, Paths
<1>4. CASE Len(given_root) = Len(root)
  <2>1. SubSeq(root, 1, Len(root)) = root
    BY <1>1, SubSeqFull DEF Paths
  <2> QED
    BY <1>3, <1>4, <2>1
<1>5. CASE Len(given_root) < Len(root)
  <2>1. Entry(root).kind # "none"
    BY <1>2
  <2>2. Entry(given_root).kind = "dir"
    BY <1>1, <1>3, <1>5, <2>1, AboveAreDirectories
  <2>3. Entry(given_root).kind \in {"dir", "file"}
    BY <2>2
  <2>4. Arrives(given_root, given_root)
    BY <1>1, <2>3, ThereLeadsThere
  <2>5. /\ Start(given_root) \in Walks
        /\ Done(given_root) \in Walks /\ Advance(Done(given_root)) = Done(given_root)
        /\ Done(root) \in Walks /\ Advance(Done(root)) = Done(root)
    BY <1>1, EndIsPlace
  <2>6. Done(given_root) = Done(root)
    BY <1>1, <2>4, <2>5, OneEnd DEF Arrives
  <2> QED
    BY <2>6 DEF Done
<1> QED
  BY <1>3, <1>4, <1>5

\* Of two prefixes of a path the longer goes on from the shorter.
LEMMA PrefixesOfOnePath ==
  ASSUME NEW p \in Paths, NEW q \in Paths, NEW path \in Paths,
         IsPrefix(p, path), IsPrefix(q, path)
  PROVE  IsPrefix(p, q) \/ IsPrefix(q, p)
<1> SUFFICES ASSUME NEW a \in Paths, NEW b \in Paths, Len(a) <= Len(b),
                    IsPrefix(a, path), IsPrefix(b, path)
             PROVE  IsPrefix(a, b)
  <2>1. Len(p) \in Nat /\ Len(q) \in Nat
    BY DEF Paths
  <2> QED
    BY <2>1
<1>1. /\ Len(a) \in Nat /\ Len(b) \in Nat /\ Len(path) \in Nat
      /\ Len(a) <= Len(path) /\ Len(b) <= Len(path)
      /\ SubSeq(a, 1, Len(a)) = SubSeq(path, 1, Len(a))
      /\ SubSeq(b, 1, Len(b)) = SubSeq(path, 1, Len(b))
  BY DEF IsPrefix, Paths
<1>2. SubSeq(a, 1, Len(a)) = a /\ SubSeq(b, 1, Len(b)) = b
  BY SubSeqFull DEF Paths
<1>3. Below(b, path) \in Paths /\ path = b \o Below(b, path)
  BY PrefixSplits DEF Paths
<1>4. SubSeq(path, 1, Len(a)) = SubSeq(b, 1, Len(a))
  <2>1. CASE Len(a) = 0
    <3>1. \A s : SubSeq(s, 1, 0) = <<>>
      BY SubSeqEmpty
    <3> QED
      BY <2>1, <3>1
  <2>2. CASE Len(a) # 0
    <3> DEFINE c == Below(b, path)
    <3> HIDE DEF c
    <3>1. c \in Seq(Names) /\ b \in Seq(Names) /\ 1 \in 1..Len(b) /\ Len(a) \in 1..Len(b)
      BY <1>1, <1>3, <2>2 DEF c, Paths
    <3>2. SubSeq(b \o c, 1, Len(a)) = SubSeq(b, 1, Len(a))
      BY <3>1, SubSeqOfConcat1
    <3> QED
      BY <1>3, <3>2, Zenon DEF c
  <2> QED
    BY <2>1, <2>2
<1> QED
  BY <1>1, <1>2, <1>4 DEF IsPrefix

\* A path spelled under the given root, which is not given by way of the workspace,
\* is rebased name by name.
LEMMA InsideIsRebased ==
  ASSUME Rooted, IsPrefix(given_root, Spelled), IsPrefix(root, given_root) => given_root = root
  PROVE  /\ Below(given_root, Spelled) \in Paths
         /\ Spelled = given_root \o Below(given_root, Spelled)
         /\ Rebased = root \o Below(given_root, Spelled)
<1> DEFINE t == Below(given_root, Spelled)
<1>1. /\ tree \in Trees /\ given_root \in Paths /\ raw.path \in Paths /\ root \in Paths
      /\ Spelled \in Paths /\ root \o raw.path \in Paths
  BY RebasedIsAlike DEF Rooted
<1>2. t \in Paths /\ Spelled = given_root \o t
  BY <1>1, PrefixSplits DEF Paths
<1>3. Rebased = root \o t
  <2>1. CASE raw.absolute
    BY <2>1 DEF Rebased, Joined, Spelled
  <2>2. CASE ~raw.absolute
    <3>1. t = raw.path
      BY <1>1, <2>2, ConcatIsBelow DEF Spelled, Paths
    <3>2. Joined = root \o raw.path
      BY <2>2 DEF Joined
    <3>3. CASE ~IsPrefix(given_root, Joined)
      BY <3>1, <3>2, <3>3 DEF Rebased
    <3>4. CASE IsPrefix(given_root, Joined)
      <4>1. IsPrefix(root, Joined) /\ Below(root, Joined) = raw.path
        BY <1>1, <3>2, ConcatIsBelow DEF Paths
      <4>2. IsPrefix(given_root, root) \/ IsPrefix(root, given_root)
        BY <1>1, <3>2, <3>4, <4>1, PrefixesOfOnePath
      <4>3. given_root = root
        BY <4>2, GivenAbove
      <4>4. Rebased = root \o Below(root, Joined)
        BY <3>4, <4>3 DEF Rebased
      <4> QED
        BY <3>1, <4>1, <4>4
    <3> QED
      BY <3>3, <3>4
  <2> QED
    BY <2>1, <2>2
<1> QED
  BY <1>2, <1>3

-------------------------------------------------------------------------------
(* Links on the way.                                                          *)

\* A path that names no link below the root leads where its names lead.
LEMMA LeadsByTheNames ==
  ASSUME tree \in Trees, root \in Paths, Entry(root).kind \in {"dir", "file"},
         NEW path \in Paths, NEW end \in Paths, Arrives(root \o path, end),
         \A i \in 1..Len(path) : Entry(Walked(path)[i]).kind # "link"
  PROVE  end = Walked(path)[Len(path)]
<1>1. CASE path = <<>>
  <2>1. root \o path = root /\ Len(path) = 0
    BY <1>1, ConcatEmptySeq DEF Paths
  <2>2. Arrives(root, root) /\ Arrives(root, end)
    BY <2>1, ThereLeadsThere
  <2>3. /\ Start(root) \in Walks
        /\ Done(root) \in Walks /\ Advance(Done(root)) = Done(root)
        /\ Done(end) \in Walks /\ Advance(Done(end)) = Done(end)
    BY EndIsPlace
  <2>4. Done(root) = Done(end)
    BY <2>2, <2>3, OneEnd DEF Arrives
  <2>5. root = end
    BY <2>4 DEF Done
  <2>6. Walked(path)[0] = root
    BY WalkedUnfolds
  <2> QED
    BY <2>1, <2>5, <2>6
<1>2. CASE path # <<>>
  <2>1. Entry(root).kind = "dir"
    BY <1>2, BelowAFile
  <2>2. Leads(From(root, path), Done(end))
    BY <2>1, BelowADirectory
  <2> QED
    BY <2>1, <2>2, EndsByTheNames
<1> QED
  BY <1>1, <1>2

\* A link that the rebased path walks into below the root, the path as it was spelled
\* walks into.
LEMMA SpelledWalksIntoIt ==
  ASSUME Rooted, Entry(root).kind = "dir", IsPrefix(root, Rebased),
         NEW x \in Walks, Leads(From(root, Below(root, Rebased)), x),
         x.todo # <<>>, Entry(Append(x.at, Head(x.todo))).kind = "link"
  PROVE  Leads(Start(Spelled), x)
<1> DEFINE t == Below(root, Rebased)
           p == raw.path
           u == Below(given_root, Joined)
<1>1. /\ tree \in Trees /\ given_root \in Paths /\ p \in Paths /\ root \in Paths
      /\ Arrives(given_root, root) /\ raw.absolute \in BOOLEAN
      /\ Rebased \in Paths /\ Spelled \in Paths
      /\ root \o p \in Paths /\ given_root \o p \in Paths
  BY RebasedIsAlike DEF Rooted
<1>2. t \in Paths /\ Rebased = root \o t
  BY <1>1, PrefixSplits DEF Paths
<1>3. \A q \in Paths : Leads(From(root, q), x) => q # <<>>
  <2> SUFFICES ASSUME NEW q \in Paths, Leads(From(root, q), x), q = <<>> PROVE FALSE
    OBVIOUS
  <2>1. From(root, q) = Done(root)
    BY DEF From, Done
  <2>2. Done(root) \in Walks /\ Advance(Done(root)) = Done(root)
    BY <1>1, EndIsPlace
  <2>3. x = Done(root)
    BY <1>1, <2>1, <2>2, StuckStays
  <2> QED
    BY <2>3 DEF Done
<1> HIDE DEF t, p
<1>4. Leads(From(root, t), x) /\ t # <<>>
  BY <1>2, <1>3 DEF t
<1>5. \A q \in Paths : Leads(From(root, q), x) => Leads(Start(given_root \o q), x)
  <2> SUFFICES ASSUME NEW q \in Paths, Leads(From(root, q), x)
               PROVE  Leads(Start(given_root \o q), x)
    OBVIOUS
  <2>1. q # <<>>
    BY <1>3
  <2>2. Leads(Start(given_root \o q), From(root, q))
    BY <1>1, <2>1, GoesOnFromTheEnd
  <2>3. Start(given_root \o q) \in Walks
    BY <1>1, ConcatProperties, EndIsPlace DEF Paths
  <2> QED
    BY <1>1, <2>2, <2>3, LeadsFurther
<1>6. IsPrefix(given_root, Joined) =>
        u \in Paths /\ Joined = given_root \o u /\ Rebased = root \o u /\ u = t
  <2> SUFFICES ASSUME IsPrefix(given_root, Joined)
               PROVE  u \in Paths /\ Joined = given_root \o u /\ Rebased = root \o u /\ u = t
    OBVIOUS
  <2>1. Joined \in Paths
    BY <1>1 DEF Joined, Spelled, p
  <2>2. u \in Paths /\ Joined = given_root \o u
    BY <1>1, <2>1, PrefixSplits DEF Paths
  <2>3. Rebased = root \o u
    BY DEF Rebased
  <2> HIDE DEF u
  <2>4. Below(root, root \o u) = u
    BY <1>1, <2>2, ConcatIsBelow DEF Paths
  <2> QED
    BY <2>2, <2>3, <2>4 DEF t
<1> HIDE DEF u
<1>7. CASE raw.absolute /\ ~IsPrefix(given_root, Joined)
  <2>1. Spelled = root \o t
    BY <1>2, <1>7 DEF Rebased, Joined, Spelled
  <2>2. Leads(Start(Spelled), From(root, t)) /\ Start(Spelled) \in Walks
    BY <1>1, <1>2, <2>1, BelowADirectory
  <2> QED
    BY <1>1, <1>4, <2>2, LeadsFurther
<1>8. CASE raw.absolute /\ IsPrefix(given_root, Joined)
  <2>1. Spelled = given_root \o t
    BY <1>6, <1>8 DEF Joined, Spelled
  <2> QED
    BY <1>2, <1>4, <1>5, <2>1
<1>9. CASE ~raw.absolute /\ ~IsPrefix(given_root, Joined)
  <2>1. Rebased = root \o p /\ Spelled = given_root \o p
    BY <1>9 DEF Rebased, Joined, Spelled, p
  <2>2. Below(root, root \o p) = p
    BY <1>1, ConcatIsBelow DEF Paths
  <2>3. t = p
    BY <2>1, <2>2 DEF t
  <2> QED
    BY <1>2, <1>4, <1>5, <2>1, <2>3
<1>10. CASE ~raw.absolute /\ IsPrefix(given_root, Joined)
  <2>1. Joined = root \o p /\ Spelled = given_root \o p /\ root \o p = given_root \o t
    BY <1>6, <1>10 DEF Joined, Spelled, p
  <2>2. Leads(Start(root \o p), x)
    BY <1>2, <1>4, <1>5, <2>1
  <2>3. Leads(From(root, p), x)
    <3>1. \/ Leads(From(root, p), x)
          \/ \E i \in Nat :
               /\ i < Len(root)
               /\ x = From(SubSeq(root, 1, i), SubSeq(root, i + 1, Len(root)) \o p)
      <4>1. Entry(root).kind \in {"dir", "file"}
        OBVIOUS
      <4> QED
        BY <1>1, <2>2, <4>1, PlacesLeadToThemselves
    <3>2. ASSUME NEW i \in Nat, i < Len(root),
                 x = From(SubSeq(root, 1, i), SubSeq(root, i + 1, Len(root)) \o p)
          PROVE  FALSE
      <4> DEFINE todo == SubSeq(root, i + 1, Len(root))
                 above == SubSeq(root, 1, i)
                 next == SubSeq(root, 1, i + 1)
      <4>1. /\ todo \in Paths /\ todo # <<>> /\ Head(todo) = root[i + 1]
            /\ next = Append(above, root[i + 1])
        BY <1>1, <3>2, PartAndName
      <4>2. Entry(next).kind = "dir"
        <5>1. CASE i + 1 < Len(root)
          <6>1. i + 1 \in Nat /\ Entry(root).kind # "none"
            BY <3>2
          <6> QED
            BY <1>1, <5>1, <6>1, AboveAreDirectories
        <5>2. CASE i + 1 = Len(root)
          <6>1. next = root
            BY <1>1, <5>2, SubSeqFull DEF Paths
          <6> QED
            BY <6>1
        <5>3. Len(root) \in Nat
          BY <1>1 DEF Paths
        <5> QED
          BY <3>2, <5>1, <5>2, <5>3
      <4>3. x.at = above /\ x.todo = todo \o p
        BY <3>2 DEF From
      <4> HIDE DEF todo, above, next
      <4>4. Head(todo \o p) = Head(todo)
        BY <1>1, <4>1, HeadOfConcat
      <4>5. Append(x.at, Head(x.todo)) = next
        BY <4>1, <4>3, <4>4
      <4> QED
        BY <4>2, <4>5
    <3> QED
      BY <3>1, <3>2
  <2> QED
    BY <1>1, <1>5, <2>1, <2>3
<1> QED
  BY <1>1, <1>7, <1>8, <1>9, <1>10

\* What a walk comes by and is a link is crossed.
LEMMA ComesByCrosses ==
  ASSUME tree \in Trees, Steps = Nat, NEW path \in Paths, NEW x \in Walks,
         Leads(Start(path), x), x.todo # <<>>,
         Entry(Append(x.at, Head(x.todo))).kind = "link"
  PROVE  Append(x.at, Head(x.todo)) \in Crossed(path)
<1>1. PICK k \in Nat : Walk(Start(path))[k] = x
  BY DEF Leads
<1>2. FromTop(path)[k] = x
  BY <1>1 DEF FromTop, Start
<1> DEFINE K == {i \in Steps : FromTop(path)[i].todo # <<>>}
           G(i) == Append(FromTop(path)[i].at, Head(FromTop(path)[i].todo))
<1>3. k \in K /\ G(k) = Append(x.at, Head(x.todo))
  BY <1>2
<1>4. Crossed(path) = {place \in {G(i) : i \in K} : Entry(place).kind = "link"}
  BY Zenon DEF Crossed
<1> HIDE DEF K, G
<1> QED
  BY <1>3, <1>4

-------------------------------------------------------------------------------
(***************************************************************************)
(* The invariant: what each step of judge has computed is what the answer  *)
(* is of.                                                                  *)
(***************************************************************************)
Settled == Resolves(given_root) /\ root = Canonical(given_root)
MadeAbsolute == absolute = Rebased
LeadsNowhere == ~Resolves(absolute)
HasNoPlace == ~Named(absolute)
Traversed == IsPrefix(root, absolute) /\ WalksThroughSymlink(Below(root, absolute))
Placed == IF Resolves(absolute) THEN canonical = Canonical(absolute)
                                ELSE Named(absolute) /\ canonical = Place(absolute)

Called ==
  /\ tree \in Trees /\ given_root \in GivenRoots
  /\ raw \in Raws /\ kind \in {"read", "write"}

Answered ==
  \/ /\ ~Resolves(given_root) /\ root = <<>> /\ canonical = <<>>
     /\ result = "control_not_enforceable"
  \/ /\ Settled /\ MadeAbsolute /\ LeadsNowhere /\ HasNoPlace /\ canonical = <<>>
     /\ result = "path_escapes_workspace"
  \/ /\ Settled /\ MadeAbsolute /\ traversed_symlink = Traversed /\ Placed
     /\ result = PathAccess

Inv ==
  /\ Called /\ traversed_symlink \in BOOLEAN
  /\ step \in {"new", "rebase", "look", "canonicalize", "parent", "evaluate", "done"}
  /\ step = "new" => root = <<>>
  /\ step \in {"new", "rebase", "look", "canonicalize", "parent"} => canonical = <<>>
  /\ step \in {"rebase", "look", "canonicalize", "parent", "evaluate"} => Settled
  /\ step \in {"look", "canonicalize", "parent", "evaluate"} => MadeAbsolute
  /\ step \in {"canonicalize", "parent", "evaluate"} => traversed_symlink = Traversed
  /\ step = "parent" => LeadsNowhere
  /\ step = "evaluate" => Placed
  /\ IF step = "done" THEN Answered ELSE result = "none"

\* What the system says of the given root stays while it and the file system do.
LEMMA RootStays ==
  ASSUME UNCHANGED <<tree, given_root>>
  PROVE  /\ Resolves(given_root)' <=> Resolves(given_root)
         /\ Canonical(given_root)' = Canonical(given_root)
BY SMT DEF Resolves, Canonical, Ended, FromTop, Walk, Advance, Entered, Entry

\* What the system says of the path stays while it and the file system do.
LEMMA PathStays ==
  ASSUME UNCHANGED <<tree, absolute>>
  PROVE  /\ Resolves(absolute)' <=> Resolves(absolute)
         /\ Canonical(absolute)' = Canonical(absolute)
         /\ Named(absolute)' <=> Named(absolute)
         /\ Place(absolute)' = Place(absolute)
<1>1. /\ Resolves(absolute)' <=> Resolves(absolute)
      /\ Canonical(absolute)' = Canonical(absolute)
  BY SMT DEF Resolves, Canonical, Ended, FromTop, Walk, Advance, Entered, Entry
<1>2. Named(absolute)' <=> Named(absolute)
  BY SMT DEF Named, Resolves, Ended, FromTop, Walk, Advance, Entered, Entry
<1>3. Place(absolute)' = Place(absolute)
  BY SMT DEF Place, Canonical, Ended, FromTop, Walk, Advance, Entered, Entry
<1> QED
  BY <1>1, <1>2, <1>3

\* The rebased path stays while the arguments and the root do.
LEMMA RebasedStays ==
  ASSUME UNCHANGED <<given_root, raw, root>>
  PROVE  Rebased' = Rebased
BY DEF Rebased, Joined

\* The links by the names stay while the path, the root and the file system do.
LEMMA WayStays ==
  ASSUME UNCHANGED <<tree, root, absolute>>
  PROVE  Traversed' <=> Traversed
BY SMT DEF Traversed, WalksThroughSymlink, Walked, Pushed, Entry

\* The verdict stays while what it is of does.
LEMMA AccessStays ==
  ASSUME UNCHANGED <<root, kind, canonical, traversed_symlink>>
  PROVE  PathAccess' = PathAccess
BY DEF PathAccess

\* Nothing has been computed at the start.
LEMMA Initially ==
  ASSUME Init
  PROVE  Inv
BY DEF Init, Inv, Called

\* The root is made canonical (fs.rs:25-34).
LEMMA NewKeeps ==
  ASSUME Inv, New
  PROVE  Inv'
<1>1. CASE /\ Resolves(given_root) /\ root' = Canonical(given_root)
           /\ step' = "rebase" /\ UNCHANGED result
  <2>1. Settled'
    BY <1>1, RootStays DEF New, arguments, Settled
  <2> QED
    BY <1>1, <2>1 DEF New, Inv, Called, arguments
<1>2. CASE ~Resolves(given_root) /\ Answer("control_not_enforceable") /\ UNCHANGED root
  <2>1. Answered'
    BY <1>2, RootStays DEF New, Inv, Answer, Answered, arguments
  <2> QED
    BY <1>2, <2>1 DEF New, Inv, Called, Answer, arguments
<1> QED
  BY <1>1, <1>2 DEF New

\* The path is rebased.
LEMMA RebaseKeeps ==
  ASSUME Inv, Rebase
  PROVE  Inv'
<1>1. Settled'
  BY RootStays DEF Rebase, Inv, Settled, arguments
<1>2. MadeAbsolute'
  BY RebasedStays DEF Rebase, MadeAbsolute, arguments
<1> QED
  BY <1>1, <1>2 DEF Rebase, Inv, Called, arguments

\* The links on its way are looked for.
LEMMA LookKeeps ==
  ASSUME Inv, Look
  PROVE  Inv'
<1>1. Settled'
  BY RootStays DEF Look, Inv, Settled, arguments
<1>2. MadeAbsolute'
  BY RebasedStays DEF Look, Inv, MadeAbsolute, arguments
<1>3. (traversed_symlink = Traversed)' /\ traversed_symlink' \in BOOLEAN
  <2>1. traversed_symlink' = Traversed /\ (Traversed' <=> Traversed)
    BY WayStays DEF Look, Traversed, arguments
  <2>2. Traversed \in BOOLEAN /\ Traversed' \in BOOLEAN
    BY DEF Traversed
  <2> QED
    BY <2>1, <2>2
<1> QED
  BY <1>1, <1>2, <1>3 DEF Look, Inv, Called, arguments

\* The path is made canonical.
LEMMA CanonicalizeKeeps ==
  ASSUME Inv, Canonicalize
  PROVE  Inv'
<1>1. Settled'
  BY RootStays DEF Canonicalize, Inv, Settled, arguments
<1>2. MadeAbsolute'
  BY RebasedStays DEF Canonicalize, Inv, MadeAbsolute, arguments
<1>3. (traversed_symlink = Traversed)'
  <2>1. Traversed' <=> Traversed
    BY WayStays DEF Canonicalize, arguments
  <2>2. Traversed \in BOOLEAN /\ Traversed' \in BOOLEAN
    BY DEF Traversed
  <2> QED
    BY <2>1, <2>2 DEF Canonicalize, Inv
<1>4. CASE Resolves(absolute) /\ canonical' = Canonical(absolute) /\ step' = "evaluate"
  <2>1. Placed'
    BY <1>4, PathStays DEF Canonicalize, arguments, Placed
  <2> QED
    BY <1>1, <1>2, <1>3, <1>4, <2>1 DEF Canonicalize, Inv, Called, arguments
<1>5. CASE ~Resolves(absolute) /\ step' = "parent" /\ UNCHANGED canonical
  <2>1. LeadsNowhere'
    BY <1>5, PathStays DEF Canonicalize, arguments, LeadsNowhere
  <2> QED
    BY <1>1, <1>2, <1>3, <1>5, <2>1 DEF Canonicalize, Inv, Called, arguments
<1> QED
  BY <1>4, <1>5 DEF Canonicalize

\* Its parent is made canonical.
LEMMA CanonicalizeParentKeeps ==
  ASSUME Inv, CanonicalizeParent
  PROVE  Inv'
<1>1. Settled'
  BY RootStays DEF CanonicalizeParent, Inv, Settled, arguments
<1>2. MadeAbsolute'
  BY RebasedStays DEF CanonicalizeParent, Inv, MadeAbsolute, arguments
<1>3. (traversed_symlink = Traversed)'
  <2>1. Traversed' <=> Traversed
    BY WayStays DEF CanonicalizeParent, arguments
  <2>2. Traversed \in BOOLEAN /\ Traversed' \in BOOLEAN
    BY DEF Traversed
  <2> QED
    BY <2>1, <2>2 DEF CanonicalizeParent, Inv
<1>4. ~Resolves(absolute) /\ LeadsNowhere'
  BY PathStays DEF CanonicalizeParent, Inv, arguments, LeadsNowhere
<1>5. CASE /\ Named(absolute) /\ canonical' = Place(absolute)
           /\ step' = "evaluate" /\ UNCHANGED result
  <2>1. Placed'
    BY <1>5, <1>4, PathStays DEF CanonicalizeParent, arguments, Placed
  <2> QED
    BY <1>1, <1>2, <1>3, <1>5, <2>1 DEF CanonicalizeParent, Inv, Called, arguments
<1>6. CASE ~Named(absolute) /\ Answer("path_escapes_workspace") /\ UNCHANGED canonical
  <2>1. HasNoPlace'
    BY <1>6, PathStays DEF CanonicalizeParent, arguments, HasNoPlace
  <2>2. Answered'
    BY <1>1, <1>2, <1>6, <1>4, <2>1 DEF CanonicalizeParent, Inv, Answer, Answered
  <2> QED
    BY <1>6, <2>2 DEF CanonicalizeParent, Inv, Called, Answer, arguments
<1> QED
  BY <1>5, <1>6 DEF CanonicalizeParent

\* The policy is applied to the place.
LEMMA EvaluateKeeps ==
  ASSUME Inv, Evaluate
  PROVE  Inv'
<1>1. Settled'
  BY RootStays DEF Evaluate, Inv, Settled, arguments
<1>2. MadeAbsolute'
  BY RebasedStays DEF Evaluate, Inv, MadeAbsolute, arguments
<1>3. (traversed_symlink = Traversed)'
  <2>1. Traversed' <=> Traversed
    BY WayStays DEF Evaluate, arguments
  <2>2. Traversed \in BOOLEAN /\ Traversed' \in BOOLEAN
    BY DEF Traversed
  <2> QED
    BY <2>1, <2>2 DEF Evaluate, Inv
<1>4. Placed'
  BY PathStays DEF Evaluate, Inv, arguments, Placed
<1>5. (result = PathAccess)'
  BY AccessStays DEF Evaluate, Answer, arguments
<1>6. Answered'
  BY <1>1, <1>2, <1>3, <1>4, <1>5 DEF Answered
<1> QED
  BY <1>6 DEF Evaluate, Inv, Called, Answer, arguments

\* No step at all.
LEMMA StutterKeeps ==
  ASSUME Inv, UNCHANGED vars
  PROVE  Inv'
<1>1. UNCHANGED <<tree, given_root>> /\ UNCHANGED <<tree, absolute>>
      /\ UNCHANGED <<given_root, raw, root>> /\ UNCHANGED <<tree, root, absolute>>
      /\ UNCHANGED <<root, kind, canonical, traversed_symlink>>
      /\ UNCHANGED <<step, result>>
  BY DEF vars
<1>2. Settled' <=> Settled
  BY <1>1, RootStays DEF Settled
<1>3. MadeAbsolute' <=> MadeAbsolute
  BY <1>1, RebasedStays DEF MadeAbsolute
<1>4. (traversed_symlink = Traversed)' <=> (traversed_symlink = Traversed)
  <2>1. Traversed' <=> Traversed
    BY <1>1, WayStays
  <2>2. Traversed \in BOOLEAN /\ Traversed' \in BOOLEAN
    BY DEF Traversed
  <2> QED
    BY <1>1, <2>1, <2>2
<1>5. (Placed' <=> Placed) /\ (LeadsNowhere' <=> LeadsNowhere) /\ (HasNoPlace' <=> HasNoPlace)
  BY <1>1, PathStays DEF Placed, LeadsNowhere, HasNoPlace
<1>6. Resolves(given_root)' <=> Resolves(given_root)
  BY <1>1, RootStays
<1>7. PathAccess' = PathAccess
  BY <1>1, AccessStays
<1>8. Answered' <=> Answered
  BY <1>1, <1>2, <1>3, <1>4, <1>5, <1>6, <1>7 DEF Answered
<1> QED
  BY <1>1, <1>2, <1>3, <1>4, <1>5, <1>8 DEF Inv, Called

\* What each step of judge has computed is of the arguments it was called with
\* (fs.rs:27-115).
THEOREM Invariant == Spec => []Inv
<1>1. Init => Inv
  BY Initially
<1>2. Inv /\ [Next]_vars => Inv'
  <2> SUFFICES ASSUME Inv, [Next]_vars PROVE Inv'
    OBVIOUS
  <2>1. CASE New
    BY <2>1, NewKeeps
  <2>2. CASE Rebase
    BY <2>2, RebaseKeeps
  <2>3. CASE Look
    BY <2>3, LookKeeps
  <2>4. CASE Canonicalize
    BY <2>4, CanonicalizeKeeps
  <2>5. CASE CanonicalizeParent
    BY <2>5, CanonicalizeParentKeeps
  <2>6. CASE Evaluate
    BY <2>6, EvaluateKeeps
  <2>7. CASE UNCHANGED vars
    BY <2>7, StutterKeeps
  <2> QED
    BY <2>1, <2>2, <2>3, <2>4, <2>5, <2>6, <2>7 DEF Next, Judged
<1> QED
  BY <1>1, <1>2, PTL DEF Spec

-------------------------------------------------------------------------------
(* What the answer is of.                                                     *)

\* A settled root is where the given root leads, and something is there.
LEMMA SettledIsRooted ==
  ASSUME Called, Settled
  PROVE  Rooted /\ Entry(root).kind \in {"dir", "file"}
<1>1. tree \in Trees /\ given_root \in Paths /\ raw.absolute \in BOOLEAN /\ raw.path \in Paths
  BY PathsAssumption DEF Called, Paths
<1>2. root \in Paths /\ Arrives(given_root, root)
  BY <1>1, CanonicalIsTheEnd DEF Settled, Arrives
<1> QED
  BY <1>1, <1>2, EndIsThere DEF Rooted

\* What is above a place that is there is there, and so is it; it has no ".." in it.
LEMMA AllAboveIsThere ==
  ASSUME tree \in Trees, NEW place, Entry(place).kind \in {"dir", "file"}
  PROVE  /\ place \in Paths /\ Up \notin ToSet(place)
         /\ \A i \in 1..Len(place) : Entry(SubSeq(place, 1, i)).kind \in {"dir", "file"}
<1>1. Entry(place).kind # "none"
  OBVIOUS
<1>2. place \in Paths /\ Up \notin ToSet(place) /\ Len(place) \in Nat
  BY <1>1, InADirectory DEF Paths
<1>3. \A i \in Nat : i < Len(place) => Entry(SubSeq(place, 1, i)).kind = "dir"
  BY <1>1, AboveAreDirectories
<1>4. SubSeq(place, 1, Len(place)) = place
  BY <1>2, SubSeqFull DEF Paths
<1>5. ASSUME NEW i \in 1..Len(place)
      PROVE  Entry(SubSeq(place, 1, i)).kind \in {"dir", "file"}
  <2>1. CASE i = Len(place)
    BY <1>4, <2>1
  <2>2. CASE i # Len(place)
    <3>1. i \in Nat /\ i < Len(place)
      BY <1>2, <2>2
    <3> QED
      BY <1>3, <3>1
  <2> QED
    BY <2>1, <2>2
<1> QED
  BY <1>2, <1>5

\* What is judged is a place: all but its last name is there.
LEMMA PlacedIsAPlace ==
  ASSUME tree \in Trees, absolute \in Paths, Placed
  PROVE  /\ canonical \in Paths /\ Up \notin ToSet(canonical)
         /\ \A i \in 1..Len(canonical) - 1 :
              Entry(SubSeq(canonical, 1, i)).kind \in {"dir", "file"}
<1>1. CASE Resolves(absolute)
  <2>1. canonical \in Paths /\ Arrives(absolute, canonical)
    BY <1>1, CanonicalIsTheEnd DEF Placed, Arrives
  <2>2. Entry(canonical).kind \in {"dir", "file"}
    BY <2>1, EndIsThere
  <2>3. /\ Up \notin ToSet(canonical)
        /\ \A i \in 1..Len(canonical) : Entry(SubSeq(canonical, 1, i)).kind \in {"dir", "file"}
    BY <2>2, AllAboveIsThere
  <2>4. \A i \in 1..Len(canonical) - 1 : i \in 1..Len(canonical)
    BY <2>1 DEF Paths
  <2> QED
    BY <2>1, <2>3, <2>4
<1>2. CASE ~Resolves(absolute)
  <2> DEFINE f == Front(absolute)
             e == Canonical(f)
             l == Last(absolute)
  <2>1. f \in Paths /\ Resolves(f) /\ l # Up /\ canonical = Append(e, l)
    BY <1>2, FrontOfPlace DEF Placed, Named, Place
  <2>2. absolute # <<>>
    <3> SUFFICES ASSUME absolute = <<>> PROVE FALSE
      OBVIOUS
    <3>1. f = absolute
      BY FrontOfPlace
    <3> QED
      BY <1>2, <2>1, <3>1
  <2>3. l \in Names
    BY <2>2, FrontLast DEF Paths
  <2> HIDE DEF f, l
  <2>4. e \in Paths /\ Arrives(f, e)
    BY <2>1, CanonicalIsTheEnd DEF Arrives
  <2>5. Entry(e).kind \in {"dir", "file"}
    BY <2>1, <2>4, EndIsThere
  <2> HIDE DEF e
  <2>6. /\ Up \notin ToSet(e)
        /\ \A i \in 1..Len(e) : Entry(SubSeq(e, 1, i)).kind \in {"dir", "file"}
    BY <2>5, AllAboveIsThere
  <2>7. /\ canonical \in Paths /\ Len(canonical) = Len(e) + 1 /\ Len(e) \in Nat
        /\ \A i \in 1..Len(e) : canonical[i] = e[i]
        /\ canonical[Len(e) + 1] = l
    BY <2>1, <2>3, <2>4, AppendProperties DEF Paths
  <2>8. Up \notin ToSet(canonical)
    <3> SUFFICES ASSUME NEW i \in 1..Len(canonical) PROVE canonical[i] # Up
      BY DEF ToSet
    <3>1. CASE i = Len(e) + 1
      BY <2>1, <2>7, <3>1
    <3>2. CASE i # Len(e) + 1
      <4>1. i \in 1..Len(e) /\ canonical[i] = e[i]
        BY <2>7, <3>2
      <4> QED
        BY <2>6, <4>1 DEF ToSet
    <3> QED
      BY <3>1, <3>2
  <2>9. \A i \in 1..Len(canonical) - 1 : SubSeq(canonical, 1, i) = SubSeq(e, 1, i)
    <3> TAKE i \in 1..Len(canonical) - 1
    <3>1. i \in 1..Len(e) /\ 1 \in 1..Len(e)
      BY <2>7
    <3>2. e \in Seq(Names) /\ <<l>> \in Seq(Names)
      BY <2>3, <2>4 DEF Paths
    <3>3. canonical = e \o <<l>>
      BY <2>1, <2>3, <3>2, AppendIsConcat
    <3> DEFINE n == <<l>>
    <3> HIDE DEF n
    <3>4. SubSeq(e \o n, 1, i) = SubSeq(e, 1, i)
      BY <3>1, <3>2, SubSeqOfConcat1 DEF n
    <3> QED
      BY <3>3, <3>4 DEF n
  <2>10. \A i \in 1..Len(canonical) - 1 : i \in 1..Len(e)
    BY <2>7
  <2> QED
    BY <2>6, <2>7, <2>8, <2>9, <2>10
<1> QED
  BY <1>1, <1>2

\* What is judged is a place whose parents are there, and in whose spelling
\* neither ".." nor a link is left, for every file system and however many names
\* a resolution may take (fs.rs:36-40).
THEOREM TypeCorrect == Spec => []TypeOK
<1>1. Inv => TypeOK
  <2> SUFFICES ASSUME Inv PROVE TypeOK
    OBVIOUS
  <2>1. tree \in Trees /\ Called
    BY DEF Inv, Called
  <2>2. result \in {"none", "admitted", "control_not_enforceable",
                    "path_escapes_workspace", "symlink_policy_violation",
                    "denied_path_touched", "write_outside_writable_set"}
    BY DEF Inv, Answered, PathAccess
  <2>3. root = <<>> \/ Settled
    BY DEF Inv, Answered
  <2>4. \A i \in 1..Len(root) : Entry(SubSeq(root, 1, i)).kind \in {"dir", "file"}
    <3>1. Entry(root).kind \in {"dir", "file"}
      <4>1. Entry(<<>>).kind = "dir"
        BY <2>1, TopIsDirectory
      <4>2. CASE root = <<>>
        BY <4>1, <4>2
      <4>3. CASE Settled
        BY <2>1, <4>3, SettledIsRooted
      <4> QED
        BY <2>3, <4>2, <4>3
    <3> QED
      BY <2>1, <3>1, AllAboveIsThere
  <2>5. \/ canonical = <<>>
        \/ Settled /\ MadeAbsolute /\ Placed
    BY DEF Inv, Answered
  <2>6. /\ \A i \in 1..Len(canonical) - 1 :
             Entry(SubSeq(canonical, 1, i)).kind \in {"dir", "file"}
        /\ Up \notin ToSet(canonical)
    <3>1. CASE canonical = <<>>
      BY <3>1 DEF ToSet
    <3>2. CASE Settled /\ MadeAbsolute /\ Placed
      <4>1. Rooted
        BY <2>1, <3>2, SettledIsRooted
      <4>2. absolute \in Paths
        BY <3>2, <4>1, RebasedIsAlike DEF MadeAbsolute
      <4> QED
        BY <2>1, <3>2, <4>2, PlacedIsAPlace
    <3> QED
      BY <2>5, <3>1, <3>2
  <2> QED
    BY <2>2, <2>4, <2>6 DEF TypeOK, Inv
<1> QED
  BY <1>1, Invariant, PTL

\* The place of the spelled path, or of its last name if it leads nowhere.
Destination == IF Resolves(Spelled) THEN Canonical(Spelled) ELSE Place(Spelled)

\* Where the rebased path leads is where the path leads as it was spelled.
LEMMA PlacedAtDestination ==
  ASSUME Steps = Nat, Called, Settled, MadeAbsolute
  PROVE  /\ Placed => HasPlace /\ canonical = Destination
         /\ HasPlace => ~(LeadsNowhere /\ HasNoPlace)
<1>1. Rooted /\ tree \in Trees
  BY SettledIsRooted DEF Called
<1>2. absolute \in Paths /\ Spelled \in Paths /\ Alike(Spelled, absolute)
  BY <1>1, RebasedIsAlike DEF MadeAbsolute
<1>3. /\ Resolves(Spelled) <=> Resolves(absolute)
      /\ Resolves(Spelled) => Canonical(Spelled) = Canonical(absolute)
      /\ ~Resolves(Spelled) => /\ Spelled # <<>> /\ absolute # <<>>
                               /\ Named(Spelled) <=> Named(absolute)
                               /\ Named(Spelled) => Place(Spelled) = Place(absolute)
  BY <1>1, <1>2, AlikeIsAlike
<1> QED
  BY <1>3 DEF Placed, HasPlace, Destination, LeadsNowhere, HasNoPlace

-------------------------------------------------------------------------------
(* Where the operating system lands.                                          *)

\* A walk that lands goes no further.
LEMMA LandedStays ==
  ASSUME tree \in Trees, NEW w \in Walks, Lands(w)
  PROVE  Advance(w) = w
<1>1. CASE w.todo = <<>>
  BY <1>1 DEF Advance
<1>2. CASE w.todo # <<>>
  <2> DEFINE name == Head(w.todo)
             place == Append(w.at, name)
  <2>1. name # Up /\ Entry(place).kind = "none"
    BY <1>2 DEF Lands
  <2>2. \/ name = Up
        \/ Entry(place).kind = "link"
        \/ Entry(place).kind \in {"dir", "file"}
        \/ Advance(w) = w
    <3> HIDE DEF name, place
    <3> QED
      BY <1>2, AdvanceCases DEF name, place
  <2> QED
    BY <2>1, <2>2
<1> QED
  BY <1>1, <1>2

\* The landings are of the walks that the path comes by.
LEMMA LandingsOfTheWay ==
  ASSUME Steps = Nat
  PROVE  /\ \A w : Leads(Start(Spelled), w) /\ Lands(w) => w.at \o w.todo \in Landings
         /\ \A place \in Landings :
              \E w : Leads(Start(Spelled), w) /\ Lands(w) /\ place = w.at \o w.todo
<1>1. \A w : Leads(Start(Spelled), w) <=> w \in {FromTop(Spelled)[k] : k \in Steps}
  BY DEF Leads, FromTop, Start
<1> DEFINE W == {FromTop(Spelled)[k] : k \in Steps}
<1>2. Landings = {w.at \o w.todo : w \in {x \in W : Lands(x)}}
  BY DEF Landings
<1> HIDE DEF W
<1>3. \A w : Leads(Start(Spelled), w) <=> w \in W
  BY <1>1 DEF W
<1> QED
  BY <1>2, <1>3

\* A path whose walk lands has landed there, and nowhere else.
LEMMA OneLanding ==
  ASSUME tree \in Trees, Steps = Nat, Spelled \in Paths,
         NEW w \in Walks, Leads(Start(Spelled), w), Lands(w)
  PROVE  Landings = {w.at \o w.todo}
<1>1. Start(Spelled) \in Walks
  BY EndIsPlace
<1>2. ASSUME NEW v, Leads(Start(Spelled), v), Lands(v) PROVE v = w
  <2>1. v \in Walks
    BY <1>1, <1>2, LeadsOneMore
  <2>2. Advance(v) = v /\ Advance(w) = w
    BY <1>2, <2>1, LandedStays
  <2> QED
    BY <1>1, <1>2, <2>1, <2>2, OneEnd
<1>3. w.at \o w.todo \in Landings
  BY LandingsOfTheWay
<1>4. \A place \in Landings : place = w.at \o w.todo
  BY <1>2, LandingsOfTheWay
<1> QED
  BY <1>3, <1>4

\* A path whose walk stops with more than a name to go lands nowhere.
LEMMA NoLanding ==
  ASSUME tree \in Trees, Steps = Nat, Spelled \in Paths,
         NEW u \in Walks, Leads(Start(Spelled), u), Advance(u) = u,
         u.todo # <<>>, Tail(u.todo) # <<>>
  PROVE  Landings = {}
<1>1. Start(Spelled) \in Walks
  BY EndIsPlace
<1>2. ASSUME NEW v, Leads(Start(Spelled), v), Lands(v) PROVE FALSE
  <2>1. v \in Walks
    BY <1>1, <1>2, LeadsOneMore
  <2>2. Advance(v) = v
    BY <1>2, <2>1, LandedStays
  <2>3. v = u
    BY <1>1, <1>2, <2>1, <2>2, OneEnd
  <2> QED
    BY <1>2, <2>3 DEF Lands
<1> QED
  BY <1>2, LandingsOfTheWay

\* A path that leads somewhere lands there.
LEMMA LandsAtTheEnd ==
  ASSUME tree \in Trees, Steps = Nat, Spelled \in Paths, Resolves(Spelled)
  PROVE  Landings = {Canonical(Spelled)}
<1> DEFINE c == Canonical(Spelled)
<1>1. c \in Paths /\ Leads(Start(Spelled), Done(c))
  BY CanonicalIsTheEnd
<1> HIDE DEF c
<1>2. Done(c) \in Walks /\ Lands(Done(c)) /\ Done(c).at = c /\ Done(c).todo = <<>>
  BY <1>1, EndIsPlace DEF Lands, Done
<1>3. c \o <<>> = c
  BY <1>1, ConcatEmptySeq DEF Paths
<1> QED
  BY <1>1, <1>2, <1>3, OneLanding DEF c

\* A path is what is before its last name, and that name.
LEMMA PathAndLast ==
  ASSUME NEW path \in Paths, path # <<>>
  PROVE  /\ Front(path) \in Paths /\ Last(path) \in Names /\ <<Last(path)>> \in Paths
         /\ <<Last(path)>> # <<>> /\ Tail(<<Last(path)>>) = <<>>
         /\ Head(<<Last(path)>>) = Last(path)
         /\ path = Front(path) \o <<Last(path)>>
<1>1. /\ Front(path) \in Paths /\ Last(path) \in Names
      /\ path = Append(Front(path), Last(path))
  BY FrontLast DEF Paths
<1> DEFINE f == Front(path)
           l == Last(path)
<1> HIDE DEF f, l
<1>2. <<l>> \in Paths /\ <<l>> # <<>> /\ Tail(<<l>>) = <<>> /\ Head(<<l>>) = l
  BY <1>1 DEF f, l, Paths
<1>3. Append(f, l) = f \o <<l>>
  BY <1>1, AppendIsConcat DEF f, l, Paths
<1> QED
  BY <1>1, <1>2, <1>3 DEF f, l

\* A path whose parent leads nowhere lands nowhere.
LEMMA NoParentNoLanding ==
  ASSUME tree \in Trees, Steps = Nat, Spelled \in Paths, Spelled # <<>>,
         ~Resolves(Front(Spelled))
  PROVE  Landings = {}
<1> DEFINE f == Front(Spelled)
           l == <<Last(Spelled)>>
           B == {x \in Walks : Solid(x) /\ x.todo # <<>> /\ Leads(Start(f), x)}
           S == {On(x, l) : x \in B}
<1>1. f \in Paths /\ l \in Paths /\ l # <<>> /\ Spelled = f \o l /\ ~Resolves(f)
  BY PathAndLast
<1> HIDE DEF f, l
<1>2. Start(Spelled) = On(Start(f), l) /\ Start(Spelled) \in Walks /\ Start(f) \in Walks
  BY <1>1, EndIsPlace DEF Start, On
<1>3. \A x \in Walks : Leads(Start(f), x) => x.todo # <<>>
  <2> SUFFICES ASSUME NEW x \in Walks, Leads(Start(f), x), x.todo = <<>> PROVE FALSE
    OBVIOUS
  <2>1. x.at \in Paths /\ x = Done(x.at)
    BY DEF Walks, Done
  <2> QED
    BY <1>1, <2>1, EndIsCanonical
<1>4. Start(Spelled) \in S
  <2>1. Start(f) \in B
    BY <1>1, <1>2, <1>3, TopIsSolid, LeadsOneMore
  <2> HIDE DEF B
  <2> QED
    BY <1>2, <2>1
<1>5. \A x \in B : /\ Tail(On(x, l).todo) # <<>> /\ On(x, l).todo # <<>>
                   /\ Advance(On(x, l)) \in S
  <2> SUFFICES ASSUME NEW x \in B
               PROVE  /\ Tail(On(x, l).todo) # <<>> /\ On(x, l).todo # <<>>
                      /\ Advance(On(x, l)) \in S
    OBVIOUS
  <2>1. x \in Walks /\ Solid(x) /\ x.todo # <<>> /\ Leads(Start(f), x)
    OBVIOUS
  <2>2. /\ On(x, l).todo # <<>> /\ Tail(On(x, l).todo) # <<>>
        /\ Advance(On(x, l)) = IF Filed(Advance(x)) THEN On(x, l) ELSE On(Advance(x), l)
    BY <1>1, <2>1, OnGoesAlong
  <2>3. /\ Advance(x) \in Walks /\ Solid(Advance(x)) /\ Leads(Start(f), Advance(x))
    BY <1>2, <2>1, AdvanceType, SolidStays, LeadsOneMore
  <2>4. Advance(x) \in B
    BY <1>3, <2>3
  <2> HIDE DEF B
  <2> QED
    BY <2>2, <2>4
<1> HIDE DEF B
<1>6. ASSUME NEW v, Leads(Start(Spelled), v) PROVE ~Lands(v)
  <2>1. \A w \in Walks : w \in S => Advance(w) \in S
    BY <1>5
  <2> HIDE DEF S
  <2>2. v \in S
    BY <1>2, <1>4, <1>6, <2>1, Carried
  <2> QED
    BY <1>5, <2>2 DEF S, Lands
<1> QED
  BY <1>6, LandingsOfTheWay

\* A path that leads nowhere and whose parent leads to a directory is walked down to
\* its last name, and to a file not so far.
LEMMA DownToTheLast ==
  ASSUME tree \in Trees, Steps = Nat, Spelled \in Paths, Spelled # <<>>,
         Resolves(Front(Spelled))
  PROVE  LET e == Canonical(Front(Spelled))
             l == <<Last(Spelled)>>
         IN  /\ e \in Paths /\ Entry(e).kind \in {"dir", "file"}
             /\ Entry(e).kind = "dir" => /\ From(e, l) \in Walks
                                         /\ Leads(Start(Spelled), From(e, l))
             /\ Entry(e).kind = "file" => Landings = {}
<1> DEFINE f == Front(Spelled)
           e == Canonical(f)
           l == <<Last(Spelled)>>
           d == Done(e)
<1>1. f \in Paths /\ l \in Paths /\ l # <<>> /\ Spelled = f \o l /\ Resolves(f)
  BY PathAndLast
<1> HIDE DEF f, l
<1>2. e \in Paths /\ Arrives(f, e)
  BY <1>1, CanonicalIsTheEnd DEF Arrives
<1> HIDE DEF e
<1>3. Entry(e).kind \in {"dir", "file"}
  BY <1>1, <1>2, EndIsThere
<1>4. Entry(e).kind = "dir" => From(e, l) \in Walks /\ Leads(Start(Spelled), From(e, l))
  <2>1. From(e, l) \in Walks
    BY <1>1, <1>2 DEF From, Walks
  <2> QED
    BY <1>1, <1>2, <2>1, GoesOnFromTheEnd
<1>5. ASSUME Entry(e).kind = "file" PROVE Landings = {}
  <2>1. Start(f) \in Walks /\ Solid(Start(f)) /\ ~Filed(Start(f)) /\ Leads(Start(f), d)
    BY <1>1, <1>2, TopIsSolid DEF Arrives
  <2>2. Filed(d)
    BY <1>5 DEF Filed, Done
  <2>3. On(Start(f), l) = Start(Spelled)
    BY <1>1 DEF On, Start
  <2> HIDE DEF d
  <2>4. PICK u \in Walks : /\ Leads(On(Start(f), l), u) /\ Advance(u) = u
                           /\ u.todo # <<>> /\ Tail(u.todo) # <<>>
    BY <1>1, <2>1, <2>2, GoesOn
  <2> QED
    BY <2>3, <2>4, NoLanding
<1> QED
  BY <1>2, <1>3, <1>4, <1>5 DEF e, f, l

\* A path that leads nowhere lands where its last name is put, unless that is below
\* a file or the name of a link.
LEMMA LandsAtItsPlace ==
  ASSUME tree \in Trees, Steps = Nat, Spelled \in Paths, Spelled # <<>>,
         ~Resolves(Spelled), Named(Spelled)
  PROVE  \/ Landings = {Place(Spelled)}
         \/ Landings = {} /\ Entry(Front(Place(Spelled))).kind = "file"
         \/ Place(Spelled) \in Crossed(Spelled)
<1> DEFINE e == Canonical(Front(Spelled))
           n == Last(Spelled)
           l == <<n>>
           w == From(e, l)
           p == Append(e, n)
<1>1. /\ n \in Names /\ n # Up /\ l \in Paths /\ l # <<>>
      /\ Tail(l) = <<>> /\ Head(l) = n /\ Place(Spelled) = p
  BY PathAndLast DEF Named, Place
<1>2. /\ e \in Paths /\ Entry(e).kind \in {"dir", "file"}
      /\ Entry(e).kind = "dir" => w \in Walks /\ Leads(Start(Spelled), w)
      /\ Entry(e).kind = "file" => Landings = {}
  BY DownToTheLast DEF Named
<1> HIDE DEF e, n, l
<1>3. w.at = e /\ w.todo = l
  BY DEF From
<1>4. p \in Paths /\ Front(p) = e
  BY <1>1, <1>2, FrontOfAppend, AppendProperties DEF Paths
<1>5. Entry(p).kind \in {"none", "dir", "file", "link"}
  BY EntryOf
<1> HIDE DEF w, p
<1>6. CASE Entry(e).kind = "file"
  BY <1>1, <1>2, <1>4, <1>6
<1>7. CASE Entry(e).kind = "dir" /\ Entry(p).kind = "none"
  <2>1. Lands(w)
    BY <1>1, <1>3, <1>7 DEF Lands, p
  <2>2. e \o l = p
    BY <1>1, <1>2, AppendIsConcat DEF p, l, Paths
  <2> QED
    BY <1>1, <1>2, <1>3, <1>7, <2>1, <2>2, OneLanding
<1>8. CASE Entry(e).kind = "dir" /\ Entry(p).kind = "link"
  BY <1>1, <1>2, <1>3, <1>8, ComesByCrosses DEF p
<1>9. CASE Entry(e).kind = "dir" /\ Entry(p).kind \in {"dir", "file"}
  <2>1. Start(Spelled) \in Walks /\ Leads(Start(Spelled), Advance(w))
    BY <1>2, <1>9, EndIsPlace, LeadsOneMore
  <2>2. Advance(w) = Done(p)
    BY <1>1, <1>2, <1>3, <1>9, AdvanceCases DEF p, Done
  <2> QED
    BY <1>4, <2>1, <2>2, EndIsCanonical
<1> QED
  BY <1>2, <1>5, <1>6, <1>7, <1>8, <1>9

\* The place of a path is where the system lands, if it lands anywhere, or the name of
\* a link; a path that has none lands nowhere.
LEMMA LandsAtDestination ==
  ASSUME tree \in Trees, Steps = Nat, Spelled \in Paths
  PROVE  IF HasPlace
         THEN \/ Landings = {Destination}
              \/ Landings = {} /\ Entry(Front(Destination)).kind = "file"
              \/ Destination \in Crossed(Spelled)
         ELSE Landings = {}
<1>1. CASE Resolves(Spelled)
  BY <1>1, LandsAtTheEnd DEF HasPlace, Destination
<1>2. CASE ~Resolves(Spelled) /\ Spelled # <<>> /\ Named(Spelled)
  BY <1>2, LandsAtItsPlace DEF HasPlace, Destination
<1>3. CASE ~Resolves(Spelled) /\ Spelled # <<>> /\ ~Resolves(Front(Spelled))
  BY <1>3, NoParentNoLanding DEF HasPlace, Named
<1>4. CASE Spelled = <<>>
  <2>1. Start(Spelled) = Done(Spelled) /\ Start(Spelled) \in Walks
    BY <1>4, EndIsPlace DEF Start, Done
  <2>2. Resolves(Spelled)
    BY <2>1, LeadsOneMore, EndIsCanonical
  <2> QED
    BY <1>1, <2>2
<1>5. CASE /\ ~Resolves(Spelled) /\ Spelled # <<>> /\ Last(Spelled) = Up
           /\ Resolves(Front(Spelled))
  <2> DEFINE e == Canonical(Front(Spelled))
             l == <<Last(Spelled)>>
             w == From(e, l)
  <2>1. /\ e \in Paths /\ Entry(e).kind \in {"dir", "file"}
        /\ Entry(e).kind = "dir" => w \in Walks /\ Leads(Start(Spelled), w)
        /\ Entry(e).kind = "file" => Landings = {}
    BY <1>5, DownToTheLast
  <2>2. l # <<>> /\ Tail(l) = <<>> /\ Head(l) = Up
    BY <1>5, PathAndLast
  <2> HIDE DEF e, l
  <2>3. CASE Entry(e).kind = "dir"
    <3>1. Advance(w) = Done(Front(e)) /\ Front(e) \in Paths
      BY <2>1, <2>2, FrontOfPlace DEF Advance, From, Done
    <3>2. Start(Spelled) \in Walks /\ Leads(Start(Spelled), w)
      BY <2>1, <2>3, EndIsPlace
    <3>3. Leads(Start(Spelled), Done(Front(e)))
      BY <3>1, <3>2, LeadsOneMore
    <3> QED
      BY <1>5, <3>1, <3>3, EndIsCanonical
  <2>4. CASE Entry(e).kind = "file"
    BY <1>5, <2>1, <2>4 DEF HasPlace, Named
  <2> QED
    BY <2>1, <2>3, <2>4
<1> QED
  BY <1>1, <1>2, <1>3, <1>4, <1>5 DEF Named

\* The path given back is the place where the operating system takes the caller's
\* spelling, and the policy allows it, on every file system; the name of a link
\* to nothing is judged in place of what the link leads to
\* (fs.rs:59-72, fs_policy.rs:138-165).
THEOREM AdmissionIsCorrect ==
  ASSUME Steps = Nat
  PROVE  Spec => []AdmittedIsWhereItLeads
<1>1. Inv => AdmittedIsWhereItLeads
  <2> SUFFICES ASSUME Inv, result = "admitted" PROVE AdmittedIsWhereItLeads
    BY DEF AdmittedIsWhereItLeads
  <2>1. /\ Called /\ Settled /\ MadeAbsolute /\ Placed
        /\ PathAccess = "admitted"
    BY DEF Inv, Answered
  <2>2. HasPlace /\ canonical = Destination
    BY <2>1, PlacedAtDestination
  <2>3. Allowed(canonical)
    BY <2>1 DEF PathAccess, Allowed
  <2>4. tree \in Trees /\ Spelled \in Paths
    BY <2>1, SettledIsRooted, RebasedIsAlike DEF Called
  <2>5. \/ Landings = {canonical}
        \/ Landings = {} /\ Entry(Front(canonical)).kind = "file"
        \/ canonical \in Crossed(Spelled)
    BY <2>2, <2>4, LandsAtDestination
  <2> QED
    BY <2>3, <2>5 DEF AdmittedIsWhereItLeads
<1> QED
  BY <1>1, Invariant, PTL

\* Whatever the spelling, nothing that lands where the policy allows is refused, on
\* every file system, but for the names of links to nothing (fs.rs:47-52, 59-72).
THEOREM RefusalIsCorrect ==
  ASSUME Steps = Nat
  PROVE  Spec => []RefusalIsDeserved
<1>1. Inv => RefusalIsDeserved
  <2> SUFFICES ASSUME Inv, result \notin {"none", "admitted"} PROVE RefusalIsDeserved
    BY DEF RefusalIsDeserved
  <2>1. Called /\ Answered
    BY DEF Inv
  <2>2. CASE ~Resolves(given_root)
    BY <2>2 DEF RefusalIsDeserved
  <2>3. Settled => tree \in Trees /\ Spelled \in Paths
    BY <2>1, SettledIsRooted, RebasedIsAlike DEF Called
  <2>4. CASE Settled /\ MadeAbsolute /\ LeadsNowhere /\ HasNoPlace
    <3>1. ~HasPlace
      BY <2>1, <2>4, PlacedAtDestination
    <3>2. Landings = {}
      BY <2>3, <2>4, <3>1, LandsAtDestination
    <3> QED
      BY <3>2 DEF RefusalIsDeserved
  <2>5. CASE Settled /\ MadeAbsolute /\ Placed /\ result = PathAccess
    <3>1. HasPlace /\ canonical = Destination
      BY <2>1, <2>5, PlacedAtDestination
    <3>2. ~Allowed(canonical)
      BY <2>5 DEF PathAccess, Allowed
    <3>3. \/ Landings = {canonical}
          \/ Landings = {}
          \/ canonical \in Crossed(Spelled)
      BY <2>3, <2>5, <3>1, LandsAtDestination
    <3> QED
      BY <3>2, <3>3 DEF RefusalIsDeserved
  <2> QED
    BY <2>1, <2>2, <2>4, <2>5 DEF Answered
<1> QED
  BY <1>1, Invariant, PTL

-------------------------------------------------------------------------------
(* Escapes and their links.                                                   *)

\* A path that is spelled inside the workspace, with no link on its way by the names,
\* has its place inside the workspace.
LEMMA NoLinkNoEscape ==
  ASSUME Steps = Nat, Called, Settled, MadeAbsolute, Placed,
         NamedInside(Spelled), ~Traversed
  PROVE  IsPrefix(root, canonical)
<1> DEFINE t == Below(given_root, Spelled)
           W == Walked(t)
           l == Len(t)
<1>1. /\ Rooted /\ tree \in Trees /\ root \in Paths
      /\ Entry(root).kind \in {"dir", "file"}
  BY SettledIsRooted DEF Rooted
<1>2. /\ IsPrefix(given_root, Spelled)
      /\ IsPrefix(root, given_root) => given_root = root
      /\ \A n \in 0..l : IsPrefix(root, W[n])
  BY DEF NamedInside
<1>3. t \in Paths /\ absolute = root \o t
  BY <1>1, <1>2, InsideIsRebased DEF MadeAbsolute
<1>4. l \in Nat
  BY <1>3 DEF Paths
<1>5. IsPrefix(root, absolute) /\ Below(root, absolute) = t
  <2> HIDE DEF t
  <2> QED
    BY <1>1, <1>3, ConcatIsBelow DEF Paths
<1>6. \A i \in 1..l : Entry(W[i]).kind # "link"
  <2> SUFFICES ASSUME NEW i \in 1..l, Entry(W[i]).kind = "link" PROVE FALSE
    OBVIOUS
  <2>1. IsPrefix(root, W[i])
    BY <1>2, <1>4
  <2>2. WalksThroughSymlink(t)
    BY <2>1 DEF WalksThroughSymlink
  <2> QED
    BY <1>5, <2>2 DEF Traversed
<1> HIDE DEF t
<1>7. CASE Resolves(absolute)
  <2>1. canonical \in Paths /\ Arrives(root \o t, canonical)
    BY <1>1, <1>3, <1>7, RebasedIsAlike, CanonicalIsTheEnd DEF Placed, Arrives, MadeAbsolute
  <2>2. canonical = W[l]
    BY <1>1, <1>3, <1>6, <2>1, LeadsByTheNames
  <2> QED
    BY <1>2, <1>4, <2>2
<1>8. CASE ~Resolves(absolute)
  <2>1. /\ Last(absolute) # Up /\ Resolves(Front(absolute))
        /\ canonical = Append(Canonical(Front(absolute)), Last(absolute))
    BY <1>8 DEF Placed, Named, Place
  <2>2. ASSUME t = <<>> PROVE FALSE
    <3>1. absolute = root
      BY <1>1, <1>3, <2>2, ConcatEmptySeq DEF Paths
    <3>2. Arrives(root, root)
      BY <1>1, ThereLeadsThere
    <3>3. Resolves(root)
      BY <1>1, <3>2, EndIsCanonical DEF Arrives
    <3> QED
      BY <1>8, <3>1, <3>3
  <2> DEFINE f == Front(t)
             e == Canonical(root \o f)
  <2>3. /\ f \in Paths /\ Len(f) = l - 1 /\ l # 0
        /\ Last(t) \in Names /\ Last(t) = t[l]
    BY <1>3, <2>2, FrontLast DEF Paths, Last
  <2>4. Front(absolute) = root \o f /\ Last(absolute) = Last(t) /\ root \o f \in Paths
    BY <1>1, <1>3, <2>2, <2>3, FrontOfConcat, ConcatProperties DEF Paths
  <2>5. e \in Paths /\ Arrives(root \o f, e)
    BY <1>1, <2>1, <2>4, CanonicalIsTheEnd DEF Arrives
  <2>6. \A n \in Nat : n < l => Walked(f)[n] = W[n]
    BY <1>1, <1>3, <2>2, WalkedOfFront
  <2> HIDE DEF f, e
  <2>7. \A i \in 1..Len(f) : Entry(Walked(f)[i]).kind # "link"
    <3> TAKE i \in 1..Len(f)
    <3>1. i \in Nat /\ i < l /\ i \in 1..l
      BY <1>4, <2>3
    <3>2. Walked(f)[i] = W[i]
      BY <2>6, <3>1
    <3> QED
      BY <1>6, <3>1, <3>2
  <2>8. e = Walked(f)[Len(f)]
    BY <1>1, <2>3, <2>5, <2>7, LeadsByTheNames
  <2> DEFINE m == l - 1
  <2>9. m \in Nat /\ m < l /\ m + 1 = l /\ Len(f) = m
    BY <1>4, <2>3
  <2> HIDE DEF m, l, W
  <2>10. e = W[m]
    BY <2>6, <2>8, <2>9
  <2>11. canonical = W[l]
    <3>1. W[m + 1] = Pushed(W[m], t[m + 1])
      BY <1>1, <1>3, <2>9, WalkedUnfolds DEF W, l
    <3>2. canonical = Append(e, Last(t)) /\ Last(t) # Up
      BY <2>1, <2>4 DEF e
    <3> QED
      BY <2>3, <2>9, <2>10, <3>1, <3>2 DEF Pushed
  <2>12. l \in 0..l
    BY <1>4
  <2> QED
    BY <1>2, <2>11, <2>12
<1> QED
  BY <1>7, <1>8

\* A link that the path goes through by its names is crossed by the path as it was
\* spelled; one of the workspace if it was spelled inside the workspace.
LEMMA TraversedIsCrossed ==
  ASSUME Steps = Nat, Called, Settled, MadeAbsolute, Placed, Traversed
  PROVE  /\ Crossed(Spelled) # {}
         /\ NamedInside(Spelled) =>
              \E link \in Crossed(Spelled) : IsPrefix(root, link) /\ link # root
<1> DEFINE t == Below(root, absolute)
           W == Walked(t)
           Links == {n \in 1..Len(t) : Entry(W[n]).kind = "link"}
<1>1. /\ Rooted /\ tree \in Trees /\ root \in Paths
      /\ Entry(root).kind \in {"dir", "file"}
  BY SettledIsRooted DEF Rooted
<1>2. absolute \in Paths /\ Spelled \in Paths /\ absolute = Rebased
  BY <1>1, RebasedIsAlike DEF MadeAbsolute
<1>3. IsPrefix(root, absolute) /\ t \in Paths /\ absolute = root \o t
  BY <1>1, <1>2, PrefixSplits DEF Traversed, Paths
<1>4. Links # {} /\ Links \in SUBSET Nat /\ Len(t) \in Nat
  BY <1>3 DEF Traversed, WalksThroughSymlink, Paths
<1>5. PICK n \in Links : \A k \in Links : n <= k
  <2> HIDE DEF Links
  <2> QED
    BY <1>4, Least
<1>6. n \in 1..Len(t) /\ Entry(W[n]).kind = "link"
  BY <1>5
<1>7. \A i \in 1..n - 1 : Entry(W[i]).kind # "link"
  <2> SUFFICES ASSUME NEW i \in 1..n - 1, Entry(W[i]).kind = "link" PROVE FALSE
    OBVIOUS
  <2>1. i \in 1..Len(t) /\ i < n
    BY <1>4, <1>6
  <2>2. i \in Links
    BY <2>1
  <2>3. n <= i /\ i \in Nat /\ n \in Nat
    BY <1>4, <1>5, <2>2
  <2> QED
    BY <2>1, <2>3
<1>8. t # <<>>
  BY <1>4, <1>6
<1> HIDE DEF t, Links
<1>9. \/ \E end \in Paths : Arrives(root \o t, end)
      \/ Last(t) # Up /\ \E end \in Paths : Arrives(root \o Front(t), end)
  <2>1. CASE Resolves(absolute)
    BY <1>1, <1>2, <1>3, <2>1, CanonicalIsTheEnd DEF Arrives
  <2>2. CASE ~Resolves(absolute)
    <3>1. Last(absolute) # Up /\ Resolves(Front(absolute))
      BY <2>2 DEF Placed, Named
    <3>2. Front(absolute) = root \o Front(t) /\ Last(absolute) = Last(t)
      BY <1>1, <1>3, <1>8, FrontOfConcat DEF Paths
    <3>3. Front(absolute) \in Paths
      BY <1>2, FrontOfPlace
    <3> QED
      BY <1>1, <3>1, <3>2, <3>3, CanonicalIsTheEnd DEF Arrives
  <2> QED
    BY <2>1, <2>2
<1> DEFINE x == ByNames(t, n - 1)
           link == Append(x.at, Head(x.todo))
<1>10. /\ Entry(root).kind = "dir" /\ Leads(From(root, t), x)
       /\ x \in Walks /\ x.todo # <<>> /\ W[n] = link
  BY <1>1, <1>3, <1>6, <1>7, <1>9, FirstLinkIsCrossed
<1> HIDE DEF x, W
<1>11. Leads(Start(Spelled), x)
  BY <1>1, <1>2, <1>3, <1>6, <1>10, SpelledWalksIntoIt DEF t
<1>12. link \in Crossed(Spelled)
  BY <1>1, <1>2, <1>6, <1>10, <1>11, ComesByCrosses
<1>13. ASSUME NamedInside(Spelled) PROVE IsPrefix(root, link) /\ link # root
  <2> DEFINE u == Below(given_root, Spelled)
  <2>1. /\ IsPrefix(given_root, Spelled)
        /\ IsPrefix(root, given_root) => given_root = root
        /\ \A i \in 0..Len(u) : IsPrefix(root, Walked(u)[i])
    BY <1>13 DEF NamedInside
  <2>2. u \in Paths /\ absolute = root \o u
    BY <1>1, <1>2, <2>1, InsideIsRebased
  <2> HIDE DEF u
  <2>3. Below(root, root \o u) = u
    BY <1>1, <2>2, ConcatIsBelow DEF Paths
  <2>4. u = t
    BY <2>2, <2>3 DEF t
  <2>5. IsPrefix(root, W[n])
    <3>1. n \in 0..Len(u)
      BY <1>4, <1>6, <2>4
    <3> QED
      BY <2>1, <2>4, <3>1 DEF W
  <2>6. W[n] # root
    BY <1>6, <1>10
  <2> QED
    BY <1>10, <2>5, <2>6
<1> QED
  BY <1>12, <1>13

\* An escape is blamed on a link exactly as its way goes through one, on every
\* file system (fs.rs:36-38, 91-93).
THEOREM BlameIsCorrect ==
  ASSUME Steps = Nat
  PROVE  Spec => []EscapeNamesItsLink
<1>1. Inv => EscapeNamesItsLink
  <2> SUFFICES ASSUME Inv PROVE EscapeNamesItsLink
    OBVIOUS
  <2>1. Called
    BY DEF Inv
  <2>2. ASSUME result = "path_escapes_workspace", HasPlace, NamedInside(Spelled)
        PROVE  FALSE
    <3>1. Answered
      BY <2>2 DEF Inv
    <3>2. Settled /\ MadeAbsolute /\ traversed_symlink = Traversed /\ Placed
          /\ PathAccess = "path_escapes_workspace"
      <4>1. ASSUME Settled, MadeAbsolute, LeadsNowhere, HasNoPlace PROVE FALSE
        BY <2>1, <2>2, <4>1, PlacedAtDestination
      <4> QED
        BY <2>2, <3>1, <4>1 DEF Answered
    <3>3. ~IsPrefix(root, canonical) /\ ~traversed_symlink
      BY <3>2 DEF PathAccess
    <3> QED
      BY <2>1, <2>2, <3>2, <3>3, NoLinkNoEscape
  <2>3. ASSUME result = "symlink_policy_violation"
        PROVE  /\ Crossed(Spelled) # {}
               /\ NamedInside(Spelled) =>
                    \E link \in Crossed(Spelled) : IsPrefix(root, link) /\ link # root
    <3>1. Settled /\ MadeAbsolute /\ traversed_symlink = Traversed /\ Placed
          /\ PathAccess = "symlink_policy_violation"
      BY <2>3 DEF Inv, Answered
    <3>2. traversed_symlink
      BY <3>1 DEF PathAccess
    <3> QED
      BY <2>1, <3>1, <3>2, TraversedIsCrossed
  <2> QED
    BY <2>2, <2>3 DEF EscapeNamesItsLink
<1> QED
  BY <1>1, Invariant, PTL
===============================================================================
