------------------------- MODULE EventStreamProofs -------------------------
(***************************************************************************)
(* Proofs about EventStream, for every text, every way of cutting it into  *)
(* chunks and every order of the graph's events.                           *)
(***************************************************************************)
EXTENDS EventStream, SequenceTheorems, WellFoundedInduction, TLAPS

(***************************************************************************)
(* Every set of naturals that has a member has a least one.                *)
(***************************************************************************)
LEMMA LeastNat ==
  ASSUME NEW T, T \subseteq Nat, T # {}
  PROVE  \E n \in T : \A m \in T : n <= m
<1>1. PICK n \in T : \A m \in T : <<m, n>> \notin OpToRel(<,Nat)
  BY NatLessThanWellFounded, WFMin
<1>2. \A m \in T : ~(m < n)
  BY <1>1 DEF OpToRel
<1>3. n \in Nat /\ \A m \in T : m \in Nat
  OBVIOUS
<1>4. \A m \in T : n <= m
  BY <1>2, <1>3
<1> QED
  BY <1>4

-----------------------------------------------------------------------------
(***************************************************************************)
(* The fences, read from left to right: what the scrubber has to remember  *)
(* of the first m pieces of a text.                                        *)
(***************************************************************************)

\* A fence is open after m pieces.
Within(t, m) ==
  \E i \in 1..(m - 1) : Opens(t, i) /\ \A j \in (i + 2)..(m - 1) : ~Closes(t, j)

\* The last piece may be half of the tag that matters where it stands.
HeldAfter(t, m) ==
  IF m > 0 /\ t[m].piece = (IF Within(t, m) THEN "</memory-" ELSE "<memory-")
  THEN <<m>> ELSE << >>

\* What has been let out of the first m pieces.
Released(t, m) ==
  {p \in 1..m : /\ ~Within(t, p - 1)
                /\ t[p].piece = "<memory-" => p < m /\ t[p + 1].piece # "context>"}

Elems(q) == {q[k] : k \in DOMAIN q}

Increasing(q) == \A k, l \in DOMAIN q : k < l => q[k] < q[l]

\* Nothing is open before a tag has come.
LEMMA WithinStarts == ASSUME NEW t PROVE ~Within(t, 0) /\ ~Within(t, 1)
BY DEF Within

\* A fence opens with an opening tag and closes with the first closing tag after it.
LEMMA WithinStep ==
  ASSUME NEW t, Len(t) \in Nat, NEW m \in Nat, m < Len(t)
  PROVE  Within(t, m + 1) <=> IF Within(t, m) THEN ~Closes(t, m) ELSE Opens(t, m)
<1>1. CASE Within(t, m) /\ ~Closes(t, m)
  <2>1. PICK i \in 1..(m - 1) : Opens(t, i) /\ \A j \in (i + 2)..(m - 1) : ~Closes(t, j)
    BY <1>1 DEF Within
  <2>2. i \in 1..(m + 1 - 1) /\ \A j \in (i + 2)..(m + 1 - 1) : j \in (i + 2)..(m - 1) \/ j = m
    BY <2>1
  <2>3. \A j \in (i + 2)..(m + 1 - 1) : ~Closes(t, j)
    BY <1>1, <2>1, <2>2
  <2>4. Within(t, m + 1)
    BY <2>1, <2>2, <2>3 DEF Within
  <2> QED
    BY <1>1, <2>4
<1>2. CASE Within(t, m) /\ Closes(t, m)
  <2>1. ASSUME Within(t, m + 1)
        PROVE  FALSE
    <3>1. PICK i \in 1..(m + 1 - 1) :
                 Opens(t, i) /\ \A j \in (i + 2)..(m + 1 - 1) : ~Closes(t, j)
      BY <2>1 DEF Within
    <3>2. ~(m \in (i + 2)..(m + 1 - 1))
      BY <1>2, <3>1
    <3>3. i = m \/ i + 1 = m
      BY <3>2
    <3> QED
      BY <1>2, <3>1, <3>3 DEF Opens, Closes, Tag
  <2> QED
    BY <1>2, <2>1
<1>3. CASE ~Within(t, m)
  <2>1. ASSUME Opens(t, m)
        PROVE  Within(t, m + 1)
    <3>1. m \in 1..(m + 1 - 1) /\ \A j \in (m + 2)..(m + 1 - 1) : ~Closes(t, j)
      BY <2>1 DEF Opens, Tag
    <3> QED
      BY <2>1, <3>1 DEF Within
  <2>2. ASSUME Within(t, m + 1)
        PROVE  Opens(t, m)
    <3>1. PICK i \in 1..(m + 1 - 1) :
                 Opens(t, i) /\ \A j \in (i + 2)..(m + 1 - 1) : ~Closes(t, j)
      BY <2>2 DEF Within
    <3>2. i # m => i \in 1..(m - 1) /\ \A j \in (i + 2)..(m - 1) : ~Closes(t, j)
      BY <3>1
    <3>3. i = m
      BY <1>3, <3>1, <3>2 DEF Within
    <3> QED
      BY <3>1, <3>3
  <2> QED
    BY <1>3, <2>1, <2>2
<1> QED
  BY <1>1, <1>2, <1>3

\* Where half a tag stands, a fence neither opens nor closes.
LEMMA HalfKeeps ==
  ASSUME NEW t, Len(t) \in Nat, NEW m \in 1..Len(t),
         t[m].piece \in {"<memory-", "</memory-", "word"}
  PROVE  Within(t, m) <=> Within(t, m - 1)
<1>1. m - 1 \in Nat /\ m - 1 < Len(t) /\ (m - 1) + 1 = m
  OBVIOUS
<1>2. Within(t, m) <=> IF Within(t, m - 1) THEN ~Closes(t, m - 1) ELSE Opens(t, m - 1)
  BY <1>1, WithinStep
<1>3. ~Closes(t, m - 1) /\ ~Opens(t, m - 1)
  BY <1>1 DEF Opens, Closes, Tag
<1> QED
  BY <1>2, <1>3

\* What a piece is covered by, in terms of what is open before it.
LEMMA CoveredIs ==
  ASSUME NEW t, Len(t) \in Nat, NEW p \in 1..Len(t)
  PROVE  /\ Fenced(t, p) <=> Within(t, p - 1) \/ Opens(t, p - 1) \/ Opens(t, p)
         /\ Notice(t, p) <=> Opens(t, p - 1) /\ ~Within(t, p - 2)
<1>1. ASSUME NEW i \in 1..(p - 2)
      PROVE  Covers(t, i, p) <=> Opens(t, i) /\ \A j \in (i + 2)..(p - 1 - 1) : ~Closes(t, j)
  BY p - 1 - 1 = p - 2, i <= p DEF Covers
<1>2. (\E i \in 1..(p - 2) : Covers(t, i, p)) <=> Within(t, p - 1)
  BY <1>1, p - 1 - 1 = p - 2 DEF Within
<1>3. Covers(t, p - 1, p) <=> Opens(t, p - 1)
  BY DEF Covers
<1>4. Covers(t, p, p) <=> Opens(t, p)
  BY DEF Covers
<1>5. Opens(t, p - 1) => p - 1 \in 1..p
  BY DEF Opens, Tag
<1>6. Fenced(t, p) <=> Within(t, p - 1) \/ Opens(t, p - 1) \/ Opens(t, p)
  <2>1. ASSUME Fenced(t, p)
        PROVE  Within(t, p - 1) \/ Opens(t, p - 1) \/ Opens(t, p)
    <3>1. PICK i \in 1..p : Covers(t, i, p)
      BY <2>1 DEF Fenced
    <3>2. i \in 1..(p - 2) \/ i = p - 1 \/ i = p
      OBVIOUS
    <3> QED
      BY <1>2, <1>3, <1>4, <3>1, <3>2
  <2>2. ASSUME Within(t, p - 1) \/ Opens(t, p - 1) \/ Opens(t, p)
        PROVE  Fenced(t, p)
    <3>1. (1..(p - 2)) \subseteq 1..p /\ p \in 1..p
      OBVIOUS
    <3> QED
      BY <1>2, <1>3, <1>4, <1>5, <2>2, <3>1 DEF Fenced
  <2> QED
    BY <2>1, <2>2
<1>7. ASSUME Opens(t, p - 1)
      PROVE  (\E i \in 1..(p - 2) : Covers(t, i, p - 1)) <=> Within(t, p - 2)
  <2>1. p - 1 \in 1..Len(t) /\ t[p - 1].piece = "<memory-"
    BY <1>7 DEF Opens, Tag
  <2>2. ~Opens(t, p - 2)
    BY <2>1 DEF Opens, Tag
  <2>3. ASSUME NEW i \in 1..(p - 2)
        PROVE  i \in 1..(p - 2 - 1) \/ i = p - 2
    OBVIOUS
  <2>4. ASSUME NEW i \in 1..(p - 2 - 1)
        PROVE  /\ i \in 1..(p - 2)
               /\ Covers(t, i, p - 1) <=> Opens(t, i) /\ \A j \in (i + 2)..(p - 2 - 1) : ~Closes(t, j)
    BY p - 2 - 1 = p - 1 - 2, i <= p - 1 DEF Covers
  <2>5. ~Covers(t, p - 2, p - 1)
    BY <2>2 DEF Covers
  <2> QED
    BY <2>3, <2>4, <2>5 DEF Within
<1> QED
  BY <1>3, <1>6, <1>7 DEF Notice

\* The redacted text, one position at a time.
LEMMA KeptIs ==
  ASSUME NEW t, Len(t) \in Nat, NEW p \in 1..Len(t)
  PROVE  (Notice(t, p) \/ ~Fenced(t, p)) <=> ~Within(t, p - 1) /\ ~Opens(t, p)
<1>1. CASE Opens(t, p - 1)
  <2>1. p - 1 \in 1..Len(t) /\ t[p - 1].piece = "<memory-" /\ t[p].piece = "context>"
    <3>1. p - 1 + 1 = p
      OBVIOUS
    <3> QED
      BY <1>1, <3>1 DEF Opens, Tag
  <2>2. Within(t, p - 1) <=> Within(t, p - 1 - 1)
    BY <2>1, HalfKeeps
  <2>3. p - 1 - 1 = p - 2 /\ ~Opens(t, p)
    BY <2>1 DEF Opens, Tag
  <2> QED
    BY <1>1, <2>2, <2>3, CoveredIs
<1>2. CASE ~Opens(t, p - 1)
  BY <1>2, CoveredIs
<1> QED
  BY <1>1, <1>2

-----------------------------------------------------------------------------
(***************************************************************************)
(* What is let out.                                                        *)
(***************************************************************************)

\* Only the last piece of a text and the one that comes are ever at stake.
LEMMA ReleasedGrows ==
  ASSUME NEW t, Len(t) \in Nat, NEW m \in Nat, m < Len(t)
  PROVE  \A p : p \in Released(t, m + 1) <=>
           \/ p \in Released(t, m)
           \/ p = m + 1 /\ ~Within(t, m) /\ t[m + 1].piece # "<memory-"
           \/ p = m /\ m > 0 /\ ~Within(t, m) /\ t[m].piece = "<memory-"
                /\ t[m + 1].piece # "context>"
<1>1. ASSUME NEW p \in 1..m, p # m
      PROVE  p \in Released(t, m + 1) <=> p \in Released(t, m)
  BY <1>1 DEF Released
<1>2. m + 1 \in Released(t, m + 1) <=> ~Within(t, m) /\ t[m + 1].piece # "<memory-"
  BY m + 1 - 1 = m DEF Released
<1>3. ASSUME m > 0
      PROVE  m \in Released(t, m + 1) <=>
               \/ m \in Released(t, m)
               \/ ~Within(t, m) /\ t[m].piece = "<memory-" /\ t[m + 1].piece # "context>"
  <2>1. t[m].piece = "<memory-" => (Within(t, m) <=> Within(t, m - 1))
    BY <1>3, HalfKeeps
  <2> QED
    BY <1>3, <2>1 DEF Released
<1>4. /\ \A p : p \in Released(t, m + 1) => p \in 1..m \/ p = m + 1
      /\ \A p : p \in Released(t, m) => p \in 1..m
  BY DEF Released
<1> QED
  BY <1>1, <1>2, <1>3, <1>4

\* A position is appended after all that is there.
LEMMA AppendOne ==
  ASSUME NEW q \in Seq(Nat), Increasing(q), NEW p \in Nat, \A x \in Elems(q) : x < p
  PROVE  /\ Append(q, p) \in Seq(Nat) /\ Increasing(Append(q, p))
         /\ Elems(Append(q, p)) = Elems(q) \cup {p}
<1> DEFINE L == Len(q)
           a == Append(q, p)
<1>1. /\ L \in Nat /\ DOMAIN q = 1..L
      /\ a \in Seq(Nat) /\ DOMAIN a = 1..(L + 1)
      /\ \A k \in 1..L : a[k] = q[k] /\ q[k] \in Nat
      /\ a[L + 1] = p
  BY LenProperties, AppendProperties, ElementOfSeq
<1> HIDE DEF a, L
<1>2. \A k \in 1..(L + 1) : k \in 1..L \/ k = L + 1
  BY <1>1
<1>3. ASSUME NEW k \in 1..(L + 1), NEW l \in 1..(L + 1), k < l
      PROVE  a[k] < a[l]
  <2>1. k \in 1..L
    BY <1>1, <1>3
  <2>2. CASE l \in 1..L
    BY <1>1, <1>3, <2>1, <2>2 DEF Increasing
  <2>3. CASE l = L + 1
    BY <1>1, <2>1, <2>3 DEF Elems
  <2> QED
    BY <1>2, <2>2, <2>3
<1>4. Elems(a) = Elems(q) \cup {p}
  <2>1. ASSUME NEW x \in Elems(a)
        PROVE  x \in Elems(q) \cup {p}
    <3>1. PICK k \in 1..(L + 1) : x = a[k]
      BY <1>1, <2>1 DEF Elems
    <3> QED
      BY <1>1, <1>2, <3>1 DEF Elems
  <2>2. ASSUME NEW x \in Elems(q) \cup {p}
        PROVE  x \in Elems(a)
    <3>1. CASE x = p
      BY <1>1, <3>1, L + 1 \in 1..(L + 1) DEF Elems
    <3>2. CASE x # p
      <4>1. PICK k \in 1..L : x = q[k]
        BY <1>1, <2>2, <3>2 DEF Elems
      <4> QED
        BY <1>1, <4>1, k \in 1..(L + 1) DEF Elems
    <3> QED
      BY <3>1, <3>2
  <2> QED
    BY <2>1, <2>2
<1> QED
  BY <1>1, <1>3, <1>4 DEF Increasing, a

\* The scrubber has read the first m pieces of a text, the first n of them before.
Reads(r, t, n, m) ==
  /\ r.inside \in BOOLEAN /\ (r.inside <=> Within(t, m))
  /\ r.held = HeldAfter(t, m)
  /\ r.out \in Seq(Nat) /\ Increasing(r.out)
  /\ Elems(r.out) = Released(t, m) \ Released(t, n)

LEMMA ReadingParts ==
  ASSUME NEW i, NEW h, NEW o
  PROVE  /\ Reading(i, h, o).inside = i
         /\ Reading(i, h, o).held = h
         /\ Reading(i, h, o).out = o
BY DEF Reading

LEMMA ReadsIs ==
  ASSUME NEW t, NEW n, NEW m, NEW i \in BOOLEAN, NEW h, NEW o, i <=> Within(t, m),
         h = HeldAfter(t, m), o \in Seq(Nat), Increasing(o),
         Elems(o) = Released(t, m) \ Released(t, n)
  PROVE  Reads(Reading(i, h, o), t, n, m)
<1> DEFINE r == Reading(i, h, o)
<1>1. r.inside = i /\ r.held = h /\ r.out = o
  BY ReadingParts
<1> HIDE DEF r
<1>2. r.inside \in BOOLEAN /\ (r.inside <=> Within(t, m))
  BY <1>1, Zenon
<1>3. Reads(r, t, n, m)
  BY <1>1, <1>2, Zenon DEF Reads
<1> QED
  BY <1>3 DEF r

\* It reads one more.
LEMMA StepReads ==
  ASSUME NEW t, Len(t) \in Nat, NEW n \in Nat, NEW m \in Nat, n <= m, m < Len(t),
         NEW r, Reads(r, t, n, m)
  PROVE  Reads(step(r, t, m + 1), t, n, m + 1)
<1> DEFINE piece == t[m + 1].piece
           u == step(r, t, m + 1)
           D == Released(t, m + 1)
<1>1. /\ r.inside \in BOOLEAN /\ (r.inside <=> Within(t, m))
      /\ r.held = HeldAfter(t, m)
      /\ r.out \in Seq(Nat) /\ Increasing(r.out)
      /\ Elems(r.out) = Released(t, m) \ Released(t, n)
  BY DEF Reads
<1>2. Within(t, m + 1) <=> IF Within(t, m) THEN ~Closes(t, m) ELSE Opens(t, m)
  BY WithinStep
<1>3. /\ Closes(t, m) <=> m > 0 /\ t[m].piece = "</memory-" /\ piece = "/context>"
      /\ Opens(t, m) <=> m > 0 /\ t[m].piece = "<memory-" /\ piece = "context>"
  BY DEF Closes, Opens, Tag
<1>4. r.held # << >> <=> m > 0 /\ t[m].piece = (IF Within(t, m) THEN "</memory-" ELSE "<memory-")
  BY <1>1 DEF HeldAfter
<1>5. HeldAfter(t, m + 1) =
        IF piece = (IF Within(t, m + 1) THEN "</memory-" ELSE "<memory-") THEN <<m + 1>> ELSE << >>
  BY DEF HeldAfter
<1>6. \A p : p \in D <=>
           \/ p \in Released(t, m)
           \/ p = m + 1 /\ ~Within(t, m) /\ piece # "<memory-"
           \/ p = m /\ m > 0 /\ ~Within(t, m) /\ t[m].piece = "<memory-" /\ piece # "context>"
  BY ReleasedGrows
<1>7. \A p : p \in Released(t, m) => p \in 1..m
  BY DEF Released
<1>8. \A p : p \in Released(t, n) => p \in 1..n
  BY DEF Released
<1>9. Released(t, n) \subseteq 1..n
  BY <1>8
<1> HIDE DEF piece, u, D
<1>10. CASE Within(t, m)
  <2>1. u = Inside(r, piece, m + 1)
    BY <1>1, <1>10 DEF u, piece, step
  <2>2. Within(t, m + 1) <=> ~(piece = "/context>" /\ r.held # << >>)
    BY <1>2, <1>3, <1>4, <1>10
  <2>3. D = Released(t, m)
    BY <1>6, <1>10
  <2>4. Elems(r.out) = D \ Released(t, n)
    BY <1>1, <2>3
  <2>5. CASE piece = "/context>" /\ r.held # << >>
    <3>1. u = Reading(FALSE, << >>, r.out)
      BY <2>1, <2>5 DEF Inside
    <3>2. << >> = HeldAfter(t, m + 1)
      BY <1>5, <2>2, <2>5
    <3>3. Reads(Reading(FALSE, << >>, r.out), t, n, m + 1)
      BY <1>1, <2>2, <2>4, <2>5, <3>2, ReadsIs DEF D
    <3> QED
      BY <3>1, <3>3 DEF u
  <2>6. CASE ~(piece = "/context>" /\ r.held # << >>)
    <3> DEFINE h == IF piece = "</memory-" THEN <<m + 1>> ELSE << >>
    <3>1. u = Reading(TRUE, h, r.out)
      BY <2>1, <2>6 DEF Inside
    <3>2. h = HeldAfter(t, m + 1)
      BY <1>5, <2>2, <2>6
    <3> HIDE DEF h
    <3>3. Reads(Reading(TRUE, h, r.out), t, n, m + 1)
      BY <1>1, <2>2, <2>4, <2>6, <3>2, ReadsIs DEF D
    <3> QED
      BY <3>1, <3>3 DEF u
  <2> QED
    BY <2>5, <2>6 DEF u
<1>11. CASE ~Within(t, m)
  <2> DEFINE q == r.out \o r.held
  <2>1. r.held = << >> \/ (m > 0 /\ t[m].piece = "<memory-" /\ r.held = <<m>>)
    BY <1>1, <1>4, <1>11 DEF HeldAfter
  <2>2. /\ q \in Seq(Nat) /\ Increasing(q)
        /\ Elems(q) = Elems(r.out) \cup (IF r.held = << >> THEN {} ELSE {m})
        /\ \A x \in Elems(q) : x < m + 1
    <3>1. CASE r.held = << >>
      <4>1. q = r.out
        BY <1>1, <3>1, ConcatEmptySeq
      <4> QED
        BY <1>1, <1>7, <3>1, <4>1
    <3>2. CASE m > 0 /\ t[m].piece = "<memory-" /\ r.held = <<m>>
      <4>1. m \notin Released(t, m)
        BY <3>2 DEF Released
      <4>2. \A x \in Elems(r.out) : x < m
        BY <1>1, <1>7, <4>1
      <4>3. q = Append(r.out, m)
        BY <1>1, <3>2, AppendIsConcat
      <4>4. q \in Seq(Nat) /\ Increasing(q) /\ Elems(q) = Elems(r.out) \cup {m}
        BY <1>1, <4>2, <4>3, AppendOne
      <4> QED
        <5>1. <<m>> # << >>
          OBVIOUS
        <5>2. \A x \in Elems(q) : x < m + 1
          BY <1>1, <1>7, <4>2, <4>4
        <5> QED
          BY <3>2, <4>4, <5>1, <5>2
    <3> QED
      BY <2>1, <3>1, <3>2
  <2> HIDE DEF q
  <2>3. u = Outside(r, piece, m + 1)
    BY <1>1, <1>11 DEF u, piece, step
  <2>4. CASE piece = "context>" /\ r.held # << >>
    <3> DEFINE o == Append(r.out, m + 1)
    <3>1. u = Reading(TRUE, << >>, o)
      BY <2>3, <2>4 DEF Outside
    <3>2. \A x \in Elems(r.out) : x < m + 1
      BY <1>1, <1>7
    <3>3. o \in Seq(Nat) /\ Increasing(o) /\ Elems(o) = Elems(r.out) \cup {m + 1}
      BY <1>1, <3>2, AppendOne
    <3>4. Within(t, m + 1)
      BY <1>2, <1>3, <1>4, <1>11, <2>4
    <3>5. << >> = HeldAfter(t, m + 1)
      BY <1>5, <2>4, <3>4
    <3>6. \A p : p \in D <=> p \in Released(t, m) \/ p = m + 1
      BY <1>6, <1>11, <2>4
    <3> HIDE DEF o
    <3>7. Elems(o) = D \ Released(t, n)
      BY <1>1, <1>9, <3>3, <3>6
    <3>8. Reads(Reading(TRUE, << >>, o), t, n, m + 1)
      BY <3>3, <3>4, <3>5, <3>7, ReadsIs DEF D
    <3> QED
      BY <3>1, <3>8 DEF u
  <2>5. CASE piece = "<memory-"
    <3>1. u = Reading(FALSE, <<m + 1>>, q)
      BY <2>3, <2>5 DEF Outside, q
    <3>2. ~Within(t, m + 1)
      BY <1>2, <1>3, <1>11, <2>5
    <3>3. <<m + 1>> = HeldAfter(t, m + 1)
      BY <1>5, <2>5, <3>2
    <3>4. \A p : p \in D <=> p \in Released(t, m) \/ (p = m /\ r.held # << >>)
      BY <1>4, <1>6, <1>11, <2>5
    <3>5. r.held # << >> => m \notin Released(t, n)
      BY <1>4, <1>9, <1>11 DEF Released
    <3>6. Elems(q) = D \ Released(t, n)
      BY <1>1, <2>2, <3>4, <3>5
    <3> QED
      BY <2>2, <3>1, <3>2, <3>3, <3>6, ReadsIs DEF D, u
  <2>6. CASE piece # "<memory-" /\ ~(piece = "context>" /\ r.held # << >>)
    <3> DEFINE o == Append(q, m + 1)
    <3>1. u = Reading(FALSE, << >>, o)
      BY <2>3, <2>6 DEF Outside, q
    <3>2. ~Within(t, m + 1)
      BY <1>2, <1>3, <1>4, <1>11, <2>6
    <3>3. << >> = HeldAfter(t, m + 1)
      BY <1>5, <2>6, <3>2
    <3>4. o \in Seq(Nat) /\ Increasing(o) /\ Elems(o) = Elems(q) \cup {m + 1}
      BY <2>2, AppendOne
    <3>5. \A p : p \in D <=>
             p \in Released(t, m) \/ (p = m /\ r.held # << >>) \/ p = m + 1
      BY <1>4, <1>6, <1>11, <2>6
    <3>6. r.held # << >> => m \notin Released(t, n)
      BY <1>4, <1>9, <1>11 DEF Released
    <3> HIDE DEF o
    <3>7. Elems(o) = D \ Released(t, n)
      BY <1>1, <1>9, <2>2, <3>4, <3>5, <3>6
    <3>8. Reads(Reading(FALSE, << >>, o), t, n, m + 1)
      BY <3>2, <3>3, <3>4, <3>7, ReadsIs DEF D
    <3> QED
      BY <3>1, <3>8 DEF u
  <2> QED
    BY <2>4, <2>5, <2>6
<1> QED
  BY <1>10, <1>11

-----------------------------------------------------------------------------
(***************************************************************************)
(* What feed computes.  A recursive function is one that satisfies its     *)
(* equations, once some function does.                                     *)
(***************************************************************************)

\* The scrubber after each piece that is fed.
Runs(s, t, n, f) ==
  f = [p \in n..Len(t) |-> IF p = n THEN Reading(s.inside, s.held, << >>)
                           ELSE step(f[p - 1], t, p)]

\* The same up to piece m.
RunsUpto(s, t, n, m, f) ==
  /\ f = [p \in n..m |-> f[p]]
  /\ f[n] = Reading(s.inside, s.held, << >>)
  /\ \A p \in (n + 1)..m : f[p] = step(f[p - 1], t, p)

LEMMA RunsExist ==
  ASSUME NEW s, NEW t, Len(t) \in Nat, NEW n \in Nat, n <= Len(t)
  PROVE  \E f : Runs(s, t, n, f)
<1> DEFINE L == Len(t)
           Bad == {m \in n..L : ~ \E f : RunsUpto(s, t, n, m, f)}
<1>1. \A m \in n..L : \E f : RunsUpto(s, t, n, m, f)
  <2>1. SUFFICES ASSUME Bad # {}
                 PROVE  FALSE
    OBVIOUS
  <2>2. PICK m \in Bad : \A k \in Bad : m <= k
    <3>1. Bad \subseteq Nat
      OBVIOUS
    <3> HIDE DEF Bad
    <3> QED
      BY <2>1, <3>1, LeastNat
  <2>3. m \in n..L /\ ~ \E f : RunsUpto(s, t, n, m, f)
    BY <2>2
  <2>4. m # n
    <3> DEFINE g == [p \in n..n |-> Reading(s.inside, s.held, << >>)]
    <3>1. g = [p \in n..n |-> g[p]] /\ g[n] = Reading(s.inside, s.held, << >>)
      OBVIOUS
    <3>2. (n + 1)..n = {}
      OBVIOUS
    <3> HIDE DEF g
    <3>3. RunsUpto(s, t, n, n, g)
      BY <3>1, <3>2 DEF RunsUpto
    <3> QED
      BY <2>3, <3>3
  <2>5. m - 1 \in n..L /\ ~(m <= m - 1) /\ m \in (n + 1)..L
    BY <2>3, <2>4
  <2>6. m - 1 \notin Bad
    BY <2>2, <2>5
  <2>7. PICK f : RunsUpto(s, t, n, m - 1, f)
    BY <2>5, <2>6
  <2> DEFINE g == [p \in n..m |-> IF p = m THEN step(f[m - 1], t, m) ELSE f[p]]
  <2>8. /\ g = [p \in n..m |-> g[p]]
        /\ g[m] = step(f[m - 1], t, m)
        /\ \A p \in n..(m - 1) : g[p] = f[p]
    BY <2>5
  <2> HIDE DEF g
  <2>9. n \in n..(m - 1) /\ m - 1 \in n..(m - 1)
    BY <2>5
  <2>10. g[n] = Reading(s.inside, s.held, << >>)
    BY <2>7, <2>8, <2>9 DEF RunsUpto
  <2>11. ASSUME NEW p \in (n + 1)..m
         PROVE  g[p] = step(g[p - 1], t, p)
    <3>1. CASE p = m
      BY <2>8, <2>9, <3>1
    <3>2. CASE p # m
      <4>1. p \in (n + 1)..(m - 1) /\ p \in n..(m - 1) /\ p - 1 \in n..(m - 1)
        BY <2>5, <3>2
      <4>2. f[p] = step(f[p - 1], t, p)
        BY <2>7, <4>1 DEF RunsUpto
      <4> QED
        BY <2>8, <4>1, <4>2
    <3> QED
      BY <3>1, <3>2
  <2>12. RunsUpto(s, t, n, m, g)
    BY <2>8, <2>10, <2>11 DEF RunsUpto
  <2> QED
    BY <2>3, <2>12
<1>2. L \in n..L
  OBVIOUS
<1>3. PICK f : RunsUpto(s, t, n, L, f)
  BY <1>1, <1>2
<1>4. ASSUME NEW p \in n..L
      PROVE  f[p] = IF p = n THEN Reading(s.inside, s.held, << >>) ELSE step(f[p - 1], t, p)
  <2>1. p # n => p \in (n + 1)..L
    OBVIOUS
  <2> QED
    BY <1>3, <2>1 DEF RunsUpto
<1>5. f = [p \in n..L |-> f[p]]
  BY <1>3 DEF RunsUpto
<1>6. f = [p \in n..L |-> IF p = n THEN Reading(s.inside, s.held, << >>)
                          ELSE step(f[p - 1], t, p)]
  BY <1>4, <1>5
<1> QED
  BY <1>6 DEF Runs, L

\* Fed the rest of a text, the scrubber has read it.
LEMMA FeedReads ==
  ASSUME NEW t, Len(t) \in Nat, NEW n \in Nat, n <= Len(t),
         NEW s, s.inside \in BOOLEAN, s.inside <=> Within(t, n), s.held = HeldAfter(t, n)
  PROVE  Reads(feed(s, t, n), t, n, Len(t))
<1> DEFINE L == Len(t)
           f == CHOOSE g : Runs(s, t, n, g)
<1>1. Runs(s, t, n, f)
  BY RunsExist
<1>2. feed(s, t, n) = f[L]
  BY DEF feed, Runs
<1> HIDE DEF f
<1>3. \A p \in n..L : f[p] = IF p = n THEN Reading(s.inside, s.held, << >>)
                             ELSE step(f[p - 1], t, p)
  BY <1>1 DEF Runs
<1>4. Reads(f[n], t, n, n)
  <2>1. f[n] = Reading(s.inside, s.held, << >>)
    BY <1>3, n \in n..L
  <2>2. << >> \in Seq(Nat) /\ Increasing(<< >>) /\ Elems(<< >>) = {}
    BY DEF Increasing, Elems
  <2> QED
    BY <2>1, <2>2, ReadsIs
<1> DEFINE Bad == {p \in n..L : ~Reads(f[p], t, n, p)}
<1>5. \A p \in n..L : Reads(f[p], t, n, p)
  <2>1. SUFFICES ASSUME Bad # {}
                 PROVE  FALSE
    OBVIOUS
  <2>2. PICK p \in Bad : \A k \in Bad : p <= k
    <3>1. Bad \subseteq Nat
      OBVIOUS
    <3> HIDE DEF Bad
    <3> QED
      BY <2>1, <3>1, LeastNat
  <2>3. p \in n..L /\ p # n /\ ~Reads(f[p], t, n, p)
    BY <1>4, <2>2
  <2> DEFINE m == p - 1
  <2>4. m \in Nat /\ m \in n..L /\ m < L /\ n <= m /\ ~(p <= m) /\ m + 1 = p
    BY <2>3
  <2>5. Reads(f[m], t, n, m)
    BY <2>2, <2>4
  <2>6. f[p] = step(f[m], t, p)
    BY <1>3, <2>3
  <2> HIDE DEF m
  <2>7. Reads(step(f[m], t, m + 1), t, n, m + 1)
    BY <2>4, <2>5, StepReads DEF L
  <2> QED
    BY <2>3, <2>4, <2>6, <2>7
<1> QED
  BY <1>2, <1>5, L \in n..L

-----------------------------------------------------------------------------
(***************************************************************************)
(* Texts.                                                                  *)
(***************************************************************************)

\* Half a tag that is held back comes last, and with it the text let out is the
\* redacted one.
LEMMA RedactedIs ==
  ASSUME NEW t, Len(t) \in Nat
  PROVE  LET L == Len(t)
             back == IF Within(t, L) THEN {} ELSE Elems(HeldAfter(t, L))
         IN  /\ {p \in 1..L : Notice(t, p) \/ ~Fenced(t, p)} = Released(t, L) \cup back
             /\ \A p \in Released(t, L), q \in back : p < q
<1> DEFINE L == Len(t)
           back == IF Within(t, L) THEN {} ELSE Elems(HeldAfter(t, L))
<1>1. \A q : q \in back <=> q = L /\ L > 0 /\ t[L].piece = "<memory-" /\ ~Within(t, L)
  <2>1. Elems(<< >>) = {} /\ Elems(<<L>>) = {L}
    BY DEF Elems
  <2> QED
    BY <2>1 DEF HeldAfter
<1>2. L > 0 /\ t[L].piece = "<memory-" => (Within(t, L) <=> Within(t, L - 1))
  BY HalfKeeps
<1> HIDE DEF back
<1>3. ASSUME NEW p \in 1..L
      PROVE  ~Within(t, p - 1) /\ ~Opens(t, p) <=> p \in Released(t, L) \/ p \in back
  <2>1. Opens(t, p) <=> p < L /\ t[p].piece = "<memory-" /\ t[p + 1].piece = "context>"
    BY DEF Opens, Tag
  <2>2. p \in Released(t, L) <=>
          ~Within(t, p - 1) /\ (t[p].piece = "<memory-" => p < L /\ t[p + 1].piece # "context>")
    BY DEF Released
  <2>3. CASE p = L
    BY <1>1, <1>2, <2>1, <2>2, <2>3
  <2>4. CASE p # L
    BY <1>1, <2>1, <2>2, <2>4
  <2> QED
    BY <2>3, <2>4
<1>4. Released(t, L) \subseteq 1..L /\ back \subseteq 1..L
  BY <1>1 DEF Released
<1>5. \A p \in 1..L : (Notice(t, p) \/ ~Fenced(t, p)) <=> p \in Released(t, L) \cup back
  BY <1>3, KeptIs
<1>6. {p \in 1..L : Notice(t, p) \/ ~Fenced(t, p)} = Released(t, L) \cup back
  BY <1>4, <1>5
<1>7. ASSUME NEW p \in Released(t, L), NEW q \in back
      PROVE  p < q
  BY <1>1, <1>7 DEF Released
<1> QED
  BY <1>6, <1>7 DEF back

\* What comes later in a text changes nothing of what was read of it.
LEMMA PrefixReads ==
  ASSUME NEW t, NEW u, Len(t) \in Nat, Len(u) \in Nat, Len(t) <= Len(u),
         \A p \in 1..Len(t) : u[p] = t[p]
  PROVE  /\ Within(u, Len(t)) <=> Within(t, Len(t))
         /\ HeldAfter(u, Len(t)) = HeldAfter(t, Len(t))
         /\ Released(u, Len(t)) = Released(t, Len(t))
<1> DEFINE L == Len(t)
<1>1. ASSUME NEW m \in 0..L
      PROVE  Within(u, m) <=> Within(t, m)
  <2>1. ASSUME NEW i \in 1..(m - 1)
        PROVE  (Opens(u, i) <=> Opens(t, i)) /\ (Closes(u, i) <=> Closes(t, i))
    BY DEF Opens, Closes, Tag
  <2>2. \A i \in 1..(m - 1) : \A j \in (i + 2)..(m - 1) : j \in 1..(m - 1)
    OBVIOUS
  <2> QED
    BY <2>1, <2>2 DEF Within
<1>2. HeldAfter(u, L) = HeldAfter(t, L)
  BY <1>1 DEF HeldAfter
<1>3. ASSUME NEW p \in 1..L
      PROVE  p \in Released(u, L) <=> p \in Released(t, L)
  <2>1. p - 1 \in 0..L /\ (p < L => p + 1 \in 1..L)
    OBVIOUS
  <2> QED
    BY <1>1, <2>1 DEF Released
<1>4. Released(u, L) \subseteq 1..L /\ Released(t, L) \subseteq 1..L
  BY DEF Released
<1> QED
  BY <1>1, <1>2, <1>3, <1>4

-----------------------------------------------------------------------------
(***************************************************************************)
(* The inductive invariant.                                                *)
(***************************************************************************)

Writers == Roles \cup {"supervisor"}

Written == [piece : Pieces, node : Writers]

Last == {"task_finished", "task_error"}

Frame ==
  [type : {"task_started", "node_start", "node_end", "verification_completed",
           "supervisor_decided", "token", "usage", "tool_call", "tool_result"} \cup Last,
   role : Roles \cup {"verify", "supervisor", NoRole},
   text : Seq(Nat)]

TypeInv ==
  /\ phase \in {"started", "streaming", "flushed", "finished", "failed"}
  /\ node \in Nodes \cup {NoRole}
  /\ fed \in Seq(Written) /\ Len(fed) <= MaxText
  /\ scrubber.inside \in BOOLEAN /\ scrubber.role \in Roles \cup {NoRole}
  /\ scrubber.held \in Seq(Nat) /\ Len(scrubber.held) <= 1
  /\ frames \in Seq(Frame)
  /\ \A i \in DOMAIN frames : frames[i].text # << >> <=> frames[i].type = "token"

\* While the run streams, the scrubber has read the text so far.
Scrubbed ==
  phase \in {"started", "streaming"} =>
    /\ scrubber.inside <=> Within(fed, Len(fed))
    /\ scrubber.held = HeldAfter(fed, Len(fed))
    /\ AllShown = Released(fed, Len(fed))

\* After that the text is shown, all of it or the first part.
Told ==
  /\ phase \in {"flushed", "finished"} => AllShown = Redacted
  /\ phase = "failed" =>
       AllShown \subseteq Redacted /\ \A p \in Redacted \ AllShown, q \in AllShown : q < p

\* A frame that ends the stream is the last, and there is none before the run ends.
Closed ==
  \A i \in DOMAIN frames : frames[i].type \in Last =>
    i = Len(frames) /\ phase \in {"finished", "failed"}

IInv == TypeInv /\ InOrder /\ Scrubbed /\ Told /\ Closed

\* A frame is shown: what it brings comes after what was shown.
LEMMA FrameShown ==
  ASSUME frames \in Seq(Frame), InOrder, NEW f \in Frame, frames' = Append(frames, f),
         Increasing(f.text), \A x \in AllShown, y \in Elems(f.text) : x < y
  PROVE  /\ frames' \in Seq(Frame) /\ Len(frames') = Len(frames) + 1
         /\ DOMAIN frames' = 1..(Len(frames) + 1) /\ DOMAIN frames = 1..Len(frames)
         /\ \A i \in 1..Len(frames) : frames'[i] = frames[i]
         /\ frames'[Len(frames) + 1] = f
         /\ InOrder'
         /\ AllShown' = AllShown \cup Elems(f.text)
<1> DEFINE L == Len(frames)
<1>1. /\ L \in Nat
      /\ frames' \in Seq(Frame) /\ Len(frames') = L + 1
      /\ DOMAIN frames' = 1..(L + 1) /\ DOMAIN frames = 1..L
      /\ \A i \in 1..L : frames'[i] = frames[i]
      /\ frames'[L + 1] = f
  BY LenProperties, AppendProperties
<1> HIDE DEF L
<1>2. \A i \in 1..(L + 1) : i \in 1..L \/ i = L + 1
  BY <1>1
<1>3. \A i \in 1..L : i \in 1..(L + 1) /\ i < L + 1 /\ ~(L + 1 < i)
  BY <1>1
<1>4. AllShown' = AllShown \cup Elems(f.text)
  <2>1. ASSUME NEW x \in AllShown'
        PROVE  x \in AllShown \cup Elems(f.text)
    <3>1. PICK i \in 1..(L + 1) : \E k \in DOMAIN frames'[i].text : x = frames'[i].text[k]
      BY <1>1, <2>1 DEF AllShown
    <3>2. CASE i \in 1..L
      BY <1>1, <3>1, <3>2 DEF AllShown
    <3>3. CASE i = L + 1
      BY <1>1, <3>1, <3>3 DEF Elems
    <3> QED
      BY <1>2, <3>2, <3>3
  <2>2. ASSUME NEW x \in AllShown
        PROVE  x \in AllShown'
    <3>1. PICK i \in 1..L : \E k \in DOMAIN frames[i].text : x = frames[i].text[k]
      BY <1>1, <2>2 DEF AllShown
    <3> QED
      BY <1>1, <1>3, <3>1 DEF AllShown
  <2>3. ASSUME NEW x \in Elems(f.text)
        PROVE  x \in AllShown'
    BY <1>1, <2>3, L + 1 \in 1..(L + 1) DEF AllShown, Elems
  <2> QED
    BY <2>1, <2>2, <2>3
<1>5. ASSUME NEW i \in 1..(L + 1), NEW j \in 1..(L + 1),
             NEW k \in DOMAIN frames'[i].text, NEW l \in DOMAIN frames'[j].text,
             i < j \/ (i = j /\ k < l)
      PROVE  frames'[i].text[k] < frames'[j].text[l]
  <2>1. CASE i \in 1..L /\ j \in 1..L
    BY <1>1, <1>5, <2>1 DEF InOrder
  <2>2. CASE i \in 1..L /\ j = L + 1
    <3>1. frames'[i].text[k] \in AllShown
      BY <1>1, <2>2 DEF AllShown
    <3>2. frames'[j].text[l] \in Elems(f.text)
      BY <1>1, <2>2 DEF Elems
    <3> QED
      BY <3>1, <3>2
  <2>3. CASE i = L + 1 /\ j \in 1..L
    BY <1>3, <1>5, <2>3
  <2>4. CASE i = L + 1 /\ j = L + 1
    BY <1>1, <1>5, <2>4 DEF Increasing
  <2> QED
    BY <1>2, <2>1, <2>2, <2>3, <2>4
<1>6. InOrder'
  BY <1>1, <1>5 DEF InOrder
<1> QED
  BY <1>1, <1>4, <1>6 DEF L

\* What frames says and what it leaves is kept when a frame without text is shown.
LEMMA Silent ==
  ASSUME TypeInv, InOrder, NEW type, NEW role, Shown(type, role, << >>),
         [type |-> type, role |-> role, text |-> << >>] \in Frame, type # "token"
  PROVE  /\ frames' \in Seq(Frame) /\ Len(frames') = Len(frames) + 1
         /\ DOMAIN frames' = 1..(Len(frames) + 1) /\ DOMAIN frames = 1..Len(frames)
         /\ Len(frames) \in Nat
         /\ \A i \in 1..Len(frames) : frames'[i] = frames[i]
         /\ frames'[Len(frames) + 1].type = type
         /\ InOrder' /\ AllShown' = AllShown
         /\ \A i \in DOMAIN frames' : frames'[i].text # << >> <=> frames'[i].type = "token"
<1> DEFINE f == [type |-> type, role |-> role, text |-> << >>]
<1>1. f \in Frame /\ frames' = Append(frames, f) /\ frames \in Seq(Frame)
  BY DEF Shown, TypeInv
<1>2. f.text = << >> /\ f.type = type
  OBVIOUS
<1>3. Increasing(<< >>) /\ Elems(<< >>) = {}
  BY DEF Increasing, Elems
<1> HIDE DEF f
<1>4. /\ frames' \in Seq(Frame) /\ Len(frames') = Len(frames) + 1
      /\ DOMAIN frames' = 1..(Len(frames) + 1) /\ DOMAIN frames = 1..Len(frames)
      /\ \A i \in 1..Len(frames) : frames'[i] = frames[i]
      /\ frames'[Len(frames) + 1] = f
      /\ InOrder'
      /\ AllShown' = AllShown \cup Elems(f.text)
  BY <1>1, <1>2, <1>3, FrameShown
<1>5. Len(frames) \in Nat
  BY <1>1, LenProperties
<1>6. \A i \in 1..(Len(frames) + 1) : i \in 1..Len(frames) \/ i = Len(frames) + 1
  BY <1>5
<1>7. \A i \in DOMAIN frames' : frames'[i].text # << >> <=> frames'[i].type = "token"
  BY <1>2, <1>4, <1>6 DEF TypeInv
<1> QED
  BY <1>2, <1>3, <1>4, <1>5, <1>7

\* What is let out later comes later in the text, and nothing is taken back.
LEMMA ReleasedOrder ==
  ASSUME NEW t, NEW n \in Nat, NEW m \in Nat, n <= m
  PROVE  /\ Released(t, n) \subseteq Released(t, m)
         /\ \A x \in Released(t, n), y \in Released(t, m) \ Released(t, n) : x < y
<1>1. ASSUME NEW p \in Released(t, n)
      PROVE  p \in Released(t, m)
  BY <1>1 DEF Released
<1>2. ASSUME NEW x \in Released(t, n), NEW y \in Released(t, m), y \notin Released(t, n)
      PROVE  x < y
  <2>1. x \in 1..n /\ y \in 1..m
    BY <1>2 DEF Released
  <2>2. y < n => y \in Released(t, n)
    BY <1>2 DEF Released
  <2>3. x # y
    BY <1>2
  <2> QED
    BY <1>2, <2>1, <2>2, <2>3
<1> QED
  BY <1>1, <1>2

LEMMA RoleType == ASSUME NEW n PROVE RoleOf(n) \in Roles \cup {NoRole}
<1>1. CASE n \in Roles
  BY <1>1 DEF RoleOf, Roles
<1>2. CASE n \notin Roles /\ n = "developer_tools"
  BY <1>2 DEF RoleOf, Roles
<1>3. CASE n \notin Roles /\ n # "developer_tools"
  BY <1>3 DEF RoleOf, Roles
<1> QED
  BY <1>1, <1>2, <1>3

-----------------------------------------------------------------------------
(***************************************************************************)
(* Every step keeps the invariant.                                         *)
(***************************************************************************)

LEMMA InitInv == ASSUME Init PROVE IInv
<1> DEFINE f == [type |-> "task_started", role |-> NoRole, text |-> << >>]
<1>1. phase = "started" /\ node = NoRole /\ fed = << >> /\ scrubber = Fresh /\ frames = <<f>>
  BY DEF Init
<1>2. /\ scrubber.inside = FALSE /\ scrubber.held = << >> /\ scrubber.role = NoRole
  BY <1>1 DEF Fresh
<1>3. f \in Frame /\ f.type = "task_started" /\ f.text = << >>
  BY DEF Frame
<1> HIDE DEF f
<1>4. Len(frames) = 1 /\ DOMAIN frames = {1} /\ frames[1] = f /\ frames \in Seq(Frame)
  BY <1>1, <1>3
<1>5. Len(fed) = 0 /\ fed \in Seq(Written)
  BY <1>1
<1>6. TypeInv
  <2>1. Len(scrubber.held) = 0 /\ scrubber.held \in Seq(Nat)
    BY <1>2
  <2>2. \A i \in DOMAIN frames : frames[i].text # << >> <=> frames[i].type = "token"
    BY <1>3, <1>4
  <2>3. Len(fed) <= MaxText
    BY <1>5, StreamAssumption
  <2>4. Len(scrubber.held) <= 1
    BY <2>1
  <2>5. scrubber.inside \in BOOLEAN
    BY <1>2
  <2> QED
    BY <1>1, <1>2, <1>4, <1>5, <2>1, <2>2, <2>3, <2>4, <2>5 DEF TypeInv
<1>7. \A i \in DOMAIN frames : DOMAIN frames[i].text = {}
  BY <1>3, <1>4
<1>8. InOrder /\ AllShown = {}
  BY <1>7 DEF InOrder, AllShown
<1>9. ~Within(fed, 0) /\ HeldAfter(fed, 0) = << >> /\ Released(fed, 0) = {}
  BY WithinStarts DEF HeldAfter, Released
<1>10. Scrubbed
  BY <1>2, <1>5, <1>8, <1>9 DEF Scrubbed
<1>11. Told
  BY <1>1 DEF Told
<1>12. Closed
  BY <1>3, <1>4 DEF Closed, Last
<1> QED
  BY <1>6, <1>8, <1>10, <1>11, <1>12 DEF IInv

\* Frames without text come and go as the graph's nodes do.
LEMMA Onward ==
  ASSUME IInv, Room, node' \in Nodes \cup {NoRole}, UNCHANGED <<phase, fed, scrubber>>,
         \/ UNCHANGED frames
         \/ \E type, role : /\ Shown(type, role, << >>)
                            /\ [type |-> type, role |-> role, text |-> << >>] \in Frame
                            /\ type \notin Last \cup {"token"}
  PROVE  IInv'
<1>1. TypeInv /\ InOrder /\ Scrubbed /\ Told /\ Closed /\ phase = "streaming"
  BY DEF IInv, Room
<1>2. CASE UNCHANGED frames
  <2>1. AllShown' = AllShown /\ InOrder'
    BY <1>1, <1>2 DEF AllShown, InOrder
  <2>2. TypeInv'
    BY <1>1, <1>2 DEF TypeInv
  <2>3. Scrubbed' /\ Told' /\ Closed'
    BY <1>1, <1>2, <2>1 DEF Scrubbed, Told, Closed
  <2> QED
    BY <2>1, <2>2, <2>3 DEF IInv
<1>3. ASSUME NEW type, NEW role, Shown(type, role, << >>),
             [type |-> type, role |-> role, text |-> << >>] \in Frame,
             type \notin Last \cup {"token"}
      PROVE  IInv'
  <2>1. /\ frames' \in Seq(Frame) /\ Len(frames') = Len(frames) + 1
        /\ DOMAIN frames' = 1..(Len(frames) + 1) /\ DOMAIN frames = 1..Len(frames)
        /\ Len(frames) \in Nat
        /\ \A i \in 1..Len(frames) : frames'[i] = frames[i]
        /\ frames'[Len(frames) + 1].type = type
        /\ InOrder' /\ AllShown' = AllShown
        /\ \A i \in DOMAIN frames' : frames'[i].text # << >> <=> frames'[i].type = "token"
    BY <1>1, <1>3, Silent
  <2>2. TypeInv'
    BY <1>1, <2>1 DEF TypeInv
  <2>3. Scrubbed' /\ Told'
    BY <1>1, <2>1 DEF Scrubbed, Told
  <2>4. \A i \in 1..Len(frames) : frames[i].type \notin Last
    BY <1>1, <2>1 DEF Closed
  <2>5. \A i \in 1..(Len(frames) + 1) : i \in 1..Len(frames) \/ i = Len(frames) + 1
    BY <2>1
  <2>6. Closed'
    BY <1>3, <2>1, <2>4, <2>5 DEF Closed
  <2> QED
    BY <2>1, <2>2, <2>3, <2>6 DEF IInv
<1> QED
  BY <1>2, <1>3

LEMMA NodeStartsInv ==
  ASSUME IInv, NEW n \in Nodes, NodeStarts(n)
  PROVE  IInv'
<1>1. Room /\ node' = n /\ UNCHANGED <<phase, fed, scrubber>>
  BY DEF NodeStarts
<1>2. CASE n \in Roles
  <2>1. Shown("node_start", n, << >>)
    BY <1>2 DEF NodeStarts
  <2>2. [type |-> "node_start", role |-> n, text |-> << >>] \in Frame
    BY <1>2 DEF Frame
  <2>3. "node_start" \notin Last \cup {"token"}
    BY DEF Last
  <2> QED
    BY <1>1, <2>1, <2>2, <2>3, Onward
<1>3. CASE n \notin Roles
  <2>1. UNCHANGED frames
    BY <1>3 DEF NodeStarts
  <2> QED
    BY <1>1, <2>1, Onward
<1> QED
  BY <1>2, <1>3

LEMMA NodeEndsInv == ASSUME IInv, NodeEnds PROVE IInv'
<1>1. Room /\ node' = NoRole /\ UNCHANGED <<phase, fed, scrubber>>
  BY DEF NodeEnds
<1>2. node \in Roles \cup {"developer_tools", "verify", "supervisor"} /\ node # NoRole
  BY StreamAssumption DEF NodeEnds, IInv, TypeInv
<1>3. CASE node \in Roles
  <2>1. Shown("node_end", node, << >>)
    BY <1>3 DEF NodeEnds
  <2>2. [type |-> "node_end", role |-> node, text |-> << >>] \in Frame
    BY <1>3 DEF Frame
  <2>3. "node_end" \notin Last \cup {"token"}
    BY DEF Last
  <2> QED
    BY <1>1, <2>1, <2>2, <2>3, Onward
<1>4. CASE node \notin Roles /\ UNCHANGED frames
  BY <1>1, <1>4, Onward
<1>5. CASE node \notin Roles /\ ~UNCHANGED frames
  <2>1. node # "developer_tools" /\ Shown(Outcome(node), node, << >>)
    BY <1>5 DEF NodeEnds
  <2>2. /\ [type |-> Outcome(node), role |-> node, text |-> << >>] \in Frame
        /\ Outcome(node) \notin Last \cup {"token"}
    BY <1>2, <1>5, <2>1 DEF Frame, Outcome, Last
  <2> QED
    BY <1>1, <2>1, <2>2, Onward
<1> QED
  BY <1>3, <1>4, <1>5

LEMMA UsageInv == ASSUME IInv, Usage PROVE IInv'
<1>1. Room /\ node' = node /\ UNCHANGED <<phase, fed, scrubber>> /\ Shown("usage", RoleOf(node), << >>)
  BY DEF Usage
<1>2. [type |-> "usage", role |-> RoleOf(node), text |-> << >>] \in Frame
  BY RoleType DEF Frame
<1>3. "usage" \notin Last \cup {"token"} /\ node' \in Nodes \cup {NoRole}
  BY <1>1 DEF Last, IInv, TypeInv
<1> QED
  BY <1>1, <1>2, <1>3, Onward

LEMMA ToolInv ==
  ASSUME IInv, NEW type \in {"tool_call", "tool_result"}, Tool(type)
  PROVE  IInv'
<1>1. Room /\ node' = node /\ UNCHANGED <<phase, fed, scrubber>> /\ Shown(type, RoleOf(node), << >>)
  BY DEF Tool
<1>2. [type |-> type, role |-> RoleOf(node), text |-> << >>] \in Frame
  BY RoleType DEF Frame
<1>3. type \notin Last \cup {"token"} /\ node' \in Nodes \cup {NoRole}
  BY <1>1 DEF Last, IInv, TypeInv
<1> QED
  BY <1>1, <1>2, <1>3, Onward

LEMMA StartsInv == ASSUME IInv, Starts PROVE IInv'
<1>1. phase = "started" /\ phase' = "streaming" /\ UNCHANGED <<node, fed, scrubber, frames>>
  BY DEF Starts
<1>2. AllShown' = AllShown /\ InOrder' /\ Redacted' = Redacted
  BY <1>1 DEF IInv, AllShown, InOrder, Redacted
<1>3. TypeInv'
  BY <1>1 DEF IInv, TypeInv
<1>4. Scrubbed' /\ Told'
  BY <1>1, <1>2 DEF IInv, Scrubbed, Told
<1>5. Closed'
  BY <1>1 DEF IInv, Closed
<1> QED
  BY <1>2, <1>3, <1>4, <1>5 DEF IInv

LEMMA TokenInv ==
  ASSUME IInv, NEW chunk \in Chunks, Token(chunk)
  PROVE  IInv'
<1> DEFINE L == Len(fed)
           M == Len(fed')
           add == [k \in DOMAIN chunk |-> [piece |-> chunk[k], node |-> node]]
           s == feed(scrubber, fed', L)
           f == [type |-> "token", role |-> RoleOf(node), text |-> s.out]
<1>1. TypeInv /\ InOrder /\ Scrubbed /\ Told /\ Closed
  BY DEF IInv
<1>2. /\ phase = "streaming" /\ phase' = phase /\ node' = node /\ node \in Writers
      /\ L + Len(chunk) <= MaxText
      /\ fed' = fed \o add
      /\ scrubber' = [inside |-> s.inside, held |-> s.held, role |-> RoleOf(node)]
      /\ IF s.out # << >> THEN Shown("token", RoleOf(node), s.out) ELSE UNCHANGED frames
  BY DEF Token, Room, Writers
<1>3. /\ fed' \in Seq(Written) /\ L \in Nat /\ M \in Nat /\ L <= M /\ M <= MaxText
      /\ \A p \in 1..L : fed'[p] = fed[p]
  <2>1. PICK n \in 1..MaxChunk : chunk \in [1..n -> Pieces]
    BY DEF Chunks
  <2>2. n \in Nat
    BY StreamAssumption
  <2>3. chunk \in Seq(Pieces) /\ Len(chunk) = n /\ DOMAIN chunk = 1..n
    BY <2>1, <2>2
  <2>4. \A k \in 1..n : [piece |-> chunk[k], node |-> node] \in Written
    BY <1>2, <2>1 DEF Written
  <2>5. add \in Seq(Written) /\ Len(add) = n
    BY <2>2, <2>3, <2>4
  <2>6. fed \in Seq(Written) /\ L \in Nat
    BY <1>1, LenProperties DEF TypeInv
  <2> HIDE DEF add
  <2>7. /\ fed' \in Seq(Written) /\ M = L + n
        /\ \A p \in 1..(L + n) : fed'[p] = IF p <= L THEN fed[p] ELSE add[p - L]
    BY <1>2, <2>5, <2>6, ConcatProperties
  <2>8. \A p \in 1..L : p \in 1..(L + n) /\ p <= L
    BY <2>2, <2>6
  <2>9. M \in Nat /\ L <= M /\ M <= MaxText
    BY <1>2, <2>2, <2>3, <2>6, <2>7
  <2> QED
    BY <2>6, <2>7, <2>8, <2>9
<1> HIDE DEF add
<1>4. /\ Within(fed', L) <=> Within(fed, L)
      /\ HeldAfter(fed', L) = HeldAfter(fed, L)
      /\ Released(fed', L) = Released(fed, L)
  BY <1>3, PrefixReads
<1>5. /\ scrubber.inside <=> Within(fed', L)
      /\ scrubber.held = HeldAfter(fed', L)
      /\ AllShown = Released(fed', L)
      /\ scrubber.inside \in BOOLEAN
  BY <1>1, <1>2, <1>4 DEF Scrubbed, TypeInv
<1>6. Reads(s, fed', L, M)
  BY <1>3, <1>5, FeedReads
<1> HIDE DEF s, L, M
<1>7. /\ s.inside \in BOOLEAN /\ (s.inside <=> Within(fed', M))
      /\ s.held = HeldAfter(fed', M)
      /\ s.out \in Seq(Nat) /\ Increasing(s.out)
      /\ Elems(s.out) = Released(fed', M) \ Released(fed', L)
  BY <1>6 DEF Reads
<1>8. /\ Released(fed', L) \subseteq Released(fed', M)
      /\ \A x \in Released(fed', L), y \in Released(fed', M) \ Released(fed', L) : x < y
  BY <1>3, ReleasedOrder
<1>9. /\ scrubber'.inside = s.inside /\ scrubber'.held = s.held /\ scrubber'.role = RoleOf(node)
  BY <1>2
<1>10. s.held \in Seq(Nat) /\ Len(s.held) <= 1
  <2>1. << >> \in Seq(Nat) /\ Len(<< >>) = 0 /\ <<M>> \in Seq(Nat) /\ Len(<<M>>) = 1
    BY <1>3
  <2>2. s.held = << >> \/ s.held = <<M>>
    BY <1>7 DEF HeldAfter
  <2>3. CASE s.held = << >>
    BY <2>1, <2>3
  <2>4. CASE s.held = <<M>>
    BY <2>1, <2>4
  <2> QED
    BY <2>2, <2>3, <2>4
<1>11. /\ frames' \in Seq(Frame) /\ InOrder' /\ AllShown' = Released(fed', M)
       /\ \A i \in DOMAIN frames' : frames'[i].text # << >> <=> frames'[i].type = "token"
       /\ Closed'
  <2>1. frames \in Seq(Frame) /\ DOMAIN frames = 1..Len(frames) /\ Len(frames) \in Nat
        /\ \A i \in DOMAIN frames : frames[i].text # << >> <=> frames[i].type = "token"
    BY <1>1, LenProperties DEF TypeInv
  <2>2. \A i \in DOMAIN frames : frames[i].type \notin Last
    BY <1>1, <1>2 DEF Closed
  <2>3. CASE s.out = << >>
    <3>1. UNCHANGED frames
      BY <1>2, <2>3
    <3>2. Elems(s.out) = {}
      BY <2>3 DEF Elems
    <3>3. AllShown' = AllShown /\ InOrder' /\ Closed'
      BY <1>1, <1>2, <3>1 DEF AllShown, InOrder, Closed
    <3>4. Released(fed', M) = Released(fed', L)
      BY <1>7, <1>8, <3>2
    <3> QED
      BY <1>5, <2>1, <3>1, <3>3, <3>4
  <2>4. CASE s.out # << >>
    <3>1. frames' = Append(frames, f)
      BY <1>2, <2>4 DEF Shown
    <3>2. f \in Frame /\ f.text = s.out /\ f.type = "token"
      BY <1>7, RoleType DEF Frame
    <3> HIDE DEF f
    <3>3. /\ frames' \in Seq(Frame) /\ Len(frames') = Len(frames) + 1
          /\ DOMAIN frames' = 1..(Len(frames) + 1)
          /\ \A i \in 1..Len(frames) : frames'[i] = frames[i]
          /\ frames'[Len(frames) + 1] = f
          /\ InOrder'
          /\ AllShown' = AllShown \cup Elems(f.text)
      BY <1>1, <1>5, <1>7, <1>8, <2>1, <3>1, <3>2, FrameShown
    <3>4. AllShown' = Released(fed', M)
      BY <1>5, <1>7, <1>8, <3>2, <3>3
    <3>5. \A i \in 1..(Len(frames) + 1) : i \in 1..Len(frames) \/ i = Len(frames) + 1
      BY <2>1
    <3>6. \A i \in DOMAIN frames' : frames'[i].text # << >> <=> frames'[i].type = "token"
      BY <2>1, <2>4, <3>2, <3>3, <3>5
    <3>7. \A i \in DOMAIN frames' : frames'[i].type \notin Last
      BY <2>1, <2>2, <3>2, <3>3, <3>5 DEF Last
    <3>8. Closed'
      BY <3>7 DEF Closed
    <3> QED
      BY <3>3, <3>4, <3>6, <3>8
  <2> QED
    BY <2>3, <2>4
<1>12. TypeInv'
  <2>1. scrubber'.inside \in BOOLEAN
    BY <1>7, <1>9
  <2>2. scrubber'.held \in Seq(Nat) /\ Len(scrubber'.held) <= 1
    BY <1>9, <1>10
  <2>3. scrubber'.role \in Roles \cup {NoRole}
    BY <1>9, RoleType
  <2>4. Len(fed') <= MaxText
    BY <1>3 DEF M
  <2> QED
    BY <1>1, <1>2, <1>3, <1>11, <2>1, <2>2, <2>3, <2>4 DEF TypeInv
<1>13. Scrubbed'
  <2>1. scrubber'.inside <=> Within(fed', M)
    BY <1>7, <1>9
  <2>2. scrubber'.held = HeldAfter(fed', M)
    BY <1>7, <1>9
  <2> QED
    BY <1>11, <2>1, <2>2 DEF Scrubbed, M
<1>14. Told'
  BY <1>2 DEF Told
<1> QED
  BY <1>11, <1>12, <1>13, <1>14 DEF IInv

\* Until the stream ends, what is held back is the rest of the redacted text.
LEMMA RestIs ==
  ASSUME IInv, phase \in {"started", "streaming"}
  PROVE  /\ Redacted = AllShown \cup HeldBack
         /\ \A p \in AllShown, q \in HeldBack : p < q
<1> DEFINE L == Len(fed)
           back == IF Within(fed, L) THEN {} ELSE Elems(HeldAfter(fed, L))
<1>1. L \in Nat
  BY LenProperties DEF IInv, TypeInv
<1>2. /\ Redacted = Released(fed, L) \cup back
      /\ \A p \in Released(fed, L), q \in back : p < q
  BY <1>1, RedactedIs DEF Redacted
<1>3. AllShown = Released(fed, L) /\ HeldBack = back
  BY DEF IInv, Scrubbed, HeldBack, Elems
<1> QED
  BY <1>2, <1>3

LEMMA StreamEndsInv == ASSUME IInv, StreamEnds PROVE IInv'
<1> DEFINE f == [type |-> "token", role |-> scrubber.role, text |-> scrubber.held]
<1>1. TypeInv /\ InOrder /\ Closed
  BY DEF IInv
<1>2. /\ phase = "streaming" /\ phase' = "flushed" /\ UNCHANGED <<node, fed>>
      /\ scrubber' = Fresh
  BY DEF StreamEnds
<1>3. /\ frames \in Seq(Frame) /\ DOMAIN frames = 1..Len(frames) /\ Len(frames) \in Nat
      /\ \A i \in DOMAIN frames : frames[i].text # << >> <=> frames[i].type = "token"
  BY <1>1, LenProperties DEF TypeInv
<1>4. \A i \in DOMAIN frames : frames[i].type \notin Last
  BY <1>1, <1>2 DEF Closed
<1>5. /\ Redacted = AllShown \cup HeldBack
      /\ \A p \in AllShown, q \in HeldBack : p < q
  BY <1>2, RestIs
<1>6. Redacted' = Redacted
  BY <1>2 DEF Redacted
<1>7. /\ frames' \in Seq(Frame) /\ InOrder' /\ AllShown' = Redacted /\ Closed'
      /\ \A i \in DOMAIN frames' : frames'[i].text # << >> <=> frames'[i].type = "token"
  <2>1. CASE scrubber.inside \/ scrubber.held = << >>
    <3>1. UNCHANGED frames
      BY <2>1 DEF StreamEnds
    <3>2. HeldBack = {}
      BY <2>1 DEF HeldBack
    <3>3. AllShown' = AllShown /\ InOrder'
      BY <1>1, <3>1 DEF AllShown, InOrder
    <3>4. Closed'
      BY <1>4, <3>1 DEF Closed
    <3> QED
      BY <1>3, <1>5, <3>1, <3>2, <3>3, <3>4
  <2>2. CASE ~scrubber.inside /\ scrubber.held # << >>
    <3>1. frames' = Append(frames, f)
      BY <2>2 DEF StreamEnds, Shown
    <3>2. f \in Frame /\ f.text = scrubber.held /\ f.type = "token"
      BY <1>1 DEF Frame, TypeInv
    <3>3. Elems(f.text) = HeldBack
      BY <2>2, <3>2 DEF HeldBack, Elems
    <3>4. Increasing(f.text)
      <4>1. \A k, l \in DOMAIN scrubber.held : ~(k < l)
        <5>1. /\ DOMAIN scrubber.held = 1..Len(scrubber.held)
              /\ Len(scrubber.held) \in Nat /\ Len(scrubber.held) <= 1
          BY <1>1, LenProperties DEF TypeInv
        <5> QED
          BY <5>1
      <4> QED
        BY <3>2, <4>1 DEF Increasing
    <3> HIDE DEF f
    <3>5. /\ frames' \in Seq(Frame) /\ Len(frames') = Len(frames) + 1
          /\ DOMAIN frames' = 1..(Len(frames) + 1)
          /\ \A i \in 1..Len(frames) : frames'[i] = frames[i]
          /\ frames'[Len(frames) + 1] = f
          /\ InOrder'
          /\ AllShown' = AllShown \cup Elems(f.text)
      BY <1>1, <1>3, <1>5, <3>1, <3>2, <3>3, <3>4, FrameShown
    <3>6. \A i \in 1..(Len(frames) + 1) : i \in 1..Len(frames) \/ i = Len(frames) + 1
      BY <1>3
    <3>7. \A i \in DOMAIN frames' : frames'[i].text # << >> <=> frames'[i].type = "token"
      BY <1>3, <2>2, <3>2, <3>5, <3>6
    <3>8. \A i \in DOMAIN frames' : frames'[i].type \notin Last
      BY <1>3, <1>4, <3>2, <3>5, <3>6 DEF Last
    <3>9. Closed'
      BY <3>8 DEF Closed
    <3> QED
      BY <1>5, <3>3, <3>5, <3>7, <3>9
  <2> QED
    BY <2>1, <2>2
<1>8. TypeInv'
  <2>1. /\ scrubber'.inside = FALSE /\ scrubber'.held = << >> /\ scrubber'.role = NoRole
    BY <1>2 DEF Fresh
  <2>2. scrubber'.inside \in BOOLEAN
    BY <2>1
  <2>3. scrubber'.held \in Seq(Nat) /\ Len(scrubber'.held) <= 1
    BY <2>1
  <2> QED
    BY <1>1, <1>2, <1>7, <2>1, <2>2, <2>3 DEF TypeInv
<1>9. Scrubbed'
  BY <1>2 DEF Scrubbed
<1>10. Told'
  BY <1>2, <1>6, <1>7 DEF Told
<1> QED
  BY <1>7, <1>8, <1>9, <1>10 DEF IInv

\* The frame that ends the stream brings no text.
LEMMA EndsWith ==
  ASSUME IInv, NEW type \in Last, phase \in {"streaming", "flushed"},
         phase' \in {"finished", "failed"}, Shown(type, NoRole, << >>)
  PROVE  /\ frames' \in Seq(Frame) /\ InOrder' /\ AllShown' = AllShown /\ Closed'
         /\ \A i \in DOMAIN frames' : frames'[i].text # << >> <=> frames'[i].type = "token"
<1>1. TypeInv /\ InOrder /\ Closed
  BY DEF IInv
<1>2. [type |-> type, role |-> NoRole, text |-> << >>] \in Frame /\ type # "token"
  BY DEF Frame, Last
<1>3. /\ frames' \in Seq(Frame) /\ Len(frames') = Len(frames) + 1
      /\ DOMAIN frames' = 1..(Len(frames) + 1) /\ DOMAIN frames = 1..Len(frames)
      /\ Len(frames) \in Nat
      /\ \A i \in 1..Len(frames) : frames'[i] = frames[i]
      /\ frames'[Len(frames) + 1].type = type
      /\ InOrder' /\ AllShown' = AllShown
      /\ \A i \in DOMAIN frames' : frames'[i].text # << >> <=> frames'[i].type = "token"
  BY <1>1, <1>2, Silent
<1>4. \A i \in 1..Len(frames) : frames[i].type \notin Last
  BY <1>1, <1>3 DEF Closed
<1>5. \A i \in 1..(Len(frames) + 1) : i \in 1..Len(frames) \/ i = Len(frames) + 1
  BY <1>3
<1>6. Closed'
  BY <1>3, <1>4, <1>5 DEF Closed
<1> QED
  BY <1>3, <1>6

LEMMA FinishesInv == ASSUME IInv, Finishes PROVE IInv'
<1>1. /\ phase = "flushed" /\ phase' = "finished" /\ UNCHANGED <<node, fed, scrubber>>
      /\ Shown("task_finished", NoRole, << >>)
  BY DEF Finishes
<1>2. /\ frames' \in Seq(Frame) /\ InOrder' /\ AllShown' = AllShown /\ Closed'
      /\ \A i \in DOMAIN frames' : frames'[i].text # << >> <=> frames'[i].type = "token"
  BY <1>1, EndsWith DEF Last
<1>3. Redacted' = Redacted
  BY <1>1 DEF Redacted
<1>4. TypeInv'
  BY <1>1, <1>2 DEF IInv, TypeInv
<1>5. Scrubbed' /\ Told'
  BY <1>1, <1>2, <1>3 DEF IInv, Scrubbed, Told
<1> QED
  BY <1>2, <1>4, <1>5 DEF IInv

LEMMA FailsInv == ASSUME IInv, Fails PROVE IInv'
<1>1. /\ phase \in {"streaming", "flushed"} /\ phase' = "failed"
      /\ UNCHANGED <<node, fed, scrubber>> /\ Shown("task_error", NoRole, << >>)
  BY DEF Fails
<1>2. /\ frames' \in Seq(Frame) /\ InOrder' /\ AllShown' = AllShown /\ Closed'
      /\ \A i \in DOMAIN frames' : frames'[i].text # << >> <=> frames'[i].type = "token"
  BY <1>1, EndsWith DEF Last
<1>3. Redacted' = Redacted
  BY <1>1 DEF Redacted
<1>4. AllShown \subseteq Redacted /\ \A p \in Redacted \ AllShown, q \in AllShown : q < p
  <2>1. CASE phase = "streaming"
    BY <2>1, RestIs
  <2>2. CASE phase = "flushed"
    BY <2>2 DEF IInv, Told
  <2> QED
    BY <1>1, <2>1, <2>2
<1>5. TypeInv'
  BY <1>1, <1>2 DEF IInv, TypeInv
<1>6. Scrubbed' /\ Told'
  BY <1>1, <1>2, <1>3, <1>4 DEF Scrubbed, Told
<1> QED
  BY <1>2, <1>5, <1>6 DEF IInv

LEMMA NextInv == IInv /\ [Next]_vars => IInv'
<1> SUFFICES ASSUME IInv, [Next]_vars
             PROVE  IInv'
  OBVIOUS
<1>1. CASE Starts
  BY <1>1, StartsInv
<1>2. CASE NodeEnds
  BY <1>2, NodeEndsInv
<1>3. CASE Usage
  BY <1>3, UsageInv
<1>4. CASE StreamEnds
  BY <1>4, StreamEndsInv
<1>5. CASE Finishes
  BY <1>5, FinishesInv
<1>6. CASE Fails
  BY <1>6, FailsInv
<1>7. ASSUME NEW n \in Nodes, NodeStarts(n)
      PROVE  IInv'
  BY <1>7, NodeStartsInv
<1>8. ASSUME NEW chunk \in Chunks, Token(chunk)
      PROVE  IInv'
  BY <1>8, TokenInv
<1>9. ASSUME NEW type \in {"tool_call", "tool_result"}, Tool(type)
      PROVE  IInv'
  BY <1>9, ToolInv
<1>10. CASE UNCHANGED vars
  <2>1. UNCHANGED <<phase, node, fed, scrubber, frames>>
    BY <1>10 DEF vars
  <2>2. AllShown' = AllShown /\ InOrder' /\ Redacted' = Redacted
    BY <2>1 DEF IInv, AllShown, InOrder, Redacted
  <2>3. TypeInv'
    BY <2>1 DEF IInv, TypeInv
  <2>4. Scrubbed' /\ Told' /\ Closed'
    BY <2>1, <2>2 DEF IInv, Scrubbed, Told, Closed
  <2> QED
    BY <2>2, <2>3, <2>4 DEF IInv
<1> QED
  BY <1>1, <1>2, <1>3, <1>4, <1>5, <1>6, <1>7, <1>8, <1>9, <1>10 DEF Next

-----------------------------------------------------------------------------
(***************************************************************************)
(* The theorems.                                                           *)
(***************************************************************************)

\* The state of a stream is of its type; a frame has text exactly if it is a token
\* (events.py:42, :207: a chunk of which nothing is let out shows nothing).
THEOREM StreamTyped == Spec => []TypeOK
<1>1. IInv => TypeOK
  <2> SUFFICES ASSUME IInv
               PROVE  TypeOK
    OBVIOUS
  <2>1. \A p \in DOMAIN fed : fed[p] \in [piece : Pieces, node : Roles \cup {"supervisor"}]
    <3>1. \A p \in DOMAIN fed : fed[p] \in Written
      BY ElementOfSeq, LenProperties DEF IInv, TypeInv
    <3> QED
      BY <3>1 DEF Written, Writers
  <2>2. \A i \in DOMAIN frames : frames[i].role \in Roles \cup {"verify", "supervisor", NoRole}
    <3>1. \A i \in DOMAIN frames : frames[i] \in Frame
      BY ElementOfSeq, LenProperties DEF IInv, TypeInv
    <3> QED
      BY <3>1 DEF Frame
  <2> QED
    BY <2>1, <2>2 DEF IInv, TypeInv, TypeOK
<1> QED
  BY InitInv, NextInv, <1>1, PTL DEF Spec

\* While a run streams, what was shown and what is held back are the redacted text, in
\* its order, however it is cut into chunks and whichever model closes the fence another
\* opened (events.py:189, :207).
THEOREM RedactionShown == Spec => []ShownIsRedaction
<1>1. IInv => ShownIsRedaction
  <2> SUFFICES ASSUME IInv, phase \in {"started", "streaming"}
               PROVE  InOrder /\ AllShown \cup HeldBack = Redacted
                        /\ \A p \in AllShown, q \in HeldBack : p < q
    BY DEF ShownIsRedaction
  <2>1. InOrder
    BY DEF IInv
  <2> QED
    BY <2>1, RestIs
<1> QED
  BY InitInv, NextInv, <1>1, PTL DEF Spec

\* The outcome is the last frame, after all of the redacted text; a run that fails has
\* sent the first part of it (api.py:355-365, cli.py:90-104).
THEOREM TextFirst == Spec => []TextPrecedesOutcome
<1>1. IInv => TextPrecedesOutcome
  BY DEF IInv, Told, Closed, Last, TextPrecedesOutcome
<1> QED
  BY InitInv, NextInv, <1>1, PTL DEF Spec
=============================================================================
