------------------------- MODULE ContextWindowProofs -------------------------
(***************************************************************************)
(* Proofs about ContextWindow: where an engine cuts a transcript, what is  *)
(* in the window it makes, and how large that window is.                   *)
(*                                                                         *)
(* Facts about a recursive sum are proved from the least length at which   *)
(* they would fail.                                                        *)
(***************************************************************************)
EXTENDS ContextWindow, SequenceTheorems, WellFoundedInduction, TLAPS

\* A nonempty set of naturals has a least element.
LEMMA LeastNat ==
  ASSUME NEW T, T \subseteq Nat, T # {}
  PROVE  \E n \in T : \A m \in T : n <= m
<1>1. PICK n \in T : \A m \in T : <<m, n>> \notin OpToRel(<,Nat)
  BY NatLessThanWellFounded, WFMin
<1>2. \A m \in T : ~(m < n)
  BY <1>1 DEF OpToRel
<1>3. n \in Nat /\ \A m \in T : m \in Nat
  OBVIOUS
<1>4. \A m \in T : n <= m
  BY <1>2, <1>3
<1> QED
  BY <1>4

-----------------------------------------------------------------------------
(***************************************************************************)
(* The cuts.                                                               *)
(***************************************************************************)

LEMMA EngineType ==
  ASSUME NEW e \in Engines
  PROVE  /\ e.unit \in {"none", "messages", "tokens"}
         /\ e.limit \in Nat /\ e.first \in Nat /\ e.last \in Nat /\ e.ratio \in 1..100
         /\ e.unit = "messages" => e.limit >= e.first + e.last + 1
BY DEF Engines, NoOp

LEMMA HeadProperties ==
  ASSUME NEW S, NEW ms \in Seq(S), NEW e \in Engines
  PROVE  head(e, ms) \in 0..Len(ms) /\ head(e, ms) <= e.first
<1> DEFINE n == IF e.first < Len(ms) THEN e.first ELSE Len(ms)
           Fits(k) == \A j \in (k + 1)..n : CallsTools(ms[j])
           T == { k \in 0..n : Fits(k) }
<1>1. n \in Nat /\ n <= e.first /\ n <= Len(ms)
  BY EngineType, LenProperties
<1> HIDE DEF n
<1>2. n \in T
  BY <1>1
<1>3. PICK k \in T : \A m \in T : k <= m
  <2> HIDE DEF Fits
  <2>1. T \subseteq Nat /\ T # {}
    BY <1>1, <1>2
  <2> HIDE DEF T
  <2> QED
    BY <2>1, LeastNat
<1>4. k > 0 => ~CallsTools(ms[k])
  <2>1. SUFFICES ASSUME k > 0, CallsTools(ms[k])
                 PROVE  k - 1 \in T
    BY <1>1, <1>3
  <2>2. \A j \in ((k - 1) + 1)..n : j = k \/ j \in (k + 1)..n
    BY <1>1
  <2> QED
    BY <1>1, <2>1, <2>2
<1>5. k \in 0..n /\ (k > 0 => ~CallsTools(ms[k])) /\ \A j \in (k + 1)..n : CallsTools(ms[j])
  BY <1>4
<1>6. head(e, ms) \in 0..n
  BY <1>5 DEF head, n
<1> QED
  BY <1>1, <1>6, EngineType, LenProperties

LEMMA RealignedProperties ==
  ASSUME NEW S, NEW ms \in Seq(S), NEW i \in 1..Len(ms) + 1
  PROVE  /\ realigned(ms, i) \in i..Len(ms) + 1
         /\ realigned(ms, i) <= Len(ms) => ms[realigned(ms, i)].kind # "tool"
         /\ \A k \in i..realigned(ms, i) - 1 : ms[k].kind = "tool"
<1> DEFINE L == Len(ms)
           T == { j \in i..L + 1 : j <= L => ms[j].kind # "tool" }
<1>1. L \in Nat
  BY LenProperties
<1>2. L + 1 \in T
  BY <1>1
<1>3. PICK j \in T : \A m \in T : j <= m
  <2>1. T \subseteq Nat /\ T # {}
    BY <1>1, <1>2
  <2> HIDE DEF T
  <2> QED
    BY <2>1, LeastNat
<1>4. \A k \in i..j - 1 : ms[k].kind = "tool"
  <2>1. SUFFICES ASSUME NEW k \in i..j - 1, ms[k].kind # "tool"
                 PROVE  FALSE
    OBVIOUS
  <2>2. k \in T /\ k < j /\ k \in Nat /\ j \in Nat
    BY <1>1, <2>1
  <2> QED
    BY <1>3, <2>2
<1>5. \E q \in i..L + 1 : /\ q <= L => ms[q].kind # "tool"
                          /\ \A k \in i..q - 1 : ms[k].kind = "tool"
  BY <1>4
<1> QED
  BY <1>5 DEF realigned

LEMMA TailStartProperties ==
  ASSUME NEW S, NEW ms \in Seq(S), NEW e \in Engines, should_compress(e, ms)
  PROVE  /\ tail_start(e, ms) \in head(e, ms) + 1..Len(ms) + 1
         /\ e.unit = "messages" => tail_start(e, ms) = Len(ms) - e.last + 1
         /\ e.unit = "tokens" /\ tail_start(e, ms) < Len(ms) =>
              ~(count_tokens(SubSeq(ms, tail_start(e, ms), Len(ms))) > tail_budget(e, ms))
<1> DEFINE L == Len(ms)
           h == head(e, ms)
<1>1. L \in Nat /\ h \in 0..L /\ h <= e.first
  BY LenProperties, HeadProperties
<1>2. CASE e.unit = "messages"
  <2>1. L > e.limit
    BY <1>2 DEF should_compress
  <2>2. tail_start(e, ms) = L - e.last + 1
    BY <1>2 DEF tail_start, last_n
  <2> HIDE DEF L, h
  <2>3. tail_start(e, ms) \in h + 1..L + 1
    <3>1. e.first \in Nat /\ e.last \in Nat /\ e.limit \in Nat /\ e.limit >= e.first + e.last + 1
      BY <1>2, EngineType
    <3>2. L - e.last + 1 \in h + 1..L + 1
      BY <1>1, <2>1, <3>1
    <3> QED
      BY <2>2, <3>2
  <2> QED
    BY <1>2, <2>2, <2>3 DEF L, h
<1>3. CASE e.unit = "tokens"
  <2> DEFINE first == h + 1
             over(i) == count_tokens(SubSeq(ms, i, L)) > tail_budget(e, ms)
             T == { i \in first..L + 1 : i < L => ~over(i) }
  <2>1. first \in Nat /\ first <= L + 1
    BY <1>1
  <2> HIDE DEF first, over
  <2>2. L + 1 \in T
    BY <1>1, <2>1
  <2>3. PICK i \in T : \A m \in T : i <= m
    <3>1. T \subseteq Nat /\ T # {}
      BY <1>1, <2>1, <2>2
    <3> HIDE DEF T
    <3> QED
      BY <3>1, LeastNat
  <2>4. i > first => i <= L /\ over(i - 1)
    <3>1. SUFFICES ASSUME i > first
                   PROVE  i <= L /\ over(i - 1)
      OBVIOUS
    <3>2. i \in Nat /\ i - 1 \in first..L + 1 /\ ~(i <= i - 1)
      BY <1>1, <2>1, <3>1
    <3>3. i - 1 \notin T
      BY <2>3, <3>2
    <3>4. i - 1 < L /\ over(i - 1)
      BY <3>2, <3>3
    <3> QED
      BY <1>1, <3>2, <3>4
  <2> DEFINE Cut(q) == /\ q < L => ~over(q)
                       /\ q > first => q <= L /\ over(q - 1)
  <2>5. \E q \in first..L + 1 : Cut(q)
    BY <2>4
  <2>6. tail_start(e, ms) = CHOOSE q \in first..L + 1 : Cut(q)
    BY <1>3 DEF tail_start, first, over
  <2> HIDE DEF Cut
  <2>7. tail_start(e, ms) \in first..L + 1 /\ Cut(tail_start(e, ms))
    BY <2>5, <2>6
  <2> QED
    BY <1>3, <2>7 DEF Cut, first, over
<1>4. e.unit # "none"
  BY DEF should_compress
<1> QED
  BY <1>2, <1>3, <1>4, EngineType

\* The window is cut between the head and a tail that does not begin with a result.
LEMMA TailProperties ==
  ASSUME NEW S, NEW ms \in Seq(S), NEW e \in Engines, should_compress(e, ms)
  PROVE  /\ head(e, ms) \in 0..Len(ms) /\ head(e, ms) <= e.first
         /\ tail_start(e, ms) \in head(e, ms) + 1..Len(ms) + 1
         /\ tail(e, ms) \in tail_start(e, ms)..Len(ms) + 1
         /\ tail(e, ms) <= Len(ms) => ms[tail(e, ms)].kind # "tool"
         /\ \A k \in tail_start(e, ms)..tail(e, ms) - 1 : ms[k].kind = "tool"
<1>1. Len(ms) \in Nat
  BY LenProperties
<1>2. head(e, ms) \in 0..Len(ms) /\ head(e, ms) <= e.first
  BY HeadProperties
<1>3. tail_start(e, ms) \in head(e, ms) + 1..Len(ms) + 1
  BY TailStartProperties
<1>4. tail_start(e, ms) \in 1..Len(ms) + 1
  BY <1>1, <1>2, <1>3
<1> QED
  BY <1>2, <1>3, <1>4, RealignedProperties DEF tail

-----------------------------------------------------------------------------
(***************************************************************************)
(* What is in the window.                                                  *)
(***************************************************************************)

LEMMA DroppedProperties ==
  ASSUME NEW S, NEW ms \in Seq(S), NEW e \in Engines, should_compress(e, ms)
  PROVE  /\ dropped(e, ms) \in Seq(S)
         /\ Len(dropped(e, ms)) = tail(e, ms) - head(e, ms) - 1
         /\ \A i \in head(e, ms) + 1..tail(e, ms) - 1 :
              dropped(e, ms)[i - head(e, ms)] = ms[i]
         /\ dropped(e, ms) = <<>> <=> tail(e, ms) = head(e, ms) + 1
<1> DEFINE h == head(e, ms)
           t == tail(e, ms)
           d == dropped(e, ms)
           L == Len(ms)
<1>1. d = SubSeq(ms, h + 1, t - 1)
  BY DEF dropped
<1>2. L \in Nat /\ h \in Nat /\ t \in Nat /\ h <= L /\ h + 1 <= t /\ t <= L + 1
  BY TailProperties, LenProperties
<1>3. \A i \in 1..L : ms[i] \in S
  BY ElementOfSeq
<1> HIDE DEF h, t, d, L
<1>4. \A i \in h + 1..t - 1 : ms[i] \in S
  BY <1>2, <1>3
<1>5. /\ d \in Seq(S)
      /\ Len(d) = IF h + 1 <= t - 1 THEN (t - 1) - (h + 1) + 1 ELSE 0
      /\ \A i \in 1..(t - 1) - (h + 1) + 1 : d[i] = ms[h + 1 + i - 1]
  BY <1>1, <1>2, <1>4, SubSeqProperties
<1>6. Len(d) = t - h - 1
  BY <1>2, <1>5
<1>7. ASSUME NEW i \in h + 1..t - 1
      PROVE  d[i - h] = ms[i]
  <2>1. i - h \in 1..(t - 1) - (h + 1) + 1 /\ h + 1 + (i - h) - 1 = i
    BY <1>2
  <2> QED
    BY <1>5, <2>1
<1>8. d = <<>> <=> t = h + 1
  <2>1. d = <<>> <=> Len(d) = 0
    BY <1>5, EmptySeq
  <2> QED
    BY <1>2, <1>6, <2>1
<1> QED
  BY <1>5, <1>6, <1>7, <1>8 DEF h, t, d

\* The head, the marker, and the tail up to the newest message.
LEMMA WindowProperties ==
  ASSUME NEW S, NEW marker \in S, NEW ms \in Seq(S), NEW e \in Engines, dropped(e, ms) # <<>>
  PROVE  /\ should_compress(e, ms)
         /\ head(e, ms) + 1 < tail(e, ms)
         /\ apply(e, ms, marker) \in Seq(S)
         /\ Len(apply(e, ms, marker)) = head(e, ms) + Len(ms) + 2 - tail(e, ms)
         /\ \A i \in 1..head(e, ms) : apply(e, ms, marker)[i] = ms[i]
         /\ apply(e, ms, marker)[head(e, ms) + 1] = marker
         /\ \A i \in tail(e, ms)..Len(ms) : apply(e, ms, marker)[i - tail(e, ms) + head(e, ms) + 2] = ms[i]
<1> DEFINE h == head(e, ms)
           t == tail(e, ms)
           L == Len(ms)
           H == SubSeq(ms, 1, h)
           T == SubSeq(ms, t, L)
           w == apply(e, ms, marker)
<1>1. should_compress(e, ms)
  BY DEF dropped
<1>2. L \in Nat /\ h \in Nat /\ t \in Nat /\ h <= L /\ h + 1 < t /\ t <= L + 1
  BY <1>1, TailProperties, LenProperties, DroppedProperties
<1>3. \A i \in 1..L : ms[i] \in S
  BY ElementOfSeq
<1>4. w = (H \o <<marker>>) \o T
  BY DEF apply
<1> HIDE DEF h, t, L, w
<1>5. /\ H \in Seq(S) /\ Len(H) = h /\ \A i \in 1..h : H[i] = ms[i]
  <2>1. \A i \in 1..h : ms[i] \in S
    BY <1>2, <1>3
  <2>2. /\ H \in Seq(S)
        /\ Len(H) = IF 1 <= h THEN h - 1 + 1 ELSE 0
        /\ \A i \in 1..h - 1 + 1 : H[i] = ms[1 + i - 1]
    BY <1>2, <2>1, SubSeqProperties
  <2> HIDE DEF H
  <2>3. ASSUME NEW i \in 1..h
        PROVE  H[i] = ms[i]
    <3>1. i \in 1..h - 1 + 1 /\ 1 + i - 1 = i
      BY <1>2
    <3> QED
      BY <2>2, <3>1
  <2> QED
    BY <1>2, <2>2, <2>3
<1>6. /\ T \in Seq(S) /\ Len(T) = L + 1 - t
      /\ \A i \in t..L : T[i - t + 1] = ms[i]
  <2>1. \A i \in t..L : ms[i] \in S
    BY <1>2, <1>3
  <2>2. /\ T \in Seq(S)
        /\ Len(T) = IF t <= L THEN L - t + 1 ELSE 0
        /\ \A i \in 1..L - t + 1 : T[i] = ms[t + i - 1]
    BY <1>2, <2>1, SubSeqProperties
  <2> HIDE DEF T
  <2>3. ASSUME NEW i \in t..L
        PROVE  T[i - t + 1] = ms[i]
    <3>1. i - t + 1 \in 1..L - t + 1 /\ t + (i - t + 1) - 1 = i
      BY <1>2
    <3> QED
      BY <2>2, <3>1
  <2> QED
    BY <1>2, <2>2, <2>3
<1> HIDE DEF H, T
<1>7. /\ H \o <<marker>> \in Seq(S) /\ Len(H \o <<marker>>) = h + 1
      /\ \A i \in 1..h : (H \o <<marker>>)[i] = ms[i]
      /\ (H \o <<marker>>)[h + 1] = marker
  <2>1. <<marker>> \in Seq(S) /\ Len(<<marker>>) = 1 /\ <<marker>>[1] = marker
    OBVIOUS
  <2>2. /\ H \o <<marker>> \in Seq(S)
        /\ Len(H \o <<marker>>) = Len(H) + Len(<<marker>>)
        /\ \A i \in 1..Len(H) + Len(<<marker>>) :
             (H \o <<marker>>)[i] = IF i <= Len(H) THEN H[i] ELSE <<marker>>[i - Len(H)]
    BY <1>5, <2>1, ConcatProperties
  <2>3. \A i \in 1..h : i \in 1..h + 1 /\ i <= h
    BY <1>2
  <2>4. h + 1 \in 1..h + 1 /\ ~(h + 1 <= h) /\ h + 1 - h = 1
    BY <1>2
  <2> QED
    BY <1>5, <2>1, <2>2, <2>3, <2>4
<1> DEFINE B == H \o <<marker>>
<1>8. /\ w = B \o T /\ B \in Seq(S) /\ Len(B) = h + 1
      /\ \A i \in 1..h : B[i] = ms[i]
      /\ B[h + 1] = marker
  BY <1>4, <1>7
<1> HIDE DEF B
<1>9. /\ w \in Seq(S) /\ Len(w) = Len(B) + Len(T)
      /\ \A i \in 1..Len(B) + Len(T) :
           w[i] = IF i <= Len(B) THEN B[i] ELSE T[i - Len(B)]
  BY <1>6, <1>8, ConcatProperties
<1>10. Len(w) = h + L + 2 - t
  BY <1>2, <1>6, <1>8, <1>9
<1>11. \A i \in 1..h + 1 : w[i] = B[i]
  <2>1. \A i \in 1..h + 1 : i \in 1..(h + 1) + (L + 1 - t) /\ i <= h + 1
    BY <1>2
  <2> QED
    BY <1>6, <1>8, <1>9, <2>1
<1>12. ASSUME NEW i \in t..L
       PROVE  w[i - t + h + 2] = ms[i]
  <2> DEFINE p == i - t + h + 2
  <2>1. p \in 1..(h + 1) + (L + 1 - t) /\ ~(p <= h + 1) /\ p - (h + 1) = i - t + 1
    BY <1>2
  <2> HIDE DEF p
  <2>2. w[p] = T[p - (h + 1)]
    BY <1>6, <1>8, <1>9, <2>1
  <2> QED
    BY <1>6, <2>1, <2>2 DEF p
<1>13. (\A i \in 1..h : w[i] = ms[i]) /\ w[h + 1] = marker
  <2>1. \A i \in 1..h : i \in 1..h + 1
    BY <1>2
  <2>2. h + 1 \in 1..h + 1
    BY <1>2
  <2> QED
    BY <1>8, <1>11, <2>1, <2>2
<1> QED
  BY <1>1, <1>2, <1>9, <1>10, <1>12, <1>13 DEF h, t, L, w

\* An engine adds nothing to a transcript but its marker.
LEMMA WindowRange ==
  ASSUME NEW S, NEW marker \in S, NEW ms \in Seq(S), NEW e \in Engines
  PROVE  /\ apply(e, ms, marker) \in Seq(S)
         /\ Range(apply(e, ms, marker)) \subseteq Range(ms) \cup {marker}
<1>1. CASE dropped(e, ms) = <<>>
  BY <1>1 DEF apply
<1>2. CASE dropped(e, ms) # <<>>
  <2> DEFINE h == head(e, ms)
             t == tail(e, ms)
             L == Len(ms)
             w == apply(e, ms, marker)
  <2>1. /\ w \in Seq(S) /\ Len(w) = h + L + 2 - t
        /\ \A i \in 1..h : w[i] = ms[i]
        /\ w[h + 1] = marker
        /\ \A i \in t..L : w[i - t + h + 2] = ms[i]
        /\ should_compress(e, ms)
    BY <1>2, WindowProperties
  <2>2. L \in Nat /\ h \in Nat /\ t \in Nat /\ h <= L /\ h + 1 <= t /\ t <= L + 1
    BY <2>1, TailProperties, LenProperties
  <2>3. Range(w) = { w[i] : i \in 1..Len(w) } /\ Range(ms) = { ms[i] : i \in 1..L }
    BY <2>1, RangeEquality
  <2> HIDE DEF h, t, L, w
  <2>4. ASSUME NEW p \in 1..Len(w)
        PROVE  w[p] \in { ms[i] : i \in 1..L } \cup {marker}
    <3>1. CASE p <= h
      <4>1. p \in 1..h /\ p \in 1..L
        BY <2>1, <2>2, <3>1
      <4> QED
        BY <2>1, <4>1
    <3>2. CASE p = h + 1
      BY <2>1, <3>2
    <3>3. CASE p > h + 1
      <4> DEFINE i == p - h - 2 + t
      <4>1. i \in t..L /\ i \in 1..L /\ i - t + h + 2 = p
        BY <2>1, <2>2, <3>3
      <4> QED
        BY <2>1, <4>1
    <3> QED
      BY <2>1, <2>2, <3>1, <3>2, <3>3
  <2> QED
    BY <2>1, <2>3, <2>4 DEF w
<1> QED
  BY <1>1, <1>2

\* What is not in the window was dropped from the middle.
LEMMA WindowKeeps ==
  ASSUME NEW S, NEW marker \in S, NEW ms \in Seq(S), NEW e \in Engines, NEW i \in 1..Len(ms)
  PROVE  \/ ms[i] \in Range(apply(e, ms, marker))
         \/ /\ should_compress(e, ms) /\ i \in head(e, ms) + 1..tail(e, ms) - 1
            /\ ms[i] \in Range(dropped(e, ms))
<1>1. CASE dropped(e, ms) = <<>>
  BY <1>1, RangeEquality DEF apply
<1>2. CASE dropped(e, ms) # <<>>
  <2> DEFINE h == head(e, ms)
             t == tail(e, ms)
             L == Len(ms)
             w == apply(e, ms, marker)
             d == dropped(e, ms)
  <2>1. /\ w \in Seq(S) /\ Len(w) = h + L + 2 - t
        /\ \A j \in 1..h : w[j] = ms[j]
        /\ \A j \in t..L : w[j - t + h + 2] = ms[j]
        /\ should_compress(e, ms)
    BY <1>2, WindowProperties
  <2>2. /\ d \in Seq(S) /\ Len(d) = t - h - 1
        /\ \A j \in h + 1..t - 1 : d[j - h] = ms[j]
    BY <2>1, DroppedProperties
  <2>3. L \in Nat /\ h \in Nat /\ t \in Nat /\ h <= L /\ h + 1 <= t /\ t <= L + 1 /\ i \in 1..L
    BY <2>1, TailProperties, LenProperties
  <2>4. Range(w) = { w[j] : j \in 1..Len(w) } /\ Range(d) = { d[j] : j \in 1..Len(d) }
    BY <2>1, <2>2, RangeEquality
  <2> HIDE DEF h, t, L, w, d
  <2>5. CASE i \in 1..h
    <3>1. i \in 1..Len(w) /\ w[i] = ms[i]
      BY <2>1, <2>3, <2>5
    <3> QED
      BY <2>4, <3>1 DEF w
  <2>6. CASE i \in t..L
    <3>1. i - t + h + 2 \in 1..Len(w)
      BY <2>1, <2>3, <2>6
    <3> QED
      BY <2>1, <2>4, <2>6, <3>1 DEF w
  <2>7. CASE i \in h + 1..t - 1
    <3>1. i - h \in 1..Len(d)
      BY <2>2, <2>3, <2>7
    <3>2. ms[i] \in Range(d)
      BY <2>2, <2>4, <2>7, <3>1
    <3> QED
      BY <2>1, <2>7, <3>2 DEF h, t, d
  <2> QED
    BY <2>3, <2>5, <2>6, <2>7
<1> QED
  BY <1>1, <1>2

-----------------------------------------------------------------------------
(***************************************************************************)
(* The size of a transcript.                                               *)
(***************************************************************************)

Sized(S) == \A m \in S : m.size \in Nat

\* The running sums that count_tokens names, by the equation that defines them.
Sums(ms, f) ==
  f = [i \in 0..Len(ms) |-> IF i = 0 THEN 0 ELSE f[i - 1] + ms[i].size]

LEMMA SumsExist ==
  ASSUME NEW S, Sized(S), NEW ms \in Seq(S)
  PROVE  \E f : Sums(ms, f)
<1> DEFINE L == Len(ms)
           Upto(n, f) == /\ f \in [0..n -> Nat]
                         /\ f[0] = 0 /\ \A i \in 1..n : f[i] = f[i - 1] + ms[i].size
           Bad == { n \in 0..L : ~\E f : Upto(n, f) }
<1>1. L \in Nat /\ \A i \in 1..L : ms[i].size \in Nat
  BY LenProperties, ElementOfSeq DEF Sized
<1> HIDE DEF L
<1>2. Bad = {}
  <2>1. SUFFICES ASSUME Bad # {}
                 PROVE  FALSE
    OBVIOUS
  <2>2. PICK n \in Bad : \A m \in Bad : n <= m
    <3>1. Bad \subseteq Nat
      BY <1>1
    <3> HIDE DEF Bad
    <3> QED
      BY <2>1, <3>1, LeastNat
  <2>3. n # 0
    <3>1. Upto(0, [i \in 0..0 |-> 0])
      OBVIOUS
    <3> QED
      BY <3>1
  <2>4. n - 1 \in 0..L /\ n \in 1..L /\ n - 1 \notin Bad
    <3>1. n \in 0..L
      BY <2>2
    <3> HIDE DEF Bad
    <3> QED
      BY <1>1, <2>2, <2>3, <3>1
  <2>5. PICK f : Upto(n - 1, f)
    BY <2>4
  <2> DEFINE g == [i \in 0..n |-> IF i = n THEN f[n - 1] + ms[n].size ELSE f[i]]
  <2>6. f[n - 1] + ms[n].size \in Nat
    BY <1>1, <2>4, <2>5
  <2>7. g \in [0..n -> Nat]
    <3>1. ASSUME NEW i \in 0..n, i # n
          PROVE  f[i] \in Nat
      <4>1. i \in 0..n - 1
        BY <2>4, <3>1
      <4> QED
        BY <2>5, <4>1
    <3> QED
      BY <2>6, <3>1
  <2>8. g[0] = 0
    BY <2>4, <2>5
  <2>9. ASSUME NEW i \in 1..n
        PROVE  g[i] = g[i - 1] + ms[i].size
    <3>1. i \in 0..n /\ i - 1 \in 0..n /\ i - 1 # n
      BY <2>4
    <3>2. CASE i = n
      BY <3>1, <3>2
    <3>3. CASE i # n
      <4>1. i \in 1..n - 1
        BY <2>4, <3>3
      <4> QED
        BY <2>5, <3>1, <3>3, <4>1
    <3> QED
      BY <3>2, <3>3
  <2>10. Upto(n, g)
    BY <2>7, <2>8, <2>9
  <2> QED
    BY <2>2, <2>10
<1>3. PICK f : Upto(L, f)
  <2>1. L \in 0..L /\ L \notin Bad
    BY <1>1, <1>2
  <2> QED
    BY <2>1
<1>4. f = [i \in 0..L |-> f[i]]
  BY <1>3
<1>5. ASSUME NEW i \in 0..L
      PROVE  f[i] = IF i = 0 THEN 0 ELSE f[i - 1] + ms[i].size
  <2>1. i # 0 => i \in 1..L
    BY <1>1
  <2> QED
    BY <1>3, <2>1
<1>6. f = [i \in 0..L |-> IF i = 0 THEN 0 ELSE f[i - 1] + ms[i].size]
  BY <1>4, <1>5
<1> QED
  BY <1>6 DEF Sums, L

LEMMA CountSums ==
  ASSUME NEW S, Sized(S), NEW ms \in Seq(S)
  PROVE  \E f : Sums(ms, f) /\ count_tokens(ms) = f[Len(ms)]
<1>1. \E f : Sums(ms, f)
  BY SumsExist
<1> DEFINE u == CHOOSE f : Sums(ms, f)
<1>2. Sums(ms, u)
  BY <1>1
<1>3. count_tokens(ms) = u[Len(ms)]
  BY DEF count_tokens, Sums
<1> QED
  BY <1>2, <1>3

\* The defining equations, one by one.
LEMMA CountSteps ==
  ASSUME NEW S, Sized(S), NEW ms \in Seq(S)
  PROVE  \E f : /\ f[0] = 0
                /\ \A i \in 1..Len(ms) : f[i] = f[i - 1] + ms[i].size
                /\ \A i \in 0..Len(ms) : f[i] \in Nat
                /\ count_tokens(ms) = f[Len(ms)]
<1> DEFINE L == Len(ms)
<1>1. PICK f : Sums(ms, f) /\ count_tokens(ms) = f[L]
  BY CountSums
<1>2. L \in Nat /\ \A i \in 1..L : ms[i].size \in Nat
  BY LenProperties, ElementOfSeq DEF Sized
<1>3. \A i \in 0..L : f[i] = IF i = 0 THEN 0 ELSE f[i - 1] + ms[i].size
  BY <1>1 DEF Sums
<1> HIDE DEF L
<1>4. f[0] = 0 /\ \A i \in 1..L : f[i] = f[i - 1] + ms[i].size
  BY <1>2, <1>3
<1>5. \A i \in 0..L : f[i] \in Nat
  <2> DEFINE Bad == { i \in 0..L : f[i] \notin Nat }
  <2>1. SUFFICES ASSUME Bad # {}
                 PROVE  FALSE
    OBVIOUS
  <2>2. PICK n \in Bad : \A m \in Bad : n <= m
    <3>1. Bad \subseteq Nat
      BY <1>2
    <3> HIDE DEF Bad
    <3> QED
      BY <2>1, <3>1, LeastNat
  <2>3. n # 0 /\ n \in 0..L /\ f[n] \notin Nat
    BY <1>4, <2>2
  <2>4. n \in 1..L /\ n - 1 \in 0..L /\ ~(n <= n - 1)
    BY <1>2, <2>3
  <2>5. f[n - 1] \in Nat
    BY <2>2, <2>4
  <2>6. f[n] = f[n - 1] + ms[n].size
    BY <1>4, <2>4
  <2>7. ms[n].size \in Nat
    BY <1>2, <2>4
  <2> QED
    BY <2>3, <2>5, <2>6, <2>7
<1> QED
  BY <1>1, <1>4, <1>5 DEF L

LEMMA CountConcat ==
  ASSUME NEW S, Sized(S), NEW s \in Seq(S), NEW t \in Seq(S)
  PROVE  /\ count_tokens(s) \in Nat /\ count_tokens(t) \in Nat
         /\ count_tokens(s \o t) = count_tokens(s) + count_tokens(t)
<1> DEFINE K == Len(s)
           L == Len(t)
           w == s \o t
<1>1. K \in Nat /\ L \in Nat
  BY LenProperties
<1>2. w \in Seq(S) /\ Len(w) = K + L
      /\ \A i \in 1..K + L : w[i] = IF i <= K THEN s[i] ELSE t[i - K]
  BY ConcatProperties
<1>3. PICK f : /\ f[0] = 0 /\ \A i \in 1..K : f[i] = f[i - 1] + s[i].size
               /\ \A i \in 0..K : f[i] \in Nat
               /\ count_tokens(s) = f[K]
  BY CountSteps
<1>4. PICK g : /\ g[0] = 0 /\ \A i \in 1..L : g[i] = g[i - 1] + t[i].size
               /\ \A i \in 0..L : g[i] \in Nat
               /\ count_tokens(t) = g[L]
  BY CountSteps
<1> HIDE DEF w
<1>5. PICK h : /\ h[0] = 0 /\ \A i \in 1..K + L : h[i] = h[i - 1] + w[i].size
               /\ count_tokens(w) = h[K + L]
  BY <1>2, CountSteps
<1>6. /\ \A i \in 1..K : s[i].size \in Nat
      /\ \A i \in 1..L : t[i].size \in Nat
  BY ElementOfSeq DEF Sized
<1> HIDE DEF K, L
<1>7. \A i \in 0..K : h[i] = f[i]
  <2> DEFINE Bad == { i \in 0..K : h[i] # f[i] }
  <2>1. SUFFICES ASSUME Bad # {}
                 PROVE  FALSE
    OBVIOUS
  <2>2. PICK n \in Bad : \A m \in Bad : n <= m
    <3>1. Bad \subseteq Nat
      BY <1>1
    <3> HIDE DEF Bad
    <3> QED
      BY <2>1, <3>1, LeastNat
  <2>3. n # 0 /\ n \in 0..K /\ h[n] # f[n]
    BY <1>3, <1>5, <2>2
  <2>4. n \in 1..K /\ n \in 1..K + L /\ n <= K /\ n - 1 \in 0..K /\ ~(n <= n - 1)
    BY <1>1, <2>3
  <2>5. h[n - 1] = f[n - 1]
    BY <2>2, <2>4
  <2> QED
    BY <1>2, <1>3, <1>5, <2>3, <2>4, <2>5
<1>8. \A j \in 0..L : h[K + j] = f[K] + g[j]
  <2> DEFINE Bad == { j \in 0..L : h[K + j] # f[K] + g[j] }
  <2>1. SUFFICES ASSUME Bad # {}
                 PROVE  FALSE
    OBVIOUS
  <2>2. PICK n \in Bad : \A m \in Bad : n <= m
    <3>1. Bad \subseteq Nat
      BY <1>1
    <3> HIDE DEF Bad
    <3> QED
      BY <2>1, <3>1, LeastNat
  <2>3. n \in 0..L /\ h[K + n] # f[K] + g[n]
    BY <2>2
  <2>4. K \in 0..K /\ f[K] \in Nat /\ K + 0 = K
    BY <1>1, <1>3
  <2>5. n # 0
    BY <1>4, <1>7, <2>3, <2>4
  <2>6. /\ n \in 1..L /\ K + n \in 1..K + L /\ ~(K + n <= K) /\ K + n - K = n
        /\ n - 1 \in 0..L /\ ~(n <= n - 1) /\ K + n - 1 = K + (n - 1)
    BY <1>1, <2>3, <2>5
  <2>7. h[K + (n - 1)] = f[K] + g[n - 1]
    BY <2>2, <2>6
  <2> DEFINE q == K + n
  <2>8. q \in 1..K + L /\ ~(q <= K) /\ q - K = n /\ q - 1 = K + (n - 1)
    BY <1>1, <2>6
  <2> HIDE DEF q
  <2>9. w[q] = t[n]
    BY <1>2, <2>8
  <2>10. h[q] = h[K + (n - 1)] + t[n].size
    BY <1>5, <2>8, <2>9
  <2>11. g[n] = g[n - 1] + t[n].size
    BY <1>4, <2>6
  <2>12. g[n - 1] \in Nat /\ t[n].size \in Nat
    BY <1>4, <1>6, <2>6
  <2> QED
    BY <2>3, <2>4, <2>7, <2>10, <2>11, <2>12 DEF q
<1>9. K \in 0..K /\ L \in 0..L
  BY <1>1
<1> QED
  BY <1>3, <1>4, <1>5, <1>8, <1>9 DEF w

LEMMA CountOne ==
  ASSUME NEW S, Sized(S), NEW m \in S
  PROVE  count_tokens(<<m>>) = m.size
<1>1. <<m>> \in Seq(S) /\ Len(<<m>>) = 1 /\ <<m>>[1] = m /\ m.size \in Nat
  BY DEF Sized
<1>2. PICK f : /\ f[0] = 0 /\ \A i \in 1..1 : f[i] = f[i - 1] + <<m>>[i].size
               /\ count_tokens(<<m>>) = f[1]
  BY <1>1, CountSteps
<1>3. 1 \in 1..1 /\ 1 - 1 = 0
  OBVIOUS
<1>4. f[1] = f[0] + m.size
  BY <1>1, <1>2, <1>3
<1> QED
  BY <1>1, <1>2, <1>4

LEMMA CountEmpty ==
  ASSUME NEW S, Sized(S)
  PROVE  count_tokens(<<>>) = 0
<1>1. <<>> \in Seq(S) /\ Len(<<>>) = 0
  BY EmptySeq
<1>2. PICK f : f[0] = 0 /\ count_tokens(<<>>) = f[Len(<<>>)]
  BY <1>1, CountSteps
<1> QED
  BY <1>1, <1>2

\* A later tail is no larger, and a transcript is its two parts.
LEMMA CountTail ==
  ASSUME NEW S, Sized(S), NEW ms \in Seq(S), NEW i \in 1..Len(ms) + 1, NEW j \in i..Len(ms) + 1
  PROVE  /\ count_tokens(SubSeq(ms, j, Len(ms))) \in Nat
         /\ count_tokens(SubSeq(ms, i, Len(ms))) \in Nat
         /\ count_tokens(SubSeq(ms, j, Len(ms))) <= count_tokens(SubSeq(ms, i, Len(ms)))
<1>1. Len(ms) \in Nat /\ \A k \in 1..Len(ms) : ms[k] \in S
  BY LenProperties, ElementOfSeq
<1>2. SubSeq(ms, i, j - 1) \o SubSeq(ms, j, Len(ms)) = SubSeq(ms, i, Len(ms))
  <2>1. i \in 1..Len(ms) + 1 /\ j - 1 \in i - 1..Len(ms) /\ Len(ms) \in j - 1..Len(ms)
        /\ (j - 1) + 1 = j
    BY <1>1
  <2> QED
    BY <2>1, ConcatAdjacentSubSeq
<1>3. SubSeq(ms, i, j - 1) \in Seq(S) /\ SubSeq(ms, j, Len(ms)) \in Seq(S)
  <2>1. /\ \A k \in i..j - 1 : ms[k] \in S
        /\ \A k \in j..Len(ms) : ms[k] \in S
        /\ i \in Int /\ j \in Int /\ j - 1 \in Int /\ Len(ms) \in Int
    BY <1>1
  <2> QED
    BY <2>1, SubSeqProperties
<1> DEFINE a == count_tokens(SubSeq(ms, i, j - 1))
           b == count_tokens(SubSeq(ms, j, Len(ms)))
           c == count_tokens(SubSeq(ms, i, Len(ms)))
<1>4. a \in Nat /\ b \in Nat /\ c = a + b
  BY <1>2, <1>3, CountConcat
<1> HIDE DEF a, b, c
<1>5. b \in Nat /\ c \in Nat /\ b <= c
  BY <1>4
<1> QED
  BY <1>5 DEF b, c

\* The budget of a tail is no more than its share.
LEMMA Share ==
  ASSUME NEW left \in Nat, NEW ratio \in 1..100
  PROVE  /\ (left * ratio) \div 100 \in Nat
         /\ 100 * ((left * ratio) \div 100) <= left * ratio
<1> DEFINE p == left * ratio
           q == p \div 100
<1>1. p \in Nat
  OBVIOUS
<1> HIDE DEF p
<1>2. q \in Nat /\ 100 * q <= p
  BY <1>1
<1> QED
  BY <1>2 DEF q, p

LEMMA Shares ==
  ASSUME NEW left \in Int, NEW ratio \in 1..100
  PROVE  left * (100 - ratio) = 100 * left - left * ratio /\ left * ratio \in Int
OBVIOUS

LEMMA Single ==
  ASSUME NEW S, NEW s \in Seq(S), Len(s) = 1
  PROVE  s = <<s[1]>>
<1>1. s[1] \in S
  BY ElementOfSeq
<1>2. <<s[1]>> \in Seq(S) /\ Len(<<s[1]>>) = 1 /\ <<s[1]>>[1] = s[1]
  BY <1>1
<1>3. \A i \in 1..Len(s) : s[i] = <<s[1]>>[i]
  BY <1>2
<1> QED
  BY <1>2, <1>3, SeqEqual

\* A window in messages keeps its limit.  One in tokens, when over it, holds besides its head
\* and its marker the newest message alone or no more than target_ratio of what the head
\* leaves (engine.py:117, 222-246).
THEOREM WindowFits ==
  ASSUME NEW S, Sized(S), NEW marker \in S, NEW ms \in Seq(S), ms # <<>>, NEW e \in Engines,
         should_compress(e, apply(e, ms, marker))
  PROVE  LET left == e.limit - count_tokens(SubSeq(ms, 1, head(e, ms)))
             over == count_tokens(apply(e, ms, marker)) - e.limit
         IN /\ e.unit = "tokens"
            /\ \/ left + over <= marker.size + Last(ms).size
               \/ 100 * (left + over - marker.size) <= left * e.ratio
<1> DEFINE h == head(e, ms)
           ts == tail_start(e, ms)
           t == tail(e, ms)
           L == Len(ms)
           w == apply(e, ms, marker)
           ch == count_tokens(SubSeq(ms, 1, h))
           ct == count_tokens(SubSeq(ms, t, L))
           cs == count_tokens(SubSeq(ms, ts, L))
           newest == ms[L].size
           mark == marker.size
           cw == count_tokens(w)
           left == e.limit - ch
           over == cw - e.limit
<1>1. SUFFICES /\ e.unit = "tokens"
               /\ \/ left + over <= mark + newest
                  \/ 100 * (left + over - mark) <= left * e.ratio
  BY LenProperties, EmptySeq DEF Last
<1>2. should_compress(e, ms) /\ should_compress(e, w)
  BY DEF apply, dropped
<1>3. /\ L \in Nat \ {0} /\ h \in 0..L /\ h <= e.first
      /\ ts \in h + 1..L + 1 /\ t \in ts..L + 1
      /\ e.limit \in Nat /\ e.first \in Nat /\ e.last \in Nat
  BY <1>2, TailProperties, EngineType, EmptySeq
<1>4. L \in 1..L
  BY <1>3
<1>5. newest \in Nat /\ mark \in Nat /\ e.ratio \in 1..100
  BY <1>4, ElementOfSeq, EngineType DEF Sized
<1>6. CASE e.unit = "messages"
  <2>1. ts = L - e.last + 1 /\ e.limit >= e.first + e.last + 1 /\ L > e.limit /\ Len(w) > e.limit
    BY <1>2, <1>6, TailStartProperties, EngineType DEF should_compress
  <2>2. t # h + 1
    <3> HIDE DEF h, ts, t, L
    <3> QED
      BY <1>3, <2>1
  <2>3. Len(w) = h + L + 2 - t
    BY <1>2, <2>2, DroppedProperties, WindowProperties
  <2>4. L - e.last + 1 <= t /\ t \in Int
    BY <1>3, <2>1
  <2> DEFINE n == Len(w)
  <2>5. n = h + L + 2 - t /\ n > e.limit /\ e.limit >= e.first + e.last + 1
    BY <2>1, <2>3
  <2> HIDE DEF h, ts, t, L, w, n
  <2>6. /\ L \in Int /\ h \in Int /\ t \in Int /\ h <= e.first
        /\ e.limit \in Int /\ e.first \in Int /\ e.last \in Int
    BY <1>3, <2>4
  <2>7. n <= e.first + e.last + 1
    BY <2>4, <2>5, <2>6
  <2> QED
    BY <2>5, <2>6, <2>7
<1>7. CASE e.unit = "tokens"
  <2>1. ch \in Nat /\ ct \in Nat /\ cs \in Nat /\ ct <= cs
    <3>1. \A k \in 1..h : ms[k] \in S
      BY <1>3, ElementOfSeq
    <3>2. SubSeq(ms, 1, h) \in Seq(S)
      BY <1>3, <3>1, SubSeqProperties
    <3>3. ch \in Nat
      BY <3>2, CountConcat
    <3>4. ts \in 1..L + 1
      BY <1>3
    <3>5. ct \in Nat /\ cs \in Nat /\ ct <= cs
      <4> HIDE DEF ts, t
      <4> QED
        BY <1>3, <3>4, CountTail
    <3> QED
      BY <3>3, <3>5
  <2>2. /\ tail_budget(e, ms) \in Nat
        /\ \/ 100 * tail_budget(e, ms) <= left * e.ratio
           \/ tail_budget(e, ms) = 0
    <3>1. CASE left > 0
      <4>1. left \in Nat
        <5>1. e.limit \in Nat /\ ch \in Nat
          BY <1>3, <2>1
        <5> HIDE DEF ch
        <5> QED
          BY <3>1, <5>1
      <4>2. tail_budget(e, ms) = (left * e.ratio) \div 100
        BY <3>1 DEF tail_budget
      <4> HIDE DEF left
      <4> QED
        BY <1>5, <4>1, <4>2, Share
    <3>2. CASE ~(left > 0)
      BY <3>2 DEF tail_budget
    <3> QED
      BY <3>1, <3>2
  <2>4. \/ ts < L /\ cs <= tail_budget(e, ms)
        \/ ts = L /\ cs = newest
        \/ ts = L + 1 /\ cs = 0
    <3>1. CASE ts < L
      <4>1. ~(cs > tail_budget(e, ms))
        BY <1>2, <1>7, <3>1, TailStartProperties
      <4> HIDE DEF cs, ts
      <4> QED
        BY <2>1, <2>2, <3>1, <4>1
    <3>2. CASE ts = L
      <4>1. /\ SubSeq(ms, L, L) \in Seq(S) /\ Len(SubSeq(ms, L, L)) = 1
            /\ SubSeq(ms, L, L)[1] = ms[L]
        <5>1. \A i \in L..L : ms[i] \in S
          BY <1>3, ElementOfSeq
        <5>2. /\ SubSeq(ms, L, L) \in Seq(S)
              /\ Len(SubSeq(ms, L, L)) = IF L <= L THEN L - L + 1 ELSE 0
              /\ \A i \in 1..L - L + 1 : SubSeq(ms, L, L)[i] = ms[L + i - 1]
          BY <1>3, <5>1, SubSeqProperties
        <5> DEFINE one == SubSeq(ms, L, L)
        <5> HIDE DEF L, one
        <5>3. L <= L /\ 1 \in 1..L - L + 1 /\ L + 1 - 1 = L /\ L - L + 1 = 1
          BY <1>3
        <5>4. one \in Seq(S) /\ Len(one) = 1 /\ one[1] = ms[L + 1 - 1]
          BY <5>2, <5>3 DEF one
        <5> QED
          BY <5>3, <5>4 DEF one
      <4>2. ms[L] \in S
        BY <1>4, ElementOfSeq
      <4>3. SubSeq(ms, L, L) = <<ms[L]>>
        BY <4>1, Single
      <4> QED
        BY <3>2, <4>2, <4>3, CountOne
    <3>3. CASE ts = L + 1
      <4>1. SubSeq(ms, L + 1, L) = <<>>
        BY <1>3, SubSeqEmpty
      <4> QED
        BY <3>3, <4>1, CountEmpty
    <3>4. ts < L \/ ts = L \/ ts = L + 1
      <4> HIDE DEF ts, h, L
      <4> QED
        BY <1>3
    <3> QED
      BY <3>1, <3>2, <3>3, <3>4
  <2>5. count_tokens(w) > e.limit
    BY <1>2, <1>7 DEF should_compress
  <2>6. count_tokens(w) = ch + ct \/ count_tokens(w) = ch + mark + ct
    <3>1. /\ SubSeq(ms, 1, h) \in Seq(S) /\ SubSeq(ms, t, L) \in Seq(S)
      <4>1. /\ \A k \in 1..h : ms[k] \in S
            /\ \A k \in t..L : ms[k] \in S
        BY <1>3, ElementOfSeq
      <4> QED
        BY <1>3, <4>1, SubSeqProperties
    <3>2. CASE dropped(e, ms) = <<>>
      <4>1. t = h + 1 /\ w = ms
        BY <1>2, <3>2, DroppedProperties DEF apply
      <4>2. SubSeq(ms, 1, h) \o SubSeq(ms, h + 1, L) = SubSeq(ms, 1, L)
        <5>1. 1 \in 1..L + 1 /\ h \in 1 - 1..L /\ L \in h..L
          BY <1>3
        <5> HIDE DEF h
        <5> QED
          BY <5>1, ConcatAdjacentSubSeq
      <4>3. w = SubSeq(ms, 1, h) \o SubSeq(ms, t, L)
        BY <4>1, <4>2, SubSeqFull
      <4> QED
        BY <3>1, <4>3, CountConcat
    <3>3. CASE dropped(e, ms) # <<>>
      <4>1. w = (SubSeq(ms, 1, h) \o <<marker>>) \o SubSeq(ms, t, L)
        BY <3>3 DEF apply
      <4>2. <<marker>> \in Seq(S) /\ count_tokens(<<marker>>) = mark
        BY CountOne
      <4>3. SubSeq(ms, 1, h) \o <<marker>> \in Seq(S)
        BY <3>1, <4>2, ConcatProperties
      <4>4. count_tokens(SubSeq(ms, 1, h) \o <<marker>>) = ch + mark
        BY <3>1, <4>2, CountConcat
      <4> QED
        BY <3>1, <4>1, <4>3, <4>4, CountConcat
    <3> QED
      BY <3>2, <3>3
  <2> DEFINE tb == tail_budget(e, ms)
  <2>7. /\ cw > e.limit /\ (cw = ch + ct \/ cw = ch + mark + ct) /\ tb \in Nat
        /\ 100 * tb <= left * e.ratio \/ tb = 0
        /\ (ts < L /\ cs <= tb) \/ (ts = L /\ cs = newest) \/ (ts = L + 1 /\ cs = 0)
    BY <2>2, <2>4, <2>5, <2>6
  <2> HIDE DEF h, ts, t, L, w, ch, ct, cs, newest, mark, cw, tb, left
  <2>8. cw \in Int /\ left \in Int /\ over \in Int /\ left + over = cw - ch
    <3>1. cw \in Int /\ e.limit \in Int /\ ch \in Int
      BY <1>3, <1>5, <2>1, <2>7
    <3> QED
      BY <3>1 DEF left
  <2> HIDE DEF over
  <2>9. left + over - mark <= ct
    BY <1>5, <2>1, <2>7, <2>8
  <2>10. CASE ct <= newest
    BY <1>5, <1>7, <2>1, <2>7, <2>8, <2>9, <2>10
  <2>11. CASE ct <= tb /\ 100 * tb <= left * e.ratio
    <3> DEFINE part == left * e.ratio
    <3>1. part \in Int /\ 100 * tb <= part
      BY <1>5, <2>8, <2>11, Shares
    <3> HIDE DEF part
    <3>2. 100 * (left + over - mark) <= part
      BY <1>5, <2>1, <2>7, <2>8, <2>9, <2>11, <3>1
    <3> QED
      BY <1>7, <3>2 DEF part
  <2>12. ct <= newest \/ (ct <= tb /\ 100 * tb <= left * e.ratio)
    BY <1>5, <2>1, <2>7
  <2> QED
    BY <2>10, <2>11, <2>12
<1>8. e.unit # "none"
  BY <1>2 DEF should_compress
<1> QED
  BY <1>6, <1>7, <1>8, EngineType

\* What the comments promise of a window in tokens holds where its marker has room: it then
\* keeps its limit and is its own window (engine.py:42, 166, 224-227).
THEOREM WindowWithRoomFits ==
  ASSUME NEW S, Sized(S), NEW marker \in S, NEW other \in S, NEW ms \in Seq(S), ms # <<>>,
         NEW e \in Engines,
         e.unit = "tokens" =>
           LET left == e.limit - count_tokens(SubSeq(ms, 1, head(e, ms)))
           IN /\ marker.size + Last(ms).size <= left
              /\ 100 * marker.size <= left * (100 - e.ratio)
  PROVE  LET w == apply(e, ms, marker)
         IN ~should_compress(e, w) /\ apply(e, w, other) = w
<1> DEFINE ch == count_tokens(SubSeq(ms, 1, head(e, ms)))
           left == e.limit - ch
           w == apply(e, ms, marker)
           over == count_tokens(w) - e.limit
<1>1. ASSUME should_compress(e, w)
      PROVE  FALSE
  <2>1. /\ e.unit = "tokens"
        /\ \/ left + over <= marker.size + Last(ms).size
           \/ 100 * (left + over - marker.size) <= left * e.ratio
    BY <1>1, WindowFits
  <2>2. w \in Seq(S) /\ e.limit \in Nat /\ e.ratio \in 1..100
    BY WindowRange, EngineType
  <2>3. count_tokens(w) \in Nat
    BY <2>2, CountConcat
  <2>4. count_tokens(w) > e.limit
    BY <1>1, <2>1 DEF should_compress
  <2> HIDE DEF w
  <2>5. over \in Int /\ over > 0
    BY <2>2, <2>3, <2>4
  <2>6. left \in Int
    <3>1. head(e, ms) \in 0..Len(ms)
      BY HeadProperties
    <3>2. \A k \in 1..head(e, ms) : ms[k] \in S
      BY <3>1, ElementOfSeq, LenProperties
    <3>3. SubSeq(ms, 1, head(e, ms)) \in Seq(S)
      BY <3>1, <3>2, SubSeqProperties, LenProperties
    <3>4. ch \in Nat
      BY <3>3, CountConcat
    <3> HIDE DEF ch
    <3> QED
      BY <2>2, <3>4
  <2>7. marker.size \in Nat /\ Last(ms).size \in Nat
    <3>1. Len(ms) \in 1..Len(ms)
      BY LenProperties, EmptySeq
    <3> QED
      BY <3>1, ElementOfSeq DEF Sized, Last
  <2> DEFINE mark == marker.size
             newest == Last(ms).size
  <2>8. mark + newest <= left /\ 100 * mark <= left * (100 - e.ratio)
    BY <2>1
  <2>9. left + over <= mark + newest \/ 100 * (left + over - mark) <= left * e.ratio
    BY <2>1
  <2>10. mark \in Nat /\ newest \in Nat
    BY <2>7
  <2> HIDE DEF left, over, mark, newest
  <2>11. left * (100 - e.ratio) = 100 * left - left * e.ratio
    BY <2>2, <2>6, Shares
  <2>12. left * e.ratio \in Int
    BY <2>2, <2>6, Shares
  <2> DEFINE part == left * e.ratio
             rest == left * (100 - e.ratio)
  <2>13. /\ part \in Int /\ rest = 100 * left - part /\ 100 * mark <= rest
         /\ left + over <= mark + newest \/ 100 * (left + over - mark) <= part
    BY <2>8, <2>9, <2>11, <2>12
  <2> HIDE DEF part, rest
  <2> QED
    BY <2>5, <2>6, <2>8, <2>10, <2>13
<1>2. apply(e, w, other) = w
  BY <1>1 DEF apply, dropped
<1> QED
  BY <1>1, <1>2

-----------------------------------------------------------------------------
(***************************************************************************)
(* The ReAct protocol.                                                     *)
(***************************************************************************)

MessagesOf(C) ==
  [kind : {"system", "human", "ai", "tool"}, size : Nat, id : Nat, calls : Seq(C), nr : Nat,
   hit : BOOLEAN]

\* A result belongs to a call of the AI message in front of its group, and the results
\* from there up to it are numbered.
GroupedAt(ms, i) ==
  LET nr == ms[i].nr IN
  /\ nr \in 1..i - 1
  /\ ms[i - nr].kind = "ai" /\ ms[i - nr].id = ms[i].id
  /\ \A j \in i - nr + 1..i : ms[j].kind = "tool" /\ ms[j].nr = j - (i - nr)

Grouped(ms) == \A i \in 1..Len(ms) : ms[i].kind = "tool" => GroupedAt(ms, i)

\* The calls of a message are answered by the results that follow it.
AnsweredAt(ms, i) ==
  \A nr \in 1..Len(ms[i].calls) :
    i + nr <= Len(ms) /\ ms[i + nr].kind = "tool" /\ ms[i + nr].nr = nr /\ ms[i + nr].id = ms[i].id

LEMMA MessageTypes ==
  ASSUME NEW C
  PROVE  /\ Sized(MessagesOf(C))
         /\ \A kind \in {"system", "human", "ai", "tool"}, size \in Nat :
              Message(kind, size) \in MessagesOf(C)
         /\ SystemMessage \in MessagesOf(C)
         /\ \A size \in Nat :
              HumanMessage(size) \in MessagesOf(C) /\ Marker(size) \in MessagesOf(C)
         /\ \A id \in Nat, calls \in Seq(C) : AIMessage(id, calls) \in MessagesOf(C)
         /\ \A id \in Nat, nr \in Nat, r \in [size : Nat, hit : BOOLEAN] :
              ToolMessage(id, nr, r) \in MessagesOf(C)
<1>1. \A kind \in {"system", "human", "ai", "tool"}, size \in Nat :
        Message(kind, size) \in MessagesOf(C)
  BY EmptySeq DEF Message, MessagesOf
<1>2. SystemMessage \in MessagesOf(C)
      /\ \A size \in Nat :
           HumanMessage(size) \in MessagesOf(C) /\ Marker(size) \in MessagesOf(C)
  BY <1>1 DEF SystemMessage, HumanMessage, Marker
<1>3. \A id \in Nat, calls \in Seq(C) : AIMessage(id, calls) \in MessagesOf(C)
  BY DEF AIMessage, Message, MessagesOf
<1>4. \A id \in Nat, nr \in Nat, r \in [size : Nat, hit : BOOLEAN] :
        ToolMessage(id, nr, r) \in MessagesOf(C)
  BY EmptySeq DEF ToolMessage, Message, MessagesOf
<1>5. Sized(MessagesOf(C))
  BY DEF Sized, MessagesOf
<1> QED
  BY <1>1, <1>2, <1>3, <1>4, <1>5

\* Whatever a window drops, what is left of a legal transcript is legal, as long as the
\* protected head ends before the first batch (engine.py:199-206).
THEOREM WindowIsLegal ==
  ASSUME NEW C, NEW marker \in MessagesOf(C), marker.kind = "human",
         NEW ms \in Seq(MessagesOf(C)), NEW e \in Engines, Legal(ms), Grouped(ms),
         \A i \in 1..Len(ms) : i <= e.first => ms[i].kind \in {"system", "human"}
  PROVE  Legal(apply(e, ms, marker))
<1>1. CASE dropped(e, ms) = <<>>
  BY <1>1 DEF apply
<1>2. CASE dropped(e, ms) # <<>>
  <2> DEFINE h == head(e, ms)
             t == tail(e, ms)
             L == Len(ms)
             w == apply(e, ms, marker)
  <2>1. /\ w \in Seq(MessagesOf(C)) /\ Len(w) = h + L + 2 - t
        /\ \A i \in 1..h : w[i] = ms[i]
        /\ w[h + 1] = marker
        /\ \A i \in t..L : w[i - t + h + 2] = ms[i]
        /\ should_compress(e, ms)
    BY <1>2, MessageTypes, WindowProperties
  <2>2. /\ L \in Nat /\ h \in Nat /\ t \in Nat /\ h <= L /\ h + 1 <= t /\ t <= L + 1
        /\ h <= e.first /\ e.first \in Nat
        /\ t <= L => ms[t].kind # "tool"
    BY <2>1, TailProperties, LenProperties, EngineType
  <2>3. \A i \in 1..L : ms[i] \in MessagesOf(C)
    BY ElementOfSeq
  <2>4. \A i \in 1..L : i <= e.first => ms[i].kind \in {"system", "human"}
    OBVIOUS
  <2>5. \A i \in 1..L : ms[i].kind = "tool" =>
          LET nr == ms[i].nr IN
          /\ nr \in 1..i - 1
          /\ ms[i - nr].kind = "ai" /\ ms[i - nr].id = ms[i].id
          /\ \A j \in i - nr + 1..i : ms[j].kind = "tool"
    BY DEF Grouped, GroupedAt
  <2>6. \A i \in 1..L : CallsTools(ms[i]) => AnsweredAt(ms, i)
    BY DEF Legal, AnsweredAt
  <2> HIDE DEF h, t, L, w
  <2> DEFINE AfterCall(p) == w[p].kind = "tool" =>
               /\ p > w[p].nr
               /\ w[p - w[p].nr].kind = "ai" /\ w[p - w[p].nr].id = w[p].id
             Resolved(p) == CallsTools(w[p]) =>
               \A nr \in 1..Len(w[p].calls) :
                 p + nr <= Len(w) /\ w[p + nr].kind = "tool" /\ w[p + nr].nr = nr
                                  /\ w[p + nr].id = w[p].id
  <2>7. ASSUME NEW p \in 1..Len(w)
        PROVE  AfterCall(p) /\ Resolved(p)
    <3>1. CASE p <= h
      <4>1. p \in 1..h /\ p \in 1..L /\ p <= e.first
        BY <2>1, <2>2, <3>1
      <4>2. w[p].kind \in {"system", "human"}
        BY <2>1, <2>4, <4>1
      <4> QED
        BY <4>2 DEF CallsTools
    <3>2. CASE p = h + 1
      <4>1. w[p].kind = "human"
        BY <2>1, <3>2
      <4> QED
        BY <4>1 DEF CallsTools
    <3>3. CASE p > h + 1
      <4> DEFINE i == p - h - 2 + t
      <4>1. i \in t..L /\ i \in 1..L /\ i - t + h + 2 = p
        BY <2>1, <2>2, <3>3
      <4>2. w[p] = ms[i]
        BY <2>1, <4>1
      <4> HIDE DEF i
      <4>3. AfterCall(p)
        <5>1. SUFFICES ASSUME w[p].kind = "tool"
                       PROVE  /\ p > w[p].nr
                              /\ w[p - w[p].nr].kind = "ai" /\ w[p - w[p].nr].id = w[p].id
          OBVIOUS
        <5> DEFINE nr == ms[i].nr
        <5>2. /\ nr \in 1..i - 1
              /\ ms[i - nr].kind = "ai" /\ ms[i - nr].id = ms[i].id
              /\ \A j \in i - nr + 1..i : ms[j].kind = "tool"
          BY <2>5, <4>1, <4>2, <5>1
        <5>3. w[p].nr = nr
          BY <4>2
        <5> HIDE DEF nr
        <5>4. t <= i - nr
          <6>1. t <= i /\ i \in Nat /\ t <= L
            BY <2>2, <4>1
          <6>2. nr \in Nat /\ ms[t].kind # "tool"
            BY <2>2, <5>2, <6>1
          <6>3. ~(t \in i - nr + 1..i)
            BY <5>2, <6>2
          <6> QED
            BY <2>2, <6>1, <6>2, <6>3
        <5>5. i - nr \in t..L /\ (i - nr) - t + h + 2 = p - nr /\ p > nr
          BY <2>2, <4>1, <5>2, <5>4
        <5>6. w[p - nr] = ms[i - nr]
          BY <2>1, <5>5
        <5> QED
          BY <4>2, <5>2, <5>3, <5>5, <5>6
      <4>4. Resolved(p)
        <5>1. SUFFICES ASSUME CallsTools(w[p]), NEW nr \in 1..Len(w[p].calls)
                       PROVE  /\ p + nr <= Len(w) /\ w[p + nr].kind = "tool"
                              /\ w[p + nr].nr = nr /\ w[p + nr].id = w[p].id
          OBVIOUS
        <5>2. AnsweredAt(ms, i)
          BY <2>6, <4>1, <4>2, <5>1
        <5>3. i + nr <= L /\ ms[i + nr].kind = "tool" /\ ms[i + nr].nr = nr
              /\ ms[i + nr].id = ms[i].id
          BY <4>2, <5>1, <5>2 DEF AnsweredAt, L
        <5>4. nr \in Nat
          OBVIOUS
        <5>5. i + nr \in t..L /\ (i + nr) - t + h + 2 = p + nr /\ p + nr <= Len(w)
          BY <2>1, <2>2, <4>1, <5>3, <5>4
        <5>6. w[p + nr] = ms[i + nr]
          BY <2>1, <5>5
        <5> QED
          BY <4>2, <5>3, <5>5, <5>6
      <4> QED
        BY <4>3, <4>4
    <3> QED
      BY <2>1, <2>2, <3>1, <3>2, <3>3
  <2>8. Legal(w)
    BY <2>7 DEF Legal
  <2> QED
    BY <2>8 DEF w
<1> QED
  BY <1>1, <1>2

=============================================================================
