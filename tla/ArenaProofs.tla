----------------------------- MODULE ArenaProofs -----------------------------
(***************************************************************************)
(* Theorems about CodeCache, for every size of the arena, set of requests, *)
(* policy and faults: the three allocators implement Arena, and the free   *)
(* list is exactly the complement of what is in use, in order and with no  *)
(* two spans touching.  At the end: an allocation runs out of blocks to    *)
(* evict.                                                                  *)
(***************************************************************************)
EXTENDS CodeCache, SequenceTheorems, FiniteSetTheorems, WellFoundedInduction, TLAPS

-----------------------------------------------------------------------------
(* Lists of spans *)

End(s) == s.off + s.size

\* Unit u of the arena belongs to the span s, to a span of the list F.
In(u, s)    == s.off <= u /\ u < End(s)
Holds(F, u) == \E i \in DOMAIN F : In(u, F[i])

\* A span that takes up some of the arena.
Proper(s) == s \in Spans /\ s.size > 0 /\ End(s) <= Cap

\* A list in address order with something between any two of its spans.
Separated(F) ==
  /\ F \in Seq(Spans)
  /\ \A i \in 1..Len(F) : Proper(F[i])
  /\ \A i, j \in 1..Len(F) : i < j => End(F[i]) < F[j].off

LEMMA SpanFacts ==
  ASSUME NEW s \in Spans
  PROVE  s.off \in Nat /\ s.size \in Nat /\ s.off <= Cap /\ s.size <= Cap /\ End(s) \in Nat
BY CapAssumption DEF Spans, End

LEMMA ProperFacts ==
  ASSUME NEW s, Proper(s)
  PROVE  /\ s \in Spans /\ s.off \in Nat /\ s.size \in Nat \ {0} /\ s.off + s.size <= Cap
         /\ End(s) = s.off + s.size /\ Span(s.off, s.size) = s
         /\ s.off \in 0..(Cap - 1) /\ In(s.off, s)
<1>1. s.off \in Nat /\ s.size \in Nat \ {0} /\ s.off + s.size <= Cap
  BY SpanFacts DEF Proper, End
<1>2. Span(s.off, s.size) = s
  BY DEF Proper, Spans, Span
<1> QED
  BY <1>1, <1>2, CapAssumption DEF Proper, End, In

\* A part of a proper span.
LEMMA PartProper ==
  ASSUME NEW o \in Nat, NEW n \in Nat \ {0}, o + n <= Cap
  PROVE  Proper(Span(o, n)) /\ Span(o, n).off = o /\ Span(o, n).size = n /\ End(Span(o, n)) = o + n
BY CapAssumption DEF Proper, Spans, Span, End

\* Spans overlap if they share a unit.
LEMMA OverlapIn ==
  ASSUME NEW s, NEW t, Proper(s), Proper(t)
  PROVE  Overlap(s, t) <=> \E u \in 0..(Cap - 1) : In(u, s) /\ In(u, t)
<1>1. /\ s.off \in Nat /\ s.size \in Nat /\ t.off \in Nat /\ t.size \in Nat
      /\ s.size > 0 /\ t.size > 0 /\ s.off + s.size <= Cap /\ t.off + t.size <= Cap
  BY SpanFacts DEF Proper, End
<1>2. ASSUME Overlap(s, t) PROVE \E u \in 0..(Cap - 1) : In(u, s) /\ In(u, t)
  <2>1. CASE s.off <= t.off
    <3>1. t.off \in 0..(Cap - 1) /\ In(t.off, s) /\ In(t.off, t)
      BY <1>1, <1>2, <2>1, CapAssumption DEF Overlap, In, End
    <3> QED
      BY <3>1
  <2>2. CASE t.off <= s.off
    <3>1. s.off \in 0..(Cap - 1) /\ In(s.off, s) /\ In(s.off, t)
      BY <1>1, <1>2, <2>2, CapAssumption DEF Overlap, In, End
    <3> QED
      BY <3>1
  <2> QED
    BY <1>1, <2>1, <2>2
<1>3. ASSUME NEW u \in 0..(Cap - 1), In(u, s), In(u, t) PROVE Overlap(s, t)
  BY <1>1, <1>3, CapAssumption DEF Overlap, In, End
<1> QED
  BY <1>2, <1>3

\* A list whose entries from k + 1 to m make way for the list X.
Spliced(F, k, X, m) == SubSeq(F, 1, k) \o X \o SubSeq(F, m + 1, Len(F))

LEMMA SplicedEntries ==
  ASSUME NEW F \in Seq(Spans), NEW X \in Seq(Spans), NEW k \in 0..Len(F), NEW m \in k..Len(F)
  PROVE  LET G == Spliced(F, k, X, m) IN
         /\ G \in Seq(Spans) /\ Len(G) = k + Len(X) + (Len(F) - m)
         /\ \A i \in 1..Len(G) :
              G[i] = IF i <= k THEN F[i]
                     ELSE IF i <= k + Len(X) THEN X[i - k]
                     ELSE F[(i - k - Len(X)) + m]
<1> DEFINE A == SubSeq(F, 1, k)
           B == SubSeq(F, m + 1, Len(F))
<1>1. Len(F) \in Nat /\ k \in Nat /\ m \in Nat /\ k <= m /\ m <= Len(F) /\ Len(X) \in Nat
  BY LenProperties
<1>2. /\ A \in Seq(Spans) /\ Len(A) = k /\ \A i \in 1..k : A[i] = F[i]
  <2>1. \A i \in 1..k : F[i] \in Spans
    BY <1>1, ElementOfSeq
  <2>2. /\ A \in Seq(Spans) /\ Len(A) = IF 1 <= k THEN k - 1 + 1 ELSE 0
        /\ \A i \in 1..(k - 1 + 1) : A[i] = F[1 + i - 1]
    BY <1>1, <2>1, SubSeqProperties
  <2> QED
    BY <1>1, <2>2
<1>3. /\ B \in Seq(Spans) /\ Len(B) = Len(F) - m
      /\ \A i \in 1..(Len(F) - m) : B[i] = F[i + m]
  <2>1. \A i \in (m + 1)..Len(F) : F[i] \in Spans
    BY <1>1, ElementOfSeq
  <2>2. /\ B \in Seq(Spans)
        /\ Len(B) = IF m + 1 <= Len(F) THEN Len(F) - (m + 1) + 1 ELSE 0
        /\ \A i \in 1..(Len(F) - (m + 1) + 1) : B[i] = F[(m + 1) + i - 1]
    BY <1>1, <2>1, SubSeqProperties
  <2> QED
    BY <1>1, <2>2
<1> HIDE DEF A, B
<1>4. /\ A \o X \in Seq(Spans) /\ Len(A \o X) = k + Len(X)
      /\ \A i \in 1..(k + Len(X)) : (A \o X)[i] = IF i <= k THEN A[i] ELSE X[i - k]
  BY <1>2, ConcatProperties
<1>5. /\ (A \o X) \o B \in Seq(Spans) /\ Len((A \o X) \o B) = k + Len(X) + (Len(F) - m)
      /\ \A i \in 1..(k + Len(X) + (Len(F) - m)) :
           ((A \o X) \o B)[i] = IF i <= k + Len(X) THEN (A \o X)[i] ELSE B[i - (k + Len(X))]
  <2> DEFINE C == A \o X
  <2>1. C \in Seq(Spans) /\ Len(C) = k + Len(X)
    BY <1>4
  <2> HIDE DEF C
  <2>2. /\ C \o B \in Seq(Spans) /\ Len(C \o B) = Len(C) + Len(B)
        /\ \A i \in 1..Len(C) + Len(B) :
             (C \o B)[i] = IF i <= Len(C) THEN C[i] ELSE B[i - Len(C)]
    <3>1. C \in Seq(Spans) /\ B \in Seq(Spans)
      BY <1>3, <2>1
    <3> QED
      BY <3>1, ConcatProperties, Zenon
  <2>3. /\ C \o B \in Seq(Spans) /\ Len(C \o B) = k + Len(X) + (Len(F) - m)
        /\ \A i \in 1..(k + Len(X) + (Len(F) - m)) :
             (C \o B)[i] = IF i <= k + Len(X) THEN C[i] ELSE B[i - (k + Len(X))]
    BY <1>3, <2>1, <2>2
  <2> QED
    BY <2>3 DEF C
<1>6. Spliced(F, k, X, m) = (A \o X) \o B
  BY DEF Spliced, A, B
<1>7. ASSUME NEW i \in 1..(k + Len(X) + (Len(F) - m))
      PROVE  ((A \o X) \o B)[i] = IF i <= k THEN F[i]
                                  ELSE IF i <= k + Len(X) THEN X[i - k]
                                  ELSE F[(i - k - Len(X)) + m]
  <2>1. CASE i <= k
    BY <1>1, <1>2, <1>4, <1>5, <2>1
  <2>2. CASE ~(i <= k) /\ i <= k + Len(X)
    BY <1>1, <1>4, <1>5, <2>2
  <2>3. CASE ~(i <= k + Len(X))
    <3>1. i - (k + Len(X)) \in 1..(Len(F) - m) /\ i - (k + Len(X)) = i - k - Len(X) /\ ~(i <= k)
      BY <1>1, <2>3
    <3> QED
      BY <1>3, <1>5, <2>3, <3>1
  <2> QED
    BY <1>1, <2>1, <2>2, <2>3
<1> QED
  BY <1>5, <1>6, <1>7

\* It stays in order if X fits into the gap.
LEMMA SplicedSeparated ==
  ASSUME NEW F, Separated(F), NEW X, Separated(X), NEW k \in 0..Len(F), NEW m \in k..Len(F),
         \A i \in 1..k : \A x \in 1..Len(X) : End(F[i]) < X[x].off,
         \A j \in (m + 1)..Len(F) : \A x \in 1..Len(X) : End(X[x]) < F[j].off
  PROVE  LET G == Spliced(F, k, X, m) IN
         /\ Separated(G)
         /\ \A u : Holds(G, u) <=> \/ Holds(X, u)
                                   \/ \E i \in 1..Len(F) : (i <= k \/ i > m) /\ In(u, F[i])
<1> DEFINE G == Spliced(F, k, X, m)
           n == Len(X)
           f == Len(F)
<1>1. F \in Seq(Spans) /\ X \in Seq(Spans)
  BY DEF Separated
<1>2. f \in Nat /\ n \in Nat /\ k \in Nat /\ m \in Nat /\ k <= m /\ m <= f
  BY <1>1, LenProperties
<1>3. /\ G \in Seq(Spans) /\ Len(G) = k + n + (f - m)
      /\ \A i \in 1..Len(G) : G[i] = IF i <= k THEN F[i]
                                     ELSE IF i <= k + n THEN X[i - k]
                                     ELSE F[(i - k - n) + m]
  BY <1>1, SplicedEntries
<1> HIDE DEF G, n, f
<1>4. ASSUME NEW i \in 1..Len(G)
      PROVE  \/ i <= k /\ i \in 1..f /\ G[i] = F[i]
             \/ i > k /\ i <= k + n /\ i - k \in 1..n /\ G[i] = X[i - k]
             \/ i > k + n /\ (i - k - n) + m \in (m + 1)..f /\ G[i] = F[(i - k - n) + m]
  BY <1>2, <1>3
<1>5. \A i \in 1..Len(G) : Proper(G[i])
  <2> TAKE i \in 1..Len(G)
  <2>1. (i - k - n) + m \in (m + 1)..f => (i - k - n) + m \in 1..f
    BY <1>2
  <2> QED
    BY <1>4, <2>1 DEF Separated, n, f
<1>6. ASSUME NEW i \in 1..Len(G), NEW j \in 1..Len(G), i < j
      PROVE  End(G[i]) < G[j].off
  <2> DEFINE p == (i - k - n) + m
             q == (j - k - n) + m
  <2>1. CASE j <= k
    <3>1. i \in 1..f /\ j \in 1..f /\ G[i] = F[i] /\ G[j] = F[j]
      BY <1>2, <1>3, <1>6, <2>1
    <3> QED
      BY <1>6, <3>1 DEF Separated, f
  <2>2. CASE j > k /\ j <= k + n /\ i <= k
    <3>1. i \in 1..k /\ j - k \in 1..n /\ G[i] = F[i] /\ G[j] = X[j - k]
      BY <1>2, <1>3, <1>6, <2>2
    <3> QED
      BY <3>1 DEF n
  <2>3. CASE j > k /\ j <= k + n /\ i > k
    <3>1. i - k \in 1..n /\ j - k \in 1..n /\ i - k < j - k /\ G[i] = X[i - k] /\ G[j] = X[j - k]
      BY <1>2, <1>3, <1>6, <2>3
    <3> QED
      BY <3>1 DEF Separated, n
  <2>4. CASE j > k + n /\ i <= k
    <3>1. i \in 1..f /\ q \in 1..f /\ i < q /\ G[i] = F[i] /\ G[j] = F[q]
      BY <1>2, <1>3, <1>6, <2>4
    <3> QED
      BY <3>1 DEF Separated, f
  <2>5. CASE j > k + n /\ i > k /\ i <= k + n
    <3>1. i - k \in 1..n /\ q \in (m + 1)..f /\ G[i] = X[i - k] /\ G[j] = F[q]
      BY <1>2, <1>3, <1>6, <2>5
    <3> QED
      BY <3>1 DEF f, n
  <2>6. CASE j > k + n /\ i > k + n
    <3>1. p \in 1..f /\ q \in 1..f /\ p < q /\ G[i] = F[p] /\ G[j] = F[q]
      BY <1>2, <1>3, <1>6, <2>6
    <3> QED
      BY <3>1 DEF Separated, f
  <2> QED
    BY <1>2, <1>3, <2>1, <2>2, <2>3, <2>4, <2>5, <2>6
<1>7. Separated(G)
  BY <1>3, <1>5, <1>6 DEF Separated
<1>8. DOMAIN G = 1..Len(G) /\ DOMAIN X = 1..n
  BY <1>1, <1>3, LenProperties DEF n
<1>9. ASSUME NEW u
      PROVE  Holds(G, u) <=> \/ Holds(X, u)
                             \/ \E i \in 1..f : (i <= k \/ i > m) /\ In(u, F[i])
  <2>1. ASSUME NEW i \in 1..Len(G), In(u, G[i])
        PROVE  Holds(X, u) \/ \E h \in 1..f : (h <= k \/ h > m) /\ In(u, F[h])
    <3>1. CASE i <= k
      BY <1>4, <2>1, <3>1
    <3>2. CASE i > k /\ i <= k + n
      <4>1. i - k \in DOMAIN X /\ In(u, X[i - k])
        BY <1>2, <1>4, <1>8, <2>1, <3>2
      <4> QED
        BY <4>1 DEF Holds
    <3>3. CASE i > k + n
      <4>1. (i - k - n) + m \in 1..f /\ (i - k - n) + m > m /\ In(u, F[(i - k - n) + m])
        BY <1>2, <1>4, <2>1, <3>3
      <4> QED
        BY <4>1
    <3> QED
      BY <1>2, <3>1, <3>2, <3>3
  <2>2. ASSUME NEW x \in 1..n, In(u, X[x]) PROVE \E i \in 1..Len(G) : In(u, G[i])
    <3>1. k + x \in 1..Len(G) /\ G[k + x] = X[x]
      BY <1>2, <1>3
    <3> QED
      BY <2>2, <3>1
  <2>3. ASSUME NEW i \in 1..f, i <= k \/ i > m, In(u, F[i])
        PROVE  \E h \in 1..Len(G) : In(u, G[h])
    <3>1. CASE i <= k
      BY <1>2, <1>3, <2>3, <3>1
    <3>2. CASE i > m
      <4>1. (i - m) + k + n \in 1..Len(G) /\ G[(i - m) + k + n] = F[i]
        BY <1>2, <1>3, <3>2
      <4> QED
        BY <2>3, <4>1
    <3> QED
      BY <2>3, <3>1, <3>2
  <2> QED
    BY <1>8, <2>1, <2>2, <2>3 DEF Holds
<1> QED
  BY <1>7, <1>9 DEF G, f

-----------------------------------------------------------------------------
(* The walks over the free list *)

LEMMA Least ==
  ASSUME NEW S \in SUBSET Nat, S # {}
  PROVE  \E i \in S : \A j \in S : i <= j
<1>1. PICK i \in S : \A j \in S : << j, i >> \notin OpToRel(<, Nat)
  BY WFMin, NatLessThanWellFounded
<1>2. \A j \in S : ~(j < i)
  BY <1>1 DEF OpToRel
<1> QED
  BY <1>2

\* The walk of codecache_alloc stops at an entry that is large enough.
LEMMA FirstFitFits ==
  ASSUME NEW c, NEW n, c.free \in Seq(Spans), Fits(c, n) # {}
  PROVE  LET i == FirstFit(c, n) IN i \in 1..Len(c.free) /\ c.free[i].size >= n
<1>1. DOMAIN c.free = 1..Len(c.free) /\ Len(c.free) \in Nat
  BY LenProperties
<1>2. Fits(c, n) \in SUBSET Nat
  BY <1>1 DEF Fits
<1>3. \E i \in Fits(c, n) : \A j \in Fits(c, n) : i <= j
  BY <1>2, Least
<1>4. FirstFit(c, n) \in Fits(c, n)
  BY <1>3 DEF FirstFit
<1> QED
  BY <1>1, <1>4 DEF Fits

\* The walk of codecache_free stops between the spans below and those above.
LEMMA PassedSplits ==
  ASSUME NEW F \in Seq(Spans), NEW o \in Nat
  PROVE  LET k == Passed(F, o) IN
         /\ k \in 0..Len(F)
         /\ \A i \in 1..k : F[i].off < o
         /\ k < Len(F) => F[k + 1].off >= o
<1> DEFINE T(k) == /\ \A i \in 1..k : F[i].off < o
                   /\ k < Len(F) => F[k + 1].off >= o
           above == {i \in 1..Len(F) : F[i].off >= o}
<1>1. Len(F) \in Nat /\ \A i \in 1..Len(F) : F[i].off \in Nat
  BY LenProperties, ElementOfSeq, SpanFacts
<1>2. \E k \in 0..Len(F) : T(k)
  <2>1. CASE above = {}
    <3>1. T(Len(F))
      BY <1>1, <2>1
    <3> QED
      BY <1>1, <3>1
  <2>2. CASE above # {}
    <3>1. above \in SUBSET Nat
      BY <1>1
    <3>2. PICK i \in above : \A j \in above : i <= j
      BY <2>2, <3>1, Least
    <3>3. i - 1 \in 0..Len(F) /\ T(i - 1)
      BY <1>1, <3>2
    <3> QED
      BY <3>3
  <2> QED
    BY <2>1, <2>2
<1>3. Passed(F, o) = CHOOSE k \in 0..Len(F) : T(k)
  BY DEF Passed
<1> HIDE DEF T
<1>4. Passed(F, o) \in 0..Len(F) /\ T(Passed(F, o))
  BY <1>2, <1>3
<1> QED
  BY <1>4 DEF T

-----------------------------------------------------------------------------
(* Carving and freeing *)

\* A list of one span.
LEMMA Single ==
  ASSUME NEW s, Proper(s)
  PROVE  /\ Separated(<< s >>) /\ Len(<< s >>) = 1 /\ << s >>[1] = s
         /\ \A u : Holds(<< s >>, u) <=> In(u, s)
<1>1. << s >> \in Seq(Spans) /\ Len(<< s >>) = 1 /\ << s >>[1] = s /\ DOMAIN << s >> = 1..1
  BY DEF Proper
<1> QED
  BY <1>1 DEF Separated, Holds

LEMMA Empty == Separated(<< >>) /\ Len(<< >>) = 0 /\ \A u : ~Holds(<< >>, u)
BY DEF Separated, Holds

\* Carving n units off an entry takes those units and no others off the list.
LEMMA CarveList ==
  ASSUME NEW F, Separated(F), NEW i \in 1..Len(F), NEW n \in Nat \ {0}, F[i].size >= n
  PROVE  /\ Separated(Carve(F, i, n))
         /\ \A u \in 0..(Cap - 1) :
              Holds(Carve(F, i, n), u) <=> Holds(F, u) /\ ~In(u, Span(F[i].off, n))
<1> DEFINE s == F[i]
           tail == Span(s.off + n, s.size - n)
           X == IF tail.size > 0 THEN << tail >> ELSE << >>
           G == Spliced(F, i - 1, X, i)
<1>1. /\ F \in Seq(Spans) /\ Len(F) \in Nat /\ DOMAIN F = 1..Len(F)
      /\ \A j \in 1..Len(F) : Proper(F[j])
      /\ \A j, h \in 1..Len(F) : j < h => End(F[j]) < F[h].off
  BY LenProperties DEF Separated
<1>2. /\ s.off \in Nat /\ s.size \in Nat /\ End(s) = s.off + s.size /\ End(s) <= Cap
      /\ \A j \in 1..Len(F) : F[j].off \in Nat /\ End(F[j]) \in Nat /\ F[j].off < End(F[j])
  BY <1>1, SpanFacts DEF Proper, End
<1>3. tail.off = s.off + n /\ tail.size = s.size - n /\ (tail.size > 0 => Proper(tail))
  <2> DEFINE o == s.off
             b == s.size
  <2>1. o \in Nat /\ b \in Nat /\ b >= n /\ o + b <= Cap
    BY <1>2
  <2>2. tail = Span(o + n, b - n)
    OBVIOUS
  <2> HIDE DEF o, b, tail
  <2>3. tail.off = o + n /\ tail.size = b - n
    BY <2>2 DEF Span
  <2>4. ASSUME b - n > 0 PROVE Proper(tail)
    <3>1. o + n \in Nat /\ b - n \in Nat \ {0} /\ (o + n) + (b - n) <= Cap
      BY <2>1, <2>4, CapAssumption
    <3> QED
      BY <2>2, <3>1, PartProper
  <2> QED
    BY <2>3, <2>4 DEF o, b
<1>4. /\ Separated(X)
      /\ \A x \in 1..Len(X) : tail.size > 0 /\ X[x] = tail
      /\ \A u : Holds(X, u) <=> tail.size > 0 /\ In(u, tail)
  <2>1. CASE tail.size > 0
    BY <1>3, <2>1, Single
  <2>2. CASE ~(tail.size > 0)
    BY <2>2, Empty
  <2> QED
    BY <2>1, <2>2
<1>5. Carve(F, i, n) = G
  BY DEF Carve, Spliced
<1> HIDE DEF X
<1>6. /\ i - 1 \in 0..Len(F) /\ i \in (i - 1)..Len(F)
      /\ \A j \in 1..(i - 1) : End(F[j]) < s.off
      /\ \A j \in (i + 1)..Len(F) : End(s) < F[j].off
  BY <1>1
<1>7. /\ \A j \in 1..(i - 1) : \A x \in 1..Len(X) : End(F[j]) < X[x].off
      /\ \A j \in (i + 1)..Len(F) : \A x \in 1..Len(X) : End(X[x]) < F[j].off
  <2>1. End(tail) = End(s)
    <3> DEFINE o == s.off
               b == s.size
    <3>1. o \in Nat /\ b \in Nat /\ tail.off = o + n /\ tail.size = b - n
      BY <1>2, <1>3
    <3> HIDE DEF o, b, tail
    <3>2. tail.off + tail.size = o + b
      BY <3>1
    <3> QED
      BY <3>2 DEF End, o, b
  <2>2. \A j \in 1..(i - 1) : End(F[j]) \in Nat
    <3>1. \A j \in 1..(i - 1) : j \in 1..Len(F)
      BY <1>1
    <3> HIDE DEF s, tail
    <3> QED
      BY <1>2, <3>1
  <2>3. \A x \in 1..Len(X) : X[x].off = s.off + n /\ End(X[x]) = End(s)
    <3> HIDE DEF s, tail
    <3> QED
      BY <1>3, <1>4, <2>1
  <2>4. s.off \in Nat
    BY <1>2
  <2> HIDE DEF s, tail
  <2>5. ASSUME NEW j \in 1..(i - 1), NEW x \in 1..Len(X) PROVE End(F[j]) < X[x].off
    BY <1>6, <2>2, <2>3, <2>4
  <2>6. ASSUME NEW j \in (i + 1)..Len(F), NEW x \in 1..Len(X) PROVE End(X[x]) < F[j].off
    BY <1>6, <2>3
  <2> QED
    BY <2>5, <2>6
<1>8. /\ Separated(G)
      /\ \A u : Holds(G, u) <=> \/ Holds(X, u)
                                \/ \E j \in 1..Len(F) : (j <= i - 1 \/ j > i) /\ In(u, F[j])
  BY <1>4, <1>6, <1>7, SplicedSeparated
<1> HIDE DEF G
<1>9. ASSUME NEW u \in 0..(Cap - 1)
      PROVE  Holds(G, u) <=> Holds(F, u) /\ ~In(u, Span(s.off, n))
  <2>1. /\ In(u, Span(s.off, n)) <=> s.off <= u /\ u < s.off + n
        /\ In(u, s) <=> s.off <= u /\ u < s.off + s.size
        /\ tail.size > 0 /\ In(u, tail) <=> s.off + n <= u /\ u < s.off + s.size
    BY <1>2, <1>3 DEF In, End, Span
  <2>2. ASSUME NEW j \in 1..Len(F), j # i, In(u, F[j]) PROVE ~In(u, s)
    <3> DEFINE a == F[j].off
               b == End(F[j])
               o == s.off
               e == s.off + s.size
    <3>1. a \in Nat /\ b \in Nat /\ o \in Nat /\ e \in Nat /\ u \in Int
      BY <1>2, CapAssumption
    <3>2. b < o \/ e < a
      <4>1. j \in 1..(i - 1) \/ j \in (i + 1)..Len(F)
        BY <1>1, <2>2
      <4> HIDE DEF s
      <4> QED
        BY <1>2, <1>6, <4>1
    <3>3. a <= u /\ u < b
      BY <2>2 DEF In
    <3> HIDE DEF a, b
    <3>4. ~(o <= u /\ u < e)
      <4> HIDE DEF o, e
      <4> QED
        BY <3>1, <3>2, <3>3
    <3> QED
      BY <2>1, <3>4
  <2>3. u \in Int /\ (In(u, s) <=> In(u, Span(s.off, n)) \/ (tail.size > 0 /\ In(u, tail)))
        /\ ~(In(u, Span(s.off, n)) /\ tail.size > 0 /\ In(u, tail))
    BY <1>2, <2>1
  <2>4. Holds(F, u) <=> In(u, s) \/ \E j \in 1..Len(F) : (j <= i - 1 \/ j > i) /\ In(u, F[j])
    BY <1>1 DEF Holds
  <2>5. ASSUME NEW j \in 1..Len(F), j <= i - 1 \/ j > i, In(u, F[j])
        PROVE  ~In(u, Span(s.off, n))
    BY <2>2, <2>3, <2>5
  <2> QED
    BY <1>4, <1>8, <2>3, <2>4, <2>5
<1> QED
  BY <1>5, <1>8, <1>9

LEMMA GrownSpan ==
  ASSUME NEW s \in Spans, NEW z \in Nat, s.size + z \in 0..Cap
  PROVE  [s EXCEPT !.size = @ + z] = Span(s.off, s.size + z)
<1> DEFINE t == [s EXCEPT !.size = @ + z]
<1>1. s.off \in 0..Cap /\ s.size \in 0..Cap
  BY DEF Spans
<1>2. DOMAIN s = {"off", "size"}
  BY DEF Spans
<1>3. t = [x \in {"off", "size"} |-> IF x = "size" THEN s.size + z ELSE s[x]]
  BY <1>2
<1> QED
  BY <1>3 DEF Span

\* Entry k takes in the z units after it.
Grown(F, k, z) == [F EXCEPT ![k].size = @ + z]

LEMMA GrownEntry ==
  ASSUME NEW F \in Seq(Spans), NEW k \in 1..Len(F), NEW z \in Nat, F[k].size + z \in 0..Cap
  PROVE  Grown(SubSeq(F, 1, k), k, z)
           = SubSeq(F, 1, k - 1) \o << Span(F[k].off, F[k].size + z) >>
<1> DEFINE B == SubSeq(F, 1, k)
           A == SubSeq(F, 1, k - 1)
           y == Span(F[k].off, F[k].size + z)
<1>1. Len(F) \in Nat /\ k \in Nat /\ k >= 1 /\ k <= Len(F) /\ \A i \in 1..Len(F) : F[i] \in Spans
  BY LenProperties, ElementOfSeq
<1>2. B \in Seq(Spans) /\ Len(B) = k /\ \A i \in 1..k : B[i] = F[i]
  <2>1. \A i \in 1..k : F[i] \in Spans
    BY <1>1
  <2>2. /\ B \in Seq(Spans) /\ Len(B) = IF 1 <= k THEN k - 1 + 1 ELSE 0
        /\ \A i \in 1..(k - 1 + 1) : B[i] = F[1 + i - 1]
    BY <1>1, <2>1, SubSeqProperties
  <2> QED
    BY <1>1, <2>2
<1>3. A \in Seq(Spans) /\ Len(A) = k - 1 /\ \A i \in 1..(k - 1) : A[i] = F[i]
  <2>1. \A i \in 1..(k - 1) : F[i] \in Spans
    BY <1>1
  <2>2. /\ A \in Seq(Spans) /\ Len(A) = IF 1 <= k - 1 THEN (k - 1) - 1 + 1 ELSE 0
        /\ \A i \in 1..((k - 1) - 1 + 1) : A[i] = F[1 + i - 1]
    BY <1>1, <2>1, SubSeqProperties
  <2> QED
    BY <1>1, <2>2
<1>4. y \in Spans /\ [F[k] EXCEPT !.size = @ + z] = y
  <2>1. PICK s \in Spans : s = F[k]
    BY <1>1
  <2>2. s.off \in 0..Cap /\ s.size + z \in 0..Cap
    BY <2>1 DEF Spans
  <2>3. [s EXCEPT !.size = @ + z] = Span(s.off, s.size + z)
    BY <2>2, GrownSpan
  <2> QED
    BY <2>1, <2>2, <2>3 DEF Spans, Span
<1> HIDE DEF A, B, y
<1>5. [B EXCEPT ![k].size = @ + z] = [B EXCEPT ![k] = y]
  <2>1. B[k] = F[k]
    BY <1>1, <1>2
  <2>2. [B[k] EXCEPT !.size = @ + z] = y
    BY <1>4, <2>1
  <2> QED
    BY <2>2
<1>6. /\ [B EXCEPT ![k] = y] \in Seq(Spans) /\ Len([B EXCEPT ![k] = y]) = k
      /\ \A i \in 1..k : [B EXCEPT ![k] = y][i] = IF i = k THEN y ELSE B[i]
  BY <1>1, <1>2, <1>4, ExceptSeq
<1>7. /\ A \o << y >> \in Seq(Spans) /\ Len(A \o << y >>) = k
      /\ \A i \in 1..k : (A \o << y >>)[i] = IF i = k THEN y ELSE A[i]
  <2>1. << y >> \in Seq(Spans) /\ Len(<< y >>) = 1 /\ << y >>[1] = y
    BY <1>4
  <2>2. /\ A \o << y >> \in Seq(Spans) /\ Len(A \o << y >>) = Len(A) + Len(<< y >>)
        /\ \A i \in 1..Len(A) + Len(<< y >>) :
             (A \o << y >>)[i] = IF i <= Len(A) THEN A[i] ELSE << y >>[i - Len(A)]
    BY <1>3, <2>1, ConcatProperties
  <2> QED
    BY <1>1, <1>3, <2>1, <2>2
<1>8. [B EXCEPT ![k] = y] = A \o << y >>
  <2> DEFINE L == [B EXCEPT ![k] = y]
             R == A \o << y >>
  <2>1. \A i \in 1..k : L[i] = R[i]
    BY <1>1, <1>2, <1>3, <1>6, <1>7
  <2>2. L \in Seq(Spans) /\ R \in Seq(Spans) /\ Len(L) = Len(R) /\ Len(L) = k
    BY <1>6, <1>7
  <2> HIDE DEF L, R
  <2>3. L = R
    BY <2>1, <2>2, SeqEqual
  <2> QED
    BY <2>3 DEF L, R
<1> QED
  BY <1>5, <1>8 DEF A, B, y, Grown

\* Where the span of n units at o joins its neighbours in F, and the span it becomes.
JoinsNext(F, k, o, n) == k < Len(F) /\ o + n = F[k + 1].off
JoinsPrev(F, k, o)    == k > 0 /\ End(F[k]) = o

Joined(F, k, o, n) ==
  LET z == IF JoinsNext(F, k, o, n) THEN n + F[k + 1].size ELSE n
  IN  IF JoinsPrev(F, k, o) THEN Span(F[k].off, F[k].size + z) ELSE Span(o, z)

Freed(F, k, o, n) ==
  Spliced(F, IF JoinsPrev(F, k, o) THEN k - 1 ELSE k,
          << Joined(F, k, o, n) >>,
          IF JoinsNext(F, k, o, n) THEN k + 1 ELSE k)

\* codecache_free replaces the neighbours the span joins by the joint span.
LEMMA FreeSpanSplices ==
  ASSUME NEW c \in [used : 0..Cap, free : Seq(Spans)], Separated(c.free),
         NEW o \in Nat, NEW n \in Nat, o + n <= Cap
  PROVE  FreeSpan(c, o, n) = [c EXCEPT !.free = Freed(c.free, Passed(c.free, o), o, n)]
<1> DEFINE F == c.free
           k == Passed(F, o)
           f == Len(F)
           before == SubSeq(F, 1, k)
           after  == SubSeq(F, k + 1, f)
           N == JoinsNext(F, k, o, n)
           P == JoinsPrev(F, k, o)
           z == IF N THEN n + F[k + 1].size ELSE n
           rest == IF N THEN Tail(after) ELSE after
<1>1. /\ F \in Seq(Spans) /\ f \in Nat /\ k \in 0..f
      /\ \A i \in 1..f : F[i] \in Spans /\ Proper(F[i]) /\ F[i].off \in Nat /\ F[i].size \in Nat
  BY LenProperties, PassedSplits, ElementOfSeq, SpanFacts DEF Separated
<1>2. /\ (after # << >>) <=> (k < f)
      /\ k < f => after[1] = F[k + 1] /\ Tail(after) = SubSeq(F, k + 2, f)
  <2>1. CASE k < f
    <3>1. \A i \in (k + 1)..f : F[i] \in Spans
      BY <1>1
    <3>2. /\ after \in Seq(Spans) /\ Len(after) = IF k + 1 <= f THEN f - (k + 1) + 1 ELSE 0
          /\ \A i \in 1..(f - (k + 1) + 1) : after[i] = F[(k + 1) + i - 1]
      BY <1>1, <3>1, SubSeqProperties
    <3>3. Len(after) > 0 /\ after[1] = F[k + 1]
      BY <1>1, <2>1, <3>2
    <3>4. k + 1 \in 1..f /\ f \in (k + 1)..f /\ (k + 1) + 1 = k + 2
      BY <1>1, <2>1
    <3>5. Tail(after) = SubSeq(F, (k + 1) + 1, f)
      BY <1>1, <3>4, HeadTailOfSubSeq
    <3>6. after # << >>
      <4> HIDE DEF after
      <4> QED
        BY <3>3
    <3> QED
      BY <2>1, <3>3, <3>4, <3>5, <3>6
  <2>2. CASE ~(k < f)
    <3>1. after = << >>
      BY <1>1, <2>2, SubSeqEmpty
    <3> QED
      BY <2>2, <3>1
  <2> QED
    BY <2>1, <2>2
<1>3. k > 0 => before[k] = F[k] /\ k \in 1..f
  <2>1. \A i \in 1..k : F[i] \in Spans
    BY <1>1
  <2>2. \A i \in 1..(k - 1 + 1) : before[i] = F[1 + i - 1]
    BY <1>1, <2>1, SubSeqProperties
  <2> QED
    BY <1>1, <2>2
<1>4. N <=> after # << >> /\ o + n = after[1].off
  BY <1>2 DEF JoinsNext
<1>5. P <=> k > 0 /\ before[k].off + before[k].size = o
  BY <1>3 DEF JoinsPrev, End
<1>6. z = (IF N THEN n + after[1].size ELSE n) /\ Span(o, z).size = z /\ Span(o, z).off = o
  BY <1>2 DEF JoinsNext, Span
<1>7. rest = SubSeq(F, (IF N THEN k + 1 ELSE k) + 1, f)
  <2>1. (k + 1) + 1 = k + 2
    BY <1>1
  <2> QED
    BY <1>2, <2>1 DEF JoinsNext
<1>8. z \in Nat /\ o + z <= Cap
  <2>1. N => k + 1 \in 1..f
    BY <1>1 DEF JoinsNext
  <2> QED
    BY <1>1, <2>1 DEF JoinsNext, Proper, End
<1>9. FreeSpan(c, o, n) =
        [c EXCEPT !.free = IF P THEN [before EXCEPT ![k].size = @ + z] \o rest
                           ELSE before \o << Span(o, z) >> \o rest]
  <2> DEFINE joinsNext == after # << >> /\ o + n = after[1].off
             joinsPrev == k > 0 /\ before[k].off + before[k].size = o
             zz == IF joinsNext THEN n + after[1].size ELSE n
             rr == IF joinsNext THEN Tail(after) ELSE after
  <2>1. FreeSpan(c, o, n) =
          [c EXCEPT !.free = IF joinsPrev THEN [before EXCEPT ![k].size = @ + zz] \o rr
                             ELSE before \o << Span(o, zz) >> \o rr]
    BY DEF FreeSpan, Span
  <2>2. zz = z /\ rr = rest /\ (joinsPrev <=> P)
    BY <1>4, <1>5, <1>6
  <2> HIDE DEF zz, rr, joinsPrev, z, rest, P, before
  <2> QED
    BY <2>1, <2>2
<1>10. CASE P
  <2>1. k \in 1..f /\ F[k].size + z \in 0..Cap
    <3>1. k \in 1..f /\ F[k].off + F[k].size = o
      BY <1>3, <1>10 DEF JoinsPrev, End
    <3>2. F[k].off \in Nat /\ F[k].size \in Nat
      BY <1>1, <3>1
    <3> DEFINE a == F[k].off
               b == F[k].size
    <3>3. a \in Nat /\ b \in Nat /\ a + b = o /\ z \in Nat /\ o + z <= Cap
      BY <1>8, <3>1, <3>2
    <3> HIDE DEF a, b, z
    <3>4. b + z \in 0..Cap
      BY <3>3, CapAssumption
    <3> QED
      BY <3>1, <3>4 DEF b
  <2>2. [before EXCEPT ![k].size = @ + z]
          = SubSeq(F, 1, k - 1) \o << Span(F[k].off, F[k].size + z) >>
    <3>1. F \in Seq(Spans) /\ k \in 1..Len(F) /\ z \in Nat
      BY <1>1, <1>8, <2>1
    <3> HIDE DEF F, k, z
    <3>2. Grown(SubSeq(F, 1, k), k, z)
            = SubSeq(F, 1, k - 1) \o << Span(F[k].off, F[k].size + z) >>
      BY <2>1, <3>1, GrownEntry
    <3> QED
      BY <3>2 DEF Grown
  <2>3. Freed(F, k, o, n) = [before EXCEPT ![k].size = @ + z] \o rest
    <3>1. Joined(F, k, o, n) = Span(F[k].off, F[k].size + z)
      BY <1>10 DEF Joined
    <3>2. Freed(F, k, o, n) = SubSeq(F, 1, k - 1) \o << Joined(F, k, o, n) >>
                                \o SubSeq(F, (IF N THEN k + 1 ELSE k) + 1, f)
      BY <1>10 DEF Freed, Spliced
    <3> HIDE DEF F, k, z, f, N, rest, before
    <3> QED
      BY <1>7, <2>2, <3>1, <3>2
  <2> QED
    BY <1>9, <1>10, <2>3
<1>11. CASE ~P
  <2>1. Freed(F, k, o, n) = before \o << Span(o, z) >> \o rest
    BY <1>7, <1>11 DEF Freed, Spliced, Joined
  <2> QED
    BY <1>9, <1>11, <2>1
<1> QED
  BY <1>10, <1>11

\* Freeing units that no entry holds adds them to the list, which stays coalesced.
LEMMA FreeList ==
  ASSUME NEW c \in [used : 0..Cap, free : Seq(Spans)], Separated(c.free),
         NEW o \in Nat, NEW n \in Nat \ {0}, o + n <= Cap,
         \A u \in 0..(Cap - 1) : In(u, Span(o, n)) => ~Holds(c.free, u)
  PROVE  LET d == FreeSpan(c, o, n) IN
         /\ d \in [used : 0..Cap, free : Seq(Spans)] /\ Separated(d.free)
         /\ \A u \in 0..(Cap - 1) : Holds(d.free, u) <=> Holds(c.free, u) \/ In(u, Span(o, n))
<1> DEFINE F == c.free
           k == Passed(F, o)
           f == Len(F)
           N == JoinsNext(F, k, o, n)
           P == JoinsPrev(F, k, o)
           h == IF P THEN k - 1 ELSE k
           m == IF N THEN k + 1 ELSE k
           y == Joined(F, k, o, n)
           lo == IF P THEN F[k].off ELSE o
           hi == IF N THEN End(F[k + 1]) ELSE o + n
           G == Freed(F, k, o, n)
<1>1. /\ F \in Seq(Spans) /\ f \in Nat /\ DOMAIN F = 1..f
      /\ k \in 0..f
      /\ \A i \in 1..k : F[i].off < o
      /\ k < f => F[k + 1].off >= o
  BY LenProperties, PassedSplits DEF Separated
<1>2. \A i \in 1..f : /\ Proper(F[i]) /\ F[i].off \in Nat /\ F[i].size \in Nat /\ End(F[i]) \in Nat
                      /\ End(F[i]) = F[i].off + F[i].size
                      /\ F[i].off < End(F[i]) /\ End(F[i]) <= Cap
  <2> TAKE i \in 1..f
  <2>1. Proper(F[i])
    BY DEF Separated
  <2> HIDE DEF F
  <2> QED
    BY <2>1, ProperFacts
<1>3. \A i, j \in 1..f : i < j => End(F[i]) < F[j].off
  BY DEF Separated
<1>4. \A u : In(u, Span(o, n)) <=> o <= u /\ u < o + n
  BY DEF In, End, Span
<1>5. \A i \in 1..k : End(F[i]) <= o
  <2> TAKE i \in 1..k
  <2>1. i \in 1..f
    BY <1>1
  <2>2. o \in 0..(Cap - 1) /\ In(o, Span(o, n))
    BY <1>4, CapAssumption
  <2>3. ~In(o, F[i])
    BY <1>1, <2>1, <2>2 DEF Holds
  <2>4. F[i].off < o
    BY <1>1
  <2> HIDE DEF F, k, f
  <2> QED
    BY <1>2, <2>1, <2>3, <2>4 DEF In
<1>6. \A j \in (k + 1)..f : o + n <= F[j].off
  <2> TAKE j \in (k + 1)..f
  <2>1. j \in 1..f /\ k + 1 \in 1..f /\ k < f
    BY <1>1
  <2>2. F[j].off >= o
    <3>1. k + 1 = j \/ F[k + 1].off <= F[j].off
      <4>1. k + 1 # j => k + 1 < j
        BY <1>1
      <4> HIDE DEF F, k, f
      <4> QED
        BY <1>2, <1>3, <2>1, <4>1
    <3> HIDE DEF F, k, f
    <3> QED
      BY <1>1, <1>2, <2>1, <3>1
  <2>3. F[j].off \in 0..(Cap - 1) /\ In(F[j].off, F[j])
    BY <1>2, <2>1, CapAssumption DEF In
  <2>4. ~In(F[j].off, Span(o, n))
    BY <1>1, <2>1, <2>3 DEF Holds
  <2>5. F[j].off \in Nat
    BY <1>2, <2>1
  <2> HIDE DEF F, k, f
  <2> QED
    BY <1>4, <2>2, <2>4, <2>5
<1> HIDE DEF F, k, f
<1>7. /\ P => k \in 1..f /\ End(F[k]) = o
      /\ N => k + 1 \in 1..f /\ k < f /\ F[k + 1].off = o + n
  BY <1>1 DEF JoinsPrev, JoinsNext
<1>8. /\ lo \in Nat /\ hi \in Nat /\ lo <= o /\ o + n <= hi /\ hi <= Cap
  <2>1. P => F[k].off \in Nat /\ F[k].off <= o
    BY <1>2, <1>7
  <2>2. N => End(F[k + 1]) \in Nat /\ o + n <= End(F[k + 1]) /\ End(F[k + 1]) <= Cap
    BY <1>2, <1>7
  <2> QED
    BY <2>1, <2>2
<1>9. y.off = lo /\ End(y) = hi /\ y = Span(lo, hi - lo)
  <2> DEFINE z == IF N THEN n + F[k + 1].size ELSE n
  <2>1. z \in Nat /\ o + z = hi
    <3>1. CASE N
      <4>1. F[k + 1].size \in Nat /\ End(F[k + 1]) = o + n + F[k + 1].size
        BY <1>2, <1>7, <3>1
      <4> QED
        BY <3>1, <4>1
    <3>2. CASE ~N
      BY <3>2
    <3> QED
      BY <3>1, <3>2
  <2>2. y = IF P THEN Span(F[k].off, F[k].size + z) ELSE Span(o, z)
    BY DEF Joined
  <2> HIDE DEF z, hi, y
  <2>3. CASE P
    <3>1. F[k].off \in Nat /\ F[k].size \in Nat /\ F[k].off + F[k].size = o
      BY <1>2, <1>7, <2>3
    <3>2. lo = F[k].off
      BY <2>3
    <3>3. F[k].size + z = hi - lo
      <4> DEFINE b == F[k].size
      <4>1. b \in Nat /\ lo \in Nat /\ hi \in Nat /\ z \in Nat /\ lo + b = o /\ o + z = hi
        BY <1>8, <2>1, <3>1, <3>2
      <4> HIDE DEF lo, b
      <4>2. b + z = hi - lo
        BY <4>1
      <4> QED
        BY <4>2 DEF b
    <3> QED
      BY <1>8, <2>1, <2>2, <2>3, <3>1, <3>2, <3>3 DEF Span, End
  <2>4. CASE ~P
    <3>1. z = hi - lo
      BY <1>8, <2>1, <2>4
    <3> QED
      BY <1>8, <2>1, <2>2, <2>4, <3>1 DEF Span, End
  <2> QED
    BY <2>3, <2>4
<1> HIDE DEF y
<1>10. Proper(y)
  <2> HIDE DEF lo, hi
  <2> QED
    BY <1>8, <1>9, CapAssumption DEF Proper, Spans, Span
<1>11. h \in 0..f /\ m \in h..f
  BY <1>1, <1>7
<1>12. \A i \in 1..h : End(F[i]) < y.off
  <2> TAKE i \in 1..h
  <2>1. i \in 1..f /\ i \in 1..k
    BY <1>1, <1>7
  <2>2. CASE P
    <3>1. i < k /\ k \in 1..f
      BY <1>1, <1>7, <2>2
    <3> QED
      BY <1>3, <1>9, <2>1, <2>2, <3>1
  <2>3. CASE ~P
    <3>1. CASE i = k
      <4>1. End(F[k]) # o
        BY <1>1, <2>1, <2>3, <3>1 DEF JoinsPrev
      <4> QED
        BY <1>2, <1>5, <1>9, <2>1, <2>3, <3>1, <4>1
    <3>2. CASE i # k
      <4>1. i < k /\ k \in 1..f
        BY <1>1, <2>1, <3>2
      <4>2. End(F[i]) < F[k].off /\ F[k].off < o
        BY <1>1, <1>3, <2>1, <4>1
      <4> QED
        BY <1>2, <1>9, <2>1, <2>3, <4>1, <4>2
    <3> QED
      BY <3>1, <3>2
  <2> QED
    BY <2>2, <2>3
<1>13. \A j \in (m + 1)..f : End(y) < F[j].off
  <2> TAKE j \in (m + 1)..f
  <2>1. j \in 1..f /\ j \in (k + 1)..f
    BY <1>1, <1>7
  <2>2. CASE N
    <3>1. k + 1 < j /\ k + 1 \in 1..f
      BY <1>1, <1>7, <2>2
    <3> QED
      BY <1>3, <1>9, <2>1, <2>2, <3>1
  <2>3. CASE ~N
    <3>1. CASE j = k + 1
      <4>1. o + n # F[j].off
        BY <1>1, <2>1, <2>3, <3>1 DEF JoinsNext
      <4>2. F[j].off \in Nat /\ o + n <= F[j].off
        BY <1>2, <1>6, <2>1
      <4>3. End(y) = o + n
        BY <1>9, <2>3
      <4> QED
        BY <4>1, <4>2, <4>3
    <3>2. CASE j # k + 1
      <4>1. k + 1 < j /\ k + 1 \in 1..f /\ k + 1 \in (k + 1)..f
        BY <1>1, <2>1, <3>2
      <4>2. o + n <= F[k + 1].off /\ F[k + 1].off < End(F[k + 1]) /\ End(F[k + 1]) < F[j].off
        BY <1>2, <1>3, <1>6, <2>1, <4>1
      <4> QED
        BY <1>2, <1>9, <2>1, <2>3, <4>1, <4>2
    <3> QED
      BY <3>1, <3>2
  <2> QED
    BY <2>2, <2>3
<1>14. /\ Separated(<< y >>) /\ Len(<< y >>) = 1 /\ << y >>[1] = y
       /\ \A u : Holds(<< y >>, u) <=> In(u, y)
  BY <1>10, Single
<1>15. G = Spliced(F, h, << y >>, m)
  BY DEF Freed, y
<1>16. /\ Separated(G)
       /\ \A u : Holds(G, u) <=> \/ In(u, y)
                                 \/ \E i \in 1..f : (i <= h \/ i > m) /\ In(u, F[i])
  <2> DEFINE X == << y >>
  <2>1. /\ Separated(X) /\ Len(X) = 1 /\ X[1] = y /\ \A u : Holds(X, u) <=> In(u, y)
    BY <1>14
  <2> HIDE DEF X, h, m, G
  <2>2. /\ \A i \in 1..h : \A x \in 1..Len(X) : End(F[i]) < X[x].off
        /\ \A j \in (m + 1)..Len(F) : \A x \in 1..Len(X) : End(X[x]) < F[j].off
    BY <1>12, <1>13, <2>1 DEF f
  <2>3. /\ Separated(Spliced(F, h, X, m))
        /\ \A u : Holds(Spliced(F, h, X, m), u)
                    <=> \/ Holds(X, u)
                        \/ \E i \in 1..f : (i <= h \/ i > m) /\ In(u, F[i])
    BY <1>11, <2>1, <2>2, SplicedSeparated DEF F, f
  <2> QED
    BY <1>15, <2>1, <2>3 DEF X
<1>17. ASSUME NEW u \in 0..(Cap - 1)
       PROVE  Holds(G, u) <=> Holds(F, u) \/ In(u, Span(o, n))
  <2>1. In(u, y) <=> lo <= u /\ u < hi
    BY <1>9 DEF In
  <2>2. Holds(F, u) <=> \/ \E i \in 1..f : (i <= h \/ i > m) /\ In(u, F[i])
                        \/ P /\ In(u, F[k])
                        \/ N /\ In(u, F[k + 1])
    <3>1. ASSUME NEW i \in 1..f
          PROVE  i <= h \/ i > m \/ (P /\ i = k) \/ (N /\ i = k + 1)
      BY <1>1
    <3> QED
      BY <1>1, <1>7, <3>1 DEF Holds
  <2>3. In(u, y) <=> In(u, Span(o, n)) \/ (P /\ In(u, F[k])) \/ (N /\ In(u, F[k + 1]))
    <3>1. P => (In(u, F[k]) <=> lo <= u /\ u < o)
      BY <1>7 DEF In
    <3>2. N => (In(u, F[k + 1]) <=> o + n <= u /\ u < hi)
      BY <1>7 DEF In
    <3>3. (~P => lo = o) /\ (~N => hi = o + n)
      OBVIOUS
    <3> HIDE DEF lo, hi, P, N
    <3> QED
      BY <1>4, <1>8, <2>1, <3>1, <3>2, <3>3
  <2> QED
    BY <1>16, <2>2, <2>3
<1>18. FreeSpan(c, o, n) = [c EXCEPT !.free = G]
  BY FreeSpanSplices DEF F, k
<1>19. G \in Seq(Spans)
  BY <1>16 DEF Separated
<1> HIDE DEF G
<1> QED
  BY <1>16, <1>17, <1>18, <1>19 DEF F

-----------------------------------------------------------------------------
(* The inductive invariant *)

Live == blocks \union InFlight

Held(L, u) == \E s \in L : In(u, s)

\* The list F holds the units that no span of L does.
Complement(F, L) == \A u \in 0..(Cap - 1) : Holds(F, u) <=> ~Held(L, u)

Arenas == [used : 0..Cap, free : Seq(Spans)]

Types ==
  /\ evict \in Builds
  /\ cc \in Arenas /\ Separated(cc.free)
  /\ IsFiniteSet(blocks) /\ \A s \in blocks : Proper(s)
  /\ \/ pend = Idle
     \/ \E n \in Reserves : pend = Wanting(n)
     \/ \E s \in Spans : Proper(s) /\ pend = Emitting(s)

Apart ==
  /\ \A s, t \in Live : s # t => ~Overlap(s, t)
  /\ InFlight \cap blocks = {}

Tiles == evict = Coldness => Complement(cc.free, Live)

ArenaInv == Types /\ Apart /\ BumpBelowMark /\ Tiles

\* A compile's state and its span.
LEMMA Pending ==
  ASSUME Types
  PROVE  /\ pend = Idle => InFlight = {}
         /\ pend.at = "alloc" => InFlight = {} /\ pend.size \in Reserves /\ pend.size \in Nat \ {0}
         /\ pend.at = "emit" => InFlight = {pend.span} /\ Proper(pend.span)
BY ReservesAssumption DEF Types, InFlight, Idle, Wanting, Emitting

LEMMA PendingNext ==
  /\ pend' = Idle => InFlight' = {}
  /\ \A n : pend' = Wanting(n) => InFlight' = {}
  /\ \A s : pend' = Emitting(s) => InFlight' = {s}
BY DEF InFlight, Idle, Wanting, Emitting

\* The free list takes back what L held and L2 does not.
LEMMA GiveBack ==
  ASSUME NEW c \in Arenas, Separated(c.free), NEW L, NEW L2, Complement(c.free, L),
         NEW o \in Nat, NEW n \in Nat \ {0}, o + n <= Cap,
         \A u \in 0..(Cap - 1) : /\ Held(L, u) <=> Held(L2, u) \/ In(u, Span(o, n))
                                 /\ ~(Held(L2, u) /\ In(u, Span(o, n)))
  PROVE  LET d == FreeSpan(c, o, n) IN
         d \in Arenas /\ Separated(d.free) /\ Complement(d.free, L2)
<1>1. \A u \in 0..(Cap - 1) : In(u, Span(o, n)) => ~Holds(c.free, u)
  BY DEF Complement
<1>2. LET d == FreeSpan(c, o, n) IN
      /\ d \in Arenas /\ Separated(d.free)
      /\ \A u \in 0..(Cap - 1) : Holds(d.free, u) <=> Holds(c.free, u) \/ In(u, Span(o, n))
  BY <1>1, FreeList DEF Arenas
<1> QED
  BY <1>2 DEF Complement

\* The arena after codecache_init.
LEMMA EmptyTiles ==
  ASSUME NEW e, NEW c, c = EmptyArena(e)
  PROVE  c \in Arenas /\ Separated(c.free) /\ (e = Coldness => Complement(c.free, {}))
<1>1. CASE e = Coldness
  <2>1. c = [used |-> 0, free |-> << Span(0, Cap) >>]
    BY <1>1 DEF EmptyArena
  <2>2. Proper(Span(0, Cap)) /\ Span(0, Cap).off = 0 /\ End(Span(0, Cap)) = Cap
    BY CapAssumption, PartProper
  <2>3. /\ Separated(<< Span(0, Cap) >>)
        /\ \A u : Holds(<< Span(0, Cap) >>, u) <=> In(u, Span(0, Cap))
    BY <2>2, Single
  <2>4. \A u \in 0..(Cap - 1) : In(u, Span(0, Cap)) /\ ~Held({}, u)
    BY <2>2, CapAssumption DEF In, Held
  <2> QED
    BY <2>1, <2>3, <2>4, CapAssumption DEF Arenas, Separated, Complement
<1>2. CASE e # Coldness
  <2>1. c = [used |-> 0, free |-> << >>]
    BY <1>2 DEF EmptyArena
  <2> QED
    BY <1>2, <2>1, Empty, CapAssumption DEF Arenas, Separated
<1> QED
  BY <1>1, <1>2

\* Giving a whole span back.
LEMMA GiveSpan ==
  ASSUME NEW c \in Arenas, Separated(c.free), NEW L, Complement(c.free, L),
         \A t \in L : Proper(t),
         NEW s \in L, \A t \in L : t # s => ~Overlap(t, s)
  PROVE  LET d == FreeSpan(c, s.off, s.size) IN
         d \in Arenas /\ Separated(d.free) /\ Complement(d.free, L \ {s})
<1>1. /\ s.off \in Nat /\ s.size \in Nat \ {0} /\ s.off + s.size <= Cap
      /\ Span(s.off, s.size) = s
  BY ProperFacts
<1>2. ASSUME NEW u \in 0..(Cap - 1)
      PROVE  /\ Held(L, u) <=> Held(L \ {s}, u) \/ In(u, s)
             /\ ~(Held(L \ {s}, u) /\ In(u, s))
  <2>1. Held(L, u) <=> Held(L \ {s}, u) \/ In(u, s)
    BY DEF Held
  <2>2. ASSUME NEW t \in L, t # s, In(u, t) PROVE ~In(u, s)
    BY <2>2, OverlapIn
  <2> QED
    BY <2>1, <2>2 DEF Held
<1> QED
  BY <1>1, <1>2, GiveBack

LEMMA MarkMoved ==
  ASSUME NEW c \in Arenas, NEW v \in 0..Cap
  PROVE  LET d == [c EXCEPT !.used = v] IN d \in Arenas /\ d.used = v /\ d.free = c.free
BY DEF Arenas

\* Any span in use may be given up.
LEMMA Drops ==
  ASSUME ArenaInv, NEW s \in Live, evict' = evict, Live' = Live \ {s},
         blocks' \subseteq blocks, InFlight' \subseteq InFlight,
         cc' = Released(evict, cc, s.off, s.size)
  PROVE  /\ cc' \in Arenas /\ Separated(cc'.free) /\ IsFiniteSet(blocks')
         /\ \A t \in blocks' : Proper(t)
         /\ Apart' /\ BumpBelowMark' /\ Tiles'
<1>1. \A t \in Live : Proper(t)
  <2> SUFFICES ASSUME NEW t \in InFlight PROVE Proper(t)
    BY DEF ArenaInv, Types, Live
  <2>1. pend.at = "emit" /\ t = pend.span
    BY DEF InFlight
  <2> QED
    BY <2>1, Pending DEF ArenaInv
<1>2. cc \in Arenas /\ Separated(cc.free) /\ \A t \in Live : t # s => ~Overlap(t, s)
  BY DEF ArenaInv, Types, Apart
<1>3. cc' \in Arenas /\ Separated(cc'.free) /\ Tiles'
  <2>1. CASE evict = Coldness
    <3>1. cc' = FreeSpan(cc, s.off, s.size)
      BY <2>1 DEF Released
    <3>2. Complement(cc.free, Live)
      BY <2>1 DEF ArenaInv, Tiles
    <3>3. LET d == FreeSpan(cc, s.off, s.size) IN
          d \in Arenas /\ Separated(d.free) /\ Complement(d.free, Live \ {s})
      BY <1>1, <1>2, <3>2, GiveSpan
    <3> QED
      BY <3>1, <3>3 DEF Tiles
  <2>2. CASE evict # Coldness
    BY <1>2, <2>2 DEF Released, Tiles
  <2> QED
    BY <2>1, <2>2
<1>4. Apart'
  BY DEF ArenaInv, Apart
<1>5. BumpBelowMark'
  <2>1. evict = Bump => cc' = cc
    BY DEF Released, Bump, Coldness
  <2> QED
    BY <2>1 DEF ArenaInv, BumpBelowMark
<1>6. IsFiniteSet(blocks') /\ \A t \in blocks' : Proper(t)
  BY FS_Subset DEF ArenaInv, Types
<1> QED
  BY <1>3, <1>4, <1>5, <1>6

\* In the arena a of policy e the spans of M are in use.
Settled(e, a, M) ==
  /\ a \in Arenas /\ Separated(a.free) /\ \A t \in M : Proper(t)
  /\ e = Coldness => Complement(a.free, M)
  /\ e = Bump => \A t \in M : t.off + t.size <= a.used

\* In the arena a of policy e the spans of M are in use, and apart from them r.
InUse(e, a, M, r) ==
  /\ a \in Arenas /\ Separated(a.free) /\ Proper(r) /\ r \notin M
  /\ \A t \in M : Proper(t) /\ ~Overlap(t, r) /\ ~Overlap(r, t)
  /\ e = Coldness => Complement(a.free, M \union {r})
  /\ e = Bump => \A t \in M : t.off + t.size <= r.off

\* The emitted block keeps the front of its reservation r.
LEMMA TrimSpan ==
  ASSUME NEW e, NEW a, NEW M, NEW r, InUse(e, a, M, r), NEW actual \in 1..r.size
  PROVE  LET s == Span(r.off, actual)
             c == Trimmed(e, a, s.off, actual, r.size)
         IN  InUse(e, c, M, s) /\ (e = Bump => c.used = s.off + s.size)
<1> DEFINE s == Span(r.off, actual)
           c == Trimmed(e, a, s.off, actual, r.size)
           L == M \union {s}
           n == r.size - actual
           o == r.off + actual
<1>1. /\ Proper(r) /\ r \notin M
      /\ \A t \in M : Proper(t) /\ ~Overlap(t, r)
      /\ a \in Arenas /\ Separated(a.free)
  BY DEF InUse
<1>2. /\ r.off \in Nat /\ r.size \in Nat \ {0} /\ r.off + r.size <= Cap /\ actual \in Nat \ {0}
      /\ actual <= r.size /\ n \in Nat /\ o \in Nat /\ o + n = r.off + r.size
      /\ End(r) = r.off + r.size /\ r.off + actual <= Cap
  <2>1. r.off \in Nat /\ r.size \in Nat \ {0} /\ r.off + r.size <= Cap /\ End(r) = r.off + r.size
    BY <1>1, ProperFacts
  <2>2. actual \in Nat \ {0} /\ actual <= r.size
    BY <2>1
  <2> QED
    BY <2>1, <2>2, CapAssumption
<1>3. Proper(s) /\ s.off = r.off /\ s.size = actual /\ End(s) = r.off + actual
  BY <1>2, PartProper
<1> HIDE DEF s
<1>4. \A u \in 0..(Cap - 1) : In(u, s) => In(u, r)
  BY <1>2, <1>3 DEF In
<1>5. \A t \in M : ~Overlap(t, s) /\ ~Overlap(s, t)
  BY <1>1, <1>3, <1>4, OverlapIn
<1>6. s \notin M
  <2> SUFFICES ASSUME s \in M PROVE FALSE
    OBVIOUS
  <2>1. s.off \in 0..(Cap - 1) /\ In(s.off, s)
    BY <1>3, ProperFacts
  <2> QED
    BY <1>3, <1>5, <2>1, OverlapIn
<1>7. CASE e # Coldness
  <2>1. c = [a EXCEPT !.used = r.off + actual]
    BY <1>3, <1>7 DEF Trimmed
  <2>2. c \in Arenas /\ c.used = r.off + actual /\ c.free = a.free
    <3>1. r.off + actual \in 0..Cap
      BY <1>2, CapAssumption
    <3> HIDE DEF c
    <3> QED
      BY <1>1, <2>1, <3>1, MarkMoved
  <2>3. e = Bump => \A t \in M : t.off + t.size <= r.off
    BY DEF InUse
  <2> HIDE DEF c
  <2> QED
    BY <1>1, <1>3, <1>5, <1>6, <1>7, <2>2, <2>3 DEF s, c, InUse
<1>8. CASE e = Coldness
  <2>1. Complement(a.free, M \union {r})
    BY <1>8 DEF InUse
  <2>2. c \in Arenas /\ Separated(c.free) /\ Complement(c.free, L)
    <3>1. CASE n = 0
      <4>1. ~(r.size > actual) /\ actual = r.size
        BY <1>2, <3>1
      <4>2. c = a
        BY <1>8, <4>1 DEF Trimmed
      <4>3. s = r
        BY <1>1, <4>1, ProperFacts DEF s
      <4> QED
        BY <1>1, <2>1, <4>2, <4>3
    <3>2. CASE n # 0
      <4>1. r.size > actual /\ n \in Nat \ {0}
        BY <1>2, <3>2
      <4>2. c = FreeSpan(a, o, n)
        BY <1>3, <1>8, <4>1 DEF Trimmed
      <4> DEFINE y == Span(o, n)
      <4>3. Proper(y) /\ y.off = o /\ End(y) = o + n
        BY <1>2, <4>1, PartProper
      <4> HIDE DEF y
      <4>4. ASSUME NEW u \in 0..(Cap - 1)
            PROVE  /\ Held(M \union {r}, u) <=> Held(L, u) \/ In(u, y)
                   /\ ~(Held(L, u) /\ In(u, y))
        <5>1. In(u, r) <=> In(u, s) \/ In(u, y)
          <6> HIDE DEF n
          <6> QED
            BY <1>2, <1>3, <4>3 DEF In
        <5>2. ~(In(u, s) /\ In(u, y))
          <6> HIDE DEF n
          <6> QED
            BY <1>2, <1>3, <4>3 DEF In
        <5>3. \A t \in M : ~(In(u, t) /\ In(u, r))
          BY <1>1, OverlapIn
        <5> QED
          BY <1>1, <5>1, <5>2, <5>3 DEF Held
      <4> HIDE DEF c, n, o, L
      <4>5. /\ FreeSpan(a, o, n) \in Arenas /\ Separated(FreeSpan(a, o, n).free)
            /\ Complement(FreeSpan(a, o, n).free, L)
        <5>1. o + n <= Cap
          BY <1>2
        <5> QED
          BY <1>1, <1>2, <2>1, <4>1, <4>4, <5>1, GiveBack DEF y
      <4> QED
        BY <4>2, <4>5
    <3> QED
      BY <3>1, <3>2
  <2>3. e # Bump
    BY <1>8 DEF Bump, Coldness
  <2> HIDE DEF c
  <2> QED
    BY <1>1, <1>3, <1>5, <1>6, <1>8, <2>2, <2>3 DEF s, c, InUse
<1> QED
  BY <1>7, <1>8

\* The same for the reservation in flight.
LEMMA Trims ==
  ASSUME ArenaInv, pend.at = "emit", NEW actual \in 1..pend.span.size
  PROVE  LET s == Span(pend.span.off, actual)
             c == Trimmed(evict, cc, s.off, actual, pend.span.size)
         IN  /\ c \in Arenas /\ Separated(c.free) /\ Proper(s)
             /\ \A t \in blocks : Proper(t) /\ ~Overlap(t, s) /\ ~Overlap(s, t)
             /\ s \notin blocks
             /\ evict = Coldness => Complement(c.free, blocks \union {s})
             /\ evict = Bump => /\ c.used = s.off + s.size
                                /\ \A t \in blocks : t.off + t.size <= s.off
<1>1. InUse(evict, cc, blocks, pend.span)
  <2>1. /\ InFlight = {pend.span} /\ Proper(pend.span) /\ pend.span \notin blocks
        /\ \A t \in blocks : Proper(t) /\ ~Overlap(t, pend.span) /\ ~Overlap(pend.span, t)
        /\ cc \in Arenas /\ Separated(cc.free)
    BY Pending DEF ArenaInv, Types, Apart, Live
  <2> QED
    BY <2>1 DEF ArenaInv, Tiles, BumpBelowMark, InUse, Live
<1>2. LET s == Span(pend.span.off, actual)
          c == Trimmed(evict, cc, s.off, actual, pend.span.size)
      IN  InUse(evict, c, blocks, s) /\ (evict = Bump => c.used = s.off + s.size)
  BY <1>1, TrimSpan
<1> QED
  BY <1>2 DEF InUse

\* A reservation takes room that none of the spans of M it leaves occupies.
LEMMA AllocSpan ==
  ASSUME NEW e \in Policies, NEW a, NEW M, Settled(e, a, M),
         NEW n \in Nat \ {0}, CanPlace(e, a, n)
  PROVE  LET s == Span(Place(e, a, n), n)
             c == Taken(e, a, n)
             kept == IF e = Ring THEN {t \in M : ~Overlap(t, s)} ELSE M
         IN  InUse(e, c, kept, s) /\ (e = Bump => c.used = s.off + s.size)
<1> DEFINE p == Place(e, a, n)
           s == Span(p, n)
           c == Taken(e, a, n)
           kept == IF e = Ring THEN {t \in M : ~Overlap(t, s)} ELSE M
<1>1. /\ n \in Nat \ {0}
      /\ a \in Arenas /\ Separated(a.free) /\ a.used \in Nat /\ a.used <= Cap
      /\ \A t \in M : Proper(t)
  BY CapAssumption DEF Arenas, Settled
<1>2. e \in {Bump, Coldness, Ring}
  BY DEF Policies
<1>3. kept \subseteq M
  OBVIOUS
<1>4. ASSUME NEW t, Proper(t), Proper(s), ~Overlap(t, s)
      PROVE  ~Overlap(s, t) /\ t # s
  <2>1. ~Overlap(s, t)
    BY <1>4, OverlapIn
  <2>2. Overlap(t, t)
    BY <1>4, ProperFacts, OverlapIn
  <2> QED
    BY <1>4, <2>1, <2>2
<1>5. SUFFICES /\ c \in Arenas /\ Separated(c.free) /\ Proper(s)
               /\ \A t \in kept : ~Overlap(t, s)
               /\ e = Coldness => Complement(c.free, kept \union {s})
               /\ e = Bump => /\ c.used = s.off + s.size
                                  /\ \A t \in M : t.off + t.size <= s.off
  <2>1. \A t \in kept : Proper(t)
    BY <1>1, <1>3
  <2>2. \A t \in kept : ~Overlap(s, t) /\ t # s
    BY <1>4, <1>5, <2>1
  <2>3. e = Bump => kept = M
    BY DEF Bump, Ring
  <2> HIDE DEF s, c, kept
  <2> QED
    BY <1>5, <2>1, <2>2, <2>3 DEF s, c, kept, p, InUse
<1>6. CASE e = Bump
  <2>1. a.used + n <= Cap /\ p = a.used /\ kept = M
    BY <1>6 DEF CanPlace, Place, Bump, Coldness, Ring
  <2>2. Proper(s) /\ s.off = a.used /\ s.size = n
    BY <1>1, <2>1, PartProper
  <2>3. c = [a EXCEPT !.used = a.used + n]
    BY <1>6, <2>1 DEF Taken, Bump, Coldness
  <2>4. c \in Arenas /\ c.used = a.used + n /\ c.free = a.free
    <3>1. a.used + n \in 0..Cap
      BY <1>1, <2>1, CapAssumption
    <3> HIDE DEF c
    <3> QED
      BY <1>1, <2>3, <3>1, MarkMoved
  <2>5. \A t \in M : t.off + t.size <= a.used
    BY <1>6 DEF Settled
  <2>6. \A t \in kept : ~Overlap(t, s)
    BY <1>1, <2>1, <2>2, <2>5, ProperFacts DEF Overlap
  <2> HIDE DEF s, c, kept
  <2> QED
    BY <1>1, <1>6, <2>2, <2>4, <2>5, <2>6 DEF Bump, Coldness
<1>7. CASE e = Coldness
  <2> DEFINE F == a.free
             i == FirstFit(a, n)
  <2>1. Fits(a, n) # {} /\ p = F[i].off /\ kept = M
    BY <1>7 DEF CanPlace, Place, Bump, Coldness, Ring
  <2>2. i \in 1..Len(F) /\ F[i].size >= n
    BY <1>1, <2>1, FirstFitFits DEF Separated
  <2>3. c = [a EXCEPT !.free = Carve(F, i, n)]
    BY <1>7 DEF Taken
  <2>4. /\ Separated(Carve(F, i, n))
        /\ \A u \in 0..(Cap - 1) :
             Holds(Carve(F, i, n), u) <=> Holds(F, u) /\ ~In(u, Span(F[i].off, n))
    BY <1>1, <2>2, CarveList
  <2>5. c \in Arenas /\ c.free = Carve(F, i, n)
    BY <1>1, <2>3, <2>4 DEF Arenas, Separated
  <2>6. Proper(F[i]) /\ DOMAIN F = 1..Len(F)
    BY <1>1, <2>2, LenProperties DEF Separated
  <2>7. Proper(s) /\ s.off = F[i].off /\ End(s) = F[i].off + n
    <3>1. F[i].off \in Nat /\ F[i].off + n <= Cap
      <4>1. F[i].off \in Nat /\ F[i].size \in Nat /\ F[i].off + F[i].size <= Cap
        BY <2>6, ProperFacts
      <4> HIDE DEF F, i
      <4> QED
        BY <1>1, <2>2, <4>1, CapAssumption
    <3> QED
      BY <1>1, <2>1, <3>1, PartProper
  <2>8. \A u \in 0..(Cap - 1) : In(u, s) => In(u, F[i])
    <3>1. F[i].off \in Nat /\ F[i].size \in Nat /\ End(F[i]) = F[i].off + F[i].size
      BY <2>6, ProperFacts
    <3> HIDE DEF F, i, s
    <3> QED
      BY <1>1, <2>2, <2>7, <3>1, CapAssumption DEF In
  <2>9. Complement(F, M)
    BY <1>1, <1>7 DEF Settled
  <2>10. \A u \in 0..(Cap - 1) : In(u, s) => Holds(F, u)
    BY <2>2, <2>6, <2>8 DEF Holds
  <2>11. \A t \in kept : ~Overlap(t, s)
    <3> SUFFICES ASSUME NEW t \in M, NEW u \in 0..(Cap - 1), In(u, t), In(u, s)
                 PROVE  FALSE
      BY <1>1, <2>1, <2>7, OverlapIn
    <3> QED
      BY <2>9, <2>10 DEF Complement, Held
  <2>12. Complement(c.free, kept \union {s})
    <3> SUFFICES ASSUME NEW u \in 0..(Cap - 1)
                 PROVE  Holds(c.free, u) <=> ~Held(M \union {s}, u)
      BY <2>1 DEF Complement
    <3>1. Holds(c.free, u) <=> Holds(F, u) /\ ~In(u, s)
      BY <2>1, <2>4, <2>5
    <3>2. Holds(F, u) <=> ~Held(M, u)
      BY <2>9 DEF Complement
    <3>3. Held(M \union {s}, u) <=> Held(M, u) \/ In(u, s)
      BY DEF Held
    <3> QED
      BY <3>1, <3>2, <3>3
  <2> HIDE DEF s, c, kept
  <2> QED
    BY <1>7, <2>4, <2>5, <2>7, <2>11, <2>12 DEF Bump, Coldness
<1>8. CASE e = Ring
  <2>1. n <= Cap /\ p = (IF a.used + n > Cap THEN 0 ELSE a.used) /\ kept = {t \in M : ~Overlap(t, s)}
    BY <1>8 DEF CanPlace, Place, Bump, Coldness, Ring
  <2>2. p \in Nat /\ p + n <= Cap
    BY <1>1, <2>1, CapAssumption
  <2>3. Proper(s)
    BY <1>1, <2>2, PartProper
  <2>4. c = [a EXCEPT !.used = p + n]
    BY <1>8 DEF Taken, Ring, Coldness
  <2>5. c \in Arenas /\ c.free = a.free
    <3>1. p + n \in 0..Cap
      BY <1>1, <2>2, CapAssumption
    <3> HIDE DEF c, p
    <3> QED
      BY <1>1, <2>4, <3>1, MarkMoved
  <2>6. \A t \in kept : ~Overlap(t, s)
    BY <2>1
  <2> HIDE DEF s, c, kept
  <2> QED
    BY <1>1, <1>8, <2>3, <2>5, <2>6 DEF Bump, Coldness, Ring
<1> QED
  BY <1>2, <1>6, <1>7, <1>8

\* Then the span is in use with the others.
LEMMA SettleSpan ==
  ASSUME NEW e, NEW a, NEW M, NEW s, InUse(e, a, M, s), e = Bump => a.used = s.off + s.size
  PROVE  Settled(e, a, M \union {s})
<1>1. \A t \in M \union {s} : /\ Proper(t)
                              /\ t.off \in Nat /\ t.size \in Nat
  BY ProperFacts DEF InUse
<1>2. e = Bump => \A t \in M \union {s} : t.off + t.size <= a.used
  BY <1>1 DEF InUse
<1> QED
  BY <1>1, <1>2 DEF InUse, Settled

\* A span given back leaves the others in use.
LEMMA ReleaseSpan ==
  ASSUME NEW e, NEW a, NEW M, Settled(e, a, M),
         NEW s \in M, \A t \in M : t # s => ~Overlap(t, s)
  PROVE  Settled(e, Released(e, a, s.off, s.size), M \ {s})
<1>1. CASE e = Coldness
  <2>1. LET d == FreeSpan(a, s.off, s.size) IN
        d \in Arenas /\ Separated(d.free) /\ Complement(d.free, M \ {s})
    BY <1>1, GiveSpan DEF Settled
  <2> QED
    BY <1>1, <2>1 DEF Settled, Released, Bump, Coldness
<1>2. CASE e # Coldness
  BY <1>2 DEF Settled, Released
<1> QED
  BY <1>1, <1>2

\* Nothing is in use after codecache_init.
LEMMA EmptySettled ==
  ASSUME NEW e
  PROVE  Settled(e, EmptyArena(e), {})
BY EmptyTiles DEF Settled

\* The same for the compile in flight.
LEMMA Allocs ==
  ASSUME ArenaInv, pend.at = "alloc", CanPlace(evict, cc, pend.size)
  PROVE  LET s == Span(Place(evict, cc, pend.size), pend.size)
             c == Taken(evict, cc, pend.size)
             kept == IF evict = Ring THEN Outside(s) ELSE blocks
         IN  /\ c \in Arenas /\ Separated(c.free) /\ Proper(s)
             /\ \A t \in kept : ~Overlap(t, s) /\ ~Overlap(s, t)
             /\ s \notin kept
             /\ evict = Coldness => Complement(c.free, kept \union {s})
             /\ evict = Bump => /\ c.used = s.off + s.size
                                /\ \A t \in blocks : t.off + t.size <= s.off
<1>1. pend.size \in Nat \ {0} /\ Live = blocks /\ evict \in Policies
  BY Pending, BuildsAssumption DEF ArenaInv, Types, Live
<1>2. Settled(evict, cc, blocks)
  BY <1>1 DEF ArenaInv, Types, Tiles, BumpBelowMark, Settled
<1>3. LET s == Span(Place(evict, cc, pend.size), pend.size)
          c == Taken(evict, cc, pend.size)
          kept == IF evict = Ring THEN Outside(s) ELSE blocks
      IN  InUse(evict, c, kept, s) /\ (evict = Bump => c.used = s.off + s.size)
  BY <1>1, <1>2, AllocSpan DEF Outside
<1>4. evict = Bump => evict # Ring
  BY DEF Bump, Ring
<1> QED
  BY <1>3, <1>4 DEF InUse

-----------------------------------------------------------------------------
(* The steps *)

LEMMA InitArena == Init => ArenaInv
<1> SUFFICES ASSUME Init PROVE ArenaInv
  OBVIOUS
<1>1. evict \in Builds /\ cc = EmptyArena(evict) /\ blocks = {} /\ pend = Idle
  BY DEF Init
<1>2. Live = {} /\ InFlight = {}
  BY <1>1 DEF Live, InFlight, Idle
<1>3. cc \in Arenas /\ Separated(cc.free) /\ Tiles
  <2>1. cc \in Arenas /\ Separated(cc.free) /\ (evict = Coldness => Complement(cc.free, {}))
    BY <1>1, EmptyTiles
  <2> QED
    BY <1>2, <2>1 DEF Tiles
<1>4. Apart /\ BumpBelowMark
  BY <1>1, <1>2 DEF Apart, BumpBelowMark
<1> QED
  BY <1>1, <1>3, <1>4, FS_EmptySet DEF ArenaInv, Types

LEMMA CompileStep == ArenaInv /\ Compile => ArenaInv'
<1> SUFFICES ASSUME ArenaInv, Compile PROVE ArenaInv'
  OBVIOUS
<1>1. PICK n \in Reserves : pend' = Wanting(n)
  BY DEF Compile
<1>2. UNCHANGED << evict, cc, blocks >> /\ InFlight = {} /\ InFlight' = {}
  BY <1>1, Pending, PendingNext DEF ArenaInv, Compile
<1> QED
  BY <1>1, <1>2 DEF ArenaInv, Types, Apart, BumpBelowMark, Tiles, Live

LEMMA AllocStep == ArenaInv /\ Alloc => ArenaInv'
<1> SUFFICES ASSUME ArenaInv, Alloc PROVE ArenaInv'
  OBVIOUS
<1> DEFINE s == Span(Place(evict, cc, pend.size), pend.size)
           c == Taken(evict, cc, pend.size)
           kept == IF evict = Ring THEN Outside(s) ELSE blocks
<1>1. /\ pend.at = "alloc" /\ CanPlace(evict, cc, pend.size)
      /\ cc' = c /\ blocks' = kept /\ pend' = Emitting(s) /\ evict' = evict
  BY DEF Alloc
<1>2. /\ c \in Arenas /\ Separated(c.free) /\ Proper(s)
      /\ \A t \in kept : ~Overlap(t, s) /\ ~Overlap(s, t)
      /\ s \notin kept
      /\ evict = Coldness => Complement(c.free, kept \union {s})
      /\ evict = Bump => /\ c.used = s.off + s.size
                         /\ \A t \in blocks : t.off + t.size <= s.off
  BY <1>1, Allocs
<1>3. kept \subseteq blocks
  BY DEF Outside
<1>4. InFlight' = {s}
  BY <1>1, PendingNext
<1> HIDE DEF s, c, kept
<1>5. IsFiniteSet(kept) /\ \A t \in kept : Proper(t)
  BY <1>3, FS_Subset DEF ArenaInv, Types
<1>6. \A t, r \in kept : t # r => ~Overlap(t, r)
  BY <1>3 DEF ArenaInv, Apart, Live
<1>7. Types'
  BY <1>1, <1>2, <1>5 DEF ArenaInv, Types, Proper
<1>8. Apart'
  BY <1>1, <1>2, <1>4, <1>6 DEF Apart, Live
<1>9. Tiles'
  BY <1>1, <1>2, <1>4 DEF Tiles, Live
<1>10. BumpBelowMark'
  <2> SUFFICES ASSUME evict = Bump
               PROVE  /\ \A t \in kept \union {s} : t.off + t.size <= c.used
                      /\ \A t \in kept : t.off + t.size <= s.off
    BY <1>1, <1>4 DEF BumpBelowMark
  <2>1. \A t \in kept : /\ t.off \in Nat /\ t.size \in Nat
                        /\ t.off + t.size <= s.off
    BY <1>2, <1>3, <1>5, ProperFacts
  <2>2. s.off \in Nat /\ s.size \in Nat /\ c.used = s.off + s.size
    BY <1>2, ProperFacts
  <2> QED
    BY <2>1, <2>2
<1> QED
  BY <1>7, <1>8, <1>9, <1>10 DEF ArenaInv

LEMMA EvictStep ==
  ASSUME ArenaInv, evict' = evict, pend' = pend, pend.at # "emit", NEW s \in blocks,
         cc' = Released(evict, cc, s.off, s.size), blocks' = blocks \ {s}
  PROVE  ArenaInv'
<1>1. InFlight = {} /\ InFlight' = {}
  BY DEF InFlight
<1>2. s \in Live /\ Live' = Live \ {s} /\ blocks' \subseteq blocks /\ InFlight' \subseteq InFlight
  BY <1>1 DEF Live
<1>3. /\ cc' \in Arenas /\ Separated(cc'.free) /\ IsFiniteSet(blocks')
      /\ \A t \in blocks' : Proper(t)
      /\ Apart' /\ BumpBelowMark' /\ Tiles'
  BY <1>2, Drops
<1> QED
  BY <1>3 DEF ArenaInv, Types

LEMMA AllocFailStep == ArenaInv /\ AllocFail => ArenaInv'
<1> SUFFICES ASSUME ArenaInv, AllocFail PROVE ArenaInv'
  OBVIOUS
<1>1. pend' = Idle /\ UNCHANGED << evict, cc, blocks >> /\ InFlight = {} /\ InFlight' = {}
  BY Pending, PendingNext DEF ArenaInv, AllocFail
<1> QED
  BY <1>1 DEF ArenaInv, Types, Apart, BumpBelowMark, Tiles, Live

LEMMA EmitOverflowStep == ArenaInv /\ EmitOverflow => ArenaInv'
<1> SUFFICES ASSUME ArenaInv, EmitOverflow PROVE ArenaInv'
  OBVIOUS
<1>1. /\ pend.at = "emit" /\ cc' = Released(evict, cc, pend.span.off, pend.span.size)
      /\ pend' = Idle /\ evict' = evict /\ blocks' = blocks
  BY DEF EmitOverflow
<1>2. InFlight = {pend.span} /\ InFlight' = {} /\ InFlight \cap blocks = {}
  BY <1>1, Pending, PendingNext DEF ArenaInv, Apart
<1>3. pend.span \in Live /\ Live' = Live \ {pend.span}
  BY <1>1, <1>2 DEF Live
<1>4. /\ cc' \in Arenas /\ Separated(cc'.free) /\ IsFiniteSet(blocks')
      /\ \A t \in blocks' : Proper(t)
      /\ Apart' /\ BumpBelowMark' /\ Tiles'
  BY <1>1, <1>2, <1>3, Drops
<1> QED
  BY <1>1, <1>4 DEF ArenaInv, Types

LEMMA EmitDoneStep == ArenaInv /\ EmitDone => ArenaInv'
<1> SUFFICES ASSUME ArenaInv, EmitDone PROVE ArenaInv'
  OBVIOUS
<1>1. PICK actual \in 1..pend.span.size :
        LET s == Span(pend.span.off, actual) IN
        /\ cc' = Trimmed(evict, cc, s.off, actual, pend.span.size)
        /\ blocks' = blocks \union {s}
  BY DEF EmitDone
<1> DEFINE s == Span(pend.span.off, actual)
           c == Trimmed(evict, cc, s.off, actual, pend.span.size)
<1>2. pend.at = "emit" /\ cc' = c /\ blocks' = blocks \union {s} /\ pend' = Idle /\ evict' = evict
  BY <1>1 DEF EmitDone
<1>3. /\ c \in Arenas /\ Separated(c.free) /\ Proper(s)
      /\ \A t \in blocks : Proper(t) /\ ~Overlap(t, s) /\ ~Overlap(s, t)
      /\ s \notin blocks
      /\ evict = Coldness => Complement(c.free, blocks \union {s})
      /\ evict = Bump => /\ c.used = s.off + s.size
                         /\ \A t \in blocks : t.off + t.size <= s.off
  BY <1>2, Trims
<1> HIDE DEF s, c
<1>4. InFlight' = {} /\ Live' = blocks \union {s}
  BY <1>2, PendingNext DEF Live
<1>5. Types'
  BY <1>2, <1>3, FS_AddElement DEF ArenaInv, Types
<1>6. Apart'
  BY <1>3, <1>4 DEF ArenaInv, Apart, Live
<1>7. Tiles'
  BY <1>2, <1>3, <1>4 DEF Tiles
<1>8. BumpBelowMark'
  <2> SUFFICES ASSUME evict = Bump
               PROVE  \A t \in blocks \union {s} : t.off + t.size <= c.used
    BY <1>2, <1>4 DEF BumpBelowMark
  <2>1. \A t \in blocks : t.off \in Nat /\ t.size \in Nat /\ t.off + t.size <= s.off
    BY <1>3, ProperFacts
  <2>2. s.off \in Nat /\ s.size \in Nat /\ c.used = s.off + s.size
    BY <1>3, ProperFacts
  <2> QED
    BY <2>1, <2>2
<1> QED
  BY <1>5, <1>6, <1>7, <1>8 DEF ArenaInv

LEMMA EmitNoMemoryStep == ArenaInv /\ EmitNoMemory => ArenaInv'
<1> SUFFICES ASSUME ArenaInv, EmitNoMemory PROVE ArenaInv'
  OBVIOUS
<1>1. PICK actual \in 1..pend.span.size :
        cc' = Released(evict, Trimmed(evict, cc, pend.span.off, actual, pend.span.size),
                       pend.span.off, actual)
  BY DEF EmitNoMemory
<1> DEFINE s == Span(pend.span.off, actual)
           c == Trimmed(evict, cc, s.off, actual, pend.span.size)
           L == blocks \union {s}
<1>2. pend.at = "emit" /\ pend' = Idle /\ evict' = evict /\ blocks' = blocks
  BY DEF EmitNoMemory
<1>3. cc' = Released(evict, c, s.off, s.size)
  BY <1>1 DEF Span
<1>4. /\ c \in Arenas /\ Separated(c.free) /\ Proper(s)
      /\ \A t \in blocks : Proper(t) /\ ~Overlap(t, s) /\ ~Overlap(s, t)
      /\ s \notin blocks
      /\ evict = Coldness => Complement(c.free, blocks \union {s})
      /\ evict = Bump => /\ c.used = s.off + s.size
                         /\ \A t \in blocks : t.off + t.size <= s.off
  BY <1>2, Trims
<1> HIDE DEF s, c
<1>5. InFlight' = {} /\ Live' = blocks
  BY <1>2, PendingNext DEF Live
<1>6. cc' \in Arenas /\ Separated(cc'.free) /\ Tiles'
  <2>1. CASE evict = Coldness
    <3>1. cc' = FreeSpan(c, s.off, s.size)
      BY <1>3, <2>1 DEF Released
    <3>2. /\ s \in L /\ \A t \in L : Proper(t)
          /\ \A t \in L : t # s => ~Overlap(t, s)
          /\ L \ {s} = blocks
      BY <1>4
    <3>3. LET d == FreeSpan(c, s.off, s.size) IN
          d \in Arenas /\ Separated(d.free) /\ Complement(d.free, L \ {s})
      BY <1>4, <2>1, <3>2, GiveSpan
    <3> QED
      BY <1>2, <1>5, <3>1, <3>2, <3>3 DEF Tiles
  <2>2. CASE evict # Coldness
    BY <1>2, <1>3, <1>4, <2>2 DEF Released, Tiles
  <2> QED
    BY <2>1, <2>2
<1>7. Types'
  BY <1>2, <1>6 DEF ArenaInv, Types
<1>8. Apart'
  BY <1>2, <1>5 DEF ArenaInv, Apart, Live
<1>9. BumpBelowMark'
  <2> SUFFICES ASSUME evict = Bump, NEW t \in blocks PROVE t.off + t.size <= cc'.used
    BY <1>2, <1>5 DEF BumpBelowMark
  <2>1. cc' = c
    BY <1>3 DEF Released, Bump, Coldness
  <2>2. /\ t.off \in Nat /\ t.size \in Nat /\ t.off + t.size <= s.off
        /\ s.off \in Nat /\ s.size \in Nat /\ c.used = s.off + s.size
    BY <1>4, ProperFacts
  <2> QED
    BY <2>1, <2>2
<1> QED
  BY <1>6, <1>7, <1>8, <1>9 DEF ArenaInv

LEMMA ResetStep == ArenaInv /\ Reset => ArenaInv'
<1> SUFFICES ASSUME ArenaInv, Reset PROVE ArenaInv'
  OBVIOUS
<1>1. /\ evict' = evict /\ evict \in Builds /\ cc' = EmptyArena(evict) /\ blocks' = {}
      /\ pend = Idle /\ pend' = Idle
  BY DEF Reset, ArenaInv, Types
<1>2. InFlight' = {} /\ Live' = {}
  BY <1>1, PendingNext DEF Live
<1>3. cc' \in Arenas /\ Separated(cc'.free) /\ (evict = Coldness => Complement(cc'.free, {}))
  BY <1>1, EmptyTiles
<1> QED
  BY <1>1, <1>2, <1>3, FS_EmptySet DEF ArenaInv, Types, Apart, BumpBelowMark, Tiles

LEMMA ArenaStep == ArenaInv /\ [Next]_vars => ArenaInv'
<1> SUFFICES ASSUME ArenaInv, [Next]_vars PROVE ArenaInv'
  OBVIOUS
<1>1. CASE Compile
  BY <1>1, CompileStep
<1>2. CASE Alloc
  BY <1>2, AllocStep
<1>3. CASE EvictOne
  BY <1>3, EvictStep DEF EvictOne
<1>4. CASE AllocFail
  BY <1>4, AllocFailStep
<1>5. CASE EmitOverflow
  BY <1>5, EmitOverflowStep
<1>6. CASE EmitDone
  BY <1>6, EmitDoneStep
<1>7. CASE EmitNoMemory
  BY <1>7, EmitNoMemoryStep
<1>8. CASE Invalidate
  BY <1>8, EvictStep DEF Invalidate, Idle
<1>9. CASE Reset
  BY <1>9, ResetStep
<1>10. CASE UNCHANGED vars
  BY <1>10 DEF vars, ArenaInv, Types, Apart, BumpBelowMark, Tiles, Live, InFlight
<1> QED
  BY <1>1, <1>2, <1>3, <1>4, <1>5, <1>6, <1>7, <1>8, <1>9, <1>10 DEF Next

LEMMA ArenaHolds == Spec => []ArenaInv
BY InitArena, ArenaStep, PTL DEF Spec

-----------------------------------------------------------------------------
(* What follows *)

\* The arena, the cached blocks and the compile in flight keep their types.
THEOREM ArenaTypes == Spec => []TypeOK
<1>1. ArenaInv => TypeOK
  <2> SUFFICES ASSUME ArenaInv PROVE TypeOK
    OBVIOUS
  <2>1. evict \in Builds /\ cc.used \in 0..Cap /\ blocks \subseteq Spans
    BY DEF ArenaInv, Types, Arenas, Proper
  <2>2. FreeSpans \subseteq Spans
    BY ElementOfSeq, LenProperties DEF ArenaInv, Types, Separated, FreeSpans
  <2>3. pend \in {Idle} \union {Wanting(n) : n \in Reserves} \union {Emitting(s) : s \in Spans}
    BY DEF ArenaInv, Types
  <2> QED
    BY <2>1, <2>2, <2>3 DEF TypeOK
<1> QED
  BY <1>1, ArenaHolds, PTL

\* Trimming a bump reservation moves the high-water mark back over nothing that is
\* in use, whatever the compile orders, failures and drops (codecache_trim).
THEOREM MarkAboveAll == Spec => []BumpBelowMark
BY ArenaHolds, PTL DEF ArenaInv

\* However reservations are split, trimmed, failed and given back, the free list of
\* codecache_free stays in address order with no two spans touching.
THEOREM FreeListStaysCoalesced == Spec => []FreeListCoalesced
<1>1. ArenaInv => FreeListCoalesced
  <2> SUFFICES ASSUME ArenaInv, NEW i \in 1..(Len(cc.free) - 1)
               PROVE  cc.free[i].off + cc.free[i].size < cc.free[i + 1].off
    BY DEF FreeListCoalesced
  <2>1. Separated(cc.free) /\ Len(cc.free) \in Nat
    BY LenProperties DEF ArenaInv, Types, Separated
  <2>2. i \in 1..Len(cc.free) /\ i + 1 \in 1..Len(cc.free) /\ i < i + 1
    BY <2>1
  <2> QED
    BY <2>1, <2>2 DEF Separated, End
<1> QED
  BY <1>1, ArenaHolds, PTL

\* Once every block is evicted the free list is the whole arena again, so the only
\* request codecache_alloc refuses is one larger than the arena (dispatcher.c 703-705).
THEOREM NeverStarves == Spec => []NeverStarved
<1>1. ArenaInv => NeverStarved
  <2> SUFFICES ASSUME ArenaInv, evict = Coldness, pend.at = "alloc", blocks = {}
               PROVE  CanPlace(evict, cc, pend.size) <=> pend.size <= Cap
    BY DEF NeverStarved
  <2> DEFINE F == cc.free
             n == pend.size
  <2>1. n \in Nat \ {0} /\ Live = {}
    BY Pending DEF ArenaInv, Live
  <2>2. \A u \in 0..(Cap - 1) : Holds(F, u)
    BY <2>1 DEF ArenaInv, Tiles, Complement, Held
  <2>3. /\ F \in Seq(Spans) /\ Len(F) \in Nat /\ DOMAIN F = 1..Len(F)
        /\ \A i \in 1..Len(F) : Proper(F[i])
        /\ \A i, j \in 1..Len(F) : i < j => End(F[i]) < F[j].off
    BY LenProperties DEF ArenaInv, Types, Separated
  <2>4. \A i \in 1..Len(F) : /\ F[i].off \in Nat /\ F[i].size \in Nat
                             /\ End(F[i]) = F[i].off + F[i].size /\ End(F[i]) <= Cap
                             /\ F[i].off < End(F[i])
    BY <2>3, ProperFacts
  <2> HIDE DEF F, n
  <2>5. PICK i \in 1..Len(F) : In(0, F[i])
    BY <2>2, <2>3, CapAssumption DEF Holds
  <2>6. F[i].off = 0
    BY <2>4, <2>5 DEF In
  <2>7. End(F[i]) = Cap
    <3> DEFINE e == End(F[i])
    <3> SUFFICES ASSUME e < Cap PROVE FALSE
      <4>1. e \in Nat /\ e <= Cap
        BY <2>4
      <4> HIDE DEF e
      <4>2. e = Cap \/ e < Cap
        BY <4>1, CapAssumption
      <4> QED
        BY <4>2 DEF e
    <3>1. e \in 0..(Cap - 1) /\ e \in Nat
      BY <2>4, CapAssumption
    <3>2. PICK j \in 1..Len(F) : In(e, F[j])
      BY <2>2, <2>3, <3>1 DEF Holds
    <3>3. F[j].off <= e /\ e < End(F[j]) /\ F[j].off \in Nat
      BY <2>4, <3>2 DEF In
    <3>4. ~(i < j)
      BY <2>3, <3>1, <3>3
    <3>5. ~(j < i)
      <4>1. j < i => End(F[j]) < 0
        BY <2>3, <2>6
      <4> QED
        BY <2>4, <4>1
    <3>6. i = j
      BY <2>3, <3>4, <3>5
    <3> QED
      BY <3>1, <3>3, <3>6
  <2>8. CanPlace(evict, cc, n) <=> \E j \in 1..Len(F) : F[j].size >= n
    BY <2>3 DEF CanPlace, Fits, Bump, Coldness, Ring, F
  <2>9. (\E j \in 1..Len(F) : F[j].size >= n) => n <= Cap
    <3> SUFFICES ASSUME NEW j \in 1..Len(F), F[j].size >= n PROVE n <= Cap
      OBVIOUS
    <3>1. F[j].off \in Nat /\ F[j].size \in Nat /\ F[j].off + F[j].size <= Cap
      BY <2>4
    <3> QED
      BY <2>1, <3>1, CapAssumption
  <2>10. n <= Cap => \E j \in 1..Len(F) : F[j].size >= n
    <3>1. F[i].size = Cap
      BY <2>4, <2>6, <2>7
    <3> QED
      BY <3>1, <2>1, CapAssumption
  <2> QED
    BY <2>8, <2>9, <2>10 DEF n
<1> QED
  BY <1>1, ArenaHolds, PTL

LEMMA DisjointUnion ==
  ASSUME NEW S, NEW T, IsFiniteSet(S), IsFiniteSet(T), S \cap T = {}
  PROVE  IsFiniteSet(S \union T) /\ Cardinality(S \union T) = Cardinality(S) + Cardinality(T)
<1> DEFINE a == Cardinality(S)
           b == Cardinality(T)
           u == Cardinality(S \union T)
           z == Cardinality(S \cap T)
<1>1. a \in Nat /\ b \in Nat
  BY FS_CardinalityType
<1>2. z = 0
  BY FS_EmptySet
<1>3. IsFiniteSet(S \union T) /\ u = a + b - z
  BY FS_Union
<1> HIDE DEF a, b, u, z
<1>4. u = a + b
  BY <1>1, <1>2, <1>3
<1> QED
  BY <1>3, <1>4 DEF a, b, u

\* The spans of a separated list, and how many they are.
LEMMA ListSpans ==
  ASSUME NEW F, Separated(F)
  PROVE  LET S == {F[i] : i \in DOMAIN F} IN
         /\ IsFiniteSet(S) /\ Cardinality(S) = Len(F)
         /\ \A s \in S : Proper(s)
         /\ \A s, t \in S : s # t => ~Overlap(s, t)
         /\ \A u : Holds(F, u) <=> Held(S, u)
<1> DEFINE S == {F[i] : i \in DOMAIN F}
           g == [i \in 1..Len(F) |-> F[i]]
<1>1. /\ DOMAIN F = 1..Len(F) /\ Len(F) \in Nat
      /\ \A i \in 1..Len(F) : Proper(F[i])
      /\ \A i, j \in 1..Len(F) : i < j => End(F[i]) < F[j].off
  BY LenProperties DEF Separated
<1>2. ASSUME NEW i \in 1..Len(F), NEW j \in 1..Len(F), i < j
      PROVE  ~Overlap(F[i], F[j]) /\ ~Overlap(F[j], F[i]) /\ F[i] # F[j]
  <2>1. End(F[i]) < F[j].off
    BY <1>1, <1>2
  <2>2. /\ F[i].off \in Nat /\ F[i].size \in Nat /\ End(F[i]) = F[i].off + F[i].size
        /\ F[j].off \in Nat /\ F[j].size \in Nat
    BY <1>1, ProperFacts
  <2>3. F[i].off # F[j].off /\ F[i].off + F[i].size < F[j].off
    BY <2>1, <2>2
  <2>4. ~Overlap(F[i], F[j]) /\ ~Overlap(F[j], F[i])
    BY <2>2, <2>3 DEF Overlap
  <2> QED
    BY <2>3, <2>4
<1>3. ASSUME NEW i \in 1..Len(F), NEW j \in 1..Len(F), F[i] # F[j]
      PROVE  ~Overlap(F[i], F[j])
  <2>1. i < j \/ j < i
    BY <1>1, <1>3
  <2> QED
    BY <1>2, <2>1
<1>4. ASSUME NEW i \in 1..Len(F), NEW j \in 1..Len(F), F[i] = F[j] PROVE i = j
  <2>1. ~(i < j) /\ ~(j < i)
    BY <1>2, <1>4
  <2> QED
    BY <1>1, <2>1
<1>5. ExistsBijection(1..Len(F), S)
  <2>1. g \in [1..Len(F) -> S]
    BY <1>1
  <2>2. \A i, j \in 1..Len(F) : g[i] = g[j] => i = j
    BY <1>4
  <2>3. \A s \in S : \E i \in 1..Len(F) : g[i] = s
    BY <1>1
  <2> HIDE DEF g, S
  <2>4. g \in Bijection(1..Len(F), S)
    BY <2>1, <2>2, <2>3 DEF Bijection, Injection, Surjection, IsInjective
  <2> QED
    BY <2>4 DEF ExistsBijection
<1> HIDE DEF g
<1>6. IsFiniteSet(S) /\ Cardinality(S) = Len(F)
  <2> HIDE DEF S
  <2> QED
    BY <1>1, <1>5, FS_NatBijection, FS_CountingElements
<1>7. \A s \in S : Proper(s)
  BY <1>1
<1>8. \A s, t \in S : s # t => ~Overlap(s, t)
  BY <1>1, <1>3
<1>9. \A u : Holds(F, u) <=> Held(S, u)
  BY DEF Holds, Held
<1> QED
  BY <1>6, <1>7, <1>8, <1>9

\* Whatever the compiles, error paths, drops and resets, every unit of the free-list
\* arena is in exactly one place: a cached block, the reservation in flight or a free
\* span.  Nothing leaks and nothing is handed out twice.
THEOREM NothingLeaksFromArena == Spec => []FreeListTiles
<1>1. ArenaInv => FreeListTiles
  <2> SUFFICES ASSUME ArenaInv, evict = Coldness
               PROVE  LET parts == blocks \union InFlight \union FreeSpans IN
                      /\ UNION {Cells(s) : s \in parts} = 0..(Cap - 1)
                      /\ \A s, t \in parts : s # t => ~Overlap(s, t)
                      /\ Cardinality(parts) =
                           Cardinality(blocks) + Cardinality(InFlight) + Len(cc.free)
    BY DEF FreeListTiles
  <2> DEFINE parts == blocks \union InFlight \union FreeSpans
  <2>1. /\ IsFiniteSet(FreeSpans) /\ Cardinality(FreeSpans) = Len(cc.free)
        /\ \A s \in FreeSpans : Proper(s)
        /\ \A s, t \in FreeSpans : s # t => ~Overlap(s, t)
        /\ \A u : Holds(cc.free, u) <=> Held(FreeSpans, u)
    BY ListSpans DEF ArenaInv, Types, FreeSpans
  <2>2. /\ IsFiniteSet(InFlight) /\ \A s \in Live : Proper(s)
    <3>1. \A s \in InFlight : Proper(s)
      BY Pending DEF ArenaInv, InFlight
    <3>2. IsFiniteSet(InFlight)
      BY FS_Singleton, FS_EmptySet DEF InFlight
    <3> QED
      BY <3>1, <3>2 DEF ArenaInv, Types, Live
  <2>3. /\ IsFiniteSet(blocks) /\ InFlight \cap blocks = {}
        /\ \A s, t \in Live : s # t => ~Overlap(s, t)
    BY DEF ArenaInv, Types, Apart
  <2>4. \A u \in 0..(Cap - 1) : Held(FreeSpans, u) <=> ~Held(Live, u)
    BY <2>1 DEF ArenaInv, Tiles, Complement
  <2>5. ASSUME NEW s \in Live, NEW t \in FreeSpans
        PROVE  ~Overlap(s, t) /\ ~Overlap(t, s) /\ s # t
    <3>1. \A u \in 0..(Cap - 1) : ~(In(u, s) /\ In(u, t))
      BY <2>4 DEF Held
    <3>2. ~Overlap(s, t) /\ ~Overlap(t, s)
      BY <2>1, <2>2, <3>1, OverlapIn
    <3>3. Overlap(s, s)
      BY <2>2, ProperFacts, OverlapIn
    <3> QED
      BY <3>2, <3>3
  <2>6. \A s \in parts : Proper(s)
    BY <2>1, <2>2 DEF Live
  <2>7. \A s \in parts : \A u : u \in Cells(s) <=> u \in Int /\ In(u, s)
    BY <2>6, ProperFacts DEF Cells, In
  <2>8. UNION {Cells(s) : s \in parts} = 0..(Cap - 1)
    <3>1. ASSUME NEW s \in parts, NEW u \in Cells(s) PROVE u \in 0..(Cap - 1)
      BY <2>6, ProperFacts, CapAssumption DEF Cells
    <3>2. ASSUME NEW u \in 0..(Cap - 1) PROVE \E s \in parts : u \in Cells(s)
      <4>1. u \in Int
        BY CapAssumption
      <4>2. \E s \in parts : In(u, s)
        BY <2>4 DEF Held, Live
      <4> QED
        BY <2>7, <4>1, <4>2
    <3> QED
      BY <3>1, <3>2
  <2>9. \A s, t \in parts : s # t => ~Overlap(s, t)
    BY <2>1, <2>3, <2>5 DEF Live
  <2>10. Cardinality(parts) = Cardinality(blocks) + Cardinality(InFlight) + Len(cc.free)
    <3>1. IsFiniteSet(Live) /\ Cardinality(Live) = Cardinality(blocks) + Cardinality(InFlight)
      BY <2>2, <2>3, DisjointUnion DEF Live
    <3>2. Live \cap FreeSpans = {}
      BY <2>5
    <3>3. Cardinality(Live \union FreeSpans) = Cardinality(Live) + Cardinality(FreeSpans)
      BY <2>1, <3>1, <3>2, DisjointUnion
    <3>4. parts = Live \union FreeSpans
      BY DEF Live
    <3> HIDE DEF parts
    <3> QED
      BY <2>1, <3>1, <3>3, <3>4
  <2> QED
    BY <2>8, <2>9, <2>10
<1> QED
  BY <1>1, ArenaHolds, PTL

-----------------------------------------------------------------------------
(* The three allocators implement the arena promise *)

LEMMA InArenaFacts ==
  ASSUME NEW s, Proper(s)
  PROVE  Contract!InArena(s) /\ s.off \in 0..Cap /\ s.size \in 1..Cap
                             /\ s = [off |-> s.off, size |-> s.size]
<1>1. /\ s.off \in Nat /\ s.size \in Nat \ {0} /\ s.off + s.size <= Cap
      /\ s = [off |-> s.off, size |-> s.size]
  BY ProperFacts DEF Span
<1> QED
  BY <1>1, CapAssumption DEF Contract!InArena

LEMMA DisjointFacts ==
  ASSUME NEW s, Proper(s), NEW t, Proper(t), ~Overlap(t, s)
  PROVE  Contract!Disjoint(s, t)
BY ProperFacts DEF Overlap, Contract!Disjoint

\* Whatever the policy and the faults, the spans in use change as Arena says: taken
\* where nothing that stays is, shrunk in place, given back.
THEOREM AllocatorsImplementArena == Spec => ImplementsArena
<1>1. Init => Contract!Init
  BY DEF Init, Contract!Init, InFlight, Idle
<1>2. ArenaInv /\ [Next]_vars => [Contract!Next]_(blocks \union InFlight)
  <2> SUFFICES ASSUME ArenaInv, [Next]_vars PROVE Contract!Next \/ Live' = Live
    BY DEF Live
  <2>1. CASE Compile
    <3>1. PICK n \in Reserves : pend' = Wanting(n)
      BY <2>1 DEF Compile
    <3> QED
      BY <2>1, <3>1, Pending, PendingNext DEF ArenaInv, Compile, Live
  <2>2. CASE Alloc
    <3> DEFINE s == Span(Place(evict, cc, pend.size), pend.size)
               kept == IF evict = Ring THEN Outside(s) ELSE blocks
    <3>1. /\ pend.at = "alloc" /\ CanPlace(evict, cc, pend.size)
          /\ blocks' = kept /\ pend' = Emitting(s)
      BY <2>2 DEF Alloc
    <3>2. Proper(s) /\ \A t \in kept : ~Overlap(t, s)
      BY <3>1, Allocs
    <3>3. kept \subseteq blocks
      BY DEF Outside
    <3> HIDE DEF s, kept
    <3>4. (blocks \union InFlight)' = kept \union {s}
      BY <3>1, PendingNext
    <3>5. \A t \in kept : Contract!Disjoint(s, t)
      BY <3>2, <3>3, DisjointFacts DEF ArenaInv, Types
    <3>6. /\ kept \in SUBSET (blocks \union InFlight) /\ s.off \in 0..Cap /\ s.size \in 1..Cap
          /\ [off |-> s.off, size |-> s.size] = s /\ Contract!InArena(s)
      BY <3>2, <3>3, InArenaFacts
    <3>7. Contract!Reserve
      BY <3>4, <3>5, <3>6 DEF Contract!Reserve
    <3> QED
      BY <3>7 DEF Contract!Next
  <2>3. CASE EvictOne \/ Invalidate \/ Reset
    <3>1. pend' = pend /\ blocks' \subseteq blocks
      BY <2>3 DEF EvictOne, Invalidate, Reset
    <3>2. Contract!Release
      BY <3>1 DEF Contract!Release, InFlight
    <3> QED
      BY <3>2 DEF Contract!Next
  <2>4. CASE AllocFail
    BY <2>4, Pending, PendingNext DEF ArenaInv, AllocFail, Live
  <2>5. CASE EmitOverflow \/ EmitNoMemory
    <3>1. pend' = Idle /\ blocks' = blocks
      BY <2>5 DEF EmitOverflow, EmitNoMemory
    <3>2. InFlight' = {}
      BY <3>1, PendingNext
    <3>3. Contract!Release
      BY <3>1, <3>2 DEF Contract!Release
    <3> QED
      BY <3>3 DEF Contract!Next
  <2>6. CASE EmitDone
    <3>1. PICK actual \in 1..pend.span.size : blocks' = blocks \union {Span(pend.span.off, actual)}
      BY <2>6 DEF EmitDone
    <3>2. pend.at = "emit" /\ pend' = Idle
      BY <2>6 DEF EmitDone
    <3>3. InFlight = {pend.span} /\ pend.span \notin blocks /\ InFlight' = {}
      BY <3>2, Pending, PendingNext DEF ArenaInv, Apart
    <3>4. (blocks \union InFlight)'
            = ((blocks \union InFlight) \ {pend.span})
                \union {[off |-> pend.span.off, size |-> actual]}
      BY <3>1, <3>3 DEF Span
    <3>5. pend.span \in blocks \union InFlight
      BY <3>3
    <3>6. Contract!Shrink
      BY <3>4, <3>5 DEF Contract!Shrink
    <3> QED
      BY <3>6 DEF Contract!Next
  <2>7. CASE UNCHANGED vars
    BY <2>7 DEF vars, Live, InFlight
  <2> QED
    BY <2>1, <2>2, <2>3, <2>4, <2>5, <2>6, <2>7 DEF Next
<1> QED
  BY <1>1, <1>2, ArenaHolds, PTL DEF Spec, ImplementsArena, Contract!Spec

\* What codecache.h promises: no two spans in use share a byte and all lie in the arena,
\* the reservation of a compile that may still fail included.
THEOREM SpansApart == Spec => []Contract!NoOverlap
<1>1. ArenaInv => Contract!NoOverlap
  <2> SUFFICES ASSUME ArenaInv PROVE Contract!NoOverlap
    OBVIOUS
  <2>1. \A s \in Live : Proper(s)
    <3>1. \A s \in InFlight : Proper(s)
      BY Pending DEF ArenaInv, InFlight
    <3> QED
      BY <3>1 DEF ArenaInv, Types, Live
  <2>2. \A s \in Live : Contract!InArena(s)
    BY <2>1, InArenaFacts
  <2>3. \A s, t \in Live : s # t => Contract!Disjoint(s, t)
    BY <2>1, DisjointFacts DEF ArenaInv, Apart
  <2> QED
    BY <2>2, <2>3 DEF Contract!NoOverlap, Live
<1> QED
  BY <1>1, ArenaHolds, PTL


-----------------------------------------------------------------------------
(* An allocation ends: what evict-and-retry uses up *)

\* Each block takes a unit of its own, its first.
LEMMA BlocksFew ==
  ASSUME ArenaInv
  PROVE  IsFiniteSet(blocks) /\ Cardinality(blocks) <= Cap
<1> DEFINE f == [s \in blocks |-> s.off]
<1>1. \A s \in blocks : s.off \in Nat /\ s.size \in Nat \ {0} /\ s.off + s.size <= Cap
  <2>1. \A s \in blocks : Proper(s)
    BY DEF ArenaInv, Types
  <2> QED
    BY <2>1, CapAssumption DEF Proper, Spans, End
<1>2. f \in [blocks -> 0..(Cap - 1)]
  BY <1>1, CapAssumption
<1>3. ASSUME NEW s \in blocks, NEW t \in blocks, f[s] = f[t] PROVE s = t
  <2>1. s.off = t.off
    BY <1>3
  <2>2. Overlap(s, t)
    BY <1>1, <2>1 DEF Overlap
  <2> QED
    BY <2>2 DEF ArenaInv, Apart, Live
<1>4. f \in Injection(blocks, 0..(Cap - 1))
  <2> HIDE DEF f
  <2> QED
    BY <1>2, <1>3 DEF Injection, IsInjective
<1>5. IsFiniteSet(0..(Cap - 1)) /\ Cardinality(0..(Cap - 1)) = Cap
  BY FS_Interval, CapAssumption
<1> QED
  BY <1>4, <1>5, FS_Injection

\* There are never more cached blocks than units in the arena.
THEOREM BlocksBounded == Spec => [](IsFiniteSet(blocks) /\ Cardinality(blocks) <= Cap)
<1>1. ArenaInv => IsFiniteSet(blocks) /\ Cardinality(blocks) <= Cap
  BY BlocksFew
<1> QED
  BY <1>1, ArenaHolds, PTL

\* A step of an allocation that does not end it evicts a block.
RetriesEvict ==
  [][pend.at = "alloc" /\ pend'.at = "alloc"
       => Cardinality(blocks') = Cardinality(blocks) - 1]_vars

\* The evict-and-retry loop of codecache_alloc cannot spin: each time round there is a
\* block less, and with none left it ends one way or the other (NeverStarves).  It is
\* the part of AllocEnds that does not speak of fairness.
THEOREM AllocationsRunDown == Spec => RetriesEvict
<1>1. ASSUME ArenaInv, Next, pend.at = "alloc", pend'.at = "alloc"
      PROVE  Cardinality(blocks') = Cardinality(blocks) - 1
  <2>1. CASE EvictOne
    <3>1. PICK s \in blocks : blocks' = blocks \ {s}
      BY <2>1 DEF EvictOne
    <3>2. IsFiniteSet(blocks)
      BY <1>1, BlocksFew
    <3> QED
      BY <3>1, <3>2, FS_RemoveElement
  <2>2. CASE Alloc
    BY <1>1, <2>2 DEF Alloc, Emitting
  <2>3. CASE \/ Compile \/ AllocFail \/ EmitOverflow \/ EmitDone \/ EmitNoMemory
             \/ Invalidate \/ Reset
    BY <1>1, <2>3 DEF Compile, AllocFail, EmitOverflow, EmitDone, EmitNoMemory, Invalidate,
       Reset, Idle
  <2> QED
    BY <1>1, <2>1, <2>2, <2>3 DEF Next
<1>2. ArenaInv /\ [Next]_vars
        => [pend.at = "alloc" /\ pend'.at = "alloc"
              => Cardinality(blocks') = Cardinality(blocks) - 1]_vars
  BY <1>1
<1> QED
  BY <1>2, ArenaHolds, PTL DEF Spec, RetriesEvict
===============================================================================
