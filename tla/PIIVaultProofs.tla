--------------------------- MODULE PIIVaultProofs ---------------------------
(***************************************************************************)
(* Theorems about the token store and the scan (PIIVault), for every text and  *)
(* whatever the patterns find in it.  The algorithms are folds: FoldProofs      *)
(* gives the steps of each, and an invariant of the steps its result.          *)
(*   - the structured matches that are claimed lie apart, and a match that is   *)
(*     not claimed overlaps one listed before it (StructuredFacts);             *)
(*   - trimming an address keeps the claims apart and passes over no more than  *)
(*     stretches that are too short (TrimStep, ClaimAddressFacts, MatchFacts);  *)
(*   - so the scan leaves clear only what its rules let it (ScanIsSound);        *)
(*   - replacing the matches from the end of the text leaves the part before     *)
(*     the next one as it was (HideOne, HoldOne);                              *)
(*   - so what is redacted or tokenized shows those characters and no others,   *)
(*     and what is tokenized comes back (RedactIsSound, TokenizeReverses).      *)
(***************************************************************************)
EXTENDS PIIVault, FiniteSetTheorems, SequenceTheorems, TLAPS

Claiming == INSTANCE FoldProofs WITH Op <- LAMBDA c, a, x : Claim(a, x)
Trimming == INSTANCE FoldProofs WITH Op <- LAMBDA c, a, x : Trim(c, a, x)
Addressing == INSTANCE FoldProofs WITH Op <- LAMBDA c, a, x : ClaimAddress(c, a, x)
Tokenizing == INSTANCE FoldProofs WITH Op <- LAMBDA c, a, x : TokenizeMatch(c, a, x)
Redacting == INSTANCE FoldProofs WITH Op <- LAMBDA c, a, x : Replaced(a, x, Mark(x.kind))

LEMMA UpTo ==
    ASSUME NEW n \in Nat, NEW S, 0 \in S, \A i \in 1..n : i - 1 \in S => i \in S
    PROVE  \A i \in 0..n : i \in S
  BY Claiming!UpTo

-----------------------------------------------------------------------------
(* FlattenSeq takes the pieces of a sequence one after the other. *)
FlatSteps(h, f) ==
    /\ h[0] = <<>> /\ \A i \in 1..Len(f) : h[i] = h[i - 1] \o f[i]
    /\ h[Len(f)] = FlattenSeq(f)

LEMMA FlatTrace ==
    ASSUME NEW S, NEW f \in Seq(Seq(S))
    PROVE  \E h : FlatSteps(h, f) /\ \A i \in 0..Len(f) : h[i] \in Seq(S)
  <1> DEFINE n == Len(f)
             Is(g, k) == /\ g = [i \in 1..k |-> g[i]]
                         /\ \A i \in 1..k : g[i] = IF i = 1 THEN f[i] ELSE g[i - 1] \o f[i]
             T == {k \in 0..n : \E g : Is(g, k)}
  <1>0. n \in Nat /\ \A i \in 1..n : f[i] \in Seq(S)
    OBVIOUS
  <1>00. n = 0 => f = <<>>
    OBVIOUS
  <1> HIDE DEF n
  <1>1. 0 \in T
    <2> DEFINE g == [i \in 1..0 |-> <<>>]
    <2>1. g = [i \in 1..0 |-> g[i]] /\ 1..0 = {}
      OBVIOUS
    <2> HIDE DEF g
    <2>2. Is(g, 0)
      BY <2>1
    <2> HIDE DEF Is
    <2> QED
      BY <1>0, <2>2
  <1>2. ASSUME NEW k \in 1..n, k - 1 \in T PROVE k \in T
    <2>1. PICK g : Is(g, k - 1)
      BY <1>2
    <2> DEFINE e == [i \in 1..k |-> IF i < k THEN g[i]
                                    ELSE IF k = 1 THEN f[k] ELSE g[k - 1] \o f[k]]
    <2>2. \A i \in 1..k : e[i] = IF i < k THEN g[i]
                                  ELSE IF k = 1 THEN f[k] ELSE g[k - 1] \o f[k]
      OBVIOUS
    <2>3. e = [i \in 1..k |-> e[i]]
      OBVIOUS
    <2> HIDE DEF e
    <2>4. ASSUME NEW i \in 1..k PROVE e[i] = IF i = 1 THEN f[i] ELSE e[i - 1] \o f[i]
      <3>1. CASE i = k
        <4>1. k # 1 => k - 1 \in 1..k /\ k - 1 < k
          BY <1>0
        <4> QED
          BY <2>2, <3>1, <4>1
      <3>2. CASE i < k
        <4>1. i \in 1..(k - 1) /\ (i # 1 => i - 1 \in 1..k /\ i - 1 < k)
          BY <1>0, <3>2
        <4> QED
          BY <2>1, <2>2, <3>2, <4>1
      <3> QED
        BY <1>0, <3>1, <3>2
    <2>5. Is(e, k)
      BY <2>3, <2>4, Zenon
    <2>6. k \in 0..n
      BY <1>0
    <2> HIDE DEF Is
    <2> QED
      BY <2>5, <2>6
  <1>3. \A i \in 0..n : i \in T
    <2> HIDE DEF T
    <2> QED
      BY <1>0, <1>1, <1>2, UpTo
  <1>33. n \in 0..n
    BY <1>0
  <1>4. PICK g : Is(g, n)
    <2> HIDE DEF Is
    <2> QED
      BY <1>3, <1>33
  <1> DEFINE Eq(x) == x = [i \in 1..n |-> IF i = 1 THEN f[i] ELSE x[i - 1] \o f[i]]
             flatten == CHOOSE x : Eq(x)
  <1>5. Eq(g)
    BY <1>4
  <1>6. FlattenSeq(f) = IF n = 0 THEN f ELSE flatten[n]
    BY DEF FlattenSeq, n
  <1>7. Eq(flatten)
    <2> HIDE DEF Eq
    <2> QED
      BY <1>5
  <1> HIDE DEF flatten
  <1>8. \A i \in 1..n : flatten[i] = IF i = 1 THEN f[i] ELSE flatten[i - 1] \o f[i]
    BY <1>7
  <1> HIDE DEF Eq, Is
  <1> DEFINE h == [i \in 0..n |-> IF i = 0 THEN <<>> ELSE flatten[i]]
  <1>9. h[0] = <<>> /\ \A i \in 1..n : h[i] = flatten[i]
    BY <1>0
  <1> HIDE DEF h
  <1>10. ASSUME NEW i \in 1..n PROVE h[i] = h[i - 1] \o f[i]
    <2>1. CASE i = 1
      <3>1. <<>> \o f[i] = f[i]
        BY <1>0, ConcatEmptySeq
      <3>2. h[i] = f[i] /\ h[i - 1] = <<>>
        BY <1>8, <1>9, <2>1
      <3> QED
        BY <3>1, <3>2
    <2>2. CASE i # 1
      <3>1. i - 1 \in 1..n
        BY <1>0, <2>2
      <3> QED
        BY <1>8, <1>9, <2>2, <3>1
    <2> QED
      BY <2>1, <2>2
  <1>11. h[n] = FlattenSeq(f)
    BY <1>0, <1>00, <1>6, <1>9
  <1> DEFINE W == {i \in 0..n : h[i] \in Seq(S)}
  <1>12. \A i \in 0..n : i \in W
    <2>1. 0 \in W
      <3>1. 0 \in 0..n
        BY <1>0
      <3>2. <<>> \in Seq(S)
        BY EmptySeq
      <3> QED
        BY <1>9, <3>1, <3>2
    <2>2. ASSUME NEW i \in 1..n, i - 1 \in W PROVE i \in W
      <3>1. h[i - 1] \in Seq(S) /\ f[i] \in Seq(S) /\ i \in 0..n
        BY <1>0, <2>2
      <3>2. h[i - 1] \o f[i] \in Seq(S)
        BY <3>1, ConcatProperties
      <3> QED
        BY <1>10, <3>1, <3>2
    <2> HIDE DEF W
    <2> QED
      BY <1>0, <2>1, <2>2, UpTo
  <1>13. FlatSteps(h, f) /\ \A i \in 0..Len(f) : h[i] \in Seq(S)
    BY <1>9, <1>10, <1>11, <1>12 DEF FlatSteps, n
  <1> QED
    BY <1>13

(* What flattening keeps and how it splits. *)
LEMMA FlatType ==
    ASSUME NEW S, NEW f \in Seq(Seq(S))
    PROVE  FlattenSeq(f) \in Seq(S)
  <1>1. PICK h : FlatSteps(h, f) /\ \A i \in 0..Len(f) : h[i] \in Seq(S)
    BY FlatTrace
  <1>2. Len(f) \in 0..Len(f)
    OBVIOUS
  <1> QED
    BY <1>1, <1>2 DEF FlatSteps

LEMMA FlatConcat ==
    ASSUME NEW S, NEW f \in Seq(Seq(S)), NEW g \in Seq(Seq(S))
    PROVE  FlattenSeq(f \o g) = FlattenSeq(f) \o FlattenSeq(g)
  <1> DEFINE m == Len(f)  n == Len(g)  e == f \o g
  <1>0. /\ m \in Nat /\ n \in Nat /\ e \in Seq(Seq(S)) /\ Len(e) = m + n
        /\ \A i \in 1..m : e[i] = f[i]
        /\ \A i \in 1..n : e[m + i] = g[i] /\ g[i] \in Seq(S)
    OBVIOUS
  <1> HIDE DEF m, n, e
  <1>1. PICK a : FlatSteps(a, f) /\ \A i \in 0..m : a[i] \in Seq(S)
    BY FlatTrace DEF m
  <1>2. PICK b : FlatSteps(b, g) /\ \A i \in 0..n : b[i] \in Seq(S)
    BY FlatTrace DEF n
  <1>3. PICK h : FlatSteps(h, e) /\ \A i \in 0..Len(e) : h[i] \in Seq(S)
    BY <1>0, FlatTrace
  <1>4. \A i \in 0..m : h[i] = a[i]
    <2> DEFINE T == {i \in 0..m : h[i] = a[i]}
    <2>1. 0 \in T
      BY <1>0, <1>1, <1>3 DEF FlatSteps
    <2>2. ASSUME NEW i \in 1..m, i - 1 \in T PROVE i \in T
      <3>1. i \in 0..m /\ i \in 1..(m + n)
        BY <1>0
      <3>2. h[i] = h[i - 1] \o e[i] /\ a[i] = a[i - 1] \o f[i]
        BY <1>0, <1>1, <1>3, <3>1 DEF FlatSteps, m
      <3> QED
        BY <1>0, <2>2, <3>1, <3>2
    <2>3. \A i \in 0..m : i \in T
      <3> HIDE DEF T
      <3> QED
        BY <1>0, <2>1, <2>2, UpTo
    <2> QED
      BY <2>3
  <1>5. \A i \in 0..n : h[m + i] = a[m] \o b[i]
    <2> DEFINE T == {i \in 0..n : h[m + i] = a[m] \o b[i]}
    <2>0. a[m] \in Seq(S) /\ h[m] = a[m]
      BY <1>0, <1>1, <1>4
    <2>1. 0 \in T
      <3>1. b[0] = <<>> /\ m + 0 = m /\ 0 \in 0..n
        BY <1>0, <1>2 DEF FlatSteps
      <3>2. a[m] \o <<>> = a[m]
        BY <2>0, ConcatEmptySeq
      <3> QED
        BY <2>0, <3>1, <3>2
    <2>2. ASSUME NEW i \in 1..n, i - 1 \in T PROVE i \in T
      <3>1. i \in 0..n /\ m + i \in 1..(m + n) /\ (m + i) - 1 = m + (i - 1) /\ i - 1 \in 0..n
        BY <1>0
      <3>2. h[m + i] = h[m + (i - 1)] \o g[i] /\ b[i] = b[i - 1] \o g[i]
        BY <1>0, <1>2, <1>3, <3>1 DEF FlatSteps, n
      <3>3. h[m + (i - 1)] = a[m] \o b[i - 1]
        BY <2>2
      <3>4. (a[m] \o b[i - 1]) \o g[i] = a[m] \o (b[i - 1] \o g[i])
        <4> DEFINE x == a[m]  y == b[i - 1]  z == g[i]
        <4>1. x \in Seq(S) /\ y \in Seq(S) /\ z \in Seq(S)
          BY <1>0, <1>2, <2>0, <3>1
        <4> HIDE DEF x, y, z
        <4>2. (x \o y) \o z = x \o (y \o z)
          BY <4>1, ConcatAssociative, SMTT(60)
        <4> QED
          BY <4>2 DEF x, y, z
      <3> QED
        BY <3>1, <3>2, <3>3, <3>4
    <2>3. \A i \in 0..n : i \in T
      <3> HIDE DEF T
      <3> QED
        BY <1>0, <2>1, <2>2, UpTo
    <2> QED
      BY <2>3
  <1>6. h[m + n] = a[m] \o b[n]
    <2>1. n \in 0..n
      BY <1>0
    <2> QED
      BY <1>5, <2>1, Zenon
  <1> QED
    BY <1>0, <1>1, <1>2, <1>3, <1>6 DEF FlatSteps, m, n, e

LEMMA FlatEmpty ==
    ASSUME NEW f \in Seq({<<>>})
    PROVE  FlattenSeq(f) = <<>>
  <1>1. f \in Seq(Seq({}))
    <2>1. {<<>>} \subseteq Seq({})
      BY EmptySeq
    <2> QED
      BY <2>1, SeqMonotonic
  <1>2. FlattenSeq(f) \in Seq({})
    BY <1>1, FlatType
  <1> QED
    BY <1>2

LEMMA FlatSingles ==
    ASSUME NEW S, NEW r \in Seq(S), NEW f, f = [i \in 1..Len(r) |-> <<r[i]>>]
    PROVE  f \in Seq(Seq(S)) /\ FlattenSeq(f) = r
  <1>0. Len(r) \in Nat /\ \A i \in 1..Len(r) : r[i] \in S
    OBVIOUS
  <1>1. f \in Seq(Seq(S)) /\ Len(f) = Len(r) /\ \A i \in 1..Len(r) : f[i] = <<r[i]>>
    BY <1>0
  <1>2. PICK h : FlatSteps(h, f)
    BY <1>1, FlatTrace
  <1> DEFINE T == {i \in 0..Len(r) : h[i] = SubSeq(r, 1, i)}
  <1>3. 0 \in T
    <2>1. 0 \in 0..Len(r)
      BY <1>0
    <2>2. SubSeq(r, 1, 0) = <<>>
      BY SubSeqEmpty
    <2> QED
      BY <1>2, <2>1, <2>2 DEF FlatSteps
  <1>4. ASSUME NEW i \in 1..Len(r), i - 1 \in T PROVE i \in T
    <2>1. h[i] = SubSeq(r, 1, i - 1) \o <<r[i]>>
      BY <1>1, <1>2, <1>4 DEF FlatSteps
    <2>2. 1 \in 1..Len(r) /\ i \in 1..Len(r) /\ i \in 0..Len(r)
      BY <1>0
    <2>3. SubSeq(r, 1, i) = SubSeq(r, 1, i - 1) \o <<r[i]>>
      BY <2>2, SubSeqRecursiveSecond
    <2> QED
      BY <2>1, <2>2, <2>3
  <1>5. \A i \in 0..Len(r) : i \in T
    <2> HIDE DEF T
    <2> QED
      BY <1>0, <1>3, <1>4, UpTo
  <1>6. Len(r) \in 0..Len(r) /\ SubSeq(r, 1, Len(r)) = r
    BY <1>0, SubSeqFull
  <1> QED
    BY <1>1, <1>2, <1>5, <1>6 DEF FlatSteps

LEMMA FlatOne ==
    ASSUME NEW S, NEW x \in Seq(S)
    PROVE  FlattenSeq(<<x>>) = x
  <1> DEFINE f == <<x>>
  <1>1. f \in Seq(Seq(S)) /\ Len(f) = 1 /\ f[1] = x
    OBVIOUS
  <1> HIDE DEF f
  <1>2. PICK h : FlatSteps(h, f)
    BY <1>1, FlatTrace
  <1>3. h[1] = <<>> \o x /\ h[1] = FlattenSeq(f)
    <2>1. h[0] = <<>> /\ h[1] = FlattenSeq(f) /\ \A i \in 1..1 : h[i] = h[i - 1] \o f[i]
      BY <1>1, <1>2 DEF FlatSteps
    <2>2. 1 \in 1..1 /\ 1 - 1 = 0
      OBVIOUS
    <2> QED
      BY <1>1, <2>1, <2>2
  <1>4. <<>> \o x = x
    BY ConcatEmptySeq
  <1> QED
    BY <1>3, <1>4 DEF f

(* Sequences joined, and cut in two. *)
LEMMA ConcatType ==
    ASSUME NEW S, NEW f \in Seq(S), NEW g \in Seq(S)
    PROVE  f \o g \in Seq(S) /\ Len(f \o g) = Len(f) + Len(g)
  BY ConcatProperties

LEMMA Split ==
    ASSUME NEW S, NEW q \in Seq(S), NEW a \in 1..(Len(q) + 1), NEW b \in a..(Len(q) + 1),
           NEW n \in (b - 1)..Len(q)
    PROVE  /\ SubSeq(q, a, n) = SubSeq(q, a, b - 1) \o SubSeq(q, b, n)
           /\ SubSeq(q, a, b - 1) \in Seq(S) /\ Len(SubSeq(q, a, b - 1)) = b - a
           /\ \A i \in 1..(b - a) : SubSeq(q, a, b - 1)[i] = q[a + i - 1]
  <1>1. Len(q) \in Nat /\ \A i \in 1..Len(q) : q[i] \in S
    OBVIOUS
  <1>2. /\ b - 1 \in (a - 1)..Len(q) /\ n \in (b - 1)..Len(q) /\ (b - 1) + 1 = b
        /\ a \in Int /\ b - 1 \in Int
    BY <1>1
  <1>3. SubSeq(q, a, b - 1) \o SubSeq(q, (b - 1) + 1, n) = SubSeq(q, a, n)
    BY <1>2, ConcatAdjacentSubSeq
  <1>4. \A i \in a..(b - 1) : q[i] \in S
    BY <1>1, <1>2
  <1> DEFINE c == b - 1
  <1>5. c \in Int /\ \A i \in a..c : q[i] \in S
    BY <1>2, <1>4
  <1> HIDE DEF c
  <1>6. /\ SubSeq(q, a, c) \in Seq(S)
        /\ Len(SubSeq(q, a, c)) = IF a <= c THEN c - a + 1 ELSE 0
        /\ \A i \in 1..(c - a + 1) : SubSeq(q, a, c)[i] = q[a + i - 1]
    BY <1>2, <1>5, SubSeqProperties
  <1>7. c = b - 1 /\ c - a + 1 = b - a /\ (a <= c \/ b - a = 0)
    BY <1>1 DEF c
  <1> QED
    BY <1>2, <1>3, <1>6, <1>7
-----------------------------------------------------------------------------
(* Spans that do not overlap each other. *)
Apart(spans) == \A a, b \in spans : a # b => ~Overlap(a, b)

LEMMA SpanFacts ==
    ASSUME NEW text, Len(text) \in Nat, NEW kinds, NEW a \in SpansOf(text, kinds)
    PROVE  /\ a.from \in Nat /\ a.to \in Nat /\ 1 <= a.from /\ a.from < a.to
           /\ a.to <= Len(text) + 1 /\ a.kind \in kinds
  BY DEF SpansOf

(* A match that one listed before it overlaps. *)
Preempted(u, j) == \E k \in 1..(j - 1) : Overlap(u.found[k], u.found[j])

(* What the structured patterns claim: matches apart from each other, and of     *)
(* every match not claimed one that it overlaps, listed before it.             *)
LEMMA StructuredFacts ==
    ASSUME NEW u, IsUtterance(u)
    PROVE  /\ Structured(u) \subseteq SpansOf(u.text, Kinds)
           /\ Apart(Structured(u))
           /\ \A j \in 1..Len(u.found) : u.found[j] \in Structured(u) \/ Preempted(u, j)
  <1> DEFINE n == Len(u.found)  S == SpansOf(u.text, Kinds)
  <1>0. n \in Nat /\ u.found \in Seq(S) /\ \A j \in 1..n : u.found[j] \in S
    BY DEF IsUtterance
  <1>1. PICK t : Claiming!IsTrace(t, 0, {}, u.found)
    BY <1>0, Claiming!FoldTrace
  <1>2. t[0] = {} /\ \A i \in 1..n : t[i] = Claim(t[i - 1], u.found[i])
    BY <1>1 DEF Claiming!IsTrace
  <1>3. t[n] = Structured(u)
    <2>1. Claiming!Folded(0, {}, u.found) = Structured(u)
      BY DEF Claiming!Folded, Structured, FoldLeft, MapThenFoldSet, Max,
             Claiming!FoldLeft, Claiming!MapThenFoldSet, Claiming!Max
    <2> QED
      BY <1>1, <2>1 DEF Claiming!IsTrace
  <1> HIDE DEF n, S
  <1> DEFINE Good(k) ==
        /\ \A a \in t[k] : a \in S /\ \E j \in 1..k : a = u.found[j]
        /\ Apart(t[k])
        /\ \A j \in 1..k : u.found[j] \in t[k] \/ Preempted(u, j)
             T == {k \in 0..n : Good(k)}
  <1>4. 0 \in T
    BY <1>0, <1>2 DEF Apart
  <1>5. ASSUME NEW k \in 1..n, k - 1 \in T PROVE k \in T
    <2> DEFINE m == u.found[k]
    <2>0. k \in 0..n /\ m \in S /\ Good(k - 1) /\ k - 1 \in Nat
      BY <1>0, <1>5
    <2>1. t[k] = Claim(t[k - 1], m)
      BY <1>2
    <2>2. CASE OverlapsAny(m, t[k - 1])
      <3>1. t[k] = t[k - 1]
        BY <2>1, <2>2 DEF Claim
      <3>2. PICK c \in t[k - 1] : Overlap(m, c)
        BY <2>2 DEF OverlapsAny
      <3>3. PICK j \in 1..(k - 1) : c = u.found[j]
        BY <2>0, <3>2
      <3>4. Overlap(u.found[j], u.found[k])
        BY <3>2, <3>3 DEF Overlap
      <3>5. Preempted(u, k)
        BY <3>4 DEF Preempted
      <3>6. \A i \in 1..k : i \in 1..(k - 1) \/ i = k
        BY <2>0
      <3>7. \A i \in 1..(k - 1) : i \in 1..k
        BY <2>0
      <3> QED
        BY <2>0, <3>1, <3>5, <3>6, <3>7
    <2>3. CASE ~OverlapsAny(m, t[k - 1])
      <3>1. t[k] = t[k - 1] \cup {m}
        BY <2>1, <2>3 DEF Claim
      <3>2. \A c \in t[k - 1] : ~Overlap(m, c) /\ ~Overlap(c, m)
        BY <2>0, <2>3, <1>0 DEF OverlapsAny, Overlap, SpansOf, S
      <3>3. Apart(t[k])
        BY <2>0, <3>1, <3>2 DEF Apart
      <3>4. \A i \in 1..k : i \in 1..(k - 1) \/ i = k
        BY <2>0
      <3>5. k \in 1..k /\ \A i \in 1..(k - 1) : i \in 1..k
        BY <2>0
      <3>6. \A j \in 1..k : u.found[j] \in t[k] \/ Preempted(u, j)
        BY <2>0, <3>1, <3>4
      <3>7. \A a \in t[k] : a \in S /\ \E j \in 1..k : a = u.found[j]
        BY <2>0, <3>1, <3>5
      <3> QED
        BY <2>0, <3>3, <3>6, <3>7
    <2> QED
      BY <2>2, <2>3
  <1>6. \A k \in 0..n : k \in T
    <2> HIDE DEF T
    <2> QED
      BY <1>0, <1>4, <1>5, UpTo
  <1>7. Good(n)
    <2>1. n \in 0..n
      BY <1>0
    <2> QED
      BY <1>6, <2>1
  <1> QED
    BY <1>3, <1>7 DEF n, S
-----------------------------------------------------------------------------
IsOrder(q, spans) ==
    /\ q \in [1..Cardinality(spans) -> spans]
    /\ \A span \in spans : \E i \in 1..Cardinality(spans) : q[i] = span
    /\ \A i, j \in 1..Cardinality(spans) : i < j => q[i].from < q[j].from

LEMMA OrderExists ==
    ASSUME NEW text, Len(text) \in Nat, NEW kinds, NEW spans \in SUBSET SpansOf(text, kinds),
           Apart(spans)
    PROVE  IsFiniteSet(spans) /\ \E q : IsOrder(q, spans)
  <1> DEFINE n == Len(text)
             Below(r, k) == \A a \in r : a.from <= k
             Good(k) == \A r \in SUBSET spans : Below(r, k) => IsFiniteSet(r) /\ \E q : IsOrder(q, r)
             T == {k \in 0..n : Good(k)}
  <1>0. \A a \in spans : a.from \in Nat /\ a.to \in Nat /\ 1 <= a.from /\ a.from < a.to /\ a.from <= n
    BY SpanFacts
  <1>00. n \in Nat
    OBVIOUS
  <1> HIDE DEF n
  <1>1. Good(0)
    <2> SUFFICES ASSUME NEW r \in SUBSET spans, Below(r, 0)
                 PROVE  IsFiniteSet(r) /\ \E q : IsOrder(q, r)
      OBVIOUS
    <2>1. r = {}
      BY <1>0
    <2>2. IsFiniteSet({}) /\ Cardinality({}) = 0
      BY FS_EmptySet
    <2>3. <<>> \in [1..0 -> {}]
      OBVIOUS
    <2>4. IsOrder(<<>>, {})
      BY <2>2, <2>3 DEF IsOrder
    <2> QED
      BY <2>1, <2>2, <2>4
  <1>2. ASSUME NEW k \in 1..n, Good(k - 1) PROVE Good(k)
    <2> SUFFICES ASSUME NEW r \in SUBSET spans, Below(r, k)
                 PROVE  IsFiniteSet(r) /\ \E q : IsOrder(q, r)
      OBVIOUS
    <2>0. k \in Nat
      BY <1>00
    <2>1. CASE \A a \in r : a.from # k
      <3>1. Below(r, k - 1)
        BY <1>0, <2>0, <2>1
      <3> QED
        BY <1>2, <3>1
    <2>2. ASSUME NEW a \in r, a.from = k PROVE IsFiniteSet(r) /\ \E q : IsOrder(q, r)
      <3> DEFINE s == r \ {a}
      <3>1. ASSUME NEW b \in s PROVE b.from <= k - 1
        <4>1. b # a /\ b \in spans /\ a \in spans /\ b.from <= k
          OBVIOUS
        <4>2. ~Overlap(a, b)
          BY <4>1 DEF Apart
        <4> QED
          BY <1>0, <2>0, <2>2, <4>1, <4>2 DEF Overlap
      <3>2. s \in SUBSET spans /\ Below(s, k - 1)
        BY <3>1
      <3>3. IsFiniteSet(s)
        BY <1>2, <3>2
      <3>4. PICK q : IsOrder(q, s)
        BY <1>2, <3>2
      <3> DEFINE c == Cardinality(s)
      <3>5. r = s \cup {a} /\ a \notin s
        BY <2>2
      <3> HIDE DEF s
      <3>6. IsFiniteSet(r) /\ Cardinality(r) = c + 1 /\ c \in Nat
        BY <3>3, <3>5, FS_AddElement, FS_CardinalityType
      <3>7. /\ q \in [1..c -> s] /\ \A span \in s : \E i \in 1..c : q[i] = span
            /\ \A i, j \in 1..c : i < j => q[i].from < q[j].from
        BY <3>4 DEF IsOrder
      <3> HIDE DEF c
      <3> DEFINE p == [i \in 1..(c + 1) |-> IF i = c + 1 THEN a ELSE q[i]]
      <3>8. p \in [1..(c + 1) -> r]
        BY <3>5, <3>6, <3>7
      <3>9. p[c + 1] = a /\ \A i \in 1..c : p[i] = q[i] /\ i \in 1..(c + 1)
        BY <3>6
      <3>10. c + 1 \in 1..(c + 1) /\ \A i \in 1..(c + 1) : i = c + 1 \/ i \in 1..c
        BY <3>6
      <3> HIDE DEF p
      <3>11. \A span \in r : \E i \in 1..(c + 1) : p[i] = span
        BY <3>5, <3>7, <3>9, <3>10
      <3>12. ASSUME NEW i \in 1..(c + 1), NEW j \in 1..(c + 1), i < j
             PROVE  p[i].from < p[j].from
        <4>1. i \in 1..c
          BY <3>6, <3>12
        <4>2. CASE j \in 1..c
          BY <3>7, <3>9, <3>12, <4>1, <4>2
        <4>3. CASE j = c + 1
          <5>1. p[i] \in s /\ p[j] = a
            BY <3>7, <3>9, <4>1, <4>3
          <5>2. p[i] \in spans /\ p[i].from <= k - 1
            BY <3>1, <3>2, <5>1 DEF s
          <5> QED
            BY <1>0, <2>0, <2>2, <5>1, <5>2
        <4> QED
          BY <3>10, <4>2, <4>3
      <3>13. IsOrder(p, r)
        BY <3>6, <3>8, <3>11, <3>12 DEF IsOrder
      <3> QED
        BY <3>6, <3>13
    <2> QED
      BY <2>1, <2>2
  <1>3. \A k \in 0..n : k \in T
    <2>1. 0 \in T
      BY <1>00, <1>1
    <2>2. \A k \in 1..n : k - 1 \in T => k \in T
      <3> HIDE DEF Good
      <3> QED
        BY <1>00, <1>2
    <2> HIDE DEF T
    <2> QED
      BY <1>00, <2>1, <2>2, UpTo
  <1>4. Good(n) /\ Below(spans, n)
    <2>1. n \in 0..n
      BY <1>00
    <2>2. Good(n)
      BY <1>3, <2>1
    <2> QED
      BY <1>0, <2>2
  <1> QED
    BY <1>4

LEMMA InOrder ==
    ASSUME NEW text, Len(text) \in Nat, NEW kinds, NEW spans \in SUBSET SpansOf(text, kinds),
           Apart(spans), NEW q, q = InTextOrder(spans), NEW n, n = Len(q)
    PROVE  /\ n \in Nat /\ q \in Seq(spans)
           /\ \A span \in spans : \E i \in 1..n : q[i] = span
           /\ \A i, j \in 1..n : i < j => q[i].to <= q[j].from
  <1>1. IsFiniteSet(spans) /\ \E p : IsOrder(p, spans)
    BY OrderExists
  <1>2. IsOrder(InTextOrder(spans), spans)
    BY <1>1 DEF InTextOrder, IsOrder
  <1>3. Cardinality(spans) \in Nat
    BY <1>1, FS_CardinalityType
  <1>4. q \in [1..Cardinality(spans) -> spans] /\ q \in Seq(spans) /\ n = Cardinality(spans)
    BY <1>2, <1>3 DEF IsOrder
  <1>5. ASSUME NEW i \in 1..n, NEW j \in 1..n, i < j PROVE q[i].to <= q[j].from
    <2>1. q[i] \in spans /\ q[j] \in spans /\ q[i].from < q[j].from
      BY <1>2, <1>4, <1>5 DEF IsOrder
    <2>2. /\ q[i].from \in Nat /\ q[i].to \in Nat /\ q[i].from < q[i].to
          /\ q[j].from \in Nat /\ q[j].to \in Nat /\ q[j].from < q[j].to
      BY <2>1, SpanFacts
    <2>3. q[i] # q[j]
      BY <2>1, <2>2
    <2>4. ~Overlap(q[i], q[j])
      BY <2>1, <2>3 DEF Apart
    <2> QED
      BY <2>1, <2>2, <2>4 DEF Overlap
  <1> QED
    BY <1>2, <1>3, <1>4, <1>5 DEF IsOrder
-----------------------------------------------------------------------------
(* A stretch of an address, between its ends or matches, too short to be claimed. *)
Short(S, hint, i) ==
    \E a, b \in Nat :
       /\ hint.from <= a /\ a <= i /\ i < b /\ b <= hint.to /\ b < a + MinAddressFragment
       /\ a = hint.from \/ \E c \in S : c.to = a
       /\ b = hint.to \/ \E c \in S : c.from = b

Seen(claimed, S, hint, i) == (\E c \in claimed : Covers(c, i)) \/ Short(S, hint, i)

Inside(c, hint) == hint.from <= c.from /\ c.to <= hint.to

(* A match of the address pattern, apart from what other addresses have claimed. *)
Setting(text, S, C, hint) ==
    /\ Len(text) \in Nat /\ S \subseteq SpansOf(text, Kinds) /\ Apart(S)
    /\ S \subseteq C /\ C \subseteq SpansOf(text, AllKinds) /\ Apart(C)
    /\ hint \in SpansOf(text, {"ADDRESS"}) /\ \A c \in C \ S : ~Overlap(c, hint)

Free(S, from, to) == \A d \in S : d.to <= from \/ to <= d.from

(* Where an address is cut, once the matches in "done" have been taken. *)
TrimInv(text, S, C, hint, at, done) ==
    /\ at.cursor \in Nat /\ hint.from <= at.cursor
    /\ at.cursor = hint.from \/ \E c \in S : c.to = at.cursor
    /\ \A s \in done : s.to <= at.cursor \/ hint.to <= s.from
    /\ C \subseteq at.claimed /\ at.claimed \subseteq SpansOf(text, AllKinds) /\ Apart(at.claimed)
    /\ \A c \in at.claimed \ C : Inside(c, hint) /\ c.to <= at.cursor
    /\ \A i \in Nat : Covers(hint, i) /\ i < at.cursor => Seen(at.claimed, S, hint, i)

(* A piece of an address that starts where the last cut ended is apart from all  *)
(* that is claimed.                                                          *)
LEMMA PieceApart ==
    ASSUME NEW text, NEW S, NEW C, NEW hint, Setting(text, S, C, hint),
           NEW at, NEW done, TrimInv(text, S, C, hint, at, done),
           NEW b \in Nat, at.cursor < b, b <= hint.to, Free(S, at.cursor, b)
    PROVE  LET p == Span(at.cursor, b, "ADDRESS")
           IN  /\ p \in SpansOf(text, AllKinds) /\ Inside(p, hint)
               /\ p.from = at.cursor /\ p.to = b
               /\ \A c \in at.claimed : ~Overlap(c, p) /\ ~Overlap(p, c)
  <1> DEFINE p == Span(at.cursor, b, "ADDRESS")
  <1> USE DEF Setting, Free
  <1>1. p.from = at.cursor /\ p.to = b /\ p.kind = "ADDRESS"
    BY DEF Span
  <1>2. /\ hint.from \in Nat /\ hint.to \in Nat /\ 1 <= hint.from /\ hint.to <= Len(text) + 1
        /\ at.cursor \in Nat /\ hint.from <= at.cursor
    BY SpanFacts DEF TrimInv
  <1>3. p \in SpansOf(text, AllKinds) /\ Inside(p, hint)
    BY <1>1, <1>2 DEF SpansOf, AllKinds, Inside, Span
  <1>4. ASSUME NEW c \in at.claimed PROVE ~Overlap(c, p) /\ ~Overlap(p, c)
    <2>1. c \in SpansOf(text, AllKinds)
      BY DEF TrimInv
    <2>2. c.from \in Nat /\ c.to \in Nat /\ c.from < c.to
      BY <2>1, SpanFacts
    <2>3. CASE c \in S
      BY <1>1, <1>2, <2>2, <2>3 DEF Overlap
    <2>4. CASE c \in C \ S
      <3>1. ~Overlap(c, hint)
        BY <2>4
      <3> QED
        BY <1>1, <1>2, <2>2, <3>1 DEF Overlap
    <2>5. CASE c \notin C
      <3>1. c.to <= at.cursor
        BY <2>5 DEF TrimInv
      <3> QED
        BY <1>1, <1>2, <2>2, <3>1 DEF Overlap
    <2> QED
      BY <2>3, <2>4, <2>5
  <1> HIDE DEF p
  <1> QED
    BY <1>1, <1>3, <1>4 DEF p

LEMMA ApartWith ==
    ASSUME NEW spans, NEW p, Apart(spans), \A c \in spans : ~Overlap(c, p) /\ ~Overlap(p, c)
    PROVE  Apart(spans \cup {p})
  BY DEF Apart

LEMMA TrimStep ==
    ASSUME NEW text, NEW S, NEW C, NEW hint, Setting(text, S, C, hint),
           NEW at, NEW done \in SUBSET S, TrimInv(text, S, C, hint, at, done),
           NEW s \in S, \A d \in S : d \in done \/ d = s \/ s.to <= d.from,
           NEW next, next = Trim(hint, at, s)
    PROVE  TrimInv(text, S, C, hint, next, done \cup {s})
  <1>0. /\ s.from \in Nat /\ s.to \in Nat /\ s.from < s.to
        /\ hint.from \in Nat /\ hint.to \in Nat /\ hint.from < hint.to
        /\ at.cursor \in Nat /\ hint.from <= at.cursor
    BY SpanFacts DEF TrimInv, Setting
  <1>m. MinAddressFragment \in Nat \ {0}
    BY ScanAssumption
  <1>1. CASE s.to <= at.cursor \/ hint.to <= s.from
    <2>1. next = at
      BY <1>0, <1>1 DEF Trim
    <2> QED
      BY <1>1, <2>1 DEF TrimInv
  <1>2. CASE at.cursor < s.to /\ s.from < hint.to
    <2> DEFINE p == Span(at.cursor, s.from, "ADDRESS")
               long == s.from >= at.cursor + MinAddressFragment
    <2>1. next.cursor = s.to /\ next.claimed = IF long THEN at.claimed \cup {p} ELSE at.claimed
      BY <1>0, <1>2 DEF Trim
    <2>2. \A d \in S : d.to <= at.cursor \/ s.from <= d.from
      <3> SUFFICES ASSUME NEW d \in S PROVE d.to <= at.cursor \/ s.from <= d.from
        OBVIOUS
      <3>1. d.from \in Nat /\ d.to \in Nat
        BY SpanFacts DEF Setting
      <3>2. CASE d \in done
        <4>1. d.to <= at.cursor \/ hint.to <= d.from
          BY <3>2 DEF TrimInv
        <4> QED
          BY <1>0, <1>2, <3>1, <4>1
      <3>3. CASE d = s \/ s.to <= d.from
        BY <1>0, <3>1, <3>3
      <3> QED
        BY <3>2, <3>3
    <2>3. long => /\ p \in SpansOf(text, AllKinds) /\ Inside(p, hint)
                  /\ p.from = at.cursor /\ p.to = s.from
                  /\ \A c \in at.claimed : ~Overlap(c, p) /\ ~Overlap(p, c)
      <3> SUFFICES ASSUME long
                   PROVE  /\ p \in SpansOf(text, AllKinds) /\ Inside(p, hint)
                          /\ p.from = at.cursor /\ p.to = s.from
                          /\ \A c \in at.claimed : ~Overlap(c, p) /\ ~Overlap(p, c)
        OBVIOUS
      <3> DEFINE b == s.from
      <3>1. b \in Nat /\ at.cursor < b /\ b <= hint.to
        BY <1>0, <1>m, <1>2
      <3>2. Free(S, at.cursor, b)
        BY <2>2 DEF Free
      <3>3. p = Span(at.cursor, b, "ADDRESS") /\ s.from = b
        OBVIOUS
      <3> HIDE DEF p, long, b
      <3>4. /\ p \in SpansOf(text, AllKinds) /\ Inside(p, hint) /\ p.from = at.cursor /\ p.to = b
            /\ \A c \in at.claimed : ~Overlap(c, p) /\ ~Overlap(p, c)
        BY <3>1, <3>2, <3>3, PieceApart
      <3> QED
        BY <3>3, <3>4
    <2> HIDE DEF p
    <2>4. at.claimed \subseteq next.claimed
      BY <2>1
    <2>5. /\ C \subseteq next.claimed /\ next.claimed \subseteq SpansOf(text, AllKinds)
          /\ Apart(next.claimed)
      <3>0. Apart(at.claimed)
        BY DEF TrimInv
      <3> HIDE DEF long
      <3>1. Apart(next.claimed)
        <4>1. CASE long
          <5>1. Apart(at.claimed \cup {p})
            BY <2>3, <3>0, <4>1, ApartWith
          <5> QED
            BY <2>1, <4>1, <5>1
        <4>2. CASE ~long
          BY <2>1, <3>0, <4>2
        <4> QED
          BY <4>1, <4>2
      <3> QED
        BY <2>1, <2>3, <3>1 DEF TrimInv
    <2>6. ASSUME NEW c \in next.claimed \ C PROVE Inside(c, hint) /\ c.to <= next.cursor
      <3>1. CASE c \in at.claimed
        <4>1. Inside(c, hint) /\ c.to <= at.cursor /\ c \in SpansOf(text, AllKinds)
          BY <2>6, <3>1 DEF TrimInv
        <4>2. c.to \in Nat
          BY <4>1, SpanFacts DEF Setting
        <4> QED
          BY <1>0, <1>2, <2>1, <4>1, <4>2
      <3>2. CASE long /\ c = p
        BY <1>0, <1>2, <2>1, <2>3, <3>2
      <3> QED
        BY <2>1, <2>6, <3>1, <3>2
    <2>7. ASSUME NEW i \in Nat, Covers(hint, i), i < next.cursor
          PROVE  Seen(next.claimed, S, hint, i)
      <3>1. CASE i < at.cursor
        <4>1. Seen(at.claimed, S, hint, i)
          BY <2>7, <3>1 DEF TrimInv
        <4> QED
          BY <2>4, <4>1 DEF Seen
      <3>2. CASE i >= s.from
        <4>1. Covers(s, i) /\ s \in next.claimed
          BY <1>0, <2>1, <2>5, <2>7, <3>2 DEF Covers, Setting
        <4> QED
          BY <4>1 DEF Seen
      <3>3. CASE at.cursor <= i /\ i < s.from /\ long
        <4>1. Covers(p, i) /\ p \in next.claimed
          BY <2>1, <2>3, <3>3 DEF Covers
        <4> QED
          BY <4>1 DEF Seen
      <3>4. CASE at.cursor <= i /\ i < s.from /\ ~long
        <4>1. /\ s.from <= hint.to /\ s.from < at.cursor + MinAddressFragment
              /\ hint.from <= at.cursor
          BY <1>0, <1>m, <1>2, <3>4
        <4>2. at.cursor = hint.from \/ \E c \in S : c.to = at.cursor
          BY DEF TrimInv
        <4>3. Short(S, hint, i)
          BY <1>0, <3>4, <4>1, <4>2 DEF Short
        <4> QED
          BY <4>3 DEF Seen
      <3> HIDE DEF long
      <3> QED
        BY <1>0, <3>1, <3>2, <3>3, <3>4
    <2>8. \A d \in done \cup {s} : d.to <= next.cursor \/ hint.to <= d.from
      <3> SUFFICES ASSUME NEW d \in done PROVE d.to <= next.cursor \/ hint.to <= d.from
        BY <1>0, <2>1
      <3>1. d.to \in Nat
        BY SpanFacts DEF Setting
      <3>2. d.to <= at.cursor \/ hint.to <= d.from
        BY DEF TrimInv
      <3> QED
        BY <1>0, <1>2, <2>1, <3>1, <3>2
    <2>9. /\ next.cursor \in Nat /\ hint.from <= next.cursor
          /\ \E c \in S : c.to = next.cursor
      BY <1>0, <1>2, <2>1
    <2> QED
      BY <2>5, <2>6, <2>7, <2>8, <2>9 DEF TrimInv
  <1> QED
    BY <1>0, <1>1, <1>2

(* An address takes all of its text that is left, but for what is too short. *)
LEMMA ClaimAddressFacts ==
    ASSUME NEW text, NEW S, NEW C, NEW hint, Setting(text, S, C, hint),
           NEW R, R = ClaimAddress(InTextOrder(S), C, hint)
    PROVE  /\ C \subseteq R /\ R \subseteq SpansOf(text, AllKinds) /\ Apart(R)
           /\ \A c \in R \ C : Inside(c, hint)
           /\ \A i \in Nat : Covers(hint, i) => Seen(R, S, hint, i)
  <1>s. /\ Len(text) \in Nat /\ S \in SUBSET SpansOf(text, Kinds) /\ Apart(S)
        /\ S \subseteq C /\ C \subseteq SpansOf(text, AllKinds) /\ Apart(C)
        /\ hint \in SpansOf(text, {"ADDRESS"})
    BY DEF Setting
  <1> DEFINE q == InTextOrder(S)
             n == Len(q)
             base == [cursor |-> hint.from, claimed |-> C]
             L == Len(text) + 1
  <1>0. /\ n \in Nat /\ \A i \in 1..n : q[i] \in S
        /\ \A s \in S : \E i \in 1..n : q[i] = s
        /\ \A i, j \in 1..n : i < j => q[i].to <= q[j].from
    <2>1. /\ n \in Nat /\ q \in Seq(S) /\ \A s \in S : \E i \in 1..n : q[i] = s
          /\ \A i, j \in 1..n : i < j => q[i].to <= q[j].from
      BY <1>s, InOrder
    <2> QED
      BY <2>1, ElementOfSeq
  <1>00. q \in Seq(S)
    BY <1>s, InOrder
  <1> HIDE DEF q, base
  <1>1. PICK t : Trimming!IsTrace(t, hint, base, q)
    BY <1>00, Trimming!FoldTrace
  <1> DEFINE at == t[n]
             tail == Span(at.cursor, hint.to, "ADDRESS")
  <1>2. t[0] = base /\ \A i \in 1..n : t[i] = Trim(hint, t[i - 1], q[i])
    BY <1>1 DEF Trimming!IsTrace
  <1>3. R = IF hint.to >= at.cursor + MinAddressFragment /\ ~OverlapsAny(tail, at.claimed)
            THEN at.claimed \cup {tail} ELSE at.claimed
    <2>1. Trimming!Folded(hint, base, q)
             = FoldLeft(LAMBDA a, span : Trim(hint, a, span), base, q)
      BY DEF Trimming!Folded, FoldLeft, MapThenFoldSet, Max,
             Trimming!FoldLeft, Trimming!MapThenFoldSet, Trimming!Max
    <2>2. at = FoldLeft(LAMBDA a, span : Trim(hint, a, span), base, q)
      BY <1>1, <2>1 DEF Trimming!IsTrace
    <2> QED
      BY <2>2 DEF ClaimAddress, q, base
  <1> DEFINE done(k) == {q[i] : i \in 1..k}
             T == {k \in 0..n : TrimInv(text, S, C, hint, t[k], done(k))}
  <1>4. /\ hint.from \in Nat /\ hint.to \in Nat /\ hint.from < hint.to
        /\ MinAddressFragment \in Nat \ {0}
    BY <1>s, SpanFacts, ScanAssumption
  <1> HIDE DEF n
  <1>5. 0 \in T
    <2>1. t[0].cursor = hint.from /\ t[0].claimed = C
      BY <1>2 DEF base
    <2>2. done(0) = {}
      OBVIOUS
    <2>3. \A i \in Nat : Covers(hint, i) => ~(i < hint.from)
      BY <1>4 DEF Covers
    <2> HIDE DEF done
    <2>4. TrimInv(text, S, C, hint, t[0], done(0))
      BY <1>s, <1>4, <2>1, <2>2, <2>3 DEF TrimInv
    <2> QED
      BY <1>0, <2>4
  <1>6. ASSUME NEW k \in 1..n, k - 1 \in T PROVE k \in T
    <2>0. k \in 0..n /\ k - 1 \in Nat /\ q[k] \in S
      BY <1>0
    <2>1. TrimInv(text, S, C, hint, t[k - 1], done(k - 1))
      BY <1>6
    <2>2. t[k] = Trim(hint, t[k - 1], q[k])
      BY <1>2
    <2>3. done(k) = done(k - 1) \cup {q[k]}
      <3>1. \A i \in 1..k : i \in 1..(k - 1) \/ i = k
        BY <2>0
      <3>2. k \in 1..k /\ \A i \in 1..(k - 1) : i \in 1..k
        BY <2>0
      <3> QED
        BY <3>1, <3>2
    <2>4. done(k - 1) \in SUBSET S
      BY <1>0
    <2>5. \A d \in S : d \in done(k - 1) \/ d = q[k] \/ q[k].to <= d.from
      <3> SUFFICES ASSUME NEW i \in 1..n
                   PROVE  q[i] \in done(k - 1) \/ q[i] = q[k] \/ q[k].to <= q[i].from
        BY <1>0
      <3>1. i \in 1..(k - 1) \/ i = k \/ k < i
        BY <2>0
      <3> QED
        BY <1>0, <3>1
    <2> HIDE DEF done
    <2>6. TrimInv(text, S, C, hint, t[k], done(k - 1) \cup {q[k]})
      BY <2>0, <2>1, <2>2, <2>4, <2>5, TrimStep
    <2> QED
      BY <2>0, <2>3, <2>6
  <1>7. TrimInv(text, S, C, hint, at, S)
    <2>1. \A k \in 0..n : k \in T
      <3> HIDE DEF T
      <3> QED
        BY <1>0, <1>5, <1>6, UpTo
    <2>2. n \in 0..n
      BY <1>0
    <2>3. done(n) = S
      BY <1>0
    <2> HIDE DEF done
    <2> QED
      BY <2>1, <2>2, <2>3
  <1> HIDE DEF at, tail, T
  <1>8. /\ at.cursor \in Nat /\ hint.from <= at.cursor /\ C \subseteq at.claimed
        /\ at.claimed \subseteq SpansOf(text, AllKinds) /\ Apart(at.claimed)
        /\ \A c \in at.claimed \ C : Inside(c, hint)
        /\ \A i \in Nat : Covers(hint, i) /\ i < at.cursor => Seen(at.claimed, S, hint, i)
    BY <1>7 DEF TrimInv
  <1>9. CASE hint.to >= at.cursor + MinAddressFragment
    <2> DEFINE b == hint.to
    <2>1. b \in Nat /\ at.cursor < b /\ b <= hint.to
      BY <1>4, <1>8, <1>9
    <2>2. Free(S, at.cursor, b)
      BY <1>7 DEF TrimInv, Free
    <2>3. tail = Span(at.cursor, b, "ADDRESS") /\ hint.to = b
      BY DEF tail
    <2> HIDE DEF b
    <2>4. /\ tail \in SpansOf(text, AllKinds) /\ Inside(tail, hint)
          /\ tail.from = at.cursor /\ tail.to = b
          /\ \A c \in at.claimed : ~Overlap(c, tail) /\ ~Overlap(tail, c)
      BY <1>7, <2>1, <2>2, <2>3, PieceApart
    <2>5. R = at.claimed \cup {tail}
      BY <1>3, <1>9, <2>4 DEF OverlapsAny
    <2>6. Apart(R)
      BY <1>8, <2>4, <2>5, ApartWith
    <2>7. ASSUME NEW i \in Nat, Covers(hint, i) PROVE Seen(R, S, hint, i)
      <3>1. CASE i < at.cursor
        <4>1. Seen(at.claimed, S, hint, i)
          BY <1>8, <2>7, <3>1
        <4> QED
          BY <2>5, <4>1 DEF Seen
      <3>2. CASE at.cursor <= i
        <4>1. Covers(tail, i)
          BY <1>4, <1>8, <2>3, <2>4, <2>7, <3>2 DEF Covers
        <4> QED
          BY <2>5, <4>1 DEF Seen
      <3> QED
        BY <1>8, <3>1, <3>2
    <2> QED
      BY <1>8, <2>4, <2>5, <2>6, <2>7
  <1>10. CASE ~(hint.to >= at.cursor + MinAddressFragment)
    <2>1. R = at.claimed
      BY <1>3, <1>10
    <2>2. ASSUME NEW i \in Nat, Covers(hint, i) PROVE Seen(R, S, hint, i)
      <3>1. CASE i < at.cursor
        BY <1>8, <2>1, <2>2, <3>1
      <3>2. CASE at.cursor <= i
        <4>1. at.cursor = hint.from \/ \E c \in S : c.to = at.cursor
          BY <1>7 DEF TrimInv
        <4>2. i < hint.to /\ hint.to < at.cursor + MinAddressFragment
          BY <1>4, <1>8, <1>10, <2>2 DEF Covers
        <4>3. Short(S, hint, i)
          BY <1>4, <1>8, <3>2, <4>1, <4>2 DEF Short
        <4> QED
          BY <4>3 DEF Seen
      <3> QED
        BY <1>8, <3>1, <3>2
    <2> QED
      BY <1>8, <2>1, <2>2
  <1> QED
    BY <1>9, <1>10
-----------------------------------------------------------------------------
(* What all addresses claim. *)
LEMMA MatchFacts ==
    ASSUME NEW u, IsUtterance(u)
    PROVE  /\ Structured(u) \subseteq IterMatches(u)
           /\ IterMatches(u) \subseteq SpansOf(u.text, AllKinds) /\ Apart(IterMatches(u))
           /\ \A j \in 1..Len(u.hints), i \in Nat :
                 Covers(u.hints[j], i) => Seen(IterMatches(u), Structured(u), u.hints[j], i)
  <1> DEFINE S == Structured(u)
             q == InTextOrder(S)
             n == Len(u.hints)
             H == SpansOf(u.text, {"ADDRESS"})
  <1>0. /\ n \in Nat /\ u.hints \in Seq(H) /\ \A j \in 1..n : u.hints[j] \in H
        /\ Len(u.text) \in Nat /\ \A i, j \in 1..n : i < j => u.hints[i].to <= u.hints[j].from
    BY DEF IsUtterance
  <1>1. S \subseteq SpansOf(u.text, Kinds) /\ Apart(S)
    BY StructuredFacts
  <1>2. S \subseteq SpansOf(u.text, AllKinds)
    BY <1>1 DEF SpansOf, AllKinds
  <1> HIDE DEF S, q, H, n
  <1>3. PICK t : Addressing!IsTrace(t, q, S, u.hints)
    BY <1>0, Addressing!FoldTrace
  <1>4. t[0] = S /\ \A k \in 1..n : t[k] = ClaimAddress(q, t[k - 1], u.hints[k])
    BY <1>3 DEF Addressing!IsTrace, n
  <1>5. t[n] = IterMatches(u)
    <2>1. Addressing!Folded(q, S, u.hints)
             = FoldLeft(LAMBDA claimed, hint : ClaimAddress(q, claimed, hint), S, u.hints)
      BY DEF Addressing!Folded, FoldLeft, MapThenFoldSet, Max,
             Addressing!FoldLeft, Addressing!MapThenFoldSet, Addressing!Max
    <2>2. t[n] = FoldLeft(LAMBDA claimed, hint : ClaimAddress(q, claimed, hint), S, u.hints)
      BY <1>3, <2>1 DEF Addressing!IsTrace, n
    <2> QED
      BY <2>2 DEF IterMatches, q, S
  <1> DEFINE Good(k) ==
        /\ S \subseteq t[k] /\ t[k] \subseteq SpansOf(u.text, AllKinds) /\ Apart(t[k])
        /\ \A c \in t[k] \ S : \E j \in 1..k : Inside(c, u.hints[j])
        /\ \A j \in 1..k, i \in Nat : Covers(u.hints[j], i) => Seen(t[k], S, u.hints[j], i)
             T == {k \in 0..n : Good(k)}
  <1>6. 0 \in T
    BY <1>0, <1>1, <1>2, <1>4
  <1>7. ASSUME NEW k \in 1..n, k - 1 \in T PROVE k \in T
    <2> DEFINE C == t[k - 1]  R == t[k]  hint == u.hints[k]
    <2>0. k \in 0..n /\ k - 1 \in Nat /\ k \in 1..k /\ hint \in H
          /\ \A j \in 1..k : j \in 1..(k - 1) \/ j = k
      BY <1>0
    <2>1. Good(k - 1)
      BY <1>7
    <2>2. \A c \in C \ S : ~Overlap(c, hint)
      <3> SUFFICES ASSUME NEW c \in C \ S PROVE ~Overlap(c, hint)
        OBVIOUS
      <3>1. PICK j \in 1..(k - 1) : Inside(c, u.hints[j])
        BY <2>1
      <3>2. j \in 1..n /\ j < k
        BY <1>0
      <3>3. u.hints[j].to <= hint.from /\ u.hints[j].to \in Nat /\ hint.from \in Nat
        BY <1>0, <3>2, SpanFacts DEF H
      <3>4. c.to \in Nat
        BY <1>0, <2>1, SpanFacts
      <3> QED
        BY <3>1, <3>3, <3>4 DEF Inside, Overlap
    <2>3. Setting(u.text, S, C, hint)
      BY <1>0, <1>1, <2>0, <2>1, <2>2 DEF Setting, H
    <2>4. R = ClaimAddress(InTextOrder(S), C, hint)
      BY <1>4 DEF q
    <2> HIDE DEF hint, C, R
    <2>5. /\ C \subseteq R /\ R \subseteq SpansOf(u.text, AllKinds) /\ Apart(R)
          /\ \A c \in R \ C : Inside(c, hint)
          /\ \A i \in Nat : Covers(hint, i) => Seen(R, S, hint, i)
      BY <2>3, <2>4, ClaimAddressFacts
    <2>6. S \subseteq R /\ \A c \in R \ S : \E j \in 1..k : Inside(c, u.hints[j])
      <3>1. S \subseteq C /\ \A c \in C \ S : \E j \in 1..(k - 1) : Inside(c, u.hints[j])
        BY <2>1 DEF C
      <3>2. \A j \in 1..(k - 1) : j \in 1..k
        BY <2>0
      <3> QED
        BY <2>0, <2>5, <3>1, <3>2 DEF hint
    <2>7. ASSUME NEW j \in 1..k, NEW i \in Nat, Covers(u.hints[j], i)
          PROVE  Seen(R, S, u.hints[j], i)
      <3>1. CASE j = k
        BY <2>5, <2>7, <3>1 DEF hint
      <3>2. CASE j \in 1..(k - 1)
        <4>1. Seen(C, S, u.hints[j], i)
          BY <2>1, <2>7, <3>2 DEF C
        <4> QED
          BY <2>5, <4>1 DEF Seen
      <3> QED
        BY <2>0, <3>1, <3>2
    <2> QED
      BY <2>0, <2>5, <2>6, <2>7 DEF R
  <1>8. Good(n)
    <2>1. \A k \in 0..n : k \in T
      <3> HIDE DEF T
      <3> QED
        BY <1>0, <1>6, <1>7, UpTo
    <2>2. n \in 0..n
      BY <1>0
    <2> QED
      BY <2>1, <2>2
  <1> QED
    BY <1>5, <1>8 DEF S, n

(* A stretch between two cuts holds the gap around each of its positions. *)
LEMMA ShortIsShortGap ==
    ASSUME NEW u, IsUtterance(u), NEW hint \in SpansOf(u.text, {"ADDRESS"}), NEW i \in Nat,
           Short(Structured(u), hint, i)
    PROVE  ShortGap(u, hint, i)
  <1> DEFINE cut(p) == \E c \in Structured(u) : Covers(c, p)
             inside == {p \in hint.from..(hint.to - 1) : ~cut(p)}
             around == {p \in inside : \A q \in (IF p < i THEN p..i ELSE i..p) : q \in inside}
  <1>1. PICK a \in Nat, b \in Nat :
          /\ hint.from <= a /\ a <= i /\ i < b /\ b <= hint.to /\ b < a + MinAddressFragment
          /\ a = hint.from \/ \E c \in Structured(u) : c.to = a
          /\ b = hint.to \/ \E c \in Structured(u) : c.from = b
    BY DEF Short
  <1>2. \A c \in Structured(u) : c.from \in Nat /\ c.to \in Nat /\ c.from < c.to
    BY StructuredFacts, SpanFacts DEF IsUtterance
  <1>3. hint.from \in Nat /\ hint.to \in Nat /\ MinAddressFragment \in Nat \ {0}
    BY SpanFacts, ScanAssumption DEF IsUtterance
  <1>4. \A p \in inside : p \in Nat /\ hint.from <= p /\ p < hint.to /\ ~cut(p)
    BY <1>3
  <1>5. around \subseteq a..(b - 1)
    <2> SUFFICES ASSUME NEW p \in around PROVE a <= p /\ p < b
      BY <1>4
    <2>0. p \in inside /\ p \in Nat
      BY <1>4
    <2>1. CASE p < a
      <3>1. a - 1 \in p..i /\ a # hint.from /\ p < i
        BY <1>1, <1>4, <2>0, <2>1
      <3>2. a - 1 \in inside
        BY <3>1
      <3>3. PICK c \in Structured(u) : c.to = a
        BY <1>1, <3>1
      <3>4. Covers(c, a - 1)
        BY <1>2, <3>3 DEF Covers
      <3> QED
        BY <1>4, <3>2, <3>4
    <2>2. CASE b <= p
      <3>1. b \in i..p /\ b # hint.to /\ ~(p < i)
        BY <1>1, <1>3, <1>4, <2>0, <2>2
      <3>2. b \in inside
        BY <3>1
      <3>3. PICK c \in Structured(u) : c.from = b
        BY <1>1, <3>1
      <3>4. Covers(c, b)
        BY <1>2, <3>3 DEF Covers
      <3> QED
        BY <1>4, <3>2, <3>4
    <2> QED
      BY <2>0, <2>1, <2>2
  <1> HIDE DEF around
  <1>6. IsFiniteSet(a..(b - 1)) /\ Cardinality(a..(b - 1)) = b - a
    <2>1. a \in Int /\ b - 1 \in Int /\ ~(a > b - 1) /\ (b - 1) - a + 1 = b - a
      BY <1>1
    <2> HIDE <1>1
    <2> QED
      BY <2>1, FS_Interval
  <1>7. Cardinality(around) <= b - a /\ Cardinality(around) \in Nat
    <2>1. IsFiniteSet(around) /\ Cardinality(around) <= Cardinality(a..(b - 1))
      BY <1>5, <1>6, FS_Subset
    <2> QED
      BY <1>6, <2>1, FS_CardinalityType
  <1>8. Cardinality(around) < MinAddressFragment
    BY <1>1, <1>3, <1>7
  <1> QED
    BY <1>8 DEF ShortGap, around

(* The scan leaves in the clear only what its rules let it: what no pattern       *)
(* finds, the rest of a match that one at least as long overlaps, and a stretch  *)
(* of an address too short to count, wherever matches that overlap are listed    *)
(* as pii.py:27 wants them (_iter_matches, pii.py:104-141).                   *)
THEOREM ScanIsSound ==
    ASSUME NEW u, IsUtterance(u), LongerFirst(u)
    PROVE  \A i \in Clear(u) : MayStayClear(u, i)
  <1> SUFFICES ASSUME NEW i \in Clear(u) PROVE MayStayClear(u, i)
    OBVIOUS
  <1>0. Len(u.text) \in Nat /\ \A j \in 1..Len(u.hints) : u.hints[j] \in SpansOf(u.text, {"ADDRESS"})
    BY DEF IsUtterance
  <1>1. i \in Nat /\ \A m \in IterMatches(u) : ~Covers(m, i)
    BY <1>0 DEF Clear
  <1>2. Structured(u) \subseteq IterMatches(u)
    BY MatchFacts
  <1>3. ASSUME NEW j \in 1..Len(u.found), Covers(u.found[j], i) PROVE Outdone(u, j)
    <2>1. Len(u.found) \in Nat
      BY DEF IsUtterance
    <2>2. Preempted(u, j)
      BY <1>1, <1>2, <1>3, StructuredFacts
    <2>3. PICK k \in 1..(j - 1) : Overlap(u.found[k], u.found[j])
      BY <2>2 DEF Preempted
    <2>4. Length(u.found[k]) >= Length(u.found[j])
      BY <2>3 DEF LongerFirst
    <2>5. k \in 1..Len(u.found) \ {j}
      BY <2>1, <2>3
    <2> QED
      BY <2>3, <2>4, <2>5 DEF Outdone
  <1>4. ASSUME NEW j \in 1..Len(u.hints), Covers(u.hints[j], i) PROVE ShortGap(u, u.hints[j], i)
    <2>1. Seen(IterMatches(u), Structured(u), u.hints[j], i)
      BY <1>1, <1>4, MatchFacts
    <2>2. Short(Structured(u), u.hints[j], i)
      BY <1>1, <2>1 DEF Seen
    <2> QED
      BY <1>0, <1>1, <2>2, ShortIsShortGap
  <1> QED
    BY <1>3, <1>4 DEF MayStayClear
-----------------------------------------------------------------------------
(* What stands in a text for a value: a token, or the mark of a redaction. *)
Hidden == [kind : AllKinds, n : Nat]

LEMMA CellKinds ==
    /\ Cells = Characters \cup Hidden
    /\ \A c \in Characters : c.kind = "char"
    /\ \A c \in Hidden : c.kind # "char"
  <1>1. "char" \notin AllKinds
    BY ScanAssumption DEF AllKinds
  <1> QED
    BY <1>1 DEF Cells, Characters, Hidden

CharPiece(c) == IF c.kind = "char" THEN <<c>> ELSE <<>>
CharPieces(x) == [i \in 1..Len(x) |-> CharPiece(x[i])]

LEMMA CharPiecesType ==
    ASSUME NEW x \in Seq(Cells)
    PROVE  /\ CharPieces(x) \in Seq(Seq(Cells)) /\ Len(CharPieces(x)) = Len(x)
           /\ \A i \in 1..Len(x) : CharPieces(x)[i] = CharPiece(x[i])
           /\ CharactersOf(x) = FlattenSeq(CharPieces(x))
  <1>1. Len(x) \in Nat /\ \A i \in 1..Len(x) : x[i] \in Cells
    OBVIOUS
  <1>2. \A c \in Cells : CharPiece(c) \in Seq(Cells)
    BY DEF CharPiece
  <1>3. CharPieces(x) = [i \in 1..Len(x) |-> CharPiece(x[i])]
    BY DEF CharPieces
  <1>4. CharactersOf(x) = FlattenSeq(CharPieces(x))
    BY DEF CharactersOf, CharPieces, CharPiece
  <1> QED
    BY <1>1, <1>2, <1>3, <1>4

LEMMA CharsConcat ==
    ASSUME NEW x \in Seq(Cells), NEW y \in Seq(Cells)
    PROVE  /\ CharactersOf(x \o y) = CharactersOf(x) \o CharactersOf(y)
           /\ CharactersOf(x) \in Seq(Cells)
  <1> DEFINE f == CharPieces(x)  g == CharPieces(y)  h == CharPieces(x \o y)
  <1>1. x \o y \in Seq(Cells) /\ Len(x \o y) = Len(x) + Len(y) /\ Len(x) \in Nat /\ Len(y) \in Nat
    OBVIOUS
  <1>2. /\ f \in Seq(Seq(Cells)) /\ Len(f) = Len(x) /\ \A i \in 1..Len(x) : f[i] = CharPiece(x[i])
        /\ g \in Seq(Seq(Cells)) /\ Len(g) = Len(y) /\ \A i \in 1..Len(y) : g[i] = CharPiece(y[i])
        /\ CharactersOf(x) = FlattenSeq(f) /\ CharactersOf(y) = FlattenSeq(g)
    BY CharPiecesType
  <1>3. /\ h \in Seq(Seq(Cells)) /\ Len(h) = Len(x) + Len(y)
        /\ \A i \in 1..(Len(x) + Len(y)) : h[i] = CharPiece((x \o y)[i])
        /\ CharactersOf(x \o y) = FlattenSeq(h)
    BY <1>1, CharPiecesType
  <1> HIDE DEF f, g, h
  <1>4. h = f \o g
    <2>0. f \in Seq(Seq(Cells)) /\ g \in Seq(Seq(Cells)) /\ Len(f) = Len(x) /\ Len(g) = Len(y)
      BY <1>2
    <2>1. f \o g \in Seq(Seq(Cells)) /\ Len(f \o g) = Len(x) + Len(y)
      <3> DEFINE pieces == Seq(Cells)
      <3>1. f \in Seq(pieces) /\ g \in Seq(pieces)
        BY <2>0
      <3> HIDE DEF pieces
      <3>2. f \o g \in Seq(pieces) /\ Len(f \o g) = Len(f) + Len(g)
        BY <3>1, ConcatType
      <3> QED
        BY <2>0, <3>2 DEF pieces
    <2>2. ASSUME NEW i \in 1..(Len(x) + Len(y)) PROVE h[i] = (f \o g)[i]
      <3>1. CASE i <= Len(x)
        <4>1. i \in 1..Len(x)
          BY <1>1, <3>1
        <4>2. (x \o y)[i] = x[i] /\ (f \o g)[i] = f[i]
          BY <1>1, <1>2, <4>1
        <4> QED
          BY <1>2, <1>3, <4>1, <4>2
      <3>2. CASE ~(i <= Len(x))
        <4>1. i - Len(x) \in 1..Len(y)
          BY <1>1, <3>2
        <4>2. (x \o y)[i] = y[i - Len(x)] /\ (f \o g)[i] = g[i - Len(x)]
          BY <1>1, <1>2, <3>2, <4>1
        <4> QED
          BY <1>2, <1>3, <4>1, <4>2
      <3> QED
        BY <3>1, <3>2
    <2> QED
      BY <1>3, <2>1, <2>2, SeqEqual
  <1>5. FlattenSeq(f \o g) = FlattenSeq(f) \o FlattenSeq(g) /\ FlattenSeq(f) \in Seq(Cells)
    BY <1>2, FlatConcat, FlatType
  <1> QED
    BY <1>2, <1>3, <1>4, <1>5

LEMMA CharsOfCharacters ==
    ASSUME NEW x \in Seq(Characters)
    PROVE  CharactersOf(x) = x
  <1>1. \A i \in 1..Len(x) : x[i].kind = "char"
    BY CellKinds
  <1>2. [i \in 1..Len(x) |-> IF x[i].kind = "char" THEN <<x[i]>> ELSE <<>>]
          = [i \in 1..Len(x) |-> <<x[i]>>]
    BY <1>1
  <1> DEFINE f == [i \in 1..Len(x) |-> <<x[i]>>]
  <1>3. CharactersOf(x) = FlattenSeq(f)
    BY <1>2 DEF CharactersOf
  <1>4. f = [i \in 1..Len(x) |-> <<x[i]>>]
    OBVIOUS
  <1> HIDE DEF f
  <1>5. FlattenSeq(f) = x
    BY <1>4, FlatSingles
  <1> QED
    BY <1>3, <1>5

LEMMA CharsOfHidden ==
    ASSUME NEW c \in Hidden
    PROVE  CharactersOf(<<c>>) = <<>>
  <1> DEFINE x == <<c>>
             f == [i \in 1..Len(x) |-> IF x[i].kind = "char" THEN <<x[i]>> ELSE <<>>]
  <1>1. c.kind # "char"
    BY CellKinds
  <1>2. f \in Seq({<<>>})
    BY <1>1
  <1>3. CharactersOf(x) = FlattenSeq(f)
    BY DEF CharactersOf
  <1> HIDE DEF f
  <1> QED
    BY <1>2, <1>3, FlatEmpty

-----------------------------------------------------------------------------
(* Every token of a vault stands for characters, which the vault finds it by. *)
VaultOK(v) ==
    /\ v.counters \in [AllKinds -> Nat]
    /\ DOMAIN v.forward \subseteq Hidden
    /\ \A t \in DOMAIN v.forward : v.forward[t] \in Seq(Characters) /\ t.n <= v.counters[t.kind]
    /\ DOMAIN v.reverse \subseteq Seq(Characters)
    /\ \A x \in DOMAIN v.reverse : v.reverse[x] \in DOMAIN v.forward
                                  /\ v.forward[v.reverse[x]] = x

Extends(v, w) ==
    \A t \in DOMAIN v.forward : t \in DOMAIN w.forward /\ w.forward[t] = v.forward[t]

LEMMA NewVaultOK == VaultOK(NewVault)
  <1> DEFINE v == NewVault
  <1>1. v.forward = <<>> /\ v.reverse = <<>> /\ v.counters = [k \in AllKinds |-> 0]
    BY DEF NewVault
  <1>2. DOMAIN v.forward = {} /\ DOMAIN v.reverse = {}
    BY <1>1
  <1> HIDE DEF v
  <1> QED
    BY <1>1, <1>2 DEF VaultOK, v

LEMMA TokenizeValueFacts ==
    ASSUME NEW v, VaultOK(v), NEW kind \in AllKinds, NEW value \in Seq(Characters),
           NEW known, known = TokenizeValue(v, kind, value)
    PROVE  /\ VaultOK(known.vault) /\ Extends(v, known.vault)
           /\ known.token \in DOMAIN known.vault.forward
           /\ known.vault.forward[known.token] = value
  <1>1. CASE value \in DOMAIN v.reverse
    <2>1. known.vault = v /\ known.token = v.reverse[value]
      BY <1>1 DEF TokenizeValue
    <2> QED
      BY <1>1, <2>1 DEF VaultOK, Extends
  <1>2. CASE value \notin DOMAIN v.reverse
    <2> DEFINE token == Token(kind, v.counters[kind] + 1)
               w == known.vault
    <2>1. /\ known.token = token
          /\ w.forward = Put(v.forward, token, value) /\ w.reverse = Put(v.reverse, value, token)
          /\ w.counters = [v.counters EXCEPT ![kind] = @ + 1]
      BY <1>2 DEF TokenizeValue
    <2>2. v.counters \in [AllKinds -> Nat] /\ v.counters[kind] \in Nat
      BY DEF VaultOK
    <2>3. token \in Hidden /\ token.kind = kind /\ token.n = v.counters[kind] + 1
      BY <2>2 DEF Token, Hidden
    <2>4. token \notin DOMAIN v.forward
      BY <2>2, <2>3 DEF VaultOK
    <2> HIDE DEF token, w
    <2>5. /\ DOMAIN w.forward = DOMAIN v.forward \cup {token} /\ w.forward[token] = value
          /\ \A t \in DOMAIN v.forward : w.forward[t] = v.forward[t]
      BY <2>1, <2>4 DEF Put
    <2>6. /\ DOMAIN w.reverse = DOMAIN v.reverse \cup {value} /\ w.reverse[value] = token
          /\ \A x \in DOMAIN v.reverse : w.reverse[x] = v.reverse[x]
      BY <1>2, <2>1 DEF Put
    <2>7. /\ w.counters \in [AllKinds -> Nat] /\ w.counters[kind] = v.counters[kind] + 1
          /\ \A k \in AllKinds : v.counters[k] <= w.counters[k]
      BY <2>1, <2>2
    <2>8. ASSUME NEW t \in DOMAIN w.forward
          PROVE  w.forward[t] \in Seq(Characters) /\ t.n <= w.counters[t.kind] /\ t \in Hidden
      <3>1. CASE t = token
        BY <2>2, <2>3, <2>5, <2>7, <3>1
      <3>2. CASE t \in DOMAIN v.forward
        <4>1. /\ v.forward[t] \in Seq(Characters) /\ t.n <= v.counters[t.kind] /\ t \in Hidden
          BY <3>2 DEF VaultOK
        <4>2. t.kind \in AllKinds /\ t.n \in Nat
          BY <4>1 DEF Hidden
        <4>3. t.n <= w.counters[t.kind]
          BY <2>2, <2>7, <4>1, <4>2
        <4> QED
          BY <2>5, <3>2, <4>1, <4>3
      <3> QED
        BY <2>5, <3>1, <3>2
    <2>9. ASSUME NEW x \in DOMAIN w.reverse
          PROVE  /\ x \in Seq(Characters) /\ w.reverse[x] \in DOMAIN w.forward
                 /\ w.forward[w.reverse[x]] = x
      <3>1. CASE x = value
        BY <2>5, <2>6, <3>1
      <3>2. CASE x \in DOMAIN v.reverse
        BY <2>5, <2>6, <3>2 DEF VaultOK
      <3> QED
        BY <2>6, <3>1, <3>2
    <2>10. VaultOK(w)
      BY <2>7, <2>8, <2>9 DEF VaultOK
    <2> QED
      BY <2>1, <2>5, <2>10 DEF Extends, w
  <1> QED
    BY <1>1, <1>2
-----------------------------------------------------------------------------
RealPiece(v, c) == IF c \in DOMAIN v.forward THEN v.forward[c] ELSE <<c>>
RealPieces(x, v) == [i \in 1..Len(x) |-> RealPiece(v, x[i])]

LEMMA RealPiecesType ==
    ASSUME NEW v, VaultOK(v), NEW x \in Seq(Cells)
    PROVE  /\ RealPieces(x, v) \in Seq(Seq(Cells)) /\ Len(RealPieces(x, v)) = Len(x)
           /\ \A i \in 1..Len(x) : RealPieces(x, v)[i] = RealPiece(v, x[i])
           /\ Rehydrate(x, v) = FlattenSeq(RealPieces(x, v))
  <1>1. Len(x) \in Nat /\ \A i \in 1..Len(x) : x[i] \in Cells
    OBVIOUS
  <1>2. ASSUME NEW c \in Cells PROVE RealPiece(v, c) \in Seq(Cells)
    <2>1. CASE c \in DOMAIN v.forward
      <3>1. v.forward[c] \in Seq(Characters) /\ Characters \subseteq Cells
        BY <2>1, CellKinds DEF VaultOK
      <3>2. v.forward[c] \in Seq(Cells)
        BY <3>1, SeqMonotonic
      <3> QED
        BY <2>1, <3>2 DEF RealPiece
    <2>2. CASE c \notin DOMAIN v.forward
      BY <2>2 DEF RealPiece
    <2> QED
      BY <2>1, <2>2
  <1>3. RealPieces(x, v) = [i \in 1..Len(x) |-> RealPiece(v, x[i])]
    BY DEF RealPieces
  <1>4. Rehydrate(x, v) = FlattenSeq(RealPieces(x, v))
    BY DEF Rehydrate, RealPieces, RealPiece
  <1> QED
    BY <1>1, <1>2, <1>3, <1>4

LEMMA RealConcat ==
    ASSUME NEW v, VaultOK(v), NEW x \in Seq(Cells), NEW y \in Seq(Cells)
    PROVE  /\ Rehydrate(x \o y, v) = Rehydrate(x, v) \o Rehydrate(y, v)
           /\ Rehydrate(x, v) \in Seq(Cells)
  <1> DEFINE f == RealPieces(x, v)  g == RealPieces(y, v)  h == RealPieces(x \o y, v)
  <1>1. x \o y \in Seq(Cells) /\ Len(x \o y) = Len(x) + Len(y) /\ Len(x) \in Nat /\ Len(y) \in Nat
    OBVIOUS
  <1>2. /\ f \in Seq(Seq(Cells)) /\ Len(f) = Len(x) /\ \A i \in 1..Len(x) : f[i] = RealPiece(v, x[i])
        /\ g \in Seq(Seq(Cells)) /\ Len(g) = Len(y) /\ \A i \in 1..Len(y) : g[i] = RealPiece(v, y[i])
        /\ Rehydrate(x, v) = FlattenSeq(f) /\ Rehydrate(y, v) = FlattenSeq(g)
    BY RealPiecesType
  <1>3. /\ h \in Seq(Seq(Cells)) /\ Len(h) = Len(x) + Len(y)
        /\ \A i \in 1..(Len(x) + Len(y)) : h[i] = RealPiece(v, (x \o y)[i])
        /\ Rehydrate(x \o y, v) = FlattenSeq(h)
    BY <1>1, RealPiecesType
  <1> HIDE DEF f, g, h
  <1>4. h = f \o g
    <2>0. f \in Seq(Seq(Cells)) /\ g \in Seq(Seq(Cells)) /\ Len(f) = Len(x) /\ Len(g) = Len(y)
      BY <1>2
    <2>1. f \o g \in Seq(Seq(Cells)) /\ Len(f \o g) = Len(x) + Len(y)
      <3> DEFINE pieces == Seq(Cells)
      <3>1. f \in Seq(pieces) /\ g \in Seq(pieces)
        BY <2>0
      <3> HIDE DEF pieces
      <3>2. f \o g \in Seq(pieces) /\ Len(f \o g) = Len(f) + Len(g)
        BY <3>1, ConcatType
      <3> QED
        BY <2>0, <3>2 DEF pieces
    <2>2. ASSUME NEW i \in 1..(Len(x) + Len(y)) PROVE h[i] = (f \o g)[i]
      <3>1. CASE i <= Len(x)
        <4>1. i \in 1..Len(x)
          BY <1>1, <3>1
        <4>2. (x \o y)[i] = x[i] /\ (f \o g)[i] = f[i]
          BY <1>1, <1>2, <4>1
        <4> QED
          BY <1>2, <1>3, <4>1, <4>2
      <3>2. CASE ~(i <= Len(x))
        <4>1. i - Len(x) \in 1..Len(y)
          BY <1>1, <3>2
        <4>2. (x \o y)[i] = y[i - Len(x)] /\ (f \o g)[i] = g[i - Len(x)]
          BY <1>1, <1>2, <3>2, <4>1
        <4> QED
          BY <1>2, <1>3, <4>1, <4>2
      <3> QED
        BY <3>1, <3>2
    <2> QED
      BY <1>3, <2>1, <2>2, SeqEqual
  <1>5. FlattenSeq(f \o g) = FlattenSeq(f) \o FlattenSeq(g) /\ FlattenSeq(f) \in Seq(Cells)
    BY <1>2, FlatConcat, FlatType
  <1> QED
    BY <1>2, <1>3, <1>4, <1>5

LEMMA RealOfCharacters ==
    ASSUME NEW v, VaultOK(v), NEW x \in Seq(Characters)
    PROVE  Rehydrate(x, v) = x
  <1>1. \A i \in 1..Len(x) : x[i] \notin DOMAIN v.forward
    BY CellKinds DEF VaultOK
  <1>2. [i \in 1..Len(x) |-> IF x[i] \in DOMAIN v.forward THEN v.forward[x[i]] ELSE <<x[i]>>]
          = [i \in 1..Len(x) |-> <<x[i]>>]
    BY <1>1
  <1> DEFINE f == [i \in 1..Len(x) |-> <<x[i]>>]
  <1>3. Rehydrate(x, v) = FlattenSeq(f)
    BY <1>2 DEF Rehydrate
  <1>4. f = [i \in 1..Len(x) |-> <<x[i]>>]
    OBVIOUS
  <1> HIDE DEF f
  <1>5. FlattenSeq(f) = x
    BY <1>4, FlatSingles
  <1> QED
    BY <1>3, <1>5

LEMMA RealOfToken ==
    ASSUME NEW v, VaultOK(v), NEW token \in DOMAIN v.forward
    PROVE  Rehydrate(<<token>>, v) = v.forward[token]
  <1> DEFINE x == <<token>>
  <1>1. [i \in 1..Len(x) |-> IF x[i] \in DOMAIN v.forward THEN v.forward[x[i]] ELSE <<x[i]>>]
          = <<v.forward[token]>>
    OBVIOUS
  <1>2. Rehydrate(x, v) = FlattenSeq(<<v.forward[token]>>)
    BY <1>1 DEF Rehydrate
  <1>3. v.forward[token] \in Seq(Characters)
    BY DEF VaultOK
  <1> QED
    BY <1>2, <1>3, FlatOne

(* What a larger vault makes of a text whose tokens the smaller one holds. *)
LEMMA RealOfLarger ==
    ASSUME NEW v, NEW w, VaultOK(v), VaultOK(w), Extends(v, w),
           NEW x \in Seq(Characters \cup DOMAIN v.forward)
    PROVE  Rehydrate(x, w) = Rehydrate(x, v)
  <1>1. ASSUME NEW i \in 1..Len(x)
        PROVE  IF x[i] \in DOMAIN w.forward THEN w.forward[x[i]] = v.forward[x[i]] /\ x[i] \in DOMAIN v.forward
                                            ELSE x[i] \notin DOMAIN v.forward
    <2>1. x[i] \in Characters \cup DOMAIN v.forward
      OBVIOUS
    <2>2. \A c \in Characters : c \notin DOMAIN w.forward /\ c \notin DOMAIN v.forward
      BY CellKinds DEF VaultOK
    <2> QED
      BY <2>1, <2>2 DEF Extends
  <1>2. [i \in 1..Len(x) |-> IF x[i] \in DOMAIN w.forward THEN w.forward[x[i]] ELSE <<x[i]>>]
          = [i \in 1..Len(x) |-> IF x[i] \in DOMAIN v.forward THEN v.forward[x[i]] ELSE <<x[i]>>]
    BY <1>1
  <1> QED
    BY <1>2 DEF Rehydrate
-----------------------------------------------------------------------------
(* The characters that stay clear in a text from a position on. *)
ClearPieces(u) == [i \in 1..Len(u.text) |-> IF i \in Clear(u) THEN <<u.text[i]>> ELSE <<>>]
ClearFrom(u, c) == FlattenSeq(SubSeq(ClearPieces(u), c, Len(u.text)))

LEMMA TextType ==
    ASSUME NEW u, IsUtterance(u)
    PROVE  /\ u.text \in Seq(Characters) /\ u.text \in Seq(Cells) /\ Len(u.text) \in Nat
           /\ ClearPieces(u) \in Seq(Seq(Cells)) /\ Len(ClearPieces(u)) = Len(u.text)
           /\ \A i \in 1..Len(u.text) :
                 ClearPieces(u)[i] = IF i \in Clear(u) THEN <<u.text[i]>> ELSE <<>>
  <1>1. u.text \in Seq(Characters)
    BY DEF IsUtterance
  <1>2. Characters \subseteq Cells
    BY CellKinds
  <1>3. u.text \in Seq(Cells) /\ Len(u.text) \in Nat
    BY <1>1, <1>2, SeqMonotonic
  <1>4. \A i \in 1..Len(u.text) : u.text[i] \in Cells
    BY <1>3
  <1>5. \A i \in 1..Len(u.text) : (IF i \in Clear(u) THEN <<u.text[i]>> ELSE <<>>) \in Seq(Cells)
    BY <1>4
  <1>6. ClearPieces(u) = [i \in 1..Len(u.text) |-> IF i \in Clear(u) THEN <<u.text[i]>> ELSE <<>>]
    BY DEF ClearPieces
  <1> QED
    BY <1>1, <1>3, <1>5, <1>6

LEMMA ClearSplit ==
    ASSUME NEW u, IsUtterance(u),
           NEW a \in 1..(Len(u.text) + 1), NEW b \in a..(Len(u.text) + 1)
    PROVE  /\ (\A i \in a..(b - 1) : i \notin Clear(u)) => ClearFrom(u, a) = ClearFrom(u, b)
           /\ (\A i \in a..(b - 1) : i \in Clear(u))
                 => ClearFrom(u, a) = SubSeq(u.text, a, b - 1) \o ClearFrom(u, b)
           /\ ClearFrom(u, a) \in Seq(Cells)
  <1> DEFINE f == ClearPieces(u)  n == Len(u.text)  text == u.text
             p == SubSeq(f, a, b - 1)  q == SubSeq(f, b, n)
             C == Clear(u)  pieces == Seq(Cells)
  <1>1. /\ text \in Seq(Cells) /\ n \in Nat /\ n = Len(text) /\ f \in Seq(pieces) /\ Len(f) = n
        /\ \A i \in 1..n : f[i] = IF i \in C THEN <<text[i]>> ELSE <<>>
        /\ a \in 1..(n + 1) /\ b \in a..(n + 1)
    BY TextType
  <1>2. ClearFrom(u, a) = FlattenSeq(SubSeq(f, a, n)) /\ ClearFrom(u, b) = FlattenSeq(q)
    BY DEF ClearFrom
  <1> HIDE DEF f, n, text, C
  <1>3. /\ SubSeq(f, a, n) = p \o q /\ p \in Seq(pieces) /\ Len(p) = b - a
        /\ \A i \in 1..(b - a) : p[i] = f[a + i - 1]
    <2> HIDE DEF pieces
    <2>1. a \in 1..(Len(f) + 1) /\ b \in a..(Len(f) + 1) /\ n \in (b - 1)..Len(f)
      BY <1>1
    <2>2. SubSeq(f, a, n) = SubSeq(f, a, b - 1) \o SubSeq(f, b, n)
      BY <1>1, <2>1, Split
    <2>3. /\ p \in Seq(pieces) /\ Len(p) = b - a
          /\ \A i \in 1..(b - a) : p[i] = f[a + i - 1]
      BY <1>1, <2>1, Split
    <2> QED
      BY <2>2, <2>3
  <1>4. q \in Seq(pieces)
    <2> HIDE DEF pieces
    <2>1. /\ n + 1 \in b..(Len(f) + 1) /\ n \in ((n + 1) - 1)..Len(f) /\ (n + 1) - 1 = n
          /\ b \in 1..(Len(f) + 1)
      BY <1>1
    <2>2. SubSeq(f, b, (n + 1) - 1) \in Seq(pieces)
      BY <1>1, <2>1, Split
    <2> QED
      BY <2>1, <2>2
  <1>5. \A i \in 1..(b - a) : a + i - 1 \in 1..n /\ a + i - 1 \in a..(b - 1)
    BY <1>1
  <1> HIDE DEF p, q
  <1>6. /\ FlattenSeq(SubSeq(f, a, n)) = FlattenSeq(p) \o FlattenSeq(q)
        /\ FlattenSeq(q) \in Seq(Cells) /\ FlattenSeq(p) \in Seq(Cells)
    BY <1>3, <1>4, FlatConcat, FlatType
  <1>7. ASSUME \A i \in a..(b - 1) : i \notin C PROVE FlattenSeq(p) = <<>>
    <2>1. \A i \in 1..Len(p) : p[i] = <<>>
      BY <1>1, <1>3, <1>5, <1>7
    <2>2. p \in Seq({<<>>})
      BY <1>3, <2>1
    <2> QED
      BY <2>2, FlatEmpty
  <1>8. ASSUME \A i \in a..(b - 1) : i \in C PROVE FlattenSeq(p) = SubSeq(text, a, b - 1)
    <2> DEFINE r == SubSeq(text, a, b - 1)
    <2>1. /\ r \in Seq(Cells) /\ Len(r) = b - a
          /\ \A i \in 1..(b - a) : r[i] = text[a + i - 1]
      <3>1. n \in (b - 1)..Len(text)
        BY <1>1
      <3> QED
        BY <1>1, <3>1, Split
    <2> HIDE DEF r
    <2>2. \A i \in 1..Len(r) : p[i] = <<r[i]>>
      BY <1>1, <1>3, <1>5, <1>8, <2>1
    <2>3. p = [i \in 1..Len(r) |-> <<r[i]>>]
      <3>1. Len(p) = Len(r) /\ p = [i \in 1..Len(p) |-> p[i]]
        BY <1>3, <2>1
      <3> QED
        BY <2>2, <3>1
    <2>4. FlattenSeq(p) = r
      BY <2>1, <2>3, FlatSingles
    <2> QED
      BY <2>4 DEF r
  <1>9. <<>> \o FlattenSeq(q) = FlattenSeq(q)
    BY <1>6, ConcatEmptySeq
  <1>10. FlattenSeq(p) \o FlattenSeq(q) \in Seq(Cells)
    BY <1>6, ConcatProperties
  <1> QED
    BY <1>2, <1>6, <1>7, <1>8, <1>9, <1>10 DEF C, text

(* What replacing one more match makes of a text of which the rest is done. *)
Gap(u, m, c) ==
    /\ c \in 1..(Len(u.text) + 1) /\ m \in IterMatches(u) /\ m.to <= c
    /\ \A i \in m.to..(c - 1) : i \in Clear(u)
Rest(u, m, c, cell, tail) == <<cell>> \o (SubSeq(u.text, m.to, c - 1) \o tail)

(* A text whose matches from position c on are hidden, and the others are not. *)
HiddenFrom(u, x, c, tail) ==
    /\ tail \in Seq(Cells) /\ x = SubSeq(u.text, 1, c - 1) \o tail
    /\ CharactersOf(tail) = ClearFrom(u, c)

LEMMA HideOne ==
    ASSUME NEW u, IsUtterance(u), NEW m, NEW c, Gap(u, m, c), NEW cell \in Hidden,
           NEW x, NEW tail, HiddenFrom(u, x, c, tail)
    PROVE  HiddenFrom(u, Replaced(x, m, cell), m.from, Rest(u, m, c, cell, tail))
  <1> DEFINE text == u.text  n == Len(u.text)  a == m.from  b == m.to
             pre == SubSeq(text, 1, a - 1)  mid == SubSeq(text, b, c - 1)
             head == SubSeq(text, 1, c - 1)  rest == Rest(u, m, c, cell, tail)
  <1>1. /\ text \in Seq(Cells) /\ text \in Seq(Characters) /\ n \in Nat /\ n = Len(text)
    BY TextType
  <1>0. tail \in Seq(Cells) /\ x = head \o tail /\ CharactersOf(tail) = ClearFrom(u, c)
    BY DEF HiddenFrom
  <1>2. m \in SpansOf(u.text, AllKinds)
    BY MatchFacts DEF Gap
  <1>3. /\ a \in Nat /\ b \in Nat /\ 1 <= a /\ a < b /\ b <= n + 1 /\ c \in 1..(n + 1) /\ b <= c
    BY <1>1, <1>2, SpanFacts DEF Gap
  <1>4. (\A i \in a..(b - 1) : i \notin Clear(u)) /\ \A i \in b..(c - 1) : i \in Clear(u)
    <2>1. \A i \in b..(c - 1) : i \in Clear(u)
      BY DEF Gap
    <2>2. ASSUME NEW i \in a..(b - 1) PROVE i \notin Clear(u)
      <3>1. Covers(m, i)
        BY <1>3 DEF Covers
      <3> QED
        BY <3>1 DEF Clear, Gap
    <2> QED
      BY <2>1, <2>2
  <1>5. rest = <<cell>> \o (mid \o tail)
    BY DEF Rest, text
  <1>6. ClearFrom(u, a) = mid \o CharactersOf(tail)
    <2>1. /\ a \in 1..(Len(u.text) + 1) /\ b \in a..(Len(u.text) + 1)
          /\ b \in 1..(Len(u.text) + 1) /\ c \in b..(Len(u.text) + 1)
      BY <1>3
    <2>2. ClearFrom(u, a) = ClearFrom(u, b) /\ ClearFrom(u, b) = mid \o ClearFrom(u, c)
      BY <1>4, <2>1, ClearSplit
    <2> QED
      BY <1>0, <2>2
  <1> HIDE DEF text, n, a, b, rest
  <1>7. /\ mid \in Seq(Cells) /\ Len(mid) = c - b
        /\ \A i \in 1..(c - b) : mid[i] = text[b + i - 1]
    <2>1. b \in 1..(Len(text) + 1) /\ c \in b..(Len(text) + 1) /\ n \in (c - 1)..Len(text)
      BY <1>1, <1>3
    <2> QED
      BY <1>1, <2>1, Split
  <1>77. mid \in Seq(Characters)
    <2>1. b \in 1..(Len(text) + 1) /\ c \in b..(Len(text) + 1) /\ n \in (c - 1)..Len(text)
      BY <1>1, <1>3
    <2> QED
      BY <1>1, <2>1, Split
  <1>8. /\ head \in Seq(Cells) /\ Len(head) = c - 1
        /\ \A i \in 1..(c - 1) : head[i] = text[i]
    <2>1. 1 \in 1..(Len(text) + 1) /\ c \in 1..(Len(text) + 1) /\ n \in (c - 1)..Len(text)
      BY <1>1, <1>3
    <2>2. /\ head \in Seq(Cells) /\ Len(head) = c - 1
          /\ \A i \in 1..(c - 1) : head[i] = text[1 + i - 1]
      BY <1>1, <2>1, Split
    <2>3. \A i \in 1..(c - 1) : 1 + i - 1 = i
      BY <1>3
    <2> QED
      BY <2>2, <2>3
  <1> HIDE DEF mid, head
  <1>9. /\ x \in Seq(Cells) /\ Len(x) = (c - 1) + Len(tail) /\ Len(tail) \in Nat
        /\ \A i \in 1..Len(x) : x[i] = IF i < c THEN text[i] ELSE tail[i - (c - 1)]
    <2>1. /\ x \in Seq(Cells) /\ Len(x) = Len(head) + Len(tail)
          /\ \A i \in 1..(Len(head) + Len(tail)) :
                x[i] = IF i <= Len(head) THEN head[i] ELSE tail[i - Len(head)]
      BY <1>0, <1>8, ConcatProperties
    <2> QED
      BY <1>0, <1>3, <1>8, <2>1
  <1>10. SubSeq(x, 1, a - 1) = pre
    <2>1. \A i \in 1..(a - 1) : x[i] = text[i]
      BY <1>3, <1>9
    <2> QED
      BY <1>1, <1>3, <2>1
  <1>11. SubSeq(x, b, Len(x)) = mid \o tail
    <2> DEFINE y == SubSeq(x, b, Len(x))  z == mid \o tail  l == Len(x)
    <2>1. b \in Int /\ l \in Int /\ \A i \in b..l : x[i] \in Cells
      BY <1>3, <1>9
    <2>2. /\ y \in Seq(Cells) /\ Len(y) = IF b <= l THEN l - b + 1 ELSE 0
          /\ \A i \in 1..(l - b + 1) : y[i] = x[b + i - 1]
      BY <2>1, SubSeqProperties
    <2>3. /\ z \in Seq(Cells) /\ Len(z) = Len(mid) + Len(tail)
          /\ \A i \in 1..(Len(mid) + Len(tail)) :
                z[i] = IF i <= Len(mid) THEN mid[i] ELSE tail[i - Len(mid)]
      BY <1>0, <1>7, ConcatProperties
    <2>31. l = (c - 1) + Len(tail)
      BY <1>9
    <2> HIDE DEF y, z, l
    <2>4. Len(y) = Len(z) /\ Len(z) = (c - b) + Len(tail) /\ l - b + 1 = (c - b) + Len(tail)
      BY <1>3, <1>7, <1>9, <2>2, <2>3, <2>31
    <2>5. ASSUME NEW i \in 1..((c - b) + Len(tail)) PROVE y[i] = z[i]
      <3>1. y[i] = x[b + i - 1] /\ b + i - 1 \in 1..Len(x)
        BY <1>3, <1>9, <2>2, <2>4
      <3>2. CASE i <= c - b
        <4>1. i \in 1..(c - b) /\ b + i - 1 < c
          BY <1>3, <3>2
        <4>2. z[i] = mid[i] /\ mid[i] = text[b + i - 1]
          BY <1>7, <2>3, <3>2, <4>1
        <4> QED
          BY <1>9, <3>1, <4>1, <4>2
      <3>3. CASE ~(i <= c - b)
        <4>1. ~(b + i - 1 < c) /\ (b + i - 1) - (c - 1) = i - (c - b)
          BY <1>3, <3>3
        <4>2. z[i] = tail[i - (c - b)]
          BY <1>7, <2>3, <3>3
        <4> QED
          BY <1>9, <3>1, <4>1, <4>2
      <3> QED
        BY <3>2, <3>3
    <2>6. y = z
      BY <2>2, <2>3, <2>4, <2>5, SeqEqual
    <2> QED
      BY <2>6 DEF y, z
  <1>12. <<cell>> \in Seq(Cells)
    <2>1. cell \in Cells
      BY CellKinds
    <2> QED
      BY <2>1
  <1>13. pre \in Seq(Cells) /\ mid \o tail \in Seq(Cells)
    <2>1. 1 \in 1..(Len(text) + 1) /\ a \in 1..(Len(text) + 1) /\ n \in (a - 1)..Len(text)
      BY <1>1, <1>3
    <2>2. pre \in Seq(Cells)
      BY <1>1, <2>1, Split
    <2> QED
      BY <1>0, <1>7, <2>2, ConcatProperties
  <1> HIDE DEF pre
  <1>14. Replaced(x, m, cell) = pre \o (<<cell>> \o (mid \o tail))
    <2>1. Replaced(x, m, cell) = (pre \o <<cell>>) \o (mid \o tail)
      BY <1>10, <1>11 DEF Replaced, a, b
    <2> DEFINE y == <<cell>>  z == mid \o tail
    <2>2. pre \in Seq(Cells) /\ y \in Seq(Cells) /\ z \in Seq(Cells)
      BY <1>12, <1>13
    <2> HIDE DEF y, z
    <2>3. (pre \o y) \o z = pre \o (y \o z)
      BY <2>2, ConcatAssociative, SMTT(60)
    <2> QED
      BY <2>1, <2>3 DEF y, z
  <1>15. rest \in Seq(Cells)
    BY <1>5, <1>12, <1>13, ConcatProperties
  <1>16. CharactersOf(rest) = mid \o CharactersOf(tail)
    <2> DEFINE y == <<cell>>  z == mid \o tail
    <2>1. y \in Seq(Cells) /\ z \in Seq(Cells) /\ CharactersOf(y) = <<>>
      BY <1>12, <1>13, CharsOfHidden
    <2>2. CharactersOf(z) = mid \o CharactersOf(tail) /\ CharactersOf(z) \in Seq(Cells)
      <3>1. CharactersOf(mid \o tail) = CharactersOf(mid) \o CharactersOf(tail)
        BY <1>0, <1>7, CharsConcat
      <3>2. CharactersOf(mid) = mid
        BY <1>77, CharsOfCharacters
      <3> QED
        BY <1>0, <1>13, <3>1, <3>2, CharsConcat
    <2> HIDE DEF y, z
    <2>3. CharactersOf(y \o z) = CharactersOf(y) \o CharactersOf(z)
      BY <2>1, CharsConcat
    <2>4. <<>> \o CharactersOf(z) = CharactersOf(z)
      BY <2>2, ConcatEmptySeq
    <2> QED
      BY <1>5, <2>1, <2>2, <2>3, <2>4 DEF y, z
  <1> QED
    BY <1>5, <1>6, <1>14, <1>15, <1>16 DEF HiddenFrom, rest, pre, text, a
-----------------------------------------------------------------------------
(* The matches from the end of the text: each ends where the one before it     *)
(* begins, or earlier, and what lies between the two stays clear.              *)
LEMMA EndFacts ==
    ASSUME NEW u, IsUtterance(u), NEW r, r = FromTheEnd(u), NEW n, n = Len(r)
    PROVE  /\ n \in Nat /\ r \in Seq(IterMatches(u))
           /\ \A m \in IterMatches(u) : \E i \in 1..n : r[i] = m
           /\ \A i, j \in 1..n : i < j => r[j].to <= r[i].from
  <1> DEFINE M == IterMatches(u)  q == InTextOrder(M)  l == Len(q)
  <1>1. Len(u.text) \in Nat /\ M \in SUBSET SpansOf(u.text, AllKinds) /\ Apart(M)
    BY MatchFacts, TextType
  <1>11. q = InTextOrder(M) /\ l = Len(q)
    OBVIOUS
  <1> HIDE DEF M, q, l
  <1>2. /\ l \in Nat /\ q \in Seq(M) /\ \A m \in M : \E i \in 1..l : q[i] = m
        /\ \A i, j \in 1..l : i < j => q[i].to <= q[j].from
    <2> DEFINE text == u.text
    <2>1. Len(text) \in Nat /\ M \in SUBSET SpansOf(text, AllKinds)
      BY <1>1
    <2> HIDE DEF text
    <2>2. l \in Nat /\ q \in Seq(M)
      BY <1>1, <1>11, <2>1, InOrder
    <2>3. \A m \in M : \E i \in 1..l : q[i] = m
      BY <1>1, <1>11, <2>1, InOrder
    <2>4. \A i, j \in 1..l : i < j => q[i].to <= q[j].from
      BY <1>1, <1>11, <2>1, InOrder
    <2> QED
      BY <2>2, <2>3, <2>4
  <1>3. r = [i \in 1..l |-> q[(l - i) + 1]]
    BY DEF FromTheEnd, Reverse, M, q, l
  <1>4. l = Len(q) /\ \A i \in 1..l : (l - i) + 1 \in 1..l /\ q[(l - i) + 1] \in M
    BY <1>2 DEF l
  <1>5. n = l /\ r \in Seq(M) /\ \A i \in 1..l : r[i] = q[(l - i) + 1]
    BY <1>2, <1>3, <1>4
  <1>6. ASSUME NEW m \in M PROVE \E i \in 1..n : r[i] = m
    <2>1. PICK j \in 1..l : q[j] = m
      BY <1>2
    <2>2. (l - j) + 1 \in 1..l /\ (l - ((l - j) + 1)) + 1 = j
      BY <1>2
    <2> QED
      BY <1>5, <2>1, <2>2
  <1>7. ASSUME NEW i \in 1..n, NEW j \in 1..n, i < j PROVE r[j].to <= r[i].from
    <2>1. (l - j) + 1 \in 1..l /\ (l - i) + 1 \in 1..l /\ (l - j) + 1 < (l - i) + 1
      BY <1>2, <1>5, <1>7
    <2> QED
      BY <1>2, <1>5, <1>7, <2>1
  <1> QED
    BY <1>2, <1>5, <1>6, <1>7 DEF M

CutAt(u, r, k) == IF k = 0 THEN Len(u.text) + 1 ELSE r[k].from

(* What is true of the matches r, from the end, and of the text between them. *)
Cuts(u, r, n) ==
    /\ n \in Nat /\ r \in Seq(IterMatches(u)) /\ n = Len(r)
    /\ \A k \in 0..n : CutAt(u, r, k) \in 1..(Len(u.text) + 1)
    /\ \A k \in 1..n : CutAt(u, r, k) = r[k].from /\ r[k] \in IterMatches(u)
                       /\ Gap(u, r[k], CutAt(u, r, k - 1))
    /\ \A i \in 1..(CutAt(u, r, n) - 1) : i \in Clear(u)

LEMMA CutFacts ==
    ASSUME NEW u, IsUtterance(u), NEW r, r = FromTheEnd(u), NEW n, n = Len(r)
    PROVE  Cuts(u, r, n)
  <1> DEFINE M == IterMatches(u)  l == Len(u.text)  Cut(k) == CutAt(u, r, k)
  <1>1. /\ n \in Nat /\ r \in Seq(M) /\ \A m \in M : \E i \in 1..n : r[i] = m
        /\ \A i, j \in 1..n : i < j => r[j].to <= r[i].from
    BY EndFacts
  <1>2. l \in Nat /\ M \subseteq SpansOf(u.text, AllKinds)
    BY MatchFacts, TextType
  <1>3. /\ Cut(0) = l + 1 /\ \A k \in 1..n : Cut(k) = r[k].from
    BY <1>1 DEF CutAt
  <1>33. \A i \in 1..l : i \in Clear(u) <=> \A m \in M : ~Covers(m, i)
    BY DEF Clear
  <1> HIDE DEF M, Cut
  <1>4. \A k \in 1..n : r[k] \in M
    BY <1>1
  <1>5. \A k \in 1..n : /\ r[k].from \in Nat /\ r[k].to \in Nat /\ 1 <= r[k].from
                        /\ r[k].from < r[k].to /\ r[k].to <= l + 1
    BY <1>2, <1>4, SpanFacts
  <1> HIDE DEF l
  <1>6. \A k \in 0..n : Cut(k) \in 1..(l + 1)
    <2> TAKE k \in 0..n
    <2>1. CASE k = 0
      BY <1>2, <1>3, <2>1
    <2>2. CASE k \in 1..n
      BY <1>2, <1>3, <1>5, <2>2
    <2> QED
      BY <1>1, <2>1, <2>2
  <1>7. ASSUME NEW k \in 0..n, NEW j \in 1..n, j <= k, NEW i \in Nat, i < Cut(k)
        PROVE  ~Covers(r[j], i)
    <2>0. k \in 1..n
      BY <1>1, <1>7
    <2>1. Cut(k) <= r[j].from
      <3>1. CASE j = k
        BY <1>3, <1>5, <2>0, <3>1
      <3>2. CASE j < k
        <4>1. r[k].to <= r[j].from
          BY <1>1, <2>0, <3>2
        <4> QED
          BY <1>3, <1>5, <2>0, <4>1
      <3> QED
        BY <1>7, <3>1, <3>2
    <2> QED
      BY <1>3, <1>5, <1>7, <2>0, <2>1 DEF Covers
  <1>8. ASSUME NEW k \in 1..n PROVE Gap(u, r[k], Cut(k - 1))
    <2>0. k - 1 \in 0..n /\ k \in Nat
      BY <1>1
    <2>1. r[k].to <= Cut(k - 1)
      <3>1. CASE k = 1
        BY <1>3, <1>5, <3>1
      <3>2. CASE k # 1
        <4>1. k - 1 \in 1..n /\ k - 1 < k
          BY <1>1, <3>2
        <4> QED
          BY <1>1, <1>3, <4>1
      <3> QED
        BY <3>1, <3>2
    <2>2. ASSUME NEW i \in r[k].to..(Cut(k - 1) - 1) PROVE i \in Clear(u)
      <3>0. Cut(k - 1) \in 1..(l + 1)
        BY <1>6, <2>0
      <3>00. r[k].to \in Nat /\ 1 <= r[k].to
        BY <1>5
      <3>1. i \in Nat /\ i < Cut(k - 1) /\ i \in 1..l
        BY <1>2, <3>0, <3>00
      <3>2. ASSUME NEW m \in M PROVE ~Covers(m, i)
        <4>1. PICK j \in 1..n : r[j] = m
          BY <1>1
        <4>2. CASE j <= k - 1
          BY <1>7, <2>0, <3>1, <4>1, <4>2
        <4>3. CASE j = k
          BY <1>5, <3>1, <4>1, <4>3 DEF Covers
        <4>4. CASE k < j
          <5>1. r[j].to <= r[k].from
            BY <1>1, <4>4
          <5> QED
            BY <1>5, <3>1, <4>1, <5>1 DEF Covers
        <4> QED
          BY <2>0, <4>2, <4>3, <4>4
      <3> QED
        BY <1>33, <3>1, <3>2 DEF l
    <2> QED
      BY <1>4, <1>6, <2>0, <2>1, <2>2 DEF Gap, M, l
  <1>9. ASSUME NEW i \in 1..(Cut(n) - 1) PROVE i \in Clear(u)
    <2>0. n \in 0..n
      BY <1>1
    <2>1. n \in 0..n /\ i \in Nat /\ i < Cut(n) /\ i \in 1..l
      <3>1. Cut(n) \in 1..(l + 1)
        BY <1>6, <2>0
      <3> QED
        BY <1>2, <2>0, <3>1
    <2>2. ASSUME NEW m \in M PROVE ~Covers(m, i)
      <3>1. PICK j \in 1..n : r[j] = m /\ j <= n
        BY <1>1
      <3> QED
        BY <1>7, <2>1, <3>1
    <2> QED
      BY <1>33, <2>1, <2>2 DEF l
  <1> QED
    BY <1>1, <1>3, <1>4, <1>6, <1>8, <1>9 DEF Cuts, Cut, M, l

-----------------------------------------------------------------------------
LEMMA NothingHidden ==
    ASSUME NEW u, IsUtterance(u)
    PROVE  HiddenFrom(u, u.text, Len(u.text) + 1, <<>>)
  <1> DEFINE n == Len(u.text)  text == u.text  f == ClearPieces(u)
  <1>1. text \in Seq(Cells) /\ n = Len(text) /\ n \in Nat
    BY TextType
  <1>2. ClearFrom(u, n + 1) = FlattenSeq(SubSeq(f, n + 1, n))
    BY DEF ClearFrom
  <1> HIDE DEF n, text, f
  <1>3. SubSeq(f, n + 1, n) = <<>> /\ (n + 1) - 1 = n
    BY <1>1, SubSeqEmpty
  <1>4. <<>> \in Seq({<<>>}) /\ <<>> \in Seq(Cells) /\ <<>> \in Seq(Characters)
    BY EmptySeq
  <1>5. FlattenSeq(<<>>) = <<>> /\ CharactersOf(<<>>) = <<>>
    BY <1>4, FlatEmpty, CharsOfCharacters
  <1>6. SubSeq(text, 1, n) = text /\ text \o <<>> = text
    BY <1>1, SubSeqFull, ConcatEmptySeq
  <1> QED
    BY <1>2, <1>3, <1>4, <1>5, <1>6 DEF HiddenFrom, n, text

(* Once all are hidden, the characters left are those the scan leaves. *)
LEMMA AllHidden ==
    ASSUME NEW u, IsUtterance(u), NEW x, NEW c \in 1..(Len(u.text) + 1), NEW tail,
           HiddenFrom(u, x, c, tail), \A i \in 1..(c - 1) : i \in Clear(u)
    PROVE  x \in Seq(Cells) /\ CharactersOf(x) = CharactersAt(u.text, Clear(u))
  <1> DEFINE n == Len(u.text)  text == u.text  pre == SubSeq(text, 1, c - 1)
             f == ClearPieces(u)
  <1>1. /\ text \in Seq(Cells) /\ text \in Seq(Characters) /\ n = Len(text) /\ n \in Nat
        /\ f \in Seq(Seq(Cells)) /\ Len(f) = n
    BY TextType
  <1>2. CharactersAt(text, Clear(u)) = ClearFrom(u, 1)
    <2>1. CharactersAt(text, Clear(u)) = FlattenSeq(f)
      BY DEF CharactersAt, ClearPieces
    <2>2. ClearFrom(u, 1) = FlattenSeq(SubSeq(f, 1, n))
      BY DEF ClearFrom
    <2> HIDE DEF f, n
    <2>3. SubSeq(f, 1, n) = f
      <3> DEFINE pieces == Seq(Cells)
      <3>1. f \in Seq(pieces) /\ n = Len(f)
        BY <1>1
      <3> HIDE DEF pieces
      <3> QED
        BY <3>1, SubSeqFull
    <2> QED
      BY <2>1, <2>2, <2>3
  <1>3. ClearFrom(u, 1) = pre \o ClearFrom(u, c)
    <2>1. 1 \in 1..(Len(u.text) + 1) /\ c \in 1..(Len(u.text) + 1)
      BY <1>1
    <2> QED
      BY <2>1, ClearSplit
  <1>4. tail \in Seq(Cells) /\ x = pre \o tail /\ CharactersOf(tail) = ClearFrom(u, c)
    BY DEF HiddenFrom
  <1> HIDE DEF n, text, f
  <1>5. pre \in Seq(Cells) /\ pre \in Seq(Characters)
    <2>1. /\ 1 \in 1..(Len(text) + 1) /\ c \in 1..(Len(text) + 1) /\ n \in (c - 1)..Len(text)
      BY <1>1 DEF n, text
    <2> QED
      BY <1>1, <2>1, Split
  <1> HIDE DEF pre
  <1>6. CharactersOf(pre \o tail) = CharactersOf(pre) \o CharactersOf(tail)
    BY <1>4, <1>5, CharsConcat
  <1>7. CharactersOf(pre) = pre /\ pre \o tail \in Seq(Cells)
    BY <1>4, <1>5, CharsOfCharacters, ConcatProperties
  <1> QED
    BY <1>2, <1>3, <1>4, <1>6, <1>7 DEF text

-----------------------------------------------------------------------------
(* What goes to the trace shows the characters the scan leaves, in their order,  *)
(* and no others (redact, pii.py:144-157).                                   *)
THEOREM RedactIsSound ==
    ASSUME NEW u, IsUtterance(u)
    PROVE  CharactersOf(Redact(u)) = CharactersAt(u.text, Clear(u))
  <1> DEFINE r == FromTheEnd(u)  n == Len(r)
  <1>0. r = FromTheEnd(u) /\ n = Len(r)
    OBVIOUS
  <1> HIDE DEF r, n
  <1>1. /\ n \in Nat /\ r \in Seq(IterMatches(u))
        /\ \A k \in 0..n : CutAt(u, r, k) \in 1..(Len(u.text) + 1)
        /\ \A k \in 1..n : CutAt(u, r, k) = r[k].from /\ r[k] \in IterMatches(u)
                           /\ Gap(u, r[k], CutAt(u, r, k - 1))
        /\ \A i \in 1..(CutAt(u, r, n) - 1) : i \in Clear(u)
    <2>1. Cuts(u, r, n)
      BY <1>0, CutFacts
    <2> QED
      BY <2>1 DEF Cuts
  <1>2. PICK t : Redacting!IsTrace(t, 0, u.text, r)
    BY <1>0, <1>1, Redacting!FoldTrace
  <1>3. t[0] = u.text /\ \A i \in 1..n : t[i] = Replaced(t[i - 1], r[i], Mark(r[i].kind))
    BY <1>0, <1>2 DEF Redacting!IsTrace
  <1>4. t[n] = Redact(u)
    <2>1. Redacting!Folded(0, u.text, r) = Redact(u)
      BY <1>0 DEF Redacting!Folded, Redact, FoldLeft, MapThenFoldSet, Max,
             Redacting!FoldLeft, Redacting!MapThenFoldSet, Redacting!Max
    <2> QED
      BY <1>0, <1>2, <2>1 DEF Redacting!IsTrace
  <1> DEFINE T == {k \in 0..n : \E tail : HiddenFrom(u, t[k], CutAt(u, r, k), tail)}
  <1>5. 0 \in T
    <2>1. HiddenFrom(u, t[0], CutAt(u, r, 0), <<>>)
      BY <1>3, NothingHidden DEF CutAt
    <2> QED
      BY <1>1, <2>1
  <1>6. ASSUME NEW k \in 1..n, k - 1 \in T PROVE k \in T
    <2>1. PICK tail : HiddenFrom(u, t[k - 1], CutAt(u, r, k - 1), tail)
      BY <1>6
    <2>2. Mark(r[k].kind) \in Hidden
      <3>1. r[k] \in SpansOf(u.text, AllKinds)
        BY <1>1, MatchFacts
      <3> QED
        BY <3>1 DEF Mark, Hidden, SpansOf
    <2> DEFINE m == r[k]  c == CutAt(u, r, k - 1)  cell == Mark(r[k].kind)  x == t[k - 1]
    <2>3. Gap(u, m, c) /\ cell \in Hidden /\ HiddenFrom(u, x, c, tail)
      BY <1>1, <2>1, <2>2
    <2> HIDE DEF m, c, cell, x
    <2>4. HiddenFrom(u, Replaced(x, m, cell), m.from, Rest(u, m, c, cell, tail))
      BY <2>3, HideOne
    <2>5. t[k] = Replaced(x, m, cell) /\ CutAt(u, r, k) = m.from /\ k \in 0..n
      BY <1>1, <1>3 DEF x, m, cell
    <2> QED
      BY <2>4, <2>5
  <1>7. \A k \in 0..n : k \in T
    <2> HIDE DEF T
    <2> QED
      BY <1>1, <1>5, <1>6, UpTo
  <1>8. n \in 0..n
    BY <1>1
  <1>9. PICK tail : HiddenFrom(u, t[n], CutAt(u, r, n), tail)
    BY <1>7, <1>8
  <1> QED
    BY <1>1, <1>4, <1>8, <1>9, AllHidden

-----------------------------------------------------------------------------
(* As HiddenFrom, the hidden values held by a vault, that has kept its tokens.  *)
HeldFrom(u, old, at, c, tail) ==
    /\ HiddenFrom(u, at.text, c, tail)
    /\ VaultOK(at.vault) /\ Extends(old, at.vault)
    /\ tail \in Seq(Characters \cup DOMAIN at.vault.forward)
    /\ Rehydrate(tail, at.vault) = SubSeq(u.text, c, Len(u.text))

LEMMA NothingHeld ==
    ASSUME NEW u, IsUtterance(u), NEW v, VaultOK(v)
    PROVE  HeldFrom(u, v, [text |-> u.text, vault |-> v], Len(u.text) + 1, <<>>)
  <1>1. HiddenFrom(u, u.text, Len(u.text) + 1, <<>>)
    BY NothingHidden
  <1>2. <<>> \in Seq(Characters) /\ <<>> \in Seq(Characters \cup DOMAIN v.forward)
    BY EmptySeq
  <1>3. Rehydrate(<<>>, v) = <<>>
    BY <1>2, RealOfCharacters
  <1>4. Extends(v, v)
    BY DEF Extends
  <1> DEFINE n == Len(u.text)  text == u.text
  <1>5. n \in Nat
    BY TextType
  <1> HIDE DEF n, text
  <1>6. SubSeq(text, n + 1, n) = <<>>
    BY <1>5, SubSeqEmpty
  <1> QED
    BY <1>1, <1>2, <1>3, <1>4, <1>6 DEF HeldFrom, n, text

LEMMA HoldOne ==
    ASSUME NEW u, IsUtterance(u), NEW m, NEW c, Gap(u, m, c),
           NEW v, NEW at, NEW tail, HeldFrom(u, v, at, c, tail),
           NEW known, known = TokenizeValue(at.vault, m.kind, Value(u.text, m)),
           NEW next, next = TokenizeMatch(u, at, m)
    PROVE  HeldFrom(u, v, next, m.from, Rest(u, m, c, known.token, tail))
  <1> DEFINE text == u.text  n == Len(u.text)  a == m.from  b == m.to
             value == Value(u.text, m)  mid == SubSeq(text, b, c - 1)
             old == at.vault  new == known.vault  token == known.token
             rest == Rest(u, m, c, token, tail)
             end == SubSeq(text, c, n)  kind == m.kind
  <1>1. /\ text \in Seq(Characters) /\ n \in Nat /\ n = Len(text)
    BY TextType
  <1>2. m \in SpansOf(u.text, AllKinds)
    BY MatchFacts DEF Gap
  <1>3. /\ a \in Nat /\ b \in Nat /\ 1 <= a /\ a < b /\ b <= n + 1 /\ c \in 1..(n + 1) /\ b <= c
        /\ kind \in AllKinds
    BY <1>1, <1>2, SpanFacts DEF Gap
  <1>4. /\ HiddenFrom(u, at.text, c, tail) /\ VaultOK(old) /\ Extends(v, old)
        /\ tail \in Seq(Characters \cup DOMAIN old.forward)
        /\ Rehydrate(tail, old) = end
    BY DEF HeldFrom
  <1>5. /\ value = SubSeq(text, a, b - 1) /\ rest = <<token>> \o (mid \o tail)
        /\ known = TokenizeValue(old, kind, value)
        /\ next.text = Replaced(at.text, m, token) /\ next.vault = new
    BY DEF Value, Rest, TokenizeMatch
  <1>55. tail \in Seq(Cells)
    BY <1>4 DEF HiddenFrom
  <1> HIDE DEF text, n, a, b, value, old, kind, rest
  <1>6. /\ SubSeq(text, a, n) = value \o SubSeq(text, b, n) /\ value \in Seq(Characters)
    <2>1. a \in 1..(Len(text) + 1) /\ b \in a..(Len(text) + 1) /\ n \in (b - 1)..Len(text)
      BY <1>1, <1>3
    <2>2. SubSeq(text, a, n) = SubSeq(text, a, b - 1) \o SubSeq(text, b, n)
      BY <1>1, <2>1, Split
    <2>3. SubSeq(text, a, b - 1) \in Seq(Characters)
      BY <1>1, <2>1, Split
    <2> QED
      BY <1>5, <2>2, <2>3
  <1>7. SubSeq(text, b, n) = mid \o end /\ mid \in Seq(Characters)
    <2>1. b \in 1..(Len(text) + 1) /\ c \in b..(Len(text) + 1) /\ n \in (c - 1)..Len(text)
      BY <1>1, <1>3
    <2>2. SubSeq(text, b, n) = SubSeq(text, b, c - 1) \o SubSeq(text, c, n)
      BY <1>1, <2>1, Split
    <2>3. SubSeq(text, b, c - 1) \in Seq(Characters)
      BY <1>1, <2>1, Split
    <2> QED
      BY <2>2, <2>3
  <1>8. /\ VaultOK(new) /\ Extends(old, new)
        /\ token \in DOMAIN new.forward /\ new.forward[token] = value
    <2>1. /\ VaultOK(old) /\ kind \in AllKinds /\ value \in Seq(Characters)
          /\ known = TokenizeValue(old, kind, value)
      BY <1>3, <1>4, <1>5, <1>6
    <2>2. VaultOK(known.vault)
      BY <2>1, TokenizeValueFacts
    <2>3. Extends(old, known.vault)
      BY <2>1, TokenizeValueFacts
    <2>4. /\ known.token \in DOMAIN known.vault.forward
          /\ known.vault.forward[known.token] = value
      BY <2>1, TokenizeValueFacts
    <2> QED
      BY <2>2, <2>3, <2>4
  <1> HIDE DEF mid, end, new, token
  <1>9. token \in Hidden /\ Characters \cup DOMAIN new.forward \subseteq Cells
    BY <1>8, CellKinds DEF VaultOK
  <1>10. HiddenFrom(u, next.text, a, rest)
    BY <1>4, <1>5, <1>9, HideOne DEF rest, a
  <1>11. Extends(v, new)
    BY <1>4, <1>8 DEF Extends
  <1> DEFINE All == Characters \cup DOMAIN new.forward
  <1>12. /\ tail \in Seq(All) /\ mid \in Seq(All) /\ <<token>> \in Seq(All)
    <2>1. Characters \cup DOMAIN old.forward \subseteq All /\ Characters \subseteq All
          /\ token \in All
      BY <1>8 DEF Extends
    <2> HIDE DEF All
    <2>2. tail \in Seq(All)
      BY <1>4, <2>1, SeqMonotonic
    <2>3. mid \in Seq(All)
      BY <1>7, <2>1, SeqMonotonic
    <2> QED
      BY <2>1, <2>2, <2>3
  <1>13. rest \in Seq(All)
    <2> HIDE DEF All
    <2> DEFINE y == <<token>>  z == mid \o tail
    <2>1. y \in Seq(All) /\ z \in Seq(All)
      BY <1>12, ConcatType
    <2> HIDE DEF y, z
    <2>2. y \o z \in Seq(All)
      BY <2>1, ConcatType
    <2> QED
      BY <1>5, <2>2 DEF y, z
  <1>14. <<token>> \in Seq(Cells) /\ mid \in Seq(Cells) /\ mid \o tail \in Seq(Cells)
    <2>1. <<token>> \in Seq(Cells)
      BY <1>9, CellKinds
    <2>2. mid \in Seq(Cells)
      <3>1. Characters \subseteq Cells
        BY CellKinds
      <3> QED
        BY <1>7, <3>1, SeqMonotonic
    <2> QED
      BY <1>55, <2>1, <2>2, ConcatType
  <1>15. Rehydrate(tail, new) = end
    BY <1>4, <1>8, RealOfLarger
  <1>16. Rehydrate(mid \o tail, new) = mid \o end
    <2>1. Rehydrate(mid \o tail, new) = Rehydrate(mid, new) \o Rehydrate(tail, new)
      BY <1>8, <1>14, <1>55, RealConcat
    <2>2. Rehydrate(mid, new) = mid
      BY <1>7, <1>8, RealOfCharacters
    <2> QED
      BY <1>15, <2>1, <2>2
  <1>17. Rehydrate(rest, new) = SubSeq(text, a, n)
    <2> DEFINE y == <<token>>  z == mid \o tail
    <2>1. y \in Seq(Cells) /\ z \in Seq(Cells)
      BY <1>14
    <2>2. Rehydrate(y, new) = value
      BY <1>8, RealOfToken
    <2> HIDE DEF y, z
    <2>3. Rehydrate(y \o z, new) = Rehydrate(y, new) \o Rehydrate(z, new)
      BY <1>8, <2>1, RealConcat
    <2>4. rest = y \o z /\ Rehydrate(z, new) = mid \o end
      BY <1>5, <1>16 DEF y, z
    <2> QED
      BY <1>6, <1>7, <2>2, <2>3, <2>4
  <1>18. HeldFrom(u, v, next, a, rest)
    BY <1>5, <1>8, <1>10, <1>11, <1>13, <1>17 DEF HeldFrom, new, text, n
  <1> QED
    BY <1>18 DEF a, rest, token

LEMMA AllHeld ==
    ASSUME NEW u, IsUtterance(u), NEW v, NEW at, NEW c \in 1..(Len(u.text) + 1), NEW tail,
           HeldFrom(u, v, at, c, tail), \A i \in 1..(c - 1) : i \in Clear(u)
    PROVE  /\ VaultOK(at.vault) /\ Extends(v, at.vault) /\ at.text \in Seq(Cells)
           /\ Rehydrate(at.text, at.vault) = u.text
           /\ CharactersOf(at.text) = CharactersAt(u.text, Clear(u))
  <1> DEFINE text == u.text  n == Len(u.text)  pre == SubSeq(text, 1, c - 1)
             end == SubSeq(text, c, n)  new == at.vault
  <1>1. /\ HiddenFrom(u, at.text, c, tail) /\ VaultOK(new) /\ Extends(v, new)
        /\ Rehydrate(tail, new) = end
    BY DEF HeldFrom
  <1>2. at.text \in Seq(Cells) /\ CharactersOf(at.text) = CharactersAt(u.text, Clear(u))
    BY <1>1, AllHidden
  <1>3. at.text = pre \o tail /\ tail \in Seq(Cells)
    BY <1>1 DEF HiddenFrom
  <1>4. text \in Seq(Cells) /\ text \in Seq(Characters) /\ n = Len(text) /\ n \in Nat
        /\ c \in 1..(n + 1)
    BY TextType
  <1> HIDE DEF text, n, new
  <1>5. /\ pre \in Seq(Cells) /\ pre \in Seq(Characters) /\ SubSeq(text, 1, n) = pre \o end
    <2>1. 1 \in 1..(Len(text) + 1) /\ c \in 1..(Len(text) + 1) /\ n \in (c - 1)..Len(text)
      BY <1>4
    <2>2. SubSeq(text, 1, n) = SubSeq(text, 1, c - 1) \o SubSeq(text, c, n)
      BY <1>4, <2>1, Split
    <2>3. SubSeq(text, 1, c - 1) \in Seq(Cells) /\ SubSeq(text, 1, c - 1) \in Seq(Characters)
      BY <1>4, <2>1, Split
    <2> QED
      BY <2>2, <2>3
  <1>6. SubSeq(text, 1, n) = text
    BY <1>4, SubSeqFull
  <1> HIDE DEF pre, end
  <1>7. Rehydrate(pre \o tail, new) = Rehydrate(pre, new) \o Rehydrate(tail, new)
    BY <1>1, <1>3, <1>5, RealConcat
  <1>8. Rehydrate(pre, new) = pre
    BY <1>1, <1>5, RealOfCharacters
  <1> QED
    BY <1>1, <1>2, <1>3, <1>5, <1>6, <1>7, <1>8 DEF new, text

(* A text that is tokenized comes back from its tokens as it was; the tokens of  *)
(* the vault keep their meaning, and the text shows the model the characters     *)
(* the scan leaves and no others (tokenize, pii.py:160-173).                   *)
THEOREM TokenizeReverses ==
    ASSUME NEW u, IsUtterance(u), NEW v, VaultOK(v), NEW at, at = Tokenize(u, v)
    PROVE  /\ VaultOK(at.vault) /\ Extends(v, at.vault) /\ at.text \in Seq(Cells)
           /\ Rehydrate(at.text, at.vault) = u.text
           /\ CharactersOf(at.text) = CharactersAt(u.text, Clear(u))
  <1> DEFINE r == FromTheEnd(u)  n == Len(r)  base == [text |-> u.text, vault |-> v]
  <1>0. r = FromTheEnd(u) /\ n = Len(r) /\ base = [text |-> u.text, vault |-> v]
    OBVIOUS
  <1> HIDE DEF r, n, base
  <1>1. /\ n \in Nat /\ r \in Seq(IterMatches(u))
        /\ \A k \in 0..n : CutAt(u, r, k) \in 1..(Len(u.text) + 1)
        /\ \A k \in 1..n : CutAt(u, r, k) = r[k].from /\ r[k] \in IterMatches(u)
                           /\ Gap(u, r[k], CutAt(u, r, k - 1))
        /\ \A i \in 1..(CutAt(u, r, n) - 1) : i \in Clear(u)
    <2>1. Cuts(u, r, n)
      BY <1>0, CutFacts
    <2> QED
      BY <2>1 DEF Cuts
  <1>2. PICK t : Tokenizing!IsTrace(t, u, base, r)
    BY <1>0, <1>1, Tokenizing!FoldTrace
  <1>3. t[0] = base /\ \A i \in 1..n : t[i] = TokenizeMatch(u, t[i - 1], r[i])
    BY <1>0, <1>2 DEF Tokenizing!IsTrace
  <1>4. t[n] = at
    <2>1. Tokenizing!Folded(u, base, r) = Tokenize(u, v)
      BY <1>0 DEF Tokenizing!Folded, Tokenize, FoldLeft, MapThenFoldSet, Max,
             Tokenizing!FoldLeft, Tokenizing!MapThenFoldSet, Tokenizing!Max
    <2> QED
      BY <1>0, <1>2, <2>1 DEF Tokenizing!IsTrace
  <1> DEFINE T == {k \in 0..n : \E tail : HeldFrom(u, v, t[k], CutAt(u, r, k), tail)}
  <1>5. 0 \in T
    <2>1. HeldFrom(u, v, t[0], CutAt(u, r, 0), <<>>)
      BY <1>0, <1>3, NothingHeld DEF CutAt
    <2> QED
      BY <1>1, <2>1
  <1>6. ASSUME NEW k \in 1..n, k - 1 \in T PROVE k \in T
    <2>1. PICK tail : HeldFrom(u, v, t[k - 1], CutAt(u, r, k - 1), tail)
      BY <1>6
    <2> DEFINE m == r[k]  c == CutAt(u, r, k - 1)  x == t[k - 1]  next == t[k]
               known == TokenizeValue(x.vault, m.kind, Value(u.text, m))
    <2>2. Gap(u, m, c) /\ HeldFrom(u, v, x, c, tail) /\ next = TokenizeMatch(u, x, m)
      BY <1>1, <1>3, <2>1
    <2>3. known = TokenizeValue(x.vault, m.kind, Value(u.text, m))
      OBVIOUS
    <2> HIDE DEF m, c, x, next, known
    <2>4. HeldFrom(u, v, next, m.from, Rest(u, m, c, known.token, tail))
      BY <2>2, <2>3, HoldOne
    <2>5. CutAt(u, r, k) = m.from /\ k \in 0..n
      BY <1>1 DEF m
    <2> QED
      BY <2>4, <2>5 DEF next
  <1>7. \A k \in 0..n : k \in T
    <2> HIDE DEF T
    <2> QED
      BY <1>1, <1>5, <1>6, UpTo
  <1>8. n \in 0..n
    BY <1>1
  <1>9. PICK tail : HeldFrom(u, v, t[n], CutAt(u, r, n), tail)
    BY <1>7, <1>8
  <1> QED
    BY <1>1, <1>4, <1>8, <1>9, AllHeld
=============================================================================
