----------------------------- MODULE FoldProofs -----------------------------
(***************************************************************************)
(* The steps of a fold, for any operator.  FoldLeft of the community modules *)
(* is defined by the greatest index of a set of indices, from which a proof  *)
(* reads nothing directly; FoldTrace says that it has a trace: a first value, *)
(* one step of the operator for each element, and the fold's result at the   *)
(* end.  What holds at the start of the trace and is kept by each step holds *)
(* of the result: that induction is UpTo, over a set in place of a predicate *)
(* so that the provers can instantiate it.  A module that folds takes an     *)
(* INSTANCE for each operator it folds with.                                 *)
(***************************************************************************)
EXTENDS Naturals, Sequences, SequencesExt, FiniteSets, SequenceTheorems,
        WellFoundedInduction, TLAPS

CONSTANT Op(_, _, _)   \* a step, from a context that stays, the value so far and the element

(* A set of numbers that holds 0 and every successor of its own is Nat: the   *)
(* least number outside it would have a predecessor inside it.               *)
Below == {pair \in Nat \X Nat : pair[1] < pair[2]}

LEMMA NatSets ==
    ASSUME NEW S \in SUBSET Nat, 0 \in S, \A n \in Nat : n \in S => n + 1 \in S
    PROVE  S = Nat
  <1> DEFINE T == Nat \ S
  <1> SUFFICES ASSUME T # {} PROVE FALSE
    OBVIOUS
  <1>1. IsWellFoundedOn(Below, Nat)
    BY NatLessThanWellFounded DEF OpToRel, Below
  <1>2. T \subseteq Nat
    OBVIOUS
  <1> HIDE DEF T
  <1>3. PICK x \in T : \A y \in T : ~(<<y, x>> \in Below)
    BY <1>1, <1>2, WFMin, Zenon
  <1>4. x \in Nat /\ x # 0 /\ x \notin S
    BY <1>2 DEF T
  <1>5. x - 1 \in Nat /\ x - 1 < x /\ (x - 1) + 1 = x
    BY <1>4
  <1>6. x - 1 \notin S
    BY <1>4, <1>5
  <1> QED
    BY <1>3, <1>4, <1>5, <1>6 DEF T, Below

(* The same for the numbers up to n. *)
LEMMA UpTo ==
    ASSUME NEW n \in Nat, NEW S, 0 \in S, \A i \in 1..n : i - 1 \in S => i \in S
    PROVE  \A i \in 0..n : i \in S
  <1> DEFINE T == {i \in Nat : i <= n => i \in S}
  <1>1. 0 \in T
    OBVIOUS
  <1>2. \A i \in Nat : i \in T => i + 1 \in T
    <2> TAKE i \in Nat
    <2> HAVE i \in T
    <2> SUFFICES ASSUME i + 1 <= n PROVE i + 1 \in S
      OBVIOUS
    <2>1. i + 1 \in 1..n /\ (i + 1) - 1 = i /\ i <= n
      OBVIOUS
    <2>2. i \in S
      BY <2>1
    <2> HIDE DEF T
    <2> QED
      BY <2>1, <2>2
  <1>3. T = Nat
    <2> T \subseteq Nat
      OBVIOUS
    <2> HIDE DEF T
    <2> QED
      BY <1>1, <1>2, NatSets
  <1> QED
    BY <1>3
-----------------------------------------------------------------------------
LEMMA MaxOfSet ==
    ASSUME NEW n \in Nat, NEW s \in SUBSET (1..n), s # {}
    PROVE  Max(s) \in s /\ \A i \in s : i <= Max(s)
  <1> DEFINE T == {k \in 0..n : \A r \in SUBSET (1..k) : r # {} => \E x \in r : \A y \in r : x >= y}
  <1>1. 0 \in T
    <2>1. 0 \in 0..n /\ 1..0 = {}
      OBVIOUS
    <2> QED
      BY <2>1
  <1>2. ASSUME NEW k \in 1..n, k - 1 \in T PROVE k \in T
    <2> SUFFICES ASSUME NEW r \in SUBSET (1..k), r # {}
                 PROVE  \E x \in r : \A y \in r : x >= y
      OBVIOUS
    <2>1. CASE k \in r
      BY <2>1
    <2>2. CASE k \notin r
      <3>1. r \in SUBSET (1..(k - 1))
        BY <2>2
      <3> QED
        BY <1>2, <3>1
    <2> QED
      BY <2>1, <2>2
  <1>3. n \in T
    <2> HIDE DEF T
    <2> QED
      BY <1>1, <1>2, UpTo
  <1>4. \E x \in s : \A y \in s : x >= y
    BY <1>3
  <1>5. Max(s) \in s /\ \A y \in s : Max(s) >= y
    BY <1>4 DEF Max
  <1> QED
    BY <1>5

LEMMA MaxIs ==
    ASSUME NEW n \in Nat, NEW s \in SUBSET (1..n), n \in s
    PROVE  Max(s) = n
  <1>1. Max(s) \in s /\ n <= Max(s)
    BY MaxOfSet
  <1>2. Max(s) \in 1..n
    BY <1>1
  <1> QED
    BY <1>1, <1>2

(* The function a fold is read from: over sets of indices, taking the greatest. *)
IsFold(f, k, c, base, q) ==
    /\ f = [s \in SUBSET (1..k) |-> f[s]]
    /\ f[{}] = base
    /\ \A s \in SUBSET (1..k) : s # {} => f[s] = Op(c, f[s \ {Max(s)}], q[Max(s)])

LEMMA FoldExists ==
    ASSUME NEW n \in Nat, NEW c, NEW base, NEW q
    PROVE  \E f : IsFold(f, n, c, base, q)
  <1> DEFINE T == {k \in 0..n : \E f : IsFold(f, k, c, base, q)}
  <1>1. 0 \in T
    <2> DEFINE f == [s \in SUBSET (1..0) |-> base]
    <2>1. \A s \in SUBSET (1..0) : s = {}
      OBVIOUS
    <2>2. f[{}] = base /\ f = [s \in SUBSET (1..0) |-> f[s]]
      OBVIOUS
    <2> HIDE DEF f
    <2>3. IsFold(f, 0, c, base, q)
      BY <2>1, <2>2 DEF IsFold
    <2> QED
      BY <2>3
  <1>2. ASSUME NEW k \in 1..n, k - 1 \in T PROVE k \in T
    <2>1. PICK f : IsFold(f, k - 1, c, base, q)
      BY <1>2
    <2> DEFINE g == [s \in SUBSET (1..k) |-> IF k \in s THEN Op(c, f[s \ {k}], q[k]) ELSE f[s]]
    <2>2. \A s \in SUBSET (1..k) : g[s] = IF k \in s THEN Op(c, f[s \ {k}], q[k]) ELSE f[s]
      OBVIOUS
    <2>3. g = [s \in SUBSET (1..k) |-> g[s]]
      OBVIOUS
    <2> HIDE DEF g
    <2>4. g[{}] = base
      BY <2>1, <2>2 DEF IsFold
    <2>5. ASSUME NEW s \in SUBSET (1..k), s # {}
          PROVE  g[s] = Op(c, g[s \ {Max(s)}], q[Max(s)])
      <3>1. CASE k \in s
        <4>1. Max(s) = k
          BY <3>1, MaxIs
        <4>2. s \ {k} \in SUBSET (1..k) /\ k \notin s \ {k}
          OBVIOUS
        <4>3. g[s \ {k}] = f[s \ {k}] /\ g[s] = Op(c, f[s \ {k}], q[k])
          BY <2>2, <3>1, <4>2, Zenon
        <4> QED
          BY <4>1, <4>3, Zenon
      <3>2. CASE k \notin s
        <4>1. s \in SUBSET (1..(k - 1))
          BY <3>2
        <4>2. f[s] = Op(c, f[s \ {Max(s)}], q[Max(s)])
          BY <2>1, <2>5, <4>1, Zenon DEF IsFold
        <4>3. s \ {Max(s)} \in SUBSET (1..k) /\ k \notin s \ {Max(s)}
          BY <3>2
        <4>4. g[s] = f[s] /\ g[s \ {Max(s)}] = f[s \ {Max(s)}]
          BY <2>2, <3>2, <4>3, Zenon
        <4> QED
          BY <4>2, <4>4, Zenon
      <3> QED
        BY <3>1, <3>2
    <2>6. IsFold(g, k, c, base, q)
      BY <2>3, <2>4, <2>5, Zenon DEF IsFold
    <2>7. k \in 0..n
      OBVIOUS
    <2> QED
      BY <2>6, <2>7
  <1>3. \A i \in 0..n : i \in T
    <2> HIDE DEF T
    <2> QED
      BY <1>1, <1>2, UpTo
  <1>4. n \in 0..n
    OBVIOUS
  <1> QED
    BY <1>3, <1>4

Folded(c, base, q) == FoldLeft(LAMBDA a, x : Op(c, a, x), base, q)

(* A trace of a fold: what it has after each element. *)
IsTrace(t, c, base, q) ==
    /\ t[0] = base
    /\ \A i \in 1..Len(q) : t[i] = Op(c, t[i - 1], q[i])
    /\ t[Len(q)] = Folded(c, base, q)

(* Every fold over a sequence has a trace: the value before the first element,  *)
(* and from each element to the next one step of the operator.                 *)
THEOREM FoldTrace ==
    ASSUME NEW S, NEW q \in Seq(S), NEW c, NEW base
    PROVE  \E t : IsTrace(t, c, base, q)
  <1> DEFINE n == Len(q)
             Is(f) == f = [s \in SUBSET (1..n) |-> IF s = {} THEN base
                                           ELSE Op(c, f[s \ {Max(s)}], q[Max(s)])]
             iter == CHOOSE f : Is(f)
  <1>0. n \in Nat /\ DOMAIN q = 1..n
    OBVIOUS
  <1> HIDE DEF n
  <1>1. PICK f : IsFold(f, n, c, base, q)
    BY <1>0, FoldExists
  <1>2. \A s \in SUBSET (1..n) : f[s] = IF s = {} THEN base ELSE Op(c, f[s \ {Max(s)}], q[Max(s)])
    BY <1>1 DEF IsFold
  <1>3. Is(f)
    BY <1>1, <1>2 DEF IsFold
  <1>4. Folded(c, base, q) = iter[1..n]
    BY <1>0 DEF Folded, FoldLeft, MapThenFoldSet
  <1>5. Is(iter)
    <2> HIDE DEF Is
    <2> QED
      BY <1>3
  <1> HIDE DEF iter
  <1>6. \A s \in SUBSET (1..n) : iter[s] = IF s = {} THEN base ELSE Op(c, iter[s \ {Max(s)}], q[Max(s)])
    BY <1>5
  <1> HIDE DEF Is
  <1> DEFINE t == [i \in 0..n |-> iter[1..i]]
  <1>7. \A i \in 0..n : t[i] = iter[1..i]
    OBVIOUS
  <1> HIDE DEF t
  <1>8. t[0] = base
    <2>1. 1..0 = {} /\ 0 \in 0..n /\ {} \in SUBSET (1..n)
      BY <1>0
    <2> QED
      BY <1>6, <1>7, <2>1, Zenon
  <1>9. ASSUME NEW i \in 1..n PROVE t[i] = Op(c, t[i - 1], q[i])
    <2>1. Max(1..i) = i
      <3> DEFINE s == 1..i
      <3>1. i \in Nat /\ s \in SUBSET (1..i) /\ i \in s
        BY <1>0
      <3> HIDE DEF s
      <3>2. Max(s) = i
        BY <3>1, MaxIs
      <3> QED
        BY <3>2 DEF s
    <2>2. /\ (1..i) \ {i} = 1..(i - 1) /\ 1..i \in SUBSET (1..n)
          /\ 1..i # {} /\ i \in 0..n /\ i - 1 \in 0..n
      <3>1. (1..i) \ {i} = 1..(i - 1)
        BY <1>0
      <3>2. 1..i \in SUBSET (1..n)
        BY <1>0
      <3>3. i \in 1..i /\ i \in 0..n /\ i - 1 \in 0..n
        BY <1>0
      <3> QED
        BY <3>1, <3>2, <3>3
    <2>3. iter[1..i] = Op(c, iter[(1..i) \ {Max(1..i)}], q[Max(1..i)])
      BY <1>6, <2>2, Zenon
    <2> QED
      BY <1>7, <2>1, <2>2, <2>3, Zenon
  <1>10. t[n] = Folded(c, base, q)
    BY <1>0, <1>4, <1>7
  <1> QED
    BY <1>8, <1>9, <1>10 DEF IsTrace, n
=============================================================================
