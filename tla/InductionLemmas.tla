--------------------------- MODULE InductionLemmas --------------------------
(***************************************************************************)
(* Induction over numbers and sequences, stated with sets and functions in *)
(* place of operators: what a recursive function over a sequence computes. *)
(***************************************************************************)
EXTENDS Naturals, Sequences, WellFoundedInduction, TLAPS

\* A set of natural numbers that is not empty has a least element.
LEMMA LeastNat ==
    ASSUME NEW S \in SUBSET Nat, S # {}
    PROVE  \E n \in S : \A m \in S : n <= m
<1>1. PICK n \in S : \A m \in S : ~ (<<m, n>> \in OpToRel(<, Nat))
  BY NatLessThanWellFounded, WFMin
<1>2. \A m \in S : ~(m < n)
  BY <1>1 DEF OpToRel
<1> QED BY <1>2

\* A set that has 0, and with a number below n the next one, has all up to n.
LEMMA UpTo ==
    ASSUME NEW n \in Nat, NEW S, 0 \in S, \A i \in 0 .. n - 1 : i \in S => i + 1 \in S
    PROVE  0 .. n \subseteq S
<1> DEFINE T == {i \in 0 .. n : i \notin S}
<1> SUFFICES ASSUME T # {} PROVE FALSE
  OBVIOUS
<1>1. PICK i \in T : \A j \in T : i <= j
  <2>1. T \in SUBSET Nat
    OBVIOUS
  <2> HIDE DEF T
  <2> QED BY <2>1, LeastNat
<1>2. i # 0 /\ i - 1 \in 0 .. n - 1 /\ i - 1 \notin T /\ i = (i - 1) + 1
  BY <1>1
<1> QED BY <1>1, <1>2

\* What a fold over a sequence goes through: `step` takes the value so far and the
\* next element.
IsFold(f, base, step, s) ==
    f = [i \in 0 .. Len(s) |-> IF i = 0 THEN base ELSE step[<<f[i - 1], s[i]>>]]

\* There is such a function, and it stays within the values of `step`.
LEMMA FoldExists ==
    ASSUME NEW S, NEW X, NEW base \in S, NEW step \in [S \X X -> S], NEW s \in Seq(X)
    PROVE  \E f \in [0 .. Len(s) -> S] : IsFold(f, base, step, s)
<1> DEFINE F(n, f) == /\ f[0] = base
                      /\ \A i \in 1 .. n : f[i] = step[<<f[i - 1], s[i]>>]
           G == {n \in 0 .. Len(s) : \E f \in [0 .. n -> S] : F(n, f)}
<1>1. 0 \in G
  <2>1. [i \in 0 .. 0 |-> base] \in [0 .. 0 -> S] /\ F(0, [i \in 0 .. 0 |-> base])
    OBVIOUS
  <2> HIDE DEF F
  <2> QED BY <2>1
<1>2. ASSUME NEW n \in 0 .. Len(s) - 1, n \in G PROVE n + 1 \in G
  <2>1. PICK f \in [0 .. n -> S] : F(n, f)
    BY <1>2
  <2> DEFINE g == [i \in 0 .. n + 1 |-> IF i = n + 1 THEN step[<<f[n], s[n + 1]>>] ELSE f[i]]
  <2>2. s[n + 1] \in X /\ f[n] \in S
    OBVIOUS
  <2>3. step[<<f[n], s[n + 1]>>] \in S
    BY <2>2
  <2>4. g \in [0 .. n + 1 -> S]
    BY <2>3
  <2>5. g[0] = base
    BY <2>1
  <2>6. ASSUME NEW i \in 1 .. n + 1 PROVE g[i] = step[<<g[i - 1], s[i]>>]
    <3>1. CASE i = n + 1
      <4>1. g[i] = step[<<f[n], s[n + 1]>>] /\ i - 1 = n /\ g[n] = f[n]
        BY <3>1
      <4> QED BY <3>1, <4>1
    <3>2. CASE i # n + 1
      <4>1. i \in 1 .. n /\ g[i] = f[i] /\ g[i - 1] = f[i - 1]
        BY <3>2
      <4> QED BY <2>1, <4>1
    <3> QED BY <3>1, <3>2
  <2>7. F(n + 1, g)
    BY <2>5, <2>6
  <2> HIDE DEF F, g
  <2> QED BY <2>4, <2>7
<1>3. Len(s) \in Nat /\ Len(s) \in 0 .. Len(s)
  OBVIOUS
<1>4. 0 .. Len(s) \subseteq G
  <2> HIDE DEF G
  <2> QED BY <1>1, <1>2, <1>3, UpTo
<1>5. PICK f \in [0 .. Len(s) -> S] : F(Len(s), f)
  BY <1>3, <1>4
<1>6. \A i \in 0 .. Len(s) : f[i] = IF i = 0 THEN base ELSE step[<<f[i - 1], s[i]>>]
  BY <1>5
<1>7. f = [i \in 0 .. Len(s) |-> f[i]]
  OBVIOUS
<1>8. IsFold(f, base, step, s)
  BY <1>6, <1>7 DEF IsFold
<1> QED BY <1>8
=============================================================================
