----------------------------- MODULE FoldFacts -----------------------------
(***************************************************************************)
(* What is needed to reason about loops over a list: induction on the      *)
(* natural numbers, and what a fold computes.  The operator that is folded *)
(* is a constant, so that an instance of this module gives the facts for   *)
(* a particular loop.                                                      *)
(***************************************************************************)
EXTENDS Integers, Sequences
LOCAL INSTANCE WellFoundedInduction

CONSTANT Op(_, _)     \* what the loop does to its result, for one element

(* FoldLeft(Op, base, s), with its definition written out: what an instance *)
(* brings along makes every later step slower to prove.                     *)
Largest(t) == CHOOSE x \in t : \A y \in t : x >= y
Fold(base, s) ==
  LET iter[t \in SUBSET DOMAIN s] ==
        IF t = {} THEN base ELSE Op(iter[t \ {Largest(t)}], s[Largest(t)])
  IN iter[DOMAIN s]

-----------------------------------------------------------------------------
(* Every set of natural numbers that is not empty has a least element.      *)
LEMMA LeastOf ==
  ASSUME NEW T, T \subseteq Nat, T # {}
  PROVE  \E x \in T : \A y \in T : x <= y
<1> DEFINE R == OpToRel(<, Nat)
<1>1. \E x \in T : \A y \in T : ~ (<<y, x>> \in R)
  BY WFMin, NatLessThanWellFounded
<1>2. \A x, y \in Nat : y < x => <<y, x>> \in R
  BY DEF OpToRel
<1> HIDE DEF R
<1>3. PICK x \in T : \A y \in T : <<y, x>> \notin R
  BY <1>1
<1>4. \A y \in T : ~ (y < x)
  BY <1>2, <1>3
<1> QED
  BY <1>4

(* Induction, on the set of the numbers for which something holds: a        *)
(* theorem with a predicate for its parameter could not be used.            *)
LEMMA NatSet ==
  ASSUME NEW S, 0 \in S, \A n \in Nat : n \in S => n + 1 \in S
  PROVE  Nat \subseteq S
<1> SUFFICES ASSUME Nat \ S # {} PROVE FALSE
  OBVIOUS
<1>1. PICK x \in Nat \ S : \A y \in Nat \ S : x <= y
  BY LeastOf
<1>2. x - 1 \in Nat /\ x - 1 \in S
  BY <1>1
<1> QED
  BY <1>1, <1>2

(* The greatest element of a set is the one that is not below any other.    *)
LEMMA LargestIs ==
  ASSUME NEW T \in SUBSET Int, NEW x \in T, \A y \in T : y <= x
  PROVE  Largest(T) = x
<1> DEFINE z == CHOOSE z \in T : \A y \in T : z >= y
<1>1. z \in T /\ \A y \in T : z >= y
  OBVIOUS
<1>2. Largest(T) = z
  BY DEF Largest
<1>3. z = x
  <2> HIDE DEF z
  <2> QED BY <1>1
<1> QED
  BY <1>2, <1>3

-----------------------------------------------------------------------------
(* The recursion a fold is defined by: for every set of places, the       *)
(* result of working through them from the least to the greatest.           *)
Iterates(iter, base, s, m) ==
  iter = [t \in SUBSET (1..m) |->
            IF t = {} THEN base ELSE Op(iter[t \ {Largest(t)}], s[Largest(t)])]

(* The recursion defines something.                                         *)
LEMMA IterExists ==
  ASSUME NEW base, NEW s, NEW n \in Nat
  PROVE  \E iter : Iterates(iter, base, s, n)
<1> DEFINE M == {m \in Nat : \E iter : Iterates(iter, base, s, m)}
<1>1. 0 \in M
  <2>1. Iterates([t \in SUBSET (1..0) |-> base], base, s, 0)
    BY SUBSET (1..0) = {{}} DEF Iterates
  <2> QED BY <2>1
<1>2. ASSUME NEW m \in Nat, m \in M PROVE m + 1 \in M
  <2>1. PICK f : Iterates(f, base, s, m)
    BY <1>2
  <2> DEFINE g == [t \in SUBSET (1..(m + 1)) |->
                     IF t = {} THEN base
                     ELSE IF m + 1 \in t THEN Op(f[t \ {m + 1}], s[m + 1]) ELSE f[t]]
  <2>2. ASSUME NEW t \in SUBSET (1..(m + 1)), t # {}
        PROVE  g[t] = Op(g[t \ {Largest(t)}], s[Largest(t)])
    <3>1. CASE m + 1 \in t
      <4>1. Largest(t) = m + 1
        BY <3>1, LargestIs
      <4>2. t \ {m + 1} \in SUBSET (1..m)
        OBVIOUS
      <4>3. f[t \ {m + 1}] = g[t \ {m + 1}]
        BY <4>2, <2>1 DEF Iterates
      <4> QED
        BY <4>1, <4>3, <2>2, <3>1
    <3>2. CASE m + 1 \notin t
      <4>1. t \in SUBSET (1..m)
        BY <3>2
      <4>2. t \ {Largest(t)} \in SUBSET (1..m)
        BY <4>1
      <4>3. f[t] = Op(f[t \ {Largest(t)}], s[Largest(t)])
        BY <4>1, <2>1, <2>2 DEF Iterates
      <4>4. g[t] = f[t]
        BY <3>2, <2>2
      <4>5. m + 1 \notin t \ {Largest(t)}  /\ t \ {Largest(t)} \in SUBSET (1..(m + 1))
        BY <3>2
      <4>6. g[t \ {Largest(t)}] = f[t \ {Largest(t)}]
        BY <4>2, <4>5, <2>1 DEF Iterates
      <4> QED
        BY <4>3, <4>4, <4>6
    <3> QED
      BY <3>1, <3>2
  <2>3. Iterates(g, base, s, m + 1)
    BY <2>2 DEF Iterates
  <2> QED BY <2>3
<1> QED
  <2> HIDE DEF M
  <2>1. Nat \subseteq M
    BY <1>1, <1>2, NatSet
  <2> QED BY <2>1 DEF M

(* What FoldLeft computes: the last of a chain of results, the first of     *)
(* which is the base and each other of which comes from the one before it.  *)
THEOREM FoldChain ==
  ASSUME NEW S, NEW s \in Seq(S), NEW base
  PROVE  \E g : /\ g[0] = base
                /\ \A i \in 1..Len(s) : g[i] = Op(g[i - 1], s[i])
                /\ g[Len(s)] = Fold(base, s)
<1> DEFINE f == CHOOSE iter : Iterates(iter, base, s, Len(s))
           g == [i \in 0..Len(s) |-> f[1..i]]
<1>1. Iterates(f, base, s, Len(s))
  BY IterExists
<1>2. Fold(base, s) = f[1..Len(s)]
  <2>1. DOMAIN s = 1..Len(s)
    OBVIOUS
  <2> QED BY <2>1 DEF Fold, Iterates
<1> HIDE DEF f
<1>3. g[0] = base
  <2>1. 1..0 = {} /\ {} \in SUBSET (1..Len(s))
    OBVIOUS
  <2>2. f[{}] = base
    BY <1>1, <2>1 DEF Iterates
  <2> QED BY <2>1, <2>2
<1>4. ASSUME NEW i \in 1..Len(s) PROVE g[i] = Op(g[i - 1], s[i])
  <2>1. 1..i \in SUBSET (1..Len(s)) /\ 1..i # {}
    BY Len(s) \in Nat
  <2>2. Largest(1..i) = i
    <3>1. i \in Nat /\ i > 0
      BY Len(s) \in Nat
    <3>2. 1..i \in SUBSET Int /\ i \in 1..i /\ \A y \in 1..i : y <= i
      BY <3>1
    <3> QED BY <3>2, LargestIs
  <2>3. (1..i) \ {i} = 1..(i - 1)
    <3>1. i \in Nat /\ Len(s) \in Nat
      OBVIOUS
    <3> QED BY <3>1
  <2>4. f[1..i] = Op(f[(1..i) \ {Largest(1..i)}], s[Largest(1..i)])
    BY <1>1, <2>1 DEF Iterates
  <2>5. f[1..i] = Op(f[1..(i - 1)], s[i])
    BY <2>2, <2>3, <2>4
  <2>6. g[i] = f[1..i] /\ g[i - 1] = f[1..(i - 1)]
    BY Len(s) \in Nat
  <2> QED BY <2>5, <2>6
<1>5. g[Len(s)] = Fold(base, s)
  BY <1>2
<1> HIDE DEF g
<1> QED
  BY <1>3, <1>4, <1>5

(* What the loop keeps true of its result holds at the end.                 *)
THEOREM FoldStaysIn ==
  ASSUME NEW S, NEW s \in Seq(S), NEW T, NEW base \in T,
         \A a \in T, e \in S : Op(a, e) \in T
  PROVE  Fold(base, s) \in T
<1>1. PICK g : /\ g[0] = base
               /\ \A i \in 1..Len(s) : g[i] = Op(g[i - 1], s[i])
               /\ g[Len(s)] = Fold(base, s)
  BY FoldChain
<1> DEFINE M == {i \in Nat : i <= Len(s) => g[i] \in T}
<1>2. 0 \in M
  BY <1>1
<1>3. ASSUME NEW i \in Nat, i \in M PROVE i + 1 \in M
  <2> SUFFICES ASSUME i + 1 <= Len(s) PROVE g[i + 1] \in T
    OBVIOUS
  <2>1. i + 1 \in 1..Len(s) /\ s[i + 1] \in S /\ (i + 1) - 1 = i /\ i <= Len(s)
    BY Len(s) \in Nat
  <2>2. g[i] \in T
    BY <1>3, <2>1
  <2>3. g[i + 1] = Op(g[i], s[i + 1])
    BY <1>1, <2>1
  <2> QED BY <2>1, <2>2, <2>3
<1>4. Nat \subseteq M
  <2> HIDE DEF M
  <2> QED BY <1>2, <1>3, NatSet
<1>5. Len(s) \in M
  BY <1>4
<1> QED
  BY <1>1, <1>5
=============================================================================
