----------------------------- MODULE DataLemmas -----------------------------
(***************************************************************************)
(* What the proofs of several components need about data: induction, sums  *)
(* over finite sets, sequences put together from sequences.                *)
(*                                                                         *)
(* Induction is stated as a fact about sets of numbers (LeastOf, Reaches,  *)
(* Climbs), of which a proof names the set it needs.  SumFunctionOnSet     *)
(* folds over a set in an order that it chooses; the lemmas here are all   *)
(* that is used of it.                                                     *)
(***************************************************************************)
EXTENDS Integers, Sequences, FiniteSets, Functions, SequencesExt,
        FiniteSetTheorems, SequenceTheorems, WellFoundedInduction, TLAPS

-----------------------------------------------------------------------------
(* Induction over the natural numbers.                                     *)

\* The least-number principle, from the well-foundedness of < on Nat.
LEMMA LeastOf ==
    ASSUME NEW T, T \subseteq Nat, T # {}
    PROVE  \E m \in T : \A k \in T : m <= k
<1>1. IsWellFoundedOn(OpToRel(<, Nat), Nat)
    BY NatLessThanWellFounded
<1>R. PICK R : R = OpToRel(<, Nat)
    OBVIOUS
<1>2. IsWellFoundedOn(R, Nat)
    BY <1>1, <1>R
<1>3. R = {ss \in Nat \X Nat : ss[1] < ss[2]}
    BY <1>R DEF OpToRel
<1>4. PICK x \in T : \A y \in T : ~ (<<y, x>> \in R)
    BY <1>2, WFMin
<1>5. ASSUME NEW y \in T PROVE x <= y
  <2>1. ~(y < x)
    BY <1>3, <1>4
  <2>2. x \in Nat /\ y \in Nat
    OBVIOUS
  <2>3. QED
    BY <2>1, <2>2
<1>6. QED
    BY <1>5

\* Induction over 0..n as a fact about sets: a set that holds 0 and, with every
\* i below n, also i + 1, holds all of 0..n.
LEMMA Reaches ==
    ASSUME NEW n \in Nat, NEW S, 0 \in S, \A i \in 0..(n - 1) : i \in S => i + 1 \in S
    PROVE  0..n \subseteq S
<1> SUFFICES ASSUME ~(0..n \subseteq S) PROVE FALSE
    OBVIOUS
<1> PICK T : T = (0..n) \ S
    OBVIOUS
<1>1. PICK m \in T : \A k \in T : m <= k
    BY LeastOf
<1>2. m \in 0..n /\ m \notin S /\ m # 0
    BY <1>1
<1>3. m - 1 \in 0..(n - 1) /\ m - 1 \notin T
    BY <1>1, <1>2
<1>4. (m - 1) + 1 \in S /\ (m - 1) + 1 = m
    BY <1>2, <1>3
<1>5. QED
    BY <1>2, <1>4

\* The same without an end.
LEMMA Climbs ==
    ASSUME NEW S, 0 \in S, \A i \in Nat : i \in S => i + 1 \in S
    PROVE  Nat \subseteq S
<1>1. ASSUME NEW n \in Nat PROVE n \in S
  <2>1. 0..n \subseteq S
    BY Reaches
  <2>2. QED
    BY <2>1
<1>2. QED
    BY <1>1

-----------------------------------------------------------------------------
(* Sums over finite sets.                                                  *)

Chosen(s) == CHOOSE x \in s : TRUE

\* iter is the fold, on the subsets of A with at most n elements.
SumUpTo(iter, f, A, n) ==
    \A s \in SUBSET A : Cardinality(s) <= n =>
        iter[s] = IF s = {} THEN 0 ELSE f[Chosen(s)] + iter[s \ {Chosen(s)}]

SumOver(iter, f, A) ==
    iter = [s \in SUBSET A |->
              IF s = {} THEN 0 ELSE f[Chosen(s)] + iter[s \ {Chosen(s)}]]

\* What is left of a set.
LEMMA OneLess ==
    ASSUME NEW A, IsFiniteSet(A), NEW s \in SUBSET A, s # {}
    PROVE  /\ Chosen(s) \in s /\ Chosen(s) \in A
           /\ s \ {Chosen(s)} \in SUBSET A
           /\ Cardinality(s) \in Nat /\ Cardinality(s \ {Chosen(s)}) = Cardinality(s) - 1
           /\ Cardinality(s \ {Chosen(s)}) \in Nat
<1>1. PICK x : x = Chosen(s)
    OBVIOUS
<1>2. x \in s
    BY <1>1 DEF Chosen
<1>3. IsFiniteSet(s) /\ Cardinality(s) \in Nat
    BY FS_Subset, FS_CardinalityType
<1>4. Cardinality(s \ {x}) = Cardinality(s) - 1 /\ IsFiniteSet(s \ {x})
    BY <1>2, <1>3, FS_RemoveElement
<1>5. Cardinality(s \ {x}) \in Nat
    BY <1>4, FS_CardinalityType
<1>6. QED
    BY <1>1, <1>2, <1>3, <1>4, <1>5

\* The fold is defined: the recursive function exists.
LEMMA SumExists ==
    ASSUME NEW A, IsFiniteSet(A), NEW f
    PROVE  \E iter : SumOver(iter, f, A)
<1>1. PICK n \in Nat : n = Cardinality(A)
    BY FS_CardinalityType
<1> DEFINE Good == {k \in Nat : \E iter : SumUpTo(iter, f, A, k)}
<1>2. 0 \in Good
  <2>1. PICK iter : iter = [s \in SUBSET A |-> 0]
    OBVIOUS
  <2>2. ASSUME NEW s \in SUBSET A, Cardinality(s) <= 0 PROVE s = {}
    <3>1. SUFFICES ASSUME s # {} PROVE FALSE
      OBVIOUS
    <3>2. Cardinality(s) \in Nat /\ Cardinality(s \ {Chosen(s)}) = Cardinality(s) - 1
      BY <3>1, OneLess
    <3>3. Cardinality(s \ {Chosen(s)}) \in Nat
      BY <3>1, OneLess
    <3>4. QED
      BY <2>2, <3>2, <3>3
  <2>3. SumUpTo(iter, f, A, 0)
    BY <2>1, <2>2 DEF SumUpTo
  <2>4. QED
    BY <2>3
<1>3. ASSUME NEW k \in 0..(n - 1), k \in Good PROVE k + 1 \in Good
  <2>1. PICK iter : SumUpTo(iter, f, A, k)
    BY <1>3
  <2>2. PICK next : next = [s \in SUBSET A |->
                              IF s = {} THEN 0 ELSE f[Chosen(s)] + iter[s \ {Chosen(s)}]]
    OBVIOUS
  <2>3. ASSUME NEW s \in SUBSET A, Cardinality(s) <= k + 1
        PROVE  next[s] = IF s = {} THEN 0 ELSE f[Chosen(s)] + next[s \ {Chosen(s)}]
    <3>1. CASE s = {}
      BY <2>2, <3>1
    <3>2. CASE s # {}
      <4>1. PICK r : r = s \ {Chosen(s)}
        OBVIOUS
      <4>2. r \in SUBSET A /\ Cardinality(r) <= k
        BY <1>3, <2>3, <3>2, <4>1, OneLess
      <4>3. iter[r] = IF r = {} THEN 0 ELSE f[Chosen(r)] + iter[r \ {Chosen(r)}]
        BY <2>1, <4>2 DEF SumUpTo
      <4>4. next[r] = iter[r]
        BY <2>2, <4>2, <4>3
      <4>5. next[s] = f[Chosen(s)] + iter[r]
        BY <2>2, <3>2, <4>1
      <4>6. QED
        BY <3>2, <4>1, <4>4, <4>5
    <3>3. QED
      BY <3>1, <3>2
  <2>4. SumUpTo(next, f, A, k + 1)
    BY <2>3 DEF SumUpTo
  <2>5. QED
    BY <1>3, <2>4
<1> HIDE DEF Good
<1>4. 0..n \subseteq Good
    BY <1>2, <1>3, Reaches
<1>5. PICK iter : SumUpTo(iter, f, A, n)
    BY <1>4 DEF Good
<1>6. \A s \in SUBSET A : Cardinality(s) <= n
    BY <1>1, FS_Subset
<1>7. PICK total : total = [s \in SUBSET A |-> iter[s]]
    OBVIOUS
<1>8. ASSUME NEW s \in SUBSET A
      PROVE  total[s] = IF s = {} THEN 0 ELSE f[Chosen(s)] + total[s \ {Chosen(s)}]
  <2>1. iter[s] = IF s = {} THEN 0 ELSE f[Chosen(s)] + iter[s \ {Chosen(s)}]
    BY <1>5, <1>6 DEF SumUpTo
  <2>2. QED
    BY <1>7, <2>1
<1>9. SumOver(total, f, A)
    BY <1>7, <1>8 DEF SumOver
<1>10. QED
    BY <1>9

\* SumFunctionOnSet is that fold over the whole set.
LEMMA SumIs ==
    ASSUME NEW A, IsFiniteSet(A), NEW f
    PROVE  \E iter : SumOver(iter, f, A) /\ SumFunctionOnSet(f, A) = iter[A]
<1>1. SumFunctionOnSet(f, A) = (CHOOSE iter : SumOver(iter, f, A))[A]
    BY DEF SumFunctionOnSet, FoldFunctionOnSet, MapThenFoldSet, SumOver, Chosen
<1>2. QED
    BY <1>1, SumExists

\* The fold, one element at a time.
LEMMA SumAt ==
    ASSUME NEW iter, NEW f, NEW A, SumOver(iter, f, A), NEW s \in SUBSET A
    PROVE  iter[s] = IF s = {} THEN 0 ELSE f[Chosen(s)] + iter[s \ {Chosen(s)}]
    BY DEF SumOver

\* Induction over the subsets of a finite set, by their number of elements: a
\* collection that has a set when it has all smaller ones has them all.
LEMMA AllSubsets ==
    ASSUME NEW A, IsFiniteSet(A), NEW G,
           \A s \in SUBSET A :
               (\A r \in SUBSET A : Cardinality(r) < Cardinality(s) => r \in G) => s \in G
    PROVE  SUBSET A \subseteq G
<1> SUFFICES ASSUME ~(SUBSET A \subseteq G) PROVE FALSE
    OBVIOUS
<1> PICK T : T = {Cardinality(s) : s \in (SUBSET A) \ G}
    OBVIOUS
<1>1. \A s \in SUBSET A : Cardinality(s) \in Nat
    BY FS_Subset, FS_CardinalityType
<1>2. T \subseteq Nat /\ T # {}
    BY <1>1
<1>3. PICK m \in T : \A k \in T : m <= k
    BY <1>2, LeastOf
<1>4. PICK s \in SUBSET A : s \notin G /\ Cardinality(s) = m
    BY <1>3
<1>5. ASSUME NEW r \in SUBSET A, Cardinality(r) < Cardinality(s) PROVE r \in G
  <2>1. SUFFICES ASSUME r \notin G PROVE FALSE
    OBVIOUS
  <2>2. Cardinality(r) \in T
    BY <2>1
  <2>3. m <= Cardinality(r) /\ m \in Nat /\ Cardinality(r) \in Nat
    BY <1>1, <1>2, <1>3, <2>2
  <2>4. QED
    BY <1>4, <1>5, <2>3
<1>6. QED
    BY <1>4, <1>5

\* The sum of a subset is the fold at that subset, whichever larger set the fold
\* was made for.
LEMMA SumOfSubset ==
    ASSUME NEW A, IsFiniteSet(A), NEW f, NEW iter, SumOver(iter, f, A), NEW B \in SUBSET A
    PROVE  SumFunctionOnSet(f, B) = iter[B]
<1>1. IsFiniteSet(B)
    BY FS_Subset
<1>2. PICK other : SumOver(other, f, B) /\ SumFunctionOnSet(f, B) = other[B]
    BY <1>1, SumIs
<1> DEFINE G == {s \in SUBSET B : other[s] = iter[s]}
<1>3. ASSUME NEW s \in SUBSET B,
             \A r \in SUBSET B : Cardinality(r) < Cardinality(s) => r \in G
      PROVE  s \in G
  <2>1. s \in SUBSET A
    OBVIOUS
  <2>2. other[s] = IF s = {} THEN 0 ELSE f[Chosen(s)] + other[s \ {Chosen(s)}]
    BY <1>2, SumAt
  <2>3. iter[s] = IF s = {} THEN 0 ELSE f[Chosen(s)] + iter[s \ {Chosen(s)}]
    BY <2>1, SumAt
  <2>4. CASE s = {}
    BY <2>2, <2>3, <2>4
  <2>5. CASE s # {}
    <3>1. PICK r : r = s \ {Chosen(s)}
      OBVIOUS
    <3>2. r \in SUBSET B /\ Cardinality(r) \in Nat /\ Cardinality(r) = Cardinality(s) - 1
          /\ Cardinality(s) \in Nat
      BY <1>1, <2>5, <3>1, OneLess
    <3>3. Cardinality(r) < Cardinality(s)
      BY <3>2
    <3>4. other[r] = iter[r]
      BY <1>3, <3>2, <3>3
    <3>5. QED
      BY <2>2, <2>3, <2>5, <3>1, <3>4
  <2>6. QED
    BY <2>4, <2>5
<1> HIDE DEF G
<1>4. SUBSET B \subseteq G
    BY <1>1, <1>3, AllSubsets
<1>5. B \in G
    BY <1>4
<1>6. QED
    BY <1>2, <1>5 DEF G

\* The sum of nothing.
LEMMA SumEmpty ==
    ASSUME NEW f
    PROVE  SumFunctionOnSet(f, {}) = 0
<1>1. IsFiniteSet({})
    BY FS_EmptySet
<1>2. PICK iter : SumOver(iter, f, {}) /\ SumFunctionOnSet(f, {}) = iter[{}]
    BY <1>1, SumIs
<1>3. QED
    BY <1>2, SumAt

\* A sum of numbers is a number.
LEMMA SumNat ==
    ASSUME NEW A, IsFiniteSet(A), NEW f, \A x \in A : f[x] \in Nat
    PROVE  SumFunctionOnSet(f, A) \in Nat
<1>2. PICK iter : SumOver(iter, f, A) /\ SumFunctionOnSet(f, A) = iter[A]
    BY SumIs
<1> DEFINE G == {s \in SUBSET A : iter[s] \in Nat}
<1>3. ASSUME NEW s \in SUBSET A,
             \A r \in SUBSET A : Cardinality(r) < Cardinality(s) => r \in G
      PROVE  s \in G
  <2>3. iter[s] = IF s = {} THEN 0 ELSE f[Chosen(s)] + iter[s \ {Chosen(s)}]
    BY <1>2, SumAt
  <2>4. CASE s = {}
    BY <2>3, <2>4
  <2>5. CASE s # {}
    <3>1. PICK r, x : r = s \ {x} /\ x = Chosen(s)
      OBVIOUS
    <3>2. r \in SUBSET A /\ Cardinality(r) \in Nat /\ Cardinality(r) = Cardinality(s) - 1
          /\ Cardinality(s) \in Nat /\ x \in A
      BY <2>5, <3>1, OneLess
    <3>3. Cardinality(r) < Cardinality(s)
      BY <3>2
    <3>4. iter[r] \in Nat /\ f[x] \in Nat
      BY <1>3, <3>2, <3>3
    <3>5. iter[s] = f[x] + iter[r]
      BY <2>3, <2>5, <3>1
    <3>6. QED
      BY <3>4, <3>5
  <2>6. QED
    BY <2>4, <2>5
<1> HIDE DEF G
<1>4. SUBSET A \subseteq G
    BY <1>3, AllSubsets
<1>5. A \in G
    BY <1>4
<1>6. QED
    BY <1>2, <1>5 DEF G

\* The order does not matter: any element may be taken first.
LEMMA SumRemove ==
    ASSUME NEW A, IsFiniteSet(A), NEW f, \A x \in A : f[x] \in Nat, NEW a \in A
    PROVE  SumFunctionOnSet(f, A) = f[a] + SumFunctionOnSet(f, A \ {a})
<1>1. PICK iter : SumOver(iter, f, A) /\ SumFunctionOnSet(f, A) = iter[A]
    BY SumIs
<1>2. \A s \in SUBSET A : SumFunctionOnSet(f, s) = iter[s] /\ iter[s] \in Nat
  <2>1. TAKE s \in SUBSET A
  <2>2. IsFiniteSet(s)
    BY FS_Subset
  <2>3. SumFunctionOnSet(f, s) = iter[s]
    BY <1>1, SumOfSubset
  <2>4. SumFunctionOnSet(f, s) \in Nat
    BY <2>2, SumNat
  <2>5. QED
    BY <2>3, <2>4
<1> DEFINE G == {s \in SUBSET A : \A x \in s : iter[s] = f[x] + iter[s \ {x}]}
<1>3. ASSUME NEW s \in SUBSET A,
             \A r \in SUBSET A : Cardinality(r) < Cardinality(s) => r \in G
      PROVE  s \in G
  <2>1. ASSUME NEW x \in s PROVE iter[s] = f[x] + iter[s \ {x}]
    <3>1. s # {}
      OBVIOUS
    <3>2. PICK r, c : r = s \ {c} /\ c = Chosen(s)
      OBVIOUS
    <3>3. /\ r \in SUBSET A /\ Cardinality(r) \in Nat /\ Cardinality(r) = Cardinality(s) - 1
          /\ Cardinality(s) \in Nat /\ c \in A /\ c \in s
      BY <3>1, <3>2, OneLess
    <3>4. iter[s] = f[c] + iter[r]
      BY <1>1, <3>1, <3>2, SumAt
    <3>5. CASE x = c
      BY <3>2, <3>4, <3>5
    <3>6. CASE x # c
      <4>1. PICK q : q = s \ {x}
        OBVIOUS
      <4>2. IsFiniteSet(s)
        BY FS_Subset
      <4>3. q \in SUBSET A /\ Cardinality(q) = Cardinality(s) - 1 /\ c \in q
        BY <3>3, <3>6, <4>1, <4>2, FS_RemoveElement
      <4>4. Cardinality(q) < Cardinality(s) /\ Cardinality(r) < Cardinality(s)
        BY <3>3, <4>3
      <4>5. q \in G /\ r \in G
        BY <1>3, <3>3, <4>3, <4>4
      <4>6. iter[q] = f[c] + iter[q \ {c}]
        BY <4>3, <4>5
      <4>7. iter[r] = f[x] + iter[r \ {x}]
        BY <3>2, <3>6, <4>5
      <4>8. q \ {c} = r \ {x}
        BY <3>2, <4>1
      <4>9. PICK p : p = r \ {x}
        OBVIOUS
      <4>10. iter[p] \in Nat /\ f[x] \in Nat /\ f[c] \in Nat
        BY <1>2, <3>3, <4>9
      <4>11. iter[q] = f[c] + iter[p] /\ iter[r] = f[x] + iter[p]
        BY <4>6, <4>7, <4>8, <4>9
      <4>12. QED
        BY <3>4, <4>1, <4>10, <4>11
    <3>7. QED
      BY <3>5, <3>6
  <2>2. QED
    BY <2>1
<1> HIDE DEF G
<1>4. SUBSET A \subseteq G
    BY <1>3, AllSubsets
<1>5. A \in G
    BY <1>4
<1>6. iter[A] = f[a] + iter[A \ {a}]
    BY <1>5 DEF G
<1>7. SumFunctionOnSet(f, A \ {a}) = iter[A \ {a}]
    BY <1>2
<1>8. QED
    BY <1>1, <1>6, <1>7

\* One more element.
LEMMA SumAdd ==
    ASSUME NEW A, IsFiniteSet(A), NEW a, a \notin A, NEW f, \A x \in A \cup {a} : f[x] \in Nat
    PROVE  SumFunctionOnSet(f, A \cup {a}) = f[a] + SumFunctionOnSet(f, A)
<1>1. PICK B : B = A \cup {a}
    OBVIOUS
<1>2. IsFiniteSet(B)
    BY <1>1, FS_AddElement
<1>3. B \ {a} = A /\ a \in B
    BY <1>1
<1>4. SumFunctionOnSet(f, B) = f[a] + SumFunctionOnSet(f, B \ {a})
    BY <1>1, <1>2, <1>3, SumRemove
<1>5. QED
    BY <1>1, <1>3, <1>4

\* A sum depends on the values in the set alone.
LEMMA SumAgree ==
    ASSUME NEW A, IsFiniteSet(A), NEW f, NEW g, \A x \in A : f[x] = g[x]
    PROVE  SumFunctionOnSet(f, A) = SumFunctionOnSet(g, A)
<1>1. PICK i1 : SumOver(i1, f, A) /\ SumFunctionOnSet(f, A) = i1[A]
    BY SumIs
<1>2. PICK i2 : SumOver(i2, g, A) /\ SumFunctionOnSet(g, A) = i2[A]
    BY SumIs
<1> DEFINE G == {s \in SUBSET A : i1[s] = i2[s]}
<1>3. ASSUME NEW s \in SUBSET A,
             \A r \in SUBSET A : Cardinality(r) < Cardinality(s) => r \in G
      PROVE  s \in G
  <2>1. i1[s] = IF s = {} THEN 0 ELSE f[Chosen(s)] + i1[s \ {Chosen(s)}]
    BY <1>1, SumAt
  <2>2. i2[s] = IF s = {} THEN 0 ELSE g[Chosen(s)] + i2[s \ {Chosen(s)}]
    BY <1>2 DEF SumOver
  <2>3. CASE s = {}
    BY <2>1, <2>2, <2>3
  <2>4. CASE s # {}
    <3>1. PICK r : r = s \ {Chosen(s)}
      OBVIOUS
    <3>2. r \in SUBSET A /\ Cardinality(r) \in Nat /\ Cardinality(r) = Cardinality(s) - 1
          /\ Cardinality(s) \in Nat /\ Chosen(s) \in A
      BY <2>4, <3>1, OneLess
    <3>3. Cardinality(r) < Cardinality(s)
      BY <3>2
    <3>4. i1[r] = i2[r] /\ f[Chosen(s)] = g[Chosen(s)]
      BY <1>3, <3>2, <3>3
    <3>5. QED
      BY <2>1, <2>2, <2>4, <3>1, <3>4
  <2>5. QED
    BY <2>3, <2>4
<1> HIDE DEF G
<1>4. SUBSET A \subseteq G
    BY <1>3, AllSubsets
<1>5. A \in G
    BY <1>4
<1>6. QED
    BY <1>1, <1>2, <1>5 DEF G

\* The parts of a sum.
LEMMA SumParts ==
    ASSUME NEW A, IsFiniteSet(A), NEW f, \A x \in A : f[x] \in Nat, NEW B \in SUBSET A
    PROVE  /\ SumFunctionOnSet(f, A) = SumFunctionOnSet(f, B) + SumFunctionOnSet(f, A \ B)
           /\ SumFunctionOnSet(f, B) \in Nat /\ SumFunctionOnSet(f, A \ B) \in Nat
<1>1. IsFiniteSet(B) /\ IsFiniteSet(A \ B)
    BY FS_Subset
<1>2. \A r \in SUBSET A : SumFunctionOnSet(f, r) \in Nat /\ IsFiniteSet(r)
  <2>1. TAKE r \in SUBSET A
  <2>2. IsFiniteSet(r)
    BY FS_Subset
  <2>3. QED
    BY <2>2, SumNat
<1> PICK Rest : Rest = A \ B
    OBVIOUS
<1> DEFINE G == {s \in SUBSET B : SumFunctionOnSet(f, s \cup Rest)
                                  = SumFunctionOnSet(f, s) + SumFunctionOnSet(f, Rest)}
<1>3. ASSUME NEW s \in SUBSET B,
             \A r \in SUBSET B : Cardinality(r) < Cardinality(s) => r \in G
      PROVE  s \in G
  <2>1. CASE s = {}
    <3>1. SumFunctionOnSet(f, s) = 0
      BY <2>1, SumEmpty
    <3>2. PICK n : n = SumFunctionOnSet(f, Rest)
      OBVIOUS
    <3>3. n \in Nat /\ SumFunctionOnSet(f, s \cup Rest) = n
      BY Zenon, <1>2, <2>1, <3>2
    <3>4. SumFunctionOnSet(f, s \cup Rest) = SumFunctionOnSet(f, s) + n
      BY <3>1, <3>3
    <3>5. QED
      BY <3>2, <3>4
  <2>2. CASE s # {}
    <3>1. PICK x, r : x = Chosen(s) /\ r = s \ {x}
      OBVIOUS
    <3>2. /\ r \in SUBSET B /\ Cardinality(r) \in Nat /\ Cardinality(r) = Cardinality(s) - 1
          /\ Cardinality(s) \in Nat /\ x \in B /\ x \in s
      BY <1>1, <2>2, <3>1, OneLess
    <3>3. Cardinality(r) < Cardinality(s)
      BY <3>2
    <3>4. r \in G
      BY ONLY <1>3, <3>2, <3>3
    <3>5. IsFiniteSet(s) /\ IsFiniteSet(s \cup Rest) /\ x \in A /\ s \cup Rest \in SUBSET A
      BY <1>2, <3>2
    <3>6. SumFunctionOnSet(f, s) = f[x] + SumFunctionOnSet(f, r)
      BY <3>1, <3>2, <3>5, SumRemove
    <3>7. (s \cup Rest) \ {x} = r \cup Rest /\ x \in s \cup Rest
      BY <3>1, <3>2
    <3>8. PICK u : u = s \cup Rest
      OBVIOUS
    <3>9. SumFunctionOnSet(f, u) = f[x] + SumFunctionOnSet(f, u \ {x})
      BY <3>5, <3>7, <3>8, SumRemove
    <3>10. SumFunctionOnSet(f, r \cup Rest) = SumFunctionOnSet(f, r) + SumFunctionOnSet(f, Rest)
      BY <3>4
    <3>11. f[x] \in Nat /\ SumFunctionOnSet(f, r) \in Nat /\ SumFunctionOnSet(f, Rest) \in Nat
      BY <1>2, <3>2, <3>5
    <3>12. SumFunctionOnSet(f, s \cup Rest) = f[x] + SumFunctionOnSet(f, r \cup Rest)
      BY <3>7, <3>8, <3>9
    <3>13. SumFunctionOnSet(f, s \cup Rest) = SumFunctionOnSet(f, s) + SumFunctionOnSet(f, Rest)
      BY <3>6, <3>10, <3>11, <3>12
    <3>14. QED
      BY <3>13
  <2>3. QED
    BY <2>1, <2>2
<1>4. B \in G
  <2> HIDE DEF G
  <2>1. SUBSET B \subseteq G
    BY <1>1, <1>3, AllSubsets
  <2>2. QED
    BY <2>1
<1>5. B \cup Rest = A
    OBVIOUS
<1>6. QED
    BY <1>2, <1>4, <1>5

\* A part is no more than the whole.
LEMMA SumSubset ==
    ASSUME NEW A, IsFiniteSet(A), NEW f, \A x \in A : f[x] \in Nat, NEW B \in SUBSET A
    PROVE  SumFunctionOnSet(f, B) <= SumFunctionOnSet(f, A)
<1>1. /\ SumFunctionOnSet(f, A) = SumFunctionOnSet(f, B) + SumFunctionOnSet(f, A \ B)
      /\ SumFunctionOnSet(f, B) \in Nat /\ SumFunctionOnSet(f, A \ B) \in Nat
    BY SumParts
<1>2. QED
    BY <1>1

\* When a single value changes, the sum changes as much.
LEMMA SumChange ==
    ASSUME NEW A, IsFiniteSet(A), NEW f, \A x \in A : f[x] \in Nat,
           NEW g, \A x \in A : g[x] \in Nat,
           NEW a \in A, \A x \in A : x # a => g[x] = f[x]
    PROVE  SumFunctionOnSet(g, A) = SumFunctionOnSet(f, A) - f[a] + g[a]
<1>1. SumFunctionOnSet(f, A) = f[a] + SumFunctionOnSet(f, A \ {a})
    BY SumRemove
<1>2. SumFunctionOnSet(g, A) = g[a] + SumFunctionOnSet(g, A \ {a})
    BY SumRemove
<1>3. IsFiniteSet(A \ {a})
    BY FS_Subset
<1>4. SumFunctionOnSet(f, A \ {a}) = SumFunctionOnSet(g, A \ {a})
    BY <1>3, SumAgree
<1>5. SumFunctionOnSet(f, A \ {a}) \in Nat
    BY <1>3, SumNat
<1>6. f[a] \in Nat /\ g[a] \in Nat
    OBVIOUS
<1>7. QED
    BY <1>1, <1>2, <1>4, <1>5, <1>6

-----------------------------------------------------------------------------
(* Sequences put together.                                                 *)

\* fl[i] is the first i sequences, one after the other.
Flattened(fl, seqs, n) ==
    fl = [i \in 1..n |-> IF i = 1 THEN seqs[i] ELSE fl[i - 1] \o seqs[i]]

\* FlattenSeq is defined: the recursive function exists.
LEMMA FlattenExists ==
    ASSUME NEW seqs, NEW n \in Nat
    PROVE  \E fl : Flattened(fl, seqs, n)
<1> DEFINE Good == {k \in Nat : \E fl : Flattened(fl, seqs, k)}
<1>1. 0 \in Good
  <2>1. PICK fl : fl = [i \in 1..0 |-> seqs[i]]
    OBVIOUS
  <2>2. Flattened(fl, seqs, 0)
    BY <2>1 DEF Flattened
  <2>3. QED
    BY <2>2
<1>2. ASSUME NEW k \in Nat, k \in Good
      PROVE  k + 1 \in Good
  <2>1. PICK f : Flattened(f, seqs, k)
    BY <1>2
  <2>2. PICK g : g = [i \in 1..(k + 1) |->
                        IF i <= k THEN f[i]
                        ELSE IF i = 1 THEN seqs[i] ELSE f[i - 1] \o seqs[i]]
    OBVIOUS
  <2>3. \A i \in 1..k : f[i] = IF i = 1 THEN seqs[i] ELSE f[i - 1] \o seqs[i]
    BY <2>1 DEF Flattened
  <2>4. \A i \in 1..(k + 1) : g[i] = IF i = 1 THEN seqs[i] ELSE f[i - 1] \o seqs[i]
    BY <2>2, <2>3
  <2>5. \A i \in 1..(k + 1) : i # 1 => g[i - 1] = f[i - 1]
    BY <2>2
  <2>6. \A i \in 1..(k + 1) : g[i] = IF i = 1 THEN seqs[i] ELSE g[i - 1] \o seqs[i]
    BY <2>4, <2>5
  <2>7. Flattened(g, seqs, k + 1)
    BY <2>2, <2>6 DEF Flattened
  <2>8. QED
    BY <2>7
<1> HIDE DEF Good
<1>3. Nat \subseteq Good
    BY <1>1, <1>2, Climbs
<1>4. QED
    BY <1>3 DEF Good

\* FlattenSeq is the last of them.
LEMMA FlattenIs ==
    ASSUME NEW seqs, Len(seqs) \in Nat, Len(seqs) # 0
    PROVE  \E fl : Flattened(fl, seqs, Len(seqs)) /\ FlattenSeq(seqs) = fl[Len(seqs)]
<1> DEFINE F == CHOOSE fl : fl = [i \in 1..Len(seqs) |->
                    IF i = 1 THEN seqs[i] ELSE fl[i - 1] \o seqs[i]]
<1>1. \E fl : Flattened(fl, seqs, Len(seqs))
    BY FlattenExists
<1>2. Flattened(F, seqs, Len(seqs))
    BY <1>1 DEF Flattened
<1>3. FlattenSeq(seqs) = F[Len(seqs)]
    BY DEF FlattenSeq
<1>4. QED
    BY <1>2, <1>3

\* Each of them is a sequence of what the given ones hold.
LEMMA FlattenedSeq ==
    ASSUME NEW S, NEW n \in Nat, NEW seqs, \A i \in 1..n : seqs[i] \in Seq(S),
           NEW fl, Flattened(fl, seqs, n)
    PROVE  \A i \in 1..n : fl[i] \in Seq(S)
<1> DEFINE Good == {k \in 0..n : k = 0 \/ fl[k] \in Seq(S)}
<1>1. 0 \in Good
    OBVIOUS
<1>2. ASSUME NEW k \in 0..(n - 1), k \in Good
      PROVE  k + 1 \in Good
  <2>1. k + 1 \in 1..n /\ (k + 1) - 1 = k
    OBVIOUS
  <2>2. fl[k + 1] = IF k + 1 = 1 THEN seqs[k + 1] ELSE fl[k] \o seqs[k + 1]
    BY <2>1 DEF Flattened
  <2>3. seqs[k + 1] \in Seq(S)
    BY <2>1
  <2>4. CASE k = 0
    BY <2>1, <2>2, <2>3, <2>4
  <2>5. CASE k # 0
    <3>1. fl[k] \in Seq(S) /\ k + 1 # 1
      BY <1>2, <2>5
    <3>2. fl[k] \o seqs[k + 1] \in Seq(S)
      <4>1. PICK u, v : u = fl[k] /\ v = seqs[k + 1]
        OBVIOUS
      <4>2. u \in Seq(S) /\ v \in Seq(S)
        BY <2>3, <3>1, <4>1
      <4>3. u \o v \in Seq(S)
        BY <4>2, ConcatProperties
      <4>4. QED
        BY <4>1, <4>3
    <3>3. fl[k + 1] \in Seq(S)
      BY <2>2, <3>1, <3>2
    <3>4. QED
      BY <2>1, <3>3
  <2>6. QED
    BY <2>4, <2>5
<1> HIDE DEF Good
<1>3. 0..n \subseteq Good
    BY <1>1, <1>2, Reaches
<1>4. ASSUME NEW i \in 1..n PROVE fl[i] \in Seq(S)
  <2>1. i \in Good /\ i # 0
    BY <1>3
  <2>2. QED
    BY <2>1 DEF Good
<1>5. QED
    BY <1>4

=============================================================================
