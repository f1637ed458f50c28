---------------------------- MODULE BatchPlans_proofs ----------------------------
(***************************************************************************)
(* What the planning stages return, whatever the requests and the budgets: *)
(* the lemmas about sums, loops over a queue and plans from which the live  *)
(* scheduler's invariants follow.                                          *)
(***************************************************************************)
EXTENDS BatchPlans, FiniteSetTheorems, SequenceTheorems, TLAPS

-----------------------------------------------------------------------------
(* Induction and recursion.  The library's induction theorems take the       *)
(* induction hypothesis as an operator; here it is a set.                    *)

LEMMA NatWellFounded == IsWellFoundedOn({ss \in Nat \X Nat : ss[1] < ss[2]}, Nat)
  BY NatLessThanWellFounded DEF OpToRel

LEMMA InductionOnNat ==
  ASSUME NEW S, 0 \in S, \A n \in Nat : n \in S => n + 1 \in S
  PROVE  Nat \subseteq S
  <1>. DEFINE R == {ss \in Nat \X Nat : ss[1] < ss[2]}
              T == Nat \ S
  <1>1. ASSUME T # {} PROVE FALSE
    <2>1. IsWellFoundedOn(R, Nat)
      BY NatWellFounded
    <2>2. PICK x \in T : \A y \in T : ~(<<y, x>> \in R)
      <3>. HIDE DEF R
      <3>. QED  BY <1>1, <2>1, WFMin
    <2>3. x - 1 \in Nat /\ <<x - 1, x>> \in R
      OBVIOUS
    <2>. QED  BY <2>2, <2>3
  <1>. QED  BY <1>1

(* A family of subsets of a finite set that has a subset whenever it has all *)
(* the smaller ones has all of them.                                         *)
LEMMA InductionOnSmaller ==
  ASSUME NEW D, IsFiniteSet(D), NEW Q,
         \A T \in SUBSET D : (\A U \in SUBSET T : U # T => U \in Q) => T \in Q
  PROVE  \A T \in SUBSET D : T \in Q
  <1>. DEFINE R == StrictSubsetOrdering(D)
              B == (SUBSET D) \ Q
  <1>1. ASSUME B # {} PROVE FALSE
    <2>1. IsWellFoundedOn(R, SUBSET D)
      <3>1. FiniteSubsetsOf(D) = SUBSET D
        BY FS_FiniteSubsetsOfFinite
      <3>2. IsWellFoundedOn(R, FiniteSubsetsOf(D))
        BY FS_StrictSubsetOrderingWellFounded
      <3>. QED  BY <3>1, <3>2
    <2>2. PICK T \in B : \A U \in B : ~(<<U, T>> \in R)
      <3>1. B \subseteq SUBSET D /\ B # {}
        BY <1>1
      <3>. HIDE DEF R, B
      <3>. QED  BY <2>1, <3>1, WFMin
    <2>3. \A U \in SUBSET T : U # T => <<U, T>> \in R
      BY DEF StrictSubsetOrdering
    <2>4. \A U \in SUBSET T : U # T => U \in Q
      <3>. SUFFICES ASSUME NEW U \in SUBSET T, U # T PROVE U \in Q
        OBVIOUS
      <3>. HIDE DEF R
      <3>. QED  BY <2>2, <2>3
    <2>. QED  BY <2>2, <2>4
  <1>. QED  BY <1>1

(* Likewise one that has the empty set and, with a subset, each of its       *)
(* extensions by one element.                                                *)
LEMMA InductionOnSubsets ==
  ASSUME NEW D, IsFiniteSet(D), NEW Q, {} \in Q,
         \A T \in SUBSET D, x \in D : T \in Q /\ x \notin T => T \cup {x} \in Q
  PROVE  \A T \in SUBSET D : T \in Q
  <1>1. ASSUME NEW T \in SUBSET D, \A U \in SUBSET T : U # T => U \in Q
        PROVE  T \in Q
    <2>1. CASE T = {}
      BY <2>1
    <2>2. ASSUME NEW x \in T PROVE T \in Q
      <3>1. T \ {x} \in Q /\ T = (T \ {x}) \cup {x}
        BY <1>1
      <3>. QED  BY <3>1
    <2>. QED  BY <2>1, <2>2
  <1>. QED  BY <1>1, InductionOnSmaller

(* A function may be defined by recursion over the subsets of a finite set:  *)
(* pick says which element a step takes out.                                 *)
UnfoldsAt(g, s, base, pick, step) ==
  g[s] = IF s = {} THEN base ELSE step[<<g[s \ {pick[s]}], pick[s]>>]

Unfolds(g, D, base, pick, step) ==
  \A s \in SUBSET D : UnfoldsAt(g, s, base, pick, step)

LEMMA RecursionOnSubsets ==
  ASSUME NEW D, IsFiniteSet(D), NEW A, NEW base \in A, NEW pick, NEW step,
         \A s \in SUBSET D : s # {} => pick[s] \in s,
         \A a \in A, x \in D : step[<<a, x>>] \in A
  PROVE  \E g \in [SUBSET D -> A] : Unfolds(g, D, base, pick, step)
  <1>. DEFINE At(g, s) == UnfoldsAt(g, s, base, pick, step)
              S == {n \in Nat : \E g \in [SUBSET D -> A] :
                       \A s \in SUBSET D : Cardinality(s) <= n => At(g, s)}
  <1>1. \A s \in SUBSET D : /\ IsFiniteSet(s) /\ Cardinality(s) \in Nat
                            /\ Cardinality(s) <= Cardinality(D)
    BY FS_Subset, FS_CardinalityType
  <1>2. 0 \in S
    <2>1. [s \in SUBSET D |-> base] \in [SUBSET D -> A]
      OBVIOUS
    <2>2. \A s \in SUBSET D : Cardinality(s) <= 0 => s = {}
      BY <1>1, FS_EmptySet
    <2>. QED  BY <2>1, <2>2 DEF UnfoldsAt
  <1>3. ASSUME NEW n \in Nat, n \in S PROVE n + 1 \in S
    <2>1. PICK g \in [SUBSET D -> A] : \A s \in SUBSET D : Cardinality(s) <= n => At(g, s)
      BY <1>3
    <2>. DEFINE h == [s \in SUBSET D |-> IF s = {} THEN base
                                         ELSE step[<<g[s \ {pick[s]}], pick[s]>>]]
    <2>2. h \in [SUBSET D -> A]
      OBVIOUS
    <2>3. ASSUME NEW s \in SUBSET D, Cardinality(s) <= n + 1 PROVE At(h, s)
      <3>1. CASE s = {}
        BY <3>1 DEF UnfoldsAt
      <3>2. CASE s # {}
        <4>1. /\ s \ {pick[s]} \in SUBSET D
              /\ Cardinality(s \ {pick[s]}) <= n
          BY <1>1, <2>3, <3>2, FS_RemoveElement
        <4>2. h[s \ {pick[s]}] = g[s \ {pick[s]}]
          BY <2>1, <4>1 DEF UnfoldsAt
        <4>. QED  BY <3>2, <4>2 DEF UnfoldsAt
      <3>. QED  BY <3>1, <3>2
    <2>. HIDE DEF h, At
    <2>4. \E f \in [SUBSET D -> A] : \A s \in SUBSET D : Cardinality(s) <= n + 1 => At(f, s)
      BY <2>2, <2>3
    <2>. QED  BY <2>4
  <1>4. Cardinality(D) \in S
    <2>1. Nat \subseteq S
      <3>. HIDE DEF S
      <3>. QED  BY <1>2, <1>3, InductionOnNat
    <2>. QED  BY <2>1, FS_CardinalityType
  <1>. QED  BY <1>1, <1>4 DEF Unfolds

(* There is one such function. *)
LEMMA RecursionIsUnique ==
  ASSUME NEW D, IsFiniteSet(D), NEW base, NEW pick, NEW step, NEW g, NEW h,
         \A s \in SUBSET D : s # {} => pick[s] \in s,
         Unfolds(g, D, base, pick, step), Unfolds(h, D, base, pick, step)
  PROVE  \A s \in SUBSET D : g[s] = h[s]
  <1>. DEFINE Q == {s \in SUBSET D : g[s] = h[s]}
  <1>1. ASSUME NEW s \in SUBSET D, \A t \in SUBSET s : t # s => t \in Q
        PROVE  s \in Q
    <2>1. CASE s = {}
      BY <2>1 DEF Unfolds, UnfoldsAt
    <2>2. CASE s # {}
      <3>1. s \ {pick[s]} \in Q
        BY <1>1, <2>2
      <3>. QED  BY <2>2, <3>1 DEF Unfolds, UnfoldsAt
    <2>. QED  BY <2>1, <2>2
  <1>2. \A s \in SUBSET D : s \in Q
    <2>. HIDE DEF Q
    <2>. QED  BY <1>1, InductionOnSmaller
  <1>. QED  BY <1>2

-----------------------------------------------------------------------------
(* Sums. *)
Chosen(D) == [s \in SUBSET D |-> CHOOSE x \in s : TRUE]
Adding(f, D) == [p \in Int \X D |-> f[p[2]] + p[1]]

LEMMA SumRecursion ==
  ASSUME NEW D, IsFiniteSet(D), NEW f, \A x \in D : f[x] \in Int
  PROVE  \E g \in [SUBSET D -> Int] :
            SumFunctionOnSet(f, D) = g[D] /\ Unfolds(g, D, 0, Chosen(D), Adding(f, D))
  <1>1. \A s \in SUBSET D : s # {} => Chosen(D)[s] \in s
    BY DEF Chosen
  <1>2. \A a \in Int, x \in D : Adding(f, D)[<<a, x>>] \in Int
    BY DEF Adding
  <1>3. PICK g \in [SUBSET D -> Int] : Unfolds(g, D, 0, Chosen(D), Adding(f, D))
    <2>. DEFINE Z == Int
    <2>1. 0 \in Z /\ \A a \in Z, x \in D : Adding(f, D)[<<a, x>>] \in Z
      BY <1>2
    <2>2. \E g \in [SUBSET D -> Z] : Unfolds(g, D, 0, Chosen(D), Adding(f, D))
      <3>. HIDE DEF Z
      <3>. QED  BY <1>1, <2>1, RecursionOnSubsets
    <2>. QED  BY <2>2
  <1>. DEFINE Body(iter) ==
                 [s \in SUBSET D |-> IF s = {} THEN 0
                     ELSE f[CHOOSE x \in s : TRUE] + iter[s \ {CHOOSE x \in s : TRUE}]]
              it == CHOOSE iter : iter = Body(iter)
  <1>4. ASSUME NEW k, NEW s \in SUBSET D, s # {}, k[s \ {Chosen(D)[s]}] \in Int
        PROVE  Adding(f, D)[<<k[s \ {Chosen(D)[s]}], Chosen(D)[s]>>] = Body(k)[s]
    BY <1>1, <1>4 DEF Adding, Chosen
  <1>5. g = Body(g)
    <2>1. ASSUME NEW s \in SUBSET D PROVE g[s] = Body(g)[s]
      <3>1. CASE s = {}
        BY <1>3, <3>1 DEF Unfolds, UnfoldsAt
      <3>2. CASE s # {}
        <4>. HIDE DEF Body
        <4>. QED  BY <1>3, <1>4, <3>2 DEF Unfolds, UnfoldsAt
      <3>. QED  BY <3>1, <3>2
    <2>2. Body(g) = [s \in SUBSET D |-> Body(g)[s]] /\ g = [s \in SUBSET D |-> g[s]]
      OBVIOUS
    <2>. HIDE DEF Body
    <2>. QED  BY <2>1, <2>2
  <1>6. it = Body(it)
    <2>. HIDE DEF Body
    <2>. QED  BY <1>5
  <1>7. SumFunctionOnSet(f, D) = it[D]
    BY DEF SumFunctionOnSet, FoldFunctionOnSet, MapThenFoldSet
  <1>8. \A s \in SUBSET D : it[s] = g[s]
    <2>. HIDE DEF it
    <2>. DEFINE Q == {s \in SUBSET D : it[s] = g[s]}
    <2>1. ASSUME NEW s \in SUBSET D, \A t \in SUBSET s : t # s => t \in Q
          PROVE  s \in Q
      <3>1. CASE s = {}
        BY <1>5, <1>6, <3>1
      <3>2. CASE s # {}
        <4>1. it[s \ {CHOOSE x \in s : TRUE}] = g[s \ {CHOOSE x \in s : TRUE}]
          BY <2>1, <3>2
        <4>2. ASSUME NEW k
              PROVE  Body(k)[s] = f[CHOOSE x \in s : TRUE] + k[s \ {CHOOSE x \in s : TRUE}]
          BY <3>2
        <4>. HIDE DEF Body
        <4>3. it[s] = Body(it)[s] /\ g[s] = Body(g)[s]
          BY <1>5, <1>6
        <4>4. it[s] = g[s]
          BY <4>1, <4>2, <4>3
        <4>. QED  BY <4>4
      <3>. QED  BY <3>1, <3>2
    <2>. HIDE DEF Q
    <2>2. \A s \in SUBSET D : s \in Q
      BY <2>1, InductionOnSmaller
    <2>. QED  BY <2>2 DEF Q
  <1>. QED  BY <1>3, <1>7, <1>8

(* All sums of a function over the subsets of a set. *)
IsSumTable(g, f, D) ==
  /\ g \in [SUBSET D -> Int]
  /\ \A s \in SUBSET D :
        /\ SumFunctionOnSet(f, s) = g[s]
        /\ s = {} => g[s] = 0
        /\ s # {} => \E x \in s : g[s] = f[x] + g[s \ {x}]

LEMMA SumTable ==
  ASSUME NEW D, IsFiniteSet(D), NEW f, \A x \in D : f[x] \in Int
  PROVE  \E g : IsSumTable(g, f, D)
  <1>1. PICK g \in [SUBSET D -> Int] : Unfolds(g, D, 0, Chosen(D), Adding(f, D))
    BY SumRecursion
  <1>2. ASSUME NEW s \in SUBSET D, s # {}
        PROVE  \E x \in s : g[s] = f[x] + g[s \ {x}]
    <2>1. Chosen(D)[s] \in s
      BY <1>2 DEF Chosen
    <2>2. g[s] = Adding(f, D)[<<g[s \ {Chosen(D)[s]}], Chosen(D)[s]>>]
      BY <1>1, <1>2 DEF Unfolds, UnfoldsAt
    <2>3. g[s] = f[Chosen(D)[s]] + g[s \ {Chosen(D)[s]}]
      BY <2>1, <2>2 DEF Adding
    <2>. QED  BY <2>1, <2>3
  <1>3. ASSUME NEW s \in SUBSET D PROVE SumFunctionOnSet(f, s) = g[s]
    <2>1. IsFiniteSet(s) /\ \A t \in SUBSET s : t # {} => Chosen(s)[t] \in t
      BY FS_Subset DEF Chosen
    <2>2. PICK h \in [SUBSET s -> Int] :
             SumFunctionOnSet(f, s) = h[s] /\ Unfolds(h, s, 0, Chosen(s), Adding(f, s))
      BY <2>1, SumRecursion
    <2>3. ASSUME NEW t \in SUBSET s PROVE UnfoldsAt(g, t, 0, Chosen(s), Adding(f, s))
      <3>1. t \in SUBSET D /\ Chosen(s)[t] = Chosen(D)[t]
        BY DEF Chosen
      <3>2. UnfoldsAt(g, t, 0, Chosen(D), Adding(f, D))
        BY <1>1, <3>1 DEF Unfolds
      <3>3. CASE t = {}
        BY <3>2, <3>3 DEF UnfoldsAt
      <3>4. CASE t # {}
        <4>1. Chosen(D)[t] \in t /\ g[t \ {Chosen(D)[t]}] \in Int
          BY <3>1, <3>4, <2>1
        <4>2. Adding(f, D)[<<g[t \ {Chosen(D)[t]}], Chosen(D)[t]>>]
                = Adding(f, s)[<<g[t \ {Chosen(D)[t]}], Chosen(D)[t]>>]
          BY <4>1 DEF Adding
        <4>. QED  BY <3>1, <3>2, <3>4, <4>2 DEF UnfoldsAt
      <3>. QED  BY <3>3, <3>4
    <2>4. Unfolds(g, s, 0, Chosen(s), Adding(f, s))
      BY <2>3 DEF Unfolds
    <2>. QED  BY <2>1, <2>2, <2>4, RecursionIsUnique
  <1>4. g[{}] = 0
    BY <1>1 DEF Unfolds, UnfoldsAt
  <1>5. IsSumTable(g, f, D)
    BY <1>2, <1>3, <1>4 DEF IsSumTable
  <1>. QED  BY <1>5

(* A sum is a number, and any element may be taken out of it first. *)
LEMMA SumOfNone == ASSUME NEW f PROVE SumFunctionOnSet(f, {}) = 0
  <1>1. PICK g : IsSumTable(g, f, {})
    BY SumTable, FS_EmptySet
  <1>. QED  BY <1>1 DEF IsSumTable

LEMMA SumType ==
  ASSUME NEW D, IsFiniteSet(D), NEW f, \A x \in D : f[x] \in Int
  PROVE  SumFunctionOnSet(f, D) \in Int
  <1>1. PICK g : IsSumTable(g, f, D)
    BY SumTable
  <1>. QED  BY <1>1 DEF IsSumTable

LEMMA SumRemove ==
  ASSUME NEW D, IsFiniteSet(D), NEW f, \A x \in D : f[x] \in Int, NEW x \in D
  PROVE  SumFunctionOnSet(f, D) = f[x] + SumFunctionOnSet(f, D \ {x})
  <1>1. PICK g : IsSumTable(g, f, D)
    BY SumTable
  <1>. DEFINE Q == {s \in SUBSET D : \A z \in s : g[s] = f[z] + g[s \ {z}]}
  <1>2. ASSUME NEW s \in SUBSET D, \A t \in SUBSET s : t # s => t \in Q
        PROVE  s \in Q
    <2>1. SUFFICES ASSUME NEW z \in s PROVE g[s] = f[z] + g[s \ {z}]
      OBVIOUS
    <2>2. PICK y \in s : g[s] = f[y] + g[s \ {y}]
      BY <1>1 DEF IsSumTable
    <2>3. CASE y = z
      BY <2>2, <2>3
    <2>4. CASE y # z
      <3>1. s \ {y} \in Q /\ s \ {z} \in Q
        BY <1>2
      <3>2. (s \ {y}) \ {z} = (s \ {z}) \ {y}
        OBVIOUS
      <3>. DEFINE c == g[(s \ {z}) \ {y}]
      <3>3. g[s \ {y}] = f[z] + c /\ g[s \ {z}] = f[y] + c
        BY <2>4, <3>1, <3>2
      <3>4. /\ f[y] \in Int /\ f[z] \in Int /\ c \in Int
        BY <1>1 DEF IsSumTable
      <3>. HIDE DEF c
      <3>. QED  BY <2>2, <3>3, <3>4
    <2>. QED  BY <2>3, <2>4
  <1>3. \A s \in SUBSET D : s \in Q
    <2>. HIDE DEF Q
    <2>. QED  BY <1>2, InductionOnSmaller
  <1>4. D \in Q
    BY <1>3
  <1>. QED  BY <1>1, <1>4 DEF IsSumTable

LEMMA SumAdd ==
  ASSUME NEW D, IsFiniteSet(D), NEW f, NEW x, x \notin D, \A y \in D \cup {x} : f[y] \in Int
  PROVE  SumFunctionOnSet(f, D \cup {x}) = f[x] + SumFunctionOnSet(f, D)
  <1>1. IsFiniteSet(D \cup {x}) /\ (D \cup {x}) \ {x} = D
    BY FS_AddElement
  <1>. QED  BY <1>1, SumRemove

(* The sum of two functions is the sum of their sums. *)
LEMMA SumPlus ==
  ASSUME NEW D, IsFiniteSet(D), NEW f, NEW g, NEW h,
         \A x \in D : f[x] \in Int /\ g[x] \in Int /\ h[x] = f[x] + g[x]
  PROVE  SumFunctionOnSet(h, D) = SumFunctionOnSet(f, D) + SumFunctionOnSet(g, D)
  <1>. DEFINE Q == {s \in SUBSET D :
                      SumFunctionOnSet(h, s) = SumFunctionOnSet(f, s) + SumFunctionOnSet(g, s)}
  <1>1. {} \in Q
    BY SumOfNone
  <1>2. ASSUME NEW s \in SUBSET D, NEW x \in D, s \in Q, x \notin s
        PROVE  s \cup {x} \in Q
    <2>1. /\ IsFiniteSet(s)
          /\ \A y \in s \cup {x} : f[y] \in Int /\ g[y] \in Int /\ h[y] \in Int
      BY FS_Subset
    <2>2. /\ SumFunctionOnSet(f, s \cup {x}) = f[x] + SumFunctionOnSet(f, s)
          /\ SumFunctionOnSet(g, s \cup {x}) = g[x] + SumFunctionOnSet(g, s)
          /\ SumFunctionOnSet(h, s \cup {x}) = h[x] + SumFunctionOnSet(h, s)
      BY <1>2, <2>1, SumAdd
    <2>3. SumFunctionOnSet(f, s) \in Int /\ SumFunctionOnSet(g, s) \in Int
      BY <2>1, SumType
    <2>. QED  BY <1>2, <2>2, <2>3
  <1>3. \A s \in SUBSET D : s \in Q
    <2>. HIDE DEF Q
    <2>. QED  BY <1>1, <1>2, InductionOnSubsets
  <1>4. D \in Q
    BY <1>3
  <1>. QED  BY <1>4

(* What is zero does not count. *)
LEMMA SumZeros ==
  ASSUME NEW D, IsFiniteSet(D), NEW f, \A x \in D : f[x] \in Int,
         NEW S \in SUBSET D, \A x \in D \ S : f[x] = 0
  PROVE  SumFunctionOnSet(f, D) = SumFunctionOnSet(f, S)
  <1>. DEFINE Q == {t \in SUBSET (D \ S) :
                      SumFunctionOnSet(f, S \cup t) = SumFunctionOnSet(f, S)}
  <1>1. {} \in Q
    <2>1. S \cup {} = S
      OBVIOUS
    <2>. QED  BY <2>1
  <1>2. ASSUME NEW t \in SUBSET (D \ S), NEW x \in D \ S, t \in Q, x \notin t
        PROVE  t \cup {x} \in Q
    <2>1. IsFiniteSet(S \cup t) /\ x \notin S \cup t
      BY <1>2, FS_Subset
    <2>2. SumFunctionOnSet(f, (S \cup t) \cup {x}) = f[x] + SumFunctionOnSet(f, S \cup t)
      BY <2>1, SumAdd
    <2>3. SumFunctionOnSet(f, S \cup t) \in Int
      BY <2>1, SumType
    <2>4. (S \cup t) \cup {x} = S \cup (t \cup {x})
      OBVIOUS
    <2>5. SumFunctionOnSet(f, (S \cup t) \cup {x}) = SumFunctionOnSet(f, S \cup t)
      BY <2>2, <2>3
    <2>6. SumFunctionOnSet(f, S \cup (t \cup {x})) = SumFunctionOnSet(f, S \cup t)
      BY <2>4, <2>5, Zenon
    <2>. QED  BY <1>2, <2>6
  <1>3. \A t \in SUBSET (D \ S) : t \in Q
    <2>. DEFINE C == D \ S
    <2>1. IsFiniteSet(C)
      BY FS_Subset
    <2>2. \A t \in SUBSET C, x \in C : t \in Q /\ x \notin t => t \cup {x} \in Q
      BY <1>2
    <2>3. \A t \in SUBSET C : t \in Q
      <3>. HIDE DEF Q, C
      <3>. QED  BY <1>1, <2>1, <2>2, InductionOnSubsets
    <2>. QED  BY <2>3
  <1>4. D \ S \in Q /\ S \cup (D \ S) = D
    BY <1>3
  <1>. QED  BY <1>4

LEMMA SumEqual ==
  ASSUME NEW D, IsFiniteSet(D), NEW f, NEW g, \A x \in D : f[x] \in Int /\ g[x] = f[x]
  PROVE  SumFunctionOnSet(g, D) = SumFunctionOnSet(f, D)
  <1>. DEFINE z == [x \in D |-> 0]
  <1>1. SumFunctionOnSet(z, D) = SumFunctionOnSet(z, {})
    BY SumZeros
  <1>2. SumFunctionOnSet(g, D) = SumFunctionOnSet(f, D) + SumFunctionOnSet(z, D)
    <2>1. \A x \in D : f[x] \in Int /\ z[x] \in Int /\ g[x] = f[x] + z[x]
      OBVIOUS
    <2>. HIDE DEF z
    <2>. QED  BY <2>1, SumPlus
  <1>. QED  BY <1>1, <1>2, SumOfNone, SumType

LEMMA SumNat ==
  ASSUME NEW D, IsFiniteSet(D), NEW f, \A x \in D : f[x] \in Nat
  PROVE  SumFunctionOnSet(f, D) \in Nat
  <1>. DEFINE Q == {s \in SUBSET D : SumFunctionOnSet(f, s) \in Nat}
  <1>1. {} \in Q
    BY SumOfNone
  <1>2. ASSUME NEW s \in SUBSET D, NEW x \in D, s \in Q, x \notin s
        PROVE  s \cup {x} \in Q
    <2>1. IsFiniteSet(s) /\ \A y \in s \cup {x} : f[y] \in Int
      BY FS_Subset
    <2>2. SumFunctionOnSet(f, s \cup {x}) = f[x] + SumFunctionOnSet(f, s)
      BY <1>2, <2>1, SumAdd
    <2>. QED  BY <1>2, <2>2
  <1>3. \A s \in SUBSET D : s \in Q
    <2>. HIDE DEF Q
    <2>. QED  BY <1>1, <1>2, InductionOnSubsets
  <1>4. D \in Q
    BY <1>3
  <1>. QED  BY <1>4

LEMMA SumMonotone ==
  ASSUME NEW D, IsFiniteSet(D), NEW f, NEW g,
         \A x \in D : f[x] \in Int /\ g[x] \in Int /\ f[x] <= g[x]
  PROVE  SumFunctionOnSet(f, D) <= SumFunctionOnSet(g, D)
  <1>. DEFINE d == [x \in D |-> g[x] - f[x]]
  <1>1. \A x \in D : d[x] \in Nat /\ d[x] \in Int /\ g[x] = f[x] + d[x]
    OBVIOUS
  <1>. HIDE DEF d
  <1>2. SumFunctionOnSet(g, D) = SumFunctionOnSet(f, D) + SumFunctionOnSet(d, D)
    BY <1>1, SumPlus
  <1>3. SumFunctionOnSet(d, D) \in Nat /\ SumFunctionOnSet(f, D) \in Int
    BY <1>1, SumNat, SumType
  <1>. QED  BY <1>2, <1>3

LEMMA SumAtLeastElement ==
  ASSUME NEW D, IsFiniteSet(D), NEW f, \A x \in D : f[x] \in Nat, NEW x \in D
  PROVE  f[x] <= SumFunctionOnSet(f, D)
  <1>1. IsFiniteSet(D \ {x})
    BY FS_RemoveElement
  <1>2. SumFunctionOnSet(f, D) = f[x] + SumFunctionOnSet(f, D \ {x})
    BY SumRemove
  <1>3. SumFunctionOnSet(f, D \ {x}) \in Nat
    BY <1>1, SumNat
  <1>. QED  BY <1>2, <1>3

-----------------------------------------------------------------------------
(* Loops.  A fold over a sequence takes the largest index off first; its     *)
(* values over the intervals 1..i are those of the loop after i turns.       *)

LEMMA MaxOfIndices ==
  ASSUME NEW n \in Nat, NEW s \in SUBSET (0..n), s # {}
  PROVE  Max(s) \in s /\ \A x \in s : x <= Max(s)
  <1>. DEFINE S == {k \in Nat : \A t \in SUBSET (0..k) :
                      t # {} => \E m \in t : \A x \in t : m >= x}
  <1>1. 0 \in S
    <2>1. ASSUME NEW t \in SUBSET (0..0), NEW m \in t PROVE \A x \in t : m >= x
      <3>1. \A x \in t : x = 0
        OBVIOUS
      <3>. QED  BY <3>1
    <2>. QED  BY <2>1
  <1>2. ASSUME NEW k \in Nat, k \in S PROVE k + 1 \in S
    <2>1. ASSUME NEW t \in SUBSET (0..(k + 1)), t # {}
          PROVE  \E m \in t : \A x \in t : m >= x
      <3>1. CASE k + 1 \in t
        BY <3>1
      <3>2. CASE k + 1 \notin t
        <4>1. t \in SUBSET (0..k)
          BY <3>2
        <4>. QED  BY <1>2, <2>1, <4>1
      <3>. QED  BY <3>1, <3>2
    <2>. QED  BY <2>1
  <1>3. n \in S
    <2>1. Nat \subseteq S
      <3>. HIDE DEF S
      <3>. QED  BY <1>1, <1>2, InductionOnNat
    <2>. QED  BY <2>1
  <1>4. PICK m \in s : \A x \in s : m >= x
    BY <1>3
  <1>. QED  BY <1>4 DEF Max

LEMMA Intervals ==
  ASSUME NEW n \in Nat
  PROVE  /\ 1..0 = {} /\ IsFiniteSet(1..n)
         /\ \A s \in SUBSET (1..n) : s # {} => Max(s) \in s
         /\ \A i \in 1..n : /\ 1..i \in SUBSET (1..n) /\ 1..i # {}
                            /\ Max(1..i) = i /\ (1..i) \ {i} = 1..(i - 1)
  <1>1. \A s \in SUBSET (1..n) : s # {} => Max(s) \in s /\ \A x \in s : x <= Max(s)
    <2>1. \A s \in SUBSET (1..n) : s \in SUBSET (0..n)
      OBVIOUS
    <2>. QED  BY <2>1, MaxOfIndices
  <1>2. ASSUME NEW i \in 1..n
        PROVE  /\ 1..i \in SUBSET (1..n) /\ 1..i # {}
               /\ Max(1..i) = i /\ (1..i) \ {i} = 1..(i - 1)
    <2>1. 1..i \in SUBSET (1..n) /\ 1..i # {} /\ i \in 1..i
      OBVIOUS
    <2>2. Max(1..i) \in 1..i /\ i <= Max(1..i)
      BY <1>1, <2>1
    <2>3. (1..i) \ {i} = 1..(i - 1)
      OBVIOUS
    <2>. QED  BY <2>1, <2>2, <2>3
  <1>3. 1..0 = {} /\ IsFiniteSet(1..n)
    BY FS_Interval
  <1>4. \A s \in SUBSET (1..n) : s # {} => Max(s) \in s
    BY <1>1
  <1>. QED  BY <1>2, <1>3, <1>4

Largest(n) == [s \in SUBSET (1..n) |-> Max(s)]

LEMMA LoopExists ==
  ASSUME NEW n \in Nat, NEW A, NEW base \in A, NEW step,
         \A a \in A, i \in 1..n : step[<<a, i>>] \in A
  PROVE  \E g \in [SUBSET (1..n) -> A] : Unfolds(g, 1..n, base, Largest(n), step)
  <1>1. \A s \in SUBSET (1..n) : s # {} => Largest(n)[s] \in s
    BY Intervals DEF Largest
  <1>. DEFINE D == 1..n
  <1>2. IsFiniteSet(D) /\ \A a \in A, i \in D : step[<<a, i>>] \in A
    BY Intervals
  <1>3. \A s \in SUBSET D : s # {} => Largest(n)[s] \in s
    BY <1>1
  <1>4. \E g \in [SUBSET D -> A] : Unfolds(g, D, base, Largest(n), step)
    <2>. HIDE DEF D
    <2>. QED  BY <1>2, <1>3, RecursionOnSubsets
  <1>. QED  BY <1>4

(* Keep, turn by turn. *)
KeepTurn(kept, r, S) == IF r \in S THEN Append(kept, r) ELSE kept

LEMMA KeepTrace ==
  ASSUME NEW R, NEW queue \in Seq(R), NEW S
  PROVE  \E t : /\ t[0] = <<>> /\ t[Len(queue)] = Keep(queue, S)
                /\ \A i \in 1..Len(queue) : t[i] = KeepTurn(t[i - 1], queue[i], S)
  <1>. DEFINE n == Len(queue)
              A == Seq(R)
              step == [p \in A \X (1..n) |-> KeepTurn(p[1], queue[p[2]], S)]
              Body(iter) == [s \in SUBSET (1..n) |->
                               IF s = {} THEN <<>>
                               ELSE KeepTurn(iter[s \ {Max(s)}], queue[Max(s)], S)]
              it == CHOOSE iter : iter = Body(iter)
  <1>1. n \in Nat /\ DOMAIN queue = 1..n /\ <<>> \in A
    OBVIOUS
  <1>2. \A a \in A, i \in 1..n : step[<<a, i>>] = KeepTurn(a, queue[i], S) /\ step[<<a, i>>] \in A
    BY DEF KeepTurn
  <1>3. PICK g \in [SUBSET (1..n) -> A] : Unfolds(g, 1..n, <<>>, Largest(n), step)
    <2>. HIDE DEF n, A, step
    <2>. QED  BY <1>1, <1>2, LoopExists
  <1>4. g = Body(g)
    <2>1. ASSUME NEW s \in SUBSET (1..n) PROVE g[s] = Body(g)[s]
      <3>1. Largest(n)[s] = Max(s) /\ (s # {} => Max(s) \in s)
        BY <1>1, Intervals DEF Largest
      <3>. HIDE DEF step, A, n
      <3>. QED  BY <1>2, <1>3, <3>1 DEF Unfolds, UnfoldsAt
    <2>2. Body(g) = [s \in SUBSET (1..n) |-> Body(g)[s]] /\ g = [s \in SUBSET (1..n) |-> g[s]]
      OBVIOUS
    <2>. HIDE DEF Body
    <2>. QED  BY <2>1, <2>2
  <1>5. it = Body(it)
    <2>. HIDE DEF Body
    <2>. QED  BY <1>4
  <1>6. Keep(queue, S) = it[1..n]
    BY <1>1 DEF Keep, KeepTurn, FoldLeft, MapThenFoldSet
  <1>. DEFINE t == [i \in 0..n |-> it[1..i]]
  <1>7. /\ t[0] = <<>> /\ t[n] = it[1..n]
        /\ \A i \in 1..n : t[i] = KeepTurn(t[i - 1], queue[i], S)
    <2>. HIDE DEF it, n
    <2>1. t[0] = <<>>
      <3>1. t[0] = it[{}]
        BY <1>1, Intervals
      <3>. QED  BY <1>5, <3>1
    <2>2. ASSUME NEW i \in 1..n PROVE t[i] = KeepTurn(t[i - 1], queue[i], S)
      <3>1. t[i] = it[1..i] /\ t[i - 1] = it[1..(i - 1)]
        BY <1>1
      <3>2. /\ 1..i \in SUBSET (1..n) /\ 1..i # {}
            /\ Max(1..i) = i /\ (1..i) \ {i} = 1..(i - 1)
        BY <1>1, Intervals
      <3>3. it[1..i] = KeepTurn(it[(1..i) \ {Max(1..i)}], queue[Max(1..i)], S)
        BY <1>5, <3>2
      <3>. HIDE DEF t
      <3>. QED  BY <3>1, <3>2, <3>3
    <2>3. t[n] = it[1..n]
      BY <1>1
    <2>. QED  BY <2>1, <2>2, <2>3
  <1>. QED  BY <1>6, <1>7

LEMMA AppendFacts ==
  ASSUME NEW R, NEW q \in Seq(R), NEW r \in R
  PROVE  /\ Append(q, r) \in Seq(R)
         /\ ToSet(Append(q, r)) = ToSet(q) \cup {r}
         /\ IsInjective(q) /\ r \notin ToSet(q) => IsInjective(Append(q, r))
  <1>1. /\ Append(q, r) \in Seq(R) /\ Len(Append(q, r)) = Len(q) + 1
        /\ \A i \in 1..Len(q) : Append(q, r)[i] = q[i]
        /\ Append(q, r)[Len(q) + 1] = r
    BY AppendProperties
  <1>2. /\ DOMAIN q = 1..Len(q) /\ Len(q) \in Nat
        /\ DOMAIN Append(q, r) = 1..(Len(q) + 1)
    BY <1>1
  <1>3. ToSet(Append(q, r)) = ToSet(q) \cup {r}
    BY <1>1, <1>2 DEF ToSet
  <1>4. ASSUME IsInjective(q), r \notin ToSet(q) PROVE IsInjective(Append(q, r))
    BY <1>1, <1>2, <1>4 DEF ToSet, IsInjective
  <1>. QED  BY <1>1, <1>3, <1>4

LEMMA ConcatFacts ==
  ASSUME NEW R, NEW q \in Seq(R), NEW p \in Seq(R)
  PROVE  /\ q \o p \in Seq(R)
         /\ ToSet(q \o p) = ToSet(q) \cup ToSet(p)
         /\ IsInjective(q) /\ IsInjective(p) /\ ToSet(q) \cap ToSet(p) = {}
               => IsInjective(q \o p)
         /\ IsInjective(q \o p)
               => IsInjective(q) /\ IsInjective(p) /\ ToSet(q) \cap ToSet(p) = {}
  <1>. DEFINE c == q \o p
  <1>1. /\ c \in Seq(R) /\ Len(c) = Len(q) + Len(p)
        /\ \A i \in 1..(Len(q) + Len(p)) : c[i] = IF i <= Len(q) THEN q[i] ELSE p[i - Len(q)]
    BY ConcatProperties
  <1>2. /\ DOMAIN q = 1..Len(q) /\ Len(q) \in Nat /\ DOMAIN p = 1..Len(p) /\ Len(p) \in Nat
        /\ DOMAIN c = 1..(Len(q) + Len(p))
    BY <1>1
  <1>. HIDE DEF c
  <1>3. /\ \A i \in 1..Len(q) : i \in DOMAIN c /\ c[i] = q[i]
        /\ \A i \in 1..Len(p) : Len(q) + i \in DOMAIN c /\ c[Len(q) + i] = p[i]
    <2>1. ASSUME NEW i \in 1..Len(p) PROVE Len(q) + i \in DOMAIN c /\ c[Len(q) + i] = p[i]
      <3>1. /\ Len(q) + i \in 1..(Len(q) + Len(p)) /\ ~(Len(q) + i <= Len(q))
            /\ (Len(q) + i) - Len(q) = i
        BY <1>2
      <3>2. c[Len(q) + i] = p[(Len(q) + i) - Len(q)]
        BY <1>1, <3>1
      <3>. QED  BY <1>2, <3>1, <3>2
    <2>2. ASSUME NEW i \in 1..Len(q) PROVE i \in DOMAIN c /\ c[i] = q[i]
      BY <1>1, <1>2
    <2>. QED  BY <2>1, <2>2
  <1>4. ToSet(c) = ToSet(q) \cup ToSet(p)
    <2>1. ToSet(c) \subseteq ToSet(q) \cup ToSet(p)
      <3>1. ASSUME NEW i \in DOMAIN c PROVE c[i] \in ToSet(q) \cup ToSet(p)
        <4>1. CASE i <= Len(q)
          BY <1>1, <1>2, <4>1 DEF ToSet
        <4>2. CASE ~(i <= Len(q))
          <5>1. i - Len(q) \in DOMAIN p /\ c[i] = p[i - Len(q)]
            BY <1>1, <1>2, <4>2
          <5>. QED  BY <5>1 DEF ToSet
        <4>. QED  BY <4>1, <4>2
      <3>. QED  BY <3>1 DEF ToSet
    <2>2. ToSet(q) \subseteq ToSet(c) /\ ToSet(p) \subseteq ToSet(c)
      BY <1>2, <1>3 DEF ToSet
    <2>. QED  BY <2>1, <2>2
  <1>5. ASSUME IsInjective(q), IsInjective(p), ToSet(q) \cap ToSet(p) = {}
        PROVE  IsInjective(c)
    <2>1. ASSUME NEW i \in DOMAIN c, NEW k \in DOMAIN c, c[i] = c[k] PROVE i = k
      <3>1. \A j \in DOMAIN c :
               \/ j \in DOMAIN q /\ c[j] = q[j]
               \/ j - Len(q) \in DOMAIN p /\ c[j] = p[j - Len(q)]
        BY <1>1, <1>2
      <3>2. \A a \in DOMAIN q, b \in DOMAIN p : q[a] # p[b]
        BY <1>5 DEF ToSet
      <3>. QED  BY <1>2, <1>5, <2>1, <3>1, <3>2 DEF IsInjective
    <2>. QED  BY <2>1 DEF IsInjective
  <1>6. ASSUME IsInjective(c)
        PROVE  IsInjective(q) /\ IsInjective(p) /\ ToSet(q) \cap ToSet(p) = {}
    <2>1. IsInjective(q)
      BY <1>2, <1>3, <1>6 DEF IsInjective
    <2>2. IsInjective(p)
      <3>1. ASSUME NEW i \in DOMAIN p, NEW k \in DOMAIN p, p[i] = p[k] PROVE i = k
        <4>1. Len(q) + i = Len(q) + k
          BY <1>2, <1>3, <1>6, <3>1 DEF IsInjective
        <4>. QED  BY <1>2, <4>1
      <3>. QED  BY <3>1 DEF IsInjective
    <2>3. ASSUME NEW i \in DOMAIN q, NEW k \in DOMAIN p, q[i] = p[k] PROVE FALSE
      <3>1. i = Len(q) + k
        BY <1>2, <1>3, <1>6, <2>3 DEF IsInjective
      <3>. QED  BY <1>2, <3>1
    <2>. QED  BY <2>1, <2>2, <2>3 DEF ToSet
  <1>. QED  BY <1>1, <1>4, <1>5, <1>6 DEF c

(* Keep keeps exactly the members of the set, each as often as the queue     *)
(* holds it.                                                                 *)
LEMMA KeepFacts ==
  ASSUME NEW R, NEW queue \in Seq(R), NEW S
  PROVE  /\ Keep(queue, S) \in Seq(R)
         /\ ToSet(Keep(queue, S)) = ToSet(queue) \cap S
         /\ IsInjective(queue) => IsInjective(Keep(queue, S))
  <1>. DEFINE n == Len(queue)
              First(i) == {queue[j] : j \in 1..i}
              OK(q, i) == /\ q \in Seq(R) /\ ToSet(q) = First(i) \cap S
                          /\ IsInjective(queue) => IsInjective(q)
  <1>1. n \in Nat /\ DOMAIN queue = 1..n /\ \A i \in 1..n : queue[i] \in R
    OBVIOUS
  <1>2. PICK t : /\ t[0] = <<>> /\ t[n] = Keep(queue, S)
                 /\ \A i \in 1..n : t[i] = KeepTurn(t[i - 1], queue[i], S)
    BY KeepTrace
  <1>. DEFINE T == {i \in Nat : i <= n => OK(t[i], i)}
  <1>3. 0 \in T
    <2>1. ToSet(<<>>) = {} /\ First(0) = {} /\ IsInjective(<<>>) /\ <<>> \in Seq(R)
      BY DEF ToSet, IsInjective
    <2>. QED  BY <1>2, <2>1
  <1>4. ASSUME NEW i \in Nat, i \in T PROVE i + 1 \in T
    <2>1. SUFFICES ASSUME i + 1 <= n PROVE OK(t[i + 1], i + 1)
      OBVIOUS
    <2>2. OK(t[i], i) /\ i + 1 \in 1..n /\ t[i + 1] = KeepTurn(t[i], queue[i + 1], S)
      BY <1>1, <1>2, <1>4, <2>1
    <2>3. First(i + 1) = First(i) \cup {queue[i + 1]}
      <3>1. 1..(i + 1) = (1..i) \cup {i + 1}
        OBVIOUS
      <3>. QED  BY <3>1
    <2>4. IsInjective(queue) => queue[i + 1] \notin First(i)
      BY <1>1, <2>2 DEF IsInjective
    <2>5. CASE queue[i + 1] \in S
      <3>1. t[i + 1] = Append(t[i], queue[i + 1])
        BY <2>2, <2>5 DEF KeepTurn
      <3>2. IsInjective(queue) => queue[i + 1] \notin ToSet(t[i])
        BY <2>2, <2>4
      <3>3. /\ t[i + 1] \in Seq(R)
            /\ ToSet(t[i + 1]) = ToSet(t[i]) \cup {queue[i + 1]}
            /\ IsInjective(queue) => IsInjective(t[i + 1])
        BY <1>1, <2>2, <3>1, <3>2, AppendFacts
      <3>. QED  BY <2>2, <2>3, <2>5, <3>3
    <2>6. CASE queue[i + 1] \notin S
      BY <2>2, <2>3, <2>6 DEF KeepTurn
    <2>. QED  BY <2>5, <2>6
  <1>5. n \in T
    <2>1. Nat \subseteq T
      <3>. HIDE DEF T
      <3>. QED  BY <1>3, <1>4, InductionOnNat
    <2>. QED  BY <1>1, <2>1
  <1>6. First(n) = ToSet(queue)
    BY <1>1 DEF ToSet
  <1>. QED  BY <1>1, <1>2, <1>5, <1>6

(* A queue without repetition has as many members as places. *)
LEMMA InjectiveLength ==
  ASSUME NEW R, NEW queue \in Seq(R), IsInjective(queue)
  PROVE  IsFiniteSet(ToSet(queue)) /\ Cardinality(ToSet(queue)) = Len(queue)
  <1>1. queue \in Bijection(1..Len(queue), ToSet(queue))
    <2>1. queue \in [1..Len(queue) -> ToSet(queue)]
      BY DEF ToSet
    <2>. QED  BY <2>1 DEF Bijection, Injection, Surjection, ToSet
  <1>2. IsFiniteSet(1..Len(queue)) /\ Cardinality(1..Len(queue)) = Len(queue)
    <2>1. Len(queue) \in Nat
      OBVIOUS
    <2>. QED  BY <2>1, FS_Interval
  <1>3. ExistsBijection(1..Len(queue), ToSet(queue))
    BY <1>1 DEF ExistsBijection
  <1>. QED  BY <1>2, <1>3, FS_Bijection

-----------------------------------------------------------------------------
(* The ranking of a queue is that queue in another order: the number of      *)
(* requests before a request tells requests apart.                           *)

LEMMA PositionFacts ==
  ASSUME NEW queue \in Seq(Requests), NEW r \in ToSet(queue)
  PROVE  Position(queue, r) \in 1..Len(queue) /\ queue[Position(queue, r)] = r
  <1>1. \E i \in DOMAIN queue : queue[i] = r
    BY DEF ToSet
  <1>2. DOMAIN queue = 1..Len(queue)
    OBVIOUS
  <1>. QED  BY <1>1, <1>2 DEF Position

LEMMA BeforeFacts ==
  ASSUME NEW queue \in Seq(Requests), NEW key, \A r \in ToSet(queue) : key[r] \in Int,
         NEW x \in ToSet(queue), NEW y \in ToSet(queue)
  PROVE  /\ Before(queue, key, x) \subseteq ToSet(queue) \ {x}
         /\ x \in Before(queue, key, y) => Before(queue, key, x) \subseteq Before(queue, key, y)
         /\ x # y => x \in Before(queue, key, y) \/ y \in Before(queue, key, x)
  <1>1. ToSet(queue) \subseteq Requests
    BY DEF ToSet
  <1>2. \A z \in ToSet(queue) : /\ Arrival[z] \in Nat /\ Position(queue, z) \in Nat
                                /\ queue[Position(queue, z)] = z
    BY <1>1, PositionFacts, BatchAssumption
  <1>. QED  BY <1>2 DEF Before

LEMMA InOrderFacts ==
  ASSUME NEW queue \in Seq(Requests), IsInjective(queue),
         NEW key, \A r \in ToSet(queue) : key[r] \in Int
  PROVE  /\ InOrder(queue, key) \in Seq(Requests) /\ IsInjective(InOrder(queue, key))
         /\ ToSet(InOrder(queue, key)) = ToSet(queue)
         /\ \A i, k \in 1..Len(queue) :
               i < k => InOrder(queue, key)[k] \notin Before(queue, key, InOrder(queue, key)[i])
  <1>. DEFINE n == Len(queue)
              S == ToSet(queue)
              count == [r \in S |-> Cardinality(Before(queue, key, r))]
  <1>1. n \in Nat /\ DOMAIN queue = 1..n /\ S \subseteq Requests
    BY DEF ToSet
  <1>2. IsFiniteSet(S) /\ Cardinality(S) = n
    BY InjectiveLength
  <1>3. ASSUME NEW r \in S
        PROVE  IsFiniteSet(Before(queue, key, r)) /\ count[r] \in 0..(n - 1)
    <2>1. Before(queue, key, r) \subseteq S \ {r}
      BY BeforeFacts
    <2>2. IsFiniteSet(S \ {r}) /\ Cardinality(S \ {r}) = n - 1
      BY <1>2, FS_RemoveElement
    <2>3. /\ IsFiniteSet(Before(queue, key, r))
          /\ Cardinality(Before(queue, key, r)) <= n - 1
      BY <2>1, <2>2, FS_Subset
    <2>. QED  BY <1>1, <2>3, FS_CardinalityType
  <1>40. ASSUME NEW a \in S, NEW b \in S, a \in Before(queue, key, b) PROVE count[a] < count[b]
    <2>1. /\ Before(queue, key, a) \subseteq Before(queue, key, b) \ {a}
      BY <1>40, BeforeFacts
    <2>2. /\ IsFiniteSet(Before(queue, key, b) \ {a})
          /\ Cardinality(Before(queue, key, b) \ {a}) = Cardinality(Before(queue, key, b)) - 1
      BY <1>3, <1>40, FS_RemoveElement
    <2>3. Cardinality(Before(queue, key, a)) <= Cardinality(Before(queue, key, b) \ {a})
      BY <2>1, <2>2, FS_Subset
    <2>. QED  BY <1>3, <2>2, <2>3
  <1>4. ASSUME NEW x \in S, NEW y \in S, x # y PROVE count[x] # count[y]
    <2>2. x \in Before(queue, key, y) \/ y \in Before(queue, key, x)
      BY <1>4, BeforeFacts
    <2>3. count[x] \in Int /\ count[y] \in Int
      BY <1>3
    <2>. QED  BY <1>40, <2>2, <2>3
  <1>5. \A k \in 0..(n - 1) : \E r \in S : count[r] = k
    <2>1. count \in Injection(S, 0..(n - 1))
      BY <1>3, <1>4 DEF Injection, IsInjective
    <2>2. IsFiniteSet(0..(n - 1)) /\ Cardinality(0..(n - 1)) = n
      BY <1>1, FS_Interval
    <2>3. count \in Surjection(S, 0..(n - 1))
      BY <1>2, <2>1, <2>2, FS_Injection
    <2>. QED  BY <2>3 DEF Surjection
  <1>. DEFINE q == InOrder(queue, key)
  <1>6. ASSUME NEW i \in 1..n PROVE q[i] \in S /\ count[q[i]] = i - 1
    <2>1. q[i] = CHOOSE r \in S : Cardinality(Before(queue, key, r)) = i - 1
      BY <1>1 DEF InOrder
    <2>2. \E r \in S : Cardinality(Before(queue, key, r)) = i - 1
      <3>1. i - 1 \in 0..(n - 1)
        BY <1>1
      <3>. QED  BY <1>5, <3>1
    <2>. QED  BY <2>1, <2>2
  <1>7. DOMAIN q = 1..n /\ q \in [1..n -> Requests]
    BY <1>1, <1>6 DEF InOrder
  <1>8. q \in Seq(Requests)
    BY <1>1, <1>7
  <1>9. IsInjective(q)
    <2>1. ASSUME NEW a \in 1..n, NEW b \in 1..n, q[a] = q[b] PROVE a = b
      <3>1. a - 1 = b - 1
        BY <1>6, <2>1
      <3>. QED  BY <1>1, <3>1
    <2>. HIDE DEF q
    <2>. QED  BY <1>7, <2>1 DEF IsInjective
  <1>10. ToSet(q) \subseteq S
    BY <1>6, <1>7 DEF ToSet
  <1>11. ASSUME NEW r \in S PROVE r \in ToSet(q)
    <2>1. count[r] + 1 \in 1..n /\ count[r] \in Int
      BY <1>1, <1>3
    <2>2. q[count[r] + 1] \in S /\ count[q[count[r] + 1]] = count[r]
      BY <1>6, <2>1
    <2>3. q[count[r] + 1] = r
      BY <1>4, <2>2
    <2>. QED  BY <1>7, <2>1, <2>3 DEF ToSet
  <1>12. ASSUME NEW i \in 1..n, NEW k \in 1..n, i < k PROVE q[k] \notin Before(queue, key, q[i])
    <2>1. q[i] \in S /\ q[k] \in S /\ count[q[i]] = i - 1 /\ count[q[k]] = k - 1
      BY <1>6
    <2>2. ~(count[q[k]] < count[q[i]])
      BY <1>1, <1>12, <2>1
    <2>. HIDE DEF q, count
    <2>. QED  BY <1>40, <2>1, <2>2
  <1>. QED  BY <1>8, <1>9, <1>10, <1>11, <1>12

LEMMA ByArrivalFacts ==
  ASSUME NEW queue \in Seq(Requests), IsInjective(queue)
  PROVE  /\ ByArrival(queue) \in Seq(Requests) /\ IsInjective(ByArrival(queue))
         /\ ToSet(ByArrival(queue)) = ToSet(queue)
  <1>. DEFINE key == [r \in ToSet(queue) |-> 0]
  <1>1. \A r \in ToSet(queue) : key[r] \in Int
    OBVIOUS
  <1>. HIDE DEF key
  <1>2. /\ InOrder(queue, key) \in Seq(Requests) /\ IsInjective(InOrder(queue, key))
        /\ ToSet(InOrder(queue, key)) = ToSet(queue)
    BY <1>1, InOrderFacts
  <1>. QED  BY <1>2 DEF ByArrival, key

-----------------------------------------------------------------------------
(* Snapshots and plans. *)

(* A snapshot the scheduler can hold: every request has one place, and a     *)
(* waiting one has nothing computed.                                         *)
IsSnapshot(s) ==
  /\ s.running \in Seq(Requests) /\ s.waiting \in Seq(Requests)
  /\ IsInjective(s.running) /\ IsInjective(s.waiting)
  /\ ToSet(s.running) \cap ToSet(s.waiting) = {}
  /\ s.computed \in [Requests -> Nat] /\ s.used \in Nat
  /\ \A r \in ToSet(s.waiting) : s.computed[r] = 0

Items == Requests \X (Nat \ {0})
Plans == [prefill : Seq(Items), decode : SUBSET Requests]

(* A plan for a snapshot: each prompt at most once, for some of its remaining *)
(* tokens, and decodes.                                                      *)
IsPlan(s, w) ==
  /\ w \in Plans
  /\ \A i, k \in DOMAIN w.prefill : w.prefill[i][1] = w.prefill[k][1] => i = k
  /\ \A i \in DOMAIN w.prefill :
        /\ w.prefill[i][1] \in Prefills(s)
        /\ w.prefill[i][2] <= Remaining(s, w.prefill[i][1])
  /\ w.decode \subseteq Decodes(s)

LEMMA SnapshotFacts ==
  ASSUME NEW s, IsSnapshot(s)
  PROVE  /\ Prefills(s) \subseteq Requests /\ Decodes(s) \subseteq Requests
         /\ Prefills(s) \cap Decodes(s) = {}
         /\ Workload(s) = ToSet(s.running) \cup ToSet(s.waiting)
         /\ \A r \in Requests : Remaining(s, r) \in Int
         /\ \A r \in Prefills(s) : Remaining(s, r) \in Nat \ {0} /\ Prefilling(s, r)
         /\ Len(s.running) \in Nat
  <1>1. ToSet(s.running) \subseteq Requests /\ ToSet(s.waiting) \subseteq Requests
    BY DEF IsSnapshot, ToSet
  <1>2. \A r \in Requests : Prompt[r] \in Nat \ {0} /\ s.computed[r] \in Nat
    BY BatchAssumption DEF IsSnapshot
  <1>3. \A r \in ToSet(s.waiting) : s.computed[r] = 0 /\ r \notin ToSet(s.running)
    BY DEF IsSnapshot
  <1>4. Len(s.running) \in Nat
    BY DEF IsSnapshot
  <1>. QED  BY <1>1, <1>2, <1>3, <1>4
       DEF Prefills, Decodes, RunningSet, Prefilling, Remaining, Workload

LEMMA RankPrefillFacts ==
  ASSUME NEW s, IsSnapshot(s)
  PROVE  /\ RankPrefill(s) \in Seq(Requests) /\ IsInjective(RankPrefill(s))
         /\ ToSet(RankPrefill(s)) = Prefills(s)
  <1>. DEFINE a == Keep(s.running, Prefills(s))
              b == ByArrival(s.waiting)
  <1>1. /\ a \in Seq(Requests) /\ IsInjective(a)
        /\ ToSet(a) = ToSet(s.running) \cap Prefills(s)
    BY KeepFacts DEF IsSnapshot
  <1>2. b \in Seq(Requests) /\ IsInjective(b) /\ ToSet(b) = ToSet(s.waiting)
    BY ByArrivalFacts DEF IsSnapshot
  <1>3. ToSet(a) \cap ToSet(b) = {} /\ ToSet(a) \cup ToSet(b) = Prefills(s)
    BY <1>1, <1>2 DEF IsSnapshot, Prefills, RunningSet
  <1>. HIDE DEF a, b
  <1>4. /\ a \o b \in Seq(Requests) /\ IsInjective(a \o b)
        /\ ToSet(a \o b) = ToSet(a) \cup ToSet(b)
    BY <1>1, <1>2, <1>3, ConcatFacts
  <1>. QED  BY <1>3, <1>4 DEF RankPrefill, a, b

LEMMA PlanFacts ==
  ASSUME NEW w \in Plans
  PROVE  /\ w.prefill \in Seq(Items) /\ w.decode \subseteq Requests
         /\ w = Work(w.prefill, w.decode)
         /\ DOMAIN w.prefill = 1..Len(w.prefill) /\ Len(w.prefill) \in Nat
         /\ IsFiniteSet(w.decode) /\ Cardinality(w.decode) \in Nat
         /\ \A i \in DOMAIN w.prefill : w.prefill[i][1] \in Requests /\ w.prefill[i][2] \in Nat \ {0}
  <1>1. /\ w.prefill \in Seq(Items) /\ w.decode \in SUBSET Requests
        /\ w = Work(w.prefill, w.decode)
    BY DEF Plans, Work
  <1>2. /\ DOMAIN w.prefill = 1..Len(w.prefill) /\ Len(w.prefill) \in Nat
        /\ \A i \in DOMAIN w.prefill : w.prefill[i] \in Items
    BY <1>1
  <1>3. IsFiniteSet(w.decode) /\ Cardinality(w.decode) \in Nat
    BY <1>1, BatchAssumption, FS_Subset, FS_CardinalityType
  <1>. QED  BY <1>1, <1>2, <1>3 DEF Items

(* Plans have a number of tokens, and only the empty one has none. *)
LEMMA TokensFacts ==
  ASSUME NEW w \in Plans
  PROVE  /\ PrefillTokens(w) \in Nat /\ Tokens(w) \in Nat
         /\ w # NoWork => Tokens(w) > 0
  <1>. DEFINE f == [i \in DOMAIN w.prefill |-> w.prefill[i][2]]
  <1>1. /\ PrefillTokens(w) = SumFunctionOnSet(f, DOMAIN w.prefill)
        /\ IsFiniteSet(DOMAIN w.prefill) /\ \A i \in DOMAIN w.prefill : f[i] \in Nat \ {0}
    BY PlanFacts, FS_Interval DEF PrefillTokens, SumFunction
  <1>. HIDE DEF f
  <1>2. PrefillTokens(w) \in Nat
    BY <1>1, SumNat
  <1>3. ASSUME w # NoWork PROVE Tokens(w) > 0
    <2>1. CASE w.decode # {}
      <3>1. Cardinality(w.decode) # 0
        BY <2>1, PlanFacts, FS_EmptySet
      <3>. QED  BY <1>2, <3>1, PlanFacts DEF Tokens
    <2>2. CASE w.decode = {}
      <3>1. w.prefill # <<>>
        BY <1>3, <2>2, PlanFacts DEF NoWork
      <3>2. 1 \in DOMAIN w.prefill
        BY <3>1, PlanFacts, EmptySeq
      <3>3. f[1] <= PrefillTokens(w) /\ f[1] \in Nat \ {0}
        BY <1>1, <3>2, SumAtLeastElement
      <3>. QED  BY <1>2, <3>3, PlanFacts DEF Tokens
    <2>. QED  BY <2>1, <2>2
  <1>. QED  BY <1>2, <1>3, PlanFacts DEF Tokens

LEMMA AppendTokens ==
  ASSUME NEW w \in Plans, NEW item \in Items, NEW d
  PROVE  PrefillTokens(Work(Append(w.prefill, item), d)) = PrefillTokens(w) + item[2]
  <1>. DEFINE n == Len(w.prefill)
              q == Append(w.prefill, item)
              f == [i \in DOMAIN w.prefill |-> w.prefill[i][2]]
              g == [i \in DOMAIN q |-> q[i][2]]
  <1>1. n \in Nat /\ DOMAIN w.prefill = 1..n /\ DOMAIN q = (1..n) \cup {n + 1}
    BY PlanFacts, AppendProperties
  <1>2. /\ \A i \in 1..n : q[i] = w.prefill[i]
        /\ q[n + 1] = item
    BY PlanFacts, AppendProperties
  <1>3. /\ \A i \in 1..n : f[i] \in Nat /\ g[i] = f[i]
        /\ g[n + 1] = item[2] /\ item[2] \in Nat
    BY <1>1, <1>2, PlanFacts DEF Items
  <1>4. /\ PrefillTokens(w) = SumFunctionOnSet(f, 1..n)
        /\ PrefillTokens(Work(q, d)) = SumFunctionOnSet(g, (1..n) \cup {n + 1})
    BY <1>1 DEF PrefillTokens, SumFunction, Work
  <1>. HIDE DEF f, g, q, n
  <1>. DEFINE D == 1..n
  <1>5. IsFiniteSet(D)
    BY <1>1, Intervals
  <1>6. SumFunctionOnSet(g, D \cup {n + 1}) = g[n + 1] + SumFunctionOnSet(g, D)
    <2>1. n + 1 \notin D
      BY <1>1
    <2>2. \A y \in D \cup {n + 1} : g[y] \in Int
      BY <1>3
    <2>. HIDE DEF D
    <2>. QED  BY <1>5, <2>1, <2>2, SumAdd
  <1>7. SumFunctionOnSet(g, D) = SumFunctionOnSet(f, D)
    <2>1. \A x \in D : f[x] \in Int /\ g[x] = f[x]
      BY <1>3
    <2>. HIDE DEF D
    <2>. QED  BY <1>5, <2>1, SumEqual
  <1>8. PrefillTokens(w) \in Nat
    BY TokensFacts
  <1>. QED  BY <1>3, <1>4, <1>6, <1>7, <1>8 DEF q

(* What a plan gives each request. *)
LEMMA TokensOfFacts ==
  ASSUME NEW s, IsSnapshot(s), NEW w, IsPlan(s, w)
  PROVE  /\ PrefillIds(w) \subseteq Prefills(s)
         /\ Scheduled(w) \subseteq Workload(s)
         /\ \A r \in w.decode : TokensOf(w, r) = 1
         /\ \A r \in PrefillIds(w) : TokensOf(w, r) \in 1..Remaining(s, r)
         /\ \A r : r \notin Scheduled(w) => TokensOf(w, r) = 0
         /\ \A r : TokensOf(w, r) \in Nat
  <1>1. w \in Plans /\ w.decode \subseteq Decodes(s)
    BY DEF IsPlan
  <1>2. PrefillIds(w) \subseteq Prefills(s) /\ PrefillIds(w) \cap w.decode = {}
    BY <1>1, SnapshotFacts DEF IsPlan, PrefillIds
  <1>3. ASSUME NEW r \in PrefillIds(w) PROVE TokensOf(w, r) \in 1..Remaining(s, r)
    <2>. DEFINE k == CHOOSE i \in DOMAIN w.prefill : w.prefill[i][1] = r
    <2>1. k \in DOMAIN w.prefill /\ w.prefill[k][1] = r
      BY DEF PrefillIds
    <2>2. TokensOf(w, r) = w.prefill[k][2]
      BY <1>2 DEF TokensOf
    <2>3. w.prefill[k][2] \in Nat \ {0} /\ w.prefill[k][2] <= Remaining(s, w.prefill[k][1])
      BY <1>1, <2>1, PlanFacts DEF IsPlan
    <2>4. Remaining(s, r) \in Nat
      BY <1>2, SnapshotFacts
    <2>. HIDE DEF k
    <2>. QED  BY <2>1, <2>2, <2>3, <2>4
  <1>4. \A r \in w.decode : TokensOf(w, r) = 1
    BY DEF TokensOf
  <1>5. \A r : r \notin Scheduled(w) => TokensOf(w, r) = 0
    BY DEF TokensOf, Scheduled
  <1>6. \A r \in PrefillIds(w) : Remaining(s, r) \in Nat
    BY <1>2, SnapshotFacts
  <1>7. \A r : TokensOf(w, r) \in Nat
    BY <1>3, <1>4, <1>5, <1>6 DEF Scheduled
  <1>. QED  BY <1>1, <1>2, <1>3, <1>4, <1>5, <1>7 DEF Scheduled, Workload

(* A plan with one more prompt, and what appending the item does. *)
LEMMA ExtendPlan ==
  ASSUME NEW s, IsSnapshot(s), NEW w, IsPlan(s, w),
         NEW r \in Prefills(s) \ PrefillIds(w), NEW k \in 1..Remaining(s, r), NEW v,
         v = Work(Append(w.prefill, <<r, k>>), w.decode)
  PROVE  /\ IsPlan(s, v) /\ v.decode = w.decode
         /\ PrefillIds(v) = PrefillIds(w) \cup {r}
         /\ Tokens(v) = Tokens(w) + k
  <1>1. w \in Plans /\ <<r, k>> \in Items /\ k \in Nat \ {0}
    BY SnapshotFacts DEF IsPlan, Items
  <1>2. v.prefill = Append(w.prefill, <<r, k>>) /\ v.decode = w.decode
    BY DEF Work
  <1>. DEFINE n == Len(w.prefill)
              item == <<r, k>>
              q == Append(w.prefill, item)
              id == [i \in DOMAIN q |-> q[i][1]]
              size == [i \in DOMAIN q |-> q[i][2]]
              old == 1..n
              new == n + 1
  <1>3. item[1] = r /\ item[2] = k /\ item \in Items /\ v.prefill = q
    BY <1>1, <1>2
  <1>. HIDE DEF item
  <1>4. n \in Nat /\ DOMAIN w.prefill = old /\ DOMAIN q = old \cup {new} /\ q \in Seq(Items)
    BY <1>1, <1>3, PlanFacts, AppendProperties
  <1>5. (\A i \in old : q[i] = w.prefill[i]) /\ q[new] = item
    BY <1>1, <1>3, PlanFacts, AppendProperties
  <1>6. v \in Plans
    BY <1>1, <1>2, <1>3, <1>4 DEF Plans, Work
  <1>. HIDE DEF q, old, new
  <1>7. /\ \A i \in old : id[i] = w.prefill[i][1] /\ size[i] = w.prefill[i][2]
        /\ id[new] = r /\ size[new] = k
    BY <1>3, <1>4, <1>5
  <1>8. \A i \in DOMAIN q : id[i] = v.prefill[i][1] /\ size[i] = v.prefill[i][2]
    BY <1>3
  <1>9. PrefillIds(v) = {id[i] : i \in DOMAIN q}
    BY <1>3 DEF PrefillIds
  <1>10. PrefillIds(w) = {id[i] : i \in old}
    <2>. HIDE DEF id, size
    <2>. QED  BY <1>4, <1>7 DEF PrefillIds
  <1>11. /\ \A i, j \in old : id[i] = id[j] => i = j
         /\ \A i \in old : id[i] \in Prefills(s) /\ size[i] <= Remaining(s, id[i])
    <2>. HIDE DEF id, size
    <2>. QED  BY <1>4, <1>7 DEF IsPlan
  <1>12. k <= Remaining(s, r)
    BY SnapshotFacts
  <1>. HIDE DEF id, size, n
  <1>13. DOMAIN q = old \cup {new} /\ id[new] = r /\ size[new] = k
    BY <1>4, <1>7
  <1>14. PrefillIds(v) = PrefillIds(w) \cup {r}
    <2>1. {id[i] : i \in old \cup {new}} = {id[i] : i \in old} \cup {id[new]}
      OBVIOUS
    <2>. QED  BY <1>9, <1>10, <1>13, <2>1
  <1>15. /\ \A i, j \in DOMAIN q : id[i] = id[j] => i = j
         /\ \A i \in DOMAIN q : id[i] \in Prefills(s) /\ size[i] <= Remaining(s, id[i])
    <2>1. \A i \in old : id[i] # id[new]
      BY <1>10, <1>13
    <2>. QED  BY <1>11, <1>12, <1>13, <2>1
  <1>16. /\ \A i, j \in DOMAIN v.prefill : v.prefill[i][1] = v.prefill[j][1] => i = j
         /\ \A i \in DOMAIN v.prefill : /\ v.prefill[i][1] \in Prefills(s)
                                        /\ v.prefill[i][2] <= Remaining(s, v.prefill[i][1])
    BY <1>3, <1>15, <1>8
  <1>17. Tokens(v) = Tokens(w) + k
    <2>1. PrefillTokens(v) = PrefillTokens(w) + k
      BY <1>1, <1>3, AppendTokens DEF item
    <2>. QED  BY <1>1, <1>2, <2>1, TokensFacts, PlanFacts DEF Tokens
  <1>. QED  BY <1>2, <1>6, <1>14, <1>16, <1>17 DEF IsPlan

(* Adding a request that the plan does not have: a prompt gets what is left  *)
(* of the token budget, or all it lacks, and a decode one token.             *)
LEMMA WithRequestFacts ==
  ASSUME NEW s, IsSnapshot(s), NEW w, IsPlan(s, w), Tokens(w) < TokenBudget,
         NEW r \in Workload(s), r \notin PrefillIds(w)
  PROVE  /\ IsPlan(s, WithRequest(s, w, r))
         /\ PrefillIds(WithRequest(s, w, r)) \subseteq PrefillIds(w) \cup {r}
         /\ Scheduled(WithRequest(s, w, r)) = Scheduled(w) \cup {r}
         /\ Tokens(WithRequest(s, w, r)) <= TokenBudget
  <1>. DEFINE v == WithRequest(s, w, r)
  <1>1. /\ w \in Plans /\ w = Work(w.prefill, w.decode) /\ Tokens(w) \in Nat
        /\ PrefillTokens(w) \in Nat /\ IsFiniteSet(w.decode) /\ Cardinality(w.decode) \in Nat
        /\ TokenBudget \in Nat
    BY TokensFacts, PlanFacts, BatchAssumption DEF IsPlan
  <1>2. CASE Prefilling(s, r)
    <2>. DEFINE k == Smaller(Remaining(s, r), TokenBudget - Tokens(w))
    <2>1. r \in Prefills(s) \ PrefillIds(w)
      BY <1>2 DEF Workload, Decodes
    <2>2. k \in 1..Remaining(s, r) /\ Tokens(w) + k <= TokenBudget
      <3>1. Remaining(s, r) \in Nat \ {0}
        BY <2>1, SnapshotFacts
      <3>. QED  BY <1>1, <3>1 DEF Smaller
    <2>3. v = Work(Append(w.prefill, <<r, k>>), w.decode)
      BY <1>1, <1>2 DEF WithRequest, Work
    <2>. HIDE DEF v, k
    <2>4. /\ IsPlan(s, v) /\ v.decode = w.decode
          /\ PrefillIds(v) = PrefillIds(w) \cup {r} /\ Tokens(v) = Tokens(w) + k
      BY <2>1, <2>2, <2>3, ExtendPlan
    <2>. QED  BY <2>2, <2>4 DEF Scheduled, v
  <1>3. CASE ~Prefilling(s, r)
    <2>1. r \in Decodes(s)
      BY <1>3, SnapshotFacts DEF Workload
    <2>2. v = Work(w.prefill, w.decode \cup {r})
      BY <1>1, <1>3 DEF WithRequest, Work
    <2>3. v.prefill = w.prefill /\ v.decode = w.decode \cup {r}
      BY <2>2 DEF Work
    <2>4. r \in Requests
      BY <2>1, SnapshotFacts
    <2>5. v \in Plans
      BY <1>1, <2>2, <2>4 DEF Plans, Work
    <2>6. Cardinality(v.decode) \in Nat /\ Cardinality(v.decode) <= Cardinality(w.decode) + 1
      <3>1. Cardinality(v.decode) \in Nat
        <4>. HIDE DEF v
        <4>. QED  BY <2>5, PlanFacts
      <3>2. \/ Cardinality(w.decode \cup {r}) = Cardinality(w.decode)
            \/ Cardinality(w.decode \cup {r}) = Cardinality(w.decode) + 1
        BY <1>1, FS_AddElement
      <3>. HIDE DEF v
      <3>. QED  BY <1>1, <2>3, <3>1, <3>2
    <2>. HIDE DEF v
    <2>7. PrefillIds(v) = PrefillIds(w) /\ PrefillTokens(v) = PrefillTokens(w)
      BY <2>3 DEF PrefillIds, PrefillTokens
    <2>8. IsPlan(s, v)
      BY <2>1, <2>3, <2>5 DEF IsPlan
    <2>9. Tokens(v) <= TokenBudget
      BY <1>1, <2>6, <2>7 DEF Tokens
    <2>. QED  BY <2>3, <2>7, <2>8, <2>9 DEF Scheduled, v
  <1>. QED  BY <1>2, <1>3

LEMMA WithRequestType ==
  ASSUME NEW s, IsSnapshot(s), NEW w \in Plans, Tokens(w) < TokenBudget, NEW r \in Requests
  PROVE  WithRequest(s, w, r) \in Plans
  <1>1. /\ w = Work(w.prefill, w.decode) /\ Tokens(w) \in Nat /\ TokenBudget \in Nat
        /\ w.prefill \in Seq(Items) /\ w.decode \subseteq Requests
    BY TokensFacts, PlanFacts, BatchAssumption
  <1>2. CASE Prefilling(s, r)
    <2>. DEFINE k == Smaller(Remaining(s, r), TokenBudget - Tokens(w))
    <2>1. k \in Nat \ {0}
      <3>1. Remaining(s, r) \in Nat \ {0}
        BY <1>2, BatchAssumption DEF Remaining, Prefilling, IsSnapshot
      <3>. QED  BY <1>1, <3>1 DEF Smaller
    <2>2. WithRequest(s, w, r) = Work(Append(w.prefill, <<r, k>>), w.decode)
      BY <1>1, <1>2 DEF WithRequest, Work
    <2>. HIDE DEF k
    <2>3. <<r, k>> \in Items
      BY <2>1 DEF Items
    <2>4. Append(w.prefill, <<r, k>>) \in Seq(Items)
      BY <1>1, <2>3, AppendProperties
    <2>. QED  BY <1>1, <2>2, <2>4 DEF Plans, Work
  <1>3. CASE ~Prefilling(s, r)
    <2>1. WithRequest(s, w, r) = Work(w.prefill, w.decode \cup {r})
      BY <1>1, <1>3 DEF WithRequest, Work
    <2>. QED  BY <1>1, <2>1 DEF Plans, Work
  <1>. QED  BY <1>2, <1>3

-----------------------------------------------------------------------------
(* The loops over a queue: each is the trace of its turns. *)

StockTurn(s, w, r) ==
  IF Tokens(w) < TokenBudget /\ StockFits(s, WithRequest(s, w, r)) THEN WithRequest(s, w, r) ELSE w

LEMMA StockTrace ==
  ASSUME NEW s, IsSnapshot(s)
  PROVE  \E t : /\ t[0] = NoWork /\ t[Len(s.running)] = StockRunning(s)
                /\ \A i \in 1..Len(s.running) : t[i] = StockTurn(s, t[i - 1], s.running[i])
  <1>. DEFINE n == Len(s.running)
              A == Plans
              step == [p \in A \X (1..n) |-> StockTurn(s, p[1], s.running[p[2]])]
              Body(iter) == [d \in SUBSET (1..n) |->
                               IF d = {} THEN NoWork
                               ELSE StockTurn(s, iter[d \ {Max(d)}], s.running[Max(d)])]
              it == CHOOSE iter : iter = Body(iter)
  <1>1. n \in Nat /\ DOMAIN s.running = 1..n /\ NoWork \in A
    BY EmptySeq DEF IsSnapshot, Plans, NoWork, Work
  <1>2. \A a \in A, i \in 1..n : step[<<a, i>>] = StockTurn(s, a, s.running[i]) /\ step[<<a, i>>] \in A
    <2>1. \A a \in A, i \in 1..n : StockTurn(s, a, s.running[i]) \in A
      <3>1. \A i \in 1..n : s.running[i] \in Requests
        BY DEF IsSnapshot
      <3>. QED  BY <3>1, WithRequestType DEF StockTurn
    <2>. HIDE DEF A, n
    <2>. QED  BY <2>1
  <1>3. PICK g \in [SUBSET (1..n) -> A] : Unfolds(g, 1..n, NoWork, Largest(n), step)
    <2>. HIDE DEF n, A, step
    <2>. QED  BY <1>1, <1>2, LoopExists
  <1>4. g = Body(g)
    <2>1. ASSUME NEW d \in SUBSET (1..n) PROVE g[d] = Body(g)[d]
      <3>1. Largest(n)[d] = Max(d) /\ (d # {} => Max(d) \in d)
        BY <1>1, Intervals DEF Largest
      <3>. HIDE DEF step, A, n
      <3>. QED  BY <1>2, <1>3, <3>1 DEF Unfolds, UnfoldsAt
    <2>2. Body(g) = [d \in SUBSET (1..n) |-> Body(g)[d]] /\ g = [d \in SUBSET (1..n) |-> g[d]]
      OBVIOUS
    <2>. HIDE DEF Body
    <2>. QED  BY <2>1, <2>2
  <1>5. it = Body(it)
    <2>. HIDE DEF Body
    <2>. QED  BY <1>4
  <1>6. it[1..n] = StockRunning(s)
    BY <1>1 DEF StockRunning, StockTurn, FoldLeft, MapThenFoldSet
  <1>. DEFINE t == [i \in 0..n |-> it[1..i]]
  <1>7. /\ t[0] = NoWork /\ t[n] = it[1..n]
        /\ \A i \in 1..n : t[i] = StockTurn(s, t[i - 1], s.running[i])
    <2>. HIDE DEF it, n
    <2>1. t[0] = NoWork
      <3>1. t[0] = it[{}]
        BY <1>1, Intervals
      <3>. QED  BY <1>5, <3>1
    <2>2. ASSUME NEW i \in 1..n PROVE t[i] = StockTurn(s, t[i - 1], s.running[i])
      <3>1. t[i] = it[1..i] /\ t[i - 1] = it[1..(i - 1)]
        BY <1>1
      <3>2. /\ 1..i \in SUBSET (1..n) /\ 1..i # {}
            /\ Max(1..i) = i /\ (1..i) \ {i} = 1..(i - 1)
        BY <1>1, Intervals
      <3>3. it[1..i] = StockTurn(s, it[(1..i) \ {Max(1..i)}], s.running[Max(1..i)])
        BY <1>5, <3>2
      <3>. HIDE DEF t
      <3>. QED  BY <3>1, <3>2, <3>3
    <2>3. t[n] = it[1..n]
      BY <1>1
    <2>. QED  BY <2>1, <2>2, <2>3
  <1>. QED  BY <1>6, <1>7

NativeTurn(s, w, r) ==
  IF Tokens(w) < TokenBudget THEN WithRequest(s, w, r) ELSE w

LEMMA NativeTrace ==
  ASSUME NEW s, IsSnapshot(s), NEW queue \in Seq(Requests)
  PROVE  \E t : /\ t[0] = NoWork /\ t[Len(queue)] = NativeRunning(s, queue)
                /\ \A i \in 1..Len(queue) : t[i] = NativeTurn(s, t[i - 1], queue[i])
  <1>. DEFINE n == Len(queue)
              A == Plans
              step == [p \in A \X (1..n) |-> NativeTurn(s, p[1], queue[p[2]])]
              Body(iter) == [d \in SUBSET (1..n) |->
                               IF d = {} THEN NoWork
                               ELSE NativeTurn(s, iter[d \ {Max(d)}], queue[Max(d)])]
              it == CHOOSE iter : iter = Body(iter)
  <1>1. n \in Nat /\ DOMAIN queue = 1..n /\ NoWork \in A
    BY EmptySeq DEF Plans, NoWork, Work
  <1>2. \A a \in A, i \in 1..n : step[<<a, i>>] = NativeTurn(s, a, queue[i]) /\ step[<<a, i>>] \in A
    <2>1. \A a \in A, i \in 1..n : NativeTurn(s, a, queue[i]) \in A
      BY WithRequestType DEF NativeTurn
    <2>. HIDE DEF A, n
    <2>. QED  BY <2>1
  <1>3. PICK g \in [SUBSET (1..n) -> A] : Unfolds(g, 1..n, NoWork, Largest(n), step)
    <2>. HIDE DEF n, A, step
    <2>. QED  BY <1>1, <1>2, LoopExists
  <1>4. g = Body(g)
    <2>1. ASSUME NEW d \in SUBSET (1..n) PROVE g[d] = Body(g)[d]
      <3>1. Largest(n)[d] = Max(d) /\ (d # {} => Max(d) \in d)
        BY <1>1, Intervals DEF Largest
      <3>. HIDE DEF step, A, n
      <3>. QED  BY <1>2, <1>3, <3>1 DEF Unfolds, UnfoldsAt
    <2>2. Body(g) = [d \in SUBSET (1..n) |-> Body(g)[d]] /\ g = [d \in SUBSET (1..n) |-> g[d]]
      OBVIOUS
    <2>. HIDE DEF Body
    <2>. QED  BY <2>1, <2>2
  <1>5. it = Body(it)
    <2>. HIDE DEF Body
    <2>. QED  BY <1>4
  <1>6. it[1..n] = NativeRunning(s, queue)
    BY <1>1 DEF NativeRunning, NativeTurn, FoldLeft, MapThenFoldSet
  <1>. DEFINE t == [i \in 0..n |-> it[1..i]]
  <1>7. /\ t[0] = NoWork /\ t[n] = it[1..n]
        /\ \A i \in 1..n : t[i] = NativeTurn(s, t[i - 1], queue[i])
    <2>. HIDE DEF it, n
    <2>1. t[0] = NoWork
      <3>1. t[0] = it[{}]
        BY <1>1, Intervals
      <3>. QED  BY <1>5, <3>1
    <2>2. ASSUME NEW i \in 1..n PROVE t[i] = NativeTurn(s, t[i - 1], queue[i])
      <3>1. t[i] = it[1..i] /\ t[i - 1] = it[1..(i - 1)]
        BY <1>1
      <3>2. /\ 1..i \in SUBSET (1..n) /\ 1..i # {}
            /\ Max(1..i) = i /\ (1..i) \ {i} = 1..(i - 1)
        BY <1>1, Intervals
      <3>3. it[1..i] = NativeTurn(s, it[(1..i) \ {Max(1..i)}], queue[Max(1..i)])
        BY <1>5, <3>2
      <3>. HIDE DEF t
      <3>. QED  BY <3>1, <3>2, <3>3
    <2>3. t[n] = it[1..n]
      BY <1>1
    <2>. QED  BY <2>1, <2>2, <2>3
  <1>. QED  BY <1>6, <1>7

WaitingTurn(s, acc, r) ==
  IF acc.open /\ Tokens(acc.work) < TokenBudget /\ StockFits(s, WithRequest(s, acc.work, r))
  THEN [acc EXCEPT !.work = WithRequest(s, @, r)]
  ELSE [acc EXCEPT !.open = FALSE]

LEMMA WaitingTrace ==
  ASSUME NEW s, IsSnapshot(s), NEW w \in Plans, NEW queue \in Seq(Requests)
  PROVE  \E t : /\ t[0] = [work |-> w, open |-> TRUE] /\ t[Len(queue)].work = AddWaiting(s, w, queue)
                /\ \A i \in 1..Len(queue) : t[i] = WaitingTurn(s, t[i - 1], queue[i])
  <1>. DEFINE n == Len(queue)
              A == [work : Plans, open : BOOLEAN]
              step == [p \in A \X (1..n) |-> WaitingTurn(s, p[1], queue[p[2]])]
              Body(iter) == [d \in SUBSET (1..n) |->
                               IF d = {} THEN [work |-> w, open |-> TRUE]
                               ELSE WaitingTurn(s, iter[d \ {Max(d)}], queue[Max(d)])]
              it == CHOOSE iter : iter = Body(iter)
  <1>1. n \in Nat /\ DOMAIN queue = 1..n /\ [work |-> w, open |-> TRUE] \in A
    OBVIOUS
  <1>2. \A a \in A, i \in 1..n : step[<<a, i>>] = WaitingTurn(s, a, queue[i]) /\ step[<<a, i>>] \in A
    <2>1. \A a \in A, i \in 1..n : WaitingTurn(s, a, queue[i]) \in A
      <3>1. \A i \in 1..n : queue[i] \in Requests
        OBVIOUS
      <3>2. \A a \in A, r \in Requests : Tokens(a.work) < TokenBudget =>
               WithRequest(s, a.work, r) \in Plans
        BY WithRequestType
      <3>. HIDE DEF n
      <3>. QED  BY <3>1, <3>2 DEF WaitingTurn
    <2>. HIDE DEF A, n
    <2>. QED  BY <2>1
  <1>3. PICK g \in [SUBSET (1..n) -> A] : Unfolds(g, 1..n, [work |-> w, open |-> TRUE], Largest(n), step)
    <2>. HIDE DEF n, A, step
    <2>. QED  BY <1>1, <1>2, LoopExists
  <1>4. g = Body(g)
    <2>1. ASSUME NEW d \in SUBSET (1..n) PROVE g[d] = Body(g)[d]
      <3>1. Largest(n)[d] = Max(d) /\ (d # {} => Max(d) \in d)
        BY <1>1, Intervals DEF Largest
      <3>. HIDE DEF step, A, n
      <3>. QED  BY <1>2, <1>3, <3>1 DEF Unfolds, UnfoldsAt
    <2>2. Body(g) = [d \in SUBSET (1..n) |-> Body(g)[d]] /\ g = [d \in SUBSET (1..n) |-> g[d]]
      OBVIOUS
    <2>. HIDE DEF Body
    <2>. QED  BY <2>1, <2>2
  <1>5. it = Body(it)
    <2>. HIDE DEF Body
    <2>. QED  BY <1>4
  <1>6. it[1..n].work = AddWaiting(s, w, queue)
    BY <1>1 DEF AddWaiting, WaitingTurn, FoldLeft, MapThenFoldSet
  <1>. DEFINE t == [i \in 0..n |-> it[1..i]]
  <1>7. /\ t[0] = [work |-> w, open |-> TRUE] /\ t[n] = it[1..n]
        /\ \A i \in 1..n : t[i] = WaitingTurn(s, t[i - 1], queue[i])
    <2>. HIDE DEF it, n
    <2>1. t[0] = [work |-> w, open |-> TRUE]
      <3>1. t[0] = it[{}]
        BY <1>1, Intervals
      <3>. QED  BY <1>5, <3>1
    <2>2. ASSUME NEW i \in 1..n PROVE t[i] = WaitingTurn(s, t[i - 1], queue[i])
      <3>1. t[i] = it[1..i] /\ t[i - 1] = it[1..(i - 1)]
        BY <1>1
      <3>2. /\ 1..i \in SUBSET (1..n) /\ 1..i # {}
            /\ Max(1..i) = i /\ (1..i) \ {i} = 1..(i - 1)
        BY <1>1, Intervals
      <3>3. it[1..i] = WaitingTurn(s, it[(1..i) \ {Max(1..i)}], queue[Max(1..i)])
        BY <1>5, <3>2
      <3>. HIDE DEF t
      <3>. QED  BY <3>1, <3>2, <3>3
    <2>3. t[n] = it[1..n]
      BY <1>1
    <2>. QED  BY <2>1, <2>2, <2>3
  <1>. QED  BY <1>6, <1>7

(* The requests of the first i places of a queue. *)
First(queue, i) == {queue[j] : j \in 1..i}

LEMMA FirstFacts ==
  ASSUME NEW R, NEW queue \in Seq(R), IsInjective(queue)
  PROVE  /\ First(queue, 0) = {} /\ First(queue, Len(queue)) = ToSet(queue)
         /\ \A i \in Nat : i + 1 <= Len(queue) =>
               /\ First(queue, i + 1) = First(queue, i) \cup {queue[i + 1]}
               /\ queue[i + 1] \in ToSet(queue) \ First(queue, i)
         /\ \A i \in 1..Len(queue) : queue[1] \in First(queue, i)
  <1>1. Len(queue) \in Nat /\ DOMAIN queue = 1..Len(queue)
    OBVIOUS
  <1>2. First(queue, 0) = {} /\ First(queue, Len(queue)) = ToSet(queue)
    BY <1>1 DEF First, ToSet
  <1>3. ASSUME NEW i \in Nat, i + 1 <= Len(queue)
        PROVE  /\ First(queue, i + 1) = First(queue, i) \cup {queue[i + 1]}
               /\ queue[i + 1] \in ToSet(queue) \ First(queue, i)
    <2>1. 1..(i + 1) = (1..i) \cup {i + 1}
      OBVIOUS
    <2>2. \A j \in 1..i : j \in DOMAIN queue /\ j # i + 1
      BY <1>1, <1>3
    <2>3. i + 1 \in DOMAIN queue
      BY <1>1, <1>3
    <2>. QED  BY <2>1, <2>2, <2>3 DEF First, ToSet, IsInjective
  <1>4. \A i \in 1..Len(queue) : queue[1] \in First(queue, i)
    <2>1. \A i \in 1..Len(queue) : 1 \in 1..i
      BY <1>1
    <2>. QED  BY <2>1 DEF First
  <1>. QED  BY <1>2, <1>3, <1>4

LEMMA NoWorkFacts ==
  ASSUME NEW s, IsSnapshot(s)
  PROVE  /\ IsPlan(s, NoWork) /\ Tokens(NoWork) = 0 /\ PrefillTokens(NoWork) = 0
         /\ PrefillIds(NoWork) = {} /\ Scheduled(NoWork) = {}
  <1>1. NoWork.prefill = <<>> /\ NoWork.decode = {} /\ DOMAIN <<>> = {}
    BY DEF NoWork, Work
  <1>2. NoWork \in Plans
    BY EmptySeq DEF NoWork, Work, Plans
  <1>3. PrefillTokens(NoWork) = 0
    BY <1>1, SumOfNone DEF PrefillTokens, SumFunction
  <1>. QED  BY <1>1, <1>2, <1>3, FS_EmptySet DEF IsPlan, PrefillIds, Scheduled, Tokens

(* The stock plan of the running queue. *)
LEMMA StockRunningFacts ==
  ASSUME NEW s, IsSnapshot(s)
  PROVE  /\ IsPlan(s, StockRunning(s)) /\ Tokens(StockRunning(s)) <= TokenBudget
         /\ Scheduled(StockRunning(s)) \subseteq ToSet(s.running)
         /\ StockRunning(s) = NoWork \/ StockFits(s, StockRunning(s))
  <1>. DEFINE q == s.running
              n == Len(q)
              OK(w, i) == /\ IsPlan(s, w) /\ Tokens(w) <= TokenBudget
                          /\ Scheduled(w) \subseteq First(q, i)
                          /\ w = NoWork \/ StockFits(s, w)
  <1>1. q \in Seq(Requests) /\ IsInjective(q) /\ n \in Nat /\ ToSet(q) \subseteq Workload(s)
    BY SnapshotFacts DEF IsSnapshot
  <1>2. PICK t : /\ t[0] = NoWork /\ t[n] = StockRunning(s)
                 /\ \A i \in 1..n : t[i] = StockTurn(s, t[i - 1], q[i])
    BY StockTrace
  <1>. DEFINE T == {i \in Nat : i <= n => OK(t[i], i)}
  <1>. HIDE DEF q, n
  <1>3. 0 \in T
    BY <1>1, <1>2, NoWorkFacts, BatchAssumption
  <1>4. ASSUME NEW i \in Nat, i \in T PROVE i + 1 \in T
    <2>1. SUFFICES ASSUME i + 1 <= n PROVE OK(t[i + 1], i + 1)
      OBVIOUS
    <2>2. OK(t[i], i) /\ i + 1 \in 1..n /\ t[i + 1] = StockTurn(s, t[i], q[i + 1])
      BY <1>1, <1>2, <1>4, <2>1
    <2>3. /\ First(q, i + 1) = First(q, i) \cup {q[i + 1]}
          /\ q[i + 1] \in ToSet(q) \ First(q, i)
      BY <1>1, <2>1, FirstFacts DEF n
    <2>4. CASE Tokens(t[i]) < TokenBudget /\ StockFits(s, WithRequest(s, t[i], q[i + 1]))
      <3>1. q[i + 1] \in Workload(s) /\ q[i + 1] \notin PrefillIds(t[i])
        BY <1>1, <2>2, <2>3 DEF Scheduled
      <3>2. t[i + 1] = WithRequest(s, t[i], q[i + 1])
        BY <2>2, <2>4 DEF StockTurn
      <3>3. /\ IsPlan(s, t[i + 1]) /\ Tokens(t[i + 1]) <= TokenBudget
            /\ Scheduled(t[i + 1]) = Scheduled(t[i]) \cup {q[i + 1]}
        BY <2>2, <2>4, <3>1, <3>2, WithRequestFacts
      <3>. QED  BY <2>2, <2>3, <2>4, <3>2, <3>3
    <2>5. CASE ~(Tokens(t[i]) < TokenBudget /\ StockFits(s, WithRequest(s, t[i], q[i + 1])))
      <3>1. t[i + 1] = t[i]
        BY <2>2, <2>5 DEF StockTurn
      <3>. QED  BY <2>2, <2>3, <3>1
    <2>. QED  BY <2>4, <2>5
  <1>5. n \in T
    <2>1. Nat \subseteq T
      <3>. HIDE DEF T
      <3>. QED  BY <1>3, <1>4, InductionOnNat
    <2>. QED  BY <1>1, <2>1
  <1>6. First(q, n) = ToSet(q)
    BY <1>1, FirstFacts DEF n
  <1>. QED  BY <1>1, <1>2, <1>5, <1>6 DEF q

(* What vLLM itself takes from the requests it keeps running. *)
LEMMA NativeRunningFacts ==
  ASSUME NEW s, IsSnapshot(s), NEW q \in Seq(Requests), IsInjective(q),
         ToSet(q) \subseteq Workload(s)
  PROVE  /\ IsPlan(s, NativeRunning(s, q)) /\ Tokens(NativeRunning(s, q)) <= TokenBudget
         /\ Scheduled(NativeRunning(s, q)) \subseteq ToSet(q)
         /\ q # <<>> => q[1] \in Scheduled(NativeRunning(s, q))
  <1>. DEFINE n == Len(q)
              OK(w, i) == /\ IsPlan(s, w) /\ Tokens(w) <= TokenBudget
                          /\ Scheduled(w) \subseteq First(q, i)
                          /\ i # 0 => q[1] \in Scheduled(w)
  <1>1. n \in Nat
    OBVIOUS
  <1>2. PICK t : /\ t[0] = NoWork /\ t[n] = NativeRunning(s, q)
                 /\ \A i \in 1..n : t[i] = NativeTurn(s, t[i - 1], q[i])
    BY NativeTrace
  <1>. DEFINE T == {i \in Nat : i <= n => OK(t[i], i)}
  <1>. HIDE DEF n
  <1>3. 0 \in T
    BY <1>1, <1>2, NoWorkFacts, BatchAssumption
  <1>4. ASSUME NEW i \in Nat, i \in T PROVE i + 1 \in T
    <2>1. SUFFICES ASSUME i + 1 <= n PROVE OK(t[i + 1], i + 1)
      OBVIOUS
    <2>2. OK(t[i], i) /\ i + 1 \in 1..n /\ t[i + 1] = NativeTurn(s, t[i], q[i + 1])
      BY <1>1, <1>2, <1>4, <2>1
    <2>3. /\ First(q, i + 1) = First(q, i) \cup {q[i + 1]}
          /\ q[i + 1] \in ToSet(q) \ First(q, i)
      BY <1>1, <2>1, FirstFacts DEF n
    <2>4. CASE Tokens(t[i]) < TokenBudget
      <3>1. q[i + 1] \in Workload(s) /\ q[i + 1] \notin PrefillIds(t[i])
        BY <1>1, <2>2, <2>3 DEF Scheduled
      <3>2. t[i + 1] = WithRequest(s, t[i], q[i + 1])
        BY <2>2, <2>4 DEF NativeTurn
      <3>3. /\ IsPlan(s, t[i + 1]) /\ Tokens(t[i + 1]) <= TokenBudget
            /\ Scheduled(t[i + 1]) = Scheduled(t[i]) \cup {q[i + 1]}
        BY <2>2, <2>4, <3>1, <3>2, WithRequestFacts
      <3>4. q[1] \in Scheduled(t[i + 1])
        <4>1. CASE i = 0
          BY <3>3, <4>1
        <4>2. CASE i # 0
          BY <2>2, <3>3, <4>2
        <4>. QED  BY <4>1, <4>2
      <3>. QED  BY <2>2, <2>3, <3>3, <3>4
    <2>5. CASE ~(Tokens(t[i]) < TokenBudget)
      <3>1. t[i + 1] = t[i]
        BY <2>2, <2>5 DEF NativeTurn
      <3>2. i # 0
        BY <1>2, <2>5, NoWorkFacts, BatchAssumption
      <3>. QED  BY <2>2, <2>3, <3>1, <3>2
    <2>. QED  BY <2>4, <2>5
  <1>5. n \in T
    <2>1. Nat \subseteq T
      <3>. HIDE DEF T
      <3>. QED  BY <1>3, <1>4, InductionOnNat
    <2>. QED  BY <1>1, <2>1
  <1>6. First(q, n) = ToSet(q) /\ (q # <<>> => n # 0)
    <2>1. q # <<>> => n # 0
      BY EmptySeq DEF n
    <2>. QED  BY <1>1, <2>1, FirstFacts DEF n
  <1>. QED  BY <1>1, <1>2, <1>5, <1>6

(* What a plan gains from the waiting queue: it keeps its requests and its   *)
(* budget, fits if it changed, and takes the first one that fits.            *)
LEMMA AddWaitingFacts ==
  ASSUME NEW s, IsSnapshot(s), NEW q \in Seq(Requests), IsInjective(q),
         ToSet(q) \subseteq Workload(s),
         NEW w, IsPlan(s, w), Tokens(w) <= TokenBudget, PrefillIds(w) \cap ToSet(q) = {}
  PROVE  /\ IsPlan(s, AddWaiting(s, w, q)) /\ Tokens(AddWaiting(s, w, q)) <= TokenBudget
         /\ Scheduled(w) \subseteq Scheduled(AddWaiting(s, w, q))
         /\ Scheduled(AddWaiting(s, w, q)) \subseteq Scheduled(w) \cup ToSet(q)
         /\ AddWaiting(s, w, q) = w \/ StockFits(s, AddWaiting(s, w, q))
         /\ q # <<>> /\ Tokens(w) < TokenBudget /\ StockFits(s, WithRequest(s, w, q[1]))
               => q[1] \in Scheduled(AddWaiting(s, w, q))
  <1>. DEFINE n == Len(q)
              FirstFits == Tokens(w) < TokenBudget /\ StockFits(s, WithRequest(s, w, q[1]))
              OK(acc, i) ==
                /\ acc \in [work : Plans, open : BOOLEAN]
                /\ IsPlan(s, acc.work) /\ Tokens(acc.work) <= TokenBudget
                /\ Scheduled(w) \subseteq Scheduled(acc.work)
                /\ Scheduled(acc.work) \subseteq Scheduled(w) \cup First(q, i)
                /\ PrefillIds(acc.work) \subseteq PrefillIds(w) \cup First(q, i)
                /\ acc.work = w \/ StockFits(s, acc.work)
                /\ i # 0 /\ FirstFits => q[1] \in Scheduled(acc.work)
  <1>1. n \in Nat /\ w \in Plans
    BY DEF IsPlan
  <1>2. PICK t : /\ t[0] = [work |-> w, open |-> TRUE] /\ t[n].work = AddWaiting(s, w, q)
                 /\ \A i \in 1..n : t[i] = WaitingTurn(s, t[i - 1], q[i])
    BY <1>1, WaitingTrace
  <1>. DEFINE T == {i \in Nat : i <= n => OK(t[i], i)}
  <1>. HIDE DEF n
  <1>3. t[0].work = w /\ t[0].open = TRUE /\ t[0] \in [work : Plans, open : BOOLEAN]
    BY <1>1, <1>2
  <1>4. 0 \in T
    BY <1>1, <1>3
  <1>5. ASSUME NEW i \in Nat, i \in T PROVE i + 1 \in T
    <2>1. SUFFICES ASSUME i + 1 <= n PROVE OK(t[i + 1], i + 1)
      OBVIOUS
    <2>2. OK(t[i], i) /\ i + 1 \in 1..n /\ t[i + 1] = WaitingTurn(s, t[i], q[i + 1])
      BY <1>1, <1>2, <1>5, <2>1
    <2>3. /\ First(q, i + 1) = First(q, i) \cup {q[i + 1]}
          /\ q[i + 1] \in ToSet(q) \ First(q, i)
      BY <1>1, <2>1, FirstFacts DEF n
    <2>. DEFINE a == t[i].work
                b == t[i + 1].work
                r == q[i + 1]
    <2>4. CASE t[i].open /\ Tokens(a) < TokenBudget /\ StockFits(s, WithRequest(s, a, r))
      <3>1. r \in Workload(s) /\ r \notin PrefillIds(a)
        BY <2>2, <2>3
      <3>2. t[i + 1] = [t[i] EXCEPT !.work = WithRequest(s, a, r)]
        BY <2>2, <2>4 DEF WaitingTurn
      <3>3. b = WithRequest(s, a, r) /\ t[i + 1].open = t[i].open
        BY <2>2, <3>2
      <3>4. /\ IsPlan(s, b) /\ Tokens(b) <= TokenBudget
            /\ PrefillIds(b) \subseteq PrefillIds(a) \cup {r}
            /\ Scheduled(b) = Scheduled(a) \cup {r}
        BY <2>2, <2>4, <3>1, <3>3, WithRequestFacts
      <3>5. t[i + 1] \in [work : Plans, open : BOOLEAN]
        BY <2>2, <3>2, <3>3, <3>4 DEF IsPlan
      <3>6. StockFits(s, b)
        BY <2>4, <3>3
      <3>7. FirstFits => q[1] \in Scheduled(b)
        <4>. HIDE DEF a, b, FirstFits
        <4>1. CASE i = 0
          BY <3>4, <4>1
        <4>2. CASE i # 0
          BY <2>2, <3>4, <4>2 DEF a
        <4>. QED  BY <4>1, <4>2
      <3>. HIDE DEF FirstFits
      <3>. QED  BY <2>2, <2>3, <3>4, <3>5, <3>6, <3>7
    <2>5. CASE ~(t[i].open /\ Tokens(a) < TokenBudget /\ StockFits(s, WithRequest(s, a, r)))
      <3>1. t[i + 1] = [t[i] EXCEPT !.open = FALSE]
        BY <2>2, <2>5 DEF WaitingTurn
      <3>2. b = a /\ t[i + 1] \in [work : Plans, open : BOOLEAN]
        BY <2>2, <3>1
      <3>3. i = 0 => ~FirstFits
        BY <1>3, <2>5
      <3>. HIDE DEF FirstFits
      <3>. QED  BY <2>2, <2>3, <3>2, <3>3
    <2>. QED  BY <2>4, <2>5
  <1>6. n \in T
    <2>1. Nat \subseteq T
      <3>. HIDE DEF T
      <3>. QED  BY <1>4, <1>5, InductionOnNat
    <2>. QED  BY <1>1, <2>1
  <1>7. First(q, n) = ToSet(q) /\ (q # <<>> => n # 0)
    <2>1. q # <<>> => n # 0
      BY EmptySeq DEF n
    <2>. QED  BY <1>1, <2>1, FirstFacts DEF n
  <1>. QED  BY <1>1, <1>2, <1>6, <1>7

LEMMA KvClampFacts ==
  ASSUME NEW s, NEW items, NEW r, NEW requested \in Int
  PROVE  KvClamp(s, items, r, requested) \in {0} \cup (1..requested)
  <1>. DEFINE n == IF requested < 0 THEN 0 ELSE requested
              fits == {0} \cup {m \in 1..requested :
                         ProjectKv(s, Work(Append(items, <<r, m>>), Decodes(s))) <= TotalBlocks}
  <1>1. n \in Nat /\ fits \in SUBSET (0..n) /\ fits # {} /\ fits \subseteq {0} \cup (1..requested)
    OBVIOUS
  <1>. HIDE DEF fits, n
  <1>2. Max(fits) \in fits
    BY <1>1, MaxOfIndices
  <1>. QED  BY <1>1, <1>2 DEF KvClamp, fits

(* A turn of _fill_prefill adds nothing, or some remaining tokens. *)
LEMMA FillStepFacts ==
  ASSUME NEW s, IsSnapshot(s), NEW budget \in Int, NEW items \in Seq(Items), NEW r \in Requests
  PROVE  \/ FillStep(s, budget, items, r) = items
         \/ \E k \in 1..Remaining(s, r) : FillStep(s, budget, items, r) = Append(items, <<r, k>>)
  <1>. DEFINE done == PrefillTokens(Work(items, {}))
              requested == Smaller(Remaining(s, r), budget - done)
              k == KvClamp(s, items, r, requested)
  <1>1. done \in Nat
    <2>1. Work(items, {}) \in Plans
      BY DEF Work, Plans
    <2>. QED  BY <2>1, TokensFacts
  <1>2. Remaining(s, r) \in Int
    BY SnapshotFacts
  <1>. HIDE DEF done
  <1>3. requested \in Int /\ requested <= Remaining(s, r)
    BY <1>1, <1>2 DEF Smaller
  <1>. HIDE DEF requested
  <1>4. k \in {0} \cup (1..requested)
    BY <1>3, KvClampFacts
  <1>5. k # 0 => k \in 1..Remaining(s, r)
    BY <1>2, <1>3, <1>4
  <1>6. \/ FillStep(s, budget, items, r) = items
        \/ k # 0 /\ FillStep(s, budget, items, r) = Append(items, <<r, k>>)
    BY DEF FillStep, done, requested
  <1>. QED  BY <1>5, <1>6


LEMMA FillTrace ==
  ASSUME NEW s, IsSnapshot(s), NEW budget \in Int
  PROVE  \E t : /\ t[0] = <<>> /\ t[Len(RankPrefill(s))] = FillPrefill(s, budget)
                /\ \A i \in 1..Len(RankPrefill(s)) : t[i] = FillStep(s, budget, t[i - 1], RankPrefill(s)[i])
  <1>. DEFINE n == Len(RankPrefill(s))
              A == Seq(Items)
              step == [p \in A \X (1..n) |-> FillStep(s, budget, p[1], RankPrefill(s)[p[2]])]
              Body(iter) == [d \in SUBSET (1..n) |->
                               IF d = {} THEN <<>>
                               ELSE FillStep(s, budget, iter[d \ {Max(d)}], RankPrefill(s)[Max(d)])]
              it == CHOOSE iter : iter = Body(iter)
  <1>1. n \in Nat /\ DOMAIN RankPrefill(s) = 1..n /\ <<>> \in A
    BY RankPrefillFacts, EmptySeq
  <1>2. \A a \in A, i \in 1..n : step[<<a, i>>] = FillStep(s, budget, a, RankPrefill(s)[i]) /\ step[<<a, i>>] \in A
    <2>1. \A a \in A, r \in Requests : FillStep(s, budget, a, r) \in A
      <3>1. ASSUME NEW a \in A, NEW r \in Requests PROVE FillStep(s, budget, a, r) \in A
        <4>1. \A k \in 1..Remaining(s, r) : Append(a, <<r, k>>) \in A
          <5>1. \A k \in 1..Remaining(s, r) : <<r, k>> \in Items
            BY SnapshotFacts DEF Items
          <5>. QED  BY <5>1, AppendProperties
        <4>2. \/ FillStep(s, budget, a, r) = a
              \/ \E k \in 1..Remaining(s, r) : FillStep(s, budget, a, r) = Append(a, <<r, k>>)
          BY FillStepFacts
        <4>. HIDE DEF A
        <4>. QED  BY <4>1, <4>2
      <3>. QED  BY <3>1
    <2>2. \A i \in 1..n : RankPrefill(s)[i] \in Requests
      BY RankPrefillFacts
    <2>. HIDE DEF A, n
    <2>. QED  BY <2>1, <2>2
  <1>3. PICK g \in [SUBSET (1..n) -> A] : Unfolds(g, 1..n, <<>>, Largest(n), step)
    <2>. HIDE DEF n, A, step
    <2>. QED  BY <1>1, <1>2, LoopExists
  <1>4. g = Body(g)
    <2>1. ASSUME NEW d \in SUBSET (1..n) PROVE g[d] = Body(g)[d]
      <3>1. Largest(n)[d] = Max(d) /\ (d # {} => Max(d) \in d)
        BY <1>1, Intervals DEF Largest
      <3>. HIDE DEF step, A, n
      <3>. QED  BY <1>2, <1>3, <3>1 DEF Unfolds, UnfoldsAt
    <2>2. Body(g) = [d \in SUBSET (1..n) |-> Body(g)[d]] /\ g = [d \in SUBSET (1..n) |-> g[d]]
      OBVIOUS
    <2>. HIDE DEF Body
    <2>. QED  BY <2>1, <2>2
  <1>5. it = Body(it)
    <2>. HIDE DEF Body
    <2>. QED  BY <1>4
  <1>6. it[1..n] = FillPrefill(s, budget)
    BY <1>1 DEF FillPrefill, FoldLeft, MapThenFoldSet
  <1>. DEFINE t == [i \in 0..n |-> it[1..i]]
  <1>7. /\ t[0] = <<>> /\ t[n] = it[1..n]
        /\ \A i \in 1..n : t[i] = FillStep(s, budget, t[i - 1], RankPrefill(s)[i])
    <2>. HIDE DEF it, n
    <2>1. t[0] = <<>>
      <3>1. t[0] = it[{}]
        BY <1>1, Intervals
      <3>. QED  BY <1>5, <3>1
    <2>2. ASSUME NEW i \in 1..n PROVE t[i] = FillStep(s, budget, t[i - 1], RankPrefill(s)[i])
      <3>1. t[i] = it[1..i] /\ t[i - 1] = it[1..(i - 1)]
        BY <1>1
      <3>2. /\ 1..i \in SUBSET (1..n) /\ 1..i # {}
            /\ Max(1..i) = i /\ (1..i) \ {i} = 1..(i - 1)
        BY <1>1, Intervals
      <3>3. it[1..i] = FillStep(s, budget, it[(1..i) \ {Max(1..i)}], RankPrefill(s)[Max(1..i)])
        BY <1>5, <3>2
      <3>. HIDE DEF t
      <3>. QED  BY <3>1, <3>2, <3>3
    <2>3. t[n] = it[1..n]
      BY <1>1
    <2>. QED  BY <2>1, <2>2, <2>3
  <1>. QED  BY <1>6, <1>7

(* The prefill items of a candidate, beside all decodes. *)
LEMMA FillFacts ==
  ASSUME NEW s, IsSnapshot(s), NEW budget \in Int
  PROVE  IsPlan(s, Work(FillPrefill(s, budget), Decodes(s)))
  <1>. DEFINE q == RankPrefill(s)
              n == Len(q)
              With(items) == Work(items, Decodes(s))
              OK(items, i) == /\ items \in Seq(Items) /\ IsPlan(s, With(items))
                              /\ PrefillIds(With(items)) \subseteq First(q, i)
  <1>1. q \in Seq(Requests) /\ IsInjective(q) /\ n \in Nat /\ ToSet(q) = Prefills(s)
    BY RankPrefillFacts
  <1>2. PICK t : /\ t[0] = <<>> /\ t[n] = FillPrefill(s, budget)
                 /\ \A i \in 1..n : t[i] = FillStep(s, budget, t[i - 1], q[i])
    BY FillTrace
  <1>. DEFINE T == {i \in Nat : i <= n => OK(t[i], i)}
  <1>. HIDE DEF q, n
  <1>3. 0 \in T
    <2>1. With(<<>>) \in Plans /\ <<>> \in Seq(Items)
      BY SnapshotFacts, EmptySeq DEF Work, Plans
    <2>2. With(<<>>).prefill = <<>> /\ With(<<>>).decode = Decodes(s) /\ DOMAIN <<>> = {}
      BY DEF Work
    <2>3. IsPlan(s, With(<<>>)) /\ PrefillIds(With(<<>>)) = {}
      <3>. HIDE DEF With
      <3>. QED  BY <2>1, <2>2 DEF IsPlan, PrefillIds
    <2>. QED  BY <1>2, <2>1, <2>3
  <1>4. ASSUME NEW i \in Nat, i \in T PROVE i + 1 \in T
    <2>1. SUFFICES ASSUME i + 1 <= n PROVE OK(t[i + 1], i + 1)
      OBVIOUS
    <2>2. OK(t[i], i) /\ i + 1 \in 1..n /\ t[i + 1] = FillStep(s, budget, t[i], q[i + 1])
      BY <1>1, <1>2, <1>4, <2>1
    <2>3. /\ First(q, i + 1) = First(q, i) \cup {q[i + 1]}
          /\ q[i + 1] \in ToSet(q) \ First(q, i)
      BY <1>1, <2>1, FirstFacts DEF n
    <2>. DEFINE r == q[i + 1]
    <2>4. r \in Prefills(s) \ PrefillIds(With(t[i])) /\ r \in Requests
      BY <1>1, <2>2, <2>3, SnapshotFacts
    <2>. HIDE DEF r
    <2>5. CASE t[i + 1] = t[i]
      BY <2>2, <2>3, <2>5
    <2>6. ASSUME NEW k \in 1..Remaining(s, r), t[i + 1] = Append(t[i], <<r, k>>)
          PROVE  OK(t[i + 1], i + 1)
      <3>1. With(t[i]).prefill = t[i] /\ With(t[i]).decode = Decodes(s)
        BY DEF Work
      <3>2. With(t[i + 1]) = Work(Append(With(t[i]).prefill, <<r, k>>), With(t[i]).decode)
        BY <2>6, <3>1
      <3>3. <<r, k>> \in Items
        BY <2>4, SnapshotFacts DEF Items
      <3>4. t[i + 1] \in Seq(Items)
        BY <2>2, <2>6, <3>3, AppendProperties
      <3>. HIDE DEF With
      <3>5. /\ IsPlan(s, With(t[i + 1]))
            /\ PrefillIds(With(t[i + 1])) = PrefillIds(With(t[i])) \cup {r}
        BY <2>2, <2>4, <3>2, ExtendPlan
      <3>. QED  BY <2>2, <2>3, <3>4, <3>5 DEF r
    <2>7. \/ t[i + 1] = t[i]
          \/ \E k \in 1..Remaining(s, r) : t[i + 1] = Append(t[i], <<r, k>>)
      <3>1. t[i + 1] = FillStep(s, budget, t[i], r) /\ t[i] \in Seq(Items)
        BY <2>2 DEF r
      <3>. HIDE DEF OK
      <3>. QED  BY <2>4, <3>1, FillStepFacts
    <2>. QED  BY <2>5, <2>6, <2>7
  <1>5. n \in T
    <2>1. Nat \subseteq T
      <3>. HIDE DEF T
      <3>. QED  BY <1>3, <1>4, InductionOnNat
    <2>. QED  BY <1>1, <2>1
  <1>. QED  BY <1>1, <1>2, <1>5

(* The stock plan is a plan within the token budget, and fits or is empty. *)
LEMMA StockPlanFacts ==
  ASSUME NEW s, IsSnapshot(s)
  PROVE  /\ IsPlan(s, BuildStockPlan(s)) /\ Tokens(BuildStockPlan(s)) <= TokenBudget
         /\ BuildStockPlan(s) = NoWork \/ StockFits(s, BuildStockPlan(s))
  <1>. DEFINE w == StockRunning(s)
              q == ByArrival(s.waiting)
  <1>1. /\ IsPlan(s, w) /\ Tokens(w) <= TokenBudget /\ Scheduled(w) \subseteq ToSet(s.running)
        /\ w = NoWork \/ StockFits(s, w)
    BY StockRunningFacts
  <1>2. /\ q \in Seq(Requests) /\ IsInjective(q) /\ ToSet(q) = ToSet(s.waiting)
    BY ByArrivalFacts DEF IsSnapshot
  <1>3. ToSet(q) \subseteq Workload(s) /\ PrefillIds(w) \cap ToSet(q) = {}
    BY <1>1, <1>2, SnapshotFacts DEF IsSnapshot, Scheduled
  <1>. HIDE DEF w, q
  <1>4. /\ IsPlan(s, AddWaiting(s, w, q)) /\ Tokens(AddWaiting(s, w, q)) <= TokenBudget
        /\ AddWaiting(s, w, q) = w \/ StockFits(s, AddWaiting(s, w, q))
    BY <1>1, <1>2, <1>3, AddWaitingFacts
  <1>. QED  BY <1>1, <1>4 DEF BuildStockPlan, w, q

LEMMA ZeroFacts ==
  ASSUME NEW s, IsSnapshot(s)
  PROVE  IsPlan(s, Zero(s)) /\ Zero(s).prefill = <<>> /\ Zero(s).decode = Decodes(s)
  <1>1. Zero(s) \in Plans
    BY SnapshotFacts, EmptySeq DEF Zero, Work, Plans
  <1>2. Zero(s).prefill = <<>> /\ Zero(s).decode = Decodes(s) /\ DOMAIN <<>> = {}
    BY DEF Zero, Work
  <1>. QED  BY <1>1, <1>2 DEF IsPlan

(* Every candidate is a plan for the snapshot it was generated from. *)
LEMMA GenerateFacts ==
  ASSUME NEW s, IsSnapshot(s)
  PROVE  \A w \in Generate(s) : IsPlan(s, w)
  <1>1. Budgets(s) \subseteq Int
    <2>. DEFINE f == [r \in Prefills(s) |-> Remaining(s, r)]
    <2>1. SumFunction(f) \in Int
      <3>1. IsFiniteSet(Prefills(s)) /\ \A r \in Prefills(s) : f[r] \in Int
        BY SnapshotFacts, BatchAssumption, FS_Subset
      <3>2. SumFunction(f) = SumFunctionOnSet(f, Prefills(s))
        BY DEF SumFunction
      <3>. HIDE DEF f
      <3>. QED  BY <3>1, <3>2, SumType
    <2>2. TokenBudget - Cardinality(Decodes(s)) \in Int
      BY ZeroFacts, PlanFacts, BatchAssumption DEF IsPlan
    <2>3. \A m \in Int, k \in 1..10 : (m * k) \div 10 \in Int
      OBVIOUS
    <2>4. \A a, b \in Int : Smaller(a, b) \in Int
      BY DEF Smaller
    <2>. DEFINE backlog == SumFunction(f)
                room == TokenBudget - Cardinality(Decodes(s))
                maximum == IF room <= 0 THEN 0 ELSE Smaller(backlog, room)
    <2>5. maximum \in Int
      <3>. HIDE DEF backlog, room
      <3>. QED  BY <2>1, <2>2, <2>4 DEF backlog, room
    <2>6. Budgets(s) = {(maximum * k) \div 10 : k \in 1..10} \ {0}
      BY DEF Budgets
    <2>. HIDE DEF maximum
    <2>. QED  BY <2>3, <2>5, <2>6
  <1>. QED  BY <1>1, ZeroFacts, StockPlanFacts, FillFacts DEF Generate

(* And so is whatever the fallback builds. *)
LEMMA FallbackFacts ==
  ASSUME NEW s, IsSnapshot(s), NEW mandatory
  PROVE  \A w \in FallbackPlans(s, mandatory) : IsPlan(s, w)
  <1>1. ASSUME NEW w \in FallbackDecode(s, mandatory) PROVE IsPlan(s, w)
    <2>1. PICK chosen \in SUBSET Decodes(s) : w \in {NoWork, Work(<<>>, chosen)}
      BY DEF FallbackDecode
    <2>2. Work(<<>>, chosen) \in Plans
      BY SnapshotFacts, EmptySeq DEF Work, Plans
    <2>3. Work(<<>>, chosen).prefill = <<>> /\ Work(<<>>, chosen).decode = chosen /\ DOMAIN <<>> = {}
      BY DEF Work
    <2>4. IsPlan(s, Work(<<>>, chosen))
      BY <2>2, <2>3 DEF IsPlan
    <2>. QED  BY <2>1, <2>4, NoWorkFacts
  <1>2. ASSUME NEW w \in FallbackPrefill(s) PROVE IsPlan(s, w)
    <2>1. PICK r \in Bindable(s) : w = Work(<<<<r, Smaller(Remaining(s, r), MinChunk)>>>>, {})
      BY DEF FallbackPrefill
    <2>. DEFINE k == Smaller(Remaining(s, r), MinChunk)
    <2>2. r \in Prefills(s)
      <3>1. r \in ToSet(RankPrefill(s))
        BY DEF Bindable, ToSet
      <3>. QED  BY <3>1, RankPrefillFacts
    <2>3. k \in 1..Remaining(s, r)
      BY <2>2, SnapshotFacts, BatchAssumption DEF Smaller
    <2>4. NoWork.prefill = <<>> /\ NoWork.decode = {}
      BY DEF NoWork, Work
    <2>5. Append(<<>>, <<r, k>>) = <<<<r, k>>>>
      OBVIOUS
    <2>. HIDE DEF k
    <2>6. w = Work(Append(NoWork.prefill, <<r, k>>), NoWork.decode)
      BY <2>1, <2>4, <2>5 DEF k
    <2>. QED  BY <2>2, <2>3, <2>6, NoWorkFacts, ExtendPlan
  <1>. QED  BY <1>1, <1>2, NoWorkFacts DEF FallbackPlans

-----------------------------------------------------------------------------
(* Blocks. *)

LEMMA BlocksFacts ==
  /\ \A a \in Nat : Blocks(a) \in Nat
  /\ Blocks(0) = 0
  /\ \A a, b \in Nat : a <= b => Blocks(a) <= Blocks(b)
  <1>1. BlockSize \in Nat \ {0}
    BY BatchAssumption
  <1>2. ASSUME NEW a \in Nat PROVE (a + BlockSize - 1) \div BlockSize \in Nat
    BY <1>1
  <1>3. (0 + BlockSize - 1) \div BlockSize = 0
    BY <1>1
  <1>4. ASSUME NEW a \in Nat, NEW b \in Nat, a <= b
        PROVE (a + BlockSize - 1) \div BlockSize <= (b + BlockSize - 1) \div BlockSize
    BY <1>1, <1>4
  <1>. QED  BY <1>2, <1>3, <1>4 DEF Blocks

(* The blocks each request holds, when they are those of what it has computed. *)
IsAccounted(s, held) ==
  /\ held \in [Requests -> Nat]
  /\ \A r \in Requests : held[r] = IF r \in RunningSet(s) THEN Blocks(s.computed[r]) ELSE 0
  /\ s.used = SumFunctionOnSet(held, Requests)

Released(s, S) == SumFunction([r \in S |-> Blocks(s.computed[r])])

(* The projection of a plan is what is held once its tokens are allocated    *)
(* and the blocks of some running requests, that it does not schedule, freed. *)
LEMMA ProjectionIsHeld ==
  ASSUME NEW s, IsSnapshot(s), NEW w, IsPlan(s, w), NEW before, IsAccounted(s, before),
         NEW S \in SUBSET RunningSet(s), S \cap Scheduled(w) = {}, NEW after,
         \A r \in Requests : after[r] = IF r \in S THEN 0
                                        ELSE IF r \in Scheduled(w)
                                        THEN Blocks(s.computed[r] + TokensOf(w, r))
                                        ELSE before[r]
  PROVE  /\ SumFunctionOnSet(after, Requests) = ProjectKv(s, w) - Released(s, S)
         /\ ProjectKv(s, w) \in Int /\ Released(s, S) \in Int
  <1>. DEFINE P == Scheduled(w)
              new == [r \in P |-> NewBlocks(s, r, TokensOf(w, r))]
              old == [r \in S |-> Blocks(s.computed[r])]
              g == [r \in Requests |-> IF r \in P THEN new[r] ELSE 0]
              h == [r \in Requests |-> IF r \in S THEN old[r] ELSE 0]
              m == [r \in Requests |-> before[r] + g[r]]
  <1>1. IsFiniteSet(Requests)
    BY BatchAssumption
  <1>2. P \subseteq Workload(s) /\ P \subseteq Requests /\ S \subseteq Requests
    <2>1. P \subseteq Workload(s) /\ Workload(s) \subseteq Requests
      BY TokensOfFacts, SnapshotFacts DEF Workload
    <2>2. RunningSet(s) \subseteq Requests
      BY DEF RunningSet, IsSnapshot, ToSet
    <2>. QED  BY <2>1, <2>2
  <1>3. \A r \in Requests : /\ s.computed[r] \in Nat /\ TokensOf(w, r) \in Nat
                            /\ Blocks(s.computed[r]) \in Nat
                            /\ Blocks(s.computed[r] + TokensOf(w, r)) \in Nat
    <2>1. \A r \in Requests : s.computed[r] \in Nat /\ TokensOf(w, r) \in Nat
      BY TokensOfFacts DEF IsSnapshot
    <2>2. \A a, b \in Nat : Blocks(a) \in Nat /\ Blocks(a + b) \in Nat
      <3>1. \A a, b \in Nat : a + b \in Nat
        OBVIOUS
      <3>. QED  BY <3>1, BlocksFacts
    <2>. QED  BY <2>1, <2>2
  <1>4. \A r \in P : before[r] = Blocks(s.computed[r])
    <2>1. ASSUME NEW r \in P PROVE before[r] = Blocks(s.computed[r])
      <3>1. CASE r \in RunningSet(s)
        BY <1>2, <3>1 DEF IsAccounted
      <3>2. CASE r \notin RunningSet(s)
        <4>1. r \in ToSet(s.waiting)
          BY <1>2, <3>2, SnapshotFacts DEF RunningSet
        <4>2. s.computed[r] = 0
          BY <4>1 DEF IsSnapshot
        <4>. QED  BY <1>2, <3>2, <4>2, BlocksFacts DEF IsAccounted
      <3>. QED  BY <3>1, <3>2
    <2>. QED  BY <2>1
  <1>5. \A r \in S : before[r] = old[r] /\ old[r] = Blocks(s.computed[r])
    BY <1>2 DEF IsAccounted
  <1>6. \A r \in P : new[r] = Blocks(s.computed[r] + TokensOf(w, r)) - Blocks(s.computed[r])
    BY DEF NewBlocks
  <1>7. \A r \in Requests : before[r] \in Int
    BY DEF IsAccounted
  <1>8. (\A r \in P : new[r] \in Int) /\ (\A r \in S : old[r] \in Int)
    <2>. HIDE DEF new, old, P
    <2>. QED  BY <1>2, <1>3, <1>5, <1>6
  <1>. HIDE DEF new, old, P
  <1>9. \A r \in Requests : /\ g[r] \in Int /\ h[r] \in Int /\ m[r] \in Int
                            /\ m[r] = before[r] + g[r]
    BY <1>7, <1>8
  <1>10. \A r \in Requests : after[r] \in Int /\ m[r] = after[r] + h[r]
    <2>1. ASSUME NEW r \in Requests PROVE after[r] \in Int /\ m[r] = after[r] + h[r]
      <3>1. CASE r \in S
        <4>1. r \notin P
          BY <3>1 DEF P
        <4>. QED  BY <1>5, <1>7, <3>1, <4>1
      <3>2. CASE r \notin S /\ r \in P
        <4>1. after[r] = Blocks(s.computed[r] + TokensOf(w, r))
          BY <3>2 DEF P
        <4>. QED  BY <1>3, <1>4, <1>6, <1>7, <3>2, <4>1
      <3>3. CASE r \notin S /\ r \notin P
        <4>1. after[r] = before[r]
          BY <3>3 DEF P
        <4>. QED  BY <1>7, <3>3, <4>1
      <3>. QED  BY <3>1, <3>2, <3>3
    <2>. QED  BY <2>1
  <1>11. /\ \A r \in P : g[r] = new[r] /\ g[r] \in Int
         /\ \A r \in Requests \ P : g[r] = 0
         /\ \A r \in S : h[r] = old[r] /\ h[r] \in Int
         /\ \A r \in Requests \ S : h[r] = 0
    BY <1>2, <1>8
  <1>. HIDE DEF g, h, m
  <1>12. SumFunctionOnSet(m, Requests) =
            SumFunctionOnSet(before, Requests) + SumFunctionOnSet(g, Requests)
    BY <1>1, <1>7, <1>9, SumPlus
  <1>13. SumFunctionOnSet(m, Requests) =
            SumFunctionOnSet(after, Requests) + SumFunctionOnSet(h, Requests)
    BY <1>1, <1>9, <1>10, SumPlus
  <1>14. SumFunctionOnSet(g, Requests) = SumFunctionOnSet(new, P)
    <2>1. SumFunctionOnSet(g, Requests) = SumFunctionOnSet(g, P)
      BY <1>1, <1>2, <1>9, <1>11, SumZeros
    <2>2. IsFiniteSet(P)
      BY <1>1, <1>2, FS_Subset
    <2>3. SumFunctionOnSet(new, P) = SumFunctionOnSet(g, P)
      BY <1>11, <2>2, SumEqual
    <2>. QED  BY <2>1, <2>3
  <1>15. SumFunctionOnSet(h, Requests) = SumFunctionOnSet(old, S)
    <2>1. SumFunctionOnSet(h, Requests) = SumFunctionOnSet(h, S)
      BY <1>1, <1>2, <1>9, <1>11, SumZeros
    <2>2. IsFiniteSet(S)
      BY <1>1, <1>2, FS_Subset
    <2>3. SumFunctionOnSet(old, S) = SumFunctionOnSet(h, S)
      BY <1>11, <2>2, SumEqual
    <2>. QED  BY <2>1, <2>3
  <1>16. /\ SumFunctionOnSet(g, Requests) \in Int /\ SumFunctionOnSet(h, Requests) \in Int
         /\ SumFunctionOnSet(after, Requests) \in Int
         /\ SumFunctionOnSet(before, Requests) \in Int
    BY <1>1, <1>7, <1>9, <1>10, SumType
  <1>17. ProjectKv(s, w) = SumFunctionOnSet(before, Requests) + SumFunctionOnSet(new, P)
    BY DEF ProjectKv, SumFunction, IsAccounted, new, P
  <1>18. Released(s, S) = SumFunctionOnSet(old, S)
    BY DEF Released, SumFunction, old
  <1>. QED  BY <1>12, <1>13, <1>14, <1>15, <1>16, <1>17, <1>18

(* The front of a queue. *)
LEMMA FrontFacts ==
  ASSUME NEW R, NEW q \in Seq(R), IsInjective(q), NEW k \in 0..Len(q)
  PROVE  /\ SubSeq(q, 1, k) \in Seq(R) /\ Len(SubSeq(q, 1, k)) = k
         /\ IsInjective(SubSeq(q, 1, k)) /\ ToSet(SubSeq(q, 1, k)) \subseteq ToSet(q)
         /\ k # 0 => SubSeq(q, 1, k)[1] = q[1]
  <1>. DEFINE p == SubSeq(q, 1, k)
  <1>1. k \in Nat /\ k <= Len(q) /\ DOMAIN q = 1..Len(q) /\ Len(q) \in Nat
    OBVIOUS
  <1>2. \A i \in 1..k : q[i] \in R
    BY <1>1
  <1>3. p \in Seq(R) /\ Len(p) = k /\ \A i \in 1..k : p[i] = q[i]
    <2>1. /\ p \in Seq(R) /\ Len(p) = IF 1 <= k THEN k - 1 + 1 ELSE 0
          /\ \A i \in 1..(k - 1 + 1) : p[i] = q[1 + i - 1]
      BY <1>1, <1>2, SubSeqProperties
    <2>2. \A i \in 1..k : i \in 1..(k - 1 + 1) /\ 1 + i - 1 = i
      BY <1>1
    <2>3. (IF 1 <= k THEN k - 1 + 1 ELSE 0) = k
      BY <1>1
    <2>. HIDE DEF p
    <2>. QED  BY <2>1, <2>2, <2>3
  <1>. HIDE DEF p
  <1>4. DOMAIN p = 1..k /\ \A i \in 1..k : i \in DOMAIN q
    BY <1>1, <1>3
  <1>5. IsInjective(p) /\ ToSet(p) \subseteq ToSet(q)
    BY <1>3, <1>4 DEF IsInjective, ToSet
  <1>6. k # 0 => p[1] = q[1]
    BY <1>1, <1>3
  <1>. QED  BY <1>3, <1>5, <1>6 DEF p

(* Every request of the snapshot fits by itself, as far as it can grow now. *)
HasRoom(s) ==
  \A r \in Workload(s) :
     /\ Blocks(Prompt[r]) <= TotalBlocks
     /\ r \in Decodes(s) => Blocks(s.computed[r] + 1) <= TotalBlocks

LEMMA RoomFacts ==
  ASSUME NEW s, IsSnapshot(s), HasRoom(s), NEW w, IsPlan(s, w), NEW r \in Scheduled(w)
  PROVE  /\ r \in Requests /\ s.computed[r] \in Nat
         /\ Blocks(s.computed[r] + TokensOf(w, r)) \in Nat
         /\ Blocks(s.computed[r] + TokensOf(w, r)) <= TotalBlocks
  <1>1. r \in Workload(s) /\ r \in Requests /\ s.computed[r] \in Nat
    BY TokensOfFacts, SnapshotFacts DEF Workload, IsSnapshot
  <1>2. TokensOf(w, r) \in Nat
    BY TokensOfFacts
  <1>3. Blocks(s.computed[r] + TokensOf(w, r)) \in Nat
    BY <1>1, <1>2, BlocksFacts
  <1>4. CASE r \in w.decode
    <2>1. TokensOf(w, r) = 1 /\ r \in Decodes(s)
      BY <1>4, TokensOfFacts DEF IsPlan
    <2>. QED  BY <1>1, <1>3, <2>1 DEF HasRoom
  <1>5. CASE r \in PrefillIds(w)
    <2>1. TokensOf(w, r) <= Remaining(s, r) /\ Remaining(s, r) = Prompt[r] - s.computed[r]
      BY <1>5, TokensOfFacts, SnapshotFacts DEF Remaining
    <2>2. Prompt[r] \in Nat
      BY <1>1, BatchAssumption
    <2>3. s.computed[r] + TokensOf(w, r) \in Nat /\ s.computed[r] + TokensOf(w, r) <= Prompt[r]
      BY <1>1, <1>2, <2>1, <2>2
    <2>4. Blocks(s.computed[r] + TokensOf(w, r)) <= Blocks(Prompt[r]) /\ Blocks(Prompt[r]) \in Nat
      BY <2>2, <2>3, BlocksFacts
    <2>5. Blocks(Prompt[r]) <= TotalBlocks /\ TotalBlocks \in Nat
      BY <1>1, BatchAssumption DEF HasRoom
    <2>. QED  BY <1>1, <1>3, <2>4, <2>5
  <1>. QED  BY <1>1, <1>3, <1>4, <1>5 DEF Scheduled

LEMMA SingletonProjection ==
  ASSUME NEW s, IsSnapshot(s), NEW w, IsPlan(s, w), NEW r, Scheduled(w) = {r}
  PROVE  /\ r \in Requests /\ s.computed[r] \in Nat /\ Blocks(s.computed[r]) \in Nat
         /\ Blocks(s.computed[r] + TokensOf(w, r)) \in Nat
         /\ ProjectKv(s, w) =
               s.used + (Blocks(s.computed[r] + TokensOf(w, r)) - Blocks(s.computed[r]))
  <1>. DEFINE f == [x \in Scheduled(w) |-> NewBlocks(s, x, TokensOf(w, x))]
  <1>1. r \in Requests /\ s.computed[r] \in Nat /\ TokensOf(w, r) \in Nat
    BY TokensOfFacts, SnapshotFacts DEF Workload, IsSnapshot
  <1>2. Blocks(s.computed[r]) \in Nat /\ Blocks(s.computed[r] + TokensOf(w, r)) \in Nat
    <2>1. s.computed[r] + TokensOf(w, r) \in Nat
      BY <1>1
    <2>. QED  BY <1>1, <2>1, BlocksFacts
  <1>3. f[r] = Blocks(s.computed[r] + TokensOf(w, r)) - Blocks(s.computed[r])
    BY DEF NewBlocks
  <1>4. ProjectKv(s, w) = s.used + SumFunctionOnSet(f, {r})
    BY DEF ProjectKv, SumFunction
  <1>. HIDE DEF f
  <1>5. SumFunctionOnSet(f, {r}) = f[r] + SumFunctionOnSet(f, {r} \ {r})
    <2>1. f[r] \in Int
      BY <1>2, <1>3
    <2>2. IsFiniteSet({r}) /\ \A x \in {r} : f[x] \in Int
      BY <2>1, FS_Singleton
    <2>. QED  BY <2>2, SumRemove
  <1>6. SumFunctionOnSet(f, {r} \ {r}) = 0
    <2>1. {r} \ {r} = {}
      OBVIOUS
    <2>. QED  BY <2>1, SumOfNone
  <1>7. f[r] \in Int
    BY <1>2, <1>3
  <1>. QED  BY <1>1, <1>2, <1>3, <1>4, <1>5, <1>6, <1>7

(* The running requests vLLM keeps: a front of its queue whose plan fits once *)
(* the others are preempted, never empty while a request by itself fits.     *)
LEMMA NativeKeptFacts ==
  ASSUME NEW s, IsSnapshot(s), HasRoom(s), NEW held, IsAccounted(s, held), s.used <= TotalBlocks
  PROVE  /\ NativeKept(s) \in Seq(Requests) /\ IsInjective(NativeKept(s))
         /\ ToSet(NativeKept(s)) \subseteq RunningSet(s)
         /\ Len(NativeKept(s)) <= Len(s.running)
         /\ ProjectKv(s, NativeRunning(s, NativeKept(s)))
               - Released(s, RunningSet(s) \ ToSet(NativeKept(s))) <= TotalBlocks
         /\ s.running # <<>> => NativeKept(s) # <<>>
  <1>. DEFINE q == s.running
              n == Len(q)
              front(k) == SubSeq(q, 1, k)
              left(k) == ProjectKv(s, NativeRunning(s, front(k)))
                            - Released(s, RunningSet(s) \ ToSet(front(k)))
              enough == {k \in 0..n : left(k) <= TotalBlocks}
  <1>1. q \in Seq(Requests) /\ IsInjective(q) /\ n \in Nat /\ ToSet(q) = RunningSet(s)
    BY DEF IsSnapshot, RunningSet
  <1>2. \A k \in 0..n : /\ front(k) \in Seq(Requests) /\ IsInjective(front(k)) /\ Len(front(k)) = k
                        /\ ToSet(front(k)) \subseteq RunningSet(s)
                        /\ k # 0 => front(k)[1] = q[1]
    <2>. HIDE DEF q
    <2>. QED  BY <1>1, FrontFacts
  <1>3. \A k \in 0..n : ToSet(front(k)) \subseteq Workload(s)
    BY <1>2, SnapshotFacts DEF RunningSet
  <1>4. NativeKept(s) = front(Max(enough))
    BY DEF NativeKept, Released
  <1>. HIDE DEF q, n, front
  <1>5. \A k \in 0..n :
           /\ IsPlan(s, NativeRunning(s, front(k)))
           /\ Scheduled(NativeRunning(s, front(k))) \subseteq ToSet(front(k))
           /\ k # 0 => q[1] \in Scheduled(NativeRunning(s, front(k)))
    <2>1. ASSUME NEW k \in 0..n
          PROVE  /\ IsPlan(s, NativeRunning(s, front(k)))
                 /\ Scheduled(NativeRunning(s, front(k))) \subseteq ToSet(front(k))
                 /\ k # 0 => q[1] \in Scheduled(NativeRunning(s, front(k)))
      <3>1. k # 0 => front(k) # <<>>
        BY <1>2, EmptySeq
      <3>. QED  BY <1>2, <1>3, <3>1, NativeRunningFacts
    <2>. QED  BY <2>1
  <1>6. 0 \in enough
    <2>1. 0 \in 0..n /\ ToSet(front(0)) = {}
      <3>1. 0 \in 0..n
        BY <1>1
      <3>2. DOMAIN front(0) = {}
        BY <1>2, <3>1
      <3>. QED  BY <3>1, <3>2 DEF ToSet
    <2>2. Scheduled(NativeRunning(s, front(0))) = {}
      BY <1>5, <2>1
    <2>. DEFINE none == [r \in Requests |-> 0]
    <2>3. \A r \in Requests : none[r] = IF r \in RunningSet(s) THEN 0 ELSE held[r]
      BY DEF IsAccounted
    <2>4. \A r \in Requests : none[r] \in Int
      OBVIOUS
    <2>. HIDE DEF none
    <2>5. SumFunctionOnSet(none, Requests) = 0
      <3>1. \A r \in Requests \ {} : none[r] = 0
        BY DEF none
      <3>2. SumFunctionOnSet(none, Requests) = SumFunctionOnSet(none, {})
        BY <2>4, <3>1, SumZeros, BatchAssumption
      <3>. QED  BY <3>2, SumOfNone
    <2>. DEFINE S == RunningSet(s)
                w == NativeRunning(s, front(0))
    <2>6. SumFunctionOnSet(none, Requests) = ProjectKv(s, w) - Released(s, S)
      <3>1. S \in SUBSET RunningSet(s) /\ S \cap Scheduled(w) = {} /\ IsPlan(s, w)
        BY <1>5, <2>1, <2>2
      <3>2. \A r \in Requests : none[r] = IF r \in S THEN 0
                                          ELSE IF r \in Scheduled(w)
                                          THEN Blocks(s.computed[r] + TokensOf(w, r))
                                          ELSE held[r]
        BY <2>2, <2>3
      <3>. HIDE DEF S, w
      <3>. QED  BY <3>1, <3>2, ProjectionIsHeld
    <2>7. RunningSet(s) \ ToSet(front(0)) = RunningSet(s)
      BY <2>1
    <2>8. left(0) = 0
      BY <2>5, <2>6, <2>7
    <2>. QED  BY <2>1, <2>8, BatchAssumption
  <1>7. enough \in SUBSET (0..n) /\ enough # {}
    BY <1>6
  <1>8. Max(enough) \in enough /\ \A k \in enough : k <= Max(enough)
    <2>. HIDE DEF enough
    <2>. QED  BY <1>1, <1>7, MaxOfIndices
  <1>9. ASSUME q # <<>> PROVE 1 \in enough
    <2>1. 1 \in 0..n
      BY <1>1, <1>9, EmptySeq DEF n
    <2>2. ToSet(front(1)) = {q[1]}
      <3>1. DOMAIN front(1) = {1} /\ front(1)[1] = q[1]
        BY <1>2, <2>1
      <3>. QED  BY <3>1 DEF ToSet
    <2>. DEFINE r == q[1]
                w == NativeRunning(s, front(1))
                S == RunningSet(s) \ {r}
                after == [x \in Requests |-> IF x = r THEN Blocks(s.computed[r] + TokensOf(w, r))
                                             ELSE 0]
    <2>3. IsPlan(s, w) /\ Scheduled(w) = {r}
      BY <1>5, <2>1, <2>2
    <2>. HIDE DEF w, r
    <2>4. /\ r \in Requests /\ Blocks(s.computed[r] + TokensOf(w, r)) \in Nat
          /\ Blocks(s.computed[r] + TokensOf(w, r)) <= TotalBlocks
      BY <2>3, RoomFacts
    <2>5. r \in RunningSet(s)
      BY <1>2, <2>1, <2>2 DEF r
    <2>6. \A x \in Requests : after[x] = IF x \in S THEN 0
                                         ELSE IF x \in Scheduled(w)
                                         THEN Blocks(s.computed[x] + TokensOf(w, x))
                                         ELSE held[x]
      BY <2>3 DEF IsAccounted
    <2>7. after[r] <= TotalBlocks /\ \A x \in Requests : after[x] \in Int
      BY <2>4
    <2>8. \A x \in Requests \ {r} : after[x] = 0
      OBVIOUS
    <2>. HIDE DEF after
    <2>9. SumFunctionOnSet(after, Requests) = after[r]
      <3>1. SumFunctionOnSet(after, Requests) = after[r] + SumFunctionOnSet(after, Requests \ {r})
        BY <2>4, <2>7, SumRemove, BatchAssumption
      <3>2. SumFunctionOnSet(after, Requests \ {r}) = SumFunctionOnSet(after, {})
        <4>. DEFINE D == Requests \ {r}
        <4>1. IsFiniteSet(D) /\ (\A x \in D : after[x] \in Int) /\ {} \in SUBSET D
              /\ \A x \in D \ {} : after[x] = 0
          BY <2>7, <2>8, BatchAssumption, FS_RemoveElement
        <4>. HIDE DEF D
        <4>2. SumFunctionOnSet(after, D) = SumFunctionOnSet(after, {})
          BY <4>1, SumZeros
        <4>. QED  BY <4>2 DEF D
      <3>. QED  BY <2>4, <2>7, <3>1, <3>2, SumOfNone
    <2>10. SumFunctionOnSet(after, Requests) = ProjectKv(s, w) - Released(s, S)
      <3>1. S \in SUBSET RunningSet(s) /\ S \cap Scheduled(w) = {}
        BY <2>3
      <3>. HIDE DEF S
      <3>. QED  BY <2>3, <2>6, <3>1, ProjectionIsHeld
    <2>11. left(1) = ProjectKv(s, w) - Released(s, S)
      BY <2>2 DEF w, r
    <2>. HIDE DEF S, left
    <2>. QED  BY <2>1, <2>7, <2>9, <2>10, <2>11
  <1>10. q # <<>> => Max(enough) # 0
    <2>. HIDE DEF enough
    <2>. QED  BY <1>1, <1>7, <1>8, <1>9
  <1>11. Max(enough) \in 0..n /\ left(Max(enough)) <= TotalBlocks
    BY <1>8
  <1>. HIDE DEF enough
  <1>. DEFINE k == Max(enough)
  <1>12. k \in 0..n /\ NativeKept(s) = front(k) /\ left(k) <= TotalBlocks
         /\ (q # <<>> => k # 0)
    BY <1>4, <1>10, <1>11
  <1>. HIDE DEF k
  <1>13. k # 0 => front(k) # <<>>
    BY <1>2, <1>12, EmptySeq
  <1>14. Len(front(k)) <= n
    BY <1>1, <1>2, <1>12
  <1>. QED  BY <1>2, <1>12, <1>13, <1>14 DEF q, n

LEMMA ProjectionType ==
  ASSUME NEW s, IsSnapshot(s), NEW w, IsPlan(s, w)
  PROVE  ProjectKv(s, w) \in Int
  <1>. DEFINE P == Scheduled(w)
              f == [r \in P |-> NewBlocks(s, r, TokensOf(w, r))]
  <1>1. P \subseteq Requests /\ IsFiniteSet(P)
    BY TokensOfFacts, SnapshotFacts, BatchAssumption, FS_Subset DEF Workload
  <1>2. \A r \in P : Blocks(s.computed[r]) \in Nat /\ Blocks(s.computed[r] + TokensOf(w, r)) \in Nat
    <2>1. \A r \in P : s.computed[r] \in Nat /\ TokensOf(w, r) \in Nat
      BY <1>1, TokensOfFacts DEF IsSnapshot
    <2>2. \A a, b \in Nat : a + b \in Nat
      OBVIOUS
    <2>. QED  BY <2>1, <2>2, BlocksFacts
  <1>3. \A r \in P : f[r] \in Int
    BY <1>2 DEF NewBlocks
  <1>4. ProjectKv(s, w) = s.used + SumFunctionOnSet(f, P) /\ s.used \in Nat
    BY DEF ProjectKv, SumFunction, IsSnapshot
  <1>. HIDE DEF P, f
  <1>5. SumFunctionOnSet(f, P) \in Int
    BY <1>1, <1>3, SumType
  <1>. QED  BY <1>4, <1>5

(* vLLM's own plan: it schedules no request it preempts, fits once those are  *)
(* freed, admits nobody beside a preemption, and idles over no workload.     *)
LEMMA NativePlanFacts ==
  ASSUME NEW s, IsSnapshot(s), HasRoom(s), NEW held, IsAccounted(s, held),
         s.used <= TotalBlocks, Len(s.running) <= SequenceBudget
  PROVE  /\ IsPlan(s, NativePlan(s))
         /\ Scheduled(NativePlan(s)) \cap (RunningSet(s) \ ToSet(NativeKept(s))) = {}
         /\ NativeKept(s) # s.running => Scheduled(NativePlan(s)) \subseteq ToSet(NativeKept(s))
         /\ NativeKept(s) = s.running => ProjectSequences(s, NativePlan(s)) <= SequenceBudget
         /\ ProjectKv(s, NativePlan(s)) - Released(s, RunningSet(s) \ ToSet(NativeKept(s)))
               <= TotalBlocks
         /\ Workload(s) # {} => NativePlan(s) # NoWork
  <1>. DEFINE kept == NativeKept(s)
              w == NativeRunning(s, kept)
              p == NativePlan(s)
              q == s.waiting
  <1>1. /\ kept \in Seq(Requests) /\ IsInjective(kept) /\ ToSet(kept) \subseteq RunningSet(s)
        /\ ProjectKv(s, w) - Released(s, RunningSet(s) \ ToSet(kept)) <= TotalBlocks
        /\ s.running # <<>> => kept # <<>>
    BY NativeKeptFacts
  <1>2. /\ q \in Seq(Requests) /\ IsInjective(q) /\ s.running \in Seq(Requests)
        /\ ToSet(s.running) \cap ToSet(q) = {} /\ ToSet(q) \subseteq Workload(s)
        /\ Workload(s) = ToSet(s.running) \cup ToSet(q) /\ RunningSet(s) = ToSet(s.running)
    BY SnapshotFacts DEF IsSnapshot, RunningSet
  <1>3. p = IF kept = s.running THEN AddWaiting(s, w, q) ELSE w
    BY DEF NativePlan
  <1>. HIDE DEF kept, p, q
  <1>4. /\ IsPlan(s, w) /\ Tokens(w) <= TokenBudget /\ Scheduled(w) \subseteq ToSet(kept)
        /\ kept # <<>> => kept[1] \in Scheduled(w)
    BY <1>1, <1>2, NativeRunningFacts
  <1>5. PrefillIds(w) \cap ToSet(q) = {}
    BY <1>1, <1>2, <1>4 DEF Scheduled
  <1>6. /\ IsPlan(s, AddWaiting(s, w, q))
        /\ Scheduled(w) \subseteq Scheduled(AddWaiting(s, w, q))
        /\ Scheduled(AddWaiting(s, w, q)) \subseteq Scheduled(w) \cup ToSet(q)
        /\ AddWaiting(s, w, q) = w \/ StockFits(s, AddWaiting(s, w, q))
        /\ q # <<>> /\ Tokens(w) < TokenBudget /\ StockFits(s, WithRequest(s, w, q[1]))
              => q[1] \in Scheduled(AddWaiting(s, w, q))
    <2>. HIDE DEF w
    <2>. QED  BY <1>2, <1>4, <1>5, AddWaitingFacts
  <1>7. CASE kept # s.running
    <2>1. p = w
      BY <1>3, <1>7
    <2>2. Workload(s) # {} => p # NoWork
      <3>1. s.running # <<>>
        <4>1. ASSUME s.running = <<>> PROVE FALSE
          <5>1. ToSet(kept) = {}
            BY <1>1, <1>2, <4>1 DEF ToSet
          <5>2. kept = <<>>
            <6>1. kept # <<>> => 1 \in DOMAIN kept
              BY <1>1, EmptySeq
            <6>. QED  BY <5>1, <6>1 DEF ToSet
          <5>. QED  BY <1>7, <4>1, <5>2
        <4>. QED  BY <4>1
      <3>. QED  BY <1>1, <1>4, <2>1, <3>1, NoWorkFacts
    <2>3. Scheduled(p) \subseteq ToSet(kept)
      BY <1>4, <2>1
    <2>. QED  BY <1>1, <1>4, <1>7, <2>1, <2>2, <2>3 DEF kept, p
  <1>8. CASE kept = s.running
    <2>1. p = AddWaiting(s, w, q)
      BY <1>3, <1>8
    <2>2. RunningSet(s) \ ToSet(kept) = {} /\ Released(s, RunningSet(s) \ ToSet(kept)) = 0
      <3>1. Released(s, {}) = 0
        BY SumOfNone DEF Released, SumFunction
      <3>2. RunningSet(s) \ ToSet(kept) = {}
        BY <1>2, <1>8
      <3>. QED  BY <3>1, <3>2
    <2>3. ProjectKv(s, w) <= TotalBlocks
      <3>1. ProjectKv(s, w) \in Int
        BY <1>4, ProjectionType
      <3>. HIDE DEF w
      <3>. QED  BY <1>1, <2>2, <3>1
    <2>4. StockFits(s, p) \/ (p = w /\ ProjectSequences(s, p) <= SequenceBudget)
      <3>1. CASE p # w
        BY <1>6, <2>1, <3>1
      <3>2. CASE p = w
        <4>1. Scheduled(p) \cap ToSet(s.waiting) = {}
          BY <1>1, <1>2, <1>4, <3>2 DEF q
        <4>2. Len(s.running) \in Nat /\ Cardinality({}) = 0
          BY <1>2, FS_EmptySet
        <4>3. ProjectSequences(s, p) = Len(s.running) + Cardinality({})
          BY <4>1 DEF ProjectSequences
        <4>4. ProjectSequences(s, p) <= SequenceBudget
          BY <4>2, <4>3
        <4>. QED  BY <3>2, <4>4
      <3>. QED  BY <3>1, <3>2
    <2>5. ProjectSequences(s, p) <= SequenceBudget /\ ProjectKv(s, p) <= TotalBlocks
      BY <2>3, <2>4 DEF StockFits
    <2>6. ProjectKv(s, p) - Released(s, RunningSet(s) \ ToSet(kept)) <= TotalBlocks
      <3>1. ProjectKv(s, p) \in Int
        BY <1>6, <2>1, ProjectionType
      <3>. QED  BY <2>2, <2>5, <3>1
    <2>7. Workload(s) # {} => p # NoWork
      <3>1. CASE s.running # <<>>
        BY <1>1, <1>4, <1>6, <2>1, <3>1, NoWorkFacts
      <3>2. CASE s.running = <<>> /\ q # <<>>
        <4>1. ToSet(s.running) = {} /\ kept = <<>> /\ ToSet(kept) = {} /\ Len(s.running) = 0
          BY <1>8, <3>2, EmptySeq DEF ToSet
        <4>. DEFINE r == q[1]
                    v == WithRequest(s, w, r)
        <4>2. r \in ToSet(q) /\ r \in Workload(s)
          <5>1. 1 \in DOMAIN q
            BY <1>2, <3>2, EmptySeq
          <5>. QED  BY <1>2, <5>1 DEF ToSet
        <4>3. Scheduled(w) = {} /\ w = NoWork
          <5>1. Scheduled(w) = {}
            BY <1>4, <4>1
          <5>2. w.decode = {} /\ PrefillIds(w) = {}
            BY <5>1 DEF Scheduled
          <5>3. w.prefill = <<>>
            <6>1. w.prefill \in Seq(Items) /\ (w.prefill # <<>> => 1 \in DOMAIN w.prefill)
              BY <1>4, PlanFacts, EmptySeq DEF IsPlan
            <6>. QED  BY <5>2, <6>1 DEF PrefillIds
          <5>. QED  BY <1>4, <5>1, <5>2, <5>3, PlanFacts DEF IsPlan, NoWork
        <4>4. Tokens(w) < TokenBudget
          BY <4>3, NoWorkFacts, BatchAssumption
        <4>5. IsPlan(s, v) /\ Scheduled(v) = {r}
          <5>1. r \notin PrefillIds(w)
            BY <4>3 DEF Scheduled
          <5>2. IsPlan(s, v) /\ Scheduled(v) = Scheduled(w) \cup {r}
            <6>. HIDE DEF w, r
            <6>. QED  BY <1>4, <4>2, <4>4, <5>1, WithRequestFacts
          <5>. QED  BY <4>3, <5>2
        <4>. HIDE DEF v, w, r
        <4>6. ProjectSequences(s, v) <= SequenceBudget
          <5>1. Scheduled(v) \cap ToSet(s.waiting) = {r}
            BY <4>2, <4>5 DEF q
          <5>2. Cardinality({r}) = 1
            BY FS_Singleton
          <5>3. ProjectSequences(s, v) = 0 + 1
            BY <4>1, <5>1, <5>2 DEF ProjectSequences
          <5>. QED  BY <5>3, BatchAssumption
        <4>7. ProjectKv(s, v) <= TotalBlocks
          <5>1. /\ r \in Requests /\ Blocks(s.computed[r]) \in Nat
                /\ Blocks(s.computed[r] + TokensOf(v, r)) \in Nat
                /\ ProjectKv(s, v) =
                      s.used + (Blocks(s.computed[r] + TokensOf(v, r)) - Blocks(s.computed[r]))
            BY <4>5, SingletonProjection
          <5>2. Blocks(s.computed[r] + TokensOf(v, r)) <= TotalBlocks
            BY <4>5, RoomFacts
          <5>3. s.used = 0
            <6>1. (\A x \in Requests : held[x] = 0) /\ s.used = SumFunctionOnSet(held, Requests)
              BY <1>2, <4>1 DEF IsAccounted
            <6>2. SumFunctionOnSet(held, Requests) = SumFunctionOnSet(held, {})
              <7>1. /\ \A x \in Requests : held[x] \in Int
                    /\ \A x \in Requests \ {} : held[x] = 0
                BY <6>1
              <7>. QED  BY <7>1, SumZeros, BatchAssumption
            <6>. QED  BY <6>1, <6>2, SumOfNone
          <5>. QED  BY <5>1, <5>2, <5>3, BatchAssumption
        <4>8. r \in Scheduled(p)
          BY <1>6, <2>1, <3>2, <4>4, <4>6, <4>7 DEF StockFits, v, r
        <4>. QED  BY <4>8, NoWorkFacts
      <3>3. CASE s.running = <<>> /\ q = <<>>
        BY <1>2, <3>3 DEF ToSet
      <3>. QED  BY <3>1, <3>2, <3>3
    <2>. QED  BY <1>6, <1>8, <2>1, <2>2, <2>5, <2>6, <2>7 DEF kept, p
  <1>. QED  BY <1>7, <1>8
=============================================================================
