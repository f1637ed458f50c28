-------------------------- MODULE SelectorReplay_proofs --------------------------
(***************************************************************************)
(* What the selector decides, for every set of plans and predictions, every  *)
(* limit and both tolerances; and that the replay of its record and the      *)
(* offline counterfactual compute the same.                                  *)
(***************************************************************************)
EXTENDS SelectorReplay, FiniteSetTheorems, SequenceTheorems, TLAPS

-----------------------------------------------------------------------------
(* Finite sets and orders.  The library's induction theorems take the         *)
(* induction hypothesis as an operator; here it is a set.                    *)

LEMMA NatWellFounded == IsWellFoundedOn({ss \in Nat \X Nat : ss[1] < ss[2]}, Nat)
  BY NatLessThanWellFounded DEF OpToRel

LEMMA InductionOnNat ==
  ASSUME NEW S, 0 \in S, \A n \in Nat : n \in S => n + 1 \in S
  PROVE  Nat \subseteq S
  <1>. DEFINE R == {ss \in Nat \X Nat : ss[1] < ss[2]}
              T == Nat \ S
  <1>1. ASSUME T # {} PROVE FALSE
    <2>1. IsWellFoundedOn(R, Nat)
      BY NatWellFounded
    <2>2. PICK x \in T : \A y \in T : ~(<<y, x>> \in R)
      <3>. HIDE DEF R
      <3>. QED  BY <1>1, <2>1, WFMin
    <2>3. x - 1 \in Nat /\ <<x - 1, x>> \in R
      OBVIOUS
    <2>. QED  BY <2>2, <2>3
  <1>. QED  BY <1>1

(* A family of subsets of a finite set that has a subset whenever it has all *)
(* the smaller ones has all of them.                                         *)
LEMMA InductionOnSmaller ==
  ASSUME NEW D, IsFiniteSet(D), NEW Q,
         \A T \in SUBSET D : (\A U \in SUBSET T : U # T => U \in Q) => T \in Q
  PROVE  \A T \in SUBSET D : T \in Q
  <1>. DEFINE R == StrictSubsetOrdering(D)
              B == (SUBSET D) \ Q
  <1>1. ASSUME B # {} PROVE FALSE
    <2>1. IsWellFoundedOn(R, SUBSET D)
      <3>1. FiniteSubsetsOf(D) = SUBSET D
        BY FS_FiniteSubsetsOfFinite
      <3>2. IsWellFoundedOn(R, FiniteSubsetsOf(D))
        BY FS_StrictSubsetOrderingWellFounded
      <3>. QED  BY <3>1, <3>2
    <2>2. PICK T \in B : \A U \in B : ~(<<U, T>> \in R)
      <3>1. B \subseteq SUBSET D /\ B # {}
        BY <1>1
      <3>. HIDE DEF R, B
      <3>. QED  BY <2>1, <3>1, WFMin
    <2>3. \A U \in SUBSET T : U # T => <<U, T>> \in R
      BY DEF StrictSubsetOrdering
    <2>4. \A U \in SUBSET T : U # T => U \in Q
      <3>. SUFFICES ASSUME NEW U \in SUBSET T, U # T PROVE U \in Q
        OBVIOUS
      <3>. HIDE DEF R
      <3>. QED  BY <2>2, <2>3
    <2>. QED  BY <2>2, <2>4
  <1>. QED  BY <1>1

(* A total preorder R, a set of pairs, has a least element in a finite set.   *)
LEMMA LeastElement ==
  ASSUME NEW D, IsFiniteSet(D), D # {}, NEW R,
         \A x, y \in D : <<x, y>> \in R \/ <<y, x>> \in R,
         \A x, y, z \in D : <<x, y>> \in R /\ <<y, z>> \in R => <<x, z>> \in R
  PROVE  \E x \in D : \A y \in D : <<x, y>> \in R
  <1>. DEFINE Q == {T \in SUBSET D : T # {} => \E x \in T : \A y \in T : <<x, y>> \in R}
  <1>1. ASSUME NEW T \in SUBSET D, \A U \in SUBSET T : U # T => U \in Q
        PROVE  T \in Q
    <2>. SUFFICES ASSUME T # {} PROVE \E x \in T : \A y \in T : <<x, y>> \in R
      OBVIOUS
    <2>1. PICK z \in T : TRUE
      OBVIOUS
    <2>2. CASE T = {z}
      BY <2>2
    <2>3. CASE T # {z}
      <3>1. T \ {z} # {} /\ T \ {z} \in Q
        BY <1>1, <2>1, <2>3
      <3>2. PICK x \in T \ {z} : \A y \in T \ {z} : <<x, y>> \in R
        BY <3>1
      <3>3. CASE <<x, z>> \in R
        BY <3>2, <3>3
      <3>4. CASE <<z, x>> \in R
        <4>1. \A y \in T : <<z, y>> \in R
          BY <2>1, <3>2, <3>4
        <4>. QED  BY <2>1, <4>1
      <3>. QED  BY <2>1, <3>2, <3>3, <3>4
    <2>. QED  BY <2>2, <2>3
  <1>2. D \in Q
    <2>. HIDE DEF Q
    <2>. QED  BY <1>1, InductionOnSmaller
  <1>. QED  BY <1>2

(* The elements before p in the order R. *)
Preceding(D, R, p) == {x \in D : <<x, p>> \in R}

StrictOrder(D, R) ==
  /\ \A x \in D : <<x, x>> \notin R
  /\ \A x, y \in D : x # y => <<x, y>> \in R \/ <<y, x>> \in R
  /\ \A x, y, z \in D : <<x, y>> \in R /\ <<y, z>> \in R => <<x, z>> \in R

Sequenced(D, R) ==
  [i \in 1..Cardinality(D) |-> CHOOSE p \in D : Cardinality(Preceding(D, R, p)) = i - 1]

LEMMA CountOfInterval ==
  ASSUME NEW n \in Nat PROVE IsFiniteSet(0..(n - 1)) /\ Cardinality(0..(n - 1)) = n
  BY FS_Interval

(* The sequence of a finite set in a strict total order. *)
LEMMA OrderedSequence ==
  ASSUME NEW D, IsFiniteSet(D), NEW R, StrictOrder(D, R)
  PROVE  /\ Sequenced(D, R) \in Seq(D) /\ IsInjective(Sequenced(D, R))
         /\ ToSet(Sequenced(D, R)) = D
  <1>. DEFINE n == Cardinality(D)
              q == Sequenced(D, R)
              count == [p \in D |-> Cardinality(Preceding(D, R, p))]
  <1>1. n \in Nat
    BY FS_CardinalityType
  <1>2. ASSUME NEW p \in D
        PROVE  IsFiniteSet(Preceding(D, R, p)) /\ count[p] \in 0..(n - 1)
    <2>1. Preceding(D, R, p) \subseteq D \ {p}
      BY DEF Preceding, StrictOrder
    <2>2. IsFiniteSet(D \ {p}) /\ Cardinality(D \ {p}) = n - 1
      BY FS_RemoveElement
    <2>3. /\ IsFiniteSet(Preceding(D, R, p))
          /\ Cardinality(Preceding(D, R, p)) <= n - 1
      BY <2>1, <2>2, FS_Subset
    <2>. QED  BY <1>1, <2>3, FS_CardinalityType
  <1>3. ASSUME NEW x \in D, NEW y \in D, x # y PROVE count[x] # count[y]
    <2>1. ASSUME NEW a \in D, NEW b \in D, <<a, b>> \in R PROVE count[a] < count[b]
      <3>1. Preceding(D, R, a) \subseteq Preceding(D, R, b) \ {a} /\ a \in Preceding(D, R, b)
        BY <2>1 DEF Preceding, StrictOrder
      <3>2. /\ IsFiniteSet(Preceding(D, R, b) \ {a})
            /\ Cardinality(Preceding(D, R, b) \ {a}) = Cardinality(Preceding(D, R, b)) - 1
        BY <1>2, <3>1, FS_RemoveElement
      <3>3. Cardinality(Preceding(D, R, a)) <= Cardinality(Preceding(D, R, b) \ {a})
        BY <3>1, <3>2, FS_Subset
      <3>. QED  BY <1>2, <3>2, <3>3
    <2>2. count[x] \in Int /\ count[y] \in Int
      BY <1>2
    <2>3. <<x, y>> \in R \/ <<y, x>> \in R
      BY <1>3 DEF StrictOrder
    <2>. HIDE DEF count
    <2>. QED  BY <2>1, <2>2, <2>3
  <1>4. \A k \in 0..(n - 1) : \E p \in D : count[p] = k
    <2>1. count \in Injection(D, 0..(n - 1))
      BY <1>2, <1>3 DEF Injection, IsInjective
    <2>2. IsFiniteSet(0..(n - 1)) /\ Cardinality(0..(n - 1)) = n
      BY <1>1, CountOfInterval
    <2>3. count \in Surjection(D, 0..(n - 1))
      BY <2>1, <2>2, FS_Injection
    <2>. QED  BY <2>3 DEF Surjection
  <1>5. ASSUME NEW i \in 1..n PROVE q[i] \in D /\ count[q[i]] = i - 1
    <2>1. q[i] = CHOOSE p \in D : Cardinality(Preceding(D, R, p)) = i - 1
      BY DEF Sequenced
    <2>2. i - 1 \in 0..(n - 1)
      BY <1>1
    <2>3. \E p \in D : Cardinality(Preceding(D, R, p)) = i - 1
      BY <1>4, <2>2
    <2>. QED  BY <2>1, <2>3
  <1>6. DOMAIN q = 1..n /\ q = [i \in 1..n |-> q[i]]
    BY DEF Sequenced
  <1>. HIDE DEF q
  <1>7. q \in Seq(D)
    <2>. HIDE DEF n
    <2>1. q \in [1..n -> D]
      BY <1>5, <1>6
    <2>. QED  BY <1>1, <2>1
  <1>8. ASSUME NEW a \in 1..n, NEW b \in 1..n, q[a] = q[b] PROVE a = b
    <2>1. a - 1 = b - 1
      BY <1>5, <1>8
    <2>. QED  BY <1>1, <2>1
  <1>9. IsInjective(q)
    BY <1>6, <1>8 DEF IsInjective
  <1>10. ASSUME NEW p \in D PROVE p \in ToSet(q)
    <2>1. count[p] + 1 \in 1..n /\ count[p] \in Int
      BY <1>1, <1>2
    <2>2. q[count[p] + 1] \in D /\ count[q[count[p] + 1]] = count[p]
      BY <1>5, <2>1
    <2>3. q[count[p] + 1] = p
      BY <1>3, <2>2
    <2>. QED  BY <1>6, <2>1, <2>3 DEF ToSet
  <1>11. ToSet(q) \subseteq D
    BY <1>5, <1>6 DEF ToSet
  <1>. QED  BY <1>7, <1>9, <1>10, <1>11 DEF q

(* Appending a sequence of other elements. *)
LEMMA AppendedSequence ==
  ASSUME NEW S, NEW s \in Seq(S), NEW t \in Seq(S), IsInjective(s), IsInjective(t),
         ToSet(s) \cap ToSet(t) = {}
  PROVE  /\ s \o t \in Seq(S) /\ IsInjective(s \o t) /\ ToSet(s \o t) = ToSet(s) \cup ToSet(t)
         /\ \A i \in DOMAIN (s \o t) :
               (s \o t)[i] = IF i \in DOMAIN s THEN s[i] ELSE t[i - Len(s)]
         /\ \A i \in DOMAIN (s \o t) : i \in DOMAIN s \/ i - Len(s) \in DOMAIN t
  <1>1. /\ s \o t \in Seq(S) /\ Len(s \o t) = Len(s) + Len(t)
        /\ DOMAIN s = 1..Len(s) /\ DOMAIN t = 1..Len(t) /\ DOMAIN (s \o t) = 1..(Len(s) + Len(t))
        /\ Len(s) \in Nat /\ Len(t) \in Nat
    OBVIOUS
  <1>2. \A i \in 1..(Len(s) + Len(t)) :
           (s \o t)[i] = IF i \in 1..Len(s) THEN s[i] ELSE t[i - Len(s)]
    OBVIOUS
  <1>3. ASSUME NEW i \in 1..(Len(s) + Len(t)), i \notin 1..Len(s) PROVE i - Len(s) \in 1..Len(t)
    BY <1>1, <1>3
  <1>. DEFINE u == s \o t
  <1>4. ASSUME NEW i \in DOMAIN u, NEW j \in DOMAIN u, u[i] = u[j] PROVE i = j
    <2>1. i \in Int /\ j \in Int
      BY <1>1
    <2>2. \A a \in DOMAIN s, b \in DOMAIN t : s[a] # t[b]
      BY DEF ToSet
    <2>. HIDE DEF u
    <2>3. CASE i \in 1..Len(s) /\ j \in 1..Len(s)
      BY <1>1, <1>2, <1>4, <2>3 DEF IsInjective, u
    <2>4. CASE i \notin 1..Len(s) /\ j \notin 1..Len(s)
      <3>1. i - Len(s) = j - Len(s)
        BY <1>1, <1>2, <1>3, <1>4, <2>4 DEF IsInjective, u
      <3>. QED  BY <1>1, <2>1, <3>1
    <2>. QED  BY <1>1, <1>2, <1>3, <1>4, <2>2, <2>3, <2>4 DEF u
  <1>5. ToSet(u) = ToSet(s) \cup ToSet(t)
    <2>1. ASSUME NEW b \in 1..Len(t)
          PROVE b + Len(s) \in DOMAIN u /\ u[b + Len(s)] = t[b]
      BY <1>1, <1>2
    <2>2. ToSet(t) \subseteq ToSet(u)
      <3>. HIDE DEF u
      <3>. QED  BY <1>1, <2>1 DEF ToSet
    <2>3. ToSet(s) \subseteq ToSet(u)
      BY <1>1, <1>2 DEF ToSet
    <2>4. ToSet(u) \subseteq ToSet(s) \cup ToSet(t)
      BY <1>1, <1>2, <1>3 DEF ToSet
    <2>. QED  BY <2>2, <2>3, <2>4
  <1>6. IsInjective(u)
    <2>. HIDE DEF u
    <2>. QED  BY <1>4 DEF IsInjective
  <1>. QED  BY <1>1, <1>2, <1>3, <1>5, <1>6


-----------------------------------------------------------------------------
(* Scores: fractions compared by cross-multiplication. *)

LEMMA CancelFactor ==
  ASSUME NEW a \in Int, NEW b \in Int, NEW d \in Nat \ {0}
  PROVE  /\ a * d <= b * d => a <= b
         /\ a * d < b * d <=> a < b
         /\ a * d = b * d => a = b
  <1>1. ASSUME a < b PROVE a * d < b * d
    <2>1. (b - a) * d >= d
      BY <1>1
    <2>2. (b - a) * d = b * d - a * d
      OBVIOUS
    <2>. QED  BY <2>1, <2>2
  <1>2. ASSUME b < a PROVE b * d < a * d
    <2>1. (a - b) * d >= d
      BY <1>2
    <2>2. (a - b) * d = a * d - b * d
      OBVIOUS
    <2>. QED  BY <2>1, <2>2
  <1>3. a * d \in Int /\ b * d \in Int
    OBVIOUS
  <1>. DEFINE x == a * d
              y == b * d
  <1>4. x \in Int /\ y \in Int /\ (a < b => x < y) /\ (b < a => y < x) /\ (a = b => x = y)
    BY <1>1, <1>2, <1>3
  <1>5. (x <= y => a <= b) /\ (x < y <=> a < b) /\ (x = y => a = b)
    <2>. HIDE DEF x, y
    <2>. QED  BY <1>4
  <1>. QED  BY <1>5

LEMMA GrowingFactor ==
  ASSUME NEW a \in Int, NEW b \in Int, NEW d \in Nat, a <= b
  PROVE  a * d <= b * d
  <1>1. (b - a) * d >= 0
    OBVIOUS
  <1>2. (b - a) * d = b * d - a * d
    OBVIOUS
  <1>. QED  BY <1>1, <1>2

(* a1/d1 <= a2/d2 <= a3/d3, and what equality at the ends means. *)
LEMMA FractionsAreTransitive ==
  ASSUME NEW a1 \in Nat, NEW a2 \in Nat, NEW a3 \in Nat,
         NEW d1 \in Nat \ {0}, NEW d2 \in Nat \ {0}, NEW d3 \in Nat \ {0},
         a1 * d2 >= a2 * d1, a2 * d3 >= a3 * d2
  PROVE  /\ a1 * d3 >= a3 * d1
         /\ a1 * d3 = a3 * d1 => a1 * d2 = a2 * d1 /\ a2 * d3 = a3 * d2
  <1>. DEFINE x == a1 * d2
              y == a2 * d1
              u == a2 * d3
              v == a3 * d2
              left == a1 * d3
              right == a3 * d1
  <1>1. {x, y, u, v, left, right} \subseteq Int /\ x >= y /\ u >= v
    OBVIOUS
  <1>2. left * d2 = x * d3 /\ y * d3 = u * d1 /\ right * d2 = v * d1
    OBVIOUS
  <1>. HIDE DEF x, y, u, v, left, right
  <1>3. x * d3 >= y * d3 /\ u * d1 >= v * d1
    BY <1>1, GrowingFactor
  <1>. DEFINE xd == x * d3
              yd == y * d3
              ud == u * d1
              vd == v * d1
              ld == left * d2
              rd == right * d2
  <1>4. /\ {xd, yd, ud, vd, ld, rd} \subseteq Int
        /\ ld = xd /\ yd = ud /\ rd = vd /\ xd >= yd /\ ud >= vd
    BY <1>1, <1>2, <1>3
  <1>5. (xd = yd => x = y) /\ (ud = vd => u = v) /\ (rd <= ld => right <= left)
    BY <1>1, CancelFactor
  <1>6. left = right => ld = rd
    OBVIOUS
  <1>. HIDE DEF xd, yd, ud, vd, ld, rd
  <1>7. rd <= ld /\ (ld = rd => xd = yd /\ ud = vd)
    BY <1>4
  <1>8. left >= right /\ (left = right => x = y /\ u = v)
    BY <1>1, <1>5, <1>6, <1>7
  <1>. QED  BY <1>8 DEF x, y, u, v, left, right

(* If ai/di is within the tolerances of al/dl, so is what lies between them.  *)
LEMMA BetweenIsClose ==
  ASSUME NEW ai \in Nat, NEW aj \in Nat, NEW al \in Nat,
         NEW di \in Nat \ {0}, NEW dj \in Nat \ {0}, NEW dl \in Nat \ {0},
         NEW rel \in Nat, NEW abs \in Nat,
         aj * di > ai * dj, al * dj >= aj * dl,
         \/ 100 * (al * di - ai * dl) <= rel * (al * di)
         \/ 100 * (al * di - ai * dl) <= abs * di * dl
  PROVE  \/ 100 * (aj * di - ai * dj) <= rel * (aj * di)
         \/ 100 * (aj * di - ai * dj) <= abs * di * dj
  <1>. DEFINE p == al * di
              q == ai * dl
              u == aj * di
              v == ai * dj
              s == al * dj
              t == aj * dl
              X == p * dj
              Y == u * dl
              Z == q * dj
              A == abs * di * dl
              B == abs * di * dj
              rp == rel * p
              ru == rel * u
  <1>1. {p, q, u, v, s, t} \subseteq Nat /\ u > v /\ s >= t /\ A \in Nat /\ B \in Nat
    OBVIOUS
  <1>2. X = s * di /\ Y = t * di /\ Z = v * dl /\ A * dj = B * dl
    OBVIOUS
  <1>3. 100 * (p - q) <= rp \/ 100 * (p - q) <= A
    OBVIOUS
  <1>4. rp * dj = rel * X /\ ru * dl = rel * Y
    OBVIOUS
  <1>. HIDE DEF p, q, u, v, s, t, A, B
  <1>5. Y <= X /\ Z < Y /\ {X, Y, Z} \subseteq Nat
    <2>1. t * di <= s * di
      BY <1>1, GrowingFactor
    <2>2. v * dl < u * dl
      BY <1>1, CancelFactor
    <2>3. X \in Nat /\ Y \in Nat /\ Z \in Nat
      BY <1>1
    <2>. QED  BY <1>2, <2>1, <2>2, <2>3
  <1>6. /\ (100 * (p - q)) * dj = 100 * (X - Z)
        /\ (100 * (u - v)) * dl = 100 * (Y - Z)
    BY <1>1, <1>2
  <1>7. rp \in Nat /\ ru \in Nat
    BY <1>1
  <1>. DEFINE gap == 100 * (p - q)
              small == 100 * (u - v)
              rX == rel * X
              rY == rel * Y
  <1>8. gap \in Int /\ small \in Int
    BY <1>1
  <1>. HIDE DEF X, Y, Z, gap, small, rp, ru
  <1>9. CASE gap <= rp
    <2>1. gap * dj <= rp * dj
      BY <1>7, <1>8, <1>9, GrowingFactor
    <2>2. 100 * (X - Z) <= rel * X
      BY <1>4, <1>6, <2>1 DEF gap
    <2>3. 100 * (Y - Z) <= rel * Y
      <3>1. CASE rel <= 100
        <4>1. rel * (X - Y) <= 100 * (X - Y)
          BY <1>5, <3>1, GrowingFactor
        <4>2. rel * (X - Y) = rel * X - rel * Y
          BY <1>5
        <4>3. rX \in Int /\ rY \in Int
          BY <1>5
        <4>4. 100 * (X - Z) <= rX /\ rX - rY <= 100 * (X - Y)
          BY <2>2, <4>1, <4>2
        <4>. HIDE DEF rX, rY
        <4>5. 100 * (Y - Z) <= rY
          BY <1>5, <4>3, <4>4
        <4>. QED  BY <4>5 DEF rY
      <3>2. CASE rel > 100
        <4>1. 100 * Y <= rel * Y
          BY <1>5, <3>2, GrowingFactor
        <4>2. rY \in Int /\ 100 * Y <= rY
          BY <1>5, <4>1
        <4>. HIDE DEF rY
        <4>3. 100 * (Y - Z) <= rY
          BY <1>5, <4>2
        <4>. QED  BY <4>3 DEF rY
      <3>. QED  BY <3>1, <3>2
    <2>4. small * dl <= ru * dl
      BY <1>4, <1>6, <2>3 DEF small
    <2>5. small <= ru
      BY <1>7, <1>8, <2>4, CancelFactor
    <2>. QED  BY <2>5 DEF small, ru, u, v
  <1>10. CASE gap <= A
    <2>1. gap * dj <= A * dj
      BY <1>1, <1>8, <1>10, GrowingFactor
    <2>2. 100 * (X - Z) <= B * dl
      BY <1>2, <1>6, <2>1 DEF gap
    <2>. DEFINE bd == B * dl
    <2>3. bd \in Int /\ 100 * (X - Z) <= bd
      BY <1>1, <2>2
    <2>. HIDE DEF bd
    <2>4. 100 * (Y - Z) <= bd
      BY <1>5, <2>3
    <2>5. small * dl <= B * dl
      BY <1>6, <2>4 DEF small, bd
    <2>6. small <= B
      BY <1>1, <1>8, <2>5, CancelFactor
    <2>. QED  BY <2>6 DEF small, u, v, B
  <1>. QED  BY <1>3, <1>9, <1>10 DEF gap


-----------------------------------------------------------------------------
(* The inductive invariant of a call. *)
SafeCandidate ==
  [prefill : Nat, decode : SUBSET Decodes, expected : Nat \ {0},
   conservative : Nat \ {0}, in_support : BOOLEAN]

SelectorTypes ==
  /\ DOMAIN safe \subseteq Plans
  /\ safe \in [DOMAIN safe -> SafeCandidate]
  /\ \A p \in DOMAIN safe : Template[p] = "FRACTION" => safe[p].prefill > 0
  /\ DOMAIN slack \subseteq Decodes
  /\ slack \in [DOMAIN slack -> Int]
  /\ status \in {"stage1", "zero_reference_missing", "stage2", "no_safe_decision", "selected"}
  /\ eligible \subseteq DOMAIN safe
  /\ ranked \in Seq(eligible)
  /\ IsInjective(ranked)
  /\ remaining = eligible \ ToSet(ranked)

(* What stage 1 leaves behind, and that there was a reference to compare with. *)
Stages ==
  /\ status \in {"stage1", "zero_reference_missing"} => eligible = {}
  /\ status \in {"stage2", "no_safe_decision", "selected"} =>
        /\ eligible = Passed
        /\ DOMAIN safe # {} /\ DOMAIN slack # {} => References # {}
  /\ status = "no_safe_decision" => eligible = {}
  /\ status = "zero_reference_missing" =>
        DOMAIN safe # {} /\ DOMAIN slack # {} /\ References = {}
  /\ status \in {"stage2", "selected"} => eligible # {}
  /\ status = "selected" => remaining = {}

(* p was ranked with a leader that was not behind q. *)
NotBehind(p, q) == \E leader \in eligible : Tied(p, leader) /\ Leads(leader, q)

RankedInOrder ==
  /\ \A i \in DOMAIN ranked, q \in remaining : NotBehind(ranked[i], q)
  /\ \A i, j \in DOMAIN ranked : i < j => NotBehind(ranked[i], ranked[j])

SelectorInv == SelectorTypes /\ Stages /\ RankedInOrder

-----------------------------------------------------------------------------
(* What the fields of a safe plan are. *)
LEMMA FieldsOfPlan ==
  ASSUME SelectorTypes, NEW p \in DOMAIN safe
  PROVE  /\ p \in Nat
         /\ safe[p].prefill \in Nat /\ safe[p].decode \subseteq Decodes
         /\ safe[p].expected \in Nat \ {0} /\ safe[p].conservative \in Nat \ {0}
         /\ Duration(p) \in Nat \ {0}
  <1>1. p \in Nat
    BY SelectorAssumption DEF SelectorTypes
  <1>2. safe[p] \in SafeCandidate
    BY DEF SelectorTypes
  <1>3. /\ safe[p].prefill \in Nat /\ safe[p].decode \subseteq Decodes
        /\ safe[p].expected \in Nat \ {0} /\ safe[p].conservative \in Nat \ {0}
    BY <1>2 DEF SafeCandidate
  <1>4. Duration(p) = safe[p].expected \/ Duration(p) = safe[p].conservative
    BY Zenon DEF Duration
  <1>. QED  BY <1>1, <1>3, <1>4

LEMMA LeadsIsOrder ==
  ASSUME SelectorTypes, NEW x \in DOMAIN safe, NEW y \in DOMAIN safe, NEW z \in DOMAIN safe
  PROVE  /\ Leads(x, y) \/ Leads(y, x)
         /\ Leads(x, y) /\ Leads(y, z) => Leads(x, z)
  <1>. DEFINE a1 == safe[x].prefill
              a2 == safe[y].prefill
              a3 == safe[z].prefill
              d1 == Duration(x)
              d2 == Duration(y)
              d3 == Duration(z)
  <1>1. /\ a1 \in Nat /\ a2 \in Nat /\ a3 \in Nat /\ x \in Nat /\ y \in Nat /\ z \in Nat
        /\ d1 \in Nat \ {0} /\ d2 \in Nat \ {0} /\ d3 \in Nat \ {0}
    BY FieldsOfPlan
  <1>2. /\ Leads(x, y) <=> (a1 * d2 > a2 * d1 \/ (a1 * d2 = a2 * d1 /\ x <= y))
        /\ Leads(y, z) <=> (a2 * d3 > a3 * d2 \/ (a2 * d3 = a3 * d2 /\ y <= z))
        /\ Leads(x, z) <=> (a1 * d3 > a3 * d1 \/ (a1 * d3 = a3 * d1 /\ x <= z))
        /\ Leads(y, x) <=> (a2 * d1 > a1 * d2 \/ (a2 * d1 = a1 * d2 /\ y <= x))
    BY DEF Leads, Cross
  <1>. HIDE DEF a1, a2, a3, d1, d2, d3
  <1>. DEFINE xy == a1 * d2
              yx == a2 * d1
              yz == a2 * d3
              zy == a3 * d2
              xz == a1 * d3
              zx == a3 * d1
  <1>3. {xy, yx, yz, zy, xz, zx} \subseteq Int
    BY <1>1
  <1>4. xy >= yx /\ yz >= zy => xz >= zx /\ (xz = zx => xy = yx /\ yz = zy)
    BY <1>1, FractionsAreTransitive
  <1>5. /\ Leads(x, y) <=> (xy > yx \/ (xy = yx /\ x <= y))
        /\ Leads(y, z) <=> (yz > zy \/ (yz = zy /\ y <= z))
        /\ Leads(x, z) <=> (xz > zx \/ (xz = zx /\ x <= z))
        /\ Leads(y, x) <=> (yx > xy \/ (yx = xy /\ y <= x))
    BY <1>2
  <1>. HIDE DEF xy, yx, yz, zy, xz, zx
  <1>. QED  BY <1>1, <1>3, <1>4, <1>5

(* What remains has a leader, and its group is ordered by the tie key.       *)
LEMMA LeaderExists ==
  ASSUME SelectorTypes, NEW S \in SUBSET DOMAIN safe, S # {}
  PROVE  Leader(S) \in S /\ \A q \in S : Leads(Leader(S), q)
  <1>. DEFINE R == {pair \in S \X S : Leads(pair[1], pair[2])}
  <1>1. IsFiniteSet(S)
    <2>1. S \subseteq Plans /\ IsFiniteSet(Plans)
      BY SelectorAssumption DEF SelectorTypes
    <2>. QED  BY <2>1, FS_Subset
  <1>2. \A x, y \in S : <<x, y>> \in R <=> Leads(x, y)
    OBVIOUS
  <1>3. /\ \A x, y \in S : <<x, y>> \in R \/ <<y, x>> \in R
        /\ \A x, y, z \in S : <<x, y>> \in R /\ <<y, z>> \in R => <<x, z>> \in R
    <2>. HIDE DEF R
    <2>. QED  BY <1>2, LeadsIsOrder
  <1>4. \E x \in S : \A y \in S : <<x, y>> \in R
    <2>. HIDE DEF R
    <2>. QED  BY <1>1, <1>3, LeastElement
  <1>5. \E x \in S : \A y \in S : Leads(x, y)
    BY <1>2, <1>4
  <1>. QED  BY <1>5 DEF Leader

LEMMA TieBeforeIsOrder ==
  ASSUME SelectorTypes, NEW x \in DOMAIN safe, NEW y \in DOMAIN safe, NEW z \in DOMAIN safe
  PROVE  /\ ~TieBefore(x, x)
         /\ x # y => TieBefore(x, y) \/ TieBefore(y, x)
         /\ TieBefore(x, y) /\ TieBefore(y, z) => TieBefore(x, z)
  <1>1. \A p \in {x, y, z} : /\ p \in Nat /\ safe[p].prefill \in Nat /\ Duration(p) \in Nat
    BY FieldsOfPlan
  <1>. QED  BY <1>1 DEF TieBefore

LEMMA GroupInTieOrder ==
  ASSUME SelectorTypes, NEW S \in SUBSET DOMAIN safe
  PROVE  /\ InOrderOf(S, TieBefore) \in Seq(S)
         /\ IsInjective(InOrderOf(S, TieBefore))
         /\ ToSet(InOrderOf(S, TieBefore)) = S
  <1>. DEFINE R == {pair \in S \X S : TieBefore(pair[1], pair[2])}
  <1>1. IsFiniteSet(S)
    <2>1. S \subseteq Plans /\ IsFiniteSet(Plans)
      BY SelectorAssumption DEF SelectorTypes
    <2>. QED  BY <2>1, FS_Subset
  <1>2. \A x, y \in S : <<x, y>> \in R <=> TieBefore(x, y)
    OBVIOUS
  <1>3. StrictOrder(S, R)
    <2>. HIDE DEF R
    <2>. QED  BY <1>2, TieBeforeIsOrder DEF StrictOrder
  <1>4. \A p \in S : {q \in S : TieBefore(q, p)} = Preceding(S, R, p)
    BY <1>2 DEF Preceding
  <1>5. InOrderOf(S, TieBefore) = Sequenced(S, R)
    <2>. HIDE DEF R
    <2>1. InOrderOf(S, TieBefore) =
            [i \in 1..Cardinality(S) |->
                CHOOSE p \in S : Cardinality({q \in S : TieBefore(q, p)}) = i - 1]
      BY DEF InOrderOf
    <2>2. ASSUME NEW i
          PROVE  (CHOOSE p \in S : Cardinality({q \in S : TieBefore(q, p)}) = i - 1)
                   = (CHOOSE p \in S : Cardinality(Preceding(S, R, p)) = i - 1)
      <3>1. \A p : (p \in S /\ Cardinality({q \in S : TieBefore(q, p)}) = i - 1)
                     <=> (p \in S /\ Cardinality(Preceding(S, R, p)) = i - 1)
        BY <1>4
      <3>. QED  BY <3>1, Zenon
    <2>. QED  BY <2>1, <2>2 DEF Sequenced
  <1>. QED
    <2>. HIDE DEF R
    <2>. QED  BY <1>1, <1>3, <1>5, OrderedSequence


-----------------------------------------------------------------------------
(* The reference of stage 1, if there is a plan to take. *)
LEMMA ReferenceExists ==
  ASSUME SelectorTypes, References # {}
  PROVE  /\ ZeroReference \in References
         /\ \A q \in References :
               \/ Preference(ZeroReference) < Preference(q)
               \/ Preference(ZeroReference) = Preference(q) /\ ZeroReference <= q
  <1>. DEFINE R == {pair \in References \X References :
                      \/ Preference(pair[1]) < Preference(pair[2])
                      \/ Preference(pair[1]) = Preference(pair[2]) /\ pair[1] <= pair[2]}
  <1>1. References \subseteq DOMAIN safe
    BY DEF References
  <1>2. IsFiniteSet(References)
    <2>1. References \subseteq Plans /\ IsFiniteSet(Plans)
      BY <1>1, SelectorAssumption DEF SelectorTypes
    <2>. QED  BY <2>1, FS_Subset
  <1>3. \A p \in References : p \in Nat /\ Preference(p) \in Nat
    BY <1>1, FieldsOfPlan DEF Preference
  <1>4. \A x, y \in References :
           <<x, y>> \in R <=> \/ Preference(x) < Preference(y)
                              \/ Preference(x) = Preference(y) /\ x <= y
    OBVIOUS
  <1>5. /\ \A x, y \in References : <<x, y>> \in R \/ <<y, x>> \in R
        /\ \A x, y, z \in References : <<x, y>> \in R /\ <<y, z>> \in R => <<x, z>> \in R
    <2>. HIDE DEF R
    <2>. QED  BY <1>3, <1>4
  <1>6. \E x \in References : \A y \in References : <<x, y>> \in R
    <2>. HIDE DEF R
    <2>. QED  BY <1>2, <1>5, LeastElement
  <1>7. \E x \in References : \A y \in References :
           Preference(x) < Preference(y) \/ (Preference(x) = Preference(y) /\ x <= y)
    BY <1>4, <1>6
  <1>. QED  BY <1>7 DEF ZeroReference

LEMMA CallStarts == Init => SelectorInv
  <1>. SUFFICES ASSUME Init PROVE SelectorInv
    OBVIOUS
  <1>0. PICK known \in SUBSET Plans :
           \E work \in [known -> UNION {Works(p) : p \in known}] :
              /\ \A p \in known : work[p] \in Works(p)
              /\ \E prediction \in [known -> Predictions] :
                    safe = [p \in known |-> Candidate(work[p], prediction[p])]
    BY DEF Init
  <1>1. PICK work \in [known -> UNION {Works(p) : p \in known}] :
           /\ \A p \in known : work[p] \in Works(p)
           /\ \E prediction \in [known -> Predictions] :
                 safe = [p \in known |-> Candidate(work[p], prediction[p])]
    BY <1>0
  <1>10. PICK prediction \in [known -> Predictions] :
            safe = [p \in known |-> Candidate(work[p], prediction[p])]
    BY <1>1
  <1>2. ASSUME NEW p \in known
        PROVE  safe[p] \in SafeCandidate /\ (Template[p] = "FRACTION" => safe[p].prefill > 0)
    <2>1. /\ prediction[p].expected \in Nat \ {0} /\ prediction[p].conservative \in Nat \ {0}
          /\ prediction[p].in_support \in BOOLEAN
      <3>1. prediction[p] \in [expected : Nat \ {0}, conservative : Nat \ {0}, in_support : BOOLEAN]
        BY SelectorAssumption
      <3>. QED  BY <3>1
    <2>2. /\ work[p].prefill \in Nat /\ work[p].decode \in SUBSET Decodes
          /\ Template[p] = "FRACTION" => work[p].prefill > 0
      BY <1>1, SelectorAssumption DEF Works
    <2>3. safe[p] = Candidate(work[p], prediction[p])
      BY <1>10
    <2>. QED  BY <2>1, <2>2, <2>3 DEF Candidate, SafeCandidate
  <1>3. /\ DOMAIN safe = known /\ safe \in [known -> SafeCandidate]
        /\ \A p \in DOMAIN safe : Template[p] = "FRACTION" => safe[p].prefill > 0
    BY <1>2, <1>10
  <1>4. DOMAIN slack \subseteq Decodes /\ slack \in [DOMAIN slack -> Int]
    BY SelectorAssumption DEF Init
  <1>5. status = "stage1" /\ eligible = {} /\ remaining = {} /\ ranked = <<>>
    BY DEF Init
  <1>6. ranked \in Seq(eligible) /\ IsInjective(ranked) /\ remaining = eligible \ ToSet(ranked)
    BY <1>5 DEF IsInjective
  <1>7. SelectorTypes
    BY <1>3, <1>4, <1>5, <1>6 DEF SelectorTypes
  <1>. QED  BY <1>5, <1>7 DEF SelectorInv, Stages, RankedInOrder

(* Both stages look at the plans and the deadlines only. *)
LEMMA StageOneStays ==
  ASSUME safe' = safe, slack' = slack
  PROVE  Passed' = Passed /\ References' = References
  BY DEF Passed, References, DeltaViolations, Misses, ZeroReference, Preference

LEMMA RankingStays ==
  ASSUME safe' = safe, eligible' = eligible, NEW p, NEW q
  PROVE  NotBehind(p, q)' <=> NotBehind(p, q)
  BY DEF NotBehind, Tied, Leads, IsClose, Cross, Duration

LEMMA StageOneKeeps == ASSUME SelectorInv, TbtStage PROVE SelectorInv'
  <1>. USE DEF TbtStage
  <1>1. /\ status = "stage1" /\ eligible = {} /\ remaining = {} \ ToSet(ranked)
        /\ ranked \in Seq({})
    BY DEF SelectorInv, SelectorTypes, Stages
  <1>2. ranked = <<>> /\ ranked' = ranked /\ safe' = safe /\ slack' = slack
    BY <1>1
  <1>3. CASE DOMAIN safe # {} /\ DOMAIN slack # {} /\ References = {}
    <2>1. /\ status' = "zero_reference_missing"
          /\ eligible' = eligible /\ remaining' = remaining
      BY <1>3
    <2>2. SelectorTypes'
      BY <1>2, <2>1 DEF SelectorInv, SelectorTypes
    <2>3. Stages'
      BY <1>1, <1>2, <1>3, <2>1, StageOneStays DEF Stages
    <2>. QED  BY <1>2, <2>2, <2>3 DEF SelectorInv, RankedInOrder
  <1>4. CASE ~(DOMAIN safe # {} /\ DOMAIN slack # {} /\ References = {})
    <2>1. /\ eligible' = Passed /\ remaining' = Passed
          /\ status' = IF Passed = {} THEN "no_safe_decision" ELSE "stage2"
      BY <1>4
    <2>2. Passed \subseteq DOMAIN safe
      BY DEF Passed
    <2>3. ToSet(ranked) = {}
      BY <1>2 DEF ToSet
    <2>4. SelectorTypes'
      <3>1. ranked' \in Seq(eligible') /\ IsInjective(ranked') /\ remaining' = eligible' \ ToSet(ranked')
        BY <1>2, <2>1, <2>3 DEF IsInjective
      <3>. QED  BY <1>2, <2>1, <2>2, <3>1 DEF SelectorInv, SelectorTypes
    <2>5. Passed' = Passed /\ References' = References
      BY <1>2, StageOneStays
    <2>6. Stages'
      BY <1>2, <1>4, <2>1, <2>5 DEF Stages
    <2>7. RankedInOrder'
      BY <1>2 DEF RankedInOrder
    <2>. QED  BY <2>4, <2>6, <2>7 DEF SelectorInv
  <1>. QED  BY <1>3, <1>4

LEMMA RankGroupKeeps == ASSUME SelectorInv, RankGroup PROVE SelectorInv'
  <1>. DEFINE leader == Leader(remaining)
              G == Group(remaining)
              q == InOrderOf(G, TieBefore)
  <1>1. /\ status = "stage2" /\ remaining # {} /\ ranked' = ranked \o q /\ remaining' = remaining \ G
        /\ safe' = safe /\ slack' = slack /\ status' = status /\ eligible' = eligible
    BY DEF RankGroup, Rest
  <1>2. /\ SelectorTypes /\ remaining \subseteq eligible /\ eligible \subseteq DOMAIN safe
        /\ ranked \in Seq(eligible) /\ IsInjective(ranked)
        /\ remaining = eligible \ ToSet(ranked)
    BY DEF SelectorInv, SelectorTypes
  <1>3. leader \in remaining /\ \A p \in remaining : Leads(leader, p)
    BY <1>1, <1>2, LeaderExists
  <1>4. G \subseteq remaining /\ \A p \in G : Tied(p, leader)
    BY DEF Group
  <1>5. q \in Seq(G) /\ IsInjective(q) /\ ToSet(q) = G
    BY <1>2, <1>4, GroupInTieOrder
  <1>. HIDE DEF leader, G, q
  <1>6. q \in Seq(eligible) /\ ToSet(ranked) \cap ToSet(q) = {}
    BY <1>2, <1>4, <1>5
  <1>7. /\ ranked' \in Seq(eligible) /\ IsInjective(ranked')
        /\ ToSet(ranked') = ToSet(ranked) \cup G
        /\ \A i \in DOMAIN ranked' :
              ranked'[i] = IF i \in DOMAIN ranked THEN ranked[i] ELSE q[i - Len(ranked)]
        /\ \A i \in DOMAIN ranked' : i \in DOMAIN ranked \/ i - Len(ranked) \in DOMAIN q
    BY <1>1, <1>2, <1>5, <1>6, AppendedSequence
  <1>8. SelectorTypes'
    <2>1. remaining' = eligible \ ToSet(ranked')
      BY <1>1, <1>2, <1>7
    <2>2. /\ safe' = safe /\ slack' = slack /\ status' = status /\ eligible' = eligible
      BY <1>1
    <2>3. /\ DOMAIN safe \subseteq Plans /\ safe \in [DOMAIN safe -> SafeCandidate]
          /\ \A p \in DOMAIN safe : Template[p] = "FRACTION" => safe[p].prefill > 0
          /\ DOMAIN slack \subseteq Decodes /\ slack \in [DOMAIN slack -> Int]
          /\ status \in {"stage1", "zero_reference_missing", "stage2", "no_safe_decision", "selected"}
          /\ eligible \subseteq DOMAIN safe
      BY <1>2 DEF SelectorTypes
    <2>. QED  BY <1>7, <2>1, <2>2, <2>3 DEF SelectorTypes
  <1>9. Stages'
    <2>1. Passed' = Passed /\ References' = References
      BY <1>1, StageOneStays
    <2>. QED  BY <1>1, <2>1 DEF SelectorInv, Stages
  <1>10. \A x, y : NotBehind(x, y)' <=> NotBehind(x, y)
    BY <1>1, RankingStays
  <1>11. ASSUME NEW j \in DOMAIN q, NEW p \in remaining PROVE NotBehind(q[j], p)
    <2>1. q[j] \in G
      BY <1>5
    <2>. QED  BY <1>2, <1>3, <1>4, <2>1 DEF NotBehind
  <1>12. RankedInOrder'
    <2>1. ASSUME NEW i \in DOMAIN ranked', NEW p \in remaining
          PROVE  NotBehind(ranked'[i], p)
      BY <1>7, <1>11 DEF SelectorInv, RankedInOrder
    <2>2. \A i \in DOMAIN ranked', p \in remaining' : NotBehind(ranked'[i], p)
      BY <1>1, <2>1
    <2>3. ASSUME NEW i \in DOMAIN ranked', NEW j \in DOMAIN ranked', i < j
          PROVE  NotBehind(ranked'[i], ranked'[j])
      <3>1. CASE j \in DOMAIN ranked
        <4>1. i \in DOMAIN ranked
          <5>1. /\ DOMAIN ranked = 1..Len(ranked) /\ Len(ranked) \in Nat
                /\ DOMAIN ranked' = 1..Len(ranked')
            BY <1>2, <1>7
          <5>. QED  BY <2>3, <3>1, <5>1
        <4>. QED  BY <1>7, <2>3, <3>1, <4>1 DEF SelectorInv, RankedInOrder
      <3>2. CASE j \notin DOMAIN ranked
        <4>1. ranked'[j] \in remaining
          BY <1>4, <1>5, <1>7, <3>2
        <4>. QED  BY <2>1, <4>1
      <3>. QED  BY <3>1, <3>2
    <2>. QED  BY <1>10, <2>2, <2>3 DEF RankedInOrder
  <1>. QED  BY <1>8, <1>9, <1>12 DEF SelectorInv

(* A plan without prefill is ranked first only if no plan has prefill.       *)
LEMMA FirstHasPrefill ==
  ASSUME SelectorInv, ranked # <<>>, safe[ranked[1]].prefill = 0, NEW p \in eligible
  PROVE  safe[p].prefill = 0
  <1>1. /\ SelectorTypes /\ eligible \subseteq DOMAIN safe /\ ranked \in Seq(eligible)
        /\ remaining = eligible \ ToSet(ranked)
    BY DEF SelectorInv, SelectorTypes
  <1>2. 1 \in DOMAIN ranked /\ DOMAIN ranked = 1..Len(ranked) /\ Len(ranked) \in Nat
    BY <1>1
  <1>3. CASE p = ranked[1]
    BY <1>3
  <1>4. CASE NotBehind(ranked[1], p)
    <2>1. PICK leader \in eligible : Tied(ranked[1], leader) /\ Leads(leader, p)
      BY <1>4 DEF NotBehind
    <2>2. safe[leader].prefill = 0
      BY <2>1 DEF Tied
    <2>3. /\ safe[p].prefill \in Nat
          /\ Duration(p) \in Nat \ {0} /\ Duration(leader) \in Nat \ {0}
      BY <1>1, FieldsOfPlan
    <2>4. 0 * Duration(p) >= safe[p].prefill * Duration(leader)
      BY <2>1, <2>2, <2>3 DEF Leads, Cross
    <2>5. safe[p].prefill * Duration(leader) <= 0 * Duration(leader)
      BY <2>3, <2>4
    <2>. QED  BY <2>3, <2>5, CancelFactor
  <1>5. p = ranked[1] \/ NotBehind(ranked[1], p)
    <2>1. CASE p \in remaining
      BY <1>2, <2>1 DEF SelectorInv, RankedInOrder
    <2>2. CASE p \in ToSet(ranked)
      <3>1. PICK j \in DOMAIN ranked : p = ranked[j]
        BY <2>2 DEF ToSet
      <3>2. j = 1 \/ 1 < j
        BY <1>2
      <3>. QED  BY <1>2, <3>1, <3>2 DEF SelectorInv, RankedInOrder
    <2>. QED  BY <1>1, <2>1, <2>2
  <1>. QED  BY <1>3, <1>4, <1>5

LEMMA DecideKeeps == ASSUME SelectorInv, Decide PROVE SelectorInv'
  <1>1. /\ status = "stage2" /\ remaining = {} /\ safe' = safe /\ slack' = slack
        /\ eligible' = eligible /\ remaining' = remaining /\ ranked' = ranked
        /\ status' = IF safe[ranked[1]].prefill = 0 /\ \E p \in eligible : safe[p].prefill > 0
                     THEN "zero_selected_over_prefill" ELSE "selected"
    BY DEF Decide
  <1>2. /\ SelectorTypes /\ eligible # {} /\ eligible \subseteq DOMAIN safe
        /\ remaining = eligible \ ToSet(ranked) /\ ranked \in Seq(eligible)
    BY <1>1 DEF SelectorInv, SelectorTypes, Stages
  <1>3. ranked # <<>>
    <2>1. ASSUME ranked = <<>> PROVE ToSet(ranked) = {}
      BY <2>1 DEF ToSet
    <2>. QED  BY <1>1, <1>2, <2>1
  <1>4. status' = "selected"
    <2>1. ASSUME NEW p \in eligible, safe[ranked[1]].prefill = 0 PROVE ~(safe[p].prefill > 0)
      <3>1. safe[p].prefill = 0
        BY <1>3, <2>1, FirstHasPrefill
      <3>. QED  BY <3>1
    <2>. QED  BY <1>1, <2>1
  <1>5. SelectorTypes'
    BY <1>1, <1>2, <1>4 DEF SelectorTypes
  <1>6. Stages'
    <2>1. Passed' = Passed /\ References' = References
      BY <1>1, StageOneStays
    <2>. QED  BY <1>1, <1>2, <1>4, <2>1 DEF SelectorInv, Stages
  <1>7. RankedInOrder'
    <2>1. \A x, y : NotBehind(x, y)' <=> NotBehind(x, y)
      BY <1>1, RankingStays
    <2>. QED  BY <1>1, <2>1 DEF SelectorInv, RankedInOrder
  <1>. QED  BY <1>5, <1>6, <1>7 DEF SelectorInv

LEMMA CallSteps == SelectorInv /\ [Next]_vars => SelectorInv'
  <1>. SUFFICES ASSUME SelectorInv, [Next]_vars PROVE SelectorInv'
    OBVIOUS
  <1>1. CASE UNCHANGED vars
    <2>1. /\ safe' = safe /\ slack' = slack /\ status' = status
          /\ eligible' = eligible /\ remaining' = remaining /\ ranked' = ranked
      BY <1>1 DEF vars
    <2>2. SelectorTypes'
      BY <2>1 DEF SelectorInv, SelectorTypes
    <2>3. Passed' = Passed /\ References' = References
      BY <2>1, StageOneStays
    <2>4. Stages'
      BY <2>1, <2>3 DEF SelectorInv, Stages
    <2>5. \A x, y : NotBehind(x, y)' <=> NotBehind(x, y)
      BY <2>1, RankingStays
    <2>6. RankedInOrder'
      BY <2>1, <2>5 DEF SelectorInv, RankedInOrder
    <2>. QED  BY <2>2, <2>4, <2>6 DEF SelectorInv
  <1>. QED  BY <1>1, StageOneKeeps, RankGroupKeeps, DecideKeeps DEF Next


-----------------------------------------------------------------------------
(* The selector's properties. *)

(* The invariant of the whole: the record and its replay change nothing of a *)
(* call.                                                                     *)
THEOREM SelectorInvariant == RSpec => []SelectorInv
  <1>1. RInit => SelectorInv
    BY CallStarts DEF RInit
  <1>2. SelectorInv /\ [RNext]_rvars => SelectorInv'
    <2>1. [RNext]_rvars => [Next]_vars
      BY DEF RNext, Select, Log, Alter, Replay, rvars, vars
    <2>. QED  BY <2>1, CallSteps
  <1>. QED  BY <1>1, <1>2, PTL DEF RSpec

(* No plan without prefill service wins over an eligible one with some, for  *)
(* every prediction and both tolerances (dpp_selector.py:556).                *)
THEOREM PrefillIsNotPassedOver == RSpec => []ZeroNeverBeatsPrefill
  <1>1. SelectorInv => ZeroNeverBeatsPrefill
    BY DEF SelectorInv, SelectorTypes, ZeroNeverBeatsPrefill
  <1>. QED  BY <1>1, SelectorInvariant, PTL

(* A call ends as a round assumes: stage 1 empties no safe set, for the        *)
(* reference passes its own comparison whatever the limit; and without         *)
(* deadlines prefill service, if there is any, comes first.                    *)
THEOREM CallsEndAsAssumed == RSpec => []EndsAsAssumed
  <1>1. ASSUME SelectorInv, status = "no_safe_decision", DOMAIN safe # {} PROVE FALSE
    <2>1. /\ Passed = {} /\ SelectorTypes
          /\ DOMAIN slack # {} => References # {}
      BY <1>1 DEF SelectorInv, Stages
    <2>2. DOMAIN slack # {}
      BY <1>1, <2>1 DEF Passed
    <2>3. ZeroReference \in References /\ References \subseteq DOMAIN safe
      BY <2>1, <2>2, ReferenceExists DEF References
    <2>4. Misses(ZeroReference) \ Misses(ZeroReference) = {}
      OBVIOUS
    <2>5. DeltaViolations(ZeroReference) <= Limit
      BY <2>4, FS_EmptySet, SelectorAssumption DEF DeltaViolations
    <2>6. ZeroReference \in Passed
      BY <2>2, <2>3, <2>5 DEF Passed
    <2>. QED  BY <2>1, <2>6
  <1>2. ASSUME SelectorInv, status = "selected"
        PROVE  /\ ranked[1] \in DOMAIN safe
               /\ DOMAIN slack # {} => References # {}
               /\ DOMAIN slack = {} /\ safe[ranked[1]].prefill = 0 =>
                     \A p \in DOMAIN safe : safe[p].prefill = 0
    <2>1. /\ SelectorTypes /\ eligible = Passed /\ eligible # {} /\ remaining = {}
          /\ DOMAIN safe # {} /\ DOMAIN slack # {} => References # {}
      BY <1>2 DEF SelectorInv, Stages
    <2>2. /\ eligible \subseteq DOMAIN safe /\ ranked \in Seq(eligible)
          /\ remaining = eligible \ ToSet(ranked)
      BY <2>1 DEF SelectorTypes
    <2>3. ranked # <<>>
      <3>1. ASSUME ranked = <<>> PROVE ToSet(ranked) = {}
        BY <3>1 DEF ToSet
      <3>. QED  BY <2>1, <2>2, <3>1
    <2>4. ranked[1] \in eligible
      BY <2>2, <2>3
    <2>5. DOMAIN slack = {} => eligible = DOMAIN safe
      BY <2>1 DEF Passed
    <2>6. ASSUME DOMAIN slack = {}, safe[ranked[1]].prefill = 0, NEW p \in DOMAIN safe
          PROVE  safe[p].prefill = 0
      BY <1>2, <2>3, <2>5, <2>6, FirstHasPrefill
    <2>. QED  BY <2>1, <2>2, <2>4, <2>6
  <1>3. SelectorInv /\ status = "zero_reference_missing" =>
           DOMAIN safe # {} /\ DOMAIN slack # {} /\ References = {}
    BY DEF SelectorInv, Stages
  <1>4. SelectorInv => EndsAsAssumed
    BY <1>1, <1>2, <1>3 DEF EndsAsAssumed
  <1>. QED  BY <1>4, SelectorInvariant, PTL

(* What a call selects keeps, at its conservative duration and but for Limit *)
(* of them, every TBT deadline that decoding alone keeps.                    *)
THEOREM SelectionKeepsDeadlines == RSpec => []SelectedKeepsDeadlines
  <1>1. ASSUME SelectorInv, status = "selected", DOMAIN slack # {}
        PROVE  \E zero \in DOMAIN safe :
                  /\ safe[zero].prefill = 0 /\ safe[zero].decode = Decodes
                  /\ Cardinality({r \in DOMAIN slack :
                                     Keeps(zero, r) /\ ~Keeps(ranked[1], r)}) <= Limit
    <2>1. /\ SelectorTypes /\ eligible = Passed /\ eligible # {} /\ remaining = {}
          /\ DOMAIN safe # {} => References # {}
      BY <1>1 DEF SelectorInv, Stages
    <2>2. /\ eligible \subseteq DOMAIN safe /\ ranked \in Seq(eligible)
          /\ remaining = eligible \ ToSet(ranked) /\ slack \in [DOMAIN slack -> Int]
      BY <2>1 DEF SelectorTypes
    <2>3. ranked # <<>>
      <3>1. ASSUME ranked = <<>> PROVE ToSet(ranked) = {}
        BY <3>1 DEF ToSet
      <3>. QED  BY <2>1, <2>2, <3>1
    <2>4. ranked[1] \in eligible
      <3>1. Len(ranked) \in Nat /\ Len(ranked) # 0
        BY <2>2, <2>3
      <3>. QED  BY <2>2, <3>1
    <2>5. ZeroReference \in References /\ References \subseteq DOMAIN safe
      BY <2>1, <2>2, <2>4, ReferenceExists DEF References
    <2>6. ASSUME NEW p \in DOMAIN safe, NEW r \in DOMAIN slack
          PROVE  Keeps(p, r) <=> r \notin Misses(p)
      <3>1. safe[p].conservative \in Int /\ slack[r] \in Int
        BY <2>1, <2>2, FieldsOfPlan
      <3>. QED  BY <3>1 DEF Keeps, Misses
    <2>7. {r \in DOMAIN slack : Keeps(ZeroReference, r) /\ ~Keeps(ranked[1], r)}
            = Misses(ranked[1]) \ Misses(ZeroReference)
      <3>1. Misses(ranked[1]) \subseteq DOMAIN slack
        BY DEF Misses
      <3>. QED  BY <2>2, <2>4, <2>5, <2>6, <3>1
    <2>8. DeltaViolations(ranked[1]) <= Limit
      BY <1>1, <2>1, <2>4 DEF Passed
    <2>9. safe[ZeroReference].prefill = 0 /\ safe[ZeroReference].decode = Decodes
      BY <2>5 DEF References
    <2>. QED  BY <2>5, <2>7, <2>8, <2>9 DEF DeltaViolations
  <1>2. SelectorInv => SelectedKeepsDeadlines
    BY <1>1 DEF SelectedKeepsDeadlines
  <1>. QED  BY <1>2, SelectorInvariant, PTL

(* Every eligible plan is ranked once or still to be ranked, and none behind *)
(* one that is slower beyond the tolerances, whatever these are.             *)
THEOREM RankingIsWithinTolerance == RSpec => []RankedWithinTolerance
  <1>1. ASSUME SelectorInv, NEW i \in DOMAIN ranked, NEW j \in DOMAIN ranked, i < j,
               Cross(ranked[j], ranked[i]) > Cross(ranked[i], ranked[j])
        PROVE  IsClose(ranked[i], ranked[j])
    <2>1. /\ SelectorTypes /\ eligible \subseteq DOMAIN safe /\ ranked \in Seq(eligible)
      BY <1>1 DEF SelectorInv, SelectorTypes
    <2>2. PICK leader \in eligible : Tied(ranked[i], leader) /\ Leads(leader, ranked[j])
      BY <1>1 DEF SelectorInv, RankedInOrder, NotBehind
    <2>. DEFINE p == ranked[i]
                q == ranked[j]
    <2>3. p \in DOMAIN safe /\ q \in DOMAIN safe /\ leader \in DOMAIN safe
      BY <2>1
    <2>. HIDE DEF p, q
    <2>. DEFINE ai == safe[p].prefill
                aj == safe[q].prefill
                al == safe[leader].prefill
                di == Duration(p)
                dj == Duration(q)
                dl == Duration(leader)
    <2>4. /\ ai \in Nat /\ aj \in Nat /\ al \in Nat
          /\ di \in Nat \ {0} /\ dj \in Nat \ {0} /\ dl \in Nat \ {0}
      BY <2>1, <2>3, FieldsOfPlan
    <2>5. /\ Cross(p, leader) = ai * dl /\ Cross(leader, p) = al * di
          /\ Cross(p, q) = ai * dj /\ Cross(q, p) = aj * di
          /\ Cross(leader, q) = al * dj /\ Cross(q, leader) = aj * dl
      BY DEF Cross
    <2>6. aj * di > ai * dj /\ al * dj >= aj * dl
      <3>1. Cross(q, p) > Cross(p, q) /\ Leads(leader, q)
        BY <1>1, <2>2 DEF p, q
      <3>2. al * dj \in Int /\ aj * dl \in Int
        BY <2>4
      <3>. QED  BY <2>5, <3>1, <3>2 DEF Leads
    <2>7. RelTol \in Nat /\ AbsTol \in Nat
      BY SelectorAssumption
    <2>. HIDE DEF ai, aj, al, di, dj, dl
    <2>8. al * di >= ai * dl /\ al * di \in Nat /\ ai * dl \in Nat
      BY <2>4, <2>6, FractionsAreTransitive
    <2>9. \/ 100 * (al * di - ai * dl) <= RelTol * (al * di)
          \/ 100 * (al * di - ai * dl) <= AbsTol * di * dl
      <3>1. IsClose(p, leader)
        BY <2>2 DEF Tied, p
      <3>2. Larger(ai * dl, al * di) = al * di
        BY <2>8 DEF Larger
      <3>3. Distance(ai * dl, al * di) = al * di - ai * dl
        BY <2>8 DEF Distance
      <3>. QED  BY <2>5, <3>1, <3>2, <3>3 DEF IsClose, di, dl
    <2>10. \/ 100 * (aj * di - ai * dj) <= RelTol * (aj * di)
           \/ 100 * (aj * di - ai * dj) <= AbsTol * di * dj
      BY <2>4, <2>6, <2>7, <2>9, BetweenIsClose
    <2>11. aj * di \in Nat /\ ai * dj \in Nat
      BY <2>4
    <2>12. Larger(ai * dj, aj * di) = aj * di /\ Distance(ai * dj, aj * di) = aj * di - ai * dj
      BY <2>6, <2>11 DEF Larger, Distance
    <2>13. IsClose(p, q)
      BY <2>5, <2>10, <2>12 DEF IsClose, di, dj
    <2>. QED  BY <2>13 DEF p, q
  <1>2. SelectorInv => RankedWithinTolerance
    <2>1. SelectorInv => IsInjective(ranked) /\ remaining = eligible \ ToSet(ranked)
      BY DEF SelectorInv, SelectorTypes
    <2>. QED  BY <1>1, <2>1 DEF RankedWithinTolerance
  <1>. QED  BY <1>2, SelectorInvariant, PTL


-----------------------------------------------------------------------------
(* The replay computes what the selector did.  A record is of this call if   *)
(* its inputs are the call's and it has a score for each eligible plan.      *)
OfThisCall(rec) ==
  /\ rec.candidates = safe /\ rec.deadlines = slack /\ rec.limit = Limit
  /\ DOMAIN rec.service = eligible

Ended == status \in {"selected", "no_safe_decision"}

LEMMA MissesAreReplayed ==
  ASSUME SelectorTypes, NEW rec, OfThisCall(rec), NEW p \in DOMAIN safe
  PROVE  Missed(rec, safe[p]) = Misses(p) /\ EffectiveOf(safe[p]) = Duration(p)
  <1>1. rec.deadlines = slack
    BY DEF OfThisCall
  <1>2. \A r \in DOMAIN slack : slack[r] \in Int /\ safe[p].conservative \in Int
    BY FieldsOfPlan DEF SelectorTypes
  <1>3. Missed(rec, safe[p]) = Misses(p)
    BY <1>1, <1>2 DEF Missed, Misses
  <1>4. EffectiveOf(safe[p]) = Duration(p)
    BY DEF EffectiveOf, Duration
  <1>. QED  BY <1>3, <1>4

LEMMA ReferenceIsReplayed ==
  ASSUME SelectorTypes, NEW rec, OfThisCall(rec), References # {}
  PROVE  ReplayedReference(rec) = ZeroReference /\ ZeroReference \in DOMAIN safe
  <1>. DEFINE z == ZeroReference
              zeros == {p \in References : Template[p] = "ZERO"}
              stocks == {p \in References : Template[p] = "STOCK"}
              best == IF zeros # {} THEN zeros ELSE IF stocks # {} THEN stocks ELSE References
  <1>1. FullDecodeZero(rec) = References
    BY DEF FullDecodeZero, References, OfThisCall
  <1>2. /\ z \in References
        /\ \A q \in References : \/ Preference(z) < Preference(q)
                                 \/ Preference(z) = Preference(q) /\ z <= q
    BY ReferenceExists
  <1>3. \A q \in References : q \in Nat
    BY FieldsOfPlan DEF References
  <1>4. \A q \in References : /\ Template[q] = "ZERO" <=> Preference(q) = 0
                              /\ Template[q] = "STOCK" <=> Preference(q) = 1
                              /\ Preference(q) \in {0, 1, 2}
    BY DEF Preference
  <1>5. z \in best /\ \A q \in best : z <= q
    <2>1. CASE zeros # {}
      BY <1>2, <1>4, <2>1
    <2>2. CASE zeros = {} /\ stocks # {}
      BY <1>2, <1>4, <2>2
    <2>3. CASE zeros = {} /\ stocks = {}
      BY <1>2, <1>4, <2>3
    <2>. QED  BY <2>1, <2>2, <2>3
  <1>6. best \subseteq References
    OBVIOUS
  <1>7. ReplayedReference(rec) = Min(best)
    <2>1. best # {}
      BY <1>5
    <2>. QED  BY <1>1, <2>1 DEF ReplayedReference
  <1>. HIDE DEF best, z
  <1>8. Min(best) = z
    BY <1>3, <1>5, <1>6 DEF Min
  <1>9. z \in DOMAIN safe
    BY <1>2 DEF References
  <1>. QED  BY <1>7, <1>8, <1>9 DEF z

(* Lateness beyond the reference's, as the selector and as the replay has it. *)
LEMMA LatenessIsReplayed ==
  ASSUME NEW a \in Int, NEW b \in Int, NEW d \in Int
  PROVE  Max({0, Lateness(a, d) - Lateness(b, d)}) = Lateness(Lateness(a, d), Lateness(b, d))
  <1>. DEFINE x == Lateness(a, d)
              y == Lateness(b, d)
  <1>1. x \in Int /\ y \in Int
    BY DEF Lateness
  <1>. HIDE DEF x, y
  <1>2. Max({0, x - y}) = IF x > y THEN x - y ELSE 0
    BY <1>1 DEF Max
  <1>. QED  BY <1>2 DEF Lateness, x, y

LEMMA RowsAreReplayed ==
  ASSUME SelectorInv, Ended, NEW rec, OfThisCall(rec)
  PROVE  /\ ReplayedRows(rec) = [p \in DOMAIN safe |-> Stage1Row(p)]
         /\ ReplayedEligible(rec) = eligible
  <1>1. /\ SelectorTypes /\ eligible = Passed
        /\ DOMAIN safe # {} /\ DOMAIN slack # {} => References # {}
    BY DEF SelectorInv, Stages, Ended
  <1>2. rec.candidates = safe /\ rec.deadlines = slack /\ rec.limit = Limit
    BY DEF OfThisCall
  <1>3. ASSUME NEW p \in DOMAIN safe
        PROVE  /\ ReplayedRows(rec)[p] = Stage1Row(p)
               /\ Stage1Row(p).passed <=> p \in eligible
    <2>1. CASE DOMAIN slack = {}
      <3>1. ReplayedRows(rec)[p] = UnconstrainedRow(safe[p])
        BY <1>2, <2>1 DEF ReplayedRows
      <3>2. p \in eligible
        BY <1>1, <2>1 DEF Passed
      <3>. QED  BY <1>1, <2>1, <3>1, <3>2, MissesAreReplayed DEF UnconstrainedRow, Stage1Row
    <2>2. CASE DOMAIN slack # {}
      <3>. DEFINE z == ZeroReference
      <3>1. ReplayedReference(rec) = z /\ z \in DOMAIN safe
        BY <1>1, <2>2, ReferenceIsReplayed
      <3>2. ReplayedRows(rec)[p] = ReplayedRow(rec, p, z)
        BY <1>2, <2>2, <3>1 DEF ReplayedRows
      <3>3. /\ Missed(rec, safe[p]) = Misses(p) /\ Missed(rec, safe[z]) = Misses(z)
            /\ EffectiveOf(safe[p]) = Duration(p)
        BY <1>1, <3>1, MissesAreReplayed
      <3>4. [r \in DOMAIN slack |->
                Max({0, Lateness(safe[p].conservative, slack[r])
                         - Lateness(safe[z].conservative, slack[r])})]
              = [r \in DOMAIN slack |->
                    Lateness(Lateness(safe[p].conservative, slack[r]),
                             Lateness(safe[z].conservative, slack[r]))]
        <4>1. ASSUME NEW r \in DOMAIN slack
              PROVE  Max({0, Lateness(safe[p].conservative, slack[r])
                              - Lateness(safe[z].conservative, slack[r])})
                       = Lateness(Lateness(safe[p].conservative, slack[r]),
                                  Lateness(safe[z].conservative, slack[r]))
          <5>1. /\ safe[p].conservative \in Int /\ safe[z].conservative \in Int
                /\ slack[r] \in Int
            BY <1>1, <3>1, FieldsOfPlan DEF SelectorTypes
          <5>. QED  BY <5>1, LatenessIsReplayed
        <4>. QED  BY <4>1
      <3>5. p \in eligible <=> DeltaViolations(p) <= Limit
        BY <1>1, <2>2 DEF Passed
      <3>6. ReplayedRow(rec, p, z) =
              [effective |-> Duration(p), risk |-> safe[p].conservative,
               violations |-> Cardinality(Misses(p)), zero |-> Cardinality(Misses(z)),
               delta |-> DeltaViolations(p), lateness |-> DeltaLateness(p),
               passed |-> DeltaViolations(p) <= Limit]
        BY <1>2, <3>3, <3>4 DEF ReplayedRow, DeltaViolations, DeltaLateness
      <3>7. Stage1Row(p) =
              [effective |-> Duration(p), risk |-> safe[p].conservative,
               violations |-> Cardinality(Misses(p)), zero |-> Cardinality(Misses(z)),
               delta |-> DeltaViolations(p), lateness |-> DeltaLateness(p),
               passed |-> p \in eligible]
        BY <2>2 DEF Stage1Row
      <3>8. (p \in eligible) = (DeltaViolations(p) <= Limit)
        BY <3>5
      <3>9. ReplayedRow(rec, p, z) = Stage1Row(p)
        BY <3>6, <3>7, <3>8, Zenon
      <3>10. Stage1Row(p).passed <=> p \in eligible
        <4>. DEFINE row(x) ==
                      [effective |-> Duration(p), risk |-> safe[p].conservative,
                       violations |-> Cardinality(Misses(p)), zero |-> Cardinality(Misses(z)),
                       delta |-> DeltaViolations(p), lateness |-> DeltaLateness(p), passed |-> x]
        <4>1. ASSUME NEW x PROVE row(x).passed = x
          OBVIOUS
        <4>2. Stage1Row(p) = row(p \in eligible)
          BY <3>7
        <4>. HIDE DEF row
        <4>3. CASE p \in eligible
          <5>1. (p \in eligible) = TRUE
            BY <4>3
          <5>2. Stage1Row(p) = row(TRUE)
            BY <4>2, <5>1, Zenon
          <5>. QED  BY <4>1, <4>3, <5>2
        <4>4. CASE p \notin eligible
          <5>1. (p \in eligible) = FALSE
            BY <4>4
          <5>2. Stage1Row(p) = row(FALSE)
            BY <4>2, <5>1, Zenon
          <5>. QED  BY <4>1, <4>4, <5>2
        <4>. QED  BY <4>3, <4>4
      <3>. QED  BY <3>2, <3>9, <3>10
    <2>. QED  BY <2>1, <2>2
  <1>4. ReplayedRows(rec) = [p \in DOMAIN safe |-> ReplayedRows(rec)[p]]
    BY <1>2 DEF ReplayedRows
  <1>5. ReplayedRows(rec) = [p \in DOMAIN safe |-> Stage1Row(p)]
    BY <1>3, <1>4
  <1>6. ReplayedEligible(rec) = {p \in DOMAIN safe : Stage1Row(p).passed}
    BY <1>5 DEF ReplayedEligible
  <1>7. eligible \subseteq DOMAIN safe
    BY <1>1 DEF SelectorTypes
  <1>. QED  BY <1>3, <1>5, <1>6, <1>7


-----------------------------------------------------------------------------
(* The ranking of every part of the eligible plans, as the selector's loop   *)
(* would have it.                                                            *)
GroupInOrder(S) == InOrderOf(Group(S), TieBefore)

RankBody(f) ==
  [S \in SUBSET eligible |->
      IF S = {} THEN <<>> ELSE GroupInOrder(S) \o f[S \ Group(S)]]

RankTable == CHOOSE f : f = RankBody(f)

LEMMA GroupFacts ==
  ASSUME SelectorTypes, NEW S \in SUBSET DOMAIN safe, S # {}
  PROVE  /\ Group(S) \subseteq S /\ Group(S) # {}
         /\ GroupInOrder(S) \in Seq(Group(S)) /\ ToSet(GroupInOrder(S)) = Group(S)
  <1>. DEFINE leader == Leader(S)
              x == Cross(leader, leader)
  <1>1. leader \in S
    BY LeaderExists
  <1>2. x \in Nat
    <2>1. safe[leader].prefill \in Nat /\ Duration(leader) \in Nat
      BY <1>1, FieldsOfPlan
    <2>. QED  BY <2>1 DEF Cross
  <1>3. Tied(leader, leader)
    <2>. HIDE DEF leader
    <2>1. Distance(x, x) = 0 /\ Larger(x, x) = x
      BY <1>2 DEF Distance, Larger
    <2>2. 0 <= RelTol * x
      BY <1>2, SelectorAssumption
    <2>. HIDE DEF x
    <2>3. 100 * Distance(x, x) <= RelTol * Larger(x, x)
      BY <2>1, <2>2
    <2>. QED  BY <2>3 DEF Tied, IsClose, x
  <1>4. leader \in Group(S) /\ Group(S) \subseteq S
    BY <1>1, <1>3 DEF Group
  <1>5. GroupInOrder(S) \in Seq(Group(S)) /\ ToSet(GroupInOrder(S)) = Group(S)
    BY <1>4, GroupInTieOrder DEF GroupInOrder
  <1>. QED  BY <1>4, <1>5

LEMMA RankTableExists ==
  ASSUME SelectorTypes
  PROVE  RankTable \in [SUBSET eligible -> Seq(eligible)] /\ RankTable = RankBody(RankTable)
  <1>. DEFINE At(f, S) == f[S] = RankBody(f)[S]
              N == {n \in Nat : \E f \in [SUBSET eligible -> Seq(eligible)] :
                       \A S \in SUBSET eligible : Cardinality(S) <= n => At(f, S)}
  <1>1. /\ IsFiniteSet(eligible)
        /\ \A S \in SUBSET eligible : /\ IsFiniteSet(S) /\ Cardinality(S) \in Nat
                                      /\ Cardinality(S) <= Cardinality(eligible)
    <2>1. eligible \subseteq Plans /\ IsFiniteSet(Plans)
      BY SelectorAssumption DEF SelectorTypes
    <2>. QED  BY <2>1, FS_Subset, FS_CardinalityType
  <1>2. ASSUME NEW f \in [SUBSET eligible -> Seq(eligible)]
        PROVE  RankBody(f) \in [SUBSET eligible -> Seq(eligible)]
    <2>1. ASSUME NEW S \in SUBSET eligible, S # {}
          PROVE  GroupInOrder(S) \o f[S \ Group(S)] \in Seq(eligible)
      <3>1. Group(S) \subseteq eligible /\ GroupInOrder(S) \in Seq(Group(S))
        BY <2>1, GroupFacts DEF SelectorTypes
      <3>2. GroupInOrder(S) \in Seq(eligible) /\ f[S \ Group(S)] \in Seq(eligible)
        BY <3>1
      <3>. QED  BY <3>2, ConcatProperties
    <2>2. <<>> \in Seq(eligible)
      OBVIOUS
    <2>. QED  BY <2>1, <2>2 DEF RankBody
  <1>3. 0 \in N
    <2>1. [S \in SUBSET eligible |-> <<>>] \in [SUBSET eligible -> Seq(eligible)]
      OBVIOUS
    <2>2. \A S \in SUBSET eligible : Cardinality(S) <= 0 => S = {}
      BY <1>1, FS_EmptySet
    <2>. QED  BY <2>1, <2>2 DEF RankBody
  <1>4. ASSUME NEW n \in Nat, n \in N PROVE n + 1 \in N
    <2>1. PICK f \in [SUBSET eligible -> Seq(eligible)] :
             \A S \in SUBSET eligible : Cardinality(S) <= n => At(f, S)
      BY <1>4
    <2>2. RankBody(f) \in [SUBSET eligible -> Seq(eligible)]
      BY <1>2
    <2>3. ASSUME NEW S \in SUBSET eligible, Cardinality(S) <= n + 1 PROVE At(RankBody(f), S)
      <3>1. CASE S = {}
        BY <3>1 DEF RankBody
      <3>2. CASE S # {}
        <4>. DEFINE rest == S \ Group(S)
        <4>1. Group(S) \subseteq S /\ Group(S) # {}
          BY <3>2, GroupFacts DEF SelectorTypes
        <4>2. PICK p \in Group(S) : TRUE
          BY <4>1
        <4>3. rest \in SUBSET eligible /\ rest \subseteq S \ {p} /\ p \in S
          BY <4>1, <4>2
        <4>4. IsFiniteSet(S \ {p}) /\ Cardinality(S \ {p}) = Cardinality(S) - 1
          BY <1>1, <4>3, FS_RemoveElement
        <4>5. Cardinality(rest) <= Cardinality(S \ {p})
          BY <4>3, <4>4, FS_Subset
        <4>6. Cardinality(rest) <= n
          BY <1>1, <2>3, <4>3, <4>4, <4>5
        <4>7. f[rest] = RankBody(f)[rest]
          BY <2>1, <4>3, <4>6
        <4>8. \A g : RankBody(g)[S] = GroupInOrder(S) \o g[rest]
          BY <3>2 DEF RankBody
        <4>. QED  BY <4>7, <4>8
      <3>. QED  BY <3>1, <3>2
    <2>. HIDE DEF At
    <2>4. \E g \in [SUBSET eligible -> Seq(eligible)] :
             \A S \in SUBSET eligible : Cardinality(S) <= n + 1 => At(g, S)
      BY <2>2, <2>3
    <2>. QED  BY <2>4
  <1>5. Cardinality(eligible) \in N
    <2>1. Nat \subseteq N
      <3>. HIDE DEF N
      <3>. QED  BY <1>3, <1>4, InductionOnNat
    <2>. QED  BY <1>1, <2>1
  <1>6. PICK f \in [SUBSET eligible -> Seq(eligible)] :
           \A S \in SUBSET eligible : f[S] = RankBody(f)[S]
    BY <1>1, <1>5
  <1>7. f = RankBody(f)
    <2>1. RankBody(f) = [S \in SUBSET eligible |-> RankBody(f)[S]]
      BY DEF RankBody
    <2>2. f = [S \in SUBSET eligible |-> f[S]]
      OBVIOUS
    <2>. QED  BY <1>6, <2>1, <2>2
  <1>8. RankTable = RankBody(RankTable)
    BY <1>7 DEF RankTable
  <1>9. \A S \in SUBSET eligible : RankTable[S] = f[S]
    <2>. DEFINE t == RankTable
                Q == {S \in SUBSET eligible : t[S] = f[S]}
    <2>1. ASSUME NEW S \in SUBSET eligible, \A T \in SUBSET S : T # S => T \in Q
          PROVE  S \in Q
      <3>1. t = RankBody(t)
        BY <1>8
      <3>. HIDE DEF t
      <3>2. t[S] = RankBody(t)[S] /\ f[S] = RankBody(f)[S]
        BY <1>7, <3>1
      <3>3. CASE S = {}
        BY <3>2, <3>3 DEF RankBody
      <3>4. CASE S # {}
        <4>1. Group(S) \subseteq S /\ Group(S) # {}
          BY <3>4, GroupFacts DEF SelectorTypes
        <4>2. t[S \ Group(S)] = f[S \ Group(S)]
          BY <2>1, <4>1
        <4>3. \A g : RankBody(g)[S] = GroupInOrder(S) \o g[S \ Group(S)]
          BY <3>4 DEF RankBody
        <4>. QED  BY <3>2, <4>2, <4>3
      <3>. QED  BY <3>3, <3>4
    <2>2. \A S \in SUBSET eligible : S \in Q
      <3>. HIDE DEF Q
      <3>. QED  BY <1>1, <2>1, InductionOnSmaller
    <2>. QED  BY <2>2
  <1>10. RankTable = [S \in SUBSET eligible |-> RankTable[S]]
    <2>. DEFINE t == RankTable
    <2>1. t = RankBody(t)
      BY <1>8
    <2>. HIDE DEF t
    <2>2. t = [S \in SUBSET eligible |-> t[S]]
      BY <2>1 DEF RankBody
    <2>. QED  BY <2>2 DEF t
  <1>11. RankTable \in [SUBSET eligible -> Seq(eligible)]
    BY <1>9, <1>10
  <1>. QED  BY <1>8, <1>11


(* What is ranked, with the ranking of what remains, is the ranking of all.  *)
RankedSoFar ==
  status \in {"stage2", "selected"} =>
     \/ ranked = <<>> /\ remaining = eligible
     \/ ranked \o RankTable[remaining] = RankTable[eligible]

LEMMA RankTableStays ==
  ASSUME safe' = safe, eligible' = eligible
  PROVE  RankTable' = RankTable
  <1>1. \A S : GroupInOrder(S)' = GroupInOrder(S) /\ Group(S)' = Group(S)
    BY DEF GroupInOrder, InOrderOf, Group, Leader, Leads, Tied, IsClose, TieBefore, Cross, Duration
  <1>. QED  BY <1>1 DEF RankTable, RankBody

LEMMA RankedSoFarSteps == SelectorInv /\ RankedSoFar /\ [Next]_vars => RankedSoFar'
  <1>. SUFFICES ASSUME SelectorInv, RankedSoFar, [Next]_vars PROVE RankedSoFar'
    OBVIOUS
  <1>1. CASE TbtStage
    <2>1. status = "stage1" /\ ranked' = ranked
      BY <1>1 DEF TbtStage
    <2>2. ranked = <<>>
      <3>1. ranked \in Seq({})
        BY <2>1 DEF SelectorInv, SelectorTypes, Stages
      <3>. QED  BY <3>1
    <2>3. status' = "zero_reference_missing" \/ remaining' = eligible'
      BY <1>1 DEF TbtStage
    <2>. QED  BY <2>1, <2>2, <2>3 DEF RankedSoFar
  <1>2. CASE RankGroup
    <2>. DEFINE q == GroupInOrder(remaining)
                rest == remaining \ Group(remaining)
    <2>1. /\ status = "stage2" /\ remaining # {} /\ ranked' = ranked \o q /\ remaining' = rest
          /\ safe' = safe /\ eligible' = eligible
      BY <1>2 DEF RankGroup, Rest, GroupInOrder
    <2>2. RankTable' = RankTable
      BY <2>1, RankTableStays
    <2>3. /\ SelectorTypes /\ remaining \subseteq eligible /\ eligible \subseteq DOMAIN safe
          /\ ranked \in Seq(eligible)
      BY DEF SelectorInv, SelectorTypes
    <2>4. /\ RankTable \in [SUBSET eligible -> Seq(eligible)]
          /\ RankTable[remaining] = q \o RankTable[rest]
      <3>. DEFINE t == RankTable
      <3>1. t \in [SUBSET eligible -> Seq(eligible)] /\ t = RankBody(t)
        BY <2>3, RankTableExists
      <3>. HIDE DEF t
      <3>2. RankBody(t)[remaining] = q \o t[rest]
        BY <2>1, <2>3 DEF RankBody
      <3>3. t[remaining] = q \o t[rest]
        BY <3>1, <3>2
      <3>. QED  BY <3>1, <3>3 DEF t
    <2>5. q \in Seq(eligible)
      <3>1. Group(remaining) \subseteq remaining /\ q \in Seq(Group(remaining))
        BY <2>1, <2>3, GroupFacts
      <3>. QED  BY <2>3, <3>1
    <2>6. RankTable[rest] \in Seq(eligible)
      BY <2>3, <2>4
    <2>. HIDE DEF q, rest
    <2>7. CASE ranked = <<>> /\ remaining = eligible
      <3>1. ranked' = q
        BY <2>1, <2>5, <2>7, ConcatEmptySeq
      <3>. QED  BY <2>1, <2>2, <2>4, <2>7, <3>1 DEF RankedSoFar
    <2>8. CASE ranked \o RankTable[remaining] = RankTable[eligible]
      <3>1. (ranked \o q) \o RankTable[rest] = ranked \o (q \o RankTable[rest])
        <4>. DEFINE u == RankTable[rest]
        <4>1. u \in Seq(eligible) /\ ranked \in Seq(eligible)
          BY <2>3, <2>6
        <4>. HIDE DEF u
        <4>2. (ranked \o q) \o u = ranked \o (q \o u)
          BY <2>5, <4>1, ConcatAssociative
        <4>. QED  BY <4>2 DEF u
      <3>2. ranked' \o RankTable[rest] = RankTable[eligible]
        BY <2>1, <2>4, <2>8, <3>1
      <3>. QED  BY <2>1, <2>2, <3>2 DEF RankedSoFar
    <2>. QED  BY <2>1, <2>7, <2>8 DEF RankedSoFar
  <1>3. CASE Decide
    <2>1. /\ status = "stage2" /\ safe' = safe /\ eligible' = eligible
          /\ remaining' = remaining /\ ranked' = ranked
      BY <1>3 DEF Decide
    <2>. QED  BY <2>1, RankTableStays DEF RankedSoFar
  <1>4. CASE UNCHANGED vars
    <2>1. /\ status' = status /\ safe' = safe /\ eligible' = eligible
          /\ remaining' = remaining /\ ranked' = ranked
      BY <1>4 DEF vars
    <2>. QED  BY <2>1, RankTableStays DEF RankedSoFar
  <1>. QED  BY <1>1, <1>2, <1>3, <1>4 DEF Next

(* A finished call has ranked all, in the order of the table. *)
LEMMA RankedIsTable ==
  ASSUME SelectorInv, RankedSoFar, Ended
  PROVE  ranked = RankTable[eligible]
  <1>1. SelectorTypes /\ ranked \in Seq(eligible) /\ remaining = eligible \ ToSet(ranked)
    BY DEF SelectorInv, SelectorTypes
  <1>. DEFINE t == RankTable
  <1>2. t \in [SUBSET eligible -> Seq(eligible)] /\ t = RankBody(t)
    BY <1>1, RankTableExists
  <1>3. t[{}] = <<>>
    <2>. HIDE DEF t
    <2>1. RankBody(t)[{}] = <<>>
      BY DEF RankBody
    <2>. QED  BY <1>2, <2>1
  <1>. HIDE DEF t
  <1>4. CASE eligible = {}
    <2>1. ranked = <<>>
      BY <1>1, <1>4
    <2>. QED  BY <1>3, <1>4, <2>1 DEF t
  <1>5. CASE eligible # {}
    <2>1. status = "selected" /\ remaining = {}
      BY <1>5 DEF SelectorInv, Stages, Ended
    <2>2. ranked \o t[{}] = t[eligible]
      BY <1>5, <2>1 DEF RankedSoFar, t
    <2>3. ranked \o <<>> = ranked
      BY <1>1, ConcatEmptySeq
    <2>. QED  BY <1>3, <2>2, <2>3 DEF t
  <1>. QED  BY <1>4, <1>5

-----------------------------------------------------------------------------
(* The replay's groups and its ranking are the selector's. *)
LEMMA TieKeysAgree ==
  ASSUME SelectorTypes, NEW p \in DOMAIN safe, NEW q \in DOMAIN safe
  PROVE  TieKeyBefore(safe, p, q) <=> TieBefore(p, q)
  <1>. DEFINE k == <<EffectiveOf(safe[p]), -safe[p].prefill, p>>
              m == <<EffectiveOf(safe[q]), -safe[q].prefill, q>>
              i == CHOOSE j \in 1..3 : k[j] # m[j] /\ \A h \in 1..(j - 1) : k[h] = m[h]
  <1>1. EffectiveOf(safe[p]) = Duration(p) /\ EffectiveOf(safe[q]) = Duration(q)
    BY DEF EffectiveOf, Duration
  <1>2. /\ p \in Nat /\ safe[p].prefill \in Nat /\ Duration(p) \in Nat
        /\ q \in Nat /\ safe[q].prefill \in Nat /\ Duration(q) \in Nat
    BY FieldsOfPlan
  <1>3. /\ k[1] = Duration(p) /\ k[2] = -safe[p].prefill /\ k[3] = p
        /\ m[1] = Duration(q) /\ m[2] = -safe[q].prefill /\ m[3] = q
    BY <1>1
  <1>4. TieKeyBefore(safe, p, q) <=> p # q /\ k[i] < m[i]
    BY DEF TieKeyBefore
  <1>5. CASE p = q
    BY <1>2, <1>4, <1>5 DEF TieBefore
  <1>6. CASE p # q
    <2>. HIDE DEF k, m
    <2>1. \E j \in 1..3 : k[j] # m[j] /\ \A h \in 1..(j - 1) : k[h] = m[h]
      <3>1. CASE k[1] # m[1]
        BY <3>1
      <3>2. CASE k[1] = m[1] /\ k[2] # m[2]
        BY <3>2
      <3>3. CASE k[1] = m[1] /\ k[2] = m[2]
        BY <1>3, <1>6, <3>3
      <3>. QED  BY <3>1, <3>2, <3>3
    <2>2. i \in 1..3 /\ k[i] # m[i] /\ \A h \in 1..(i - 1) : k[h] = m[h]
      BY <2>1
    <2>. HIDE DEF i
    <2>3. i = 1 \/ i = 2 \/ i = 3
      BY <2>2
    <2>4. CASE i = 1
      BY <1>2, <1>3, <1>4, <1>6, <2>2, <2>4 DEF TieBefore
    <2>5. CASE i = 2
      <3>1. k[1] = m[1]
        BY <2>2, <2>5
      <3>. QED  BY <1>2, <1>3, <1>4, <1>6, <2>2, <2>5, <3>1 DEF TieBefore
    <2>6. CASE i = 3
      <3>1. k[1] = m[1] /\ k[2] = m[2]
        BY <2>2, <2>6
      <3>. QED  BY <1>2, <1>3, <1>4, <1>6, <2>2, <2>6, <3>1 DEF TieBefore
    <2>. QED  BY <2>3, <2>4, <2>5, <2>6
  <1>. QED  BY <1>5, <1>6

LEMMA ClosenessAgrees ==
  ASSUME SelectorTypes, NEW p \in DOMAIN safe, NEW q \in DOMAIN safe
  PROVE  CloseScores(safe[p], safe[q]) <=> IsClose(p, q)
  <1>. DEFINE a == Cross(p, q)
              b == Cross(q, p)
              scale == Duration(p) * Duration(q)
              gap == 100 * (Max({a, b}) - Min({a, b}))
  <1>1. EffectiveOf(safe[p]) = Duration(p) /\ EffectiveOf(safe[q]) = Duration(q)
    BY DEF EffectiveOf, Duration
  <1>2. ScoreOver(safe[p], safe[q]) = a /\ ScoreOver(safe[q], safe[p]) = b
    BY <1>1 DEF ScoreOver, Cross
  <1>3. a \in Nat /\ b \in Nat /\ AbsTol * Duration(p) * Duration(q) \in Nat
    <2>1. /\ safe[p].prefill \in Nat /\ Duration(p) \in Nat
          /\ safe[q].prefill \in Nat /\ Duration(q) \in Nat
      BY FieldsOfPlan
    <2>. QED  BY <2>1, SelectorAssumption DEF Cross
  <1>4. CloseScores(safe[p], safe[q])
          <=> gap <= Max({RelTol * Max({a, b}), AbsTol * Duration(p) * Duration(q)})
    BY <1>1, <1>2 DEF CloseScores
  <1>. DEFINE abs == AbsTol * Duration(p) * Duration(q)
  <1>. HIDE DEF a, b
  <1>5. Max({a, b}) = Larger(a, b) /\ Max({a, b}) - Min({a, b}) = Distance(a, b)
    BY <1>3 DEF Max, Min, Larger, Distance
  <1>6. Larger(a, b) \in Nat /\ Distance(a, b) \in Nat
    BY <1>3 DEF Larger, Distance
  <1>. DEFINE rel == RelTol * Larger(a, b)
  <1>7. rel \in Nat /\ abs \in Nat
    BY <1>3, <1>6, SelectorAssumption
  <1>8. CloseScores(safe[p], safe[q]) <=> 100 * Distance(a, b) <= Max({rel, abs})
    BY <1>4, <1>5
  <1>9. IsClose(p, q) <=> 100 * Distance(a, b) <= rel \/ 100 * Distance(a, b) <= abs
    BY DEF IsClose, a, b
  <1>. HIDE DEF rel, abs
  <1>10. Max({rel, abs}) = IF rel >= abs THEN rel ELSE abs
    BY <1>7 DEF Max
  <1>. QED  BY <1>6, <1>7, <1>8, <1>9, <1>10


LEMMA GroupsAgree ==
  ASSUME SelectorTypes, NEW S \in SUBSET DOMAIN safe, S # {}
  PROVE  FirstGroup(safe, S) = GroupInOrder(S)
  <1>. DEFINE First(p) == p \in S /\ \A q \in S \ {p} :
                 \/ ScoreOver(safe[p], safe[q]) > ScoreOver(safe[q], safe[p])
                 \/ ScoreOver(safe[p], safe[q]) = ScoreOver(safe[q], safe[p]) /\ p < q
              first == CHOOSE p \in S : \A q \in S \ {p} :
                 \/ ScoreOver(safe[p], safe[q]) > ScoreOver(safe[q], safe[p])
                 \/ ScoreOver(safe[p], safe[q]) = ScoreOver(safe[q], safe[p]) /\ p < q
              members == {p \in S : /\ (safe[p].prefill = 0) = (safe[first].prefill = 0)
                                    /\ CloseScores(safe[p], safe[first])}
  <1>1. \A p, q \in S : ScoreOver(safe[p], safe[q]) = Cross(p, q) /\ Cross(p, q) \in Nat /\ p \in Nat
    <2>1. \A p, q \in S : ScoreOver(safe[p], safe[q]) = Cross(p, q)
      BY DEF ScoreOver, Cross, EffectiveOf, Duration
    <2>2. \A p \in S : safe[p].prefill \in Nat /\ Duration(p) \in Nat /\ p \in Nat
      BY FieldsOfPlan
    <2>. QED  BY <2>1, <2>2 DEF Cross
  <1>2. first = Leader(S)
    <2>1. \A p : (p \in S /\ \A q \in S \ {p} :
                    \/ ScoreOver(safe[p], safe[q]) > ScoreOver(safe[q], safe[p])
                    \/ ScoreOver(safe[p], safe[q]) = ScoreOver(safe[q], safe[p]) /\ p < q)
                 <=> (p \in S /\ \A q \in S : Leads(p, q))
      BY <1>1 DEF Leads
    <2>. QED  BY <2>1, Zenon DEF Leader
  <1>. HIDE DEF first
  <1>3. first \in S
    BY <1>2, LeaderExists
  <1>4. members = Group(S)
    <2>1. \A p \in S : CloseScores(safe[p], safe[first]) <=> IsClose(p, first)
      BY <1>3, ClosenessAgrees
    <2>. QED  BY <1>2, <2>1 DEF Group, Tied
  <1>5. FirstGroup(safe, S) =
          [i \in 1..Cardinality(members) |->
              CHOOSE p \in members :
                 Cardinality({q \in members : TieKeyBefore(safe, q, p)}) = i - 1]
    BY DEF FirstGroup, InOrderOf, first
  <1>. HIDE DEF members
  <1>6. GroupInOrder(S) =
          [i \in 1..Cardinality(members) |->
              CHOOSE p \in members : Cardinality({q \in members : TieBefore(q, p)}) = i - 1]
    BY <1>4 DEF GroupInOrder, InOrderOf
  <1>7. \A p \in members : {q \in members : TieKeyBefore(safe, q, p)}
                             = {q \in members : TieBefore(q, p)}
    <2>1. members \subseteq DOMAIN safe
      BY <1>4 DEF Group
    <2>. QED  BY <2>1, TieKeysAgree
  <1>8. ASSUME NEW i
        PROVE  (CHOOSE p \in members :
                   Cardinality({q \in members : TieKeyBefore(safe, q, p)}) = i - 1)
                 = (CHOOSE p \in members :
                      Cardinality({q \in members : TieBefore(q, p)}) = i - 1)
    <2>1. \A p : (p \in members /\ Cardinality({q \in members : TieKeyBefore(safe, q, p)}) = i - 1)
                   <=> (p \in members /\ Cardinality({q \in members : TieBefore(q, p)}) = i - 1)
      BY <1>7
    <2>. QED  BY <2>1, Zenon
  <1>. QED  BY <1>5, <1>6, <1>8

LEMMA RankingsAgree ==
  ASSUME SelectorTypes
  PROVE  Ranking(safe, eligible) = RankTable[eligible]
  <1>. DEFINE Body(f) ==
                [S \in SUBSET eligible |->
                    IF S = {} THEN <<>>
                    ELSE FirstGroup(safe, S) \o f[S \ ToSet(FirstGroup(safe, S))]]
  <1>1. ASSUME NEW S \in SUBSET eligible, S # {}
        PROVE  FirstGroup(safe, S) = GroupInOrder(S) /\ ToSet(FirstGroup(safe, S)) = Group(S)
    <2>1. S \in SUBSET DOMAIN safe
      BY DEF SelectorTypes
    <2>. QED  BY <1>1, <2>1, GroupsAgree, GroupFacts
  <1>2. ASSUME NEW f PROVE Body(f) = RankBody(f)
    BY <1>1 DEF RankBody
  <1>3. Ranking(safe, eligible) = (CHOOSE f : f = Body(f))[eligible]
    BY DEF Ranking
  <1>. HIDE DEF Body
  <1>4. \A f : f = Body(f) <=> f = RankBody(f)
    BY <1>2
  <1>5. (CHOOSE f : f = Body(f)) = (CHOOSE f : f = RankBody(f))
    BY <1>4, Zenon
  <1>. QED  BY <1>3, <1>5 DEF RankTable

(* All plans that passed are ranked once a call has ended. *)
LEMMA EndedIsRanked ==
  ASSUME SelectorInv, Ended
  PROVE  /\ ToSet(ranked) = eligible /\ ranked \in Seq(eligible) /\ IsInjective(ranked)
         /\ ranked # <<>> => ranked[1] \in eligible
         /\ eligible # {} <=> ranked # <<>>
  <1>1. /\ ranked \in Seq(eligible) /\ remaining = eligible \ ToSet(ranked) /\ IsInjective(ranked)
        /\ status = "selected" => remaining = {}
        /\ status = "no_safe_decision" => eligible = {}
    BY DEF SelectorInv, SelectorTypes, Stages
  <1>2. ToSet(ranked) \subseteq eligible
    BY <1>1 DEF ToSet
  <1>3. ToSet(ranked) = eligible
    BY <1>1, <1>2 DEF Ended
  <1>4. ranked # <<>> => ranked[1] \in eligible /\ 1 \in DOMAIN ranked
    <2>1. ASSUME ranked # <<>> PROVE Len(ranked) \in Nat \ {0}
      BY <1>1, <2>1
    <2>. QED  BY <1>1, <2>1
  <1>5. ranked = <<>> => ToSet(ranked) = {}
    BY DEF ToSet
  <1>. QED  BY <1>1, <1>3, <1>4, <1>5

(* What the counters of a record of this call compare. *)
LEMMA CountersOfRecord ==
  ASSUME SelectorInv, RankedSoFar, Ended, NEW rec, OfThisCall(rec)
  PROVE  /\ Mismatches(rec) \subseteq Counters
         /\ "stage1" \in Mismatches(rec) <=> Stage1Mismatch(rec)
         /\ "stage2" \in Mismatches(rec) <=> ScoreMismatch(rec, eligible, ranked)
         /\ "tie_break" \in Mismatches(rec) <=> TieBreakMismatch(rec, ranked, WinnerTie)
         /\ "winner" \in Mismatches(rec) <=> ReplayedWinner(ranked) # rec.winner
         /\ "invariant" \notin Mismatches(rec)
  <1>1. SelectorTypes /\ eligible \subseteq DOMAIN safe
    BY DEF SelectorInv, SelectorTypes
  <1>2. rec.candidates = safe /\ DOMAIN rec.service = eligible
    BY DEF OfThisCall
  <1>3. ReplayedEligible(rec) = eligible
    BY RowsAreReplayed
  <1>4. ReplayedEligible(rec) \cap DOMAIN rec.service = eligible
    BY <1>2, <1>3
  <1>5. Ranking(rec.candidates, eligible) = ranked
    BY <1>1, <1>2, RankingsAgree, RankedIsTable
  <1>6. (IF eligible = {} THEN <<>> ELSE FirstGroup(rec.candidates, eligible)) = WinnerTie
    BY <1>1, <1>2, GroupsAgree DEF WinnerTie, GroupInOrder
  <1>7. ~(/\ ReplayedWinner(ranked) # NoPlan
          /\ safe[ReplayedWinner(ranked)].prefill = 0
          /\ \E p \in eligible : safe[p].prefill > 0)
    <2>1. ASSUME NEW p \in eligible, ranked # <<>>, safe[ranked[1]].prefill = 0
          PROVE  ~(safe[p].prefill > 0)
      <3>1. safe[p].prefill = 0
        BY <2>1, FirstHasPrefill
      <3>. QED  BY <3>1
    <2>. QED  BY <2>1 DEF ReplayedWinner
  <1>8. Mismatches(rec) =
          {k \in Counters :
             \/ k = "stage1" /\ Stage1Mismatch(rec)
             \/ k = "stage2" /\ ScoreMismatch(rec, eligible, ranked)
             \/ k = "tie_break" /\ TieBreakMismatch(rec, ranked, WinnerTie)
             \/ k = "winner" /\ ReplayedWinner(ranked) # rec.winner
             \/ /\ k = "invariant" /\ ReplayedWinner(ranked) # NoPlan
                /\ safe[ReplayedWinner(ranked)].prefill = 0
                /\ \E p \in eligible : safe[p].prefill > 0}
    BY <1>2, <1>3, <1>4, <1>5, <1>6 DEF Mismatches
  <1>. QED  BY <1>7, <1>8 DEF Counters


-----------------------------------------------------------------------------
(* The replay of what the selector did finds nothing. *)
LEMMA FieldsOfRecord ==
  /\ OfThisCall(Record)
  /\ Record.stage1 = Stage1Result /\ Record.rows = [p \in DOMAIN safe |-> Stage1Row(p)]
  /\ Record.winner = ReplayedWinner(ranked) /\ Record.tie = WinnerTie
  /\ Record.nonzero = Cardinality({p \in eligible : safe[p].prefill > 0})
  BY DEF OfThisCall, Record, ReplayedWinner

LEMMA ServiceOfRecord ==
  ASSUME NEW p \in eligible
  PROVE  /\ Record.service[p].rank = CHOOSE i \in DOMAIN ranked : ranked[i] = p
         /\ Record.service[p].tokens = safe[p].prefill
         /\ Record.service[p].duration = Duration(p)
         /\ Record.service[p].coverage = (safe[p].decode = Decodes)
  <1>. DEFINE rank == CHOOSE i \in DOMAIN ranked : ranked[i] = p
              row(x) == [rank |-> rank, tokens |-> safe[p].prefill, duration |-> Duration(p),
                         coverage |-> x]
  <1>1. Record.service[p] = row(safe[p].decode = Decodes)
    BY DEF Record
  <1>. HIDE DEF rank
  <1>2. ASSUME NEW x
        PROVE  /\ row(x).rank = rank /\ row(x).tokens = safe[p].prefill
               /\ row(x).duration = Duration(p) /\ row(x).coverage = x
    OBVIOUS
  <1>. HIDE DEF row
  <1>3. /\ Record.service[p].rank = rank /\ Record.service[p].tokens = safe[p].prefill
        /\ Record.service[p].duration = Duration(p)
    BY <1>1, <1>2
  <1>4. Record.service[p].coverage = (safe[p].decode = Decodes)
    BY <1>1, <1>2, Zenon
  <1>5. Record.service[p].rank = CHOOSE i \in DOMAIN ranked : ranked[i] = p
    BY <1>3 DEF rank
  <1>. QED  BY <1>3, <1>4, <1>5, Zenon

(* The reference of a comparison is the replay's. *)
LEMMA ReferenceOfRecord ==
  ASSUME SelectorInv, Ended, DOMAIN safe # {}, DOMAIN slack # {}, NEW rec, OfThisCall(rec)
  PROVE  /\ ReplayedReference(rec) = Stage1Result.reference
         /\ Resolution(Template[ReplayedReference(rec)]) = Stage1Result.resolution
         /\ rec.candidates[ReplayedReference(rec)].conservative = Stage1Result.reference_risk
         /\ Cardinality(Missed(rec, rec.candidates[ReplayedReference(rec)]))
              = Stage1Result.reference_violations
  <1>1. SelectorTypes /\ References # {} /\ rec.candidates = safe
    BY DEF SelectorInv, Stages, Ended, OfThisCall
  <1>2. ReplayedReference(rec) = ZeroReference /\ ZeroReference \in DOMAIN safe
    BY <1>1, ReferenceIsReplayed
  <1>3. Missed(rec, safe[ZeroReference]) = Misses(ZeroReference)
    BY <1>1, <1>2, MissesAreReplayed
  <1>4. /\ Stage1Result.reference = ZeroReference
        /\ Stage1Result.resolution = Resolution(Template[ZeroReference])
        /\ Stage1Result.reference_risk = safe[ZeroReference].conservative
        /\ Stage1Result.reference_violations = Cardinality(Misses(ZeroReference))
    BY DEF Stage1Result
  <1>. QED  BY <1>1, <1>2, <1>3, <1>4

LEMMA StatusOfRecord ==
  ASSUME NEW rec, OfThisCall(rec)
  PROVE  /\ ReplayedStatus(rec) = Stage1Result.status
         /\ ReplayedStatus(rec) = "DELTA_N_ADMITTED" <=> DOMAIN safe # {} /\ DOMAIN slack # {}
         /\ ReplayedStatus(rec) = "NO_ACTIVE_TBT_OBLIGATION"
               <=> DOMAIN safe # {} /\ DOMAIN slack = {}
  <1>1. rec.candidates = safe /\ rec.deadlines = slack
    BY DEF OfThisCall
  <1>2. ReplayedStatus(rec) =
          IF DOMAIN safe = {} THEN "NO_SAFE_CANDIDATES"
          ELSE IF DOMAIN slack = {} THEN "NO_ACTIVE_TBT_OBLIGATION" ELSE "DELTA_N_ADMITTED"
    BY <1>1 DEF ReplayedStatus
  <1>3. Stage1Result.status =
          IF DOMAIN safe = {} THEN "NO_SAFE_CANDIDATES"
          ELSE IF DOMAIN slack = {} THEN "NO_ACTIVE_TBT_OBLIGATION" ELSE "DELTA_N_ADMITTED"
    BY DEF Stage1Result
  <1>4. CASE DOMAIN safe = {}
    BY <1>2, <1>3, <1>4
  <1>5. CASE DOMAIN safe # {} /\ DOMAIN slack = {}
    BY <1>2, <1>3, <1>5
  <1>6. CASE DOMAIN safe # {} /\ DOMAIN slack # {}
    BY <1>2, <1>3, <1>6
  <1>. QED  BY <1>4, <1>5, <1>6

LEMMA RecordIsConfirmed ==
  ASSUME SelectorInv, RankedSoFar, Ended
  PROVE  /\ ~Stage1Mismatch(Record) /\ ~ScoreMismatch(Record, eligible, ranked)
         /\ ~TieBreakMismatch(Record, ranked, WinnerTie)
  <1>1. /\ OfThisCall(Record) /\ Record.candidates = safe
        /\ DOMAIN Record.service = eligible
        /\ SelectorTypes /\ eligible \subseteq DOMAIN safe
    BY FieldsOfRecord DEF OfThisCall, SelectorInv, SelectorTypes
  <1>2. /\ Record.stage1 = Stage1Result
        /\ Record.rows = ReplayedRows(Record) /\ ReplayedEligible(Record) = eligible
    BY <1>1, FieldsOfRecord, RowsAreReplayed
  <1>3. ~Stage1Mismatch(Record)
    <2>1. Stage1Result.eligible = eligible
      BY DEF Stage1Result
    <2>2. ReplayedStatus(Record) = Stage1Result.status
      BY <1>1, StatusOfRecord
    <2>3. ASSUME ReplayedStatus(Record) = "DELTA_N_ADMITTED" PROVE ~ReferenceMismatch(Record)
      <3>1. DOMAIN safe # {} /\ DOMAIN slack # {}
        BY <1>1, <2>3, StatusOfRecord
      <3>. QED  BY <1>1, <1>2, <3>1, ReferenceOfRecord DEF ReferenceMismatch
    <2>4. ASSUME ReplayedStatus(Record) = "NO_ACTIVE_TBT_OBLIGATION"
          PROVE  Stage1Result.resolution = "NOT_NEEDED"
      <3>1. DOMAIN slack = {}
        BY <1>1, <2>4, StatusOfRecord
      <3>. QED  BY <3>1 DEF Stage1Result
    <2>. QED  BY <1>2, <2>1, <2>2, <2>3, <2>4 DEF Stage1Mismatch
  <1>4. ~ScoreMismatch(Record, eligible, ranked)
    <2>1. ASSUME NEW p \in eligible
          PROVE  /\ Record.service[p].tokens = safe[p].prefill
                 /\ Record.service[p].duration = EffectiveOf(safe[p])
                 /\ Record.service[p].coverage
                      = (Cardinality(safe[p].decode) = Cardinality(Decodes))
      <3>1. p \in DOMAIN safe /\ EffectiveOf(safe[p]) = Duration(p)
        BY <1>1, MissesAreReplayed
      <3>2. safe[p].decode \subseteq Decodes /\ IsFiniteSet(Decodes)
        BY <1>1, <3>1, SelectorAssumption DEF SelectorTypes, SafeCandidate
      <3>3. (safe[p].decode = Decodes) = (Cardinality(safe[p].decode) = Cardinality(Decodes))
        BY <3>2, FS_Subset
      <3>4. Record.service[p].coverage = (safe[p].decode = Decodes)
        BY ServiceOfRecord
      <3>5. Record.service[p].coverage = (Cardinality(safe[p].decode) = Cardinality(Decodes))
        BY <3>3, <3>4, Zenon
      <3>. QED  BY <3>1, <3>5, ServiceOfRecord
    <2>2. {p \in ToSet(ranked) : Record.candidates[p].prefill > 0}
            = {p \in eligible : safe[p].prefill > 0}
      BY <1>1, EndedIsRanked
    <2>3. Record.nonzero = Cardinality({p \in ToSet(ranked) : Record.candidates[p].prefill > 0})
      BY <2>2, FieldsOfRecord
    <2>4. \A p \in eligible \cap DOMAIN Record.service :
             /\ Record.service[p].tokens = Record.candidates[p].prefill
             /\ Record.service[p].duration = EffectiveOf(Record.candidates[p])
             /\ Record.service[p].coverage
                  = (Cardinality(Record.candidates[p].decode) = Cardinality(Decodes))
      BY <1>1, <2>1, Zenon
    <2>. QED  BY <1>1, <2>3, <2>4, Zenon DEF ScoreMismatch
  <1>5. ~TieBreakMismatch(Record, ranked, WinnerTie)
    <2>1. ASSUME NEW i \in DOMAIN ranked PROVE Record.service[ranked[i]].rank = i
      <3>1. ranked[i] \in eligible /\ IsInjective(ranked)
        BY EndedIsRanked DEF ToSet
      <3>2. (CHOOSE j \in DOMAIN ranked : ranked[j] = ranked[i]) = i
        BY <3>1 DEF IsInjective
      <3>. QED  BY <3>1, <3>2, ServiceOfRecord
    <2>. QED  BY <2>1, FieldsOfRecord DEF TieBreakMismatch
  <1>. QED  BY <1>3, <1>4, <1>5

LEMMA RecordIsClean == ASSUME SelectorInv, RankedSoFar, Ended PROVE Mismatches(Record) = {}
  <1>. DEFINE M == Mismatches(Record)
  <1>1. OfThisCall(Record) /\ Record.winner = ReplayedWinner(ranked)
    BY FieldsOfRecord
  <1>2. /\ M \subseteq Counters /\ "stage1" \notin M /\ "stage2" \notin M /\ "tie_break" \notin M
        /\ "winner" \notin M /\ "invariant" \notin M
    BY <1>1, CountersOfRecord, RecordIsConfirmed
  <1>. HIDE DEF M
  <1>3. M = {}
    BY <1>2 DEF Counters
  <1>. QED  BY <1>3 DEF M


-----------------------------------------------------------------------------
(* Whatever of the logged results is another one, the replay finds it. *)
Found(rec, found) ==
  /\ rec.winner # Record.winner => "winner" \in found
  /\ rec.tie # Record.tie => "tie_break" \in found
  /\ rec.stage1 # Record.stage1 => "stage1" \in found
  /\ rec.rows # Record.rows => "stage1" \in found
  /\ rec.service # Record.service => {"stage2", "tie_break"} \cap found # {}

(* The winner, the tie and the rows in any record of the call; of the stage  *)
(* and the scores if they are the call's or one of its replays speaks up.    *)
LEMMA ReplayFinds ==
  ASSUME SelectorInv, RankedSoFar, Ended, NEW rec, OfThisCall(rec),
         rec.stage1 = Record.stage1 \/ Stage1Mismatch(rec),
         \/ rec.service = Record.service
         \/ ScoreMismatch(rec, eligible, ranked)
         \/ TieBreakMismatch(rec, ranked, WinnerTie)
  PROVE  Found(rec, Mismatches(rec))
  <1>. DEFINE M == Mismatches(rec)
  <1>1. /\ "stage1" \in M <=> Stage1Mismatch(rec)
        /\ "stage2" \in M <=> ScoreMismatch(rec, eligible, ranked)
        /\ "tie_break" \in M <=> TieBreakMismatch(rec, ranked, WinnerTie)
        /\ "winner" \in M <=> ReplayedWinner(ranked) # rec.winner
    BY CountersOfRecord
  <1>. HIDE DEF M
  <1>2. ASSUME rec.tie # Record.tie PROVE TieBreakMismatch(rec, ranked, WinnerTie)
    BY <1>2, FieldsOfRecord DEF TieBreakMismatch
  <1>3. ASSUME rec.rows # Record.rows PROVE Stage1Mismatch(rec)
    BY <1>3, FieldsOfRecord, RowsAreReplayed DEF Stage1Mismatch
  <1>4. Record.winner = ReplayedWinner(ranked)
    BY FieldsOfRecord
  <1>5. Found(rec, M)
    BY <1>1, <1>2, <1>3, <1>4 DEF Found
  <1>. QED  BY <1>5 DEF M

(* A record with another value of one field is one of this call.  *)
LEMMA FieldIsReplaced ==
  ASSUME NEW x
  PROVE  /\ LET rec == [Record EXCEPT !.winner = x] IN
              OfThisCall(rec) /\ rec.stage1 = Record.stage1 /\ rec.service = Record.service
         /\ LET rec == [Record EXCEPT !.tie = x] IN
              OfThisCall(rec) /\ rec.stage1 = Record.stage1 /\ rec.service = Record.service
         /\ LET rec == [Record EXCEPT !.rows = x] IN
              OfThisCall(rec) /\ rec.stage1 = Record.stage1 /\ rec.service = Record.service
         /\ LET rec == [Record EXCEPT !.stage1 = x] IN
              OfThisCall(rec) /\ rec.stage1 = x /\ rec.service = Record.service
         /\ DOMAIN x = eligible =>
              LET rec == [Record EXCEPT !.service = x] IN
              OfThisCall(rec) /\ rec.stage1 = Record.stage1 /\ rec.service = x
  <1>. DEFINE r == Record
  <1>1. /\ OfThisCall(r)
        /\ {"candidates", "deadlines", "limit", "stage1", "rows", "service", "winner", "tie"}
             \subseteq DOMAIN r
    BY FieldsOfRecord DEF Record
  <1>. HIDE DEF r
  <1>2. LET rec == [r EXCEPT !.winner = x] IN
        OfThisCall(rec) /\ rec.stage1 = r.stage1 /\ rec.service = r.service
    BY <1>1 DEF OfThisCall
  <1>3. LET rec == [r EXCEPT !.tie = x] IN
        OfThisCall(rec) /\ rec.stage1 = r.stage1 /\ rec.service = r.service
    BY <1>1 DEF OfThisCall
  <1>4. LET rec == [r EXCEPT !.rows = x] IN
        OfThisCall(rec) /\ rec.stage1 = r.stage1 /\ rec.service = r.service
    BY <1>1 DEF OfThisCall
  <1>5. LET rec == [r EXCEPT !.stage1 = x] IN
        OfThisCall(rec) /\ rec.stage1 = x /\ rec.service = r.service
    BY <1>1 DEF OfThisCall
  <1>6. ASSUME DOMAIN x = eligible
        PROVE  LET rec == [r EXCEPT !.service = x] IN
               OfThisCall(rec) /\ rec.stage1 = r.stage1 /\ rec.service = x
    BY <1>1, <1>6 DEF OfThisCall
  <1>. QED  BY <1>2, <1>3, <1>4, <1>5, <1>6 DEF r

(* Another stage-1 result than the call's is found out if its eligible plans, *)
(* its reference or its resolution is another one.                            *)
LEMMA StageIsFound ==
  ASSUME SelectorInv, RankedSoFar, Ended, NEW x,
         \/ x = Stage1Result
         \/ x.eligible # eligible
         \/ DOMAIN safe # {} /\ DOMAIN slack # {} /\ x.reference # Stage1Result.reference
         \/ DOMAIN safe # {} /\ x.resolution # Stage1Result.resolution
  PROVE  LET rec == [Record EXCEPT !.stage1 = x] IN Found(rec, Mismatches(rec))
  <1>. DEFINE rec == [Record EXCEPT !.stage1 = x]
  <1>1. OfThisCall(rec) /\ rec.stage1 = x /\ rec.service = Record.service
    BY FieldIsReplaced
  <1>2. x = Stage1Result => rec.stage1 = Record.stage1
    BY <1>1, FieldsOfRecord
  <1>. HIDE DEF rec
  <1>3. ASSUME x.eligible # eligible PROVE Stage1Mismatch(rec)
    BY <1>1, <1>3, RowsAreReplayed DEF Stage1Mismatch
  <1>4. ASSUME DOMAIN safe # {}, DOMAIN slack # {},
               x.reference # Stage1Result.reference \/ x.resolution # Stage1Result.resolution
        PROVE  Stage1Mismatch(rec)
    <2>1. ReferenceMismatch(rec)
      BY <1>1, <1>4, ReferenceOfRecord DEF ReferenceMismatch
    <2>2. ReplayedStatus(rec) = "DELTA_N_ADMITTED"
      BY <1>1, <1>4, StatusOfRecord
    <2>. QED  BY <2>1, <2>2 DEF Stage1Mismatch
  <1>5. ASSUME DOMAIN safe # {}, DOMAIN slack = {}, x.resolution # Stage1Result.resolution
        PROVE  Stage1Mismatch(rec)
    <2>1. Stage1Result.resolution = "NOT_NEEDED"
      BY <1>5 DEF Stage1Result
    <2>2. ReplayedStatus(rec) = "NO_ACTIVE_TBT_OBLIGATION"
      BY <1>1, <1>5, StatusOfRecord
    <2>. QED  BY <1>1, <1>5, <2>1, <2>2 DEF Stage1Mismatch
  <1>6. rec.stage1 = Record.stage1 \/ Stage1Mismatch(rec)
    BY <1>2, <1>3, <1>4, <1>5
  <1>7. Found(rec, Mismatches(rec))
    BY <1>1, <1>6, ReplayFinds
  <1>. QED  BY <1>7 DEF rec


(* So are other scores, if a plan's tokens or its rank are others. *)
LEMMA ScoreIsFound ==
  ASSUME SelectorInv, RankedSoFar, Ended, NEW p \in eligible, NEW x, DOMAIN x = eligible,
         \/ x = Record.service
         \/ x[p].tokens # Record.service[p].tokens
         \/ x[p].rank # Record.service[p].rank
  PROVE  LET rec == [Record EXCEPT !.service = x] IN Found(rec, Mismatches(rec))
  <1>. DEFINE rec == [Record EXCEPT !.service = x]
  <1>1. OfThisCall(rec) /\ rec.stage1 = Record.stage1 /\ rec.service = x
    BY FieldIsReplaced
  <1>. HIDE DEF rec
  <1>2. rec.candidates = safe
    BY <1>1 DEF OfThisCall
  <1>3. ASSUME x[p].tokens # Record.service[p].tokens
        PROVE  ScoreMismatch(rec, eligible, ranked)
    <2>1. Record.service[p].tokens = safe[p].prefill
      BY ServiceOfRecord
    <2>. QED  BY <1>1, <1>2, <1>3, <2>1 DEF ScoreMismatch
  <1>4. ASSUME x[p].rank # Record.service[p].rank
        PROVE  TieBreakMismatch(rec, ranked, WinnerTie)
    <2>1. \E i \in DOMAIN ranked : ranked[i] = p
      BY EndedIsRanked DEF ToSet
    <2>. DEFINE i == CHOOSE j \in DOMAIN ranked : ranked[j] = p
    <2>2. i \in DOMAIN ranked /\ ranked[i] = p /\ Record.service[p].rank = i
      BY <2>1, ServiceOfRecord
    <2>. HIDE DEF i
    <2>. QED  BY <1>1, <1>4, <2>2 DEF TieBreakMismatch
  <1>5. Found(rec, Mismatches(rec))
    BY <1>1, <1>3, <1>4, ReplayFinds
  <1>. QED  BY <1>5 DEF rec

(* Each of the alterations is found. *)
LEMMA SameField ==
  ASSUME NEW r, r = [f \in DOMAIN r |-> r[f]], NEW f \in DOMAIN r
  PROVE  [r EXCEPT ![f] = r[f]] = r
  OBVIOUS

LEMMA AlterationsAreFound ==
  ASSUME SelectorInv, RankedSoFar, Ended, NEW rec \in Alterations(Record)
  PROVE  Found(rec, Mismatches(rec))
  <1>. DEFINE stage == Stage1Result
              scores == Record.service
  <1>1. OfThisCall(Record) /\ Record.stage1 = stage /\ DOMAIN scores = eligible
    BY FieldsOfRecord DEF OfThisCall
  <1>2. /\ {"eligible", "reference", "resolution"} \subseteq DOMAIN stage
        /\ stage.eligible = eligible /\ stage = [f \in DOMAIN stage |-> stage[f]]
    BY DEF Stage1Result
  <1>3. ASSUME NEW p \in eligible
        PROVE  /\ {"rank", "tokens"} \subseteq DOMAIN scores[p]
               /\ scores[p] = [f \in DOMAIN scores[p] |-> scores[p][f]]
               /\ scores = [q \in eligible |-> scores[q]]
               /\ scores[p].tokens = safe[p].prefill /\ safe[p].prefill \in Nat
    <2>1. /\ {"rank", "tokens"} \subseteq DOMAIN scores[p]
          /\ scores[p] = [f \in DOMAIN scores[p] |-> scores[p][f]]
      BY DEF Record
    <2>2. scores = [q \in eligible |-> scores[q]]
      BY DEF Record
    <2>3. p \in DOMAIN safe
      BY DEF SelectorInv, SelectorTypes
    <2>4. safe[p].prefill \in Nat
      BY <2>3, FieldsOfPlan DEF SelectorInv
    <2>. QED  BY <2>1, <2>2, <2>4, ServiceOfRecord
  <1>4. ASSUME OfThisCall(rec), rec.stage1 = Record.stage1, rec.service = scores
        PROVE  Found(rec, Mismatches(rec))
    BY <1>4, ReplayFinds
  <1>. HIDE DEF stage, scores
  <1>5. CASE \E p : rec = [Record EXCEPT !.winner = p]
    <2>1. PICK p : rec = [Record EXCEPT !.winner = p]
      BY <1>5
    <2>2. OfThisCall(rec) /\ rec.stage1 = Record.stage1 /\ rec.service = Record.service
      BY <2>1, FieldIsReplaced
    <2>. QED  BY <1>4, <2>2 DEF scores
  <1>6. CASE \E t : rec = [Record EXCEPT !.tie = t]
    <2>1. PICK t : rec = [Record EXCEPT !.tie = t]
      BY <1>6
    <2>2. OfThisCall(rec) /\ rec.stage1 = Record.stage1 /\ rec.service = Record.service
      BY <2>1, FieldIsReplaced
    <2>. QED  BY <1>4, <2>2 DEF scores
  <1>7. CASE \E x : rec = [Record EXCEPT !.rows = x]
    <2>1. PICK x : rec = [Record EXCEPT !.rows = x]
      BY <1>7
    <2>2. OfThisCall(rec) /\ rec.stage1 = Record.stage1 /\ rec.service = Record.service
      BY <2>1, FieldIsReplaced
    <2>. QED  BY <1>4, <2>2 DEF scores
  <1>8. CASE \E e : rec = [Record EXCEPT !.stage1.eligible = e]
    <2>1. PICK e : rec = [Record EXCEPT !.stage1.eligible = e]
      BY <1>8
    <2>. DEFINE x == [stage EXCEPT !.eligible = e]
    <2>2. rec = [Record EXCEPT !.stage1 = x]
      BY <1>1, <2>1
    <2>3. x = stage \/ x.eligible # eligible
      BY <1>2, SameField
    <2>. HIDE DEF x
    <2>. QED  BY <2>2, <2>3, StageIsFound DEF stage
  <1>9. CASE \E p \in DOMAIN safe :
                DOMAIN slack # {} /\ rec = [Record EXCEPT !.stage1.reference = p]
    <2>1. PICK p \in DOMAIN safe :
                DOMAIN slack # {} /\ rec = [Record EXCEPT !.stage1.reference = p]
      BY <1>9
    <2>. DEFINE x == [stage EXCEPT !.reference = p]
    <2>2. rec = [Record EXCEPT !.stage1 = x]
      BY <1>1, <2>1
    <2>3. x = stage \/ x.reference # stage.reference
      BY <1>2, SameField
    <2>. HIDE DEF x
    <2>. QED  BY <2>1, <2>2, <2>3, StageIsFound DEF stage
  <1>10. CASE \E p \in DOMAIN safe :
                rec = [Record EXCEPT !.stage1.resolution = Resolution(Template[p])]
    <2>1. PICK p \in DOMAIN safe :
                rec = [Record EXCEPT !.stage1.resolution = Resolution(Template[p])]
      BY <1>10
    <2>. DEFINE x == [stage EXCEPT !.resolution = Resolution(Template[p])]
    <2>2. rec = [Record EXCEPT !.stage1 = x]
      BY <1>1, <2>1
    <2>3. x = stage \/ x.resolution # stage.resolution
      BY <1>2, SameField
    <2>. HIDE DEF x
    <2>. QED  BY <2>1, <2>2, <2>3, StageIsFound DEF stage
  <1>11. CASE \E p \in eligible :
                rec = [Record EXCEPT !.service[p].rank = (@ % Cardinality(eligible)) + 1]
    <2>1. PICK p \in eligible :
                rec = [Record EXCEPT !.service[p].rank = (@ % Cardinality(eligible)) + 1]
      BY <1>11
    <2>. DEFINE i == (scores[p].rank % Cardinality(eligible)) + 1
                x == [scores EXCEPT ![p] = [scores[p] EXCEPT !.rank = i]]
    <2>2. rec = [Record EXCEPT !.service = x]
      BY <2>1 DEF scores
    <2>. HIDE DEF i
    <2>3. DOMAIN x = eligible /\ (x = scores \/ x[p].rank # scores[p].rank)
      <3>1. CASE i = scores[p].rank
        <4>1. [scores[p] EXCEPT !.rank = i] = scores[p]
          BY <1>3, <3>1, SameField
        <4>2. x = [scores EXCEPT ![p] = scores[p]]
          BY <4>1
        <4>. QED  BY <1>1, <1>3, <4>2
      <3>2. CASE i # scores[p].rank
        BY <1>1, <1>3, <3>2
      <3>. QED  BY <3>1, <3>2
    <2>. HIDE DEF x
    <2>. QED  BY <2>2, <2>3, ScoreIsFound DEF scores
  <1>12. CASE \E p \in eligible : rec = [Record EXCEPT !.service[p].tokens = @ + 1]
    <2>1. PICK p \in eligible : rec = [Record EXCEPT !.service[p].tokens = @ + 1]
      BY <1>12
    <2>. DEFINE x == [scores EXCEPT ![p] = [scores[p] EXCEPT !.tokens = scores[p].tokens + 1]]
    <2>2. rec = [Record EXCEPT !.service = x]
      BY <2>1 DEF scores
    <2>3. DOMAIN x = eligible /\ x[p].tokens # scores[p].tokens
      BY <1>1, <1>3
    <2>. HIDE DEF x
    <2>. QED  BY <2>2, <2>3, ScoreIsFound DEF scores
  <1>13. ASSUME \E p \in DOMAIN safe : rec = [Record EXCEPT !.rows[p].passed = ~@]
         PROVE  \E x : rec = [Record EXCEPT !.rows = x]
    <2>1. PICK p \in DOMAIN safe : rec = [Record EXCEPT !.rows[p].passed = ~@]
      BY <1>13
    <2>2. rec = [Record EXCEPT !.rows = [Record.rows EXCEPT
                    ![p] = [Record.rows[p] EXCEPT !.passed = ~Record.rows[p].passed]]]
      BY <2>1, Zenon
    <2>. QED  BY <2>2
  <1>14. ASSUME \E p \in DOMAIN safe : rec = [Record EXCEPT !.rows[p].delta = @ + 1]
         PROVE  \E x : rec = [Record EXCEPT !.rows = x]
    <2>1. PICK p \in DOMAIN safe : rec = [Record EXCEPT !.rows[p].delta = @ + 1]
      BY <1>14
    <2>2. rec = [Record EXCEPT !.rows = [Record.rows EXCEPT
                    ![p] = [Record.rows[p] EXCEPT !.delta = Record.rows[p].delta + 1]]]
      BY <2>1
    <2>. QED  BY <2>2
  <1>. QED
    <2>1. \/ rec \in {[Record EXCEPT !.winner = p] : p \in DOMAIN safe \cup {NoPlan}}
          \/ rec \in {[Record EXCEPT !.tie = t] :
                        t \in {ranked, Reverse(Record.tie)} \cup {<<p>> : p \in eligible}}
          \/ rec \in {[Record EXCEPT !.stage1.eligible = eligible \ {p}] : p \in DOMAIN safe}
          \/ rec \in {[Record EXCEPT !.stage1.eligible = eligible \cup {p}] : p \in DOMAIN safe}
          \/ rec \in {[Record EXCEPT !.stage1.reference = p] :
                        p \in {q \in DOMAIN safe : DOMAIN slack # {}}}
          \/ rec \in {[Record EXCEPT !.stage1.resolution = Resolution(Template[p])] :
                        p \in DOMAIN safe}
          \/ rec \in {[Record EXCEPT !.rows[p].passed = ~@] : p \in DOMAIN safe}
          \/ rec \in {[Record EXCEPT !.rows[p].delta = @ + 1] : p \in DOMAIN safe}
          \/ rec \in {[Record EXCEPT !.service[p].rank = (@ % Cardinality(eligible)) + 1] :
                        p \in eligible}
          \/ rec \in {[Record EXCEPT !.service[p].tokens = @ + 1] : p \in eligible}
      BY Zenon DEF Alterations
    <2>2. CASE rec \in {[Record EXCEPT !.winner = p] : p \in DOMAIN safe \cup {NoPlan}}
      BY <1>5, <2>2
    <2>3. CASE rec \in {[Record EXCEPT !.tie = t] :
                          t \in {ranked, Reverse(Record.tie)} \cup {<<p>> : p \in eligible}}
      BY <1>6, <2>3
    <2>4. CASE \/ rec \in {[Record EXCEPT !.stage1.eligible = eligible \ {p}] : p \in DOMAIN safe}
               \/ rec \in {[Record EXCEPT !.stage1.eligible = eligible \cup {p}] : p \in DOMAIN safe}
      BY <1>8, <2>4
    <2>5. CASE rec \in {[Record EXCEPT !.stage1.reference = p] :
                          p \in {q \in DOMAIN safe : DOMAIN slack # {}}}
      BY <1>9, <2>5
    <2>6. CASE rec \in {[Record EXCEPT !.stage1.resolution = Resolution(Template[p])] :
                          p \in DOMAIN safe}
      BY <1>10, <2>6
    <2>7. CASE rec \in {[Record EXCEPT !.rows[p].passed = ~@] : p \in DOMAIN safe}
      BY <1>7, <1>13, <2>7, Zenon
    <2>8. CASE rec \in {[Record EXCEPT !.rows[p].delta = @ + 1] : p \in DOMAIN safe}
      BY <1>7, <1>14, <2>8
    <2>9. CASE rec \in {[Record EXCEPT !.service[p].rank = (@ % Cardinality(eligible)) + 1] :
                          p \in eligible}
      BY <1>11, <2>9
    <2>10. CASE rec \in {[Record EXCEPT !.service[p].tokens = @ + 1] : p \in eligible}
      BY <1>12, <2>10
    <2>. QED  BY <2>1, <2>2, <2>3, <2>4, <2>5, <2>6, <2>7, <2>8, <2>9, <2>10, Zenon


-----------------------------------------------------------------------------
(* The record, its alteration and its replay change nothing of the call.  *)
LEMMA RecordStays == ASSUME UNCHANGED vars PROVE Record' = Record
  <1>1. /\ safe' = safe /\ slack' = slack /\ status' = status
        /\ eligible' = eligible /\ remaining' = remaining /\ ranked' = ranked
    BY DEF vars
  <1>2. /\ ZeroReference' = ZeroReference /\ References' = References
        /\ \A p : Misses(p)' = Misses(p) /\ Duration(p)' = Duration(p)
    BY <1>1 DEF ZeroReference, References, Misses, Duration
  <1>3. \A p : DeltaViolations(p)' = DeltaViolations(p) /\ DeltaLateness(p)' = DeltaLateness(p)
    BY <1>1, <1>2 DEF DeltaViolations, DeltaLateness
  <1>4. \A p : Stage1Row(p)' = Stage1Row(p)
    BY <1>1, <1>2, <1>3 DEF Stage1Row
  <1>5. Stage1Result' = Stage1Result
    BY <1>1, <1>2 DEF Stage1Result
  <1>6. \A S : GroupInOrder(S)' = GroupInOrder(S)
    BY <1>1 DEF GroupInOrder, InOrderOf, Group, Leader, Leads, Tied, IsClose, TieBefore, Cross,
                Duration
  <1>7. WinnerTie' = WinnerTie
    <2>1. WinnerTie = IF eligible = {} THEN <<>> ELSE GroupInOrder(eligible)
      BY DEF WinnerTie, GroupInOrder
    <2>2. WinnerTie' = IF eligible' = {} THEN <<>> ELSE GroupInOrder(eligible)'
      BY DEF WinnerTie, GroupInOrder
    <2>3. GroupInOrder(eligible)' = GroupInOrder(eligible)
      BY <1>1 DEF GroupInOrder, InOrderOf, Group, Leader, Leads, Tied, IsClose, TieBefore, Cross,
                  Duration
    <2>. QED  BY <1>1, <2>1, <2>2, <2>3
  <1>. QED  BY <1>1, <1>2, <1>4, <1>5, <1>7 DEF Record

(* What a record is, and what its replay says of it. *)
ReplayInv ==
  /\ SelectorInv /\ RankedSoFar
  /\ record # NoRecord =>
        /\ Ended /\ Found(record, Mismatches(record))
        /\ record = Record => Mismatches(record) = {}
  /\ mismatches # NotReplayed => record # NoRecord /\ mismatches = Mismatches(record)

LEMMA EndedIsFinal == ASSUME SelectorInv, Ended, Next PROVE FALSE
  <1>1. status \in {"selected", "no_safe_decision"}
    BY DEF Ended
  <1>. QED  BY <1>1 DEF Next, TbtStage, RankGroup, Decide

LEMMA ReplayStarts == RInit => ReplayInv
  <1>1. RInit => SelectorInv
    BY CallStarts DEF RInit
  <1>2. RInit => RankedSoFar
    BY DEF RInit, Init, RankedSoFar
  <1>. QED  BY <1>1, <1>2 DEF RInit, ReplayInv

LEMMA ReplaySteps == ReplayInv /\ [RNext]_rvars => ReplayInv'
  <1>. SUFFICES ASSUME ReplayInv, [RNext]_rvars PROVE ReplayInv'
    OBVIOUS
  <1>1. SelectorInv' /\ RankedSoFar'
    <2>1. [Next]_vars
      BY DEF RNext, Select, Log, Alter, Replay, rvars, vars
    <2>. QED  BY <2>1, CallSteps, RankedSoFarSteps DEF ReplayInv
  <1>2. ASSUME UNCHANGED vars
        PROVE  /\ Record' = Record /\ Ended' = Ended
               /\ \A r, m : Found(r, m)' <=> Found(r, m)
    <2>1. Record' = Record /\ status' = status
      BY <1>2, RecordStays DEF vars
    <2>. QED  BY <2>1 DEF Ended, Found
  <1>3. CASE Select
    <2>1. Next /\ record' = record /\ mismatches' = mismatches
      BY <1>3 DEF Select
    <2>2. record = NoRecord
      BY <2>1, EndedIsFinal DEF ReplayInv
    <2>3. mismatches = NotReplayed
      BY <2>2 DEF ReplayInv
    <2>. QED  BY <1>1, <2>1, <2>2, <2>3 DEF ReplayInv
  <1>4. CASE Log
    <2>1. /\ Ended /\ record' = Record /\ UNCHANGED vars /\ mismatches' = mismatches
          /\ mismatches = NotReplayed
      BY <1>4 DEF Log, Ended, ReplayInv
    <2>2. Record' = Record /\ Ended' /\ Mismatches(Record) = {}
      BY <1>2, <2>1, RecordIsClean DEF ReplayInv
    <2>3. Found(Record, Mismatches(Record))
      BY DEF Found
    <2>. QED  BY <1>1, <1>2, <2>1, <2>2, <2>3 DEF ReplayInv
  <1>5. CASE Alter
    <2>1. /\ Ended /\ record = Record /\ UNCHANGED vars /\ record' # Record
          /\ record' \in Alterations(Record)
          /\ mismatches' = mismatches /\ mismatches = NotReplayed
      BY <1>5 DEF Alter, ReplayInv
    <2>2. Record' = Record /\ Ended'
      BY <1>2, <2>1
    <2>3. Found(record', Mismatches(record'))
      BY <2>1, AlterationsAreFound DEF ReplayInv
    <2>. QED  BY <1>1, <1>2, <2>1, <2>2, <2>3 DEF ReplayInv
  <1>6. CASE Replay
    <2>1. /\ record # NoRecord /\ record' = record /\ mismatches' = Mismatches(record)
          /\ UNCHANGED vars
      BY <1>6 DEF Replay
    <2>. QED  BY <1>1, <1>2, <2>1 DEF ReplayInv
  <1>7. CASE UNCHANGED rvars
    <2>1. record' = record /\ mismatches' = mismatches /\ UNCHANGED vars
      BY <1>7 DEF rvars
    <2>. QED  BY <1>1, <1>2, <2>1 DEF ReplayInv
  <1>. QED  BY <1>3, <1>4, <1>5, <1>6, <1>7 DEF RNext

LEMMA ReplayInvariant == RSpec => []ReplayInv
  BY ReplayStarts, ReplaySteps, PTL DEF RSpec

(* The replay of what the selector did finds nothing, and that of an altered *)
(* record finds what was altered, by the counter that is about it: for every *)
(* call, tolerance and limit.                                                *)
THEOREM ReplayAgreesWithSelector == RSpec => []ReplayIsExact
  <1>1. ReplayInv => ReplayIsExact
    BY DEF ReplayInv, Found, ReplayIsExact, HonestReplayIsClean, AlterationIsFound
  <1>. QED  BY <1>1, ReplayInvariant, PTL


(* The offline reference is the selector's: a plan with prefill left out,    *)
(* only ZERO and STOCK plans remain, and all decodes are as many as there are. *)
LEMMA OfflineReferenceAgrees ==
  ASSUME SelectorTypes, NEW rec, OfThisCall(rec), References # {}
  PROVE  OfflineReference(rec) = ZeroReference /\ ZeroReference \in DOMAIN safe
  <1>. DEFINE z == ZeroReference
              zeros == {p \in References : Template[p] = "ZERO"}
              best == IF zeros # {} THEN zeros ELSE References
  <1>1. {p \in DOMAIN rec.candidates :
            /\ rec.candidates[p].prefill = 0
            /\ Cardinality(rec.candidates[p].decode) = Cardinality(Decodes)} = References
    <2>1. ASSUME NEW p \in DOMAIN safe
          PROVE  Cardinality(safe[p].decode) = Cardinality(Decodes) <=> safe[p].decode = Decodes
      <3>1. safe[p].decode \subseteq Decodes /\ IsFiniteSet(Decodes)
        BY SelectorAssumption DEF SelectorTypes, SafeCandidate
      <3>. QED  BY <3>1, FS_Subset
    <2>. QED  BY <2>1 DEF References, OfThisCall
  <1>2. /\ z \in References
        /\ \A q \in References : \/ Preference(z) < Preference(q)
                                 \/ Preference(z) = Preference(q) /\ z <= q
    BY ReferenceExists
  <1>3. \A q \in References : q \in Nat
    BY FieldsOfPlan DEF References
  <1>4. \A q \in References : /\ Template[q] = "ZERO" <=> Preference(q) = 0
                              /\ Preference(q) \in {0, 1}
    <2>1. ASSUME NEW q \in References PROVE Template[q] \in {"ZERO", "STOCK"}
      <3>1. q \in DOMAIN safe /\ safe[q].prefill = 0 /\ q \in Plans
        BY DEF References, SelectorTypes
      <3>2. Template[q] # "FRACTION"
        BY <3>1 DEF SelectorTypes
      <3>. QED  BY <3>1, <3>2, SelectorAssumption
    <2>. QED  BY <2>1 DEF Preference
  <1>5. z \in best /\ \A q \in best : z <= q
    <2>1. CASE zeros # {}
      BY <1>2, <1>4, <2>1
    <2>2. CASE zeros = {}
      BY <1>2, <1>4, <2>2
    <2>. QED  BY <2>1, <2>2
  <1>6. best \subseteq References
    OBVIOUS
  <1>7. OfflineReference(rec) = Min(best)
    BY <1>1, <1>2 DEF OfflineReference
  <1>. HIDE DEF best, z
  <1>8. Min(best) = z
    BY <1>3, <1>5, <1>6 DEF Min
  <1>9. z \in DOMAIN safe
    BY <1>2 DEF References
  <1>. QED  BY <1>7, <1>8, <1>9 DEF z

LEMMA OfflineEligibleAgrees ==
  ASSUME SelectorInv, Ended, DOMAIN safe # {}, NEW rec, OfThisCall(rec)
  PROVE  /\ OfflineEligible(rec) \subseteq eligible
         /\ Limit = 0 => OfflineEligible(rec) = eligible
  <1>1. /\ SelectorTypes /\ eligible = Passed
        /\ DOMAIN slack # {} => References # {}
    BY DEF SelectorInv, Stages, Ended
  <1>2. rec.candidates = safe /\ rec.deadlines = slack
    BY DEF OfThisCall
  <1>3. CASE DOMAIN slack = {}
    BY <1>1, <1>2, <1>3 DEF OfflineEligible, Passed
  <1>4. CASE DOMAIN slack # {}
    <2>1. OfflineReference(rec) = ZeroReference /\ ZeroReference \in DOMAIN safe
      BY <1>1, <1>4, OfflineReferenceAgrees
    <2>2. \A p \in DOMAIN safe : Missed(rec, safe[p]) = Misses(p)
      BY <1>1, MissesAreReplayed
    <2>3. OfflineEligible(rec) = {p \in DOMAIN safe : Misses(p) \subseteq Misses(ZeroReference)}
      BY <1>2, <1>4, <2>1, <2>2 DEF OfflineEligible
    <2>4. eligible = {p \in DOMAIN safe : DeltaViolations(p) <= Limit}
      BY <1>1, <1>4 DEF Passed
    <2>5. ASSUME NEW p \in DOMAIN safe
          PROVE  /\ DeltaViolations(p) \in Nat
                 /\ DeltaViolations(p) = 0 <=> Misses(p) \subseteq Misses(ZeroReference)
      <3>1. IsFiniteSet(Misses(p) \ Misses(ZeroReference))
        <4>1. IsFiniteSet(Decodes) /\ Misses(p) \ Misses(ZeroReference) \subseteq Decodes
          BY <1>1, SelectorAssumption DEF Misses, SelectorTypes
        <4>. QED  BY <4>1, FS_Subset
      <3>. QED  BY <3>1, FS_CardinalityType, FS_EmptySet DEF DeltaViolations
    <2>. QED  BY <2>3, <2>4, <2>5, SelectorAssumption
  <1>. QED  BY <1>3, <1>4

(* The offline counterfactual drops what the selector drops; with the limit  *)
(* 0 it admits the same plans and picks the same winner.                     *)
THEOREM OfflineAgreesWithSelector == RSpec => []OfflineAgrees
  <1>1. ASSUME ReplayInv, mismatches # NotReplayed, DOMAIN safe # {}, record = Record
        PROVE  /\ OfflineEligible(record) \subseteq eligible
               /\ Limit = 0 =>
                    OfflineEligible(record) = eligible /\ OfflineWinner(record) = record.winner
    <2>1. SelectorInv /\ RankedSoFar /\ Ended /\ SelectorTypes
      BY <1>1 DEF ReplayInv, SelectorInv
    <2>2. OfThisCall(record) /\ record.candidates = safe /\ record.winner = ReplayedWinner(ranked)
      BY <1>1, FieldsOfRecord DEF OfThisCall
    <2>3. /\ OfflineEligible(record) \subseteq eligible
          /\ Limit = 0 => OfflineEligible(record) = eligible
      BY <1>1, <2>1, <2>2, OfflineEligibleAgrees
    <2>4. Ranking(safe, eligible) = ranked
      BY <2>1, RankingsAgree, RankedIsTable
    <2>5. ASSUME Limit = 0 PROVE OfflineWinner(record) = record.winner
      BY <2>2, <2>3, <2>4, <2>5 DEF OfflineWinner
    <2>. QED  BY <2>3, <2>5
  <1>2. ReplayInv => OfflineAgrees
    BY <1>1 DEF OfflineAgrees
  <1>. QED  BY <1>2, ReplayInvariant, PTL
=============================================================================
