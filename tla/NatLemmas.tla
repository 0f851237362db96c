------------------------------ MODULE NatLemmas -----------------------------
(***************************************************************************)
(* Natural numbers as the proofs of this project use them.  Remainders:    *)
(* position a is in slot a % P of a ring of P slots                        *)
(* (BoundedQueue::GetIndex, ConditionNotifier).  Induction: it is stated   *)
(* for sets, since the provers cannot instantiate a predicate.             *)
(***************************************************************************)
EXTENDS Integers, WellFoundedInduction, TLAPS

(* Division with remainder by a positive number. *)
LEMMA DivMod ==
  ASSUME NEW a \in Nat, NEW P \in Nat \ {0}
  PROVE  /\ a \div P \in Nat
         /\ a % P \in 0 .. P - 1
         /\ a = P * (a \div P) + (a % P)
OBVIOUS

(* The remainder is the only one. *)
LEMMA ModUnique ==
  ASSUME NEW a \in Nat, NEW P \in Nat \ {0}, NEW q \in Nat,
         NEW r \in 0 .. P - 1, a = P * q + r
  PROVE  a % P = r
OBVIOUS

(* A positive multiple of P is at least P. *)
LEMMA MulAtLeast ==
  ASSUME NEW k \in Int, NEW P \in Nat \ {0}, k >= 1
  PROVE  P * k >= P
OBVIOUS

(* A multiple of P that is not positive is at most 0. *)
LEMMA MulAtMost ==
  ASSUME NEW k \in Int, NEW P \in Nat \ {0}, k <= 0
  PROVE  P * k <= 0
OBVIOUS

(* Multiplication distributes over subtraction. *)
LEMMA MulMinus ==
  ASSUME NEW a \in Int, NEW b \in Int, NEW P \in Nat
  PROVE  P * (a - b) = P * a - P * b
OBVIOUS

(* Positions less than one lap apart are in different slots. *)
LEMMA LapDistinct ==
  ASSUME NEW P \in Nat \ {0}, NEW a \in Nat, NEW b \in Nat, a < b, b < a + P
  PROVE  a % P # b % P
<1> DEFINE qa == a \div P
<1> DEFINE qb == b \div P
<1> SUFFICES ASSUME a % P = b % P PROVE FALSE
  OBVIOUS
<1>2. /\ qa \in Nat /\ a % P \in 0 .. P - 1 /\ a = P * qa + (a % P)
      /\ qb \in Nat /\ b % P \in 0 .. P - 1 /\ b = P * qb + (b % P)
  BY DivMod
<1> HIDE DEF qa, qb
<1>3. P * qb - P * qa = P * (qb - qa)
  BY <1>2, MulMinus
<1>4. /\ P * qa \in Int /\ P * qb \in Int /\ P * (qb - qa) \in Int
      /\ qb - qa \in Int
  BY <1>2
<1>5. b - a = P * (qb - qa)
  <2> DEFINE x == P * qa
  <2> DEFINE y == P * qb
  <2>1. x \in Int /\ y \in Int /\ a = x + (a % P) /\ b = y + (b % P)
    BY <1>2, <1>4
  <2> HIDE DEF x, y
  <2>2. b - a = y - x
    BY <2>1, <1>2
  <2> QED BY <2>2, <1>3 DEF x, y
<1>6. CASE qb - qa >= 1
  BY <1>4, <1>5, <1>6, MulAtLeast
<1>7. CASE qb - qa <= 0
  BY <1>4, <1>5, <1>7, MulAtMost
<1> QED BY <1>4, <1>6, <1>7

(* Positions one lap apart are in the same slot. *)
LEMMA LapSame ==
  ASSUME NEW P \in Nat \ {0}, NEW a \in Nat
  PROVE  (a + P) % P = a % P
<1> DEFINE q == a \div P
<1>2. q \in Nat /\ a % P \in 0 .. P - 1 /\ a = P * q + (a % P)
  BY DivMod
<1> HIDE DEF q
<1>3. P * (q + 1) = P * q + P /\ q + 1 \in Nat /\ P * q \in Int
  BY <1>2
<1>4. a + P = P * (q + 1) + (a % P) /\ a + P \in Nat
  BY <1>2, <1>3
<1> QED BY <1>2, <1>3, <1>4, ModUnique

(* A later position in the same slot is at least one lap ahead. *)
LEMMA LapAhead ==
  ASSUME NEW P \in Nat \ {0}, NEW a \in Nat, NEW b \in Nat, a < b, a % P = b % P
  PROVE  a + P <= b
<1>1. ~(b < a + P)
  BY LapDistinct, Zenon
<1> QED BY <1>1

-----------------------------------------------------------------------------
(* Every set of natural numbers that is not empty has a smallest one. *)
LEMMA Least ==
  ASSUME NEW S \in SUBSET Nat, S # {}
  PROVE  \E x \in S : \A y \in S : x <= y
<1>1. PICK x \in S : \A y \in S : ~ (<<y, x>> \in OpToRel(<, Nat))
  BY NatLessThanWellFounded, WFMin
<1>2. ASSUME NEW y \in S, y < x
      PROVE  FALSE
  <2>1. <<y, x>> \in Nat \X Nat /\ <<y, x>>[1] < <<y, x>>[2]
    BY <1>2
  <2>2. <<y, x>> \in OpToRel(<, Nat)
    BY <2>1, Zenon DEF OpToRel
  <2> QED
    BY <1>1, <2>2
<1> QED
  BY <1>2

(* A set that holds 0 and the number after each of its own holds them all. *)
LEMMA NatInduct ==
  ASSUME NEW S \in SUBSET Nat, 0 \in S, \A n \in S : n + 1 \in S
  PROVE  S = Nat
<1> SUFFICES ASSUME Nat \ S # {}
             PROVE  FALSE
  OBVIOUS
<1>1. PICK n \in Nat \ S : \A k \in Nat \ S : n <= k
  <2>1. Nat \ S \in SUBSET Nat
    OBVIOUS
  <2> QED
    BY <2>1, Least
<1>2. n - 1 \in S
  BY <1>1
<1> QED
  BY <1>1, <1>2
=============================================================================
