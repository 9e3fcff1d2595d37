----------------------------- MODULE Arithmetic -----------------------------
(***************************************************************************)
(* Facts about the natural numbers: induction, and the remainder that says *)
(* how packet ids share the slots of a ring of m windows (get_index and    *)
(* bgn_index of mc_window_pool.c).                                         *)
(***************************************************************************)
EXTENDS Integers, TLAPS, WellFoundedInduction

(* Induction over the naturals in the form of a least counterexample.      *)
LEMMA NatLess == IsWellFoundedOn({ss \in Nat \X Nat : ss[1] < ss[2]}, Nat)
  BY NatLessThanWellFounded DEF OpToRel

LEMMA LeastNatural ==
  ASSUME NEW T \in SUBSET Nat, T # {}
  PROVE  \E x \in T : \A y \in T : x <= y
  <1> DEFINE Less == {ss \in Nat \X Nat : ss[1] < ss[2]}
  <1>1. IsWellFoundedOn(Less, Nat)
    BY NatLess
  <1> HIDE DEF Less
  <1>2. PICK x \in T : \A y \in T : ~ (<<y, x>> \in Less)
    BY <1>1, WFMin
  <1>3. ASSUME NEW y \in T PROVE x <= y
    <2>1. <<y, x>> \in Less <=> y < x
      BY DEF Less
    <2> QED
      BY <1>2, <2>1
  <1> QED
    BY <1>3

(* Quotient and remainder.                                                 *)
LEMMA DivMod ==
  ASSUME NEW a \in Int, NEW m \in Nat \ {0}
  PROVE  /\ a \div m \in Int /\ a % m \in 0 .. m - 1
         /\ a = m * (a \div m) + (a % m)
  OBVIOUS

LEMMA ModType ==
  ASSUME NEW a \in Int, NEW m \in Nat \ {0}
  PROVE  a % m \in 0 .. m - 1 /\ a % m \in Int
  BY DivMod

LEMMA MulPos ==
  ASSUME NEW m \in Nat \ {0}, NEW k \in Int, k >= 1 PROVE m * k >= m
  OBVIOUS

LEMMA MulNeg ==
  ASSUME NEW m \in Nat \ {0}, NEW k \in Int, k <= -1 PROVE m * k <= -m
  OBVIOUS

LEMMA MulDist ==
  ASSUME NEW m \in Int, NEW k \in Int, NEW j \in Int PROVE m * (k - j) = m * k - m * j
  OBVIOUS

LEMMA MulSmall ==
  ASSUME NEW m \in Nat \ {0}, NEW d \in Int, -m < m * d, m * d < m
  PROVE  d = 0
  <1>1. ~(d >= 1)
    BY MulPos
  <1>2. ~(d <= -1)
    BY MulNeg
  <1> QED
    BY <1>1, <1>2

(* The remainder is unique.                                                *)
LEMMA ModUnique ==
  ASSUME NEW m \in Nat \ {0}, NEW k \in Int, NEW j \in Int,
         NEW r \in 0 .. m - 1, NEW s \in 0 .. m - 1, m * k + r = m * j + s
  PROVE  r = s
  <1> DEFINE d == k - j
  <1>1. d \in Int /\ m * d = s - r
    BY MulDist
  <1>2. d = 0
    BY <1>1, MulSmall
  <1> QED
    BY <1>1, <1>2

(* A remainder is its own remainder.                                       *)
LEMMA ModSmall ==
  ASSUME NEW m \in Nat \ {0}, NEW a \in 0 .. m - 1
  PROVE  a % m = a
  BY Z3

(* Two ids less than m apart do not share a slot.                          *)
LEMMA ModInjective ==
  ASSUME NEW m \in Nat \ {0}, NEW a \in Int, NEW b \in Int,
         a < b + m, b < a + m, a % m = b % m
  PROVE  a = b
  <1> DEFINE d == (b \div m) - (a \div m)
  <1>1. d \in Int /\ m * d = b - a
    BY MulDist, DivMod
  <1>2. d = 0
    BY <1>1, MulSmall
  <1> QED
    BY <1>1, <1>2

(* Ids m apart share a slot.                                               *)
LEMMA ModNextRound ==
  ASSUME NEW m \in Nat \ {0}, NEW a \in Int
  PROVE  (a + m) % m = a % m
  <1> DEFINE q == a \div m
             j == (a + m) \div m
  <1>1. q \in Int /\ a % m \in 0 .. m - 1 /\ a = m * q + (a % m)
    BY DivMod
  <1>2. a + m \in Int
    OBVIOUS
  <1>3. j \in Int /\ (a + m) % m \in 0 .. m - 1 /\ a + m = m * j + ((a + m) % m)
    BY <1>2, DivMod
  <1>4. m * (q + 1) = m * q + m
    BY <1>1
  <1>5. m * (q + 1) + (a % m) = m * j + ((a + m) % m) /\ q + 1 \in Int
    BY <1>1, <1>3, <1>4
  <1> HIDE DEF q, j
  <1> QED
    BY <1>1, <1>3, <1>5, ModUnique

(* Moving on from a slot or from an id of that slot ends in the same slot. *)
LEMMA ModSum ==
  ASSUME NEW m \in Nat \ {0}, NEW a \in Int, NEW n \in Int
  PROVE  ((a % m) + n) % m = (a + n) % m
  <1> DEFINE b == (a % m) + n
             q == a \div m
             j == b \div m
             i == (a + n) \div m
  <1>1. q \in Int /\ a % m \in 0 .. m - 1 /\ a = m * q + (a % m)
    BY DivMod
  <1>2. b \in Int /\ a + n \in Int
    BY <1>1
  <1>3. j \in Int /\ b % m \in 0 .. m - 1 /\ b = m * j + (b % m)
    BY <1>2, DivMod
  <1>4. i \in Int /\ (a + n) % m \in 0 .. m - 1 /\ a + n = m * i + ((a + n) % m)
    BY <1>2, DivMod
  <1>5. m * (q + j) = m * q + m * j
    BY <1>1, <1>3
  <1>6. m * (q + j) + (b % m) = m * i + ((a + n) % m) /\ q + j \in Int
    BY <1>1, <1>3, <1>4, <1>5
  <1> HIDE DEF q, j, i
  <1> QED
    BY <1>3, <1>4, <1>6, ModUnique DEF b

(* The same for an index x that is kept instead of a.                      *)
LEMMA ModSumOf ==
  ASSUME NEW m \in Nat \ {0}, NEW a \in Int, NEW x, x = a % m
  PROVE  \A n \in Int : (x + n) % m = (a + n) % m
  BY ModSum

(* Any m ids in a row meet every slot.                                     *)
LEMMA ModCovers ==
  ASSUME NEW m \in Nat \ {0}, NEW b \in Int, NEW k \in 0 .. m - 1
  PROVE  \E id \in b .. b + m - 1 : id % m = k
  <1> DEFINE d  == (k - b) % m
             id == b + d
  <1>1. d \in 0 .. m - 1
    BY ModType
  <1>2. (d + b) % m = ((k - b) + b) % m
    <2>1. k - b \in Int
      OBVIOUS
    <2> QED
      BY <2>1, ModSum
  <1>3. (k - b) + b = k
    OBVIOUS
  <1>4. k % m = k
    BY ModSmall
  <1> HIDE DEF d
  <1>5. id % m = k
    <2>1. id = d + b
      BY <1>1
    <2> QED
      BY <1>2, <1>3, <1>4, <2>1
  <1>6. id \in b .. b + m - 1
    BY <1>1
  <1> QED
    BY <1>5, <1>6

(* The quotient is unique, too.                                            *)
LEMMA DivUnique ==
  ASSUME NEW m \in Nat \ {0}, NEW k \in Int, NEW r \in 0 .. m - 1
  PROVE  (m * k + r) \div m = k /\ (m * k + r) % m = r
  <1>1. PICK a \in Int : a = m * k + r
    OBVIOUS
  <1>2. PICK q \in Int, s \in 0 .. m - 1 : q = a \div m /\ s = a % m /\ a = m * q + s
    BY DivMod
  <1>3. s = r
    BY <1>1, <1>2, ModUnique
  <1>4. PICK d \in Int : d = q - k
    OBVIOUS
  <1>5. m * d = 0
    BY <1>1, <1>2, <1>3, <1>4, MulDist
  <1>6. d = 0
    BY <1>5, MulSmall
  <1> QED
    BY <1>1, <1>2, <1>3, <1>4, <1>6

LEMMA DivNextRound ==
  ASSUME NEW m \in Nat \ {0}, NEW a \in Int
  PROVE  (a + m) \div m = (a \div m) + 1
  <1>1. PICK q \in Int, s \in 0 .. m - 1 : q = a \div m /\ a = m * q + s
    BY DivMod
  <1>2. m * (q + 1) = m * q + m
    OBVIOUS
  <1>3. a + m = m * (q + 1) + s
    BY <1>1, <1>2
  <1>4. (m * (q + 1) + s) \div m = q + 1
    BY DivUnique
  <1> QED
    BY <1>1, <1>3, <1>4

LEMMA DivBelow ==
  ASSUME NEW m \in Nat \ {0}, NEW a \in Nat, NEW k \in Int, a < m * k
  PROVE  a \div m \in 0 .. k - 1
  <1>1. PICK q \in Int, s \in 0 .. m - 1 : q = a \div m /\ a = m * q + s
    BY DivMod
  <1>2. q >= 0
    <2>1. ASSUME q <= -1 PROVE FALSE
      BY <1>1, <2>1, MulNeg
    <2> QED
      BY <2>1
  <1>3. q < k
    <2>1. ASSUME q >= k PROVE FALSE
      <3>1. PICK d \in Nat : q = k + d
        <4>1. q - k \in Nat /\ q = k + (q - k)
          BY <2>1
        <4> QED
          BY <4>1
      <3>2. m * q = m * k + m * d /\ m * d \in Nat
        BY <3>1
      <3> QED
        BY <1>1, <3>2
    <2> QED
      BY <2>1
  <1> QED
    BY <1>1, <1>2, <1>3
=============================================================================
