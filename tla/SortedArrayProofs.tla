------------------------- MODULE SortedArrayProofs --------------------------
(***************************************************************************)
(* The binary search of algorithm.c meets what it looks for in every       *)
(* sorted array, and mc_sarray keeps its array sorted and loses nothing.   *)
(***************************************************************************)
EXTENDS SortedArray, Arithmetic, FiniteSetTheorems

USE KeysAssumption, CapacityAssumption

-----------------------------------------------------------------------------
(* The loop of mc_alg_lower_bound ends: the function Search exists.        *)

Bounds(n) == (0 .. n) \X (-1 .. n - 1)

(* One pass of the loop from the bounds b and e, which goes on with f.     *)
Pass(f, arr, key, bounds) ==
  LET b   == bounds[1]
      e   == bounds[2]
      mid == (b + e) \div 2
  IN  IF b > e THEN b
      ELSE IF key > arr[mid] THEN f[<<mid + 1, e>>]
      ELSE IF key < arr[mid]
      THEN IF mid = 0 THEN b ELSE f[<<b, mid - 1>>]
      ELSE mid

Loops(f, arr, n, key) == f = [p \in Bounds(n) |-> Pass(f, arr, key, p)]

(* How much is left to search; q is closer than p.                         *)
Closer(q, p) == p[1] <= p[2] /\ q[2] - q[1] < p[2] - p[1]

LEMMA BoundsType ==
  ASSUME NEW n \in Nat, NEW p \in Bounds(n)
  PROVE  p[1] \in 0 .. n /\ p[2] \in -1 .. n - 1 /\ p[1] \in Nat /\ p[2] \in Int
  BY DEF Bounds

(* The middle lies within the bounds, and both halves are shorter.         *)
LEMMA Middle ==
  ASSUME NEW n \in Nat, NEW b \in 0 .. n, NEW e \in -1 .. n - 1, b <= e,
         NEW mid, mid = (b + e) \div 2
  PROVE  /\ mid \in b .. e /\ mid \in 0 .. n - 1
         /\ mid + 1 \in 0 .. n /\ e - (mid + 1) < e - b
         /\ mid # 0 => mid - 1 \in -1 .. n - 1 /\ (mid - 1) - b < e - b
  OBVIOUS

LEMMA Halves ==
  ASSUME NEW n \in Nat, NEW p \in Bounds(n), p[1] <= p[2],
         NEW mid, mid = (p[1] + p[2]) \div 2
  PROVE  /\ mid \in p[1] .. p[2] /\ mid \in 0 .. n - 1
         /\ <<mid + 1, p[2]>> \in Bounds(n) /\ Closer(<<mid + 1, p[2]>>, p)
         /\ mid # 0 => <<p[1], mid - 1>> \in Bounds(n) /\ Closer(<<p[1], mid - 1>>, p)
  <1>1. PICK b \in 0 .. n, e \in -1 .. n - 1 : p[1] = b /\ p[2] = e
    BY BoundsType
  <1>2. /\ mid \in b .. e /\ mid \in 0 .. n - 1
        /\ mid + 1 \in 0 .. n /\ e - (mid + 1) < e - b
        /\ mid # 0 => mid - 1 \in -1 .. n - 1 /\ (mid - 1) - b < e - b
    BY <1>1, Middle
  <1>3. <<mid + 1, e>> \in Bounds(n) /\ (mid # 0 => <<b, mid - 1>> \in Bounds(n))
    BY <1>2 DEF Bounds
  <1>4. Closer(<<mid + 1, e>>, p) /\ (mid # 0 => Closer(<<b, mid - 1>>, p))
    BY <1>1, <1>2 DEF Closer
  <1> QED
    BY <1>1, <1>2, <1>3, <1>4

(* A pass looks only at what the loop returns for closer bounds.           *)
LEMMA PassCongruence ==
  ASSUME NEW n \in Nat, NEW arr, NEW key, NEW f, NEW g, NEW p \in Bounds(n),
         \A q \in Bounds(n) : Closer(q, p) => f[q] = g[q]
  PROVE  Pass(f, arr, key, p) = Pass(g, arr, key, p)
  <1>1. PICK mid : mid = (p[1] + p[2]) \div 2
    OBVIOUS
  <1>2. CASE p[1] > p[2]
    BY <1>2 DEF Pass
  <1>3. CASE p[1] <= p[2]
    <2>1. f[<<mid + 1, p[2]>>] = g[<<mid + 1, p[2]>>]
      BY <1>1, <1>3, Halves
    <2>2. mid # 0 => f[<<p[1], mid - 1>>] = g[<<p[1], mid - 1>>]
      BY <1>1, <1>3, Halves
    <2> QED
      BY <1>1, <2>1, <2>2 DEF Pass
  <1>4. p[1] \in Int /\ p[2] \in Int
    BY BoundsType
  <1> QED
    BY <1>2, <1>3, <1>4

LEMMA SearchLoops ==
  ASSUME NEW n \in Nat, NEW arr, NEW key
  PROVE  Loops(Search(arr, n, key), arr, n, key)
  <1> DEFINE LoopsTo(g, k) == \A p \in Bounds(n) :
                                p[2] - p[1] < k => g[p] = Pass(g, arr, key, p)
             Bad == {k \in Nat : \A g : ~ LoopsTo(g, k)}
             P(s) == Loops(s, arr, n, key)
  <1>1. \A p \in Bounds(n) : p[1] \in Int /\ p[2] \in Int
    BY BoundsType
  <1>2. \E g : LoopsTo(g, 0)
    <2>1. PICK g : g = [p \in Bounds(n) |-> p[1]]
      OBVIOUS
    <2>2. ASSUME NEW p \in Bounds(n), p[2] - p[1] < 0
          PROVE  g[p] = Pass(g, arr, key, p)
      <3>1. p[1] > p[2]
        BY <1>1, <2>2
      <3> QED
        BY <2>1, <3>1 DEF Pass
    <2> QED
      BY <2>2
  <1>3. ASSUME NEW m \in Nat, NEW h, LoopsTo(h, m) PROVE \E g : LoopsTo(g, m + 1)
    <2>1. PICK g : g = [p \in Bounds(n) |-> Pass(h, arr, key, p)]
      OBVIOUS
    <2>2. ASSUME NEW p \in Bounds(n), p[2] - p[1] < m + 1
          PROVE  g[p] = Pass(g, arr, key, p)
      <3>1. ASSUME NEW q \in Bounds(n), Closer(q, p) PROVE h[q] = g[q]
        <4>1. q[2] - q[1] < m
          BY <1>1, <2>2, <3>1 DEF Closer
        <4> QED
          BY <1>3, <2>1, <4>1
      <3>2. Pass(h, arr, key, p) = Pass(g, arr, key, p)
        BY <3>1, PassCongruence
      <3> QED
        BY <2>1, <3>2
    <2> QED
      BY <2>2
  <1>4. Bad = {}
    <2> SUFFICES ASSUME Bad # {} PROVE FALSE
      OBVIOUS
    <2> HIDE DEF LoopsTo
    <2>1. PICK k \in Bad : \A m \in Bad : k <= m
      BY LeastNatural
    <2>2. k # 0
      BY <1>2, <2>1
    <2>3. PICK m \in Nat : k = m + 1
      BY <2>1, <2>2
    <2> QED
      BY <1>3, <2>1, <2>3
  <1>5. PICK h : LoopsTo(h, n + 1)
    BY <1>4
  <1>6. PICK f : f = [p \in Bounds(n) |-> h[p]]
    OBVIOUS
  <1>7. ASSUME NEW p \in Bounds(n)
        PROVE  h[p] = Pass(f, arr, key, p)
    <2>1. p[2] - p[1] < n + 1
      BY BoundsType
    <2>2. h[p] = Pass(h, arr, key, p)
      BY <1>5, <2>1
    <2>3. \A q \in Bounds(n) : h[q] = f[q]
      BY <1>6
    <2>4. Pass(h, arr, key, p) = Pass(f, arr, key, p)
      BY <2>3, PassCongruence
    <2> QED
      BY <2>2, <2>4
  <1>8. P(f)
    BY <1>6, <1>7 DEF Loops
  <1>9. Search(arr, n, key) = CHOOSE s : P(s)
    BY DEF Search, Pass, Loops, Bounds
  <1> HIDE DEF P
  <1>10. P(CHOOSE s : P(s))
    BY <1>8
  <1>11. P(Search(arr, n, key))
    BY <1>9, <1>10
  <1> QED
    BY <1>11 DEF P

LEMMA SearchPass ==
  ASSUME NEW n \in Nat, NEW arr, NEW key, NEW p \in Bounds(n)
  PROVE  Search(arr, n, key)[p] = Pass(Search(arr, n, key), arr, key, p)
  <1>1. PICK s : s = Search(arr, n, key)
    OBVIOUS
  <1>2. s = [q \in Bounds(n) |-> Pass(s, arr, key, q)]
    BY <1>1, SearchLoops DEF Loops
  <1> QED
    BY <1>1, <1>2

-----------------------------------------------------------------------------
(* What it returns.                                                        *)

(* The first n slots are sorted.                                           *)
Ascends(arr, n) == \A i, j \in 0 .. n - 1 : i <= j => arr[i] <= arr[j]

(* The invariant of the loop: what lies outside the bounds is ruled out.   *)
RuledOut(arr, n, key, p) ==
  /\ p[1] <= p[2] + 1
  /\ \A i \in 0 .. n - 1 : (i < p[1] => arr[i] < key) /\ (i > p[2] => key < arr[i])

(* The slot at has the key, or the key is missing and belongs there.       *)
Places(arr, n, key, at) ==
  \/ at < n /\ arr[at] = key
  \/ \A i \in 0 .. n - 1 : (i < at => arr[i] < key) /\ (i >= at => key < arr[i])

(* The loop may return at from the bounds p.                               *)
Answers(arr, n, key, p, at) ==
  /\ at \in 0 .. n
  /\ Ascends(arr, n) /\ RuledOut(arr, n, key, p) => Places(arr, n, key, at)

LEMMA PassAnswers ==
  ASSUME NEW n \in Nat, NEW arr, \A i \in 0 .. n - 1 : arr[i] \in Int, NEW key \in Int,
         NEW p \in Bounds(n), NEW f,
         \A q \in Bounds(n) : Closer(q, p) => Answers(arr, n, key, q, f[q])
  PROVE  Answers(arr, n, key, p, Pass(f, arr, key, p))
  <1>1. PICK b \in 0 .. n, e \in -1 .. n - 1 : p[1] = b /\ p[2] = e
    BY BoundsType
  <1>2. PICK mid : mid = (b + e) \div 2
    OBVIOUS
  <1>3. CASE b > e
    <2>1. Pass(f, arr, key, p) = b
      BY <1>1, <1>3 DEF Pass
    <2>2. ASSUME RuledOut(arr, n, key, p) PROVE Places(arr, n, key, b)
      BY <2>2, <1>1, <1>3 DEF RuledOut, Places
    <2> QED
      BY <2>1, <2>2 DEF Answers
  <1>4. CASE b <= e
    <2>1. /\ mid \in b .. e /\ mid \in 0 .. n - 1
          /\ mid # 0 => mid - 1 \in Int
      BY <1>2, <1>4, Middle
    <2>2. /\ Answers(arr, n, key, <<mid + 1, e>>, f[<<mid + 1, e>>])
          /\ mid # 0 => Answers(arr, n, key, <<b, mid - 1>>, f[<<b, mid - 1>>])
      BY <1>1, <1>2, <1>4, Halves
    <2>3. Pass(f, arr, key, p) = IF key > arr[mid] THEN f[<<mid + 1, e>>]
                                 ELSE IF key < arr[mid]
                                 THEN IF mid = 0 THEN b ELSE f[<<b, mid - 1>>]
                                 ELSE mid
      BY <1>1, <1>2, <1>4 DEF Pass
    <2>4. CASE key > arr[mid]
      <3>1. ASSUME Ascends(arr, n), RuledOut(arr, n, key, p)
            PROVE  RuledOut(arr, n, key, <<mid + 1, e>>)
        BY <1>1, <2>1, <2>4, <3>1 DEF Ascends, RuledOut
      <3> QED
        BY <2>2, <2>3, <2>4, <3>1 DEF Answers
    <2>5. CASE key < arr[mid] /\ mid # 0
      <3>1. ASSUME Ascends(arr, n), RuledOut(arr, n, key, p)
            PROVE  RuledOut(arr, n, key, <<b, mid - 1>>)
        BY <1>1, <2>1, <2>5, <3>1 DEF Ascends, RuledOut
      <3>2. ~ (key > arr[mid])
        BY <2>1, <2>5
      <3> QED
        BY <2>2, <2>3, <2>5, <3>1, <3>2 DEF Answers
    <2>6. CASE key < arr[mid] /\ mid = 0
      <3>1. ~ (key > arr[mid]) /\ b = 0
        BY <2>1, <2>6
      <3>2. ASSUME Ascends(arr, n) PROVE Places(arr, n, key, 0)
        BY <2>1, <2>6, <3>2 DEF Ascends, Places
      <3> QED
        BY <2>3, <2>6, <3>1, <3>2 DEF Answers
    <2>7. CASE key = arr[mid]
      <3>1. Places(arr, n, key, mid)
        BY <2>1, <2>7 DEF Places
      <3>2. Pass(f, arr, key, p) = mid
        BY <2>3, <2>7
      <3> QED
        BY <2>1, <3>1, <3>2 DEF Answers
    <2>8. arr[mid] \in Int
      BY <2>1
    <2> QED
      BY <2>4, <2>5, <2>6, <2>7, <2>8
  <1> QED
    BY <1>3, <1>4

LEMMA SearchAnswers ==
  ASSUME NEW n \in Nat, NEW arr, \A i \in 0 .. n - 1 : arr[i] \in Int, NEW key \in Int,
         NEW p \in Bounds(n)
  PROVE  Answers(arr, n, key, p, Search(arr, n, key)[p])
  <1>1. PICK s : s = Search(arr, n, key)
    OBVIOUS
  <1> DEFINE Good(q) == Answers(arr, n, key, q, s[q])
             Bad == {k \in Nat : \E q \in Bounds(n) : q[2] - q[1] < k /\ ~ Good(q)}
  <1>2. ASSUME NEW q \in Bounds(n), \A r \in Bounds(n) : Closer(r, q) => Good(r)
        PROVE  Good(q)
    <2>1. s[q] = Pass(s, arr, key, q)
      BY <1>1, SearchPass
    <2>2. Answers(arr, n, key, q, Pass(s, arr, key, q))
      BY <1>2, PassAnswers
    <2> QED
      BY <2>1, <2>2
  <1>3. Bad = {}
    <2> SUFFICES ASSUME Bad # {} PROVE FALSE
      OBVIOUS
    <2>1. PICK k \in Bad : \A m \in Bad : k <= m
      BY LeastNatural
    <2>2. PICK q \in Bounds(n) : q[2] - q[1] < k /\ ~ Good(q)
      BY <2>1
    <2> HIDE DEF Good
    <2>3. ASSUME NEW r \in Bounds(n), Closer(r, q) PROVE Good(r)
      <3>1. q[1] <= q[2] /\ r[2] - r[1] < q[2] - q[1] /\ q[1] \in Int /\ q[2] \in Int
        BY <2>3, BoundsType DEF Closer
      <3>2. q[2] - q[1] \in Nat /\ q[2] - q[1] < k /\ k \in Nat
        BY <2>1, <2>2, <3>1
      <3>3. q[2] - q[1] \notin Bad
        BY <2>1, <3>2
      <3> QED
        BY <3>1, <3>2, <3>3
    <2> QED
      BY <1>2, <2>2, <2>3
  <1>4. p[2] - p[1] < n + 1
    BY BoundsType
  <1>5. Good(p)
    BY <1>3, <1>4
  <1> QED
    BY <1>1, <1>5

(* The slot that mc_alg_lower_bound returns lies in the array or behind    *)
(* its last element, whatever the array holds; in a sorted array it has    *)
(* the key if any slot has, and is its place if none has.                  *)
LEMMA LowerBoundPlaces ==
  ASSUME NEW n \in Nat, NEW arr, \A i \in 0 .. n - 1 : arr[i] \in Int, NEW key \in Int
  PROVE  /\ LowerBound(arr, n, key) \in 0 .. n
         /\ Ascends(arr, n) => Places(arr, n, key, LowerBound(arr, n, key))
  <1>1. CASE n = 0
    BY <1>1 DEF LowerBound, Places
  <1>2. CASE n # 0
    <2>1. <<0, n - 1>> \in Bounds(n)
      BY <1>2 DEF Bounds
    <2>2. RuledOut(arr, n, key, <<0, n - 1>>)
      BY <1>2 DEF RuledOut
    <2>3. LowerBound(arr, n, key) = Search(arr, n, key)[<<0, n - 1>>]
      BY <1>2 DEF LowerBound
    <2> QED
      BY <2>1, <2>2, <2>3, SearchAnswers DEF Answers
  <1> QED
    BY <1>1, <1>2

-----------------------------------------------------------------------------
(* The array stays sorted.                                                 *)

IInv == TypeOK /\ Sorted

LEMMA ElementsFacts ==
  ASSUME TypeOK
  PROVE  /\ count \in Nat /\ count <= Capacity /\ Keys \subseteq Int
         /\ \A i \in Slots : data[i] \in Int /\ data[i] \in Keys
         /\ \A i \in 0 .. count - 1 : i \in Slots /\ data[i] \in Int
         /\ Sorted => Ascends(data, count)
  <1>1. count \in Nat /\ count <= Capacity /\ Capacity \in Nat
    BY DEF TypeOK
  <1>2. \A i \in 0 .. count - 1 : i \in Slots
    BY <1>1 DEF Slots
  <1>3. \A i \in Slots : data[i] \in Keys
    BY DEF TypeOK
  <1> QED
    BY <1>1, <1>2, <1>3 DEF Sorted, Ascends, Elements

(* Where mc_sarray_insert puts a key, what is before it is not greater and *)
(* what is behind it is not less.                                          *)
LEMMA PlaceOrder ==
  ASSUME IInv, NEW key \in Keys, NEW at, at = LowerBound(data, count, key)
  PROVE  /\ at \in 0 .. count
         /\ \A i \in 0 .. count - 1 : (i < at => data[i] <= key) /\ (i >= at => key <= data[i])
  <1>1. /\ count \in Nat /\ key \in Int
        /\ \A i \in 0 .. count - 1 : data[i] \in Int
        /\ Ascends(data, count)
    BY ElementsFacts DEF IInv
  <1>2. at \in 0 .. count /\ Places(data, count, key, at)
    BY <1>1, LowerBoundPlaces
  <1> QED
    BY <1>1, <1>2 DEF Ascends, Places

LEMMA InsertKeeps ==
  ASSUME IInv, NEW key \in Keys, Insert(key)
  PROVE  IInv'
  <1>1. PICK at : at = LowerBound(data, count, key)
    OBVIOUS
  <1>2. /\ at \in 0 .. count
        /\ \A i \in 0 .. count - 1 : (i < at => data[i] <= key) /\ (i >= at => key <= data[i])
    BY <1>1, PlaceOrder
  <1>3. /\ count \in Nat /\ count < Capacity /\ Capacity \in Nat /\ count' = count + 1
        /\ data' = [i \in Slots |-> IF i = at THEN key
                                    ELSE IF at < i /\ i <= count THEN data[i - 1]
                                    ELSE data[i]]
    BY <1>1, ElementsFacts DEF Insert, IInv
  <1>4. \A i \in Slots : data[i] \in Keys
    BY ElementsFacts DEF IInv
  <1>5. TypeOK'
    <2>1. ASSUME NEW i \in Slots PROVE data'[i] \in Keys
      <3>1. at < i => i - 1 \in Slots
        BY <1>2 DEF Slots
      <3> QED
        BY <1>3, <1>4, <3>1
    <2> QED
      BY <1>3, <2>1 DEF TypeOK
  <1>6. ASSUME NEW i \in 0 .. count, NEW j \in 0 .. count, i <= j PROVE data'[i] <= data'[j]
    <2>1. /\ i \in Slots /\ j \in Slots /\ key \in Int
          /\ \A k \in 0 .. count - 1 : data[k] \in Int
      BY <1>3, ElementsFacts DEF Slots, IInv
    <2>2. /\ data'[i] = IF i = at THEN key ELSE IF at < i THEN data[i - 1] ELSE data[i]
          /\ data'[j] = IF j = at THEN key ELSE IF at < j THEN data[j - 1] ELSE data[j]
      BY <1>3, <2>1
    <2>3. \A k, m \in 0 .. count - 1 : k <= m => data[k] <= data[m]
      BY DEF IInv, Sorted, Elements
    <2> QED
      BY <1>2, <1>3, <1>6, <2>1, <2>2, <2>3
  <1>7. Sorted'
    BY <1>3, <1>6 DEF Sorted, Elements
  <1> QED
    BY <1>5, <1>7 DEF IInv

(* The elements above index move down by one.                              *)
Closes(index) ==
  /\ count' = count - 1
  /\ \A i \in 0 .. count - 2 : data'[i] = IF index <= i THEN data[i + 1] ELSE data[i]

LEMMA ClosesKeeps ==
  ASSUME IInv, NEW index \in 0 .. count - 1, data' \in [Slots -> Keys], Closes(index)
  PROVE  IInv'
  <1>1. count \in Nat /\ count <= Capacity /\ Capacity \in Nat /\ count' = count - 1 /\ count > 0
    BY ElementsFacts DEF IInv, Closes
  <1>2. \A k, m \in 0 .. count - 1 : k <= m => data[k] <= data[m]
    BY DEF IInv, Sorted, Elements
  <1>3. ASSUME NEW i \in 0 .. count - 2, NEW j \in 0 .. count - 2, i <= j
        PROVE  data'[i] <= data'[j]
    <2>1. /\ data'[i] = data[IF index <= i THEN i + 1 ELSE i]
          /\ data'[j] = data[IF index <= j THEN j + 1 ELSE j]
      BY DEF Closes
    <2> QED
      BY <1>1, <1>2, <1>3, <2>1
  <1>4. Sorted'
    BY <1>1, <1>3 DEF Sorted, Elements
  <1>5. TypeOK'
    BY <1>1 DEF TypeOK
  <1> QED
    BY <1>4, <1>5 DEF IInv

(* Whatever mc_sarray_remove_at reads behind the array, it ends up behind  *)
(* the elements.                                                           *)
LEMMA RemoveAtCloses ==
  ASSUME TypeOK, NEW index \in 0 .. count - 1, RemoveAt(index)
  PROVE  data' \in [Slots -> Keys] /\ Closes(index)
  <1>1. PICK behind \in Keys :
          data' = [i \in Slots |-> IF index <= i /\ i < count
                                   THEN IF i + 1 = Capacity THEN behind ELSE data[i + 1]
                                   ELSE data[i]]
    BY DEF RemoveAt
  <1>2. /\ count \in Nat /\ count <= Capacity /\ Capacity \in Nat /\ count' = count - 1
        /\ \A i \in Slots : data[i] \in Keys
    BY ElementsFacts DEF RemoveAt
  <1>3. ASSUME NEW i \in Slots PROVE data'[i] \in Keys
    <2>1. i + 1 # Capacity => i + 1 \in Slots
      BY DEF Slots
    <2> QED
      BY <1>1, <1>2, <2>1
  <1>4. ASSUME NEW i \in 0 .. count - 2
        PROVE  data'[i] = IF index <= i THEN data[i + 1] ELSE data[i]
    <2>1. i \in Slots /\ i < count /\ i + 1 # Capacity
      BY <1>2 DEF Slots
    <2> QED
      BY <1>1, <2>1
  <1> QED
    BY <1>1, <1>2, <1>3, <1>4 DEF Closes

LEMMA RemoveCloses ==
  ASSUME TypeOK, NEW key \in Keys, Remove(key)
  PROVE  Find(key) \in 0 .. count - 1 /\ data' \in [Slots -> Keys] /\ Closes(Find(key))
  <1>1. PICK at : at = Find(key)
    OBVIOUS
  <1>2. /\ count \in Nat /\ count <= Capacity /\ Capacity \in Nat /\ key \in Int
        /\ \A i \in Slots : data[i] \in Keys
        /\ \A i \in 0 .. count - 1 : data[i] \in Int
    BY ElementsFacts
  <1>3. at \in 0 .. count
    BY <1>1, <1>2, LowerBoundPlaces DEF Find
  <1>4. /\ at # count /\ count' = count - 1
        /\ data' = [i \in Slots |->
                      IF at <= i /\ i < count - 1 THEN data[i + 1] ELSE data[i]]
    BY <1>1 DEF Remove
  <1>5. ASSUME NEW i \in Slots PROVE data'[i] \in Keys
    <2>1. i < count - 1 => i + 1 \in Slots
      BY <1>2 DEF Slots
    <2> QED
      BY <1>2, <1>4, <2>1
  <1>6. ASSUME NEW i \in 0 .. count - 2
        PROVE  data'[i] = IF at <= i THEN data[i + 1] ELSE data[i]
    <2>1. i \in Slots /\ i < count - 1
      BY <1>2 DEF Slots
    <2> QED
      BY <1>4, <2>1
  <1> QED
    BY <1>1, <1>2, <1>3, <1>4, <1>5, <1>6 DEF Closes

LEMMA StepKeeps == IInv /\ [Next]_vars => IInv'
  <1> SUFFICES ASSUME IInv, [Next]_vars PROVE IInv'
    OBVIOUS
  <1>1. ASSUME NEW key \in Keys, Insert(key) PROVE IInv'
    BY <1>1, InsertKeeps
  <1>2. ASSUME NEW key \in Keys, Remove(key) PROVE IInv'
    BY <1>2, RemoveCloses, ClosesKeeps DEF IInv
  <1>3. ASSUME NEW index \in 0 .. count - 1, RemoveAt(index) PROVE IInv'
    BY <1>3, RemoveAtCloses, ClosesKeeps DEF IInv
  <1>4. CASE Clear
    BY <1>4 DEF Clear, IInv, TypeOK, Sorted, Elements
  <1>5. CASE UNCHANGED vars
    BY <1>5 DEF vars, IInv, TypeOK, Sorted, Elements
  <1> QED
    BY <1>1, <1>2, <1>3, <1>4, <1>5 DEF Next

(* The array keeps its types and stays sorted, whatever is inserted and    *)
(* removed, for every capacity and set of keys.                            *)
THEOREM StaysSorted == Spec => [](TypeOK /\ Sorted)
  <1>1. Init => IInv
    BY DEF Init, IInv, TypeOK, Sorted, Elements
  <1>2. IInv => TypeOK /\ Sorted
    BY DEF IInv
  <1> QED
    BY <1>1, <1>2, StepKeeps, PTL DEF Spec

(* mc_sarray_insert never counts past the capacity, mc_sarray_remove never *)
(* below 0, and their shifts leave a key in every slot.                    *)
THEOREM ArrayTypes == Spec => []TypeOK
  BY StaysSorted, PTL

-----------------------------------------------------------------------------
(* Searching.                                                              *)

(* The elements with the key k among the first n.                          *)
With(arr, n, k) == {i \in 0 .. n - 1 : arr[i] = k}

LEMMA WithFinite ==
  ASSUME NEW n \in Nat, NEW arr, NEW k
  PROVE  IsFiniteSet(With(arr, n, k)) /\ Cardinality(With(arr, n, k)) \in Nat
  <1>1. IsFiniteSet(0 .. n - 1)
    BY FS_Interval
  <1>2. With(arr, n, k) \in SUBSET (0 .. n - 1)
    BY DEF With
  <1> QED
    BY <1>1, <1>2, FS_Subset, FS_CardinalityType

LEMMA OccursWith == \A k : Occurs(k) = Cardinality(With(data, count, k))
  BY DEF Occurs, With, Elements

LEMMA OccursSome ==
  ASSUME TypeOK, NEW k
  PROVE  Occurs(k) > 0 <=> \E i \in Elements : data[i] = k
  <1>1. PICK S : S = With(data, count, k)
    OBVIOUS
  <1>2. IsFiniteSet(S) /\ Cardinality(S) \in Nat
    BY <1>1, WithFinite DEF TypeOK
  <1>3. Cardinality(S) = 0 <=> S = {}
    BY <1>2, FS_EmptySet
  <1>4. Occurs(k) = Cardinality(S)
    BY <1>1, OccursWith
  <1>5. S = {} <=> ~ \E i \in Elements : data[i] = k
    BY <1>1 DEF With, Elements
  <1> QED
    BY <1>2, <1>3, <1>4, <1>5

LEMMA SortedFinds ==
  ASSUME IInv, NEW key \in Keys
  PROVE  /\ Find(key) \in 0 .. count
         /\ IF Occurs(key) > 0
            THEN Find(key) < count /\ data[Find(key)] = key
            ELSE \A i \in Elements : i < Find(key) <=> data[i] < key
  <1>1. PICK at : at = Find(key)
    OBVIOUS
  <1>2. /\ count \in Nat /\ key \in Int
        /\ \A i \in 0 .. count - 1 : data[i] \in Int
        /\ Ascends(data, count)
    BY ElementsFacts DEF IInv
  <1>3. at \in 0 .. count /\ Places(data, count, key, at)
    BY <1>1, <1>2, LowerBoundPlaces DEF Find
  <1>4. Occurs(key) > 0 <=> \E i \in 0 .. count - 1 : data[i] = key
    BY OccursSome DEF IInv, Elements
  <1>5. CASE at < count /\ data[at] = key
    <2>1. at \in 0 .. count - 1
      BY <1>2, <1>3, <1>5
    <2>2. Occurs(key) > 0
      BY <1>4, <1>5, <2>1
    <2> QED
      BY <1>1, <1>3, <1>5, <2>2
  <1>6. CASE \A i \in 0 .. count - 1 : (i < at => data[i] < key) /\ (i >= at => key < data[i])
    <2>1. \A i \in 0 .. count - 1 : data[i] # key /\ (i < at <=> data[i] < key)
      BY <1>2, <1>3, <1>6
    <2> QED
      BY <1>1, <1>3, <1>4, <2>1 DEF Elements
  <1> QED
    BY <1>3, <1>5, <1>6 DEF Places

(* mc_sarray_find meets every key that is in the array, and returns the    *)
(* first greater element, or NULL, for one that is not.                    *)
THEOREM FindCorrect == Spec => []FindMeets
  <1>1. TypeOK /\ Sorted => FindMeets
    BY SortedFinds DEF IInv, FindMeets
  <1> QED
    BY <1>1, StaysSorted, PTL

LEMMA SortedNearest ==
  ASSUME IInv, NEW key \in Keys, count > 0, NEW j \in Elements
  PROVE  Abs(key - data[Nearest(data, count, key)]) <= Abs(key - data[j])
  <1>1. PICK at : at = LowerBound(data, count, key)
    OBVIOUS
  <1>2. /\ count \in Nat /\ key \in Int
        /\ \A i \in 0 .. count - 1 : data[i] \in Int
    BY ElementsFacts DEF IInv
  <1>3. /\ at \in 0 .. count
        /\ \A i \in 0 .. count - 1 : (i < at => data[i] <= key) /\ (i >= at => key <= data[i])
    BY <1>1, PlaceOrder
  <1>4. \A i, m \in 0 .. count - 1 : i <= m => data[i] <= data[m]
    BY DEF IInv, Sorted, Elements
  <1>5. j \in 0 .. count - 1 /\ data[j] \in Int
    BY <1>2 DEF Elements
  <1>6. CASE at = 0
    <2>1. Nearest(data, count, key) = 0
      BY <1>1, <1>6 DEF Nearest
    <2>2. key <= data[0] /\ data[0] <= data[j] /\ data[0] \in Int
      BY <1>2, <1>3, <1>4, <1>5, <1>6
    <2> QED
      BY <1>2, <1>5, <2>1, <2>2 DEF Abs
  <1>7. CASE at # 0 /\ at = count
    <2>1. Nearest(data, count, key) = count - 1
      BY <1>1, <1>7 DEF Nearest
    <2>2. data[count - 1] <= key /\ data[j] <= data[count - 1] /\ data[count - 1] \in Int
      BY <1>2, <1>3, <1>4, <1>5, <1>7
    <2> QED
      BY <1>2, <1>5, <2>1, <2>2 DEF Abs
  <1>8. CASE at # 0 /\ at # count
    <2>1. PICK x, y : x = data[at - 1] /\ y = data[at]
      OBVIOUS
    <2>2. at - 1 \in 0 .. count - 1 /\ at \in 0 .. count - 1
      BY <1>2, <1>3, <1>8
    <2>3. x \in Int /\ y \in Int /\ x <= key /\ key <= y
      BY <1>2, <1>3, <2>1, <2>2
    <2>4. data[j] <= x \/ y <= data[j]
      <3>1. j <= at - 1 \/ at <= j
        BY <1>5, <2>2
      <3> QED
        BY <1>4, <1>5, <2>1, <2>2, <3>1
    <2>5. data[Nearest(data, count, key)] = IF Abs(key - x) < Abs(key - y) THEN x ELSE y
      BY <1>1, <1>8, <2>1 DEF Nearest
    <2> QED
      BY <1>2, <1>5, <2>3, <2>4, <2>5 DEF Abs
  <1> QED
    BY <1>6, <1>7, <1>8

(* mc_alg_nearest returns an element at the least distance.                *)
THEOREM NearestCorrect == Spec => []NearestIsNearest
  <1>1. TypeOK /\ Sorted => NearestIsNearest
    BY SortedNearest DEF IInv, NearestIsNearest
  <1> QED
    BY <1>1, StaysSorted, PTL

-----------------------------------------------------------------------------
(* Nothing is lost.                                                        *)

(* g is f with one element more, at the slot at.                           *)
LEMMA OneMore ==
  ASSUME NEW c \in Nat, NEW at \in 0 .. c, NEW f, NEW g, NEW k,
         \A i \in 0 .. c - 1 : g[IF i < at THEN i ELSE i + 1] = f[i]
  PROVE  Cardinality(With(g, c + 1, k))
           = Cardinality(With(f, c, k)) + (IF g[at] = k THEN 1 ELSE 0)
  <1>1. PICK S : S = With(f, c, k)
    OBVIOUS
  <1>2. PICK U : U = With(g, c + 1, k)
    OBVIOUS
  <1>3. PICK T : T = U \ {at}
    OBVIOUS
  <1>4. IsFiniteSet(S) /\ IsFiniteSet(U) /\ Cardinality(S) \in Nat /\ Cardinality(U) \in Nat
    BY <1>1, <1>2, WithFinite
  <1>5. PICK h : h = [i \in S |-> IF i < at THEN i ELSE i + 1]
    OBVIOUS
  <1>6. S \subseteq 0 .. c - 1 /\ U \subseteq 0 .. c
    BY <1>1, <1>2 DEF With
  <1>7. ASSUME NEW i \in S PROVE h[i] \in T
    <2>1. h[i] \in 0 .. c /\ h[i] # at /\ g[h[i]] = k
      BY <1>1, <1>5, <1>6 DEF With
    <2> QED
      BY <1>2, <1>3, <2>1 DEF With
  <1>8. \A i, j \in S : h[i] = h[j] => i = j
    BY <1>5, <1>6
  <1>9. ASSUME NEW t \in T PROVE \E i \in S : h[i] = t
    <2>1. t \in 0 .. c /\ t # at /\ g[t] = k
      BY <1>2, <1>3 DEF With
    <2>2. PICK i \in 0 .. c - 1 : t = IF i < at THEN i ELSE i + 1
      <3>1. CASE t < at
        BY <2>1, <3>1
      <3>2. CASE t > at
        <4>1. t - 1 \in 0 .. c - 1 /\ t = (t - 1) + 1 /\ ~ (t - 1 < at)
          BY <2>1, <3>2
        <4> QED
          BY <4>1
      <3> QED
        BY <2>1, <3>1, <3>2
    <2>3. f[i] = k
      BY <2>1, <2>2
    <2>4. i \in S
      BY <1>1, <2>3 DEF With
    <2> QED
      BY <1>5, <2>2, <2>4
  <1>10. ExistsBijection(S, T)
    <2>1. h \in [S -> T]
      BY <1>5, <1>7
    <2>2. h \in Bijection(S, T)
      BY <1>5, <1>8, <1>9, <2>1 DEF Bijection, Injection, Surjection, IsInjective
    <2> QED
      BY <2>2, Zenon DEF ExistsBijection
  <1>11. Cardinality(T) = Cardinality(S)
    BY <1>4, <1>10, FS_Bijection
  <1>12. Cardinality(T) = IF at \in U THEN Cardinality(U) - 1 ELSE Cardinality(U)
    BY <1>3, <1>4, FS_RemoveElement
  <1>13. at \in U <=> g[at] = k
    BY <1>2 DEF With
  <1> QED
    BY <1>1, <1>2, <1>4, <1>11, <1>12, <1>13

(* The key that was inserted occurs once more, every other as often as     *)
(* before: mc_sarray_insert moves the rest up without losing any.          *)
LEMMA InsertCounts ==
  ASSUME TypeOK, NEW key \in Keys, Insert(key), NEW k \in Keys
  PROVE  Occurs(k)' = Occurs(k) + (IF k = key THEN 1 ELSE 0)
  <1>1. PICK at : at = LowerBound(data, count, key)
    OBVIOUS
  <1>2. /\ count \in Nat /\ key \in Int /\ Capacity \in Nat /\ count < Capacity
        /\ \A i \in 0 .. count - 1 : data[i] \in Int
    BY ElementsFacts DEF Insert
  <1>3. at \in 0 .. count
    BY <1>1, <1>2, LowerBoundPlaces
  <1>4. /\ count' = count + 1
        /\ data' = [i \in Slots |-> IF i = at THEN key
                                    ELSE IF at < i /\ i <= count THEN data[i - 1]
                                    ELSE data[i]]
    BY <1>1 DEF Insert
  <1>5. ASSUME NEW i \in 0 .. count - 1
        PROVE  data'[IF i < at THEN i ELSE i + 1] = data[i]
    <2>1. i \in Slots /\ i + 1 \in Slots /\ (i + 1) - 1 = i
      BY <1>2 DEF Slots
    <2> QED
      BY <1>2, <1>3, <1>4, <2>1
  <1>6. data'[at] = key
    <2>1. at \in Slots
      BY <1>2, <1>3 DEF Slots
    <2> QED
      BY <1>4, <2>1
  <1>7. Cardinality(With(data', count + 1, k))
          = Cardinality(With(data, count, k)) + (IF data'[at] = k THEN 1 ELSE 0)
    BY <1>2, <1>3, <1>5, OneMore
  <1>8. Occurs(k)' = Cardinality(With(data', count + 1, k))
    BY <1>2, <1>4 DEF Occurs, With, Elements
  <1> QED
    BY <1>6, <1>7, <1>8, OccursWith

LEMMA ClosesCounts ==
  ASSUME TypeOK, NEW index \in 0 .. count - 1, Closes(index), NEW k
  PROVE  Occurs(k) = Occurs(k)' + (IF k = data[index] THEN 1 ELSE 0)
  <1>1. count \in Nat /\ count' = count - 1 /\ count > 0
    BY ElementsFacts DEF Closes
  <1>2. PICK c \in Nat : count = c + 1
    BY <1>1
  <1>3. \A i \in 0 .. c - 1 : data[IF i < index THEN i ELSE i + 1] = data'[i]
    BY <1>1, <1>2 DEF Closes
  <1>4. Cardinality(With(data, c + 1, k))
          = Cardinality(With(data', c, k)) + (IF data[index] = k THEN 1 ELSE 0)
    BY <1>2, <1>3, OneMore
  <1>5. Occurs(k)' = Cardinality(With(data', c, k))
    BY <1>1, <1>2 DEF Occurs, With, Elements
  <1> QED
    BY <1>2, <1>4, <1>5, OccursWith

(* Inserting adds the key and loses none, in every array that was reached. *)
THEOREM InsertAdds == Spec => InsertAddsOne
  <1>1. TypeOK => [\A key \in Keys : Insert(key) =>
                     \A k \in Keys : Occurs(k)' = Occurs(k) + (IF k = key THEN 1 ELSE 0)]_vars
    BY InsertCounts
  <1> QED
    BY <1>1, StaysSorted, PTL DEF InsertAddsOne

(* Removing loses the element at the index, or one with the key if there   *)
(* is one, and no other.                                                   *)
THEOREM RemoveTakes == Spec => RemoveTakesOne
  <1> DEFINE Loses(key) == \A k \in Keys :
                             Occurs(k) = Occurs(k)' + (IF k = key THEN 1 ELSE 0)
  <1>1. ASSUME IInv, NEW index \in Elements, RemoveAt(index) PROVE Loses(data[index])
    <2>1. index \in 0 .. count - 1 /\ TypeOK
      BY <1>1 DEF Elements, IInv
    <2>2. Closes(index)
      BY <1>1, <2>1, RemoveAtCloses
    <2> QED
      BY <2>1, <2>2, ClosesCounts
  <1>2. ASSUME IInv, NEW key \in Keys, Remove(key), Occurs(key) > 0 PROVE Loses(key)
    <2>1. TypeOK /\ data[Find(key)] = key
      BY <1>2, SortedFinds DEF IInv
    <2>2. Find(key) \in 0 .. count - 1 /\ Closes(Find(key))
      BY <1>2, <2>1, RemoveCloses
    <2> QED
      BY <2>1, <2>2, ClosesCounts
  <1>3. TypeOK /\ Sorted =>
          [/\ \A index \in Elements : RemoveAt(index) => Loses(data[index])
           /\ \A key \in Keys : Remove(key) /\ Occurs(key) > 0 => Loses(key)]_vars
    BY <1>1, <1>2 DEF IInv
  <1> QED
    BY <1>3, StaysSorted, PTL DEF RemoveTakesOne
=============================================================================
