---------------------------- MODULE SortedArray -----------------------------
(***************************************************************************)
(* The fixed-capacity sorted array of src/src/dsa/sarray.c on top of the   *)
(* binary search of src/src/alg/algorithm.c.  The message layer keeps its  *)
(* subscription table in one, with the message ids as keys.                *)
(*                                                                         *)
(* An element is its key, and fn_distance the difference of two keys.  The *)
(* slots behind the last element hold whatever the buffer or an earlier    *)
(* element left there.                                                     *)
(***************************************************************************)
EXTENDS Integers, FiniteSets

CONSTANTS
  Keys,       \* the keys of elements
  Capacity    \* slots of the array

ASSUME KeysAssumption     == Keys # {} /\ Keys \subseteq Int
ASSUME CapacityAssumption == Capacity \in Nat \ {0}

VARIABLES data, count

vars == <<data, count>>

Slots == 0 .. Capacity - 1

TypeOK == data \in [Slots -> Keys] /\ count \in 0 .. Capacity

(* mc_sarray_init does not touch the slots.                                *)
Init == data \in [Slots -> Keys] /\ count = 0

(* Mutants: the search goes on past the middle it has just ruled in; the   *)
(* last slot is never searched.                                            *)
LowerBoundLeft(arr, n, key) ==
  LET search[b \in 0 .. n, e \in -1 .. n - 1] ==
        LET mid == (b + e) \div 2
        IN  IF b > e THEN b
            ELSE IF key > arr[mid] THEN search[mid + 1, e]
            ELSE IF key < arr[mid] THEN mid
            ELSE mid
  IN  IF n = 0 THEN 0 ELSE search[0, n - 1]
LowerBoundShort(arr, n, key) ==
  LET search[b \in 0 .. n, e \in -1 .. n - 1] ==
        LET mid == (b + e) \div 2
        IN  IF b >= e THEN b
            ELSE IF key > arr[mid] THEN search[mid + 1, e]
            ELSE IF key < arr[mid]
            THEN IF mid = 0 THEN b ELSE search[b, mid - 1]
            ELSE mid
  IN  IF n = 0 THEN 0 ELSE search[0, n - 1]

(* The loop of mc_alg_lower_bound over the first n slots from the bounds   *)
(* bgn and end (b and e).  It stops at the first equal key it meets, which *)
(* need not be the leftmost, although the tests of mc_alg_lower_bound ask  *)
(* for that one (FirstOfEqual).                                            *)
Search(arr, n, key) ==
  LET search[bounds \in (0 .. n) \X (-1 .. n - 1)] ==
        LET b   == bounds[1]
            e   == bounds[2]
            mid == (b + e) \div 2
        IN  IF b > e THEN b
            ELSE IF key > arr[mid] THEN search[<<mid + 1, e>>]
            ELSE IF key < arr[mid]
            THEN IF mid = 0 THEN b ELSE search[<<b, mid - 1>>]
            ELSE mid
  IN  search

(* mc_alg_lower_bound.                                                     *)
LowerBound(arr, n, key) == IF n = 0 THEN 0 ELSE Search(arr, n, key)[<<0, n - 1>>]

Abs(x) == IF x < 0 THEN -x ELSE x

(* Mutant: the previous element is never looked at.                        *)
NearestAbove(arr, n, key) ==
  LET i == LowerBound(arr, n, key) IN IF i = n /\ n > 0 THEN n - 1 ELSE i

(* mc_alg_nearest.                                                         *)
Nearest(arr, n, key) ==
  LET i == LowerBound(arr, n, key)
  IN  IF i = 0 THEN 0
      ELSE IF i = n THEN n - 1
      ELSE IF Abs(key - arr[i - 1]) < Abs(key - arr[i]) THEN i - 1
      ELSE i

(* mc_sarray_find: the slot of the element it returns, or count for NULL.  *)
Find(key) == LowerBound(data, count, key)

(* Mutants: a full array is not refused; the rest is not moved up.         *)
InsertInFull(key) ==
  LET at == LowerBound(data, count, key)
  IN  /\ count <= Capacity
      /\ data' = [i \in Slots |->
                    IF i = at THEN key
                    ELSE IF at < i /\ i <= count THEN data[i - 1]
                    ELSE data[i]]
      /\ count' = count + 1
InsertOver(key) ==
  /\ count < Capacity
  /\ data' = [data EXCEPT ![LowerBound(data, count, key)] = key]
  /\ count' = count + 1

Insert(key) ==
  LET at == LowerBound(data, count, key)
  IN  /\ count < Capacity
      /\ data' = [i \in Slots |->
                    IF i = at THEN key
                    ELSE IF at < i /\ i <= count THEN data[i - 1]
                    ELSE data[i]]
      /\ count' = count + 1

(* Mutant: the move starts one slot late.                                  *)
RemoveAtNext(index) ==
  /\ count # 0
  /\ data' = [i \in Slots |->
                IF index < i /\ i < count - 1 THEN data[i + 1] ELSE data[i]]
  /\ count' = count - 1

(* mc_sarray_remove_at moves one element too many: the last one moved is   *)
(* read behind the elements, and behind the array when that is full.  It   *)
(* does not test its index; Next keeps to those of elements.  With count   *)
(* it drops the last element, and with more the size it moves wraps.       *)
RemoveAt(index) ==
  /\ count # 0
  /\ \E behind \in Keys :
       data' = [i \in Slots |->
                  IF index <= i /\ i < count
                  THEN IF i + 1 = Capacity THEN behind ELSE data[i + 1]
                  ELSE data[i]]
  /\ count' = count - 1

(* mc_sarray_remove takes out the element mc_sarray_find returns, without  *)
(* looking whether its key is the one asked for.                           *)
Remove(key) ==
  LET at == Find(key)
  IN  /\ count # 0
      /\ at # count
      /\ data' = [i \in Slots |->
                    IF at <= i /\ i < count - 1 THEN data[i + 1] ELSE data[i]]
      /\ count' = count - 1

(* mc_sarray_clear.                                                        *)
Clear == count' = 0 /\ UNCHANGED data

Next ==
  \/ \E key \in Keys : Insert(key) \/ Remove(key)
  \/ \E index \in 0 .. count - 1 : RemoveAt(index)
  \/ Clear

Spec == Init /\ [][Next]_vars

-----------------------------------------------------------------------------
Elements == 0 .. count - 1

Occurs(key) == Cardinality({i \in Elements : data[i] = key})

(* Whatever is inserted and removed, the elements stay sorted: the binary  *)
(* search of mc_sarray_insert picks a slot that keeps them so, duplicates  *)
(* included.                                                               *)
Sorted == \A i, j \in Elements : i <= j => data[i] <= data[j]

(* mc_sarray_find meets every key that is in the array, and for another    *)
(* key it returns the first greater element, or NULL if there is none.     *)
(* Which of several equal elements it meets is left to FirstOfEqual.       *)
FindMeets ==
  \A key \in Keys :
    LET at == Find(key)
    IN  IF Occurs(key) > 0
        THEN at < count /\ data[at] = key
        ELSE \A i \in Elements : i < at <=> data[i] < key

(* mc_alg_nearest returns an element at the least distance from the key.   *)
(* Which of several equal elements that is, is left to FirstOfEqual.       *)
NearestIsNearest ==
  \A key \in Keys : count > 0 =>
    \A i \in Elements :
      Abs(key - data[Nearest(data, count, key)]) <= Abs(key - data[i])

(* Asked for a key of the array, mc_alg_lower_bound and mc_alg_nearest     *)
(* return its leftmost element.  So test/alg/test_alg.c has it of the first*)
(* for 2 in {1, 2, 2, 2, 3}, "(1 != result.value)" (line 130), and of both *)
(* for 2 in {2, 2, 2, 2, 2}, "(0 != result.value)" (156 and 365).          *)
FirstOfEqual ==
  \A i \in Elements : LET key == data[i] IN
    Find(key) <= i /\ Nearest(data, count, key) <= i

(* Inserting a key adds this one and loses none.                           *)
InsertAddsOne ==
  [][\A key \in Keys : Insert(key) =>
       \A k \in Keys : Occurs(k)' = Occurs(k) + (IF k = key THEN 1 ELSE 0)]_vars

(* Removing loses the element at the index, or one with the key if there   *)
(* is one, and no other, whatever mc_sarray_remove_at read behind it.  *)
RemoveTakesOne ==
  [][LET Loses(key) == \A k \in Keys :
           Occurs(k) = Occurs(k)' + (IF k = key THEN 1 ELSE 0)
     IN  /\ \A index \in Elements : RemoveAt(index) => Loses(data[index])
         /\ \A key \in Keys : Remove(key) /\ Occurs(key) > 0 => Loses(key)]_vars

(* "ID not found" (message/api.md:113): removing a key that is not in the  *)
(* array, as mc_msg_unsubscribe of an unknown id does, changes nothing.    *)
RemoveAbsentKeeps ==
  [][\A key \in Keys : Remove(key) /\ Occurs(key) = 0 => UNCHANGED vars]_vars
=============================================================================
