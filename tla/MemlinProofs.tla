---------------------------- MODULE MemlinProofs ----------------------------
(***************************************************************************)
(* The linear allocator hands out no byte that its buffer does not have,   *)
(* and refuses none that the buffer has beside the header it was given.    *)
(***************************************************************************)
EXTENDS Memlin, Arithmetic, SequenceTheorems

USE WidthsAssumption, SizesAssumption

-----------------------------------------------------------------------------
(* The sum over a sequence of blocks.                                      *)

Sums(f, s) == f = [i \in 0 .. Len(s) |-> IF i = 0 THEN 0 ELSE f[i - 1] + s[i].size]

LEMMA SumExists ==
  ASSUME NEW s \in Seq(Block)
  PROVE  \E f : Sums(f, s)
  <1> DEFINE SumsTo(g, k) == \A i \in 0 .. Len(s) :
                               i < k => g[i] = IF i = 0 THEN 0 ELSE g[i - 1] + s[i].size
             Bad == {k \in Nat : \A g : ~ SumsTo(g, k)}
  <1>1. Len(s) \in Nat
    OBVIOUS
  <1>2. \E g : SumsTo(g, 0)
    OBVIOUS
  <1>3. ASSUME NEW m \in Nat, NEW h, SumsTo(h, m) PROVE \E g : SumsTo(g, m + 1)
    <2>1. PICK g : g = [i \in 0 .. Len(s) |-> IF i = 0 THEN 0 ELSE h[i - 1] + s[i].size]
      OBVIOUS
    <2>2. ASSUME NEW i \in 0 .. Len(s), i < m + 1
          PROVE  g[i] = IF i = 0 THEN 0 ELSE g[i - 1] + s[i].size
      <3>1. i # 0 => i - 1 \in 0 .. Len(s) /\ i - 1 < m
        BY <1>1, <2>2
      <3>2. i # 0 => h[i - 1] = g[i - 1]
        BY <1>3, <2>1, <3>1
      <3> QED
        BY <2>1, <3>2
    <2> QED
      BY <2>2
  <1>4. Bad = {}
    <2> SUFFICES ASSUME Bad # {} PROVE FALSE
      OBVIOUS
    <2> HIDE DEF SumsTo
    <2>1. PICK k \in Bad : \A m \in Bad : k <= m
      BY LeastNatural
    <2>2. k # 0
      BY <1>2, <2>1
    <2>3. PICK m \in Nat : k = m + 1
      BY <2>1, <2>2
    <2>4. m \notin Bad
      BY <2>1, <2>3
    <2>5. PICK h : SumsTo(h, m)
      BY <2>4
    <2>6. PICK g : SumsTo(g, k)
      BY <1>3, <2>3, <2>5
    <2> QED
      BY <2>1, <2>6
  <1>5. PICK h : SumsTo(h, Len(s) + 1)
    <2>1. Len(s) + 1 \in Nat
      BY <1>1
    <2> HIDE DEF SumsTo
    <2> QED
      BY <1>4, <2>1
  <1>6. PICK f : f = [i \in 0 .. Len(s) |-> h[i]]
    OBVIOUS
  <1>7. ASSUME NEW i \in 0 .. Len(s)
        PROVE  h[i] = IF i = 0 THEN 0 ELSE f[i - 1] + s[i].size
    <2>1. i # 0 => i - 1 \in 0 .. Len(s)
      BY <1>1
    <2>2. i < Len(s) + 1
      BY <1>1
    <2> QED
      BY <1>5, <1>6, <2>1, <2>2
  <1> QED
    BY <1>6, <1>7 DEF Sums

LEMMA SumUnique ==
  ASSUME NEW s \in Seq(Block), NEW k \in 0 .. Len(s), NEW t \in Seq(Block), k <= Len(t),
         \A i \in 1 .. k : s[i] = t[i], NEW f, NEW g, Sums(f, s), Sums(g, t)
  PROVE  f[k] = g[k]
  <1> DEFINE Bad == {i \in 0 .. k : f[i] # g[i]}
  <1>1. Len(s) \in Nat /\ Len(t) \in Nat
    OBVIOUS
  <1>2. ASSUME NEW i \in 0 .. k
        PROVE  /\ f[i] = IF i = 0 THEN 0 ELSE f[i - 1] + s[i].size
               /\ g[i] = IF i = 0 THEN 0 ELSE g[i - 1] + t[i].size
    <2>1. i \in 0 .. Len(s) /\ i \in 0 .. Len(t)
      BY <1>1
    <2> QED
      BY <2>1 DEF Sums
  <1>3. Bad = {}
    <2> SUFFICES ASSUME Bad # {} PROVE FALSE
      OBVIOUS
    <2>1. Bad \in SUBSET Nat
      OBVIOUS
    <2>2. PICK i \in Bad : \A j \in Bad : i <= j
      BY <2>1, LeastNatural
    <2>3. i \in 0 .. k /\ f[i] # g[i]
      OBVIOUS
    <2>4. i # 0
      BY <1>2, <2>3
    <2>5. i - 1 \in 0 .. k /\ i \in 1 .. k /\ i - 1 < i
      BY <2>3, <2>4
    <2>6. f[i - 1] = g[i - 1]
      BY <2>2, <2>5
    <2> QED
      BY <1>2, <2>3, <2>4, <2>5, <2>6
  <1> QED
    BY <1>3

LEMMA TotalSums ==
  ASSUME NEW s \in Seq(Block)
  PROVE  \E f : Sums(f, s) /\ Total(s) = f[Len(s)]
  <1> DEFINE P(g) == Sums(g, s)
  <1>1. Total(s) = (CHOOSE g : P(g))[Len(s)]
    BY DEF Total, Sums
  <1>2. \E g : P(g)
    BY SumExists
  <1> HIDE DEF P
  <1>3. P(CHOOSE g : P(g))
    BY <1>2
  <1> QED
    BY <1>1, <1>3 DEF P

LEMMA TotalEmpty == Total(<< >>) = 0
  <1>1. << >> \in Seq(Block) /\ Len(<< >>) = 0
    OBVIOUS
  <1>2. PICK f : Sums(f, << >>) /\ Total(<< >>) = f[Len(<< >>)]
    BY <1>1, TotalSums
  <1> QED
    BY <1>1, <1>2 DEF Sums

LEMMA TotalAppend ==
  ASSUME NEW s \in Seq(Block), NEW b \in Block
  PROVE  Total(Append(s, b)) = Total(s) + b.size
  <1>1. PICK t : t = Append(s, b)
    OBVIOUS
  <1>2. /\ t \in Seq(Block) /\ Len(t) = Len(s) + 1 /\ Len(s) \in Nat
        /\ t[Len(s) + 1] = b /\ \A i \in 1 .. Len(s) : s[i] = t[i]
    BY <1>1
  <1>3. PICK f : Sums(f, s) /\ Total(s) = f[Len(s)]
    BY TotalSums
  <1>4. PICK g : Sums(g, t) /\ Total(t) = g[Len(t)]
    BY <1>2, TotalSums
  <1>5. f[Len(s)] = g[Len(s)]
    <2>1. PICK k : k = Len(s)
      OBVIOUS
    <2>2. k \in 0 .. Len(s) /\ k <= Len(t) /\ t \in Seq(Block) /\ \A i \in 1 .. k : s[i] = t[i]
      BY <1>2, <2>1
    <2>3. f[k] = g[k]
      BY <1>3, <1>4, <2>2, SumUnique
    <2> QED
      BY <2>1, <2>3
  <1>6. g[Len(s) + 1] = g[Len(s)] + b.size
    <2>1. Len(s) + 1 \in 0 .. Len(t) /\ Len(s) + 1 # 0 /\ (Len(s) + 1) - 1 = Len(s)
      BY <1>2
    <2>2. g = [i \in 0 .. Len(t) |-> IF i = 0 THEN 0 ELSE g[i - 1] + t[i].size]
      BY <1>4 DEF Sums
    <2> QED
      BY <1>2, <2>1, <2>2
  <1> QED
    BY <1>1, <1>2, <1>3, <1>4, <1>5, <1>6

-----------------------------------------------------------------------------
(* The header.                                                             *)

(* The width of the header holds the size of the buffer.                   *)
LEMMA WordTypeHolds ==
  ASSUME NEW b \in Buffers
  PROVE  WordType(b) \in WordTypes /\ b \in Nat /\ b < Mods[WordType(b)]
  <1> DEFINE Fits(w) == b < Mods[w] /\ \A v \in WordTypes : v < w => b >= Mods[v]
  <1>1. b \in Nat /\ b < Mods[3] /\ \A w \in WordTypes : Mods[w] \in Nat
    BY DEF ArgMod, WordTypes
  <1>2. \E w \in WordTypes : Fits(w)
    <2>1. CASE b < Mods[1]
      <3>1. Fits(1)
        BY <2>1 DEF WordTypes
      <3> QED
        BY <3>1 DEF WordTypes
    <2>2. CASE b >= Mods[1] /\ b < Mods[2]
      <3>1. Fits(2)
        BY <2>2 DEF WordTypes
      <3> QED
        BY <3>1 DEF WordTypes
    <2>3. CASE b >= Mods[1] /\ b >= Mods[2]
      <3>1. Fits(3)
        BY <1>1, <2>3 DEF WordTypes
      <3> QED
        BY <3>1 DEF WordTypes
    <2> QED
      BY <1>1, <2>1, <2>2, <2>3 DEF WordTypes
  <1>3. WordType(b) = CHOOSE w \in WordTypes : Fits(w)
    BY DEF WordType
  <1> HIDE DEF Fits
  <1>4. WordType(b) \in WordTypes /\ Fits(WordType(b))
    BY <1>2, <1>3
  <1> QED
    BY <1>1, <1>4 DEF Fits

(* The header and its capacity are the buffer, nothing is cut off.         *)
HeaderInv ==
  /\ TypeOK
  /\ word = WordType(buffer)
  /\ capacity = Capacity(buffer, word)

(* What was handed out is what the size field counts.                      *)
AllocInv == HeaderInv /\ BytesOut = size

LEMMA HeaderFacts ==
  ASSUME HeaderInv
  PROVE  /\ buffer \in Nat /\ buffer < Mods[word] /\ word \in WordTypes
         /\ Mods[word] \in Nat \ {0} /\ MetaSizes[word] \in Nat
         /\ capacity \in Nat /\ capacity < Mods[word] /\ size \in Nat /\ size <= capacity
         /\ Mods[word] <= ArgMod /\ ArgMod \in Nat \ {0}
         /\ MetaSizes[word] <= buffer => capacity = buffer - MetaSizes[word]
         /\ HeadersFit => MetaSizes[word] <= buffer
  <1>1. /\ buffer \in Buffers /\ word = WordType(buffer) /\ word \in WordTypes
        /\ capacity \in 0 .. Mods[word] - 1 /\ size \in 0 .. capacity
        /\ capacity = Capacity(buffer, word)
    BY DEF HeaderInv, TypeOK
  <1>2. buffer \in Nat /\ buffer < Mods[word]
    BY <1>1, WordTypeHolds
  <1>3. Mods[word] \in Nat \ {0} /\ MetaSizes[word] \in Nat
    BY <1>1
  <1>4. Mods[word] <= ArgMod /\ ArgMod \in Nat \ {0}
    BY <1>1 DEF ArgMod, WordTypes
  <1>5. ASSUME MetaSizes[word] <= buffer PROVE capacity = buffer - MetaSizes[word]
    <2>1. PICK rest \in Nat : rest = buffer - MetaSizes[word] /\ rest < Mods[word]
      BY <1>2, <1>3, <1>5
    <2> QED
      BY <1>1, <1>3, <2>1 DEF Capacity
  <1>6. HeadersFit => MetaSizes[word] <= buffer
    BY <1>1 DEF HeadersFit
  <1> QED
    BY <1>1, <1>2, <1>3, <1>4, <1>5, <1>6

LEMMA InitHeader == Init => AllocInv
  <1> SUFFICES ASSUME Init PROVE AllocInv
    OBVIOUS
  <1>1. WordType(buffer) \in WordTypes
    BY WordTypeHolds DEF Init
  <1>2. Mods[word] \in Nat \ {0} /\ MetaSizes[word] \in Nat /\ buffer \in Nat
    BY <1>1, WordTypeHolds DEF Init
  <1>3. capacity \in 0 .. Mods[word] - 1
    <2>1. buffer - MetaSizes[word] \in Int
      BY <1>2
    <2> QED
      BY <1>2, <2>1, ModType DEF Init, Capacity
  <1>4. << >> \in Seq(Block)
    OBVIOUS
  <1>5. TypeOK
    BY <1>1, <1>3, <1>4 DEF Init, TypeOK
  <1> QED
    BY <1>5, TotalEmpty DEF Init, AllocInv, HeaderInv, BytesOut

(* mc_memlin_alloc stores the sum whole: it is at most the capacity, which *)
(* the width of the header holds.                                          *)
LEMMA AllocStores ==
  ASSUME HeaderInv, NEW n \in Requests, Alloc(n)
  PROVE  /\ size' = (size + n) % ArgMod /\ size' <= capacity /\ size' \in Nat
         /\ blocks' = Append(blocks, [at |-> 0, size |-> n])
         /\ [at |-> 0, size |-> n] \in Block /\ blocks \in Seq(Block)
         /\ UNCHANGED <<buffer, word, capacity>>
  <1>1. PICK sum : sum = (size + n) % ArgMod
    OBVIOUS
  <1>2. /\ sum <= capacity /\ size' = sum % Mods[word]
        /\ blocks' = Append(blocks, [at |-> 0, size |-> n])
        /\ UNCHANGED <<buffer, word, capacity>>
    BY <1>1 DEF Alloc, HasRoom, SetSize, GetData
  <1>3. /\ n \in Nat /\ size \in Nat /\ capacity \in Nat /\ capacity < Mods[word]
        /\ Mods[word] \in Nat \ {0} /\ ArgMod \in Nat \ {0}
    BY HeaderFacts
  <1>4. sum \in Nat
    BY <1>1, <1>3, ModType
  <1>5. sum % Mods[word] = sum
    <2>1. PICK m \in Nat \ {0} : m = Mods[word]
      BY <1>3
    <2>2. sum < m
      BY <1>2, <1>3, <1>4, <2>1
    <2> QED
      BY <1>4, <2>1, <2>2
  <1>6. blocks \in Seq(Block)
    BY DEF HeaderInv, TypeOK
  <1> QED
    BY <1>1, <1>2, <1>4, <1>5, <1>6 DEF Block

LEMMA StepHeader == HeaderInv /\ [Next]_vars => HeaderInv'
  <1> SUFFICES ASSUME HeaderInv, [Next]_vars PROVE HeaderInv'
    OBVIOUS
  <1>1. ASSUME NEW n \in Requests, Alloc(n) PROVE HeaderInv'
    <2>1. /\ size' <= capacity /\ size' \in Nat
          /\ blocks' = Append(blocks, [at |-> 0, size |-> n])
          /\ [at |-> 0, size |-> n] \in Block /\ blocks \in Seq(Block)
          /\ UNCHANGED <<buffer, word, capacity>>
      BY <1>1, AllocStores
    <2>3. blocks' \in Seq(Block)
      BY <2>1
    <2>2. size' \in 0 .. capacity
      BY <2>1, HeaderFacts
    <2> QED
      BY <2>1, <2>2, <2>3 DEF HeaderInv, TypeOK
  <1>2. ASSUME Clear PROVE HeaderInv'
    <2>1. size' = 0
      BY <1>2, HeaderFacts DEF Clear, SetSize
    <2>2. size' \in 0 .. capacity
      BY <2>1, HeaderFacts
    <2> QED
      BY <1>2, <2>2 DEF Clear, HeaderInv, TypeOK
  <1>3. CASE UNCHANGED vars
    BY <1>3 DEF vars, HeaderInv, TypeOK
  <1> QED
    BY <1>1, <1>2, <1>3 DEF Next

LEMMA StepAlloc ==
  ASSUME SumsFit, HeadersFit
  PROVE  AllocInv /\ [Next]_vars => AllocInv'
  <1> SUFFICES ASSUME AllocInv, [Next]_vars PROVE BytesOut' = size'
    BY StepHeader DEF AllocInv
  <1>1. HeaderInv /\ BytesOut = size
    BY DEF AllocInv
  <1>2. ASSUME NEW n \in Requests, Alloc(n) PROVE BytesOut' = size'
    <2>1. /\ n \in Nat /\ size \in Nat /\ size <= capacity /\ capacity \in Nat /\ ArgMod \in Nat \ {0}
          /\ capacity = buffer - MetaSizes[word]
      BY <1>1, HeaderFacts
    <2>2. buffer - MetaSizes[word] + n < ArgMod
      BY <1>1 DEF SumsFit, HeaderInv, TypeOK
    <2>3. (size + n) % ArgMod = size + n
      BY <2>1, <2>2
    <2>4. /\ size' = size + n
          /\ blocks' = Append(blocks, [at |-> 0, size |-> n])
          /\ [at |-> 0, size |-> n] \in Block /\ blocks \in Seq(Block)
      BY <1>1, <1>2, <2>3, AllocStores
    <2>5. Total(blocks') = Total(blocks) + n
      BY <2>4, TotalAppend
    <2> QED
      BY <1>1, <2>4, <2>5 DEF BytesOut
  <1>3. ASSUME Clear PROVE BytesOut' = size'
    <2>1. size' = 0
      BY <1>1, <1>3, HeaderFacts DEF Clear, SetSize
    <2> QED
      BY <1>3, <2>1, TotalEmpty DEF Clear, BytesOut
  <1>4. CASE UNCHANGED vars
    BY <1>1, <1>4 DEF vars, BytesOut
  <1> QED
    BY <1>2, <1>3, <1>4 DEF Next

(* In every buffer that holds its header, whatever the widths, capacity    *)
(* says how many bytes are left beside the header, all of them, and size   *)
(* never passes it, whatever is asked for.                                 *)
THEOREM HeaderCorrect == Spec => [](HeaderWhole /\ size <= capacity)
  <1>1. Init => HeaderInv
    BY InitHeader DEF AllocInv
  <1>2. HeaderInv => HeaderWhole /\ size <= capacity
    <2> SUFFICES ASSUME HeaderInv PROVE HeaderWhole /\ size <= capacity
      OBVIOUS
    <2>1. /\ buffer \in Nat /\ MetaSizes[word] \in Nat /\ size <= capacity
          /\ MetaSizes[word] <= buffer => capacity = buffer - MetaSizes[word]
      BY HeaderFacts
    <2> QED
      BY <2>1 DEF HeaderWhole
  <1> QED
    BY <1>1, <1>2, StepHeader, PTL DEF Spec

(* The types of the header and the list of blocks.                         *)
THEOREM HeaderTypes == Spec => []TypeOK
  <1>1. Init => HeaderInv
    BY InitHeader DEF AllocInv
  <1>2. HeaderInv => TypeOK
    BY DEF HeaderInv
  <1> QED
    BY <1>1, <1>2, StepHeader, PTL DEF Spec

(* What was handed out since the last clear fits in the caller's buffer    *)
(* beside the header, provided that no request is so large that the sum in *)
(* mc_memlin_alloc wraps.                                                  *)
THEOREM BlocksFit ==
  ASSUME HeadersFit, SumsFit
  PROVE  Spec => []FitsBuffer
  <1>1. AllocInv => FitsBuffer
    <2> SUFFICES ASSUME AllocInv PROVE FitsBuffer
      OBVIOUS
    <2>1. BytesOut = size /\ HeaderInv
      BY DEF AllocInv
    <2>2. /\ size \in Nat /\ size <= capacity /\ capacity \in Nat /\ MetaSizes[word] \in Nat
          /\ buffer \in Nat /\ capacity = buffer - MetaSizes[word]
      BY <2>1, HeaderFacts
    <2> QED
      BY <2>1, <2>2 DEF FitsBuffer
  <1> QED
    BY <1>1, InitHeader, StepAlloc, PTL DEF Spec

(* A request is refused exactly if there is no room for it beside the      *)
(* blocks handed out since the last clear and the header that was chosen,  *)
(* however close the buffer is to the limit of a width.  That a narrower   *)
(* header would leave more room is not excluded.                           *)
THEOREM RefusesRightly ==
  ASSUME HeadersFit, SumsFit
  PROVE  Spec => []RefusesIffFull
  <1>1. AllocInv => RefusesIffFull
    <2> SUFFICES ASSUME AllocInv, NEW n \in Requests
                 PROVE  HasRoom(n) <=> BytesOut + n + MetaSizes[word] <= buffer
      BY DEF RefusesIffFull
    <2>1. BytesOut = size /\ HeaderInv
      BY DEF AllocInv
    <2>2. /\ n \in Nat /\ size \in Nat /\ size <= capacity /\ capacity \in Nat
          /\ MetaSizes[word] \in Nat /\ buffer \in Nat /\ ArgMod \in Nat \ {0}
          /\ capacity = buffer - MetaSizes[word]
      BY <2>1, HeaderFacts
    <2>3. capacity + n < ArgMod
      BY <2>1, <2>2 DEF SumsFit, HeaderInv, TypeOK
    <2>4. (size + n) % ArgMod = size + n
      BY <2>2, <2>3
    <2> QED
      BY <2>1, <2>2, <2>4 DEF HasRoom
  <1> QED
    BY <1>1, InitHeader, StepAlloc, PTL DEF Spec
=============================================================================
