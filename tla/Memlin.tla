------------------------------- MODULE Memlin -------------------------------
(***************************************************************************)
(* The linear allocator of src/src/dsa/memory/memlin.c over one buffer.    *)
(* The header in front of the data has capacity and size fields of 8, 16   *)
(* or 32 bits, whichever mc_memlin_create finds enough for the size of the *)
(* buffer.                                                                 *)
(***************************************************************************)
EXTENDS Integers, Sequences

CONSTANTS
  Buffers,      \* the sizes of the buffers that are tried
  Mods,         \* the number of values of each width: 2^8, 2^16 and 2^32
  MetaSizes,    \* the size of the header with each width: 3, 5 and 9
  Requests,     \* the sizes asked for
  MaxBlocks     \* bound: blocks allocated between two clears

WordTypes == 1 .. 3
ArgMod == Mods[3]   \* sizes are uint32_t

ASSUME WidthsAssumption ==
  /\ Mods \in [WordTypes -> Nat \ {0}] /\ MetaSizes \in [WordTypes -> Nat]
  /\ \A w, v \in WordTypes : w < v => Mods[w] < Mods[v]
ASSUME SizesAssumption ==
  /\ Buffers \subseteq 1 .. ArgMod - 1 /\ Requests \subseteq 0 .. ArgMod - 1
  /\ MaxBlocks \in Nat

VARIABLES
  buffer,   \* the size of the caller's buffer
  word,     \* word_size of the header
  capacity, \* the capacity field of the header
  size,     \* its size field
  blocks    \* history: the blocks handed out since the last clear

vars == <<buffer, word, capacity, size, blocks>>

Block == [at : Nat, size : Requests]

(* Mutant: a mask is one bit short, and a width serves sizes it can't hold.*)
WordTypeNarrow(n) ==
  CHOOSE w \in WordTypes : n < 2 * Mods[w] /\ \A v \in WordTypes : v < w => n >= 2 * Mods[v]

(* get_word_type: the narrowest width that can hold n.  It is asked for    *)
(* the size of the whole buffer, so one of 256, 257 or 258 bytes gets the  *)
(* header of 16 bits, though what a header of 8 bits leaves would fit it.  *)
WordType(n) ==
  CHOOSE w \in WordTypes : n < Mods[w] /\ \A v \in WordTypes : v < w => n >= Mods[v]

(* init_08, init_16 and init_32: what is left, cut to the width.           *)
Capacity(n, w) == (n - MetaSizes[w]) % Mods[w]

TypeOK ==
  /\ buffer \in Buffers /\ word \in WordTypes
  /\ capacity \in 0 .. Mods[word] - 1
  /\ size \in 0 .. capacity
  /\ blocks \in Seq(Block)

(* mc_memlin_create.                                                       *)
Init ==
  /\ buffer \in Buffers
  /\ word = WordType(buffer)
  /\ capacity = Capacity(buffer, word)
  /\ size = 0
  /\ blocks = << >>

(* get_data ignores its index: every block starts where the data starts.   *)
GetData(index) == 0

(* set_size: cut to the width.                                             *)
SetSize(n) == size' = n % Mods[word]

(* Mutants: the size before the allocation is tested; the sum is cut to    *)
(* the width of the header before it is tested; >= for > in the test.      *)
HasRoomLate(n) == size <= capacity
HasRoomCut(n) == (size + n) % Mods[word] <= capacity
HasRoomStrict(n) == (size + n) % ArgMod < capacity

(* The test of mc_memlin_alloc, on the sum in 32 bits.                     *)
HasRoom(n) == (size + n) % ArgMod <= capacity

Alloc(n) ==
  /\ Len(blocks) < MaxBlocks
  /\ HasRoom(n)
  /\ blocks' = Append(blocks, [at |-> GetData(size), size |-> n])
  /\ SetSize((size + n) % ArgMod)
  /\ UNCHANGED <<buffer, word, capacity>>

(* mc_memlin_clear: the blocks handed out are given up.                    *)
Clear ==
  /\ SetSize(0)
  /\ blocks' = << >>
  /\ UNCHANGED <<buffer, word, capacity>>

Next == Clear \/ \E n \in Requests : Alloc(n)

Spec == Init /\ [][Next]_vars

-----------------------------------------------------------------------------
(* The bytes of the blocks in s.                                           *)
Total(s) ==
  LET sum[i \in 0 .. Len(s)] == IF i = 0 THEN 0 ELSE sum[i - 1] + s[i].size
  IN  sum[Len(s)]

BytesOut == Total(blocks)

(* What the code asks of its callers without testing it: every buffer      *)
(* holds its header, and no request is so large that its sum with the size *)
(* field wraps in mc_memlin_alloc.                                         *)
HeadersFit == \A b \in Buffers : MetaSizes[WordType(b)] <= b
SumsFit ==
  \A b \in Buffers, n \in Requests : b - MetaSizes[WordType(b)] + n < ArgMod

(* What has been handed out is what mc_memlin_get_size reports and never   *)
(* exceeds the caller's buffer, whatever width the header has and however  *)
(* close the buffer is to the limit of a width: neither mc_memlin_create   *)
(* nor set_size cuts anything off.                                         *)
FitsBuffer == BytesOut = size /\ BytesOut + MetaSizes[word] <= buffer

(* In a buffer that holds its header, mc_memlin_get_capacity is all of the *)
(* rest: the width that get_word_type finds from the size of the buffer is *)
(* never too narrow for the capacity that init_08 or init_16 casts to it.  *)
HeaderWhole ==
  MetaSizes[word] <= buffer => capacity + MetaSizes[word] = buffer

(* mc_memlin_alloc refuses a request exactly if the buffer lacks the bytes *)
(* behind the header and all that was handed out since the last clear.     *)
(* Nothing is said of the choice of the header, which is not always the    *)
(* smallest that would do (WordType).                                      *)
RefusesIffFull ==
  \A n \in Requests : HasRoom(n) <=> BytesOut + n + MetaSizes[word] <= buffer
=============================================================================
