------------------------------ MODULE Message -------------------------------
(***************************************************************************)
(* The message layer of src/src/io/message/mc_message.c: one endpoint      *)
(* sends messages, the other reads them out of the byte stream between     *)
(* them and calls the callback subscribed to their id.                     *)
(*                                                                         *)
(* The stream is what mc_comm provides (Stream.tla): mc_comm_send puts its *)
(* data in piece by piece as there is room, mc_comm_recv takes out some of *)
(* it, in order.  A step of the sender is one iteration of the loop of     *)
(* mc_comm_send; a step of the receiver is a whole mc_msg_update, between  *)
(* the reads of which the sender could only have added bytes.              *)
(*                                                                         *)
(* A byte is its message and its place in it.  What a header reads that is *)
(* not the header of one message is a free choice.                         *)
(***************************************************************************)
EXTENDS Integers, SequencesExt

CONSTANTS
  HeaderSize,    \* sizeof(pkt_hdr)
  SizeMod,       \* 2^16: pkt_hdr.size is a uint16_t
  PoolSize,      \* config.pool_size
  Segment,       \* the payload of a packet
  LinkCapacity,  \* the bytes that mc_comm holds
  MsgIds,        \* the message ids in use
  IdsCapacity,   \* config.ids_capacity
  Sizes,         \* the sizes of the messages sent; 0 is a signal
  MaxMessages,   \* bound: the messages ever sent
  TimesOut       \* whether a timeout of mc_msg_send may expire

ASSUME LayoutAssumption ==
  /\ HeaderSize \in Nat \ {0} /\ SizeMod \in Nat \ {0}
  /\ PoolSize \in Nat /\ PoolSize >= HeaderSize
ASSUME TableAssumption ==
  MsgIds # {} /\ MsgIds \subseteq Int /\ IdsCapacity \in Nat \ {0}
ASSUME LinkAssumption == Segment \in Nat \ {0} /\ LinkCapacity \in Nat
ASSUME TrafficAssumption ==
  Sizes \subseteq Nat /\ MaxMessages \in Nat /\ TimesOut \in BOOLEAN

VARIABLES
  sent,      \* history: the messages passed to mc_msg_send, how many bytes
             \* mc_comm_send has put into the stream of each, and after how
             \* many others
  sending,   \* mc_msg_send is under way with the last of them
  stream,    \* the bytes mc_comm has accepted and not yet handed over
  stored,    \* recv_pool_stored
  pool,      \* the bytes in recv_pool
  hdr,       \* what the header in recv_pool reads
  handled,   \* history: what mc_msg_update did with the messages it met
  slots,     \* the subscription table ...
  subscribed \* ... and the number of its entries

senderVars == <<sent, sending>>
receiverVars == <<stored, pool, hdr, handled>>
tableVars == <<slots, subscribed>>
vars == <<senderVars, stream, receiverVars, tableVars>>

Table == INSTANCE SortedArray WITH
           Keys <- MsgIds, Capacity <- IdsCapacity, data <- slots, count <- subscribed

Header == [id : MsgIds, size : 0 .. SizeMod - 1]
NoHeader == [id |-> 0, size |-> 0]
Byte == [msg : 1 .. MaxMessages, at : Nat]

TypeOK ==
  /\ sent \in Seq([id : MsgIds, size : Sizes, put : Nat, from : Nat]) /\ sending \in BOOLEAN
  /\ stream \in Seq(Byte) /\ Len(stream) <= LinkCapacity
  /\ stored \in 0 .. HeaderSize + SizeMod
  /\ pool \in Seq(Byte) /\ Len(pool) <= PoolSize
  /\ hdr \in Header \cup {NoHeader}
  /\ handled \in Seq([how : {"called", "ignored", "dropped"}, id : MsgIds,
                      size : 0 .. SizeMod - 1, body : Seq(Byte)])
  /\ Table!TypeOK

Init ==
  /\ sent = << >> /\ sending = FALSE
  /\ stream = << >>
  /\ stored = 0 /\ pool = << >> /\ hdr = NoHeader /\ handled = << >>
  /\ Table!Init

Smaller(a, b) == IF a <= b THEN a ELSE b

-----------------------------------------------------------------------------
(* The bytes of message m from place a up to place b.                      *)
Bytes(m, a, b) == [i \in 1 .. b - a |-> [msg |-> m, at |-> a + i - 1]]

(* The bytes that mc_comm_send has accepted so far, and mc_comm_recv has   *)
(* handed over.                                                            *)
Accepted == IF sent = << >> THEN 0 ELSE Last(sent).from + Last(sent).put
Taken == Accepted - Len(stream)

(* mc_msg_send, or mc_msg_signal for size 0.                               *)
MsgSend(id, size) ==
  /\ ~sending
  /\ Len(sent) < MaxMessages
  /\ sent' = Append(sent, [id |-> id, size |-> size, put |-> 0, from |-> Accepted])
  /\ sending' = TRUE
  /\ UNCHANGED <<stream, receiverVars, tableVars>>

(* The next piece of the header, or of the body, of message m.             *)
Piece(m) ==
  Smaller((IF m.put < HeaderSize THEN HeaderSize ELSE HeaderSize + m.size) - m.put, Segment)

(* The loop of mc_comm_send looks at the time after it has written, so a   *)
(* timeout may also follow the last byte; mc_msg_send then returns.        *)
SendSegment(late) ==
  LET m == Last(sent)
      next == m.put + Piece(m)
  IN  /\ sending
      /\ Len(stream) + Piece(m) <= LinkCapacity
      /\ stream' = stream \o Bytes(Len(sent), m.put, next)
      /\ sent' = [sent EXCEPT ![Len(sent)].put = next]
      /\ sending' = (~late /\ next # HeaderSize + m.size)
      /\ UNCHANGED <<receiverVars, tableVars>>

(* A timeout while mc_comm has no room: packets in flight hold whole       *)
(* windows, so that may be with any number of bytes in the stream.         *)
SendGivesUp ==
  /\ sending
  /\ sending' = FALSE
  /\ UNCHANGED <<sent, stream, receiverVars, tableVars>>
-----------------------------------------------------------------------------
(* What mc_comm_recv may return when it is asked for size bytes.           *)
Recv(size, avail) == 0 .. Smaller(size, avail)

Skip(n) == SubSeq(stream, n + 1, Len(stream))

(* What the first HeaderSize bytes of the pool read.                       *)
Headers(bytes) ==
  LET m == bytes[1].msg
  IN  IF bytes = Bytes(m, 0, HeaderSize)
      THEN {[id |-> sent[m].id, size |-> sent[m].size % SizeMod]}
      ELSE Header

Expected(h) == HeaderSize + h.size

(* Mutant: the header needs no room.                                       *)
TooLargeBody(h) == PoolSize < h.size

TooLarge(h) == PoolSize < Expected(h)

(* dispatch_received: the element that mc_sarray_find returns, if its id   *)
(* is the one looked for.  Mutant: without the second test.                *)
FindsAny(id) == Table!Find(id) # subscribed
Finds(id) == Table!Find(id) # subscribed /\ slots[Table!Find(id)] = id

Handle(how, h, bytes) ==
  handled' = Append(handled, [how |-> how, id |-> h.id, size |-> h.size, body |-> bytes])

(* Mutants: what was dropped is taken for the whole message; recv_pool_    *)
(* stored is not reset after the last of it.                               *)
DropOnce(h, had, header, k) ==
  LET n == Smaller(PoolSize - HeaderSize, Expected(h) - had)
  IN  \E r \in Recv(n, Len(stream) - k) :
        /\ pool' = header \o SubSeq(stream, k + 1, k + r)
        /\ stream' = Skip(k + r)
        /\ stored' = 0
        /\ Handle("dropped", h, << >>)
DropForever(h, had, header, k) ==
  LET n == Smaller(PoolSize - HeaderSize, Expected(h) - had)
  IN  \E r \in Recv(n, Len(stream) - k) :
        /\ pool' = header \o SubSeq(stream, k + 1, k + r)
        /\ stream' = Skip(k + r)
        /\ stored' = had + r
        /\ UNCHANGED handled

(* drop_message for a message with header h of which `had' bytes were      *)
(* received, after k bytes were read in this update: what it reads goes to *)
(* the place behind the header, again and again.                           *)
DropMessage(h, had, header, k) ==
  LET n == Smaller(PoolSize - HeaderSize, Expected(h) - had)
  IN  \E r \in Recv(n, Len(stream) - k) :
        /\ pool' = header \o SubSeq(stream, k + 1, k + r)
        /\ stream' = Skip(k + r)
        /\ IF had + r = Expected(h)
           THEN stored' = 0 /\ Handle("dropped", h, << >>)
           ELSE stored' = had + r /\ UNCHANGED handled

(* is_message_stored, and dispatch_received once the last byte is there.   *)
StoreMessage(h, had, before, k) ==
  \E r \in Recv(Expected(h) - had, Len(stream) - k) :
    LET bytes == before \o SubSeq(stream, k + 1, k + r)
    IN  /\ pool' = bytes
        /\ stream' = Skip(k + r)
        /\ IF had + r = Expected(h)
           THEN /\ stored' = 0
                /\ Handle(IF Finds(h.id) THEN "called" ELSE "ignored", h,
                          SubSeq(bytes, HeaderSize + 1, Len(bytes)))
           ELSE stored' = had + r /\ UNCHANGED handled

(* The part of mc_msg_update behind the header.                            *)
Body(h, had, before, k) ==
  /\ hdr' = h
  /\ IF TooLarge(h)
     THEN DropMessage(h, had, SubSeq(before, 1, HeaderSize), k)
     ELSE StoreMessage(h, had, before, k)

(* The bytes of the pool that count: recv_pool_stored of them.             *)
Collected == IF stored = 0 THEN << >> ELSE pool

(* mc_msg_update: read_message_header gets a part of the header ...        *)
UpdateReadsHeader ==
  /\ stored < HeaderSize
  /\ \E r \in Recv(HeaderSize - stored, Len(stream)) \ {HeaderSize - stored} :
       /\ pool' = Collected \o SubSeq(stream, 1, r)
       /\ stream' = Skip(r)
       /\ stored' = stored + r
  /\ UNCHANGED <<hdr, handled, senderVars, tableVars>>

(* ... or the rest of it, and the update goes on with the body ...         *)
UpdateEndsHeader ==
  LET k == HeaderSize - stored
      bytes == Collected \o SubSeq(stream, 1, k)
  IN  /\ stored < HeaderSize
      /\ k <= Len(stream)
      /\ \E h \in Headers(bytes) : Body(h, HeaderSize, bytes, k)
      /\ UNCHANGED <<senderVars, tableVars>>

(* ... or the header was there before.                                     *)
UpdateReadsBody ==
  /\ stored >= HeaderSize
  /\ Body(hdr, stored, pool, 0)
  /\ UNCHANGED <<senderVars, tableVars>>

MsgUpdate == UpdateReadsHeader \/ UpdateEndsHeader \/ UpdateReadsBody
-----------------------------------------------------------------------------
Subscribe(id) ==
  Table!Insert(id) /\ UNCHANGED <<senderVars, stream, receiverVars>>

Unsubscribe(id) ==
  Table!Remove(id) /\ UNCHANGED <<senderVars, stream, receiverVars>>

Next ==
  \/ \E id \in MsgIds, size \in Sizes : MsgSend(id, size)
  \/ \E late \in {FALSE, TimesOut} : SendSegment(late)
  \/ TimesOut /\ SendGivesUp
  \/ MsgUpdate
  \/ \E id \in MsgIds : Subscribe(id) \/ Unsubscribe(id)

Spec == Init /\ [][Next]_vars

(* mc_msg_update is called again and again (message/api.md:77) and gets    *)
(* some of what is there; a send under way goes on.                        *)
FairSpec == Spec /\ WF_vars(MsgUpdate /\ stream' # stream) /\ WF_vars(SendSegment(FALSE))

-----------------------------------------------------------------------------
BodyOf(m) == Bytes(m, HeaderSize, HeaderSize + sent[m].size)

(* mc_msg_update met message i as it was sent: with all its bytes if it    *)
(* fits the pool, and else dropped.                                        *)
MetAsSent(i) ==
  /\ handled[i].id = sent[i].id /\ handled[i].size = sent[i].size
  /\ IF HeaderSize + sent[i].size > PoolSize
     THEN handled[i].how = "dropped"
     ELSE handled[i].how # "dropped" /\ handled[i].body = BodyOf(i)

(* All of message m went into the stream; all of the first n did.          *)
Whole(m) == sent[m].put = HeaderSize + sent[m].size
WholeUpTo(n) == \A m \in 1 .. n : m \in DOMAIN sent /\ Whole(m)

(* mc_msg_update meets the messages as they were sent, one by one and in   *)
(* order, however the reads cut them, and drops one that is too large to   *)
(* its last byte and not one further.  A mc_msg_send that times out inside *)
(* a message does not harm the messages before.                            *)
IntactUntilCut == \A i \in DOMAIN handled : WholeUpTo(i) => MetAsSent(i)

(* The send of message m ended without having put all of it in the stream. *)
CutAt(m) == ~Whole(m) /\ (m < Len(sent) \/ ~sending)

(* The stream holds the last bytes that were put into it, in their order.  *)
StreamInPlace ==
  /\ \A m \in DOMAIN sent :
       /\ sent[m].put <= HeaderSize + sent[m].size
       /\ m < Len(sent) => sent[m + 1].from = sent[m].from + sent[m].put
       /\ \A n \in m + 1 .. Len(sent) : sent[m].from + sent[m].put <= sent[n].from
  /\ \A j \in DOMAIN stream :
       LET b == stream[j]
       IN  /\ b.msg \in DOMAIN sent /\ b.at < sent[b.msg].put
           /\ sent[b.msg].from + b.at + 1 = Taken + j
  /\ sending => sent # << >> /\ ~Whole(Len(sent))

(* recv_pool_stored says how many bytes of the pool count, and never that  *)
(* a message is complete.                                                  *)
PoolInPlace ==
  /\ \A j \in DOMAIN pool : pool[j].msg \in DOMAIN sent
  /\ IF stored < HeaderSize
     THEN Len(Collected) = stored
     ELSE /\ hdr \in Header /\ stored < Expected(hdr)
          /\ IF TooLarge(hdr) THEN Len(pool) >= HeaderSize ELSE Len(pool) = stored

HeaderOf(m) == [id |-> sent[m].id, size |-> sent[m].size]

(* Why IntactUntilCut holds.  Unless a send was cut, the messages handled  *)
(* are the first ones sent, and recv_pool_stored is the place in the next  *)
(* one that the receiver has reached: the pool holds its bytes up to there *)
(* (only its header, if it is too large).                                  *)
InStep ==
  LET i == Len(handled)
      m == i + 1
  IN  /\ \A n \in 0 .. i : WholeUpTo(n) \/ \E c \in 1 .. n : c \in DOMAIN sent /\ CutAt(c)
      /\ WholeUpTo(i) =>
           IF i = Len(sent)
           THEN stored = 0 /\ stream = << >>
           ELSE /\ Taken = sent[m].from + stored
                /\ IF stored > sent[m].put
                   THEN m < Len(sent) /\ ~Whole(m)
                   ELSE IF stored < HeaderSize
                   THEN Collected = Bytes(m, 0, stored)
                   ELSE hdr = HeaderOf(m) /\ (~TooLarge(hdr) => pool = Bytes(m, 0, stored))

MessageInv == StreamInPlace /\ PoolInPlace /\ InStep

(* What the caller of mc_msg_send must see to for all this: a longer       *)
(* message does not fit the size of its header.                            *)
SizesFit == \A size \in Sizes : size < SizeMod

(* A callback is called for a message exactly if its id is in the table at *)
(* the time: dispatch_received meets every subscription, and does not call *)
(* the neighbour that mc_sarray_find returns for another id.               *)
CallsSubscriber ==
  [][\A h \in ToSet(handled') :
       Len(handled') > Len(handled) /\ h = Last(handled') /\ h.how # "dropped" =>
         (h.how = "called" <=> Table!Occurs(h.id) > 0)]_vars

Cut == \E m \in DOMAIN sent : CutAt(m)

(* "the receiver continues" (message/test.md:167): every message is met at *)
(* last, those that do not fit the pool included, unless one was cut.      *)
EveryMessageHandled ==
  \A n \in 1 .. MaxMessages : Len(sent) >= n ~> Len(handled) >= n \/ Cut
=============================================================================
