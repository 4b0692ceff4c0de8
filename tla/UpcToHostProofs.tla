---------------------------- MODULE UpcToHostProofs ----------------------------
(***************************************************************************)
(* The device-to-host direction implements the packet channel.             *)
(*                                                                         *)
(* The invariant follows the data through the direction.  The receiver     *)
(* stands at the first byte of the packet it has to return next; from      *)
(* there its buffer, its queue, the transfer in_task hands over, the       *)
(* completed buffers of the endpoint, the one that is being filled, the    *)
(* USB packets on the wire and those out_task has still to queue are one   *)
(* chain, which ends where the queue of out_task begins.  As long as       *)
(* in_task of the host receives, the chain is whole; when it has stopped,  *)
(* what is in the queue of recv() is all there will be, and it ends at the *)
(* end of the stream unless something failed.                              *)
(***************************************************************************)
EXTENDS UpcToHost, UpcFramingProofs

-----------------------------------------------------------------------------
(* Where each stage begins                                                 *)

RxAt   == Pos(Len(got) + 1, 0)
QueueAt == FilledTo(RxAt, buffer)
HandAt == Behind(QueueAt, rxq, Mts)
BufsAt == Behind(HandAt, hand, Mts)
FillAt == Behind(BufsAt, bufs, Mts)
WireAt == FilledTo(FillAt, fill)
PartsAt == Behind(WireAt, wire, Mps)
TxAt   == Behind(PartsAt, parts, Mps)
Queued == Pos(Len(sent) - Len(txq) + 1, 0)
EndAt  == Pos(Len(sent) + 1, 0)

-----------------------------------------------------------------------------
(* The invariant                                                           *)

\* What the variables are, those that do not depend on the chain
DataTypes ==
    /\ sent \in Seq(Packets) /\ Len(sent) <= MaxPackets
    /\ txq \in Seq(Packets) /\ Len(txq) <= QueueLen
    /\ parts \in Seq(UsbData) /\ wire \in Seq(UsbData)
    /\ fill \in Piece /\ WholePackets(fill) /\ (fill.of = Nothing => fill = Empty)
    /\ bufs \in Seq(Piece) /\ Len(bufs) <= DmaBuffers
    /\ hand \in Seq(Piece) /\ Len(hand) <= 1
    /\ rxq \in Seq(Piece) /\ Len(rxq) <= QueueLen

ControlTypes ==
    /\ sender \in BOOLEAN /\ out_task \in BOOLEAN /\ halted \in BOOLEAN
    /\ in_task \in {"receiving", "closing", "done"} /\ initiated \in BOOLEAN
    /\ rx_alive \in BOOLEAN /\ ended \in {"no", "eof", "error"}
    /\ error \in BOOLEAN /\ dead \in BOOLEAN
    /\ send_closed \in BOOLEAN /\ recv_closed \in BOOLEAN /\ closed \in BOOLEAN
    /\ failed \in BOOLEAN /\ dev_failed \in BOOLEAN

Types == DataTypes /\ ControlTypes

\* The packets are numbered, none is larger than the receiver takes, and the
\* queue of out_task holds the last ones.
Sending ==
    /\ Stream(sent) /\ \A i \in 1..Len(sent) : sent[i].len <= MaxSize
    /\ Len(txq) <= Len(sent)
    /\ \A j \in 1..Len(txq) : txq[j] = sent[Len(sent) - Len(txq) + j]

\* What was received is what was sent first.
Received ==
    /\ Len(got) <= Len(sent) /\ got \in Seq(Packets)
    /\ \A i \in 1..Len(got) : got[i] = sent[i]

\* The receiver's part of the chain
Receiving ==
    /\ FilledFrom(RxAt, buffer, sent) /\ buffer \in Piece
    /\ (buffer.of = Nothing => buffer = Empty)
    /\ Chain(QueueAt, rxq, Mts, sent)
    /\ ~rx_alive => buffer = Empty /\ rxq = <<>>

\* The part of in_task and the endpoint, as long as it reaches the receiver
Whole == rx_alive /\ in_task = "receiving"
Carrying ==
    Whole =>
        /\ Chain(HandAt, hand, Mts, sent)
        /\ Chain(BufsAt, bufs, Mts, sent)
        /\ FilledFrom(FillAt, fill, sent)
        /\ Chain(WireAt, wire, Mps, sent)
        /\ Chain(PartsAt, parts, Mps, sent)

\* The chain ends where the queue begins, unless the device failed.
Linked == Whole /\ (out_task \/ ~dev_failed) => TxAt = Queued

\* out_task leaves a packet at the end of a transfer only.
Parted == parts # <<>> => parts[Len(parts)].ends

\* out_task has ended: what was still to be sent is gone or was flushed.
Stopped ==
    /\ ~out_task => parts = <<>> /\ txq = <<>>
    /\ ~out_task /\ ~dev_failed /\ in_task = "receiving" => ~sender /\ wire = <<>>
    /\ halted /\ in_task = "receiving" => ~out_task

\* in_task has ended: all was received, or recv() will report an error, or
\* the device failed.
Ending ==
    /\ in_task # "receiving" => hand = <<>>
    /\ in_task # "receiving" /\ rx_alive /\ ~error /\ ~dev_failed =>
         ~sender /\ HandAt = EndAt
    /\ recv_closed => in_task = "done"
    /\ dead => error
    /\ error => failed
    /\ ended # "no" => rxq = <<>> /\ in_task = "done"

ToHostInv ==
    /\ Types /\ Sending /\ Received /\ Receiving /\ Carrying /\ Linked
    /\ Parted /\ Stopped /\ Ending

-----------------------------------------------------------------------------
(* The choices of the code: the first USB packet that ends a transfer, the  *)
(* first short transfer                                                     *)

\* NextPart is a prefix of parts that is not empty.
LEMMA NextPartIsPrefix ==
  ASSUME Types, Parted, parts # <<>>
  PROVE  \E k \in 1..Len(parts) :
            NextPart = SubSeq(parts, 1, k) /\ Len(NextPart) = k
<1> DEFINE P(k) == parts[k].ends /\ \A j \in 1..(k - 1) : ~parts[j].ends
           T == {k \in 1..Len(parts) : parts[k].ends}
           c == CHOOSE k \in 1..Len(parts) : P(k)
<1>1. parts \in Seq(UsbData) /\ Len(parts) \in 1..Len(parts) /\ parts[Len(parts)].ends
  BY DEF Types, DataTypes, ControlTypes, Parted
<1>2. T \in SUBSET Nat /\ T # {}
  BY <1>1
<1>3. PICK n \in T : \A k \in T : n <= k
  <2> HIDE DEF T
  <2> QED
    BY <1>2, LeastNumber
<1>4. n \in 1..Len(parts) /\ P(n)
  BY <1>1, <1>3
<1>5. c \in 1..Len(parts)
  <2> HIDE DEF P
  <2> QED
    BY <1>4
<1>6. NextPart = SubSeq(parts, 1, c)
  BY DEF NextPart
<1> HIDE DEF c
<1>7. Len(SubSeq(parts, 1, c)) = c
  <2>1. SubSeq(parts, 1, c) = [j \in 1..c |-> parts[1 + j - 1]]
    BY <1>1, <1>5
  <2> QED
    BY <1>1, <1>5
<1> QED
  BY <1>5, <1>6, <1>7

\* A round of recv() takes the queue up to its first short transfer, or all.
LEMMA BatchIsFirstShort ==
  ASSUME Types, rxq # <<>>
  PROVE  /\ BatchLen \in 1..Len(rxq)
         /\ \A j \in 1..(BatchLen - 1) : ~IsShort(rxq[j])
         /\ ~IsShort(rxq[BatchLen]) => BatchLen = Len(rxq)
<1> DEFINE P(k) == IsShort(rxq[k]) /\ \A j \in 1..(k - 1) : ~IsShort(rxq[j])
           T == {k \in 1..Len(rxq) : IsShort(rxq[k])}
           c == CHOOSE k \in 1..Len(rxq) : P(k)
<1>1. rxq \in Seq(Piece) /\ Len(rxq) \in Nat \ {0}
  BY EmptyLen DEF Types, DataTypes, ControlTypes
<1>2. CASE T # {}
  <2>1. T \in SUBSET Nat
    BY <1>1
  <2>2. PICK n \in T : \A k \in T : n <= k
    <3> HIDE DEF T
    <3> QED
      BY <1>2, <2>1, LeastNumber
  <2>3. n \in 1..Len(rxq) /\ P(n)
    BY <1>1, <2>2
  <2>4. c \in 1..Len(rxq) /\ P(c)
    <3> HIDE DEF P
    <3> QED
      BY <2>3
  <2>5. BatchLen = c
    BY <1>2 DEF BatchLen
  <2> HIDE DEF c
  <2> QED
    BY <2>4, <2>5
<1>3. CASE T = {}
  <2>1. \A k \in 1..Len(rxq) : ~IsShort(rxq[k])
    BY <1>3
  <2>2. BatchLen = Len(rxq)
    BY <2>1 DEF BatchLen
  <2> QED
    BY <1>1, <2>1, <2>2
<1> QED
  BY <1>2, <1>3

\* What one round of recv() makes of the buffer and the queue: the beginning
\* of the next packet, up to the end of the last transfer it takes.
LEMMA RecvBatch ==
  ASSUME Types, Sending, Received, Receiving, rxq # <<>>
  PROVE  LET t == rxq[BatchLen]
             b == Joined(BatchLen)
         IN  /\ b = Data(Len(got) + 1, 0, t.from + t.len)
             /\ Len(got) + 1 \in DOMAIN sent
             /\ t.of = Len(got) + 1 /\ t.from \in Nat /\ t.len \in Nat
             /\ t.from + t.len <= sent[Len(got) + 1].len
             /\ ~TooBig(b)
             /\ IsShort(t) => b = sent[Len(got) + 1] /\ After(t, Mts) = Pos(Len(got) + 2, 0)
             /\ ~IsShort(t) => /\ BatchLen = Len(rxq)
                               /\ After(t, Mts) = Pos(Len(got) + 1, t.from + t.len)
<1> DEFINE k == BatchLen
           t == rxq[k]
           b == Joined(k)
           i == Len(got) + 1
<1>1. /\ k \in 1..Len(rxq) /\ \A j \in 1..(k - 1) : ~IsShort(rxq[j])
      /\ ~IsShort(t) => k = Len(rxq)
  BY BatchIsFirstShort
<1> HIDE DEF k
<1>2. /\ rxq \in Seq(Piece) /\ Chain(QueueAt, rxq, Mts, sent)
      /\ Len(got) \in Nat /\ i \in Nat \ {0}
      /\ buffer \in Piece /\ FilledFrom(RxAt, buffer, sent)
      /\ (buffer.of = Nothing => buffer = Empty)
  BY DEF Types, DataTypes, ControlTypes, Received, Receiving
<1>3. Mts \in Nat \ {0}
  BY FramingAssumption DEF Mts
<1>4. \A j \in 1..(k - 1) : rxq[j].len = Mts
  <2> SUFFICES ASSUME NEW j \in 1..(k - 1) PROVE rxq[j].len = Mts
    OBVIOUS
  <2>1. Fits(rxq[j], Mts, sent) /\ rxq[j].len >= Mts
    BY <1>1, <1>2, <1>3 DEF Chain, Fits, IsShort
  <2>2. sent[rxq[j].of].len \in Nat
    BY <2>1 DEF Fits, Sending, Stream
  <2> QED
    BY <2>1, <2>2, <1>3 DEF Fits
<1>5. QueueAt.of = i /\ QueueAt.at \in Nat
      /\ (buffer.of = Nothing => QueueAt = Pos(i, 0))
      /\ (buffer.of # Nothing => buffer.of = i /\ buffer.from = 0
                                 /\ QueueAt = Pos(i, buffer.len))
  <2>1. CASE buffer.of = Nothing
    BY <2>1, <1>2 DEF QueueAt, FilledTo, RxAt, Pos
  <2>2. CASE buffer.of # Nothing
    <3>1. Start(buffer) = RxAt /\ buffer.from \in Nat /\ buffer.len \in Nat
      BY <2>2, <1>2 DEF FilledFrom, Empty, Data, Nothing
    <3>2. buffer.of = i /\ buffer.from = 0
      BY <3>1 DEF Start, RxAt, Pos
    <3> QED
      BY <2>2, <3>1, <3>2 DEF QueueAt, FilledTo, Pos
  <2> QED
    BY <2>1, <2>2
<1>6. /\ \A j \in 1..(k - 1) : Adjacent(rxq[j], rxq[j + 1])
      /\ t.of = i /\ QueueAt.at <= t.from
  BY <1>1, <1>2, <1>3, <1>4, <1>5, ChainRun
<1>7. /\ t.from \in Nat /\ t.len \in Nat /\ i \in DOMAIN sent /\ sent[i].len \in Nat
      /\ t.from <= sent[i].len
      /\ t.len = IF sent[i].len - t.from >= Mts THEN Mts ELSE sent[i].len - t.from
  <2>1. Fits(t, Mts, sent)
    BY <1>1, <1>2 DEF Chain
  <2> QED
    BY <2>1, <1>6 DEF Fits, Sending, Stream
<1>8. b = Data(i, 0, t.from + t.len)
  <2>1. Start(rxq[1]) = QueueAt
    BY <1>1, <1>2 DEF Chain
  <2>2. CASE buffer.of = Nothing
    <3>1. rxq[1].of = i /\ rxq[1].from = 0
      BY <2>1, <2>2, <1>5 DEF Start, Pos
    <3>2. b = Data(rxq[1].of, rxq[1].from, t.from + t.len - rxq[1].from)
      BY <2>2, <1>6 DEF Joined
    <3> QED
      BY <3>1, <3>2, <1>7
  <2>3. CASE buffer.of # Nothing
    <3>1. Adjacent(buffer, rxq[1])
      BY <2>1, <2>3, <1>5, <1>2 DEF Start, Pos, Adjacent, Piece
    <3>2. b = Data(buffer.of, buffer.from, t.from + t.len - buffer.from)
      BY <2>3, <3>1, <1>6 DEF Joined
    <3> QED
      BY <2>3, <3>2, <1>5, <1>7
  <2> QED
    BY <2>2, <2>3
<1>9. t.from + t.len <= sent[i].len /\ ~TooBig(b)
  <2>1. t.from + t.len <= sent[i].len
    BY <1>7, <1>3
  <2>2. sent[i].len <= MaxSize
    BY <1>7 DEF Sending, Types, DataTypes, ControlTypes
  <2> QED
    BY <2>1, <2>2, <1>7, <1>8, FramingAssumption DEF TooBig, Data
<1>10. ASSUME IsShort(t) PROVE b = sent[i] /\ After(t, Mts) = Pos(Len(got) + 2, 0)
  <2>1. t.from + t.len = sent[i].len /\ t.len # Mts
    BY <1>3, <1>7, <1>10 DEF IsShort
  <2>2. sent[i] = Data(i, 0, sent[i].len)
    <3>1. sent[i] \in Packets /\ sent[i].of = i /\ sent[i].from = 0
      BY <1>7 DEF Types, DataTypes, ControlTypes, Sending, Stream
    <3> QED
      BY <3>1 DEF Packets, Data
  <2> QED
    BY <2>1, <2>2, <1>6, <1>8, <1>2 DEF After
<1>11. ASSUME ~IsShort(t) PROVE After(t, Mts) = Pos(i, t.from + t.len)
  BY <1>3, <1>6, <1>7, <1>11 DEF IsShort, After
<1> QED
  BY <1>1, <1>6, <1>7, <1>8, <1>9, <1>10, <1>11 DEF k

-----------------------------------------------------------------------------
(* The invariant holds                                                     *)

\* The invariant holds at the start: every stage is empty.
LEMMA ToHostInit ==
  ASSUME Init
  PROVE  ToHostInv
<1> USE FramingAssumption, PipeAssumption
<1>1. Empty \in Piece /\ WholePackets(Empty)
  <2>1. Empty.len = 0 * Mps /\ 0 \in 0..(TransferPackets - 1)
    BY DEF Empty, Data
  <2> QED
    BY <2>1 DEF Piece, Empty, Data, Nothing, WholePackets
<1>2. Types
  <2>1. fill \in Piece /\ WholePackets(fill) /\ (fill.of = Nothing => fill = Empty)
    BY <1>1 DEF Init
  <2>2. /\ sent \in Seq(Packets) /\ txq \in Seq(Packets) /\ parts \in Seq(UsbData)
        /\ wire \in Seq(UsbData) /\ bufs \in Seq(Piece) /\ hand \in Seq(Piece)
        /\ rxq \in Seq(Piece)
    BY DEF Init
  <2>3. /\ Len(sent) <= MaxPackets /\ Len(txq) <= QueueLen /\ Len(bufs) <= DmaBuffers
        /\ Len(hand) <= 1 /\ Len(rxq) <= QueueLen
    BY DEF Init
  <2> QED
    BY <2>1, <2>2, <2>3 DEF Init, Types, DataTypes, ControlTypes
<1>3. Sending /\ Received /\ Parted /\ Stopped /\ Ending
  BY DEF Init, Sending, Stream, Received, Parted, Stopped, Ending
<1>4. /\ RxAt = Pos(1, 0) /\ QueueAt = Pos(1, 0) /\ HandAt = Pos(1, 0) /\ BufsAt = Pos(1, 0)
      /\ FillAt = Pos(1, 0) /\ WireAt = Pos(1, 0) /\ PartsAt = Pos(1, 0) /\ TxAt = Pos(1, 0)
      /\ Queued = Pos(1, 0)
  BY DEF Init, RxAt, QueueAt, HandAt, BufsAt, FillAt, WireAt, PartsAt, TxAt, Queued,
         Behind, FilledTo, Empty, Data
<1>5. Receiving /\ Carrying
  BY <1>1, ChainEmpty DEF Init, Receiving, Carrying, FilledFrom
<1> QED
  BY <1>2, <1>3, <1>4, <1>5 DEF ToHostInv, Linked

\* A packet that is accepted is behind all others, and in the queue.
LEMMA ToHostSend ==
  ASSUME ToHostInv, Send
  PROVE  ToHostInv'
<1> USE PipeAssumption DEF ToHostInv
<1>1. PICK n \in Sizes :
         /\ n <= MaxSize /\ sent' = Append(sent, Data(Len(sent) + 1, 0, n))
         /\ txq' = Append(txq, Data(Len(sent) + 1, 0, n))
  BY DEF Send
<1> DEFINE x == Data(Len(sent) + 1, 0, n)
<1>2. /\ sender /\ out_task /\ Len(txq) < QueueLen /\ Len(sent) < MaxPackets
      /\ UNCHANGED <<sender, out_task, parts, halted, busVars, taskVars, rxVars,
                     errVars, halfVars, failed>>
  BY DEF Send
<1>3. /\ sent \in Seq(Packets) /\ txq \in Seq(Packets) /\ n \in Nat /\ x \in Packets
      /\ x.of = Len(sent) + 1 /\ x.from = 0 /\ x.len = n
  BY <1>2 DEF Types, DataTypes, ControlTypes, Packets, Data
<1>4. /\ sent' = Append(sent, x) /\ txq' = Append(txq, x)
  BY <1>1
<1> HIDE DEF x
<1>5. /\ sent' \in Seq(Packets) /\ Len(sent') = Len(sent) + 1 /\ sent'[Len(sent) + 1] = x
      /\ \A i \in 1..Len(sent) : sent'[i] = sent[i]
      /\ txq' \in Seq(Packets) /\ Len(txq') = Len(txq) + 1 /\ txq'[Len(txq) + 1] = x
      /\ \A i \in 1..Len(txq) : txq'[i] = txq[i]
      /\ Len(sent) \in Nat /\ Len(txq) \in Nat
  BY <1>3, <1>4
<1>6. Types'
  BY <1>2, <1>5 DEF Types, DataTypes, ControlTypes, busVars, taskVars, rxVars, errVars, halfVars
<1>7. Sending'
  <2>1. Stream(sent')
    <3>1. ASSUME NEW i \in DOMAIN sent'
          PROVE  sent'[i].of = i /\ sent'[i].from = 0 /\ sent'[i].len \in Nat
      <4>1. i \in 1..Len(sent) \/ i = Len(sent) + 1
        BY <1>5
      <4>2. CASE i \in 1..Len(sent)
        BY <4>2, <1>5 DEF Sending, Stream
      <4>3. CASE i = Len(sent) + 1
        BY <4>3, <1>3, <1>5
      <4> QED
        BY <4>1, <4>2, <4>3
    <3> QED
      BY <3>1 DEF Stream
  <2>2. \A i \in 1..Len(sent') : sent'[i].len <= MaxSize
    BY <1>1, <1>3, <1>5 DEF Sending
  <2>3. ASSUME NEW j \in 1..Len(txq') PROVE txq'[j] = sent'[Len(sent') - Len(txq') + j]
    <3>1. CASE j = Len(txq) + 1
      BY <3>1, <1>5
    <3>2. CASE j # Len(txq) + 1
      <4>1. /\ j \in 1..Len(txq) /\ Len(sent) - Len(txq) + j \in 1..Len(sent)
            /\ Len(sent') - Len(txq') + j = Len(sent) - Len(txq) + j
        BY <3>2, <1>5 DEF Sending
      <4> QED
        BY <4>1, <1>5 DEF Sending
    <3> QED
      BY <3>1, <3>2
  <2> QED
    BY <2>1, <2>2, <2>3, <1>5 DEF Sending
<1>8. Received'
  BY <1>2, <1>5 DEF Received, rxVars
<1>9. /\ RxAt' = RxAt /\ QueueAt' = QueueAt /\ HandAt' = HandAt /\ BufsAt' = BufsAt
      /\ FillAt' = FillAt /\ WireAt' = WireAt /\ PartsAt' = PartsAt /\ TxAt' = TxAt
      /\ Whole' = Whole
  BY <1>2 DEF RxAt, QueueAt, HandAt, BufsAt, FillAt, WireAt, PartsAt, TxAt, Whole,
              busVars, taskVars, rxVars
<1>10. Queued' = Queued
  BY <1>5 DEF Queued
<1>11. \A p, f : FilledFrom(p, f, sent) => FilledFrom(p, f, sent')
  BY <1>3, <1>5, SMTT(40) DEF FilledFrom
<1>12. Receiving'
  <2>1. Chain(QueueAt, rxq, Mts, sent')
    BY <1>3, <1>4, ChainGrows DEF Receiving, Types, DataTypes, ControlTypes
  <2> QED
    BY <2>1, <1>2, <1>9, <1>11 DEF Receiving, rxVars
<1>13. Carrying'
  <2> SUFFICES ASSUME Whole
               PROVE  /\ Chain(HandAt, hand, Mts, sent') /\ Chain(BufsAt, bufs, Mts, sent')
                      /\ FilledFrom(FillAt, fill, sent')
                      /\ Chain(WireAt, wire, Mps, sent') /\ Chain(PartsAt, parts, Mps, sent')
    BY <1>2, <1>9 DEF Carrying, busVars, taskVars
  <2> QED
    BY <1>3, <1>4, <1>11, ChainGrows DEF Carrying, Types, DataTypes, ControlTypes
<1>14. Linked' /\ Parted' /\ Stopped' /\ Ending'
  BY <1>2, <1>9, <1>10 DEF Linked, Parted, Stopped, Ending, busVars, taskVars, rxVars,
                           errVars, halfVars
<1> QED
  BY <1>6, <1>7, <1>8, <1>12, <1>13, <1>14

\* The transfers of a packet take its place behind what is still to be queued.
LEMMA ToHostDevTake ==
  ASSUME ToHostInv, DevTake
  PROVE  ToHostInv'
<1> USE PipeAssumption DEF ToHostInv
<1> DEFINE i == Len(sent) - Len(txq) + 1
<1>1. /\ out_task /\ parts = <<>> /\ txq # <<>>
      /\ parts' = DeviceTransfers(Head(txq)) /\ txq' = Tail(txq)
      /\ UNCHANGED <<sent, sender, out_task, halted, busVars, taskVars, rxVars,
                     errVars, halfVars, failed>>
  BY DEF DevTake
<1>2. /\ sent \in Seq(Packets) /\ txq \in Seq(Packets) /\ Len(txq) \in Nat \ {0}
      /\ Len(sent) \in Nat /\ Len(txq) <= Len(sent) /\ i \in DOMAIN sent /\ i \in 1..MaxPackets
      /\ Head(txq) = sent[i]
  <2>1. /\ sent \in Seq(Packets) /\ txq \in Seq(Packets) /\ Len(txq) \in Nat \ {0}
        /\ Len(sent) \in Nat /\ Len(sent) <= MaxPackets /\ MaxPackets \in Nat
    BY <1>1, EmptyLen DEF Types, DataTypes
  <2>2. Len(txq) <= Len(sent) /\ txq[1] = sent[Len(sent) - Len(txq) + 1]
    BY <2>1 DEF Sending
  <2>3. i \in 1..Len(sent)
    BY <2>1, <2>2
  <2>4. DOMAIN sent = 1..Len(sent) /\ Head(txq) = txq[1]
    BY <2>1
  <2> QED
    BY <2>1, <2>2, <2>3, <2>4
<1>3. /\ txq' \in Seq(Packets) /\ Len(txq') = Len(txq) - 1
      /\ \A j \in 1..Len(txq') : txq'[j] = txq[j + 1]
  BY <1>1, <1>2, HeadTailProperties
<1> HIDE DEF i
<1>4. Covers(parts', i, sent)
  BY <1>1, <1>2, DeviceCovers DEF Sending
<1>5. parts' \in Seq(UsbData)
  <2>1. SentOf(i) \subseteq UsbData
    BY <1>2 DEF SentOf, UsbData
  <2> QED
    BY <2>1, <1>4 DEF Covers
<1>6. Types'
  BY <1>1, <1>3, <1>5, <1>2 DEF Types, DataTypes, ControlTypes, busVars, taskVars, rxVars, errVars, halfVars
<1>7. Sending' /\ Received'
  BY <1>1, <1>2, <1>3 DEF Sending, Received, rxVars
<1>8. /\ RxAt' = RxAt /\ QueueAt' = QueueAt /\ HandAt' = HandAt /\ BufsAt' = BufsAt
      /\ FillAt' = FillAt /\ WireAt' = WireAt /\ PartsAt' = PartsAt
      /\ Whole' = Whole
  BY <1>1 DEF RxAt, QueueAt, HandAt, BufsAt, FillAt, WireAt, PartsAt, Whole,
              busVars, taskVars, rxVars
<1>9. Receiving' /\ Parted' /\ Ending'
  <2>1. Parted'
    BY <1>4 DEF Parted, Covers
  <2> QED
    BY <2>1, <1>1, <1>8 DEF Receiving, Ending, EndAt, rxVars, taskVars, errVars, halfVars
<1>10. Stopped'
  BY <1>1 DEF Stopped, busVars, taskVars, halfVars
<1>11. Carrying' /\ Linked'
  <2> SUFFICES ASSUME Whole
               PROVE  Chain(PartsAt, parts', Mps, sent) /\ TxAt' = Queued'
    BY <1>1, <1>8 DEF Carrying, Linked, busVars, taskVars
  <2>1. PartsAt = Pos(i, 0)
    BY <1>1, <1>2 DEF Linked, TxAt, Queued, Behind, i
  <2>2. TxAt' = Pos(i + 1, 0)
    BY <2>1, <1>4, <1>8 DEF TxAt, Covers
  <2>3. Queued' = Pos(i + 1, 0)
    BY <1>1, <1>2, <1>3 DEF Queued, i
  <2> QED
    BY <2>1, <2>2, <2>3, <1>4 DEF Covers
<1> QED
  BY <1>6, <1>7, <1>9, <1>10, <1>11

\* A transfer goes from the one to the other part of the chain.
LEMMA ToHostDevSendPart ==
  ASSUME ToHostInv, DevSendPart
  PROVE  ToHostInv'
<1> USE DEF ToHostInv
<1>1. /\ out_task /\ parts # <<>>
      /\ wire' = wire \o NextPart
      /\ parts' = SubSeq(parts, Len(NextPart) + 1, Len(parts))
      /\ UNCHANGED <<sent, sender, txq, out_task, halted, fill, bufs, taskVars,
                     rxVars, errVars, halfVars, failed>>
  BY DEF DevSendPart
<1>2. PICK k \in 1..Len(parts) : NextPart = SubSeq(parts, 1, k) /\ Len(NextPart) = k
  BY <1>1, NextPartIsPrefix
<1> DEFINE a == SubSeq(parts, 1, k)
           b == SubSeq(parts, k + 1, Len(parts))
<1>3. parts \in Seq(UsbData) /\ wire \in Seq(UsbData)
  BY DEF Types, DataTypes, ControlTypes
<1>4. /\ a \in Seq(UsbData) /\ b \in Seq(UsbData)
      /\ b # <<>> => b[Len(b)] = parts[Len(parts)]
  <2>1. Len(parts) \in Nat /\ k \in Nat \ {0} /\ k <= Len(parts) /\ \A j \in 1..Len(parts) : parts[j] \in UsbData
    BY <1>3
  <2>2. a \in Seq(UsbData)
    <3>1. \A j \in 1..k : parts[j] \in UsbData
      BY <2>1
    <3> QED
      BY <2>1, <3>1, SubSeqProperties
  <2>3. /\ b \in Seq(UsbData) /\ Len(b) = IF k + 1 <= Len(parts) THEN Len(parts) - (k + 1) + 1 ELSE 0
        /\ \A j \in 1..(Len(parts) - (k + 1) + 1) : b[j] = parts[k + 1 + j - 1]
    <3>1. \A j \in (k + 1)..Len(parts) : parts[j] \in UsbData
      BY <2>1
    <3> QED
      BY <2>1, <3>1, SubSeqProperties
  <2> HIDE DEF a, b
  <2>4. ASSUME b # <<>> PROVE b[Len(b)] = parts[Len(parts)]
    <3>1. Len(b) # 0
      BY <2>3, <2>4, EmptyLen
    <3>2. k + 1 <= Len(parts) /\ Len(b) = Len(parts) - (k + 1) + 1
      BY <2>3, <3>1
    <3>3. Len(b) \in 1..(Len(parts) - (k + 1) + 1) /\ k + 1 + Len(b) - 1 = Len(parts)
      BY <2>1, <3>2
    <3> QED
      BY <3>3, <2>3
  <2> QED
    BY <2>2, <2>3, <2>4
<1>5. wire' = wire \o a /\ parts' = b
  BY <1>1, <1>2
<1>6. ASSUME Whole
      PROVE  /\ Chain(PartsAt, a, Mps, sent) /\ Chain(Behind(PartsAt, a, Mps), b, Mps, sent)
             /\ Behind(Behind(PartsAt, a, Mps), b, Mps) = TxAt
  <2>1. Chain(PartsAt, parts, Mps, sent)
    BY <1>6 DEF Carrying
  <2>2. /\ Chain(PartsAt, a, Mps, sent) /\ Behind(PartsAt, a, Mps) = After(parts[k], Mps)
        /\ Chain(After(parts[k], Mps), b, Mps, sent)
        /\ Behind(After(parts[k], Mps), b, Mps) = Behind(PartsAt, parts, Mps)
    BY <1>3, <2>1, ChainSplit
  <2> QED
    BY <2>2 DEF TxAt
<1> HIDE DEF a, b
<1>7. wire' \in Seq(UsbData) /\ parts' \in Seq(UsbData)
  BY <1>3, <1>4, <1>5
<1>8. Types' /\ Sending' /\ Received'
  BY <1>1, <1>7 DEF Types, DataTypes, ControlTypes, Sending, Received, taskVars, rxVars, errVars, halfVars
<1>9. /\ RxAt' = RxAt /\ QueueAt' = QueueAt /\ HandAt' = HandAt /\ BufsAt' = BufsAt
      /\ FillAt' = FillAt /\ WireAt' = WireAt /\ Whole' = Whole /\ Queued' = Queued
      /\ EndAt' = EndAt
  BY <1>1 DEF RxAt, QueueAt, HandAt, BufsAt, FillAt, WireAt, Whole, Queued, EndAt,
              taskVars, rxVars
<1>10. Receiving' /\ Ending' /\ Stopped' /\ Parted'
  <2>1. Parted'
    BY <1>1, <1>4, <1>5 DEF Parted
  <2> QED
    BY <2>1, <1>1, <1>9 DEF Receiving, Ending, Stopped, taskVars, rxVars, errVars, halfVars
<1>11. Carrying' /\ Linked'
  <2> SUFFICES ASSUME Whole
               PROVE  /\ Chain(WireAt, wire', Mps, sent) /\ Chain(PartsAt', parts', Mps, sent)
                      /\ TxAt' = TxAt
    BY <1>1, <1>9 DEF Carrying, Linked, taskVars, halfVars
  <2>1. /\ Chain(WireAt, wire', Mps, sent)
        /\ Behind(WireAt, wire', Mps) = Behind(PartsAt, a, Mps)
    BY <1>3, <1>4, <1>5, <1>6, ChainConcat DEF Carrying, PartsAt
  <2>2. PartsAt' = Behind(PartsAt, a, Mps)
    BY <2>1, <1>9 DEF PartsAt
  <2> QED
    BY <2>1, <2>2, <1>5, <1>6 DEF TxAt
<1> QED
  BY <1>8, <1>10, <1>11

\* A USB packet goes from the wire into the buffer that is being filled.
LEMMA ToHostBusIn ==
  ASSUME ToHostInv, BusIn
  PROVE  ToHostInv'
<1> USE DEF ToHostInv
<1> DEFINE u == Head(wire)
           g == Filled(fill, u)
<1>1. /\ wire # <<>> /\ ~halted /\ in_task = "receiving" /\ Len(bufs) < DmaBuffers
      /\ wire' = Tail(wire)
      /\ Completes(fill, u) => fill' = Empty /\ bufs' = Append(bufs, g)
      /\ ~Completes(fill, u) => fill' = g /\ bufs' = bufs
      /\ UNCHANGED <<devVars, taskVars, rxVars, errVars, halfVars, failed>>
  BY DEF BusIn
<1>2. /\ wire \in Seq(UsbData) /\ u \in UsbData /\ wire' \in Seq(UsbData)
      /\ bufs \in Seq(Piece) /\ fill \in Piece /\ WholePackets(fill)
      /\ (fill.of = Nothing => fill = Empty)
  BY <1>1 DEF Types, DataTypes, ControlTypes
<1>3. /\ u.of \in 1..MaxPackets /\ u.from \in Nat /\ u.len \in 0..Mps
      /\ fill.of \in -1..MaxPackets /\ fill.from \in Nat /\ fill.len \in Nat
  BY <1>2 DEF UsbData, Piece
<1> HIDE DEF u
<1>4. /\ ~Completes(fill, u) => u.len = Mps /\ WholePackets([len |-> fill.len + u.len])
      /\ fill.of = Nothing => fill.len = 0
  BY <1>2, <1>3, Filling DEF Empty, Data
<1>5. g \in Piece /\ g.of # Nothing /\ g.len = fill.len + u.len
  <2>1. g = IF fill.of = Nothing THEN Data(u.of, u.from, u.len)
            ELSE IF fill.of = u.of /\ fill.from + fill.len = u.from
                 THEN Data(fill.of, fill.from, fill.len + u.len)
                 ELSE Data(Mixed, 0, fill.len + u.len)
    BY DEF Filled, Join, Adjacent, Data
  <2> HIDE DEF g
  <2>2. MaxPackets \in Nat
    BY PipeAssumption
  <2> QED
    BY <1>3, <1>4, <2>1, <2>2 DEF Data, Piece, Nothing, Mixed
<1>6. ~Completes(fill, u) => WholePackets(g)
  BY <1>4, <1>5 DEF WholePackets
<1>7. Empty \in Piece /\ WholePackets(Empty)
  <2>1. Empty.len = 0 * Mps /\ 0 \in 0..(TransferPackets - 1)
    BY FramingAssumption DEF Empty, Data
  <2> QED
    BY <2>1, PipeAssumption DEF Piece, Empty, Data, Nothing, WholePackets
<1> HIDE DEF g
<1>8. /\ fill' \in Piece /\ WholePackets(fill') /\ (fill'.of = Nothing => fill' = Empty)
      /\ bufs' \in Seq(Piece) /\ Len(bufs') <= DmaBuffers
  <2>1. Len(bufs) \in Nat /\ DmaBuffers \in Nat
    BY <1>2, PipeAssumption
  <2>2. CASE Completes(fill, u)
    BY <2>1, <2>2, <1>1, <1>2, <1>5, <1>7, SMTT(40)
  <2>3. CASE ~Completes(fill, u)
    BY <2>3, <1>1, <1>2, <1>5, <1>6 DEF Types, DataTypes, ControlTypes
  <2> QED
    BY <2>2, <2>3
<1>9. Types' /\ Sending' /\ Received'
  <2>1. Types'
    BY <1>1, <1>2, <1>8 DEF Types, DataTypes, ControlTypes, devVars, taskVars, rxVars, errVars, halfVars
  <2>2. Sending' /\ Received'
    BY <1>1 DEF Sending, Received, devVars, rxVars
  <2> QED
    BY <2>1, <2>2
<1>10. /\ RxAt' = RxAt /\ QueueAt' = QueueAt /\ HandAt' = HandAt /\ BufsAt' = BufsAt
       /\ Whole' = Whole /\ Queued' = Queued /\ EndAt' = EndAt
  BY <1>1 DEF RxAt, QueueAt, HandAt, BufsAt, Whole, Queued, EndAt, devVars, taskVars, rxVars
<1>11. Receiving' /\ Ending' /\ Parted'
  BY <1>1, <1>10 DEF Receiving, Ending, Parted, devVars, taskVars, rxVars, errVars, halfVars
<1>12. Stopped'
  BY <1>1 DEF Stopped, devVars, taskVars, halfVars
<1>13. Carrying' /\ Linked'
  <2> SUFFICES ASSUME Whole
               PROVE  /\ Chain(BufsAt, bufs', Mts, sent)
                      /\ FilledFrom(FillAt', fill', sent)
                      /\ Chain(WireAt', wire', Mps, sent)
                      /\ PartsAt' = PartsAt
    BY <1>1, <1>10 DEF Carrying, Linked, TxAt, devVars, taskVars, halfVars
  <2>1. /\ Fits(u, Mps, sent) /\ Start(u) = WireAt
        /\ Chain(After(u, Mps), wire', Mps, sent)
        /\ Behind(After(u, Mps), wire', Mps) = PartsAt
    BY <1>1, <1>2, ChainTail DEF Carrying, PartsAt, u
  <2>2. /\ Stream(sent) /\ DOMAIN sent \subseteq Nat \ {0} /\ u.of # Nothing
        /\ FilledFrom(FillAt, fill, sent)
    BY <1>3, SMTT(40) DEF Sending, Types, DataTypes, ControlTypes, Carrying, Nothing
  <2>3. /\ Completes(fill, u) =>
              /\ Fits(g, Mts, sent) /\ Start(g) = FillAt
              /\ After(g, Mts) = After(u, Mps)
        /\ ~Completes(fill, u) =>
              /\ FilledFrom(FillAt, g, sent)
              /\ FilledTo(FillAt, g) = After(u, Mps)
    BY <1>2, <2>1, <2>2, FillStep DEF g, WireAt
  <2>4. CASE Completes(fill, u)
    <3>1. /\ Chain(BufsAt, bufs', Mts, sent) /\ Behind(BufsAt, bufs', Mts) = After(u, Mps)
      <4>1. /\ Chain(BufsAt, bufs, Mts, sent) /\ Fits(g, Mts, sent)
            /\ Start(g) = Behind(BufsAt, bufs, Mts) /\ After(g, Mts) = After(u, Mps)
        BY <2>3, <2>4 DEF Carrying, FillAt
      <4>2. /\ Chain(BufsAt, Append(bufs, g), Mts, sent)
            /\ Behind(BufsAt, Append(bufs, g), Mts) = After(g, Mts)
        BY <4>1, <1>2, <1>5, ChainAppend, SMTT(40)
      <4> QED
        BY <4>1, <4>2, <2>4, <1>1
    <3>2. FillAt' = After(u, Mps) /\ WireAt' = After(u, Mps)
      BY <3>1, <2>4, <1>1, <1>10 DEF FillAt, WireAt, FilledTo, Empty, Data
    <3>3. FilledFrom(FillAt', fill', sent)
      BY <2>4, <1>1 DEF FilledFrom
    <3>4. PartsAt' = PartsAt
      BY <3>2, <2>1 DEF PartsAt
    <3> QED
      BY <3>1, <3>2, <3>3, <3>4, <2>1
  <2>5. CASE ~Completes(fill, u)
    <3>1. FillAt' = FillAt
      BY <2>5, <1>1, <1>10 DEF FillAt
    <3>2. WireAt' = After(u, Mps)
      BY <3>1, <2>3, <2>5, <1>1 DEF WireAt
    <3>3. PartsAt' = PartsAt
      BY <3>2, <2>1 DEF PartsAt
    <3> QED
      BY <3>1, <3>2, <3>3, <2>1, <2>3, <2>5, <1>1 DEF Carrying
  <2> QED
    BY <2>4, <2>5
<1> QED
  BY <1>9, <1>11, <1>12, <1>13

\* A completed buffer is taken to be handed over.
LEMMA ToHostHostComplete ==
  ASSUME ToHostInv, HostComplete
  PROVE  ToHostInv'
<1> USE DEF ToHostInv
<1>1. /\ in_task = "receiving" /\ hand = <<>> /\ bufs # <<>>
      /\ hand' = <<Head(bufs)>> /\ bufs' = Tail(bufs)
      /\ UNCHANGED <<devVars, wire, fill, in_task, initiated, rxVars, errVars,
                     halfVars, failed>>
  BY DEF HostComplete, Waiting
<1>2. /\ bufs \in Seq(Piece) /\ Head(bufs) \in Piece /\ bufs' \in Seq(Piece)
      /\ hand' \in Seq(Piece) /\ Len(hand') = 1 /\ Len(bufs') <= Len(bufs)
      /\ Len(bufs') \in Nat /\ Len(bufs) \in Nat
      /\ hand' = Append(<<>>, Head(bufs)) /\ <<>> \in Seq(Piece)
  BY <1>1 DEF Types, DataTypes, ControlTypes
<1>3. Types' /\ Sending' /\ Received'
  BY <1>1, <1>2, PipeAssumption DEF Types, DataTypes, ControlTypes, Sending, Received, devVars, rxVars, errVars, halfVars
<1>4. /\ RxAt' = RxAt /\ QueueAt' = QueueAt /\ HandAt' = HandAt /\ BufsAt = HandAt
      /\ Whole' = Whole /\ Queued' = Queued /\ EndAt' = EndAt
  BY <1>1 DEF RxAt, QueueAt, HandAt, BufsAt, Behind, Whole, Queued, EndAt, devVars, rxVars
<1>5. Receiving' /\ Ending' /\ Parted' /\ Stopped'
  BY <1>1, <1>4 DEF Receiving, Ending, Parted, Stopped, devVars, rxVars, errVars, halfVars
<1>6. Carrying' /\ Linked'
  <2> SUFFICES ASSUME Whole
               PROVE  /\ Chain(HandAt, hand', Mts, sent)
                      /\ Chain(BufsAt', bufs', Mts, sent)
                      /\ FillAt' = FillAt
    <3>1. FillAt' = FillAt => WireAt' = WireAt /\ PartsAt' = PartsAt /\ TxAt' = TxAt
      BY <1>1 DEF WireAt, PartsAt, TxAt, devVars
    <3> QED
      BY <3>1, <1>1, <1>4 DEF Carrying, Linked, devVars, halfVars
  <2>1. /\ Fits(Head(bufs), Mts, sent) /\ Start(Head(bufs)) = HandAt
        /\ Chain(After(Head(bufs), Mts), bufs', Mts, sent)
        /\ Behind(After(Head(bufs), Mts), bufs', Mts) = FillAt
    BY <1>1, <1>2, <1>4, ChainTail DEF Carrying, FillAt
  <2>2. Chain(HandAt, hand', Mts, sent) /\ Behind(HandAt, hand', Mts) = After(Head(bufs), Mts)
    <3> DEFINE x == Head(bufs)
    <3>1. Fits(x, Mts, sent) /\ Start(x) = HandAt /\ hand' = <<x>>
      BY <1>1, <2>1
    <3> HIDE DEF x
    <3> QED
      BY <3>1, ChainOne DEF x
  <2>3. BufsAt' = After(Head(bufs), Mts)
    BY <1>4, <2>2 DEF BufsAt
  <2>4. FillAt' = FillAt
    BY <2>1, <2>3 DEF FillAt
  <2> QED
    BY <2>1, <2>2, <2>3, <2>4
<1> QED
  BY <1>3, <1>5, <1>6

\* It is put behind what recv() has not taken yet.
LEMMA ToHostHostHandOver ==
  ASSUME ToHostInv, HostHandOver
  PROVE  ToHostInv'
<1> USE DEF ToHostInv
<1>1. /\ hand # <<>> /\ rx_alive /\ Len(rxq) < QueueLen
      /\ rxq' = rxq \o hand /\ hand' = <<>>
      /\ UNCHANGED <<devVars, busVars, in_task, initiated, rx_alive, buffer, got,
                     ended, errVars, halfVars, failed>>
  BY DEF HostHandOver
<1>2. /\ rxq \in Seq(Piece) /\ hand \in Seq(Piece) /\ Len(hand) <= 1
      /\ Len(rxq) \in Nat /\ Len(hand) \in Nat
      /\ rxq' \in Seq(Piece) /\ Len(rxq') = Len(rxq) + Len(hand)
      /\ hand' \in Seq(Piece) /\ Len(hand') = 0 /\ QueueLen \in Nat
  BY <1>1, PipeAssumption DEF Types, DataTypes, ControlTypes
<1>3. Types' /\ Sending' /\ Received'
  BY <1>1, <1>2 DEF Types, DataTypes, ControlTypes, Sending, Received, devVars, busVars, errVars, halfVars
<1>4. /\ RxAt' = RxAt /\ QueueAt' = QueueAt /\ Whole' = Whole /\ Queued' = Queued
      /\ Whole /\ in_task = "receiving" /\ ended = "no"
  BY <1>1 DEF RxAt, QueueAt, Whole, Queued, Ending, Types, DataTypes, ControlTypes, devVars
<1>5. /\ Chain(QueueAt, rxq', Mts, sent)
      /\ Behind(QueueAt, rxq', Mts) = BufsAt
  BY <1>1, <1>2, <1>4, ChainConcat DEF Receiving, Carrying, BufsAt, HandAt
<1>6. HandAt' = BufsAt /\ BufsAt' = BufsAt
  BY <1>1, <1>4, <1>5 DEF HandAt, BufsAt, Behind
<1>7. FillAt' = FillAt /\ WireAt' = WireAt /\ PartsAt' = PartsAt /\ TxAt' = TxAt
  BY <1>1, <1>6 DEF FillAt, WireAt, PartsAt, TxAt, devVars, busVars
<1>8. Chain(HandAt', hand', Mts, sent)
  BY <1>1, ChainEmpty
<1>9. Receiving' /\ Carrying' /\ Linked'
  BY <1>1, <1>4, <1>5, <1>6, <1>7, <1>8 DEF Receiving, Carrying, Linked, devVars, busVars, halfVars
<1>10. Parted' /\ Stopped' /\ Ending'
  BY <1>1, <1>4 DEF Parted, Stopped, Ending, devVars, busVars, errVars, halfVars
<1> QED
  BY <1>3, <1>9, <1>10

\* Nothing changes for the receiver.
LEMMA ToHostReceiverKept ==
  ASSUME Receiving, Received, UNCHANGED <<sent, rxq, rx_alive, buffer, got>>
  PROVE  /\ Receiving' /\ Received'
         /\ RxAt' = RxAt /\ QueueAt' = QueueAt /\ HandAt' = HandAt /\ EndAt' = EndAt
<1>1. RxAt' = RxAt /\ QueueAt' = QueueAt /\ HandAt' = HandAt /\ EndAt' = EndAt
  BY DEF RxAt, QueueAt, HandAt, EndAt
<1>2. Receiving' /\ Received'
  BY <1>1 DEF Receiving, Received
<1> QED
  BY <1>1, <1>2

\* Nothing changes for the data on its way either.
LEMMA ToHostDataKept ==
  ASSUME Receiving, Received, Carrying, Sending, Parted,
         UNCHANGED <<sent, txq, parts, wire, fill, bufs, in_task, hand,
                     rxq, rx_alive, buffer, got>>
  PROVE  /\ Receiving' /\ Received' /\ Carrying' /\ Sending' /\ Parted'
         /\ TxAt' = TxAt /\ Queued' = Queued /\ Whole' = Whole
         /\ HandAt' = HandAt /\ EndAt' = EndAt
<1>1. /\ Receiving' /\ Received'
      /\ RxAt' = RxAt /\ QueueAt' = QueueAt /\ HandAt' = HandAt /\ EndAt' = EndAt
  BY ToHostReceiverKept
<1>2. /\ BufsAt' = BufsAt /\ FillAt' = FillAt /\ WireAt' = WireAt /\ PartsAt' = PartsAt
      /\ TxAt' = TxAt /\ Queued' = Queued /\ Whole' = Whole
  BY <1>1 DEF BufsAt, FillAt, WireAt, PartsAt, TxAt, Queued, Whole
<1>3. Carrying' /\ Sending' /\ Parted'
  BY <1>1, <1>2 DEF Carrying, Sending, Parted
<1> QED
  BY <1>1, <1>2, <1>3

\* out_task has sent everything ...
LEMMA ToHostDevDone ==
  ASSUME ToHostInv, DevDone
  PROVE  ToHostInv'
<1> USE DEF ToHostInv
<1>1. /\ out_task /\ ~sender /\ txq = <<>> /\ parts = <<>> /\ wire = <<>>
      /\ out_task' = FALSE /\ halted' = TRUE
      /\ UNCHANGED <<sent, sender, txq, parts, busVars, taskVars, rxVars,
                     errVars, halfVars, failed>>
  BY DEF DevDone, DevFinished
<1>2. /\ Receiving' /\ Received' /\ Carrying' /\ Sending' /\ Parted'
      /\ TxAt' = TxAt /\ Queued' = Queued /\ Whole' = Whole
      /\ HandAt' = HandAt /\ EndAt' = EndAt
  BY <1>1, ToHostDataKept DEF busVars, taskVars, rxVars
<1>3. Types'
  <2>1. DataTypes'
    BY <1>1 DEF Types, DataTypes, busVars, taskVars, rxVars
  <2>2. ControlTypes'
    BY <1>1, ZenonT(60) DEF Types, ControlTypes, taskVars, rxVars, errVars, halfVars
  <2> QED
    BY <2>1, <2>2 DEF Types
<1>4. Linked' /\ Stopped' /\ Ending'
  BY <1>1, <1>2 DEF Linked, Stopped, Ending, busVars, taskVars, rxVars, errVars, halfVars
<1> QED
  BY <1>2, <1>3, <1>4

\* ... or has failed, and what it had is lost.
LEMMA ToHostDevLost ==
  ASSUME ToHostInv, DevFailed \/ DevTimedOut
  PROVE  ToHostInv'
<1> USE DEF ToHostInv
<1>1. /\ out_task /\ out_task' = FALSE /\ halted' \in BOOLEAN /\ dev_failed' = TRUE
      /\ txq' = <<>> /\ parts' = <<>> /\ wire' \in {<<>>, wire}
      /\ UNCHANGED <<sent, sender, fill, bufs, taskVars, rxVars, errVars,
                     send_closed, recv_closed, closed, failed>>
  BY DEF DevFailed, DevTimedOut, OutTaskStopped, Types, DataTypes, ControlTypes
<1>2. /\ txq' \in Seq(Packets) /\ Len(txq') = 0 /\ parts' \in Seq(UsbData)
      /\ wire' \in Seq(UsbData) /\ QueueLen \in Nat
  <2>1. wire \in Seq(UsbData)
    BY DEF Types, DataTypes
  <2>2. <<>> \in Seq(Packets) /\ <<>> \in Seq(UsbData) /\ Len(<<>>) = 0 /\ QueueLen \in Nat
    BY PipeAssumption
  <2> QED
    BY <1>1, <2>1, <2>2
<1>3. Types'
  <2>1. DataTypes'
    BY <1>1, <1>2 DEF Types, DataTypes, taskVars, rxVars
  <2>2. ControlTypes'
    BY <1>1, ZenonT(60) DEF Types, ControlTypes, taskVars, rxVars, errVars
  <2> QED
    BY <2>1, <2>2 DEF Types
<1>4. Sending' /\ Parted' /\ Linked' /\ Stopped'
  BY <1>1, <1>2 DEF Types, DataTypes, ControlTypes, Sending, Parted, Linked, Stopped, Whole, taskVars
<1>5. /\ Receiving' /\ Received'
      /\ RxAt' = RxAt /\ QueueAt' = QueueAt /\ HandAt' = HandAt /\ EndAt' = EndAt
  BY <1>1, ToHostReceiverKept DEF rxVars
<1>6. Carrying'
  <2>1. /\ BufsAt' = BufsAt /\ FillAt' = FillAt /\ WireAt' = WireAt /\ Whole' = Whole
    BY <1>1, <1>5 DEF BufsAt, FillAt, WireAt, Whole, taskVars, rxVars
  <2>2. Chain(WireAt, <<>>, Mps, sent) /\ Chain(PartsAt', <<>>, Mps, sent)
    BY ChainEmpty
  <2> QED
    BY <1>1, <1>5, <2>1, <2>2 DEF Carrying, taskVars
<1>7. Ending'
  BY <1>1, <1>5 DEF Ending, taskVars, rxVars, errVars
<1> QED
  BY <1>3, <1>4, <1>5, <1>6, <1>7

\* in_task stops receiving because the endpoint stalls: what recv() has not
\* taken yet goes to the end of the stream.
LEMMA ToHostDrained ==
  ASSUME ToHostInv, HostStalled, rx_alive, ~dev_failed
  PROVE  ~sender /\ HandAt = EndAt
<1> USE DEF ToHostInv
<1>1. in_task = "receiving" /\ hand = <<>> /\ bufs = <<>> /\ halted /\ Whole
  BY DEF HostStalled, Waiting, Whole
<1>2. ~sender /\ wire = <<>> /\ parts = <<>> /\ txq = <<>>
  BY <1>1 DEF Stopped
<1>3. WireAt = Queued
  BY <1>1, <1>2 DEF Linked, TxAt, PartsAt, Behind
<1>4. Queued = EndAt
  BY <1>2 DEF Queued, EndAt, Types, DataTypes, ControlTypes
<1>5. fill = Empty
  <2> SUFFICES ASSUME fill # Empty PROVE FALSE
    OBVIOUS
  <2>1. fill.of \in DOMAIN sent /\ fill.of # Nothing
    BY <1>1 DEF Carrying, FilledFrom, Types, DataTypes, ControlTypes
  <2>2. WireAt.of = fill.of
    BY <2>1 DEF WireAt, FilledTo, Pos
  <2>3. EndAt.of = Len(sent) + 1
    BY DEF EndAt, Pos
  <2> QED
    BY <2>1, <2>2, <2>3, <1>3, <1>4 DEF Types, DataTypes, ControlTypes
<1>6. WireAt = HandAt
  BY <1>1, <1>5 DEF WireAt, FillAt, BufsAt, Behind, FilledTo, Empty, Data
<1> QED
  BY <1>2, <1>3, <1>4, <1>6

\* The end of in_task's loop, for any of its four reasons, preserves the invariant.
LEMMA ToHostLoopEnds ==
  ASSUME ToHostInv, HostStalled \/ HostFailed \/ HostDropped \/ HostDead
  PROVE  ToHostInv'
<1> USE DEF ToHostInv
<1>1. PICK by_host \in BOOLEAN : LoopEnds(by_host)
  BY DEF HostStalled, HostFailed, HostDropped, HostDead
<1>2. /\ in_task' = "closing" /\ initiated' = by_host /\ hand' = <<>>
      /\ fill' = Empty /\ bufs' = <<>>
      /\ UNCHANGED <<devVars, wire, rxVars, dead, halfVars>>
  BY <1>1 DEF LoopEnds
<1>3. /\ in_task = "receiving" /\ ended = "no" /\ ~recv_closed
      /\ \/ UNCHANGED <<error, failed>>
         \/ error' = TRUE /\ failed' = TRUE
  BY DEF HostStalled, HostFailed, HostDropped, HostDead, Waiting, Ending, Types, DataTypes, ControlTypes
<1>4. /\ Empty \in Piece /\ WholePackets(Empty) /\ hand' \in Seq(Piece) /\ Len(hand') = 0
      /\ bufs' \in Seq(Piece) /\ Len(bufs') = 0 /\ DmaBuffers \in Nat
  <2>1. Empty.len = 0 * Mps /\ 0 \in 0..(TransferPackets - 1)
    BY FramingAssumption DEF Empty, Data
  <2> QED
    BY <2>1, <1>2, PipeAssumption DEF Piece, Empty, Data, Nothing, WholePackets
<1>5. Types'
  <2>1. DataTypes'
    BY <1>2, <1>4 DEF Types, DataTypes, devVars, rxVars
  <2>2. ControlTypes'
    BY <1>2, <1>3, ZenonT(60) DEF Types, ControlTypes, devVars, rxVars, halfVars
  <2> QED
    BY <2>1, <2>2 DEF Types
<1>6. Sending' /\ Parted' /\ Carrying' /\ Linked' /\ Stopped'
  BY <1>2 DEF Sending, Parted, Carrying, Linked, Stopped, Whole, devVars, halfVars
<1>7. /\ Receiving' /\ Received'
      /\ RxAt' = RxAt /\ QueueAt' = QueueAt /\ HandAt' = HandAt /\ EndAt' = EndAt
  BY <1>2, ToHostReceiverKept DEF devVars, rxVars
<1>8. rx_alive /\ ~error' /\ ~dev_failed => ~sender /\ HandAt = EndAt
  <2>1. CASE HostStalled
    BY <2>1, ToHostDrained
  <2>2. CASE HostFailed
    BY <2>2 DEF HostFailed
  <2>3. CASE HostDropped
    BY <2>3 DEF HostDropped
  <2>4. CASE HostDead
    BY <2>4 DEF HostDead, Ending
  <2> QED
    BY <2>1, <2>2, <2>3, <2>4
<1>9. Ending'
  BY <1>2, <1>3, <1>7, <1>8 DEF Ending, Types, DataTypes, ControlTypes, devVars, rxVars, halfVars
<1> QED
  BY <1>5, <1>6, <1>7, <1>9

\* The errors, and what closes the directions
LEMMA ToHostClosing ==
  ASSUME ToHostInv,
         \/ DropSender \/ StatusFailed \/ OtherFailed \/ SendDone
         \/ CloseRecvLost \/ CloseLost
  PROVE  ToHostInv'
<1> USE DEF ToHostInv
<1>1. UNCHANGED <<sent, txq, out_task, parts, halted, wire, fill, bufs, hand, initiated,
                  rxq, rx_alive, buffer, got, ended, dev_failed>>
  BY DEF DropSender, StatusFailed, OtherFailed, SendDone, CloseRecvLost, CloseLost,
         devVars, busVars, taskVars, rxVars, errVars, halfVars
<1>2. DataTypes'
  BY <1>1 DEF Types, DataTypes
<1>3. ControlTypes'
  <2>1. CASE DropSender
    <3>1. /\ sender' = FALSE
          /\ UNCHANGED <<out_task, halted, in_task, initiated, rx_alive, ended, error, dead,
                         send_closed, recv_closed, closed, failed, dev_failed>>
      BY <2>1 DEF DropSender, taskVars, rxVars, errVars, halfVars
    <3>2. sender' \in BOOLEAN
      BY <3>1
    <3>3. ControlTypes
      BY DEF Types
    <3> QED
      BY <3>1, <3>2, <3>3 DEF ControlTypes
  <2>2. CASE StatusFailed
    <3>1. /\ error' = TRUE /\ dead' = TRUE /\ failed' = TRUE
          /\ UNCHANGED <<sender, out_task, halted, in_task, initiated, rx_alive, ended,
                         send_closed, recv_closed, closed, dev_failed>>
      BY <2>2 DEF StatusFailed, devVars, busVars, taskVars, rxVars, halfVars
    <3> QED
      BY <3>1 DEF Types, ControlTypes
  <2>3. CASE OtherFailed
    BY <2>3 DEF Types, ControlTypes, OtherFailed, devVars, busVars, taskVars, rxVars, errVars, halfVars
  <2>4. CASE SendDone
    BY <2>4 DEF Types, ControlTypes, SendDone, devVars, busVars, taskVars, rxVars, errVars, halfVars
  <2>5. CASE CloseRecvLost
    BY <2>5 DEF Types, ControlTypes, CloseRecvLost, devVars, busVars, taskVars, rxVars, errVars, halfVars
  <2>6. CASE CloseLost
    BY <2>6 DEF Types, ControlTypes, CloseLost, devVars, busVars, taskVars, rxVars, errVars, halfVars
  <2> QED
    BY <2>1, <2>2, <2>3, <2>4, <2>5, <2>6
<1>4. CASE DropSender \/ StatusFailed \/ OtherFailed \/ SendDone \/ CloseLost
  <2>1. /\ in_task' = in_task /\ recv_closed' = recv_closed
        /\ (sender' => sender) /\ (error => error') /\ (failed => failed')
        /\ (dead' => dead \/ error') /\ (error' => error \/ failed')
    BY <1>4 DEF DropSender, StatusFailed, OtherFailed, SendDone, CloseLost,
                devVars, busVars, taskVars, rxVars, errVars, halfVars
  <2>2. /\ Receiving' /\ Received' /\ Carrying' /\ Sending' /\ Parted'
        /\ TxAt' = TxAt /\ Queued' = Queued /\ Whole' = Whole
        /\ HandAt' = HandAt /\ EndAt' = EndAt
    BY <1>1, <2>1, ToHostDataKept
  <2>3. Linked' /\ Stopped'
    BY <1>1, <2>1, <2>2 DEF Linked, Stopped
  <2>4. Ending'
    BY <1>1, <2>1, <2>2 DEF Ending
  <2> QED
    BY <1>2, <1>3, <2>2, <2>3, <2>4 DEF Types
<1>5. CASE CloseRecvLost
  <2>1. /\ in_task = "closing" /\ in_task' = "done" /\ recv_closed' = TRUE /\ failed' = TRUE
        /\ UNCHANGED <<sender, error, dead, send_closed, closed>>
    BY <1>5 DEF CloseRecvLost, devVars, errVars
  <2>2. /\ Receiving' /\ Received'
        /\ RxAt' = RxAt /\ QueueAt' = QueueAt /\ HandAt' = HandAt /\ EndAt' = EndAt
    BY <1>1, ToHostReceiverKept
  <2>3. Sending' /\ Parted' /\ Carrying' /\ Linked' /\ Stopped' /\ Ending'
    BY <1>1, <2>1, <2>2 DEF Sending, Parted, Carrying, Linked, Stopped, Ending, Whole
  <2> QED
    BY <1>2, <1>3, <2>2, <2>3 DEF Types
<1> QED
  BY <1>4, <1>5

\* The requests that stop out_task come when in_task has stopped.
LEMMA ToHostAsked ==
  ASSUME ToHostInv, CloseRecv \/ Close
  PROVE  ToHostInv'
<1> USE DEF ToHostInv
<1>1. /\ in_task # "receiving" /\ in_task' = "done"
      /\ recv_closed' = TRUE /\ closed' \in {closed, TRUE} /\ halted' \in {halted, FALSE}
      /\ \/ out_task' = FALSE /\ txq' = <<>> /\ parts' = <<>> /\ wire' \in {<<>>, wire}
         \/ UNCHANGED <<out_task, txq, parts, wire>>
      /\ UNCHANGED <<sent, sender, fill, bufs, initiated, hand, rxVars, errVars,
                     send_closed, dev_failed, failed>>
  BY DEF CloseRecv, Close, OutTaskStopped, Ending, Types, DataTypes, ControlTypes, taskVars
<1>2. /\ txq' \in Seq(Packets) /\ Len(txq') <= QueueLen /\ parts' \in Seq(UsbData)
      /\ wire' \in Seq(UsbData)
  <2>1. /\ txq \in Seq(Packets) /\ Len(txq) <= QueueLen /\ parts \in Seq(UsbData)
        /\ wire \in Seq(UsbData)
    BY DEF Types, DataTypes
  <2>2. <<>> \in Seq(Packets) /\ <<>> \in Seq(UsbData) /\ Len(<<>>) = 0 /\ 0 <= QueueLen
    BY PipeAssumption
  <2> QED
    BY <1>1, <2>1, <2>2
<1>3. Types'
  <2>1. DataTypes'
    BY <1>1, <1>2 DEF Types, DataTypes, rxVars
  <2>2. ControlTypes'
    <3>1. CASE CloseRecv
      BY <3>1, ZenonT(60) DEF Types, ControlTypes, CloseRecv, OutTaskStopped, rxVars, errVars
    <3>2. CASE Close
      BY <3>2, ZenonT(60) DEF Types, ControlTypes, Close, taskVars, rxVars, errVars
    <3> QED
      BY <3>1, <3>2
  <2> QED
    BY <2>1, <2>2 DEF Types
<1>4. /\ Receiving' /\ Received'
      /\ RxAt' = RxAt /\ QueueAt' = QueueAt /\ HandAt' = HandAt /\ EndAt' = EndAt
  BY <1>1, ToHostReceiverKept DEF rxVars
<1>5. Sending' /\ Parted'
  <2>1. CASE UNCHANGED <<txq, parts>>
    BY <1>1, <2>1 DEF Sending, Parted
  <2>2. CASE txq' = <<>> /\ parts' = <<>>
    BY <1>1, <2>2 DEF Types, DataTypes, Sending, Parted
  <2> QED
    BY <1>1, <2>1, <2>2
<1>6. Carrying' /\ Linked' /\ Stopped'
  BY <1>1 DEF Carrying, Linked, Stopped, Whole, Types, DataTypes, ControlTypes
<1>7. Ending'
  BY <1>1, <1>4 DEF Ending, Types, DataTypes, ControlTypes, rxVars, errVars
<1> QED
  BY <1>3, <1>4, <1>5, <1>6, <1>7

\* What is behind one of the transfers in the queue
LEMMA RecvRest ==
  ASSUME Types, Receiving, NEW k \in 1..Len(rxq)
  PROVE  LET r == SubSeq(rxq, k + 1, Len(rxq))
         IN  /\ r \in Seq(Piece) /\ Chain(After(rxq[k], Mts), r, Mts, sent)
             /\ Behind(After(rxq[k], Mts), r, Mts) = HandAt
<1>1. rxq \in Seq(Piece) /\ Chain(QueueAt, rxq, Mts, sent)
  BY DEF Types, DataTypes, Receiving
<1>2. /\ SubSeq(rxq, 1, k) \in Seq(Piece) /\ SubSeq(rxq, k + 1, Len(rxq)) \in Seq(Piece)
      /\ Chain(QueueAt, SubSeq(rxq, 1, k), Mts, sent)
      /\ Behind(QueueAt, SubSeq(rxq, 1, k), Mts) = After(rxq[k], Mts)
      /\ Chain(After(rxq[k], Mts), SubSeq(rxq, k + 1, Len(rxq)), Mts, sent)
      /\ Behind(After(rxq[k], Mts), SubSeq(rxq, k + 1, Len(rxq)), Mts) = Behind(QueueAt, rxq, Mts)
  <2>1. ASSUME NEW q \in Seq(Piece), NEW i \in 1..Len(q), NEW p, NEW m, NEW s, Chain(p, q, m, s)
        PROVE  /\ SubSeq(q, 1, i) \in Seq(Piece) /\ SubSeq(q, i + 1, Len(q)) \in Seq(Piece)
               /\ Chain(p, SubSeq(q, 1, i), m, s)
               /\ Behind(p, SubSeq(q, 1, i), m) = After(q[i], m)
               /\ Chain(After(q[i], m), SubSeq(q, i + 1, Len(q)), m, s)
               /\ Behind(After(q[i], m), SubSeq(q, i + 1, Len(q)), m) = Behind(p, q, m)
    BY <2>1, ChainSplit
  <2> QED BY <1>1, <2>1
<1> QED
  BY <1>2 DEF HandAt

\* A round of recv(): the chain is shorter by the transfers it takes.
LEMMA ToHostRecv ==
  ASSUME ToHostInv, Recv
  PROVE  /\ ToHostInv' /\ ended = "no"
         /\ \/ got' = got
            \/ Len(got) < Len(sent) /\ got' = Append(got, sent[Len(got) + 1])
<1> USE DEF ToHostInv
<1> DEFINE k == BatchLen
           t == rxq[k]
           b == Joined(k)
           r == SubSeq(rxq, k + 1, Len(rxq))
           i == Len(got) + 1
           n == t.from + t.len
<1>1. /\ rx_alive /\ rxq # <<>> /\ rxq' = r
      /\ buffer' = IF TooBig(b) \/ IsShort(t) THEN Empty ELSE b
      /\ got' = IF ~TooBig(b) /\ IsShort(t) THEN Append(got, b) ELSE got
      /\ UNCHANGED <<devVars, busVars, taskVars, rx_alive, ended, errVars,
                     halfVars, failed>>
  BY DEF Recv
<1>2. /\ b = Data(i, 0, n) /\ i \in DOMAIN sent
      /\ t.of = i /\ t.from \in Nat /\ t.len \in Nat /\ n <= sent[i].len
      /\ ~TooBig(b)
      /\ IsShort(t) => b = sent[i] /\ After(t, Mts) = Pos(Len(got) + 2, 0)
      /\ ~IsShort(t) => k = Len(rxq) /\ After(t, Mts) = Pos(i, n)
  BY <1>1, RecvBatch
<1>3. k \in 1..Len(rxq)
  BY <1>1, BatchIsFirstShort
<1>4. rxq \in Seq(Piece) /\ Chain(QueueAt, rxq, Mts, sent)
  BY DEF Types, DataTypes, Receiving
<1>5. /\ r \in Seq(Piece) /\ Chain(After(t, Mts), r, Mts, sent)
      /\ Behind(After(t, Mts), r, Mts) = HandAt
  <2> HIDE DEF k
  <2> QED
    BY <1>3, RecvRest
<1>6. Len(r) <= Len(rxq) /\ Len(r) \in Nat
  <2> HIDE DEF k
  <2>1. /\ Len(rxq) \in Nat /\ k \in Nat \ {0} /\ k <= Len(rxq)
        /\ \A j \in 1..Len(rxq) : rxq[j] \in Piece
    BY <1>3, <1>4
  <2>2. \A j \in (k + 1)..Len(rxq) : rxq[j] \in Piece
    BY <2>1
  <2>3. Len(r) = IF k + 1 <= Len(rxq) THEN Len(rxq) - (k + 1) + 1 ELSE 0
    BY <2>1, <2>2, SubSeqProperties
  <2> QED
    BY <2>1, <2>3
<1> HIDE DEF r
<1>7. ended = "no"
  BY <1>1 DEF Ending, Types, ControlTypes
<1>8. /\ sent \in Seq(Packets) /\ got \in Seq(Packets) /\ Len(got) \in Nat /\ Len(sent) \in Nat
      /\ Len(got) < Len(sent) /\ i \in Nat \ {0} /\ n \in Nat /\ sent[i] \in Packets
      /\ i <= MaxPackets
  <2>1. sent \in Seq(Packets) /\ got \in Seq(Packets) /\ Len(sent) <= MaxPackets
    BY DEF Types, DataTypes, Received
  <2> QED
    BY <1>2, <2>1, PipeAssumption
<1> HIDE DEF k, n
<1>9. /\ IsShort(t) => got' = Append(got, sent[i]) /\ buffer' = Empty
      /\ ~IsShort(t) => got' = got /\ buffer' = Data(i, 0, n)
  BY <1>1, <1>2
<1>10. Received'
  <2>1. sent' = sent
    BY <1>1 DEF devVars
  <2>2. CASE IsShort(t)
    <3> DEFINE x == sent[i]
    <3>1. x \in Packets
      BY <1>8
    <3> HIDE DEF x
    <3>2. /\ got' \in Seq(Packets) /\ Len(got') = i /\ got'[i] = x
          /\ \A j \in 1..Len(got) : got'[j] = got[j]
      BY <2>2, <3>1, <1>8, <1>9, SMTT(40) DEF x
    <3> QED
      BY <2>1, <3>2, <1>8 DEF Received, x
  <2>3. CASE ~IsShort(t)
    BY <2>1, <2>3, <1>9 DEF Received
  <2> QED
    BY <2>2, <2>3
<1>11. /\ buffer' \in Piece /\ (buffer'.of = Nothing => buffer' = Empty)
       /\ FilledFrom(RxAt', buffer', sent)
       /\ QueueAt' = After(t, Mts)
  <2>1. CASE IsShort(t)
    <3>1. RxAt' = Pos(Len(got) + 2, 0)
      <4> DEFINE x == sent[i]
      <4>1. x \in Packets /\ got' = Append(got, x)
        BY <2>1, <1>8, <1>9
      <4> HIDE DEF x
      <4>2. Len(got') = Len(got) + 1
        BY <4>1, <1>8
      <4> QED
        BY <4>2, <1>8 DEF RxAt
    <3>2. buffer' = Empty
      BY <2>1, <1>9
    <3> QED
      BY <2>1, <3>1, <3>2, <1>2, PipeAssumption
         DEF QueueAt, FilledTo, FilledFrom, Empty, Data, Piece, Nothing
  <2>2. CASE ~IsShort(t)
    <3>1. RxAt' = Pos(i, 0)
      BY <2>2, <1>9 DEF RxAt
    <3>2. buffer' = Data(i, 0, n)
      BY <2>2, <1>9
    <3> DEFINE y == Data(i, 0, n)
    <3>3. y.of = i /\ y.from = 0 /\ y.len = n /\ y \in Piece
      BY <1>8, PipeAssumption DEF Data, Piece
    <3>4. n <= sent[i].len
      BY <1>2 DEF n
    <3> HIDE DEF y
    <3>5. FilledFrom(Pos(i, 0), y, sent)
      BY <3>3, <3>4, <1>2, <1>8 DEF FilledFrom, Start
    <3>6. FilledTo(Pos(i, 0), y) = Pos(i, n)
      BY <3>3, <1>8 DEF FilledTo, Nothing
    <3>7. After(t, Mts) = Pos(i, n)
      BY <2>2, <1>2 DEF n
    <3> QED
      BY <3>1, <3>2, <3>3, <3>5, <3>6, <3>7, <1>8 DEF QueueAt, y, Nothing
  <2> QED
    BY <2>1, <2>2
<1>12. HandAt' = HandAt /\ Chain(QueueAt', rxq', Mts, sent)
  BY <1>1, <1>5, <1>11 DEF HandAt
<1>13. Receiving'
  BY <1>1, <1>11, <1>12 DEF Receiving, devVars
<1>14. Types'
  <2>1. DataTypes'
    <3>1. rxq' \in Seq(Piece) /\ Len(rxq') <= QueueLen
      BY <1>1, <1>5, <1>6, <1>4, PipeAssumption DEF Types, DataTypes
    <3> QED
      BY <1>1, <3>1 DEF Types, DataTypes, devVars, busVars, taskVars
  <2>2. ControlTypes'
    BY <1>1 DEF Types, ControlTypes, devVars, taskVars, errVars, halfVars
  <2> QED
    BY <2>1, <2>2 DEF Types
<1>15. /\ BufsAt' = BufsAt /\ FillAt' = FillAt /\ WireAt' = WireAt /\ PartsAt' = PartsAt
       /\ TxAt' = TxAt /\ Queued' = Queued /\ Whole' = Whole /\ EndAt' = EndAt
  BY <1>1, <1>12 DEF BufsAt, FillAt, WireAt, PartsAt, TxAt, Queued, Whole, EndAt,
                     devVars, busVars, taskVars
<1>16. Carrying' /\ Linked' /\ Sending' /\ Parted' /\ Stopped'
  BY <1>1, <1>12, <1>15 DEF Carrying, Linked, Sending, Parted, Stopped,
                            devVars, busVars, taskVars, halfVars
<1>17. Ending'
  BY <1>1, <1>7, <1>12, <1>15 DEF Ending, devVars, taskVars, errVars, halfVars
<1>18. \/ got' = got
       \/ Len(got) < Len(sent) /\ got' = Append(got, sent[Len(got) + 1])
  <2> HIDE DEF t
  <2> QED
    BY <1>8, <1>9
<1> QED
  BY <1>7, <1>10, <1>13, <1>14, <1>16, <1>17, <1>18

\* recv() reports the end ...
LEMMA ToHostRecvEnd ==
  ASSUME ToHostInv, RecvEnd
  PROVE  ToHostInv'
<1> USE DEF ToHostInv
<1>1. /\ rx_alive /\ rxq = <<>> /\ in_task = "done" /\ ended = "no"
      /\ ended' = IF error THEN "error" ELSE "eof"
      /\ UNCHANGED <<devVars, busVars, taskVars, rxq, rx_alive, buffer, got,
                     errVars, halfVars, failed>>
  BY DEF RecvEnd
<1>2. /\ Receiving' /\ Received' /\ Carrying' /\ Sending' /\ Parted'
      /\ TxAt' = TxAt /\ Queued' = Queued /\ Whole' = Whole
      /\ HandAt' = HandAt /\ EndAt' = EndAt
  BY <1>1, ToHostDataKept DEF devVars, busVars, taskVars
<1>3. Types'
  <2>1. DataTypes'
    BY <1>1 DEF Types, DataTypes, devVars, busVars, taskVars
  <2>2. ControlTypes'
    BY <1>1 DEF Types, ControlTypes, devVars, taskVars, errVars, halfVars
  <2> QED
    BY <2>1, <2>2 DEF Types
<1>4. Linked' /\ Stopped' /\ Ending'
  BY <1>1, <1>2 DEF Linked, Stopped, Ending, devVars, busVars, taskVars, errVars, halfVars
<1> QED
  BY <1>2, <1>3, <1>4

\* ... and the receiver may be dropped at any time.
LEMMA ToHostDropReceiver ==
  ASSUME ToHostInv, DropReceiver
  PROVE  ToHostInv'
<1> USE DEF ToHostInv
<1>1. /\ rx_alive /\ rx_alive' = FALSE /\ rxq' = <<>> /\ buffer' = Empty
      /\ UNCHANGED <<devVars, busVars, taskVars, got, ended, errVars, halfVars, failed>>
  BY DEF DropReceiver
<1>2. Types'
  <2>1. rxq' \in Seq(Piece) /\ Len(rxq') <= QueueLen
    BY <1>1, PipeAssumption
  <2>2. DataTypes'
    BY <1>1, <2>1 DEF Types, DataTypes, devVars, busVars, taskVars
  <2>3. ControlTypes'
    <3>1. rx_alive' \in BOOLEAN
      BY <1>1
    <3>2. ControlTypes
      BY DEF Types
    <3> QED
      BY <1>1, <3>1, <3>2 DEF ControlTypes, devVars, taskVars, errVars, halfVars
  <2> QED
    BY <2>2, <2>3 DEF Types
<1>3. Empty \in Piece
  BY PipeAssumption DEF Empty, Data, Piece, Nothing
<1>4. Receiving' /\ Received'
  BY <1>1, <1>3, ChainEmpty DEF Receiving, Received, FilledFrom, devVars
<1>5. Carrying' /\ Linked' /\ Sending' /\ Parted' /\ Stopped'
  BY <1>1 DEF Carrying, Linked, Sending, Parted, Stopped, Whole, devVars, busVars,
              taskVars, halfVars
<1>6. Ending'
  BY <1>1 DEF Ending, devVars, taskVars, errVars, halfVars
<1> QED
  BY <1>2, <1>4, <1>5, <1>6

\* Every step preserves the invariant.
LEMMA ToHostStep ==
  ASSUME ToHostInv, [Next]_vars
  PROVE  ToHostInv'
<1>1. ASSUME UNCHANGED vars PROVE ToHostInv'
  <2>1. UNCHANGED <<devVars, busVars, taskVars, rxVars, errVars, halfVars, failed>>
    BY <1>1 DEF vars
  <2>2. /\ Receiving' /\ Received' /\ Carrying' /\ Sending' /\ Parted'
        /\ TxAt' = TxAt /\ Queued' = Queued /\ Whole' = Whole
        /\ HandAt' = HandAt /\ EndAt' = EndAt
    BY <2>1, ToHostDataKept DEF ToHostInv, devVars, busVars, taskVars, rxVars
  <2>3. Types'
    BY <2>1 DEF ToHostInv, Types, DataTypes, ControlTypes, devVars, busVars, taskVars, rxVars,
                errVars, halfVars
  <2>4. Linked' /\ Stopped' /\ Ending'
    BY <2>1, <2>2 DEF ToHostInv, Linked, Stopped, Ending, devVars, busVars, taskVars, rxVars,
                      errVars, halfVars
  <2> QED
    BY <2>2, <2>3, <2>4 DEF ToHostInv
<1>2. CASE Next
  BY <1>2, ToHostSend, ToHostDevTake, ToHostDevSendPart, ToHostDevDone, ToHostDevLost,
     ToHostBusIn, ToHostHostComplete, ToHostHostHandOver, ToHostLoopEnds, ToHostClosing,
     ToHostAsked, ToHostRecv, ToHostRecvEnd, ToHostDropReceiver DEF Next
<1> QED
  BY <1>1, <1>2

\* The invariant of the device-to-host direction holds for every stream of packets,
\* every size of the stages and every order of events.
THEOREM ToHostInvariant == Spec => []ToHostInv
<1>1. Init => ToHostInv
  BY ToHostInit
<1>2. ToHostInv /\ [Next]_vars => ToHostInv'
  BY ToHostStep
<1> QED
  BY <1>1, <1>2, PTL DEF Spec

-----------------------------------------------------------------------------
(* What follows                                                            *)

\* Type correctness of the device-to-host direction: every stage holds only
\* pieces of packets that were sent, and a buffer that is being filled is
\* never full.
THEOREM ToHostTypes == Spec => []TypeOK
<1>1. ASSUME ToHostInv PROVE TypeOK
  <2>1. fill.len < Mts
    <3> DEFINE u == [len |-> 0]
    <3>1. WholePackets(fill) /\ u.len \in 0..Mps
      BY <1>1, FramingAssumption DEF ToHostInv, Types, DataTypes
    <3> HIDE DEF u
    <3> QED
      BY <3>1, Filling
  <2>2. got \in Seq(Piece)
    <3>1. ASSUME NEW p \in Packets PROVE p \in Piece
      <4>1. /\ p = [of |-> p.of, from |-> p.from, len |-> p.len]
            /\ p.of \in 1..MaxPackets /\ p.from = 0 /\ p.len \in Nat
        BY PipeAssumption DEF Packets
      <4>2. p.of \in -1..MaxPackets
        BY <4>1, PipeAssumption
      <4> QED
        BY <4>1, <4>2 DEF Piece
    <3>2. got \in Seq(Packets)
      BY <1>1 DEF ToHostInv, Received
    <3> QED
      BY <3>1, <3>2
  <2> QED
    BY <1>1, <2>1, <2>2 DEF ToHostInv, Types, DataTypes, ControlTypes, Receiving, TypeOK
<1> QED
  BY <1>1, ToHostInvariant, PTL

\* The end recv() reports is one the channel allows: a stored error means that
\* something of the host failed, and a clean end comes when the device failed,
\* or when the sender is gone and everything has been delivered.
LEMMA EndAllowed ==
  ASSUME ToHostInv, RecvEnd
  PROVE  /\ error => failed
         /\ ~error => dev_failed \/ (~sender /\ got = sent)
<1> USE DEF ToHostInv
<1>1. rx_alive /\ rxq = <<>> /\ in_task = "done"
  BY DEF RecvEnd
<1>2. ASSUME ~error, ~dev_failed PROVE ~sender /\ got = sent
  <2>1. ~sender /\ HandAt = EndAt
    BY <1>1, <1>2 DEF Ending
  <2>2. QueueAt = EndAt
    BY <1>1, <2>1 DEF HandAt, Behind
  <2>3. buffer = Empty
    <3> SUFFICES ASSUME buffer # Empty PROVE FALSE
      OBVIOUS
    <3>1. buffer.of \in DOMAIN sent /\ buffer.of # Nothing
      BY DEF Receiving, FilledFrom
    <3>2. QueueAt.of = buffer.of
      BY <3>1 DEF QueueAt, FilledTo, Pos
    <3>3. EndAt.of = Len(sent) + 1
      BY DEF EndAt, Pos
    <3> QED
      BY <2>2, <3>1, <3>2, <3>3 DEF Types, DataTypes
  <2>4. QueueAt = RxAt
    BY <2>3 DEF QueueAt, FilledTo, Empty, Data
  <2>5. Len(got) = Len(sent)
    <3>1. RxAt.of = Len(got) + 1 /\ EndAt.of = Len(sent) + 1
      BY DEF RxAt, EndAt, Pos
    <3> QED
      BY <2>2, <2>4, <3>1 DEF Received, Types, DataTypes
  <2>6. got = sent
    <3>1. got \in Seq(Packets) /\ sent \in Seq(Packets) /\ \A i \in 1..Len(got) : got[i] = sent[i]
      BY DEF Received, Types, DataTypes
    <3> QED
      BY <2>5, <3>1, SeqEqual
  <2> QED
    BY <2>1, <2>6
<1> QED
  BY <1>2 DEF Ending

\* The initial state is one of the channel.
LEMMA ToHostInitMaps == Init => Channel!Init
  BY DEF Init, Channel!Init

\* Every step is one of the channel, or none.
LEMMA ToHostStepMaps ==
  ASSUME ToHostInv, [Next]_vars
  PROVE  [Channel!Next]_(Channel!channelVars)
<1> USE DEF Channel!Next, Channel!channelVars
<1>1. CASE Send
  <2>1. PICK n \in Sizes :
           sent' = Append(sent, [of |-> Len(sent) + 1, from |-> 0, len |-> n])
    BY <1>1 DEF Send, Data
  <2>2. sender /\ Len(sent) < MaxPackets /\ UNCHANGED <<got, sender, ended, failed, dev_failed>>
    BY <1>1 DEF Send, rxVars, halfVars
  <2> QED
    BY <2>1, <2>2 DEF Channel!Send
<1>2. CASE DropSender
  BY <1>2 DEF DropSender, Channel!Close, rxVars, halfVars
<1>3. CASE DevFailed \/ DevTimedOut
  <2>1. /\ dev_failed' = TRUE /\ failed' = failed
        /\ UNCHANGED <<sent, got, sender, ended>>
    BY <1>3 DEF DevFailed, DevTimedOut, rxVars
  <2> QED
    BY <2>1 DEF Channel!Break
<1>4. CASE HostFailed \/ StatusFailed \/ OtherFailed \/ CloseRecvLost \/ CloseLost
  <2>1. /\ failed' = TRUE /\ dev_failed' = dev_failed
        /\ UNCHANGED <<sent, got, sender, ended>>
    BY <1>4 DEF HostFailed, LoopEnds, StatusFailed, OtherFailed, CloseRecvLost, CloseLost,
                devVars, rxVars, halfVars
  <2> QED
    BY <2>1 DEF Channel!Break
<1>5. CASE Recv
  <2>1. /\ ended = "no"
        /\ \/ got' = got
           \/ Len(got) < Len(sent) /\ got' = Append(got, sent[Len(got) + 1])
    BY <1>5, ToHostRecv
  <2>2. UNCHANGED <<sent, sender, ended, failed, dev_failed>>
    BY <1>5 DEF Recv, devVars, halfVars
  <2> QED
    BY <2>1, <2>2 DEF Channel!Deliver
<1>6. CASE RecvEnd
  <2>1. /\ error => failed
        /\ ~error => dev_failed \/ (~sender /\ got = sent)
    BY <1>6, EndAllowed
  <2>2. /\ ended = "no" /\ ended' = IF error THEN "error" ELSE "eof"
        /\ UNCHANGED <<sent, got, sender, failed, dev_failed>>
    BY <1>6 DEF RecvEnd, devVars, halfVars
  <2> QED
    BY <2>1, <2>2 DEF Channel!End
<1>7. CASE \/ DevTake \/ DevSendPart \/ DevDone \/ BusIn \/ HostComplete \/ HostHandOver
           \/ HostStalled \/ HostDropped \/ HostDead \/ CloseRecv \/ SendDone \/ Close
           \/ DropReceiver
  <2>1. UNCHANGED <<sent, got, sender, ended, failed, dev_failed>>
    BY <1>7 DEF DevTake, DevSendPart, DevDone, BusIn, HostComplete, HostHandOver,
                HostStalled, HostDropped, HostDead, LoopEnds, CloseRecv, SendDone, Close,
                DropReceiver, devVars, rxVars, halfVars
  <2> QED
    BY <2>1
<1>8. CASE UNCHANGED vars
  BY <1>8 DEF vars, devVars, rxVars, halfVars
<1> QED
  BY <1>1, <1>2, <1>3, <1>4, <1>5, <1>6, <1>7, <1>8 DEF Next

\* The direction implements the packet channel: what recv() returns is what
\* send() accepted, in order, without gaps or repetitions, and its end is one
\* the channel allows.
THEOREM ToHostImplementsChannel == Spec => ChannelSpec
<1>1. Init => Channel!Init
  BY ToHostInitMaps
<1>2. ToHostInv /\ [Next]_vars => [Channel!Next]_(Channel!channelVars)
  BY ToHostStepMaps
<1> QED
  BY <1>1, <1>2, ToHostInvariant, PTL DEF Spec, ChannelSpec, Channel!Spec
=============================================================================
