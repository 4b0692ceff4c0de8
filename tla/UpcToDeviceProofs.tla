--------------------------- MODULE UpcToDeviceProofs ---------------------------
(***************************************************************************)
(* The host-to-device direction implements the packet channel, and what    *)
(* the byte count of CLOSE_SEND is good for.                               *)
(*                                                                         *)
(* The invariant follows the data as in UpcToHostProofs.  Besides, the two *)
(* byte counters are the numbers of bytes of the stream before two places: *)
(* total counts the packets out_task has taken, received counts up to the  *)
(* place where the queue of recv() ends.                                   *)
(***************************************************************************)
EXTENDS UpcToDevice, UpcFramingProofs

-----------------------------------------------------------------------------
(* Where each stage begins                                                 *)

RxAt    == Pos(Len(got) + 1, 0)
QueueAt == FilledTo(RxAt, buffer)
BufsAt  == Behind(QueueAt, rxq, Mts)
FillAt  == Behind(BufsAt, bufs, Mts)
WireAt  == FilledTo(FillAt, fill)
TxAt    == Behind(WireAt, wire, Mps)
Queued  == Pos(Len(sent) - Len(txq) + 1, 0)

-----------------------------------------------------------------------------
(* The invariant                                                           *)

\* What the variables are, those that do not depend on the chain
DataTypes ==
    /\ sent \in Seq(Packets) /\ Len(sent) <= MaxPackets
    /\ txq \in Seq(Packets) /\ Len(txq) <= QueueLen
    /\ wire \in Seq(UsbData)
    /\ fill \in Piece /\ WholePackets(fill) /\ (fill.of = Nothing => fill = Empty)
    /\ bufs \in Seq(Piece) /\ Len(bufs) <= PostedBuffers
    /\ rxq \in Seq(Piece) /\ Len(rxq) <= QueueLen

ControlTypes ==
    /\ sender \in BOOLEAN /\ initiated \in BOOLEAN
    /\ out_task \in {"waiting", "completing", "draining", "done"}
    /\ send_closed \in BOOLEAN /\ recv_closed \in BOOLEAN /\ closed \in BOOLEAN
    /\ halted \in BOOLEAN /\ in_task \in BOOLEAN /\ rx_alive \in BOOLEAN
    /\ in_end \in {"no", "all", "dropped", "failed", "close"}
    /\ ended \in {"no", "eof"} /\ failed \in BOOLEAN

CountTypes == total \in Nat /\ received \in Nat /\ in_close \in {NoCount} \cup Nat

\* The packets are numbered, none is larger than the receiver takes, and the
\* queue of out_task holds the last ones.
Sending ==
    /\ Stream(sent) /\ \A i \in 1..Len(sent) : sent[i].len <= MaxSize
    /\ Len(txq) <= Len(sent)
    /\ \A j \in 1..Len(txq) : txq[j] = sent[Len(sent) - Len(txq) + j]

\* What was received is what was sent first.
Received ==
    /\ Len(got) <= Len(sent) /\ got \in Seq(Packets)
    /\ \A i \in 1..Len(got) : got[i] = sent[i]

\* The receiver's part of the chain
Receiving ==
    /\ FilledFrom(RxAt, buffer, sent) /\ buffer \in Piece
    /\ (buffer.of = Nothing => buffer = Empty)
    /\ Chain(QueueAt, rxq, Mts, sent)
    /\ ~rx_alive => buffer = Empty /\ rxq = <<>>

\* The part of the endpoint, as long as in_task takes it to the receiver
Whole == rx_alive /\ in_task
Carrying ==
    Whole =>
        /\ Chain(BufsAt, bufs, Mts, sent)
        /\ FilledFrom(FillAt, fill, sent)
        /\ Chain(WireAt, wire, Mps, sent)

\* The chain ends where the queue begins, as long as out_task sends.
Linked == Whole /\ out_task \in {"waiting", "completing"} => TxAt = Queued

\* The end of the two tasks
Ending ==
    /\ send_closed => out_task = "done"
    /\ ended # "no" => rxq = <<>> /\ ~in_task
    /\ initiated => ~sender /\ txq = <<>> /\ out_task \in {"draining", "done"}
    /\ in_close # NoCount =>
         in_close = total /\ ~sender /\ txq = <<>> /\ out_task = "done"
    /\ in_end = "all" =>
         ~in_task /\ received = total /\ ~sender /\ txq = <<>> /\ out_task = "done"

CountedBy(b) ==
    /\ total = b[Len(sent) - Len(txq)]
    /\ rx_alive => received = b[BufsAt.of - 1] + BufsAt.at

\* What the two counters count
Counted == \E b : Sums(b, sent) /\ CountedBy(b)

\* Where a transfer of in_task begins in its packet
Aligned == \E k \in Nat : BufsAt.at = k * Mts

\* The announced bytes were received and the end was reported.
Covered ==
    in_end = "all" /\ ended = "eof" =>
        \A i \in 1..Len(sent) : sent[i].len % Mts # 0 => Len(got) >= i

ToDeviceInv ==
    /\ DataTypes /\ ControlTypes /\ CountTypes
    /\ Sending /\ Received /\ Receiving /\ Carrying /\ Linked /\ Ending
    /\ Counted /\ Aligned /\ Covered

-----------------------------------------------------------------------------
(* What a step leaves alone                                                *)

\* Nothing changes for the receiver.
LEMMA ToDeviceReceiverKept ==
  ASSUME Receiving, Received, Aligned, UNCHANGED <<sent, rxq, rx_alive, buffer, got>>
  PROVE  /\ Receiving' /\ Received' /\ Aligned'
         /\ RxAt' = RxAt /\ QueueAt' = QueueAt /\ BufsAt' = BufsAt
<1>1. RxAt' = RxAt /\ QueueAt' = QueueAt /\ BufsAt' = BufsAt
  BY DEF RxAt, QueueAt, BufsAt
<1>2. Receiving' /\ Received' /\ Aligned'
  BY <1>1 DEF Receiving, Received, Aligned
<1> QED
  BY <1>1, <1>2

\* Nothing changes for the data on its way either.
LEMMA ToDeviceDataKept ==
  ASSUME Receiving, Received, Aligned, Carrying, Sending,
         UNCHANGED <<sent, txq, wire, fill, bufs, in_task, rxq, rx_alive, buffer, got>>
  PROVE  /\ Receiving' /\ Received' /\ Aligned' /\ Carrying' /\ Sending'
         /\ TxAt' = TxAt /\ Queued' = Queued /\ Whole' = Whole /\ BufsAt' = BufsAt
<1>1. /\ Receiving' /\ Received' /\ Aligned'
      /\ RxAt' = RxAt /\ QueueAt' = QueueAt /\ BufsAt' = BufsAt
  BY ToDeviceReceiverKept
<1>2. /\ FillAt' = FillAt /\ WireAt' = WireAt /\ TxAt' = TxAt
      /\ Queued' = Queued /\ Whole' = Whole
  BY <1>1 DEF FillAt, WireAt, TxAt, Queued, Whole
<1>3. Carrying' /\ Sending'
  BY <1>1, <1>2 DEF Carrying, Sending
<1> QED
  BY <1>1, <1>2, <1>3

\* Nothing changes for what was counted.
LEMMA ToDeviceCountKept ==
  ASSUME Counted, UNCHANGED <<sent, txq, total, received>>, BufsAt' = BufsAt,
         rx_alive' => rx_alive
  PROVE  Counted'
  BY DEF Counted, CountedBy

\* Where the transfers end that in_task has received
LEMMA BufsWithin ==
  ASSUME DataTypes, Sending, Received, Receiving
  PROVE  Within(BufsAt, sent) /\ Within(QueueAt, sent)
<1>1. /\ sent \in Seq(Packets) /\ Len(sent) \in Nat /\ got \in Seq(Packets)
      /\ Len(got) \in Nat /\ Len(got) <= Len(sent) /\ rxq \in Seq(Piece)
      /\ Stream(sent)
  BY DEF DataTypes, Received, Sending
<1>2. Within(RxAt, sent)
  <2>1. RxAt.of = Len(got) + 1 /\ RxAt.at = 0
    BY DEF RxAt, Pos
  <2>2. Len(got) + 1 <= Len(sent) => sent[Len(got) + 1].len \in Nat
    BY <1>1 DEF Stream
  <2> QED
    BY <1>1, <2>1, <2>2 DEF Within
<1>3. Within(QueueAt, sent)
  BY <1>1, <1>2, FilledWithin DEF QueueAt, Receiving
<1>4. Mts \in Nat
  BY FramingAssumption DEF Mts
<1>5. Within(BufsAt, sent)
  BY <1>1, <1>3, <1>4, BehindWithin DEF BufsAt, Receiving
<1> QED
  BY <1>3, <1>5

\* An empty buffer
LEMMA EmptyBuffer == Empty \in Piece /\ WholePackets(Empty) /\ Empty.of = Nothing /\ Empty.len = 0
<1>1. Empty.len = 0 * Mps /\ 0 \in 0..(TransferPackets - 1)
  BY FramingAssumption DEF Empty, Data
<1> QED
  BY <1>1, PipeAssumption DEF Piece, Empty, Data, Nothing, WholePackets

-----------------------------------------------------------------------------
(* The invariant holds                                                     *)

\* The invariant holds at the start: every stage is empty.
LEMMA ToDeviceInit ==
  ASSUME Init
  PROVE  ToDeviceInv
<1> USE FramingAssumption, PipeAssumption
<1>1. DataTypes
  <2>1. fill \in Piece /\ WholePackets(fill) /\ (fill.of = Nothing => fill = Empty)
    BY EmptyBuffer DEF Init
  <2>2. /\ sent \in Seq(Packets) /\ txq \in Seq(Packets) /\ wire \in Seq(UsbData)
        /\ bufs \in Seq(Piece) /\ rxq \in Seq(Piece)
    BY DEF Init
  <2>3. /\ Len(sent) <= MaxPackets /\ Len(txq) <= QueueLen /\ Len(bufs) <= PostedBuffers
        /\ Len(rxq) <= QueueLen
    BY DEF Init
  <2> QED
    BY <2>1, <2>2, <2>3 DEF DataTypes
<1>2. ControlTypes /\ CountTypes /\ Ending /\ Covered
  BY DEF Init, ControlTypes, CountTypes, Ending, Covered
<1>3. Sending /\ Received
  BY DEF Init, Sending, Stream, Received
<1>4. /\ RxAt = Pos(1, 0) /\ QueueAt = Pos(1, 0) /\ BufsAt = Pos(1, 0)
      /\ FillAt = Pos(1, 0) /\ WireAt = Pos(1, 0) /\ TxAt = Pos(1, 0) /\ Queued = Pos(1, 0)
  BY EmptyBuffer DEF Init, RxAt, QueueAt, BufsAt, FillAt, WireAt, TxAt, Queued, Behind, FilledTo
<1>5. Receiving /\ Carrying
  BY EmptyBuffer, ChainEmpty DEF Init, Receiving, Carrying, FilledFrom
<1>6. Aligned
  <2>1. BufsAt.at = 0 * Mts /\ 0 \in Nat
    BY <1>4 DEF Pos, Mts
  <2> QED
    BY <2>1 DEF Aligned
<1>7. Counted
  <2> DEFINE b == [i \in 0..0 |-> 0]
  <2>1. b[0] = 0 /\ b \in [0..0 -> Nat]
    OBVIOUS
  <2> HIDE DEF b
  <2>2. Sums(b, sent) /\ CountedBy(b)
    BY <1>4, <2>1 DEF Init, Sums, CountedBy, Pos
  <2> QED
    BY <2>2 DEF Counted
<1> QED
  BY <1>1, <1>2, <1>3, <1>4, <1>5, <1>6, <1>7 DEF ToDeviceInv, Linked

\* A packet that is accepted is behind all others, and in the queue.
LEMMA ToDeviceSend ==
  ASSUME ToDeviceInv, Send
  PROVE  ToDeviceInv'
<1> USE PipeAssumption DEF ToDeviceInv
<1>1. PICK n \in Sizes :
         /\ n <= MaxSize /\ sent' = Append(sent, Data(Len(sent) + 1, 0, n))
         /\ txq' = Append(txq, Data(Len(sent) + 1, 0, n))
  BY DEF Send
<1> DEFINE x == Data(Len(sent) + 1, 0, n)
<1>2. /\ sender /\ out_task # "done" /\ Len(txq) < QueueLen /\ Len(sent) < MaxPackets
      /\ UNCHANGED <<sender, out_task, initiated, total, halfVars, busVars,
                     taskVars, rxVars, failed>>
  BY DEF Send
<1>3. /\ sent \in Seq(Packets) /\ txq \in Seq(Packets) /\ n \in Nat /\ x \in Packets
      /\ x.of = Len(sent) + 1 /\ x.from = 0 /\ x.len = n
  BY <1>2 DEF DataTypes, Packets, Data
<1>4. /\ sent' = Append(sent, x) /\ txq' = Append(txq, x)
  BY <1>1
<1> HIDE DEF x
<1>5. /\ sent' \in Seq(Packets) /\ Len(sent') = Len(sent) + 1 /\ sent'[Len(sent) + 1] = x
      /\ \A i \in 1..Len(sent) : sent'[i] = sent[i]
      /\ txq' \in Seq(Packets) /\ Len(txq') = Len(txq) + 1 /\ txq'[Len(txq) + 1] = x
      /\ \A i \in 1..Len(txq) : txq'[i] = txq[i]
      /\ Len(sent) \in Nat /\ Len(txq) \in Nat
  BY <1>3, <1>4
<1>6. DataTypes' /\ ControlTypes' /\ CountTypes'
  BY <1>2, <1>5 DEF DataTypes, ControlTypes, CountTypes, busVars, taskVars, rxVars, halfVars
<1>7. Sending'
  <2>1. Stream(sent')
    <3>1. ASSUME NEW i \in DOMAIN sent'
          PROVE  sent'[i].of = i /\ sent'[i].from = 0 /\ sent'[i].len \in Nat
      <4>1. i \in 1..Len(sent) \/ i = Len(sent) + 1
        BY <1>5
      <4>2. CASE i \in 1..Len(sent)
        BY <4>2, <1>5 DEF Sending, Stream
      <4>3. CASE i = Len(sent) + 1
        BY <4>3, <1>3, <1>5
      <4> QED
        BY <4>1, <4>2, <4>3
    <3> QED
      BY <3>1 DEF Stream
  <2>2. \A i \in 1..Len(sent') : sent'[i].len <= MaxSize
    BY <1>1, <1>3, <1>5 DEF Sending
  <2>3. ASSUME NEW j \in 1..Len(txq') PROVE txq'[j] = sent'[Len(sent') - Len(txq') + j]
    <3>1. CASE j = Len(txq) + 1
      BY <3>1, <1>5
    <3>2. CASE j # Len(txq) + 1
      <4>1. /\ j \in 1..Len(txq) /\ Len(sent) - Len(txq) + j \in 1..Len(sent)
            /\ Len(sent') - Len(txq') + j = Len(sent) - Len(txq) + j
        BY <3>2, <1>5 DEF Sending
      <4> QED
        BY <4>1, <1>5 DEF Sending
    <3> QED
      BY <3>1, <3>2
  <2> QED
    BY <2>1, <2>2, <2>3, <1>5 DEF Sending
<1>8. Received'
  BY <1>2, <1>5 DEF Received, rxVars
<1>9. /\ RxAt' = RxAt /\ QueueAt' = QueueAt /\ BufsAt' = BufsAt
      /\ FillAt' = FillAt /\ WireAt' = WireAt /\ TxAt' = TxAt /\ Whole' = Whole
  BY <1>2 DEF RxAt, QueueAt, BufsAt, FillAt, WireAt, TxAt, Whole, busVars, taskVars, rxVars
<1>10. Queued' = Queued /\ Aligned'
  BY <1>5, <1>9 DEF Queued, Aligned
<1>11. \A p, f : FilledFrom(p, f, sent) => FilledFrom(p, f, sent')
  BY <1>3, <1>5, SMTT(40) DEF FilledFrom
<1>12. Receiving'
  <2>1. Chain(QueueAt, rxq, Mts, sent')
    BY <1>3, <1>4, ChainGrows DEF Receiving, DataTypes
  <2> QED
    BY <2>1, <1>2, <1>9, <1>11 DEF Receiving, rxVars
<1>13. Carrying'
  <2> SUFFICES ASSUME Whole
               PROVE  /\ Chain(BufsAt, bufs, Mts, sent')
                      /\ FilledFrom(FillAt, fill, sent')
                      /\ Chain(WireAt, wire, Mps, sent')
    BY <1>2, <1>9 DEF Carrying, busVars
  <2> QED
    BY <1>3, <1>4, <1>11, ChainGrows DEF Carrying, DataTypes
<1>14. Linked' /\ Ending'
  BY <1>2, <1>9, <1>10 DEF Linked, Ending, busVars, taskVars, rxVars, halfVars
<1>15. Covered'
  BY <1>2 DEF Covered, Ending, taskVars, rxVars
<1>16. Counted'
  <2>1. PICK b : Sums(b, sent) /\ CountedBy(b)
    BY DEF Counted
  <2>2. PICK c : Sums(c, sent') /\ \A i \in 0..Len(sent) : c[i] = b[i]
    BY <1>3, <1>4, <2>1, SumsAppend
  <2>3. Within(BufsAt, sent)
    BY BufsWithin
  <2>4. CountedBy(c)'
    <3>1. /\ Len(sent') - Len(txq') = Len(sent) - Len(txq)
          /\ Len(sent) - Len(txq) \in 0..Len(sent) /\ BufsAt.of - 1 \in 0..Len(sent)
      BY <1>5, <2>3 DEF Within, Sending
    <3>2. total' = c[Len(sent') - Len(txq')]
      BY <1>2, <2>1, <2>2, <3>1 DEF CountedBy
    <3>3. rx_alive' => received' = c[BufsAt'.of - 1] + BufsAt'.at
      BY <1>2, <1>9, <2>1, <2>2, <3>1 DEF CountedBy, taskVars, rxVars
    <3> QED
      BY <3>2, <3>3 DEF CountedBy
  <2> QED
    BY <2>2, <2>4 DEF Counted
<1> QED
  BY <1>6, <1>7, <1>8, <1>10, <1>12, <1>13, <1>14, <1>15, <1>16

\* The transfers of a packet take their place on the wire.
LEMMA ToDeviceHostTake ==
  ASSUME ToDeviceInv, HostTake
  PROVE  ToDeviceInv'
<1> USE PipeAssumption DEF ToDeviceInv
<1> DEFINE i == Len(sent) - Len(txq) + 1
           q == HostTransfers(Head(txq))
<1>1. /\ out_task = "waiting" /\ txq # <<>> /\ wire' = wire \o q
      /\ total' = total + Head(txq).len
      /\ txq' = Tail(txq) /\ out_task' = "completing"
      /\ UNCHANGED <<sent, sender, initiated, halfVars, fill, bufs, halted,
                     taskVars, rxVars, failed>>
  BY DEF HostTake
<1>2. /\ sent \in Seq(Packets) /\ txq \in Seq(Packets) /\ Len(txq) \in Nat \ {0}
      /\ Len(sent) \in Nat /\ Len(txq) <= Len(sent) /\ i \in 1..Len(sent) /\ i \in DOMAIN sent
      /\ i \in 1..MaxPackets /\ Head(txq) = sent[i]
  <2>1. /\ sent \in Seq(Packets) /\ txq \in Seq(Packets) /\ Len(txq) \in Nat \ {0}
        /\ Len(sent) \in Nat /\ Len(sent) <= MaxPackets /\ MaxPackets \in Nat
    BY <1>1, EmptyLen DEF DataTypes
  <2>2. Len(txq) <= Len(sent) /\ txq[1] = sent[Len(sent) - Len(txq) + 1]
    BY <2>1 DEF Sending
  <2>3. i \in 1..Len(sent)
    BY <2>1, <2>2
  <2>4. DOMAIN sent = 1..Len(sent) /\ Head(txq) = txq[1]
    BY <2>1
  <2> QED
    BY <2>1, <2>2, <2>3, <2>4
<1>3. /\ txq' \in Seq(Packets) /\ Len(txq') = Len(txq) - 1
      /\ \A j \in 1..Len(txq') : txq'[j] = txq[j + 1]
  BY <1>1, <1>2, HeadTailProperties
<1> HIDE DEF i
<1>4. Covers(q, i, sent)
  BY <1>2, HostCovers DEF Sending
<1> HIDE DEF q
<1>5. q \in Seq(UsbData) /\ wire \in Seq(UsbData) /\ wire' \in Seq(UsbData)
  <2>1. SentOf(i) \subseteq UsbData
    BY <1>2 DEF SentOf, UsbData
  <2>2. q \in Seq(UsbData) /\ wire \in Seq(UsbData)
    BY <2>1, <1>4 DEF Covers, DataTypes
  <2> QED
    BY <2>2, <1>1
<1>6. DataTypes'
  BY <1>1, <1>2, <1>3, <1>5 DEF DataTypes, rxVars
<1>7. ControlTypes'
  BY <1>1 DEF ControlTypes, halfVars, taskVars, rxVars
<1>8. CountTypes'
  <2>1. sent[i].len \in Nat
    BY <1>2 DEF Sending, Stream
  <2> QED
    BY <2>1, <1>1, <1>2 DEF CountTypes, taskVars
<1>9. Sending'
  BY <1>1, <1>2, <1>3 DEF Sending
<1>10. /\ Receiving' /\ Received' /\ Aligned'
       /\ RxAt' = RxAt /\ QueueAt' = QueueAt /\ BufsAt' = BufsAt
  BY <1>1, ToDeviceReceiverKept DEF rxVars
<1>11. FillAt' = FillAt /\ WireAt' = WireAt /\ Whole' = Whole
  BY <1>1, <1>10 DEF FillAt, WireAt, Whole, taskVars, rxVars
<1>12. Carrying' /\ Linked'
  <2> SUFFICES ASSUME Whole
               PROVE  Chain(WireAt, wire', Mps, sent) /\ TxAt' = Queued'
    BY <1>1, <1>10, <1>11 DEF Carrying, Linked
  <2>1. TxAt = Pos(i, 0)
    BY <1>1 DEF Linked, Queued, i
  <2>2. /\ Chain(WireAt, wire', Mps, sent)
        /\ Behind(WireAt, wire', Mps) = Behind(Pos(i, 0), q, Mps)
    <3>1. Chain(Behind(WireAt, wire, Mps), q, Mps, sent) /\ Chain(WireAt, wire, Mps, sent)
      BY <2>1, <1>4 DEF Covers, TxAt, Carrying
    <3> QED
      BY <2>1, <3>1, <1>1, <1>5, ChainConcat DEF TxAt
  <2>3. TxAt' = Pos(i + 1, 0)
    BY <2>2, <1>4, <1>11 DEF TxAt, Covers
  <2>4. Queued' = Pos(i + 1, 0)
    BY <1>1, <1>2, <1>3 DEF Queued, i
  <2> QED
    BY <2>2, <2>3, <2>4
<1>13. Ending' /\ Covered'
  BY <1>1 DEF Ending, Covered, halfVars, taskVars, rxVars
<1>14. Counted'
  <2>1. PICK b : Sums(b, sent) /\ CountedBy(b)
    BY DEF Counted
  <2>2. b[i] = b[i - 1] + sent[i].len
    BY <2>1, <1>2 DEF Sums
  <2>3. i - 1 = Len(sent) - Len(txq) /\ i = Len(sent') - Len(txq')
    BY <1>1, <1>2, <1>3 DEF i
  <2>4. total' = b[Len(sent') - Len(txq')]
    BY <2>1, <2>2, <2>3, <1>1, <1>2 DEF CountedBy
  <2>5. rx_alive' => received' = b[BufsAt'.of - 1] + BufsAt'.at
    BY <2>1, <1>1, <1>10 DEF CountedBy, taskVars, rxVars
  <2>6. Sums(b, sent)' /\ CountedBy(b)'
    BY <2>1, <2>4, <2>5, <1>1 DEF CountedBy
  <2> QED
    BY <2>6 DEF Counted
<1> QED
  BY <1>6, <1>7, <1>8, <1>9, <1>10, <1>12, <1>13, <1>14

\* out_task goes on, or its loop ends: what is on the wire may be lost.
LEMMA ToDeviceHostStep ==
  ASSUME ToDeviceInv,
         \/ HostResume \/ HostQueueClosed \/ HostToldClosed \/ HostDead
         \/ HostStalled \/ HostFailed
  PROVE  ToDeviceInv'
<1> USE DEF ToDeviceInv
<1>1. /\ UNCHANGED <<sent, sender, txq, total, halfVars, fill, bufs, halted, taskVars, rxVars>>
      /\ wire' \in {wire, <<>>}
      /\ \/ out_task = "completing" /\ out_task' = "waiting" /\ wire' = wire
            /\ initiated' = initiated
         \/ out_task' = "draining" /\ out_task # "done" /\ initiated' = FALSE
         \/ out_task' = "draining" /\ out_task # "done" /\ initiated' = TRUE
            /\ ~sender /\ txq = <<>>
  BY DEF HostResume, HostQueueClosed, HostToldClosed, HostDead, HostStalled, HostFailed,
         LoopEnds, busVars
<1>2. DataTypes'
  <2>1. wire' \in Seq(UsbData)
    <3>1. wire \in Seq(UsbData) /\ <<>> \in Seq(UsbData)
      BY DEF DataTypes
    <3> QED
      BY <1>1, <3>1
  <2> QED
    BY <1>1, <2>1 DEF DataTypes, rxVars
<1>3. ControlTypes'
  <2>1. failed' \in BOOLEAN
    BY DEF ControlTypes, HostResume, HostQueueClosed, HostToldClosed, HostDead, HostStalled,
           HostFailed
  <2>2. initiated' \in BOOLEAN /\ out_task' \in {"waiting", "completing", "draining", "done"}
    BY <1>1 DEF ControlTypes
  <2> QED
    BY <1>1, <2>1, <2>2 DEF ControlTypes, halfVars, taskVars, rxVars
<1>4. CountTypes' /\ Sending' /\ Covered'
  BY <1>1 DEF CountTypes, Sending, Covered, taskVars, rxVars
<1>5. /\ Receiving' /\ Received' /\ Aligned'
      /\ RxAt' = RxAt /\ QueueAt' = QueueAt /\ BufsAt' = BufsAt
  BY <1>1, ToDeviceReceiverKept DEF rxVars
<1>6. FillAt' = FillAt /\ WireAt' = WireAt /\ Whole' = Whole /\ Queued' = Queued
  BY <1>1, <1>5 DEF FillAt, WireAt, Whole, Queued, taskVars, rxVars
<1>7. Carrying'
  <2>1. Chain(WireAt, <<>>, Mps, sent)
    BY ChainEmpty
  <2> QED
    BY <1>1, <1>5, <1>6, <2>1 DEF Carrying
<1>8. Linked'
  BY <1>1, <1>6 DEF Linked, TxAt
<1>9. Ending'
  BY <1>1 DEF Ending, halfVars, taskVars, rxVars
<1>10. Counted'
  BY <1>1, <1>5, ToDeviceCountKept DEF taskVars, rxVars
<1> QED
  BY <1>2, <1>3, <1>4, <1>5, <1>7, <1>8, <1>9, <1>10

\* The announcement of the byte count, and the other requests
LEMMA ToDeviceClosing ==
  ASSUME ToDeviceInv, DropSender \/ CloseSend \/ CloseSendLost \/ RecvDone \/ CloseLost
  PROVE  ToDeviceInv'
<1> USE DEF ToDeviceInv
<1>1. /\ UNCHANGED <<sent, txq, initiated, total, wire, fill, bufs, halted, in_task, received,
                     in_end, rxq, rx_alive, buffer, got, ended>>
      /\ sender' => sender
      /\ \/ UNCHANGED <<out_task, send_closed>>
         \/ out_task = "draining" /\ out_task' = "done" /\ send_closed' = TRUE
      /\ \/ in_close' = in_close
         \/ initiated /\ in_close' = total /\ out_task' = "done"
  BY DEF DropSender, CloseSend, CloseSendLost, RecvDone, CloseLost,
         hostVars, halfVars, busVars, taskVars, rxVars
<1>2. DataTypes' /\ CountTypes' /\ Covered'
  BY <1>1 DEF DataTypes, CountTypes, Covered
<1>3. ControlTypes'
  <2>1. sender' \in BOOLEAN
    BY DEF ControlTypes, DropSender, CloseSend, CloseSendLost, RecvDone, CloseLost, hostVars
  <2>2. send_closed' \in BOOLEAN
    BY DEF ControlTypes, DropSender, CloseSend, CloseSendLost, RecvDone, CloseLost, halfVars
  <2>3. recv_closed' \in BOOLEAN
    BY DEF ControlTypes, DropSender, CloseSend, CloseSendLost, RecvDone, CloseLost, halfVars
  <2>4. closed' \in BOOLEAN
    BY DEF ControlTypes, DropSender, CloseSend, CloseSendLost, RecvDone, CloseLost, halfVars
  <2>5. failed' \in BOOLEAN
    BY DEF ControlTypes, DropSender, CloseSend, CloseSendLost, RecvDone, CloseLost
  <2>6. out_task' \in {"waiting", "completing", "draining", "done"}
    BY <1>1 DEF ControlTypes
  <2> QED
    BY <1>1, <2>1, <2>2, <2>3, <2>4, <2>5, <2>6 DEF ControlTypes
<1>4. /\ Receiving' /\ Received' /\ Aligned' /\ Carrying' /\ Sending'
      /\ TxAt' = TxAt /\ Queued' = Queued /\ Whole' = Whole /\ BufsAt' = BufsAt
  BY <1>1, ToDeviceDataKept
<1>5. Linked'
  BY <1>1, <1>4 DEF Linked
<1>6. Ending'
  <2>1. in_close' # NoCount =>
          in_close' = total' /\ ~sender' /\ txq' = <<>> /\ out_task' = "done"
    BY <1>1 DEF Ending
  <2>2. /\ send_closed' => out_task' = "done"
        /\ ended' # "no" => rxq' = <<>> /\ ~in_task'
        /\ initiated' => ~sender' /\ txq' = <<>> /\ out_task' \in {"draining", "done"}
        /\ in_end' = "all" => ~in_task' /\ received' = total' /\ ~sender' /\ txq' = <<>> /\ out_task' = "done"
    BY <1>1 DEF Ending
  <2> QED
    BY <2>1, <2>2 DEF Ending
<1>7. Counted'
  BY <1>1, <1>4, ToDeviceCountKept
<1> QED
  BY <1>2, <1>3, <1>4, <1>5, <1>6, <1>7

\* in_task ends for one reason or another: what it has received stays.
LEMMA ToDeviceInTaskEnds ==
  ASSUME ToDeviceInv, DevAll \/ DevDropped \/ DevFailed \/ Close
  PROVE  ToDeviceInv'
<1> USE DEF ToDeviceInv
<1>1. /\ in_task' = FALSE /\ in_close' = NoCount
      /\ fill' = Empty /\ bufs' = <<>> /\ wire' \in {wire, <<>>}
      /\ UNCHANGED <<hostVars, send_closed, recv_closed, received, rxVars>>
      /\ \/ in_task /\ in_end' = "all" /\ received = in_close
         \/ in_end' \in {"dropped", "failed", "close"}
         \/ in_end' = in_end
  BY DEF DevAll, DevDropped, DevFailed, Close, InTaskEnds, AllReceived
<1>2. DataTypes'
  <2>1. wire' \in Seq(UsbData)
    <3>1. wire \in Seq(UsbData) /\ <<>> \in Seq(UsbData)
      BY DEF DataTypes
    <3> QED
      BY <1>1, <3>1
  <2>2. fill' \in Piece /\ WholePackets(fill') /\ (fill'.of = Nothing => fill' = Empty)
    BY <1>1, EmptyBuffer
  <2>3. bufs' \in Seq(Piece) /\ Len(bufs') <= PostedBuffers
    BY <1>1, PipeAssumption
  <2> QED
    BY <1>1, <2>1, <2>2, <2>3 DEF DataTypes, hostVars, rxVars
<1>3. ControlTypes'
  <2>1. in_end' \in {"no", "all", "dropped", "failed", "close"}
    BY <1>1 DEF ControlTypes
  <2>2. halted' \in BOOLEAN
    BY DEF ControlTypes, DevAll, DevDropped, DevFailed, Close
  <2>3. closed' \in BOOLEAN
    BY DEF ControlTypes, DevAll, DevDropped, DevFailed, Close
  <2>4. failed' \in BOOLEAN
    BY DEF ControlTypes, DevAll, DevDropped, DevFailed, Close
  <2>5. in_task' \in BOOLEAN
    BY <1>1
  <2> QED
    BY <1>1, <2>1, <2>2, <2>3, <2>4, <2>5 DEF ControlTypes, hostVars, rxVars
<1>4. CountTypes' /\ Sending'
  BY <1>1 DEF CountTypes, Sending, hostVars
<1>5. /\ Receiving' /\ Received' /\ Aligned'
      /\ RxAt' = RxAt /\ QueueAt' = QueueAt /\ BufsAt' = BufsAt
  BY <1>1, ToDeviceReceiverKept DEF hostVars, rxVars
<1>6. Carrying' /\ Linked'
  BY <1>1 DEF Carrying, Linked, Whole
<1>7. Ending'
  <2>1. in_task /\ in_end' = "all" /\ received = in_close =>
           received' = total' /\ ~sender' /\ txq' = <<>> /\ out_task' = "done"
    BY <1>1 DEF Ending, CountTypes, NoCount, hostVars
  <2> QED
    BY <1>1, <2>1 DEF Ending, hostVars, rxVars
<1>8. Counted'
  BY <1>1, <1>5, ToDeviceCountKept DEF hostVars, rxVars
<1>9. Covered'
  BY <1>1 DEF Covered, Ending, hostVars, rxVars
<1> QED
  BY <1>2, <1>3, <1>4, <1>5, <1>6, <1>7, <1>8, <1>9

\* A USB packet goes from the wire into the posted buffer ...
LEMMA ToDeviceBusOut ==
  ASSUME ToDeviceInv, BusOut
  PROVE  ToDeviceInv'
<1> USE DEF ToDeviceInv
<1> DEFINE u == Head(wire)
           g == Filled(fill, u)
<1>1. /\ wire # <<>> /\ in_task /\ Len(bufs) < PostedBuffers
      /\ wire' = Tail(wire)
      /\ Completes(fill, u) => fill' = Empty /\ bufs' = Append(bufs, g)
      /\ ~Completes(fill, u) => fill' = g /\ bufs' = bufs
      /\ UNCHANGED <<hostVars, halfVars, halted, taskVars, rxVars, failed>>
  BY DEF BusOut
<1>2. /\ wire \in Seq(UsbData) /\ u \in UsbData /\ wire' \in Seq(UsbData)
      /\ bufs \in Seq(Piece) /\ fill \in Piece /\ WholePackets(fill)
      /\ (fill.of = Nothing => fill = Empty)
  BY <1>1 DEF DataTypes
<1>3. /\ u.of \in 1..MaxPackets /\ u.from \in Nat /\ u.len \in 0..Mps
      /\ fill.of \in -1..MaxPackets /\ fill.from \in Nat /\ fill.len \in Nat
  BY <1>2 DEF UsbData, Piece
<1> HIDE DEF u
<1>4. /\ ~Completes(fill, u) => u.len = Mps /\ WholePackets([len |-> fill.len + u.len])
      /\ fill.of = Nothing => fill.len = 0
  BY <1>2, <1>3, Filling, EmptyBuffer
<1>5. g \in Piece /\ g.of # Nothing /\ g.len = fill.len + u.len
  <2>1. g = IF fill.of = Nothing THEN Data(u.of, u.from, u.len)
            ELSE IF fill.of = u.of /\ fill.from + fill.len = u.from
                 THEN Data(fill.of, fill.from, fill.len + u.len)
                 ELSE Data(Mixed, 0, fill.len + u.len)
    BY DEF Filled, Join, Adjacent, Data
  <2> HIDE DEF g
  <2>2. MaxPackets \in Nat
    BY PipeAssumption
  <2> QED
    BY <1>3, <1>4, <2>1, <2>2 DEF Data, Piece, Nothing, Mixed
<1>6. ~Completes(fill, u) => WholePackets(g)
  BY <1>4, <1>5 DEF WholePackets
<1> HIDE DEF g
<1>7. /\ fill' \in Piece /\ WholePackets(fill') /\ (fill'.of = Nothing => fill' = Empty)
      /\ bufs' \in Seq(Piece) /\ Len(bufs') <= PostedBuffers
  <2>1. Len(bufs) \in Nat /\ PostedBuffers \in Nat
    BY <1>2, PipeAssumption
  <2>2. CASE Completes(fill, u)
    BY <2>1, <2>2, <1>1, <1>2, <1>5, EmptyBuffer, SMTT(40)
  <2>3. CASE ~Completes(fill, u)
    BY <2>3, <1>1, <1>2, <1>5, <1>6 DEF DataTypes
  <2> QED
    BY <2>2, <2>3
<1>8. DataTypes'
  BY <1>1, <1>2, <1>7 DEF DataTypes, hostVars, rxVars
<1>9. ControlTypes' /\ CountTypes'
  BY <1>1 DEF ControlTypes, CountTypes, hostVars, halfVars, taskVars, rxVars
<1>10. Sending' /\ Ending' /\ Covered'
  BY <1>1 DEF Sending, Ending, Covered, hostVars, halfVars, taskVars, rxVars
<1>11. /\ Receiving' /\ Received' /\ Aligned'
       /\ RxAt' = RxAt /\ QueueAt' = QueueAt /\ BufsAt' = BufsAt
  BY <1>1, ToDeviceReceiverKept DEF hostVars, rxVars
<1>12. Whole' = Whole /\ Queued' = Queued
  BY <1>1 DEF Whole, Queued, hostVars, taskVars, rxVars
<1>13. Counted'
  BY <1>1, <1>11, ToDeviceCountKept DEF hostVars, taskVars, rxVars
<1>14. Carrying' /\ Linked'
  <2> SUFFICES ASSUME Whole
               PROVE  /\ Chain(BufsAt, bufs', Mts, sent)
                      /\ FilledFrom(FillAt', fill', sent)
                      /\ Chain(WireAt', wire', Mps, sent)
                      /\ TxAt' = TxAt
    BY <1>1, <1>11, <1>12 DEF Carrying, Linked, hostVars
  <2>1. /\ Fits(u, Mps, sent) /\ Start(u) = WireAt
        /\ Chain(After(u, Mps), wire', Mps, sent)
        /\ Behind(After(u, Mps), wire', Mps) = TxAt
    BY <1>1, <1>2, ChainTail DEF Carrying, TxAt, u
  <2>2. /\ Stream(sent) /\ DOMAIN sent \subseteq Nat \ {0} /\ u.of # Nothing
        /\ FilledFrom(FillAt, fill, sent)
    BY <1>3, SMTT(40) DEF Sending, DataTypes, Carrying, Nothing
  <2>3. /\ Completes(fill, u) =>
              /\ Fits(g, Mts, sent) /\ Start(g) = FillAt
              /\ After(g, Mts) = After(u, Mps)
        /\ ~Completes(fill, u) =>
              /\ FilledFrom(FillAt, g, sent)
              /\ FilledTo(FillAt, g) = After(u, Mps)
    BY <1>2, <2>1, <2>2, FillStep DEF g, WireAt
  <2>4. CASE Completes(fill, u)
    <3>1. /\ Chain(BufsAt, bufs', Mts, sent) /\ Behind(BufsAt, bufs', Mts) = After(u, Mps)
      <4>1. /\ Chain(BufsAt, bufs, Mts, sent) /\ Fits(g, Mts, sent)
            /\ Start(g) = Behind(BufsAt, bufs, Mts) /\ After(g, Mts) = After(u, Mps)
        BY <2>3, <2>4 DEF Carrying, FillAt
      <4>2. /\ Chain(BufsAt, Append(bufs, g), Mts, sent)
            /\ Behind(BufsAt, Append(bufs, g), Mts) = After(g, Mts)
        BY <4>1, <1>2, <1>5, ChainAppend, SMTT(40)
      <4> QED
        BY <4>1, <4>2, <2>4, <1>1
    <3>2. FillAt' = After(u, Mps) /\ WireAt' = After(u, Mps)
      BY <3>1, <2>4, <1>1, <1>11, EmptyBuffer DEF FillAt, WireAt, FilledTo
    <3>3. FilledFrom(FillAt', fill', sent)
      BY <2>4, <1>1 DEF FilledFrom
    <3>4. TxAt' = TxAt
      BY <3>2, <2>1 DEF TxAt
    <3> QED
      BY <3>1, <3>2, <3>3, <3>4, <2>1
  <2>5. CASE ~Completes(fill, u)
    <3>1. FillAt' = FillAt
      BY <2>5, <1>1, <1>11 DEF FillAt
    <3>2. WireAt' = After(u, Mps)
      BY <3>1, <2>3, <2>5, <1>1 DEF WireAt
    <3>3. TxAt' = TxAt
      BY <3>2, <2>1 DEF TxAt
    <3> QED
      BY <3>1, <3>2, <3>3, <2>1, <2>3, <2>5, <1>1 DEF Carrying
  <2> QED
    BY <2>4, <2>5
<1> QED
  BY <1>8, <1>9, <1>10, <1>11, <1>13, <1>14

\* ... or is discarded when in_task has ended.
LEMMA ToDeviceBusOutDiscarded ==
  ASSUME ToDeviceInv, BusOutDiscarded
  PROVE  ToDeviceInv'
<1> USE DEF ToDeviceInv
<1>1. /\ wire # <<>> /\ ~in_task /\ wire' = Tail(wire)
      /\ UNCHANGED <<hostVars, halfVars, fill, bufs, halted, taskVars, rxVars, failed>>
  BY DEF BusOutDiscarded
<1>2. wire' \in Seq(UsbData)
  BY <1>1 DEF DataTypes
<1>3. DataTypes'
  BY <1>1, <1>2 DEF DataTypes, hostVars, rxVars
<1>4. ControlTypes' /\ CountTypes'
  BY <1>1 DEF ControlTypes, CountTypes, hostVars, halfVars, taskVars, rxVars
<1>5. /\ Receiving' /\ Received' /\ Aligned'
      /\ RxAt' = RxAt /\ QueueAt' = QueueAt /\ BufsAt' = BufsAt
  BY <1>1, ToDeviceReceiverKept DEF hostVars, rxVars
<1>6. Sending' /\ Ending' /\ Covered' /\ Carrying' /\ Linked'
  BY <1>1 DEF Sending, Ending, Covered, Carrying, Linked, Whole,
              hostVars, halfVars, taskVars, rxVars
<1>7. Counted'
  BY <1>1, <1>5, ToDeviceCountKept DEF hostVars, taskVars, rxVars
<1> QED
  BY <1>3, <1>4, <1>5, <1>6, <1>7

\* A transfer is counted and put behind what recv() has not taken yet.
LEMMA ToDeviceDevReceive ==
  ASSUME ToDeviceInv, DevReceive
  PROVE  ToDeviceInv'
<1> USE DEF ToDeviceInv
<1> DEFINE x == Head(bufs)
<1>1. /\ in_task /\ bufs # <<>> /\ (rx_alive => Len(rxq) < QueueLen)
      /\ rxq' = (IF rx_alive THEN Append(rxq, x) ELSE rxq)
      /\ bufs' = Tail(bufs) /\ received' = received + x.len
      /\ UNCHANGED <<hostVars, halfVars, wire, fill, halted, in_task, in_close,
                     in_end, rx_alive, buffer, got, ended, failed>>
  BY DEF DevReceive
<1>2. /\ bufs \in Seq(Piece) /\ x \in Piece /\ bufs' \in Seq(Piece)
      /\ Len(bufs') <= Len(bufs) /\ Len(bufs') \in Nat /\ Len(bufs) \in Nat
      /\ rxq \in Seq(Piece) /\ Len(rxq) \in Nat
  BY <1>1 DEF DataTypes
<1> HIDE DEF x
<1>3. x.len \in Nat /\ x.from \in Nat
  BY <1>2 DEF Piece
<1>4. DataTypes'
  <2>1. rxq' \in Seq(Piece) /\ Len(rxq') <= QueueLen
    <3>1. CASE rx_alive
      BY <3>1, <1>1, <1>2, PipeAssumption
    <3>2. CASE ~rx_alive
      BY <3>2, <1>1 DEF DataTypes
    <3> QED
      BY <3>1, <3>2
  <2>2. Len(bufs') <= PostedBuffers
    BY <1>2, PipeAssumption DEF DataTypes
  <2> QED
    BY <1>1, <1>2, <2>1, <2>2 DEF DataTypes, hostVars
<1>5. ControlTypes'
  BY <1>1 DEF ControlTypes, hostVars, halfVars
<1>6. CountTypes'
  BY <1>1, <1>3 DEF CountTypes, hostVars
<1>7. Sending' /\ Received'
  BY <1>1 DEF Sending, Received, hostVars
<1>8. Ending' /\ Covered'
  BY <1>1 DEF Ending, Covered, ControlTypes, hostVars, halfVars
<1>9. RxAt' = RxAt /\ QueueAt' = QueueAt /\ Whole' = Whole /\ Queued' = Queued
  BY <1>1 DEF RxAt, QueueAt, Whole, Queued, hostVars
<1>10. CASE ~rx_alive
  <2>1. rxq' = rxq /\ BufsAt' = BufsAt
    BY <1>1, <1>9, <1>10 DEF BufsAt
  <2>2. Receiving' /\ Aligned'
    BY <1>1, <1>9, <2>1 DEF Receiving, Aligned, hostVars
  <2>3. Carrying' /\ Linked'
    BY <1>1, <1>10 DEF Carrying, Linked, Whole
  <2>4. Counted'
    <3>1. PICK b : Sums(b, sent) /\ CountedBy(b)
      BY DEF Counted
    <3>2. Sums(b, sent)' /\ CountedBy(b)'
      BY <3>1, <1>1, <1>10 DEF CountedBy, hostVars
    <3> QED
      BY <3>2 DEF Counted
  <2> QED
    BY <1>4, <1>5, <1>6, <1>7, <1>8, <2>2, <2>3, <2>4
<1>11. CASE rx_alive
  <2>1. /\ Fits(x, Mts, sent) /\ Start(x) = BufsAt
        /\ Chain(After(x, Mts), bufs', Mts, sent)
        /\ Behind(After(x, Mts), bufs', Mts) = FillAt
    BY <1>1, <1>2, <1>11, ChainTail DEF Carrying, Whole, FillAt, x
  <2>2. /\ Chain(QueueAt, rxq', Mts, sent) /\ Behind(QueueAt, rxq', Mts) = After(x, Mts)
    <3>1. Chain(QueueAt, rxq, Mts, sent) /\ Start(x) = Behind(QueueAt, rxq, Mts)
      BY <2>1 DEF Receiving, BufsAt
    <3>2. /\ Chain(QueueAt, Append(rxq, x), Mts, sent)
          /\ Behind(QueueAt, Append(rxq, x), Mts) = After(x, Mts)
      BY <1>2, <2>1, <3>1, ChainAppend
    <3> QED
      BY <3>2, <1>1, <1>11
  <2>3. BufsAt' = After(x, Mts)
    BY <2>2, <1>9 DEF BufsAt
  <2>4. FillAt' = FillAt
    BY <2>1, <2>3 DEF FillAt
  <2>5. WireAt' = WireAt /\ TxAt' = TxAt
    BY <2>4, <1>1 DEF WireAt, TxAt
  <2>6. Receiving' /\ Carrying' /\ Linked'
    BY <2>1, <2>2, <2>3, <2>4, <2>5, <1>1, <1>9, <1>11 DEF Receiving, Carrying, Linked, hostVars
  <2>7. x.from = BufsAt.at /\ x.of = BufsAt.of
    BY <2>1 DEF Start, Pos
  <2>8. Aligned'
    <3>1. PICK k \in Nat : BufsAt.at = k * Mts
      BY DEF Aligned
    <3>2. CASE x.len = Mts
      <4>1. BufsAt'.at = BufsAt.at + Mts
        BY <3>2, <2>3, <2>7 DEF After, Pos
      <4>2. k + 1 \in Nat /\ (k + 1) * Mts = k * Mts + Mts
        <5>1. Mts \in Nat
          BY FramingAssumption DEF Mts
        <5> QED
          BY <3>1, <5>1, Multiples
      <4> QED
        BY <4>1, <4>2, <3>1 DEF Aligned
    <3>3. CASE x.len # Mts
      <4>1. BufsAt'.at = 0 * Mts
        BY <3>3, <2>3, FramingAssumption DEF After, Pos, Mts
      <4> QED
        BY <4>1 DEF Aligned
    <3> QED
      BY <3>2, <3>3
  <2>9. Counted'
    <3>1. PICK b : Sums(b, sent) /\ CountedBy(b)
      BY DEF Counted
    <3>2. /\ BufsAt.of \in 1..Len(sent) /\ sent[x.of].len \in Nat
          /\ x.len = IF sent[x.of].len - x.from >= Mts THEN Mts ELSE sent[x.of].len - x.from
      <4>1. x.of \in DOMAIN sent
        BY <2>1 DEF Fits
      <4> QED
        BY <4>1, <2>1, <2>7 DEF Fits, Sending, Stream, DataTypes
    <3> DEFINE i == BufsAt.of
    <3>3. b[i] = b[i - 1] + sent[i].len /\ b[i - 1] \in Nat
      BY <3>1, <3>2, SMTT(40) DEF Sums
    <3>4. received = b[i - 1] + x.from
      BY <3>1, <1>11, <2>7 DEF CountedBy
    <3>5. received' = b[BufsAt'.of - 1] + BufsAt'.at
      <4>1. CASE x.len = Mts
        <5>1. BufsAt'.of = i /\ BufsAt'.at = x.from + Mts
          BY <4>1, <2>3, <2>7 DEF After, Pos
        <5> QED
          BY <4>1, <5>1, <3>3, <3>4, <1>1, <1>3
      <4>2. CASE x.len # Mts
        <5>1. BufsAt'.of = i + 1 /\ BufsAt'.at = 0
          BY <4>2, <2>3, <2>7 DEF After, Pos
        <5>2. x.len = sent[i].len - x.from
          BY <4>2, <3>2, <2>7
        <5>3. sent[i].len \in Nat
          BY <3>2, <2>7
        <5>4. received' = received + x.len
          BY <1>1
        <5>5. received' = b[i]
          <6> HIDE DEF i
          <6> QED
            BY <5>2, <5>3, <5>4, <3>3, <3>4, <1>3
        <5>6. (i + 1) - 1 = i /\ b[i] \in Nat
          <6>1. i \in Nat
            BY <3>2
          <6> HIDE DEF i
          <6> QED
            BY <6>1, <5>3, <3>3
        <5> QED
          BY <5>1, <5>5, <5>6
      <4> QED
        BY <4>1, <4>2
    <3>6. Sums(b, sent)' /\ CountedBy(b)'
      BY <3>1, <3>5, <1>1 DEF CountedBy, hostVars
    <3> QED
      BY <3>6 DEF Counted
  <2> QED
    BY <1>4, <1>5, <1>6, <1>7, <1>8, <2>6, <2>8, <2>9
<1> QED
  BY <1>10, <1>11

\* What recv() has once it has taken the next transfer: the packet that is to
\* come next, up to the end of that transfer, and all of it when the transfer
\* is a short one.
LEMMA RecvOne ==
  ASSUME DataTypes, Sending, Received, Receiving, rxq # <<>>,
         NEW t, t = Head(rxq)
  PROVE  LET i == Len(got) + 1
             b == Join(buffer, t)
         IN  /\ b = Data(i, 0, t.from + t.len)
             /\ i \in DOMAIN sent
             /\ t.of = i /\ t.from \in Nat /\ t.len \in Nat
             /\ t.from + t.len <= sent[i].len
             /\ ~TooBig(b)
             /\ IsShort(t) => b = sent[i] /\ After(t, Mts) = Pos(Len(got) + 2, 0)
             /\ ~IsShort(t) => After(t, Mts) = Pos(i, t.from + t.len)
<1> DEFINE i == Len(got) + 1
           b == Join(buffer, t)
<1>1. /\ rxq \in Seq(Piece) /\ Chain(QueueAt, rxq, Mts, sent)
      /\ Len(got) \in Nat /\ i \in Nat \ {0}
      /\ buffer \in Piece /\ FilledFrom(RxAt, buffer, sent)
      /\ (buffer.of = Nothing => buffer = Empty)
  BY DEF DataTypes, Received, Receiving
<1>2. Mts \in Nat \ {0}
  BY FramingAssumption DEF Mts
<1>3. Fits(t, Mts, sent) /\ Start(t) = QueueAt
  BY <1>1, ChainTail
<1>4. /\ QueueAt.of = i
      /\ (buffer.of = Nothing => QueueAt = Pos(i, 0))
      /\ (buffer.of # Nothing => buffer.of = i /\ buffer.from = 0 /\ buffer.len \in Nat
                                 /\ QueueAt = Pos(i, buffer.len))
  <2>1. CASE buffer.of = Nothing
    BY <2>1, <1>1 DEF QueueAt, FilledTo, RxAt, Pos
  <2>2. CASE buffer.of # Nothing
    <3>1. Start(buffer) = RxAt /\ buffer.from \in Nat /\ buffer.len \in Nat
      BY <2>2, <1>1 DEF FilledFrom, Empty, Data, Nothing
    <3>2. buffer.of = i /\ buffer.from = 0
      BY <3>1 DEF Start, RxAt, Pos
    <3> QED
      BY <2>2, <3>1, <3>2 DEF QueueAt, FilledTo, Pos
  <2> QED
    BY <2>1, <2>2
<1>5. /\ t.of = i /\ t.from \in Nat /\ t.len \in Nat /\ i \in DOMAIN sent
      /\ sent[i].len \in Nat /\ t.from <= sent[i].len
      /\ t.len = IF sent[i].len - t.from >= Mts THEN Mts ELSE sent[i].len - t.from
  <2>1. t.of = i
    BY <1>3, <1>4 DEF Start, Pos
  <2> QED
    BY <2>1, <1>3 DEF Fits, Sending, Stream
<1>6. b = Data(i, 0, t.from + t.len)
  <2>1. CASE buffer.of = Nothing
    <3>1. t.from = 0
      BY <2>1, <1>3, <1>4 DEF Start, Pos
    <3>2. \E u \in Piece : u = t
      <4>1. t \in Piece
        BY <1>1
      <4> QED
        BY <4>1
    <3>3. t = Data(i, 0, t.len)
      BY <3>1, <3>2, <1>5 DEF Piece, Data
    <3>4. t.from + t.len = t.len
      BY <3>1, <1>5
    <3> QED
      BY <2>1, <3>3, <3>4 DEF Join
  <2>2. CASE buffer.of # Nothing
    <3>1. t.from = buffer.len /\ buffer.from = 0 /\ buffer.of = i /\ buffer.len \in Nat
      BY <2>2, <1>3, <1>4 DEF Start, Pos
    <3>2. Adjacent(buffer, t)
      BY <3>1, <1>5 DEF Adjacent
    <3> QED
      BY <2>2, <3>1, <3>2 DEF Join
  <2> QED
    BY <2>1, <2>2
<1>7. t.from + t.len <= sent[i].len /\ ~TooBig(b)
  <2>1. t.from + t.len <= sent[i].len
    BY <1>5, <1>2
  <2>2. sent[i].len <= MaxSize
    BY <1>5 DEF Sending, DataTypes
  <2> QED
    BY <2>1, <2>2, <1>5, <1>6, FramingAssumption DEF TooBig, Data
<1>8. ASSUME IsShort(t) PROVE b = sent[i] /\ After(t, Mts) = Pos(Len(got) + 2, 0)
  <2>1. t.from + t.len = sent[i].len /\ t.len # Mts
    BY <1>2, <1>5, <1>8 DEF IsShort
  <2>2. sent[i] = Data(i, 0, sent[i].len)
    <3>1. sent[i] \in Packets /\ sent[i].of = i /\ sent[i].from = 0
      BY <1>5 DEF DataTypes, Sending, Stream
    <3> QED
      BY <3>1 DEF Packets, Data
  <2> QED
    BY <2>1, <2>2, <1>5, <1>6, <1>1 DEF After
<1>9. ASSUME ~IsShort(t) PROVE After(t, Mts) = Pos(i, t.from + t.len)
  BY <1>2, <1>5, <1>9 DEF IsShort, After
<1> QED
  BY <1>5, <1>6, <1>7, <1>8, <1>9

\* A round of recv(): the chain is shorter by the transfer it takes.
LEMMA ToDeviceRecv ==
  ASSUME ToDeviceInv, Recv
  PROVE  /\ ToDeviceInv' /\ ended = "no"
         /\ \/ got' = got
            \/ Len(got) < Len(sent) /\ got' = Append(got, sent[Len(got) + 1])
<1> USE DEF ToDeviceInv
<1> DEFINE t == Head(rxq)
           b == Join(buffer, t)
           i == Len(got) + 1
           n == t.from + t.len
<1>1. /\ rx_alive /\ rxq # <<>> /\ rxq' = Tail(rxq)
      /\ buffer' = IF TooBig(b) \/ IsShort(t) THEN Empty ELSE b
      /\ got' = IF ~TooBig(b) /\ IsShort(t) THEN Append(got, b) ELSE got
      /\ UNCHANGED <<hostVars, halfVars, busVars, taskVars, rx_alive, ended, failed>>
  BY DEF Recv
<1>2. /\ b = Data(i, 0, n) /\ i \in DOMAIN sent
      /\ t.of = i /\ t.from \in Nat /\ t.len \in Nat /\ n <= sent[i].len
      /\ ~TooBig(b)
      /\ IsShort(t) => b = sent[i] /\ After(t, Mts) = Pos(Len(got) + 2, 0)
      /\ ~IsShort(t) => After(t, Mts) = Pos(i, n)
  BY <1>1, RecvOne
<1>3. rxq \in Seq(Piece) /\ Chain(QueueAt, rxq, Mts, sent)
  BY DEF DataTypes, Receiving
<1>4. /\ rxq' \in Seq(Piece) /\ Len(rxq') <= Len(rxq) /\ Len(rxq') \in Nat /\ Len(rxq) \in Nat
      /\ Chain(After(t, Mts), rxq', Mts, sent)
      /\ Behind(After(t, Mts), rxq', Mts) = BufsAt
  <2>1. /\ Chain(After(t, Mts), Tail(rxq), Mts, sent)
        /\ Behind(After(t, Mts), Tail(rxq), Mts) = Behind(QueueAt, rxq, Mts)
    BY <1>1, <1>3, ChainTail
  <2>2. rxq' \in Seq(Piece) /\ Len(rxq') <= Len(rxq) /\ Len(rxq') \in Nat /\ Len(rxq) \in Nat
    BY <1>1, <1>3
  <2> QED
    BY <1>1, <2>1, <2>2 DEF BufsAt
<1>5. ended = "no"
  BY <1>1 DEF Ending, ControlTypes
<1>6. /\ sent \in Seq(Packets) /\ got \in Seq(Packets) /\ Len(got) \in Nat /\ Len(sent) \in Nat
      /\ Len(got) < Len(sent) /\ i \in Nat \ {0} /\ n \in Nat /\ sent[i] \in Packets
      /\ i <= MaxPackets
  <2>1. sent \in Seq(Packets) /\ got \in Seq(Packets) /\ Len(sent) <= MaxPackets
    BY DEF DataTypes, Received
  <2> QED
    BY <1>2, <2>1, PipeAssumption
<1> HIDE DEF n
<1>7. /\ IsShort(t) => got' = Append(got, sent[i]) /\ buffer' = Empty
      /\ ~IsShort(t) => got' = got /\ buffer' = Data(i, 0, n)
  BY <1>1, <1>2
<1>8. Received'
  <2>1. sent' = sent
    BY <1>1 DEF hostVars
  <2>2. CASE IsShort(t)
    <3> DEFINE x == sent[i]
    <3>1. x \in Packets
      BY <1>6
    <3> HIDE DEF x
    <3>2. /\ got' \in Seq(Packets) /\ Len(got') = i /\ got'[i] = x
          /\ \A j \in 1..Len(got) : got'[j] = got[j]
      BY <2>2, <3>1, <1>6, <1>7, SMTT(40) DEF x
    <3> QED
      BY <2>1, <3>2, <1>6 DEF Received, x
  <2>3. CASE ~IsShort(t)
    BY <2>1, <2>3, <1>7 DEF Received
  <2> QED
    BY <2>2, <2>3
<1>9. /\ buffer' \in Piece /\ (buffer'.of = Nothing => buffer' = Empty)
      /\ FilledFrom(RxAt', buffer', sent)
      /\ QueueAt' = After(t, Mts)
  <2>1. CASE IsShort(t)
    <3>1. RxAt' = Pos(Len(got) + 2, 0)
      <4> DEFINE x == sent[i]
      <4>1. x \in Packets /\ got' = Append(got, x)
        BY <2>1, <1>6, <1>7
      <4> HIDE DEF x
      <4>2. Len(got') = Len(got) + 1
        BY <4>1, <1>6
      <4> QED
        BY <4>2, <1>6 DEF RxAt
    <3>2. buffer' = Empty
      BY <2>1, <1>7
    <3> QED
      BY <2>1, <3>1, <3>2, <1>2, PipeAssumption
         DEF QueueAt, FilledTo, FilledFrom, Empty, Data, Piece, Nothing
  <2>2. CASE ~IsShort(t)
    <3>1. RxAt' = Pos(i, 0)
      BY <2>2, <1>7 DEF RxAt
    <3>2. buffer' = Data(i, 0, n)
      BY <2>2, <1>7
    <3> DEFINE y == Data(i, 0, n)
    <3>3. y.of = i /\ y.from = 0 /\ y.len = n /\ y \in Piece
      BY <1>6, PipeAssumption DEF Data, Piece
    <3>4. n <= sent[i].len
      BY <1>2 DEF n
    <3> HIDE DEF y
    <3>5. FilledFrom(Pos(i, 0), y, sent)
      BY <3>3, <3>4, <1>2, <1>6 DEF FilledFrom, Start
    <3>6. FilledTo(Pos(i, 0), y) = Pos(i, n)
      BY <3>3, <1>6 DEF FilledTo, Nothing
    <3>7. After(t, Mts) = Pos(i, n)
      BY <2>2, <1>2 DEF n
    <3> QED
      BY <3>1, <3>2, <3>3, <3>5, <3>6, <3>7, <1>6 DEF QueueAt, y, Nothing
  <2> QED
    BY <2>1, <2>2
<1>10. BufsAt' = BufsAt /\ Chain(QueueAt', rxq', Mts, sent)
  BY <1>1, <1>4, <1>9 DEF BufsAt
<1>11. Receiving'
  BY <1>1, <1>9, <1>10 DEF Receiving, hostVars
<1>12. DataTypes'
  <2>1. rxq' \in Seq(Piece) /\ Len(rxq') <= QueueLen
    BY <1>4, PipeAssumption DEF DataTypes
  <2> QED
    BY <1>1, <2>1 DEF DataTypes, hostVars, busVars
<1>13. ControlTypes' /\ CountTypes'
  BY <1>1 DEF ControlTypes, CountTypes, hostVars, halfVars, busVars, taskVars
<1>14. /\ FillAt' = FillAt /\ WireAt' = WireAt
       /\ TxAt' = TxAt /\ Queued' = Queued /\ Whole' = Whole
  BY <1>1, <1>10 DEF FillAt, WireAt, TxAt, Queued, Whole, hostVars, busVars, taskVars
<1>15. Carrying' /\ Linked' /\ Sending' /\ Aligned'
  BY <1>1, <1>10, <1>14 DEF Carrying, Linked, Sending, Aligned, hostVars, busVars
<1>16. Ending' /\ Covered'
  BY <1>1, <1>5 DEF Ending, Covered, hostVars, taskVars, halfVars
<1>17. Counted'
  BY <1>1, <1>10, ToDeviceCountKept DEF hostVars, taskVars
<1>18. \/ got' = got
       \/ Len(got) < Len(sent) /\ got' = Append(got, sent[Len(got) + 1])
  <2> HIDE DEF t
  <2> QED
    BY <1>6, <1>7
<1> QED
  BY <1>5, <1>8, <1>11, <1>12, <1>13, <1>15, <1>16, <1>17, <1>18

\* A multiple leaves no rest.
LEMMA MultipleRest ==
  ASSUME NEW k \in Nat, NEW m \in Nat \ {0}
  PROVE  (k * m) % m = 0
<1> DEFINE n == k * m
           d == n \div m
           r == n % m
<1>1. n \in Nat
  BY Multiples
<1>2. d \in Nat /\ r \in 0..(m - 1) /\ r = n - d * m
  <2> HIDE DEF n
  <2> QED
    BY <1>1, Division
<1> HIDE DEF d, r
<1>3. d < k => d * m + m <= k * m
  BY <1>2, Multiples
<1>4. k < d => k * m + m <= d * m
  BY <1>2, Multiples
<1>5. d * m \in Nat
  BY <1>2, Multiples
<1>6. d = k
  <2> DEFINE e == d * m
  <2>1. e \in Nat /\ r = n - e /\ (d < k => e + m <= n) /\ (k < d => n + m <= e)
    BY <1>2, <1>3, <1>4, <1>5
  <2> HIDE DEF e, n
  <2> QED
    BY <2>1, <1>1, <1>2
<1>7. r = n - n
  BY <1>2, <1>6
<1> HIDE DEF n
<1> QED
  BY <1>1, <1>7 DEF r, n

\* All announced bytes were received and recv() has taken what in_task gave
\* it: what is missing at the receiver has no bytes, or ends with a transfer
\* that is full.
LEMMA AnnouncedBytes ==
  ASSUME ToDeviceInv, in_end = "all", rx_alive, rxq = <<>>,
         NEW i \in 1..Len(sent), sent[i].len % Mts # 0
  PROVE  Len(got) >= i
<1> USE DEF ToDeviceInv
<1> DEFINE o == Len(got) + 1
           a == BufsAt.at
<1>1. SUFFICES ASSUME i >= o PROVE FALSE
  <2>1. Len(got) \in Nat
    BY DEF Received
  <2> QED
    BY <2>1
<1>2. /\ sent \in Seq(Packets) /\ Len(sent) \in Nat /\ Len(got) \in Nat /\ Stream(sent)
      /\ o \in 1..Len(sent)
  BY <1>1 DEF DataTypes, Received, Sending
<1>3. Within(BufsAt, sent)
  BY BufsWithin
<1>4. BufsAt.of = o
  <2>1. BufsAt = QueueAt
    BY DEF BufsAt, Behind
  <2>2. CASE buffer.of = Nothing
    BY <2>1, <2>2 DEF QueueAt, FilledTo, RxAt, Pos
  <2>3. CASE buffer.of # Nothing
    <3>1. Start(buffer) = RxAt
      BY <2>3 DEF Receiving, FilledFrom, Empty, Data, Nothing
    <3> QED
      BY <2>1, <2>3, <3>1 DEF QueueAt, FilledTo, Start, RxAt, Pos
  <2> QED
    BY <2>2, <2>3
<1>5. a \in Nat /\ a <= sent[o].len
  BY <1>2, <1>3, <1>4 DEF Within
<1>6. PICK b : Sums(b, sent) /\ CountedBy(b)
  BY DEF Counted
<1>7. b[o - 1] + a = b[Len(sent)]
  <2>1. received = b[o - 1] + a
    BY <1>4, <1>6 DEF CountedBy
  <2>2. received = total /\ Len(txq) = 0
    BY DEF Ending
  <2>3. total = b[Len(sent)]
    BY <1>2, <1>6, <2>2 DEF CountedBy
  <2> QED
    BY <2>1, <2>2, <2>3
<1> HIDE DEF o, a
<1>8. /\ b[o - 1] \in Nat /\ b[o] = b[o - 1] + sent[o].len /\ sent[o].len \in Nat
      /\ b[o] \in Nat /\ b[Len(sent)] \in Nat
  BY <1>2, <1>6, SMTT(40) DEF Sums, Stream
<1>9. \A k \in o..Len(sent) : b[o] <= b[k]
  BY <1>2, <1>6, SumsGrow
<1>10. a = sent[o].len /\ b[o] = b[Len(sent)]
  <2>1. b[o] <= b[Len(sent)]
    BY <1>2, <1>9
  <2> DEFINE c == b[o - 1]
  <2>2. c \in Nat /\ b[o] = c + sent[o].len /\ c + a = b[Len(sent)]
    BY <1>7, <1>8
  <2> HIDE DEF c
  <2> QED
    BY <1>5, <1>8, <2>1, <2>2, SMTT(40)
<1>11. Mts \in Nat \ {0}
  BY FramingAssumption DEF Mts
<1>12. CASE i = o
  <2>1. PICK k \in Nat : a = k * Mts
    BY DEF Aligned, a
  <2> QED
    BY <1>10, <1>11, <1>12, <2>1, MultipleRest
<1>13. CASE i # o
  <2>1. i - 1 \in o..Len(sent) /\ i \in o..Len(sent) /\ i \in Nat \ {0}
    BY <1>1, <1>2, <1>13
  <2>2. b[o] <= b[i - 1] /\ b[i] <= b[Len(sent)]
    BY <1>2, <1>6, <1>9, <2>1, SumsGrow
  <2>3. b[i] = b[i - 1] + sent[i].len /\ b[i - 1] \in Nat /\ b[i] \in Nat /\ sent[i].len \in Nat
    BY <1>2, <1>6, <2>1, SMTT(40) DEF Sums, Stream
  <2>4. sent[i].len = 0
    BY <1>8, <1>10, <2>2, <2>3, SMTT(40)
  <2>5. 0 % Mts = 0
    BY <1>11, MultipleRest
  <2> QED
    BY <2>4, <2>5
<1> QED
  BY <1>12, <1>13

\* recv() reports the end ...
LEMMA ToDeviceRecvEnd ==
  ASSUME ToDeviceInv, RecvEnd
  PROVE  ToDeviceInv'
<1> USE DEF ToDeviceInv
<1>1. /\ rx_alive /\ rxq = <<>> /\ ~in_task /\ ended = "no" /\ ended' = "eof"
      /\ UNCHANGED <<hostVars, halfVars, busVars, taskVars, rxq, rx_alive,
                     buffer, got, failed>>
  BY DEF RecvEnd
<1>2. /\ Receiving' /\ Received' /\ Aligned' /\ Carrying' /\ Sending'
      /\ TxAt' = TxAt /\ Queued' = Queued /\ Whole' = Whole /\ BufsAt' = BufsAt
  BY <1>1, ToDeviceDataKept DEF hostVars, busVars, taskVars
<1>3. DataTypes'
  BY <1>1 DEF DataTypes, hostVars, busVars
<1>4. ControlTypes' /\ CountTypes'
  BY <1>1 DEF ControlTypes, CountTypes, hostVars, halfVars, busVars, taskVars
<1>5. Linked' /\ Ending'
  BY <1>1, <1>2 DEF Linked, Ending, hostVars, halfVars, taskVars
<1>6. Counted'
  BY <1>1, <1>2, ToDeviceCountKept DEF hostVars, taskVars
<1>7. Covered'
  <2>1. sent' = sent /\ got' = got /\ in_end' = in_end
    BY <1>1 DEF hostVars, taskVars
  <2>2. in_end = "all" => \A i \in 1..Len(sent) : sent[i].len % Mts # 0 => Len(got) >= i
    BY <1>1, AnnouncedBytes
  <2> QED
    BY <2>1, <2>2 DEF Covered
<1> QED
  BY <1>2, <1>3, <1>4, <1>5, <1>6, <1>7

\* ... and the receiver may be dropped at any time.
LEMMA ToDeviceDropReceiver ==
  ASSUME ToDeviceInv, DropReceiver
  PROVE  ToDeviceInv'
<1> USE DEF ToDeviceInv
<1>1. /\ rx_alive /\ rx_alive' = FALSE /\ rxq' = <<>> /\ buffer' = Empty
      /\ UNCHANGED <<hostVars, halfVars, busVars, taskVars, got, ended, failed>>
  BY DEF DropReceiver
<1>2. DataTypes'
  <2>1. rxq' \in Seq(Piece) /\ Len(rxq') <= QueueLen
    BY <1>1, PipeAssumption
  <2> QED
    BY <1>1, <2>1 DEF DataTypes, hostVars, busVars
<1>3. ControlTypes'
  <2>1. rx_alive' \in BOOLEAN
    BY <1>1
  <2> QED
    BY <1>1, <2>1 DEF ControlTypes, hostVars, halfVars, busVars, taskVars
<1>4. CountTypes' /\ Sending' /\ Carrying' /\ Linked'
  BY <1>1 DEF CountTypes, Sending, Carrying, Linked, Whole, hostVars, busVars, taskVars
<1>5. Receiving' /\ Received'
  BY <1>1, EmptyBuffer, ChainEmpty DEF Receiving, Received, FilledFrom, hostVars
<1>6. Aligned'
  <2>1. BufsAt'.at = 0 * Mts /\ 0 \in Nat
    <3>1. BufsAt'.at = 0
      BY <1>1, EmptyBuffer DEF BufsAt, Behind, QueueAt, FilledTo, RxAt, Pos
    <3>2. Mts \in Nat
      BY FramingAssumption DEF Mts
    <3> QED
      BY <3>1, <3>2, Multiples
  <2> QED
    BY <2>1 DEF Aligned
<1>7. Ending' /\ Covered'
  BY <1>1 DEF Ending, Covered, hostVars, taskVars, halfVars
<1>8. Counted'
  <2>1. PICK b : Sums(b, sent) /\ CountedBy(b)
    BY DEF Counted
  <2>2. Sums(b, sent)' /\ CountedBy(b)'
    BY <1>1, <2>1 DEF CountedBy, hostVars
  <2> QED
    BY <2>2 DEF Counted
<1> QED
  BY <1>2, <1>3, <1>4, <1>5, <1>6, <1>7, <1>8

\* The invariant is inductive.
LEMMA ToDeviceStep ==
  ASSUME ToDeviceInv, [Next]_vars
  PROVE  ToDeviceInv'
<1>1. ASSUME UNCHANGED vars PROVE ToDeviceInv'
  <2>1. UNCHANGED <<hostVars, halfVars, busVars, taskVars, rxVars, failed>>
    BY <1>1 DEF vars
  <2>2. /\ Receiving' /\ Received' /\ Aligned' /\ Carrying' /\ Sending'
        /\ TxAt' = TxAt /\ Queued' = Queued /\ Whole' = Whole /\ BufsAt' = BufsAt
    BY <2>1, ToDeviceDataKept DEF ToDeviceInv, hostVars, busVars, taskVars, rxVars
  <2>3. DataTypes' /\ ControlTypes' /\ CountTypes'
    BY <2>1 DEF ToDeviceInv, DataTypes, ControlTypes, CountTypes, hostVars, halfVars,
                busVars, taskVars, rxVars
  <2>4. Linked' /\ Ending' /\ Covered'
    BY <2>1, <2>2 DEF ToDeviceInv, Linked, Ending, Covered, hostVars, halfVars, taskVars, rxVars
  <2>5. Counted'
    BY <2>1, <2>2, ToDeviceCountKept DEF ToDeviceInv, hostVars, taskVars, rxVars
  <2> QED
    BY <2>2, <2>3, <2>4, <2>5 DEF ToDeviceInv
<1>2. CASE Next
  BY <1>2, ToDeviceSend, ToDeviceHostTake, ToDeviceHostStep, ToDeviceClosing,
     ToDeviceInTaskEnds, ToDeviceBusOut, ToDeviceBusOutDiscarded, ToDeviceDevReceive,
     ToDeviceRecv, ToDeviceRecvEnd, ToDeviceDropReceiver DEF Next
<1> QED
  BY <1>1, <1>2

\* The inductive invariant holds in every reachable state.
THEOREM ToDeviceInvariant == Spec => []ToDeviceInv
<1>1. Init => ToDeviceInv
  BY ToDeviceInit
<1>2. ToDeviceInv /\ [Next]_vars => ToDeviceInv'
  BY ToDeviceStep
<1> QED
  BY <1>1, <1>2, PTL DEF Spec

-----------------------------------------------------------------------------
(* What follows                                                            *)

\* Type correctness of the host-to-device direction: every stage holds only
\* pieces of packets that were sent, and a buffer that is being filled is
\* never full.
THEOREM ToDeviceTypes == Spec => []TypeOK
<1>1. ASSUME ToDeviceInv PROVE TypeOK
  <2>1. fill.len < Mts
    <3> DEFINE u == [len |-> 0]
    <3>1. WholePackets(fill) /\ u.len \in 0..Mps
      BY <1>1, FramingAssumption DEF ToDeviceInv, DataTypes
    <3> HIDE DEF u
    <3> QED
      BY <3>1, Filling
  <2>2. got \in Seq(Piece)
    <3>1. ASSUME NEW p \in Packets PROVE p \in Piece
      <4>1. /\ p = [of |-> p.of, from |-> p.from, len |-> p.len]
            /\ p.of \in 1..MaxPackets /\ p.from = 0 /\ p.len \in Nat
        BY PipeAssumption DEF Packets
      <4>2. p.of \in -1..MaxPackets
        BY <4>1, PipeAssumption
      <4> QED
        BY <4>1, <4>2 DEF Piece
    <3>2. got \in Seq(Packets)
      BY <1>1 DEF ToDeviceInv, Received
    <3> QED
      BY <3>1, <3>2
  <2> QED
    BY <1>1, <2>1, <2>2 DEF ToDeviceInv, DataTypes, ControlTypes, CountTypes, Receiving, TypeOK
<1> QED
  BY <1>1, ToDeviceInvariant, PTL

\* What the byte count of CLOSE_SEND is good for: once in_task has ended
\* because it was reached and recv() has reported the end, every packet whose
\* length is not a multiple of the transfer size has been delivered, with all
\* packets before it.
THEOREM ToDeviceCountCoversData == Spec => []CountCoversData
<1>1. ToDeviceInv => CountCoversData
  BY DEF ToDeviceInv, Covered, CountCoversData
<1> QED
  BY <1>1, ToDeviceInvariant, PTL

\* The initial state is one of the channel.
LEMMA ToDeviceInitMaps == Init => Channel!Init
  BY DEF Init, Channel!Init

\* Every step is one of the channel, or none.
LEMMA ToDeviceStepMaps ==
  ASSUME ToDeviceInv, [Next]_vars
  PROVE  [Channel!Next]_(Channel!channelVars)
<1> USE DEF Channel!Next, Channel!channelVars
<1>1. CASE Send
  <2>1. PICK n \in Sizes :
           sent' = Append(sent, [of |-> Len(sent) + 1, from |-> 0, len |-> n])
    BY <1>1 DEF Send, Data
  <2>2. sender /\ Len(sent) < MaxPackets /\ UNCHANGED <<got, sender, ended, failed>>
    BY <1>1 DEF Send, rxVars
  <2> QED
    BY <2>1, <2>2 DEF Channel!Send
<1>2. CASE DropSender
  BY <1>2 DEF DropSender, Channel!Close, rxVars
<1>3. CASE HostDead \/ HostFailed \/ CloseSendLost \/ CloseLost \/ DevFailed
  <2>1. failed' = TRUE /\ UNCHANGED <<sent, got, sender, ended>>
    BY <1>3 DEF HostDead, HostFailed, LoopEnds, CloseSendLost, CloseLost, DevFailed,
                InTaskEnds, hostVars, rxVars
  <2> QED
    BY <2>1 DEF Channel!Break
<1>4. CASE Recv
  <2>1. /\ ended = "no"
        /\ \/ got' = got
           \/ Len(got) < Len(sent) /\ got' = Append(got, sent[Len(got) + 1])
    BY <1>4, ToDeviceRecv
  <2>2. UNCHANGED <<sent, sender, ended, failed>>
    BY <1>4 DEF Recv, hostVars
  <2> QED
    BY <2>1, <2>2 DEF Channel!Deliver
<1>5. CASE RecvEnd
  <2>1. ended = "no" /\ ended' = "eof" /\ UNCHANGED <<sent, got, sender, failed>>
    BY <1>5 DEF RecvEnd, hostVars
  <2> QED
    BY <2>1 DEF Channel!End
<1>6. CASE \/ HostTake \/ HostResume \/ HostQueueClosed \/ HostToldClosed \/ HostStalled
           \/ CloseSend \/ RecvDone \/ Close \/ BusOut \/ BusOutDiscarded
           \/ DevReceive \/ DevAll \/ DevDropped \/ DropReceiver
  <2>1. UNCHANGED <<sent, got, sender, ended, failed>>
    BY <1>6 DEF HostTake, HostResume, HostQueueClosed, HostToldClosed, HostStalled, LoopEnds,
                CloseSend, RecvDone, Close, BusOut, BusOutDiscarded, DevReceive, DevAll,
                DevDropped, InTaskEnds, DropReceiver, hostVars, rxVars
  <2> QED
    BY <2>1
<1>7. CASE UNCHANGED vars
  BY <1>7 DEF vars, hostVars, rxVars
<1> QED
  BY <1>1, <1>2, <1>3, <1>4, <1>5, <1>6, <1>7 DEF Next

\* The direction implements the packet channel: what recv() returns is what
\* send() accepted, in order, without gaps or repetitions, up to an end that
\* may cut off the last packets.
THEOREM ToDeviceImplementsChannel == Spec => ChannelSpec
<1>1. Init => Channel!Init
  BY ToDeviceInitMaps
<1>2. ToDeviceInv /\ [Next]_vars => [Channel!Next]_(Channel!channelVars)
  BY ToDeviceStepMaps
<1> QED
  BY <1>1, <1>2, ToDeviceInvariant, PTL DEF Spec, ChannelSpec, Channel!Spec
=============================================================================
