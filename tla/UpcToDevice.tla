----------------------------- MODULE UpcToDevice -----------------------------
(***************************************************************************)
(* The host-to-device direction of one open connection: send() and         *)
(* out_task of the host, the OUT endpoint, in_task and recv() of the       *)
(* device, and the requests that close the direction.                      *)
(*                                                                         *)
(* The reverse direction appears only as the moment it is closed on the    *)
(* host (recv_closed), because CLOSE is sent when both are.                *)
(***************************************************************************)
EXTENDS UpcFraming

CONSTANTS
    Sizes,         \* sizes of the packets sent
    MaxPackets,    \* bound: packets sent
    QueueLen,      \* QUEUE_LEN
    DmaBuffers,    \* DMA_BUFFERS
    PostedBuffers  \* receive buffers the device keeps posted

ASSUME PipeAssumption ==
    /\ Sizes \subseteq Nat /\ MaxPackets \in Nat
    /\ QueueLen \in Nat \ {0} /\ DmaBuffers \in Nat \ {0}
    /\ PostedBuffers \in Nat \ {0}

VARIABLES
    \* host
    sent,          \* packets accepted by send()
    sender,        \* the UpcSender exists
    txq,           \* packets in the queue of out_task
    out_task,      \* "waiting", "completing", "draining" or "done"
    initiated,     \* host_initiated
    total,         \* total_bytes_sent
    send_closed, recv_closed, closed,   \* HalfCloseHandle, CLOSE was sent
    \* OUT endpoint
    wire,          \* USB packets of submitted transfers
    fill, bufs,    \* the buffer being filled, the completed ones
    halted,
    \* device
    in_task,       \* in_task is running
    in_close,      \* announced byte count, NoCount before CLOSE_SEND
    received,      \* total_received
    rxq,           \* transfers in the queue of recv()
    rx_alive,      \* the UpcReceiver exists
    buffer,        \* its reassembly buffer
    got,           \* packets returned by recv()
    ended,         \* what recv() reported after the last packet
    \* history
    in_end,        \* why in_task ended
    failed         \* a transfer or request failed

hostVars == <<sent, sender, txq, out_task, initiated, total>>
halfVars == <<send_closed, recv_closed, closed>>
busVars  == <<wire, fill, bufs, halted>>
taskVars == <<in_task, in_close, received, in_end>>
rxVars   == <<rxq, rx_alive, buffer, got, ended>>
vars     == <<hostVars, halfVars, busVars, taskVars, rxVars, failed>>

NoCount == -1

Init ==
    /\ sent = <<>> /\ sender = TRUE /\ txq = <<>>
    /\ out_task = "waiting" /\ initiated = FALSE /\ total = 0
    /\ send_closed = FALSE /\ recv_closed = FALSE /\ closed = FALSE
    /\ wire = <<>> /\ fill = Empty /\ bufs = <<>> /\ halted = FALSE
    /\ in_task = TRUE /\ in_close = NoCount /\ received = 0 /\ in_end = "no"
    /\ rxq = <<>> /\ rx_alive = TRUE /\ buffer = Empty
    /\ got = <<>> /\ ended = "no" /\ failed = FALSE

(***************************************************************************)
(* The host.                                                               *)
(***************************************************************************)

\* UpcSender::send refuses what the device said it will not take.  The queue
\* exists until out_task has returned.
Send ==
    /\ sender /\ out_task # "done"
    /\ Len(txq) < QueueLen /\ Len(sent) < MaxPackets
    /\ \E n \in Sizes : n <= MaxSize /\
          LET p == Data(Len(sent) + 1, 0, n)
          IN  sent' = Append(sent, p) /\ txq' = Append(txq, p)
    /\ UNCHANGED <<sender, out_task, initiated, total, halfVars, busVars,
                   taskVars, rxVars, failed>>

DropSender ==
    /\ sender /\ sender' = FALSE
    /\ UNCHANGED <<sent, txq, out_task, initiated, total, halfVars, busVars,
                   taskVars, rxVars, failed>>

\* out_task submits the next packet ...
HostTake_CountsTransfers ==
    /\ out_task = "waiting" /\ txq # <<>>
    /\ wire' = wire \o HostTransfers(Head(txq))
    /\ total' = total + 1
    /\ txq' = Tail(txq) /\ out_task' = "completing"
    /\ UNCHANGED <<sent, sender, initiated, halfVars, fill, bufs, halted,
                   taskVars, rxVars, failed>>
HostTake ==
    /\ out_task = "waiting" /\ txq # <<>>
    /\ wire' = wire \o HostTransfers(Head(txq))
    /\ total' = total + Head(txq).len
    /\ txq' = Tail(txq) /\ out_task' = "completing"
    /\ UNCHANGED <<sent, sender, initiated, halfVars, fill, bufs, halted,
                   taskVars, rxVars, failed>>

\* ... and goes on when fewer than DMA_BUFFERS transfers are pending.
HostResume ==
    /\ out_task = "completing" /\ Transfers(wire) < DmaBuffers
    /\ out_task' = "waiting"
    /\ UNCHANGED <<sent, sender, txq, initiated, total, halfVars, busVars,
                   taskVars, rxVars, failed>>

\* The loop of out_task ends, pending transfers are still drained.
LoopEnds(by_host) ==
    /\ out_task' = "draining" /\ initiated' = by_host
    /\ UNCHANGED <<sent, sender, txq, total, halfVars, fill, bufs, halted,
                   taskVars, rxVars>>

\* rx.recv() is None
HostQueueClosed ==
    /\ out_task = "waiting" /\ ~sender /\ txq = <<>>
    /\ LoopEnds(TRUE) /\ UNCHANGED <<wire, failed>>

\* A STATUS response with RECV_CLOSED has arrived.
HostToldClosed ==
    /\ out_task = "waiting" /\ ~in_task
    /\ LoopEnds(FALSE) /\ UNCHANGED <<wire, failed>>

\* The status task has given the device up.
HostDead ==
    /\ out_task = "waiting"
    /\ LoopEnds(FALSE) /\ failed' = TRUE /\ UNCHANGED wire

\* A pending transfer ends with a stall, and so do the ones behind it.
HostStalled ==
    /\ out_task \in {"completing", "draining"} /\ halted /\ wire # <<>>
    /\ LoopEnds(FALSE) /\ wire' = <<>> /\ UNCHANGED failed

\* A pending transfer ends with another error.
HostFailed ==
    /\ out_task \in {"completing", "draining"} /\ wire # <<>>
    /\ LoopEnds(FALSE) /\ wire' = <<>> /\ failed' = TRUE

\* close_send(): announces the byte count unless the device ended it.
CloseSend ==
    /\ out_task = "draining" /\ wire = <<>>
    /\ out_task' = "done" /\ send_closed' = TRUE
    /\ in_close' = IF initiated /\ in_task THEN total ELSE in_close
    /\ UNCHANGED <<sent, sender, txq, initiated, total, recv_closed, closed,
                   busVars, in_task, received, in_end, rxVars, failed>>

\* The request failed, which is logged and not repeated.
CloseSendLost ==
    /\ out_task = "draining" /\ wire = <<>> /\ initiated
    /\ out_task' = "done" /\ send_closed' = TRUE /\ failed' = TRUE
    /\ UNCHANGED <<sent, sender, txq, initiated, total, recv_closed, closed,
                   busVars, taskVars, rxVars>>

\* close_recv(), for whatever reason the other direction has ended
RecvDone ==
    /\ ~recv_closed /\ recv_closed' = TRUE
    /\ UNCHANGED <<hostVars, send_closed, closed, busVars, taskVars, rxVars,
                   failed>>

(***************************************************************************)
(* The OUT endpoint.                                                       *)
(***************************************************************************)

\* A USB packet goes into the posted buffer.
BusOut ==
    /\ wire # <<>> /\ ~halted /\ in_task /\ Len(bufs) < PostedBuffers
    /\ wire' = Tail(wire)
    /\ IF Completes(fill, Head(wire))
       THEN fill' = Empty /\ bufs' = Append(bufs, Filled(fill, Head(wire)))
       ELSE fill' = Filled(fill, Head(wire)) /\ bufs' = bufs
    /\ UNCHANGED <<hostVars, halfVars, halted, taskVars, rxVars, failed>>

\* No buffer is posted any more, the controller may still take the packet.
BusOutDiscarded ==
    /\ wire # <<>> /\ ~halted /\ ~in_task
    /\ wire' = Tail(wire)
    /\ UNCHANGED <<hostVars, halfVars, fill, bufs, halted, taskVars, rxVars,
                   failed>>

(***************************************************************************)
(* The device.                                                             *)
(***************************************************************************)

\* Some(total_received) == *close_rx.borrow()
AllReceived_AtOnce == in_close # NoCount
AllReceived == received = in_close

\* One round of in_task.  What arrives when the UpcReceiver has just gone is
\* received and lost.
DevReceive_Unreserved ==
    /\ in_task /\ ~AllReceived /\ bufs # <<>>
    /\ rxq' = IF rx_alive THEN Append(rxq, Head(bufs)) ELSE rxq
    /\ bufs' = Tail(bufs)
    /\ received' = received + Head(bufs).len
    /\ UNCHANGED <<hostVars, halfVars, wire, fill, halted, in_task, in_close,
                   in_end, rx_alive, buffer, got, ended, failed>>
DevReceive ==
    /\ in_task /\ ~AllReceived /\ bufs # <<>>
    /\ rx_alive => Len(rxq) < QueueLen
    /\ rxq' = IF rx_alive THEN Append(rxq, Head(bufs)) ELSE rxq
    /\ bufs' = Tail(bufs)
    /\ received' = received + Head(bufs).len
    /\ UNCHANGED <<hostVars, halfVars, wire, fill, halted, in_task, in_close,
                   in_end, rx_alive, buffer, got, ended, failed>>

\* The select arm of in_task, CLOSE: the posted buffers are cancelled.
InTaskEnds(why) ==
    /\ in_task' = FALSE /\ in_close' = NoCount /\ in_end' = why
    /\ fill' = Empty /\ bufs' = <<>>
    /\ UNCHANGED <<hostVars, send_closed, recv_closed, received, rxVars>>

DevAll ==
    /\ in_task /\ AllReceived
    /\ InTaskEnds("all") /\ UNCHANGED <<closed, wire, halted, failed>>

DevDropped ==
    /\ in_task /\ ~AllReceived /\ ~rx_alive
    /\ InTaskEnds("dropped") /\ halted' = TRUE
    /\ UNCHANGED <<closed, wire, failed>>

DevFailed ==
    /\ in_task
    /\ InTaskEnds("failed") /\ failed' = TRUE
    /\ UNCHANGED <<closed, wire, halted>>

\* close_if_both() of the host and ctrl_req::CLOSE of the device
Close ==
    /\ send_closed /\ recv_closed /\ ~closed
    /\ closed' = TRUE /\ halted' = FALSE /\ wire' = <<>>
    /\ InTaskEnds(IF in_task THEN "close" ELSE in_end)
    /\ UNCHANGED failed

\* CLOSE failed, which is logged and not repeated.
CloseLost ==
    /\ send_closed /\ recv_closed /\ ~closed
    /\ closed' = TRUE /\ failed' = TRUE
    /\ UNCHANGED <<hostVars, send_closed, recv_closed, busVars, taskVars,
                   rxVars>>

\* UpcReceiver::recv: one transfer from the queue
Recv ==
    /\ rx_alive /\ rxq # <<>>
    /\ rxq' = Tail(rxq)
    /\ LET t == Head(rxq)
           b == Join(buffer, t)
       IN  /\ buffer' = IF TooBig(b) \/ IsShort(t) THEN Empty ELSE b
           /\ got' = IF ~TooBig(b) /\ IsShort(t) THEN Append(got, b) ELSE got
    /\ UNCHANGED <<hostVars, halfVars, busVars, taskVars, rx_alive, ended,
                   failed>>

\* UpcReceiver::recv: the queue is closed
RecvEnd ==
    /\ rx_alive /\ rxq = <<>> /\ ~in_task /\ ended = "no"
    /\ ended' = "eof"
    /\ UNCHANGED <<hostVars, halfVars, busVars, taskVars, rxq, rx_alive,
                   buffer, got, failed>>

DropReceiver ==
    /\ rx_alive /\ rx_alive' = FALSE /\ rxq' = <<>> /\ buffer' = Empty
    /\ UNCHANGED <<hostVars, halfVars, busVars, taskVars, got, ended, failed>>

Next ==
    \/ Send \/ DropSender \/ HostTake \/ HostResume \/ HostQueueClosed
    \/ HostToldClosed \/ HostDead \/ HostStalled \/ HostFailed \/ CloseSend
    \/ CloseSendLost \/ RecvDone \/ Close \/ CloseLost
    \/ BusOut \/ BusOutDiscarded
    \/ DevReceive \/ DevAll \/ DevDropped \/ DevFailed
    \/ Recv \/ RecvEnd \/ DropReceiver

Spec == Init /\ [][Next]_vars

\* Both tasks and the controller go on, the application reads.
Fairness ==
    /\ WF_vars(HostTake) /\ WF_vars(HostResume) /\ WF_vars(HostQueueClosed)
    /\ WF_vars(CloseSend) /\ WF_vars(BusOut)
    /\ WF_vars(DevReceive) /\ WF_vars(DevAll)
    /\ WF_vars(Recv) /\ WF_vars(RecvEnd)

FairSpec == Spec /\ Fairness

(***************************************************************************)
(* Properties.                                                             *)
(***************************************************************************)

Piece == [of : -1..MaxPackets, from : Nat, len : Nat]
Packets == [of : 1..MaxPackets, from : {0}, len : Sizes]
UsbData == [of : 1..MaxPackets, from : Nat, len : 0..Mps, ends : BOOLEAN]

TypeOK ==
    /\ sent \in Seq(Packets)
    /\ Len(sent) <= MaxPackets
    /\ txq \in Seq(Packets) /\ Len(txq) <= QueueLen
    /\ sender \in BOOLEAN /\ initiated \in BOOLEAN /\ total \in Nat
    /\ out_task \in {"waiting", "completing", "draining", "done"}
    /\ send_closed \in BOOLEAN /\ recv_closed \in BOOLEAN /\ closed \in BOOLEAN
    /\ wire \in Seq(UsbData)
    /\ fill \in Piece /\ fill.len < Mts
    /\ bufs \in Seq(Piece) /\ Len(bufs) <= PostedBuffers
    /\ halted \in BOOLEAN /\ in_task \in BOOLEAN
    /\ in_close \in {NoCount} \cup Nat /\ received \in Nat
    /\ in_end \in {"no", "all", "dropped", "failed", "close"}
    /\ rxq \in Seq(Piece) /\ Len(rxq) <= QueueLen
    /\ rx_alive \in BOOLEAN /\ buffer \in Piece /\ got \in Seq(Piece)
    /\ ended \in {"no", "eof"} /\ failed \in BOOLEAN

\* The direction implements the packet channel: packets arrive as they were
\* sent, in order and without gaps; its end may cut off the last ones.
Channel == INSTANCE UpcChannel WITH
    open <- sender, broken <- FALSE, silent <- failed, MayCut <- TRUE
ChannelSpec == Channel!Spec

\* What the byte count of CLOSE_SEND is good for: when in_task has ended
\* because it was reached, only packets can be missing that are followed by
\* none which ends in a transfer with data.
CountCoversData ==
    in_end = "all" /\ ended = "eof" /\ ~failed =>
        \A i \in 1..Len(sent) : sent[i].len % Mts # 0 => Len(got) >= i

\* Dropping the UpcSender ends the stream of the receiver, if it reads and
\* the transport works.
EndIsSeen == ~sender ~> ended # "no" \/ ~rx_alive \/ failed

\* device.rs on the count reached: "All expected data has been received."
AllExpectedReceived ==
    in_end = "all" /\ ended = "eof" /\ ~failed => Len(got) = Len(sent)
=============================================================================
