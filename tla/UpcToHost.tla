------------------------------ MODULE UpcToHost ------------------------------
(***************************************************************************)
(* The device-to-host direction of one open connection: send() and         *)
(* out_task of the device, the IN endpoint, in_task and recv() of the      *)
(* host, and what closes the direction.                                    *)
(*                                                                         *)
(* The reverse direction appears only as the moment it is closed on the    *)
(* host (send_closed), because CLOSE is sent when both are.                *)
(***************************************************************************)
EXTENDS UpcFraming

CONSTANTS
    Sizes,         \* sizes of the packets sent
    MaxPackets,    \* bound: packets sent
    QueueLen,      \* QUEUE_LEN
    DmaBuffers     \* buffers in_task of the host keeps submitted

ASSUME PipeAssumption ==
    /\ Sizes \subseteq Nat /\ MaxPackets \in Nat
    /\ QueueLen \in Nat \ {0} /\ DmaBuffers \in Nat \ {0}

VARIABLES
    \* device
    sent,          \* packets accepted by send()
    sender,        \* the UpcSender exists
    txq,           \* packets in the queue of out_task
    out_task,      \* out_task is running
    parts,         \* what it has still to queue of its packet
    halted,
    \* IN endpoint
    wire,          \* USB packets queued on the endpoint
    fill, bufs,    \* the host buffer being filled, the completed ones
    \* host
    in_task,       \* "receiving", "closing" or "done"
    initiated,     \* host_initiated
    hand,          \* the transfer in_task is handing over, <<>> or one
    rxq,           \* transfers in the queue of recv()
    rx_alive,      \* the UpcReceiver exists
    buffer,        \* its reassembly buffer
    error,         \* an error is stored in UpcShared
    dead,          \* DeviceStatus.dead
    got,           \* packets returned by recv()
    ended,         \* what recv() reported after the last packet
    send_closed, recv_closed, closed,   \* HalfCloseHandle, CLOSE was sent
    \* history
    failed,        \* a transfer or request of the host failed
    dev_failed     \* the device stopped sending without being asked

devVars  == <<sent, sender, txq, out_task, parts, halted>>
busVars  == <<wire, fill, bufs>>
taskVars == <<in_task, initiated, hand>>
rxVars   == <<rxq, rx_alive, buffer, got, ended>>
errVars  == <<error, dead>>
halfVars == <<send_closed, recv_closed, closed, dev_failed>>
vars     == <<devVars, busVars, taskVars, rxVars, errVars, halfVars, failed>>

Init ==
    /\ sent = <<>> /\ sender = TRUE /\ txq = <<>>
    /\ out_task = TRUE /\ parts = <<>> /\ halted = FALSE
    /\ wire = <<>> /\ fill = Empty /\ bufs = <<>>
    /\ in_task = "receiving" /\ initiated = FALSE /\ hand = <<>>
    /\ rxq = <<>> /\ rx_alive = TRUE /\ buffer = Empty
    /\ got = <<>> /\ ended = "no"
    /\ error = FALSE /\ dead = FALSE
    /\ send_closed = FALSE /\ recv_closed = FALSE /\ closed = FALSE
    /\ failed = FALSE /\ dev_failed = FALSE

(***************************************************************************)
(* The device.                                                             *)
(***************************************************************************)

\* UpcSender::send refuses what the host said it will not take.  The queue
\* exists as long as out_task.
Send ==
    /\ sender /\ out_task
    /\ Len(txq) < QueueLen /\ Len(sent) < MaxPackets
    /\ \E n \in Sizes : n <= MaxSize /\
          LET p == Data(Len(sent) + 1, 0, n)
          IN  sent' = Append(sent, p) /\ txq' = Append(txq, p)
    /\ UNCHANGED <<sender, out_task, parts, halted, busVars, taskVars, rxVars,
                   errVars, halfVars, failed>>

DropSender ==
    /\ sender /\ sender' = FALSE
    /\ UNCHANGED <<sent, txq, out_task, parts, halted, busVars, taskVars,
                   rxVars, errVars, halfVars, failed>>

\* out_task takes the next packet ...
DevTake ==
    /\ out_task /\ parts = <<>> /\ txq # <<>>
    /\ parts' = DeviceTransfers(Head(txq)) /\ txq' = Tail(txq)
    /\ UNCHANGED <<sent, sender, out_task, halted, busVars, taskVars, rxVars,
                   errVars, halfVars, failed>>

\* The USB packets of the next transfer
NextPart == SubSeq(parts, 1, CHOOSE k \in 1..Len(parts) :
                parts[k].ends /\ \A j \in 1..(k - 1) : ~parts[j].ends)

\* ... and queues it one transfer at a time; a terminator waits for a flush.
DevSendPart ==
    /\ out_task /\ parts # <<>>
    /\ parts[1].len = 0 => wire = <<>>
    /\ wire' = wire \o NextPart
    /\ parts' = SubSeq(parts, Len(NextPart) + 1, Len(parts))
    /\ UNCHANGED <<sent, sender, txq, out_task, halted, fill, bufs, taskVars,
                   rxVars, errVars, halfVars, failed>>

\* rx.recv() is None and everything is flushed ...
DevFinished_NoFlush == ~sender /\ txq = <<>> /\ parts = <<>>
DevFinished == ~sender /\ txq = <<>> /\ parts = <<>> /\ wire = <<>>

\* ... then the IN endpoint is halted.
DevDone_NoHalt ==
    /\ out_task /\ DevFinished
    /\ out_task' = FALSE /\ halted' = halted
    /\ UNCHANGED <<sent, sender, txq, parts, busVars, taskVars, rxVars,
                   errVars, halfVars, failed>>
DevDone ==
    /\ out_task /\ DevFinished
    /\ out_task' = FALSE /\ halted' = TRUE
    /\ UNCHANGED <<sent, sender, txq, parts, busVars, taskVars, rxVars,
                   errVars, halfVars, failed>>

\* out_task fails: the endpoint is halted all the same.
DevFailed ==
    /\ out_task
    /\ out_task' = FALSE /\ halted' = TRUE /\ dev_failed' = TRUE
    /\ txq' = <<>> /\ parts' = <<>> /\ wire' = <<>>
    /\ UNCHANGED <<sent, sender, fill, bufs, taskVars, rxVars, errVars,
                   send_closed, recv_closed, closed, failed>>

\* The requests that stop out_task; cancel() may leave what is in the FIFO.
OutTaskStopped ==
    /\ out_task' = FALSE /\ txq' = <<>> /\ parts' = <<>>
    /\ wire' \in {<<>>, wire}

\* The ping timeout: nothing tells the host.
DevTimedOut ==
    /\ out_task /\ OutTaskStopped /\ dev_failed' = TRUE
    /\ UNCHANGED <<sent, sender, halted, fill, bufs, taskVars, rxVars, errVars,
                   send_closed, recv_closed, closed, failed>>

(***************************************************************************)
(* The IN endpoint.                                                        *)
(***************************************************************************)

\* A USB packet goes into a buffer in_task has submitted.
BusIn ==
    /\ wire # <<>> /\ ~halted
    /\ in_task = "receiving" /\ Len(bufs) < DmaBuffers
    /\ wire' = Tail(wire)
    /\ IF Completes(fill, Head(wire))
       THEN fill' = Empty /\ bufs' = Append(bufs, Filled(fill, Head(wire)))
       ELSE fill' = Filled(fill, Head(wire)) /\ bufs' = bufs
    /\ UNCHANGED <<devVars, taskVars, rxVars, errVars, halfVars, failed>>

(***************************************************************************)
(* The host.                                                               *)
(***************************************************************************)

\* in_task waits in its select; it looks at completions first.
Waiting == in_task = "receiving" /\ hand = <<>>

HostComplete ==
    /\ Waiting /\ bufs # <<>>
    /\ hand' = <<Head(bufs)>> /\ bufs' = Tail(bufs)
    /\ UNCHANGED <<devVars, wire, fill, in_task, initiated, rxVars, errVars,
                   halfVars, failed>>

\* tx.send(packet).await
HostHandOver_Unbounded ==
    /\ hand # <<>> /\ rx_alive
    /\ rxq' = rxq \o hand /\ hand' = <<>>
    /\ UNCHANGED <<devVars, busVars, in_task, initiated, rx_alive, buffer, got,
                   ended, errVars, halfVars, failed>>
HostHandOver ==
    /\ hand # <<>> /\ rx_alive /\ Len(rxq) < QueueLen
    /\ rxq' = rxq \o hand /\ hand' = <<>>
    /\ UNCHANGED <<devVars, busVars, in_task, initiated, rx_alive, buffer, got,
                   ended, errVars, halfVars, failed>>

\* The loop of in_task ends; its endpoint is dropped with it.
LoopEnds(by_host) ==
    /\ in_task' = "closing" /\ initiated' = by_host /\ hand' = <<>>
    /\ fill' = Empty /\ bufs' = <<>>
    /\ UNCHANGED <<devVars, wire, rxVars, dead, halfVars>>

\* A transfer that was submitted ends with a stall; it is not an error.
HostStalled ==
    /\ Waiting /\ bufs = <<>> /\ halted
    /\ LoopEnds(FALSE) /\ UNCHANGED <<error, failed>>

\* It ends with another error, which is stored.
HostFailed ==
    /\ Waiting /\ bufs = <<>>
    /\ LoopEnds(FALSE) /\ error' = TRUE /\ failed' = TRUE

\* tx.closed(), or tx.send() fails
HostDropped ==
    /\ in_task = "receiving" /\ ~rx_alive /\ (bufs = <<>> \/ hand # <<>>)
    /\ LoopEnds(TRUE) /\ UNCHANGED <<error, failed>>

\* The status task has given the device up.
HostDead ==
    /\ Waiting /\ bufs = <<>> /\ dead
    /\ LoopEnds(FALSE) /\ UNCHANGED <<error, failed>>

\* status_task: the error is stored before the others are told.
StatusFailed ==
    /\ ~dead /\ error' = TRUE /\ dead' = TRUE /\ failed' = TRUE
    /\ UNCHANGED <<devVars, busVars, taskVars, rxVars, halfVars>>

\* out_task of the host stores its errors in the same place.
OtherFailed ==
    /\ ~send_closed /\ error' = TRUE /\ failed' = TRUE
    /\ UNCHANGED <<devVars, busVars, taskVars, rxVars, dead, halfVars>>

\* close_recv(): CLOSE_RECV unless the device ended the direction.  in_task
\* returns afterwards and its queue is closed.
CloseRecv ==
    /\ in_task = "closing"
    /\ in_task' = "done" /\ recv_closed' = TRUE
    /\ IF initiated /\ out_task THEN OutTaskStopped
       ELSE UNCHANGED <<out_task, txq, parts, wire>>
    /\ UNCHANGED <<sent, sender, halted, fill, bufs, initiated, hand, rxVars,
                   errVars, send_closed, closed, dev_failed, failed>>

\* The request failed, which is logged and not repeated.
CloseRecvLost ==
    /\ in_task = "closing" /\ initiated
    /\ in_task' = "done" /\ recv_closed' = TRUE /\ failed' = TRUE
    /\ UNCHANGED <<devVars, busVars, initiated, hand, rxVars, errVars,
                   send_closed, closed, dev_failed>>

\* close_send(), for whatever reason the other direction has ended
SendDone ==
    /\ ~send_closed /\ send_closed' = TRUE
    /\ UNCHANGED <<devVars, busVars, taskVars, rxVars, errVars, recv_closed,
                   closed, dev_failed, failed>>

\* close_if_both() of the host and ctrl_req::CLOSE of the device
Close ==
    /\ send_closed /\ recv_closed /\ ~closed
    /\ closed' = TRUE /\ halted' = FALSE
    /\ out_task' = FALSE /\ txq' = <<>> /\ parts' = <<>> /\ wire' = <<>>
    /\ UNCHANGED <<sent, sender, fill, bufs, taskVars, rxVars, errVars,
                   send_closed, recv_closed, dev_failed, failed>>

\* CLOSE failed, which is logged and not repeated.
CloseLost ==
    /\ send_closed /\ recv_closed /\ ~closed
    /\ closed' = TRUE /\ failed' = TRUE
    /\ UNCHANGED <<devVars, busVars, taskVars, rxVars, errVars, send_closed,
                   recv_closed, dev_failed>>

\* How many queued transfers one round of recv() takes: up to the first short
\* one, or all.
BatchLen ==
    IF \E k \in 1..Len(rxq) : IsShort(rxq[k])
    THEN CHOOSE k \in 1..Len(rxq) :
            IsShort(rxq[k]) /\ \A j \in 1..(k - 1) : ~IsShort(rxq[j])
    ELSE Len(rxq)

\* buffer and the first k queued transfers, put together.  How long Mixed data
\* is does not matter: no packet equals it.
Joined(k) ==
    LET first == IF buffer.of = Nothing THEN rxq[1] ELSE buffer
    IN  IF /\ buffer.of # Nothing => Adjacent(buffer, rxq[1])
           /\ \A j \in 1..(k - 1) : Adjacent(rxq[j], rxq[j + 1])
        THEN Data(first.of, first.from, rxq[k].from + rxq[k].len - first.from)
        ELSE Data(Mixed, 0, 0)

\* UpcReceiver::recv: one batch from the queue
Recv ==
    /\ rx_alive /\ rxq # <<>>
    /\ rxq' = SubSeq(rxq, BatchLen + 1, Len(rxq))
    /\ LET b == Joined(BatchLen)
           short == IsShort(rxq[BatchLen])
       IN  /\ buffer' = IF TooBig(b) \/ short THEN Empty ELSE b
           /\ got' = IF ~TooBig(b) /\ short THEN Append(got, b) ELSE got
    /\ UNCHANGED <<devVars, busVars, taskVars, rx_alive, ended, errVars,
                   halfVars, failed>>

\* UpcReceiver::recv: the queue is closed
RecvEnd ==
    /\ rx_alive /\ rxq = <<>> /\ in_task = "done" /\ ended = "no"
    /\ ended' = IF error THEN "error" ELSE "eof"
    /\ UNCHANGED <<devVars, busVars, taskVars, rxq, rx_alive, buffer, got,
                   errVars, halfVars, failed>>

DropReceiver ==
    /\ rx_alive /\ rx_alive' = FALSE /\ rxq' = <<>> /\ buffer' = Empty
    /\ UNCHANGED <<devVars, busVars, taskVars, got, ended, errVars, halfVars,
                   failed>>

Next ==
    \/ Send \/ DropSender \/ DevTake \/ DevSendPart \/ DevDone
    \/ DevFailed \/ DevTimedOut \/ BusIn
    \/ HostComplete \/ HostHandOver \/ HostStalled \/ HostFailed
    \/ HostDropped \/ HostDead \/ StatusFailed \/ OtherFailed
    \/ CloseRecv \/ CloseRecvLost \/ SendDone \/ Close \/ CloseLost
    \/ Recv \/ RecvEnd \/ DropReceiver

Spec == Init /\ [][Next]_vars

\* Both tasks and the controller go on, the application reads.
Fairness ==
    /\ WF_vars(DevTake) /\ WF_vars(DevSendPart) /\ WF_vars(DevDone)
    /\ WF_vars(BusIn)
    /\ WF_vars(HostComplete) /\ WF_vars(HostHandOver) /\ WF_vars(HostStalled)
    /\ WF_vars(HostDead) /\ WF_vars(CloseRecv)
    /\ WF_vars(Recv) /\ WF_vars(RecvEnd)

FairSpec == Spec /\ Fairness

(***************************************************************************)
(* Properties.                                                             *)
(***************************************************************************)

Piece == [of : -1..MaxPackets, from : Nat, len : Nat]
Packets == [of : 1..MaxPackets, from : {0}, len : Sizes]
UsbData == [of : 1..MaxPackets, from : Nat, len : 0..Mps, ends : BOOLEAN]

TypeOK ==
    /\ sent \in Seq(Packets) /\ Len(sent) <= MaxPackets
    /\ txq \in Seq(Packets) /\ Len(txq) <= QueueLen
    /\ sender \in BOOLEAN /\ parts \in Seq(UsbData)
    /\ out_task \in BOOLEAN /\ dev_failed \in BOOLEAN
    /\ halted \in BOOLEAN /\ wire \in Seq(UsbData)
    /\ fill \in Piece /\ fill.len < Mts
    /\ bufs \in Seq(Piece) /\ Len(bufs) <= DmaBuffers
    /\ in_task \in {"receiving", "closing", "done"} /\ initiated \in BOOLEAN
    /\ hand \in Seq(Piece) /\ Len(hand) <= 1
    /\ rxq \in Seq(Piece) /\ Len(rxq) <= QueueLen
    /\ rx_alive \in BOOLEAN /\ buffer \in Piece /\ got \in Seq(Piece)
    /\ error \in BOOLEAN /\ dead \in BOOLEAN
    /\ ended \in {"no", "eof", "error"}
    /\ send_closed \in BOOLEAN /\ recv_closed \in BOOLEAN /\ closed \in BOOLEAN
    /\ failed \in BOOLEAN

\* The direction implements the packet channel in full: packets arrive as
\* they were sent, in order and without gaps, a clean end means that the
\* UpcSender was dropped and everything delivered, and what the host notices
\* of a failure is an error to recv().  Only a failure of the device's sender
\* ends the stream cleanly too early, because it halts the endpoint as well.
Channel == INSTANCE UpcChannel WITH
    open <- sender, broken <- failed, silent <- dev_failed, MayCut <- FALSE
ChannelSpec == Channel!Spec

\* Dropping the UpcSender ends the stream of the receiver, if it reads and
\* the transport works.
EndIsSeen == ~sender ~> ended # "no" \/ ~rx_alive \/ failed \/ dev_failed
=============================================================================
