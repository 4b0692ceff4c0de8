------------------------------ MODULE UpcDevice ------------------------------
(***************************************************************************)
(* The device side of a USB packet channel (src/device.rs): the main task  *)
(* that serves control requests, the two transfer tasks it polls, the      *)
(* handles held by the application, and the host as their environment.     *)
(*                                                                         *)
(* Main task, in_task and out_task are one tokio task: a handler runs to   *)
(* its next blocking await without either transfer task moving.  The       *)
(* places where a handler really waits for somebody else are states of     *)
(* their own: "opening" (connection queue full), "echoing" (flush of the   *)
(* marker) and "timing_out" (the application runs on another thread        *)
(* between the error being stored and the channel being closed).           *)
(*                                                                         *)
(* A bulk transfer carries the number of the connection it was sent in; an *)
(* OUT transfer also whether it has data, because CLOSE_SEND counts bytes: *)
(* a transfer with data stands for one of them, a zero-length one for none *)
(*                                                                         *)
(* Operators whose name ends in an underscore and a word (AfterPrepare_No) *)
(* are faulty variants of the definition that follows them; nothing in the *)
(* specification uses them.                                                *)
(***************************************************************************)
EXTENDS Integers, Sequences, FiniteSets

CONSTANTS
    MaxConn,       \* bound: connections opened in a behaviour
    MaxSend,       \* bound: transfers with data per connection and direction
    MaxEmpty,      \* bound: zero-length transfers on the OUT endpoint at a time
    MaxGen,        \* bound: host processes that come and go
    AcceptQueue,   \* capacity of the channel read by accept()
    QueueLen,      \* QUEUE_LEN
    PingTicks,     \* the ping timeout, in clock ticks
    CfgPings,      \* settings of set_ping_timeout: TRUE for Some, FALSE for None
    LibraryHost    \* TRUE: the host keeps the order of requests of src/host

ASSUME BoundsAssumption ==
    /\ MaxConn \in Nat \ {0} /\ MaxGen \in Nat \ {0}
    /\ MaxSend \in Nat /\ MaxEmpty \in Nat
    /\ AcceptQueue \in Nat \ {0} /\ QueueLen \in Nat \ {0}
    /\ PingTicks \in Nat \ {0}
    /\ CfgPings \in SUBSET BOOLEAN /\ LibraryHost \in BOOLEAN

Conns == 1..MaxConn
None  == 0           \* no connection, no host capabilities
Marker == 0          \* the tag of an ECHO marker on the IN endpoint
NoCount == -1        \* close_rx holds None
Never == -1          \* timeout_sleep at Duration::MAX

OutTransfers == [conn : Conns, data : BOOLEAN]

VARIABLES
    \* the main task's locals
    main,          \* where the main task stands
    enabled,       \* mps.is_some()
    send_open, recv_open,
    in_task,       \* connection of the running in_task, None when pending()
    in_close,      \* the byte count in the watch channel of in_task
    received,      \* total_received of in_task, in bytes
    out_task,      \* connection of the running out_task
    txq,           \* length of the send queue read by out_task
    host_caps,     \* the host process the stored capabilities came from
    ping_timeout,  \* ping_timeout.is_some()
    timer,         \* ticks until timeout_sleep fires
    \* what the application holds; handles of a connection may outlive it
    nconn,         \* connections created so far, and the newest of them
    conn_q,        \* connections waiting in conn_tx
    rx_alive, tx_alive,   \* the UpcReceiver, the UpcSender exists
    rxq,           \* the receive queue read by the UpcReceiver
    got,           \* bytes handed out by recv() in the newest connection
    ended,         \* what recv() reported after the last packet
    conn_error,    \* the watch channel of the connection's error
    limit,         \* max_size of the newest UpcSender
    app_sent,      \* transfers accepted by its send()
    func_alive,    \* the UpcFunction exists
    \* the two bulk endpoints
    out_ep, in_ep, halted_out, halted_in,
    \* the host
    session,       \* the connection the host exchanges data in
    fresh,         \* CLOSE was served since, a connect sequence is under way
    gen,           \* number of the current host process
    close_sent,    \* CLOSE_SEND was sent in this session
    told_closed,   \* the host was told RECV_CLOSED in this session
    host_sent,     \* bytes sent in the newest connection
    host_got,      \* transfers read in it
    \* history
    opener,        \* host process that opened the newest connection
    in_end, out_end,   \* why its transfer tasks ended
    timed_out,     \* connections closed by the timeout while receiving
    knows_ping,    \* the host has read ping_timeout since the last CLOSE
    since          \* ticks of an open connection since OPEN or STATUS

mainVars == <<main, enabled>>
openVars == <<send_open, recv_open>>
inVars   == <<in_task, in_close, received>>
outVars  == <<out_task, txq>>
capsVars == <<host_caps, ping_timeout>>
timeVars == <<timer, since>>
device   == <<mainVars, openVars, inVars, outVars, capsVars, timeVars>>

connVars == <<nconn, conn_q, limit, opener>>
rxVars   == <<rx_alive, rxq, got, ended>>
txVars   == <<tx_alive, app_sent>>
errVars  == <<conn_error, timed_out>>
app      == <<connVars, rxVars, txVars, errVars, func_alive>>

epVars   == <<out_ep, in_ep>>
haltVars == <<halted_out, halted_in>>
hostVars == <<session, fresh, gen, close_sent, told_closed, knows_ping>>
dataVars == <<host_sent, host_got>>
endVars  == <<in_end, out_end>>
link     == <<epVars, haltVars, hostVars, dataVars, endVars>>

vars == <<device, app, link>>

\* send_open || recv_open
Open == send_open \/ recv_open

(***************************************************************************)
(* Endpoint helpers.                                                       *)
(***************************************************************************)

\* What cancel() may leave behind on the OUT endpoint: transfers that had
\* reached a posted buffer are lost, the ones still to come are not.
AfterCancelOut(q) == {SubSeq(q, k, Len(q)) : k \in 1..(Len(q) + 1)}

\* What cancel() may leave behind on the IN endpoint: at most the transfer
\* the controller has already taken into its FIFO.
AfterCancelIn(q) == {SubSeq(q, 1, k) : k \in {n \in 0..Len(q) : n <= 1}}

\* What discard_fifo() leaves of a cancelled endpoint.
AfterDiscard(q) == <<>>

\* clear_halt() on an endpoint
AfterClearHalt(h) == FALSE

\* prepare_in: every transfer that is still there is received and dropped.
AfterPrepare_No(q) == q
AfterPrepare(q) == <<>>

\* data.len(), what a received transfer adds to total_received
DataLen_Transfer(t) == 1
DataLen(t) == IF t.data THEN 1 ELSE 0

Init ==
    /\ main = "select" /\ enabled = FALSE
    /\ send_open = FALSE /\ recv_open = FALSE
    /\ in_task = None /\ in_close = NoCount /\ received = 0
    /\ out_task = None /\ txq = 0
    /\ host_caps = None /\ ping_timeout = FALSE
    /\ timer = Never /\ since = 0
    /\ nconn = 0 /\ conn_q = <<>> /\ limit = None /\ opener = None
    /\ rx_alive = [c \in Conns |-> FALSE] /\ tx_alive = [c \in Conns |-> FALSE]
    /\ rxq = [c \in Conns |-> <<>>] /\ got = 0
    /\ ended = [c \in Conns |-> "no"]
    /\ conn_error = [c \in Conns |-> "none"]
    /\ timed_out = [c \in Conns |-> FALSE]
    /\ app_sent = 0
    /\ func_alive = TRUE
    /\ out_ep = <<>> /\ in_ep = <<>>
    /\ halted_out = FALSE /\ halted_in = FALSE
    /\ session = None /\ fresh = FALSE /\ gen = 1
    /\ close_sent = FALSE /\ told_closed = FALSE /\ knows_ping = FALSE
    /\ host_sent = 0 /\ host_got = 0
    /\ in_end = "no" /\ out_end = "no"

(***************************************************************************)
(* Bus events and control requests, served while the main task is in its   *)
(* select.  A request of the library host comes at the place               *)
(* host/native.rs and host/web.rs send it from; any other host sends it at *)
(* any time.                                                               *)
(***************************************************************************)

Serving == main = "select" /\ enabled
Connecting == LibraryHost => fresh /\ session = None
InSession  == LibraryHost => session # None

\* Event::Enable
Enable ==
    /\ main = "select" /\ ~enabled
    /\ enabled' = TRUE /\ host_caps' = None
    /\ UNCHANGED <<main, openVars, inVars, outVars, ping_timeout, timeVars,
                   app, link>>

\* in_task and out_task replaced by pending(): their channel ends are dropped.
DropTasks(why) ==
    /\ in_task' = None /\ in_close' = NoCount /\ received' = 0
    /\ out_task' = None /\ txq' = 0
    /\ in_end'  = IF in_task # None THEN why ELSE in_end
    /\ out_end' = IF out_task # None THEN why ELSE out_end

\* What CLOSE and Disable do to both endpoints after the tasks are stopped.
CleanEndpoints_KeepHalts ==
    /\ \E o \in AfterCancelOut(out_ep) : out_ep' = AfterDiscard(o)
    /\ \E i \in AfterCancelIn(in_ep)   : in_ep' = AfterDiscard(i)
    /\ UNCHANGED haltVars
CleanEndpoints_KeepFifos ==
    /\ out_ep' \in AfterCancelOut(out_ep) /\ in_ep' \in AfterCancelIn(in_ep)
    /\ halted_out' = AfterClearHalt(halted_out)
    /\ halted_in'  = AfterClearHalt(halted_in)
CleanEndpoints ==
    /\ \E o \in AfterCancelOut(out_ep) : out_ep' = AfterDiscard(o)
    /\ \E i \in AfterCancelIn(in_ep)   : in_ep' = AfterDiscard(i)
    /\ halted_out' = AfterClearHalt(halted_out)
    /\ halted_in'  = AfterClearHalt(halted_in)

\* What CLOSE and Disable reset of the connection state.
ResetState_KeepRecvOpen ==
    send_open' = FALSE /\ recv_open' = recv_open /\ host_caps' = None
ResetState_KeepHostCaps ==
    send_open' = FALSE /\ recv_open' = FALSE /\ host_caps' = host_caps
ResetState ==
    send_open' = FALSE /\ recv_open' = FALSE /\ host_caps' = None

\* The host's view when its session is over, for whatever reason
NoSession(f) ==
    session' = None /\ fresh' = f /\ close_sent' = FALSE /\ told_closed' = FALSE

\* Event::Disable.  The host has lost the device.
Disable ==
    /\ Serving /\ gen < MaxGen
    /\ DropTasks("disable") /\ CleanEndpoints /\ ResetState
    /\ enabled' = FALSE
    /\ NoSession(FALSE) /\ gen' = gen + 1
    /\ UNCHANGED <<main, ping_timeout, timeVars, app, knows_ping, dataVars>>

\* ctrl_req::CLOSE
Close ==
    /\ Serving
    /\ DropTasks("close") /\ CleanEndpoints /\ ResetState
    /\ NoSession(TRUE) /\ knows_ping' = FALSE
    /\ UNCHANGED <<mainVars, ping_timeout, timeVars, app, gen, dataVars>>

\* ctrl_req::CAPABILITIES, device to host: the device takes over the ping
\* timeout of its configuration, which set_ping_timeout() changes at any time.
\* The response may get lost, then the host goes on with the defaults.
CapabilitiesIn ==
    /\ Serving /\ Connecting
    /\ \E p \in CfgPings : ping_timeout' = p
    /\ knows_ping' \in {knows_ping, TRUE}
    /\ UNCHANGED <<mainVars, openVars, inVars, outVars, host_caps, timeVars,
                   app, epVars, haltVars, session, fresh, gen, close_sent,
                   told_closed, dataVars, endVars>>

\* ctrl_req::CAPABILITIES, host to device
CapabilitiesOut ==
    /\ Serving /\ Connecting
    /\ host_caps' = gen
    /\ UNCHANGED <<mainVars, openVars, inVars, outVars, ping_timeout,
                   timeVars, app, link>>

\* ECHO is served only when no connection is open.
EchoAccepted == Serving /\ ~(send_open \/ recv_open)

\* ctrl_req::ECHO: the marker is queued on the IN endpoint ...
Echo ==
    /\ EchoAccepted /\ Connecting
    /\ main' = "echoing" /\ in_ep' = Append(in_ep, Marker)
    /\ UNCHANGED <<enabled, openVars, inVars, outVars, capsVars, timeVars,
                   app, out_ep, haltVars, hostVars, dataVars, endVars>>

\* ... and the handler returns when the host has read it.
EchoFlushed ==
    /\ main = "echoing" /\ in_ep = <<>>
    /\ main' = "select"
    /\ UNCHANGED <<enabled, openVars, inVars, outVars, capsVars, timeVars,
                   app, link>>

\* OPEN is served only when neither direction is open.
OpenAccepted_SendOnly == Serving /\ ~send_open
OpenAccepted == Serving /\ ~(send_open \/ recv_open)

\* ctrl_req::OPEN up to conn_tx.send(): drain the OUT endpoint, accept the
\* request (from here on the host takes the connection as open), create the
\* connection's channels.
OpenRequest ==
    /\ OpenAccepted /\ Connecting /\ nconn < MaxConn
    /\ out_ep' = AfterPrepare(out_ep)
    /\ main' = "opening"
    /\ nconn' = nconn + 1 /\ limit' = host_caps /\ opener' = gen
    /\ rx_alive' = [rx_alive EXCEPT ![nconn + 1] = TRUE]
    /\ tx_alive' = [tx_alive EXCEPT ![nconn + 1] = TRUE]
    /\ app_sent' = 0 /\ host_sent' = 0 /\ host_got' = 0 /\ got' = 0
    /\ in_end' = "no" /\ out_end' = "no"
    /\ session' = nconn + 1 /\ fresh' = FALSE
    /\ close_sent' = FALSE /\ told_closed' = FALSE
    /\ UNCHANGED <<enabled, openVars, inVars, outVars, capsVars, timeVars,
                   conn_q, rxq, ended, errVars, func_alive, in_ep, haltVars,
                   gen, knows_ping>>

\* ctrl_req::OPEN whose data stage fails: the receive buffers that were
\* posted for it are cancelled again.
OpenFailed ==
    /\ OpenAccepted /\ Connecting
    /\ out_ep' \in AfterCancelOut(AfterPrepare(out_ep))
    /\ UNCHANGED <<device, app, in_ep, haltVars, hostVars, dataVars, endVars>>

\* The deadline of a connection that is being established
DeadlineAtOpen_Stale == timer
DeadlineAtOpen == IF ping_timeout THEN PingTicks ELSE timer

\* The rest of ctrl_req::OPEN, once the queue of accept() has room.
OpenEstablished ==
    /\ main = "opening" /\ Len(conn_q) < AcceptQueue
    /\ main' = "select"
    /\ conn_q' = Append(conn_q, nconn)
    /\ in_task' = nconn /\ out_task' = nconn
    /\ send_open' = TRUE /\ recv_open' = TRUE
    /\ timer' = DeadlineAtOpen /\ since' = 0
    /\ UNCHANGED <<enabled, in_close, received, txq, capsVars, nconn, limit,
                   opener, rxVars, txVars, errVars, func_alive, link>>

\* ctrl_req::CLOSE_SEND.  The library host announces what it has sent.
CloseSend ==
    /\ Serving /\ InSession
    /\ \E n \in 0..MaxSend :
          /\ LibraryHost => ~close_sent /\ n = host_sent
          /\ in_close' = IF in_task # None THEN n ELSE in_close
    /\ close_sent' = TRUE
    /\ UNCHANGED <<mainVars, openVars, in_task, received, outVars, capsVars,
                   timeVars, app, epVars, haltVars, session, fresh, gen,
                   told_closed, knows_ping, dataVars, endVars>>

\* ctrl_req::CLOSE_RECV while the device is still sending
CloseRecv_CancelsOut ==
    /\ Serving /\ InSession /\ send_open
    /\ out_task' = None /\ txq' = 0 /\ send_open' = FALSE
    /\ out_end' = "close_recv"
    /\ out_ep' \in AfterCancelOut(out_ep)
    /\ UNCHANGED <<mainVars, recv_open, inVars, capsVars, timeVars, app,
                   in_ep, haltVars, hostVars, dataVars, in_end>>
CloseRecv ==
    /\ Serving /\ InSession /\ send_open
    /\ out_task' = None /\ txq' = 0 /\ send_open' = FALSE
    /\ out_end' = "close_recv"
    /\ in_ep' \in AfterCancelIn(in_ep)
    /\ UNCHANGED <<mainVars, recv_open, inVars, capsVars, timeVars, app,
                   out_ep, haltVars, hostVars, dataVars, in_end>>

\* The RECV_CLOSED flag of the STATUS response
StatusRecvClosed_Send == ~send_open
StatusRecvClosed == ~recv_open

\* ctrl_req::STATUS.  The response may get lost.
Status ==
    /\ Serving /\ InSession
    /\ timer' = IF ping_timeout THEN PingTicks ELSE timer
    /\ since' = 0
    /\ told_closed' \in {told_closed, told_closed \/ StatusRecvClosed}
    /\ UNCHANGED <<mainVars, openVars, inVars, outVars, capsVars, app, epVars,
                   haltVars, session, fresh, gen, close_sent, knows_ping,
                   dataVars, endVars>>

(***************************************************************************)
(* The ping timeout.  The error is stored before the tasks are dropped.    *)
(***************************************************************************)

Silence == ping_timeout /\ Open /\ since < PingTicks

Tick ==
    /\ timer > 0 \/ Silence
    /\ timer' = IF timer > 0 THEN timer - 1 ELSE timer
    /\ since' = IF Silence THEN since + 1 ELSE since
    /\ UNCHANGED <<mainVars, openVars, inVars, outVars, capsVars, app, link>>

\* The guard of the timeout arm
PingExpired_BothOpen ==
    timer = 0 /\ ping_timeout /\ send_open /\ recv_open
PingExpired == timer = 0 /\ ping_timeout /\ Open

TimeoutFired_Silently ==
    /\ main = "select" /\ PingExpired
    /\ main' = "timing_out"
    /\ UNCHANGED <<enabled, openVars, inVars, outVars, capsVars, timeVars,
                   app, link>>
TimeoutFired ==
    /\ main = "select" /\ PingExpired
    /\ main' = "timing_out"
    /\ conn_error' = [conn_error EXCEPT ![nconn] = "TimedOut"]
    /\ UNCHANGED <<enabled, openVars, inVars, outVars, capsVars, timeVars,
                   connVars, rxVars, txVars, timed_out, func_alive, link>>

TimeoutClosed ==
    /\ main = "timing_out"
    /\ DropTasks("timeout")
    /\ timed_out' = IF in_task # None
                    THEN [timed_out EXCEPT ![in_task] = TRUE] ELSE timed_out
    /\ out_ep' \in AfterCancelOut(out_ep) /\ in_ep' \in AfterCancelIn(in_ep)
    /\ send_open' = FALSE /\ recv_open' = FALSE
    /\ main' = "select"
    /\ UNCHANGED <<enabled, capsVars, timeVars, connVars, rxVars, txVars,
                   conn_error, func_alive, haltVars, hostVars, dataVars>>

(***************************************************************************)
(* in_task: from the OUT endpoint into the receive queue.                  *)
(***************************************************************************)

InTaskRuns == main = "select" /\ in_task # None

\* Some(total_received) == *close_rx.borrow()
AllReceived == received = in_close

\* One round of the loop: reserve a place, receive, hand over.  What arrives
\* when the UpcReceiver has just gone is received and lost.
InTaskReceive ==
    /\ InTaskRuns /\ ~AllReceived /\ out_ep # <<>>
    /\ rx_alive[in_task] => Len(rxq[in_task]) < QueueLen
    /\ rxq' = IF rx_alive[in_task]
              THEN [rxq EXCEPT ![in_task] = Append(@, Head(out_ep))] ELSE rxq
    /\ out_ep' = Tail(out_ep)
    /\ received' = received + DataLen(Head(out_ep))
    /\ UNCHANGED <<mainVars, openVars, in_task, in_close, outVars, capsVars,
                   timeVars, connVars, rx_alive, got, ended, txVars, errVars,
                   func_alive, in_ep, haltVars, hostVars, dataVars, endVars>>

\* The arm of the main select that takes the result of in_task
InTaskEnds(why) ==
    /\ in_task' = None /\ in_close' = NoCount /\ received' = 0
    /\ recv_open' = FALSE /\ in_end' = why
    /\ out_ep' \in AfterCancelOut(out_ep)
    /\ UNCHANGED <<mainVars, send_open, outVars, capsVars, timeVars, app,
                   in_ep, halted_in, hostVars, dataVars, out_end>>

\* Ok(true): the byte count of CLOSE_SEND is reached
InTaskAll ==
    /\ InTaskRuns /\ AllReceived
    /\ InTaskEnds("all") /\ UNCHANGED halted_out

\* Ok(false): the UpcReceiver is gone, the OUT endpoint is halted
InTaskDropped ==
    /\ InTaskRuns /\ ~AllReceived /\ ~rx_alive[in_task]
    /\ InTaskEnds("dropped") /\ halted_out' = TRUE

\* Err: a failed transfer
InTaskFailed ==
    /\ InTaskRuns
    /\ InTaskEnds("failed") /\ UNCHANGED halted_out

(***************************************************************************)
(* out_task: from the send queue to the IN endpoint.                       *)
(***************************************************************************)

OutTaskRuns == main = "select" /\ out_task # None

OutTaskSend_Unguarded ==
    /\ OutTaskRuns
    /\ txq' = txq - 1
    /\ in_ep' = Append(in_ep, out_task)
    /\ UNCHANGED <<mainVars, openVars, inVars, out_task, capsVars, timeVars,
                   app, out_ep, haltVars, hostVars, dataVars, endVars>>
OutTaskSend ==
    /\ OutTaskRuns /\ txq > 0
    /\ txq' = txq - 1
    /\ in_ep' = Append(in_ep, out_task)
    /\ UNCHANGED <<mainVars, openVars, inVars, out_task, capsVars, timeVars,
                   app, out_ep, haltVars, hostVars, dataVars, endVars>>

\* The arm of the main select that takes the result of out_task
OutTaskEnds(why) ==
    /\ out_task' = None /\ txq' = 0
    /\ send_open' = FALSE /\ halted_in' = TRUE /\ out_end' = why
    /\ UNCHANGED <<mainVars, recv_open, inVars, capsVars, timeVars, app,
                   epVars, halted_out, hostVars, dataVars, in_end>>

\* rx.recv() is None and flush_async() has returned.
OutTaskFinished_NoFlush == ~tx_alive[out_task] /\ txq = 0
OutTaskFinished == ~tx_alive[out_task] /\ txq = 0 /\ in_ep = <<>>

OutTaskDone   == OutTaskRuns /\ OutTaskFinished /\ OutTaskEnds("done")
OutTaskFailed == OutTaskRuns /\ OutTaskEnds("failed")

(***************************************************************************)
(* The end of the main task: unbind or an error of the gadget (both from   *)
(* the select), or the UpcFunction dropped, which aborts the task anywhere.*)
(***************************************************************************)

MainEnds ==
    /\ main' = "stopped"
    /\ DropTasks("stop")
    /\ send_open' = FALSE /\ recv_open' = FALSE
    /\ out_ep' = <<>> /\ in_ep' = <<>>
    /\ NoSession(FALSE)
    /\ UNCHANGED <<enabled, capsVars, timeVars, nconn, limit, opener, rxq,
                   got, ended, app_sent, errVars, haltVars, gen,
                   knows_ping, dataVars>>

Unbound ==
    /\ main = "select" /\ MainEnds
    /\ UNCHANGED <<conn_q, rx_alive, tx_alive, func_alive>>

\* Connections nobody has accepted yet
Waiting(c) ==
    \/ \E i \in 1..Len(conn_q) : conn_q[i] = c
    \/ main = "opening" /\ c = nconn

DropFunction ==
    /\ func_alive /\ main # "stopped" /\ MainEnds
    /\ func_alive' = FALSE /\ conn_q' = <<>>
    /\ rx_alive' = [c \in Conns |-> rx_alive[c] /\ ~Waiting(c)]
    /\ tx_alive' = [c \in Conns |-> tx_alive[c] /\ ~Waiting(c)]

(***************************************************************************)
(* The application.                                                        *)
(***************************************************************************)

\* UpcFunction::accept
Accept ==
    /\ func_alive /\ conn_q # <<>>
    /\ conn_q' = Tail(conn_q)
    /\ UNCHANGED <<device, nconn, limit, opener, rxVars, txVars, errVars,
                   func_alive, link>>

Receives(c) == rx_alive[c] /\ ~Waiting(c)
Sends(c)    == tx_alive[c] /\ ~Waiting(c)

\* UpcReceiver::recv, a transfer is in the queue
Recv(c) ==
    /\ Receives(c) /\ rxq[c] # <<>>
    /\ rxq' = [rxq EXCEPT ![c] = Tail(@)]
    /\ got' = IF c = nconn THEN got + DataLen(Head(rxq[c])) ELSE got
    /\ UNCHANGED <<device, connVars, rx_alive, ended, txVars, errVars,
                   func_alive, link>>

\* UpcReceiver::recv, the queue is empty and its sender dropped
RecvEnd(c) ==
    /\ Receives(c) /\ rxq[c] = <<>> /\ in_task # c /\ ended[c] = "no"
    /\ ended' = [ended EXCEPT
                   ![c] = IF conn_error[c] # "none" THEN "error" ELSE "eof"]
    /\ UNCHANGED <<device, connVars, rx_alive, rxq, got, txVars, errVars,
                   func_alive, link>>

\* UpcSender::send, accepted by the queue
Send(c) ==
    /\ Sends(c) /\ out_task = c /\ txq < QueueLen /\ app_sent < MaxSend
    /\ txq' = txq + 1 /\ app_sent' = app_sent + 1
    /\ UNCHANGED <<mainVars, openVars, inVars, out_task, capsVars, timeVars,
                   connVars, rxVars, tx_alive, errVars, func_alive, link>>

\* Dropping a handle: the receive queue goes with the UpcReceiver.
DropReceiver(c) ==
    /\ Receives(c)
    /\ rx_alive' = [rx_alive EXCEPT ![c] = FALSE]
    /\ rxq' = [rxq EXCEPT ![c] = <<>>] /\ got' = IF c = nconn THEN 0 ELSE got
    /\ ended' = [ended EXCEPT ![c] = "no"]
    /\ UNCHANGED <<device, connVars, txVars, errVars, func_alive, link>>

DropSender(c) ==
    /\ Sends(c)
    /\ tx_alive' = [tx_alive EXCEPT ![c] = FALSE]
    /\ UNCHANGED <<device, connVars, rxVars, app_sent, errVars, func_alive, link>>

(***************************************************************************)
(* The host's bulk transfers and its sudden end.                           *)
(***************************************************************************)

HostSend ==
    /\ session # None /\ ~close_sent /\ ~halted_out /\ host_sent < MaxSend
    /\ host_sent' = host_sent + 1
    /\ out_ep' = Append(out_ep, [conn |-> session, data |-> TRUE])
    /\ UNCHANGED <<device, app, in_ep, haltVars, hostVars, host_got, endVars>>

\* The transfer that ends a packet whose last one was full, or an empty packet
HostSendEmpty ==
    /\ session # None /\ ~close_sent /\ ~halted_out
    /\ Cardinality({i \in DOMAIN out_ep : ~out_ep[i].data}) < MaxEmpty
    /\ out_ep' = Append(out_ep, [conn |-> session, data |-> FALSE])
    /\ UNCHANGED <<device, app, in_ep, haltVars, hostVars, dataVars, endVars>>

HostRead ==
    /\ session # None /\ main # "echoing" /\ ~halted_in /\ in_ep # <<>>
    /\ host_got' = host_got + 1
    /\ in_ep' = Tail(in_ep)
    /\ UNCHANGED <<device, app, out_ep, haltVars, hostVars, host_sent, endVars>>

\* The host drains the IN endpoint up to the marker, or the device is
\* unplugged and the pending transfers fail.
HostReadEcho ==
    /\ main = "echoing" /\ in_ep # <<>>
    /\ in_ep' = Tail(in_ep)
    /\ UNCHANGED <<device, app, out_ep, haltVars, hostVars, dataVars, endVars>>

\* The host process dies; the next one starts with CLOSE.
HostGone ==
    /\ gen < MaxGen /\ (session # None \/ fresh)
    /\ gen' = gen + 1 /\ NoSession(FALSE)
    /\ UNCHANGED <<device, app, epVars, haltVars, knows_ping, dataVars, endVars>>

Requests ==
    \/ Enable \/ Disable \/ Close \/ CapabilitiesIn \/ CapabilitiesOut
    \/ Echo \/ OpenRequest \/ OpenFailed \/ CloseSend \/ CloseRecv \/ Status

DeviceTask ==
    \/ EchoFlushed \/ OpenEstablished \/ TimeoutFired \/ TimeoutClosed
    \/ InTaskReceive \/ InTaskAll \/ InTaskDropped
    \/ OutTaskSend \/ OutTaskDone

Faults == InTaskFailed \/ OutTaskFailed \/ Unbound \/ DropFunction \/ HostGone

Application ==
    \/ Accept
    \/ \E c \in Conns : \/ Recv(c) \/ RecvEnd(c) \/ Send(c)
                        \/ DropReceiver(c) \/ DropSender(c)

Host == HostSend \/ HostSendEmpty \/ HostRead \/ HostReadEcho

Next == Requests \/ DeviceTask \/ Faults \/ Application \/ Host \/ Tick

Spec == Init /\ [][Next]_vars

\* Time passes, the device task is polled when it can go on, and the
\* application accepts connections and reads what it is given.
Fairness ==
    /\ WF_vars(Tick)
    /\ WF_vars(OpenEstablished) /\ WF_vars(TimeoutFired)
    /\ WF_vars(TimeoutClosed)
    /\ WF_vars(InTaskReceive) /\ WF_vars(InTaskAll)
    /\ WF_vars(Accept) /\ \A c \in Conns : WF_vars(Recv(c))

FairSpec == Spec /\ Fairness

(***************************************************************************)
(* Properties.                                                             *)
(***************************************************************************)

InEnds  == {"no", "all", "dropped", "failed", "close", "disable", "timeout", "stop"}
OutEnds == {"no", "done", "failed", "close_recv", "close", "disable", "timeout", "stop"}

FlagsOK ==
    /\ enabled \in BOOLEAN /\ send_open \in BOOLEAN /\ recv_open \in BOOLEAN
    /\ ping_timeout \in BOOLEAN /\ func_alive \in BOOLEAN
    /\ halted_out \in BOOLEAN /\ halted_in \in BOOLEAN
    /\ fresh \in BOOLEAN /\ close_sent \in BOOLEAN
    /\ told_closed \in BOOLEAN /\ knows_ping \in BOOLEAN

MainTypeOK ==
    /\ main \in {"select", "opening", "echoing", "timing_out", "stopped"}
    /\ in_task \in 0..MaxConn /\ in_close \in {NoCount} \cup 0..MaxSend
    /\ received \in Nat
    /\ out_task \in 0..MaxConn /\ txq \in 0..QueueLen
    /\ host_caps \in 0..MaxGen
    /\ timer \in {Never} \cup 0..PingTicks /\ since \in 0..PingTicks

AppTypeOK ==
    /\ nconn \in 0..MaxConn /\ conn_q \in Seq(Conns)
    /\ limit \in 0..MaxGen /\ opener \in 0..MaxGen
    /\ rx_alive \in [Conns -> BOOLEAN] /\ tx_alive \in [Conns -> BOOLEAN]
    /\ rxq \in [Conns -> Seq(OutTransfers)] /\ got \in Nat
    /\ ended \in [Conns -> {"no", "eof", "error"}]
    /\ conn_error \in [Conns -> {"none", "TimedOut"}]
    /\ timed_out \in [Conns -> BOOLEAN]
    /\ app_sent \in 0..MaxSend

LinkTypeOK ==
    /\ out_ep \in Seq(OutTransfers) /\ in_ep \in Seq(0..MaxConn)
    /\ session \in 0..MaxConn /\ gen \in 1..MaxGen
    /\ host_sent \in 0..MaxSend
    /\ host_got \in Nat
    /\ in_end \in InEnds /\ out_end \in OutEnds

\* The locals of task(), what the application holds, the endpoints and the
\* host all keep their types; no counter leaves its range (the send queue
\* never goes below empty or above QueueLen).
TypeOK == FlagsOK /\ MainTypeOK /\ AppTypeOK /\ LinkTypeOK

\* The flags that guard OPEN, ECHO, CLOSE_RECV and STATUS agree with the
\* futures the select polls: a direction is open exactly while its task runs,
\* and both tasks belong to the connection opened last.
TasksMatchFlags ==
    /\ recv_open = (in_task # None) /\ send_open = (out_task # None)
    /\ in_task \in {None, nconn} /\ out_task \in {None, nconn}

\* A transfer task owns its endpoint's mutex until it is dropped, and is
\* polled by the very loop that runs the handlers.  So a handler that awaits
\* such a mutex (OPEN the OUT endpoint's, ECHO the IN endpoint's) must never
\* get there while that task exists, or the device waits for itself forever.
NoSelfDeadlock ==
    /\ OpenAccepted => in_task = None
    /\ EchoAccepted => out_task = None

\* No connection is handed a transfer the host sent in another one: what was
\* left on the OUT endpoint is gone before the next in_task reads it.
ReceivesOwnData ==
    \A c \in Conns : \A i \in 1..Len(rxq[c]) : rxq[c][i].conn = c

\* The host never reads, within a connection, a transfer queued in an earlier
\* one or an ECHO marker: whatever is on the IN endpoint is of the session.
SendsOwnData ==
    session # None => \A i \in 1..Len(in_ep) : in_ep[i] = session

\* A half-close halt never survives into a connection in which the direction
\* is open; the host would see the device hang up at once.
NoStaleHalt ==
    /\ recv_open => ~halted_out
    /\ send_open => ~halted_in

\* The send limit of a connection comes from the host process that opened it
\* or is the default, never from a process that is gone.
LimitOfOpener == limit \in {None, opener}

\* The bytes of a queue of transfers
Bytes(q) == Cardinality({i \in DOMAIN q : q[i].data})

\* When in_task reports that all bytes announced by CLOSE_SEND have arrived,
\* every byte the host sent is in the application's hands or its queue.  Only
\* zero-length transfers may be missing: UpcToDevice has what that can cost.
AllMeansAll ==
    in_end = "all" /\ rx_alive[nconn] =>
        got + Bytes(rxq[nconn]) = host_sent

\* When the device halts the IN endpoint because the UpcSender was dropped,
\* the host has read every packet the application sent.
HaltAfterDelivery == out_end = "done" => host_got = app_sent

\* A receiver whose connection was closed by the ping timeout never reports
\* a clean end of the stream, although it runs on another thread.
TimeoutReported == \A c \in Conns : timed_out[c] => ended[c] # "eof"

\* The ping timeout closes a connection only after PingTicks without OPEN or
\* STATUS: no deadline of an earlier connection fires in a later one.
TimeoutOnlyWhenSilent == main = "timing_out" => since = PingTicks

\* Once the host was told RECV_CLOSED, the device receives nothing more in
\* that connection; the host's out_task gives up its queue on that word.
RecvClosedIsFinal == session # None /\ told_closed => in_task # session

\* A host that is gone without CLOSE does not keep the device's connection
\* open forever when the ping timeout is on.
GoneHostDetected ==
    session = None /\ Open /\ ping_timeout ~> ~Open

\* After CLOSE_SEND the receive direction ends even if the host sends no
\* CLOSE: the announced count is reached and in_task returns.
CloseSendCompletes ==
    in_task # None /\ in_close # NoCount ~> in_task = None
=============================================================================
