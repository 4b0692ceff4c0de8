-------------------------------- MODULE UpcHost --------------------------------
(***************************************************************************)
(* The native host (src/host/native.rs): connect_with, the three tasks of  *)
(* a connection, the HalfCloseHandle they share, and the device as their   *)
(* environment.                                                            *)
(*                                                                         *)
(* The tasks run on a multi-threaded runtime: each step of a task is an    *)
(* action.  A connection is one call of connect_with that has claimed the  *)
(* interface.  Control requests are served in the order in which they are  *)
(* made.  Of a transfer matters the connection it was sent in; packets of  *)
(* out_task are counted while they are pending.  What recv() reports at the *)
(* end is the subject of UpcToHost.                                        *)
(*                                                                         *)
(* Operators with an underscore and a word (InUse_Never) are faulty        *)
(* variants of the operator that follows them.                             *)
(***************************************************************************)
EXTENDS UpcCaps, FiniteSets

CONSTANTS
    MaxConns,      \* bound: calls of connect_with that claim the interface
    MaxPipe,       \* bound: transfers in the device's IN pipe
    QueueLen,      \* QUEUE_LEN, capacity of the queue to recv()
    DmaBuffers,    \* DMA_BUFFERS, for out_task
    InBuffers,     \* bound: completions of in_task that wait to be taken
    MaxFails,      \* bound: requests and transfers that fail
    FailKinds,     \* what may fail
    Pings, Sizes,  \* ping timeouts and size limits, besides no timeout
    Intervals,     \* UpcOptions::ping_interval, besides none
    Cuts           \* lengths at which a response may end early

Requests == {"CLOSE", "CAPS_IN", "CAPS_OUT", "OPEN", "CLOSE_SEND", "CLOSE_RECV", "STATUS"}

ASSUME HostAssumption ==
    /\ MaxConns \in Nat \ {0} /\ MaxPipe \in Nat \ {0} /\ QueueLen \in Nat \ {0}
    /\ DmaBuffers \in Nat \ {0} /\ InBuffers \in Nat \ {0} /\ MaxFails \in Nat
    /\ FailKinds \subseteq Requests \union {"IN", "OUT"}
    /\ Pings \subseteq Nat /\ Sizes \subseteq 0..LargestSize /\ Intervals \subseteq Nat /\ Cuts \subseteq Nat

Conns   == 1..MaxConns
NoConn  == 0
Dirs    == {"in", "out"}
Holders == {"connect", "in", "out", "status"}

\* A completed transfer of the IN endpoint
Completion(k, c) == [kind |-> k, conn |-> c]

\* The capabilities exchange: what the device is set to and was told, what the
\* host heard and decided, and whether it got the whole response.  Before
\* anything is heard the defaults hold.
Exchange(offer, heard, whole) ==
    [offer |-> offer, heard |-> heard, whole |-> whole, asked |-> None, interval |-> None,
     size |-> DefaultMaxSize, limit |-> DefaultMaxSize]
NoCaps == Exchange(DeviceDefault, DeviceDefault, FALSE)

\* A device of this version, set to a ping timeout and a receive limit
Offer(p, s) == [ping_timeout |-> p, status_supported |-> TRUE, echo_supported |-> TRUE, max_size |-> s]

\* Entries that a later version may add behind the known ones
NewerEntries == {<<>>, <<Entry(0, <<>>), Entry(5, <<1, 2>>)>>}

VARIABLES
    \* connect_with
    pc,        \* where the call stands
    holders,   \* who holds a clone of the Interface or an endpoint
    caps,      \* the capabilities being exchanged
    polls,     \* status_interval.is_some()
    \* in_task, out_task, status_task
    task,      \* where the two data tasks stand
    notify,    \* host_initiated
    comps,     \* completions that in_task has not taken
    pending,   \* ep.pending() of out_task
    status,    \* where the status task stands
    told,      \* DeviceStatus.recv_closed
    dead,      \* DeviceStatus.dead
    \* HalfCloseHandle
    shut,      \* send_closed, recv_closed
    lock,      \* the task that holds its mutex
    \* handles of the application
    tx, rx,    \* the UpcSender (or a future of closed()), the UpcReceiver exists
    queue,     \* transfers queued for recv()
    \* USB
    ctrl,      \* control requests in flight
    reply,     \* replies not yet taken
    gone,      \* the device is unplugged
    fails,     \* requests and transfers that failed
    \* history
    unflushed, \* connections whose flush ended with a failed transfer
    lost,      \* connections of which a task's CLOSE never reached the device
    \* the device
    open,      \* the connection it holds open
    dsend, drecv,   \* its send_open, recv_open
    pipe, haltIn, haltOut

connVars == <<pc, caps, polls>>
taskVars == <<task, notify, comps, pending>>
statVars == <<status, told, dead>>
halfVars == <<shut, lock>>
appVars  == <<tx, rx, queue>>
usbVars  == <<ctrl, reply>>
histVars == <<unflushed, lost>>
envVars  == <<gone, fails, histVars>>
sideVars == <<open, dsend, drecv>>
epVars   == <<pipe, haltIn, haltOut>>
devVars  == <<sideVars, epVars>>

vars == <<connVars, holders, taskVars, statVars, halfVars, appVars, usbVars, envVars, devVars>>

-----------------------------------------------------------------------------
(* The claimed interface and its control requests                          *)

InUse_Never == FALSE
InUse == \E c \in Conns : holders[c] # {}

\* Makes a control request; the caller is resumed by its reply.
Call(c, by, kind) ==
    /\ ctrl' = IF gone THEN ctrl ELSE Append(ctrl, [conn |-> c, by |-> by, kind |-> kind])
    /\ reply' = [reply EXCEPT ![c][by] = IF gone THEN "err" ELSE "none"]

Taken(c, by) == reply' = [reply EXCEPT ![c][by] = "none"]
Answered(c, by) == reply[c][by] # "none"

\* A reply reaches its caller unless the future that waited for it is gone.
Reply(r, res) ==
    reply' = IF r.by = "connect" /\ pc[r.conn] = "over" THEN reply
             ELSE [reply EXCEPT ![r.conn][r.by] = res]

-----------------------------------------------------------------------------
(* connect_with                                                            *)

Init ==
    /\ pc = [c \in Conns |-> "idle"] /\ holders = [c \in Conns |-> {}]
    /\ caps = [c \in Conns |-> NoCaps] /\ polls = [c \in Conns |-> FALSE]
    /\ task = [c \in Conns |-> [d \in Dirs |-> "off"]]
    /\ notify = [c \in Conns |-> [d \in Dirs |-> FALSE]]
    /\ comps = [c \in Conns |-> <<>>] /\ pending = [c \in Conns |-> 0]
    /\ status = [c \in Conns |-> "off"] /\ told = [c \in Conns |-> FALSE]
    /\ dead = [c \in Conns |-> FALSE]
    /\ shut = [c \in Conns |-> {}] /\ lock = [c \in Conns |-> {}]
    /\ tx = [c \in Conns |-> FALSE] /\ rx = [c \in Conns |-> FALSE]
    /\ queue = [c \in Conns |-> <<>>]
    /\ ctrl = <<>> /\ reply = [c \in Conns |-> [h \in Holders |-> "none"]]
    /\ gone = FALSE /\ fails = 0 /\ unflushed = {} /\ lost = {}
    /\ open = NoConn /\ dsend = FALSE /\ drecv = FALSE
    /\ pipe = <<>> /\ haltIn = NoConn /\ haltOut = FALSE

\* claim_interface, clear_halt on both endpoints, CLOSE.  Calls are numbered
\* when they get the interface; one that finds it busy until CLAIM_TIMEOUT
\* fails without any other effect.  The application has dropped the handles of
\* earlier connections, and those whose tasks have ended are forgotten.
ClaimInterface(c) ==
    /\ pc[c] = "idle" /\ ~InUse /\ ~gone
    /\ \A b \in 1..(c - 1) : pc[b] # "idle" /\ (holders[b] = {} => ~tx[b] /\ ~rx[b])
    /\ LET Forgotten(b) == b < c /\ holders[b] = {} IN
       /\ pc' = [b \in Conns |-> IF b = c THEN "close" ELSE IF Forgotten(b) THEN "over" ELSE pc[b]]
       /\ task' = [b \in Conns |-> IF Forgotten(b) THEN [d \in Dirs |-> "ended"] ELSE task[b]]
       /\ status' = [b \in Conns |-> IF Forgotten(b) THEN "ended" ELSE status[b]]
       /\ told' = [b \in Conns |-> told[b] /\ ~Forgotten(b)]
       /\ dead' = [b \in Conns |-> dead[b] /\ ~Forgotten(b)]
       /\ polls' = [b \in Conns |-> polls[b] /\ ~Forgotten(b)]
       /\ shut' = [b \in Conns |-> IF Forgotten(b) THEN {} ELSE shut[b]]
       /\ unflushed' = {b \in unflushed : comps[b] # <<>> \/ queue[b] # <<>>}
       /\ lost' = {b \in lost : ~Forgotten(b)}
    /\ holders' = [holders EXCEPT ![c] = {"connect"}]
    /\ haltIn' = NoConn /\ haltOut' = FALSE
    /\ Call(c, "connect", "CLOSE")
    /\ UNCHANGED <<caps, notify, comps, pending, lock, appVars, gone, fails, sideVars, pipe>>

\* The future ends with an error, or is dropped, at any await.
Ends(c) ==
    /\ pc' = [pc EXCEPT ![c] = "over"] /\ holders' = [holders EXCEPT ![c] = {}]
    /\ caps' = [caps EXCEPT ![c] = NoCaps] /\ Taken(c, "connect")
    /\ UNCHANGED <<polls, taskVars, statVars, halfVars, appVars, ctrl, envVars, devVars>>

GiveUp(c) == pc[c] \notin {"idle", "done", "over"} /\ Ends(c)

Refused(c) ==
    /\ \/ pc[c] \in {"close", "open"} /\ reply[c]["connect"] = "err"
       \/ pc[c] = "caps" /\ reply[c]["connect"] = "ok" /\ caps[c].heard = Refusal
    /\ Ends(c)

\* A transfer that comes within FLUSH_TIMEOUT is stale and dropped ...
FlushRead(c) ==
    /\ pc[c] = "close" /\ reply[c]["connect"] = "ok" /\ pipe # <<>>
    /\ pipe' = Tail(pipe)
    /\ UNCHANGED <<connVars, holders, taskVars, statVars, halfVars, appVars, usbVars,
                   envVars, sideVars, haltIn, haltOut>>

\* ... and the flush ends when none does; what is left does come in that time.
Quiet_AtOnce == TRUE
Quiet == pipe = <<>>
AskCaps(c) ==
    /\ pc[c] = "close" /\ reply[c]["connect"] = "ok"
    /\ pc' = [pc EXCEPT ![c] = "caps"] /\ Call(c, "connect", "CAPS_IN")
    /\ UNCHANGED <<holders, caps, polls, taskVars, statVars, halfVars, appVars, gone, lost, devVars>>
QueryCaps(c) == Quiet /\ AskCaps(c) /\ UNCHANGED <<fails, unflushed>>

\* It ends as well when its transfer fails, and connect_with goes on with what
\* is left in the pipe.
FlushFails(c) ==
    /\ "IN" \in FailKinds /\ ~gone /\ fails < MaxFails /\ fails' = fails + 1
    /\ unflushed' = unflushed \union {c}
    /\ AskCaps(c)

\* A failed query means the defaults; then the host tells its own limit.
SendCaps(c) ==
    /\ pc[c] = "caps" /\ Answered(c, "connect") /\ caps[c].heard # Refusal
    /\ pc' = [pc EXCEPT ![c] = "hostcaps"]
    /\ \E i \in Intervals \union {None}, s \in Sizes :
          caps' = [caps EXCEPT ![c].asked = i, ![c].size = s,
                               ![c].interval = StatusInterval(caps[c].heard, i)]
    /\ Call(c, "connect", "CAPS_OUT")
    /\ UNCHANGED <<holders, polls, taskVars, statVars, halfVars, appVars, envVars, devVars>>

\* Whether the device took the limit is not looked at.
SendOpen(c) ==
    /\ pc[c] = "hostcaps" /\ Answered(c, "connect")
    /\ pc' = [pc EXCEPT ![c] = "open"] /\ Call(c, "connect", "OPEN")
    /\ polls' = [polls EXCEPT ![c] = caps[c].interval # None]
    /\ caps' = [caps EXCEPT ![c] = NoCaps]
    /\ UNCHANGED <<holders, taskVars, statVars, halfVars, appVars, envVars, devVars>>

\* The tasks start once the connection is open; the handles are returned.
Opened(c) ==
    /\ pc[c] = "open" /\ reply[c]["connect"] = "ok"
    /\ pc' = [pc EXCEPT ![c] = "done"]
    /\ holders' = [holders EXCEPT ![c] = {"in", "out"} \union IF polls[c] THEN {"status"} ELSE {}]
    /\ task' = [task EXCEPT ![c] = [in |-> "read", out |-> "take"]]
    /\ status' = [status EXCEPT ![c] = IF polls[c] THEN "poll" ELSE "idle"]
    /\ tx' = [tx EXCEPT ![c] = TRUE] /\ rx' = [rx EXCEPT ![c] = TRUE]
    /\ Taken(c, "connect")
    /\ UNCHANGED <<caps, polls, notify, comps, pending, told, dead, halfVars, queue, ctrl, envVars, devVars>>

-----------------------------------------------------------------------------
(* in_task                                                                 *)

\* The loop ends: host_initiated is known, the HalfCloseHandle comes next.
InEnds(c, initiated) ==
    /\ task' = [task EXCEPT ![c]["in"] = "lock"]
    /\ notify' = [notify EXCEPT ![c]["in"] = initiated]

\* The select: a completion first, then the receiver's drop, then the death of
\* the device.  Only the receiver's drop ends the wait for a place in its queue.
InStops(c) ==
    /\ \/ task[c]["in"] = "read" /\ comps[c] = <<>> /\ ~rx[c] /\ InEnds(c, TRUE)
       \/ task[c]["in"] = "read" /\ comps[c] = <<>> /\ rx[c] /\ dead[c] /\ InEnds(c, FALSE)
       \/ task[c]["in"] = "full" /\ ~rx[c] /\ InEnds(c, TRUE)
    /\ UNCHANGED <<connVars, holders, comps, pending, statVars, halfVars, appVars, usbVars, envVars, devVars>>

InFails(c) ==
    /\ task[c]["in"] = "read" /\ comps[c] # <<>> /\ Head(comps[c]).kind # "data"
    /\ comps' = [comps EXCEPT ![c] = <<>>]
    /\ InEnds(c, FALSE)
    /\ UNCHANGED <<connVars, holders, pending, status, told, dead, halfVars, appVars,
                   usbVars, envVars, devVars>>

\* tx.send: the queue is full, or its receiver is gone.
InWaits(c) ==
    /\ task[c]["in"] = "read" /\ comps[c] # <<>> /\ Head(comps[c]).kind = "data"
    /\ ~rx[c] \/ Len(queue[c]) = QueueLen
    /\ task' = [task EXCEPT ![c]["in"] = "full"]
    /\ UNCHANGED <<connVars, holders, notify, comps, pending, statVars, halfVars,
                   appVars, usbVars, envVars, devVars>>

MayQueue_Always(c) == TRUE
MayQueue(c) == Len(queue[c]) < QueueLen
InQueues(c) ==
    /\ task[c]["in"] \in {"read", "full"} /\ rx[c] /\ MayQueue(c)
    /\ comps[c] # <<>> /\ Head(comps[c]).kind = "data"
    /\ queue' = [queue EXCEPT ![c] = Append(@, Head(comps[c]).conn)]
    /\ comps' = [comps EXCEPT ![c] = Tail(@)]
    /\ task' = [task EXCEPT ![c]["in"] = "read"]
    /\ UNCHANGED <<connVars, holders, notify, pending, statVars, halfVars, tx, rx, usbVars, envVars, devVars>>

-----------------------------------------------------------------------------
(* out_task                                                                *)

DeviceClosed(c) == told[c] \/ dead[c]

\* The select: the status first, then the queue.  What was queued before the
\* sender is dropped is taken before the drop is seen.  A terminator counts with
\* the transfer it ends.
OutTakes(c) ==
    /\ task[c]["out"] = "take" /\ ~DeviceClosed(c) /\ tx[c]
    /\ pending' = [pending EXCEPT ![c] = @ + 1]
    /\ task' = [task EXCEPT ![c]["out"] = "collect"]
    /\ UNCHANGED <<connVars, holders, notify, comps, statVars, halfVars, appVars, usbVars, envVars, devVars>>

OutStops(c) ==
    /\ task[c]["out"] = "take" /\ (DeviceClosed(c) \/ ~tx[c])
    /\ task' = [task EXCEPT ![c]["out"] = "drain"]
    /\ notify' = [notify EXCEPT ![c]["out"] = ~DeviceClosed(c)]
    /\ UNCHANGED <<connVars, holders, comps, pending, statVars, halfVars, appVars, usbVars, envVars, devVars>>

\* get_complete waits only while DMA_BUFFERS transfers are pending.
MustWait(c) == pending[c] >= DmaBuffers
OutGoesOn(c) ==
    /\ task[c]["out"] = "collect" /\ ~MustWait(c)
    /\ task' = [task EXCEPT ![c]["out"] = "take"]
    /\ UNCHANGED <<connVars, holders, notify, comps, pending, statVars, halfVars,
                   appVars, usbVars, envVars, devVars>>

\* next_complete: the device has taken the first pending transfer ...
OutSent(c) ==
    /\ task[c]["out"] \in {"collect", "drain"} /\ pending[c] > 0 /\ drecv /\ ~gone
    /\ pending' = [pending EXCEPT ![c] = @ - 1]
    /\ UNCHANGED <<connVars, holders, task, notify, comps, statVars, halfVars, appVars,
                   usbVars, envVars, devVars>>

\* ... or it ends with a stall, or with an error.  Nothing else ends it.  From
\* then on the close is not of the host's doing.
OutFails(c) ==
    /\ task[c]["out"] \in {"collect", "drain"} /\ pending[c] > 0
    /\ \/ (haltOut \/ gone) /\ UNCHANGED fails
       \/ "OUT" \in FailKinds /\ fails < MaxFails /\ fails' = fails + 1
    /\ pending' = [pending EXCEPT ![c] = @ - 1]
    /\ task' = [task EXCEPT ![c]["out"] = "drain"]
    /\ notify' = [notify EXCEPT ![c]["out"] = FALSE]
    /\ UNCHANGED <<connVars, holders, comps, status, told, dead, halfVars, appVars,
                   usbVars, gone, histVars, devVars>>

OutDrained(c) ==
    /\ task[c]["out"] = "drain" /\ pending[c] = 0
    /\ task' = [task EXCEPT ![c]["out"] = "lock"]
    /\ UNCHANGED <<connVars, holders, notify, comps, pending, statVars, halfVars,
                   appVars, usbVars, envVars, devVars>>

-----------------------------------------------------------------------------
(* HalfCloseHandle                                                         *)

Request(d) == IF d = "in" THEN "CLOSE_RECV" ELSE "CLOSE_SEND"

LockFree_Ignored(c) == TRUE
LockFree(c) == lock[c] = {}

BothShut_Never(dirs) == FALSE
BothShut(dirs) == dirs = Dirs

\* The task returns: its channel end, the mutex, its endpoint and its reference
\* to the handle go; the handle's Interface goes with the second of them.
Returns(c, d) ==
    /\ task' = [task EXCEPT ![c][d] = "ended"]
    /\ lock' = [lock EXCEPT ![c] = @ \ {d}]
    /\ holders' = [holders EXCEPT ![c] = @ \ {d}]
    /\ comps' = IF d = "in" THEN [comps EXCEPT ![c] = <<>>] ELSE comps

\* close_if_both sends CLOSE, or the task returns.
CloseOrReturn(c, d) ==
    IF BothShut(shut'[c])
    THEN /\ task' = [task EXCEPT ![c][d] = "close"] /\ Call(c, d, "CLOSE")
         /\ lock' = [lock EXCEPT ![c] = @ \union {d}] /\ UNCHANGED <<holders, comps>>
    ELSE Returns(c, d) /\ Taken(c, d) /\ UNCHANGED ctrl

\* close_send, close_recv
HalfClose(c, d) ==
    /\ task[c][d] = "lock" /\ LockFree(c)
    /\ shut' = [shut EXCEPT ![c] = @ \union {d}]
    /\ notify' = [notify EXCEPT ![c][d] = FALSE]
    /\ IF notify[c][d]
       THEN /\ task' = [task EXCEPT ![c][d] = "half"] /\ Call(c, d, Request(d))
            /\ lock' = [lock EXCEPT ![c] = @ \union {d}] /\ UNCHANGED <<holders, comps>>
       ELSE CloseOrReturn(c, d)
    /\ UNCHANGED <<connVars, pending, statVars, appVars, envVars, devVars>>

\* A request that failed is only logged.
HalfClosed(c, d) ==
    /\ task[c][d] = "half" /\ Answered(c, d)
    /\ UNCHANGED shut /\ CloseOrReturn(c, d)
    /\ UNCHANGED <<connVars, notify, pending, statVars, appVars, envVars, devVars>>

Closed(c, d) ==
    /\ task[c][d] = "close" /\ Answered(c, d)
    /\ Returns(c, d) /\ Taken(c, d)
    /\ UNCHANGED <<connVars, notify, pending, statVars, shut, appVars, ctrl, envVars, devVars>>

-----------------------------------------------------------------------------
(* status_task                                                             *)

NobodyWatches_Kept(c) == FALSE
NobodyWatches(c) == \A d \in Dirs : task[c][d] = "ended"

\* Once nobody watches, closed() is ready at once; that the timer fires in the
\* same instant and wins is left out.
PollStatus(c) ==
    /\ status[c] = "poll" /\ ~NobodyWatches(c)
    /\ status' = [status EXCEPT ![c] = "waits"]
    /\ Call(c, "status", "STATUS")
    /\ UNCHANGED <<connVars, holders, taskVars, told, dead, halfVars, appVars, envVars, devVars>>

StatusAnswered(c) ==
    /\ status[c] = "waits" /\ reply[c]["status"] \in {"ok", "recv_closed"}
    /\ status' = [status EXCEPT ![c] = "poll"]
    /\ told' = [told EXCEPT ![c] = @ \/ reply[c]["status"] = "recv_closed"]
    /\ Taken(c, "status")
    /\ UNCHANGED <<connVars, holders, taskVars, dead, halfVars, appVars, ctrl, envVars, devVars>>

StatusFailed(c) ==
    /\ status[c] = "waits" /\ reply[c]["status"] = "err"
    /\ status' = [status EXCEPT ![c] = "ended"]
    /\ dead' = [dead EXCEPT ![c] = TRUE]
    /\ holders' = [holders EXCEPT ![c] = @ \ {"status"}]
    /\ Taken(c, "status")
    /\ UNCHANGED <<connVars, taskVars, told, halfVars, appVars, ctrl, envVars, devVars>>

StatusEnds(c) ==
    /\ status[c] \in {"poll", "idle"} /\ NobodyWatches(c)
    /\ status' = [status EXCEPT ![c] = "ended"]
    /\ holders' = [holders EXCEPT ![c] = @ \ {"status"}]
    /\ UNCHANGED <<connVars, taskVars, told, dead, halfVars, appVars, usbVars, envVars, devVars>>

-----------------------------------------------------------------------------
(* The application                                                         *)

DropSender(c) ==
    /\ tx[c] /\ tx' = [tx EXCEPT ![c] = FALSE]
    /\ UNCHANGED <<connVars, holders, taskVars, statVars, halfVars, rx, queue, usbVars, envVars, devVars>>

DropReceiver(c) ==
    /\ rx[c] /\ rx' = [rx EXCEPT ![c] = FALSE]
    /\ queue' = [queue EXCEPT ![c] = <<>>]
    /\ UNCHANGED <<connVars, holders, taskVars, statVars, halfVars, tx, usbVars, envVars, devVars>>

Recv(c) ==
    /\ rx[c] /\ queue[c] # <<>>
    /\ queue' = [queue EXCEPT ![c] = Tail(@)]
    /\ UNCHANGED <<connVars, holders, taskVars, statVars, halfVars, tx, rx, usbVars, envVars, devVars>>

-----------------------------------------------------------------------------
(* The device's main task: one request at a time                           *)

hostSide == <<pc, polls, holders, taskVars, statVars, halfVars, appVars>>

\* The request is served; its answer may still be lost on the way.
Serves(kind, res) ==
    /\ ctrl # <<>> /\ Head(ctrl).kind = kind /\ ctrl' = Tail(ctrl)
    /\ \/ Reply(Head(ctrl), res) /\ UNCHANGED fails
       \/ /\ kind \in FailKinds /\ fails < MaxFails /\ fails' = fails + 1
          /\ Reply(Head(ctrl), "err")
    /\ UNCHANGED <<hostSide, gone, histVars>>

\* CLOSE: the queues are cancelled and the FIFO discarded as far as the
\* controller does it.
DevClose ==
    /\ Serves("CLOSE", "ok")
    /\ open' = NoConn /\ dsend' = FALSE /\ drecv' = FALSE
    /\ haltIn' = NoConn /\ haltOut' = FALSE
    /\ pipe' \in {pipe, <<>>}
    /\ UNCHANGED caps

\* OPEN: ignored while a connection is open.
DevOpen ==
    /\ Serves("OPEN", IF dsend \/ drecv THEN "err" ELSE "ok")
    /\ IF dsend \/ drecv THEN UNCHANGED sideVars
       ELSE open' = Head(ctrl).conn /\ dsend' = TRUE /\ drecv' = TRUE
    /\ UNCHANGED <<caps, epVars>>

\* CAPABILITIES to the host: the response is as long as the host asked for at
\* most, and may end early.
Responses ==
    LET Heard(offer, data, n) ==
            Exchange(offer, DecodeDevice(SubSeq(data, 1, Lesser(n, Len(data)))), n >= Len(data))
    IN {Heard(Offer(p, s), EncodeDevice(Offer(p, s), newer), n) :
           p \in Pings \union {None}, s \in Sizes, newer \in NewerEntries, n \in Cuts \union {ResponseLen}}
DevCapsIn ==
    /\ Serves("CAPS_IN", "ok")
    /\ LET c == Head(ctrl).conn IN
       \E x \in Responses :
          caps' = IF pc[c] # "caps" THEN caps
                  ELSE [caps EXCEPT ![c] = IF reply'[c]["connect"] = "err"
                                           THEN Exchange(x.offer, DeviceDefault, FALSE) ELSE x]
    /\ UNCHANGED devVars

\* CAPABILITIES from the host
Limits == [s \in Sizes |-> DecodeHost(EncodeHost(s))]
DevCapsOut ==
    /\ Serves("CAPS_OUT", "ok")
    /\ LET c == Head(ctrl).conn
           limit == Limits[caps[c].size]
       IN caps' = IF pc[c] # "hostcaps" \/ limit = Disregarded THEN caps
                  ELSE [caps EXCEPT ![c].limit = limit]
    /\ UNCHANGED devVars

\* CLOSE_SEND: what the host has sent is received, and in_task ends.
DevCloseSend ==
    /\ Serves("CLOSE_SEND", "ok")
    /\ drecv' = FALSE
    /\ UNCHANGED <<caps, open, dsend, epVars>>

DevCloseRecv ==
    /\ Serves("CLOSE_RECV", "ok")
    /\ dsend' = FALSE
    /\ pipe' \in IF dsend THEN {pipe, <<>>} ELSE {pipe}
    /\ UNCHANGED <<caps, open, drecv, haltIn, haltOut>>

DevStatus ==
    /\ Serves("STATUS", IF drecv THEN "ok" ELSE "recv_closed")
    /\ UNCHANGED <<caps, devVars>>

Serve ==
    \/ DevClose \/ DevOpen \/ DevCapsIn \/ DevCapsOut \/ DevCloseSend \/ DevCloseRecv \/ DevStatus

DevSends ==
    /\ dsend /\ ~gone /\ Len(pipe) < MaxPipe
    /\ pipe' = Append(pipe, open)
    /\ UNCHANGED <<hostSide, caps, usbVars, envVars, sideVars, haltIn, haltOut>>

\* The device's sender is dropped: IN is halted after everything was read.
DevEndsSend ==
    /\ dsend /\ ~gone /\ pipe = <<>>
    /\ dsend' = FALSE /\ haltIn' = open
    /\ UNCHANGED <<hostSide, caps, usbVars, envVars, open, drecv, pipe, haltOut>>

DevEndsRecv ==
    /\ drecv /\ ~gone /\ drecv' = FALSE /\ haltOut' = TRUE
    /\ UNCHANGED <<hostSide, caps, usbVars, envVars, open, dsend, pipe, haltIn>>

\* The ping timeout closes the connection and halts nothing.
DevTimesOut ==
    /\ dsend \/ drecv
    /\ ~gone
    /\ dsend' = FALSE /\ drecv' = FALSE /\ pipe' \in {pipe, <<>>}
    /\ UNCHANGED <<hostSide, caps, usbVars, envVars, open, haltIn, haltOut>>

-----------------------------------------------------------------------------
(* USB                                                                     *)

\* in_task keeps transfers submitted beside the one it awaits; its endpoint takes
\* data until the task returns.
Reads(c) == task[c]["in"] \notin {"off", "ended"} /\ Len(comps[c]) < InBuffers

Completes(c, x) == comps' = [comps EXCEPT ![c] = Append(@, x)]

BusIn(c) ==
    /\ Reads(c) /\ pipe # <<>> /\ haltIn = NoConn /\ ~gone
    /\ pipe' = Tail(pipe) /\ Completes(c, Completion("data", Head(pipe)))
    /\ UNCHANGED <<connVars, holders, task, notify, pending, statVars, halfVars,
                   appVars, usbVars, envVars, sideVars, haltIn, haltOut>>

Broken(c) == \E i \in DOMAIN comps[c] : comps[c][i].kind # "data"

BusStall(c) ==
    /\ Reads(c) /\ ~Broken(c) /\ haltIn # NoConn /\ ~gone
    /\ Completes(c, Completion("halt", haltIn))
    /\ UNCHANGED <<connVars, holders, task, notify, pending, statVars, halfVars,
                   appVars, usbVars, envVars, devVars>>

BusFails(c) ==
    /\ "IN" \in FailKinds /\ fails < MaxFails /\ fails' = fails + 1
    /\ Reads(c) /\ ~Broken(c) /\ ~gone
    /\ Completes(c, Completion("err", NoConn))
    /\ UNCHANGED <<connVars, holders, task, notify, pending, statVars, halfVars,
                   appVars, usbVars, gone, histVars, devVars>>

\* A control request fails, or times out, without reaching the device.
RequestFails ==
    /\ ctrl # <<>> /\ Head(ctrl).kind \in FailKinds
    /\ fails < MaxFails /\ fails' = fails + 1
    /\ ctrl' = Tail(ctrl) /\ Reply(Head(ctrl), "err")
    /\ lost' = IF Head(ctrl).kind = "CLOSE" /\ Head(ctrl).by \in Dirs
               THEN lost \union {Head(ctrl).conn} ELSE lost
    /\ UNCHANGED <<hostSide, caps, gone, unflushed, devVars>>

\* Everything in flight fails.
Unplug ==
    /\ ~gone /\ gone' = TRUE
    /\ reply' = [c \in Conns |-> [h \in Holders |->
                   IF \E i \in DOMAIN ctrl : ctrl[i].conn = c /\ ctrl[i].by = h
                       /\ ~(h = "connect" /\ pc[c] = "over")
                   THEN "err" ELSE reply[c][h]]]
    /\ ctrl' = <<>>
    /\ comps' = [c \in Conns |-> IF task[c]["in"] \notin {"off", "ended"} /\ ~Broken(c)
                                THEN Append(comps[c], Completion("err", NoConn)) ELSE comps[c]]
    /\ open' = NoConn /\ dsend' = FALSE /\ drecv' = FALSE
    /\ pipe' = <<>> /\ haltIn' = NoConn /\ haltOut' = FALSE
    /\ UNCHANGED <<connVars, holders, task, notify, pending, statVars, halfVars, appVars, fails, histVars>>

ConnectNext(c) ==
    \/ Refused(c) \/ FlushRead(c) \/ QueryCaps(c) \/ FlushFails(c) \/ SendCaps(c) \/ SendOpen(c)
    \/ Opened(c)

HalfNext(c, d) == HalfClose(c, d) \/ HalfClosed(c, d) \/ Closed(c, d)

InTask(c) == InStops(c) \/ InFails(c) \/ InWaits(c) \/ InQueues(c) \/ HalfNext(c, "in")

OutTask(c) ==
    OutStops(c) \/ OutGoesOn(c) \/ OutSent(c) \/ OutFails(c) \/ OutDrained(c) \/ HalfNext(c, "out")

StatusNext(c) == PollStatus(c) \/ StatusAnswered(c) \/ StatusFailed(c) \/ StatusEnds(c)

AppNext(c) ==
    ClaimInterface(c) \/ GiveUp(c) \/ DropSender(c) \/ DropReceiver(c) \/ Recv(c) \/ OutTakes(c)

DeviceNext == Serve \/ DevSends \/ DevEndsSend \/ DevEndsRecv \/ DevTimesOut

BusNext(c) == BusIn(c) \/ BusStall(c) \/ BusFails(c)

Next ==
    \/ \E c \in Conns : ConnectNext(c) \/ InTask(c) \/ OutTask(c) \/ StatusNext(c) \/ AppNext(c) \/ BusNext(c)
    \/ DeviceNext \/ RequestFails \/ Unplug

\* The tasks and the bus run; the device serves requests and its application
\* reads what the host sends.  Nobody has to connect, to drop a handle, or to
\* poll at any particular time.
Fairness ==
    /\ \A c \in Conns :
        /\ WF_vars(InTask(c)) /\ WF_vars(OutTask(c)) /\ WF_vars(BusIn(c) \/ BusStall(c))
        /\ WF_vars(StatusAnswered(c) \/ StatusFailed(c) \/ StatusEnds(c))
    /\ WF_vars(Serve)

Spec == Init /\ [][Next]_vars /\ Fairness

-----------------------------------------------------------------------------
(* Properties                                                              *)

Steps == {"off", "read", "full", "take", "collect", "drain", "lock", "half", "close", "ended"}

\* Every variable keeps its range; queues and pending transfers their capacity.
TypeOK ==
    /\ pc \in [Conns -> {"idle", "close", "caps", "hostcaps", "open", "done", "over"}]
    /\ holders \in [Conns -> SUBSET Holders] /\ polls \in [Conns -> BOOLEAN]
    /\ task \in [Conns -> [Dirs -> Steps]] /\ notify \in [Conns -> [Dirs -> BOOLEAN]]
    /\ status \in [Conns -> {"off", "idle", "poll", "waits", "ended"}]
    /\ \A c \in Conns : /\ Len(queue[c]) <= QueueLen /\ Len(comps[c]) <= InBuffers + 1
                        /\ pending[c] \in 0..DmaBuffers
    /\ told \in [Conns -> BOOLEAN] /\ dead \in [Conns -> BOOLEAN]
    /\ shut \in [Conns -> SUBSET Dirs] /\ lock \in [Conns -> SUBSET Dirs]
    /\ tx \in [Conns -> BOOLEAN] /\ rx \in [Conns -> BOOLEAN]
    /\ reply \in [Conns -> [Holders -> {"none", "ok", "recv_closed", "err"}]]
    /\ \A i \in DOMAIN ctrl : ctrl[i].conn \in Conns /\ ctrl[i].by \in Holders /\ ctrl[i].kind \in Requests
    /\ gone \in BOOLEAN /\ fails \in 0..MaxFails
    /\ unflushed \in SUBSET Conns /\ lost \in SUBSET Conns
    /\ open \in 0..MaxConns /\ dsend \in BOOLEAN /\ drecv \in BOOLEAN
    /\ pipe \in Seq(Conns) /\ Len(pipe) <= MaxPipe /\ haltIn \in 0..MaxConns /\ haltOut \in BOOLEAN

\* recv() returns only what the device sent in this connection: the flush before
\* OPEN leaves nothing of an earlier one in the pipe, unless it ended because its
\* transfer failed.  What an earlier flush has left does not matter.
RecvIsOwn ==
    \A c \in Conns : c \notin unflushed => \A i \in DOMAIN queue[c] : queue[c][i] = c

\* The request that closes a connection is the last of its data tasks: the other
\* one has returned, and nothing but a STATUS follows it to the device.
CloseIsLast ==
    \A c \in Conns :
        /\ \A d, e \in Dirs : task[c][d] = "close" /\ e # d => task[c][e] = "ended"
        /\ \A i, j \in DOMAIN ctrl :
              i < j /\ ctrl[i].conn = c /\ ctrl[j].conn = c /\ ctrl[i].kind = "CLOSE" /\ ctrl[i].by \in Dirs
              => ctrl[j].by = "status"

\* A request that closes a direction of a connection comes from its own tasks,
\* or from another connect_with after all of them have released the interface.
NoForeignClose ==
    [][\A c \in Conns :
         open = c /\ ctrl # <<>> /\ ctrl' = Tail(ctrl)
           /\ (open' # c \/ (dsend /\ ~dsend') \/ (drecv /\ ~drecv'))
         => \/ Head(ctrl).conn = c \/ gone'
            \/ Head(ctrl).by = "connect" /\ holders[c] = {}]_vars

\* PROTOCOL.md:119-120: unless the CLOSE of its tasks was lost on the way, the
\* device keeps no connection open whose tasks have all released the interface,
\* whatever else has failed.
TornDownIsClosed ==
    \A c \in Conns : pc[c] = "done" /\ holders[c] = {} /\ c \notin lost => open # c

\* Once the exchange is over, whatever the device offers and however the response
\* was cut: each value is the one it offered (durations in whole milliseconds) or
\* the default, and all of them are its own when the response was whole.
CapsUnderstood ==
    \A c \in Conns : LET x == caps[c] IN
        pc[c] \in {"caps", "hostcaps"} /\ x.heard # Refusal =>
            /\ \A f \in DOMAIN DeviceDefault : x.heard[f] \in {DeviceDefault[f], Told(x.offer)[f]}
            /\ x.whole => x.heard = Told(x.offer)
            /\ x.limit \in {DefaultMaxSize, x.size}

\* A host that was told of a ping timeout polls at least twice within the timeout
\* that the device enforces, and never less often than the application asked for.
PollsInTime ==
    \A c \in Conns : LET x == caps[c] IN
        pc[c] = "hostcaps" /\ x.heard.status_supported =>
            /\ x.heard.ping_timeout # None => x.interval # None /\ 2 * x.interval <= x.offer.ping_timeout
            /\ x.asked # None => x.interval # None /\ x.interval <= x.asked

\* A transfer that the device has stopped taking without halting its endpoint (a
\* ping timeout halts nothing) never completes, and out_task waits for it.
HangingTransfer(c) == pending[c] > 0 /\ ~drecv /\ ~haltOut /\ ~gone

\* Once both handles were dropped or the device is dead, the tasks end and the
\* interface can be claimed again: such a connection does not hold it for ever,
\* unless a transfer hangs, or recv() is still used and data arrive: in_task
\* looks at them before the death of the device.
ReleasesInterface ==
    []<>(\A c \in Conns :
        pc[c] = "done" /\ (dead[c] \/ (~tx[c] /\ ~rx[c]))
        => holders[c] = {} \/ HangingTransfer(c) \/ (rx[c] /\ comps[c] # <<>>))
===============================================================================
