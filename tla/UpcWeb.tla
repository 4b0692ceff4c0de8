-------------------------------- MODULE UpcWeb --------------------------------
(***************************************************************************)
(* The web host (src/host/web.rs) with its interface guard                 *)
(* (src/host/guard.rs): connect_with, the three tasks of a connection, the *)
(* HalfCloseHandle they share, and the device as their environment.        *)
(*                                                                         *)
(* A page is single-threaded (spawn_local): an action runs from one await  *)
(* to the next.  Control requests are served in the order in which they    *)
(* are made.  A connection is one call of connect_with; a later one may be *)
(* made at any time, and the page may be killed at any time.  Connections  *)
(* of killed pages keep their numbers: the device may still hold one open. *)
(*                                                                         *)
(* The IN pipe is a sequence of pieces; a transfer ends with a short piece *)
(* or a full buffer, so what a cancelled packet left behind may be joined  *)
(* to the piece that follows it, the ECHO marker included.                 *)
(*                                                                         *)
(* Operators with an underscore and a word (InUse_Never) are faulty        *)
(* variants of the operator that follows them.                             *)
(***************************************************************************)
EXTENDS Integers, Sequences, SequencesExt, FiniteSets

CONSTANTS
    MaxConns,      \* bound: calls of connect_with
    MaxPipe,       \* bound: pieces in the device's IN pipe
    QueueLen,      \* QUEUE_LEN
    EchoRetries,   \* retries of the ECHO barrier
    MaxFails,      \* bound: control requests that fail
    FailKinds,     \* the requests that may fail
    Kills          \* TRUE: the page may be killed

Requests == {"CLOSE", "CAPS", "ECHO", "OPEN", "CLOSE_SEND", "CLOSE_RECV", "STATUS"}

ASSUME WebAssumption ==
    /\ MaxConns \in Nat \ {0} /\ MaxPipe \in Nat \ {0} /\ QueueLen \in Nat \ {0}
    /\ EchoRetries \in Nat \ {0} /\ MaxFails \in Nat /\ FailKinds \subseteq Requests
    /\ Kills \in BOOLEAN

Conns   == 1..MaxConns
NoConn  == 0
Dirs    == {"in", "out"}
Holders == {"connect", "in", "out", "status"}
Replies == {"none", "ok", "recv_closed", "err"}

\* What a piece on the IN pipe carries: data (mark 0) or an ECHO marker of a
\* connection.  Of a transfer only matters the set of what its pieces carry.
Content(c, k) == [conn |-> c, mark |-> k]
Piece(c, k, s) == [content |-> Content(c, k), short |-> s]
NoTransfer == [kind |-> "none", data |-> {}, conn |-> NoConn]

VARIABLES
    \* connect_with
    pc,        \* where the call stands
    guard,     \* holders of the Rc<InUseGuard>
    tries,     \* ECHO markers sent
    claimed,   \* the interface is claimed by the page
    \* in_task, out_task, status_task
    task,      \* where the two data tasks stand
    notify,    \* host_initiated
    arrived,   \* result of transfer_in not yet taken by in_task
    status,    \* where the status task stands
    told,      \* DeviceStatus.recv_closed
    dead,      \* DeviceStatus.dead
    error,     \* the shared error is set
    \* HalfCloseHandle
    shut,      \* send_closed, recv_closed
    lock,      \* the task that holds its mutex
    \* handles of the application (or still of connect_with)
    tx, rx,    \* the UpcSender, the UpcReceiver exists
    queue,     \* transfers queued for recv()
    haltSeen,  \* history: the connection whose IN halt in_task saw
    \* USB
    ctrl,      \* control requests in flight
    reply,     \* replies not yet taken
    reads,     \* transfer_in calls in the browser, orphaned ones included
    gone,      \* the device is unplugged
    fails,     \* control requests that failed
    \* the device
    open,      \* the connection it holds open
    dsend, drecv,   \* its send_open, recv_open
    echoing,   \* its main task waits for the marker to be read
    pipe, haltIn, haltOut

connVars == <<pc, guard, tries>>
taskVars == <<task, notify, arrived>>
statVars == <<status, told, dead, error>>
halfVars == <<shut, lock>>
appVars  == <<tx, rx, queue>>
usbVars  == <<claimed, ctrl, reply, reads>>
envVars  == <<gone, fails>>
sideVars == <<open, dsend, drecv, echoing>>
epVars   == <<pipe, haltIn, haltOut>>
devVars  == <<sideVars, epVars>>

vars == <<connVars, taskVars, statVars, halfVars, appVars, haltSeen, usbVars, envVars, devVars>>

-----------------------------------------------------------------------------
(* Interface guard, control requests and transfers of the browser.         *)

\* IN_USE contains the interface: some clone of the guard is alive.
InUse_Never == FALSE
InUse == \E c \in Conns : guard[c] # {}

\* The browser refuses a request while the interface is not claimed.
Reachable == claimed /\ ~gone

\* Makes a control request; the caller is resumed by its reply.
Call(c, by, kind, k) ==
    /\ ctrl' = IF Reachable THEN Append(ctrl, [conn |-> c, by |-> by, kind |-> kind, mark |-> k])
                            ELSE ctrl
    /\ reply' = [reply EXCEPT ![c][by] = IF Reachable THEN "none" ELSE "err"]

Taken(c, by) == reply' = [reply EXCEPT ![c][by] = "none"]
Answered(c, by) == reply[c][by] # "none"

\* A reply reaches its caller unless the future that waited for it is gone.
Reply(r, res) ==
    reply' = IF r.by = "connect" /\ pc[r.conn] = "over" THEN reply
             ELSE [reply EXCEPT ![r.conn][r.by] = res]

\* in_task awaits a transfer; one whose in_task has moved on is orphaned.
Reading(c) == task[c]["in"] = "read" /\ arrived[c] = NoTransfer
Arrives(c, t) == arrived' = IF Reading(c) THEN [arrived EXCEPT ![c] = t] ELSE arrived

Failure == [NoTransfer EXCEPT !.kind = "err"]

\* release_interface: every transfer of the interface is cancelled.
Release ==
    /\ claimed' = FALSE /\ reads' = <<>>
    /\ arrived' = [c \in Conns |-> IF Reading(c) THEN Failure ELSE arrived[c]]

-----------------------------------------------------------------------------
(* connect_with                                                            *)

Init ==
    /\ pc = [c \in Conns |-> "idle"] /\ guard = [c \in Conns |-> {}]
    /\ tries = [c \in Conns |-> 0] /\ claimed = FALSE
    /\ task = [c \in Conns |-> [d \in Dirs |-> "off"]]
    /\ notify = [c \in Conns |-> [d \in Dirs |-> FALSE]]
    /\ arrived = [c \in Conns |-> NoTransfer]
    /\ status = [c \in Conns |-> "off"] /\ told = [c \in Conns |-> FALSE]
    /\ dead = [c \in Conns |-> FALSE] /\ error = [c \in Conns |-> FALSE]
    /\ shut = [c \in Conns |-> {}] /\ lock = [c \in Conns |-> {}]
    /\ tx = [c \in Conns |-> FALSE] /\ rx = [c \in Conns |-> FALSE]
    /\ queue = [c \in Conns |-> <<>>]
    /\ haltSeen = [c \in Conns |-> NoConn]
    /\ ctrl = <<>> /\ reply = [c \in Conns |-> [h \in Holders |-> "none"]]
    /\ reads = <<>> /\ gone = FALSE /\ fails = 0
    /\ open = NoConn /\ dsend = FALSE /\ drecv = FALSE /\ echoing = FALSE
    /\ pipe = <<>> /\ haltIn = NoConn /\ haltOut = FALSE

\* A call of connect_with gets the guard, and releases a claim that was left
\* from before.  Calls are numbered when they do; one that finds the interface
\* in use until its retries are spent fails without any other effect.  Once its
\* tasks have ended, a connection whose handles are dropped is forgotten.
TakeGuard(c) ==
    /\ pc[c] = "idle" /\ ~InUse
    /\ \A b \in 1..(c - 1) : pc[b] # "idle" /\ (guard[b] = {} => ~tx[b] /\ ~rx[b])
    /\ LET Forgotten(b) == b < c /\ guard[b] = {} IN
       /\ pc' = [b \in Conns |-> IF b = c THEN "release" ELSE IF Forgotten(b) THEN "over" ELSE pc[b]]
       /\ tries' = [b \in Conns |-> IF Forgotten(b) THEN 0 ELSE tries[b]]
       /\ haltSeen' = [b \in Conns |-> IF Forgotten(b) THEN NoConn ELSE haltSeen[b]]
       /\ told' = [b \in Conns |-> told[b] /\ ~Forgotten(b)]
       /\ dead' = [b \in Conns |-> dead[b] /\ ~Forgotten(b)]
       /\ error' = [b \in Conns |-> error[b] /\ ~Forgotten(b)]
       /\ shut' = [b \in Conns |-> IF Forgotten(b) THEN {} ELSE shut[b]]
       /\ task' = [b \in Conns |-> IF Forgotten(b) THEN [d \in Dirs |-> "ended"] ELSE task[b]]
       /\ status' = [b \in Conns |-> IF Forgotten(b) THEN "ended" ELSE status[b]]
    /\ guard' = [guard EXCEPT ![c] = {"connect"}]
    /\ Release
    /\ UNCHANGED <<notify, lock, appVars, ctrl, reply, envVars, devVars>>

\* The future ends with an error, or the application drops it.  The tasks
\* that were started keep their clones of the guard.
Ends(c) ==
    /\ pc' = [pc EXCEPT ![c] = "over"]
    /\ guard' = [guard EXCEPT ![c] = @ \ {"connect"}]
    /\ tx' = [tx EXCEPT ![c] = FALSE] /\ rx' = [rx EXCEPT ![c] = FALSE]
    /\ queue' = [queue EXCEPT ![c] = <<>>]
    /\ Taken(c, "connect")
    /\ UNCHANGED <<tries, taskVars, statVars, halfVars, haltSeen, claimed, ctrl, reads, envVars, devVars>>

GiveUp(c) == pc[c] \notin {"idle", "done", "over"} /\ Ends(c)

Refused(c) ==
    /\ \/ pc[c] \in {"close", "marking", "open"} /\ reply[c]["connect"] = "err"
       \/ pc[c] = "release" /\ gone
       \/ pc[c] = "echo" /\ tries[c] = EchoRetries
    /\ Ends(c)

\* claim_interface, clear_halt on both endpoints, CLOSE
ClaimInterface(c) ==
    /\ pc[c] = "release" /\ ~gone
    /\ pc' = [pc EXCEPT ![c] = "close"]
    /\ claimed' = TRUE /\ haltIn' = NoConn /\ haltOut' = FALSE
    /\ ctrl' = Append(ctrl, [conn |-> c, by |-> "connect", kind |-> "CLOSE", mark |-> 0])
    /\ UNCHANGED <<guard, tries, taskVars, statVars, halfVars, appVars, haltSeen, reply, reads, envVars, sideVars, pipe>>

\* The two CAPABILITIES requests count as one; the second one's result is ignored.
QueryCaps(c) ==
    /\ pc[c] = "close" /\ reply[c]["connect"] = "ok"
    /\ pc' = [pc EXCEPT ![c] = "caps"] /\ Call(c, "connect", "CAPS", 0)
    /\ UNCHANGED <<guard, tries, claimed, taskVars, statVars, halfVars, appVars, haltSeen, reads, envVars, devVars>>

\* Without capabilities neither STATUS nor ECHO may be used; with them, the
\* intervals of the two sides decide whether the status is polled.
StartTasks(c) ==
    /\ pc[c] = "caps" /\ Answered(c, "connect")
    /\ LET supported == reply[c]["connect"] = "ok" IN
       /\ pc' = [pc EXCEPT ![c] = IF supported THEN "echo" ELSE "drain"]
       /\ \E s \in IF supported THEN {"poll", "idle"} ELSE {"idle"} :
              status' = [status EXCEPT ![c] = s]
    /\ guard' = [guard EXCEPT ![c] = Holders]
    /\ task' = [task EXCEPT ![c] = [in |-> "read", out |-> "take"]]
    /\ tx' = [tx EXCEPT ![c] = TRUE] /\ rx' = [rx EXCEPT ![c] = TRUE]
    /\ reads' = Append(reads, [conn |-> c, data |-> {}])
    /\ Taken(c, "connect")
    /\ UNCHANGED <<tries, notify, arrived, told, dead, error, halfVars, queue, haltSeen, claimed, ctrl, envVars, devVars>>

\* The ECHO barrier: a marker of its own for each round.
MarkerOf_Fixed(k) == 1
MarkerOf(k) == k
SendEcho(c) ==
    /\ pc[c] = "echo" /\ tries[c] < EchoRetries
    /\ pc' = [pc EXCEPT ![c] = "marking"] /\ tries' = [tries EXCEPT ![c] = @ + 1]
    /\ Call(c, "connect", "ECHO", MarkerOf(tries[c] + 1))
    /\ UNCHANGED <<guard, claimed, taskVars, statVars, halfVars, appVars, haltSeen, reads, envVars, devVars>>

EchoSent(c) ==
    /\ pc[c] = "marking" /\ reply[c]["connect"] = "ok"
    /\ pc' = [pc EXCEPT ![c] = "barrier"] /\ Taken(c, "connect")
    /\ UNCHANGED <<guard, tries, claimed, taskVars, statVars, halfVars, appVars, haltSeen, ctrl, reads, envVars, devVars>>

CurrentMarker(c) == {Content(c, MarkerOf(tries[c]))}
QueueEnded(c) == queue[c] = <<>> /\ task[c]["in"] = "ended"

\* rx_in.recv() returns a transfer that is not the marker, while flushing.
Discard(c) ==
    /\ queue[c] # <<>>
    /\ \/ pc[c] = "barrier" /\ Head(queue[c]) # CurrentMarker(c)
       \/ pc[c] = "drain"
    /\ queue' = [queue EXCEPT ![c] = Tail(@)]
    /\ UNCHANGED <<connVars, taskVars, statVars, halfVars, tx, rx, haltSeen, usbVars, envVars, devVars>>

\* The marker can take any time; FLUSH_TIMEOUT may pass before it.
BarrierTimedOut(c) ==
    /\ pc[c] = "barrier" /\ queue[c] = <<>> /\ ~QueueEnded(c)
    /\ pc' = [pc EXCEPT ![c] = "echo"]
    /\ UNCHANGED <<guard, tries, taskVars, statVars, halfVars, appVars, haltSeen, usbVars, envVars, devVars>>

\* Stale data that is left arrives within FLUSH_TIMEOUT.
Quiet(c) == queue[c] = <<>> /\ arrived[c] = NoTransfer /\ pipe = <<>>

\* The flush ends: marker read, nothing more arrives, or in_task has ended.
Flushed(c) ==
    \/ pc[c] = "barrier" /\ queue[c] # <<>> /\ Head(queue[c]) = CurrentMarker(c)
    \/ pc[c] = "drain" /\ Quiet(c)
    \/ pc[c] \in {"barrier", "drain"} /\ QueueEnded(c)

SendOpen(c) ==
    /\ Flushed(c)
    /\ pc' = [pc EXCEPT ![c] = "open"]
    /\ queue' = [queue EXCEPT ![c] = IF @ = <<>> THEN @ ELSE Tail(@)]
    /\ Call(c, "connect", "OPEN", 0)
    /\ UNCHANGED <<guard, tries, claimed, taskVars, statVars, halfVars, tx, rx, haltSeen, reads, envVars, devVars>>

\* connect_with returns the handles.
Opened(c) ==
    /\ pc[c] = "open" /\ reply[c]["connect"] = "ok"
    /\ pc' = [pc EXCEPT ![c] = "done"] /\ guard' = [guard EXCEPT ![c] = @ \ {"connect"}]
    /\ Taken(c, "connect")
    /\ UNCHANGED <<tries, claimed, taskVars, statVars, halfVars, appVars, haltSeen, ctrl, reads, envVars, devVars>>

-----------------------------------------------------------------------------
(* in_task and out_task                                                    *)

\* The loop ends: host_initiated is known, the HalfCloseHandle comes next.
\* A transfer_in that is still awaited is dropped, not cancelled.
LoopEnds(c, d, initiated) ==
    /\ task' = [task EXCEPT ![c][d] = "lock"]
    /\ notify' = [notify EXCEPT ![c][d] = initiated]
    /\ arrived' = IF d = "in" THEN [arrived EXCEPT ![c] = NoTransfer] ELSE arrived

\* The receiver is gone, or the device is dead: looked at before a transfer
\* that has arrived.  Only the former is noticed while the queue is full.
InStops(c) ==
    /\ \/ task[c]["in"] \in {"read", "full"} /\ ~rx[c] /\ LoopEnds(c, "in", TRUE)
       \/ task[c]["in"] = "read" /\ rx[c] /\ dead[c] /\ LoopEnds(c, "in", FALSE)
    /\ UNCHANGED <<connVars, statVars, halfVars, appVars, haltSeen, usbVars, envVars, devVars>>

InFails(c) ==
    /\ task[c]["in"] = "read" /\ rx[c] /\ ~dead[c] /\ arrived[c].kind \in {"halt", "err"}
    /\ error' = [error EXCEPT ![c] = @ \/ arrived[c].kind = "err"]
    /\ haltSeen' = [haltSeen EXCEPT ![c] = arrived[c].conn]
    /\ LoopEnds(c, "in", FALSE)
    /\ UNCHANGED <<connVars, status, told, dead, halfVars, appVars, usbVars, envVars, devVars>>

InWaits(c) ==
    /\ task[c]["in"] = "read" /\ rx[c] /\ ~dead[c] /\ arrived[c].kind = "data"
    /\ Len(queue[c]) = QueueLen
    /\ task' = [task EXCEPT ![c]["in"] = "full"]
    /\ UNCHANGED <<connVars, notify, arrived, statVars, halfVars, appVars, haltSeen, usbVars, envVars, devVars>>

\* The transfer is queued and the next one submitted.
MayQueue_Always(c) == TRUE
MayQueue(c) == Len(queue[c]) < QueueLen
InQueues(c) ==
    /\ rx[c] /\ arrived[c].kind = "data" /\ MayQueue(c)
    /\ task[c]["in"] = "full" \/ (task[c]["in"] = "read" /\ ~dead[c])
    /\ queue' = [queue EXCEPT ![c] = Append(@, arrived[c].data)]
    /\ arrived' = [arrived EXCEPT ![c] = NoTransfer]
    /\ task' = [task EXCEPT ![c]["in"] = "read"]
    /\ reads' = Append(reads, [conn |-> c, data |-> {}])
    /\ UNCHANGED <<connVars, notify, statVars, halfVars, tx, rx, haltSeen, claimed, ctrl, reply, envVars, devVars>>

\* Packets are not told apart; those queued before the sender is dropped are
\* sent before the drop is seen.
OutTakes(c) ==
    /\ task[c]["out"] = "take" /\ ~told[c] /\ ~dead[c] /\ tx[c] /\ pc[c] = "done"
    /\ task' = [task EXCEPT ![c]["out"] = "send"]
    /\ UNCHANGED <<connVars, notify, arrived, statVars, halfVars, appVars, haltSeen, usbVars, envVars, devVars>>

OutStops(c) ==
    /\ task[c]["out"] = "take"
    /\ \/ (told[c] \/ dead[c]) /\ LoopEnds(c, "out", FALSE)
       \/ ~told[c] /\ ~dead[c] /\ ~tx[c] /\ LoopEnds(c, "out", TRUE)
    /\ UNCHANGED <<connVars, statVars, halfVars, appVars, haltSeen, usbVars, envVars, devVars>>

\* transfer_out ends with the device taking the data ...
OutSent(c) ==
    /\ task[c]["out"] = "send" /\ ~gone /\ drecv
    /\ task' = [task EXCEPT ![c]["out"] = "take"]
    /\ UNCHANGED <<connVars, notify, arrived, statVars, halfVars, appVars, haltSeen, usbVars, envVars, devVars>>

\* ... or with a stall, or with an error.  Nothing else ends it.
OutFails(c) ==
    /\ task[c]["out"] = "send"
    /\ \/ haltOut /\ ~gone /\ UNCHANGED error
       \/ (gone \/ ~claimed) /\ error' = [error EXCEPT ![c] = TRUE]
    /\ LoopEnds(c, "out", FALSE)
    /\ UNCHANGED <<connVars, status, told, dead, halfVars, appVars, haltSeen, usbVars, envVars, devVars>>

-----------------------------------------------------------------------------
(* HalfCloseHandle                                                         *)

Request(d) == IF d = "in" THEN "CLOSE_RECV" ELSE "CLOSE_SEND"

LockFree_Ignored(c) == TRUE
LockFree(c) == lock[c] = {}

BothShut(dirs) == dirs = Dirs

\* close_if_both sends CLOSE, or the task returns: its channel, its lock and
\* its clone of the guard go.
CloseOrReturn(c, d) ==
    IF BothShut(shut'[c])
    THEN /\ task' = [task EXCEPT ![c][d] = "close"] /\ Call(c, d, "CLOSE", 0)
         /\ lock' = [lock EXCEPT ![c] = @ \union {d}] /\ UNCHANGED guard
    ELSE /\ task' = [task EXCEPT ![c][d] = "ended"] /\ Taken(c, d) /\ UNCHANGED ctrl
         /\ lock' = [lock EXCEPT ![c] = @ \ {d}]
         /\ guard' = [guard EXCEPT ![c] = @ \ {d}]

\* close_send, close_recv
HalfClose(c, d) ==
    /\ task[c][d] = "lock" /\ LockFree(c)
    /\ shut' = [shut EXCEPT ![c] = @ \union {d}]
    /\ notify' = [notify EXCEPT ![c][d] = FALSE]
    /\ IF notify[c][d]
       THEN /\ task' = [task EXCEPT ![c][d] = "half"] /\ Call(c, d, Request(d), 0)
            /\ lock' = [lock EXCEPT ![c] = @ \union {d}] /\ UNCHANGED guard
       ELSE CloseOrReturn(c, d)
    /\ UNCHANGED <<pc, tries, arrived, statVars, appVars, haltSeen, claimed, reads, envVars, devVars>>

\* A request that failed is only logged.
HalfClosed(c, d) ==
    /\ task[c][d] = "half" /\ Answered(c, d)
    /\ UNCHANGED shut /\ CloseOrReturn(c, d)
    /\ UNCHANGED <<pc, tries, notify, arrived, statVars, appVars, haltSeen, claimed, reads, envVars, devVars>>

ReleaseInterface(c, d) ==
    /\ task[c][d] = "close" /\ Answered(c, d)
    /\ task' = [task EXCEPT ![c][d] = "released"]
    /\ Release /\ Taken(c, d)
    /\ UNCHANGED <<connVars, notify, statVars, halfVars, appVars, haltSeen, ctrl, envVars, devVars>>

Returns(c, d) ==
    /\ task[c][d] = "released"
    /\ task' = [task EXCEPT ![c][d] = "ended"]
    /\ lock' = [lock EXCEPT ![c] = @ \ {d}]
    /\ guard' = [guard EXCEPT ![c] = @ \ {d}]
    /\ UNCHANGED <<pc, tries, notify, arrived, statVars, shut, appVars, haltSeen, usbVars, envVars, devVars>>

-----------------------------------------------------------------------------
(* status_task                                                             *)

NobodyWatches_Kept(c) == FALSE
NobodyWatches(c) == \A d \in Dirs : task[c][d] = "ended"

\* Once nobody watches, closed() is ready at once; that the timer fires in the
\* same instant and wins is left out.
PollStatus(c) ==
    /\ status[c] = "poll" /\ ~NobodyWatches(c)
    /\ status' = [status EXCEPT ![c] = "waits"]
    /\ Call(c, "status", "STATUS", 0)
    /\ UNCHANGED <<connVars, taskVars, told, dead, error, halfVars, appVars, haltSeen, claimed, reads, envVars, devVars>>

StoredWithDead_Not(c) == error
StoredWithDead(c) == [error EXCEPT ![c] = TRUE]

StatusAnswered(c) ==
    /\ status[c] = "waits" /\ reply[c]["status"] \in {"ok", "recv_closed"}
    /\ status' = [status EXCEPT ![c] = "poll"]
    /\ told' = [told EXCEPT ![c] = @ \/ reply[c]["status"] = "recv_closed"]
    /\ Taken(c, "status")
    /\ UNCHANGED <<connVars, taskVars, dead, error, halfVars, appVars, haltSeen, claimed, ctrl, reads, envVars, devVars>>

\* The device is dead; dropping the sender of the watch channel tells nobody.
StatusFailed(c) ==
    /\ status[c] = "waits" /\ reply[c]["status"] = "err"
    /\ status' = [status EXCEPT ![c] = "ended"]
    /\ error' = StoredWithDead(c) /\ dead' = [dead EXCEPT ![c] = TRUE]
    /\ guard' = [guard EXCEPT ![c] = @ \ {"status"}]
    /\ Taken(c, "status")
    /\ UNCHANGED <<pc, tries, taskVars, told, halfVars, appVars, haltSeen, claimed, ctrl, reads, envVars, devVars>>

StatusEnds(c) ==
    /\ status[c] \in {"poll", "idle"} /\ NobodyWatches(c)
    /\ status' = [status EXCEPT ![c] = "ended"]
    /\ guard' = [guard EXCEPT ![c] = @ \ {"status"}]
    /\ UNCHANGED <<pc, tries, taskVars, told, dead, error, halfVars, appVars, haltSeen, usbVars, envVars, devVars>>

-----------------------------------------------------------------------------
(* The application                                                         *)

DropSender(c) ==
    /\ pc[c] = "done" /\ tx[c] /\ tx' = [tx EXCEPT ![c] = FALSE]
    /\ UNCHANGED <<connVars, taskVars, statVars, halfVars, rx, queue, haltSeen, usbVars, envVars, devVars>>

DropReceiver(c) ==
    /\ pc[c] = "done" /\ rx[c] /\ rx' = [rx EXCEPT ![c] = FALSE]
    /\ queue' = [queue EXCEPT ![c] = <<>>]
    /\ UNCHANGED <<connVars, taskVars, statVars, halfVars, tx, haltSeen, usbVars, envVars, devVars>>

Recv(c) ==
    /\ pc[c] = "done" /\ rx[c] /\ queue[c] # <<>>
    /\ queue' = [queue EXCEPT ![c] = Tail(@)]
    /\ UNCHANGED <<connVars, taskVars, statVars, halfVars, tx, rx, haltSeen, usbVars, envVars, devVars>>

-----------------------------------------------------------------------------
(* The device's main task: one request at a time, none while it echoes.    *)

Handles(kind) ==
    /\ ctrl # <<>> /\ ~echoing /\ Head(ctrl).kind = kind
    /\ ctrl' = Tail(ctrl)
    /\ UNCHANGED <<connVars, taskVars, statVars, halfVars, appVars, haltSeen, claimed, reads, envVars>>

\* CLOSE: the queues are cancelled and the FIFO discarded as far as the
\* controller does it.
DevClose ==
    /\ Handles("CLOSE") /\ Reply(Head(ctrl), "ok")
    /\ open' = NoConn /\ dsend' = FALSE /\ drecv' = FALSE
    /\ haltIn' = NoConn /\ haltOut' = FALSE
    /\ pipe' \in {pipe, <<>>}
    /\ UNCHANGED echoing

\* OPEN: refused while a connection is open.
DevOpen ==
    /\ Handles("OPEN")
    /\ IF dsend \/ drecv
       THEN Reply(Head(ctrl), "err") /\ UNCHANGED sideVars
       ELSE /\ Reply(Head(ctrl), "ok")
            /\ open' = Head(ctrl).conn /\ dsend' = TRUE /\ drecv' = TRUE
            /\ UNCHANGED echoing
    /\ UNCHANGED epVars

DevCaps == Handles("CAPS") /\ Reply(Head(ctrl), "ok") /\ UNCHANGED devVars

\* ECHO: the marker is sent and its flush awaited in the handler.
DevEcho ==
    /\ Handles("ECHO")
    /\ IF dsend \/ drecv
       THEN Reply(Head(ctrl), "err") /\ UNCHANGED <<echoing, pipe>>
       ELSE /\ Reply(Head(ctrl), "ok") /\ echoing' = TRUE
            /\ pipe' = Append(pipe, Piece(Head(ctrl).conn, Head(ctrl).mark, TRUE))
    /\ UNCHANGED <<open, dsend, drecv, haltIn, haltOut>>

DevEchoFlushed ==
    /\ echoing /\ pipe = <<>> /\ echoing' = FALSE
    /\ UNCHANGED <<connVars, taskVars, statVars, halfVars, appVars, haltSeen, usbVars, envVars, open, dsend, drecv, epVars>>

\* CLOSE_SEND: what the host has sent is received, and in_task ends.
DevCloseSend ==
    /\ Handles("CLOSE_SEND") /\ Reply(Head(ctrl), "ok")
    /\ drecv' = FALSE
    /\ UNCHANGED <<open, dsend, echoing, epVars>>

DevCloseRecv ==
    /\ Handles("CLOSE_RECV") /\ Reply(Head(ctrl), "ok")
    /\ dsend' = FALSE
    /\ pipe' \in IF dsend THEN {pipe, <<>>} ELSE {pipe}
    /\ UNCHANGED <<open, drecv, echoing, haltIn, haltOut>>

DevStatus ==
    /\ Handles("STATUS")
    /\ Reply(Head(ctrl), IF drecv THEN "ok" ELSE "recv_closed")
    /\ UNCHANGED devVars

Serve == DevClose \/ DevOpen \/ DevCaps \/ DevEcho \/ DevCloseSend \/ DevCloseRecv \/ DevStatus

hostSide == <<connVars, taskVars, statVars, halfVars, appVars, haltSeen, usbVars>>

DevSends ==
    /\ dsend /\ ~gone /\ Len(pipe) < MaxPipe
    /\ \E s \in BOOLEAN : pipe' = Append(pipe, Piece(open, 0, s))
    /\ UNCHANGED <<hostSide, envVars, sideVars, haltIn, haltOut>>

\* The device's sender is dropped: IN is halted after everything was read.
DevEndsSend ==
    /\ dsend /\ ~gone /\ pipe = <<>>
    /\ dsend' = FALSE /\ haltIn' = open
    /\ UNCHANGED <<hostSide, envVars, open, drecv, echoing, pipe, haltOut>>

DevEndsRecv ==
    /\ drecv /\ ~gone /\ drecv' = FALSE /\ haltOut' = TRUE
    /\ UNCHANGED <<hostSide, envVars, open, dsend, echoing, pipe, haltIn>>

\* The ping timeout closes the connection and halts nothing.
DevTimesOut ==
    /\ dsend \/ drecv
    /\ ~gone
    /\ dsend' = FALSE /\ drecv' = FALSE /\ pipe' \in {pipe, <<>>}
    /\ UNCHANGED <<hostSide, envVars, open, echoing, haltIn, haltOut>>

-----------------------------------------------------------------------------
(* USB and the page                                                        *)

\* The first transfer_in takes the next piece.  A piece that is not short may
\* fill the buffer.
BusIn ==
    /\ reads # <<>> /\ pipe # <<>> /\ haltIn = NoConn /\ ~gone
    /\ pipe' = Tail(pipe)
    /\ LET data == Head(reads).data \union {Head(pipe).content} IN
       \/ /\ reads' = Tail(reads)
          /\ Arrives(Head(reads).conn, [kind |-> "data", data |-> data, conn |-> NoConn])
       \/ /\ ~Head(pipe).short /\ UNCHANGED arrived
          /\ reads' = [reads EXCEPT ![1].data = data]
    /\ UNCHANGED <<connVars, task, notify, statVars, halfVars, appVars, haltSeen, claimed, ctrl, reply, envVars, sideVars, haltIn, haltOut>>

BusStall ==
    /\ reads # <<>> /\ haltIn # NoConn /\ ~gone
    /\ reads' = Tail(reads)
    /\ Arrives(Head(reads).conn, [kind |-> "halt", data |-> {}, conn |-> haltIn])
    /\ UNCHANGED <<connVars, task, notify, statVars, halfVars, appVars, haltSeen, claimed, ctrl, reply, envVars, devVars>>

\* A control request fails without reaching the device.
RequestFails ==
    /\ ctrl # <<>> /\ Head(ctrl).kind \in FailKinds
    /\ fails < MaxFails /\ fails' = fails + 1
    /\ ctrl' = Tail(ctrl) /\ Reply(Head(ctrl), "err")
    /\ UNCHANGED <<connVars, taskVars, statVars, halfVars, appVars, haltSeen, claimed, reads, gone, devVars>>

\* Everything in flight fails.
Unplug ==
    /\ ~gone /\ gone' = TRUE
    /\ reply' = [c \in Conns |-> [h \in Holders |->
                   IF \E i \in DOMAIN ctrl : ctrl[i].conn = c /\ ctrl[i].by = h
                       /\ ~(h = "connect" /\ pc[c] = "over")
                   THEN "err" ELSE reply[c][h]]]
    /\ ctrl' = <<>> /\ reads' = <<>>
    /\ arrived' = [c \in Conns |-> IF Reading(c) THEN Failure ELSE arrived[c]]
    /\ open' = NoConn /\ dsend' = FALSE /\ drecv' = FALSE /\ echoing' = FALSE
    /\ pipe' = <<>> /\ haltIn' = NoConn /\ haltOut' = FALSE
    /\ UNCHANGED <<connVars, task, notify, statVars, halfVars, appVars, haltSeen, claimed, fails>>

\* The page is closed or reloaded: nothing of it is left but the device's state.
PageKilled ==
    /\ Kills /\ \E c \in Conns : pc[c] \notin {"idle", "over"}
    /\ pc' = [c \in Conns |-> IF pc[c] = "idle" THEN "idle" ELSE "over"]
    /\ guard' = [c \in Conns |-> {}] /\ claimed' = FALSE
    /\ task' = [c \in Conns |-> [d \in Dirs |-> IF pc[c] = "idle" THEN "off" ELSE "ended"]]
    /\ status' = [c \in Conns |-> IF pc[c] = "idle" THEN "off" ELSE "ended"]
    /\ notify' = [c \in Conns |-> [d \in Dirs |-> FALSE]]
    /\ arrived' = [c \in Conns |-> NoTransfer]
    /\ told' = [c \in Conns |-> FALSE] /\ dead' = [c \in Conns |-> FALSE]
    /\ error' = [c \in Conns |-> FALSE]
    /\ shut' = [c \in Conns |-> {}] /\ lock' = [c \in Conns |-> {}]
    /\ tx' = [c \in Conns |-> FALSE] /\ rx' = [c \in Conns |-> FALSE]
    /\ queue' = [c \in Conns |-> <<>>]
    /\ ctrl' = <<>> /\ reads' = <<>>
    /\ reply' = [c \in Conns |-> [h \in Holders |-> "none"]]
    /\ tries' = [c \in Conns |-> 0] /\ haltSeen' = [c \in Conns |-> NoConn]
    /\ UNCHANGED <<envVars, devVars>>

ConnectNext(c) ==
    \/ Refused(c) \/ ClaimInterface(c) \/ QueryCaps(c) \/ StartTasks(c)
    \/ SendEcho(c) \/ EchoSent(c) \/ Discard(c) \/ BarrierTimedOut(c) \/ SendOpen(c)
    \/ Opened(c)

HalfNext(c, d) ==
    HalfClose(c, d) \/ HalfClosed(c, d) \/ ReleaseInterface(c, d) \/ Returns(c, d)

InTask(c) == InStops(c) \/ InFails(c) \/ InWaits(c) \/ InQueues(c) \/ HalfNext(c, "in")

OutTask(c) == OutStops(c) \/ OutSent(c) \/ OutFails(c) \/ HalfNext(c, "out")

StatusNext(c) == PollStatus(c) \/ StatusAnswered(c) \/ StatusFailed(c) \/ StatusEnds(c)

AppNext(c) ==
    \/ TakeGuard(c) \/ GiveUp(c) \/ DropSender(c) \/ DropReceiver(c) \/ Recv(c)
    \/ OutTakes(c)

DeviceNext == Serve \/ DevEchoFlushed \/ DevSends \/ DevEndsSend \/ DevEndsRecv \/ DevTimesOut

BusNext == BusIn \/ BusStall

Next ==
    \/ \E c \in Conns : ConnectNext(c) \/ InTask(c) \/ OutTask(c) \/ StatusNext(c) \/ AppNext(c)
    \/ DeviceNext \/ BusNext
    \/ RequestFails \/ Unplug \/ PageKilled

\* The page's tasks and the browser run; the device serves requests and its
\* application reads what the host sends.  Nobody has to call connect_with, to
\* see it through or to drop a handle.
Fairness ==
    /\ \A c \in Conns :
        /\ WF_vars(InTask(c)) /\ WF_vars(OutTask(c))
        /\ WF_vars(StatusAnswered(c) \/ StatusFailed(c) \/ StatusEnds(c))
    /\ WF_vars(Serve \/ DevEchoFlushed) /\ WF_vars(BusNext)

Spec == Init /\ [][Next]_vars /\ Fairness

-----------------------------------------------------------------------------
(* Properties                                                              *)

Pieces == {Piece(c, k, s) : c \in Conns, k \in 0..EchoRetries, s \in BOOLEAN}

\* Every variable keeps its range; queues their capacity.
TypeOK ==
    /\ pc \in [Conns -> {"idle", "release", "close", "caps", "echo", "marking",
                         "barrier", "drain", "open", "done", "over"}]
    /\ guard \in [Conns -> SUBSET Holders] /\ tries \in [Conns -> 0..EchoRetries]
    /\ task \in [Conns -> [Dirs -> {"off", "read", "full", "take", "send", "lock", "half",
                                    "close", "released", "ended"}]]
    /\ notify \in [Conns -> [Dirs -> BOOLEAN]]
    /\ \A c \in Conns : arrived[c].kind \in {"none", "data", "halt", "err"}
    /\ status \in [Conns -> {"off", "idle", "poll", "waits", "ended"}]
    /\ told \in [Conns -> BOOLEAN] /\ dead \in [Conns -> BOOLEAN] /\ error \in [Conns -> BOOLEAN]
    /\ shut \in [Conns -> SUBSET Dirs] /\ lock \in [Conns -> SUBSET Dirs]
    /\ tx \in [Conns -> BOOLEAN] /\ rx \in [Conns -> BOOLEAN]
    /\ \A c \in Conns : Len(queue[c]) <= QueueLen
    /\ haltSeen \in [Conns -> 0..MaxConns]
    /\ reply \in [Conns -> [Holders -> Replies]]
    /\ \A i \in DOMAIN ctrl : ctrl[i].conn \in Conns /\ ctrl[i].by \in Holders /\ ctrl[i].kind \in Requests
    /\ Len(reads) <= MaxConns + 1 /\ pipe \in Seq(Pieces) /\ Len(pipe) <= MaxPipe + 1
    /\ claimed \in BOOLEAN /\ gone \in BOOLEAN /\ fails \in 0..MaxFails
    /\ open \in 0..MaxConns /\ haltIn \in 0..MaxConns
    /\ {dsend, drecv, echoing, haltOut} \subseteq BOOLEAN

\* With the ECHO barrier, all that recv() is going to return was sent in this
\* connection: no data of an earlier connection or page and no marker gets past it.
FirstDataIsOwn ==
    \A c \in Conns : pc[c] \in {"open", "done"} /\ tries[c] > 0 =>
        \A t \in ToSet(queue[c]) \union {arrived[c].data} : t \subseteq {Content(c, 0)}

\* A request that closes a direction of a connection comes from its own tasks,
\* or from another connect_with after all of them have ended.
NoForeignClose ==
    [][\A c \in Conns :
         open = c /\ ctrl # <<>> /\ ctrl' = Tail(ctrl)
           /\ (open' # c \/ (dsend /\ ~dsend') \/ (drecv /\ ~drecv'))
         => \/ Head(ctrl).conn = c \/ gone'
            \/ Head(ctrl).by = "connect" /\ guard[c] = {}]_vars

\* One task closes the connection, after the other has said all it has to say.
CloseIsLast ==
    \A c \in Conns : \A d, e \in Dirs :
        task[c][d] \in {"close", "released"} /\ e # d => task[c][e] \in {"lock", "ended"}

\* recv() reports a clean end only after the device ended this connection's
\* stream by halting IN.
EndIsReported ==
    \A c \in Conns : pc[c] = "done" /\ rx[c] /\ QueueEnded(c) /\ ~error[c] => haltSeen[c] = c

\* After both handles were dropped the tasks end and the interface can be used
\* by the next connection: a connection that nobody uses does not hold it for
\* ever.  The exception is a transfer_out that the device has stopped taking
\* without halting its endpoint: a ping timeout halts nothing.
HangingTransfer(c) == task[c]["out"] = "send" /\ ~drecv /\ ~haltOut /\ ~gone
DroppedFreesInterface ==
    []<>(\A c \in Conns : pc[c] = "done" /\ ~tx[c] /\ ~rx[c] => guard[c] = {} \/ HangingTransfer(c))

\* PROTOCOL.md:119-120: the host sends CLOSE when a connection is torn down; the
\* device does not keep one open whose tasks on the host have all ended.
TornDownIsClosed ==
    \A c \in Conns : pc[c] = "done" /\ guard[c] = {} => open # c

\* PROTOCOL.md:451-453: the CLOSE that connect_with begins with resets the
\* device, whatever earlier pages have left it in.
CloseServed ==
    \A c \in Conns : (pc[c] = "close" /\ ~Answered(c, "connect"))
                      ~> (pc[c] # "close" \/ Answered(c, "connect"))
===============================================================================
