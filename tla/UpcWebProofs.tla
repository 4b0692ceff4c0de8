----------------------------- MODULE UpcWebProofs -----------------------------
(***************************************************************************)
(* The web host: which requests and which data of a connection reach       *)
(* another one, and in which order a connection ends (TypeOK, CloseIsLast, *)
(* NoForeignClose, EndIsReported and FirstDataIsOwn of UpcWeb), for any    *)
(* number of connections, retries, failures and pieces.                    *)
(*                                                                         *)
(* The guard orders the connections: one of them uses the interface        *)
(* (OneUser), and once the CLOSE that it begins with was answered, all     *)
(* that is in flight, and all that the device holds open, is its own       *)
(* (Cleared).  The barrier orders the data: its marker is the last of what *)
(* is on its way to recv() (MarkerLast), as the device serves nothing else *)
(* until it was read.                                                      *)
(***************************************************************************)
EXTENDS UpcWeb, SequenceTheorems, TLAPS

Contents  == [conn : Conns, mark : 0..EchoRetries]
Transfers == [kind : {"none", "data", "halt", "err"}, data : SUBSET Contents, conn : 0..MaxConns]
Reads     == [conn : Conns, data : SUBSET Contents]
InFlight  == [conn : Conns, by : Holders, kind : Requests, mark : 0..EchoRetries]

-----------------------------------------------------------------------------
(* The invariant: the page                                                 *)

CallTypes ==
    /\ pc \in [Conns -> {"idle", "release", "close", "caps", "echo", "marking",
                         "barrier", "drain", "open", "done", "over"}]
    /\ guard \in [Conns -> SUBSET Holders] /\ tries \in [Conns -> 0..EchoRetries]
    /\ reply \in [Conns -> [Holders -> Replies]]
TaskTypes ==
    /\ task \in [Conns -> [Dirs -> {"off", "read", "full", "take", "send", "lock", "half",
                                    "close", "released", "ended"}]]
    /\ notify \in [Conns -> [Dirs -> BOOLEAN]]
    /\ status \in [Conns -> {"off", "idle", "poll", "waits", "ended"}]
    /\ shut \in [Conns -> SUBSET Dirs] /\ lock \in [Conns -> SUBSET Dirs]
FlagTypes ==
    /\ told \in [Conns -> BOOLEAN] /\ dead \in [Conns -> BOOLEAN] /\ error \in [Conns -> BOOLEAN]
    /\ tx \in [Conns -> BOOLEAN] /\ rx \in [Conns -> BOOLEAN]
    /\ claimed \in BOOLEAN /\ gone \in BOOLEAN /\ fails \in 0..MaxFails

\* connect_with has not started the tasks.
Early(c) == pc[c] \in {"idle", "release", "close", "caps"}

\* The tasks run after StartTasks, and each has its clone of the guard.
Running ==
    \A c \in Conns :
        /\ Early(c) => status[c] = "off" /\ guard[c] \subseteq {"connect"} /\ tries[c] = 0
        /\ Early(c) => \A d \in Dirs : task[c][d] = "off"
        /\ pc[c] \notin {"idle", "done", "over"} => "connect" \in guard[c]
        /\ \A d \in Dirs : task[c][d] \notin {"off", "ended"} => d \in guard[c]
        /\ status[c] \notin {"off", "ended"} => "status" \in guard[c]

\* One connection uses the interface, and it is the newest one.
OneUser ==
    /\ \A b, c \in Conns : guard[b] # {} /\ guard[c] # {} => b = c
    /\ \A b, c \in Conns : b < c => (pc[b] = "idle" => pc[c] = "idle") /\ (guard[b] # {} => pc[c] = "idle")
    /\ \A c \in Conns : pc[c] = "idle" => guard[c] = {}

\* The mutex of the HalfCloseHandle
Waits(c, d) == task[c][d] \in {"half", "close"}
Locking ==
    \A c \in Conns : \A d \in Dirs :
        /\ task[c][d] \in {"half", "close", "released"} => lock[c] = {d}
        /\ d \in shut[c] => task[c][d] \in {"half", "close", "released", "ended"}
LastTask ==
    \A c \in Conns : \A d, e \in Dirs :
        task[c][d] \in {"close", "released"} /\ e # d => task[c][e] = "ended"

PageInv == CallTypes /\ TaskTypes /\ FlagTypes /\ Running /\ OneUser /\ Locking /\ LastTask

-----------------------------------------------------------------------------
(* The invariant: requests in flight                                       *)

\* What connect_with may have asked for, by where it stands
Asked(c, kind, k) ==
    \/ pc[c] = "close" /\ kind = "CLOSE"
    \/ pc[c] = "caps" /\ kind = "CAPS"
    \/ pc[c] = "marking" /\ kind = "ECHO" /\ k = tries[c]
    \/ pc[c] = "open" /\ kind = "OPEN"

\* Somebody waits for the reply to a request, unless it was connect_with and it
\* was dropped.
Expected(r) ==
    \/ r.by \in Dirs /\ Waits(r.conn, r.by) /\ reply[r.conn][r.by] = "none"
         /\ r.kind \in {"CLOSE", "CLOSE_SEND", "CLOSE_RECV"}
    \/ r.by = "status" /\ r.kind = "STATUS" /\ status[r.conn] = "waits" /\ reply[r.conn][r.by] = "none"
    \/ r.by = "connect" /\ pc[r.conn] = "over" /\ r.kind \in {"CLOSE", "CAPS", "ECHO", "OPEN"}
    \/ r.by = "connect" /\ Asked(r.conn, r.kind, r.mark) /\ reply[r.conn][r.by] = "none"

CallersWait == ctrl \in Seq(InFlight) /\ \A i \in DOMAIN ctrl : Expected(ctrl[i])
OneEach ==
    \A i, j \in DOMAIN ctrl : ctrl[i].conn = ctrl[j].conn /\ ctrl[i].by = ctrl[j].by => i = j
Sorted == \A i, j \in DOMAIN ctrl : i <= j => ctrl[i].conn <= ctrl[j].conn

\* A reply waits only for a call that is not over.
Awaiting ==
    \A c \in Conns : pc[c] \notin {"close", "caps", "marking", "open"} => reply[c]["connect"] = "none"

CallsInv == CallersWait /\ OneEach /\ Sorted /\ Awaiting

-----------------------------------------------------------------------------
(* The invariant: the device                                               *)

DeviceTypes ==
    /\ open \in 0..MaxConns /\ haltIn \in 0..MaxConns
    /\ dsend \in BOOLEAN /\ drecv \in BOOLEAN /\ echoing \in BOOLEAN /\ haltOut \in BOOLEAN
Opening ==
    /\ dsend \/ drecv => open # NoConn
    /\ open # NoConn => pc[open] \in {"open", "done", "over"}

\* The CLOSE of connect_with was served: all that is left is of this connection.
Past(c) ==
    /\ guard[c] # {} /\ pc[c] # "release"
    /\ pc[c] = "close" => reply[c]["connect"] = "ok"
Cleared ==
    \A c \in Conns : Past(c) =>
        /\ open \in {NoConn, c} /\ haltIn \in {NoConn, c}
        /\ \A i \in DOMAIN ctrl : ctrl[i].conn = c

DeviceInv == DeviceTypes /\ Opening /\ Cleared

-----------------------------------------------------------------------------
(* The invariant: data                                                     *)

DataTypes ==
    /\ arrived \in [Conns -> Transfers] /\ queue \in [Conns -> Seq(SUBSET Contents)]
    /\ haltSeen \in [Conns -> 0..MaxConns]
    /\ reads \in Seq(Reads) /\ pipe \in Seq(Pieces)
Bounded ==
    /\ \A c \in Conns : Len(queue[c]) <= QueueLen
    /\ Len(pipe) <= MaxPipe + 1 /\ (~echoing => Len(pipe) <= MaxPipe)

\* One transfer_in at a time: none while a result waits for in_task.
OneRead ==
    /\ Len(reads) <= 1
    /\ \A c \in Conns : pc[c] \in {"release", "close", "caps"} \/ arrived[c] # NoTransfer => reads = <<>>
Arriving ==
    \A c \in Conns :
        /\ arrived[c] # NoTransfer => task[c]["in"] \in {"read", "full"}
        /\ arrived[c].kind = "data" => arrived[c].data # {}
        /\ arrived[c].kind # "data" => arrived[c].data = {}
        /\ arrived[c].kind = "halt" => arrived[c].conn = c

\* in_task ends with an error, or with the halt of its own connection, unless
\* nobody receives.
Stopped(c) == task[c]["in"] \in {"lock", "half", "close", "released", "ended"}
Reported ==
    \A c \in Conns : /\ dead[c] => error[c]
                     /\ Stopped(c) /\ rx[c] => error[c] \/ haltSeen[c] = c

\* Markers are short pieces, so none is in a transfer that has not ended.
Marking ==
    /\ \A i \in DOMAIN pipe : pipe[i].content.mark # 0 => pipe[i].short
    /\ \A i \in DOMAIN reads : \A x \in reads[i].data : x.mark = 0

\* A connection has no marker that it has not asked for.
Asking(c, x) == x.conn = c => x.mark <= tries[c]
Rounds ==
    \A c \in Conns :
        /\ pc[c] = "drain" => tries[c] = 0
        /\ pc[c] \in {"marking", "barrier"} => tries[c] # 0
        /\ pc[c] \notin {"done", "over"} =>
             /\ \A i \in DOMAIN queue[c] : \A x \in queue[c][i] : Asking(c, x)
             /\ \A x \in arrived[c].data : Asking(c, x)
             /\ \A i \in DOMAIN pipe : Asking(c, pipe[i].content)

\* The marker of this round
Marker(c) == Content(c, tries[c])

\* Before the device has served its ECHO it is nowhere; later nothing is behind it.
NotYet(c) ==
    /\ \A i \in DOMAIN queue[c] : Marker(c) \notin queue[c][i]
    /\ Marker(c) \notin arrived[c].data
    /\ \A i \in DOMAIN pipe : pipe[i].content # Marker(c)
AllRead == pipe = <<>> /\ \A i \in DOMAIN reads : reads[i].data = {}
Behind(c) ==
    /\ \A i \in DOMAIN queue[c] : Marker(c) \in queue[c][i] =>
         i = Len(queue[c]) /\ arrived[c].kind # "data" /\ AllRead
    /\ Marker(c) \in arrived[c].data => AllRead
    /\ \A i \in DOMAIN pipe : pipe[i].content = Marker(c) => i = Len(pipe)
MarkerLast ==
    \A c \in Conns :
        /\ pc[c] = "marking" /\ reply[c]["connect"] = "none" => NotYet(c)
        /\ pc[c] \in {"marking", "barrier"} => Behind(c)

\* What follows the barrier is data of this connection.
Own(c) == {Content(c, 0)}
PastBarrier ==
    \A c \in Conns : pc[c] \in {"open", "done"} /\ tries[c] # 0 =>
        /\ \A i \in DOMAIN queue[c] : queue[c][i] \subseteq Own(c)
        /\ arrived[c].data \subseteq Own(c)
        /\ task[c]["in"] \in {"read", "full"} =>
             /\ \A i \in DOMAIN pipe : pipe[i].content \in Own(c)
             /\ \A i \in DOMAIN reads : reads[i].data \subseteq Own(c)

DataInv == DataTypes /\ Bounded /\ OneRead /\ Arriving /\ Reported /\ Marking /\ Rounds /\ MarkerLast /\ PastBarrier

WebInv == PageInv /\ CallsInv /\ DeviceInv /\ DataInv

-----------------------------------------------------------------------------
(* Types                                                                   *)

\* The request that the tasks make, and the holders, are what they are.
LEMMA Names ==
  /\ "in" \in Dirs /\ "out" \in Dirs /\ Dirs \subseteq Holders
  /\ "connect" \in Holders /\ "status" \in Holders /\ "connect" \notin Dirs /\ "status" \notin Dirs
  /\ \A d, e \in Dirs : d # e => Dirs = {d, e}
  /\ \A h \in Holders : h \in Dirs \/ h = "connect" \/ h = "status"
  /\ Conns \subseteq Nat \ {0} /\ NoConn \notin Conns /\ Conns \union {NoConn} = 0..MaxConns
  BY WebAssumption DEF Dirs, Holders, Conns, NoConn

\* A request in flight, and its reply, are of some caller.
LEMMA CtrlRange ==
  ASSUME CallersWait, ctrl # <<>>
  PROVE  /\ Head(ctrl) \in InFlight /\ Head(ctrl) = ctrl[1] /\ 1 \in DOMAIN ctrl /\ Tail(ctrl) \in Seq(InFlight)
         /\ \A i \in DOMAIN Tail(ctrl) : i \in Nat \ {0} /\ i + 1 \in DOMAIN ctrl /\ Tail(ctrl)[i] = ctrl[i + 1]
  BY DEF CallersWait

\* One entry of an array of arrays changes.
LEMMA Update ==
  ASSUME NEW I, NEW J, NEW S, NEW f \in [I -> [J -> S]], NEW c \in I, NEW d \in J, NEW s \in S
  PROVE  /\ [f EXCEPT ![c][d] = s] \in [I -> [J -> S]]
         /\ \A b \in I : \A e \in J : [f EXCEPT ![c][d] = s][b][e] = IF b = c /\ e = d THEN s ELSE f[b][e]
  OBVIOUS

\* The replies keep their range.
LEMMA ReplyTypes ==
  ASSUME CallTypes, NEW c \in Conns, NEW h \in Holders
  PROVE  /\ Taken(c, h) => reply' \in [Conns -> [Holders -> Replies]]
         /\ \A kind, k : Call(c, h, kind, k) => reply' \in [Conns -> [Holders -> Replies]]
<1>1. ASSUME NEW s \in Replies PROVE [reply EXCEPT ![c][h] = s] \in [Conns -> [Holders -> Replies]]
  BY Update DEF CallTypes
<1>2. "none" \in Replies /\ "err" \in Replies
  BY DEF Replies
<1>3. Taken(c, h) => reply' \in [Conns -> [Holders -> Replies]]
  BY <1>1, <1>2 DEF Taken
<1>4. ASSUME NEW kind, NEW k, Call(c, h, kind, k) PROVE reply' \in [Conns -> [Holders -> Replies]]
  BY <1>1, <1>2, <1>4 DEF Call
<1> QED BY <1>3, <1>4

\* The calls keep their range.
LEMMA CallTypesKept ==
  ASSUME WebInv, Next
  PROVE  CallTypes'
<1> USE WebAssumption DEF WebInv, PageInv, CallTypes, connVars, usbVars
<1>0. "connect" \in Holders /\ "status" \in Holders /\ "in" \in Holders /\ "out" \in Holders
  BY Names
<1>1. ASSUME NEW c \in Conns, TakeGuard(c) PROVE CallTypes'
  BY <1>0, <1>1 DEF TakeGuard
<1>2. ASSUME NEW c \in Conns, Ends(c) PROVE CallTypes'
  <2>1. reply' \in [Conns -> [Holders -> Replies]]
    BY <1>0, <1>2, ReplyTypes DEF Ends
  <2> QED BY <1>2, <2>1 DEF Ends
<1>3. ASSUME NEW c \in Conns, ClaimInterface(c) PROVE CallTypes'
  BY <1>3 DEF ClaimInterface
<1>4. ASSUME NEW c \in Conns, QueryCaps(c) PROVE CallTypes'
  <2>1. reply' \in [Conns -> [Holders -> Replies]]
    BY <1>0, <1>4, ReplyTypes DEF QueryCaps
  <2> QED BY <1>4, <2>1 DEF QueryCaps
<1>5. ASSUME NEW c \in Conns, StartTasks(c) PROVE CallTypes'
  <2>1. reply' \in [Conns -> [Holders -> Replies]]
    BY <1>0, <1>5, ReplyTypes DEF StartTasks
  <2> QED BY <1>5, <2>1 DEF StartTasks
<1>6. ASSUME NEW c \in Conns, SendEcho(c) PROVE CallTypes'
  <2>1. reply' \in [Conns -> [Holders -> Replies]]
    BY <1>0, <1>6, ReplyTypes DEF SendEcho
  <2>2. tries' \in [Conns -> 0..EchoRetries]
    BY <1>6 DEF SendEcho
  <2> QED BY <1>6, <2>1, <2>2 DEF SendEcho
<1>7. ASSUME NEW c \in Conns, EchoSent(c) \/ SendOpen(c) \/ Opened(c) PROVE CallTypes'
  <2>1. reply' \in [Conns -> [Holders -> Replies]]
    BY <1>0, <1>7, ReplyTypes DEF EchoSent, SendOpen, Opened
  <2> QED BY <1>7, <2>1, ZenonT(60) DEF EchoSent, SendOpen, Opened
<1>8. ASSUME NEW c \in Conns, Discard(c) \/ BarrierTimedOut(c) PROVE CallTypes'
  BY <1>8 DEF Discard, BarrierTimedOut
<1>9. ASSUME NEW c \in Conns,
             InStops(c) \/ InFails(c) \/ InWaits(c) \/ InQueues(c) \/ OutTakes(c) \/ OutStops(c) \/ OutSent(c)
               \/ OutFails(c)
      PROVE  CallTypes'
  BY <1>9 DEF InStops, InFails, InWaits, InQueues, OutTakes, OutStops, OutSent, OutFails
<1>10. ASSUME NEW c \in Conns, NEW d \in Dirs, HalfNext(c, d) PROVE CallTypes'
  <2>0. d \in Holders
    BY Names
  <2>1. reply' \in [Conns -> [Holders -> Replies]]
    BY <1>10, <2>0, ReplyTypes DEF HalfNext, HalfClose, HalfClosed, CloseOrReturn, ReleaseInterface, Returns
  <2>2. UNCHANGED <<pc, tries>>
    BY <1>10 DEF HalfNext, HalfClose, HalfClosed, ReleaseInterface, Returns
  <2>3. guard' = guard \/ guard' = [guard EXCEPT ![c] = @ \ {d}]
    BY <1>10 DEF HalfNext, HalfClose, HalfClosed, CloseOrReturn, ReleaseInterface, Returns
  <2> QED BY <2>1, <2>2, <2>3
<1>11. ASSUME NEW c \in Conns, StatusNext(c) PROVE CallTypes'
  <2>1. reply' \in [Conns -> [Holders -> Replies]]
    BY <1>0, <1>11, ReplyTypes DEF StatusNext, PollStatus, StatusAnswered, StatusFailed, StatusEnds
  <2>2. UNCHANGED <<pc, tries>>
    BY <1>11 DEF StatusNext, PollStatus, StatusAnswered, StatusFailed, StatusEnds
  <2>3. guard' = guard \/ guard' = [guard EXCEPT ![c] = @ \ {"status"}]
    BY <1>11 DEF StatusNext, PollStatus, StatusAnswered, StatusFailed, StatusEnds
  <2> QED BY <2>1, <2>2, <2>3
<1>12. ASSUME NEW c \in Conns, DropSender(c) \/ DropReceiver(c) \/ Recv(c) PROVE CallTypes'
  BY <1>12 DEF DropSender, DropReceiver, Recv
<1>13. CASE Serve \/ RequestFails
  <2>1. ctrl # <<>> /\ UNCHANGED connVars
    BY <1>13 DEF Serve, DevClose, DevOpen, DevCaps, DevEcho, DevCloseSend, DevCloseRecv, DevStatus, Handles,
       RequestFails
  <2>2. PICK res \in Replies : Reply(Head(ctrl), res)
    BY <1>13 DEF Serve, DevClose, DevOpen, DevCaps, DevEcho, DevCloseSend, DevCloseRecv, DevStatus,
       RequestFails, Replies
  <2>3. Head(ctrl).conn \in Conns /\ Head(ctrl).by \in Holders
    BY <2>1, CtrlRange DEF CallsInv, InFlight
  <2>4. reply' \in [Conns -> [Holders -> Replies]]
    BY <2>2, <2>3 DEF Reply
  <2> QED BY <2>1, <2>4
<1>14. CASE DevEchoFlushed \/ DevSends \/ DevEndsSend \/ DevEndsRecv \/ DevTimesOut
  BY <1>14 DEF DevEchoFlushed, DevSends, DevEndsSend, DevEndsRecv, DevTimesOut, hostSide
<1>15. CASE BusNext
  BY <1>15 DEF BusNext, BusIn, BusStall
<1>16. CASE Unplug
  BY <1>16 DEF Unplug, Replies
<1>17. CASE PageKilled
  BY <1>17 DEF PageKilled, Replies
<1> QED
  BY <1>0, <1>1, <1>2, <1>3, <1>4, <1>5, <1>6, <1>7, <1>8, <1>9, <1>10, <1>11, <1>12, <1>13, <1>14, <1>15,
     <1>16, <1>17, Names
  DEF Next, ConnectNext, InTask, OutTask, StatusNext, AppNext, DeviceNext, Refused, GiveUp

\* So do the tasks.
LEMMA TaskTypesKept ==
  ASSUME WebInv, Next
  PROVE  TaskTypes'
<1> USE DEF WebInv, PageInv, TaskTypes, taskVars, statVars, halfVars
<1>0. TaskTypes /\ "in" \in Dirs /\ "out" \in Dirs
  BY Names
<1>m. ASSUME NEW c \in Conns, NEW d \in Dirs,
             NEW s \in {"read", "full", "take", "send", "lock", "half", "close", "released", "ended"},
             task' = [task EXCEPT ![c][d] = s]
      PROVE  task' \in [Conns -> [Dirs -> {"off", "read", "full", "take", "send", "lock", "half",
                                         "close", "released", "ended"}]]
  BY <1>m, Update
<1>n. ASSUME NEW c \in Conns, NEW d \in Dirs, NEW s \in BOOLEAN, notify' = [notify EXCEPT ![c][d] = s]
      PROVE  notify' \in [Conns -> [Dirs -> BOOLEAN]]
  BY <1>n, Update
<1>1. ASSUME NEW c \in Conns, TakeGuard(c) PROVE TaskTypes'
  BY <1>0, <1>1, Names DEF TakeGuard, CallTypes
<1>2. ASSUME NEW c \in Conns, StartTasks(c) PROVE TaskTypes'
  <2>1. task' = [task EXCEPT ![c] = [in |-> "read", out |-> "take"]]
    BY <1>2 DEF StartTasks
  <2>2. status' \in [Conns -> {"off", "idle", "poll", "waits", "ended"}]
    BY <1>2 DEF StartTasks
  <2>3. [in |-> "read", out |-> "take"] \in [Dirs -> {"read", "take"}]
    BY DEF Dirs
  <2> QED BY <1>2, <2>1, <2>2, <2>3 DEF StartTasks
<1>3. ASSUME NEW c \in Conns,
             Ends(c) \/ ClaimInterface(c) \/ QueryCaps(c) \/ SendEcho(c) \/ EchoSent(c) \/ SendOpen(c)
               \/ Opened(c) \/ Discard(c) \/ BarrierTimedOut(c) \/ DropSender(c) \/ DropReceiver(c) \/ Recv(c)
      PROVE  TaskTypes'
  BY <1>3 DEF Ends, ClaimInterface, QueryCaps, SendEcho, EchoSent, SendOpen, Opened, Discard, BarrierTimedOut,
     DropSender, DropReceiver, Recv
<1>4. ASSUME NEW c \in Conns, InStops(c) \/ InFails(c) \/ OutStops(c) \/ OutFails(c)
      PROVE  TaskTypes'
  <2>1. PICK d \in Dirs, i \in BOOLEAN : LoopEnds(c, d, i)
    BY <1>0, <1>4 DEF InStops, InFails, OutStops, OutFails
  <2>2. UNCHANGED <<status, shut, lock>>
    BY <1>4 DEF InStops, InFails, OutStops, OutFails
  <2> QED BY <1>m, <1>n, <2>1, <2>2 DEF LoopEnds
<1>5. ASSUME NEW c \in Conns, InWaits(c) \/ InQueues(c) \/ OutTakes(c) \/ OutSent(c)
      PROVE  TaskTypes'
  <2>1. UNCHANGED <<status, shut, lock, notify>>
    BY <1>5 DEF InWaits, InQueues, OutTakes, OutSent
  <2>2. \/ task' = [task EXCEPT ![c]["in"] = "full"] \/ task' = [task EXCEPT ![c]["in"] = "read"]
        \/ task' = [task EXCEPT ![c]["out"] = "send"] \/ task' = [task EXCEPT ![c]["out"] = "take"]
    BY <1>5 DEF InWaits, InQueues, OutTakes, OutSent
  <2> QED BY <1>0, <1>m, <2>1, <2>2
<1>6. ASSUME NEW c \in Conns, NEW d \in Dirs, HalfNext(c, d) PROVE TaskTypes'
  <2>1. shut' = shut \/ shut' = [shut EXCEPT ![c] = @ \union {d}]
    BY <1>6 DEF HalfNext, HalfClose, HalfClosed, ReleaseInterface, Returns
  <2>2. notify' = notify \/ notify' = [notify EXCEPT ![c][d] = FALSE]
    BY <1>6 DEF HalfNext, HalfClose, HalfClosed, ReleaseInterface, Returns
  <2>3. lock' = lock \/ lock' = [lock EXCEPT ![c] = @ \union {d}] \/ lock' = [lock EXCEPT ![c] = @ \ {d}]
    BY <1>6 DEF HalfNext, HalfClose, HalfClosed, CloseOrReturn, ReleaseInterface, Returns
  <2>4. \E s \in {"half", "close", "released", "ended"} : task' = [task EXCEPT ![c][d] = s]
    BY <1>6 DEF HalfNext, HalfClose, HalfClosed, CloseOrReturn, ReleaseInterface, Returns
  <2>5. status' = status
    BY <1>6 DEF HalfNext, HalfClose, HalfClosed, ReleaseInterface, Returns
  <2>6. shut' \in [Conns -> SUBSET Dirs] /\ lock' \in [Conns -> SUBSET Dirs]
    <3>1. shut' \in [Conns -> SUBSET Dirs]
      BY <2>1
    <3>2. lock' \in [Conns -> SUBSET Dirs]
      <4>1. CASE lock' = [lock EXCEPT ![c] = @ \union {d}]
        BY <4>1
      <4>2. CASE lock' = [lock EXCEPT ![c] = @ \ {d}]
        BY <4>2
      <4> QED BY <2>3, <4>1, <4>2
    <3> QED BY <3>1, <3>2
  <2>7. notify' \in [Conns -> [Dirs -> BOOLEAN]]
    BY <1>n, <2>2
  <2> QED BY <1>m, <2>4, <2>5, <2>6, <2>7
<1>7. ASSUME NEW c \in Conns, StatusNext(c) PROVE TaskTypes'
  <2>1. UNCHANGED <<task, shut, lock, notify>>
    BY <1>7 DEF StatusNext, PollStatus, StatusAnswered, StatusFailed, StatusEnds
  <2>2. \E s \in {"waits", "poll", "ended"} : status' = [status EXCEPT ![c] = s]
    BY <1>7 DEF StatusNext, PollStatus, StatusAnswered, StatusFailed, StatusEnds
  <2> QED BY <2>1, <2>2
<1>8. CASE DeviceNext \/ RequestFails
  BY <1>8 DEF DeviceNext, Serve, DevClose, DevOpen, DevCaps, DevEcho, DevCloseSend, DevCloseRecv, DevStatus,
     Handles, RequestFails, DevEchoFlushed, DevSends, DevEndsSend, DevEndsRecv, DevTimesOut, hostSide
<1>9. CASE BusNext
  BY <1>9 DEF BusNext, BusIn, BusStall
<1>10. CASE Unplug
  BY <1>10 DEF Unplug
<1>11. CASE PageKilled
  BY <1>11 DEF PageKilled
<1> QED
  BY <1>0, <1>1, <1>2, <1>3, <1>4, <1>5, <1>6, <1>7, <1>8, <1>9, <1>10, <1>11
  DEF Next, ConnectNext, InTask, OutTask, AppNext, Refused, GiveUp

\* And the flags.
LEMMA FlagTypesKept ==
  ASSUME WebInv, Next
  PROVE  FlagTypes'
<1> USE WebAssumption DEF WebInv, PageInv, FlagTypes, statVars, appVars, usbVars, envVars
<1>0. FlagTypes
  OBVIOUS
<1>1. ASSUME NEW c \in Conns, TakeGuard(c) PROVE FlagTypes'
  BY <1>0, <1>1 DEF TakeGuard, Release
<1>2. ASSUME NEW c \in Conns, ConnectNext(c) \/ GiveUp(c)
      PROVE  FlagTypes'
  <2>1. UNCHANGED <<told, dead, error, gone, fails>> /\ claimed' \in {claimed, TRUE}
    BY <1>2 DEF ConnectNext, GiveUp, Refused, Ends, ClaimInterface, QueryCaps, StartTasks, SendEcho, EchoSent,
       SendOpen, Opened, Discard, BarrierTimedOut
  <2>2. tx' = tx \/ tx' = [tx EXCEPT ![c] = TRUE] \/ tx' = [tx EXCEPT ![c] = FALSE]
    BY <1>2 DEF ConnectNext, GiveUp, Refused, Ends, ClaimInterface, QueryCaps, StartTasks, SendEcho, EchoSent,
       SendOpen, Opened, Discard, BarrierTimedOut
  <2>3. rx' = rx \/ rx' = [rx EXCEPT ![c] = TRUE] \/ rx' = [rx EXCEPT ![c] = FALSE]
    BY <1>2 DEF ConnectNext, GiveUp, Refused, Ends, ClaimInterface, QueryCaps, StartTasks, SendEcho, EchoSent,
       SendOpen, Opened, Discard, BarrierTimedOut
  <2>4. tx' \in [Conns -> BOOLEAN] /\ rx' \in [Conns -> BOOLEAN]
    BY <2>2, <2>3
  <2> QED BY <2>1, <2>4
<1>3. ASSUME NEW c \in Conns, InTask(c) \/ OutTask(c) \/ OutTakes(c)
      PROVE  FlagTypes'
  <2>1. UNCHANGED <<told, dead, tx, rx, gone, fails>> /\ claimed' \in {claimed, FALSE}
    BY <1>3 DEF InTask, InStops, InFails, InWaits, InQueues, OutTask, OutStops, OutSent, OutFails, OutTakes,
       HalfNext, HalfClose, HalfClosed, ReleaseInterface, Release, Returns
  <2>2. error' \in [Conns -> BOOLEAN]
    BY <1>3 DEF InTask, InStops, InFails, InWaits, InQueues, OutTask, OutStops, OutSent, OutFails, OutTakes,
       HalfNext, HalfClose, HalfClosed, ReleaseInterface, Release, Returns
  <2> QED BY <2>1, <2>2
<1>4. ASSUME NEW c \in Conns, StatusNext(c) PROVE FlagTypes'
  BY <1>4 DEF StatusNext, PollStatus, StatusAnswered, StatusFailed, StatusEnds, StoredWithDead
<1>5. ASSUME NEW c \in Conns, DropSender(c) \/ DropReceiver(c) \/ Recv(c) PROVE FlagTypes'
  BY <1>5 DEF DropSender, DropReceiver, Recv
<1>6. CASE DeviceNext
  BY <1>6 DEF DeviceNext, Serve, DevClose, DevOpen, DevCaps, DevEcho, DevCloseSend, DevCloseRecv, DevStatus,
     Handles, DevEchoFlushed, DevSends, DevEndsSend, DevEndsRecv, DevTimesOut, hostSide
<1>7. CASE BusNext \/ RequestFails
  BY <1>7 DEF BusNext, BusIn, BusStall, RequestFails
<1>8. CASE Unplug
  BY <1>8 DEF Unplug
<1>9. CASE PageKilled
  BY <1>9 DEF PageKilled
<1> QED
  BY <1>1, <1>2, <1>3, <1>4, <1>5, <1>6, <1>7, <1>8, <1>9 DEF Next, AppNext

-----------------------------------------------------------------------------
(* The connections and their tasks                                         *)

CoreInv == Running /\ OneUser /\ Locking /\ LastTask
core    == <<pc, guard, tries, task, status, shut, lock>>

\* A step that changes none of it
LEMMA CoreQuiet ==
  ASSUME CoreInv, UNCHANGED core
  PROVE  CoreInv'
  BY DEF CoreInv, core, Running, Early, OneUser, Locking, LastTask

\* connect_with goes on, or ends.
LEMMA CoreConnect ==
  ASSUME PageInv, NEW c \in Conns, NEW s, s # "idle", pc[c] \notin {"idle", "done", "over"},
         pc' = [pc EXCEPT ![c] = s], UNCHANGED <<task, status, shut, lock>>,
         guard' = guard \/ (s \in {"done", "over"} /\ guard' = [guard EXCEPT ![c] = @ \ {"connect"}]),
         Early(c)' => Early(c) /\ tries'[c] = tries[c],
         \A b \in Conns : b # c => tries'[b] = tries[b]
  PROVE  CoreInv'
<1>1. \A b \in Conns : pc'[b] = IF b = c THEN s ELSE pc[b]
  BY DEF PageInv, CallTypes
<1>2. \A b \in Conns : /\ guard'[b] \subseteq guard[b]
                       /\ \A h : h \in guard[b] /\ h # "connect" => h \in guard'[b]
                       /\ b # c \/ s \notin {"done", "over"} => guard'[b] = guard[b]
  BY DEF PageInv, CallTypes
<1>3. "connect" \notin Dirs
  BY Names
<1>4. Running'
  <2> SUFFICES ASSUME NEW b \in Conns
               PROVE  /\ Early(b)' => status'[b] = "off" /\ guard'[b] \subseteq {"connect"} /\ tries'[b] = 0
                      /\ Early(b)' => \A d \in Dirs : task'[b][d] = "off"
                      /\ pc'[b] \notin {"idle", "done", "over"} => "connect" \in guard'[b]
                      /\ \A d \in Dirs : task'[b][d] \notin {"off", "ended"} => d \in guard'[b]
                      /\ status'[b] \notin {"off", "ended"} => "status" \in guard'[b]
    BY DEF Running
  <2>1. Early(b)' => Early(b) /\ tries'[b] = tries[b]
    BY <1>1 DEF Early
  <2>2. pc'[b] \notin {"idle", "done", "over"} => "connect" \in guard'[b]
    BY <1>1, <1>2 DEF PageInv, Running
  <2> QED
    BY <1>2, <1>3, <2>1, <2>2 DEF PageInv, Running
<1>5. OneUser'
  <2>1. \A b \in Conns : (guard'[b] # {} => guard[b] # {}) /\ (pc'[b] = "idle" <=> pc[b] = "idle")
    BY <1>1, <1>2
  <2> QED BY <2>1 DEF PageInv, OneUser
<1>6. Locking' /\ LastTask'
  BY DEF PageInv, Locking, LastTask
<1> QED
  BY <1>4, <1>5, <1>6 DEF CoreInv

\* connect_with starts the tasks.
LEMMA CoreStart ==
  ASSUME PageInv, NEW c \in Conns, StartTasks(c)
  PROVE  CoreInv'
<1>1. /\ pc[c] = "caps" /\ UNCHANGED <<tries, shut, lock>>
      /\ \A b \in Conns : b # c => /\ pc'[b] = pc[b] /\ guard'[b] = guard[b]
                                   /\ task'[b] = task[b] /\ status'[b] = status[b]
  BY DEF StartTasks, halfVars, PageInv, CallTypes, TaskTypes
<1>2. /\ pc'[c] \in {"echo", "drain"} /\ guard'[c] = Holders /\ status'[c] \in {"poll", "idle"}
      /\ \A d \in Dirs : task'[c][d] \in {"read", "take"}
  BY DEF StartTasks, PageInv, CallTypes, TaskTypes, Dirs
<1>3. "connect" \in guard[c] /\ \A d \in Dirs : task[c][d] = "off" /\ d \notin shut[c]
  BY <1>1 DEF PageInv, Running, Early, Locking
<1>4. Running'
  BY <1>1, <1>2, Names DEF PageInv, Running, Early
<1>5. OneUser'
  <2>1. \A b \in Conns : (guard'[b] # {} => guard[b] # {}) /\ (pc'[b] = "idle" <=> pc[b] = "idle")
    BY <1>1, <1>2, <1>3
  <2> QED BY <2>1 DEF PageInv, OneUser
<1>6. Locking' /\ LastTask'
  BY <1>1, <1>2, <1>3 DEF PageInv, Locking, LastTask
<1> QED
  BY <1>4, <1>5, <1>6 DEF CoreInv

\* connect_with gets the guard: no task of another connection is left.
LEMMA CoreGuard ==
  ASSUME PageInv, NEW c \in Conns, TakeGuard(c)
  PROVE  CoreInv'
<1>1. /\ pc[c] = "idle" /\ \A b \in Conns : guard[b] = {}
      /\ \A b \in Conns : b < c => pc[b] # "idle"
      /\ \A b \in Conns : b \in Nat /\ b > 0 /\ c \in Nat
  BY Names DEF TakeGuard, InUse, Conns
<1>2. \A b \in Conns :
         /\ pc'[b] = IF b = c THEN "release" ELSE IF b < c THEN "over" ELSE pc[b]
         /\ guard'[b] = IF b = c THEN {"connect"} ELSE {}
         /\ tries'[b] = IF b < c THEN 0 ELSE tries[b]
         /\ shut'[b] = IF b < c THEN {} ELSE shut[b]
         /\ status'[b] = IF b < c THEN "ended" ELSE status[b]
         /\ \A d \in Dirs : task'[b][d] = IF b < c THEN "ended" ELSE task[b][d]
  BY <1>1 DEF TakeGuard, PageInv, CallTypes, TaskTypes
<1>3. lock' = lock
  BY DEF TakeGuard
<1>4. \A b \in Conns : b > c => pc[b] = "idle"
  BY <1>1 DEF PageInv, OneUser
<1>5. \A b \in Conns : \A d \in Dirs : task[b][d] \in {"off", "ended"}
  BY <1>1 DEF PageInv, Running
<1>6. Running'
  <2> SUFFICES ASSUME NEW b \in Conns
               PROVE  /\ Early(b)' => status'[b] = "off" /\ guard'[b] \subseteq {"connect"} /\ tries'[b] = 0
                      /\ Early(b)' => \A d \in Dirs : task'[b][d] = "off"
                      /\ pc'[b] \notin {"idle", "done", "over"} => "connect" \in guard'[b]
                      /\ \A d \in Dirs : task'[b][d] \notin {"off", "ended"} => d \in guard'[b]
                      /\ status'[b] \notin {"off", "ended"} => "status" \in guard'[b]
    BY DEF Running
  <2>1. CASE b < c
    BY <1>1, <1>2, <2>1 DEF Early
  <2>2. CASE b = c
    BY <1>1, <1>2, <2>2 DEF PageInv, Running, Early
  <2>3. CASE b > c
    <3>1. pc[b] = "idle"
      BY <1>4, <2>3
    <3> QED BY <1>1, <1>2, <2>3, <3>1 DEF PageInv, Running, Early
  <2> QED BY <1>1, <2>1, <2>2, <2>3
<1>7. OneUser'
  <2>1. \A a, b \in Conns : guard'[a] # {} /\ guard'[b] # {} => a = b
    BY <1>2
  <2>2. \A b \in Conns : pc'[b] = "idle" => guard'[b] = {}
    BY <1>2
  <2>3. \A a, b \in Conns : a < b => (pc'[a] = "idle" => pc'[b] = "idle") /\ (guard'[a] # {} => pc'[b] = "idle")
    BY <1>1, <1>2, <1>4
  <2> QED BY <2>1, <2>2, <2>3 DEF OneUser
<1>8. Locking' /\ LastTask'
  <2>1. \A b \in Conns : \A d \in Dirs : task'[b][d] \in {"off", "ended"}
    BY <1>2, <1>5
  <2>2. \A b \in Conns : \A d \in Dirs : d \in shut'[b] => task'[b][d] = "ended"
    <3> SUFFICES ASSUME NEW b \in Conns, NEW d \in Dirs, d \in shut'[b] PROVE task'[b][d] = "ended"
      OBVIOUS
    <3>1. ~(b < c) /\ d \in shut[b]
      BY <1>2
    <3>2. task[b][d] = "ended"
      BY <1>5, <3>1 DEF PageInv, Locking
    <3> QED BY <1>2, <3>1, <3>2
  <2> QED BY <2>1, <2>2 DEF Locking, LastTask
<1> QED
  BY <1>6, <1>7, <1>8 DEF CoreInv

\* A data task goes on, or its loop ends.
LEMMA CoreTask ==
  ASSUME PageInv, NEW c \in Conns, NEW d \in Dirs, NEW s \in {"read", "full", "take", "send", "lock"},
         task[c][d] \in {"read", "full", "take", "send"}, task' = [task EXCEPT ![c][d] = s],
         UNCHANGED <<pc, guard, tries, status, shut, lock>>
  PROVE  CoreInv'
<1>1. \A b \in Conns : \A e \in Dirs : task'[b][e] = IF b = c /\ e = d THEN s ELSE task[b][e]
  BY Update DEF PageInv, TaskTypes
<1>2. d \in guard[c] /\ ~Early(c) /\ d \notin shut[c]
  BY DEF PageInv, Running, Locking
<1>3. Running'
  BY <1>1, <1>2 DEF PageInv, Running, Early
<1>4. OneUser'
  BY DEF PageInv, OneUser
<1>5. Locking' /\ LastTask'
  BY <1>1, <1>2 DEF PageInv, Locking, LastTask
<1> QED
  BY <1>3, <1>4, <1>5 DEF CoreInv

\* A task goes to s in its HalfCloseHandle, and has the mutex unless it ends.
HalfStep(c, d, s) ==
  /\ task[c][d] \in {"lock", "half", "close", "released"} /\ (task[c][d] = "lock" => lock[c] = {})
  /\ task' = [task EXCEPT ![c][d] = s] /\ pc' = pc /\ tries' = tries /\ status' = status
  /\ \A b \in Conns : lock'[b] = IF b # c THEN lock[b] ELSE IF s = "ended" THEN {} ELSE {d}
  /\ shut' = shut \/ shut' = [shut EXCEPT ![c] = @ \union {d}]
  /\ s = "close" => shut'[c] = Dirs
  /\ s = "released" => task[c][d] = "close"
  /\ guard' = IF s = "ended" THEN [guard EXCEPT ![c] = @ \ {d}] ELSE guard

\* A data task in its HalfCloseHandle: while it has the mutex the other one is
\* outside its requests, and if that one's direction is shut it has ended.
LEMMA CoreHalf ==
  ASSUME PageInv, NEW c \in Conns, NEW d \in Dirs, NEW s \in {"half", "close", "released", "ended"},
         HalfStep(c, d, s)
  PROVE  CoreInv'
<1> USE DEF HalfStep
<1>1. \A b \in Conns : \A e \in Dirs : task'[b][e] = IF b = c /\ e = d THEN s ELSE task[b][e]
  BY Update DEF PageInv, TaskTypes
<1>2. \A b \in Conns : \A e \in Dirs : e \in shut'[b] => e \in shut[b] \/ (b = c /\ e = d)
  BY DEF PageInv, TaskTypes
<1>3. d \in guard[c] /\ ~Early(c)
  BY DEF PageInv, Running
<1>4. \A b \in Conns : /\ guard'[b] \subseteq guard[b]
                       /\ \A h : h \in guard[b] => h \in guard'[b] \/ (b = c /\ h = d /\ s = "ended")
  BY DEF PageInv, CallTypes
<1>5. \A e \in Dirs : e # d => task[c][e] \notin {"half", "close", "released"}
  BY DEF PageInv, Locking
<1>6. Running'
  <2> SUFFICES ASSUME NEW b \in Conns
               PROVE  /\ Early(b)' => status'[b] = "off" /\ guard'[b] \subseteq {"connect"} /\ tries'[b] = 0
                      /\ Early(b)' => \A e \in Dirs : task'[b][e] = "off"
                      /\ pc'[b] \notin {"idle", "done", "over"} => "connect" \in guard'[b]
                      /\ \A e \in Dirs : task'[b][e] \notin {"off", "ended"} => e \in guard'[b]
                      /\ status'[b] \notin {"off", "ended"} => "status" \in guard'[b]
    BY DEF Running
  <2>1. d # "connect" /\ d # "status"
    BY Names
  <2>2. Early(b)' => Early(b) /\ b # c
    BY <1>3 DEF Early
  <2>3. pc'[b] \notin {"idle", "done", "over"} => "connect" \in guard'[b]
    BY <1>4, <2>1 DEF PageInv, Running
  <2>4. status'[b] \notin {"off", "ended"} => "status" \in guard'[b]
    BY <1>4, <2>1 DEF PageInv, Running
  <2>5. \A e \in Dirs : task'[b][e] \notin {"off", "ended"} => e \in guard'[b]
    BY <1>1, <1>3, <1>4 DEF PageInv, Running
  <2>6. Early(b)' => /\ status'[b] = "off" /\ guard'[b] \subseteq {"connect"} /\ tries'[b] = 0
                     /\ \A e \in Dirs : task'[b][e] = "off"
    BY <1>1, <1>4, <2>2 DEF PageInv, Running
  <2> QED BY <2>3, <2>4, <2>5, <2>6
<1>7. OneUser'
  <2>1. \A b \in Conns : guard'[b] # {} => guard[b] # {}
    BY <1>4
  <2>2. \A b \in Conns : guard[b] = {} => guard'[b] = {}
    BY <1>4
  <2> QED BY <2>1, <2>2 DEF PageInv, OneUser
<1>8. Locking'
  <2> SUFFICES ASSUME NEW b \in Conns, NEW e \in Dirs
               PROVE  /\ task'[b][e] \in {"half", "close", "released"} => lock'[b] = {e}
                      /\ e \in shut'[b] => task'[b][e] \in {"half", "close", "released", "ended"}
    BY DEF Locking
  <2>1. CASE b = c /\ e = d
    BY <1>1, <2>1
  <2>2. CASE b = c /\ e # d
    BY <1>1, <1>2, <1>5, <2>2 DEF PageInv, Locking
  <2>3. CASE b # c
    BY <1>1, <1>2, <2>3 DEF PageInv, Locking
  <2> QED BY <2>1, <2>2, <2>3
<1>9. LastTask'
  <2> SUFFICES ASSUME NEW b \in Conns, NEW e \in Dirs, NEW f \in Dirs, f # e,
                      task'[b][e] \in {"close", "released"}
               PROVE  task'[b][f] = "ended"
    BY DEF LastTask
  <2>1. CASE b # c
    BY <1>1, <2>1 DEF PageInv, LastTask
  <2>2. CASE b = c /\ e = d
    <3>1. CASE s = "close"
      <4>1. f \in shut[c]
        BY <1>2, <2>2, <3>1
      <4> QED BY <1>1, <1>5, <2>2, <4>1 DEF PageInv, Locking
    <3>2. CASE s = "released"
      BY <1>1, <2>2, <3>2 DEF PageInv, LastTask
    <3> QED BY <1>1, <2>2, <3>1, <3>2
  <2>3. CASE b = c /\ e # d
    BY <1>1, <1>5, <2>3
  <2> QED BY <2>1, <2>2, <2>3
<1> QED
  BY <1>6, <1>7, <1>8, <1>9 DEF CoreInv

\* status_task goes on, or ends.
LEMMA CoreStatus ==
  ASSUME PageInv, NEW c \in Conns, StatusNext(c)
  PROVE  CoreInv'
<1>1. UNCHANGED <<pc, tries, task, shut, lock>>
  BY DEF StatusNext, PollStatus, StatusAnswered, StatusFailed, StatusEnds, connVars, taskVars, halfVars
<1>2. /\ status[c] \notin {"off", "ended"}
      /\ \E s \in {"waits", "poll", "ended"} : /\ status' = [status EXCEPT ![c] = s]
                                               /\ s # "ended" => guard' = guard
      /\ guard' = guard \/ guard' = [guard EXCEPT ![c] = @ \ {"status"}]
  BY DEF StatusNext, PollStatus, StatusAnswered, StatusFailed, StatusEnds, connVars
<1>3. \A b \in Conns : /\ guard'[b] \subseteq guard[b]
                       /\ \A h : h \in guard[b] /\ h # "status" => h \in guard'[b]
                       /\ b # c => status'[b] = status[b] /\ guard'[b] = guard[b]
  BY <1>2 DEF PageInv, CallTypes, TaskTypes
<1>4. ~Early(c) /\ (status'[c] \notin {"off", "ended"} => guard'[c] = guard[c]) /\ "status" \in guard[c]
  BY <1>2 DEF PageInv, Running, TaskTypes
<1>5. Running'
  BY <1>1, <1>3, <1>4, Names DEF PageInv, Running, Early
<1>6. OneUser'
  <2>1. \A b \in Conns : guard'[b] # {} => guard[b] # {}
    BY <1>3
  <2>2. \A b \in Conns : guard[b] = {} => guard'[b] = {}
    BY <1>3
  <2> QED BY <1>1, <2>1, <2>2 DEF PageInv, OneUser
<1>7. Locking' /\ LastTask'
  BY <1>1 DEF PageInv, Locking, LastTask
<1> QED
  BY <1>5, <1>6, <1>7 DEF CoreInv

\* The page is gone: no connection has a guard, or a task.
LEMMA CoreKilled ==
  ASSUME PageInv, PageKilled
  PROVE  CoreInv'
<1>1. \A b \in Conns :
         /\ pc'[b] = IF pc[b] = "idle" THEN "idle" ELSE "over"
         /\ guard'[b] = {} /\ tries'[b] = 0 /\ shut'[b] = {}
         /\ status'[b] = IF pc[b] = "idle" THEN "off" ELSE "ended"
         /\ \A d \in Dirs : task'[b][d] = IF pc[b] = "idle" THEN "off" ELSE "ended"
  BY DEF PageKilled
<1>2. Running'
  BY <1>1 DEF Running, Early
<1>3. OneUser'
  BY <1>1 DEF PageInv, OneUser
<1>4. Locking' /\ LastTask'
  BY <1>1 DEF Locking, LastTask
<1> QED
  BY <1>2, <1>3, <1>4 DEF CoreInv

\* The steps of the HalfCloseHandle
LEMMA CoreHalves ==
  ASSUME PageInv, NEW c \in Conns, NEW d \in Dirs, HalfNext(c, d)
  PROVE  CoreInv'
<1>0. lock \in [Conns -> SUBSET Dirs]
  BY DEF PageInv, TaskTypes
<1>1. task[c][d] \in {"half", "close", "released"} => lock[c] = {d}
  BY DEF PageInv, Locking
<1>2. ASSUME CloseOrReturn(c, d), task[c][d] \in {"lock", "half"}, task[c][d] = "lock" => lock[c] = {},
             shut' = shut \/ shut' = [shut EXCEPT ![c] = @ \union {d}], UNCHANGED <<pc, tries, status>>
      PROVE  CoreInv'
  <2>1. CASE BothShut(shut'[c])
    <3>1. /\ task' = [task EXCEPT ![c][d] = "close"] /\ lock' = [lock EXCEPT ![c] = @ \union {d}]
          /\ guard' = guard /\ shut'[c] = Dirs
      BY <1>2, <2>1 DEF CloseOrReturn, BothShut
    <3>2. \A b \in Conns : lock'[b] = IF b # c THEN lock[b] ELSE {d}
      BY <1>0, <1>1, <1>2, <3>1
    <3>3. HalfStep(c, d, "close")
      BY <1>2, <3>1, <3>2 DEF HalfStep
    <3> QED BY <3>3, CoreHalf
  <2>2. CASE ~BothShut(shut'[c])
    <3>1. /\ task' = [task EXCEPT ![c][d] = "ended"] /\ lock' = [lock EXCEPT ![c] = @ \ {d}]
          /\ guard' = [guard EXCEPT ![c] = @ \ {d}]
      BY <1>2, <2>2 DEF CloseOrReturn
    <3>2. \A b \in Conns : lock'[b] = IF b # c THEN lock[b] ELSE {}
      BY <1>0, <1>1, <1>2, <3>1
    <3>3. HalfStep(c, d, "ended")
      BY <1>2, <3>1, <3>2 DEF HalfStep
    <3> QED BY <3>3, CoreHalf
  <2> QED BY <2>1, <2>2
<1>3. CASE HalfClose(c, d)
  <2>1. /\ task[c][d] = "lock" /\ lock[c] = {} /\ shut' = [shut EXCEPT ![c] = @ \union {d}]
        /\ UNCHANGED <<pc, tries, status>>
    BY <1>3 DEF HalfClose, LockFree, statVars
  <2>2. CASE notify[c][d]
    <3>1. /\ task' = [task EXCEPT ![c][d] = "half"] /\ lock' = [lock EXCEPT ![c] = @ \union {d}]
          /\ guard' = guard
      BY <1>3, <2>2 DEF HalfClose
    <3>2. \A b \in Conns : lock'[b] = IF b # c THEN lock[b] ELSE {d}
      BY <1>0, <2>1, <3>1
    <3>3. HalfStep(c, d, "half")
      BY <2>1, <3>1, <3>2 DEF HalfStep
    <3> QED BY <3>3, CoreHalf
  <2>3. CASE ~notify[c][d]
    BY <1>2, <1>3, <2>1, <2>3 DEF HalfClose
  <2> QED BY <2>2, <2>3
<1>4. CASE HalfClosed(c, d)
  BY <1>2, <1>4 DEF HalfClosed, statVars
<1>5. CASE ReleaseInterface(c, d)
  <2>1. /\ task[c][d] = "close" /\ task' = [task EXCEPT ![c][d] = "released"]
        /\ UNCHANGED <<pc, guard, tries, status, shut, lock>>
    BY <1>5 DEF ReleaseInterface, connVars, statVars, halfVars
  <2>2. \A b \in Conns : lock'[b] = IF b # c THEN lock[b] ELSE {d}
    BY <1>1, <2>1
  <2>3. HalfStep(c, d, "released")
    BY <2>1, <2>2 DEF HalfStep
  <2> QED BY <2>3, CoreHalf
<1>6. CASE Returns(c, d)
  <2>1. /\ task[c][d] = "released" /\ task' = [task EXCEPT ![c][d] = "ended"]
        /\ lock' = [lock EXCEPT ![c] = @ \ {d}] /\ guard' = [guard EXCEPT ![c] = @ \ {d}]
        /\ UNCHANGED <<pc, tries, status, shut>>
    BY <1>6 DEF Returns, statVars
  <2>2. \A b \in Conns : lock'[b] = IF b # c THEN lock[b] ELSE {}
    BY <1>0, <1>1, <2>1
  <2>3. HalfStep(c, d, "ended")
    BY <2>1, <2>2 DEF HalfStep
  <2> QED BY <2>3, CoreHalf
<1> QED
  BY <1>3, <1>4, <1>5, <1>6 DEF HalfNext

\* The steps of connect_with
LEMMA CoreConnects ==
  ASSUME PageInv, NEW c \in Conns, ConnectNext(c) \/ GiveUp(c)
  PROVE  CoreInv'
<1> USE DEF connVars, taskVars, statVars, halfVars
<1>0. tries \in [Conns -> 0..EchoRetries] /\ pc \in [Conns -> {"idle", "release", "close", "caps", "echo",
         "marking", "barrier", "drain", "open", "done", "over"}]
  BY DEF PageInv, CallTypes
<1>1. CASE GiveUp(c) \/ Refused(c)
  <2>1. Ends(c) /\ pc[c] \notin {"idle", "done", "over"}
    BY <1>1 DEF GiveUp, Refused
  <2>2. ~Early(c)'
    BY <1>0, <2>1 DEF Ends, Early
  <2> QED BY <2>1, <2>2, CoreConnect DEF Ends
<1>2. CASE ClaimInterface(c) \/ QueryCaps(c)
  <2>1. PICK s \in {"close", "caps"} : pc' = [pc EXCEPT ![c] = s]
    BY <1>2 DEF ClaimInterface, QueryCaps
  <2>2. pc[c] \in {"release", "close"} /\ UNCHANGED <<guard, tries, task, status, shut, lock>>
    BY <1>2 DEF ClaimInterface, QueryCaps
  <2>3. Early(c)
    BY <2>2 DEF Early
  <2> QED BY <2>1, <2>2, <2>3, CoreConnect
<1>3. CASE EchoSent(c) \/ BarrierTimedOut(c) \/ SendOpen(c)
  <2>1. PICK s \in {"barrier", "echo", "open"} : pc' = [pc EXCEPT ![c] = s]
    BY <1>3 DEF EchoSent, BarrierTimedOut, SendOpen
  <2>2. pc[c] \in {"marking", "barrier", "drain"} /\ UNCHANGED <<guard, tries, task, status, shut, lock>>
    BY <1>3 DEF EchoSent, BarrierTimedOut, SendOpen, Flushed
  <2>3. ~Early(c)'
    BY <1>0, <2>1 DEF Early
  <2> QED BY <2>1, <2>2, <2>3, CoreConnect
<1>4. CASE SendEcho(c)
  <2>1. /\ pc[c] = "echo" /\ pc' = [pc EXCEPT ![c] = "marking"] /\ tries' = [tries EXCEPT ![c] = @ + 1]
        /\ UNCHANGED <<guard, task, status, shut, lock>>
    BY <1>4 DEF SendEcho
  <2>2. ~Early(c)' /\ \A b \in Conns : b # c => tries'[b] = tries[b]
    BY <1>0, <2>1 DEF Early
  <2> QED BY <2>1, <2>2, CoreConnect
<1>5. CASE Opened(c)
  <2>1. /\ pc[c] = "open" /\ pc' = [pc EXCEPT ![c] = "done"] /\ guard' = [guard EXCEPT ![c] = @ \ {"connect"}]
        /\ UNCHANGED <<tries, task, status, shut, lock>>
    BY <1>5 DEF Opened
  <2>2. ~Early(c)'
    BY <1>0, <2>1 DEF Early
  <2> QED BY <2>1, <2>2, CoreConnect
<1>6. CASE Discard(c)
  BY <1>6, CoreQuiet DEF Discard, core, PageInv, CoreInv
<1> QED
  BY <1>1, <1>2, <1>3, <1>4, <1>5, <1>6, CoreStart DEF ConnectNext

\* The data tasks
LEMMA CoreTasks ==
  ASSUME PageInv, NEW c \in Conns, InTask(c) \/ OutTask(c) \/ OutTakes(c)
  PROVE  CoreInv'
<1> USE DEF connVars, statVars, halfVars
<1>0. "in" \in Dirs /\ "out" \in Dirs
  BY Names
<1>1. CASE InStops(c) \/ InFails(c) \/ OutStops(c) \/ OutFails(c)
  <2>1. PICK d \in Dirs, i \in BOOLEAN :
           LoopEnds(c, d, i) /\ task[c][d] \in {"read", "full", "take", "send"}
    BY <1>0, <1>1 DEF InStops, InFails, OutStops, OutFails
  <2>2. UNCHANGED <<pc, guard, tries, status, shut, lock>>
    BY <1>1 DEF InStops, InFails, OutStops, OutFails
  <2> QED BY <2>1, <2>2, CoreTask DEF LoopEnds
<1>2. CASE InWaits(c)
  BY <1>0, <1>2, CoreTask DEF InWaits
<1>3. CASE InQueues(c)
  BY <1>0, <1>3, CoreTask DEF InQueues
<1>4. CASE OutTakes(c)
  BY <1>0, <1>4, CoreTask DEF OutTakes
<1>5. CASE OutSent(c)
  BY <1>0, <1>5, CoreTask DEF OutSent
<1> QED
  BY <1>0, <1>1, <1>2, <1>3, <1>4, <1>5, CoreHalves DEF InTask, OutTask

\* Every step keeps the order of the connections and of their tasks.
LEMMA PageKept ==
  ASSUME WebInv, Next
  PROVE  PageInv'
<1> SUFFICES CoreInv'
  BY CallTypesKept, TaskTypesKept, FlagTypesKept DEF CoreInv, PageInv
<1>p. PageInv
  BY DEF WebInv
<1>0. UNCHANGED <<pc, guard, tries, task, status, shut, lock>> => CoreInv'
  BY <1>p, CoreQuiet DEF PageInv, CoreInv, core
<1>1. ASSUME NEW c \in Conns, AppNext(c) PROVE CoreInv'
  <2>1. CASE DropSender(c) \/ DropReceiver(c) \/ Recv(c)
    <3>1. UNCHANGED <<pc, guard, tries, task, status, shut, lock>>
      BY <2>1 DEF DropSender, DropReceiver, Recv, connVars, taskVars, statVars, halfVars
    <3> QED BY <1>0, <3>1
  <2> QED BY <1>p, <1>1, <2>1, CoreGuard, CoreConnects, CoreTasks DEF AppNext
<1>2. CASE DeviceNext
  <2>1. UNCHANGED <<pc, guard, tries, task, status, shut, lock>>
    BY <1>2 DEF DeviceNext, Serve, DevClose, DevOpen, DevCaps, DevEcho, DevCloseSend, DevCloseRecv,
       DevStatus, Handles, DevEchoFlushed, DevSends, DevEndsSend, DevEndsRecv, DevTimesOut, hostSide,
       connVars, taskVars, statVars, halfVars
  <2> QED BY <1>0, <2>1
<1>3. CASE BusNext \/ RequestFails \/ Unplug
  <2>1. UNCHANGED <<pc, guard, tries, task, status, shut, lock>>
    BY <1>3 DEF BusNext, BusIn, BusStall, RequestFails, Unplug, connVars, taskVars, statVars, halfVars
  <2> QED BY <1>0, <2>1
<1> QED
  BY <1>p, <1>1, <1>2, <1>3, CoreConnects, CoreTasks, CoreStatus, CoreKilled DEF Next

-----------------------------------------------------------------------------
(* Requests in flight                                                      *)

Silent(c, h) == \A i \in DOMAIN ctrl : ~(ctrl[i].conn = c /\ ctrl[i].by = h)

\* A step that changes what is about the requests of one caller
OnlyAsks(c, h) ==
  /\ \A b \in Conns : b # c \/ h # "connect" => pc'[b] = pc[b] /\ tries'[b] = tries[b]
  /\ \A b \in Conns : \A d \in Dirs : b # c \/ h # d => task'[b][d] = task[b][d]
  /\ \A b \in Conns : b # c \/ h # "status" => status'[b] = status[b]
OnlyTold(c, h) == \A b \in Conns : \A g \in Holders : b # c \/ g # h => reply'[b][g] = reply[b][g]

\* Every other caller goes on waiting.
LEMMA OthersWait ==
  ASSUME NEW c, NEW h, OnlyAsks(c, h), OnlyTold(c, h), NEW r \in InFlight, Expected(r)
  PROVE  Expected(r)' \/ (r.conn = c /\ r.by = h)
<1>1. r.conn \in Conns /\ r.by \in Holders
  BY DEF InFlight
<1>2. r.by \in Dirs => r.by # "connect" /\ r.by # "status"
  BY Names
<1>3. CASE r.by \in Dirs
  BY <1>1, <1>2, <1>3 DEF Expected, Waits, OnlyAsks, OnlyTold
<1>4. CASE r.by = "status"
  BY <1>1, <1>2, <1>4 DEF Expected, OnlyAsks, OnlyTold
<1>5. CASE r.by = "connect"
  BY <1>1, <1>2, <1>5 DEF Expected, Asked, OnlyAsks, OnlyTold
<1> QED
  BY <1>1, <1>3, <1>4, <1>5, Names

\* Who does not wait has nothing in flight.
LEMMA NotExpected ==
  ASSUME CallsInv, NEW c, NEW h, \A r \in InFlight : r.conn = c /\ r.by = h => ~Expected(r)
  PROVE  Silent(c, h)
<1> SUFFICES ASSUME NEW i \in DOMAIN ctrl, ctrl[i].conn = c, ctrl[i].by = h PROVE FALSE
  BY DEF Silent
<1>1. ctrl[i] \in InFlight /\ Expected(ctrl[i])
  BY DEF CallsInv, CallersWait
<1> QED
  BY <1>1

\* So it is with a task outside its requests, or whose reply has come ...
LEMMA SilentTask ==
  ASSUME CallsInv, NEW c \in Conns, NEW d \in Dirs, ~Waits(c, d) \/ reply[c][d] # "none"
  PROVE  Silent(c, d)
  BY NotExpected, Names DEF Expected

\* ... and with the status task ...
LEMMA SilentStatus ==
  ASSUME CallsInv, NEW c \in Conns, status[c] # "waits" \/ reply[c]["status"] # "none"
  PROVE  Silent(c, "status")
  BY NotExpected, Names DEF Expected

\* ... and with a connect_with.
LEMMA SilentConnect ==
  ASSUME CallsInv, NEW c \in Conns, pc[c] # "over",
         pc[c] \notin {"close", "caps", "marking", "open"} \/ reply[c]["connect"] # "none"
  PROVE  Silent(c, "connect")
  BY NotExpected, Names DEF Expected, Asked

\* Nothing is in flight of a connection after the one with the guard.
LEMMA InFlightOld ==
  ASSUME PageInv, CallsInv, NEW c \in Conns, guard[c] # {}, NEW i \in DOMAIN ctrl
  PROVE  ctrl[i].conn <= c
<1>1. ctrl[i] \in InFlight /\ Expected(ctrl[i])
  BY DEF CallsInv, CallersWait
<1> DEFINE b == ctrl[i].conn
<1>2. b \in Conns
  BY <1>1 DEF InFlight
<1>3. pc[b] # "idle"
  BY <1>1, <1>2 DEF Expected, Asked, Waits, PageInv, Running, Early
<1>4. ~(c < b)
  BY <1>2, <1>3 DEF PageInv, OneUser
<1>5. b \in Nat /\ c \in Nat
  BY <1>2, Names
<1> QED
  BY <1>4, <1>5

\* Nothing is sent: the callers of what is in flight go on waiting.
LEMMA CallsStay ==
  ASSUME CallsInv, ctrl' = ctrl, Awaiting',
         \A r \in InFlight : Expected(r) => Expected(r)' \/ Silent(r.conn, r.by)
  PROVE  CallsInv'
<1>1. ASSUME NEW i \in DOMAIN ctrl PROVE Expected(ctrl[i])'
  <2>1. ctrl[i] \in InFlight /\ Expected(ctrl[i])
    BY DEF CallsInv, CallersWait
  <2>2. ~Silent(ctrl[i].conn, ctrl[i].by)
    BY DEF Silent
  <2>3. \A r \in InFlight : r = ctrl[i] => Expected(r)'
    BY <2>1, <2>2
  <2>4. ctrl'[i] = ctrl[i]
    OBVIOUS
  <2> QED BY <2>1, <2>3, <2>4 DEF Expected, Asked, Waits
<1>2. CallersWait'
  BY <1>1 DEF CallsInv, CallersWait
<1> QED
  BY <1>2 DEF CallsInv, OneEach, Sorted

\* A caller of which nothing is in flight makes a request.
LEMMA CallMade ==
  ASSUME PageInv, CallsInv, NEW x \in InFlight, ctrl' = Append(ctrl, x), guard[x.conn] # {},
         Silent(x.conn, x.by), Expected(x)', Awaiting',
         \A r \in InFlight : Expected(r) => Expected(r)' \/ (r.conn = x.conn /\ r.by = x.by)
  PROVE  CallsInv'
<1>1. ctrl \in Seq(InFlight) /\ Len(ctrl) \in Nat /\ DOMAIN ctrl = 1..Len(ctrl)
  BY DEF CallsInv, CallersWait
<1>2. ctrl' \in Seq(InFlight) /\ DOMAIN ctrl' = 1..(Len(ctrl) + 1)
  BY <1>1
<1>3. \A i \in DOMAIN ctrl' : \/ i \in DOMAIN ctrl /\ ctrl'[i] = ctrl[i]
                              \/ i = Len(ctrl) + 1 /\ ctrl'[i] = x
  BY <1>1, <1>2
<1>4. CallersWait'
  <2> SUFFICES ASSUME NEW i \in DOMAIN ctrl', NEW q \in InFlight, q = ctrl'[i] PROVE Expected(q)'
    BY <1>2, SMTT(20) DEF CallersWait, Expected, Asked, Waits
  <2>1. CASE q = x
    BY <2>1 DEF Expected, Asked, Waits
  <2>2. CASE i \in DOMAIN ctrl /\ q = ctrl[i]
    <3>1. Expected(q)
      BY <2>2 DEF CallsInv, CallersWait
    <3>2. ~(q.conn = x.conn /\ q.by = x.by)
      BY <2>2 DEF Silent
    <3> QED BY <3>1, <3>2
  <2> QED BY <1>3, <2>1, <2>2, SMTT(40)
<1>5. OneEach'
  <2> SUFFICES ASSUME NEW i \in DOMAIN ctrl', NEW j \in DOMAIN ctrl',
                      ctrl'[i].conn = ctrl'[j].conn, ctrl'[i].by = ctrl'[j].by
               PROVE  i = j
    BY DEF OneEach
  <2> QED BY <1>3 DEF CallsInv, OneEach, Silent
<1>6. Sorted'
  <2> SUFFICES ASSUME NEW i \in DOMAIN ctrl', NEW j \in DOMAIN ctrl', i <= j
               PROVE  ctrl'[i].conn <= ctrl'[j].conn
    BY DEF Sorted
  <2>1. x.conn \in Conns /\ x.conn \in Nat
    BY Names DEF InFlight
  <2>2. \A k \in DOMAIN ctrl : ctrl[k].conn <= x.conn
    BY <2>1, InFlightOld
  <2>3. CASE ctrl'[j] = x
    BY <1>3, <2>1, <2>2, <2>3
  <2>4. CASE j \in DOMAIN ctrl /\ ctrl'[j] = ctrl[j]
    BY <1>1, <1>3, <2>4 DEF CallsInv, Sorted
  <2> QED BY <1>3, <2>3, <2>4
<1> QED
  BY <1>4, <1>5, <1>6 DEF CallsInv

\* A request is served, or lost: its reply goes to a caller of which nothing else
\* is in flight.
LEMMA CallServed ==
  ASSUME CallTypes, CallsInv, ctrl # <<>>, ctrl' = Tail(ctrl), NEW res \in Replies, Reply(Head(ctrl), res),
         UNCHANGED <<pc, tries, task, status>>
  PROVE  CallsInv'
<1> DEFINE r == Head(ctrl)
<1>1. /\ ctrl' \in Seq(InFlight) /\ r \in InFlight /\ r = ctrl[1] /\ 1 \in DOMAIN ctrl
      /\ \A i \in DOMAIN ctrl' : i \in Nat \ {0} /\ i + 1 \in DOMAIN ctrl /\ ctrl'[i] = ctrl[i + 1]
  BY CtrlRange DEF CallsInv
<1>2. r.conn \in Conns /\ r.by \in Holders /\ Expected(r)
  BY <1>1 DEF InFlight, CallsInv, CallersWait
<1>3. \A c \in Conns : \A h \in Holders : c # r.conn \/ h # r.by => reply'[c][h] = reply[c][h]
  BY <1>2 DEF CallTypes, Reply
<1>4. OnlyAsks(r.conn, r.by) /\ OnlyTold(r.conn, r.by)
  BY <1>3 DEF OnlyAsks, OnlyTold
<1>5. ASSUME NEW i \in DOMAIN ctrl' PROVE ctrl'[i].conn # r.conn \/ ctrl'[i].by # r.by
  BY <1>1 DEF CallsInv, OneEach
<1>6. CallersWait'
  <2> SUFFICES ASSUME NEW i \in DOMAIN ctrl', NEW q \in InFlight, q = ctrl'[i] PROVE Expected(q)'
    BY <1>1 DEF CallersWait, Expected, Asked, Waits
  <2>1. Expected(q)
    BY <1>1 DEF CallsInv, CallersWait
  <2> QED BY <1>4, <1>5, <2>1, OthersWait
<1>7. OneEach'
  <2> SUFFICES ASSUME NEW i \in DOMAIN ctrl', NEW j \in DOMAIN ctrl',
                      ctrl'[i].conn = ctrl'[j].conn, ctrl'[i].by = ctrl'[j].by
               PROVE  i = j
    BY DEF OneEach
  <2>1. i + 1 = j + 1
    BY <1>1 DEF CallsInv, OneEach
  <2> QED BY <1>1, <2>1
<1>8. Sorted'
  <2> SUFFICES ASSUME NEW i \in DOMAIN ctrl', NEW j \in DOMAIN ctrl', i <= j
               PROVE  ctrl'[i].conn <= ctrl'[j].conn
    BY DEF Sorted
  <2>1. i + 1 <= j + 1
    BY <1>1
  <2> QED BY <1>1, <2>1 DEF CallsInv, Sorted
<1>9. Awaiting'
  <2> SUFFICES ASSUME NEW c \in Conns, pc[c] \notin {"close", "caps", "marking", "open"}
               PROVE  reply'[c]["connect"] = "none"
    BY DEF Awaiting
  <2>1. reply[c]["connect"] = "none"
    BY DEF CallsInv, Awaiting
  <2>2. CASE c = r.conn /\ r.by = "connect"
    <3>1. pc[c] = "over"
      BY <1>2, <2>2, Names DEF Expected, Asked
    <3> QED BY <2>1, <2>2, <3>1 DEF Reply
  <2>3. CASE ~(c = r.conn /\ r.by = "connect")
    BY <1>3, <2>1, <2>3, Names
  <2> QED BY <2>2, <2>3
<1> QED
  BY <1>6, <1>7, <1>8, <1>9 DEF CallsInv

\* The reply to a caller is taken, or it makes a request.
LEMMA Replied ==
  ASSUME CallTypes, NEW c \in Conns, NEW h \in Holders
  PROVE  /\ Taken(c, h) => OnlyTold(c, h) /\ reply'[c][h] = "none"
         /\ \A kind, k : Call(c, h, kind, k) =>
              /\ OnlyTold(c, h)
              /\ \/ reply'[c][h] = "none" /\ ctrl' = Append(ctrl, [conn |-> c, by |-> h, kind |-> kind, mark |-> k])
                 \/ ctrl' = ctrl
<1>1. ASSUME NEW s \in Replies, reply' = [reply EXCEPT ![c][h] = s] PROVE OnlyTold(c, h) /\ reply'[c][h] = s
  BY <1>1, Update DEF CallTypes, OnlyTold
<1>2. "none" \in Replies /\ "err" \in Replies
  BY DEF Replies
<1>3. Taken(c, h) => OnlyTold(c, h) /\ reply'[c][h] = "none"
  BY <1>1, <1>2 DEF Taken
<1>4. ASSUME NEW kind, NEW k, Call(c, h, kind, k)
      PROVE  /\ OnlyTold(c, h)
             /\ \/ reply'[c][h] = "none" /\ ctrl' = Append(ctrl, [conn |-> c, by |-> h, kind |-> kind, mark |-> k])
                \/ ctrl' = ctrl
  BY <1>1, <1>2, <1>4 DEF Call
<1> QED BY <1>3, <1>4

\* One caller goes on, of which nothing is in flight.
LEMMA CallerStep ==
  ASSUME PageInv, CallsInv, NEW c \in Conns, NEW h \in Holders, OnlyAsks(c, h), Silent(c, h), Awaiting',
         NEW k \in Requests, NEW m \in 0..EchoRetries,
         \/ ctrl' = ctrl /\ (Taken(c, h) \/ reply' = reply)
         \/ /\ Call(c, h, k, m) /\ guard[c] # {}
            /\ reply'[c][h] = "none" => Expected([conn |-> c, by |-> h, kind |-> k, mark |-> m])'
  PROVE  CallsInv'
<1> DEFINE x == [conn |-> c, by |-> h, kind |-> k, mark |-> m]
<1>1. OnlyTold(c, h)
  BY Replied DEF PageInv, OnlyTold
<1>2. \A r \in InFlight : Expected(r) => Expected(r)' \/ (r.conn = c /\ r.by = h)
  BY <1>1, OthersWait
<1>3. CASE ctrl' = ctrl
  <2>1. \A r \in InFlight : Expected(r) => Expected(r)' \/ Silent(r.conn, r.by)
    BY <1>2
  <2> QED BY <1>3, <2>1, CallsStay
<1>4. CASE ctrl' # ctrl
  <2>1. /\ Call(c, h, k, m) /\ guard[c] # {}
        /\ reply'[c][h] = "none" => Expected(x)'
    BY <1>4
  <2>2. reply'[c][h] = "none" /\ ctrl' = Append(ctrl, x)
    BY <1>4, <2>1, Replied DEF PageInv
  <2>3. x \in InFlight /\ x.conn = c /\ x.by = h
    BY DEF InFlight
  <2>4. Expected(x)'
    BY <2>1, <2>2
  <2> HIDE DEF x
  <2> QED BY <1>2, <2>1, <2>2, <2>3, <2>4, CallMade
<1> QED BY <1>3, <1>4

\* connect_with ends: nobody takes the reply to what it has asked.
LEMMA CallsEnds ==
  ASSUME PageInv, CallsInv, NEW c \in Conns, Ends(c), pc[c] # "idle"
  PROVE  CallsInv'
<1>1. /\ \A b \in Conns : pc'[b] = IF b = c THEN "over" ELSE pc[b]
      /\ UNCHANGED <<tries, task, status, ctrl>> /\ Taken(c, "connect")
  BY DEF Ends, PageInv, CallTypes, taskVars, statVars
<1>2. OnlyTold(c, "connect") /\ reply'[c]["connect"] = "none"
  BY <1>1, Replied, Names DEF PageInv
<1>3. OnlyAsks(c, "connect")
  BY <1>1 DEF OnlyAsks
<1>4. ASSUME NEW r \in InFlight, Expected(r), r.conn = c, r.by = "connect" PROVE Expected(r)'
  BY <1>1, <1>4, Names DEF Expected, Asked
<1>5. Awaiting'
  BY <1>1, <1>2, Names DEF CallsInv, Awaiting, OnlyTold
<1> QED BY <1>1, <1>2, <1>3, <1>4, <1>5, OthersWait, CallsStay

\* connect_with goes on.
LEMMA CallsConnect ==
  ASSUME PageInv, CallsInv, NEW c \in Conns, ConnectNext(c) \/ GiveUp(c)
  PROVE  CallsInv'
<1> USE DEF connVars, taskVars, statVars, halfVars, usbVars
<1>c. /\ "connect" \in Holders /\ "connect" \notin Dirs /\ Requests # {} /\ 0 \in 0..EchoRetries
      /\ "CLOSE" \in Requests /\ "CAPS" \in Requests /\ "ECHO" \in Requests /\ "OPEN" \in Requests
  BY Names, WebAssumption DEF Requests
<1>t. /\ pc \in [Conns -> {"idle", "release", "close", "caps", "echo", "marking", "barrier", "drain", "open",
                         "done", "over"}]
      /\ tries \in [Conns -> 0..EchoRetries] /\ CallTypes
  BY DEF PageInv, CallTypes
<1>g. pc[c] \notin {"idle", "done", "over"} => guard[c] # {}
  BY DEF PageInv, Running
<1>a. ASSUME OnlyAsks(c, "connect"), OnlyTold(c, "connect"),
             reply'[c]["connect"] = "none" \/ pc'[c] \in {"close", "caps", "marking", "open"}
      PROVE  Awaiting'
  BY <1>a, <1>c DEF CallsInv, Awaiting, OnlyAsks, OnlyTold
<1>1. CASE GiveUp(c) \/ Refused(c)
  BY <1>1, CallsEnds DEF GiveUp, Refused
<1>2. CASE ClaimInterface(c)
  <2> DEFINE x == [conn |-> c, by |-> "connect", kind |-> "CLOSE", mark |-> 0]
  <2>1. /\ pc[c] = "release" /\ pc' = [pc EXCEPT ![c] = "close"] /\ UNCHANGED <<guard, tries, task, status, reply>>
        /\ ctrl' = Append(ctrl, x)
    BY <1>2 DEF ClaimInterface
  <2>2. OnlyAsks(c, "connect") /\ OnlyTold(c, "connect") /\ pc'[c] = "close"
    BY <1>t, <2>1 DEF OnlyAsks, OnlyTold
  <2>3. reply[c]["connect"] = "none" /\ Silent(c, "connect")
    BY <2>1, SilentConnect DEF CallsInv, Awaiting
  <2>4. x \in InFlight /\ x.conn = c /\ x.by = "connect"
    BY <1>c DEF InFlight
  <2>5. Expected(x)'
    BY <2>1, <2>2, <2>3 DEF Expected, Asked
  <2>6. \A r \in InFlight : Expected(r) => Expected(r)' \/ (r.conn = c /\ r.by = "connect")
    BY <2>2, OthersWait
  <2>7. Awaiting'
    BY <1>a, <2>2
  <2> HIDE DEF x
  <2> QED BY <1>g, <2>1, <2>3, <2>4, <2>5, <2>6, <2>7, CallMade
<1>3. CASE QueryCaps(c) \/ SendOpen(c) \/ SendEcho(c)
  <2>1. PICK k \in {"CAPS", "OPEN", "ECHO"}, m \in 0..EchoRetries :
          /\ Call(c, "connect", k, m)
          /\ pc' = [pc EXCEPT ![c] = IF k = "CAPS" THEN "caps" ELSE IF k = "OPEN" THEN "open" ELSE "marking"]
          /\ tries' = tries \/ tries' = [tries EXCEPT ![c] = @ + 1]
          /\ k = "ECHO" => m = tries'[c]
    <3>1. tries[c] < EchoRetries => tries[c] + 1 \in 0..EchoRetries
      BY <1>t, WebAssumption
    <3>2. CASE QueryCaps(c)
      BY <1>c, <3>2 DEF QueryCaps
    <3>3. CASE SendOpen(c)
      BY <1>c, <3>3 DEF SendOpen
    <3>4. CASE SendEcho(c)
      <4>1. tries'[c] = tries[c] + 1
        BY <1>t, <3>4 DEF SendEcho
      <4> QED BY <3>1, <3>4, <4>1 DEF SendEcho, MarkerOf
    <3> QED BY <1>3, <3>2, <3>3, <3>4
  <2>2. UNCHANGED <<task, status>>
    BY <1>3 DEF QueryCaps, SendOpen, SendEcho
  <2>3. /\ pc[c] \in {"close", "barrier", "drain", "echo"}
        /\ pc[c] = "close" => reply[c]["connect"] # "none"
    BY <1>3 DEF QueryCaps, SendOpen, SendEcho, Flushed
  <2>4. /\ OnlyAsks(c, "connect")
        /\ pc'[c] = IF k = "CAPS" THEN "caps" ELSE IF k = "OPEN" THEN "open" ELSE "marking"
    BY <1>t, <2>1, <2>2 DEF OnlyAsks
  <2>5. OnlyTold(c, "connect")
    BY <1>c, <1>t, <2>1, Replied
  <2>6. Silent(c, "connect")
    BY <2>3, SilentConnect
  <2>7. k \in Requests
    BY <1>c
  <2>8. reply'[c]["connect"] = "none" => Expected([conn |-> c, by |-> "connect", kind |-> k, mark |-> m])'
    BY <2>1, <2>4 DEF Expected, Asked
  <2>9. Awaiting'
    BY <1>a, <2>4, <2>5
  <2> QED BY <1>c, <1>g, <2>1, <2>3, <2>4, <2>6, <2>7, <2>8, <2>9, CallerStep
<1>4. CASE EchoSent(c) \/ Opened(c)
  <2>1. /\ pc[c] \in {"marking", "open"} /\ reply[c]["connect"] # "none" /\ Taken(c, "connect")
        /\ pc' = [pc EXCEPT ![c] = "barrier"] \/ pc' = [pc EXCEPT ![c] = "done"]
        /\ UNCHANGED <<tries, task, status, ctrl>>
    BY <1>4 DEF EchoSent, Opened
  <2>2. OnlyAsks(c, "connect") /\ OnlyTold(c, "connect") /\ reply'[c]["connect"] = "none"
    BY <1>c, <1>t, <2>1, Replied DEF OnlyAsks
  <2>3. Silent(c, "connect")
    BY <2>1, SilentConnect
  <2> QED BY <1>a, <1>c, <2>1, <2>2, <2>3, CallerStep
<1>5. CASE BarrierTimedOut(c) \/ Discard(c)
  <2>1. /\ pc' = pc \/ (pc[c] = "barrier" /\ pc' = [pc EXCEPT ![c] = "echo"])
        /\ UNCHANGED <<tries, task, status, ctrl, reply>>
        /\ pc[c] \in {"barrier", "drain"}
    BY <1>5 DEF BarrierTimedOut, Discard
  <2>2. OnlyAsks(c, "connect") /\ OnlyTold(c, "connect")
    BY <1>t, <2>1 DEF OnlyAsks, OnlyTold
  <2>3. Silent(c, "connect") /\ reply[c]["connect"] = "none"
    BY <2>1, SilentConnect DEF CallsInv, Awaiting
  <2> QED BY <1>a, <1>c, <2>1, <2>2, <2>3, CallerStep
<1>6. CASE StartTasks(c)
  <2>1. /\ pc[c] = "caps" /\ reply[c]["connect"] # "none" /\ Taken(c, "connect") /\ UNCHANGED <<tries, ctrl>>
        /\ \A b \in Conns : b # c => pc'[b] = pc[b] /\ task'[b] = task[b] /\ status'[b] = status[b]
    BY <1>6 DEF StartTasks, Answered, PageInv, CallTypes, TaskTypes
  <2>2. OnlyTold(c, "connect") /\ reply'[c]["connect"] = "none"
    BY <1>c, <1>t, <2>1, Replied
  <2>3. ASSUME NEW r \in InFlight, Expected(r) PROVE r.conn # c
    <3>1. Early(c) /\ pc[c] # "over"
      BY <2>1 DEF Early
    <3> QED BY <2>1, <2>3, <3>1 DEF Expected, Asked, Waits, PageInv, Running
  <2>4. ASSUME NEW r \in InFlight, Expected(r) PROVE Expected(r)'
    <3>1. r.conn # c /\ r.conn \in Conns /\ r.by \in Holders
      BY <2>3, <2>4 DEF InFlight
    <3> QED BY <2>1, <2>2, <2>4, <3>1 DEF Expected, Asked, Waits, OnlyTold
  <2>5. Awaiting'
    BY <1>c, <2>1, <2>2 DEF CallsInv, Awaiting, OnlyTold
  <2> QED BY <2>1, <2>4, <2>5, CallsStay
<1> QED
  BY <1>1, <1>2, <1>3, <1>4, <1>5, <1>6 DEF ConnectNext

\* The data tasks make their requests in the HalfCloseHandle.
LEMMA CallsTasks ==
  ASSUME PageInv, CallsInv, NEW c \in Conns, InTask(c) \/ OutTask(c) \/ OutTakes(c)
  PROVE  CallsInv'
<1> USE DEF connVars, statVars, usbVars
<1>0. "in" \in Dirs /\ "out" \in Dirs /\ 0 \in 0..EchoRetries
  BY Names, WebAssumption
<1>t. CallTypes /\ TaskTypes
  BY DEF PageInv
<1>1. ASSUME NEW d \in Dirs, NEW s \in {"read", "full", "take", "send", "lock"},
             task[c][d] \in {"read", "full", "take", "send"}, task' = [task EXCEPT ![c][d] = s],
             UNCHANGED <<pc, tries, status, ctrl, reply>>
      PROVE  CallsInv'
  <2>1. \A b \in Conns : \A e \in Dirs : task'[b][e] = IF b = c /\ e = d THEN s ELSE task[b][e]
    BY <1>1, <1>t, Update DEF TaskTypes
  <2>2. \A b \in Conns : \A e \in Dirs : Waits(b, e) => Waits(b, e)'
    BY <1>1, <2>1 DEF Waits
  <2>3. \A r \in InFlight : Expected(r) => Expected(r)'
    BY <1>1, <2>2 DEF Expected, Asked, InFlight
  <2>4. Awaiting'
    BY <1>1 DEF CallsInv, Awaiting
  <2> QED BY <1>1, <2>3, <2>4, CallsStay
<1>2. CASE InStops(c) \/ InFails(c) \/ OutStops(c) \/ OutFails(c)
  <2>1. PICK d \in Dirs, i \in BOOLEAN :
           LoopEnds(c, d, i) /\ task[c][d] \in {"read", "full", "take", "send"}
    BY <1>0, <1>2 DEF InStops, InFails, OutStops, OutFails
  <2>2. UNCHANGED <<pc, tries, status, ctrl, reply>>
    BY <1>2 DEF InStops, InFails, OutStops, OutFails
  <2> QED BY <1>1, <2>1, <2>2 DEF LoopEnds
<1>3. CASE InWaits(c)
  BY <1>0, <1>1, <1>3 DEF InWaits
<1>4. CASE InQueues(c)
  BY <1>0, <1>1, <1>4 DEF InQueues
<1>5. CASE OutTakes(c)
  BY <1>0, <1>1, <1>5 DEF OutTakes
<1>6. CASE OutSent(c)
  BY <1>0, <1>1, <1>6 DEF OutSent
<1>7. ASSUME NEW d \in Dirs, HalfNext(c, d) PROVE CallsInv'
  <2>1. /\ task[c][d] \in {"lock", "half", "close", "released"} /\ UNCHANGED <<pc, tries, status>>
        /\ task[c][d] \in {"half", "close"} => reply[c][d] # "none"
    BY <1>7 DEF HalfNext, HalfClose, HalfClosed, ReleaseInterface, Returns, Answered
  <2>2. d \in Holders /\ d # "connect" /\ d # "status" /\ d \in guard[c]
    BY <2>1, Names DEF PageInv, Running
  <2>3. Silent(c, d)
    BY <2>1, SilentTask DEF Waits
  <2>4. /\ \E s \in {"half", "close", "released", "ended"} : task' = [task EXCEPT ![c][d] = s]
        /\ \/ ctrl' = ctrl /\ (Taken(c, d) \/ reply' = reply)
           \/ Call(c, d, Request(d), 0) /\ task' = [task EXCEPT ![c][d] = "half"]
           \/ Call(c, d, "CLOSE", 0) /\ task' = [task EXCEPT ![c][d] = "close"]
    BY <1>7 DEF HalfNext, HalfClose, HalfClosed, CloseOrReturn, ReleaseInterface, Returns
  <2>5. OnlyAsks(c, d)
    BY <1>t, <2>1, <2>4, Update DEF TaskTypes, OnlyAsks
  <2>6. OnlyTold(c, d)
    <3>1. reply' = reply \/ Taken(c, d) \/ Call(c, d, Request(d), 0) \/ Call(c, d, "CLOSE", 0)
      BY <2>4
    <3>2. reply' = reply => OnlyTold(c, d)
      BY DEF OnlyTold
    <3> QED BY <1>t, <2>2, <3>1, <3>2, Replied
  <2>7. Awaiting'
    BY <2>1, <2>2, <2>6, Names DEF CallsInv, Awaiting, OnlyTold
  <2>8. CASE ctrl' = ctrl /\ (Taken(c, d) \/ reply' = reply)
    BY <1>0, <2>2, <2>3, <2>5, <2>7, <2>8, CallerStep DEF Requests
  <2>9. ASSUME NEW k \in {"CLOSE", Request(d)}, NEW s \in {"half", "close"},
               Call(c, d, k, 0), task' = [task EXCEPT ![c][d] = s]
        PROVE  CallsInv'
    <3>1. task'[c][d] = s
      BY <1>t, <2>9, Update DEF TaskTypes
    <3>2. k \in Requests /\ k \in {"CLOSE", "CLOSE_SEND", "CLOSE_RECV"}
      BY DEF Request, Requests
    <3>3. reply'[c][d] = "none" => Expected([conn |-> c, by |-> d, kind |-> k, mark |-> 0])'
      BY <3>1, <3>2 DEF Expected, Waits
    <3> QED BY <1>0, <2>2, <2>3, <2>5, <2>7, <2>9, <3>2, <3>3, CallerStep
  <2> QED BY <2>4, <2>8, <2>9
<1> QED
  BY <1>0, <1>2, <1>3, <1>4, <1>5, <1>6, <1>7 DEF InTask, OutTask

\* The status task makes one request at a time.
LEMMA CallsStatus ==
  ASSUME PageInv, CallsInv, NEW c \in Conns, StatusNext(c)
  PROVE  CallsInv'
<1> USE DEF connVars, taskVars, usbVars
<1>t. CallTypes /\ TaskTypes /\ "status" \in Holders /\ "status" # "connect" /\ 0 \in 0..EchoRetries
  BY Names, WebAssumption DEF PageInv
<1>1. /\ status[c] \notin {"off", "ended"} /\ UNCHANGED <<pc, tries, task>>
      /\ status[c] = "waits" => reply[c]["status"] # "none"
  BY DEF StatusNext, PollStatus, StatusAnswered, StatusFailed, StatusEnds
<1>2. Silent(c, "status") /\ guard[c] # {}
  BY <1>1, SilentStatus DEF PageInv, Running
<1>3. /\ \E s \in {"waits", "poll", "ended"} : status' = [status EXCEPT ![c] = s]
      /\ \/ ctrl' = ctrl /\ (Taken(c, "status") \/ reply' = reply)
         \/ Call(c, "status", "STATUS", 0) /\ status' = [status EXCEPT ![c] = "waits"]
  BY DEF StatusNext, PollStatus, StatusAnswered, StatusFailed, StatusEnds
<1>4. OnlyAsks(c, "status")
  BY <1>t, <1>1, <1>3 DEF TaskTypes, OnlyAsks
<1>5. OnlyTold(c, "status")
  BY <1>t, <1>3, Replied, ZenonT(60) DEF OnlyTold
<1>6. Awaiting'
  BY <1>1, <1>5, Names DEF CallsInv, Awaiting, OnlyTold
<1>7. CASE Call(c, "status", "STATUS", 0) /\ status' = [status EXCEPT ![c] = "waits"]
  <2>1. status'[c] = "waits"
    BY <1>t, <1>7 DEF TaskTypes
  <2>2. reply'[c]["status"] = "none" => Expected([conn |-> c, by |-> "status", kind |-> "STATUS", mark |-> 0])'
    BY <2>1 DEF Expected
  <2> QED BY <1>t, <1>2, <1>4, <1>6, <1>7, <2>2, CallerStep DEF Requests
<1>8. CASE ctrl' = ctrl /\ (Taken(c, "status") \/ reply' = reply)
  BY <1>t, <1>2, <1>4, <1>6, <1>8, CallerStep DEF Requests
<1> QED
  BY <1>3, <1>7, <1>8

\* When connect_with gets the guard, only calls that are over have left requests.
LEMMA CallsGuard ==
  ASSUME PageInv, CallsInv, NEW c \in Conns, TakeGuard(c)
  PROVE  CallsInv'
<1>1. /\ pc[c] = "idle" /\ \A b \in Conns : guard[b] = {}
      /\ \A b \in Conns : b \in Nat /\ b > 0 /\ c \in Nat
  BY Names DEF TakeGuard, InUse, Conns
<1>2. \A b \in Conns : pc'[b] = IF b = c THEN "release" ELSE IF b < c THEN "over" ELSE pc[b]
  BY <1>1 DEF TakeGuard, PageInv, CallTypes
<1>3. ctrl' = ctrl /\ reply' = reply
  BY DEF TakeGuard
<1>4. ASSUME NEW r \in InFlight, Expected(r) PROVE Expected(r)'
  <2>1. r.conn \in Conns /\ r.by \in Holders
    BY DEF InFlight
  <2>2. \A d \in Dirs : task[r.conn][d] \in {"off", "ended"}
    BY <1>1, <2>1 DEF PageInv, Running
  <2>3. status[r.conn] \in {"off", "ended"} /\ pc[r.conn] \in {"idle", "done", "over"}
    BY <1>1, <2>1 DEF PageInv, Running
  <2>4. r.by = "connect" /\ pc[r.conn] = "over"
    BY <1>4, <2>2, <2>3 DEF Expected, Asked, Waits
  <2>5. pc'[r.conn] = "over"
    BY <1>1, <1>2, <2>1, <2>4
  <2> QED BY <1>4, <2>4, <2>5, Names DEF Expected, Asked
<1>5. Awaiting'
  BY <1>1, <1>2, <1>3, Names DEF CallsInv, Awaiting, PageInv, Running
<1> QED
  BY <1>3, <1>4, <1>5, CallsStay

\* Nothing is in flight any more.
LEMMA CallsCut ==
  ASSUME PageInv, CallsInv, PageKilled \/ Unplug
  PROVE  CallsInv'
<1>1. ctrl' = <<>>
  BY DEF PageKilled, Unplug
<1>2. Awaiting'
  <2>1. CASE PageKilled
    BY <2>1, Names DEF PageKilled, Awaiting
  <2>2. CASE Unplug
    <3> SUFFICES ASSUME NEW c \in Conns, pc[c] \notin {"close", "caps", "marking", "open"}
                 PROVE  reply'[c]["connect"] = "none"
      BY <2>2 DEF Unplug, Awaiting, connVars
    <3>1. reply[c]["connect"] = "none"
      BY DEF CallsInv, Awaiting
    <3>2. CASE pc[c] = "over"
      BY <2>2, <3>1, <3>2, Names DEF Unplug
    <3>3. CASE pc[c] # "over"
      <4>1. Silent(c, "connect")
        BY <3>3, SilentConnect
      <4> QED BY <2>2, <3>1, <4>1, Names DEF Unplug, Silent
    <3> QED BY <3>2, <3>3
  <2> QED BY <2>1, <2>2
<1> QED
  BY <1>1, <1>2 DEF CallsInv, CallersWait, OneEach, Sorted

\* Every step keeps what is known of the requests in flight.
LEMMA CallsKept ==
  ASSUME WebInv, Next
  PROVE  CallsInv'
<1>p. PageInv /\ CallsInv /\ CallTypes
  BY DEF WebInv, PageInv
<1>0. ASSUME UNCHANGED <<pc, tries, task, status, ctrl, reply>> PROVE CallsInv'
  BY <1>p, <1>0 DEF CallsInv, CallersWait, Expected, Asked, Waits, OneEach, Sorted, Awaiting
<1>1. ASSUME NEW c \in Conns, AppNext(c) PROVE CallsInv'
  <2>1. CASE DropSender(c) \/ DropReceiver(c) \/ Recv(c)
    <3>1. UNCHANGED <<pc, tries, task, status, ctrl, reply>>
      BY <2>1 DEF DropSender, DropReceiver, Recv, connVars, taskVars, statVars, usbVars
    <3> QED BY <1>0, <3>1
  <2> QED BY <1>p, <1>1, <2>1, CallsGuard, CallsConnect, CallsTasks DEF AppNext
<1>2. ASSUME Serve \/ RequestFails PROVE CallsInv'
  <2>1. /\ ctrl # <<>> /\ ctrl' = Tail(ctrl) /\ UNCHANGED <<pc, tries, task, status>>
    BY <1>2 DEF Serve, DevClose, DevOpen, DevCaps, DevEcho, DevCloseSend, DevCloseRecv, DevStatus, Handles,
       RequestFails, connVars, taskVars, statVars
  <2>2. PICK res \in Replies : Reply(Head(ctrl), res)
    BY <1>2 DEF Serve, DevClose, DevOpen, DevCaps, DevEcho, DevCloseSend, DevCloseRecv, DevStatus,
       RequestFails, Replies
  <2> QED BY <1>p, <2>1, <2>2, CallServed
<1>3. ASSUME DevEchoFlushed \/ DevSends \/ DevEndsSend \/ DevEndsRecv \/ DevTimesOut \/ BusNext PROVE CallsInv'
  <2>1. UNCHANGED <<pc, tries, task, status, ctrl, reply>>
    BY <1>3 DEF DevEchoFlushed, DevSends, DevEndsSend, DevEndsRecv, DevTimesOut, BusNext, BusIn, BusStall,
       hostSide, connVars, taskVars, statVars, usbVars
  <2> QED BY <1>0, <2>1
<1> QED
  BY <1>p, <1>1, <1>2, <1>3, CallsConnect, CallsTasks, CallsStatus, CallsCut DEF Next, DeviceNext

-----------------------------------------------------------------------------
(* The device                                                              *)

\* What a page does changes nothing on the device's side, except that
\* claiming the interface clears the halts.
LEMMA PageSteps ==
  ASSUME NEW c \in Conns, ConnectNext(c) \/ InTask(c) \/ OutTask(c) \/ StatusNext(c) \/ AppNext(c)
  PROVE  /\ UNCHANGED <<open, dsend, drecv, echoing, pipe>>
         /\ UNCHANGED <<haltIn, haltOut>> \/ (haltIn' = NoConn /\ haltOut' = FALSE)
<1> USE DEF devVars, sideVars, epVars
<1>1. CASE ConnectNext(c) \/ GiveUp(c)
  BY <1>1, SMTT(40) DEF ConnectNext, Refused, GiveUp, Ends, ClaimInterface, QueryCaps, StartTasks, SendEcho, EchoSent, Discard,
     BarrierTimedOut, SendOpen, Opened
<1>2. CASE InTask(c) \/ OutTask(c)
  BY <1>2 DEF InTask, OutTask, InStops, InFails, InWaits, InQueues, OutStops, OutSent, OutFails, HalfNext,
     HalfClose, HalfClosed, ReleaseInterface, Returns
<1>3. CASE StatusNext(c)
  BY <1>3 DEF StatusNext, PollStatus, StatusAnswered, StatusFailed, StatusEnds
<1>4. CASE TakeGuard(c) \/ DropSender(c) \/ DropReceiver(c) \/ Recv(c) \/ OutTakes(c)
  BY <1>4 DEF TakeGuard, DropSender, DropReceiver, Recv, OutTakes
<1> QED
  BY <1>1, <1>2, <1>3, <1>4 DEF AppNext

\* How a step changes the connection that the device holds open
LEMMA DeviceMoves ==
  ASSUME WebInv, Next
  PROVE  /\ \/ open' = open /\ (dsend' => dsend) /\ (drecv' => drecv)
            \/ open' = NoConn /\ dsend' = FALSE /\ drecv' = FALSE
            \/ ctrl # <<>> /\ Head(ctrl).kind = "OPEN" /\ open' = Head(ctrl).conn /\ ~dsend /\ ~drecv
         /\ haltIn' \in {haltIn, NoConn} \/ (dsend /\ haltIn' = open)
         /\ dsend' \in BOOLEAN /\ drecv' \in BOOLEAN /\ echoing' \in BOOLEAN /\ haltOut' \in BOOLEAN
<1> USE DEF sideVars, epVars, devVars
<1>0. dsend \in BOOLEAN /\ drecv \in BOOLEAN /\ echoing \in BOOLEAN /\ haltOut \in BOOLEAN
  BY DEF WebInv, DeviceInv, DeviceTypes
<1>a. ASSUME open' = open, dsend' = dsend \/ dsend' = FALSE, drecv' = drecv \/ drecv' = FALSE,
             haltIn' \in {haltIn, NoConn} \/ (dsend /\ haltIn' = open),
             echoing' \in {echoing, TRUE, FALSE}, haltOut' \in {haltOut, TRUE, FALSE}
      PROVE  /\ open' = open /\ (dsend' => dsend) /\ (drecv' => drecv)
             /\ haltIn' \in {haltIn, NoConn} \/ (dsend /\ haltIn' = open)
             /\ dsend' \in BOOLEAN /\ drecv' \in BOOLEAN /\ echoing' \in BOOLEAN /\ haltOut' \in BOOLEAN
  <2>1. (dsend' => dsend) /\ dsend' \in BOOLEAN
    <3>1. CASE dsend' = FALSE
      BY <3>1
    <3>2. CASE dsend' = dsend
      BY <1>0, <3>2
    <3> QED BY <1>a, <3>1, <3>2
  <2>2. (drecv' => drecv) /\ drecv' \in BOOLEAN
    <3>1. CASE drecv' = FALSE
      BY <3>1
    <3>2. CASE drecv' = drecv
      BY <1>0, <3>2
    <3> QED BY <1>a, <3>1, <3>2
  <2>3. echoing' \in BOOLEAN /\ haltOut' \in BOOLEAN
    BY <1>0, <1>a
  <2> QED BY <1>a, <2>1, <2>2, <2>3
<1>1. CASE \E c \in Conns : ConnectNext(c) \/ InTask(c) \/ OutTask(c) \/ StatusNext(c) \/ AppNext(c)
  BY <1>0, <1>1, PageSteps
<1>2. CASE Serve
  <2>1. ctrl # <<>>
    BY <1>2 DEF Serve, DevClose, DevOpen, DevCaps, DevEcho, DevCloseSend, DevCloseRecv, DevStatus, Handles
  <2>2. CASE DevOpen
    BY <1>0, <2>1, <2>2 DEF DevOpen, Handles
  <2>3. CASE DevClose
    BY <1>0, <2>3 DEF DevClose
  <2>4. CASE DevCaps \/ DevStatus \/ DevEcho
    <3>1. /\ open' = open /\ (dsend' = dsend \/ dsend' = FALSE) /\ (drecv' = drecv \/ drecv' = FALSE) /\ haltIn' = haltIn
          /\ echoing' \in {echoing, TRUE} /\ haltOut' = haltOut
      BY <2>4 DEF DevCaps, DevStatus, DevEcho
    <3> QED BY <1>a, <3>1
  <2>5. CASE DevCloseSend \/ DevCloseRecv
    <3>1. /\ open' = open /\ (dsend' = dsend \/ dsend' = FALSE) /\ (drecv' = drecv \/ drecv' = FALSE) /\ haltIn' = haltIn
          /\ echoing' \in {echoing, TRUE} /\ haltOut' = haltOut
      BY <2>5 DEF DevCloseSend, DevCloseRecv
    <3> QED BY <1>a, <3>1
  <2> QED BY <1>2, <2>2, <2>3, <2>4, <2>5 DEF Serve
<1>3. CASE DevEchoFlushed \/ DevSends \/ DevEndsRecv \/ DevTimesOut
  <2>1. /\ open' = open /\ (dsend' = dsend \/ dsend' = FALSE) /\ (drecv' = drecv \/ drecv' = FALSE) /\ haltIn' = haltIn
        /\ echoing' \in {echoing, TRUE, FALSE} /\ haltOut' \in {haltOut, TRUE}
    BY <1>3 DEF DevEchoFlushed, DevSends, DevEndsRecv, DevTimesOut
  <2> QED BY <1>a, <2>1
<1>6. CASE DevEndsSend
  <2>1. /\ open' = open /\ dsend' = FALSE /\ drecv' = drecv /\ dsend /\ haltIn' = open
        /\ echoing' = echoing /\ haltOut' = haltOut
    BY <1>6 DEF DevEndsSend
  <2> QED BY <1>a, <2>1
<1>4. CASE BusNext \/ RequestFails \/ PageKilled
  BY <1>0, <1>4 DEF BusNext, BusIn, BusStall, RequestFails, PageKilled
<1>5. CASE Unplug
  BY <1>5 DEF Unplug
<1> QED
  BY <1>1, <1>2, <1>3, <1>4, <1>5, <1>6 DEF Next, DeviceNext

\* What is in flight changes by a request of who has the guard, by the serving
\* or the loss of the first one, or by the loss of all of them.
LEMMA CtrlMoves ==
  ASSUME WebInv, Next
  PROVE  \/ ctrl' = ctrl \/ ctrl' = <<>> \/ (ctrl # <<>> /\ ctrl' = Tail(ctrl))
         \/ \E x : ctrl' = Append(ctrl, x) /\ x.conn \in Conns /\ guard[x.conn] # {}
<1> USE DEF usbVars
<1>p. PageInv
  BY DEF WebInv
<1>a. ASSUME NEW c \in Conns, NEW h, NEW k, NEW m, Call(c, h, k, m), guard[c] # {}
      PROVE  \/ ctrl' = ctrl
             \/ \E x : ctrl' = Append(ctrl, x) /\ x.conn \in Conns /\ guard[x.conn] # {}
  <2> DEFINE x == [conn |-> c, by |-> h, kind |-> k, mark |-> m]
  <2>1. x.conn = c
    OBVIOUS
  <2>2. ctrl' = ctrl \/ ctrl' = Append(ctrl, x)
    BY <1>a DEF Call
  <2> HIDE DEF x
  <2> QED BY <1>a, <2>1, <2>2
<1>1. ASSUME NEW c \in Conns, ConnectNext(c) \/ GiveUp(c)
      PROVE  \/ ctrl' = ctrl
             \/ \E x : ctrl' = Append(ctrl, x) /\ x.conn \in Conns /\ guard[x.conn] # {}
  <2>1. pc[c] \notin {"idle", "done", "over"} => guard[c] # {}
    BY <1>p DEF PageInv, Running
  <2>2. CASE ClaimInterface(c)
    <3> DEFINE x == [conn |-> c, by |-> "connect", kind |-> "CLOSE", mark |-> 0]
    <3>1. x.conn = c /\ ctrl' = Append(ctrl, x) /\ guard[c] # {}
      BY <2>1, <2>2 DEF ClaimInterface
    <3> HIDE DEF x
    <3> QED BY <3>1
  <2>3. CASE QueryCaps(c)
    BY <1>a, <2>1, <2>3 DEF QueryCaps
  <2>4. CASE SendEcho(c)
    BY <1>a, <2>1, <2>4 DEF SendEcho
  <2>5. CASE SendOpen(c)
    BY <1>a, <2>1, <2>5 DEF SendOpen, Flushed
  <2>6. CASE Refused(c) \/ GiveUp(c) \/ StartTasks(c) \/ EchoSent(c) \/ Discard(c) \/ BarrierTimedOut(c) \/ Opened(c)
    BY <2>6 DEF Refused, GiveUp, Ends, StartTasks, EchoSent, Discard, BarrierTimedOut, Opened
  <2> QED BY <1>1, <2>2, <2>3, <2>4, <2>5, <2>6 DEF ConnectNext
<1>2. ASSUME NEW c \in Conns, NEW d \in Dirs, HalfNext(c, d)
      PROVE  \/ ctrl' = ctrl
             \/ \E x : ctrl' = Append(ctrl, x) /\ x.conn \in Conns /\ guard[x.conn] # {}
  <2>1. task[c][d] \in {"lock", "half", "close", "released"}
    BY <1>2 DEF HalfNext, HalfClose, HalfClosed, ReleaseInterface, Returns
  <2>2. guard[c] # {}
    BY <1>p, <2>1 DEF PageInv, Running
  <2>3. ctrl' = ctrl \/ Call(c, d, Request(d), 0) \/ Call(c, d, "CLOSE", 0)
    BY <1>2 DEF HalfNext, HalfClose, HalfClosed, CloseOrReturn, ReleaseInterface, Returns
  <2> QED BY <1>a, <2>2, <2>3
<1>3. ASSUME NEW c \in Conns, StatusNext(c)
      PROVE  \/ ctrl' = ctrl
             \/ \E x : ctrl' = Append(ctrl, x) /\ x.conn \in Conns /\ guard[x.conn] # {}
  <2>1. /\ ctrl' = ctrl \/ Call(c, "status", "STATUS", 0)
        /\ status[c] \notin {"off", "ended"}
    BY <1>3 DEF StatusNext, PollStatus, StatusAnswered, StatusFailed, StatusEnds
  <2>2. guard[c] # {}
    BY <1>p, <2>1 DEF PageInv, Running
  <2> QED BY <1>a, <2>1, <2>2
<1>4. ASSUME NEW c \in Conns,
             \/ InStops(c) \/ InFails(c) \/ InWaits(c) \/ InQueues(c) \/ OutTakes(c) \/ OutStops(c) \/ OutSent(c)
             \/ OutFails(c) \/ TakeGuard(c) \/ DropSender(c) \/ DropReceiver(c) \/ Recv(c)
      PROVE  ctrl' = ctrl
  BY <1>4 DEF InStops, InFails, InWaits, InQueues, OutTakes, OutStops, OutSent, OutFails, TakeGuard, DropSender,
     DropReceiver, Recv
<1>5. ASSUME Serve \/ RequestFails PROVE ctrl # <<>> /\ ctrl' = Tail(ctrl)
  BY <1>5 DEF Serve, DevClose, DevOpen, DevCaps, DevEcho, DevCloseSend, DevCloseRecv, DevStatus, Handles,
     RequestFails
<1>6. ASSUME DevEchoFlushed \/ DevSends \/ DevEndsSend \/ DevEndsRecv \/ DevTimesOut \/ BusNext PROVE ctrl' = ctrl
  BY <1>6 DEF DevEchoFlushed, DevSends, DevEndsSend, DevEndsRecv, DevTimesOut, BusNext, BusIn, BusStall, hostSide
<1>7. ASSUME Unplug \/ PageKilled PROVE ctrl' = <<>>
  BY <1>7 DEF Unplug, PageKilled
<1> QED
  BY <1>1, <1>2, <1>3, <1>4, <1>5, <1>6, <1>7, Names DEF Next, DeviceNext, InTask, OutTask, AppNext

\* A connect_with that has asked for OPEN stays past it.
LEMMA PastOpen ==
  ASSUME WebInv, Next, NEW b \in Conns, pc[b] \in {"open", "done", "over"}
  PROVE  pc'[b] \in {"open", "done", "over"}
<1> USE DEF connVars
<1>t. pc \in [Conns -> {"idle", "release", "close", "caps", "echo", "marking", "barrier", "drain", "open",
                         "done", "over"}]
  BY DEF WebInv, PageInv, CallTypes
<1>1. ASSUME NEW c \in Conns, ConnectNext(c) \/ GiveUp(c) PROVE pc'[b] \in {"open", "done", "over"}
  <2>1. /\ pc' = pc \/ \E s \in {"close", "caps", "echo", "marking", "barrier", "drain", "open", "done", "over"} :
                          pc' = [pc EXCEPT ![c] = s]
        /\ pc'[c] \in {"open", "done", "over"} \/ pc[c] \notin {"open", "done", "over"} \/ pc' = pc
    BY <1>1, <1>t DEF ConnectNext, Refused, GiveUp, Ends, ClaimInterface, QueryCaps, StartTasks, SendEcho, EchoSent,
       Discard, BarrierTimedOut, SendOpen, Flushed, Opened
  <2> QED BY <1>t, <2>1
<1>2. ASSUME NEW c \in Conns, TakeGuard(c) PROVE pc'[b] \in {"open", "done", "over"}
  BY <1>2 DEF TakeGuard
<1>3. ASSUME NEW c \in Conns, InTask(c) \/ OutTask(c) \/ StatusNext(c) \/ DropSender(c) \/ DropReceiver(c)
             \/ Recv(c) \/ OutTakes(c)
      PROVE  pc' = pc
  BY <1>3 DEF InTask, OutTask, InStops, InFails, InWaits, InQueues, OutTakes, OutStops, OutSent, OutFails,
     HalfNext, HalfClose, HalfClosed, ReleaseInterface, Returns, StatusNext, PollStatus, StatusAnswered,
     StatusFailed, StatusEnds, DropSender, DropReceiver, Recv
<1>4. ASSUME DeviceNext \/ BusNext \/ RequestFails \/ Unplug PROVE pc' = pc
  BY <1>4 DEF DeviceNext, Serve, DevClose, DevOpen, DevCaps, DevEcho, DevCloseSend, DevCloseRecv, DevStatus,
     Handles, DevEchoFlushed, DevSends, DevEndsSend, DevEndsRecv, DevTimesOut, BusNext, BusIn, BusStall,
     RequestFails, Unplug, hostSide
<1>5. ASSUME PageKilled PROVE pc'[b] \in {"open", "done", "over"}
  BY <1>5 DEF PageKilled
<1> QED
  BY <1>1, <1>2, <1>3, <1>4, <1>5 DEF Next, AppNext

\* The device opens what it was asked to open.
LEMMA OpeningKept ==
  ASSUME WebInv, Next
  PROVE  DeviceTypes' /\ Opening'
<1>1. Conns \union {NoConn} = 0..MaxConns /\ NoConn \notin Conns
  BY Names
<1>2. DeviceTypes /\ Opening /\ CallsInv
  BY DEF WebInv, DeviceInv
<1>3. ASSUME ctrl # <<>>, Head(ctrl).kind = "OPEN"
      PROVE  Head(ctrl).conn \in Conns /\ pc[Head(ctrl).conn] \in {"open", "over"}
  <2>1. Head(ctrl) \in InFlight /\ Expected(Head(ctrl))
    BY <1>2, <1>3, CtrlRange DEF CallsInv, CallersWait
  <2> QED BY <1>3, <2>1, Names DEF InFlight, Expected, Asked
<1>4. open' \in 0..MaxConns
  BY <1>1, <1>2, <1>3, DeviceMoves DEF DeviceTypes
<1>5. haltIn' \in 0..MaxConns
  BY <1>1, <1>2, DeviceMoves DEF DeviceTypes
<1>6. DeviceTypes'
  BY <1>4, <1>5, DeviceMoves DEF DeviceTypes
<1>7. dsend' \/ drecv' => open' # NoConn
  BY <1>1, <1>2, <1>3, DeviceMoves DEF Opening
<1>8. open' # NoConn => pc'[open'] \in {"open", "done", "over"}
  <2>1. open' # NoConn => open' \in Conns /\ pc[open'] \in {"open", "done", "over"}
    BY <1>1, <1>2, <1>3, DeviceMoves DEF Opening, DeviceTypes
  <2> QED BY <2>1, PastOpen
<1> QED
  BY <1>6, <1>7, <1>8 DEF Opening

\* Only the serving of its CLOSE takes a connection past it.
LEMMA NewlyPast ==
  ASSUME WebInv, Next, NEW c \in Conns, Past(c)', ~Past(c)
  PROVE  guard[c] # {} /\ ctrl # <<>> /\ DevClose /\ Head(ctrl).conn = c
<1> USE DEF connVars, usbVars
<1>t. /\ PageInv /\ CallTypes /\ CallsInv
      /\ pc \in [Conns -> {"idle", "release", "close", "caps", "echo", "marking", "barrier", "drain", "open",
                         "done", "over"}]
      /\ "connect" \in Holders /\ "connect" # "status" /\ "connect" \notin Dirs
  BY Names DEF WebInv, PageInv, CallTypes
<1>n. /\ guard'[c] # {} /\ pc'[c] # "release" /\ (pc'[c] = "close" => reply'[c]["connect"] = "ok")
      /\ guard[c] = {} \/ pc[c] = "release" \/ (pc[c] = "close" /\ reply[c]["connect"] # "ok")
  BY DEF Past
<1>0. pc[c] \in {"release", "close"} => guard[c] = {"connect"}
  BY <1>t DEF PageInv, Running, Early
<1>s. ASSUME pc'[c] = pc[c], guard'[c] \subseteq guard[c], reply'[c]["connect"] = reply[c]["connect"] PROVE FALSE
  BY <1>n, <1>s
<1>r. ASSUME NEW b \in Conns, NEW h \in Holders, reply' = reply \/ Taken(b, h) \/ \E kind, k : Call(b, h, kind, k),
             b # c \/ h # "connect"
      PROVE  reply'[c]["connect"] = reply[c]["connect"]
  <2>1. CASE reply' = reply
    BY <2>1
  <2>2. CASE Taken(b, h) \/ \E kind, k : Call(b, h, kind, k)
    <3>1. OnlyTold(b, h)
      BY <1>t, <2>2, Replied
    <3> QED BY <1>r, <1>t, <3>1 DEF OnlyTold
  <2> QED BY <1>r, <2>1, <2>2
<1>1. ASSUME NEW b \in Conns, ConnectNext(b) \/ GiveUp(b) PROVE FALSE
  <2>1. pc' = pc \/ \E s \in {"close", "caps", "echo", "marking", "barrier", "drain", "open", "done", "over"} :
                          pc' = [pc EXCEPT ![b] = s]
    BY <1>1 DEF ConnectNext, Refused, GiveUp, Ends, ClaimInterface, QueryCaps, StartTasks, SendEcho, EchoSent,
       Discard, BarrierTimedOut, SendOpen, Opened
  <2>2. guard' = guard \/ guard' = [guard EXCEPT ![b] = Holders] \/ guard' = [guard EXCEPT ![b] = @ \ {"connect"}]
    BY <1>1 DEF ConnectNext, Refused, GiveUp, Ends, ClaimInterface, QueryCaps, StartTasks, SendEcho, EchoSent,
       Discard, BarrierTimedOut, SendOpen, Opened
  <2>3. reply' = reply \/ Taken(b, "connect") \/ \E kind, k : Call(b, "connect", kind, k)
    BY <1>1 DEF ConnectNext, Refused, GiveUp, Ends, ClaimInterface, QueryCaps, StartTasks, SendEcho, EchoSent,
       Discard, BarrierTimedOut, SendOpen, Opened
  <2>4. guard \in [Conns -> SUBSET Holders]
    BY <1>t DEF CallTypes
  <2>5. b = c
    <3> SUFFICES ASSUME b # c PROVE FALSE
      OBVIOUS
    <3>1. pc'[c] = pc[c]
      BY <1>t, <2>1
    <3>2. guard'[c] = guard[c]
      BY <2>2, <2>4
    <3>3. reply'[c]["connect"] = reply[c]["connect"]
      BY <1>r, <1>t, <2>3
    <3> QED BY <1>s, <3>1, <3>2, <3>3
  <2>6. pc[c] \notin {"idle", "done", "over"} => "connect" \in guard[c]
    BY <1>t DEF PageInv, Running
  <2>7. CASE GiveUp(c) \/ Refused(c)
    <3>1. guard'[c] = guard[c] \ {"connect"} /\ pc[c] \notin {"idle", "done", "over"}
      BY <2>4, <2>7 DEF GiveUp, Refused, Ends
    <3> QED BY <1>0, <1>n, <2>6, <3>1
  <2>8. CASE ClaimInterface(c)
    <3>1. pc[c] = "release" /\ pc'[c] = "close" /\ reply' = reply
      BY <1>t, <2>8 DEF ClaimInterface
    <3>2. reply[c]["connect"] = "none"
      BY <1>t, <3>1 DEF CallsInv, Awaiting
    <3> QED BY <1>n, <3>1, <3>2
  <2>9. CASE QueryCaps(c) \/ StartTasks(c) \/ SendEcho(c) \/ EchoSent(c) \/ Discard(c) \/ BarrierTimedOut(c)
             \/ SendOpen(c) \/ Opened(c)
    <3>1. pc[c] \in {"close", "caps", "echo", "marking", "barrier", "drain", "open"}
          /\ (pc[c] = "close" => reply[c]["connect"] = "ok")
      BY <2>9 DEF QueryCaps, StartTasks, SendEcho, EchoSent, Discard, BarrierTimedOut, SendOpen, Flushed, Opened
    <3> QED BY <1>n, <2>6, <3>1
  <2> QED BY <1>1, <2>5, <2>7, <2>8, <2>9 DEF ConnectNext
<1>2. ASSUME NEW b \in Conns, TakeGuard(b) PROVE FALSE
  <2>1. guard[c] = {} /\ guard' = [guard EXCEPT ![b] = {"connect"}] /\ pc'[b] = "release"
    BY <1>2 DEF TakeGuard, InUse
  <2>2. c = b
    BY <1>n, <1>t, <2>1 DEF CallTypes
  <2> QED BY <1>n, <2>1, <2>2
<1>3. ASSUME NEW b \in Conns, InTask(b) \/ OutTask(b) \/ StatusNext(b) \/ DropSender(b) \/ DropReceiver(b)
             \/ Recv(b) \/ OutTakes(b)
      PROVE  FALSE
  <2>1. pc' = pc
    BY <1>3 DEF InTask, OutTask, InStops, InFails, InWaits, InQueues, OutTakes, OutStops, OutSent, OutFails,
       HalfNext, HalfClose, HalfClosed, ReleaseInterface, Returns, StatusNext, PollStatus,
       StatusAnswered, StatusFailed, StatusEnds, DropSender, DropReceiver, Recv
  <2>2. guard' = guard \/ \E h \in {"in", "out", "status"} : guard' = [guard EXCEPT ![b] = @ \ {h}]
    BY <1>3 DEF InTask, OutTask, InStops, InFails, InWaits, InQueues, OutTakes, OutStops, OutSent, OutFails,
       HalfNext, HalfClose, HalfClosed, CloseOrReturn, ReleaseInterface, Returns, StatusNext, PollStatus,
       StatusAnswered, StatusFailed, StatusEnds, DropSender, DropReceiver, Recv
  <2>3. guard'[c] \subseteq guard[c]
    BY <1>t, <2>2 DEF CallTypes
  <2>4. \E h \in {"in", "out", "status"} : reply' = reply \/ Taken(b, h) \/ \E kind, k : Call(b, h, kind, k)
    <3>1. CASE StatusNext(b)
      BY <3>1 DEF StatusNext, PollStatus, StatusAnswered, StatusFailed, StatusEnds
    <3>2. ASSUME NEW d \in {"in", "out"}, HalfNext(b, d)
          PROVE  reply' = reply \/ Taken(b, d) \/ \E kind, k : Call(b, d, kind, k)
      BY <3>2 DEF HalfNext, HalfClose, HalfClosed, CloseOrReturn, ReleaseInterface, Returns
    <3>3. CASE InStops(b) \/ InFails(b) \/ InWaits(b) \/ InQueues(b) \/ OutTakes(b) \/ OutStops(b) \/ OutSent(b)
               \/ OutFails(b) \/ DropSender(b) \/ DropReceiver(b) \/ Recv(b)
      BY <3>3 DEF InStops, InFails, InWaits, InQueues, OutTakes, OutStops, OutSent, OutFails, DropSender,
         DropReceiver, Recv
    <3> QED BY <1>3, <3>1, <3>2, <3>3 DEF InTask, OutTask
  <2>5. reply'[c]["connect"] = reply[c]["connect"]
    <3>1. PICK h \in {"in", "out", "status"} : reply' = reply \/ Taken(b, h) \/ \E kind, k : Call(b, h, kind, k)
      BY <2>4
    <3>2. h \in Holders /\ h # "connect"
      BY DEF Holders
    <3> QED BY <1>r, <3>1, <3>2
  <2> QED BY <1>s, <2>1, <2>3, <2>5
<1>4. ASSUME RequestFails \/ Serve
      PROVE  guard[c] # {} /\ ctrl # <<>> /\ DevClose /\ Head(ctrl).conn = c
  <2> DEFINE r == Head(ctrl)
  <2>1. ctrl # <<>> /\ UNCHANGED <<pc, guard>>
    BY <1>4 DEF Serve, DevClose, DevOpen, DevCaps, DevEcho, DevCloseSend, DevCloseRecv, DevStatus, Handles,
       RequestFails
  <2>2. pc[c] = "close" /\ guard[c] # {} /\ reply'[c]["connect"] # reply[c]["connect"] /\ reply'[c]["connect"] = "ok"
    BY <1>n, <2>1
  <2>3. r \in InFlight /\ Expected(r)
    BY <1>t, <2>1, CtrlRange DEF CallsInv, CallersWait
  <2>4. PICK res \in Replies : Reply(r, res)
    BY <1>4 DEF Serve, DevClose, DevOpen, DevCaps, DevEcho, DevCloseSend, DevCloseRecv, DevStatus,
       RequestFails, Replies
  <2>5. r.conn = c /\ r.by = "connect"
    BY <1>t, <2>2, <2>3, <2>4 DEF Reply, InFlight, CallTypes
  <2>6. r.kind = "CLOSE"
    BY <1>t, <2>2, <2>3, <2>5 DEF Expected, Asked
  <2>7. ~RequestFails
    BY <1>t, <2>2, <2>3, <2>5 DEF RequestFails, Reply, CallTypes
  <2> QED BY <1>4, <2>1, <2>2, <2>5, <2>6, <2>7
     DEF Serve, DevOpen, DevCaps, DevEcho, DevCloseSend, DevCloseRecv, DevStatus, Handles
<1>5. ASSUME DevEchoFlushed \/ DevSends \/ DevEndsSend \/ DevEndsRecv \/ DevTimesOut \/ BusNext PROVE FALSE
  BY <1>n, <1>5 DEF DevEchoFlushed, DevSends, DevEndsSend, DevEndsRecv, DevTimesOut, BusNext, BusIn, BusStall,
     hostSide
<1>6. ASSUME Unplug PROVE FALSE
  <2>1. pc' = pc /\ guard' = guard /\ reply'[c]["connect"] \in {"err", reply[c]["connect"]}
    BY <1>6, <1>t DEF Unplug
  <2> QED BY <1>n, <2>1
<1>7. ASSUME PageKilled PROVE FALSE
  BY <1>7, <1>n DEF PageKilled
<1> QED
  BY <1>1, <1>2, <1>3, <1>4, <1>5, <1>6, <1>7 DEF Next, DeviceNext, AppNext

\* Past its CLOSE, all that is left is of the connection itself.
LEMMA ClearedKept ==
  ASSUME WebInv, Next
  PROVE  Cleared'
<1> SUFFICES ASSUME NEW c \in Conns, Past(c)'
             PROVE  /\ open' \in {NoConn, c} /\ haltIn' \in {NoConn, c}
                    /\ \A i \in DOMAIN ctrl' : ctrl'[i].conn = c
  BY DEF Cleared, Past
<1>t. PageInv /\ CallsInv /\ CallersWait /\ Cleared /\ ctrl \in Seq(InFlight)
  BY DEF WebInv, CallsInv, CallersWait, DeviceInv
<1>1. CASE Past(c)
  <2>1. open \in {NoConn, c} /\ haltIn \in {NoConn, c} /\ \A i \in DOMAIN ctrl : ctrl[i].conn = c
    BY <1>1, <1>t DEF Cleared
  <2>2. ctrl # <<>> => Head(ctrl).conn = c
    BY <1>t, <2>1, CtrlRange
  <2>3. open' \in {NoConn, c} /\ haltIn' \in {NoConn, c}
    BY <2>1, <2>2, DeviceMoves
  <2>4. CASE ctrl' = ctrl \/ ctrl' = <<>>
    BY <2>1, <2>3, <2>4
  <2>5. CASE ctrl # <<>> /\ ctrl' = Tail(ctrl)
    BY <1>t, <2>1, <2>3, <2>5, CtrlRange
  <2>6. ASSUME NEW x, ctrl' = Append(ctrl, x), x.conn \in Conns, guard[x.conn] # {}
        PROVE  \A i \in DOMAIN ctrl' : ctrl'[i].conn = c
    <3>1. x.conn = c
      BY <1>1, <1>t, <2>6 DEF Past, PageInv, OneUser
    <3>2. \A i \in DOMAIN ctrl' : (i \in DOMAIN ctrl /\ ctrl'[i] = ctrl[i]) \/ ctrl'[i] = x
      BY <1>t, <2>6
    <3> QED BY <2>1, <3>1, <3>2
  <2> QED BY <2>3, <2>4, <2>5, <2>6, CtrlMoves
<1>2. CASE ~Past(c)
  <2>1. guard[c] # {} /\ ctrl # <<>> /\ DevClose /\ Head(ctrl).conn = c
    BY <1>2, NewlyPast
  <2>2. ctrl' = Tail(ctrl) /\ open' = NoConn /\ haltIn' = NoConn
    BY <2>1 DEF DevClose, Handles
  <2>3. ASSUME NEW i \in DOMAIN Tail(ctrl) PROVE Tail(ctrl)[i].conn = c
    <3>1. i + 1 \in DOMAIN ctrl /\ Tail(ctrl)[i] = ctrl[i + 1] /\ i \in Nat /\ ctrl[1].conn = c /\ 1 \in DOMAIN ctrl
      BY <1>t, <2>1, CtrlRange
    <3>2. ctrl[i + 1].conn <= c
      BY <1>t, <2>1, <3>1, InFlightOld
    <3>3. c <= ctrl[i + 1].conn
      BY <1>t, <3>1 DEF CallsInv, Sorted
    <3>4. ctrl[i + 1] \in InFlight
      BY <1>t, <3>1
    <3>5. ctrl[i + 1].conn \in Conns
      BY <3>4 DEF InFlight
    <3>6. ctrl[i + 1].conn \in Nat /\ c \in Nat
      BY <3>5, Names
    <3> QED BY <3>1, <3>2, <3>3, <3>6
  <2> QED BY <2>2, <2>3
<1> QED
  BY <1>1, <1>2

-----------------------------------------------------------------------------
(* How a step changes the data on its way                                  *)

\* Nothing is added to what is on its way.
Shrinks ==
  /\ \A c \in Conns : queue'[c] \in {queue[c], <<>>} \/ (queue[c] # <<>> /\ queue'[c] = Tail(queue[c]))
  /\ \A c \in Conns : arrived'[c] \in {arrived[c], NoTransfer} \/ (Reading(c) /\ arrived'[c] = Failure /\ reads' = <<>>)
  /\ reads' \in {reads, <<>>} /\ pipe' \in {pipe, <<>>}
  /\ arrived' \in [Conns -> Transfers] /\ queue' \in [Conns -> Seq(SUBSET Contents)]

\* Only these steps do not shrink what is on its way.
Grows == \/ \E c \in Conns : StartTasks(c) \/ InQueues(c)
         \/ DevSends \/ DevEcho \/ BusNext

\* Every step either shrinks what is on its way or is one of those.
LEMMA ShrinksOrGrows ==
  ASSUME WebInv, Next
  PROVE  Shrinks \/ Grows
<1> USE DEF taskVars, appVars, usbVars, devVars, sideVars, epVars
<1>t. arrived \in [Conns -> Transfers] /\ queue \in [Conns -> Seq(SUBSET Contents)]
  BY DEF WebInv, DataInv, DataTypes
<1>a. ASSUME UNCHANGED arrived \/ (\E c \in Conns : arrived' = [arrived EXCEPT ![c] = NoTransfer])
                \/ (reads' = <<>> /\ arrived' = [c \in Conns |-> IF Reading(c) THEN Failure ELSE arrived[c]])
      PROVE  \A c \in Conns : \/ arrived'[c] \in {arrived[c], NoTransfer}
                              \/ Reading(c) /\ arrived'[c] = Failure /\ reads' = <<>>
  BY <1>t, <1>a
<1>c. ASSUME UNCHANGED arrived \/ (\E c \in Conns : arrived' = [arrived EXCEPT ![c] = NoTransfer])
                \/ (reads' = <<>> /\ arrived' = [c \in Conns |-> IF Reading(c) THEN Failure ELSE arrived[c]])
      PROVE  arrived' \in [Conns -> Transfers]
  <2>1. NoTransfer \in Transfers /\ Failure \in Transfers
    BY WebAssumption DEF NoTransfer, Failure, Transfers, NoConn
  <2> QED BY <1>t, <1>c, <2>1
<1>b. ASSUME UNCHANGED queue \/ (\E c \in Conns : \/ queue' = [queue EXCEPT ![c] = <<>>]
                                                  \/ queue[c] # <<>> /\ queue' = [queue EXCEPT ![c] = Tail(@)])
      PROVE  /\ \A c \in Conns : queue'[c] \in {queue[c], <<>>} \/ (queue[c] # <<>> /\ queue'[c] = Tail(queue[c]))
             /\ queue' \in [Conns -> Seq(SUBSET Contents)]
  <2>1. ASSUME NEW c \in Conns, queue[c] # <<>>, queue' = [queue EXCEPT ![c] = Tail(@)]
        PROVE  queue' \in [Conns -> Seq(SUBSET Contents)]
    <3>1. Tail(queue[c]) \in Seq(SUBSET Contents)
      BY <1>t, <2>1
    <3> QED BY <1>t, <2>1, <3>1
  <2>2. ASSUME NEW c \in Conns, queue' = [queue EXCEPT ![c] = <<>>]
        PROVE  queue' \in [Conns -> Seq(SUBSET Contents)]
    BY <1>t, <2>2
  <2>3. queue' \in [Conns -> Seq(SUBSET Contents)]
    BY <1>t, <1>b, <2>1, <2>2
  <2>4. \A c \in Conns : queue'[c] \in {queue[c], <<>>} \/ (queue[c] # <<>> /\ queue'[c] = Tail(queue[c]))
    BY <1>t, <1>b
  <2> QED BY <2>3, <2>4
<1>1. ASSUME NEW c \in Conns, ConnectNext(c) \/ GiveUp(c), ~StartTasks(c) PROVE Shrinks
  <2>1. UNCHANGED <<arrived, reads, pipe>>
    BY <1>1 DEF ConnectNext, Refused, GiveUp, Ends, ClaimInterface, QueryCaps, SendEcho, EchoSent, Discard,
       BarrierTimedOut, SendOpen, Opened
  <2>2. CASE SendOpen(c)
    <3>1. queue' = [queue EXCEPT ![c] = IF @ = <<>> THEN @ ELSE Tail(@)]
      BY <2>2 DEF SendOpen
    <3>2. queue' \in [Conns -> Seq(SUBSET Contents)]
      BY <1>t, <3>1
    <3> QED BY <1>t, <2>1, <3>1, <3>2 DEF Shrinks
  <2>3. CASE ~SendOpen(c)
    <3>1. UNCHANGED queue \/ queue' = [queue EXCEPT ![c] = <<>>]
             \/ (queue[c] # <<>> /\ queue' = [queue EXCEPT ![c] = Tail(@)])
      <4>1. CASE Refused(c) \/ GiveUp(c)
        BY <4>1 DEF Refused, GiveUp, Ends
      <4>2. CASE Discard(c)
        BY <4>2 DEF Discard
      <4>3. CASE ClaimInterface(c) \/ QueryCaps(c) \/ SendEcho(c) \/ EchoSent(c) \/ BarrierTimedOut(c) \/ Opened(c)
        BY <4>3 DEF ClaimInterface, QueryCaps, SendEcho, EchoSent, BarrierTimedOut, Opened
      <4> QED BY <1>1, <2>3, <4>1, <4>2, <4>3 DEF ConnectNext
    <3>2. /\ \A b \in Conns : queue'[b] \in {queue[b], <<>>} \/ (queue[b] # <<>> /\ queue'[b] = Tail(queue[b]))
          /\ queue' \in [Conns -> Seq(SUBSET Contents)]
      BY <1>b, <3>1
    <3> QED BY <1>t, <2>1, <3>2 DEF Shrinks
  <2> QED BY <2>2, <2>3
<1>2. ASSUME NEW c \in Conns, TakeGuard(c) \/ (\E d \in Dirs : ReleaseInterface(c, d)) PROVE Shrinks
  <2>1. UNCHANGED <<queue, pipe>> /\ Release
    BY <1>2 DEF TakeGuard, ReleaseInterface
  <2> QED BY <1>a, <1>c, <1>t, <2>1 DEF Release, Shrinks
<1>3. ASSUME NEW c \in Conns, InStops(c) \/ InFails(c) PROVE Shrinks
  <2>1. UNCHANGED <<queue, reads, pipe>> /\ arrived' = [arrived EXCEPT ![c] = NoTransfer]
    BY <1>3 DEF InStops, InFails, LoopEnds
  <2> QED BY <1>a, <1>c, <1>t, <2>1 DEF Shrinks
<1>4. ASSUME NEW c \in Conns,
             \/ InWaits(c) \/ (OutTask(c) /\ ~ReleaseInterface(c, "out")) \/ StatusNext(c) \/ OutTakes(c) \/ DropSender(c)
             \/ (HalfNext(c, "in") /\ ~ReleaseInterface(c, "in"))
      PROVE  Shrinks
  <2>1. UNCHANGED <<arrived, queue, reads, pipe>>
    BY <1>4 DEF InWaits, OutTask, OutTakes, OutStops, OutSent, OutFails, LoopEnds, HalfNext, HalfClose, HalfClosed, Returns,
       StatusNext, PollStatus, StatusAnswered, StatusFailed, StatusEnds, DropSender
  <2> QED BY <1>t, <2>1 DEF Shrinks
<1>5. ASSUME NEW c \in Conns, DropReceiver(c) \/ Recv(c) PROVE Shrinks
  <2>1. UNCHANGED <<arrived, reads, pipe>>
    BY <1>5 DEF DropReceiver, Recv
  <2>2. queue' = [queue EXCEPT ![c] = <<>>] \/ (queue[c] # <<>> /\ queue' = [queue EXCEPT ![c] = Tail(@)])
    <3>1. CASE DropReceiver(c)
      BY <3>1 DEF DropReceiver
    <3>2. CASE Recv(c)
      BY <3>2 DEF Recv
    <3> QED BY <1>5, <3>1, <3>2
  <2>3. /\ \A b \in Conns : queue'[b] \in {queue[b], <<>>} \/ (queue[b] # <<>> /\ queue'[b] = Tail(queue[b]))
        /\ queue' \in [Conns -> Seq(SUBSET Contents)]
    BY <1>b, <2>2
  <2> QED BY <1>t, <2>1, <2>3 DEF Shrinks
<1>6. ASSUME Serve, ~DevEcho PROVE Shrinks
  <2>1. UNCHANGED <<arrived, queue, reads>>
    BY <1>6 DEF Serve, DevClose, DevOpen, DevCaps, DevCloseSend, DevCloseRecv, DevStatus, Handles
  <2>2. pipe' \in {pipe, <<>>}
    BY <1>6 DEF Serve, DevClose, DevOpen, DevCaps, DevCloseSend, DevCloseRecv, DevStatus
  <2> QED BY <1>t, <2>1, <2>2 DEF Shrinks
<1>7. ASSUME DevEchoFlushed \/ DevEndsSend \/ DevEndsRecv \/ DevTimesOut \/ RequestFails PROVE Shrinks
  <2>1. UNCHANGED <<arrived, queue, reads>>
    BY <1>7 DEF DevEchoFlushed, DevEndsSend, DevEndsRecv, DevTimesOut, RequestFails, hostSide
  <2>2. pipe' \in {pipe, <<>>}
    BY <1>7 DEF DevEchoFlushed, DevEndsSend, DevEndsRecv, DevTimesOut, RequestFails
  <2> QED BY <1>t, <2>1, <2>2 DEF Shrinks
<1>8. ASSUME Unplug PROVE Shrinks
  BY <1>a, <1>c, <1>t, <1>8 DEF Unplug, Shrinks
<1>9. ASSUME PageKilled PROVE Shrinks
  <2>1. NoTransfer \in Transfers
    BY WebAssumption DEF NoTransfer, Transfers, NoConn
  <2> QED BY <1>9, <2>1 DEF PageKilled, Shrinks
<1> QED
  <2>1. ASSUME NEW c \in Conns, ConnectNext(c) \/ InTask(c) \/ OutTask(c) \/ StatusNext(c) \/ AppNext(c)
        PROVE  Shrinks \/ Grows
    BY <2>1, <1>1, <1>2, <1>3, <1>4, <1>5, Names DEF InTask, AppNext, Grows
  <2>2. ASSUME DeviceNext PROVE Shrinks \/ Grows
    BY <2>2, <1>6, <1>7 DEF DeviceNext, Grows
  <2> QED BY <2>1, <2>2, <1>7, <1>8, <1>9 DEF Next, Grows

\* How a step changes where a call of connect_with stands
LEMMA CallMoves ==
  ASSUME WebInv, Next, NEW c \in Conns
  PROVE  \/ SendEcho(c) \/ SendOpen(c) \/ StartTasks(c) \/ TakeGuard(c) \/ pc'[c] = "over"
         \/ /\ tries'[c] = tries[c]
            /\ \/ pc[c] = "release" /\ pc'[c] = "close"
               \/ pc[c] = "close" /\ pc'[c] = "caps"
               \/ pc[c] = "marking" /\ pc'[c] = "barrier"
               \/ pc[c] = "barrier" /\ pc'[c] = "echo"
               \/ pc[c] = "open" /\ pc'[c] = "done"
         \/ /\ pc'[c] = pc[c] /\ tries'[c] = tries[c]
            /\ reply'[c]["connect"] = "none" => reply[c]["connect"] = "none"
<1> USE DEF connVars, usbVars
<1>t. /\ PageInv /\ CallTypes /\ CallsInv
      /\ pc \in [Conns -> {"idle", "release", "close", "caps", "echo", "marking", "barrier", "drain", "open",
                         "done", "over"}]
      /\ tries \in [Conns -> 0..EchoRetries]
      /\ "connect" \in Holders /\ "connect" # "status" /\ "connect" \notin Dirs
  BY Names DEF WebInv, PageInv, CallTypes
<1> DEFINE Same == pc'[c] = pc[c] /\ tries'[c] = tries[c]
                     /\ (reply'[c]["connect"] = "none" => reply[c]["connect"] = "none")
<1>r. ASSUME NEW b \in Conns, NEW h \in Holders, reply' = reply \/ Taken(b, h) \/ \E kind, k : Call(b, h, kind, k),
             b # c \/ h # "connect"
      PROVE  reply'[c]["connect"] = reply[c]["connect"]
  <2>1. CASE reply' = reply
    BY <2>1
  <2>2. CASE Taken(b, h) \/ \E kind, k : Call(b, h, kind, k)
    <3>1. OnlyTold(b, h)
      BY <1>t, <2>2, Replied
    <3> QED BY <1>r, <1>t, <3>1 DEF OnlyTold
  <2> QED BY <1>r, <2>1, <2>2
<1>1. ASSUME NEW b \in Conns, ConnectNext(b) \/ GiveUp(b), b # c PROVE Same
  <2>1. pc' = pc \/ \E s \in {"close", "caps", "echo", "marking", "barrier", "drain", "open", "done", "over"} :
                          pc' = [pc EXCEPT ![b] = s]
    BY <1>1 DEF ConnectNext, Refused, GiveUp, Ends, ClaimInterface, QueryCaps, StartTasks, SendEcho, EchoSent,
       Discard, BarrierTimedOut, SendOpen, Opened
  <2>2. tries' = tries \/ tries' = [tries EXCEPT ![b] = @ + 1]
    BY <1>1 DEF ConnectNext, Refused, GiveUp, Ends, ClaimInterface, QueryCaps, StartTasks, SendEcho, EchoSent,
       Discard, BarrierTimedOut, SendOpen, Opened
  <2>3. reply' = reply \/ Taken(b, "connect") \/ \E kind, k : Call(b, "connect", kind, k)
    BY <1>1 DEF ConnectNext, Refused, GiveUp, Ends, ClaimInterface, QueryCaps, StartTasks, SendEcho, EchoSent,
       Discard, BarrierTimedOut, SendOpen, Opened
  <2>4. pc'[c] = pc[c] /\ tries'[c] = tries[c]
    BY <1>1, <1>t, <2>1, <2>2
  <2> QED BY <1>1, <1>r, <1>t, <2>3, <2>4
<1>2. ASSUME ConnectNext(c) \/ GiveUp(c)
      PROVE  \/ SendEcho(c) \/ SendOpen(c) \/ StartTasks(c) \/ pc'[c] = "over"
             \/ /\ tries'[c] = tries[c]
                /\ \/ pc[c] = "release" /\ pc'[c] = "close"
                   \/ pc[c] = "close" /\ pc'[c] = "caps"
                   \/ pc[c] = "marking" /\ pc'[c] = "barrier"
                   \/ pc[c] = "barrier" /\ pc'[c] = "echo"
                   \/ pc[c] = "open" /\ pc'[c] = "done"
             \/ Same
  <2>1. CASE GiveUp(c) \/ Refused(c)
    BY <1>t, <2>1 DEF GiveUp, Refused, Ends
  <2>2. CASE ClaimInterface(c) \/ QueryCaps(c)
    BY <1>t, <2>2 DEF ClaimInterface, QueryCaps
  <2>3. CASE EchoSent(c) \/ BarrierTimedOut(c) \/ Opened(c) \/ Discard(c)
    BY <1>t, <2>3 DEF EchoSent, BarrierTimedOut, Opened, Discard
  <2> QED BY <1>2, <2>1, <2>2, <2>3 DEF ConnectNext
<1>3. ASSUME NEW b \in Conns, TakeGuard(b), b # c PROVE pc'[c] = "over" \/ Same
  <2>1. /\ pc'[c] = IF c < b /\ guard[c] = {} THEN "over" ELSE pc[c]
        /\ tries'[c] = IF c < b /\ guard[c] = {} THEN 0 ELSE tries[c]
        /\ reply' = reply
    BY <1>3 DEF TakeGuard
  <2> QED BY <2>1
<1>4. ASSUME NEW b \in Conns, InTask(b) \/ OutTask(b) \/ StatusNext(b) \/ DropSender(b) \/ DropReceiver(b)
             \/ Recv(b) \/ OutTakes(b)
      PROVE  Same
  <2>1. pc' = pc /\ tries' = tries
    BY <1>4 DEF InTask, OutTask, InStops, InFails, InWaits, InQueues, OutTakes, OutStops, OutSent, OutFails,
       HalfNext, HalfClose, HalfClosed, ReleaseInterface, Returns, StatusNext, PollStatus,
       StatusAnswered, StatusFailed, StatusEnds, DropSender, DropReceiver, Recv
  <2>2. \E h \in {"in", "out", "status"} : reply' = reply \/ Taken(b, h) \/ \E kind, k : Call(b, h, kind, k)
    <3>1. CASE StatusNext(b)
      BY <3>1 DEF StatusNext, PollStatus, StatusAnswered, StatusFailed, StatusEnds
    <3>2. ASSUME NEW d \in {"in", "out"}, HalfNext(b, d)
          PROVE  reply' = reply \/ Taken(b, d) \/ \E kind, k : Call(b, d, kind, k)
      BY <3>2 DEF HalfNext, HalfClose, HalfClosed, CloseOrReturn, ReleaseInterface, Returns
    <3>3. CASE InStops(b) \/ InFails(b) \/ InWaits(b) \/ InQueues(b) \/ OutTakes(b) \/ OutStops(b) \/ OutSent(b)
               \/ OutFails(b) \/ DropSender(b) \/ DropReceiver(b) \/ Recv(b)
      BY <3>3 DEF InStops, InFails, InWaits, InQueues, OutTakes, OutStops, OutSent, OutFails, DropSender,
         DropReceiver, Recv
    <3> QED BY <1>4, <3>1, <3>2, <3>3 DEF InTask, OutTask
  <2>3. PICK h \in {"in", "out", "status"} : reply' = reply \/ Taken(b, h) \/ \E kind, k : Call(b, h, kind, k)
    BY <2>2
  <2>4. h \in Holders /\ h # "connect"
    BY DEF Holders
  <2> QED BY <1>r, <2>1, <2>3, <2>4
<1>5. ASSUME RequestFails \/ Serve PROVE Same
  <2>1. UNCHANGED <<pc, tries>>
    BY <1>5 DEF Serve, DevClose, DevOpen, DevCaps, DevEcho, DevCloseSend, DevCloseRecv, DevStatus, Handles,
       RequestFails
  <2>2. PICK res \in {"ok", "err", "recv_closed"} : Reply(Head(ctrl), res)
    BY <1>5 DEF Serve, DevClose, DevOpen, DevCaps, DevEcho, DevCloseSend, DevCloseRecv, DevStatus,
       RequestFails
  <2>3. reply'[c]["connect"] \in {res, reply[c]["connect"]}
    BY <1>t, <2>2 DEF Reply, CallTypes
  <2> QED BY <2>1, <2>3
<1>6. ASSUME DevEchoFlushed \/ DevSends \/ DevEndsSend \/ DevEndsRecv \/ DevTimesOut \/ BusNext PROVE Same
  BY <1>6 DEF DevEchoFlushed, DevSends, DevEndsSend, DevEndsRecv, DevTimesOut, BusNext, BusIn, BusStall, hostSide
<1>7. ASSUME Unplug PROVE Same
  <2>1. pc' = pc /\ tries' = tries /\ reply'[c]["connect"] \in {"err", reply[c]["connect"]}
    BY <1>7, <1>t DEF Unplug
  <2> QED BY <2>1
<1>8. ASSUME PageKilled PROVE pc'[c] = "over" \/ Same
  <2>1. CASE pc[c] = "idle"
    <3>1. tries[c] = 0 /\ reply[c]["connect"] = "none"
      BY <1>t, <2>1 DEF PageInv, Running, Early, CallsInv, Awaiting
    <3> QED BY <1>8, <2>1, <3>1 DEF PageKilled
  <2>2. CASE pc[c] # "idle"
    BY <1>8, <2>2 DEF PageKilled
  <2> QED BY <2>1, <2>2
<1> HIDE DEF Same
<1>9. Same => /\ pc'[c] = pc[c] /\ tries'[c] = tries[c]
              /\ reply'[c]["connect"] = "none" => reply[c]["connect"] = "none"
  BY DEF Same
<1> QED
  BY <1>1, <1>2, <1>3, <1>4, <1>5, <1>6, <1>7, <1>8, <1>9 DEF Next, DeviceNext, AppNext

\* How a step changes where the in_task of a connection stands
LEMMA InMoves ==
  ASSUME WebInv, Next, NEW c \in Conns
  PROVE  \/ task'[c]["in"] = task[c]["in"] \/ StartTasks(c)
         \/ task[c]["in"] \in {"read", "full"} /\ task'[c]["in"] \in {"read", "full"}
         \/ (InStops(c) \/ InFails(c)) /\ task'[c]["in"] = "lock" /\ arrived'[c] = NoTransfer
         \/ Stopped(c) /\ Stopped(c)'
         \/ task'[c]["in"] = "ended" /\ arrived'[c] = NoTransfer /\ ~rx'[c]
<1> USE DEF taskVars
<1>t. /\ PageInv /\ TaskTypes /\ arrived \in [Conns -> Transfers]
      /\ "in" \in Dirs /\ "out" \in Dirs
  BY Names DEF WebInv, PageInv, DataInv, DataTypes
<1>m. ASSUME NEW b \in Conns, NEW d \in Dirs,
             NEW s \in {"read", "full", "take", "send", "lock", "half", "close", "released", "ended"},
             task' = [task EXCEPT ![b][d] = s]
      PROVE  task'[c]["in"] = IF b = c /\ d = "in" THEN s ELSE task[c]["in"]
  BY <1>m, <1>t, Update DEF TaskTypes
<1>1. ASSUME NEW b \in Conns, ConnectNext(b) \/ GiveUp(b), ~StartTasks(b) PROVE task' = task
  BY <1>1 DEF ConnectNext, Refused, GiveUp, Ends, ClaimInterface, QueryCaps, SendEcho, EchoSent, Discard,
     BarrierTimedOut, SendOpen, Opened
<1>2. ASSUME NEW b \in Conns, StartTasks(b), b # c PROVE task'[c]["in"] = task[c]["in"]
  BY <1>2 DEF StartTasks
<1>3. ASSUME NEW b \in Conns, InStops(b) \/ InFails(b)
      PROVE  \/ task'[c]["in"] = task[c]["in"]
             \/ (InStops(c) \/ InFails(c)) /\ task'[c]["in"] = "lock" /\ arrived'[c] = NoTransfer
  <2>1. task' = [task EXCEPT ![b]["in"] = "lock"] /\ arrived' = [arrived EXCEPT ![b] = NoTransfer]
    BY <1>3 DEF InStops, InFails, LoopEnds
  <2> QED BY <1>3, <1>m, <1>t, <2>1, SMTT(40)
<1>4. ASSUME NEW b \in Conns, InWaits(b) \/ InQueues(b)
      PROVE  \/ task'[c]["in"] = task[c]["in"]
             \/ task[c]["in"] \in {"read", "full"} /\ task'[c]["in"] \in {"read", "full"}
  <2>1. /\ task[b]["in"] \in {"read", "full"}
        /\ task' = [task EXCEPT ![b]["in"] = "full"] \/ task' = [task EXCEPT ![b]["in"] = "read"]
    BY <1>4 DEF InWaits, InQueues
  <2> QED BY <1>m, <1>t, <2>1
<1>5. ASSUME NEW b \in Conns, OutTakes(b) \/ OutStops(b) \/ OutSent(b) \/ OutFails(b)
      PROVE  task'[c]["in"] = task[c]["in"]
  <2>1. PICK s \in {"send", "lock", "take"} : task' = [task EXCEPT ![b]["out"] = s]
    BY <1>5 DEF OutTakes, OutStops, OutSent, OutFails, LoopEnds
  <2> QED BY <1>m, <1>t, <2>1
<1>6. ASSUME NEW b \in Conns, NEW d \in Dirs, HalfNext(b, d)
      PROVE  task'[c]["in"] = task[c]["in"] \/ (Stopped(c) /\ Stopped(c)')
  <2>1. /\ task[b][d] \in {"lock", "half", "close", "released"}
        /\ \E s \in {"half", "close", "released", "ended"} : task' = [task EXCEPT ![b][d] = s]
    BY <1>6 DEF HalfNext, HalfClose, HalfClosed, CloseOrReturn, ReleaseInterface, Returns
  <2> QED BY <1>m, <2>1, SMTT(40) DEF Stopped
<1>7. ASSUME NEW b \in Conns, StatusNext(b) \/ DropSender(b) \/ DropReceiver(b) \/ Recv(b) PROVE task' = task
  BY <1>7 DEF StatusNext, PollStatus, StatusAnswered, StatusFailed, StatusEnds, DropSender, DropReceiver, Recv
<1>8. ASSUME DeviceNext \/ BusNext \/ RequestFails \/ Unplug PROVE task' = task
  BY <1>8 DEF DeviceNext, Serve, DevClose, DevOpen, DevCaps, DevEcho, DevCloseSend, DevCloseRecv, DevStatus,
     Handles, DevEchoFlushed, DevSends, DevEndsSend, DevEndsRecv, DevTimesOut, BusNext, BusIn, BusStall,
     RequestFails, Unplug, hostSide
<1>9. ASSUME NEW b \in Conns, TakeGuard(b)
      PROVE  \/ task'[c]["in"] = task[c]["in"]
             \/ task'[c]["in"] = "ended" /\ arrived'[c] = NoTransfer /\ ~rx'[c]
  <2>1. CASE c < b
    <3>1. guard[c] = {} /\ b \in Nat /\ c \in Nat /\ c > 0
      BY <1>9, Names DEF TakeGuard, InUse
    <3>2. c \in 1..(b - 1)
      BY <2>1, <3>1
    <3>3. ~rx[c] /\ rx' = rx
      BY <1>9, <3>1, <3>2 DEF TakeGuard, appVars
    <3>4. task[c]["in"] \in {"off", "ended"}
      BY <1>t, <3>1 DEF PageInv, Running
    <3>5. arrived[c] = NoTransfer
      BY <1>t, <3>4 DEF WebInv, DataInv, Arriving
    <3>6. arrived'[c] = arrived[c]
      BY <1>9, <3>4 DEF TakeGuard, Release, Reading
    <3>7. task'[c]["in"] = "ended"
      BY <1>9, <1>t, <2>1, <3>1 DEF TakeGuard
    <3> QED BY <3>3, <3>5, <3>6, <3>7
  <2>2. CASE ~(c < b)
    BY <1>9, <2>2 DEF TakeGuard
  <2> QED BY <2>1, <2>2
<1>10. ASSUME PageKilled
       PROVE  \/ task'[c]["in"] = task[c]["in"]
              \/ task'[c]["in"] = "ended" /\ arrived'[c] = NoTransfer /\ ~rx'[c]
  <2>1. pc[c] = "idle" => task[c]["in"] = "off"
    BY <1>t DEF PageInv, Running, Early
  <2> QED BY <1>10, <1>t, <2>1 DEF PageKilled
<1> QED
  BY <1>1, <1>2, <1>3, <1>4, <1>5, <1>6, <1>7, <1>8, <1>9, <1>10, <1>t DEF Next, InTask, OutTask, AppNext

\* What in_task and its transfers tell of the connection
LEMMA Serving ==
  ASSUME WebInv, NEW c \in Conns
  PROVE  /\ task[c]["in"] \in {"read", "full"} => Past(c)
         /\ pc[c] \in {"caps", "echo", "marking", "barrier", "drain", "open"} => Past(c)
         /\ pc[c] \in {"release", "close", "caps", "echo", "marking", "barrier", "drain", "open"} => guard[c] # {}
         /\ arrived[c] # NoTransfer => task[c]["in"] \in {"read", "full"}
         /\ \A b \in Conns : guard[b] # {} /\ guard[c] # {} => b = c
         /\ Past(c) => /\ guard[c] # {} /\ open \in {NoConn, c} /\ haltIn \in {NoConn, c}
                       /\ ctrl # <<>> => Head(ctrl).conn = c
<1>1. "in" \in Dirs /\ PageInv /\ CallersWait
  BY Names DEF WebInv, CallsInv
<1>2. task[c]["in"] \in {"read", "full"} => "in" \in guard[c] /\ ~Early(c)
  BY <1>1 DEF PageInv, Running
<1>3. pc[c] \in {"release", "close", "caps", "echo", "marking", "barrier", "drain", "open"} => guard[c] # {}
  BY <1>1 DEF PageInv, Running
<1>4. Past(c) /\ ctrl # <<>> => Head(ctrl).conn = c
  BY <1>1, CtrlRange DEF WebInv, DeviceInv, Cleared
<1> QED
  BY <1>1, <1>2, <1>3, <1>4 DEF WebInv, DataInv, Arriving, Past, Early, PageInv, OneUser, DeviceInv, Cleared

\* The ECHO that the device serves was asked for by a connect_with that waits
\* for its reply, or is over.
LEMMA EchoServed ==
  ASSUME WebInv, DevEcho
  PROVE  /\ ctrl # <<>> /\ Head(ctrl) \in InFlight /\ Head(ctrl).conn \in Conns /\ Head(ctrl).by = "connect"
         /\ \/ pc[Head(ctrl).conn] = "over"
            \/ /\ pc[Head(ctrl).conn] = "marking" /\ Head(ctrl).mark = tries[Head(ctrl).conn]
               /\ reply[Head(ctrl).conn]["connect"] = "none"
         /\ UNCHANGED <<pc, tries, task, queue, arrived, reads>>
         /\ \/ pipe' = pipe
            \/ /\ ~dsend /\ ~drecv /\ ~echoing
               /\ pipe' = Append(pipe, Piece(Head(ctrl).conn, Head(ctrl).mark, TRUE))
         /\ pc[Head(ctrl).conn] # "over" => reply'[Head(ctrl).conn]["connect"] # "none"
<1>1. ctrl # <<>> /\ Head(ctrl).kind = "ECHO" /\ ~echoing
  BY DEF DevEcho, Handles
<1>2. Head(ctrl) \in InFlight /\ Expected(Head(ctrl))
  BY <1>1, CtrlRange DEF WebInv, CallsInv, CallersWait
<1>3. Head(ctrl).conn \in Conns
  BY <1>2 DEF InFlight
<1>4. /\ Head(ctrl).by = "connect"
      /\ \/ pc[Head(ctrl).conn] = "over"
         \/ /\ pc[Head(ctrl).conn] = "marking" /\ Head(ctrl).mark = tries[Head(ctrl).conn]
            /\ reply[Head(ctrl).conn]["connect"] = "none"
  BY <1>1, <1>2 DEF Expected, Asked
<1>5. UNCHANGED <<pc, tries, task, queue, arrived, reads>>
  BY DEF DevEcho, Handles, connVars, taskVars, appVars
<1>6. \/ pipe' = pipe
      \/ /\ ~dsend /\ ~drecv
         /\ pipe' = Append(pipe, Piece(Head(ctrl).conn, Head(ctrl).mark, TRUE))
  BY DEF DevEcho
<1>7. pc[Head(ctrl).conn] # "over" => reply'[Head(ctrl).conn]["connect"] # "none"
  <2>1. PICK res \in {"ok", "err"} : Reply(Head(ctrl), res)
    BY DEF DevEcho
  <2>2. "connect" \in Holders /\ reply \in [Conns -> [Holders -> Replies]]
    BY Names DEF WebInv, PageInv, CallTypes
  <2>3. CASE pc[Head(ctrl).conn] # "over"
    <3>1. reply' = [reply EXCEPT ![Head(ctrl).conn]["connect"] = res]
      BY <1>4, <2>1, <2>3 DEF Reply
    <3>2. reply'[Head(ctrl).conn]["connect"] = res
      BY <1>3, <2>2, <3>1
    <3> QED BY <3>2
  <2> QED BY <2>3
<1> QED
  BY <1>1, <1>2, <1>3, <1>4, <1>5, <1>6, <1>7

\* The transfer that BusIn and BusStall serve, and what they do
LEMMA BusServed ==
  ASSUME WebInv, BusNext
  PROVE  /\ reads # <<>> /\ Head(reads) \in Reads /\ Head(reads) = reads[1] /\ Head(reads).conn \in Conns /\ Len(reads) = 1
         /\ Tail(reads) = <<>> /\ UNCHANGED <<pc, tries, task, queue, reply, rx>>
         /\ \A c \in Conns : Reading(c) <=> task[c]["in"] = "read" /\ arrived[c] = NoTransfer
         /\ \/ /\ reads' = Tail(reads) /\ pipe' = pipe /\ haltIn # NoConn
               /\ \A c \in Conns : arrived'[c] = IF c = Head(reads).conn /\ Reading(c)
                                                 THEN [kind |-> "halt", data |-> {}, conn |-> haltIn] ELSE arrived[c]
            \/ /\ pipe # <<>> /\ pipe' = Tail(pipe) /\ reads' = Tail(reads)
               /\ \A c \in Conns : arrived'[c] = IF c = Head(reads).conn /\ Reading(c)
                                                 THEN [kind |-> "data", conn |-> NoConn,
                                                       data |-> Head(reads).data \union {Head(pipe).content}]
                                                 ELSE arrived[c]
            \/ /\ pipe # <<>> /\ pipe' = Tail(pipe) /\ ~Head(pipe).short /\ arrived' = arrived
               /\ reads' = [reads EXCEPT ![1] = [conn |-> Head(reads).conn,
                                                 data |-> Head(reads).data \union {Head(pipe).content}]]
               /\ DOMAIN reads' = {1}
               /\ reads'[1] = [conn |-> Head(reads).conn, data |-> Head(reads).data \union {Head(pipe).content}]
<1>1. reads # <<>> /\ reads \in Seq(Reads) /\ Len(reads) <= 1
  BY DEF WebInv, DataInv, DataTypes, OneRead, BusNext, BusIn, BusStall
<1>2. Head(reads) \in Reads /\ Len(reads) = 1 /\ Head(reads) = reads[1] /\ Tail(reads) = <<>> /\ DOMAIN reads = {1}
  <2>1. Len(reads) = 1 /\ Head(reads) \in Reads /\ Head(reads) = reads[1]
    BY <1>1
  <2>2. DOMAIN reads = 1..Len(reads)
    BY <1>1
  <2>3. Tail(reads) \in Seq(Reads) /\ Len(Tail(reads)) = 0
    BY <1>1, <2>1
  <2>4. Tail(reads) = <<>>
    BY <2>3, EmptySeq
  <2>5. DOMAIN reads = {1}
    BY <2>1, <2>2
  <2> QED BY <2>1, <2>4, <2>5
<1>3. Head(reads).conn \in Conns
  BY <1>2 DEF Reads
<1>4. UNCHANGED <<pc, tries, task, queue, reply, rx>>
  BY DEF BusNext, BusIn, BusStall, connVars, appVars, usbVars
<1>5. arrived \in [Conns -> Transfers]
  BY DEF WebInv, DataInv, DataTypes
<1>6. ASSUME NEW t, Arrives(Head(reads).conn, t)
      PROVE  \A c \in Conns : arrived'[c] = IF c = Head(reads).conn /\ Reading(c) THEN t ELSE arrived[c]
  BY <1>3, <1>5, <1>6 DEF Arrives
<1>7. CASE BusStall
  <2>1. /\ reads' = Tail(reads) /\ pipe' = pipe /\ haltIn # NoConn
        /\ Arrives(Head(reads).conn, [kind |-> "halt", data |-> {}, conn |-> haltIn])
    BY <1>7 DEF BusStall, devVars, epVars
  <2> QED BY <1>1, <1>2, <1>3, <1>4, <1>6, <2>1 DEF Reading
<1>8. CASE BusIn
  <2> DEFINE data == Head(reads).data \union {Head(pipe).content}
  <2>1. pipe # <<>> /\ pipe' = Tail(pipe)
    BY <1>8 DEF BusIn
  <2>2. CASE reads' = Tail(reads) /\ Arrives(Head(reads).conn, [kind |-> "data", data |-> data, conn |-> NoConn])
    BY <1>1, <1>2, <1>3, <1>4, <1>6, <2>1, <2>2 DEF Reading
  <2>3. CASE ~Head(pipe).short /\ UNCHANGED arrived /\ reads' = [reads EXCEPT ![1].data = data]
    <3>1. Head(reads) = [conn |-> Head(reads).conn, data |-> Head(reads).data]
      BY <1>2 DEF Reads
    <3>2. [reads[1] EXCEPT !.data = data] = [conn |-> Head(reads).conn, data |-> data]
      <4>1. reads[1] \in Reads
        BY <1>2
      <4> HIDE DEF data
      <4>2. [reads[1] EXCEPT !.data = data] = [conn |-> reads[1].conn, data |-> data]
        BY <4>1 DEF Reads
      <4> QED BY <1>2, <4>2
    <3>3. reads' = [reads EXCEPT ![1] = [conn |-> Head(reads).conn, data |-> data]]
      BY <2>3, <3>2
    <3>4. DOMAIN reads' = {1} /\ reads'[1] = [conn |-> Head(reads).conn, data |-> data]
      BY <1>2, <3>3
    <3> QED BY <1>1, <1>2, <1>3, <1>4, <2>1, <2>3, <3>3, <3>4 DEF Reading
  <2> QED BY <1>8, <2>2, <2>3 DEF BusIn
<1> QED
  BY <1>7, <1>8 DEF BusNext

-----------------------------------------------------------------------------
(* Data                                                                    *)

\* The pieces of the pipe are of known contents.
LEMMA PieceRange ==
  /\ \A c \in Conns : \A k \in 0..EchoRetries : \A s \in BOOLEAN : Piece(c, k, s) \in Pieces
  /\ \A p \in Pieces : p.content \in Contents /\ p.short \in BOOLEAN
<1>1. ASSUME NEW p \in Pieces PROVE p.content \in Contents /\ p.short \in BOOLEAN
  <2>1. PICK c \in Conns, k \in 0..EchoRetries, s \in BOOLEAN : p = Piece(c, k, s)
    BY DEF Pieces
  <2> QED BY <2>1 DEF Piece, Content, Contents
<1>2. \A c \in Conns : \A k \in 0..EchoRetries : \A s \in BOOLEAN : Piece(c, k, s) \in Pieces
  BY DEF Pieces
<1> QED BY <1>1, <1>2

\* Data keeps its range.
LEMMA DataTypesKept ==
  ASSUME WebInv, Next
  PROVE  DataTypes'
<1> USE DEF connVars, taskVars, usbVars, devVars, sideVars, epVars
<1>t. DataTypes /\ DeviceTypes /\ 0 \in 0..EchoRetries
  BY WebAssumption DEF WebInv, DataInv, DeviceInv
<1>h. haltSeen' \in [Conns -> 0..MaxConns]
  <2>1. \/ haltSeen' = haltSeen
        \/ \E c \in Conns : haltSeen' = [haltSeen EXCEPT ![c] = arrived[c].conn]
        \/ \E c \in Conns : haltSeen' = [b \in Conns |-> IF b < c /\ guard[b] = {} THEN NoConn ELSE haltSeen[b]]
        \/ haltSeen' = [c \in Conns |-> NoConn]
    <3>1. ASSUME NEW c \in Conns, ConnectNext(c) \/ GiveUp(c) PROVE haltSeen' = haltSeen
      BY <3>1 DEF ConnectNext, Refused, GiveUp, Ends, ClaimInterface, QueryCaps, StartTasks, SendEcho, EchoSent,
         Discard, BarrierTimedOut, SendOpen, Opened
    <3>2. ASSUME NEW c \in Conns,
                 \/ InStops(c) \/ InWaits(c) \/ InQueues(c) \/ HalfNext(c, "in") \/ OutTask(c) \/ OutTakes(c)
                 \/ StatusNext(c) \/ DropSender(c) \/ DropReceiver(c) \/ Recv(c)
          PROVE  haltSeen' = haltSeen
      BY <3>2 DEF InStops, InWaits, InQueues, OutTask, OutTakes, OutStops, OutSent, OutFails, HalfNext, HalfClose,
         HalfClosed, ReleaseInterface, Returns, StatusNext, PollStatus, StatusAnswered, StatusFailed, StatusEnds,
         DropSender, DropReceiver, Recv
    <3>3. ASSUME DeviceNext \/ BusNext \/ RequestFails \/ Unplug PROVE haltSeen' = haltSeen
      BY <3>3 DEF DeviceNext, Serve, DevClose, DevOpen, DevCaps, DevEcho, DevCloseSend, DevCloseRecv, DevStatus,
         Handles, DevEchoFlushed, DevSends, DevEndsSend, DevEndsRecv, DevTimesOut, BusNext, BusIn, BusStall,
         RequestFails, Unplug, hostSide
    <3>4. ASSUME NEW c \in Conns, TakeGuard(c)
          PROVE  haltSeen' = [b \in Conns |-> IF b < c /\ guard[b] = {} THEN NoConn ELSE haltSeen[b]]
      BY <3>4 DEF TakeGuard
    <3>5. ASSUME NEW c \in Conns, InFails(c) PROVE haltSeen' = [haltSeen EXCEPT ![c] = arrived[c].conn]
      BY <3>5 DEF InFails
    <3>6. ASSUME PageKilled PROVE haltSeen' = [c \in Conns |-> NoConn]
      BY <3>6 DEF PageKilled
    <3> QED BY <3>1, <3>2, <3>3, <3>4, <3>5, <3>6 DEF Next, InTask, AppNext
  <2>2. \A c \in Conns : arrived[c].conn \in 0..MaxConns
    BY <1>t DEF DataTypes, Transfers
  <2>3. NoConn \in 0..MaxConns
    BY WebAssumption DEF NoConn
  <2> QED BY <1>t, <2>1, <2>2, <2>3 DEF DataTypes
<1>1. CASE Shrinks
  <2>1. reads' \in Seq(Reads) /\ pipe' \in Seq(Pieces)
    <3>1. reads \in Seq(Reads) /\ pipe \in Seq(Pieces)
      BY <1>t DEF DataTypes
    <3>2. reads' = reads \/ reads' = <<>>
      BY <1>1 DEF Shrinks
    <3>3. pipe' = pipe \/ pipe' = <<>>
      BY <1>1 DEF Shrinks
    <3>4. reads' \in Seq(Reads)
      <4>1. <<>> \in Seq(Reads)
        OBVIOUS
      <4> QED BY <3>1, <3>2, <4>1, Zenon
    <3>5. pipe' \in Seq(Pieces)
      <4>1. <<>> \in Seq(Pieces)
        OBVIOUS
      <4> QED BY <3>1, <3>3, <4>1, Zenon
    <3> QED BY <3>4, <3>5
  <2> QED BY <1>1, <1>h, <2>1 DEF DataTypes, Shrinks
<1>2. ASSUME NEW c \in Conns, StartTasks(c) \/ InQueues(c) PROVE DataTypes'
  <2> DEFINE x == [conn |-> c, data |-> {}]
  <2>1. x \in Reads
    BY DEF Reads
  <2>2. reads' = Append(reads, x) /\ pipe' = pipe
    BY <1>2 DEF StartTasks, InQueues
  <2>3. arrived' = arrived \/ arrived' = [arrived EXCEPT ![c] = NoTransfer]
    BY <1>2 DEF StartTasks, InQueues
  <2>4. queue' = queue \/ queue' = [queue EXCEPT ![c] = Append(queue[c], arrived[c].data)]
    BY <1>2 DEF StartTasks, InQueues
  <2> HIDE DEF x
  <2>5. reads' \in Seq(Reads) /\ pipe' \in Seq(Pieces)
    BY <1>t, <2>1, <2>2 DEF DataTypes
  <2>6. arrived' \in [Conns -> Transfers]
    <3>1. NoTransfer \in Transfers
      BY WebAssumption DEF NoTransfer, Transfers, NoConn
    <3> QED BY <1>t, <2>3, <3>1 DEF DataTypes
  <2>7. queue' \in [Conns -> Seq(SUBSET Contents)]
    <3>1. Append(queue[c], arrived[c].data) \in Seq(SUBSET Contents)
      <4>1. queue[c] \in Seq(SUBSET Contents) /\ arrived[c] \in Transfers
        BY <1>t DEF DataTypes
      <4>2. arrived[c].data \in SUBSET Contents
        BY <4>1 DEF Transfers
      <4> QED BY <4>1, <4>2
    <3> QED BY <1>t, <2>4, <3>1 DEF DataTypes
  <2> QED BY <1>h, <2>5, <2>6, <2>7 DEF DataTypes
<1>3. CASE DevSends \/ DevEcho
  <2>1. UNCHANGED <<arrived, queue, reads>>
    BY <1>3 DEF DevSends, DevEcho, Handles, hostSide, appVars
  <2>2. pipe' = pipe \/ \E p \in Pieces : pipe' = Append(pipe, p)
    <3>1. CASE DevSends
      <4>1. open \in Conns
        BY <3>1, Names DEF DevSends, WebInv, DeviceInv, Opening, DeviceTypes
      <4>2. PICK s \in BOOLEAN : pipe' = Append(pipe, Piece(open, 0, s))
        BY <3>1 DEF DevSends
      <4>3. Piece(open, 0, s) \in Pieces
        BY <1>t, <4>1, PieceRange
      <4> QED BY <4>2, <4>3
    <3>2. CASE DevEcho
      <4>1. Head(ctrl).conn \in Conns /\ Head(ctrl).mark \in 0..EchoRetries
        BY <3>2, EchoServed DEF InFlight
      <4>2. Piece(Head(ctrl).conn, Head(ctrl).mark, TRUE) \in Pieces
        BY <4>1, PieceRange
      <4> QED BY <3>2, <4>2, EchoServed
    <3> QED BY <1>3, <3>1, <3>2
  <2>3. pipe' \in Seq(Pieces)
    <3>1. pipe \in Seq(Pieces)
      BY <1>t DEF DataTypes
    <3>2. ASSUME NEW p \in Pieces, pipe' = Append(pipe, p) PROVE pipe' \in Seq(Pieces)
      BY <3>1, <3>2
    <3> QED BY <2>2, <3>1, <3>2
  <2> QED BY <1>t, <1>h, <2>1, <2>3 DEF DataTypes
<1>4. CASE BusNext
  <2>1. pipe' \in Seq(Pieces) /\ queue' = queue
    <3>1. pipe \in Seq(Pieces) /\ queue' = queue
      BY <1>t, <1>4, BusServed DEF DataTypes
    <3>2. pipe' = pipe \/ (pipe # <<>> /\ pipe' = Tail(pipe))
      BY <1>4, BusServed
    <3> QED BY <3>1, <3>2
  <2>2. pipe # <<>> => Head(pipe).content \in Contents
    <3>1. pipe # <<>> => Head(pipe) \in Pieces
      BY <1>t DEF DataTypes
    <3> QED BY <3>1, PieceRange
  <2>3. Head(reads) \in Reads
    BY <1>4, BusServed
  <2> DEFINE data == Head(reads).data \union {Head(pipe).content}
  <2>4. pipe # <<>> => [conn |-> Head(reads).conn, data |-> data] \in Reads
    BY <2>2, <2>3 DEF Reads
  <2>5. reads' \in Seq(Reads)
    <3>1. reads' = Tail(reads) \/ (pipe # <<>> /\ reads' = [reads EXCEPT ![1] = [conn |-> Head(reads).conn, data |-> data]])
      BY <1>4, BusServed
    <3>2. reads # <<>> /\ reads \in Seq(Reads)
      BY <1>t, <1>4, BusServed DEF DataTypes
    <3> HIDE DEF data
    <3> QED BY <2>4, <3>1, <3>2, SMTT(40)
  <2>6. arrived' \in [Conns -> Transfers]
    <3>1. arrived' = arrived \/ \E t \in Transfers : \E c \in Conns : arrived' = [arrived EXCEPT ![c] = t]
      <4>1. CASE BusIn
        <5>1. [kind |-> "data", data |-> data, conn |-> NoConn] \in Transfers
          BY <2>2, <2>3, <4>1, WebAssumption DEF Transfers, Reads, NoConn, BusIn
        <5>2. Head(reads).conn \in Conns
          BY <2>3 DEF Reads
        <5>3. UNCHANGED arrived \/ Arrives(Head(reads).conn, [kind |-> "data", data |-> data, conn |-> NoConn])
          BY <4>1 DEF BusIn
        <5> HIDE DEF data
        <5> QED BY <5>1, <5>2, <5>3 DEF Arrives
      <4>2. CASE BusStall
        <5>1. [kind |-> "halt", data |-> {}, conn |-> haltIn] \in Transfers
          BY <1>t DEF Transfers, DeviceTypes
        <5>2. Head(reads).conn \in Conns
          BY <2>3 DEF Reads
        <5>3. Arrives(Head(reads).conn, [kind |-> "halt", data |-> {}, conn |-> haltIn])
          BY <4>2 DEF BusStall
        <5> QED BY <5>1, <5>2, <5>3 DEF Arrives
      <4> QED BY <1>4, <4>1, <4>2 DEF BusNext
    <3> QED BY <1>t, <3>1 DEF DataTypes
  <2> QED BY <1>t, <1>h, <2>1, <2>5, <2>6 DEF DataTypes
<1> QED
  BY <1>1, <1>2, <1>3, <1>4, ShrinksOrGrows DEF Grows

\* Queue and pipe keep their bounds: the marker is the only piece that may
\* exceed the one of the pipe.
LEMMA BoundedKept ==
  ASSUME WebInv, Next
  PROVE  Bounded'
<1> USE DEF connVars, taskVars, usbVars, devVars, sideVars, epVars
<1>t. /\ Bounded /\ pipe \in Seq(Pieces) /\ \A c \in Conns : queue[c] \in Seq(SUBSET Contents)
      /\ queue \in [Conns -> Seq(SUBSET Contents)]
      /\ MaxPipe \in Nat /\ QueueLen \in Nat /\ Len(pipe) \in Nat
  BY WebAssumption DEF WebInv, DataInv, DataTypes
<1>e. ~echoing' => ~echoing \/ pipe' = <<>>
  <2>1. ASSUME NEW c \in Conns, ConnectNext(c) \/ InTask(c) \/ OutTask(c) \/ StatusNext(c) \/ AppNext(c)
        PROVE  echoing' = echoing
    BY <2>1, PageSteps
  <2>2. ASSUME DeviceNext, ~DevEcho, ~DevEchoFlushed PROVE echoing' = echoing
    BY <2>2 DEF DeviceNext, Serve, DevClose, DevOpen, DevCaps, DevCloseSend, DevCloseRecv, DevStatus,
       DevSends, DevEndsSend, DevEndsRecv, DevTimesOut
  <2>3. ASSUME DevEcho PROVE ~echoing
    BY <2>3 DEF DevEcho, Handles
  <2>4. ASSUME DevEchoFlushed PROVE pipe' = <<>>
    BY <2>4 DEF DevEchoFlushed
  <2>5. ASSUME BusNext \/ RequestFails \/ PageKilled PROVE echoing' = echoing
    BY <2>5 DEF BusNext, BusIn, BusStall, RequestFails, PageKilled
  <2>6. ASSUME Unplug PROVE pipe' = <<>>
    BY <2>6 DEF Unplug
  <2> QED BY <2>1, <2>2, <2>3, <2>4, <2>5, <2>6 DEF Next
<1>s. ASSUME Len(pipe') \in Nat, Len(pipe') <= Len(pipe)
      PROVE  Len(pipe') <= MaxPipe + 1 /\ (~echoing' => Len(pipe') <= MaxPipe)
  <2>1. CASE pipe' = <<>>
    <3>1. Len(pipe') = 0
      BY <2>1
    <3> QED BY <1>t, <3>1
  <2>2. CASE pipe' # <<>>
    BY <1>e, <1>s, <1>t, <2>2 DEF Bounded
  <2> QED BY <2>1, <2>2
<1>1. CASE Shrinks
  <2>1. ASSUME NEW c \in Conns PROVE Len(queue'[c]) <= QueueLen
    <3>1. queue[c] \in Seq(SUBSET Contents) /\ Len(queue[c]) <= QueueLen
      BY <1>t DEF Bounded
    <3>2. CASE queue'[c] = queue[c]
      BY <3>1, <3>2
    <3>3. CASE queue'[c] = <<>>
      <4>1. Len(queue'[c]) = 0
        BY <3>3
      <4> QED BY <1>t, <4>1
    <3>4. CASE queue[c] # <<>> /\ queue'[c] = Tail(queue[c])
      <4>1. Len(queue'[c]) = Len(queue[c]) - 1 /\ Len(queue[c]) \in Nat
        BY <3>1, <3>4
      <4> QED BY <1>t, <3>1, <4>1
    <3> QED BY <1>1, <3>2, <3>3, <3>4 DEF Shrinks
  <2>2. Len(pipe') \in Nat /\ Len(pipe') <= Len(pipe)
    <3>1. CASE pipe' = pipe
      BY <1>t, <3>1
    <3>2. CASE pipe' = <<>>
      <4>1. Len(pipe') = 0
        BY <3>2
      <4> QED BY <1>t, <4>1
    <3> QED BY <1>1, <3>1, <3>2 DEF Shrinks
  <2> QED BY <1>s, <2>1, <2>2 DEF Bounded
<1>2. ASSUME NEW c \in Conns, StartTasks(c) \/ InQueues(c) PROVE Bounded'
  <2>1. pipe' = pipe
    BY <1>2, PageSteps DEF ConnectNext, InTask
  <2>2. ASSUME NEW b \in Conns PROVE Len(queue'[b]) <= QueueLen
    <3>1. CASE StartTasks(c)
      BY <1>t, <3>1 DEF StartTasks, Bounded
    <3>2. CASE InQueues(c)
      <4>1. queue' = [queue EXCEPT ![c] = Append(queue[c], arrived[c].data)] /\ Len(queue[c]) < QueueLen
        BY <3>2 DEF InQueues, MayQueue
      <4>2. Len(Append(queue[c], arrived[c].data)) = Len(queue[c]) + 1 /\ Len(queue[c]) \in Nat
        BY <1>t
      <4>3. CASE b = c
        <5>1. queue'[b] = Append(queue[c], arrived[c].data)
          BY <1>t, <4>1, <4>3
        <5> QED BY <1>t, <4>1, <4>2, <5>1
      <4>4. CASE b # c
        BY <1>t, <4>1, <4>4 DEF Bounded
      <4> QED BY <4>3, <4>4
    <3> QED BY <1>2, <3>1, <3>2
  <2> QED BY <1>s, <1>t, <2>1, <2>2 DEF Bounded
<1>3. CASE DevSends
  <2>1. queue' = queue /\ echoing' = echoing /\ Len(pipe) < MaxPipe
    BY <1>3 DEF DevSends, hostSide, appVars
  <2>2. Len(pipe') = Len(pipe) + 1
    BY <1>3, <1>t DEF DevSends
  <2> QED BY <1>t, <2>1, <2>2 DEF Bounded
<1>4. CASE DevEcho
  <2>1. queue' = queue
    BY <1>4, EchoServed
  <2>2. CASE pipe' = pipe
    BY <1>s, <1>t, <2>1, <2>2 DEF Bounded
  <2>3. CASE pipe' # pipe
    <3>1. ~echoing /\ pipe' = Append(pipe, Piece(Head(ctrl).conn, Head(ctrl).mark, TRUE))
      BY <1>4, <2>3, EchoServed
    <3>2. echoing' = TRUE
      BY <1>4, <2>3 DEF DevEcho
    <3>3. Len(pipe') = Len(pipe) + 1 /\ Len(pipe) <= MaxPipe
      BY <1>t, <3>1 DEF Bounded
    <3> QED BY <1>t, <2>1, <3>2, <3>3 DEF Bounded
  <2> QED BY <2>2, <2>3
<1>5. CASE BusNext
  <2>1. queue' = queue /\ (pipe' = pipe \/ (pipe # <<>> /\ pipe' = Tail(pipe)))
    BY <1>5, BusServed
  <2>2. Len(pipe') \in Nat /\ Len(pipe') <= Len(pipe)
    <3>1. CASE pipe' = pipe
      BY <1>t, <3>1
    <3>2. CASE pipe # <<>> /\ pipe' = Tail(pipe)
      BY <1>t, <3>2
    <3> QED BY <2>1, <3>1, <3>2
  <2> QED BY <1>s, <1>t, <2>1, <2>2 DEF Bounded
<1> QED
  BY <1>1, <1>2, <1>3, <1>4, <1>5, ShrinksOrGrows DEF Grows

\* A transfer is submitted only when no other one is, and nothing waits for in_task.
LEMMA OneReadKept ==
  ASSUME WebInv, Next
  PROVE  OneRead'
<1> USE DEF connVars, taskVars, usbVars
<1>t. /\ PageInv /\ CallTypes /\ OneRead /\ reads \in Seq(Reads) /\ arrived \in [Conns -> Transfers]
      /\ "in" \in Dirs /\ queue \in [Conns -> Seq(SUBSET Contents)]
      /\ \A c \in Conns : Early(c) => task[c]["in"] = "off"
  BY Names DEF WebInv, PageInv, Running, DataInv, DataTypes
<1>p. ASSUME NEW c \in Conns, pc'[c] \in {"release", "close", "caps"}
      PROVE  pc[c] \in {"release", "close", "caps"} \/ reads' = <<>>
  <2>1. ~SendEcho(c) /\ ~SendOpen(c) /\ ~StartTasks(c)
    BY <1>p, <1>t DEF SendEcho, SendOpen, StartTasks, CallTypes
  <2>2. TakeGuard(c) => reads' = <<>>
    BY DEF TakeGuard, Release
  <2> QED BY <1>p, <2>1, <2>2, CallMoves
<1>1. CASE Shrinks
  <2>1. CASE reads' = <<>>
    <3>1. Len(reads') = 0
      BY <2>1
    <3> QED BY <2>1, <3>1 DEF OneRead
  <2>2. CASE reads' # <<>>
    <3>1. reads' = reads
      BY <1>1, <2>2 DEF Shrinks
    <3>2. ASSUME NEW c \in Conns, arrived'[c] # NoTransfer PROVE arrived[c] # NoTransfer
      BY <1>1, <2>2, <3>2 DEF Shrinks
    <3> QED BY <1>p, <1>t, <2>2, <3>1, <3>2 DEF OneRead
  <2> QED BY <2>1, <2>2
<1>2. ASSUME NEW c \in Conns, StartTasks(c) \/ InQueues(c) PROVE OneRead'
  <2>1. guard[c] # {} /\ reads = <<>>
    <3>1. CASE StartTasks(c)
      BY <1>t, <3>1, Serving DEF StartTasks, OneRead
    <3>2. CASE InQueues(c)
      <4>1. arrived[c] # NoTransfer
        BY <3>2 DEF InQueues, NoTransfer
      <4> QED BY <1>t, <4>1, Serving DEF OneRead
    <3> QED BY <1>2, <3>1, <3>2
  <2>2. Len(reads') = 1 /\ reads' # <<>>
    BY <1>2, <2>1 DEF StartTasks, InQueues
  <2>3. ASSUME NEW b \in Conns, pc'[b] \in {"release", "close", "caps"} PROVE FALSE
    <3>1. pc[b] \in {"release", "close", "caps"}
      BY <1>p, <2>2, <2>3
    <3>2. b = c
      BY <2>1, <3>1, Serving
    <3>3. ~StartTasks(c)
      BY <1>t, <2>3, <3>2 DEF StartTasks, CallTypes
    <3>4. task[c]["in"] \in {"read", "full"}
      BY <1>2, <3>3 DEF InQueues
    <3> QED BY <1>t, <3>1, <3>2, <3>4 DEF Early
  <2>4. ASSUME NEW b \in Conns PROVE arrived'[b] = NoTransfer
    <3>1. CASE StartTasks(c)
      <4>1. arrived' = arrived
        BY <3>1 DEF StartTasks
      <4>2. arrived[b] # NoTransfer => b = c
        BY <2>1, Serving
      <4>3. task[c]["in"] = "off"
        BY <1>t, <3>1 DEF StartTasks, Early
      <4> QED BY <4>1, <4>2, <4>3, Serving
    <3>2. CASE InQueues(c)
      <4>1. arrived[b] # NoTransfer => b = c
        BY <2>1, Serving
      <4> QED BY <1>t, <3>2, <4>1 DEF InQueues
    <3> QED BY <1>2, <3>1, <3>2
  <2> QED BY <2>2, <2>3, <2>4 DEF OneRead
<1>3. CASE DevSends \/ DevEcho
  <2>1. UNCHANGED <<pc, arrived, reads>>
    BY <1>3, EchoServed DEF DevSends, hostSide
  <2> QED BY <1>t, <2>1 DEF OneRead
<1>4. CASE BusNext
  <2>1. CASE reads' = Tail(reads)
    <3>1. reads' = <<>> /\ Len(reads') = 0
      BY <1>4, <2>1, BusServed
    <3> QED BY <3>1 DEF OneRead
  <2>2. CASE reads' # Tail(reads)
    <3>1. UNCHANGED <<pc, arrived>> /\ reads # <<>>
      BY <1>4, <2>2, BusServed
    <3>2. \E r : reads' = [reads EXCEPT ![1] = r]
      BY <1>4, <2>2, BusServed
    <3>3. Len(reads') = Len(reads)
      BY <1>t, <3>2
    <3> QED BY <1>t, <3>1, <3>3 DEF OneRead
  <2> QED BY <2>1, <2>2
<1> QED
  BY <1>1, <1>2, <1>3, <1>4, ShrinksOrGrows DEF Grows

\* A result arrives for an in_task that waits for it, and a halt only after the
\* device ended this connection's stream.
LEMMA ArrivingKept ==
  ASSUME WebInv, Next
  PROVE  Arriving'
<1>t. /\ PageInv /\ Arriving /\ arrived \in [Conns -> Transfers] /\ "in" \in Dirs
      /\ \A c \in Conns : Early(c) => task[c]["in"] = "off"
  BY Names DEF WebInv, PageInv, Running, DataInv, DataTypes
<1>f. /\ Failure.kind = "err" /\ Failure.data = {} /\ NoTransfer.kind = "none" /\ NoTransfer.data = {}
  BY DEF Failure, NoTransfer
<1>1. ASSUME NEW c \in Conns
      PROVE  \/ arrived'[c] \in {arrived[c], NoTransfer}
             \/ /\ Reading(c)
                /\ \/ arrived'[c].kind = "data" /\ arrived'[c].data # {}
                   \/ arrived'[c].kind = "err" /\ arrived'[c].data = {}
                   \/ arrived'[c].kind = "halt" /\ arrived'[c].data = {} /\ arrived'[c].conn = c
  <2>1. CASE Shrinks
    BY <1>f, <2>1 DEF Shrinks
  <2>2. ASSUME NEW b \in Conns, StartTasks(b) \/ InQueues(b) PROVE arrived'[c] \in {arrived[c], NoTransfer}
    <3>1. arrived' = arrived \/ arrived' = [arrived EXCEPT ![b] = NoTransfer]
      BY <2>2 DEF StartTasks, InQueues, taskVars
    <3> QED BY <1>t, <3>1
  <2>3. CASE DevSends \/ DevEcho
    <3>1. arrived' = arrived
      BY <2>3, EchoServed DEF DevSends, hostSide, taskVars
    <3> QED BY <3>1
  <2>4. CASE BusNext
    <3>1. CASE haltIn # NoConn /\ arrived'[c] = [kind |-> "halt", data |-> {}, conn |-> haltIn] /\ Reading(c)
      <4>1. haltIn = c
        BY <3>1, Serving DEF Reading
      <4> QED BY <3>1, <4>1
    <3>2. CASE /\ Reading(c)
               /\ arrived'[c] = [kind |-> "data", conn |-> NoConn, data |-> Head(reads).data \union {Head(pipe).content}]
      BY <3>2
    <3>3. CASE arrived'[c] = arrived[c]
      BY <3>3
    <3>4. \/ arrived'[c] = arrived[c]
          \/ haltIn # NoConn /\ arrived'[c] = [kind |-> "halt", data |-> {}, conn |-> haltIn] /\ Reading(c)
          \/ /\ Reading(c)
             /\ arrived'[c] = [kind |-> "data", conn |-> NoConn, data |-> Head(reads).data \union {Head(pipe).content}]
      BY <2>4, BusServed
    <3> QED BY <3>1, <3>2, <3>3, <3>4
  <2> QED BY <2>1, <2>2, <2>3, <2>4, ShrinksOrGrows DEF Grows
<1>2. ASSUME NEW c \in Conns, arrived'[c] # NoTransfer PROVE task'[c]["in"] \in {"read", "full"}
  <2>1. task[c]["in"] \in {"read", "full"}
    BY <1>1, <1>2, <1>t DEF Arriving, Reading
  <2>2. ~StartTasks(c)
    BY <1>t, <2>1 DEF StartTasks, Early
  <2> QED BY <1>2, <2>1, <2>2, InMoves DEF Stopped
<1>3. ASSUME NEW c \in Conns
      PROVE  /\ arrived'[c].kind = "data" => arrived'[c].data # {}
             /\ arrived'[c].kind # "data" => arrived'[c].data = {}
             /\ arrived'[c].kind = "halt" => arrived'[c].conn = c
  BY <1>1, <1>f, <1>t DEF Arriving
<1> QED
  BY <1>2, <1>3 DEF Arriving

\* How a step changes what a connection has to report
LEMMA ReportMoves ==
  ASSUME WebInv, Next, NEW c \in Conns
  PROVE  /\ \/ /\ error[c] => error'[c]
               /\ dead'[c] => dead[c] \/ error'[c]
               /\ haltSeen'[c] = haltSeen[c] \/ InFails(c)
            \/ ~dead'[c] /\ ~rx'[c]
         /\ rx'[c] => rx[c] \/ StartTasks(c)
<1> USE DEF connVars, taskVars, statVars, appVars
<1>t. /\ PageInv /\ FlagTypes /\ haltSeen \in [Conns -> 0..MaxConns]
      /\ dead \in [Conns -> BOOLEAN] /\ error \in [Conns -> BOOLEAN] /\ rx \in [Conns -> BOOLEAN]
  BY DEF WebInv, PageInv, FlagTypes, DataInv, DataTypes
<1> DEFINE Same == UNCHANGED <<error, dead, haltSeen, rx>>
<1>1. ASSUME NEW b \in Conns, ConnectNext(b) \/ GiveUp(b)
      PROVE  UNCHANGED <<error, dead, haltSeen>> /\ (rx'[c] => rx[c] \/ StartTasks(c))
  <2>1. UNCHANGED <<error, dead, haltSeen>>
    BY <1>1 DEF ConnectNext, Refused, GiveUp, Ends, ClaimInterface, QueryCaps, StartTasks, SendEcho, EchoSent,
       Discard, BarrierTimedOut, SendOpen, Opened
  <2>2. CASE StartTasks(b)
    <3>1. rx' = [rx EXCEPT ![b] = TRUE]
      BY <2>2 DEF StartTasks
    <3> QED BY <1>t, <2>1, <2>2, <3>1
  <2>3. CASE ~StartTasks(b)
    <3>1. rx' = rx \/ rx' = [rx EXCEPT ![b] = FALSE]
      BY <1>1, <2>3 DEF ConnectNext, Refused, GiveUp, Ends, ClaimInterface, QueryCaps, SendEcho, EchoSent,
         Discard, BarrierTimedOut, SendOpen, Opened
    <3> QED BY <1>t, <2>1, <3>1
  <2> QED BY <2>2, <2>3
<1>2. ASSUME NEW b \in Conns, NEW d \in Dirs,
             InStops(b) \/ InWaits(b) \/ InQueues(b) \/ HalfNext(b, d) \/ OutTakes(b) \/ OutStops(b) \/ OutSent(b)
      PROVE  Same
  BY <1>2 DEF InStops, InWaits, InQueues, OutTakes, OutStops, OutSent, HalfNext, HalfClose, HalfClosed,
     ReleaseInterface, Returns
<1>3. ASSUME NEW b \in Conns, PollStatus(b) \/ StatusAnswered(b) \/ StatusEnds(b) \/ DropSender(b) \/ Recv(b) PROVE Same
  BY <1>3 DEF PollStatus, StatusAnswered, StatusEnds, DropSender, Recv
<1>4. ASSUME DeviceNext \/ BusNext \/ RequestFails \/ Unplug PROVE Same
  BY <1>4 DEF DeviceNext, Serve, DevClose, DevOpen, DevCaps, DevEcho, DevCloseSend, DevCloseRecv, DevStatus,
     Handles, DevEchoFlushed, DevSends, DevEndsSend, DevEndsRecv, DevTimesOut, BusNext, BusIn, BusStall,
     RequestFails, Unplug, hostSide
<1>5. ASSUME NEW b \in Conns, InFails(b)
      PROVE  /\ error[c] => error'[c]
             /\ UNCHANGED <<dead, rx>> /\ (haltSeen'[c] = haltSeen[c] \/ InFails(c))
  <2>1. /\ error' = [error EXCEPT ![b] = error[b] \/ arrived[b].kind = "err"]
        /\ haltSeen' = [haltSeen EXCEPT ![b] = arrived[b].conn]
        /\ UNCHANGED <<dead, rx>>
    BY <1>5 DEF InFails
  <2>2. error[c] => error'[c]
    BY <1>t, <2>1
  <2>3. haltSeen'[c] = haltSeen[c] \/ b = c
    BY <1>t, <2>1
  <2> QED BY <1>5, <2>1, <2>2, <2>3
<1>6. ASSUME NEW b \in Conns, OutFails(b)
      PROVE  (error[c] => error'[c]) /\ UNCHANGED <<dead, rx, haltSeen>>
  <2>1. (error' = error \/ error' = [error EXCEPT ![b] = TRUE]) /\ UNCHANGED <<dead, rx, haltSeen>>
    BY <1>6 DEF OutFails
  <2> QED BY <1>t, <2>1
<1>7. ASSUME NEW b \in Conns, StatusFailed(b)
      PROVE  (error[c] => error'[c]) /\ (dead'[c] => dead[c] \/ error'[c]) /\ UNCHANGED <<rx, haltSeen>>
  <2>1. /\ error' = [error EXCEPT ![b] = TRUE] /\ dead' = [dead EXCEPT ![b] = TRUE]
        /\ UNCHANGED <<rx, haltSeen>>
    BY <1>7 DEF StatusFailed, StoredWithDead
  <2> QED BY <1>t, <2>1
<1>8. ASSUME NEW b \in Conns, DropReceiver(b)
      PROVE  UNCHANGED <<error, dead, haltSeen>> /\ (rx'[c] => rx[c])
  <2>1. rx' = [rx EXCEPT ![b] = FALSE] /\ UNCHANGED <<error, dead, haltSeen>>
    BY <1>8 DEF DropReceiver
  <2> QED BY <1>t, <2>1
<1>9. ASSUME NEW b \in Conns, TakeGuard(b)
      PROVE  rx' = rx /\ ((error'[c] = error[c] /\ dead'[c] = dead[c] /\ haltSeen'[c] = haltSeen[c])
                            \/ (~dead'[c] /\ ~rx'[c]))
  <2>0. rx' = rx
    BY <1>9 DEF TakeGuard
  <2>1. CASE c < b /\ guard[c] = {}
    <3>1. b \in Nat /\ c \in Nat /\ c > 0
      BY Names
    <3>2. c \in 1..(b - 1)
      BY <2>1, <3>1
    <3>3. ~rx[c]
      BY <1>9, <2>1, <3>2 DEF TakeGuard
    <3>4. ~dead'[c]
      BY <1>9, <2>1 DEF TakeGuard
    <3> QED BY <2>0, <3>3, <3>4
  <2>2. CASE ~(c < b /\ guard[c] = {})
    <3>1. /\ error'[c] = (error[c] /\ ~(c < b /\ guard[c] = {})) /\ dead'[c] = (dead[c] /\ ~(c < b /\ guard[c] = {}))
          /\ haltSeen'[c] = haltSeen[c]
      BY <1>9, <2>2 DEF TakeGuard
    <3> QED BY <1>t, <2>0, <2>2, <3>1
  <2> QED BY <2>1, <2>2
<1>10. ASSUME PageKilled PROVE ~dead'[c] /\ ~rx'[c]
  BY <1>10 DEF PageKilled
<1>11. "in" \in Dirs /\ "out" \in Dirs
  BY Names
<1> QED
  BY <1>1, <1>2, <1>3, <1>4, <1>5, <1>6, <1>7, <1>8, <1>9, <1>10, <1>11
  DEF Next, InTask, OutTask, StatusNext, AppNext

\* in_task ends with a reason, unless nobody receives.
LEMMA ReportedKept ==
  ASSUME WebInv, Next
  PROVE  Reported'
<1>t. /\ Reported /\ TaskTypes /\ Arriving /\ "in" \in Dirs
      /\ arrived \in [Conns -> Transfers] /\ error \in [Conns -> BOOLEAN] /\ haltSeen \in [Conns -> 0..MaxConns]
  BY Names DEF WebInv, PageInv, FlagTypes, DataInv, DataTypes
<1>1. ASSUME NEW c \in Conns, dead'[c] PROVE error'[c]
  BY <1>1, <1>t, ReportMoves DEF Reported
<1>2. ASSUME NEW c \in Conns, Stopped(c)', rx'[c] PROVE error'[c] \/ haltSeen'[c] = c
  <2>1. ~StartTasks(c)
    BY <1>t, <1>2 DEF StartTasks, Stopped, TaskTypes
  <2>2. rx[c] /\ (error[c] => error'[c]) /\ (haltSeen'[c] = haltSeen[c] \/ InFails(c))
    BY <1>2, <2>1, ReportMoves
  <2>3. CASE Stopped(c)
    <3>1. ~InFails(c)
      BY <2>3 DEF InFails, Stopped
    <3> QED BY <1>t, <2>2, <2>3, <3>1 DEF Reported
  <2>4. CASE InStops(c)
    BY <1>t, <2>2, <2>4 DEF InStops, Reported
  <2>5. CASE InFails(c)
    <3>1. CASE arrived[c].kind = "err"
      BY <1>t, <2>5, <3>1 DEF InFails
    <3>2. CASE arrived[c].kind = "halt"
      BY <1>t, <2>5, <3>2 DEF InFails, Arriving
    <3> QED BY <2>5, <3>1, <3>2 DEF InFails
  <2> QED BY <1>2, <2>1, <2>3, <2>4, <2>5, InMoves DEF Stopped
<1> QED
  BY <1>1, <1>2 DEF Reported

\* The items of a sequence that loses its first one, or gains a last one
LEMMA Items ==
  ASSUME NEW S, NEW s \in Seq(S), NEW t
  PROVE  /\ t \in {s, <<>>} \/ (s # <<>> /\ t = Tail(s)) => \A i \in DOMAIN t : \E j \in DOMAIN s : t[i] = s[j]
         /\ \A x \in S : t = Append(s, x) =>
              \A i \in DOMAIN t : (i \in DOMAIN s /\ t[i] = s[i]) \/ (i = Len(t) /\ t[i] = x)
         /\ s # <<>> => 1 \in DOMAIN s /\ Head(s) = s[1] /\ Tail(s) \in Seq(S) /\ Len(Tail(s)) = Len(s) - 1
         /\ s # <<>> => \A i \in DOMAIN Tail(s) : i + 1 \in DOMAIN s /\ Tail(s)[i] = s[i + 1]
<1>1. ASSUME s # <<>>
      PROVE  /\ 1 \in DOMAIN s /\ Head(s) = s[1] /\ Tail(s) \in Seq(S) /\ Len(Tail(s)) = Len(s) - 1
             /\ \A i \in DOMAIN Tail(s) : i + 1 \in DOMAIN s /\ Tail(s)[i] = s[i + 1]
  BY <1>1
<1>2. ASSUME t \in {s, <<>>} \/ (s # <<>> /\ t = Tail(s)), NEW i \in DOMAIN t
      PROVE  \E j \in DOMAIN s : t[i] = s[j]
  <2>1. CASE t = s
    BY <1>2, <2>1
  <2>2. CASE t = <<>>
    BY <1>2, <2>2
  <2>3. CASE s # <<>> /\ t = Tail(s)
    BY <1>1, <1>2, <2>3
  <2> QED BY <1>2, <2>1, <2>2, <2>3
<1>3. ASSUME NEW x \in S, t = Append(s, x), NEW i \in DOMAIN t
      PROVE  (i \in DOMAIN s /\ t[i] = s[i]) \/ (i = Len(t) /\ t[i] = x)
  BY <1>3
<1> QED
  BY <1>1, <1>2, <1>3

\* Where the pieces of the pipe come from
LEMMA NewPieces ==
  ASSUME WebInv, Next, NEW i \in DOMAIN pipe'
  PROVE  \/ \E j \in DOMAIN pipe : pipe'[i] = pipe[j]
         \/ DevSends /\ dsend /\ i = Len(pipe') /\ pipe'[i].content = Content(open, 0)
         \/ /\ DevEcho /\ ~dsend /\ ~drecv /\ i = Len(pipe')
            /\ pipe'[i] = Piece(Head(ctrl).conn, Head(ctrl).mark, TRUE)
<1>t. pipe \in Seq(Pieces)
  BY DEF WebInv, DataInv, DataTypes
<1>1. ASSUME pipe' \in {pipe, <<>>} \/ (pipe # <<>> /\ pipe' = Tail(pipe))
      PROVE  \E j \in DOMAIN pipe : pipe'[i] = pipe[j]
  <2>1. \A k \in DOMAIN pipe' : \E j \in DOMAIN pipe : pipe'[k] = pipe[j]
    BY <1>1, <1>t, Items
  <2> QED BY <2>1
<1>2. CASE DevSends
  <2>1. PICK s \in BOOLEAN : pipe' = Append(pipe, Piece(open, 0, s))
    BY <1>2 DEF DevSends
  <2>2. dsend /\ open \in Conns
    BY <1>2, Names DEF DevSends, WebInv, DeviceInv, Opening, DeviceTypes
  <2>3. Piece(open, 0, s) \in Pieces
    BY <2>2, PieceRange, WebAssumption
  <2>4. (i \in DOMAIN pipe /\ pipe'[i] = pipe[i]) \/ (i = Len(pipe') /\ pipe'[i] = Piece(open, 0, s))
    BY <1>t, <2>1, <2>3, Items
  <2>5. Piece(open, 0, s).content = Content(open, 0)
    BY DEF Piece
  <2> QED BY <1>2, <2>2, <2>4, <2>5
<1>3. ASSUME DevEcho, pipe' # pipe
      PROVE  \/ \E j \in DOMAIN pipe : pipe'[i] = pipe[j]
             \/ /\ DevEcho /\ ~dsend /\ ~drecv /\ i = Len(pipe')
                /\ pipe'[i] = Piece(Head(ctrl).conn, Head(ctrl).mark, TRUE)
  <2> DEFINE x == Piece(Head(ctrl).conn, Head(ctrl).mark, TRUE)
  <2>1. ~dsend /\ ~drecv /\ pipe' = Append(pipe, x)
    BY <1>3, EchoServed
  <2>2. x \in Pieces
    BY <1>3, EchoServed, PieceRange DEF InFlight
  <2> HIDE DEF x
  <2>3. (i \in DOMAIN pipe /\ pipe'[i] = pipe[i]) \/ (i = Len(pipe') /\ pipe'[i] = x)
    BY <1>t, <2>1, <2>2, Items
  <2> QED BY <1>3, <2>1, <2>3 DEF x
<1>4. CASE Shrinks
  BY <1>1, <1>4 DEF Shrinks
<1>5. ASSUME NEW c \in Conns, StartTasks(c) \/ InQueues(c) PROVE pipe' = pipe
  BY <1>5, PageSteps DEF ConnectNext, InTask
<1>6. CASE BusNext
  BY <1>1, <1>6, BusServed
<1> QED
  BY <1>1, <1>2, <1>3, <1>4, <1>5, <1>6, ShrinksOrGrows DEF Grows

\* Where the data of a transfer that has not ended comes from
LEMMA NewReads ==
  ASSUME WebInv, Next, NEW i \in DOMAIN reads', NEW x \in reads'[i].data
  PROVE  \/ \E j \in DOMAIN reads : x \in reads[j].data
         \/ BusNext /\ 1 \in DOMAIN pipe /\ pipe' = Tail(pipe) /\ ~pipe[1].short /\ x = pipe[1].content
<1>t. reads \in Seq(Reads) /\ pipe \in Seq(Pieces)
  BY DEF WebInv, DataInv, DataTypes
<1>1. CASE reads' \in {reads, <<>>}
  BY <1>1
<1>2. ASSUME NEW c \in Conns, StartTasks(c) \/ InQueues(c) PROVE \E j \in DOMAIN reads : x \in reads[j].data
  <2> DEFINE r == [conn |-> c, data |-> {}]
  <2>1. r \in Reads /\ reads' = Append(reads, r) /\ r.data = {}
    BY <1>2 DEF StartTasks, InQueues, Reads
  <2> HIDE DEF r
  <2>2. (i \in DOMAIN reads /\ reads'[i] = reads[i]) \/ (i = Len(reads') /\ reads'[i] = r)
    BY <1>t, <2>1, Items
  <2> QED BY <2>1, <2>2
<1>3. CASE DevSends \/ DevEcho
  <2>1. reads' = reads
    BY <1>3, EchoServed DEF DevSends, hostSide, usbVars
  <2> QED BY <1>1, <2>1
<1>4. CASE BusNext
  <2>1. CASE reads' = Tail(reads)
    <3>1. reads' = <<>>
      BY <1>4, <2>1, BusServed
    <3> QED BY <1>1, <3>1
  <2>2. CASE reads' # Tail(reads)
    <3>1. /\ pipe # <<>> /\ pipe' = Tail(pipe) /\ ~Head(pipe).short /\ DOMAIN reads' = {1}
          /\ reads'[1] = [conn |-> Head(reads).conn, data |-> Head(reads).data \union {Head(pipe).content}]
          /\ reads # <<>> /\ Head(reads) = reads[1]
      BY <1>4, <2>2, BusServed
    <3>2. 1 \in DOMAIN pipe /\ Head(pipe) = pipe[1]
      BY <1>t, <3>1, Items
    <3>3. 1 \in DOMAIN reads
      BY <1>t, <3>1, Items
    <3>4. x \in reads[1].data \union {pipe[1].content}
      BY <3>1, <3>2
    <3> QED BY <1>4, <3>1, <3>2, <3>3, <3>4
  <2> QED BY <2>1, <2>2
<1> QED
  BY <1>1, <1>2, <1>3, <1>4, ShrinksOrGrows DEF Grows, Shrinks

\* Where the data that arrives comes from
LEMMA NewArrived ==
  ASSUME WebInv, Next, NEW c \in Conns, NEW x \in arrived'[c].data
  PROVE  \/ x \in arrived[c].data
         \/ /\ BusNext /\ Reading(c) /\ 1 \in DOMAIN reads /\ reads[1].conn = c /\ reads' = <<>>
            /\ 1 \in DOMAIN pipe /\ pipe' = Tail(pipe)
            /\ arrived'[c].data = reads[1].data \union {pipe[1].content}
<1>t. reads \in Seq(Reads) /\ pipe \in Seq(Pieces) /\ arrived \in [Conns -> Transfers]
  BY DEF WebInv, DataInv, DataTypes
<1>f. Failure.data = {} /\ NoTransfer.data = {}
  BY DEF Failure, NoTransfer
<1>1. CASE Shrinks
  BY <1>1, <1>f DEF Shrinks
<1>2. ASSUME NEW b \in Conns, StartTasks(b) \/ InQueues(b) PROVE x \in arrived[c].data
  <2>1. arrived' = arrived \/ arrived' = [arrived EXCEPT ![b] = NoTransfer]
    BY <1>2 DEF StartTasks, InQueues, taskVars
  <2> QED BY <1>f, <1>t, <2>1
<1>3. CASE DevSends \/ DevEcho
  <2>1. arrived' = arrived
    BY <1>3, EchoServed DEF DevSends, hostSide, taskVars
  <2> QED BY <2>1
<1>4. CASE BusNext
  <2>1. CASE arrived'[c] = arrived[c]
    BY <2>1
  <2>2. CASE arrived'[c] = [kind |-> "halt", data |-> {}, conn |-> haltIn]
    BY <2>2
  <2>3. CASE /\ pipe # <<>> /\ pipe' = Tail(pipe) /\ reads' = Tail(reads) /\ c = Head(reads).conn /\ Reading(c)
             /\ arrived'[c] = [kind |-> "data", conn |-> NoConn, data |-> Head(reads).data \union {Head(pipe).content}]
    <3>1. 1 \in DOMAIN pipe /\ Head(pipe) = pipe[1]
      BY <1>t, <2>3, Items
    <3>2. reads # <<>> /\ Head(reads) = reads[1] /\ reads' = <<>>
      BY <1>4, <2>3, BusServed
    <3>3. 1 \in DOMAIN reads
      BY <1>t, <3>2, Items
    <3> QED BY <1>4, <2>3, <3>1, <3>2, <3>3
  <2> QED BY <1>4, <2>1, <2>2, <2>3, BusServed
<1> QED
  BY <1>1, <1>2, <1>3, <1>4, ShrinksOrGrows DEF Grows

\* Where what is queued comes from
LEMMA NewQueued ==
  ASSUME WebInv, Next, NEW c \in Conns, NEW i \in DOMAIN queue'[c]
  PROVE  \/ \E j \in DOMAIN queue[c] : queue'[c][i] = queue[c][j]
         \/ InQueues(c) /\ i = Len(queue'[c]) /\ queue'[c][i] = arrived[c].data
<1>t. /\ queue \in [Conns -> Seq(SUBSET Contents)] /\ queue[c] \in Seq(SUBSET Contents)
      /\ arrived[c].data \in SUBSET Contents
  BY DEF WebInv, DataInv, DataTypes, Transfers
<1>1. ASSUME queue'[c] \in {queue[c], <<>>} \/ (queue[c] # <<>> /\ queue'[c] = Tail(queue[c]))
      PROVE  \E j \in DOMAIN queue[c] : queue'[c][i] = queue[c][j]
  <2>1. \A k \in DOMAIN queue'[c] : \E j \in DOMAIN queue[c] : queue'[c][k] = queue[c][j]
    BY <1>1, <1>t, Items
  <2> QED BY <2>1
<1>2. ASSUME NEW b \in Conns, StartTasks(b) \/ (InQueues(b) /\ b # c) PROVE queue'[c] = queue[c]
  BY <1>2, <1>t DEF StartTasks, InQueues
<1>3. CASE InQueues(c)
  <2>1. queue'[c] = Append(queue[c], arrived[c].data)
    BY <1>3, <1>t DEF InQueues
  <2>2. (i \in DOMAIN queue[c] /\ queue'[c][i] = queue[c][i]) \/ (i = Len(queue'[c]) /\ queue'[c][i] = arrived[c].data)
    BY <1>t, <2>1, Items
  <2> QED BY <1>3, <2>2
<1>4. CASE DevSends \/ DevEcho \/ BusNext
  <2>1. queue' = queue
    BY <1>4, EchoServed, BusServed DEF DevSends, hostSide, appVars
  <2> QED BY <1>1, <2>1
<1> QED
  BY <1>1, <1>2, <1>3, <1>4, ShrinksOrGrows DEF Grows, Shrinks

\* Markers are short, and stay out of transfers that have not ended.
LEMMA MarkingKept ==
  ASSUME WebInv, Next
  PROVE  Marking'
<1>t. Marking
  BY DEF WebInv, DataInv
<1>1. ASSUME NEW i \in DOMAIN pipe', pipe'[i].content.mark # 0 PROVE pipe'[i].short
  <2>1. CASE \E j \in DOMAIN pipe : pipe'[i] = pipe[j]
    BY <1>1, <1>t, <2>1 DEF Marking
  <2>2. CASE pipe'[i].content = Content(open, 0)
    BY <1>1, <2>2 DEF Content
  <2>3. CASE pipe'[i] = Piece(Head(ctrl).conn, Head(ctrl).mark, TRUE)
    BY <2>3 DEF Piece
  <2> QED BY <2>1, <2>2, <2>3, NewPieces
<1>2. ASSUME NEW i \in DOMAIN reads', NEW x \in reads'[i].data PROVE x.mark = 0
  BY <1>t, NewReads DEF Marking
<1> QED
  BY <1>1, <1>2 DEF Marking

\* A call of connect_with makes its rounds forward.
LEMMA RoundsGrow ==
  ASSUME WebInv, Next, NEW c \in Conns
  PROVE  /\ tries[c] \in 0..EchoRetries /\ tries'[c] \in 0..EchoRetries
         /\ pc'[c] = "drain" => tries'[c] = 0
         /\ pc'[c] \in {"marking", "barrier"} => tries'[c] # 0
         /\ pc'[c] \notin {"done", "over"} => pc[c] \notin {"done", "over"} /\ tries[c] <= tries'[c]
<1> USE DEF connVars
<1>t. /\ CallTypes /\ Rounds /\ CallTypes' /\ tries[c] \in 0..EchoRetries /\ tries'[c] \in 0..EchoRetries
      /\ Early(c) => tries[c] = 0
      /\ EchoRetries \in Nat
  BY CallTypesKept, WebAssumption DEF WebInv, PageInv, Running, CallTypes, DataInv
<1>1. CASE SendEcho(c)
  <2>1. pc'[c] = "marking" /\ pc[c] = "echo" /\ tries'[c] = tries[c] + 1
    BY <1>1, <1>t DEF SendEcho, CallTypes
  <2> QED BY <1>t, <2>1
<1>2. CASE SendOpen(c)
  <2>1. pc'[c] = "open" /\ pc[c] \in {"barrier", "drain"} /\ tries'[c] = tries[c]
    BY <1>2, <1>t DEF SendOpen, Flushed, CallTypes
  <2> QED BY <1>t, <2>1
<1>3. CASE StartTasks(c)
  <2>1. pc'[c] \in {"echo", "drain"} /\ pc[c] = "caps" /\ tries'[c] = tries[c]
    BY <1>3, <1>t DEF StartTasks, CallTypes
  <2> QED BY <1>t, <2>1 DEF Early
<1>4. CASE TakeGuard(c)
  <2>1. pc'[c] = "release" /\ pc[c] = "idle" /\ tries'[c] = tries[c]
    BY <1>4, <1>t, Names DEF TakeGuard, CallTypes
  <2> QED BY <1>t, <2>1
<1>5. CASE tries'[c] = tries[c] /\ pc'[c] = pc[c]
  BY <1>t, <1>5 DEF Rounds
<1> QED
  BY <1>1, <1>2, <1>3, <1>4, <1>5, <1>t, CallMoves DEF Rounds

\* No marker is around that connect_with has not asked for yet.
LEMMA RoundsKept ==
  ASSUME WebInv, Next
  PROVE  Rounds'
<1>t. /\ Rounds /\ Marking /\ DataTypes /\ DataTypes'
  BY DataTypesKept DEF WebInv, DataInv
<1>1. ASSUME NEW c \in Conns, pc'[c] \notin {"done", "over"}
      PROVE  /\ \A i \in DOMAIN queue'[c] : \A x \in queue'[c][i] : Asking(c, x)'
             /\ \A x \in arrived'[c].data : Asking(c, x)'
             /\ \A i \in DOMAIN pipe' : pipe'[i].content.conn = c => pipe'[i].content.mark <= tries'[c]
  <2>1. /\ pc[c] \notin {"done", "over"} /\ tries[c] <= tries'[c] /\ tries[c] \in Nat /\ tries'[c] \in Nat
    BY <1>1, RoundsGrow, WebAssumption
  <2>2. ASSUME NEW x \in Contents, Asking(c, x) \/ x.mark = 0 PROVE Asking(c, x)'
    <3>1. x.mark \in Nat
      BY <2>2, WebAssumption DEF Contents
    <3> QED BY <2>1, <2>2, <3>1 DEF Asking
  <2>3. ASSUME NEW i \in DOMAIN queue'[c], NEW x \in queue'[c][i] PROVE Asking(c, x)'
    <3>1. queue'[c] \in Seq(SUBSET Contents)
      BY <1>t DEF DataTypes
    <3>2. x \in Contents
      BY <2>3, <3>1
    <3>3. Asking(c, x)
      BY <1>t, <2>1, <2>3, NewQueued DEF Rounds
    <3> QED BY <2>2, <3>2, <3>3
  <2>4. ASSUME NEW x \in arrived'[c].data PROVE Asking(c, x)'
    <3>1. arrived'[c] \in Transfers
      BY <1>t DEF DataTypes
    <3>2. x \in Contents
      BY <2>4, <3>1 DEF Transfers
    <3>3. \/ x \in arrived[c].data
          \/ 1 \in DOMAIN reads /\ x \in reads[1].data
          \/ 1 \in DOMAIN pipe /\ x = pipe[1].content
      BY NewArrived
    <3>4. Asking(c, x) \/ x.mark = 0
      BY <1>t, <2>1, <3>3 DEF Rounds, Marking
    <3> QED BY <2>2, <3>2, <3>4
  <2>5. ASSUME NEW i \in DOMAIN pipe' PROVE pipe'[i].content.conn = c => pipe'[i].content.mark <= tries'[c]
    <3>1. pipe'[i] \in Pieces
      BY <1>t DEF DataTypes
    <3>2. pipe'[i].content \in Contents
      BY <3>1, PieceRange
    <3>3. CASE \E j \in DOMAIN pipe : pipe'[i] = pipe[j]
      <4>1. PICK j \in DOMAIN pipe : pipe'[i] = pipe[j]
        BY <3>3
      <4>2. Asking(c, pipe[j].content) /\ pipe[j].content \in Contents
        BY <1>t, <2>1, <3>2, <4>1 DEF Rounds
      <4>3. pipe[j].content.mark \in Nat
        BY <4>2, WebAssumption DEF Contents
      <4> QED BY <2>1, <4>1, <4>2, <4>3 DEF Asking
    <3>4. CASE pipe'[i].content = Content(open, 0)
      BY <2>1, <3>4 DEF Asking, Content
    <3>5. CASE DevEcho /\ pipe'[i] = Piece(Head(ctrl).conn, Head(ctrl).mark, TRUE)
      <4>1. pipe'[i].content.conn = Head(ctrl).conn /\ pipe'[i].content.mark = Head(ctrl).mark
        BY <3>5 DEF Piece, Content
      <4>2. Head(ctrl).conn = c => Head(ctrl).mark = tries[c]
        BY <2>1, <3>5, EchoServed
      <4> QED BY <2>1, <4>1, <4>2 DEF Asking
    <3> QED BY <3>3, <3>4, <3>5, NewPieces
  <2> QED BY <2>3, <2>4, <2>5
<1> QED
  BY <1>1, RoundsGrow DEF Rounds, Asking

\* The marker is nowhere while its ECHO is on its way to the device.
LEMMA NotYetKept ==
  ASSUME WebInv, Next, NEW c \in Conns, pc[c] = "marking", NotYet(c), tries'[c] = tries[c],
         reply'[c]["connect"] = "none"
  PROVE  NotYet(c)'
<1>t. /\ Rounds /\ Marking /\ tries[c] # 0 /\ Marker(c).mark # 0
      /\ Marker(c)' = Marker(c)
  BY DEF WebInv, DataInv, Rounds, Marker, Content
<1>1. ASSUME NEW i \in DOMAIN queue'[c] PROVE Marker(c) \notin queue'[c][i]
  BY NewQueued DEF NotYet
<1>2. Marker(c) \notin arrived'[c].data
  <2>1. ASSUME Marker(c) \in arrived'[c].data PROVE FALSE
    <3>1. \/ Marker(c) \in arrived[c].data
          \/ 1 \in DOMAIN reads /\ Marker(c) \in reads[1].data
          \/ 1 \in DOMAIN pipe /\ Marker(c) = pipe[1].content
      BY <2>1, NewArrived
    <3> QED BY <1>t, <3>1 DEF NotYet, Marking
  <2> QED BY <2>1
<1>3. ASSUME NEW i \in DOMAIN pipe' PROVE pipe'[i].content # Marker(c)
  <2>1. CASE \E j \in DOMAIN pipe : pipe'[i] = pipe[j]
    BY <2>1 DEF NotYet
  <2>2. CASE pipe'[i].content = Content(open, 0)
    BY <1>t, <2>2 DEF Content
  <2>3. CASE DevEcho /\ pipe'[i] = Piece(Head(ctrl).conn, Head(ctrl).mark, TRUE)
    <3>1. pipe'[i].content.conn = Head(ctrl).conn
      BY <2>3 DEF Piece, Content
    <3>2. Head(ctrl).conn # c
      BY <2>3, EchoServed
    <3> QED BY <3>1, <3>2 DEF Marker, Content
  <2> QED BY <2>1, <2>2, <2>3, NewPieces
<1> QED
  BY <1>t, <1>1, <1>2, <1>3 DEF NotYet

\* Nothing is behind the marker: the device waits until it was read.
LEMMA BehindKept ==
  ASSUME WebInv, Next, NEW c \in Conns, pc[c] \in {"marking", "barrier"}, Behind(c), tries'[c] = tries[c]
  PROVE  Behind(c)'
<1> DEFINE m == Marker(c)
<1>t. /\ Rounds /\ Marking /\ MarkerLast /\ m.mark # 0 /\ m' = m
      /\ queue \in [Conns -> Seq(SUBSET Contents)] /\ queue[c] \in Seq(SUBSET Contents)
      /\ arrived \in [Conns -> Transfers] /\ pipe \in Seq(Pieces) /\ reads \in Seq(Reads)
      /\ arrived[c].data \in SUBSET Contents
      /\ NoTransfer.data = {} /\ NoTransfer.kind = "none" /\ Failure.data = {} /\ Failure.kind = "err"
  BY DEF WebInv, DataInv, DataTypes, Rounds, Marker, Content, NoTransfer, Failure, Transfers
<1>p. Past(c) /\ guard[c] # {}
  BY Serving
<1>b. /\ \A i \in DOMAIN queue[c] : m \in queue[c][i] => i = Len(queue[c]) /\ arrived[c].kind # "data" /\ AllRead
      /\ m \in arrived[c].data => AllRead
      /\ \A i \in DOMAIN pipe : pipe[i].content = m => i = Len(pipe)
  BY DEF Behind
<1>g. ASSUME \A i \in DOMAIN queue'[c] : m \in queue'[c][i] => i = Len(queue'[c]) /\ arrived'[c].kind # "data" /\ AllRead',
             m \in arrived'[c].data => AllRead',
             \A i \in DOMAIN pipe' : pipe'[i].content = m => i = Len(pipe')
      PROVE  Behind(c)'
  BY <1>g, <1>t DEF Behind
<1> HIDE DEF m
<1>1. CASE Shrinks
  <2>1. AllRead => AllRead'
    BY <1>1 DEF Shrinks, AllRead
  <2>2. ASSUME NEW i \in DOMAIN queue'[c], m \in queue'[c][i]
        PROVE  i = Len(queue'[c]) /\ arrived'[c].kind # "data" /\ AllRead'
    <3>1. i = Len(queue'[c]) /\ arrived[c].kind # "data" /\ AllRead
      <4>1. CASE queue'[c] = queue[c]
        BY <1>b, <2>2, <4>1
      <4>2. CASE queue'[c] = <<>>
        BY <2>2, <4>2
      <4>3. CASE queue[c] # <<>> /\ queue'[c] = Tail(queue[c])
        <5>1. i + 1 \in DOMAIN queue[c] /\ queue'[c][i] = queue[c][i + 1] /\ Len(queue'[c]) = Len(queue[c]) - 1
          BY <1>t, <2>2, <4>3, Items
        <5>2. i + 1 = Len(queue[c]) /\ i \in Int
          BY <1>b, <1>t, <2>2, <4>3, <5>1
        <5>3. arrived[c].kind # "data" /\ AllRead
          BY <1>b, <2>2, <5>1
        <5> QED BY <5>1, <5>2, <5>3
      <4> QED BY <1>1, <4>1, <4>2, <4>3 DEF Shrinks
    <3>2. arrived'[c].kind # "data"
      BY <1>1, <1>t, <3>1 DEF Shrinks
    <3> QED BY <2>1, <3>1, <3>2
  <2>3. m \in arrived'[c].data => AllRead'
    BY <1>1, <1>b, <1>t, <2>1 DEF Shrinks
  <2>4. ASSUME NEW i \in DOMAIN pipe', pipe'[i].content = m PROVE i = Len(pipe')
    <3>1. pipe' = pipe
      BY <1>1, <2>4 DEF Shrinks
    <3> QED BY <1>b, <2>4, <3>1
  <2> QED BY <1>g, <2>2, <2>3, <2>4
<1>2. ASSUME NEW b \in Conns, StartTasks(b) \/ InQueues(b) PROVE Behind(c)'
  <2>1. guard[b] # {}
    BY <1>2, Serving DEF StartTasks, InQueues, Past
  <2>2. b = c
    BY <1>p, <2>1, Serving
  <2>3. InQueues(c)
    BY <1>2, <2>2 DEF StartTasks
  <2>4. /\ queue'[c] = Append(queue[c], arrived[c].data) /\ arrived'[c] = NoTransfer
        /\ arrived[c].kind = "data" /\ pipe' = pipe
    <3>1. pipe' = pipe
      BY <2>3, PageSteps DEF InTask
    <3> QED BY <1>t, <2>3, <3>1 DEF InQueues
  <2>5. AllRead => AllRead'
    <3>1. ASSUME AllRead, NEW i \in DOMAIN reads', NEW x \in reads'[i].data PROVE FALSE
      <4>1. \E j \in DOMAIN reads : x \in reads[j].data
        BY <2>4, <3>1, NewReads DEF AllRead
      <4> QED BY <3>1, <4>1 DEF AllRead
    <3> QED BY <2>4, <3>1 DEF AllRead
  <2>6. ASSUME NEW i \in DOMAIN queue'[c], m \in queue'[c][i]
        PROVE  i = Len(queue'[c]) /\ arrived'[c].kind # "data" /\ AllRead'
    <3>1. (i \in DOMAIN queue[c] /\ queue'[c][i] = queue[c][i]) \/ (i = Len(queue'[c]) /\ queue'[c][i] = arrived[c].data)
      BY <1>t, <2>4, <2>6, Items
    <3>2. i = Len(queue'[c]) /\ m \in arrived[c].data
      BY <1>b, <2>4, <2>6, <3>1
    <3> QED BY <1>b, <1>t, <2>4, <2>5, <3>2
  <2> QED BY <1>b, <1>g, <1>t, <2>4, <2>6
<1>3. CASE DevSends
  <2>1. dsend
    BY <1>3 DEF DevSends
  <2>2. open # NoConn /\ pc[open] \in {"open", "done", "over"}
    BY <2>1 DEF WebInv, DeviceInv, Opening
  <2>3. open = c
    BY <1>p, <2>2, Serving
  <2> QED BY <2>2, <2>3
<1>4. CASE DevEcho
  <2>1. UNCHANGED <<queue, arrived, reads>>
    BY <1>4, EchoServed
  <2>2. CASE pipe' = pipe
    <3>1. AllRead => AllRead'
      BY <2>1, <2>2 DEF AllRead
    <3> QED BY <1>b, <1>g, <2>1, <2>2, <3>1
  <2>3. CASE pipe' # pipe
    <3>1. Head(ctrl).conn = c
      BY <1>4, <1>p, EchoServed, Serving
    <3>2. pc[c] = "marking" /\ reply[c]["connect"] = "none"
      BY <1>4, <3>1, EchoServed
    <3>3. NotYet(c)
      BY <1>t, <3>2 DEF MarkerLast
    <3>4. ASSUME NEW i \in DOMAIN pipe', pipe'[i].content = m PROVE i = Len(pipe')
      <4>1. ~DevSends
        BY <1>4 DEF DevSends, DevEcho, Handles, hostSide, usbVars
      <4>2. i = Len(pipe') \/ \E j \in DOMAIN pipe : pipe'[i] = pipe[j]
        BY NewPieces
      <4> QED BY <3>3, <3>4, <4>2 DEF NotYet, m
    <3> QED BY <1>g, <2>1, <3>3, <3>4 DEF NotYet, m
  <2> QED BY <2>2, <2>3
<1>5. CASE BusNext
  <2>1. queue' = queue
    BY <1>5, BusServed
  <2>2. CASE pipe' = pipe /\ reads' = Tail(reads)
    <3>1. AllRead => AllRead'
      <4>1. reads' = <<>>
        BY <1>5, <2>2, BusServed
      <4> QED BY <2>2, <4>1 DEF AllRead
    <3>2. arrived'[c] = arrived[c] \/ arrived'[c] = [kind |-> "halt", data |-> {}, conn |-> haltIn]
             \/ (pipe # <<>> /\ pipe' = Tail(pipe))
      BY <1>5, BusServed
    <3>3. ~(pipe # <<>> /\ pipe' = Tail(pipe))
      <4>1. pipe # <<>> => Len(Tail(pipe)) = Len(pipe) - 1 /\ Len(pipe) \in Nat
        BY <1>t
      <4> QED BY <2>2, <4>1
    <3> QED BY <1>b, <1>g, <2>1, <2>2, <3>1, <3>2, <3>3
  <2>3. CASE pipe # <<>> /\ pipe' = Tail(pipe)
    <3>1. ~AllRead
      BY <2>3 DEF AllRead
    <3>2. ASSUME m \in arrived'[c].data PROVE AllRead'
      <4>1. m \notin arrived[c].data
        BY <1>b, <3>1
      <4>2. reads' = <<>> /\ ((1 \in DOMAIN reads /\ m \in reads[1].data) \/ m = pipe[1].content)
        BY <3>2, <4>1, NewArrived
      <4>3. m = pipe[1].content
        BY <1>t, <4>2 DEF Marking
      <4>4. 1 = Len(pipe)
        BY <1>b, <1>t, <2>3, <4>3, Items
      <4>5. Len(Tail(pipe)) = 0 /\ Tail(pipe) \in Seq(Pieces)
        BY <1>t, <2>3, <4>4
      <4>6. pipe' = <<>>
        BY <2>3, <4>5, EmptySeq
      <4> QED BY <4>2, <4>6 DEF AllRead
    <3>3. ASSUME NEW i \in DOMAIN pipe', pipe'[i].content = m PROVE i = Len(pipe')
      <4>1. i + 1 \in DOMAIN pipe /\ pipe'[i] = pipe[i + 1] /\ Len(pipe') = Len(pipe) - 1
        BY <1>t, <2>3, <3>3, Items
      <4>2. i + 1 = Len(pipe) /\ i \in Int
        BY <1>b, <1>t, <2>3, <3>3, <4>1
      <4> QED BY <4>1, <4>2
    <3> QED BY <1>b, <1>g, <2>1, <3>1, <3>2, <3>3
  <2> QED BY <1>5, <2>2, <2>3, BusServed
<1> QED
  BY <1>1, <1>2, <1>3, <1>4, <1>5, ShrinksOrGrows DEF Grows

\* So the marker stays the last of what is on its way.
LEMMA MarkerLastKept ==
  ASSUME WebInv, Next
  PROVE  MarkerLast'
<1> USE DEF connVars, taskVars, usbVars, appVars, devVars, epVars
<1>t. MarkerLast /\ Rounds /\ CallTypes /\ DataTypes
  BY DEF WebInv, PageInv, DataInv
<1>1. ASSUME NEW c \in Conns, pc'[c] \in {"marking", "barrier"}
      PROVE  (pc'[c] = "marking" /\ reply'[c]["connect"] = "none" => NotYet(c)') /\ Behind(c)'
  <2>1. CASE SendEcho(c)
    <3>1. /\ pc[c] = "echo" /\ tries'[c] = tries[c] + 1 /\ UNCHANGED <<queue, arrived, pipe>>
          /\ tries[c] \in Nat
      BY <1>t, <2>1, WebAssumption DEF SendEcho, CallTypes
    <3>2. /\ \A i \in DOMAIN queue[c] : \A x \in queue[c][i] : Asking(c, x)
          /\ \A x \in arrived[c].data : Asking(c, x)
          /\ \A i \in DOMAIN pipe : Asking(c, pipe[i].content)
      BY <1>t, <3>1 DEF Rounds
    <3>3. Marker(c)' = Content(c, tries[c] + 1)
      BY <3>1 DEF Marker
    <3>4. \A x : Asking(c, x) => x # Content(c, tries[c] + 1)
      BY <3>1 DEF Asking, Content
    <3>5. NotYet(c)'
      BY <3>1, <3>2, <3>3, <3>4 DEF NotYet
    <3>6. NotYet(c)' => Behind(c)'
      BY DEF NotYet, Behind
    <3> QED BY <3>5, <3>6
  <2>2. CASE ~SendEcho(c)
    <3>1. ~SendOpen(c) /\ ~StartTasks(c) /\ ~TakeGuard(c)
      BY <1>1, <1>t DEF SendOpen, StartTasks, TakeGuard, CallTypes
    <3>2. /\ pc[c] \in {"marking", "barrier"} /\ tries'[c] = tries[c]
          /\ pc'[c] = "marking" /\ reply'[c]["connect"] = "none" =>
               pc[c] = "marking" /\ reply[c]["connect"] = "none"
      BY <1>1, <2>2, <3>1, CallMoves
    <3>3. Behind(c)'
      BY <1>t, <3>2, BehindKept DEF MarkerLast
    <3>4. pc'[c] = "marking" /\ reply'[c]["connect"] = "none" => NotYet(c)'
      BY <1>t, <3>2, NotYetKept DEF MarkerLast
    <3> QED BY <3>3, <3>4
  <2> QED BY <2>1, <2>2
<1> QED
  BY <1>1 DEF MarkerLast

\* What is on its way to a connection that is past its barrier is its own.
LEMMA PastBarrierKept ==
  ASSUME WebInv, Next
  PROVE  PastBarrier'
<1> USE DEF connVars, taskVars, usbVars, appVars, devVars, epVars
<1>t. /\ PastBarrier /\ MarkerLast /\ Rounds /\ Arriving /\ CallTypes /\ TaskTypes /\ DataTypes
      /\ "in" \in Dirs
  BY Names DEF WebInv, PageInv, DataInv
<1> DEFINE Body(c) == /\ \A i \in DOMAIN queue[c] : queue[c][i] \subseteq Own(c)
                      /\ arrived[c].data \subseteq Own(c)
                      /\ task[c]["in"] \in {"read", "full"} =>
                           /\ \A i \in DOMAIN pipe : pipe[i].content \in Own(c)
                           /\ \A i \in DOMAIN reads : reads[i].data \subseteq Own(c)
<1>1. ASSUME NEW c \in Conns, pc'[c] \in {"open", "done"}, tries'[c] # 0
      PROVE  Body(c)'
  <2>1. CASE SendOpen(c)
    <3>1. /\ Flushed(c) /\ tries'[c] = tries[c] /\ UNCHANGED <<arrived, task, pipe, reads>>
          /\ queue'[c] = IF queue[c] = <<>> THEN queue[c] ELSE Tail(queue[c])
      BY <1>t, <2>1 DEF SendOpen, DataTypes
    <3>2. pc[c] = "barrier"
      BY <1>1, <1>t, <3>1 DEF Flushed, Rounds
    <3>3. CASE queue[c] # <<>> /\ Head(queue[c]) = CurrentMarker(c)
      <4>1. queue[c] \in Seq(SUBSET Contents)
        BY <1>t DEF DataTypes
      <4>2. 1 \in DOMAIN queue[c] /\ Marker(c) \in queue[c][1] /\ Len(Tail(queue[c])) = Len(queue[c]) - 1
        BY <3>3, <4>1, Items DEF CurrentMarker, Marker, MarkerOf
      <4>3. 1 = Len(queue[c]) /\ arrived[c].kind # "data" /\ AllRead
        BY <1>t, <3>2, <4>2 DEF MarkerLast, Behind
      <4>4. Tail(queue[c]) = <<>>
        <5>1. Tail(queue[c]) \in Seq(SUBSET Contents) /\ Len(Tail(queue[c])) = 0
          BY <3>3, <4>1, <4>2, <4>3
        <5> QED BY <5>1, EmptySeq
      <4>5. queue'[c] = <<>>
        BY <3>1, <3>3, <4>4
      <4>6. arrived[c].data = {}
        BY <1>t, <4>3 DEF Arriving
      <4>7. pipe = <<>> /\ \A i \in DOMAIN reads : reads[i].data = {}
        BY <4>3 DEF AllRead
      <4>8. pipe' = <<>> /\ reads' = reads /\ arrived'[c].data = {}
        BY <3>1, <4>6, <4>7
      <4>9. \A i \in DOMAIN queue'[c] : queue'[c][i] \subseteq Own(c)'
        BY <4>5
      <4>10. \A i \in DOMAIN pipe' : pipe'[i].content \in Own(c)'
        BY <4>8
      <4>11. \A i \in DOMAIN reads' : reads'[i].data \subseteq Own(c)'
        BY <4>7, <4>8
      <4> QED BY <4>8, <4>9, <4>10, <4>11
    <3>4. CASE QueueEnded(c)
      <4>1. queue'[c] = <<>> /\ task'[c]["in"] = "ended" /\ arrived'[c] = arrived[c] /\ task[c]["in"] = "ended"
        BY <3>1, <3>4 DEF QueueEnded
      <4>2. arrived[c] = NoTransfer
        BY <1>t, <4>1 DEF Arriving
      <4>3. arrived'[c].data = {}
        BY <4>1, <4>2 DEF NoTransfer
      <4> QED BY <4>1, <4>3
    <3> QED BY <3>1, <3>2, <3>3, <3>4 DEF Flushed
  <2>2. CASE ~SendOpen(c)
    <3>1. ~StartTasks(c) /\ pc[c] \in {"open", "done"} /\ tries'[c] = tries[c]
      <4>1. ~SendEcho(c) /\ ~StartTasks(c) /\ ~TakeGuard(c)
        BY <1>1, <1>t DEF SendEcho, StartTasks, TakeGuard, CallTypes
      <4> QED BY <1>1, <2>2, <4>1, CallMoves
    <3>2. Body(c)
      BY <1>1, <1>t, <3>1 DEF PastBarrier
    <3>3. ASSUME NEW i \in DOMAIN queue'[c] PROVE queue'[c][i] \subseteq Own(c)
      BY <3>2, NewQueued
    <3>4. ASSUME NEW x \in arrived'[c].data PROVE x \in Own(c)
      <4>1. CASE x \in arrived[c].data
        BY <3>2, <4>1
      <4>2. CASE /\ Reading(c) /\ 1 \in DOMAIN reads /\ 1 \in DOMAIN pipe
                 /\ arrived'[c].data = reads[1].data \union {pipe[1].content}
        <5>1. reads[1].data \subseteq Own(c) /\ pipe[1].content \in Own(c)
          BY <3>2, <4>2 DEF Reading
        <5> QED BY <4>2, <5>1
      <4> QED BY <4>1, <4>2, NewArrived
    <3>5. ASSUME task'[c]["in"] \in {"read", "full"}
          PROVE  /\ \A i \in DOMAIN pipe' : pipe'[i].content \in Own(c)
                 /\ \A i \in DOMAIN reads' : reads'[i].data \subseteq Own(c)
      <4>1. task[c]["in"] \in {"read", "full"}
        BY <3>1, <3>5, InMoves DEF Stopped
      <4>2. Past(c)
        BY <4>1, Serving
      <4>3. ASSUME NEW i \in DOMAIN pipe' PROVE pipe'[i].content \in Own(c)
        <5>1. CASE \E j \in DOMAIN pipe : pipe'[i] = pipe[j]
          BY <3>2, <4>1, <5>1
        <5>2. CASE dsend /\ pipe'[i].content = Content(open, 0)
          <6>1. open # NoConn
            BY <5>2 DEF WebInv, DeviceInv, Opening
          <6>2. open = c
            BY <4>2, <6>1, Serving
          <6> QED BY <5>2, <6>2 DEF Own
        <5>3. CASE DevEcho
          <6>1. Head(ctrl).conn = c
            BY <4>2, <5>3, EchoServed, Serving
          <6>2. pc[c] \in {"over", "marking"}
            BY <5>3, <6>1, EchoServed
          <6> QED BY <3>1, <6>2
        <5> QED BY <5>1, <5>2, <5>3, NewPieces
      <4>4. ASSUME NEW i \in DOMAIN reads', NEW x \in reads'[i].data PROVE x \in Own(c)
        BY <3>2, <4>1, NewReads
      <4> QED BY <4>3, <4>4
    <3>6. Own(c)' = Own(c)
      BY DEF Own, Content
    <3> QED BY <3>3, <3>4, <3>5, <3>6
  <2> QED BY <2>1, <2>2
<1> QED
  BY <1>1 DEF PastBarrier

\* Every step keeps the data in order.
LEMMA DataKept ==
  ASSUME WebInv, Next
  PROVE  DataInv'
BY DataTypesKept, BoundedKept, OneReadKept, ArrivingKept, ReportedKept, MarkingKept, RoundsKept, MarkerLastKept,
   PastBarrierKept DEF DataInv

-----------------------------------------------------------------------------
(* The invariant and its theorems                                          *)

\* Nothing has happened yet.
LEMMA WebInit == Init => WebInv
<1> SUFFICES ASSUME Init PROVE WebInv
  OBVIOUS
<1> USE WebAssumption
<1>0. DOMAIN ctrl = {} /\ DOMAIN pipe = {} /\ DOMAIN reads = {} /\ NoConn \in 0..MaxConns /\ NoConn \notin Conns
      /\ 0 \in 0..EchoRetries /\ Len(pipe) = 0 /\ Len(reads) = 0
      /\ \A c \in Conns : queue[c] = <<>> /\ DOMAIN queue[c] = {} /\ Len(queue[c]) = 0
  BY DEF Init, NoConn, Conns
<1>1. PageInv
  <2>1. CallTypes
    BY DEF Init, CallTypes, Replies
  <2>2. TaskTypes
    BY DEF Init, TaskTypes
  <2>3. FlagTypes
    <3>1. told \in [Conns -> BOOLEAN] /\ dead \in [Conns -> BOOLEAN] /\ error \in [Conns -> BOOLEAN]
      BY DEF Init
    <3>2. tx \in [Conns -> BOOLEAN] /\ rx \in [Conns -> BOOLEAN] /\ fails \in 0..MaxFails
      BY DEF Init
    <3>3. claimed \in BOOLEAN /\ gone \in BOOLEAN
      BY DEF Init
    <3> QED BY <3>1, <3>2, <3>3 DEF FlagTypes
  <2>4. Running /\ OneUser
    <3>1. \A c \in Conns : \A d \in Dirs : task[c][d] = "off"
      BY DEF Init
    <3>2. \A c \in Conns : pc[c] = "idle" /\ guard[c] = {} /\ status[c] = "off" /\ tries[c] = 0
      BY DEF Init
    <3>3. Running
      BY <3>1, <3>2 DEF Running, Early
    <3>4. OneUser
      BY <3>2 DEF OneUser
    <3> QED BY <3>3, <3>4
  <2>5. Locking /\ LastTask
    BY DEF Init, Locking, LastTask
  <2> QED BY <2>1, <2>2, <2>3, <2>4, <2>5 DEF PageInv
<1>2. CallsInv
  <2>1. ctrl \in Seq(InFlight)
    BY DEF Init
  <2>2. Awaiting
    BY Names DEF Init, Awaiting
  <2> QED BY <1>0, <2>1, <2>2 DEF CallsInv, CallersWait, OneEach, Sorted
<1>3. DeviceInv
  <2>1. DeviceTypes /\ Opening
    BY <1>0 DEF Init, DeviceTypes, Opening
  <2>2. Cleared
    BY DEF Init, Cleared, Past
  <2> QED BY <2>1, <2>2 DEF DeviceInv
<1>4. DataInv
  <2>1. DataTypes
    <3>1. NoTransfer \in Transfers
      BY <1>0 DEF NoTransfer, Transfers
    <3>2. arrived \in [Conns -> Transfers] /\ haltSeen \in [Conns -> 0..MaxConns]
      BY <1>0, <3>1 DEF Init
    <3>3. <<>> \in Seq(SUBSET Contents) /\ <<>> \in Seq(Reads) /\ <<>> \in Seq(Pieces)
      OBVIOUS
    <3>4. queue = [c \in Conns |-> <<>>] /\ reads = <<>> /\ pipe = <<>>
      BY DEF Init
    <3>5. queue \in [Conns -> Seq(SUBSET Contents)]
      BY <3>3, <3>4
    <3> QED BY <3>2, <3>3, <3>4, <3>5 DEF DataTypes
  <2>2. Bounded
    BY <1>0 DEF Bounded
  <2>3. OneRead /\ Arriving
    BY <1>0 DEF Init, OneRead, Arriving, NoTransfer
  <2>4. Reported
    BY DEF Init, Reported
  <2>5. Marking
    BY <1>0 DEF Marking
  <2>6. Rounds /\ MarkerLast /\ PastBarrier
    BY <1>0 DEF Init, Rounds, MarkerLast, PastBarrier, NoTransfer
  <2> QED BY <2>1, <2>2, <2>3, <2>4, <2>5, <2>6 DEF DataInv
<1> QED BY <1>1, <1>2, <1>3, <1>4 DEF WebInv

\* A step in which nothing changes keeps it, too.
LEMMA WebStutters == WebInv /\ UNCHANGED vars => WebInv'
<1> SUFFICES ASSUME WebInv, UNCHANGED vars PROVE WebInv'
  OBVIOUS
<1> USE DEF vars, connVars, taskVars, statVars, halfVars, appVars, usbVars, envVars, devVars, sideVars, epVars
<1>1. PageInv'
  <2>1. (CallTypes /\ TaskTypes /\ FlagTypes)'
    BY DEF WebInv, PageInv, CallTypes, TaskTypes, FlagTypes
  <2>2. (Running /\ OneUser)'
    BY DEF WebInv, PageInv, Running, Early, OneUser
  <2>3. (Locking /\ LastTask)'
    BY DEF WebInv, PageInv, Locking, LastTask
  <2> QED BY <2>1, <2>2, <2>3 DEF PageInv
<1>2. CallsInv'
  <2>1. ASSUME NEW r, Expected(r) PROVE Expected(r)'
    BY <2>1 DEF Expected, Waits, Asked
  <2>2. \A i \in DOMAIN ctrl : Expected(ctrl[i])'
    BY <2>1 DEF WebInv, CallsInv, CallersWait
  <2>3. CallersWait'
    BY <2>2 DEF WebInv, CallsInv, CallersWait
  <2>4. (OneEach /\ Sorted /\ Awaiting)'
    BY DEF WebInv, CallsInv, OneEach, Sorted, Awaiting
  <2> QED BY <2>3, <2>4 DEF CallsInv
<1>3. DeviceInv'
  BY DEF WebInv, DeviceInv, DeviceTypes, Opening, Cleared, Past
<1>4. DataInv'
  <2>1. (DataTypes /\ Bounded /\ OneRead /\ Arriving)'
    BY DEF WebInv, DataInv, DataTypes, Bounded, OneRead, Arriving
  <2>2. (Reported /\ Marking)'
    BY DEF WebInv, DataInv, Reported, Stopped, Marking
  <2>3. Rounds'
    BY DEF WebInv, DataInv, Rounds, Asking
  <2>4. MarkerLast'
    BY DEF WebInv, DataInv, MarkerLast, NotYet, Behind, AllRead, Marker
  <2>5. PastBarrier'
    BY DEF WebInv, DataInv, PastBarrier, Own
  <2> QED BY <2>1, <2>2, <2>3, <2>4, <2>5 DEF DataInv
<1> QED BY <1>1, <1>2, <1>3, <1>4 DEF WebInv

\* The invariant holds in every state that the page, the browser and the device reach.
THEOREM WebInvariant == Spec => []WebInv
<1>1. WebInv /\ [Next]_vars => WebInv'
  BY PageKept, CallsKept, OpeningKept, ClearedKept, DataKept, WebStutters DEF WebInv, DeviceInv
<1> QED BY <1>1, WebInit, PTL DEF Spec

\* TypeOK: every variable keeps its range, the queues of the connections and
\* the IN pipe their capacity.
THEOREM WebTypes == Spec => []TypeOK
<1>1. WebInv => TypeOK
  <2> SUFFICES ASSUME WebInv PROVE TypeOK
    OBVIOUS
  <2>1. CallTypes /\ TaskTypes /\ FlagTypes
    BY DEF WebInv, PageInv
  <2>2. \A c \in Conns : arrived[c].kind \in {"none", "data", "halt", "err"}
    BY DEF WebInv, DataInv, DataTypes, Transfers
  <2>3. \A i \in DOMAIN ctrl : ctrl[i].conn \in Conns /\ ctrl[i].by \in Holders /\ ctrl[i].kind \in Requests
    <3>1. ctrl \in Seq(InFlight)
      BY DEF WebInv, CallsInv, CallersWait
    <3>2. \A i \in DOMAIN ctrl : ctrl[i] \in InFlight
      BY <3>1
    <3> QED BY <3>2 DEF InFlight
  <2>4. \A c \in Conns : Len(queue[c]) <= QueueLen
    BY DEF WebInv, DataInv, Bounded
  <2>5. Len(reads) <= MaxConns + 1 /\ pipe \in Seq(Pieces) /\ Len(pipe) <= MaxPipe + 1
    <3>1. reads \in Seq(Reads) /\ Len(reads) <= 1 /\ pipe \in Seq(Pieces) /\ Len(pipe) <= MaxPipe + 1
      BY DEF WebInv, DataInv, DataTypes, OneRead, Bounded
    <3> QED BY <3>1, WebAssumption
  <2>6. haltSeen \in [Conns -> 0..MaxConns] /\ open \in 0..MaxConns /\ haltIn \in 0..MaxConns
    BY DEF WebInv, DataInv, DataTypes, DeviceInv, DeviceTypes
  <2>7. {dsend, drecv, echoing, haltOut} \subseteq BOOLEAN
    BY DEF WebInv, DeviceInv, DeviceTypes
  <2> QED BY <2>1, <2>2, <2>3, <2>4, <2>5, <2>6, <2>7 DEF TypeOK, CallTypes, TaskTypes, FlagTypes
<1> QED BY <1>1, WebInvariant, PTL

\* CloseIsLast: the task that sends CLOSE does so when the other one has
\* nothing more to say.
THEOREM WebCloseIsLast == Spec => []CloseIsLast
<1>1. WebInv => CloseIsLast
  BY DEF WebInv, PageInv, LastTask, CloseIsLast
<1> QED BY <1>1, WebInvariant, PTL

\* EndIsReported: recv() of an open connection ends without an error only after
\* the device ended the stream of this connection.
THEOREM WebEndIsReported == Spec => []EndIsReported
<1>1. WebInv => EndIsReported
  BY DEF WebInv, DataInv, Reported, Stopped, EndIsReported, QueueEnded
<1> QED BY <1>1, WebInvariant, PTL

\* FirstDataIsOwn: no marker, and no data of an earlier connection or of an
\* earlier page, gets past the ECHO barrier.
THEOREM WebFirstData == Spec => []FirstDataIsOwn
<1>1. WebInv => FirstDataIsOwn
  <2> SUFFICES ASSUME WebInv, NEW c \in Conns, pc[c] \in {"open", "done"}, tries[c] > 0,
                      NEW t \in ToSet(queue[c]) \union {arrived[c].data}
               PROVE  t \subseteq {Content(c, 0)}
    BY DEF FirstDataIsOwn
  <2>1. /\ \A i \in DOMAIN queue[c] : queue[c][i] \subseteq Own(c)
        /\ arrived[c].data \subseteq Own(c)
    BY DEF WebInv, DataInv, PastBarrier
  <2> QED BY <2>1 DEF ToSet, Own
<1> QED BY <1>1, WebInvariant, PTL

\* A step that takes a request from the device's queue and closes a connection
LEMMA ForeignRequest ==
  ASSUME WebInv, Next, NEW c \in Conns, open = c, ctrl # <<>>, ctrl' = Tail(ctrl),
         open' # c \/ (dsend /\ ~dsend') \/ (drecv /\ ~drecv')
  PROVE  Head(ctrl).conn = c \/ gone' \/ (Head(ctrl).by = "connect" /\ guard[c] = {})
<1> USE DEF usbVars, sideVars, devVars
<1>t. /\ PageInv /\ ctrl \in Seq(InFlight) /\ Head(ctrl) \in InFlight /\ Expected(Head(ctrl))
      /\ Head(ctrl).conn \in Conns /\ Head(ctrl).by \in Holders
  BY CtrlRange DEF WebInv, CallsInv, CallersWait, InFlight
<1>l. ctrl' # ctrl
  <2>1. ASSUME NEW s \in Seq(InFlight), s # <<>> PROVE Tail(s) # s
    <3>1. Len(Tail(s)) = Len(s) - 1 /\ Len(s) \in Nat
      BY <2>1
    <3>2. Len(s) - 1 # Len(s)
      BY <3>1
    <3> QED BY <3>1, <3>2, Zenon
  <2>2. Tail(ctrl) # ctrl
    BY <1>t, <2>1
  <2> QED BY <2>2, Zenon
<1>1. CASE Serve
  <2>1. CASE Head(ctrl).by \in Dirs
    <3>1. Waits(Head(ctrl).conn, Head(ctrl).by)
      BY <1>t, <2>1, Names DEF Expected
    <3>2. Head(ctrl).by \in guard[Head(ctrl).conn] /\ ~Early(Head(ctrl).conn)
      BY <1>t, <2>1, <3>1 DEF Waits, PageInv, Running
    <3>3. Past(Head(ctrl).conn)
      BY <3>2 DEF Past, Early
    <3>4. open \in {NoConn, Head(ctrl).conn}
      BY <1>t, <3>3, Serving
    <3> QED BY <3>4, Names
  <2>2. CASE Head(ctrl).by = "status"
    <3>1. Head(ctrl).kind = "STATUS"
      BY <1>t, <2>2, Names DEF Expected
    <3>2. DevStatus
      BY <1>1, <3>1 DEF Serve, DevClose, DevOpen, DevCaps, DevEcho, DevCloseSend, DevCloseRecv, Handles
    <3> QED BY <3>2 DEF DevStatus
  <2>3. CASE Head(ctrl).by = "connect" /\ guard[c] # {}
    <3>1. pc[c] \in {"open", "done", "over"}
      BY Names DEF WebInv, DeviceInv, Opening
    <3>2. Past(c)
      BY <2>3, <3>1 DEF Past
    <3> QED BY <3>2, Serving
  <2> QED BY <1>t, <2>1, <2>2, <2>3, Names
<1>2. ASSUME NEW b \in Conns, ConnectNext(b) \/ InTask(b) \/ OutTask(b) \/ StatusNext(b) \/ AppNext(b)
      PROVE  FALSE
  BY <1>2, PageSteps
<1>3. ASSUME DevEchoFlushed \/ DevSends \/ DevEndsSend \/ DevEndsRecv \/ DevTimesOut \/ BusNext PROVE ctrl' = ctrl
  BY <1>3 DEF DevEchoFlushed, DevSends, DevEndsSend, DevEndsRecv, DevTimesOut, BusNext, BusIn, BusStall, hostSide
<1>4. ASSUME RequestFails \/ PageKilled PROVE FALSE
  BY <1>4 DEF RequestFails, PageKilled
<1>5. CASE Unplug
  BY <1>5 DEF Unplug
<1> QED
  BY <1>1, <1>2, <1>3, <1>4, <1>5, <1>l DEF Next, DeviceNext

\* NoForeignClose: a request that closes an open connection is made by its own
\* tasks, or by a connect_with that found all of them ended.
THEOREM WebNoForeignClose == Spec => NoForeignClose
<1>1. WebInv /\ [Next]_vars =>
        [\A c \in Conns :
           open = c /\ ctrl # <<>> /\ ctrl' = Tail(ctrl)
             /\ (open' # c \/ (dsend /\ ~dsend') \/ (drecv /\ ~drecv'))
           => \/ Head(ctrl).conn = c \/ gone'
              \/ Head(ctrl).by = "connect" /\ guard[c] = {}]_vars
  BY ForeignRequest
<1> QED
  BY <1>1, WebInvariant, PTL DEF Spec, NoForeignClose
=============================================================================
