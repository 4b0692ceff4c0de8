----------------------------- MODULE UpcHostProofs -----------------------------
(***************************************************************************)
(* Proofs about the native host, for any number of connections, requests,  *)
(* failures and transfers: that CLOSE comes once and last (CloseIsLast of  *)
(* UpcHost), that the requests and transfers of two connections are kept   *)
(* apart (NoForeignClose and RecvIsOwn), that no queue exceeds its         *)
(* capacity (TypeOK), that a connection torn down is closed                *)
(* (TornDownIsClosed), that the capabilities are understood                *)
(* (CapsUnderstood), and that polls are in time (PollsInTime).             *)
(*                                                                         *)
(* The argument for the first is that of a mutex held across awaits: a     *)
(* task that waits for a request of its own holds the lock of the          *)
(* HalfCloseHandle alone (Alone); whoever finds the other direction shut   *)
(* finds a task that has got past its requests, and as that one does not   *)
(* hold the lock, it has ended.  Requests in flight belong to callers that *)
(* still wait for them (CallersWait), one for each caller (OneEach), so    *)
(* that none of an ended task or of connect_with can be behind the CLOSE.  *)
(***************************************************************************)
EXTENDS UpcHost, UpcCapsProofs, TLAPS

Waits(c, d) == task[c][d] \in {"half", "close"}
Gone(c, d)  == task[c][d] \in {"off", "ended"}

InFlight == [conn : Conns, by : Holders, kind : Requests]
Results  == {"none", "ok", "recv_closed", "err"}

\* The ranges of the variables that the argument is about
TaskRanges ==
    /\ pc \in [Conns -> {"idle", "close", "caps", "hostcaps", "open", "done", "over"}]
    /\ task \in [Conns -> [Dirs -> Steps]]
    /\ holders \in [Conns -> SUBSET Holders]
    /\ shut \in [Conns -> SUBSET Dirs] /\ lock \in [Conns -> SUBSET Dirs]
CallRanges == reply \in [Conns -> [Holders -> Results]] /\ ctrl \in Seq(InFlight)

\* The tasks run only in a connection that connect_with has returned; they hold
\* its interface, and no direction is shut before.
Running ==
    \A c \in Conns :
        /\ pc[c] # "done" => \A d \in Dirs : Gone(c, d)
        /\ pc[c] \notin {"done", "over"} => shut[c] = {}
        /\ \A d \in Dirs : Gone(c, d) \/ d \in holders[c]

\* The mutex of the HalfCloseHandle
Alone ==
    \A c \in Conns : \A d \in Dirs :
        /\ Waits(c, d) => lock[c] = {d}
        /\ d \in shut[c] => Waits(c, d) \/ task[c][d] = "ended"

LastTask ==
    \A c \in Conns : \A d, e \in Dirs : task[c][d] = "close" /\ e # d => task[c][e] = "ended"

TasksInv == TaskRanges /\ Running /\ Alone /\ LastTask

\* Somebody waits for the reply to a request in flight.
Expected(c, h, k) ==
    /\ h \in Dirs => /\ Waits(c, h) /\ reply[c][h] = "none"
                     /\ k = "CLOSE" => task[c][h] = "close"
    /\ h = "connect" => /\ pc[c] \notin {"idle", "done"}
                        /\ pc[c] = "over" \/ reply[c][h] = "none"

CallersWait == \A i \in DOMAIN ctrl : Expected(ctrl[i].conn, ctrl[i].by, ctrl[i].kind)

OneEach ==
    \A i, j \in DOMAIN ctrl :
        ctrl[i].conn = ctrl[j].conn /\ ctrl[i].by = ctrl[j].by /\ ctrl[i].by # "status" => i = j

CallsInv == CallRanges /\ CallersWait /\ OneEach

CloseInv == TasksInv /\ CallsInv

\* Nothing of a caller is in flight.
Silent(c, h) == \A i \in DOMAIN ctrl : ctrl[i].conn # c \/ ctrl[i].by # h

-----------------------------------------------------------------------------
(* Sequences                                                               *)

\* A sequence has a length, and elements of its set.
LEMMA EntryRange ==
  ASSUME NEW S, NEW s \in Seq(S)
  PROVE  Len(s) \in Nat /\ DOMAIN s = 1..Len(s) /\ \A i \in DOMAIN s : s[i] \in S
  OBVIOUS

\* The rest of a sequence is the sequence moved by one.
LEMMA TailRange ==
  ASSUME NEW S, NEW s \in Seq(S), s # <<>>
  PROVE  /\ Tail(s) \in Seq(S) /\ Head(s) = s[1] /\ 1 \in DOMAIN s
         /\ \A i \in DOMAIN Tail(s) : i + 1 \in DOMAIN s /\ Tail(s)[i] = s[i + 1] /\ i \in Nat \ {0}
  OBVIOUS

\* Append adds one element behind those that were there.
LEMMA AppendRange ==
  ASSUME NEW S, NEW s \in Seq(S), NEW x \in S
  PROVE  /\ Append(s, x) \in Seq(S)
         /\ \A i \in DOMAIN Append(s, x) :
               \/ i \in DOMAIN s /\ Append(s, x)[i] = s[i]
               \/ i = Len(s) + 1 /\ Append(s, x)[i] = x
  OBVIOUS

-----------------------------------------------------------------------------
(* The requests in flight                                                  *)

\* Requests in flight have a connection, a caller and a kind.
LEMMA CtrlRange ==
  CallRanges => \A i \in DOMAIN ctrl : /\ ctrl[i].conn \in Conns /\ ctrl[i].by \in Holders
                                       /\ ctrl[i].kind \in Requests
<1> SUFFICES ASSUME CallRanges, NEW i \in DOMAIN ctrl PROVE ctrl[i] \in InFlight
  BY DEF InFlight
<1> QED
  BY EntryRange DEF CallRanges

\* Who is not expected to wait has nothing in flight.
LEMMA NotExpected ==
  ASSUME CallsInv, NEW c \in Conns, NEW h \in Holders, \A k \in Requests : ~Expected(c, h, k)
  PROVE  Silent(c, h)
<1> SUFFICES ASSUME NEW i \in DOMAIN ctrl, ctrl[i].conn = c, ctrl[i].by = h PROVE FALSE
  BY DEF Silent
<1> QED
  BY CtrlRange DEF CallsInv, CallersWait

\* Nothing is sent: the callers of what is in flight go on waiting.
LEMMA CallsStay ==
  ASSUME CallsInv, ctrl' = ctrl, reply' \in [Conns -> [Holders -> Results]],
         \A c \in Conns : \A h \in Holders : \A k \in Requests :
            Expected(c, h, k) => Expected(c, h, k)' \/ Silent(c, h)
  PROVE  CallsInv'
<1>1. CallersWait'
  <2> SUFFICES ASSUME NEW i \in DOMAIN ctrl
               PROVE  Expected(ctrl[i].conn, ctrl[i].by, ctrl[i].kind)'
    BY DEF CallersWait
  <2>1. ctrl[i].conn \in Conns /\ ctrl[i].by \in Holders /\ ctrl[i].kind \in Requests
    BY CtrlRange DEF CallsInv
  <2>2. ~Silent(ctrl[i].conn, ctrl[i].by)
    BY DEF Silent
  <2>3. Expected(ctrl[i].conn, ctrl[i].by, ctrl[i].kind)
    BY DEF CallsInv, CallersWait
  <2>4. Expected(ctrl[i].conn, ctrl[i].by, ctrl[i].kind)' \/ Silent(ctrl[i].conn, ctrl[i].by)
    BY <2>1, <2>3
  <2> QED
    BY <2>2, <2>4
<1> QED
  BY <1>1 DEF CallsInv, CallRanges, OneEach

\* A caller of which nothing is in flight makes a request.
LEMMA CallMade ==
  ASSUME CallsInv, NEW c \in Conns, NEW h \in Holders, NEW k \in Requests, Call(c, h, k),
         h = "status" \/ Silent(c, h), gone \/ Expected(c, h, k)',
         \A b \in Conns : \A g \in Holders : \A m \in Requests :
            Expected(b, g, m) => Expected(b, g, m)' \/ Silent(b, g)
  PROVE  CallsInv'
<1> DEFINE x == [conn |-> c, by |-> h, kind |-> k]
<1>1. reply' \in [Conns -> [Holders -> Results]]
  BY DEF CallsInv, CallRanges, Call, Results
<1>2. CASE gone
  BY <1>1, <1>2, CallsStay DEF Call
<1>3. CASE ~gone
  <2>1. ctrl' = Append(ctrl, x) /\ x \in InFlight
    BY <1>3 DEF Call, InFlight
  <2>2. Len(ctrl) \in Nat /\ DOMAIN ctrl = 1..Len(ctrl)
    BY EntryRange DEF CallsInv, CallRanges
  <2>3. ctrl' \in Seq(InFlight)
    BY <2>1, AppendRange DEF CallsInv, CallRanges
  <2>4. \A i \in DOMAIN ctrl' : \/ i \in DOMAIN ctrl /\ ctrl'[i] = ctrl[i]
                                \/ i = Len(ctrl) + 1 /\ ctrl'[i] = x
    BY <2>1, AppendRange DEF CallsInv, CallRanges
  <2>5. CallersWait'
    <3> SUFFICES ASSUME NEW i \in DOMAIN ctrl', NEW q \in InFlight, q = ctrl'[i]
                 PROVE  Expected(q.conn, q.by, q.kind)'
      BY <2>3, EntryRange DEF CallersWait
    <3>1. CASE q = x
      BY <1>3, <3>1
    <3>2. CASE i \in DOMAIN ctrl /\ q = ctrl[i]
      <4>1. q.conn \in Conns /\ q.by \in Holders /\ q.kind \in Requests
        BY DEF InFlight
      <4>2. ~Silent(q.conn, q.by)
        BY <3>2 DEF Silent
      <4>3. Expected(q.conn, q.by, q.kind)
        BY <3>2 DEF CallsInv, CallersWait
      <4>4. Expected(q.conn, q.by, q.kind)' \/ Silent(q.conn, q.by)
        BY <4>1, <4>3
      <4> QED
        BY <4>2, <4>4
    <3> QED
      BY <2>4, <3>1, <3>2
  <2>6. OneEach'
    <3>1. x.conn = c /\ x.by = h
      OBVIOUS
    <3> QED
      BY <2>2, <2>4, <3>1 DEF CallsInv, OneEach, Silent
  <2> QED
    BY <1>1, <2>3, <2>5, <2>6 DEF CallsInv, CallRanges
<1> QED
  BY <1>2, <1>3

\* A request is served, or lost: its reply goes to a caller of which nothing else
\* is in flight.
LEMMA CallServed ==
  ASSUME CallsInv, ctrl # <<>>, ctrl' = Tail(ctrl), NEW res \in Results, Reply(Head(ctrl), res),
         UNCHANGED <<pc, task>>
  PROVE  CallsInv'
<1> DEFINE r == Head(ctrl)
<1>1. /\ ctrl' \in Seq(InFlight) /\ r = ctrl[1] /\ 1 \in DOMAIN ctrl
      /\ \A i \in DOMAIN ctrl' : i + 1 \in DOMAIN ctrl /\ ctrl'[i] = ctrl[i + 1] /\ i \in Nat \ {0}
  BY TailRange DEF CallsInv, CallRanges
<1>2. r.conn \in Conns /\ r.by \in Holders
  BY <1>1, CtrlRange DEF CallsInv
<1>3. reply' \in [Conns -> [Holders -> Results]]
  BY <1>2 DEF CallsInv, CallRanges, Reply
<1>4. \A c \in Conns : \A h \in Holders : c # r.conn \/ h # r.by => reply'[c][h] = reply[c][h]
  BY <1>2 DEF CallsInv, CallRanges, Reply
<1>5. ASSUME NEW i \in DOMAIN ctrl', ctrl'[i].by # "status"
      PROVE  ctrl'[i].conn # r.conn \/ ctrl'[i].by # r.by
  <2>1. i + 1 \in DOMAIN ctrl /\ ctrl'[i] = ctrl[i + 1] /\ i + 1 # 1
    BY <1>1
  <2> QED
    BY <2>1, <1>1, <1>5 DEF CallsInv, OneEach
<1>6. CallersWait'
  <2> SUFFICES ASSUME NEW i \in DOMAIN ctrl', NEW q \in InFlight, q = ctrl'[i]
               PROVE  Expected(q.conn, q.by, q.kind)'
    BY <1>1, EntryRange DEF CallersWait
  <2>1. i + 1 \in DOMAIN ctrl /\ q = ctrl[i + 1]
    BY <1>1
  <2>2. q.conn \in Conns /\ q.by \in Holders
    BY DEF InFlight
  <2>3. Expected(q.conn, q.by, q.kind)
    BY <2>1 DEF CallsInv, CallersWait
  <2>4. q.by # "status" => reply'[q.conn][q.by] = reply[q.conn][q.by]
    BY <1>4, <1>5, <2>2
  <2> QED
    BY <2>3, <2>4 DEF Expected, Waits, Dirs
<1>7. OneEach'
  <2> SUFFICES ASSUME NEW i \in DOMAIN ctrl', NEW j \in DOMAIN ctrl', ctrl'[i].conn = ctrl'[j].conn,
                      ctrl'[i].by = ctrl'[j].by, ctrl'[i].by # "status"
               PROVE  i = j
    BY DEF OneEach
  <2>1. i + 1 = j + 1
    BY <1>1 DEF CallsInv, OneEach
  <2> QED
    BY <2>1, <1>1
<1> QED
  BY <1>1, <1>3, <1>6, <1>7 DEF CallsInv, CallRanges

\* A data task outside its requests, or whose reply has come, has nothing in flight.
LEMMA SilentTask ==
  ASSUME CallsInv, NEW c \in Conns, NEW d \in Dirs, ~Waits(c, d) \/ reply[c][d] # "none"
  PROVE  Silent(c, d)
<1>1. d \in Holders
  BY DEF Dirs, Holders
<1> QED
  BY <1>1, NotExpected DEF Expected

\* So has a connect_with that has not begun, has returned, or got its reply.
LEMMA SilentConnect ==
  ASSUME CallsInv, NEW c \in Conns,
         pc[c] \in {"idle", "done"} \/ (pc[c] # "over" /\ reply[c]["connect"] # "none")
  PROVE  Silent(c, "connect")
<1>1. "connect" \in Holders
  BY DEF Holders
<1> QED
  BY <1>1, NotExpected DEF Expected

-----------------------------------------------------------------------------
(* The steps                                                               *)

\* What the invariant is about; a step that changes none of it keeps it.
closeVars == <<pc, task, holders, shut, lock, reply, ctrl>>

\* Steps of the handles, the bus and the device's data paths change nothing of it.
LEMMA QuietStep == CloseInv /\ UNCHANGED closeVars => CloseInv'
  BY DEF CloseInv, TasksInv, CallsInv, TaskRanges, CallRanges, Running, Alone, LastTask,
         CallersWait, OneEach, Expected, Waits, Gone, closeVars

\* A data task goes from one place to another outside its requests.
LEMMA TaskStep ==
  ASSUME CloseInv, NEW c \in Conns, NEW d \in Dirs,
         NEW s \in {"read", "full", "take", "collect", "drain", "lock"},
         task[c][d] \in {"read", "full", "take", "collect", "drain"},
         task' = [task EXCEPT ![c][d] = s],
         UNCHANGED <<pc, holders, shut, lock, reply, ctrl>>
  PROVE  CloseInv'
<1>1. TaskRanges'
  BY DEF CloseInv, TasksInv, TaskRanges, Steps
<1>2. \A b \in Conns : \A e \in Dirs :
          task'[b][e] = IF b = c /\ e = d THEN s ELSE task[b][e]
  BY DEF CloseInv, TasksInv, TaskRanges
<1>3. pc[c] = "done" /\ d \in holders[c]
  BY DEF CloseInv, TasksInv, Running, Gone
<1>4. Running'
  BY <1>2, <1>3 DEF CloseInv, TasksInv, Running, Gone
<1>5. Alone' /\ LastTask'
  BY <1>2 DEF CloseInv, TasksInv, Alone, LastTask, Waits
<1>6. CallsInv'
  BY <1>2, CallsStay DEF CloseInv, CallsInv, CallRanges, Expected, Waits
<1> QED
  BY <1>1, <1>4, <1>5, <1>6 DEF CloseInv, TasksInv

\* status_task makes a request, takes a reply, or ends.
LEMMA StatusStep ==
  ASSUME CloseInv, NEW c \in Conns, StatusNext(c)
  PROVE  CloseInv'
<1>0. "status" \in Holders /\ "status" \notin Dirs /\ "STATUS" \in Requests
  BY DEF Holders, Dirs, Requests
<1>1. UNCHANGED <<pc, task, shut, lock>>
  BY DEF StatusNext, PollStatus, StatusAnswered, StatusFailed, StatusEnds, connVars, taskVars, halfVars
<1>2. holders' = holders \/ holders' = [holders EXCEPT ![c] = @ \ {"status"}]
  BY DEF StatusNext, PollStatus, StatusAnswered, StatusFailed, StatusEnds
<1>3. \A b \in Conns : holders'[b] \subseteq Holders /\ (\A d \in Dirs : d \in holders[b] => d \in holders'[b])
  BY <1>0, <1>2 DEF CloseInv, TasksInv, TaskRanges
<1>4. TasksInv'
  <2>1. holders' \in [Conns -> SUBSET Holders]
    BY <1>2 DEF CloseInv, TasksInv, TaskRanges
  <2>2. TaskRanges'
    BY <1>1, <2>1 DEF CloseInv, TasksInv, TaskRanges
  <2>3. Running'
    BY <1>1, <1>3 DEF CloseInv, TasksInv, Running, Gone
  <2>4. Alone' /\ LastTask'
    BY <1>1 DEF CloseInv, TasksInv, Alone, LastTask, Waits
  <2> QED
    BY <2>2, <2>3, <2>4 DEF TasksInv
<1>5. CASE Call(c, "status", "STATUS")
  <2>1. \A b \in Conns : \A h \in Holders : h # "status" => reply'[b][h] = reply[b][h]
    BY <1>5 DEF CloseInv, CallsInv, CallRanges, Call
  <2>2. \A b \in Conns : \A h \in Holders : \A k \in Requests : Expected(b, h, k) => Expected(b, h, k)'
    BY <1>0, <1>1, <2>1 DEF Expected, Waits
  <2>3. Expected(c, "status", "STATUS")'
    BY <1>0 DEF Expected
  <2>4. CallsInv'
    BY <1>0, <1>5, <2>2, <2>3, CallMade DEF CloseInv
  <2> QED
    BY <1>4, <2>4 DEF CloseInv
<1>6. CASE ctrl' = ctrl /\ (reply' = reply \/ Taken(c, "status"))
  <2>1. \A b \in Conns : \A h \in Holders : h # "status" => reply'[b][h] = reply[b][h]
    BY <1>6 DEF CloseInv, CallsInv, CallRanges, Taken
  <2>2. \A b \in Conns : \A h \in Holders : \A k \in Requests : Expected(b, h, k) => Expected(b, h, k)'
    BY <1>0, <1>1, <2>1 DEF Expected, Waits
  <2>3. reply' \in [Conns -> [Holders -> Results]]
    BY <1>6 DEF CloseInv, CallsInv, CallRanges, Taken, Results
  <2>4. CallsInv'
    BY <1>6, <2>2, <2>3, CallsStay DEF CloseInv
  <2> QED
    BY <1>4, <2>4 DEF CloseInv
<1> QED
  BY <1>5, <1>6 DEF StatusNext, PollStatus, StatusAnswered, StatusFailed, StatusEnds, usbVars

\* connect_with, whether its flush ends with an empty pipe or a failed transfer
LEMMA ConnectSteps ==
  ASSUME NEW c \in Conns, ConnectNext(c)
  PROVE  Refused(c) \/ FlushRead(c) \/ AskCaps(c) \/ SendCaps(c) \/ SendOpen(c) \/ Opened(c)
  BY DEF ConnectNext, QueryCaps, FlushFails

\* connect_with fails or is dropped: no task of the connection was started.
LEMMA EndsStep ==
  ASSUME CloseInv, NEW c \in Conns, GiveUp(c) \/ Refused(c)
  PROVE  CloseInv'
<1>1. Ends(c) /\ pc[c] \notin {"idle", "done", "over"}
  BY DEF GiveUp, Refused
<1>2. "connect" \in Holders /\ "connect" \notin Dirs
  BY DEF Holders, Dirs
<1>3. UNCHANGED <<task, shut, lock, ctrl>>
  BY <1>1 DEF Ends, taskVars, halfVars
<1>4. \A b \in Conns : /\ pc'[b] = IF b = c THEN "over" ELSE pc[b]
                       /\ holders'[b] = IF b = c THEN {} ELSE holders[b]
  BY <1>1 DEF Ends, CloseInv, TasksInv, TaskRanges
<1>5. TaskRanges'
  BY <1>1, <1>3 DEF Ends, CloseInv, TasksInv, TaskRanges
<1>6. Running'
  BY <1>1, <1>3, <1>4 DEF CloseInv, TasksInv, Running, Gone
<1>7. Alone' /\ LastTask'
  BY <1>3 DEF CloseInv, TasksInv, Alone, LastTask, Waits
<1>8. CallsInv'
  <2>1. reply' \in [Conns -> [Holders -> Results]]
    BY <1>1 DEF Ends, Taken, CloseInv, CallsInv, CallRanges, Results
  <2>2. \A b \in Conns : \A h \in Holders : b # c \/ h # "connect" => reply'[b][h] = reply[b][h]
    BY <1>1 DEF Ends, Taken, CloseInv, CallsInv, CallRanges
  <2>3. \A b \in Conns : \A h \in Holders : \A k \in Requests : Expected(b, h, k) => Expected(b, h, k)'
    BY <1>2, <1>3, <1>4, <2>2 DEF Expected, Waits
  <2> QED
    BY <1>3, <2>1, <2>3, CallsStay DEF CloseInv
<1> QED
  BY <1>5, <1>6, <1>7, <1>8 DEF CloseInv, TasksInv

\* connect_with got its reply and makes the next request.
LEMMA ConnectStep ==
  ASSUME CloseInv, NEW c \in Conns, AskCaps(c) \/ SendCaps(c) \/ SendOpen(c)
  PROVE  CloseInv'
<1>1. PICK k \in Requests, s \in {"caps", "hostcaps", "open"} :
         Call(c, "connect", k) /\ pc' = [pc EXCEPT ![c] = s]
  BY DEF AskCaps, SendCaps, SendOpen, Requests
<1>2. pc[c] \in {"close", "caps", "hostcaps"} /\ reply[c]["connect"] # "none"
  BY ZenonT(60) DEF AskCaps, SendCaps, SendOpen, Answered
<1>3. UNCHANGED <<task, holders, shut, lock>>
  BY DEF AskCaps, SendCaps, SendOpen, taskVars, halfVars
<1>4. "connect" \in Holders /\ "connect" \notin Dirs
  BY DEF Holders, Dirs
<1>5. \A b \in Conns : pc'[b] = IF b = c THEN s ELSE pc[b]
  BY <1>1 DEF CloseInv, TasksInv, TaskRanges
<1>6. TaskRanges'
  BY <1>1, <1>3 DEF CloseInv, TasksInv, TaskRanges
<1>7. Running'
  BY <1>2, <1>3, <1>5 DEF CloseInv, TasksInv, Running, Gone
<1>8. Alone' /\ LastTask'
  BY <1>3 DEF CloseInv, TasksInv, Alone, LastTask, Waits
<1>9. CallsInv'
  <2>1. Silent(c, "connect")
    BY <1>2, SilentConnect DEF CloseInv
  <2>2. \A b \in Conns : \A h \in Holders : b # c \/ h # "connect" => reply'[b][h] = reply[b][h]
    BY <1>1 DEF Call, CloseInv, CallsInv, CallRanges
  <2>3. \A b \in Conns : \A h \in Holders : \A m \in Requests :
           Expected(b, h, m) => Expected(b, h, m)' \/ Silent(b, h)
    BY <1>3, <1>4, <1>5, <2>1, <2>2 DEF Expected, Waits
  <2>4. ~gone => reply'[c]["connect"] = "none"
    BY <1>1, <1>4 DEF Call, CloseInv, CallsInv, CallRanges
  <2>5. gone \/ Expected(c, "connect", k)'
    BY <1>4, <1>5, <2>4 DEF Expected
  <2> QED
    BY <1>1, <1>4, <2>1, <2>3, <2>5, CallMade DEF CloseInv
<1> QED
  BY <1>6, <1>7, <1>8, <1>9 DEF CloseInv, TasksInv

\* connect_with returns, and both tasks begin: no direction is shut, nor locked.
LEMMA OpenedStep ==
  ASSUME CloseInv, NEW c \in Conns, Opened(c)
  PROVE  CloseInv'
<1>1. \A b \in Conns : /\ pc'[b] = IF b = c THEN "done" ELSE pc[b]
                       /\ task'[b] = IF b = c THEN [in |-> "read", out |-> "take"] ELSE task[b]
                       /\ b # c => holders'[b] = holders[b]
  BY DEF Opened, CloseInv, TasksInv, TaskRanges
<1>2. holders'[c] \subseteq Holders /\ "in" \in holders'[c] /\ "out" \in holders'[c]
  BY DEF Opened, CloseInv, TasksInv, TaskRanges, Holders
<1>3. pc[c] = "open" /\ reply[c]["connect"] = "ok" /\ shut[c] = {} /\ UNCHANGED <<shut, lock, ctrl>>
  BY DEF Opened, halfVars, CloseInv, TasksInv, Running
<1>4. "connect" \in Holders /\ "connect" \notin Dirs
  BY DEF Holders, Dirs
<1>5. task'[c]["in"] = "read" /\ task'[c]["out"] = "take" /\ ~Waits(c, "in") /\ ~Waits(c, "out")
  BY <1>1, <1>3 DEF CloseInv, TasksInv, Running, Gone, Waits, Dirs
<1>6. \A b \in Conns : \A d \in Dirs : b # c => task'[b][d] = task[b][d]
  BY <1>1
<1>7. TaskRanges'
  <2>1. [in |-> "read", out |-> "take"] \in [Dirs -> Steps]
    BY DEF Dirs, Steps
  <2>2. pc' \in [Conns -> {"idle", "close", "caps", "hostcaps", "open", "done", "over"}]
    BY DEF Opened, CloseInv, TasksInv, TaskRanges
  <2>3. task' \in [Conns -> [Dirs -> Steps]]
    BY <2>1 DEF Opened, CloseInv, TasksInv, TaskRanges
  <2>4. holders' \in [Conns -> SUBSET Holders]
    BY <1>2 DEF Opened, CloseInv, TasksInv, TaskRanges
  <2> QED
    BY <1>3, <2>2, <2>3, <2>4 DEF CloseInv, TasksInv, TaskRanges
<1>8. Running'
  <2> SUFFICES ASSUME NEW b \in Conns
               PROVE  /\ pc'[b] # "done" => \A d \in Dirs : Gone(b, d)'
                      /\ pc'[b] \notin {"done", "over"} => shut'[b] = {}
                      /\ \A d \in Dirs : Gone(b, d)' \/ d \in holders'[b]
    BY DEF Running
  <2>1. CASE b = c
    BY <1>1, <1>2, <2>1 DEF Dirs
  <2>2. CASE b # c
    BY <1>1, <1>3, <1>6, <2>2 DEF CloseInv, TasksInv, Running, Gone
  <2> QED
    BY <2>1, <2>2
<1>9. Alone' /\ LastTask'
  BY <1>3, <1>5, <1>6 DEF CloseInv, TasksInv, Alone, LastTask, Waits, Dirs
<1>10. CallsInv'
  <2>1. Silent(c, "connect")
    BY <1>3, SilentConnect DEF CloseInv
  <2>2. Silent(c, "in") /\ Silent(c, "out")
    BY <1>5, SilentTask DEF CloseInv, Dirs
  <2>3. reply' \in [Conns -> [Holders -> Results]]
    BY DEF Opened, Taken, CloseInv, CallsInv, CallRanges, Results
  <2>4. \A b \in Conns : \A h \in Holders : b # c \/ h # "connect" => reply'[b][h] = reply[b][h]
    BY DEF Opened, Taken, CloseInv, CallsInv, CallRanges
  <2>5. \A b \in Conns : \A h \in Holders : \A m \in Requests :
           Expected(b, h, m) => Expected(b, h, m)' \/ Silent(b, h)
    BY <1>1, <1>4, <1>6, <2>1, <2>2, <2>4 DEF Expected, Waits, Dirs
  <2> QED
    BY <1>3, <2>3, <2>5, CallsStay DEF CloseInv
<1> QED
  BY <1>7, <1>8, <1>9, <1>10 DEF CloseInv, TasksInv

\* connect_with claims the interface: of the connections that are forgotten no
\* task is running, for it would hold the interface.
LEMMA ClaimStep ==
  ASSUME CloseInv, NEW c \in Conns, ClaimInterface(c)
  PROVE  CloseInv'
<1> DEFINE Forgotten(b) == b < c /\ holders[b] = {}
<1>1. pc[c] = "idle" /\ lock' = lock /\ Call(c, "connect", "CLOSE")
  BY DEF ClaimInterface
<1>2. \A b \in Conns :
         /\ pc'[b] = IF b = c THEN "close" ELSE IF Forgotten(b) THEN "over" ELSE pc[b]
         /\ task'[b] = IF Forgotten(b) THEN [d \in Dirs |-> "ended"] ELSE task[b]
         /\ shut'[b] = IF Forgotten(b) THEN {} ELSE shut[b]
         /\ holders'[b] = IF b = c THEN {"connect"} ELSE holders[b]
  BY DEF ClaimInterface, CloseInv, TasksInv, TaskRanges
<1>3. \A b \in Conns : Forgotten(b) => b # c /\ \A d \in Dirs : Gone(b, d)
  BY DEF CloseInv, TasksInv, Running, Conns
<1>4. \A d \in Dirs : Gone(c, d)
  BY <1>1 DEF CloseInv, TasksInv, Running
<1>5. "connect" \in Holders /\ "connect" \notin Dirs /\ "CLOSE" \in Requests
  BY DEF Holders, Dirs, Requests
<1>6. \A b \in Conns : \A d \in Dirs : task'[b][d] = IF Forgotten(b) THEN "ended" ELSE task[b][d]
  BY <1>2
<1>7. TaskRanges'
  <2>1. [d \in Dirs |-> "ended"] \in [Dirs -> Steps]
    BY DEF Steps
  <2>2. pc' \in [Conns -> {"idle", "close", "caps", "hostcaps", "open", "done", "over"}]
    BY DEF ClaimInterface, CloseInv, TasksInv, TaskRanges
  <2>3. task' \in [Conns -> [Dirs -> Steps]]
    BY <2>1 DEF ClaimInterface, CloseInv, TasksInv, TaskRanges
  <2>4. holders' \in [Conns -> SUBSET Holders]
    BY <1>5 DEF ClaimInterface, CloseInv, TasksInv, TaskRanges
  <2>5. shut' \in [Conns -> SUBSET Dirs]
    BY DEF ClaimInterface, CloseInv, TasksInv, TaskRanges
  <2> QED
    BY <1>1, <2>2, <2>3, <2>4, <2>5 DEF CloseInv, TasksInv, TaskRanges
<1>8. Running'
  <2> SUFFICES ASSUME NEW b \in Conns
               PROVE  /\ pc'[b] # "done" => \A d \in Dirs : Gone(b, d)'
                      /\ pc'[b] \notin {"done", "over"} => shut'[b] = {}
                      /\ \A d \in Dirs : Gone(b, d)' \/ d \in holders'[b]
    BY DEF Running
  <2>1. CASE Forgotten(b)
    BY <1>2, <1>3, <1>6, <2>1 DEF Gone
  <2>2. CASE ~Forgotten(b)
    BY <1>1, <1>2, <1>4, <1>6, <2>2 DEF CloseInv, TasksInv, Running, Gone
  <2> QED
    BY <2>1, <2>2
<1>9. Alone' /\ LastTask'
  <2>1. \A b \in Conns : \A d \in Dirs : Waits(b, d)' => Waits(b, d)
    BY <1>6 DEF Waits
  <2>2. Alone'
    BY <1>1, <1>2, <1>6, <2>1 DEF CloseInv, TasksInv, Alone, Waits
  <2>3. LastTask'
    BY <1>6 DEF CloseInv, TasksInv, LastTask
  <2> QED
    BY <2>2, <2>3
<1>10. CallsInv'
  <2>1. Silent(c, "connect")
    BY <1>1, SilentConnect DEF CloseInv
  <2>2. \A b \in Conns : \A h \in Holders : b # c \/ h # "connect" => reply'[b][h] = reply[b][h]
    BY <1>1 DEF Call, CloseInv, CallsInv, CallRanges
  <2>3. \A b \in Conns : \A h \in Holders : \A m \in Requests :
           Expected(b, h, m) => Expected(b, h, m)' \/ Silent(b, h)
    <3> SUFFICES ASSUME NEW b \in Conns, NEW h \in Holders, NEW m \in Requests,
                        Expected(b, h, m), ~Silent(b, h)
                 PROVE  Expected(b, h, m)'
      OBVIOUS
    <3>1. CASE h \in Dirs
      <4>1. Waits(b, h) /\ ~Forgotten(b)
        BY <1>3, <3>1 DEF Expected, Waits, Gone
      <4> QED
        BY <1>5, <1>6, <2>2, <3>1, <4>1 DEF Expected, Waits
    <3>2. CASE h = "connect"
      <4>1. b # c
        BY <2>1, <3>2
      <4> QED
        BY <1>2, <1>5, <2>2, <3>2, <4>1 DEF Expected
    <3>3. CASE h \notin Dirs /\ h # "connect"
      BY <3>3 DEF Expected
    <3> QED
      BY <3>1, <3>2, <3>3
  <2>4. ~gone => reply'[c]["connect"] = "none"
    BY <1>1, <1>5 DEF Call, CloseInv, CallsInv, CallRanges
  <2>5. gone \/ Expected(c, "connect", "CLOSE")'
    BY <1>2, <1>5, <2>4 DEF Expected
  <2> QED
    BY <1>1, <1>5, <2>1, <2>3, <2>5, CallMade DEF CloseInv
<1> QED
  BY <1>7, <1>8, <1>9, <1>10 DEF CloseInv, TasksInv

\* A data task goes from request to request: while it has the mutex the other one
\* is outside its requests, and if that one's direction is shut it has ended.
LEMMA HalfTasks ==
  ASSUME CloseInv, NEW c \in Conns, NEW d \in Dirs, NEW s \in {"half", "close", "ended"},
         task[c][d] \in {"lock", "half", "close"}, lock[c] = {} \/ lock[c] = {d},
         task' = [task EXCEPT ![c][d] = s], UNCHANGED pc,
         lock' = [lock EXCEPT ![c] = IF s = "ended" THEN @ \ {d} ELSE @ \union {d}],
         shut' = shut \/ shut' = [shut EXCEPT ![c] = @ \union {d}],
         s = "close" => shut'[c] = Dirs,
         holders' = IF s = "ended" THEN [holders EXCEPT ![c] = @ \ {d}] ELSE holders
  PROVE  TasksInv'
<1>1. \A b \in Conns : \A e \in Dirs : task'[b][e] = IF b = c /\ e = d THEN s ELSE task[b][e]
  BY DEF CloseInv, TasksInv, TaskRanges
<1>2. \A b \in Conns : lock'[b] = IF b # c THEN lock[b] ELSE IF s = "ended" THEN {} ELSE {d}
  BY DEF CloseInv, TasksInv, TaskRanges
<1>3. \A b \in Conns : \A e \in Dirs : e \in shut'[b] => e \in shut[b] \/ (b = c /\ e = d)
  BY DEF CloseInv, TasksInv, TaskRanges
<1>4. pc[c] = "done" /\ d \in holders[c]
  BY DEF CloseInv, TasksInv, Running, Gone
<1>5. \A b \in Conns : \A e \in Dirs : e \in holders[b] => e \in holders'[b] \/ (b = c /\ e = d /\ s = "ended")
  BY DEF CloseInv, TasksInv, TaskRanges
<1>6. \A e \in Dirs : e # d => ~Waits(c, e)
  BY DEF CloseInv, TasksInv, Alone
<1>7. TaskRanges'
  BY SMTT(40) DEF CloseInv, TasksInv, TaskRanges, Steps
<1>8. Running'
  <2> SUFFICES ASSUME NEW b \in Conns
               PROVE  /\ pc'[b] # "done" => \A e \in Dirs : Gone(b, e)'
                      /\ pc'[b] \notin {"done", "over"} => shut'[b] = {}
                      /\ \A e \in Dirs : Gone(b, e)' \/ e \in holders'[b]
    BY DEF Running
  <2>1. pc'[b] # "done" => b # c /\ shut'[b] = shut[b] /\ \A e \in Dirs : Gone(b, e)'
    BY <1>1, <1>4 DEF CloseInv, TasksInv, TaskRanges, Running, Gone
  <2>2. pc'[b] \notin {"done", "over"} => shut'[b] = {}
    BY <2>1 DEF CloseInv, TasksInv, Running
  <2>3. \A e \in Dirs : Gone(b, e)' \/ e \in holders'[b]
    BY <1>1, <1>4, <1>5 DEF CloseInv, TasksInv, Running, Gone
  <2> QED
    BY <2>1, <2>2, <2>3
<1>9. Alone'
  <2> SUFFICES ASSUME NEW b \in Conns, NEW e \in Dirs
               PROVE  /\ Waits(b, e)' => lock'[b] = {e}
                      /\ e \in shut'[b] => Waits(b, e)' \/ task'[b][e] = "ended"
    BY DEF Alone
  <2>1. CASE b = c /\ e = d
    BY <1>1, <1>2, <2>1 DEF Waits
  <2>2. CASE b = c /\ e # d
    BY <1>1, <1>3, <1>6, <2>2 DEF CloseInv, TasksInv, Alone, Waits
  <2>3. CASE b # c
    BY <1>1, <1>2, <1>3, <2>3 DEF CloseInv, TasksInv, Alone, Waits
  <2> QED
    BY <2>1, <2>2, <2>3
<1>10. LastTask'
  <2> SUFFICES ASSUME NEW b \in Conns, NEW e \in Dirs, NEW f \in Dirs, task'[b][e] = "close", f # e
               PROVE  task'[b][f] = "ended"
    BY DEF LastTask
  <2>1. CASE b # c
    BY <1>1, <2>1 DEF CloseInv, TasksInv, LastTask
  <2>2. CASE b = c /\ e = d
    <3>1. f \in shut[c]
      BY <1>1, <1>3, <2>2
    <3> QED
      BY <1>1, <1>6, <2>2, <3>1 DEF CloseInv, TasksInv, Alone
  <2>3. CASE b = c /\ e # d
    BY <1>1, <1>6, <2>3 DEF Waits
  <2> QED
    BY <2>1, <2>2, <2>3
<1> QED
  BY <1>7, <1>8, <1>9, <1>10 DEF TasksInv

\* Its requests: the one before was answered, and the new one is its own.
LEMMA HalfCalls ==
  ASSUME CloseInv, NEW c \in Conns, NEW d \in Dirs, NEW s \in {"half", "close", "ended"},
         task[c][d] = "lock" \/ Answered(c, d),
         task' = [task EXCEPT ![c][d] = s], UNCHANGED pc,
         \/ s = "half" /\ Call(c, d, Request(d))
         \/ s = "close" /\ Call(c, d, "CLOSE")
         \/ s = "ended" /\ Taken(c, d) /\ UNCHANGED ctrl
  PROVE  CallsInv'
<1>1. d \in Holders /\ d # "connect"
  BY DEF Holders, Dirs
<1>2. Silent(c, d)
  BY SilentTask DEF CloseInv, Answered, Waits
<1>3. \A b \in Conns : \A e \in Dirs : task'[b][e] = IF b = c /\ e = d THEN s ELSE task[b][e]
  BY DEF CloseInv, TasksInv, TaskRanges
<1>4. \A b \in Conns : \A h \in Holders : b # c \/ h # d => reply'[b][h] = reply[b][h]
  BY DEF CloseInv, CallsInv, CallRanges, Call, Taken
<1>5. \A b \in Conns : \A h \in Holders : \A m \in Requests :
         Expected(b, h, m) => Expected(b, h, m)' \/ Silent(b, h)
  <2> SUFFICES ASSUME NEW b \in Conns, NEW h \in Holders, NEW m \in Requests, Expected(b, h, m),
                      b # c \/ h # d
               PROVE  Expected(b, h, m)'
    BY <1>2
  <2> QED
    BY <1>1, <1>3, <1>4 DEF Expected, Waits
<1>6. CASE s = "ended"
  <2>1. reply' \in [Conns -> [Holders -> Results]]
    BY <1>6 DEF Taken, CloseInv, CallsInv, CallRanges, Results
  <2> QED
    BY <1>5, <1>6, <2>1, CallsStay DEF CloseInv
<1>7. CASE s # "ended"
  <2>1. PICK k \in Requests : Call(c, d, k) /\ (k = "CLOSE" => s = "close")
    BY <1>7 DEF Requests, Request, Dirs
  <2>2. ~gone => reply'[c][d] = "none"
    BY <1>1, <2>1 DEF Call, CloseInv, CallsInv, CallRanges
  <2>3. gone \/ Expected(c, d, k)'
    BY <1>1, <1>3, <1>7, <2>1, <2>2 DEF Expected, Waits
  <2> QED
    BY <1>1, <1>2, <1>5, <2>1, <2>3, CallMade DEF CloseInv
<1> QED
  BY <1>6, <1>7

\* The steps of the HalfCloseHandle
LEMMA HalfStep ==
  ASSUME CloseInv, NEW c \in Conns, NEW d \in Dirs, HalfNext(c, d)
  PROVE  CloseInv'
<1>1. UNCHANGED pc
  BY DEF HalfNext, HalfClose, HalfClosed, Closed, connVars
<1>2. task[c][d] \in {"lock", "half", "close"} /\ (task[c][d] = "lock" \/ Answered(c, d))
  BY DEF HalfNext, HalfClose, HalfClosed, Closed
<1>3. lock[c] = {} \/ lock[c] = {d}
  BY DEF HalfNext, HalfClose, HalfClosed, Closed, LockFree, CloseInv, TasksInv, Alone, Waits
<1>4. shut' = shut \/ shut' = [shut EXCEPT ![c] = @ \union {d}]
  BY DEF HalfNext, HalfClose, HalfClosed, Closed
<1>5. ASSUME Returns(c, d), Taken(c, d), UNCHANGED ctrl
      PROVE  CloseInv'
  <2>1. TasksInv'
    BY <1>1, <1>2, <1>3, <1>4, <1>5, HalfTasks DEF Returns
  <2>2. CallsInv'
    BY <1>1, <1>2, <1>5, HalfCalls DEF Returns
  <2> QED
    BY <2>1, <2>2 DEF CloseInv
<1>6. ASSUME CloseOrReturn(c, d)
      PROVE  CloseInv'
  <2>1. CASE ~BothShut(shut'[c])
    BY <1>5, <1>6, <2>1 DEF CloseOrReturn
  <2>2. CASE BothShut(shut'[c])
    <3>1. /\ task' = [task EXCEPT ![c][d] = "close"] /\ Call(c, d, "CLOSE")
          /\ lock' = [lock EXCEPT ![c] = @ \union {d}] /\ UNCHANGED holders /\ shut'[c] = Dirs
      BY <1>6, <2>2 DEF CloseOrReturn, BothShut
    <3>2. TasksInv'
      BY <1>1, <1>2, <1>3, <1>4, <3>1, HalfTasks
    <3>3. CallsInv'
      BY <1>1, <1>2, <3>1, HalfCalls
    <3> QED
      BY <3>2, <3>3 DEF CloseInv
  <2> QED
    BY <2>1, <2>2
<1>7. ASSUME task' = [task EXCEPT ![c][d] = "half"], Call(c, d, Request(d)),
             lock' = [lock EXCEPT ![c] = @ \union {d}], UNCHANGED holders
      PROVE  CloseInv'
  <2>1. TasksInv'
    BY <1>1, <1>2, <1>3, <1>4, <1>7, HalfTasks
  <2>2. CallsInv'
    BY <1>1, <1>2, <1>7, HalfCalls
  <2> QED
    BY <2>1, <2>2 DEF CloseInv
<1> QED
  BY <1>5, <1>6, <1>7 DEF HalfNext, HalfClose, HalfClosed, Closed

\* The device is unplugged: nothing is in flight any more.
LEMMA UnplugStep ==
  ASSUME CloseInv, Unplug
  PROVE  CloseInv'
<1>1. ctrl' = <<>> /\ UNCHANGED <<pc, task, holders, shut, lock>>
  BY DEF Unplug, connVars, halfVars
<1>2. reply' \in [Conns -> [Holders -> Results]]
  BY DEF Unplug, CloseInv, CallsInv, CallRanges, Results
<1>3. TasksInv'
  BY <1>1 DEF CloseInv, TasksInv, TaskRanges, Running, Alone, LastTask, Waits, Gone
<1>4. CallsInv'
  BY <1>1, <1>2 DEF CallsInv, CallRanges, CallersWait, OneEach
<1> QED
  BY <1>3, <1>4 DEF CloseInv

\* The device serves a request, or the bus loses it.
LEMMA ServeStep ==
  ASSUME CloseInv, Serve \/ RequestFails
  PROVE  CloseInv'
<1>1. /\ ctrl # <<>> /\ ctrl' = Tail(ctrl) /\ UNCHANGED hostSide
      /\ \E res \in Results : Reply(Head(ctrl), res)
  BY DEF Serve, DevClose, DevOpen, DevCapsIn, DevCapsOut, DevCloseSend, DevCloseRecv, DevStatus,
         Serves, RequestFails, Results
<1>2. UNCHANGED <<pc, task, holders, shut, lock>>
  BY <1>1 DEF hostSide, taskVars, halfVars
<1>3. CallsInv'
  BY <1>1, <1>2, CallServed DEF CloseInv
<1>4. TasksInv'
  BY <1>2 DEF CloseInv, TasksInv, TaskRanges, Running, Alone, LastTask, Waits, Gone
<1> QED
  BY <1>3, <1>4 DEF CloseInv

\* The steps of the data tasks
LEMMA DataStep ==
  ASSUME CloseInv, NEW c \in Conns, InTask(c) \/ OutTask(c) \/ OutTakes(c)
  PROVE  CloseInv'
<1> "in" \in Dirs /\ "out" \in Dirs
  BY DEF Dirs
<1>1. CASE HalfNext(c, "in") \/ HalfNext(c, "out")
  BY <1>1, HalfStep
<1>2. CASE OutSent(c)
  BY <1>2, QuietStep DEF OutSent, closeVars, connVars, halfVars, usbVars
<1>3. CASE InStops(c) \/ InFails(c)
  BY <1>3, TaskStep DEF InStops, InFails, InEnds, connVars, halfVars, usbVars
<1>4. CASE InWaits(c) \/ InQueues(c)
  BY <1>4, TaskStep DEF InWaits, InQueues, connVars, halfVars, usbVars
<1>5. CASE OutTakes(c)
  BY <1>5, TaskStep DEF OutTakes, connVars, halfVars, usbVars
<1>6. CASE OutStops(c)
  BY <1>6, TaskStep DEF OutStops, connVars, halfVars, usbVars
<1>7. CASE OutGoesOn(c)
  BY <1>7, TaskStep DEF OutGoesOn, connVars, halfVars, usbVars
<1>8. CASE OutFails(c) \/ OutDrained(c)
  BY <1>8, TaskStep DEF OutFails, OutDrained, connVars, halfVars, usbVars
<1> QED
  BY <1>1, <1>2, <1>3, <1>4, <1>5, <1>6, <1>7, <1>8 DEF InTask, OutTask

\* At first nothing is claimed, and nothing in flight.
LEMMA InitCloses == Init => CloseInv
<1> SUFFICES ASSUME Init PROVE CloseInv
  OBVIOUS
<1>1. TaskRanges
  BY DEF Init, TaskRanges, Steps
<1>2. Running /\ Alone /\ LastTask
  BY DEF Init, Running, Alone, LastTask, Gone, Waits
<1>3. CallsInv
  BY DEF Init, CallsInv, CallRanges, CallersWait, OneEach, Results
<1> QED
  BY <1>1, <1>2, <1>3 DEF CloseInv, TasksInv

\* Every action keeps the invariant.
LEMMA NextCloses == CloseInv /\ [Next]_vars => CloseInv'
<1> SUFFICES ASSUME CloseInv, [Next]_vars PROVE CloseInv'
  OBVIOUS
<1>1. ASSUME NEW c \in Conns, ConnectNext(c)
      PROVE  CloseInv'
  <2>1. CASE FlushRead(c)
    BY <2>1, QuietStep DEF FlushRead, closeVars, connVars, taskVars, halfVars, usbVars
  <2> QED
    BY <1>1, <2>1, EndsStep, ConnectStep, OpenedStep, ConnectSteps
<1>2. ASSUME NEW c \in Conns, AppNext(c)
      PROVE  CloseInv'
  <2>1. CASE DropSender(c) \/ DropReceiver(c) \/ Recv(c)
    BY <2>1, QuietStep
    DEF DropSender, DropReceiver, Recv, closeVars, connVars, taskVars, halfVars, usbVars
  <2> QED
    BY <1>2, <2>1, ClaimStep, EndsStep, DataStep DEF AppNext
<1>3. ASSUME NEW c \in Conns, BusNext(c)
      PROVE  CloseInv'
  BY <1>3, QuietStep DEF BusNext, BusIn, BusStall, BusFails, closeVars, connVars, halfVars, usbVars
<1>4. CASE DevSends \/ DevEndsSend \/ DevEndsRecv \/ DevTimesOut
  BY <1>4, QuietStep
  DEF DevSends, DevEndsSend, DevEndsRecv, DevTimesOut, hostSide, closeVars, taskVars, halfVars, usbVars
<1>5. CASE UNCHANGED vars
  BY <1>5, QuietStep DEF vars, closeVars, connVars, taskVars, halfVars, usbVars
<1>6. CASE Next
  BY <1>1, <1>2, <1>3, <1>4, <1>6, DataStep, StatusStep, ServeStep, UnplugStep DEF Next, DeviceNext
<1> QED
  BY <1>5, <1>6

\* A CLOSE in flight is expected by a task whose counterpart has ended: no data
\* task, and no connect_with, can have a request behind it.
LEMMA CloseFollows == CloseInv => CloseIsLast
<1> SUFFICES ASSUME CloseInv, NEW c \in Conns
             PROVE  /\ \A d, e \in Dirs : task[c][d] = "close" /\ e # d => task[c][e] = "ended"
                    /\ \A i, j \in DOMAIN ctrl :
                          i < j /\ ctrl[i].conn = c /\ ctrl[j].conn = c
                            /\ ctrl[i].kind = "CLOSE" /\ ctrl[i].by \in Dirs
                          => ctrl[j].by = "status"
  BY DEF CloseIsLast
<1>1. \A d, e \in Dirs : task[c][d] = "close" /\ e # d => task[c][e] = "ended"
  BY DEF CloseInv, TasksInv, LastTask
<1>2. ASSUME NEW i \in DOMAIN ctrl, NEW j \in DOMAIN ctrl, i < j, ctrl[i].conn = c, ctrl[j].conn = c,
             ctrl[i].kind = "CLOSE", ctrl[i].by \in Dirs, ctrl[j].by # "status"
      PROVE  FALSE
  <2>1. ctrl[j].by \in Holders /\ i # j
    BY <1>2, CtrlRange, EntryRange DEF CloseInv, CallsInv, CallRanges
  <2>2. Expected(c, ctrl[i].by, "CLOSE") /\ Expected(c, ctrl[j].by, ctrl[j].kind)
    BY <1>2 DEF CloseInv, CallsInv, CallersWait
  <2>3. task[c][ctrl[i].by] = "close" /\ pc[c] = "done"
    BY <1>2, <2>2 DEF Expected, CloseInv, TasksInv, Running, Gone
  <2>4. ctrl[j].by \in Dirs
    BY <1>2, <2>1, <2>2, <2>3 DEF Expected, Holders, Dirs
  <2>5. ctrl[j].by = ctrl[i].by
    BY <1>1, <1>2, <2>2, <2>3, <2>4 DEF Expected, Waits
  <2> QED
    BY <1>2, <2>1, <2>5 DEF CloseInv, CallsInv, OneEach
<1> QED
  BY <1>1, <1>2

\* close_if_both: whatever the tasks, the application and the bus do, the CLOSE of
\* a connection is sent when its other task has ended, and is its last request.
THEOREM CloseComesLast == Spec => []CloseIsLast
<1> QED
  BY InitCloses, NextCloses, CloseFollows, PTL DEF Spec

-----------------------------------------------------------------------------
(***************************************************************************)
(* Connections do not disturb each other: what the one before left in      *)
(* flight closes nothing of a later one (NoForeignClose), and recv()       *)
(* returns only its own data (RecvIsOwn).                                  *)
(*                                                                         *)
(* A connection claims the interface after all before it have released it  *)
(* (Newest).  Requests are served in the order in which they are made, so  *)
(* that those in flight are sorted by connection, and none is older than   *)
(* the one that the device holds open (Sorted).  Once the CLOSE of         *)
(* connect_with was answered, nothing of an earlier connection is left in  *)
(* flight, or open (Cleared); once the flush has ended, nothing of it is   *)
(* left in the pipe (PipeIsOwn).                                           *)
(***************************************************************************)
\* Who runs holds the interface, and only the newest connection does.
Newest ==
    /\ \A b, c \in Conns : c < b /\ pc[b] # "idle" => pc[c] # "idle" /\ holders[c] = {}
    /\ \A c \in Conns :
        /\ pc[c] \in {"close", "caps", "hostcaps", "open"} => holders[c] # {}
        /\ status[c] \in {"poll", "waits"} => "status" \in holders[c]
        /\ pc[c] # "done" => status[c] \in {"off", "ended"}
    /\ status \in [Conns -> {"off", "idle", "poll", "waits", "ended"}]

\* Requests in flight, and the connection that the device holds open
Sorted ==
    /\ open \in 0..MaxConns
    /\ open # NoConn => pc[open] # "idle"
    /\ \A i \in DOMAIN ctrl : /\ open <= ctrl[i].conn /\ pc[ctrl[i].conn] # "idle"
                              /\ ctrl[i].by = "status" => ctrl[i].kind = "STATUS"
                              /\ ctrl[i].by = "connect" /\ pc[ctrl[i].conn] = "close" => ctrl[i].kind = "CLOSE"
    /\ \A i, j \in DOMAIN ctrl : i <= j => ctrl[i].conn <= ctrl[j].conn

\* The device has answered the CLOSE of connect_with.
Acknowledged(c) ==
    pc[c] \in {"caps", "hostcaps", "open", "done"} \/ (pc[c] = "close" /\ reply[c]["connect"] = "ok")

Cleared ==
    \A c \in Conns : Acknowledged(c) =>
        /\ open = NoConn \/ open >= c
        /\ \A i \in DOMAIN ctrl : ctrl[i].conn >= c

OrderInv == CloseInv /\ Newest /\ Sorted /\ Cleared

\* A connection that has flushed the pipe to its end, and holds the interface
Flushed(c) == pc[c] \in {"caps", "hostcaps", "open", "done"} /\ holders[c] # {} /\ c \notin unflushed

\* Nothing comes from a device that holds no connection open.
PipeIsOwn ==
    /\ dsend => open # NoConn
    /\ pipe \in Seq(Conns) /\ \A c \in Conns : Flushed(c) => pipe \in Seq({c})

Completions == [kind : {"data", "halt", "err"}, conn : 0..MaxConns]
OwnConns(c) == {b \in Conns : c \notin unflushed => b = c}
OwnCompletions(c) == {x \in Completions : x.kind = "data" => x.conn \in OwnConns(c)}

\* What in_task took from the pipe, and what it has handed to the application
ReadIsOwn ==
    /\ haltIn \in 0..MaxConns
    /\ comps \in [Conns -> Seq(Completions)] /\ queue \in [Conns -> Seq(Conns)]
    /\ \A c \in Conns : comps[c] \in Seq(OwnCompletions(c)) /\ queue[c] \in Seq(OwnConns(c))

DataInv == OrderInv /\ PipeIsOwn /\ ReadIsOwn

-----------------------------------------------------------------------------
(* Who holds the interface                                                 *)

\* Connections are numbers.
LEMMA ConnRange ==
  MaxConns \in Nat /\ NoConn \notin Conns /\ NoConn \in 0..MaxConns /\ \A c \in Conns : c \in Nat /\ c \in 0..MaxConns
  BY HostAssumption DEF Conns, NoConn

\* A step that changes nothing of it keeps the order of claims.
LEMMA NewestQuiet == Newest /\ UNCHANGED <<pc, holders, status>> => Newest'
  BY DEF Newest

\* The claimed connection is the last one, and found every other one released.
LEMMA NewestClaim ==
  ASSUME CloseInv, Newest, NEW c \in Conns, ClaimInterface(c)
  PROVE  Newest' /\ \A b \in Conns : pc'[b] # "idle" => b <= c
<1>1. pc[c] = "idle" /\ (\A b \in Conns : holders[b] = {}) /\ \A b \in 1..(c - 1) : pc[b] # "idle"
  BY DEF ClaimInterface, InUse
<1>2. \A b \in Conns :
         /\ pc'[b] = IF b = c THEN "close" ELSE IF b < c THEN "over" ELSE pc[b]
         /\ holders'[b] = IF b = c THEN {"connect"} ELSE {}
         /\ status'[b] = IF b < c THEN "ended" ELSE status[b]
  BY <1>1 DEF ClaimInterface, CloseInv, TasksInv, TaskRanges, Newest
<1>3. \A b \in Conns : c < b => pc[b] = "idle"
  BY <1>1 DEF Newest
<1>4. \A b \in Conns : pc'[b] # "idle" => b <= c
  BY <1>2, <1>3, ConnRange
<1>5. \A a, b \in Conns : a < b /\ pc'[b] # "idle" => pc'[a] # "idle" /\ holders'[a] = {}
  BY <1>2, <1>4, ConnRange
<1>6. \A b \in Conns : status'[b] \in {"off", "ended"} \/ (pc'[b] = "done" /\ status'[b] = "idle")
  BY <1>1, <1>2, <1>3, ConnRange DEF Newest
<1>7. \A b \in Conns : pc'[b] \in {"close", "caps", "hostcaps", "open"} => holders'[b] # {}
  BY <1>2, <1>3, ConnRange
<1>8. status' \in [Conns -> {"off", "idle", "poll", "waits", "ended"}]
  BY DEF ClaimInterface, Newest
<1> QED
  BY <1>4, <1>5, <1>6, <1>7, <1>8 DEF Newest

\* connect_with goes on, or ends.
LEMMA NewestConnect ==
  ASSUME CloseInv, Newest, NEW c \in Conns,
         AskCaps(c) \/ SendCaps(c) \/ SendOpen(c) \/ GiveUp(c) \/ Refused(c)
  PROVE  Newest'
<1>1. UNCHANGED status /\ pc[c] \in {"close", "caps", "hostcaps", "open"}
  BY DEF AskCaps, SendCaps, SendOpen, GiveUp, Refused, Ends, statVars, CloseInv, TasksInv, TaskRanges
<1>2. CASE GiveUp(c) \/ Refused(c)
  <2>1. \A b \in Conns : /\ pc'[b] = IF b = c THEN "over" ELSE pc[b]
                         /\ holders'[b] = IF b = c THEN {} ELSE holders[b]
    BY <1>2 DEF GiveUp, Refused, Ends, CloseInv, TasksInv, TaskRanges
  <2> QED
    BY <1>1, <2>1 DEF Newest
<1>3. CASE AskCaps(c) \/ SendCaps(c) \/ SendOpen(c)
  <2>1. PICK s \in {"caps", "hostcaps", "open"} : pc' = [pc EXCEPT ![c] = s]
    BY <1>3 DEF AskCaps, SendCaps, SendOpen
  <2>2. \A b \in Conns : pc'[b] = IF b = c THEN s ELSE pc[b]
    BY <2>1, SMTT(40) DEF CloseInv, TasksInv, TaskRanges
  <2>3. UNCHANGED holders
    BY <1>3 DEF AskCaps, SendCaps, SendOpen
  <2> QED
    BY <1>1, <2>2, <2>3 DEF Newest
<1> QED
  BY <1>2, <1>3, SMTT(40)

\* connect_with hands the interface to its tasks.
LEMMA NewestOpened ==
  ASSUME CloseInv, Newest, NEW c \in Conns, Opened(c)
  PROVE  Newest'
<1>1. \A b \in Conns : /\ pc'[b] = IF b = c THEN "done" ELSE pc[b]
                       /\ b # c => holders'[b] = holders[b] /\ status'[b] = status[b]
  BY DEF Opened, CloseInv, TasksInv, TaskRanges, Newest
<1>2. /\ holders'[c] = {"in", "out"} \union IF polls[c] THEN {"status"} ELSE {}
      /\ status'[c] = IF polls[c] THEN "poll" ELSE "idle"
  BY DEF Opened, CloseInv, TasksInv, TaskRanges, Newest
<1>3. status'[c] \in {"poll", "waits"} => "status" \in holders'[c]
  BY <1>2
<1>4. \A b \in Conns : c < b => pc[b] = "idle"
  BY DEF Opened, Newest
<1>5. \A a, b \in Conns : a < b /\ pc'[b] # "idle" => pc'[a] # "idle" /\ holders'[a] = {}
  <2> SUFFICES ASSUME NEW a \in Conns, NEW b \in Conns, a < b, pc'[b] # "idle"
               PROVE  pc'[a] # "idle" /\ holders'[a] = {}
    OBVIOUS
  <2>1. a # c /\ pc[b] # "idle"
    BY <1>1, <1>4, ConnRange DEF Opened
  <2> QED
    BY <1>1, <2>1 DEF Newest
<1>6. status' \in [Conns -> {"off", "idle", "poll", "waits", "ended"}]
  BY DEF Opened, Newest
<1> QED
  BY <1>1, <1>3, <1>5, <1>6 DEF Newest

\* The tasks give up what they hold.
LEMMA NewestReleases ==
  ASSUME CloseInv, Newest, NEW c \in Conns,
         StatusNext(c) \/ HalfNext(c, "in") \/ HalfNext(c, "out")
  PROVE  Newest'
<1>1. CASE HalfNext(c, "in") \/ HalfNext(c, "out")
  <2>1. PICK d \in Dirs : HalfNext(c, d)
    BY <1>1 DEF Dirs
  <2>2. d # "status" /\ pc[c] = "done" /\ UNCHANGED <<pc, status>>
    BY <2>1 DEF HalfNext, HalfClose, HalfClosed, Closed, connVars, statVars, Dirs,
                CloseInv, TasksInv, Running, Gone
  <2>3. holders' = holders \/ holders' = [holders EXCEPT ![c] = @ \ {d}]
    BY <2>1 DEF HalfNext, HalfClose, HalfClosed, Closed, CloseOrReturn, Returns
  <2>4. \A b \in Conns : /\ holders'[b] \subseteq holders[b]
                         /\ b # c => holders'[b] = holders[b]
                         /\ "status" \in holders[b] => "status" \in holders'[b]
    BY <2>2, <2>3 DEF CloseInv, TasksInv, TaskRanges
  <2> QED
    BY <2>2, <2>4 DEF Newest
<1>2. CASE StatusNext(c)
  <2>1. UNCHANGED pc
    BY <1>2 DEF StatusNext, PollStatus, StatusAnswered, StatusFailed, StatusEnds, connVars
  <2>2. \/ holders' = holders /\ \E s \in {"poll", "waits"} :
              status[c] \in {"poll", "waits"} /\ status' = [status EXCEPT ![c] = s]
        \/ holders' = [holders EXCEPT ![c] = @ \ {"status"}] /\ status' = [status EXCEPT ![c] = "ended"]
    BY <1>2 DEF StatusNext, PollStatus, StatusAnswered, StatusFailed, StatusEnds
  <2>3. \A b \in Conns : b # c => holders'[b] = holders[b] /\ status'[b] = status[b]
    BY <2>2 DEF CloseInv, TasksInv, TaskRanges, Newest
  <2>4. /\ holders'[c] \subseteq holders[c]
        /\ status'[c] \in {"poll", "waits"} => status[c] \in {"poll", "waits"} /\ holders'[c] = holders[c]
    BY <2>2 DEF CloseInv, TasksInv, TaskRanges, Newest
  <2>5. pc[c] = "done" /\ status' \in [Conns -> {"off", "idle", "poll", "waits", "ended"}]
    BY <1>2, <2>2 DEF StatusNext, PollStatus, StatusAnswered, StatusFailed, StatusEnds, Newest
  <2> QED
    BY <2>1, <2>3, <2>4, <2>5 DEF Newest
<1> QED
  BY <1>1, <1>2

-----------------------------------------------------------------------------
(* The order of the requests                                               *)

\* connect_with's first request is the only one of it while it stands there.
Begins(b) == pc'[b] = "close" => pc[b] = "close" \/ Silent(b, "connect")

\* Nothing is sent, and no connect_with learns that its CLOSE was served.
LEMMA OrderKept ==
  ASSUME OrderInv, UNCHANGED <<ctrl, open>>,
         \A b \in Conns : /\ (pc[b] # "idle" => pc'[b] # "idle") /\ Begins(b)
                          /\ Acknowledged(b)' => Acknowledged(b)
  PROVE  Sorted' /\ Cleared'
<1>1. \A i \in DOMAIN ctrl : ctrl[i].conn \in Conns
  BY CtrlRange DEF OrderInv, CloseInv, CallsInv
<1>2. open # NoConn => open \in Conns
  BY ConnRange DEF OrderInv, Sorted, Conns, NoConn
<1>3. \A i \in DOMAIN ctrl : ctrl[i].by = "connect" /\ pc'[ctrl[i].conn] = "close" => ctrl[i].kind = "CLOSE"
  BY <1>1 DEF OrderInv, Sorted, Begins, Silent
<1>4. Sorted'
  BY <1>1, <1>2, <1>3 DEF OrderInv, Sorted
<1>5. Cleared'
  BY DEF OrderInv, Cleared
<1> QED
  BY <1>4, <1>5

\* The newest connection makes a request: it goes behind those of the others.
LEMMA OrderCalled ==
  ASSUME OrderInv, NEW c \in Conns, NEW h \in Holders, NEW k \in Requests, Call(c, h, k), UNCHANGED open,
         \A b \in Conns : /\ (pc[b] # "idle" => pc'[b] # "idle") /\ Begins(b)
                          /\ Acknowledged(b)' => Acknowledged(b)
                          /\ pc'[b] # "idle" => b <= c,
         pc'[c] # "idle", h = "status" => k = "STATUS", h = "connect" /\ pc'[c] = "close" => k = "CLOSE"
  PROVE  Sorted' /\ Cleared'
<1>1. CASE gone
  BY <1>1, OrderKept DEF Call
<1>2. CASE ~gone
  <2> DEFINE x == [conn |-> c, by |-> h, kind |-> k]
  <2>1. ctrl' = Append(ctrl, x) /\ x \in InFlight
    BY <1>2 DEF Call, InFlight
  <2>2. Len(ctrl) \in Nat /\ DOMAIN ctrl = 1..Len(ctrl)
    BY EntryRange DEF OrderInv, CloseInv, CallsInv, CallRanges
  <2>3. \A i \in DOMAIN ctrl' : \/ i \in DOMAIN ctrl /\ ctrl'[i] = ctrl[i]
                                \/ i = Len(ctrl) + 1 /\ ctrl'[i] = x
    BY <2>1, AppendRange DEF OrderInv, CloseInv, CallsInv, CallRanges
  <2>4. \A i \in DOMAIN ctrl : ctrl[i].conn \in Conns /\ ctrl[i].conn <= c
    BY CtrlRange DEF OrderInv, CloseInv, CallsInv, Sorted
  <2>5. open # NoConn => open \in Conns
    BY ConnRange DEF OrderInv, Sorted, Conns, NoConn
  <2>6. open <= c
    BY <2>5, ConnRange DEF OrderInv, Sorted, NoConn
  <2>7. x.conn = c /\ x.by = h /\ x.kind = k
    OBVIOUS
  <2> HIDE DEF x
  <2>8. ASSUME NEW i \in DOMAIN ctrl'
        PROVE  /\ open <= ctrl'[i].conn /\ pc'[ctrl'[i].conn] # "idle"
               /\ ctrl'[i].by = "status" => ctrl'[i].kind = "STATUS"
               /\ ctrl'[i].by = "connect" /\ pc'[ctrl'[i].conn] = "close" => ctrl'[i].kind = "CLOSE"
    <3>1. CASE ctrl'[i] = x
      BY <2>6, <2>7, <3>1
    <3>2. CASE i \in DOMAIN ctrl /\ ctrl'[i] = ctrl[i]
      BY <2>4, <3>2 DEF OrderInv, Sorted, Begins, Silent
    <3> QED
      BY <2>3, <3>1, <3>2
  <2>9. \A i, j \in DOMAIN ctrl' : i <= j => ctrl'[i].conn <= ctrl'[j].conn
    <3> SUFFICES ASSUME NEW i \in DOMAIN ctrl', NEW j \in DOMAIN ctrl', i <= j
                 PROVE  ctrl'[i].conn <= ctrl'[j].conn
      OBVIOUS
    <3>1. CASE j \in DOMAIN ctrl /\ ctrl'[j] = ctrl[j]
      BY <2>2, <2>3, <3>1 DEF OrderInv, Sorted
    <3>2. CASE ctrl'[j] = x
      BY <2>3, <2>4, <2>7, <3>2, ConnRange
    <3> QED
      BY <2>3, <3>1, <3>2
  <2>10. Sorted'
    BY <2>5, <2>8, <2>9 DEF OrderInv, Sorted
  <2>11. Cleared'
    <3> SUFFICES ASSUME NEW b \in Conns, Acknowledged(b)'
                 PROVE  /\ open = NoConn \/ open >= b
                        /\ \A i \in DOMAIN ctrl' : ctrl'[i].conn >= b
      BY DEF Cleared
    <3>1. Acknowledged(b) /\ b <= c
      BY DEF Acknowledged
    <3>2. c >= b
      BY <3>1, ConnRange
    <3> QED
      BY <2>3, <2>7, <3>1, <3>2 DEF OrderInv, Cleared
  <2> QED
    BY <2>10, <2>11
<1> QED
  BY <1>1, <1>2

\* The device serves the oldest request in flight, or it is lost.
LEMMA OrderServed ==
  ASSUME OrderInv, Serve \/ RequestFails
  PROVE  Sorted' /\ Cleared'
<1> DEFINE r == Head(ctrl)
<1>1. /\ ctrl # <<>> /\ ctrl' = Tail(ctrl) /\ UNCHANGED pc
      /\ \E res \in Results : Reply(r, res) /\ (RequestFails => res = "err")
      /\ \/ UNCHANGED open
         \/ DevClose /\ open' = NoConn
         \/ open' = r.conn
      /\ r.kind = "CLOSE" => open' = NoConn \/ RequestFails
  BY DEF Serve, DevClose, DevOpen, DevCapsIn, DevCapsOut, DevCloseSend, DevCloseRecv, DevStatus,
         Serves, RequestFails, Results, hostSide, devVars, sideVars
<1>2. /\ ctrl' \in Seq(InFlight) /\ r = ctrl[1] /\ 1 \in DOMAIN ctrl
      /\ \A i \in DOMAIN ctrl' : i + 1 \in DOMAIN ctrl /\ ctrl'[i] = ctrl[i + 1] /\ i \in Nat \ {0}
  BY <1>1, TailRange DEF OrderInv, CloseInv, CallsInv, CallRanges
<1>3. \A i \in DOMAIN ctrl : ctrl[i].conn \in Conns /\ ctrl[i].by \in Holders
  BY CtrlRange DEF OrderInv, CloseInv, CallsInv
<1>4. \A i \in DOMAIN ctrl' : r.conn <= ctrl'[i].conn
  <2> SUFFICES ASSUME NEW i \in DOMAIN ctrl' PROVE r.conn <= ctrl'[i].conn
    OBVIOUS
  <2>1. i + 1 \in DOMAIN ctrl /\ ctrl'[i] = ctrl[i + 1] /\ 1 <= i + 1 /\ 1 \in DOMAIN ctrl
    BY <1>2
  <2> QED
    BY <1>2, <2>1 DEF OrderInv, Sorted
<1>5. r.conn \in Conns /\ r.by \in Holders /\ open <= r.conn
  BY <1>2, <1>3 DEF OrderInv, Sorted
<1>6. open \in 0..MaxConns /\ open' \in 0..MaxConns /\ NoConn = 0
  BY <1>1, <1>5, ConnRange DEF OrderInv, Sorted, NoConn
<1>7. \A i \in DOMAIN ctrl' : open' <= ctrl'[i].conn /\ ctrl'[i].conn \in Conns
  <2> SUFFICES ASSUME NEW i \in DOMAIN ctrl' PROVE open' <= ctrl'[i].conn /\ ctrl'[i].conn \in Conns
    OBVIOUS
  <2>1. ctrl'[i].conn \in Conns /\ r.conn <= ctrl'[i].conn
    BY <1>2, <1>3, <1>4
  <2> QED
    BY <1>1, <1>5, <1>6, <2>1, ConnRange
<1>8. Sorted'
  <2>1. open' # NoConn => pc'[open'] # "idle"
    BY <1>1, <1>2 DEF OrderInv, Sorted
  <2>2. \A i, j \in DOMAIN ctrl' : i <= j => ctrl'[i].conn <= ctrl'[j].conn
    BY <1>2 DEF OrderInv, Sorted
  <2>3. \A i \in DOMAIN ctrl' :
           /\ pc'[ctrl'[i].conn] # "idle"
           /\ ctrl'[i].by = "status" => ctrl'[i].kind = "STATUS"
           /\ ctrl'[i].by = "connect" /\ pc'[ctrl'[i].conn] = "close" => ctrl'[i].kind = "CLOSE"
    BY <1>1, <1>2 DEF OrderInv, Sorted
  <2> QED
    BY <1>6, <1>7, <2>1, <2>2, <2>3 DEF Sorted
<1>9. Cleared'
  <2> SUFFICES ASSUME NEW b \in Conns, Acknowledged(b)'
               PROVE  (open' = NoConn \/ open' >= b) /\ \A i \in DOMAIN ctrl' : ctrl'[i].conn >= b
    BY DEF Cleared
  <2>1. CASE Acknowledged(b)
    <3>1. (open = NoConn \/ open >= b) /\ r.conn >= b
      BY <1>2, <2>1 DEF OrderInv, Cleared
    <3>2. \A i \in DOMAIN ctrl' : ctrl'[i].conn >= b
      BY <1>2, <2>1 DEF OrderInv, Cleared
    <3> QED
      BY <1>1, <3>1, <3>2
  <2>2. CASE ~Acknowledged(b)
    <3>1. pc[b] = "close" /\ reply'[b]["connect"] = "ok" /\ reply[b]["connect"] # "ok"
      BY <1>1, <2>2 DEF Acknowledged
    <3>2. b = r.conn /\ r.by = "connect" /\ ~RequestFails
      BY <1>1, <1>5, <3>1 DEF Reply, OrderInv, CloseInv, CallsInv, CallRanges, Holders
    <3>3. r.kind = "CLOSE"
      BY <1>2, <3>1, <3>2 DEF OrderInv, Sorted
    <3> QED
      BY <1>1, <1>4, <1>7, <3>2, <3>3, ConnRange
  <2> QED
    BY <2>1, <2>2
<1> QED
  BY <1>8, <1>9

\* What the order is about
orderVars == <<pc, holders, status, ctrl, open, reply>>

\* A step that changes nothing of it keeps the order.
LEMMA OrderQuiet ==
  ASSUME OrderInv, UNCHANGED orderVars
  PROVE  Newest' /\ Sorted' /\ Cleared'
<1>1. Newest'
  BY NewestQuiet DEF OrderInv, orderVars
<1>2. Sorted' /\ Cleared'
  BY DEF OrderInv, Sorted, Cleared, Acknowledged, orderVars
<1> QED
  BY <1>1, <1>2

\* connect_with, from the claim to its end
LEMMA OrderConnect ==
  ASSUME OrderInv, NEW c \in Conns, ClaimInterface(c) \/ GiveUp(c) \/ ConnectNext(c)
  PROVE  Newest' /\ Sorted' /\ Cleared'
<1> "connect" \in Holders /\ "CLOSE" \in Requests
  BY DEF Holders, Requests
<1>1. CASE FlushRead(c)
  BY <1>1, OrderQuiet DEF FlushRead, orderVars, connVars, statVars, usbVars, sideVars
<1>2. CASE ClaimInterface(c)
  <2>1. Newest' /\ \A b \in Conns : pc'[b] # "idle" => b <= c
    BY <1>2, NewestClaim DEF OrderInv
  <2>2. Call(c, "connect", "CLOSE") /\ UNCHANGED open /\ pc[c] = "idle"
    BY <1>2 DEF ClaimInterface, sideVars
  <2>3. \A b \in Conns : /\ b = c => pc'[b] = "close"
                         /\ b # c => pc'[b] = "over" \/ pc'[b] = pc[b]
    BY <1>2 DEF ClaimInterface, OrderInv, CloseInv, TasksInv, TaskRanges
  <2>4. Silent(c, "connect")
    BY <2>2, SilentConnect DEF OrderInv, CloseInv
  <2>5. \A b \in Conns : Begins(b) /\ (pc[b] # "idle" => pc'[b] # "idle")
    BY <2>2, <2>3, <2>4 DEF Begins
  <2>6. reply'[c]["connect"] # "ok" /\ \A b \in Conns : b # c => reply'[b] = reply[b]
    BY <2>2 DEF Call, OrderInv, CloseInv, CallsInv, CallRanges
  <2>7. \A b \in Conns : Acknowledged(b)' => Acknowledged(b)
    BY <2>3, <2>6 DEF Acknowledged
  <2> QED
    BY <2>1, <2>2, <2>3, <2>5, <2>7, OrderCalled
<1>3. CASE AskCaps(c) \/ SendCaps(c) \/ SendOpen(c)
  <2>1. PICK k \in Requests, s \in {"caps", "hostcaps", "open"} :
           Call(c, "connect", k) /\ pc' = [pc EXCEPT ![c] = s]
    BY <1>3, ZenonT(60) DEF AskCaps, SendCaps, SendOpen, Requests
  <2>2. UNCHANGED open /\ Acknowledged(c) /\ pc[c] \in {"close", "caps", "hostcaps"}
    BY <1>3 DEF AskCaps, SendCaps, SendOpen, Acknowledged, devVars, sideVars
  <2>3. \A b \in Conns : pc'[b] = IF b = c THEN s ELSE pc[b]
    BY <2>1 DEF OrderInv, CloseInv, TasksInv, TaskRanges
  <2>4. \A b \in Conns : pc'[b] # "idle" => b <= c
    BY <2>2, <2>3, ConnRange DEF OrderInv, Newest
  <2>5. \A b \in Conns : b # c => reply'[b] = reply[b]
    BY <2>1 DEF Call, OrderInv, CloseInv, CallsInv, CallRanges
  <2>6. \A b \in Conns : Acknowledged(b)' => Acknowledged(b)
    BY <2>2, <2>3, <2>5 DEF Acknowledged
  <2>7. Newest'
    BY <1>3, NewestConnect DEF OrderInv
  <2> QED
    BY <2>1, <2>2, <2>3, <2>4, <2>6, <2>7, OrderCalled, SMTT(40) DEF Begins
<1>4. CASE GiveUp(c) \/ Refused(c) \/ Opened(c)
  <2>1. Newest'
    BY <1>4, NewestConnect, NewestOpened DEF OrderInv
  <2>2. PICK s \in {"over", "done"} : pc' = [pc EXCEPT ![c] = s] /\ (s = "done" => pc[c] = "open")
    BY <1>4 DEF GiveUp, Refused, Ends, Opened
  <2>3. UNCHANGED <<ctrl, open>> /\ Taken(c, "connect")
    BY <1>4 DEF GiveUp, Refused, Ends, Opened, devVars, sideVars
  <2>4. \A b \in Conns : /\ pc'[b] = IF b = c THEN s ELSE pc[b]
                         /\ b # c => reply'[b] = reply[b]
    BY <2>2, <2>3 DEF Taken, OrderInv, CloseInv, TasksInv, TaskRanges, CallsInv, CallRanges
  <2>5. \A b \in Conns : Acknowledged(b)' => Acknowledged(b)
    BY <2>2, <2>4 DEF Acknowledged
  <2> QED
    BY <2>1, <2>3, <2>4, <2>5, OrderKept DEF Begins
<1> QED
  BY <1>1, <1>2, <1>3, <1>4, ConnectSteps

\* A task makes a request, or takes a reply.
LEMMA OrderTasks ==
  ASSUME OrderInv, NEW c \in Conns, NEW h \in Holders, h # "connect", NEW k \in Requests,
         h = "status" => k = "STATUS", pc[c] = "done", holders[c] # {},
         UNCHANGED <<pc, open>>,
         Call(c, h, k) \/ (ctrl' = ctrl /\ (reply' = reply \/ Taken(c, h)))
  PROVE  Sorted' /\ Cleared'
<1>1. "connect" \in Holders
  BY DEF Holders
<1>2. \A b \in Conns : reply'[b]["connect"] = reply[b]["connect"]
  BY <1>1 DEF Call, Taken, OrderInv, CloseInv, CallsInv, CallRanges
<1>3. \A b \in Conns : Begins(b) /\ (Acknowledged(b)' => Acknowledged(b))
  BY <1>2 DEF Begins, Acknowledged
<1>4. \A b \in Conns : pc[b] # "idle" => b <= c
  BY ConnRange DEF OrderInv, Newest
<1>5. CASE Call(c, h, k)
  BY <1>3, <1>4, <1>5, OrderCalled
<1>6. CASE ctrl' = ctrl
  BY <1>3, <1>6, OrderKept
<1> QED
  BY <1>5, <1>6

\* The tasks, the handles, the bus and the device's data paths
LEMMA OrderOthers ==
  ASSUME OrderInv, NEW c \in Conns,
         \/ InTask(c) \/ OutTask(c) \/ OutTakes(c) \/ StatusNext(c) \/ BusNext(c)
         \/ DropSender(c) \/ DropReceiver(c) \/ Recv(c)
         \/ DevSends \/ DevEndsSend \/ DevEndsRecv \/ DevTimesOut
  PROVE  Newest' /\ Sorted' /\ Cleared'
<1> "in" \in Holders /\ "out" \in Holders /\ "status" \in Holders
  BY DEF Holders
<1>1. CASE HalfNext(c, "in") \/ HalfNext(c, "out")
  <2>1. PICK d \in {"in", "out"} : HalfNext(c, d)
    BY <1>1
  <2>2. PICK k \in Requests : Call(c, d, k) \/ (ctrl' = ctrl /\ (reply' = reply \/ Taken(c, d)))
    BY <2>1 DEF HalfNext, HalfClose, HalfClosed, Closed, CloseOrReturn, Requests, Request
  <2>3. pc[c] = "done" /\ holders[c] # {} /\ UNCHANGED <<pc, open>>
    BY <2>1 DEF HalfNext, HalfClose, HalfClosed, Closed, connVars, devVars, sideVars,
                Dirs, OrderInv, CloseInv, TasksInv, Running, Gone
  <2> QED
    BY <1>1, <2>2, <2>3, OrderTasks, NewestReleases DEF OrderInv
<1>2. CASE PollStatus(c) \/ StatusAnswered(c) \/ StatusFailed(c)
  <2>1. Call(c, "status", "STATUS") \/ (ctrl' = ctrl /\ (reply' = reply \/ Taken(c, "status")))
    BY <1>2 DEF PollStatus, StatusAnswered, StatusFailed
  <2>2. pc[c] = "done" /\ holders[c] # {} /\ UNCHANGED <<pc, open>>
    BY <1>2 DEF PollStatus, StatusAnswered, StatusFailed, connVars, devVars, sideVars, OrderInv, Newest
  <2>3. "STATUS" \in Requests
    BY DEF Requests
  <2> QED
    BY <1>2, <2>1, <2>2, <2>3, OrderTasks, NewestReleases DEF OrderInv, StatusNext
<1>8. CASE StatusEnds(c)
  <2>1. UNCHANGED <<pc, ctrl, open, reply>>
    BY <1>8 DEF StatusEnds, connVars, usbVars, devVars, sideVars
  <2>2. Sorted' /\ Cleared'
    BY <2>1 DEF OrderInv, Sorted, Cleared, Acknowledged
  <2> QED
    BY <1>8, <2>2, NewestReleases DEF OrderInv, StatusNext
<1>3. CASE InStops(c) \/ InFails(c) \/ InWaits(c) \/ InQueues(c)
  BY <1>3, OrderQuiet
  DEF InStops, InFails, InWaits, InQueues, orderVars, connVars, statVars, usbVars, devVars, sideVars
<1>4. CASE OutTakes(c) \/ OutStops(c) \/ OutGoesOn(c) \/ OutSent(c) \/ OutFails(c) \/ OutDrained(c)
  BY <1>4, OrderQuiet
  DEF OutTakes, OutStops, OutGoesOn, OutSent, OutFails, OutDrained, orderVars, connVars, statVars, usbVars,
      devVars, sideVars
<1>5. CASE DropSender(c) \/ DropReceiver(c) \/ Recv(c)
  BY <1>5, OrderQuiet
  DEF DropSender, DropReceiver, Recv, orderVars, connVars, statVars, usbVars, devVars, sideVars
<1>6. CASE BusNext(c)
  BY <1>6, OrderQuiet
  DEF BusNext, BusIn, BusStall, BusFails, orderVars, connVars, statVars, usbVars, devVars, sideVars
<1>7. CASE DevSends \/ DevEndsSend \/ DevEndsRecv \/ DevTimesOut
  BY <1>7, OrderQuiet
  DEF DevSends, DevEndsSend, DevEndsRecv, DevTimesOut, orderVars, hostSide, statVars, usbVars, sideVars
<1> QED
  BY <1>1, <1>2, <1>3, <1>4, <1>5, <1>6, <1>7, <1>8 DEF InTask, OutTask, StatusNext

\* At first no connection has claimed the interface.
LEMMA InitOrders == Init => OrderInv
<1> SUFFICES ASSUME Init PROVE OrderInv
  OBVIOUS
<1>1. Newest
  BY DEF Init, Newest
<1>2. Sorted /\ Cleared
  BY ConnRange DEF Init, Sorted, Cleared, Acknowledged, NoConn
<1> QED
  BY <1>1, <1>2, InitCloses DEF OrderInv

\* Every action keeps the order.
LEMMA NextOrders == OrderInv /\ [Next]_vars => OrderInv'
<1> SUFFICES ASSUME OrderInv, [Next]_vars PROVE Newest' /\ Sorted' /\ Cleared'
  BY NextCloses DEF OrderInv
<1>1. CASE UNCHANGED vars
  BY <1>1, OrderQuiet DEF vars, orderVars, connVars, statVars, usbVars, devVars, sideVars
<1>2. CASE Serve \/ RequestFails
  <2>1. UNCHANGED <<pc, holders, status>>
    BY <1>2 DEF Serve, DevClose, DevOpen, DevCapsIn, DevCapsOut, DevCloseSend, DevCloseRecv, DevStatus,
                Serves, RequestFails, hostSide, statVars
  <2> QED
    BY <1>2, <2>1, NewestQuiet, OrderServed DEF OrderInv
<1>3. CASE Unplug
  <2>1. UNCHANGED <<pc, holders, status>> /\ ctrl' = <<>> /\ open' = NoConn
    BY <1>3 DEF Unplug, connVars, statVars
  <2>2. Newest'
    BY <2>1, NewestQuiet DEF OrderInv
  <2>3. Sorted' /\ Cleared'
    BY <2>1, ConnRange DEF Sorted, Cleared, NoConn
  <2> QED
    BY <2>2, <2>3
<1>4. CASE Next
  <2>1. ASSUME NEW c \in Conns,
               ConnectNext(c) \/ InTask(c) \/ OutTask(c) \/ StatusNext(c) \/ AppNext(c) \/ BusNext(c)
        PROVE  Newest' /\ Sorted' /\ Cleared'
    BY <2>1, OrderConnect, OrderOthers DEF AppNext
  <2>2. CASE DevSends \/ DevEndsSend \/ DevEndsRecv \/ DevTimesOut
    <3>1. PICK c \in Conns : TRUE
      BY HostAssumption DEF Conns
    <3> QED
      BY <2>2, OrderOthers
  <2> QED
    BY <1>2, <1>3, <1>4, <2>1, <2>2 DEF Next, DeviceNext
<1> QED
  BY <1>1, <1>4

-----------------------------------------------------------------------------
(* What the order gives                                                    *)

\* Requests that close, of a connection that the device does not hold open, are
\* those of a later connect_with: its CLOSE was not answered yet, else nothing
\* else would be open, and while it claims the interface everybody else released it.
LEMMA ForeignClose ==
  ASSUME OrderInv, Next, NEW c \in Conns, open = c, ctrl # <<>>, ctrl' = Tail(ctrl),
         open' # c \/ (dsend /\ ~dsend') \/ (drecv /\ ~drecv')
  PROVE  Head(ctrl).conn = c \/ gone' \/ (Head(ctrl).by = "connect" /\ holders[c] = {})
<1> DEFINE r == Head(ctrl)
<1>1. ctrl \in Seq(InFlight) /\ r = ctrl[1] /\ 1 \in DOMAIN ctrl
  BY TailRange DEF OrderInv, CloseInv, CallsInv, CallRanges
<1>5. ctrl' # ctrl /\ \A x : ctrl' # Append(ctrl, x)
  BY <1>1
<1>2. CASE Unplug
  BY <1>2 DEF Unplug
<1>3. CASE Serve \/ RequestFails
  <2>1. r.conn \in Conns /\ r.by \in Holders /\ open <= r.conn /\ pc[r.conn] # "idle"
    BY <1>1, CtrlRange DEF OrderInv, CloseInv, CallsInv, Sorted
  <2>2. r.kind # "STATUS"
    BY <1>3 DEF Serve, DevClose, DevOpen, DevCapsIn, DevCapsOut, DevCloseSend, DevCloseRecv, DevStatus,
                Serves, RequestFails, devVars, sideVars
  <2>3. r.by # "status"
    BY <1>1, <2>2 DEF OrderInv, Sorted
  <2>4. CASE r.conn # c
    <3>1. c < r.conn
      BY <2>1, <2>4, ConnRange
    <3>2. holders[c] = {}
      BY <2>1, <3>1 DEF OrderInv, Newest
    <3>3. r.by \notin Dirs
      <4> SUFFICES ASSUME r.by \in Dirs PROVE FALSE
        OBVIOUS
      <4>1. Waits(r.conn, r.by)
        BY <1>1 DEF OrderInv, CloseInv, CallsInv, CallersWait, Expected
      <4>2. pc[r.conn] = "done"
        BY <2>1, <4>1 DEF OrderInv, CloseInv, TasksInv, Running, Waits, Gone
      <4> QED
        BY <2>1, <3>1, <4>2, ConnRange DEF OrderInv, Cleared, Acknowledged, NoConn
    <3> QED
      BY <2>1, <2>3, <3>2, <3>3 DEF Holders, Dirs
  <2> QED
    BY <2>4
<1>4. CASE ~Unplug /\ ~Serve /\ ~RequestFails
  <2>1. ASSUME NEW b \in Conns
        PROVE  ~ConnectNext(b) /\ ~AppNext(b) /\ ~BusNext(b)
    BY <1>5, ConnectSteps DEF Refused, Ends, FlushRead, AskCaps, SendCaps, SendOpen, Opened, Call,
                AppNext, ClaimInterface, GiveUp, DropSender, DropReceiver, Recv, OutTakes,
                BusNext, BusIn, BusStall, BusFails, usbVars
  <2>2. ASSUME NEW b \in Conns
        PROVE  ~InTask(b) /\ ~OutTask(b) /\ ~StatusNext(b)
    <3>1. ASSUME NEW d \in Dirs
          PROVE  ~HalfNext(b, d)
      BY <1>5 DEF HalfNext, HalfClose, HalfClosed, Closed, CloseOrReturn, Call
    <3> QED
      BY <1>5, <3>1 DEF InTask, InStops, InFails, InWaits, InQueues, OutTask, OutStops, OutGoesOn, OutSent,
                        OutFails, OutDrained, StatusNext, PollStatus, StatusAnswered, StatusFailed,
                        StatusEnds, Call, usbVars, Dirs
  <2>3. ~DevSends /\ ~DevEndsSend /\ ~DevEndsRecv /\ ~DevTimesOut
    BY <1>5 DEF DevSends, DevEndsSend, DevEndsRecv, DevTimesOut, usbVars
  <2> QED
    BY <1>4, <2>1, <2>2, <2>3, SMTT(40) DEF Next, DeviceNext
<1> QED
  BY <1>2, <1>3, <1>4

\* close_if_both, connect_with: a request that closes a direction is one of the
\* connection itself, or of a connect_with that came after all of it was released.
THEOREM ClosesNothingForeign == Spec => NoForeignClose
<1>1. OrderInv /\ [Next]_vars =>
        [\A c \in Conns :
           open = c /\ ctrl # <<>> /\ ctrl' = Tail(ctrl)
             /\ (open' # c \/ (dsend /\ ~dsend') \/ (drecv /\ ~drecv'))
           => \/ Head(ctrl).conn = c \/ gone'
              \/ Head(ctrl).by = "connect" /\ holders[c] = {}]_vars
  BY ForeignClose
<1> QED
  BY <1>1, InitOrders, NextOrders, PTL DEF Spec, NoForeignClose

-----------------------------------------------------------------------------
(* The data of a connection                                                *)

\* Nothing enters the pipe, and no connection becomes one that has flushed it.
LEMMA PipeKept ==
  ASSUME PipeIsOwn, pipe' \in {pipe, <<>>} \/ (pipe # <<>> /\ pipe' = Tail(pipe)),
         dsend' => open' # NoConn, \A c \in Conns : Flushed(c)' => Flushed(c)
  PROVE  PipeIsOwn'
<1>1. ASSUME NEW S, pipe \in Seq(S)
      PROVE  pipe' \in Seq(S)
  <2>1. CASE pipe' \in {pipe, <<>>}
    <3>1. <<>> \in Seq(S)
      OBVIOUS
    <3> QED
      BY <1>1, <2>1, <3>1, Zenon
  <2>2. CASE pipe # <<>> /\ pipe' = Tail(pipe)
    BY <1>1, <2>2, TailRange
  <2> QED
    BY <2>1, <2>2
<1> QED
  BY <1>1 DEF PipeIsOwn

\* Nothing is read, nor handed to the application.
LEMMA ReadKept ==
  ASSUME ReadIsOwn, UNCHANGED <<comps, queue>>, haltIn' \in 0..MaxConns,
         \A c \in Conns : c \in unflushed => c \in unflushed' \/ (comps[c] = <<>> /\ queue[c] = <<>>)
  PROVE  ReadIsOwn'
<1>2. ASSUME NEW S, NEW T, S \subseteq T, NEW q \in Seq(S) PROVE q \in Seq(T)
  BY <1>2
<1>3. ASSUME NEW c \in Conns
      PROVE  comps'[c] \in Seq(OwnCompletions(c))' /\ queue'[c] \in Seq(OwnConns(c))'
  <2>1. CASE c \in unflushed => c \in unflushed'
    <3>1. OwnConns(c) \subseteq OwnConns(c)' /\ OwnCompletions(c) \subseteq OwnCompletions(c)'
      BY <2>1 DEF OwnConns, OwnCompletions, Completions
    <3> QED
      BY <3>1, <1>2 DEF ReadIsOwn
  <2>2. CASE comps[c] = <<>> /\ queue[c] = <<>>
    BY <2>2, EmptySeq
  <2> QED
    BY <2>1, <2>2
<1> QED
  BY <1>3 DEF ReadIsOwn, Completions

\* connect_with: the flush ends when the pipe is empty, or with a failed transfer.
LEMMA PipeConnect ==
  ASSUME DataInv, NEW c \in Conns, ClaimInterface(c) \/ GiveUp(c) \/ ConnectNext(c)
  PROVE  PipeIsOwn' /\ ReadIsOwn'
<1>0. \/ UNCHANGED unflushed \/ (FlushFails(c) /\ unflushed' = unflushed \union {c})
      \/ unflushed' = {b \in unflushed : comps[b] # <<>> \/ queue[b] # <<>>}
  BY ZenonT(60) DEF ClaimInterface, GiveUp, ConnectNext, Refused, Ends, FlushRead, QueryCaps, FlushFails, SendCaps,
                    SendOpen, Opened, envVars, histVars
<1>1. ReadIsOwn'
  <2>1. UNCHANGED <<comps, queue>> /\ haltIn' \in {haltIn, NoConn}
    BY ConnectSteps DEF ClaimInterface, GiveUp, Refused, Ends, FlushRead, AskCaps, SendCaps, SendOpen,
           Opened, taskVars, appVars, devVars, epVars
  <2>2. \A b \in Conns : b \in unflushed => b \in unflushed' \/ (comps[b] = <<>> /\ queue[b] = <<>>)
    BY <1>0
  <2> QED
    BY <2>1, <2>2, ReadKept, ConnRange DEF DataInv, ReadIsOwn, NoConn
<1>2. CASE FlushRead(c)
  <2>1. \A b \in Conns : Flushed(b)' => Flushed(b)
    BY <1>2 DEF FlushRead, connVars, envVars, histVars, Flushed
  <2> QED
    BY <1>1, <1>2, <2>1, PipeKept DEF FlushRead, sideVars, DataInv, PipeIsOwn
<1>3. CASE ClaimInterface(c)
  <2>1. \A b \in Conns : ~Flushed(b)'
    BY <1>3 DEF ClaimInterface, InUse, Flushed, OrderInv, CloseInv, TasksInv, TaskRanges, DataInv
  <2> QED
    BY <1>1, <1>3, <2>1, PipeKept DEF ClaimInterface, sideVars, DataInv, PipeIsOwn
<1>4. CASE QueryCaps(c)
  <2>1. pipe' = <<>> /\ UNCHANGED <<dsend, open>>
    BY <1>4 DEF QueryCaps, AskCaps, Quiet, devVars, sideVars, epVars
  <2> QED
    BY <1>1, <2>1 DEF DataInv, PipeIsOwn
<1>6. CASE FlushFails(c)
  <2>1. UNCHANGED <<pipe, dsend, open, holders>> /\ unflushed' = unflushed \union {c}
    BY <1>6 DEF FlushFails, AskCaps, devVars, sideVars, epVars
  <2>2. \A b \in Conns : b # c => pc'[b] = pc[b]
    BY <1>6 DEF FlushFails, AskCaps, DataInv, OrderInv, CloseInv, TasksInv, TaskRanges
  <2>3. \A b \in Conns : Flushed(b)' => Flushed(b)
    BY <2>1, <2>2 DEF Flushed
  <2> QED
    BY <1>1, <2>1, <2>3, PipeKept DEF DataInv, PipeIsOwn
<1>5. CASE GiveUp(c) \/ Refused(c) \/ SendCaps(c) \/ SendOpen(c) \/ Opened(c)
  <2>1. UNCHANGED <<pipe, dsend, open>>
    BY <1>5, ZenonT(60) DEF GiveUp, Refused, Ends, SendCaps, SendOpen, Opened, devVars, sideVars, epVars
  <2>2. \A b \in Conns : b # c => pc'[b] = pc[b] /\ holders'[b] = holders[b]
    BY <1>5, ZenonT(60) DEF GiveUp, Refused, Ends, SendCaps, SendOpen, Opened,
                DataInv, OrderInv, CloseInv, TasksInv, TaskRanges
  <2>6. UNCHANGED unflushed
    BY <1>5, ZenonT(60) DEF GiveUp, Refused, Ends, SendCaps, SendOpen, Opened, envVars, histVars
  <2>3. Flushed(c) \/ pc'[c] = "over" \/ c \in unflushed
    BY <1>5 DEF GiveUp, Refused, Ends, SendCaps, SendOpen, Opened, Flushed,
                DataInv, OrderInv, CloseInv, TasksInv, TaskRanges, Newest
  <2>4. \A b \in Conns : Flushed(b)' => Flushed(b)
    BY <2>2, <2>3, <2>6 DEF Flushed
  <2> QED
    BY <1>1, <2>1, <2>4, PipeKept, SMTT(40) DEF DataInv, PipeIsOwn
<1> QED
  BY <1>2, <1>3, <1>4, <1>5, <1>6 DEF ConnectNext

\* The device's side: what it sends is of the connection that it holds open, and
\* that is the one which holds the interface and has flushed the pipe.
LEMMA PipeDevice ==
  ASSUME DataInv, DeviceNext \/ RequestFails \/ Unplug
  PROVE  PipeIsOwn' /\ ReadIsOwn'
<1>1. UNCHANGED <<pc, holders, unflushed>>
  BY DEF DeviceNext, Serve, DevClose, DevOpen, DevCapsIn, DevCapsOut, DevCloseSend, DevCloseRecv, DevStatus,
         Serves, RequestFails, Unplug, DevSends, DevEndsSend, DevEndsRecv, DevTimesOut, hostSide, connVars,
         envVars, histVars
<1>2. \A c \in Conns : Flushed(c)' => Flushed(c)
  BY <1>1 DEF Flushed
<1>3. open \in 0..MaxConns
  BY DEF DataInv, OrderInv, Sorted
<1>4. CASE Unplug
  <2>1. PipeIsOwn'
    BY <1>2, <1>4, PipeKept DEF Unplug, DataInv
  <2>2. \A c \in Conns : /\ comps'[c] \in {comps[c], Append(comps[c], Completion("err", NoConn))}
                         /\ queue'[c] = queue[c]
    BY <1>4 DEF Unplug, appVars
  <2>3. \A c \in Conns : Completion("err", NoConn) \in OwnCompletions(c) /\ Completion("err", NoConn) \in Completions
    BY ConnRange DEF Completion, Completions, OwnCompletions, NoConn
  <2>4. ASSUME NEW c \in Conns
        PROVE  comps'[c] \in Seq(Completions) /\ comps'[c] \in Seq(OwnCompletions(c))
    <3>1. comps[c] \in Seq(Completions) /\ comps[c] \in Seq(OwnCompletions(c))
      BY DEF DataInv, ReadIsOwn
    <3> QED
      BY <2>2, <2>3, <3>1, AppendRange, ZenonT(60)
  <2>5. comps' \in [Conns -> Seq(Completions)] /\ haltIn' \in 0..MaxConns /\ queue' = queue
    BY <1>4, <2>4, ConnRange DEF Unplug, appVars, NoConn
  <2> QED
    BY <1>1, <2>1, <2>4, <2>5 DEF DataInv, ReadIsOwn, OwnCompletions, OwnConns, Completions
<1>5. CASE DeviceNext \/ RequestFails
  <2>1. UNCHANGED <<comps, queue>> /\ haltIn' \in {haltIn, NoConn, open}
    BY <1>5 DEF DeviceNext, Serve, DevClose, DevOpen, DevCapsIn, DevCapsOut, DevCloseSend, DevCloseRecv,
           DevStatus, Serves, RequestFails, DevSends, DevEndsSend, DevEndsRecv, DevTimesOut,
           hostSide, taskVars, appVars, devVars, epVars
  <2>2. ReadIsOwn'
    BY <1>1, <1>3, <2>1, ReadKept, ConnRange DEF DataInv, ReadIsOwn, NoConn
  <2>3. CASE DevSends
    <3>1. open \in Conns /\ pipe' = Append(pipe, open) /\ dsend /\ UNCHANGED <<dsend, open>>
      BY <1>3, <2>3, HostAssumption DEF DevSends, sideVars, DataInv, PipeIsOwn, Conns, NoConn
    <3>2. \A c \in Conns : Flushed(c) => open = c
      <4> SUFFICES ASSUME NEW c \in Conns, Flushed(c) PROVE open = c
        OBVIOUS
      <4>1. open >= c
        BY <3>1, ConnRange DEF Flushed, DataInv, OrderInv, Cleared, Acknowledged
      <4>2. ~(c < open)
        BY <3>1, ConnRange DEF Flushed, DataInv, OrderInv, Newest, Sorted
      <4> QED
        BY <3>1, <4>1, <4>2, ConnRange
    <3>3. pipe' \in Seq(Conns)
      BY <3>1 DEF DataInv, PipeIsOwn
    <3>4. \A c \in Conns : Flushed(c)' => pipe' \in Seq({c})
      BY <1>2, <3>1, <3>2 DEF DataInv, PipeIsOwn
    <3> QED
      BY <2>2, <3>1, <3>3, <3>4 DEF DataInv, PipeIsOwn
  <2>4. CASE ~DevSends
    <3>1. pipe' \in {pipe, <<>>}
      BY <1>5, <2>4 DEF DeviceNext, Serve, DevClose, DevOpen, DevCapsIn, DevCapsOut, DevCloseSend,
           DevCloseRecv, DevStatus, RequestFails, DevEndsSend, DevEndsRecv, DevTimesOut, devVars, epVars
    <3>2. \/ dsend' = FALSE
          \/ UNCHANGED <<dsend, open>>
          \/ DevOpen /\ open' = Head(ctrl).conn
      BY <1>5, <2>4 DEF DeviceNext, Serve, DevClose, DevOpen, DevCapsIn, DevCapsOut, DevCloseSend,
           DevCloseRecv, DevStatus, RequestFails, DevEndsSend, DevEndsRecv, DevTimesOut, devVars, sideVars
    <3>3. DevOpen => Head(ctrl).conn \in Conns
      BY TailRange, CtrlRange DEF DevOpen, Serves, DataInv, OrderInv, CloseInv, CallsInv, CallRanges
    <3>4. dsend' => open' # NoConn
      BY <3>2, <3>3, ConnRange DEF DataInv, PipeIsOwn
    <3> QED
      BY <1>2, <2>2, <3>1, <3>4, PipeKept DEF DataInv
  <2> QED
    BY <2>3, <2>4, SMTT(40)
<1> QED
  BY <1>4, <1>5

\* in_task reads what is its own, for it holds the interface.
LEMMA ReadBus ==
  ASSUME DataInv, NEW c \in Conns, BusNext(c)
  PROVE  PipeIsOwn' /\ ReadIsOwn'
<1>1. UNCHANGED <<pc, holders, dsend, open, queue, haltIn, unflushed>>
  BY DEF BusNext, BusIn, BusStall, BusFails, connVars, appVars, devVars, sideVars, epVars, envVars, histVars
<1>2. PipeIsOwn'
  <2>1. pipe' \in {pipe, <<>>} \/ (pipe # <<>> /\ pipe' = Tail(pipe))
    BY DEF BusNext, BusIn, BusStall, BusFails, devVars, epVars
  <2> QED
    BY <1>1, <2>1, PipeKept DEF DataInv, PipeIsOwn, Flushed
<1>3. PICK x : Completes(c, x) /\ (x \in Completions /\ (x.kind = "data" => x.conn \in OwnConns(c)))
  <2>1. CASE BusIn(c)
    <3>1. (Flushed(c) \/ c \in unflushed) /\ pipe # <<>> /\ Completes(c, Completion("data", Head(pipe)))
      BY <2>1 DEF BusIn, Reads, Flushed, DataInv, OrderInv, CloseInv, TasksInv, Running, Gone, Dirs
    <3>2. Head(pipe) \in Conns
      BY <3>1, TailRange, EntryRange DEF DataInv, PipeIsOwn
    <3>3. Flushed(c) => Head(pipe) = c
      <4> SUFFICES ASSUME Flushed(c) PROVE Head(pipe) = c
        OBVIOUS
      <4>1. pipe \in Seq({c})
        BY DEF DataInv, PipeIsOwn
      <4> QED
        BY <3>1, <4>1, TailRange, EntryRange
    <3>4. Head(pipe) \in OwnConns(c)
      BY <3>1, <3>2, <3>3 DEF OwnConns
    <3>5. Completion("data", Head(pipe)) \in Completions /\ Completion("data", Head(pipe)).conn = Head(pipe)
      BY <3>2, ConnRange DEF Completion, Completions
    <3> QED
      BY <3>1, <3>4, <3>5
  <2>2. CASE BusStall(c)
    <3>1. Completion("halt", haltIn) \in Completions /\ Completion("halt", haltIn).kind = "halt"
      BY DEF Completion, Completions, DataInv, ReadIsOwn
    <3> QED
      BY <2>2, <3>1 DEF BusStall
  <2>3. CASE BusFails(c)
    <3>1. Completion("err", NoConn) \in Completions /\ Completion("err", NoConn).kind = "err"
      BY ConnRange DEF Completion, Completions
    <3> QED
      BY <2>3, <3>1 DEF BusFails
  <2> QED
    BY <2>1, <2>2, <2>3 DEF BusNext
<1>4. x \in Completions /\ x \in OwnCompletions(c)
  BY <1>3 DEF OwnCompletions
<1>5. \A b \in Conns : comps'[b] = IF b = c THEN Append(comps[c], x) ELSE comps[b]
  BY <1>3 DEF Completes, DataInv, ReadIsOwn
<1>6. Append(comps[c], x) \in Seq(Completions) /\ Append(comps[c], x) \in Seq(OwnCompletions(c))
  BY <1>4, AppendRange DEF DataInv, ReadIsOwn
<1>7. comps' \in [Conns -> Seq(Completions)]
  BY <1>3, <1>6 DEF Completes, DataInv, ReadIsOwn
<1>8. \A b \in Conns : OwnCompletions(b)' = OwnCompletions(b) /\ OwnConns(b)' = OwnConns(b)
  BY <1>1 DEF OwnCompletions, OwnConns, Completions
<1>9. \A b \in Conns : comps'[b] \in Seq(OwnCompletions(b))
  BY <1>5, <1>6 DEF DataInv, ReadIsOwn
<1> QED
  BY <1>1, <1>2, <1>7, <1>8, <1>9 DEF DataInv, ReadIsOwn

\* in_task hands on what it read; the application takes it; a task that ends drops
\* what it has not handed on.
LEMMA ReadTasks ==
  ASSUME DataInv, NEW c \in Conns,
         \/ InTask(c) \/ OutTask(c) \/ OutTakes(c) \/ StatusNext(c)
         \/ DropSender(c) \/ DropReceiver(c) \/ Recv(c)
  PROVE  PipeIsOwn' /\ ReadIsOwn'
<1>1. UNCHANGED <<pc, dsend, open, pipe, haltIn, unflushed>>
  BY DEF InTask, InStops, InFails, InWaits, InQueues, OutTask, OutStops, OutGoesOn, OutSent, OutFails,
         OutDrained, OutTakes, HalfNext, HalfClose, HalfClosed, Closed, StatusNext, PollStatus,
         StatusAnswered, StatusFailed, StatusEnds, DropSender, DropReceiver, Recv,
         connVars, devVars, sideVars, epVars, envVars, histVars
<1>2. holders' = holders \/ \E h \in Holders : holders' = [holders EXCEPT ![c] = @ \ {h}]
  BY DEF InTask, InStops, InFails, InWaits, InQueues, OutTask, OutStops, OutGoesOn, OutSent, OutFails,
         OutDrained, OutTakes, HalfNext, HalfClose, HalfClosed, Closed, CloseOrReturn, Returns,
         StatusNext, PollStatus, StatusAnswered, StatusFailed, StatusEnds, DropSender, DropReceiver, Recv,
         Holders
<1>3. \A b \in Conns : holders'[b] \subseteq holders[b]
  BY <1>2 DEF DataInv, OrderInv, CloseInv, TasksInv, TaskRanges
<1>4. PipeIsOwn'
  BY <1>1, <1>3, PipeKept DEF DataInv, PipeIsOwn, Flushed
<1>5. \A b \in Conns : OwnCompletions(b)' = OwnCompletions(b) /\ OwnConns(b)' = OwnConns(b)
  BY <1>1 DEF OwnCompletions, OwnConns, Completions
<1>6. /\ comps \in [Conns -> Seq(Completions)] /\ queue \in [Conns -> Seq(Conns)]
      /\ comps[c] \in Seq(Completions) /\ comps[c] \in Seq(OwnCompletions(c))
      /\ queue[c] \in Seq(Conns) /\ queue[c] \in Seq(OwnConns(c))
  BY DEF DataInv, ReadIsOwn
<1>7. \A S : <<>> \in Seq(S)
  OBVIOUS
<1>8. CASE \/ comps' = comps
           \/ comps' = [comps EXCEPT ![c] = <<>>]
           \/ comps[c] # <<>> /\ comps' = [comps EXCEPT ![c] = Tail(@)]
  <2>1. ASSUME \/ queue' = queue
               \/ queue' = [queue EXCEPT ![c] = <<>>]
               \/ queue[c] # <<>> /\ queue' = [queue EXCEPT ![c] = Tail(@)]
               \/ \E x \in OwnConns(c) : queue' = [queue EXCEPT ![c] = Append(@, x)]
        PROVE  ReadIsOwn'
    <3>1. PICK s : s \in Seq(Completions) /\ s \in Seq(OwnCompletions(c))
                   /\ (comps' = comps \/ comps' = [comps EXCEPT ![c] = s])
      BY <1>6, <1>7, <1>8, TailRange
    <3>2. PICK q : q \in Seq(Conns) /\ q \in Seq(OwnConns(c))
                   /\ (queue' = queue \/ queue' = [queue EXCEPT ![c] = q])
      <4>1. OwnConns(c) \subseteq Conns
        BY DEF OwnConns
      <4> QED
        BY <1>6, <1>7, <2>1, <4>1, TailRange, AppendRange
    <3>3. comps' \in [Conns -> Seq(Completions)] /\ \A b \in Conns : comps'[b] \in Seq(OwnCompletions(b))
      BY <1>6, <3>1 DEF DataInv, ReadIsOwn
    <3>4. queue' \in [Conns -> Seq(Conns)] /\ \A b \in Conns : queue'[b] \in Seq(OwnConns(b))
      BY <1>6, <3>2 DEF DataInv, ReadIsOwn
    <3> QED
      BY <1>1, <1>5, <3>3, <3>4 DEF DataInv, ReadIsOwn
  <2>2. CASE InQueues(c)
    <3>1. Head(comps[c]) \in OwnCompletions(c) /\ Head(comps[c]).kind = "data"
      BY <1>6, <2>2, TailRange, EntryRange DEF InQueues
    <3>2. \E x \in OwnConns(c) : queue' = [queue EXCEPT ![c] = Append(@, x)]
      BY <2>2, <3>1 DEF InQueues, OwnCompletions
    <3> QED
      BY <1>4, <2>1, <3>2
  <2>3. CASE ~InQueues(c)
    <3>1. \/ queue' = queue
          \/ queue' = [queue EXCEPT ![c] = <<>>]
          \/ queue[c] # <<>> /\ queue' = [queue EXCEPT ![c] = Tail(@)]
      BY <2>3 DEF InTask, InStops, InFails, InWaits, OutTask, OutStops, OutGoesOn, OutSent, OutFails,
         OutDrained, OutTakes, HalfNext, HalfClose, HalfClosed, Closed, StatusNext, PollStatus,
         StatusAnswered, StatusFailed, StatusEnds, DropSender, DropReceiver, Recv, appVars
    <3> QED
      BY <1>4, <2>1, <3>1
  <2> QED
    BY <2>2, <2>3
<1>9. CASE ~ \/ comps' = comps
             \/ comps' = [comps EXCEPT ![c] = <<>>]
             \/ comps[c] # <<>> /\ comps' = [comps EXCEPT ![c] = Tail(@)]
  BY <1>9 DEF InTask, InStops, InFails, InWaits, InQueues, OutTask, OutStops, OutGoesOn, OutSent, OutFails,
         OutDrained, OutTakes, HalfNext, HalfClose, HalfClosed, Closed, CloseOrReturn, Returns,
         StatusNext, PollStatus, StatusAnswered, StatusFailed, StatusEnds, DropSender, DropReceiver, Recv,
         taskVars
<1> QED
  BY <1>4, <1>8, <1>9

\* At first there are no data.
LEMMA InitData == Init => DataInv
<1> SUFFICES ASSUME Init PROVE PipeIsOwn /\ ReadIsOwn
  BY InitOrders DEF DataInv
<1>1. \A S : <<>> \in Seq(S)
  OBVIOUS
<1>2. PipeIsOwn
  BY <1>1 DEF Init, PipeIsOwn
<1>3. ReadIsOwn
  BY <1>1, ConnRange DEF Init, ReadIsOwn
<1> QED
  BY <1>2, <1>3

\* Every action keeps the data of connections apart.
LEMMA NextData == DataInv /\ [Next]_vars => DataInv'
<1> SUFFICES ASSUME DataInv, [Next]_vars PROVE PipeIsOwn' /\ ReadIsOwn'
  BY NextOrders DEF DataInv
<1>1. CASE UNCHANGED vars
  <2>1. UNCHANGED <<pc, holders, dsend, open, pipe, haltIn, comps, queue, unflushed>>
    BY <1>1 DEF vars, connVars, taskVars, appVars, devVars, sideVars, epVars, envVars, histVars
  <2> QED
    BY <2>1, PipeKept, ReadKept DEF DataInv, PipeIsOwn, ReadIsOwn, Flushed
<1>2. CASE Next
  BY <1>2, PipeConnect, PipeDevice, ReadBus, ReadTasks DEF Next, AppNext
<1> QED
  BY <1>1, <1>2

\* connect_with, in_task: recv() returns nothing that an earlier connection left in
\* the pipe, whatever was dropped, failed or still in flight when it was claimed, and
\* whatever an earlier flush has left, unless its own flush ended with a failed transfer.
THEOREM OnlyOwnData == Spec => []RecvIsOwn
<1>1. DataInv => RecvIsOwn
  <2> SUFFICES ASSUME DataInv, NEW c \in Conns, c \notin unflushed, NEW i \in DOMAIN queue[c] PROVE queue[c][i] = c
    BY DEF RecvIsOwn
  <2>1. queue[c] \in Seq(OwnConns(c))
    BY DEF DataInv, ReadIsOwn
  <2>2. queue[c][i] \in OwnConns(c)
    BY <2>1, EntryRange
  <2> QED
    BY <2>2 DEF OwnConns
<1> QED
  BY <1>1, InitData, NextData, PTL DEF Spec

(***************************************************************************)
(* The remaining ranges, the capacities of queues (TypeOK), and that a     *)
(* connection whose tasks have released the interface is closed unless     *)
(* their CLOSE was lost (TornDownIsClosed).                                *)
(*                                                                         *)
(* An unplugged device adds one failed transfer to those of in_task, and   *)
(* does so once (Capacity).  A data task has announced its direction as    *)
(* shut before it sends a request or ends (Shutting), so the second of     *)
(* them finds both shut and sends the CLOSE, and waits for it: when the    *)
(* reply is there the device has closed the connection, or the request     *)
(* was lost (Torn), and no OPEN of it can be left in flight, as            *)
(* connect_with has returned (Kinds).                                      *)
(***************************************************************************)
HostFlags ==
    /\ polls \in [Conns -> BOOLEAN] /\ notify \in [Conns -> [Dirs -> BOOLEAN]]
    /\ told \in [Conns -> BOOLEAN] /\ dead \in [Conns -> BOOLEAN]
    /\ tx \in [Conns -> BOOLEAN] /\ rx \in [Conns -> BOOLEAN]
    /\ gone \in BOOLEAN /\ fails \in 0..MaxFails
    /\ unflushed \in SUBSET Conns /\ lost \in SUBSET Conns
    /\ dsend \in BOOLEAN /\ drecv \in BOOLEAN /\ haltOut \in BOOLEAN

Capacity ==
    /\ \A c \in Conns : /\ Len(queue[c]) <= QueueLen
                        /\ Len(comps[c]) <= (IF gone THEN InBuffers + 1 ELSE InBuffers)
    /\ pending \in [Conns -> 0..DmaBuffers]
    /\ \A c \in Conns : task[c]["out"] = "take" \/ pc[c] \notin {"done", "over"} => pending[c] < DmaBuffers
    /\ Len(pipe) <= MaxPipe

RangeInv == DataInv /\ HostFlags /\ Capacity

\* Control requests are served before the device is unplugged, never after.
Unplugged == gone => ctrl = <<>> /\ open = NoConn

\* Only connect_with opens; a task that closes has nothing but its CLOSE in flight.
Kinds ==
    \A i \in DOMAIN ctrl :
        /\ ctrl[i].kind = "OPEN" => ctrl[i].by = "connect"
        /\ ctrl[i].by \in Dirs /\ task[ctrl[i].conn][ctrl[i].by] = "close" => ctrl[i].kind = "CLOSE"

Shutting ==
    \A c \in Conns : pc[c] = "done" =>
        \A d \in Dirs : task[c][d] # "off" /\ (Waits(c, d) \/ task[c][d] = "ended" => d \in shut[c])

Torn ==
    \A c \in Conns : pc[c] = "done" /\ c \notin lost =>
        /\ \A d \in Dirs : task[c][d] = "close" /\ reply[c][d] # "none" => open # c
        /\ (\A d \in Dirs : task[c][d] = "ended") => open # c

TornInv == Unplugged /\ Kinds /\ Shutting /\ Torn

-----------------------------------------------------------------------------
(* Ranges and capacities                                                   *)

\* connect_with keeps the ranges.
LEMMA FlagsConnect ==
  ASSUME DataInv, HostFlags, NEW c \in Conns, ClaimInterface(c) \/ GiveUp(c) \/ ConnectNext(c)
  PROVE  HostFlags'
<1>0. fails' \in 0..MaxFails /\ unflushed' \in SUBSET Conns
  <2>1. \/ UNCHANGED fails /\ unflushed' \subseteq unflushed
        \/ fails < MaxFails /\ fails' = fails + 1 /\ unflushed' = unflushed \union {c}
    BY ZenonT(60) DEF ClaimInterface, GiveUp, ConnectNext, Refused, Ends, FlushRead, QueryCaps, FlushFails, SendCaps,
                      SendOpen, Opened, envVars, histVars
  <2> QED
    BY <2>1, HostAssumption DEF HostFlags
<1>1. UNCHANGED <<notify, gone, dsend, drecv>> /\ lost' \subseteq lost /\ haltOut' \in {haltOut, FALSE}
  <2>1. CASE ClaimInterface(c)
    BY <2>1 DEF ClaimInterface, envVars, histVars, sideVars
  <2>2. CASE FlushRead(c) \/ GiveUp(c) \/ Refused(c)
    BY <2>2 DEF FlushRead, GiveUp, Refused, Ends, taskVars, envVars, histVars, devVars, sideVars, epVars
  <2>3. CASE AskCaps(c) \/ SendCaps(c) \/ SendOpen(c)
    BY <2>3, ZenonT(60) DEF AskCaps, SendCaps, SendOpen, taskVars, envVars, histVars, devVars, sideVars, epVars
  <2>4. CASE Opened(c)
    BY <2>4 DEF Opened, envVars, histVars, devVars, sideVars, epVars
  <2> QED
    BY <2>1, <2>2, <2>3, <2>4, ConnectSteps
<1>2. tx' \in [Conns -> BOOLEAN] /\ rx' \in [Conns -> BOOLEAN]
  <2>1. CASE Opened(c)
    BY <2>1 DEF Opened, HostFlags
  <2>2. CASE ~Opened(c)
    BY <2>2, ZenonT(60), ConnectSteps DEF ClaimInterface, GiveUp, Refused, Ends, FlushRead, AskCaps, SendCaps,
                     SendOpen, appVars, HostFlags
  <2> QED
    BY <2>1, <2>2
<1>3. CASE ClaimInterface(c)
  BY <1>0, <1>1, <1>2, <1>3 DEF ClaimInterface, HostFlags
<1>4. CASE SendOpen(c)
  BY <1>0, <1>1, <1>2, <1>4 DEF SendOpen, statVars, HostFlags
<1>5. CASE GiveUp(c) \/ Refused(c) \/ FlushRead(c) \/ AskCaps(c) \/ SendCaps(c) \/ Opened(c)
  <2>1. UNCHANGED <<polls, told, dead>>
    BY <1>5, ZenonT(60) DEF GiveUp, Refused, Ends, FlushRead, AskCaps, SendCaps, Opened, connVars, statVars
  <2> QED
    BY <1>0, <1>1, <1>2, <2>1 DEF HostFlags
<1> QED
  BY <1>3, <1>4, <1>5, ConnectSteps

\* The tasks of a connection and the application keep them.
LEMMA FlagsTasks ==
  ASSUME DataInv, HostFlags, NEW c \in Conns,
         \/ InTask(c) \/ OutTask(c) \/ OutTakes(c) \/ StatusNext(c)
         \/ DropSender(c) \/ DropReceiver(c) \/ Recv(c)
  PROVE  HostFlags'
<1>1. UNCHANGED <<polls, gone, unflushed, lost, dsend, drecv, haltOut>>
  BY DEF InTask, InStops, InFails, InWaits, InQueues, OutTask, OutStops, OutGoesOn, OutSent, OutFails,
         OutDrained, OutTakes, HalfNext, HalfClose, HalfClosed, Closed, StatusNext, PollStatus,
         StatusAnswered, StatusFailed, StatusEnds, DropSender, DropReceiver, Recv,
         connVars, envVars, histVars, devVars, sideVars, epVars
<1>2. fails' = fails \/ (fails < MaxFails /\ fails' = fails + 1)
  BY DEF InTask, InStops, InFails, InWaits, InQueues, OutTask, OutStops, OutGoesOn, OutSent, OutFails,
         OutDrained, OutTakes, HalfNext, HalfClose, HalfClosed, Closed, StatusNext, PollStatus,
         StatusAnswered, StatusFailed, StatusEnds, DropSender, DropReceiver, Recv, envVars
<1>3. fails' \in 0..MaxFails
  BY <1>2, HostAssumption DEF HostFlags
<1>4. tx' \in [Conns -> BOOLEAN] /\ rx' \in [Conns -> BOOLEAN]
  BY DEF InTask, InStops, InFails, InWaits, InQueues, OutTask, OutStops, OutGoesOn, OutSent, OutFails,
         OutDrained, OutTakes, HalfNext, HalfClose, HalfClosed, Closed, StatusNext, PollStatus,
         StatusAnswered, StatusFailed, StatusEnds, DropSender, DropReceiver, Recv, appVars, HostFlags
<1>5. told' \in [Conns -> BOOLEAN] /\ dead' \in [Conns -> BOOLEAN]
  BY DEF InTask, InStops, InFails, InWaits, InQueues, OutTask, OutStops, OutGoesOn, OutSent, OutFails,
         OutDrained, OutTakes, HalfNext, HalfClose, HalfClosed, Closed, StatusNext, PollStatus,
         StatusAnswered, StatusFailed, StatusEnds, DropSender, DropReceiver, Recv, statVars, HostFlags
<1>6. notify' \in [Conns -> [Dirs -> BOOLEAN]]
  <2>1. \/ notify' = notify
        \/ \E d \in Dirs, b \in BOOLEAN : notify' = [notify EXCEPT ![c][d] = b]
    <3>1. "in" \in Dirs /\ "out" \in Dirs /\ TRUE \in BOOLEAN /\ FALSE \in BOOLEAN
      BY DEF Dirs
    <3>2. (~DeviceClosed(c)) \in BOOLEAN
      BY DEF DeviceClosed
    <3>3. CASE InStops(c) \/ InFails(c)
      BY <3>1, <3>3, Zenon DEF InStops, InFails, InEnds
    <3>4. CASE OutStops(c) \/ OutFails(c)
      BY <3>1, <3>2, <3>4, Zenon DEF OutStops, OutFails
    <3>5. CASE HalfNext(c, "in") \/ HalfNext(c, "out")
      BY <3>1, <3>5, Zenon DEF HalfNext, HalfClose, HalfClosed, Closed
    <3>6. CASE StatusNext(c) \/ DropSender(c) \/ DropReceiver(c) \/ Recv(c)
      BY <3>6, Zenon DEF StatusNext, PollStatus, StatusAnswered, StatusFailed, StatusEnds,
                         DropSender, DropReceiver, Recv, taskVars
    <3>7. CASE InWaits(c) \/ InQueues(c) \/ OutTakes(c) \/ OutGoesOn(c) \/ OutSent(c) \/ OutDrained(c)
      BY <3>7, Zenon DEF InWaits, InQueues, OutTakes, OutGoesOn, OutSent, OutDrained
    <3> QED
      BY <3>3, <3>4, <3>5, <3>6, <3>7 DEF InTask, OutTask
  <2>2. ASSUME NEW d \in Dirs, NEW b \in BOOLEAN, notify' = [notify EXCEPT ![c][d] = b]
        PROVE  notify' \in [Conns -> [Dirs -> BOOLEAN]]
    BY <2>2 DEF HostFlags
  <2>3. notify' = notify => notify' \in [Conns -> [Dirs -> BOOLEAN]]
    BY DEF HostFlags
  <2> QED
    BY <2>1, <2>2, <2>3, Zenon
<1> QED
  BY <1>1, <1>3, <1>4, <1>5, <1>6 DEF HostFlags

\* So do the device and the bus.
LEMMA FlagsDevice ==
  ASSUME DataInv, HostFlags,
         DeviceNext \/ RequestFails \/ Unplug \/ (\E c \in Conns : BusNext(c)) \/ UNCHANGED vars
  PROVE  HostFlags'
<1>1. UNCHANGED <<polls, notify, told, dead, tx, rx, unflushed>>
  BY DEF DeviceNext, Serve, DevClose, DevOpen, DevCapsIn, DevCapsOut, DevCloseSend, DevCloseRecv, DevStatus,
         Serves, RequestFails, Unplug, DevSends, DevEndsSend, DevEndsRecv, DevTimesOut, BusNext, BusIn,
         BusStall, BusFails, hostSide, connVars, taskVars, statVars, appVars, envVars, histVars, vars
<1>0. lost' \in SUBSET Conns
  <2>1. CASE RequestFails
    <3>1. Head(ctrl).conn \in Conns
      BY <2>1, TailRange, CtrlRange DEF RequestFails, DataInv, OrderInv, CloseInv, CallsInv, CallRanges
    <3> QED
      BY <2>1, <3>1 DEF RequestFails, HostFlags
  <2>2. CASE ~RequestFails
    <3>1. UNCHANGED lost
      BY <2>2 DEF DeviceNext, Serve, DevClose, DevOpen, DevCapsIn, DevCapsOut, DevCloseSend, DevCloseRecv,
             DevStatus, Serves, Unplug, DevSends, DevEndsSend, DevEndsRecv, DevTimesOut, BusNext, BusIn,
             BusStall, BusFails, envVars, histVars, vars
    <3> QED
      BY <3>1 DEF HostFlags
  <2> QED
    BY <2>1, <2>2
<1>2. gone' \in BOOLEAN /\ (fails' = fails \/ (fails < MaxFails /\ fails' = fails + 1))
  BY DEF DeviceNext, Serve, DevClose, DevOpen, DevCapsIn, DevCapsOut, DevCloseSend, DevCloseRecv, DevStatus,
         Serves, RequestFails, Unplug, DevSends, DevEndsSend, DevEndsRecv, DevTimesOut, BusNext, BusIn,
         BusStall, BusFails, envVars, vars, HostFlags
<1>3. fails' \in 0..MaxFails
  BY <1>2, HostAssumption DEF HostFlags
<1>4. dsend' \in BOOLEAN /\ drecv' \in BOOLEAN /\ haltOut' \in BOOLEAN
  BY DEF DeviceNext, Serve, DevClose, DevOpen, DevCapsIn, DevCapsOut, DevCloseSend, DevCloseRecv, DevStatus,
         RequestFails, Unplug, DevSends, DevEndsSend, DevEndsRecv, DevTimesOut, BusNext, BusIn,
         BusStall, BusFails, devVars, sideVars, epVars, vars, HostFlags
<1> QED
  BY <1>0, <1>1, <1>2, <1>3, <1>4 DEF HostFlags

\* Lengths
LEMMA Lengths ==
  ASSUME NEW S, NEW s \in Seq(S)
  PROVE  /\ Len(s) \in Nat /\ Len(<<>>) = 0
         /\ s # <<>> => Len(Tail(s)) <= Len(s) /\ Len(Tail(s)) \in Nat
         /\ \A x \in S : Len(Append(s, x)) = Len(s) + 1
  OBVIOUS

\* connect_with: a connection begins with no transfer of out_task pending.
LEMMA CapacityConnect ==
  ASSUME RangeInv, NEW c \in Conns, ClaimInterface(c) \/ GiveUp(c) \/ ConnectNext(c)
  PROVE  Capacity'
<1>1. UNCHANGED <<queue, comps, pending>>
  BY ConnectSteps, ZenonT(60) DEF ClaimInterface, GiveUp, Refused, Ends, FlushRead, AskCaps, SendCaps, SendOpen,
         Opened, taskVars, appVars
<1>2. UNCHANGED gone
  BY ConnectSteps, ZenonT(60) DEF ClaimInterface, GiveUp, Refused, Ends, FlushRead, AskCaps, SendCaps, SendOpen,
         Opened, envVars
<1>3. Len(pipe') <= MaxPipe
  <2>1. pipe' = pipe \/ (pipe # <<>> /\ pipe' = Tail(pipe))
    BY ConnectSteps, ZenonT(60) DEF ClaimInterface, GiveUp, Refused, Ends, FlushRead, AskCaps, SendCaps, SendOpen,
           Opened, devVars, epVars
  <2>2. pipe \in Seq(Conns) /\ Len(pipe) <= MaxPipe
    BY DEF RangeInv, DataInv, PipeIsOwn, Capacity
  <2> QED
    BY <2>1, <2>2, Lengths, HostAssumption
<1>4. \A b \in Conns : task'[b]["out"] = "take" \/ pc'[b] \notin {"done", "over"} => pending'[b] < DmaBuffers
  <2> SUFFICES ASSUME NEW b \in Conns, task'[b]["out"] = "take" \/ pc'[b] \notin {"done", "over"}
               PROVE  task[b]["out"] = "take" \/ pc[b] \notin {"done", "over"}
    BY <1>1 DEF RangeInv, Capacity
  <2> "out" \in Dirs
    BY DEF Dirs
  <2>1. TaskRanges
    BY DEF RangeInv, DataInv, OrderInv, CloseInv, TasksInv
  <2>2. CASE ClaimInterface(c)
    BY <2>1, <2>2, ConnRange DEF ClaimInterface, TaskRanges
  <2>3. CASE GiveUp(c) \/ Refused(c) \/ FlushRead(c)
    BY <2>1, <2>3 DEF GiveUp, Refused, Ends, FlushRead, connVars, taskVars, TaskRanges
  <2>4. CASE AskCaps(c) \/ SendCaps(c) \/ SendOpen(c)
    <3>1. UNCHANGED task /\ pc[c] \notin {"done", "over"} /\ \A a \in Conns : a # c => pc'[a] = pc[a]
      <4>1. UNCHANGED task /\ pc[c] \notin {"done", "over"}
        BY <2>4, ZenonT(60) DEF AskCaps, SendCaps, SendOpen, taskVars
      <4>2. \E p \in {"caps", "hostcaps", "open"} : pc' = [pc EXCEPT ![c] = p]
        BY <2>4, ZenonT(60) DEF AskCaps, SendCaps, SendOpen
      <4> QED
        BY <2>1, <4>1, <4>2 DEF TaskRanges
    <3> QED
      BY <3>1
  <2>5. CASE Opened(c)
    BY <2>1, <2>5 DEF Opened, TaskRanges
  <2> QED
    BY <2>2, <2>3, <2>4, <2>5, ConnectSteps
<1> QED
  BY <1>1, <1>2, <1>3, <1>4 DEF RangeInv, Capacity

\* in_task and the application: a transfer is handed on when there is a place.
LEMMA CapacityIn ==
  ASSUME RangeInv, NEW c \in Conns, InTask(c) \/ StatusNext(c) \/ DropSender(c) \/ DropReceiver(c) \/ Recv(c)
  PROVE  Capacity'
<1>1. UNCHANGED <<pc, gone, pipe, pending>>
  BY ZenonT(60) DEF InTask, InStops, InFails, InWaits, InQueues, HalfNext, HalfClose, HalfClosed, Closed, StatusNext,
         PollStatus, StatusAnswered, StatusFailed, StatusEnds, DropSender, DropReceiver, Recv,
         connVars, taskVars, envVars, devVars, epVars
<1>2. \A b \in Conns : task'[b]["out"] = task[b]["out"]
  <2>1. task' = task \/ \E s \in Steps : task' = [task EXCEPT ![c]["in"] = s]
    BY DEF InTask, InStops, InFails, InEnds, InWaits, InQueues, HalfNext, HalfClose, HalfClosed, Closed,
           CloseOrReturn, Returns, StatusNext, PollStatus, StatusAnswered, StatusFailed, StatusEnds,
           DropSender, DropReceiver, Recv, taskVars, Steps
  <2> QED
    BY <2>1 DEF RangeInv, DataInv, OrderInv, CloseInv, TasksInv, TaskRanges, Dirs
<1>3. /\ comps \in [Conns -> Seq(Completions)] /\ queue \in [Conns -> Seq(Conns)]
      /\ comps[c] \in Seq(Completions) /\ queue[c] \in Seq(Conns)
  BY DEF RangeInv, DataInv, ReadIsOwn
<1>4. \/ comps' = comps
      \/ comps' = [comps EXCEPT ![c] = <<>>]
      \/ comps[c] # <<>> /\ comps' = [comps EXCEPT ![c] = Tail(@)]
  BY DEF InTask, InStops, InFails, InWaits, InQueues, HalfNext, HalfClose, HalfClosed, Closed, CloseOrReturn,
         Returns, StatusNext, PollStatus, StatusAnswered, StatusFailed, StatusEnds, DropSender, DropReceiver,
         Recv, taskVars
<1>5. \/ queue' = queue
      \/ queue' = [queue EXCEPT ![c] = <<>>]
      \/ queue[c] # <<>> /\ queue' = [queue EXCEPT ![c] = Tail(@)]
      \/ Len(queue[c]) < QueueLen /\ \E x \in Conns : queue' = [queue EXCEPT ![c] = Append(@, x)]
  <2>1. CASE InQueues(c)
    <3>1. Head(comps[c]) \in OwnCompletions(c) /\ Head(comps[c]).kind = "data"
      <4>1. comps[c] \in Seq(OwnCompletions(c))
        BY DEF RangeInv, DataInv, ReadIsOwn
      <4> QED
        BY <2>1, <4>1, TailRange, EntryRange DEF InQueues
    <3>2. Len(queue[c]) < QueueLen /\ \E x \in Conns : queue' = [queue EXCEPT ![c] = Append(@, x)]
      BY <2>1, <3>1 DEF InQueues, OwnCompletions, OwnConns, MayQueue
    <3> QED
      BY <3>2
  <2>2. CASE ~InQueues(c)
    BY <2>2 DEF InTask, InStops, InFails, InWaits, HalfNext, HalfClose, HalfClosed, Closed,
         StatusNext, PollStatus, StatusAnswered, StatusFailed, StatusEnds, DropSender, DropReceiver,
         Recv, appVars
  <2> QED
    BY <2>1, <2>2
<1>6. Len(comps'[c]) <= Len(comps[c]) /\ Len(comps[c]) \in Nat /\ Len(comps'[c]) \in Nat
  BY <1>3, <1>4, Lengths
<1>7. Len(queue'[c]) <= QueueLen
  BY <1>3, <1>5, Lengths, HostAssumption DEF RangeInv, Capacity
<1>8. \A b \in Conns : b # c => comps'[b] = comps[b] /\ queue'[b] = queue[b]
  BY <1>3, <1>4, <1>5
<1>9. \A b \in Conns : /\ Len(queue'[b]) <= QueueLen
                       /\ Len(comps'[b]) <= (IF gone THEN InBuffers + 1 ELSE InBuffers)
  <2> DEFINE limit == IF gone THEN InBuffers + 1 ELSE InBuffers
  <2>1. limit \in Nat /\ \A b \in Conns : Len(queue[b]) <= QueueLen /\ Len(comps[b]) <= limit
    BY HostAssumption DEF RangeInv, Capacity
  <2> HIDE DEF limit
  <2>2. Len(comps'[c]) <= limit
    BY <1>6, <2>1
  <2>3. \A b \in Conns : Len(queue'[b]) <= QueueLen /\ Len(comps'[b]) <= limit
    BY <1>7, <1>8, <2>1, <2>2
  <2> QED
    BY <2>3 DEF limit
<1> QED
  BY <1>1, <1>2, <1>9 DEF RangeInv, Capacity

\* out_task: it takes a packet only while fewer than DMA_BUFFERS transfers are pending.
LEMMA CapacityOut ==
  ASSUME RangeInv, NEW c \in Conns, OutTask(c) \/ OutTakes(c)
  PROVE  Capacity'
<1>1. UNCHANGED <<pc, gone, pipe, queue>>
  BY ZenonT(60) DEF OutTask, OutTakes, OutStops, OutGoesOn, OutSent, OutFails, OutDrained, HalfNext, HalfClose,
         HalfClosed, Closed, connVars, envVars, devVars, epVars, appVars
<1>2. UNCHANGED comps
  BY DEF OutTask, OutTakes, OutStops, OutGoesOn, OutSent, OutFails, OutDrained, HalfNext, HalfClose,
         HalfClosed, Closed, CloseOrReturn, Returns
<1> "out" \in Dirs
  BY DEF Dirs
<1>3. /\ task \in [Conns -> [Dirs -> Steps]] /\ pending \in [Conns -> 0..DmaBuffers]
      /\ pending[c] \in 0..DmaBuffers /\ DmaBuffers \in Nat
      /\ task[c]["out"] \notin {"off", "ended"} => pc[c] = "done"
  BY HostAssumption DEF RangeInv, Capacity, DataInv, OrderInv, CloseInv, TasksInv, TaskRanges, Running, Gone
<1>4. /\ task[c]["out"] \notin {"off", "ended"}
      /\ \/ pending' = pending
         \/ task[c]["out"] = "take" /\ pending' = [pending EXCEPT ![c] = @ + 1]
         \/ pending[c] > 0 /\ pending' = [pending EXCEPT ![c] = @ - 1]
  BY DEF OutTask, OutTakes, OutStops, OutGoesOn, OutSent, OutFails, OutDrained, HalfNext, HalfClose,
         HalfClosed, Closed
<1>5. \A b \in Conns : b # c => task'[b] = task[b] /\ pending'[b] = pending[b]
  <2>1. task' = task \/ \E s \in Steps : task' = [task EXCEPT ![c]["out"] = s]
    BY DEF OutTask, OutTakes, OutStops, OutGoesOn, OutSent, OutFails, OutDrained, HalfNext, HalfClose,
           HalfClosed, Closed, CloseOrReturn, Returns, Steps
  <2> QED
    BY <1>3, <1>4, <2>1
<1>6. pending' \in [Conns -> 0..DmaBuffers]
  <2>1. task[c]["out"] = "take" => pending[c] + 1 \in 0..DmaBuffers
    BY <1>3 DEF RangeInv, Capacity
  <2>2. pending[c] > 0 => pending[c] - 1 \in 0..DmaBuffers
    BY <1>3
  <2>3. CASE pending' = pending
    BY <1>3, <2>3
  <2>4. CASE task[c]["out"] = "take" /\ pending' = [pending EXCEPT ![c] = @ + 1]
    BY <1>3, <2>1, <2>4
  <2>5. CASE pending[c] > 0 /\ pending' = [pending EXCEPT ![c] = @ - 1]
    BY <1>3, <2>2, <2>5
  <2> QED
    BY <1>4, <2>3, <2>4, <2>5
<1>7. task'[c]["out"] = "take" => pending'[c] < DmaBuffers
  <2>1. CASE OutGoesOn(c)
    BY <1>3, <2>1 DEF OutGoesOn, MustWait
  <2>2. CASE OutSent(c)
    BY <1>3, <2>2 DEF OutSent
  <2>3. CASE ~OutGoesOn(c) /\ ~OutSent(c)
    BY <1>3, <2>3 DEF OutTask, OutTakes, OutStops, OutFails, OutDrained, HalfNext, HalfClose,
         HalfClosed, Closed, CloseOrReturn, Returns
  <2> QED
    BY <2>1, <2>2, <2>3
<1> QED
  BY <1>1, <1>2, <1>3, <1>4, <1>5, <1>6, <1>7 DEF RangeInv, Capacity

\* The device, the bus: what breaks in_task's transfers comes once.
LEMMA CapacityDevice ==
  ASSUME RangeInv, DeviceNext \/ RequestFails \/ Unplug \/ UNCHANGED vars
  PROVE  Capacity'
<1>1. UNCHANGED <<pc, task, pending, queue>>
  BY DEF DeviceNext, Serve, DevClose, DevOpen, DevCapsIn, DevCapsOut, DevCloseSend, DevCloseRecv, DevStatus,
         Serves, RequestFails, Unplug, DevSends, DevEndsSend, DevEndsRecv, DevTimesOut, hostSide, connVars,
         taskVars, appVars, vars
<1>2. Len(pipe') <= MaxPipe
  <2>1. pipe' \in {pipe, <<>>} \/ (Len(pipe) < MaxPipe /\ open \in Conns /\ pipe' = Append(pipe, open))
    <3>1. dsend => open \in Conns
      BY HostAssumption DEF RangeInv, DataInv, OrderInv, Sorted, PipeIsOwn, Conns, NoConn
    <3> QED
      BY <3>1 DEF DeviceNext, Serve, DevClose, DevOpen, DevCapsIn, DevCapsOut, DevCloseSend, DevCloseRecv, DevStatus,
         RequestFails, Unplug, DevSends, DevEndsSend, DevEndsRecv, DevTimesOut, devVars, epVars, vars
  <2>2. pipe \in Seq(Conns) /\ Len(pipe) <= MaxPipe
    BY DEF RangeInv, DataInv, PipeIsOwn, Capacity
  <2> QED
    BY <2>1, <2>2, Lengths, HostAssumption
<1>3. \A b \in Conns : Len(comps'[b]) <= (IF gone' THEN InBuffers + 1 ELSE InBuffers)
  <2>1. CASE Unplug
    <3> SUFFICES ASSUME NEW b \in Conns PROVE Len(comps'[b]) <= InBuffers + 1
      BY <2>1 DEF Unplug
    <3>1. comps[b] \in Seq(Completions) /\ Completion("err", NoConn) \in Completions
      BY ConnRange DEF Completion, Completions, RangeInv, DataInv, ReadIsOwn
    <3>2. comps'[b] = comps[b] \/ comps'[b] = Append(comps[b], Completion("err", NoConn))
      BY <2>1 DEF Unplug
    <3>3. Len(comps[b]) <= InBuffers
      BY <2>1 DEF Unplug, RangeInv, Capacity
    <3> QED
      BY <3>1, <3>2, <3>3, Lengths, HostAssumption
  <2>2. CASE ~Unplug
    <3>1. UNCHANGED <<comps, gone>>
      BY <2>2 DEF DeviceNext, Serve, DevClose, DevOpen, DevCapsIn, DevCapsOut, DevCloseSend, DevCloseRecv, DevStatus,
         Serves, RequestFails, DevSends, DevEndsSend, DevEndsRecv, DevTimesOut, hostSide,
         taskVars, envVars, vars
    <3> QED
      BY <3>1 DEF RangeInv, Capacity
  <2> QED
    BY <2>1, <2>2
<1> QED
  BY <1>1, <1>2, <1>3 DEF RangeInv, Capacity

\* The bus completes a transfer of in_task only while one is submitted.
LEMMA CapacityBus ==
  ASSUME RangeInv, NEW c \in Conns, BusNext(c)
  PROVE  Capacity'
<1>1. UNCHANGED <<pc, task, pending, queue, gone>> /\ ~gone
  BY DEF BusNext, BusIn, BusStall, BusFails, connVars, appVars, envVars
<1>2. Len(pipe') <= MaxPipe
  <2>1. pipe' = pipe \/ (pipe # <<>> /\ pipe' = Tail(pipe))
    BY DEF BusNext, BusIn, BusStall, BusFails, devVars, epVars
  <2>2. pipe \in Seq(Conns) /\ Len(pipe) <= MaxPipe
    BY DEF RangeInv, DataInv, PipeIsOwn, Capacity
  <2> QED
    BY <2>1, <2>2, Lengths, HostAssumption
<1>3. \E x : Completes(c, x) /\ Len(comps[c]) < InBuffers
  BY DEF BusNext, BusIn, BusStall, BusFails, Reads
<1>4. \A b \in Conns : Len(comps'[b]) <= InBuffers
  <2>1. PICK x : Completes(c, x)
    BY <1>3
  <2>2. comps \in [Conns -> Seq(Completions)] /\ comps[c] \in Seq(Completions) /\ Len(comps[c]) \in Nat
    BY Lengths DEF RangeInv, DataInv, ReadIsOwn
  <2>3. \A b \in Conns : comps'[b] = IF b = c THEN Append(comps[c], x) ELSE comps[b]
    BY <2>1, <2>2 DEF Completes
  <2>4. Len(Append(comps[c], x)) = Len(comps[c]) + 1
    BY <2>2
  <2>5. Len(comps'[c]) <= InBuffers
    <3>1. Len(comps[c]) \in Nat /\ Len(comps[c]) < InBuffers /\ InBuffers \in Nat
      BY <1>3, <2>2, HostAssumption, Zenon
    <3>2. Len(comps'[c]) = Len(comps[c]) + 1
      BY <2>3, <2>4, Zenon
    <3> QED
      BY <3>1, <3>2
  <2>6. \A b \in Conns : Len(comps[b]) <= InBuffers
    BY <1>1 DEF RangeInv, Capacity
  <2> QED
    BY <2>3, <2>5, <2>6
<1> QED
  BY <1>1, <1>2, <1>4 DEF RangeInv, Capacity

\* At first everything is empty.
LEMMA InitRanges == Init => RangeInv
<1> SUFFICES ASSUME Init PROVE HostFlags /\ Capacity
  BY InitData DEF RangeInv
<1>1. HostFlags
  <2>1. polls \in [Conns -> BOOLEAN] /\ told \in [Conns -> BOOLEAN] /\ dead \in [Conns -> BOOLEAN]
    BY DEF Init
  <2>2. tx \in [Conns -> BOOLEAN] /\ rx \in [Conns -> BOOLEAN]
    BY DEF Init
  <2>3. notify \in [Conns -> [Dirs -> BOOLEAN]]
    BY DEF Init
  <2>4. gone \in BOOLEAN /\ dsend \in BOOLEAN /\ drecv \in BOOLEAN /\ haltOut \in BOOLEAN
    BY DEF Init
  <2>5. fails \in 0..MaxFails
    BY HostAssumption DEF Init
  <2>6. unflushed \in SUBSET Conns /\ lost \in SUBSET Conns
    BY DEF Init
  <2> QED
    BY <2>1, <2>2, <2>3, <2>4, <2>5, <2>6 DEF HostFlags
<1>2. Capacity
  <2>1. Len(<<>>) = 0
    OBVIOUS
  <2> QED
    BY <2>1, HostAssumption DEF Init, Capacity
<1> QED
  BY <1>1, <1>2

\* Every action keeps the ranges and the capacities.
LEMMA NextRanges == RangeInv /\ [Next]_vars => RangeInv'
<1> SUFFICES ASSUME RangeInv, [Next]_vars PROVE HostFlags' /\ Capacity'
  BY NextData DEF RangeInv
<1>1. DataInv /\ HostFlags
  BY DEF RangeInv
<1>2. CASE UNCHANGED vars
  BY <1>1, <1>2, FlagsDevice, CapacityDevice
<1>3. CASE Next
  BY <1>1, <1>3, FlagsConnect, FlagsTasks, FlagsDevice, CapacityConnect, CapacityIn, CapacityOut,
     CapacityDevice, CapacityBus DEF Next, AppNext
<1> QED
  BY <1>2, <1>3

\* native.rs keeps to the capacity of the queue to recv() and to DMA_BUFFERS
\* pending transfers, and all variables to their ranges.
THEOREM HostTypes == Spec => []TypeOK
<1>1. RangeInv => TypeOK
  <2> SUFFICES ASSUME RangeInv PROVE TypeOK
    OBVIOUS
  <2> USE DEF RangeInv, DataInv, OrderInv, CloseInv
  <2>1. /\ pc \in [Conns -> {"idle", "close", "caps", "hostcaps", "open", "done", "over"}]
        /\ holders \in [Conns -> SUBSET Holders] /\ task \in [Conns -> [Dirs -> Steps]]
        /\ shut \in [Conns -> SUBSET Dirs] /\ lock \in [Conns -> SUBSET Dirs]
    BY DEF TasksInv, TaskRanges
  <2>2. status \in [Conns -> {"off", "idle", "poll", "waits", "ended"}] /\ open \in 0..MaxConns
    BY DEF Newest, Sorted
  <2>3. reply \in [Conns -> [Holders -> {"none", "ok", "recv_closed", "err"}]]
    BY DEF CallsInv, CallRanges, Results
  <2>4. \A i \in DOMAIN ctrl : ctrl[i].conn \in Conns /\ ctrl[i].by \in Holders /\ ctrl[i].kind \in Requests
    BY CtrlRange DEF CallsInv
  <2>5. pipe \in Seq(Conns) /\ haltIn \in 0..MaxConns
    BY DEF PipeIsOwn, ReadIsOwn
  <2>6. \A c \in Conns : Len(queue[c]) <= QueueLen /\ Len(comps[c]) <= InBuffers + 1 /\ pending[c] \in 0..DmaBuffers
    <3> SUFFICES ASSUME NEW c \in Conns PROVE Len(comps[c]) <= InBuffers + 1
      BY DEF Capacity
    <3>1. comps[c] \in Seq(Completions) /\ Len(comps[c]) \in Nat
      BY Lengths DEF ReadIsOwn
    <3>2. Len(comps[c]) <= InBuffers \/ Len(comps[c]) <= InBuffers + 1
      BY DEF Capacity
    <3> QED
      BY <3>1, <3>2, HostAssumption
  <2>7. Len(pipe) <= MaxPipe
    BY DEF Capacity
  <2>8. HostFlags
    OBVIOUS
  <2> HIDE DEF RangeInv, DataInv, OrderInv, CloseInv
  <2> QED
    BY <2>1, <2>2, <2>3, <2>4, <2>5, <2>6, <2>7, <2>8 DEF TypeOK, HostFlags
<1> QED
  BY <1>1, InitRanges, NextRanges, PTL DEF Spec

-----------------------------------------------------------------------------
(* A connection that is torn down is closed                                *)

\* What TornInv is about; a step that changes none of it keeps it.
tornVars == <<pc, task, shut, reply, ctrl, open, gone, lost>>

\* Steps of the data paths, the handles and the status change nothing of it.
LEMMA TornQuiet == TornInv /\ UNCHANGED tornVars => TornInv'
  BY DEF TornInv, Unplugged, Kinds, Shutting, Torn, Waits, tornVars

\* No request of a task becomes one that does not fit it: nothing is sent, and
\* whoever begins to close has nothing in flight.
LEMMA KindsKept ==
  ASSUME Kinds, CallRanges, ctrl' = ctrl \/ ctrl' = <<>> \/ (ctrl # <<>> /\ ctrl' = Tail(ctrl)),
         \A c \in Conns : \A d \in Dirs : task'[c][d] = "close" => task[c][d] = "close" \/ Silent(c, d)
  PROVE  Kinds'
<1> SUFFICES ASSUME NEW i \in DOMAIN ctrl'
             PROVE  /\ ctrl'[i].kind = "OPEN" => ctrl'[i].by = "connect"
                    /\ ctrl'[i].by \in Dirs /\ task'[ctrl'[i].conn][ctrl'[i].by] = "close" => ctrl'[i].kind = "CLOSE"
  BY DEF Kinds
<1>1. PICK j \in DOMAIN ctrl : ctrl'[i] = ctrl[j]
  BY TailRange DEF CallRanges
<1>2. ctrl[j].conn \in Conns
  BY CtrlRange
<1>3. ctrl[j].by \in Dirs => ~Silent(ctrl[j].conn, ctrl[j].by)
  BY DEF Silent
<1> QED
  BY <1>1, <1>2, <1>3 DEF Kinds

\* A request is sent that fits its sender.
LEMMA KindsCalled ==
  ASSUME Kinds, CallRanges, NEW c \in Conns, NEW h \in Holders, NEW k \in Requests, Call(c, h, k),
         k = "OPEN" => h = "connect", h \in Dirs /\ task'[c][h] = "close" => k = "CLOSE",
         \A b \in Conns : \A d \in Dirs : task'[b][d] = "close" => task[b][d] = "close" \/ Silent(b, d)
  PROVE  Kinds'
<1> SUFFICES ASSUME NEW i \in DOMAIN ctrl'
             PROVE  /\ ctrl'[i].kind = "OPEN" => ctrl'[i].by = "connect"
                    /\ ctrl'[i].by \in Dirs /\ task'[ctrl'[i].conn][ctrl'[i].by] = "close" => ctrl'[i].kind = "CLOSE"
  BY DEF Kinds
<1>1. [conn |-> c, by |-> h, kind |-> k] \in InFlight
  BY DEF InFlight
<1>2. (i \in DOMAIN ctrl /\ ctrl'[i] = ctrl[i]) \/ ctrl'[i] = [conn |-> c, by |-> h, kind |-> k]
  BY <1>1, AppendRange DEF Call, CallRanges
<1>3. CASE i \in DOMAIN ctrl /\ ctrl'[i] = ctrl[i]
  <2>1. ctrl[i].conn \in Conns
    BY <1>3, CtrlRange
  <2>2. ctrl[i].by \in Dirs => ~Silent(ctrl[i].conn, ctrl[i].by)
    BY <1>3 DEF Silent
  <2> QED
    BY <1>3, <2>1, <2>2 DEF Kinds
<1>4. CASE ctrl'[i] = [conn |-> c, by |-> h, kind |-> k]
  BY <1>4
<1> QED
  BY <1>2, <1>3, <1>4

\* A step that leaves each task as it was, or somewhere between its start and its
\* last requests, keeps what is known of those that are past them.
LEMMA TornTasksKept ==
  ASSUME Shutting, Torn, \A c \in Conns : pc'[c] = "done" /\ c \in lost => c \in lost',
         open' # open => \A c \in Conns : pc'[c] = "done" => open' # c,
         \A c \in Conns : \A d \in Dirs : pc'[c] = "done" =>
            \/ task'[c][d] \notin {"off", "half", "close", "ended"}
            \/ pc[c] = "done" /\ task'[c][d] = task[c][d] /\ shut'[c] = shut[c] /\ reply'[c][d] = reply[c][d]
  PROVE  Shutting' /\ Torn'
<1>1. Shutting'
  BY DEF Shutting, Waits
<1>2. Torn'
  <2> SUFFICES ASSUME NEW c \in Conns, c \notin lost', c \notin lost, pc'[c] = "done"
               PROVE  /\ \A d \in Dirs : task'[c][d] = "close" /\ reply'[c][d] # "none" => open' # c
                      /\ (\A d \in Dirs : task'[c][d] = "ended") => open' # c
    BY DEF Torn
  <2>1. ASSUME NEW d \in Dirs, task'[c][d] = "close", reply'[c][d] # "none" PROVE open' # c
    BY <2>1 DEF Torn
  <2>2. ASSUME \A d \in Dirs : task'[c][d] = "ended" PROVE open' # c
    <3>1. pc[c] = "done" /\ \A d \in Dirs : task[c][d] = "ended"
      BY <2>2 DEF Dirs
    <3> QED
      BY <3>1 DEF Torn
  <2> QED
    BY <2>1, <2>2
<1> QED
  BY <1>1, <1>2

\* connect_with
LEMMA TornConnect ==
  ASSUME CloseInv, TornInv, NEW c \in Conns, ClaimInterface(c) \/ GiveUp(c) \/ ConnectNext(c)
  PROVE  TornInv'
<1> USE DEF CloseInv, TornInv
<1>0. "connect" \in Holders /\ "connect" \notin Dirs /\ Dirs \subseteq Holders /\ CallRanges /\ TaskRanges
  BY DEF Holders, Dirs, TasksInv, CallsInv
<1>1. /\ UNCHANGED <<open, gone>>
      /\ \A b \in Conns : pc'[b] = "done" /\ b \in lost => b \in lost'
  <2>1. CASE ClaimInterface(c)
    BY <1>0, <2>1 DEF ClaimInterface, sideVars, TaskRanges
  <2>2. CASE ~ClaimInterface(c)
    BY <2>2, ConnectSteps, ZenonT(60) DEF GiveUp, Refused, Ends, FlushRead, AskCaps, SendCaps,
                      SendOpen, Opened, envVars, histVars, devVars, sideVars
  <2> QED
    BY <2>1, <2>2
<1>2. \A b \in Conns : \A d \in Dirs : reply'[b][d] = reply[b][d]
  <2>1. reply' = reply \/ \E x : reply' = [reply EXCEPT ![c]["connect"] = x]
    BY ConnectSteps, ZenonT(60) DEF ClaimInterface, GiveUp, Refused, Ends, FlushRead, AskCaps, SendCaps,
                      SendOpen, Opened, Call, Taken, usbVars
  <2> QED
    BY <1>0, <2>1 DEF CallRanges
<1>3. \A b \in Conns : \A d \in Dirs : pc'[b] = "done" =>
         \/ task'[b][d] \notin {"off", "half", "close", "ended"}
         \/ pc[b] = "done" /\ task'[b][d] = task[b][d] /\ shut'[b] = shut[b] /\ reply'[b][d] = reply[b][d]
  <2>1. CASE ClaimInterface(c)
    BY <1>0, <1>2, <2>1 DEF ClaimInterface, TaskRanges
  <2>2. CASE Opened(c)
    BY <1>0, <1>2, <2>2 DEF Opened, halfVars, TaskRanges, Dirs
  <2>3. CASE GiveUp(c) \/ Refused(c) \/ FlushRead(c)
    BY <1>0, <1>2, <2>3 DEF GiveUp, Refused, Ends, FlushRead, connVars, taskVars, halfVars, TaskRanges
  <2>4. CASE AskCaps(c) \/ SendCaps(c) \/ SendOpen(c)
    <3>1. UNCHANGED <<task, shut>>
      BY <2>4, ZenonT(60) DEF AskCaps, SendCaps, SendOpen, taskVars, halfVars
    <3>2. \E p \in {"caps", "hostcaps", "open"} : pc' = [pc EXCEPT ![c] = p]
      BY <2>4, ZenonT(60) DEF AskCaps, SendCaps, SendOpen
    <3> QED
      BY <1>0, <1>2, <3>1, <3>2 DEF TaskRanges
  <2> QED
    BY <2>1, <2>2, <2>3, <2>4, ConnectSteps
<1>4. Shutting' /\ Torn'
  BY <1>1, <1>3, TornTasksKept
<1>5. \A b \in Conns : \A d \in Dirs : task'[b][d] = "close" => task[b][d] = "close"
  <2>1. CASE ClaimInterface(c)
    BY <1>0, <2>1 DEF ClaimInterface, TaskRanges
  <2>2. CASE Opened(c)
    BY <1>0, <2>2 DEF Opened, TaskRanges, Dirs
  <2>3. CASE ~ClaimInterface(c) /\ ~Opened(c)
    BY <2>3, ZenonT(60), ConnectSteps DEF GiveUp, Refused, Ends, FlushRead, AskCaps, SendCaps, SendOpen, taskVars
  <2> QED
    BY <2>1, <2>2, <2>3
<1>6. CASE ctrl' = ctrl
  <2>1. Kinds'
    BY <1>0, <1>5, <1>6, KindsKept
  <2> QED
    BY <1>1, <1>4, <1>6, <2>1 DEF Unplugged
<1>7. CASE ctrl' # ctrl
  <2>1. PICK k \in Requests : Call(c, "connect", k)
    BY <1>7, ZenonT(60), ConnectSteps DEF ClaimInterface, GiveUp, Refused, Ends, FlushRead, AskCaps, SendCaps,
                            SendOpen, Opened, usbVars, Requests
  <2>2. Kinds'
    BY <1>0, <1>5, <2>1, KindsCalled
  <2>3. gone => ctrl' = ctrl
    BY <2>1 DEF Call
  <2> QED
    BY <1>1, <1>4, <1>7, <2>2, <2>3 DEF Unplugged
<1> QED
  BY <1>6, <1>7

\* status_task
LEMMA TornStatus ==
  ASSUME CloseInv, TornInv, NEW c \in Conns, StatusNext(c)
  PROVE  TornInv'
<1> USE DEF CloseInv, TornInv
<1>0. "status" \in Holders /\ "status" \notin Dirs /\ Dirs \subseteq Holders /\ CallRanges /\ TaskRanges
  BY DEF Holders, Dirs, TasksInv, CallsInv
<1>1. UNCHANGED <<pc, task, shut, open, gone, lost>>
  BY DEF StatusNext, PollStatus, StatusAnswered, StatusFailed, StatusEnds, connVars, taskVars, halfVars,
         envVars, histVars, devVars, sideVars
<1>2. \A b \in Conns : \A d \in Dirs : reply'[b][d] = reply[b][d]
  <2>1. reply' = reply \/ \E x : reply' = [reply EXCEPT ![c]["status"] = x]
    BY DEF StatusNext, PollStatus, StatusAnswered, StatusFailed, StatusEnds, Call, Taken, usbVars
  <2> QED
    BY <1>0, <2>1 DEF CallRanges
<1>3. Shutting' /\ Torn'
  BY <1>1, <1>2, TornTasksKept
<1>4. CASE ctrl' = ctrl
  <2>1. Kinds'
    BY <1>0, <1>1, <1>4, KindsKept
  <2> QED
    BY <1>1, <1>3, <1>4, <2>1 DEF Unplugged
<1>5. CASE ctrl' # ctrl
  <2>1. Call(c, "status", "STATUS") /\ "STATUS" \in Requests
    BY <1>5 DEF StatusNext, PollStatus, StatusAnswered, StatusFailed, StatusEnds, usbVars, Requests
  <2>2. Kinds'
    BY <1>0, <1>1, <2>1, KindsCalled
  <2>3. gone => ctrl' = ctrl
    BY <2>1 DEF Call
  <2> QED
    BY <1>1, <1>3, <1>5, <2>2, <2>3 DEF Unplugged
<1> QED
  BY <1>4, <1>5

\* The data tasks outside their requests
LEMMA TornTasks ==
  ASSUME CloseInv, TornInv, NEW c \in Conns, NEW d \in Dirs,
         NEW s \in {"read", "full", "take", "collect", "drain", "lock"},
         task' = [task EXCEPT ![c][d] = s],
         UNCHANGED <<pc, shut, reply, ctrl, open, gone, lost>>
  PROVE  TornInv'
<1> USE DEF CloseInv, TornInv
<1>1. TaskRanges /\ CallRanges
  BY DEF TasksInv, CallsInv
<1>2. \A b \in Conns : \A e \in Dirs : task'[b][e] = IF b = c /\ e = d THEN s ELSE task[b][e]
  BY <1>1 DEF TaskRanges
<1>3. Shutting' /\ Torn'
  BY <1>2, TornTasksKept
<1>4. Kinds'
  BY <1>1, <1>2, KindsKept
<1> QED
  BY <1>3, <1>4 DEF Unplugged

\* The requests of a data task: the second of the two finds both directions shut,
\* sends CLOSE, and returns when it was answered.
LEMMA TornHalf ==
  ASSUME CloseInv, TornInv, NEW c \in Conns, NEW d \in Dirs, HalfNext(c, d)
  PROVE  TornInv'
<1> USE DEF CloseInv, TornInv
<1>0. TaskRanges /\ CallRanges /\ d \in Holders
  BY DEF TasksInv, CallsInv, Holders, Dirs
<1>1. UNCHANGED <<pc, open, gone, lost>>
  BY DEF HalfNext, HalfClose, HalfClosed, Closed, connVars, envVars, histVars, devVars, sideVars
<1>2. task[c][d] \in {"lock", "half", "close"} /\ (task[c][d] = "lock" \/ Answered(c, d))
  BY DEF HalfNext, HalfClose, HalfClosed, Closed
<1>3. pc[c] = "done" /\ Silent(c, d)
  BY <1>2, SilentTask DEF TasksInv, Running, Gone, Answered, Waits
<1>4. shut' = shut \/ (task[c][d] = "lock" /\ shut' = [shut EXCEPT ![c] = @ \union {d}])
  BY DEF HalfNext, HalfClose, HalfClosed, Closed
<1>5. d \in shut'[c] /\ \A b \in Conns : \A e \in Dirs : e \in shut'[b] <=> e \in shut[b] \/ (b = c /\ e = d)
  <2>1. CASE task[c][d] = "lock"
    <3>1. shut' = [shut EXCEPT ![c] = @ \union {d}]
      BY <2>1 DEF HalfNext, HalfClose, HalfClosed, Closed
    <3> QED
      BY <1>0, <3>1 DEF TaskRanges
  <2>2. CASE task[c][d] # "lock"
    <3>1. shut' = shut /\ d \in shut[c]
      BY <1>2, <1>3, <1>4, <2>2 DEF Shutting, Waits
    <3> QED
      BY <3>1
  <2> QED
    BY <2>1, <2>2
<1>6. PICK s \in {"half", "close", "ended"} :
         /\ task' = [task EXCEPT ![c][d] = s]
         /\ \/ s = "half" /\ Call(c, d, Request(d))
            \/ s = "close" /\ Call(c, d, "CLOSE")
            \/ s = "ended" /\ Taken(c, d) /\ UNCHANGED ctrl /\ (shut'[c] # Dirs \/ (task[c][d] = "close" /\ Answered(c, d)))
  <2>1. CASE Closed(c, d)
    BY <2>1 DEF Closed, Returns
  <2>2. CASE HalfClose(c, d) \/ HalfClosed(c, d)
    <3>1. \/ task' = [task EXCEPT ![c][d] = "half"] /\ Call(c, d, Request(d))
          \/ CloseOrReturn(c, d)
      BY <2>2, Zenon DEF HalfClose, HalfClosed
    <3> QED
      BY <3>1 DEF CloseOrReturn, Returns, BothShut
  <2> QED
    BY <2>1, <2>2 DEF HalfNext
<1>7. \A b \in Conns : \A e \in Dirs : task'[b][e] = IF b = c /\ e = d THEN s ELSE task[b][e]
  BY <1>0, <1>6 DEF TaskRanges
<1>8. \A b \in Conns : \A e \in Dirs : b # c \/ e # d => reply'[b][e] = reply[b][e]
  <2>1. Dirs \subseteq Holders
    BY DEF Holders, Dirs
  <2>2. \E x : reply' = [reply EXCEPT ![c][d] = x]
    BY <1>6 DEF Call, Taken
  <2> QED
    BY <1>0, <2>1, <2>2 DEF CallRanges
<1>9. Shutting'
  BY <1>1, <1>3, <1>5, <1>7 DEF Shutting, Waits
<1>10. Kinds' /\ (gone => ctrl' = ctrl)
  <2>1. \A b \in Conns : \A e \in Dirs : task'[b][e] = "close" => task[b][e] = "close" \/ Silent(b, e)
    BY <1>3, <1>7
  <2>2. CASE s = "ended"
    BY <1>0, <1>6, <2>1, <2>2, KindsKept
  <2>3. CASE s # "ended"
    <3>1. PICK k \in Requests : Call(c, d, k) /\ k # "OPEN" /\ (s = "close" => k = "CLOSE")
      BY <1>6, <2>3 DEF Requests, Request, Dirs
    <3>2. Kinds'
      BY <1>0, <1>7, <2>1, <3>1, KindsCalled
    <3> QED
      BY <3>1, <3>2 DEF Call
  <2> QED
    BY <2>2, <2>3
<1>11. Torn'
  <2> SUFFICES ASSUME NEW b \in Conns, pc[b] = "done", b \notin lost
               PROVE  /\ \A e \in Dirs : task'[b][e] = "close" /\ reply'[b][e] # "none" => open # b
                      /\ (\A e \in Dirs : task'[b][e] = "ended") => open # b
    BY <1>1 DEF Torn
  <2>1. CASE b # c
    BY <1>7, <1>8, <2>1 DEF Torn
  <2>2. CASE b = c
    <3>1. ASSUME NEW e \in Dirs, task'[c][e] = "close", reply'[c][e] # "none"
          PROVE  open # c
      <4>1. CASE e # d
        BY <1>3, <2>2, <1>7, <1>8, <3>1, <4>1 DEF Torn
      <4>2. CASE e = d
        <5>1. Call(c, d, "CLOSE")
          BY <1>6, <1>7, <3>1, <4>2
        <5>2. gone
          BY <1>0, <3>1, <4>2, <5>1 DEF Call, CallRanges
        <5> QED
          BY <5>2, ConnRange DEF Unplugged
      <4> QED
        BY <4>1, <4>2
    <3>2. ASSUME \A e \in Dirs : task'[c][e] = "ended"
          PROVE  open # c
      <4>1. s = "ended"
        BY <1>7, <3>2
      <4>2. CASE task[c][d] = "close" /\ reply[c][d] # "none"
        BY <1>3, <2>2, <4>2 DEF Torn
      <4>3. CASE shut'[c] # Dirs
        <5>1. PICK e \in Dirs : e \notin shut'[c]
          <6>1. shut'[c] \subseteq Dirs
            BY <1>0, <1>4 DEF TaskRanges
          <6> QED
            BY <4>3, <6>1
        <5>2. e # d /\ e \notin shut[c] /\ task[c][e] = "ended"
          BY <1>5, <1>7, <3>2, <5>1
        <5> QED
          BY <1>3, <5>2 DEF Shutting
      <4> QED
        BY <1>6, <4>1, <4>2, <4>3 DEF Answered
    <3> QED
      BY <2>2, <3>1, <3>2
  <2> QED
    BY <2>1, <2>2
<1> QED
  BY <1>1, <1>9, <1>10, <1>11 DEF Unplugged

\* The device answers the CLOSE of a task when it has closed the connection, unless
\* the request is lost, and opens only a connection that is still being made.
LEMMA TornServe ==
  ASSUME CloseInv, TornInv, Serve \/ RequestFails
  PROVE  TornInv'
<1> USE DEF CloseInv, TornInv
<1>1. /\ ctrl # <<>> /\ ctrl' = Tail(ctrl) /\ UNCHANGED <<pc, task, shut, gone>>
      /\ \E res \in Results : Reply(Head(ctrl), res)
  BY DEF Serve, DevClose, DevOpen, DevCapsIn, DevCapsOut, DevCloseSend, DevCloseRecv, DevStatus,
         Serves, RequestFails, Results, hostSide, taskVars, halfVars
<1>2. /\ Head(ctrl) = ctrl[1] /\ 1 \in DOMAIN ctrl /\ CallRanges
      /\ Head(ctrl).conn \in Conns /\ Head(ctrl).by \in Holders
  BY <1>1, TailRange, CtrlRange DEF CallsInv, CallRanges
<1>3. Kinds' /\ Unplugged' /\ Shutting'
  <2>1. Kinds'
    BY <1>1, <1>2, KindsKept
  <2> QED
    BY <1>1, <2>1 DEF Unplugged, Shutting, Waits
<1>5. ~RequestFails => UNCHANGED lost
  BY DEF Serve, DevClose, DevOpen, DevCapsIn, DevCapsOut, DevCloseSend, DevCloseRecv, DevStatus,
         Serves, histVars
<1>6. \A b \in Conns : \A e \in Dirs :
         b # Head(ctrl).conn \/ e # Head(ctrl).by => reply'[b][e] = reply[b][e]
  <2>1. Dirs \subseteq Holders
    BY DEF Holders, Dirs
  <2>2. PICK res \in Results : Reply(Head(ctrl), res)
    BY <1>1
  <2> QED
    BY <1>2, <2>1, <2>2 DEF Reply, CallRanges
<1>7. CASE DevClose
  <2>1. open' = NoConn
    BY <1>7 DEF DevClose
  <2> QED
    BY <1>3, <2>1, ConnRange DEF Torn
<1>8. CASE DevOpen
  <2>1. Head(ctrl).by = "connect" /\ pc[Head(ctrl).conn] # "done"
    BY <1>2, <1>8 DEF DevOpen, Serves, Kinds, CallsInv, CallersWait, Expected
  <2>2. open' = open \/ open' = Head(ctrl).conn
    BY <1>8 DEF DevOpen, sideVars
  <2>3. \A b \in Conns : \A e \in Dirs : reply'[b][e] = reply[b][e]
    BY <1>6, <2>1 DEF Dirs
  <2>5. UNCHANGED lost
    BY <1>8 DEF DevOpen, Serves, histVars
  <2>4. Torn'
    BY <1>1, <2>1, <2>2, <2>3, <2>5, TornTasksKept
  <2> QED
    BY <1>3, <2>4
<1>9. CASE ~DevClose /\ ~DevOpen /\ ~RequestFails
  <2>1. UNCHANGED open /\ Head(ctrl).kind # "CLOSE"
    BY <1>9 DEF Serve, DevCapsIn, DevCapsOut, DevCloseSend, DevCloseRecv, DevStatus, Serves,
                devVars, sideVars
  <2>2. \A b \in Conns : \A e \in Dirs : task[b][e] = "close" => reply'[b][e] = reply[b][e]
    BY <1>2, <1>6, <2>1 DEF Kinds
  <2>3. Torn'
    BY <1>1, <1>5, <1>9, <2>1, <2>2 DEF Torn
  <2> QED
    BY <1>3, <2>3
<1>10. CASE RequestFails
  <2> DEFINE r == Head(ctrl)
  <2>1. UNCHANGED open
    BY <1>10 DEF RequestFails, devVars, sideVars
  <2>2. lost \subseteq lost' /\ (r.kind = "CLOSE" /\ r.by \in Dirs => r.conn \in lost')
    BY <1>10 DEF RequestFails
  <2>3. \A b \in Conns : \A e \in Dirs : b \notin lost' /\ task[b][e] = "close" => reply'[b][e] = reply[b][e]
    <3> SUFFICES ASSUME NEW b \in Conns, NEW e \in Dirs, b \notin lost', task[b][e] = "close"
                 PROVE  b # r.conn \/ e # r.by
      BY <1>6
    <3> QED
      BY <1>2, <2>2 DEF Kinds
  <2>4. Torn'
    BY <1>1, <2>1, <2>2, <2>3 DEF Torn
  <2> QED
    BY <1>3, <2>4
<1> QED
  BY <1>7, <1>8, <1>9, <1>10

\* The device is gone, or does something that no request asked for.
LEMMA TornDevice ==
  ASSUME CloseInv, TornInv,
         Unplug \/ DevSends \/ DevEndsSend \/ DevEndsRecv \/ DevTimesOut \/ \E c \in Conns : BusNext(c)
  PROVE  TornInv'
<1> USE DEF CloseInv, TornInv
<1>1. CASE Unplug
  <2>1. ctrl' = <<>> /\ open' = NoConn /\ UNCHANGED <<pc, task, shut>>
    BY <1>1 DEF Unplug, connVars, halfVars
  <2> QED
    BY <2>1, ConnRange DEF Unplugged, Kinds, Shutting, Torn, Waits
<1>2. CASE ~Unplug
  <2>1. UNCHANGED <<pc, task, shut, reply, ctrl, open, gone, lost>>
    BY <1>2 DEF DevSends, DevEndsSend, DevEndsRecv, DevTimesOut, BusNext, BusIn, BusStall, BusFails, hostSide,
         connVars, taskVars, halfVars, usbVars, envVars, histVars, devVars, sideVars
  <2>2. Shutting' /\ Torn'
    BY <2>1, TornTasksKept
  <2> QED
    BY <2>1, <2>2 DEF Unplugged, Kinds
<1> QED
  BY <1>1, <1>2

\* At first nothing is open.
LEMMA InitTorn == Init => TornInv
<1> SUFFICES ASSUME Init PROVE TornInv
  OBVIOUS
<1> QED
  BY DEF Init, TornInv, Unplugged, Kinds, Shutting, Torn

\* Every action keeps it.
LEMMA NextTorn == RangeInv /\ TornInv /\ [Next]_vars => TornInv'
<1> SUFFICES ASSUME RangeInv, TornInv, [Next]_vars PROVE TornInv'
  OBVIOUS
<1>0. CloseInv /\ "in" \in Dirs /\ "out" \in Dirs
  BY DEF RangeInv, DataInv, OrderInv, Dirs
<1>1. ASSUME NEW c \in Conns, InTask(c) PROVE TornInv'
  <2>1. CASE HalfNext(c, "in")
    BY <1>0, <2>1, TornHalf
  <2>2. CASE InStops(c) \/ InFails(c)
    BY <1>0, <2>2, TornTasks DEF InStops, InFails, InEnds, connVars, halfVars, usbVars, envVars, histVars, devVars, sideVars
  <2>3. CASE InWaits(c) \/ InQueues(c)
    BY <1>0, <2>3, TornTasks DEF InWaits, InQueues, connVars, halfVars, usbVars, envVars, histVars, devVars, sideVars
  <2> QED
    BY <1>1, <2>1, <2>2, <2>3 DEF InTask
<1>2. ASSUME NEW c \in Conns, OutTask(c) \/ OutTakes(c) PROVE TornInv'
  <2>1. CASE HalfNext(c, "out")
    BY <1>0, <2>1, TornHalf
  <2>2. CASE OutSent(c)
    BY <2>2, TornQuiet DEF OutSent, tornVars, connVars, halfVars, usbVars, envVars, histVars, devVars, sideVars
  <2>3. CASE OutTakes(c) \/ OutStops(c) \/ OutGoesOn(c) \/ OutDrained(c)
    BY <1>0, <2>3, TornTasks DEF OutTakes, OutStops, OutGoesOn, OutDrained, connVars, halfVars, usbVars,
                                 envVars, histVars, devVars, sideVars
  <2>4. CASE OutFails(c)
    BY <1>0, <2>4, TornTasks DEF OutFails, connVars, halfVars, usbVars, histVars, devVars, sideVars
  <2> QED
    BY <1>2, <2>1, <2>2, <2>3, <2>4 DEF OutTask
<1>3. ASSUME NEW c \in Conns, DropSender(c) \/ DropReceiver(c) \/ Recv(c) PROVE TornInv'
  BY <1>3, TornQuiet DEF DropSender, DropReceiver, Recv, tornVars, connVars, taskVars, halfVars, usbVars, envVars, histVars,
                         devVars, sideVars
<1>4. CASE UNCHANGED vars
  BY <1>4, TornQuiet DEF vars, tornVars, connVars, taskVars, halfVars, usbVars, envVars, histVars, devVars, sideVars
<1>5. CASE Next
  BY <1>0, <1>1, <1>2, <1>3, <1>5, TornConnect, TornStatus, TornServe, TornDevice DEF Next, AppNext, DeviceNext
<1> QED
  BY <1>4, <1>5

\* PROTOCOL.md:119-120: the device keeps no connection open whose tasks have all
\* released the interface, whatever requests and transfers have failed, unless the
\* CLOSE of these tasks was lost on the way.
THEOREM TornDownCloses == Spec => []TornDownIsClosed
<1>1. RangeInv /\ TornInv => TornDownIsClosed
  <2> SUFFICES ASSUME RangeInv, TornInv, NEW c \in Conns, pc[c] = "done", holders[c] = {}, c \notin lost
               PROVE  open # c
    BY DEF TornDownIsClosed
  <2>1. \A d \in Dirs : Gone(c, d)
    BY DEF RangeInv, DataInv, OrderInv, CloseInv, TasksInv, Running
  <2>2. \A d \in Dirs : task[c][d] = "ended"
    BY <2>1 DEF TornInv, Shutting, Gone
  <2> QED
    BY <2>2 DEF TornInv, Torn
<1> QED
  BY <1>1, InitRanges, NextRanges, InitTorn, NextTorn, PTL DEF Spec

(***************************************************************************)
(* The exchange of capabilities.  What the host hears is understood        *)
(* (CapsAreUnderstood of UpcCapsProofs), and what it was set to and the    *)
(* limit that it tells arrive as they are (LimitIsUnderstood); the         *)
(* interval is chosen from what it heard, and the device enforces what it  *)
(* offered.  ExchangeInv relates the two until OPEN.                       *)
(***************************************************************************)
Offers == {DeviceDefault} \union {Offer(p, s) : p \in Pings \union {None}, s \in Sizes}

\* Each value heard is the one offered or the default, and none is missing if
\* the response was whole.
Understood(offer, heard, whole) ==
    heard # Refusal =>
        /\ \A f \in DOMAIN DeviceDefault : heard[f] \in {DeviceDefault[f], Told(offer)[f]}
        /\ whole => heard = Told(offer)

\* What the exchange is made of, and that it was understood
Chosen(x) ==
    /\ x = [offer |-> x.offer, heard |-> x.heard, whole |-> x.whole, asked |-> x.asked,
            interval |-> x.interval, size |-> x.size, limit |-> x.limit]
    /\ x.offer \in Offers
    /\ Understood(x.offer, x.heard, x.whole)

Early == {"idle", "close", "caps"}

\* The limit is the default until the host tells its own, and then one of them;
\* the interval is the one chosen from what was heard.
ExchangeInv ==
    /\ caps = [c \in Conns |-> caps[c]]
    /\ \A c \in Conns : Chosen(caps[c])
    /\ \A c \in Conns : pc[c] \in Early => caps[c].limit = DefaultMaxSize
    /\ \A c \in Conns : pc[c] = "hostcaps" =>
          /\ caps[c].asked \in Intervals \union {None}
          /\ caps[c].interval = StatusInterval(caps[c].heard, caps[c].asked)
          /\ caps[c].size \in Sizes /\ caps[c].limit \in {DefaultMaxSize, caps[c].size}

\* A step that neither exchanges capabilities nor reaches their end keeps it.
LEMMA ExchangeKept ==
  ASSUME ExchangeInv, UNCHANGED caps,
         \A c \in Conns : /\ pc'[c] = "hostcaps" => pc[c] = "hostcaps"
                          /\ pc'[c] \in Early => pc[c] \in Early
  PROVE  ExchangeInv'
  BY DEF ExchangeInv, Early

\* What is heard of an offer, before anything is asked or told
LEMMA ExchangeChosen ==
  ASSUME NEW o \in Offers, NEW h, NEW w, Understood(o, h, w)
  PROVE  LET x == Exchange(o, h, w) IN Chosen(x) /\ x.limit = DefaultMaxSize /\ x.offer = o
  BY DEF Exchange, Chosen

\* The exchange begins with the defaults.
LEMMA NoCapsChosen == Chosen(NoCaps) /\ NoCaps.limit = DefaultMaxSize
<1> DEFINE w == FALSE
<1>1. Understood(DeviceDefault, DeviceDefault, w)
  BY DEF Understood
<1>2. DeviceDefault \in Offers
  BY DEF Offers
<1>3. NoCaps = Exchange(DeviceDefault, DeviceDefault, w)
  BY DEF NoCaps
<1> HIDE DEF w
<1> QED
  BY <1>1, <1>2, <1>3, ExchangeChosen

\* connect_with
LEMMA ExchangeConnect ==
  ASSUME TaskRanges, ExchangeInv, NEW c \in Conns, ClaimInterface(c) \/ GiveUp(c) \/ ConnectNext(c)
  PROVE  ExchangeInv'
<1>1. CASE ClaimInterface(c) \/ FlushRead(c) \/ AskCaps(c) \/ Opened(c)
  <2>1. UNCHANGED caps
    BY <1>1, ZenonT(60) DEF ClaimInterface, FlushRead, AskCaps, Opened, connVars
  <2> DEFINE From(b) == /\ pc'[b] = "hostcaps" => pc[b] = "hostcaps"
                        /\ pc'[b] \in Early => pc[b] \in Early
  <2>2. ASSUME NEW b \in Conns PROVE From(b)
    <3>1. CASE ClaimInterface(c)
      <4>1. pc'[b] \in {"over", pc[b]} \/ (b = c /\ pc[b] = "idle" /\ pc'[b] = "close")
        BY <3>1 DEF ClaimInterface
      <4> QED
        BY <4>1 DEF Early
    <3>2. CASE FlushRead(c)
      BY <3>2 DEF FlushRead, connVars
    <3>3. CASE AskCaps(c)
      <4>1. pc[c] = "close" /\ pc' = [pc EXCEPT ![c] = "caps"]
        BY <3>3 DEF AskCaps
      <4> QED
        BY <4>1 DEF Early, TaskRanges
    <3>4. CASE Opened(c)
      <4>1. pc' = [pc EXCEPT ![c] = "done"]
        BY <3>4 DEF Opened
      <4> QED
        BY <4>1 DEF Early, TaskRanges
    <3> QED
      BY <1>1, <3>1, <3>2, <3>3, <3>4
  <2> QED
    BY <2>1, <2>2, ExchangeKept
<1>2. CASE GiveUp(c) \/ Refused(c) \/ SendOpen(c)
  <2>1. /\ caps' = [caps EXCEPT ![c] = NoCaps]
        /\ pc' = [pc EXCEPT ![c] = "over"] \/ pc' = [pc EXCEPT ![c] = "open"]
    BY <1>2, Zenon DEF GiveUp, Refused, Ends, SendOpen
  <2>2. \A b \in Conns : /\ pc'[b] = "hostcaps" => b # c /\ pc[b] = "hostcaps"
                         /\ pc'[b] \in Early => b # c /\ pc[b] \in Early
    BY <2>1 DEF TaskRanges, Early
  <2>3. \A b \in Conns : caps'[b] = IF b = c THEN NoCaps ELSE caps[b]
    BY <2>1 DEF ExchangeInv
  <2>4. caps' = [b \in Conns |-> caps'[b]]
    BY <2>1 DEF ExchangeInv
  <2> QED
    BY <2>2, <2>3, <2>4, NoCapsChosen DEF ExchangeInv
<1>3. CASE SendCaps(c)
  <2>1. PICK i \in Intervals \union {None}, s \in Sizes :
           caps' = [caps EXCEPT ![c].asked = i, ![c].size = s,
                                ![c].interval = StatusInterval(caps[c].heard, i)]
    BY <1>3, Zenon DEF SendCaps
  <2> DEFINE x == caps[c]
             y == [offer |-> x.offer, heard |-> x.heard, whole |-> x.whole, asked |-> i,
                   interval |-> StatusInterval(x.heard, i), size |-> s, limit |-> x.limit]
  <2>2. caps'[c] = y /\ \A b \in Conns : b # c => caps'[b] = caps[b]
    <3> DEFINE f == [caps EXCEPT ![c].asked = i]
               g == [f EXCEPT ![c].size = s]
               v == StatusInterval(caps[c].heard, i)
    <3>1. /\ f[c] = [x EXCEPT !.asked = i] /\ f = [b \in Conns |-> f[b]]
          /\ \A b \in Conns : b # c => f[b] = caps[b]
      BY DEF ExchangeInv
    <3>2. caps' = [g EXCEPT ![c].interval = v]
      BY <2>1, Zenon
    <3> HIDE DEF f, v
    <3>3. /\ g[c] = [f[c] EXCEPT !.size = s] /\ g = [b \in Conns |-> g[b]]
          /\ \A b \in Conns : b # c => g[b] = f[b]
      BY <3>1
    <3> HIDE DEF g
    <3>4. caps'[c] = [g[c] EXCEPT !.interval = v] /\ \A b \in Conns : b # c => caps'[b] = g[b]
      BY <3>2, <3>3
    <3>5. x = [offer |-> x.offer, heard |-> x.heard, whole |-> x.whole, asked |-> x.asked,
               interval |-> x.interval, size |-> x.size, limit |-> x.limit]
      BY DEF ExchangeInv, Chosen
    <3>6. caps'[c] = y
      <4> HIDE DEF x
      <4>1. f[c] = [offer |-> x.offer, heard |-> x.heard, whole |-> x.whole, asked |-> i,
                    interval |-> x.interval, size |-> x.size, limit |-> x.limit]
        BY <3>1, <3>5
      <4>2. g[c] = [offer |-> x.offer, heard |-> x.heard, whole |-> x.whole, asked |-> i,
                    interval |-> x.interval, size |-> s, limit |-> x.limit]
        BY <3>3, <4>1
      <4>3. caps'[c] = [offer |-> x.offer, heard |-> x.heard, whole |-> x.whole, asked |-> i,
                        interval |-> v, size |-> s, limit |-> x.limit]
        BY <3>4, <4>2
      <4> QED
        BY <4>3 DEF v, x
    <3> QED
      BY <3>1, <3>3, <3>4, <3>6
  <2>3. caps' = [b \in Conns |-> caps'[b]]
    BY <2>1 DEF ExchangeInv
  <2>4. /\ Chosen(y) /\ y.asked = i /\ y.interval = StatusInterval(y.heard, i)
        /\ y.size = s /\ y.limit = x.limit
    BY DEF ExchangeInv, Chosen
  <2>l. x.limit = DefaultMaxSize
    BY <1>3 DEF ExchangeInv, SendCaps, Early
  <2>e. \A b \in Conns : pc'[b] \in Early => b # c
    BY <1>3 DEF SendCaps, TaskRanges, Early
  <2>5. \A b \in Conns : b # c => pc'[b] = pc[b]
    BY <1>3 DEF SendCaps, TaskRanges
  <2> HIDE DEF y
  <2>6. \A b \in Conns : Chosen(caps'[b])
    BY <2>2, <2>4 DEF ExchangeInv
  <2>7. \A b \in Conns : pc'[b] = "hostcaps" =>
           /\ caps'[b].asked \in Intervals \union {None}
           /\ caps'[b].interval = StatusInterval(caps'[b].heard, caps'[b].asked)
           /\ caps'[b].size \in Sizes /\ caps'[b].limit \in {DefaultMaxSize, caps'[b].size}
    BY <2>2, <2>4, <2>l, <2>5 DEF ExchangeInv
  <2>8. \A b \in Conns : pc'[b] \in Early => caps'[b].limit = DefaultMaxSize
    BY <2>2, <2>5, <2>e DEF ExchangeInv
  <2> QED
    BY <2>3, <2>6, <2>7, <2>8 DEF ExchangeInv
<1> QED
  BY <1>1, <1>2, <1>3, ConnectSteps

\* What the host can hear: an offer of the device, understood
LEMMA ResponsesAre ==
  ASSUME NEW x \in Responses
  PROVE  \E o \in Offers : \E h, w : x = Exchange(o, h, w) /\ Understood(o, h, w)
<1>1. PICK p \in Pings \union {None}, s \in Sizes, newer \in NewerEntries, n \in Cuts \union {ResponseLen} :
         LET data == EncodeDevice(Offer(p, s), newer) IN
         x = Exchange(Offer(p, s), DecodeDevice(SubSeq(data, 1, Lesser(n, Len(data)))), n >= Len(data))
  BY DEF Responses
<1> DEFINE o == Offer(p, s)
           data == EncodeDevice(o, newer)
           h == DecodeDevice(SubSeq(data, 1, Lesser(n, Len(data))))
           w == n >= Len(data)
<1>2. o \in Offers
  BY DEF Offers
<1>3. o \in Offered
  <2>1. p \in Nat \union {None} /\ s \in Nat /\ s <= LargestSize
    BY HostAssumption, LargestIs
  <2> HIDE DEF Offered
  <2> QED
    BY <2>1 DEF Offered, Capabilities, Offer
<1>4. newer \in Seq(Unknown)
  <2>1. Base * Base > 2
    <3>1. Base * Base >= 5 * Base
      BY CapsAssumption
    <3> QED
      BY <3>1, CapsAssumption
  <2> DEFINE a == Entry(0, <<>>)
             b == Entry(5, <<1, 2>>)
             z == Base * Base
  <2>2. z \in Int /\ 0 < z /\ 2 < z
    BY <2>1, CapsAssumption
  <2> HIDE DEF z
  <2>3. a \in Unknown
    BY <2>2 DEF Unknown, Short, Item, Entry, z
  <2>4. b \in Unknown
    <3> DEFINE v == <<1, 2>>
    <3>1. v \in Seq(Nat) /\ Len(v) = 2
      OBVIOUS
    <3> HIDE DEF v
    <3>2. Entry(5, v) \in Short
      BY <2>2, <3>1 DEF Short, Item, Entry, z
    <3>3. Entry(5, v) \in Unknown
      BY <3>2 DEF Unknown, Entry
    <3> QED
      BY <3>3 DEF v
  <2>5. newer = <<>> \/ newer = <<a, b>>
    BY DEF NewerEntries
  <2> HIDE DEF a, b
  <2>6. <<a, b>> \in Seq(Unknown)
    BY <2>3, <2>4
  <2>7. <<>> \in Seq(Unknown)
    OBVIOUS
  <2> QED
    BY <2>5, <2>6, <2>7, Zenon
<1>5. n \in Nat
  BY HostAssumption, CapsAssumption
<1>6. Understood(o, h, w)
  <2> HIDE DEF o
  <2> QED
    BY <1>3, <1>4, <1>5, CapsAreUnderstood DEF Understood
<1>7. x = Exchange(o, h, w)
  BY <1>1
<1> QED
  BY <1>2, <1>6, <1>7

\* What the host tells is what the device takes.
LEMMA LimitsAre ==
  ASSUME NEW s \in Sizes
  PROVE  Limits[s] = s
<1>1. s \in Nat /\ s <= LargestSize
  BY HostAssumption, LargestIs
<1>2. DecodeHost(EncodeHost(s)) = s
  BY <1>1, LimitIsUnderstood
<1> QED
  BY <1>2 DEF Limits

\* The device answers, or takes the host's limit.
LEMMA ExchangeServe ==
  ASSUME CloseInv, ExchangeInv, Serve \/ RequestFails
  PROVE  ExchangeInv'
<1>1. UNCHANGED pc /\ (DevCapsIn \/ DevCapsOut \/ UNCHANGED caps)
  BY DEF Serve, DevClose, DevOpen, DevCapsIn, DevCapsOut, DevCloseSend, DevCloseRecv, DevStatus,
         Serves, RequestFails, hostSide
<1>2. CASE UNCHANGED caps
  BY <1>1, <1>2, ExchangeKept
<1>3. CASE DevCapsIn /\ caps' # caps
  <2> DEFINE c == Head(ctrl).conn
  <2>1. pc[c] = "caps"
    BY <1>3 DEF DevCapsIn
  <2>2. PICK x \in Responses :
           caps' = [caps EXCEPT ![c] = IF reply'[c]["connect"] = "err"
                                       THEN Exchange(x.offer, DeviceDefault, FALSE) ELSE x]
    BY <1>3, <2>1, Zenon DEF DevCapsIn
  <2> DEFINE y == IF reply'[c]["connect"] = "err" THEN Exchange(x.offer, DeviceDefault, FALSE) ELSE x
  <2>3. Chosen(y) /\ y.limit = DefaultMaxSize
    <3> HIDE DEF c
    <3>1. \E o \in Offers : \E h, w : x = Exchange(o, h, w) /\ Understood(o, h, w)
      BY ResponsesAre
    <3>2. Chosen(x) /\ x.limit = DefaultMaxSize /\ x.offer \in Offers
      BY <3>1, ExchangeChosen
    <3> DEFINE w == FALSE
               z == Exchange(x.offer, DeviceDefault, w)
    <3>3. Understood(x.offer, DeviceDefault, w)
      BY DEF Understood
    <3>4. y = z \/ y = x
      OBVIOUS
    <3> HIDE DEF w, y
    <3>5. Chosen(z) /\ z.limit = DefaultMaxSize
      BY <3>2, <3>3, ExchangeChosen
    <3> HIDE DEF z
    <3> QED
      BY <3>2, <3>4, <3>5
  <2>4. caps' = [caps EXCEPT ![c] = y]
    BY <2>2
  <2> HIDE DEF y
  <2>5. \A b \in Conns : caps'[b] = IF b = c THEN y ELSE caps[b]
    BY <2>4 DEF ExchangeInv
  <2>6. caps' = [b \in Conns |-> caps'[b]]
    BY <2>4 DEF ExchangeInv
  <2>7. \A b \in Conns : Chosen(caps'[b])
    BY <2>3, <2>5 DEF ExchangeInv
  <2>8. \A b \in Conns : pc[b] = "hostcaps" => caps'[b] = caps[b]
    BY <2>1, <2>5
  <2>9. \A b \in Conns : pc[b] \in Early => caps'[b].limit = DefaultMaxSize
    BY <2>3, <2>5 DEF ExchangeInv
  <2> QED
    BY <1>1, <2>6, <2>7, <2>8, <2>9 DEF ExchangeInv
<1>4. CASE DevCapsOut /\ caps' # caps
  <2> DEFINE c == Head(ctrl).conn
             x == caps[c]
             l == Limits[x.size]
  <2>1. pc[c] = "hostcaps" /\ caps' = [caps EXCEPT ![c].limit = Limits[caps[c].size]]
    BY <1>4 DEF DevCapsOut
  <2>2. caps' = [caps EXCEPT ![c].limit = l]
    BY <2>1
  <2> DEFINE y == [offer |-> x.offer, heard |-> x.heard, whole |-> x.whole, asked |-> x.asked,
                   interval |-> x.interval, size |-> x.size, limit |-> l]
  <2>5. c \in Conns
    BY <1>4, TailRange, CtrlRange DEF DevCapsOut, Serves, CloseInv, CallsInv, CallRanges
  <2>3. \A b \in Conns : caps'[b] = IF b = c THEN y ELSE caps[b]
    <3>1. caps'[c] = [x EXCEPT !.limit = l] /\ \A b \in Conns : b # c => caps'[b] = caps[b]
      <4> HIDE DEF c, l
      <4> QED
        BY <2>2, <2>5 DEF ExchangeInv
    <3>2. x = [offer |-> x.offer, heard |-> x.heard, whole |-> x.whole, asked |-> x.asked,
               interval |-> x.interval, size |-> x.size, limit |-> x.limit]
      BY <2>5 DEF ExchangeInv, Chosen
    <3>3. [x EXCEPT !.limit = l] = y
      <4> HIDE DEF x, l
      <4> QED
        BY <3>2
    <3> QED
      BY <3>1, <3>3, Zenon
  <2>4. caps' = [b \in Conns |-> caps'[b]]
    BY <2>2 DEF ExchangeInv
  <2>l. l = x.size
    BY <2>1, <2>5, LimitsAre DEF ExchangeInv
  <2>6. /\ Chosen(y) /\ y.heard = x.heard /\ y.asked = x.asked /\ y.interval = x.interval
        /\ y.size = x.size /\ y.limit = x.size
    BY <2>5, <2>l DEF Chosen, ExchangeInv
  <2> HIDE DEF y
  <2>7. \A b \in Conns : /\ Chosen(caps'[b]) /\ caps'[b].heard = caps[b].heard
                         /\ caps'[b].asked = caps[b].asked /\ caps'[b].interval = caps[b].interval
                         /\ caps'[b].size = caps[b].size
    BY <2>3, <2>6 DEF ExchangeInv
  <2>8. \A b \in Conns : caps'[b].limit \in {caps[b].limit, caps[b].size}
    BY <2>3, <2>6
  <2>9. \A b \in Conns : pc[b] \in Early => caps'[b].limit = caps[b].limit
    BY <2>1, <2>3 DEF Early
  <2> QED
    BY <1>1, <2>4, <2>7, <2>8, <2>9 DEF ExchangeInv
<1> QED
  BY <1>1, <1>2, <1>3, <1>4

\* Every action keeps it.
LEMMA NextExchange == CloseInv /\ ExchangeInv /\ [Next]_vars => ExchangeInv'
<1> SUFFICES ASSUME CloseInv, ExchangeInv, [Next]_vars PROVE ExchangeInv'
  OBVIOUS
<1>0. TaskRanges
  BY DEF CloseInv, TasksInv
<1>1. ASSUME NEW c \in Conns,
             \/ InTask(c) \/ OutTask(c) \/ OutTakes(c) \/ StatusNext(c)
             \/ DropSender(c) \/ DropReceiver(c) \/ Recv(c) \/ BusNext(c)
      PROVE  UNCHANGED <<pc, caps>>
  BY <1>1 DEF InTask, InStops, InFails, InWaits, InQueues, OutTask, OutStops, OutGoesOn, OutSent, OutFails,
         OutDrained, OutTakes, HalfNext, HalfClose, HalfClosed, Closed, StatusNext, PollStatus,
         StatusAnswered, StatusFailed, StatusEnds, DropSender, DropReceiver, Recv, BusNext, BusIn, BusStall,
         BusFails, connVars
<1>2. CASE Unplug \/ DevSends \/ DevEndsSend \/ DevEndsRecv \/ DevTimesOut \/ UNCHANGED vars
  <2>1. UNCHANGED <<pc, caps>>
    BY <1>2 DEF Unplug, DevSends, DevEndsSend, DevEndsRecv, DevTimesOut, hostSide, connVars, vars
  <2> QED
    BY <2>1, ExchangeKept
<1>3. CASE Next
  BY <1>0, <1>1, <1>2, <1>3, ExchangeConnect, ExchangeServe, ExchangeKept DEF Next, AppNext, DeviceNext
<1> QED
  BY <1>2, <1>3

\* A duration that was told in milliseconds is not longer than the one meant.
LEMMA ToldIsShorter ==
  ASSUME NEW d \in Nat, Millis(d) # 0
  PROVE  Millis(d) * PerMilli \in Nat /\ Millis(d) * PerMilli <= d
<1> DEFINE q == d \div PerMilli
           r == d % PerMilli
<1>1. q \in Nat /\ r \in Nat /\ d = PerMilli * q + r /\ PerMilli \in Nat
  BY CapsAssumption
<1>2. Largest \in Nat
  BY LargestIs
<1> DEFINE m == Millis(d)
<1>3. m \in Int /\ m <= q
  BY <1>1, <1>2 DEF Millis, None
<1>4. m >= 0
  BY MillisFit
<1> HIDE DEF q, r, m
<1>5. \A a, b \in Nat : a * b \in Nat
  OBVIOUS
<1>6. m * PerMilli \in Nat /\ (q - m) * PerMilli \in Nat
  BY <1>1, <1>3, <1>4, <1>5
<1>7. (q - m) * PerMilli = PerMilli * q - m * PerMilli /\ PerMilli * q \in Int
  BY <1>1, <1>3
<1>8. m * PerMilli <= d
  BY <1>1, <1>6, <1>7
<1> QED
  BY <1>6, <1>8 DEF m

\* At first nothing is exchanged.
LEMMA InitExchange == Init => ExchangeInv
<1> SUFFICES ASSUME Init PROVE ExchangeInv
  OBVIOUS
<1>1. \A c \in Conns : caps[c] = NoCaps /\ pc[c] # "hostcaps"
  BY DEF Init
<1>2. caps = [c \in Conns |-> caps[c]]
  BY DEF Init
<1> QED
  BY <1>1, <1>2, NoCapsChosen DEF ExchangeInv

\* What the exchange is, said of its end
LEMMA ExchangeUnderstood == ExchangeInv => CapsUnderstood
<1> SUFFICES ASSUME ExchangeInv, NEW c \in Conns, pc[c] \in {"caps", "hostcaps"}, caps[c].heard # Refusal
             PROVE  LET x == caps[c] IN
                    /\ \A f \in DOMAIN DeviceDefault : x.heard[f] \in {DeviceDefault[f], Told(x.offer)[f]}
                    /\ x.whole => x.heard = Told(x.offer)
                    /\ x.limit \in {DefaultMaxSize, x.size}
  BY DEF CapsUnderstood
<1>1. Understood(caps[c].offer, caps[c].heard, caps[c].whole)
  BY DEF ExchangeInv, Chosen
<1>2. caps[c].limit \in {DefaultMaxSize, caps[c].size}
  BY DEF ExchangeInv, Early
<1> QED
  BY <1>1, <1>2 DEF Understood

\* The interval chosen from what was understood is short enough.
LEMMA IntervalInTime == ExchangeInv /\ CapsUnderstood => PollsInTime
<1> SUFFICES ASSUME ExchangeInv, CapsUnderstood, NEW c \in Conns, pc[c] = "hostcaps",
                    caps[c].heard.status_supported
             PROVE  LET x == caps[c] IN
                    /\ x.heard.ping_timeout # None => x.interval # None /\ 2 * x.interval <= x.offer.ping_timeout
                    /\ x.asked # None => x.interval # None /\ x.interval <= x.asked
  BY DEF PollsInTime
<1> DEFINE x == caps[c]
           t == x.heard.ping_timeout
           p == x.offer.ping_timeout
           a == x.asked
<1>1. x.heard # Refusal
  BY DEF Refusal, DeviceDefault
<1>2. t \in {DeviceDefault.ping_timeout, Told(x.offer).ping_timeout}
  <2>1. "ping_timeout" \in DOMAIN DeviceDefault
    BY DEF DeviceDefault
  <2> QED
    BY <1>1, <2>1 DEF CapsUnderstood
<1>3. p = None \/ p \in Nat
  BY HostAssumption DEF ExchangeInv, Chosen, Offers, Offer, DeviceDefault
<1>4. Told(x.offer).ping_timeout = IF Millis(p) = 0 THEN None ELSE Millis(p) * PerMilli
  <2>1. x.offer.ping_timeout = p /\ "ping_timeout" \in DOMAIN x.offer
    BY DEF ExchangeInv, Chosen, Offers, Offer, DeviceDefault
  <2> QED
    BY <2>1 DEF Told
<1>5. t = None \/ (t \in Nat /\ t <= p /\ p \in Nat)
  <2>1. Millis(None) = 0 /\ DeviceDefault.ping_timeout = None
    BY DEF Millis, DeviceDefault
  <2> QED
    BY <1>2, <1>3, <1>4, <2>1, ToldIsShorter
<1>6. a = None \/ a \in Nat
  BY HostAssumption DEF ExchangeInv
<1>7. x.interval = IF a # None /\ t # None THEN Lesser(a, t \div 2)
                   ELSE IF t # None THEN t \div 2 ELSE a
  BY DEF ExchangeInv, StatusInterval
<1> HIDE DEF x, t, p, a
<1>8. None \notin Nat
  BY DEF None
<1>9. t # None => t \in Nat /\ t \div 2 \in Nat /\ 2 * (t \div 2) <= t /\ t <= p /\ p \in Nat
  BY <1>5
<1>10. t # None => x.interval # None /\ 2 * x.interval <= p
  BY <1>6, <1>7, <1>8, <1>9 DEF Lesser
<1>11. a # None => x.interval # None /\ x.interval <= a
  BY <1>6, <1>7, <1>8, <1>9 DEF Lesser
<1> QED
  BY <1>10, <1>11 DEF x, t, p, a

\* The exchange of capabilities in connect_with: whatever the device is set to, whatever
\* a later version adds, wherever the response is cut and whether the requests fail, what
\* the host hears is what was offered or the default, and the device enforces a limit that
\* the host has told it or the default.
THEOREM CapsAlwaysUnderstood == Spec => []CapsUnderstood
<1>1. CloseInv /\ ExchangeInv /\ [Next]_vars => (CloseInv /\ ExchangeInv)'
  BY NextCloses, NextExchange
<1> QED
  BY <1>1, ExchangeUnderstood, InitCloses, InitExchange, PTL DEF Spec

\* connect_with: the host polls twice within the ping timeout that the device enforces,
\* and as often as the application asked for.
THEOREM PollsAreInTime == Spec => []PollsInTime
<1>1. CloseInv /\ ExchangeInv /\ [Next]_vars => (CloseInv /\ ExchangeInv)'
  BY NextCloses, NextExchange
<1>2. ExchangeInv => PollsInTime
  BY ExchangeUnderstood, IntervalInTime
<1> QED
  BY <1>1, <1>2, InitCloses, InitExchange, PTL DEF Spec
================================================================================
