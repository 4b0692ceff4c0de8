------------------------------- MODULE UpcStdio -------------------------------
(***************************************************************************)
(* The command line tool between two pipes and a channel: forward_stdio    *)
(* and the loops around it (src/bin/upc.rs, "upc connect" and "upc         *)
(* device").                                                               *)
(*                                                                         *)
(* send_fut and recv_fut are polled by one task of a single-threaded       *)
(* runtime; each step between two awaits is an action.  A write to stdout  *)
(* blocks the whole process.  The channel is what UpcSender and            *)
(* UpcReceiver promise: two queues, either end of which may close.         *)
(*                                                                         *)
(* A chunk is what one read of stdin returns (a line, with line framing);  *)
(* chunks and the packets of the peer are numbered.  Reads of stdin run on *)
(* a thread of their own and outlive the future that waits for them; a     *)
(* later Stdin waits for them, as they hold the lock of std::io::Stdin.    *)
(***************************************************************************)
EXTENDS Integers, FiniteSets, SequencesExt

CONSTANTS
    MaxConns,  \* bound: connections served
    MaxChunks, \* bound: chunks written to stdin
    MaxPieces, \* packets a line is cut into, at most
    MaxPeer,   \* bound: packets the peer sends in a connection
    OutLen     \* chunks the channel takes before the peer has read them

ASSUME StdioAssumption ==
    /\ MaxConns \in Nat \ {0} /\ MaxChunks \in Nat /\ MaxPieces \in Nat \ {0}
    /\ MaxPeer \in Nat /\ OutLen \in Nat \ {0}

Nothing == 0

VARIABLES
    keep, tty,       \* --keep; stdin is a terminal
    main,            \* where exec stands
    code,            \* exit code
    conn,            \* the connection
    sender,          \* send_fut
    receiver,        \* recv_fut
    chunk, pieces,   \* what send_fut is sending and how many packets are left of it
    permit,          \* stdin_closed has a permit
    stdin_done,
    armed,           \* idle_timeout has been set
    fdIn, fdOut,     \* the process has stdin and stdout open
    \* stdin and stdout
    wrote, pipe, upstream, reads, result, downstream,
    printed,         \* packets written to stdout
    \* the channel
    outq, outClosed, inq, inClosed, failed, peerSent,
    \* history
    accepted,        \* chunks the channel has taken, of all connections
    lost             \* chunks read but not taken by the channel

modeVars == <<keep, tty>>
execVars == <<main, code, conn>>
sendVars == <<sender, chunk, pieces>>
recvVars == <<receiver, stdin_done, armed>>
fds      == <<fdIn, fdOut>>
stdVars  == <<wrote, pipe, upstream>>
readVars == <<reads, result>>
outVars  == <<downstream, printed>>
chanOut  == <<outq, outClosed>>
chanIn   == <<inq, inClosed, peerSent>>
hist     == <<accepted, lost>>

vars == <<modeVars, execVars, sendVars, recvVars, permit, fds, stdVars, readVars, outVars, chanOut, chanIn, failed, hist>>

Init ==
    /\ keep \in BOOLEAN /\ tty \in BOOLEAN
    /\ main = "accept" /\ code = -1 /\ conn = 0
    /\ sender = "off" /\ chunk = Nothing /\ pieces = 0
    /\ receiver = "off" /\ stdin_done = FALSE /\ armed = FALSE /\ permit = FALSE
    /\ fdIn = TRUE /\ fdOut = TRUE
    /\ wrote = 0 /\ pipe = <<>> /\ upstream = "open" /\ reads = <<>> /\ result = Nothing
    /\ downstream = "open" /\ printed = 0
    /\ outq = <<>> /\ outClosed = TRUE /\ inq = <<>> /\ inClosed = TRUE /\ failed = FALSE
    /\ peerSent = 0
    /\ accepted = {} /\ lost = {}

Idle == sender \notin {"read", "send"} /\ receiver \notin {"wait", "write"}
Sending == main = "forward" /\ receiver # "write"

-----------------------------------------------------------------------------
(* exec                                                                    *)

\* connect_with or accept returns a new channel to forward_stdio.  A result that
\* the last connection did not wait for is gone with its Stdin.
Connect ==
    /\ main = "accept" /\ conn < MaxConns /\ conn' = conn + 1 /\ main' = "forward"
    /\ sender' = "read" /\ chunk' = Nothing /\ pieces' = 0
    /\ receiver' = "wait" /\ stdin_done' = FALSE /\ armed' = FALSE /\ permit' = FALSE
    /\ outq' = <<>> /\ outClosed' = FALSE /\ inq' = <<>> /\ inClosed' = FALSE
    /\ failed' = FALSE /\ peerSent' = 0 /\ printed' = 0
    /\ UNCHANGED <<modeVars, code, fds, stdVars, readVars, downstream, hist>>

\* Ends the connection: the loop of --keep goes on, otherwise the process exits
\* with everything the channel still holds.
Leaves(c) ==
    /\ main' = IF keep THEN "accept" ELSE "exit"
    /\ code' = IF keep THEN code ELSE c

\* try_join! returns when both futures are done; then a pause of 100 ms.
Joined ==
    /\ main = "forward" /\ sender = "ended" /\ receiver = "ended"
    /\ main' = "linger"
    /\ UNCHANGED <<modeVars, code, conn, sendVars, recvVars, permit, fds, stdVars, readVars, outVars, chanOut, chanIn, failed, hist>>

Lingered ==
    /\ main = "linger" /\ Leaves(0)
    /\ UNCHANGED <<modeVars, conn, sendVars, recvVars, permit, fds, stdVars, readVars, outVars, chanOut, chanIn, failed, hist>>

\* What was read and is not on its way is dropped with send_fut.
Dropped == ({chunk, result} \intersect (1..MaxChunks)) \ accepted

\* The first error drops the other future.
Fails ==
    /\ sender' = "ended" /\ receiver' = "ended" /\ Leaves(1)
    /\ lost' = lost \union Dropped /\ result' = Nothing /\ chunk' = Nothing /\ pieces' = 0

-----------------------------------------------------------------------------
(* send_fut                                                                *)

Notifies_AnyInput == TRUE
Notifies == tty

\* The loop has ended; stdin is closed and recv_fut is told.
Ends ==
    /\ sender' = "ended" /\ fdIn' = (fdIn /\ keep) /\ permit' = (permit \/ Notifies)
    /\ lost' = lost \union Dropped /\ result' = Nothing /\ UNCHANGED <<chunk, pieces>>

\* The select looks at closed() first.  The read it leaves behind goes on.
WatchesClosed_Not == FALSE
WatchesClosed == outClosed
SeesClosed ==
    /\ Sending /\ sender = "read" /\ WatchesClosed
    /\ Ends
    /\ UNCHANGED <<modeVars, execVars, recvVars, fdOut, stdVars, reads, outVars, chanOut, chanIn, failed, accepted>>

Reading_Forgotten == FALSE
Reading == conn \in ToSet(reads) \/ result # Nothing

\* The future of a read is polled again until it is ready.
AsksStdin ==
    /\ Sending /\ sender = "read" /\ ~outClosed /\ ~Reading
    /\ Len(reads) < MaxConns + 1
    /\ reads' = Append(reads, conn)
    /\ UNCHANGED <<modeVars, execVars, sendVars, recvVars, permit, fds, stdVars, result, outVars, chanOut, chanIn, failed, hist>>

TakesChunk ==
    /\ Sending /\ sender = "read" /\ ~outClosed /\ result > 0
    /\ sender' = "send" /\ chunk' = result /\ pieces' \in 1..MaxPieces /\ result' = Nothing
    /\ UNCHANGED <<modeVars, execVars, recvVars, permit, fds, stdVars, reads, outVars, chanOut, chanIn, failed, hist>>

\* End of the input, or an error of it
Eof == -1
Broken == -2
TakesEnd ==
    /\ Sending /\ sender = "read" /\ ~outClosed /\ result < 0
    /\ IF result = Eof THEN Ends /\ UNCHANGED <<main, code, receiver>>
       ELSE Fails /\ fdIn' = (fdIn /\ keep) /\ UNCHANGED permit
    /\ UNCHANGED <<modeVars, conn, stdin_done, armed, fdOut, stdVars, reads, outVars, chanOut, chanIn, failed, accepted>>

\* upc_send: the channel takes a packet ...
Sends ==
    /\ Sending /\ sender = "send" /\ ~outClosed /\ Len(outq) < OutLen
    /\ outq' = Append(outq, chunk)
    /\ pieces' = pieces - 1 /\ sender' = IF pieces = 1 THEN "read" ELSE "send"
    /\ chunk' = IF pieces = 1 THEN Nothing ELSE chunk
    /\ accepted' = IF pieces = 1 THEN accepted \union {chunk} ELSE accepted
    /\ UNCHANGED <<modeVars, execVars, recvVars, permit, fds, stdVars, readVars, outVars, outClosed, chanIn, failed, lost>>

\* ... or is closed.  A broken pipe returns at once: stdin stays open and
\* recv_fut is not told.
SendFails ==
    /\ Sending /\ sender = "send" /\ outClosed
    /\ IF failed THEN Fails
       ELSE /\ sender' = "ended" /\ lost' = lost \union Dropped
            /\ chunk' = Nothing /\ pieces' = 0 /\ UNCHANGED <<main, code, receiver, result>>
    /\ UNCHANGED <<modeVars, conn, stdin_done, armed, permit, fds, stdVars, reads, outVars, chanOut, chanIn, failed, accepted>>

-----------------------------------------------------------------------------
(* recv_fut                                                                *)

Receiving == main = "forward" /\ receiver = "wait"

Receives ==
    /\ Receiving /\ inq # <<>>
    /\ inq' = Tail(inq) /\ receiver' = "write"
    /\ armed' = (armed \/ stdin_done)
    /\ UNCHANGED <<modeVars, execVars, sendVars, stdin_done, permit, fds, stdVars, readVars, outVars, chanOut, inClosed, peerSent, failed, hist>>

RecvEnds == receiver' = "ended" /\ fdOut' = (fdOut /\ keep)

\* recv() returned None, or an error.
EndOfStream ==
    /\ Receiving /\ inq = <<>> /\ inClosed
    /\ IF failed THEN Fails /\ fdOut' = (fdOut /\ keep)
       ELSE RecvEnds /\ UNCHANGED <<main, code, sendVars, result, lost>>
    /\ UNCHANGED <<modeVars, conn, stdin_done, armed, permit, fdIn, stdVars, reads, outVars, chanOut, chanIn, failed, accepted>>

ArmsAtEof_Not == FALSE
ArmsAtEof == TRUE
HearsStdinClosed ==
    /\ Receiving /\ permit /\ ~stdin_done
    /\ permit' = FALSE /\ stdin_done' = TRUE /\ armed' = ArmsAtEof
    /\ UNCHANGED <<modeVars, execVars, sendVars, receiver, fds, stdVars, readVars, outVars, chanOut, chanIn, failed, hist>>

\* IDLE_TIMEOUT without a packet.  The select takes any branch that is ready.
IdleExpires ==
    /\ Receiving /\ armed
    /\ RecvEnds
    /\ UNCHANGED <<modeVars, execVars, sendVars, stdin_done, armed, permit, fdIn, stdVars, readVars, outVars, chanOut, chanIn, failed, hist>>

\* write_all and flush
Writes ==
    /\ main = "forward" /\ receiver = "write"
    /\ CASE downstream = "open" ->
              receiver' = "wait" /\ printed' = printed + 1 /\ UNCHANGED <<main, code, sendVars, result, lost, fdOut>>
         [] downstream = "gone" ->
              RecvEnds /\ UNCHANGED <<main, code, sendVars, result, lost, printed>>
         [] downstream = "full" ->
              Fails /\ fdOut' = (fdOut /\ keep) /\ UNCHANGED printed
    /\ UNCHANGED <<modeVars, conn, stdin_done, armed, permit, fdIn, stdVars, reads, downstream, chanOut, chanIn, failed, accepted>>

-----------------------------------------------------------------------------
(* stdin and stdout                                                        *)

toolVars == <<modeVars, execVars, sendVars, recvVars, permit, fds>>

\* A process that writes to a closed stdin is ended by the broken pipe.
UpstreamWrites ==
    /\ upstream = "open" /\ fdIn /\ main # "exit" /\ wrote < MaxChunks
    /\ wrote' = wrote + 1 /\ pipe' = Append(pipe, wrote + 1)
    /\ UNCHANGED <<toolVars, upstream, readVars, outVars, chanOut, chanIn, failed, hist>>

UpstreamEnds ==
    /\ upstream = "open" /\ upstream' \in {"eof", "broken"}
    /\ UNCHANGED <<toolVars, wrote, pipe, readVars, outVars, chanOut, chanIn, failed, hist>>

\* The oldest read is served; nobody waits for it if its send_fut has ended.
Served == reads # <<>> /\ main # "exit" /\ reads' = Tail(reads)
Awaited == Head(reads) = conn /\ main = "forward" /\ sender = "read"

ReadReturns ==
    /\ Served /\ pipe # <<>>
    /\ pipe' = Tail(pipe)
    /\ IF Awaited THEN result' = Head(pipe) /\ lost' = lost \union Dropped
       ELSE lost' = lost \union {Head(pipe)} /\ UNCHANGED result
    /\ UNCHANGED <<toolVars, wrote, upstream, outVars, chanOut, chanIn, failed, accepted>>

ReadEnds ==
    /\ Served /\ pipe = <<>> /\ upstream # "open"
    /\ result' = IF ~Awaited THEN result ELSE IF upstream = "eof" THEN Eof ELSE Broken
    /\ UNCHANGED <<toolVars, stdVars, outVars, chanOut, chanIn, failed, hist>>

DownstreamFails ==
    /\ downstream = "open" /\ downstream' \in {"gone", "full"}
    /\ UNCHANGED <<toolVars, stdVars, readVars, printed, chanOut, chanIn, failed, hist>>

-----------------------------------------------------------------------------
(* The channel and the peer                                                *)

Connected == main \in {"forward", "linger"}
envKeeps == <<toolVars, stdVars, readVars, outVars, hist>>

PeerTakes ==
    /\ Connected /\ outq # <<>> /\ outq' = Tail(outq)
    /\ UNCHANGED <<envKeeps, outClosed, chanIn, failed>>

\* The peer stops receiving: what is queued is discarded.
PeerStops ==
    /\ Connected /\ ~outClosed /\ outClosed' = TRUE /\ outq' = <<>>
    /\ UNCHANGED <<envKeeps, chanIn, failed>>

PeerSends ==
    /\ Connected /\ ~inClosed /\ peerSent < MaxPeer
    /\ peerSent' = peerSent + 1 /\ inq' = Append(inq, peerSent + 1)
    /\ UNCHANGED <<envKeeps, inClosed, chanOut, failed>>

PeerEnds ==
    /\ Connected /\ ~inClosed /\ inClosed' = TRUE
    /\ UNCHANGED <<envKeeps, inq, peerSent, chanOut, failed>>

\* An error is stored and one direction closes, the other one follows.
ChannelFails ==
    /\ Connected /\ ~failed /\ failed' = TRUE
    /\ \/ ~outClosed /\ outClosed' = TRUE /\ outq' = <<>> /\ UNCHANGED inClosed
       \/ ~inClosed /\ inClosed' = TRUE /\ UNCHANGED chanOut
    /\ UNCHANGED <<envKeeps, inq, peerSent>>

Exec == Connect \/ Joined \/ Lingered
SendFut == SeesClosed \/ AsksStdin \/ TakesChunk \/ TakesEnd \/ Sends \/ SendFails
RecvFut == Receives \/ EndOfStream \/ HearsStdinClosed \/ IdleExpires \/ Writes
Stdio == UpstreamWrites \/ UpstreamEnds \/ ReadReturns \/ ReadEnds \/ DownstreamFails
Peer == PeerTakes \/ PeerStops \/ PeerSends \/ PeerEnds \/ ChannelFails

Next == Exec \/ SendFut \/ RecvFut \/ Stdio \/ Peer

\* The process runs, its stdout is read, reads of stdin return what there is, and
\* the timer fires.  Neither the pipes nor the peer have to do anything else.
Fairness ==
    /\ WF_vars(Joined) /\ WF_vars(Lingered) /\ WF_vars(SendFut)
    /\ WF_vars(Receives \/ EndOfStream) /\ WF_vars(HearsStdinClosed) /\ WF_vars(IdleExpires)
    /\ WF_vars(Writes) /\ WF_vars(ReadReturns \/ ReadEnds)

Spec == Init /\ [][Next]_vars /\ Fairness

-----------------------------------------------------------------------------
(* Properties                                                              *)

\* Every variable keeps its range, and the channel takes no more than it holds.
TypeOK ==
    /\ {keep, tty, permit, stdin_done, armed, fdIn, fdOut, outClosed, inClosed, failed} \subseteq BOOLEAN
    /\ main \in {"accept", "forward", "linger", "exit"} /\ code \in -1..1 /\ conn \in 0..MaxConns
    /\ sender \in {"off", "read", "send", "ended"} /\ receiver \in {"off", "wait", "write", "ended"}
    /\ chunk \in 0..MaxChunks /\ pieces \in 0..MaxPieces /\ wrote \in 0..MaxChunks
    /\ Len(reads) <= MaxConns /\ result \in -2..MaxChunks
    /\ upstream \in {"open", "eof", "broken"} /\ downstream \in {"open", "gone", "full"}
    /\ Len(outq) <= OutLen /\ printed \in 0..MaxPeer /\ peerSent \in 0..MaxPeer

\* Each connection costs at most one chunk of stdin that was read and then not
\* sent, whenever its end overtakes the read (with --keep the next connection
\* goes on behind it), and none is lost while the peer receives.
AtMostOneChunkLost ==
    /\ Cardinality(lost) <= conn
    /\ lost # {} /\ conn = 1 => outClosed \/ failed \/ downstream = "full"

\* With input that is not a terminal the tool exits successfully only after all
\* that the peer sent was written to stdout, unless nobody reads that.
OutputIsComplete ==
    main = "exit" /\ code = 0 /\ ~tty /\ downstream # "gone" => printed = peerSent

\* The tool ends when the peer has closed both directions, even while nothing
\* comes from stdin.
PeerGoneEnds == (main = "forward" /\ outClosed /\ inClosed) ~> main # "forward"

\* The end of the input on a terminal ends the tool some time after the last
\* packet, also when the peer never closes its direction.
TerminalEofEnds ==
    (main = "forward" /\ tty /\ sender = "read" /\ result = Eof) ~> main # "forward"
===============================================================================
