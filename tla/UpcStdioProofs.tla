----------------------------- MODULE UpcStdioProofs -----------------------------
(***************************************************************************)
(* What the command line tool loses of its input and what it has written   *)
(* of its output when it ends (AtMostOneChunkLost and OutputIsComplete of  *)
(* UpcStdio), for any number of connections, chunks and packets.           *)
(*                                                                         *)
(* A connection may lose a chunk either with its send_fut, or with a read  *)
(* of stdin that is left behind and returns later; never with both.  So    *)
(* the chunks lost, the reads under way and the send_fut that runs without *)
(* a read together are no more than the connections (Losses).              *)
(***************************************************************************)
EXTENDS UpcStdio, FiniteSetTheorems, TLAPS

Chunks == 1..MaxChunks

-----------------------------------------------------------------------------
(* The invariant                                                           *)

\* What the variables are
ToolTypes ==
    /\ keep \in BOOLEAN /\ tty \in BOOLEAN
    /\ main \in {"accept", "forward", "linger", "exit"} /\ code \in -1..1 /\ conn \in 0..MaxConns
    /\ sender \in {"off", "read", "send", "ended"} /\ chunk \in 0..MaxChunks /\ pieces \in 0..MaxPieces
    /\ receiver \in {"off", "wait", "write", "ended"}
    /\ stdin_done \in BOOLEAN /\ armed \in BOOLEAN /\ permit \in BOOLEAN
    /\ fdIn \in BOOLEAN /\ fdOut \in BOOLEAN

PipeTypes ==
    /\ wrote \in 0..MaxChunks /\ pipe \in Seq(Chunks) /\ upstream \in {"open", "eof", "broken"}
    /\ reads \in Seq(1..MaxConns) /\ result \in -2..MaxChunks
    /\ downstream \in {"open", "gone", "full"} /\ printed \in Nat
    /\ lost \subseteq Chunks

ChannelTypes ==
    /\ outq \in Seq(0..MaxChunks) /\ Len(outq) <= OutLen
    /\ outClosed \in BOOLEAN /\ inClosed \in BOOLEAN /\ failed \in BOOLEAN
    /\ inq \in Seq(Nat) /\ peerSent \in 0..MaxPeer

\* send_fut is at work on a chunk, has one to take, or waits for a read of its
\* own; only one of them at a time.
Active == sender \in {"read", "send"}
Waiting == conn \in ToSet(reads)
Feeding ==
    /\ chunk # Nothing => sender = "send"
    /\ sender = "send" => pieces # 0 /\ ~Waiting
    /\ result # Nothing => sender = "read" /\ ~Waiting
    /\ Active => main = "forward"
    /\ \A i \in DOMAIN reads : reads[i] \in 1..conn
    /\ \A i, j \in DOMAIN reads : reads[i] = conn /\ reads[j] = conn => i = j

\* What is lost, and what may still be: with a read that is under way, or with
\* a send_fut that waits for none.
Alone == IF Active /\ ~Waiting THEN 1 ELSE 0
Losses == Cardinality(lost) + Len(reads) + Alone <= conn

\* The first connection leaves a chunk or a read behind only for a reason.
Excused ==
    conn = 1 /\ (lost # {} \/ (Waiting /\ sender # "read"))
        => outClosed \/ failed \/ downstream = "full"

\* Only a terminal starts the idle timeout.
Timing == permit \/ stdin_done \/ armed => tty

\* Packets on their way to stdout
Written == IF receiver = "write" THEN 1 ELSE 0
AllPrinted == ~tty /\ downstream # "gone" => printed = peerSent
Printing ==
    /\ printed + Len(inq) + Written <= peerSent
    /\ receiver \in {"wait", "write"} =>
         main = "forward" /\ printed + Len(inq) + Written = peerSent
    /\ receiver = "ended" /\ main \in {"forward", "linger"} =>
         AllPrinted /\ (~tty /\ downstream # "gone" => inClosed)
    /\ main = "linger" => receiver = "ended"
    /\ main = "exit" /\ code = 0 => AllPrinted

StdioInv ==
    /\ ToolTypes /\ PipeTypes /\ ChannelTypes
    /\ Feeding /\ Losses /\ Excused /\ Timing /\ Printing

-----------------------------------------------------------------------------
(* Queues and sets                                                         *)

\* What a queue holds after one more.
LEMMA AfterAppend ==
  ASSUME NEW S, NEW s \in Seq(S), NEW x \in S
  PROVE  /\ Append(s, x) \in Seq(S) /\ Len(Append(s, x)) = Len(s) + 1 /\ Len(s) \in Nat
         /\ ToSet(Append(s, x)) = ToSet(s) \union {x}
         /\ \A i \in DOMAIN Append(s, x) :
               \/ i \in DOMAIN s /\ Append(s, x)[i] = s[i]
               \/ i = Len(s) + 1 /\ Append(s, x)[i] = x
<1>1. /\ Append(s, x) \in Seq(S) /\ Len(Append(s, x)) = Len(s) + 1 /\ Len(s) \in Nat
      /\ DOMAIN s = 1..Len(s) /\ DOMAIN Append(s, x) = 1..(Len(s) + 1)
      /\ Append(s, x)[Len(s) + 1] = x /\ \A i \in 1..Len(s) : Append(s, x)[i] = s[i]
  OBVIOUS
<1>2. \A i \in DOMAIN Append(s, x) :
         \/ i \in DOMAIN s /\ Append(s, x)[i] = s[i]
         \/ i = Len(s) + 1 /\ Append(s, x)[i] = x
  BY <1>1
<1> DEFINE q == Append(s, x)
<1> HIDE DEF q
<1>3. ToSet(q) = ToSet(s) \union {x}
  <2>1. ASSUME NEW y \in ToSet(q) PROVE y \in ToSet(s) \union {x}
    BY <1>1, <1>2 DEF ToSet, q
  <2>2. ASSUME NEW y \in ToSet(s) PROVE y \in ToSet(q)
    <3>1. PICK i \in 1..Len(s) : s[i] = y
      BY <1>1 DEF ToSet
    <3>2. i \in DOMAIN q /\ q[i] = y
      BY <1>1, <3>1 DEF q
    <3> QED
      BY <3>2 DEF ToSet
  <2>3. x \in ToSet(q)
    <3>1. Len(s) + 1 \in DOMAIN q /\ q[Len(s) + 1] = x
      BY <1>1 DEF q
    <3> QED
      BY <3>1 DEF ToSet
  <2> QED
    BY <2>1, <2>2, <2>3
<1> QED
  BY <1>1, <1>2, <1>3 DEF q

\* What a queue holds after one less.
LEMMA AfterTail ==
  ASSUME NEW S, NEW s \in Seq(S), s # <<>>
  PROVE  /\ Tail(s) \in Seq(S) /\ Len(Tail(s)) = Len(s) - 1 /\ Len(s) \in Nat \ {0}
         /\ Head(s) \in S /\ Head(s) = s[1] /\ 1 \in DOMAIN s /\ Head(s) \in ToSet(s)
         /\ \A i \in DOMAIN Tail(s) : i \in Nat \ {0} /\ i + 1 \in DOMAIN s /\ Tail(s)[i] = s[i + 1]
         /\ ToSet(Tail(s)) \subseteq ToSet(s) /\ ToSet(s) = ToSet(Tail(s)) \union {Head(s)}
<1>1. /\ Tail(s) \in Seq(S) /\ Len(Tail(s)) = Len(s) - 1 /\ Len(s) \in Nat \ {0}
      /\ Head(s) \in S /\ Head(s) = s[1] /\ 1 \in DOMAIN s /\ DOMAIN s = 1..Len(s)
      /\ DOMAIN Tail(s) = 1..(Len(s) - 1)
      /\ \A i \in DOMAIN Tail(s) : i \in Nat \ {0} /\ i + 1 \in DOMAIN s /\ Tail(s)[i] = s[i + 1]
  OBVIOUS
<1> DEFINE q == Tail(s)
<1> HIDE DEF q
<1>2. ASSUME NEW y \in ToSet(q) PROVE y \in ToSet(s)
  BY <1>1 DEF ToSet, q
<1>3. ASSUME NEW y \in ToSet(s), y # s[1] PROVE y \in ToSet(q)
  <2>1. PICK i \in 1..Len(s) : s[i] = y
    BY <1>1 DEF ToSet
  <2>2. i - 1 \in DOMAIN q /\ q[i - 1] = s[(i - 1) + 1] /\ (i - 1) + 1 = i
    BY <1>1, <1>3, <2>1 DEF q
  <2> QED
    BY <2>1, <2>2 DEF ToSet
<1>4. s[1] \in ToSet(s)
  BY <1>1 DEF ToSet
<1> QED
  BY <1>1, <1>2, <1>3, <1>4 DEF q

\* Chunks are few: one more in a set of them is counted once at most.
LEMMA LostFinite ==
  ASSUME NEW L \in SUBSET Chunks
  PROVE  /\ Cardinality(L) \in Nat
         /\ \A x : Cardinality(L \union {x}) <= Cardinality(L) + 1
         /\ Cardinality(L) = 0 => L = {}
<1>1. IsFiniteSet(L)
  <2>1. IsFiniteSet(Chunks)
    BY FS_Interval, StdioAssumption DEF Chunks
  <2> QED
    BY <2>1, FS_Subset
<1>2. Cardinality(L) \in Nat
  BY <1>1, FS_CardinalityType
<1>3. ASSUME NEW x PROVE Cardinality(L \union {x}) <= Cardinality(L) + 1
  <2>1. Cardinality(L \union {x}) = IF x \in L THEN Cardinality(L) ELSE Cardinality(L) + 1
    BY <1>1, FS_AddElement
  <2> QED
    BY <1>2, <2>1
<1>4. Cardinality(L) = 0 => L = {}
  BY <1>1, FS_EmptySet
<1> QED
  BY <1>2, <1>3, <1>4

\* What send_fut leaves is one chunk, and only when no read of it is under way.
LEMMA DroppedOnce ==
  ASSUME ToolTypes, PipeTypes, Feeding
  PROVE  /\ lost \union Dropped \subseteq Chunks
         /\ Cardinality(lost) \in Nat
         /\ Cardinality(lost \union Dropped) <= Cardinality(lost) + Alone
         /\ Alone = 0 => Dropped = {}
         /\ result <= 0 /\ sender # "send" => Dropped = {}
<1>1. Dropped \subseteq Chunks
  BY DEF Dropped, Chunks
<1>2. Cardinality(lost) \in Nat /\ \A x : Cardinality(lost \union {x}) <= Cardinality(lost) + 1
  BY LostFinite DEF PipeTypes
<1>3. CASE Dropped = {}
  BY <1>1, <1>2, <1>3 DEF PipeTypes, Alone
<1>4. CASE Dropped # {}
  <2>1. PICK x \in Dropped : TRUE
    BY <1>4
  <2>2. Dropped = {x} /\ Alone = 1
    <3>1. CASE sender = "send"
      BY <2>1, <3>1 DEF Dropped, Feeding, Alone, Active, Nothing
    <3>2. CASE sender # "send"
      BY <2>1, <3>2 DEF Dropped, Feeding, Alone, Active, Nothing
    <3> QED
      BY <3>1, <3>2
  <2>3. result > 0 \/ sender = "send"
    <3>1. x \in 1..MaxChunks /\ (x = chunk \/ x = result)
      BY <2>1 DEF Dropped
    <3>2. x = chunk => sender = "send"
      BY <3>1 DEF Feeding, Nothing
    <3> QED
      BY <3>1, <3>2
  <2>4. lost \subseteq Chunks /\ result \in -2..MaxChunks
    BY DEF PipeTypes
  <2>5. lost \union Dropped \subseteq Chunks
    BY <1>1, <2>4
  <2>6. Cardinality(lost \union Dropped) <= Cardinality(lost) + Alone
    BY <1>2, <2>2
  <2> QED
    BY <1>2, <1>4, <2>2, <2>3, <2>4, <2>5, <2>6, StdioAssumption
<1> QED
  BY <1>3, <1>4

-----------------------------------------------------------------------------
(* The steps                                                               *)

\* The tool keeps to its ranges.
LEMMA ToolTypesKept ==
  ASSUME StdioInv, Next
  PROVE  ToolTypes'
<1> USE StdioAssumption DEF StdioInv, ToolTypes, modeVars, execVars, sendVars, recvVars, fds, toolVars, envKeeps
<1>1. CASE Connect
  <2>1. conn' \in 0..MaxConns /\ main' \in {"forward"} /\ sender' = "read" /\ receiver' = "wait"
    BY <1>1 DEF Connect
  <2>2. chunk' \in 0..MaxChunks /\ pieces' \in 0..MaxPieces
    BY <1>1 DEF Connect, Nothing
  <2>3. /\ stdin_done' \in BOOLEAN /\ armed' \in BOOLEAN /\ permit' \in BOOLEAN
        /\ fdIn' \in BOOLEAN /\ fdOut' \in BOOLEAN
        /\ keep' \in BOOLEAN /\ tty' \in BOOLEAN /\ code' \in -1..1
    BY <1>1 DEF Connect
  <2> QED BY <2>1, <2>2, <2>3
<1>2. CASE Joined BY <1>2 DEF Joined
<1>3. CASE Lingered BY <1>3 DEF Lingered, Leaves
<1>4. CASE SeesClosed BY <1>4 DEF SeesClosed, Ends
<1>5. CASE AsksStdin BY <1>5 DEF AsksStdin
<1>6. CASE TakesChunk
  <2>1. chunk' \in 0..MaxChunks /\ pieces' \in 0..MaxPieces /\ sender' = "send"
    BY <1>6 DEF TakesChunk, PipeTypes
  <2> QED
    BY <1>6, <2>1 DEF TakesChunk
<1>7. CASE TakesEnd
  <2>1. CASE result = Eof BY <1>7, <2>1 DEF TakesEnd, Ends
  <2>2. CASE result # Eof BY <1>7, <2>2 DEF TakesEnd, Fails, Leaves, Nothing
  <2> QED BY <2>1, <2>2
<1>8. CASE Sends
  <2>1. pieces \in 1..MaxPieces
    BY <1>8 DEF Sends, Feeding
  <2>2. pieces' \in 0..MaxPieces /\ sender' \in {"read", "send"} /\ chunk' \in 0..MaxChunks
    BY <1>8, <2>1 DEF Sends, Nothing
  <2> QED BY <1>8, <2>2 DEF Sends
<1>9. CASE SendFails
  <2>1. CASE failed BY <1>9, <2>1 DEF SendFails, Fails, Leaves, Nothing
  <2>2. CASE ~failed BY <1>9, <2>2 DEF SendFails, Nothing
  <2> QED BY <2>1, <2>2
<1>10. CASE Receives BY <1>10 DEF Receives
<1>11. CASE EndOfStream
  <2>1. CASE failed BY <1>11, <2>1 DEF EndOfStream, Fails, Leaves, Nothing
  <2>2. CASE ~failed BY <1>11, <2>2 DEF EndOfStream, RecvEnds
  <2> QED BY <2>1, <2>2
<1>12. CASE HearsStdinClosed BY <1>12 DEF HearsStdinClosed, ArmsAtEof
<1>13. CASE IdleExpires BY <1>13 DEF IdleExpires, RecvEnds
<1>14. CASE Writes
  <2>1. CASE downstream = "open" BY <1>14, <2>1 DEF Writes
  <2>2. CASE downstream = "gone" BY <1>14, <2>2 DEF Writes, RecvEnds
  <2>3. CASE downstream = "full" BY <1>14, <2>3 DEF Writes, Fails, Leaves, Nothing
  <2> QED BY <2>1, <2>2, <2>3 DEF PipeTypes
<1>15. CASE Stdio
  BY <1>15 DEF Stdio, UpstreamWrites, UpstreamEnds, ReadReturns, ReadEnds, DownstreamFails
<1>16. CASE Peer
  BY <1>16 DEF Peer, PeerTakes, PeerStops, PeerSends, PeerEnds, ChannelFails
<1> QED
  BY <1>1, <1>2, <1>3, <1>4, <1>5, <1>6, <1>7, <1>8, <1>9, <1>10, <1>11, <1>12, <1>13, <1>14,
     <1>15, <1>16 DEF Next, Exec, SendFut, RecvFut

\* What a step does to the reads of stdin, to the chunk at hand and to what is
\* lost: a connection begins, a read begins or returns, send_fut takes or sends
\* a chunk, it ends, or nothing of it happens.
LEMMA FeedingSteps ==
  ASSUME StdioInv, Next
  PROVE  \/ UNCHANGED <<conn, sender, chunk, pieces, reads, result, lost>>
            /\ (sender \in {"read", "send"} => main' = main)
         \/ /\ conn' = conn + 1 /\ sender' = "read" /\ chunk' = Nothing /\ main' = "forward"
            /\ conn < MaxConns /\ main = "accept" /\ UNCHANGED <<reads, result, lost>>
         \/ /\ AsksStdin /\ UNCHANGED <<conn, main, sender, chunk, pieces, result, lost>>
         \/ /\ ReadReturns /\ UNCHANGED <<conn, main, sender, chunk, pieces>>
         \/ /\ ReadEnds /\ UNCHANGED <<conn, main, sender, chunk, pieces, lost>>
         \/ /\ sender = "read" /\ sender' = "send" /\ chunk' = result /\ pieces' # 0
            /\ result # Nothing /\ result' = Nothing /\ UNCHANGED <<conn, main, reads, lost>>
         \/ /\ sender = "send" /\ sender' = "send" /\ pieces' # 0
            /\ UNCHANGED <<conn, main, chunk, reads, result, lost>>
         \/ /\ sender = "send" /\ sender' = "read" /\ chunk' = Nothing
            /\ UNCHANGED <<conn, main, reads, result, lost>>
         \/ /\ sender' = "ended" /\ lost' = lost \union Dropped /\ chunk' = Nothing
            /\ result' = Nothing /\ UNCHANGED <<conn, reads>>
<1> USE DEF StdioInv, modeVars, execVars, sendVars, recvVars, stdVars, readVars, hist, toolVars, envKeeps
<1>1. CASE Connect BY <1>1 DEF Connect
<1>2. CASE Joined BY <1>2 DEF Joined
<1>3. CASE Lingered
  BY <1>3 DEF Lingered, Feeding, Active
<1>4. CASE SeesClosed
  <2>1. chunk = Nothing
    BY <1>4 DEF SeesClosed, Feeding
  <2> QED
    BY <1>4, <2>1 DEF SeesClosed, Ends
<1>5. CASE AsksStdin BY <1>5 DEF AsksStdin
<1>6. CASE TakesChunk
  BY <1>6, StdioAssumption DEF TakesChunk, Nothing
<1>7. CASE TakesEnd
  <2>1. chunk = Nothing
    BY <1>7 DEF TakesEnd, Feeding
  <2> QED
    BY <1>7, <2>1 DEF TakesEnd, Ends, Fails
<1>8. CASE Sends
  <2>1. pieces \in 1..MaxPieces
    BY <1>8, StdioAssumption DEF Sends, Feeding, ToolTypes
  <2> QED
    BY <1>8, <2>1, StdioAssumption DEF Sends
<1>9. CASE SendFails
  <2>1. result = Nothing
    BY <1>9 DEF SendFails, Feeding
  <2> QED
    BY <1>9, <2>1 DEF SendFails, Fails
<1>10. CASE Receives BY <1>10 DEF Receives
<1>11. CASE EndOfStream BY <1>11 DEF EndOfStream, Fails
<1>12. CASE HearsStdinClosed BY <1>12 DEF HearsStdinClosed
<1>13. CASE IdleExpires BY <1>13 DEF IdleExpires
<1>14. CASE Writes
  <2>1. CASE downstream = "open" BY <1>14, <2>1 DEF Writes
  <2>2. CASE downstream = "gone" BY <1>14, <2>2 DEF Writes
  <2>3. CASE downstream = "full" BY <1>14, <2>3 DEF Writes, Fails
  <2> QED BY <2>1, <2>2, <2>3 DEF PipeTypes
<1>15. CASE UpstreamWrites \/ UpstreamEnds \/ DownstreamFails
  BY <1>15 DEF UpstreamWrites, UpstreamEnds, DownstreamFails
<1>16. CASE ReadReturns BY <1>16 DEF ReadReturns
<1>17. CASE ReadEnds BY <1>17 DEF ReadEnds
<1>18. CASE Peer
  BY <1>18 DEF Peer, PeerTakes, PeerStops, PeerSends, PeerEnds, ChannelFails
<1> QED
  BY <1>1, <1>2, <1>3, <1>4, <1>5, <1>6, <1>7, <1>8, <1>9, <1>10, <1>11, <1>12, <1>13, <1>14,
     <1>15, <1>16, <1>17, <1>18 DEF Next, Exec, SendFut, RecvFut, Stdio

\* The pipes keep to theirs, and what is lost is chunks.
LEMMA PipeTypesKept ==
  ASSUME StdioInv, Next
  PROVE  PipeTypes'
<1> USE StdioAssumption DEF StdioInv, PipeTypes, modeVars, execVars, sendVars, recvVars, fds,
        stdVars, readVars, outVars, hist, toolVars, envKeeps
<1>0. lost \union Dropped \subseteq Chunks
  BY DroppedOnce
<1>a. CASE UNCHANGED <<stdVars, readVars, downstream, printed, lost>>
  BY <1>a
<1>1. CASE Exec
  <2>1. printed' \in Nat
    BY <1>1 DEF Exec, Connect, Joined, Lingered
  <2> QED BY <1>1, <2>1 DEF Exec, Connect, Joined, Lingered
<1>2. CASE SeesClosed BY <1>0, <1>2 DEF SeesClosed, Ends, Nothing
<1>3. CASE AsksStdin
  <2>1. conn \in 1..MaxConns
    <3>1. Alone = 1
      BY <1>3 DEF AsksStdin, Alone, Active, Waiting, Reading
    <3>2. Cardinality(lost) \in Nat /\ Len(reads) \in Nat
      BY LostFinite
    <3> QED BY <3>1, <3>2 DEF Losses, ToolTypes
  <2>2. reads' \in Seq(1..MaxConns)
    BY <1>3, <2>1 DEF AsksStdin
  <2> QED BY <1>3, <2>2 DEF AsksStdin
<1>4. CASE TakesChunk BY <1>4 DEF TakesChunk, Nothing
<1>5. CASE TakesEnd
  <2>1. CASE result = Eof BY <1>0, <1>5, <2>1 DEF TakesEnd, Ends, Nothing
  <2>2. CASE result # Eof BY <1>0, <1>5, <2>2 DEF TakesEnd, Fails, Nothing
  <2> QED BY <2>1, <2>2
<1>6. CASE Sends BY <1>6 DEF Sends
<1>7. CASE SendFails
  <2>1. CASE failed BY <1>0, <1>7, <2>1 DEF SendFails, Fails, Nothing
  <2>2. CASE ~failed BY <1>0, <1>7, <2>2 DEF SendFails, Nothing
  <2> QED BY <2>1, <2>2
<1>8. CASE Receives \/ HearsStdinClosed \/ IdleExpires
  BY <1>8 DEF Receives, HearsStdinClosed, IdleExpires
<1>9. CASE EndOfStream
  <2>1. CASE failed BY <1>0, <1>9, <2>1 DEF EndOfStream, Fails, Nothing
  <2>2. CASE ~failed BY <1>9, <2>2 DEF EndOfStream
  <2> QED BY <2>1, <2>2
<1>10. CASE Writes
  <2>1. CASE downstream = "open" BY <1>10, <2>1 DEF Writes
  <2>2. CASE downstream = "gone" BY <1>10, <2>2 DEF Writes
  <2>3. CASE downstream = "full" BY <1>0, <1>10, <2>3 DEF Writes, Fails, Nothing
  <2> QED BY <2>1, <2>2, <2>3
<1>11. CASE UpstreamWrites
  <2>1. wrote + 1 \in Chunks
    BY <1>11 DEF UpstreamWrites, Chunks
  <2>2. pipe' \in Seq(Chunks) /\ wrote' \in 0..MaxChunks
    BY <1>11, <2>1 DEF UpstreamWrites, Chunks
  <2> QED BY <1>11, <2>2 DEF UpstreamWrites
<1>12. CASE UpstreamEnds \/ DownstreamFails
  BY <1>12 DEF UpstreamEnds, DownstreamFails
<1>13. CASE ReadReturns
  <2>1. pipe' \in Seq(Chunks) /\ Head(pipe) \in Chunks /\ reads' \in Seq(1..MaxConns)
    BY <1>13 DEF ReadReturns, Served
  <2>2. result' \in -2..MaxChunks
    BY <1>13, <2>1 DEF ReadReturns, Chunks
  <2>3. lost' \subseteq Chunks
    BY <1>0, <1>13, <2>1 DEF ReadReturns
  <2> QED BY <1>13, <2>1, <2>2, <2>3 DEF ReadReturns
<1>14. CASE ReadEnds
  <2>1. reads' \in Seq(1..MaxConns)
    BY <1>14 DEF ReadEnds, Served
  <2>2. result' \in -2..MaxChunks
    BY <1>14 DEF ReadEnds, Eof, Broken
  <2> QED BY <1>14, <2>1, <2>2 DEF ReadEnds
<1>15. CASE Peer
  BY <1>15 DEF Peer, PeerTakes, PeerStops, PeerSends, PeerEnds, ChannelFails
<1> QED
  BY <1>1, <1>2, <1>3, <1>4, <1>5, <1>6, <1>7, <1>8, <1>9, <1>10, <1>11, <1>12, <1>13, <1>14,
     <1>15 DEF Next, SendFut, RecvFut, Stdio

\* The channel takes no more than it holds.
LEMMA ChannelTypesKept ==
  ASSUME StdioInv, Next
  PROVE  ChannelTypes'
<1> USE StdioAssumption DEF StdioInv, ChannelTypes, chanOut, chanIn, envKeeps
<1>0. <<>> \in Seq(0..MaxChunks) /\ <<>> \in Seq(Nat) /\ Len(<<>>) = 0
  OBVIOUS
<1>1. CASE Connect
  <2>1. outq' = <<>> /\ inq' = <<>> /\ peerSent' = 0
    BY <1>1 DEF Connect
  <2>2. outClosed' \in BOOLEAN /\ inClosed' \in BOOLEAN /\ failed' \in BOOLEAN
    BY <1>1 DEF Connect
  <2>3. Len(outq') <= OutLen /\ outq' \in Seq(0..MaxChunks) /\ inq' \in Seq(Nat)
    BY <1>0, <2>1
  <2> QED BY <2>1, <2>2, <2>3
<1>2. CASE Joined \/ Lingered BY <1>2 DEF Joined, Lingered
<1>3. CASE SeesClosed \/ AsksStdin \/ TakesChunk \/ TakesEnd \/ SendFails
  BY <1>3 DEF SeesClosed, AsksStdin, TakesChunk, TakesEnd, SendFails
<1>4. CASE Sends
  <2>1. outq' = Append(outq, chunk) /\ chunk \in 0..MaxChunks /\ Len(outq) < OutLen
    BY <1>4 DEF Sends, ToolTypes
  <2>2. outq' \in Seq(0..MaxChunks) /\ Len(outq') <= OutLen
    BY <2>1
  <2> QED BY <1>4, <2>2 DEF Sends
<1>5. CASE Receives BY <1>5 DEF Receives
<1>6. CASE EndOfStream \/ HearsStdinClosed \/ IdleExpires \/ Writes
  BY <1>6 DEF EndOfStream, HearsStdinClosed, IdleExpires, Writes
<1>7. CASE Stdio
  BY <1>7 DEF Stdio, UpstreamWrites, UpstreamEnds, ReadReturns, ReadEnds, DownstreamFails
<1>8. CASE PeerTakes BY <1>8 DEF PeerTakes
<1>9. CASE PeerStops BY <1>9 DEF PeerStops
<1>10. CASE PeerSends
  <2>1. inq' \in Seq(Nat) /\ peerSent' \in 0..MaxPeer
    BY <1>10 DEF PeerSends
  <2> QED BY <1>10, <2>1 DEF PeerSends
<1>11. CASE PeerEnds BY <1>11 DEF PeerEnds
<1>12. CASE ChannelFails
  <2>1. (outq' = <<>> \/ outq' = outq) /\ inq' = inq /\ peerSent' = peerSent
    BY <1>12 DEF ChannelFails
  <2>2. outClosed' \in BOOLEAN /\ inClosed' \in BOOLEAN /\ failed' \in BOOLEAN
    BY <1>12 DEF ChannelFails
  <2>3. CASE outq' = <<>>
    BY <1>0, <2>1, <2>2, <2>3
  <2>4. CASE outq' = outq
    BY <2>1, <2>2, <2>4
  <2> QED BY <2>1, <2>3, <2>4
<1> QED
  BY <1>1, <1>2, <1>3, <1>4, <1>5, <1>6, <1>7, <1>8, <1>9, <1>10, <1>11, <1>12
     DEF Next, Exec, SendFut, RecvFut, Peer

\* send_fut goes on with one chunk, and with one read of its own.
LEMMA FeedingKept ==
  ASSUME StdioInv, Next
  PROVE  Feeding'
<1> USE DEF StdioInv
<1>0. reads \in Seq(1..MaxConns) /\ conn \in Nat
  BY StdioAssumption DEF PipeTypes, ToolTypes
<1>a. /\ Waiting <=> \E i \in DOMAIN reads : reads[i] = conn
      /\ Waiting' <=> \E i \in DOMAIN reads' : reads'[i] = conn'
  BY DEF Waiting, ToSet
<1>b. ASSUME Served
      PROVE  /\ \A i \in DOMAIN reads' : i \in Nat \ {0} /\ i + 1 \in DOMAIN reads /\ reads'[i] = reads[i + 1]
             /\ 1 \in DOMAIN reads /\ Head(reads) = reads[1]
  BY <1>0, <1>b, AfterTail DEF Served
<1>c. ASSUME Served, conn' = conn
      PROVE  /\ \A i \in DOMAIN reads' : reads'[i] \in 1..conn'
             /\ \A i, j \in DOMAIN reads' : reads'[i] = conn' /\ reads'[j] = conn' => i = j
             /\ Waiting' => Waiting /\ Head(reads) # conn
  <2>1. \A i \in DOMAIN reads' : reads'[i] \in 1..conn'
    BY <1>b, <1>c DEF Feeding
  <2>2. ASSUME NEW i \in DOMAIN reads', NEW j \in DOMAIN reads', reads'[i] = conn', reads'[j] = conn'
        PROVE  i = j
    <3>1. /\ i \in Nat /\ j \in Nat /\ i + 1 \in DOMAIN reads /\ j + 1 \in DOMAIN reads
          /\ reads[i + 1] = conn /\ reads[j + 1] = conn
      BY <1>b, <1>c, <2>2
    <3>2. i + 1 = j + 1
      BY <3>1 DEF Feeding
    <3> QED BY <3>1, <3>2
  <2>3. ASSUME Waiting' PROVE Waiting /\ Head(reads) # conn
    <3>1. PICK i \in DOMAIN reads' : reads'[i] = conn
      BY <1>a, <1>c, <2>3
    <3>2. i \in Nat \ {0} /\ i + 1 \in DOMAIN reads /\ reads[i + 1] = conn
      BY <1>b, <1>c, <3>1
    <3>3. Waiting
      BY <1>a, <3>2
    <3>4. ASSUME reads[1] = conn PROVE FALSE
      <4>1. i + 1 = 1
        BY <1>b, <1>c, <3>2, <3>4 DEF Feeding
      <4> QED BY <3>2, <4>1
    <3> QED BY <1>b, <1>c, <3>3, <3>4
  <2> QED BY <2>1, <2>2, <2>3
<1>1. CASE UNCHANGED <<conn, sender, chunk, pieces, reads, result, lost>>
           /\ (sender \in {"read", "send"} => main' = main)
  BY <1>1 DEF Feeding, Active, Waiting
<1>2. CASE /\ conn' = conn + 1 /\ sender' = "read" /\ chunk' = Nothing /\ main' = "forward"
           /\ conn < MaxConns /\ main = "accept" /\ UNCHANGED <<reads, result, lost>>
  <2>1. result = Nothing
    BY <1>2 DEF Feeding, Active
  <2>2. \A i \in DOMAIN reads : reads[i] \in 1..(conn + 1) /\ reads[i] # conn + 1
    BY <1>0 DEF Feeding
  <2> QED BY <1>2, <2>1, <2>2 DEF Feeding, Active
<1>3. CASE AsksStdin /\ UNCHANGED <<conn, main, sender, chunk, pieces, result, lost>>
  <2>1. sender = "read" /\ ~Waiting /\ result = Nothing /\ reads' = Append(reads, conn)
    BY <1>3 DEF AsksStdin, Reading, Waiting
  <2>2. conn \in 1..conn /\ conn \in 1..MaxConns
    <3>1. Alone = 1
      BY <2>1 DEF Alone, Active
    <3>2. Cardinality(lost) \in Nat /\ Len(reads) \in Nat
      BY <1>0, LostFinite DEF PipeTypes
    <3> QED BY <3>1, <3>2 DEF Losses, ToolTypes
  <2>3. \A i \in DOMAIN reads' :
           \/ i \in DOMAIN reads /\ reads'[i] = reads[i] /\ reads[i] # conn
           \/ i = Len(reads) + 1 /\ reads'[i] = conn
    BY <1>0, <1>a, <2>1, <2>2, AfterAppend
  <2>4. \A i \in DOMAIN reads' : reads'[i] \in 1..conn
    BY <2>2, <2>3 DEF Feeding
  <2>5. \A i, j \in DOMAIN reads' : reads'[i] = conn /\ reads'[j] = conn => i = j
    BY <2>3
  <2>6. conn' = conn /\ sender' = "read" /\ result' = Nothing /\ chunk' = chunk /\ main' = main
    BY <1>3, <2>1
  <2> QED BY <2>1, <2>4, <2>5, <2>6 DEF Feeding, Active
<1>4. CASE ReadReturns /\ UNCHANGED <<conn, main, sender, chunk, pieces>>
  <2>1. Served /\ conn' = conn
    BY <1>4 DEF ReadReturns
  <2>2. CASE Awaited
    <3>1. sender' = "read" /\ ~Waiting'
      BY <1>4, <1>c, <2>1, <2>2 DEF Awaited
    <3> QED BY <1>4, <1>c, <2>1, <3>1 DEF Feeding, Active
  <2>3. CASE ~Awaited
    <3>1. result' = result /\ (Waiting' => Waiting)
      BY <1>4, <1>c, <2>1, <2>3 DEF ReadReturns
    <3> QED BY <1>4, <1>c, <2>1, <3>1 DEF Feeding, Active
  <2> QED BY <2>2, <2>3
<1>5. CASE ReadEnds /\ UNCHANGED <<conn, main, sender, chunk, pieces, lost>>
  <2>1. Served /\ conn' = conn
    BY <1>5 DEF ReadEnds
  <2>2. CASE Awaited
    <3>1. sender' = "read" /\ ~Waiting'
      BY <1>5, <1>c, <2>1, <2>2 DEF Awaited
    <3> QED BY <1>5, <1>c, <2>1, <3>1 DEF Feeding, Active
  <2>3. CASE ~Awaited
    <3>1. result' = result /\ (Waiting' => Waiting)
      BY <1>5, <1>c, <2>1, <2>3 DEF ReadEnds
    <3> QED BY <1>5, <1>c, <2>1, <3>1 DEF Feeding, Active
  <2> QED BY <2>2, <2>3
<1>6. CASE /\ sender = "read" /\ sender' = "send" /\ chunk' = result /\ pieces' # 0
           /\ result # Nothing /\ result' = Nothing /\ UNCHANGED <<conn, main, reads, lost>>
  BY <1>6 DEF Feeding, Active, Waiting
<1>7. CASE /\ sender = "send" /\ sender' = "send" /\ pieces' # 0
           /\ UNCHANGED <<conn, main, chunk, reads, result, lost>>
  BY <1>7 DEF Feeding, Active, Waiting
<1>8. CASE /\ sender = "send" /\ sender' = "read" /\ chunk' = Nothing
           /\ UNCHANGED <<conn, main, reads, result, lost>>
  BY <1>8 DEF Feeding, Active, Waiting
<1>9. CASE /\ sender' = "ended" /\ lost' = lost \union Dropped /\ chunk' = Nothing
           /\ result' = Nothing /\ UNCHANGED <<conn, reads>>
  BY <1>9 DEF Feeding, Active, Waiting
<1> QED
  BY <1>1, <1>2, <1>3, <1>4, <1>5, <1>6, <1>7, <1>8, <1>9, FeedingSteps

\* A chunk is lost with a read that is left behind, or with send_fut, but a
\* connection has only one of them.
LEMMA LossesKept ==
  ASSUME StdioInv, Next
  PROVE  Losses'
<1> USE DEF StdioInv
<1>0. /\ reads \in Seq(1..MaxConns) /\ conn \in Nat /\ lost \subseteq Chunks
      /\ Len(reads) \in Nat /\ Cardinality(lost) \in Nat
  BY LostFinite, StdioAssumption DEF PipeTypes, ToolTypes
<1>a. Alone \in {0, 1} /\ Alone' \in {0, 1} /\ Cardinality(lost) + Len(reads) + Alone <= conn
  BY DEF Alone, Losses
<1>b. ASSUME Served
      PROVE  /\ reads' = Tail(reads) /\ Len(reads') = Len(reads) - 1
             /\ Head(reads) \in ToSet(reads) /\ ToSet(reads) = ToSet(reads') \union {Head(reads)}
  BY <1>0, <1>b, AfterTail DEF Served
<1>1. CASE UNCHANGED <<conn, sender, chunk, pieces, reads, result, lost>>
  BY <1>0, <1>1 DEF Losses, Alone, Active, Waiting
<1>2. CASE /\ conn' = conn + 1 /\ sender' = "read" /\ chunk' = Nothing /\ main' = "forward"
           /\ conn < MaxConns /\ main = "accept" /\ UNCHANGED <<reads, result, lost>>
  <2>1. Alone = 0
    BY <1>2 DEF Feeding, Alone
  <2> QED BY <1>0, <1>a, <1>2, <2>1 DEF Losses
<1>3. CASE AsksStdin /\ UNCHANGED <<conn, main, sender, chunk, pieces, result, lost>>
  <2>1. sender = "read" /\ ~Waiting /\ reads' = Append(reads, conn)
    BY <1>3 DEF AsksStdin, Reading, Waiting
  <2>2. Alone = 1
    BY <2>1 DEF Alone, Active
  <2>3. conn \in 1..MaxConns
    BY <1>0, <1>a, <2>2 DEF ToolTypes
  <2>4. Len(reads') = Len(reads) + 1 /\ conn \in ToSet(reads')
    <3>1. /\ Len(Append(reads, conn)) = Len(reads) + 1
          /\ ToSet(Append(reads, conn)) = ToSet(reads) \union {conn}
      <4> DEFINE R == 1..MaxConns
      <4>1. reads \in Seq(R) /\ conn \in R
        BY <1>0, <2>3
      <4> HIDE DEF R
      <4> QED BY <4>1, AfterAppend
    <3> QED BY <2>1, <3>1
  <2>5. Alone' = 0
    BY <1>3, <2>4 DEF Alone, Waiting
  <2> QED BY <1>0, <1>a, <1>3, <2>2, <2>4, <2>5 DEF Losses
<1>4. CASE ReadReturns /\ UNCHANGED <<conn, main, sender, chunk, pieces>>
  <2>1. Served
    BY <1>4 DEF ReadReturns
  <2>2. CASE Awaited
    <3>1. Alone = 0
      BY <1>b, <2>1, <2>2 DEF Awaited, Alone, Waiting
    <3>2. lost' = lost
      BY <1>4, <2>2, <3>1, DroppedOnce DEF ReadReturns
    <3> QED BY <1>0, <1>a, <1>b, <1>4, <2>1, <3>1, <3>2 DEF Losses
  <2>3. CASE ~Awaited
    <3>1. Head(pipe) \in Chunks /\ lost' = lost \union {Head(pipe)}
      BY <1>4, <2>3, AfterTail DEF ReadReturns, PipeTypes
    <3>2. Cardinality(lost') <= Cardinality(lost) + 1 /\ Cardinality(lost') \in Nat
      <4>1. lost' \in SUBSET Chunks
        BY <1>0, <3>1
      <4> QED BY <1>0, <3>1, <4>1, LostFinite
    <3>3. Alone' = Alone
      <4>1. CASE sender = "read"
        <5>1. Head(reads) # conn
          BY <2>3, <4>1 DEF Awaited, Feeding, Active
        <5> QED BY <1>b, <1>4, <2>1, <5>1 DEF Alone, Active, Waiting
      <4>2. CASE sender = "send"
        <5>1. ~Waiting
          BY <4>2 DEF Feeding
        <5> QED BY <1>b, <1>4, <2>1, <5>1 DEF Alone, Active, Waiting
      <4>3. CASE sender \notin {"read", "send"}
        BY <1>4, <4>3 DEF Alone, Active
      <4> QED BY <4>1, <4>2, <4>3
    <3> QED BY <1>0, <1>a, <1>b, <1>4, <2>1, <3>2, <3>3 DEF Losses
  <2> QED BY <2>2, <2>3
<1>5. CASE ReadEnds /\ UNCHANGED <<conn, main, sender, chunk, pieces, lost>>
  <2>1. Served
    BY <1>5 DEF ReadEnds
  <2> QED BY <1>0, <1>a, <1>b, <1>5, <2>1 DEF Losses
<1>6. CASE /\ sender = "read" /\ sender' = "send" /\ chunk' = result /\ pieces' # 0
           /\ result # Nothing /\ result' = Nothing /\ UNCHANGED <<conn, main, reads, lost>>
  BY <1>0, <1>6 DEF Losses, Alone, Active, Waiting
<1>7. CASE /\ sender = "send" /\ sender' = "send" /\ pieces' # 0
           /\ UNCHANGED <<conn, main, chunk, reads, result, lost>>
  BY <1>0, <1>7 DEF Losses, Alone, Active, Waiting
<1>8. CASE /\ sender = "send" /\ sender' = "read" /\ chunk' = Nothing
           /\ UNCHANGED <<conn, main, reads, result, lost>>
  BY <1>0, <1>8 DEF Losses, Alone, Active, Waiting
<1>9. CASE /\ sender' = "ended" /\ lost' = lost \union Dropped /\ chunk' = Nothing
           /\ result' = Nothing /\ UNCHANGED <<conn, reads>>
  <2>1. Alone' = 0
    BY <1>9 DEF Alone, Active
  <2>2. Cardinality(lost') <= Cardinality(lost) + Alone /\ Cardinality(lost') \in Nat
    <3>1. lost' \in SUBSET Chunks
      BY <1>9, DroppedOnce
    <3> QED BY <1>9, <3>1, DroppedOnce, LostFinite
  <2> QED BY <1>0, <1>a, <1>9, <2>1, <2>2 DEF Losses
<1> QED
  BY <1>1, <1>2, <1>3, <1>4, <1>5, <1>6, <1>7, <1>8, <1>9, FeedingSteps

Reason == outClosed \/ failed \/ downstream = "full"

\* What ends a connection is there to stay: the peer stopped receiving, the
\* channel failed or stdout cannot be written.  A sender that ends without any
\* of them leaves nothing behind.
LEMMA ReasonsKept ==
  ASSUME StdioInv, Next, conn' = conn
  PROVE  /\ Reason => Reason'
         /\ sender' = "ended" /\ sender # "ended" => Reason' \/ (Dropped = {} /\ ~Waiting)
<1> USE DEF StdioInv, Reason, modeVars, execVars, sendVars, recvVars, fds, stdVars, readVars,
        outVars, chanOut, chanIn, hist, toolVars, envKeeps
<1>1. CASE Connect
  BY <1>1, StdioAssumption DEF Connect, ToolTypes
<1>2. CASE Joined \/ Lingered BY <1>2 DEF Joined, Lingered
<1>3. CASE SeesClosed BY <1>3 DEF SeesClosed, WatchesClosed
<1>4. CASE AsksStdin \/ TakesChunk BY <1>4 DEF AsksStdin, TakesChunk
<1>5. CASE TakesEnd
  <2>1. result < 0 /\ sender = "read" /\ result \in Int
    BY <1>5 DEF TakesEnd, PipeTypes
  <2>2. ~Waiting /\ Dropped = {}
    BY <2>1, DroppedOnce DEF Feeding, Nothing
  <2> QED BY <1>5, <2>2 DEF TakesEnd
<1>6. CASE Sends BY <1>6 DEF Sends
<1>7. CASE SendFails BY <1>7 DEF SendFails
<1>8. CASE Receives \/ HearsStdinClosed \/ IdleExpires
  BY <1>8 DEF Receives, HearsStdinClosed, IdleExpires
<1>9. CASE EndOfStream
  BY <1>9 DEF EndOfStream
<1>10. CASE Writes
  <2>1. CASE downstream = "open" BY <1>10, <2>1 DEF Writes
  <2>2. CASE downstream = "gone" BY <1>10, <2>2 DEF Writes
  <2>3. CASE downstream = "full" BY <1>10, <2>3 DEF Writes
  <2> QED BY <2>1, <2>2, <2>3 DEF PipeTypes
<1>11. CASE Stdio
  BY <1>11 DEF Stdio, UpstreamWrites, UpstreamEnds, ReadReturns, ReadEnds, DownstreamFails
<1>12. CASE Peer
  BY <1>12 DEF Peer, PeerTakes, PeerStops, PeerSends, PeerEnds, ChannelFails
<1> QED
  BY <1>1, <1>2, <1>3, <1>4, <1>5, <1>6, <1>7, <1>8, <1>9, <1>10, <1>11, <1>12
     DEF Next, Exec, SendFut, RecvFut

\* The first connection loses nothing while the peer receives.
LEMMA ExcusedKept ==
  ASSUME StdioInv, Next
  PROVE  Excused'
<1> USE DEF StdioInv
<1>0. /\ reads \in Seq(1..MaxConns) /\ conn \in Nat /\ lost \subseteq Chunks
      /\ Len(reads) \in Nat /\ Cardinality(lost) \in Nat
  BY LostFinite, StdioAssumption DEF PipeTypes, ToolTypes
<1>a. Excused <=> (conn = 1 /\ (lost # {} \/ (Waiting /\ sender # "read")) => Reason)
  BY DEF Excused, Reason
<1>b. Excused' <=> (conn' = 1 /\ (lost' # {} \/ (Waiting' /\ sender' # "read")) => Reason')
  BY DEF Excused, Reason
<1>c. conn' = conn => (Reason => Reason')
  BY ReasonsKept
<1>d. ASSUME Served
      PROVE  /\ reads' = Tail(reads) /\ Head(reads) \in ToSet(reads)
             /\ ToSet(reads') \subseteq ToSet(reads)
             /\ 1 \in DOMAIN reads /\ Head(reads) = reads[1]
  BY <1>0, <1>d, AfterTail DEF Served
<1>1. CASE UNCHANGED <<conn, sender, chunk, pieces, reads, result, lost>>
  BY <1>a, <1>b, <1>c, <1>1 DEF Waiting
<1>2. CASE /\ conn' = conn + 1 /\ sender' = "read" /\ chunk' = Nothing /\ main' = "forward"
           /\ conn < MaxConns /\ main = "accept" /\ UNCHANGED <<reads, result, lost>>
  <2>1. ASSUME conn' = 1 PROVE lost' = {}
    <3>1. conn = 0
      BY <1>0, <1>2, <2>1
    <3>2. Cardinality(lost) = 0
      BY <1>0, <3>1 DEF Losses, Alone
    <3> QED BY <1>0, <1>2, <3>2, LostFinite
  <2> QED BY <1>b, <1>2, <2>1
<1>3. CASE AsksStdin /\ UNCHANGED <<conn, main, sender, chunk, pieces, result, lost>>
  <2>1. sender' = "read"
    BY <1>3 DEF AsksStdin
  <2> QED BY <1>a, <1>b, <1>c, <1>3, <2>1
<1>4. CASE ReadReturns /\ UNCHANGED <<conn, main, sender, chunk, pieces>>
  <2>1. Served
    BY <1>4 DEF ReadReturns
  <2>2. Waiting' => Waiting
    BY <1>d, <1>4, <2>1 DEF Waiting
  <2>3. CASE Awaited
    <3>1. Alone = 0
      BY <1>d, <2>1, <2>3 DEF Awaited, Alone, Waiting
    <3>2. lost' = lost
      BY <1>4, <2>3, <3>1, DroppedOnce DEF ReadReturns
    <3> QED BY <1>a, <1>b, <1>c, <1>4, <2>2, <3>2
  <2>4. CASE ~Awaited
    <3>1. ASSUME conn = 1 PROVE Waiting /\ sender # "read"
      <4>1. Head(reads) = conn
        BY <1>d, <2>1, <3>1 DEF Feeding
      <4> QED BY <1>d, <2>1, <2>4, <4>1 DEF Awaited, Waiting, Feeding, Active
    <3> QED BY <1>a, <1>b, <1>c, <1>4, <3>1
  <2> QED BY <2>3, <2>4
<1>5. CASE ReadEnds /\ UNCHANGED <<conn, main, sender, chunk, pieces, lost>>
  <2>1. Served
    BY <1>5 DEF ReadEnds
  <2>2. Waiting' => Waiting
    BY <1>d, <1>5, <2>1 DEF Waiting
  <2> QED BY <1>a, <1>b, <1>c, <1>5, <2>2
<1>6. CASE /\ sender = "read" /\ sender' = "send" /\ chunk' = result /\ pieces' # 0
           /\ result # Nothing /\ result' = Nothing /\ UNCHANGED <<conn, main, reads, lost>>
  <2>1. ~Waiting'
    BY <1>6 DEF Feeding, Waiting
  <2> QED BY <1>a, <1>b, <1>c, <1>6, <2>1
<1>7. CASE /\ sender = "send" /\ sender' = "send" /\ pieces' # 0
           /\ UNCHANGED <<conn, main, chunk, reads, result, lost>>
  BY <1>a, <1>b, <1>c, <1>7 DEF Waiting
<1>8. CASE /\ sender = "send" /\ sender' = "read" /\ chunk' = Nothing
           /\ UNCHANGED <<conn, main, reads, result, lost>>
  BY <1>a, <1>b, <1>c, <1>8
<1>9. CASE /\ sender' = "ended" /\ lost' = lost \union Dropped /\ chunk' = Nothing
           /\ result' = Nothing /\ UNCHANGED <<conn, reads>>
  <2>1. CASE sender = "ended"
    <3>1. Dropped = {}
      BY <2>1, DroppedOnce DEF Alone, Active
    <3> QED BY <1>a, <1>b, <1>c, <1>9, <2>1, <3>1 DEF Waiting
  <2>2. CASE sender # "ended"
    <3>1. Reason' \/ (lost' = lost /\ ~Waiting')
      BY <1>9, <2>2, ReasonsKept DEF Waiting
    <3> QED BY <1>a, <1>b, <1>c, <1>9, <3>1
  <2> QED BY <2>1, <2>2
<1> QED
  BY <1>1, <1>2, <1>3, <1>4, <1>5, <1>6, <1>7, <1>8, <1>9, FeedingSteps

\* Only a terminal is told the end of its input.
LEMMA TimingKept ==
  ASSUME StdioInv, Next
  PROVE  Timing'
<1> USE DEF StdioInv, Timing, modeVars, execVars, sendVars, recvVars, toolVars, envKeeps
<1>1. CASE Exec BY <1>1 DEF Exec, Connect, Joined, Lingered
<1>2. CASE SeesClosed BY <1>2 DEF SeesClosed, Ends, Notifies
<1>3. CASE TakesEnd
  <2>1. CASE result = Eof BY <1>3, <2>1 DEF TakesEnd, Ends, Notifies
  <2>2. CASE result # Eof BY <1>3, <2>2 DEF TakesEnd, Fails
  <2> QED BY <2>1, <2>2
<1>4. CASE AsksStdin \/ TakesChunk \/ Sends \/ SendFails
  BY <1>4 DEF AsksStdin, TakesChunk, Sends, SendFails
<1>5. CASE HearsStdinClosed BY <1>5 DEF HearsStdinClosed
<1>6. CASE Receives \/ EndOfStream \/ IdleExpires \/ Writes
  BY <1>6 DEF Receives, EndOfStream, IdleExpires, Writes
<1>7. CASE Stdio
  BY <1>7 DEF Stdio, UpstreamWrites, UpstreamEnds, ReadReturns, ReadEnds, DownstreamFails
<1>8. CASE Peer
  BY <1>8 DEF Peer, PeerTakes, PeerStops, PeerSends, PeerEnds, ChannelFails
<1> QED
  BY <1>1, <1>2, <1>3, <1>4, <1>5, <1>6, <1>7, <1>8 DEF Next, SendFut, RecvFut

\* Every packet of the peer is in the channel, in recv_fut or written, and
\* recv_fut ends without a terminal only behind the last one.
LEMMA PrintingKept ==
  ASSUME StdioInv, Next
  PROVE  Printing'
<1> USE DEF StdioInv
<1>0. /\ inq \in Seq(Nat) /\ Len(inq) \in Nat /\ printed \in Nat /\ peerSent \in Nat
      /\ Written \in {0, 1} /\ Written' \in {0, 1}
  BY StdioAssumption DEF ChannelTypes, PipeTypes, Written
<1>a. Printing
  OBVIOUS
<1>f. ASSUME Fails, UNCHANGED <<keep, tty, inq, peerSent, printed, downstream>>
      PROVE  Printing'
  <2>1. receiver' = "ended" /\ main' \in {"accept", "exit"} /\ (main' = "exit" => code' = 1) /\ Written' = 0
    BY <1>f DEF Fails, Leaves, Written
  <2>2. printed' + Len(inq') + Written' <= peerSent'
    BY <1>0, <1>a, <1>f, <2>1 DEF Printing
  <2> QED BY <2>1, <2>2 DEF Printing
<1>u. ASSUME UNCHANGED <<keep, tty, main, code, receiver, inq, inClosed, peerSent, printed, downstream>>
      PROVE  Printing'
  BY <1>a, <1>u DEF Printing, Written, AllPrinted
<1>1. CASE Connect
  <2>1. /\ printed' = 0 /\ inq' = <<>> /\ peerSent' = 0 /\ receiver' = "wait" /\ main' = "forward"
        /\ Written' = 0 /\ Len(inq') = 0
    BY <1>1 DEF Connect, Written
  <2> QED BY <2>1 DEF Printing
<1>2. CASE Joined
  <2>1. /\ main = "forward" /\ receiver = "ended" /\ main' = "linger" /\ receiver' = receiver
        /\ UNCHANGED <<tty, inq, inClosed, peerSent, printed, downstream>>
    BY <1>2 DEF Joined, modeVars, execVars, sendVars, recvVars, outVars, chanIn
  <2> QED BY <1>a, <2>1 DEF Printing, Written, AllPrinted
<1>3. CASE Lingered
  <2>1. /\ main = "linger" /\ receiver = "ended" /\ main' \in {"accept", "exit"} /\ receiver' = receiver
        /\ UNCHANGED <<tty, inq, inClosed, peerSent, printed, downstream>>
    BY <1>3 DEF Lingered, Leaves, modeVars, recvVars, outVars, chanIn, Printing
  <2> QED BY <1>a, <2>1 DEF Printing, Written, AllPrinted
<1>4. CASE SendFut
  <2>1. CASE Fails
    BY <1>4, <1>f, <2>1 DEF SendFut, SeesClosed, AsksStdin, TakesChunk, TakesEnd, Sends, SendFails,
       modeVars, outVars, chanIn
  <2>2. CASE ~Fails
    <3>1. UNCHANGED <<main, code, receiver>>
      BY <1>4, <2>2 DEF SendFut, SeesClosed, AsksStdin, TakesChunk, TakesEnd, Sends, SendFails,
         execVars, recvVars
    <3> QED
      BY <1>4, <1>u, <3>1 DEF SendFut, SeesClosed, AsksStdin, TakesChunk, TakesEnd, Sends, SendFails,
         modeVars, outVars, chanIn
  <2> QED BY <2>1, <2>2
<1>5. CASE Receives
  <2>1. /\ receiver = "wait" /\ receiver' = "write" /\ main' = main /\ main = "forward" /\ peerSent' = peerSent
        /\ printed' = printed /\ Len(inq') = Len(inq) - 1
    BY <1>0, <1>5, AfterTail DEF Receives, Receiving, execVars, outVars
  <2>2. Written = 0 /\ Written' = 1
    BY <2>1 DEF Written
  <2>3. printed' + Len(inq') + Written' = peerSent'
    BY <1>0, <1>a, <2>1, <2>2 DEF Printing
  <2> QED BY <1>0, <2>1, <2>3 DEF Printing
<1>6. CASE EndOfStream
  <2>1. CASE failed
    BY <1>6, <1>f, <2>1 DEF EndOfStream, modeVars, outVars, chanIn
  <2>2. CASE ~failed
    <3>1. /\ receiver = "wait" /\ receiver' = "ended" /\ main' = main /\ main = "forward"
          /\ inq = <<>> /\ inClosed /\ UNCHANGED <<inq, inClosed, printed, peerSent>>
      BY <1>6, <2>2 DEF EndOfStream, Receiving, RecvEnds, outVars, chanIn
    <3>2. printed' = peerSent' /\ Written' = 0 /\ Len(inq') = 0
      BY <1>0, <1>a, <3>1 DEF Printing, Written
    <3> QED BY <1>0, <3>1, <3>2 DEF Printing, AllPrinted
  <2> QED BY <2>1, <2>2
<1>7. CASE HearsStdinClosed
  BY <1>7, <1>u DEF HearsStdinClosed, modeVars, execVars, outVars, chanIn
<1>8. CASE IdleExpires
  <2>1. tty /\ tty' = tty
    BY <1>8 DEF IdleExpires, Timing, modeVars
  <2>2. /\ receiver = "wait" /\ receiver' = "ended" /\ main' = main /\ main = "forward"
        /\ UNCHANGED <<inq, printed, peerSent>>
    BY <1>8 DEF IdleExpires, Receiving, RecvEnds, execVars, outVars, chanIn
  <2>3. printed' + Len(inq') + Written' <= peerSent'
    BY <1>0, <1>a, <2>2 DEF Printing, Written
  <2> QED BY <2>1, <2>2, <2>3 DEF Printing, AllPrinted
<1>9. CASE Writes
  <2>1. /\ main = "forward" /\ receiver = "write" /\ Written = 1
        /\ UNCHANGED <<keep, tty, inq, inClosed, peerSent, downstream>>
    BY <1>9 DEF Writes, Written, modeVars, chanIn
  <2>2. CASE downstream = "open"
    <3>1. receiver' = "wait" /\ printed' = printed + 1 /\ main' = main /\ Written' = 0
      BY <1>9, <2>2 DEF Writes, Written
    <3>2. printed' + Len(inq') + Written' = peerSent'
      BY <1>0, <1>a, <2>1, <3>1 DEF Printing
    <3> QED BY <1>0, <2>1, <3>1, <3>2 DEF Printing
  <2>3. CASE downstream = "gone"
    <3>1. receiver' = "ended" /\ printed' = printed /\ main' = main /\ Written' = 0
      BY <1>9, <2>3 DEF Writes, RecvEnds, Written
    <3>2. printed' + Len(inq') + Written' <= peerSent'
      BY <1>0, <1>a, <2>1, <3>1 DEF Printing
    <3> QED BY <2>1, <2>3, <3>1, <3>2 DEF Printing, AllPrinted
  <2>4. CASE downstream = "full"
    BY <1>9, <1>f, <2>1, <2>4 DEF Writes
  <2> QED BY <2>2, <2>3, <2>4 DEF PipeTypes
<1>10. CASE UpstreamWrites \/ UpstreamEnds \/ ReadReturns \/ ReadEnds
  BY <1>10, <1>u DEF UpstreamWrites, UpstreamEnds, ReadReturns, ReadEnds, toolVars, modeVars, execVars,
     recvVars, outVars, chanIn
<1>11. CASE DownstreamFails
  <2>1. /\ downstream = "open"
        /\ UNCHANGED <<tty, main, code, receiver, inq, inClosed, peerSent, printed>>
    BY <1>11 DEF DownstreamFails, toolVars, modeVars, execVars, recvVars, chanIn
  <2> QED BY <1>a, <2>1 DEF Printing, Written, AllPrinted
<1>12. CASE PeerTakes \/ PeerStops
  BY <1>12, <1>u DEF PeerTakes, PeerStops, envKeeps, toolVars, modeVars, execVars, recvVars, outVars, chanIn
<1>13. CASE PeerSends
  <2>1. /\ ~inClosed /\ peerSent' = peerSent + 1 /\ inq' = Append(inq, peerSent + 1) /\ inClosed' = inClosed
        /\ Connected /\ UNCHANGED <<tty, main, code, receiver, printed, downstream>>
    BY <1>13 DEF PeerSends, envKeeps, toolVars, modeVars, execVars, recvVars, outVars
  <2>2. Len(inq') = Len(inq) + 1 /\ Written' = Written
    BY <1>0, <2>1 DEF Written
  <2>3. printed' + Len(inq') + Written' <= peerSent'
    BY <1>0, <1>a, <2>1, <2>2 DEF Printing
  <2>4. receiver' \in {"wait", "write"} => printed' + Len(inq') + Written' = peerSent'
    BY <1>0, <1>a, <2>1, <2>2 DEF Printing
  <2>5. main' = main /\ main # "exit"
    BY <2>1 DEF Connected
  <2> QED BY <1>a, <2>1, <2>3, <2>4, <2>5 DEF Printing, AllPrinted
<1>14. CASE PeerEnds \/ ChannelFails
  <2>1. /\ (inClosed => inClosed') /\ UNCHANGED <<tty, main, code, receiver, inq, peerSent, printed, downstream>>
    BY <1>14 DEF PeerEnds, ChannelFails, envKeeps, toolVars, modeVars, execVars, recvVars, outVars, chanOut
  <2> QED BY <1>a, <2>1 DEF Printing, Written, AllPrinted
<1> QED
  BY <1>1, <1>2, <1>3, <1>4, <1>5, <1>6, <1>7, <1>8, <1>9, <1>10, <1>11, <1>12, <1>13, <1>14
     DEF Next, Exec, RecvFut, Stdio, Peer

-----------------------------------------------------------------------------
(* The theorems                                                            *)

\* The tool begins with nothing read and nothing written.
LEMMA StdioInit == Init => StdioInv
<1> SUFFICES ASSUME Init PROVE StdioInv
  OBVIOUS
<1> USE StdioAssumption DEF Init
<1>1. ToolTypes /\ Timing
  <2>1. conn \in 0..MaxConns /\ chunk \in 0..MaxChunks /\ pieces \in 0..MaxPieces
    BY DEF Nothing
  <2>2. /\ keep \in BOOLEAN /\ tty \in BOOLEAN /\ stdin_done \in BOOLEAN /\ armed \in BOOLEAN
        /\ permit \in BOOLEAN /\ fdIn \in BOOLEAN /\ fdOut \in BOOLEAN
    OBVIOUS
  <2>3. Timing
    BY DEF Timing
  <2> QED BY <2>1, <2>2, <2>3 DEF ToolTypes
<1>2. PipeTypes
  BY DEF PipeTypes, Nothing
<1>3. ChannelTypes
  <2>1. <<>> \in Seq(0..MaxChunks) /\ <<>> \in Seq(Nat) /\ Len(<<>>) = 0
    OBVIOUS
  <2>2. outClosed \in BOOLEAN /\ inClosed \in BOOLEAN /\ failed \in BOOLEAN
    OBVIOUS
  <2> QED BY <2>1, <2>2 DEF ChannelTypes
<1>4. Feeding
  BY DEF Feeding, Active
<1>5. Cardinality(lost) = 0 /\ Len(reads) = 0 /\ Alone = 0 /\ conn = 0
  BY FS_EmptySet DEF Alone, Active
<1>6. Losses /\ Excused
  BY <1>5 DEF Losses, Excused
<1>7. Written = 0 /\ Len(inq) = 0
  BY DEF Written
<1>8. Printing
  BY <1>7 DEF Printing
<1> QED
  BY <1>1, <1>2, <1>3, <1>4, <1>6, <1>8 DEF StdioInv

\* Every step keeps the invariant.
LEMMA StdioStep == StdioInv /\ [Next]_vars => StdioInv'
<1>1. ASSUME StdioInv, Next PROVE StdioInv'
  BY <1>1, ToolTypesKept, PipeTypesKept, ChannelTypesKept, FeedingKept, LossesKept, ExcusedKept,
     TimingKept, PrintingKept DEF StdioInv
<1>2. ASSUME StdioInv, UNCHANGED vars PROVE StdioInv'
  <2>1. UNCHANGED <<modeVars, execVars, sendVars, recvVars, permit, fds, stdVars, readVars, outVars,
                    chanOut, chanIn, failed, hist>>
    BY <1>2 DEF vars
  <2>2. /\ ToolTypes' /\ PipeTypes' /\ ChannelTypes'
    BY <1>2, <2>1 DEF StdioInv, ToolTypes, PipeTypes, ChannelTypes, modeVars, execVars, sendVars,
       recvVars, fds, stdVars, readVars, outVars, chanOut, chanIn, hist
  <2>3. Feeding' /\ Losses'
    BY <1>2, <2>1 DEF StdioInv, Feeding, Losses, Alone, Active, Waiting, execVars, sendVars, readVars, hist
  <2>4. Excused' /\ Timing'
    BY <1>2, <2>1 DEF StdioInv, Excused, Timing, Waiting, modeVars, execVars, sendVars, recvVars, readVars,
       outVars, chanOut, hist
  <2>5. Printing'
    BY <1>2, <2>1 DEF StdioInv, Printing, Written, AllPrinted, modeVars, execVars, recvVars, outVars, chanIn
  <2> QED BY <2>2, <2>3, <2>4, <2>5 DEF StdioInv
<1> QED
  BY <1>1, <1>2

\* The invariant holds throughout.
THEOREM StdioInvariant == Spec => []StdioInv
  BY StdioInit, StdioStep, PTL DEF Spec

\* Every variable of the tool keeps its range: reads of stdin that are left
\* behind never outnumber the connections, and nothing is written to stdout
\* that the peer has not sent.
THEOREM StdioTypes == Spec => []TypeOK
<1>1. ASSUME StdioInv PROVE TypeOK
  <2>1. /\ Cardinality(lost) \in Nat /\ Len(reads) \in Nat /\ Alone \in {0, 1}
        /\ Len(inq) \in Nat /\ Written \in {0, 1}
    BY <1>1, LostFinite DEF StdioInv, PipeTypes, ChannelTypes, Alone, Written
  <2>2. Len(reads) <= MaxConns
    BY <1>1, <2>1, StdioAssumption DEF StdioInv, Losses, ToolTypes
  <2>3. printed \in 0..MaxPeer
    BY <1>1, <2>1, StdioAssumption DEF StdioInv, Printing, PipeTypes, ChannelTypes
  <2>4. {keep, tty, permit, stdin_done, armed, fdIn, fdOut, outClosed, inClosed, failed} \subseteq BOOLEAN
    BY <1>1 DEF StdioInv, ToolTypes, ChannelTypes
  <2> QED
    BY <1>1, <2>2, <2>3, <2>4 DEF TypeOK, StdioInv, ToolTypes, PipeTypes, ChannelTypes
<1> QED
  BY <1>1, StdioInvariant, PTL

\* A connection costs at most one chunk of the input, and the first one none
\* while the peer receives: send_fut and a read that it left behind never both
\* hold one.
THEOREM StdioChunks == Spec => []AtMostOneChunkLost
<1>1. ASSUME StdioInv PROVE AtMostOneChunkLost
  <2>1. Cardinality(lost) \in Nat /\ Len(reads) \in Nat /\ Alone \in {0, 1} /\ conn \in Nat
    BY <1>1, LostFinite, StdioAssumption DEF StdioInv, PipeTypes, ToolTypes, Alone
  <2>2. Cardinality(lost) <= conn
    BY <1>1, <2>1 DEF StdioInv, Losses
  <2> QED
    BY <1>1, <2>2 DEF AtMostOneChunkLost, StdioInv, Excused
<1> QED
  BY <1>1, StdioInvariant, PTL

\* A successful exit without a terminal comes after the last packet of the peer
\* was written: recv_fut does not end before.
THEOREM StdioOutput == Spec => []OutputIsComplete
<1>1. ASSUME StdioInv PROVE OutputIsComplete
  BY <1>1 DEF StdioInv, Printing, AllPrinted, OutputIsComplete
<1> QED
  BY <1>1, StdioInvariant, PTL
=============================================================================
