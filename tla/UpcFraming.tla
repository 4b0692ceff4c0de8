------------------------------ MODULE UpcFraming ------------------------------
(***************************************************************************)
(* Short-packet framing: how the senders of both sides cut an application  *)
(* packet into USB packets, how a bulk endpoint puts USB packets into      *)
(* transfer buffers, and how recv() puts transfers together again.         *)
(*                                                                         *)
(* A piece of data is the number of the application packet it is of, the   *)
(* byte of that packet it begins with and its length.  Data that was put   *)
(* together from pieces that do not follow one another is Mixed.           *)
(***************************************************************************)
EXTENDS Integers, Sequences, FiniteSets

CONSTANTS
    Mps,              \* maximum packet size of the bulk endpoints
    TransferPackets,  \* TRANSFER_PACKETS
    MaxSize           \* max_size of the receiver

ASSUME FramingAssumption ==
    Mps \in Nat \ {0} /\ TransferPackets \in Nat \ {0} /\ MaxSize \in Nat

Mts == Mps * TransferPackets   \* max_transfer_size

Nothing == 0
Mixed == -1
Data(i, o, n) == [of |-> i, from |-> o, len |-> n]
Empty == Data(Nothing, 0, 0)

\* Piece b continues piece a.
Adjacent(a, b) == a.of = b.of /\ a.from + a.len = b.from

Join(a, b) ==
    IF a.of = Nothing THEN b
    ELSE IF Adjacent(a, b) THEN Data(a.of, a.from, a.len + b.len)
    ELSE Data(Mixed, 0, a.len + b.len)

(***************************************************************************)
(* USB packets.  "ends" marks the last one of a transfer of the sender.    *)
(***************************************************************************)

UsbCount(n) == IF n = 0 THEN 1 ELSE (n + Mps - 1) \div Mps

UsbPacket(p, k) ==
    [of   |-> p.of,
     from |-> (k - 1) * Mps,
     len  |-> IF k * Mps <= p.len THEN Mps ELSE p.len % Mps,
     ends |-> k = UsbCount(p.len)]

\* The zero-length transfer that ends packet p
Terminator(p) == [of |-> p.of, from |-> p.len, len |-> 0, ends |-> TRUE]

\* One bulk transfer with all of packet p
UsbPackets(p) == [k \in 1..UsbCount(p.len) |-> UsbPacket(p, k)]

\* out_task of both hosts: one transfer, and a terminator when the length is
\* a positive multiple of the packet size.
HostTransfers_NoTerminator(p) == UsbPackets(p)
HostTransfers(p) ==
    IF p.len > 0 /\ p.len % Mps = 0
    THEN Append(UsbPackets(p), Terminator(p)) ELSE UsbPackets(p)

\* out_task of the device: parts of max_transfer_size ...
DeviceParts(p) ==
    IF p.len = 0 THEN <<>>
    ELSE [k \in 1..UsbCount(p.len) |->
            [UsbPacket(p, k) EXCEPT !.ends = @ \/ k % TransferPackets = 0]]

\* ... and a terminator when the length is any multiple of the packet size.
DeviceTransfers(p) ==
    IF p.len % Mps = 0 THEN Append(DeviceParts(p), Terminator(p))
    ELSE DeviceParts(p)

(***************************************************************************)
(* Transfer buffers of max_transfer_size bytes.                            *)
(***************************************************************************)

Filled(b, u) == Join(b, Data(u.of, u.from, u.len))

\* A buffer completes with a short packet or when it is full.
Completes(b, u) == u.len < Mps \/ b.len + u.len = Mts

\* Transfers in progress among the USB packets q
Transfers(q) == Cardinality({k \in 1..Len(q) : q[k].ends})

(***************************************************************************)
(* Reassembly.                                                             *)
(***************************************************************************)

\* A transfer of less than max_transfer_size is the last of its packet.
IsShort(t) == t.len < Mts

TooBig(b) == b.len > MaxSize
=============================================================================
