------------------------------- MODULE UpcCaps -------------------------------
(***************************************************************************)
(* The capabilities that host and device exchange before OPEN: their       *)
(* tag-length-value encoding (src/lib.rs) and the interval at which the    *)
(* host polls the status (src/host/native.rs, src/host/web.rs).            *)
(*                                                                         *)
(* Bytes have Base values instead of 256, so that a u32 and a u64 stay     *)
(* within the integers of TLC; their widths of 4 and 8 bytes are kept.     *)
(* Durations are counted in units of which a millisecond has PerMilli.     *)
(***************************************************************************)
EXTENDS Integers, Sequences

CONSTANTS
    Base,       \* values of a byte, 256 in the code
    PerMilli,   \* units of time in a millisecond
    ResponseLen \* SIZE, the bytes of the response the host asks for

ASSUME CapsAssumption ==
    /\ Base \in Nat /\ Base > 4 /\ PerMilli \in Nat \ {0} /\ ResponseLen \in Nat

None == -1      \* Option::None of a duration
DefaultMaxSize == Base * Base

TagPingTimeout == 1
TagStatusSupported == 2
TagMaxPacketSize == 3
TagEchoSupported == 4

-----------------------------------------------------------------------------
(* Numbers and entries                                                     *)

\* to_le_bytes and from_le_bytes of a number of w bytes
Quotients(n, w) ==
    LET q[i \in 0..w] == IF i = 0 THEN n ELSE q[i - 1] \div Base IN q
Bytes(n, w) == [i \in 1..w |-> Quotients(n, w)[i - 1] % Base]

\* The numbers that the last bytes make
Values(bytes) ==
    LET v[k \in 0..Len(bytes)] ==
            IF k = 0 THEN 0 ELSE bytes[Len(bytes) - k + 1] + Base * v[k - 1]
    IN v
Number(bytes) == Values(bytes)[Len(bytes)]

Largest == Base * Base * Base * Base - 1              \* u32::MAX
LargestSize == (Largest + 1) * (Largest + 1) - 1      \* u64::MAX

Entry(tag, value) == [tag |-> tag, value |-> value]

\* tlv::encode, which cuts the length to 16 bits, and the buffer after each entry
EncodeEntry(e) == <<e.tag>> \o Bytes(Len(e.value) % (Base * Base), 2) \o e.value
Buffers(entries) ==
    LET buf[k \in 0..Len(entries)] ==
            IF k = 0 THEN <<>> ELSE buf[k - 1] \o EncodeEntry(entries[k])
    IN buf
EncodeAll(entries) == Buffers(entries)[Len(entries)]

\* tlv::decode: the entries from position p on, and whether they are whole.
LengthAt(data, p) == Number(SubSeq(data, p + 2, p + 3))
Truncated(data, p) == p + 3 > Len(data) \/ p + 3 + LengthAt(data, p) > Len(data)
Decoded(data) ==
    LET from[p \in 0..Len(data)] ==
            IF p = Len(data) THEN [ok |-> TRUE, entries |-> <<>>]
            ELSE IF Truncated(data, p) THEN [ok |-> FALSE, entries |-> <<>>]
            ELSE LET next == p + 3 + LengthAt(data, p)
                     e    == Entry(data[p + 1], SubSeq(data, p + 4, next))
                 IN [ok |-> from[next].ok, entries |-> <<e>> \o from[next].entries]
    IN from
DecodeAll(data) == Decoded(data)[0]

-----------------------------------------------------------------------------
(* DeviceCapabilities                                                      *)

DeviceDefault ==
    [ping_timeout |-> None, status_supported |-> FALSE, echo_supported |-> FALSE,
     max_size |-> DefaultMaxSize]

Bit(b) == IF b THEN <<1>> ELSE <<0>>

\* as_millis() rounds down; what does not fit a u32 becomes the largest one;
\* None is told as 0.
Millis_NoLimit(d) == IF d = None THEN 0 ELSE d \div PerMilli
Millis(d) ==
    IF d = None THEN 0
    ELSE IF d \div PerMilli > Largest THEN Largest ELSE d \div PerMilli

DeviceEntries(dev) ==
    << Entry(TagPingTimeout, Bytes(Millis(dev.ping_timeout), 4)),
       Entry(TagStatusSupported, Bit(dev.status_supported)),
       Entry(TagMaxPacketSize, Bytes(dev.max_size, 8)),
       Entry(TagEchoSupported, Bit(dev.echo_supported)) >>
\* A later version may put newer entries behind them.
EncodeDevice(dev, newer) == EncodeAll(DeviceEntries(dev) \o newer)

\* Entries that are unknown or too short are skipped; of a longer value the
\* bytes known today are read.
ApplyDevice(dev, e) ==
    CASE e.tag = TagPingTimeout /\ Len(e.value) >= 4 ->
           LET ms == Number(SubSeq(e.value, 1, 4))
           IN [dev EXCEPT !.ping_timeout = IF ms = 0 THEN None ELSE ms * PerMilli]
      [] e.tag = TagStatusSupported /\ e.value # <<>> ->
           [dev EXCEPT !.status_supported = e.value[1] # 0]
      [] e.tag = TagMaxPacketSize /\ Len(e.value) >= 8 ->
           [dev EXCEPT !.max_size = Number(SubSeq(e.value, 1, 8))]
      [] e.tag = TagEchoSupported /\ e.value # <<>> ->
           [dev EXCEPT !.echo_supported = e.value[1] # 0]
      [] OTHER -> dev

\* The capabilities after each entry
AppliedDevice(entries) ==
    LET dev[k \in 0..Len(entries)] ==
            IF k = 0 THEN DeviceDefault ELSE ApplyDevice(dev[k - 1], entries[k])
    IN dev

\* What a whole response says of the device: durations in whole milliseconds
Told(dev) == [dev EXCEPT !.ping_timeout = IF Millis(@) = 0 THEN None ELSE Millis(@) * PerMilli]

\* Truncated data refuses the connection.
Refusal == [DeviceDefault EXCEPT !.max_size = -1]
DecodeDevice(data) ==
    LET d == DecodeAll(data)
    IN IF d.ok THEN AppliedDevice(d.entries)[Len(d.entries)] ELSE Refusal

-----------------------------------------------------------------------------
(* HostCapabilities                                                        *)

HostEntries(size) == <<Entry(TagMaxPacketSize, Bytes(size, 8))>>
EncodeHost(size) == EncodeAll(HostEntries(size))

ApplyHost(size, e) ==
    IF e.tag = TagMaxPacketSize /\ Len(e.value) >= 8
    THEN Number(SubSeq(e.value, 1, 8)) ELSE size
AppliedHost(entries) ==
    LET size[k \in 0..Len(entries)] ==
            IF k = 0 THEN DefaultMaxSize ELSE ApplyHost(size[k - 1], entries[k])
    IN size

\* The device disregards truncated data.
Disregarded == -1
DecodeHost(data) ==
    LET d == DecodeAll(data)
    IN IF d.ok THEN AppliedHost(d.entries)[Len(d.entries)] ELSE Disregarded

-----------------------------------------------------------------------------
(* The status interval of a connection                                     *)

Lesser(a, b) == IF a <= b THEN a ELSE b

StatusInterval_Longest(dev, ping_interval) ==
    IF ~dev.status_supported THEN None
    ELSE IF ping_interval # None THEN ping_interval
    ELSE IF dev.ping_timeout # None THEN dev.ping_timeout \div 2
    ELSE None
StatusInterval(dev, ping_interval) ==
    IF ~dev.status_supported THEN None
    ELSE IF ping_interval # None /\ dev.ping_timeout # None
         THEN Lesser(ping_interval, dev.ping_timeout \div 2)
    ELSE IF dev.ping_timeout # None THEN dev.ping_timeout \div 2
    ELSE ping_interval
===============================================================================
