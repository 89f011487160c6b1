---------------------------- MODULE Transmission ----------------------------
(***************************************************************************)
(* What the send_ methods of an Ant::Channel give to libant of the String   *)
(* they are given: ext/ant_ext/channel.c, from rant_channel_send_burst_     *)
(* transfer on. The bursts copy it to the C heap, pad the copy to whole     *)
(* packets and pass it with their number; the single messages copy it to    *)
(* the eight bytes of an array.                                             *)
(***************************************************************************)
EXTENDS Integers, Sequences

CONSTANTS
    Strings,    \* what the program sends: sequences of bytes
    CountSpan   \* the number of values of an unsigned short: 2^16 in the code

Byte == 0 .. 255
Packet == 8

ASSUME TransmissionAssumption ==
    /\ Strings \subseteq Seq(Byte)
    /\ CountSpan \in Nat \ {0}

VARIABLES
    data,       \* the String of the last call
    copy,       \* data_s or aucTempBuffer, from its first byte to the end of its allocation
    count,      \* how many packets libant is told to send from the start of it
    result      \* what the call came to: "none", "true" or "raised"

vars == <<data, copy, count, result>>

-----------------------------------------------------------------------------

\* (Operators whose comment begins with "Slip:" are a definition below them with a
\* bug that a change could bring in; no specification uses them.)

\* Slip: strcpy in place of strncpy; the heap is as some earlier user left it.
StoppedAtZero(d, n) ==
    [i \in 1 .. n |-> IF i > Len(d) \/ \E j \in 1 .. i - 1 : j <= Len(d) /\ d[j] = 0
                      THEN 255 ELSE d[i]]

\* strncpy of d to the first n bytes: it stops at a zero and fills up with zeros.
Strncpy(d, n) ==
    [i \in 1 .. n |-> IF i <= Len(d) /\ \A j \in 1 .. i : d[j] # 0 THEN d[i] ELSE 0]

\* pad_bytes: the copy is grown to whole packets, of zeros.
Padding(len) == IF len % Packet = 0 THEN 0 ELSE Packet - (len % Packet)

\* Slip: the copy is not grown.
Unpadded(d) == Strncpy(d, Len(d))

Padded(d) == Strncpy(d, Len(d)) \o [i \in 1 .. Padding(Len(d)) |-> 0]

\* Slip: what does not fill a packet is not counted.
WholePackets(len) == (len \div Packet) % CountSpan

\* Slip: the count is as wide as the length.
WidePackets(len) == (len + Packet - 1) \div Packet

\* usNumDataPackets, an unsigned short: divided, then incremented.
Packets(len) ==
    LET whole == (len \div Packet) % CountSpan IN
    IF len % Packet = 0 THEN whole ELSE (whole + 1) % CountSpan

-----------------------------------------------------------------------------

Copies(d) ==
    /\ data' = d
    /\ copy' = Padded(d)
    /\ count' = Packets(Len(d))

\* send_burst_transfer raises if libant refuses the data or the transfer fails.
SendBurst(d) == Copies(d) /\ result' \in {"true", "raised"}

\* send_advanced_transfer logs that, and returns true.
SendAdvanced(d) == Copies(d) /\ result' = "true"

\* send_acknowledged_data and send_broadcast_data ignore what libant returns.
SendSingle(d) ==
    /\ Len(d) <= Packet
    /\ data' = d
    /\ copy' = Strncpy(d, Packet)
    /\ count' = 1
    /\ result' = "true"

SendSingleTooLong(d) ==
    /\ Len(d) > Packet
    /\ data' = d
    /\ copy' = <<>>
    /\ count' = 0
    /\ result' = "raised"

Init == data = <<>> /\ copy = <<>> /\ count = 0 /\ result = "none"

Next ==
    \E d \in Strings : SendBurst(d) \/ SendAdvanced(d) \/ SendSingle(d) \/ SendSingleTooLong(d)

Spec == Init /\ [][Next]_vars

-----------------------------------------------------------------------------
\* Properties

TypeOK ==
    /\ data \in Seq(Byte)
    /\ copy \in Seq(Byte)
    /\ count \in 0 .. CountSpan
    /\ result \in {"none", "true", "raised"}

\* libant is never told of a packet that is not wholly in the memory that was
\* allocated for it, for any length, and also when the count of packets wraps.
ReadsInside == Packet * count <= Len(copy)

\* Every byte that is sent is the byte of the String at its place, or zero:
\* nothing that was in the memory before is sent after the end of short or
\* binary data.
NothingStale ==
    \A i \in 1 .. Packet * count :
        copy[i] = 0 \/ (i <= Len(data) /\ copy[i] = data[i])

\* A String without a zero byte is sent whole, whatever rest is left over eight,
\* by a call that returns true, as long as its packets can be counted.
TextIsSent ==
    result = "true" /\ (\A j \in 1 .. Len(data) : data[j] # 0)
        /\ Len(data) <= Packet * (CountSpan - 1)
    => /\ Len(data) <= Packet * count
       /\ \A i \in 1 .. Len(data) : copy[i] = data[i]

=============================================================================
