--------------------------- MODULE MCTransmission ---------------------------
(***************************************************************************)
(* Transmission for TLC: Strings of every length up to MaxLength, without a *)
(* zero byte and with one at a place of ZeroAt; a short count of packets,   *)
(* so that it wraps.                                                        *)
(***************************************************************************)
EXTENDS Transmission

CONSTANTS
    MaxLength,    \* bound: bytes in a String
    ZeroAt        \* bound: where its zero byte may be

MCStrings ==
    {[i \in 1 .. n |-> IF i = z THEN 0 ELSE i] : n \in 0 .. MaxLength, z \in ZeroAt \cup {0}}

\* channel.c:508, "Send the given data as one or more burst packets": what a send
\* that returns true gives to libant begins with the data.
DataIsSent ==
    result = "true" =>
        Len(data) <= Packet * count /\ \A i \in 1 .. Len(data) : copy[i] = data[i]

=============================================================================
