------------------------- MODULE TransmissionProofs -------------------------
(***************************************************************************)
(* Theorems of Transmission, for Strings of any length and any width of the *)
(* count of packets.                                                        *)
(***************************************************************************)
EXTENDS Transmission, TLAPS

-----------------------------------------------------------------------------
\* Arithmetic

\* A number modulo another is no larger than it was.
LEMMA ModSmaller ==
    ASSUME NEW x \in Nat, NEW n \in Nat \ {0}
    PROVE  x % n \in 0 .. n - 1 /\ x % n <= x /\ (x < n => x % n = x)
OBVIOUS

\* The padding fills the last packet.
LEMMA PaddingFills ==
    ASSUME NEW len \in Nat
    PROVE  /\ Padding(len) \in 0 .. 7
           /\ len + Padding(len) = Packet * (len \div Packet) + (IF len % Packet = 0 THEN 0 ELSE Packet)
           /\ len \div Packet \in Nat
BY DEF Padding, Packet

\* The packets that are counted are in the padded copy, and when the count does
\* not wrap they hold all of it.
LEMMA PacketsCover ==
    ASSUME NEW len \in Nat
    PROVE  /\ Packets(len) \in 0 .. CountSpan - 1
           /\ Packet * Packets(len) <= len + Padding(len)
           /\ len <= Packet * (CountSpan - 1) => len <= Packet * Packets(len)
<1> DEFINE q == len \div Packet
           more == IF len % Packet = 0 THEN 0 ELSE 1
           whole == q % CountSpan
<1>1. q \in Nat /\ len = Packet * q + (len % Packet) /\ len % Packet \in 0 .. 7
  BY DEF Packet
<1>2. len + Padding(len) = Packet * (q + more)
  BY PaddingFills, <1>1 DEF Packet
<1>3. whole \in 0 .. CountSpan - 1 /\ whole <= q /\ (q < CountSpan => whole = q)
  BY <1>1, ModSmaller, TransmissionAssumption
<1> HIDE DEF q, whole
<1>4. /\ (whole + 1) % CountSpan \in 0 .. CountSpan - 1
      /\ (whole + 1) % CountSpan <= whole + 1
      /\ whole + 1 < CountSpan => (whole + 1) % CountSpan = whole + 1
  <2>1. whole + 1 \in Nat /\ CountSpan \in Nat \ {0}
    BY <1>3, TransmissionAssumption
  <2> QED
    BY <2>1, ModSmaller
<1>5. Packets(len) = IF more = 0 THEN whole ELSE (whole + 1) % CountSpan
  BY DEF Packets, q, whole
<1>6. Packets(len) \in 0 .. CountSpan - 1 /\ Packets(len) <= q + more
  BY <1>1, <1>3, <1>4, <1>5
<1>7. ASSUME len <= Packet * (CountSpan - 1)
      PROVE  Packets(len) = q + more
  BY <1>1, <1>3, <1>4, <1>5, <1>7, TransmissionAssumption DEF Packet
<1>8. len <= Packet * (q + more)
  BY <1>1 DEF Packet
<1> QED
  BY <1>1, <1>2, <1>6, <1>7, <1>8 DEF Packet

-----------------------------------------------------------------------------
\* The copies

\* strncpy writes each of its n bytes, from the String or with a zero.
LEMMA StrncpyWrites ==
    ASSUME NEW d \in Seq(Byte), NEW n \in Nat
    PROVE  /\ Strncpy(d, n) \in Seq(Byte) /\ Len(Strncpy(d, n)) = n
           /\ \A i \in 1 .. n : Strncpy(d, n)[i] = 0 \/ (i <= Len(d) /\ Strncpy(d, n)[i] = d[i])
           /\ (\A j \in 1 .. Len(d) : d[j] # 0)
                => \A i \in 1 .. n : i <= Len(d) => Strncpy(d, n)[i] = d[i]
<1>1. \A i \in 1 .. n : i <= Len(d) => d[i] \in Byte
  OBVIOUS
<1>2. Strncpy(d, n) \in [1 .. n -> Byte]
  BY <1>1 DEF Strncpy, Byte
<1>3. Strncpy(d, n) \in Seq(Byte) /\ Len(Strncpy(d, n)) = n
  BY <1>2
<1>4. \A i \in 1 .. n : Strncpy(d, n)[i] = 0 \/ (i <= Len(d) /\ Strncpy(d, n)[i] = d[i])
  BY DEF Strncpy
<1>5. ASSUME \A j \in 1 .. Len(d) : d[j] # 0, NEW i \in 1 .. n, i <= Len(d)
      PROVE  Strncpy(d, n)[i] = d[i]
  <2>1. Len(d) \in Nat
    OBVIOUS
  <2>2. \A j \in 1 .. i : d[j] # 0
    BY <1>5, <2>1
  <2> QED
    BY <1>5, <2>2 DEF Strncpy
<1> QED
  BY <1>3, <1>4, <1>5

\* The padded copy is the copy with zeros behind it.
LEMMA PaddedWrites ==
    ASSUME NEW d \in Seq(Byte)
    PROVE  /\ Padded(d) \in Seq(Byte) /\ Len(Padded(d)) = Len(d) + Padding(Len(d))
           /\ \A i \in 1 .. Len(Padded(d)) : Padded(d)[i] = 0 \/ (i <= Len(d) /\ Padded(d)[i] = d[i])
           /\ (\A j \in 1 .. Len(d) : d[j] # 0)
                => \A i \in 1 .. Len(d) : Padded(d)[i] = d[i]
<1> DEFINE c == Strncpy(d, Len(d))
           z == [i \in 1 .. Padding(Len(d)) |-> 0]
<1>0. Len(d) \in Nat
  OBVIOUS
<1>1. Len(d) \in Nat /\ Padding(Len(d)) \in Nat
  <2>1. Padding(Len(d)) \in 0 .. 7
    BY <1>0, PaddingFills
  <2> QED
    BY <1>0, <2>1
<1>2. /\ c \in Seq(Byte) /\ Len(c) = Len(d)
      /\ \A i \in 1 .. Len(d) : c[i] = 0 \/ c[i] = d[i]
      /\ (\A j \in 1 .. Len(d) : d[j] # 0) => \A i \in 1 .. Len(d) : c[i] = d[i]
  <2>1. /\ Strncpy(d, Len(d)) \in Seq(Byte) /\ Len(Strncpy(d, Len(d))) = Len(d)
        /\ \A i \in 1 .. Len(d) : \/ Strncpy(d, Len(d))[i] = 0
                                 \/ Strncpy(d, Len(d))[i] = d[i]
        /\ (\A j \in 1 .. Len(d) : d[j] # 0)
             => \A i \in 1 .. Len(d) : i <= Len(d) => Strncpy(d, Len(d))[i] = d[i]
    BY <1>1, StrncpyWrites
  <2>2. \A i \in 1 .. Len(d) : i <= Len(d)
    BY <1>1
  <2> QED
    BY <2>1, <2>2
<1>3. z \in Seq(Byte) /\ Len(z) = Padding(Len(d)) /\ \A i \in 1 .. Len(z) : z[i] = 0
  BY <1>1 DEF Byte
<1>4. Padded(d) = c \o z
  BY DEF Padded
<1> HIDE DEF c, z
<1>5. /\ c \o z \in Seq(Byte) /\ Len(c \o z) = Len(c) + Len(z)
      /\ \A i \in 1 .. Len(c) + Len(z) :
            (c \o z)[i] = IF i <= Len(c) THEN c[i] ELSE z[i - Len(c)]
  BY <1>2, <1>3
<1>6. \A i \in 1 .. Len(c) + Len(z) : i > Len(c) => (c \o z)[i] = 0
  BY <1>1, <1>2, <1>3, <1>5
<1>7. Len(c \o z) = Len(d) + Padding(Len(d))
  BY <1>2, <1>3, <1>5
<1>8. \A i \in 1 .. Len(c \o z) : (c \o z)[i] = 0 \/ (i <= Len(d) /\ (c \o z)[i] = d[i])
  BY <1>1, <1>2, <1>3, <1>5, <1>6
<1>9. (\A j \in 1 .. Len(d) : d[j] # 0) => \A i \in 1 .. Len(d) : (c \o z)[i] = d[i]
  BY <1>1, <1>2, <1>3, <1>5
<1> QED
  BY <1>4, <1>5, <1>7, <1>8, <1>9

-----------------------------------------------------------------------------
\* The steps: each call leaves what Sent says, whatever was there before

Sent == TypeOK /\ ReadsInside /\ NothingStale /\ TextIsSent

LEMMA SentAtFirst == Init => Sent
BY TransmissionAssumption DEF Init, Sent, TypeOK, ReadsInside, NothingStale, TextIsSent,
                              Packet, Byte

\* A burst.
LEMMA CopiesSent ==
    ASSUME NEW d \in Strings, Copies(d), result' \in {"true", "raised"}
    PROVE  Sent'
<1>1. d \in Seq(Byte) /\ Len(d) \in Nat /\ CountSpan \in Nat \ {0}
  BY TransmissionAssumption
<1>2. data' = d /\ copy' = Padded(d) /\ count' = Packets(Len(d))
  BY DEF Copies
<1>3. /\ Packets(Len(d)) \in 0 .. CountSpan - 1
      /\ Packet * Packets(Len(d)) <= Len(Padded(d))
      /\ Len(d) <= Packet * (CountSpan - 1) => Len(d) <= Packet * Packets(Len(d))
  BY <1>1, PacketsCover, PaddedWrites
<1>4. TypeOK'
  BY <1>1, <1>2, <1>3, PaddedWrites DEF TypeOK
<1>5. ReadsInside'
  BY <1>2, <1>3 DEF ReadsInside
<1>6. NothingStale'
  BY <1>1, <1>2, <1>3, PaddedWrites DEF NothingStale, Packet
<1>7. TextIsSent'
  BY <1>1, <1>2, <1>3, PaddedWrites DEF TextIsSent
<1> QED
  BY <1>4, <1>5, <1>6, <1>7 DEF Sent

\* A message of its own.
LEMMA SingleSent ==
    ASSUME NEW d \in Strings, SendSingle(d)
    PROVE  Sent'
<1>1. d \in Seq(Byte) /\ CountSpan \in Nat \ {0}
  BY TransmissionAssumption
<1>2. Len(d) \in Nat /\ Len(d) <= 8
  <2>1. Len(d) \in Nat
    BY <1>1
  <2>2. Len(d) <= 8
    BY DEF SendSingle, Packet
  <2> QED
    BY <2>1, <2>2
<1>3. /\ Strncpy(d, 8) \in Seq(Byte) /\ Len(Strncpy(d, 8)) = 8
      /\ \A i \in 1 .. 8 :
            Strncpy(d, 8)[i] = 0 \/ (i <= Len(d) /\ Strncpy(d, 8)[i] = d[i])
      /\ (\A j \in 1 .. Len(d) : d[j] # 0)
           => \A i \in 1 .. 8 : i <= Len(d) => Strncpy(d, 8)[i] = d[i]
  BY <1>1, StrncpyWrites
<1>4. data' = d /\ copy' = Strncpy(d, 8) /\ count' = 1 /\ result' = "true"
  BY DEF SendSingle, Packet
<1>5. TypeOK' /\ ReadsInside'
  BY <1>1, <1>3, <1>4 DEF TypeOK, ReadsInside, Packet
<1>6. NothingStale'
  BY <1>2, <1>3, <1>4 DEF NothingStale, Packet
<1>7. TextIsSent'
  <2>1. ASSUME \A j \in 1 .. Len(d) : d[j] # 0
        PROVE  \A i \in 1 .. Len(d) : Strncpy(d, 8)[i] = d[i]
    BY <1>2, <1>3, <2>1
  <2> QED
    BY <1>2, <1>4, <2>1 DEF TextIsSent, Packet
<1> QED
  BY <1>5, <1>6, <1>7 DEF Sent

LEMMA SentNext == Sent /\ [Next]_vars => Sent'
<1> SUFFICES ASSUME Sent, [Next]_vars PROVE Sent'
  OBVIOUS
<1>1. ASSUME NEW d \in Strings, SendBurst(d) \/ SendAdvanced(d) PROVE Sent'
  BY <1>1, CopiesSent DEF SendBurst, SendAdvanced
<1>2. ASSUME NEW d \in Strings, SendSingle(d) PROVE Sent'
  BY <1>2, SingleSent
<1>3. ASSUME NEW d \in Strings, SendSingleTooLong(d) PROVE Sent'
  BY <1>3, TransmissionAssumption
     DEF SendSingleTooLong, Sent, TypeOK, ReadsInside, NothingStale, TextIsSent, Packet
<1>4. CASE UNCHANGED vars
  BY <1>4 DEF vars, Sent, TypeOK, ReadsInside, NothingStale, TextIsSent
<1> QED
  BY <1>1, <1>2, <1>3, <1>4 DEF Next

LEMMA SentAlways == Spec => []Sent
BY SentAtFirst, SentNext, PTL DEF Spec

-----------------------------------------------------------------------------
\* The types hold, for Strings of any length.
THEOREM TypeCorrect == Spec => []TypeOK
<1>1. Sent => TypeOK
  BY DEF Sent
<1> QED
  BY <1>1, SentAlways, PTL

\* libant reads no byte behind the copy, whatever the length and however the
\* count of packets wraps.
THEOREM InsideTheCopy == Spec => []ReadsInside
<1>1. Sent => ReadsInside
  BY DEF Sent
<1> QED
  BY <1>1, SentAlways, PTL

\* What is sent is bytes of the String at their places, and zeros.
THEOREM OnlyTheData == Spec => []NothingStale
<1>1. Sent => NothingStale
  BY DEF Sent
<1> QED
  BY <1>1, SentAlways, PTL

\* Text whose packets can be counted is sent whole.
THEOREM TextWhole == Spec => []TextIsSent
<1>1. Sent => TextIsSent
  BY DEF Sent
<1> QED
  BY <1>1, SentAlways, PTL

=============================================================================
