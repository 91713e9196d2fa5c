--------------------------- MODULE PacketPathProofs ---------------------------
(***************************************************************************)
(* For every packet and every length: what recv_buf accepts is what was    *)
(* sent, whichever byte was flipped, and it rejects nothing else.  The     *)
(* buffers and sums implement a Datagram.                                  *)
(***************************************************************************)
EXTENDS PacketPath, TLAPS

-----------------------------------------------------------------------------
(* Arithmetic of in_cksum.                                                 *)

\* What a byte holds.
LEMMA ByteRange == \A b : b \in Byte <=> b \in Nat /\ b <= 255
BY DEF Byte

\* The halves of the accumulator.
High(s) == s \div 65536
Low(s)  == s % 65536

\* The accumulator is never negative, so that the upper half has 15 bits.
LEMMA Halves ==
    ASSUME NEW s \in Nat, s <= 2147483647
    PROVE  /\ High(s) \in Nat /\ High(s) <= 32767
           /\ Low(s) \in Nat /\ Low(s) <= 65535
           /\ s = 65536 * High(s) + Low(s)
BY DEF High, Low

\* The value in_cksum returns: the two halves are added, and a carry once more.
LEMMA AnswerHalves ==
    ASSUME NEW s \in Nat, s <= 2147483647
    PROVE  Answer(s) = IF High(s) + Low(s) < 65536 THEN 65535 - (High(s) + Low(s))
                                                   ELSE 131070 - (High(s) + Low(s))
<1> DEFINE f == High(s) + Low(s)
<1>1. f \in Nat /\ f <= 98302
  <2>1. /\ High(s) \in Nat /\ High(s) <= 32767
        /\ Low(s) \in Nat /\ Low(s) <= 65535
      /\ s = 65536 * High(s) + Low(s)
    BY Halves
  <2> QED BY <2>1
<1>2. Answer(s) = 65535 - ((f + (f \div 65536)) % 65536)
  BY DEF Answer, High, Low
<1> HIDE DEF f
<1>3. CASE f < 65536
  <2>1. f \div 65536 = 0 /\ f % 65536 = f
    BY <1>1, <1>3
  <2> QED BY <1>1, <1>2, <1>3, <2>1 DEF f
<1>4. CASE f >= 65536
  <2>1. f \div 65536 = 1 /\ (f + 1) % 65536 = f + 1 - 65536
    BY <1>1, <1>4
  <2> QED BY <1>1, <1>2, <1>4, <2>1 DEF f
<1> QED BY <1>1, <1>3, <1>4

\* The result fits the two bytes of the header.
LEMMA AnswerType ==
    ASSUME NEW s \in Nat, s <= 2147483647
    PROVE  Answer(s) \in Nat /\ Answer(s) <= 65535
<1>1. /\ High(s) \in Nat /\ High(s) <= 32767
      /\ Low(s) \in Nat /\ Low(s) <= 65535
      /\ s = 65536 * High(s) + Low(s)
  BY Halves
<1>2. Answer(s) = IF High(s) + Low(s) < 65536 THEN 65535 - (High(s) + Low(s))
                                            ELSE 131070 - (High(s) + Low(s))
  BY AnswerHalves
<1> QED BY <1>1, <1>2

\* in_cksum over a packet that holds its own checksum is 0.
LEMMA ChecksumCloses ==
    ASSUME NEW s \in Nat, s <= 1000000000
    PROVE  Answer(s + Answer(s)) = 0
<1> DEFINE h == High(s)
           t == s + Answer(s)
<1>1. h \in Nat /\ h <= 15259
  BY DEF High
<1>2. t = 65536 * h + (65535 - h) \/ t = 65536 * (h + 1) + (65534 - h)
  <2>1. /\ High(s) \in Nat /\ High(s) <= 32767
        /\ Low(s) \in Nat /\ Low(s) <= 65535
        /\ s = 65536 * High(s) + Low(s)
    BY Halves
  <2>2. Answer(s) = IF High(s) + Low(s) < 65536 THEN 65535 - (High(s) + Low(s))
                                              ELSE 131070 - (High(s) + Low(s))
    BY <1>1, AnswerHalves
  <2> QED BY <2>1, <2>2
<1> HIDE DEF h, t
<1>3. t \in Nat /\ t <= 2147483647
  BY <1>1, <1>2
<1>4. /\ High(t) \in Nat /\ Low(t) \in Nat /\ Low(t) <= 65535
      /\ t = 65536 * High(t) + Low(t)
  BY <1>3, Halves
<1>5. High(t) + Low(t) = 65535
  BY <1>1, <1>2, <1>4
<1>6. Answer(t) = 0
  BY <1>3, <1>4, <1>5, AnswerHalves
<1> QED BY <1>6 DEF t

\* in_cksum is 0 on multiples of 65535 only.
LEMMA ZeroAnswer ==
    ASSUME NEW s \in Nat, s <= 2147483647, Answer(s) = 0
    PROVE  High(s) \in Nat /\ (s = 65535 * (High(s) + 1) \/ s = 65535 * (High(s) + 2))
<1>1. /\ High(s) \in Nat /\ Low(s) \in Nat /\ Low(s) <= 65535
      /\ s = 65536 * High(s) + Low(s)
  BY Halves
<1>2. High(s) + Low(s) = 65535 \/ High(s) + Low(s) = 131070
  BY <1>1, AnswerHalves
<1> QED BY <1>1, <1>2

\* Two sums on which in_cksum is 0 differ by nothing or by 65535 and more.
LEMMA ZeroApart ==
    ASSUME NEW s \in Nat, s <= 2147483647, NEW t \in Nat, t <= 2147483647,
           Answer(s) = 0, Answer(t) = 0, t - s <= 65534, s - t <= 65534
    PROVE  t = s
<1>1. High(s) \in Nat /\ (s = 65535 * (High(s) + 1) \/ s = 65535 * (High(s) + 2))
  BY ZeroAnswer
<1>2. High(t) \in Nat /\ (t = 65535 * (High(t) + 1) \/ t = 65535 * (High(t) + 2))
  BY ZeroAnswer
<1> QED BY <1>1, <1>2

\* A flipped byte changes its word, and by less than 65535.
LEMMA FlipCounts ==
    ASSUME PathTypeOK, flipped # -1
    PROVE  FlipAdds \in Int /\ FlipAdds <= 65280 /\ -65280 <= FlipAdds /\ FlipAdds # 0
<1>1. packet[flipped] \in Nat /\ packet[flipped] <= 255
  BY ByteRange DEF PathTypeOK, Index
<1>2. 255 - 2 * packet[flipped] # 0
  BY <1>1
<1> QED BY <1>1, <1>2 DEF FlipAdds

\* The bytes of a word.
LEMMA WordType ==
    ASSUME NEW data \in [Index -> Byte], NEW c \in 0 .. MaxLen - 2
    PROVE  Word(data, c) \in Nat /\ Word(data, c) <= 65535
<1>1. data[c] \in Nat /\ data[c] <= 255 /\ data[c + 1] \in Nat /\ data[c + 1] <= 255
  BY PathAssumption, ByteRange DEF Index
<1> QED BY <1>1 DEF Word

-----------------------------------------------------------------------------
(* The invariant.                                                          *)

LEMMA PathInit == ASSUME Init PROVE PathInv
BY PathAssumption, ByteRange DEF Init, PathInv, PathTypeOK, SumsAgree, Arrived, Partials, Index

LEMMA SendBufKeeps == ASSUME PathInv, NEW m \in Message, SendBuf(m) PROVE PathInv'
<1>1. m \in [len : 8 .. MaxLen, byte : [Index -> Byte]]
  BY PathAssumption
<1>2. PathTypeOK'
  <2>1. 0 \in Byte /\ packet \in [Index -> Byte] /\ partial \in [0 .. MaxLen -> Nat]
    BY ByteRange DEF PathInv, PathTypeOK
  <2>2. m.byte \in [Index -> Byte]
    BY <1>1
  <2>3. packet' \in [Index -> Byte]
    <3>1. PICK before \in {packet} \cup Before :
             packet' = [i \in Index |-> IF i \in {4, 5} THEN 0
                                        ELSE IF i \in Filled(m) THEN m.byte[i] ELSE before[i]]
      BY DEF SendBuf
    <3>2. before \in [Index -> Byte]
      BY <2>1, PathAssumption
    <3> QED BY <2>1, <2>2, <3>1, <3>2
  <2> QED BY <1>1, <2>1, <2>3, PathAssumption DEF SendBuf, PathInv, PathTypeOK
<1>3. SumsAgree'
  BY <1>1, PathAssumption DEF SendBuf, PathInv, PathTypeOK, SumsAgree, Partials, Index
<1>4. Arrived'
  BY DEF SendBuf, Arrived
<1> QED BY <1>2, <1>3, <1>4 DEF PathInv

\* One more word is added, and recorded.
LEMMA SenderAddsKeeps == ASSUME PathInv, SenderAdds PROVE PathInv'
<1> DEFINE w == Word(packet, cursor)
<1>1. /\ phase = "sum" /\ len - cursor > 1
      /\ sum' = sum + w /\ cursor' = cursor + 2
      /\ partial' = [partial EXCEPT ![cursor + 2] = sum + w]
      /\ UNCHANGED <<phase, packet, len, m_MsgNo, wire, got, flipped>>
  BY DEF SenderAdds, AddWord, Nleft
<1>2. PathTypeOK /\ SumsAgree /\ Arrived
  BY DEF PathInv
<1>3. len \in Nat /\ len <= MaxLen /\ MaxLen \in Nat /\ MaxLen <= 1500 /\ cursor \in Nat /\ sum \in Nat
  BY <1>2, PathAssumption DEF PathTypeOK
<1>4. w \in Nat /\ w <= 65535
  BY <1>1, <1>2, <1>3, WordType DEF PathTypeOK
<1>5. PathTypeOK'
  BY <1>1, <1>2, <1>3, <1>4 DEF PathTypeOK
<1>6. Partials(cursor) /\ sum = partial[cursor] /\ packet[4] = 0 /\ packet[5] = 0
  BY <1>1, <1>2 DEF SumsAgree
<1>7. cursor = 4 => w = 0
  BY <1>6 DEF Word
<1>8. \A c \in 0 .. cursor : partial'[c] = partial[c]
  BY <1>1, <1>2, <1>3 DEF PathTypeOK
<1>9. partial'[cursor + 2] = sum + w
  BY <1>1, <1>2, <1>3 DEF PathTypeOK
<1>10. partial[cursor] <= 32768 * cursor /\ cursor % 2 = 0
  BY <1>2, <1>3, <1>6 DEF Partials, SumsAgree
<1>11. sum + w <= 32768 * (cursor + 2)
  BY <1>3, <1>4, <1>6, <1>10
<1>12. Partials(cursor)'
  <2>1. partial'[0] = 0
    BY <1>3, <1>6, <1>8 DEF Partials
  <2>2. ASSUME NEW c \in 0 .. cursor + 2, c % 2 = 0 PROVE partial'[c] <= 32768 * c
    <3>1. c \in 0 .. cursor \/ c = cursor + 2
      BY <1>3, <1>10, <2>2
    <3> QED BY <1>6, <1>8, <1>9, <1>11, <2>2, <3>1 DEF Partials
  <2>3. ASSUME NEW c \in 0 .. cursor, c % 2 = 0
        PROVE  partial'[c + 2] = partial'[c] + (IF c = 4 THEN 0 ELSE Word(packet, c))
    <3>1. c \in 0 .. cursor - 2 \/ c = cursor
      BY <1>3, <1>10, <2>3
    <3>2. CASE c \in 0 .. cursor - 2
      <4>1. c + 2 \in 0 .. cursor
        BY <1>3, <3>2
      <4> QED BY <1>6, <1>8, <2>3, <3>2, <4>1 DEF Partials
    <3>3. CASE c = cursor
      BY <1>3, <1>6, <1>7, <1>8, <1>9, <3>3
    <3> QED BY <3>1, <3>2, <3>3
  <2>4. (cursor + 2) - 2 = cursor
    BY <1>3
  <2> QED BY <1>1, <2>1, <2>2, <2>3, <2>4 DEF Partials
<1>13. SumsAgree'
  BY <1>1, <1>2, <1>3, <1>4, <1>6, <1>9, <1>10, <1>11, <1>12 DEF SumsAgree
<1>14. Arrived'
  BY <1>1, <1>2 DEF Arrived
<1> QED BY <1>5, <1>13, <1>14 DEF PathInv

\* The checksum goes where zeros were counted.
LEMMA InsertKeeps == ASSUME PathInv, InsertChecksum PROVE PathInv'
<1> DEFINE a == Answer(MopUp(packet))
<1>1. /\ phase = "sum" /\ phase' = "send" /\ len - cursor <= 1
      /\ packet' = [packet EXCEPT ![4] = a % 256, ![5] = a \div 256]
      /\ UNCHANGED <<len, m_MsgNo, wire, cursor, sum, got, flipped, partial>>
  BY DEF InsertChecksum, Nleft, PathInv, PathTypeOK
<1>2. PathTypeOK /\ SumsAgree /\ Arrived
  BY DEF PathInv
<1>3. /\ len \in Nat /\ len >= 8 /\ len <= MaxLen /\ MaxLen \in Nat /\ MaxLen <= 1500
      /\ cursor \in 0 .. len /\ sum \in Nat /\ packet \in [Index -> Byte]
  BY <1>2, PathAssumption DEF PathTypeOK
<1>4. Partials(cursor) /\ sum = partial[cursor] /\ cursor % 2 = 0
  BY <1>1, <1>2 DEF SumsAgree
<1>5. cursor = Last
  BY <1>1, <1>3, <1>4 DEF Last
<1>6. Last < len => packet[Last] \in Nat /\ packet[Last] <= 255
  BY <1>3, <1>5, ByteRange DEF Index
<1>7. sum <= 49152000
  BY <1>3, <1>4 DEF Partials
<1>8. MopUp(packet) = SenderTotal /\ SenderTotal \in Nat /\ SenderTotal <= 1000000000
  BY <1>1, <1>3, <1>4, <1>5, <1>6, <1>7 DEF MopUp, SenderTotal
<1>9. a \in Nat /\ a <= 65535
  BY <1>8, AnswerType
<1>10. a % 256 \in Byte /\ a \div 256 \in Byte /\ (a % 256) + 256 * (a \div 256) = a
  BY <1>9, ByteRange
<1>11. packet'[4] = a % 256 /\ packet'[5] = a \div 256 /\ packet' \in [Index -> Byte]
  BY <1>1, <1>3, <1>10 DEF Index
<1>12. \A i \in Index : i \notin {4, 5} => packet'[i] = packet[i]
  BY <1>1, <1>3 DEF Index
<1>13. Last' = Last /\ Last % 2 = 0 /\ Last >= 8
  BY <1>1, <1>3, <1>4, <1>5 DEF Last
<1>14. SenderTotal' = SenderTotal
  BY <1>1, <1>3, <1>5, <1>12, <1>13 DEF SenderTotal, Index
<1>15. Checksum' = a
  BY <1>10, <1>11 DEF Checksum, Word
<1>16. \A c \in 0 .. Last - 2 : c % 2 = 0 /\ c # 4 => Word(packet', c) = Word(packet, c)
  <2> TAKE c \in 0 .. Last - 2
  <2> HAVE c % 2 = 0 /\ c # 4
  <2>1. c \in Index /\ c + 1 \in Index /\ c \notin {4, 5} /\ c + 1 \notin {4, 5}
    BY <1>3, <1>5 DEF Index
  <2> QED BY <1>12, <2>1 DEF Word
<1>17. Partials(Last)'
  <2>1. Partials(Last)
    BY <1>4, <1>5
  <2>2. \A c \in 0 .. Last - 2 : c % 2 = 0 =>
            partial[c + 2] = partial[c] + (IF c = 4 THEN 0 ELSE Word(packet', c))
    BY <1>16, <2>1 DEF Partials
  <2>3. /\ partial[0] = 0
        /\ \A c \in 0 .. Last : c % 2 = 0 => partial[c] <= 32768 * c
    BY <2>1 DEF Partials
  <2>4. partial' = partial /\ Last' = Last
    BY <1>1, <1>13
  <2>5. /\ partial'[0] = 0
        /\ \A c \in 0 .. Last' : c % 2 = 0 => partial'[c] <= 32768 * c
        /\ \A c \in 0 .. Last' - 2 : c % 2 = 0 =>
               partial'[c + 2] = partial'[c] + (IF c = 4 THEN 0 ELSE Word(packet', c))
    <3>1. 0 .. Last' = 0 .. Last /\ 0 .. Last' - 2 = 0 .. Last - 2
      BY <2>4
    <3>2. \A c \in 0 .. Last' : c % 2 = 0 => partial'[c] <= 32768 * c
      BY <2>3, <2>4, <3>1
    <3>3. \A c \in 0 .. Last' - 2 : c % 2 = 0 =>
               partial'[c + 2] = partial'[c] + (IF c = 4 THEN 0 ELSE Word(packet', c))
      BY <2>2, <2>4, <3>1
    <3> QED BY <2>3, <2>4, <3>2, <3>3
  <2> QED BY <2>5 DEF Partials
<1>18. SumsAgree'
  BY <1>1, <1>2, <1>4, <1>8, <1>14, <1>15, <1>17 DEF SumsAgree
<1>19. PathTypeOK'
  BY <1>1, <1>2, <1>11 DEF PathTypeOK
<1>20. Arrived'
  BY <1>1, <1>2 DEF Arrived
<1> QED BY <1>18, <1>19, <1>20 DEF PathInv

\* The packet stays in the buffer, with its checksum.
LEMMA ResendKeeps == ASSUME PathInv, Resend \/ SendtoErrDrop PROVE PathInv'
<1>1. PathTypeOK'
  BY DEF Resend, SendtoErrDrop, PathInv, PathTypeOK
<1>2. SumsAgree'
  BY DEF Resend, SendtoErrDrop, PathInv, SumsAgree, Partials, Checksum, SenderTotal, Last
<1>3. Arrived'
  BY DEF Resend, SendtoErrDrop, PathInv, Arrived
<1> QED BY <1>1, <1>2, <1>3 DEF PathInv

LEMMA SendtoKeeps ==
    ASSUME PathInv, SendtoErr \/ \E b \in Index : SendtoErrFlip(b)
    PROVE  PathInv'
<1>1. /\ phase = "send" /\ phase' = "check" /\ cursor' = 0 /\ sum' = 0 /\ m_MsgNo' = m_MsgNo + 1
      /\ UNCHANGED <<packet, len, got, partial>>
      /\ PathTypeOK /\ SumsAgree /\ Arrived
  BY DEF SendtoErr, SendtoErrFlip, PathInv
<1>2. \/ flipped' = -1 /\ wire' = packet
      \/ \E b \in Index : flipped' = b /\ b < len /\ wire' = [packet EXCEPT ![b] = 255 - @]
  BY DEF SendtoErr, SendtoErrFlip
<1>3. flipped' \in {-1} \cup Index /\ flipped' < len /\ len \in Nat
      /\ wire' = IF flipped' = -1 THEN packet ELSE [packet EXCEPT ![flipped'] = 255 - @]
  BY <1>1, <1>2 DEF Index, PathTypeOK
<1>4. wire' \in [Index -> Byte]
  <2>1. \A i \in Index : 255 - packet[i] \in Byte
    BY <1>1, ByteRange DEF PathTypeOK
  <2> QED BY <1>1, <1>3, <2>1 DEF PathTypeOK
<1>5. PathTypeOK'
  BY <1>1, <1>3, <1>4 DEF PathTypeOK
<1>6. got = "nothing"
  BY <1>1 DEF Arrived, PathTypeOK
<1>7. Arrived'
  BY <1>1, <1>3, <1>6 DEF Arrived
<1>8. SumsAgree'
  BY <1>1 DEF SumsAgree, Partials, Checksum, SenderTotal, Last
<1> QED BY <1>5, <1>7, <1>8 DEF PathInv

\* The word that arrives at an even cursor.
LEMMA WireWord ==
    ASSUME PathTypeOK, Arrived, phase = "check", NEW c \in 0 .. MaxLen - 2, c % 2 = 0
    PROVE  Word(wire, c) = Word(packet, c) + (IF flipped \in {c, c + 1} THEN FlipAdds ELSE 0)
<1>0. c \in Index /\ c + 1 \in Index /\ MaxLen \in Nat
  BY PathAssumption DEF Index
<1>1. /\ packet[c] \in Nat /\ packet[c] <= 255 /\ packet[c + 1] \in Nat /\ packet[c + 1] <= 255
      /\ c \in Index /\ c + 1 \in Index /\ MaxLen \in Nat
  <2>1. packet[c] \in Byte /\ packet[c + 1] \in Byte
    BY <1>0 DEF PathTypeOK
  <2> QED BY <1>0, <2>1, ByteRange
<1>2. CASE flipped \notin {c, c + 1}
  BY <1>1, <1>2 DEF Arrived, PathTypeOK, Word
<1>3. CASE flipped = c
  <2>1. wire[c] = 255 - packet[c] /\ wire[c + 1] = packet[c + 1]
    BY <1>1, <1>3 DEF Arrived, PathTypeOK
  <2> QED BY <1>1, <1>3, <2>1 DEF Word, FlipAdds
<1>4. CASE flipped = c + 1
  <2>1. wire[c] = packet[c] /\ wire[c + 1] = 255 - packet[c + 1]
    BY <1>1, <1>4 DEF Arrived, PathTypeOK
  <2>2. flipped % 2 = 1
    BY <1>4
  <2> QED BY <1>1, <1>4, <2>1, <2>2 DEF Word, FlipAdds
<1> QED BY <1>2, <1>3, <1>4

LEMMA ReceiverAddsKeeps == ASSUME PathInv, ReceiverAdds PROVE PathInv'
<1>1. /\ phase = "check" /\ len - cursor > 1
      /\ sum' = sum + Word(wire, cursor) /\ cursor' = cursor + 2
      /\ UNCHANGED <<phase, packet, len, m_MsgNo, wire, got, flipped, partial>>
      /\ PathTypeOK /\ SumsAgree /\ Arrived
  BY DEF ReceiverAdds, AddWord, Nleft, PathInv
<1>2. /\ len \in Nat /\ len >= 8 /\ len <= MaxLen /\ MaxLen \in Nat /\ MaxLen <= 1500
      /\ cursor \in 0 .. MaxLen - 2 /\ sum \in Nat /\ cursor % 2 = 0
      /\ flipped \in {-1} \cup 0 .. MaxLen - 1
  BY <1>1, PathAssumption DEF PathTypeOK, SumsAgree, Index
<1>3. Word(wire, cursor) \in Nat /\ Word(wire, cursor) <= 65535 /\ Word(packet, cursor) \in Nat /\ Word(packet, cursor) <= 65535
      /\ Checksum \in Nat /\ Checksum <= 65535
  <2>1. 4 \in 0 .. MaxLen - 2 /\ wire \in [Index -> Byte] /\ packet \in [Index -> Byte]
    BY <1>1, <1>2 DEF PathTypeOK
  <2> QED BY <1>2, <2>1, WordType DEF Checksum
<1>4. PathTypeOK'
  BY <1>1, <1>2, <1>3 DEF PathTypeOK
<1>5. cursor \in 0 .. Last - 2 /\ cursor + 2 \in 0 .. Last /\ Last <= 1500
  BY <1>1, <1>2 DEF Last
<1>6. /\ partial[cursor + 2] = partial[cursor] + (IF cursor = 4 THEN 0 ELSE Word(packet, cursor))
      /\ partial[cursor + 2] <= 32768 * (cursor + 2)
  BY <1>1, <1>2, <1>5 DEF SumsAgree, Partials
<1>7. partial[cursor] \in Nat /\ partial[cursor + 2] \in Nat
  BY <1>1, <1>2 DEF PathTypeOK
<1>8. Word(wire, cursor) = Word(packet, cursor) + (IF flipped \in {cursor, cursor + 1} THEN FlipAdds ELSE 0)
  BY <1>1, <1>2, WireWord
<1>9. flipped # -1 => FlipAdds \in Int /\ FlipAdds <= 65280 /\ -65280 <= FlipAdds
  BY <1>1, FlipCounts
<1>10. sum' = partial[cursor + 2] + (IF cursor + 2 > 4 THEN Checksum ELSE 0)
                                  + (IF flipped \in 0 .. cursor + 1 THEN FlipAdds ELSE 0)
  <2>1. sum = partial[cursor] + (IF cursor > 4 THEN Checksum ELSE 0)
                              + (IF flipped \in 0 .. cursor - 1 THEN FlipAdds ELSE 0)
    BY <1>1 DEF SumsAgree
  <2>2. Checksum = Word(packet, 4)
    BY DEF Checksum
  <2>3. (IF flipped \in 0 .. cursor + 1 THEN FlipAdds ELSE 0)
        = (IF flipped \in 0 .. cursor - 1 THEN FlipAdds ELSE 0)
          + (IF flipped \in {cursor, cursor + 1} THEN FlipAdds ELSE 0)
    BY <1>2, <1>9
  <2>4. partial[cursor + 2] + (IF cursor + 2 > 4 THEN Checksum ELSE 0)
        = partial[cursor] + (IF cursor > 4 THEN Checksum ELSE 0) + Word(packet, cursor)
    BY <1>2, <1>3, <1>6, <1>7, <2>2
  <2> QED BY <1>1, <1>2, <1>3, <1>7, <1>8, <1>9, <2>1, <2>3, <2>4
<1>11. sum' <= 2147483647
  BY <1>2, <1>3, <1>5, <1>6, <1>7, <1>9, <1>10
<1>12. SumsAgree'
  <2>1. (cursor + 2) - 1 = cursor + 1 /\ (cursor + 2) % 2 = 0
    BY <1>2
  <2>2. /\ FlipAdds' = FlipAdds /\ Checksum' = Checksum /\ Last' = Last
        /\ SenderTotal' = SenderTotal /\ (Partials(Last) => Partials(Last)')
    BY <1>1 DEF FlipAdds, Checksum, Last, SenderTotal, Partials
  <2> QED BY <1>1, <1>10, <1>11, <2>1, <2>2 DEF SumsAgree
<1>13. Arrived'
  BY <1>1 DEF Arrived
<1> QED BY <1>4, <1>12, <1>13 DEF PathInv

\* in_cksum over what has arrived is 0 if and only if no byte was flipped.
LEMMA RecvBufKeeps == ASSUME PathInv, RecvBuf PROVE PathInv'
<1>1. /\ phase = "check" /\ phase' = "done" /\ len - cursor <= 1
      /\ got' = IF Answer(MopUp(wire)) # 0 THEN "CRC_ERROR" ELSE "packet"
      /\ UNCHANGED <<packet, len, m_MsgNo, wire, cursor, sum, flipped, partial>>
      /\ PathTypeOK /\ SumsAgree /\ Arrived
  BY DEF RecvBuf, Nleft, PathInv, PathTypeOK
<1>2. /\ len \in Nat /\ len >= 8 /\ len <= MaxLen /\ MaxLen \in Nat /\ MaxLen <= 1500
      /\ cursor \in 0 .. len /\ cursor % 2 = 0 /\ sum \in Nat
      /\ flipped \in {-1} \cup 0 .. MaxLen - 1 /\ flipped < len
  BY <1>1, PathAssumption DEF PathTypeOK, SumsAgree, Arrived, Index
<1>3. cursor = Last /\ cursor > 4 /\ Last < len => len = cursor + 1
  BY <1>1, <1>2 DEF Last
<1>4. cursor = Last /\ cursor > 4
  BY <1>1, <1>2 DEF Last
<1> DEFINE delta == IF flipped = -1 THEN 0 ELSE FlipAdds
<1>5. delta \in Int /\ delta <= 65280 /\ -65280 <= delta /\ (delta = 0 <=> flipped = -1)
  BY <1>1, FlipCounts
<1>6. Checksum \in Nat /\ Checksum <= 65535 /\ partial[cursor] \in Nat /\ partial[cursor] <= 49152000
  <2>1. 4 \in 0 .. MaxLen - 2 /\ packet \in [Index -> Byte]
    BY <1>1, <1>2 DEF PathTypeOK
  <2>2. Checksum \in Nat /\ Checksum <= 65535
    BY <2>1, WordType DEF Checksum
  <2>3. partial[cursor] \in Nat /\ partial[cursor] <= 32768 * cursor
    <3>1. Partials(cursor) /\ cursor \in 0 .. MaxLen
      BY <1>1, <1>2, <1>4 DEF SumsAgree
    <3>2. partial[cursor] \in Nat
      BY <1>1, <3>1 DEF PathTypeOK
    <3>3. cursor \in 0 .. cursor /\ cursor % 2 = 0
      BY <1>2
    <3> QED BY <3>1, <3>2, <3>3 DEF Partials
  <2> QED BY <1>2, <2>2, <2>3
<1>7. sum = partial[cursor] + Checksum + (IF flipped \in 0 .. cursor - 1 THEN FlipAdds ELSE 0)
  BY <1>1, <1>4 DEF SumsAgree
<1>8. MopUp(wire) = SenderTotal + Checksum + delta /\ SenderTotal \in Nat /\ SenderTotal <= 49152255
  <2>1. CASE len = cursor
    <3>1. (flipped \in 0 .. cursor - 1) <=> flipped # -1
      BY <1>2, <2>1
    <3> QED BY <1>2, <1>4, <1>5, <1>6, <1>7, <2>1, <3>1 DEF MopUp, SenderTotal
  <2>2. CASE len = cursor + 1
    <3>1. packet[cursor] \in Nat /\ packet[cursor] <= 255 /\ cursor \in Index
      BY <1>1, <1>2, <2>2, ByteRange DEF PathTypeOK, Index
    <3>2. MopUp(wire) = sum + wire[cursor] /\ SenderTotal = partial[cursor] + packet[cursor]
      BY <1>2, <1>4, <2>2 DEF MopUp, SenderTotal
    <3>3. wire[cursor] = packet[cursor] + (IF flipped = cursor THEN FlipAdds ELSE 0)
      <4>1. CASE flipped = cursor
        <5>1. wire[cursor] = 255 - packet[cursor]
          BY <1>1, <1>2, <3>1, <4>1 DEF Arrived, PathTypeOK
        <5> QED BY <1>2, <3>1, <4>1, <5>1 DEF FlipAdds
      <4>2. CASE flipped # cursor
        <5>1. wire = IF flipped = -1 THEN packet ELSE [packet EXCEPT ![flipped] = 255 - @]
          BY <1>1 DEF Arrived
        <5>2. wire[cursor] = packet[cursor]
          BY <1>1, <3>1, <4>2, <5>1 DEF PathTypeOK
        <5> QED BY <3>1, <4>2, <5>2
      <4> QED BY <4>1, <4>2
    <3>4. delta = (IF flipped \in 0 .. cursor - 1 THEN FlipAdds ELSE 0)
                  + (IF flipped = cursor THEN FlipAdds ELSE 0)
      BY <1>2, <1>5, <2>2
    <3> QED BY <1>2, <1>5, <1>6, <1>7, <3>1, <3>2, <3>3, <3>4
  <2> QED BY <1>1, <1>2, <2>1, <2>2
<1> HIDE DEF delta
<1>9. Answer(SenderTotal + Checksum) = 0
  BY <1>1, <1>8, ChecksumCloses DEF SumsAgree
<1>10. SenderTotal + Checksum \in Nat /\ SenderTotal + Checksum <= 2147483647 /\ MopUp(wire) \in Nat /\ MopUp(wire) <= 2147483647
  <2>1. MopUp(wire) \in Nat
    BY <1>1, <1>2, ByteRange DEF MopUp, PathTypeOK, Index
  <2> QED BY <1>5, <1>6, <1>8, <2>1
<1>11. Answer(MopUp(wire)) = 0 <=> flipped = -1
  <2>1. flipped = -1 => MopUp(wire) = SenderTotal + Checksum
    BY <1>5, <1>6, <1>8
  <2>2. ASSUME Answer(MopUp(wire)) = 0 PROVE flipped = -1
    <3>1. MopUp(wire) - (SenderTotal + Checksum) = delta
      BY <1>5, <1>6, <1>8
    <3>2. MopUp(wire) = SenderTotal + Checksum
      BY <1>5, <1>9, <1>10, <2>2, <3>1, ZeroApart
    <3> QED BY <1>5, <1>10, <3>1, <3>2
  <2> QED BY <1>9, <2>1, <2>2
<1>12. Arrived'
  BY <1>1, <1>11 DEF Arrived
<1>13. PathTypeOK'
  BY <1>1 DEF PathTypeOK
<1>14. SumsAgree'
  BY <1>1 DEF SumsAgree, Partials, Checksum, Last, SenderTotal
<1> QED BY <1>12, <1>13, <1>14 DEF PathInv

\* Every step keeps the invariant.
LEMMA PathNextKeeps == ASSUME PathInv, [Next]_vars PROVE PathInv'
<1>1. CASE UNCHANGED vars
  BY <1>1 DEF vars, PathInv, PathTypeOK, SumsAgree, Arrived, Partials, Checksum, Last, SenderTotal, FlipAdds
<1> QED BY <1>1, SendBufKeeps, SenderAddsKeeps, InsertKeeps, ResendKeeps, SendtoKeeps,
           ReceiverAddsKeeps, RecvBufKeeps DEF Next

\* The invariant: for every packet of every length the sums of sender and receiver
\* differ by the checksum and the damage alone, and neither accumulator overflows.
THEOREM ChecksumInvariant == Spec => []PathInv
<1>1. Init => PathInv
  BY PathInit
<1>2. PathInv /\ [Next]_vars => PathInv'
  BY PathNextKeeps
<1> QED BY <1>1, <1>2, PTL DEF Spec

\* networks.c:137: recv_buf accepts only what was sent, whichever byte was flipped.
THEOREM OnlyIntactAccepted == Spec => []DamageDetected
<1>1. PathInv => DamageDetected
  BY DEF PathInv, Arrived, DamageDetected, Same
<1> QED BY <1>1, ChecksumInvariant, PTL

\* recv_buf rejects nothing that arrives as it was sent.
THEOREM EveryIntactAccepted == Spec => []IntactAccepted
<1>1. PathInv => IntactAccepted
  BY DEF PathInv, Arrived, IntactAccepted
<1> QED BY <1>1, ChecksumInvariant, PTL

-----------------------------------------------------------------------------
(* A Datagram: between send_buf and recv_buf nothing is added to the       *)
(* message, and nothing of what the buffers held before is left in it.     *)

\* What the callers of send_buf give it.
Given == {Body(m.byte, m.len) : m \in Message}

\* The message in the buffer is one that was given.
Carried == phase # "idle" => Body(packet, len) \in Given

\* What recv_buf has returned.
Received == <<got, IF got = "packet" THEN Body(wire, len) ELSE <<>>>>

\* send_buf puts the whole message into the buffer, whatever was there before.
LEMMA SendBufFills ==
    ASSUME PathInv, NEW m \in Message, SendBuf(m)
    PROVE  Body(packet', len') = Body(m.byte, m.len)
<1>1. m.len \in 8 .. MaxLen /\ len' = m.len
  BY PathAssumption DEF SendBuf
<1>2. PICK before \in {packet} \cup Before :
         packet' = [i \in Index |-> IF i \in {4, 5} THEN 0
                                    ELSE IF i \in Filled(m) THEN m.byte[i] ELSE before[i]]
  BY DEF SendBuf
<1>3. ASSUME NEW i \in (0 .. m.len - 2) \ {4, 5} PROVE packet'[i] = m.byte[i]
  <2>1. i \in Index /\ i \notin {4, 5} /\ i \in Filled(m)
    BY <1>1, PathAssumption DEF Index, Filled
  <2> QED BY <1>2, <2>1
<1> QED BY <1>1, <1>3 DEF Body

\* Inserting the checksum does not touch the message.
LEMMA InsertSpares ==
    ASSUME PathInv, InsertChecksum
    PROVE  Body(packet', len') = Body(packet, len)
<1>1. packet \in [Index -> Byte] /\ len \in 8 .. MaxLen
  BY DEF PathInv, PathTypeOK
<1>2. /\ len' = len
      /\ \E a, b : packet' = [packet EXCEPT ![4] = a, ![5] = b]
  BY DEF InsertChecksum
<1>3. ASSUME NEW i \in (0 .. len - 2) \ {4, 5} PROVE packet'[i] = packet[i]
  <2>1. i \in Index
    BY <1>1, PathAssumption DEF Index
  <2> QED BY <1>1, <1>2, <2>1
<1> QED BY <1>2, <1>3 DEF Body

\* Nothing else but send_buf and the checksum writes to the buffer.
LEMMA MessageStays ==
    ASSUME [Next]_vars, ~InsertChecksum, \A m \in Message : ~SendBuf(m)
    PROVE  packet' = packet /\ len' = len
BY DEF Next, vars, SenderAdds, Resend, SendtoErrDrop, SendtoErr, SendtoErrFlip, ReceiverAdds, RecvBuf

LEMMA CarriedNext == ASSUME PathInv, Carried, [Next]_vars PROVE Carried'
<1>1. CASE \E m \in Message : SendBuf(m)
  BY <1>1, SendBufFills DEF Carried, Given
<1>2. CASE InsertChecksum
  <2>1. phase # "idle"
    BY <1>2 DEF InsertChecksum
  <2>2. Body(packet, len)' = Body(packet, len)
    BY <1>2, InsertSpares DEF Body
  <2> QED BY <2>1, <2>2 DEF Carried
<1>3. CASE ~InsertChecksum /\ \A m \in Message : ~SendBuf(m)
  <2>1. packet' = packet /\ len' = len
    BY <1>3, MessageStays
  <2>2. phase' # "idle" => phase # "idle"
    BY <1>3 DEF Next, vars, SenderAdds, Resend, SendtoErrDrop, SendtoErr, SendtoErrFlip,
                ReceiverAdds, RecvBuf
  <2> QED BY <2>1, <2>2 DEF Carried, Body
<1> QED BY <1>1, <1>2, <1>3

\* What is on its way or has been returned, in the terms of Datagram.
LEMMA DatagramState ==
    ASSUME PathInv
    PROVE  /\ phase # "check" => Way = "empty"
           /\ phase = "check" => Way = IF flipped = -1 THEN "intact" ELSE "damaged"
           /\ got = "nothing" => Received = Path!Nothing
           /\ got = "CRC_ERROR" => Received = Path!Damage
           /\ got = "packet" => Received = Path!Got(Body(packet, len))
<1>1. got = "packet" => Body(wire, len) = Body(packet, len)
  BY DEF PathInv, Arrived
<1> QED BY <1>1 DEF Way, Received, Path!Nothing, Path!Damage, Path!Got

\* Each step is a step of Datagram, or leaves it alone: a datagram that is dropped has
\* not left, and the rounds of in_cksum do not show.
LEMMA DatagramStep ==
    ASSUME PathInv, PathInv', Carried, [Next]_vars
    PROVE  [Path!DatagramNext]_(Path!datagramVars)
<1> DEFINE message == Body(packet, len)
<1>0. /\ got = "nothing" \/ phase = "done"
      /\ phase # "idle" => message \in Given
  BY DEF PathInv, PathTypeOK, Arrived, Carried
<1>1. CASE \E m \in Message : SendBuf(m)
  <2>1. message' \in Given
    BY <1>1, SendBufFills DEF Given, Body
  <2>2. phase # "check" /\ phase' # "check" /\ got' = "nothing"
    BY <1>1 DEF SendBuf
  <2>3. Way = "empty" /\ Way' = "empty" /\ Received' = Path!Nothing
    BY <2>2, DatagramState DEF Way, Received, Path!Nothing
  <2>4. Path!Send
    BY <2>1, <2>3 DEF Path!Send, Received, Given
  <2> QED BY <2>4 DEF Path!DatagramNext
<1>2. CASE InsertChecksum
  <2>1. message' = message
    BY <1>2, InsertSpares DEF Body
  <2>2. phase # "check" /\ phase' # "check" /\ got' = got /\ got # "packet"
    BY <1>0, <1>2 DEF InsertChecksum
  <2>3. Way' = Way /\ Received' = Received
    BY <2>2 DEF Way, Received
  <2> QED BY <2>1, <2>3 DEF Path!datagramVars, Received
<1>3. CASE ~InsertChecksum /\ \A m \in Message : ~SendBuf(m)
  <2>1. message' = message
    BY <1>3, MessageStays DEF Body
  <2>2. CASE Resend
    <3>1. phase # "check" /\ phase' # "check" /\ got' = "nothing"
      BY <2>2 DEF Resend
    <3>2. Way = "empty" /\ Way' = "empty" /\ Received' = Path!Nothing
      BY <3>1 DEF Way, Received, Path!Nothing
    <3>3. Path!SendAgain
      BY <2>1, <3>2 DEF Path!SendAgain, Received
    <3> QED BY <3>3 DEF Path!DatagramNext
  <2>3. CASE SendtoErr \/ \E b \in Index : SendtoErrFlip(b)
    <3>1. phase = "send" /\ phase' = "check" /\ got' = got
      BY <2>3 DEF SendtoErr, SendtoErrFlip
    <3>2. Way = "empty" /\ Way' \in {"intact", "damaged"}
      BY <3>1 DEF Way
    <3>3. got = "nothing" /\ Received = Path!Nothing /\ Received' = Received /\ message \in Given
      BY <1>0, <3>1 DEF Received, Path!Nothing
    <3>4. Path!Leave
      BY <2>1, <3>2, <3>3 DEF Path!Leave, Received, Given
    <3> QED BY <3>4 DEF Path!DatagramNext
  <2>4. CASE RecvBuf
    <3>1. /\ phase = "check" /\ phase' = "done" /\ flipped' = flipped
          /\ got' \in {"packet", "CRC_ERROR"}
      BY <2>4 DEF RecvBuf
    <3>2. Way' = "empty" /\ Way = IF flipped = -1 THEN "intact" ELSE "damaged"
      BY <3>1 DEF Way
    <3>3. CASE got' = "packet"
      <4>1. flipped = -1 /\ wire' = packet'
        BY <3>1, <3>3 DEF PathInv, Arrived
      <4>2. Received' = Path!Got(message)
        BY <2>1, <3>3, <4>1 DEF Received, Path!Got, Body
      <4>3. Path!ArriveIntact
        BY <2>1, <3>2, <4>1, <4>2 DEF Path!ArriveIntact, Received
      <4> QED BY <4>3 DEF Path!DatagramNext
    <3>4. CASE got' = "CRC_ERROR"
      <4>1. flipped # -1
        BY <3>1, <3>4 DEF PathInv, Arrived
      <4>2. Received' = Path!Damage
        BY <3>4 DEF Received, Path!Damage
      <4>3. Path!ArriveDamaged
        BY <2>1, <3>2, <4>1, <4>2 DEF Path!ArriveDamaged, Received
      <4> QED BY <4>3 DEF Path!DatagramNext
    <3> QED BY <3>1, <3>3, <3>4
  <2>5. CASE SenderAdds \/ SendtoErrDrop \/ ReceiverAdds \/ UNCHANGED vars
    <3>1. /\ got' = got /\ wire' = wire /\ len' = len /\ flipped' = flipped
          /\ (phase' = "check") <=> (phase = "check")
      BY <2>5 DEF SenderAdds, SendtoErrDrop, ReceiverAdds, vars
    <3>2. Way' = Way /\ Received' = Received
      BY <3>1 DEF Way, Received, Body
    <3> QED BY <2>1, <3>2 DEF Path!datagramVars, Received
  <2> QED BY <1>3, <2>2, <2>3, <2>4, <2>5 DEF Next
<1> QED BY <1>1, <1>2, <1>3

\* The caller of recv_buf gets, byte for byte, the message last given to send_buf, or
\* CRC_ERROR exactly if a byte of it or of its header was flipped.
THEOREM PathIsDatagram == Spec => ImplementsDatagram
<1>1. Init => Path!DatagramInit /\ Carried
  BY DEF Init, Path!DatagramInit, Path!Nothing, Way, Carried
<1>2. Carried /\ PathInv /\ [Next]_vars => Carried'
  BY CarriedNext
<1>3. Carried /\ PathInv /\ PathInv' /\ [Next]_vars => [Path!DatagramNext]_(Path!datagramVars)
  BY DatagramStep
<1> QED BY <1>1, <1>2, <1>3, ChecksumInvariant, PTL
        DEF Spec, ImplementsDatagram, Path!DatagramSpec
=============================================================================
