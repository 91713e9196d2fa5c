----------------------------- MODULE PacketPath ------------------------------
(***************************************************************************)
(* One datagram from a process to its peer: the header and the checksum    *)
(* are put in (networks.c, send_buf), the copy that leaves may be lost as  *)
(* a whole or have a byte flipped (libcpe464), and recv_buf checks what    *)
(* arrives.  in_cksum works at its real width: bytes of 8 bits, words of   *)
(* 16, low byte first.  A buffer is used for one packet after another, and *)
(* the packet in it may be sent again without a new checksum.              *)
(***************************************************************************)
EXTENDS Integers

CONSTANTS
    MaxLen,     \* MAX_PACKET_LEN, 1500
    Message,    \* what callers of send_buf put into the packet: length and bytes
    Before,     \* what a buffer may hold when it is taken, the packet before apart:
                \* zeros after a memset, or what free left of it (server.c:612)
    MaxSends    \* bound: datagrams sent in a behaviour

Byte  == 0 .. 255
Index == 0 .. MaxLen - 1

ASSUME PathAssumption ==
    /\ MaxLen \in Nat /\ 8 <= MaxLen /\ MaxLen <= 1500
    /\ Message \subseteq [len : 8 .. MaxLen, byte : [Index -> Byte]]
    /\ Before \subseteq [Index -> Byte]
    /\ MaxSends \in Nat

VARIABLES
    phase,      \* what is being done with the packet
    packet,     \* the sender's buffer
    len,        \* the length of the packet in it
    m_MsgNo,    \* datagrams sent so far
    wire,       \* the bytes that leave and arrive, also len long
    cursor,     \* in_cksum: len - nleft
    sum,        \* in_cksum: the accumulator
    got,        \* what recv_buf returns: nothing yet, the packet or CRC_ERROR
    flipped,    \* auxiliary: the byte flipped on the way, or -1
    partial     \* auxiliary: the sender's sum at each cursor

vars == <<phase, packet, len, m_MsgNo, wire, cursor, sum, got, flipped, partial>>

Init ==
    /\ phase = "idle"
    /\ packet = [i \in Index |-> 0]
    /\ len = 8
    /\ m_MsgNo = 0
    /\ wire = packet
    /\ cursor = 0
    /\ sum = 0
    /\ got = "nothing"
    /\ flipped = -1
    /\ partial = [c \in 0 .. MaxLen |-> 0]

-----------------------------------------------------------------------------
(* in_cksum                                                                *)

Word(data, c) == data[c] + 256 * data[c + 1]

\* Mutated form: the loop stops a word too early.
NleftButLast == len - cursor > 3

\* while (nleft > 1)
Nleft == len - cursor > 1

\* sum += *w++, nleft -= 2
AddWord(data) ==
    /\ Nleft
    /\ sum' = sum + Word(data, cursor)
    /\ cursor' = cursor + 2

\* The odd byte at the end counts as the low byte of a word.
MopUp(data) == sum + (IF len - cursor = 1 THEN data[cursor] ELSE 0)

\* The carries are added back twice, and the result is complemented.
Answer(s) ==
    LET folded == (s \div 65536) + (s % 65536)
    IN  65535 - ((folded + (folded \div 65536)) % 65536)

-----------------------------------------------------------------------------
(* The sender                                                              *)

\* Mutated form: the payload is copied a byte short.
FilledShort(m) == ((0 .. 6) \cup (7 .. m.len - 3)) \ {4, 5}

\* The bytes send_buf writes of a message: the number, the flag and the payload.  The
\* payload follows a header of 7 bytes and the length counts 8, so the last byte of
\* the packet is none of them.
Filled(m) == (0 .. m.len - 2) \ {4, 5}

\* Mutated form: the checksum of the packet before is left in the buffer.
SendBufStale(m) ==
    /\ phase \in {"idle", "done"}
    /\ phase' = "sum"
    /\ \E before \in {packet} \cup Before :
          packet' = [i \in Index |-> IF i \in Filled(m) THEN m.byte[i] ELSE before[i]]
    /\ len' = m.len
    /\ cursor' = 0
    /\ sum' = 0
    /\ got' = "nothing"
    /\ partial' = [partial EXCEPT ![0] = 0]
    /\ UNCHANGED <<m_MsgNo, wire, flipped>>

\* The message and the header are copied, and the bytes of the checksum cleared; the
\* last byte is checked and sent as the buffer holds it.
SendBuf(m) ==
    /\ phase \in {"idle", "done"}
    /\ phase' = "sum"
    /\ \E before \in {packet} \cup Before :
          packet' = [i \in Index |-> IF i \in {4, 5} THEN 0
                                     ELSE IF i \in Filled(m) THEN m.byte[i] ELSE before[i]]
    /\ len' = m.len
    /\ cursor' = 0
    /\ sum' = 0
    /\ got' = "nothing"
    /\ partial' = [partial EXCEPT ![0] = 0]
    /\ UNCHANGED <<m_MsgNo, wire, flipped>>

SenderAdds ==
    /\ phase = "sum"
    /\ AddWord(packet)
    /\ partial' = [partial EXCEPT ![cursor'] = sum']
    /\ UNCHANGED <<phase, packet, len, m_MsgNo, wire, got, flipped>>

\* memcpy(&packet[4], &checksum, 2)
InsertChecksum ==
    /\ phase = "sum"
    /\ ~Nleft
    /\ phase' = "send"
    /\ packet' = [packet EXCEPT ![4] = Answer(MopUp(packet)) % 256,
                                ![5] = Answer(MopUp(packet)) \div 256]
    /\ UNCHANGED <<len, m_MsgNo, wire, cursor, sum, got, flipped, partial>>

\* send_data_from_window: the packet is sent again as it lies in the buffer.
Resend ==
    /\ phase = "done"
    /\ phase' = "send"
    /\ got' = "nothing"
    /\ UNCHANGED <<packet, len, m_MsgNo, wire, cursor, sum, flipped, partial>>

-----------------------------------------------------------------------------
(* The way                                                                 *)

\* processEvents drops the packet, or the network does.
SendtoErrDrop ==
    /\ phase = "send"
    /\ m_MsgNo < MaxSends
    /\ m_MsgNo' = m_MsgNo + 1
    /\ phase' = "done"
    /\ UNCHANGED <<packet, len, wire, cursor, sum, got, flipped, partial>>

SendtoErr ==
    /\ phase = "send"
    /\ m_MsgNo < MaxSends
    /\ m_MsgNo' = m_MsgNo + 1
    /\ wire' = packet
    /\ flipped' = -1
    /\ phase' = "check"
    /\ cursor' = 0
    /\ sum' = 0
    /\ UNCHANGED <<packet, len, got, partial>>

\* Mutated form: the byte is flipped in the sender's buffer, not in the copy.
SendtoErrFlipInPlace(b) ==
    /\ phase = "send"
    /\ m_MsgNo < MaxSends
    /\ m_MsgNo' = m_MsgNo + 1
    /\ m_MsgNo' > 1
    /\ b < len
    /\ wire' = [packet EXCEPT ![b] = 255 - @]
    /\ packet' = wire'
    /\ flipped' = b
    /\ phase' = "check"
    /\ cursor' = 0
    /\ sum' = 0
    /\ UNCHANGED <<len, got, partial>>

\* errorFlipBits, never on the first datagram: a byte of the copy ^= 0xFF.
SendtoErrFlip(b) ==
    /\ phase = "send"
    /\ m_MsgNo < MaxSends
    /\ m_MsgNo' = m_MsgNo + 1
    /\ m_MsgNo' > 1
    /\ b < len
    /\ wire' = [packet EXCEPT ![b] = 255 - @]
    /\ flipped' = b
    /\ phase' = "check"
    /\ cursor' = 0
    /\ sum' = 0
    /\ UNCHANGED <<packet, len, got, partial>>

-----------------------------------------------------------------------------
(* The receiver                                                            *)

ReceiverAdds ==
    /\ phase = "check"
    /\ AddWord(wire)
    /\ UNCHANGED <<phase, packet, len, m_MsgNo, wire, got, flipped, partial>>

\* recv_buf: CRC_ERROR, or the packet is copied to the caller.
RecvBuf ==
    /\ phase = "check"
    /\ ~Nleft
    /\ got' = IF Answer(MopUp(wire)) # 0 THEN "CRC_ERROR" ELSE "packet"
    /\ phase' = "done"
    /\ UNCHANGED <<packet, len, m_MsgNo, wire, cursor, sum, flipped, partial>>

-----------------------------------------------------------------------------
Next ==
    \/ \E m \in Message : SendBuf(m)
    \/ SenderAdds
    \/ InsertChecksum
    \/ Resend
    \/ SendtoErrDrop
    \/ SendtoErr
    \/ \E b \in Index : SendtoErrFlip(b)
    \/ ReceiverAdds
    \/ RecvBuf

Spec == Init /\ [][Next]_vars

-----------------------------------------------------------------------------
(* The properties.                                                         *)

PathTypeOK ==
    /\ phase \in {"idle", "sum", "send", "check", "done"}
    /\ packet \in [Index -> Byte]
    /\ wire \in [Index -> Byte]
    /\ len \in 8 .. MaxLen
    /\ m_MsgNo \in Nat
    /\ cursor \in 0 .. len
    /\ sum \in Nat
    /\ got \in {"nothing", "packet", "CRC_ERROR"}
    /\ flipped \in {-1} \cup Index
    /\ partial \in [0 .. MaxLen -> Nat]

\* The checksum in the packet, the last even cursor, and the sender's sum.
Checksum    == Word(packet, 4)
Last        == len - (len % 2)
SenderTotal == partial[Last] + (IF Last < len THEN packet[Last] ELSE 0)

\* What flipping the byte adds to the sum of the receiver.
FlipAdds == IF flipped % 2 = 0 THEN 255 - 2 * packet[flipped] ELSE 256 * (255 - 2 * packet[flipped])

\* The sums of the sender up to a cursor, which do not count the checksum.
Partials(upto) ==
    /\ partial[0] = 0
    /\ \A c \in 0 .. upto : c % 2 = 0 => partial[c] <= 32768 * c
    /\ \A c \in 0 .. upto - 2 : c % 2 = 0 =>
            partial[c + 2] = partial[c] + (IF c = 4 THEN 0 ELSE Word(packet, c))

\* The sum of the sender, and at the same cursor that of the receiver: it is the
\* sender's with the checksum and what the flipped byte adds once they are passed.
SumsAgree ==
    /\ cursor % 2 = 0
    /\ sum <= 2147483647
    /\ phase = "sum" =>
           /\ packet[4] = 0 /\ packet[5] = 0
           /\ sum = partial[cursor]
           /\ Partials(cursor)
    /\ phase \in {"send", "check", "done"} =>
           /\ Partials(Last)
           /\ Checksum = Answer(SenderTotal)
    /\ phase = "check" =>
           sum = partial[cursor] + (IF cursor > 4 THEN Checksum ELSE 0)
                                 + (IF flipped \in 0 .. cursor - 1 THEN FlipAdds ELSE 0)

\* What arrives is what was sent, but for the byte flipped on the way; recv_buf
\* has returned only when it is done, and has told the one from the other.
Arrived ==
    /\ phase = "check" \/ got # "nothing" =>
           /\ flipped < len
           /\ wire = IF flipped = -1 THEN packet ELSE [packet EXCEPT ![flipped] = 255 - @]
    /\ got # "nothing" => phase = "done"
    /\ got = "packet" => flipped = -1
    /\ got = "CRC_ERROR" => flipped # -1

\* checksum.c:61, "register int sum": the accumulator never overflows, and the
\* sums of both sides differ by the checksum and the damage alone.
PathInv == PathTypeOK /\ SumsAgree /\ Arrived

\* The bytes of the packet, as far as it goes.
Same(a, b) == \A i \in 0 .. len - 1 : a[i] = b[i]

\* networks.c:137: a packet recv_buf accepts is the packet that was sent.
DamageDetected == got = "packet" => Same(wire, packet)

\* recv_buf rejects no packet that arrives as the checksum was put into it,
\* whatever was in the buffer before, and however often it is sent again.
IntactAccepted == got = "CRC_ERROR" => flipped # -1

\* The message in n bytes of a buffer: all but the checksum and the last byte, which
\* is no part of it (server.c:299, 370 and 424 subtract it).
Body(data, n) == [i \in (0 .. n - 2) \ {4, 5} |-> data[i]]

\* Where a datagram is, and what recv_buf has made of it.
Way == IF phase # "check" THEN "empty" ELSE IF flipped = -1 THEN "intact" ELSE "damaged"

\* The bytes, their sums and the buffers that are used again implement a Datagram.
Path == INSTANCE Datagram WITH
          Content  <- {Body(m.byte, m.len) : m \in Message},
          Blank    <- Body([i \in Index |-> 0], 8),
          message  <- Body(packet, len),
          way      <- Way,
          received <- <<got, IF got = "packet" THEN Body(wire, len) ELSE <<>>>>

\* What the caller of recv_buf gets is, byte for byte, what the caller of send_buf gave
\* last, or CRC_ERROR exactly if the datagram was damaged.  Whatever the buffers held
\* before reaches no byte but the last, which networks.c:193 and 227 count and nobody writes.
ImplementsDatagram == Path!DatagramSpec
=============================================================================
