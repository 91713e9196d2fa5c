---------------------------- MODULE MCPacketPath -----------------------------
EXTENDS PacketPath

\* Control packets (8 bytes) and data of odd and even length, the last byte of which is
\* in front of the one nobody writes; sequence numbers, flags and data such that
\* carries occur and that sums are all ones.
Messages ==
    {[len |-> n, byte |-> [i \in Index |->
            CASE i = 0 -> a [] i = 3 -> b [] i = 6 -> 16 [] i > 6 /\ i = n - 2 -> d [] OTHER -> 0]] :
        n \in {8, 9, 10}, a \in {0, 239}, b \in {128}, d \in {127, 255}}

\* A buffer that was cleared, and one with something else in it.
Buffers == {[i \in Index |-> 0], [i \in Index |-> 170]}
=============================================================================
