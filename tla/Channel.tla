------------------------------- MODULE Channel -------------------------------
(***************************************************************************)
(* The datagram paths between rcopy and the server processes: the packets  *)
(* of networks.h, and what networks.c and the sendtoErr hook do with one   *)
(* on its way: lose it, flip a byte of it (so that in_cksum rejects it),   *)
(* deliver it twice, or deliver it out of order.                           *)
(***************************************************************************)
EXTENDS Integers, Sequences, SequencesExt

CONSTANTS
    Child,       \* the processes the server may fork: bounds the number of forks
    Main,        \* the server's main process, which owns the well-known port
    QueueCap,    \* datagrams a socket's receive buffer holds; more are dropped
    MaxFaults,   \* bound: packets lost, flipped or duplicated in a behaviour
    Duplicate,   \* may a path deliver a datagram twice?
    Reorder      \* may a path deliver datagrams out of order?

ASSUME ChannelAssumption ==
    /\ Main \notin Child
    /\ QueueCap \in Nat \ {0}
    /\ MaxFaults \in Nat
    /\ Duplicate \in BOOLEAN
    /\ Reorder \in BOOLEAN

VARIABLES
    toServer,    \* toServer[s]: datagrams queued at the socket of process s
    toClient,    \* toClient[k]: datagrams from child k queued at rcopy's socket
    faults       \* faults the paths have inflicted so far

channelVars == <<toServer, toClient, faults>>

Server == Child \cup {Main}

\* A packet: the flag of its header, the number it carries (the packet # of
\* DATA, RR and SREJ; the size in WINDOW_SIZE) and its file data.  The header's
\* sequence number is never read by the protocol and is left out.
NoData == "no data"
Packet(f, n, d) == [flag |-> f, num |-> n, data |-> d]

\* A zeroed BufferChunk: no packet at all.
NoPacket == Packet("NONE", 0, NoData)

\* What recv_buf makes of a packet whose checksum fails.
Garbled == Packet("CRC_ERROR", 0, NoData)

\* A control packet: send_buf / send_buf_with_packet_num without file data.
Control(f, n) == Packet(f, n, NoData)

-----------------------------------------------------------------------------
Put(q, p) == IF Len(q) < QueueCap THEN Append(q, p) ELSE q

\* What a faulty path makes of p: lost, garbled or duplicated.
Damaged(q, p) ==
    {q, Put(q, Garbled)} \cup (IF Duplicate THEN {Put(Put(q, p), p)} ELSE {})

\* sendtoErr(p): hand packet p to the path that ends in chan[at].
Transmit(chan, at, p) ==
    \/ /\ chan' = [chan EXCEPT ![at] = Put(@, p)]
       /\ UNCHANGED faults
    \/ /\ faults < MaxFaults
       /\ faults' = faults + 1
       /\ \E q \in Damaged(chan[at], p) : chan' = [chan EXCEPT ![at] = q]

\* The positions of q that recvfrom may return next.
Deliverable(q) == IF Reorder THEN DOMAIN q ELSE DOMAIN q \cap {1}

\* recvfrom(chan[at]): take the datagram at position i.
Take(chan, at, i) == chan' = [chan EXCEPT ![at] = RemoveAt(@, i)]

ChannelInit ==
    /\ toServer = [s \in Server |-> <<>>]
    /\ toClient = [k \in Child |-> <<>>]
    /\ faults = 0
=============================================================================
