----------------------------- MODULE UploadProps -----------------------------
(***************************************************************************)
(* What an upload must and must not do: the properties the runs check and  *)
(* the inductive invariant their proofs rest on.                           *)
(***************************************************************************)
EXTENDS Upload

Chunk == {LocalFile[i] : i \in DOMAIN LocalFile}

SetupFlags == {"FILE_NAME", "BUFFER_SIZE", "WINDOW_SIZE"}
ReplyFlags == {"ACK_FILE_NAME", "REJ_FILE_NAME_NO_OPEN", "ACK_BUFFER_SIZE", "ACK_WINDOW_SIZE",
               "RR", "SREJ", "ACK_EOF"}
Flags == SetupFlags \cup ReplyFlags \cup {"NONE", "CRC_ERROR", "DATA", "END_OF_FILE"}
Packets == [flag : Flags, num : Nat, data : Chunk \cup {NoData}]

ClientSetup ==
    {"SEND_REMOTE_FILE_NAME", "SEND_BUFFER_SIZE", "SEND_WINDOW_SIZE", "WAIT_FOR_SETUP_ACKS",
     "READY_TO_SEND_DATA_SETUP"}
ClientData ==
    {"SEND_DATA", "SEND_DATA_SREJ", "RECEIVE_DATA_WINDOW_OPEN", "RECEIVE_DATA_WINDOW_CLOSED",
     "SEND_EOF_AND_QUIT", "SEND_EOF_SELECT"}
ClientStates ==
    ClientSetup \cup ClientData \cup
    {"TIMEOUT_ON_SETUP_SERVER", "TIMEOUT_ON_SERVER", "DONE", "EXIT"}
ClientExits ==
    {"running", "ack eof", "timeout", "rejected", "unidentified", "read error", "zero length"}

ChildSetup ==
    {"NONE", "RECEIVED_REMOTE_FILE_NAME", "READY_FOR_NEXT_SETUP_PACKET",
     "RECEIVED_BUFFER_SIZE", "RECEIVED_WINDOW_SIZE", "READY_FOR_DATA_PACKETS_SETUP"}
ChildData == {"RECEIVED_DATA", "READY_FOR_NEXT_DATA_PACKET", "RECEIVED_EOF"}
ChildStates == ChildSetup \cup ChildData \cup {"TIMEOUT_ON_CLIENT", "DONE"}

ChildTypes ==
    [state : ChildStates, recvPacket : Packets,
     fileGood : BOOLEAN, bufGood : BOOLEAN, winGood : BOOLEAN, timeout : 0 .. MaxTimeouts + 1,
     win_size : Nat, cur_RRnum : Nat, win_min : Nat, win_max : Nat,
     has_SREJ : BOOLEAN, num_SREJ : Nat, window : [Slots -> Packets], offset : Nat]

ChannelTypeOK ==
    /\ toServer \in [Server -> Seq(Packets)]
    /\ toClient \in [Child -> Seq(Packets)]
    /\ faults \in 0 .. MaxFaults

ClientTypeOK ==
    /\ c_state \in ClientStates /\ c_exit \in ClientExits
    /\ remote \in Server
    /\ fileSuccess \in BOOLEAN /\ bufSuccess \in BOOLEAN /\ doneTransmitting \in BOOLEAN
    /\ c_timeout \in 0 .. MaxTimeouts + 1
    /\ c_win_min \in Int /\ c_win_max \in Int /\ c_win_cur \in Nat
    /\ cur_packet_num \in Nat
    /\ readPos \in 0 .. Len(LocalFile)
    /\ SREJ_num \in Nat
    /\ c_window \in [Slots -> Packets]

ServerTypeOK ==
    /\ child \in [Child -> ChildTypes]
    /\ remoteFile \in Seq(Chunk \cup {Hole})
    /\ writeErr \in BOOLEAN

\* Every variable of the client, of the children and of the paths keeps its type.
TypeOK == ChannelTypeOK /\ ClientTypeOK /\ ServerTypeOK

-----------------------------------------------------------------------------
(* The inductive invariant.                                                *)

\* A packet the client may have put on the way to a server process: a DATA
\* packet carries a chunk already read, under its own number.
Sendable(p) ==
    \/ p.flag \in {"FILE_NAME", "BUFFER_SIZE", "CRC_ERROR", "END_OF_FILE"}
    \/ p.flag = "WINDOW_SIZE" /\ p.num = WinSize
    \/ p.flag = "DATA" /\ p.num \in 1 .. readPos /\ p.data = LocalFile[p.num]

Genuine   == {p \in Packets : Sendable(p)}
OwnPacket == {p \in Genuine : p.flag = "DATA"}

\* What is on its way to the server, and what the client keeps to resend it.
ClientGenuine ==
    /\ toServer \in [Server -> Seq(Genuine)]
    /\ c_window \in [Slots -> OwnPacket \cup {NoPacket}]

\* The client numbers packets from 1, in step with what it has read.
ClientCounters ==
    /\ cur_packet_num \in {0, readPos + 1}
    /\ cur_packet_num = 0 => readPos = 0 /\ ~doneTransmitting
    /\ doneTransmitting => readPos = Len(LocalFile)
    /\ c_state \in ClientSetup => cur_packet_num = 0
    /\ c_state \in ClientData => cur_packet_num > 0
    /\ c_state \in ClientSetup \cup ClientData => c_timeout <= MaxTimeouts

\* What a child (its record me) is working on, and what it has buffered for later.
ChildGenuine(me) ==
    /\ me.recvPacket \in Genuine \cup {NoPacket}
    /\ me.window \in [Slots -> OwnPacket \cup {NoPacket}]
    /\ me.state = "RECEIVED_WINDOW_SIZE" => me.recvPacket.flag = "WINDOW_SIZE"
    /\ me.state \in {"RECEIVED_DATA", "READY_FOR_DATA_PACKETS_SETUP"} => me.recvPacket.flag = "DATA"
    /\ me.state \notin {"TIMEOUT_ON_CLIENT", "DONE"} => me.timeout <= MaxTimeouts
    /\ me.winGood => me.win_size = WinSize
    /\ me.state \in ChildData \cup {"READY_FOR_DATA_PACKETS_SETUP"} => me.winGood /\ me.fileGood

\* The window of a child that receives data slides with cur_RRnum, and a slot
\* holds nothing or the one packet of the window that belongs there; a SREJ that
\* is outstanding asks for the packet the child waits for.
ChildWindow(me) ==
    /\ me.state \in ChildData => me.cur_RRnum > 0
    /\ me.state \in ChildSetup => me.cur_RRnum = 0
    /\ me.cur_RRnum = 0 => me.offset = 0
    /\ me.has_SREJ => me.num_SREJ = me.cur_RRnum
    /\ me.cur_RRnum > 0 =>
         /\ me.winGood /\ me.fileGood
         /\ me.win_min = me.cur_RRnum - 1
         /\ me.win_max = me.win_min + WinSize
         /\ me.cur_RRnum <= readPos + 1
         /\ \A i \in Slots : me.window[i] # NoPacket =>
              /\ me.window[i].num > me.cur_RRnum
              /\ me.window[i].num <= me.win_max
              /\ (me.window[i].num - 1) % WinSize = i

\* Child k has begun its data phase.
Receiving(k) == child[k].cur_RRnum > 0

\* Child k is the one child that has the client's file open.
OnlyOpener(k) == child[k].fileGood /\ \A j \in Child : child[j].fileGood => j = k

\* What is on disk, as far as no write failed.
FileMatches ==
    ~writeErr =>
      /\ \A k \in Child : Receiving(k) => child[k].offset = child[k].cur_RRnum - 1
      /\ Len(remoteFile) <= Len(LocalFile)
      /\ \A i \in DOMAIN remoteFile : remoteFile[i] \in {LocalFile[i], Hole}
      /\ \A k \in Child : OnlyOpener(k) =>
           /\ Len(remoteFile) = child[k].offset
           /\ \A i \in DOMAIN remoteFile : remoteFile[i] = LocalFile[i]

\* Child k has accepted every packet of the file.
Complete(k) == child[k].cur_RRnum = Len(LocalFile) + 1

\* A child's replies never promise more than it has written.
Honest(k) ==
    {p \in Packets :
        /\ p.flag \in ReplyFlags \cup {"CRC_ERROR"}
        /\ p.flag \in {"RR", "SREJ"} => p.num \in 1 .. child[k].cur_RRnum
        /\ p.flag = "ACK_EOF" => Complete(k)}

\* Every reply on its way to the client is such a reply.
RepliesHonest == \A k \in Child : toClient[k] \in Seq(Honest(k))

\* A packet on its way to child k: END_OF_FILE only once k has the whole file.
Lawful(k) == {p \in Packets : p.flag = "END_OF_FILE" => Complete(k)}

\* END_OF_FILE reaches only a child that has the whole file, and rcopy ends on
\* ACK_EOF only when there is one.
EofAfterAll ==
    /\ c_state \in {"SEND_EOF_AND_QUIT", "SEND_EOF_SELECT"} => remote \in Child /\ Complete(remote)
    /\ \A k \in Child : toServer[k] \in Seq(Lawful(k))
    /\ \A k \in Child : child[k].state = "RECEIVED_EOF" => Complete(k)
    /\ c_exit = "ack eof" => \E k \in Child : Complete(k)

\* What the client's window has slid past, some child has accepted.
WindowBehind == c_win_min <= 0 \/ \E k \in Child : c_win_min + 1 <= child[k].cur_RRnum

\* The types, what travels, and what the children have made of it.
IInv ==
    /\ TypeOK
    /\ ClientGenuine
    /\ ClientCounters
    /\ \A k \in Child : ChildGenuine(child[k]) /\ ChildWindow(child[k])
    /\ FileMatches
    /\ RepliesHonest
    /\ EofAfterAll
    /\ WindowBehind

-----------------------------------------------------------------------------
(* The inductive invariant of one child on paths that keep the order.      *)

\* A reply that, if it asks for a packet again, asks for one that has been sent.
AsksForSent == {p \in Packets : p.flag = "SREJ" => p.num \in 1 .. readPos}

\* Queue q holds no SREJ.
AsksForNothing(q) == \A i \in DOMAIN q : q[i].flag # "SREJ"

\* The acknowledgement of the last packet of the file.
LastRR(p) == p.flag = "RR" /\ p.num = Len(LocalFile) + 1

\* In queue q nothing is asked for again after the last acknowledgement.
AsksInTime(q) == \A i, j \in DOMAIN q : i < j /\ LastRR(q[i]) => q[j].flag # "SREJ"

\* Nothing is asked for again after the last acknowledgement, nor once rcopy has read
\* it and announces the end.
SrejInv ==
    /\ \A k \in Child :
         /\ toClient[k] \in Seq(AsksForSent)
         /\ AsksInTime(toClient[k])
         /\ c_state \in {"SEND_EOF_AND_QUIT", "SEND_EOF_SELECT"} => AsksForNothing(toClient[k])
    /\ c_state = "SEND_DATA_SREJ" => SREJ_num \in 1 .. readPos

\* In queue q the acknowledgements are in order, none of them of a number below n.
AcksInOrder(q, n) ==
    /\ \A i \in DOMAIN q : q[i].flag = "RR" => n <= q[i].num
    /\ \A i, j \in DOMAIN q :
         i < j /\ q[i].flag = "RR" /\ q[j].flag = "RR" => q[i].num <= q[j].num

\* What is acknowledged on the way is at or after the left edge of rcopy's window.
AcksInv ==
    /\ c_state \in ClientSetup => c_win_min = 0
    /\ \A k \in Child : AcksInOrder(toClient[k], c_win_min + 1)

\* The replies reach rcopy in the order in which the child made up its mind.
OrderInv == SrejInv /\ AcksInv

-----------------------------------------------------------------------------
(* The inductive invariants of timely paths that have not misbehaved yet.  *)

\* Nothing is on its way between rcopy and child k.
Silent(k) == toServer[k] = <<>> /\ toClient[k] = <<>>

\* Queue q holds one packet, of flag f.
Lone(q, f) == Len(q) = 1 /\ q[1].flag = f

\* No child has been forked; FILE_NAME has not been sent or has not been accepted.
NotServed ==
    /\ \A k \in Child : Unforked(k) /\ Silent(k)
    /\ remote = Main /\ ~fileSuccess
    /\ \/ c_state = "SEND_REMOTE_FILE_NAME" /\ toServer[Main] = <<>>
       \/ c_state = "WAIT_FOR_SETUP_ACKS" /\ Lone(toServer[Main], "FILE_NAME")

\* Child k is the only one forked, and nothing waits to be accepted.
ServedBy(k) ==
    /\ ~Unforked(k) /\ toServer[Main] = <<>>
    /\ \A j \in Child \ {k} : Unforked(j) /\ Silent(j)

\* Child k works on FILE_NAME, or its answer is on the way: rcopy, which has not
\* heard from it yet, does nothing but wait.
Greeted(k) ==
    /\ remote = Main /\ ~fileSuccess /\ c_state = "WAIT_FOR_SETUP_ACKS"
    /\ toServer[k] = <<>>
    /\ \/ child[k].state = "RECEIVED_REMOTE_FILE_NAME" /\ toClient[k] = <<>>
       \/ child[k].state = "READY_FOR_NEXT_SETUP_PACKET" /\ Lone(toClient[k], "ACK_FILE_NAME")
       \/ child[k].state = "DONE" /\ Lone(toClient[k], "REJ_FILE_NAME_NO_OPEN")

\* rcopy talks to child k, and will not ask the main process for another.
Known(k) == remote = k /\ (fileSuccess \/ ClientDone) /\ c_state # "SEND_REMOTE_FILE_NAME"

\* Why a second child is never forked (a server that may fork none serves nobody).
CleanServed ==
    faults = 0 /\ Child # {} =>
      NotServed \/ \E k \in Child : ServedBy(k) /\ (Greeted(k) \/ Known(k))

\* A request of rcopy is on its way to child k, being handled, or answered.
Exchange(k, request, before, handler, answer, after) ==
    \/ child[k].state = before /\ Lone(toServer[k], request) /\ toClient[k] = <<>>
    \/ child[k].state = handler /\ Silent(k)
    \/ child[k].state = after /\ toServer[k] = <<>> /\ Lone(toClient[k], answer)

SetupExchange(k, request, handler, answer) ==
    Exchange(k, request, "READY_FOR_NEXT_SETUP_PACKET", handler,
             answer, "READY_FOR_NEXT_SETUP_PACKET")

\* Child k, done with what it was asked, waits for the next setup packet.
Ready(k) == child[k].state = "READY_FOR_NEXT_SETUP_PACKET" /\ Silent(k)

\* The setup, one request at a time.
SettingUp(k) ==
    /\ child[k].fileGood
    /\ \/ c_state = "SEND_BUFFER_SIZE" /\ Ready(k)
       \/ /\ c_state = "WAIT_FOR_SETUP_ACKS"
          /\ SetupExchange(k, "BUFFER_SIZE", "RECEIVED_BUFFER_SIZE", "ACK_BUFFER_SIZE")
          /\ toClient[k] # <<>> => child[k].bufGood
       \/ c_state = "SEND_WINDOW_SIZE" /\ Ready(k) /\ child[k].bufGood
       \/ /\ c_state = "WAIT_FOR_SETUP_ACKS" /\ child[k].bufGood
          /\ SetupExchange(k, "WINDOW_SIZE", "RECEIVED_WINDOW_SIZE", "ACK_WINDOW_SIZE")
          /\ toClient[k] # <<>> => child[k].winGood
       \/ /\ c_state = "READY_TO_SEND_DATA_SETUP" /\ Ready(k)
          /\ child[k].bufGood /\ child[k].winGood

\* Queue q holds the packets numbered after .. upto, all of flag f, in order.
InSequence(q, f, after, upto) ==
    /\ Len(q) = upto - after
    /\ \A i \in DOMAIN q : q[i].flag = f /\ q[i].num = after + i

\* The packet child k waits for, and how many it has taken from its socket.
Awaited(k)   == IF Receiving(k) THEN child[k].cur_RRnum ELSE 1
HoldsData(k) == child[k].state \in {"READY_FOR_DATA_PACKETS_SETUP", "RECEIVED_DATA"}
Taken(k)     == IF HoldsData(k) THEN Awaited(k) ELSE Awaited(k) - 1

\* Child k has nothing buffered and no SREJ outstanding.
NothingMissing(k) == ~child[k].has_SREJ /\ ~are_packets_buffered(child[k].window)

\* Child k takes the packets as they come: it knows the sizes, and works on the one
\* it waits for or waits for it.
Accepting(k) ==
    /\ HoldsData(k) => child[k].recvPacket.num = Awaited(k)
    /\ \/ child[k].state = "READY_FOR_NEXT_SETUP_PACKET"
          /\ child[k].fileGood /\ child[k].bufGood /\ child[k].winGood
       \/ child[k].state = "READY_FOR_DATA_PACKETS_SETUP"
       \/ child[k].state \in {"RECEIVED_DATA", "READY_FOR_NEXT_DATA_PACKET"} /\ NothingMissing(k)

\* rcopy fills its window, and knows when it is full.
Sending ==
    /\ c_timeout = 0
    /\ c_win_min >= 0 /\ c_win_max = c_win_min + WinSize
    /\ c_win_cur = readPos /\ c_win_cur <= c_win_max
    /\ \A i \in Slots : i < readPos => c_window[i] # NoPacket
    /\ LET closed == isWindowClosed(doneTransmitting, c_win_cur, c_win_max) IN
       \/ c_state = "SEND_DATA" /\ c_win_cur < c_win_max
       \/ c_state = "RECEIVE_DATA_WINDOW_OPEN" /\ ~closed
       \/ c_state = "RECEIVE_DATA_WINDOW_CLOSED" /\ closed

\* The data: the packets read are acknowledged, acknowledged on the way, at the
\* child, or on the way to it, in this order and without a gap.
Flowing(k) ==
    /\ InSequence(toServer[k], "DATA", Taken(k), readPos)
    /\ InSequence(toClient[k], "RR", c_win_min + 1, Awaited(k))
    /\ Accepting(k)
    /\ Sending

\* All is acknowledged, but rcopy had read the last RR before the end of the file:
\* a resent packet makes the child repeat it.
Reminding(k) ==
    /\ c_state = "RECEIVE_DATA_WINDOW_CLOSED" /\ doneTransmitting
    /\ Complete(k) /\ NothingMissing(k) /\ c_win_min = Len(LocalFile)
    /\ Exchange(k, "DATA", "READY_FOR_NEXT_DATA_PACKET", "RECEIVED_DATA",
                "RR", "READY_FOR_NEXT_DATA_PACKET")
    /\ toClient[k] # <<>> => toClient[k][1].num = Len(LocalFile) + 1

\* The end of the file is announced and acknowledged.
Ending(k) ==
    \/ /\ c_state = "SEND_EOF_AND_QUIT"
       /\ child[k].state = "READY_FOR_NEXT_DATA_PACKET" /\ Silent(k)
    \/ /\ c_state = "SEND_EOF_SELECT"
       /\ Exchange(k, "END_OF_FILE", "READY_FOR_NEXT_DATA_PACKET", "RECEIVED_EOF",
                   "ACK_EOF", "DONE")

\* A server with a sound disk has opened the file when it answers.
Welcomed(k) ==
    /\ Greeted(k)
    /\ child[k].state # "DONE"
    /\ child[k].state = "READY_FOR_NEXT_SETUP_PACKET" => child[k].fileGood

\* An undisturbed upload, stage by stage.
CleanTransfer ==
    faults = 0 /\ Child # {} =>
      \/ NotServed
      \/ \E k \in Child :
           /\ ServedBy(k)
           /\ \/ Welcomed(k)
              \/ Known(k) /\ (SettingUp(k) \/ Flowing(k) \/ Reminding(k) \/ Ending(k))
      \/ c_state = "DONE" /\ c_exit = "ack eof"

-----------------------------------------------------------------------------
(* The properties.                                                         *)

\* Whatever the children do to each other's file, a chunk in it is the chunk of
\* the local file that belongs there, or a hole left by a truncation.
NoForeignChunk ==
    ~writeErr => /\ Len(remoteFile) <= Len(LocalFile)
                 /\ \A i \in DOMAIN remoteFile : remoteFile[i] \in {LocalFile[i], Hole}

\* With one child on the file and no failed write, the file is a prefix of the
\* local file, as long as the child's RR number says.
Integrity ==
    \A k \in Child : ~writeErr /\ OnlyOpener(k) =>
      remoteFile = SubSeq(LocalFile, 1, IF Receiving(k) THEN child[k].cur_RRnum - 1 ELSE 0)

\* No two children have the file open.
OneOpener == \A j, k \in Child : child[j].fileGood /\ child[k].fileGood => j = k

\* rcopy ends on ACK_EOF only after the whole file has been written.
AckedMeansComplete == c_exit = "ack eof" /\ ~writeErr /\ OneOpener => remoteFile = LocalFile

\* A child remembers a SREJ only for the packet it waits for now.
SrejCurrent == \A k \in Child : child[k].has_SREJ => child[k].num_SREJ = child[k].cur_RRnum

\* rcopy.c:70, "Set when SREJ Packet received": on paths that keep the order, the
\* number that is answered is that of a packet sent before.
SrejNumSet == c_state = "SEND_DATA_SREJ" => SREJ_num \in 1 .. readPos

\* rcopy.c:219 takes the left edge of its window from every RR as it comes: with one
\* child, on paths that keep the order, it never slides back.
WindowSlidesForward == [][c_win_min' >= c_win_min]_c_win_min

\* rcopy.c:295, "Save packet data in window": whatever is acknowledged, asked for again or
\* late, the window holds the packets read last, as many as fit, each in its slot.
LatestKept ==
    /\ c_win_cur = readPos
    /\ \A n \in 1 .. readPos : readPos < n + WinSize =>
         c_window[(n - 1) % WinSize] = Packet("DATA", n, LocalFile[n])

\* END_OF_FILE is handled only by a child that has written the whole file
\* (server.c: "Client only sends an eof if they are done transmitting and the
\* last RR has been sent from the server").
EofOnlyWhenComplete ==
    \A k \in Child : child[k].state = "RECEIVED_EOF" => child[k].offset >= Len(LocalFile) \/ writeErr

\* What rcopy's window has slid past is on the server's disk.
WindowOnDisk == ~writeErr /\ OneOpener => c_win_min <= Len(remoteFile)

\* On timely paths a second child is forked only after a path has misbehaved.
CleanPathOneChild ==
    faults = 0 => \A j, k \in Child : ~Unforked(j) /\ ~Unforked(k) => j = k

\* On timely paths that never misbehave rcopy ends on ACK_EOF and on nothing else,
\* if the file is not shorter than the window (EndsOnTimeoutOrAck tells of those).
CleanPathSucceeds == faults = 0 => c_exit \in {"running", "ack eof"}

\* rcopy.c:160: in a closed window with packets unacknowledged, the slot a
\* timeout resends holds the lowest of them.  (A path that repeats an RR breaks this.)
LowestResendable ==
    c_state = "RECEIVE_DATA_WINDOW_CLOSED" /\ c_win_min < c_win_cur
      => c_window[c_win_min % WinSize].num = c_win_min + 1

\* On timely paths that never misbehave rcopy can resend what it has to.
CleanPathResendable == faults = 0 => LowestResendable

\* The whole file gets to the server's disk.
Delivered == <>(remoteFile = LocalFile)

\* rcopy ends.
ClientStops == <>ClientDone

\* Once rcopy has ended every child ends too.
ChildrenStop == [](ClientDone => <>(\A k \in Child : Unforked(k) \/ Exited(k)))

\* What rcopy makes of the upload, from the reason it ended for.
Verdict ==
    CASE c_exit = "running" -> "running"
      [] c_exit = "ack eof" -> "success"
      [] OTHER              -> "failure"

\* An upload served by one child on a sound disk implements FileCopy.
Copy == INSTANCE FileCopy WITH dest <- remoteFile, verdict <- Verdict

\* Every step of the upload is a step of FileCopy or leaves its copy alone: the
\* file is only ever extended in order, and ACK_EOF comes when it is complete.
ImplementsFileCopy == Copy!CopySpec

-----------------------------------------------------------------------------
(* What comments and tests claim, and the code does not do.                *)

\* rcopy.c:56: rcopy ends on a timeout or on ACK_EOF.
EndsOnTimeoutOrAck == c_exit \in {"running", "timeout", "ack eof"}

\* testRandError.sh:120: after a successful upload the files do not differ.
SuccessMeansEqual == c_exit = "ack eof" => remoteFile = LocalFile

=============================================================================
