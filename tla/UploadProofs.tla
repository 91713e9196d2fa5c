---------------------------- MODULE UploadProofs -----------------------------
(***************************************************************************)
(* Proofs about one upload, for every local file, window size, number of   *)
(* children, and whatever the paths lose, garble, duplicate or reorder.    *)
(***************************************************************************)
EXTENDS UploadProps, TLAPS, SequenceTheorems, WellFoundedInduction

-----------------------------------------------------------------------------
(* Numbers.                                                                *)

Less == {nm \in Nat \X Nat : nm[1] < nm[2]}

\* A set of natural numbers that is not empty has a least element.
LEMMA LeastNatural ==
    ASSUME NEW T \in SUBSET Nat, T # {}
    PROVE  \E n \in T : \A m \in T : n <= m
<1>1. OpToRel(<, Nat) = Less
  BY DEF OpToRel, Less
<1>2. IsWellFoundedOn(Less, Nat)
  BY <1>1, NatLessThanWellFounded
<1>3. PICK x \in T : \A y \in T : ~(<<y, x>> \in Less)
  BY <1>2, WFMin
<1>4. ASSUME NEW m \in T PROVE x <= m
  <2>1. m \in Nat /\ x \in Nat /\ ~(<<m, x>> \in Less)
    BY <1>3
  <2> QED BY <2>1 DEF Less
<1> QED BY <1>4

\* Two indexes of one window that share a slot (index % win_size) are equal.
LEMMA SameSlot ==
    ASSUME NEW W \in Nat \ {0}, NEW a \in Nat, NEW b \in Nat,
           a % W = b % W, a <= b, b - a < W
    PROVE  a = b
<1> DEFINE d == (b \div W) - (a \div W)
<1>1. a = W * (a \div W) + (a % W)
  OBVIOUS
<1>2. b = W * (b \div W) + (b % W)
  OBVIOUS
<1>3. a \div W \in Int /\ b \div W \in Int /\ d \in Int
  OBVIOUS
<1>4. b - a = W * d
  BY <1>1, <1>2, <1>3
<1> HIDE DEF d
<1>5. d < 1
  BY <1>3, <1>4
<1>6. d > -1
  BY <1>3, <1>4
<1>7. d = 0
  BY <1>3, <1>5, <1>6
<1> QED BY <1>4, <1>7

\* index % win_size is a slot of the window.
LEMMA SlotType == \A n \in Int : n % WinSize \in Slots
BY RcopyAssumption DEF RcopyAssumption, Slots

-----------------------------------------------------------------------------
(* Queues, and what travels.                                               *)

\* What Put leaves is a queue of the same packets.
LEMMA PutType ==
    ASSUME NEW S, NEW q \in Seq(S), NEW p \in S
    PROVE  Put(q, p) \in Seq(S)
BY DEF Put

\* Whatever a faulty path makes of a packet is a queue of the same packets.
LEMMA DamagedType ==
    ASSUME NEW S, NEW q \in Seq(S), NEW p \in S, Garbled \in S
    PROVE  Damaged(q, p) \subseteq Seq(S)
BY PutType DEF Damaged

\* Taking a packet out leaves a queue of the same packets.
LEMMA RemoveAtType ==
    ASSUME NEW S, NEW q \in Seq(S), NEW i \in DOMAIN q
    PROVE  RemoveAt(q, i) \in Seq(S)
BY DEF RemoveAt

\* What the local file is made of.
LEMMA FileType == LocalFile \in Seq(Chunk) /\ Len(LocalFile) \in Nat
BY RcopyAssumption DEF RcopyAssumption, Chunk

\* A garbled packet may travel to the server.
LEMMA GarbledGenuine == Garbled \in Genuine
BY DEF Garbled, Genuine, Packets, Flags, SetupFlags, ReplyFlags, Sendable, Packet

\* A garbled packet is a packet.
LEMMA GarbledPacket == Garbled \in Packets
BY DEF Garbled, Packets, Flags, SetupFlags, ReplyFlags, Packet

\* A packet the client sends, whatever it is, leaves genuine packets on the paths.
LEMMA SendToServerType ==
    ASSUME NEW S, NEW p \in S, Garbled \in S, remote \in Server,
           toServer \in [Server -> Seq(S)], faults \in 0 .. MaxFaults,
           SendToServer(p)
    PROVE  /\ toServer' \in [Server -> Seq(S)]
           /\ toClient' = toClient
           /\ faults' \in 0 .. MaxFaults
<1>1. toServer[remote] \in Seq(S)
  OBVIOUS
<1>2. CASE toServer' = [toServer EXCEPT ![remote] = Put(@, p)] /\ UNCHANGED faults
  BY <1>1, <1>2, PutType DEF SendToServer
<1>3. CASE /\ faults < MaxFaults /\ faults' = faults + 1
           /\ \E q \in Damaged(toServer[remote], p) : toServer' = [toServer EXCEPT ![remote] = q]
  <2>1. PICK q \in Damaged(toServer[remote], p) : toServer' = [toServer EXCEPT ![remote] = q]
    BY <1>3
  <2>2. q \in Seq(S)
    BY <1>1, DamagedType
  <2>3. faults' \in 0 .. MaxFaults
    BY <1>3, ChannelAssumption DEF ChannelAssumption
  <2> QED BY <2>1, <2>2, <2>3 DEF SendToServer
<1> QED BY <1>2, <1>3 DEF SendToServer, Transmit

\* A child's reply leaves packets on its path to the client.
LEMMA RespondType ==
    ASSUME NEW k \in Child, NEW p \in Packets,
           toClient \in [Child -> Seq(Packets)], faults \in 0 .. MaxFaults,
           Respond(k, p)
    PROVE  /\ toClient' \in [Child -> Seq(Packets)]
           /\ toServer' = toServer
           /\ faults' \in 0 .. MaxFaults
<1>1. toClient[k] \in Seq(Packets)
  OBVIOUS
<1>2. CASE UNCHANGED <<toClient, faults>>
  BY <1>2 DEF Respond
<1>3. CASE toClient' = [toClient EXCEPT ![k] = Put(@, p)] /\ UNCHANGED faults
  BY <1>1, <1>3, PutType DEF Respond
<1>4. CASE /\ faults < MaxFaults /\ faults' = faults + 1
           /\ \E q \in Damaged(toClient[k], p) : toClient' = [toClient EXCEPT ![k] = q]
  <2>1. PICK q \in Damaged(toClient[k], p) : toClient' = [toClient EXCEPT ![k] = q]
    BY <1>4
  <2>2. q \in Seq(Packets)
    BY <1>1, DamagedType, GarbledPacket
  <2>3. faults' \in 0 .. MaxFaults
    BY <1>4, ChannelAssumption DEF ChannelAssumption
  <2> QED BY <2>1, <2>2, <2>3 DEF Respond
<1> QED BY <1>2, <1>3, <1>4 DEF Respond, Transmit

\* What may travel only grows as the client reads on.
LEMMA GenuineGrows ==
    ASSUME readPos \in Nat, readPos' \in Nat, readPos <= readPos'
    PROVE  Genuine \subseteq Genuine' /\ OwnPacket \subseteq OwnPacket'
BY DEF Genuine, OwnPacket, Sendable

\* Queues over a set are queues over every larger set.
LEMMA SeqGrows ==
    ASSUME NEW S, NEW T, NEW D, S \subseteq T, NEW f \in [D -> Seq(S)]
    PROVE  f \in [D -> Seq(T)]
BY SeqMonotonic

-----------------------------------------------------------------------------
(* The first invariant: types, and where every DATA packet comes from.     *)

WireOK == ChannelTypeOK /\ toServer \in [Server -> Seq(Genuine)]

ClientInv == WireOK /\ ClientTypeOK /\ ClientGenuine /\ ClientCounters

WireInv == ClientInv /\ ServerTypeOK /\ \A k \in Child : ChildGenuine(child[k])

\* A client that sends a genuine packet leaves the paths right.
LEMMA SendKeepsWire ==
    ASSUME WireOK, remote \in Server, readPos \in Nat, readPos' \in Nat, readPos <= readPos',
           NEW p \in Genuine', SendToServer(p)
    PROVE  WireOK'
<1>1. toServer \in [Server -> Seq(Genuine')]
  BY GenuineGrows, SeqGrows DEF WireOK
<1>2. Garbled \in Genuine'
  BY GarbledGenuine, GenuineGrows
<1>3. /\ toServer' \in [Server -> Seq(Genuine')]
      /\ toClient' = toClient
      /\ faults' \in 0 .. MaxFaults
  BY <1>1, <1>2, SendToServerType DEF WireOK, ChannelTypeOK
<1>4. Genuine' \subseteq Packets
  BY DEF Genuine
<1>5. toServer' \in [Server -> Seq(Packets)]
  BY <1>3, <1>4, SeqGrows
<1> QED BY <1>3, <1>5 DEF WireOK, ChannelTypeOK

\* So does a client that receives one, and talks to its sender from then on.
LEMMA ReceiveKeepsWire ==
    ASSUME WireOK, readPos \in Nat, UNCHANGED readPos,
           NEW k \in Child, NEW i \in Deliverable(toClient[k]), RecvFromServer(k, i)
    PROVE  WireOK' /\ toClient[k][i] \in Packets /\ remote' = k
<1>1. i \in DOMAIN toClient[k] /\ toClient[k] \in Seq(Packets)
  BY DEF Deliverable, WireOK, ChannelTypeOK
<1>2. RemoveAt(toClient[k], i) \in Seq(Packets)
  BY <1>1, RemoveAtType
<1>3. toClient' \in [Child -> Seq(Packets)]
  BY <1>2 DEF RecvFromServer, Take, WireOK, ChannelTypeOK
<1>4. toServer' \in [Server -> Seq(Genuine')]
  BY GenuineGrows, SeqGrows DEF WireOK, RecvFromServer
<1> QED BY <1>1, <1>3, <1>4 DEF WireOK, ChannelTypeOK, RecvFromServer

\* So does a client that neither sends nor receives.
LEMMA SilenceKeepsWire ==
    ASSUME WireOK, readPos \in Nat, readPos' \in Nat, readPos <= readPos', UNCHANGED channelVars
    PROVE  WireOK'
<1>1. toServer' \in [Server -> Seq(Genuine')]
  BY GenuineGrows, SeqGrows DEF WireOK, channelVars
<1> QED BY <1>1 DEF WireOK, ChannelTypeOK, channelVars

\* An empty slot holds a packet, though not one that is ever sent.
LEMMA NoPacketType == NoPacket \in Packets /\ NoPacket \notin Genuine
BY DEF NoPacket, Packet, Packets, Flags, Genuine, Sendable

\* What the client's invariant says of what it has read.
LEMMA ReadPosType ==
    ASSUME ClientInv
    PROVE  readPos \in Nat /\ WireOK /\ remote \in Server
BY FileType DEF ClientInv, ClientTypeOK

\* The window of a client whose invariant holds keeps only its own packets.
LEMMA WindowType ==
    ASSUME NEW w \in [Slots -> OwnPacket \cup {NoPacket}]
    PROVE  w \in [Slots -> Packets]
BY NoPacketType DEF OwnPacket, Genuine

\* Resending from the window sends a packet the client has kept, or exits.
LEMMA WindowKeepsWire ==
    ASSUME ClientInv, readPos' = readPos, NEW index \in Int, SendDataFromWindow(index)
    PROVE  /\ WireOK'
           /\ c_exit' \in {"zero length", c_exit}
           /\ c_state' \in {"EXIT", "RECEIVE_DATA_WINDOW_CLOSED", "RECEIVE_DATA_WINDOW_OPEN"}
<1> DEFINE chunk == c_window[index % WinSize]
<1>1. chunk \in OwnPacket \cup {NoPacket}
  BY SlotType DEF ClientInv, ClientGenuine
<1>2. readPos \in Nat /\ WireOK /\ remote \in Server
  BY ReadPosType
<1>3. readPos' \in Nat /\ readPos <= readPos'
  BY <1>2
<1>4. CASE chunk = NoPacket
  <2>1. c_state' = "EXIT" /\ c_exit' = "zero length" /\ UNCHANGED channelVars
    BY <1>4 DEF SendDataFromWindow
  <2>2. WireOK'
    BY <1>2, <1>3, <2>1, SilenceKeepsWire
  <2> QED BY <2>1, <2>2
<1>5. CASE chunk # NoPacket
  <2>1. SendToServer(chunk) /\ Goto(AfterSend(c_win_cur))
    BY <1>5 DEF SendDataFromWindow
  <2>2. chunk \in Genuine'
    BY <1>1, <1>2, <1>3, <1>5, GenuineGrows DEF OwnPacket
  <2>3. PICK p \in Genuine' : SendToServer(p)
    BY <2>1, <2>2 DEF SendToServer, Transmit
  <2>4. WireOK'
    BY <1>2, <1>3, <2>3, SendKeepsWire
  <2> QED BY <2>1, <2>4 DEF Goto, AfterSend
<1> QED BY <1>4, <1>5

\* Every control packet the client sends is genuine.
LEMMA SetupGenuine ==
    /\ Control("FILE_NAME", 0) \in Genuine
    /\ Control("BUFFER_SIZE", 0) \in Genuine
    /\ Control("WINDOW_SIZE", WinSize) \in Genuine
    /\ Control("END_OF_FILE", 0) \in Genuine
BY RcopyAssumption
   DEF RcopyAssumption, Control, Packet, Genuine, Sendable, Packets, Flags, SetupFlags, ReplyFlags

\* What the window keeps stays genuine as the client reads on.
LEMMA WindowGrows ==
    ASSUME readPos \in Nat, readPos' \in Nat, readPos <= readPos',
           NEW w \in [Slots -> OwnPacket \cup {NoPacket}]
    PROVE  w \in [Slots -> OwnPacket' \cup {NoPacket}]
BY GenuineGrows

\* The packet made of a chunk just read is genuine, and the client's own.
LEMMA NextChunkGenuine ==
    ASSUME readPos \in Nat, readPos < Len(LocalFile), readPos' = readPos + 1
    PROVE  Packet("DATA", readPos + 1, LocalFile[readPos + 1]) \in OwnPacket'
<1>1. LocalFile[readPos + 1] \in Chunk
  BY FileType
<1> QED BY <1>1 DEF Packet, OwnPacket, Genuine, Sendable, Packets, Flags

\* Most client actions touch neither the window nor what has been read.
LEMMA ClientSteps ==
    ASSUME ClientInv, WireOK', UNCHANGED sendVars,
           remote' \in Server, fileSuccess' \in BOOLEAN, bufSuccess' \in BOOLEAN,
           c_state' \in ClientStates, c_exit' \in ClientExits,
           c_timeout' \in 0 .. MaxTimeouts + 1,
           c_state' \in ClientSetup \cup ClientData => c_timeout' <= MaxTimeouts,
           c_win_min' \in Int, c_win_max' \in Int, SREJ_num' \in Nat,
           c_state' \in ClientSetup => c_state \in ClientSetup,
           c_state' \in ClientData => c_state \in ClientData
    PROVE  ClientInv' /\ readPos' = readPos
<1>1. ClientTypeOK'
  BY DEF ClientInv, ClientTypeOK, sendVars
<1>2. ClientCounters'
  BY DEF ClientInv, ClientCounters, sendVars
<1>3. c_window' \in [Slots -> OwnPacket' \cup {NoPacket}]
  <2>1. readPos \in Nat /\ readPos' = readPos /\ c_window' = c_window
    BY ReadPosType DEF sendVars
  <2>2. readPos' \in Nat /\ readPos <= readPos'
    BY <2>1
  <2>3. c_window \in [Slots -> OwnPacket \cup {NoPacket}]
    BY DEF ClientInv, ClientGenuine
  <2> QED BY <2>1, <2>2, <2>3, WindowGrows
<1>4. ClientGenuine'
  BY <1>3 DEF ClientGenuine, WireOK
<1> QED BY <1>1, <1>2, <1>4 DEF ClientInv, sendVars

\* The same, when the paths are left alone as well.
LEMMA SilentClientSteps ==
    ASSUME ClientInv, UNCHANGED <<channelVars, SREJ_num, setupVars, sendVars, windowVars>>,
           c_state' \in ClientStates, c_exit' \in ClientExits,
           c_timeout' \in 0 .. MaxTimeouts + 1,
           c_state' \in ClientSetup \cup ClientData => c_timeout' <= MaxTimeouts,
           c_state' \in ClientSetup => c_state \in ClientSetup,
           c_state' \in ClientData => c_state \in ClientData
    PROVE  ClientInv' /\ readPos' = readPos
<1>1. readPos \in Nat /\ WireOK /\ readPos' = readPos
  BY ReadPosType DEF sendVars
<1>2. readPos' \in Nat /\ readPos <= readPos'
  BY <1>1
<1>3. WireOK'
  BY <1>1, <1>2, SilenceKeepsWire
<1>4. /\ remote' \in Server /\ fileSuccess' \in BOOLEAN /\ bufSuccess' \in BOOLEAN
      /\ c_win_min' \in Int /\ c_win_max' \in Int /\ SREJ_num' \in Nat
  BY DEF ClientInv, ClientTypeOK, setupVars, windowVars
<1> QED BY <1>3, <1>4, ClientSteps

\* The same, when a packet is sent.
LEMMA SendingClientSteps ==
    ASSUME ClientInv, UNCHANGED <<c_timeout, SREJ_num, setupVars, sendVars, windowVars>>,
           NEW p \in Genuine, SendToServer(p),
           c_state' \in ClientStates, c_exit' = c_exit,
           c_state' \in ClientSetup => c_state \in ClientSetup,
           c_state' \in ClientData => c_state \in ClientData
    PROVE  ClientInv' /\ readPos' = readPos
<1>1. readPos \in Nat /\ WireOK /\ readPos' = readPos /\ remote \in Server
  BY ReadPosType DEF sendVars
<1>2. readPos' \in Nat /\ readPos <= readPos'
  BY <1>1
<1>3. p \in Genuine'
  BY <1>1, <1>2, GenuineGrows
<1>4. WireOK'
  BY <1>1, <1>2, <1>3, SendKeepsWire
<1>5. /\ remote' \in Server /\ fileSuccess' \in BOOLEAN /\ bufSuccess' \in BOOLEAN
      /\ c_win_min' \in Int /\ c_win_max' \in Int /\ SREJ_num' \in Nat
      /\ c_exit' \in ClientExits /\ c_timeout' \in 0 .. MaxTimeouts + 1
      /\ c_state' \in ClientSetup \cup ClientData => c_timeout' <= MaxTimeouts
  BY DEF ClientInv, ClientTypeOK, ClientCounters, setupVars, windowVars
<1> QED BY <1>4, <1>5, ClientSteps

\* The same, when a packet is received.
LEMMA ReceivingClientSteps ==
    ASSUME ClientInv, UNCHANGED sendVars,
           NEW k \in Child, NEW i \in Deliverable(toClient[k]), RecvFromServer(k, i),
           fileSuccess' \in BOOLEAN, bufSuccess' \in BOOLEAN,
           c_state' \in ClientStates, c_exit' \in ClientExits, c_timeout' = 0,
           c_win_min' \in Int, c_win_max' \in Int, SREJ_num' \in Nat,
           c_state' \in ClientSetup => c_state \in ClientSetup,
           c_state' \in ClientData => c_state \in ClientData
    PROVE  ClientInv' /\ readPos' = readPos
<1>1. readPos \in Nat /\ WireOK /\ readPos' = readPos
  BY ReadPosType DEF sendVars
<1>2. WireOK' /\ remote' = k
  BY <1>1, ReceiveKeepsWire
<1>3. c_timeout' \in 0 .. MaxTimeouts + 1 /\ c_timeout' <= MaxTimeouts /\ remote' \in Server
  BY <1>2, RcopyAssumption DEF RcopyAssumption, Server
<1> QED BY <1>2, <1>3, ClientSteps

\* The client's setup actions keep its invariant.
LEMMA SetupStep ==
    ASSUME ClientInv,
           \/ SendRemoteFileName \/ SendBufferSize \/ SendWindowSize
           \/ WaitForSetupAcks \/ WaitForSetupAcksTimeout \/ ReadyToSendDataSetup
    PROVE  ClientInv' /\ readPos' = readPos
<1>1. CASE SendRemoteFileName \/ SendBufferSize \/ SendWindowSize
  <2>1. PICK p \in Genuine : SendToServer(p)
    BY <1>1, SetupGenuine DEF SendRemoteFileName, SendBufferSize, SendWindowSize, SendSetup
  <2>2. /\ c_state \in ClientSetup
        /\ c_state' = "WAIT_FOR_SETUP_ACKS" /\ c_exit' = c_exit
        /\ UNCHANGED <<c_timeout, SREJ_num, setupVars, sendVars, windowVars>>
    BY <1>1 DEF SendRemoteFileName, SendBufferSize, SendWindowSize, SendSetup, Goto, ClientSetup
  <2>3. /\ c_state' \in ClientStates
        /\ c_state' \in ClientSetup => c_state \in ClientSetup
        /\ c_state' \in ClientData => c_state \in ClientData
    BY <2>2 DEF ClientStates, ClientSetup, ClientData
  <2> QED BY <2>1, <2>2, <2>3, SendingClientSteps
<1>2. CASE WaitForSetupAcks
  <2>1. PICK k \in Child : \E i \in Deliverable(toClient[k]) :
               /\ RecvFromServer(k, i)
               /\ IF toClient[k][i].flag = "REJ_FILE_NAME_NO_OPEN"
                    THEN Quit("rejected")
                    ELSE Goto(AfterSetupReply(toClient[k][i].flag))
               /\ fileSuccess' = (fileSuccess \/ toClient[k][i].flag = "ACK_FILE_NAME")
               /\ bufSuccess' = (bufSuccess \/ toClient[k][i].flag = "ACK_BUFFER_SIZE")
    BY <1>2 DEF WaitForSetupAcks
  <2>2. PICK i \in Deliverable(toClient[k]) :
               /\ RecvFromServer(k, i)
               /\ IF toClient[k][i].flag = "REJ_FILE_NAME_NO_OPEN"
                    THEN Quit("rejected")
                    ELSE Goto(AfterSetupReply(toClient[k][i].flag))
               /\ fileSuccess' = (fileSuccess \/ toClient[k][i].flag = "ACK_FILE_NAME")
               /\ bufSuccess' = (bufSuccess \/ toClient[k][i].flag = "ACK_BUFFER_SIZE")
    BY <2>1
  <2>3. AfterSetupReply(toClient[k][i].flag) \in ClientSetup
    BY DEF AfterSetupReply, ClientSetup
  <2>4. /\ c_state \in ClientSetup
        /\ c_state' \in ClientSetup \cup {"DONE"}
        /\ c_exit' \in {"rejected", c_exit}
        /\ UNCHANGED <<SREJ_num, sendVars, windowVars>> /\ c_timeout' = 0
    BY <1>2, <2>2, <2>3 DEF WaitForSetupAcks, Quit, Goto, ClientSetup
  <2>5. fileSuccess' \in BOOLEAN /\ bufSuccess' \in BOOLEAN
    BY <2>2
  <2>6. /\ c_state' \in ClientStates
        /\ c_state' \in ClientData => c_state \in ClientData
    BY <2>4 DEF ClientStates, ClientSetup, ClientData
  <2>7. c_exit' \in ClientExits /\ c_win_min' \in Int /\ c_win_max' \in Int /\ SREJ_num' \in Nat
    BY <2>4 DEF ClientInv, ClientTypeOK, ClientExits, windowVars
  <2>8. UNCHANGED sendVars /\ c_timeout' = 0 /\ RecvFromServer(k, i)
    BY <2>2, <2>4
  <2> QED BY <2>4, <2>5, <2>6, <2>7, <2>8, ReceivingClientSteps
<1>3. CASE WaitForSetupAcksTimeout
  <2>1. /\ c_state \in ClientSetup
        /\ c_state' \in ClientSetup \cup {"TIMEOUT_ON_SETUP_SERVER"}
        /\ c_exit' = c_exit
        /\ UNCHANGED <<channelVars, SREJ_num, setupVars, sendVars, windowVars>>
    BY <1>3 DEF WaitForSetupAcksTimeout, Goto, ClientSetup
  <2>2. /\ c_state' \in ClientStates /\ c_exit' \in ClientExits
        /\ c_state' \notin ClientData
    BY <2>1 DEF ClientStates, ClientSetup, ClientData, ClientInv, ClientTypeOK
  <2>3. c_timeout' \in 0 .. MaxTimeouts + 1 /\ (c_state' \in ClientSetup => c_timeout' <= MaxTimeouts)
    <3>1. c_timeout \in Nat /\ c_timeout <= MaxTimeouts /\ c_timeout' = c_timeout + 1
      BY <1>3, <2>1 DEF WaitForSetupAcksTimeout, ClientInv, ClientTypeOK, ClientCounters
    <3>2. c_timeout' > MaxTimeouts => c_state' = "TIMEOUT_ON_SETUP_SERVER"
      BY <1>3 DEF WaitForSetupAcksTimeout, Goto
    <3> QED BY <3>1, <3>2, RcopyAssumption DEF RcopyAssumption, ClientSetup
  <2> QED BY <2>1, <2>2, <2>3, SilentClientSteps
<1>4. CASE ReadyToSendDataSetup
  <2>1. /\ c_state = "READY_TO_SEND_DATA_SETUP" /\ c_state' = "SEND_DATA" /\ c_exit' = c_exit
        /\ cur_packet_num' = 1 /\ c_timeout' = 0
        /\ c_win_min' = 0 /\ c_win_cur' = 0 /\ c_win_max' = WinSize
        /\ c_window' = [i \in Slots |-> NoPacket]
        /\ UNCHANGED <<channelVars, setupVars, doneTransmitting, readPos, SREJ_num>>
    BY <1>4 DEF ReadyToSendDataSetup, Goto
  <2>2. readPos \in Nat /\ WireOK /\ readPos' = readPos
    BY <2>1, ReadPosType
  <2>3. readPos' \in Nat /\ readPos <= readPos'
    BY <2>2
  <2>4. WireOK'
    BY <2>1, <2>2, <2>3, SilenceKeepsWire
  <2>5. c_window' \in [Slots -> OwnPacket' \cup {NoPacket}]
    BY <2>1
  <2>6. ClientGenuine'
    BY <2>4, <2>5 DEF WireOK, ClientGenuine
  <2>7. ClientTypeOK'
    <3>1. c_window' \in [Slots -> Packets]
      BY <2>1, NoPacketType
    <3> QED BY <2>1, <3>1, RcopyAssumption
            DEF ClientInv, ClientTypeOK, ClientStates, ClientData, setupVars, RcopyAssumption
  <2>8. ClientCounters'
    BY <2>1, RcopyAssumption
       DEF ClientInv, ClientTypeOK, ClientCounters, ClientSetup, ClientData, RcopyAssumption
  <2> QED BY <2>2, <2>4, <2>6, <2>7, <2>8 DEF ClientInv
<1> QED BY <1>1, <1>2, <1>3, <1>4

\* Whatever packet the client receives in its data phase, it goes on or is done.
LEMMA ProcessType ==
    ASSUME ClientInv, NEW p \in Packets, ProcessIncomingData(p)
    PROVE  /\ c_state' \in ClientData \cup {"DONE"}
           /\ c_exit' \in ClientExits
           /\ c_win_min' \in Int /\ c_win_max' \in Int
<1>1. p.num \in Nat /\ WinSize \in Nat
  BY RcopyAssumption DEF RcopyAssumption, Packets
<1>2. c_win_min \in Int /\ c_win_max \in Int /\ c_exit \in ClientExits
  BY DEF ClientInv, ClientTypeOK
<1>3. c_win_min' \in Int /\ c_win_max' \in Int
  <2>1. CASE p.flag = "RR"
    BY <1>1, <2>1 DEF ProcessIncomingData
  <2>2. CASE p.flag # "RR"
    BY <1>2, <2>2 DEF ProcessIncomingData, windowVars
  <2> QED BY <2>1, <2>2
<1>4. c_exit' \in ClientExits
  BY <1>2 DEF ProcessIncomingData, Quit, Goto, ClientExits
<1>5. c_state' \in ClientData \cup {"DONE"}
  BY DEF ProcessIncomingData, Quit, Goto, AfterRR, ClientData
<1> QED BY <1>3, <1>4, <1>5

\* A step in which the client receives in its data phase.
LEMMA DataReceiveStep ==
    ASSUME ClientInv, ReceiveDataWindowOpen \/ ReceiveDataWindowClosed \/ SendEofReply
    PROVE  ClientInv' /\ readPos' = readPos
<1>1. PICK k \in Child : \E i \in Deliverable(toClient[k]) :
             /\ RecvFromServer(k, i)
             /\ ProcessIncomingData(toClient[k][i])
             /\ SREJ_num' \in {SREJ_num, toClient[k][i].num}
  BY DEF ReceiveDataWindowOpen, ReceiveDataWindowClosed, ReceiveData, SendEofReply
<1>2. PICK i \in Deliverable(toClient[k]) :
             /\ RecvFromServer(k, i)
             /\ ProcessIncomingData(toClient[k][i])
             /\ SREJ_num' \in {SREJ_num, toClient[k][i].num}
  BY <1>1
<1>3. /\ c_state \in ClientData
      /\ UNCHANGED <<fileSuccess, bufSuccess, sendVars>> /\ c_timeout' = 0
  BY DEF ReceiveDataWindowOpen, ReceiveDataWindowClosed, ReceiveData, SendEofReply, ClientData
<1>4. toClient[k][i] \in Packets
  <2>1. i \in DOMAIN toClient[k]
    BY DEF Deliverable
  <2>2. toClient[k] \in Seq(Packets)
    BY DEF ClientInv, WireOK, ChannelTypeOK
  <2> QED BY <2>1, <2>2
<1>5. PICK p \in Packets : p = toClient[k][i] /\ ProcessIncomingData(p)
  BY <1>2, <1>4 DEF ProcessIncomingData
<1>6. /\ c_state' \in ClientData \cup {"DONE"}
      /\ c_exit' \in ClientExits
      /\ c_win_min' \in Int /\ c_win_max' \in Int
  BY <1>5, ProcessType
<1>7. SREJ_num' \in Nat /\ fileSuccess' \in BOOLEAN /\ bufSuccess' \in BOOLEAN
  BY <1>2, <1>3, <1>4 DEF ClientInv, ClientTypeOK, Packets
<1>8. c_state' \in ClientStates /\ c_state' \notin ClientSetup
  BY <1>6 DEF ClientStates, ClientSetup, ClientData
<1>9. UNCHANGED sendVars /\ c_timeout' = 0 /\ RecvFromServer(k, i)
  BY <1>2, <1>3
<1> QED BY <1>3, <1>6, <1>7, <1>8, <1>9, ReceivingClientSteps

\* A step in which the client resends from its window.
LEMMA ResendStep ==
    ASSUME ClientInv, NEW index \in Int, SendDataFromWindow(index),
           UNCHANGED <<SREJ_num, setupVars, sendVars, windowVars>>,
           c_state \in ClientData, c_timeout' \in 0 .. MaxTimeouts
    PROVE  ClientInv' /\ readPos' = readPos
<1>1. readPos' = readPos
  BY DEF sendVars
<1>2. /\ WireOK'
      /\ c_exit' \in {"zero length", c_exit}
      /\ c_state' \in {"EXIT", "RECEIVE_DATA_WINDOW_CLOSED", "RECEIVE_DATA_WINDOW_OPEN"}
  BY <1>1, WindowKeepsWire
<1>3. /\ remote' \in Server /\ fileSuccess' \in BOOLEAN /\ bufSuccess' \in BOOLEAN
      /\ c_win_min' \in Int /\ c_win_max' \in Int /\ SREJ_num' \in Nat
      /\ c_exit' \in ClientExits
  BY <1>2 DEF ClientInv, ClientTypeOK, setupVars, windowVars, ClientExits
<1>4. c_state' \in ClientStates /\ c_state' \notin ClientSetup
  BY <1>2 DEF ClientStates, ClientSetup, ClientData
<1>5. c_timeout' \in 0 .. MaxTimeouts + 1 /\ c_timeout' <= MaxTimeouts
  BY RcopyAssumption DEF RcopyAssumption
<1> QED BY <1>2, <1>3, <1>4, <1>5, ClientSteps

\* The client's steps that read and send new data keep its invariant.
LEMMA SendDataStep ==
    ASSUME ClientInv, SendData
    PROVE  ClientInv' /\ readPos' = readPos + 1
<1> DEFINE p == Packet("DATA", cur_packet_num, LocalFile[readPos + 1])
<1>1. readPos \in Nat /\ WireOK /\ remote \in Server
  BY ReadPosType
<1>2. /\ c_state = "SEND_DATA" /\ readPos < Len(LocalFile)
      /\ c_window' = [c_window EXCEPT ![c_win_cur % WinSize] = p]
      /\ c_win_cur' = c_win_cur + 1 /\ cur_packet_num' = cur_packet_num + 1
      /\ readPos' = readPos + 1
      /\ c_state' \in {"RECEIVE_DATA_WINDOW_CLOSED", "RECEIVE_DATA_WINDOW_OPEN"}
      /\ c_exit' = c_exit
      /\ UNCHANGED <<c_timeout, SREJ_num, setupVars, doneTransmitting, windowVars>>
  BY DEF SendData, Goto, AfterSend
<1>3. cur_packet_num = readPos + 1
  BY <1>2 DEF ClientInv, ClientCounters, ClientData
<1>4. p \in OwnPacket'
  BY <1>1, <1>2, <1>3, NextChunkGenuine
<1>5. readPos' \in Nat /\ readPos <= readPos'
  BY <1>1, <1>2
<1>6. PICK q \in Genuine' : SendToServer(q)
  BY <1>4 DEF SendData, SendToServer, Transmit, OwnPacket
<1>7. WireOK'
  BY <1>1, <1>5, <1>6, SendKeepsWire
<1>8. c_window \in [Slots -> OwnPacket' \cup {NoPacket}]
  BY <1>1, <1>5, WindowGrows DEF ClientInv, ClientGenuine
<1>9. c_window' \in [Slots -> OwnPacket' \cup {NoPacket}]
  BY <1>2, <1>4, <1>8
<1>10. c_window' \in [Slots -> Packets]
  BY <1>9, NoPacketType DEF OwnPacket, Genuine
<1>11. ClientTypeOK'
  <2>1. readPos' \in 0 .. Len(LocalFile)
    BY <1>1, <1>2, FileType
  <2>2. c_state' \in ClientStates
    BY <1>2 DEF ClientStates, ClientData
  <2> QED BY <1>2, <1>10, <2>1, <2>2 DEF ClientInv, ClientTypeOK, setupVars, windowVars
<1>12. ClientCounters'
  <2>1. /\ cur_packet_num' = readPos' + 1 /\ cur_packet_num' > 0
        /\ c_timeout' <= MaxTimeouts /\ c_state' \notin ClientSetup
    BY <1>1, <1>2, <1>3 DEF ClientInv, ClientCounters, ClientData, ClientSetup
  <2>2. ~doneTransmitting'
    BY <1>1, <1>2, FileType DEF ClientInv, ClientCounters
  <2>3. doneTransmitting' => readPos' = Len(LocalFile)
    BY <2>2, Zenon
  <2>4. cur_packet_num' # 0
    BY <2>1
  <2> QED BY <2>1, <2>3, <2>4, Zenon DEF ClientCounters
<1> QED BY <1>2, <1>7, <1>9, <1>11, <1>12 DEF ClientInv, ClientGenuine, WireOK

\* The client's other steps of the data phase keep its invariant.
LEMMA DataStep ==
    ASSUME ClientInv,
           \/ SendDataEndOfFile \/ SendDataReadError \/ SendDataSrej
           \/ ReceiveDataWindowOpenEmpty \/ ReceiveDataWindowClosedTimeout
           \/ SendEof \/ SendEofTimeout \/ TimeoutOnServer
    PROVE  ClientInv' /\ readPos' = readPos
<1>1. CASE SendDataEndOfFile
  <2>1. /\ c_state = "SEND_DATA" /\ readPos = Len(LocalFile)
        /\ doneTransmitting' = TRUE
        /\ c_state' = "RECEIVE_DATA_WINDOW_CLOSED" /\ c_exit' = c_exit
        /\ UNCHANGED <<channelVars, c_timeout, SREJ_num, setupVars, windowVars,
                       c_win_cur, cur_packet_num, readPos, c_window>>
    BY <1>1 DEF SendDataEndOfFile, Goto
  <2>2. readPos \in Nat /\ WireOK /\ readPos' = readPos
    BY <2>1, ReadPosType
  <2>3. readPos' \in Nat /\ readPos <= readPos'
    BY <2>2
  <2>4. WireOK'
    BY <2>1, <2>2, <2>3, SilenceKeepsWire
  <2>5. c_window' \in [Slots -> OwnPacket' \cup {NoPacket}]
    BY <2>1, <2>2, <2>3, WindowGrows DEF ClientInv, ClientGenuine
  <2>6. ClientTypeOK'
    BY <2>1 DEF ClientInv, ClientTypeOK, ClientStates, ClientData, setupVars, windowVars
  <2>7. ClientCounters'
    BY <2>1 DEF ClientInv, ClientCounters, ClientSetup, ClientData
  <2> QED BY <2>2, <2>4, <2>5, <2>6, <2>7 DEF ClientInv, ClientGenuine, WireOK
<1>2. CASE SendDataSrej
  <2>1. (SREJ_num + WordMod - 1) % WordMod \in Int
    BY RcopyAssumption DEF RcopyAssumption, ClientInv, ClientTypeOK
  <2>2. PICK index \in Int : SendDataFromWindow(index)
    BY <1>2, <2>1 DEF SendDataSrej, SendDataFromWindow, SendToServer, Transmit
  <2>3. /\ c_state \in ClientData
        /\ UNCHANGED <<c_timeout, SREJ_num, setupVars, sendVars, windowVars>>
    BY <1>2 DEF SendDataSrej, ClientData
  <2>4. c_timeout' \in 0 .. MaxTimeouts
    BY <2>3, RcopyAssumption DEF ClientInv, ClientTypeOK, ClientCounters, RcopyAssumption
  <2>5. UNCHANGED <<SREJ_num, setupVars, sendVars, windowVars>>
    BY <2>3
  <2> QED BY <2>2, <2>3, <2>4, <2>5, ResendStep
<1>3. CASE ReceiveDataWindowClosedTimeout
  <2>1. /\ c_state = "RECEIVE_DATA_WINDOW_CLOSED"
        /\ c_timeout' = c_timeout + 1
        /\ UNCHANGED <<SREJ_num, setupVars, sendVars, windowVars>>
    BY <1>3 DEF ReceiveDataWindowClosedTimeout
  <2>2. c_state \in ClientData /\ c_timeout' \in 0 .. MaxTimeouts + 1
    BY <2>1, RcopyAssumption DEF ClientInv, ClientTypeOK, ClientCounters, ClientData, RcopyAssumption
  <2>3. CASE c_timeout' > MaxTimeouts
    <3>1. c_state' = "TIMEOUT_ON_SERVER" /\ c_exit' = c_exit /\ UNCHANGED channelVars
      BY <1>3, <2>3 DEF ReceiveDataWindowClosedTimeout, Goto
    <3>2. /\ c_state' \in ClientStates /\ c_exit' \in ClientExits
          /\ c_state' \notin ClientSetup /\ c_state' \notin ClientData
      BY <3>1 DEF ClientInv, ClientTypeOK, ClientStates, ClientSetup, ClientData
    <3>3. UNCHANGED <<channelVars, SREJ_num, setupVars, sendVars, windowVars>>
      BY <2>1, <3>1
    <3> QED BY <2>2, <3>2, <3>3, SilentClientSteps
  <2>4. CASE ~(c_timeout' > MaxTimeouts)
    <3>1. PICK index \in Int : SendDataFromWindow(index)
      BY <1>3, <2>4
         DEF ReceiveDataWindowClosedTimeout, SendDataFromWindow, SendToServer, Transmit,
             ClientInv, ClientTypeOK
    <3>2. c_timeout' \in 0 .. MaxTimeouts
      BY <2>2, <2>4, RcopyAssumption DEF RcopyAssumption
    <3> QED BY <2>1, <2>2, <3>1, <3>2, ResendStep
  <2> QED BY <2>3, <2>4
<1>4. CASE SendEof
  <2>1. PICK p \in Genuine : SendToServer(p)
    BY <1>4, SetupGenuine DEF SendEof
  <2>2. /\ c_state = "SEND_EOF_AND_QUIT" /\ c_state' = "SEND_EOF_SELECT" /\ c_exit' = c_exit
        /\ UNCHANGED <<c_timeout, SREJ_num, setupVars, sendVars, windowVars>>
    BY <1>4 DEF SendEof, Goto
  <2>3. /\ c_state' \in ClientStates
        /\ c_state' \notin ClientSetup /\ c_state \in ClientData
    BY <2>2 DEF ClientStates, ClientSetup, ClientData
  <2> QED BY <2>1, <2>2, <2>3, SendingClientSteps
<1>5. CASE SendDataReadError \/ ReceiveDataWindowOpenEmpty \/ SendEofTimeout \/ TimeoutOnServer
  <2>1. /\ UNCHANGED <<channelVars, SREJ_num, setupVars, sendVars, windowVars>>
        /\ c_state' \in {"DONE", "SEND_DATA", "RECEIVE_DATA_WINDOW_CLOSED", "TIMEOUT_ON_SERVER",
                         "SEND_EOF_AND_QUIT"}
        /\ c_exit' \in {"read error", "timeout", c_exit}
        /\ c_state' \in ClientData => c_state \in ClientData
    BY <1>5 DEF SendDataReadError, ReceiveDataWindowOpenEmpty, SendEofTimeout, TimeoutOnServer,
                Quit, Goto, ClientData
  <2>2. /\ c_state' \in ClientStates /\ c_exit' \in ClientExits
        /\ c_state' \notin ClientSetup
    BY <2>1 DEF ClientInv, ClientTypeOK, ClientStates, ClientExits, ClientSetup, ClientData
  <2>3. /\ c_timeout' \in 0 .. MaxTimeouts + 1
        /\ c_state' \in ClientData => c_timeout' <= MaxTimeouts
    <3>1. /\ c_timeout \in 0 .. MaxTimeouts + 1
          /\ c_state \in ClientData => c_timeout <= MaxTimeouts
      BY DEF ClientInv, ClientTypeOK, ClientCounters
    <3>2. CASE SendEofTimeout
      BY <3>1, <3>2, RcopyAssumption DEF SendEofTimeout, Goto, ClientData, RcopyAssumption
    <3>3. CASE SendDataReadError \/ ReceiveDataWindowOpenEmpty \/ TimeoutOnServer
      BY <2>1, <3>1, <3>3 DEF SendDataReadError, ReceiveDataWindowOpenEmpty, TimeoutOnServer
    <3> QED BY <1>5, <3>2, <3>3
  <2> QED BY <2>1, <2>2, <2>3, SilentClientSteps
<1> QED BY <1>1, <1>2, <1>3, <1>4, <1>5

\* Every step of the client keeps its invariant, and the client never reads back.
LEMMA ClientStepInv ==
    ASSUME ClientInv, RcopyStep \/ RcopyTimeout
    PROVE  ClientInv' /\ readPos' \in Nat /\ readPos <= readPos'
<1>1. CASE \/ SendRemoteFileName \/ SendBufferSize \/ SendWindowSize
           \/ WaitForSetupAcks \/ WaitForSetupAcksTimeout \/ ReadyToSendDataSetup
  BY <1>1, SetupStep, ReadPosType
<1>2. CASE SendData
  BY <1>2, SendDataStep, ReadPosType
<1>3. CASE ReceiveDataWindowOpen \/ ReceiveDataWindowClosed \/ SendEofReply
  BY <1>3, DataReceiveStep, ReadPosType
<1>4. CASE \/ SendDataEndOfFile \/ SendDataReadError \/ SendDataSrej
           \/ ReceiveDataWindowOpenEmpty \/ ReceiveDataWindowClosedTimeout
           \/ SendEof \/ SendEofTimeout \/ TimeoutOnServer
  BY <1>4, DataStep, ReadPosType
<1> QED BY <1>1, <1>2, <1>3, <1>4 DEF RcopyStep, RcopyTimeout

-----------------------------------------------------------------------------
(* The server's steps.  They leave the client, and so what is genuine,     *)
(* alone.                                                                  *)

\* What is genuine does not change while the client stands still.
LEMMA GenuineSame ==
    ASSUME UNCHANGED readPos
    PROVE  Genuine' = Genuine /\ OwnPacket' = OwnPacket
BY DEF Genuine, OwnPacket, Sendable

\* A child's record is judged the same while the client stands still.
LEMMA ChildGenuineSame ==
    ASSUME UNCHANGED readPos, NEW k \in Child, child'[k] = child[k], ChildGenuine(child[k])
    PROVE  ChildGenuine(child[k])'
BY GenuineSame DEF ChildGenuine

\* A step of the server that changes at most the record of child k.
LEMMA ServerSteps ==
    ASSUME WireInv, WireOK', UNCHANGED rcopyVars, NEW k \in Child, ServerTypeOK',
           \A j \in Child \ {k} : child'[j] = child[j],
           ChildGenuine(child[k])'
    PROVE  WireInv'
<1>1. UNCHANGED readPos /\ UNCHANGED <<c_window, c_state, cur_packet_num, doneTransmitting, c_timeout>>
  BY DEF rcopyVars, sendVars
<1>2. ClientTypeOK'
  BY DEF WireInv, ClientInv, ClientTypeOK, rcopyVars, setupVars, sendVars, windowVars
<1>3. ClientCounters'
  BY <1>1 DEF WireInv, ClientInv, ClientCounters
<1>4. ClientGenuine'
  BY <1>1, GenuineSame DEF WireInv, ClientInv, ClientGenuine, WireOK
<1>5. ASSUME NEW j \in Child PROVE ChildGenuine(child[j])'
  BY <1>1, ChildGenuineSame DEF WireInv
<1> QED BY <1>2, <1>3, <1>4, <1>5 DEF WireInv, ClientInv

\* A step of the client leaves the children as they are.
LEMMA ChildrenKeep ==
    ASSUME WireInv, UNCHANGED serverVars, ClientInv', readPos' \in Nat, readPos <= readPos'
    PROVE  WireInv'
<1>1. ServerTypeOK'
  BY DEF WireInv, ServerTypeOK, serverVars, fileVars
<1>2. ASSUME NEW k \in Child PROVE ChildGenuine(child[k])'
  <2>1. child' = child /\ ChildGenuine(child[k])
    BY DEF serverVars, WireInv
  <2>2. readPos \in Nat
    BY ReadPosType DEF WireInv
  <2> QED BY <2>1, <2>2, GenuineGrows DEF ChildGenuine
<1> QED BY <1>1, <1>2 DEF WireInv

\* A reply leaves the paths well typed.
LEMMA RespondKeepsWire ==
    ASSUME WireOK, UNCHANGED readPos, NEW k \in Child, NEW p \in Packets, Respond(k, p)
    PROVE  WireOK'
<1>1. toClient' \in [Child -> Seq(Packets)] /\ toServer' = toServer /\ faults' \in 0 .. MaxFaults
  BY RespondType DEF WireOK, ChannelTypeOK
<1> QED BY <1>1, GenuineSame DEF WireOK, ChannelTypeOK

\* So does a packet a server process takes off its queue, which is a genuine one.
LEMMA TakeKeepsWire ==
    ASSUME WireOK, UNCHANGED <<readPos, toClient, faults>>,
           NEW s \in Server, NEW i \in Deliverable(toServer[s]), Take(toServer, s, i)
    PROVE  WireOK' /\ toServer[s][i] \in Genuine /\ Genuine \subseteq Packets
<1>1. i \in DOMAIN toServer[s] /\ toServer[s] \in Seq(Genuine) /\ toServer[s] \in Seq(Packets)
  BY DEF Deliverable, WireOK, ChannelTypeOK
<1>2. RemoveAt(toServer[s], i) \in Seq(Genuine) /\ RemoveAt(toServer[s], i) \in Seq(Packets)
  BY <1>1, RemoveAtType
<1>3. toServer' \in [Server -> Seq(Genuine)] /\ toServer' \in [Server -> Seq(Packets)]
  BY <1>2 DEF Take, WireOK, ChannelTypeOK
<1>4. toServer[s][i] \in Genuine /\ Genuine \subseteq Packets
  BY <1>1 DEF Genuine
<1> QED BY <1>3, <1>4, GenuineSame DEF WireOK, ChannelTypeOK

\* A control packet is a packet.
LEMMA ControlType ==
    ASSUME NEW f \in Flags, NEW n \in Nat
    PROVE  Control(f, n) \in Packets
BY DEF Control, Packet, Packets

\* What becomes of the children's records when child k's becomes r.
LEMMA BecomeType ==
    ASSUME NEW k \in Child, NEW r, Become(k, r), child \in [Child -> ChildTypes]
    PROVE  /\ child'[k] = r
           /\ \A j \in Child \ {k} : child'[j] = child[j]
           /\ r \in ChildTypes => child' \in [Child -> ChildTypes]
BY DEF Become

\* A step of child k that sends or receives nothing, or sends, or receives, is
\* judged by what k's record becomes.
LEMMA BecomeStep ==
    ASSUME WireInv, WireOK', UNCHANGED rcopyVars, NEW k \in Child,
           NEW r \in ChildTypes, Become(k, r), ChildGenuine(r),
           remoteFile' \in Seq(Chunk \cup {Hole}), writeErr' \in BOOLEAN
    PROVE  WireInv'
<1>1. child \in [Child -> ChildTypes] /\ UNCHANGED readPos
  BY DEF WireInv, ServerTypeOK, rcopyVars, sendVars
<1>2. /\ child'[k] = r
      /\ \A j \in Child \ {k} : child'[j] = child[j]
      /\ child' \in [Child -> ChildTypes]
  BY <1>1, BecomeType
<1>3. ServerTypeOK'
  BY <1>2 DEF ServerTypeOK
<1>4. ChildGenuine(child[k])'
  BY <1>1, <1>2, GenuineSame DEF ChildGenuine
<1> QED BY <1>2, <1>3, <1>4, ServerSteps

\* The main loop's step.
LEMMA MainStep ==
    ASSUME WireInv, MainNext
    PROVE  WireInv'
<1>1. PICK k \in Child : MainAccept(k)
  BY DEF MainNext
<1>2. /\ UNCHANGED rcopyVars /\ UNCHANGED <<readPos, toClient, faults, fileVars>>
      /\ child[k].state = "NONE"
      /\ WireOK /\ Main \in Server
      /\ child[k] \in ChildTypes /\ ChildGenuine(child[k])
  BY <1>1 DEF MainNext, MainAccept, Unforked, rcopyVars, sendVars, WireInv, ClientInv, ServerTypeOK,
              Server
<1>3. PICK i \in Deliverable(toServer[Main]) :
        /\ Take(toServer, Main, i)
        /\ IF toServer[Main][i].flag = "CRC_ERROR"
             THEN UNCHANGED child
             ELSE Become(k, [child[k] EXCEPT !.state = "RECEIVED_REMOTE_FILE_NAME",
                                             !.recvPacket = toServer[Main][i]])
  BY <1>1 DEF MainAccept
<1>4. WireOK' /\ toServer[Main][i] \in Genuine /\ Genuine \subseteq Packets
  BY <1>2, <1>3, TakeKeepsWire
<1>5. remoteFile' \in Seq(Chunk \cup {Hole}) /\ writeErr' \in BOOLEAN
  BY <1>2 DEF WireInv, ServerTypeOK, fileVars
<1>6. CASE UNCHANGED child
  <2>1. child' = [child EXCEPT ![k] = child[k]]
    BY <1>6 DEF WireInv, ServerTypeOK
  <2> QED BY <1>2, <1>4, <1>5, <2>1, BecomeStep DEF Become
<1>7. CASE Become(k, [child[k] EXCEPT !.state = "RECEIVED_REMOTE_FILE_NAME",
                                      !.recvPacket = toServer[Main][i]])
  <2>1. PICK p \in Genuine : p = toServer[Main][i]
    BY <1>4
  <2>2. PICK r : r = [child[k] EXCEPT !.state = "RECEIVED_REMOTE_FILE_NAME", !.recvPacket = p]
    OBVIOUS
  <2>3. Become(k, r)
    BY <1>7, <2>1, <2>2
  <2>4. p \in Packets /\ "RECEIVED_REMOTE_FILE_NAME" \in ChildStates
    BY <1>4 DEF ChildStates, ChildSetup, ChildData
  <2>5. r \in ChildTypes
    BY <1>2, <2>2, <2>4 DEF ChildTypes
  <2>6. ChildGenuine(r)
    BY <1>2, <2>2 DEF ChildGenuine, ChildData, ChildTypes
  <2> QED BY <1>2, <1>4, <1>5, <2>3, <2>5, <2>6, BecomeStep
<1> QED BY <1>3, <1>6, <1>7

\* What the invariant gives a step of child k to start from.
LEMMA ChildStart ==
    ASSUME WireInv, UNCHANGED rcopyVars, NEW k \in Child
    PROVE  /\ WireOK /\ UNCHANGED readPos /\ k \in Server
           /\ child[k] \in ChildTypes /\ ChildGenuine(child[k])
           /\ remoteFile \in Seq(Chunk \cup {Hole}) /\ writeErr \in BOOLEAN
BY DEF WireInv, ClientInv, ServerTypeOK, rcopyVars, sendVars, Server

\* The steps of a child that answers a setup packet.
LEMMA SetupReplyStep ==
    ASSUME WireInv, UNCHANGED rcopyVars, NEW k \in Child,
           \/ ReceivedRemoteFileNameNoOpen(k) \/ ReceivedRemoteFileName(k)
           \/ ReceivedBufferSize(k) \/ ReceivedWindowSize(k)
    PROVE  WireInv'
<1>1. /\ WireOK /\ UNCHANGED readPos /\ k \in Server
      /\ child[k] \in ChildTypes /\ ChildGenuine(child[k])
      /\ remoteFile \in Seq(Chunk \cup {Hole}) /\ writeErr \in BOOLEAN
  BY ChildStart
<1>2. remoteFile' \in Seq(Chunk \cup {Hole}) /\ writeErr' \in BOOLEAN
  <2>1. <<>> \in Seq(Chunk \cup {Hole})
    OBVIOUS
  <2> QED BY <1>1, <2>1 DEF ReceivedRemoteFileNameNoOpen, ReceivedRemoteFileName, ReceivedBufferSize,
              ReceivedWindowSize, fileVars
<1>3. PICK f \in ReplyFlags : Respond(k, Control(f, 0))
  BY DEF ReceivedRemoteFileNameNoOpen, ReceivedRemoteFileName, ReceivedBufferSize,
         ReceivedWindowSize, ReplyFlags
<1>4. WireOK'
  <2>1. Control(f, 0) \in Packets
    BY ControlType DEF Flags
  <2>2. PICK p \in Packets : Respond(k, p)
    BY <1>3, <2>1
  <2> QED BY <1>1, <2>2, RespondKeepsWire
<1>5. CASE ReceivedRemoteFileNameNoOpen(k)
  <2>1. PICK r : r = [child[k] EXCEPT !.state = "DONE", !.recvPacket = NoPacket]
    OBVIOUS
  <2>2. Become(k, r)
    BY <1>5, <2>1 DEF ReceivedRemoteFileNameNoOpen
  <2>3. r \in ChildTypes
    <3>1. "DONE" \in ChildStates
      BY DEF ChildStates, ChildSetup, ChildData
    <3> QED BY <1>1, <2>1, <3>1, NoPacketType DEF ChildTypes
  <2>4. ChildGenuine(r)
    BY <1>1, <2>1 DEF ChildGenuine, ChildData, ChildTypes
  <2> QED BY <1>2, <1>4, <2>2, <2>3, <2>4, BecomeStep
<1>6. CASE ReceivedRemoteFileName(k)
  <2>1. PICK r : r = [child[k] EXCEPT !.state = "READY_FOR_NEXT_SETUP_PACKET",
                                      !.recvPacket = NoPacket, !.fileGood = TRUE]
    OBVIOUS
  <2>2. Become(k, r)
    BY <1>6, <2>1 DEF ReceivedRemoteFileName
  <2>3. r \in ChildTypes
    <3>1. "READY_FOR_NEXT_SETUP_PACKET" \in ChildStates
      BY DEF ChildStates, ChildSetup, ChildData
    <3> QED BY <1>1, <2>1, <3>1, NoPacketType DEF ChildTypes
  <2>4. ChildGenuine(r)
    <3>1. child[k].state = "RECEIVED_REMOTE_FILE_NAME"
      BY <1>6 DEF ReceivedRemoteFileName
    <3> QED BY <1>1, <2>1, <3>1 DEF ChildGenuine, ChildData, ChildTypes
  <2> QED BY <1>2, <1>4, <2>2, <2>3, <2>4, BecomeStep
<1>7. CASE ReceivedBufferSize(k)
  <2>1. PICK r : r = [child[k] EXCEPT !.state = "READY_FOR_NEXT_SETUP_PACKET",
                                      !.recvPacket = NoPacket, !.bufGood = TRUE]
    OBVIOUS
  <2>2. Become(k, r)
    BY <1>7, <2>1 DEF ReceivedBufferSize
  <2>3. r \in ChildTypes
    <3>1. "READY_FOR_NEXT_SETUP_PACKET" \in ChildStates
      BY DEF ChildStates, ChildSetup, ChildData
    <3> QED BY <1>1, <2>1, <3>1, NoPacketType DEF ChildTypes
  <2>4. ChildGenuine(r)
    <3>1. child[k].state = "RECEIVED_BUFFER_SIZE"
      BY <1>7 DEF ReceivedBufferSize
    <3> QED BY <1>1, <2>1, <3>1 DEF ChildGenuine, ChildData, ChildTypes
  <2> QED BY <1>2, <1>4, <2>2, <2>3, <2>4, BecomeStep
<1>8. CASE ReceivedWindowSize(k)
  <2>1. /\ child[k].state = "RECEIVED_WINDOW_SIZE"
        /\ child[k].recvPacket.num = WinSize
    <3>1. child[k].state = "RECEIVED_WINDOW_SIZE"
      BY <1>8 DEF ReceivedWindowSize
    <3>2. child[k].recvPacket.flag = "WINDOW_SIZE" /\ child[k].recvPacket \in Genuine \cup {NoPacket}
      BY <1>1, <3>1 DEF ChildGenuine
    <3> QED BY <3>1, <3>2 DEF NoPacket, Packet, Genuine, Sendable
  <2>2. PICK r : r = [child[k] EXCEPT !.state = "READY_FOR_NEXT_SETUP_PACKET",
                                      !.recvPacket = NoPacket, !.win_size = WinSize,
                                      !.winGood = TRUE]
    OBVIOUS
  <2>3. Become(k, r)
    BY <1>8, <2>1, <2>2 DEF ReceivedWindowSize
  <2>4. r \in ChildTypes
    <3>1. "READY_FOR_NEXT_SETUP_PACKET" \in ChildStates /\ WinSize \in Nat
      BY RcopyAssumption DEF ChildStates, ChildSetup, ChildData, RcopyAssumption
    <3> QED BY <1>1, <2>2, <3>1, NoPacketType DEF ChildTypes
  <2>5. ChildGenuine(r)
    BY <1>1, <2>1, <2>2 DEF ChildGenuine, ChildData, ChildTypes
  <2> QED BY <1>2, <1>4, <2>3, <2>4, <2>5, BecomeStep
<1> QED BY <1>5, <1>6, <1>7, <1>8

\* A step in which a child that waits receives a packet and goes to state st with it,
\* or ignores it.
LEMMA ChildReceiveStep ==
    ASSUME WireInv, UNCHANGED rcopyVars, UNCHANGED fileVars, NEW k \in Child,
           NEW i \in Deliverable(toServer[k]), RecvFromClient(k, i),
           NEW st \in ChildStates, NEW p, p \in {toServer[k][i], NoPacket},
           Become(k, [child[k] EXCEPT !.state = st, !.recvPacket = p, !.timeout = 0]),
           st = "RECEIVED_WINDOW_SIZE" => p.flag = "WINDOW_SIZE",
           st \in {"RECEIVED_DATA", "READY_FOR_DATA_PACKETS_SETUP"} => p.flag = "DATA",
           st \in ChildData \cup {"READY_FOR_DATA_PACKETS_SETUP"}
             => child[k].winGood /\ child[k].fileGood
    PROVE  WireInv'
<1>1. /\ WireOK /\ UNCHANGED readPos /\ k \in Server
      /\ child[k] \in ChildTypes /\ ChildGenuine(child[k])
      /\ remoteFile \in Seq(Chunk \cup {Hole}) /\ writeErr \in BOOLEAN
  BY ChildStart
<1>2. UNCHANGED <<readPos, toClient, faults>> /\ Take(toServer, k, i)
  BY <1>1 DEF RecvFromClient
<1>3. WireOK' /\ toServer[k][i] \in Genuine /\ Genuine \subseteq Packets
  BY <1>1, <1>2, TakeKeepsWire
<1>4. p \in Genuine \cup {NoPacket} /\ p \in Packets /\ 0 \in 0 .. MaxTimeouts + 1 /\ 0 <= MaxTimeouts
  BY <1>3, NoPacketType, RcopyAssumption DEF RcopyAssumption
<1>5. PICK r : r = [child[k] EXCEPT !.state = st, !.recvPacket = p, !.timeout = 0]
  OBVIOUS
<1>6. Become(k, r)
  BY <1>5
<1>7. r \in ChildTypes
  BY <1>1, <1>4, <1>5 DEF ChildTypes
<1>8. ChildGenuine(r)
  BY <1>1, <1>4, <1>5 DEF ChildGenuine, ChildTypes
<1>9. remoteFile' \in Seq(Chunk \cup {Hole}) /\ writeErr' \in BOOLEAN
  BY <1>1 DEF fileVars
<1> QED BY <1>3, <1>6, <1>7, <1>8, <1>9, BecomeStep

\* The steps of a child that receives.
LEMMA WaitingStep ==
    ASSUME WireInv, UNCHANGED rcopyVars, NEW k \in Child,
           ReadyForNextSetupPacket(k) \/ ReadyForNextDataPacket(k)
    PROVE  WireInv'
<1>1. child[k] \in ChildTypes /\ ChildGenuine(child[k])
  BY ChildStart
<1>2. CASE ReadyForNextSetupPacket(k)
  <2>1. UNCHANGED fileVars /\ child[k].state = "READY_FOR_NEXT_SETUP_PACKET"
    BY <1>2 DEF ReadyForNextSetupPacket
  <2>2. PICK i \in Deliverable(toServer[k]) :
          /\ RecvFromClient(k, i)
          /\ Become(k, [child[k] EXCEPT
                          !.state = SetupHandler(k, toServer[k][i].flag),
                          !.recvPacket = IF SetupHandler(k, toServer[k][i].flag) = child[k].state
                                           THEN NoPacket ELSE toServer[k][i],
                          !.timeout = 0])
    BY <1>2 DEF ReadyForNextSetupPacket
  <2>3. PICK st : st = SetupHandler(k, toServer[k][i].flag)
    OBVIOUS
  <2>4. PICK p : p = IF st = child[k].state THEN NoPacket ELSE toServer[k][i]
    OBVIOUS
  <2>5. Become(k, [child[k] EXCEPT !.state = st, !.recvPacket = p, !.timeout = 0])
    BY <2>2, <2>3, <2>4
  <2>6. /\ st \in ChildStates
        /\ st = "RECEIVED_WINDOW_SIZE" => toServer[k][i].flag = "WINDOW_SIZE"
        /\ st \in {"RECEIVED_DATA", "READY_FOR_DATA_PACKETS_SETUP"} => toServer[k][i].flag = "DATA"
        /\ st \in ChildData \cup {"READY_FOR_DATA_PACKETS_SETUP"}
             => child[k].winGood /\ child[k].fileGood
    BY <2>3 DEF SetupHandler, ChildStates, ChildSetup, ChildData
  <2>7. p \in {toServer[k][i], NoPacket}
    BY <2>4
  <2>8. /\ st = "RECEIVED_WINDOW_SIZE" => p.flag = "WINDOW_SIZE"
        /\ st \in {"RECEIVED_DATA", "READY_FOR_DATA_PACKETS_SETUP"} => p.flag = "DATA"
    BY <2>1, <2>4, <2>6
  <2> QED BY <2>1, <2>2, <2>5, <2>6, <2>7, <2>8, ChildReceiveStep
<1>3. CASE ReadyForNextDataPacket(k)
  <2>1. UNCHANGED fileVars /\ child[k].state = "READY_FOR_NEXT_DATA_PACKET"
    BY <1>3 DEF ReadyForNextDataPacket
  <2>2. PICK i \in Deliverable(toServer[k]) :
          /\ RecvFromClient(k, i)
          /\ Become(k, [child[k] EXCEPT
                          !.state = DataHandler(toServer[k][i].flag),
                          !.recvPacket = IF DataHandler(toServer[k][i].flag) = child[k].state
                                           THEN NoPacket ELSE toServer[k][i],
                          !.timeout = 0])
    BY <1>3 DEF ReadyForNextDataPacket
  <2>3. PICK st : st = DataHandler(toServer[k][i].flag)
    OBVIOUS
  <2>4. PICK p : p = IF st = child[k].state THEN NoPacket ELSE toServer[k][i]
    OBVIOUS
  <2>5. Become(k, [child[k] EXCEPT !.state = st, !.recvPacket = p, !.timeout = 0])
    BY <2>2, <2>3, <2>4
  <2>6. /\ st \in ChildStates /\ st # "RECEIVED_WINDOW_SIZE" /\ st # "READY_FOR_DATA_PACKETS_SETUP"
        /\ st = "RECEIVED_DATA" => toServer[k][i].flag = "DATA"
    BY <2>3 DEF DataHandler, ChildStates, ChildSetup, ChildData
  <2>7. p \in {toServer[k][i], NoPacket}
    BY <2>4
  <2>8. st = "RECEIVED_DATA" => p.flag = "DATA"
    BY <2>1, <2>4, <2>6
  <2>9. child[k].winGood /\ child[k].fileGood
    BY <1>1, <2>1 DEF ChildGenuine, ChildData
  <2> QED BY <2>1, <2>2, <2>5, <2>6, <2>7, <2>8, <2>9, ChildReceiveStep
<1> QED BY <1>2, <1>3

\* The steps of a child that neither sends nor receives.
LEMMA SilentChildStep ==
    ASSUME WireInv, UNCHANGED rcopyVars, NEW k \in Child,
           \/ ReadyForNextSetupPacketTimeout(k) \/ ReadyForDataPacketSetup(k)
           \/ ReadyForNextDataPacketTimeout(k) \/ TimeoutOnClient(k) \/ ReceivedEofAborts(k)
    PROVE  WireInv'
<1>1. /\ WireOK /\ UNCHANGED readPos /\ k \in Server
      /\ child[k] \in ChildTypes /\ ChildGenuine(child[k])
      /\ remoteFile \in Seq(Chunk \cup {Hole}) /\ writeErr \in BOOLEAN
  BY ChildStart
<1>2. UNCHANGED <<channelVars, fileVars>>
  BY DEF ReadyForNextSetupPacketTimeout, ReadyForDataPacketSetup, ReadyForNextDataPacketTimeout,
         TimeoutOnClient, ReceivedEofAborts
<1>3. WireOK'
  <2>1. readPos \in Nat
    BY ReadPosType DEF WireInv
  <2>2. readPos' \in Nat /\ readPos <= readPos'
    BY <1>1, <2>1
  <2> QED BY <1>1, <1>2, <2>1, <2>2, SilenceKeepsWire
<1>4. remoteFile' \in Seq(Chunk \cup {Hole}) /\ writeErr' \in BOOLEAN
  BY <1>1, <1>2 DEF fileVars
<1>5. CASE ReadyForNextSetupPacketTimeout(k)
  <2>1. /\ child[k].state = "READY_FOR_NEXT_SETUP_PACKET"
        /\ Become(k, [child[k] EXCEPT !.state = IF child[k].timeout + 1 > MaxTimeouts
                                                  THEN "TIMEOUT_ON_CLIENT" ELSE @,
                                      !.timeout = @ + 1])
    BY <1>5 DEF ReadyForNextSetupPacketTimeout
  <2>2. child[k].timeout \in Nat /\ child[k].timeout <= MaxTimeouts
    BY <1>1, <2>1 DEF ChildGenuine, ChildTypes
  <2>3. PICK n : n = child[k].timeout + 1
    OBVIOUS
  <2>4. PICK st : st = IF n > MaxTimeouts THEN "TIMEOUT_ON_CLIENT" ELSE "READY_FOR_NEXT_SETUP_PACKET"
    OBVIOUS
  <2>5. PICK r : r = [child[k] EXCEPT !.state = st, !.timeout = n]
    OBVIOUS
  <2>6. Become(k, r)
    BY <1>1, <2>1, <2>3, <2>4, <2>5 DEF ChildTypes
  <2>7. n \in 0 .. MaxTimeouts + 1 /\ st \in ChildStates
        /\ (st = "READY_FOR_NEXT_SETUP_PACKET" => n <= MaxTimeouts)
    BY <2>2, <2>3, <2>4, RcopyAssumption DEF RcopyAssumption, ChildStates, ChildSetup, ChildData
  <2>8. r \in ChildTypes
    BY <1>1, <2>5, <2>7 DEF ChildTypes
  <2>9. ChildGenuine(r)
    BY <1>1, <2>4, <2>5, <2>7 DEF ChildGenuine, ChildData, ChildTypes
  <2> QED BY <1>3, <1>4, <2>6, <2>8, <2>9, BecomeStep
<1>6. CASE ReadyForDataPacketSetup(k)
  <2>1. PICK r : r = [child[k] EXCEPT !.state = "RECEIVED_DATA",
                                      !.cur_RRnum = 1,
                                      !.win_min = 0,
                                      !.win_max = child[k].win_size,
                                      !.has_SREJ = FALSE,
                                      !.num_SREJ = 0,
                                      !.window = [i \in Slots |-> NoPacket]]
    OBVIOUS
  <2>2. Become(k, r) /\ child[k].state = "READY_FOR_DATA_PACKETS_SETUP"
    BY <1>6, <2>1 DEF ReadyForDataPacketSetup
  <2>3. r \in ChildTypes
    <3>1. "RECEIVED_DATA" \in ChildStates
      BY DEF ChildStates, ChildSetup, ChildData
    <3>2. [i \in Slots |-> NoPacket] \in [Slots -> Packets]
      BY NoPacketType
    <3> QED BY <1>1, <2>1, <3>1, <3>2 DEF ChildTypes
  <2>4. ChildGenuine(r)
    <3>1. [i \in Slots |-> NoPacket] \in [Slots -> OwnPacket \cup {NoPacket}]
      OBVIOUS
    <3> QED BY <1>1, <2>1, <2>2, <3>1 DEF ChildGenuine, ChildData, ChildTypes
  <2> QED BY <1>3, <1>4, <2>2, <2>3, <2>4, BecomeStep
<1>7. CASE ReadyForNextDataPacketTimeout(k) \/ TimeoutOnClient(k) \/ ReceivedEofAborts(k)
  <2>1. PICK st \in {"DONE", "TIMEOUT_ON_CLIENT"} : Become(k, [child[k] EXCEPT !.state = st])
    BY <1>7 DEF ReadyForNextDataPacketTimeout, TimeoutOnClient, ReceivedEofAborts
  <2>2. PICK r : r = [child[k] EXCEPT !.state = st]
    OBVIOUS
  <2>3. Become(k, r)
    BY <2>1, <2>2
  <2>4. st \in ChildStates
    BY DEF ChildStates, ChildSetup, ChildData
  <2>5. r \in ChildTypes
    BY <1>1, <2>2, <2>4 DEF ChildTypes
  <2>6. ChildGenuine(r)
    BY <1>1, <2>2 DEF ChildGenuine, ChildData, ChildTypes
  <2> QED BY <1>3, <1>4, <2>3, <2>5, <2>6, BecomeStep
<1> QED BY <1>5, <1>6, <1>7

\* The steps of a child that answers in its data phase without writing.
LEMMA AnswerStep ==
    ASSUME WireInv, UNCHANGED rcopyVars, NEW k \in Child,
           HandleClientRecovery(k) \/ BufferPacket(k) \/ ReceivedEof(k)
    PROVE  WireInv'
<1>1. /\ WireOK /\ UNCHANGED readPos /\ k \in Server
      /\ child[k] \in ChildTypes /\ ChildGenuine(child[k])
      /\ remoteFile \in Seq(Chunk \cup {Hole}) /\ writeErr \in BOOLEAN
  BY ChildStart
<1>2. remoteFile' \in Seq(Chunk \cup {Hole}) /\ writeErr' \in BOOLEAN
  BY <1>1 DEF HandleClientRecovery, BufferPacket, ReceivedEof, fileVars
<1>3. WireOK'
  <2>1. child[k].cur_RRnum \in Nat
    BY <1>1 DEF ChildTypes
  <2>2. /\ Control("SREJ", child[k].cur_RRnum) \in Packets
        /\ Control("RR", child[k].cur_RRnum) \in Packets
        /\ Control("ACK_EOF", 0) \in Packets
        /\ NoPacket \in Packets
    BY <2>1, ControlType, NoPacketType DEF Flags, ReplyFlags
  <2>3. PICK p \in Packets : Respond(k, p)
    <3>1. CASE HandleClientRecovery(k)
      <4>1. PICK q : q = Control(IF are_packets_buffered(child[k].window) THEN "SREJ" ELSE "RR",
                                 child[k].cur_RRnum)
        OBVIOUS
      <4>2. Respond(k, q)
        BY <3>1, <4>1 DEF HandleClientRecovery, Respond, Transmit
      <4>3. q \in Packets
        BY <2>2, <4>1
      <4> QED BY <4>2, <4>3
    <3>2. CASE BufferPacket(k)
      <4>1. PICK q : q = IF child[k].has_SREJ THEN NoPacket ELSE Control("SREJ", child[k].cur_RRnum)
        OBVIOUS
      <4>2. Respond(k, q)
        BY <3>2, <4>1 DEF BufferPacket, Respond, Transmit
      <4> QED BY <2>2, <4>1, <4>2
    <3>3. CASE ReceivedEof(k)
      BY <2>2, <3>3 DEF ReceivedEof
    <3> QED BY <3>1, <3>2, <3>3
  <2> QED BY <1>1, <2>3, RespondKeepsWire
<1>4. CASE HandleClientRecovery(k) \/ ReceivedEof(k)
  <2>1. PICK st \in {"DONE", "READY_FOR_NEXT_DATA_PACKET"} :
          Become(k, [child[k] EXCEPT !.state = st, !.recvPacket = NoPacket])
    BY <1>4 DEF HandleClientRecovery, ReceivedEof
  <2>2. PICK r : r = [child[k] EXCEPT !.state = st, !.recvPacket = NoPacket]
    OBVIOUS
  <2>3. Become(k, r)
    BY <2>1, <2>2
  <2>4. st \in ChildStates
    BY DEF ChildStates, ChildSetup, ChildData
  <2>5. r \in ChildTypes
    BY <1>1, <2>2, <2>4, NoPacketType DEF ChildTypes
  <2>6. child[k].state \in ChildData
    BY <1>4 DEF HandleClientRecovery, ReceivedEof, ChildData
  <2>7. ChildGenuine(r)
    BY <1>1, <2>2, <2>6 DEF ChildGenuine, ChildData, ChildTypes
  <2> QED BY <1>2, <1>3, <2>3, <2>5, <2>7, BecomeStep
<1>5. CASE BufferPacket(k)
  <2> DEFINE n == child[k].recvPacket.num
  <2>1. child[k].state = "RECEIVED_DATA"
    BY <1>5 DEF BufferPacket
  <2>2. child[k].recvPacket \in OwnPacket /\ child[k].win_size = WinSize /\ n \in Nat
    BY <1>1, <2>1 DEF ChildGenuine, ChildData, OwnPacket, NoPacket, Packet, Genuine, Packets
  <2>3. (n - 1) % WinSize \in Slots
    BY <2>2, SlotType
  <2>4. PICK w : w = IF is_in_window(k, n)
                       THEN [child[k].window EXCEPT ![(n - 1) % WinSize] = child[k].recvPacket]
                       ELSE child[k].window
    OBVIOUS
  <2>5. w \in [Slots -> OwnPacket \cup {NoPacket}]
    BY <1>1, <2>2, <2>3, <2>4 DEF ChildGenuine
  <2>6. PICK ns : ns = IF child[k].has_SREJ THEN child[k].num_SREJ ELSE child[k].cur_RRnum
    OBVIOUS
  <2>7. PICK r : r = [child[k] EXCEPT !.state = "READY_FOR_NEXT_DATA_PACKET",
                                      !.recvPacket = NoPacket, !.window = w,
                                      !.num_SREJ = ns, !.has_SREJ = TRUE]
    OBVIOUS
  <2>8. Become(k, r)
    BY <1>1, <1>5, <2>2, <2>4, <2>6, <2>7 DEF BufferPacket, ChildTypes
  <2>9. r \in ChildTypes
    <3>1. "READY_FOR_NEXT_DATA_PACKET" \in ChildStates /\ ns \in Nat
      BY <1>1, <2>6 DEF ChildStates, ChildSetup, ChildData, ChildTypes
    <3>2. w \in [Slots -> Packets]
      BY <2>5, WindowType
    <3> QED BY <1>1, <2>7, <3>1, <3>2, NoPacketType DEF ChildTypes
  <2>10. ChildGenuine(r)
    BY <1>1, <2>1, <2>5, <2>7 DEF ChildGenuine, ChildData, ChildTypes
  <2> QED BY <1>2, <1>3, <2>8, <2>9, <2>10, BecomeStep
<1> QED BY <1>4, <1>5

\* The run of buffered packets has a length, at most the window's, and is one of packets.
LEMMA RunBehindType ==
    ASSUME NEW k \in Child, child[k].win_size = WinSize, child[k].cur_RRnum \in Nat
    PROVE  /\ RunBehind(k) \in 0 .. WinSize
           /\ \A j \in 0 .. RunBehind(k) - 1 :
                child[k].window[(child[k].cur_RRnum + j) % WinSize] # NoPacket
           /\ \/ RunBehind(k) = WinSize
              \/ child[k].window[(child[k].cur_RRnum + RunBehind(k)) % WinSize] = NoPacket
<1> DEFINE empty(j) == child[k].window[(child[k].cur_RRnum + j) % child[k].win_size] = NoPacket
           T == {n \in 0 .. WinSize : n = WinSize \/ empty(n)}
           P(n) == /\ \A j \in 0 .. n - 1 : ~empty(j)
                   /\ n = WinSize \/ empty(n)
<1>1. WinSize \in Nat
  BY RcopyAssumption DEF RcopyAssumption
<1>2. WinSize \in T /\ T \in SUBSET Nat
  BY <1>1
<1>3. PICK n \in T : \A m \in T : n <= m
  <2> HIDE DEF T
  <2> QED BY <1>2, LeastNatural
<1>4. \A j \in 0 .. n - 1 : ~empty(j)
  <2> SUFFICES ASSUME NEW j \in 0 .. n - 1, empty(j) PROVE FALSE
    OBVIOUS
  <2>1. n \in Nat /\ n <= WinSize /\ j \in Nat /\ j < n
    BY <1>1, <1>3
  <2>2. j \in T
    BY <1>1, <2>1
  <2> QED BY <1>3, <2>1, <2>2
<1>5. n \in 0 .. WinSize /\ P(n)
  BY <1>3, <1>4
<1>6. RunBehind(k) = CHOOSE m \in 0 .. WinSize : P(m)
  BY DEF RunBehind
<1> HIDE DEF P
<1>7. RunBehind(k) \in 0 .. WinSize /\ P(RunBehind(k))
  BY <1>5, <1>6
<1> QED BY <1>7 DEF P

\* A DATA packet of the client's carries a chunk of the local file.
LEMMA OwnPacketData ==
    ASSUME readPos \in 0 .. Len(LocalFile), NEW p \in OwnPacket
    PROVE  /\ p.data = LocalFile[p.num] /\ p.num \in 1 .. readPos /\ p.data \in Chunk
           /\ p \in Packets /\ p \in Genuine
<1>1. p.data = LocalFile[p.num] /\ p.num \in 1 .. readPos /\ p \in Packets /\ p \in Genuine
  BY DEF OwnPacket, Genuine, Sendable
<1>2. p.num \in 1 .. Len(LocalFile)
  BY <1>1, FileType
<1> QED BY <1>1, <1>2, FileType

\* What gets written is made of the chunks that were to be written.
LEMMA WrittenType ==
    ASSUME NEW S, NEW chunks \in Seq(S), NEW written \in Written(chunks)
    PROVE  written \in Seq(S)
<1>1. CASE written = chunks
  BY <1>1
<1>2. CASE written # chunks
  <2>1. PICK a \in 0 .. Len(chunks) - 1, n \in 1 .. Len(chunks) :
          written = SubSeq(chunks, 1, a) \o SubSeq(chunks, a + n + 1, Len(chunks))
    <3> DEFINE W(a, n) == SubSeq(chunks, 1, a) \o SubSeq(chunks, a + n + 1, Len(chunks))
           X == {W(a, n) : a \in 0 .. Len(chunks) - 1, n \in 1 .. Len(chunks)}
    <3>1. Written(chunks) = {chunks} \cup (IF DiskMayFail THEN X ELSE {})
      BY DEF Written
    <3>2. written \in X
      <4> HIDE DEF X
      <4> QED BY <1>2, <3>1
    <3> HIDE DEF W
    <3>3. PICK a \in 0 .. Len(chunks) - 1, n \in 1 .. Len(chunks) : written = W(a, n)
      BY <3>2
    <3> QED BY <3>3 DEF W
  <2>2. SubSeq(chunks, 1, a) \in Seq(S)
    OBVIOUS
  <2>3. SubSeq(chunks, a + n + 1, Len(chunks)) \in Seq(S)
    OBVIOUS
  <2> QED BY <2>1, <2>2, <2>3
<1> QED BY <1>1, <1>2

\* Writing chunks to a file, within it or past its end, leaves chunks and holes.
LEMMA WriteAtType ==
    ASSUME NEW f \in Seq(Chunk \cup {Hole}), NEW off \in Nat, NEW chunks \in Seq(Chunk)
    PROVE  WriteAt(f, off, chunks) \in Seq(Chunk \cup {Hole})
<1> DEFINE end == off + Len(chunks)
           n == IF end > Len(f) THEN end ELSE Len(f)
           g == [i \in 1 .. n |-> IF i > off /\ i <= end THEN chunks[i - off]
                                  ELSE IF i <= Len(f) THEN f[i] ELSE Hole]
<1>1. CASE chunks = <<>>
  BY <1>1 DEF WriteAt
<1>2. CASE chunks # <<>>
  <2>1. WriteAt(f, off, chunks) = g
    BY <1>2 DEF WriteAt
  <2>2. n \in Nat /\ end \in Nat
    OBVIOUS
  <2>3. ASSUME NEW i \in 1 .. n PROVE g[i] \in Chunk \cup {Hole}
    <3>1. CASE i > off /\ i <= end
      <4>1. i - off \in 1 .. Len(chunks)
        BY <2>2, <3>1
      <4> QED BY <3>1, <4>1
    <3>2. CASE ~(i > off /\ i <= end) /\ i <= Len(f)
      <4>1. i \in 1 .. Len(f)
        BY <2>2, <3>2
      <4> QED BY <3>2, <4>1
    <3>3. CASE ~(i > off /\ i <= end) /\ ~(i <= Len(f))
      BY <3>3
    <3> QED BY <3>1, <3>2, <3>3
  <2>4. g \in Seq(Chunk \cup {Hole})
    <3>1. g \in [1 .. n -> Chunk \cup {Hole}]
      BY <2>3
    <3> HIDE DEF g, n
    <3> QED BY <2>2, <3>1
  <2> QED BY <2>1, <2>4
<1> QED BY <1>1, <1>2

\* What is written when the expected packet arrives is made of chunks.
LEMMA RunChunksType ==
    ASSUME WireInv, NEW k \in Child, child[k].state = "RECEIVED_DATA"
    PROVE  /\ child[k].win_size = WinSize /\ child[k].cur_RRnum \in Nat
           /\ child[k].recvPacket \in OwnPacket
           /\ RunBehind(k) \in 0 .. WinSize
           /\ \A j \in 0 .. RunBehind(k) - 1 :
                child[k].window[(child[k].cur_RRnum + j) % WinSize] \in OwnPacket
           /\ RunChunks(k) \in Seq(Chunk)
           /\ Len(RunChunks(k)) = RunBehind(k) + 1
           /\ RunChunks(k)[1] = child[k].recvPacket.data
           /\ \A j \in 1 .. RunBehind(k) :
                RunChunks(k)[j + 1] = child[k].window[(child[k].cur_RRnum + j - 1) % WinSize].data
<1> DEFINE slot(j) == (child[k].cur_RRnum + j) % WinSize
           run == RunBehind(k)
           tail == [j \in 1 .. run |-> child[k].window[(child[k].cur_RRnum + j - 1) % child[k].win_size].data]
<1>1. child[k] \in ChildTypes /\ ChildGenuine(child[k])
  BY DEF WireInv, ServerTypeOK
<1>2. child[k].win_size = WinSize /\ child[k].cur_RRnum \in Nat /\ child[k].recvPacket \in OwnPacket
  BY <1>1 DEF ChildGenuine, ChildData, ChildTypes, OwnPacket, NoPacket, Packet
<1>3. run \in 0 .. WinSize /\ \A j \in 0 .. run - 1 : child[k].window[slot(j)] # NoPacket
  BY <1>2, RunBehindType
<1>4. ASSUME NEW j \in 0 .. run - 1 PROVE child[k].window[slot(j)] \in OwnPacket
  <2>1. slot(j) \in Slots
    <3>1. child[k].cur_RRnum + j \in Int
      BY <1>2
    <3> QED BY <3>1, SlotType
  <2>2. child[k].window \in [Slots -> OwnPacket \cup {NoPacket}]
    BY <1>1 DEF ChildGenuine
  <2> QED BY <1>3, <2>1, <2>2
<1>5. readPos \in 0 .. Len(LocalFile)
  BY DEF WireInv, ClientInv, ClientTypeOK
<1>6. child[k].recvPacket.data \in Chunk
  BY <1>2, <1>5, OwnPacketData
<1>7. ASSUME NEW j \in 1 .. run
      PROVE  /\ child[k].window[(child[k].cur_RRnum + j - 1) % WinSize] \in OwnPacket
             /\ child[k].window[(child[k].cur_RRnum + j - 1) % WinSize].data \in Chunk
  <2>1. j - 1 \in 0 .. run - 1 /\ child[k].cur_RRnum + (j - 1) = child[k].cur_RRnum + j - 1
    BY <1>2, <1>3
  <2>2. child[k].window[slot(j - 1)] \in OwnPacket
    BY <1>4, <2>1
  <2>3. child[k].window[(child[k].cur_RRnum + j - 1) % WinSize] \in OwnPacket
    BY <2>1, <2>2
  <2> QED BY <1>5, <2>3, OwnPacketData
<1>8. run \in Nat
  BY <1>3
<1>9. tail \in Seq(Chunk) /\ Len(tail) = run
  <2>1. tail \in [1 .. run -> Chunk]
    BY <1>2, <1>7
  <2> HIDE DEF tail, run
  <2> QED BY <1>8, <2>1
<1>10. RunChunks(k) = <<child[k].recvPacket.data>> \o tail
  BY DEF RunChunks
<1>11. /\ RunChunks(k) \in Seq(Chunk) /\ Len(RunChunks(k)) = run + 1
       /\ RunChunks(k)[1] = child[k].recvPacket.data
       /\ \A j \in 1 .. run : RunChunks(k)[j + 1] = tail[j]
  <2> HIDE DEF tail, run
  <2> QED BY <1>6, <1>8, <1>9, <1>10
<1>12. \A j \in 1 .. run : tail[j] = child[k].window[(child[k].cur_RRnum + j - 1) % WinSize].data
  BY <1>2
<1> QED BY <1>2, <1>3, <1>4, <1>11, <1>12

\* The record of a child that has accepted its packet and the run behind it.
Accepted(k, srej, written) ==
    [child[k] EXCEPT !.state = "READY_FOR_NEXT_DATA_PACKET",
                     !.recvPacket = NoPacket,
                     !.offset = @ + Len(written),
                     !.cur_RRnum = @ + (1 + RunBehind(k)),
                     !.win_min = @ + (1 + RunBehind(k)),
                     !.win_max = @ + (1 + RunBehind(k)),
                     !.window = Flushed(child[k].window, RunSlots(k)),
                     !.has_SREJ = srej]

\* Accepting never asks for a packet again (the second branch of send_RR_or_SREJ):
\* it acknowledges all it has, or says nothing.
LEMMA AcceptFacts ==
    ASSUME WireInv, NEW k \in Child, NEW srej \in BOOLEAN,
           child[k].state = "RECEIVED_DATA", AcceptData(k, srej)
    PROVE  /\ \E written \in Written(RunChunks(k)) :
                /\ remoteFile' = WriteAt(remoteFile, child[k].offset, written)
                /\ writeErr' = (writeErr \/ written # RunChunks(k))
                /\ Become(k, Accepted(k, srej, written))
           /\ \E reply \in {NoPacket, Control("RR", child[k].cur_RRnum + (1 + RunBehind(k)))} :
                Respond(k, reply)
<1> DEFINE next == child[k].cur_RRnum + (1 + RunBehind(k))
           w == Flushed(child[k].window, RunSlots(k))
<1>1. child[k] \in ChildTypes
  BY DEF WireInv, ServerTypeOK
<1>2. next \in Nat
  BY RunChunksType, RcopyAssumption DEF RcopyAssumption
<1>3. PICK reply : reply = RRorSREJ(next, next, w, srej)
  OBVIOUS
<1>4. reply \in {NoPacket, Control("RR", next)}
  BY <1>2, <1>3 DEF RRorSREJ
<1>5. reply.flag # "SREJ"
  BY <1>4 DEF Control, NoPacket, Packet
<1>6. Respond(k, reply)
  BY <1>3 DEF AcceptData, Respond, Transmit
<1>7. PICK written \in Written(RunChunks(k)) :
        /\ remoteFile' = WriteAt(remoteFile, child[k].offset, written)
        /\ writeErr' = (writeErr \/ written # RunChunks(k))
        /\ Become(k, [child[k] EXCEPT !.state = "READY_FOR_NEXT_DATA_PACKET",
                                      !.recvPacket = NoPacket,
                                      !.offset = @ + Len(written),
                                      !.cur_RRnum = next,
                                      !.win_min = @ + (1 + RunBehind(k)),
                                      !.win_max = @ + (1 + RunBehind(k)),
                                      !.window = w,
                                      !.has_SREJ = (srej \/ reply.flag = "SREJ"),
                                      !.num_SREJ = IF reply.flag = "SREJ" THEN next ELSE @])
  BY <1>3 DEF AcceptData
<1>8. Become(k, Accepted(k, srej, written))
  BY <1>1, <1>5, <1>7 DEF Become, Accepted, ChildTypes
<1> QED BY <1>4, <1>6, <1>7, <1>8

\* The steps of a child that accepts the packet it waits for.
LEMMA AcceptStep ==
    ASSUME WireInv, UNCHANGED rcopyVars, NEW k \in Child,
           HandleExpectedSREJPacket(k) \/ HandleExpectedPacketNumber(k)
    PROVE  WireInv'
<1>1. /\ WireOK /\ UNCHANGED readPos /\ k \in Server
      /\ child[k] \in ChildTypes /\ ChildGenuine(child[k])
      /\ remoteFile \in Seq(Chunk \cup {Hole}) /\ writeErr \in BOOLEAN
  BY ChildStart
<1>2. child[k].state = "RECEIVED_DATA"
  BY DEF HandleExpectedSREJPacket, HandleExpectedPacketNumber
<1>3. PICK srej \in BOOLEAN : AcceptData(k, srej)
  <2>1. CASE HandleExpectedSREJPacket(k)
    BY <2>1 DEF HandleExpectedSREJPacket
  <2>2. CASE HandleExpectedPacketNumber(k)
    <3>1. PICK srej \in BOOLEAN : srej = child[k].has_SREJ
      BY <1>1 DEF ChildTypes
    <3>2. AcceptData(k, srej)
      BY <2>2, <3>1 DEF HandleExpectedPacketNumber, AcceptData, Respond, Transmit
    <3> QED BY <3>2
  <2> QED BY <2>1, <2>2
<1>4. PICK written \in Written(RunChunks(k)) :
        /\ remoteFile' = WriteAt(remoteFile, child[k].offset, written)
        /\ writeErr' = (writeErr \/ written # RunChunks(k))
        /\ Become(k, Accepted(k, srej, written))
  BY <1>2, <1>3, AcceptFacts
<1>5. PICK reply \in {NoPacket, Control("RR", child[k].cur_RRnum + (1 + RunBehind(k)))} :
        Respond(k, reply)
  BY <1>2, <1>3, AcceptFacts
<1>6. RunBehind(k) \in Nat /\ RunChunks(k) \in Seq(Chunk) /\ child[k].cur_RRnum \in Nat
  BY <1>2, RunChunksType
<1>7. written \in Seq(Chunk)
  BY <1>6, WrittenType
<1>8. reply \in Packets
  <2>1. child[k].cur_RRnum + (1 + RunBehind(k)) \in Nat
    BY <1>6
  <2> QED BY <2>1, ControlType, NoPacketType DEF Flags, ReplyFlags
<1>9. WireOK'
  BY <1>1, <1>5, <1>8, RespondKeepsWire
<1>10. remoteFile' \in Seq(Chunk \cup {Hole}) /\ writeErr' \in BOOLEAN
  <2>1. child[k].offset \in Nat
    BY <1>1 DEF ChildTypes
  <2> QED BY <1>1, <1>4, <1>7, <2>1, WriteAtType
<1>11. PICK w : w = Flushed(child[k].window, RunSlots(k))
  OBVIOUS
<1>12. w \in [Slots -> OwnPacket \cup {NoPacket}]
  BY <1>1, <1>11 DEF Flushed, ChildGenuine
<1>13. PICK r : r = Accepted(k, srej, written)
  OBVIOUS
<1>14. r = [child[k] EXCEPT !.state = "READY_FOR_NEXT_DATA_PACKET",
                            !.recvPacket = NoPacket,
                            !.offset = @ + Len(written),
                            !.cur_RRnum = @ + (1 + RunBehind(k)),
                            !.win_min = @ + (1 + RunBehind(k)),
                            !.win_max = @ + (1 + RunBehind(k)),
                            !.window = w,
                            !.has_SREJ = srej]
  BY <1>11, <1>13 DEF Accepted
<1>15. r \in ChildTypes
  <2>1. "READY_FOR_NEXT_DATA_PACKET" \in ChildStates
    BY DEF ChildStates, ChildSetup, ChildData
  <2>2. /\ child[k].offset + Len(written) \in Nat
        /\ child[k].cur_RRnum + (1 + RunBehind(k)) \in Nat
        /\ child[k].win_min + (1 + RunBehind(k)) \in Nat
        /\ child[k].win_max + (1 + RunBehind(k)) \in Nat
    <3>1. /\ child[k].offset \in Nat /\ child[k].win_min \in Nat /\ child[k].win_max \in Nat
          /\ Len(written) \in Nat
      BY <1>1, <1>7 DEF ChildTypes
    <3>2. PICK s \in Nat : s = 1 + RunBehind(k)
      BY <1>6
    <3>3. child[k].offset + Len(written) \in Nat
      BY <3>1
    <3>4. child[k].win_min + s \in Nat /\ child[k].win_max + s \in Nat
      BY <3>1
    <3>5. child[k].cur_RRnum + s \in Nat
      BY <1>6
    <3> QED BY <3>2, <3>3, <3>4, <3>5
  <2>3. w \in [Slots -> Packets]
    BY <1>12, WindowType
  <2> QED BY <1>1, <1>14, <2>1, <2>2, <2>3, NoPacketType DEF ChildTypes
<1>16. ChildGenuine(r)
  BY <1>1, <1>2, <1>12, <1>14 DEF ChildGenuine, ChildData, ChildTypes
<1>17. Become(k, r)
  BY <1>4, <1>13 DEF Become
<1> QED BY <1>9, <1>10, <1>15, <1>16, <1>17, BecomeStep

\* Every step of the upload keeps the first invariant.
LEMMA WireStep ==
    ASSUME WireInv, [Next]_vars
    PROVE  WireInv'
<1>1. CASE ClientNext
  <2>1. ClientInv /\ (RcopyStep \/ RcopyTimeout) /\ UNCHANGED serverVars
    BY <1>1 DEF ClientNext, WireInv
  <2>2. ClientInv' /\ readPos' \in Nat /\ readPos <= readPos'
    BY <2>1, ClientStepInv
  <2> QED BY <2>1, <2>2, ChildrenKeep
<1>2. CASE MainNext
  BY <1>2, MainStep
<1>3. CASE \E k \in Child : ChildNext(k)
  <2>1. PICK k \in Child : ChildNext(k)
    BY <1>3
  <2>2. UNCHANGED rcopyVars /\ (ChildStep(k) \/ ChildTimeout(k))
    BY <2>1 DEF ChildNext
  <2> QED BY <2>2, SetupReplyStep, WaitingStep, SilentChildStep, AnswerStep, AcceptStep
          DEF ChildStep, ChildTimeout
<1>4. CASE UNCHANGED vars
  <2>1. UNCHANGED serverVars /\ UNCHANGED rcopyVars /\ UNCHANGED channelVars
    BY <1>4 DEF vars
  <2>2. UNCHANGED <<SREJ_num, setupVars, sendVars, windowVars, c_state, c_exit, c_timeout>>
    BY <2>1 DEF rcopyVars
  <2>3. ClientInv /\ readPos \in Nat
    BY ReadPosType DEF WireInv
  <2>4. /\ c_state' \in ClientStates /\ c_exit' \in ClientExits /\ c_timeout' \in 0 .. MaxTimeouts + 1
        /\ c_state' \in ClientSetup \cup ClientData => c_timeout' <= MaxTimeouts
    BY <2>2, <2>3 DEF ClientInv, ClientTypeOK, ClientCounters
  <2>5. UNCHANGED <<channelVars, SREJ_num, setupVars, sendVars, windowVars>> /\ c_state' = c_state
    BY <2>1, <2>2
  <2>6. ClientInv' /\ readPos' = readPos
    BY <2>3, <2>4, <2>5, SilentClientSteps
  <2>7. readPos' \in Nat /\ readPos <= readPos'
    BY <2>3, <2>6
  <2> QED BY <2>1, <2>6, <2>7, ChildrenKeep
<1> QED BY <1>1, <1>2, <1>3, <1>4 DEF Next, Terminated

\* The upload starts in the first invariant.
LEMMA WireInit ==
    ASSUME Init
    PROVE  WireInv
<1> USE DEF Init, ChannelInit, RcopyInit, ServerInit
<1>1. WireOK
  BY ChannelAssumption DEF WireOK, ChannelTypeOK, ChannelAssumption
<1>2. ClientTypeOK
  <2>1. c_window \in [Slots -> Packets]
    BY NoPacketType
  <2>2. 0 \in 0 .. MaxTimeouts + 1 /\ 0 \in 0 .. Len(LocalFile)
    BY RcopyAssumption, FileType DEF RcopyAssumption
  <2>3. c_state \in ClientStates /\ c_exit \in ClientExits /\ remote \in Server
    BY DEF ClientStates, ClientSetup, ClientExits, Server
  <2>4. fileSuccess \in BOOLEAN /\ bufSuccess \in BOOLEAN /\ doneTransmitting \in BOOLEAN
    OBVIOUS
  <2> QED BY <2>1, <2>2, <2>3, <2>4 DEF ClientTypeOK
<1>3. ClientGenuine
  BY <1>1 DEF WireOK, ClientGenuine
<1>4. ClientCounters
  BY RcopyAssumption DEF ClientCounters, ClientSetup, ClientData, RcopyAssumption
<1>5. Unborn \in ChildTypes /\ ChildGenuine(Unborn)
  <2>1. [i \in Slots |-> NoPacket] \in [Slots -> Packets]
    BY NoPacketType
  <2>2. [i \in Slots |-> NoPacket] \in [Slots -> OwnPacket \cup {NoPacket}]
    OBVIOUS
  <2>3. "NONE" \in ChildStates /\ 0 \in 0 .. MaxTimeouts + 1 /\ 0 <= MaxTimeouts
    BY RcopyAssumption DEF ChildStates, ChildSetup, ChildData, RcopyAssumption
  <2>4. Unborn \in ChildTypes
    BY <2>1, <2>3, NoPacketType DEF Unborn, ChildTypes
  <2>5. ChildGenuine(Unborn)
    BY <2>2, <2>3 DEF Unborn, ChildGenuine, ChildData
  <2> QED BY <2>4, <2>5
<1>6. ServerTypeOK
  <2>1. <<>> \in Seq(Chunk \cup {Hole}) /\ FALSE \in BOOLEAN
    OBVIOUS
  <2> QED BY <1>5, <2>1 DEF ServerTypeOK
<1> QED BY <1>1, <1>2, <1>3, <1>4, <1>5, <1>6 DEF WireInv, ClientInv

\* Every variable keeps its type, whatever the paths and the disks do.
THEOREM TypeCorrect == Spec => []TypeOK
<1>1. Init => WireInv
  BY WireInit
<1>2. WireInv /\ [Next]_vars => WireInv'
  BY WireStep
<1>3. WireInv => TypeOK
  BY DEF WireInv, ClientInv, WireOK, TypeOK
<1> QED BY <1>1, <1>2, <1>3, PTL DEF Spec

=============================================================================
