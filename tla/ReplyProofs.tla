----------------------------- MODULE ReplyProofs -----------------------------
(***************************************************************************)
(* What the two sides tell each other: replies promise no more than has    *)
(* been accepted, and the end of the file is announced only when all of it *)
(* has been, so that an upload that ends in success is complete.  On paths *)
(* that keep the order a SREJ asks for a packet that has been sent, and    *)
(* acknowledgements only grow.  An upload by one child on a sound disk     *)
(* implements FileCopy.                                                    *)
(***************************************************************************)
EXTENDS WindowProofs

TransferInv ==
    /\ WindowInv
    /\ RepliesHonest
    /\ EofAfterAll
    /\ WindowBehind

-----------------------------------------------------------------------------
(* Queues, one at a time.                                                  *)

\* A packet sent joins the queue of the process the client talks to, in one way or
\* another; the other queues are left alone.
LEMMA SentQueue ==
    ASSUME NEW S, NEW p \in S, Garbled \in S, toServer[remote] \in Seq(S), SendToServer(p)
    PROVE  /\ toClient' = toClient
           /\ \E q \in Seq(S) : toServer' = [toServer EXCEPT ![remote] = q]
<1>1. CASE toServer' = [toServer EXCEPT ![remote] = Put(@, p)]
  BY <1>1, PutType DEF SendToServer
<1>2. CASE \E q \in Damaged(toServer[remote], p) : toServer' = [toServer EXCEPT ![remote] = q]
  BY <1>2, DamagedType DEF SendToServer
<1> QED BY <1>1, <1>2 DEF SendToServer, Transmit

\* The same for a reply of child k.
LEMMA RepliedQueue ==
    ASSUME NEW k \in Child, NEW S, NEW p \in S, Garbled \in S, toClient[k] \in Seq(S),
           Respond(k, p)
    PROVE  /\ toServer' = toServer
           /\ \E q \in Seq(S) : toClient' = [toClient EXCEPT ![k] = q] \/ toClient' = toClient
<1>1. CASE toClient' = toClient
  BY <1>1 DEF Respond
<1>2. CASE toClient' = [toClient EXCEPT ![k] = Put(@, p)]
  BY <1>2, PutType DEF Respond
<1>3. CASE \E q \in Damaged(toClient[k], p) : toClient' = [toClient EXCEPT ![k] = q]
  BY <1>3, DamagedType DEF Respond
<1> QED BY <1>1, <1>2, <1>3 DEF Respond, Transmit

\* A packet that garbles belongs among the honest and the lawful ones.
LEMMA GarbledHarmless ==
    ASSUME NEW k \in Child
    PROVE  Garbled \in Honest(k) /\ Garbled \in Lawful(k)
<1>1. Garbled.flag = "CRC_ERROR" /\ Garbled \in Packets
  BY GarbledPacket DEF Garbled, Packet
<1> QED BY <1>1 DEF Honest, Lawful

-----------------------------------------------------------------------------
(* Promises stay true.                                                     *)

\* A child has never accepted more packets than the file has chunks.
LEMMA AtMostAll ==
    ASSUME WindowInv, NEW k \in Child
    PROVE  child[k].cur_RRnum \in 0 .. Len(LocalFile) + 1
<1>1. /\ child[k] \in ChildTypes /\ ChildWindow(child[k])
      /\ readPos \in 0 .. Len(LocalFile) /\ Len(LocalFile) \in Nat
  BY FileType DEF WindowInv, WireInv, ServerTypeOK, ClientInv, ClientTypeOK
<1>2. child[k].cur_RRnum \in Nat
  BY <1>1 DEF ChildTypes
<1>3. child[k].cur_RRnum > 0 => child[k].cur_RRnum <= readPos + 1
  BY <1>1 DEF ChildWindow
<1> QED BY <1>1, <1>2, <1>3

\* A child that accepts more has kept its promises, and may make greater ones.
LEMMA PromisesKept ==
    ASSUME WindowInv, WindowInv', NEW k \in Child,
           child[k].cur_RRnum <= child'[k].cur_RRnum
    PROVE  /\ Complete(k) => Complete(k)'
           /\ Honest(k) \subseteq Honest(k)'
           /\ Lawful(k) \subseteq Lawful(k)'
<1>1. /\ child[k].cur_RRnum \in 0 .. Len(LocalFile) + 1
      /\ child'[k].cur_RRnum \in 0 .. Len(LocalFile) + 1
  <2>1. child[k].cur_RRnum \in 0 .. Len(LocalFile) + 1
    BY AtMostAll
  <2>2. /\ child'[k] \in ChildTypes /\ ChildWindow(child[k])'
        /\ readPos' \in 0 .. Len(LocalFile) /\ Len(LocalFile) \in Nat
    BY FileType DEF WindowInv, WireInv, ServerTypeOK, ClientInv, ClientTypeOK
  <2>3. child'[k].cur_RRnum \in Nat
    BY <2>2 DEF ChildTypes
  <2>4. child'[k].cur_RRnum > 0 => child'[k].cur_RRnum <= readPos' + 1
    BY <2>2 DEF ChildWindow
  <2> QED BY <2>1, <2>2, <2>3, <2>4
<1>2. PICK a \in Nat, b \in Nat : a = child[k].cur_RRnum /\ b = child'[k].cur_RRnum /\ a <= b
  BY <1>1
<1>3. Complete(k) => Complete(k)'
  BY <1>1, FileType DEF Complete
<1>4. ASSUME NEW p \in Honest(k) PROVE p \in Honest(k)'
  <2>1. /\ p \in Packets
        /\ p.flag \in ReplyFlags \cup {"CRC_ERROR"}
        /\ p.flag = "ACK_EOF" => Complete(k)'
    BY <1>3 DEF Honest
  <2>2. p.flag \in {"RR", "SREJ"} => p.num \in 1 .. a
    BY <1>2 DEF Honest
  <2>3. p.flag \in {"RR", "SREJ"} => p.num \in 1 .. b
    BY <1>2, <2>2
  <2> QED BY <1>2, <2>1, <2>3 DEF Honest
<1>5. Lawful(k) \subseteq Lawful(k)'
  BY <1>3 DEF Lawful
<1> QED BY <1>3, <1>4, <1>5

-----------------------------------------------------------------------------
(* Steps of the client.                                                    *)

\* What a step of the client must respect.
LEMMA ClientKeepsPromises ==
    ASSUME TransferInv, WindowInv', UNCHANGED serverVars,
           \A k \in Child : toClient'[k] \in Seq(Honest(k)) /\ toServer'[k] \in Seq(Lawful(k)),
           c_state' \in {"SEND_EOF_AND_QUIT", "SEND_EOF_SELECT"} => remote' \in Child /\ Complete(remote'),
           c_exit' = "ack eof" => \E k \in Child : Complete(k),
           c_win_min' <= 0 \/ \E k \in Child : c_win_min' + 1 <= child[k].cur_RRnum
    PROVE  TransferInv'
<1>1. child' = child
  BY DEF serverVars
<1>2. \A k \in Child : Honest(k)' = Honest(k) /\ Lawful(k)' = Lawful(k)
  BY <1>1 DEF Honest, Lawful, Complete
<1>3. RepliesHonest'
  BY <1>2 DEF RepliesHonest
<1>4. EofAfterAll'
  <2>1. \A k \in Child : child'[k].state = "RECEIVED_EOF" => Complete(k)'
    BY <1>1 DEF TransferInv, EofAfterAll, Complete
  <2>2. c_state' \in {"SEND_EOF_AND_QUIT", "SEND_EOF_SELECT"} => remote' \in Child /\ Complete(remote)'
    BY <1>1 DEF Complete
  <2>3. c_exit' = "ack eof" => \E k \in Child : Complete(k)'
    BY <1>1 DEF Complete
  <2> QED BY <1>2, <2>1, <2>2, <2>3 DEF EofAfterAll
<1>5. WindowBehind'
  BY <1>1 DEF WindowBehind
<1> QED BY <1>3, <1>4, <1>5 DEF TransferInv

\* Sending anything but END_OF_FILE is lawful, and so is END_OF_FILE to a child that
\* has everything.
LEMMA SendingIsLawful ==
    ASSUME TransferInv, NEW p \in Packets, SendToServer(p),
           p.flag = "END_OF_FILE" => remote \in Child /\ Complete(remote)
    PROVE  \A k \in Child : toClient'[k] \in Seq(Honest(k)) /\ toServer'[k] \in Seq(Lawful(k))
<1>1. /\ toServer \in [Server -> Seq(Packets)] /\ remote \in Server /\ WireOK
      /\ \A k \in Child : toClient[k] \in Seq(Honest(k)) /\ toServer[k] \in Seq(Lawful(k))
  BY ReadPosType DEF TransferInv, WindowInv, WireInv, WireOK, ChannelTypeOK, RepliesHonest, EofAfterAll
<1>2. toClient' = toClient
  BY <1>1, GarbledPacket, SentQueue
<1>3. ASSUME NEW k \in Child PROVE toServer'[k] \in Seq(Lawful(k))
  <2>1. CASE k = remote
    <3>1. p \in Lawful(k) /\ Garbled \in Lawful(k)
      BY <2>1, GarbledHarmless DEF Lawful
    <3>2. PICK q \in Seq(Lawful(k)) : toServer' = [toServer EXCEPT ![remote] = q]
      BY <1>1, <2>1, <3>1, SentQueue
    <3> QED BY <1>1, <2>1, <3>2
  <2>2. CASE k # remote
    <3>1. PICK q \in Seq(Packets) : toServer' = [toServer EXCEPT ![remote] = q]
      BY <1>1, GarbledPacket, SentQueue
    <3> QED BY <1>1, <2>2, <3>1
  <2> QED BY <2>1, <2>2
<1> QED BY <1>1, <1>2, <1>3

\* Receiving leaves queues of the same packets, and the packet taken is honest.
LEMMA ReceivingIsLawful ==
    ASSUME TransferInv, NEW k \in Child, NEW i \in Deliverable(toClient[k]), RecvFromServer(k, i)
    PROVE  /\ \A j \in Child : toClient'[j] \in Seq(Honest(j)) /\ toServer'[j] \in Seq(Lawful(j))
           /\ toClient[k][i] \in Honest(k)
           /\ remote' = k
<1>1. /\ toClient \in [Child -> Seq(Packets)]
      /\ \A j \in Child : toClient[j] \in Seq(Honest(j)) /\ toServer[j] \in Seq(Lawful(j))
  BY DEF TransferInv, WindowInv, WireInv, ClientInv, WireOK, ChannelTypeOK, RepliesHonest, EofAfterAll
<1>2. i \in DOMAIN toClient[k]
  BY DEF Deliverable
<1>3. toServer' = toServer /\ remote' = k /\ toClient' = [toClient EXCEPT ![k] = RemoveAt(@, i)]
  BY DEF RecvFromServer, Take
<1>4. RemoveAt(toClient[k], i) \in Seq(Honest(k))
  BY <1>1, <1>2, RemoveAtType
<1>5. toClient[k][i] \in Honest(k)
  BY <1>1, <1>2
<1> QED BY <1>1, <1>3, <1>4, <1>5

\* A step that leaves the paths alone leaves what is on them.
LEMMA SilenceIsLawful ==
    ASSUME TransferInv, UNCHANGED channelVars
    PROVE  \A k \in Child : toClient'[k] \in Seq(Honest(k)) /\ toServer'[k] \in Seq(Lawful(k))
BY DEF TransferInv, RepliesHonest, EofAfterAll, channelVars

\* Zero is not positive (needed where the provers see no arithmetic).
LEMMA NotPositive == 0 <= 0
OBVIOUS

\* Most steps that neither receive nor send leave everything promised alone.
LEMMA SilentPromises ==
    ASSUME TransferInv, WindowInv', UNCHANGED serverVars, UNCHANGED channelVars, remote' = remote,
           c_state' \in {"SEND_EOF_AND_QUIT", "SEND_EOF_SELECT"}
             => c_state \in {"SEND_EOF_AND_QUIT", "SEND_EOF_SELECT"},
           c_exit' = "ack eof" => c_exit = "ack eof",
           c_win_min' <= 0 \/ c_win_min' = c_win_min
    PROVE  TransferInv'
<1>1. \A k \in Child : toClient'[k] \in Seq(Honest(k)) /\ toServer'[k] \in Seq(Lawful(k))
  BY SilenceIsLawful
<1>2. /\ c_state' \in {"SEND_EOF_AND_QUIT", "SEND_EOF_SELECT"} => remote' \in Child /\ Complete(remote')
      /\ c_exit' = "ack eof" => \E k \in Child : Complete(k)
  BY DEF TransferInv, EofAfterAll
<1>3. c_win_min' <= 0 \/ \E k \in Child : c_win_min' + 1 <= child[k].cur_RRnum
  BY Zenon DEF TransferInv, WindowBehind
<1> QED BY <1>1, <1>2, <1>3, ClientKeepsPromises

\* Sending a packet that does not announce the end, or announces it rightly.
LEMMA SendingPromises ==
    ASSUME TransferInv, WindowInv', UNCHANGED serverVars, remote' = remote,
           NEW p \in Packets, SendToServer(p),
           p.flag = "END_OF_FILE" => c_state = "SEND_EOF_AND_QUIT",
           c_state' \in {"SEND_EOF_AND_QUIT", "SEND_EOF_SELECT"} => c_state = "SEND_EOF_AND_QUIT",
           c_exit' = c_exit, c_win_min' = c_win_min
    PROVE  TransferInv'
<1>1. c_state = "SEND_EOF_AND_QUIT" => remote \in Child /\ Complete(remote)
  BY DEF TransferInv, EofAfterAll
<1>2. \A k \in Child : toClient'[k] \in Seq(Honest(k)) /\ toServer'[k] \in Seq(Lawful(k))
  BY <1>1, SendingIsLawful
<1>3. /\ c_state' \in {"SEND_EOF_AND_QUIT", "SEND_EOF_SELECT"} => remote' \in Child /\ Complete(remote')
      /\ c_exit' = "ack eof" => \E k \in Child : Complete(k)
  BY <1>1 DEF TransferInv, EofAfterAll
<1>4. c_win_min' <= 0 \/ \E k \in Child : c_win_min' + 1 <= child[k].cur_RRnum
  BY DEF TransferInv, WindowBehind
<1> QED BY <1>2, <1>3, <1>4, ClientKeepsPromises

\* Resending from the window.
LEMMA ResendingPromises ==
    ASSUME TransferInv, WindowInv', UNCHANGED <<serverVars, setupVars, windowVars>>,
           NEW index \in Int, SendDataFromWindow(index)
    PROVE  TransferInv'
<1> DEFINE chunk == c_window[index % WinSize]
<1>1. chunk \in OwnPacket \cup {NoPacket}
  BY SlotType DEF TransferInv, WindowInv, WireInv, ClientInv, ClientGenuine
<1>2. remote' = remote /\ c_win_min' = c_win_min /\ UNCHANGED serverVars
  BY DEF setupVars, windowVars
<1>3. CASE chunk = NoPacket
  BY <1>2, <1>3, SilentPromises DEF SendDataFromWindow
<1>4. CASE chunk # NoPacket
  <2>1. SendToServer(chunk) /\ c_exit' = c_exit
        /\ c_state' \notin {"SEND_EOF_AND_QUIT", "SEND_EOF_SELECT"}
    BY <1>4 DEF SendDataFromWindow, Goto, AfterSend
  <2>2. chunk \in Packets /\ chunk.flag = "DATA"
    BY <1>1, <1>4 DEF OwnPacket, Genuine
  <2>3. PICK p \in Packets : p.flag = "DATA" /\ SendToServer(p)
    BY <2>1, <2>2 DEF SendToServer, Transmit
  <2> QED BY <1>2, <2>1, <2>3, SendingPromises
<1> QED BY <1>3, <1>4

\* Receiving a reply in the data phase: an RR that leads to the end of the file
\* comes from a child that has everything.
LEMMA IncomingPromises ==
    ASSUME TransferInv, WindowInv', UNCHANGED serverVars,
           NEW k \in Child, NEW i \in Deliverable(toClient[k]), RecvFromServer(k, i),
           ProcessIncomingData(toClient[k][i])
    PROVE  TransferInv'
<1>1. /\ \A j \in Child : toClient'[j] \in Seq(Honest(j)) /\ toServer'[j] \in Seq(Lawful(j))
      /\ toClient[k][i] \in Honest(k)
      /\ remote' = k
  BY ReceivingIsLawful
<1>2. PICK p \in Honest(k) : p = toClient[k][i]
  BY <1>1
<1>3. ProcessIncomingData(p)
  BY <1>2 DEF ProcessIncomingData
<1>4. c_exit = "ack eof" => \E j \in Child : Complete(j)
  BY DEF TransferInv, EofAfterAll
<1>5. c_win_min <= 0 \/ \E j \in Child : c_win_min + 1 <= child[j].cur_RRnum
  BY DEF TransferInv, WindowBehind
<1>6. CASE p.flag = "RR"
  <2>1. /\ c_win_min' = p.num - 1 /\ c_state' = AfterRR(p.num) /\ c_exit' = c_exit
    BY <1>3, <1>6 DEF ProcessIncomingData, Goto
  <2>2. child[k].cur_RRnum \in 0 .. Len(LocalFile) + 1 /\ Len(LocalFile) \in Nat
    BY AtMostAll, FileType DEF TransferInv
  <2>3. PICK cur \in Nat : cur = child[k].cur_RRnum
    BY <2>2
  <2>4. p.num \in 1 .. cur
    BY <1>6, <2>3 DEF Honest
  <2>5. c_win_min' + 1 <= child[k].cur_RRnum
    BY <2>1, <2>3, <2>4
  <2>6. ASSUME c_state' \in {"SEND_EOF_AND_QUIT", "SEND_EOF_SELECT"} PROVE Complete(k)
    <3>1. doneTransmitting /\ p.num = cur_packet_num
      BY <2>1, <2>6 DEF AfterRR
    <3>2. readPos = Len(LocalFile) /\ cur_packet_num \in {0, readPos + 1}
      BY <3>1 DEF TransferInv, WindowInv, WireInv, ClientInv, ClientCounters
    <3>3. cur >= Len(LocalFile) + 1
      BY <2>2, <2>4, <3>1, <3>2
    <3> QED BY <2>2, <2>3, <3>3 DEF Complete
  <2> QED BY <1>1, <1>4, <2>1, <2>5, <2>6, ClientKeepsPromises
<1>7. CASE p.flag = "ACK_EOF"
  <2>1. c_win_min' = c_win_min /\ c_state' = "DONE"
    BY <1>3, <1>7 DEF ProcessIncomingData, Quit, windowVars
  <2>2. Complete(k)
    BY <1>7 DEF Honest
  <2> QED BY <1>1, <1>5, <2>1, <2>2, ClientKeepsPromises
<1>8. CASE p.flag \notin {"RR", "ACK_EOF"}
  <2>1. /\ c_win_min' = c_win_min
        /\ c_state' \notin {"SEND_EOF_AND_QUIT", "SEND_EOF_SELECT"}
        /\ c_exit' \in {c_exit, "unidentified"}
    BY <1>3, <1>8 DEF ProcessIncomingData, Goto, Quit, windowVars
  <2> QED BY <1>1, <1>4, <1>5, <2>1, ClientKeepsPromises
<1> QED BY <1>6, <1>7, <1>8

\* Every step of the client keeps the promises.
LEMMA ClientReplyStep ==
    ASSUME TransferInv, WindowInv', UNCHANGED serverVars, RcopyStep \/ RcopyTimeout
    PROVE  TransferInv'
<1>1. CASE SendRemoteFileName \/ SendBufferSize \/ SendWindowSize
  <2>1. PICK p \in {Control("FILE_NAME", 0), Control("BUFFER_SIZE", 0), Control("WINDOW_SIZE", WinSize)} :
          /\ SendToServer(p)
          /\ Goto("WAIT_FOR_SETUP_ACKS")
          /\ UNCHANGED <<setupVars, windowVars>>
    BY <1>1 DEF SendRemoteFileName, SendBufferSize, SendWindowSize, SendSetup, SendToServer, Transmit
  <2>2. p \in Packets /\ p.flag # "END_OF_FILE"
    BY SetupGenuine DEF Genuine, Control, Packet
  <2> QED BY <2>1, <2>2, SendingPromises DEF Goto, setupVars, windowVars
<1>2. CASE WaitForSetupAcks
  <2>1. PICK k \in Child : \E i \in Deliverable(toClient[k]) :
          /\ RecvFromServer(k, i)
          /\ IF toClient[k][i].flag = "REJ_FILE_NAME_NO_OPEN"
               THEN Quit("rejected")
               ELSE Goto(AfterSetupReply(toClient[k][i].flag))
    BY <1>2 DEF WaitForSetupAcks
  <2> PICK i \in Deliverable(toClient[k]) :
          /\ RecvFromServer(k, i)
          /\ IF toClient[k][i].flag = "REJ_FILE_NAME_NO_OPEN"
               THEN Quit("rejected")
               ELSE Goto(AfterSetupReply(toClient[k][i].flag))
    BY <2>1
  <2>2. c_win_min' = c_win_min
    BY <1>2 DEF WaitForSetupAcks, windowVars
  <2>3. /\ c_state' \notin {"SEND_EOF_AND_QUIT", "SEND_EOF_SELECT"}
        /\ c_exit' = "ack eof" => c_exit = "ack eof"
    BY DEF Quit, Goto, AfterSetupReply
  <2>4. /\ \A j \in Child : toClient'[j] \in Seq(Honest(j)) /\ toServer'[j] \in Seq(Lawful(j))
    BY ReceivingIsLawful
  <2>5. c_exit' = "ack eof" => \E j \in Child : Complete(j)
    BY <2>3 DEF TransferInv, EofAfterAll
  <2>6. c_win_min' <= 0 \/ \E j \in Child : c_win_min' + 1 <= child[j].cur_RRnum
    BY <2>2 DEF TransferInv, WindowBehind
  <2> QED BY <2>3, <2>4, <2>5, <2>6, ClientKeepsPromises
<1>3. CASE \/ WaitForSetupAcksTimeout \/ ReadyToSendDataSetup \/ SendDataEndOfFile
           \/ SendDataReadError \/ ReceiveDataWindowOpenEmpty \/ SendEofTimeout \/ TimeoutOnServer
  <2>1. UNCHANGED channelVars /\ remote' = remote /\ (c_win_min' = 0 \/ c_win_min' = c_win_min)
    BY <1>3 DEF WaitForSetupAcksTimeout, ReadyToSendDataSetup, SendDataEndOfFile, SendDataReadError,
                ReceiveDataWindowOpenEmpty, SendEofTimeout, TimeoutOnServer, setupVars, windowVars
  <2>2. /\ c_state' \in {"SEND_EOF_AND_QUIT", "SEND_EOF_SELECT"}
             => c_state \in {"SEND_EOF_AND_QUIT", "SEND_EOF_SELECT"}
        /\ c_exit' = "ack eof" => c_exit = "ack eof"
    BY <1>3 DEF WaitForSetupAcksTimeout, ReadyToSendDataSetup, SendDataEndOfFile, SendDataReadError,
                ReceiveDataWindowOpenEmpty, SendEofTimeout, TimeoutOnServer, Goto, Quit
  <2>3. c_win_min' <= 0 \/ c_win_min' = c_win_min
    BY <2>1, NotPositive, Zenon
  <2> QED BY <2>1, <2>2, <2>3, SilentPromises
<1>4. CASE SendData
  <2>1. PICK p : p = Packet("DATA", cur_packet_num, LocalFile[readPos + 1])
    OBVIOUS
  <2>2. SendToServer(p) /\ readPos < Len(LocalFile)
    BY <1>4, <2>1 DEF SendData, SendToServer, Transmit
  <2>3. p \in Packets /\ p.flag = "DATA"
    <3>1. readPos \in Nat /\ cur_packet_num \in Nat
      BY ReadPosType DEF TransferInv, WindowInv, WireInv, ClientInv, ClientTypeOK
    <3>2. LocalFile[readPos + 1] \in Chunk
      BY <2>2, <3>1, FileType
    <3> QED BY <2>1, <3>1, <3>2 DEF Packet, Packets, Flags
  <2>4. /\ remote' = remote /\ c_win_min' = c_win_min /\ c_exit' = c_exit
        /\ c_state' \notin {"SEND_EOF_AND_QUIT", "SEND_EOF_SELECT"}
    BY <1>4 DEF SendData, Goto, AfterSend, setupVars, windowVars
  <2> QED BY <2>2, <2>3, <2>4, SendingPromises
<1>5. CASE SendDataSrej
  <2>1. (SREJ_num + WordMod - 1) % WordMod \in Int
    <3>1. SREJ_num \in Nat /\ WordMod \in Nat \ {0}
      BY RcopyAssumption DEF TransferInv, WindowInv, WireInv, ClientInv, ClientTypeOK, RcopyAssumption
    <3>2. PICK n \in Int : n = SREJ_num + WordMod - 1
      BY <3>1
    <3>3. n % WordMod \in Int
      BY <3>1
    <3> QED BY <3>2, <3>3
  <2>2. PICK index \in Int : index = (SREJ_num + WordMod - 1) % WordMod
    BY <2>1
  <2>3. SendDataFromWindow(index) /\ UNCHANGED <<serverVars, setupVars, windowVars>>
    BY <1>5, <2>2 DEF SendDataSrej, SendDataFromWindow, SendToServer, Transmit
  <2> QED BY <2>3, ResendingPromises
<1>6. CASE ReceiveDataWindowClosedTimeout
  <2>1. UNCHANGED <<serverVars, setupVars, windowVars>>
    BY <1>6 DEF ReceiveDataWindowClosedTimeout
  <2>2. CASE UNCHANGED channelVars /\ Goto("TIMEOUT_ON_SERVER")
    BY <2>1, <2>2, SilentPromises DEF Goto, setupVars, windowVars
  <2>3. CASE SendDataFromWindow(c_win_min)
    <3>1. c_win_min \in Int
      BY DEF TransferInv, WindowInv, WireInv, ClientInv, ClientTypeOK
    <3>2. PICK index \in Int : index = c_win_min
      BY <3>1
    <3>3. SendDataFromWindow(index)
      BY <2>3, <3>2 DEF SendDataFromWindow, SendToServer, Transmit
    <3> QED BY <2>1, <3>3, ResendingPromises
  <2> QED BY <1>6, <2>2, <2>3 DEF ReceiveDataWindowClosedTimeout
<1>7. CASE ReceiveDataWindowOpen \/ ReceiveDataWindowClosed \/ SendEofReply
  <2>1. PICK k \in Child : \E i \in Deliverable(toClient[k]) :
          RecvFromServer(k, i) /\ ProcessIncomingData(toClient[k][i])
    BY <1>7 DEF ReceiveDataWindowOpen, ReceiveDataWindowClosed, ReceiveData, SendEofReply
  <2> QED BY <2>1, IncomingPromises
<1>8. CASE SendEof
  <2>1. PICK p : p = Control("END_OF_FILE", 0)
    OBVIOUS
  <2>2. SendToServer(p) /\ c_state = "SEND_EOF_AND_QUIT"
    BY <1>8, <2>1 DEF SendEof, SendToServer, Transmit
  <2>3. p \in Packets
    BY <2>1, SetupGenuine DEF Genuine
  <2>4. remote' = remote /\ c_win_min' = c_win_min /\ c_exit' = c_exit
    BY <1>8 DEF SendEof, Goto, setupVars, windowVars
  <2> QED BY <2>2, <2>3, <2>4, SendingPromises
<1> QED BY <1>1, <1>2, <1>3, <1>4, <1>5, <1>6, <1>7, <1>8 DEF RcopyStep, RcopyTimeout

-----------------------------------------------------------------------------
(* Steps of a child, and of the main loop that forks it.                   *)

\* What a step that changes the record of child k to r must respect.
LEMMA ChildKeepsPromises ==
    ASSUME TransferInv, WindowInv', UNCHANGED rcopyVars, NEW k \in Child, NEW r, Become(k, r),
           child[k].cur_RRnum <= r.cur_RRnum,
           \A j \in Child : toServer'[j] \in Seq(Lawful(j)),
           \A j \in Child \ {k} : toClient'[j] = toClient[j],
           toClient'[k] \in Seq(Honest(k)') \/ toClient'[k] = toClient[k],
           r.state = "RECEIVED_EOF" => Complete(k)
    PROVE  TransferInv'
<1>1. /\ WindowInv /\ child \in [Child -> ChildTypes]
      /\ c_state' = c_state /\ c_exit' = c_exit /\ remote' = remote /\ c_win_min' = c_win_min
  BY DEF TransferInv, WindowInv, WireInv, ServerTypeOK, rcopyVars, setupVars, windowVars
<1>2. child'[k] = r /\ \A j \in Child \ {k} : child'[j] = child[j]
  BY <1>1, BecomeType
<1>3. ASSUME NEW j \in Child PROVE child[j].cur_RRnum \in Nat /\ child[j].cur_RRnum <= child'[j].cur_RRnum
  <2>1. child[j].cur_RRnum \in Nat
    BY <1>1 DEF ChildTypes
  <2>2. CASE j = k
    BY <1>2, <2>1, <2>2
  <2>3. CASE j # k
    BY <1>2, <2>1, <2>3
  <2> QED BY <2>1, <2>2, <2>3
<1>4. ASSUME NEW j \in Child
      PROVE  /\ Complete(j) => Complete(j)'
             /\ Honest(j) \subseteq Honest(j)'
             /\ Lawful(j) \subseteq Lawful(j)'
  BY <1>1, <1>3, PromisesKept
<1>5. RepliesHonest'
  <2>1. ASSUME NEW j \in Child PROVE toClient'[j] \in Seq(Honest(j)')
    <3>1. toClient[j] \in Seq(Honest(j))
      BY DEF TransferInv, RepliesHonest
    <3>2. toClient[j] \in Seq(Honest(j)')
      BY <1>4, <3>1, SeqMonotonic
    <3> QED BY <3>2
  <2> QED BY <2>1 DEF RepliesHonest
<1>6. EofAfterAll'
  <2>1. \A j \in Child : toServer'[j] \in Seq(Lawful(j)')
    BY <1>4, SeqMonotonic
  <2>2. ASSUME NEW j \in Child, child'[j].state = "RECEIVED_EOF" PROVE Complete(j)'
    <3>1. CASE j = k
      BY <1>2, <1>4, <2>2, <3>1
    <3>2. CASE j # k
      BY <1>2, <1>4, <2>2, <3>2 DEF TransferInv, EofAfterAll
    <3> QED BY <3>1, <3>2
  <2>3. ASSUME c_state' \in {"SEND_EOF_AND_QUIT", "SEND_EOF_SELECT"}
        PROVE  remote' \in Child /\ Complete(remote)'
    <3>1. remote \in Child /\ Complete(remote)
      BY <1>1, <2>3 DEF TransferInv, EofAfterAll
    <3>2. PICK j \in Child : j = remote
      BY <3>1
    <3>3. Complete(j)'
      BY <1>4, <3>1, <3>2 DEF Complete
    <3> QED BY <1>1, <3>2, <3>3 DEF Complete
  <2>4. ASSUME c_exit' = "ack eof" PROVE \E j \in Child : Complete(j)'
    BY <1>1, <1>4, <2>4 DEF TransferInv, EofAfterAll
  <2> QED BY <2>1, <2>2, <2>3, <2>4 DEF EofAfterAll
<1>7. WindowBehind'
  <2>1. CASE c_win_min <= 0
    BY <1>1, <2>1, Zenon DEF WindowBehind
  <2>2. CASE \E j \in Child : c_win_min + 1 <= child[j].cur_RRnum
    <3>1. PICK j \in Child : c_win_min + 1 <= child[j].cur_RRnum
      BY <2>2
    <3>2. c_win_min \in Int
      BY <1>1 DEF WindowInv, WireInv, ClientInv, ClientTypeOK
    <3>3. PICK a \in Nat, b \in Nat : a = child[j].cur_RRnum /\ b = child'[j].cur_RRnum
      <4>1. child'[j].cur_RRnum \in Nat
        BY DEF WindowInv, WireInv, ServerTypeOK, ChildTypes
      <4> QED BY <1>3, <4>1
    <3>4. c_win_min + 1 <= a /\ a <= b
      BY <1>3, <3>1, <3>3
    <3>5. c_win_min + 1 <= b
      BY <3>2, <3>3, <3>4
    <3> QED BY <1>1, <3>3, <3>5 DEF WindowBehind
  <2> QED BY <2>1, <2>2 DEF TransferInv, WindowBehind
<1> QED BY <1>5, <1>6, <1>7 DEF TransferInv

\* A child that sends nothing, or an honest reply.
LEMMA ReplyingPromises ==
    ASSUME TransferInv, WindowInv', UNCHANGED rcopyVars, NEW k \in Child, NEW r, Become(k, r),
           child[k].cur_RRnum <= r.cur_RRnum, r.state # "RECEIVED_EOF",
           NEW p, Respond(k, p), p \in Honest(k)' \/ p = NoPacket
    PROVE  TransferInv'
<1>1. /\ toClient \in [Child -> Seq(Packets)]
      /\ \A j \in Child : toClient[j] \in Seq(Honest(j)) /\ toServer[j] \in Seq(Lawful(j))
  BY DEF TransferInv, WindowInv, WireInv, ClientInv, WireOK, ChannelTypeOK, RepliesHonest, EofAfterAll
<1>2. CASE p = NoPacket
  <2>1. UNCHANGED <<toServer, toClient>>
    BY <1>2 DEF Respond
  <2> QED BY <1>1, <2>1, ChildKeepsPromises
<1>3. CASE p \in Honest(k)'
  <2>1. child[k].cur_RRnum <= child'[k].cur_RRnum
    BY BecomeType DEF TransferInv, WindowInv, WireInv, ServerTypeOK
  <2>2. Honest(k) \subseteq Honest(k)'
    BY <2>1, PromisesKept DEF TransferInv
  <2>3. PICK S : S = Honest(k)'
    OBVIOUS
  <2>4. toClient[k] \in Seq(S) /\ Garbled \in S /\ p \in S
    BY <1>1, <1>3, <2>2, <2>3, SeqMonotonic, GarbledHarmless
  <2>5. /\ toServer' = toServer
        /\ \E q \in Seq(S) : toClient' = [toClient EXCEPT ![k] = q] \/ toClient' = toClient
    BY <2>4, RepliedQueue
  <2>6. /\ toClient'[k] \in Seq(Honest(k)')
        /\ \A j \in Child \ {k} : toClient'[j] = toClient[j]
    BY <1>1, <2>3, <2>4, <2>5
  <2> QED BY <1>1, <2>5, <2>6, ChildKeepsPromises
<1> QED BY <1>2, <1>3

\* A child that receives a packet of its own.
LEMMA TakingPromises ==
    ASSUME TransferInv, WindowInv', UNCHANGED rcopyVars, NEW k \in Child, NEW r, Become(k, r),
           r.cur_RRnum = child[k].cur_RRnum,
           NEW i \in Deliverable(toServer[k]), RecvFromClient(k, i),
           r.state = "RECEIVED_EOF" => toServer[k][i].flag = "END_OF_FILE"
    PROVE  TransferInv'
<1>1. /\ toServer \in [Server -> Seq(Packets)] /\ k \in Server
      /\ \A j \in Child : toServer[j] \in Seq(Lawful(j))
  BY DEF TransferInv, WindowInv, WireInv, ClientInv, WireOK, ChannelTypeOK, EofAfterAll, Server
<1>2. i \in DOMAIN toServer[k]
  BY DEF Deliverable
<1>3. toClient' = toClient /\ toServer' = [toServer EXCEPT ![k] = RemoveAt(@, i)]
  BY DEF RecvFromClient, Take
<1>4. RemoveAt(toServer[k], i) \in Seq(Lawful(k)) /\ toServer[k][i] \in Lawful(k)
  BY <1>1, <1>2, RemoveAtType
<1>5. \A j \in Child : toServer'[j] \in Seq(Lawful(j))
  BY <1>1, <1>3, <1>4
<1>6. r.state = "RECEIVED_EOF" => Complete(k)
  BY <1>4 DEF Lawful
<1>7. child[k].cur_RRnum <= r.cur_RRnum
  <2>1. child[k].cur_RRnum \in Nat
    BY DEF TransferInv, WindowInv, WireInv, ServerTypeOK, ChildTypes
  <2> QED BY <2>1
<1> QED BY <1>3, <1>5, <1>6, <1>7, ChildKeepsPromises

\* The replies a child gives: which are honest.
LEMMA HonestReplies ==
    ASSUME NEW k \in Child
    PROVE  /\ \A f \in ReplyFlags \ {"RR", "SREJ", "ACK_EOF"} : Control(f, 0) \in Honest(k)
           /\ \A f \in {"RR", "SREJ"} : \A n \in 1 .. child[k].cur_RRnum :
                n \in Nat => Control(f, n) \in Honest(k)
           /\ Complete(k) => Control("ACK_EOF", 0) \in Honest(k)
BY DEF Control, Packet, Honest, Packets, Flags, ReplyFlags

\* Forking a child and the setup keep the promises.
LEMMA SetupReplies ==
    ASSUME TransferInv, WindowInv', UNCHANGED rcopyVars, NEW k \in Child,
           \/ MainAccept(k) \/ ReceivedRemoteFileNameNoOpen(k) \/ ReceivedBufferSize(k)
           \/ ReceivedWindowSize(k) \/ ReadyForNextSetupPacket(k)
           \/ ReadyForNextSetupPacketTimeout(k)
    PROVE  TransferInv'
<1>1. PICK r : Become(k, r) /\ LikeBefore(r, child[k])
  BY QuietSetupRecord DEF TransferInv, WindowInv
<1>2. child[k] \in ChildTypes /\ child[k].cur_RRnum \in Nat
  BY DEF TransferInv, WindowInv, WireInv, ServerTypeOK, ChildTypes
<1>3. r.cur_RRnum = child[k].cur_RRnum /\ child[k].cur_RRnum <= r.cur_RRnum
  BY <1>1, <1>2 DEF LikeBefore
<1>4. r.state # "RECEIVED_EOF"
  <2>1. child[k].state \notin ChildData
    BY DEF MainAccept, Unforked, ReceivedRemoteFileNameNoOpen, ReceivedBufferSize,
           ReceivedWindowSize, ReadyForNextSetupPacket, ReadyForNextSetupPacketTimeout, ChildData
  <2> QED BY <1>1, <2>1 DEF LikeBefore, ChildData
<1>5. CASE MainAccept(k)
  <2>1. PICK i \in Deliverable(toServer[Main]) : Take(toServer, Main, i)
    BY <1>5 DEF MainAccept, Take
  <2>2. toClient' = toClient /\ \A j \in Child : toServer'[j] = toServer[j]
    BY <1>5, <2>1, ChannelAssumption
       DEF MainAccept, Take, ChannelAssumption, TransferInv, WindowInv, WireInv, ClientInv, WireOK,
           ChannelTypeOK, Server
  <2>3. \A j \in Child : toServer'[j] \in Seq(Lawful(j))
    BY <2>2 DEF TransferInv, EofAfterAll
  <2> QED BY <1>1, <1>3, <1>4, <2>2, <2>3, ChildKeepsPromises
<1>6. CASE ReceivedRemoteFileNameNoOpen(k) \/ ReceivedBufferSize(k) \/ ReceivedWindowSize(k)
  <2>1. PICK p \in {Control("REJ_FILE_NAME_NO_OPEN", 0), Control("ACK_BUFFER_SIZE", 0),
                    Control("ACK_WINDOW_SIZE", 0)} : Respond(k, p)
    BY <1>6 DEF ReceivedRemoteFileNameNoOpen, ReceivedBufferSize, ReceivedWindowSize, Respond, Transmit
  <2>2. p \in Honest(k)
    BY <2>1, HonestReplies DEF ReplyFlags
  <2>3. p \in Honest(k)'
    <3>1. child[k].cur_RRnum <= child'[k].cur_RRnum
      BY <1>1, <1>3, BecomeType DEF TransferInv, WindowInv, WireInv, ServerTypeOK
    <3> QED BY <2>2, <3>1, PromisesKept DEF TransferInv
  <2> QED BY <1>1, <1>3, <1>4, <2>1, <2>3, ReplyingPromises
<1>7. CASE ReadyForNextSetupPacket(k)
  <2>1. PICK i \in Deliverable(toServer[k]) : RecvFromClient(k, i)
    BY <1>7 DEF ReadyForNextSetupPacket, RecvFromClient, Take
  <2> QED BY <1>1, <1>3, <1>4, <2>1, TakingPromises
<1>8. CASE ReadyForNextSetupPacketTimeout(k)
  <2>1. UNCHANGED <<toServer, toClient>>
    BY <1>8 DEF ReadyForNextSetupPacketTimeout, channelVars
  <2>2. \A j \in Child : toServer'[j] \in Seq(Lawful(j))
    BY <2>1 DEF TransferInv, EofAfterAll
  <2> QED BY <1>1, <1>3, <1>4, <2>1, <2>2, ChildKeepsPromises
<1> QED BY <1>5, <1>6, <1>7, <1>8

\* So do opening the file and beginning the data phase.
LEMMA OpeningReplies ==
    ASSUME TransferInv, WindowInv', UNCHANGED rcopyVars, NEW k \in Child,
           ReceivedRemoteFileName(k) \/ ReadyForDataPacketSetup(k)
    PROVE  TransferInv'
<1>1. child[k] \in ChildTypes /\ child[k].cur_RRnum \in Nat /\ child \in [Child -> ChildTypes]
      /\ ChildWindow(child[k])
  BY DEF TransferInv, WindowInv, WireInv, ServerTypeOK, ChildTypes
<1>2. CASE ReceivedRemoteFileName(k)
  <2>1. PICK r : r = [child[k] EXCEPT !.state = "READY_FOR_NEXT_SETUP_PACKET",
                                      !.recvPacket = NoPacket, !.fileGood = TRUE]
    OBVIOUS
  <2>2. Become(k, r)
    BY <1>2, <2>1 DEF ReceivedRemoteFileName
  <2>3. r.cur_RRnum = child[k].cur_RRnum /\ r.state = "READY_FOR_NEXT_SETUP_PACKET"
    BY <1>1, <2>1 DEF ChildTypes
  <2>4. child[k].cur_RRnum <= r.cur_RRnum
    BY <1>1, <2>3
  <2>5. PICK p : p = Control("ACK_FILE_NAME", 0)
    OBVIOUS
  <2>6. Respond(k, p)
    BY <1>2, <2>5 DEF ReceivedRemoteFileName, Respond, Transmit
  <2>7. p \in Honest(k)'
    <3>1. child[k].cur_RRnum <= child'[k].cur_RRnum
      BY <1>1, <2>2, <2>4, BecomeType
    <3>2. p \in Honest(k)
      BY <2>5, HonestReplies DEF ReplyFlags
    <3> QED BY <3>1, <3>2, PromisesKept DEF TransferInv
  <2> QED BY <2>2, <2>3, <2>4, <2>6, <2>7, ReplyingPromises
<1>3. CASE ReadyForDataPacketSetup(k)
  <2>1. PICK r : r = [child[k] EXCEPT !.state = "RECEIVED_DATA",
                                      !.cur_RRnum = 1,
                                      !.win_min = 0,
                                      !.win_max = child[k].win_size,
                                      !.has_SREJ = FALSE,
                                      !.num_SREJ = 0,
                                      !.window = [i \in Slots |-> NoPacket]]
    OBVIOUS
  <2>2. Become(k, r) /\ child[k].state = "READY_FOR_DATA_PACKETS_SETUP"
    BY <1>3, <2>1 DEF ReadyForDataPacketSetup
  <2>3. r.cur_RRnum = 1 /\ r.state = "RECEIVED_DATA" /\ child[k].cur_RRnum = 0
    BY <1>1, <2>1, <2>2 DEF ChildTypes, ChildWindow, ChildSetup
  <2>4. child[k].cur_RRnum <= r.cur_RRnum
    BY <2>3
  <2>5. UNCHANGED <<toServer, toClient>>
    BY <1>3 DEF ReadyForDataPacketSetup, channelVars
  <2>6. \A j \in Child : toServer'[j] \in Seq(Lawful(j))
    BY <2>5 DEF TransferInv, EofAfterAll
  <2> QED BY <2>2, <2>3, <2>4, <2>5, <2>6, ChildKeepsPromises
<1> QED BY <1>2, <1>3

\* Accepting a packet acknowledges the run that was written, no more.
LEMMA AcceptReplies ==
    ASSUME TransferInv, WindowInv', UNCHANGED rcopyVars, NEW k \in Child,
           HandleExpectedSREJPacket(k) \/ HandleExpectedPacketNumber(k)
    PROVE  TransferInv'
<1>1. child[k] \in ChildTypes /\ WireInv /\ child \in [Child -> ChildTypes]
  BY DEF TransferInv, WindowInv, WireInv, ServerTypeOK
<1>2. child[k].state = "RECEIVED_DATA"
  BY DEF HandleExpectedSREJPacket, HandleExpectedPacketNumber
<1>3. PICK srej \in BOOLEAN : AcceptData(k, srej)
  <2>1. CASE HandleExpectedSREJPacket(k)
    BY <2>1 DEF HandleExpectedSREJPacket
  <2>2. CASE HandleExpectedPacketNumber(k)
    <3>1. PICK srej \in BOOLEAN : srej = child[k].has_SREJ
      BY <1>1 DEF ChildTypes
    <3>2. AcceptData(k, srej)
      BY <2>2, <3>1 DEF HandleExpectedPacketNumber, AcceptData, Respond, Transmit
    <3> QED BY <3>2
  <2> QED BY <2>1, <2>2
<1>4. PICK written : Become(k, Accepted(k, srej, written))
  BY <1>1, <1>2, <1>3, AcceptFacts
<1>5. PICK p \in {NoPacket, Control("RR", child[k].cur_RRnum + (1 + RunBehind(k)))} : Respond(k, p)
  BY <1>1, <1>2, <1>3, AcceptFacts
<1>6. PICK cur \in Nat, run \in Nat : cur = child[k].cur_RRnum /\ run = RunBehind(k)
  <2>1. child[k].cur_RRnum \in Nat /\ RunBehind(k) \in Nat
    BY <1>1, <1>2, RunChunksType, RcopyAssumption DEF RcopyAssumption
  <2> QED BY <2>1
<1>7. PICK r : r = Accepted(k, srej, written)
  OBVIOUS
<1>8. Become(k, r)
  BY <1>4, <1>7 DEF Become
<1>9. r.cur_RRnum = cur + (1 + run) /\ r.state = "READY_FOR_NEXT_DATA_PACKET"
  BY <1>1, <1>6, <1>7 DEF Accepted, ChildTypes
<1>10. child[k].cur_RRnum <= r.cur_RRnum
  BY <1>6, <1>9
<1>11. p \in Honest(k)' \/ p = NoPacket
  <2>1. child'[k] = r
    BY <1>1, <1>8, BecomeType
  <2>2. cur + (1 + run) \in 1 .. child'[k].cur_RRnum /\ cur + (1 + run) \in Nat
    BY <1>6, <1>9, <2>1
  <2>3. Control("RR", cur + (1 + run)) \in Honest(k)'
    BY <2>2 DEF Control, Packet, Honest, Packets, Flags, ReplyFlags
  <2> QED BY <1>5, <1>6, <2>3
<1> QED BY <1>5, <1>8, <1>9, <1>10, <1>11, ReplyingPromises

\* The other steps of the data phase.
LEMMA DataReplies ==
    ASSUME TransferInv, WindowInv', UNCHANGED rcopyVars, NEW k \in Child,
           \/ ReadyForNextDataPacket(k) \/ ReadyForNextDataPacketTimeout(k)
           \/ HandleClientRecovery(k) \/ BufferPacket(k) \/ ReceivedEof(k) \/ TimeoutOnClient(k) \/ ReceivedEofAborts(k)
    PROVE  TransferInv'
<1>1. /\ child[k] \in ChildTypes /\ child[k].cur_RRnum \in Nat /\ child \in [Child -> ChildTypes]
      /\ ChildWindow(child[k])
  BY DEF TransferInv, WindowInv, WireInv, ServerTypeOK, ChildTypes
<1>2. PICK cur \in Nat : cur = child[k].cur_RRnum
  BY <1>1
<1>3. ASSUME NEW r, Become(k, r), r.cur_RRnum = child[k].cur_RRnum
      PROVE  /\ child[k].cur_RRnum <= r.cur_RRnum
             /\ Honest(k) \subseteq Honest(k)'
  <2>1. child[k].cur_RRnum <= r.cur_RRnum
    BY <1>1, <1>3
  <2>2. child[k].cur_RRnum <= child'[k].cur_RRnum
    BY <1>1, <1>3, <2>1, BecomeType
  <2> QED BY <2>1, <2>2, PromisesKept DEF TransferInv
<1>4. ASSUME NEW f \in {"RR", "SREJ"}, child[k].state \in ChildData
      PROVE  Control(f, cur) \in Honest(k)
  <2>1. cur \in 1 .. child[k].cur_RRnum
    BY <1>1, <1>2, <1>4 DEF ChildWindow
  <2> QED BY <1>2, <2>1, HonestReplies
<1>5. CASE ReadyForNextDataPacket(k)
  <2>1. PICK i \in Deliverable(toServer[k]) :
          /\ RecvFromClient(k, i)
          /\ Become(k, [child[k] EXCEPT
                          !.state = DataHandler(toServer[k][i].flag),
                          !.recvPacket = IF DataHandler(toServer[k][i].flag) = child[k].state
                                           THEN NoPacket ELSE toServer[k][i],
                          !.timeout = 0])
    BY <1>5 DEF ReadyForNextDataPacket, RecvFromClient, Take
  <2>2. PICK r : r = [child[k] EXCEPT
                        !.state = DataHandler(toServer[k][i].flag),
                        !.recvPacket = IF DataHandler(toServer[k][i].flag) = child[k].state
                                         THEN NoPacket ELSE toServer[k][i],
                        !.timeout = 0]
    OBVIOUS
  <2>3. Become(k, r)
    BY <2>1, <2>2 DEF Become
  <2>4. r.cur_RRnum = child[k].cur_RRnum /\ r.state = DataHandler(toServer[k][i].flag)
    BY <1>1, <2>2 DEF ChildTypes
  <2>5. r.state = "RECEIVED_EOF" => toServer[k][i].flag = "END_OF_FILE"
    BY <2>4 DEF DataHandler
  <2> QED BY <2>1, <2>3, <2>4, <2>5, TakingPromises
<1>6. CASE HandleClientRecovery(k)
  <2>1. PICK r : r = [child[k] EXCEPT !.state = "READY_FOR_NEXT_DATA_PACKET", !.recvPacket = NoPacket]
    OBVIOUS
  <2>2. Become(k, r) /\ child[k].state = "RECEIVED_DATA"
    BY <1>6, <2>1 DEF HandleClientRecovery
  <2>3. r.cur_RRnum = child[k].cur_RRnum /\ r.state = "READY_FOR_NEXT_DATA_PACKET"
    BY <1>1, <2>1 DEF ChildTypes
  <2>4. PICK p : p = Control(IF are_packets_buffered(child[k].window) THEN "SREJ" ELSE "RR", cur)
    OBVIOUS
  <2>5. Respond(k, p)
    BY <1>2, <1>6, <2>4 DEF HandleClientRecovery, Respond, Transmit
  <2>6. p \in Honest(k)
    BY <1>4, <2>2, <2>4 DEF ChildData
  <2>7. p \in Honest(k)' /\ child[k].cur_RRnum <= r.cur_RRnum
    BY <1>3, <2>2, <2>3, <2>6
  <2> QED BY <2>2, <2>3, <2>5, <2>7, ReplyingPromises
<1>7. CASE BufferPacket(k)
  <2>1. PICK w, ns : Become(k, [child[k] EXCEPT !.state = "READY_FOR_NEXT_DATA_PACKET",
                                                !.recvPacket = NoPacket,
                                                !.window = w, !.num_SREJ = ns, !.has_SREJ = TRUE])
    BY <1>1, <1>7 DEF BufferPacket, Become, ChildTypes
  <2>2. PICK r : r = [child[k] EXCEPT !.state = "READY_FOR_NEXT_DATA_PACKET", !.recvPacket = NoPacket,
                                      !.window = w, !.num_SREJ = ns, !.has_SREJ = TRUE]
    OBVIOUS
  <2>3. Become(k, r) /\ child[k].state = "RECEIVED_DATA"
    BY <1>7, <2>1, <2>2 DEF Become, BufferPacket
  <2>4. r.cur_RRnum = child[k].cur_RRnum /\ r.state = "READY_FOR_NEXT_DATA_PACKET"
    BY <1>1, <2>2 DEF ChildTypes
  <2>5. PICK p : p = IF child[k].has_SREJ THEN NoPacket ELSE Control("SREJ", cur)
    OBVIOUS
  <2>6. Respond(k, p)
    BY <1>2, <1>7, <2>5 DEF BufferPacket, Respond, Transmit
  <2>7. p \in Honest(k) \/ p = NoPacket
    BY <1>4, <2>3, <2>5 DEF ChildData
  <2>8. (p \in Honest(k)' \/ p = NoPacket) /\ child[k].cur_RRnum <= r.cur_RRnum
    BY <1>3, <2>3, <2>4, <2>7
  <2> QED BY <2>3, <2>4, <2>6, <2>8, ReplyingPromises
<1>8. CASE ReceivedEof(k)
  <2>1. PICK r : r = [child[k] EXCEPT !.state = "DONE", !.recvPacket = NoPacket]
    OBVIOUS
  <2>2. Become(k, r) /\ child[k].state = "RECEIVED_EOF"
    BY <1>8, <2>1 DEF ReceivedEof
  <2>3. r.cur_RRnum = child[k].cur_RRnum /\ r.state = "DONE"
    BY <1>1, <2>1 DEF ChildTypes
  <2>4. PICK p : p = Control("ACK_EOF", 0)
    OBVIOUS
  <2>5. Respond(k, p)
    BY <1>8, <2>4 DEF ReceivedEof, Respond, Transmit
  <2>6. p \in Honest(k)
    BY <2>2, <2>4, HonestReplies DEF TransferInv, EofAfterAll
  <2>7. p \in Honest(k)' /\ child[k].cur_RRnum <= r.cur_RRnum
    BY <1>3, <2>2, <2>3, <2>6
  <2> QED BY <2>2, <2>3, <2>5, <2>7, ReplyingPromises
<1>9. CASE ReadyForNextDataPacketTimeout(k) \/ TimeoutOnClient(k) \/ ReceivedEofAborts(k)
  <2>1. PICK st \in {"DONE", "TIMEOUT_ON_CLIENT"} : Become(k, [child[k] EXCEPT !.state = st])
    BY <1>9 DEF ReadyForNextDataPacketTimeout, TimeoutOnClient, ReceivedEofAborts
  <2>2. PICK r : r = [child[k] EXCEPT !.state = st]
    OBVIOUS
  <2>3. Become(k, r)
    BY <2>1, <2>2 DEF Become
  <2>4. r.cur_RRnum = child[k].cur_RRnum /\ r.state = st
    BY <1>1, <2>2 DEF ChildTypes
  <2>5. UNCHANGED <<toServer, toClient>>
    BY <1>9 DEF ReadyForNextDataPacketTimeout, TimeoutOnClient, ReceivedEofAborts, channelVars
  <2>6. \A j \in Child : toServer'[j] \in Seq(Lawful(j))
    BY <2>5 DEF TransferInv, EofAfterAll
  <2>7. child[k].cur_RRnum <= r.cur_RRnum
    BY <1>3, <2>3, <2>4
  <2> QED BY <2>1, <2>3, <2>4, <2>5, <2>6, <2>7, ChildKeepsPromises
<1> QED BY <1>5, <1>6, <1>7, <1>8, <1>9

-----------------------------------------------------------------------------
(* The third invariant, and what follows from it.                          *)

\* Every step of the upload keeps the third invariant.
LEMMA TransferNext ==
    ASSUME TransferInv, [Next]_vars
    PROVE  TransferInv'
<1>1. WindowInv'
  BY WindowNext DEF TransferInv
<1>2. CASE ClientNext
  BY <1>1, <1>2, ClientReplyStep DEF ClientNext
<1>3. CASE MainNext
  <2>1. PICK k \in Child : MainAccept(k)
    BY <1>3 DEF MainNext
  <2>2. UNCHANGED rcopyVars
    BY <1>3 DEF MainNext
  <2> QED BY <1>1, <2>1, <2>2, SetupReplies
<1>4. CASE \E k \in Child : ChildNext(k)
  <2>1. PICK k \in Child : ChildNext(k)
    BY <1>4
  <2>2. UNCHANGED rcopyVars /\ (ChildStep(k) \/ ChildTimeout(k))
    BY <2>1 DEF ChildNext
  <2> QED BY <1>1, <2>2, SetupReplies, OpeningReplies, AcceptReplies, DataReplies
          DEF ChildStep, ChildTimeout
<1>5. CASE UNCHANGED vars
  <2>1. /\ UNCHANGED serverVars /\ UNCHANGED channelVars
        /\ remote' = remote /\ c_state' = c_state /\ c_exit' = c_exit /\ c_win_min' = c_win_min
    BY <1>5 DEF vars, rcopyVars, setupVars, windowVars
  <2> QED BY <1>1, <2>1, SilentPromises
<1> QED BY <1>2, <1>3, <1>4, <1>5 DEF Next, Terminated

\* The upload starts in the third invariant.
LEMMA TransferInit ==
    ASSUME Init
    PROVE  TransferInv
<1>1. /\ child = [k \in Child |-> Unborn]
      /\ toServer = [s \in Server |-> <<>>] /\ toClient = [k \in Child |-> <<>>]
      /\ c_state = "SEND_REMOTE_FILE_NAME" /\ c_exit = "running" /\ c_win_min = 0
  BY DEF Init, ServerInit, ChannelInit, RcopyInit
<1>2. RepliesHonest
  BY <1>1 DEF RepliesHonest
<1>3. EofAfterAll
  <2>1. \A k \in Child : toServer[k] \in Seq(Lawful(k))
    BY <1>1 DEF Server
  <2>2. \A k \in Child : child[k].state = "NONE"
    BY <1>1 DEF Unborn
  <2> QED BY <1>1, <2>1, <2>2 DEF EofAfterAll
<1>4. WindowBehind
  BY <1>1, NotPositive, Zenon DEF WindowBehind
<1> QED BY <1>2, <1>3, <1>4, WindowInit DEF TransferInv

\* Replies promise no more than has been accepted, and END_OF_FILE is sent to,
\* and ACK_EOF by, a child that has accepted the whole file and no other.
THEOREM TransferCorrect == Spec => []TransferInv
<1>1. Init => TransferInv
  BY TransferInit
<1>2. TransferInv /\ [Next]_vars => TransferInv'
  BY TransferNext
<1> QED BY <1>1, <1>2, PTL DEF Spec

\* The invariant the runs check, with every one of its parts.
THEOREM InvariantHolds == Spec => []IInv
<1>1. TransferInv => IInv
  BY DEF TransferInv, WindowInv, WireInv, ClientInv, WireOK, TypeOK, ClientGenuine, IInv
<1> QED BY <1>1, TransferCorrect, PTL

\* A child in its data phase that alone has the file open has written the
\* packets it has accepted, and nothing else is in the file.
LEMMA OpenerHasWritten ==
    ASSUME TransferInv, OneOpener, ~writeErr, NEW k \in Child, Receiving(k)
    PROVE  /\ Len(remoteFile) = child[k].cur_RRnum - 1
           /\ \A i \in DOMAIN remoteFile : remoteFile[i] = LocalFile[i]
<1>1. ChildWindow(child[k]) /\ FileMatches
  BY DEF TransferInv, WindowInv
<1>2. child[k].fileGood
  BY <1>1 DEF ChildWindow, Receiving
<1>3. OnlyOpener(k)
  BY <1>2 DEF OneOpener, OnlyOpener
<1> QED BY <1>1, <1>3 DEF FileMatches

\* A child that has accepted everything is in its data phase.
LEMMA CompleteReceives ==
    ASSUME NEW k \in Child, Complete(k)
    PROVE  Receiving(k) /\ child[k].cur_RRnum - 1 = Len(LocalFile)
<1>1. PICK len \in Nat : len = Len(LocalFile)
  BY FileType
<1>2. child[k].cur_RRnum = len + 1
  BY <1>1 DEF Complete
<1>3. len + 1 > 0 /\ (len + 1) - 1 = len
  BY <1>1
<1> QED BY <1>1, <1>2, <1>3 DEF Receiving

\* A client that ended on ACK_EOF has put the whole file on the disk.
LEMMA CompleteOnDisk ==
    ASSUME TransferInv, c_exit = "ack eof", ~writeErr, OneOpener
    PROVE  remoteFile = LocalFile
<1>1. PICK k \in Child : Complete(k)
  BY DEF TransferInv, EofAfterAll
<1>2. Receiving(k) /\ child[k].cur_RRnum - 1 = Len(LocalFile)
  BY <1>1, CompleteReceives
<1>3. /\ Len(remoteFile) = Len(LocalFile)
      /\ \A i \in DOMAIN remoteFile : remoteFile[i] = LocalFile[i]
  BY <1>2, OpenerHasWritten
<1> DEFINE Cell == Chunk \cup {Hole}
<1>4. remoteFile \in Seq(Cell)
  BY DEF TransferInv, WindowInv, WireInv, ServerTypeOK
<1>5. LocalFile \in Seq(Cell)
  BY FileType, SeqMonotonic
<1> HIDE DEF Cell
<1>6. \A i \in 1 .. Len(remoteFile) : remoteFile[i] = LocalFile[i]
  <2>1. DOMAIN remoteFile = 1 .. Len(remoteFile)
    BY <1>4, LenProperties, Zenon
  <2> QED BY <1>3, <2>1, Zenon
<1> QED BY <1>3, <1>4, <1>5, <1>6, SeqEqual

\* rcopy reports success only when the file on the server's disk is the local
\* file, unless a write failed or a second child has opened the file.
THEOREM SuccessIsComplete == Spec => []AckedMeansComplete
<1>1. TransferInv => AckedMeansComplete
  BY CompleteOnDisk DEF AckedMeansComplete
<1> QED BY <1>1, TransferCorrect, PTL

\* A child handles END_OF_FILE only when it has written every packet of the file.
THEOREM EofIsLast == Spec => []EofOnlyWhenComplete
<1>1. ASSUME TransferInv, NEW k \in Child, child[k].state = "RECEIVED_EOF", ~writeErr
      PROVE  child[k].offset >= Len(LocalFile)
  <2>1. Receiving(k) /\ child[k].cur_RRnum - 1 = Len(LocalFile)
    BY <1>1, CompleteReceives DEF TransferInv, EofAfterAll
  <2>2. child[k].offset = child[k].cur_RRnum - 1
    BY <1>1, <2>1 DEF TransferInv, WindowInv, FileMatches
  <2>3. child[k].offset = Len(LocalFile)
    BY <2>1, <2>2
  <2> QED BY <2>3, FileType
<1>2. TransferInv => EofOnlyWhenComplete
  BY <1>1 DEF EofOnlyWhenComplete
<1> QED BY <1>2, TransferCorrect, PTL

\* The client's window never slides past a packet that is not on the disk.
THEOREM SlidOnlyPastWritten == Spec => []WindowOnDisk
<1>1. ASSUME TransferInv, ~writeErr, OneOpener
      PROVE  c_win_min <= Len(remoteFile)
  <2>1. PICK len \in Nat, low \in Int : len = Len(remoteFile) /\ low = c_win_min
    <3>1. remoteFile \in Seq(Chunk \cup {Hole}) /\ c_win_min \in Int
      BY <1>1 DEF TransferInv, WindowInv, WireInv, ServerTypeOK, ClientInv, ClientTypeOK
    <3>2. Len(remoteFile) \in Nat
      BY <3>1
    <3> QED BY <3>1, <3>2
  <2>2. CASE low <= 0
    BY <2>1, <2>2
  <2>3. CASE \E k \in Child : low + 1 <= child[k].cur_RRnum /\ ~(low <= 0)
    <3>1. PICK k \in Child : low + 1 <= child[k].cur_RRnum /\ ~(low <= 0)
      BY <2>3
    <3>2. PICK cur \in Nat : cur = child[k].cur_RRnum
      BY <1>1 DEF TransferInv, WindowInv, WireInv, ServerTypeOK, ChildTypes
    <3>3. Receiving(k)
      BY <2>1, <3>1, <3>2 DEF Receiving
    <3>4. len = cur - 1
      BY <1>1, <2>1, <3>2, <3>3, OpenerHasWritten
    <3> QED BY <2>1, <3>1, <3>2, <3>4
  <2> QED BY <1>1, <2>1, <2>2, <2>3 DEF TransferInv, WindowBehind
<1>2. TransferInv => WindowOnDisk
  BY <1>1 DEF WindowOnDisk
<1> QED BY <1>2, TransferCorrect, PTL

-----------------------------------------------------------------------------
(* What is asked for again, and the order of what is acknowledged.         *)

\* A path that keeps the order hands over the first packet and leaves the others.
LEMMA FirstTaken ==
    ASSUME ~Reorder, NEW q \in Seq(Packets), NEW i \in Deliverable(q)
    PROVE  /\ i = 1 /\ 1 \in DOMAIN q /\ Len(q) >= 1
           /\ DOMAIN RemoveAt(q, i) = 1 .. Len(q) - 1
           /\ Len(RemoveAt(q, i)) = Len(q) - 1
           /\ \A j \in 1 .. Len(q) - 1 : RemoveAt(q, i)[j] = q[j + 1]
<1>1. i = 1 /\ 1 \in DOMAIN q /\ Len(q) >= 1
  BY DEF Deliverable
<1>2. RemoveAt(q, 1) = SubSeq(q, 2, Len(q))
  BY <1>1 DEF RemoveAt
<1>3. PICK r : r = SubSeq(q, 2, Len(q))
  OBVIOUS
<1>4. PICK n \in Nat : n = Len(q)
  OBVIOUS
<1>5. Len(r) = n - 1 /\ r \in Seq(Packets) /\ \A j \in 1 .. n - 1 : r[j] = q[j + 1]
  BY <1>1, <1>3, <1>4
<1>6. DOMAIN r = 1 .. n - 1
  BY <1>4, <1>5
<1> QED BY <1>1, <1>2, <1>3, <1>4, <1>5, <1>6

\* Taking the first packet leaves a queue that asks in time, and, if that packet was
\* the last acknowledgement, one that asks for nothing.
LEMMA TakenInTime ==
    ASSUME ~Reorder, NEW q \in Seq(Packets), AsksInTime(q), NEW i \in Deliverable(q)
    PROVE  /\ AsksInTime(RemoveAt(q, i))
           /\ LastRR(q[i]) \/ AsksForNothing(q) => AsksForNothing(RemoveAt(q, i))
<1>1. PICK r : r = RemoveAt(q, i)
  OBVIOUS
<1>2. PICK n \in Nat : n = Len(q)
  OBVIOUS
<1>3. /\ i = 1 /\ DOMAIN r = 1 .. n - 1 /\ DOMAIN q = 1 .. n /\ n >= 1
      /\ \A j \in 1 .. n - 1 : r[j] = q[j + 1]
  BY <1>1, <1>2, FirstTaken
<1>4. ASSUME NEW a \in DOMAIN r, NEW b \in DOMAIN r, a < b, LastRR(r[a]) PROVE r[b].flag # "SREJ"
  <2>1. a + 1 \in DOMAIN q /\ b + 1 \in DOMAIN q /\ a + 1 < b + 1
    BY <1>3, <1>4
  <2>2. r[a] = q[a + 1] /\ r[b] = q[b + 1]
    BY <1>3, <1>4
  <2> QED BY <1>4, <2>1, <2>2 DEF AsksInTime
<1>5. ASSUME LastRR(q[i]) \/ AsksForNothing(q), NEW b \in DOMAIN r PROVE r[b].flag # "SREJ"
  <2>1. 1 \in DOMAIN q /\ b + 1 \in DOMAIN q /\ 1 < b + 1
    BY <1>3, <1>5
  <2>2. r[b] = q[b + 1]
    BY <1>3, <1>5
  <2> QED BY <1>3, <1>5, <2>1, <2>2 DEF AsksInTime, AsksForNothing
<1>6. AsksInTime(r)
  BY <1>4 DEF AsksInTime
<1> QED BY <1>1, <1>5, <1>6 DEF AsksForNothing

\* A packet that asks for nothing may follow whatever is queued; a SREJ must not follow
\* the last acknowledgement.
LEMMA PutInTime ==
    ASSUME NEW q \in Seq(Packets), AsksInTime(q), NEW p \in Packets,
           p.flag = "SREJ" => \A i \in DOMAIN q : ~LastRR(q[i])
    PROVE  /\ Put(q, p) \in Seq(Packets) /\ AsksInTime(Put(q, p))
           /\ p.flag = "SREJ" => \A i \in DOMAIN Put(q, p) : ~LastRR(Put(q, p)[i])
           /\ p.flag # "SREJ" /\ AsksForNothing(q) => AsksForNothing(Put(q, p))
<1>1. CASE Put(q, p) = q
  BY <1>1
<1>2. CASE Put(q, p) = Append(q, p)
  <2>1. PICK r : r = Append(q, p)
    OBVIOUS
  <2>2. PICK n \in Nat : n = Len(q)
    OBVIOUS
  <2>3. /\ DOMAIN r = 1 .. n + 1 /\ DOMAIN q = 1 .. n /\ r[n + 1] = p
        /\ \A i \in 1 .. n : r[i] = q[i]
    BY <2>1, <2>2
  <2>4. ASSUME NEW a \in DOMAIN r, NEW b \in DOMAIN r, a < b, LastRR(r[a])
        PROVE  r[b].flag # "SREJ"
    <3>1. a \in DOMAIN q /\ r[a] = q[a]
      BY <2>3, <2>4
    <3>2. CASE b \in DOMAIN q
      BY <2>3, <2>4, <3>1, <3>2 DEF AsksInTime
    <3>3. CASE b = n + 1
      BY <2>3, <2>4, <3>1, <3>3
    <3> QED BY <2>3, <2>4, <3>2, <3>3
  <2>5. AsksInTime(r)
    BY <2>4 DEF AsksInTime
  <2>6. \A i \in DOMAIN r : r[i] = p \/ (i \in DOMAIN q /\ r[i] = q[i])
    BY <2>3
  <2>7. p.flag = "SREJ" => \A i \in DOMAIN r : ~LastRR(r[i])
    BY <2>6 DEF LastRR
  <2>8. p.flag # "SREJ" /\ AsksForNothing(q) => AsksForNothing(r)
    BY <2>6 DEF AsksForNothing
  <2>9. r \in Seq(Packets)
    BY <2>1
  <2> QED BY <1>2, <2>1, <2>5, <2>7, <2>8, <2>9
<1> QED BY <1>1, <1>2 DEF Put

\* Whatever a faulty path makes of such a packet follows in time, too.
LEMMA DamagedInTime ==
    ASSUME NEW q \in Seq(Packets), AsksInTime(q), NEW p \in Packets,
           p.flag = "SREJ" => \A i \in DOMAIN q : ~LastRR(q[i]),
           NEW r \in Damaged(q, p)
    PROVE  /\ AsksInTime(r)
           /\ p.flag # "SREJ" /\ AsksForNothing(q) => AsksForNothing(r)
<1>1. Garbled \in Packets /\ Garbled.flag # "SREJ"
  BY GarbledPacket DEF Garbled, Packet
<1>2. CASE r = q
  BY <1>2
<1>3. CASE r = Put(q, Garbled)
  BY <1>1, <1>3, PutInTime
<1>4. CASE r = Put(Put(q, p), p)
  <2>1. PICK t \in Seq(Packets) : t = Put(q, p)
    BY PutInTime
  <2>2. /\ AsksInTime(t)
        /\ p.flag = "SREJ" => \A i \in DOMAIN t : ~LastRR(t[i])
        /\ p.flag # "SREJ" /\ AsksForNothing(q) => AsksForNothing(t)
    BY <2>1, PutInTime
  <2> QED BY <1>4, <2>1, <2>2, PutInTime
<1> QED BY <1>2, <1>3, <1>4 DEF Damaged

\* What the following proofs need of the invariants.
LEMMA SrejFacts ==
    ASSUME TransferInv, NEW k \in Child
    PROVE  /\ toClient \in [Child -> Seq(Packets)] /\ toClient[k] \in Seq(Honest(k))
           /\ readPos \in Nat /\ readPos <= Len(LocalFile) /\ Len(LocalFile) \in Nat
           /\ WireInv /\ child[k] \in ChildTypes /\ child[k].cur_RRnum \in Nat
           /\ ChildWindow(child[k]) /\ ChildGenuine(child[k])
<1>1. /\ toClient \in [Child -> Seq(Packets)] /\ toClient[k] \in Seq(Honest(k))
      /\ readPos \in 0 .. Len(LocalFile) /\ Len(LocalFile) \in Nat
      /\ WireInv /\ child[k] \in ChildTypes
      /\ ChildWindow(child[k]) /\ ChildGenuine(child[k])
  BY FileType DEF TransferInv, WindowInv, WireInv, ClientInv, WireOK, ChannelTypeOK, ServerTypeOK,
         ClientTypeOK, RepliesHonest
<1> QED BY <1>1 DEF ChildTypes

\* A child that has not accepted everything has not acknowledged the last packet.
LEMMA LastUnacknowledged ==
    ASSUME TransferInv, NEW k \in Child, ~Complete(k)
    PROVE  \A i \in DOMAIN toClient[k] : ~LastRR(toClient[k][i])
<1>1. PICK cur \in Nat, len \in Nat : cur = child[k].cur_RRnum /\ len = Len(LocalFile)
  BY SrejFacts
<1>2. cur <= len
  <2>1. child[k].cur_RRnum \in 0 .. Len(LocalFile) + 1
    BY AtMostAll DEF TransferInv
  <2> QED BY <1>1, <2>1 DEF Complete
<1>3. ASSUME NEW i \in DOMAIN toClient[k], LastRR(toClient[k][i]) PROVE FALSE
  <2>1. toClient[k][i] \in Honest(k)
    BY SrejFacts
  <2>2. toClient[k][i].num \in 1 .. cur /\ toClient[k][i].num = len + 1
    BY <1>1, <1>3, <2>1 DEF Honest, LastRR
  <2> QED BY <1>2, <2>2
<1> QED BY <1>3

\* A child that asks again has not accepted everything, and asks for a packet that has
\* been sent: it holds one that was sent after it.  A child that acknowledges does so
\* with all it has accepted.
LEMMA ChildAsks ==
    ASSUME TransferInv, NEW k \in Child, ChildNext(k)
    PROVE  \/ toClient' = toClient
           \/ \E p \in Packets :
                /\ Respond(k, p)
                /\ p.flag = "SREJ" => p.num \in 1 .. readPos /\ ~Complete(k)
                /\ p.flag = "RR" => 1 <= p.num /\ child[k].cur_RRnum <= p.num
<1>1. PICK cur \in Nat, len \in Nat, sent \in Nat :
        cur = child[k].cur_RRnum /\ len = Len(LocalFile) /\ sent = readPos /\ sent <= len
  BY SrejFacts
<1>2. ASSUME child[k].state = "RECEIVED_DATA", NEW n \in Nat, n > cur, n <= sent
      PROVE  cur \in 1 .. readPos /\ ~Complete(k)
  <2>1. cur > 0
    BY <1>1, <1>2, SrejFacts DEF ChildWindow, ChildData
  <2> QED BY <1>1, <1>2, <2>1 DEF Complete
<1>3. ASSUME NEW f \in Flags, NEW n \in Nat
      PROVE  /\ Control(f, n) \in Packets
             /\ Control(f, n).flag = f /\ Control(f, n).num = n
  BY <1>3, ControlType DEF Control, Packet
<1>4. CASE BufferPacket(k)
  <2>1. child[k].state = "RECEIVED_DATA" /\ child[k].recvPacket.num > cur
    BY <1>1, <1>4 DEF BufferPacket
  <2>2. child[k].recvPacket \in Genuine \cup {NoPacket} /\ child[k].recvPacket.flag = "DATA"
    BY <2>1, SrejFacts DEF ChildGenuine
  <2>3. child[k].recvPacket.num \in 1 .. sent
    BY <1>1, <2>2 DEF Genuine, Sendable, NoPacket, Packet
  <2>4. cur \in 1 .. readPos /\ ~Complete(k)
    BY <1>2, <2>1, <2>3
  <2>5. PICK p \in Packets : p \in {NoPacket, Control("SREJ", cur)} /\ Respond(k, p)
    <3>1. PICK p : p = IF child[k].has_SREJ THEN NoPacket ELSE Control("SREJ", cur)
      OBVIOUS
    <3>2. Respond(k, p)
      BY <1>1, <1>4, <3>1 DEF BufferPacket, Respond, Transmit
    <3>3. p \in {NoPacket, Control("SREJ", cur)}
      BY <3>1
    <3>4. p \in Packets
      BY <1>3, <3>3, NoPacketType DEF Flags, ReplyFlags
    <3> QED BY <3>2, <3>3, <3>4
  <2>6. p.flag # "RR" /\ (p.flag = "SREJ" => p.num = cur)
    BY <1>3, <2>5 DEF NoPacket, Packet, Control
  <2> QED BY <2>4, <2>5, <2>6
<1>5. CASE HandleClientRecovery(k)
  <2>1. child[k].state = "RECEIVED_DATA"
    BY <1>5 DEF HandleClientRecovery
  <2>2. PICK p : p = Control(IF are_packets_buffered(child[k].window) THEN "SREJ" ELSE "RR", cur)
    OBVIOUS
  <2>3. Respond(k, p)
    BY <1>1, <1>5, <2>2 DEF HandleClientRecovery, Respond, Transmit
  <2>4. p \in Packets /\ p.num = cur /\ (p.flag = "SREJ" => are_packets_buffered(child[k].window))
    <3>1. "SREJ" \in Flags /\ "RR" \in Flags
      BY DEF Flags, ReplyFlags
    <3> QED BY <1>3, <2>2, <3>1
  <2>5. ASSUME are_packets_buffered(child[k].window)
        PROVE  cur \in 1 .. readPos /\ ~Complete(k)
    <3>1. PICK i \in Slots : child[k].window[i] # NoPacket
      BY <2>5 DEF are_packets_buffered
    <3>2. child[k].window[i] \in OwnPacket
      BY <3>1, SrejFacts DEF ChildGenuine
    <3>3. child[k].window[i].num \in 1 .. sent
      BY <1>1, <3>2 DEF OwnPacket, Genuine, Sendable
    <3>4. child[k].cur_RRnum > 0
      BY <2>1, SrejFacts DEF ChildWindow, ChildData
    <3>5. child[k].window[i].num > cur
      BY <1>1, <3>1, <3>4, SrejFacts DEF ChildWindow
    <3> QED BY <1>2, <2>1, <3>3, <3>5
  <2>6. 1 <= cur /\ cur <= cur
    BY <1>1, <2>1, SrejFacts DEF ChildWindow, ChildData
  <2> QED BY <1>1, <2>3, <2>4, <2>5, <2>6
<1>6. CASE HandleExpectedSREJPacket(k) \/ HandleExpectedPacketNumber(k)
  <2>1. child[k].state = "RECEIVED_DATA"
    BY <1>6 DEF HandleExpectedSREJPacket, HandleExpectedPacketNumber
  <2>2. PICK srej \in BOOLEAN : AcceptData(k, srej)
    <3>1. CASE HandleExpectedSREJPacket(k)
      BY <3>1 DEF HandleExpectedSREJPacket
    <3>2. CASE HandleExpectedPacketNumber(k)
      <4>1. PICK srej \in BOOLEAN : srej = child[k].has_SREJ
        BY SrejFacts DEF ChildTypes
      <4>2. AcceptData(k, srej)
        BY <3>2, <4>1 DEF HandleExpectedPacketNumber, AcceptData, Respond, Transmit
      <4> QED BY <4>2
    <3> QED BY <1>6, <3>1, <3>2
  <2>3. PICK p \in {NoPacket, Control("RR", child[k].cur_RRnum + (1 + RunBehind(k)))} : Respond(k, p)
    BY <2>1, <2>2, SrejFacts, AcceptFacts
  <2>4. PICK n \in Nat : n = cur + (1 + RunBehind(k)) /\ 1 <= n /\ cur <= n
    BY <2>1, SrejFacts, RunChunksType, RcopyAssumption DEF RcopyAssumption
  <2>5. p \in {NoPacket, Control("RR", n)}
    BY <1>1, <2>3, <2>4
  <2>6. p \in Packets /\ p.flag # "SREJ" /\ (p.flag = "RR" => p.num = n)
    <3>1. "RR" \in Flags
      BY DEF Flags, ReplyFlags
    <3> QED BY <1>3, <2>5, <3>1, NoPacketType DEF NoPacket, Packet
  <2> QED BY <1>1, <2>3, <2>4, <2>6
<1>7. CASE \/ ReceivedRemoteFileNameNoOpen(k) \/ ReceivedRemoteFileName(k) \/ ReceivedBufferSize(k)
           \/ ReceivedWindowSize(k) \/ ReceivedEof(k)
  <2>1. PICK f \in ReplyFlags \ {"RR", "SREJ"} : Respond(k, Control(f, 0))
    BY <1>7 DEF ReceivedRemoteFileNameNoOpen, ReceivedRemoteFileName, ReceivedBufferSize,
                ReceivedWindowSize, ReceivedEof, ReplyFlags
  <2>2. f \in Flags /\ f \notin {"RR", "SREJ"}
    BY DEF Flags
  <2>3. PICK p \in Packets : p = Control(f, 0) /\ p.flag \notin {"RR", "SREJ"}
    BY <1>3, <2>2
  <2>4. Respond(k, p)
    BY <2>1, <2>3 DEF Respond, Transmit
  <2> QED BY <2>3, <2>4
<1>8. CASE \/ ReadyForNextSetupPacket(k) \/ ReadyForDataPacketSetup(k) \/ ReadyForNextDataPacket(k)
           \/ ReceivedEofAborts(k) \/ TimeoutOnClient(k) \/ ChildTimeout(k)
  BY <1>8 DEF ReadyForNextSetupPacket, ReadyForDataPacketSetup, ReadyForNextDataPacket,
              ReceivedEofAborts, TimeoutOnClient, ChildTimeout, ReadyForNextSetupPacketTimeout,
              ReadyForNextDataPacketTimeout, RecvFromClient, channelVars
<1> QED BY <1>4, <1>5, <1>6, <1>7, <1>8 DEF ChildNext, ChildStep

\* A step of a child keeps what is asked for in order.
LEMMA ChildSrejStep ==
    ASSUME \A j, k \in Child : j = k, TransferInv, SrejInv, NEW k \in Child, ChildNext(k)
    PROVE  SrejInv'
<1>1. UNCHANGED <<c_state, remote, readPos, SREJ_num>>
  BY DEF ChildNext, rcopyVars, setupVars, sendVars
<1>2. CASE toClient' = toClient
  BY <1>1, <1>2 DEF SrejInv, AsksForSent
<1>3. CASE toClient' # toClient
  <2>1. PICK p \in Packets :
          Respond(k, p) /\ (p.flag = "SREJ" => p.num \in 1 .. readPos /\ ~Complete(k))
    BY <1>3, ChildAsks
  <2>2. Transmit(toClient, k, p)
    BY <1>3, <2>1 DEF Respond
  <2>3. PICK q \in Seq(Packets) : q = toClient[k]
    BY SrejFacts
  <2>4. /\ q \in Seq(AsksForSent) /\ AsksInTime(q)
        /\ c_state \in {"SEND_EOF_AND_QUIT", "SEND_EOF_SELECT"} => AsksForNothing(q)
    BY <2>3 DEF SrejInv
  <2>5. p.flag = "SREJ" => \A i \in DOMAIN q : ~LastRR(q[i])
    BY <2>1, <2>3, LastUnacknowledged
  <2>6. p \in AsksForSent /\ Garbled \in AsksForSent
    BY <2>1, GarbledPacket DEF AsksForSent, Garbled, Packet
  <2>7. p.flag = "SREJ" => c_state \notin {"SEND_EOF_AND_QUIT", "SEND_EOF_SELECT"}
    BY <2>1 DEF TransferInv, EofAfterAll
  <2>8. PICK r : toClient' = [toClient EXCEPT ![k] = r] /\ (r = Put(q, p) \/ r \in Damaged(q, p))
    BY <2>2, <2>3 DEF Transmit
  <2>9. r \in Seq(AsksForSent) /\ AsksInTime(r)
        /\ (p.flag # "SREJ" /\ AsksForNothing(q) => AsksForNothing(r))
    <3>1. CASE r = Put(q, p)
      <4>1. r \in Seq(AsksForSent)
        BY <2>4, <2>6, <3>1, PutType
      <4> QED BY <2>4, <2>5, <3>1, <4>1, PutInTime
    <3>2. CASE r \in Damaged(q, p)
      <4>1. r \in Seq(AsksForSent)
        BY <2>4, <2>6, <3>2, DamagedType
      <4> QED BY <2>4, <2>5, <3>2, <4>1, DamagedInTime
    <3> QED BY <2>8, <3>1, <3>2
  <2>10. toClient'[k] = r /\ \A j \in Child : j = k
    BY <2>8, SrejFacts
  <2>11. AsksForSent' = AsksForSent
    BY <1>1 DEF AsksForSent
  <2> QED BY <1>1, <2>4, <2>7, <2>9, <2>10, <2>11 DEF SrejInv
<1> QED BY <1>2, <1>3

\* A step of the client that takes nothing from its queue.
LEMMA DeafSrejStep ==
    ASSUME TransferInv, SrejInv, toClient' = toClient, readPos' \in {readPos, readPos + 1},
           c_state' \in {"SEND_EOF_AND_QUIT", "SEND_EOF_SELECT"}
             => c_state \in {"SEND_EOF_AND_QUIT", "SEND_EOF_SELECT"},
           c_state' # "SEND_DATA_SREJ"
    PROVE  SrejInv'
<1>1. ASSUME NEW k \in Child PROVE toClient'[k] \in Seq(AsksForSent')
  <2>1. PICK sent \in Nat : sent = readPos
    BY <1>1, SrejFacts
  <2>2. AsksForSent \subseteq AsksForSent'
    BY <2>1 DEF AsksForSent
  <2> QED BY <2>2 DEF SrejInv
<1> QED BY <1>1 DEF SrejInv

\* A reply the client reads: after the last RR nothing is asked for, and the number
\* that is stored is that of a packet sent.
LEMMA HearingSrejStep ==
    ASSUME ~Reorder, \A j, k \in Child : j = k, TransferInv, SrejInv, readPos' = readPos,
           NEW k \in Child, NEW i \in Deliverable(toClient[k]), RecvFromServer(k, i),
           c_state' \in {"SEND_EOF_AND_QUIT", "SEND_EOF_SELECT"}
             => LastRR(toClient[k][i]) \/ AsksForNothing(toClient[k]),
           c_state' = "SEND_DATA_SREJ"
             => toClient[k][i].flag = "SREJ" /\ SREJ_num' = toClient[k][i].num
    PROVE  SrejInv'
<1>1. PICK q \in Seq(Packets) : q = toClient[k]
  BY SrejFacts
<1>2. q \in Seq(AsksForSent) /\ AsksInTime(q)
  BY <1>1 DEF SrejInv
<1>3. i \in DOMAIN q /\ i \in Deliverable(q)
  BY <1>1, FirstTaken
<1>4. PICK r : r = RemoveAt(q, i)
  OBVIOUS
<1>5. r \in Seq(AsksForSent)
  BY <1>2, <1>3, <1>4, RemoveAtType
<1>6. AsksInTime(r) /\ (LastRR(q[i]) \/ AsksForNothing(q) => AsksForNothing(r))
  BY <1>2, <1>3, <1>4, TakenInTime
<1>7. toClient'[k] = r /\ \A j \in Child : j = k
  BY <1>1, <1>4, SrejFacts DEF RecvFromServer, Take
<1>8. AsksForSent' = AsksForSent
  BY DEF AsksForSent
<1>9. c_state' = "SEND_DATA_SREJ" => SREJ_num' \in 1 .. readPos
  <2>1. q[i] \in AsksForSent
    BY <1>2, <1>3
  <2> QED BY <1>1, <2>1 DEF AsksForSent
<1> QED BY <1>1, <1>5, <1>6, <1>7, <1>8, <1>9 DEF SrejInv

\* A reply the client reads in the data phase.
LEMMA DataSrejStep ==
    ASSUME ~Reorder, \A j, k \in Child : j = k, TransferInv, SrejInv,
           ReceiveDataWindowOpen \/ ReceiveDataWindowClosed \/ SendEofReply
    PROVE  SrejInv'
<1>1. readPos' = readPos /\ c_state \in ClientData
  BY DEF ReceiveDataWindowOpen, ReceiveDataWindowClosed, ReceiveData, SendEofReply, sendVars,
         ClientData
<1>2. PICK k \in Child : \E i \in Deliverable(toClient[k]) :
        /\ RecvFromServer(k, i)
        /\ ProcessIncomingData(toClient[k][i])
        /\ c_state # "SEND_EOF_SELECT" =>
             SREJ_num' = IF toClient[k][i].flag = "SREJ" THEN toClient[k][i].num ELSE SREJ_num
  BY Zenon DEF ReceiveDataWindowOpen, ReceiveDataWindowClosed, ReceiveData, SendEofReply
<1> PICK i \in Deliverable(toClient[k]) :
        /\ RecvFromServer(k, i)
        /\ ProcessIncomingData(toClient[k][i])
        /\ c_state # "SEND_EOF_SELECT" =>
             SREJ_num' = IF toClient[k][i].flag = "SREJ" THEN toClient[k][i].num ELSE SREJ_num
  BY <1>2
<1>3. PICK p : p = toClient[k][i]
  OBVIOUS
<1>4. ProcessIncomingData(p)
  BY <1>3 DEF ProcessIncomingData
<1>5. c_state' \in {"SEND_EOF_AND_QUIT", "SEND_EOF_SELECT"} => LastRR(p)
  <2>1. ASSUME c_state' \in {"SEND_EOF_AND_QUIT", "SEND_EOF_SELECT"}
        PROVE  p.flag = "RR" /\ doneTransmitting /\ p.num = cur_packet_num
    BY <1>4, <2>1 DEF ProcessIncomingData, AfterRR, Goto, Quit
  <2>2. /\ doneTransmitting => readPos = Len(LocalFile)
        /\ cur_packet_num > 0 /\ cur_packet_num \in {0, readPos + 1}
    BY <1>1 DEF TransferInv, WindowInv, WireInv, ClientInv, ClientCounters
  <2> QED BY <2>1, <2>2 DEF LastRR
<1>6. c_state' = "SEND_DATA_SREJ" => p.flag = "SREJ"
  BY <1>4 DEF ProcessIncomingData, AfterRR, Goto, Quit
<1>7. p.flag = "SREJ" => c_state # "SEND_EOF_SELECT"
  <2>1. i \in DOMAIN toClient[k]
    BY DEF Deliverable
  <2> QED BY <1>3, <2>1 DEF SrejInv, AsksForNothing
<1> QED BY <1>1, <1>3, <1>5, <1>6, <1>7, HearingSrejStep

\* Every step of the client keeps what is asked for in order.
LEMMA ClientSrejStep ==
    ASSUME ~Reorder, \A j, k \in Child : j = k, TransferInv, SrejInv, RcopyStep \/ RcopyTimeout
    PROVE  SrejInv'
<1>1. CASE \/ SendRemoteFileName \/ SendBufferSize \/ SendWindowSize \/ ReadyToSendDataSetup
           \/ SendDataEndOfFile \/ SendDataReadError \/ ReceiveDataWindowOpenEmpty \/ SendEof
           \/ TimeoutOnServer \/ WaitForSetupAcksTimeout \/ SendEofTimeout
  <2>1. toClient' = toClient /\ readPos' = readPos /\ c_state' # "SEND_DATA_SREJ"
        /\ (c_state' \in {"SEND_EOF_AND_QUIT", "SEND_EOF_SELECT"}
              => c_state \in {"SEND_EOF_AND_QUIT", "SEND_EOF_SELECT"})
    BY <1>1 DEF SendRemoteFileName, SendBufferSize, SendWindowSize, SendSetup, ReadyToSendDataSetup,
                SendDataEndOfFile, SendDataReadError, ReceiveDataWindowOpenEmpty, SendEof,
                TimeoutOnServer, WaitForSetupAcksTimeout, SendEofTimeout, SendToServer,
                channelVars, sendVars, Goto, Quit
  <2> QED BY <2>1, DeafSrejStep
<1>2. CASE SendData
  <2>1. toClient' = toClient /\ readPos' = readPos + 1
        /\ c_state' \in {"RECEIVE_DATA_WINDOW_CLOSED", "RECEIVE_DATA_WINDOW_OPEN"}
    BY <1>2 DEF SendData, SendToServer, Goto, AfterSend
  <2> QED BY <2>1, DeafSrejStep
<1>3. CASE SendDataSrej \/ ReceiveDataWindowClosedTimeout
  <2>1. toClient' = toClient /\ readPos' = readPos
        /\ c_state' \in {"RECEIVE_DATA_WINDOW_CLOSED", "RECEIVE_DATA_WINDOW_OPEN", "EXIT",
                         "TIMEOUT_ON_SERVER"}
    BY <1>3 DEF SendDataSrej, ReceiveDataWindowClosedTimeout, SendDataFromWindow, SendToServer,
                channelVars, sendVars, Goto, AfterSend
  <2> QED BY <2>1, DeafSrejStep
<1>4. CASE WaitForSetupAcks
  <2>1. readPos' = readPos
    BY <1>4 DEF WaitForSetupAcks, sendVars
  <2>2. PICK k \in Child : \E i \in Deliverable(toClient[k]) :
          /\ RecvFromServer(k, i)
          /\ IF toClient[k][i].flag = "REJ_FILE_NAME_NO_OPEN"
               THEN Quit("rejected")
               ELSE Goto(AfterSetupReply(toClient[k][i].flag))
    BY <1>4 DEF WaitForSetupAcks
  <2> PICK i \in Deliverable(toClient[k]) :
          /\ RecvFromServer(k, i)
          /\ IF toClient[k][i].flag = "REJ_FILE_NAME_NO_OPEN"
               THEN Quit("rejected")
               ELSE Goto(AfterSetupReply(toClient[k][i].flag))
    BY <2>2
  <2>3. c_state' \notin {"SEND_EOF_AND_QUIT", "SEND_EOF_SELECT", "SEND_DATA_SREJ"}
    BY DEF Quit, Goto, AfterSetupReply
  <2> QED BY <2>1, <2>3, HearingSrejStep
<1> QED BY <1>1, <1>2, <1>3, <1>4, DataSrejStep DEF RcopyStep, RcopyTimeout

\* No step of the server, and none of the client, makes an answer ask for what was
\* never sent.
LEMMA SrejNext ==
    ASSUME ~Reorder, \A j, k \in Child : j = k, TransferInv, SrejInv, [Next]_vars
    PROVE  SrejInv'
<1>1. CASE ClientNext
  BY <1>1, ClientSrejStep DEF ClientNext
<1>2. CASE MainNext
  <2>1. toClient' = toClient /\ readPos' = readPos /\ c_state' = c_state /\ SREJ_num' = SREJ_num
    BY <1>2 DEF MainNext, MainAccept, rcopyVars, sendVars
  <2> QED BY <2>1 DEF SrejInv, AsksForSent
<1>3. CASE \E k \in Child : ChildNext(k)
  BY <1>3, ChildSrejStep
<1>4. CASE UNCHANGED vars
  <2>1. toClient' = toClient /\ readPos' = readPos /\ c_state' = c_state /\ SREJ_num' = SREJ_num
    BY <1>4 DEF vars, channelVars, rcopyVars, sendVars
  <2> QED BY <2>1 DEF SrejInv, AsksForSent
<1> QED BY <1>1, <1>2, <1>3, <1>4 DEF Next, Terminated

\* Taking the first packet leaves the acknowledgements in order, and none before it.
LEMMA TakenInOrder ==
    ASSUME ~Reorder, NEW q \in Seq(Packets), NEW n \in Int, AcksInOrder(q, n),
           NEW i \in Deliverable(q)
    PROVE  /\ AcksInOrder(RemoveAt(q, i), n)
           /\ q[i].flag = "RR" => n <= q[i].num /\ AcksInOrder(RemoveAt(q, i), q[i].num)
<1>1. PICK r : r = RemoveAt(q, i)
  OBVIOUS
<1>2. PICK len \in Nat : len = Len(q)
  OBVIOUS
<1>3. /\ i = 1 /\ DOMAIN r = 1 .. len - 1 /\ DOMAIN q = 1 .. len /\ 1 \in DOMAIN q
      /\ \A j \in 1 .. len - 1 : r[j] = q[j + 1]
  BY <1>1, <1>2, FirstTaken
<1>4. \A j \in DOMAIN r : j + 1 \in DOMAIN q /\ 1 < j + 1 /\ r[j] = q[j + 1]
  BY <1>3
<1>5. ASSUME NEW a \in DOMAIN r, NEW b \in DOMAIN r, a < b, r[a].flag = "RR", r[b].flag = "RR"
      PROVE  r[a].num <= r[b].num
  <2>1. a + 1 < b + 1
    BY <1>3, <1>5
  <2> QED BY <1>4, <1>5, <2>1 DEF AcksInOrder
<1>6. ASSUME NEW a \in DOMAIN r, r[a].flag = "RR"
      PROVE  n <= r[a].num /\ (q[i].flag = "RR" => q[i].num <= r[a].num)
  BY <1>3, <1>4, <1>6 DEF AcksInOrder
<1>7. q[i].flag = "RR" => n <= q[i].num
  BY <1>3 DEF AcksInOrder
<1> QED BY <1>1, <1>5, <1>6, <1>7 DEF AcksInOrder

\* An acknowledgement may follow those of no greater number.
LEMMA PutInOrder ==
    ASSUME NEW q \in Seq(Packets), NEW n \in Int, AcksInOrder(q, n), NEW p \in Packets,
           p.flag = "RR" => /\ n <= p.num
                            /\ \A i \in DOMAIN q : q[i].flag = "RR" => q[i].num <= p.num
    PROVE  /\ Put(q, p) \in Seq(Packets) /\ AcksInOrder(Put(q, p), n)
           /\ p.flag = "RR" => \A i \in DOMAIN Put(q, p) :
                                 Put(q, p)[i].flag = "RR" => Put(q, p)[i].num <= p.num
<1>1. CASE Put(q, p) = q
  BY <1>1
<1>2. CASE Put(q, p) = Append(q, p)
  <2>1. PICK r : r = Append(q, p)
    OBVIOUS
  <2>2. PICK len \in Nat : len = Len(q)
    OBVIOUS
  <2>3. /\ DOMAIN r = 1 .. len + 1 /\ DOMAIN q = 1 .. len /\ r[len + 1] = p
        /\ \A i \in 1 .. len : r[i] = q[i]
    BY <2>1, <2>2
  <2>4. \A i \in DOMAIN r : (i = len + 1 /\ r[i] = p) \/ (i \in DOMAIN q /\ r[i] = q[i])
    BY <2>3
  <2>5. p.num \in Nat
    BY DEF Packets
  <2>6. ASSUME NEW a \in DOMAIN r, NEW b \in DOMAIN r, a < b, r[a].flag = "RR", r[b].flag = "RR"
        PROVE  r[a].num <= r[b].num
    <3>1. a \in DOMAIN q /\ r[a] = q[a]
      BY <2>3, <2>6
    <3> QED BY <2>4, <2>6, <3>1 DEF AcksInOrder
  <2>7. \A i \in DOMAIN r : r[i].flag = "RR" => n <= r[i].num
    BY <2>4 DEF AcksInOrder
  <2>8. p.flag = "RR" => \A i \in DOMAIN r : r[i].flag = "RR" => r[i].num <= p.num
    BY <2>4, <2>5
  <2>9. r \in Seq(Packets)
    BY <2>1
  <2> QED BY <1>2, <2>1, <2>6, <2>7, <2>8, <2>9 DEF AcksInOrder
<1> QED BY <1>1, <1>2 DEF Put

\* So may whatever a faulty path makes of it.
LEMMA DamagedInOrder ==
    ASSUME NEW q \in Seq(Packets), NEW n \in Int, AcksInOrder(q, n), NEW p \in Packets,
           p.flag = "RR" => /\ n <= p.num
                            /\ \A i \in DOMAIN q : q[i].flag = "RR" => q[i].num <= p.num,
           NEW r \in Damaged(q, p)
    PROVE  AcksInOrder(r, n)
<1>1. Garbled \in Packets /\ Garbled.flag # "RR"
  BY GarbledPacket DEF Garbled, Packet
<1>2. CASE r = q
  BY <1>2
<1>3. CASE r = Put(q, Garbled)
  BY <1>1, <1>3, PutInOrder
<1>4. CASE r = Put(Put(q, p), p)
  <2>1. PICK t \in Seq(Packets) : t = Put(q, p)
    BY PutInOrder
  <2>2. /\ AcksInOrder(t, n)
        /\ p.flag = "RR" => \A i \in DOMAIN t : t[i].flag = "RR" => t[i].num <= p.num
    BY <2>1, PutInOrder
  <2> QED BY <1>4, <2>1, <2>2, PutInOrder
<1> QED BY <1>2, <1>3, <1>4 DEF Damaged

\* A child acknowledges no less than it has before, and than rcopy knows of.
LEMMA ChildAcksStep ==
    ASSUME \A j, k \in Child : j = k, TransferInv, AcksInv, NEW k \in Child, ChildNext(k)
    PROVE  AcksInv' /\ c_win_min' = c_win_min
<1>1. c_state' = c_state /\ c_win_min' = c_win_min
  BY DEF ChildNext, rcopyVars, windowVars
<1>2. CASE toClient' = toClient
  BY <1>1, <1>2 DEF AcksInv
<1>3. CASE toClient' # toClient
  <2>1. PICK p \in Packets :
          Respond(k, p) /\ (p.flag = "RR" => 1 <= p.num /\ child[k].cur_RRnum <= p.num)
    BY <1>3, ChildAsks
  <2>2. Transmit(toClient, k, p)
    BY <1>3, <2>1 DEF Respond
  <2>3. PICK q \in Seq(Packets) : q = toClient[k]
    BY SrejFacts
  <2>4. PICK low \in Int, cur \in Nat : low = c_win_min /\ cur = child[k].cur_RRnum
    <3>1. c_win_min \in Int
      BY DEF TransferInv, WindowInv, WireInv, ClientInv, ClientTypeOK
    <3> QED BY <3>1, SrejFacts
  <2>5. AcksInOrder(q, low + 1)
    BY <2>3, <2>4 DEF AcksInv
  <2>6. low <= 0 \/ low + 1 <= cur
    BY <2>4 DEF TransferInv, WindowBehind
  <2>7. p.flag = "RR" => /\ low + 1 <= p.num
                         /\ \A i \in DOMAIN q : q[i].flag = "RR" => q[i].num <= p.num
    <3>1. ASSUME NEW i \in DOMAIN q, q[i].flag = "RR" PROVE q[i].num \in 1 .. cur
      <4>1. q[i] \in Honest(k)
        BY <2>3, SrejFacts
      <4> QED BY <2>4, <3>1, <4>1 DEF Honest
    <3>2. p.num \in Nat
      BY DEF Packets
    <3>3. p.flag = "RR" => low + 1 <= p.num
      BY <2>1, <2>4, <2>6, <3>2
    <3>4. ASSUME p.flag = "RR", NEW i \in DOMAIN q, q[i].flag = "RR" PROVE q[i].num <= p.num
      BY <2>1, <2>4, <3>1, <3>2, <3>4
    <3> QED BY <3>3, <3>4
  <2>8. PICK r : toClient' = [toClient EXCEPT ![k] = r] /\ (r = Put(q, p) \/ r \in Damaged(q, p))
    BY <2>2, <2>3 DEF Transmit
  <2>9. AcksInOrder(r, low + 1)
    <3>1. CASE r = Put(q, p)
      BY <2>5, <2>7, <3>1, PutInOrder
    <3>2. CASE r \in Damaged(q, p)
      BY <2>5, <2>7, <3>2, DamagedInOrder
    <3> QED BY <2>8, <3>1, <3>2
  <2>10. toClient'[k] = r /\ \A j \in Child : j = k
    BY <2>8, SrejFacts
  <2> QED BY <1>1, <2>4, <2>9, <2>10 DEF AcksInv
<1> QED BY <1>2, <1>3

\* A reply rcopy reads either leaves its window where it is, or slides it to the
\* number of an RR.
LEMMA HearingAcksStep ==
    ASSUME ~Reorder, \A j, k \in Child : j = k, TransferInv, AcksInv,
           NEW k \in Child, NEW i \in Deliverable(toClient[k]), RecvFromServer(k, i),
           c_state' \in ClientSetup => c_state \in ClientSetup /\ c_win_min' = c_win_min,
           \/ c_win_min' = c_win_min
           \/ toClient[k][i].flag = "RR" /\ c_win_min' = toClient[k][i].num - 1
    PROVE  AcksInv' /\ c_win_min' >= c_win_min
<1>1. PICK q \in Seq(Packets) : q = toClient[k]
  BY SrejFacts
<1>2. PICK low \in Int : low = c_win_min
  BY DEF TransferInv, WindowInv, WireInv, ClientInv, ClientTypeOK
<1>3. AcksInOrder(q, low + 1)
  BY <1>1, <1>2 DEF AcksInv
<1>4. i \in DOMAIN q /\ i \in Deliverable(q)
  BY <1>1, FirstTaken
<1>5. PICK r : r = RemoveAt(q, i)
  OBVIOUS
<1>6. /\ AcksInOrder(r, low + 1)
      /\ q[i].flag = "RR" => low + 1 <= q[i].num /\ AcksInOrder(r, q[i].num)
  BY <1>3, <1>4, <1>5, TakenInOrder
<1>7. toClient'[k] = r /\ \A j \in Child : j = k
  BY <1>1, <1>5, SrejFacts DEF RecvFromServer, Take
<1>8. PICK num \in Nat : num = q[i].num
  <2>1. q[i] \in Packets
    BY <1>4
  <2> QED BY <2>1 DEF Packets
<1>9. AcksInOrder(r, c_win_min' + 1) /\ c_win_min' >= c_win_min
  <2>1. CASE c_win_min' = low
    BY <1>2, <1>6, <2>1
  <2>2. CASE q[i].flag = "RR" /\ c_win_min' = num - 1
    <3>1. c_win_min' + 1 = num
      BY <2>2
    <3>2. AcksInOrder(r, num) /\ low + 1 <= num
      BY <1>6, <1>8, <2>2
    <3>3. c_win_min' >= low
      BY <2>2, <3>2
    <3> QED BY <1>2, <3>1, <3>2, <3>3
  <2> QED BY <1>1, <1>2, <1>8, <2>1, <2>2
<1>10. c_state' \in ClientSetup => c_win_min' = 0
  BY DEF AcksInv
<1> QED BY <1>7, <1>9, <1>10 DEF AcksInv

\* No step of the client slides its window back.
LEMMA ClientAcksStep ==
    ASSUME ~Reorder, \A j, k \in Child : j = k, TransferInv, AcksInv, RcopyStep \/ RcopyTimeout
    PROVE  AcksInv' /\ c_win_min' >= c_win_min
<1>0. c_win_min \in Int /\ c_win_min >= c_win_min
  BY DEF TransferInv, WindowInv, WireInv, ClientInv, ClientTypeOK
<1>1. ASSUME toClient' = toClient, c_win_min' = c_win_min,
             c_state' \in ClientSetup => c_state \in ClientSetup
      PROVE  AcksInv' /\ c_win_min' >= c_win_min
  BY <1>0, <1>1 DEF AcksInv
<1>2. CASE \/ SendRemoteFileName \/ SendBufferSize \/ SendWindowSize \/ WaitForSetupAcksTimeout
  <2>1. toClient' = toClient /\ c_win_min' = c_win_min /\ c_state \in ClientSetup
    BY <1>2 DEF SendRemoteFileName, SendBufferSize, SendWindowSize, SendSetup,
                WaitForSetupAcksTimeout, SendToServer, channelVars, windowVars, ClientSetup
  <2> QED BY <1>1, <2>1
<1>3. CASE ReadyToSendDataSetup
  <2>1. toClient' = toClient /\ c_win_min' = 0 /\ c_state \in ClientSetup
    BY <1>3 DEF ReadyToSendDataSetup, channelVars, ClientSetup
  <2>2. c_win_min' = c_win_min
    BY <2>1 DEF AcksInv
  <2> QED BY <1>1, <2>1, <2>2
<1>4. CASE \/ SendData \/ SendDataEndOfFile \/ SendDataReadError \/ ReceiveDataWindowOpenEmpty
           \/ SendEof \/ TimeoutOnServer \/ SendEofTimeout
           \/ SendDataSrej \/ ReceiveDataWindowClosedTimeout
  <2>1. toClient' = toClient /\ c_win_min' = c_win_min
    BY <1>4 DEF SendData, SendDataEndOfFile, SendDataReadError, ReceiveDataWindowOpenEmpty,
                SendEof, TimeoutOnServer, SendEofTimeout, SendDataSrej,
                ReceiveDataWindowClosedTimeout, SendDataFromWindow, SendToServer,
                channelVars, windowVars
  <2>2. c_state' \notin ClientSetup
    BY <1>4 DEF SendData, SendDataEndOfFile, SendDataReadError, ReceiveDataWindowOpenEmpty,
                SendEof, TimeoutOnServer, SendEofTimeout, SendDataSrej,
                ReceiveDataWindowClosedTimeout, SendDataFromWindow, AfterSend, Goto, Quit,
                ClientSetup
  <2> QED BY <1>1, <2>1, <2>2
<1>5. CASE WaitForSetupAcks
  <2>1. c_win_min' = c_win_min /\ c_state \in ClientSetup
    BY <1>5 DEF WaitForSetupAcks, windowVars, ClientSetup
  <2>2. PICK k \in Child : \E i \in Deliverable(toClient[k]) : RecvFromServer(k, i)
    BY <1>5 DEF WaitForSetupAcks
  <2>3. PICK i \in Deliverable(toClient[k]) : RecvFromServer(k, i)
    BY <2>2
  <2> QED BY <2>1, <2>3, HearingAcksStep
<1>6. CASE ReceiveDataWindowOpen \/ ReceiveDataWindowClosed \/ SendEofReply
  <2>1. PICK k \in Child : \E i \in Deliverable(toClient[k]) :
          RecvFromServer(k, i) /\ ProcessIncomingData(toClient[k][i])
    BY <1>6, Zenon DEF ReceiveDataWindowOpen, ReceiveDataWindowClosed, ReceiveData, SendEofReply
  <2>2. PICK i \in Deliverable(toClient[k]) :
          RecvFromServer(k, i) /\ ProcessIncomingData(toClient[k][i])
    BY <2>1
  <2>3. PICK p : p = toClient[k][i]
    OBVIOUS
  <2>4. ProcessIncomingData(p)
    BY <2>2, <2>3 DEF ProcessIncomingData
  <2>5. c_state' \notin ClientSetup
    BY <2>4 DEF ProcessIncomingData, AfterRR, Goto, Quit, ClientSetup
  <2>6. c_win_min' = c_win_min \/ (p.flag = "RR" /\ c_win_min' = p.num - 1)
    BY <2>4 DEF ProcessIncomingData, windowVars
  <2> QED BY <2>2, <2>3, <2>5, <2>6, HearingAcksStep
<1> QED BY <1>2, <1>3, <1>4, <1>5, <1>6 DEF RcopyStep, RcopyTimeout

\* The same of every step of the upload.
LEMMA AcksNext ==
    ASSUME ~Reorder, \A j, k \in Child : j = k, TransferInv, AcksInv, [Next]_vars
    PROVE  AcksInv' /\ [c_win_min' >= c_win_min]_c_win_min
<1>1. CASE ClientNext
  BY <1>1, ClientAcksStep DEF ClientNext
<1>2. CASE MainNext
  <2>1. toClient' = toClient /\ c_state' = c_state /\ c_win_min' = c_win_min
    BY <1>2 DEF MainNext, MainAccept, rcopyVars, windowVars
  <2> QED BY <2>1 DEF AcksInv
<1>3. CASE \E k \in Child : ChildNext(k)
  BY <1>3, ChildAcksStep
<1>4. CASE UNCHANGED vars
  <2>1. toClient' = toClient /\ c_state' = c_state /\ c_win_min' = c_win_min
    BY <1>4 DEF vars, channelVars, rcopyVars, windowVars
  <2> QED BY <2>1 DEF AcksInv
<1> QED BY <1>1, <1>2, <1>3, <1>4 DEF Next, Terminated

\* One child, on paths that keep the order: the replies reach rcopy in the order in which
\* the child made up its mind, so that they ask for nothing that was not sent, for nothing
\* once everything is acknowledged, and acknowledge more and more.
THEOREM RepliesInOrder ==
    ASSUME ~Reorder, \A j, k \in Child : j = k
    PROVE  Spec => []OrderInv
<1>1. Init => OrderInv
  BY DEF Init, ChannelInit, RcopyInit, OrderInv, SrejInv, AsksInTime, AsksForNothing,
         AcksInv, AcksInOrder
<1>2. TransferInv /\ OrderInv /\ [Next]_vars => OrderInv'
  BY SrejNext, AcksNext DEF OrderInv
<1> QED BY <1>1, <1>2, TransferCorrect, PTL DEF Spec

\* One child, on paths that keep the order: the number rcopy resends is that of a packet
\* it has sent, although send_eof_and_quit would lose it.
THEOREM ResendsOnlySent ==
    ASSUME ~Reorder, \A j, k \in Child : j = k
    PROVE  Spec => []SrejNumSet
<1>1. OrderInv => SrejNumSet
  BY DEF OrderInv, SrejInv, SrejNumSet
<1> QED BY <1>1, RepliesInOrder, PTL

\* One child, on paths that keep the order: rcopy's window never slides back, although
\* its left edge is taken from every RR as it comes.
THEOREM WindowNeverSlidesBack ==
    ASSUME ~Reorder, \A j, k \in Child : j = k
    PROVE  Spec => WindowSlidesForward
<1>1. TransferInv /\ OrderInv /\ [Next]_vars => [c_win_min' >= c_win_min]_c_win_min
  BY AcksNext DEF OrderInv
<1> QED BY <1>1, RepliesInOrder, TransferCorrect, PTL DEF Spec, WindowSlidesForward

-----------------------------------------------------------------------------
(* An upload by one child on a sound disk implements FileCopy: the file on *)
(* the server only ever grows, in order, and success is reported once, and *)
(* only when the file is complete.                                         *)

\* At most one child is ever forked, and its disk accepts every write.
SoleChild == (\A j, k \in Child : j = k) /\ ~DiskMayFail

\* No write has failed, nothing is in a file nobody has opened, and the client
\* has no reason to have ended before it ends.
SoundInv ==
    /\ TransferInv
    /\ ~writeErr
    /\ (\A k \in Child : ~child[k].fileGood) => remoteFile = <<>>
    /\ c_state \notin {"DONE", "EXIT"} => c_exit = "running"

-----------------------------------------------------------------------------
(* Single steps.                                                           *)

\* Only a client that is still running takes a step, and it ends at most once.
LEMMA ClientEndsOnce ==
    ASSUME c_state \notin {"DONE", "EXIT"} => c_exit = "running", RcopyStep \/ RcopyTimeout
    PROVE  /\ c_exit = "running"
           /\ c_state' \notin {"DONE", "EXIT"} => c_exit' = "running"
<1>1. c_state \notin {"DONE", "EXIT"}
  BY DEF RcopyStep, RcopyTimeout, SendRemoteFileName, SendBufferSize, SendWindowSize, SendSetup,
         WaitForSetupAcks, ReadyToSendDataSetup, SendData, SendDataEndOfFile, SendDataReadError,
         SendDataSrej, ReceiveDataWindowOpen, ReceiveDataWindowOpenEmpty, ReceiveDataWindowClosed,
         ReceiveData, SendEof, SendEofReply, TimeoutOnServer, WaitForSetupAcksTimeout,
         ReceiveDataWindowClosedTimeout, SendEofTimeout
<1>2. ASSUME NEW st, Goto(st) PROVE c_state' \notin {"DONE", "EXIT"} => c_exit' = c_exit
  BY <1>2 DEF Goto
<1>3. ASSUME NEW why, Quit(why) PROVE c_state' = "DONE"
  BY <1>3 DEF Quit
<1>4. CASE SendDataSrej \/ ReceiveDataWindowClosedTimeout
  BY <1>1, <1>4 DEF SendDataSrej, ReceiveDataWindowClosedTimeout, SendDataFromWindow, Goto
<1>5. CASE ReceiveDataWindowOpen \/ ReceiveDataWindowClosed \/ SendEofReply
  BY <1>1, <1>5 DEF ReceiveDataWindowOpen, ReceiveDataWindowClosed, ReceiveData, SendEofReply,
                    ProcessIncomingData, Goto, Quit
<1>6. CASE WaitForSetupAcks
  BY <1>1, <1>6 DEF WaitForSetupAcks, Goto, Quit
<1>7. CASE SendDataReadError \/ TimeoutOnServer
  BY <1>1, <1>3, <1>7 DEF SendDataReadError, TimeoutOnServer
<1>8. CASE \/ SendRemoteFileName \/ SendBufferSize \/ SendWindowSize \/ ReadyToSendDataSetup
           \/ SendData \/ SendDataEndOfFile \/ ReceiveDataWindowOpenEmpty \/ SendEof
           \/ WaitForSetupAcksTimeout \/ SendEofTimeout
  BY <1>1, <1>8 DEF SendRemoteFileName, SendBufferSize, SendWindowSize, SendSetup,
                    ReadyToSendDataSetup, SendData, SendDataEndOfFile, ReceiveDataWindowOpenEmpty,
                    SendEof, WaitForSetupAcksTimeout, SendEofTimeout, Goto
<1> QED BY <1>1, <1>4, <1>5, <1>6, <1>7, <1>8 DEF RcopyStep, RcopyTimeout

\* On a sound disk a series of writes has one outcome.
LEMMA AllWritten ==
    ASSUME ~DiskMayFail, NEW chunks
    PROVE  Written(chunks) = {chunks}
BY DEF Written

\* A step on the server's side moves one child forward: it accepts no less than
\* before, keeps its file open, and alone may write to the file it has open.
LEMMA ChildAdvances ==
    ASSUME TransferInv, ~DiskMayFail, ~writeErr, NEW k \in Child,
           MainAccept(k) \/ ChildStep(k) \/ ChildTimeout(k)
    PROVE  /\ ~writeErr'
           /\ \E r : /\ Become(k, r)
                     /\ child[k].cur_RRnum <= r.cur_RRnum
                     /\ child[k].fileGood => r.fileGood
                     /\ remoteFile' = remoteFile \/ r.fileGood
<1>1. /\ WireInv /\ child[k] \in ChildTypes /\ child \in [Child -> ChildTypes]
      /\ ChildWindow(child[k]) /\ ChildGenuine(child[k])
  BY DEF TransferInv, WindowInv, WireInv, ServerTypeOK
<1>2. PICK cur \in Nat : cur = child[k].cur_RRnum
  BY <1>1 DEF ChildTypes
<1>3. CASE UNCHANGED fileVars /\ \E r : Become(k, r) /\ LikeBefore(r, child[k])
  <2>1. PICK r : Become(k, r) /\ LikeBefore(r, child[k])
    BY <1>3
  <2>2. r.cur_RRnum = cur /\ cur <= cur /\ r.fileGood = child[k].fileGood
    BY <1>2, <2>1 DEF LikeBefore
  <2> QED BY <1>2, <1>3, <2>1, <2>2 DEF fileVars
<1>4. CASE ReceivedRemoteFileName(k)
  <2>1. PICK r : r = [child[k] EXCEPT !.state = "READY_FOR_NEXT_SETUP_PACKET",
                                      !.recvPacket = NoPacket, !.fileGood = TRUE]
    OBVIOUS
  <2>2. Become(k, r) /\ writeErr' = writeErr
    BY <1>4, <2>1 DEF ReceivedRemoteFileName
  <2>3. r.cur_RRnum = cur /\ r.fileGood /\ cur <= cur
    BY <1>1, <1>2, <2>1 DEF ChildTypes
  <2> QED BY <1>2, <2>2, <2>3
<1>5. CASE ReadyForDataPacketSetup(k)
  <2>1. PICK r : r = [child[k] EXCEPT !.state = "RECEIVED_DATA",
                                      !.cur_RRnum = 1,
                                      !.win_min = 0,
                                      !.win_max = child[k].win_size,
                                      !.has_SREJ = FALSE,
                                      !.num_SREJ = 0,
                                      !.window = [i \in Slots |-> NoPacket]]
    OBVIOUS
  <2>2. Become(k, r) /\ UNCHANGED fileVars /\ child[k].state = "READY_FOR_DATA_PACKETS_SETUP"
    BY <1>5, <2>1 DEF ReadyForDataPacketSetup
  <2>3. r.cur_RRnum = 1 /\ r.fileGood = child[k].fileGood /\ cur = 0 /\ cur <= 1
    BY <1>1, <1>2, <2>1, <2>2 DEF ChildTypes, ChildWindow, ChildSetup
  <2> QED BY <1>2, <2>2, <2>3 DEF fileVars
<1>6. CASE BufferPacket(k)
  <2>1. PICK w, ns : Become(k, [child[k] EXCEPT !.state = "READY_FOR_NEXT_DATA_PACKET",
                                                !.recvPacket = NoPacket,
                                                !.window = w, !.num_SREJ = ns, !.has_SREJ = TRUE])
    BY <1>1, <1>6 DEF BufferPacket, Become, ChildTypes
  <2>2. PICK r : r = [child[k] EXCEPT !.state = "READY_FOR_NEXT_DATA_PACKET", !.recvPacket = NoPacket,
                                      !.window = w, !.num_SREJ = ns, !.has_SREJ = TRUE]
    OBVIOUS
  <2>3. Become(k, r) /\ UNCHANGED fileVars
    BY <1>6, <2>1, <2>2 DEF Become, BufferPacket
  <2>4. r.cur_RRnum = cur /\ r.fileGood = child[k].fileGood /\ cur <= cur
    BY <1>1, <1>2, <2>2 DEF ChildTypes
  <2> QED BY <1>2, <2>3, <2>4 DEF fileVars
<1>7. CASE HandleExpectedSREJPacket(k) \/ HandleExpectedPacketNumber(k)
  <2>1. child[k].state = "RECEIVED_DATA"
    BY <1>7 DEF HandleExpectedSREJPacket, HandleExpectedPacketNumber
  <2>2. PICK srej \in BOOLEAN : AcceptData(k, srej)
    <3>1. CASE HandleExpectedSREJPacket(k)
      BY <3>1 DEF HandleExpectedSREJPacket
    <3>2. CASE HandleExpectedPacketNumber(k)
      <4>1. PICK srej \in BOOLEAN : srej = child[k].has_SREJ
        BY <1>1 DEF ChildTypes
      <4>2. AcceptData(k, srej)
        BY <3>2, <4>1 DEF HandleExpectedPacketNumber, AcceptData, Respond, Transmit
      <4> QED BY <4>2
    <3> QED BY <1>7, <3>1, <3>2
  <2>3. PICK written \in Written(RunChunks(k)) :
          /\ writeErr' = (writeErr \/ written # RunChunks(k))
          /\ Become(k, Accepted(k, srej, written))
    BY <1>1, <2>1, <2>2, AcceptFacts
  <2>4. ~writeErr'
    BY <2>3, AllWritten
  <2>5. PICK run \in Nat : run = RunBehind(k)
    BY <1>1, <2>1, RunChunksType, RcopyAssumption DEF RcopyAssumption
  <2>6. PICK r : r = Accepted(k, srej, written)
    OBVIOUS
  <2>7. r.cur_RRnum = cur + (1 + run) /\ r.fileGood = child[k].fileGood
    BY <1>1, <1>2, <2>5, <2>6 DEF Accepted, ChildTypes
  <2>8. child[k].fileGood
    BY <1>1, <2>1 DEF ChildGenuine, ChildData
  <2>9. cur <= cur + (1 + run)
    BY <1>2, <2>5
  <2>10. Become(k, r)
    BY <2>3, <2>6 DEF Become
  <2> QED BY <1>2, <2>4, <2>7, <2>8, <2>9, <2>10
<1>8. CASE \/ MainAccept(k) \/ ReceivedRemoteFileNameNoOpen(k) \/ ReceivedBufferSize(k)
           \/ ReceivedWindowSize(k) \/ ReadyForNextSetupPacket(k)
           \/ ReadyForNextSetupPacketTimeout(k)
  BY <1>1, <1>3, <1>8, QuietSetupRecord
<1>9. CASE \/ ReadyForNextDataPacket(k) \/ ReadyForNextDataPacketTimeout(k)
           \/ HandleClientRecovery(k) \/ ReceivedEof(k) \/ TimeoutOnClient(k) \/ ReceivedEofAborts(k)
  BY <1>1, <1>3, <1>9, QuietDataRecord
<1> QED BY <1>4, <1>5, <1>6, <1>7, <1>8, <1>9 DEF ChildStep, ChildTimeout

-----------------------------------------------------------------------------
(* The invariant.                                                          *)

\* Every step of the upload keeps the invariant, if no write fails.
LEMMA SoundNext ==
    ASSUME SoundInv, ~DiskMayFail, [Next]_vars
    PROVE  SoundInv'
<1>1. TransferInv /\ TransferInv'
  BY TransferNext DEF SoundInv
<1>2. child \in [Child -> ChildTypes]
  BY <1>1 DEF TransferInv, WindowInv, WireInv, ServerTypeOK
<1>3. CASE ClientNext
  <2>1. c_state' \notin {"DONE", "EXIT"} => c_exit' = "running"
    BY <1>3, ClientEndsOnce DEF SoundInv, ClientNext
  <2>2. writeErr' = writeErr /\ remoteFile' = remoteFile /\ child' = child
    BY <1>3 DEF ClientNext, serverVars, fileVars
  <2> QED BY <1>1, <2>1, <2>2 DEF SoundInv
<1>4. ASSUME NEW k \in Child, MainAccept(k) \/ ChildStep(k) \/ ChildTimeout(k), UNCHANGED rcopyVars
      PROVE  SoundInv'
  <2>1. PICK r : /\ Become(k, r) /\ ~writeErr'
                 /\ child[k].fileGood => r.fileGood
                 /\ remoteFile' = remoteFile \/ r.fileGood
    BY <1>1, <1>4, ChildAdvances DEF SoundInv
  <2>2. child'[k] = r /\ \A j \in Child \ {k} : child'[j] = child[j]
    BY <1>2, <2>1, BecomeType
  <2>3. (\A j \in Child : ~child'[j].fileGood) => remoteFile' = <<>>
    BY <2>1, <2>2 DEF SoundInv
  <2>4. c_state' = c_state /\ c_exit' = c_exit
    BY <1>4 DEF rcopyVars
  <2> QED BY <1>1, <2>1, <2>3, <2>4 DEF SoundInv
<1>5. CASE MainNext \/ \E k \in Child : ChildNext(k)
  BY <1>4, <1>5 DEF MainNext, ChildNext
<1>6. CASE UNCHANGED vars
  BY <1>1, <1>6 DEF SoundInv, vars, rcopyVars, serverVars, fileVars
<1> QED BY <1>3, <1>5, <1>6 DEF Next, Terminated

\* The upload starts in the invariant.
LEMMA SoundInit ==
    ASSUME Init
    PROVE  SoundInv
BY TransferInit DEF SoundInv, Init, RcopyInit, ServerInit

-----------------------------------------------------------------------------
(* The refinement.                                                         *)

\* How many chunks of the file child k has acknowledged.
Acked(k) == IF Receiving(k) THEN child[k].cur_RRnum - 1 ELSE 0

\* The file is what child k has acknowledged.
AckedOnDisk(k) ==
    /\ Acked(k) \in 0 .. Len(LocalFile)
    /\ remoteFile = SubSeq(LocalFile, 1, Acked(k))

\* The only child has acknowledged what is in the file, whether it has opened it or not.
LEMMA FileIsAcked ==
    ASSUME SoundInv, SoleChild, NEW k \in Child
    PROVE  AckedOnDisk(k)
<1> USE DEF AckedOnDisk
<1>1. /\ child[k] \in ChildTypes /\ ChildWindow(child[k])
      /\ child[k].cur_RRnum \in 0 .. Len(LocalFile) + 1
  BY AtMostAll DEF SoundInv, TransferInv, WindowInv, WireInv, ServerTypeOK
<1>2. PICK len \in Nat, cur \in Nat : len = Len(LocalFile) /\ cur = child[k].cur_RRnum
  BY <1>1, FileType DEF ChildTypes
<1>3. Acked(k) \in 0 .. len
  BY <1>1, <1>2 DEF Acked, Receiving
<1>4. CASE child[k].fileGood
  <2>1. OnlyOpener(k)
    BY <1>4 DEF SoleChild, OnlyOpener
  <2> QED BY <1>2, <1>3, <2>1, PrefixOnDisk DEF SoundInv, TransferInv, Acked
<1>5. CASE ~child[k].fileGood
  <2>1. remoteFile = <<>>
    BY <1>5 DEF SoundInv, SoleChild
  <2>2. Acked(k) = 0
    BY <1>1, <1>5 DEF ChildWindow, Acked, Receiving
  <2>3. SubSeq(LocalFile, 1, 0) = <<>>
    BY FileType
  <2> QED BY <1>2, <1>3, <2>1, <2>2, <2>3
<1> QED BY <1>4, <1>5

\* The file never shrinks and is never rewritten: it is extended, or left alone.
LEMMA FileGrows ==
    ASSUME SoundInv, SoundInv', SoleChild, NEW k \in Child, AckedOnDisk(k), AckedOnDisk(k)',
           MainAccept(k) \/ ChildStep(k) \/ ChildTimeout(k)
    PROVE  \/ remoteFile' = remoteFile
           \/ \E n \in Len(remoteFile) + 1 .. Len(LocalFile) : remoteFile' = SubSeq(LocalFile, 1, n)
<1>1. PICK a \in 0 .. Len(LocalFile) : a = Acked(k) /\ remoteFile = SubSeq(LocalFile, 1, a)
  BY DEF AckedOnDisk
<1>2. PICK b \in 0 .. Len(LocalFile) : b = Acked(k)' /\ remoteFile' = SubSeq(LocalFile, 1, b)
  BY DEF AckedOnDisk
<1>3. PICK cur \in Nat, new \in Nat : cur = child[k].cur_RRnum /\ new = child'[k].cur_RRnum
  BY DEF SoundInv, TransferInv, WindowInv, WireInv, ServerTypeOK, ChildTypes
<1>4. cur <= new
  <2>1. child \in [Child -> ChildTypes]
    BY DEF SoundInv, TransferInv, WindowInv, WireInv, ServerTypeOK
  <2>2. PICK r : Become(k, r) /\ child[k].cur_RRnum <= r.cur_RRnum
    BY ChildAdvances DEF SoundInv, SoleChild
  <2> QED BY <1>3, <2>1, <2>2, BecomeType
<1>5. a <= b
  BY <1>1, <1>2, <1>3, <1>4 DEF Acked, Receiving
<1>6. Len(remoteFile) = a
  BY <1>1, FileType
<1>7. CASE a = b
  BY <1>1, <1>2, <1>7
<1>8. CASE a # b
  <2>1. b \in Len(remoteFile) + 1 .. Len(LocalFile)
    BY <1>1, <1>2, <1>5, <1>6, <1>8, FileType
  <2> QED BY <1>2, <2>1
<1> QED BY <1>7, <1>8

\* Every step of such an upload is a step of FileCopy, or a stutter.
LEMMA CopyStep ==
    ASSUME SoundInv, SoundInv', SoleChild, [Next]_vars, AckedMeansComplete',
           \A k \in Child : AckedOnDisk(k) /\ AckedOnDisk(k)'
    PROVE  [Copy!CopyNext]_(Copy!copyVars)
<1>1. CASE ClientNext
  <2>1. c_exit = "running" /\ remoteFile' = remoteFile
    BY <1>1, ClientEndsOnce DEF SoundInv, ClientNext, serverVars, fileVars
  <2>2. CASE c_exit' = "running"
    BY <2>1, <2>2 DEF Copy!copyVars, Verdict
  <2>3. CASE c_exit' = "ack eof"
    <3>1. OneOpener'
      BY DEF SoleChild, OneOpener
    <3>2. remoteFile' = LocalFile
      BY <2>3, <3>1 DEF SoundInv, AckedMeansComplete
    <3>3. Copy!Succeed
      BY <2>1, <2>3, <3>2 DEF Copy!Succeed, Verdict
    <3> QED BY <3>3 DEF Copy!CopyNext
  <2>4. CASE c_exit' \notin {"running", "ack eof"}
    <3>1. Copy!GiveUp
      BY <2>1, <2>4 DEF Copy!GiveUp, Verdict
    <3> QED BY <3>1 DEF Copy!CopyNext
  <2> QED BY <2>2, <2>3, <2>4
<1>2. CASE MainNext \/ \E k \in Child : ChildNext(k)
  <2>1. PICK k \in Child : MainAccept(k) \/ ChildStep(k) \/ ChildTimeout(k)
    BY <1>2 DEF MainNext, ChildNext
  <2>2. c_exit' = c_exit
    BY <1>2 DEF MainNext, ChildNext, rcopyVars
  <2>3. Verdict' = Verdict
    BY <2>2 DEF Verdict
  <2>4. \/ remoteFile' = remoteFile
        \/ \E n \in Len(remoteFile) + 1 .. Len(LocalFile) : remoteFile' = SubSeq(LocalFile, 1, n)
    BY <2>1, FileGrows
  <2> QED BY <2>3, <2>4 DEF Copy!CopyNext, Copy!Extend, Copy!copyVars
<1>3. CASE UNCHANGED vars
  BY <1>3 DEF vars, rcopyVars, serverVars, fileVars, Copy!copyVars, Verdict
<1> QED BY <1>1, <1>2, <1>3 DEF Next, Terminated

\* On a sound disk and with one child at most, the upload implements FileCopy.
THEOREM UploadIsCopy ==
    ASSUME SoleChild
    PROVE  Spec => ImplementsFileCopy
<1>1. Init => SoundInv /\ Copy!CopyInit
  BY SoundInit DEF Init, RcopyInit, ServerInit, Copy!CopyInit, Verdict
<1>2. SoundInv /\ [Next]_vars => SoundInv'
  BY SoundNext DEF SoleChild
<1>3. SoundInv => AckedMeansComplete /\ \A k \in Child : AckedOnDisk(k)
  BY CompleteOnDisk, FileIsAcked DEF SoundInv, AckedMeansComplete
<1>4. /\ SoundInv /\ SoundInv' /\ [Next]_vars
      /\ AckedMeansComplete' /\ \A k \in Child : AckedOnDisk(k)
      /\ (\A k \in Child : AckedOnDisk(k))'
      => [Copy!CopyNext]_(Copy!copyVars)
  BY CopyStep
<1> QED BY <1>1, <1>2, <1>3, <1>4, PTL DEF Spec, ImplementsFileCopy, Copy!CopySpec

=============================================================================
