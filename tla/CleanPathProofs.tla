---------------------------- MODULE CleanPathProofs ----------------------------
(***************************************************************************)
(* Uploads that no path disturbs: on timely paths that have not misbehaved *)
(* only one child is ever forked, and an upload that ends, ends on         *)
(* ACK_EOF.  The invariant follows it stage by stage: the setup, one       *)
(* request at a time; the data, which fills the paths without a gap; the   *)
(* RR that rcopy reads too early and asks for again; the end of the file.  *)
(***************************************************************************)
EXTENDS ReplyProofs

-----------------------------------------------------------------------------
(* Which steps there are.                                                  *)

\* What a client that is not waiting in vain does is up to its state.
LEMMA ClientHandlers ==
    ASSUME RcopyStep
    PROVE  /\ c_state = "SEND_REMOTE_FILE_NAME" => SendRemoteFileName
           /\ c_state = "SEND_BUFFER_SIZE" => SendBufferSize
           /\ c_state = "SEND_WINDOW_SIZE" => SendWindowSize
           /\ c_state = "WAIT_FOR_SETUP_ACKS" => WaitForSetupAcks
           /\ c_state = "READY_TO_SEND_DATA_SETUP" => ReadyToSendDataSetup
           /\ c_state = "SEND_DATA" => SendData \/ SendDataEndOfFile \/ SendDataReadError
           /\ c_state = "RECEIVE_DATA_WINDOW_OPEN" => ReceiveDataWindowOpen \/ ReceiveDataWindowOpenEmpty
           /\ c_state = "RECEIVE_DATA_WINDOW_CLOSED" => ReceiveDataWindowClosed
           /\ c_state = "SEND_EOF_AND_QUIT" => SendEof
           /\ c_state = "SEND_EOF_SELECT" => SendEofReply
           /\ c_state \notin {"DONE", "EXIT"}
BY DEF RcopyStep, SendRemoteFileName, SendBufferSize, SendWindowSize, SendSetup,
       WaitForSetupAcks, ReadyToSendDataSetup, SendData, SendDataEndOfFile, SendDataReadError,
       SendDataSrej, ReceiveDataWindowOpen, ReceiveDataWindowOpenEmpty, ReceiveDataWindowClosed,
       ReceiveData, SendEof, SendEofReply, TimeoutOnServer

\* A select that times out is the select of a state.
LEMMA ClientTimeouts ==
    ASSUME RcopyTimeout
    PROVE  /\ c_state \in {"WAIT_FOR_SETUP_ACKS", "RECEIVE_DATA_WINDOW_CLOSED", "SEND_EOF_SELECT"}
           /\ c_state = "RECEIVE_DATA_WINDOW_CLOSED" => ReceiveDataWindowClosedTimeout
BY DEF RcopyTimeout, WaitForSetupAcksTimeout, ReceiveDataWindowClosedTimeout, SendEofTimeout

\* What a child does is up to its state.
LEMMA ChildHandlers ==
    ASSUME NEW k \in Child, ChildStep(k)
    PROVE  /\ child[k].state = "RECEIVED_REMOTE_FILE_NAME"
                => ReceivedRemoteFileNameNoOpen(k) \/ ReceivedRemoteFileName(k)
           /\ child[k].state = "RECEIVED_BUFFER_SIZE" => ReceivedBufferSize(k)
           /\ child[k].state = "RECEIVED_WINDOW_SIZE" => ReceivedWindowSize(k)
           /\ child[k].state = "READY_FOR_NEXT_SETUP_PACKET" => ReadyForNextSetupPacket(k)
           /\ child[k].state = "READY_FOR_DATA_PACKETS_SETUP" => ReadyForDataPacketSetup(k)
           /\ child[k].state = "READY_FOR_NEXT_DATA_PACKET" => ReadyForNextDataPacket(k)
           /\ child[k].state = "RECEIVED_DATA"
                => \/ HandleExpectedSREJPacket(k) \/ HandleExpectedPacketNumber(k)
                   \/ HandleClientRecovery(k) \/ BufferPacket(k)
           /\ child[k].state = "RECEIVED_EOF" => ReceivedEof(k) \/ ReceivedEofAborts(k)
           /\ child[k].state \notin {"NONE", "DONE"}
BY DEF ChildStep, ReceivedRemoteFileNameNoOpen, ReceivedRemoteFileName, ReceivedBufferSize,
       ReceivedWindowSize, ReadyForNextSetupPacket, ReadyForDataPacketSetup, ReadyForNextDataPacket,
       HandleExpectedSREJPacket, HandleExpectedPacketNumber, HandleClientRecovery, BufferPacket,
       ReceivedEof, ReceivedEofAborts, TimeoutOnClient

\* Only a child that waits in select times out.
LEMMA ChildTimeouts ==
    ASSUME NEW k \in Child, ChildTimeout(k)
    PROVE  child[k].state \in {"READY_FOR_NEXT_SETUP_PACKET", "READY_FOR_NEXT_DATA_PACKET"}
BY DEF ChildTimeout, ReadyForNextSetupPacketTimeout, ReadyForNextDataPacketTimeout

-----------------------------------------------------------------------------
(* Paths that have not misbehaved.                                         *)

\* A packet the client sends on such a path joins its queue, if it has room.
LEMMA SendsFaultless ==
    ASSUME faults \in Nat, NEW p, SendToServer(p), faults' = 0
    PROVE  /\ faults = 0
           /\ toServer' = [toServer EXCEPT ![remote] = Put(@, p)]
           /\ toClient' = toClient
BY DEF SendToServer, Transmit

\* So does a reply of child k.
LEMMA RespondsFaultless ==
    ASSUME faults \in Nat, NEW k \in Child, NEW p, p # NoPacket, Respond(k, p), faults' = 0
    PROVE  /\ faults = 0
           /\ toClient' = [toClient EXCEPT ![k] = Put(@, p)]
           /\ toServer' = toServer
BY DEF Respond, Transmit

\* No step takes a fault back.
LEMMA FaultsStay ==
    ASSUME faults \in Nat, [Next]_vars, faults' = 0
    PROVE  faults = 0
<1>1. CASE ClientNext
  <2>1. ASSUME RcopyStep PROVE faults' = faults \/ faults' = faults + 1
    BY <2>1, Zenon
       DEF RcopyStep, SendRemoteFileName, SendBufferSize, SendWindowSize, SendSetup,
           WaitForSetupAcks, ReadyToSendDataSetup, SendData, SendDataEndOfFile, SendDataReadError,
           SendDataSrej, ReceiveDataWindowOpen, ReceiveDataWindowOpenEmpty,
           ReceiveDataWindowClosed, ReceiveData, SendEof, SendEofReply, TimeoutOnServer,
           SendDataFromWindow, RecvFromServer, SendToServer, Transmit, channelVars
  <2>2. ASSUME RcopyTimeout PROVE faults' = faults \/ faults' = faults + 1
    BY <2>2, Zenon
       DEF RcopyTimeout, WaitForSetupAcksTimeout, ReceiveDataWindowClosedTimeout, SendEofTimeout,
           SendDataFromWindow, SendToServer, Transmit, channelVars
  <2>3. faults' = faults \/ faults' = faults + 1
    BY <1>1, <2>1, <2>2 DEF ClientNext
  <2> QED BY <2>3
<1>2. CASE MainNext
  BY <1>2 DEF MainNext, MainAccept
<1>3. ASSUME NEW k \in Child, ChildNext(k) PROVE faults = 0
  <2>1. ASSUME ChildStep(k) PROVE faults' = faults \/ faults' = faults + 1
    BY <2>1, Zenon
       DEF ChildStep, ReceivedRemoteFileNameNoOpen, ReceivedRemoteFileName, ReceivedBufferSize,
           ReceivedWindowSize, ReadyForNextSetupPacket, ReadyForDataPacketSetup,
           ReadyForNextDataPacket, HandleExpectedSREJPacket, HandleExpectedPacketNumber,
           AcceptData, HandleClientRecovery, BufferPacket, ReceivedEof, ReceivedEofAborts,
           TimeoutOnClient, RecvFromClient, Respond, Transmit, channelVars
  <2>2. ASSUME ChildTimeout(k) PROVE faults' = faults
    BY <2>2 DEF ChildTimeout, ReadyForNextSetupPacketTimeout, ReadyForNextDataPacketTimeout,
                channelVars
  <2>3. faults' = faults \/ faults' = faults + 1
    BY <1>3, <2>1, <2>2 DEF ChildNext
  <2> QED BY <2>3
<1>4. CASE UNCHANGED vars
  BY <1>4 DEF vars, channelVars
<1> QED BY <1>1, <1>2, <1>3, <1>4 DEF Next, Terminated

\* Nothing can be taken from an empty queue.
LEMMA NothingDeliverable == Deliverable(<<>>) = {}
BY DEF Deliverable

\* A packet put into an empty queue is alone there.
LEMMA AloneInQueue ==
    ASSUME NEW S, NEW p \in S
    PROVE  /\ Put(<<>>, p) = <<p>>
           /\ Lone(Put(<<>>, p), p.flag) /\ Put(<<>>, p)[1] = p
BY ChannelAssumption DEF ChannelAssumption, Put, Lone

\* Taking the only packet leaves an empty queue.
LEMMA LoneTaken ==
    ASSUME NEW S, NEW q \in Seq(S), Len(q) = 1, NEW i \in Deliverable(q)
    PROVE  i = 1 /\ RemoveAt(q, i) = <<>>
<1>1. i = 1
  BY DEF Deliverable
<1> QED BY <1>1 DEF RemoveAt

\* The types the following proofs need.
LEMMA UploadTypes ==
    ASSUME TransferInv
    PROVE  /\ toServer \in [Server -> Seq(Packets)] /\ toClient \in [Child -> Seq(Packets)]
           /\ faults \in Nat /\ remote \in Server /\ child \in [Child -> ChildTypes]
           /\ Main \in Server /\ Main \notin Child /\ Child \subseteq Server
BY ChannelAssumption
   DEF ChannelAssumption, TransferInv, WindowInv, WireInv, ClientInv, ClientTypeOK, WireOK,
       ChannelTypeOK, ServerTypeOK, Server

-----------------------------------------------------------------------------
(* Why a second child is never forked.                                     *)

\* Until the server has accepted FILE_NAME, nothing else can happen.
LEMMA NotServedNext ==
    ASSUME TransferInv, Timely, Child # {}, NotServed, Next, faults' = 0
    PROVE  \/ NotServed'
           \/ \E k \in Child : /\ ServedBy(k)' /\ Greeted(k)'
                              /\ child'[k].state = "RECEIVED_REMOTE_FILE_NAME"
<1>0. /\ toServer \in [Server -> Seq(Packets)] /\ toClient \in [Child -> Seq(Packets)]
      /\ faults \in Nat /\ remote \in Server /\ child \in [Child -> ChildTypes]
      /\ Main \in Server /\ Main \notin Child /\ Child \subseteq Server
  BY UploadTypes
<1>1. /\ \A k \in Child : /\ child[k].state = "NONE"
                          /\ toServer[k] = <<>> /\ toClient[k] = <<>>
      /\ remote = Main /\ ~fileSuccess
      /\ c_state \in {"SEND_REMOTE_FILE_NAME", "WAIT_FOR_SETUP_ACKS"}
      /\ c_state = "SEND_REMOTE_FILE_NAME" => toServer[Main] = <<>>
      /\ c_state = "WAIT_FOR_SETUP_ACKS" => Lone(toServer[Main], "FILE_NAME")
  BY DEF NotServed, Unforked, Silent
<1>2. CASE ClientNext
  <2>1. CASE RcopyStep
    <3>1. c_state # "WAIT_FOR_SETUP_ACKS"
      <4>1. ~WaitForSetupAcks
        BY <1>1, NothingDeliverable DEF WaitForSetupAcks
      <4> QED BY <2>1, <4>1, ClientHandlers
    <3>2. SendRemoteFileName /\ toServer[Main] = <<>>
      BY <1>1, <2>1, <3>1, ClientHandlers
    <3>3. PICK p : p = Control("FILE_NAME", 0)
      OBVIOUS
    <3>4. SendToServer(p)
      BY <3>2, <3>3 DEF SendRemoteFileName, SendSetup, SendToServer, Transmit
    <3>5. p.flag = "FILE_NAME" /\ p \in Packets
      BY <3>3 DEF Control, Packet, Packets, Flags, SetupFlags
    <3>6. toServer' = [toServer EXCEPT ![Main] = Put(<<>>, p)] /\ toClient' = toClient
      BY <1>0, <1>1, <3>2, <3>4, SendsFaultless
    <3>7. Lone(toServer'[Main], "FILE_NAME")
      BY <1>0, <3>5, <3>6, AloneInQueue
    <3>8. \A k \in Child : Unforked(k)' /\ Silent(k)'
      BY <1>0, <1>1, <1>2, <3>6 DEF ClientNext, serverVars, Unforked, Silent
    <3>9. c_state' = "WAIT_FOR_SETUP_ACKS" /\ remote' = Main /\ ~fileSuccess'
      BY <1>1, <3>2 DEF SendRemoteFileName, SendSetup, Goto, setupVars
    <3> QED BY <3>7, <3>8, <3>9 DEF NotServed
  <2>2. CASE RcopyTimeout /\ (Timely => Quiet)
    <3>1. c_state = "WAIT_FOR_SETUP_ACKS"
      BY <1>1, <2>2, ClientTimeouts
    <3>2. toServer[Main] # <<>>
      BY <1>1, <3>1 DEF Lone
    <3> QED BY <1>1, <2>2, <3>2 DEF Quiet, Unforked
  <2> QED BY <1>2, <2>1, <2>2 DEF ClientNext
<1>3. CASE MainNext
  <2>1. PICK k \in Child : MainAccept(k)
    BY <1>3 DEF MainNext
  <2>2. PICK i \in Deliverable(toServer[Main]) :
          /\ toServer' = [toServer EXCEPT ![Main] = RemoveAt(@, i)]
          /\ IF toServer[Main][i].flag = "CRC_ERROR"
               THEN UNCHANGED child
               ELSE Become(k, [child[k] EXCEPT !.state = "RECEIVED_REMOTE_FILE_NAME",
                                               !.recvPacket = toServer[Main][i]])
    BY <2>1 DEF MainAccept, Take
  <2>3. c_state = "WAIT_FOR_SETUP_ACKS"
    BY <1>1, <2>2, NothingDeliverable
  <2>4. toServer[Main][i].flag = "FILE_NAME" /\ RemoveAt(toServer[Main], i) = <<>>
    BY <1>0, <1>1, <2>3, LoneTaken DEF Lone
  <2>5. /\ child'[k].state = "RECEIVED_REMOTE_FILE_NAME"
        /\ \A j \in Child \ {k} : child'[j] = child[j]
    BY <1>0, <2>2, <2>4 DEF Become, ChildTypes
  <2>6. /\ toServer'[Main] = <<>> /\ toClient' = toClient
        /\ \A j \in Child : toServer'[j] = <<>>
    BY <1>0, <1>1, <2>1, <2>2, <2>4 DEF MainAccept
  <2>7. ServedBy(k)'
    BY <1>1, <2>5, <2>6 DEF ServedBy, Unforked, Silent
  <2>8. remote' = Main /\ ~fileSuccess' /\ c_state' = "WAIT_FOR_SETUP_ACKS"
    BY <1>1, <1>3, <2>3 DEF MainNext, rcopyVars, setupVars
  <2>9. Greeted(k)'
    BY <1>1, <2>5, <2>6, <2>8 DEF Greeted
  <2> QED BY <2>5, <2>7, <2>9
<1>4. ASSUME NEW k \in Child, ChildNext(k) PROVE FALSE
  <2>1. ~ChildStep(k) /\ ~ChildTimeout(k)
    BY <1>1, ChildHandlers, ChildTimeouts
  <2> QED BY <1>4, <2>1 DEF ChildNext
<1>5. CASE UNCHANGED vars
  BY <1>5 DEF vars, channelVars, rcopyVars, setupVars, serverVars, NotServed, Unforked, Silent
<1> QED BY <1>2, <1>3, <1>4, <1>5 DEF Next, Terminated

\* Once a child serves the client, only the two of them take steps.
LEMMA TwoActors ==
    ASSUME TransferInv, NEW k \in Child, ServedBy(k), Next
    PROVE  ClientNext \/ ChildNext(k) \/ UNCHANGED vars
<1>1. ~MainNext
  BY NothingDeliverable DEF MainNext, MainAccept, ServedBy
<1>2. ASSUME NEW j \in Child, ChildNext(j) PROVE j = k
  <2>1. child[j].state # "NONE"
    BY <1>2, ChildHandlers, ChildTimeouts DEF ChildNext
  <2> QED BY <2>1 DEF ServedBy, Unforked
<1> QED BY <1>1, <1>2 DEF Next, Terminated

\* A step of the client that sends nothing to another process, or of child k, keeps
\* the others out.
LEMMA OthersKeptOut ==
    ASSUME NEW k \in Child, ServedBy(k),
           \A s \in Server \ {k} : toServer'[s] = toServer[s],
           \A j \in Child \ {k} : toClient'[j] = toClient[j] /\ child'[j] = child[j],
           child'[k].state # "NONE"
    PROVE  ServedBy(k)'
BY ChannelAssumption DEF ChannelAssumption, ServedBy, Unforked, Silent, Server

\* A client sends only to the process it talks to, and what it receives comes from
\* the process it talks to afterwards.
LEMMA ClientTouches ==
    ASSUME TransferInv, RcopyStep \/ RcopyTimeout
    PROVE  /\ \A s \in Server \ {remote} : toServer'[s] = toServer[s]
           /\ \/ toClient' = toClient /\ remote' = remote
              \/ \E k \in Child : \E i \in Deliverable(toClient[k]) : RecvFromServer(k, i)
<1>0. toServer \in [Server -> Seq(Packets)] /\ remote \in Server
  BY UploadTypes
<1>1. ASSUME NEW p, SendToServer(p)
      PROVE  toClient' = toClient /\ \A s \in Server \ {remote} : toServer'[s] = toServer[s]
  BY <1>0, <1>1 DEF SendToServer, Transmit
<1>2. ASSUME NEW k, NEW i, RecvFromServer(k, i)
      PROVE  \A s \in Server \ {remote} : toServer'[s] = toServer[s]
  BY <1>2 DEF RecvFromServer
<1>3. ASSUME UNCHANGED <<channelVars, setupVars>>
      PROVE  /\ \A s \in Server \ {remote} : toServer'[s] = toServer[s]
             /\ toClient' = toClient /\ remote' = remote
  BY <1>3 DEF channelVars, setupVars
<1>4. CASE \/ SendRemoteFileName \/ SendBufferSize \/ SendWindowSize \/ SendEof
  BY <1>0, <1>4
     DEF SendRemoteFileName, SendBufferSize, SendWindowSize, SendSetup, SendEof, SendToServer,
         Transmit, setupVars
<1>5. CASE SendData
  BY <1>0, <1>5 DEF SendData, SendToServer, Transmit, setupVars
<1>6. CASE \/ ReadyToSendDataSetup \/ SendDataEndOfFile \/ SendDataReadError
           \/ ReceiveDataWindowOpenEmpty \/ TimeoutOnServer
           \/ WaitForSetupAcksTimeout \/ SendEofTimeout
  BY <1>3, <1>6 DEF ReadyToSendDataSetup, SendDataEndOfFile, SendDataReadError,
                    ReceiveDataWindowOpenEmpty, TimeoutOnServer, WaitForSetupAcksTimeout,
                    SendEofTimeout
<1>7. CASE WaitForSetupAcks \/ ReceiveDataWindowOpen \/ ReceiveDataWindowClosed \/ SendEofReply
  BY <1>2, <1>7 DEF WaitForSetupAcks, ReceiveDataWindowOpen, ReceiveDataWindowClosed, ReceiveData,
                    SendEofReply
<1>8. ASSUME NEW index, SendDataFromWindow(index)
      PROVE  toClient' = toClient /\ \A s \in Server \ {remote} : toServer'[s] = toServer[s]
  BY <1>0, <1>8 DEF SendDataFromWindow, SendToServer, Transmit, channelVars
<1>9. CASE SendDataSrej
  <2>1. PICK index : index = (SREJ_num + WordMod - 1) % WordMod
    OBVIOUS
  <2>2. SendDataFromWindow(index)
    BY <1>9, <2>1 DEF SendDataSrej, SendDataFromWindow, SendToServer, Transmit
  <2> QED BY <1>8, <1>9, <2>2 DEF SendDataSrej, setupVars
<1>10. CASE ReceiveDataWindowClosedTimeout
  <2>1. remote' = remote /\ (UNCHANGED channelVars \/ SendDataFromWindow(c_win_min))
    BY <1>10 DEF ReceiveDataWindowClosedTimeout, setupVars
  <2>2. CASE UNCHANGED channelVars
    BY <2>1, <2>2 DEF channelVars
  <2>3. CASE SendDataFromWindow(c_win_min)
    <3>1. PICK index : index = c_win_min
      OBVIOUS
    <3>2. SendDataFromWindow(index)
      BY <2>3, <3>1 DEF SendDataFromWindow, SendToServer, Transmit
    <3> QED BY <1>8, <2>1, <3>2
  <2> QED BY <2>1, <2>2, <2>3
<1> QED BY <1>4, <1>5, <1>6, <1>7, <1>9, <1>10 DEF RcopyStep, RcopyTimeout

-----------------------------------------------------------------------------
(* What the handlers of a child do to its record.                          *)

\* Child k goes to state st, and the other children stand still.
Enters(k, st) == child'[k].state = st /\ \A j \in Child \ {k} : child'[j] = child[j]

\* Child k has opened the file, and been told the sizes, or not, as before.
KeepsSetup(k) ==
    /\ child'[k].fileGood = child[k].fileGood
    /\ child'[k].bufGood = child[k].bufGood
    /\ child'[k].winGood = child[k].winGood

\* Child k waits for the same packet, with the same packets buffered.
KeepsPlace(k) ==
    /\ child'[k].cur_RRnum = child[k].cur_RRnum
    /\ child'[k].has_SREJ = child[k].has_SREJ
    /\ child'[k].window = child[k].window

\* The handlers of the setup: each sends its answer and waits.
LEMMA SetupHandled ==
    ASSUME NEW k \in Child, child \in [Child -> ChildTypes]
    PROVE  /\ ReceivedRemoteFileNameNoOpen(k) =>
                Enters(k, "DONE") /\ Respond(k, Control("REJ_FILE_NAME_NO_OPEN", 0))
           /\ ReceivedRemoteFileName(k) =>
                /\ Enters(k, "READY_FOR_NEXT_SETUP_PACKET") /\ child'[k].fileGood
                /\ Respond(k, Control("ACK_FILE_NAME", 0))
           /\ ReceivedBufferSize(k) =>
                /\ Enters(k, "READY_FOR_NEXT_SETUP_PACKET") /\ child'[k].bufGood
                /\ child'[k].fileGood = child[k].fileGood
                /\ Respond(k, Control("ACK_BUFFER_SIZE", 0))
           /\ ReceivedWindowSize(k) =>
                /\ Enters(k, "READY_FOR_NEXT_SETUP_PACKET") /\ child'[k].winGood
                /\ child'[k].fileGood = child[k].fileGood
                /\ child'[k].bufGood = child[k].bufGood
                /\ Respond(k, Control("ACK_WINDOW_SIZE", 0))
<1>1. child[k] \in ChildTypes
  OBVIOUS
<1>2. ASSUME ReceivedRemoteFileNameNoOpen(k)
      PROVE  Enters(k, "DONE") /\ Respond(k, Control("REJ_FILE_NAME_NO_OPEN", 0))
  <2>1. PICK r : r = [child[k] EXCEPT !.state = "DONE", !.recvPacket = NoPacket]
    OBVIOUS
  <2>2. Become(k, r) /\ Respond(k, Control("REJ_FILE_NAME_NO_OPEN", 0))
    BY <1>2, <2>1 DEF ReceivedRemoteFileNameNoOpen
  <2>3. r.state = "DONE"
    BY <1>1, <2>1 DEF ChildTypes
  <2> QED BY <2>2, <2>3, BecomeType DEF Enters
<1>3. ASSUME ReceivedRemoteFileName(k)
      PROVE  /\ Enters(k, "READY_FOR_NEXT_SETUP_PACKET") /\ child'[k].fileGood
             /\ Respond(k, Control("ACK_FILE_NAME", 0))
  <2>1. PICK r : r = [child[k] EXCEPT !.state = "READY_FOR_NEXT_SETUP_PACKET",
                                      !.recvPacket = NoPacket, !.fileGood = TRUE]
    OBVIOUS
  <2>2. Become(k, r) /\ Respond(k, Control("ACK_FILE_NAME", 0))
    BY <1>3, <2>1 DEF ReceivedRemoteFileName
  <2>3. r.state = "READY_FOR_NEXT_SETUP_PACKET" /\ r.fileGood
    BY <1>1, <2>1 DEF ChildTypes
  <2> QED BY <2>2, <2>3, BecomeType DEF Enters
<1>4. ASSUME ReceivedBufferSize(k)
      PROVE  /\ Enters(k, "READY_FOR_NEXT_SETUP_PACKET") /\ child'[k].bufGood
             /\ child'[k].fileGood = child[k].fileGood
             /\ Respond(k, Control("ACK_BUFFER_SIZE", 0))
  <2>1. PICK r : r = [child[k] EXCEPT !.state = "READY_FOR_NEXT_SETUP_PACKET",
                                      !.recvPacket = NoPacket, !.bufGood = TRUE]
    OBVIOUS
  <2>2. Become(k, r) /\ Respond(k, Control("ACK_BUFFER_SIZE", 0))
    BY <1>4, <2>1 DEF ReceivedBufferSize
  <2>3. r.state = "READY_FOR_NEXT_SETUP_PACKET" /\ r.bufGood /\ r.fileGood = child[k].fileGood
    BY <1>1, <2>1 DEF ChildTypes
  <2> QED BY <2>2, <2>3, BecomeType DEF Enters
<1>5. ASSUME ReceivedWindowSize(k)
      PROVE  /\ Enters(k, "READY_FOR_NEXT_SETUP_PACKET") /\ child'[k].winGood
             /\ child'[k].fileGood = child[k].fileGood
             /\ child'[k].bufGood = child[k].bufGood
             /\ Respond(k, Control("ACK_WINDOW_SIZE", 0))
  <2>1. PICK r : r = [child[k] EXCEPT !.state = "READY_FOR_NEXT_SETUP_PACKET",
                                      !.recvPacket = NoPacket,
                                      !.win_size = child[k].recvPacket.num, !.winGood = TRUE]
    OBVIOUS
  <2>2. Become(k, r) /\ Respond(k, Control("ACK_WINDOW_SIZE", 0))
    BY <1>5, <2>1 DEF ReceivedWindowSize
  <2>3. /\ r.state = "READY_FOR_NEXT_SETUP_PACKET" /\ r.winGood
        /\ r.fileGood = child[k].fileGood /\ r.bufGood = child[k].bufGood
    BY <1>1, <2>1 DEF ChildTypes
  <2> QED BY <2>2, <2>3, BecomeType DEF Enters
<1> QED BY <1>2, <1>3, <1>4, <1>5

\* Child k takes a packet from its socket, and goes to the state st.
Takes(k, i, st) ==
    /\ RecvFromClient(k, i) /\ Enters(k, st)
    /\ child'[k].recvPacket = (IF st = child[k].state THEN NoPacket ELSE toServer[k][i])
    /\ KeepsSetup(k) /\ KeepsPlace(k)

\* A child that waits takes a packet, whose flag decides on its next state.
LEMMA PacketTaken ==
    ASSUME NEW k \in Child, child \in [Child -> ChildTypes]
    PROVE  /\ ReadyForNextSetupPacket(k) =>
                \E i \in Deliverable(toServer[k]) : Takes(k, i, SetupHandler(k, toServer[k][i].flag))
           /\ ReadyForNextDataPacket(k) =>
                \E i \in Deliverable(toServer[k]) : Takes(k, i, DataHandler(toServer[k][i].flag))
<1>1. child[k] \in ChildTypes
  OBVIOUS
<1>2. ASSUME NEW i, NEW st, RecvFromClient(k, i),
             Become(k, [child[k] EXCEPT !.state = st,
                                        !.recvPacket = IF st = child[k].state THEN NoPacket
                                                       ELSE toServer[k][i],
                                        !.timeout = 0])
      PROVE  Takes(k, i, st)
  <2>1. PICK p : p = IF st = child[k].state THEN NoPacket ELSE toServer[k][i]
    OBVIOUS
  <2>2. PICK r : r = [child[k] EXCEPT !.state = st, !.recvPacket = p, !.timeout = 0]
    OBVIOUS
  <2>3. Become(k, r)
    BY <1>2, <2>1, <2>2
  <2>4. /\ r.state = st /\ r.recvPacket = p
        /\ r.fileGood = child[k].fileGood /\ r.bufGood = child[k].bufGood
        /\ r.winGood = child[k].winGood
        /\ r.cur_RRnum = child[k].cur_RRnum /\ r.has_SREJ = child[k].has_SREJ
        /\ r.window = child[k].window
    BY <1>1, <2>2 DEF ChildTypes
  <2>5. child'[k] = r /\ \A j \in Child \ {k} : child'[j] = child[j]
    BY <2>3, BecomeType
  <2> QED BY <1>2, <2>1, <2>4, <2>5 DEF Takes, Enters, KeepsSetup, KeepsPlace
<1>3. ASSUME ReadyForNextSetupPacket(k)
      PROVE  \E i \in Deliverable(toServer[k]) : Takes(k, i, SetupHandler(k, toServer[k][i].flag))
  BY <1>2, <1>3 DEF ReadyForNextSetupPacket
<1>4. ASSUME ReadyForNextDataPacket(k)
      PROVE  \E i \in Deliverable(toServer[k]) : Takes(k, i, DataHandler(toServer[k][i].flag))
  BY <1>2, <1>4 DEF ReadyForNextDataPacket
<1> QED BY <1>3, <1>4

\* The first packet opens an empty window; the end of the file ends the child; what
\* has been accepted before is acknowledged again.
LEMMA DataHandled ==
    ASSUME NEW k \in Child, child \in [Child -> ChildTypes]
    PROVE  /\ ReadyForDataPacketSetup(k) =>
                /\ Enters(k, "RECEIVED_DATA") /\ UNCHANGED channelVars
                /\ child'[k].recvPacket = child[k].recvPacket
                /\ child'[k].cur_RRnum = 1 /\ NothingMissing(k)'
           /\ ReceivedEof(k) =>
                Enters(k, "DONE") /\ Respond(k, Control("ACK_EOF", 0))
           /\ HandleClientRecovery(k) =>
                /\ Enters(k, "READY_FOR_NEXT_DATA_PACKET") /\ KeepsPlace(k)
                /\ Respond(k, Control(IF are_packets_buffered(child[k].window) THEN "SREJ" ELSE "RR",
                                      child[k].cur_RRnum))
<1>1. child[k] \in ChildTypes
  OBVIOUS
<1>2. ASSUME ReadyForDataPacketSetup(k)
      PROVE  /\ Enters(k, "RECEIVED_DATA") /\ UNCHANGED channelVars
             /\ child'[k].recvPacket = child[k].recvPacket
             /\ child'[k].cur_RRnum = 1 /\ NothingMissing(k)'
  <2>1. PICK r : r = [child[k] EXCEPT !.state = "RECEIVED_DATA",
                                      !.cur_RRnum = 1,
                                      !.win_min = 0,
                                      !.win_max = child[k].win_size,
                                      !.has_SREJ = FALSE,
                                      !.num_SREJ = 0,
                                      !.window = [i \in Slots |-> NoPacket]]
    OBVIOUS
  <2>2. Become(k, r) /\ UNCHANGED channelVars
    BY <1>2, <2>1 DEF ReadyForDataPacketSetup
  <2>3. /\ r.state = "RECEIVED_DATA" /\ r.recvPacket = child[k].recvPacket /\ r.cur_RRnum = 1
        /\ ~r.has_SREJ /\ \A i \in Slots : r.window[i] = NoPacket
    BY <1>1, <2>1 DEF ChildTypes
  <2> QED BY <2>2, <2>3, BecomeType DEF Enters, NothingMissing, are_packets_buffered
<1>3. ASSUME ReceivedEof(k)
      PROVE  Enters(k, "DONE") /\ Respond(k, Control("ACK_EOF", 0))
  <2>1. PICK r : r = [child[k] EXCEPT !.state = "DONE", !.recvPacket = NoPacket]
    OBVIOUS
  <2>2. Become(k, r) /\ Respond(k, Control("ACK_EOF", 0))
    BY <1>3, <2>1 DEF ReceivedEof
  <2>3. r.state = "DONE"
    BY <1>1, <2>1 DEF ChildTypes
  <2> QED BY <2>2, <2>3, BecomeType DEF Enters
<1>4. ASSUME HandleClientRecovery(k)
      PROVE  /\ Enters(k, "READY_FOR_NEXT_DATA_PACKET") /\ KeepsPlace(k)
             /\ Respond(k, Control(IF are_packets_buffered(child[k].window) THEN "SREJ" ELSE "RR",
                                   child[k].cur_RRnum))
  <2>1. PICK r : r = [child[k] EXCEPT !.state = "READY_FOR_NEXT_DATA_PACKET",
                                      !.recvPacket = NoPacket]
    OBVIOUS
  <2>2. Become(k, r)
    BY <1>4, <2>1 DEF HandleClientRecovery
  <2>3. /\ r.state = "READY_FOR_NEXT_DATA_PACKET" /\ r.cur_RRnum = child[k].cur_RRnum
        /\ r.has_SREJ = child[k].has_SREJ /\ r.window = child[k].window
    BY <1>1, <2>1 DEF ChildTypes
  <2>4. Respond(k, Control(IF are_packets_buffered(child[k].window) THEN "SREJ" ELSE "RR",
                           child[k].cur_RRnum))
    BY <1>4 DEF HandleClientRecovery
  <2> QED BY <2>2, <2>3, <2>4, BecomeType DEF Enters, KeepsPlace
<1> QED BY <1>2, <1>3, <1>4

\* A child touches its own queues and its own record, and is never unforked again.
LEMMA ChildTouches ==
    ASSUME TransferInv, NEW k \in Child, ChildNext(k)
    PROVE  /\ \A s \in Server \ {k} : toServer'[s] = toServer[s]
           /\ \A j \in Child \ {k} : toClient'[j] = toClient[j] /\ child'[j] = child[j]
           /\ child'[k].state # "NONE"
<1>0. /\ toServer \in [Server -> Seq(Packets)] /\ toClient \in [Child -> Seq(Packets)]
      /\ child \in [Child -> ChildTypes] /\ child[k] \in ChildTypes
  BY UploadTypes
<1>1. ASSUME NEW st \in ChildStates, Enters(k, st), st # "NONE"
      PROVE  child'[k].state # "NONE" /\ \A j \in Child \ {k} : child'[j] = child[j]
  BY <1>1 DEF Enters
<1>2. ASSUME NEW p, Respond(k, p)
      PROVE  toServer' = toServer /\ \A j \in Child \ {k} : toClient'[j] = toClient[j]
  BY <1>0, <1>2 DEF Respond, Transmit
<1>3. ASSUME NEW i, RecvFromClient(k, i)
      PROVE  toClient' = toClient /\ \A s \in Server \ {k} : toServer'[s] = toServer[s]
  BY <1>0, <1>3 DEF RecvFromClient, Take
<1>4. CASE \/ ReceivedRemoteFileNameNoOpen(k) \/ ReceivedBufferSize(k) \/ ReceivedWindowSize(k)
           \/ ReceivedRemoteFileName(k) \/ ReceivedEof(k)
  <2>1. \E p : Respond(k, p)
    BY <1>0, <1>4, SetupHandled, DataHandled
  <2>2. Enters(k, "DONE") \/ Enters(k, "READY_FOR_NEXT_SETUP_PACKET")
    BY <1>0, <1>4, SetupHandled, DataHandled
  <2> QED BY <1>2, <2>1, <2>2 DEF Enters
<1>5. CASE ReadyForNextSetupPacket(k) \/ ReadyForNextDataPacket(k)
  <2>1. PICK i, st : Takes(k, i, st) /\ st # "NONE"
    <3>1. \A f : SetupHandler(k, f) # "NONE" /\ DataHandler(f) # "NONE"
      BY DEF SetupHandler, DataHandler
    <3> QED BY <1>0, <1>5, <3>1, PacketTaken
  <2> QED BY <1>3, <2>1 DEF Takes, Enters
<1>6. CASE \/ ReadyForDataPacketSetup(k) \/ ReceivedEofAborts(k) \/ TimeoutOnClient(k)
           \/ ReadyForNextDataPacketTimeout(k) \/ ReadyForNextSetupPacketTimeout(k)
  <2>1. child'[k].state # "NONE" /\ \A j \in Child \ {k} : child'[j] = child[j]
    BY <1>0, <1>6 DEF ReadyForDataPacketSetup, ReceivedEofAborts, TimeoutOnClient,
                      ReadyForNextDataPacketTimeout, ReadyForNextSetupPacketTimeout, Become, ChildTypes
  <2>2. UNCHANGED <<toServer, toClient>>
    BY <1>6 DEF ReadyForDataPacketSetup, ReceivedEofAborts, TimeoutOnClient,
                ReadyForNextDataPacketTimeout, ReadyForNextSetupPacketTimeout, channelVars
  <2> QED BY <2>1, <2>2
<1>7. CASE HandleClientRecovery(k)
  <2>1. Enters(k, "READY_FOR_NEXT_DATA_PACKET")
    BY <1>0, <1>7, DataHandled
  <2>2. \E p : Respond(k, p)
    <3>1. PICK p : p = Control(IF are_packets_buffered(child[k].window) THEN "SREJ" ELSE "RR",
                               child[k].cur_RRnum)
      OBVIOUS
    <3>2. Respond(k, p)
      BY <1>7, <3>1 DEF HandleClientRecovery, Respond, Transmit
    <3> QED BY <3>2
  <2> QED BY <1>2, <2>1, <2>2 DEF Enters
<1>8. CASE BufferPacket(k)
  <2>1. toServer' = toServer /\ \A j \in Child \ {k} : toClient'[j] = toClient[j]
    BY <1>0, <1>8 DEF BufferPacket, Respond, Transmit
  <2>2. PICK w, ns : Become(k, [child[k] EXCEPT !.state = "READY_FOR_NEXT_DATA_PACKET",
                                                !.recvPacket = NoPacket,
                                                !.window = w, !.num_SREJ = ns, !.has_SREJ = TRUE])
    BY <1>0, <1>8 DEF BufferPacket, Become, ChildTypes
  <2>3. PICK r : r = [child[k] EXCEPT !.state = "READY_FOR_NEXT_DATA_PACKET", !.recvPacket = NoPacket,
                                      !.window = w, !.num_SREJ = ns, !.has_SREJ = TRUE]
    OBVIOUS
  <2>4. r.state = "READY_FOR_NEXT_DATA_PACKET"
    BY <1>0, <2>3 DEF ChildTypes
  <2>5. Become(k, r)
    BY <2>2, <2>3
  <2> QED BY <1>0, <2>1, <2>4, <2>5, BecomeType
<1>9. CASE HandleExpectedSREJPacket(k) \/ HandleExpectedPacketNumber(k)
  <2>1. WireInv /\ child[k].state = "RECEIVED_DATA"
    BY <1>9 DEF TransferInv, WindowInv, HandleExpectedSREJPacket, HandleExpectedPacketNumber
  <2>2. PICK srej \in BOOLEAN : AcceptData(k, srej)
    <3>1. CASE HandleExpectedSREJPacket(k)
      BY <3>1 DEF HandleExpectedSREJPacket
    <3>2. CASE HandleExpectedPacketNumber(k)
      <4>1. PICK srej \in BOOLEAN : srej = child[k].has_SREJ
        BY <1>0 DEF ChildTypes
      <4>2. AcceptData(k, srej)
        BY <3>2, <4>1 DEF HandleExpectedPacketNumber, AcceptData, Respond, Transmit
      <4> QED BY <4>2
    <3> QED BY <1>9, <3>1, <3>2
  <2>3. PICK written : Become(k, Accepted(k, srej, written))
    BY <2>1, <2>2, AcceptFacts
  <2>4. \E reply : Respond(k, reply)
    BY <2>1, <2>2, AcceptFacts
  <2>5. PICK r : r = Accepted(k, srej, written)
    OBVIOUS
  <2>6. r.state = "READY_FOR_NEXT_DATA_PACKET"
    BY <1>0, <2>5 DEF Accepted, ChildTypes
  <2>7. Become(k, r)
    BY <2>3, <2>5
  <2> QED BY <1>0, <1>2, <2>4, <2>6, <2>7, BecomeType
<1> QED BY <1>4, <1>5, <1>6, <1>7, <1>8, <1>9 DEF ChildNext, ChildStep, ChildTimeout

\* rcopy, once it knows the child, keeps to it, whatever happens.
LEMMA KnownNext ==
    ASSUME TransferInv, NEW k \in Child, ServedBy(k), Known(k), ClientNext \/ ChildNext(k)
    PROVE  ServedBy(k)' /\ Known(k)'
<1>0. /\ toServer \in [Server -> Seq(Packets)] /\ toClient \in [Child -> Seq(Packets)]
      /\ child \in [Child -> ChildTypes] /\ child[k].state # "NONE" /\ k \in Server
  BY UploadTypes DEF ServedBy, Unforked
<1>1. CASE ClientNext
  <2>1. RcopyStep \/ RcopyTimeout
    BY <1>1 DEF ClientNext
  <2>2. \A s \in Server \ {k} : toServer'[s] = toServer[s]
    BY <2>1, ClientTouches DEF Known
  <2>3. child' = child
    BY <1>1 DEF ClientNext, serverVars
  <2>4. \/ toClient' = toClient /\ remote' = k
        \/ \E i \in Deliverable(toClient[k]) : RecvFromServer(k, i)
    <3>1. \/ toClient' = toClient /\ remote' = remote
          \/ \E j \in Child : \E i \in Deliverable(toClient[j]) : RecvFromServer(j, i)
      BY <2>1, ClientTouches
    <3>2. ASSUME NEW j \in Child, NEW i \in Deliverable(toClient[j]) PROVE j = k
      BY <3>2, NothingDeliverable DEF ServedBy, Silent
    <3> QED BY <3>1, <3>2 DEF Known
  <2>5. remote' = k /\ \A j \in Child \ {k} : toClient'[j] = toClient[j]
    BY <1>0, <2>4 DEF RecvFromServer, Take
  <2>6. ServedBy(k)'
    BY <1>0, <2>2, <2>3, <2>5, OthersKeptOut
  <2>7. ~ClientDone
    BY <2>1, ClientHandlers, ClientTimeouts DEF ClientDone
  <2>8. fileSuccess /\ c_state # "SEND_REMOTE_FILE_NAME"
    BY <2>7 DEF Known
  <2>9. fileSuccess' /\ c_state' # "SEND_REMOTE_FILE_NAME"
    <3>1. CASE WaitForSetupAcks
      <4>0. PICK j \in Child : \E i \in Deliverable(toClient[j]) :
              /\ IF toClient[j][i].flag = "REJ_FILE_NAME_NO_OPEN"
                   THEN Quit("rejected")
                   ELSE Goto(AfterSetupReply(toClient[j][i].flag))
              /\ fileSuccess' = (fileSuccess \/ toClient[j][i].flag = "ACK_FILE_NAME")
        BY <3>1 DEF WaitForSetupAcks
      <4>1. PICK i \in Deliverable(toClient[j]) :
              /\ IF toClient[j][i].flag = "REJ_FILE_NAME_NO_OPEN"
                   THEN Quit("rejected")
                   ELSE Goto(AfterSetupReply(toClient[j][i].flag))
              /\ fileSuccess' = (fileSuccess \/ toClient[j][i].flag = "ACK_FILE_NAME")
        BY <4>0
      <4>2. toClient[j][i] \in Honest(j)
        BY DEF Deliverable, TransferInv, RepliesHonest
      <4>3. toClient[j][i].flag # "REJ_FILE_NAME"
        BY <4>2 DEF Honest, ReplyFlags
      <4>4. c_state' # "SEND_REMOTE_FILE_NAME"
        BY <4>1, <4>3 DEF Quit, Goto, AfterSetupReply
      <4> QED BY <2>8, <4>1, <4>4
    <3>2. CASE ~WaitForSetupAcks
      <4>1. fileSuccess' = fileSuccess
        BY <2>1, <3>2
           DEF RcopyStep, RcopyTimeout, SendRemoteFileName, SendBufferSize, SendWindowSize,
               SendSetup, ReadyToSendDataSetup, SendData, SendDataEndOfFile, SendDataReadError,
               SendDataSrej, ReceiveDataWindowOpen, ReceiveDataWindowOpenEmpty,
               ReceiveDataWindowClosed, ReceiveData, SendEof, SendEofReply, TimeoutOnServer,
               WaitForSetupAcksTimeout, ReceiveDataWindowClosedTimeout, SendEofTimeout, setupVars
      <4>2. c_state' # "SEND_REMOTE_FILE_NAME"
        <5>1. CASE \/ SendBufferSize \/ SendWindowSize \/ ReadyToSendDataSetup \/ SendData
                   \/ SendDataEndOfFile \/ SendDataReadError \/ ReceiveDataWindowOpenEmpty
                   \/ SendEof \/ TimeoutOnServer \/ WaitForSetupAcksTimeout \/ SendEofTimeout
          BY <2>8, <5>1
             DEF SendBufferSize, SendWindowSize, SendSetup, ReadyToSendDataSetup, SendData,
                 SendDataEndOfFile, SendDataReadError, ReceiveDataWindowOpenEmpty, SendEof,
                 TimeoutOnServer, WaitForSetupAcksTimeout, SendEofTimeout, AfterSend, Goto, Quit
        <5>2. CASE SendDataSrej \/ ReceiveDataWindowClosedTimeout
          BY <5>2 DEF SendDataSrej, ReceiveDataWindowClosedTimeout, SendDataFromWindow, AfterSend,
                      Goto
        <5>3. CASE ReceiveDataWindowOpen \/ ReceiveDataWindowClosed \/ SendEofReply
          BY <5>3 DEF ReceiveDataWindowOpen, ReceiveDataWindowClosed, ReceiveData, SendEofReply,
                      ProcessIncomingData, AfterRR, Goto, Quit
        <5>4. ~SendRemoteFileName
          BY <2>8 DEF SendRemoteFileName, SendSetup
        <5> QED BY <2>1, <3>2, <5>1, <5>2, <5>3, <5>4 DEF RcopyStep, RcopyTimeout
      <4> QED BY <2>8, <4>1, <4>2
    <3> QED BY <3>1, <3>2
  <2> QED BY <2>5, <2>6, <2>9 DEF Known
<1>2. CASE ChildNext(k)
  <2>1. ServedBy(k)'
    BY <1>2, ChildTouches, OthersKeptOut
  <2>2. Known(k)'
    BY <1>2 DEF ChildNext, rcopyVars, setupVars, Known, ClientDone
  <2> QED BY <2>1, <2>2
<1> QED BY <1>1, <1>2

\* A child that has not been heard yet answers, and is heard.
LEMMA GreetedNext ==
    ASSUME TransferInv, Timely, NEW k \in Child, ServedBy(k), Greeted(k),
           ClientNext \/ ChildNext(k), faults' = 0
    PROVE  /\ ServedBy(k)'
           /\ \/ /\ Greeted(k)'
                 /\ ReceivedRemoteFileNameNoOpen(k) \/ ReceivedRemoteFileName(k)
              \/ /\ Known(k)' /\ Silent(k)' /\ child' = child
                 /\ Lone(toClient[k], "ACK_FILE_NAME") => c_state' = "SEND_BUFFER_SIZE"
<1>0. /\ toServer \in [Server -> Seq(Packets)] /\ toClient \in [Child -> Seq(Packets)]
      /\ faults \in Nat /\ child \in [Child -> ChildTypes] /\ k \in Server /\ Main \in Server
      /\ Main \notin Child /\ child[k].state # "NONE"
  BY UploadTypes DEF ServedBy, Unforked
<1>1. /\ remote = Main /\ ~fileSuccess /\ c_state = "WAIT_FOR_SETUP_ACKS" /\ toServer[k] = <<>>
      /\ \A j \in Child \ {k} : toClient[j] = <<>>
  BY DEF Greeted, ServedBy, Silent
<1>2. CASE ClientNext
  <2>1. ~RcopyTimeout \/ ~(Timely => Quiet)
    BY DEF Greeted, Lone, Quiet
  <2>2. WaitForSetupAcks
    BY <1>1, <1>2, <2>1, ClientHandlers DEF ClientNext
  <2>4. PICK i \in Deliverable(toClient[k]) :
          /\ RecvFromServer(k, i)
          /\ IF toClient[k][i].flag = "REJ_FILE_NAME_NO_OPEN"
               THEN Quit("rejected")
               ELSE Goto(AfterSetupReply(toClient[k][i].flag))
          /\ fileSuccess' = (fileSuccess \/ toClient[k][i].flag = "ACK_FILE_NAME")
    BY <1>1, <2>2, NothingDeliverable DEF WaitForSetupAcks
  <2>5. toClient[k] # <<>>
    BY <2>4, NothingDeliverable
  <2>6. Len(toClient[k]) = 1 /\ toClient[k][1].flag \in {"ACK_FILE_NAME", "REJ_FILE_NAME_NO_OPEN"}
    BY <2>5 DEF Greeted, Lone
  <2>7. i = 1
    BY <1>0, <2>4, <2>6, LoneTaken
  <2>8. /\ fileSuccess' \/ c_state' = "DONE"
        /\ c_state' # "SEND_REMOTE_FILE_NAME"
    BY <2>4, <2>6, <2>7 DEF Quit, Goto, AfterSetupReply
  <2>9. remote' = k /\ toServer' = toServer /\ \A l \in Child \ {k} : toClient'[l] = toClient[l]
    BY <1>0, <2>4 DEF RecvFromServer, Take
  <2>10. child' = child
    BY <1>2 DEF ClientNext, serverVars
  <2>11. ServedBy(k)'
    BY <1>0, <2>9, <2>10, OthersKeptOut
  <2>12. Silent(k)'
    BY <1>0, <1>1, <2>4, <2>6, <2>9, LoneTaken DEF RecvFromServer, Take, Silent
  <2>13. Lone(toClient[k], "ACK_FILE_NAME") => c_state' = "SEND_BUFFER_SIZE"
    BY <2>4, <2>7 DEF Lone, Goto, AfterSetupReply
  <2> QED BY <2>8, <2>9, <2>10, <2>11, <2>12, <2>13 DEF Known, ClientDone
<1>3. CASE ChildNext(k)
  <2>1. ServedBy(k)'
    BY <1>3, ChildTouches, OthersKeptOut
  <2>2. ~(ChildTimeout(k) /\ (Timely => Forgotten(k)))
    <3>1. ChildTimeout(k) => toClient[k] # <<>>
      BY ChildTimeouts DEF Greeted, Lone
    <3>2. ~ClientDone
      BY <1>1 DEF ClientDone
    <3> QED BY <3>1, <3>2 DEF Forgotten
  <2>3. child[k].state = "RECEIVED_REMOTE_FILE_NAME" /\ toClient[k] = <<>>
    <3>1. ChildStep(k)
      BY <1>3, <2>2 DEF ChildNext
    <3>2. child[k].state # "DONE"
      BY <3>1, ChildHandlers
    <3>3. child[k].state # "READY_FOR_NEXT_SETUP_PACKET"
      BY <1>1, <3>1, ChildHandlers, NothingDeliverable DEF ReadyForNextSetupPacket
    <3> QED BY <3>2, <3>3 DEF Greeted
  <2>0. ReceivedRemoteFileNameNoOpen(k) \/ ReceivedRemoteFileName(k)
    BY <1>3, <2>2, <2>3, ChildHandlers DEF ChildNext
  <2>4. \/ Enters(k, "DONE") /\ Respond(k, Control("REJ_FILE_NAME_NO_OPEN", 0))
        \/ Enters(k, "READY_FOR_NEXT_SETUP_PACKET") /\ Respond(k, Control("ACK_FILE_NAME", 0))
    BY <1>0, <2>0, SetupHandled
  <2>5. \A f \in {"REJ_FILE_NAME_NO_OPEN", "ACK_FILE_NAME"} :
          /\ Control(f, 0) \in Packets /\ Control(f, 0) # NoPacket /\ Control(f, 0).flag = f
    BY ControlType DEF Control, Packet, NoPacket, Flags, ReplyFlags
  <2>6. ASSUME NEW f \in {"REJ_FILE_NAME_NO_OPEN", "ACK_FILE_NAME"}, Respond(k, Control(f, 0))
        PROVE  Lone(toClient'[k], f) /\ toServer'[k] = <<>>
    <3>1. PICK p \in Packets : p = Control(f, 0) /\ p # NoPacket /\ p.flag = f
      BY <2>5
    <3>2. Respond(k, p)
      BY <2>6, <3>1
    <3>3. toClient' = [toClient EXCEPT ![k] = Put(<<>>, p)] /\ toServer' = toServer
      BY <1>0, <2>3, <3>1, <3>2, RespondsFaultless
    <3> QED BY <1>0, <1>1, <3>1, <3>3, AloneInQueue
  <2>7. remote' = Main /\ ~fileSuccess' /\ c_state' = "WAIT_FOR_SETUP_ACKS"
    BY <1>1, <1>3 DEF ChildNext, rcopyVars, setupVars
  <2>8. Greeted(k)'
    BY <2>4, <2>6, <2>7 DEF Enters, Greeted
  <2> QED BY <2>0, <2>1, <2>8
<1> QED BY <1>2, <1>3

\* Every step of an upload on timely paths.
LEMMA CleanServedNext ==
    ASSUME Timely, TransferInv, CleanServed, [Next]_vars
    PROVE  CleanServed'
<1> SUFFICES ASSUME faults' = 0, Child # {}
             PROVE  NotServed' \/ \E k \in Child : ServedBy(k)' /\ (Greeted(k)' \/ Known(k)')
  BY DEF CleanServed
<1>1. NotServed \/ \E k \in Child : ServedBy(k) /\ (Greeted(k) \/ Known(k))
  <2>1. faults = 0
    BY FaultsStay, UploadTypes
  <2> QED BY <2>1 DEF CleanServed
<1>2. CASE UNCHANGED vars
  BY <1>1, <1>2 DEF vars, channelVars, rcopyVars, setupVars, serverVars, NotServed, ServedBy,
                    Greeted, Known, Unforked, Silent, ClientDone
<1>3. CASE NotServed /\ Next
  BY <1>3, NotServedNext
<1>4. ASSUME NEW k \in Child, ServedBy(k), Greeted(k) \/ Known(k), ClientNext \/ ChildNext(k)
      PROVE  ServedBy(k)' /\ (Greeted(k)' \/ Known(k)')
  BY <1>4, GreetedNext, KnownNext
<1> QED BY <1>1, <1>2, <1>3, <1>4, TwoActors

\* On timely paths, until a path has misbehaved, rcopy is served by one child, from the
\* FILE_NAME that makes the server fork to the end.
THEOREM ServedByOneChild ==
    ASSUME Timely
    PROVE  Spec => []CleanServed
<1>1. Init => CleanServed
  BY DEF Init, ChannelInit, RcopyInit, ServerInit, CleanServed, NotServed, Unforked, Unborn,
         Silent, Server
<1>2. TransferInv /\ CleanServed /\ [Next]_vars => CleanServed'
  BY CleanServedNext
<1> QED BY <1>1, <1>2, TransferCorrect, PTL DEF Spec

\* On timely paths the server forks a second child only after a path has lost, flipped
\* or duplicated a packet: whatever the file, the windows and the disk are like, and even
\* if packets overtake each other.
THEOREM OneChildOnCleanPaths ==
    ASSUME Timely
    PROVE  Spec => []CleanPathOneChild
<1>1. CleanServed => CleanPathOneChild
  BY DEF CleanServed, CleanPathOneChild, NotServed, ServedBy
<1> QED BY <1>1, ServedByOneChild, PTL

-----------------------------------------------------------------------------
(* An upload that nothing disturbs.                                        *)

\* Timely paths that keep the order, a server that can fork a child, a disk and an
\* allocator that do not fail, room in the sockets for a window, a file that fills
\* one, and a retry to spare.
CleanSetting ==
    /\ Timely /\ ~Reorder /\ ~DiskMayFail /\ ~FreedMayAbort
    /\ Child # {}
    /\ Len(LocalFile) >= WinSize
    /\ QueueCap >= WinSize
    /\ MaxTimeouts >= 1

\* What the following proofs need of the invariant.
LEMMA CleanFacts ==
    ASSUME SoundInv, NEW k \in Child
    PROVE  /\ toServer \in [Server -> Seq(Packets)] /\ toClient \in [Child -> Seq(Packets)]
           /\ toServer[k] \in Seq(Genuine)
           /\ faults \in Nat /\ child \in [Child -> ChildTypes] /\ child[k] \in ChildTypes
           /\ k \in Server /\ k # Main
           /\ readPos \in Nat /\ readPos <= Len(LocalFile)
           /\ c_win_min \in Int /\ c_win_max \in Int /\ c_win_cur \in Nat
           /\ doneTransmitting \in BOOLEAN
           /\ doneTransmitting => readPos = Len(LocalFile)
           /\ c_window \in [Slots -> OwnPacket \cup {NoPacket}]
           /\ c_state \in ClientSetup => readPos = 0 /\ ~doneTransmitting
           /\ c_state \in ClientData => cur_packet_num = readPos + 1
           /\ ChildWindow(child[k]) /\ ChildGenuine(child[k])
           /\ c_state \notin {"DONE", "EXIT"} => c_exit = "running"
<1>1. TransferInv /\ WireInv /\ ClientInv /\ ClientTypeOK /\ ClientGenuine /\ ClientCounters
  BY DEF SoundInv, TransferInv, WindowInv, WireInv, ClientInv
<1>2. /\ toServer \in [Server -> Seq(Packets)] /\ toClient \in [Child -> Seq(Packets)]
      /\ faults \in Nat /\ child \in [Child -> ChildTypes] /\ k \in Server /\ k # Main
  BY <1>1, UploadTypes
<1>3. toServer[k] \in Seq(Genuine) /\ c_window \in [Slots -> OwnPacket \cup {NoPacket}]
  BY <1>1, <1>2 DEF ClientGenuine
<1>4. /\ readPos \in Nat /\ readPos <= Len(LocalFile)
      /\ c_win_min \in Int /\ c_win_max \in Int /\ c_win_cur \in Nat
      /\ doneTransmitting \in BOOLEAN
  BY <1>1, FileType DEF ClientTypeOK
<1>5. /\ doneTransmitting => readPos = Len(LocalFile)
      /\ c_state \in ClientSetup => readPos = 0 /\ ~doneTransmitting
      /\ c_state \in ClientData => cur_packet_num = readPos + 1
  BY <1>1, <1>4 DEF ClientCounters
<1>6. ChildWindow(child[k]) /\ ChildGenuine(child[k])
  BY <1>1 DEF TransferInv, WindowInv, WireInv
<1> QED BY <1>2, <1>3, <1>4, <1>5, <1>6 DEF SoundInv

\* A client that has something under way does not time out.
LEMMA NoRetry ==
    ASSUME Timely, NEW k \in Child, ClientNext,
           \/ toClient[k] # <<>>
           \/ child[k].state # "DONE" /\ toServer[k] # <<>>
           \/ child[k].state \notin {"NONE", "DONE", "READY_FOR_NEXT_SETUP_PACKET",
                                     "READY_FOR_NEXT_DATA_PACKET"}
    PROVE  RcopyStep
BY DEF ClientNext, Quiet, Exited

\* A child that serves a client that is still running does not time out.
LEMMA NoGivingUp ==
    ASSUME Timely, NEW k \in Child, ChildNext(k), Known(k), ~ClientDone
    PROVE  ChildStep(k)
BY DEF ChildNext, Known, Forgotten

\* A request of rcopy's, sent into silence, is then alone on its way.
LEMMA Asks ==
    ASSUME SoundInv, NEW k \in Child, remote = k, Silent(k), faults' = 0,
           NEW p \in Packets, SendToServer(p)
    PROVE  Lone(toServer'[k], p.flag) /\ toClient'[k] = <<>>
<1>0. /\ toServer \in [Server -> Seq(Packets)] /\ k \in Server /\ faults \in Nat
  BY CleanFacts
<1>1. toServer' = [toServer EXCEPT ![k] = Put(<<>>, p)] /\ toClient' = toClient
  BY <1>0, SendsFaultless DEF Silent
<1> QED BY <1>0, <1>1, AloneInQueue DEF Silent

\* So is a child's answer.
LEMMA Answers ==
    ASSUME SoundInv, NEW k \in Child, Silent(k), faults' = 0,
           NEW p \in Packets, p # NoPacket, Respond(k, p)
    PROVE  /\ Lone(toClient'[k], p.flag) /\ toClient'[k][1] = p
           /\ toServer'[k] = <<>>
<1>0. toClient \in [Child -> Seq(Packets)] /\ faults \in Nat
  BY CleanFacts
<1>1. toClient' = [toClient EXCEPT ![k] = Put(<<>>, p)] /\ toServer' = toServer
  BY <1>0, RespondsFaultless DEF Silent
<1> QED BY <1>0, <1>1, AloneInQueue DEF Silent

\* A request that is alone on its way is what the child takes.
LEMMA RequestTaken ==
    ASSUME SoundInv, NEW k \in Child, NEW f, Lone(toServer[k], f), toClient[k] = <<>>,
           NEW i \in Deliverable(toServer[k]), RecvFromClient(k, i)
    PROVE  toServer[k][i].flag = f /\ Silent(k)' /\ toServer[k][i] \in Genuine
<1>0. toServer \in [Server -> Seq(Packets)] /\ k \in Server /\ toServer[k] \in Seq(Genuine)
  BY CleanFacts
<1>1. i = 1 /\ RemoveAt(toServer[k], i) = <<>>
  BY <1>0, LoneTaken DEF Lone
<1>2. toServer[k][i].flag = f /\ toServer[k][i] \in Genuine
  <2>1. PICK q \in Seq(Genuine) : q = toServer[k]
    BY <1>0
  <2>2. q[1].flag = f /\ q[1] \in Genuine
    BY <2>1 DEF Lone
  <2> QED BY <1>1, <2>1, <2>2
<1>3. Silent(k)'
  BY <1>0, <1>1 DEF RecvFromClient, Take, Silent
<1> QED BY <1>2, <1>3

\* An answer that is alone on its way is what rcopy takes.
LEMMA AnswerTaken ==
    ASSUME SoundInv, NEW k \in Child, NEW f, Lone(toClient[k], f), toServer[k] = <<>>,
           NEW i \in Deliverable(toClient[k]), RecvFromServer(k, i)
    PROVE  i = 1 /\ toClient[k][i].flag = f /\ Silent(k)'
<1>0. toClient \in [Child -> Seq(Packets)]
  BY CleanFacts
<1>1. i = 1 /\ RemoveAt(toClient[k], i) = <<>>
  BY <1>0, LoneTaken DEF Lone
<1>2. toClient[k][i].flag = f
  BY <1>1 DEF Lone
<1>3. Silent(k)'
  BY <1>0, <1>1 DEF RecvFromServer, Take, Silent
<1> QED BY <1>1, <1>2, <1>3

\* Only the child that serves rcopy has anything to say to it.
LEMMA HeardFrom ==
    ASSUME NEW k \in Child, ServedBy(k), NEW j \in Child, NEW i \in Deliverable(toClient[j])
    PROVE  j = k
BY NothingDeliverable DEF ServedBy, Silent

-----------------------------------------------------------------------------
(* The setup.                                                              *)

\* The steps of a child that is asked, works on the answer and gives it.
LEMMA SetupServed ==
    ASSUME SoundInv, NEW k \in Child, faults' = 0, ChildStep(k),
           child[k].fileGood,
           NEW request, NEW handler, NEW answer,
           \/ /\ request = "BUFFER_SIZE" /\ handler = "RECEIVED_BUFFER_SIZE"
              /\ answer = "ACK_BUFFER_SIZE"
           \/ /\ request = "WINDOW_SIZE" /\ handler = "RECEIVED_WINDOW_SIZE"
              /\ answer = "ACK_WINDOW_SIZE" /\ child[k].bufGood,
           SetupExchange(k, request, handler, answer)
    PROVE  /\ SetupExchange(k, request, handler, answer)'
           /\ child'[k].fileGood
           /\ child[k].bufGood => child'[k].bufGood
           /\ toClient'[k] # <<>> /\ request = "BUFFER_SIZE" => child'[k].bufGood
           /\ toClient'[k] # <<>> /\ request = "WINDOW_SIZE" => child'[k].winGood
<1>0. child \in [Child -> ChildTypes] /\ toServer[k] \in Seq(Genuine)
  BY CleanFacts
<1>1. CASE child[k].state = "READY_FOR_NEXT_SETUP_PACKET"
  <2>1. ReadyForNextSetupPacket(k)
    BY <1>1, ChildHandlers
  <2>2. PICK i \in Deliverable(toServer[k]) : Takes(k, i, SetupHandler(k, toServer[k][i].flag))
    BY <1>0, <2>1, PacketTaken
  <2>3. toServer[k] # <<>>
    BY <2>2, NothingDeliverable
  <2>4. Lone(toServer[k], request) /\ toClient[k] = <<>>
    BY <1>1, <2>3 DEF SetupExchange, Exchange, Silent
  <2>5. toServer[k][i].flag = request /\ Silent(k)'
    BY <2>2, <2>4, RequestTaken DEF Takes
  <2>6. SetupHandler(k, toServer[k][i].flag) = handler
    BY <2>5 DEF SetupHandler
  <2>7. child'[k].state = handler /\ KeepsSetup(k)
    BY <2>2, <2>6 DEF Takes, Enters
  <2> QED BY <2>5, <2>7 DEF SetupExchange, Exchange, Silent, KeepsSetup
<1>2. CASE child[k].state # "READY_FOR_NEXT_SETUP_PACKET"
  <2>1. child[k].state = handler /\ Silent(k)
    BY <1>2 DEF SetupExchange, Exchange
  <2>2. PICK p \in Packets : p = Control(answer, 0) /\ p # NoPacket /\ p.flag = answer
    <3>1. answer \in Flags /\ answer # "NONE"
      BY DEF Flags, ReplyFlags
    <3>2. Control(answer, 0) \in Packets
      BY <3>1, ControlType
    <3>3. Control(answer, 0).flag = answer /\ NoPacket.flag = "NONE"
      BY DEF Control, Packet, NoPacket
    <3> QED BY <3>1, <3>2, <3>3
  <2>3. /\ Respond(k, p) /\ child'[k].state = "READY_FOR_NEXT_SETUP_PACKET"
        /\ child'[k].fileGood
        /\ child[k].bufGood => child'[k].bufGood
        /\ request = "BUFFER_SIZE" => child'[k].bufGood
        /\ request = "WINDOW_SIZE" => child'[k].winGood
    <3>1. CASE request = "BUFFER_SIZE"
      <4>1. ReceivedBufferSize(k)
        BY <2>1, <3>1, ChildHandlers
      <4> QED BY <1>0, <2>2, <3>1, <4>1, SetupHandled DEF Enters
    <3>2. CASE request = "WINDOW_SIZE"
      <4>1. ReceivedWindowSize(k)
        BY <2>1, <3>2, ChildHandlers
      <4> QED BY <1>0, <2>2, <3>2, <4>1, SetupHandled DEF Enters
    <3> QED BY <3>1, <3>2
  <2>4. Lone(toClient'[k], answer) /\ toServer'[k] = <<>>
    BY <2>1, <2>2, <2>3, Answers
  <2> QED BY <2>3, <2>4 DEF SetupExchange, Exchange
<1> QED BY <1>1, <1>2

\* A child that serves rcopy during the setup.
LEMMA SettingUpServed ==
    ASSUME CleanSetting, SoundInv, NEW k \in Child, Known(k), SettingUp(k), ChildNext(k), faults' = 0
    PROVE  SettingUp(k)'
<1>1. c_state' = c_state
  BY DEF ChildNext, rcopyVars
<1>2. ChildStep(k)
  BY NoGivingUp DEF CleanSetting, SettingUp, ClientDone
<1>3. ~Ready(k)
  BY <1>2, ChildHandlers, NothingDeliverable DEF Ready, Silent, ReadyForNextSetupPacket
<1>4. CASE /\ c_state = "WAIT_FOR_SETUP_ACKS"
           /\ SetupExchange(k, "BUFFER_SIZE", "RECEIVED_BUFFER_SIZE", "ACK_BUFFER_SIZE")
  <2>1. /\ SetupExchange(k, "BUFFER_SIZE", "RECEIVED_BUFFER_SIZE", "ACK_BUFFER_SIZE")'
        /\ child'[k].fileGood
        /\ toClient'[k] # <<>> => child'[k].bufGood
    BY <1>2, <1>4, SetupServed DEF SettingUp
  <2> QED BY <1>1, <1>4, <2>1 DEF SettingUp
<1>5. CASE /\ c_state = "WAIT_FOR_SETUP_ACKS" /\ child[k].bufGood
           /\ SetupExchange(k, "WINDOW_SIZE", "RECEIVED_WINDOW_SIZE", "ACK_WINDOW_SIZE")
  <2>1. /\ SetupExchange(k, "WINDOW_SIZE", "RECEIVED_WINDOW_SIZE", "ACK_WINDOW_SIZE")'
        /\ child'[k].fileGood /\ child'[k].bufGood
        /\ toClient'[k] # <<>> => child'[k].winGood
    BY <1>2, <1>5, SetupServed DEF SettingUp
  <2> QED BY <1>1, <1>5, <2>1 DEF SettingUp
<1> QED BY <1>3, <1>4, <1>5 DEF SettingUp

\* rcopy during the setup: it asks, hears, and asks the next thing, until the data begins.
LEMMA SettingUpAsks ==
    ASSUME CleanSetting, SoundInv, NEW k \in Child, ServedBy(k), Known(k), SettingUp(k),
           ClientNext, faults' = 0
    PROVE  SettingUp(k)' \/ Flowing(k)'
<1>0. /\ child' = child /\ child[k] \in ChildTypes /\ ChildWindow(child[k])
      /\ remote = k /\ child[k].fileGood
      /\ c_state \in ClientSetup => readPos = 0 /\ ~doneTransmitting
      /\ WinSize \in Nat \ {0}
  BY CleanFacts, RcopyAssumption
     DEF ClientNext, serverVars, Known, SettingUp, RcopyAssumption
<1>1. RcopyStep
  <2>1. CASE c_state # "WAIT_FOR_SETUP_ACKS"
    BY <2>1, ClientTimeouts DEF SettingUp, ClientNext
  <2>2. CASE c_state = "WAIT_FOR_SETUP_ACKS"
    <3>1. \/ toClient[k] # <<>>
          \/ child[k].state # "DONE" /\ toServer[k] # <<>>
          \/ child[k].state \in {"RECEIVED_BUFFER_SIZE", "RECEIVED_WINDOW_SIZE"}
      BY <2>2 DEF SettingUp, SetupExchange, Exchange, Lone
    <3> QED BY <3>1, NoRetry DEF CleanSetting
  <2> QED BY <2>1, <2>2
<1>2. ASSUME NEW p, SendToServer(p), NEW f \in SetupFlags, NEW n \in Nat, p = Control(f, n),
             Ready(k)
      PROVE  Lone(toServer'[k], f) /\ toClient'[k] = <<>>
  <2>1. p \in Packets /\ p.flag = f
    BY <1>2, ControlType DEF Flags, Control, Packet
  <2> QED BY <1>0, <1>2, <2>1, Asks DEF Ready
<1>3. CASE c_state = "SEND_BUFFER_SIZE" /\ Ready(k)
  <2>1. SendBufferSize
    BY <1>1, <1>3, ClientHandlers
  <2>2. PICK p : p = Control("BUFFER_SIZE", 0) /\ SendToServer(p)
    BY <2>1 DEF SendBufferSize, SendSetup, SendToServer, Transmit
  <2>3. Lone(toServer'[k], "BUFFER_SIZE") /\ toClient'[k] = <<>>
    BY <1>2, <1>3, <2>2 DEF SetupFlags
  <2>4. c_state' = "WAIT_FOR_SETUP_ACKS"
    BY <2>1 DEF SendBufferSize, SendSetup, Goto
  <2> QED BY <1>0, <1>3, <2>3, <2>4 DEF SettingUp, SetupExchange, Exchange, Ready
<1>4. CASE c_state = "SEND_WINDOW_SIZE" /\ Ready(k) /\ child[k].bufGood
  <2>1. SendWindowSize
    BY <1>1, <1>4, ClientHandlers
  <2>2. PICK p : p = Control("WINDOW_SIZE", WinSize) /\ SendToServer(p)
    BY <2>1 DEF SendWindowSize, SendSetup, SendToServer, Transmit
  <2>3. Lone(toServer'[k], "WINDOW_SIZE") /\ toClient'[k] = <<>>
    BY <1>0, <1>2, <1>4, <2>2 DEF SetupFlags
  <2>4. c_state' = "WAIT_FOR_SETUP_ACKS"
    BY <2>1 DEF SendWindowSize, SendSetup, Goto
  <2> QED BY <1>0, <1>4, <2>3, <2>4 DEF SettingUp, SetupExchange, Exchange, Ready
<1>5. ASSUME c_state = "WAIT_FOR_SETUP_ACKS", NEW answer, NEW request, NEW handler,
             SetupExchange(k, request, handler, answer)
      PROVE  /\ c_state' = AfterSetupReply(answer) \/ answer = "REJ_FILE_NAME_NO_OPEN"
             /\ toClient[k] # <<>> /\ Ready(k)'
  <2>1. WaitForSetupAcks
    BY <1>1, <1>5, ClientHandlers
  <2>2. PICK i \in Deliverable(toClient[k]) :
          /\ RecvFromServer(k, i)
          /\ IF toClient[k][i].flag = "REJ_FILE_NAME_NO_OPEN"
               THEN Quit("rejected")
               ELSE Goto(AfterSetupReply(toClient[k][i].flag))
    BY <2>1, HeardFrom DEF WaitForSetupAcks
  <2>3. toClient[k] # <<>>
    BY <2>2, NothingDeliverable
  <2>4. /\ Lone(toClient[k], answer) /\ toServer[k] = <<>>
        /\ child[k].state = "READY_FOR_NEXT_SETUP_PACKET"
    BY <1>5, <2>3 DEF SetupExchange, Exchange, Silent
  <2>5. toClient[k][i].flag = answer /\ Silent(k)'
    BY <2>2, <2>4, AnswerTaken
  <2> QED BY <1>0, <2>2, <2>3, <2>4, <2>5 DEF Goto, Ready
<1>6. CASE /\ c_state = "WAIT_FOR_SETUP_ACKS"
           /\ SetupExchange(k, "BUFFER_SIZE", "RECEIVED_BUFFER_SIZE", "ACK_BUFFER_SIZE")
           /\ toClient[k] # <<>> => child[k].bufGood
  <2>1. /\ c_state' = AfterSetupReply("ACK_BUFFER_SIZE")
        /\ toClient[k] # <<>> /\ Ready(k)'
    BY <1>5, <1>6
  <2>2. AfterSetupReply("ACK_BUFFER_SIZE") = "SEND_WINDOW_SIZE"
    BY DEF AfterSetupReply
  <2> QED BY <1>0, <1>6, <2>1, <2>2 DEF SettingUp
<1>7. CASE /\ c_state = "WAIT_FOR_SETUP_ACKS" /\ child[k].bufGood
           /\ SetupExchange(k, "WINDOW_SIZE", "RECEIVED_WINDOW_SIZE", "ACK_WINDOW_SIZE")
           /\ toClient[k] # <<>> => child[k].winGood
  <2>1. /\ c_state' = AfterSetupReply("ACK_WINDOW_SIZE")
        /\ toClient[k] # <<>> /\ Ready(k)'
    BY <1>5, <1>7
  <2>2. AfterSetupReply("ACK_WINDOW_SIZE") = "READY_TO_SEND_DATA_SETUP"
    BY DEF AfterSetupReply
  <2> QED BY <1>0, <1>7, <2>1, <2>2 DEF SettingUp
<1>8. CASE /\ c_state = "READY_TO_SEND_DATA_SETUP" /\ Ready(k)
           /\ child[k].bufGood /\ child[k].winGood
  <2>1. ReadyToSendDataSetup
    BY <1>1, <1>8, ClientHandlers
  <2>2. /\ c_win_min' = 0 /\ c_win_cur' = 0 /\ c_win_max' = WinSize /\ c_timeout' = 0
        /\ c_state' = "SEND_DATA" /\ readPos' = 0 /\ doneTransmitting' = FALSE
        /\ Silent(k)'
    BY <1>0, <1>8, <2>1
       DEF ReadyToSendDataSetup, Goto, channelVars, Silent, Ready, ClientSetup
  <2>3. child[k].cur_RRnum = 0
    BY <1>0, <1>8 DEF ChildWindow, ChildSetup, Ready
  <2>4. Awaited(k)' = 1 /\ Taken(k)' = 0 /\ ~HoldsData(k)'
    BY <1>0, <1>8, <2>3 DEF Awaited, Taken, HoldsData, Receiving, Ready
  <2>5. InSequence(<<>>, "DATA", 0, 0) /\ InSequence(<<>>, "RR", 0 + 1, 1)
    BY DEF InSequence
  <2>6. InSequence(toServer[k], "DATA", Taken(k), readPos)'
    BY <2>2, <2>4, <2>5 DEF Silent
  <2>7. InSequence(toClient[k], "RR", c_win_min + 1, Awaited(k))'
    BY <2>2, <2>4, <2>5 DEF Silent
  <2>8. \A i \in Slots : ~(i < 0)
    BY <1>0 DEF Slots
  <2>9. c_win_max' = c_win_min' + WinSize /\ c_win_cur' <= c_win_max' /\ c_win_cur' < c_win_max'
        /\ c_win_min' >= 0
    BY <1>0, <2>2
  <2> QED BY <1>0, <1>8, <2>2, <2>4, <2>6, <2>7, <2>8, <2>9 DEF Flowing, Accepting, Sending, Ready
<1> QED BY <1>3, <1>4, <1>6, <1>7, <1>8 DEF SettingUp

-----------------------------------------------------------------------------
(* The data.                                                               *)

\* A packet that follows a sequence, put behind it, continues it.
LEMMA SequenceGrows ==
    ASSUME NEW q \in Seq(Packets), NEW f, NEW after \in Nat, NEW upto \in Nat,
           InSequence(q, f, after, upto), Len(q) < QueueCap,
           NEW p \in Packets, p.flag = f, p.num = upto + 1
    PROVE  InSequence(Put(q, p), f, after, upto + 1)
<1>1. Put(q, p) = Append(q, p)
  BY DEF Put
<1>2. PICK r : r = Append(q, p)
  OBVIOUS
<1>3. /\ Len(r) = Len(q) + 1 /\ r[Len(q) + 1] = p /\ DOMAIN r = 1 .. Len(q) + 1
      /\ \A i \in 1 .. Len(q) : r[i] = q[i]
  BY <1>2
<1>4. Len(r) = upto + 1 - after
  BY <1>3 DEF InSequence
<1>5. ASSUME NEW i \in DOMAIN r PROVE r[i].flag = f /\ r[i].num = after + i
  <2>1. CASE i \in 1 .. Len(q)
    BY <1>3, <2>1 DEF InSequence
  <2>2. CASE i = Len(q) + 1
    BY <1>3, <2>2 DEF InSequence
  <2> QED BY <1>3, <1>5, <2>1, <2>2
<1> QED BY <1>1, <1>2, <1>4, <1>5 DEF InSequence

\* What is taken from a path that keeps the order is the first of a sequence.
LEMMA SequenceShrinks ==
    ASSUME ~Reorder, NEW q \in Seq(Packets), NEW f, NEW after \in Nat, NEW upto \in Nat,
           InSequence(q, f, after, upto), NEW i \in Deliverable(q)
    PROVE  /\ i = 1 /\ q[i] \in Packets /\ q[i].flag = f /\ q[i].num = after + 1
           /\ InSequence(RemoveAt(q, i), f, after + 1, upto)
<1>1. PICK r : r = RemoveAt(q, i)
  OBVIOUS
<1>2. /\ i = 1 /\ 1 \in DOMAIN q /\ Len(q) >= 1
      /\ Len(r) = Len(q) - 1 /\ DOMAIN r = 1 .. Len(q) - 1
      /\ \A j \in 1 .. Len(q) - 1 : r[j] = q[j + 1]
  BY <1>1, FirstTaken
<1>3. q[1] \in Packets /\ q[1].flag = f /\ q[1].num = after + 1
  BY <1>2 DEF InSequence
<1>4. \A j \in 1 .. Len(q) - 1 : q[j + 1].flag = f /\ q[j + 1].num = after + (j + 1)
  BY DEF InSequence
<1>5. Len(r) = upto - (after + 1)
  BY <1>2 DEF InSequence
<1>6. \A j \in DOMAIN r : r[j].flag = f /\ r[j].num = after + 1 + j
  BY <1>2, <1>4
<1> QED BY <1>1, <1>2, <1>3, <1>5, <1>6 DEF InSequence

\* How the counters of the two sides compare while the data flows.
LEMMA FlowFacts ==
    ASSUME SoundInv, NEW k \in Child, Flowing(k)
    PROVE  /\ Awaited(k) \in Nat /\ Taken(k) \in Nat /\ c_win_min \in Nat
           /\ Taken(k) <= readPos /\ c_win_min + 1 <= Awaited(k)
           /\ HoldsData(k) => Taken(k) = Awaited(k)
           /\ ~HoldsData(k) => Taken(k) = Awaited(k) - 1
           /\ Len(toServer[k]) = readPos - Taken(k)
           /\ Len(toClient[k]) = Awaited(k) - (c_win_min + 1)
           /\ child[k].state \in {"READY_FOR_NEXT_SETUP_PACKET", "READY_FOR_DATA_PACKETS_SETUP",
                                  "RECEIVED_DATA", "READY_FOR_NEXT_DATA_PACKET"}
           /\ c_state \in {"SEND_DATA", "RECEIVE_DATA_WINDOW_OPEN", "RECEIVE_DATA_WINDOW_CLOSED"}
           /\ ~ClientDone /\ c_state \in ClientData
           /\ cur_packet_num = readPos + 1
           /\ readPos <= c_win_min + WinSize
           /\ WinSize \in Nat /\ WinSize > 0
<1>0. /\ child[k] \in ChildTypes /\ ChildWindow(child[k]) /\ c_win_min \in Int /\ readPos \in Nat
      /\ c_state \in ClientData => cur_packet_num = readPos + 1
      /\ WinSize \in Nat \ {0} /\ c_win_max \in Int /\ c_win_cur \in Nat
      /\ toServer[k] \in Seq(Packets) /\ toClient[k] \in Seq(Packets)
  BY CleanFacts, RcopyAssumption DEF RcopyAssumption
<1>1. /\ child[k].state \in {"READY_FOR_NEXT_SETUP_PACKET", "READY_FOR_DATA_PACKETS_SETUP",
                             "RECEIVED_DATA", "READY_FOR_NEXT_DATA_PACKET"}
      /\ c_state \in {"SEND_DATA", "RECEIVE_DATA_WINDOW_OPEN", "RECEIVE_DATA_WINDOW_CLOSED"}
      /\ c_win_min \in Nat
  BY <1>0 DEF Flowing, Accepting, Sending
<1>2. ~ClientDone /\ c_state \in ClientData
  BY <1>1 DEF ClientDone, ClientData
<1>3. Awaited(k) \in Nat /\ Awaited(k) >= 1
  BY <1>0 DEF Awaited, Receiving, ChildTypes
<1>4. /\ HoldsData(k) => Taken(k) = Awaited(k)
      /\ ~HoldsData(k) => Taken(k) = Awaited(k) - 1
      /\ Taken(k) \in Nat
  BY <1>3 DEF Taken
<1>5. Len(toServer[k]) = readPos - Taken(k) /\ Len(toClient[k]) = Awaited(k) - (c_win_min + 1)
  BY DEF Flowing, InSequence
<1>6. Len(toServer[k]) \in Nat /\ Len(toClient[k]) \in Nat
  BY <1>0
<1>7. Taken(k) <= readPos /\ c_win_min + 1 <= Awaited(k)
  BY <1>0, <1>1, <1>3, <1>4, <1>5, <1>6
<1>8. readPos <= c_win_min + WinSize
  BY DEF Flowing, Sending
<1> QED BY <1>0, <1>1, <1>2, <1>3, <1>4, <1>5, <1>7, <1>8

\* A child that has accepted something is past its setup.
LEMMA PastSetup ==
    ASSUME SoundInv, NEW k \in Child, Flowing(k), Awaited(k) > 1, ~HoldsData(k)
    PROVE  child[k].state = "READY_FOR_NEXT_DATA_PACKET" /\ child[k].cur_RRnum = Awaited(k)
<1>1. child[k] \in ChildTypes /\ ChildWindow(child[k])
  BY CleanFacts
<1>2. child[k].cur_RRnum > 0 /\ child[k].cur_RRnum = Awaited(k)
  BY <1>1 DEF Awaited, Receiving, ChildTypes
<1>3. child[k].state # "READY_FOR_NEXT_SETUP_PACKET"
  BY <1>1, <1>2 DEF ChildWindow, ChildSetup
<1> QED BY <1>2, <1>3, FlowFacts DEF HoldsData

\* While nothing is missing, nothing is buffered behind the packet that is accepted.
LEMMA NoRunBehind ==
    ASSUME TransferInv, NEW k \in Child, child[k].state = "RECEIVED_DATA", NothingMissing(k)
    PROVE  RunBehind(k) = 0 /\ ~are_packets_buffered(Flushed(child[k].window, RunSlots(k)))
<1>1. /\ child[k].win_size = WinSize /\ child[k].cur_RRnum \in Nat
      /\ WinSize \in Nat \ {0}
  BY RunChunksType, RcopyAssumption DEF TransferInv, WindowInv, RcopyAssumption
<1>2. /\ RunBehind(k) \in 0 .. WinSize
      /\ \A j \in 0 .. RunBehind(k) - 1 :
           child[k].window[(child[k].cur_RRnum + j) % WinSize] # NoPacket
  BY <1>1, RunBehindType
<1>3. (child[k].cur_RRnum + 0) % WinSize \in Slots
  BY <1>1, SlotType
<1>4. \A i \in Slots : child[k].window[i] = NoPacket
  BY DEF NothingMissing, are_packets_buffered
<1>5. RunBehind(k) = 0
  <2>1. PICK n \in Nat : n = RunBehind(k)
    BY <1>1, <1>2
  <2>2. ~(0 \in 0 .. n - 1)
    BY <1>2, <1>3, <1>4, <2>1
  <2> QED BY <2>1, <2>2
<1>6. \A i \in Slots : Flushed(child[k].window, RunSlots(k))[i] = NoPacket
  BY <1>4 DEF Flushed
<1> QED BY <1>5, <1>6 DEF are_packets_buffered

\* The packet that is awaited, accepted while nothing is missing, is acknowledged.
LEMMA AwaitedAccepted ==
    ASSUME TransferInv, NEW k \in Child, child[k].state = "RECEIVED_DATA", NothingMissing(k),
           child[k].recvPacket.num = child[k].cur_RRnum, ChildStep(k)
    PROVE  /\ \E p \in Packets : /\ Respond(k, p) /\ p # NoPacket
                                 /\ p.flag = "RR" /\ p.num = child[k].cur_RRnum + 1
           /\ child'[k].state = "READY_FOR_NEXT_DATA_PACKET"
           /\ child'[k].cur_RRnum = child[k].cur_RRnum + 1
           /\ NothingMissing(k)'
<1>1. /\ child \in [Child -> ChildTypes] /\ child[k] \in ChildTypes
      /\ child[k].cur_RRnum \in Nat /\ WireInv
  BY UploadTypes DEF TransferInv, WindowInv, ChildTypes
<1>2. RunBehind(k) = 0 /\ ~are_packets_buffered(Flushed(child[k].window, RunSlots(k)))
  BY NoRunBehind
<1>3. PICK srej \in BOOLEAN : srej = FALSE
  OBVIOUS
<1>4. AcceptData(k, srej)
  <2>1. ~AnswersSREJ(k)
    BY DEF NothingMissing, AnswersSREJ
  <2>2. HandleExpectedPacketNumber(k)
    <3>1. /\ ~(child[k].recvPacket.num < child[k].cur_RRnum)
          /\ ~(child[k].recvPacket.num > child[k].cur_RRnum)
      BY <1>1
    <3>2. ~HandleExpectedSREJPacket(k)
      BY <2>1 DEF HandleExpectedSREJPacket
    <3>3. ~HandleClientRecovery(k)
      BY <3>1 DEF HandleClientRecovery
    <3>4. ~BufferPacket(k)
      BY <3>1 DEF BufferPacket
    <3> QED BY <3>2, <3>3, <3>4, ChildHandlers
  <2>3. child[k].has_SREJ = srej
    BY <1>1, <1>3 DEF NothingMissing, ChildTypes
  <2> QED BY <2>2, <2>3 DEF HandleExpectedPacketNumber, AcceptData, Respond, Transmit
<1>5. PICK next \in Nat : next = child[k].cur_RRnum + (1 + RunBehind(k))
  BY <1>1, <1>2
<1>6. PICK w : w = Flushed(child[k].window, RunSlots(k))
  OBVIOUS
<1>7. \E p \in Packets : /\ Respond(k, p) /\ p # NoPacket
                          /\ p.flag = "RR" /\ p.num = next
  <2>1. PICK reply : reply = RRorSREJ(next, next, w, srej)
    OBVIOUS
  <2>2. Respond(k, reply)
    BY <1>4, <1>5, <1>6, <2>1 DEF AcceptData, Respond, Transmit
  <2>3. reply = Control("RR", next)
    BY <1>2, <1>6, <2>1 DEF RRorSREJ
  <2>4. reply \in Packets /\ reply # NoPacket /\ reply.flag = "RR" /\ reply.num = next
    BY <2>3, ControlType DEF Flags, ReplyFlags, Control, Packet, NoPacket
  <2> QED BY <2>2, <2>4
<1>8. PICK written : Become(k, Accepted(k, srej, written))
  BY <1>1, <1>4, AcceptFacts
<1>9. PICK r : r = Accepted(k, srej, written)
  OBVIOUS
<1>10. /\ r.state = "READY_FOR_NEXT_DATA_PACKET" /\ r.cur_RRnum = next
       /\ ~r.has_SREJ /\ r.window = w
  BY <1>1, <1>3, <1>5, <1>6, <1>9 DEF Accepted, ChildTypes
<1>11. child'[k] = r
  <2>1. Become(k, r)
    BY <1>8, <1>9
  <2> QED BY <1>1, <2>1, BecomeType
<1>12. next = child[k].cur_RRnum + 1
  BY <1>1, <1>2, <1>5
<1>13. NothingMissing(k)'
  BY <1>2, <1>6, <1>10, <1>11 DEF NothingMissing, are_packets_buffered
<1> QED BY <1>7, <1>10, <1>11, <1>12, <1>13

\* A child that takes, opens or accepts the next packet of the flow.
LEMMA FlowingServed ==
    ASSUME CleanSetting, SoundInv, NEW k \in Child, Known(k), Flowing(k), ChildNext(k), faults' = 0
    PROVE  Flowing(k)'
<1>0. /\ child \in [Child -> ChildTypes] /\ child[k] \in ChildTypes /\ ChildWindow(child[k])
      /\ toServer \in [Server -> Seq(Packets)] /\ toClient \in [Child -> Seq(Packets)]
      /\ toServer[k] \in Seq(Packets) /\ toClient[k] \in Seq(Packets)
      /\ readPos \in Nat /\ faults \in Nat /\ TransferInv /\ k \in Server
  BY CleanFacts DEF SoundInv
<1>1. /\ Awaited(k) \in Nat /\ Taken(k) \in Nat /\ c_win_min \in Nat
      /\ Taken(k) <= readPos /\ c_win_min + 1 <= Awaited(k)
      /\ HoldsData(k) => Taken(k) = Awaited(k)
      /\ ~HoldsData(k) => Taken(k) = Awaited(k) - 1
      /\ Len(toClient[k]) = Awaited(k) - (c_win_min + 1)
      /\ readPos <= c_win_min + WinSize
      /\ WinSize \in Nat /\ WinSize > 0
  BY FlowFacts
<1>2. ChildStep(k)
  BY NoGivingUp, FlowFacts DEF CleanSetting
<1>3. /\ Sending' /\ readPos' = readPos /\ c_win_min' = c_win_min
  BY DEF ChildNext, rcopyVars, sendVars, windowVars, Flowing, Sending, isWindowClosed
<1>9. \A i \in Deliverable(toServer[k]) :
        /\ i = 1 /\ toServer[k][i].flag = "DATA" /\ toServer[k][i].num = Taken(k) + 1
        /\ InSequence(RemoveAt(toServer[k], i), "DATA", Taken(k) + 1, readPos)
  <2>1. PICK q \in Seq(Packets) : q = toServer[k]
    BY <1>0
  <2>2. PICK t \in Nat : t = Taken(k)
    BY <1>1
  <2>4. PICK f : f = "DATA"
    OBVIOUS
  <2>5. InSequence(q, f, t, readPos) /\ ~Reorder
    BY <2>1, <2>2, <2>4 DEF Flowing, CleanSetting
  <2>3. ASSUME NEW i \in Deliverable(q)
        PROVE  /\ i = 1 /\ q[i].flag = f /\ q[i].num = t + 1
               /\ InSequence(RemoveAt(q, i), f, t + 1, readPos)
    BY <1>0, <2>3, <2>5, SequenceShrinks
  <2> QED BY <2>1, <2>2, <2>3, <2>4
<1>4. ASSUME NEW i \in Deliverable(toServer[k]), NEW st \in {"RECEIVED_DATA", "READY_FOR_DATA_PACKETS_SETUP"},
             Takes(k, i, st), ~HoldsData(k),
             st = "RECEIVED_DATA" => NothingMissing(k)
      PROVE  Flowing(k)'
  <2>1. /\ i = 1 /\ toServer[k][i].num = Taken(k) + 1
        /\ InSequence(RemoveAt(toServer[k], i), "DATA", Taken(k) + 1, readPos)
    BY <1>4, <1>9
  <2>2. /\ toServer'[k] = RemoveAt(toServer[k], i) /\ toClient' = toClient
    BY <1>0, <1>4 DEF Takes, RecvFromClient, Take
  <2>3. child'[k].state = st /\ KeepsPlace(k)
    BY <1>4 DEF Takes, Enters
  <2>4. child'[k].recvPacket = toServer[k][i]
    BY <1>4 DEF Takes, HoldsData
  <2>5. Awaited(k)' = Awaited(k) /\ HoldsData(k)' /\ Taken(k)' = Taken(k) + 1
    BY <1>1, <1>4, <2>3 DEF Awaited, Taken, Receiving, HoldsData, KeepsPlace
  <2>6. st = "RECEIVED_DATA" => NothingMissing(k)'
    BY <1>4, <2>3 DEF NothingMissing, KeepsPlace, are_packets_buffered
  <2>7. child'[k].recvPacket.num = Awaited(k)'
    BY <1>1, <1>4, <2>1, <2>4, <2>5
  <2>8. InSequence(toServer[k], "DATA", Taken(k), readPos)'
    BY <1>3, <2>1, <2>2, <2>5
  <2>9. InSequence(toClient[k], "RR", c_win_min + 1, Awaited(k))'
    BY <1>3, <2>2, <2>5 DEF Flowing
  <2>10. Accepting(k)'
    BY <2>3, <2>6, <2>7 DEF Accepting
  <2> QED BY <1>3, <2>8, <2>9, <2>10 DEF Flowing
<1>5. CASE child[k].state = "READY_FOR_NEXT_SETUP_PACKET"
  <2>1. PICK i \in Deliverable(toServer[k]) : Takes(k, i, SetupHandler(k, toServer[k][i].flag))
    BY <1>0, <1>2, <1>5, ChildHandlers, PacketTaken
  <2>2. toServer[k][i].flag = "DATA"
    BY <1>9
  <2>3. child[k].fileGood /\ child[k].bufGood /\ child[k].winGood
    BY <1>5 DEF Flowing, Accepting
  <2>4. SetupHandler(k, toServer[k][i].flag) = "READY_FOR_DATA_PACKETS_SETUP"
    BY <2>2, <2>3 DEF SetupHandler
  <2> QED BY <1>4, <1>5, <2>1, <2>4 DEF HoldsData
<1>6. CASE child[k].state = "READY_FOR_NEXT_DATA_PACKET"
  <2>1. PICK i \in Deliverable(toServer[k]) : Takes(k, i, DataHandler(toServer[k][i].flag))
    BY <1>0, <1>2, <1>6, ChildHandlers, PacketTaken
  <2>2. toServer[k][i].flag = "DATA"
    BY <1>9
  <2>3. DataHandler(toServer[k][i].flag) = "RECEIVED_DATA"
    BY <2>2 DEF DataHandler
  <2>4. NothingMissing(k)
    BY <1>6 DEF Flowing, Accepting
  <2> QED BY <1>4, <1>6, <2>1, <2>3, <2>4 DEF HoldsData
<1>7. CASE child[k].state = "READY_FOR_DATA_PACKETS_SETUP"
  <2>1. ReadyForDataPacketSetup(k)
    BY <1>2, <1>7, ChildHandlers
  <2>2. /\ child'[k].state = "RECEIVED_DATA" /\ UNCHANGED channelVars
        /\ child'[k].recvPacket = child[k].recvPacket
        /\ child'[k].cur_RRnum = 1 /\ NothingMissing(k)'
    BY <1>0, <2>1, DataHandled DEF Enters
  <2>3. child[k].cur_RRnum = 0
    BY <1>0, <1>7 DEF ChildWindow, ChildSetup
  <2>4. Awaited(k) = 1 /\ Awaited(k)' = 1
    BY <2>2, <2>3 DEF Awaited, Receiving
  <2>5. HoldsData(k) /\ HoldsData(k)' /\ Taken(k)' = Taken(k)
    BY <1>7, <2>2, <2>4 DEF HoldsData, Taken
  <2>6. Accepting(k)'
    BY <2>2, <2>4, <2>5 DEF Flowing, Accepting
  <2> QED BY <1>3, <2>2, <2>4, <2>5, <2>6 DEF Flowing, channelVars
<1>8. CASE child[k].state = "RECEIVED_DATA"
  <2>1. child[k].cur_RRnum \in Nat /\ child[k].cur_RRnum > 0
    BY <1>0, <1>8 DEF ChildWindow, ChildData, ChildTypes
  <2>2. Awaited(k) = child[k].cur_RRnum /\ HoldsData(k) /\ NothingMissing(k)
    BY <1>8, <2>1 DEF Flowing, Accepting, Awaited, Receiving, HoldsData
  <2>3. child[k].recvPacket.num = child[k].cur_RRnum
    BY <2>2 DEF Flowing, Accepting
  <2>4. /\ \E p \in Packets : /\ Respond(k, p) /\ p # NoPacket
                             /\ p.flag = "RR" /\ p.num = child[k].cur_RRnum + 1
        /\ child'[k].state = "READY_FOR_NEXT_DATA_PACKET"
        /\ child'[k].cur_RRnum = child[k].cur_RRnum + 1
        /\ NothingMissing(k)'
    BY <1>0, <1>2, <1>8, <2>2, <2>3, AwaitedAccepted
  <2>5. Awaited(k)' = Awaited(k) + 1 /\ ~HoldsData(k)'
    BY <2>1, <2>2, <2>4 DEF Awaited, Receiving, HoldsData
  <2>6. Taken(k)' = Taken(k)
    BY <1>1, <2>2, <2>5 DEF Taken
  <2>7. PICK p \in Packets : /\ Respond(k, p) /\ p # NoPacket
                             /\ p.flag = "RR" /\ p.num = Awaited(k) + 1
    BY <2>2, <2>4
  <2>8. toClient' = [toClient EXCEPT ![k] = Put(@, p)] /\ toServer' = toServer
    BY <1>0, <2>7, RespondsFaultless
  <2>9. Len(toClient[k]) < QueueCap
    <3>1. QueueCap \in Nat /\ WinSize <= QueueCap
      BY ChannelAssumption, <1>1 DEF ChannelAssumption, CleanSetting
    <3>2. Len(toClient[k]) <= WinSize - 1
      BY <1>0, <1>1, <2>2
    <3> QED BY <1>0, <1>1, <3>1, <3>2
  <2>10. InSequence(Put(toClient[k], p), "RR", c_win_min + 1, Awaited(k) + 1)
    <3>1. PICK after \in Nat : after = c_win_min + 1
      BY <1>1
    <3>2. InSequence(toClient[k], "RR", after, Awaited(k))
      BY <3>1 DEF Flowing
    <3> QED BY <1>0, <1>1, <2>7, <2>9, <3>1, <3>2, SequenceGrows
  <2>11. InSequence(toClient[k], "RR", c_win_min + 1, Awaited(k))'
    BY <1>0, <1>3, <2>5, <2>8, <2>10
  <2>12. InSequence(toServer[k], "DATA", Taken(k), readPos)'
    BY <1>3, <2>6, <2>8 DEF Flowing
  <2>13. Accepting(k)'
    BY <2>4, <2>5 DEF Accepting
  <2> QED BY <1>3, <2>11, <2>12, <2>13 DEF Flowing
<1> QED BY <1>5, <1>6, <1>7, <1>8, FlowFacts

\* rcopy hears the first acknowledgement of the flow: its window slides by one packet,
\* and it reads on or, after the last one, announces the end.
LEMMA FlowingHears ==
    ASSUME CleanSetting, SoundInv, NEW k \in Child, ServedBy(k), Known(k), Flowing(k),
           UNCHANGED serverVars, ReceiveDataWindowOpen \/ ReceiveDataWindowClosed
    PROVE  Flowing(k)' \/ Ending(k)'
<1>0. /\ child' = child /\ readPos \in Nat /\ c_win_cur \in Nat /\ c_win_max \in Int
      /\ toServer[k] \in Seq(Packets) /\ toClient[k] \in Seq(Packets)
      /\ toClient \in [Child -> Seq(Packets)]
      /\ doneTransmitting => readPos = Len(LocalFile)
  BY CleanFacts DEF serverVars
<1>1. /\ Awaited(k) \in Nat /\ Taken(k) \in Nat /\ c_win_min \in Nat
      /\ Taken(k) <= readPos /\ c_win_min + 1 <= Awaited(k)
      /\ HoldsData(k) => Taken(k) = Awaited(k)
      /\ ~HoldsData(k) => Taken(k) = Awaited(k) - 1
      /\ Len(toServer[k]) = readPos - Taken(k)
      /\ Len(toClient[k]) = Awaited(k) - (c_win_min + 1)
      /\ cur_packet_num = readPos + 1
      /\ WinSize \in Nat /\ WinSize > 0
      /\ c_state \in {"SEND_DATA", "RECEIVE_DATA_WINDOW_OPEN", "RECEIVE_DATA_WINDOW_CLOSED"}
  BY FlowFacts
<1>2. PICK i \in Deliverable(toClient[k]) :
        /\ RecvFromServer(k, i)
        /\ ProcessIncomingData(toClient[k][i])
        /\ c_timeout' = 0 /\ UNCHANGED sendVars
  BY HeardFrom DEF ReceiveDataWindowOpen, ReceiveDataWindowClosed, ReceiveData
<1>3. /\ i = 1 /\ toClient[k][i].flag = "RR" /\ toClient[k][i].num = c_win_min + 2
      /\ InSequence(RemoveAt(toClient[k], i), "RR", c_win_min + 2, Awaited(k))
  <2>1. PICK q \in Seq(Packets) : q = toClient[k]
    BY <1>0
  <2>2. PICK after \in Nat : after = c_win_min + 1
    BY <1>1
  <2>3. PICK f : f = "RR"
    OBVIOUS
  <2>4. InSequence(q, f, after, Awaited(k)) /\ ~Reorder
    BY <2>1, <2>2, <2>3 DEF Flowing, CleanSetting
  <2>5. ASSUME NEW j \in Deliverable(q)
        PROVE  /\ j = 1 /\ q[j].flag = f /\ q[j].num = after + 1
               /\ InSequence(RemoveAt(q, j), f, after + 1, Awaited(k))
    BY <1>1, <2>4, <2>5, SequenceShrinks
  <2>6. after + 1 = c_win_min + 2
    BY <1>1, <2>2
  <2> QED BY <1>2, <2>1, <2>2, <2>3, <2>5, <2>6
<1>4. toClient'[k] = RemoveAt(toClient[k], i) /\ toServer' = toServer
  BY <1>0, <1>2 DEF RecvFromServer, Take
<1>5. /\ c_win_min' = c_win_min + 1 /\ c_win_max' = c_win_min + 1 + WinSize
      /\ c_state' = AfterRR(c_win_min + 2)
  BY <1>1, <1>2, <1>3 DEF ProcessIncomingData, Goto
<1>6. /\ readPos' = readPos /\ c_win_cur' = c_win_cur /\ c_window' = c_window
      /\ doneTransmitting' = doneTransmitting
  BY <1>2 DEF sendVars
<1>7. Awaited(k)' = Awaited(k) /\ Taken(k)' = Taken(k) /\ (HoldsData(k)' <=> HoldsData(k))
  BY <1>0 DEF Awaited, Taken, HoldsData, Receiving
<1>8. CASE c_state' = "SEND_DATA"
  <2>1. InSequence(toClient[k], "RR", c_win_min + 1, Awaited(k))'
    <3>1. c_win_min' + 1 = c_win_min + 2
      BY <1>1, <1>5
    <3> QED BY <1>3, <1>4, <1>7, <3>1
  <2>2. InSequence(toServer[k], "DATA", Taken(k), readPos)'
    BY <1>4, <1>6, <1>7 DEF Flowing
  <2>3. Accepting(k)'
    BY <1>0, <1>7 DEF Flowing, Accepting, NothingMissing
  <2>4. /\ c_win_min' >= 0 /\ c_win_max' = c_win_min' + WinSize
        /\ c_win_cur' = readPos' /\ c_win_cur' < c_win_max' /\ c_win_cur' <= c_win_max'
    BY <1>0, <1>1, <1>5, <1>6 DEF Flowing, Sending
  <2>5. \A j \in Slots : j < readPos' => c_window'[j] # NoPacket
    BY <1>6 DEF Flowing, Sending
  <2>6. Sending'
    BY <1>2, <1>8, <2>4, <2>5 DEF Sending
  <2> QED BY <2>1, <2>2, <2>3, <2>6 DEF Flowing
<1>9. CASE c_state' # "SEND_DATA"
  <2>1. doneTransmitting /\ c_win_min + 2 = readPos + 1 /\ c_state' = "SEND_EOF_AND_QUIT"
    BY <1>1, <1>5, <1>9 DEF AfterRR
  <2>2. Len(toClient[k]) >= 1
    BY <1>0, <1>2 DEF Deliverable
  <2>3. /\ Awaited(k) = readPos + 1 /\ Taken(k) = readPos /\ Awaited(k) > 1
        /\ Len(toServer[k]) = 0 /\ Len(toClient[k]) = 1
    BY <1>0, <1>1, <2>1, <2>2
  <2>4. ~HoldsData(k)
    BY <1>1, <2>3
  <2>5. child[k].state = "READY_FOR_NEXT_DATA_PACKET"
    BY <2>3, <2>4, PastSetup
  <2>6. RemoveAt(toClient[k], i) = <<>>
    BY <1>0, <1>2, <2>3, LoneTaken
  <2>7. Silent(k)'
    BY <1>0, <1>4, <2>3, <2>6 DEF Silent
  <2> QED BY <1>0, <2>1, <2>5, <2>7 DEF Ending
<1> QED BY <1>8, <1>9

\* rcopy sends the next packet.
LEMMA FlowingSends ==
    ASSUME CleanSetting, SoundInv, NEW k \in Child, ServedBy(k), Known(k), Flowing(k),
           UNCHANGED serverVars, SendData, faults' = 0
    PROVE  Flowing(k)'
<1>0. /\ child' = child /\ readPos \in Nat /\ c_win_cur \in Nat /\ c_win_max \in Int
      /\ toServer \in [Server -> Seq(Packets)] /\ toServer[k] \in Seq(Packets)
      /\ faults \in Nat /\ k \in Server /\ remote = k
      /\ c_window \in [Slots -> OwnPacket \cup {NoPacket}]
      /\ LocalFile \in Seq(Chunk) /\ doneTransmitting \in BOOLEAN
  BY CleanFacts, FileType DEF serverVars, Known
<1>1. /\ Awaited(k) \in Nat /\ Taken(k) \in Nat /\ c_win_min \in Nat
      /\ Taken(k) <= readPos /\ c_win_min + 1 <= Awaited(k)
      /\ HoldsData(k) => Taken(k) = Awaited(k)
      /\ ~HoldsData(k) => Taken(k) = Awaited(k) - 1
      /\ Len(toServer[k]) = readPos - Taken(k)
      /\ cur_packet_num = readPos + 1
      /\ WinSize \in Nat /\ WinSize > 0
  BY FlowFacts
<1>2. PICK p : p = Packet("DATA", cur_packet_num, LocalFile[readPos + 1])
  OBVIOUS
<1>3. /\ c_state = "SEND_DATA" /\ readPos < Len(LocalFile) /\ SendToServer(p)
      /\ c_window' = [c_window EXCEPT ![c_win_cur % WinSize] = p]
      /\ c_win_cur' = c_win_cur + 1 /\ readPos' = readPos + 1
      /\ c_state' = AfterSend(c_win_cur + 1)
      /\ UNCHANGED <<c_timeout, doneTransmitting, windowVars>>
  BY <1>2 DEF SendData, SendToServer, Transmit, Goto
<1>4. p \in Packets /\ p.flag = "DATA" /\ p.num = readPos + 1 /\ p # NoPacket
  <2>1. LocalFile[readPos + 1] \in Chunk
    BY <1>0, <1>3
  <2> QED BY <1>0, <1>1, <1>2, <2>1 DEF Packet, Packets, Flags, NoPacket
<1>5. toServer' = [toServer EXCEPT ![k] = Put(@, p)] /\ toClient' = toClient
  BY <1>0, <1>3, SendsFaultless
<1>6. c_win_cur = readPos /\ c_win_cur < c_win_max /\ c_win_max = c_win_min + WinSize
  BY <1>3 DEF Flowing, Sending
<1>7. Len(toServer[k]) < QueueCap
  <2>1. QueueCap \in Nat /\ WinSize <= QueueCap
    BY ChannelAssumption, <1>1 DEF ChannelAssumption, CleanSetting
  <2>2. Len(toServer[k]) < WinSize
    BY <1>0, <1>1, <1>6
  <2> QED BY <1>0, <1>1, <2>1, <2>2
<1>8. InSequence(Put(toServer[k], p), "DATA", Taken(k), readPos + 1)
  <2>1. InSequence(toServer[k], "DATA", Taken(k), readPos)
    BY DEF Flowing
  <2> QED BY <1>0, <1>1, <1>4, <1>7, <2>1, SequenceGrows
<1>9. Awaited(k)' = Awaited(k) /\ Taken(k)' = Taken(k) /\ (HoldsData(k)' <=> HoldsData(k))
  BY <1>0 DEF Awaited, Taken, HoldsData, Receiving
<1>10. InSequence(toServer[k], "DATA", Taken(k), readPos)'
  BY <1>0, <1>3, <1>5, <1>8, <1>9
<1>11. InSequence(toClient[k], "RR", c_win_min + 1, Awaited(k))'
  BY <1>3, <1>5, <1>9 DEF Flowing, windowVars
<1>12. Accepting(k)'
  BY <1>0, <1>9 DEF Flowing, Accepting, NothingMissing
<1>13. \A i \in Slots : i < readPos' => c_window'[i] # NoPacket
  <2>1. SUFFICES ASSUME NEW i \in Slots, i < readPos + 1
                 PROVE  c_window'[i] # NoPacket
    BY <1>3
  <2>2. CASE i < readPos
    BY <1>0, <1>3, <1>4, <2>2 DEF Flowing, Sending
  <2>3. CASE i = readPos
    <3>1. i % WinSize = i
      BY <1>1 DEF Slots
    <3> QED BY <1>0, <1>3, <1>4, <1>6, <2>3, <3>1
  <2> QED BY <1>0, <1>1, <2>1, <2>2, <2>3 DEF Slots
<1>14. Sending'
  <2>1. /\ c_win_min' = c_win_min /\ c_win_max' = c_win_max /\ c_timeout' = 0
        /\ c_win_cur' = readPos' /\ c_win_cur' <= c_win_max' /\ c_win_min' >= 0
        /\ c_win_max' = c_win_min' + WinSize
    BY <1>0, <1>1, <1>3, <1>6 DEF windowVars, Flowing, Sending
  <2>2. LET closed == isWindowClosed(doneTransmitting', c_win_cur', c_win_max') IN
        \/ c_state' = "RECEIVE_DATA_WINDOW_OPEN" /\ ~closed
        \/ c_state' = "RECEIVE_DATA_WINDOW_CLOSED" /\ closed
    BY <1>3, <2>1 DEF AfterSend
  <2> QED BY <1>13, <2>1, <2>2 DEF Sending, isWindowClosed
<1> QED BY <1>10, <1>11, <1>12, <1>14 DEF Flowing

\* When all is silent while the data flows, all has been read and acknowledged.
LEMMA SilenceAfterAll ==
    ASSUME SoundInv, NEW k \in Child, ServedBy(k), Known(k), Flowing(k), Quiet,
           c_state = "RECEIVE_DATA_WINDOW_CLOSED", CleanSetting
    PROVE  /\ doneTransmitting /\ readPos = Len(LocalFile) /\ Complete(k) /\ Silent(k)
           /\ c_win_min = Len(LocalFile)
           /\ child[k].state = "READY_FOR_NEXT_DATA_PACKET" /\ NothingMissing(k)
<1>0. /\ readPos \in Nat /\ Len(LocalFile) \in Nat
      /\ toServer[k] \in Seq(Packets) /\ toClient[k] \in Seq(Packets)
      /\ doneTransmitting => readPos = Len(LocalFile)
  BY CleanFacts, FileType
<1>1. /\ Awaited(k) \in Nat /\ Taken(k) \in Nat /\ c_win_min \in Nat
      /\ Taken(k) <= readPos /\ c_win_min + 1 <= Awaited(k)
      /\ ~HoldsData(k) => Taken(k) = Awaited(k) - 1
      /\ Len(toServer[k]) = readPos - Taken(k)
      /\ Len(toClient[k]) = Awaited(k) - (c_win_min + 1)
      /\ WinSize \in Nat /\ WinSize > 0
      /\ child[k].state \in {"READY_FOR_NEXT_SETUP_PACKET", "READY_FOR_DATA_PACKETS_SETUP",
                             "RECEIVED_DATA", "READY_FOR_NEXT_DATA_PACKET"}
  BY FlowFacts
<1>2. /\ child[k].state \in {"READY_FOR_NEXT_SETUP_PACKET", "READY_FOR_NEXT_DATA_PACKET"}
      /\ Silent(k)
  BY <1>1 DEF Quiet, Silent, Exited
<1>3. ~HoldsData(k)
  BY <1>2 DEF HoldsData
<1>4. c_win_min = readPos /\ Awaited(k) = readPos + 1
  BY <1>0, <1>1, <1>2, <1>3 DEF Silent
<1>5. doneTransmitting
  <2>1. isWindowClosed(doneTransmitting, c_win_cur, c_win_max) /\ c_win_cur = readPos
        /\ c_win_max = c_win_min + WinSize
    BY DEF Flowing, Sending
  <2> QED BY <1>0, <1>1, <1>4, <2>1 DEF isWindowClosed
<1>6. readPos = Len(LocalFile) /\ Awaited(k) > 1
  BY <1>0, <1>1, <1>4, <1>5 DEF CleanSetting
<1>7. child[k].state = "READY_FOR_NEXT_DATA_PACKET" /\ child[k].cur_RRnum = Awaited(k)
  BY <1>3, <1>6, PastSetup
<1>8. NothingMissing(k)
  BY <1>7 DEF Flowing, Accepting
<1> QED BY <1>2, <1>4, <1>5, <1>6, <1>7, <1>8 DEF Complete

\* Then rcopy resends a packet of the last window, to be told so again.
LEMMA FlowingReminds ==
    ASSUME CleanSetting, SoundInv, NEW k \in Child, ServedBy(k), Known(k), Flowing(k),
           UNCHANGED serverVars, Quiet, RcopyTimeout, faults' = 0
    PROVE  Reminding(k)'
<1>1. c_state = "RECEIVE_DATA_WINDOW_CLOSED" /\ ReceiveDataWindowClosedTimeout
  BY ClientTimeouts, FlowFacts
<1>2. /\ doneTransmitting /\ readPos = Len(LocalFile) /\ Complete(k) /\ Silent(k)
      /\ c_win_min = Len(LocalFile)
      /\ child[k].state = "READY_FOR_NEXT_DATA_PACKET" /\ NothingMissing(k)
  BY <1>1, SilenceAfterAll
<1>3. /\ child' = child /\ remote = k /\ c_window \in [Slots -> OwnPacket \cup {NoPacket}]
      /\ MaxTimeouts \in Nat /\ WinSize \in Nat \ {0} /\ c_win_min \in Int
      /\ readPos \in Nat /\ readPos >= WinSize
  BY <1>2, CleanFacts, RcopyAssumption DEF serverVars, Known, CleanSetting, RcopyAssumption
<1>4. c_timeout = 0
  BY DEF Flowing, Sending
<1>5. /\ SendDataFromWindow(c_win_min) /\ UNCHANGED sendVars
  <2>1. ~(0 + 1 > MaxTimeouts)
    BY <1>3 DEF CleanSetting
  <2>2. c_timeout' = 0 + 1
    BY <1>1, <1>4 DEF ReceiveDataWindowClosedTimeout
  <2> QED BY <1>1, <2>1, <2>2 DEF ReceiveDataWindowClosedTimeout
<1>6. c_win_min % WinSize \in Slots
  BY <1>3, SlotType
<1>7. PICK p \in OwnPacket : p = c_window[c_win_min % WinSize] /\ p # NoPacket
  <2>1. \A i \in Slots : i < readPos
    BY <1>3 DEF Slots
  <2>2. \A i \in Slots : c_window[i] # NoPacket
    BY <2>1 DEF Flowing, Sending
  <2> QED BY <1>3, <1>6, <2>2
<1>8. SendToServer(p) /\ c_state' = AfterSend(c_win_cur)
  BY <1>5, <1>7 DEF SendDataFromWindow, SendToServer, Transmit, Goto
<1>9. p \in Packets /\ p.flag = "DATA"
  BY DEF OwnPacket, Genuine
<1>10. Lone(toServer'[k], "DATA") /\ toClient'[k] = <<>>
  BY <1>2, <1>3, <1>8, <1>9, Asks
<1>11. c_state' = "RECEIVE_DATA_WINDOW_CLOSED" /\ doneTransmitting' /\ c_win_min' = c_win_min
  BY <1>1, <1>2, <1>5, <1>8
     DEF AfterSend, isWindowClosed, sendVars, windowVars, ReceiveDataWindowClosedTimeout
<1> QED BY <1>2, <1>3, <1>10, <1>11 DEF Reminding, Exchange, Complete, NothingMissing

\* rcopy while the data flows.
LEMMA FlowingAsks ==
    ASSUME CleanSetting, SoundInv, NEW k \in Child, ServedBy(k), Known(k), Flowing(k),
           ClientNext, faults' = 0
    PROVE  Flowing(k)' \/ Reminding(k)' \/ Ending(k)'
<1>0. UNCHANGED serverVars /\ child' = child
  BY DEF ClientNext, serverVars
<1>1. c_state \in {"SEND_DATA", "RECEIVE_DATA_WINDOW_OPEN", "RECEIVE_DATA_WINDOW_CLOSED"}
  BY FlowFacts
<1>2. CASE ~RcopyStep
  <2>1. Quiet /\ RcopyTimeout
    BY <1>2 DEF ClientNext, CleanSetting
  <2> QED BY <1>0, <2>1, FlowingReminds
<1>3. CASE RcopyStep
  <2>1. Awaited(k)' = Awaited(k) /\ Taken(k)' = Taken(k) /\ (Accepting(k)' <=> Accepting(k))
    BY <1>0 DEF Awaited, Taken, HoldsData, Receiving, Accepting, NothingMissing
  <2>2. CASE SendData
    BY <1>0, <2>2, FlowingSends
  <2>3. CASE SendDataEndOfFile
    <3>1. /\ toServer' = toServer /\ toClient' = toClient /\ readPos' = readPos
          /\ c_win_min' = c_win_min /\ doneTransmitting'
          /\ c_state' = "RECEIVE_DATA_WINDOW_CLOSED"
      BY <2>3 DEF SendDataEndOfFile, channelVars, windowVars, Goto
    <3>2. Sending'
      BY <2>3, <3>1 DEF SendDataEndOfFile, windowVars, Flowing, Sending, isWindowClosed
    <3> QED BY <2>1, <3>1, <3>2 DEF Flowing
  <2>4. CASE ReceiveDataWindowOpenEmpty
    <3>1. /\ toServer' = toServer /\ toClient' = toClient /\ readPos' = readPos
          /\ c_win_min' = c_win_min
      BY <2>4 DEF ReceiveDataWindowOpenEmpty, channelVars, windowVars, sendVars
    <3>2. c_win_cur < c_win_max
      <4>1. c_win_cur \in Nat /\ c_win_max \in Int
        BY CleanFacts
      <4> QED BY <2>4, <4>1 DEF ReceiveDataWindowOpenEmpty, Flowing, Sending, isWindowClosed
    <3>3. c_state' = "SEND_DATA"
      BY <2>4, <3>2 DEF ReceiveDataWindowOpenEmpty, Goto
    <3>4. Sending'
      BY <2>4, <3>2, <3>3
         DEF ReceiveDataWindowOpenEmpty, windowVars, sendVars, Flowing, Sending, isWindowClosed
    <3> QED BY <2>1, <3>1, <3>4 DEF Flowing
  <2>5. CASE ReceiveDataWindowOpen \/ ReceiveDataWindowClosed
    BY <1>0, <2>5, FlowingHears
  <2>6. ~SendDataReadError
    BY DEF SendDataReadError, CleanSetting
  <2> QED BY <1>1, <1>3, <2>2, <2>3, <2>4, <2>5, <2>6, ClientHandlers
<1> QED BY <1>2, <1>3

-----------------------------------------------------------------------------
(* The end.                                                                *)

\* The child acknowledges the packet it is reminded by again.
LEMMA RemindingServed ==
    ASSUME CleanSetting, SoundInv, NEW k \in Child, Known(k), Reminding(k), ChildNext(k), faults' = 0
    PROVE  Reminding(k)'
<1>0. /\ child \in [Child -> ChildTypes] /\ child[k] \in ChildTypes /\ ChildGenuine(child[k])
      /\ readPos \in Nat /\ readPos <= Len(LocalFile) /\ Len(LocalFile) \in Nat
  BY CleanFacts, FileType
<1>1. c_state' = c_state /\ doneTransmitting' = doneTransmitting /\ c_win_min' = c_win_min
  BY DEF ChildNext, rcopyVars, sendVars, windowVars
<1>2. ChildStep(k)
  BY NoGivingUp DEF CleanSetting, Reminding, ClientDone
<1>3. CASE child[k].state = "READY_FOR_NEXT_DATA_PACKET"
  <2>1. PICK i \in Deliverable(toServer[k]) : Takes(k, i, DataHandler(toServer[k][i].flag))
    BY <1>0, <1>2, <1>3, ChildHandlers, PacketTaken
  <2>2. Lone(toServer[k], "DATA") /\ toClient[k] = <<>>
    BY <1>3, <2>1, NothingDeliverable DEF Reminding, Exchange
  <2>3. toServer[k][i].flag = "DATA" /\ Silent(k)'
    BY <2>1, <2>2, RequestTaken DEF Takes
  <2>4. DataHandler(toServer[k][i].flag) = "RECEIVED_DATA"
    BY <2>3 DEF DataHandler
  <2>5. child'[k].state = "RECEIVED_DATA" /\ KeepsPlace(k)
    BY <2>1, <2>4 DEF Takes, Enters
  <2> QED BY <1>1, <2>3, <2>5
          DEF Reminding, Exchange, Silent, KeepsPlace, Complete, NothingMissing, are_packets_buffered
<1>4. CASE child[k].state # "READY_FOR_NEXT_DATA_PACKET"
  <2>1. child[k].state = "RECEIVED_DATA" /\ Silent(k)
    BY <1>4 DEF Reminding, Exchange
  <2>2. child[k].recvPacket.num \in Nat /\ child[k].recvPacket.num <= readPos
    <3>1. child[k].recvPacket.flag = "DATA"
      BY <1>0, <2>1 DEF ChildGenuine
    <3>2. child[k].recvPacket # NoPacket
      BY <3>1 DEF NoPacket, Packet
    <3>3. Sendable(child[k].recvPacket)
      BY <1>0, <3>2 DEF ChildGenuine, Genuine
    <3> QED BY <1>0, <3>1, <3>3 DEF Sendable
  <2>3. PICK cur \in Nat : cur = child[k].cur_RRnum /\ cur = Len(LocalFile) + 1
    BY <1>0 DEF Reminding, Complete
  <2>4. HandleClientRecovery(k)
    <3>1. ~(child[k].recvPacket.num = cur) /\ ~(child[k].recvPacket.num > cur)
      BY <1>0, <2>2, <2>3
    <3>2. ~HandleExpectedPacketNumber(k)
      BY <2>3, <3>1 DEF HandleExpectedPacketNumber
    <3>3. ~BufferPacket(k)
      BY <2>3, <3>1 DEF BufferPacket
    <3>4. ~HandleExpectedSREJPacket(k)
      BY DEF Reminding, NothingMissing, HandleExpectedSREJPacket, AnswersSREJ
    <3> QED BY <1>2, <2>1, <3>2, <3>3, <3>4, ChildHandlers
  <2>5. PICK p \in Packets : /\ Respond(k, p) /\ p # NoPacket
                             /\ p.flag = "RR" /\ p.num = cur
    <3>1. PICK p : p = Control(IF are_packets_buffered(child[k].window) THEN "SREJ" ELSE "RR",
                               child[k].cur_RRnum)
      OBVIOUS
    <3>2. Respond(k, p)
      BY <2>4, <3>1 DEF HandleClientRecovery, Respond, Transmit
    <3>3. p = Control("RR", cur)
      BY <2>3, <3>1 DEF Reminding, NothingMissing
    <3>4. Control("RR", cur) \in Packets
      BY ControlType DEF Flags, ReplyFlags
    <3>5. p # NoPacket /\ p.flag = "RR" /\ p.num = cur
      BY <3>3 DEF Control, Packet, NoPacket
    <3> QED BY <3>2, <3>3, <3>4, <3>5
  <2>6. /\ Lone(toClient'[k], "RR") /\ toClient'[k][1].num = Len(LocalFile) + 1
        /\ toServer'[k] = <<>>
    BY <2>1, <2>3, <2>5, Answers
  <2>7. child'[k].state = "READY_FOR_NEXT_DATA_PACKET" /\ KeepsPlace(k)
    BY <1>0, <2>4, DataHandled DEF Enters
  <2> QED BY <1>1, <2>6, <2>7
          DEF Reminding, Exchange, KeepsPlace, Complete, NothingMissing, are_packets_buffered
<1> QED BY <1>3, <1>4

\* rcopy, reminded, announces the end.
LEMMA RemindingAsks ==
    ASSUME CleanSetting, SoundInv, NEW k \in Child, ServedBy(k), Known(k), Reminding(k), ClientNext
    PROVE  Ending(k)'
<1>0. /\ child' = child /\ doneTransmitting /\ c_state = "RECEIVE_DATA_WINDOW_CLOSED"
      /\ cur_packet_num = Len(LocalFile) + 1
  BY CleanFacts DEF ClientNext, serverVars, Reminding, ClientData
<1>1. RcopyStep
  <2>1. \/ toClient[k] # <<>>
        \/ child[k].state # "DONE" /\ toServer[k] # <<>>
        \/ child[k].state = "RECEIVED_DATA"
    BY DEF Reminding, Exchange, Lone
  <2> QED BY <2>1, NoRetry DEF CleanSetting
<1>2. ReceiveDataWindowClosed
  BY <1>0, <1>1, ClientHandlers
<1>3. PICK i \in Deliverable(toClient[k]) :
        RecvFromServer(k, i) /\ ProcessIncomingData(toClient[k][i])
  BY <1>2, HeardFrom DEF ReceiveDataWindowClosed, ReceiveData
<1>4. /\ Lone(toClient[k], "RR") /\ toServer[k] = <<>>
      /\ child[k].state = "READY_FOR_NEXT_DATA_PACKET"
      /\ toClient[k][1].num = Len(LocalFile) + 1
  BY <1>3, NothingDeliverable DEF Reminding, Exchange, Silent
<1>5. i = 1 /\ toClient[k][i].flag = "RR" /\ Silent(k)'
  BY <1>3, <1>4, AnswerTaken
<1>6. c_state' = AfterRR(Len(LocalFile) + 1)
  BY <1>3, <1>4, <1>5 DEF ProcessIncomingData, Goto
<1>7. c_state' = "SEND_EOF_AND_QUIT"
  BY <1>0, <1>6 DEF AfterRR
<1> QED BY <1>0, <1>4, <1>5, <1>7 DEF Ending

\* The child takes END_OF_FILE, and acknowledges it.
LEMMA EndingServed ==
    ASSUME CleanSetting, SoundInv, NEW k \in Child, Known(k), Ending(k), ChildNext(k), faults' = 0
    PROVE  Ending(k)'
<1>0. child \in [Child -> ChildTypes]
  BY CleanFacts
<1>1. c_state' = c_state
  BY DEF ChildNext, rcopyVars
<1>2. ChildStep(k)
  BY NoGivingUp DEF CleanSetting, Ending, ClientDone
<1>3. CASE child[k].state = "READY_FOR_NEXT_DATA_PACKET"
  <2>1. PICK i \in Deliverable(toServer[k]) : Takes(k, i, DataHandler(toServer[k][i].flag))
    BY <1>0, <1>2, <1>3, ChildHandlers, PacketTaken
  <2>2. Lone(toServer[k], "END_OF_FILE") /\ toClient[k] = <<>> /\ c_state = "SEND_EOF_SELECT"
    BY <1>3, <2>1, NothingDeliverable DEF Ending, Exchange, Silent
  <2>3. toServer[k][i].flag = "END_OF_FILE" /\ Silent(k)'
    BY <2>1, <2>2, RequestTaken DEF Takes
  <2>4. DataHandler(toServer[k][i].flag) = "RECEIVED_EOF"
    BY <2>3 DEF DataHandler
  <2>5. child'[k].state = "RECEIVED_EOF"
    BY <2>1, <2>4 DEF Takes, Enters
  <2> QED BY <1>1, <2>2, <2>3, <2>5 DEF Ending, Exchange, Silent
<1>4. CASE child[k].state # "READY_FOR_NEXT_DATA_PACKET"
  <2>1. child[k].state = "RECEIVED_EOF" /\ Silent(k) /\ c_state = "SEND_EOF_SELECT"
    <3>1. child[k].state # "DONE"
      BY <1>2, ChildHandlers
    <3> QED BY <1>4, <3>1 DEF Ending, Exchange
  <2>2. ReceivedEof(k)
    BY <1>2, <2>1, ChildHandlers DEF ReceivedEofAborts, CleanSetting
  <2>3. Respond(k, Control("ACK_EOF", 0)) /\ child'[k].state = "DONE"
    BY <1>0, <2>2, DataHandled DEF Enters
  <2>4. PICK p \in Packets : p = Control("ACK_EOF", 0) /\ p # NoPacket /\ p.flag = "ACK_EOF"
    <3>1. Control("ACK_EOF", 0) \in Packets
      <4>1. "ACK_EOF" \in Flags
        BY DEF Flags, ReplyFlags
      <4> QED BY <4>1, ControlType
    <3>2. Control("ACK_EOF", 0).flag = "ACK_EOF"
      BY DEF Control, Packet
    <3>3. Control("ACK_EOF", 0) # NoPacket
      BY <3>2 DEF NoPacket, Packet
    <3> QED BY <3>1, <3>2, <3>3
  <2>5. Respond(k, p)
    BY <2>3, <2>4
  <2>6. Lone(toClient'[k], "ACK_EOF") /\ toServer'[k] = <<>>
    BY <2>1, <2>4, <2>5, Answers
  <2> QED BY <1>1, <2>1, <2>3, <2>6 DEF Ending, Exchange
<1> QED BY <1>3, <1>4

\* rcopy sends END_OF_FILE, and ends on its acknowledgement.
LEMMA EndingAsks ==
    ASSUME CleanSetting, SoundInv, NEW k \in Child, ServedBy(k), Known(k), Ending(k), ClientNext,
           faults' = 0
    PROVE  Ending(k)' \/ (c_state' = "DONE" /\ c_exit' = "ack eof")
<1>0. child' = child /\ remote = k
  BY DEF ClientNext, serverVars, Known
<1>1. CASE c_state = "SEND_EOF_AND_QUIT"
  <2>1. SendEof
    <3>1. RcopyStep
      BY <1>1, ClientTimeouts DEF ClientNext
    <3> QED BY <1>1, <3>1, ClientHandlers
  <2>2. PICK p \in Packets : p = Control("END_OF_FILE", 0) /\ p.flag = "END_OF_FILE"
    <3>1. Control("END_OF_FILE", 0) \in Packets
      BY ControlType DEF Flags
    <3> QED BY <3>1 DEF Control, Packet
  <2>3. SendToServer(p) /\ c_state' = "SEND_EOF_SELECT"
    BY <2>1, <2>2 DEF SendEof, SendToServer, Transmit, Goto
  <2>4. child[k].state = "READY_FOR_NEXT_DATA_PACKET" /\ Silent(k)
    BY <1>1 DEF Ending
  <2>5. Lone(toServer'[k], "END_OF_FILE") /\ toClient'[k] = <<>>
    BY <1>0, <2>2, <2>3, <2>4, Asks
  <2> QED BY <1>0, <2>3, <2>4, <2>5 DEF Ending, Exchange
<1>2. CASE c_state # "SEND_EOF_AND_QUIT"
  <2>1. /\ c_state = "SEND_EOF_SELECT"
        /\ Exchange(k, "END_OF_FILE", "READY_FOR_NEXT_DATA_PACKET", "RECEIVED_EOF", "ACK_EOF", "DONE")
    BY <1>2 DEF Ending
  <2>2. RcopyStep
    <3>1. \/ toClient[k] # <<>>
          \/ child[k].state # "DONE" /\ toServer[k] # <<>>
          \/ child[k].state = "RECEIVED_EOF"
      BY <2>1 DEF Exchange, Lone
    <3> QED BY <3>1, NoRetry DEF CleanSetting
  <2>3. SendEofReply
    BY <2>1, <2>2, ClientHandlers
  <2>4. PICK i \in Deliverable(toClient[k]) :
          RecvFromServer(k, i) /\ ProcessIncomingData(toClient[k][i])
    BY <2>3, HeardFrom DEF SendEofReply
  <2>5. Lone(toClient[k], "ACK_EOF") /\ toServer[k] = <<>>
    BY <2>1, <2>4, NothingDeliverable DEF Exchange, Silent
  <2>6. toClient[k][i].flag = "ACK_EOF"
    BY <2>4, <2>5, AnswerTaken
  <2> QED BY <2>4, <2>6 DEF ProcessIncomingData, Quit
<1> QED BY <1>1, <1>2

-----------------------------------------------------------------------------
(* The whole upload.                                                       *)

\* A child that has been forked opens the file, and rcopy begins the setup with it.
LEMMA WelcomedNext ==
    ASSUME CleanSetting, SoundInv, NEW k \in Child, ServedBy(k), Welcomed(k),
           ClientNext \/ ChildNext(k), faults' = 0
    PROVE  ServedBy(k)' /\ (Welcomed(k)' \/ (Known(k)' /\ SettingUp(k)'))
<1>0. child \in [Child -> ChildTypes] /\ TransferInv /\ Timely
  BY CleanFacts DEF SoundInv, CleanSetting
<1>1. /\ ServedBy(k)'
      /\ \/ /\ Greeted(k)'
            /\ ReceivedRemoteFileNameNoOpen(k) \/ ReceivedRemoteFileName(k)
         \/ /\ Known(k)' /\ Silent(k)' /\ child' = child
            /\ Lone(toClient[k], "ACK_FILE_NAME") => c_state' = "SEND_BUFFER_SIZE"
  BY <1>0, GreetedNext DEF Welcomed
<1>2. CASE Greeted(k)' /\ (ReceivedRemoteFileNameNoOpen(k) \/ ReceivedRemoteFileName(k))
  <2>1. ReceivedRemoteFileName(k)
    BY <1>2 DEF ReceivedRemoteFileNameNoOpen, CleanSetting
  <2>2. child'[k].state = "READY_FOR_NEXT_SETUP_PACKET" /\ child'[k].fileGood
    BY <1>0, <2>1, SetupHandled DEF Enters
  <2> QED BY <1>1, <1>2, <2>2 DEF Welcomed
<1>3. CASE /\ Known(k)' /\ Silent(k)' /\ child' = child
           /\ Lone(toClient[k], "ACK_FILE_NAME") => c_state' = "SEND_BUFFER_SIZE"
  <2>1. ClientNext
    <3>1. CASE ChildNext(k)
      BY <1>3, <3>1 DEF ChildNext, rcopyVars, setupVars, Known, ClientDone, Welcomed, Greeted
    <3> QED BY <3>1
  <2>2. Lone(toClient[k], "ACK_FILE_NAME") /\ child[k].state = "READY_FOR_NEXT_SETUP_PACKET"
    <3>1. WaitForSetupAcks
      <4>1. RcopyStep
        <5>1. toClient[k] # <<>> \/ child[k].state = "RECEIVED_REMOTE_FILE_NAME"
          BY DEF Welcomed, Greeted, Lone
        <5> QED BY <1>0, <2>1, <5>1, NoRetry
      <4> QED BY <4>1, ClientHandlers DEF Welcomed, Greeted
    <3>2. \E i \in Deliverable(toClient[k]) : TRUE
      BY <3>1, HeardFrom DEF WaitForSetupAcks
    <3>3. toClient[k] # <<>>
      BY <3>2, NothingDeliverable
    <3> QED BY <3>3 DEF Welcomed, Greeted
  <2> QED BY <1>1, <1>3, <2>2 DEF SettingUp, Ready, Welcomed
<1> QED BY <1>1, <1>2, <1>3

\* Every step of an upload that nothing disturbs leads to the next stage, or nowhere.
LEMMA CleanTransferNext ==
    ASSUME CleanSetting, SoundInv, CleanTransfer, [Next]_vars
    PROVE  CleanTransfer'
<1> DEFINE Stage(k) == SettingUp(k) \/ Flowing(k) \/ Reminding(k) \/ Ending(k)
           Success == c_state = "DONE" /\ c_exit = "ack eof"
<1>0. TransferInv /\ Timely
  BY DEF SoundInv, CleanSetting
<1> SUFFICES ASSUME faults' = 0, Child # {}
             PROVE  \/ NotServed'
                    \/ \E k \in Child : ServedBy(k)' /\ (Welcomed(k)' \/ (Known(k)' /\ Stage(k)'))
                    \/ Success'
  BY DEF CleanTransfer
<1>1. \/ NotServed
      \/ \E k \in Child : ServedBy(k) /\ (Welcomed(k) \/ (Known(k) /\ Stage(k)))
      \/ Success
  <2>1. faults = 0
    BY <1>0, FaultsStay, UploadTypes
  <2> QED BY <2>1 DEF CleanTransfer
<1>2. CASE UNCHANGED vars
  <2> USE <1>2 DEF vars, channelVars, rcopyVars, setupVars, sendVars, windowVars, serverVars,
                   Silent, Exchange, Awaited, HoldsData, Receiving, NothingMissing, Complete
  <2>1. NotServed => NotServed'
    BY DEF NotServed, Unforked
  <2>2. ASSUME NEW k \in Child PROVE ServedBy(k) => ServedBy(k)'
    BY DEF ServedBy, Unforked
  <2>3. ASSUME NEW k \in Child PROVE Welcomed(k) => Welcomed(k)'
    BY DEF Welcomed, Greeted
  <2>4. ASSUME NEW k \in Child PROVE Known(k) => Known(k)'
    BY DEF Known, ClientDone
  <2>5. ASSUME NEW k \in Child PROVE SettingUp(k) => SettingUp(k)'
    BY DEF SettingUp, SetupExchange, Ready
  <2>6. ASSUME NEW k \in Child PROVE Flowing(k) => Flowing(k)'
    BY DEF Flowing, Taken, Accepting, Sending
  <2>7. ASSUME NEW k \in Child PROVE Reminding(k) => Reminding(k)'
    BY DEF Reminding
  <2>8. ASSUME NEW k \in Child PROVE Ending(k) => Ending(k)'
    BY DEF Ending
  <2> QED BY <1>1, <2>1, <2>2, <2>3, <2>4, <2>5, <2>6, <2>7, <2>8
<1>3. CASE Success /\ Next
  <2>1. ~ClientNext
    BY <1>3, ClientHandlers, ClientTimeouts DEF ClientNext
  <2> QED BY <1>3, <2>1 DEF Next, MainNext, ChildNext, Terminated, rcopyVars, vars
<1>4. CASE NotServed /\ Next
  BY <1>0, <1>4, NotServedNext DEF Welcomed
<1>5. ASSUME NEW k \in Child, ServedBy(k), Welcomed(k), ClientNext \/ ChildNext(k)
      PROVE  ServedBy(k)' /\ (Welcomed(k)' \/ (Known(k)' /\ Stage(k)'))
  BY <1>5, WelcomedNext
<1>6. ASSUME NEW k \in Child, ServedBy(k), Known(k), Stage(k), ClientNext
      PROVE  (ServedBy(k)' /\ Known(k)' /\ Stage(k)') \/ Success'
  <2>1. ServedBy(k)' /\ Known(k)'
    BY <1>0, <1>6, KnownNext
  <2> QED BY <1>6, <2>1, SettingUpAsks, FlowingAsks, RemindingAsks, EndingAsks
<1>7. ASSUME NEW k \in Child, ServedBy(k), Known(k), Stage(k), ChildNext(k)
      PROVE  ServedBy(k)' /\ Known(k)' /\ Stage(k)'
  <2>1. ServedBy(k)' /\ Known(k)'
    BY <1>0, <1>7, KnownNext
  <2> QED BY <1>7, <2>1, SettingUpServed, FlowingServed, RemindingServed, EndingServed
<1>8. ASSUME NEW k \in Child, ServedBy(k), Welcomed(k) \/ (Known(k) /\ Stage(k)), Next
      PROVE  \/ ServedBy(k)' /\ (Welcomed(k)' \/ (Known(k)' /\ Stage(k)'))
             \/ Success'
             \/ UNCHANGED vars
  BY <1>0, <1>5, <1>6, <1>7, <1>8, TwoActors
<1> HIDE DEF Stage, Success
<1> QED BY <1>1, <1>2, <1>3, <1>4, <1>8

\* An upload that no path disturbs goes through its stages, one after the other: the
\* setup, the data without a gap, the packet resent if the last RR came too early for the
\* end of the file, and the end.
THEOREM CleanTransferHolds ==
    ASSUME CleanSetting
    PROVE  Spec => [](SoundInv /\ CleanTransfer)
<1>1. Init => SoundInv /\ CleanTransfer
  <2>1. Init => NotServed
    BY DEF Init, ChannelInit, RcopyInit, ServerInit, NotServed, Unforked, Unborn, Silent, Server
  <2> QED BY <2>1, SoundInit DEF CleanTransfer
<1>2. SoundInv /\ CleanTransfer /\ [Next]_vars => SoundInv' /\ CleanTransfer'
  BY SoundNext, CleanTransferNext DEF CleanSetting
<1> QED BY <1>1, <1>2, PTL DEF Spec

\* On timely paths that keep the order, with a sound disk and allocator, room in the
\* sockets for a window and a file that fills one, an upload that no path disturbs ends,
\* if it ends, on ACK_EOF.
THEOREM CleanPathsSucceed ==
    ASSUME CleanSetting
    PROVE  Spec => []CleanPathSucceeds
<1>1. SoundInv /\ CleanTransfer => CleanPathSucceeds
  <2>1. ASSUME SoundInv, CleanTransfer, faults = 0, Child # {} PROVE c_exit \in {"running", "ack eof"}
    <3>1. c_state \notin {"DONE", "EXIT"} \/ c_exit = "ack eof"
      BY <2>1 DEF CleanTransfer, NotServed, Welcomed, Greeted, SettingUp, Flowing, Sending,
                  Reminding, Ending
    <3> QED BY <2>1, <3>1 DEF SoundInv
  <2> QED BY <2>1 DEF CleanPathSucceeds, CleanSetting
<1> QED BY <1>1, CleanTransferHolds, PTL

\* The window rcopy works with holds everything it has not been told about, as long as
\* it has not sent past its end.
LEMMA InWindowResendable ==
    ASSUME TransferInv, LatestKept, 0 <= c_win_min, c_win_cur <= c_win_min + WinSize
    PROVE  LowestResendable
<1>1. /\ c_win_min \in Int /\ c_win_cur \in Nat /\ readPos \in Nat /\ c_win_cur = readPos
      /\ WinSize \in Nat \ {0}
  BY RcopyAssumption, ReadPosType
     DEF TransferInv, WindowInv, WireInv, ClientInv, ClientTypeOK, LatestKept, RcopyAssumption
<1>2. ASSUME c_win_min < c_win_cur
      PROVE  c_window[c_win_min % WinSize].num = c_win_min + 1
  <2>1. PICK n \in 1 .. readPos : n = c_win_min + 1 /\ readPos < n + WinSize /\ n - 1 = c_win_min
    BY <1>1, <1>2
  <2>2. c_window[c_win_min % WinSize] = Packet("DATA", n, LocalFile[n])
    BY <2>1 DEF LatestKept
  <2> QED BY <2>1, <2>2 DEF Packet
<1> QED BY <1>2 DEF LowestResendable

\* On timely paths that keep the order, with a sound disk and allocator, room in the
\* sockets for a window and a file that fills one, an upload that no path disturbs never
\* overwrites in the window what it may have to resend.
THEOREM CleanPathsKeepWindow ==
    ASSUME CleanSetting
    PROVE  Spec => []CleanPathResendable
<1>1. ASSUME SoundInv, CleanTransfer, LatestKept, faults = 0 PROVE LowestResendable
  <2>1. c_win_min \in Int /\ c_win_cur \in Nat /\ readPos <= Len(LocalFile) /\ readPos \in Nat
        /\ c_win_cur = readPos /\ TransferInv /\ WinSize \in Nat \ {0}
    BY <1>1, CleanFacts, RcopyAssumption DEF LatestKept, SoundInv, CleanSetting, RcopyAssumption
  <2>2. CASE c_state # "RECEIVE_DATA_WINDOW_CLOSED"
    BY <2>2 DEF LowestResendable
  <2>3. CASE c_state = "RECEIVE_DATA_WINDOW_CLOSED"
    <3>1. PICK k \in Child : Flowing(k) \/ Reminding(k)
      BY <1>1, <2>3 DEF CleanSetting, CleanTransfer, NotServed, Welcomed, Greeted, SettingUp, Ending
    <3>2. CASE Flowing(k)
      <4>1. 0 <= c_win_min /\ c_win_cur <= c_win_min + WinSize
        BY <2>1, <3>2 DEF Flowing, Sending
      <4> QED BY <1>1, <2>1, <4>1, InWindowResendable
    <3>3. CASE Reminding(k)
      <4>1. ~(c_win_min < c_win_cur)
        BY <2>1, <3>3, FileType DEF Reminding
      <4> QED BY <4>1 DEF LowestResendable
    <3> QED BY <3>1, <3>2, <3>3
  <2> QED BY <2>2, <2>3
<1>2. SoundInv /\ CleanTransfer /\ LatestKept => CleanPathResendable
  BY <1>1 DEF CleanPathResendable
<1> QED BY <1>2, CleanTransferHolds, WindowKeepsLatest, PTL

===============================================================================
