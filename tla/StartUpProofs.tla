---------------------------- MODULE StartUpProofs -----------------------------
(***************************************************************************)
(* What a command line that passed the checks can lead to, for every one.  *)
(***************************************************************************)
EXTENDS StartUp, TLAPS

USE StartUpAssumption

\* A conversion to uint32_t gives a natural number, and a number that fits itself.
LEMMA UnsignedFits ==
    ASSUME NEW n \in Int
    PROVE  /\ Unsigned(n) \in Nat
           /\ 0 <= n /\ n < UintMod => Unsigned(n) = n
BY DEF Unsigned

\* The fields of the command lines have their types.
LEMMA GivenTypes ==
    ASSUME StartUpTypeOK
    PROVE  /\ given.rcopy.remote \in Nat /\ given.rcopy.local \in Nat
           /\ given.rcopy.size \in Int /\ given.rcopy.window \in Int
           /\ given.rcopy.file \in Nat \cup {Unset}
<1>1. given.rcopy \in RcopyArgs
  BY DEF StartUpTypeOK
<1> QED BY <1>1

\* At the start nothing is known and nothing is under way.
LEMMA StartUpInit == ASSUME Init PROVE StartUpInv
<1>1. StartUpTypeOK
  BY DEF Init, StartUpTypeOK, NoPacket
<1>2. PacketAsSent /\ ChildKnows /\ SettingsAsGiven
  BY DEF Init, PacketAsSent, ChildKnows, SettingsAsGiven, NoPacket, Passed, Sending
<1> QED BY <1>1, <1>2 DEF StartUpInv

LEMMA ArgumentsKeep == ASSUME StartUpInv, ProcessCommandlineArgs PROVE StartUpInv'
<1> USE DEF StartUpInv, ProcessCommandlineArgs, ofServer, ofChild
<1>1. StartUpTypeOK'
  BY UnsignedFits, GivenTypes DEF StartUpTypeOK
<1>2. PacketAsSent'
  BY DEF PacketAsSent, StartUpTypeOK
<1>3. ChildKnows'
  BY <1>2 DEF PacketAsSent, ChildKnows, Sending, NoPacket
<1>4. SettingsAsGiven'
  BY DEF SettingsAsGiven, Passed, Sending, BindPort
<1> QED BY <1>1, <1>2, <1>3, <1>4

LEMMA ClientSetupKeeps == ASSUME StartUpInv, UdpClientSetup PROVE StartUpInv'
<1> USE DEF StartUpInv, UdpClientSetup, ofServer, ofChild
<1>1. StartUpTypeOK'
  BY DEF StartUpTypeOK
<1>2. PacketAsSent'
  BY DEF PacketAsSent, Overruns, LenRead
<1>3. ChildKnows'
  BY <1>2 DEF PacketAsSent, ChildKnows, Sending, NoPacket
<1>4. SettingsAsGiven'
  BY DEF SettingsAsGiven, Passed, Sending, BindPort, Port
<1> QED BY <1>1, <1>2, <1>3, <1>4

\* What a step of the server's main process leaves alone is all but its own state.
LEMMA ServerKeeps == ASSUME StartUpInv, ServerNext PROVE StartUpInv'
<1>1. UNCHANGED <<given, packet, ofRcopy, ofChild>>
  BY DEF ServerNext, ServerProcessCommandlineArgs, UdpServer, UdpServerFails
<1>2. StartUpTypeOK'
  BY <1>1 DEF StartUpInv, StartUpTypeOK, ofRcopy, ofChild, ServerNext, ServerProcessCommandlineArgs,
              UdpServer, UdpServerFails
<1>3. PacketAsSent' /\ ChildKnows'
  BY <1>1 DEF StartUpInv, PacketAsSent, ChildKnows, Sending, ofRcopy, ofChild, Overruns, LenRead
<1>4. server' = "loop" => port' = IF BindPort = 0 THEN Kernel ELSE BindPort
  BY DEF StartUpInv, SettingsAsGiven, ServerNext, ServerProcessCommandlineArgs, UdpServer,
         UdpServerFails
<1>5. SettingsAsGiven'
  BY <1>1, <1>4 DEF StartUpInv, SettingsAsGiven, Passed, Sending, BindPort, Overruns, LenRead, NoSlot,
                    ofRcopy, ofChild
<1> QED BY <1>2, <1>3, <1>5 DEF StartUpInv

\* rcopy sends one of the three packets of the setup: what the packet must hold, and
\* what the child must know by then.
LEMMA AskKeeps ==
    ASSUME StartUpInv, NEW state \in {"SEND_REMOTE_FILE_NAME", "SEND_BUFFER_SIZE", "SEND_WINDOW_SIZE"},
           NEW flag, NEW len \in Nat, NEW value \in Nat, Ask(state, flag, len, value),
           \/ state = "SEND_REMOTE_FILE_NAME" /\ flag = "FILE_NAME"
                  /\ value = given.rcopy.remote /\ len = NumLen + value
           \/ state = "SEND_BUFFER_SIZE" /\ flag = "BUFFER_SIZE" /\ value = bufSize /\ len = NumLen
           \/ state = "SEND_WINDOW_SIZE" /\ flag = "WINDOW_SIZE" /\ value = win_size /\ len = NumLen
    PROVE  StartUpInv'
<1>1. /\ rcopy = state /\ rcopy' = "WAIT_FOR_SETUP_ACKS"
      /\ packet' = [flag |-> flag, len |-> len + 8, value |-> value]
      /\ UNCHANGED <<given, bufSize, win_size, remote, chunk, ofServer, ofChild>>
  BY DEF Ask
<1>2. StartUpTypeOK'
  BY <1>1 DEF StartUpInv, StartUpTypeOK, ofServer, ofChild
<1>3. PacketAsSent'
  BY <1>1 DEF PacketAsSent, NumLen
<1>4. ChildKnows'
  BY <1>1 DEF StartUpInv, ChildKnows, Sending, ofChild
<1>5. SettingsAsGiven'
  BY <1>1 DEF StartUpInv, SettingsAsGiven, Passed, Sending, BindPort, ofServer, ofChild
<1> QED BY <1>2, <1>3, <1>4, <1>5 DEF StartUpInv

LEMMA SetupSent ==
    ASSUME StartUpInv, SendRemoteFileName \/ SendBufferSize \/ SendWindowSize
    PROVE  StartUpInv'
<1>1. given.rcopy.remote \in Nat /\ bufSize \in Nat /\ win_size \in Nat
  BY GivenTypes DEF StartUpInv, StartUpTypeOK
<1>2. CASE SendRemoteFileName
  <2>1. NumLen + given.rcopy.remote \in Nat
    BY <1>1 DEF NumLen
  <2> QED BY <1>1, <1>2, <2>1, AskKeeps DEF SendRemoteFileName
<1>3. CASE SendBufferSize
  BY <1>1, <1>3, AskKeeps DEF SendBufferSize, NumLen
<1>4. CASE SendWindowSize
  BY <1>1, <1>4, AskKeeps DEF SendWindowSize, NumLen
<1> QED BY <1>2, <1>3, <1>4

\* The child takes over what the packet holds, and answers.
LEMMA NameReceived == ASSUME StartUpInv, ReceivedRemoteFileName PROVE StartUpInv'
<1>1. /\ packet.flag = "FILE_NAME" /\ fileName' = packet.value
      /\ child' = "READY_FOR_NEXT_SETUP_PACKET"
      /\ packet' = [flag |-> "ACK_FILE_NAME", len |-> 8, value |-> 0]
      /\ UNCHANGED <<given, ofRcopy, ofServer, childBufSize, childWinSize, written>>
  BY DEF ReceivedRemoteFileName, Ack
<1>2. rcopy = "WAIT_FOR_SETUP_ACKS" /\ packet.value = given.rcopy.remote
  BY <1>1 DEF StartUpInv, PacketAsSent
<1>3. StartUpTypeOK'
  BY <1>1 DEF StartUpInv, StartUpTypeOK, ofRcopy, ofServer
<1>4. PacketAsSent' /\ ChildKnows'
  BY <1>1, <1>2 DEF PacketAsSent, ChildKnows, Sending, ofRcopy
<1>5. SettingsAsGiven'
  BY <1>1, <1>2 DEF StartUpInv, SettingsAsGiven, Passed, Sending, BindPort, ofRcopy, ofServer
<1> QED BY <1>3, <1>4, <1>5 DEF StartUpInv

LEMMA BufferSizeReceived == ASSUME StartUpInv, ReceivedBufferSize PROVE StartUpInv'
<1>1. /\ packet.flag = "BUFFER_SIZE" /\ childBufSize' = packet.value
      /\ packet' = [flag |-> "ACK_BUFFER_SIZE", len |-> 8, value |-> 0]
      /\ UNCHANGED <<given, ofRcopy, ofServer, child, fileName, childWinSize, written>>
  BY DEF ReceivedBufferSize, Ack
<1>2. rcopy = "WAIT_FOR_SETUP_ACKS" /\ packet.value = bufSize /\ fileName = given.rcopy.remote
  BY <1>1 DEF StartUpInv, PacketAsSent, ChildKnows
<1>3. StartUpTypeOK'
  BY <1>1 DEF StartUpInv, StartUpTypeOK, ofRcopy, ofServer
<1>4. PacketAsSent' /\ ChildKnows'
  BY <1>1, <1>2 DEF PacketAsSent, ChildKnows, Sending, ofRcopy
<1>5. SettingsAsGiven'
  BY <1>1, <1>2 DEF StartUpInv, SettingsAsGiven, Passed, Sending, BindPort, ofRcopy, ofServer
<1> QED BY <1>3, <1>4, <1>5 DEF StartUpInv

LEMMA WindowSizeReceived == ASSUME StartUpInv, ReceivedWindowSize PROVE StartUpInv'
<1>1. /\ packet.flag = "WINDOW_SIZE" /\ childWinSize' = packet.value
      /\ packet' = [flag |-> "ACK_WINDOW_SIZE", len |-> 8, value |-> 0]
      /\ UNCHANGED <<given, ofRcopy, ofServer, child, fileName, childBufSize, written>>
  BY DEF ReceivedWindowSize, Ack
<1>2. /\ rcopy = "WAIT_FOR_SETUP_ACKS" /\ packet.value = win_size
      /\ fileName = given.rcopy.remote /\ childBufSize = bufSize
  BY <1>1 DEF StartUpInv, PacketAsSent, ChildKnows
<1>3. StartUpTypeOK'
  BY <1>1 DEF StartUpInv, StartUpTypeOK, ofRcopy, ofServer
<1>4. PacketAsSent' /\ ChildKnows'
  BY <1>1, <1>2 DEF PacketAsSent, ChildKnows, Sending, ofRcopy
<1>5. SettingsAsGiven'
  BY <1>1, <1>2 DEF StartUpInv, SettingsAsGiven, Passed, Sending, BindPort, ofRcopy, ofServer
<1> QED BY <1>3, <1>4, <1>5 DEF StartUpInv

\* An answer sends rcopy to the next packet, or it gives up.
LEMMA WaitKeeps ==
    ASSUME StartUpInv, WaitForSetupAcks \/ TimeoutOnSetupServer
    PROVE  StartUpInv'
<1>1. /\ rcopy = "WAIT_FOR_SETUP_ACKS" /\ packet' = NoPacket
      /\ UNCHANGED <<given, bufSize, win_size, chunk, ofServer, ofChild>>
      /\ \/ packet.flag = "ACK_FILE_NAME" /\ rcopy' = "SEND_BUFFER_SIZE"
         \/ packet.flag = "ACK_BUFFER_SIZE" /\ rcopy' = "SEND_WINDOW_SIZE"
         \/ packet.flag = "ACK_WINDOW_SIZE" /\ rcopy' = "SEND_DATA"
         \/ rcopy' = "exited"
  BY DEF WaitForSetupAcks, AfterAck, TimeoutOnSetupServer
<1>2. StartUpTypeOK'
  BY <1>1 DEF StartUpInv, StartUpTypeOK, NoPacket, ofServer, ofChild
<1>3. PacketAsSent'
  BY <1>1 DEF PacketAsSent, NoPacket
<1>4. ChildKnows'
  BY <1>1 DEF StartUpInv, ChildKnows, Sending, NoPacket, ofChild
<1>5. SettingsAsGiven'
  BY <1>1 DEF StartUpInv, SettingsAsGiven, Passed, Sending, BindPort, ofServer, ofChild
<1> QED BY <1>2, <1>3, <1>4, <1>5 DEF StartUpInv

\* What read returns is a length.
LEMMA LenReadIsLength ==
    ASSUME StartUpInv, Passed
    PROVE  LenRead \in Nat
<1>1. given.rcopy.file \in Nat /\ bufSize \in Nat
  BY GivenTypes DEF StartUpInv, StartUpTypeOK, SettingsAsGiven, ArgumentsOk
<1> QED BY <1>1 DEF LenRead

\* The first chunk leaves.
LEMMA SendDataKeeps == ASSUME StartUpInv, SendData PROVE StartUpInv'
<1>1. /\ rcopy = "SEND_DATA" /\ chunk' = LenRead
      /\ rcopy' = IF Overruns \/ (LenRead # 0 /\ NoSlot(win_size)) THEN "crashed" ELSE "RECEIVE_DATA"
      /\ packet' = IF Overruns \/ LenRead = 0 THEN NoPacket
                   ELSE [flag |-> "DATA", len |-> LenRead + 8 + NumLen, value |-> LenRead]
      /\ UNCHANGED <<given, bufSize, win_size, remote, ofServer, ofChild>>
  BY DEF SendData
<1>2. LenRead \in Nat
  BY <1>1, LenReadIsLength DEF Passed
<1>3. Overruns' = Overruns /\ LenRead' = LenRead /\ NoSlot(win_size)' = NoSlot(win_size)
  BY <1>1 DEF Overruns, LenRead, NoSlot
<1>4. StartUpTypeOK'
  BY <1>1, <1>2 DEF StartUpInv, StartUpTypeOK, NoPacket, NumLen, ofServer, ofChild
<1>5. PacketAsSent'
  BY <1>1, <1>2, <1>3 DEF PacketAsSent, NoPacket, NumLen
<1>6. ChildKnows'
  BY <1>1 DEF StartUpInv, ChildKnows, Sending, NoPacket, ofChild
<1>7. written # 0 => FALSE
  BY <1>1 DEF StartUpInv, SettingsAsGiven
<1>8. SettingsAsGiven'
  BY <1>1, <1>3, <1>7 DEF StartUpInv, SettingsAsGiven, Passed, Sending, BindPort, ofServer, ofChild
<1> QED BY <1>4, <1>5, <1>6, <1>8 DEF StartUpInv

\* And arrives.
LEMMA ReceivedDataKeeps == ASSUME StartUpInv, ReceivedData PROVE StartUpInv'
<1>1. /\ packet.flag = "DATA" /\ packet' = NoPacket
      /\ UNCHANGED <<given, ofRcopy, ofServer, fileName, childBufSize, childWinSize>>
      /\ \/ UNCHANGED <<child, written>>
         \/ /\ child' = IF NoSlot(childWinSize) THEN "crashed"
                        ELSE IF WindowPrepared THEN "READY_FOR_NEXT_DATA_PACKET" ELSE "caught"
            /\ written' = IF WindowPrepared THEN FileDataLen(packet.len) ELSE written
  BY DEF ReceivedData, ofChild
<1>2. /\ rcopy \in {"RECEIVE_DATA", "crashed"} /\ packet.len = chunk + 12 /\ chunk \in Nat
      /\ written \in Int
  BY <1>1 DEF StartUpInv, PacketAsSent, StartUpTypeOK
<1>3. childWinSize = win_size /\ win_size \in Nat
  BY <1>2 DEF StartUpInv, ChildKnows, Sending, StartUpTypeOK
<1>4. FileDataLen(packet.len) = chunk
  BY <1>2 DEF FileDataLen, PacketHeaderLen, NumLen
<1>5. written' = written \/ written' = chunk
  BY <1>1, <1>4
<1>6. /\ child' = "crashed" => child = "crashed" \/ NoSlot(win_size)
      /\ child' = "caught" => child = "caught" \/ win_size >= IndexMod
  BY <1>1, <1>3 DEF WindowPrepared, IndexMod
<1>7. StartUpTypeOK'
  BY <1>1, <1>2, <1>5 DEF StartUpInv, StartUpTypeOK, NoPacket, ofRcopy, ofServer
<1>8. PacketAsSent' /\ ChildKnows'
  BY <1>1, <1>2 DEF StartUpInv, PacketAsSent, ChildKnows, Sending, NoPacket, ofRcopy
<1>9. SettingsAsGiven'
  BY <1>1, <1>2, <1>5, <1>6 DEF StartUpInv, SettingsAsGiven, Passed, Sending, BindPort, Overruns, LenRead,
                                NoSlot, ofRcopy, ofServer
<1> QED BY <1>7, <1>8, <1>9 DEF StartUpInv

\* Every step keeps the invariant.
LEMMA StartUpNextKeeps == ASSUME StartUpInv, [Next]_vars PROVE StartUpInv'
<1>1. CASE RcopyNext
  BY <1>1, ArgumentsKeep, ClientSetupKeeps, SetupSent, WaitKeeps, SendDataKeeps DEF RcopyNext
<1>2. CASE ServerNext
  BY <1>2, ServerKeeps
<1>3. CASE ChildNext
  BY <1>3, NameReceived, BufferSizeReceived, WindowSizeReceived, ReceivedDataKeeps DEF ChildNext
<1>4. CASE UNCHANGED vars
  BY <1>4 DEF vars, ofRcopy, ofServer, ofChild, StartUpInv, StartUpTypeOK, PacketAsSent, ChildKnows,
              SettingsAsGiven, Passed, Sending, BindPort, Overruns, LenRead, NoSlot
<1> QED BY <1>1, <1>2, <1>3, <1>4 DEF Next

\* Settings, packets and what the child knows agree, for every command line.
THEOREM StartUpCorrect == Spec => []StartUpInv
<1>1. Init => StartUpInv
  BY StartUpInit
<1>2. StartUpInv /\ [Next]_vars => StartUpInv'
  BY StartUpNextKeeps
<1> QED BY <1>1, <1>2, PTL DEF Spec

\* With a size that is not negative the checks bound what is read, and with a window
\* of up to 255 there is a slot.
LEMMA SoundSettings ==
    ASSUME StartUpInv, Passed, given.rcopy.size >= 0, given.rcopy.window \in 1 .. 255
    PROVE  LenRead <= 1400 /\ ~Overruns /\ ~NoSlot(win_size) /\ win_size < IndexMod
<1>1. /\ given.rcopy.size \in Nat /\ given.rcopy.size <= 1400 /\ given.rcopy.file \in Nat
      /\ bufSize = Unsigned(given.rcopy.size) /\ win_size = Unsigned(given.rcopy.window)
  BY GivenTypes DEF StartUpInv, SettingsAsGiven, ArgumentsOk, BufferSizeOk
<1>2. bufSize = given.rcopy.size /\ win_size = given.rcopy.window
  BY <1>1, UnsignedFits
<1>3. LenRead \in Nat /\ LenRead <= 1400
  BY <1>1, <1>2 DEF LenRead
<1> QED BY <1>2, <1>3 DEF Overruns, NoSlot, IndexMod, PacketHeaderLen, NumLen, MAX_PACKET_LEN,
                          BufferChunkLen

\* rcopy.c:581-608, server.c:456: with a size that is not negative and a window a
\* uint8_t can count, no buffer overruns, nothing crashes or is caught in a loop, on
\* either side, and every packet fits the buffer it is received in.
THEOREM AcceptedFitsAlways == Spec => []AcceptedFits
<1>1. StartUpInv => AcceptedFits
  <2> SUFFICES ASSUME StartUpInv, given.rcopy.size >= 0, given.rcopy.window \in 1 .. 255
               PROVE  /\ rcopy # "crashed" /\ child \notin {"crashed", "caught"}
                      /\ packet.len <= MAX_PACKET_LEN
    BY DEF AcceptedFits
  <2>1. rcopy # "crashed"
    BY SoundSettings DEF StartUpInv, SettingsAsGiven, Passed
  <2>2. child \notin {"crashed", "caught"}
    <3>1. win_size \in Nat
      BY DEF StartUpInv, StartUpTypeOK
    <3> QED BY <3>1, SoundSettings DEF StartUpInv, SettingsAsGiven, Passed, Sending, IndexMod
  <2>3. CASE packet.flag = "FILE_NAME"
    <3>1. Passed /\ packet.len = given.rcopy.remote + 12
      BY <2>3 DEF StartUpInv, PacketAsSent, Passed
    <3>2. given.rcopy.remote \in Nat /\ given.rcopy.remote <= 1000
      BY <3>1, GivenTypes DEF StartUpInv, SettingsAsGiven, ArgumentsOk
    <3> QED BY <2>1, <2>2, <3>1, <3>2 DEF MAX_PACKET_LEN
  <2>4. CASE packet.flag = "DATA"
    <3>1. Passed /\ packet.len = LenRead + 12
      BY <2>4 DEF StartUpInv, PacketAsSent, Passed
    <3> QED BY <2>1, <2>2, <3>1, SoundSettings, LenReadIsLength DEF MAX_PACKET_LEN
  <2>5. CASE packet.flag \notin {"FILE_NAME", "DATA"}
    <3>1. packet.flag \in {"none", "BUFFER_SIZE", "WINDOW_SIZE", "ACK_FILE_NAME", "ACK_BUFFER_SIZE",
                           "ACK_WINDOW_SIZE"}
      BY <2>5 DEF StartUpInv, StartUpTypeOK
    <3>2. packet.len \in {0, 8, 12}
      BY <3>1 DEF StartUpInv, PacketAsSent, NoPacket
    <3> QED BY <2>1, <2>2, <3>2 DEF MAX_PACKET_LEN
  <2> QED BY <2>3, <2>4, <2>5
<1> QED BY <1>1, StartUpCorrect, PTL

\* server.c:299, 370: the chunk written is the chunk read, and name and settings
\* arrive, whatever was accepted.
THEOREM WholeChunkAlways == Spec => []WholeChunk
<1>1. StartUpInv => WholeChunk
  BY DEF StartUpInv, WholeChunk, SettingsAsGiven, ChildKnows, Sending
<1> QED BY <1>1, StartUpCorrect, PTL

\* rcopy.c:50, server.c:663: one argument is one port to both programs.
THEOREM SamePortAlways == Spec => []SamePort
<1>1. StartUpInv => SamePort
  <2>1. given.envPort = Unset => BindPort = Port(given.server.port)
    BY DEF BindPort
  <2> QED BY <2>1 DEF StartUpInv, SamePort, SettingsAsGiven
<1> QED BY <1>1, StartUpCorrect, PTL
=============================================================================
