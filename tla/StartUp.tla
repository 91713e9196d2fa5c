------------------------------ MODULE StartUp -------------------------------
(***************************************************************************)
(* From the two command lines to the first chunk in the remote file: the   *)
(* checks of the arguments and the conversions they pass through, the      *)
(* ports, and the lengths of the packets that carry the settings and the   *)
(* data.  The paths are perfect here; Upload has the protocol in full.     *)
(***************************************************************************)
EXTENDS Integers

CONSTANTS
    RcopyArgs,      \* command lines of rcopy: lengths of both names, whether and
                    \* how long a local file is there, numbers, whether the host is known
    ServerArgs,     \* command lines of the server: rate and port, 0 if not given
    EnvPorts,       \* CPE464_OVERRIDE_PORT: Unset, Empty or a number
    Unset, Empty,
    Kernel,         \* a port the kernel picks
    Junk,           \* what an address holds that was never set
    UintMod,        \* 2^32, the values of a uint32_t
    MaxSlots        \* the slots calloc finds memory for

ASSUME StartUpAssumption ==
    /\ UintMod \in Nat /\ UintMod > 65536
    /\ MaxSlots \in Nat /\ MaxSlots >= 255 /\ MaxSlots < UintMod
    /\ RcopyArgs \subseteq [local : Nat, remote : Nat, file : Nat \cup {Unset}, size : Int,
                            rate : Int, window : Int, found : BOOLEAN, port : Int]
    /\ ServerArgs \subseteq [rate : Int, port : Int]

VARIABLES
    given,                      \* the command lines and the environment
    rcopy, server,              \* how far the two have come
    bufSize, win_size,          \* rcopy's settings
    remote,                     \* where rcopy sends
    port,                       \* where the server's main process listens
    packet,                     \* the packet under way: flag, length and value
    child,                      \* how far the child has come
    fileName,                   \* at the child: the length of the name
    childBufSize, childWinSize, \* at the child: the settings
    chunk, written              \* bytes rcopy has read, bytes the child has written

ofRcopy  == <<rcopy, bufSize, win_size, remote, chunk>>
ofServer == <<server, port>>
ofChild  == <<child, fileName, childBufSize, childWinSize, written>>
vars     == <<given, packet, ofRcopy, ofServer, ofChild>>

MAX_PACKET_LEN     == 1500
BufferChunkLen     == 1504
PacketHeaderLen    == 7         \* packed; yet a packet is 8 bytes and its data long
NumLen             == 4
NoPacket           == [flag |-> "none", len |-> 0, value |-> 0]
Unsigned(n)        == n % UintMod
Port(n)            == n % 65536 \* uint16_t

Init ==
    /\ given \in [rcopy : RcopyArgs, server : ServerArgs, envPort : EnvPorts]
    /\ rcopy = "arguments" /\ server = "arguments"
    /\ bufSize = 0 /\ win_size = 0
    /\ remote = Junk /\ port = Unset
    /\ packet = NoPacket
    /\ child = "none" /\ fileName = Unset /\ childBufSize = 0 /\ childWinSize = 0
    /\ chunk = 0 /\ written = 0

-----------------------------------------------------------------------------
(* rcopy: process_commandline_args and udp_client_setup                    *)

\* Mutated form: the upper limit is left out.
BufferSizeOkUnlimited(a) == Unsigned(a.size) >= 400

\* bufSize is unsigned where it is compared with 400, not where it is with 1400.
BufferSizeOk(a) == Unsigned(a.size) >= 400 /\ a.size <= 1400

\* win_size is unsigned.
WindowSizeOk(a) == ~(Unsigned(a.window) < 0)

ArgumentsOk(a) ==
    /\ a.local <= 1000 /\ a.remote <= 1000
    /\ a.file # Unset
    /\ BufferSizeOk(a)
    /\ a.rate >= 0 /\ a.rate <= 100
    /\ WindowSizeOk(a)

ProcessCommandlineArgs ==
    /\ rcopy = "arguments"
    /\ rcopy' = IF ArgumentsOk(given.rcopy) THEN "udp_client_setup" ELSE "exited"
    /\ bufSize' = Unsigned(given.rcopy.size)
    /\ win_size' = Unsigned(given.rcopy.window)
    /\ UNCHANGED <<given, packet, remote, chunk, ofServer, ofChild>>

\* Mutated form: the port is an int all the way.
UdpClientSetupInt ==
    /\ rcopy = "udp_client_setup"
    /\ rcopy' = "SEND_REMOTE_FILE_NAME"
    /\ remote' = IF given.rcopy.found THEN given.rcopy.port ELSE remote
    /\ UNCHANGED <<given, packet, bufSize, win_size, chunk, ofServer, ofChild>>

\* If the host is not found udp_client_setup returns -1, and main goes on.
UdpClientSetup ==
    /\ rcopy = "udp_client_setup"
    /\ rcopy' = "SEND_REMOTE_FILE_NAME"
    /\ remote' = IF given.rcopy.found THEN Port(given.rcopy.port) ELSE remote
    /\ UNCHANGED <<given, packet, bufSize, win_size, chunk, ofServer, ofChild>>

-----------------------------------------------------------------------------
(* The server: process_commandline_args and udp_server                     *)

ServerProcessCommandlineArgs ==
    /\ server = "arguments"
    /\ server' = IF given.server.rate >= 0 /\ given.server.rate < 100
                 THEN "udp_server" ELSE "exited"
    /\ UNCHANGED <<given, packet, ofRcopy, port, ofChild>>

\* bindMod: getenv returns a pointer for an empty variable too, and atol 0 for it.
BindPort ==
    IF given.envPort = Unset THEN Port(given.server.port)
    ELSE IF given.envPort = Empty THEN 0
    ELSE Port(given.envPort)

UdpServer ==
    /\ server = "udp_server"
    /\ server' = "loop"
    /\ port' = IF BindPort = 0 THEN Kernel ELSE BindPort
    /\ UNCHANGED <<given, packet, ofRcopy, ofChild>>

\* socket or bind fails.
UdpServerFails ==
    /\ server = "udp_server"
    /\ server' = "exited"
    /\ UNCHANGED <<given, packet, ofRcopy, port, ofChild>>

-----------------------------------------------------------------------------
(* The packets of the setup                                                *)

\* send_buf adds 8 to the length; wait_for_setup_acks then waits for the answer.
Ask(state, flag, len, value) ==
    /\ rcopy = state
    /\ rcopy' = "WAIT_FOR_SETUP_ACKS"
    /\ packet' = [flag |-> flag, len |-> len + 8, value |-> value]
    /\ UNCHANGED <<given, bufSize, win_size, remote, chunk, ofServer, ofChild>>

\* The length of the name and the name.
SendRemoteFileName ==
    Ask("SEND_REMOTE_FILE_NAME", "FILE_NAME", NumLen + given.rcopy.remote, given.rcopy.remote)
SendBufferSize == Ask("SEND_BUFFER_SIZE", "BUFFER_SIZE", NumLen, bufSize)
SendWindowSize == Ask("SEND_WINDOW_SIZE", "WINDOW_SIZE", NumLen, win_size)

Ack(flag) ==
    /\ packet' = [flag |-> flag, len |-> 8, value |-> 0]
    /\ UNCHANGED <<given, ofRcopy, ofServer>>

\* The main process forks the child, which opens the file; Upload has the case that
\* it cannot.  If the server has refused its arguments nobody listens.
ReceivedRemoteFileName ==
    /\ packet.flag = "FILE_NAME" /\ server = "loop" /\ remote = port
    /\ packet.len <= MAX_PACKET_LEN
    /\ child' = "READY_FOR_NEXT_SETUP_PACKET"
    /\ fileName' = packet.value
    /\ Ack("ACK_FILE_NAME")
    /\ UNCHANGED <<childBufSize, childWinSize, written>>

\* "buffer is known to be of appropriate size": neither setting is checked.
ReceivedBufferSize ==
    /\ packet.flag = "BUFFER_SIZE"
    /\ childBufSize' = packet.value
    /\ Ack("ACK_BUFFER_SIZE")
    /\ UNCHANGED <<child, fileName, childWinSize, written>>

\* Mutated form: the size goes where the other setting is kept.
ReceivedWindowSizeMisplaced ==
    /\ packet.flag = "WINDOW_SIZE"
    /\ childBufSize' = packet.value
    /\ Ack("ACK_WINDOW_SIZE")
    /\ UNCHANGED <<child, fileName, childWinSize, written>>

ReceivedWindowSize ==
    /\ packet.flag = "WINDOW_SIZE"
    /\ childWinSize' = packet.value
    /\ Ack("ACK_WINDOW_SIZE")
    /\ UNCHANGED <<child, fileName, childBufSize, written>>

\* recv_buf takes over the address of the child.
AfterAck(flag, state) ==
    /\ rcopy = "WAIT_FOR_SETUP_ACKS"
    /\ packet.flag = flag
    /\ rcopy' = state
    /\ remote' = Kernel
    /\ packet' = NoPacket
    /\ UNCHANGED <<given, bufSize, win_size, chunk, ofServer, ofChild>>

WaitForSetupAcks ==
    \/ AfterAck("ACK_FILE_NAME", "SEND_BUFFER_SIZE")
    \/ AfterAck("ACK_BUFFER_SIZE", "SEND_WINDOW_SIZE")
    \/ AfterAck("ACK_WINDOW_SIZE", "SEND_DATA")

\* Nobody has answered for as often as wait_for_setup_acks asks.
TimeoutOnSetupServer ==
    /\ rcopy = "WAIT_FOR_SETUP_ACKS"
    /\ packet.flag \in {"FILE_NAME", "BUFFER_SIZE", "WINDOW_SIZE"}
    /\ rcopy' = "exited"
    /\ packet' = NoPacket
    /\ UNCHANGED <<given, bufSize, win_size, remote, chunk, ofServer, ofChild>>

-----------------------------------------------------------------------------
(* The first data packet                                                   *)

\* What read returns: the file as far as bufSize goes.
LenRead == IF given.rcopy.file < bufSize THEN given.rcopy.file ELSE bufSize

\* The data are at PacketHeaderLen + NumLen of a buffer of BufferChunkLen.
Overruns == LenRead > MAX_PACKET_LEN \/ PacketHeaderLen + NumLen + LenRead > BufferChunkLen

\* win_cur % win_size, and &window[...] where calloc returned NULL.
NoSlot(size) == size = 0 \/ size > MaxSlots

\* send_data: the packet leaves before its slot in the window is computed; of an
\* empty file nothing leaves and no slot is asked for.
SendData ==
    /\ rcopy = "SEND_DATA"
    /\ rcopy' = IF Overruns \/ (LenRead # 0 /\ NoSlot(win_size)) THEN "crashed" ELSE "RECEIVE_DATA"
    /\ chunk' = LenRead
    /\ packet' = IF Overruns \/ LenRead = 0 THEN NoPacket
                 ELSE [flag |-> "DATA", len |-> LenRead + 8 + NumLen, value |-> LenRead]
    /\ UNCHANGED <<given, bufSize, win_size, remote, ofServer, ofChild>>

\* Mutated form: the padding after the header is not counted.
FileDataLenUnpadded(len) == len - PacketHeaderLen - NumLen

FileDataLen(len) == len - PacketHeaderLen - NumLen - 1

\* ready_for_data_packet_setup: the index of the loop over the slots is a uint8_t.
IndexMod == 256

\* The window of the child is ready; with a size of 0 there is nothing to prepare.
WindowPrepared == childWinSize = 0 \/ (~NoSlot(childWinSize) /\ childWinSize < IndexMod)

\* ready_for_data_packet_setup and handle_expected_packet_number; a longer packet is
\* cut and fails its checksum.  Without memory the first slot is a null pointer, and
\* with too many slots the loop does not end; the chunk is written before a slot is
\* computed.
ReceivedData ==
    /\ packet.flag = "DATA"
    /\ packet' = NoPacket
    /\ \/ /\ packet.len > MAX_PACKET_LEN
          /\ UNCHANGED ofChild
       \/ /\ packet.len <= MAX_PACKET_LEN
          /\ child' = IF NoSlot(childWinSize) THEN "crashed"
                      ELSE IF WindowPrepared THEN "READY_FOR_NEXT_DATA_PACKET" ELSE "caught"
          /\ written' = IF WindowPrepared THEN FileDataLen(packet.len) ELSE written
          /\ UNCHANGED <<fileName, childBufSize, childWinSize>>
    /\ UNCHANGED <<given, ofRcopy, ofServer>>

-----------------------------------------------------------------------------
RcopyNext ==
    \/ ProcessCommandlineArgs \/ UdpClientSetup
    \/ SendRemoteFileName \/ SendBufferSize \/ SendWindowSize
    \/ WaitForSetupAcks \/ TimeoutOnSetupServer
    \/ SendData

ServerNext == ServerProcessCommandlineArgs \/ UdpServer \/ UdpServerFails

ChildNext ==
    \/ ReceivedRemoteFileName \/ ReceivedBufferSize \/ ReceivedWindowSize
    \/ ReceivedData

Next == RcopyNext \/ ServerNext \/ ChildNext

Spec == Init /\ [][Next]_vars

-----------------------------------------------------------------------------
(* The properties.                                                         *)

Passed   == rcopy \notin {"arguments", "exited"}
Sending  == rcopy \in {"SEND_DATA", "RECEIVE_DATA", "crashed"}

StartUpTypeOK ==
    /\ given \in [rcopy : RcopyArgs, server : ServerArgs, envPort : EnvPorts]
    /\ rcopy \in {"arguments", "exited", "udp_client_setup", "SEND_REMOTE_FILE_NAME",
                  "SEND_BUFFER_SIZE", "SEND_WINDOW_SIZE", "WAIT_FOR_SETUP_ACKS",
                  "SEND_DATA", "RECEIVE_DATA", "crashed"}
    /\ server \in {"arguments", "udp_server", "loop", "exited"}
    /\ child \in {"none", "READY_FOR_NEXT_SETUP_PACKET", "READY_FOR_NEXT_DATA_PACKET",
                  "caught", "crashed"}
    /\ packet \in [flag : {"none", "FILE_NAME", "BUFFER_SIZE", "WINDOW_SIZE", "ACK_FILE_NAME",
                           "ACK_BUFFER_SIZE", "ACK_WINDOW_SIZE", "DATA"}, len : Nat, value : Nat]
    /\ bufSize \in Nat /\ win_size \in Nat /\ chunk \in Nat /\ written \in Int

\* What the packet under way holds, and when it may be there.
PacketAsSent ==
    /\ packet.flag \notin {"none", "DATA"} => rcopy = "WAIT_FOR_SETUP_ACKS"
    /\ packet.flag = "none" => packet = NoPacket
    /\ packet.flag = "FILE_NAME" =>
           packet.value = given.rcopy.remote /\ packet.len = packet.value + 12
    /\ packet.flag = "BUFFER_SIZE" => packet.value = bufSize /\ packet.len = 12
    /\ packet.flag = "WINDOW_SIZE" => packet.value = win_size /\ packet.len = 12
    /\ packet.flag \in {"ACK_FILE_NAME", "ACK_BUFFER_SIZE", "ACK_WINDOW_SIZE"} => packet.len = 8
    /\ packet.flag = "DATA" =>
           /\ rcopy \in {"RECEIVE_DATA", "crashed"}
           /\ ~Overruns /\ chunk = LenRead /\ packet.len = chunk + 12

\* What the child knows by the time rcopy goes on.
ChildKnows ==
    /\ packet.flag \in {"ACK_FILE_NAME", "BUFFER_SIZE", "ACK_BUFFER_SIZE", "WINDOW_SIZE",
                        "ACK_WINDOW_SIZE"} \/ rcopy \in {"SEND_BUFFER_SIZE", "SEND_WINDOW_SIZE"}
       \/ Sending => fileName = given.rcopy.remote
    /\ packet.flag \in {"ACK_BUFFER_SIZE", "WINDOW_SIZE", "ACK_WINDOW_SIZE"}
       \/ rcopy = "SEND_WINDOW_SIZE" \/ Sending => childBufSize = bufSize
    /\ packet.flag = "ACK_WINDOW_SIZE" \/ Sending => childWinSize = win_size

\* The settings are those of a command line that passed the checks, and both ends
\* of the path are at the ports they were told.
SettingsAsGiven ==
    /\ Passed =>
           /\ ArgumentsOk(given.rcopy)
           /\ bufSize = Unsigned(given.rcopy.size)
           /\ win_size = Unsigned(given.rcopy.window)
    /\ rcopy = "SEND_REMOTE_FILE_NAME" /\ given.rcopy.found => remote = Port(given.rcopy.port)
    /\ server = "loop" => port = (IF BindPort = 0 THEN Kernel ELSE BindPort)
    /\ rcopy = "crashed" => Overruns \/ NoSlot(win_size)
    /\ child = "crashed" => Sending /\ NoSlot(win_size)
    /\ child = "caught" => Sending /\ win_size >= IndexMod
    /\ chunk # 0 => rcopy \in {"RECEIVE_DATA", "crashed"}
    /\ written # 0 => written = chunk

\* The inductive invariant from which the three properties follow.
StartUpInv == StartUpTypeOK /\ PacketAsSent /\ ChildKnows /\ SettingsAsGiven

\* What the limits of rcopy.c:581-608 are for: with a size that is not negative and a
\* window the uint8_t of server.c:456 can count, no buffer overruns, no index is
\* taken modulo 0 and no loop is endless, on either side, and the server gets every
\* packet whole.
AcceptedFits ==
    given.rcopy.size >= 0 /\ given.rcopy.window \in 1 .. 255 =>
        /\ rcopy # "crashed"
        /\ child \notin {"crashed", "caught"}
        /\ packet.len <= MAX_PACKET_LEN

\* server.c:299, 370: of the header's 7 bytes and the packet's 8 the two sides make
\* the same chunk, and the name and the settings arrive as they were given.
WholeChunk ==
    /\ written # 0 => written = chunk
    /\ rcopy = "RECEIVE_DATA" =>
           /\ fileName = given.rcopy.remote
           /\ <<childBufSize, childWinSize>> = <<bufSize, win_size>>

\* rcopy.c:50 and server.c:663: an argument of any size for the port means one port
\* to both programs, if nothing overrides it.
SamePort ==
    /\ rcopy = "SEND_REMOTE_FILE_NAME" /\ server = "loop" /\ given.rcopy.found
    /\ given.envPort = Unset
    /\ given.rcopy.port = given.server.port /\ Port(given.server.port) # 0
    => remote = port
=============================================================================
