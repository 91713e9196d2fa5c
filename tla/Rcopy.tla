-------------------------------- MODULE Rcopy --------------------------------
(***************************************************************************)
(* The client, rcopy.c: the state machine of enter_state_machine, one      *)
(* action per state handler.  A handler that selects on the socket is two  *)
(* actions, one for a packet that arrives and one for the timeout.         *)
(***************************************************************************)
EXTENDS Channel

CONSTANTS
    LocalFile,    \* what the successive read(bufSize) calls return
    WinSize,      \* win_size, from the command line
    MaxTimeouts,  \* consecutive timeouts tolerated (10 in the code)
    WordMod,      \* 2^32: uint32_t arithmetic wraps here
    DiskMayFail   \* may open(), read() and write() fail?

ASSUME RcopyAssumption ==
    /\ LocalFile \in Seq({LocalFile[i] : i \in DOMAIN LocalFile})
    /\ WinSize \in Nat \ {0}
    /\ MaxTimeouts \in Nat
    /\ WordMod \in Nat \ {0}
    /\ DiskMayFail \in BOOLEAN

VARIABLES
    c_state,           \* STATE of enter_state_machine
    c_exit,            \* why the client left its loop
    remote,            \* server->remote: Main, then whoever was heard last
    fileSuccess, bufSuccess,
    c_timeout,
    c_win_min, c_win_max, c_win_cur,
    cur_packet_num,
    doneTransmitting,
    readPos,           \* file offset of localFile, in chunks
    SREJ_num,          \* the SREJ_num of enter_state_machine
    c_window           \* BufferChunk *window

setupVars  == <<remote, fileSuccess, bufSuccess>>
sendVars   == <<c_win_cur, cur_packet_num, doneTransmitting, readPos, c_window>>
windowVars == <<c_win_min, c_win_max>>
rcopyVars  == <<c_state, c_exit, c_timeout, SREJ_num, setupVars, sendVars, windowVars>>

Slots == 0 .. WinSize - 1

isWindowClosed(done, cur, max) == done \/ cur >= max

ClientDone == c_state \in {"DONE", "EXIT"}

RcopyInit ==
    /\ c_state = "SEND_REMOTE_FILE_NAME"
    /\ c_exit = "running"
    /\ remote = Main
    /\ fileSuccess = FALSE /\ bufSuccess = FALSE
    /\ c_timeout = 0
    /\ c_win_min = 0 /\ c_win_max = 0 /\ c_win_cur = 0
    /\ cur_packet_num = 0
    /\ doneTransmitting = FALSE
    /\ readPos = 0
    /\ SREJ_num = 0
    /\ c_window = [i \in Slots |-> NoPacket]

-----------------------------------------------------------------------------
(* Leaving the loop, sending and receiving.                                *)

Quit(why) == c_state' = "DONE" /\ c_exit' = why
Goto(st)  == c_state' = st /\ UNCHANGED c_exit

SendToServer(p) == Transmit(toServer, remote, p) /\ UNCHANGED toClient

\* Mutated form: the sender's address is not stored.
RecvFromServerKeepRemote(k, i) ==
    /\ Take(toClient, k, i)
    /\ UNCHANGED <<remote, toServer, faults>>

\* recvfrom stores the sender's address, even of a packet in_cksum rejects.
RecvFromServer(k, i) ==
    /\ Take(toClient, k, i)
    /\ remote' = k
    /\ UNCHANGED <<toServer, faults>>

-----------------------------------------------------------------------------
(* Setup: file name, buffer size and window size, each acknowledged.       *)

SendSetup(st, p) ==
    /\ c_state = st
    /\ SendToServer(p)
    /\ Goto("WAIT_FOR_SETUP_ACKS")
    /\ UNCHANGED <<c_timeout, SREJ_num, setupVars, sendVars, windowVars>>

SendRemoteFileName == SendSetup("SEND_REMOTE_FILE_NAME", Control("FILE_NAME", 0))
SendBufferSize     == SendSetup("SEND_BUFFER_SIZE", Control("BUFFER_SIZE", 0))
SendWindowSize     == SendSetup("SEND_WINDOW_SIZE", Control("WINDOW_SIZE", WinSize))

\* The state a setup reply leads to; any other packet is ignored.
AfterSetupReply(flag) ==
    CASE flag = "ACK_FILE_NAME"   -> "SEND_BUFFER_SIZE"
      [] flag = "REJ_FILE_NAME"   -> "SEND_REMOTE_FILE_NAME"
      [] flag = "ACK_BUFFER_SIZE" -> "SEND_WINDOW_SIZE"
      [] flag = "REJ_BUFFER_SIZE" -> "SEND_BUFFER_SIZE"
      [] flag = "ACK_WINDOW_SIZE" -> "READY_TO_SEND_DATA_SETUP"
      [] flag = "REJ_WINDOW_SIZE" -> "SEND_WINDOW_SIZE"
      [] OTHER                    -> "WAIT_FOR_SETUP_ACKS"

WaitForSetupAcks ==
    /\ c_state = "WAIT_FOR_SETUP_ACKS"
    /\ \E k \in Child : \E i \in Deliverable(toClient[k]) :
         LET flag == toClient[k][i].flag IN
         /\ RecvFromServer(k, i)
         /\ IF flag = "REJ_FILE_NAME_NO_OPEN"
              THEN Quit("rejected")
              ELSE Goto(AfterSetupReply(flag))
         /\ fileSuccess' = (fileSuccess \/ flag = "ACK_FILE_NAME")
         /\ bufSuccess' = (bufSuccess \/ flag = "ACK_BUFFER_SIZE")
    /\ c_timeout' = 0
    /\ UNCHANGED <<SREJ_num, sendVars, windowVars>>

\* Mutated form: the timeout is not counted.
WaitForSetupAcksTimeoutUncounted ==
    /\ c_state = "WAIT_FOR_SETUP_ACKS"
    /\ Goto(IF ~fileSuccess THEN "SEND_REMOTE_FILE_NAME"
            ELSE IF ~bufSuccess THEN "SEND_BUFFER_SIZE"
            ELSE "SEND_WINDOW_SIZE")
    /\ UNCHANGED <<channelVars, c_timeout, SREJ_num, setupVars, sendVars, windowVars>>

WaitForSetupAcksTimeout ==
    /\ c_state = "WAIT_FOR_SETUP_ACKS"
    /\ c_timeout' = c_timeout + 1
    /\ Goto(IF c_timeout' > MaxTimeouts THEN "TIMEOUT_ON_SETUP_SERVER"
            ELSE IF ~fileSuccess THEN "SEND_REMOTE_FILE_NAME"
            ELSE IF ~bufSuccess THEN "SEND_BUFFER_SIZE"
            ELSE "SEND_WINDOW_SIZE")
    /\ UNCHANGED <<channelVars, SREJ_num, setupVars, sendVars, windowVars>>

ReadyToSendDataSetup ==
    /\ c_state = "READY_TO_SEND_DATA_SETUP"
    /\ c_window' = [i \in Slots |-> NoPacket]
    /\ cur_packet_num' = 1
    /\ c_win_min' = 0
    /\ c_win_cur' = 0
    /\ c_win_max' = WinSize
    /\ c_timeout' = 0
    /\ Goto("SEND_DATA")
    /\ UNCHANGED <<channelVars, setupVars, doneTransmitting, readPos, SREJ_num>>

-----------------------------------------------------------------------------
(* Sending data, new or from the window.                                   *)

AfterSend(cur) ==
    IF isWindowClosed(doneTransmitting, cur, c_win_max)
      THEN "RECEIVE_DATA_WINDOW_CLOSED" ELSE "RECEIVE_DATA_WINDOW_OPEN"

\* Mutated form: the slot is found by the packet's number, which begins with 1.
SendDataMisplaced ==
    /\ c_state = "SEND_DATA"
    /\ readPos < Len(LocalFile)
    /\ LET p == Packet("DATA", cur_packet_num, LocalFile[readPos + 1]) IN
         /\ SendToServer(p)
         /\ c_window' = [c_window EXCEPT ![cur_packet_num % WinSize] = p]
    /\ c_win_cur' = c_win_cur + 1
    /\ cur_packet_num' = cur_packet_num + 1
    /\ readPos' = readPos + 1
    /\ Goto(AfterSend(c_win_cur + 1))
    /\ UNCHANGED <<c_timeout, SREJ_num, setupVars, doneTransmitting, windowVars>>

\* read() returned data: send it and keep it in the window.
SendData ==
    /\ c_state = "SEND_DATA"
    /\ readPos < Len(LocalFile)
    /\ LET p == Packet("DATA", cur_packet_num, LocalFile[readPos + 1]) IN
         /\ SendToServer(p)
         /\ c_window' = [c_window EXCEPT ![c_win_cur % WinSize] = p]
    /\ c_win_cur' = c_win_cur + 1
    /\ cur_packet_num' = cur_packet_num + 1
    /\ readPos' = readPos + 1
    /\ Goto(AfterSend(c_win_cur + 1))
    /\ UNCHANGED <<c_timeout, SREJ_num, setupVars, doneTransmitting, windowVars>>

\* read() returned 0.
SendDataEndOfFile ==
    /\ c_state = "SEND_DATA"
    /\ readPos = Len(LocalFile)
    /\ doneTransmitting' = TRUE
    /\ Goto("RECEIVE_DATA_WINDOW_CLOSED")
    /\ UNCHANGED <<channelVars, c_timeout, SREJ_num, setupVars, windowVars,
                   c_win_cur, cur_packet_num, readPos, c_window>>

\* read() failed.
SendDataReadError ==
    /\ c_state = "SEND_DATA"
    /\ DiskMayFail
    /\ Quit("read error")
    /\ UNCHANGED <<channelVars, c_timeout, SREJ_num, setupVars, sendVars, windowVars>>

\* Resend what the slot of index holds; sendtoErr exits on an empty slot.
SendDataFromWindow(index) ==
    LET chunk == c_window[index % WinSize] IN
    IF chunk = NoPacket
      THEN /\ c_state' = "EXIT" /\ c_exit' = "zero length"
           /\ UNCHANGED channelVars
      ELSE /\ SendToServer(chunk)
           /\ Goto(AfterSend(c_win_cur))

SendDataSrej ==
    /\ c_state = "SEND_DATA_SREJ"
    /\ SendDataFromWindow((SREJ_num + WordMod - 1) % WordMod)
    /\ UNCHANGED <<c_timeout, SREJ_num, setupVars, sendVars, windowVars>>

-----------------------------------------------------------------------------
(* Receiving while data is in flight.                                      *)

\* Mutated form: the number of the RR is not looked at.
AfterAnyRR(n) == IF doneTransmitting THEN "SEND_EOF_AND_QUIT" ELSE "SEND_DATA"

\* Where an RR leads: to the end once all is read and acknowledged.
AfterRR(n) ==
    IF doneTransmitting /\ n = cur_packet_num THEN "SEND_EOF_AND_QUIT" ELSE "SEND_DATA"

\* process_incoming_data: where a packet leads, and what it does to the window.
ProcessIncomingData(p) ==
    \/ /\ p.flag = "CRC_ERROR"
       /\ Goto(IF isWindowClosed(doneTransmitting, c_win_cur, c_win_max)
                 THEN "RECEIVE_DATA_WINDOW_CLOSED" ELSE "SEND_DATA")
       /\ UNCHANGED windowVars
    \/ /\ p.flag = "RR"
       /\ c_win_min' = p.num - 1
       /\ c_win_max' = p.num + WinSize - 1
       /\ Goto(AfterRR(p.num))
    \/ /\ p.flag = "SREJ"
       /\ Goto("SEND_DATA_SREJ")
       /\ UNCHANGED windowVars
    \/ /\ p.flag = "ACK_EOF"
       /\ Quit("ack eof")
       /\ UNCHANGED windowVars
    \/ /\ p.flag \notin {"CRC_ERROR", "RR", "SREJ", "ACK_EOF"}
       /\ Quit("unidentified")
       /\ UNCHANGED windowVars

\* Mutated form: here too the number goes to a variable of the handler's own.
ReceiveDataShadowed(st) ==
    /\ c_state = st
    /\ \E k \in Child : \E i \in Deliverable(toClient[k]) :
         /\ RecvFromServer(k, i)
         /\ ProcessIncomingData(toClient[k][i])
    /\ c_timeout' = 0
    /\ UNCHANGED <<SREJ_num, fileSuccess, bufSuccess, sendVars>>

\* The select that precedes process_incoming_data returned data; a SREJ's
\* number is stored through the caller's pointer into the loop's SREJ_num.
ReceiveData(st) ==
    /\ c_state = st
    /\ \E k \in Child : \E i \in Deliverable(toClient[k]) :
         LET p == toClient[k][i] IN
         /\ RecvFromServer(k, i)
         /\ ProcessIncomingData(p)
         /\ SREJ_num' = IF p.flag = "SREJ" THEN p.num ELSE SREJ_num
    /\ c_timeout' = 0
    /\ UNCHANGED <<fileSuccess, bufSuccess, sendVars>>

ReceiveDataWindowOpen   == ReceiveData("RECEIVE_DATA_WINDOW_OPEN")
ReceiveDataWindowClosed == ReceiveData("RECEIVE_DATA_WINDOW_CLOSED")

\* select(0) found nothing.
ReceiveDataWindowOpenEmpty ==
    /\ c_state = "RECEIVE_DATA_WINDOW_OPEN"
    /\ Goto(IF c_win_cur < c_win_max THEN "SEND_DATA" ELSE "RECEIVE_DATA_WINDOW_CLOSED")
    /\ UNCHANGED <<channelVars, c_timeout, SREJ_num, setupVars, sendVars, windowVars>>

\* Mutated form: the packet sent last is resent, not the lowest of the window.
ReceiveDataWindowClosedTimeoutLast ==
    /\ c_state = "RECEIVE_DATA_WINDOW_CLOSED"
    /\ c_timeout' = c_timeout + 1
    /\ IF c_timeout' > MaxTimeouts
         THEN Goto("TIMEOUT_ON_SERVER") /\ UNCHANGED channelVars
         ELSE SendDataFromWindow(c_win_cur - 1)
    /\ UNCHANGED <<SREJ_num, setupVars, sendVars, windowVars>>

ReceiveDataWindowClosedTimeout ==
    /\ c_state = "RECEIVE_DATA_WINDOW_CLOSED"
    /\ c_timeout' = c_timeout + 1
    /\ IF c_timeout' > MaxTimeouts
         THEN Goto("TIMEOUT_ON_SERVER") /\ UNCHANGED channelVars
         ELSE SendDataFromWindow(c_win_min)
    /\ UNCHANGED <<SREJ_num, setupVars, sendVars, windowVars>>

-----------------------------------------------------------------------------
(* End of file.  send_eof_and_quit sends and then blocks in select, so it  *)
(* is a send and, from SEND_EOF_SELECT, a receive or a timeout.            *)

SendEof ==
    /\ c_state = "SEND_EOF_AND_QUIT"
    /\ SendToServer(Control("END_OF_FILE", 0))
    /\ Goto("SEND_EOF_SELECT")
    /\ UNCHANGED <<c_timeout, SREJ_num, setupVars, sendVars, windowVars>>

\* The number of a SREJ goes to a local SREJ_num that shadows the loop's.
SendEofReply ==
    /\ c_state = "SEND_EOF_SELECT"
    /\ \E k \in Child : \E i \in Deliverable(toClient[k]) :
         /\ RecvFromServer(k, i)
         /\ ProcessIncomingData(toClient[k][i])
    /\ c_timeout' = 0
    /\ UNCHANGED <<SREJ_num, fileSuccess, bufSuccess, sendVars>>

SendEofTimeout ==
    /\ c_state = "SEND_EOF_SELECT"
    /\ c_timeout' = c_timeout + 1
    /\ Goto(IF c_timeout' > MaxTimeouts THEN "TIMEOUT_ON_SERVER" ELSE "SEND_EOF_AND_QUIT")
    /\ UNCHANGED <<channelVars, SREJ_num, setupVars, sendVars, windowVars>>

TimeoutOnServer ==
    /\ c_state \in {"TIMEOUT_ON_SETUP_SERVER", "TIMEOUT_ON_SERVER"}
    /\ Quit("timeout")
    /\ UNCHANGED <<channelVars, c_timeout, SREJ_num, setupVars, sendVars, windowVars>>

-----------------------------------------------------------------------------
\* A select that ran its whole second without a packet.
RcopyTimeout ==
    \/ WaitForSetupAcksTimeout
    \/ ReceiveDataWindowClosedTimeout
    \/ SendEofTimeout

RcopyStep ==
    \/ SendRemoteFileName
    \/ SendBufferSize
    \/ SendWindowSize
    \/ WaitForSetupAcks
    \/ ReadyToSendDataSetup
    \/ SendData
    \/ SendDataEndOfFile
    \/ SendDataReadError
    \/ SendDataSrej
    \/ ReceiveDataWindowOpen
    \/ ReceiveDataWindowOpenEmpty
    \/ ReceiveDataWindowClosed
    \/ SendEof
    \/ SendEofReply
    \/ TimeoutOnServer
=============================================================================
