----------------------------- MODULE ServerChild -----------------------------
(***************************************************************************)
(* The server's side of an upload, server.c: the main loop, which forks a  *)
(* child for every sound packet that reaches the well-known port, and the  *)
(* child's state machine process_client, one action per state handler.     *)
(* Every child has its own copy of the globals (a record of the function   *)
(* child); the children of one client open the same file.                  *)
(***************************************************************************)
EXTENDS Rcopy

CONSTANTS
    IndexMod,        \* 2^8: the index that initialises the window is a uint8_t
    FreedMayAbort    \* may malloc abort on a freed buffer that was written to?

ASSUME ServerAssumption == IndexMod \in Nat \ {0} /\ FreedMayAbort \in BOOLEAN

VARIABLES
    child,         \* child[k]: the state of process k
    remoteFile,    \* the chunks of the file named by the client
    writeErr       \* "write failed" has been printed

fileVars   == <<remoteFile, writeErr>>
serverVars == <<child, fileVars>>

\* What a file holds where it was never written.
Hole == "zeros"

\* The globals of a child that has not been forked yet.
Unborn ==
    [state      |-> "NONE",        \* STATE of process_client
     recvPacket |-> NoPacket,      \* the packet the current handler works on
     fileGood   |-> FALSE,
     bufGood    |-> FALSE,
     winGood    |-> FALSE,
     timeout    |-> 0,
     win_size   |-> 0,
     cur_RRnum  |-> 0,
     win_min    |-> 0,
     win_max    |-> 0,
     has_SREJ   |-> FALSE,
     num_SREJ   |-> 0,
     window     |-> [i \in Slots |-> NoPacket],   \* len = -1 is NoPacket
     offset     |-> 0]             \* of fileFD, in chunks

ServerInit ==
    /\ child = [k \in Child |-> Unborn]
    /\ remoteFile = <<>>
    /\ writeErr = FALSE

\* Child k's globals become r.
Become(k, r) == child' = [child EXCEPT ![k] = r]

Unforked(k) == child[k].state = "NONE"
Exited(k)   == child[k].state = "DONE"

-----------------------------------------------------------------------------
(* Receiving, and answering.  A handler ends where the next select starts, *)
(* so recvPacket has been cleared again when a child waits.                *)

RecvFromClient(k, i) == Take(toServer, k, i) /\ UNCHANGED <<toClient, faults>>

Respond(k, reply) ==
    /\ IF reply = NoPacket
         THEN UNCHANGED <<toClient, faults>>
         ELSE Transmit(toClient, k, reply)
    /\ UNCHANGED toServer

\* The main loop: a sound packet forks a child, a garbled one does not.  The
\* child takes the packet for a FILE_NAME whatever its flag is.
MainAccept(k) ==
    /\ Unforked(k)
    /\ \E i \in Deliverable(toServer[Main]) :
         LET p == toServer[Main][i] IN
         /\ Take(toServer, Main, i)
         /\ IF p.flag = "CRC_ERROR"
              THEN UNCHANGED child
              ELSE Become(k, [child[k] EXCEPT !.state = "RECEIVED_REMOTE_FILE_NAME",
                                              !.recvPacket = p])
    /\ UNCHANGED <<toClient, faults, fileVars>>

-----------------------------------------------------------------------------
(* Setup.                                                                  *)

\* open() failed; it is not tried again once the file is open.
ReceivedRemoteFileNameNoOpen(k) ==
    /\ child[k].state = "RECEIVED_REMOTE_FILE_NAME"
    /\ DiskMayFail
    /\ ~child[k].fileGood
    /\ Respond(k, Control("REJ_FILE_NAME_NO_OPEN", 0))
    /\ Become(k, [child[k] EXCEPT !.state = "DONE", !.recvPacket = NoPacket])
    /\ UNCHANGED fileVars

\* The first time, open() creates the file or truncates it.
ReceivedRemoteFileName(k) ==
    /\ child[k].state = "RECEIVED_REMOTE_FILE_NAME"
    /\ remoteFile' = IF child[k].fileGood THEN remoteFile ELSE <<>>
    /\ Respond(k, Control("ACK_FILE_NAME", 0))
    /\ Become(k, [child[k] EXCEPT !.state = "READY_FOR_NEXT_SETUP_PACKET",
                                  !.recvPacket = NoPacket,
                                  !.fileGood = TRUE])
    /\ UNCHANGED writeErr

ReceivedBufferSize(k) ==
    /\ child[k].state = "RECEIVED_BUFFER_SIZE"
    /\ Respond(k, Control("ACK_BUFFER_SIZE", 0))
    /\ Become(k, [child[k] EXCEPT !.state = "READY_FOR_NEXT_SETUP_PACKET",
                                  !.recvPacket = NoPacket,
                                  !.bufGood = TRUE])
    /\ UNCHANGED fileVars

ReceivedWindowSize(k) ==
    /\ child[k].state = "RECEIVED_WINDOW_SIZE"
    /\ Respond(k, Control("ACK_WINDOW_SIZE", 0))
    /\ Become(k, [child[k] EXCEPT !.state = "READY_FOR_NEXT_SETUP_PACKET",
                                  !.recvPacket = NoPacket,
                                  !.win_size = child[k].recvPacket.num,
                                  !.winGood = TRUE])
    /\ UNCHANGED fileVars

\* The handler a setup packet leads to.
SetupHandler(k, flag) ==
    CASE flag = "FILE_NAME"   -> "RECEIVED_REMOTE_FILE_NAME"
      [] flag = "BUFFER_SIZE" -> "RECEIVED_BUFFER_SIZE"
      [] flag = "WINDOW_SIZE" -> "RECEIVED_WINDOW_SIZE"
      [] flag = "DATA" /\ child[k].fileGood /\ child[k].bufGood /\ child[k].winGood
                              -> "READY_FOR_DATA_PACKETS_SETUP"
      [] OTHER                -> "READY_FOR_NEXT_SETUP_PACKET"

ReadyForNextSetupPacket(k) ==
    /\ child[k].state = "READY_FOR_NEXT_SETUP_PACKET"
    /\ \E i \in Deliverable(toServer[k]) :
         LET p == toServer[k][i]
             st == SetupHandler(k, p.flag) IN
         /\ RecvFromClient(k, i)
         /\ Become(k, [child[k] EXCEPT !.state = st,
                                       !.recvPacket = IF st = child[k].state THEN NoPacket ELSE p,
                                       !.timeout = 0])
    /\ UNCHANGED fileVars

\* Mutated form: the timeout is not counted.
ReadyForNextSetupPacketTimeoutUncounted(k) ==
    /\ child[k].state = "READY_FOR_NEXT_SETUP_PACKET"
    /\ UNCHANGED <<channelVars, serverVars>>

ReadyForNextSetupPacketTimeout(k) ==
    /\ child[k].state = "READY_FOR_NEXT_SETUP_PACKET"
    /\ Become(k, [child[k] EXCEPT !.state = IF child[k].timeout + 1 > MaxTimeouts
                                              THEN "TIMEOUT_ON_CLIENT" ELSE @,
                                  !.timeout = @ + 1])
    /\ UNCHANGED <<channelVars, fileVars>>

\* Mutated form: the right edge of the window is one short.
ReadyForDataPacketSetupNarrow(k) ==
    /\ child[k].state = "READY_FOR_DATA_PACKETS_SETUP"
    /\ Become(k, [child[k] EXCEPT !.state = "RECEIVED_DATA",
                                  !.cur_RRnum = 1,
                                  !.win_min = 0,
                                  !.win_max = child[k].win_size - 1,
                                  !.window = [i \in Slots |-> NoPacket]])
    /\ UNCHANGED <<channelVars, fileVars>>

\* The loop over the slots ends with an index that is not below win_size.
IndexReaches(size) == \E i \in 0 .. IndexMod - 1 : i >= size

\* The first data packet, kept in recvPacket, is handled right after this.
ReadyForDataPacketSetup(k) ==
    /\ child[k].state = "READY_FOR_DATA_PACKETS_SETUP"
    /\ IndexReaches(child[k].win_size)
    /\ Become(k, [child[k] EXCEPT !.state = "RECEIVED_DATA",
                                  !.cur_RRnum = 1,
                                  !.win_min = 0,
                                  !.win_max = child[k].win_size,
                                  !.has_SREJ = FALSE,
                                  !.num_SREJ = 0,
                                  !.window = [i \in Slots |-> NoPacket]])
    /\ UNCHANGED <<channelVars, fileVars>>

-----------------------------------------------------------------------------
(* The data phase.                                                         *)

\* The handler a packet leads to in the data phase; others are ignored.
DataHandler(flag) ==
    CASE flag = "DATA"        -> "RECEIVED_DATA"
      [] flag = "END_OF_FILE" -> "RECEIVED_EOF"
      [] OTHER                -> "READY_FOR_NEXT_DATA_PACKET"

ReadyForNextDataPacket(k) ==
    /\ child[k].state = "READY_FOR_NEXT_DATA_PACKET"
    /\ \E i \in Deliverable(toServer[k]) :
         LET p == toServer[k][i]
             st == DataHandler(p.flag) IN
         /\ RecvFromClient(k, i)
         /\ Become(k, [child[k] EXCEPT !.state = st,
                                       !.recvPacket = IF st = child[k].state THEN NoPacket ELSE p,
                                       !.timeout = 0])
    /\ UNCHANGED fileVars

\* select waited its 10 seconds.
ReadyForNextDataPacketTimeout(k) ==
    /\ child[k].state = "READY_FOR_NEXT_DATA_PACKET"
    /\ Become(k, [child[k] EXCEPT !.state = "TIMEOUT_ON_CLIENT"])
    /\ UNCHANGED <<channelVars, fileVars>>

is_in_window(k, n) == n - 1 >= child[k].win_min /\ n - 1 < child[k].win_max
are_packets_buffered(w) == \E i \in Slots : w[i] # NoPacket

\* Once the packet that child k waits for has arrived: how many packets are
\* buffered behind it without a gap, ...
RunBehind(k) ==
    LET me == child[k]
        chunk(j) == me.window[(me.cur_RRnum + j) % me.win_size]
    IN CHOOSE n \in 0 .. WinSize :
         /\ \A j \in 0 .. n - 1 : chunk(j) # NoPacket
         /\ n = WinSize \/ chunk(n) = NoPacket

\* ... the slots they occupy, ...
RunSlots(k) ==
    LET me == child[k] IN
    {(me.cur_RRnum + j) % me.win_size : j \in 0 .. RunBehind(k) - 1}

\* Mutated form: the buffered packets are looked up as if cur_RRnum had been
\* incremented already.
RunChunksShifted(k) ==
    LET me == child[k] IN
    <<me.recvPacket.data>> \o
      [j \in 1 .. RunBehind(k) |-> me.window[(me.cur_RRnum + j) % me.win_size].data]

\* ... and the data to write, that packet's first.
RunChunks(k) ==
    LET me == child[k] IN
    <<me.recvPacket.data>> \o
      [j \in 1 .. RunBehind(k) |-> me.window[(me.cur_RRnum + j - 1) % me.win_size].data]

\* The window w once the packets in the slots freed have been written.
Flushed(w, freed) == [i \in Slots |-> IF i \in freed THEN NoPacket ELSE w[i]]

\* What a series of write() calls gets to the file: all of it, or all but a
\* stretch of calls that failed, were reported and passed over.
Written(chunks) ==
    {chunks} \cup
    (IF DiskMayFail
       THEN {SubSeq(chunks, 1, a) \o SubSeq(chunks, a + n + 1, Len(chunks)) :
               a \in 0 .. Len(chunks) - 1, n \in 1 .. Len(chunks)}
       ELSE {})

\* The file f after chunks are written at offset off, past its end or not.
WriteAt(f, off, chunks) ==
    LET end == off + Len(chunks) IN
    IF chunks = <<>> THEN f
    ELSE [i \in 1 .. (IF end > Len(f) THEN end ELSE Len(f)) |->
            IF i > off /\ i <= end THEN chunks[i - off]
            ELSE IF i <= Len(f) THEN f[i] ELSE Hole]

\* Mutated form: the RR acknowledges one packet too many.
RRorSREJAhead(cur, next, w, srej) ==
    IF cur = next /\ ~are_packets_buffered(w) THEN Control("RR", cur + 1)
    ELSE IF cur > next /\ ~srej THEN Control("SREJ", cur)
    ELSE NoPacket

\* send_RR_or_SREJ, as the packet it sends.
RRorSREJ(cur, next, w, srej) ==
    IF cur = next /\ ~are_packets_buffered(w) THEN Control("RR", cur)
    ELSE IF cur > next /\ ~srej THEN Control("SREJ", cur)
    ELSE NoPacket

\* The packet child k waits for: write it and the ones buffered behind it
\* (check_for_and_write_buffered_packets), slide the window, answer.
AcceptData(k, srej) ==
    LET slide == 1 + RunBehind(k)
        next  == child[k].cur_RRnum + slide
        w     == Flushed(child[k].window, RunSlots(k))
        reply == RRorSREJ(next, next, w, srej)
    IN
    /\ \E written \in Written(RunChunks(k)) :
         /\ remoteFile' = WriteAt(remoteFile, child[k].offset, written)
         /\ writeErr' = (writeErr \/ written # RunChunks(k))
         /\ Become(k, [child[k] EXCEPT !.state = "READY_FOR_NEXT_DATA_PACKET",
                                       !.recvPacket = NoPacket,
                                       !.offset = @ + Len(written),
                                       !.cur_RRnum = next,
                                       !.win_min = @ + slide,
                                       !.win_max = @ + slide,
                                       !.window = w,
                                       !.has_SREJ = (srej \/ reply.flag = "SREJ"),
                                       !.num_SREJ = IF reply.flag = "SREJ" THEN next ELSE @])
    /\ Respond(k, reply)

AnswersSREJ(k) == child[k].has_SREJ /\ child[k].recvPacket.num = child[k].num_SREJ

\* Mutated form: has_SREJ is not reset.
HandleExpectedSREJPacketStuck(k) ==
    /\ child[k].state = "RECEIVED_DATA"
    /\ AnswersSREJ(k)
    /\ AcceptData(k, TRUE)

HandleExpectedSREJPacket(k) ==
    /\ child[k].state = "RECEIVED_DATA"
    /\ AnswersSREJ(k)
    /\ AcceptData(k, FALSE)

\* Mutated form: any packet not seen yet is taken for the expected one.
HandleExpectedPacketNumberAny(k) ==
    /\ child[k].state = "RECEIVED_DATA"
    /\ ~AnswersSREJ(k)
    /\ child[k].recvPacket.num >= child[k].cur_RRnum
    /\ AcceptData(k, child[k].has_SREJ)

HandleExpectedPacketNumber(k) ==
    /\ child[k].state = "RECEIVED_DATA"
    /\ ~AnswersSREJ(k)
    /\ child[k].recvPacket.num = child[k].cur_RRnum
    /\ AcceptData(k, child[k].has_SREJ)

\* Mutated form: the answer carries the number of the packet that came.
HandleClientRecoveryPast(k) ==
    /\ child[k].state = "RECEIVED_DATA"
    /\ ~AnswersSREJ(k)
    /\ child[k].recvPacket.num < child[k].cur_RRnum
    /\ Respond(k, Control(IF are_packets_buffered(child[k].window) THEN "SREJ" ELSE "RR",
                          child[k].recvPacket.num))
    /\ Become(k, [child[k] EXCEPT !.state = "READY_FOR_NEXT_DATA_PACKET",
                                  !.recvPacket = NoPacket])
    /\ UNCHANGED fileVars

HandleClientRecovery(k) ==
    /\ child[k].state = "RECEIVED_DATA"
    /\ ~AnswersSREJ(k)
    /\ child[k].recvPacket.num < child[k].cur_RRnum
    /\ Respond(k, Control(IF are_packets_buffered(child[k].window) THEN "SREJ" ELSE "RR",
                          child[k].cur_RRnum))
    /\ Become(k, [child[k] EXCEPT !.state = "READY_FOR_NEXT_DATA_PACKET",
                                  !.recvPacket = NoPacket])
    /\ UNCHANGED fileVars

BufferPacket(k) ==
    LET me == child[k]
        n  == me.recvPacket.num
    IN
    /\ me.state = "RECEIVED_DATA"
    /\ ~AnswersSREJ(k)
    /\ n > me.cur_RRnum
    /\ Respond(k, IF me.has_SREJ THEN NoPacket ELSE Control("SREJ", me.cur_RRnum))
    /\ Become(k, [child[k] EXCEPT !.state = "READY_FOR_NEXT_DATA_PACKET",
                                  !.recvPacket = NoPacket,
                                  !.window = IF is_in_window(k, n)
                                    THEN [@ EXCEPT ![(n - 1) % me.win_size] = me.recvPacket]
                                    ELSE @,
                                  !.num_SREJ = IF me.has_SREJ THEN @ ELSE me.cur_RRnum,
                                  !.has_SREJ = TRUE])
    /\ UNCHANGED fileVars

\* Mutated form: the child ends without answering.
ReceivedEofSilent(k) ==
    /\ child[k].state = "RECEIVED_EOF"
    /\ Become(k, [child[k] EXCEPT !.state = "DONE", !.recvPacket = NoPacket])
    /\ UNCHANGED <<channelVars, fileVars>>

\* ACK_EOF is written into sendPacket, freed just before, and copied out of it
\* before anything is allocated, so what is sent is intact.
ReceivedEof(k) ==
    /\ child[k].state = "RECEIVED_EOF"
    /\ Respond(k, Control("ACK_EOF", 0))
    /\ Become(k, [child[k] EXCEPT !.state = "DONE", !.recvPacket = NoPacket])
    /\ UNCHANGED fileVars

\* But infoSeqNo::run allocates between that write and sendto: an allocator that
\* checks the lists of freed chunks finds them overwritten and ends the process.
ReceivedEofAborts(k) ==
    /\ FreedMayAbort
    /\ child[k].state = "RECEIVED_EOF"
    /\ Become(k, [child[k] EXCEPT !.state = "DONE"])
    /\ UNCHANGED <<channelVars, fileVars>>

TimeoutOnClient(k) ==
    /\ child[k].state = "TIMEOUT_ON_CLIENT"
    /\ Become(k, [child[k] EXCEPT !.state = "DONE"])
    /\ UNCHANGED <<channelVars, fileVars>>

-----------------------------------------------------------------------------
ChildTimeout(k) ==
    \/ ReadyForNextSetupPacketTimeout(k)
    \/ ReadyForNextDataPacketTimeout(k)

ChildStep(k) ==
    \/ ReceivedRemoteFileNameNoOpen(k)
    \/ ReceivedRemoteFileName(k)
    \/ ReceivedBufferSize(k)
    \/ ReceivedWindowSize(k)
    \/ ReadyForNextSetupPacket(k)
    \/ ReadyForDataPacketSetup(k)
    \/ ReadyForNextDataPacket(k)
    \/ HandleExpectedSREJPacket(k)
    \/ HandleExpectedPacketNumber(k)
    \/ HandleClientRecovery(k)
    \/ BufferPacket(k)
    \/ ReceivedEof(k)
    \/ ReceivedEofAborts(k)
    \/ TimeoutOnClient(k)
=============================================================================
