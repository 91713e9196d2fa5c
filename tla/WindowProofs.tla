---------------------------- MODULE WindowProofs -----------------------------
(***************************************************************************)
(* What the children make of the client's packets: their windows hold what *)
(* belongs there, and every chunk in the file is where it belongs.         *)
(***************************************************************************)
EXTENDS UploadProofs

WindowInv ==
    /\ WireInv
    /\ \A k \in Child : ChildWindow(child[k])
    /\ FileMatches

-----------------------------------------------------------------------------
(* Steps that leave the windows and the file alone.                        *)

\* A window is judged the same, or milder, when the client has read on.
LEMMA ChildWindowGrows ==
    ASSUME readPos \in Nat, readPos' \in Nat, readPos <= readPos',
           NEW me \in ChildTypes, ChildWindow(me)
    PROVE  ChildWindow(me)'
<1>1. me.cur_RRnum \in Nat
  BY DEF ChildTypes
<1>2. me.cur_RRnum <= readPos + 1 => me.cur_RRnum <= readPos' + 1
  BY <1>1
<1> QED BY <1>2 DEF ChildWindow

\* A step of the client leaves the children and the file as they are.
LEMMA ClientKeepsWindows ==
    ASSUME WindowInv, WireInv', UNCHANGED serverVars, readPos <= readPos'
    PROVE  WindowInv'
<1>1. readPos \in Nat /\ readPos' \in Nat /\ child \in [Child -> ChildTypes]
  BY FileType DEF WindowInv, WireInv, ClientInv, ClientTypeOK, ServerTypeOK
<1>2. child' = child /\ remoteFile' = remoteFile /\ writeErr' = writeErr
  BY DEF serverVars, fileVars
<1>3. ASSUME NEW k \in Child PROVE ChildWindow(child[k])'
  <2>1. PICK me \in ChildTypes : me = child[k]
    BY <1>1
  <2>2. ChildWindow(me)
    BY <2>1 DEF WindowInv, ChildWindow
  <2>3. ChildWindow(me)'
    BY <1>1, <2>2, ChildWindowGrows
  <2> QED BY <1>2, <2>1, <2>3 DEF ChildWindow
<1>4. FileMatches'
  BY <1>2 DEF WindowInv, FileMatches, Receiving, OnlyOpener
<1> QED BY <1>3, <1>4 DEF WindowInv

\* A step that changes the record of child k to r, well windowed, and keeps the
\* file's promises.
LEMMA WindowStep ==
    ASSUME WindowInv, WireInv', UNCHANGED rcopyVars, NEW k \in Child, NEW r \in ChildTypes,
           Become(k, r), ChildWindow(r), FileMatches'
    PROVE  WindowInv'
<1>1. child \in [Child -> ChildTypes] /\ readPos' = readPos
  BY DEF WindowInv, WireInv, ServerTypeOK, rcopyVars, sendVars
<1>2. child'[k] = r /\ \A j \in Child \ {k} : child'[j] = child[j]
  BY <1>1, BecomeType
<1>3. ASSUME NEW j \in Child PROVE ChildWindow(child[j])'
  <2>1. CASE j = k
    BY <1>1, <1>2, <2>1 DEF ChildWindow
  <2>2. CASE j # k
    BY <1>1, <1>2, <2>2 DEF WindowInv, ChildWindow
  <2> QED BY <2>1, <2>2
<1> QED BY <1>3 DEF WindowInv

\* The file's promises are kept by a step that leaves the file alone, and of child
\* k the offset and whether it has the file open.
LEMMA FileKeeps ==
    ASSUME WindowInv, UNCHANGED fileVars, NEW k \in Child, NEW r \in ChildTypes, Become(k, r),
           r.offset = child[k].offset, r.fileGood = child[k].fileGood,
           ~writeErr /\ r.cur_RRnum > 0 => r.offset = r.cur_RRnum - 1
    PROVE  FileMatches'
<1>1. child \in [Child -> ChildTypes] /\ FileMatches
  BY DEF WindowInv, WireInv, ServerTypeOK
<1>2. child'[k] = r /\ \A j \in Child \ {k} : child'[j] = child[j]
  BY <1>1, BecomeType
<1>3. remoteFile' = remoteFile /\ writeErr' = writeErr
  BY DEF fileVars
<1>4. \A j \in Child : child'[j].fileGood = child[j].fileGood /\ child'[j].offset = child[j].offset
  BY <1>2
<1>5. \A j \in Child : OnlyOpener(j)' <=> OnlyOpener(j)
  BY <1>4 DEF OnlyOpener
<1>6. ASSUME NEW j \in Child, ~writeErr, Receiving(j)'
      PROVE  child'[j].offset = child'[j].cur_RRnum - 1
  <2>1. CASE j = k
    BY <1>2, <1>6, <2>1 DEF Receiving
  <2>2. CASE j # k
    BY <1>1, <1>2, <1>6, <2>2 DEF FileMatches, Receiving
  <2> QED BY <2>1, <2>2
<1> QED BY <1>1, <1>3, <1>4, <1>5, <1>6 DEF FileMatches

\* The record a child's step leaves has its type, by the first invariant.
LEMMA NewRecord ==
    ASSUME WindowInv, WireInv', NEW k \in Child, NEW r, Become(k, r)
    PROVE  r \in ChildTypes /\ child[k] \in ChildTypes
<1>1. child \in [Child -> ChildTypes] /\ child' \in [Child -> ChildTypes]
  BY DEF WindowInv, WireInv, ServerTypeOK
<1> QED BY <1>1 DEF Become

\* The record r differs from me in nothing the window or the file depends on.
LikeBefore(r, me) ==
    /\ r.offset = me.offset /\ r.fileGood = me.fileGood
    /\ me.winGood => r.winGood
    /\ r.cur_RRnum = me.cur_RRnum
    /\ r.win_min = me.win_min /\ r.win_max = me.win_max
    /\ r.has_SREJ = me.has_SREJ /\ r.num_SREJ = me.num_SREJ
    /\ r.window = me.window
    /\ r.state \in ChildData => me.state \in ChildData
    /\ r.state \in ChildSetup => me.state \in ChildSetup

\* Most steps of a child leave its window and its place in the file as they are.
LEMMA QuietStep ==
    ASSUME WindowInv, WireInv', UNCHANGED rcopyVars, UNCHANGED fileVars,
           NEW k \in Child, NEW r, Become(k, r), LikeBefore(r, child[k])
    PROVE  WindowInv'
<1>1. ChildWindow(child[k]) /\ child[k] \in ChildTypes /\ r \in ChildTypes
  BY NewRecord DEF WindowInv
<1>2. ChildWindow(r)
  BY <1>1 DEF ChildWindow, LikeBefore
<1>3. ~writeErr /\ r.cur_RRnum > 0 => r.offset = r.cur_RRnum - 1
  BY DEF WindowInv, FileMatches, Receiving, LikeBefore
<1>4. FileMatches'
  BY <1>1, <1>3, FileKeeps DEF LikeBefore
<1> QED BY <1>1, <1>2, <1>4, WindowStep

\* Forking a child, and its setup but for opening the file, leave a record like the
\* one before.
LEMMA QuietSetupRecord ==
    ASSUME WireInv, NEW k \in Child,
           \/ MainAccept(k) \/ ReceivedRemoteFileNameNoOpen(k) \/ ReceivedBufferSize(k)
           \/ ReceivedWindowSize(k) \/ ReadyForNextSetupPacket(k)
           \/ ReadyForNextSetupPacketTimeout(k)
    PROVE  UNCHANGED fileVars /\ \E r : Become(k, r) /\ LikeBefore(r, child[k])
<1>1. child[k] \in ChildTypes /\ child \in [Child -> ChildTypes]
  BY DEF WireInv, ServerTypeOK
<1>2. UNCHANGED fileVars
  BY DEF MainAccept, ReceivedRemoteFileNameNoOpen, ReceivedBufferSize, ReceivedWindowSize,
         ReadyForNextSetupPacket, ReadyForNextSetupPacketTimeout
<1>3. \E r : Become(k, r) /\ LikeBefore(r, child[k])
  <2> USE DEF LikeBefore, ChildTypes, ChildSetup, ChildData
  <2>1. CASE MainAccept(k)
    <3>1. child[k].state = "NONE"
      BY <2>1 DEF MainAccept, Unforked
    <3>2. PICK i : IF toServer[Main][i].flag = "CRC_ERROR"
                     THEN UNCHANGED child
                     ELSE Become(k, [child[k] EXCEPT !.state = "RECEIVED_REMOTE_FILE_NAME",
                                                     !.recvPacket = toServer[Main][i]])
      BY <2>1 DEF MainAccept
    <3>3. CASE UNCHANGED child
      <4>1. Become(k, child[k])
        BY <1>1, <3>3 DEF Become
      <4> QED BY <1>1, <4>1 DEF Become
    <3>4. CASE ~UNCHANGED child
      <4>1. PICK r : r = [child[k] EXCEPT !.state = "RECEIVED_REMOTE_FILE_NAME",
                                          !.recvPacket = toServer[Main][i]]
        OBVIOUS
      <4>2. Become(k, r)
        BY <3>2, <3>4, <4>1 DEF Become
      <4>3. LikeBefore(r, child[k])
        BY <1>1, <3>1, <4>1
      <4> QED BY <4>2, <4>3
    <3> QED BY <3>3, <3>4
  <2>2. CASE ReceivedRemoteFileNameNoOpen(k)
    <3>1. PICK r : r = [child[k] EXCEPT !.state = "DONE", !.recvPacket = NoPacket]
      OBVIOUS
    <3> QED BY <1>1, <2>2, <3>1 DEF ReceivedRemoteFileNameNoOpen
  <2>3. CASE ReceivedBufferSize(k)
    <3>1. PICK r : r = [child[k] EXCEPT !.state = "READY_FOR_NEXT_SETUP_PACKET",
                                        !.recvPacket = NoPacket, !.bufGood = TRUE]
      OBVIOUS
    <3> QED BY <1>1, <2>3, <3>1 DEF ReceivedBufferSize
  <2>4. CASE ReceivedWindowSize(k)
    <3>1. PICK r : r = [child[k] EXCEPT !.state = "READY_FOR_NEXT_SETUP_PACKET",
                                        !.recvPacket = NoPacket,
                                        !.win_size = child[k].recvPacket.num, !.winGood = TRUE]
      OBVIOUS
    <3>2. Become(k, r)
      BY <2>4, <3>1 DEF ReceivedWindowSize, Become
    <3>3. LikeBefore(r, child[k])
      BY <1>1, <2>4, <3>1 DEF ReceivedWindowSize
    <3> QED BY <3>2, <3>3
  <2>5. CASE ReadyForNextSetupPacket(k)
    <3>1. child[k].state = "READY_FOR_NEXT_SETUP_PACKET"
      BY <2>5 DEF ReadyForNextSetupPacket
    <3>2. PICK i : Become(k, [child[k] EXCEPT
                          !.state = SetupHandler(k, toServer[k][i].flag),
                          !.recvPacket = IF SetupHandler(k, toServer[k][i].flag) = child[k].state
                                           THEN NoPacket ELSE toServer[k][i],
                          !.timeout = 0])
      BY <2>5 DEF ReadyForNextSetupPacket
    <3>3. PICK r : r = [child[k] EXCEPT
                          !.state = SetupHandler(k, toServer[k][i].flag),
                          !.recvPacket = IF SetupHandler(k, toServer[k][i].flag) = child[k].state
                                           THEN NoPacket ELSE toServer[k][i],
                          !.timeout = 0]
      OBVIOUS
    <3>4. Become(k, r)
      BY <3>2, <3>3 DEF Become
    <3>5. r.state \in ChildSetup \cup {child[k].state}
      BY <1>1, <3>3 DEF SetupHandler
    <3>6. LikeBefore(r, child[k])
      BY <1>1, <3>1, <3>3, <3>5
    <3> QED BY <3>4, <3>6
  <2>6. CASE ReadyForNextSetupPacketTimeout(k)
    <3>1. child[k].state = "READY_FOR_NEXT_SETUP_PACKET"
      BY <2>6 DEF ReadyForNextSetupPacketTimeout
    <3>2. PICK r : r = [child[k] EXCEPT !.state = IF child[k].timeout + 1 > MaxTimeouts
                                                    THEN "TIMEOUT_ON_CLIENT" ELSE @,
                                        !.timeout = @ + 1]
      OBVIOUS
    <3>3. Become(k, r)
      BY <2>6, <3>2 DEF ReadyForNextSetupPacketTimeout, Become
    <3>4. LikeBefore(r, child[k])
      BY <1>1, <3>1, <3>2
    <3> QED BY <3>3, <3>4
  <2> QED BY <2>1, <2>2, <2>3, <2>4, <2>5, <2>6
<1> QED BY <1>2, <1>3

\* Such steps keep the second invariant.
LEMMA QuietSetup ==
    ASSUME WindowInv, WireInv', UNCHANGED rcopyVars, NEW k \in Child,
           \/ MainAccept(k) \/ ReceivedRemoteFileNameNoOpen(k) \/ ReceivedBufferSize(k)
           \/ ReceivedWindowSize(k) \/ ReadyForNextSetupPacket(k)
           \/ ReadyForNextSetupPacketTimeout(k)
    PROVE  WindowInv'
<1>1. UNCHANGED fileVars /\ \E r : Become(k, r) /\ LikeBefore(r, child[k])
  BY QuietSetupRecord DEF WindowInv
<1> QED BY <1>1, QuietStep

\* So do waiting, answering and ending in the data phase.
LEMMA QuietDataRecord ==
    ASSUME WireInv, NEW k \in Child,
           \/ ReadyForNextDataPacket(k) \/ ReadyForNextDataPacketTimeout(k)
           \/ HandleClientRecovery(k) \/ ReceivedEof(k) \/ TimeoutOnClient(k) \/ ReceivedEofAborts(k)
    PROVE  UNCHANGED fileVars /\ \E r : Become(k, r) /\ LikeBefore(r, child[k])
<1>1. child[k] \in ChildTypes /\ child \in [Child -> ChildTypes]
  BY DEF WireInv, ServerTypeOK
<1>2. UNCHANGED fileVars
  BY DEF ReadyForNextDataPacket, ReadyForNextDataPacketTimeout, HandleClientRecovery, ReceivedEof,
         TimeoutOnClient, ReceivedEofAborts
<1>3. \E r : Become(k, r) /\ LikeBefore(r, child[k])
  <2> USE DEF LikeBefore, ChildTypes, ChildSetup, ChildData
  <2>1. CASE ReadyForNextDataPacket(k)
    <3>1. child[k].state = "READY_FOR_NEXT_DATA_PACKET"
      BY <2>1 DEF ReadyForNextDataPacket
    <3>2. PICK i : Become(k, [child[k] EXCEPT
                          !.state = DataHandler(toServer[k][i].flag),
                          !.recvPacket = IF DataHandler(toServer[k][i].flag) = child[k].state
                                           THEN NoPacket ELSE toServer[k][i],
                          !.timeout = 0])
      BY <2>1 DEF ReadyForNextDataPacket
    <3>3. PICK r : r = [child[k] EXCEPT
                          !.state = DataHandler(toServer[k][i].flag),
                          !.recvPacket = IF DataHandler(toServer[k][i].flag) = child[k].state
                                           THEN NoPacket ELSE toServer[k][i],
                          !.timeout = 0]
      OBVIOUS
    <3>4. Become(k, r)
      BY <3>2, <3>3 DEF Become
    <3>5. r.state \in ChildData
      BY <1>1, <3>3 DEF DataHandler
    <3>6. LikeBefore(r, child[k])
      BY <1>1, <3>1, <3>3, <3>5
    <3> QED BY <3>4, <3>6
  <2>2. CASE HandleClientRecovery(k)
    <3>1. PICK r : r = [child[k] EXCEPT !.state = "READY_FOR_NEXT_DATA_PACKET",
                                        !.recvPacket = NoPacket]
      OBVIOUS
    <3>2. Become(k, r) /\ child[k].state = "RECEIVED_DATA"
      BY <2>2, <3>1 DEF HandleClientRecovery
    <3>3. LikeBefore(r, child[k])
      BY <1>1, <3>1, <3>2
    <3> QED BY <3>2, <3>3
  <2>3. CASE ReceivedEof(k)
    <3>1. PICK r : r = [child[k] EXCEPT !.state = "DONE", !.recvPacket = NoPacket]
      OBVIOUS
    <3>2. Become(k, r)
      BY <2>3, <3>1 DEF ReceivedEof
    <3>3. LikeBefore(r, child[k])
      BY <1>1, <3>1
    <3> QED BY <3>2, <3>3
  <2>4. CASE ReadyForNextDataPacketTimeout(k) \/ TimeoutOnClient(k) \/ ReceivedEofAborts(k)
    <3>1. PICK st \in {"DONE", "TIMEOUT_ON_CLIENT"} : Become(k, [child[k] EXCEPT !.state = st])
      BY <2>4 DEF ReadyForNextDataPacketTimeout, TimeoutOnClient, ReceivedEofAborts
    <3>2. PICK r : r = [child[k] EXCEPT !.state = st]
      OBVIOUS
    <3> QED BY <1>1, <3>1, <3>2
  <2> QED BY <2>1, <2>2, <2>3, <2>4
<1> QED BY <1>2, <1>3

\* Such steps keep the second invariant.
LEMMA QuietData ==
    ASSUME WindowInv, WireInv', UNCHANGED rcopyVars, NEW k \in Child,
           \/ ReadyForNextDataPacket(k) \/ ReadyForNextDataPacketTimeout(k)
           \/ HandleClientRecovery(k) \/ ReceivedEof(k) \/ TimeoutOnClient(k) \/ ReceivedEofAborts(k)
    PROVE  WindowInv'
<1>1. UNCHANGED fileVars /\ \E r : Become(k, r) /\ LikeBefore(r, child[k])
  BY QuietDataRecord DEF WindowInv
<1> QED BY <1>1, QuietStep

-----------------------------------------------------------------------------
(* Opening the file, and beginning the data phase.                         *)

\* A child that opens the file truncates it; then it alone has it open, and has
\* written nothing, or somebody else has it open too.
LEMMA OpenStep ==
    ASSUME WindowInv, WireInv', UNCHANGED rcopyVars, NEW k \in Child, ReceivedRemoteFileName(k)
    PROVE  WindowInv'
<1>1. /\ child[k] \in ChildTypes /\ child \in [Child -> ChildTypes]
      /\ ChildWindow(child[k]) /\ FileMatches
  BY DEF WindowInv, WireInv, ServerTypeOK
<1>2. /\ child[k].state = "RECEIVED_REMOTE_FILE_NAME"
      /\ remoteFile' = IF child[k].fileGood THEN remoteFile ELSE <<>>
      /\ writeErr' = writeErr
  BY DEF ReceivedRemoteFileName
<1>3. PICK r : r = [child[k] EXCEPT !.state = "READY_FOR_NEXT_SETUP_PACKET",
                                    !.recvPacket = NoPacket, !.fileGood = TRUE]
  OBVIOUS
<1>4. Become(k, r)
  BY <1>3 DEF ReceivedRemoteFileName
<1>5. child[k].cur_RRnum = 0 /\ child[k].offset = 0
  BY <1>1, <1>2 DEF ChildWindow, ChildSetup
<1>6. /\ r.cur_RRnum = 0 /\ r.offset = 0 /\ r.fileGood
      /\ r.has_SREJ = child[k].has_SREJ /\ r.num_SREJ = child[k].num_SREJ
      /\ r.state = "READY_FOR_NEXT_SETUP_PACKET"
  BY <1>1, <1>3, <1>5 DEF ChildTypes
<1>7. ChildWindow(r)
  BY <1>1, <1>5, <1>6 DEF ChildWindow, ChildSetup, ChildData
<1>8. child'[k] = r /\ \A j \in Child \ {k} : child'[j] = child[j]
  BY <1>1, <1>4, BecomeType
<1>9. FileMatches'
  <2>1. CASE child[k].fileGood
    <3>1. UNCHANGED fileVars
      BY <1>2, <2>1 DEF fileVars
    <3>2. r \in ChildTypes /\ r.offset = child[k].offset /\ r.fileGood = child[k].fileGood
      <4>1. r.fileGood = TRUE /\ child[k].fileGood = TRUE
        BY <1>1, <1>3, <2>1 DEF ChildTypes
      <4> QED BY <1>4, <1>5, <1>6, <4>1, NewRecord
    <3> QED BY <1>4, <1>6, <3>1, <3>2, FileKeeps
  <2>2. CASE ~child[k].fileGood
    <3>1. remoteFile' = <<>>
      BY <1>2, <2>2
    <3>2. ASSUME NEW j \in Child, Receiving(j)', ~writeErr
          PROVE  child'[j].offset = child'[j].cur_RRnum - 1
      <4>1. CASE j = k
        BY <1>6, <1>8, <3>2, <4>1 DEF Receiving
      <4>2. CASE j # k
        BY <1>1, <1>8, <3>2, <4>2 DEF Receiving, FileMatches
      <4> QED BY <4>1, <4>2
    <3>3. ASSUME NEW j \in Child, OnlyOpener(j)'
          PROVE  child'[j].offset = 0
      <4>1. j = k
        BY <1>6, <1>8, <3>3 DEF OnlyOpener
      <4> QED BY <1>6, <1>8, <4>1
    <3>4. Len(remoteFile') = 0 /\ DOMAIN remoteFile' = {} /\ Len(remoteFile') <= Len(LocalFile)
      BY <3>1, FileType
    <3> QED BY <1>2, <3>2, <3>3, <3>4 DEF FileMatches
  <2> QED BY <2>1, <2>2
<1>10. r \in ChildTypes
  BY <1>4, NewRecord
<1> QED BY <1>4, <1>7, <1>9, <1>10, WindowStep

\* The data phase begins with an empty window at packet 1, and nothing written.
LEMMA BeginStep ==
    ASSUME WindowInv, WireInv', UNCHANGED rcopyVars, NEW k \in Child, ReadyForDataPacketSetup(k)
    PROVE  WindowInv'
<1>1. child[k] \in ChildTypes /\ ChildWindow(child[k]) /\ ChildGenuine(child[k]) /\ readPos \in Nat
  BY ReadPosType DEF WindowInv, WireInv, ServerTypeOK
<1>2. child[k].state = "READY_FOR_DATA_PACKETS_SETUP" /\ UNCHANGED fileVars
  BY DEF ReadyForDataPacketSetup
<1>3. PICK r : r = [child[k] EXCEPT !.state = "RECEIVED_DATA",
                                    !.cur_RRnum = 1,
                                    !.win_min = 0,
                                    !.win_max = child[k].win_size,
                                    !.has_SREJ = FALSE,
                                    !.num_SREJ = 0,
                                    !.window = [i \in Slots |-> NoPacket]]
  OBVIOUS
<1>4. Become(k, r)
  BY <1>3 DEF ReadyForDataPacketSetup
<1>5. r \in ChildTypes
  BY <1>4, NewRecord
<1>6. child[k].offset = 0 /\ child[k].winGood /\ child[k].fileGood /\ child[k].win_size = WinSize
  BY <1>1, <1>2 DEF ChildWindow, ChildGenuine, ChildSetup
<1>7. /\ r.state = "RECEIVED_DATA" /\ r.cur_RRnum = 1 /\ r.win_min = 0 /\ r.win_max = WinSize
      /\ r.has_SREJ = FALSE /\ r.winGood /\ r.fileGood /\ r.fileGood = child[k].fileGood
      /\ r.offset = 0 /\ r.window = [i \in Slots |-> NoPacket]
  BY <1>1, <1>3, <1>6 DEF ChildTypes
<1>8. ChildWindow(r)
  BY <1>1, <1>7, RcopyAssumption DEF ChildWindow, ChildSetup, RcopyAssumption
<1>9. FileMatches'
  <2>1. r.offset = r.cur_RRnum - 1
    BY <1>7
  <2>2. r.offset = child[k].offset /\ r.fileGood = child[k].fileGood
    BY <1>6, <1>7
  <2> QED BY <1>2, <1>4, <1>5, <2>1, <2>2, FileKeeps
<1> QED BY <1>4, <1>5, <1>8, <1>9, WindowStep

\* A packet ahead of the expected one goes to its own slot of the window.
LEMMA BufferStep ==
    ASSUME WindowInv, WireInv', UNCHANGED rcopyVars, NEW k \in Child, BufferPacket(k)
    PROVE  WindowInv'
<1> DEFINE me == child[k]
           p == child[k].recvPacket
           n == child[k].recvPacket.num
<1>1. me \in ChildTypes /\ ChildWindow(me) /\ ChildGenuine(me)
  BY DEF WindowInv, WireInv, ServerTypeOK
<1>2. me.state = "RECEIVED_DATA" /\ n > me.cur_RRnum /\ UNCHANGED fileVars
  BY DEF BufferPacket
<1>3. me.win_size = WinSize /\ p \in OwnPacket /\ n \in Nat
  BY <1>1, <1>2 DEF ChildGenuine, ChildData, OwnPacket, NoPacket, Packet, Genuine, Packets
<1>4. PICK w : w = IF is_in_window(k, n) THEN [me.window EXCEPT ![(n - 1) % WinSize] = p]
                                         ELSE me.window
  OBVIOUS
<1>5. PICK ns : ns = IF me.has_SREJ THEN me.num_SREJ ELSE me.cur_RRnum
  OBVIOUS
<1>6. PICK r : r = [me EXCEPT !.state = "READY_FOR_NEXT_DATA_PACKET", !.recvPacket = NoPacket,
                              !.window = w, !.num_SREJ = ns, !.has_SREJ = TRUE]
  OBVIOUS
<1>7. Become(k, r)
  BY <1>1, <1>3, <1>4, <1>5, <1>6 DEF BufferPacket, ChildTypes, Become
<1>8. r \in ChildTypes
  BY <1>7, NewRecord
<1>9. /\ r.state = "READY_FOR_NEXT_DATA_PACKET" /\ r.cur_RRnum = me.cur_RRnum
      /\ r.offset = me.offset /\ r.fileGood = me.fileGood /\ r.winGood = me.winGood
      /\ r.win_min = me.win_min /\ r.win_max = me.win_max
      /\ r.num_SREJ = ns /\ r.window = w
  BY <1>1, <1>6 DEF ChildTypes
<1>10. me.cur_RRnum > 0 /\ ns = me.cur_RRnum
  BY <1>1, <1>2, <1>5 DEF ChildWindow, ChildData
<1>11. ASSUME NEW i \in Slots, w[i] # NoPacket
       PROVE  /\ w[i].num > me.cur_RRnum
              /\ w[i].num <= me.win_max
              /\ (w[i].num - 1) % WinSize = i
  <2>1. me.window \in [Slots -> Packets]
    BY <1>1 DEF ChildTypes
  <2>2. CASE w[i] = me.window[i]
    BY <1>1, <1>10, <1>11, <2>2 DEF ChildWindow
  <2>3. CASE w[i] # me.window[i]
    <3>1. is_in_window(k, n) /\ i = (n - 1) % WinSize /\ w[i] = p
      BY <1>4, <2>1, <2>3
    <3>2. n - 1 < me.win_max /\ me.win_max \in Nat
      BY <1>1, <3>1 DEF is_in_window, ChildTypes
    <3> QED BY <1>2, <1>3, <3>1, <3>2
  <2> QED BY <2>2, <2>3
<1>12. ChildWindow(r)
  BY <1>1, <1>9, <1>10, <1>11 DEF ChildWindow, ChildData, ChildSetup
<1>13. ~writeErr /\ r.cur_RRnum > 0 => r.offset = r.cur_RRnum - 1
  BY <1>9 DEF WindowInv, FileMatches, Receiving
<1>14. FileMatches'
  BY <1>2, <1>7, <1>8, <1>9, <1>13, FileKeeps
<1> QED BY <1>7, <1>8, <1>12, <1>14, WindowStep

-----------------------------------------------------------------------------
(* Accepting the expected packet and the run of buffered ones behind it.   *)

\* Packet number m is the one that belongs in slot s, for a child that waits for
\* packet cur: of the numbers a window starting there can hold, only one fits.
LEMMA SlotNumber ==
    ASSUME NEW cur \in Nat, NEW j \in 0 .. WinSize - 1, NEW m \in Nat,
           m > cur, m <= cur - 1 + WinSize,
           (m - 1) % WinSize = (cur + j) % WinSize
    PROVE  m = cur + j + 1
<1>1. WinSize \in Nat \ {0} /\ m - 1 \in Nat /\ cur + j \in Nat /\ j \in Nat
  BY RcopyAssumption DEF RcopyAssumption
<1>2. CASE m - 1 <= cur + j
  <2>1. (cur + j) - (m - 1) < WinSize
    BY <1>1
  <2>2. m - 1 = cur + j
    BY <1>1, <1>2, <2>1, SameSlot
  <2> QED BY <1>1, <2>2
<1>3. CASE cur + j <= m - 1
  <2>1. (m - 1) - (cur + j) < WinSize
    BY <1>1
  <2>2. cur + j = m - 1
    BY <1>1, <1>3, <2>1, SameSlot
  <2> QED BY <1>1, <2>2
<1> QED BY <1>1, <1>2, <1>3

\* The run a child finds behind its packet: the j-th slot from cur_RRnum on holds
\* packet cur_RRnum + j + 1, with its chunk of the local file.
LEMMA RunNumbers ==
    ASSUME WindowInv, NEW k \in Child, child[k].state = "RECEIVED_DATA",
           NEW j \in 0 .. RunBehind(k) - 1
    PROVE  LET p == child[k].window[(child[k].cur_RRnum + j) % WinSize] IN
           /\ p.num = child[k].cur_RRnum + j + 1
           /\ p.num <= readPos
           /\ p.data = LocalFile[child[k].cur_RRnum + j + 1]
<1> DEFINE cur == child[k].cur_RRnum
           s == (child[k].cur_RRnum + j) % WinSize
           p == child[k].window[s]
<1>1. /\ WireInv /\ ChildWindow(child[k])
      /\ readPos \in 0 .. Len(LocalFile)
      /\ child[k].cur_RRnum > 0
  BY DEF WindowInv, WireInv, ClientInv, ClientTypeOK, ChildWindow, ChildData
<1>2. RunBehind(k) \in 0 .. WinSize /\ p \in OwnPacket /\ cur \in Nat
  BY <1>1, RunChunksType
<1>3. WinSize \in Nat \ {0}
  BY RcopyAssumption DEF RcopyAssumption
<1>4. j \in 0 .. WinSize - 1
  BY <1>2, <1>3
<1>5. s \in Slots
  <2>1. cur + j \in Int
    BY <1>2
  <2> QED BY <2>1, SlotType
<1>6. p.num \in Nat /\ p.num <= readPos /\ p.data = LocalFile[p.num] /\ p # NoPacket
  <2>1. p.data = LocalFile[p.num] /\ p.num \in 1 .. readPos
    BY <1>1, <1>2, OwnPacketData
  <2>2. p # NoPacket
    BY <1>2 DEF OwnPacket, NoPacket, Packet
  <2> QED BY <1>1, <2>1, <2>2
<1>7. p.num > cur /\ p.num <= cur - 1 + WinSize /\ (p.num - 1) % WinSize = s
  BY <1>1, <1>5, <1>6 DEF ChildWindow
<1>8. PICK m \in Nat : m = p.num
  BY <1>6
<1>9. m = cur + j + 1
  <2>1. m > cur /\ m <= cur - 1 + WinSize /\ (m - 1) % WinSize = (cur + j) % WinSize
    BY <1>7, <1>8
  <2> HIDE DEF cur
  <2> QED BY <1>2, <1>4, <2>1, SlotNumber
<1> QED BY <1>6, <1>8, <1>9

\* What the child writes is the next stretch of the local file, as far as the
\* client has read it.
LEMMA RunIsNext ==
    ASSUME WindowInv, NEW k \in Child, child[k].state = "RECEIVED_DATA",
           child[k].recvPacket.num = child[k].cur_RRnum
    PROVE  /\ child[k].cur_RRnum + (1 + RunBehind(k)) <= readPos + 1
           /\ \A i \in 1 .. RunBehind(k) + 1 :
                RunChunks(k)[i] = LocalFile[child[k].cur_RRnum + i - 1]
<1> DEFINE cur == child[k].cur_RRnum
           run == RunBehind(k)
<1>1. WireInv /\ readPos \in 0 .. Len(LocalFile) /\ readPos \in Nat
  BY FileType DEF WindowInv, WireInv, ClientInv, ClientTypeOK
<1>2. /\ cur \in Nat /\ run \in Nat /\ child[k].recvPacket \in OwnPacket
      /\ RunChunks(k)[1] = child[k].recvPacket.data
      /\ \A j \in 1 .. run : RunChunks(k)[j + 1] = child[k].window[(cur + j - 1) % WinSize].data
  BY <1>1, RunChunksType
<1>3. child[k].recvPacket.data = LocalFile[cur] /\ cur <= readPos
  BY <1>1, <1>2, OwnPacketData
<1>4. cur + (1 + run) <= readPos + 1
  <2>1. CASE run = 0
    BY <1>1, <1>2, <1>3, <2>1
  <2>2. CASE run # 0
    <3>1. run - 1 \in 0 .. run - 1
      BY <1>2, <2>2
    <3>2. PICK j \in 0 .. RunBehind(k) - 1 : j = run - 1
      BY <3>1
    <3>3. cur + j + 1 <= readPos
      BY RunNumbers
    <3> QED BY <1>1, <1>2, <3>2, <3>3
  <2> QED BY <2>1, <2>2
<1>5. ASSUME NEW i \in 1 .. run + 1
      PROVE  RunChunks(k)[i] = LocalFile[cur + i - 1]
  <2>1. CASE i = 1
    BY <1>2, <1>3, <2>1
  <2>2. CASE i # 1
    <3>1. PICK j \in 0 .. RunBehind(k) - 1 : j = i - 2
      BY <1>2, <2>2
    <3>2. child[k].window[(cur + j) % WinSize].data = LocalFile[cur + j + 1]
      BY RunNumbers
    <3>3. i - 1 \in 1 .. run /\ i = (i - 1) + 1
      BY <1>2, <2>2
    <3>4. RunChunks(k)[(i - 1) + 1] = child[k].window[(cur + (i - 1) - 1) % WinSize].data
      BY <1>2, <3>3
    <3>5. cur + (i - 1) - 1 = cur + j /\ cur + j + 1 = cur + i - 1
      BY <1>2, <3>1
    <3> QED BY <3>2, <3>3, <3>4, <3>5
  <2> QED BY <2>1, <2>2
<1> QED BY <1>4, <1>5

\* What is left in the window after the run has been written lies ahead of the
\* packet the child waits for next.
LEMMA LeftAhead ==
    ASSUME WindowInv, NEW k \in Child, child[k].state = "RECEIVED_DATA",
           NEW i \in Slots, i \notin RunSlots(k), child[k].window[i] # NoPacket
    PROVE  child[k].window[i].num > child[k].cur_RRnum + (1 + RunBehind(k))
<1>1. /\ child[k] \in ChildTypes /\ WireInv /\ ChildWindow(child[k]) /\ child[k].cur_RRnum > 0
  BY DEF WindowInv, WireInv, ServerTypeOK, ChildWindow, ChildData
<1>2. /\ child[k].win_size = WinSize /\ child[k].cur_RRnum \in Nat
      /\ RunBehind(k) \in 0 .. WinSize /\ WinSize \in Nat \ {0}
  BY <1>1, RunChunksType, RcopyAssumption DEF RcopyAssumption
<1>3. PICK run \in Nat : run = RunBehind(k)
  BY <1>2
<1>4. PICK cur \in Nat : cur = child[k].cur_RRnum
  BY <1>2
<1>5. child[k].window[i].num \in Nat
  BY <1>1 DEF ChildTypes, Packets
<1>6. PICK m \in Nat : m = child[k].window[i].num
  BY <1>5
<1>7. m > cur /\ m <= cur - 1 + WinSize /\ (m - 1) % WinSize = i
  BY <1>1, <1>4, <1>6 DEF ChildWindow
<1>8. SUFFICES ASSUME m <= cur + (1 + run) PROVE FALSE
  BY <1>3, <1>4, <1>6
<1>9. PICK j \in 0 .. run : m - 1 = cur + j
  <2>1. m - 1 - cur \in 0 .. run
    BY <1>7, <1>8
  <2>2. m - 1 = cur + (m - 1 - cur)
    OBVIOUS
  <2> QED BY <2>1, <2>2
<1>10. (child[k].cur_RRnum + j) % WinSize = i
  BY <1>4, <1>7, <1>9
<1>11. CASE j < run
  <2>1. j \in 0 .. RunBehind(k) - 1
    BY <1>3, <1>11
  <2> QED BY <1>2, <1>10, <2>1 DEF RunSlots
<1>12. CASE j = run
  <2>1. run # WinSize
    BY <1>2, <1>7, <1>9, <1>12
  <2>2. child[k].window[(child[k].cur_RRnum + RunBehind(k)) % WinSize] = NoPacket
    BY <1>2, <1>3, <2>1, RunBehindType
  <2> QED BY <1>3, <1>10, <1>12, <2>2
<1> QED BY <1>11, <1>12

\* Accepting slides the whole window: the record it leaves is well windowed.
LEMMA AcceptedWindow ==
    ASSUME WindowInv, NEW k \in Child, child[k].state = "RECEIVED_DATA",
           child[k].recvPacket.num = child[k].cur_RRnum, readPos' = readPos,
           NEW written \in Seq(Chunk)
    PROVE  ChildWindow(Accepted(k, FALSE, written))
<1>1. /\ child[k] \in ChildTypes /\ WireInv /\ ChildWindow(child[k]) /\ child[k].cur_RRnum > 0
      /\ ChildGenuine(child[k])
  BY DEF WindowInv, WireInv, ServerTypeOK, ChildWindow, ChildData
<1>2. child[k].cur_RRnum \in Nat /\ RunBehind(k) \in Nat /\ WinSize \in Nat
  BY <1>1, RunChunksType, RcopyAssumption DEF RcopyAssumption
<1>3. PICK slide \in Nat : slide = 1 + RunBehind(k)
  BY <1>2
<1>4. PICK w : w = Flushed(child[k].window, RunSlots(k))
  OBVIOUS
<1>5. PICK r : r = Accepted(k, FALSE, written)
  OBVIOUS
<1>6. /\ r.state = "READY_FOR_NEXT_DATA_PACKET"
      /\ r.cur_RRnum = child[k].cur_RRnum + slide
      /\ r.win_min = child[k].win_min + slide /\ r.win_max = child[k].win_max + slide
      /\ r.winGood = child[k].winGood /\ r.fileGood = child[k].fileGood
      /\ r.has_SREJ = FALSE /\ r.window = w
  BY <1>1, <1>3, <1>4, <1>5 DEF Accepted, ChildTypes
<1>7. child[k].winGood /\ child[k].fileGood
  BY <1>1 DEF ChildWindow
<1>8. /\ child[k].win_min = child[k].cur_RRnum - 1
      /\ child[k].win_max = child[k].win_min + WinSize
      /\ child[k].win_min \in Nat /\ child[k].win_max \in Nat
  BY <1>1 DEF ChildWindow, ChildTypes
<1>9. PICK cur \in Nat : cur = child[k].cur_RRnum
  BY <1>2
<1>10. r.cur_RRnum = cur + slide /\ cur + slide > 0
  BY <1>1, <1>6, <1>9
<1>11. r.win_min = cur + slide - 1 /\ r.win_max = cur + slide - 1 + WinSize
  <2>1. PICK lo \in Nat, hi \in Nat : lo = child[k].win_min /\ hi = child[k].win_max
    BY <1>8
  <2>2. lo = cur - 1 /\ hi = lo + WinSize
    BY <1>8, <1>9, <2>1
  <2>3. r.win_min = lo + slide /\ r.win_max = hi + slide
    BY <1>6, <2>1
  <2> QED BY <1>2, <2>2, <2>3
<1>12. r.cur_RRnum <= readPos + 1
  BY <1>3, <1>6, RunIsNext
<1>13. ASSUME NEW i \in Slots, w[i] # NoPacket
       PROVE  w[i].num > r.cur_RRnum /\ w[i].num <= r.win_max /\ (w[i].num - 1) % WinSize = i
  <2>1. w[i] = child[k].window[i] /\ i \notin RunSlots(k)
    BY <1>4, <1>13 DEF Flushed
  <2>2. child[k].window[i].num > child[k].cur_RRnum + (1 + RunBehind(k))
    BY <1>13, <2>1, LeftAhead
  <2>3. w[i].num \in Nat
    BY <1>1, <2>1 DEF ChildTypes, Packets
  <2>4. w[i].num <= child[k].win_max /\ (w[i].num - 1) % WinSize = i
    BY <1>1, <1>13, <2>1 DEF ChildWindow
  <2>5. w[i].num <= r.win_max
    BY <1>6, <1>8, <2>3, <2>4
  <2> QED BY <1>3, <1>6, <2>1, <2>2, <2>4, <2>5
<1>14. ChildWindow(r)
  BY <1>6, <1>7, <1>10, <1>11, <1>12, <1>13 DEF ChildWindow, ChildData, ChildSetup
<1> QED BY <1>5, <1>14 DEF ChildWindow

\* What the file holds after a write: the chunks written, what was there, and
\* holes between the end of the old file and the first of them.
LEMMA WriteAtContents ==
    ASSUME NEW f \in Seq(Chunk \cup {Hole}), NEW off \in Nat, NEW chunks \in Seq(Chunk),
           Len(chunks) > 0
    PROVE  LET end == off + Len(chunks)
               g == WriteAt(f, off, chunks)
           IN /\ Len(g) = IF end > Len(f) THEN end ELSE Len(f)
              /\ DOMAIN g = 1 .. Len(g)
              /\ \A i \in DOMAIN g :
                   /\ i > off /\ i <= end => i - off \in 1 .. Len(chunks) /\ g[i] = chunks[i - off]
                   /\ ~(i > off /\ i <= end) /\ i <= Len(f) => g[i] = f[i]
                   /\ ~(i > off /\ i <= end) /\ i > Len(f) => g[i] = Hole
<1> DEFINE end == off + Len(chunks)
           n == IF end > Len(f) THEN end ELSE Len(f)
<1>1. PICK g : g = WriteAt(f, off, chunks)
  OBVIOUS
<1>2. g = [i \in 1 .. n |-> IF i > off /\ i <= end THEN chunks[i - off]
                            ELSE IF i <= Len(f) THEN f[i] ELSE Hole]
  BY <1>1 DEF WriteAt
<1>3. n \in Nat /\ DOMAIN g = 1 .. n
  BY <1>2
<1>4. g \in Seq(Chunk \cup {Hole})
  BY <1>1, WriteAtType
<1>5. Len(g) = n /\ DOMAIN g = 1 .. Len(g)
  <2> HIDE DEF n
  <2> QED BY <1>3, <1>4
<1>6. ASSUME NEW i \in DOMAIN g
      PROVE  /\ i > off /\ i <= end => i - off \in 1 .. Len(chunks) /\ g[i] = chunks[i - off]
             /\ ~(i > off /\ i <= end) /\ i <= Len(f) => g[i] = f[i]
             /\ ~(i > off /\ i <= end) /\ i > Len(f) => g[i] = Hole
  BY <1>2, <1>3
<1> QED BY <1>1, <1>5, <1>6

\* The expected packet's chunk and the run behind it go to the file where they
\* belong.
LEMMA AcceptedFile ==
    ASSUME WindowInv, NEW k \in Child, child[k].state = "RECEIVED_DATA",
           child[k].recvPacket.num = child[k].cur_RRnum,
           NEW written \in Seq(Chunk), Become(k, Accepted(k, FALSE, written)),
           remoteFile' = WriteAt(remoteFile, child[k].offset, written),
           writeErr' = (writeErr \/ written # RunChunks(k))
    PROVE  FileMatches'
<1>1. /\ child \in [Child -> ChildTypes] /\ child[k] \in ChildTypes /\ WireInv
      /\ ChildWindow(child[k]) /\ child[k].cur_RRnum > 0 /\ child[k].fileGood
      /\ remoteFile \in Seq(Chunk \cup {Hole})
  BY DEF WindowInv, WireInv, ServerTypeOK, ChildWindow, ChildData
<1>2. SUFFICES ASSUME ~writeErr'
      PROVE  /\ \A j \in Child : Receiving(j)' => child'[j].offset = child'[j].cur_RRnum - 1
             /\ Len(remoteFile') <= Len(LocalFile)
             /\ \A i \in DOMAIN remoteFile' : remoteFile'[i] \in {LocalFile[i], Hole}
             /\ \A j \in Child : OnlyOpener(j)' =>
                  /\ Len(remoteFile') = child'[j].offset
                  /\ \A i \in DOMAIN remoteFile' : remoteFile'[i] = LocalFile[i]
  BY DEF FileMatches
<1>3. ~writeErr /\ written = RunChunks(k)
  BY <1>2
<1>4. /\ \A j \in Child : Receiving(j) => child[j].offset = child[j].cur_RRnum - 1
      /\ Len(remoteFile) <= Len(LocalFile)
      /\ \A i \in DOMAIN remoteFile : remoteFile[i] \in {LocalFile[i], Hole}
      /\ \A j \in Child : OnlyOpener(j) =>
           /\ Len(remoteFile) = child[j].offset
           /\ \A i \in DOMAIN remoteFile : remoteFile[i] = LocalFile[i]
  BY <1>3 DEF WindowInv, FileMatches
<1>5. PICK cur \in Nat, off \in Nat, run \in Nat :
        cur = child[k].cur_RRnum /\ off = child[k].offset /\ run = RunBehind(k)
  <2>1. child[k].cur_RRnum \in Nat /\ child[k].offset \in Nat
    BY <1>1 DEF ChildTypes
  <2>2. RunBehind(k) \in Nat
    BY <1>1, RunChunksType, RcopyAssumption DEF RcopyAssumption
  <2> QED BY <2>1, <2>2
<1>6. off = cur - 1
  BY <1>1, <1>4, <1>5 DEF Receiving
<1>7. Len(written) = run + 1 /\ Len(written) > 0
  BY <1>1, <1>3, <1>5, RunChunksType
<1>8. off + Len(written) <= Len(LocalFile)
  <2>1. cur + (1 + run) <= readPos + 1
    BY <1>5, RunIsNext
  <2>2. readPos \in 0 .. Len(LocalFile) /\ Len(LocalFile) \in Nat
    BY <1>1, FileType DEF WireInv, ClientInv, ClientTypeOK
  <2> QED BY <1>6, <1>7, <2>1, <2>2
<1>9. \A i \in 1 .. Len(written) : written[i] = LocalFile[off + i]
  <2>1. ASSUME NEW i \in 1 .. run + 1 PROVE written[i] = LocalFile[off + i]
    <3>1. RunChunks(k)[i] = LocalFile[child[k].cur_RRnum + i - 1]
      BY <1>5, RunIsNext
    <3>2. child[k].cur_RRnum + i - 1 = off + i
      BY <1>5, <1>6
    <3> QED BY <1>3, <3>1, <3>2
  <2> QED BY <1>7, <2>1
<1>10. PICK g : g = remoteFile'
  OBVIOUS
<1>11. /\ Len(g) = IF off + Len(written) > Len(remoteFile) THEN off + Len(written)
                                                          ELSE Len(remoteFile)
       /\ DOMAIN g = 1 .. Len(g)
       /\ \A i \in DOMAIN g :
            /\ i > off /\ i <= off + Len(written)
                 => i - off \in 1 .. Len(written) /\ g[i] = written[i - off]
            /\ ~(i > off /\ i <= off + Len(written)) /\ i <= Len(remoteFile) => g[i] = remoteFile[i]
            /\ ~(i > off /\ i <= off + Len(written)) /\ i > Len(remoteFile) => g[i] = Hole
  <2>1. g = WriteAt(remoteFile, off, written)
    BY <1>5, <1>10
  <2> QED BY <1>1, <1>7, <2>1, WriteAtContents
<1>12. Len(remoteFile) \in Nat /\ DOMAIN remoteFile = 1 .. Len(remoteFile) /\ Len(written) \in Nat
  BY <1>1
<1>13. Len(g) <= Len(LocalFile)
  BY <1>4, <1>8, <1>11
<1>14. ASSUME NEW i \in DOMAIN g, i > off, i <= off + Len(written)
       PROVE  g[i] = LocalFile[i]
  <2>1. i - off \in 1 .. Len(written) /\ g[i] = written[i - off] /\ i \in Int
    BY <1>11, <1>12, <1>14
  <2>2. off + (i - off) = i
    BY <2>1
  <2> QED BY <1>9, <2>1, <2>2
<1>15. ASSUME NEW i \in DOMAIN g PROVE g[i] \in {LocalFile[i], Hole}
  <2>1. i \in 1 .. Len(g) /\ Len(g) \in Nat
    BY <1>11, <1>12
  <2>2. CASE i > off /\ i <= off + Len(written)
    BY <1>14, <2>2
  <2>3. CASE ~(i > off /\ i <= off + Len(written)) /\ i <= Len(remoteFile)
    BY <1>4, <1>11, <1>12, <2>1, <2>3
  <2>4. CASE ~(i > off /\ i <= off + Len(written)) /\ i > Len(remoteFile)
    BY <1>11, <2>4
  <2> QED BY <1>12, <2>1, <2>2, <2>3, <2>4
<1>16. PICK r : r = Accepted(k, FALSE, written)
  OBVIOUS
<1>17. r.offset = off + Len(written) /\ r.cur_RRnum = cur + (1 + run) /\ r.fileGood = child[k].fileGood
  BY <1>1, <1>5, <1>16 DEF Accepted, ChildTypes
<1>18. child'[k] = r /\ \A j \in Child \ {k} : child'[j] = child[j]
  BY <1>1, <1>16, BecomeType DEF Become
<1>19. ASSUME NEW j \in Child, Receiving(j)' PROVE child'[j].offset = child'[j].cur_RRnum - 1
  <2>1. CASE j = k
    BY <1>6, <1>7, <1>17, <1>18, <2>1
  <2>2. CASE j # k
    BY <1>4, <1>18, <1>19, <2>2 DEF Receiving
  <2> QED BY <2>1, <2>2
<1>20. ASSUME NEW j \in Child, OnlyOpener(j)'
       PROVE  Len(g) = child'[j].offset /\ \A i \in DOMAIN g : g[i] = LocalFile[i]
  <2>1. j = k
    BY <1>1, <1>17, <1>18, <1>20 DEF OnlyOpener
  <2>2. OnlyOpener(k)
    BY <1>1, <1>18, <1>20, <2>1 DEF OnlyOpener
  <2>3. Len(remoteFile) = off /\ \A i \in DOMAIN remoteFile : remoteFile[i] = LocalFile[i]
    BY <1>4, <1>5, <2>2
  <2>4. Len(g) = off + Len(written)
    BY <1>7, <1>11, <1>12, <2>3
  <2>5. ASSUME NEW i \in DOMAIN g PROVE g[i] = LocalFile[i]
    <3>1. i \in 1 .. off + Len(written)
      BY <1>11, <2>4, <2>5
    <3>2. CASE i > off
      BY <1>12, <1>14, <3>1, <3>2
    <3>3. CASE i <= off
      BY <1>11, <1>12, <2>3, <3>1, <3>3
    <3> QED BY <3>1, <3>2, <3>3
  <2> QED BY <1>17, <1>18, <2>1, <2>4, <2>5
<1> QED BY <1>10, <1>13, <1>15, <1>19, <1>20

\* A child that accepts the packet it waits for.
LEMMA AcceptWindowStep ==
    ASSUME WindowInv, WireInv', UNCHANGED rcopyVars, NEW k \in Child,
           HandleExpectedSREJPacket(k) \/ HandleExpectedPacketNumber(k)
    PROVE  WindowInv'
<1>1. /\ WireInv /\ child[k] \in ChildTypes /\ ChildWindow(child[k])
      /\ child[k].has_SREJ \in BOOLEAN
  BY DEF WindowInv, WireInv, ServerTypeOK, ChildTypes
<1>2. child[k].state = "RECEIVED_DATA"
  BY DEF HandleExpectedSREJPacket, HandleExpectedPacketNumber
<1>3. child[k].has_SREJ => child[k].num_SREJ = child[k].cur_RRnum
  BY <1>1 DEF ChildWindow
<1>4. child[k].recvPacket.num = child[k].cur_RRnum /\ AcceptData(k, FALSE)
  <2>1. CASE HandleExpectedSREJPacket(k)
    BY <1>3, <2>1 DEF HandleExpectedSREJPacket, AnswersSREJ
  <2>2. CASE HandleExpectedPacketNumber(k)
    <3>1. child[k].recvPacket.num = child[k].cur_RRnum /\ ~child[k].has_SREJ
      BY <1>3, <2>2 DEF HandleExpectedPacketNumber, AnswersSREJ
    <3>2. child[k].has_SREJ = FALSE
      BY <1>1, <3>1
    <3>3. AcceptData(k, FALSE)
      BY <2>2, <3>2 DEF HandleExpectedPacketNumber, AcceptData, Respond, Transmit
    <3> QED BY <3>1, <3>3
  <2> QED BY <2>1, <2>2
<1>5. PICK written \in Written(RunChunks(k)) :
        /\ remoteFile' = WriteAt(remoteFile, child[k].offset, written)
        /\ writeErr' = (writeErr \/ written # RunChunks(k))
        /\ Become(k, Accepted(k, FALSE, written))
  BY <1>1, <1>2, <1>4, AcceptFacts
<1>6. written \in Seq(Chunk)
  BY <1>1, <1>2, RunChunksType, WrittenType
<1>7. FileMatches'
  BY <1>2, <1>4, <1>5, <1>6, AcceptedFile
<1>8. readPos' = readPos
  BY DEF rcopyVars, sendVars
<1>9. PICK r : r = Accepted(k, FALSE, written)
  OBVIOUS
<1>10. ChildWindow(r) /\ Become(k, r)
  <2>1. ChildWindow(Accepted(k, FALSE, written))
    BY <1>2, <1>4, <1>6, <1>8, AcceptedWindow
  <2> QED BY <1>5, <1>9, <2>1 DEF Become, ChildWindow
<1>11. r \in ChildTypes
  BY <1>10, NewRecord
<1> QED BY <1>7, <1>10, <1>11, WindowStep

-----------------------------------------------------------------------------
(* The second invariant, and what follows from it.                         *)

\* Every step of the upload keeps the second invariant.
LEMMA WindowNext ==
    ASSUME WindowInv, [Next]_vars
    PROVE  WindowInv'
<1>1. WireInv /\ WireInv'
  BY WireStep DEF WindowInv
<1>2. CASE ClientNext
  <2>1. ClientInv /\ (RcopyStep \/ RcopyTimeout) /\ UNCHANGED serverVars
    BY <1>1, <1>2 DEF ClientNext, WireInv
  <2>2. readPos <= readPos'
    BY <2>1, ClientStepInv
  <2> QED BY <1>1, <2>1, <2>2, ClientKeepsWindows
<1>3. CASE MainNext
  <2>1. PICK k \in Child : MainAccept(k)
    BY <1>3 DEF MainNext
  <2>2. UNCHANGED rcopyVars
    BY <1>3 DEF MainNext
  <2> QED BY <1>1, <2>1, <2>2, QuietSetup
<1>4. CASE \E k \in Child : ChildNext(k)
  <2>1. PICK k \in Child : ChildNext(k)
    BY <1>4
  <2>2. UNCHANGED rcopyVars /\ (ChildStep(k) \/ ChildTimeout(k))
    BY <2>1 DEF ChildNext
  <2> QED BY <1>1, <2>2, QuietSetup, QuietData, OpenStep, BeginStep, BufferStep, AcceptWindowStep
          DEF ChildStep, ChildTimeout
<1>5. CASE UNCHANGED vars
  <2>1. UNCHANGED serverVars /\ readPos' = readPos /\ readPos \in Nat
    BY <1>1, <1>5, ReadPosType DEF vars, rcopyVars, sendVars, WireInv
  <2>2. readPos <= readPos'
    BY <2>1
  <2> QED BY <1>1, <2>1, <2>2, ClientKeepsWindows
<1> QED BY <1>2, <1>3, <1>4, <1>5 DEF Next, Terminated

\* The upload starts in the second invariant.
LEMMA WindowInit ==
    ASSUME Init
    PROVE  WindowInv
<1>1. child = [k \in Child |-> Unborn] /\ remoteFile = <<>>
  BY DEF Init, ServerInit
<1>2. ChildWindow(Unborn)
  BY DEF ChildWindow, Unborn, ChildData
<1>3. FileMatches
  <2>1. \A k \in Child : ~Receiving(k) /\ ~OnlyOpener(k)
    BY <1>1 DEF Receiving, OnlyOpener, Unborn
  <2>2. Len(remoteFile) <= Len(LocalFile) /\ DOMAIN remoteFile = {}
    BY <1>1, FileType
  <2> QED BY <2>1, <2>2 DEF FileMatches
<1>4. ASSUME NEW k \in Child PROVE ChildWindow(child[k])
  BY <1>1, <1>2 DEF ChildWindow
<1> QED BY <1>3, <1>4, WireInit DEF WindowInv

\* The children's windows and the file stay right, whatever the paths lose,
\* garble, duplicate or reorder, and however many children one client is given.
THEOREM WindowsCorrect == Spec => []WindowInv
<1>1. Init => WindowInv
  BY WindowInit
<1>2. WindowInv /\ [Next]_vars => WindowInv'
  BY WindowNext
<1> QED BY <1>1, <1>2, PTL DEF Spec

\* The children of one client truncate the file under each other, but no chunk is
\* ever written where it does not belong.
THEOREM NoChunkIsForeign == Spec => []NoForeignChunk
<1>1. WindowInv => NoForeignChunk
  BY DEF WindowInv, FileMatches, NoForeignChunk
<1> QED BY <1>1, WindowsCorrect, PTL

\* A remembered SREJ always asks for the packet the child waits for: the branch
\* of the receive handler on an answered SREJ is only taken for that packet.
THEOREM SrejIsCurrent == Spec => []SrejCurrent
<1>1. WindowInv => SrejCurrent
  BY DEF WindowInv, ChildWindow, SrejCurrent
<1> QED BY <1>1, WindowsCorrect, PTL

\* What one child has written is the prefix of the local file it acknowledges.
LEMMA PrefixOnDisk ==
    ASSUME WindowInv, NEW k \in Child, ~writeErr, OnlyOpener(k)
    PROVE  remoteFile = SubSeq(LocalFile, 1, IF Receiving(k) THEN child[k].cur_RRnum - 1 ELSE 0)
<1>1. /\ child[k] \in ChildTypes /\ ChildWindow(child[k]) /\ FileMatches
      /\ remoteFile \in Seq(Chunk \cup {Hole})
  BY DEF WindowInv, WireInv, ServerTypeOK
<1>2. PICK off \in Nat : off = child[k].offset
  BY <1>1 DEF ChildTypes
<1>3. off = IF Receiving(k) THEN child[k].cur_RRnum - 1 ELSE 0
  BY <1>1, <1>2 DEF FileMatches, Receiving, ChildWindow, ChildTypes
<1>4. /\ Len(remoteFile) = off /\ off <= Len(LocalFile)
      /\ \A i \in DOMAIN remoteFile : remoteFile[i] = LocalFile[i]
  BY <1>1, <1>2 DEF FileMatches
<1>5. SubSeq(LocalFile, 1, off) = [i \in 1 .. off |-> LocalFile[i]]
  BY <1>4, FileType
<1>6. DOMAIN remoteFile = 1 .. off /\ remoteFile = [i \in DOMAIN remoteFile |-> remoteFile[i]]
  BY <1>1, <1>4
<1>7. remoteFile = SubSeq(LocalFile, 1, off)
  BY <1>4, <1>5, <1>6
<1> QED BY <1>3, <1>7

\* A file that one child has open holds exactly the packets its RR number
\* acknowledges, as long as no write failed.
THEOREM FileIsPrefix == Spec => []Integrity
<1>1. WindowInv => Integrity
  BY PrefixOnDisk DEF Integrity
<1> QED BY <1>1, WindowsCorrect, PTL
-----------------------------------------------------------------------------
(* The client's window.                                                    *)

\* Only what is read from the file changes the window, and the beginning of the data.
LEMMA WindowFilled ==
    ASSUME [Next]_vars
    PROVE  \/ SendData
           \/ ReadyToSendDataSetup
           \/ readPos' = readPos /\ c_win_cur' = c_win_cur /\ c_window' = c_window
<1>1. CASE ClientNext
  BY <1>1 DEF ClientNext, RcopyStep, RcopyTimeout, SendRemoteFileName, SendBufferSize, SendWindowSize,
              SendSetup, WaitForSetupAcks, SendDataEndOfFile, SendDataReadError, SendDataSrej,
              ReceiveDataWindowOpen, ReceiveDataWindowClosed, ReceiveData,
              ReceiveDataWindowOpenEmpty, SendEof, SendEofReply, TimeoutOnServer,
              WaitForSetupAcksTimeout, ReceiveDataWindowClosedTimeout, SendEofTimeout, sendVars
<1>2. CASE MainNext \/ UNCHANGED vars \/ \E k \in Child : ChildNext(k)
  BY <1>2 DEF MainNext, MainAccept, ChildNext, vars, rcopyVars, sendVars
<1> QED BY <1>1, <1>2 DEF Next, Terminated

\* The packet read goes to a slot of its own: those of the packets before it, as many as
\* fit with it, are other slots.
LEMMA FreshSlot ==
    ASSUME NEW r \in Nat, NEW n \in 1 .. r, r + 1 < n + WinSize
    PROVE  (n - 1) % WinSize # r % WinSize
<1>1. WinSize \in Nat \ {0}
  BY RcopyAssumption DEF RcopyAssumption
<1>2. PICK m \in Nat : m = n - 1 /\ m < r /\ r - m < WinSize
  BY <1>1
<1>3. ASSUME m % WinSize = r % WinSize PROVE FALSE
  <2>1. m <= r
    BY <1>2
  <2>2. m = r
    BY <1>1, <1>2, <1>3, <2>1, SameSlot
  <2> QED BY <1>2, <2>2
<1> QED BY <1>2, <1>3

\* rcopy reads the next packet into its window.
LEMMA ReadKeepsLatest ==
    ASSUME WireInv, LatestKept, SendData
    PROVE  LatestKept'
<1>1. /\ readPos \in Nat /\ c_win_cur = readPos /\ WinSize \in Nat \ {0}
      /\ c_window \in [Slots -> Packets]
  BY ReadPosType, RcopyAssumption
     DEF LatestKept, WireInv, ClientInv, ClientTypeOK, RcopyAssumption
<1>2. cur_packet_num = readPos + 1
  BY DEF SendData, WireInv, ClientInv, ClientCounters, ClientData
<1>3. PICK p : p = Packet("DATA", readPos + 1, LocalFile[readPos + 1])
  OBVIOUS
<1>4. /\ c_window' = [c_window EXCEPT ![readPos % WinSize] = p]
      /\ c_win_cur' = readPos + 1 /\ readPos' = readPos + 1
  BY <1>1, <1>2, <1>3 DEF SendData
<1>5. ASSUME NEW n \in 1 .. readPos + 1, readPos + 1 < n + WinSize
      PROVE  c_window'[(n - 1) % WinSize] = Packet("DATA", n, LocalFile[n])
  <2>1. readPos % WinSize \in Slots /\ (n - 1) % WinSize \in Slots
    BY <1>1, SlotType
  <2>2. CASE n = readPos + 1
    <3>1. n - 1 = readPos
      BY <1>1, <2>2
    <3>2. c_window'[(n - 1) % WinSize] = p
      BY <1>1, <1>4, <2>1, <3>1
    <3> QED BY <1>3, <2>2, <3>2
  <2>3. CASE n # readPos + 1
    <3>1. n \in 1 .. readPos /\ readPos < n + WinSize
      BY <1>1, <1>5, <2>3
    <3>2. (n - 1) % WinSize # readPos % WinSize
      BY <1>1, <1>5, <3>1, FreshSlot
    <3>3. c_window[(n - 1) % WinSize] = Packet("DATA", n, LocalFile[n])
      BY <3>1 DEF LatestKept
    <3> QED BY <1>1, <1>4, <2>1, <3>2, <3>3
  <2> QED BY <2>2, <2>3
<1> QED BY <1>4, <1>5 DEF LatestKept

\* rcopy's window always holds the last packets that were read, as many as fit: whatever
\* slides it, a packet is lost from it only by reading further than a window.
THEOREM WindowKeepsLatest == Spec => []LatestKept
<1>1. Init => LatestKept
  BY DEF Init, RcopyInit, LatestKept
<1>2. ASSUME WindowInv, LatestKept, [Next]_vars PROVE LatestKept'
  <2>1. CASE SendData
    BY <1>2, <2>1, ReadKeepsLatest DEF WindowInv
  <2>2. CASE ReadyToSendDataSetup
    <3>1. readPos = 0
      BY <1>2, <2>2 DEF ReadyToSendDataSetup, WindowInv, WireInv, ClientInv, ClientCounters, ClientSetup
    <3>2. readPos' = 0 /\ c_win_cur' = 0
      BY <2>2, <3>1 DEF ReadyToSendDataSetup
    <3> QED BY <3>2 DEF LatestKept
  <2>3. CASE readPos' = readPos /\ c_win_cur' = c_win_cur /\ c_window' = c_window
    BY <1>2, <2>3 DEF LatestKept
  <2> QED BY <1>2, <2>1, <2>2, <2>3, WindowFilled
<1> QED BY <1>1, <1>2, WindowsCorrect, PTL DEF Spec

=============================================================================
