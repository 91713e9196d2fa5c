# A verification of the sliding-window file upload

`rcopy` uploads one file to `server` over UDP, with a sliding window, RR and
SREJ acknowledgements, and an error-injecting `sendtoErr` under both programs.
This directory holds TLA+ modules translated from `src/src/rcopy.c`,
`src/src/server.c`, `src/src/networks.c` and `src/src/libcpe464`, the TLC
configurations that check them on small instances, and TLAPS proofs that hold
for every instance. Paths below are relative to `src/src/`.

## 1. The system

### Components, their state and operations

| Component | Code | State | Operations |
|---|---|---|---|
| client state machine | `rcopy.c` | `STATE`, `timeout`, `win_min/cur/max`, `cur_packet_num`, the window of unacknowledged packets, file offset, `SREJ_num`, `doneTransmitting`, the address it sends to | three setup exchanges, sending and resending data, receiving in an open or a closed window, the end-of-file exchange |
| the start of both programs | `process_commandline_args` of both, `udp_server`, `udp_client_setup`, `bindMod` | the arguments, the settings, the ports | range checks, conversions, opening the port, the packets of the setup |
| server main loop | `server.c` `main` | the well-known socket, its children in the process table | fork a child for every sound packet, then reap all that have ended |
| server child | `server.c` `process_client` | `STATE`, `cur_RRnum`, `win_min/max`, the window of packets that came early, `has_SREJ`, `num_SREJ`, `fileFD`, `timeout` | answering setup, accepting, buffering, re-acknowledging, ending |
| packets and sockets | `networks.c/.h` | `connection->remote` | `send_buf`, `recv_buf` (checks the checksum, stores the sender), `select_call` |
| error injection | `libcpe464/PacketManager.cpp`, `MsgEvents` | the constant and the chance events, `m_MsgNo`, the random generator, the history | send, drop or flip a byte of a packet, by a list or by chance |
| checksum | `libcpe464/checksum.c` | `sum`, `nleft` | `in_cksum` |
| settings and hooks | `libcpe464/SettingsManager.cpp`, `network-hooks.c` | what the environment sets, `m_ErrorRate` | read the environment before main, then `sendErr_init`; `bindMod` |
| debug output | `libcpe464/utils` | none | print |

A client and its child talk by datagrams only. Two things are shared besides:
all children of a client write the same file, and the client sends to whoever it
heard from last (`recv_buf` overwrites `connection->remote`, `networks.c:131`,
before it looks at the checksum).

### What is hard here

- *Two processes and two paths.* Every datagram may be lost, garbled or
  delivered twice, and each `select` may time out while the answer is already
  under way. Retries then overlap with late answers.
- *The last RR races the end of the file.* Whether `read()` returns 0 before or
  after the last RR is handled decides which of three ways the client leaves the
  data phase.
- *A second child.* A `FILE_NAME` sent again before its ACK is heard reaches the
  main port, where a second child is forked for the same upload. It truncates the
  file while the first child is writing it, and the client may be redirected to it.
- *Remembered SREJs.* `has_SREJ`/`num_SREJ` live across handlers; a stale pair
  would make the child accept another packet than the one it waits for.
- *Failed writes* are reported on the server's terminal and passed over.
- *Freed and reused buffers.* ACK_EOF is built in a buffer that was freed four
  lines before; one send buffer serves many packets, with the last checksum in it.
- *Conversions.* Sizes pass through `int`, `uint32_t`, `uint16_t` and `uint8_t`, and
  are compared as signed here and unsigned there; the header has 7 bytes and every
  length counts 8.
- *Reaping late.* The main loop forks before it reaps, and reaps only after a packet.
- *Settings from two places*, the environment before main and main itself, and one
  seed for all children.

### What makes each component correct

- client: it ends on ACK_EOF or a timeout, always ends, sends `END_OF_FILE` only
  after the last packet is acknowledged, and can resend every packet that is not.
- child: writes every packet once, in order and at its place; acknowledges only
  what it has written; asks (SREJ) for the packet it waits for; always ends.
- main loop: one child per upload on paths that do not misbehave; it ends only when
  running children have filled the process table, and reaps every child that has ended.
- start: what passes the checks fits every buffer and counter, and reaches the child.
- packets: what `recv_buf` accepts is what was sent; what was not damaged is accepted.
- error injection: what the environment lists or rates is what happens.
- together: success reported means the file is there; the file is delivered if
  the paths misbehave seldom enough.

`PROJECT.json` lists the places where this can go wrong, each at its line
(`hazards`), with the properties that watch it.

## 2. The modules

    Channel <- Rcopy <- ServerChild <- Upload <- UploadProps <- MCUpload
                                                     |  \
                                                 FileCopy UploadProofs <- WindowProofs <- ReplyProofs <- CleanPathProofs

    ServerMain     <- MCServerMain,     ServerMainProofs
    PacketPath     <- MCPacketPath,     PacketPathProofs
    ErrorInjection <- MCErrorInjection, ErrorInjectionProofs
    StartUp        <- MCStartUp,        StartUpProofs

Each module extends the one on its left; UploadProps has an instance of FileCopy, and
PacketPath one of Datagram.
The four modules below stand beside the upload: each takes one part that Upload has
only in outline, in the detail its own hazards need, and shows what Upload relies on.

- **Channel**: packets (flag, number, data), one queue per socket, and what may
  happen to a packet: delivered, lost, garbled (`recv_buf` then reports
  `CRC_ERROR`), duplicated; with `Reorder`, taken from any position of the queue.
- **Rcopy**: the client. One action per state handler of `enter_state_machine`. A
  handler that selects is two actions, the packet and the timeout (`...Timeout`,
  `...Empty` for `select(0)`). `send_eof_and_quit` sends and *then* waits, so the
  wait has a state of its own, `SEND_EOF_SELECT`. `process_incoming_data` is the
  operator `ProcessIncomingData`, shared by its three callers as in the code;
  `send_data_from_window` is `SendDataFromWindow`, with the `exit(1)` that
  `sendto_Err` takes on an empty packet (`PacketManager.cpp:263`).
- **ServerChild**: `MainAccept` is the main loop's fork; the other actions are the
  handlers of `process_client`. A child's globals are one record `child[k]`, since
  fork gives each child its own copy. `AcceptData` is the whole of
  `handle_expected_packet_number`: write the packet, write the run of buffered
  packets behind it, slide, answer. `Written` are the outcomes of that series of
  `write()` calls when the disk may fail; `WriteAt` is the kernel's part.
- **Upload**: the interleaving of the client, the main loop and the children,
  the meaning of `Timely`, and fairness.
- **FileCopy**: what an upload promises, with two variables: the copy is extended
  by chunks of the file in order, and success is reported only when it is complete.
- **UploadProps**: the properties, the inductive invariant, and the instance of
  `FileCopy` with its refinement mapping (`dest <- remoteFile`, `verdict` from the
  client's reason to end).
- **MCUpload**: the local files the configurations use, and the symmetry of children.
- **UploadProofs**, **WindowProofs**, **ReplyProofs**, **CleanPathProofs**: the proofs, in
  four layers. The refinement of FileCopy ends the third.
- **ServerMain**: the main process for any number of uploads. `RecvBuf`, `Fork` or
  `ForkFails`, then `Waitpid` until `WaitpidNone`: the order of `server.c:67-95`. A child
  that has ended keeps its entry in the process table until it is reaped. `peak` is
  auxiliary and remembers the largest number of children that ran at one time. Upload
  takes a child to be there whenever one is needed; here is what that costs.
- **PacketPath**: one packet byte by byte. `SendBuf` fills a buffer that
  still holds the packet before, was cleared, or was freed (`Before`). It writes the bytes
  `Filled`: the payload is copied behind a header of 7 bytes while the length sent counts
  8, so the last byte is summed and sent but never written, and belongs to no message.
  `SenderAdds` and `ReceiverAdds` are the rounds of the loop of
  `in_cksum`, a word each, `Answer` folds the carries twice at the real widths, `Resend`
  sends the same bytes again. `SendtoErrFlip` flips a byte of the copy. What it shows
  is what Channel assumes: a garbled packet comes out of `recv_buf` as `CRC_ERROR`.
- **Datagram**: the same without bytes, the abstract specification PacketPath implements: a
  message, the bytes `send_buf` writes, leaves intact or damaged, and is returned as it was
  given, or as `CRC_ERROR`.
- **ErrorInjection**: from the environment (`LoadEnvData`, which a static constructor
  runs before main) and `sendErr_init` to what becomes of each datagram. The numbers a seed leads to
  are `stream`, revealed as they are drawn, so that all processes forked from one
  server read the same stream. `runMsgEvents` ends at the first event that drops:
  `ConstantRuns` says which events run at all.
- **StartUp**: from both command lines to the first chunk in the remote file: the checks
  with the sign each comparison really has, the port as `bindMod` sees it, the lengths of
  the packets, and what a `uint8_t` index does to a window of 256 slots or more
  (`caught`: the loop never ends) or 0 (`crashed`: an index modulo 0).

Definitions introduced by the words *Mutated form* are plausible bugs. No
specification uses them; each property is known to fail when its mutated form
takes the place of the definition after it.

### What is abstracted

A chunk of the file is a model value; `LocalFile` is the sequence of chunks that
successive `read(bufSize)` calls return. The remote file is a sequence of
chunks, with `Hole` for blocks never written (a write past the end of a file
that was truncated meanwhile). File offsets are counted in chunks.

Left out, because the protocol never reads them or they do nothing:
the header's sequence number, `winSuccess` of the client, `win_cur` and
`bufSize` of the server, the state `TIMEOUT_ON_CLIENT_SETUP` (no code enters
it), `get_data_from_packet` (never called). `START`, `SETUP_CLIENT_SOCKET` and
the opening of the local file are folded into the initial states. Short writes
are not modelled. Socket errors that end a process (`exit(-1)`) are not either.
`received_eof` builds ACK_EOF in a buffer it has freed just before. Nothing is
allocated until it is copied out of there, so a packet that leaves is intact; but
`infoSeqNo::run` allocates before `sendto`, and an allocator that finds its lists
overwritten ends the process there. With `FreedMayAbort` the child may die without
answering (`ReceivedEofAborts`). `IndexReaches` is the loop with the `uint8_t` index
that initialises a child's window: with `IndexMod` (256) slots or more it never ends.
`libcpe464` never injects an error into the first packet a process sends unless its
list names it (`FirstSpared`); the paths of the upload's model may damage that one too.

The four modules beside the upload abstract from it in turn. ServerMain keeps of a
child only whether it runs. PacketPath keeps of the two programs one sender and one
receiver with one buffer each; a message is any sequence of bytes. ErrorInjection
leaves out which byte is flipped (PacketPath has that) and the content of
datagrams: the history is a set of datagrams, not of their sequence numbers. Random
numbers have `Scale` values, and rates are multiples of `1/Scale`. StartUp has perfect
paths, names and chunks as lengths, and rates in percent.

## 3. The runs

Bounds, and why they are enough:

- `Child` is the set of processes that may be forked. One child is the ordinary
  upload; two are enough for the hazards of a second child; the timely run has
  three, more than its two faults can cause to be forked.
- `WinSize = 2` (3 for the run with two gaps) with files of 1 to 4 chunks: files
  shorter than the window, as long, and longer, so that the window slides past
  its own size and every slot is reused.
- `MaxFaults` bounds faults in a behaviour, 1 or 2. Every hazard in the list
  needs at most two. Timeouts are *not* faults: except in the timely runs they
  may happen at any moment, so retries overlap with answers without limit.
- `MaxTimeouts` is 10 in the code and 1 or 2 here. The counter is only compared
  with its limit; with 2 a counter that is reset, counted and exceeded all occur.
- `QueueCap` is the receive buffer of a socket; a datagram that finds it full is
  dropped, as the kernel does. 2 or 3 hold all that one round of a window sends,
  and a full queue costs no fault, so overflow is explored too.
- `WordMod = 16` stands for 2^32 in `SREJ_num - 1`; packet numbers stay below it.
- `FreedMayAbort` is TRUE in `one_child`, `reordering` and `two_children`, which promise
  nothing that an early death could break, and FALSE in `timely_delivery`, which does.
- `main_loop`: three entries in the process table, three uploads asked for or under way
  at a time, six packets: the table fills, empties, and is filled again by others.
- `packet_path`: packets of 8, 9 and 10 bytes (a control packet, an odd length, an even
  one), three datagrams, so that a buffer is refilled and a packet resent; the bytes are
  chosen so that carries occur and sums are all ones. Any byte may be flipped. A buffer holds
  the packet before, or one of two other contents (`Buffers`), so that the byte nobody
  writes is now 0 and now not.
- `error_injection`: two children, three datagrams each, three random values, and lists
  that are unset, empty, negative, wrap (`LongMod = 16` for 2^32) or end in junk.
- `start_up`: arguments on both sides of every limit that is checked, of every buffer, of
  255 and 65535. `UintMod` is 2^20, larger than any number given, so that negative
  arguments stay far from positive ones.

Runs that must pass:

| Run | Question | Properties |
|---|---|---|
| `one_child` | loss, damage, duplication, disk failures, late answers; that both programs end, with no assumption on the paths | `IInv`, `Integrity`, `AckedMeansComplete`, `SrejCurrent`, `SrejNumSet`, `OrderInv`, `WindowOnDisk`, `LatestKept`, `WindowSlidesForward`, `ClientStops`, `ChildrenStop` |
| `reordering` | paths that also reorder; refinement of FileCopy | `Integrity`, `EofOnlyWhenComplete`, `ImplementsFileCopy` |
| `two_children` | two children on one file | `NoForeignChunk` |
| `timely_delivery` | liveness: the file gets there although two packets, of one window or not, are lost or damaged | `CleanPathOneChild`, `CleanServed`, `CleanPathSucceeds`, `CleanTransfer`, `CleanPathResendable`, `Delivered` |
| `main_loop` | the process table: when does the server end, and is every child reaped | `MainInv`, `ExitsOnlyWhenFull`, `EndedIsReaped` |
| `packet_path` | does the checksum tell every damaged packet from every intact one, in reused buffers, and does what is left in them reach a message | `PathInv`, `DamageDetected`, `IntactAccepted`, `ImplementsDatagram` |
| `error_injection` | which datagrams meet an error, for every setting, and is it the same for all children | `InjectInv`, `DropListDecides`, `FirstSpared`, `EnvironmentWins`, `SameErrors`, `SentIsCounted` |
| `start_up` | do the checks of the command line keep every later buffer, index and length sound | `StartUpInv`, `AcceptedFits`, `WholeChunk`, `SamePort` |

`SrejNumSet` says that on paths that keep the order the number the client resends by is
that of a packet it has sent, although `send_eof_and_quit` stores a SREJ in a variable
that shadows `SREJ_num`. `WindowSlidesForward` says that the left edge of rcopy's window,
which `process_incoming_data` sets from every RR without comparing it, never moves back.
Both are false if packets overtake each other, and both are stated for one child. They
rest on `OrderInv`, which is checked beside them. `LatestKept` is about the client's window
alone: it holds the packets read last, each in the slot a resend looks in, so that
what `unacked_overwritten` shows happens only by reading on past the window;
`CleanPathResendable` says that this does not happen before a path misbehaves.
`CleanServed` and `CleanTransfer` are the inductive invariants of the undisturbed upload.
`ExitsOnlyWhenFull` says that the server ends
only if at some time as many children were running as the table has entries: those that
have ended and wait to be reaped never add up beyond that. `DropListDecides` and
`FlipListFlips` say the same of the two lists, that what is listed happens; the first holds,
the second is violated (below). `SentIsCounted` is what holds of "all Standard MsgEvents
will be performed". `AcceptedFits` names what the checks leave out: it assumes a buffer size
that is not negative and a window of 1 to 255.

**Fairness.** `FairSpec` asks weak fairness of the client, of the main loop and of
each child, as a whole: a process that can take a step takes one. The code
justifies it (so does ServerMain's: `Main` runs when it can, and every child ends, which is
`ChildrenStop`): each process is a loop around `select`, which returns with a packet
or runs out (1 s in the client, 10 s and 11 s in a child; the main loop has no
timeout and needs none), and no handler waits for anything else. Nothing is assumed
of single actions, so a process may always answer late.

**Timely.** With `Timely = FALSE` a select may time out at any moment: enough for
safety, and for everybody to end, but `Delivered` would be false, since a client that
always times out too early gives up. With `Timely = TRUE` the client's select
times out only when nothing is under way (`Quiet`), and a child's only when the
client has stopped or talks to another child (`Forgotten`): round trips are
shorter than one second, and a living client sends at least once a second.

Runs that find a disagreement between the code and what it says of itself (each
checks one property and violates it; `findings` in `PROJECT.json` has the lines):

| Run | What happens |
|---|---|
| `unacked_overwritten` | after a duplicated RR the client sends past its window and overwrites a packet that is not acknowledged; it can never be resent |
| `short_file_exit` | no fault at all: a file shorter than the window, the last RR handled before `read()` returned 0, and the timeout resends an empty slot: `exit(1)` |
| `second_child_truncates` | a second child truncates the file under the first; the client reports success over a damaged file |
| `flip_list_ignored` | a datagram that `CPE464_OVERRIDE_ERR_FLIP` lists leaves as it is: the list is read, and no event installed for it |

Other places where the code and what it says of itself part, seen in the actions of the
models; no run is spent on them:

| Code | Says | Where in the models |
|---|---|---|
| `rcopy.c:247`: a setup ACK that comes late, in the data phase, ends the client | `:56`, it ends upon timeout or ACK_EOF | `ProcessIncomingData` |
| `rcopy.c:503`, `:516`: a SREJ in the last exchange is stored in a local `SREJ_num` | `:70`, set when a SREJ is received | `SEND_EOF_SELECT` |
| `server.c:399`: the condition is never true, so after the first of two gaps is filled the child is silent | `:397`, more packets are buffered and the missing one is asked for | `AcceptData` |
| `server.c:612`: uses `sendPacket` freed at `:608` | `:718`, sends ACK_EOF | `ReceivedEofAborts` |
| `server.c:456`, `:470`: `uint8_t` index, endless with 256 slots | `:469`, all slots are set | `IndexReaches`, `caught` |
| `server.c:77`: a failed fork ends the server, also if an entry would be free after `:91` | `:67`, loop forever | `ForkFails` |
| `rcopy.c:604`: a negative buffer size is large where it is unsigned and small where it is signed, and passes | `:606`, between 400 and 1400 | `BufferSizeOk` |
| `rcopy.c:618`: no window size is refused, 0 and negative ones neither | `:620`, greater than 0; `server.c:583`, checked on the client side | `WindowSizeOk` |
| `rcopy.c:611`: rate 1 is accepted, the server refuses it | `cpe464.h`, between 0 and less than 1 | `ArgumentsOk` |
| `rcopy.c:50`: the result of `udp_client_setup` is ignored | its -1 for an unknown host | `UdpClientSetup` |
| `network-hooks.c:47`: an empty `CPE464_OVERRIDE_PORT` is port 0 | `testRandError.sh` exports it empty, for no override | `BindPort` |
| `PacketManager.cpp:114`: an event that drops hides the datagram from those after it | `PacketManager.h:5`, all standard events run on each packet | `ConstantRuns` |
| `networks.c:193`, `:227`: the payload is copied behind 7 bytes and the length sent counts 8 (12 for 11), so the last byte is what the buffer held | `:151`, "NOT SURE WHY WE SUBTRACT 1" | `Filled`, `SendBuf` |
| `checksum.c:70-79`: an odd byte is taken alone | `:37`, goes off the end by one byte | `MopUp` |

## 4. The proofs

The theorems of the upload are proved from the assumptions on its constants
(`ChannelAssumption`, `RcopyAssumption`, `ServerAssumption`, `UploadAssumption`; all that
they say is that windows and queues hold at least one packet, that bounds are naturals
and that the main process is no child), for every local file, window size, set of
children, queue length and number of faults, with and without duplication,
reordering, disk failures and timely paths.

| Theorem | Says |
|---|---|
| `TypeCorrect` | `Spec => []TypeOK` |
| `WindowsCorrect` | `Spec => []WindowInv`, the inductive invariant of the second layer |
| `NoChunkIsForeign` | `Spec => []NoForeignChunk` |
| `SrejIsCurrent` | `Spec => []SrejCurrent` |
| `FileIsPrefix` | `Spec => []Integrity` |
| `TransferCorrect` | `Spec => []TransferInv`, the inductive invariant of the third layer |
| `InvariantHolds` | `Spec => []IInv` |
| `SuccessIsComplete` | `Spec => []AckedMeansComplete` |
| `EofIsLast` | `Spec => []EofOnlyWhenComplete` |
| `SlidOnlyPastWritten` | `Spec => []WindowOnDisk` |
| `WindowKeepsLatest` | `Spec => []LatestKept` |
| `RepliesInOrder`, `ResendsOnlySent`, `WindowNeverSlidesBack` | `Spec => []OrderInv`, `[]SrejNumSet`, `WindowSlidesForward`, assuming `~Reorder` and at most one child |
| `ServedByOneChild`, `OneChildOnCleanPaths` | `Spec => []CleanServed`, `[]CleanPathOneChild`, assuming `Timely` |
| `CleanTransferHolds`, `CleanPathsSucceed`, `CleanPathsKeepWindow` | `Spec => [](SoundInv /\ CleanTransfer)`, `[]CleanPathSucceeds`, `[]CleanPathResendable`, assuming `CleanSetting` |
| `UploadIsCopy` | `Spec => ImplementsFileCopy`, assuming `SoleChild`: at most one child, no failing disk |
| `MainLoopCorrect`, `MainExitsOnlyWhenFull` | `Spec => []MainInv`, `[]ExitsOnlyWhenFull` of ServerMain |
| `ChecksumInvariant`, `OnlyIntactAccepted`, `EveryIntactAccepted`, `PathIsDatagram` | `Spec => []PathInv`, `[]DamageDetected`, `[]IntactAccepted`, `ImplementsDatagram` of PacketPath |
| `InjectionCorrect`, `DropListAlwaysDecides`, `FirstAlwaysSpared`, `EnvironmentAlwaysWins`, `SentAlwaysCounted`, `SameErrorsAlways` | the six invariants of ErrorInjection |
| `StartUpCorrect`, `AcceptedFitsAlways`, `WholeChunkAlways`, `SamePortAlways` | the four invariants of StartUp |

**First layer, `WireInv` (UploadProofs).** The types alone are not inductive: the
chunk a child writes comes out of a packet, so one must know what packets there
are. `WireInv` adds that a DATA packet anywhere (on the way, in the client's
window, in a child's hands or window) carries the chunk of its own number, one that
has been read (`Genuine`, `OwnPacket`); that the client's packet counter follows
its file offset (`ClientCounters`), and that a child in the data phase has had its
window size and its file (`ChildGenuine`), without which `% win_size` is undefined.
It is proved one action at a time. What is written when a run of buffered packets is
flushed is defined by CHOOSE in `RunBehind`; `RunBehindType` shows by well-founded
induction on the naturals that the number chosen exists.

**Second layer, `WindowInv` (WindowProofs).** `Integrity` is not inductive either:
the child writes buffered packets without looking at their numbers again, so that they
are the next ones must follow from where they are stored. `ChildWindow` says that a
slot holds nothing or a packet of the present window whose number leads to that slot,
and that a remembered SREJ asks for `cur_RRnum`. `SlotNumber` is the heart: among the
numbers a window can hold only one leads to a given slot, hence the j-th slot from
`cur_RRnum` on can only hold packet `cur_RRnum + j + 1` (`RunNumbers`, `RunIsNext`).
`LeftAhead` shows that what is not flushed is still ahead after the window slid, and
`AcceptedFile` that the file grows as it should. `FileMatches` distinguishes a file
with one opener, which has no holes, from a shared one, which may. For the client's own
window `LatestKept` is inductive as it stands: `FreshSlot` shows that a packet just read
takes the slot of none of the packets that fit beside it.

**Third layer, `TransferInv` (ReplyProofs).** That success means a complete file is a
fact about what travels. An RR or SREJ on its way names no packet beyond the child's
`cur_RRnum`, and an ACK_EOF comes only from a child that has accepted everything
(`Honest`, `RepliesHonest`); END_OF_FILE is on its way only to such a child
(`Lawful`, `EofAfterAll`); the client's window has slid only past what some child has
accepted (`WindowBehind`). All of these say something about `cur_RRnum` from below, and no step
makes it smaller, so a packet that was honest or lawful stays so however long it is
delayed and however often it is duplicated (`PromisesKept`). The client decides that
everything is acknowledged from the RR it receives, of whatever child; that the child
it sends END_OF_FILE to is the one that sent that RR holds because `recv_buf` stores
the sender first (`IncomingPromises`). `SuccessIsComplete`, `EofIsLast` and
`SlidOnlyPastWritten` combine this with `FileMatches`.

**Paths that keep the order (ReplyProofs).** `Honest` bounds a reply from above, by `cur_RRnum`.
That a SREJ asks for a packet that has been *sent* needs a bound from the other side:
once everything is acknowledged a SREJ would ask for the packet after the last, and a client in
`SEND_EOF_AND_QUIT` must not hear it. `SrejInv` follows this through the queue: behind
the last RR there is no SREJ (`AsksInTime`), and when the client announces the end there is none
at all. The child may still send a SREJ only while it misses a packet of the file
(`ChildAsks`). `AcksInv` says that the RRs of a queue are in order and all at or after
the left edge of the client's window. Three lemmas for each say what the head, the tail and the
duplicate do to such a queue (`TakenInTime`, `PutInTime`, `DamagedInTime`, and `...InOrder`);
loss, damage, duplication, a full queue and timeouts change nothing. Reordering does, and
so does a second child, whose RRs start again at 1: hence the hypotheses.

**The refinement (ReplyProofs).** `SoleChild` is needed: a second child truncates the file
(run `second_child_truncates`) and a failed write leaves it short, and `FileCopy` forbids
both. Under it the file is at every moment the prefix of the local file that the child has
acknowledged (`AckedOnDisk`), opened or not; `ChildAdvances` shows that no step takes an
acknowledgement back, so a step of the child extends the copy or leaves it alone
(`FileGrows`). A step of the client changes the verdict at most once (`ClientEndsOnce`),
and to success only when `AckedMeansComplete` says that the copy is complete. `SoundInv`
adds to `TransferInv` the three facts this uses.

**Undisturbed uploads (CleanPathProofs).** These theorems say what happens before the first
fault, for every file, window and queue. `CleanServed` needs only `Timely`: a `FILE_NAME` goes out
a second time only if the first exchange ran out, and on timely paths it does so only when
nothing is under way, which after the first `FILE_NAME` means a fault. It covers
three cases: nobody has been served, the one child has not been heard yet (`Greeted`), or the client
talks to it (`Known`), and then never sends `FILE_NAME` again. `CleanTransfer` follows the
upload through its stages. `SettingUp`: one request or one answer exists at a time (`Exchange`).
`Flowing`: the packets read are, in this order, acknowledged, acknowledged on the way, taken
by the child, or on the way to it, with no gap and no repetition (`InSequence`). `Reminding`: the
client handled the last RR before `read()` returned 0, so nothing is under way any more; it
resends a packet and is told the last RR again. `Ending`. Then success. Each stage has
two lemmas, what the client does in it (`...Asks`) and what the child does (`...Served`);
`NoRetry` and `SilenceAfterAll` show that a select runs out only between `Flowing` and `Reminding`.

`CleanSetting` asks for what this needs and no more than the code depends on: `Timely` and paths
that keep the order; a disk and an allocator that do not fail; a server that can fork a child; sockets
that hold a window, since a full one drops a packet without counting as a fault; one retry, for
`Reminding`; and a file that fills the window, since otherwise `Reminding` resends an
empty slot (run `short_file_exit`). The configuration of `timely_delivery` satisfies it.

**The main loop (ServerMainProofs).** From `ServerMainAssumption`, for a process table of
any size. `Leftover` is inductive: what main leaves in the table when it goes back to
`select` was running then, so the entries in use are never more than the most children
that ran at one time, and one more while it forks and reaps.

**A packet (PacketPathProofs).** From `PathAssumption`, for every message of up to 1500 bytes,
at the real widths. `SumsAgree` relates the receiver's sum to the sender's at the same
word: it differs by the checksum and by what the flipped byte adds, which is a multiple
of 255 below 2^16 and not 0. Both sums stay below 2^31, so the `int` never overflows and two
foldings are enough. `Answer` of the sum with the checksum is 0 exactly if nothing
was flipped; that is arithmetic of two foldings, done in lemmas. For the refinement of Datagram
only the bytes `send_buf` writes count (`Body`), without the checksum and without the last
byte: `SendBufFills` shows that nothing the buffer held before is among them, `InsertSpares` and `MessageStays` that nothing else
touches them, and `Carried` that what leaves is what some caller gave. The rounds of `in_cksum`
and a datagram that is dropped are stutters (`DatagramStep`).

**Errors (ErrorInjectionProofs).** From `InjectionAssumption`, for every environment, rate, seed
and number of processes. `Installed` says which events the two rounds of settings leave;
from that `FateOf` says what a datagram can meet and `Told` what all that were sent have
met. `SameErrors` is not inductive: `Replays(D)` adds one count `D` of the numbers that datagrams
1 to i take, the same for every process, and that the stream after `D[i - 1]` decides the fate of
datagram i. A process that sends the n-th datagram first fixes `D[n]`; one that comes later
finds the numbers known (`SendReplays`).

**The start (StartUpProofs).** From `StartUpAssumption`, for every command line and port.
`StartUpInv` follows the settings from the arguments through the packets to the child.

## 5. Checked by TLC only

- Liveness (`Delivered`, `ClientStops`, `ChildrenStop`, `EndedIsReaped`): out of the prover's reach.
- That the upload of `CleanSetting` ends at all is part of `Delivered`; proved is that it ends
  in no other way than on ACK_EOF.
- `SrejNumSet`, `WindowSlidesForward` and `OrderInv` are claimed of one child and of paths that
  keep the order, the `CleanPath...` properties of timely paths; elsewhere they are not true.

## 6. Not modelled, and the plan

What is left, in the order of its weight:

1. Several clients that write one remote file, or clients and children that share the
   ports of one host: Upload has one client, ServerMain has many but not their files.
2. The refinement of FileCopy for several children, with an abstract file that may be
   truncated and begun again.
3. Timely paths after a fault: the safety part of `Delivered`, that no retry counter runs out
   while at most `MaxTimeouts` packets are lost.
4. Short writes, and errors of `read()`, `select()` and `socket()` that end a process.

Left out for good: the `timeval` that every `select_call` allocates and never frees
(`networks.c:102`), since no model has a heap; name resolution and the sockets themselves;
`send_Err`, the receiving hooks and `selectMod`, which nothing calls or which only call
on; debug output, which only prints.
