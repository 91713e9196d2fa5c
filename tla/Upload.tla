------------------------------- MODULE Upload --------------------------------
(***************************************************************************)
(* One upload, from rcopy's start to the end of every process: the client  *)
(* (Rcopy), the server's main loop and the children it forks (ServerChild) *)
(* and the paths between them (Channel), interleaved step by step.         *)
(***************************************************************************)
EXTENDS ServerChild

CONSTANT
    Timely    \* TRUE: an answer always arrives before a select times out

ASSUME UploadAssumption == Timely \in BOOLEAN

vars == <<channelVars, rcopyVars, serverVars>>

Init == ChannelInit /\ RcopyInit /\ ServerInit

\* Nothing is under way: no packet is queued for a process that will read it,
\* and no child is working on one.
Quiet ==
    /\ \A k \in Child : toClient[k] = <<>>
    /\ toServer[Main] = <<>> \/ \A k \in Child : ~Unforked(k)
    /\ \A k \in Child : Exited(k) \/ toServer[k] = <<>>
    /\ \A k \in Child : child[k].state \in {"NONE", "DONE", "READY_FOR_NEXT_SETUP_PACKET",
                                            "READY_FOR_NEXT_DATA_PACKET"}

\* The client has no more to say to child k.
Forgotten(k) ==
    /\ toServer[k] = <<>>
    /\ ClientDone \/ (remote # k /\ toClient[k] = <<>>)

\* With timely paths the client's select (1 s) times out only in silence, and a
\* child gives up (10 s or 11 s) only on a client that has stopped or talks to
\* another child: a waiting client sends at least once a second.
ClientNext ==
    /\ RcopyStep \/ ((Timely => Quiet) /\ RcopyTimeout)
    /\ UNCHANGED serverVars

MainNext == (\E k \in Child : MainAccept(k)) /\ UNCHANGED rcopyVars

ChildNext(k) ==
    /\ \/ ChildStep(k)
       \/ (Timely => Forgotten(k)) /\ ChildTimeout(k)
    /\ UNCHANGED rcopyVars

\* The client and all children have ended; the main loop waits for ever.
Terminated ==
    /\ ClientDone
    /\ \A k \in Child : Unforked(k) \/ Exited(k)
    /\ UNCHANGED vars

Next ==
    \/ ClientNext
    \/ MainNext
    \/ \E k \in Child : ChildNext(k)
    \/ Terminated

Spec == Init /\ [][Next]_vars

\* Every process keeps running: its next select returns with a packet or times
\* out, and every other step needs nothing but the processor.
FairSpec ==
    /\ Spec
    /\ WF_vars(ClientNext)
    /\ WF_vars(MainNext)
    /\ \A k \in Child : WF_vars(ChildNext(k))
=============================================================================
