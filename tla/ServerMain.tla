----------------------------- MODULE ServerMain ------------------------------
(***************************************************************************)
(* The server's main process for any number of uploads, server.c: main     *)
(* waits at the well-known port, forks a child for every packet whose      *)
(* checksum holds, and then reaps the children that have ended, all of     *)
(* them, but only then: not while it waits.  A child that has ended keeps  *)
(* its entry in the process table until it is reaped.                      *)
(***************************************************************************)
EXTENDS Integers, Sequences, FiniteSets

CONSTANTS
    Slot,         \* the entries the process table has for children
    MaxAlive,     \* bound: children that run and packets for main at any one time
    MaxPackets    \* bound: packets sent to the port in a behaviour

ASSUME ServerMainAssumption ==
    /\ IsFiniteSet(Slot)
    /\ MaxAlive \in Nat \ {0}
    /\ MaxPackets \in Nat

VARIABLES
    port,       \* the packets queued at the well-known port
    pc,         \* where main is in its loop
    process,    \* the process table
    sent,       \* packets sent to the port so far
    peak        \* auxiliary: the largest number of children that ran at one time

vars == <<port, pc, process, sent, peak>>

In(status) == {s \in Slot : process[s] = status}
Running    == In("running")
Ended      == In("ended")
Used       == Slot \ In("free")

\* The children that run, the packets at the port, and the one main forks for.
Load == Cardinality(Running) + Len(port) + (IF pc = "fork" THEN 1 ELSE 0)

Init ==
    /\ port = <<>>
    /\ pc = "select"
    /\ process = [s \in Slot |-> "free"]
    /\ sent = 0
    /\ peak = 0

-----------------------------------------------------------------------------
(* The clients and their children.                                         *)

\* A client sends FILE_NAME, for the first time or again; the path may garble it.
SendFileName ==
    /\ sent < MaxPackets
    /\ Load < MaxAlive
    /\ sent' = sent + 1
    /\ \E p \in {"sound", "garbled"} : port' = Append(port, p)
    /\ UNCHANGED <<pc, process, peak>>

\* process_client returns, or dies.  Without its parent nobody keeps the entry.
ChildEnds(s) ==
    /\ process[s] = "running"
    /\ process' = [process EXCEPT ![s] = IF pc = "exited" THEN "free" ELSE "ended"]
    /\ UNCHANGED <<port, pc, sent, peak>>

-----------------------------------------------------------------------------
(* The main loop.                                                          *)

\* select returns 0 after its second.
SelectTimeout ==
    /\ pc = "select"
    /\ port = <<>>
    /\ UNCHANGED vars

\* recv_buf, and "dont fork if recv_len == CRC Failure".
RecvBuf ==
    /\ pc = "select"
    /\ port # <<>>
    /\ pc' = IF Head(port) = "garbled" THEN "reap" ELSE "fork"
    /\ port' = Tail(port)
    /\ UNCHANGED <<process, sent, peak>>

HighestOf(n) == IF n > peak THEN n ELSE peak

\* Mutated form: waitpid is called only when no child has been forked.
ForkNoReap(s) ==
    /\ pc = "fork"
    /\ process[s] = "free"
    /\ process' = [process EXCEPT ![s] = "running"]
    /\ peak' = HighestOf(Cardinality(Running'))
    /\ pc' = "select"
    /\ UNCHANGED <<port, sent>>

Fork(s) ==
    /\ pc = "fork"
    /\ process[s] = "free"
    /\ process' = [process EXCEPT ![s] = "running"]
    /\ peak' = HighestOf(Cardinality(Running'))
    /\ pc' = "reap"
    /\ UNCHANGED <<port, sent>>

\* No entry is free: perror and exit(-1), and the entries of the dead go too.
ForkFails ==
    /\ pc = "fork"
    /\ In("free") = {}
    /\ pc' = "exited"
    /\ process' = [s \in Slot |-> IF process[s] = "ended" THEN "free" ELSE process[s]]
    /\ UNCHANGED <<port, sent, peak>>

\* Mutated form: one child is waited for, not all that have ended.
WaitpidOnce(s) ==
    /\ pc = "reap"
    /\ process[s] = "ended"
    /\ process' = [process EXCEPT ![s] = "free"]
    /\ pc' = "select"
    /\ UNCHANGED <<port, sent, peak>>

\* waitpid(-1, WNOHANG) > 0
Waitpid(s) ==
    /\ pc = "reap"
    /\ process[s] = "ended"
    /\ process' = [process EXCEPT ![s] = "free"]
    /\ UNCHANGED <<port, pc, sent, peak>>

\* waitpid(-1, WNOHANG) <= 0
WaitpidNone ==
    /\ pc = "reap"
    /\ Ended = {}
    /\ pc' = "select"
    /\ UNCHANGED <<port, process, sent, peak>>

Main ==
    \/ SelectTimeout
    \/ RecvBuf
    \/ \E s \in Slot : Fork(s) \/ Waitpid(s)
    \/ ForkFails
    \/ WaitpidNone

Next ==
    \/ SendFileName
    \/ \E s \in Slot : ChildEnds(s)
    \/ Main

Spec == Init /\ [][Next]_vars

\* main runs when it can, and every child ends (ChildrenStop of UploadProps).
FairSpec ==
    /\ Spec
    /\ WF_vars(Main)
    /\ \A s \in Slot : WF_vars(ChildEnds(s))

-----------------------------------------------------------------------------
(* The properties.                                                         *)

MainTypeOK ==
    /\ port \in Seq({"sound", "garbled"})
    /\ pc \in {"select", "fork", "reap", "exited"}
    /\ process \in [Slot -> {"free", "running", "ended"}]
    /\ sent \in Nat
    /\ peak \in Nat

\* server.c:91-94 reaps all children that have ended: what main leaves in the table
\* when it goes back to select was running then, and until the next fork it can
\* only end.  The table never holds more than the most children that ran at one
\* time, and while main forks and reaps one more.
Leftover ==
    /\ Cardinality(Running) <= peak
    /\ pc \in {"select", "fork"} => Cardinality(Used) <= peak
    /\ pc = "reap" => Cardinality(Used) <= peak + 1

\* What the loop maintains: the types, and what it leaves in the table.
MainInv == MainTypeOK /\ Leftover

\* server.c:67, "Loop forever": main exits, at the failed fork of server.c:77, only if
\* at some time as many children ran as the table has entries.  Children that have
\* ended and wait for waitpid cost it no more than that, however many there were.
ExitsOnlyWhenFull == pc = "exited" => peak >= Cardinality(Slot)

\* Every child that has ended is reaped if another packet is waiting.
EndedIsReaped ==
    \A s \in Slot : [](process[s] = "ended" /\ port # <<>> => <>(process[s] # "ended"))
=============================================================================
