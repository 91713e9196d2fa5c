--------------------------- MODULE ServerMainProofs ---------------------------
(***************************************************************************)
(* The main loop gives up only when as many children ran at one time as    *)
(* the process table has entries, however many there were in all.          *)
(***************************************************************************)
EXTENDS ServerMain, FiniteSetTheorems, TLAPS

\* The sets counted are finite, and their sizes are natural numbers.
LEMMA Counted ==
    ASSUME MainTypeOK
    PROVE  /\ IsFiniteSet(Running) /\ Cardinality(Running) \in Nat
           /\ IsFiniteSet(Used) /\ Cardinality(Used) \in Nat
           /\ IsFiniteSet(Ended) /\ Cardinality(Ended) \in Nat
           /\ Len(port) \in Nat
<1>1. Running \in SUBSET Slot /\ Used \in SUBSET Slot /\ Ended \in SUBSET Slot
  BY DEF Running, Used, Ended, In
<1>2. IsFiniteSet(Running) /\ IsFiniteSet(Used) /\ IsFiniteSet(Ended)
  BY <1>1, FS_Subset, ServerMainAssumption
<1>3. Len(port) \in Nat
  BY DEF MainTypeOK
<1> QED BY <1>2, <1>3, FS_CardinalityType

\* At the start nothing is under way and no entry is used.
LEMMA MainInit == ASSUME Init PROVE MainInv
<1>1. MainTypeOK
  BY DEF Init, MainTypeOK
<1>2. Running = {} /\ Used = {} /\ peak = 0 /\ pc = "select"
  BY DEF Init, Running, Used, In
<1>3. Cardinality(Running) = 0 /\ Cardinality(Used) = 0
  BY <1>2, FS_EmptySet
<1> QED BY <1>1, <1>2, <1>3 DEF MainInv, Leftover

\* What does not touch the table, or only returns main to the same part of its loop.
LEMMA TableKept ==
    ASSUME MainInv, MainTypeOK', process' = process, peak' = peak,
           pc' = "reap" => pc \in {"reap", "select"},
           pc' \in {"select", "fork"} => pc \in {"select", "fork"}
    PROVE  MainInv'
<1>1. Running' = Running /\ Used' = Used
  BY DEF Running, Used, In
<1>2. /\ Cardinality(Used) \in Nat /\ peak \in Nat
      /\ Cardinality(Running) <= peak
      /\ pc \in {"select", "fork"} => Cardinality(Used) <= peak
      /\ pc = "reap" => Cardinality(Used) <= peak + 1
  BY Counted DEF MainInv, Leftover, MainTypeOK
<1> QED BY <1>1, <1>2 DEF MainInv, Leftover

LEMMA SendKeeps == ASSUME MainInv, SendFileName PROVE MainInv'
<1>1. PICK p \in {"sound", "garbled"} : port' = Append(port, p)
  BY DEF SendFileName
<1>2. UNCHANGED <<pc, process, peak>> /\ sent' = sent + 1 /\ MainTypeOK
  BY DEF SendFileName, MainInv
<1>3. MainTypeOK'
  BY <1>1, <1>2 DEF MainTypeOK
<1> QED BY <1>2, <1>3, TableKept

LEMMA RecvKeeps == ASSUME MainInv, RecvBuf PROVE MainInv'
<1>1. /\ pc = "select" /\ port # <<>> /\ port' = Tail(port) /\ pc' \in {"fork", "reap"}
      /\ UNCHANGED <<process, sent, peak>> /\ MainTypeOK
  BY DEF RecvBuf, MainInv
<1>2. MainTypeOK'
  BY <1>1 DEF MainTypeOK
<1> QED BY <1>1, <1>2, TableKept

LEMMA ChildEndKeeps ==
    ASSUME MainInv, NEW s \in Slot, ChildEnds(s)
    PROVE  MainInv'
<1>1. /\ process[s] = "running" /\ port' = port /\ pc' = pc /\ sent' = sent /\ peak' = peak
      /\ process' = [process EXCEPT ![s] = IF pc = "exited" THEN "free" ELSE "ended"]
      /\ MainTypeOK
  BY DEF ChildEnds, MainInv
<1>2. MainTypeOK'
  BY <1>1 DEF MainTypeOK
<1>3. Running' = Running \ {s} /\ s \in Running
  BY <1>1 DEF Running, In, MainTypeOK
<1>4. pc # "exited" => Used' = Used
  BY <1>1 DEF Used, In, MainTypeOK
<1>5. Cardinality(Running') = Cardinality(Running) - 1
  BY <1>1, <1>3, Counted, FS_RemoveElement
<1> QED BY <1>1, <1>2, <1>4, <1>5, Counted DEF MainInv, MainTypeOK, Leftover

LEMMA ForkKeeps ==
    ASSUME MainInv, NEW s \in Slot, Fork(s)
    PROVE  MainInv' /\ peak' >= peak
<1>1. /\ pc = "fork" /\ process[s] = "free" /\ pc' = "reap" /\ port' = port /\ sent' = sent
      /\ process' = [process EXCEPT ![s] = "running"]
      /\ peak' = IF Cardinality(Running') > peak THEN Cardinality(Running') ELSE peak
      /\ MainTypeOK
  BY DEF Fork, HighestOf, MainInv
<1>2. Running' = Running \cup {s} /\ s \notin Running /\ Used' = Used \cup {s} /\ s \notin Used
  BY <1>1 DEF Running, Used, In, MainTypeOK
<1>3. /\ Cardinality(Running') = Cardinality(Running) + 1 /\ Cardinality(Running) \in Nat
      /\ Cardinality(Used') = Cardinality(Used) + 1
  BY <1>1, <1>2, Counted, FS_AddElement
<1>4. peak' \in Nat /\ peak' >= peak /\ Cardinality(Running') <= peak' /\ peak \in Nat
  BY <1>1, <1>3 DEF MainTypeOK
<1>5. MainTypeOK'
  BY <1>1, <1>4 DEF MainTypeOK
<1>6. Cardinality(Used) <= peak /\ Cardinality(Used) \in Nat
  BY <1>1, Counted DEF MainInv, Leftover
<1> QED BY <1>1, <1>3, <1>4, <1>5, <1>6 DEF MainInv, Leftover

LEMMA ForkFailureKeeps == ASSUME MainInv, ForkFails PROVE MainInv'
<1>1. /\ pc = "fork" /\ pc' = "exited" /\ port' = port /\ sent' = sent /\ peak' = peak
      /\ process' = [s \in Slot |-> IF process[s] = "ended" THEN "free" ELSE process[s]]
      /\ MainTypeOK
  BY DEF ForkFails, MainInv
<1>2. MainTypeOK'
  BY <1>1 DEF MainTypeOK
<1>3. Running' = Running
  BY <1>1 DEF Running, In, MainTypeOK
<1> QED BY <1>1, <1>2, <1>3 DEF MainInv, Leftover

LEMMA WaitpidKeeps ==
    ASSUME MainInv, NEW s \in Slot, Waitpid(s)
    PROVE  MainInv'
<1>1. /\ pc = "reap" /\ process[s] = "ended" /\ pc' = pc /\ port' = port /\ sent' = sent /\ peak' = peak
      /\ process' = [process EXCEPT ![s] = "free"]
      /\ MainTypeOK
  BY DEF Waitpid, MainInv
<1>2. MainTypeOK'
  BY <1>1 DEF MainTypeOK
<1>3. Running' = Running /\ Used' = Used \ {s} /\ s \in Used
  BY <1>1 DEF Running, Used, In, MainTypeOK
<1>4. Cardinality(Used') = Cardinality(Used) - 1
  BY <1>1, <1>3, Counted, FS_RemoveElement
<1>5. Cardinality(Used) <= peak + 1 /\ Cardinality(Used) \in Nat
  BY <1>1, Counted DEF MainInv, Leftover
<1> QED BY <1>1, <1>2, <1>3, <1>4, <1>5 DEF MainInv, MainTypeOK, Leftover

\* Back at select only those that run have an entry.
LEMMA WaitpidNoneKeeps == ASSUME MainInv, WaitpidNone PROVE MainInv'
<1>1. /\ pc = "reap" /\ Ended = {} /\ pc' = "select" /\ port' = port /\ process' = process
      /\ sent' = sent /\ peak' = peak /\ MainTypeOK
  BY DEF WaitpidNone, MainInv
<1>2. MainTypeOK'
  BY <1>1 DEF MainTypeOK
<1>3. Used' = Running /\ Running' = Running
  BY <1>1 DEF Used, Running, Ended, In, MainTypeOK
<1> QED BY <1>1, <1>2, <1>3 DEF MainInv, Leftover

\* Every step keeps the invariant.
LEMMA MainNextKeeps == ASSUME MainInv, [Next]_vars PROVE MainInv'
<1>1. CASE SendFileName
  BY <1>1, SendKeeps
<1>2. CASE \E s \in Slot : ChildEnds(s)
  BY <1>2, ChildEndKeeps
<1>3. CASE RecvBuf
  BY <1>3, RecvKeeps
<1>4. CASE \E s \in Slot : Fork(s) \/ Waitpid(s)
  BY <1>4, ForkKeeps, WaitpidKeeps
<1>5. CASE ForkFails
  BY <1>5, ForkFailureKeeps
<1>6. CASE WaitpidNone
  BY <1>6, WaitpidNoneKeeps
<1>7. CASE UNCHANGED vars
  BY <1>7 DEF vars, MainInv, MainTypeOK, Leftover, Running, Used, In
<1> QED BY <1>1, <1>2, <1>3, <1>4, <1>5, <1>6, <1>7 DEF Next, Main, SelectTimeout

\* The entries main leaves behind, and the types: what the loop of fork and waitpid
\* maintains, for any process table.
THEOREM MainLoopCorrect == Spec => []MainInv
<1>1. Init => MainInv
  BY MainInit
<1>2. MainInv /\ [Next]_vars => MainInv'
  BY MainNextKeeps
<1> QED BY <1>1, <1>2, PTL DEF Spec

\* When fork finds no entry, the table is full of what main left in it.
LEMMA FailureIsFull ==
    ASSUME MainInv, ForkFails
    PROVE  peak >= Cardinality(Slot)
<1>1. Used = Slot /\ pc = "fork"
  BY DEF Used, ForkFails
<1>2. Cardinality(Used) <= peak
  BY <1>1 DEF MainInv, Leftover
<1> QED BY <1>1, <1>2, FS_CardinalityType, ServerMainAssumption DEF MainInv, MainTypeOK

\* peak only grows.
LEMMA PeakGrows == ASSUME MainInv, [Next]_vars PROVE peak' >= peak
<1>1. CASE \E s \in Slot : Fork(s)
  BY <1>1, ForkKeeps
<1>2. CASE ~ \E s \in Slot : Fork(s)
  BY <1>2 DEF Next, Main, SendFileName, ChildEnds, SelectTimeout, RecvBuf, ForkFails, Waitpid,
              WaitpidNone, vars, MainInv, MainTypeOK
<1> QED BY <1>1, <1>2

\* server.c:67, "Loop forever": main exits only if at some time as many children ran
\* as the process table has entries, for any table and any number of uploads.
THEOREM MainExitsOnlyWhenFull == Spec => []ExitsOnlyWhenFull
<1>1. Init => ExitsOnlyWhenFull
  BY DEF Init, ExitsOnlyWhenFull
<1>2. MainInv /\ ExitsOnlyWhenFull /\ [Next]_vars => ExitsOnlyWhenFull'
  <2> SUFFICES ASSUME MainInv, ExitsOnlyWhenFull, [Next]_vars PROVE ExitsOnlyWhenFull'
    OBVIOUS
  <2>1. peak' >= peak /\ peak \in Nat /\ peak' \in Nat /\ Cardinality(Slot) \in Nat
    BY PeakGrows, MainNextKeeps, FS_CardinalityType, ServerMainAssumption DEF MainInv, MainTypeOK
  <2>2. CASE ForkFails
    BY <2>1, <2>2, FailureIsFull DEF ExitsOnlyWhenFull
  <2>3. CASE ~ForkFails
    <3>1. pc' = "exited" => pc = "exited"
      BY <2>3 DEF Next, Main, SendFileName, ChildEnds, SelectTimeout, RecvBuf, Fork, Waitpid,
                  WaitpidNone, vars
    <3> QED BY <2>1, <3>1 DEF ExitsOnlyWhenFull
  <2> QED BY <2>2, <2>3
<1> QED BY <1>1, <1>2, MainLoopCorrect, PTL DEF Spec
=============================================================================
