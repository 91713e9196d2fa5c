--------------------------- MODULE ErrorInjection ----------------------------
(***************************************************************************)
(* libcpe464: which of the datagrams a process sends are dropped or have a *)
(* byte flipped.  The environment is read before main (SettingsManager),   *)
(* main then asks for a rate and for both kinds of error (sendErr_init),   *)
(* and each process counts its datagrams and draws its random numbers.     *)
(* A child of the server takes over all of that as it is when it is forked *)
(* and its parent sends nothing, so all children draw the same numbers.    *)
(* One set of processes is the server's children or rcopy alone.           *)
(***************************************************************************)
EXTENDS Integers, Sequences, FiniteSets

CONSTANTS
    Process,        \* the processes that send
    Unset, Junk,    \* a variable that is not set, a word that is not a number
    EnvRates,       \* CPE464_OVERRIDE_ERR_RATE: Unset, Junk or a rate
    EnvDrops,       \* CPE464_OVERRIDE_ERR_DROP: Unset, or the tokens between the
                    \* commas, each a number or Junk
    EnvFlips,       \* CPE464_OVERRIDE_ERR_FLIP, likewise
    error_rate,     \* what main passes to sendErr_init
    Scale,          \* drand48() is one of 0, 1/Scale, .. (Scale-1)/Scale, rates too
    LongMod,        \* 2^32, to which a long is cut when it is put into a list
    MaxMsgs         \* bound: datagrams of one process

ASSUME InjectionAssumption ==
    /\ EnvRates \subseteq Nat \cup {Unset, Junk}
    /\ Scale \in Nat \ {0}
    /\ error_rate \in 0 .. Scale
    /\ LongMod \in Nat \ {0}
    /\ MaxMsgs \in Nat

VARIABLES
    env,                    \* the environment, [rate, drop, flip]
    stage,                  \* how far the program has started
    isSet,                  \* which variables m_EnvData holds
    m_ErrorRate,
    m_ErrorCase_Constant,   \* the events run on every datagram
    m_ErrorCase_Chance,     \* the events of which one may be run by chance
    m_MsgNo,                \* by process: datagrams sent, or -1 before it is forked
    drawn,                  \* by process: numbers drawn so far
    stream,                 \* the numbers the seed leads to, as far as they are known
    m_History,              \* by process: the datagrams infoSeqNo has counted
    log                     \* by process: what became of each datagram

settings == <<env, isSet, m_ErrorRate, m_ErrorCase_Constant, m_ErrorCase_Chance>>
vars == <<settings, stage, m_MsgNo, drawn, stream, m_History, log>>

errorDrop     == [kind |-> "errorDrop", all |-> TRUE, list |-> {}]
errorFlipBits == [kind |-> "errorFlipBits", all |-> TRUE, list |-> {}]
infoSeqNo     == [kind |-> "infoSeqNo", all |-> TRUE, list |-> {}]

\* setDropSpecific
DropSpecific(list) == [errorDrop EXCEPT !.all = FALSE, !.list = list]

Init ==
    /\ env \in [rate : EnvRates, drop : EnvDrops, flip : EnvFlips]
    /\ stage = "static"
    /\ isSet = [rate |-> FALSE, drop |-> FALSE, flip |-> FALSE]
    /\ m_ErrorRate = 0
    /\ m_ErrorCase_Constant = <<>>
    /\ m_ErrorCase_Chance = <<>>
    /\ m_MsgNo = [p \in Process |-> -1]
    /\ drawn = [p \in Process |-> 0]
    /\ stream = <<>>
    /\ m_History = [p \in Process |-> {}]
    /\ log = [p \in Process |-> <<>>]

-----------------------------------------------------------------------------
(* The environment, read by the constructor of SettingsManager.            *)

\* parser2ListLong stops at the first token that is no number; parserLong2Uint32
\* passes over negative numbers.  An empty string has no token.
ListOf(tokens) ==
    {tokens[i] % LongMod : i \in {j \in DOMAIN tokens :
        /\ \A h \in 1 .. j : tokens[h] # Junk
        /\ tokens[j] >= 0}}

\* loadEnvData: a number must be readable, a list may hold nothing.
EnvIsSet == [rate |-> env.rate \notin {Unset, Junk},
             drop |-> env.drop # Unset,
             flip |-> env.flip # Unset]

LoadErrRate == IF EnvIsSet.rate THEN env.rate ELSE m_ErrorRate

\* Numbers drop those datagrams; without any, datagrams are dropped at random.
LoadErrDropConstant ==
    IF EnvIsSet.drop /\ ListOf(env.drop) # {} THEN <<DropSpecific(ListOf(env.drop))>> ELSE <<>>
LoadErrDropChance ==
    IF EnvIsSet.drop /\ ListOf(env.drop) = {} THEN <<errorDrop>> ELSE <<>>

\* For numbers nothing is installed.
LoadErrFlip == IF EnvIsSet.flip /\ ListOf(env.flip) = {} THEN <<errorFlipBits>> ELSE <<>>

LoadEnvData ==
    /\ stage = "static"
    /\ stage' = "main"
    /\ isSet' = EnvIsSet
    /\ m_ErrorRate' = LoadErrRate
    /\ m_ErrorCase_Constant' = LoadErrDropConstant
    /\ m_ErrorCase_Chance' = LoadErrDropChance \o LoadErrFlip
    /\ UNCHANGED <<env, m_MsgNo, drawn, stream, m_History, log>>

-----------------------------------------------------------------------------
(* sendErr_init(error_rate, DROP_ON, FLIP_ON, ...), called by both mains.   *)

\* Mutated form: what the environment says is not looked at.
SetUserModeErrRateAlways == error_rate

SetUserModeErrRate == IF isSet.rate THEN m_ErrorRate ELSE error_rate

\* Mutated form: what the environment says is not looked at.
SetUserModeErrDropAlways == <<errorDrop>>

SetUserModeErrDrop == IF isSet.drop THEN <<>> ELSE <<errorDrop>>

\* Mutated form: what the environment says is not looked at.
SetUserModeErrFlipAlways == <<errorFlipBits>>

SetUserModeErrFlip == IF isSet.flip THEN <<>> ELSE <<errorFlipBits>>

SendErrInit ==
    /\ stage = "main"
    /\ stage' = "running"
    /\ m_ErrorCase_Constant' = Append(m_ErrorCase_Constant, infoSeqNo)
    /\ m_ErrorRate' = SetUserModeErrRate
    /\ m_ErrorCase_Chance' = m_ErrorCase_Chance \o SetUserModeErrDrop \o SetUserModeErrFlip
    /\ UNCHANGED <<env, isSet, m_MsgNo, drawn, stream, m_History, log>>

\* Mutated form: the child seeds its generator anew and draws numbers of its own.
ForkReseeded(p) ==
    /\ stage = "running"
    /\ m_MsgNo[p] = -1
    /\ m_MsgNo' = [m_MsgNo EXCEPT ![p] = 0]
    /\ drawn' = [drawn EXCEPT ![p] = Len(stream)]
    /\ UNCHANGED <<settings, stage, stream, m_History, log>>

\* The server forks the process, or it is rcopy itself.
Fork(p) ==
    /\ stage = "running"
    /\ m_MsgNo[p] = -1
    /\ m_MsgNo' = [m_MsgNo EXCEPT ![p] = 0]
    /\ UNCHANGED <<settings, stage, drawn, stream, m_History, log>>

-----------------------------------------------------------------------------
(* sendto_Err                                                              *)

\* errorDrop::run
Drops(event, n) == event.kind = "errorDrop" /\ (event.all \/ n \in event.list)

\* runMsgEvents on the constant events: it ends at the first that drops.
ConstantDrop(n) == \E i \in DOMAIN m_ErrorCase_Constant : Drops(m_ErrorCase_Constant[i], n)

\* Mutated form: the loop returns after its first event, whatever came of it.
ConstantRunsFirst(kind, n) ==
    \E i \in DOMAIN m_ErrorCase_Constant : i = 1 /\ m_ErrorCase_Constant[i].kind = kind

ConstantRuns(kind, n) ==
    \E i \in DOMAIN m_ErrorCase_Constant :
        /\ m_ErrorCase_Constant[i].kind = kind
        /\ \A j \in 1 .. i - 1 : ~Drops(m_ErrorCase_Constant[j], n)

\* Mutated form: the first datagram is not spared.
MayRandomFirst(n) == n > 0

\* No random errors on the first packet.
MayRandom(n) == n > 1

\* drand48() <= m_ErrorRate
Hit(draw) == m_ErrorCase_Chance # <<>> /\ draw <= m_ErrorRate

\* (int)(size * drand48())
RandCase(draw) == m_ErrorCase_Chance[(Len(m_ErrorCase_Chance) * draw) \div Scale + 1].kind

\* What processEvents runs by chance, and how many numbers it draws for it: the
\* last one is for the byte to flip.
Chance(n, draws) ==
    IF MayRandom(n) /\ Hit(draws[1]) THEN RandCase(draws[2]) ELSE "none"
DrawsFor(n, draws) ==
    IF ~MayRandom(n) THEN 0
    ELSE IF ~Hit(draws[1]) THEN 1
    ELSE IF RandCase(draws[2]) = "errorDrop" THEN 2 ELSE 3

\* The numbers process p may draw next: they are known if another has drawn them.
Upcoming(p) ==
    {draws \in [1 .. 3 -> 0 .. Scale - 1] :
        \A i \in 1 .. 3 : drawn[p] + i <= Len(stream) => draws[i] = stream[drawn[p] + i]}

\* The stream once p has drawn up to the number used.
Known(p, draws, used) ==
    IF used <= Len(stream) THEN stream
    ELSE SubSeq(stream, 1, drawn[p]) \o SubSeq(draws, 1, used - drawn[p])

\* What becomes of datagram n.
Fate(n, draws) ==
    IF ConstantDrop(n) \/ Chance(n, draws) = "errorDrop" THEN "dropped"
    ELSE IF Chance(n, draws) = "errorFlipBits" THEN "flipped" ELSE "sent"

\* infoSeqNo::run, what it adds to the history for datagram n.
SeqNosCounted(n) == IF ConstantRuns("infoSeqNo", n) THEN {n} ELSE {}

SendtoErr(p) ==
    /\ m_MsgNo[p] \in 0 .. MaxMsgs - 1
    /\ m_MsgNo' = [m_MsgNo EXCEPT ![p] = @ + 1]
    /\ m_History' = [m_History EXCEPT ![p] = @ \cup SeqNosCounted(m_MsgNo[p] + 1)]
    /\ \E draws \in Upcoming(p) :
          LET n    == m_MsgNo[p] + 1
              used == drawn[p] + DrawsFor(n, draws)
          IN  /\ drawn' = [drawn EXCEPT ![p] = used]
              /\ stream' = Known(p, draws, used)
              /\ log' = [log EXCEPT ![p] = Append(@, Fate(n, draws))]
    /\ UNCHANGED <<settings, stage>>

Next ==
    \/ LoadEnvData
    \/ SendErrInit
    \/ \E p \in Process : Fork(p) \/ SendtoErr(p)

Spec == Init /\ [][Next]_vars

-----------------------------------------------------------------------------
(* The properties.                                                         *)

InjectTypeOK ==
    /\ env \in [rate : EnvRates, drop : EnvDrops, flip : EnvFlips]
    /\ stage \in {"static", "main", "running"}
    /\ m_MsgNo \in [Process -> Nat \cup {-1}]
    /\ drawn \in [Process -> Nat]
    /\ stream \in Seq(0 .. Scale - 1)
    /\ m_History \in [Process -> SUBSET Nat]
    /\ log \in [Process -> Seq({"dropped", "flipped", "sent"})]

\* The datagrams the environment lists, none if it lists nothing.
Listed(tokens) == IF tokens = Unset THEN {} ELSE ListOf(tokens)

\* main asks again for what the environment has asked for: each kind of random error is
\* installed once or, where datagrams are listed, not at all.
Installed ==
    /\ stage = "static" => m_ErrorCase_Constant = <<>> /\ m_ErrorCase_Chance = <<>>
    /\ stage # "static" => isSet = EnvIsSet /\ (isSet.rate => m_ErrorRate = env.rate)
    /\ stage = "main" =>
           /\ m_ErrorCase_Constant = LoadErrDropConstant
           /\ m_ErrorCase_Chance = LoadErrDropChance \o LoadErrFlip
    /\ stage = "running" =>
           /\ m_ErrorCase_Constant = Append(LoadErrDropConstant, infoSeqNo)
           /\ m_ErrorCase_Chance \in
                  IF Listed(env.drop) # {} /\ Listed(env.flip) # {} THEN {<<>>}
                  ELSE IF Listed(env.drop) # {} THEN {<<errorFlipBits>>}
                  ELSE IF Listed(env.flip) # {} THEN {<<errorDrop>>}
                  ELSE {<<errorDrop>> \o <<errorFlipBits>>, <<errorFlipBits>> \o <<errorDrop>>}

\* A process sends once the program runs; it has logged what it has sent, and its
\* numbers are those of the stream.
Counted(p) ==
    /\ m_MsgNo[p] = -1 => log[p] = <<>>
    /\ m_MsgNo[p] # -1 => stage = "running" /\ Len(log[p]) = m_MsgNo[p]
    /\ drawn[p] <= Len(stream)

\* What the program keeps of the settings, and what each process makes of them.
InjectInv == InjectTypeOK /\ Installed /\ \A p \in Process : Counted(p)

\* The datagrams of process p that met a fate.
Met(p, fate) == {i \in DOMAIN log[p] : log[p][i] = fate}

\* SettingsManager.h:18, "a comma-separated list of MsgEvents to perform an event":
\* with a list of datagrams to drop just those are dropped, at any rate.
DropListDecides ==
    \A p \in Process : Listed(env.drop) # {} =>
        Met(p, "dropped") = Listed(env.drop) \cap DOMAIN log[p]

\* The same of a list of datagrams to flip, unless they are dropped: SettingsManager.h:15
\* names CPE464_OVERRIDE_ERR_FLIP among the lists.  The code installs no event for it.
FlipListFlips ==
    \A p \in Process : Listed(env.flip) \cap DOMAIN log[p] \subseteq Met(p, "flipped") \cup Met(p, "dropped")

\* PacketManager.cpp:149, "No random errors on the first packet": FILE_NAME and
\* the first answer of a child leave intact, unless the list names them.
FirstSpared ==
    \A p \in Process : log[p] # <<>> =>
        \/ log[p][1] = "sent"
        \/ log[p][1] = "dropped" /\ 1 \in Listed(env.drop)

\* testRandError.sh:44, "ignored": the rate of the environment wins over the one
\* of the command line, and without a draw below it there is no random error.
EnvironmentWins ==
    env.rate \notin {Unset, Junk} /\ (\A i \in DOMAIN stream : stream[i] > env.rate) =>
        \A p \in Process : \A i \in DOMAIN log[p] :
            log[p][i] # "sent" => i \in Listed(env.drop)

\* The n-th datagram of every child of a server meets the same fate: a retry that
\* is served by another child meets the damage of the one before.
SameErrors ==
    \A p, q \in Process : \A i \in DOMAIN log[p] \cap DOMAIN log[q] : log[p][i] = log[q][i]

\* What holds of PacketManager.h:5, "When each packet is sent, all Standard MsgEvents will
\* be performed", although an event that drops a datagram hides it from those after it:
\* the history of a process misses no datagram that leaves it, flipped or not, whichever
\* events came before infoSeqNo, and has none that was not sent.
SentIsCounted ==
    \A p \in Process :
        /\ Met(p, "sent") \cup Met(p, "flipped") \subseteq m_History[p]
        /\ m_History[p] \subseteq DOMAIN log[p]
=============================================================================
