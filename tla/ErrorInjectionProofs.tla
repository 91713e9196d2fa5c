------------------------- MODULE ErrorInjectionProofs -------------------------
(***************************************************************************)
(* The errors of any number of processes and datagrams, for any setting of *)
(* the environment.                                                        *)
(***************************************************************************)
EXTENDS ErrorInjection, SequenceTheorems, TLAPS

USE InjectionAssumption

-----------------------------------------------------------------------------
(* Short sequences, and a sequence that is extended.                       *)

LEMMA Single == ASSUME NEW S, NEW b \in S PROVE <<b>> \in Seq(S) /\ Len(<<b>>) = 1 /\ <<b>>[1] = b
OBVIOUS

LEMMA Appended ==
    ASSUME NEW S, NEW s \in Seq(S), Len(s) = 1, NEW b \in S
    PROVE  /\ Append(s, b) \in Seq(S) /\ Len(Append(s, b)) = 2
           /\ Append(s, b)[1] = s[1] /\ Append(s, b)[2] = b
<1>1. Append(s, b) \in Seq(S) /\ Len(Append(s, b)) = Len(s) + 1
  BY AppendProperties
<1>2. Append(s, b)[1] = s[1]
  OBVIOUS
<1>3. Append(s, b)[Len(s) + 1] = b
  BY AppendProperties
<1> QED BY <1>1, <1>2, <1>3

LEMMA Extended ==
    ASSUME NEW S, NEW s \in Seq(S), NEW b \in S, NEW n, Len(s) + 1 = n
    PROVE  /\ DOMAIN Append(s, b) = DOMAIN s \cup {n}
           /\ Append(s, b)[n] = b
           /\ \A i \in DOMAIN s : i # n /\ Append(s, b)[i] = s[i]
OBVIOUS

LEMMA Joined ==
    ASSUME NEW S, NEW s \in Seq(S), Len(s) = 1, NEW t \in Seq(S), Len(t) = 1
    PROVE  s \o t \in Seq(S) /\ Len(s \o t) = 2
<1>1. s \o t \in Seq(S) /\ Len(s \o t) = Len(s) + Len(t)
  BY ConcatProperties
<1> QED BY <1>1

\* The sequence s over S goes on as t does, and has the first u of f after the first d.
Grows(s, S, t, d, u, f) ==
    /\ s \in Seq(S)
    /\ Len(s) >= Len(t) /\ Len(s) >= d + u
    /\ \A i \in 1 .. Len(t) : s[i] = t[i]
    /\ \A i \in 1 .. u : s[d + i] = f[i]

\* A sequence t of which d elements are used, and u of the three in f that agree with
\* the rest of it: what is known of both.
LEMMA StreamGrows ==
    ASSUME NEW S, NEW t \in Seq(S), NEW d \in Nat, d <= Len(t), NEW f \in [1 .. 3 -> S], NEW u \in 0 .. 3,
           \A i \in 1 .. 3 : d + i <= Len(t) => f[i] = t[d + i],
           NEW s, s = IF d + u <= Len(t) THEN t ELSE SubSeq(t, 1, d) \o SubSeq(f, 1, u)
    PROVE  Grows(s, S, t, d, u, f)
<1> USE DEF Grows
<1>1. CASE d + u <= Len(t)
  <2>1. s = t
    BY <1>1
  <2>2. ASSUME NEW i \in 1 .. u PROVE t[d + i] = f[i]
    <3>1. i \in 1 .. 3 /\ d + i <= Len(t)
      BY <1>1
    <3> QED BY <3>1
  <2> QED BY <1>1, <2>1, <2>2
<1>2. CASE d + u > Len(t)
  <2> DEFINE a == SubSeq(t, 1, d)
             b == SubSeq(f, 1, u)
  <2>1. s = a \o b
    BY <1>2
  <2>2. a \in Seq(S) /\ Len(a) = d /\ \A i \in 1 .. d : a[i] = t[i]
    <3>1. \A i \in 1 .. d : t[i] \in S
      OBVIOUS
    <3>2. a \in Seq(S) /\ Len(a) = (IF 1 <= d THEN d - 1 + 1 ELSE 0)
          /\ \A i \in 1 .. d - 1 + 1 : a[i] = t[1 + i - 1]
      BY <3>1, SubSeqProperties
    <3> HIDE DEF a
    <3> QED BY <3>2
  <2>3. b \in Seq(S) /\ Len(b) = u /\ \A i \in 1 .. u : b[i] = f[i]
    <3>1. \A i \in 1 .. u : f[i] \in S
      OBVIOUS
    <3>2. b \in Seq(S) /\ Len(b) = (IF 1 <= u THEN u - 1 + 1 ELSE 0)
          /\ \A i \in 1 .. u - 1 + 1 : b[i] = f[1 + i - 1]
      BY <3>1, SubSeqProperties
    <3> HIDE DEF b
    <3> QED BY <3>2
  <2> HIDE DEF a, b
  <2>4. /\ a \o b \in Seq(S) /\ Len(a \o b) = Len(a) + Len(b)
        /\ \A i \in 1 .. Len(a) : (a \o b)[i] = a[i]
        /\ \A i \in 1 .. Len(b) : (a \o b)[Len(a) + i] = b[i]
    <3>1. a \in Seq(S) /\ b \in Seq(S)
      BY <2>2, <2>3
    <3>2. /\ a \o b \in Seq(S) /\ Len(a \o b) = Len(a) + Len(b)
          /\ \A i \in 1 .. Len(a) + Len(b) :
                (a \o b)[i] = IF i <= Len(a) THEN a[i] ELSE b[i - Len(a)]
      BY ONLY <3>1, ConcatProperties
    <3> DEFINE c == a \o b
               m == Len(a)
               l == Len(b)
    <3>3. m \in Nat /\ l \in Nat
      BY <3>1
    <3>4. \A i \in 1 .. m + l : c[i] = IF i <= m THEN a[i] ELSE b[i - m]
      BY <3>2
    <3> HIDE DEF c, m, l
    <3>5. /\ \A i \in 1 .. m : c[i] = a[i]
          /\ \A i \in 1 .. l : c[m + i] = b[i]
      BY ONLY <3>3, <3>4
    <3> QED BY <3>2, <3>5 DEF c, m, l
  <2>5. /\ s \in Seq(S) /\ Len(s) = d + u
        /\ \A i \in 1 .. d : s[i] = t[i]
        /\ \A i \in 1 .. u : s[d + i] = f[i]
    BY <2>1, <2>2, <2>3, <2>4
  <2>6. ASSUME NEW i \in 1 .. Len(t), i > d PROVE s[i] = t[i]
    <3> DEFINE j == i - d
    <3>1. j \in 1 .. u /\ j \in 1 .. 3 /\ d + j = i
      BY <1>2, <2>6
    <3> HIDE DEF j
    <3>2. s[d + j] = f[j]
      BY <2>5, <3>1
    <3>3. f[j] = t[d + j]
      BY <3>1, <2>6
    <3> QED BY <3>1, <3>2, <3>3
  <2>7. ASSUME NEW i \in 1 .. Len(t) PROVE s[i] = t[i]
    BY <2>5, <2>6
  <2> QED BY <1>2, <2>5, <2>7
<1> QED BY <1>1, <1>2
-----------------------------------------------------------------------------
(* What is installed.                                                      *)

\* A list that drops has numbers; the kinds of event differ.
LEMMA DropList ==
    /\ EnvIsSet.drop <=> env.drop # Unset
    /\ EnvIsSet.flip <=> env.flip # Unset
    /\ LoadErrDropConstant = IF Listed(env.drop) # {} THEN <<DropSpecific(Listed(env.drop))>> ELSE <<>>
    /\ LoadErrDropChance = IF env.drop # Unset /\ Listed(env.drop) = {} THEN <<errorDrop>> ELSE <<>>
    /\ LoadErrFlip = IF env.flip # Unset /\ Listed(env.flip) = {} THEN <<errorFlipBits>> ELSE <<>>
<1>1. (EnvIsSet.drop <=> env.drop # Unset) /\ (EnvIsSet.flip <=> env.flip # Unset)
  BY DEF EnvIsSet
<1>2. LoadErrDropConstant = IF Listed(env.drop) # {} THEN <<DropSpecific(Listed(env.drop))>> ELSE <<>>
  BY <1>1 DEF LoadErrDropConstant, Listed
<1>3. LoadErrDropChance = IF env.drop # Unset /\ Listed(env.drop) = {} THEN <<errorDrop>> ELSE <<>>
  BY <1>1 DEF LoadErrDropChance, Listed
<1>4. LoadErrFlip = IF env.flip # Unset /\ Listed(env.flip) = {} THEN <<errorFlipBits>> ELSE <<>>
  BY <1>1 DEF LoadErrFlip, Listed
<1> QED BY <1>1, <1>2, <1>3, <1>4

\* Nothing added to the events changes nothing.
LEMMA NothingAdded ==
    /\ <<>> \o <<>> = <<>>
    /\ <<>> \o <<errorDrop>> = <<errorDrop>> /\ <<errorDrop>> \o <<>> = <<errorDrop>>
    /\ <<>> \o <<errorFlipBits>> = <<errorFlipBits>> /\ <<errorFlipBits>> \o <<>> = <<errorFlipBits>>
    /\ (<<errorDrop>> \o <<errorFlipBits>>) \o <<>> = <<errorDrop>> \o <<errorFlipBits>>
    /\ (<<errorFlipBits>> \o <<errorDrop>>) \o <<>> = <<errorFlipBits>> \o <<errorDrop>>
<1>1. /\ <<errorDrop>> \in Seq({errorDrop, errorFlipBits})
      /\ <<errorFlipBits>> \in Seq({errorDrop, errorFlipBits})
  OBVIOUS
<1>2. /\ <<errorDrop>> \o <<errorFlipBits>> \in Seq({errorDrop, errorFlipBits})
      /\ <<errorFlipBits>> \o <<errorDrop>> \in Seq({errorDrop, errorFlipBits})
  BY <1>1
<1>3. <<>> \o <<>> = <<>>
  OBVIOUS
<1> QED BY <1>1, <1>2, <1>3, ConcatEmptySeq

\* At the start nothing is installed and nothing has been sent.
LEMMA InjectInit == ASSUME Init PROVE InjectInv
<1>1. InjectTypeOK
  BY DEF Init, InjectTypeOK
<1>2. Installed
  BY DEF Init, Installed
<1>3. \A p \in Process : Counted(p)
  BY DEF Init, Counted
<1> QED BY <1>1, <1>2, <1>3 DEF InjectInv

LEMMA LoadKeeps == ASSUME InjectInv, LoadEnvData PROVE InjectInv'
<1>1. /\ stage = "static" /\ stage' = "main" /\ isSet' = EnvIsSet /\ m_ErrorRate' = LoadErrRate
      /\ m_ErrorCase_Constant' = LoadErrDropConstant
      /\ m_ErrorCase_Chance' = LoadErrDropChance \o LoadErrFlip
      /\ UNCHANGED <<env, m_MsgNo, drawn, stream, m_History, log>>
  BY DEF LoadEnvData
<1>2. InjectTypeOK'
  BY <1>1 DEF InjectInv, InjectTypeOK
<1>3. /\ EnvIsSet' = EnvIsSet /\ LoadErrDropConstant' = LoadErrDropConstant
      /\ LoadErrDropChance' = LoadErrDropChance /\ LoadErrFlip' = LoadErrFlip
  BY <1>1 DEF EnvIsSet, LoadErrDropConstant, LoadErrDropChance, LoadErrFlip
<1>4. Installed'
  BY <1>1, <1>3 DEF Installed, LoadErrRate
<1>5. \A p \in Process : Counted(p)'
  BY <1>1 DEF InjectInv, Counted
<1> QED BY <1>2, <1>4, <1>5 DEF InjectInv

LEMMA InitKeeps == ASSUME InjectInv, SendErrInit PROVE InjectInv'
<1>1. /\ stage = "main" /\ stage' = "running" /\ m_ErrorRate' = SetUserModeErrRate
      /\ m_ErrorCase_Constant' = Append(m_ErrorCase_Constant, infoSeqNo)
      /\ m_ErrorCase_Chance' = (m_ErrorCase_Chance \o SetUserModeErrDrop) \o SetUserModeErrFlip
      /\ UNCHANGED <<env, isSet, m_MsgNo, drawn, stream, m_History, log>>
  BY DEF SendErrInit
<1>2. InjectTypeOK'
  BY <1>1 DEF InjectInv, InjectTypeOK
<1>3. /\ isSet = EnvIsSet /\ (isSet.rate => m_ErrorRate = env.rate)
      /\ m_ErrorCase_Constant = LoadErrDropConstant
      /\ m_ErrorCase_Chance = LoadErrDropChance \o LoadErrFlip
  BY <1>1 DEF InjectInv, Installed
<1>4. SetUserModeErrDrop = IF env.drop # Unset THEN <<>> ELSE <<errorDrop>>
  BY <1>3, DropList DEF SetUserModeErrDrop
<1>5. SetUserModeErrFlip = IF env.flip # Unset THEN <<>> ELSE <<errorFlipBits>>
  BY <1>3, DropList DEF SetUserModeErrFlip
<1>6. /\ env.drop = Unset => Listed(env.drop) = {}
      /\ env.flip = Unset => Listed(env.flip) = {}
  BY DEF Listed
<1>7. m_ErrorCase_Chance' \in
          IF Listed(env.drop) # {} /\ Listed(env.flip) # {} THEN {<<>>}
          ELSE IF Listed(env.drop) # {} THEN {<<errorFlipBits>>}
          ELSE IF Listed(env.flip) # {} THEN {<<errorDrop>>}
          ELSE {<<errorDrop>> \o <<errorFlipBits>>, <<errorFlipBits>> \o <<errorDrop>>}
  <2>1. /\ LoadErrDropChance = IF env.drop # Unset /\ Listed(env.drop) = {} THEN <<errorDrop>> ELSE <<>>
        /\ LoadErrFlip = IF env.flip # Unset /\ Listed(env.flip) = {} THEN <<errorFlipBits>> ELSE <<>>
    BY DropList
  <2>2. CASE Listed(env.drop) # {} /\ Listed(env.flip) # {}
    BY <1>1, <1>3, <1>4, <1>5, <1>6, <2>1, <2>2, NothingAdded
  <2>3. CASE Listed(env.drop) # {} /\ Listed(env.flip) = {}
    BY <1>1, <1>3, <1>4, <1>5, <1>6, <2>1, <2>3, NothingAdded
  <2>4. CASE Listed(env.drop) = {} /\ Listed(env.flip) # {}
    BY <1>1, <1>3, <1>4, <1>5, <1>6, <2>1, <2>4, NothingAdded
  <2>5. CASE Listed(env.drop) = {} /\ Listed(env.flip) = {}
    <3>1. m_ErrorCase_Chance' \in {<<errorDrop>> \o <<errorFlipBits>>, <<errorFlipBits>> \o <<errorDrop>>}
      <4>1. CASE env.drop = Unset /\ env.flip = Unset
        BY <1>1, <1>3, <1>4, <1>5, <2>1, <2>5, <4>1, NothingAdded
      <4>2. CASE env.drop = Unset /\ env.flip # Unset
        BY <1>1, <1>3, <1>4, <1>5, <2>1, <2>5, <4>2, NothingAdded
      <4>3. CASE env.drop # Unset /\ env.flip = Unset
        BY <1>1, <1>3, <1>4, <1>5, <2>1, <2>5, <4>3, NothingAdded
      <4>4. CASE env.drop # Unset /\ env.flip # Unset
        BY <1>1, <1>3, <1>4, <1>5, <2>1, <2>5, <4>4, NothingAdded
      <4> QED BY <4>1, <4>2, <4>3, <4>4
    <3> QED BY <2>5, <3>1
  <2> QED BY <2>2, <2>3, <2>4, <2>5
<1>8. EnvIsSet' = EnvIsSet /\ LoadErrDropConstant' = LoadErrDropConstant
  BY <1>1 DEF EnvIsSet, LoadErrDropConstant
<1>9. Installed'
  BY <1>1, <1>3, <1>7, <1>8 DEF Installed, SetUserModeErrRate
<1>10. \A p \in Process : Counted(p)'
  BY <1>1 DEF InjectInv, Counted
<1> QED BY <1>2, <1>9, <1>10 DEF InjectInv

LEMMA ForkKeeps ==
    ASSUME InjectInv, NEW p \in Process, Fork(p)
    PROVE  InjectInv'
<1>1. /\ stage = "running" /\ m_MsgNo[p] = -1 /\ m_MsgNo' = [m_MsgNo EXCEPT ![p] = 0]
      /\ UNCHANGED <<env, isSet, m_ErrorRate, m_ErrorCase_Constant, m_ErrorCase_Chance>>
      /\ UNCHANGED <<stage, drawn, stream, m_History, log>>
  BY DEF Fork, settings
<1>2. InjectTypeOK'
  BY <1>1 DEF InjectInv, InjectTypeOK
<1>3. Installed'
  BY <1>1 DEF InjectInv, Installed, EnvIsSet, LoadErrDropConstant, LoadErrDropChance, LoadErrFlip
<1>4. ASSUME NEW q \in Process PROVE Counted(q)'
  <2>1. CASE q = p
    BY <1>1, <2>1 DEF InjectInv, InjectTypeOK, Counted
  <2>2. CASE q # p
    BY <1>1, <2>2 DEF InjectInv, InjectTypeOK, Counted
  <2> QED BY <2>1, <2>2
<1> QED BY <1>2, <1>3, <1>4 DEF InjectInv

-----------------------------------------------------------------------------
(* What becomes of a datagram.                                             *)

\* The events run on every datagram, by their place.
LEMMA ConstantEvents ==
    ASSUME InjectInv, stage = "running"
    PROVE  /\ Listed(env.drop) = {} =>
                /\ DOMAIN m_ErrorCase_Constant = {1}
                /\ m_ErrorCase_Constant[1] = infoSeqNo
           /\ Listed(env.drop) # {} =>
                /\ DOMAIN m_ErrorCase_Constant = {1, 2}
                /\ m_ErrorCase_Constant[1] = DropSpecific(Listed(env.drop))
                /\ m_ErrorCase_Constant[2] = infoSeqNo
<1> DEFINE c == LoadErrDropConstant
<1>1. m_ErrorCase_Constant = Append(c, infoSeqNo)
  BY DEF InjectInv, Installed
<1>2. CASE Listed(env.drop) = {}
  <2>1. c = <<>>
    BY <1>2, DropList
  <2> QED BY <1>1, <1>2, <2>1
<1>3. CASE Listed(env.drop) # {}
  <2>1. c = <<DropSpecific(Listed(env.drop))>>
    BY <1>3, DropList
  <2> DEFINE d == DropSpecific(Listed(env.drop))
             S == {d, infoSeqNo}
  <2>2. c \in Seq(S) /\ Len(c) = 1 /\ c[1] = d
    <3>1. d \in S
      OBVIOUS
    <3> HIDE DEF S, d
    <3> QED BY <2>1, <3>1, Single DEF d
  <2>3. /\ Append(c, infoSeqNo) \in Seq(S) /\ Len(Append(c, infoSeqNo)) = 2
        /\ Append(c, infoSeqNo)[1] = d /\ Append(c, infoSeqNo)[2] = infoSeqNo
    <3>1. infoSeqNo \in S
      OBVIOUS
    <3> HIDE DEF S, d, c
    <3> QED BY <2>2, <3>1, Appended
  <2>4. DOMAIN Append(c, infoSeqNo) = 1 .. 2
    BY <2>3
  <2> QED BY <1>1, <1>3, <2>3, <2>4
<1> QED BY <1>2, <1>3

\* The datagrams of the list are dropped before infoSeqNo counts them.
LEMMA ConstantFate ==
    ASSUME InjectInv, stage = "running", NEW n \in Nat
    PROVE  /\ ConstantDrop(n) <=> n \in Listed(env.drop)
           /\ ConstantRuns("infoSeqNo", n) <=> n \notin Listed(env.drop)
<1>1. /\ DropSpecific(Listed(env.drop)).kind = "errorDrop"
      /\ DropSpecific(Listed(env.drop)).all = FALSE
      /\ DropSpecific(Listed(env.drop)).list = Listed(env.drop)
      /\ infoSeqNo.kind = "infoSeqNo"
  BY DEF DropSpecific, errorDrop, infoSeqNo
<1>2. Drops(DropSpecific(Listed(env.drop)), n) <=> n \in Listed(env.drop)
  BY <1>1 DEF Drops
<1>3. ~Drops(infoSeqNo, n)
  BY <1>1 DEF Drops
<1>4. CASE Listed(env.drop) = {}
  BY <1>1, <1>3, <1>4, ConstantEvents DEF ConstantDrop, ConstantRuns
<1>5. CASE Listed(env.drop) # {}
  BY <1>1, <1>2, <1>3, <1>5, ConstantEvents DEF ConstantDrop, ConstantRuns
<1> QED BY <1>4, <1>5

\* Of the events that may be run by chance none is of a kind that is listed.
LEMMA ChanceKind ==
    ASSUME InjectInv, stage = "running", NEW draw \in 0 .. Scale - 1, m_ErrorCase_Chance # <<>>
    PROVE  /\ RandCase(draw) \in {"errorDrop", "errorFlipBits"}
           /\ Listed(env.drop) # {} => RandCase(draw) # "errorDrop"
           /\ Listed(env.flip) # {} => RandCase(draw) # "errorFlipBits"
<1> DEFINE c == m_ErrorCase_Chance
           i == (Len(c) * draw) \div Scale + 1
<1>1. errorDrop.kind = "errorDrop" /\ errorFlipBits.kind = "errorFlipBits"
  BY DEF errorDrop, errorFlipBits
<1>2. c \in IF Listed(env.drop) # {} /\ Listed(env.flip) # {} THEN {<<>>}
            ELSE IF Listed(env.drop) # {} THEN {<<errorFlipBits>>}
            ELSE IF Listed(env.flip) # {} THEN {<<errorDrop>>}
            ELSE {<<errorDrop>> \o <<errorFlipBits>>, <<errorFlipBits>> \o <<errorDrop>>}
  BY DEF InjectInv, Installed
<1>3. RandCase(draw) = c[i].kind
  BY DEF RandCase
<1>4. ASSUME Len(c) \in {1, 2} PROVE i \in 1 .. Len(c)
  BY <1>4
<1>5. CASE Listed(env.drop) # {}
  <2>1. c = <<errorFlipBits>>
    BY <1>2, <1>5
  <2>2. Len(c) = 1 /\ c[1] = errorFlipBits
    BY <2>1
  <2>3. i = 1
    BY <1>4, <2>2
  <2>4. Listed(env.flip) = {}
    BY <1>2, <1>5
  <2> HIDE DEF i, c
  <2> QED BY <1>1, <1>3, <2>2, <2>3, <2>4
<1>6. CASE Listed(env.drop) = {} /\ Listed(env.flip) # {}
  <2>1. c = <<errorDrop>>
    BY <1>2, <1>6
  <2>2. Len(c) = 1 /\ c[1] = errorDrop
    BY <2>1
  <2>3. i = 1
    BY <1>4, <2>2
  <2> HIDE DEF i, c
  <2> QED BY <1>1, <1>3, <1>6, <2>2, <2>3
<1>7. CASE Listed(env.drop) = {} /\ Listed(env.flip) = {}
  <2> DEFINE S == {errorDrop, errorFlipBits}
             a == <<errorDrop>>
             b == <<errorFlipBits>>
  <2>1. a \in Seq(S) /\ Len(a) = 1 /\ b \in Seq(S) /\ Len(b) = 1
    OBVIOUS
  <2>2. c = a \o b \/ c = b \o a
    BY <1>2, <1>7
  <2>3. c \in Seq(S) /\ Len(c) = 2
    <3> HIDE DEF a, b, c, S
    <3> QED BY <2>1, <2>2, Joined
  <2>4. i \in 1 .. Len(c)
    BY <1>4, <2>3
  <2>5. c[i] \in S
    <3> HIDE DEF a, b, c, S, i
    <3> QED BY <2>3, <2>4
  <2>6. RandCase(draw) \in {"errorDrop", "errorFlipBits"}
    <3> HIDE DEF a, b, c, i
    <3> QED BY <1>1, <1>3, <2>5
  <2> QED BY <1>7, <2>6
<1> QED BY <1>5, <1>6, <1>7

\* What the lists, the place of the datagram and the rate say of its fate.
LEMMA FateOf ==
    ASSUME InjectInv, stage = "running", NEW n \in Nat, NEW draws \in [1 .. 3 -> 0 .. Scale - 1]
    PROVE  /\ Fate(n, draws) \in {"dropped", "flipped", "sent"}
           /\ n \in Listed(env.drop) => Fate(n, draws) = "dropped"
           /\ n \notin Listed(env.drop) /\ Listed(env.drop) # {} => Fate(n, draws) # "dropped"
           /\ Listed(env.flip) # {} => Fate(n, draws) # "flipped"
           /\ n \notin Listed(env.drop) /\ ~(MayRandom(n) /\ Hit(draws[1])) => Fate(n, draws) = "sent"
<1>1. draws[2] \in 0 .. Scale - 1
  OBVIOUS
<1>2. ConstantDrop(n) <=> n \in Listed(env.drop)
  BY ConstantFate
<1>3. CASE MayRandom(n) /\ Hit(draws[1])
  <2>1. Chance(n, draws) = RandCase(draws[2]) /\ m_ErrorCase_Chance # <<>>
    BY <1>3 DEF Chance, Hit
  <2>2. /\ RandCase(draws[2]) \in {"errorDrop", "errorFlipBits"}
        /\ Listed(env.drop) # {} => RandCase(draws[2]) # "errorDrop"
        /\ Listed(env.flip) # {} => RandCase(draws[2]) # "errorFlipBits"
    BY <1>1, <2>1, ChanceKind
  <2> QED BY <1>2, <1>3, <2>1, <2>2 DEF Fate
<1>4. CASE ~(MayRandom(n) /\ Hit(draws[1]))
  <2>1. Chance(n, draws) = "none"
    BY <1>4 DEF Chance
  <2> QED BY <1>2, <2>1 DEF Fate
<1> QED BY <1>3, <1>4

-----------------------------------------------------------------------------
(* The numbers.                                                            *)

\* The sequence s goes on as the stream does, and p draws the first u of draws from it.
Extends(s, p, draws, u) == Grows(s, 0 .. Scale - 1, stream, drawn[p], u, draws)

\* What a process draws is what the stream has there, or extends it.
LEMMA KnownExtends ==
    ASSUME InjectInv, NEW p \in Process, NEW draws \in Upcoming(p), NEW u \in 0 .. 3,
           NEW s, s = Known(p, draws, drawn[p] + u)
    PROVE  Extends(s, p, draws, u)
<1>1. /\ stream \in Seq(0 .. Scale - 1) /\ drawn[p] \in Nat /\ drawn[p] <= Len(stream)
      /\ draws \in [1 .. 3 -> 0 .. Scale - 1]
      /\ \A i \in 1 .. 3 : drawn[p] + i <= Len(stream) => draws[i] = stream[drawn[p] + i]
  BY DEF InjectInv, InjectTypeOK, Counted, Upcoming
<1>2. s = IF drawn[p] + u <= Len(stream) THEN stream
          ELSE SubSeq(stream, 1, drawn[p]) \o SubSeq(draws, 1, u)
  BY <1>1 DEF Known
<1> DEFINE S == 0 .. Scale - 1
           d == drawn[p]
           t == stream
<1>3. /\ t \in Seq(S) /\ d \in Nat /\ d <= Len(t) /\ draws \in [1 .. 3 -> S] /\ u \in 0 .. 3
      /\ \A i \in 1 .. 3 : d + i <= Len(t) => draws[i] = t[d + i]
      /\ s = IF d + u <= Len(t) THEN t ELSE SubSeq(t, 1, d) \o SubSeq(draws, 1, u)
  BY <1>1, <1>2
<1> HIDE DEF S, d, t
<1>4. Grows(s, S, t, d, u, draws)
  BY ONLY <1>3, StreamGrows
<1> QED BY ONLY <1>4 DEF Extends, S, d, t

\* A process sends one datagram, and draws as many numbers as that takes.
LEMMA SendKeeps ==
    ASSUME InjectInv, NEW p \in Process, NEW draws \in Upcoming(p),
           m_MsgNo[p] \in Nat,
           m_MsgNo' = [m_MsgNo EXCEPT ![p] = @ + 1],
           m_History' \in [Process -> SUBSET Nat],
           drawn' = [drawn EXCEPT ![p] = drawn[p] + DrawsFor(m_MsgNo[p] + 1, draws)],
           stream' = Known(p, draws, drawn[p] + DrawsFor(m_MsgNo[p] + 1, draws)),
           log' = [log EXCEPT ![p] = Append(@, Fate(m_MsgNo[p] + 1, draws))],
           UNCHANGED <<settings, stage>>
    PROVE  InjectInv'
<1> DEFINE n == m_MsgNo[p] + 1
           u == DrawsFor(n, draws)
           fate == Fate(n, draws)
<1>1. InjectTypeOK /\ n \in Nat /\ draws \in [1 .. 3 -> 0 .. Scale - 1]
  BY DEF InjectInv, Upcoming
<1>2. u \in 0 .. 3
  BY DEF DrawsFor
<1>3. stage = "running" /\ Len(log[p]) = m_MsgNo[p]
  BY DEF InjectInv, Counted
<1>4. fate \in {"dropped", "flipped", "sent"}
  BY <1>1, <1>3, FateOf
<1> HIDE DEF n, u, fate
<1>5. /\ stream' \in Seq(0 .. Scale - 1)
      /\ Len(stream') >= Len(stream) /\ Len(stream') >= drawn[p] + u
  BY <1>2, KnownExtends DEF n, u, Extends, Grows
<1>6. /\ drawn' = [drawn EXCEPT ![p] = drawn[p] + u]
      /\ log' = [log EXCEPT ![p] = Append(log[p], fate)]
      /\ m_MsgNo' = [m_MsgNo EXCEPT ![p] = n]
      /\ UNCHANGED <<env, isSet, m_ErrorRate, m_ErrorCase_Constant, m_ErrorCase_Chance, stage>>
  BY DEF n, u, fate, settings
<1>7. log[p] \in Seq({"dropped", "flipped", "sent"})
  BY <1>1 DEF InjectTypeOK
<1>8. /\ Append(log[p], fate) \in Seq({"dropped", "flipped", "sent"})
      /\ Len(Append(log[p], fate)) = Len(log[p]) + 1
  BY <1>4, <1>7
<1>9. InjectTypeOK'
  <2>1. drawn' \in [Process -> Nat]
    <3>1. drawn[p] \in Nat
      BY <1>1 DEF InjectTypeOK
    <3>2. drawn[p] + u \in Nat
      BY <1>2, <3>1
    <3> QED BY <1>1, <1>6, <3>2 DEF InjectTypeOK
  <2>2. m_MsgNo' \in [Process -> Nat \cup {-1}]
    BY <1>1, <1>6 DEF InjectTypeOK
  <2>3. log' \in [Process -> Seq({"dropped", "flipped", "sent"})]
    BY <1>1, <1>6, <1>8 DEF InjectTypeOK
  <2>4. /\ env' \in [rate : EnvRates, drop : EnvDrops, flip : EnvFlips]
        /\ stage' \in {"static", "main", "running"}
    BY <1>1, <1>6 DEF InjectTypeOK
  <2> QED BY <1>5, <2>1, <2>2, <2>3, <2>4 DEF InjectTypeOK
<1>10. Installed'
  BY <1>6 DEF InjectInv, Installed, EnvIsSet, LoadErrDropConstant, LoadErrDropChance, LoadErrFlip
<1>11. ASSUME NEW q \in Process PROVE Counted(q)'
  <2>1. CASE q = p
    BY <1>1, <1>2, <1>3, <1>5, <1>6, <1>8, <2>1 DEF InjectTypeOK, Counted, n
  <2>2. CASE q # p
    BY <1>1, <1>2, <1>5, <1>6, <2>2 DEF InjectInv, InjectTypeOK, Counted
  <2> QED BY <2>1, <2>2
<1> QED BY <1>9, <1>10, <1>11 DEF InjectInv

\* The choice a process makes when it sends.
LEMMA SendDraws ==
    ASSUME InjectInv, NEW p \in Process, SendtoErr(p)
    PROVE  /\ m_MsgNo[p] \in Nat
           /\ m_MsgNo' = [m_MsgNo EXCEPT ![p] = @ + 1]
           /\ m_History' = [m_History EXCEPT ![p] = @ \cup SeqNosCounted(m_MsgNo[p] + 1)]
           /\ m_History' \in [Process -> SUBSET Nat]
           /\ UNCHANGED <<settings, stage>>
           /\ \E draws \in Upcoming(p) :
                 /\ drawn' = [drawn EXCEPT ![p] = drawn[p] + DrawsFor(m_MsgNo[p] + 1, draws)]
                 /\ stream' = Known(p, draws, drawn[p] + DrawsFor(m_MsgNo[p] + 1, draws))
                 /\ log' = [log EXCEPT ![p] = Append(@, Fate(m_MsgNo[p] + 1, draws))]
<1>1. /\ m_MsgNo[p] \in Nat
      /\ m_MsgNo' = [m_MsgNo EXCEPT ![p] = @ + 1]
      /\ m_History' = [m_History EXCEPT ![p] = @ \cup SeqNosCounted(m_MsgNo[p] + 1)]
      /\ UNCHANGED <<settings, stage>>
  BY DEF SendtoErr
<1>2. \E draws \in Upcoming(p) :
         /\ drawn' = [drawn EXCEPT ![p] = drawn[p] + DrawsFor(m_MsgNo[p] + 1, draws)]
         /\ stream' = Known(p, draws, drawn[p] + DrawsFor(m_MsgNo[p] + 1, draws))
         /\ log' = [log EXCEPT ![p] = Append(@, Fate(m_MsgNo[p] + 1, draws))]
  BY Zenon DEF SendtoErr
<1>3. m_History' \in [Process -> SUBSET Nat]
  BY <1>1 DEF InjectInv, InjectTypeOK, SeqNosCounted
<1> QED BY <1>1, <1>2, <1>3

\* Every step keeps the invariant.
LEMMA InjectNextKeeps == ASSUME InjectInv, [Next]_vars PROVE InjectInv'
<1>1. ASSUME NEW p \in Process, SendtoErr(p) PROVE InjectInv'
  BY <1>1, SendDraws, SendKeeps
<1>2. CASE UNCHANGED vars
  BY <1>2 DEF vars, settings, InjectInv, InjectTypeOK, Installed, Counted, EnvIsSet,
              LoadErrDropConstant, LoadErrDropChance, LoadErrFlip
<1> QED BY <1>1, <1>2, LoadKeeps, InitKeeps, ForkKeeps DEF Next

\* Each kind of error is installed once or, where datagrams are listed, not at all; and
\* each process logs what it sends and draws the numbers of the seed.
THEOREM InjectionCorrect == Spec => []InjectInv
<1>1. Init => InjectInv
  BY InjectInit
<1>2. InjectInv /\ [Next]_vars => InjectInv'
  BY InjectNextKeeps
<1> QED BY <1>1, <1>2, PTL DEF Spec

-----------------------------------------------------------------------------
(* The fates of all datagrams.                                             *)

\* No number drawn so far is as low as the rate of the environment.
RateMissed == env.rate \notin {Unset, Junk} /\ \A i \in DOMAIN stream : stream[i] > env.rate

\* What each datagram of process p has met, and which of them are in the history.
Told(p) ==
    /\ \A i \in DOMAIN log[p] :
          /\ i \in Listed(env.drop) => log[p][i] = "dropped"
          /\ i \notin Listed(env.drop) /\ Listed(env.drop) # {} => log[p][i] # "dropped"
          /\ Listed(env.flip) # {} => log[p][i] # "flipped"
          /\ i \notin Listed(env.drop) /\ (i = 1 \/ RateMissed) => log[p][i] = "sent"
    /\ m_History[p] = DOMAIN log[p] \ Listed(env.drop)

\* A number above the rate of the environment starts no error.
LEMMA MissedNoHit ==
    ASSUME InjectInv, stage = "running", env.rate \notin {Unset, Junk},
           NEW draw \in Nat, draw > env.rate
    PROVE  ~Hit(draw)
<1>1. env.rate \in Nat
  <2>1. env.rate \in EnvRates
    BY DEF InjectInv, InjectTypeOK
  <2> QED BY <2>1
<1>2. EnvIsSet.rate
  BY DEF EnvIsSet
<1>3. m_ErrorRate = env.rate
  BY <1>2 DEF InjectInv, Installed
<1> QED BY <1>1, <1>3 DEF Hit

LEMMA SendTells ==
    ASSUME InjectInv, NEW p \in Process, NEW draws \in Upcoming(p),
           \A q \in Process : Told(q),
           m_MsgNo[p] \in Nat,
           m_History' = [m_History EXCEPT ![p] = @ \cup SeqNosCounted(m_MsgNo[p] + 1)],
           stream' = Known(p, draws, drawn[p] + DrawsFor(m_MsgNo[p] + 1, draws)),
           log' = [log EXCEPT ![p] = Append(@, Fate(m_MsgNo[p] + 1, draws))],
           UNCHANGED <<settings, stage>>
    PROVE  \A q \in Process : Told(q)'
<1> DEFINE n == m_MsgNo[p] + 1
           u == DrawsFor(n, draws)
           fate == Fate(n, draws)
<1>1. InjectTypeOK /\ n \in Nat /\ n >= 1 /\ draws \in [1 .. 3 -> 0 .. Scale - 1]
  BY DEF InjectInv, Upcoming
<1>2. u \in 0 .. 3 /\ (MayRandom(n) => u >= 1)
  BY DEF DrawsFor
<1>3. stage = "running" /\ Len(log[p]) + 1 = n
  BY DEF InjectInv, Counted
<1>4. /\ fate \in {"dropped", "flipped", "sent"}
      /\ n \in Listed(env.drop) => fate = "dropped"
      /\ n \notin Listed(env.drop) /\ Listed(env.drop) # {} => fate # "dropped"
      /\ Listed(env.flip) # {} => fate # "flipped"
      /\ n \notin Listed(env.drop) /\ ~(MayRandom(n) /\ Hit(draws[1])) => fate = "sent"
  BY <1>1, <1>3, FateOf
<1>5. ConstantRuns("infoSeqNo", n) <=> n \notin Listed(env.drop)
  BY <1>1, <1>3, ConstantFate
<1>6. n = 1 => ~MayRandom(n)
  BY DEF MayRandom
<1> HIDE DEF n, u, fate
<1>7. /\ stream' \in Seq(0 .. Scale - 1)
      /\ Len(stream') >= Len(stream) /\ Len(stream') >= drawn[p] + u
      /\ \A i \in 1 .. Len(stream) : stream'[i] = stream[i]
      /\ \A i \in 1 .. u : stream'[drawn[p] + i] = draws[i]
  <2>1. /\ InjectInv /\ p \in Process /\ draws \in Upcoming(p) /\ u \in 0 .. 3
        /\ stream' = Known(p, draws, drawn[p] + u)
    BY <1>2 DEF n, u
  <2>2. Extends(stream', p, draws, u)
    BY ONLY <2>1, KnownExtends
  <2> QED BY <2>2 DEF Extends, Grows
<1>8. /\ log' = [log EXCEPT ![p] = Append(log[p], fate)]
      /\ env' = env
  BY DEF n, fate, settings
<1>9. RateMissed' => RateMissed
  <2> SUFFICES ASSUME RateMissed' PROVE RateMissed
    OBVIOUS
  <2>1. env.rate \notin {Unset, Junk} /\ \A i \in DOMAIN stream' : stream'[i] > env.rate
    BY <1>8 DEF RateMissed
  <2>2. DOMAIN stream = 1 .. Len(stream) /\ DOMAIN stream' = 1 .. Len(stream') /\ Len(stream) \in Nat
        /\ Len(stream') \in Nat
    BY <1>1, <1>7 DEF InjectTypeOK
  <2>3. ASSUME NEW i \in DOMAIN stream PROVE stream[i] > env.rate
    <3>1. i \in DOMAIN stream' /\ stream'[i] = stream[i]
      BY <1>7, <2>2
    <3> QED BY <2>1, <3>1
  <2> QED BY <2>1, <2>3 DEF RateMissed
<1>10. RateMissed' /\ MayRandom(n) => ~Hit(draws[1])
  <2> SUFFICES ASSUME RateMissed', MayRandom(n) PROVE ~Hit(draws[1])
    OBVIOUS
  <2>1. env.rate \notin {Unset, Junk} /\ \A i \in DOMAIN stream' : stream'[i] > env.rate
    BY <1>8 DEF RateMissed
  <2>2. drawn[p] \in Nat
    BY <1>1 DEF InjectTypeOK
  <2>3. drawn[p] + 1 \in 1 .. Len(stream') /\ 1 \in 1 .. u
    BY <1>2, <1>7, <2>2
  <2>4. drawn[p] + 1 \in DOMAIN stream' /\ stream'[drawn[p] + 1] = draws[1]
    BY <1>7, <2>3
  <2>5. draws[1] > env.rate /\ draws[1] \in Nat
    BY <1>1, <2>1, <2>4
  <2> QED BY <1>3, <2>1, <2>5, MissedNoHit
<1>11. log[p] \in Seq({"dropped", "flipped", "sent"})
  BY <1>1 DEF InjectTypeOK
<1>12. /\ DOMAIN Append(log[p], fate) = DOMAIN log[p] \cup {n}
       /\ Append(log[p], fate)[n] = fate
       /\ \A i \in DOMAIN log[p] : i # n /\ Append(log[p], fate)[i] = log[p][i]
  <2> DEFINE l == log[p]
             S == {"dropped", "flipped", "sent"}
  <2>1. l \in Seq(S) /\ fate \in S /\ Len(l) + 1 = n
    BY <1>3, <1>4, <1>11
  <2> HIDE DEF l, S
  <2> QED BY ONLY <2>1, Extended DEF l
<1>13. ASSUME NEW q \in Process PROVE Told(q)'
  <2>1. CASE q = p
    <3>1. log'[p] = Append(log[p], fate)
      BY <1>1, <1>8 DEF InjectTypeOK
    <3>2. m_History'[p] = m_History[p] \cup (IF n \in Listed(env.drop) THEN {} ELSE {n})
      BY <1>1, <1>5 DEF InjectTypeOK, n, SeqNosCounted
    <3>3. m_History'[p] = DOMAIN log'[p] \ Listed(env.drop)
      BY <1>12, <3>1, <3>2 DEF Told
    <3>4. ASSUME NEW i \in DOMAIN log'[p]
          PROVE  /\ i \in Listed(env.drop) => log'[p][i] = "dropped"
                 /\ i \notin Listed(env.drop) /\ Listed(env.drop) # {} => log'[p][i] # "dropped"
                 /\ Listed(env.flip) # {} => log'[p][i] # "flipped"
                 /\ i \notin Listed(env.drop) /\ (i = 1 \/ RateMissed') => log'[p][i] = "sent"
      <4>1. CASE i = n
        BY <1>4, <1>6, <1>10, <1>12, <3>1, <4>1
      <4>2. CASE i # n
        <5>1. i \in DOMAIN log[p] /\ log'[p][i] = log[p][i]
          BY <1>12, <3>1, <4>2
        <5> QED BY <1>9, <5>1 DEF Told
      <4> QED BY <4>1, <4>2
    <3>5. Listed(env.drop)' = Listed(env.drop) /\ Listed(env.flip)' = Listed(env.flip)
      BY <1>8
    <3> QED BY <2>1, <3>3, <3>4, <3>5 DEF Told
  <2>2. CASE q # p
    <3>1. log'[q] = log[q] /\ m_History'[q] = m_History[q]
      BY <1>1, <1>8, <2>2 DEF InjectTypeOK
    <3>2. Listed(env.drop)' = Listed(env.drop) /\ Listed(env.flip)' = Listed(env.flip)
      BY <1>8
    <3> QED BY <1>9, <3>1, <3>2 DEF Told
  <2> QED BY <2>1, <2>2
<1> QED BY <1>13

LEMMA NextTells ==
    ASSUME InjectInv, \A q \in Process : Told(q), [Next]_vars
    PROVE  \A q \in Process : Told(q)'
<1>1. ASSUME NEW p \in Process, SendtoErr(p) PROVE \A q \in Process : Told(q)'
  BY <1>1, SendDraws, SendTells
<1>2. CASE UNCHANGED <<env, stream, m_History, log>>
  BY <1>2 DEF Told, RateMissed
<1>3. LoadEnvData \/ SendErrInit \/ (\E p \in Process : Fork(p)) \/ UNCHANGED vars
      => UNCHANGED <<env, stream, m_History, log>>
  BY DEF LoadEnvData, SendErrInit, Fork, vars, settings
<1> QED BY <1>1, <1>2, <1>3 DEF Next

THEOREM AllTold == Spec => [](\A q \in Process : Told(q))
<1>1. Init => \A q \in Process : Told(q)
  BY DEF Init, Told
<1>2. InjectInv /\ (\A q \in Process : Told(q)) /\ [Next]_vars => (\A q \in Process : Told(q))'
  BY NextTells
<1> QED BY <1>1, <1>2, InjectionCorrect, PTL DEF Spec

\* SettingsManager.h:18: with a list of datagrams to drop those are dropped and no
\* others; for any lists, rate and processes.
THEOREM DropListAlwaysDecides == Spec => []DropListDecides
<1>1. (\A q \in Process : Told(q)) => DropListDecides
  BY DEF Told, DropListDecides, Met
<1> QED BY <1>1, AllTold, PTL

\* PacketManager.cpp:149: no first datagram meets a random error.
THEOREM FirstAlwaysSpared == Spec => []FirstSpared
<1>1. InjectInv /\ (\A q \in Process : Told(q)) => FirstSpared
  <2> SUFFICES ASSUME InjectInv, \A q \in Process : Told(q), NEW p \in Process, log[p] # <<>>
               PROVE  \/ log[p][1] = "sent"
                      \/ log[p][1] = "dropped" /\ env.drop # Unset /\ 1 \in Listed(env.drop)
    BY DEF FirstSpared
  <2>1. log[p] \in Seq({"dropped", "flipped", "sent"})
    BY DEF InjectInv, InjectTypeOK
  <2>2. 1 \in DOMAIN log[p]
    BY <2>1
  <2> QED BY <2>2 DEF Told, Listed
<1> QED BY <1>1, AllTold, InjectionCorrect, PTL

\* testRandError.sh:44: where the environment sets a rate, nothing happens by chance
\* until a number is drawn that is no higher.
THEOREM EnvironmentAlwaysWins == Spec => []EnvironmentWins
<1>1. (\A q \in Process : Told(q)) => EnvironmentWins
  BY DEF Told, RateMissed, EnvironmentWins
<1> QED BY <1>1, AllTold, PTL

\* PacketManager.h:5: no datagram leaves that infoSeqNo has not counted, although an
\* event before it may end the round: it does so only for a datagram it drops.
THEOREM SentAlwaysCounted == Spec => []SentIsCounted
<1>1. (\A q \in Process : Told(q)) => SentIsCounted
  BY DEF Told, SentIsCounted, Met
<1> QED BY <1>1, AllTold, PTL

-----------------------------------------------------------------------------
(* The same errors.                                                        *)

\* The three numbers of the stream t after the first k.
After(t, k) == [i \in 1 .. 3 |-> IF k + i <= Len(t) THEN t[k + i] ELSE 0]

\* The stream alone decides what becomes of datagram i, whoever sends it: D says after
\* how many numbers that is, the same for all processes.
Replays(D) ==
    /\ D \in [Nat -> Nat] /\ D[0] = 0
    /\ \A p \in Process :
          /\ drawn[p] = D[Len(log[p])]
          /\ \A i \in DOMAIN log[p] :
                /\ D[i] = D[i - 1] + DrawsFor(i, After(stream, D[i - 1]))
                /\ D[i] <= Len(stream)
                /\ log[p][i] = Fate(i, After(stream, D[i - 1]))

\* A datagram's fate depends on no number beyond those drawn for it.
LEMMA DrawnDecide ==
    ASSUME NEW n, NEW f, NEW g, \A i \in 1 .. DrawsFor(n, f) : f[i] = g[i]
    PROVE  DrawsFor(n, g) = DrawsFor(n, f) /\ Fate(n, g) = Fate(n, f)
<1>1. CASE ~MayRandom(n)
  BY <1>1 DEF DrawsFor, Fate, Chance
<1>2. CASE MayRandom(n)
  <2>1. DrawsFor(n, f) \in 1 .. 3
    BY <1>2 DEF DrawsFor
  <2>2. f[1] = g[1]
    BY <2>1
  <2>3. CASE ~Hit(f[1])
    BY <1>2, <2>2, <2>3 DEF DrawsFor, Fate, Chance
  <2>4. CASE Hit(f[1])
    <3>1. DrawsFor(n, f) \in 2 .. 3
      BY <1>2, <2>4 DEF DrawsFor
    <3>2. f[2] = g[2]
      BY <3>1
    <3> QED BY <1>2, <2>2, <2>4, <3>2 DEF DrawsFor, Fate, Chance
  <2> QED BY <2>3, <2>4
<1> QED BY <1>1, <1>2

\* The stream keeps what it has said of the datagrams before.
LEMMA Unchanging ==
    ASSUME NEW S, NEW t \in Seq(S), NEW s \in Seq(S), Len(s) >= Len(t),
           \A i \in 1 .. Len(t) : s[i] = t[i],
           NEW n, NEW k \in Nat, NEW u \in 0 .. 3, u = DrawsFor(n, After(t, k)), k + u <= Len(t)
    PROVE  /\ DrawsFor(n, After(s, k)) = DrawsFor(n, After(t, k))
           /\ Fate(n, After(s, k)) = Fate(n, After(t, k))
<1>1. ASSUME NEW i \in 1 .. u PROVE After(t, k)[i] = After(s, k)[i]
  <2>1. i \in 1 .. 3 /\ k + i \in 1 .. Len(t) /\ k + i <= Len(s)
    OBVIOUS
  <2>2. s[k + i] = t[k + i]
    BY <2>1
  <2> QED BY <2>1, <2>2 DEF After
<1> QED BY <1>1, DrawnDecide

LEMMA SendReplays ==
    ASSUME InjectInv, NEW p \in Process, NEW draws \in Upcoming(p), NEW D, Replays(D),
           m_MsgNo[p] \in Nat,
           drawn' = [drawn EXCEPT ![p] = drawn[p] + DrawsFor(m_MsgNo[p] + 1, draws)],
           stream' = Known(p, draws, drawn[p] + DrawsFor(m_MsgNo[p] + 1, draws)),
           log' = [log EXCEPT ![p] = Append(@, Fate(m_MsgNo[p] + 1, draws))],
           UNCHANGED <<settings, stage>>
    PROVE  \E F : Replays(F)'
<1> DEFINE n == m_MsgNo[p] + 1
           u == DrawsFor(n, draws)
           fate == Fate(n, draws)
           k == drawn[p]
           E == [D EXCEPT ![n] = k + u]
<1>1. InjectTypeOK /\ n \in Nat /\ n - 1 \in Nat /\ draws \in [1 .. 3 -> 0 .. Scale - 1]
  BY DEF InjectInv, Upcoming
<1>2. u \in 0 .. 3
  BY DEF DrawsFor
<1>3. stage = "running" /\ Len(log[p]) = n - 1
  BY DEF InjectInv, Counted
<1>4. fate \in {"dropped", "flipped", "sent"}
  BY <1>1, <1>3, FateOf
<1>5. /\ log' = [log EXCEPT ![p] = Append(log[p], fate)]
      /\ drawn' = [drawn EXCEPT ![p] = k + u]
      /\ UNCHANGED <<m_ErrorRate, m_ErrorCase_Constant, m_ErrorCase_Chance>>
  BY DEF settings
<1>6. /\ D \in [Nat -> Nat] /\ D[0] = 0 /\ k = D[n - 1] /\ k \in Nat
  BY <1>1, <1>3 DEF Replays
<1> HIDE DEF n, u, fate, k
<1>7. /\ stream' \in Seq(0 .. Scale - 1)
      /\ Len(stream') >= Len(stream) /\ Len(stream') >= k + u
      /\ \A i \in 1 .. Len(stream) : stream'[i] = stream[i]
      /\ \A i \in 1 .. u : stream'[k + i] = draws[i]
  <2>1. /\ InjectInv /\ p \in Process /\ draws \in Upcoming(p) /\ u \in 0 .. 3
        /\ stream' = Known(p, draws, drawn[p] + u)
    BY <1>2 DEF n, u
  <2>2. Extends(stream', p, draws, u)
    BY ONLY <2>1, KnownExtends
  <2> QED BY <2>2 DEF k, Extends, Grows
<1>8. /\ stream \in Seq(0 .. Scale - 1) /\ Len(stream) \in Nat /\ Len(stream') \in Nat
  BY <1>1, <1>7 DEF InjectTypeOK
<1>9. DrawsFor(n, After(stream', k)) = u /\ Fate(n, After(stream', k)) = fate
  <2>1. ASSUME NEW i \in 1 .. u PROVE draws[i] = After(stream', k)[i]
    <3> DEFINE L == Len(stream')
    <3>1. L \in Nat /\ L >= k + u /\ k \in Nat /\ u \in 0 .. 3 /\ i \in 1 .. u
      BY <1>2, <1>6, <1>7, <1>8
    <3> HIDE DEF L
    <3>2. i \in 1 .. 3 /\ k + i <= L
      BY ONLY <3>1
    <3>3. draws[i] = stream'[k + i]
      BY <1>7
    <3> QED BY <3>2, <3>3 DEF After, L
  <2> QED BY <2>1, DrawnDecide DEF u, fate
\* What the stream said of datagram i of any process it still says.
<1>10. ASSUME NEW q \in Process, NEW i \in DOMAIN log[q]
       PROVE  /\ i \in Nat /\ i - 1 \in Nat /\ i <= Len(log[q])
              /\ D[i] = D[i - 1] + DrawsFor(i, After(stream', D[i - 1]))
              /\ D[i] <= Len(stream')
              /\ log[q][i] = Fate(i, After(stream', D[i - 1]))
  <2>1. i \in Nat /\ i - 1 \in Nat /\ i <= Len(log[q])
    BY <1>1 DEF InjectTypeOK
  <2>2. /\ D[i] = D[i - 1] + DrawsFor(i, After(stream, D[i - 1]))
        /\ D[i] <= Len(stream)
        /\ log[q][i] = Fate(i, After(stream, D[i - 1]))
    BY DEF Replays
  <2> DEFINE v == DrawsFor(i, After(stream, D[i - 1]))
             d == D[i - 1]
  <2>3. v \in 0 .. 3
    BY DEF DrawsFor
  <2>4. d \in Nat /\ d + v <= Len(stream) /\ D[i] <= Len(stream')
    BY <1>6, <1>7, <1>8, <2>1, <2>2
  <2>5. /\ DrawsFor(i, After(stream', d)) = DrawsFor(i, After(stream, d))
        /\ Fate(i, After(stream', d)) = Fate(i, After(stream, d))
    <3> DEFINE S == 0 .. Scale - 1
               t == stream
               s == stream'
    <3>1. /\ t \in Seq(S) /\ s \in Seq(S) /\ Len(s) >= Len(t)
          /\ \A j \in 1 .. Len(t) : s[j] = t[j]
          /\ d \in Nat /\ v \in 0 .. 3 /\ v = DrawsFor(i, After(t, d)) /\ d + v <= Len(t)
      BY <1>7, <1>8, <2>3, <2>4
    <3> HIDE DEF v, d, S, t, s
    <3>2. /\ DrawsFor(i, After(s, d)) = DrawsFor(i, After(t, d))
          /\ Fate(i, After(s, d)) = Fate(i, After(t, d))
      BY ONLY <3>1, Unchanging
    <3> QED BY <3>2 DEF s, t
  <2> QED BY <2>1, <2>2, <2>4, <2>5
\* If another process has sent datagram n, nothing new is known of it.
<1>11. ASSUME NEW q \in Process, n \in DOMAIN log[q] PROVE D[n] = k + u
  BY <1>6, <1>9, <1>10, <1>11
<1>12. E \in [Nat -> Nat] /\ E[0] = 0 /\ E[n] = k + u /\ E[n - 1] = k
  <2>1. n \in Nat /\ n - 1 \in Nat /\ n # 0 /\ n - 1 # n
    BY <1>1
  <2>2. k + u \in Nat
    <3>1. k \in Nat /\ u \in 0 .. 3
      BY <1>2, <1>6
    <3> QED BY ONLY <3>1
  <2>3. E \in [Nat -> Nat]
    BY <1>6, <2>2
  <2>4. E[n] = k + u
    BY <1>6, <2>1
  <2>5. E[0] = 0
    BY <1>6, <2>1
  <2>6. E[n - 1] = k
    BY <1>6, <2>1
  <2> QED BY <2>3, <2>4, <2>5, <2>6
<1>13. ASSUME NEW q \in Process, NEW i \in 0 .. Len(log[q]) PROVE E[i] = D[i]
  <2>1. DOMAIN log[q] = 1 .. Len(log[q]) /\ i \in Nat
    BY <1>1 DEF InjectTypeOK
  <2>2. CASE i = n
    <3>1. n \in DOMAIN log[q]
      BY <1>1, <2>1, <2>2 DEF n
    <3> QED BY <1>11, <1>12, <2>2, <3>1
  <2>3. CASE i # n
    BY <1>6, <2>1, <2>3
  <2> QED BY <2>2, <2>3
<1> HIDE DEF E
<1>14. \A i, f : DrawsFor(i, f)' = DrawsFor(i, f)
  BY <1>5 DEF DrawsFor, MayRandom, Hit, RandCase
<1>15. \A i, f : Fate(i, f)' = Fate(i, f)
  BY <1>5 DEF Fate, ConstantDrop, Drops, Chance, MayRandom, Hit, RandCase
<1>16. ASSUME NEW q \in Process
       PROVE  /\ drawn'[q] = E[Len(log'[q])]
              /\ \A i \in DOMAIN log'[q] :
                    /\ E[i] = E[i - 1] + DrawsFor(i, After(stream', E[i - 1]))
                    /\ E[i] <= Len(stream')
                    /\ log'[q][i] = Fate(i, After(stream', E[i - 1]))
  <2>1. log[q] \in Seq({"dropped", "flipped", "sent"}) /\ Len(log[q]) \in Nat
    BY <1>1 DEF InjectTypeOK
  <2>2. ASSUME NEW i \in DOMAIN log[q]
        PROVE  /\ E[i] = E[i - 1] + DrawsFor(i, After(stream', E[i - 1]))
               /\ E[i] <= Len(stream')
               /\ log[q][i] = Fate(i, After(stream', E[i - 1]))
    <3>1. i \in 0 .. Len(log[q]) /\ i - 1 \in 0 .. Len(log[q])
      BY <1>10, <2>1
    <3>2. E[i] = D[i] /\ E[i - 1] = D[i - 1]
      BY <1>13, <3>1
    <3> QED BY <1>10, <3>2
  <2>3. CASE q = p
    <3>1. log'[p] = Append(log[p], fate) /\ drawn'[p] = k + u
      BY <1>1, <1>5 DEF InjectTypeOK
    <3>2. /\ DOMAIN Append(log[p], fate) = DOMAIN log[p] \cup {n}
          /\ Append(log[p], fate)[n] = fate
          /\ \A i \in DOMAIN log[p] : i # n /\ Append(log[p], fate)[i] = log[p][i]
      <4> DEFINE l == log[p]
                 S == {"dropped", "flipped", "sent"}
      <4>1. l \in Seq(S) /\ fate \in S /\ Len(l) + 1 = n
        BY <1>1, <1>3, <1>4, <2>1, <2>3
      <4> HIDE DEF l, S
      <4> QED BY ONLY <4>1, Extended DEF l
    <3>3. Len(Append(log[p], fate)) = n
      BY <1>1, <1>3, <1>4, <2>1, <2>3
    <3>4. /\ E[n] = E[n - 1] + DrawsFor(n, After(stream', E[n - 1]))
          /\ E[n] <= Len(stream')
          /\ fate = Fate(n, After(stream', E[n - 1]))
      BY <1>7, <1>9, <1>12
    <3>5. drawn'[q] = E[Len(log'[q])]
      BY <1>12, <2>3, <3>1, <3>3
    <3>6. ASSUME NEW i \in DOMAIN log'[q]
          PROVE  /\ E[i] = E[i - 1] + DrawsFor(i, After(stream', E[i - 1]))
                 /\ E[i] <= Len(stream')
                 /\ log'[q][i] = Fate(i, After(stream', E[i - 1]))
      <4>1. CASE i = n
        BY <2>3, <3>1, <3>2, <3>4, <4>1
      <4>2. CASE i # n
        <5>1. i \in DOMAIN log[q] /\ log'[q][i] = log[q][i]
          BY <2>3, <3>1, <3>2, <4>2
        <5> QED BY <2>2, <5>1
      <4> QED BY <4>1, <4>2
    <3> QED BY <3>5, <3>6
  <2>4. CASE q # p
    <3>1. log'[q] = log[q] /\ drawn'[q] = drawn[q]
      BY <1>1, <1>5, <2>4 DEF InjectTypeOK
    <3>2. drawn[q] = D[Len(log[q])]
      BY DEF Replays
    <3>3. E[Len(log[q])] = D[Len(log[q])]
      BY <1>13, <2>1
    <3> QED BY <2>2, <3>1, <3>2, <3>3
  <2> QED BY <2>3, <2>4
<1>17. PICK F : F = E
  OBVIOUS
<1>18. F \in [Nat -> Nat] /\ F[0] = 0
  BY <1>12, <1>17
<1>19. ASSUME NEW q \in Process PROVE drawn'[q] = F[Len(log'[q])]
  BY <1>16, <1>17
<1>20. ASSUME NEW q \in Process, NEW i \in DOMAIN log'[q]
       PROVE  /\ F[i] = F[i - 1] + DrawsFor(i, After(stream, F[i - 1]))'
              /\ F[i] <= Len(stream')
              /\ log'[q][i] = Fate(i, After(stream, F[i - 1]))'
  <2>1. /\ F[i] = F[i - 1] + DrawsFor(i, After(stream', F[i - 1]))
        /\ F[i] <= Len(stream')
        /\ log'[q][i] = Fate(i, After(stream', F[i - 1]))
    BY <1>16, <1>17
  <2>2. After(stream, F[i - 1])' = After(stream', F[i - 1])
    BY DEF After
  <2>3. DrawsFor(i, After(stream, F[i - 1]))' = DrawsFor(i, After(stream', F[i - 1]))
    BY <1>5, <2>2 DEF DrawsFor, MayRandom, Hit, RandCase
  <2>4. Fate(i, After(stream, F[i - 1]))' = Fate(i, After(stream', F[i - 1]))
    BY <1>5, <2>2 DEF Fate, ConstantDrop, Drops, Chance, MayRandom, Hit, RandCase
  <2> QED BY <2>1, <2>3, <2>4
<1>21. Replays(F)'
  BY <1>18, <1>19, <1>20 DEF Replays
<1> QED BY <1>21

LEMMA ReplaysKept ==
    ASSUME NEW D, Replays(D), UNCHANGED settings, UNCHANGED <<drawn, stream, log>>
    PROVE  Replays(D)'
<1>1. /\ UNCHANGED <<m_ErrorRate, m_ErrorCase_Constant, m_ErrorCase_Chance>>
      /\ stream' = stream /\ log' = log /\ drawn' = drawn
  BY DEF settings
<1>2. D \in [Nat -> Nat] /\ D[0] = 0
  BY DEF Replays
<1>3. ASSUME NEW q \in Process PROVE drawn'[q] = D[Len(log'[q])]
  BY <1>1 DEF Replays
<1>4. ASSUME NEW q \in Process, NEW i \in DOMAIN log'[q]
      PROVE  /\ D[i] = D[i - 1] + DrawsFor(i, After(stream, D[i - 1]))'
             /\ D[i] <= Len(stream')
             /\ log'[q][i] = Fate(i, After(stream, D[i - 1]))'
  <2>1. /\ D[i] = D[i - 1] + DrawsFor(i, After(stream, D[i - 1]))
        /\ D[i] <= Len(stream')
        /\ log'[q][i] = Fate(i, After(stream, D[i - 1]))
    BY <1>1 DEF Replays
  <2>2. After(stream, D[i - 1])' = After(stream, D[i - 1])
    BY <1>1 DEF After
  <2>3. DrawsFor(i, After(stream, D[i - 1]))' = DrawsFor(i, After(stream, D[i - 1]))
    BY <1>1, <2>2 DEF DrawsFor, MayRandom, Hit, RandCase
  <2>4. Fate(i, After(stream, D[i - 1]))' = Fate(i, After(stream, D[i - 1]))
    BY <1>1, <2>2 DEF Fate, ConstantDrop, Drops, Chance, MayRandom, Hit, RandCase
  <2> QED BY <2>1, <2>3, <2>4
<1> QED BY <1>2, <1>3, <1>4 DEF Replays

LEMMA NextReplays ==
    ASSUME InjectInv, NEW D, Replays(D), [Next]_vars
    PROVE  \E F : Replays(F)'
<1>1. CASE LoadEnvData \/ SendErrInit
  <2>1. \A p \in Process : log[p] = <<>>
    BY <1>1 DEF InjectInv, Counted, LoadEnvData, SendErrInit
  <2>2. UNCHANGED <<drawn, stream, log>>
    BY <1>1 DEF LoadEnvData, SendErrInit
  <2> QED BY <2>1, <2>2 DEF Replays
<1>2. ASSUME NEW p \in Process, Fork(p) PROVE Replays(D)'
  BY <1>2, ReplaysKept DEF Fork
<1>3. ASSUME NEW p \in Process, SendtoErr(p) PROVE \E F : Replays(F)'
  BY <1>3, SendDraws, SendReplays
<1>4. CASE UNCHANGED vars
  BY <1>4, ReplaysKept DEF vars
<1> QED BY <1>1, <1>2, <1>3, <1>4 DEF Next

\* One count of the numbers drawn holds for all processes.
Replayed == \E D : Replays(D)

LEMMA AllReplay == Spec => []Replayed
<1>1. Init => Replayed
  <2> SUFFICES ASSUME Init PROVE Replayed
    OBVIOUS
  <2> DEFINE Z == [i \in Nat |-> 0]
  <2>1. Replays(Z)
    BY DEF Init, Replays
  <2> QED BY <2>1 DEF Replayed
<1>2. InjectInv /\ Replayed /\ [Next]_vars => Replayed'
  BY NextReplays DEF Replayed
<1> QED BY <1>1, <1>2, InjectionCorrect, PTL DEF Spec

\* SameErrors for all processes, streams and settings: the n-th datagram of every child
\* meets the same fate.
THEOREM SameErrorsAlways == Spec => []SameErrors
<1>1. Replayed => SameErrors
  BY DEF Replayed, Replays, SameErrors
<1> QED BY <1>1, AllReplay, PTL
=============================================================================
