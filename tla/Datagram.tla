------------------------------- MODULE Datagram -------------------------------
(***************************************************************************)
(* What the two programs take for granted of a datagram: it is lost, it    *)
(* comes out as the message that went in, or, if it was damaged, as        *)
(* CRC_ERROR.  It may be sent again until another message takes its place. *)
(***************************************************************************)
CONSTANTS
    Content,    \* the messages: all that send_buf is given
    Blank       \* what a buffer holds before its first use

VARIABLES
    message,    \* the last message given to be sent
    way,        \* the datagram on its way: "empty", "intact" or "damaged"
    received    \* what recv_buf returned since it was sent

datagramVars == <<message, way, received>>

Nothing == <<"nothing", <<>>>>
Damage  == <<"CRC_ERROR", <<>>>>
Got(m)  == <<"packet", m>>

DatagramInit == message = Blank /\ way = "empty" /\ received = Nothing

Send ==
    /\ way = "empty"
    /\ message' \in Content
    /\ received' = Nothing
    /\ UNCHANGED way

SendAgain ==
    /\ way = "empty"
    /\ received' = Nothing
    /\ UNCHANGED <<message, way>>

Leave ==
    /\ way = "empty" /\ received = Nothing
    /\ message \in Content
    /\ way' \in {"intact", "damaged"}
    /\ UNCHANGED <<message, received>>

ArriveIntact ==
    /\ way = "intact"
    /\ way' = "empty"
    /\ received' = Got(message)
    /\ UNCHANGED message

ArriveDamaged ==
    /\ way = "damaged"
    /\ way' = "empty"
    /\ received' = Damage
    /\ UNCHANGED message

DatagramNext == Send \/ SendAgain \/ Leave \/ ArriveIntact \/ ArriveDamaged

DatagramSpec == DatagramInit /\ [][DatagramNext]_datagramVars
===============================================================================
