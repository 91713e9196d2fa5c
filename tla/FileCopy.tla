------------------------------ MODULE FileCopy -------------------------------
(***************************************************************************)
(* What an upload promises, whatever the paths do: the server's file grows *)
(* by chunks of the local file, in order, and rcopy ends in success only   *)
(* when all of them are there.  Giving up is always allowed, and the last  *)
(* chunks may still arrive after it.                                       *)
(***************************************************************************)
EXTENDS Sequences, Naturals

CONSTANT LocalFile

VARIABLES
    dest,      \* the server's copy
    verdict    \* what rcopy makes of the upload

copyVars == <<dest, verdict>>

CopyInit == dest = <<>> /\ verdict = "running"

Extend ==
    /\ \E n \in Len(dest) + 1 .. Len(LocalFile) : dest' = SubSeq(LocalFile, 1, n)
    /\ UNCHANGED verdict

Succeed ==
    /\ verdict = "running"
    /\ dest = LocalFile
    /\ verdict' = "success"
    /\ UNCHANGED dest

GiveUp ==
    /\ verdict = "running"
    /\ verdict' = "failure"
    /\ UNCHANGED dest

CopyNext == Extend \/ Succeed \/ GiveUp

CopySpec == CopyInit /\ [][CopyNext]_copyVars
=============================================================================
