------------------------------ MODULE Archive ------------------------------
(***************************************************************************)
(* FCompress, step by step, inside FCompressVol: the Zip and ZipFails of   *)
(* Volumes are the last thing a call of FCompress does. Its two deferred   *)
(* functions run in the reverse of the order they are set up in: the       *)
(* archive is finalized first, then closed, and removed if by then         *)
(* anything has failed.                                                    *)
(*                                                                         *)
(* Its callers give every file a name of its own, so the check for equal   *)
(* names never refuses.                                                    *)
(***************************************************************************)
EXTENDS Volumes

VARIABLES step,    \* where the call is; "idle" when none is under way
          err,     \* the err it is going to return: "nil" or "failed"
          input,   \* the member that is open for reading, 0 for none
          disk,    \* the archive of each volume on disk
          inside   \* the members written to it

callVars == <<step, err, input, disk, inside>>
avars == <<flist, volumeOf, count, curSize, zipped, phase,
           step, err, input, disk, inside>>

Paths == 1..MaxFiles

ATypeOK ==
  /\ TypeOK
  /\ step \in {"idle", "member", "copy", "finalize", "close"}
  /\ err \in {"nil", "failed"}
  /\ input \in 0..MaxFiles
  /\ disk \in [Paths -> {"none",      \* not there
                         "partial",   \* without its directory
                         "final",     \* with its directory, still open
                         "whole",     \* and flushed
                         "stuck"}]    \* not removed when it had to be
  /\ inside \in [Paths -> SUBSET Paths]

AInit ==
  /\ Init
  /\ step = "idle" /\ err = "nil" /\ input = 0
  /\ disk = [v \in Paths |-> "none"]
  /\ inside = [v \in Paths |-> {}]

Volume == zipped + 1
Todo == {i \in DOMAIN volumeOf : volumeOf[i] = Volume} \ inside[Volume]
NextMember == CHOOSE i \in Todo : \A j \in Todo : i <= j

At(from, to) == phase = "zip" /\ step = from /\ step' = to

Create ==
  /\ At("idle", "member") /\ zipped < count
  /\ err' = "nil"
  /\ disk' = [disk EXCEPT ![Volume] = "partial"]
  /\ UNCHANGED <<vars, input, inside>>

CreateFails == ZipFails /\ step = "idle" /\ UNCHANGED callVars

OpenMember ==
  /\ At("member", "copy") /\ Todo # {}
  /\ input' = NextMember
  /\ UNCHANGED <<vars, err, disk, inside>>

(* The file is gone since os.Stat has seen it.                              *)
OpenMemberFails ==
  /\ At("member", "finalize") /\ Todo # {}
  /\ err' = "failed"
  /\ UNCHANGED <<vars, input, disk, inside>>

(* The member is written to its end and the file it comes from closed.      *)
WriteMember ==
  /\ At("copy", "member")
  /\ inside' = [inside EXCEPT ![Volume] = @ \cup {input}]
  /\ input' = 0
  /\ UNCHANGED <<vars, err, disk>>

(* A return between the copy and the close. *)
MutWriteMemberFailsOpen ==
  /\ At("copy", "finalize")
  /\ err' = "failed"
  /\ UNCHANGED <<vars, input, disk, inside>>

(* Not written, or not closed: the file is closed either way.               *)
WriteMemberFails ==
  /\ At("copy", "finalize")
  /\ err' = "failed"
  /\ input' = 0
  /\ UNCHANGED <<vars, disk, inside>>

MembersDone ==
  /\ At("member", "finalize") /\ Todo = {}
  /\ UNCHANGED <<vars, err, input, disk, inside>>

(* The deferred writer.Close writes the directory of whatever there is.     *)
Finalize ==
  /\ At("finalize", "close")
  /\ disk' = [disk EXCEPT ![Volume] = "final"]
  /\ UNCHANGED <<vars, err, input, inside>>

(* defer writer.Close(), with its error dropped. *)
MutFinalizeFailsUnseen ==
  /\ At("finalize", "close")
  /\ UNCHANGED <<vars, err, input, disk, inside>>

FinalizeFails ==
  /\ At("finalize", "close")
  /\ err' = "failed"
  /\ UNCHANGED <<vars, input, disk, inside>>

(* The deferred output.Close, and the end of a call without an error.       *)
Close ==
  /\ At("close", "idle") /\ err = "nil"
  /\ Zip
  /\ disk' = [disk EXCEPT ![Volume] = IF @ = "final" THEN "whole" ELSE @]
  /\ UNCHANGED <<err, input, inside>>

(* Something has failed, the close at the latest: os.Remove, whose error is *)
(* dropped.                                                                *)
Remove ==
  /\ At("close", "idle")
  /\ ZipFails
  /\ err' = "failed"
  /\ \E left \in {"none", "stuck"} : disk' = [disk EXCEPT ![Volume] = left]
  /\ UNCHANGED <<input, inside>>

FCompress ==
  \/ Create \/ CreateFails \/ OpenMember \/ OpenMemberFails
  \/ WriteMember \/ WriteMemberFails \/ MembersDone
  \/ Finalize \/ FinalizeFails \/ Close \/ Remove

ANext ==
  \/ (Skip \/ Extend \/ Begin \/ SplitDone \/ ZipDone) /\ UNCHANGED callVars
  \/ FCompress

ASpec == AInit /\ [][ANext]_avars

-----------------------------------------------------------------------------
(* PROPERTIES *)

(* Between two calls and after the last one, every volume counted as zipped *)
(* is on disk to its last byte with all its members, no other is on disk    *)
(* under its name unless the removal failed, and no file is left open.      *)
ArchivesWhole ==
  step = "idle" =>
    /\ input = 0
    /\ \A v \in Paths :
         IF v <= zipped THEN disk[v] = "whole" /\ inside[v] = Members(v)
                        ELSE disk[v] \in {"none", "stuck"}
=============================================================================
