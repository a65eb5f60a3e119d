------------------------------ MODULE Volumes ------------------------------
(***************************************************************************)
(* FCompressVol: it deals the files of a list out to ZIP volumes, in one   *)
(* pass that looks at the size of the volume at hand, and then writes the  *)
(* volumes one by one until the first that fails.                          *)
(*                                                                         *)
(* A file is its size, in units of which MaxVolSize make the 50 MB limit,  *)
(* or Missing when os.Stat cannot find it.                                 *)
(***************************************************************************)
EXTENDS Integers, Sequences

CONSTANTS MaxVolSize,  \* the limit on a volume
          Sizes,       \* sizes of the files
          Missing,     \* the size of a file that is not there
          MaxFiles     \* bound: the longest list

ASSUME VolumesAssumption ==
  /\ MaxVolSize \in Nat \ {0}
  /\ Sizes \subseteq Nat
  /\ Missing \notin Nat
  /\ MaxFiles \in Nat

VARIABLES flist,    \* the files to archive
          volumeOf, \* the volume of each file seen so far, 0 for none
          count,    \* len(volumes)
          curSize,  \* curSize
          zipped,   \* len(zipPaths)
          phase     \* "split", "zip", "ok" or "error"

vars == <<flist, volumeOf, count, curSize, zipped, phase>>

Lists == UNION {[1..k -> Sizes \cup {Missing}] : k \in 0..MaxFiles}

TypeOK ==
  /\ flist \in Seq(Sizes \cup {Missing})
  /\ volumeOf \in Seq(0..count)
  /\ Len(volumeOf) <= Len(flist)
  /\ count \in Nat
  /\ curSize \in Nat
  /\ zipped \in 0..count
  /\ phase \in {"split", "zip", "ok", "error"}

Init ==
  /\ flist \in Lists
  /\ volumeOf = <<>>
  /\ count = 0
  /\ curSize = 0
  /\ zipped = 0
  /\ phase = "split"

Seen == Len(volumeOf)
File == flist[Seen + 1]

(* A volume may reach twice the limit. *)
MutNeedsNewLate == count = 0 \/ curSize >= MaxVolSize

(* The code takes the volume at hand for full once it is as large as the    *)
(* limit, but leaves a file alone that is too large for any volume.         *)
NeedsNewVolume ==
  count = 0 \/ (curSize + File >= MaxVolSize /\ curSize > 0)

(* os.Stat fails: the file is skipped.                                      *)
Skip ==
  /\ phase = "split" /\ Seen < Len(flist)
  /\ File = Missing
  /\ volumeOf' = Append(volumeOf, 0)
  /\ UNCHANGED <<flist, count, curSize, zipped, phase>>

Extend ==
  /\ phase = "split" /\ Seen < Len(flist)
  /\ File # Missing /\ ~NeedsNewVolume
  /\ volumeOf' = Append(volumeOf, count)
  /\ curSize' = curSize + File
  /\ UNCHANGED <<flist, count, zipped, phase>>

(* The size of the full volume carried over to the new one. *)
MutBeginKeepsSize ==
  /\ phase = "split" /\ Seen < Len(flist)
  /\ File # Missing /\ NeedsNewVolume
  /\ count' = count + 1
  /\ volumeOf' = Append(volumeOf, count + 1)
  /\ curSize' = curSize + File
  /\ UNCHANGED <<flist, zipped, phase>>

(* The file that does not fit left in the volume it does not fit. *)
MutBeginLate ==
  /\ phase = "split" /\ Seen < Len(flist)
  /\ File # Missing /\ NeedsNewVolume
  /\ count' = count + 1
  /\ volumeOf' = Append(volumeOf, count)
  /\ curSize' = 0
  /\ UNCHANGED <<flist, zipped, phase>>

Begin ==
  /\ phase = "split" /\ Seen < Len(flist)
  /\ File # Missing /\ NeedsNewVolume
  /\ count' = count + 1
  /\ volumeOf' = Append(volumeOf, count + 1)
  /\ curSize' = File
  /\ UNCHANGED <<flist, zipped, phase>>

SplitDone ==
  /\ phase = "split" /\ Seen = Len(flist)
  /\ phase' = "zip"
  /\ UNCHANGED <<flist, volumeOf, count, curSize, zipped>>

(* The path of a volume appended twice. *)
MutZipTwice ==
  /\ phase = "zip" /\ zipped < count
  /\ zipped' = zipped + 2
  /\ UNCHANGED <<flist, volumeOf, count, curSize, phase>>

(* FCompress has written the next volume; how, is the module Archive.       *)
Zip ==
  /\ phase = "zip" /\ zipped < count
  /\ zipped' = zipped + 1
  /\ UNCHANGED <<flist, volumeOf, count, curSize, phase>>

(* It has failed; the volumes after it are not tried.                       *)
ZipFails ==
  /\ phase = "zip" /\ zipped < count
  /\ phase' = "error"
  /\ UNCHANGED <<flist, volumeOf, count, curSize, zipped>>

ZipDone ==
  /\ phase = "zip" /\ zipped = count
  /\ phase' = "ok"
  /\ UNCHANGED <<flist, volumeOf, count, curSize, zipped>>

Next == Skip \/ Extend \/ Begin \/ SplitDone \/ Zip \/ ZipFails \/ ZipDone

Spec == Init /\ [][Next]_vars

-----------------------------------------------------------------------------
(* PROPERTIES *)

Members(v) == {i \in DOMAIN volumeOf : volumeOf[i] = v}

(* The size of the files of volume v among the first i files. *)
SizeUpTo(v, i) ==
  LET size[j \in 0..i] ==
        IF j = 0 THEN 0
        ELSE size[j - 1] + IF volumeOf[j] = v THEN flist[j] ELSE 0
  IN  size[i]

VolumeSize(v) == SizeUpTo(v, Seen)

(* Every file that is there is in exactly one volume, the volumes follow    *)
(* the order of the list, and none is empty: FCompress never writes an      *)
(* archive without a member.                                               *)
Partition ==
  /\ \A i \in DOMAIN volumeOf : volumeOf[i] = 0 <=> flist[i] = Missing
  /\ \A i, j \in DOMAIN volumeOf :
       i < j /\ volumeOf[j] # 0 => volumeOf[i] <= volumeOf[j]
  /\ \A v \in 1..count : Members(v) # {}

(* "Volumes of up to 50MB each", as far as it holds: a volume reaches the   *)
(* limit only through a single file that does so on its own, and beside it  *)
(* there are at most empty files, all before it.                           *)
OverfullOnlyAlone ==
  \A v \in 1..count :
    VolumeSize(v) >= MaxVolSize =>
      \E i \in Members(v) :
        /\ flist[i] >= MaxVolSize
        /\ \A j \in Members(v) \ {i} : flist[j] = 0 /\ j < i

First(i, v) == i \in Members(v) /\ \A j \in Members(v) : i <= j

(* A volume is begun only for a file that would bring the one before it to  *)
(* the limit, exactly or beyond: two volumes in a row have the limit's size *)
(* between them. The comment on the condition asks for less, that the file  *)
(* "would exceed the limit", but the code compares with >=: two files that  *)
(* fill a volume exactly are put in two.                                   *)
NoEarlySplit ==
  \A v \in 2..count :
    \A i \in Members(v) : First(i, v) => VolumeSize(v - 1) + flist[i] >= MaxVolSize
=============================================================================
