--------------------------- MODULE Archive_proofs ---------------------------
(* Proofs about Archive and the Volumes it extends, for any limit and lists  *)
(* of any length.                                                           *)
EXTENDS Archive, SequenceTheorems, WellFoundedInduction, TLAPS

LEMMA Descending ==
  ASSUME NEW x \in Nat, NEW y \in Nat
  PROVE  <<y, x>> \in OpToRel(<, Nat) <=> y < x
BY DEF OpToRel

(* Every set of numbers that is not empty has a least one.                   *)
LEMMA Least ==
  ASSUME NEW T, T \subseteq Nat, T # {}
  PROVE  \E x \in T : \A y \in T : x <= y
<1>1. PICK x \in T : \A y \in T : ~ (<<y, x>> \in OpToRel(<, Nat))
  BY NatLessThanWellFounded, WFMin
<1>2. ASSUME NEW y \in T PROVE x <= y
  <2>1. ~ (y < x) BY <1>1, Descending
  <2> QED BY <2>1
<1> QED BY <1>2

(* Induction, with a set of numbers for the predicate.                       *)
LEMMA SetInduction ==
  ASSUME NEW S, 0 \in S, \A n \in Nat : n \in S => n + 1 \in S
  PROVE  Nat \subseteq S
<1> DEFINE T == Nat \ S
<1> SUFFICES ASSUME T # {} PROVE FALSE OBVIOUS
<1>1. PICK x \in T : \A y \in T : x <= y BY Least
<1>2. x # 0 /\ x - 1 \in Nat /\ ~ (x <= x - 1) BY <1>1
<1>3. x - 1 \in S BY <1>1, <1>2
<1> QED BY <1>1, <1>2, <1>3

-----------------------------------------------------------------------------
(* The size of the files of a volume, as a recursive sum.                    *)

SizeOf(list, vol, v, i) ==
  LET size[j \in 0..i] ==
        IF j = 0 THEN 0
        ELSE size[j - 1] + IF vol[j] = v THEN list[j] ELSE 0
  IN  size[i]

LEMMA SizeUpToIsSizeOf ==
  ASSUME NEW v, NEW i PROVE SizeUpTo(v, i) = SizeOf(flist, volumeOf, v, i)
BY DEF SizeUpTo, SizeOf

Sums(list, vol, v, i, f) ==
  f = [j \in 0..i |-> IF j = 0 THEN 0 ELSE f[j - 1] + IF vol[j] = v THEN list[j] ELSE 0]

LEMMA SumsExist ==
  ASSUME NEW list, NEW vol, NEW v
  PROVE  \A n \in Nat : \E f : Sums(list, vol, v, n, f)
<1> DEFINE S == {n \in Nat : \E f : Sums(list, vol, v, n, f)}
<1>1. 0 \in S
  <2>1. Sums(list, vol, v, 0, [j \in 0..0 |-> 0]) BY DEF Sums
  <2> QED BY <2>1
<1>2. ASSUME NEW n \in Nat, n \in S PROVE n + 1 \in S
  <2>1. PICK f : Sums(list, vol, v, n, f) BY <1>2
  <2> DEFINE t == IF vol[n + 1] = v THEN list[n + 1] ELSE 0
             g == [j \in 0..(n + 1) |-> IF j = n + 1 THEN f[n] + t ELSE f[j]]
  <2>2. ASSUME NEW j \in 0..(n + 1)
        PROVE  g[j] = IF j = 0 THEN 0 ELSE g[j - 1] + IF vol[j] = v THEN list[j] ELSE 0
    BY <2>1 DEF Sums
  <2>3. Sums(list, vol, v, n + 1, g)
    <3> HIDE DEF t
    <3>1. g = [j \in 0..(n + 1) |-> g[j]] OBVIOUS
    <3> HIDE DEF g
    <3> QED BY <2>2, <3>1 DEF Sums
  <2> QED BY <2>3
<1> HIDE DEF S
<1>3. Nat \subseteq S BY <1>1, <1>2, SetInduction
<1> QED BY <1>3 DEF S

LEMMA SumsUnique ==
  ASSUME NEW list, NEW vol, NEW v, NEW n \in Nat, NEW m \in Nat, NEW f, NEW g,
         Sums(list, vol, v, n, f), Sums(list, vol, v, m, g)
  PROVE  \A i \in Nat : i <= n /\ i <= m => f[i] = g[i]
<1> DEFINE S == {i \in Nat : i <= n /\ i <= m => f[i] = g[i]}
<1>1. 0 \in S BY DEF Sums
<1>2. ASSUME NEW i \in Nat, i \in S PROVE i + 1 \in S
  BY <1>2 DEF Sums
<1> HIDE DEF S
<1>3. Nat \subseteq S BY <1>1, <1>2, SetInduction
<1> QED BY <1>3 DEF S

LEMMA SizeOfIsSum ==
  ASSUME NEW list, NEW vol, NEW v, NEW n \in Nat
  PROVE  \E f : Sums(list, vol, v, n, f) /\ SizeOf(list, vol, v, n) = f[n]
<1> DEFINE f == CHOOSE f : Sums(list, vol, v, n, f)
<1>1. Sums(list, vol, v, n, f) BY SumsExist
<1>2. SizeOf(list, vol, v, n) = f[n] BY DEF SizeOf, Sums
<1> QED BY <1>1, <1>2

(* What the file at j adds to volume v.                                      *)
Share(list, vol, v, j) == IF vol[j] = v THEN list[j] ELSE 0

LEMMA SizeOfNothing ==
  ASSUME NEW list, NEW vol, NEW v
  PROVE  SizeOf(list, vol, v, 0) = 0
<1>1. PICK f : Sums(list, vol, v, 0, f) /\ SizeOf(list, vol, v, 0) = f[0] BY SizeOfIsSum
<1> QED BY <1>1 DEF Sums

LEMMA SizeOfNext ==
  ASSUME NEW list, NEW vol, NEW v, NEW n \in Nat
  PROVE  SizeOf(list, vol, v, n + 1) = SizeOf(list, vol, v, n) + Share(list, vol, v, n + 1)
<1>1. PICK f : Sums(list, vol, v, n, f) /\ SizeOf(list, vol, v, n) = f[n] BY SizeOfIsSum
<1>2. PICK g : Sums(list, vol, v, n + 1, g) /\ SizeOf(list, vol, v, n + 1) = g[n + 1]
  BY SizeOfIsSum
<1>3. f[n] = g[n] BY <1>1, <1>2, SumsUnique
<1>4. g[n + 1] = g[n] + Share(list, vol, v, n + 1) BY <1>2 DEF Sums, Share
<1> QED BY <1>1, <1>2, <1>3, <1>4

(* Files that have a size add up to a number. It is 0 only if all of theirs  *)
(* are.                                                                     *)
LEMMA SizeOfType ==
  ASSUME NEW list, NEW vol, NEW v, NEW n \in Nat,
         \A j \in 1..n : vol[j] = v => list[j] \in Nat
  PROVE  /\ SizeOf(list, vol, v, n) \in Nat
         /\ SizeOf(list, vol, v, n) = 0 => \A j \in 1..n : vol[j] = v => list[j] = 0
<1> DEFINE S == {i \in Nat : i <= n =>
                   /\ SizeOf(list, vol, v, i) \in Nat
                   /\ SizeOf(list, vol, v, i) = 0 =>
                        \A j \in 1..i : vol[j] = v => list[j] = 0}
<1>1. 0 \in S BY SizeOfNothing
<1>2. ASSUME NEW i \in Nat, i \in S PROVE i + 1 \in S
  <2> SUFFICES ASSUME i + 1 <= n
               PROVE  /\ SizeOf(list, vol, v, i + 1) \in Nat
                      /\ SizeOf(list, vol, v, i + 1) = 0 =>
                           \A j \in 1..(i + 1) : vol[j] = v => list[j] = 0
    OBVIOUS
  <2>1. SizeOf(list, vol, v, i + 1) =
          SizeOf(list, vol, v, i) + Share(list, vol, v, i + 1)
    BY SizeOfNext
  <2>2. /\ SizeOf(list, vol, v, i) \in Nat
        /\ SizeOf(list, vol, v, i) = 0 => \A j \in 1..i : vol[j] = v => list[j] = 0
    BY <1>2
  <2>3. /\ Share(list, vol, v, i + 1) \in Nat
        /\ Share(list, vol, v, i + 1) = 0 => (vol[i + 1] = v => list[i + 1] = 0)
    BY DEF Share
  <2>4. \A j \in 1..(i + 1) : j \in 1..i \/ j = i + 1 OBVIOUS
  <2> QED BY <2>1, <2>2, <2>3, <2>4
<1> HIDE DEF S
<1>3. Nat \subseteq S BY <1>1, <1>2, SetInduction
<1> QED BY <1>3 DEF S

(* The size of a volume depends on no file but those in it.                  *)
LEMMA SizeOfSame ==
  ASSUME NEW list, NEW vol, NEW more, NEW v, NEW n \in Nat,
         \A j \in 1..n : vol[j] = more[j]
  PROVE  SizeOf(list, vol, v, n) = SizeOf(list, more, v, n)
<1> DEFINE S == {i \in Nat : i <= n => SizeOf(list, vol, v, i) = SizeOf(list, more, v, i)}
<1>1. 0 \in S BY SizeOfNothing
<1>2. ASSUME NEW i \in Nat, i \in S PROVE i + 1 \in S
  <2>1. SizeOf(list, vol, v, i + 1) =
          SizeOf(list, vol, v, i) + Share(list, vol, v, i + 1)
    BY SizeOfNext
  <2>2. SizeOf(list, more, v, i + 1) =
          SizeOf(list, more, v, i) + Share(list, more, v, i + 1)
    BY SizeOfNext
  <2>3. i + 1 <= n => Share(list, vol, v, i + 1) = Share(list, more, v, i + 1) BY DEF Share
  <2> QED BY <1>2, <2>1, <2>2, <2>3
<1> HIDE DEF S
<1>3. Nat \subseteq S BY <1>1, <1>2, SetInduction
<1> QED BY <1>3 DEF S

LEMMA SizeOfNone ==
  ASSUME NEW list, NEW vol, NEW v, NEW n \in Nat, \A j \in 1..n : vol[j] # v
  PROVE  SizeOf(list, vol, v, n) = 0
<1> DEFINE S == {i \in Nat : i <= n => SizeOf(list, vol, v, i) = 0}
<1>1. 0 \in S BY SizeOfNothing
<1>2. ASSUME NEW i \in Nat, i \in S PROVE i + 1 \in S
  <2>1. SizeOf(list, vol, v, i + 1) =
          SizeOf(list, vol, v, i) + Share(list, vol, v, i + 1)
    BY SizeOfNext
  <2>2. i + 1 <= n => Share(list, vol, v, i + 1) = 0 BY DEF Share
  <2> QED BY <1>2, <2>1, <2>2
<1> HIDE DEF S
<1>3. Nat \subseteq S BY <1>1, <1>2, SetInduction
<1> QED BY <1>3 DEF S

-----------------------------------------------------------------------------
(* The split                                                                *)

(* The list is as long as the paths reach, and the volumes are no more than  *)
(* the files seen.                                                          *)
Bounded == Len(flist) <= MaxFiles /\ count <= Seen

(* curSize is the size of the volume at hand.                                *)
CurSizeRight == curSize = IF count = 0 THEN 0 ELSE VolumeSize(count)

VInv ==
  /\ TypeOK /\ Bounded /\ Partition /\ CurSizeRight
  /\ OverfullOnlyAlone /\ NoEarlySplit

LEMMA InitVInv == Init => VInv
<1> SUFFICES ASSUME Init PROVE VInv OBVIOUS
<1>1. PICK k \in 0..MaxFiles : flist \in [1..k -> Sizes \cup {Missing}]
  BY VolumesAssumption DEF Init, Lists
<1>2. flist \in Seq(Sizes \cup {Missing}) /\ Len(flist) = k
  BY <1>1, VolumesAssumption
<1>3. volumeOf = <<>> /\ count = 0 /\ curSize = 0 /\ zipped = 0 /\ phase = "split"
  BY DEF Init
<1> QED BY <1>2, <1>3, VolumesAssumption
     DEF VInv, TypeOK, Bounded, Seen, Partition, CurSizeRight, OverfullOnlyAlone,
         NoEarlySplit, First,
         Members

LEMMA FileFacts ==
  ASSUME VInv, Seen < Len(flist)
  PROVE  /\ Seen \in Nat /\ DOMAIN volumeOf = 1..Seen
         /\ \A i \in 1..Seen : volumeOf[i] \in 0..count
         /\ \A v : \A i \in Members(v) : i \in 1..Seen /\ i < Seen + 1
         /\ File # Missing => File \in Nat
<1>1. /\ volumeOf \in Seq(0..count) /\ count \in Nat
      /\ flist \in Seq(Sizes \cup {Missing}) /\ Sizes \subseteq Nat
  BY VolumesAssumption DEF VInv, TypeOK
<1>2. Seen \in Nat /\ DOMAIN volumeOf = 1..Seen /\ \A i \in 1..Seen : volumeOf[i] \in 0..count
  BY <1>1 DEF Seen
<1>3. Seen + 1 \in 1..Len(flist) BY <1>1, <1>2
<1>4. File \in Sizes \cup {Missing} BY <1>1, <1>3 DEF File
<1> QED BY <1>1, <1>2, <1>4 DEF Members

(* Dealing one more file out to volume u, or to none.                        *)
LEMMA Dealt ==
  ASSUME VInv, Seen < Len(flist), NEW u \in Nat, volumeOf' = Append(volumeOf, u),
         flist' = flist, u # 0 <=> File # Missing
  PROVE  /\ Seen' = Seen + 1 /\ Seen \in Nat
         /\ \A i \in 1..Seen : volumeOf'[i] = volumeOf[i]
         /\ volumeOf'[Seen + 1] = u
         /\ \A v \in Nat \ {0} :
              /\ Members(v)' = IF v = u THEN Members(v) \cup {Seen + 1} ELSE Members(v)
              /\ VolumeSize(v) \in Nat
              /\ VolumeSize(v) = 0 => \A j \in Members(v) : flist[j] = 0
              /\ VolumeSize(v)' = VolumeSize(v) + IF v = u THEN File ELSE 0
<1>1. /\ volumeOf \in Seq(0..count) /\ count \in Nat
      /\ flist \in Seq(Sizes \cup {Missing}) /\ Sizes \subseteq Nat
  BY VolumesAssumption DEF VInv, TypeOK
<1>2. Seen' = Seen + 1 /\ Seen \in Nat BY <1>1 DEF Seen
<1>3. (\A i \in 1..Seen : volumeOf'[i] = volumeOf[i]) /\ volumeOf'[Seen + 1] = u
  BY <1>1 DEF Seen
<1>4. DOMAIN volumeOf = 1..Seen /\ DOMAIN volumeOf' = 1..(Seen + 1)
  BY <1>1 DEF Seen
<1>5. ASSUME NEW v \in Nat \ {0}
      PROVE  Members(v)' = IF v = u THEN Members(v) \cup {Seen + 1} ELSE Members(v)
  BY <1>2, <1>3, <1>4 DEF Members
<1>6. ASSUME NEW v \in Nat \ {0}, NEW j \in 1..Seen, volumeOf[j] = v
      PROVE  flist[j] \in Nat
  <2>1. flist[j] # Missing BY <1>4, <1>6 DEF VInv, Partition
  <2>2. j \in 1..Len(flist) BY <1>1, <1>2 DEF Seen
  <2>3. flist[j] \in Sizes \cup {Missing} BY <1>1, <2>2
  <2> QED BY <1>1, <2>1, <2>3
<1>7. ASSUME NEW v \in Nat \ {0}
      PROVE  /\ VolumeSize(v) \in Nat
             /\ VolumeSize(v) = 0 => \A j \in Members(v) : flist[j] = 0
  <2>1. VolumeSize(v) = SizeOf(flist, volumeOf, v, Seen)
    BY SizeUpToIsSizeOf DEF VolumeSize
  <2>2. /\ SizeOf(flist, volumeOf, v, Seen) \in Nat
        /\ SizeOf(flist, volumeOf, v, Seen) = 0 =>
             \A j \in 1..Seen : volumeOf[j] = v => flist[j] = 0
    BY <1>2, <1>6, SizeOfType
  <2> QED BY <2>1, <2>2, <1>4 DEF Members
<1>8. ASSUME NEW v \in Nat \ {0}
      PROVE  VolumeSize(v)' = VolumeSize(v) + IF v = u THEN File ELSE 0
  <2>1. VolumeSize(v) = SizeOf(flist, volumeOf, v, Seen)
    BY SizeUpToIsSizeOf DEF VolumeSize
  <2>2. VolumeSize(v)' = SizeOf(flist', volumeOf', v, Seen')
    BY DEF VolumeSize, SizeUpTo, SizeOf
  <2>3. SizeOf(flist, volumeOf', v, Seen + 1) =
          SizeOf(flist, volumeOf', v, Seen) + IF v = u THEN File ELSE 0
    <3>1. Share(flist, volumeOf', v, Seen + 1) = IF v = u THEN File ELSE 0
      BY <1>3 DEF Share, File
    <3> QED BY <1>2, <3>1, SizeOfNext
  <2>4. SizeOf(flist, volumeOf', v, Seen) = SizeOf(flist, volumeOf, v, Seen)
    <3>1. \A j \in 1..Seen : volumeOf'[j] = volumeOf[j] BY <1>3
    <3>2. Seen \in Nat BY <1>2
    <3> HIDE DEF Seen
    <3> QED BY ONLY <3>1, <3>2, SizeOfSame
  <2> QED BY <1>2, <2>1, <2>2, <2>3, <2>4
<1> QED BY <1>2, <1>3, <1>5, <1>7, <1>8

(* The step to the next file keeps the types, the bounds and the partition.  *)
LEMMA DealtPartition ==
  ASSUME VInv, Seen < Len(flist), NEW u \in Nat, volumeOf' = Append(volumeOf, u),
         UNCHANGED <<flist, zipped, phase>>, u # 0 <=> File # Missing,
         u \in {0, count, count + 1}, count' = IF u = count + 1 THEN count + 1 ELSE count,
         curSize' \in Nat
  PROVE  (TypeOK /\ Bounded /\ Partition)'
<1>1. /\ volumeOf \in Seq(0..count) /\ count \in Nat /\ zipped \in 0..count
      /\ flist \in Seq(Sizes \cup {Missing})
      /\ phase \in {"split", "zip", "ok", "error"}
      /\ Len(flist) <= MaxFiles /\ count <= Len(volumeOf)
  BY DEF VInv, TypeOK, Bounded, Seen
<1>2. /\ Seen' = Seen + 1 /\ Seen \in Nat
      /\ \A i \in 1..Seen : volumeOf'[i] = volumeOf[i]
      /\ volumeOf'[Seen + 1] = u
      /\ \A v \in Nat \ {0} :
           Members(v)' = IF v = u THEN Members(v) \cup {Seen + 1} ELSE Members(v)
  BY Dealt
<1>3. count' \in Nat /\ count <= count' /\ u <= count' BY <1>1
<1>4. DOMAIN volumeOf = 1..Seen /\ DOMAIN volumeOf' = 1..(Seen + 1)
  BY <1>1 DEF Seen
<1>5. TypeOK'
  <2>1. volumeOf' \in Seq(0..count')
    <3>1. volumeOf \in Seq(0..count')
      <4>1. 0..count \subseteq 0..count' BY <1>1, <1>3
      <4> QED BY <1>1, <4>1, SeqMonotonic
    <3> QED BY <3>1, <1>3
  <2>2. Len(volumeOf') <= Len(flist') BY <1>1, <1>2 DEF Seen
  <2>3. zipped' \in 0..count' BY <1>1, <1>3
  <2> QED BY <1>1, <1>3, <2>1, <2>2, <2>3 DEF TypeOK
<1>6. Bounded' BY <1>1, <1>2, <1>3 DEF Bounded, Seen
<1>7. \A i \in DOMAIN volumeOf' : volumeOf'[i] = 0 <=> flist'[i] = Missing
  BY <1>2, <1>4 DEF VInv, Partition, File
<1>8. ASSUME NEW i \in DOMAIN volumeOf', NEW j \in DOMAIN volumeOf', i < j, volumeOf'[j] # 0
      PROVE  volumeOf'[i] <= volumeOf'[j]
  <2>1. i \in 1..Seen /\ i \in DOMAIN volumeOf /\ volumeOf'[i] = volumeOf[i]
    BY <1>2, <1>4, <1>8
  <2>2. volumeOf[i] \in 0..count BY <1>1, <2>1
  <2>3. CASE j = Seen + 1
    <3>1. volumeOf'[j] = u /\ u # 0 /\ count <= u
      <4>1. volumeOf'[j] = u BY <1>2, <2>3
      <4> QED BY <4>1, <1>1, <1>8
    <3> QED BY <1>1, <2>1, <2>2, <3>1
  <2>4. CASE j \in 1..Seen
    BY <1>2, <1>4, <1>8, <2>1, <2>4 DEF VInv, Partition
  <2> QED BY <1>2, <1>4, <2>3, <2>4
<1>9. ASSUME NEW v \in 1..count' PROVE Members(v)' # {}
  <2>1. v \in 1..count \/ v = u BY <1>1
  <2>2. Members(v)' = IF v = u THEN Members(v) \cup {Seen + 1} ELSE Members(v)
    BY <1>2
  <2> QED BY <2>1, <2>2 DEF VInv, Partition
<1> QED BY <1>5, <1>6, <1>7, <1>8, <1>9 DEF Partition

LEMMA SkipInv == VInv /\ Skip => VInv'
<1> SUFFICES ASSUME VInv, Skip PROVE VInv' OBVIOUS
<1>1. /\ Seen < Len(flist) /\ volumeOf' = Append(volumeOf, 0) /\ File = Missing
      /\ UNCHANGED <<flist, count, curSize, zipped, phase>>
      /\ count \in Nat /\ curSize \in Nat
  BY DEF Skip, VInv, TypeOK
<1>2. (TypeOK /\ Bounded /\ Partition)' BY <1>1, DealtPartition
<1>3. \A v \in Nat \ {0} : /\ Members(v)' = Members(v)
                           /\ VolumeSize(v) \in Nat /\ VolumeSize(v)' = VolumeSize(v)
  BY <1>1, Dealt
<1>4. CurSizeRight' BY <1>1, <1>3 DEF VInv, CurSizeRight
<1>5. OverfullOnlyAlone' BY <1>1, <1>3 DEF VInv, OverfullOnlyAlone
<1>6. NoEarlySplit' BY <1>1, <1>3 DEF VInv, NoEarlySplit, First
<1> QED BY <1>2, <1>4, <1>5, <1>6 DEF VInv

LEMMA ExtendInv == VInv /\ Extend => VInv'
<1> SUFFICES ASSUME VInv, Extend PROVE VInv' OBVIOUS
<1> USE VolumesAssumption
<1>1. /\ Seen < Len(flist) /\ volumeOf' = Append(volumeOf, count) /\ File # Missing
      /\ count # 0 /\ (curSize + File >= MaxVolSize => ~ (curSize > 0))
      /\ curSize' = curSize + File
      /\ UNCHANGED <<flist, count, zipped, phase>>
      /\ count \in Nat /\ curSize \in Nat
  BY DEF Extend, NeedsNewVolume, VInv, TypeOK
<1>2. /\ File \in Nat /\ Seen \in Nat
      /\ \A v : \A i \in Members(v) : i \in 1..Seen /\ i < Seen + 1
  BY <1>1, FileFacts
<1>3. (TypeOK /\ Bounded /\ Partition)' BY <1>1, <1>2, DealtPartition
<1>c. PICK c \in Nat \ {0} : c = count BY <1>1
<1>4. \A v \in Nat \ {0} :
        /\ Members(v)' = IF v = c THEN Members(v) \cup {Seen + 1} ELSE Members(v)
        /\ VolumeSize(v) \in Nat
        /\ VolumeSize(v) = 0 => \A j \in Members(v) : flist[j] = 0
        /\ VolumeSize(v)' = VolumeSize(v) + IF v = c THEN File ELSE 0
  BY <1>1, <1>c, Dealt
<1>5. curSize = VolumeSize(c) BY <1>1, <1>c DEF VInv, CurSizeRight
<1>10. count' = c /\ flist' = flist BY <1>1, <1>c
<1>6. CurSizeRight'
  <2>1. VolumeSize(c)' = curSize' BY <1>1, <1>4, <1>5
  <2> QED BY <2>1, <1>10 DEF CurSizeRight
<1>7. ASSUME NEW v \in 1..c, VolumeSize(v)' >= MaxVolSize
      PROVE  \E i \in Members(v)' :
               /\ flist[i] >= MaxVolSize
               /\ \A j \in Members(v)' \ {i} : flist[j] = 0 /\ j < i
  <2>1. CASE v = c
    <3>1. VolumeSize(c)' = VolumeSize(c) + File BY <1>4
    <3>2. curSize = 0 /\ File >= MaxVolSize BY <1>1, <1>2, <1>5, <1>7, <2>1, <3>1
    <3>3. Members(c)' = Members(c) \cup {Seen + 1} BY <1>4
    <3>4. \A j \in Members(c) : flist[j] = 0 BY <1>4, <1>5, <3>2
    <3>5. \A j \in Members(c) : j < Seen + 1 BY <1>2
    <3>6. flist[Seen + 1] >= MaxVolSize BY <3>2 DEF File
    <3> QED BY <2>1, <3>3, <3>4, <3>5, <3>6
  <2>2. CASE v # c
    BY <1>c, <1>4, <1>7, <2>2 DEF VInv, OverfullOnlyAlone
  <2> QED BY <2>1, <2>2
<1>8. ASSUME NEW v \in 2..c, NEW i \in Members(v)', \A j \in Members(v)' : i <= j
      PROVE  VolumeSize(v - 1)' + flist[i] >= MaxVolSize
  <2>1. VolumeSize(v - 1)' = VolumeSize(v - 1)
    <3>1. v - 1 \in Nat \ {0} /\ v - 1 # c BY <1>c
    <3> QED BY <1>4, <3>1
  <2>2. i \in Members(v) /\ \A j \in Members(v) : i <= j
    <3>1. PICK k \in Members(v) : TRUE BY <1>c DEF VInv, Partition
    <3>2. k < Seen + 1 /\ Seen \in Nat /\ k \in 1..Seen BY <1>2
    <3>3. Members(v) \subseteq Members(v)' /\ Members(v)' \subseteq Members(v) \cup {Seen + 1}
      BY <1>4
    <3>4. i # Seen + 1 BY <1>8, <3>1, <3>2, <3>3
    <3> QED BY <1>8, <3>3, <3>4
  <2> QED BY <1>c, <2>1, <2>2 DEF VInv, NoEarlySplit, First
<1>11. OverfullOnlyAlone' BY <1>7, <1>10 DEF OverfullOnlyAlone
<1>12. NoEarlySplit' BY <1>8, <1>10 DEF NoEarlySplit, First
<1> QED BY <1>3, <1>6, <1>11, <1>12 DEF VInv

LEMMA BeginInv == VInv /\ Begin => VInv'
<1> SUFFICES ASSUME VInv, Begin PROVE VInv' OBVIOUS
<1> USE VolumesAssumption
<1>1. /\ Seen < Len(flist) /\ volumeOf' = Append(volumeOf, count + 1) /\ File # Missing
      /\ count = 0 \/ curSize + File >= MaxVolSize
      /\ count' = count + 1 /\ curSize' = File
      /\ UNCHANGED <<flist, zipped, phase>>
      /\ count \in Nat /\ curSize \in Nat
  BY DEF Begin, NeedsNewVolume, VInv, TypeOK
<1>2. /\ File \in Nat /\ Seen \in Nat /\ DOMAIN volumeOf = 1..Seen
      /\ \A i \in 1..Seen : volumeOf[i] \in 0..count
  BY <1>1, FileFacts
<1>c. PICK c \in Nat : c = count + 1 BY <1>1
<1>3. (TypeOK /\ Bounded /\ Partition)' BY <1>1, <1>2, DealtPartition
<1>4. /\ \A v \in Nat \ {0} :
           /\ Members(v)' = IF v = c THEN Members(v) \cup {Seen + 1} ELSE Members(v)
           /\ VolumeSize(v) \in Nat
           /\ VolumeSize(v)' = VolumeSize(v) + IF v = c THEN File ELSE 0
  BY <1>1, <1>c, Dealt
<1>5. Members(c) = {} /\ VolumeSize(c) = 0
  <2>1. \A i \in 1..Seen : volumeOf[i] # c BY <1>1, <1>2, <1>c
  <2>2. SizeOf(flist, volumeOf, c, Seen) = 0 BY <1>2, <2>1, SizeOfNone
  <2> QED BY <1>2, <2>1, <2>2, SizeUpToIsSizeOf DEF Members, VolumeSize
<1>6. Members(c)' = {Seen + 1} /\ VolumeSize(c)' = File
  BY <1>1, <1>2, <1>4, <1>5, <1>c
<1>7. CurSizeRight'
  <2>1. count' = c /\ c # 0 BY <1>1, <1>c
  <2> QED BY <1>1, <1>6, <2>1 DEF CurSizeRight
<1>8. ASSUME NEW v \in 1..c, VolumeSize(v)' >= MaxVolSize
      PROVE  \E i \in Members(v)' :
               /\ flist[i] >= MaxVolSize
               /\ \A j \in Members(v)' \ {i} : flist[j] = 0 /\ j < i
  <2>1. CASE v = c
    <3>1. flist[Seen + 1] >= MaxVolSize BY <1>6, <1>8, <2>1 DEF File
    <3> QED BY <1>6, <2>1, <3>1
  <2>2. CASE v # c
    BY <1>1, <1>c, <1>4, <1>8, <2>2 DEF VInv, OverfullOnlyAlone
  <2> QED BY <2>1, <2>2
<1>9. ASSUME NEW v \in 2..c, NEW i \in Members(v)', \A j \in Members(v)' : i <= j
      PROVE  VolumeSize(v - 1)' + flist[i] >= MaxVolSize
  <2>1. VolumeSize(v - 1)' = VolumeSize(v - 1)
    <3>1. v - 1 \in Nat \ {0} /\ v - 1 # c BY <1>c
    <3> QED BY <1>4, <3>1
  <2>2. CASE v = c
    <3>1. i = Seen + 1 BY <1>6, <1>9, <2>2
    <3>2. v - 1 = count /\ count # 0 BY <1>1, <1>c, <2>2
    <3>3. VolumeSize(v - 1) = curSize BY <3>2 DEF VInv, CurSizeRight
    <3> QED BY <1>1, <2>1, <3>1, <3>2, <3>3 DEF File
  <2>3. CASE v # c
    <3>1. Members(v)' = Members(v) /\ v \in 2..count BY <1>1, <1>c, <1>4, <2>3
    <3> QED BY <1>9, <2>1, <3>1 DEF VInv, NoEarlySplit, First
  <2> QED BY <2>2, <2>3
<1>10. count' = c /\ flist' = flist BY <1>1, <1>c
<1>11. OverfullOnlyAlone' BY <1>8, <1>10 DEF OverfullOnlyAlone
<1>12. NoEarlySplit' BY <1>9, <1>10 DEF NoEarlySplit, First
<1> QED BY <1>3, <1>7, <1>11, <1>12 DEF VInv

LEMMA StepVInv == VInv /\ [Next]_vars => VInv'
<1> SUFFICES ASSUME VInv, [Next]_vars PROVE VInv' OBVIOUS
<1>1. CASE SplitDone \/ Zip \/ ZipFails \/ ZipDone \/ UNCHANGED vars
  <2>1. /\ UNCHANGED <<flist, volumeOf, count, curSize>>
        /\ zipped' \in 0..count /\ phase' \in {"split", "zip", "ok", "error"}
    BY <1>1 DEF SplitDone, Zip, ZipFails, ZipDone, vars, VInv, TypeOK
  <2>2. \A v : Members(v)' = Members(v) /\ VolumeSize(v)' = VolumeSize(v)
    BY <2>1 DEF Members, VolumeSize, SizeUpTo, Seen
  <2>3. (TypeOK /\ Bounded /\ Partition)'
    BY <2>1, <2>2 DEF VInv, TypeOK, Bounded, Seen, Partition
  <2>5. CurSizeRight' BY <2>1, <2>2 DEF VInv, CurSizeRight
  <2>6. OverfullOnlyAlone' BY <2>1, <2>2 DEF VInv, OverfullOnlyAlone
  <2>7. NoEarlySplit' BY <2>1, <2>2 DEF VInv, NoEarlySplit, First
  <2> QED BY <2>3, <2>5, <2>6, <2>7 DEF VInv
<1> QED BY <1>1, SkipInv, ExtendInv, BeginInv DEF Next

LEMMA VInvariance == Spec => []VInv
BY InitVInv, StepVInv, PTL DEF Spec

-----------------------------------------------------------------------------
(* The steps of a call of FCompress are a step of FCompressVol at the end,   *)
(* and no step of it before.                                                *)
LEMMA StepRefines == [ANext]_avars => [Next]_vars
<1> SUFFICES ASSUME [ANext]_avars PROVE [Next]_vars OBVIOUS
<1>1. CASE UNCHANGED avars BY <1>1 DEF avars, vars
<1>2. CASE Create \/ OpenMember \/ OpenMemberFails \/ WriteMember \/ WriteMemberFails
           \/ MembersDone \/ Finalize \/ FinalizeFails
  BY <1>2 DEF Create, OpenMember, OpenMemberFails, WriteMember, WriteMemberFails, MembersDone,
       Finalize, FinalizeFails
<1>3. CASE CreateFails \/ Remove BY <1>3 DEF CreateFails, Remove, Next
<1>4. CASE Close BY <1>4 DEF Close, Next
<1>5. CASE Skip \/ Extend \/ Begin \/ SplitDone \/ ZipDone BY <1>5 DEF Next
<1> QED BY <1>1, <1>2, <1>3, <1>4, <1>5 DEF ANext, FCompress

-----------------------------------------------------------------------------
(* The calls                                                                *)

CallTyped ==
  /\ step \in {"idle", "member", "copy", "finalize", "close"}
  /\ err \in {"nil", "failed"}
  /\ disk \in [Paths -> {"none", "partial", "final", "whole", "stuck"}]
  /\ inside \in [Paths -> SUBSET Paths]

(* A call is under way only in the second loop, for a volume there is.       *)
CallInLoop ==
  /\ step # "idle" => phase = "zip" /\ zipped < count
  /\ phase = "split" => zipped = 0

Done(v) == disk[v] = "whole" /\ inside[v] = Members(v)

Untouched(v) == disk[v] = "none" /\ inside[v] = {}

(* The volumes before the one at hand, that one, and those after it.         *)
DoneBefore == \A v \in Paths : v <= zipped => Done(v)

AtHand ==
  \A v \in Paths : v = zipped + 1 =>
    /\ step = "idle" => IF phase = "error" THEN disk[v] \in {"none", "stuck"}
                        ELSE Untouched(v)
    /\ step \in {"member", "copy", "finalize"} => disk[v] = "partial"
    /\ step = "close" /\ err = "nil" => disk[v] = "final"
    /\ step # "idle" => inside[v] \subseteq Members(v)
    /\ step \in {"finalize", "close"} /\ err = "nil" => inside[v] = Members(v)
    /\ step = "copy" => input \in Members(v)

UntouchedAfter == \A v \in Paths : v > zipped + 1 => Untouched(v)

(* Nothing has failed before the members are through, and a member is open   *)
(* only while it is copied.                                                 *)
Quiet ==
  /\ step \in {"member", "copy"} => err = "nil"
  /\ step # "copy" => input = 0

AInv == CallTyped /\ CallInLoop /\ DoneBefore /\ AtHand /\ UntouchedAfter /\ Quiet

LEMMA InitAInv == AInit => AInv
<1> SUFFICES ASSUME AInit PROVE AInv OBVIOUS
<1>1. zipped = 0 /\ phase = "split" BY DEF AInit, Init
<1> QED BY <1>1, VolumesAssumption
     DEF AInit, AInv, CallTyped, CallInLoop, DoneBefore, AtHand, UntouchedAfter, Untouched, Quiet,
         Paths

(* The volume a call is for is one of the paths, and its members are too.    *)
LEMMA VolumeIsPath ==
  ASSUME VInv
  PROVE  /\ zipped \in Nat /\ count \in Nat /\ zipped <= count
         /\ zipped < count => Volume \in Paths
         /\ \A v : Members(v) \in SUBSET Paths
<1>1. /\ volumeOf \in Seq(0..count) /\ count \in Nat /\ zipped \in 0..count
      /\ Len(volumeOf) <= Len(flist) /\ Len(flist) <= MaxFiles /\ count <= Len(volumeOf)
      /\ MaxFiles \in Nat /\ flist \in Seq(Sizes \cup {Missing})
  BY VolumesAssumption DEF VInv, TypeOK, Bounded, Seen
<1> QED BY <1>1 DEF Volume, Paths, Members

LEMMA NextMemberIsTodo ==
  ASSUME VInv, Todo # {}
  PROVE  NextMember \in Todo
<1>1. Todo \subseteq Nat BY VolumeIsPath DEF Todo, Members, Paths
<1>2. \E x \in Todo : \A y \in Todo : x <= y
  <2> HIDE DEF Todo
  <2> QED BY <1>1, Least
<1> QED BY <1>2 DEF NextMember

(* Where no volume is touched, nor dealt to, everything stays as it is.      *)
LEMMA ElsewhereInv ==
  ASSUME VInv, AInv, UNCHANGED callVars,
         Skip \/ Extend \/ Begin \/ SplitDone \/ ZipDone
  PROVE  AInv'
<1>1. UNCHANGED <<step, err, input, disk, inside>> BY DEF callVars
<1>2. /\ phase \in {"split", "zip"} /\ phase' \in {"split", "zip", "ok"}
      /\ step = "idle" /\ zipped' = zipped
      /\ phase' = "split" => phase = "split"
      /\ phase # "split" => volumeOf' = volumeOf
      /\ phase = "split" => zipped = 0
  BY VolumeIsPath DEF Skip, Extend, Begin, SplitDone, ZipDone, AInv, CallInLoop
<1>3. DoneBefore'
  <2>1. CASE phase = "split" BY <1>2, <2>1 DEF DoneBefore, Paths
  <2>2. CASE phase # "split"
    BY <1>1, <1>2, <2>2 DEF AInv, DoneBefore, Done, Members
  <2> QED BY <2>1, <2>2
<1>4. (AtHand /\ UntouchedAfter)'
  BY <1>1, <1>2 DEF AInv, AtHand, UntouchedAfter, Untouched
<1>5. (CallTyped /\ CallInLoop /\ Quiet)'
  BY <1>1, <1>2 DEF AInv, CallTyped, CallInLoop, Quiet
<1> QED BY <1>3, <1>4, <1>5 DEF AInv

(* A step inside a call leaves the split and the other volumes alone.        *)
LEMMA InsideInv ==
  ASSUME VInv, AInv,
         \/ Create \/ OpenMember \/ OpenMemberFails \/ WriteMember \/ WriteMemberFails
         \/ MembersDone \/ Finalize \/ FinalizeFails
  PROVE  AInv'
<1> DEFINE Act == \/ Create \/ OpenMember \/ OpenMemberFails \/ WriteMember \/ WriteMemberFails
                  \/ MembersDone \/ Finalize \/ FinalizeFails
<1>1. /\ UNCHANGED <<flist, volumeOf, count, curSize, zipped, phase>>
      /\ phase = "zip" /\ step' # "idle"
      /\ step = "idle" => zipped < count
  BY DEF Create, OpenMember, OpenMemberFails, WriteMember, WriteMemberFails, MembersDone,
       Finalize, FinalizeFails, At, vars
<1>2. \A v : Members(v)' = Members(v) BY <1>1 DEF Members
<1>3. zipped < count /\ zipped \in Nat BY <1>1, VolumeIsPath DEF AInv, CallInLoop
<1>4. PICK c \in Paths : c = zipped + 1 /\ c = Volume
  BY <1>3, VolumeIsPath DEF Volume
<1>5. Members(c) \in SUBSET Paths BY VolumeIsPath
<1>6. Todo = Members(c) \ inside[c] BY <1>4 DEF Todo, Members
<1>7. CallInLoop' BY <1>1, <1>3 DEF CallInLoop
<1>t. /\ disk \in [Paths -> {"none", "partial", "final", "whole", "stuck"}]
      /\ inside \in [Paths -> SUBSET Paths] /\ err \in {"nil", "failed"}
  BY DEF AInv, CallTyped
<1>a. /\ step = "idle" => disk[c] = "none" /\ inside[c] = {}
      /\ step \in {"member", "copy", "finalize"} => disk[c] = "partial"
      /\ step # "idle" => inside[c] \subseteq Members(c)
      /\ step \in {"finalize", "close"} /\ err = "nil" => inside[c] = Members(c)
      /\ step = "copy" => input \in Members(c)
      /\ step \in {"member", "copy"} => err = "nil"
      /\ step # "copy" => input = 0
  BY <1>1, <1>4 DEF AInv, AtHand, Untouched, Quiet
<1>8. /\ CallTyped'
      /\ step' \in {"member", "copy", "finalize"} => disk'[c] = "partial"
      /\ step' = "close" => (err' = "nil" => disk'[c] = "final")
      /\ inside'[c] \subseteq Members(c)
      /\ step' \in {"finalize", "close"} /\ err' = "nil" => inside'[c] = Members(c)
      /\ step' = "copy" => input' \in Members(c)
      /\ step' \in {"member", "copy"} => err' = "nil"
      /\ step' # "copy" => input' = 0
      /\ \A v \in Paths \ {c} : disk'[v] = disk[v] /\ inside'[v] = inside[v]
  <2>1. CASE Create
    BY <1>4, <1>t, <1>a, <2>1 DEF Create, At, CallTyped
  <2>2. CASE OpenMember
    <3>1. Todo # {} /\ input' = NextMember BY <2>2 DEF OpenMember
    <3>2. NextMember \in Todo BY <3>1, NextMemberIsTodo
    <3>3. input' \in Members(c) BY <1>6, <3>1, <3>2
    <3> QED BY <1>4, <1>t, <1>a, <2>2, <3>3 DEF OpenMember, At, CallTyped
  <2>3. CASE OpenMemberFails
    BY <1>4, <1>t, <1>a, <2>3 DEF OpenMemberFails, At, CallTyped
  <2>4. CASE WriteMember
    BY <1>4, <1>5, <1>t, <1>a, <2>4 DEF WriteMember, At, CallTyped
  <2>5. CASE WriteMemberFails
    BY <1>4, <1>t, <1>a, <2>5 DEF WriteMemberFails, At, CallTyped
  <2>6. CASE MembersDone
    BY <1>4, <1>6, <1>t, <1>a, <2>6 DEF MembersDone, At, CallTyped
  <2>7. CASE Finalize
    BY <1>4, <1>t, <1>a, <2>7 DEF Finalize, At, CallTyped
  <2>8. CASE FinalizeFails
    BY <1>4, <1>t, <1>a, <2>8 DEF FinalizeFails, At, CallTyped
  <2> QED BY <2>1, <2>2, <2>3, <2>4, <2>5, <2>6, <2>7, <2>8
<1>9. (DoneBefore /\ UntouchedAfter)'
  <2>1. \A v \in Paths : v <= zipped \/ v > zipped + 1 => v # c BY <1>3, <1>4 DEF Paths
  <2> QED BY <1>1, <1>2, <1>8, <2>1
       DEF AInv, DoneBefore, UntouchedAfter, Done, Untouched
<1>10. AtHand'
  <2>1. \A v : v = zipped' + 1 => v = c BY <1>1, <1>4
  <2> QED BY <1>1, <1>2, <1>8, <2>1 DEF AtHand
<1>11. Quiet' BY <1>8 DEF Quiet
<1> QED BY <1>7, <1>8, <1>9, <1>10, <1>11 DEF AInv

(* The ends of a call: the volume is done, or the archives are given up.     *)
LEMMA CloseInv == VInv /\ AInv /\ Close => AInv'
<1> SUFFICES ASSUME VInv, AInv, Close PROVE AInv' OBVIOUS
<1>1. /\ UNCHANGED <<flist, volumeOf, count, phase, err, input, inside>>
      /\ phase = "zip" /\ step = "close" /\ step' = "idle" /\ err = "nil"
      /\ zipped < count /\ zipped' = zipped + 1
      /\ disk' = [disk EXCEPT ![Volume] = IF @ = "final" THEN "whole" ELSE @]
  BY DEF Close, Zip, At
<1>2. \A v : Members(v)' = Members(v) BY <1>1 DEF Members
<1>3. zipped \in Nat BY VolumeIsPath
<1>4. PICK c \in Paths : c = zipped + 1 /\ c = Volume
  BY <1>1, <1>3, VolumeIsPath DEF Volume
<1>5. disk \in [Paths -> {"none", "partial", "final", "whole", "stuck"}]
  BY DEF AInv, CallTyped
<1>6. disk[c] = "final" /\ inside[c] = Members(c) /\ input = 0
  BY <1>1, <1>4 DEF AInv, AtHand, Quiet
<1>7. disk'[c] = "whole" /\ \A v \in Paths \ {c} : disk'[v] = disk[v]
  BY <1>1, <1>4, <1>5, <1>6
<1>8. (CallTyped /\ CallInLoop /\ Quiet)'
  BY <1>1, <1>4, <1>5, <1>6 DEF AInv, CallTyped, CallInLoop, Quiet
<1>9. DoneBefore'
  <2>1. \A v \in Paths : v <= zipped' => v = c \/ v <= zipped BY <1>1, <1>3, <1>4 DEF Paths
  <2>2. \A v \in Paths : v <= zipped => v # c BY <1>3, <1>4 DEF Paths
  <2> QED BY <1>1, <1>2, <1>6, <1>7, <2>1, <2>2 DEF AInv, DoneBefore, Done
<1>10. (AtHand /\ UntouchedAfter)'
  <2>1. \A v \in Paths : v = zipped' + 1 \/ v > zipped' + 1 => v > zipped + 1 /\ v # c
    BY <1>1, <1>3, <1>4 DEF Paths
  <2>2. \A v \in Paths : v = zipped' + 1 \/ v > zipped' + 1 => Untouched(v)'
    BY <1>1, <1>7, <2>1 DEF AInv, UntouchedAfter, Untouched
  <2> QED BY <1>1, <2>2 DEF AtHand, UntouchedAfter
<1> QED BY <1>8, <1>9, <1>10 DEF AInv

LEMMA GiveUpInv == VInv /\ AInv /\ (CreateFails \/ Remove) => AInv'
<1> SUFFICES ASSUME VInv, AInv, CreateFails \/ Remove PROVE AInv' OBVIOUS
<1>1. /\ UNCHANGED <<flist, volumeOf, count, zipped, input, inside>>
      /\ phase = "zip" /\ phase' = "error" /\ step' = "idle" /\ zipped < count
      /\ step \in {"idle", "close"} /\ err' \in {err, "failed"}
  BY DEF CreateFails, Remove, ZipFails, At, callVars
<1>2. \A v : Members(v)' = Members(v) BY <1>1 DEF Members
<1>3. zipped \in Nat BY VolumeIsPath
<1>4. PICK c \in Paths : c = zipped + 1 /\ c = Volume
  BY <1>1, <1>3, VolumeIsPath DEF Volume
<1>5. disk \in [Paths -> {"none", "partial", "final", "whole", "stuck"}]
  BY DEF AInv, CallTyped
<1>6. /\ disk' \in [Paths -> {"none", "partial", "final", "whole", "stuck"}]
      /\ disk'[c] \in {"none", "stuck"}
      /\ \A v \in Paths \ {c} : disk'[v] = disk[v]
  <2>1. CASE CreateFails
    <3>1. disk[c] = "none" BY <1>1, <1>4, <2>1 DEF CreateFails, AInv, AtHand, Untouched
    <3> QED BY <1>5, <2>1, <3>1 DEF CreateFails, callVars
  <2>2. CASE Remove BY <1>4, <1>5, <2>2 DEF Remove
  <2> QED BY <2>1, <2>2
<1>7. (CallTyped /\ CallInLoop /\ Quiet)'
  BY <1>1, <1>6 DEF AInv, CallTyped, CallInLoop, Quiet
<1>8. (DoneBefore /\ UntouchedAfter)'
  <2>1. \A v \in Paths : v <= zipped \/ v > zipped + 1 => v # c BY <1>3, <1>4 DEF Paths
  <2> QED BY <1>1, <1>2, <1>6, <2>1
       DEF AInv, DoneBefore, UntouchedAfter, Done, Untouched
<1>9. AtHand' BY <1>1, <1>4, <1>6 DEF AtHand
<1> QED BY <1>7, <1>8, <1>9 DEF AInv

LEMMA StepAInv == VInv /\ AInv /\ [ANext]_avars => AInv'
<1> SUFFICES ASSUME VInv, AInv, [ANext]_avars PROVE AInv' OBVIOUS
<1>1. CASE UNCHANGED avars
  BY <1>1 DEF avars, AInv, CallTyped, CallInLoop, DoneBefore, AtHand, UntouchedAfter, Quiet,
       Done, Untouched, Members
<1>2. CASE (Skip \/ Extend \/ Begin \/ SplitDone \/ ZipDone) /\ UNCHANGED callVars
  BY <1>2, ElsewhereInv
<1>3. CASE FCompress BY <1>3, InsideInv, CloseInv, GiveUpInv DEF FCompress
<1> QED BY <1>1, <1>2, <1>3 DEF ANext

LEMMA AInvariance == ASpec => [](VInv /\ AInv)
<1>1. AInit => Init BY DEF AInit
<1>2. VInv /\ AInv /\ [ANext]_avars => (VInv /\ AInv)' BY StepRefines, StepVInv, StepAInv
<1>3. AInit => VInv /\ AInv BY <1>1, InitVInv, InitAInv
<1> QED BY <1>2, <1>3, PTL DEF ASpec

-----------------------------------------------------------------------------
(* FCompressVol whose volumes are written member by member is FCompressVol.  *)
THEOREM RefinesVolumes == ASpec => Spec
<1>1. AInit => Init BY DEF AInit
<1> QED BY <1>1, StepRefines, PTL DEF ASpec, Spec

(* Every variable keeps its type.                                            *)
THEOREM TypeCorrect == ASpec => []ATypeOK
<1>1. VInv /\ AInv => ATypeOK
  <2> SUFFICES ASSUME VInv, AInv PROVE ATypeOK OBVIOUS
  <2>1. input \in 0..MaxFiles
    <3>1. MaxFiles \in Nat BY VolumesAssumption
    <3>2. CASE step # "copy" BY <3>1, <3>2 DEF AInv, Quiet
    <3>3. CASE step = "copy"
      <4>1. zipped + 1 \in Paths BY <3>3, VolumeIsPath DEF AInv, CallInLoop, Volume
      <4>2. input \in Paths BY <3>3, <4>1, VolumeIsPath DEF AInv, AtHand
      <4> QED BY <3>1, <4>2 DEF Paths
    <3> QED BY <3>2, <3>3
  <2> QED BY <2>1 DEF VInv, AInv, CallTyped, ATypeOK
<1> QED BY <1>1, AInvariance, PTL

(* Every file that is there is in one volume, in order, and none is empty.   *)
THEOREM VolumesPartition == ASpec => []Partition
<1>1. VInv => Partition BY DEF VInv
<1> QED BY <1>1, AInvariance, PTL

(* Only a file that is too large by itself makes a volume too large, and it  *)
(* has only empty files beside it.                                          *)
THEOREM OverfullIsAlone == ASpec => []OverfullOnlyAlone
<1>1. VInv => OverfullOnlyAlone BY DEF VInv
<1> QED BY <1>1, AInvariance, PTL

(* A volume is begun only for a file that would bring the one before it to   *)
(* the limit, exactly or beyond.                                           *)
THEOREM SplitIsNotEarly == ASpec => []NoEarlySplit
<1>1. VInv => NoEarlySplit BY DEF VInv
<1> QED BY <1>1, AInvariance, PTL

(* Whatever call of the file system fails, the archives that are returned    *)
(* are whole, with all the members of their volumes, and the one that has   *)
(* failed is removed unless the removal fails as well.                      *)
THEOREM ArchivesAreWhole == ASpec => []ArchivesWhole
<1>1. VInv /\ AInv => ArchivesWhole
  <2> SUFFICES ASSUME VInv, AInv, step = "idle" PROVE ArchivesWhole BY DEF ArchivesWhole
  <2>1. input = 0 BY DEF AInv, Quiet
  <2>2. ASSUME NEW v \in Paths
        PROVE  IF v <= zipped THEN Done(v) ELSE disk[v] \in {"none", "stuck"}
    <3>1. zipped \in Nat /\ v \in Nat BY VolumeIsPath DEF Paths
    <3>2. CASE v <= zipped BY <3>2 DEF AInv, DoneBefore
    <3>3. CASE v = zipped + 1 BY <3>1, <3>3 DEF AInv, AtHand, Untouched
    <3>4. CASE v > zipped + 1 BY <3>1, <3>4 DEF AInv, UntouchedAfter, Untouched
    <3> QED BY <3>1, <3>2, <3>3, <3>4
  <2> QED BY <2>1, <2>2 DEF ArchivesWhole, Done
<1> QED BY <1>1, AInvariance, PTL
=============================================================================
