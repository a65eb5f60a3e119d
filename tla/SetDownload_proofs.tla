------------------------- MODULE SetDownload_proofs -------------------------
(* Proofs about SetDownload, for any set of stickers, any number of slots    *)
(* and any throttle.                                                        *)
EXTENDS SetDownload, FiniteSetTheorems, TLAPS

(* The workers that have added to the counter.                              *)
PastAdd == {"readDone", "readNow", "readLast", "swap", "edit", "exit", "done", "gone"}
Through == {w \in Stickers : worker[w] \in PastAdd}

CountsThrough == completed = Cardinality(Through)

Joined == {"delete", "count", "original", "converted", "upload"}

(* The workers there are at each place of the task's goroutine.             *)
Lifecycle ==
  /\ "notFound" \in Said => main = "end"
  /\ main \in {"find", "announce"} => \A w \in Stickers : worker[w] = "unborn"
  /\ main \in Joined => \A w \in Stickers : worker[w] = "gone"
  /\ main = "end" => \A w \in Stickers :
                       worker[w] = IF "notFound" \in Said THEN "unborn" ELSE "gone"

(* Who is about to swap has found the throttle due at what it has loaded.   *)
DueWhenLoaded ==
  \A w \in Stickers :
    worker[w] = "swap" => done[w] = Total \/ now[w] >= last[w] + Window

(* What has been said at each place: nothing until the files are counted,   *)
(* then that some are missing, if they are.                                *)
SaidSoFar ==
  /\ main \in {"find", "announce", "join", "delete", "count"} => Said = {}
  /\ main \in {"original", "converted", "upload"} =>
       files # {} /\ Said = (IF files = Stickers THEN {} ELSE {"partial"})

(* The archives there are at each place.                                    *)
Archived ==
  /\ main = "converted" => archive["original"] \in {"made", "dropped"}
  /\ main = "upload" => /\ \A a \in Archives : archive[a] # "none"
                        /\ \E a \in Archives : archive[a] # "dropped"

(* What DownloadTask takes a set for in one step, DownloadSet: it ends with *)
(* an archive sent, or with a message that Telegram takes or refuses.      *)
SetAnswered == main = "end" => Said # {} \/ \E a \in Archives : archive[a] = "sent"

Inv ==
  /\ TypeOK /\ SlotsCounted /\ CountsThrough /\ Lifecycle /\ DueWhenLoaded
  /\ SaidSoFar /\ Archived /\ LossTold

-----------------------------------------------------------------------------
(* The two counts of workers                                                *)

LEMMA StickersAreFinite ==
  ASSUME NEW P \in SUBSET Stickers
  PROVE  /\ IsFiniteSet(P) /\ Cardinality(P) \in 0..Total
         /\ Cardinality(P) = Total => P = Stickers
<1>1. IsFiniteSet(P) /\ Cardinality(P) <= Total /\ (Cardinality(P) = Total => P = Stickers)
  BY SetDownloadAssumption, FS_Subset DEF Total
<1>2. Cardinality(P) \in Nat /\ Total \in Nat
  BY <1>1, SetDownloadAssumption, FS_CardinalityType DEF Total
<1> QED BY <1>1, <1>2

(* A worker that comes to a set of places is one more in it.                *)
LEMMA OneMore ==
  ASSUME NEW P \in SUBSET Stickers, NEW w \in Stickers, w \notin P
  PROVE  Cardinality(P \cup {w}) = Cardinality(P) + 1
BY StickersAreFinite, FS_AddElement

LEMMA OneLess ==
  ASSUME NEW P \in SUBSET Stickers, NEW w \in P
  PROVE  Cardinality(P \ {w}) = Cardinality(P) - 1
BY StickersAreFinite, FS_RemoveElement

(* A step of one worker within the places that are counted, or outside of   *)
(* them, leaves a count as it is.                                          *)
LEMMA MoveCounts ==
  ASSUME TypeOK, NEW w \in Stickers, NEW from, NEW to, Goto(w, from, to)
  PROVE  /\ from \in Inside /\ to \in Inside => AtWork' = AtWork
         /\ from \notin Inside /\ to \in Inside =>
              AtWork' = AtWork \cup {w} /\ w \notin AtWork
         /\ from \notin Inside /\ to \notin Inside => AtWork' = AtWork
         /\ from \in Inside /\ to \notin Inside =>
              AtWork' = AtWork \ {w} /\ w \in AtWork
BY DEF TypeOK, Goto, AtWork

LEMMA MoveThrough ==
  ASSUME TypeOK, NEW w \in Stickers, NEW from, NEW to, Goto(w, from, to)
  PROVE  /\ (from \in PastAdd <=> to \in PastAdd) => Through' = Through
         /\ from \notin PastAdd /\ to \in PastAdd =>
              Through' = Through \cup {w} /\ w \notin Through
BY DEF TypeOK, Goto, Through

-----------------------------------------------------------------------------
LEMMA InitInv == Init => Inv
<1> SUFFICES ASSUME Init PROVE Inv OBVIOUS
<1>1. AtWork = {} /\ Through = {}
  BY DEF Init, AtWork, Inside, Through, PastAdd
<1>2. Cardinality({}) = 0 BY FS_EmptySet
<1>3. Total \in Nat BY StickersAreFinite, FS_CardinalityType, SetDownloadAssumption DEF Total
<1>4. TypeOK
  BY <1>3, SetDownloadAssumption DEF Init, TypeOK, MainLabels, Inside, Archives
<1>5. SlotsCounted /\ CountsThrough
  BY <1>1, <1>2 DEF Init, SlotsCounted, CountsThrough
<1> QED BY <1>4, <1>5 DEF Init, Inv, Lifecycle, Joined, DueWhenLoaded, SaidSoFar, Archived,
     LossTold, Said

LEMMA WorkerInv ==
  ASSUME Inv, NEW w \in Stickers, Work(w)
  PROVE  Inv'
<1> USE SetDownloadAssumption
<1>t. TypeOK BY DEF Inv
<1>n. Total \in Nat /\ sem \in Nat /\ Slots \in Nat
  BY <1>t, StickersAreFinite, FS_CardinalityType DEF Total, TypeOK
<1>s. UNCHANGED <<main, clock, report>>
  BY DEF Work, TakeSlot, Fetch, FetchUnconverted, FetchFails,
         Keep, Add, ReadDone, ReadNow, ReadLast, Swap,
         SwapFails, Edit, Exit, Done, report
<1>a. worker[w] \in Inside \cup {"slot", "done"}
  BY DEF Work, TakeSlot, Fetch, FetchUnconverted, FetchFails,
         Keep, Add, ReadDone, ReadNow, ReadLast, Swap,
         SwapFails, Edit, Exit, Done, Goto, Inside
<1>b. main = "join"
  BY <1>a DEF Inv, Lifecycle, Joined, Inside, TypeOK, MainLabels
<1>1. (Lifecycle /\ SaidSoFar /\ Archived /\ LossTold)'
  BY <1>b, <1>s DEF Inv, Lifecycle, Joined, SaidSoFar, Archived, LossTold, Said, report, messages
<1>c. AtWork \in SUBSET Stickers /\ Through \in SUBSET Stickers
      /\ AtWork' \in SUBSET Stickers /\ Through' \in SUBSET Stickers
  BY DEF AtWork, Through
<1>2. SlotsCounted'
  <2>1. CASE TakeSlot(w)
    <3>1. AtWork' = AtWork \cup {w} /\ w \notin AtWork
      BY <1>t, <2>1, MoveCounts DEF TakeSlot, Inside
    <3> QED BY <3>1, <2>1, <1>c, OneMore DEF TakeSlot, Inv, SlotsCounted
  <2>2. CASE Exit(w)
    <3>1. AtWork' = AtWork \ {w} /\ w \in AtWork
      BY <1>t, <2>2, MoveCounts DEF Exit, Inside
    <3> QED BY <3>1, <2>2, <1>c, OneLess DEF Exit, Inv, SlotsCounted
  <2>3. CASE ~TakeSlot(w) /\ ~Exit(w)
    <3>1. \E from, to : Goto(w, from, to) /\ (from \in Inside <=> to \in Inside)
      <4>1. CASE Fetch(w) \/ FetchUnconverted(w) \/ FetchFails(w) \/ Keep(w) \/ Add(w)
        BY <4>1 DEF Fetch, FetchUnconverted, FetchFails,
         Keep, Add, Inside
      <4>2. CASE ReadLast(w)
        BY <4>2 DEF ReadLast, Inside
      <4>3. CASE ReadDone(w) \/ ReadNow(w) \/ Swap(w) \/ SwapFails(w) \/ Edit(w) \/ Done(w)
        BY <4>3 DEF ReadDone, ReadNow, Swap, SwapFails, Edit, Done, Inside
      <4> QED BY <2>3, <4>1, <4>2, <4>3 DEF Work
    <3>2. AtWork' = AtWork
      <4>1. PICK from, to : Goto(w, from, to) /\ (from \in Inside <=> to \in Inside) BY <3>1
      <4> QED BY <4>1, <1>t, MoveCounts
    <3>3. sem' = sem
      BY <2>3 DEF Work, Fetch, FetchUnconverted, FetchFails,
         Keep, Add, ReadDone, ReadNow, ReadLast, Swap,
                  SwapFails, Edit, Done, shared
    <3> QED BY <3>2, <3>3 DEF Inv, SlotsCounted
  <2> QED BY <2>1, <2>2, <2>3
<1>3. CountsThrough'
  <2>1. CASE Add(w)
    <3>1. Through' = Through \cup {w} /\ w \notin Through
      BY <1>t, <2>1, MoveThrough DEF Add, PastAdd
    <3> QED BY <3>1, <2>1, <1>c, OneMore DEF Add, Inv, CountsThrough
  <2>2. CASE ~Add(w)
    <3>1. \E from, to : Goto(w, from, to) /\ (from \in PastAdd <=> to \in PastAdd)
      <4>1. CASE TakeSlot(w) \/ Fetch(w) \/ FetchUnconverted(w) \/ FetchFails(w) \/ Keep(w)
        BY <4>1 DEF TakeSlot, Fetch, FetchUnconverted, FetchFails,
         Keep, PastAdd
      <4>2. CASE ReadLast(w)
        BY <4>2 DEF ReadLast, PastAdd
      <4>3. CASE ReadDone(w) \/ ReadNow(w) \/ Swap(w) \/ SwapFails(w) \/ Edit(w) \/ Exit(w)
                 \/ Done(w)
        BY <4>3 DEF ReadDone, ReadNow, Swap, SwapFails, Edit, Exit, Done, PastAdd
      <4> QED BY <2>2, <4>1, <4>2, <4>3 DEF Work
    <3>2. Through' = Through
      <4>1. PICK from, to : Goto(w, from, to) /\ (from \in PastAdd <=> to \in PastAdd) BY <3>1
      <4> QED BY <4>1, <1>t, MoveThrough
    <3>3. completed' = completed
      BY <2>2 DEF Work, TakeSlot, Fetch, FetchUnconverted, FetchFails,
         Keep, ReadDone, ReadNow, ReadLast, Swap,
                  SwapFails, Edit, Exit, Done, shared
    <3> QED BY <3>2, <3>3 DEF Inv, CountsThrough
  <2> QED BY <2>1, <2>2
<1>4. completed' \in 0..Total
  BY <1>3, <1>c, StickersAreFinite DEF CountsThrough
<1>5. sem' \in 0..Slots
  <2>1. sem' \in Nat BY <1>2, <1>c, StickersAreFinite DEF SlotsCounted
  <2>2. sem' = sem \/ sem' = sem - 1 \/ (sem < Slots /\ sem' = sem + 1)
    BY DEF Work, TakeSlot, Fetch, FetchUnconverted, FetchFails,
         Keep, Add, ReadDone, ReadNow, ReadLast, Swap,
           SwapFails, Edit, Exit, Done, shared
  <2>3. sem \in 0..Slots BY <1>t DEF TypeOK
  <2> QED BY <2>1, <2>2, <2>3, <1>n
<1>6. TypeOK'
  <2>1. worker' \in [Stickers -> Inside \cup {"unborn", "slot", "done", "gone"}]
    BY <1>t DEF Work, TakeSlot, Fetch, FetchUnconverted, FetchFails,
         Keep, Add, ReadDone, ReadNow, ReadLast, Swap,
                SwapFails, Edit, Exit, Done, Goto, Inside, TypeOK
  <2>2. files' \in SUBSET Stickers /\ unconverted' \in 0..1 /\ stamp' \in 0..MaxClock
    BY <1>t DEF Work, TakeSlot, Fetch, FetchUnconverted, FetchFails,
         Keep, Add, ReadDone, ReadNow, ReadLast, Swap,
                SwapFails, Edit, Exit, Done, shared, TypeOK
  <2>3. /\ done' \in [Stickers -> 0..Total]
        /\ now' \in [Stickers -> 0..MaxClock]
        /\ last' \in [Stickers -> 0..MaxClock]
    BY <1>t, <1>n DEF Work, TakeSlot, Fetch, FetchUnconverted, FetchFails,
         Keep, Add, ReadDone, ReadNow, ReadLast,
                Swap, SwapFails, Edit, Exit, Done, locals, TypeOK
  <2> QED BY <1>t, <1>s, <1>4, <1>5, <2>1, <2>2, <2>3 DEF TypeOK, report, messages
<1>7. DueWhenLoaded'
  <2> SUFFICES ASSUME NEW x \in Stickers, worker'[x] = "swap"
               PROVE  done'[x] = Total \/ now'[x] >= last'[x] + Window
    BY DEF DueWhenLoaded, Total
  <2>1. CASE ReadLast(w) /\ x = w
    BY <2>1, <1>t DEF ReadLast, Goto, Due, TypeOK
  <2>2. CASE ~ReadLast(w) \/ x # w
    <3>1. worker[x] = "swap"
      BY <2>2, <1>t DEF Work, TakeSlot, Fetch, FetchUnconverted, FetchFails,
         Keep, Add, ReadDone, ReadNow, ReadLast,
                Swap, SwapFails, Edit, Exit, Done, Goto, TypeOK
    <3>2. done'[x] = done[x] /\ now'[x] = now[x] /\ last'[x] = last[x]
      BY <3>1, <1>t DEF Work, TakeSlot, Fetch, FetchUnconverted, FetchFails,
         Keep, Add, ReadDone, ReadNow, ReadLast,
                Swap, SwapFails, Edit, Exit, Done, Goto, TypeOK, locals
    <3> QED BY <3>1, <3>2 DEF Inv, DueWhenLoaded
  <2> QED BY <2>1, <2>2
<1> QED BY <1>1, <1>2, <1>3, <1>6, <1>7 DEF Inv

LEMMA MainInv ==
  ASSUME Inv, Main
  PROVE  Inv'
<1> USE SetDownloadAssumption
<1>t. TypeOK BY DEF Inv
<1>1. UNCHANGED <<shared, locals, clock>>
  BY DEF Main, FindSet, FindSetFails, Announce, Join, Delete, NoFiles, SomeFiles, ArchiveOriginal,
         ArchiveConverted, Upload, UploadsOver, workers
<1>2. CASE Announce
  <2>1. /\ main = "announce" /\ main' = "join"
        /\ worker' = [w \in Stickers |-> "slot"]
        /\ UNCHANGED <<archive, short, messages>> /\ progress' \in {"none", "shown"}
    BY <1>2 DEF Announce, Proceed
  <2>2. AtWork' = AtWork /\ Through' = Through
    BY <2>1 DEF Inv, Lifecycle, AtWork, Through, Inside, PastAdd
  <2>3. (SlotsCounted /\ CountsThrough)'
    BY <1>1, <2>2 DEF Inv, SlotsCounted, CountsThrough, shared
  <2>4. TypeOK' BY <1>1, <1>t, <2>1 DEF TypeOK, MainLabels, shared, locals, messages, Total
  <2>5. DueWhenLoaded' BY <2>1 DEF DueWhenLoaded
  <2>6. (Lifecycle /\ SaidSoFar /\ Archived /\ LossTold)'
    BY <1>1, <2>1 DEF Inv, Lifecycle, Joined, SaidSoFar, Archived, LossTold, Said, messages, shared
  <2> QED BY <2>3, <2>4, <2>5, <2>6 DEF Inv
<1>3. CASE ~Announce
  <2>1. worker' = worker
    BY <1>3 DEF Main, FindSet, FindSetFails, Join, Delete, NoFiles, SomeFiles, ArchiveOriginal,
         ArchiveConverted, Upload, UploadsOver, workers
  <2>2. (SlotsCounted /\ CountsThrough /\ DueWhenLoaded)'
    BY <1>1, <2>1 DEF Inv, SlotsCounted, AtWork, CountsThrough, Through, DueWhenLoaded, shared,
         locals, Total
  <2>3. /\ main' \in MainLabels /\ progress' \in {"none", "shown", "deleted"}
        /\ archive' \in [Archives -> {"none", "made", "dropped", "sent", "lost"}]
        /\ short' \in SUBSET Archives
        /\ told' \in SUBSET Messages /\ unheard' \in SUBSET Messages
    <3>1. CASE FindSet BY <3>1, <1>t DEF FindSet, Proceed, report, messages, TypeOK, MainLabels
    <3>2. CASE FindSetFails BY <3>2, <1>t DEF FindSetFails, Proceed, SendText, Messages,
         messages, TypeOK, MainLabels
    <3>3. CASE Join BY <3>3, <1>t DEF Join, Proceed, report, messages, TypeOK, MainLabels
    <3>4. CASE Delete BY <3>4, <1>t DEF Delete, Proceed, messages, TypeOK, MainLabels
    <3>5. CASE NoFiles BY <3>5, <1>t DEF NoFiles, Proceed, SendText, Messages,
         messages, TypeOK, MainLabels
    <3>6. CASE SomeFiles BY <3>6, <1>t DEF SomeFiles, Proceed, SendText, Messages,
         messages, TypeOK, MainLabels
    <3>7. CASE ArchiveOriginal BY <3>7, <1>t DEF ArchiveOriginal, Compress, Proceed,
         Archives, messages, TypeOK, MainLabels
    <3>8. CASE ArchiveConverted BY <3>8, <1>t DEF ArchiveConverted, Compress, Proceed,
         Archives, SendText, Messages, messages, TypeOK, MainLabels
    <3>9. CASE Upload BY <3>9, <1>t DEF Upload, messages, TypeOK, MainLabels
    <3>10. CASE UploadsOver BY <3>10, <1>t DEF UploadsOver, Proceed, SendText,
         Messages, messages, TypeOK, MainLabels
    <3> QED BY <1>3, <3>1, <3>2, <3>3, <3>4, <3>5, <3>6, <3>7, <3>8, <3>9, <3>10 DEF Main
  <2>4. TypeOK' BY <1>1, <1>t, <2>1, <2>3 DEF TypeOK, shared, locals, Total
  <2>s. /\ FindSetFails => Said' = Said \cup {"notFound"}
        /\ NoFiles => Said' = Said \cup {"fatal"}
        /\ SomeFiles => Said' = Said \cup (IF Cardinality(files) < Total THEN {"partial"} ELSE {})
        /\ ArchiveConverted => Said' = Said \cup
             (IF \A a \in Archives : archive'[a] = "dropped" THEN {"uploadFailed"} ELSE {})
        /\ UploadsOver => Said' = Said \cup
             (IF \E a \in Archives : archive[a] = "lost" THEN {"uploadFailed"} ELSE {})
        /\ FindSet \/ Join \/ Delete \/ ArchiveOriginal \/ Upload => Said' = Said
    BY DEF FindSetFails, NoFiles, SomeFiles, ArchiveConverted, UploadsOver, FindSet, Join, Delete,
       ArchiveOriginal, Upload, SendText, Said, messages, report
  <2>f. files' = files BY <1>1 DEF shared
  <2>5. Lifecycle'
    <3>1. CASE Join BY <3>1, <2>1, <2>s DEF Join, Proceed, Inv, Lifecycle, Joined
    <3>2. CASE FindSet \/ FindSetFails
      BY <3>2, <2>1, <2>s DEF FindSet, FindSetFails, Proceed, Inv, Lifecycle, Joined
    <3>3. CASE Delete \/ NoFiles \/ SomeFiles \/ ArchiveOriginal \/ Upload
      BY <3>3, <2>1, <2>s DEF Delete, NoFiles, SomeFiles, ArchiveOriginal, Upload, Proceed, Inv,
         Lifecycle, Joined
    <3>4. CASE ArchiveConverted \/ UploadsOver
      BY <3>4, <2>1, <2>s DEF ArchiveConverted, UploadsOver, Proceed, Inv, Lifecycle, Joined
    <3> QED BY <1>3, <3>1, <3>2, <3>3, <3>4 DEF Main
  <2>6. SaidSoFar'
    <3>1. CASE SomeFiles
      <4>1. /\ Cardinality(files) = Total => files = Stickers
            /\ Cardinality(files) \in 0..Total
        BY <1>t, StickersAreFinite DEF TypeOK
      <4>2. Total \in Nat /\ Total = Cardinality(Stickers)
        BY StickersAreFinite, FS_CardinalityType DEF Total
      <4>3. main = "count" /\ main' = "original" /\ files # {} /\ Said = {}
        BY <3>1 DEF SomeFiles, Proceed, Inv, SaidSoFar
      <4>4. Cardinality(files) < Total <=> files # Stickers BY <4>1, <4>2
      <4> QED BY <3>1, <2>s, <2>f, <4>3, <4>4 DEF SaidSoFar
    <3>2. CASE FindSet \/ FindSetFails \/ Join \/ Delete \/ NoFiles
      BY <3>2, <2>s, <2>f DEF FindSet, FindSetFails, Join, Delete, NoFiles, Proceed, Inv, SaidSoFar
    <3>3. CASE ArchiveOriginal \/ ArchiveConverted \/ Upload \/ UploadsOver
      BY <3>3, <2>s, <2>f DEF ArchiveOriginal, ArchiveConverted, Upload, UploadsOver, Proceed,
         Inv, SaidSoFar
    <3> QED BY <1>3, <3>1, <3>2, <3>3 DEF Main
  <2>7. Archived'
    <3>1. CASE FindSet \/ FindSetFails \/ Join \/ Delete \/ NoFiles \/ SomeFiles \/ UploadsOver
      BY <3>1 DEF FindSet, FindSetFails, Join, Delete, NoFiles, SomeFiles, UploadsOver, Proceed,
         Archived
    <3>2. CASE ArchiveOriginal
      BY <3>2, <1>t DEF ArchiveOriginal, Compress, Proceed, Archived, TypeOK, Archives
    <3>3. CASE ArchiveConverted
      BY <3>3, <1>t DEF ArchiveConverted, Compress, Inv, Archived, TypeOK, Archives
    <3>4. CASE Upload
      BY <3>4, <1>t DEF Upload, Inv, Archived, TypeOK, Archives
    <3> QED BY <1>3, <3>1, <3>2, <3>3, <3>4 DEF Main
  <2>8. LossTold'
    <3> SUFFICES ASSUME main' = "end", "notFound" \notin Said'
                 PROVE  LossTold'
      BY DEF LossTold
    <3>1. CASE FindSetFails BY <3>1, <2>s
    <3>2. CASE NoFiles
      BY <3>2, <2>s, <2>f DEF NoFiles, Proceed, Inv, SaidSoFar, LossTold
    <3>3. CASE ArchiveConverted
      <4>1. /\ main = "converted" /\ \A a \in Archives : archive'[a] = "dropped"
        BY <3>3 DEF ArchiveConverted
      <4>2. files # {} /\ Said = (IF files = Stickers THEN {} ELSE {"partial"})
        BY <4>1 DEF Inv, SaidSoFar
      <4> QED BY <3>3, <4>1, <4>2, <2>s, <2>f DEF LossTold
    <3>4. CASE UploadsOver
      <4>1. /\ main = "upload" /\ archive' = archive
            /\ \A a \in Archives : archive[a] # "made"
        BY <3>4 DEF UploadsOver, Proceed
      <4>2. files # {} /\ Said = (IF files = Stickers THEN {} ELSE {"partial"})
        BY <4>1 DEF Inv, SaidSoFar
      <4>3. /\ \A a \in Archives : archive[a] \in {"dropped", "sent", "lost"}
            /\ \E a \in Archives : archive[a] # "dropped"
        BY <4>1, <1>t DEF Inv, Archived, TypeOK
      <4>4. CASE \E a \in Archives : archive[a] = "lost"
        BY <3>4, <4>1, <4>2, <4>4, <2>s, <2>f DEF LossTold
      <4>5. CASE \A a \in Archives : archive[a] # "lost"
        BY <3>4, <4>1, <4>2, <4>3, <4>5, <2>s, <2>f DEF LossTold
      <4> QED BY <4>4, <4>5
    <3>5. CASE FindSet \/ Join \/ Delete \/ SomeFiles \/ ArchiveOriginal \/ Upload
      BY <3>5 DEF FindSet, Join, Delete, SomeFiles, ArchiveOriginal, Upload, Proceed
    <3> QED BY <1>3, <3>1, <3>2, <3>3, <3>4, <3>5 DEF Main
  <2> QED BY <2>2, <2>4, <2>5, <2>6, <2>7, <2>8 DEF Inv
<1> QED BY <1>2, <1>3

LEMMA StepInv == Inv /\ [Next]_vars => Inv'
<1> SUFFICES ASSUME Inv, [Next]_vars PROVE Inv' OBVIOUS
<1>1. CASE \E w \in Stickers : Work(w) BY <1>1, WorkerInv
<1>2. CASE Main BY <1>2, MainInv
<1>3. CASE Advance \/ UNCHANGED vars
  <2>1. /\ UNCHANGED <<main, worker, sem, files, unconverted, completed, stamp, done, now,
                       last, progress, archive, short, told, unheard>>
        /\ clock' \in Window..MaxClock
    BY <1>3, SetDownloadAssumption
    DEF Advance, vars, shared, locals, report, messages, Inv, TypeOK
  <2>2. TypeOK' BY <2>1 DEF Inv, TypeOK, Total
  <2>3. (SlotsCounted /\ CountsThrough /\ Lifecycle /\ DueWhenLoaded)'
    BY <2>1 DEF Inv, SlotsCounted, AtWork, CountsThrough, Through, Lifecycle, Said, DueWhenLoaded,
         Total
  <2>4. (SaidSoFar /\ Archived /\ LossTold)'
    BY <2>1 DEF Inv, SaidSoFar, Archived, LossTold, Said
  <2> QED BY <2>2, <2>3, <2>4 DEF Inv
<1> QED BY <1>1, <1>2, <1>3 DEF Next

LEMMA InvariantHolds == Spec => []Inv
BY InitInv, StepInv, PTL DEF Spec

-----------------------------------------------------------------------------
(* Every variable keeps its type: the semaphore never exceeds its capacity,  *)
(* and the counter never the stickers of the set.                          *)
THEOREM TypeCorrect == Spec => []TypeOK
<1>1. Inv => TypeOK BY DEF Inv
<1> QED BY <1>1, InvariantHolds, PTL

(* The semaphore counts the workers that hold a slot, on every way out.      *)
THEOREM SlotsAreCounted == Spec => []SlotsCounted
<1>1. Inv => SlotsCounted BY DEF Inv
<1> QED BY <1>1, InvariantHolds, PTL

(* After wg.Wait every worker is gone and has been counted, and the          *)
(* semaphore is empty.                                                      *)
THEOREM JoinIsClean == Spec => []JoinedClean
<1>1. Inv => JoinedClean
  <2> SUFFICES ASSUME Inv, main \in Joined \cup {"end"}, "notFound" \notin Said
               PROVE  /\ \A w \in Stickers : worker[w] = "gone"
                      /\ completed = Total /\ sem = 0
    BY DEF JoinedClean, Joined
  <2>1. \A w \in Stickers : worker[w] = "gone" BY DEF Inv, Lifecycle
  <2>2. Through = Stickers BY <2>1 DEF Through, PastAdd
  <2>3. AtWork = {} BY <2>1 DEF AtWork, Inside
  <2>4. sem = 0 BY <2>3, FS_EmptySet DEF Inv, SlotsCounted
  <2> QED BY <2>1, <2>2, <2>4 DEF Inv, CountsThrough, Total
<1> QED BY <1>1, InvariantHolds, PTL

(* No two edits of the progress message are recorded less than Window apart, *)
(* whichever workers race for them, but for those that saw the full count.  *)
THEOREM ThrottleHolds == Spec => Throttled
<1>1. Inv /\ [Next]_vars =>
        [\A w \in Stickers :
           worker[w] = "swap" /\ worker'[w] = "edit" /\ done[w] # Total
             => now[w] >= stamp + Window]_vars
  <2> SUFFICES ASSUME Inv, Next, NEW w \in Stickers,
                      worker[w] = "swap", worker'[w] = "edit", done[w] # Total
               PROVE  now[w] >= stamp + Window
    OBVIOUS
  <2>t. TypeOK BY DEF Inv
  <2>1. PICK x \in Stickers : Work(x)
    BY <2>t DEF Next, Advance, Main, FindSet, FindSetFails, Announce, Join, Delete, NoFiles,
         SomeFiles, ArchiveOriginal, ArchiveConverted, Upload, UploadsOver, workers
  <2>2. x = w
    BY <2>1, <2>t DEF Work, TakeSlot, Fetch, FetchUnconverted, FetchFails,
         Keep, Add, ReadDone, ReadNow, ReadLast,
         Swap, SwapFails, Edit, Exit, Done, Goto, TypeOK
  <2>3. Swap(w)
    BY <2>1, <2>2, <2>t DEF Work, TakeSlot, Fetch, FetchUnconverted, FetchFails,
         Keep, Add, ReadDone, ReadNow,
         ReadLast, SwapFails, Edit, Exit, Done, Goto, TypeOK
  <2> QED BY <2>3 DEF Inv, DueWhenLoaded, Swap
<1> QED BY <1>1, InvariantHolds, PTL DEF Spec, Throttled

(* By its end a set that was found has said that stickers are missing, that  *)
(* all of them are, or that an upload failed exactly when it was so.        *)
THEOREM LossIsTold == Spec => []LossTold
<1>1. Inv => LossTold BY DEF Inv
<1> QED BY <1>1, InvariantHolds, PTL

(* The set keeps the promise DownloadTask relies on: at its end an archive   *)
(* is sent, or the user has a message that Telegram took or refused.        *)
THEOREM SetIsAnswered == Spec => []SetAnswered
<1>1. Inv => SetAnswered
  <2> SUFFICES ASSUME Inv, main = "end", Said = {}
               PROVE  \E a \in Archives : archive[a] = "sent"
    BY DEF SetAnswered
  <2> QED BY DEF Inv, LossTold
<1> QED BY <1>1, InvariantHolds, PTL
=============================================================================
