-------------------------- MODULE Conversion_proofs --------------------------
(* Proofs about DownloadTask, for any number of requests; and about the      *)
(* Conversion that extends it, for any deadline: its steps are those of     *)
(* DownloadTask or none, so that what is proved of a task holds whatever    *)
(* the programs do, and what is left of a conversion is what it should be.  *)
EXTENDS Conversion, TLAPS

(* Between CreateUserDir and the deferred function.                         *)
WithDir == { "subdir", "getFile", "request", "backoff", "write", "convert",
             "compress", "upload", "set", "return", "dismissGif" }

(* Where an answer has been given, or sent off.                             *)
Decided == {"return", "dismiss", "dismissGif", "offer", "end"}

(* The directory is there exactly between its making and its removal.       *)
DirWhileNeeded == dir = "there" <=> pc \in WithDir

FileWhileUsed == pc \in {"convert", "compress", "upload"} => file = "full"

AnsweredWhenDecided == pc \in Decided => sent = 1 \/ Said # {}

(* Which ways out the kinds take, and with what in the chat.                *)
WaysOut ==
  /\ kind = "set" =>
       /\ progress = "none"
       /\ pc \notin {"announce", "dismissGif", "dismiss", "offer"}
  /\ kind = "animation" =>
       /\ pc \notin {"dismiss", "offer", "subdir", "set"}
       /\ pc \in {"return", "end"} /\ progress = "shown" => "fatal" \in Said
  /\ IsSticker =>
       /\ pc # "dismissGif"
       /\ pc \in {"offer", "end"} => progress # "shown"

(* A request is made only while there are some left.                        *)
RequestsLeft == pc \in {"announce", "mkdir", "subdir", "getFile", "request"} =>
                  requests < MaxRetries

FreshUntilAsked == pc \in {"announce", "mkdir", "subdir", "getFile"} => requests = 0

IInv ==
  /\ TypeOK /\ DirWhileNeeded /\ FileWhileUsed /\ AnsweredWhenDecided /\ WaysOut
  /\ RequestsLeft /\ FreshUntilAsked

LEMMA InitInv == Init => IInv
  BY DownloadTaskAssumption
  DEF Init, IInv, TypeOK, Kinds, Labels, DirWhileNeeded, WithDir, FileWhileUsed,
      AnsweredWhenDecided, Decided, WaysOut, IsSticker, RequestsLeft, FreshUntilAsked,
      Said, Messages

LEMMA StepInv == IInv /\ [Next]_vars => IInv'
<1> SUFFICES ASSUME IInv, [Next]_vars
             PROVE  IInv'
    OBVIOUS
<1> USE DownloadTaskAssumption
    DEF IInv, TypeOK, Kinds, Labels, DirWhileNeeded, WithDir, FileWhileUsed,
        AnsweredWhenDecided, Decided, WaysOut, IsSticker, RequestsLeft,
        FreshUntilAsked, Goto, Fail, Over, Said, Messages, SendText, messages
<1>1. CASE Announce
  BY <1>1 DEF Announce
<1>2. CASE MakeDir
  BY <1>2 DEF MakeDir
<1>3. CASE MakeDirFails
  BY <1>3 DEF MakeDirFails
<1>4. CASE MakeSubdir
  BY <1>4 DEF MakeSubdir
<1>5. CASE MakeSubdirFails
  BY <1>5 DEF MakeSubdirFails
<1>6. CASE DownloadSet
  <2>1. /\ pc = "set" /\ pc' = "return"
        /\ sent' \in 0..1
        /\ UNCHANGED <<kind, dir, progress, requests, file>>
    BY <1>6 DEF DownloadSet
  <2>2. told \subseteq told' /\ told' \subseteq told \cup {"setReport"}
        /\ unheard \subseteq unheard' /\ unheard' \subseteq unheard \cup {"setReport"}
    BY <1>6 DEF DownloadSet
  <2>3. told' \in SUBSET Messages /\ unheard' \in SUBSET Messages
    BY <2>2
  <2>4. sent' = 1 \/ Said' # {}
    BY <1>6 DEF DownloadSet
  <2> QED  BY <2>1, <2>2, <2>3, <2>4
<1>7. CASE GetFile
  BY <1>7 DEF GetFile
<1>8. CASE GetFileFails
  BY <1>8 DEF GetFileFails
<1>9. CASE Respond
  BY <1>9 DEF Respond
<1>10. CASE RespondTooMany
  BY <1>10 DEF RespondTooMany
<1>11. CASE RequestFails
  <2>1. /\ pc = "request" /\ pc' = "return"
        /\ requests' = requests + 1
        /\ UNCHANGED <<kind, dir, progress, file, sent>>
    BY <1>11 DEF RequestFails
  <2>2. requests' \in 0..MaxRetries
    BY <2>1
  <2>3. /\ told' \in SUBSET Messages /\ unheard' \in SUBSET Messages
        /\ "fatal" \in Said'
    BY <1>11 DEF RequestFails
  <2> QED  BY <2>1, <2>2, <2>3
<1>12. CASE Retry
  BY <1>12 DEF Retry
<1>13. CASE RetriesOver
  BY <1>13 DEF RetriesOver
<1>14. CASE Cancelled
  BY <1>14 DEF Cancelled
<1>15. CASE Write
  BY <1>15 DEF Write
<1>16. CASE WriteFails
  BY <1>16 DEF WriteFails
<1>17. CASE Convert
  BY <1>17 DEF Convert
<1>18. CASE ConvertFails
  BY <1>18 DEF ConvertFails
<1>19. CASE Compress
  BY <1>19 DEF Compress
<1>20. CASE CompressFails
  BY <1>20 DEF CompressFails
<1>21. CASE Upload
  BY <1>21 DEF Upload, AfterUpload
<1>22. CASE UploadFails
  BY <1>22 DEF UploadFails, AfterUpload
<1>23. CASE Clean
  BY <1>23 DEF Clean
<1>24. CASE CleanFails
  BY <1>24 DEF CleanFails
<1>25. CASE Dismiss
  BY <1>25 DEF Dismiss
<1>26. CASE Offer
  BY <1>26 DEF Offer
<1>27. CASE UNCHANGED vars
  BY <1>27 DEF vars
<1> HIDE DEF IInv
<1> QED BY <1>1, <1>2, <1>3, <1>4, <1>5, <1>6, <1>7, <1>8, <1>9, <1>10, <1>11, <1>12, <1>13,
           <1>14, <1>15, <1>16, <1>17, <1>18, <1>19, <1>20, <1>21, <1>22, <1>23, <1>24, <1>25,
           <1>26, <1>27 DEF Next

(* Whatever fails, each task keeps to the invariant.                        *)
THEOREM InvariantHolds == Spec => []IInv
  BY InitInv, StepInv, PTL DEF Spec

(* Every variable keeps its type: above all, no more than MaxRetries        *)
(* requests are made for a file.                                            *)
THEOREM TypeCorrect == Spec => []TypeOK
<1>1. IInv => TypeOK
  BY DEF IInv
<1> QED  BY <1>1, InvariantHolds, PTL

(* Every return of a task that has a directory comes by its removal.        *)
THEOREM DirIsRemoved == Spec => []DirRemoved
<1>1. IInv => DirRemoved
  BY DEF IInv, DirWhileNeeded, WithDir, DirRemoved
<1> QED  BY <1>1, InvariantHolds, PTL

(* A file that was cut off is never converted, compressed or sent.          *)
THEOREM WholeFileIsUsed == Spec => []WholeFileUsed
<1>1. IInv => WholeFileUsed
  BY DEF IInv, DirWhileNeeded, WithDir, FileWhileUsed, WholeFileUsed
<1> QED  BY <1>1, InvariantHolds, PTL

(* A task that is over has sent a document or a message about its failure,  *)
(* which Telegram may have refused.                                        *)
THEOREM TaskIsAnswered == Spec => []Answered
<1>1. IInv => Answered
  BY DEF IInv, AnsweredWhenDecided, Decided, Answered
<1> QED  BY <1>1, InvariantHolds, PTL

(* Only an animation's early return leaves a progress message undeleted.    *)
THEOREM ProgressIsGone == Spec => []ProgressGone
<1>1. IInv => ProgressGone
  BY DEF IInv, TypeOK, Kinds, WaysOut, IsSticker, ProgressGone
<1> QED  BY <1>1, InvariantHolds, PTL
-----------------------------------------------------------------------------
(* The steps between the making of the frames directory and its removal.    *)
WithFrames == {"json", "render", "encode", "stat", "unframe"}

(* A conversion is under way only where the task waits for it.              *)
OnlyInConvert == step # "idle" => pc = "convert"

FramesWhileUsed == frames = "there" <=> step \in WithFrames

(* Which conversion a file gets.                                            *)
WhichSteps ==
  /\ format = "tgs" => kind = "video"
  /\ step = "png" => kind = "static"
  /\ step \in {"gif", "optimize"} => kind # "static" /\ format = "video"
  /\ step \in {"read", "mkdir"} \cup WithFrames => format = "tgs"

(* What is known of the output where the encoder has exited well.           *)
OutputSeen ==
  /\ step \in {"optimize", "stat"} => out \in {"none", "full"}
  /\ step = "unframe" /\ err = "nil" => out = "full"

CTyped ==
  /\ format \in {"tgs", "video"}
  /\ step \in {"idle", "png", "gif", "optimize", "read", "mkdir"} \cup WithFrames
  /\ err \in {"nil", "failed"}
  /\ clock \in 0..Timeout
  /\ frames \in {"none", "there", "gone", "stuck"}
  /\ out \in {"none", "partial", "full", "spoilt"}
  /\ path \in {"original", "converted"}

CInv == CTyped /\ OnlyInConvert /\ FramesWhileUsed /\ WhichSteps /\ OutputSeen
          /\ ConversionUsable

-----------------------------------------------------------------------------
(* The steps of a conversion are a step of the task at the end, and no step  *)
(* of it before.                                                            *)
LEMMA StepRefines == [CNext]_cvars => [Next]_vars
<1> SUFFICES ASSUME [CNext]_cvars PROVE [Next]_vars OBVIOUS
<1>1. CASE UNCHANGED cvars BY <1>1 DEF cvars, vars
<1>2. CASE Begin BY <1>2 DEF Begin, Continue
<1>3. CASE Png BY <1>3 DEF Png, Succeed, Next
<1>4. CASE PngFails BY <1>4 DEF PngFails, Succeed, Next
<1>5. CASE Gif BY <1>5 DEF Gif, Continue
<1>6. CASE GifFails BY <1>6 DEF GifFails, GiveUp, Next
<1>7. CASE Optimize BY <1>7 DEF Optimize, Succeed, Next
<1>8. CASE Read BY <1>8 DEF Read, Continue
<1>9. CASE ReadFails BY <1>9 DEF ReadFails, GiveUp, Next
<1>10. CASE MakeFrames BY <1>10 DEF MakeFrames, Continue
<1>11. CASE MakeFramesFails BY <1>11 DEF MakeFramesFails, GiveUp, Next
<1>12. CASE WriteJson BY <1>12 DEF WriteJson, Continue
<1>13. CASE WriteJsonFails BY <1>13 DEF WriteJsonFails, Abort, Continue
<1>14. CASE Tick BY <1>14 DEF Tick
<1>15. CASE RenderFails BY <1>15 DEF RenderFails, Abort, Continue
<1>16. CASE EncodeFails BY <1>16 DEF EncodeFails, Abort, Continue
<1>17. CASE Render BY <1>17 DEF Render, Continue
<1>18. CASE Encode BY <1>18 DEF Encode, Continue
<1>19. CASE Stat BY <1>19 DEF Stat, Continue
<1>20. CASE Unframe BY <1>20 DEF Unframe, Succeed, GiveUp, Next
<1>21. CASE CleanAll BY <1>21 DEF CleanAll, Next
<1>22. CASE Elsewhere BY <1>22 DEF Elsewhere, Next
<1> QED BY <1>1, <1>2, <1>3, <1>4, <1>5, <1>6, <1>7, <1>8, <1>9, <1>10, <1>11, <1>12, <1>13, <1>14,
          <1>15, <1>16, <1>17, <1>18, <1>19, <1>20, <1>21, <1>22
     DEF CNext, Proceed, Exit, Kill

LEMMA CInitInv == CInit => CInv
BY ConversionAssumption
DEF CInit, Init, Kinds, CInv, CTyped, WithFrames, OnlyInConvert, FramesWhileUsed, WhichSteps,
    OutputSeen, ConversionUsable

(* Outside the conversion nothing of it changes, and nobody comes to use    *)
(* its output but by its end.                                              *)
LEMMA ElsewhereInv == CInv /\ Elsewhere /\ UNCHANGED <<format, convVars>> => CInv'
<1> SUFFICES ASSUME CInv, Elsewhere, UNCHANGED <<format, convVars>> PROVE CInv' OBVIOUS
<1>1. UNCHANGED <<format, step, err, clock, frames, out, path>> BY DEF convVars
<1>2. kind' = kind
  BY DEF Elsewhere, Announce, MakeDir, MakeDirFails, MakeSubdir, MakeSubdirFails, DownloadSet,
         GetFile, GetFileFails, Respond, RespondTooMany, RequestFails, Retry, RetriesOver,
         Cancelled, Write, WriteFails, Compress, CompressFails, Upload, UploadFails,
         CleanFails, Dismiss, Offer, Fail
<1>3. pc # "convert"
  BY DEF Elsewhere, Announce, MakeDir, MakeDirFails, MakeSubdir, MakeSubdirFails, DownloadSet,
         GetFile, GetFileFails, Respond, RespondTooMany, RequestFails, Retry, RetriesOver,
         Cancelled, Write, WriteFails, Compress, CompressFails, Upload, UploadFails,
         CleanFails, Dismiss, Offer, Fail, Goto
<1>4. pc' \in {"compress", "upload"} => pc \in {"compress", "upload"}
  BY DEF Elsewhere, Announce, MakeDir, MakeDirFails, MakeSubdir, MakeSubdirFails, DownloadSet,
         GetFile, GetFileFails, Respond, RespondTooMany, RequestFails, Retry, RetriesOver,
         Cancelled, Write, WriteFails, Compress, CompressFails, Upload, UploadFails,
         CleanFails, Dismiss, Offer, Fail, Goto, Over, AfterUpload, IsSticker
<1>5. (CTyped /\ OnlyInConvert /\ FramesWhileUsed)'
  BY <1>1, <1>3 DEF CInv, CTyped, OnlyInConvert, FramesWhileUsed
<1>6. (WhichSteps /\ OutputSeen)' BY <1>1, <1>2 DEF CInv, WhichSteps, OutputSeen
<1>7. ConversionUsable' BY <1>1, <1>2, <1>4 DEF CInv, ConversionUsable
<1> QED BY <1>5, <1>6, <1>7 DEF CInv

LEMMA CStepInv == CInv /\ [CNext]_cvars => CInv'
<1> SUFFICES ASSUME CInv, [CNext]_cvars PROVE CInv' OBVIOUS
<1> USE ConversionAssumption
    DEF CInv, CTyped, WithFrames, OnlyInConvert, FramesWhileUsed, WhichSteps, OutputSeen,
        ConversionUsable
<1>1. CASE UNCHANGED cvars BY <1>1 DEF cvars
<1>2. CASE Begin
  BY <1>2 DEF Begin, Continue, At, vars
<1>3. CASE Png
  BY <1>3 DEF Png, Succeed, At, Convert, Goto
<1>4. CASE PngFails
  BY <1>4 DEF PngFails, Succeed, At, Convert, Goto
<1>5. CASE Gif
  BY <1>5 DEF Gif, Continue, At, vars
<1>6. CASE GifFails
  BY <1>6 DEF GifFails, GiveUp, At, ConvertFails, Fail, Goto
<1>7. CASE Optimize
  BY <1>7 DEF Optimize, Succeed, At, Convert, Goto
<1>8. CASE Read
  BY <1>8 DEF Read, Continue, At, vars
<1>9. CASE ReadFails
  BY <1>9 DEF ReadFails, GiveUp, At, ConvertFails, Fail, Goto
<1>10. CASE MakeFrames
  BY <1>10 DEF MakeFrames, Continue, At, vars
<1>11. CASE MakeFramesFails
  BY <1>11 DEF MakeFramesFails, GiveUp, At, ConvertFails, Fail, Goto
<1>12. CASE WriteJson
  BY <1>12 DEF WriteJson, Continue, At, vars
<1>13. CASE WriteJsonFails
  BY <1>13 DEF WriteJsonFails, Abort, Continue, At, vars
<1>14. CASE Tick
  BY <1>14 DEF Tick, At, vars
<1>15. CASE RenderFails
  BY <1>15 DEF RenderFails, Abort, Continue, At, vars
<1>16. CASE EncodeFails
  BY <1>16 DEF EncodeFails, Abort, Continue, At, vars
<1>17. CASE Render
  BY <1>17 DEF Render, Continue, At, vars
<1>18. CASE Encode
  BY <1>18 DEF Encode, Continue, At, vars
<1>19. CASE Stat
  BY <1>19 DEF Stat, Continue, At, vars
<1>20. CASE Unframe
  BY <1>20 DEF Unframe, Succeed, GiveUp, At, Convert, ConvertFails, Fail, Goto
<1>21. CASE CleanAll
  BY <1>21 DEF CleanAll, Clean, Goto, Over, IsSticker
<1>22. CASE Elsewhere /\ UNCHANGED <<format, convVars>>
  BY <1>22, ElsewhereInv
<1> QED BY <1>1, <1>2, <1>3, <1>4, <1>5, <1>6, <1>7, <1>8, <1>9, <1>10, <1>11, <1>12, <1>13, <1>14,
          <1>15, <1>16, <1>17, <1>18, <1>19, <1>20, <1>21, <1>22
     DEF CNext, Proceed, Exit, Kill

LEMMA CInvariance == CSpec => []CInv
BY CInitInv, CStepInv, PTL DEF CSpec

(* The task whose conversion runs step by step is a task.                    *)
THEOREM RefinesTask == CSpec => Spec
<1>1. CInit => Init BY DEF CInit
<1> QED BY <1>1, StepRefines, PTL DEF CSpec, Spec

(* The types, and so that no clock runs past the deadline.                   *)
THEOREM ConversionTyped == CSpec => []CTypeOK
<1>1. CInv /\ TypeOK => CTypeOK BY DEF CInv, CTyped, WithFrames, CTypeOK
<1>2. Spec => []TypeOK BY TypeCorrect
<1> QED BY <1>1, <1>2, CInvariance, RefinesTask, PTL

(* The other promises of a task hold whatever the programs do.               *)
THEOREM TaskPromises ==
  CSpec => [](DirRemoved /\ WholeFileUsed /\ Answered /\ ProgressGone)
BY RefinesTask, DirIsRemoved, WholeFileIsUsed, TaskIsAnswered,
   ProgressIsGone, PTL

(* Only a whole conversion of a .tgs file is used, and an original only of a *)
(* static sticker.                                                         *)
THEOREM ConversionIsUsable == CSpec => []ConversionUsable
<1>1. CInv => ConversionUsable BY DEF CInv
<1> QED BY <1>1, CInvariance, PTL

(* Every way out of tgsToGif comes by the removal of the frames.             *)
THEOREM FramesAreRemoved == CSpec => []FramesRemoved
<1>1. CInv => FramesRemoved BY DEF CInv, FramesWhileUsed, WithFrames, FramesRemoved
<1> QED BY <1>1, CInvariance, PTL
=============================================================================
