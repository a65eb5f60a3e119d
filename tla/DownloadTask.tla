---------------------------- MODULE DownloadTask ----------------------------
(***************************************************************************)
(* One task, from the slot it has been given to its end: the functions     *)
(* HandleMessage runs through tryRunTask, with the directory they make,    *)
(* the progress message they show, the file they fetch and the answer they *)
(* give. Every call out of the process may fail. A set's download is one   *)
(* step here, and a module of its own (SetDownload).                       *)
(***************************************************************************)
EXTENDS Naturals

CONSTANT MaxRetries  \* requests downloadTelegramFile makes before it gives up

ASSUME DownloadTaskAssumption == MaxRetries \in Nat \ {0}

Kinds ==
  { "static",     \* a sticker that becomes a PNG
    "video",      \* a video or animated sticker, which becomes a GIF
    "animation",  \* a GIF the user has sent
    "set" }       \* a whole set, by link or by button

VARIABLES kind,      \* what is downloaded
          pc,        \* where the task is
          dir,       \* its directory: "none", "there", "gone" or "stuck"
          progress,  \* its progress message: "none", "shown", "gone" or "stuck"
          requests,  \* requests made for the file
          file,      \* the file on disk: "none", "partial" or "full"
          sent,      \* a document has reached the user: 0 or 1
          told,      \* what the user has been told of
          unheard    \* messages to the user that Telegram has not taken

messages == <<told, unheard>>
vars == <<kind, pc, dir, progress, requests, file, sent, messages>>

Labels ==
  { "announce", "mkdir", "subdir", "getFile", "request", "backoff", "write",
    "convert", "compress", "upload", "set",
    "return",      \* the deferred CleanUserDir
    "dismiss",     \* the progress message of a sticker, after HandleDownload
    "dismissGif",  \* that of an animation, before the deferred function
    "offer", "end" }

Messages == {"fatal", "uploadFailed", "setReport"}

TypeOK ==
  /\ kind \in Kinds
  /\ pc \in Labels
  /\ dir \in {"none", "there", "gone", "stuck"}
  /\ progress \in {"none", "shown", "gone", "stuck"}
  /\ requests \in 0..MaxRetries
  /\ file \in {"none", "partial", "full"}
  /\ sent \in 0..1
  /\ told \in SUBSET Messages /\ unheard \in SUBSET Messages

Init ==
  /\ kind \in Kinds
  /\ pc = IF kind = "set" THEN "mkdir" ELSE "announce"
  /\ dir = "none" /\ progress = "none"
  /\ requests = 0 /\ file = "none"
  /\ sent = 0 /\ told = {} /\ unheard = {}

IsSticker == kind \in {"static", "video"}

(* The sticker's progress message deleted only where its document was sent. *)
MutOver == IF IsSticker /\ sent = 1 THEN "dismiss" ELSE "end"

(* Where a task goes when HandleDownload or handleAnimationDownload is over. *)
Over == IF IsSticker THEN "dismiss" ELSE "end"

Goto(from, to) == pc = from /\ pc' = to

(* sendText, which only logs that Telegram has not taken the message.       *)
SendText(m) ==
  \/ told' = told \cup {m} /\ UNCHANGED unheard
  \/ unheard' = unheard \cup {m} /\ UNCHANGED told

(* The task gives up at a label: a message to the user says so, and the     *)
(* deferred functions run that have been set up so far.                    *)
Fail(from, to) ==
  /\ Goto(from, to)
  /\ SendText("fatal")
  /\ UNCHANGED <<kind, dir, progress, requests, sent>>

-----------------------------------------------------------------------------
(* sendProgress *)
Announce ==
  /\ Goto("announce", "mkdir")
  /\ progress' \in {"none", "shown"}
  /\ UNCHANGED <<kind, dir, requests, file, sent, messages>>

(* CreateUserDir *)
MakeDir ==
  /\ Goto("mkdir", IF kind = "animation" THEN "getFile" ELSE "subdir")
  /\ dir' = "there"
  /\ UNCHANGED <<kind, progress, requests, file, sent, messages>>

MakeDirFails == Fail("mkdir", Over) /\ UNCHANGED file

(* os.MkdirAll of the download directory *)
MakeSubdir ==
  /\ Goto("subdir", IF kind = "set" THEN "set" ELSE "getFile")
  /\ UNCHANGED <<kind, dir, progress, requests, file, sent, messages>>

(* A return before the deferred function is set up. *)
MutSubdirFailsBeforeDefer == Fail("subdir", Over) /\ UNCHANGED file

MakeSubdirFails == Fail("subdir", "return") /\ UNCHANGED file

(* downloadStickerSet, which sends and reports by itself.                   *)
DownloadSet ==
  /\ Goto("set", "return")
  /\ \/ sent' = 1 /\ UNCHANGED messages
     \/ sent' \in 0..1 /\ SendText("setReport")
  /\ UNCHANGED <<kind, dir, progress, requests, file>>

-----------------------------------------------------------------------------
(* downloadTelegramFile *)

GetFile ==
  /\ Goto("getFile", "request")
  /\ UNCHANGED <<kind, dir, progress, requests, file, sent, messages>>

GetFileFails == Fail("getFile", "return") /\ UNCHANGED file

(* Status 200: the body is there to be read.                                *)
Respond ==
  /\ Goto("request", "write")
  /\ requests' = requests + 1
  /\ UNCHANGED <<kind, dir, progress, file, sent, messages>>

(* Status 429                                                               *)
RespondTooMany ==
  /\ Goto("request", "backoff")
  /\ requests' = requests + 1
  /\ UNCHANGED <<kind, dir, progress, file, sent, messages>>

(* No connection, or another status.                                        *)
RequestFails ==
  /\ Goto("request", "return")
  /\ requests' = requests + 1
  /\ SendText("fatal")
  /\ UNCHANGED <<kind, dir, progress, file, sent>>

(* The loop's bound is off by one. *)
MutRetryOnceMore ==
  /\ requests <= MaxRetries
  /\ Goto("backoff", "request")
  /\ UNCHANGED <<kind, dir, progress, requests, file, sent, messages>>

(* The wait is over and the loop goes on.                                   *)
Retry ==
  /\ requests < MaxRetries
  /\ Goto("backoff", "request")
  /\ UNCHANGED <<kind, dir, progress, requests, file, sent, messages>>

(* The wait after the last request is over too: the response in hand is     *)
(* still the one with status 429.                                          *)
RetriesOver ==
  /\ requests = MaxRetries
  /\ Fail("backoff", "return")
  /\ UNCHANGED file

(* The context is cancelled during the wait.                                *)
Cancelled == Fail("backoff", "return") /\ UNCHANGED file

Write ==
  /\ Goto("write", "convert")
  /\ file' = "full"
  /\ UNCHANGED <<kind, dir, progress, requests, sent, messages>>

(* A copy that is cut off is taken for the file. *)
MutWriteFailsUnnoticed ==
  /\ Goto("write", "convert")
  /\ file' = "partial"
  /\ UNCHANGED <<kind, dir, progress, requests, sent, messages>>

(* Not created, not written to its end, or removed for its size.            *)
WriteFails ==
  /\ Fail("write", "return")
  /\ file' \in {"none", "partial"}

-----------------------------------------------------------------------------
(* Conversion and answer *)

(* ToGif or ToPng; a static sticker that cannot be converted is sent as it  *)
(* is.                                                                     *)
Convert ==
  /\ Goto("convert", IF kind = "animation" THEN "compress" ELSE "upload")
  /\ UNCHANGED <<kind, dir, progress, requests, file, sent, messages>>

ConvertFails ==
  /\ kind # "static"
  /\ Fail("convert", "return")
  /\ UNCHANGED file

Compress ==
  /\ Goto("compress", "upload")
  /\ UNCHANGED <<kind, dir, progress, requests, file, sent, messages>>

(* A failure that is only logged. *)
MutCompressFailsSilent ==
  /\ Goto("compress", "return")
  /\ UNCHANGED <<kind, dir, progress, requests, file, sent, messages>>

CompressFails == Fail("compress", "return") /\ UNCHANGED file

AfterUpload == IF kind = "animation" THEN "dismissGif" ELSE "return"

Upload ==
  /\ Goto("upload", AfterUpload)
  /\ sent' = 1
  /\ UNCHANGED <<kind, dir, progress, requests, file, messages>>

UploadFails ==
  /\ Goto("upload", AfterUpload)
  /\ SendText("uploadFailed")
  /\ UNCHANGED <<kind, dir, progress, requests, file, sent>>

-----------------------------------------------------------------------------
(* The way out *)

(* The deferred CleanUserDir: the files go with the directory.              *)
Clean ==
  /\ Goto("return", Over)
  /\ dir' = "gone"
  /\ file' = "none"
  /\ UNCHANGED <<kind, progress, requests, sent, messages>>

CleanFails ==
  /\ Goto("return", Over)
  /\ dir' = "stuck"
  /\ UNCHANGED <<kind, progress, requests, file, sent, messages>>

(* deleteMessage, which may fail.                                           *)
Dismiss ==
  /\ \/ Goto("dismiss", "offer")
     \/ Goto("dismissGif", "return")
  /\ progress' \in (IF progress = "shown" THEN {"gone", "stuck"} ELSE {progress})
  /\ UNCHANGED <<kind, dir, requests, file, sent, messages>>

(* The offer of the whole set, if the sticker belongs to one.               *)
Offer ==
  /\ Goto("offer", "end")
  /\ UNCHANGED <<kind, dir, progress, requests, file, sent, messages>>

Next ==
  \/ Announce \/ MakeDir \/ MakeDirFails \/ MakeSubdir \/ MakeSubdirFails
  \/ DownloadSet
  \/ GetFile \/ GetFileFails \/ Respond \/ RespondTooMany \/ RequestFails
  \/ Retry \/ RetriesOver \/ Cancelled \/ Write \/ WriteFails
  \/ Convert \/ ConvertFails \/ Compress \/ CompressFails
  \/ Upload \/ UploadFails \/ Clean \/ CleanFails \/ Dismiss \/ Offer

Spec == Init /\ [][Next]_vars

(* Every call returns. *)
FairSpec == Spec /\ WF_vars(Next)

-----------------------------------------------------------------------------
(* PROPERTIES *)

(* A task that is over has removed its directory, on every one of its       *)
(* returns, unless the removal itself failed.                              *)
DirRemoved == pc = "end" => dir # "there"

(* Whatever is converted, compressed or sent is a file that was read to its *)
(* end, in a directory that is still there.                                *)
WholeFileUsed ==
  pc \in {"convert", "compress", "upload"} => file = "full" /\ dir = "there"

Said == told \cup unheard \* whether Telegram has taken it or not

(* No task ends in silence, but for one whose message Telegram would not    *)
(* take: the user has a document, or a message about it has been sent off. *)
Answered == pc = "end" => sent = 1 \/ Said # {}

(* A progress message outlives its task only if Telegram would not delete   *)
(* it, or if the task is an animation's and gave up: its early returns do   *)
(* not come by the deletion.                                               *)
ProgressGone ==
  pc = "end" /\ progress = "shown" => kind = "animation" /\ "fatal" \in Said

(* The task ends, however often Telegram answers with 429.                  *)
Ends == <>(pc = "end")
=============================================================================
