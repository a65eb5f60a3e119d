----------------------------- MODULE Conversion -----------------------------
(***************************************************************************)
(* ToPng and ToGif, step by step, inside a task: the Convert and           *)
(* ConvertFails of DownloadTask are the last thing a conversion does. Every *)
(* conversion runs external programs, which exit with an error, without    *)
(* one, or, for all the code knows, never; a .tgs file goes through two of *)
(* them that share one deadline and a directory of frames.                 *)
(***************************************************************************)
EXTENDS DownloadTask

CONSTANT Timeout  \* tgsTimeout

ASSUME ConversionAssumption == Timeout \in Nat \ {0}

VARIABLES format,  \* of a video sticker's file: "tgs" or "video"
          step,    \* where the conversion is; "idle" when none is under way
          err,     \* the error it is going to return: "nil" or "failed"
          clock,   \* how long ago the deadline of the .tgs file was set
          frames,  \* its directory of frames: "none", "there", "gone", "stuck"
          out,     \* the file it makes
          path     \* the file it returns: "original" or "converted"

convVars == <<step, err, clock, frames, out, path>>
cvars == <<kind, pc, dir, progress, requests, file, sent, messages,
           format, step, err, clock, frames, out, path>>

CTypeOK ==
  /\ TypeOK
  /\ format \in {"tgs", "video"}
  /\ step \in {"idle", "png", "gif", "optimize", "read", "mkdir", "json",
               "render", "encode", "stat", "unframe"}
  /\ err \in {"nil", "failed"}
  /\ clock \in 0..Timeout
  /\ frames \in {"none", "there", "gone", "stuck"}
  /\ out \in {"none", "partial", "full",
              "spoilt"}  \* by an optimizer that fails half way through it
  /\ path \in {"original", "converted"}

CInit ==
  /\ Init
  /\ format \in (IF kind = "video" THEN {"tgs", "video"} ELSE {"video"})
  /\ step = "idle" /\ err = "nil" /\ clock = 0
  /\ frames = "none" /\ out = "none" /\ path = "original"

At(from) == pc = "convert" /\ step = from

(* To the next step, with nothing else changed but what the action says.    *)
Continue(from, to) ==
  /\ At(from) /\ step' = to
  /\ UNCHANGED <<vars, format>>

(* The conversion returns a path, or an error.                              *)
Succeed(from, to) == /\ At(from) /\ step' = "idle" /\ Convert
                     /\ path' = to /\ UNCHANGED <<format, err>>
GiveUp(from) == /\ At(from) /\ step' = "idle" /\ ConvertFails
                /\ UNCHANGED <<format, err, path>>

Begin ==
  /\ Continue("idle", CASE kind = "static" -> "png"
                        [] format = "tgs" -> "read"
                        [] OTHER -> "gif")
  /\ UNCHANGED <<err, clock, frames, out, path>>

-----------------------------------------------------------------------------
(* ToPng. Where it fails its caller takes the original.                     *)

Png ==
  /\ Succeed("png", "converted") /\ out' \in {"none", "full"}
  /\ UNCHANGED <<clock, frames>>

PngFails ==
  /\ Succeed("png", "original") /\ out' \in {"none", "partial"}
  /\ UNCHANGED <<clock, frames>>

-----------------------------------------------------------------------------
(* ToGif of anything but .tgs. Neither program has a deadline, and that an  *)
(* exit without an error leaves a file is not looked at.                   *)

Gif ==
  /\ Continue("gif", "optimize") /\ out' \in {"none", "full"}
  /\ UNCHANGED <<err, clock, frames, path>>

GifFails ==
  /\ GiveUp("gif") /\ out' \in {"none", "partial"}
  /\ UNCHANGED <<clock, frames>>

(* gifsicle, which works in place, and whose failure is ignored.            *)
Optimize ==
  /\ Succeed("optimize", "converted")
  /\ out' \in {out} \cup IF out = "full" THEN {"spoilt"} ELSE {}
  /\ UNCHANGED <<clock, frames>>

-----------------------------------------------------------------------------
(* ToGif of .tgs: tgsToGif and pngFramesToGif *)

(* readTGS and validateLottieTiming *)
Read ==
  /\ Continue("read", "mkdir")
  /\ UNCHANGED <<err, clock, frames, out, path>>

ReadFails == GiveUp("read") /\ UNCHANGED <<clock, frames, out>>

MakeFrames ==
  /\ Continue("mkdir", "json")
  /\ frames' = "there"
  /\ UNCHANGED <<err, clock, out, path>>

MakeFramesFails == GiveUp("mkdir") /\ UNCHANGED <<clock, frames, out>>

(* animation.json is written and the deadline set.                          *)
WriteJson ==
  /\ Continue("json", "render")
  /\ clock' = 0
  /\ UNCHANGED <<err, frames, out, path>>

(* An error, and from here on the way out is by the deferred RemoveAll.     *)
Abort(from) ==
  /\ Continue(from, "unframe")
  /\ err' = "failed"
  /\ UNCHANGED <<clock, frames, path>>

(* A return before the deferred function is set up. *)
MutJsonFailsBeforeDefer == GiveUp("json") /\ UNCHANGED <<clock, frames, out>>

WriteJsonFails == Abort("json") /\ UNCHANGED out

Render ==
  /\ Continue("render", "encode")
  /\ UNCHANGED <<err, clock, frames, out, path>>

RenderFails == Abort("render") /\ UNCHANGED out

Encode ==
  /\ Continue("encode", "stat") /\ out' \in {"none", "full"}
  /\ UNCHANGED <<err, clock, frames, path>>

EncodeFails == Abort("encode") /\ out' \in {"none", "partial"}

Tick ==
  /\ At("render") \/ At("encode")
  /\ clock < Timeout /\ clock' = clock + 1
  /\ UNCHANGED <<vars, format, step, err, frames, out, path>>

(* The encoder is started without the context. *)
MutKillRenderer ==
  /\ clock = Timeout
  /\ RenderFails

(* The deadline is over: the program is killed, whichever of the two it is. *)
Kill ==
  /\ clock = Timeout
  /\ RenderFails \/ EncodeFails

(* The output taken for granted. *)
MutStat ==
  /\ Continue("stat", "unframe")
  /\ UNCHANGED <<err, clock, frames, out, path>>

(* os.Stat of the output *)
Stat ==
  /\ Continue("stat", "unframe")
  /\ err' = IF out = "none" THEN "failed" ELSE err
  /\ UNCHANGED <<clock, frames, out, path>>

(* The deferred RemoveAll, whose error is dropped.                          *)
Unframe ==
  /\ \/ err = "nil" /\ Succeed("unframe", "converted")
     \/ err = "failed" /\ GiveUp("unframe")
  /\ frames' \in {"gone", "stuck"}
  /\ UNCHANGED <<clock, out>>

-----------------------------------------------------------------------------
(* What comes before and after it: the archive and the document are made of *)
(* the file whose path was returned, if it is there.                       *)
OutputThere == path = "original" \/ out # "none"

Elsewhere ==
  \/ Announce \/ MakeDir \/ MakeDirFails \/ MakeSubdir \/ MakeSubdirFails
  \/ DownloadSet
  \/ GetFile \/ GetFileFails \/ Respond \/ RespondTooMany \/ RequestFails
  \/ Retry \/ RetriesOver \/ Cancelled \/ Write \/ WriteFails
  \/ (Compress \/ (kind # "animation" /\ Upload)) /\ OutputThere
  \/ (kind = "animation" /\ Upload)
  \/ CompressFails \/ UploadFails \/ CleanFails \/ Dismiss \/ Offer

(* The frames, where they are stuck, and the output go with the directory.  *)
CleanAll ==
  /\ Clean
  /\ frames' = (IF frames = "none" THEN "none" ELSE "gone") /\ out' = "none"
  /\ UNCHANGED <<format, step, err, clock, path>>

(* The exits of the programs that have a deadline.                          *)
Exit == Render \/ RenderFails \/ Encode \/ EncodeFails

Proceed ==
  \/ Begin \/ Png \/ PngFails \/ Gif \/ GifFails \/ Optimize
  \/ Read \/ ReadFails \/ MakeFrames \/ MakeFramesFails
  \/ WriteJson \/ WriteJsonFails \/ Tick \/ Kill \/ Stat \/ Unframe
  \/ Elsewhere /\ UNCHANGED <<format, convVars>>
  \/ CleanAll

CNext == Proceed \/ Exit

CSpec == CInit /\ [][CNext]_cvars

(* Every call returns and every program without a deadline exits; those     *)
(* that have one need not.                                                 *)
FairCSpec == CSpec /\ WF_cvars(Proceed)

-----------------------------------------------------------------------------
(* PROPERTIES *)

(* What goes into an archive or to the user is the original, for a static   *)
(* sticker, or a conversion that no program was killed or failed in: of a   *)
(* .tgs file one that is there and whole, else one that is missing at worst *)
(* or that the optimizer has spoilt.                                       *)
ConversionUsable ==
  pc \in {"compress", "upload"} =>
    IF path = "original" THEN kind = "static"
    ELSE out \in (IF format = "tgs" THEN {"full"} ELSE {"none", "full", "spoilt"})

(* No frames are left once the conversion has returned, whichever way it    *)
(* went, unless their removal itself has failed: a task may go on for long. *)
FramesRemoved == step = "idle" => frames # "there"
=============================================================================
