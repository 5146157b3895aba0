----------------------------- MODULE PocketStore -----------------------------
(***************************************************************************)
(* The brick's progress on its microSD card: RAM (srs.cpp), progress.json  *)
(* and progress.json.tmp, the steps of sdReplace (sd_store.cpp), and the   *)
(* sync of sync.cpp around them.  Each card operation may fail, and power  *)
(* may go between any two.                                                 *)
(*                                                                         *)
(* The firmware is one loop: nothing else runs while a save or a sync is   *)
(* under way.  Progress is the set of answers it holds, and a merge is a   *)
(* union: which card wins among equals is ProgressMerge's subject.         *)
(***************************************************************************)
EXTENDS Integers, FiniteSets

CONSTANTS
  Answer,    \* answers given here
  Remote     \* answers given elsewhere, known to the account

ASSUME StoreAssumption == Answer \cap Remote = {}

VARIABLES
  power,
  ram,      \* cards, seen, chapters and days
  file,     \* /pocket/progress.json
  tmp,      \* /pocket/progress.json.tmp
  step,     \* the next card operation of sdReplace, or none
  sync,     \* where pullPushProgress waits for a save or the network
  upload,   \* the bytes of the PUT
  known,  \* what the account holds
  safe,     \* what boot found on the card, then what the last save left there
  refused   \* the operations the card has refused since power on

card == <<file, tmp>>
history == <<safe, refused>>
net == <<sync, upload, known>>
pocketVars == <<power, ram, card, step, net, history>>

Progress == SUBSET (Answer \cup Remote)
File == [is : {"missing", "torn", "whole"}, has : Progress]
Missing == [is |-> "missing", has |-> {}]
Torn == [is |-> "torn", has |-> {}]
Whole(answers) == [is |-> "whole", has |-> answers]
Complete(f) == f.is = "whole"

PocketInit ==
  /\ power = TRUE /\ ram = {} /\ file = Missing /\ tmp = Missing
  /\ step = "none" /\ sync = "none" /\ upload = {}
  /\ known = Remote
  /\ safe = {} /\ refused = {}

-----------------------------------------------------------------------------
(* sdReplace *)

Idle == power /\ step = "none"
StartSave == step' = "clean"

CleanMakesRoom ==  \* mutant: the old file goes before the new one is written
  /\ power /\ step = "clean"
  /\ tmp' = Missing /\ file' = Missing /\ step' = "write"
  /\ UNCHANGED <<power, ram, net, history>>

\* A stale tmp is removed.
Clean ==
  /\ power /\ step = "clean"
  /\ tmp' = Missing /\ step' = "write"
  /\ UNCHANGED <<power, ram, file, net, history>>

\* open and write; torn until the close, which flushes it.
Write ==
  /\ power /\ step = "write"
  /\ tmp' = Torn /\ step' = "close"
  /\ UNCHANGED <<power, ram, file, net, history>>

CloseUnchecked ==  \* mutant: wrote is not compared with length
  /\ power /\ step = "close" /\ step' = "remove"
  /\ tmp' \in {Whole(ram), Torn}
  /\ UNCHANGED <<power, ram, file, net, history>>

\* wrote is what write() took.  Nobody looks at what close() did with the rest:
\* a flush the card refuses leaves a torn tmp, and the save goes on.
CloseTmp ==
  /\ power /\ step = "close" /\ step' = "remove"
  /\ \/ tmp' = Whole(ram) /\ UNCHANGED refused
     \/ tmp' = Torn /\ refused' = refused \cup {"flush"}
  /\ UNCHANGED <<power, ram, file, net, safe>>

\* The save failed.  Only the one after a PUT's answer is tried again, once.
SaveFails ==
  /\ IF sync = "last" THEN step' = "clean" ELSE step' = "none"
  /\ sync' = IF sync = "last" THEN "retry" ELSE IF sync = "retry" THEN "none" ELSE sync
  /\ UNCHANGED <<power, ram, upload, known, safe>>

\* open fails or write comes up short: the tmp is removed, the file stays.
WriteFails ==
  /\ power /\ step \in {"write", "close"}
  /\ tmp' = Missing /\ refused' = refused \cup {"write"}
  /\ SaveFails
  /\ UNCHANGED file

\* remove's result is not looked at.
Remove ==
  /\ power /\ step = "remove"
  /\ \/ file' = Missing /\ UNCHANGED refused
     \/ UNCHANGED file /\ file # Missing /\ refused' = refused \cup {"remove"}
  /\ step' = "rename"
  /\ UNCHANGED <<power, ram, tmp, net, safe>>

Rename ==
  /\ power /\ step = "rename" /\ file = Missing
  /\ file' = tmp /\ tmp' = Missing /\ step' = "none" /\ safe' = tmp.has
  /\ sync' = IF sync \in {"last", "retry"} THEN "none" ELSE sync
  /\ UNCHANGED <<power, ram, upload, known, refused>>

\* rename fails, as it must when the old file is still there; the tmp stays.
RenameFails ==
  /\ power /\ step = "rename"
  /\ refused' = IF file = Missing THEN refused \cup {"rename"} ELSE refused
  /\ SaveFails
  /\ UNCHANGED card

-----------------------------------------------------------------------------
(* srs.cpp *)

GradeUnsaved(a) ==  \* mutant: srsGrade does not call srsSave
  /\ Idle /\ sync = "none" /\ a \notin ram
  /\ ram' = ram \cup {a}
  /\ UNCHANGED <<power, card, step, net, history>>

\* srsGrade, and its srsSave begins.
GradeOne(a) ==
  /\ Idle /\ sync = "none" /\ a \notin ram
  /\ ram' = ram \cup {a}
  /\ StartSave
  /\ UNCHANGED <<power, card, net, history>>

\* loadFile: a file that is missing or does not parse leaves RAM as it is.
Loaded == IF Complete(file) THEN file.has ELSE ram

PowerCut ==
  /\ power
  /\ power' = FALSE /\ ram' = {} /\ step' = "none" /\ sync' = "none" /\ upload' = {}
  /\ UNCHANGED <<card, known, history>>

\* setup: srsBegin loads the file; nobody looks at the tmp.
PowerOn ==
  /\ ~power
  /\ power' = TRUE /\ ram' = Loaded
  /\ safe' = Loaded /\ refused' = {}
  /\ UNCHANGED <<card, step, net>>

-----------------------------------------------------------------------------
(* pullPushProgress *)

\* srsReload, and a first save if there is no file.
SyncBegin ==
  /\ Idle /\ sync = "none"
  /\ ram' = Loaded /\ sync' = "get"
  /\ IF file = Missing THEN StartSave ELSE UNCHANGED step
  /\ UNCHANGED <<power, card, upload, known, history>>

\* The GET's answer is merged and saved.
GetMerges ==
  /\ Idle /\ sync = "get" /\ sync' = "put"
  /\ ram' = ram \cup known
  /\ StartSave
  /\ UNCHANGED <<power, card, upload, known, history>>

\* 404 or another failure: the upload is tried all the same.
GetFails ==
  /\ Idle /\ sync = "get" /\ sync' = "put"
  /\ UNCHANGED <<power, ram, card, step, upload, known, history>>

\* The bytes of progress.json are sent, whatever RAM holds.
PutSends ==
  /\ Idle /\ sync = "put" /\ Complete(file)
  /\ upload' = file.has /\ sync' = "sent"
  /\ UNCHANGED <<power, ram, card, step, known, history>>

AccountMerges ==
  /\ power /\ sync = "sent" /\ sync' = "reply"
  /\ known' = known \cup upload
  /\ UNCHANGED <<power, ram, card, step, upload, history>>

\* The PUT's answer is merged and saved, and saved again if that fails; if it
\* does not parse, what there is is saved, once.
ReplyMerges(parses) ==
  /\ Idle /\ sync = "reply" /\ sync' = IF parses THEN "last" ELSE "retry"
  /\ ram' = IF parses THEN ram \cup known ELSE ram
  /\ upload' = {}
  /\ StartSave
  /\ UNCHANGED <<power, card, known, history>>

\* A 401, no connection, a lost reply, a torn file the account does not take,
\* or "Could not read /pocket/progress.json on the SD card."
SyncStops ==
  /\ Idle
  /\ sync \in {"get", "sent", "reply"} \/ (sync = "put" /\ ~Complete(file))
  /\ sync' = "none" /\ upload' = {}
  /\ UNCHANGED <<power, ram, card, step, known, history>>

-----------------------------------------------------------------------------
Save == Clean \/ Write \/ CloseTmp \/ WriteFails \/ Remove \/ Rename \/ RenameFails
Sync ==
  \/ SyncBegin \/ GetMerges \/ GetFails \/ PutSends \/ AccountMerges
  \/ \E parses \in BOOLEAN : ReplyMerges(parses)
  \/ SyncStops

PocketNext == Save \/ Sync \/ PowerCut \/ PowerOn \/ \E a \in Answer : GradeOne(a)

PocketSpec == PocketInit /\ [][PocketNext]_pocketVars

-----------------------------------------------------------------------------
(* Properties. *)

\* Every variable has its type, and a save past its close has a whole tmp but
\* for a refused flush.
PocketTypeOK ==
  /\ power \in BOOLEAN /\ ram \in Progress
  /\ file \in File /\ tmp \in File
  /\ step \in {"none", "clean", "write", "close", "remove", "rename"}
  /\ ~power => step = "none"
  /\ sync \in {"none", "get", "put", "sent", "reply", "last", "retry"}
  /\ upload \in Progress /\ known \in Progress
  /\ safe \in Progress /\ refused \subseteq {"write", "flush", "remove", "rename"}
  /\ step \in {"remove", "rename"} /\ "flush" \notin refused => Complete(tmp)

\* sdReplace: only a flush the card refused at a close tears progress.json.  A
\* short write, a refused remove or rename and a power cut at any instant leave
\* it whole or missing.
OnlyFlushTears == [][file' = Torn => file = Torn \/ "flush" \in refused]_pocketVars

\* What a boot would find.
OnCard == IF Complete(file) THEN file.has ELSE {}

\* sdReplace: writes and removes the card refuses take nothing from the file a
\* boot reads: while power is on, the last save (or what boot found) is in
\* progress.json itself but for the moment between the remove and the rename.
\* Power that goes in that moment leaves the last save in the tmp alone, which no
\* boot reads.
FileKeepsSave ==
  power /\ step # "rename" /\ refused \subseteq {"write", "remove"} => safe \subseteq OnCard

\* As long as the card does what it is told and power is on, no answer leaves
\* RAM: the reload before a sync finds all of them saved.
NothingDropped ==
  [][power /\ power' /\ refused = {} => ram \subseteq ram']_pocketVars
=============================================================================
