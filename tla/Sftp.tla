-------------------------------- MODULE Sftp --------------------------------
(* Files of a server over the SFTP channel of its session: sftpHandler.ts     *)
(* copies a file into a folder of its own for an editor and sends back every  *)
(* save (ConnectionManager.ts ends that with the session), and sftpListing.ts *)
(* reads a folder. One session and one remote file, opened any number of      *)
(* times; a file has two halves, so that an upload can be caught in between.  *)

EXTENDS Naturals

CONSTANTS
  Opens,       \* the times the file is opened for editing
  MaxSaves,    \* bound: saves of the editors
  MaxEntries   \* ListingLimits: entries of a folder that are read

ASSUME SftpConstants == MaxSaves \in Nat /\ MaxEntries \in Nat \ {0}

VARIABLES
  connected,  \* connectionManager.sessions has the session
  served,     \* the halves of the file on the server
  sync,       \* per open, the copy and what sends it back
  saves,      \* versions saved so far; 0 is the server's own
  folder      \* a listing

edits == <<connected, served, sync, saves>>
sftp == <<edits, folder>>

Hole == MaxSaves + 1  \* a half that an upload has not written yet
Whole(v) == <<v, v>>

NotOpened == [
  stage |-> "no",        \* "download", then "on"; "ended", or "failed" in the download
  dir |-> FALSE,         \* the folder with the copy exists
  copy |-> Whole(0),
  timer |-> FALSE,       \* the debounce runs
  upload |-> "no",       \* halves it has sent: "none", "one", "both"
  pending |-> FALSE,     \* pendingUpload
  failed |-> FALSE,      \* the last upload failed
  overwritten |-> FALSE] \* another open wrote to the file since this one began to

NoListing == [
  stage |-> "no",        \* "opening", "reading", "settled"
  handle |-> "none",     \* opendir: "asked", "refused", "open", "closed"
  timer |-> FALSE,
  entries |-> 0,
  answer |-> "none"]     \* "whole", "truncated", "error"

SftpInit ==
  /\ connected = TRUE /\ served = Whole(0) /\ saves = 0
  /\ sync = [o \in Opens |-> NotOpened] /\ folder = NoListing

Set(o, r) == sync' = [sync EXCEPT ![o] = r]

--------------------------------------------------
(* Opening a file: sftp-edit-sync *)

(* SftpDownloader.create: the folder is kept, to be removed by the caller. *)
Created(r) == [r EXCEPT !.dir = TRUE]

OpenFile(o) ==
  /\ connected /\ sync[o].stage = "no"
  /\ Set(o, Created([sync[o] EXCEPT !.stage = "download", !.overwritten = FALSE]))
  /\ UNCHANGED <<connected, served, saves>>

(* A slip: the session is not looked up again. *)
RegisteredUnchecked(r) == [r EXCEPT !.stage = "on"]

(* The session may have closed during the download: its clean-up has run. *)
Registered(r) ==
  IF connected THEN [r EXCEPT !.stage = "on"] ELSE [r EXCEPT !.stage = "ended", !.dir = FALSE]

DownloadEnds(o) ==
  /\ sync[o].stage = "download"
  /\ Set(o, Registered([sync[o] EXCEPT !.copy = served]))
  /\ UNCHANGED <<connected, served, saves>>

(* An error of the stream, or more than 5 MB: the folder stays behind. *)
DownloadFails(o) ==
  /\ sync[o].stage = "download"
  /\ Set(o, [sync[o] EXCEPT !.stage = "failed"])
  /\ UNCHANGED <<connected, served, saves>>

--------------------------------------------------
(* Sending saves back *)

(* The editor writes the file in place; every change starts the debounce anew. *)
Save(o) ==
  /\ sync[o].stage = "on" /\ saves < MaxSaves
  /\ saves' = saves + 1
  /\ Set(o, [sync[o] EXCEPT !.copy = Whole(saves'), !.timer = TRUE])
  /\ UNCHANGED <<connected, served>>

Uploading(r) == [r EXCEPT !.upload = "none", !.pending = FALSE, !.failed = FALSE, !.overwritten = FALSE]

(* doUpload, up to the streams: one upload at a time, the next one waits. *)
DoUpload(r) == IF r.upload = "no" THEN Uploading(r) ELSE [r EXCEPT !.pending = TRUE]

DebounceFires(o) ==
  /\ sync[o].timer
  /\ Set(o, DoUpload([sync[o] EXCEPT !.timer = FALSE]))
  /\ UNCHANGED <<connected, served, saves>>

(* SftpUploader.read_chunk: what the copy has at that moment. *)
ReadChunk(o, half) == sync[o].copy[half]

(* The file is emptied as the stream opens it, then written half by half. *)
Writes(o) ==
  /\ sync[o].upload \in {"none", "one"}
  /\ LET next == IF sync[o].upload = "none" THEN "one" ELSE "both" IN
       /\ served' = IF next = "one" THEN <<ReadChunk(o, 1), Hole>>
                    ELSE [served EXCEPT ![2] = ReadChunk(o, 2)]
       /\ sync' = [p \in Opens |->
            IF p = o THEN [sync[p] EXCEPT !.upload = next] ELSE [sync[p] EXCEPT !.overwritten = TRUE]]
  /\ UNCHANGED <<connected, saves>>

(* A slip: what waits for the end of an upload waits for the next change. *)
EndedForNow(r) == [r EXCEPT !.upload = "no"]

(* The finally of doUpload. *)
Ended(r) == LET next == [r EXCEPT !.upload = "no"] IN IF r.pending THEN Uploading(next) ELSE next

UploadEnds(o) ==
  /\ \/ sync[o].upload = "both" /\ Set(o, Ended(sync[o]))
     \/ sync[o].upload # "no" /\ Set(o, Ended([sync[o] EXCEPT !.failed = TRUE]))
  /\ UNCHANGED <<connected, served, saves>>

--------------------------------------------------
(* The end *)

(* stopSftpWatcher and dispose. An upload under way goes on to its end. The *)
(* removal of the folder is taken to succeed.                               *)
Stopped(r) == [r EXCEPT !.stage = "ended", !.dir = FALSE, !.timer = FALSE, !.pending = FALSE]

(* sftp-edit-stop. *)
EditStops(o) ==
  /\ sync[o].stage = "on" /\ Set(o, Stopped(sync[o]))
  /\ UNCHANGED <<connected, served, saves>>

(* removeSession. *)
SessionEnds ==
  /\ connected /\ connected' = FALSE
  /\ sync' = [o \in Opens |-> IF sync[o].stage = "on" THEN Stopped(sync[o]) ELSE sync[o]]
  /\ UNCHANGED <<served, saves>>

EditsNext ==
  \/ \E o \in Opens :
       \/ OpenFile(o) \/ DownloadEnds(o) \/ DownloadFails(o)
       \/ Save(o) \/ DebounceFires(o) \/ Writes(o) \/ UploadEnds(o) \/ EditStops(o)
  \/ SessionEnds

--------------------------------------------------
(* Listing a folder: listDirectoryBounded *)

(* finish: the handle is closed, and what comes later is not heard. *)
Finished(f, answer) ==
  [f EXCEPT !.stage = "settled", !.timer = FALSE, !.answer = answer,
            !.handle = IF @ = "open" THEN "closed" ELSE @]

ListFolder ==
  /\ folder.stage = "no"
  /\ folder' = [NoListing EXCEPT !.stage = "opening", !.handle = "asked", !.timer = TRUE]

(* A slip: a handle that comes late is kept. *)
OpenedLate(f) == [f EXCEPT !.handle = "open"]

(* The answer to opendir, after the deadline too. *)
Opened(f) == IF f.stage = "settled" THEN [f EXCEPT !.handle = "closed"]
             ELSE [f EXCEPT !.stage = "reading", !.handle = "open"]

DirOpens == folder.handle = "asked" /\ folder' = Opened(folder)

DirRefused ==
  /\ folder.handle = "asked"
  /\ LET f == [folder EXCEPT !.handle = "refused"] IN
       folder' = IF f.stage = "settled" THEN f ELSE Finished(f, "error")

(* A batch within both limits, or cut at one of them. *)
DirReads ==
  /\ folder.stage = "reading"
  /\ \E n \in folder.entries..MaxEntries :
       LET f == [folder EXCEPT !.entries = n] IN folder' \in {f, Finished(f, "truncated")}

(* The end of the folder, or an error. *)
DirEnds ==
  /\ folder.stage = "reading"
  /\ \E answer \in {"whole", "error"} : folder' = Finished(folder, answer)

Deadline ==
  /\ folder.timer
  /\ folder' = Finished(folder, IF folder.entries > 0 THEN "truncated" ELSE "error")

FolderNext == ListFolder \/ DirOpens \/ DirRefused \/ DirReads \/ DirEnds \/ Deadline

--------------------------------------------------
SftpNext ==
  \/ EditsNext /\ UNCHANGED folder
  \/ FolderNext /\ UNCHANGED edits

(* Timers fire. The server owes nothing. *)
SftpFairness == WF_sftp(Deadline /\ UNCHANGED edits)

SftpSpec == SftpInit /\ [][SftpNext]_sftp /\ SftpFairness

--------------------------------------------------
(* Properties *)

SftpTypeOK ==
  /\ connected \in BOOLEAN /\ saves \in 0..MaxSaves
  /\ \A h \in {1, 2} : served[h] \in {Hole} \cup (0..MaxSaves)
  /\ \A o \in Opens :
       /\ sync[o].stage \in {"no", "download", "on", "ended", "failed"}
       /\ sync[o].upload \in {"no", "none", "one", "both"}
  /\ folder.stage \in {"no", "opening", "reading", "settled"} /\ folder.entries \in 0..MaxEntries

(* sftpHandler.ts: a save is not forgotten while an earlier one is sent. With *)
(* nothing left to send, the server has the copy as it was saved last, unless *)
(* its upload failed or another open of the file wrote after it.              *)
SavesArrive ==
  \A o \in Opens :
    sync[o].stage = "on" /\ ~sync[o].timer /\ sync[o].upload = "no"
      /\ ~sync[o].failed /\ ~sync[o].overwritten => served = sync[o].copy

(* sftpHandler.ts, ConnectionManager.ts: a sync ends with its session, also   *)
(* when the session ends during the download: no copy is kept, and nothing is *)
(* sent any more but what is on its way.                                      *)
SyncsEnd ==
  \A o \in Opens :
    /\ sync[o].stage = "on" => connected
    /\ sync[o].stage = "ended" => ~sync[o].dir /\ ~sync[o].timer /\ ~sync[o].pending

(* sftpListing.ts: whenever the server answers, no handle of a folder is left *)
(* open behind a listing that has ended.                                      *)
HandlesFreed == folder.stage = "settled" => folder.handle # "open"

(* sftpListing.ts: every listing ends, however the server stalls. *)
ListingEnds == folder.stage = "opening" ~> folder.stage = "settled"
=============================================================================
