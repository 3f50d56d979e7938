----------------------------- MODULE MCDesktop -----------------------------
(* The parts of the main process around a terminal, one at a time: the app    *)
(* lock, the sessions, the output on its way to the screens, the Telnet       *)
(* client, the torn-off windows, the edits of a server's files and the        *)
(* listings of its folders. They share no state; a behaviour is one of one    *)
(* part, with the others at rest.                                             *)

EXTENDS AppLock, Sessions, Scrollback, Telnet, TornWindows, Sftp

VARIABLE part

desktop == <<vars, sessions, scrollback, telnet, tornWindows, sftp, part>>

LockAtRest ==
  /\ phase = "ready" /\ starting = "done" /\ v2Import = "done"
  /\ lockRequested = FALSE /\ locking = "no" /\ owed = FALSE
  /\ request = [u \in Unlocks |-> Idle] /\ previous = [u \in Unlocks |-> None]
  /\ unlocking = None /\ waiting = {} /\ job = Idle
  /\ master = FALSE /\ deviceLost = FALSE /\ open = TRUE

(* Logged in, with the answer of the start heard. *)
TelnetAtRest ==
  /\ kind = "silent" /\ sends = 0 /\ wire = <<>> /\ printed = <<>> /\ text = <<>> /\ carry = <<>>
  /\ local = [o \in Options |-> IF o = "SGA" THEN "on" ELSE Unset]
  /\ remote = [o \in Options |-> Unset]
  /\ refusals = [ours |-> NoSides, theirs |-> NoSides] /\ answers = <<>>
  /\ belief = [o \in Options |-> IF o = "SGA" THEN "WILL" ELSE Unset]

DesktopInit ==
  /\ part \in {"lock", "sessions", "scrollback", "telnet", "windows", "edits", "folder"}
  /\ IF part = "lock" THEN Init ELSE LockAtRest
  /\ SessionsInit /\ ScrollbackInit
  /\ IF part = "telnet" THEN TelnetInit ELSE TelnetAtRest
  /\ WindowsInit /\ (part # "windows" => rev = 1)
  /\ SftpInit

DesktopNext ==
  \/ /\ part = "lock" /\ Next
     /\ UNCHANGED <<sessions, scrollback, telnet, tornWindows, sftp, part>>
  \/ /\ part = "sessions" /\ SessionsNext
     /\ UNCHANGED <<vars, scrollback, telnet, tornWindows, sftp, part>>
  \/ /\ part = "scrollback" /\ ScrollbackNext
     /\ UNCHANGED <<vars, sessions, telnet, tornWindows, sftp, part>>
  \/ /\ part = "telnet" /\ TelnetNext
     /\ UNCHANGED <<vars, sessions, scrollback, tornWindows, sftp, part>>
  \/ /\ part = "windows" /\ WindowsNext
     /\ UNCHANGED <<vars, sessions, scrollback, telnet, sftp, part>>
  \/ /\ part = "edits" /\ EditsNext
     /\ UNCHANGED <<vars, sessions, scrollback, telnet, tornWindows, folder, part>>
  \/ /\ part = "folder" /\ FolderNext
     /\ UNCHANGED <<vars, sessions, scrollback, telnet, tornWindows, edits, part>>

DesktopSpec ==
  /\ DesktopInit /\ [][DesktopNext]_desktop
  /\ Fairness /\ SessionsFairness /\ ScrollbackFairness /\ TelnetFairness /\ WindowsFairness
  /\ SftpFairness

--------------------------------------------------
(* Properties *)

(* Every variable of the parts keeps to the values the code gives it. *)
DesktopTypeOK ==
  TypeOK /\ SessionsTypeOK /\ ScrollbackTypeOK /\ TelnetTypeOK /\ WindowsTypeOK /\ SftpTypeOK

(* appLock.ts: a lock asked for while the data is open is never overtaken by  *)
(* 'ready' and is carried out, and every unlock request is answered.          *)
LockKept == NeverReadyBehindALock /\ LockHonoured /\ Returns

(* sshHandler.ts, Telnet and the torn windows come to rest: a connect or a    *)
(* disconnect ends, a mounted terminal comes to show everything, Telnet's     *)
(* negotiation ends in agreement, what tore a tab off or in is finished, and  *)
(* a folder is listed or given up.                                            *)
AllSettled == ConnectSettles /\ ShowsAll /\ Negotiated /\ LayoutSettles /\ ListingEnds

(* sshHandler.ts, sftpHandler.ts, sftpListing.ts: what is under way has a     *)
(* clock, and what ends leaves nothing behind: no timer or route of a failed  *)
(* connect, no session without its connection, no sync of a file after its    *)
(* session, no open handle after a listing.                                   *)
NothingLeftOver == ConnectTimed /\ EndsClean /\ SyncsEnd /\ HandlesFreed

(* A terminal shows what its session printed, without a hole or a repetition, *)
(* however it was mounted, trimmed and cut into packets; a pane is in one tab *)
(* and is not lost on its way from window to window; and what an editor saved *)
(* reaches the server. (That the windows come to show what Rust's layout gives *)
(* them is ShownAsLaidOut.)                                                   *)
ShownRight == Lossless /\ TextIntact /\ OnePlace /\ NothingLost /\ SavesArrive
=============================================================================
