----------------------------- MODULE Attachments -----------------------------
(***************************************************************************)
(* Attachments of one message on disk (internal/router/router.go:          *)
(* attachmentBlocks, downloadAttachment, openMessageDir) and the sweep     *)
(* that reaps them on every GC tick (sweepAttachmentsOnce).  A message is  *)
(* sent again when the user retries it, so several prompts may download    *)
(* into its directory.  File system calls are the atomic steps.  An        *)
(* os.Root is a handle on a directory: once that is removed nothing can be *)
(* created through it, even if the path exists again.  A name is what the  *)
(* code compares, a file what the disk has: os.Root drops "." components,  *)
(* and the file system may fold case, so two names may be one file.        *)
(***************************************************************************)
EXTENDS Naturals, Sequences, FiniteSetsExt

CONSTANTS
  Prompts,     \* requests that carry the message
  List,        \* its attachments, a sequence
  Names,       \* the strings attachments are called by
  Files,       \* entries of the directory
  FileOf,      \* name -> the file os.Root opens for it
  Preferred,   \* preferredName: attachment -> name
  Fallback,    \* fallbackName: attachment -> name
  Candidates,  \* name -> the names uniqueName tries, in order
  Refused,     \* names os.Root rejects
  None

ASSUME AttachmentConstants ==
  /\ List \in Seq(DOMAIN Preferred) /\ List # << >>
  /\ \A i \in DOMAIN List :
       /\ Preferred[List[i]] \in Names
       /\ Fallback[List[i]] \in Names \ Refused
  /\ \A n \in Names :
       /\ Candidates[n] \in Seq(Names) /\ Candidates[n][1] = n
       /\ Len(Candidates[n]) >= Len(List)
       /\ \A i, j \in DOMAIN Candidates[n] :
            Candidates[n][i] = Candidates[n][j] => i = j
  /\ \A i \in DOMAIN List : \A j \in DOMAIN Candidates[Fallback[List[i]]] :
       Candidates[Fallback[List[i]]][j] \notin Refused
  /\ FileOf \in [Names -> Files]
  /\ None \notin Names \cup Files
  /\ None \notin [by : Prompts, whole : BOOLEAN, old : BOOLEAN]

VARIABLES
  dir,      \* the message's directory exists
  files,    \* file -> None, or who truncated it last, and its state
  pc,       \* how far each prompt has come with its attachment
  at,       \* ... and which of them that is
  used,     \* names the prompt has claimed
  root,     \* its os.Root on the directory: none, open or stale
  name,     \* finalName
  linked,   \* its open file is still in the directory
  blocks,   \* what it tells the agent: a file's name, or None for the URL
  sweep,    \* the sweep: its stage, files to look at, file to remove, live
  writers,  \* history: for whose which attachment each file was opened
  expired   \* history: files that outlived the TTL unchanged

vars == <<dir, files, pc, at, used, root, name, linked, blocks, sweep,
          writers, expired>>

SweepIdle == [stage |-> "idle", todo |-> {}, victim |-> None, live |-> FALSE]

TypeOK ==
  /\ dir \in BOOLEAN
  /\ files \in [Files -> {None} \cup
                 [by : Prompts, whole : BOOLEAN, old : BOOLEAN]]
  /\ \A f \in Files : files[f] # None => dir /\ (files[f].old => files[f].whole)
  /\ pc \in [Prompts -> {"mkdir", "root", "get", "open", "copy", "sent",
                         "panic"}]
  /\ at \in [Prompts -> 1 .. Len(List) + 1]
  /\ used \in [Prompts -> SUBSET Names]
  /\ root \in [Prompts -> {"none", "open", "stale"}]
  /\ name \in [Prompts -> Names \cup {None}]
  /\ linked \in [Prompts -> BOOLEAN]
  /\ blocks \in [Prompts -> Seq(Names \cup {None})]
  /\ \A p \in Prompts :
       /\ Len(blocks[p]) = at[p] - 1
       /\ pc[p] = "sent" <=> at[p] = Len(List) + 1
       /\ linked[p] => root[p] = "open" /\ name[p] \in used[p]
  /\ sweep \in [stage : {"idle", "info", "remove"}, todo : SUBSET Files,
                victim : Files \cup {None}, live : BOOLEAN]
  /\ sweep.victim # None <=> sweep.stage = "remove"
  /\ writers \in [Files -> SUBSET (Prompts \X (1 .. Len(List)))]
  /\ expired \subseteq Files

Init ==
  /\ dir = FALSE
  /\ files = [f \in Files |-> None]
  /\ pc = [p \in Prompts |-> "mkdir"]
  /\ at = [p \in Prompts |-> 1]
  /\ used = [p \in Prompts |-> {}]
  /\ root = [p \in Prompts |-> "none"]
  /\ name = [p \in Prompts |-> None]
  /\ linked = [p \in Prompts |-> FALSE]
  /\ blocks = [p \in Prompts |-> << >>]
  /\ sweep = SweepIdle
  /\ writers = [f \in Files |-> {}]
  /\ expired = {}

Goto(p, stage) == pc' = [pc EXCEPT ![p] = stage]

(* Mutant of NextAttachment: the last one is left out. *)
NextAttachmentShort(p, block) ==
  /\ blocks' = [blocks EXCEPT ![p] = Append(@, block)]
  /\ at' = [at EXCEPT ![p] = @ + 1]
  /\ root' = [root EXCEPT ![p] = "none"]
  /\ Goto(p, IF at[p] + 1 >= Len(List) THEN "sent" ELSE "mkdir")

(* downloadAttachment returns, the Root is closed, and the block for the   *)
(* attachment is appended: the next one, or the prompt is complete.        *)
NextAttachment(p, block) ==
  /\ blocks' = [blocks EXCEPT ![p] = Append(@, block)]
  /\ at' = [at EXCEPT ![p] = @ + 1]
  /\ root' = [root EXCEPT ![p] = "none"]
  /\ Goto(p, IF at[p] = Len(List) THEN "sent" ELSE "mkdir")

DiskUnchanged == UNCHANGED <<dir, files, sweep, writers, expired>>

-----------------------------------------------------------------------------
(* openMessageDir.                                                         *)
MakeDir(p) ==
  /\ pc[p] = "mkdir"
  /\ dir' = TRUE
  /\ Goto(p, "root")
  /\ UNCHANGED <<files, at, used, root, name, linked, blocks, sweep, writers,
                 expired>>

OpenRoot(p) ==
  /\ pc[p] = "root" /\ dir
  /\ root' = [root EXCEPT ![p] = "open"]
  /\ Goto(p, "get")
  /\ UNCHANGED <<at, used, name, linked, blocks>> /\ DiskUnchanged

(* The sweep took the directory, or the disk fails: the URL will do.       *)
OpenRootFails(p) ==
  /\ pc[p] \in {"mkdir", "root"}
  /\ NextAttachment(p, None)
  /\ UNCHANGED <<used, name, linked>> /\ DiskUnchanged

(* The GET, which takes as long as the server likes.                       *)
Get(p) ==
  /\ pc[p] = "get"
  /\ Goto(p, "open")
  /\ UNCHANGED <<at, used, root, name, linked, blocks>> /\ DiskUnchanged

GetFails(p) ==
  /\ pc[p] = "get"
  /\ NextAttachment(p, None)
  /\ UNCHANGED <<used, name, linked>> /\ DiskUnchanged

(* Mutant of FreeName: the claimed names are not looked at. *)
AnyName(p, n) == n

FreeName(p, n) ==
  LET c == Candidates[n]
  IN  c[Min({i \in DOMAIN c : c[i] \notin used[p]})]

FinalName(p) ==
  LET a     == List[at[p]]
      first == FreeName(p, Preferred[a])
  IN  IF first \in Refused THEN FreeName(p, Fallback[a]) ELSE first

(* O_CREATE and O_TRUNC: of a file the prompt may have under another name. *)
OpenFile(p) ==
  /\ pc[p] = "open" /\ root[p] = "open"
  /\ LET n == FinalName(p)
         f == FileOf[n]
     IN  /\ name' = [name EXCEPT ![p] = n]
         /\ used' = [used EXCEPT ![p] = @ \cup {n}]
         /\ files' = [files EXCEPT ![f] = [by |-> p, whole |-> FALSE,
                                           old |-> FALSE]]
         /\ writers' = [writers EXCEPT ![f] = @ \cup {<<p, at[p]>>}]
         /\ expired' = expired \ {f}
  /\ linked' = [linked EXCEPT ![p] = TRUE]
  /\ Goto(p, "copy")
  /\ UNCHANGED <<dir, at, root, blocks, sweep>>

(* Nothing can be created in a directory that was removed: both names are  *)
(* refused, and mustOpen panics.                                           *)
MustOpen(p) ==
  /\ pc[p] = "open" /\ root[p] = "stale"
  /\ Goto(p, "panic")
  /\ root' = [root EXCEPT ![p] = "none"]
  /\ UNCHANGED <<at, used, name, linked, blocks>> /\ DiskUnchanged

(* The file the prompt has open. *)
Open(p) == FileOf[name[p]]

(* Behind a writer that truncated it later the file still has a hole.      *)
CopyDone(p) ==
  /\ pc[p] = "copy"
  /\ IF linked[p] /\ files[Open(p)].by = p
       THEN files' = [files EXCEPT ![Open(p)].whole = TRUE]
       ELSE UNCHANGED files
  /\ linked' = [linked EXCEPT ![p] = FALSE]
  /\ NextAttachment(p, name[p])
  /\ UNCHANGED <<dir, used, name, sweep, writers, expired>>

(* A file leaves the directory, and stays with whoever has it open.        *)
Unlink(f, closing) ==
  /\ files' = [files EXCEPT ![f] = None]
  /\ linked' = [p \in Prompts |->
                  linked[p] /\ p \notin closing /\ Open(p) # f]

(* The body breaks off, or is larger than the cap.                         *)
CopyFails(p) ==
  /\ pc[p] = "copy"
  /\ IF root[p] = "open" THEN Unlink(Open(p), {p})
     ELSE UNCHANGED <<files, linked>>
  /\ NextAttachment(p, None)
  /\ UNCHANGED <<dir, used, name, sweep, writers, expired>>

Download(p) ==
  \/ MakeDir(p) \/ OpenRoot(p) \/ OpenRootFails(p)
  \/ Get(p) \/ GetFails(p) \/ OpenFile(p) \/ MustOpen(p)
  \/ CopyDone(p) \/ CopyFails(p)

-----------------------------------------------------------------------------
(* The TTL of a file nobody writes to is over.                             *)
Expire(f) ==
  /\ files[f] # None /\ files[f].whole /\ ~files[f].old
  /\ \A p \in Prompts : ~(linked[p] /\ Open(p) = f)
  /\ files' = [files EXCEPT ![f].old = TRUE]
  /\ expired' = expired \cup {f}
  /\ UNCHANGED <<dir, pc, at, used, root, name, linked, blocks, sweep, writers>>

DownloadsUnchanged == UNCHANGED <<pc, at, used, name, blocks, writers, expired>>

(* sweepAttachmentsOnce: the listing, then each file in turn.              *)
SweepRead ==
  /\ sweep.stage = "idle" /\ dir
  /\ sweep' = [SweepIdle EXCEPT !.stage = "info",
                                !.todo = {f \in Files : files[f] # None}]
  /\ UNCHANGED <<dir, files, root, linked>> /\ DownloadsUnchanged

(* Mutant of Stale: every file is. *)
StaleAlways(f) == files[f] # None

Stale(f) == files[f] # None /\ files[f].old

SweepInfo(f) ==
  /\ sweep.stage = "info" /\ f \in sweep.todo
  /\ sweep' = IF Stale(f)
                THEN [sweep EXCEPT !.todo = @ \ {f}, !.victim = f,
                                   !.stage = "remove"]
                ELSE [sweep EXCEPT !.todo = @ \ {f}, !.live = TRUE]
  /\ UNCHANGED <<dir, files, root, linked>> /\ DownloadsUnchanged

(* Between the two the file may have been removed or written anew.         *)
SweepRemove ==
  /\ sweep.stage = "remove"
  /\ Unlink(sweep.victim, {})
  /\ sweep' = [sweep EXCEPT !.stage = "info", !.victim = None,
                 !.live = @ \/ files[sweep.victim] = None]
  /\ UNCHANGED <<dir, root>> /\ DownloadsUnchanged

(* Mutant of SweepDir: a directory is left once it has been used. *)
SweepDirNever ==
  /\ sweep.stage = "info" /\ sweep.todo = {}
  /\ sweep' = SweepIdle
  /\ UNCHANGED <<dir, files, root, linked>> /\ DownloadsUnchanged

(* os.Remove takes an empty directory only, however new it is.             *)
SweepDir ==
  /\ sweep.stage = "info" /\ sweep.todo = {}
  /\ sweep' = SweepIdle
  /\ IF sweep.live \/ \E f \in Files : files[f] # None
       THEN UNCHANGED <<dir, root>>
       ELSE /\ dir' = FALSE
            /\ root' = [p \in Prompts |->
                          IF root[p] = "open" THEN "stale" ELSE root[p]]
  /\ UNCHANGED <<files, linked>> /\ DownloadsUnchanged

Sweep == SweepRead \/ (\E f \in Files : SweepInfo(f)) \/ SweepRemove \/ SweepDir

Ended == \A p \in Prompts : pc[p] \in {"sent", "panic"}

Finished == Ended /\ ~dir /\ UNCHANGED vars

Next ==
  \/ \E p \in Prompts : Download(p)
  \/ \E f \in Files : Expire(f)
  \/ Sweep
  \/ Finished

Spec == Init /\ [][Next]_vars

(* The ticker fires as long as the relay runs.                             *)
FairSpec == Spec /\ WF_vars(Sweep)

-----------------------------------------------------------------------------
(* Properties.                                                             *)

Links(p) == {i \in DOMAIN blocks[p] : blocks[p][i] # None}

(* A file link in a prompt names a whole file until its TTL is over, as    *)
(* long as the file was opened for no other attachment and by no other     *)
(* prompt: whatever the sweep does meanwhile, however the prompt's other   *)
(* downloads end.                                                          *)
LinkKept ==
  \A p \in Prompts : \A i \in Links(p) :
    LET f == FileOf[blocks[p][i]]
    IN  writers[f] = {<<p, i>>} =>
          f \in expired \/ (files[f] # None /\ files[f].whole)

(* Two attachments of a prompt are never linked by one name, whatever they *)
(* are called and whichever of them had to be given another name: they     *)
(* share a file only where the file system takes two names for one.        *)
LinksDistinct ==
  \A p \in Prompts : \A i, j \in Links(p) :
    blocks[p][i] = blocks[p][j] => i = j

(* router.go:1372-1373, "Empty message dirs are removed afterwards so the  *)
(* directory tree doesn't drift": when nobody downloads any more and every *)
(* file has expired, the message's directory goes.                         *)
ExpiredDirGoes ==
  (Ended /\ \A f \in Files : files[f] = None \/ files[f].old) ~> ~dir

(* router.go:917-918: "A prompt is never failed because of attachment IO". *)
PromptsNeverFail == \A p \in Prompts : pc[p] # "panic"
=============================================================================
