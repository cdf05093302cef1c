-------------------------- MODULE AttachmentsProofs --------------------------
(***************************************************************************)
(* Attachments, for any number of prompts and attachments, and any names   *)
(* and files they stand for: a prompt links no name twice, and what it     *)
(* links stays on disk.                                                    *)
(***************************************************************************)
EXTENDS Attachments, FiniteSetTheorems, WellFoundedInduction, TLAPS

(* A Root that is open is on the directory, and a prompt keeps one for the *)
(* attachment it is at.                                                    *)
RootStage ==
  \A p \in Prompts :
    /\ root[p] = "open" => dir
    /\ root[p] # "none" <=> pc[p] \in {"get", "open", "copy"}

(* A prompt claims at most one name for each attachment, so that among     *)
(* the candidates there is always one left.                                *)
Claimed(p) == IF pc[p] = "copy" THEN at[p] ELSE at[p] - 1

UsedBound ==
  \A p \in Prompts : IsFiniteSet(used[p]) /\ Cardinality(used[p]) <= Claimed(p)

(* The links, and the file being written, have claimed their names, and    *)
(* these are different ones.                                               *)
LinksClaimed ==
  \A p \in Prompts :
    /\ \A i \in Links(p) : blocks[p][i] \in used[p]
    /\ pc[p] = "copy" =>
         /\ name[p] \in used[p]
         /\ \A i \in Links(p) : blocks[p][i] # name[p]

(* A prompt has opened files for the attachments it has come to, and among *)
(* them those it links and the one it is writing.                          *)
WritersKnown ==
  \A p \in Prompts :
    /\ \A f \in Files : \A i \in 1 .. Len(List) :
         <<p, i>> \in writers[f] => i <= Claimed(p)
    /\ \A i \in Links(p) : <<p, i>> \in writers[FileOf[blocks[p][i]]]
    /\ pc[p] = "copy" => <<p, at[p]>> \in writers[FileOf[name[p]]]

(* A file on disk has been opened by somebody; an old one has expired.     *)
FilesKnown ==
  \A f \in Files : files[f] # None =>
    /\ writers[f] # {}
    /\ files[f].old => f \in expired

(* A prompt whose open file was opened for this alone finds it as it       *)
(* left it: the sweep has neither taken it nor is about to.                *)
CopyingAlone ==
  \A p \in Prompts :
    /\ linked[p] => pc[p] = "copy" /\ files[FileOf[name[p]]] # None
    /\ pc[p] = "copy" /\ writers[FileOf[name[p]]] = {<<p, at[p]>>} =>
         /\ linked[p] /\ FileOf[name[p]] \notin expired
         /\ files[FileOf[name[p]]].by = p /\ ~files[FileOf[name[p]]].whole

(* What the sweep is about to remove has expired, unless somebody wrote it *)
(* anew since the sweep looked at it.                                      *)
VictimExpired ==
  sweep.victim # None =>
    /\ writers[sweep.victim] # {}
    /\ \A o \in writers[sweep.victim] :
         writers[sweep.victim] = {o} => sweep.victim \in expired

IInv ==
  /\ TypeOK
  /\ RootStage /\ UsedBound /\ LinksClaimed
  /\ WritersKnown /\ FilesKnown /\ CopyingAlone /\ VictimExpired
  /\ LinksDistinct /\ LinkKept

-----------------------------------------------------------------------------
(* The names.                                                              *)

(* Min is what it says of any set of naturals.                             *)
LEMMA NatMin ==
  ASSUME NEW T \in SUBSET Nat, T # {}
  PROVE  Min(T) \in T /\ \A y \in T : Min(T) <= y
<1>1. PICK x \in T : \A y \in T : ~(<<y, x>> \in OpToRel(<, Nat))
  BY NatLessThanWellFounded, WFMin, Zenon
<1>2. \A y \in T : ~(y < x)
  BY <1>1, Zenon DEF OpToRel
<1>3. \A y \in T : x <= y
  BY <1>2
<1> QED BY <1>3 DEF Min

(* uniqueName: there are more candidates than claimed names, so the first  *)
(* that is not claimed exists.                                             *)
LEMMA FreeNameIsFree ==
  ASSUME NEW p \in Prompts, NEW n \in Names,
         IsFiniteSet(used[p]), Cardinality(used[p]) < Len(List)
  PROVE  \E i \in DOMAIN Candidates[n] :
           FreeName(p, n) = Candidates[n][i] /\ FreeName(p, n) \notin used[p]
<1> DEFINE c == Candidates[n]
           Free == {i \in DOMAIN c : c[i] \notin used[p]}
<1>1. /\ c \in Seq(Names) /\ Len(c) >= Len(List) /\ Len(c) \in Nat /\ Len(List) \in Nat
      /\ DOMAIN c = 1..Len(c)
      /\ \A i, j \in DOMAIN c : c[i] = c[j] => i = j
  BY AttachmentConstants
<1> HIDE DEF c
<1>2. IsFiniteSet(DOMAIN c) /\ Cardinality(DOMAIN c) = Len(c)
  <2>1. /\ IsFiniteSet(1..Len(c))
        /\ Cardinality(1..Len(c)) = IF 1 > Len(c) THEN 0 ELSE Len(c) - 1 + 1
    <3>1. 1 \in Int /\ Len(c) \in Int
      BY <1>1
    <3> QED BY <3>1, FS_Interval, Zenon
  <2> QED BY <1>1, <2>1
<1>3. Free # {}
  <2> SUFFICES ASSUME \A i \in DOMAIN c : c[i] \in used[p] PROVE FALSE
    OBVIOUS
  <2>1. c \in [DOMAIN c -> used[p]]
    BY <1>1
  <2>2. Cardinality(used[p]) < Cardinality(DOMAIN c)
    BY <1>1, <1>2, FS_CardinalityType
  <2>3. \E i, j \in DOMAIN c : i # j /\ c[i] = c[j]
    BY <1>2, <2>1, <2>2, FS_PigeonHole
  <2> QED BY <1>1, <2>3
<1>4. Free \in SUBSET Nat
  BY <1>1
<1>5. Min(Free) \in Free
  <2> HIDE DEF Free
  <2> QED BY <1>3, <1>4, NatMin
<1>6. FreeName(p, n) = c[Min(Free)]
  BY DEF FreeName, c
<1> QED BY <1>5, <1>6 DEF c

(* The name downloadAttachment settles for is one the prompt has not used. *)
LEMMA FinalNameIsFree ==
  ASSUME TypeOK, UsedBound, NEW p \in Prompts, pc[p] = "open"
  PROVE  FinalName(p) \in Names /\ FinalName(p) \notin used[p]
<1>1. at[p] \in DOMAIN List /\ at[p] \in 1..Len(List)
  BY AttachmentConstants DEF TypeOK
<1>2. IsFiniteSet(used[p]) /\ Cardinality(used[p]) < Len(List)
  BY <1>1, FS_CardinalityType, AttachmentConstants DEF UsedBound, Claimed
<1>3. Preferred[List[at[p]]] \in Names /\ Fallback[List[at[p]]] \in Names
  BY <1>1, AttachmentConstants
<1>4. \A n \in Names : FreeName(p, n) \in Names /\ FreeName(p, n) \notin used[p]
  <2> TAKE n \in Names
  <2>1. Candidates[n] \in Seq(Names)
    BY AttachmentConstants
  <2>2. PICK i \in DOMAIN Candidates[n] :
          FreeName(p, n) = Candidates[n][i] /\ FreeName(p, n) \notin used[p]
    BY <1>2, FreeNameIsFree
  <2> QED BY <2>1, <2>2
<1> QED BY <1>3, <1>4 DEF FinalName

-----------------------------------------------------------------------------
(* Types.                                                                  *)

(* What downloadAttachment's return does to its prompt, and to no other.   *)
LEMMA Advance ==
  ASSUME TypeOK, NEW p \in Prompts, pc[p] # "sent",
         NEW b \in Names \cup {None}, NextAttachment(p, b)
  PROVE  /\ at' \in [Prompts -> 1 .. Len(List) + 1] /\ at'[p] = at[p] + 1
         /\ root' \in [Prompts -> {"none", "open", "stale"}] /\ root'[p] = "none"
         /\ pc' \in [Prompts -> {"mkdir", "root", "get", "open", "copy", "sent", "panic"}]
         /\ pc'[p] \in {"mkdir", "sent"} /\ (pc'[p] = "sent" <=> at'[p] = Len(List) + 1)
         /\ blocks' \in [Prompts -> Seq(Names \cup {None})] /\ Len(blocks'[p]) = at'[p] - 1
         /\ \A r \in Prompts \ {p} : /\ at'[r] = at[r] /\ root'[r] = root[r]
                                     /\ pc'[r] = pc[r] /\ blocks'[r] = blocks[r]
         /\ \A i \in DOMAIN blocks'[p] :
              \/ i \in DOMAIN blocks[p] /\ blocks'[p][i] = blocks[p][i]
              \/ i = at[p] /\ blocks'[p][i] = b
         /\ at[p] \notin DOMAIN blocks[p]
<1> USE DEF TypeOK, NextAttachment, Goto
<1>1. Len(List) \in Nat /\ at[p] \in 1..Len(List)
  BY AttachmentConstants
<1>2. /\ blocks[p] \in Seq(Names \cup {None}) /\ Len(blocks[p]) = at[p] - 1
      /\ blocks'[p] = Append(blocks[p], b)
  OBVIOUS
<1>3. /\ blocks'[p] \in Seq(Names \cup {None}) /\ Len(blocks'[p]) = at[p]
      /\ DOMAIN blocks'[p] = 1..at[p] /\ DOMAIN blocks[p] = 1..(at[p] - 1)
      /\ blocks'[p][at[p]] = b
      /\ \A i \in 1..(at[p] - 1) : blocks'[p][i] = blocks[p][i]
  BY <1>1, <1>2
<1>4. at' \in [Prompts -> 1 .. Len(List) + 1] /\ at'[p] = at[p] + 1
  BY <1>1
<1>5. pc'[p] \in {"mkdir", "sent"} /\ (pc'[p] = "sent" <=> at'[p] = Len(List) + 1)
  BY <1>1, <1>4
<1>6. \A i \in DOMAIN blocks'[p] :
        \/ i \in DOMAIN blocks[p] /\ blocks'[p][i] = blocks[p][i]
        \/ i = at[p] /\ blocks'[p][i] = b
  BY <1>1, <1>3
<1>7. at[p] \notin DOMAIN blocks[p] /\ Len(blocks'[p]) = at'[p] - 1
  BY <1>1, <1>3, <1>4
<1>8. blocks' \in [Prompts -> Seq(Names \cup {None})]
  BY <1>2, <1>3
<1> QED BY <1>4, <1>5, <1>6, <1>7, <1>8

(* A name in use stands for a file. *)
LEMMA OpenType ==
  ASSUME TypeOK, NEW r \in Prompts, linked[r] \/ name[r] \in used[r]
  PROVE  name[r] \in Names /\ FileOf[name[r]] \in Files
<1>1. name[r] \in used[r] /\ used[r] \subseteq Names
  BY DEF TypeOK
<1> QED BY <1>1, AttachmentConstants

(* What TypeOK says of one prompt. *)
LEMMA DownloadTypes ==
  ASSUME IInv, NEW p \in Prompts, Download(p) PROVE TypeOK' /\ RootStage'
<1> USE DEF IInv
<1>0. None \notin Names \cup Files
  BY AttachmentConstants
<1>1. CASE MakeDir(p) \/ OpenRoot(p) \/ Get(p) \/ MustOpen(p)
  <2>1. /\ UNCHANGED <<files, at, used, name, linked, blocks, sweep, writers, expired>>
        /\ pc' \in [Prompts -> {"mkdir", "root", "get", "open", "copy", "sent", "panic"}]
        /\ root' \in [Prompts -> {"none", "open", "stale"}]
        /\ dir' \in BOOLEAN /\ (dir => dir')
        /\ pc[p] # "sent" /\ pc'[p] # "sent"
    <3> USE DEF TypeOK, Goto, DiskUnchanged
    <3>1. CASE MakeDir(p)
      BY <3>1 DEF MakeDir
    <3>2. CASE OpenRoot(p)
      BY <3>2 DEF OpenRoot
    <3>3. CASE Get(p)
      BY <3>3 DEF Get
    <3>4. CASE MustOpen(p)
      BY <3>4 DEF MustOpen
    <3> QED BY <1>1, <3>1, <3>2, <3>3, <3>4
  <2>2. \A r \in Prompts \ {p} : pc'[r] = pc[r] /\ root'[r] = root[r]
    BY <1>1 DEF MakeDir, OpenRoot, Get, MustOpen, Goto, TypeOK
  <2>3. ~linked[p] \/ pc[p] = "copy"
    BY DEF CopyingAlone
  <2>4. root'[p] = root[p] \/ ~linked[p]
    BY <1>1, <2>3 DEF MakeDir, OpenRoot, Get, MustOpen
  <2>5. TypeOK'
    BY <2>1, <2>2, <2>4 DEF TypeOK
  <2>6. (root'[p] = "open" => dir') /\ (root'[p] # "none" <=> pc'[p] \in {"get", "open", "copy"})
    BY <1>1 DEF MakeDir, OpenRoot, Get, MustOpen, Goto, DiskUnchanged, TypeOK, RootStage
  <2>7. RootStage'
    BY <2>1, <2>2, <2>6 DEF RootStage
  <2> QED BY <2>5, <2>7
<1>2. CASE OpenRootFails(p) \/ GetFails(p) \/ CopyDone(p) \/ CopyFails(p)
  <2>1. PICK b \in Names \cup {None} : NextAttachment(p, b)
    BY <1>2 DEF OpenRootFails, GetFails, CopyDone, CopyFails, TypeOK
  <2>2. pc[p] \notin {"sent", "panic"}
    BY <1>2 DEF OpenRootFails, GetFails, CopyDone, CopyFails
  <2>3. /\ UNCHANGED <<dir, used, name, sweep, writers, expired>>
        /\ files' \in [Files -> {None} \cup [by : Prompts, whole : BOOLEAN, old : BOOLEAN]]
        /\ linked' \in [Prompts -> BOOLEAN]
        /\ \A r \in Prompts : linked'[r] => linked[r]
        /\ \A f \in Files : files'[f] # None =>
             files[f] # None /\ (files'[f].old => files'[f].whole)
        /\ ~linked'[p]
    <3>1. CASE OpenRootFails(p) \/ GetFails(p)
      BY <2>2, <3>1 DEF OpenRootFails, GetFails, DiskUnchanged, TypeOK, CopyingAlone
    <3>2. CASE CopyDone(p)
      <4>1. /\ UNCHANGED <<dir, used, name, sweep, writers, expired>>
            /\ linked' = [linked EXCEPT ![p] = FALSE]
            /\ \/ files' = files
               \/ linked[p] /\ files' = [files EXCEPT ![FileOf[name[p]]].whole = TRUE]
        BY <3>2 DEF CopyDone, Open
      <4>2. linked[p] => FileOf[name[p]] \in Files /\ files[FileOf[name[p]]] # None
        BY OpenType DEF CopyingAlone
      <4>3. CASE files' = files
        BY <4>1, <4>3 DEF TypeOK
      <4>4. CASE linked[p] /\ files' = [files EXCEPT ![FileOf[name[p]]].whole = TRUE]
        <5>1. files[FileOf[name[p]]] \in [by : Prompts, whole : BOOLEAN, old : BOOLEAN]
          BY <4>2, <4>4 DEF TypeOK
        <5>2. /\ files'[FileOf[name[p]]] = [files[FileOf[name[p]]] EXCEPT !.whole = TRUE]
              /\ \A f \in Files \ {FileOf[name[p]]} : files'[f] = files[f]
              /\ DOMAIN files' = Files
          BY <4>2, <4>4 DEF TypeOK
        <5>3. files'[FileOf[name[p]]] \in [by : Prompts, whole : BOOLEAN, old : BOOLEAN]
              /\ files'[FileOf[name[p]]].whole
          BY <5>1, <5>2
        <5> QED BY <4>1, <4>2, <4>4, <5>2, <5>3 DEF TypeOK
      <4> QED BY <4>1, <4>3, <4>4
    <3>3. CASE CopyFails(p)
      <4>1. UNCHANGED <<dir, used, name, sweep, writers, expired>>
        BY <3>3 DEF CopyFails
      <4>2. CASE root[p] = "open"
        <5>1. /\ files' = [files EXCEPT ![FileOf[name[p]]] = None]
              /\ linked' = [r \in Prompts |->
                              linked[r] /\ r \notin {p} /\ FileOf[name[r]] # FileOf[name[p]]]
          BY <3>3, <4>2 DEF CopyFails, Unlink, Open
        <5>2. \A f \in Files : files'[f] = None \/ files'[f] = files[f]
          BY <5>1 DEF TypeOK
        <5> QED BY <4>1, <5>1, <5>2 DEF TypeOK
      <4>3. CASE root[p] # "open"
        BY <3>3, <4>1, <4>3 DEF CopyFails, TypeOK
      <4> QED BY <4>2, <4>3
    <3> QED BY <1>2, <3>1, <3>2, <3>3
  <2>4. TypeOK'
    <3>1. /\ at' \in [Prompts -> 1 .. Len(List) + 1]
          /\ root' \in [Prompts -> {"none", "open", "stale"}]
          /\ pc' \in [Prompts -> {"mkdir", "root", "get", "open", "copy", "sent", "panic"}]
          /\ blocks' \in [Prompts -> Seq(Names \cup {None})] /\ Len(blocks'[p]) = at'[p] - 1
          /\ (pc'[p] = "sent" <=> at'[p] = Len(List) + 1)
          /\ \A r \in Prompts \ {p} : /\ at'[r] = at[r] /\ root'[r] = root[r]
                                      /\ pc'[r] = pc[r] /\ blocks'[r] = blocks[r]
      BY <2>1, <2>2, Advance
    <3>2. \A r \in Prompts :
            /\ Len(blocks'[r]) = at'[r] - 1
            /\ pc'[r] = "sent" <=> at'[r] = Len(List) + 1
            /\ linked'[r] => root'[r] = "open" /\ name'[r] \in used'[r]
      BY <2>3, <3>1 DEF TypeOK
    <3>3. \A f \in Files : files'[f] # None => dir' /\ (files'[f].old => files'[f].whole)
      BY <2>3 DEF TypeOK
    <3>4. /\ dir' \in BOOLEAN /\ used' \in [Prompts -> SUBSET Names]
          /\ name' \in [Prompts -> Names \cup {None}]
          /\ sweep' \in [stage : {"idle", "info", "remove"}, todo : SUBSET Files,
                         victim : Files \cup {None}, live : BOOLEAN]
          /\ sweep'.victim # None <=> sweep'.stage = "remove"
          /\ writers' \in [Files -> SUBSET (Prompts \X (1 .. Len(List)))] /\ expired' \subseteq Files
      BY <2>3 DEF TypeOK
    <3> QED BY <2>3, <3>1, <3>2, <3>3, <3>4 DEF TypeOK
  <2>5. RootStage'
    BY <2>1, <2>2, <2>3, Advance DEF RootStage
  <2> QED BY <2>4, <2>5
<1>3. CASE OpenFile(p)
  <2> DEFINE n == FinalName(p)
             f == FileOf[n]
  <2>1. n \in Names /\ f \in Files /\ pc[p] = "open" /\ root[p] = "open" /\ dir
    BY <1>3, FinalNameIsFree, AttachmentConstants DEF OpenFile, RootStage
  <2> HIDE DEF n, f
  <2>2. /\ name' = [name EXCEPT ![p] = n]
        /\ used' = [used EXCEPT ![p] = @ \cup {n}]
        /\ files' = [files EXCEPT ![f] = [by |-> p, whole |-> FALSE, old |-> FALSE]]
        /\ writers' = [writers EXCEPT ![f] = @ \cup {<<p, at[p]>>}]
        /\ expired' = expired \ {f}
        /\ linked' = [linked EXCEPT ![p] = TRUE]
        /\ pc' = [pc EXCEPT ![p] = "copy"]
        /\ UNCHANGED <<dir, at, root, blocks, sweep>>
    BY <1>3 DEF OpenFile, Goto, n, f
  <2>3. TypeOK'
    <3>1. at[p] \in 1 .. Len(List)
      BY <2>1, AttachmentConstants DEF TypeOK
    <3>2. writers' \in [Files -> SUBSET (Prompts \X (1 .. Len(List)))]
      BY <2>1, <2>2, <3>1 DEF TypeOK
    <3> QED BY <2>1, <2>2, <3>2 DEF TypeOK
  <2>4. RootStage'
    BY <2>1, <2>2 DEF RootStage, TypeOK
  <2> QED BY <2>3, <2>4
<1> QED BY <1>1, <1>2, <1>3 DEF Download

LEMMA SweepTypes ==
  ASSUME IInv, (\E f \in Files : Expire(f)) \/ Sweep PROVE TypeOK' /\ RootStage'
<1> USE DEF IInv
<1>0. None \notin Names \cup Files
  BY AttachmentConstants
<1>1. ASSUME NEW f \in Files, Expire(f) PROVE TypeOK' /\ RootStage'
  <2>1. /\ files[f] \in [by : Prompts, whole : BOOLEAN, old : BOOLEAN] /\ files[f].whole
        /\ files[f] # None
        /\ files' = [files EXCEPT ![f].old = TRUE] /\ expired' = expired \cup {f}
        /\ UNCHANGED <<dir, pc, at, used, root, name, linked, blocks, sweep, writers>>
    BY <1>1 DEF Expire, TypeOK
  <2>2. /\ files'[f] = [files[f] EXCEPT !.old = TRUE]
        /\ \A m \in Files \ {f} : files'[m] = files[m]
        /\ DOMAIN files' = Files
        /\ files' = [m \in Files |-> IF m = f THEN [files[f] EXCEPT !.old = TRUE] ELSE files[m]]
    BY <2>1 DEF TypeOK
  <2>3. files'[f] \in [by : Prompts, whole : BOOLEAN, old : BOOLEAN] /\ files'[f].whole
    BY <2>1, <2>2
  <2>4. files' \in [Files -> {None} \cup [by : Prompts, whole : BOOLEAN, old : BOOLEAN]]
    BY <2>2, <2>3 DEF TypeOK
  <2>5. \A m \in Files : files'[m] # None => dir' /\ (files'[m].old => files'[m].whole)
    BY <2>1, <2>2, <2>3 DEF TypeOK
  <2>6. expired' \subseteq Files
    BY <2>1 DEF TypeOK
  <2>7. RootStage'
    BY <2>1 DEF RootStage
  <2> QED BY <2>1, <2>4, <2>5, <2>6, <2>7 DEF TypeOK
<1>2. CASE SweepRead
  <2>1. /\ sweep' = [stage |-> "info", todo |-> {f \in Files : files[f] # None},
                     victim |-> None, live |-> FALSE]
        /\ UNCHANGED <<dir, files, root, linked, pc, at, used, name, blocks, writers, expired>>
    BY <1>2 DEF SweepRead, SweepIdle, DownloadsUnchanged
  <2>2. /\ sweep' \in [stage : {"idle", "info", "remove"}, todo : SUBSET Files,
                       victim : Files \cup {None}, live : BOOLEAN]
        /\ sweep'.victim = None /\ sweep'.stage # "remove"
    BY <2>1
  <2> QED BY <2>1, <2>2 DEF TypeOK, RootStage
<1>3. ASSUME NEW f \in Files, SweepInfo(f) PROVE TypeOK' /\ RootStage'
  <2>1. /\ \/ sweep' = [sweep EXCEPT !.todo = @ \ {f}, !.victim = f, !.stage = "remove"]
           \/ sweep' = [sweep EXCEPT !.todo = @ \ {f}, !.live = TRUE]
        /\ UNCHANGED <<dir, files, root, linked, pc, at, used, name, blocks, writers, expired>>
        /\ sweep.stage = "info"
    BY <1>3 DEF SweepInfo, DownloadsUnchanged
  <2>2. /\ sweep' \in [stage : {"idle", "info", "remove"}, todo : SUBSET Files,
                       victim : Files \cup {None}, live : BOOLEAN]
        /\ sweep'.victim # None <=> sweep'.stage = "remove"
    <3>1. /\ sweep \in [stage : {"idle", "info", "remove"}, todo : SUBSET Files,
                        victim : Files \cup {None}, live : BOOLEAN]
          /\ sweep.victim = None
      BY <2>1 DEF TypeOK
    <3>2. CASE sweep' = [sweep EXCEPT !.todo = @ \ {f}, !.victim = f, !.stage = "remove"]
      BY <1>0, <3>1, <3>2
    <3>3. CASE sweep' = [sweep EXCEPT !.todo = @ \ {f}, !.live = TRUE]
      <4>1. sweep'.victim = None /\ sweep'.stage = "info"
        BY <2>1, <3>1, <3>3
      <4> QED BY <3>1, <3>3, <4>1
    <3> QED BY <2>1, <3>2, <3>3
  <2> QED BY <2>1, <2>2 DEF TypeOK, RootStage
<1>4. CASE SweepRemove
  BY <1>0, <1>4 DEF SweepRemove, Unlink, Open, DownloadsUnchanged, TypeOK, RootStage
<1>5. CASE SweepDir
  <2>1. /\ sweep' = SweepIdle
        /\ UNCHANGED <<pc, at, used, name, blocks, writers, expired, files, linked>>
        /\ \/ UNCHANGED <<dir, root>>
           \/ /\ \A f \in Files : files[f] = None
              /\ dir' = FALSE
              /\ root' = [p \in Prompts |-> IF root[p] = "open" THEN "stale" ELSE root[p]]
    BY <1>5 DEF SweepDir, DownloadsUnchanged
  <2>2. sweep'.victim = None /\ sweep'.stage # "remove"
        /\ sweep' \in [stage : {"idle", "info", "remove"}, todo : SUBSET Files,
                       victim : Files \cup {None}, live : BOOLEAN]
    BY <2>1 DEF SweepIdle
  <2>3. CASE UNCHANGED <<dir, root>>
    BY <2>1, <2>2, <2>3 DEF TypeOK, RootStage
  <2>4. CASE /\ \A f \in Files : files[f] = None
             /\ dir' = FALSE
             /\ root' = [p \in Prompts |-> IF root[p] = "open" THEN "stale" ELSE root[p]]
    <3>1. \A p \in Prompts : ~linked[p]
      BY <2>4, OpenType DEF CopyingAlone
    <3> QED BY <2>1, <2>2, <2>4, <3>1 DEF TypeOK, RootStage
  <2> QED BY <2>1, <2>3, <2>4
<1> QED BY <1>1, <1>2, <1>3, <1>4, <1>5 DEF Sweep

-----------------------------------------------------------------------------
(* The links.                                                              *)

(* A step after which a prompt has no link it had not before, and no other *)
(* file to copy to.                                                        *)
SameLinks(r) ==
  /\ pc'[r] = "copy" => pc[r] = "copy" /\ at'[r] = at[r]
  /\ Claimed(r)' >= Claimed(r)
  /\ \A i \in Links(r)' : i \in Links(r) /\ blocks'[r][i] = blocks[r][i]

(* What concerns the prompts alone: their names and their links.           *)
PromptInv == UsedBound /\ LinksClaimed /\ WritersKnown /\ LinksDistinct

(* ... and what concerns the files.                                        *)
DiskInv == FilesKnown /\ CopyingAlone /\ LinkKept

LEMMA LinkNames ==
  ASSUME TypeOK, NEW r \in Prompts, NEW i \in Links(r)
  PROVE  blocks[r][i] \in Names /\ FileOf[blocks[r][i]] \in Files
<1>1. blocks[r] \in Seq(Names \cup {None}) /\ i \in DOMAIN blocks[r] /\ blocks[r][i] # None
  BY DEF TypeOK, Links
<1> QED BY <1>1, AttachmentConstants

(* A link is a block of an attachment that the prompt is through with.     *)
LEMMA LinkPlace ==
  ASSUME TypeOK, NEW r \in Prompts, NEW i \in Links(r)
  PROVE  i \in Nat /\ i # at[r]
<1>1. /\ blocks[r] \in Seq(Names \cup {None}) /\ i \in DOMAIN blocks[r]
      /\ Len(blocks[r]) = at[r] - 1
  BY DEF TypeOK, Links
<1>2. at[r] \in Int
  BY AttachmentConstants DEF TypeOK
<1> QED BY <1>1, <1>2

LEMMA ClaimedType == ASSUME TypeOK, NEW r \in Prompts PROVE Claimed(r) \in Nat
BY AttachmentConstants DEF TypeOK, Claimed

LEMMA PromptFrame ==
  ASSUME TypeOK, TypeOK', PromptInv, UNCHANGED <<used, name, writers>>,
         \A r \in Prompts : SameLinks(r)
  PROVE  PromptInv'
<1> USE DEF PromptInv
<1>1. UsedBound'
  <2> SUFFICES ASSUME NEW r \in Prompts
               PROVE  IsFiniteSet(used[r]) /\ Cardinality(used[r]) <= Claimed(r)'
    BY DEF UsedBound
  <2>1. Claimed(r) \in Nat /\ Claimed(r)' \in Nat
    <3>1. at'[r] \in Nat \ {0}
      BY AttachmentConstants DEF TypeOK
    <3>2. Claimed(r)' = IF pc'[r] = "copy" THEN at'[r] ELSE at'[r] - 1
      BY DEF Claimed
    <3> QED BY <3>1, <3>2, ClaimedType
  <2>2. /\ IsFiniteSet(used[r]) /\ Cardinality(used[r]) \in Nat
        /\ Cardinality(used[r]) <= Claimed(r)
    BY FS_CardinalityType DEF UsedBound
  <2> QED BY <2>1, <2>2 DEF SameLinks
<1>2. LinksClaimed'
  BY DEF LinksClaimed, SameLinks
<1>3. WritersKnown'
  <2> SUFFICES ASSUME NEW r \in Prompts, NEW f \in Files, NEW i \in 1 .. Len(List),
                      <<r, i>> \in writers[f]
               PROVE  i <= Claimed(r)'
    BY DEF WritersKnown, SameLinks
  <2>1. i <= Claimed(r)
    BY DEF WritersKnown
  <2>2. at'[r] \in Nat \ {0} /\ Claimed(r)' = IF pc'[r] = "copy" THEN at'[r] ELSE at'[r] - 1
    BY AttachmentConstants DEF TypeOK, Claimed
  <2> QED BY <2>1, <2>2, ClaimedType DEF SameLinks
<1>4. LinksDistinct'
  BY DEF LinksDistinct, SameLinks
<1> QED BY <1>1, <1>2, <1>3, <1>4

LEMMA DiskFrame ==
  ASSUME DiskInv, UNCHANGED <<files, expired, linked, writers, name>>,
         \A r \in Prompts : SameLinks(r) /\ (linked[r] => pc'[r] = "copy")
  PROVE  DiskInv'
<1> USE DEF DiskInv, SameLinks
<1>1. FilesKnown' /\ CopyingAlone'
  BY DEF FilesKnown, CopyingAlone
<1>2. LinkKept'
  BY DEF LinkKept
<1> QED BY <1>1, <1>2

(* A step that moves no prompt from one attachment to the next.            *)
LEMMA Stays ==
  ASSUME TypeOK, UNCHANGED <<at, blocks>>, NEW r \in Prompts, pc'[r] = "copy" <=> pc[r] = "copy"
  PROVE  SameLinks(r)
<1>1. at[r] \in Int
  BY AttachmentConstants DEF TypeOK
<1> QED BY <1>1 DEF SameLinks, Links, Claimed

(* A download that ends without a link.                                    *)
LEMMA Skips ==
  ASSUME TypeOK, NEW p \in Prompts, pc[p] # "sent", NextAttachment(p, None)
  PROVE  pc'[p] # "copy" /\ \A r \in Prompts : SameLinks(r)
<1>1. None \in Names \cup {None}
  OBVIOUS
<1>2. at[p] \in Nat
  BY AttachmentConstants DEF TypeOK
<1>3. pc'[p] # "copy" /\ at'[p] = at[p] + 1
  BY <1>1, Advance
<1>4. SameLinks(p)
  <2>1. \A i \in Links(p)' : i \in Links(p) /\ blocks'[p][i] = blocks[p][i]
    BY <1>1, Advance DEF Links
  <2>2. Claimed(p)' >= Claimed(p)
    BY <1>2, <1>3 DEF Claimed
  <2> QED BY <1>3, <2>1, <2>2 DEF SameLinks
<1>5. ASSUME NEW r \in Prompts \ {p} PROVE SameLinks(r)
  <2>1. at'[r] = at[r] /\ pc'[r] = pc[r] /\ blocks'[r] = blocks[r]
    BY <1>1, Advance
  <2> QED BY <2>1, ClaimedType DEF SameLinks, Links, Claimed
<1> QED BY <1>3, <1>4, <1>5

-----------------------------------------------------------------------------
(* The steps.                                                              *)

StepInv == PromptInv /\ DiskInv /\ VictimExpired

(* Up to the GET a download touches neither a claimed name nor a file.     *)
LEMMA BeforeOpen ==
  ASSUME IInv, TypeOK', NEW p \in Prompts,
         \/ MakeDir(p) \/ OpenRoot(p) \/ OpenRootFails(p)
         \/ Get(p) \/ GetFails(p) \/ MustOpen(p)
  PROVE  StepInv'
<1> USE DEF IInv
<1>1. UNCHANGED <<files, used, name, linked, sweep, writers, expired>>
  BY DEF MakeDir, OpenRoot, OpenRootFails, Get, GetFails, MustOpen, DiskUnchanged
<1>2. pc[p] \notin {"copy", "sent"}
  BY DEF MakeDir, OpenRoot, OpenRootFails, Get, GetFails, MustOpen
<1>3. /\ \A r \in Prompts : SameLinks(r)
      /\ pc'[p] # "copy" /\ \A r \in Prompts \ {p} : pc'[r] = pc[r]
  <2>1. CASE OpenRootFails(p) \/ GetFails(p)
    <3>1. NextAttachment(p, None)
      BY <2>1 DEF OpenRootFails, GetFails
    <3>2. \A r \in Prompts \ {p} : pc'[r] = pc[r]
      BY <3>1 DEF NextAttachment, Goto, TypeOK
    <3> QED BY <1>2, <3>1, <3>2, Skips
  <2>2. CASE MakeDir(p) \/ OpenRoot(p) \/ Get(p) \/ MustOpen(p)
    <3>1. UNCHANGED <<at, blocks>>
      BY <2>2 DEF MakeDir, OpenRoot, Get, MustOpen
    <3>2. PICK stage \in {"root", "get", "open", "panic"} : Goto(p, stage)
      BY <2>2 DEF MakeDir, OpenRoot, Get, MustOpen
    <3>3. pc'[p] # "copy" /\ \A r \in Prompts \ {p} : pc'[r] = pc[r]
      BY <3>2 DEF Goto, TypeOK
    <3> QED BY <1>2, <3>1, <3>3, Stays
  <2> QED BY <2>1, <2>2
<1>4. PromptInv'
  BY <1>1, <1>3, PromptFrame DEF PromptInv
<1>5. DiskInv'
  <2>1. \A r \in Prompts : linked[r] => pc'[r] = "copy"
    BY <1>2, <1>3 DEF CopyingAlone
  <2> QED BY <1>1, <1>3, <2>1, DiskFrame DEF DiskInv
<1>6. VictimExpired'
  BY <1>1 DEF VictimExpired
<1> QED BY <1>4, <1>5, <1>6 DEF StepInv

(* The file is truncated for an attachment it was not opened for before:   *)
(* one that was opened once keeps its writer, or has this one only.        *)
LEMMA Opening ==
  ASSUME IInv, TypeOK', NEW p \in Prompts, OpenFile(p) PROVE StepInv'
<1> USE DEF IInv
<1> DEFINE n == FinalName(p)
           f == FileOf[n]
           o == <<p, at[p]>>
<1>1. n \in Names /\ n \notin used[p] /\ pc[p] = "open" /\ f \in Files
  BY FinalNameIsFree, AttachmentConstants DEF OpenFile
<1>2. /\ name' = [name EXCEPT ![p] = n]
      /\ used' = [used EXCEPT ![p] = @ \cup {n}]
      /\ files' = [files EXCEPT ![f] = [by |-> p, whole |-> FALSE, old |-> FALSE]]
      /\ writers' = [writers EXCEPT ![f] = @ \cup {o}]
      /\ expired' = expired \ {f}
      /\ linked' = [linked EXCEPT ![p] = TRUE]
      /\ pc' = [pc EXCEPT ![p] = "copy"]
      /\ UNCHANGED <<dir, at, root, blocks, sweep>>
  BY DEF OpenFile, Goto
<1>n. FileOf[n] = f
  OBVIOUS
<1> HIDE DEF n, f
<1>3. o \notin writers[f] /\ at[p] \in 1 .. Len(List)
  <2>1. at[p] \in 1 .. Len(List) /\ Claimed(p) = at[p] - 1
    BY <1>1, AttachmentConstants DEF TypeOK, Claimed
  <2>2. o \in writers[f] => at[p] <= Claimed(p)
    BY <1>1, <2>1 DEF WritersKnown
  <2> QED BY <2>1, <2>2, AttachmentConstants
<1>4. /\ \A r \in Prompts \ {p} : /\ name'[r] = name[r] /\ used'[r] = used[r]
                                  /\ linked'[r] = linked[r] /\ pc'[r] = pc[r]
      /\ name'[p] = n /\ used'[p] = used[p] \cup {n} /\ linked'[p] /\ pc'[p] = "copy"
      /\ \A m \in Files \ {f} : files'[m] = files[m] /\ writers'[m] = writers[m]
      /\ writers'[f] = writers[f] \cup {o}
      /\ files'[f] = [by |-> p, whole |-> FALSE, old |-> FALSE] /\ files'[f] # None
      /\ \A r \in Prompts : Links(r)' = Links(r)
      /\ blocks' = blocks /\ at' = at /\ sweep' = sweep
  <2>1. files'[f] = [by |-> p, whole |-> FALSE, old |-> FALSE]
    BY <1>1, <1>2 DEF TypeOK
  <2>2. files'[f] # None
    <3>1. files'[f] \in [by : Prompts, whole : BOOLEAN, old : BOOLEAN]
      BY <2>1
    <3>2. None \notin [by : Prompts, whole : BOOLEAN, old : BOOLEAN]
      BY AttachmentConstants
    <3> QED BY <3>1, <3>2, Zenon
  <2>3. /\ \A m \in Files \ {f} : files'[m] = files[m] /\ writers'[m] = writers[m]
        /\ writers'[f] = writers[f] \cup {o}
    BY <1>1, <1>2 DEF TypeOK
  <2>4. /\ \A r \in Prompts \ {p} : /\ name'[r] = name[r] /\ used'[r] = used[r]
                                    /\ linked'[r] = linked[r] /\ pc'[r] = pc[r]
        /\ name'[p] = n /\ used'[p] = used[p] \cup {n} /\ linked'[p] /\ pc'[p] = "copy"
    BY <1>2 DEF TypeOK
  <2>5. \A r \in Prompts : Links(r)' = Links(r)
    BY <1>2 DEF Links
  <2>6. blocks' = blocks /\ at' = at /\ sweep' = sweep
    BY <1>2
  <2> QED BY <2>1, <2>2, <2>3, <2>4, <2>5, <2>6, Zenon
<1>5. \A r \in Prompts, i \in Nat : writers'[f] = {<<r, i>>} => r = p /\ i = at[p]
  <2> SUFFICES ASSUME NEW r \in Prompts, NEW i \in Nat, writers'[f] = {<<r, i>>}
               PROVE  r = p /\ i = at[p]
    OBVIOUS
  <2>1. o \in writers'[f]
    BY <1>4
  <2>2. <<p, at[p]>> = <<r, i>>
    BY <2>1
  <2> QED BY <2>2
<1>6. \A r \in Prompts : \A i \in Links(r) :
        /\ FileOf[blocks[r][i]] \in Files /\ i \in Nat
        /\ r = p => i # at[p]
  <2> TAKE r \in Prompts
  <2> TAKE i \in Links(r)
  <2>1. FileOf[blocks[r][i]] \in Files
    BY LinkNames
  <2>2. i \in Nat /\ i # at[r]
    BY LinkPlace
  <2> QED BY <2>1, <2>2
<1>7. PromptInv'
  <2>1. UsedBound'
    <3>1. at[p] \in Nat \ {0} /\ Claimed(p) = at[p] - 1 /\ Claimed(p)' = at[p]
      BY <1>1, <1>4, AttachmentConstants DEF TypeOK, Claimed
    <3>2. /\ IsFiniteSet(used[p]) /\ Cardinality(used[p]) \in Nat
          /\ Cardinality(used[p]) <= at[p] - 1
      BY <3>1, FS_CardinalityType DEF UsedBound
    <3>3. IsFiniteSet(used'[p]) /\ Cardinality(used'[p]) = Cardinality(used[p]) + 1
      <4>1. used'[p] = used[p] \cup {n} /\ n \notin used[p]
        BY <1>1, <1>4
      <4>2. /\ IsFiniteSet(used[p] \cup {n})
            /\ n \notin used[p] =>
                 Cardinality(used[p] \cup {n}) = Cardinality(used[p]) + 1
        <5> IsFiniteSet(used[p])
          BY <3>2
        <5> QED BY FS_AddElement, Zenon
      <4> QED BY <4>1, <4>2, Zenon
    <3>4. Cardinality(used'[p]) <= Claimed(p)'
      <4> DEFINE u == Cardinality(used[p])
      <4>1. u \in Nat /\ at[p] \in Nat /\ u <= at[p] - 1
        BY <3>1, <3>2
      <4> HIDE DEF u
      <4>2. u + 1 <= at[p]
        BY <4>1
      <4> QED BY <3>1, <3>3, <4>2 DEF u
    <3>5. ASSUME NEW r \in Prompts \ {p}
          PROVE  IsFiniteSet(used'[r]) /\ Cardinality(used'[r]) <= Claimed(r)'
      BY <1>4 DEF UsedBound, Claimed
    <3> QED BY <3>3, <3>4, <3>5 DEF UsedBound
  <2>2. LinksClaimed'
    BY <1>1, <1>4 DEF LinksClaimed
  <2>3. WritersKnown'
    <3>1. \A m \in Files : writers[m] \subseteq writers'[m]
      BY <1>4
    <3>2. \A r \in Prompts : pc[r] = "copy" => FileOf[name[r]] \in Files
      BY OpenType DEF LinksClaimed
    <3>3. ASSUME NEW r \in Prompts, NEW m \in Files, NEW i \in 1 .. Len(List),
                 <<r, i>> \in writers'[m]
          PROVE  i <= Claimed(r)'
      <4>1. CASE <<r, i>> \in writers[m]
        <5>1. i <= Claimed(r) /\ Claimed(r) \in Nat
          BY <4>1, ClaimedType DEF WritersKnown
        <5>2. r # p => Claimed(r)' = Claimed(r)
          BY <1>4 DEF Claimed
        <5>3. Claimed(p) = at[p] - 1 /\ Claimed(p)' = at[p] /\ at[p] \in Nat
          BY <1>1, <1>3, <1>4 DEF Claimed
        <5> QED BY <5>1, <5>2, <5>3
      <4>2. CASE <<r, i>> = o
        BY <1>3, <1>4, <4>2 DEF Claimed
      <4> QED BY <1>4, <3>3, <4>1, <4>2
    <3>4. \A r \in Prompts : \A i \in Links(r) : <<r, i>> \in writers'[FileOf[blocks[r][i]]]
      BY <1>6, <3>1 DEF WritersKnown
    <3>5. \A r \in Prompts : pc'[r] = "copy" => <<r, at[r]>> \in writers'[FileOf[name'[r]]]
      BY <1>n, <1>4, <3>1, <3>2 DEF WritersKnown
    <3> QED BY <1>4, <3>3, <3>4, <3>5 DEF WritersKnown
  <2>4. LinksDistinct'
    BY <1>4 DEF LinksDistinct
  <2> QED BY <2>1, <2>2, <2>3, <2>4 DEF PromptInv
<1>8. FilesKnown'
  <2>1. ~files'[f].old
    BY <1>4
  <2> QED BY <1>2, <1>4, <2>1 DEF FilesKnown
<1>9. CopyingAlone'
  <2>1. \A m \in Files : files[m] # None => files'[m] # None
    BY <1>4
  <2>2. ASSUME NEW r \in Prompts
        PROVE  linked'[r] => pc'[r] = "copy" /\ files'[FileOf[name'[r]]] # None
    <3>1. linked[r] => FileOf[name[r]] \in Files
      BY OpenType
    <3> QED BY <1>n, <1>4, <2>1, <3>1 DEF CopyingAlone
  <2>3. ASSUME NEW r \in Prompts, pc'[r] = "copy", writers'[FileOf[name'[r]]] = {<<r, at[r]>>}
        PROVE  /\ linked'[r] /\ FileOf[name'[r]] \notin expired'
               /\ files'[FileOf[name'[r]]].by = r /\ ~files'[FileOf[name'[r]]].whole
    <3>1. CASE r = p
      <4>1. files'[f].by = p /\ ~files'[f].whole
        BY <1>4
      <4>2. FileOf[name'[r]] = f /\ linked'[r]
        BY <1>n, <1>4, <3>1
      <4>3. f \notin expired'
        BY <1>2
      <4> QED BY <3>1, <4>1, <4>2, <4>3
    <3>2. CASE r # p
      <4>1. name'[r] = name[r] /\ pc[r] = "copy" /\ linked'[r] = linked[r]
        BY <1>4, <2>3, <3>2
      <4>2. FileOf[name[r]] \in Files /\ at[r] \in Nat
        <5>1. at[r] \in Nat
          <6>1. at[r] \in 1 .. Len(List) + 1
            BY DEF TypeOK
          <6> QED BY <6>1
        <5>2. name[r] \in used[r]
          BY <4>1 DEF LinksClaimed
        <5>3. TypeOK
          OBVIOUS
        <5> HIDE DEF IInv
        <5> QED BY <5>1, <5>2, <5>3, OpenType
      <4>3. FileOf[name[r]] # f
        BY <1>5, <2>3, <3>2, <4>1, <4>2
      <4>4. files'[FileOf[name[r]]] = files[FileOf[name[r]]]
            /\ writers'[FileOf[name[r]]] = writers[FileOf[name[r]]]
        BY <1>4, <4>2, <4>3
      <4>5. writers[FileOf[name[r]]] = {<<r, at[r]>>}
        BY <2>3, <4>1, <4>4
      <4>6. /\ linked[r] /\ FileOf[name[r]] \notin expired
            /\ files[FileOf[name[r]]].by = r /\ ~files[FileOf[name[r]]].whole
        BY <4>1, <4>5 DEF CopyingAlone
      <4> QED BY <1>2, <4>1, <4>4, <4>6
    <3> QED BY <3>1, <3>2
  <2> QED BY <1>4, <2>2, <2>3 DEF CopyingAlone
<1>10. LinkKept'
  <2> SUFFICES ASSUME NEW r \in Prompts, NEW i \in Links(r), writers'[FileOf[blocks[r][i]]] = {<<r, i>>}
               PROVE  \/ FileOf[blocks[r][i]] \in expired'
                      \/ files'[FileOf[blocks[r][i]]] # None /\ files'[FileOf[blocks[r][i]]].whole
    BY <1>4 DEF LinkKept
  <2>1. FileOf[blocks[r][i]] # f
    BY <1>5, <1>6
  <2> QED BY <1>2, <1>4, <1>6, <2>1 DEF LinkKept
<1>11. VictimExpired'
  <2> SUFFICES ASSUME sweep.victim # None
               PROVE  /\ writers'[sweep.victim] # {}
                      /\ \A q \in writers'[sweep.victim] :
                           writers'[sweep.victim] = {q} => sweep.victim \in expired'
    BY <1>4 DEF VictimExpired
  <2>1. sweep.victim \in Files
    BY DEF TypeOK
  <2>2. CASE sweep.victim = f
    BY <1>3, <1>4, <2>2 DEF VictimExpired
  <2>3. CASE sweep.victim # f
    BY <1>2, <1>4, <2>1, <2>3 DEF VictimExpired
  <2> QED BY <2>2, <2>3
<1> QED BY <1>7, <1>8, <1>9, <1>10, <1>11 DEF StepInv, DiskInv

(* The download is complete: its name becomes a link, and the file of a    *)
(* prompt that has it to itself is whole.                                  *)
LEMMA Copied ==
  ASSUME IInv, TypeOK', NEW p \in Prompts, CopyDone(p) PROVE StepInv'
<1> USE DEF IInv
<1>1. /\ pc[p] = "copy" /\ NextAttachment(p, name[p])
      /\ linked' = [linked EXCEPT ![p] = FALSE]
      /\ UNCHANGED <<dir, used, name, sweep, writers, expired>>
  BY DEF CopyDone
<1> DEFINE f == FileOf[name[p]]
<1>2. /\ name[p] \in Names /\ name[p] \in used[p] /\ f \in Files
      /\ <<p, at[p]>> \in writers[f]
  BY <1>1, OpenType DEF LinksClaimed, WritersKnown
<1>3. name[p] \in Names \cup {None} /\ pc[p] # "sent" /\ name[p] # None
  BY <1>1, <1>2, AttachmentConstants
<1>4. /\ at'[p] = at[p] + 1 /\ pc'[p] # "copy" /\ ~linked'[p]
      /\ \A r \in Prompts \ {p} : /\ at'[r] = at[r] /\ pc'[r] = pc[r]
                                  /\ blocks'[r] = blocks[r] /\ linked'[r] = linked[r]
  <2>1. ~linked'[p] /\ \A r \in Prompts \ {p} : linked'[r] = linked[r]
    BY <1>1 DEF TypeOK
  <2>2. pc'[p] \in {"mkdir", "sent"} /\ at'[p] = at[p] + 1
    BY <1>1, <1>3, Advance
  <2>3. \A r \in Prompts \ {p} :
          at'[r] = at[r] /\ pc'[r] = pc[r] /\ blocks'[r] = blocks[r]
    BY <1>1, <1>3, Advance
  <2> QED BY <2>1, <2>2, <2>3
<1>5. \A i \in Links(p)' :
        \/ i \in Links(p) /\ blocks'[p][i] = blocks[p][i]
        \/ i = at[p] /\ blocks'[p][i] = name[p]
  BY <1>1, <1>3, Advance DEF Links
<1>6. \A r \in Prompts \ {p} : Links(r)' = Links(r)
  BY <1>4 DEF Links
<1>7. \A r \in Prompts : \A i \in Links(r) : FileOf[blocks[r][i]] \in Files
  BY LinkNames
<1>8. \A m \in Files \ {f} : files'[m] = files[m]
  BY DEF CopyDone, TypeOK, Open
<1>9. /\ files[f] = None <=> files'[f] = None
      /\ files'[f] # None =>
           /\ files'[f].by = files[f].by /\ files'[f].old = files[f].old
           /\ files[f].whole => files'[f].whole
      /\ linked[p] /\ files[f].by = p =>
           files'[f] # None /\ files'[f].whole
  <2>1. CASE linked[p] /\ files[f].by = p
    <3>1. files[f] \in [by : Prompts, whole : BOOLEAN, old : BOOLEAN]
      <4>1. files[f] # None
        BY <2>1 DEF CopyingAlone
      <4> QED BY <1>2, <4>1 DEF TypeOK
    <3>2. files'[f] = [files[f] EXCEPT !.whole = TRUE]
      BY <1>2, <2>1 DEF CopyDone, TypeOK, Open
    <3>3. /\ files'[f] \in [by : Prompts, whole : BOOLEAN, old : BOOLEAN]
          /\ files'[f].by = files[f].by
          /\ files'[f].old = files[f].old /\ files'[f].whole
      BY <3>1, <3>2
    <3>4. None \notin [by : Prompts, whole : BOOLEAN, old : BOOLEAN]
      BY AttachmentConstants
    <3>5. files[f] # None /\ files'[f] # None
      BY <3>1, <3>3, <3>4, Zenon
    <3> QED BY <3>3, <3>5
  <2>2. CASE ~(linked[p] /\ files[f].by = p)
    BY <2>2 DEF CopyDone, Open
  <2> QED BY <2>1, <2>2
<1>10. PromptInv'
  <2>1. UsedBound'
    <3>1. at[p] \in Nat /\ Claimed(p) = at[p] /\ Claimed(p)' = at[p]
      BY <1>1, <1>4, AttachmentConstants DEF TypeOK, Claimed
    <3>2. \A r \in Prompts : Claimed(r)' = Claimed(r)
      BY <1>4, <3>1 DEF Claimed
    <3> QED BY <1>1, <3>2 DEF UsedBound
  <2>2. LinksClaimed'
    <3>1. \A r \in Prompts : \A i \in Links(r)' : blocks'[r][i] \in used[r]
      BY <1>2, <1>4, <1>5, <1>6 DEF LinksClaimed
    <3> QED BY <1>1, <1>4, <1>6, <3>1 DEF LinksClaimed
  <2>3. WritersKnown'
    <3>1. \A r \in Prompts : \A i \in Links(r)' : <<r, i>> \in writers[FileOf[blocks'[r][i]]]
      <4>1. \A i \in Links(p)' : <<p, i>> \in writers[FileOf[blocks'[p][i]]]
        BY <1>2, <1>5 DEF WritersKnown
      <4>2. ASSUME NEW r \in Prompts \ {p}, NEW i \in Links(r)'
            PROVE  <<r, i>> \in writers[FileOf[blocks'[r][i]]]
        <5>1. i \in Links(r) /\ blocks'[r][i] = blocks[r][i]
          BY <1>4, <1>6
        <5> QED BY <5>1 DEF WritersKnown
      <4> QED BY <4>1, <4>2
    <3>2. \A r \in Prompts : Claimed(r)' = Claimed(r)
      <4>1. at[p] \in Nat /\ Claimed(p) = at[p] /\ Claimed(p)' = at[p]
        BY <1>1, <1>4, AttachmentConstants DEF TypeOK, Claimed
      <4> QED BY <1>4, <4>1 DEF Claimed
    <3>3. \A r \in Prompts : \A m \in Files : \A i \in 1 .. Len(List) :
            <<r, i>> \in writers'[m] => i <= Claimed(r)'
      BY <1>1, <3>2 DEF WritersKnown
    <3>4. \A r \in Prompts : pc'[r] = "copy" => <<r, at'[r]>> \in writers'[FileOf[name'[r]]]
      BY <1>1, <1>4 DEF WritersKnown
    <3> QED BY <1>1, <3>1, <3>3, <3>4 DEF WritersKnown
  <2>4. LinksDistinct'
    <3>1. ASSUME NEW i \in Links(p)', NEW j \in Links(p)', blocks'[p][i] = blocks'[p][j]
          PROVE  i = j
      BY <1>1, <1>5, <3>1 DEF LinksDistinct, LinksClaimed
    <3> QED BY <1>4, <1>6, <3>1 DEF LinksDistinct
  <2> QED BY <2>1, <2>2, <2>3, <2>4 DEF PromptInv
<1>11. FilesKnown'
  <2> HIDE DEF f
  <2> QED BY <1>1, <1>8, <1>9 DEF FilesKnown
<1>12. CopyingAlone'
  <2> SUFFICES ASSUME NEW r \in Prompts \ {p}, linked[r] \/ pc[r] = "copy"
               PROVE  /\ linked[r] => pc[r] = "copy" /\ files'[FileOf[name[r]]] # None
                      /\ writers[FileOf[name[r]]] = {<<r, at[r]>>} =>
                           /\ linked[r] /\ FileOf[name[r]] \notin expired
                           /\ files'[FileOf[name[r]]].by = r /\ ~files'[FileOf[name[r]]].whole
    BY <1>1, <1>4 DEF CopyingAlone
  <2>1. pc[r] = "copy" /\ FileOf[name[r]] \in Files
    BY OpenType DEF CopyingAlone, LinksClaimed
  <2>2. linked[r] => files'[FileOf[name[r]]] # None
    <3>1. linked[r] => files[FileOf[name[r]]] # None
      BY DEF CopyingAlone
    <3> QED BY <1>8, <1>9, <2>1, <3>1
  <2>3. CASE writers[FileOf[name[r]]] = {<<r, at[r]>>}
    <3>1. files'[FileOf[name[r]]] = files[FileOf[name[r]]]
      BY <1>2, <1>8, <2>1, <2>3
    <3> QED BY <2>1, <2>2, <2>3, <3>1 DEF CopyingAlone
  <2> QED BY <2>1, <2>2, <2>3
<1>13. LinkKept'
  <2>1. ASSUME NEW m \in Files, m \in expired \/ (files[m] # None /\ files[m].whole)
        PROVE  m \in expired \/ (files'[m] # None /\ files'[m].whole)
    <3> HIDE DEF f
    <3> QED BY <1>8, <1>9, <2>1
  <2>2. ASSUME NEW i \in Links(p)', writers[FileOf[blocks'[p][i]]] = {<<p, i>>}
        PROVE  \/ FileOf[blocks'[p][i]] \in expired
               \/ files'[FileOf[blocks'[p][i]]] # None /\ files'[FileOf[blocks'[p][i]]].whole
    <3>1. CASE i \in Links(p) /\ blocks'[p][i] = blocks[p][i]
      BY <1>7, <2>1, <2>2, <3>1 DEF LinkKept
    <3>2. CASE i = at[p] /\ blocks'[p][i] = name[p]
      BY <1>1, <1>9, <2>2, <3>2 DEF CopyingAlone
    <3> QED BY <1>5, <3>1, <3>2
  <2>3. ASSUME NEW r \in Prompts \ {p}, NEW i \in Links(r), writers[FileOf[blocks[r][i]]] = {<<r, i>>}
        PROVE  \/ FileOf[blocks[r][i]] \in expired
               \/ files'[FileOf[blocks[r][i]]] # None /\ files'[FileOf[blocks[r][i]]].whole
    BY <1>7, <2>1, <2>3 DEF LinkKept
  <2> QED BY <1>1, <1>4, <1>6, <2>2, <2>3 DEF LinkKept
<1>14. VictimExpired'
  BY <1>1 DEF VictimExpired
<1> QED BY <1>10, <1>11, <1>12, <1>13, <1>14 DEF StepInv, DiskInv

(* A step that removes at most the file f, when nobody it was opened for   *)
(* alone needs it any more.                                                *)
LEMMA Removing ==
  ASSUME IInv, NEW f \in Files, UNCHANGED <<name, writers, expired>>,
         files' = files \/ files' = [files EXCEPT ![f] = None],
         \A r \in Prompts : SameLinks(r),
         \A r \in Prompts : linked'[r] => /\ linked[r] /\ pc'[r] = "copy"
                                          /\ files'[FileOf[name[r]]] # None,
         \A r \in Prompts : pc'[r] = "copy" /\ writers[FileOf[name[r]]] = {<<r, at[r]>>} =>
           linked'[r] /\ (files' = files \/ FileOf[name[r]] # f),
         \A r \in Prompts : \A i \in Links(r) :
           FileOf[blocks[r][i]] = f /\ writers[f] = {<<r, i>>} => f \in expired \/ files' = files
  PROVE  DiskInv'
<1> USE DEF IInv
<1>1. \A m \in Files : files'[m] = files[m] \/ (m = f /\ files'[m] = None)
  BY DEF TypeOK
<1>2. FilesKnown'
  BY <1>1 DEF FilesKnown
<1>3. CopyingAlone'
  <2> SUFFICES ASSUME NEW r \in Prompts, pc'[r] = "copy", writers[FileOf[name[r]]] = {<<r, at[r]>>}
               PROVE  /\ FileOf[name[r]] \notin expired
                      /\ files'[FileOf[name[r]]].by = r /\ ~files'[FileOf[name[r]]].whole
    BY DEF CopyingAlone, SameLinks
  <2>1. pc[r] = "copy" /\ at'[r] = at[r] /\ FileOf[name[r]] \in Files
    BY OpenType DEF SameLinks, LinksClaimed
  <2>2. files'[FileOf[name[r]]] = files[FileOf[name[r]]]
    BY <1>1, <2>1
  <2> QED BY <2>1, <2>2 DEF CopyingAlone
<1>4. LinkKept'
  <2> SUFFICES ASSUME NEW r \in Prompts, NEW i \in Links(r), writers[FileOf[blocks[r][i]]] = {<<r, i>>}
               PROVE  \/ FileOf[blocks[r][i]] \in expired
                      \/ files'[FileOf[blocks[r][i]]] # None /\ files'[FileOf[blocks[r][i]]].whole
    BY DEF LinkKept, SameLinks
  <2>1. FileOf[blocks[r][i]] \in Files
    BY LinkNames
  <2>2. CASE files'[FileOf[blocks[r][i]]] = files[FileOf[blocks[r][i]]]
    BY <2>2 DEF LinkKept
  <2>3. CASE files'[FileOf[blocks[r][i]]] # files[FileOf[blocks[r][i]]]
    BY <1>1, <2>1, <2>3
  <2> QED BY <2>2, <2>3
<1> QED BY <1>2, <1>3, <1>4 DEF DiskInv

(* Removing the broken file takes no link away that was its only opening:  *)
(* it was opened for the attachment that failed.                           *)
LEMMA CopyFailing ==
  ASSUME IInv, TypeOK', NEW p \in Prompts, CopyFails(p) PROVE StepInv'
<1> USE DEF IInv
<1>1. /\ pc[p] = "copy" /\ NextAttachment(p, None)
      /\ UNCHANGED <<dir, used, name, sweep, writers, expired>>
  BY DEF CopyFails
<1> DEFINE f == FileOf[name[p]]
<1>2. f \in Files /\ <<p, at[p]>> \in writers[f]
  BY <1>1, OpenType DEF LinksClaimed, WritersKnown
<1>3. pc'[p] # "copy" /\ \A r \in Prompts : SameLinks(r)
  BY <1>1, Skips
<1>4. \A r \in Prompts \ {p} : pc'[r] = pc[r]
  BY <1>1 DEF NextAttachment, Goto, TypeOK
<1>5. PromptInv'
  BY <1>1, <1>3, PromptFrame DEF PromptInv
<1>6. files' = files \/ files' = [files EXCEPT ![f] = None]
  BY DEF CopyFails, Unlink, Open
<1>7. \A r \in Prompts : linked'[r] =>
        r # p /\ linked[r] /\ (files' = files \/ FileOf[name[r]] # f)
  <2>1. CASE root[p] = "open"
    BY <2>1 DEF CopyFails, Unlink, Open
  <2>2. CASE root[p] # "open"
    BY <2>2 DEF CopyFails, TypeOK
  <2> QED BY <2>1, <2>2
<1>8. \A r \in Prompts : linked'[r] =>
        linked[r] /\ pc'[r] = "copy" /\ files'[FileOf[name[r]]] # None
  <2> SUFFICES ASSUME NEW r \in Prompts, linked'[r]
               PROVE  linked[r] /\ pc'[r] = "copy" /\ files'[FileOf[name[r]]] # None
    OBVIOUS
  <2>1. r # p /\ linked[r] /\ pc[r] = "copy" /\ files[FileOf[name[r]]] # None
    BY <1>7 DEF CopyingAlone
  <2>2. FileOf[name[r]] \in Files
    BY <2>1, OpenType
  <2>3. files' = files \/ FileOf[name[r]] # f
    BY <1>7
  <2>4. DOMAIN files = Files
    BY DEF TypeOK
  <2>5. files'[FileOf[name[r]]] = files[FileOf[name[r]]]
    BY <1>6, <2>2, <2>3, <2>4
  <2> QED BY <1>4, <2>1, <2>5
<1>9. ASSUME NEW r \in Prompts, pc'[r] = "copy", writers[FileOf[name[r]]] = {<<r, at[r]>>}
      PROVE  linked'[r] /\ (files' = files \/ FileOf[name[r]] # f)
  <2>1. r # p /\ pc[r] = "copy" /\ FileOf[name[r]] # f
    BY <1>2, <1>3, <1>4, <1>9
  <2>2. linked[r]
    BY <1>9, <2>1 DEF CopyingAlone
  <2>3. CASE root[p] = "open"
    BY <2>1, <2>2, <2>3 DEF CopyFails, Unlink, Open
  <2>4. CASE root[p] # "open"
    BY <2>1, <2>2, <2>4 DEF CopyFails
  <2> QED BY <2>1, <2>3, <2>4
<1>10. \A r \in Prompts : \A i \in Links(r) :
         ~(FileOf[blocks[r][i]] = f /\ writers[f] = {<<r, i>>})
  <2> SUFFICES ASSUME NEW r \in Prompts, NEW i \in Links(r), writers[f] = {<<r, i>>}
               PROVE  FALSE
    OBVIOUS
  <2>1. r = p /\ i = at[p]
    BY <1>2
  <2>2. i \in Nat /\ i # at[r]
    BY LinkPlace
  <2> QED BY <2>1, <2>2
<1>11. DiskInv'
  BY <1>1, <1>2, <1>3, <1>6, <1>8, <1>9, <1>10, Removing
<1>12. VictimExpired'
  BY <1>1 DEF VictimExpired
<1> QED BY <1>5, <1>11, <1>12 DEF StepInv

(* Nobody has a file open when its TTL ends.                               *)
LEMMA Expiring ==
  ASSUME IInv, TypeOK', NEW f \in Files, Expire(f) PROVE StepInv'
<1> USE DEF IInv
<1>1. /\ files[f] \in [by : Prompts, whole : BOOLEAN, old : BOOLEAN]
      /\ files[f] # None /\ files[f].whole
      /\ \A p \in Prompts : ~(linked[p] /\ Open(p) = f)
      /\ files' = [files EXCEPT ![f].old = TRUE] /\ expired' = expired \cup {f}
      /\ UNCHANGED <<dir, pc, at, used, root, name, linked, blocks, sweep, writers>>
  BY DEF Expire, TypeOK
<1>2. /\ files'[f] = [files[f] EXCEPT !.old = TRUE]
      /\ \A m \in Files \ {f} : files'[m] = files[m]
  BY <1>1 DEF TypeOK
<1>3. /\ files'[f] \in [by : Prompts, whole : BOOLEAN, old : BOOLEAN]
      /\ files'[f].by = files[f].by /\ files'[f].whole
  <2>1. files[f] \in [by : Prompts, whole : BOOLEAN, old : BOOLEAN] /\ files[f].whole
    BY <1>1
  <2>2. files'[f] = [files[f] EXCEPT !.old = TRUE]
    BY <1>2
  <2> QED BY <2>1, <2>2
<1>4. files'[f] # None
  <2>1. None \notin [by : Prompts, whole : BOOLEAN, old : BOOLEAN]
    BY AttachmentConstants
  <2> QED BY <1>3, <2>1, Zenon
<1>5. \A r \in Prompts : SameLinks(r)
  BY <1>1, Stays
<1>6. PromptInv'
  BY <1>1, <1>5, PromptFrame DEF PromptInv
<1>7. FilesKnown'
  BY <1>1, <1>2, <1>3 DEF FilesKnown
<1>8. CopyingAlone'
  <2> SUFFICES ASSUME NEW r \in Prompts, linked[r] \/ pc[r] = "copy"
               PROVE  /\ linked[r] => pc[r] = "copy" /\ files'[FileOf[name[r]]] # None
                      /\ writers[FileOf[name[r]]] = {<<r, at[r]>>} =>
                           /\ linked[r] /\ FileOf[name[r]] \notin expired'
                           /\ files'[FileOf[name[r]]].by = r /\ ~files'[FileOf[name[r]]].whole
    BY <1>1 DEF CopyingAlone
  <2>1. pc[r] = "copy" /\ FileOf[name[r]] \in Files
    BY OpenType DEF CopyingAlone, LinksClaimed
  <2>2. linked[r] => FileOf[name[r]] # f /\ files'[FileOf[name[r]]] = files[FileOf[name[r]]]
    BY <1>1, <1>2, <2>1 DEF Open
  <2> QED BY <1>1, <2>1, <2>2 DEF CopyingAlone
<1>9. LinkKept'
  BY <1>1, <1>2, <1>3, <1>4 DEF LinkKept, TypeOK, Links
<1>10. VictimExpired'
  BY <1>1 DEF VictimExpired
<1> QED BY <1>6, <1>7, <1>8, <1>9, <1>10 DEF StepInv, DiskInv

(* A file the sweep finds old has expired, and one it removes has, or has  *)
(* been written since by two prompts.                                      *)
LEMMA Sweeping ==
  ASSUME IInv, TypeOK', Sweep PROVE StepInv'
<1> USE DEF IInv
<1>1. UNCHANGED <<pc, at, used, name, blocks, writers, expired>>
  BY DEF Sweep, SweepRead, SweepInfo, SweepRemove, SweepDir, DownloadsUnchanged
<1>2. \A r \in Prompts : SameLinks(r)
  BY <1>1, Stays
<1>3. PromptInv'
  BY <1>1, <1>2, PromptFrame DEF PromptInv
<1>4. CASE SweepRemove
  <2> DEFINE f == sweep.victim
  <2>1. f \in Files /\ f # None
    BY <1>4 DEF SweepRemove, TypeOK
  <2>2. /\ files' = [files EXCEPT ![f] = None]
        /\ linked' = [p \in Prompts |-> linked[p] /\ FileOf[name[p]] # f]
        /\ sweep'.victim = None
    BY <1>4 DEF SweepRemove, Unlink, Open
  <2> HIDE DEF f
  <2>3. \A o \in writers[f] : writers[f] = {o} => f \in expired
    BY <2>1 DEF VictimExpired, f
  <2>4. \A r \in Prompts : linked'[r] =>
          linked[r] /\ pc'[r] = "copy" /\ files'[FileOf[name[r]]] # None
    <3> TAKE r \in Prompts
    <3>1. linked[r] => FileOf[name[r]] \in Files /\ files[FileOf[name[r]]] # None
      BY OpenType DEF CopyingAlone
    <3>2. linked'[r] => linked[r] /\ FileOf[name[r]] # f
      BY <2>2
    <3>3. ASSUME linked'[r] PROVE files'[FileOf[name[r]]] = files[FileOf[name[r]]]
      BY <2>2, <3>1, <3>2, <3>3 DEF TypeOK
    <3> QED BY <1>1, <3>1, <3>2, <3>3 DEF CopyingAlone
  <2>5. ASSUME NEW r \in Prompts, pc'[r] = "copy", writers[FileOf[name[r]]] = {<<r, at[r]>>}
        PROVE  linked'[r] /\ FileOf[name[r]] # f
    BY <1>1, <2>2, <2>3, <2>5 DEF CopyingAlone
  <2>6. DiskInv'
    BY <1>1, <1>2, <2>1, <2>2, <2>3, <2>4, <2>5, Removing
  <2>7. VictimExpired'
    BY <2>2 DEF VictimExpired
  <2> QED BY <1>3, <2>6, <2>7 DEF StepInv
<1>5. CASE SweepRead \/ (\E f \in Files : SweepInfo(f)) \/ SweepDir
  <2>1. UNCHANGED <<files, linked>>
    BY <1>5 DEF SweepRead, SweepInfo, SweepDir
  <2>2. DiskInv'
    <3>1. \A r \in Prompts : linked[r] => pc'[r] = "copy"
      BY <1>1 DEF CopyingAlone
    <3> QED BY <1>1, <1>2, <2>1, <3>1, DiskFrame DEF DiskInv
  <2>3. VictimExpired'
    <3>1. CASE SweepRead \/ SweepDir
      <4>1. sweep'.victim = None
        <5>1. CASE SweepRead
          BY <5>1 DEF SweepRead, SweepIdle
        <5>2. CASE SweepDir
          BY <5>2 DEF SweepDir, SweepIdle
        <5> QED BY <3>1, <5>1, <5>2
      <4> QED BY <4>1 DEF VictimExpired
    <3>2. ASSUME NEW f \in Files, SweepInfo(f) PROVE VictimExpired'
      <4>1. CASE Stale(f)
        <5>1. sweep'.victim = f
          BY <3>2, <4>1 DEF SweepInfo, TypeOK
        <5>2. writers[f] # {} /\ f \in expired
          BY <4>1 DEF Stale, FilesKnown
        <5> QED BY <1>1, <5>1, <5>2 DEF VictimExpired
      <4>2. CASE ~Stale(f)
        BY <1>1, <3>2, <4>2 DEF SweepInfo, VictimExpired, TypeOK
      <4> QED BY <4>1, <4>2
    <3> QED BY <1>5, <3>1, <3>2
  <2> QED BY <1>3, <2>2, <2>3 DEF StepInv
<1> QED BY <1>4, <1>5 DEF Sweep

-----------------------------------------------------------------------------
LEMMA InitIInv == Init => IInv
<1> SUFFICES ASSUME Init PROVE IInv
  OBVIOUS
<1> USE DEF Init
<1>1. Len(List) \in Nat \ {0}
  BY AttachmentConstants
<1>2. \A p \in Prompts : blocks[p] = << >> /\ DOMAIN blocks[p] = {} /\ Links(p) = {}
  BY DEF Links
<1>3. \A p \in Prompts : IsFiniteSet(used[p]) /\ Cardinality(used[p]) = 0
  BY FS_EmptySet
<1>4. TypeOK
  <2>1. /\ at \in [Prompts -> 1 .. Len(List) + 1]
        /\ \A p \in Prompts : /\ at[p] - 1 = 0 /\ at[p] # Len(List) + 1
                              /\ Len(blocks[p]) = at[p] - 1
    BY <1>1
  <2>2. /\ sweep \in [stage : {"idle", "info", "remove"}, todo : SUBSET Files,
                      victim : Files \cup {None}, live : BOOLEAN]
        /\ sweep.victim # None <=> sweep.stage = "remove"
    BY DEF SweepIdle
  <2>3. blocks \in [Prompts -> Seq(Names \cup {None})]
    OBVIOUS
  <2> QED BY <2>1, <2>2, <2>3 DEF TypeOK
<1>5. UsedBound
  BY <1>3 DEF UsedBound, Claimed
<1>6. LinksClaimed /\ WritersKnown /\ LinksDistinct /\ LinkKept
  BY <1>2 DEF LinksClaimed, WritersKnown, LinksDistinct, LinkKept
<1>7. RootStage /\ FilesKnown /\ CopyingAlone /\ VictimExpired
  BY DEF RootStage, FilesKnown, CopyingAlone, VictimExpired, SweepIdle
<1> QED BY <1>4, <1>5, <1>6, <1>7 DEF IInv

LEMMA NextIInv == IInv /\ [Next]_vars => IInv'
<1> SUFFICES ASSUME IInv, [Next]_vars PROVE IInv'
  OBVIOUS
<1>1. ASSUME NEW p \in Prompts, Download(p) PROVE IInv'
  <2>1. TypeOK' /\ RootStage'
    BY <1>1, DownloadTypes
  <2>2. StepInv'
    BY <1>1, <2>1, BeforeOpen, Opening, Copied, CopyFailing DEF Download
  <2> QED BY <2>1, <2>2 DEF IInv, StepInv, PromptInv, DiskInv
<1>2. ASSUME (\E f \in Files : Expire(f)) \/ Sweep PROVE IInv'
  <2>1. TypeOK' /\ RootStage'
    BY <1>2, SweepTypes
  <2>2. StepInv'
    BY <1>2, <2>1, Expiring, Sweeping
  <2> QED BY <2>1, <2>2 DEF IInv, StepInv, PromptInv, DiskInv
<1>3. CASE UNCHANGED vars
  <2>1. TypeOK' /\ RootStage' /\ VictimExpired' /\ FilesKnown'
    BY <1>3 DEF vars, IInv, TypeOK, RootStage, VictimExpired, FilesKnown
  <2>2. UsedBound' /\ LinksClaimed' /\ CopyingAlone'
    BY <1>3 DEF vars, IInv, UsedBound, Claimed, LinksClaimed, Links, CopyingAlone
  <2>3. WritersKnown'
    BY <1>3 DEF vars, IInv, WritersKnown, Claimed, Links
  <2>4. LinksDistinct' /\ LinkKept'
    BY <1>3 DEF vars, IInv, LinksDistinct, LinkKept, Links
  <2> QED BY <2>1, <2>2, <2>3, <2>4 DEF IInv
<1> QED BY <1>1, <1>2, <1>3 DEF Next, Finished

LEMMA Invariance == Spec => []IInv
BY InitIInv, NextIInv, PTL DEF Spec

(* Every variable keeps its type, and the stages of prompt and sweep fit   *)
(* what they hold: a prompt has one block for each attachment behind it,   *)
(* and writes to a linked file through an open Root only.                  *)
THEOREM TypeCorrect == Spec => []TypeOK
<1>1. IInv => TypeOK
  BY DEF IInv
<1> QED BY <1>1, Invariance, PTL

(* attachmentBlocks and uniqueName: however the names of a message's       *)
(* attachments clash, and whichever os.Root refuses, no two links of a     *)
(* prompt have the same name.                                              *)
THEOREM LinksAreDistinct == Spec => []LinksDistinct
<1>1. IInv => LinksDistinct
  BY DEF IInv
<1> QED BY <1>1, Invariance, PTL

(* downloadAttachment and sweepAttachmentsOnce: a file that the agent has  *)
(* been given a link to, and that was opened for this link only, is on     *)
(* disk and whole until its TTL is over, wherever the sweep is.            *)
THEOREM LinksAreKept == Spec => []LinkKept
<1>1. IInv => LinkKept
  BY DEF IInv
<1> QED BY <1>1, Invariance, PTL
=============================================================================
