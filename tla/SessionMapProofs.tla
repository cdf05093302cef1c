-------------------------- MODULE SessionMapProofs --------------------------
(***************************************************************************)
(* SessionMap, for any number of requests: one queue per conversation, no  *)
(* goroutine left behind but a runner with a turn taken up too late, one   *)
(* transcript per agent session, updates that reach the entry, and all in  *)
(* all what Conversation promises.                                         *)
(***************************************************************************)
EXTENDS SessionMap, SequenceTheorems, TLAPS

(* Who waits: the requests in a queue are waiting there, once.             *)
QueuedWait ==
  \A s \in Requests :
    /\ IsInjective(queue[s])
    /\ \A r \in ToSet(queue[s]) : pc[r] = "queued" /\ got[r] = s

(* ... and whoever has been pushed and has no answer is in the queue of    *)
(* the session it was given, or in the hand of that session's runner.      *)
WaitersAreHeld ==
  \A r \in Requests :
    /\ pc[r] = "queued" => r \in ToSet(queue[got[r]])
    /\ pc[r] \in {"running", "stranded"} => turn[got[r]] = r

(* A runner has a turn of its own session in its hand.                     *)
HandHeld ==
  \A s \in Requests : turn[s] # None =>
    got[turn[s]] = s /\ pc[turn[s]] \in {"running", "stranded"}

(* While gcOnce is at the entry, everything that it has to do is late.     *)
GapIsLate ==
  gc => /\ ToSet(queue[entry]) \subseteq late
        /\ turn[entry] # None => turn[entry] \in late

(* How far the maker of a sessionState has come: its goroutines run until  *)
(* install, and only what came through install is handed out.              *)
CreatorRuns == \A r \in Requests : Creating(r) => r \in running
TakenIsMade == \A r \in Requests : got[r] # None => got[got[r]] # None
EntryIsMade == entry # None => got[entry] # None

(* Agent sessions and their sinks.                                         *)
SidIsKnown == \A r \in Requests : pc[r] \in {"resume", "install"} => sid[r] # None
SinkIsMade ==
  \A s \in Sids : sinks[s] # None =>
    sid[sinks[s]] = s /\ (pc[sinks[s]] = "install" \/ got[sinks[s]] # None)
SinkIsKept == \A r \in Requests : pc[r] = "install" \/ r = entry => sinks[sid[r]] # None

(* Transcripts: they are carried by the request that made the agent        *)
(* session, once.                                                          *)
SeederMadeIt ==
  \A r \in Requests :
    /\ pc[r] = "install" /\ r \notin resumed => sid[r] = r
    /\ freshSeed[r] => got[r] = r /\ sid[r] = r
SeededOnce ==
  \A s \in Sids : seeds[s] = 0 \/ (seeds[s] = 1 /\ s \in Requests /\ pc[s] \in {"running", "stranded", "served"})

QueueInv == QueuedWait /\ WaitersAreHeld /\ HandHeld /\ OneQueuePerConversation
RunInv   == CreatorRuns /\ TakenIsMade /\ EntryIsMade /\ EntryIsServing /\ GapIsLate
              /\ NoStrayGoroutines
SinkInv  == SidIsKnown /\ SinkIsMade /\ SinkIsKept
SeedInv  == SeederMadeIt /\ SeededOnce
IInv     == TypeOK /\ QueueInv /\ RunInv /\ SinkInv /\ SeedInv

-----------------------------------------------------------------------------
(* What Append and Tail do to the elements of a queue.                     *)

(* The empty queue.                                                        *)
LEMMA EmptyElements ==
  /\ ToSet(<<>>) = {} /\ IsInjective(<<>>) /\ Len(<<>>) = 0
  /\ \A S : <<>> \in Seq(S)
BY DEF ToSet, IsInjective

(* Appending a new element to a queue without duplicates.                  *)
LEMMA AppendElements ==
  ASSUME NEW S, NEW s \in Seq(S), NEW e \in S
  PROVE  /\ Append(s, e) \in Seq(S)
         /\ Len(Append(s, e)) = Len(s) + 1
         /\ ToSet(Append(s, e)) = ToSet(s) \cup {e}
         /\ IsInjective(s) /\ e \notin ToSet(s) => IsInjective(Append(s, e))
<1> DEFINE a == Append(s, e)
<1>1. /\ a \in Seq(S) /\ Len(a) = Len(s) + 1
      /\ \A i \in 1..Len(s) : a[i] = s[i]
      /\ a[Len(s) + 1] = e
  OBVIOUS
<1>2. DOMAIN s = 1..Len(s) /\ DOMAIN a = 1..(Len(s) + 1) /\ Len(s) \in Nat
  BY <1>1
<1> HIDE DEF a
<1>3. ToSet(a) = ToSet(s) \cup {e}
  BY <1>1, <1>2 DEF ToSet
<1>4. ASSUME IsInjective(s), e \notin ToSet(s)
      PROVE  IsInjective(a)
  BY <1>1, <1>2, <1>4 DEF ToSet, IsInjective
<1> QED BY <1>1, <1>3, <1>4 DEF a

(* Taking the first element of a queue without duplicates.                 *)
LEMMA TailElements ==
  ASSUME NEW S, NEW s \in Seq(S), s # <<>>
  PROVE  /\ Head(s) \in S /\ Head(s) \in ToSet(s)
         /\ Tail(s) \in Seq(S)
         /\ Len(s) \in Nat /\ Len(Tail(s)) = Len(s) - 1
         /\ ToSet(s) = ToSet(Tail(s)) \cup {Head(s)}
         /\ IsInjective(s) => IsInjective(Tail(s)) /\ Head(s) \notin ToSet(Tail(s))
<1> DEFINE t == Tail(s)
<1>1. /\ t \in Seq(S) /\ Len(t) = Len(s) - 1 /\ Len(s) \in Nat \ {0}
      /\ \A i \in 1..(Len(s) - 1) : t[i] = s[i + 1]
      /\ Head(s) = s[1] /\ Head(s) \in S
  BY HeadTailProperties, EmptySeq
<1>2. DOMAIN s = 1..Len(s) /\ DOMAIN t = 1..(Len(s) - 1)
  BY <1>1
<1> HIDE DEF t
<1>3. Head(s) \in ToSet(s)
  BY <1>1, <1>2 DEF ToSet
<1>4. ToSet(s) = ToSet(t) \cup {Head(s)}
  <2>1. ASSUME NEW i \in 1..Len(s)
        PROVE  s[i] \in ToSet(t) \cup {Head(s)}
    <3>1. CASE i = 1
      BY <3>1, <1>1
    <3>2. CASE i # 1
      <4>1. i - 1 \in 1..(Len(s) - 1) /\ t[i - 1] = s[i]
        BY <3>2, <1>1
      <4> QED BY <4>1, <1>2 DEF ToSet
    <3> QED BY <3>1, <3>2
  <2>2. ASSUME NEW i \in 1..(Len(s) - 1)
        PROVE  t[i] \in ToSet(s)
    <3>1. i + 1 \in 1..Len(s) /\ t[i] = s[i + 1]
      BY <1>1
    <3> QED BY <3>1, <1>2 DEF ToSet
  <2> QED BY <2>1, <2>2, <1>2, <1>3 DEF ToSet
<1>5. ASSUME IsInjective(s)
      PROVE  IsInjective(t) /\ Head(s) \notin ToSet(t)
  <2>1. \A i, j \in 1..Len(s) : s[i] = s[j] => i = j
    BY <1>2, <1>5 DEF IsInjective
  <2>2. ASSUME NEW i \in 1..(Len(s) - 1)
        PROVE  /\ t[i] # Head(s)
               /\ \A j \in 1..(Len(s) - 1) : t[i] = t[j] => i = j
    <3>1. i + 1 \in 1..Len(s) /\ 1 \in 1..Len(s) /\ i + 1 # 1
      BY <1>1
    <3>2. t[i] # Head(s)
      BY <3>1, <2>1, <1>1
    <3>3. ASSUME NEW j \in 1..(Len(s) - 1), t[i] = t[j]
          PROVE  i = j
      <4>1. j + 1 \in 1..Len(s) /\ s[i + 1] = s[j + 1]
        BY <3>3, <1>1
      <4>2. i + 1 = j + 1
        BY <4>1, <3>1, <2>1
      <4> QED BY <4>2, <1>1
    <3> QED BY <3>2, <3>3
  <2> QED BY <2>2, <1>2 DEF ToSet, IsInjective
<1> QED BY <1>1, <1>3, <1>4, <1>5 DEF t

-----------------------------------------------------------------------------
LEMMA Names == Requests \subseteq Sids /\ OldSession \in Sids \ Requests /\ None \notin Sids
BY SessionConstants DEF Sids

LEMMA InitIInv == Init => IInv
<1> SUFFICES ASSUME Init PROVE IInv
  OBVIOUS
<1> USE Names, SessionConstants, EmptyElements DEF Init
<1>1. TypeOK
  <2>1. listed \in Seq(Sids)
    <3>1. <<OldSession>> \in Seq(Sids)
      BY Names
    <3> QED
      BY <3>1, EmptyElements DEF Init
  <2> QED
    BY <2>1 DEF TypeOK, Stages
<1>2. QueueInv
  BY DEF QueueInv, QueuedWait, WaitersAreHeld, HandHeld, OneQueuePerConversation
<1>3. RunInv
  BY DEF RunInv, CreatorRuns, Creating, TakenIsMade, EntryIsMade, EntryIsServing,
     GapIsLate, NoStrayGoroutines
<1>4. SinkInv
  BY DEF SinkInv, SidIsKnown, SinkIsMade, SinkIsKept
<1>5. SeedInv
  BY DEF SeedInv, SeederMadeIt, SeededOnce
<1> QED
  BY <1>1, <1>2, <1>3, <1>4, <1>5 DEF IInv

(* A step of one request leaves the others where they are.                 *)
LEMMA Moves ==
  ASSUME TypeOK, NEW r \in Requests, NEW stage \in Stages, Goto(r, stage)
  PROVE  /\ pc' \in [Requests -> Stages] /\ pc'[r] = stage
         /\ \A q \in Requests \ {r} : pc'[q] = pc[q]
BY DEF TypeOK, Goto

LEMMA StageNames == {"arrive", "list", "resume", "new", "created", "install",
                     "got", "queued", "running", "stranded", "served", "refused", "failed", "shed"} = Stages
BY DEF Stages

LEMMA TypePreserved == IInv /\ [Next]_vars => TypeOK'
<1> SUFFICES ASSUME IInv, [Next]_vars PROVE TypeOK'
  OBVIOUS
<1> USE Names, Moves, StageNames DEF IInv, TypeOK, routerVars, answerVars, turnVars, agentVars
<1>1. ASSUME NEW r \in Requests, GetOrCreate(r) PROVE TypeOK'
  <2>1. CASE Hit(r)
    BY <2>1 DEF Hit
  <2>2. CASE Miss(r)
    BY <2>2 DEF Miss
  <2>3. CASE ListSessions(r)
    <3>1. CASE listed # <<>> /\ sid' = [sid EXCEPT ![r] = Head(listed)] /\ Goto(r, "resume")
      <4>1. Head(listed) \in Sids
        BY <3>1, HeadTailProperties
      <4> QED
        BY <2>3, <3>1, <4>1 DEF ListSessions
    <3>2. CASE Goto(r, "new") /\ sid' = sid
      BY <2>3, <3>2 DEF ListSessions
    <3> QED
      BY <2>3, <3>1, <3>2 DEF ListSessions
  <2>4. CASE ResumeSession(r)
    BY <2>4 DEF ResumeSession, SinkInv, SidIsKnown
  <2>5. CASE ResumeFails(r)
    BY <2>5 DEF ResumeFails
  <2>6. CASE AgentCreates(r)
    <3>1. <<r>> \in Seq(Sids)
      OBVIOUS
    <3>2. <<r>> \o listed \in Seq(Sids)
      BY <3>1, ConcatProperties
    <3> QED
      BY <2>6, <3>2 DEF AgentCreates
  <2>7. CASE NewSession(r)
    BY <2>7 DEF NewSession
  <2>8. CASE NewSessionFails(r)
    BY <2>8 DEF NewSessionFails
  <2>9. CASE InstallWins(r)
    BY <2>9 DEF InstallWins
  <2>10. CASE InstallLoses(r)
    BY <2>10 DEF InstallLoses
  <2> QED
    BY <1>1, <2>1, <2>2, <2>3, <2>4, <2>5, <2>6, <2>7, <2>8, <2>9, <2>10 DEF GetOrCreate
<1>2. ASSUME NEW r \in Requests, Push(r) \/ PushRefused(r) PROVE TypeOK'
  <2>1. CASE Push(r)
    <3>1. got[r] \in Requests /\ Append(queue[got[r]], r) \in Seq(Requests)
      BY <2>1, AppendElements DEF Push
    <3> QED
      BY <2>1, <3>1 DEF Push
  <2>2. CASE PushRefused(r)
    BY <2>2 DEF PushRefused
  <2> QED
    BY <1>2, <2>1, <2>2
<1>3. ASSUME NEW s \in Requests, Pop(s) PROVE TypeOK'
  <2>1. /\ Head(queue[s]) \in Requests /\ Tail(queue[s]) \in Seq(Requests)
        /\ Head(queue[s]) \in ToSet(queue[s])
    BY <1>3, TailElements DEF Pop
  <2>2. pc[Head(queue[s])] = "queued" /\ sid[s] \in Sids
    BY <1>3, <2>1 DEF QueueInv, QueuedWait, OneQueuePerConversation, RunInv, EntryIsServing, Pop
  <2>3. seeds' \in [Sids -> Nat]
    <3>1. seeds' = seeds \/ seeds' = [seeds EXCEPT ![sid[s]] = @ + 1]
      BY <1>3 DEF Pop
    <3>2. seeds \in [Sids -> Nat]
      OBVIOUS
    <3> QED
      BY <2>2, <3>1, <3>2
  <2> QED
    BY <1>3, <2>1, <2>2, <2>3 DEF Pop
<1>7. ASSUME NEW s \in Requests, Finish(s) \/ Strand(s) PROVE TypeOK'
  <2>1. turn[s] \in Requests /\ pc[turn[s]] = "running"
    BY <1>7 DEF Finish, Strand
  <2>2. CASE Finish(s)
    BY <2>1, <2>2 DEF Finish
  <2>3. CASE Strand(s)
    BY <2>1, <2>3 DEF Strand
  <2> QED
    BY <1>7, <2>2, <2>3
<1>4. CASE GcFindIdle
  BY <1>4 DEF GcFindIdle
<1>5. CASE GcEvict
  <2>1. \A r \in ToSet(queue[entry]) : pc[r] = "queued"
    BY <1>5 DEF QueueInv, QueuedWait, GcEvict
  <2> QED
    BY <1>5, <2>1, EmptyElements DEF GcEvict, StopQueue
<1>6. CASE UNCHANGED vars
  BY <1>6 DEF vars
<1> QED
  BY <1>1, <1>2, <1>3, <1>4, <1>5, <1>6, <1>7 DEF Next, Finished

(* What the steps do, as far as the parts of the invariant are concerned.  *)
(* First a step of getOrCreate: it is its request's own, and ends in a     *)
(* failure or with the entry.                                              *)
CreationFrame(r) ==
  /\ pc[r] = "arrive" \/ Creating(r)
  /\ pc'[r] \notin {"queued", "running", "stranded"}
  /\ got[r] = None /\ r # entry
  /\ UNCHANGED <<gc, queue, turn, late, seeds>>
  /\ entry' = entry \/ (entry = None /\ entry' = r /\ pc[r] = "install")
  /\ got'[r] = None \/ (got'[r] = entry' /\ entry' # None)
  /\ Creating(r)' => r \in running'
  /\ r \in running' => Creating(r)' \/ pc'[r] = "failed" \/ r = entry'
  /\ entry' = r => r \in running' /\ got'[r] = r /\ sid'[r] # None
  /\ \A q \in Requests \ {r} :
       /\ pc'[q] = pc[q] /\ got'[q] = got[q] /\ sid'[q] = sid[q]
       /\ freshSeed'[q] = freshSeed[q]
  /\ running' \ {r} = running \ {r} /\ resumed' \ {r} = resumed \ {r}

LEMMA CreationStep ==
  ASSUME IInv, NEW r \in Requests, GetOrCreate(r)
  PROVE  CreationFrame(r)
<1>1. /\ pc[r] = "arrive" \/ Creating(r)
      /\ UNCHANGED <<gc, queue, turn, late, seeds>>
      /\ pc'[r] \notin {"queued", "running", "stranded"}
      /\ entry' = entry \/ (entry = None /\ entry' = r /\ pc[r] = "install")
      /\ running' \ {r} = running \ {r} /\ resumed' \ {r} = resumed \ {r}
  BY DEF GetOrCreate, Hit, Miss, ListSessions, ResumeSession, ResumeFails, AgentCreates,
         NewSession, NewSessionFails, InstallWins, InstallLoses, Creating, Goto,
         routerVars, turnVars, agentVars, IInv, TypeOK
<1>2. got[r] = None
  BY <1>1 DEF IInv, TypeOK, Creating
<1>3. r # entry
  BY <1>2, Names DEF IInv, RunInv, EntryIsMade
<1>4. ASSUME NEW q \in Requests \ {r}
      PROVE  /\ pc'[q] = pc[q] /\ got'[q] = got[q] /\ sid'[q] = sid[q]
             /\ freshSeed'[q] = freshSeed[q]
  BY DEF IInv, TypeOK, GetOrCreate, Hit, Miss, ListSessions, ResumeSession, ResumeFails,
         AgentCreates, NewSession, NewSessionFails, InstallWins, InstallLoses, Goto, answerVars
<1>5. /\ got'[r] = None \/ (got'[r] = entry' /\ entry' # None)
      /\ Creating(r)' => r \in running'
      /\ r \in running' => Creating(r)' \/ pc'[r] = "failed" \/ r = entry'
      /\ entry' = r => r \in running' /\ got'[r] = r /\ sid'[r] # None
  <2> USE <1>2, <1>3, SessionConstants
      DEF IInv, TypeOK, RunInv, CreatorRuns, SinkInv, SidIsKnown, NoStrayGoroutines, Goto, Creating, Sids, routerVars, answerVars, turnVars
  <2>1. CASE Hit(r)
    BY <2>1 DEF Hit
  <2>2. CASE Miss(r)
    BY <2>2 DEF Miss
  <2>3. CASE ListSessions(r) \/ ResumeSession(r) \/ ResumeFails(r)
    BY <2>3 DEF ListSessions, ResumeSession, ResumeFails
  <2>4. CASE AgentCreates(r) \/ NewSession(r) \/ NewSessionFails(r)
    BY <2>4 DEF AgentCreates, NewSession, NewSessionFails
  <2>5. CASE InstallWins(r)
    BY <2>5 DEF InstallWins
  <2>6. CASE InstallLoses(r)
    BY <2>6 DEF InstallLoses
  <2> QED
    BY <2>1, <2>2, <2>3, <2>4, <2>5, <2>6 DEF GetOrCreate
<1> QED
  BY <1>1, <1>2, <1>3, <1>4, <1>5 DEF CreationFrame

(* A request that is handed a running sessionState has the entry.          *)
PushFrame(r) ==
  /\ pc[r] = "got" /\ pc'[r] = "queued" /\ \A q \in Requests \ {r} : pc'[q] = pc[q]
  /\ entry \in Requests /\ got[r] = entry /\ entry # None
  /\ entry \in running
  /\ ToSet(queue'[entry]) = ToSet(queue[entry]) \cup {r} /\ IsInjective(queue'[entry])
  /\ \A s \in Requests \ {entry} : queue'[s] = queue[s]
  /\ late \subseteq late' /\ (gc => r \in late')
  /\ UNCHANGED <<entry, gc, turn, running, sid, resumed, got, freshSeed, sinks, seeds>>

LEMMA PushStep ==
  ASSUME IInv, NEW r \in Requests, Push(r)
  PROVE  PushFrame(r)
<1> USE DEF IInv, TypeOK, Push
<1>1. got[r] = entry /\ entry # None
  BY DEF RunInv, TakenIsMade, NoStrayGoroutines, Creating
<1>2. r \notin ToSet(queue[entry]) /\ IsInjective(queue[entry])
  BY <1>1 DEF QueueInv, QueuedWait
<1>3. /\ ToSet(Append(queue[entry], r)) = ToSet(queue[entry]) \cup {r}
      /\ IsInjective(Append(queue[entry], r))
  BY <1>1, <1>2, AppendElements
<1> QED
  BY <1>1, <1>3 DEF PushFrame, Goto, routerVars, answerVars, turnVars, agentVars

(* The turn that is taken up was waiting, in the entry's queue.            *)
PopFrame(s, h) ==
  /\ s = entry /\ s \in running /\ h \in Requests
  /\ pc[h] = "queued" /\ got[h] = s
  /\ pc'[h] = "running" /\ \A q \in Requests \ {h} : pc'[q] = pc[q]
  /\ h \in ToSet(queue[s])
  /\ ToSet(queue'[s]) = ToSet(queue[s]) \ {h} /\ IsInjective(queue'[s])
  /\ \A q \in Requests \ {s} : queue'[q] = queue[q]
  /\ turn[s] = None /\ turn'[s] = h /\ \A q \in Requests \ {s} : turn'[q] = turn[q]
  /\ UNCHANGED <<entry, gc, late, running, sid, resumed, got, freshSeed, sinks>>

LEMMA PopStep ==
  ASSUME IInv, NEW s \in Requests, Pop(s)
  PROVE  PopFrame(s, Head(queue[s]))
<1> DEFINE h == Head(queue[s])
<1>1. queue[s] \in Seq(Requests) /\ queue[s] # <<>> /\ IsInjective(queue[s])
  BY DEF IInv, TypeOK, QueueInv, QueuedWait, Pop
<1>2. /\ h \in Requests /\ h \in ToSet(queue[s])
      /\ ToSet(Tail(queue[s])) = ToSet(queue[s]) \ {h} /\ IsInjective(Tail(queue[s]))
  BY <1>1, TailElements
<1>3. s = entry /\ s \in running /\ pc[h] = "queued" /\ got[h] = s
  BY <1>1, <1>2 DEF IInv, QueueInv, QueuedWait, OneQueuePerConversation
<1>4. /\ queue' = [queue EXCEPT ![s] = Tail(@)] /\ pc' = [pc EXCEPT ![h] = "running"]
      /\ turn[s] = None /\ turn' = [turn EXCEPT ![s] = h]
      /\ UNCHANGED <<entry, gc, late, running, sid, resumed, got, freshSeed, sinks>>
  BY DEF Pop, Goto, routerVars, answerVars
<1> HIDE DEF h
<1>5. /\ pc'[h] = "running" /\ \A q \in Requests \ {h} : pc'[q] = pc[q]
      /\ queue'[s] = Tail(queue[s]) /\ \A q \in Requests \ {s} : queue'[q] = queue[q]
      /\ turn'[s] = h /\ \A q \in Requests \ {s} : turn'[q] = turn[q]
  BY <1>2, <1>4 DEF IInv, TypeOK
<1> QED
  BY <1>2, <1>3, <1>4, <1>5 DEF PopFrame, h

(* A turn that ends, or never will, was in its session's hand.             *)
EndFrame(s, h) ==
  /\ h \in Requests /\ turn[s] = h /\ pc[h] = "running" /\ got[h] = s
  /\ \A q \in Requests \ {h} : pc'[q] = pc[q]
  /\ \/ pc'[h] = "served" /\ turn'[s] = None /\ ~gc
     \/ pc'[h] = "stranded" /\ turn'[s] = h /\ s \notin running
  /\ \A q \in Requests \ {s} : turn'[q] = turn[q]
  /\ UNCHANGED <<entry, gc, late, running, sid, resumed, got, freshSeed, queue, sinks, seeds>>

LEMMA EndStep ==
  ASSUME IInv, NEW s \in Requests, Finish(s) \/ Strand(s)
  PROVE  EndFrame(s, turn[s])
<1>1. turn[s] \in Requests /\ pc[turn[s]] = "running" /\ got[turn[s]] = s
  BY DEF IInv, TypeOK, QueueInv, HandHeld, Finish, Strand
<1> QED
  BY <1>1 DEF IInv, TypeOK, Finish, Strand, EndFrame, Goto, RouterLock,
     routerVars, answerVars, turnVars, agentVars

(* Eviction sheds who waits, and leaves no queue.                          *)
EvictFrame ==
  /\ entry' = None /\ running' = running \ {entry} /\ ~Creating(entry)
  /\ \A q \in Requests : pc'[q] = IF pc[q] = "queued" THEN "shed" ELSE pc[q]
  /\ \A s \in Requests : queue'[s] = <<>>
  /\ gc' = FALSE /\ (turn[entry] # None => turn[entry] \in late)
  /\ UNCHANGED <<turn, late, sid, resumed, got, freshSeed, sinks, seeds>>

LEMMA EvictStep == ASSUME IInv, GcEvict PROVE EvictFrame
<1>1. /\ entry \in Requests
      /\ \A r \in Requests : pc[r] = "queued" <=> r \in ToSet(queue[entry])
  <2>1. ASSUME NEW r \in Requests, pc[r] = "queued" PROVE got[r] = entry /\ got[r] \in Requests
    <3>1. r \in ToSet(queue[got[r]]) /\ got[r] \in Requests
      BY <2>1 DEF IInv, TypeOK, QueueInv, WaitersAreHeld
    <3> QED
      BY <3>1, EmptyElements DEF IInv, QueueInv, OneQueuePerConversation
  <2> QED
    BY <2>1 DEF IInv, TypeOK, QueueInv, QueuedWait, WaitersAreHeld, GcEvict
<1>2. \A q \in Requests : pc'[q] = IF pc[q] = "queued" THEN "shed" ELSE pc[q]
  BY <1>1 DEF GcEvict, StopQueue
<1>3. \A s \in Requests : queue'[s] = <<>>
  BY <1>1 DEF IInv, TypeOK, QueueInv, OneQueuePerConversation, GcEvict, StopQueue
<1>4. ~Creating(entry)
  BY <1>1 DEF IInv, TypeOK, RunInv, EntryIsMade, Creating, GcEvict
<1> QED
  BY <1>2, <1>3, <1>4 DEF EvictFrame, GcEvict, StopQueue, answerVars, agentVars, IInv, RunInv, GapIsLate

(* A refusal moves its request, and idle() changes nothing here.           *)
RefuseFrame(r) ==
  /\ pc[r] = "got" /\ pc'[r] = "refused" /\ \A q \in Requests \ {r} : pc'[q] = pc[q]
  /\ UNCHANGED <<entry, gc, turn, late, running, sid, resumed, got, freshSeed, queue, sinks, seeds>>

LEMMA RefuseStep == ASSUME IInv, NEW r \in Requests, PushRefused(r) PROVE RefuseFrame(r)
BY DEF IInv, TypeOK, PushRefused, RefuseFrame, Goto, routerVars, answerVars, turnVars, agentVars

StayFrame ==
  /\ gc' = gc \/ (queue[entry] = <<>> /\ turn[entry] = None)
  /\ UNCHANGED <<entry, pc, turn, late, running, sid, resumed, got, freshSeed, queue, sinks, seeds>>

LEMMA StayStep == ASSUME GcFindIdle \/ UNCHANGED vars PROVE StayFrame
BY DEF GcFindIdle, StayFrame, vars, routerVars, answerVars, turnVars, agentVars

(* The parts of the invariant, each preserved by every action.             *)

(* A request waits once, in the entry's queue.                             *)
LEMMA QueuePreserved == IInv /\ [Next]_vars => QueueInv'
<1> SUFFICES ASSUME IInv, [Next]_vars PROVE QueueInv'
  OBVIOUS
<1>0. /\ QueueInv /\ \A s \in Requests : queue[s] \in Seq(Requests) /\ ToSet(queue[s]) \subseteq Requests
      /\ None \notin Requests
      /\ \A r \in Requests : pc[r] \in {"queued", "running", "stranded"} => got[r] \in Requests
      /\ \A s \in Requests : turn[s] # None => turn[s] \in Requests
  BY Names DEF IInv, TypeOK, ToSet
<1> USE <1>0 DEF QueueInv, QueuedWait, WaitersAreHeld, HandHeld, OneQueuePerConversation
<1>1. ASSUME NEW r \in Requests, GetOrCreate(r) PROVE QueueInv'
  <2>1. CreationFrame(r)
    BY <1>1, CreationStep
  <2>2. QueuedWait'
    BY <2>1 DEF CreationFrame, Creating
  <2>3. OneQueuePerConversation'
    BY <2>1 DEF CreationFrame
  <2>4. WaitersAreHeld'
    BY <2>1 DEF CreationFrame, Creating
  <2>5. HandHeld'
    BY <2>1 DEF CreationFrame, Creating
  <2> QED
    BY <2>2, <2>3, <2>4, <2>5
<1>2. ASSUME NEW r \in Requests, Push(r) PROVE QueueInv'
  <2>1. PushFrame(r)
    BY <1>2, PushStep
  <2>2. QueuedWait'
    <3>1. ASSUME NEW s \in Requests
          PROVE  /\ IsInjective(queue'[s])
                 /\ \A q \in ToSet(queue'[s]) : pc'[q] = "queued" /\ got'[q] = s
      <4>1. CASE s = entry
        BY <2>1, <4>1 DEF PushFrame
      <4>2. CASE s # entry
        BY <2>1, <4>2 DEF PushFrame
      <4> QED
        BY <4>1, <4>2
    <3> QED
      BY <3>1
  <2>3. OneQueuePerConversation'
    BY <2>1 DEF PushFrame
  <2>4. WaitersAreHeld'
    BY <2>1 DEF PushFrame
  <2>5. HandHeld'
    BY <2>1 DEF PushFrame
  <2> QED
    BY <2>2, <2>3, <2>4, <2>5
<1>3. ASSUME NEW r \in Requests, PushRefused(r) PROVE QueueInv'
  <2>1. RefuseFrame(r)
    BY <1>3, RefuseStep
  <2> QED
    BY <2>1 DEF RefuseFrame
<1>4. ASSUME NEW s \in Requests, Pop(s) PROVE QueueInv'
  <2>1. PopFrame(s, Head(queue[s]))
    BY <1>4, PopStep
  <2>2. QueuedWait'
    BY <2>1 DEF PopFrame
  <2>3. OneQueuePerConversation'
    BY <2>1 DEF PopFrame
  <2>4. WaitersAreHeld'
    BY <2>1 DEF PopFrame
  <2>5. HandHeld'
    BY <2>1 DEF PopFrame
  <2> QED
    BY <2>2, <2>3, <2>4, <2>5
<1>5. CASE GcEvict
  <2>1. EvictFrame
    BY <1>5, EvictStep
  <2>2. QueuedWait'
    BY <2>1, EmptyElements DEF EvictFrame
  <2>3. OneQueuePerConversation'
    BY <2>1 DEF EvictFrame
  <2>4. WaitersAreHeld'
    BY <2>1 DEF EvictFrame
  <2>5. HandHeld'
    BY <2>1 DEF EvictFrame
  <2> QED
    BY <2>2, <2>3, <2>4, <2>5
<1>7. ASSUME NEW s \in Requests, Finish(s) \/ Strand(s) PROVE QueueInv'
  <2>1. EndFrame(s, turn[s])
    BY <1>7, EndStep
  <2>2. QueuedWait'
    BY <2>1 DEF EndFrame
  <2>3. OneQueuePerConversation'
    BY <2>1 DEF EndFrame
  <2>4. WaitersAreHeld'
    BY <2>1 DEF EndFrame
  <2>5. HandHeld'
    BY <2>1 DEF EndFrame
  <2> QED
    BY <2>2, <2>3, <2>4, <2>5
<1>6. CASE GcFindIdle \/ UNCHANGED vars
  <2>1. StayFrame
    BY <1>6, StayStep
  <2> QED
    BY <2>1 DEF StayFrame
<1> QED
  BY <1>1, <1>2, <1>3, <1>4, <1>5, <1>6, <1>7 DEF Next, Finished

(* What runs is the entry, or is still being made.                         *)
LEMMA RunPreserved == IInv /\ [Next]_vars => RunInv'
<1> SUFFICES ASSUME IInv, [Next]_vars PROVE RunInv'
  OBVIOUS
<1>0. /\ RunInv /\ running \subseteq Requests /\ None \notin Requests
      /\ entry \in Requests \cup {None} /\ got \in [Requests -> Requests \cup {None}]
  BY Names DEF IInv, TypeOK
<1> USE <1>0 DEF RunInv, CreatorRuns, TakenIsMade, EntryIsMade, EntryIsServing, GapIsLate, NoStrayGoroutines
<1>1. ASSUME NEW r \in Requests, GetOrCreate(r) PROVE RunInv'
  <2>1. CreationFrame(r)
    BY <1>1, CreationStep
  <2>2. CreatorRuns'
    BY <2>1 DEF CreationFrame, Creating
  <2>3. TakenIsMade'
    BY <2>1 DEF CreationFrame
  <2>4. EntryIsMade'
    BY <2>1 DEF CreationFrame
  <2>5. EntryIsServing'
    BY <2>1 DEF CreationFrame
  <2>6. NoStrayGoroutines'
    <3>1. ASSUME NEW s \in running', s # r PROVE s \in running /\ (Creating(s)' <=> Creating(s))
      BY <2>1, <3>1, <1>1 DEF CreationFrame, Creating, IInv, TypeOK
    <3>2. turn[r] = None
      BY <2>1 DEF CreationFrame, IInv, TypeOK, QueueInv, HandHeld
    <3> QED
      BY <2>1, <3>1, <3>2 DEF CreationFrame
  <2>7. GapIsLate'
    BY <2>1 DEF CreationFrame, IInv, TypeOK
  <2> QED
    BY <2>2, <2>3, <2>4, <2>5, <2>6, <2>7
<1>2. ASSUME NEW r \in Requests, Push(r) PROVE RunInv'
  <2>1. PushFrame(r)
    BY <1>2, PushStep
  <2>2. CreatorRuns'
    BY <2>1 DEF PushFrame, Creating
  <2>3. TakenIsMade'
    BY <2>1 DEF PushFrame
  <2>4. EntryIsMade'
    BY <2>1 DEF PushFrame
  <2>5. EntryIsServing'
    BY <2>1 DEF PushFrame
  <2>6. NoStrayGoroutines'
    BY <2>1 DEF PushFrame, Creating
  <2>7. GapIsLate'
    BY <2>1 DEF PushFrame
  <2> QED
    BY <2>2, <2>3, <2>4, <2>5, <2>6, <2>7
<1>3. ASSUME NEW r \in Requests, PushRefused(r) PROVE RunInv'
  <2>1. RefuseFrame(r)
    BY <1>3, RefuseStep
  <2> QED
    BY <2>1 DEF RefuseFrame, Creating
<1>4. ASSUME NEW s \in Requests, Pop(s) PROVE RunInv'
  <2>1. PopFrame(s, Head(queue[s]))
    BY <1>4, PopStep
  <2>2. CreatorRuns'
    BY <2>1 DEF PopFrame, Creating
  <2>3. TakenIsMade'
    BY <2>1 DEF PopFrame
  <2>4. EntryIsMade'
    BY <2>1 DEF PopFrame
  <2>5. EntryIsServing'
    BY <2>1 DEF PopFrame
  <2>6. NoStrayGoroutines'
    BY <2>1 DEF PopFrame, Creating
  <2>7. GapIsLate'
    BY <2>1, Names DEF PopFrame
  <2> QED
    BY <2>2, <2>3, <2>4, <2>5, <2>6, <2>7
<1>5. CASE GcEvict
  <2>1. EvictFrame
    BY <1>5, EvictStep
  <2>2. CreatorRuns'
    BY <2>1 DEF EvictFrame, Creating
  <2>3. TakenIsMade'
    BY <2>1 DEF EvictFrame
  <2>4. EntryIsMade'
    BY <2>1 DEF EvictFrame
  <2>5. EntryIsServing'
    BY <2>1 DEF EvictFrame
  <2>6. NoStrayGoroutines'
    BY <2>1 DEF EvictFrame, Creating
  <2>7. GapIsLate'
    BY <2>1 DEF EvictFrame
  <2> QED
    BY <2>2, <2>3, <2>4, <2>5, <2>6, <2>7
<1>7. ASSUME NEW s \in Requests, Finish(s) \/ Strand(s) PROVE RunInv'
  <2>1. EndFrame(s, turn[s])
    BY <1>7, EndStep
  <2>2. CreatorRuns'
    BY <2>1 DEF EndFrame, Creating
  <2>3. TakenIsMade'
    BY <2>1 DEF EndFrame
  <2>4. EntryIsMade'
    BY <2>1 DEF EndFrame
  <2>5. EntryIsServing'
    BY <2>1 DEF EndFrame
  <2>6. NoStrayGoroutines'
    BY <2>1 DEF EndFrame, Creating
  <2>7. GapIsLate'
    BY <2>1, Names DEF EndFrame, IInv, TypeOK
  <2> QED
    BY <2>2, <2>3, <2>4, <2>5, <2>6, <2>7
<1>6. CASE GcFindIdle \/ UNCHANGED vars
  <2>1. StayFrame
    BY <1>6, StayStep
  <2> QED
    BY <2>1, EmptyElements DEF StayFrame, Creating
<1> QED
  BY <1>1, <1>2, <1>3, <1>4, <1>5, <1>6, <1>7 DEF Next, Finished

(* Agent sessions report to a request that has them.                       *)
LEMMA SinkPreserved == IInv /\ [Next]_vars => SinkInv'
<1> SUFFICES ASSUME IInv, [Next]_vars PROVE SinkInv'
  OBVIOUS
<1>0. /\ TypeOK /\ SinkInv /\ EntryIsServing /\ None \notin Requests
      /\ entry \in Requests \cup {None} /\ got \in [Requests -> Requests \cup {None}]
      /\ sid \in [Requests -> Sids \cup {None}] /\ sinks \in [Sids -> Requests \cup {None}]
  BY Names DEF IInv, TypeOK, RunInv
<1> USE <1>0 DEF SinkInv, SidIsKnown, SinkIsMade, SinkIsKept
<1>1. ASSUME NEW r \in Requests, GetOrCreate(r) PROVE SinkInv'
  <2>1. CreationFrame(r)
    BY <1>1, CreationStep
  <2>2. \/ sinks' = sinks /\ sid'[r] = sid[r] /\ pc'[r] \notin {"resume", "install"} /\ pc[r] # "install"
        \/ sinks' = sinks /\ pc[r] = "list" /\ (pc'[r] = "new" \/ (pc'[r] = "resume" /\ sid'[r] \in Sids))
        \/ /\ sinks' = [sinks EXCEPT ![sid'[r]] = r] /\ sid'[r] \in Sids
           /\ pc[r] # "install" /\ pc'[r] = "install"
        \/ sinks' = sinks /\ sid'[r] = sid[r] /\ pc[r] = "install" /\ pc'[r] = "got" /\ got'[r] # None
    <3> USE <1>0, Names DEF TypeOK, Goto, answerVars
    <3>1. CASE Hit(r) \/ Miss(r) \/ ResumeFails(r) \/ AgentCreates(r) \/ NewSessionFails(r)
      BY <3>1 DEF Hit, Miss, ResumeFails, AgentCreates, NewSessionFails
    <3>2. CASE ListSessions(r)
      BY <3>2, HeadTailProperties DEF ListSessions
    <3>3. CASE ResumeSession(r) \/ NewSession(r)
      BY <3>3 DEF ResumeSession, NewSession
    <3>4. CASE InstallWins(r) \/ InstallLoses(r)
      BY <3>4, <2>1 DEF InstallWins, InstallLoses, CreationFrame
    <3> QED
      BY <1>1, <3>1, <3>2, <3>3, <3>4 DEF GetOrCreate
  <2>3. \A s \in Sids : sinks[s] = r => pc[r] = "install"
    BY <1>0, <2>1, Names DEF CreationFrame, RunInv
  <2>4. SidIsKnown'
    BY <2>1, <2>2, Names DEF CreationFrame
  <2>5. SinkIsMade'
    BY <2>1, <2>2, <2>3, Names DEF CreationFrame
  <2>6. SinkIsKept'
    <3>1. ASSUME NEW q \in Requests \ {r}, pc'[q] = "install" \/ q = entry'
          PROVE  sinks'[sid'[q]] # None
      <4>1. sid'[q] = sid[q] /\ sid[q] \in Sids /\ sinks[sid[q]] # None
        BY <1>0, <2>1, <3>1 DEF CreationFrame, EntryIsServing
      <4> QED
        BY <1>0, <2>2, <4>1
    <3>2. ASSUME pc'[r] = "install" \/ r = entry' PROVE sinks'[sid'[r]] # None
      BY <1>0, <2>1, <2>2, <3>2 DEF CreationFrame
    <3> QED
      BY <3>1, <3>2
  <2> QED
    BY <2>4, <2>5, <2>6
<1>2. ASSUME NEW r \in Requests, Push(r) PROVE SinkInv'
  <2>1. PushFrame(r)
    BY <1>2, PushStep
  <2>2. SidIsKnown'
    BY <2>1 DEF PushFrame
  <2>3. SinkIsMade'
    BY <2>1 DEF PushFrame
  <2>4. SinkIsKept'
    BY <2>1 DEF PushFrame
  <2> QED
    BY <2>2, <2>3, <2>4
<1>3. ASSUME NEW r \in Requests, PushRefused(r) PROVE SinkInv'
  <2>1. RefuseFrame(r)
    BY <1>3, RefuseStep
  <2> QED
    BY <2>1 DEF RefuseFrame
<1>4. ASSUME NEW s \in Requests, Pop(s) PROVE SinkInv'
  <2>1. PopFrame(s, Head(queue[s]))
    BY <1>4, PopStep
  <2>2. SidIsKnown'
    BY <2>1 DEF PopFrame
  <2>3. SinkIsMade'
    BY <2>1 DEF PopFrame
  <2>4. SinkIsKept'
    BY <2>1 DEF PopFrame
  <2> QED
    BY <2>2, <2>3, <2>4
<1>5. CASE GcEvict
  <2>1. EvictFrame
    BY <1>5, EvictStep
  <2>2. SidIsKnown'
    BY <2>1 DEF EvictFrame
  <2>3. SinkIsMade'
    BY <2>1 DEF EvictFrame
  <2>4. SinkIsKept'
    BY <2>1 DEF EvictFrame
  <2> QED
    BY <2>2, <2>3, <2>4
<1>7. ASSUME NEW s \in Requests, Finish(s) \/ Strand(s) PROVE SinkInv'
  <2>1. EndFrame(s, turn[s])
    BY <1>7, EndStep
  <2>2. SidIsKnown'
    BY <2>1 DEF EndFrame
  <2>3. SinkIsMade'
    BY <2>1 DEF EndFrame
  <2>4. SinkIsKept'
    BY <2>1 DEF EndFrame
  <2> QED
    BY <2>2, <2>3, <2>4
<1>6. CASE GcFindIdle \/ UNCHANGED vars
  <2>1. StayFrame
    BY <1>6, StayStep
  <2> QED
    BY <2>1 DEF StayFrame
<1> QED
  BY <1>1, <1>2, <1>3, <1>4, <1>5, <1>6, <1>7 DEF Next, Finished

(* Transcripts are sent by whoever made the agent session.                 *)
LEMMA SeedPreserved == IInv /\ [Next]_vars => SeedInv'
<1> SUFFICES ASSUME IInv, [Next]_vars PROVE SeedInv'
  OBVIOUS
<1>0. /\ TypeOK /\ SeedInv
  BY DEF IInv
<1> USE <1>0 DEF SeedInv, SeederMadeIt, SeededOnce
<1>1. ASSUME NEW r \in Requests, GetOrCreate(r) PROVE SeedInv'
  <2>1. CreationFrame(r)
    BY <1>1, CreationStep
  <2>2. SeederMadeIt'
    <3>1. \/ freshSeed'[r] = freshSeed[r] /\ pc'[r] # "install" /\ pc[r] # "install"
          \/ freshSeed'[r] = freshSeed[r] /\ pc'[r] = "install" /\ (r \in resumed' \/ sid'[r] = r)
          \/ pc[r] = "install" /\ pc'[r] = "got" /\ sid'[r] = sid[r]
             /\ (freshSeed'[r] => r \notin resumed /\ got'[r] = r)
      <4> USE <1>0, Names DEF TypeOK, Goto, answerVars
      <4>1. CASE Hit(r) \/ Miss(r) \/ ResumeFails(r) \/ AgentCreates(r) \/ NewSessionFails(r)
        BY <4>1 DEF Hit, Miss, ResumeFails, AgentCreates, NewSessionFails
      <4>2. CASE ListSessions(r)
        BY <4>2 DEF ListSessions
      <4>3. CASE ResumeSession(r) \/ NewSession(r)
        BY <4>3 DEF ResumeSession, NewSession
      <4>4. CASE InstallWins(r) \/ InstallLoses(r)
        BY <4>4 DEF InstallWins, InstallLoses
      <4> QED
        BY <1>1, <4>1, <4>2, <4>3, <4>4 DEF GetOrCreate
    <3> QED
      BY <2>1, <3>1, Names, SessionConstants DEF CreationFrame
  <2>3. SeededOnce'
    BY <2>1 DEF CreationFrame, Creating
  <2> QED
    BY <2>2, <2>3
<1>2. ASSUME NEW r \in Requests, Push(r) PROVE SeedInv'
  <2>1. PushFrame(r)
    BY <1>2, PushStep
  <2>2. SeederMadeIt'
    BY <2>1 DEF PushFrame
  <2>3. SeededOnce'
    BY <2>1 DEF PushFrame
  <2> QED
    BY <2>2, <2>3
<1>3. ASSUME NEW r \in Requests, PushRefused(r) PROVE SeedInv'
  <2>1. RefuseFrame(r)
    BY <1>3, RefuseStep
  <2> QED
    BY <2>1 DEF RefuseFrame
<1>4. ASSUME NEW s \in Requests, Pop(s) PROVE SeedInv'
  <2>1. PopFrame(s, Head(queue[s]))
    BY <1>4, PopStep
  <2>2. SeederMadeIt'
    BY <2>1 DEF PopFrame
  <2>3. SeededOnce'
    <3> DEFINE h == Head(queue[s])
    <3>1. seeds' = seeds \/ (freshSeed[h] /\ seeds' = [seeds EXCEPT ![sid[s]] = @ + 1])
      BY <1>4 DEF Pop
    <3>2. h \in Requests /\ pc[h] = "queued" /\ pc'[h] = "running" /\ got[h] = s
      BY <2>1 DEF PopFrame
    <3>3. freshSeed[h] => sid[s] = h
      BY <1>0, <3>2 DEF SeederMadeIt
    <3>4. \A q \in Requests \ {h} : pc'[q] = pc[q]
      BY <2>1 DEF PopFrame
    <3>5. seeds \in [Sids -> Nat]
      BY <1>0 DEF TypeOK
    <3> HIDE DEF h
    <3> QED
      BY <1>0, <3>1, <3>2, <3>3, <3>4, <3>5, Names
  <2> QED
    BY <2>2, <2>3
<1>5. CASE GcEvict
  <2>1. EvictFrame
    BY <1>5, EvictStep
  <2>2. SeederMadeIt'
    BY <2>1 DEF EvictFrame
  <2>3. SeededOnce'
    BY <2>1 DEF EvictFrame
  <2> QED
    BY <2>2, <2>3
<1>7. ASSUME NEW s \in Requests, Finish(s) \/ Strand(s) PROVE SeedInv'
  <2>1. EndFrame(s, turn[s])
    BY <1>7, EndStep
  <2>2. SeederMadeIt'
    BY <2>1 DEF EndFrame
  <2>3. SeededOnce'
    BY <2>1 DEF EndFrame
  <2> QED
    BY <2>2, <2>3
<1>6. CASE GcFindIdle \/ UNCHANGED vars
  <2>1. StayFrame
    BY <1>6, StayStep
  <2> QED
    BY <2>1 DEF StayFrame
<1> QED
  BY <1>1, <1>2, <1>3, <1>4, <1>5, <1>6, <1>7 DEF Next, Finished

LEMMA Invariance == Spec => []IInv
<1>1. IInv /\ [Next]_vars => IInv'
  BY TypePreserved, QueuePreserved, RunPreserved, SinkPreserved, SeedPreserved DEF IInv
<1> QED
  BY <1>1, InitIInv, PTL DEF Spec

-----------------------------------------------------------------------------
(* Every step of the map is one Conversation allows.                       *)

FateOf(stage) ==
  CASE stage \in {"arrive", "list", "resume", "new", "created", "install"} -> "new"
    [] stage = "got" -> "given"
    [] stage = "queued" -> "waiting"
    [] stage = "shed" -> "dropped"
    [] OTHER -> stage

Fates == [r \in Requests |-> FateOf(pc[r])]
Line  == IF entry = None THEN <<>> ELSE queue[entry]

LEMMA Mapped ==
  /\ Map!vars = <<entry, gc, got, Fates, Line>>
  /\ Map!vars' = <<entry', gc', got', Fates', Line'>>
  /\ Map!Init <=> /\ entry = None /\ gc = FALSE /\ got = [r \in Requests |-> None]
                  /\ Fates = [r \in Requests |-> "new"] /\ Line = <<>>
  /\ \A r, s : Map!Take(r, s) <=>
       /\ Fates[r] = "new" /\ Fates' = [Fates EXCEPT ![r] = "given"]
       /\ got' = [got EXCEPT ![r] = s] /\ ~gc /\ UNCHANGED <<gc, Line>>
  /\ \A r : Map!Fail(r) <=>
       /\ Fates[r] = "new" /\ Fates' = [Fates EXCEPT ![r] = "failed"]
       /\ UNCHANGED <<entry, gc, got, Line>>
  /\ \A r : Map!Wait(r) <=>
       /\ Fates[r] = "given" /\ got[r] = entry
       /\ Fates' = [Fates EXCEPT ![r] = "waiting"] /\ Line' = Append(Line, r)
       /\ UNCHANGED <<entry, gc, got>>
  /\ \A r : Map!Refuse(r) <=>
       /\ Fates[r] = "given" /\ got[r] # entry
       /\ Fates' = [Fates EXCEPT ![r] = "refused"]
       /\ UNCHANGED <<entry, gc, got, Line>>
  /\ Map!Busy <=> \E r \in Requests : got[r] = entry /\ Fates[r] = "running"
  /\ Map!Serve <=>
       /\ Line # <<>> /\ ~Map!Busy /\ Fates' = [Fates EXCEPT ![Head(Line)] = "running"]
       /\ Line' = Tail(Line) /\ UNCHANGED <<entry, gc, got>>
  /\ \A r : Map!End(r) <=>
       /\ Fates[r] = "running" /\ ~gc
       /\ Fates' = [Fates EXCEPT ![r] = "served"]
       /\ UNCHANGED <<entry, gc, got, Line>>
  /\ \A r : Map!Abandon(r) <=>
       /\ Fates[r] = "running" /\ got[r] # entry
       /\ Fates' = [Fates EXCEPT ![r] = "stranded"]
       /\ UNCHANGED <<entry, gc, got, Line>>
  /\ Map!StartClosing <=>
       /\ entry # None /\ ~gc /\ Line = <<>> /\ ~Map!Busy
       /\ gc' = TRUE /\ UNCHANGED <<entry, got, Fates, Line>>
  /\ Map!Close <=>
       /\ gc /\ gc' = FALSE /\ entry' = None
       /\ Fates' = [r \in Requests |-> IF Fates[r] = "waiting" THEN "dropped" ELSE Fates[r]]
       /\ Line' = <<>> /\ UNCHANGED got
BY DEF Map!vars, Map!Init, Map!Take, Map!Become, Map!Fail, Map!Wait, Map!Refuse, Map!Busy,
       Map!Serve, Map!End, Map!Abandon, Map!StartClosing, Map!Close, FateOf, Fates, Line

(* A step of one request changes its fate only.                            *)
LEMMA FateMoves ==
  ASSUME NEW r \in Requests, \A q \in Requests \ {r} : pc'[q] = pc[q]
  PROVE  /\ Fates' = [Fates EXCEPT ![r] = FateOf(pc'[r])]
         /\ FateOf(pc'[r]) = FateOf(pc[r]) => Fates' = Fates
         /\ Fates[r] = FateOf(pc[r])
BY DEF Fates

LEMMA InitSimulates == Init => Map!Init
BY Mapped DEF Init, Fates, FateOf, Line

(* getOrCreate: what the request was given, if anything, and how.          *)
LEMMA CreationSimulates ==
  ASSUME IInv, NEW r \in Requests, GetOrCreate(r)
  PROVE  Map!Join(r) \/ Map!Open(r) \/ Map!Fail(r) \/ UNCHANGED Map!vars
<1>1. CreationFrame(r)
  BY CreationStep
<1>2. /\ \A q \in Requests \ {r} : pc'[q] = pc[q]
      /\ queue' = queue
      /\ FateOf(pc[r]) = "new"
  BY <1>1 DEF CreationFrame, Creating, FateOf
<1>3. Fates' = [Fates EXCEPT ![r] = FateOf(pc'[r])] /\ Fates[r] = "new"
  BY <1>2, FateMoves
<1>4. CASE Hit(r) \/ InstallLoses(r)
  <2>1. /\ entry # None /\ entry' = entry /\ ~gc /\ gc' = gc
        /\ got' = [got EXCEPT ![r] = entry] /\ pc'[r] = "got"
    BY <1>4 DEF Hit, InstallLoses, Goto, RouterLock, routerVars, IInv, TypeOK
  <2>2. FateOf(pc'[r]) = "given" /\ Line' = Line
    BY <1>2, <2>1 DEF FateOf, Line
  <2> QED
    BY <1>3, <2>1, <2>2, Mapped DEF Map!Join
<1>5. CASE InstallWins(r)
  <2>1. /\ entry = None /\ entry' = r /\ ~gc /\ gc' = gc
        /\ got' = [got EXCEPT ![r] = r] /\ pc'[r] = "got"
    BY <1>5 DEF InstallWins, Goto, RouterLock, IInv, TypeOK
  <2>2. queue[r] = <<>> /\ r # None
    BY <2>1, Names DEF IInv, QueueInv, OneQueuePerConversation
  <2>3. FateOf(pc'[r]) = "given" /\ Line' = Line
    BY <1>2, <2>1, <2>2 DEF FateOf, Line
  <2> QED
    BY <1>3, <2>1, <2>3, Mapped DEF Map!Open
<1>6. CASE NewSessionFails(r)
  <2>1. entry' = entry /\ gc' = gc /\ got' = got /\ pc'[r] = "failed"
    BY <1>6 DEF NewSessionFails, Goto, routerVars, answerVars, turnVars, IInv, TypeOK
  <2>2. FateOf(pc'[r]) = "failed" /\ Line' = Line
    BY <1>2, <2>1 DEF FateOf, Line
  <2> QED
    BY <1>3, <2>1, <2>2, Mapped
<1>7. CASE \/ Miss(r) \/ ListSessions(r) \/ ResumeSession(r) \/ ResumeFails(r)
           \/ AgentCreates(r) \/ NewSession(r)
  <2>1. /\ entry' = entry /\ gc' = gc /\ got' = got
        /\ pc'[r] \in {"list", "resume", "new", "created", "install"}
    BY <1>7 DEF Miss, ListSessions, ResumeSession, ResumeFails, AgentCreates, NewSession, Goto,
       routerVars, answerVars, turnVars, IInv, TypeOK
  <2>2. FateOf(pc'[r]) = "new" /\ Line' = Line
    BY <1>2, <2>1 DEF FateOf, Line
  <2>3. Fates' = Fates
    BY <1>2, <2>2, FateMoves
  <2> QED
    BY <2>1, <2>2, <2>3, Mapped
<1> QED
  BY <1>4, <1>5, <1>6, <1>7 DEF GetOrCreate

(* The session is busy with the turn in its runner's hand.                 *)
LEMMA BusyIsHand ==
  ASSUME IInv, entry # None, turn[entry] = None
  PROVE  ~Map!Busy
<1>1. \A r \in Requests : Fates[r] = "running" <=> pc[r] = "running"
  BY DEF Fates, FateOf, IInv, TypeOK, Stages
<1>2. ASSUME NEW r \in Requests, got[r] = entry, pc[r] = "running" PROVE FALSE
  <2>1. turn[entry] = r
    BY <1>2 DEF IInv, QueueInv, WaitersAreHeld
  <2> QED
    BY <2>1, Names
<1> QED
  BY <1>1, <1>2, Mapped

(* The line is the queue of the one session that runs.                     *)
LEMMA TurnSimulates ==
  ASSUME IInv, NEW r \in Requests, Push(r) \/ PushRefused(r) \/ Pop(r)
  PROVE  Map!Wait(r) \/ Map!Refuse(r) \/ Map!Serve
<1>1. CASE Push(r)
  <2>1. PushFrame(r) /\ queue' = [queue EXCEPT ![got[r]] = Append(@, r)]
    BY <1>1, PushStep DEF Push
  <2>2. Line' = Append(Line, r)
    BY <2>1 DEF PushFrame, Line, IInv, TypeOK
  <2>3. Fates' = [Fates EXCEPT ![r] = "waiting"] /\ Fates[r] = "given"
    BY <2>1, FateMoves DEF PushFrame, FateOf
  <2> QED
    BY <2>1, <2>2, <2>3, Mapped DEF PushFrame
<1>2. CASE PushRefused(r)
  <2>1. RefuseFrame(r)
    BY <1>2, RefuseStep
  <2>2. got[r] # entry
    BY <1>2, Names DEF PushRefused, IInv, TypeOK, RunInv, EntryIsServing
  <2>3. Fates' = [Fates EXCEPT ![r] = "refused"] /\ Fates[r] = "given"
    BY <2>1, FateMoves DEF RefuseFrame, FateOf
  <2>4. UNCHANGED <<entry, gc, got, Line>>
    BY <2>1 DEF RefuseFrame, Line
  <2> QED
    BY <2>2, <2>3, <2>4, Mapped
<1>3. CASE Pop(r)
  <2>1. PopFrame(r, Head(queue[r])) /\ queue[r] # <<>>
        /\ queue' = [queue EXCEPT ![r] = Tail(@)] /\ entry \in Requests /\ entry # None
    BY <1>3, PopStep, Names DEF Pop, PopFrame
  <2>2. Line = queue[r] /\ Line' = Tail(queue[r]) /\ turn[entry] = None
    BY <2>1 DEF PopFrame, Line, IInv, TypeOK
  <2>3. Fates' = [Fates EXCEPT ![Head(queue[r])] = "running"]
    BY <2>1, FateMoves DEF PopFrame, FateOf
  <2> QED
    BY <2>1, <2>2, <2>3, BusyIsHand, Mapped DEF PopFrame
<1> QED
  BY <1>1, <1>2, <1>3

(* A turn that ends is the session's; one that is stranded is a closed     *)
(* session's.                                                              *)
LEMMA EndSimulates ==
  ASSUME IInv, NEW s \in Requests, Finish(s) \/ Strand(s)
  PROVE  \E r \in Requests : Map!End(r) \/ Map!Abandon(r)
<1> DEFINE h == turn[s]
<1>1. EndFrame(s, h)
  BY EndStep
<1> HIDE DEF h
<1>2. Fates[h] = "running" /\ UNCHANGED <<entry, gc, got, Line>> /\ h \in Requests
  BY <1>1 DEF EndFrame, Line, Fates, FateOf
<1>3. CASE pc'[h] = "served" /\ ~gc
  <2>1. Fates' = [Fates EXCEPT ![h] = "served"]
    BY <1>1, <1>3, FateMoves DEF EndFrame, FateOf
  <2> QED
    BY <1>2, <1>3, <2>1, Mapped
<1>4. CASE pc'[h] = "stranded" /\ s \notin running
  <2>1. Fates' = [Fates EXCEPT ![h] = "stranded"]
    BY <1>1, <1>4, FateMoves DEF EndFrame, FateOf
  <2>2. got[h] # entry
    BY <1>1, <1>2, <1>4, Names DEF EndFrame, IInv, TypeOK, RunInv, EntryIsServing
  <2> QED
    BY <1>2, <2>1, <2>2, Mapped
<1> QED
  BY <1>1, <1>3, <1>4 DEF EndFrame

(* idle() finds nobody waiting and nobody in the runner's hand.            *)
LEMMA FindIdleSimulates == ASSUME IInv, GcFindIdle PROVE Map!StartClosing
<1>1. /\ entry # None /\ ~gc /\ gc' = TRUE /\ turn[entry] = None
      /\ UNCHANGED <<entry, got, Fates, Line>> /\ Line = <<>>
  BY DEF GcFindIdle, Fates, Line, answerVars, turnVars
<1> QED
  BY <1>1, BusyIsHand, Mapped

(* Whoever waits, waits for the entry, so that an eviction drops them all. *)
LEMMA EvictSimulates == ASSUME IInv, GcEvict PROVE Map!Close
<1>1. EvictFrame /\ gc /\ entry \in Requests /\ entry # None
  BY EvictStep DEF GcEvict, IInv, TypeOK
<1>3. \A r \in Requests : pc'[r] = IF pc[r] = "queued" THEN "shed" ELSE pc[r]
  BY <1>1 DEF EvictFrame
<1>4. \A r \in Requests : Fates[r] = "waiting" <=> pc[r] = "queued"
  BY DEF Fates, FateOf, IInv, TypeOK, Stages
<1>5. Fates' = [r \in Requests |-> IF Fates[r] = "waiting" THEN "dropped" ELSE Fates[r]]
  BY <1>3, <1>4 DEF Fates, FateOf
<1>6. Line' = <<>> /\ entry' = None /\ gc' = FALSE /\ got' = got
  BY <1>1 DEF EvictFrame, Line
<1> QED
  BY <1>1, <1>5, <1>6, Mapped

LEMMA NextSimulates == IInv /\ [Next]_vars => [Map!Next]_(Map!vars)
<1> SUFFICES ASSUME IInv, [Next]_vars PROVE [Map!Next]_(Map!vars)
  OBVIOUS
<1>1. CASE \E r \in Requests : GetOrCreate(r)
  BY <1>1, CreationSimulates DEF Map!Next
<1>2. CASE \E r \in Requests : Push(r) \/ PushRefused(r) \/ Pop(r)
  BY <1>2, TurnSimulates DEF Map!Next
<1>6. CASE \E s \in Requests : Finish(s) \/ Strand(s)
  BY <1>6, EndSimulates DEF Map!Next
<1>3. CASE GcEvict
  BY <1>3, EvictSimulates DEF Map!Next
<1>4. CASE GcFindIdle
  BY <1>4, FindIdleSimulates DEF Map!Next
<1>5. CASE UNCHANGED vars
  <2>1. UNCHANGED <<entry, gc, got, Fates, Line>>
    BY <1>5 DEF vars, Fates, Line
  <2> QED
    BY <2>1, Mapped
<1> QED
  BY <1>1, <1>2, <1>3, <1>4, <1>5, <1>6 DEF Next, Finished

-----------------------------------------------------------------------------
(* Theorems.                                                               *)

(* Every variable keeps its type, and a request holds a sessionState       *)
(* exactly from getOrCreate's return on.                                   *)
THEOREM TypeCorrect == Spec => []TypeOK
<1>1. IInv => TypeOK
  BY DEF IInv
<1> QED
  BY <1>1, Invariance, PTL

(* getOrCreate, install and gcOnce: however many requests race and         *)
(* whatever the agent refuses, the session in the map is a running one.    *)
THEOREM EntryServes == Spec => []EntryIsServing
<1>1. IInv => EntryIsServing
  BY DEF IInv, RunInv
<1> QED
  BY <1>1, Invariance, PTL

(* Turns of a conversation wait in the entry's queue and nowhere else.     *)
THEOREM OneQueue == Spec => []OneQueuePerConversation
<1>1. IInv => OneQueuePerConversation
  BY DEF IInv, QueueInv
<1> QED
  BY <1>1, Invariance, PTL

(* A lost race leaves no goroutine behind, and an eviction none but the    *)
(* runner of a turn queued after idle() and taken up before stop()         *)
(* (gcOnce, popOrWait).                                                    *)
THEOREM NoStrays == Spec => []NoStrayGoroutines
<1>1. IInv => NoStrayGoroutines
  BY DEF IInv, RunInv
<1> QED
  BY <1>1, Invariance, PTL

(* No agent session is given the transcript twice, nor one that has a      *)
(* history (Router.Prompt's freshSeed).                                    *)
THEOREM SeededAtMostOnce == Spec => []NeverDoubleSeeded
<1>1. IInv => NeverDoubleSeeded
  BY SessionConstants, Names DEF IInv, SeedInv, SeededOnce, NeverDoubleSeeded
<1> QED
  BY <1>1, Invariance, PTL

(* The agent's updates for the entry's session reach the entry, or another *)
(* request that shares the agent session (AgentProc.sinks).                *)
THEOREM UpdatesArrive == Spec => []UpdatesReachEntry
<1>1. ASSUME IInv, entry # None PROVE UpdatesReachEntry
  <2>1. entry \in Requests /\ sid[entry] \in Sids
    BY <1>1 DEF IInv, TypeOK, RunInv, EntryIsServing
  <2>2. sinks[sid[entry]] \in Requests /\ sid[sinks[sid[entry]]] = sid[entry]
    BY <1>1, <2>1 DEF IInv, TypeOK, SinkInv, SinkIsKept, SinkIsMade
  <2> QED
    BY <2>2 DEF UpdatesReachEntry
<1>2. IInv => UpdatesReachEntry
  BY <1>1 DEF UpdatesReachEntry
<1> QED
  BY <1>2, Invariance, PTL

(* push, the runner and gcOnce: whoever was queued is in the queue of the  *)
(* session it was given or in the hand of its runner, until it is answered *)
(* or shed; a stranded turn stays in a runner's hand.                      *)
THEOREM NobodyForgotten == Spec => []WaitersAreHeld
<1>1. IInv => WaitersAreHeld
  BY DEF IInv, QueueInv
<1> QED
  BY <1>1, Invariance, PTL

(* Races, failures and evictions included, the map of sessions is what     *)
(* Conversation describes.                                                 *)
THEOREM Refinement == Spec => ImplementsConversation
BY Invariance, InitSimulates, NextSimulates, PTL
   DEF Spec, Map!Spec, ImplementsConversation
=============================================================================
