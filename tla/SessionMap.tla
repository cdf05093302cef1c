----------------------------- MODULE SessionMap -----------------------------
(***************************************************************************)
(* How a conversation gets its session (internal/router/router.go:         *)
(* getOrCreate, install, gcOnce; internal/acpclient/agent.go: the sinks    *)
(* map): requests that find the conversation cold race to create or resume *)
(* a session, the loser's is thrown away, and idle sessions are evicted.   *)
(* One conversation; a sessionState is named after the request that        *)
(* created it, and so is the agent session that request creates.  Turns    *)
(* are reduced to their order in the session's queue (SessionQueue) and to *)
(* the one in the runner's hand (TurnStream).                              *)
(***************************************************************************)
EXTENDS Naturals, SequencesExt

CONSTANTS
  Prompts,     \* user queries, each with prior turns (len(query) > 1)
  Reactions,   \* reactions: getOrCreate gets no query
  OldSession,  \* an agent session that outlived an earlier relay or eviction
  None,
  CanResume    \* the agent offers session/list and session/resume

Requests == Prompts \cup Reactions
Sids == Requests \cup {OldSession}

ASSUME SessionConstants ==
  /\ Prompts \cap Reactions = {}
  /\ OldSession \notin Requests /\ None \notin Sids
  /\ CanResume \in BOOLEAN

VARIABLES
  entry,      \* Router.sessions[conv]: a sessionState or None
  gc,         \* gcOnce found the entry idle and is about to stop it
  pc,         \* how far each request has come
  running,    \* sessionStates whose goroutines and queue were not told to stop
  sid,        \* sessionState.sessionID
  resumed,    \* sessionStates that resumed their agent session
  got,        \* the sessionState getOrCreate returned to each request
  freshSeed,  \* ... and whether the prompt must carry the transcript
  queue,      \* the requests queued at each sessionState
  turn,       \* the request in the hand of each sessionState's runner, or None
  late,       \* history: the requests queued while gcOnce was at the entry
  sinks,      \* AgentProc.sinks: the sessionState an agent session reports to
  listed,     \* the agent's sessions for this cwd, newest first
  seeds       \* history: how many transcripts each agent session was sent

vars == <<entry, gc, pc, running, sid, resumed, got, freshSeed, queue,
          turn, late, sinks, listed, seeds>>
routerVars == <<entry, gc>>
answerVars == <<got, freshSeed>>
turnVars   == <<queue, turn, late>>
agentVars  == <<listed, seeds>>

Stages == {"arrive", "list", "resume", "new", "created", "install", "got",
           "queued", "running", "stranded", "served", "refused", "failed", "shed"}

TypeOK ==
  /\ entry \in Requests \cup {None} /\ gc \in BOOLEAN
  /\ pc \in [Requests -> Stages]
  /\ running \subseteq Requests /\ resumed \subseteq Requests
  /\ sid \in [Requests -> Sids \cup {None}]
  /\ got \in [Requests -> Requests \cup {None}]
  /\ freshSeed \in [Requests -> BOOLEAN]
  /\ queue \in [Requests -> Seq(Requests)]
  /\ turn \in [Requests -> Requests \cup {None}] /\ late \subseteq Requests
  /\ sinks \in [Sids -> Requests \cup {None}]
  /\ listed \in Seq(Sids)
  /\ seeds \in [Sids -> Nat]
  /\ gc => entry # None
  /\ \A r \in Requests : got[r] # None <=>
       pc[r] \in {"got", "queued", "running", "stranded", "served", "refused", "shed"}

Init ==
  /\ entry = None /\ gc = FALSE
  /\ pc = [r \in Requests |-> "arrive"]
  /\ running = {} /\ resumed = {}
  /\ sid = [r \in Requests |-> None]
  /\ got = [r \in Requests |-> None]
  /\ freshSeed = [r \in Requests |-> FALSE]
  /\ queue = [r \in Requests |-> <<>>]
  /\ turn = [r \in Requests |-> None] /\ late = {}
  /\ sinks = [s \in Sids |-> None]
  /\ listed \in {<<>>, <<OldSession>>}
  /\ seeds = [s \in Sids |-> 0]

Goto(r, stage) == pc' = [pc EXCEPT ![r] = stage]

(* Router.mu, which gcOnce holds throughout its visit.                     *)
RouterLock == ~gc

-----------------------------------------------------------------------------
(* getOrCreate.                                                            *)

Hit(r) ==
  /\ pc[r] = "arrive" /\ RouterLock
  /\ entry # None
  /\ got' = [got EXCEPT ![r] = entry]
  /\ Goto(r, "got")
  /\ UNCHANGED <<routerVars, running, sid, resumed, freshSeed, turnVars, sinks, agentVars>>

(* A miss: the new sessionState's goroutines start before the agent is     *)
(* asked for a session.                                                    *)
Miss(r) ==
  /\ pc[r] = "arrive" /\ RouterLock
  /\ entry = None
  /\ running' = running \cup {r}
  /\ Goto(r, IF CanResume THEN "list" ELSE "new")
  /\ UNCHANGED <<routerVars, sid, resumed, answerVars, turnVars, sinks, agentVars>>

(* The agent's first listed session is to be resumed; an error counts as   *)
(* an empty list.                                                          *)
ListSessions(r) ==
  /\ pc[r] = "list"
  /\ \/ /\ listed # <<>>
        /\ sid' = [sid EXCEPT ![r] = Head(listed)]
        /\ Goto(r, "resume")
     \/ /\ Goto(r, "new")
        /\ UNCHANGED sid
  /\ UNCHANGED <<routerVars, running, resumed, answerVars, turnVars, sinks, agentVars>>

(* Mutant of ResumeSession: the sink is left as it was. *)
ResumeSilently(r) ==
  /\ pc[r] = "resume"
  /\ resumed' = resumed \cup {r}
  /\ Goto(r, "install")
  /\ UNCHANGED <<routerVars, running, sid, answerVars, turnVars, sinks, agentVars>>

(* ResumeSession registers the sink when the agent has agreed.             *)
ResumeSession(r) ==
  /\ pc[r] = "resume"
  /\ sinks' = [sinks EXCEPT ![sid[r]] = r]
  /\ resumed' = resumed \cup {r}
  /\ Goto(r, "install")
  /\ UNCHANGED <<routerVars, running, sid, answerVars, turnVars, agentVars>>

ResumeFails(r) ==
  /\ pc[r] = "resume"
  /\ Goto(r, "new")
  /\ UNCHANGED <<routerVars, running, sid, resumed, answerVars, turnVars, sinks, agentVars>>

(* The agent creates the session ...                                       *)
AgentCreates(r) ==
  /\ pc[r] = "new"
  /\ listed' = <<r>> \o listed
  /\ Goto(r, "created")
  /\ UNCHANGED <<routerVars, running, sid, resumed, answerVars, turnVars, sinks, seeds>>

(* ... and NewSession registers the sink when its answer arrives.          *)
NewSession(r) ==
  /\ pc[r] = "created"
  /\ sid' = [sid EXCEPT ![r] = r]
  /\ sinks' = [sinks EXCEPT ![r] = r]
  /\ Goto(r, "install")
  /\ UNCHANGED <<routerVars, running, resumed, answerVars, turnVars, agentVars>>

(* The agent refuses, or its answer is lost with the request's context.    *)
(* The sessionState is given up as it is, its goroutines running.          *)
NewSessionFails(r) ==
  /\ pc[r] \in {"new", "created"}
  /\ Goto(r, "failed")
  /\ UNCHANGED <<routerVars, running, sid, resumed, answerVars, turnVars, sinks, agentVars>>

(* Mutants of InstallWins and InstallLoses: the entry is not looked at     *)
(* again; the loser goes on running; and the loser seeds all the same.     *)
InstallOverwrites(r) ==
  /\ pc[r] = "install" /\ RouterLock
  /\ entry' = r
  /\ got' = [got EXCEPT ![r] = r]
  /\ freshSeed' = [freshSeed EXCEPT ![r] = r \in Prompts /\ r \notin resumed]
  /\ Goto(r, "got")
  /\ UNCHANGED <<gc, running, sid, resumed, turnVars, sinks, agentVars>>

LoserRunsOn(r) ==
  /\ pc[r] = "install" /\ RouterLock
  /\ entry # None
  /\ got' = [got EXCEPT ![r] = entry]
  /\ Goto(r, "got")
  /\ UNCHANGED <<routerVars, running, sid, resumed, freshSeed, turnVars, sinks, agentVars>>

LoserSeeds(r) ==
  /\ pc[r] = "install" /\ RouterLock
  /\ entry # None
  /\ running' = running \ {r}
  /\ got' = [got EXCEPT ![r] = entry]
  /\ freshSeed' = [freshSeed EXCEPT ![r] = r \in Prompts /\ r \notin resumed]
  /\ Goto(r, "got")
  /\ UNCHANGED <<routerVars, sid, resumed, turnVars, sinks, agentVars>>

(* install: the first to come wins; the loser's state is stopped and its   *)
(* request takes the winner's, which it does not seed again.               *)
InstallWins(r) ==
  /\ pc[r] = "install" /\ RouterLock
  /\ entry = None
  /\ entry' = r
  /\ got' = [got EXCEPT ![r] = r]
  /\ freshSeed' = [freshSeed EXCEPT ![r] = r \in Prompts /\ r \notin resumed]
  /\ Goto(r, "got")
  /\ UNCHANGED <<gc, running, sid, resumed, turnVars, sinks, agentVars>>

InstallLoses(r) ==
  /\ pc[r] = "install" /\ RouterLock
  /\ entry # None
  /\ running' = running \ {r}
  /\ got' = [got EXCEPT ![r] = entry]
  /\ freshSeed' = [freshSeed EXCEPT ![r] = FALSE]
  /\ Goto(r, "got")
  /\ UNCHANGED <<routerVars, sid, resumed, turnVars, sinks, agentVars>>

-----------------------------------------------------------------------------
(* The turn: queued, or refused by a stopped queue, or in the hand of the  *)
(* session's runner until its submitter is let go.                         *)

Push(r) ==
  /\ pc[r] = "got"
  /\ got[r] \in running
  /\ queue' = [queue EXCEPT ![got[r]] = Append(@, r)]
  /\ late' = IF gc THEN late \cup {r} ELSE late
  /\ Goto(r, "queued")
  /\ UNCHANGED <<routerVars, running, sid, resumed, answerVars, turn, sinks, agentVars>>

PushRefused(r) ==
  /\ pc[r] = "got"
  /\ got[r] \notin running
  /\ Goto(r, "refused")
  /\ UNCHANGED <<routerVars, running, sid, resumed, answerVars, turnVars, sinks, agentVars>>

(* The runner takes the turn at the front and gives it to the agent.  A    *)
(* prompt that carries the transcript seeds the agent session.             *)
Pop(s) ==
  /\ turn[s] = None /\ queue[s] # <<>>
  /\ LET r == Head(queue[s]) IN
     /\ queue' = [queue EXCEPT ![s] = Tail(@)]
     /\ turn' = [turn EXCEPT ![s] = r]
     /\ Goto(r, "running")
     /\ seeds' = IF freshSeed[r] THEN [seeds EXCEPT ![sid[s]] = @ + 1] ELSE seeds
  /\ UNCHANGED <<routerVars, running, sid, resumed, answerVars, late, sinks, listed>>

(* The turn ends: answered, or a reaction too old to be run.  touch waits  *)
(* for the router's lock before the submitter is let go.                   *)
Finish(s) ==
  /\ turn[s] # None /\ pc[turn[s]] = "running"
  /\ RouterLock
  /\ turn' = [turn EXCEPT ![s] = None]
  /\ Goto(turn[s], "served")
  /\ UNCHANGED <<routerVars, running, sid, resumed, answerVars, queue, late, sinks, agentVars>>

(* The session was stopped and its drain has gone before the turn's        *)
(* endTurn: the runner waits for ever (TurnStream!DoneAlwaysClosed).       *)
Strand(s) ==
  /\ turn[s] # None /\ pc[turn[s]] = "running"
  /\ s \notin running
  /\ Goto(turn[s], "stranded")
  /\ UNCHANGED <<routerVars, running, sid, resumed, answerVars, turnVars, sinks, agentVars>>

-----------------------------------------------------------------------------
(* gcOnce: idle() is tested, then the entry is stopped and forgotten.  A   *)
(* turn may be queued in between, and the runner may take it up: stop()    *)
(* sheds what is queued and leaves the runner what it has.                 *)

(* Mutant of GcFindIdle: the turn in flight is not looked at. *)
GcFindEmpty ==
  /\ ~gc /\ entry # None
  /\ queue[entry] = <<>>
  /\ gc' = TRUE
  /\ UNCHANGED <<entry, pc, running, sid, resumed, answerVars, turnVars, sinks, agentVars>>

GcFindIdle ==
  /\ ~gc /\ entry # None
  /\ queue[entry] = <<>> /\ turn[entry] = None
  /\ gc' = TRUE
  /\ UNCHANGED <<entry, pc, running, sid, resumed, answerVars, turnVars, sinks, agentVars>>

(* stop() sheds whoever is queued.                                         *)
StopQueue(s) ==
  /\ running' = running \ {s}
  /\ pc' = [r \in Requests |-> IF r \in ToSet(queue[s]) THEN "shed" ELSE pc[r]]
  /\ queue' = [queue EXCEPT ![s] = <<>>]

(* Mutants of GcEvict: the lock is not released; and the entry is not      *)
(* deleted.                                                                *)
EvictKeepsLock ==
  /\ gc /\ StopQueue(entry)
  /\ entry' = None
  /\ UNCHANGED <<gc, sid, resumed, answerVars, turn, late, sinks, agentVars>>

EvictKeepsEntry ==
  /\ gc /\ StopQueue(entry)
  /\ gc' = FALSE
  /\ UNCHANGED <<entry, sid, resumed, answerVars, turn, late, sinks, agentVars>>

(* The channels are closed, the queue is stopped and the entry deleted; to *)
(* the rest of the relay it is the stop that shows.                        *)
GcEvict ==
  /\ gc /\ StopQueue(entry)
  /\ gc' = FALSE /\ entry' = None
  /\ UNCHANGED <<sid, resumed, answerVars, turn, late, sinks, agentVars>>

Finished ==
  /\ \A r \in Requests : pc[r] \in {"served", "stranded", "refused", "failed", "shed"}
  /\ entry = None
  /\ UNCHANGED vars

GetOrCreate(r) ==
  \/ Hit(r) \/ Miss(r)
  \/ ListSessions(r) \/ ResumeSession(r) \/ ResumeFails(r)
  \/ AgentCreates(r) \/ NewSession(r) \/ NewSessionFails(r)
  \/ InstallWins(r) \/ InstallLoses(r)

Next ==
  \/ \E r \in Requests : GetOrCreate(r) \/ Push(r) \/ PushRefused(r)
  \/ \E s \in Requests : Pop(s) \/ Finish(s) \/ Strand(s)
  \/ GcFindIdle \/ GcEvict
  \/ Finished

Spec == Init /\ [][Next]_vars

-----------------------------------------------------------------------------
(* Properties.                                                             *)

Creating(r) == pc[r] \in {"list", "resume", "new", "created", "install"}

(* The session in the map can serve: neither a lost race nor an eviction   *)
(* has stopped it, and it has an agent session.                            *)
EntryIsServing == entry # None => entry \in running /\ sid[entry] # None

(* Turns wait in one place: a session that has turns queued is the         *)
(* conversation's entry and its queue is not stopped, so the order of its  *)
(* queue is the order of the conversation.                                 *)
OneQueuePerConversation ==
  \A s \in Requests : queue[s] # <<>> => s = entry /\ s \in running

(* Nothing runs on that no request will get: not a lost race's goroutines, *)
(* and of an evicted session's nothing but a turn that was queued after    *)
(* idle() had found the session idle, and taken up before it was stopped.  *)
(* Also left over are those whose session/new failed, which nothing stops. *)
NoStrayGoroutines ==
  \A s \in Requests :
    /\ s \in running => s = entry \/ Creating(s) \/ pc[s] = "failed"
    /\ turn[s] # None => s = entry \/ (s \notin running /\ turn[s] \in late)

(* The transcript is given at most once to an agent session, and never to  *)
(* one that has a history of its own (router.go:1289-1290: "do not         *)
(* double-seed it").                                                       *)
NeverDoubleSeeded ==
  /\ \A s \in Sids : seeds[s] <= 1
  /\ seeds[OldSession] = 0

(* What the agent streams for the session in the map reaches it            *)
(* (agent.go:7-8), and not a state that lost install or none at all,       *)
(* unless another request of the same agent session came later, or raced   *)
(* it (see the README).                                                    *)
UpdatesReachEntry ==
  entry # None =>
    \/ sinks[sid[entry]] = entry
    \/ \E r \in Requests \ {entry} :
         sid[r] = sid[entry] /\ sinks[sid[entry]] = r

(* Whatever the race and the eviction, a conversation has one session at a *)
(* time and one line before it (Conversation.tla): who waits is taken up   *)
(* in order, one at a time, by the session there is, or dropped with it;   *)
(* nobody waits for a session that was closed, or is in the line twice;    *)
(* and only whoever came while the session was being closed can be taken   *)
(* up by a closed session, and be left there without an answer.            *)
Map == INSTANCE Conversation WITH
  session <- entry,
  closing <- gc,
  given <- got,
  fate <- [r \in Requests |->
             CASE pc[r] \in {"arrive", "list", "resume", "new", "created", "install"} -> "new"
               [] pc[r] = "got" -> "given"
               [] pc[r] = "queued" -> "waiting"
               [] pc[r] = "shed" -> "dropped"
               [] OTHER -> pc[r]],
  line <- IF entry = None THEN <<>> ELSE queue[entry]

ImplementsConversation == Map!Spec
=============================================================================
