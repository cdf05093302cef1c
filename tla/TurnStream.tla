----------------------------- MODULE TurnStream -----------------------------
(***************************************************************************)
(* One conversation with everything that runs for it                       *)
(* (internal/router/router.go): the SessionQueue, whose variables and      *)
(* actions it extends, and around EndTurn the steps of runOneTurn, the     *)
(* drain goroutine (drainChunks) on chunkCh, the notification goroutines   *)
(* that call OnUpdate, the agent, and the submitters' contexts.  A sink is *)
(* the sequence of calls made on it.                                       *)
(* Of the agent only its session/update stream and the answer to           *)
(* session/prompt are seen; chunks that drainProcessChunk suppresses and   *)
(* the text it adds around a thought are left out.                         *)
(***************************************************************************)
EXTENDS SessionQueue

CONSTANTS
  chunkChCap,   \* the capacity of chunkCh
  ChunksPerTurn \* bound: chunks the agent streams for one turn

ASSUME ChunkBounds == chunkChCap \in Nat \ {0} /\ ChunksPerTurn \in Nat

VARIABLES
  phase,      \* where runOneTurn is
  outcome,    \* what Agent.Prompt returned to it
  endDone,    \* the channel of the endTurn message is closed
  chunkCh,    \* the session's channel of chunkMsg
  drainStop,  \* drainStop is closed
  draining,   \* drainChunks has not returned
  td,         \* the turn whose sink drainChunks writes to, or NoTurn
  working,    \* the turns the agent is working on
  streamed,   \* how many chunks the agent has streamed for each turn
  transit,    \* notifications received and not yet through OnUpdate
  between,    \* history: chunks put on chunkCh since the turn's beginTurn
  ctxDone,    \* the turns whose request context is cancelled
  sink        \* the calls made on each turn's sink

agentVars  == <<working, streamed>>
streamVars == <<chunkCh, drainStop, draining, td>>
phaseVars  == <<phase, outcome, endDone>>
streamState == <<phaseVars, streamVars, agentVars, transit, between, ctxDone, sink>>
allVars == <<vars, streamState>>

Chunks == [of : Turns, no : 1..ChunksPerTurn]

Write(k)     == [kind |-> k, of |-> NoTurn, no |-> 0]
ChunkText(c) == [kind |-> "chunk", of |-> c.of, no |-> c.no]
Writes == {Write(k) : k \in {"notice", "remark", "error", "done"}}
            \cup {ChunkText(c) : c \in Chunks}

Begin(t) == [kind |-> "begin", of |-> t, no |-> 0]
End(t)   == [kind |-> "end", of |-> t, no |-> 0]
ChunkMsgs == {Begin(t) : t \in Turns} \cup {End(t) : t \in Turns}
               \cup {ChunkText(c) : c \in Chunks}

StreamTypeOK ==
  /\ TypeOK
  /\ phase \in {"none", "start", "begin", "prompt", "end", "ack", "close"}
  /\ phase # "none" <=> current # NoTurn
  /\ outcome \in {"ok", "error"}
  /\ endDone \in BOOLEAN /\ drainStop \in BOOLEAN /\ draining \in BOOLEAN
  /\ chunkCh \in Seq(ChunkMsgs) /\ Len(chunkCh) <= chunkChCap
  /\ td \in Turns \cup {NoTurn}
  /\ working \subseteq Turns
  /\ streamed \in [Turns -> 0..ChunksPerTurn]
  /\ transit \subseteq Chunks
  /\ between \in Seq(Chunks)
  /\ ctxDone \subseteq Turns
  /\ sink \in [Turns -> Seq(Writes)]

StreamInit ==
  /\ Init
  /\ phase = "none" /\ outcome = "ok" /\ endDone = FALSE
  /\ chunkCh = <<>> /\ drainStop = FALSE /\ draining = TRUE /\ td = NoTurn
  /\ working = {} /\ streamed = [t \in Turns |-> 0]
  /\ transit = {} /\ between = <<>>
  /\ ctxDone = {}
  /\ sink = [t \in Turns |-> <<>>]

-----------------------------------------------------------------------------
(* Submitters: Router.Prompt and Router.ReportReaction.                    *)

(* Prompt tells its client of a refusal; ReportReaction does not.          *)
Submit(t) ==
  /\ Push(t)
  /\ sink' = IF t \in Prompts /\ submit'[t] = "refused"
             THEN [sink EXCEPT ![t] = @ \o <<Write("error"), Write("done")>>]
             ELSE sink
  /\ UNCHANGED <<phaseVars, streamVars, agentVars, transit, between, ctxDone>>

(* Mutant of CancelContext: the submitter does not wait for its turn. *)
CancelReleases(t) ==
  /\ submit[t] = "accepted" /\ done[t] = 0 /\ t \notin ctxDone
  /\ ctxDone' = ctxDone \cup {t}
  /\ done' = [done EXCEPT ![t] = @ + 1]
  /\ UNCHANGED <<q, inFlight, stopped, notify, submit, shed, runner, current,
                 runStop, gc, pending, phaseVars, streamVars, agentVars, transit, between, sink>>

(* A prompt's client may go away while Prompt waits; the request of a      *)
(* reaction, whose context the turn keeps, is over once it is queued.      *)
CancelContext(t) ==
  /\ submit[t] = "accepted" /\ done[t] = 0 /\ t \notin ctxDone
  /\ ctxDone' = ctxDone \cup {t}
  /\ UNCHANGED <<vars, phaseVars, streamVars, agentVars, transit, between, sink>>

-----------------------------------------------------------------------------
(* The runner, runOneTurn.                                                 *)

StartTurn ==
  /\ Pop
  /\ phase' = "start"
  /\ UNCHANGED <<outcome, endDone, streamVars, agentVars, transit, between, ctxDone, sink>>

(* touch, which runs before done is closed, waits while gcOnce holds       *)
(* Router.mu.                                                              *)
RouterLockFree == gc \notin {"evict", "shed"}

GiveUpStale ==
  /\ phase = "start" /\ RouterLockFree
  /\ DropStale
  /\ phase' = "none"
  /\ UNCHANGED <<outcome, endDone, streamVars, agentVars, transit, between, ctxDone, sink>>

(* An option the agent rejects is noted in front of the prompt's answer.   *)
ApplyOptions ==
  /\ phase = "start"
  /\ \/ UNCHANGED sink
     \/ /\ current \in Prompts
        /\ sink' = [sink EXCEPT ![current] = Append(@, Write("notice"))]
  /\ phase' = "begin"
  /\ UNCHANGED <<vars, outcome, endDone, streamVars, agentVars, transit, between, ctxDone>>

Send(msg) ==
  /\ Len(chunkCh) < chunkChCap
  /\ chunkCh' = Append(chunkCh, msg)
  /\ UNCHANGED <<drainStop, draining, td>>

SendBeginTurn ==
  /\ phase = "begin"
  /\ Send(Begin(current))
  /\ working' = working \cup {current}
  /\ phase' = "prompt"
  /\ UNCHANGED <<vars, outcome, endDone, streamed, transit, between, ctxDone, sink>>

(* Mutant of AgentAnswers: endTurn is skipped when the agent fails. *)
AgentFailsEarly ==
  /\ phase = "prompt" /\ current \in working
  /\ working' = working \ {current}
  /\ outcome' \in {"ok", "error"}
  /\ phase' = IF outcome' = "error" THEN "ack" ELSE "end"
  /\ UNCHANGED <<vars, endDone, streamVars, streamed, transit, between, ctxDone, sink>>

(* The agent answers, with a stop reason or an error; by then it has sent  *)
(* the turn's last chunk, though not all may have passed OnUpdate.         *)
AgentAnswers ==
  /\ phase = "prompt" /\ current \in working
  /\ working' = working \ {current}
  /\ outcome' \in {"ok", "error"}
  /\ phase' = "end"
  /\ UNCHANGED <<vars, endDone, streamVars, streamed, transit, between, ctxDone, sink>>

(* A cancelled context ends the call whatever the agent does.              *)
AbandonAgent ==
  /\ phase = "prompt" /\ current \in ctxDone
  /\ outcome' = "error"
  /\ phase' = "end"
  /\ UNCHANGED <<vars, endDone, streamVars, agentVars, transit, between, ctxDone, sink>>

SendEndTurn ==
  /\ phase = "end"
  /\ Send(End(current))
  /\ phase' = "ack"
  /\ UNCHANGED <<vars, outcome, endDone, agentVars, transit, between, ctxDone, sink>>

(* The last calls on the sink before Done: Error if the prompt failed,     *)
(* else what the stop reason asks for, which is nothing (end_turn) or one  *)
(* Text, Error or Replace ("remark").                                      *)
LastWords ==
  IF outcome = "error" THEN {<<Write("error")>>} ELSE {<<>>, <<Write("remark")>>}

(* Mutants of Finalise: the acknowledgement is not awaited; and an error   *)
(* is taken to end the response.                                           *)
FinaliseEarly ==
  /\ phase = "ack"
  /\ \E w \in LastWords :
       sink' = [sink EXCEPT ![current] = @ \o w \o <<Write("done")>>]
  /\ phase' = "close"
  /\ outcome' = "ok"
  /\ UNCHANGED <<vars, endDone, streamVars, agentVars, transit, between, ctxDone>>

FinaliseUndone ==
  /\ phase = "ack" /\ endDone
  /\ \E w \in LastWords :
       sink' = [sink EXCEPT ![current] =
                  @ \o (IF outcome = "error" THEN w ELSE w \o <<Write("done")>>)]
  /\ phase' = "close"
  /\ outcome' = "ok"
  /\ UNCHANGED <<vars, endDone, streamVars, agentVars, transit, between, ctxDone>>

Finalise ==
  /\ phase = "ack" /\ endDone
  /\ \E w \in LastWords :
       sink' = [sink EXCEPT ![current] = @ \o w \o <<Write("done")>>]
  /\ phase' = "close"
  /\ outcome' = "ok"
  /\ UNCHANGED <<vars, endDone, streamVars, agentVars, transit, between, ctxDone>>

(* Mutant of CloseTurn: the turn's state is not given up. *)
CloseTurnHalfway ==
  /\ phase = "close" /\ RouterLockFree
  /\ EndTurn
  /\ endDone' = FALSE /\ between' = <<>>
  /\ UNCHANGED <<phase, outcome, streamVars, agentVars, transit, ctxDone, sink>>

CloseTurn ==
  /\ phase = "close" /\ RouterLockFree
  /\ EndTurn
  /\ phase' = "none" /\ endDone' = FALSE /\ between' = <<>>
  /\ UNCHANGED <<outcome, streamVars, agentVars, transit, ctxDone, sink>>

RunnerWaits ==
  /\ FindEmpty \/ SelectNotify \/ SelectStop \/ FinishInFlight
  /\ UNCHANGED streamState

-----------------------------------------------------------------------------
(* The agent and the notifications it sends, each in a goroutine of its    *)
(* own.  An agent whose call was given up may go on for a while.           *)

StreamChunk(t) ==
  /\ t \in working /\ streamed[t] < ChunksPerTurn
  /\ streamed' = [streamed EXCEPT ![t] = @ + 1]
  /\ transit' = transit \cup {[of |-> t, no |-> streamed[t] + 1]}
  /\ UNCHANGED <<vars, phaseVars, streamVars, working, between, ctxDone, sink>>

AgentStops(t) ==
  /\ t \in working /\ ~(t = current /\ phase = "prompt")
  /\ working' = working \ {t}
  /\ UNCHANGED <<vars, phaseVars, streamVars, streamed, transit, between, ctxDone, sink>>

OnUpdate(c) ==
  /\ c \in transit
  /\ transit' = transit \ {c}
  /\ Send(ChunkText(c))
  /\ between' = IF phase \in {"prompt", "end"} THEN Append(between, c) ELSE between
  /\ UNCHANGED <<vars, phaseVars, agentVars, ctxDone, sink>>

OnUpdateStopped(c) ==
  /\ c \in transit /\ drainStop
  /\ transit' = transit \ {c}
  /\ UNCHANGED <<vars, phaseVars, streamVars, agentVars, between, ctxDone, sink>>

-----------------------------------------------------------------------------
(* drainChunks: one message at a time, or the end.                         *)

(* Mutant of Drain: the turn stays the current one after its endTurn. *)
DrainKeepsTurn ==
  /\ draining /\ chunkCh # <<>>
  /\ chunkCh' = Tail(chunkCh)
  /\ LET msg == Head(chunkCh) IN
     CASE msg.kind = "begin" -> td' = msg.of /\ UNCHANGED <<endDone, sink>>
       [] msg.kind = "end" -> endDone' = TRUE /\ UNCHANGED <<td, sink>>
       [] OTHER -> /\ sink' = IF td # NoTurn THEN [sink EXCEPT ![td] = Append(@, msg)] ELSE sink
                   /\ UNCHANGED <<endDone, td>>
  /\ UNCHANGED <<vars, phase, outcome, drainStop, draining, agentVars, transit, between, ctxDone>>

Drain ==
  /\ draining /\ chunkCh # <<>>
  /\ chunkCh' = Tail(chunkCh)
  /\ LET msg == Head(chunkCh) IN
     \/ /\ msg.kind = "begin"
        /\ td' = msg.of
        /\ UNCHANGED <<endDone, sink>>
     \/ /\ msg.kind = "end"
        /\ td' = NoTurn /\ endDone' = TRUE
        /\ UNCHANGED sink
     \/ /\ msg.kind = "chunk" /\ td # NoTurn
        /\ sink' = [sink EXCEPT ![td] = Append(@, msg)]
        /\ UNCHANGED <<endDone, td>>
     \/ /\ msg.kind = "chunk" /\ td = NoTurn
        /\ UNCHANGED <<endDone, sink, td>>
  /\ UNCHANGED <<vars, phase, outcome, drainStop, draining, agentVars, transit, between, ctxDone>>

DrainStops ==
  /\ draining /\ drainStop
  /\ draining' = FALSE
  /\ UNCHANGED <<vars, phaseVars, chunkCh, drainStop, td, agentVars, transit, between, ctxDone, sink>>

-----------------------------------------------------------------------------
(* gcOnce closes drainStop before runStop.                                 *)

GcCloseDrainStop ==
  /\ gc = "evict" /\ ~drainStop
  /\ drainStop' = TRUE
  /\ UNCHANGED <<vars, phaseVars, chunkCh, draining, td, agentVars, transit, between, ctxDone, sink>>

GcRest ==
  /\ \/ drainStop /\ GcCloseRunStop
     \/ GcStop \/ GcShed \/ GcForget
  /\ UNCHANGED streamState

GcVisits ==
  /\ GcFindIdle
  /\ UNCHANGED streamState

(* The session is gone, every turn has come, and nothing is under way      *)
(* except, perhaps, the turn that lost its drain goroutine.                *)
Settled ==
  /\ gc = "evicted" /\ ~draining /\ transit = {} /\ working = {}
  /\ runner = "exit" \/ (runner = "turn" /\ phase \in {"begin", "end", "ack"})
  /\ UNCHANGED allVars

RunTurn == ApplyOptions \/ SendBeginTurn \/ SendEndTurn \/ Finalise \/ CloseTurn
Agent == AgentAnswers \/ \E t \in Turns : AgentStops(t)
Notify == \E c \in transit : OnUpdate(c) \/ OnUpdateStopped(c)
Eviction == GcCloseDrainStop \/ GcRest

StreamNext ==
  \/ \E t \in Turns : Submit(t) \/ CancelContext(t) \/ StreamChunk(t)
  \/ StartTurn \/ GiveUpStale \/ RunTurn \/ RunnerWaits
  \/ Agent \/ AbandonAgent
  \/ Notify
  \/ Drain \/ DrainStops
  \/ GcVisits \/ Eviction
  \/ Settled

(* Goroutines that can run do; the agent answers; an eviction begun ends.  *)
StreamFairness ==
  /\ WF_allVars(StartTurn \/ RunTurn) /\ WF_allVars(RunnerWaits)
  /\ WF_allVars(Agent)
  /\ WF_allVars(Notify)
  /\ WF_allVars(Drain) /\ WF_allVars(DrainStops)
  /\ WF_allVars(Eviction)

StreamSpec == StreamInit /\ [][StreamNext]_allVars
StreamFairSpec == StreamSpec /\ StreamFairness

-----------------------------------------------------------------------------
(* Properties.                                                             *)

(* Nobody writes to a turn's sink once its submitter may have returned,    *)
(* and with it the HTTP response the sink writes to is over: not the       *)
(* drain, not the runner, whenever contexts are cancelled and however late *)
(* chunks arrive (router.go:595-599).                                      *)
NoWriteAfterReturn ==
  [][\A t \in Turns : done[t] > 0 \/ submit[t] = "refused" => sink'[t] = sink[t]]_allVars

(* A turn that ran ends its response with exactly one Done, its last call. *)
ServedTurnsAreDone ==
  \A t \in Turns : done[t] > 0 /\ t \notin shed =>
    /\ sink[t] # <<>> /\ Last(sink[t]) = Write("done")
    /\ \A i \in 1..(Len(sink[t]) - 1) : sink[t][i] # Write("done")

(* When a turn has been ended, its response is every chunk that was put on *)
(* the channel between its beginTurn and its endTurn, in that order, and   *)
(* nothing else but a notice in front of it and, behind it, at most one    *)
(* last word and one Done.                                                 *)
Texts(cs) == [i \in 1..Len(cs) |-> ChunkText(cs[i])]

Notices == {<<>>, <<Write("notice")>>}

WindowIsWritten ==
  phase = "close" =>
    \E front \in Notices, w \in {<<>>, <<Write("error")>>, <<Write("remark")>>} :
      sink[current] = front \o Texts(between) \o w \o <<Write("done")>>

(* The queue inside still behaves as SessionQueue says, whatever the drain *)
(* and the agent do.                                                       *)
ImplementsQueue == Spec

(* Every accepted turn finishes, except the one the runner may pop while   *)
(* the collector is tearing the session down.                              *)
StreamedTurnsFinish ==
  \A t \in Turns :
    submit[t] = "accepted" ~> (done[t] > 0 \/ (current = t /\ drainStop))

(* router.go:214-217: "done is closed by runTurns AFTER endTurn ack AND    *)
(* sink.Done / Error / Replace has been called. ... Always closed".        *)
DoneAlwaysClosed ==
  \A t \in Turns : submit[t] = "accepted" ~> done[t] > 0
=============================================================================
