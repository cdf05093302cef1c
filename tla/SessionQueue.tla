---------------------------- MODULE SessionQueue ----------------------------
(***************************************************************************)
(* The pending queue of one conversation (sessionQueue, turnReq and the    *)
(* runTurns loop of internal/router/router.go) and its three users:        *)
(*   - submitters (Router.Prompt, Router.ReportReaction) push turns;       *)
(*   - the runner (runTurns) pops them and executes them one at a time;    *)
(*   - the collector (Router.gcOnce) evicts the session when it is idle.   *)
(* Every critical section of sessionQueue.mu is one action, and so is      *)
(* every step outside it that another goroutine can observe.  What a turn  *)
(* does while it runs is one action here (EndTurn); TurnStream opens it.   *)
(***************************************************************************)
EXTENDS Naturals, SequencesExt

CONSTANTS
  Prompts,          \* turns of kind turnUser
  Reactions,        \* turns of kind turnReaction
  NoTurn,           \* a nil *turnReq
  sessionQueueCap   \* soft bound on the pending turns

ASSUME TurnKinds ==
  /\ Prompts \cap Reactions = {}
  /\ NoTurn \notin Prompts \cup Reactions

ASSUME CapIsPositive == sessionQueueCap \in Nat \ {0}

Turns == Prompts \cup Reactions

VARIABLES
  q,         \* sessionQueue.q
  inFlight,  \* sessionQueue.inFlight
  stopped,   \* sessionQueue.stopped
  notify,    \* the notify channel (capacity 1) holds a token
  submit,    \* what push answered to each turn: new, accepted, refused
  done,      \* how often each turn's done channel was closed (twice panics)
  shed,      \* turns whose shed flag is set
  runner,    \* where runTurns is: lock, select, turn, finish, exit
  current,   \* the turn runTurns holds
  runStop,   \* runStop is closed
  gc,        \* where gcOnce is with this session
  pending    \* sessionQueue.stop's local copy of the queue

vars == <<q, inFlight, stopped, notify, submit, done, shed,
          runner, current, runStop, gc, pending>>

queueVars  == <<q, stopped, notify, submit>>
turnVars   == <<done, shed>>
runnerVars == <<runner, current, inFlight>>
gcVars     == <<runStop, gc, pending>>

TypeOK ==
  /\ q \in Seq(Turns) /\ pending \in Seq(Turns)
  /\ stopped \in BOOLEAN /\ notify \in BOOLEAN /\ runStop \in BOOLEAN
  /\ submit \in [Turns -> {"new", "accepted", "refused"}]
  /\ done \in [Turns -> Nat]
  /\ shed \in SUBSET Turns
  /\ runner \in {"lock", "select", "turn", "finish", "exit"}
  /\ current \in (IF runner = "turn" THEN Turns ELSE {NoTurn})
  /\ inFlight \in BOOLEAN /\ (inFlight <=> runner \in {"turn", "finish"})
  /\ gc \in {"watch", "evict", "shed", "evicted"}

(* newSessionQueue, and the goroutine getOrCreate starts on it.            *)
Init ==
  /\ q = <<>> /\ pending = <<>>
  /\ inFlight = FALSE /\ stopped = FALSE /\ notify = FALSE
  /\ submit = [t \in Turns |-> "new"]
  /\ done = [t \in Turns |-> 0]
  /\ shed = {}
  /\ runner = "lock" /\ current = NoTurn
  /\ runStop = FALSE /\ gc = "watch"

-----------------------------------------------------------------------------
(* sessionQueue.push, one action for each way through it.                  *)

(* Mutant of Full: the cap is off by one. *)
FullOffByOne == Len(q) > sessionQueueCap

Full == Len(q) >= sessionQueueCap

(* Mutant of OldestReaction: the reaction that came last. *)
NewestReaction(i) ==
  /\ i \in 1..Len(q) /\ q[i] \in Reactions
  /\ \A j \in (i + 1)..Len(q) : q[j] \notin Reactions

(* The reaction that has waited longest is at index i of the queue.        *)
OldestReaction(i) ==
  /\ i \in 1..Len(q) /\ q[i] \in Reactions
  /\ \A j \in 1..(i - 1) : q[j] \notin Reactions

NoReactionQueued == ToSet(q) \cap Reactions = {}

CloseDone(t) == done' = [done EXCEPT ![t] = @ + 1]

(* Mutant of Enqueue: the runner is not woken. *)
EnqueueSilently(t, onto) ==
  /\ q' = Append(onto, t)
  /\ submit' = [submit EXCEPT ![t] = "accepted"]
  /\ UNCHANGED <<notify, stopped, runnerVars, gcVars>>

Enqueue(t, onto) ==
  /\ q' = Append(onto, t)
  /\ notify' = TRUE
  /\ submit' = [submit EXCEPT ![t] = "accepted"]
  /\ UNCHANGED <<stopped, runnerVars, gcVars>>

PushRoom(t) ==
  /\ submit[t] = "new" /\ ~stopped
  /\ ~Full
  /\ Enqueue(t, q)
  /\ UNCHANGED turnVars

(* Mutant of PushShedding: the victim's done channel is left open. *)
PushForgettingVictim(t, i) ==
  /\ submit[t] = "new" /\ ~stopped
  /\ Full /\ OldestReaction(i)
  /\ Enqueue(t, RemoveAt(q, i))
  /\ shed' = shed \cup {q[i]}
  /\ UNCHANGED done

(* The oldest reaction makes room, whatever kind comes in.                 *)
PushShedding(t, i) ==
  /\ submit[t] = "new" /\ ~stopped
  /\ Full /\ OldestReaction(i)
  /\ Enqueue(t, RemoveAt(q, i))
  /\ shed' = shed \cup {q[i]}
  /\ CloseDone(q[i])

(* A prompt grows a queue full of prompts past its cap.                    *)
PushPastCap(t) ==
  /\ submit[t] = "new" /\ ~stopped
  /\ Full /\ NoReactionQueued /\ t \in Prompts
  /\ Enqueue(t, q)
  /\ UNCHANGED turnVars

(* A stopped queue refuses every turn, a queue full of prompts refuses a   *)
(* reaction; the submitter sees the refusal.                               *)
PushRefused(t) ==
  /\ submit[t] = "new"
  /\ stopped \/ (Full /\ NoReactionQueued /\ t \in Reactions)
  /\ submit' = [submit EXCEPT ![t] = "refused"]
  /\ UNCHANGED <<q, stopped, notify, turnVars, runnerVars, gcVars>>

Push(t) ==
  \/ PushRoom(t)
  \/ \E i \in 1..Len(q) : PushShedding(t, i)
  \/ PushPastCap(t)
  \/ PushRefused(t)

-----------------------------------------------------------------------------
(* The runner: popOrWait, runOneTurn seen from outside, finishInFlight.    *)

Pop ==
  /\ runner = "lock" /\ q # <<>>
  /\ current' = Head(q) /\ q' = Tail(q)
  /\ inFlight' = TRUE
  /\ runner' = "turn"
  /\ UNCHANGED <<stopped, notify, submit, turnVars, gcVars>>

FindEmpty ==
  /\ runner = "lock" /\ q = <<>>
  /\ runner' = "select"
  /\ UNCHANGED <<queueVars, turnVars, current, inFlight, gcVars>>

(* With both channels ready the select takes either branch.                *)
SelectNotify ==
  /\ runner = "select" /\ notify
  /\ notify' = FALSE
  /\ runner' = "lock"
  /\ UNCHANGED <<q, stopped, submit, turnVars, current, inFlight, gcVars>>

SelectStop ==
  /\ runner = "select" /\ runStop
  /\ runner' = "exit"
  /\ UNCHANGED <<queueVars, turnVars, current, inFlight, gcVars>>

(* A reaction older than reactionMaxAge is given up when its turn comes.   *)
(* The model has no clock: any reaction may have waited that long.         *)
DropStale ==
  /\ runner = "turn" /\ current \in Reactions
  /\ shed' = shed \cup {current}
  /\ CloseDone(current)
  /\ runner' = "finish" /\ current' = NoTurn
  /\ UNCHANGED <<queueVars, inFlight, gcVars>>

EndTurn ==
  /\ runner = "turn"
  /\ CloseDone(current)
  /\ runner' = "finish" /\ current' = NoTurn
  /\ UNCHANGED <<queueVars, shed, inFlight, gcVars>>

(* Mutant of FinishInFlight: the flag is not reset. *)
FinishStaysInFlight ==
  /\ runner = "finish"
  /\ runner' = "lock"
  /\ UNCHANGED <<queueVars, turnVars, current, inFlight, gcVars>>

FinishInFlight ==
  /\ runner = "finish"
  /\ inFlight' = FALSE
  /\ runner' = "lock"
  /\ UNCHANGED <<queueVars, turnVars, current, gcVars>>

-----------------------------------------------------------------------------
(* The collector's visit to this session once its TTL is over: gcOnce      *)
(* tests idle() under the queue's mutex, gives the mutex up, closes        *)
(* runStop, and calls stop(), which takes the mutex again.  install does   *)
(* the same to the session that loses a race, which no submitter has seen. *)

GcFindIdle ==
  /\ gc = "watch"
  /\ ~inFlight /\ q = <<>>
  /\ gc' = "evict"
  /\ UNCHANGED <<queueVars, turnVars, runnerVars, runStop, pending>>

GcCloseRunStop ==
  /\ gc = "evict" /\ ~runStop
  /\ runStop' = TRUE
  /\ UNCHANGED <<queueVars, turnVars, runnerVars, gc, pending>>

(* Mutants of GcStop: the queue keeps what stop() is about to shed; and    *)
(* stop() forgets what was queued.                                         *)
StopKeepsQueue ==
  /\ gc = "evict" /\ runStop
  /\ stopped' = TRUE
  /\ pending' = q
  /\ gc' = "shed"
  /\ UNCHANGED <<q, notify, submit, turnVars, runnerVars, runStop>>

StopForgetsQueue ==
  /\ gc = "evict" /\ runStop
  /\ stopped' = TRUE
  /\ q' = <<>>
  /\ gc' = "shed"
  /\ UNCHANGED <<pending, notify, submit, turnVars, runnerVars, runStop>>

GcStop ==
  /\ gc = "evict" /\ runStop
  /\ stopped' = TRUE
  /\ pending' = q /\ q' = <<>>
  /\ gc' = "shed"
  /\ UNCHANGED <<notify, submit, turnVars, runnerVars, runStop>>

(* stop closes the done channels after it has released the mutex.          *)
GcShed ==
  /\ gc = "shed" /\ pending # <<>>
  /\ shed' = shed \cup {Head(pending)}
  /\ CloseDone(Head(pending))
  /\ pending' = Tail(pending)
  /\ UNCHANGED <<queueVars, runnerVars, gc, runStop>>

GcForget ==
  /\ gc = "shed" /\ pending = <<>>
  /\ gc' = "evicted"
  /\ UNCHANGED <<queueVars, turnVars, runnerVars, runStop, pending>>

(* Nothing is left to do once the session is gone and every turn has come. *)
Quiescent ==
  /\ gc = "evicted" /\ runner = "exit"
  /\ \A t \in Turns : submit[t] # "new"
  /\ UNCHANGED vars

Runner == Pop \/ FindEmpty \/ SelectNotify \/ SelectStop \/ FinishInFlight
Execute == DropStale \/ EndTurn
Collector == GcFindIdle \/ GcCloseRunStop \/ GcStop \/ GcShed \/ GcForget

Next ==
  \/ \E t \in Turns : Push(t)
  \/ Runner
  \/ Execute
  \/ Collector
  \/ Quiescent

(* The scheduler runs a goroutine that can run.  A turn ends once it has   *)
(* begun, as long as the session is not being torn down under it (its      *)
(* agent answers, or its context or the connection ends).  A visit of the  *)
(* collector runs to its end once it has begun to evict.                   *)
Fairness ==
  /\ WF_vars(Runner)
  /\ WF_vars(Execute /\ ~runStop)
  /\ WF_vars(GcCloseRunStop \/ GcStop \/ GcShed \/ GcForget)

Spec == Init /\ [][Next]_vars
FairSpec == Spec /\ Fairness

-----------------------------------------------------------------------------
(* Properties.                                                             *)

(* No turn's done channel is closed twice, which would panic the process:  *)
(* push, stop and the runner all close it, none while holding a lock that  *)
(* excludes the other two.                                                 *)
DoneClosedOnce == \A t \in Turns : done[t] <= 1

Held(t) == current = t \/ t \in ToSet(q) \/ t \in ToSet(pending)

(* A turn that was accepted is held by exactly the parties that may still  *)
(* answer it (queue, stop's copy, runner) until its done channel is        *)
(* closed; and what was never accepted is held by none of them.            *)
EveryTurnAccounted ==
  \A t \in Turns : Held(t) <=> (submit[t] = "accepted" /\ done[t] = 0)

(* A user's prompt is dropped only by the eviction of its session, never   *)
(* to make room and never for its age.                                     *)
PromptsShedOnlyByEviction == shed \cap Prompts # {} => stopped

(* Reactions never make the queue outgrow its cap: a queue longer than     *)
(* that holds prompts only, whatever sequence of pushes and pops led to it.*)
OnlyPromptsExceedCap == Len(q) > sessionQueueCap => NoReactionQueued

(* The wakeup is not lost: a runner that waits for the notify channel      *)
(* while turns are queued finds a token in it, although push drops its     *)
(* signal when the channel is full and the runner takes signals for turns  *)
(* it has already popped.                                                  *)
WakeupPending == runner = "select" /\ q # <<>> => notify

(* Every accepted turn finishes.  The exception is the one turn the runner *)
(* may pop between the collector's idle() and its stop(), which runs in a  *)
(* session already torn down.                                              *)
AcceptedTurnsFinish ==
  \A t \in Turns :
    submit[t] = "accepted" ~> (done[t] > 0 \/ (current = t /\ runStop))

-----------------------------------------------------------------------------
(* The queue implements TurnService: turns wait in the queue and, while    *)
(* stop() closes their channels, in its local copy.                        *)

FateOf(t) ==
  CASE submit[t] = "new" -> "new"
    [] submit[t] = "refused" -> "refused"
    [] submit[t] = "accepted" /\ done[t] > 0 /\ t \in shed -> "dropped"
    [] submit[t] = "accepted" /\ done[t] > 0 /\ t \notin shed -> "served"
    [] submit[t] = "accepted" /\ done[t] = 0 /\ current = t -> "serving"
    [] OTHER -> "waiting"

Service == INSTANCE TurnService WITH
  line <- q \o pending,
  serving <- current,
  fate <- [t \in Turns |-> FateOf(t)],
  closed <- stopped

(* Turns are served one at a time in the order push accepted them; only    *)
(* reactions are dropped from an open session, the oldest first; an open   *)
(* session refuses no prompt; and no turn changes its fate once it has one.*)
ImplementsTurnService == Service!Spec
=============================================================================
