------------------------------ MODULE CancelPath ------------------------------
(***************************************************************************)
(* Clients that leave: the goroutine handleQuery starts to watch its       *)
(* request's context (internal/httpsrv/handler.go), Router.Cancel, and the *)
(* turns of one conversation (internal/router/router.go).  The agent may   *)
(* take as long as it likes over a prompt, even for ever, or die: nothing     *)
(* starts it again.  The session is not evicted (see SessionMap), and what *)
(* is written to a response is left out (see TurnStream).                  *)
(***************************************************************************)
EXTENDS Naturals, SequencesExt

CONSTANTS Requests, None

ASSUME NoneIsNoRequest == None \notin Requests

VARIABLES
  pc,         \* where the handler of each request is
  watch,      \* where the goroutine that watches its context is
  gone,       \* the requests whose context is cancelled
  installed,  \* the conversation is in Router.sessions
  queue,      \* the turns queued, named after their requests
  current,    \* the turn the runner holds
  phase,      \* what the runner is at: popping, applying options, prompting
  done,       \* the turns whose done channel is closed
  alive,      \* the agent process runs
  working,    \* the prompts the agent works on
  told        \* <<r, t>>: the cancel sent for r met the agent working on t

vars == <<pc, watch, gone, installed, queue, current, phase, done, alive, working, told>>
handlerVars == <<pc, watch, gone>>
runnerVars  == <<current, phase, done>>
agentVars   == <<alive, working, told>>

TypeOK ==
  /\ pc \in [Requests -> {"none", "create", "ready", "wait", "returned"}]
  /\ watch \in [Requests -> {"none", "started", "select", "cancel", "over"}]
  /\ gone \subseteq Requests /\ done \subseteq Requests /\ working \subseteq (IF alive THEN Requests ELSE {})
  /\ installed \in BOOLEAN /\ alive \in BOOLEAN
  /\ queue \in Seq(Requests) /\ IsInjective(queue)
  /\ phase \in {"pop", "options", "prompt"}
  /\ current \in (IF phase = "pop" THEN {None} ELSE Requests \ ToSet(queue))
  /\ told \subseteq Requests \X Requests

Init ==
  /\ pc = [r \in Requests |-> "none"] /\ watch = pc
  /\ gone = {} /\ installed = FALSE
  /\ queue = <<>> /\ current = None /\ phase = "pop" /\ done = {}
  /\ alive = TRUE /\ working = {} /\ told = {}

Goto(r, stage) == pc' = [pc EXCEPT ![r] = stage]

-----------------------------------------------------------------------------
(* handleQuery and Router.Prompt.                                          *)

Arrive(r) ==
  /\ pc[r] = "none"
  /\ Goto(r, "create")
  /\ watch' = [watch EXCEPT ![r] = "started"]
  /\ UNCHANGED <<gone, installed, queue, runnerVars, agentVars>>

(* A goroutine parked in its select is woken by the first of its channels. *)
ClientLeaves(r) ==
  /\ pc[r] \in {"create", "ready", "wait"} /\ r \notin gone
  /\ gone' = gone \cup {r}
  /\ watch' = [watch EXCEPT ![r] = IF @ = "select" THEN "cancel" ELSE @]
  /\ UNCHANGED <<pc, installed, queue, runnerVars, agentVars>>

(* The server cancels the context behind a handler that returns.           *)
HandlerReturns(r) ==
  /\ Goto(r, "returned") /\ gone' = gone \cup {r}
  /\ watch' = [watch EXCEPT ![r] = IF @ = "select" THEN "over" ELSE @]

(* getOrCreate, which a cancelled context, or the agent, may fail.         *)
GetOrCreate(r) ==
  /\ pc[r] = "create"
  /\ \/ Goto(r, "ready") /\ installed' = TRUE /\ UNCHANGED <<watch, gone>>
     \/ HandlerReturns(r) /\ UNCHANGED installed
  /\ UNCHANGED <<queue, runnerVars, agentVars>>

(* The turn is queued, whether or not the client is still there.           *)
Push(r) ==
  /\ pc[r] = "ready"
  /\ queue' = Append(queue, r)
  /\ Goto(r, "wait")
  /\ UNCHANGED <<watch, gone, installed, runnerVars, agentVars>>

(* Prompt waits for its turn even if the client has left.                  *)
Return(r) ==
  /\ pc[r] = "wait" /\ r \in done
  /\ HandlerReturns(r)
  /\ UNCHANGED <<installed, queue, runnerVars, agentVars>>

-----------------------------------------------------------------------------
(* The watching goroutine.  If it comes to its select late both channels   *)
(* may be ready.                                                           *)

Watch(r) ==
  /\ watch[r] = "started"
  /\ watch' \in {[watch EXCEPT ![r] = w] :
       w \in IF pc[r] = "returned" THEN {"cancel", "over"}
             ELSE IF r \in gone THEN {"cancel"} ELSE {"select"}}
  /\ UNCHANGED <<pc, gone, installed, queue, runnerVars, agentVars>>

(* Mutant of Cancel: the prompt is looked at once more before the call. *)
CancelUnlessReturned(r) ==
  /\ watch[r] = "cancel"
  /\ watch' = [watch EXCEPT ![r] = "over"]
  /\ told' = IF installed /\ pc[r] # "returned" THEN told \cup ({r} \X working) ELSE told
  /\ UNCHANGED <<pc, gone, installed, queue, runnerVars, alive, working>>

(* Router.Cancel names the session only.  The agent takes the notification *)
(* in the order in which it was sent among the prompts.                    *)
Cancel(r) ==
  /\ watch[r] = "cancel"
  /\ watch' = [watch EXCEPT ![r] = "over"]
  /\ told' = IF installed THEN told \cup ({r} \X working) ELSE told
  /\ UNCHANGED <<pc, gone, installed, queue, runnerVars, alive, working>>

-----------------------------------------------------------------------------
(* The runner and the agent.                                               *)

(* Mutant of Pop: the turn stays in the queue. *)
PopPeeks ==
  /\ phase = "pop" /\ queue # <<>>
  /\ current' = Head(queue) /\ phase' = "options"
  /\ UNCHANGED <<handlerVars, installed, queue, done, agentVars>>

Pop ==
  /\ phase = "pop" /\ queue # <<>>
  /\ current' = Head(queue) /\ queue' = Tail(queue)
  /\ phase' = "options"
  /\ UNCHANGED <<handlerVars, installed, done, agentVars>>

(* The calls of the turn that runs are cut short: its client has left, or  *)
(* the connection to the agent has ended.                                  *)
Doomed == current \in gone \/ ~alive

(* With a cancelled context, or no agent, the call fails, sent or not.     *)
SendPrompt ==
  /\ phase = "options"
  /\ phase' = "prompt"
  /\ \/ alive /\ working' = working \cup {current}
     \/ Doomed /\ UNCHANGED working
  /\ UNCHANGED <<handlerVars, installed, queue, current, done, alive, told>>

EndTurn ==
  /\ done' = done \cup {current}
  /\ current' = None /\ phase' = "pop"
  /\ UNCHANGED <<handlerVars, installed, queue, alive, told>>

(* Mutant of AgentAnswers: the answer to any of its prompts ends the turn. *)
AgentAnswersAny ==
  /\ phase = "prompt"
  /\ \E t \in working : working' = working \ {t}
  /\ EndTurn

AgentAnswers ==
  /\ phase = "prompt" /\ current \in working
  /\ working' = working \ {current}
  /\ EndTurn

(* Mutant of AbandonAgent: the turn waits for the agent to stop. *)
AbandonWhenStopped ==
  /\ phase = "prompt" /\ Doomed /\ current \notin working
  /\ UNCHANGED working
  /\ EndTurn

AbandonAgent ==
  /\ phase = "prompt" /\ Doomed
  /\ UNCHANGED working
  /\ EndTurn

(* The agent is through with a prompt whose call was given up.             *)
AgentStops(t) ==
  /\ t \in working /\ ~(phase = "prompt" /\ current = t)
  /\ working' = working \ {t}
  /\ UNCHANGED <<handlerVars, installed, queue, runnerVars, alive, told>>

(* The process ends.  Nothing waits for it, so Router.sessions stays.      *)
AgentDies ==
  /\ alive /\ alive' = FALSE /\ working' = {}
  /\ UNCHANGED <<handlerVars, installed, queue, runnerVars, told>>

Finished ==
  /\ \A r \in Requests : pc[r] = "returned" /\ watch[r] = "over"
  /\ working = {} /\ UNCHANGED vars

Runner == Pop \/ SendPrompt \/ AbandonAgent
Unwind == Pop \/ (Doomed /\ SendPrompt) \/ AbandonAgent
Watcher(r) == Watch(r) \/ Cancel(r)

Next ==
  \/ \E r \in Requests :
       \/ Arrive(r) \/ ClientLeaves(r) \/ GetOrCreate(r) \/ Push(r) \/ Return(r)
       \/ Watcher(r)
  \/ Runner
  \/ AgentDies \/ AgentAnswers \/ \E t \in Requests : AgentStops(t)
  \/ Finished

Spec == Init /\ [][Next]_vars

(* Goroutines that can run do.  Nothing is asked of clients or the agent,  *)
(* which may also hang in the calls of applyOptions, unless these are cut  *)
(* short.                                                                  *)
FairSpec ==
  /\ Spec
  /\ WF_vars(Unwind)
  /\ \A r \in Requests : WF_vars(Watcher(r)) /\ WF_vars(Return(r))

-----------------------------------------------------------------------------
(* Properties.                                                             *)

Before(r) ==
  LET waiting == {i \in 1..Len(queue) : queue[i] = r}
  IN {current} \cup {queue[i] : i \in {j \in 1..Len(queue) : \E k \in waiting : j < k}}

(* Nobody is held by an agent that never answers once the clients that     *)
(* could still be served have left, nor by one that is dead: then every    *)
(* request returns, and otherwise one whose client has gone, and with it   *)
(* those of the turn that runs and of all queued ahead.  (Prompt waits for *)
(* done with no timeout, router.go:595-599; nothing watches the process.)  *)
LeaversReturn ==
  \A r \in Requests :
    (pc[r] = "wait" /\ (~alive \/ (r \in gone /\ Before(r) \subseteq gone \cup {None})))
      ~> pc[r] = "returned"

(* README.md:201-202: "If the Poe HTTP client disconnects mid-turn, the    *)
(* relay issues ACP session/cancel".  The agent is told to stop, unless it *)
(* has, even though the disconnection ends the turn, the handler and the   *)
(* call at once.                                                           *)
LeaversAreCancelled ==
  \A r \in Requests :
    (phase = "prompt" /\ current = r /\ r \in working /\ watch[r] = "cancel")
      ~> (r \notin working \/ \E c \in Requests : <<c, r>> \in told)

(* Of the clients that are still there the agent works for at most one,    *)
(* that of the turn that runs: whatever else it is busy with was given up  *)
(* for a client that left.  (The turn ends before the agent stops.)        *)
AgentServesOne == \A t \in working : t = current \/ t \in gone

(* handler.go:177-180: a client's departure cancels its prompt "while [it] *)
(* is in flight"; "we don't want to cancel a session that has already      *)
(* completed".                                                             *)
CancelHitsOwnPrompt == \A c, t \in Requests : <<c, t>> \in told => c = t
=============================================================================
