--------------------------- MODULE CancelPathProofs ---------------------------
(***************************************************************************)
(* CancelPath, for any number of requests: nobody is forgotten by the      *)
(* queue, no watcher sleeps through its client's departure, and what the   *)
(* agent, and the cancels it is sent, may be about.                        *)
(***************************************************************************)
EXTENDS CancelPath, SequenceTheorems, TLAPS

(* A request is queued once, and is waited for until its turn is over.     *)
QueuedWait == \A r \in ToSet(queue) : pc[r] = "wait" /\ r \notin done
CurrentWaits == current # None => pc[current] = "wait" /\ current \notin done
DoneWaited == \A r \in done : pc[r] \in {"wait", "returned"}

(* Every request whose handler waits is in the queue, with the runner, or  *)
(* its done channel is closed: there is somebody to release it.            *)
WaitersAreHeld ==
  \A r \in Requests : pc[r] = "wait" => r \in ToSet(queue) \cup {current} \cup done

(* The server cancels the context of a handler that has returned; what a   *)
(* watcher has seen of its context and its handler is so.                  *)
ReturnedAreGone == \A r \in Requests : pc[r] = "returned" => r \in gone
WatcherSaw == \A r \in Requests : watch[r] = "cancel" => r \in gone

(* No watcher stays parked behind a context that is cancelled.             *)
NoWatcherSleeps ==
  \A r \in Requests : watch[r] = "select" => r \notin gone

(* What the agent works on is the turn that runs, or one that was given up *)
(* for a client that left.                                                 *)
WorkIsAbandoned ==
  \A t \in working :
    \/ t = current /\ phase = "prompt"
    \/ t # current /\ t \in done /\ t \in gone

(* Only the watcher of a client that left, or of a request that has been   *)
(* served, sends a cancel.                                                 *)
OnlyLeaversCancel == \A c, t \in Requests : <<c, t>> \in told => c \in gone

QueueInv == QueuedWait /\ CurrentWaits /\ DoneWaited /\ WaitersAreHeld
WatchInv == ReturnedAreGone /\ WatcherSaw /\ NoWatcherSleeps
AgentInv == WorkIsAbandoned /\ OnlyLeaversCancel
IInv     == TypeOK /\ QueueInv /\ WatchInv /\ AgentInv

(* How far a cancel reaches: it is sent for a client that left, or was     *)
(* served, and meets prompts of clients that left and that of the turn     *)
(* that runs, nothing else.                                                *)
CancelsReach ==
  [][\A c, t \in Requests : <<c, t>> \in told' /\ <<c, t>> \notin told =>
       c \in gone /\ (t = current \/ t \in gone)]_vars

-----------------------------------------------------------------------------
(* What Append and Tail do to the elements of a queue.                     *)

(* The empty queue.                                                        *)
LEMMA EmptyElements ==
  /\ ToSet(<<>>) = {} /\ IsInjective(<<>>) /\ Len(<<>>) = 0
  /\ \A S : <<>> \in Seq(S)
BY DEF ToSet, IsInjective

(* Appending a new element to a queue without duplicates.                  *)
LEMMA AppendElements ==
  ASSUME NEW S, NEW s \in Seq(S), NEW e \in S
  PROVE  /\ Append(s, e) \in Seq(S)
         /\ Len(Append(s, e)) = Len(s) + 1
         /\ ToSet(Append(s, e)) = ToSet(s) \cup {e}
         /\ IsInjective(s) /\ e \notin ToSet(s) => IsInjective(Append(s, e))
<1> DEFINE a == Append(s, e)
<1>1. /\ a \in Seq(S) /\ Len(a) = Len(s) + 1
      /\ \A i \in 1..Len(s) : a[i] = s[i]
      /\ a[Len(s) + 1] = e
  OBVIOUS
<1>2. DOMAIN s = 1..Len(s) /\ DOMAIN a = 1..(Len(s) + 1) /\ Len(s) \in Nat
  BY <1>1
<1> HIDE DEF a
<1>3. ToSet(a) = ToSet(s) \cup {e}
  BY <1>1, <1>2 DEF ToSet
<1>4. ASSUME IsInjective(s), e \notin ToSet(s)
      PROVE  IsInjective(a)
  BY <1>1, <1>2, <1>4 DEF ToSet, IsInjective
<1> QED BY <1>1, <1>3, <1>4 DEF a

(* Taking the first element of a queue without duplicates.                 *)
LEMMA TailElements ==
  ASSUME NEW S, NEW s \in Seq(S), s # <<>>
  PROVE  /\ Head(s) \in S /\ Head(s) \in ToSet(s)
         /\ Tail(s) \in Seq(S)
         /\ Len(s) \in Nat /\ Len(Tail(s)) = Len(s) - 1
         /\ ToSet(s) = ToSet(Tail(s)) \cup {Head(s)}
         /\ IsInjective(s) => IsInjective(Tail(s)) /\ Head(s) \notin ToSet(Tail(s))
<1> DEFINE t == Tail(s)
<1>1. /\ t \in Seq(S) /\ Len(t) = Len(s) - 1 /\ Len(s) \in Nat \ {0}
      /\ \A i \in 1..(Len(s) - 1) : t[i] = s[i + 1]
      /\ Head(s) = s[1] /\ Head(s) \in S
  BY HeadTailProperties, EmptySeq
<1>2. DOMAIN s = 1..Len(s) /\ DOMAIN t = 1..(Len(s) - 1)
  BY <1>1
<1> HIDE DEF t
<1>3. Head(s) \in ToSet(s)
  BY <1>1, <1>2 DEF ToSet
<1>4. ToSet(s) = ToSet(t) \cup {Head(s)}
  <2>1. ASSUME NEW i \in 1..Len(s)
        PROVE  s[i] \in ToSet(t) \cup {Head(s)}
    <3>1. CASE i = 1
      BY <3>1, <1>1
    <3>2. CASE i # 1
      <4>1. i - 1 \in 1..(Len(s) - 1) /\ t[i - 1] = s[i]
        BY <3>2, <1>1
      <4> QED BY <4>1, <1>2 DEF ToSet
    <3> QED BY <3>1, <3>2
  <2>2. ASSUME NEW i \in 1..(Len(s) - 1)
        PROVE  t[i] \in ToSet(s)
    <3>1. i + 1 \in 1..Len(s) /\ t[i] = s[i + 1]
      BY <1>1
    <3> QED BY <3>1, <1>2 DEF ToSet
  <2> QED BY <2>1, <2>2, <1>2, <1>3 DEF ToSet
<1>5. ASSUME IsInjective(s)
      PROVE  IsInjective(t) /\ Head(s) \notin ToSet(t)
  <2>1. \A i, j \in 1..Len(s) : s[i] = s[j] => i = j
    BY <1>2, <1>5 DEF IsInjective
  <2>2. ASSUME NEW i \in 1..(Len(s) - 1)
        PROVE  /\ t[i] # Head(s)
               /\ \A j \in 1..(Len(s) - 1) : t[i] = t[j] => i = j
    <3>1. i + 1 \in 1..Len(s) /\ 1 \in 1..Len(s) /\ i + 1 # 1
      BY <1>1
    <3>2. t[i] # Head(s)
      BY <3>1, <2>1, <1>1
    <3>3. ASSUME NEW j \in 1..(Len(s) - 1), t[i] = t[j]
          PROVE  i = j
      <4>1. j + 1 \in 1..Len(s) /\ s[i + 1] = s[j + 1]
        BY <3>3, <1>1
      <4>2. i + 1 = j + 1
        BY <4>1, <3>1, <2>1
      <4> QED BY <4>2, <1>1
    <3> QED BY <3>2, <3>3
  <2> QED BY <2>2, <1>2 DEF ToSet, IsInjective
<1> QED BY <1>1, <1>3, <1>4, <1>5 DEF t

-----------------------------------------------------------------------------
LEMMA InitIInv == Init => IInv
<1> SUFFICES ASSUME Init PROVE IInv
  OBVIOUS
<1>1. TypeOK
  BY EmptyElements DEF Init, TypeOK
<1> QED
  BY <1>1, EmptyElements DEF Init, IInv, QueueInv, WatchInv, AgentInv, QueuedWait, CurrentWaits, DoneWaited, WaitersAreHeld,
     ReturnedAreGone, WatcherSaw, NoWatcherSleeps, WorkIsAbandoned, OnlyLeaversCancel

(* A step of one handler leaves the others where they are.                 *)
LEMMA Moves ==
  ASSUME TypeOK, NEW r \in Requests,
         NEW stage \in {"none", "create", "ready", "wait", "returned"}, Goto(r, stage)
  PROVE  /\ pc' \in [Requests -> {"none", "create", "ready", "wait", "returned"}]
         /\ pc'[r] = stage
         /\ \A q \in Requests \ {r} : pc'[q] = pc[q]
BY DEF TypeOK, Goto

(* So does what becomes of its watcher.                                    *)
LEMMA Watches ==
  ASSUME TypeOK, NEW r \in Requests,
         NEW w \in {"none", "started", "select", "cancel", "over"},
         watch' = [watch EXCEPT ![r] = w]
  PROVE  /\ watch' \in [Requests -> {"none", "started", "select", "cancel", "over"}]
         /\ watch'[r] = w
         /\ \A q \in Requests \ {r} : watch'[q] = watch[q]
BY DEF TypeOK

LEMMA TypePreserved == IInv /\ [Next]_vars => TypeOK'
<1> SUFFICES ASSUME IInv, [Next]_vars PROVE TypeOK'
  OBVIOUS
<1> USE NoneIsNoRequest DEF IInv, TypeOK, handlerVars, runnerVars, agentVars
<1>1. ASSUME NEW r \in Requests, Arrive(r) PROVE TypeOK'
  BY <1>1 DEF Arrive, Goto
<1>2. ASSUME NEW r \in Requests, ClientLeaves(r) PROVE TypeOK'
  BY <1>2 DEF ClientLeaves
<1>3. ASSUME NEW r \in Requests, GetOrCreate(r) PROVE TypeOK'
  BY <1>3 DEF GetOrCreate, HandlerReturns, Goto
<1>4. ASSUME NEW r \in Requests, Push(r) PROVE TypeOK'
  <2>1. r \notin ToSet(queue) /\ r # current
    BY <1>4 DEF Push, QueueInv, QueuedWait, CurrentWaits
  <2>2. /\ queue' \in Seq(Requests) /\ IsInjective(queue')
        /\ ToSet(queue') = ToSet(queue) \cup {r}
    BY <1>4, <2>1, AppendElements DEF Push
  <2>3. pc' \in [Requests -> {"none", "create", "ready", "wait", "returned"}]
    BY <1>4, Moves DEF Push
  <2>4. UNCHANGED <<watch, gone, installed, current, phase, done, alive, working, told>>
    BY <1>4 DEF Push
  <2>5. current' \in (IF phase' = "pop" THEN {None} ELSE Requests \ ToSet(queue'))
    BY <2>1, <2>2, <2>4
  <2> QED
    BY <2>2, <2>3, <2>4, <2>5
<1>5. ASSUME NEW r \in Requests, Return(r) PROVE TypeOK'
  BY <1>5 DEF Return, HandlerReturns, Goto
<1>6. ASSUME NEW r \in Requests, Watch(r) PROVE TypeOK'
  BY <1>6 DEF Watch
<1>7. ASSUME NEW r \in Requests, Cancel(r) PROVE TypeOK'
  BY <1>7 DEF Cancel
<1>8. CASE Pop
  <2>1. /\ queue' \in Seq(Requests) /\ IsInjective(queue')
        /\ current' \in Requests \ ToSet(queue')
    BY <1>8, TailElements DEF Pop
  <2> QED
    BY <1>8, <2>1 DEF Pop
<1>9. CASE SendPrompt
  BY <1>9 DEF SendPrompt, Doomed
<1>10. CASE AgentAnswers \/ AbandonAgent
  BY <1>10 DEF AgentAnswers, AbandonAgent, EndTurn
<1>11. CASE AgentDies \/ \E t \in Requests : AgentStops(t)
  BY <1>11 DEF AgentDies, AgentStops
<1>12. CASE UNCHANGED vars
  BY <1>12 DEF vars
<1> QED
  BY <1>1, <1>2, <1>3, <1>4, <1>5, <1>6, <1>7, <1>8, <1>9, <1>10, <1>11, <1>12
  DEF Next, Runner, Watcher, Finished

(* Only a turn's end takes it from the runner, and it closes done.         *)
LEMMA QueuePreserved == IInv /\ [Next]_vars => QueueInv'
<1> SUFFICES ASSUME IInv, [Next]_vars PROVE QueueInv'
  OBVIOUS
<1> USE NoneIsNoRequest
    DEF IInv, TypeOK, QueueInv, QueuedWait, CurrentWaits, DoneWaited, WaitersAreHeld,
        handlerVars, runnerVars, agentVars
<1>1. ASSUME NEW r \in Requests, Arrive(r) PROVE QueueInv'
  BY <1>1 DEF Arrive, Goto
<1>2. ASSUME NEW r \in Requests, GetOrCreate(r) PROVE QueueInv'
  <2>1. pc[r] = "create" /\ (Goto(r, "ready") \/ Goto(r, "returned"))
    BY <1>2 DEF GetOrCreate, HandlerReturns
  <2>2. UNCHANGED <<queue, current, done>>
    BY <1>2 DEF GetOrCreate
  <2>3. \E stage \in {"ready", "returned"} : pc' = [pc EXCEPT ![r] = stage]
    BY <2>1 DEF Goto
  <2>4. r \notin ToSet(queue) \cup {current} \cup done
    BY <2>1
  <2> QED
    BY <2>2, <2>3, <2>4
<1>3. ASSUME NEW r \in Requests, Push(r) PROVE QueueInv'
  <2>1. ToSet(queue') = ToSet(queue) \cup {r}
    BY <1>3, AppendElements DEF Push
  <2> QED
    BY <1>3, <2>1 DEF Push, Goto
<1>4. ASSUME NEW r \in Requests, Return(r) PROVE QueueInv'
  BY <1>4 DEF Return, HandlerReturns, Goto
<1>5. CASE Pop
  <2>1. /\ current' \in Requests /\ current = None
        /\ ToSet(queue) = ToSet(queue') \cup {current'}
    BY <1>5, TailElements DEF Pop
  <2>2. pc' = pc /\ done' = done
    BY <1>5 DEF Pop
  <2> QED
    BY <2>1, <2>2
<1>6. CASE AgentAnswers \/ AbandonAgent
  <2>1. /\ current \in Requests \ ToSet(queue) /\ current # None
        /\ done' = done \cup {current} /\ current' = None
        /\ queue' = queue /\ pc' = pc
    BY <1>6 DEF AgentAnswers, AbandonAgent, EndTurn
  <2> QED
    BY <2>1
<1>7. CASE UNCHANGED <<pc, queue, current, done>>
  BY <1>7
<1>8. ASSUME NEW r \in Requests, ClientLeaves(r) \/ Watcher(r)
      PROVE  UNCHANGED <<pc, queue, current, done>>
  BY <1>8 DEF ClientLeaves, Watcher, Watch, Cancel
<1>9. CASE SendPrompt \/ AgentDies \/ (\E t \in Requests : AgentStops(t)) \/ UNCHANGED vars
  BY <1>7, <1>9 DEF SendPrompt, AgentDies, AgentStops, vars
<1> QED
  BY <1>1, <1>2, <1>3, <1>4, <1>5, <1>6, <1>7, <1>8, <1>9 DEF Next, Runner, Finished

(* A context that is cancelled wakes its watcher, and a watcher that comes *)
(* to its select looks first.                                              *)
LEMMA WatchPreserved == IInv /\ [Next]_vars => WatchInv'
<1> SUFFICES ASSUME IInv, [Next]_vars PROVE WatchInv'
  OBVIOUS
<1> USE DEF IInv, TypeOK, WatchInv, ReturnedAreGone, WatcherSaw, NoWatcherSleeps,
        handlerVars, runnerVars, agentVars
<1>1. ASSUME NEW r \in Requests, Arrive(r) PROVE WatchInv'
  BY <1>1 DEF Arrive, Goto
<1>2. ASSUME NEW r \in Requests, ClientLeaves(r) PROVE WatchInv'
  BY <1>2 DEF ClientLeaves
<1>3. ASSUME NEW r \in Requests, HandlerReturns(r) PROVE WatchInv'
  BY <1>3 DEF HandlerReturns, Goto
<1>4. ASSUME NEW r \in Requests, Push(r) PROVE WatchInv'
  BY <1>4 DEF Push, Goto
<1>5. ASSUME NEW r \in Requests, GetOrCreate(r) PROVE WatchInv'
  BY <1>3, <1>5 DEF GetOrCreate, Goto
<1>6. ASSUME NEW r \in Requests, Return(r) PROVE WatchInv'
  BY <1>3, <1>6 DEF Return
<1>7. ASSUME NEW r \in Requests, Watch(r) PROVE WatchInv'
  BY <1>7 DEF Watch
<1>8. ASSUME NEW r \in Requests, Cancel(r) PROVE WatchInv'
  BY <1>8 DEF Cancel
<1>9. CASE UNCHANGED <<pc, watch, gone>>
  BY <1>9
<1>10. CASE Runner \/ AgentDies \/ AgentAnswers \/ (\E t \in Requests : AgentStops(t)) \/ UNCHANGED vars
  BY <1>9, <1>10 DEF Runner, Pop, SendPrompt, AbandonAgent, AgentDies, AgentAnswers, AgentStops,
     EndTurn, vars
<1> QED
  BY <1>1, <1>2, <1>4, <1>5, <1>6, <1>7, <1>8, <1>10 DEF Next, Watcher, Finished

(* The turn that ends before the agent has answered is that of a leaver.   *)
LEMMA AgentPreserved == IInv /\ [Next]_vars => AgentInv'
<1> SUFFICES ASSUME IInv, [Next]_vars PROVE AgentInv'
  OBVIOUS
<1> USE NoneIsNoRequest DEF IInv, TypeOK, AgentInv, WorkIsAbandoned, OnlyLeaversCancel,
        handlerVars, runnerVars, agentVars
<1>1. CASE UNCHANGED <<current, phase, done, working, told>> /\ gone \subseteq gone'
  BY <1>1
<1>2. ASSUME NEW r \in Requests, Arrive(r) \/ ClientLeaves(r) \/ Push(r) \/ Watch(r)
      PROVE  AgentInv'
  BY <1>1, <1>2 DEF Arrive, ClientLeaves, Push, Watch
<1>3. ASSUME NEW r \in Requests, GetOrCreate(r) \/ Return(r) PROVE AgentInv'
  BY <1>1, <1>3 DEF GetOrCreate, Return, HandlerReturns
<1>4. ASSUME NEW r \in Requests, Cancel(r) PROVE AgentInv'
  <2>1. r \in gone /\ told' \subseteq told \cup ({r} \X working)
    BY <1>4 DEF Cancel, WatchInv, WatcherSaw
  <2> QED
    BY <1>4, <2>1 DEF Cancel
<1>5. CASE Pop
  <2>1. current' \in ToSet(queue) /\ current' \notin done /\ current = None
    BY <1>5, TailElements DEF Pop, QueueInv, QueuedWait
  <2>2. UNCHANGED <<done, working, told, gone>> /\ phase = "pop"
    BY <1>5 DEF Pop
  <2> QED
    BY <2>1, <2>2
<1>6. CASE SendPrompt
  <2>1. /\ phase' = "prompt" /\ UNCHANGED <<current, done, told, gone>>
        /\ working' \subseteq working \cup {current}
    BY <1>6 DEF SendPrompt
  <2> QED
    BY <2>1
<1>7. CASE AgentAnswers
  <2>1. /\ working' = working \ {current} /\ current' = None
        /\ done' = done \cup {current} /\ UNCHANGED <<told, gone>>
    BY <1>7 DEF AgentAnswers, EndTurn
  <2> QED
    BY <2>1
<1>8. CASE AbandonAgent
  <2>1. /\ UNCHANGED <<working, told, gone>> /\ current' = None /\ current \in Requests
        /\ done' = done \cup {current} /\ (current \in gone \/ working = {})
    BY <1>8 DEF AbandonAgent, EndTurn, Doomed
  <2> QED
    BY <2>1
<1>9. CASE AgentDies \/ \E t \in Requests : AgentStops(t)
  BY <1>9 DEF AgentDies, AgentStops
<1>10. CASE UNCHANGED vars
  BY <1>1, <1>10 DEF vars
<1> QED
  BY <1>2, <1>3, <1>4, <1>5, <1>6, <1>7, <1>8, <1>9, <1>10
  DEF Next, Runner, Watcher, Finished

LEMMA Invariance == Spec => []IInv
<1>1. IInv /\ [Next]_vars => IInv'
  BY TypePreserved, QueuePreserved, WatchPreserved, AgentPreserved DEF IInv
<1> QED
  BY <1>1, InitIInv, PTL DEF Spec

-----------------------------------------------------------------------------
(* The turns of clients that leave are turns of the same service that      *)
(* SessionQueue implements, without reactions or an eviction.              *)

FateOf(r) ==
  IF r \in done THEN "served"
  ELSE IF pc[r] # "wait" THEN "new"
  ELSE IF r = current THEN "serving" ELSE "waiting"

Service == INSTANCE TurnService WITH
  Prompts <- Requests,
  Reactions <- {},
  NoTurn <- None,
  line <- queue,
  serving <- current,
  fate <- [r \in Requests |-> FateOf(r)],
  closed <- FALSE

(* A client that leaves neither jumps the line nor falls out of it, and    *)
(* one turn is served at a time.                                           *)
ImplementsTurnService == Service!Spec

LEMMA InitSimulates == Init => Service!Init
BY DEF Init, Service!Init, Service!Turns, FateOf

LEMMA NextSimulates == IInv /\ [Next]_vars => [Service!Next]_(Service!vars)
<1> SUFFICES ASSUME IInv, [Next]_vars PROVE [Service!Next]_(Service!vars)
  OBVIOUS
<1> USE NoneIsNoRequest DEF IInv, TypeOK, QueueInv, QueuedWait, CurrentWaits, DoneWaited,
        handlerVars, runnerVars, agentVars
<1>0. CASE UNCHANGED <<queue, current>> /\ \A q \in Requests : FateOf(q)' = FateOf(q)
  BY <1>0 DEF Service!vars
<1>1. ASSUME NEW r \in Requests, Push(r) PROVE Service!Accept(r)
  <2>1. /\ pc[r] = "ready" /\ queue' = Append(queue, r) /\ pc' = [pc EXCEPT ![r] = "wait"]
        /\ UNCHANGED <<current, done>>
    BY <1>1 DEF Push, Goto
  <2>2. FateOf(r) = "new" /\ FateOf(r)' = "waiting"
    BY <2>1 DEF FateOf
  <2>3. \A q \in Requests \ {r} : FateOf(q)' = FateOf(q)
    BY <2>1 DEF FateOf
  <2> QED
    BY <2>1, <2>2, <2>3 DEF Service!Accept
<1>2. CASE Pop
  <2>1. /\ current = None /\ queue # <<>> /\ current' = Head(queue) /\ queue' = Tail(queue)
        /\ UNCHANGED <<pc, done>>
    BY <1>2 DEF Pop
  <2>2. /\ Head(queue) \in Requests
        /\ pc[Head(queue)] = "wait" /\ Head(queue) \notin done
    BY <2>1, TailElements
  <2>3. \A q \in Requests : FateOf(q)' = IF q = Head(queue) THEN "serving" ELSE FateOf(q)
    BY <2>1, <2>2 DEF FateOf
  <2>4. [r \in Requests |-> FateOf(r)]' = [[r \in Requests |-> FateOf(r)] EXCEPT ![Head(queue)] = "serving"]
    BY ONLY <2>2, <2>3
  <2> QED
    BY ONLY <2>1, <2>4 DEF Service!Next, Service!Start
<1>3. CASE AgentAnswers \/ AbandonAgent
  <2>1. /\ current # None /\ current \in Requests /\ done' = done \cup {current} /\ current' = None
        /\ UNCHANGED <<pc, queue>>
    BY <1>3 DEF AgentAnswers, AbandonAgent, EndTurn
  <2>2. FateOf(current) = "serving" /\ \A q \in Requests :
          FateOf(q)' = IF q = current THEN "served" ELSE FateOf(q)
    BY <2>1 DEF FateOf
  <2> QED
    BY <2>1, <2>2 DEF Service!Next, Service!Served
<1>4. CASE UNCHANGED <<pc, queue, current, done>>
  BY <1>0, <1>4 DEF FateOf
<1>5. ASSUME NEW r \in Requests, Arrive(r) \/ GetOrCreate(r) \/ Return(r)
      PROVE  UNCHANGED <<queue, current>> /\ \A q \in Requests : FateOf(q)' = FateOf(q)
  <2>1. /\ UNCHANGED <<queue, current, done>>
        /\ \E stage \in {"create", "ready", "returned"} : pc' = [pc EXCEPT ![r] = stage]
        /\ pc[r] # "wait" \/ r \in done
    BY <1>5 DEF Arrive, GetOrCreate, Return, HandlerReturns, Goto
  <2> QED
    BY <2>1 DEF FateOf
<1>6. ASSUME NEW r \in Requests, ClientLeaves(r) \/ Watcher(r)
      PROVE  UNCHANGED <<pc, queue, current, done>>
  BY <1>6 DEF ClientLeaves, Watcher, Watch, Cancel
<1>7. CASE SendPrompt \/ AgentDies \/ (\E t \in Requests : AgentStops(t)) \/ UNCHANGED vars
  BY <1>4, <1>7 DEF SendPrompt, AgentDies, AgentStops, vars
<1> QED
  BY <1>0, <1>1, <1>2, <1>3, <1>4, <1>5, <1>6, <1>7
  DEF Next, Runner, Finished, Service!Next, Service!Turns

-----------------------------------------------------------------------------
(* Theorems.                                                               *)

(* Every variable keeps its type; in particular a request is queued once,  *)
(* and not while the runner holds it.                                      *)
THEOREM TypeCorrect == Spec => []TypeOK
<1>1. IInv => TypeOK
  BY DEF IInv
<1> QED
  BY <1>1, Invariance, PTL

(* Router.Prompt: whoever waits for done is in the queue, with the runner, *)
(* or released; no departure, failure or death of the agent loses a turn.  *)
THEOREM NobodyForgotten == Spec => []WaitersAreHeld
<1>1. IInv => WaitersAreHeld
  BY DEF IInv, QueueInv
<1> QED
  BY <1>1, Invariance, PTL

(* handleQuery's goroutine: none stays in its select once the context it   *)
(* watches is cancelled.                                                   *)
THEOREM WatchersWake == Spec => []NoWatcherSleeps
<1>1. IInv => NoWatcherSleeps
  BY DEF IInv, WatchInv
<1> QED
  BY <1>1, Invariance, PTL

(* The runner: of the clients still there the agent works for one at most, *)
(* that of the turn that runs.                                             *)
THEOREM OneAtATime == Spec => []AgentServesOne
<1>1. IInv => AgentServesOne
  BY DEF IInv, AgentInv, WorkIsAbandoned, AgentServesOne
<1> QED
  BY <1>1, Invariance, PTL

(* Router.Cancel names no turn: a cancel may meet another client's prompt, *)
(* but of the clients still there only that of the turn that runs.         *)
THEOREM CancelReach == Spec => CancelsReach
<1>1. ASSUME IInv, [Next]_vars, NEW c \in Requests, NEW t \in Requests,
             <<c, t>> \in told', <<c, t>> \notin told
      PROVE  c \in gone /\ (t = current \/ t \in gone)
  <2>1. told' # told
    BY <1>1
  <2>2. PICK r \in Requests : Cancel(r)
    BY <1>1, <2>1
    DEF Next, Runner, Watcher, Finished, vars, handlerVars, runnerVars, agentVars, Arrive,
        ClientLeaves, GetOrCreate, Push, Return, Watch, Pop, SendPrompt, AbandonAgent, EndTurn,
        AgentAnswers, AgentDies, AgentStops
  <2>3. r \in gone /\ told' \subseteq told \cup ({r} \X working)
    BY <1>1, <2>2 DEF Cancel, IInv, WatchInv, WatcherSaw
  <2>4. c = r /\ t \in working
    BY <1>1, <2>3
  <2> QED
    BY <1>1, <2>3, <2>4 DEF IInv, AgentInv, WorkIsAbandoned
<1>2. IInv /\ [Next]_vars =>
        [\A c, t \in Requests : <<c, t>> \in told' /\ <<c, t>> \notin told =>
           c \in gone /\ (t = current \/ t \in gone)]_vars
  BY <1>1
<1> QED
  BY <1>2, Invariance, PTL DEF Spec, CancelsReach

(* The handlers, the runner and an agent that may hang or die serve every  *)
(* conversation as TurnService says.                                       *)
THEOREM Refinement == Spec => ImplementsTurnService
BY Invariance, InitSimulates, NextSimulates, PTL
   DEF Spec, Service!Spec, ImplementsTurnService
=============================================================================
