-------------------------- MODULE TurnStreamProofs --------------------------
(***************************************************************************)
(* SessionQueue, for every set of turns and every cap, and then TurnStream *)
(* on top of it, for every set of turns, capacities and numbers of chunks: *)
(* the queue implements TurnService, and the drain, the agent and the      *)
(* notifications disturb nothing it promises; a turn's sink gets what was  *)
(* streamed for it, in order, and nothing once the turn is over.           *)
(***************************************************************************)
EXTENDS TurnStream, SequenceTheorems, TLAPS

-----------------------------------------------------------------------------
(* What Append, Tail and RemoveAt do to the elements of a queue and to the *)
(* absence of duplicates in it.                                            *)

(* RemoveAt, index by index.                                               *)
LEMMA RemoveAtProperties ==
  ASSUME NEW S, NEW s \in Seq(S), NEW i \in 1..Len(s)
  PROVE  /\ RemoveAt(s, i) \in Seq(S)
         /\ Len(RemoveAt(s, i)) = Len(s) - 1
         /\ \A j \in 1..(Len(s) - 1) :
              RemoveAt(s, i)[j] = IF j < i THEN s[j] ELSE s[j + 1]
<1> DEFINE a == SubSeq(s, 1, i - 1)
           b == SubSeq(s, i + 1, Len(s))
<1>1. a \in Seq(S) /\ Len(a) = i - 1 /\ \A j \in 1..(i - 1) : a[j] = s[j]
  BY SubSeqProperties
<1>2. b \in Seq(S) /\ Len(b) = Len(s) - i /\ \A j \in 1..(Len(s) - i) : b[j] = s[i + j]
  BY SubSeqProperties
<1> HIDE DEF a, b
<1>3. /\ a \o b \in Seq(S)
      /\ Len(a \o b) = Len(a) + Len(b)
      /\ \A j \in 1..(Len(a) + Len(b)) :
           (a \o b)[j] = IF j <= Len(a) THEN a[j] ELSE b[j - Len(a)]
  BY <1>1, <1>2, ConcatProperties
<1>4. a \o b \in Seq(S) /\ Len(a \o b) = Len(s) - 1
  BY <1>1, <1>2, <1>3
<1>5. \A j \in 1..(Len(s) - 1) : (a \o b)[j] = IF j < i THEN s[j] ELSE s[j + 1]
  BY <1>1, <1>2, <1>3
<1> QED BY <1>4, <1>5 DEF RemoveAt, a, b

(* The empty queue.                                                        *)
LEMMA EmptyElements ==
  /\ ToSet(<<>>) = {} /\ IsInjective(<<>>) /\ Len(<<>>) = 0
  /\ \A S : <<>> \in Seq(S)
BY DEF ToSet, IsInjective

(* Appending a new element to a queue without duplicates.                  *)
LEMMA AppendElements ==
  ASSUME NEW S, NEW s \in Seq(S), NEW e \in S
  PROVE  /\ Append(s, e) \in Seq(S)
         /\ Len(Append(s, e)) = Len(s) + 1
         /\ ToSet(Append(s, e)) = ToSet(s) \cup {e}
         /\ IsInjective(s) /\ e \notin ToSet(s) => IsInjective(Append(s, e))
<1> DEFINE a == Append(s, e)
<1>1. /\ a \in Seq(S) /\ Len(a) = Len(s) + 1
      /\ \A i \in 1..Len(s) : a[i] = s[i]
      /\ a[Len(s) + 1] = e
  OBVIOUS
<1>2. DOMAIN s = 1..Len(s) /\ DOMAIN a = 1..(Len(s) + 1) /\ Len(s) \in Nat
  BY <1>1
<1> HIDE DEF a
<1>3. ToSet(a) = ToSet(s) \cup {e}
  BY <1>1, <1>2 DEF ToSet
<1>4. ASSUME IsInjective(s), e \notin ToSet(s)
      PROVE  IsInjective(a)
  BY <1>1, <1>2, <1>4 DEF ToSet, IsInjective
<1> QED BY <1>1, <1>3, <1>4 DEF a

(* Taking the first element of a queue without duplicates.                 *)
LEMMA TailElements ==
  ASSUME NEW S, NEW s \in Seq(S), s # <<>>
  PROVE  /\ Head(s) \in S /\ Head(s) \in ToSet(s)
         /\ Tail(s) \in Seq(S)
         /\ Len(s) \in Nat /\ Len(Tail(s)) = Len(s) - 1
         /\ ToSet(s) = ToSet(Tail(s)) \cup {Head(s)}
         /\ IsInjective(s) => IsInjective(Tail(s)) /\ Head(s) \notin ToSet(Tail(s))
<1> DEFINE t == Tail(s)
<1>1. /\ t \in Seq(S) /\ Len(t) = Len(s) - 1 /\ Len(s) \in Nat \ {0}
      /\ \A i \in 1..(Len(s) - 1) : t[i] = s[i + 1]
      /\ Head(s) = s[1] /\ Head(s) \in S
  BY HeadTailProperties, EmptySeq
<1>2. DOMAIN s = 1..Len(s) /\ DOMAIN t = 1..(Len(s) - 1)
  BY <1>1
<1> HIDE DEF t
<1>3. Head(s) \in ToSet(s)
  BY <1>1, <1>2 DEF ToSet
<1>4. ToSet(s) = ToSet(t) \cup {Head(s)}
  <2>1. ASSUME NEW i \in 1..Len(s)
        PROVE  s[i] \in ToSet(t) \cup {Head(s)}
    <3>1. CASE i = 1
      BY <3>1, <1>1
    <3>2. CASE i # 1
      <4>1. i - 1 \in 1..(Len(s) - 1) /\ t[i - 1] = s[i]
        BY <3>2, <1>1
      <4> QED BY <4>1, <1>2 DEF ToSet
    <3> QED BY <3>1, <3>2
  <2>2. ASSUME NEW i \in 1..(Len(s) - 1)
        PROVE  t[i] \in ToSet(s)
    <3>1. i + 1 \in 1..Len(s) /\ t[i] = s[i + 1]
      BY <1>1
    <3> QED BY <3>1, <1>2 DEF ToSet
  <2> QED BY <2>1, <2>2, <1>2, <1>3 DEF ToSet
<1>5. ASSUME IsInjective(s)
      PROVE  IsInjective(t) /\ Head(s) \notin ToSet(t)
  <2>1. \A i, j \in 1..Len(s) : s[i] = s[j] => i = j
    BY <1>2, <1>5 DEF IsInjective
  <2>2. ASSUME NEW i \in 1..(Len(s) - 1)
        PROVE  /\ t[i] # Head(s)
               /\ \A j \in 1..(Len(s) - 1) : t[i] = t[j] => i = j
    <3>1. i + 1 \in 1..Len(s) /\ 1 \in 1..Len(s) /\ i + 1 # 1
      BY <1>1
    <3>2. t[i] # Head(s)
      BY <3>1, <2>1, <1>1
    <3>3. ASSUME NEW j \in 1..(Len(s) - 1), t[i] = t[j]
          PROVE  i = j
      <4>1. j + 1 \in 1..Len(s) /\ s[i + 1] = s[j + 1]
        BY <3>3, <1>1
      <4>2. i + 1 = j + 1
        BY <4>1, <3>1, <2>1
      <4> QED BY <4>2, <1>1
    <3> QED BY <3>2, <3>3
  <2> QED BY <2>2, <1>2 DEF ToSet, IsInjective
<1> QED BY <1>1, <1>3, <1>4, <1>5 DEF t

(* Removing an element from the middle of a queue without duplicates.      *)
LEMMA RemoveAtElements ==
  ASSUME NEW S, NEW s \in Seq(S), NEW i \in 1..Len(s), IsInjective(s)
  PROVE  /\ RemoveAt(s, i) \in Seq(S)
         /\ Len(RemoveAt(s, i)) = Len(s) - 1
         /\ ToSet(RemoveAt(s, i)) = ToSet(s) \ {s[i]}
         /\ IsInjective(RemoveAt(s, i))
<1> DEFINE r == RemoveAt(s, i)
<1>1. /\ r \in Seq(S) /\ Len(r) = Len(s) - 1
      /\ \A j \in 1..(Len(s) - 1) : r[j] = IF j < i THEN s[j] ELSE s[j + 1]
  BY RemoveAtProperties
<1>2. DOMAIN s = 1..Len(s) /\ DOMAIN r = 1..(Len(s) - 1) /\ Len(s) \in Nat
  BY <1>1
<1> HIDE DEF r
<1>3. ASSUME NEW j \in 1..Len(s), j # i
      PROVE  s[j] \in ToSet(r)
  <2>1. CASE j < i
    BY <2>1, <1>1, <1>2 DEF ToSet
  <2>2. CASE j > i
    <3>1. j - 1 \in 1..(Len(s) - 1) /\ r[j - 1] = s[j]
      BY <2>2, <1>1
    <3> QED BY <3>1, <1>2 DEF ToSet
  <2> QED BY <2>1, <2>2, <1>3
<1>4. ASSUME NEW j \in 1..(Len(s) - 1)
      PROVE  r[j] \in ToSet(s) \ {s[i]}
  <2>1. PICK k \in 1..Len(s) : r[j] = s[k] /\ k # i
    <3>1. CASE j < i
      BY <3>1, <1>1
    <3>2. CASE ~(j < i)
      <4>1. j + 1 \in 1..Len(s) /\ j + 1 # i /\ r[j] = s[j + 1]
        BY <3>2, <1>1
      <4> QED BY <4>1
    <3> QED BY <3>1, <3>2
  <2> QED BY <2>1, <1>2 DEF ToSet, IsInjective
<1>5. ToSet(r) = ToSet(s) \ {s[i]}
  BY <1>2, <1>3, <1>4 DEF ToSet
<1>6. IsInjective(r)
  <2>1. \A j, k \in 1..Len(s) : s[j] = s[k] => j = k
    BY <1>2 DEF IsInjective
  <2> DEFINE from(j) == IF j < i THEN j ELSE j + 1
  <2>2. ASSUME NEW j \in 1..(Len(s) - 1)
        PROVE  from(j) \in 1..Len(s) /\ r[j] = s[from(j)]
    BY <1>1
  <2>3. ASSUME NEW j \in 1..(Len(s) - 1), NEW k \in 1..(Len(s) - 1), r[j] = r[k]
        PROVE  j = k
    <3>1. from(j) = from(k)
      <4> HIDE DEF from
      <4> QED BY <2>1, <2>2, <2>3
    <3> QED BY <3>1
  <2> QED BY <2>3, <1>2 DEF IsInjective
<1> QED BY <1>1, <1>5, <1>6 DEF r

-----------------------------------------------------------------------------
(* The inductive invariant.                                                *)

(* No turn is in two places, or twice in one.                              *)
NothingTwice ==
  /\ IsInjective(q) /\ IsInjective(pending)
  /\ ToSet(q) \cap ToSet(pending) = {}
  /\ current \notin ToSet(q) \cup ToSet(pending)

(* A turn push did not accept, or whose channel is open, is not shed, and  *)
(* only an accepted turn's channel is closed.                              *)
ShedIsFinal ==
  \A t \in Turns : /\ submit[t] # "accepted" => done[t] = 0
                   /\ done[t] = 0 => t \notin shed

(* Where eviction stands.                                                  *)
EvictionStage ==
  /\ stopped <=> gc \in {"shed", "evicted"}
  /\ stopped => q = <<>>
  /\ gc # "shed" => pending = <<>>

(* EveryTurnAccounted and DoneClosedOnce say nothing of a turn's being     *)
(* held twice, and then it would be closed twice: the invariant needs the  *)
(* three parts above beside the properties themselves.                     *)
IInv ==
  /\ TypeOK
  /\ NothingTwice
  /\ ShedIsFinal
  /\ EvictionStage
  /\ EveryTurnAccounted
  /\ DoneClosedOnce
  /\ PromptsShedOnlyByEviction
  /\ OnlyPromptsExceedCap
  /\ WakeupPending


LEMMA InitIInv == Init => IInv
<1> SUFFICES ASSUME Init
             PROVE  IInv
  OBVIOUS
<1> USE EmptyElements, TurnKinds, CapIsPositive DEF Init, Turns
<1>1. TypeOK
  BY DEF TypeOK
<1>2. NothingTwice /\ ShedIsFinal /\ EvictionStage
  BY DEF NothingTwice, ShedIsFinal, EvictionStage
<1>3. EveryTurnAccounted /\ DoneClosedOnce
  BY DEF EveryTurnAccounted, Held, DoneClosedOnce
<1>4. PromptsShedOnlyByEviction /\ OnlyPromptsExceedCap /\ WakeupPending
  BY DEF PromptsShedOnlyByEviction, OnlyPromptsExceedCap, WakeupPending
<1> QED BY <1>1, <1>2, <1>3, <1>4 DEF IInv

(* Appending a new turn to what is left of the queue.                      *)
LEMMA PushIInv ==
  ASSUME IInv, NEW t \in Turns, Push(t)
  PROVE  IInv'
<1> USE TurnKinds, CapIsPositive
<1>1. /\ q \in Seq(Turns) /\ IsInjective(q) /\ t \notin ToSet(q)
      /\ t \notin ToSet(pending) /\ t # current /\ submit[t] = "new"
  BY DEF IInv, TypeOK, NothingTwice, EveryTurnAccounted, Held, Push, PushRoom,
         PushShedding, PushPastCap, PushRefused
<1>2. CASE PushRoom(t)
  <2>1. /\ q' \in Seq(Turns) /\ Len(q') = Len(q) + 1
        /\ ToSet(q') = ToSet(q) \cup {t} /\ IsInjective(q')
    BY <1>1, <1>2, AppendElements DEF PushRoom, Enqueue
  <2>2. TypeOK' /\ NothingTwice' /\ ShedIsFinal' /\ EvictionStage'
    BY <1>1, <1>2, <2>1 DEF IInv, TypeOK, NothingTwice, ShedIsFinal, EvictionStage,
       PushRoom, Enqueue, turnVars, runnerVars, gcVars
  <2>3. EveryTurnAccounted' /\ DoneClosedOnce'
    BY <1>1, <1>2, <2>1 DEF IInv, TypeOK, EveryTurnAccounted, ShedIsFinal, Held, DoneClosedOnce,
       PushRoom, Enqueue, turnVars, runnerVars, gcVars
  <2>4. PromptsShedOnlyByEviction' /\ OnlyPromptsExceedCap' /\ WakeupPending'
    BY <1>1, <1>2, <2>1 DEF IInv, TypeOK, PromptsShedOnlyByEviction, OnlyPromptsExceedCap,
       WakeupPending, Full, PushRoom, Enqueue, turnVars, runnerVars, gcVars
  <2> QED BY <2>2, <2>3, <2>4 DEF IInv
<1>3. ASSUME NEW i \in 1..Len(q), PushShedding(t, i)
      PROVE  IInv'
  <2> DEFINE r == RemoveAt(q, i)
  <2>1. /\ r \in Seq(Turns) /\ Len(r) = Len(q) - 1 /\ IsInjective(r)
        /\ ToSet(r) = ToSet(q) \ {q[i]} /\ q[i] \in ToSet(q) /\ Len(q) \in Nat
    <3>1. Len(q) \in Nat /\ DOMAIN q = 1..Len(q)
      BY <1>1
    <3>2. q[i] \in ToSet(q)
      BY <3>1 DEF ToSet
    <3> QED BY <1>1, <3>1, <3>2, RemoveAtElements
  <2>2. q' = Append(r, t) /\ q[i] \in Reactions
    BY <1>3 DEF PushShedding, Enqueue, OldestReaction
  <2> HIDE DEF r
  <2>3. /\ q' \in Seq(Turns) /\ Len(q') = Len(q)
        /\ ToSet(q') = (ToSet(q) \ {q[i]}) \cup {t} /\ IsInjective(q')
    BY <1>1, <2>1, <2>2, AppendElements
  <2>4. TypeOK' /\ NothingTwice' /\ ShedIsFinal' /\ EvictionStage'
    BY <1>1, <1>3, <2>1, <2>2, <2>3 DEF IInv, TypeOK, NothingTwice, ShedIsFinal, EvictionStage,
       EveryTurnAccounted, Held,
       PushShedding, Enqueue, CloseDone, runnerVars, gcVars
  <2>5. EveryTurnAccounted' /\ DoneClosedOnce'
    BY <1>1, <1>3, <2>1, <2>2, <2>3 DEF IInv, TypeOK, EveryTurnAccounted, ShedIsFinal, NothingTwice,
       Held, DoneClosedOnce, PushShedding, Enqueue, CloseDone, runnerVars, gcVars
  <2>6. PromptsShedOnlyByEviction' /\ OnlyPromptsExceedCap' /\ WakeupPending'
    BY <1>1, <1>3, <2>1, <2>2, <2>3 DEF IInv, TypeOK, PromptsShedOnlyByEviction, OnlyPromptsExceedCap,
       WakeupPending, NoReactionQueued, PushShedding, Enqueue, CloseDone, runnerVars, gcVars
  <2> QED BY <2>4, <2>5, <2>6 DEF IInv
<1>4. CASE PushPastCap(t)
  <2>1. /\ q' \in Seq(Turns) /\ Len(q') = Len(q) + 1
        /\ ToSet(q') = ToSet(q) \cup {t} /\ IsInjective(q')
    BY <1>1, <1>4, AppendElements DEF PushPastCap, Enqueue
  <2>2. TypeOK' /\ NothingTwice' /\ ShedIsFinal' /\ EvictionStage'
    BY <1>1, <1>4, <2>1 DEF IInv, TypeOK, NothingTwice, ShedIsFinal, EvictionStage,
       PushPastCap, Enqueue, turnVars, runnerVars, gcVars
  <2>3. EveryTurnAccounted' /\ DoneClosedOnce'
    BY <1>1, <1>4, <2>1 DEF IInv, TypeOK, EveryTurnAccounted, ShedIsFinal, Held, DoneClosedOnce,
       PushPastCap, Enqueue, turnVars, runnerVars, gcVars
  <2>4. PromptsShedOnlyByEviction' /\ OnlyPromptsExceedCap' /\ WakeupPending'
    BY <1>1, <1>4, <2>1 DEF IInv, TypeOK, PromptsShedOnlyByEviction, OnlyPromptsExceedCap,
       NoReactionQueued, WakeupPending, PushPastCap, Enqueue, turnVars, runnerVars, gcVars
  <2> QED BY <2>2, <2>3, <2>4 DEF IInv
<1>5. CASE PushRefused(t)
  BY <1>1, <1>5 DEF IInv, TypeOK, NothingTwice, ShedIsFinal, EvictionStage, EveryTurnAccounted,
     Held, DoneClosedOnce, PromptsShedOnlyByEviction, OnlyPromptsExceedCap, NoReactionQueued,
     WakeupPending, PushRefused, turnVars, runnerVars, gcVars
<1> QED BY <1>2, <1>3, <1>4, <1>5 DEF Push

(* The runner takes turns from the queue's front, waits, and finishes.     *)
LEMMA RunnerIInv ==
  ASSUME IInv, Runner
  PROVE  IInv'
<1> USE TurnKinds, CapIsPositive
<1>1. CASE Pop
  <2>1. /\ Head(q) \in Turns /\ Head(q) \in ToSet(q) /\ Tail(q) \in Seq(Turns)
        /\ Len(q) \in Nat /\ Len(Tail(q)) = Len(q) - 1
        /\ ToSet(q) = ToSet(Tail(q)) \cup {Head(q)}
        /\ IsInjective(Tail(q)) /\ Head(q) \notin ToSet(Tail(q))
    BY <1>1, TailElements DEF IInv, TypeOK, NothingTwice, Pop
  <2>2. TypeOK' /\ NothingTwice' /\ ShedIsFinal' /\ EvictionStage'
    BY <1>1, <2>1 DEF IInv, TypeOK, NothingTwice, ShedIsFinal, EvictionStage,
       Pop, turnVars, gcVars
  <2>3. EveryTurnAccounted' /\ DoneClosedOnce'
    <3>1. current = NoTurn /\ NoTurn \notin Turns
      BY <1>1 DEF IInv, TypeOK, Pop, Turns
    <3>2. \A t \in Turns : Held(t)' <=> Held(t)
      BY <1>1, <2>1, <3>1 DEF Held, Pop, gcVars
    <3> QED BY <1>1, <3>2 DEF IInv, EveryTurnAccounted, DoneClosedOnce, Pop, turnVars
  <2>4. PromptsShedOnlyByEviction' /\ OnlyPromptsExceedCap' /\ WakeupPending'
    BY <1>1, <2>1 DEF IInv, TypeOK, PromptsShedOnlyByEviction, OnlyPromptsExceedCap,
       NoReactionQueued, WakeupPending, Pop, turnVars, gcVars
  <2> QED BY <2>2, <2>3, <2>4 DEF IInv
<1>2. CASE FindEmpty \/ SelectNotify \/ SelectStop \/ FinishInFlight
  <2>1. UNCHANGED <<q, pending, submit, done, shed, current, stopped, gc, runStop>>
    BY <1>2 DEF FindEmpty, SelectNotify, SelectStop, FinishInFlight,
       queueVars, turnVars, gcVars
  <2>3. TypeOK'
    <3>1. CASE FindEmpty
      BY <2>1, <3>1 DEF IInv, TypeOK, FindEmpty, queueVars
    <3>2. CASE SelectNotify
      BY <2>1, <3>2 DEF IInv, TypeOK, SelectNotify
    <3>3. CASE SelectStop
      BY <2>1, <3>3 DEF IInv, TypeOK, SelectStop, queueVars
    <3>4. CASE FinishInFlight
      BY <2>1, <3>4 DEF IInv, TypeOK, FinishInFlight, queueVars
    <3> QED BY <1>2, <3>1, <3>2, <3>3, <3>4
  <2>2. WakeupPending'
    BY <1>2 DEF IInv, WakeupPending, FindEmpty, SelectNotify, SelectStop, FinishInFlight,
       queueVars, turnVars, gcVars
  <2> QED BY <2>1, <2>2, <2>3 DEF IInv, NothingTwice, ShedIsFinal, EvictionStage,
          EveryTurnAccounted, Held, DoneClosedOnce, PromptsShedOnlyByEviction,
          OnlyPromptsExceedCap, NoReactionQueued
<1> QED BY <1>1, <1>2 DEF Runner

(* A turn ends: the runner closes the channel of the turn it holds.        *)
LEMMA ExecuteIInv ==
  ASSUME IInv, Execute
  PROVE  IInv'
<1> USE TurnKinds, CapIsPositive
<1>1. /\ runner = "turn" /\ current \in Turns /\ current # NoTurn
      /\ submit[current] = "accepted" /\ done[current] = 0
  BY DEF IInv, TypeOK, EveryTurnAccounted, Held, Execute, DropStale, EndTurn, Turns
<1>2. /\ done' = [done EXCEPT ![current] = @ + 1]
      /\ runner' = "finish" /\ current' = NoTurn
      /\ shed' = shed \/ (current \in Reactions /\ shed' = shed \cup {current})
      /\ UNCHANGED <<q, notify, stopped, submit, inFlight, runStop, gc, pending>>
  BY DEF Execute, DropStale, EndTurn, CloseDone, queueVars, gcVars
<1>3. NoTurn \notin Turns
  BY DEF Turns
<1>4. TypeOK' /\ NothingTwice' /\ ShedIsFinal' /\ EvictionStage'
  <2>1. TypeOK'
    BY <1>1, <1>2 DEF IInv, TypeOK
  <2>2. NothingTwice'
    <3>1. ToSet(q) \subseteq Turns /\ ToSet(pending) \subseteq Turns
      BY DEF IInv, TypeOK, ToSet
    <3> QED BY <1>2, <1>3, <3>1 DEF IInv, NothingTwice
  <2>3. ShedIsFinal' /\ EvictionStage'
    BY <1>1, <1>2 DEF IInv, TypeOK, ShedIsFinal, EvictionStage
  <2> QED BY <2>1, <2>2, <2>3
<1>5. EveryTurnAccounted' /\ DoneClosedOnce'
  BY <1>1, <1>2, <1>3 DEF IInv, TypeOK, NothingTwice, EveryTurnAccounted, Held, DoneClosedOnce
<1>6. PromptsShedOnlyByEviction' /\ OnlyPromptsExceedCap' /\ WakeupPending'
  BY <1>1, <1>2 DEF IInv, PromptsShedOnlyByEviction, OnlyPromptsExceedCap,
     NoReactionQueued, WakeupPending
<1> QED BY <1>4, <1>5, <1>6 DEF IInv

(* Eviction: the queue moves to stop()'s copy as a whole, and the copy's   *)
(* turns are shed one by one.                                              *)
LEMMA CollectorIInv ==
  ASSUME IInv, Collector
  PROVE  IInv'
<1> USE TurnKinds, CapIsPositive
<1>1. CASE GcFindIdle \/ GcCloseRunStop \/ GcForget
  <2>1. UNCHANGED <<q, stopped, notify, submit, done, shed, runner, current, inFlight, pending>>
    BY <1>1 DEF GcFindIdle, GcCloseRunStop, GcForget, queueVars, turnVars, runnerVars
  <2>2. TypeOK' /\ EvictionStage'
    BY <1>1, <2>1 DEF IInv, TypeOK, EvictionStage, GcFindIdle, GcCloseRunStop, GcForget
  <2> QED BY <2>1, <2>2 DEF IInv, NothingTwice, ShedIsFinal,
     EveryTurnAccounted, Held, DoneClosedOnce, PromptsShedOnlyByEviction,
     OnlyPromptsExceedCap, NoReactionQueued, WakeupPending
<1>2. CASE GcStop
  <2>1. pending = <<>> /\ ~stopped
    BY <1>2 DEF IInv, EvictionStage, GcStop
  <2> QED BY <1>2, <2>1, EmptyElements DEF IInv, TypeOK, NothingTwice, ShedIsFinal, EvictionStage,
     EveryTurnAccounted, Held, DoneClosedOnce, PromptsShedOnlyByEviction,
     OnlyPromptsExceedCap, NoReactionQueued, WakeupPending,
     GcStop, turnVars, runnerVars
<1>3. CASE GcShed
  <2> DEFINE h == Head(pending)
  <2>1. /\ h \in Turns /\ h \in ToSet(pending) /\ Tail(pending) \in Seq(Turns)
        /\ ToSet(pending) = ToSet(Tail(pending)) \cup {h}
        /\ IsInjective(Tail(pending)) /\ h \notin ToSet(Tail(pending))
    BY <1>3, TailElements DEF IInv, TypeOK, NothingTwice, GcShed
  <2> HIDE DEF h
  <2>2. /\ shed' = shed \cup {h} /\ done' = [done EXCEPT ![h] = @ + 1]
        /\ pending' = Tail(pending) /\ gc = "shed"
        /\ UNCHANGED <<q, notify, stopped, submit, runner, current, inFlight, gc, runStop>>
    BY <1>3 DEF GcShed, CloseDone, queueVars, runnerVars, h
  <2>3. submit[h] = "accepted" /\ done[h] = 0 /\ h # current /\ h \notin ToSet(q)
    BY <2>1 DEF IInv, NothingTwice, EveryTurnAccounted, Held
  <2>4. TypeOK' /\ NothingTwice' /\ ShedIsFinal' /\ EvictionStage'
    BY <2>1, <2>2, <2>3 DEF IInv, TypeOK, NothingTwice, ShedIsFinal, EvictionStage
  <2>5. EveryTurnAccounted' /\ DoneClosedOnce'
    BY <2>1, <2>2, <2>3 DEF IInv, TypeOK, NothingTwice, EveryTurnAccounted, Held, DoneClosedOnce
  <2>6. PromptsShedOnlyByEviction' /\ OnlyPromptsExceedCap' /\ WakeupPending'
    BY <2>1, <2>2 DEF IInv, EvictionStage, PromptsShedOnlyByEviction, OnlyPromptsExceedCap,
       NoReactionQueued, WakeupPending
  <2> QED BY <2>4, <2>5, <2>6 DEF IInv
<1> QED BY <1>1, <1>2, <1>3 DEF Collector

LEMMA NextIInv == IInv /\ [Next]_vars => IInv'
<1> SUFFICES ASSUME IInv, [Next]_vars
             PROVE  IInv'
  OBVIOUS
<1>1. CASE UNCHANGED vars
  BY <1>1 DEF IInv, TypeOK, NothingTwice, ShedIsFinal, EvictionStage,
     EveryTurnAccounted, Held, DoneClosedOnce, PromptsShedOnlyByEviction,
     OnlyPromptsExceedCap, NoReactionQueued, WakeupPending, vars
<1> QED BY <1>1, PushIInv, RunnerIInv, ExecuteIInv, CollectorIInv DEF Next, Quiescent

THEOREM Invariant == Spec => []IInv
BY InitIInv, NextIInv, PTL DEF Spec

(* The state of the queue, its runner and its collector keeps its shape.   *)
THEOREM TypeCorrect == Spec => []TypeOK
BY Invariant, PTL DEF IInv

(* No interleaving of push, stop and the runner closes a turn's done       *)
(* channel twice.                                                          *)
THEOREM NoDoubleClose == Spec => []DoneClosedOnce
BY Invariant, PTL DEF IInv

(* An accepted turn is always held by whoever is to answer it.             *)
THEOREM NoTurnLost == Spec => []EveryTurnAccounted
BY Invariant, PTL DEF IInv

(* Prompts are never shed to make room or for their age.                   *)
THEOREM PromptsKept == Spec => []PromptsShedOnlyByEviction
BY Invariant, PTL DEF IInv

(* A queue beyond its cap holds prompts only.                              *)
THEOREM ReactionsBounded == Spec => []OnlyPromptsExceedCap
BY Invariant, PTL DEF IInv

(* A runner that sleeps while turns are queued has a wakeup coming.        *)
THEOREM NoLostWakeup == Spec => []WakeupPending
BY Invariant, PTL DEF IInv

-----------------------------------------------------------------------------
(* The queue implements TurnService.                                       *)

fateNow == [t \in Turns |-> FateOf(t)]

(* Where the waiting turns stand, in an open session and in a stopped one. *)
LEMMA LineOf ==
  ASSUME IInv
  PROVE  /\ pending = <<>> => q \o pending = q
         /\ q = <<>> => q \o pending = pending
         /\ ~stopped => pending = <<>>
         /\ stopped => q = <<>>
BY ConcatEmptySeq DEF IInv, TypeOK, EvictionStage

(* A step that changes the fate of one turn only.                          *)
LEMMA FateStep ==
  ASSUME NEW t \in Turns, NEW f,
         \A u \in Turns : FateOf(u)' = IF u = t THEN f ELSE FateOf(u)
  PROVE  fateNow' = [fateNow EXCEPT ![t] = f]
BY DEF fateNow

LEMMA PushSimulates ==
  ASSUME IInv, IInv', NEW t \in Turns, Push(t)
  PROVE  Service!Next
<1>1. /\ submit[t] = "new" /\ FateOf(t) = "new" /\ t \notin ToSet(q) /\ t # current
      /\ q \in Seq(Turns) /\ done[t] = 0
  BY DEF Push, PushRoom, PushShedding, PushPastCap, PushRefused, FateOf,
     IInv, TypeOK, EveryTurnAccounted, Held, ShedIsFinal
<1>2. CASE PushRoom(t) \/ PushPastCap(t)
  <2>1. /\ q' = Append(q, t) /\ submit' = [submit EXCEPT ![t] = "accepted"]
        /\ ~stopped /\ UNCHANGED <<stopped, current, pending, done, shed>>
    BY <1>2 DEF PushRoom, PushPastCap, Enqueue, turnVars, runnerVars, gcVars
  <2>2. q \o pending = q /\ (q \o pending)' = Append(q, t)
    BY <2>1, LineOf, ConcatEmptySeq DEF IInv, TypeOK
  <2>3. \A u \in Turns : FateOf(u)' = IF u = t THEN "waiting" ELSE FateOf(u)
    BY <1>1, <2>1 DEF IInv, TypeOK, FateOf
  <2>4. fateNow' = [fateNow EXCEPT ![t] = "waiting"]
    BY <2>3, FateStep
  <2>5. Service!Accept(t)
    BY <1>1, <2>1, <2>2, <2>4 DEF Service!Accept, fateNow
  <2> QED BY <2>5 DEF Service!Next, Service!Turns, Turns
<1>3. ASSUME NEW i \in 1..Len(q), PushShedding(t, i)
      PROVE  Service!Next
  <2>1. /\ q' = Append(RemoveAt(q, i), t) /\ submit' = [submit EXCEPT ![t] = "accepted"]
        /\ shed' = shed \cup {q[i]} /\ done' = [done EXCEPT ![q[i]] = @ + 1]
        /\ ~stopped /\ UNCHANGED <<stopped, current, pending>>
        /\ q[i] \in Reactions /\ \A j \in 1..(i - 1) : q[j] \notin Reactions
    BY <1>3 DEF PushShedding, Enqueue, CloseDone, OldestReaction, runnerVars, gcVars
  <2>2. q \o pending = q /\ (q \o pending)' = Append(RemoveAt(q, i), t)
    BY <2>1, LineOf, ConcatEmptySeq DEF IInv, TypeOK
  <2>3. /\ q[i] \in Turns /\ q[i] \in ToSet(q) /\ q[i] # t
        /\ \A j \in 1..(i - 1) : q[j] \in Prompts
    <3>1. Len(q) \in Nat /\ DOMAIN q = 1..Len(q)
      BY <1>1
    <3> QED BY <1>1, <2>1, <3>1 DEF ToSet, Turns
  <2>4. submit[q[i]] = "accepted" /\ done[q[i]] = 0
    BY <2>3 DEF IInv, EveryTurnAccounted, Held
  <2>5. \A u \in Turns : FateOf(u)' = IF u = t THEN "waiting"
                                      ELSE IF u = q[i] THEN "dropped" ELSE FateOf(u)
    BY <1>1, <2>1, <2>3, <2>4 DEF IInv, TypeOK, FateOf
  <2>6. fateNow' = [fateNow EXCEPT ![t] = "waiting", ![q[i]] = "dropped"]
    BY <2>3, <2>5 DEF fateNow
  <2>7. Service!AcceptDisplacing(t, i)
    <3>1. /\ fateNow[t] = "new" /\ ~stopped /\ UNCHANGED <<current, stopped>>
          /\ (q \o pending)[i] = q[i] /\ \A j \in 1..(i - 1) : (q \o pending)[j] = q[j]
      BY <1>1, <2>1, <2>2 DEF fateNow
    <3>2. (q \o pending)' = Append(RemoveAt(q \o pending, i), t)
      BY <2>2
    <3>3. fateNow' = [fateNow EXCEPT ![t] = "waiting", ![(q \o pending)[i]] = "dropped"]
      BY <2>6, <3>1
    <3>4. /\ (q \o pending)[i] \in Reactions
          /\ \A j \in 1..(i - 1) : (q \o pending)[j] \in Prompts
      BY <2>1, <2>3, <3>1
    <3> QED BY <3>1, <3>2, <3>3, <3>4 DEF Service!AcceptDisplacing, fateNow,
            Service!RemoveAt, RemoveAt
  <2> QED BY <2>2, <2>7 DEF Service!Next, Service!Turns, Turns
<1>4. CASE PushRefused(t)
  <2>1. /\ submit' = [submit EXCEPT ![t] = "refused"]
        /\ stopped \/ t \in Reactions
        /\ UNCHANGED <<q, stopped, current, pending, done, shed>>
    BY <1>4 DEF PushRefused, turnVars, runnerVars, gcVars
  <2>2. \A u \in Turns : FateOf(u)' = IF u = t THEN "refused" ELSE FateOf(u)
    BY <1>1, <2>1 DEF IInv, TypeOK, FateOf
  <2>3. fateNow' = [fateNow EXCEPT ![t] = "refused"]
    BY <2>2, FateStep
  <2>4. Service!Refuse(t)
    BY <1>1, <2>1, <2>3 DEF Service!Refuse, fateNow
  <2> QED BY <2>4 DEF Service!Next, Service!Turns, Turns
<1> QED BY <1>2, <1>3, <1>4 DEF Push

LEMMA RunnerSimulates ==
  ASSUME IInv, IInv', Runner
  PROVE  Service!Next \/ UNCHANGED Service!vars
<1>1. CASE Pop
  <2> DEFINE h == Head(q)
  <2>1. h \in Turns /\ h \in ToSet(q) /\ q # <<>>
    BY <1>1, TailElements DEF IInv, TypeOK, Pop
  <2>2. /\ q' = Tail(q) /\ current' = h /\ current = NoTurn
        /\ UNCHANGED <<stopped, submit, pending, done, shed>>
    BY <1>1 DEF Pop, turnVars, gcVars, IInv, TypeOK
  <2>3. ~stopped /\ q \o pending = q /\ (q \o pending)' = Tail(q)
    BY <2>1, <2>2, LineOf, ConcatEmptySeq DEF IInv, TypeOK
  <2> HIDE DEF h
  <2>4. submit[h] = "accepted" /\ done[h] = 0 /\ NoTurn \notin Turns
    BY <2>1, TurnKinds DEF IInv, EveryTurnAccounted, Held, Turns
  <2>5. \A u \in Turns : FateOf(u)' = IF u = h THEN "serving" ELSE FateOf(u)
    BY <2>1, <2>2, <2>4 DEF IInv, TypeOK, FateOf
  <2>6. fateNow' = [fateNow EXCEPT ![h] = "serving"]
    BY <2>1, <2>5, FateStep
  <2>7. Service!Start
    BY <2>1, <2>2, <2>3, <2>6 DEF Service!Start, fateNow, h
  <2> QED BY <2>7 DEF Service!Next
<1>2. CASE FindEmpty \/ SelectNotify \/ SelectStop \/ FinishInFlight
  <2>1. UNCHANGED <<q, pending, submit, done, shed, current, stopped>>
    BY <1>2 DEF FindEmpty, SelectNotify, SelectStop, FinishInFlight,
       queueVars, turnVars, gcVars
  <2> QED BY <2>1 DEF Service!vars, FateOf
<1> QED BY <1>1, <1>2 DEF Runner

LEMMA ExecuteSimulates ==
  ASSUME IInv, IInv', Execute
  PROVE  Service!Next
<1>1. /\ current \in Turns /\ current # NoTurn /\ NoTurn \notin Turns
      /\ submit[current] = "accepted" /\ done[current] = 0 /\ current \notin shed
  BY TurnKinds DEF IInv, TypeOK, EveryTurnAccounted, ShedIsFinal, Held, Execute, DropStale,
     EndTurn, Turns
<1>2. /\ done' = [done EXCEPT ![current] = @ + 1] /\ current' = NoTurn
      /\ UNCHANGED <<q, stopped, submit, pending>>
  BY DEF Execute, DropStale, EndTurn, CloseDone, queueVars, gcVars
<1>3. CASE DropStale
  <2>1. shed' = shed \cup {current} /\ current \in Reactions
    BY <1>3 DEF DropStale
  <2>2. \A u \in Turns : FateOf(u)' = IF u = current THEN "dropped" ELSE FateOf(u)
    BY <1>1, <1>2, <2>1 DEF IInv, TypeOK, FateOf
  <2>3. fateNow' = [fateNow EXCEPT ![current] = "dropped"]
    BY <1>1, <2>2, FateStep
  <2>4. Service!GiveUp
    BY <1>1, <1>2, <2>1, <2>3 DEF Service!GiveUp, fateNow
  <2> QED BY <2>4 DEF Service!Next
<1>4. CASE EndTurn
  <2>1. shed' = shed
    BY <1>4 DEF EndTurn
  <2>2. \A u \in Turns : FateOf(u)' = IF u = current THEN "served" ELSE FateOf(u)
    BY <1>1, <1>2, <2>1 DEF IInv, TypeOK, FateOf
  <2>3. fateNow' = [fateNow EXCEPT ![current] = "served"]
    BY <1>1, <2>2, FateStep
  <2>4. Service!Served
    BY <1>1, <1>2, <2>3 DEF Service!Served, fateNow
  <2> QED BY <2>4 DEF Service!Next
<1> QED BY <1>3, <1>4 DEF Execute

LEMMA CollectorSimulates ==
  ASSUME IInv, IInv', Collector
  PROVE  Service!Next \/ UNCHANGED Service!vars
<1>1. CASE GcFindIdle \/ GcCloseRunStop \/ GcForget
  <2>1. UNCHANGED <<q, pending, submit, done, shed, current, stopped>>
    BY <1>1 DEF GcFindIdle, GcCloseRunStop, GcForget, queueVars, turnVars, runnerVars
  <2> QED BY <2>1 DEF Service!vars, FateOf
<1>2. CASE GcStop
  <2>1. /\ ~stopped /\ stopped' /\ pending' = q /\ q' = <<>>
        /\ UNCHANGED <<submit, done, shed, current>>
    BY <1>2 DEF GcStop, IInv, EvictionStage, turnVars, runnerVars
  <2>2. (q \o pending)' = q \o pending
    BY <2>1, LineOf, ConcatEmptySeq DEF IInv, TypeOK
  <2>3. Service!Close
    BY <2>1, <2>2 DEF Service!Close, FateOf, IInv, TypeOK
  <2> QED BY <2>3 DEF Service!Next
<1>3. CASE GcShed
  <2> DEFINE h == Head(pending)
  <2>1. h \in Turns /\ h \in ToSet(pending) /\ pending # <<>>
    BY <1>3, TailElements DEF IInv, TypeOK, GcShed
  <2>2. /\ shed' = shed \cup {h} /\ done' = [done EXCEPT ![h] = @ + 1]
        /\ pending' = Tail(pending) /\ gc = "shed"
        /\ UNCHANGED <<q, stopped, submit, current>>
    BY <1>3 DEF GcShed, CloseDone, queueVars, runnerVars
  <2>3. stopped /\ q \o pending = pending /\ (q \o pending)' = Tail(pending)
    BY <2>1, <2>2, LineOf, ConcatEmptySeq DEF IInv, TypeOK, EvictionStage
  <2> HIDE DEF h
  <2>4. submit[h] = "accepted" /\ done[h] = 0
    BY <2>1 DEF IInv, EveryTurnAccounted, Held
  <2>5. \A u \in Turns : FateOf(u)' = IF u = h THEN "dropped" ELSE FateOf(u)
    BY <2>1, <2>2, <2>4 DEF IInv, TypeOK, FateOf
  <2>6. fateNow' = [fateNow EXCEPT ![h] = "dropped"]
    BY <2>1, <2>5, FateStep
  <2>7. Service!DropWaiting
    BY <2>1, <2>2, <2>3, <2>6 DEF Service!DropWaiting, fateNow, h
  <2> QED BY <2>7 DEF Service!Next
<1> QED BY <1>1, <1>2, <1>3 DEF Collector

LEMMA InitSimulates == Init => Service!Init
<1> SUFFICES ASSUME Init
             PROVE  Service!Init
  OBVIOUS
<1>1. q \o pending = <<>>
  BY ConcatEmptySeq, EmptyElements DEF Init
<1> QED BY <1>1 DEF Init, Service!Init, Service!Turns, FateOf, Turns

LEMMA NextSimulates == IInv /\ IInv' /\ [Next]_vars => [Service!Next]_(Service!vars)
<1> SUFFICES ASSUME IInv, IInv', [Next]_vars
             PROVE  Service!Next \/ UNCHANGED Service!vars
  OBVIOUS
<1>1. CASE UNCHANGED vars
  BY <1>1 DEF vars, Service!vars, FateOf
<1> QED BY <1>1, PushSimulates, RunnerSimulates, ExecuteSimulates, CollectorSimulates
        DEF Next, Quiescent

(* Every behaviour of the queue is one TurnService allows.                 *)
THEOREM Refinement == Spec => ImplementsTurnService
BY Invariant, InitSimulates, NextSimulates, PTL
   DEF Spec, Service!Spec, ImplementsTurnService

-----------------------------------------------------------------------------
(* The composition with the drain, the agent and its notifications.        *)

(* The sink of the turn that runs has got f notices and the first n chunks *)
(* of its window.                                                          *)
Wrote(f, n) ==
  /\ f \in 0..1 /\ n \in 0..Len(between)
  /\ Len(sink[current]) = f + n
  /\ f = 1 => sink[current][1] = Write("notice")
  /\ \A i \in 1..n : sink[current][f + i] = ChunkText(between[i])

(* The window of the turn that runs lies in chunkCh between b, where its   *)
(* beginTurn is, or 0 if the drain has taken it, and e, where its endTurn  *)
(* is or will be; n of its chunks are written.                             *)
Window(b, e, n) ==
  /\ b < e
  /\ IF b = 0 THEN td = current
     ELSE chunkCh[b] = Begin(current) /\ td = NoTurn /\ n = 0
  /\ IF phase = "ack" THEN e \in 1..Len(chunkCh) /\ chunkCh[e] = End(current)
     ELSE e = Len(chunkCh) + 1
  /\ \A k \in 1..Len(chunkCh) : k \notin {b, e} => chunkCh[k].kind = "chunk"
  /\ Len(between) = n + (e - 1 - b)
  /\ \A k \in 1..(e - 1 - b) : chunkCh[b + k] = ChunkText(between[n + k])

WindowOpen == phase \in {"prompt", "end", "ack"} /\ ~endDone

NoWindow == td = NoTurn /\ \A k \in 1..Len(chunkCh) : chunkCh[k].kind = "chunk"

(* Where the window of the turn that runs is, and what was written of it.  *)
WindowStage ==
  /\ endDone => phase \in {"ack", "close"}
  /\ phase = "close" => endDone
  /\ phase \in {"none", "start", "begin"} => between = <<>>
  /\ phase = "start" => Wrote(0, 0)
  /\ phase = "begin" => \E f \in 0..1 : Wrote(f, 0)
  /\ phase = "ack" /\ endDone => \E f \in 0..1 : Wrote(f, Len(between))
  /\ IF WindowOpen
     THEN \E f \in 0..1, n \in 0..Len(between), b \in 0..Len(chunkCh), e \in 1..(Len(chunkCh) + 1) :
            Wrote(f, n) /\ Window(b, e, n)
     ELSE NoWindow

(* No turn's sink is written to before it runs.                            *)
Untouched ==
  \A t \in Turns : submit[t] # "refused" /\ done[t] = 0 /\ t # current => sink[t] = <<>>

StreamIInv ==
  /\ IInv
  /\ StreamTypeOK
  /\ WindowStage
  /\ WindowIsWritten
  /\ Untouched
  /\ ServedTurnsAreDone

-----------------------------------------------------------------------------
(* The queue inside.                                                       *)

(* Every step of the queue but EndTurn.                                    *)
OtherStep == (\E t \in Turns : Push(t)) \/ Runner \/ DropStale \/ Collector \/ UNCHANGED vars

LEMMA QueueStep == StreamNext => CloseTurn \/ OtherStep
<1> SUFFICES ASSUME StreamNext PROVE CloseTurn \/ OtherStep
  OBVIOUS
<1>1. ASSUME NEW t \in Turns, Submit(t) PROVE OtherStep
  BY <1>1 DEF Submit, OtherStep
<1>2. CASE StartTurn \/ GiveUpStale \/ RunnerWaits
  BY <1>2 DEF StartTurn, GiveUpStale, RunnerWaits, OtherStep, Runner
<1>3. CASE GcVisits \/ GcRest
  BY <1>3 DEF GcVisits, GcRest, OtherStep, Collector
<1>4. CASE ApplyOptions \/ SendBeginTurn \/ SendEndTurn \/ Finalise \/ AbandonAgent
  BY <1>4 DEF ApplyOptions, SendBeginTurn, SendEndTurn, Finalise, AbandonAgent, OtherStep
<1>5. CASE \E t \in Turns : CancelContext(t) \/ StreamChunk(t)
  BY <1>5 DEF CancelContext, StreamChunk, OtherStep
<1>6. CASE Agent \/ Notify
  BY <1>6 DEF Agent, AgentAnswers, AgentStops, Notify, OnUpdate, OnUpdateStopped, OtherStep
<1>7. CASE Drain \/ DrainStops \/ GcCloseDrainStop \/ Settled
  BY <1>7 DEF Drain, DrainStops, GcCloseDrainStop, Settled, allVars, OtherStep
<1> QED
  BY <1>1, <1>2, <1>3, <1>4, <1>5, <1>6, <1>7 DEF StreamNext, RunTurn, Eviction

LEMMA NextRefines == StreamNext => Next \/ UNCHANGED vars
BY QueueStep DEF CloseTurn, OtherStep, Next, Execute

(* The composed system implements the queue: what is proved of             *)
(* SessionQueue holds of it as well.                                       *)
THEOREM RefinesQueue == StreamSpec => ImplementsQueue
<1>1. StreamInit => Init
  BY DEF StreamInit
<1>2. [StreamNext]_allVars => [Next]_vars
  BY NextRefines DEF allVars
<1> QED
  BY <1>1, <1>2, PTL DEF StreamSpec, ImplementsQueue, Spec

(* A turn that was answered, refused or shed stays so, and the runner lets *)
(* go of a turn only when it closes it.                                    *)
LEMMA TurnsForward ==
  ASSUME IInv, Next \/ UNCHANGED vars, NEW t \in Turns
  PROVE  /\ submit[t] = "refused" => submit'[t] = "refused"
         /\ done'[t] = 0 => done[t] = 0
         /\ t \in shed => t \in shed'
         /\ t = current /\ current' # t => done'[t] > 0
<1> USE DEF TypeOK
<1>1. TypeOK /\ IInv'
  BY NextIInv DEF IInv
<1>2. ASSUME NEW u \in Turns, Push(u) PROVE
         /\ submit[t] = "refused" => submit'[t] = "refused"
         /\ done'[t] = 0 => done[t] = 0
         /\ t \in shed => t \in shed'
         /\ current' = current
  BY <1>1, <1>2 DEF Push, PushRoom, PushShedding, PushPastCap, PushRefused, Enqueue,
     CloseDone, turnVars, runnerVars
<1>3. CASE Runner
  BY <1>1, <1>3, TurnKinds DEF Runner, Pop, FindEmpty, SelectNotify, SelectStop, FinishInFlight,
     queueVars, turnVars, Turns
<1>4. CASE Execute
  BY <1>1, <1>4 DEF Execute, DropStale, EndTurn, CloseDone, queueVars
<1>5. CASE Collector
  BY <1>1, <1>5 DEF Collector, GcFindIdle, GcCloseRunStop, GcStop, GcShed, GcForget,
     CloseDone, queueVars, turnVars, runnerVars
<1>6. CASE UNCHANGED vars
  BY <1>6 DEF vars
<1> QED
  BY <1>2, <1>3, <1>4, <1>5, <1>6 DEF Next, Quiescent

(* Only EndTurn closes a channel without shedding the turn.                *)
LEMMA ClosedOrShed ==
  ASSUME IInv, OtherStep, NEW t \in Turns, done'[t] > 0, t \notin shed'
  PROVE  done[t] > 0 /\ t \notin shed
<1> USE DEF TypeOK
<1>1. TypeOK /\ IInv' /\ t \notin shed
  BY NextIInv, TurnsForward DEF IInv, OtherStep, Next, Execute
<1>2. ASSUME NEW u \in Turns, Push(u) PROVE done[t] > 0
  BY <1>1, <1>2 DEF Push, PushRoom, PushShedding, PushPastCap, PushRefused, Enqueue,
     CloseDone, turnVars, runnerVars
<1>3. CASE Runner
  BY <1>1, <1>3 DEF Runner, Pop, FindEmpty, SelectNotify, SelectStop, FinishInFlight, turnVars
<1>4. CASE DropStale
  BY <1>1, <1>4 DEF DropStale, CloseDone
<1>5. CASE Collector
  BY <1>1, <1>5 DEF Collector, GcFindIdle, GcCloseRunStop, GcStop, GcShed, GcForget,
     CloseDone, turnVars
<1>6. CASE UNCHANGED vars
  BY <1>6 DEF vars
<1> QED
  BY <1>1, <1>2, <1>3, <1>4, <1>5, <1>6 DEF OtherStep

LEMMA StreamQueueInv == ASSUME IInv, [StreamNext]_allVars PROVE IInv'
BY NextRefines, NextIInv DEF allVars

-----------------------------------------------------------------------------
(* Types.                                                                  *)

LEMMA MessageTypes ==
  /\ \A t \in Turns : Begin(t) \in ChunkMsgs /\ End(t) \in ChunkMsgs
  /\ \A c \in Chunks : ChunkText(c) \in ChunkMsgs /\ ChunkText(c) \in Writes
  /\ \A k \in {"notice", "remark", "error", "done"} : Write(k) \in Writes
BY DEF ChunkMsgs, Writes

LEMMA TypesAtRest ==
  ASSUME StreamTypeOK, TypeOK', current' = current, UNCHANGED streamState
  PROVE  StreamTypeOK'
BY DEF StreamTypeOK, streamState, phaseVars, streamVars, agentVars

LEMMA RunnerTypes ==
  ASSUME StreamTypeOK, TypeOK', StartTurn \/ GiveUpStale \/ CloseTurn
  PROVE  StreamTypeOK'
<1> USE DEF StreamTypeOK, TypeOK, phaseVars, streamVars, agentVars
<1>1. NoTurn \notin Turns /\ <<>> \in Seq(Chunks)
  BY TurnKinds, EmptyElements DEF Turns
<1>2. CASE StartTurn
  <2>1. current' \in Turns
    BY <1>2 DEF StartTurn, Pop
  <2> QED BY <1>1, <1>2, <2>1 DEF StartTurn
<1>3. CASE GiveUpStale
  BY <1>3 DEF GiveUpStale, DropStale
<1>4. CASE CloseTurn
  BY <1>1, <1>4 DEF CloseTurn, EndTurn
<1> QED BY <1>2, <1>3, <1>4

LEMMA TurnTypes ==
  ASSUME StreamTypeOK, TypeOK',
         ApplyOptions \/ SendBeginTurn \/ AgentAnswers \/ AbandonAgent \/ SendEndTurn \/ Finalise
  PROVE  StreamTypeOK'
<1> USE DEF StreamTypeOK, phaseVars, streamVars, agentVars, vars
<1>1. phase # "none" => current \in Turns
  BY TurnKinds DEF TypeOK
<1>2. CASE ApplyOptions
  <2>1. sink[current] \in Seq(Writes) /\ Append(sink[current], Write("notice")) \in Seq(Writes)
    BY <1>1, <1>2, MessageTypes, AppendElements DEF ApplyOptions
  <2> QED BY <1>1, <1>2, <2>1 DEF ApplyOptions
<1>3. CASE SendBeginTurn
  <2>1. /\ Append(chunkCh, Begin(current)) \in Seq(ChunkMsgs)
        /\ Len(Append(chunkCh, Begin(current))) = Len(chunkCh) + 1
    BY <1>1, <1>3, MessageTypes, AppendElements DEF SendBeginTurn
  <2> QED BY <1>1, <1>3, <2>1, ChunkBounds DEF SendBeginTurn, Send
<1>4. CASE AgentAnswers \/ AbandonAgent
  BY <1>4 DEF AgentAnswers, AbandonAgent
<1>5. CASE SendEndTurn
  <2>1. /\ Append(chunkCh, End(current)) \in Seq(ChunkMsgs)
        /\ Len(Append(chunkCh, End(current))) = Len(chunkCh) + 1
    BY <1>1, <1>5, MessageTypes, AppendElements DEF SendEndTurn
  <2> QED BY <1>1, <1>5, <2>1, ChunkBounds DEF SendEndTurn, Send
<1>6. CASE Finalise
  <2>1. PICK w \in LastWords :
          sink' = [sink EXCEPT ![current] = @ \o w \o <<Write("done")>>]
    BY <1>6 DEF Finalise
  <2>2. w \in Seq(Writes) /\ <<Write("done")>> \in Seq(Writes)
    <3>1. w \in {<<>>, <<Write("error")>>, <<Write("remark")>>}
      BY <2>1 DEF LastWords
    <3>2. \A k \in {"error", "remark", "done"} : <<Write(k)>> \in Seq(Writes)
      BY MessageTypes
    <3> QED BY <3>1, <3>2, EmptyElements
  <2>3. sink[current] \in Seq(Writes)
    BY <1>1, <1>6 DEF Finalise
  <2>4. sink[current] \o w \o <<Write("done")>> \in Seq(Writes)
    BY <2>2, <2>3, ConcatProperties
  <2> QED BY <1>1, <1>6, <2>1, <2>4 DEF Finalise
<1> QED BY <1>2, <1>3, <1>4, <1>5, <1>6

LEMMA NotifyTypes ==
  ASSUME StreamTypeOK, TypeOK',
         \/ \E t \in Turns : Submit(t) \/ CancelContext(t) \/ StreamChunk(t) \/ AgentStops(t)
         \/ Notify
  PROVE  StreamTypeOK'
<1> USE DEF StreamTypeOK, phaseVars, streamVars, agentVars, vars
<1>1. ASSUME NEW t \in Turns, Submit(t) PROVE StreamTypeOK'
  <2>1. current' = current
    BY <1>1 DEF Submit, Push, PushRoom, PushShedding, PushPastCap, PushRefused, Enqueue, runnerVars
  <2>2. /\ <<Write("error"), Write("done")>> \in Seq(Writes)
        /\ sink[t] \in Seq(Writes)
    BY MessageTypes
  <2>3. sink[t] \o <<Write("error"), Write("done")>> \in Seq(Writes)
    BY <2>2, ConcatProperties
  <2> QED BY <1>1, <2>1, <2>3 DEF Submit
<1>2. ASSUME NEW t \in Turns, CancelContext(t) PROVE StreamTypeOK'
  BY <1>2 DEF CancelContext
<1>3. ASSUME NEW t \in Turns, StreamChunk(t) PROVE StreamTypeOK'
  <2>1. streamed[t] + 1 \in 1..ChunksPerTurn
    BY <1>3, ChunkBounds DEF StreamChunk
  <2>2. [of |-> t, no |-> streamed[t] + 1] \in Chunks
    BY <2>1 DEF Chunks
  <2> QED BY <1>3, <2>1, <2>2 DEF StreamChunk
<1>4. ASSUME NEW t \in Turns, AgentStops(t) PROVE StreamTypeOK'
  BY <1>4 DEF AgentStops
<1>5. ASSUME NEW c \in transit, OnUpdate(c) PROVE StreamTypeOK'
  <2>1. c \in Chunks
    OBVIOUS
  <2>2. /\ Append(chunkCh, ChunkText(c)) \in Seq(ChunkMsgs)
        /\ Len(Append(chunkCh, ChunkText(c))) = Len(chunkCh) + 1
        /\ Append(between, c) \in Seq(Chunks)
    BY <2>1, MessageTypes, AppendElements
  <2> QED BY <1>5, <2>2, ChunkBounds DEF OnUpdate, Send
<1>6. ASSUME NEW c \in transit, OnUpdateStopped(c) PROVE StreamTypeOK'
  BY <1>6 DEF OnUpdateStopped
<1> QED BY <1>1, <1>2, <1>3, <1>4, <1>5, <1>6 DEF Notify

LEMMA DrainTypes ==
  ASSUME StreamTypeOK, TypeOK', Drain \/ DrainStops \/ GcCloseDrainStop
  PROVE  StreamTypeOK'
<1> USE DEF StreamTypeOK, phaseVars, streamVars, agentVars, vars
<1>1. CASE Drain
  <2> DEFINE msg == Head(chunkCh)
  <2>1. /\ msg \in ChunkMsgs /\ Tail(chunkCh) \in Seq(ChunkMsgs)
        /\ Len(Tail(chunkCh)) <= chunkChCap
    BY <1>1, TailElements, ChunkBounds DEF Drain
  <2>2. msg.kind = "begin" => msg.of \in Turns
    BY <2>1 DEF ChunkMsgs, Begin, End, ChunkText
  <2>3. msg.kind = "chunk" => msg \in Writes
    BY <2>1 DEF ChunkMsgs, Writes, Begin, End
  <2>4. ASSUME msg.kind = "chunk", td # NoTurn
        PROVE  Append(sink[td], msg) \in Seq(Writes)
    BY <2>3, <2>4, AppendElements
  <2> HIDE DEF msg
  <2>5. /\ chunkCh' = Tail(chunkCh)
        /\ \/ msg.kind = "begin" /\ td' = msg.of /\ UNCHANGED <<endDone, sink>>
           \/ td' = NoTurn /\ endDone' = TRUE /\ UNCHANGED sink
           \/ /\ msg.kind = "chunk" /\ td # NoTurn
              /\ sink' = [sink EXCEPT ![td] = Append(@, msg)] /\ UNCHANGED <<endDone, td>>
           \/ UNCHANGED <<endDone, sink, td>>
        /\ UNCHANGED <<phase, outcome, drainStop, draining, working, streamed, transit,
                       between, ctxDone, current>>
    BY <1>1 DEF Drain, msg
  <2> QED BY <2>1, <2>2, <2>4, <2>5
<1>2. CASE DrainStops \/ GcCloseDrainStop
  BY <1>2 DEF DrainStops, GcCloseDrainStop
<1> QED BY <1>1, <1>2

LEMMA StreamTypes ==
  ASSUME IInv, StreamTypeOK, [StreamNext]_allVars
  PROVE  StreamTypeOK'
<1>1. TypeOK'
  BY StreamQueueInv DEF IInv
<1>2. CASE RunnerWaits \/ GcVisits \/ GcRest \/ Settled \/ UNCHANGED allVars
  <2>1. UNCHANGED <<current, streamState>>
    BY <1>2 DEF RunnerWaits, GcVisits, GcRest, Settled, allVars, vars, FindEmpty, SelectNotify,
       SelectStop, FinishInFlight, GcFindIdle, GcCloseRunStop, GcStop, GcShed, GcForget, runnerVars
  <2> QED BY <1>1, <2>1, TypesAtRest
<1> QED
  BY <1>1, <1>2, RunnerTypes, TurnTypes, NotifyTypes, DrainTypes
     DEF StreamNext, RunTurn, Agent, Eviction

-----------------------------------------------------------------------------
(* The window.                                                             *)

(* A step that leaves the turn, its stage, the channel and its sink alone. *)
LEMMA WindowKept ==
  ASSUME WindowStage, WindowIsWritten,
         UNCHANGED <<phase, endDone, chunkCh, td, between, current>>,
         phase # "none" => sink'[current] = sink[current]
  PROVE  WindowStage' /\ WindowIsWritten'
<1>1. \A b, e, n : Window(b, e, n)' <=> Window(b, e, n)
  BY DEF Window
<1>2. NoWindow' <=> NoWindow
  BY DEF NoWindow
<1>3. CASE phase = "none"
  BY <1>2, <1>3 DEF WindowStage, WindowOpen, WindowIsWritten
<1>4. CASE phase # "none"
  <2>1. \A f, n : Wrote(f, n)' <=> Wrote(f, n)
    BY <1>4 DEF Wrote
  <2>2. WindowStage'
    BY <1>1, <1>2, <2>1 DEF WindowStage, WindowOpen
  <2>3. WindowIsWritten'
    BY <1>4 DEF WindowIsWritten
  <2> QED BY <2>2, <2>3
<1> QED BY <1>3, <1>4

(* Outside a window nothing on the channel is a beginTurn or an endTurn.   *)
LEMMA NoWindowKept ==
  ASSUME NoWindow, UNCHANGED <<td, chunkCh>> PROVE NoWindow'
BY DEF NoWindow

LEMMA StartWindow ==
  ASSUME StreamIInv, IInv', StartTurn
  PROVE  WindowStage' /\ WindowIsWritten'
<1> USE DEF StreamIInv, StreamTypeOK, TypeOK, IInv, streamVars
<1>1. current = NoTurn /\ phase = "none" /\ ~endDone
  BY DEF StartTurn, Pop, WindowStage
<1>2. current' \in Turns /\ current' # current /\ submit[current'] = "accepted" /\ done[current'] = 0
  BY <1>1, TurnKinds DEF StartTurn, Pop, EveryTurnAccounted, Held, turnVars, Turns
<1>3. sink'[current'] = <<>>
  BY <1>2 DEF Untouched, StartTurn
<1>4. Wrote(0, 0)'
  BY <1>3, EmptyElements DEF Wrote, StartTurn
<1>5. NoWindow'
  BY <1>1, NoWindowKept DEF WindowStage, WindowOpen, StartTurn
<1> QED
  BY <1>1, <1>4, <1>5 DEF WindowStage, WindowOpen, WindowIsWritten, StartTurn

LEMMA CloseWindow ==
  ASSUME StreamIInv, GiveUpStale \/ CloseTurn
  PROVE  WindowStage' /\ WindowIsWritten'
<1> USE DEF StreamIInv, WindowStage, WindowOpen, WindowIsWritten, streamVars
<1>1. NoWindow' /\ phase' = "none" /\ ~endDone' /\ between' = <<>>
  BY NoWindowKept DEF GiveUpStale, CloseTurn
<1> QED BY <1>1

LEMMA ApplyWindow ==
  ASSUME StreamIInv, ApplyOptions
  PROVE  WindowStage' /\ WindowIsWritten'
<1> USE DEF StreamIInv, streamVars, vars
<1>1. /\ phase = "start" /\ phase' = "begin" /\ ~endDone' /\ between' = <<>> /\ between = <<>>
      /\ Wrote(0, 0) /\ current' = current
  BY DEF ApplyOptions, WindowStage
<1>2. \E f \in 0..1 : Wrote(f, 0)'
  <2>1. CASE UNCHANGED sink
    BY <1>1, <2>1 DEF Wrote
  <2>2. CASE current \in Prompts /\ sink' = [sink EXCEPT ![current] = Append(@, Write("notice"))]
    <3>1. sink[current] \in Seq(Writes) /\ Len(sink[current]) = 0
      BY <1>1, <2>2 DEF StreamTypeOK, Turns, Wrote
    <3>2. sink'[current] = Append(sink[current], Write("notice"))
      BY <2>2 DEF StreamTypeOK, Turns
    <3>3. Len(sink'[current]) = 1 /\ sink'[current][1] = Write("notice")
      BY <3>1, <3>2
    <3>4. Wrote(1, 0)'
      BY <1>1, <3>3, EmptyElements DEF Wrote
    <3> QED BY <3>4
  <2> QED BY <2>1, <2>2 DEF ApplyOptions
<1>3. NoWindow'
  BY <1>1, NoWindowKept DEF WindowStage, WindowOpen, ApplyOptions
<1> QED
  BY <1>1, <1>2, <1>3 DEF WindowStage, WindowOpen, WindowIsWritten

(* What an open window is, for a turn whose prompt the agent has.          *)
LEMMA OpenWindow ==
  ASSUME WindowStage, WindowOpen
  PROVE  \E f \in 0..1, n \in 0..Len(between), b \in 0..Len(chunkCh), e \in 1..(Len(chunkCh) + 1) :
           Wrote(f, n) /\ Window(b, e, n)
BY DEF WindowStage

(* ... and how a step keeps it open.                                       *)
LEMMA StaysOpen ==
  ASSUME WindowOpen', phase' # "start", phase' # "begin", phase' # "close",
         NEW f \in 0..1, NEW n \in 0..Len(between'), NEW b \in 0..Len(chunkCh'),
         NEW e \in 1..(Len(chunkCh') + 1), Wrote(f, n)', Window(b, e, n)'
  PROVE  WindowStage' /\ WindowIsWritten'
BY DEF WindowStage, WindowOpen, WindowIsWritten

(* Before its endTurn is sent, the window is the rest of the channel.      *)
GoesOn(b, n) ==
  /\ IF b = 0 THEN td = current ELSE chunkCh[b] = Begin(current) /\ td = NoTurn /\ n = 0
  /\ \A k \in 1..Len(chunkCh) : k # b => chunkCh[k].kind = "chunk"
  /\ Len(between) = n + (Len(chunkCh) - b)
  /\ \A k \in 1..(Len(chunkCh) - b) : chunkCh[b + k] = ChunkText(between[n + k])

LEMMA WindowGoesOn ==
  ASSUME phase \in {"prompt", "end"}, Len(chunkCh) \in Nat,
         NEW b \in 0..Len(chunkCh), NEW e, NEW n, Window(b, e, n)
  PROVE  e = Len(chunkCh) + 1 /\ GoesOn(b, n)
<1>1. e = Len(chunkCh) + 1
  BY DEF Window
<1>2. e - 1 - b = Len(chunkCh) - b
  BY <1>1
<1>3. \A k \in 1..Len(chunkCh) : k # b => chunkCh[k].kind = "chunk"
  BY <1>1 DEF Window
<1> QED BY <1>1, <1>2, <1>3 DEF Window, GoesOn

LEMMA BeginWindow ==
  ASSUME StreamIInv, SendBeginTurn
  PROVE  WindowStage' /\ WindowIsWritten'
<1> USE DEF StreamIInv, vars
<1>0. PICK l \in Nat : l = Len(chunkCh)
  BY DEF StreamTypeOK
<1>1. /\ phase = "begin" /\ phase' = "prompt" /\ ~endDone /\ ~endDone' /\ between = <<>>
      /\ UNCHANGED <<between, current, td, sink>> /\ NoWindow
  BY DEF SendBeginTurn, Send, WindowStage, WindowOpen
<1>2. /\ Len(chunkCh') = l + 1 /\ chunkCh'[l + 1] = Begin(current)
      /\ \A k \in 1..l : chunkCh'[k] = chunkCh[k]
  BY <1>0 DEF SendBeginTurn, Send, StreamTypeOK
<1>3. PICK f \in 0..1 : Wrote(f, 0)
  BY <1>1 DEF WindowStage
<1>4. Wrote(f, 0)'
  BY <1>1, <1>3 DEF Wrote
<1>5. Window(l + 1, l + 2, 0)'
  <2>1. \A k \in 1..(l + 1) : k \notin {l + 1, l + 2} => chunkCh'[k].kind = "chunk"
    BY <1>0, <1>1, <1>2 DEF NoWindow
  <2>2. l + 1 < l + 2 /\ l + 1 # 0 /\ l + 2 = Len(chunkCh') + 1 /\ (l + 2) - 1 - (l + 1) = 0
    BY <1>2
  <2>3. td' = NoTurn /\ current' = current
    BY <1>1 DEF NoWindow
  <2>4. Len(between') = 0 + 0
    BY <1>1, EmptyElements
  <2> QED BY <1>1, <1>2, <2>1, <2>2, <2>3, <2>4 DEF Window
<1>6. 0 \in 0..Len(between') /\ l + 1 \in 0..Len(chunkCh') /\ l + 2 \in 1..(Len(chunkCh') + 1)
  BY <1>1, <1>2, EmptyElements
<1>7. WindowOpen'
  BY <1>1 DEF WindowOpen
<1> QED
  BY <1>1, <1>4, <1>5, <1>6, <1>7, StaysOpen

LEMMA AnswerWindow ==
  ASSUME StreamIInv, AgentAnswers \/ AbandonAgent
  PROVE  WindowStage' /\ WindowIsWritten'
<1> USE DEF StreamIInv, vars, streamVars
<1>1. /\ phase = "prompt" /\ phase' = "end" /\ ~endDone /\ ~endDone'
      /\ UNCHANGED <<between, current, td, sink, chunkCh>>
  BY DEF AgentAnswers, AbandonAgent, WindowStage
<1>2. WindowOpen /\ WindowOpen'
  BY <1>1 DEF WindowOpen
<1>3. PICK f \in 0..1, n \in 0..Len(between), b \in 0..Len(chunkCh), e \in 1..(Len(chunkCh) + 1) :
        Wrote(f, n) /\ Window(b, e, n)
  BY <1>2, OpenWindow
<1>4. Wrote(f, n)' /\ Window(b, e, n)'
  BY <1>1, <1>3 DEF Wrote, Window
<1> QED BY <1>1, <1>2, <1>4, StaysOpen

LEMMA EndWindow ==
  ASSUME StreamIInv, SendEndTurn
  PROVE  WindowStage' /\ WindowIsWritten'
<1> USE DEF StreamIInv, vars
<1> DEFINE l == Len(chunkCh)
<1>1. /\ phase = "end" /\ phase' = "ack" /\ ~endDone /\ ~endDone'
      /\ UNCHANGED <<between, current, td, sink>>
  BY DEF SendEndTurn, Send, WindowStage
<1>2. /\ l \in Nat /\ Len(chunkCh') = l + 1 /\ chunkCh'[l + 1] = End(current)
      /\ \A k \in 1..l : chunkCh'[k] = chunkCh[k]
  BY DEF SendEndTurn, Send, StreamTypeOK
<1>3. WindowOpen /\ WindowOpen'
  BY <1>1 DEF WindowOpen
<1>4. PICK f \in 0..1, n \in 0..Len(between), b \in 0..l, e \in 1..(l + 1) :
        Wrote(f, n) /\ Window(b, e, n)
  BY <1>3, OpenWindow
<1> HIDE DEF l
<1>5. e = l + 1
  BY <1>1, <1>2, <1>4 DEF l, Window
<1>6. Wrote(f, n)'
  BY <1>1, <1>4 DEF Wrote
<1>7. Window(b, e, n)'
  <2>1. /\ b < l + 1
        /\ IF b = 0 THEN td = current ELSE chunkCh[b] = Begin(current) /\ td = NoTurn /\ n = 0
        /\ \A k \in 1..l : k # b => chunkCh[k].kind = "chunk"
        /\ Len(between) = n + (l - b)
        /\ \A k \in 1..(l - b) : chunkCh[b + k] = ChunkText(between[n + k])
    <3>1. /\ phase \in {"prompt", "end"} /\ Window(b, e, n) /\ b \in 0..Len(chunkCh)
          /\ l \in Nat /\ l = Len(chunkCh)
      BY <1>1, <1>2, <1>4 DEF l
    <3>2. b < l + 1
      BY ONLY <3>1
    <3>3. GoesOn(b, n)
      BY ONLY <3>1, WindowGoesOn
    <3> QED BY ONLY <3>1, <3>2, <3>3 DEF GoesOn
  <2>2. \A k \in 1..(l - b) : chunkCh'[b + k] = ChunkText(between'[n + k])
    <3>1. \A k \in 1..(l - b) : b + k \in 1..l
      BY <1>2, <1>4
    <3> QED BY <1>1, <1>2, <2>1, <3>1
  <2>3. b # 0 => chunkCh'[b] = Begin(current')
    BY <1>1, <1>2, <2>1
  <2>4. \A k \in 1..(l + 1) : k \notin {b, e} => chunkCh'[k].kind = "chunk"
    BY <1>2, <1>5, <2>1
  <2> QED BY <1>1, <1>2, <1>5, <2>1, <2>2, <2>3, <2>4 DEF Window
<1>8. b \in 0..Len(chunkCh') /\ e \in 1..(Len(chunkCh') + 1) /\ n \in 0..Len(between')
  BY <1>1, <1>2, <1>5
<1> QED BY <1>1, <1>3, <1>6, <1>7, <1>8, StaysOpen

LEMMA FinaliseWindow ==
  ASSUME StreamIInv, Finalise
  PROVE  WindowStage' /\ WindowIsWritten'
<1> USE DEF StreamIInv, streamVars, vars
<1>1. /\ phase = "ack" /\ endDone /\ phase' = "close" /\ endDone'
      /\ UNCHANGED <<between, current>> /\ current \in Turns
  BY DEF Finalise, StreamTypeOK, TypeOK
<1>2. PICK w \in LastWords : sink' = [sink EXCEPT ![current] = @ \o w \o <<Write("done")>>]
  BY DEF Finalise
<1>3. PICK f \in 0..1 : Wrote(f, Len(between))
  BY <1>1 DEF WindowStage
<1> DEFINE front == IF f = 1 THEN <<Write("notice")>> ELSE <<>>
<1>4. sink[current] = front \o Texts(between)
  <2>1. /\ front \in Seq(Writes) /\ Len(front) = f
        /\ f = 1 => front[1] = Write("notice")
    BY MessageTypes, EmptyElements
  <2>2. /\ Texts(between) \in Seq(Writes) /\ Len(Texts(between)) = Len(between)
        /\ \A i \in 1..Len(between) : Texts(between)[i] = ChunkText(between[i])
    BY MessageTypes DEF Texts, StreamTypeOK
  <2>3. sink[current] \in Seq(Writes) /\ Len(between) \in Nat
    BY <1>1 DEF StreamTypeOK
  <2> HIDE DEF front
  <2>4. /\ front \o Texts(between) \in Seq(Writes)
        /\ Len(front \o Texts(between)) = f + Len(between)
        /\ \A i \in 1..(f + Len(between)) :
              (front \o Texts(between))[i]
                = IF i <= f THEN front[i] ELSE ChunkText(between[i - f])
    BY <2>1, <2>2, <2>3, ConcatProperties
  <2>5. \A i \in 1..(f + Len(between)) : sink[current][i]
          = IF i <= f THEN front[i] ELSE ChunkText(between[i - f])
    <3> SUFFICES ASSUME NEW i \in 1..(f + Len(between))
                 PROVE  sink[current][i] = IF i <= f THEN front[i] ELSE ChunkText(between[i - f])
      OBVIOUS
    <3>1. CASE i <= f
      BY <1>3, <2>1, <3>1 DEF Wrote
    <3>2. CASE i > f
      <4>1. i - f \in 1..Len(between) /\ f + (i - f) = i
        BY <2>3, <3>2
      <4> QED BY <1>3, <3>2, <4>1 DEF Wrote
    <3> QED BY <3>1, <3>2
  <2>6. Len(sink[current]) = f + Len(between)
    BY <1>3 DEF Wrote
  <2>7. \A i \in 1..Len(sink[current]) : sink[current][i] = (front \o Texts(between))[i]
    BY <2>4, <2>5, <2>6
  <2> QED BY ONLY <2>3, <2>4, <2>6, <2>7, SeqEqual
<1>5. front \in Notices /\ w \in {<<>>, <<Write("error")>>, <<Write("remark")>>}
  BY <1>2 DEF Notices, LastWords
<1> HIDE DEF front
<1>6. sink'[current] = front \o Texts(between) \o w \o <<Write("done")>>
  BY <1>1, <1>2, <1>4 DEF StreamTypeOK
<1>7. WindowIsWritten'
  BY <1>1, <1>5, <1>6 DEF WindowIsWritten, Texts
<1>8. NoWindow'
  BY <1>1, NoWindowKept DEF WindowStage, WindowOpen, Finalise
<1> QED
  BY <1>1, <1>7, <1>8 DEF WindowStage, WindowOpen

(* The notification goroutines append chunks, inside the window or not.    *)
LEMMA UpdateWindow ==
  ASSUME StreamIInv, NEW c \in transit, OnUpdate(c)
  PROVE  WindowStage' /\ WindowIsWritten'
<1> USE DEF StreamIInv, vars, phaseVars
<1>0. PICK l \in Nat : l = Len(chunkCh)
  BY DEF StreamTypeOK
<1>1. /\ UNCHANGED <<phase, endDone, current, td, sink>>
      /\ Len(chunkCh') = l + 1 /\ chunkCh'[l + 1] = ChunkText(c)
      /\ \A k \in 1..l : chunkCh'[k] = chunkCh[k]
  BY <1>0 DEF OnUpdate, Send, StreamTypeOK
<1>2. ChunkText(c).kind = "chunk"
  BY DEF ChunkText
<1>3. CASE phase \in {"prompt", "end"}
  <2>1. WindowOpen /\ WindowOpen'
    BY <1>1, <1>3 DEF WindowStage, WindowOpen
  <2>2. PICK f \in 0..1, n \in 0..Len(between), b \in 0..Len(chunkCh), e \in 1..(Len(chunkCh) + 1) :
          Wrote(f, n) /\ Window(b, e, n)
    BY <2>1, OpenWindow
  <2>3. PICK m \in Nat : m = Len(between)
    BY DEF StreamTypeOK
  <2>4. /\ Len(between') = m + 1 /\ between'[m + 1] = c
        /\ \A k \in 1..m : between'[k] = between[k]
    BY <1>3, <2>3 DEF OnUpdate, StreamTypeOK
  <2>0. f \in 0..1 /\ n \in 0..m /\ b \in 0..l
    BY <1>0, <2>2, <2>3
  <2>5. /\ b < l + 1
        /\ IF b = 0 THEN td = current ELSE chunkCh[b] = Begin(current) /\ td = NoTurn /\ n = 0
        /\ \A k \in 1..l : k # b => chunkCh[k].kind = "chunk"
        /\ m = n + (l - b)
        /\ \A k \in 1..(l - b) : chunkCh[b + k] = ChunkText(between[n + k])
    <3>1. /\ phase \in {"prompt", "end"} /\ Window(b, e, n) /\ b \in 0..Len(chunkCh)
          /\ l \in Nat /\ l = Len(chunkCh)
      BY <1>0, <1>3, <2>2
    <3>2. b < l + 1
      BY ONLY <3>1
    <3>3. GoesOn(b, n)
      BY ONLY <3>1, WindowGoesOn
    <3> QED BY ONLY <2>3, <3>1, <3>2, <3>3 DEF GoesOn
  <2>6. Wrote(f, n)'
    <3>1. /\ Len(sink[current]) = f + n
          /\ f = 1 => sink[current][1] = Write("notice")
          /\ \A i \in 1..n : sink[current][f + i] = ChunkText(between[i])
      BY ONLY <2>2 DEF Wrote
    <3>2. \A i \in 1..n : sink[current][f + i] = ChunkText(between'[i])
      BY <2>0, <2>4, <3>1
    <3>3. n \in 0..(m + 1)
      BY <2>0
    <3> QED BY <1>1, <2>0, <2>4, <3>1, <3>2, <3>3 DEF Wrote
  <2>7. Window(b, l + 2, n)'
    <3>1. \A k \in 1..(l + 1) : k \notin {b, l + 2} => chunkCh'[k].kind = "chunk"
      <4> TAKE k \in 1..(l + 1)
      <4> HAVE k \notin {b, l + 2}
      <4>1. CASE k = l + 1
        BY <1>1, <1>2, <4>1
      <4>2. CASE k \in 1..l
        BY <1>1, <2>5, <4>2
      <4> QED BY <4>1, <4>2
    <3>2. ASSUME NEW k \in 1..(l + 1 - b) PROVE chunkCh'[b + k] = ChunkText(between'[n + k])
      <4>1. CASE k \in 1..(l - b)
        <5>1. m = n + (l - b)
          BY <2>5
        <5>2. b + k \in 1..l /\ n + k \in 1..m
          BY <2>0, <4>1, <5>1
        <5>3. chunkCh'[b + k] = chunkCh[b + k] /\ between'[n + k] = between[n + k]
          BY <1>1, <2>4, <5>2
        <5> QED BY <2>5, <4>1, <5>3
      <4>2. CASE k = l + 1 - b
        <5>1. m = n + (l - b)
          BY <2>5
        <5>2. b + k = l + 1 /\ n + k = m + 1
          BY <2>0, <4>2, <5>1
        <5> QED BY <1>1, <2>4, <5>2
      <4> QED BY <2>0, <4>1, <4>2
    <3>3. b # 0 => chunkCh'[b] = Begin(current')
      BY <1>1, <2>0, <2>5
    <3>4. /\ l + 2 = Len(chunkCh') + 1 /\ b < l + 2 /\ (l + 2) - 1 - b = l + 1 - b
          /\ Len(between') = n + ((l + 2) - 1 - b)
      <4>1. m + 1 = n + ((l + 2) - 1 - b)
        <5>1. m = n + (l - b)
          BY <2>5
        <5> QED BY <2>0, <5>1
      <4>2. /\ l + 2 = (l + 1) + 1 /\ b < l + 2 /\ (l + 2) - 1 - b = l + 1 - b
        BY <2>0
      <4> QED BY <1>1, <2>4, <4>1, <4>2
    <3>5. phase' # "ack"
      BY <1>1, <1>3
    <3> QED BY <1>1, <2>5, <3>1, <3>2, <3>3, <3>4, <3>5 DEF Window
  <2>8. n \in 0..Len(between') /\ b \in 0..Len(chunkCh') /\ l + 2 \in 1..(Len(chunkCh') + 1)
    BY <1>0, <1>1, <2>2, <2>3, <2>4
  <2> QED BY <1>1, <1>3, <2>1, <2>6, <2>7, <2>8, StaysOpen
<1>4. CASE phase = "ack" /\ ~endDone
  <2>1. WindowOpen /\ WindowOpen' /\ between' = between
    BY <1>1, <1>4 DEF WindowOpen, OnUpdate
  <2>2. PICK f \in 0..1, n \in 0..Len(between), b \in 0..Len(chunkCh), e \in 1..(Len(chunkCh) + 1) :
          Wrote(f, n) /\ Window(b, e, n)
    BY <2>1, OpenWindow
  <2>3. Wrote(f, n)'
    BY <1>1, <2>1, <2>2 DEF Wrote
  <2>4. Window(b, e, n)'
    <3>1. b < e /\ e \in 1..l
      BY <1>0, <1>4, <2>2 DEF Window
    <3>2. \A k \in 1..(l + 1) : k \notin {b, e} => chunkCh'[k].kind = "chunk"
      BY <1>0, <1>1, <1>2, <2>2 DEF Window
    <3>3. ASSUME NEW k \in 1..(e - 1 - b) PROVE chunkCh'[b + k] = ChunkText(between[n + k])
      <4>1. b + k \in 1..l
        BY <2>2, <3>1
      <4> QED BY <1>1, <2>2, <4>1 DEF Window
    <3>4. chunkCh'[e] = End(current) /\ (b # 0 => chunkCh'[b] = Begin(current))
      <4>1. chunkCh[e] = End(current) /\ (b # 0 => chunkCh[b] = Begin(current) /\ b \in 1..l)
        BY <1>0, <1>4, <2>2, <3>1 DEF Window
      <4> QED BY <1>1, <3>1, <4>1
    <3> QED BY <1>1, <1>4, <2>1, <2>2, <3>1, <3>2, <3>3, <3>4 DEF Window
  <2>5. b \in 0..Len(chunkCh') /\ e \in 1..(Len(chunkCh') + 1)
    BY <1>0, <1>1, <2>2
  <2> QED BY <1>1, <1>4, <2>1, <2>2, <2>3, <2>4, <2>5, StaysOpen
<1>5. CASE ~WindowOpen
  <2>1. between' = between /\ ~WindowOpen'
    BY <1>1, <1>5 DEF WindowOpen, OnUpdate, WindowStage
  <2>2. NoWindow'
    BY <1>0, <1>1, <1>2, <1>5 DEF NoWindow, WindowStage
  <2>3. \A f, n : Wrote(f, n)' <=> Wrote(f, n)
    BY <1>1, <2>1 DEF Wrote
  <2>4. WindowIsWritten'
    BY <1>1, <2>1 DEF WindowIsWritten
  <2> QED BY <1>1, <2>1, <2>2, <2>3, <2>4 DEF WindowStage
<1> QED
  BY <1>3, <1>4, <1>5 DEF WindowOpen

(* The drain takes the window's messages from the front of the channel.    *)
LEMMA DrainWindow ==
  ASSUME StreamIInv, Drain
  PROVE  WindowStage' /\ WindowIsWritten'
<1> USE DEF StreamIInv, vars, agentVars
<1>0. PICK l \in Nat : l = Len(chunkCh)
  BY DEF StreamTypeOK
<1>1. /\ UNCHANGED <<phase, current, between>>
      /\ l >= 1 /\ Len(chunkCh') = l - 1
      /\ \A k \in 1..(l - 1) : chunkCh'[k] = chunkCh[k + 1]
  BY <1>0 DEF Drain, StreamTypeOK
<1>2. \/ chunkCh[1].kind = "begin" /\ td' = chunkCh[1].of /\ UNCHANGED <<endDone, sink>>
      \/ chunkCh[1].kind = "end" /\ td' = NoTurn /\ endDone' /\ UNCHANGED sink
      \/ /\ chunkCh[1].kind = "chunk" /\ td # NoTurn
         /\ sink' = [sink EXCEPT ![td] = Append(@, chunkCh[1])]
         /\ UNCHANGED <<endDone, td>>
      \/ chunkCh[1].kind = "chunk" /\ td = NoTurn /\ UNCHANGED <<endDone, sink, td>>
  <2>1. Head(chunkCh) = chunkCh[1]
    BY DEF Drain, StreamTypeOK
  <2> QED BY <2>1 DEF Drain
<1>3. \A t : Begin(t).kind = "begin" /\ Begin(t).of = t /\ End(t).kind = "end"
  BY DEF Begin, End
<1>4. CASE ~WindowOpen
  <2>1. td = NoTurn /\ chunkCh[1].kind = "chunk" /\ \A k \in 1..l : chunkCh[k].kind = "chunk"
    BY <1>0, <1>1, <1>4 DEF WindowStage, NoWindow
  <2>2. UNCHANGED <<endDone, sink, td>>
    BY <1>2, <2>1
  <2>3. NoWindow' /\ ~WindowOpen'
    BY <1>1, <1>4, <2>1, <2>2 DEF NoWindow, WindowOpen
  <2>4. \A f, n : Wrote(f, n)' <=> Wrote(f, n)
    BY <1>1, <2>2 DEF Wrote
  <2>5. WindowIsWritten'
    BY <1>1, <2>2 DEF WindowIsWritten
  <2> QED BY <1>1, <1>4, <2>2, <2>3, <2>4, <2>5 DEF WindowStage
<1>5. CASE WindowOpen
  <2>1. PICK f \in 0..1, n \in 0..Len(between), b \in 0..Len(chunkCh), e \in 1..(Len(chunkCh) + 1) :
          Wrote(f, n) /\ Window(b, e, n)
    BY <1>5, OpenWindow
  <2>2. PICK m \in Nat : m = Len(between)
    BY DEF StreamTypeOK
  <2>3. /\ b < e
        /\ IF b = 0 THEN td = current ELSE chunkCh[b] = Begin(current) /\ td = NoTurn /\ n = 0
        /\ IF phase = "ack" THEN e \in 1..l /\ chunkCh[e] = End(current) ELSE e = l + 1
        /\ \A k \in 1..l : k \notin {b, e} => chunkCh[k].kind = "chunk"
        /\ m = n + (e - 1 - b)
        /\ \A k \in 1..(e - 1 - b) : chunkCh[b + k] = ChunkText(between[n + k])
    BY <1>0, <2>1, <2>2 DEF Window
  <2>4. phase \in {"prompt", "end", "ack"} /\ ~endDone /\ current \in Turns /\ current # NoTurn
    BY <1>5, TurnKinds DEF WindowOpen, StreamTypeOK, TypeOK, Turns
  <2>5. b \in 0..l /\ e \in 1..(l + 1) /\ n \in 0..m /\ f \in 0..1
    BY <1>0, <2>1, <2>2
  <2> DEFINE Rest(c, d, r) ==
          /\ IF phase = "ack" THEN d \in 1..(l - 1) /\ chunkCh'[d] = End(current) ELSE d = l
          /\ \A k \in 1..(l - 1) : k \notin {c, d} => chunkCh'[k].kind = "chunk"
          /\ m = r + (d - 1 - c)
          /\ \A k \in 1..(d - 1 - c) : chunkCh'[c + k] = ChunkText(between[r + k])
  <2>6. ASSUME b >= 1 PROVE Rest(b - 1, e - 1, n)
    <3>1. b - 1 \in Nat /\ e - 1 \in 1..l /\ (e - 1) - 1 - (b - 1) = e - 1 - b
      BY <2>3, <2>5, <2>6
    <3>2. phase = "ack" => e - 1 \in 1..(l - 1) /\ chunkCh'[e - 1] = End(current)
      <4>1. phase = "ack" => e \in 1..l /\ chunkCh[e] = End(current) /\ e > b
        BY <2>3
      <4>2. phase = "ack" => e - 1 \in 1..(l - 1) /\ (e - 1) + 1 = e
        BY <2>5, <2>6, <4>1
      <4> QED BY <1>1, <4>1, <4>2
    <3>3. phase # "ack" => e - 1 = l
      BY <2>3, <2>5
    <3>4. ASSUME NEW k \in 1..(l - 1), k \notin {b - 1, e - 1} PROVE chunkCh'[k].kind = "chunk"
      <4>1. k + 1 \in 1..l /\ k + 1 \notin {b, e}
        BY <2>5, <3>1, <3>4
      <4> QED BY <1>1, <2>3, <4>1
    <3>5. ASSUME NEW k \in 1..(e - 1 - b) PROVE chunkCh'[(b - 1) + k] = ChunkText(between[n + k])
      <4>1. (b - 1) + k \in 1..(l - 1) /\ ((b - 1) + k) + 1 = b + k
        BY <2>5, <2>6
      <4> QED BY <1>1, <2>3, <4>1
    <3> QED BY <2>3, <3>1, <3>2, <3>3, <3>4, <3>5
  <2>7. ASSUME NEW r \in 0..m, NEW c \in 0..(l - 1), NEW d \in 1..l, c < d, Rest(c, d, r),
               IF c = 0 THEN td' = current
               ELSE chunkCh'[c] = Begin(current) /\ td' = NoTurn /\ r = 0,
               ~endDone', Wrote(f, r)'
        PROVE  WindowStage' /\ WindowIsWritten'
    <3>1. Window(c, d, r)'
      <4>1. Len(chunkCh') + 1 = l /\ Len(between') = m
        BY <1>1, <2>2
      <4> QED BY <1>1, <2>7, <4>1 DEF Window
    <3>2. WindowOpen' /\ phase' = phase
      BY <1>1, <2>4, <2>7 DEF WindowOpen
    <3>3. r \in 0..Len(between') /\ c \in 0..Len(chunkCh') /\ d \in 1..(Len(chunkCh') + 1)
      BY <1>1, <2>2
    <3> QED BY <2>4, <2>5, <2>7, <3>1, <3>2, <3>3, StaysOpen
  <2>8. UNCHANGED sink => Wrote(f, n)'
    BY <1>1, <2>1 DEF Wrote
  <2> HIDE DEF Rest
  <2>9. CASE chunkCh[1].kind = "begin"
    <3>1. td' = chunkCh[1].of /\ UNCHANGED <<endDone, sink>>
      BY <1>2, <2>9
    <3>2. b = 1
      <4>1. 1 \in {b, e}
        BY <1>1, <2>3, <2>9
      <4>2. e # 1
        BY <1>1, <1>3, <2>3, <2>9
      <4> QED BY <4>1, <4>2
    <3>3. td' = current
      BY <1>3, <2>3, <3>1, <3>2
    <3>4. Rest(0, e - 1, n)
      BY <2>6, <3>2
    <3>5. e - 1 \in 1..l /\ 0 < e - 1 /\ 0 \in 0..(l - 1)
      BY <1>1, <2>3, <2>5, <3>2
    <3> QED BY <2>4, <2>5, <2>7, <2>8, <3>1, <3>3, <3>4, <3>5
  <2>10. CASE chunkCh[1].kind = "end"
    <3>1. td' = NoTurn /\ endDone' /\ UNCHANGED sink
      BY <1>2, <2>10
    <3>2. e = 1 /\ b = 0 /\ phase = "ack" /\ n = m
      BY <1>1, <1>3, <2>3, <2>4, <2>5, <2>10
    <3>3. NoWindow'
      <4>1. ASSUME NEW k \in 1..(l - 1) PROVE chunkCh'[k].kind = "chunk"
        <5>1. k + 1 \in 1..l /\ k + 1 \notin {b, e}
          BY <2>5, <3>2
        <5> QED BY <1>1, <2>3, <5>1
      <4> QED BY <1>1, <3>1, <4>1 DEF NoWindow
    <3>4. Wrote(f, Len(between))'
      BY <1>1, <2>2, <2>8, <3>1, <3>2
    <3> QED BY <1>1, <2>5, <3>1, <3>2, <3>3, <3>4 DEF WindowStage, WindowOpen, WindowIsWritten
  <2>11. CASE chunkCh[1].kind = "chunk" /\ td # NoTurn
    <3>1. sink' = [sink EXCEPT ![td] = Append(@, chunkCh[1])] /\ UNCHANGED <<endDone, td>>
      BY <1>2, <2>11
    <3>2. b = 0 /\ td = current /\ e >= 2
      BY <1>1, <1>3, <2>3, <2>5, <2>11
    <3>3. chunkCh[1] = ChunkText(between[n + 1]) /\ n + 1 \in 0..m
      BY <2>3, <2>5, <3>2
    <3>4. Wrote(f, n + 1)'
      <4>1. sink[current] \in Seq(Writes) /\ sink'[current] = Append(sink[current], chunkCh[1])
        BY <2>4, <3>1, <3>2 DEF StreamTypeOK
      <4>2. /\ Len(sink[current]) = f + n
            /\ f = 1 => sink[current][1] = Write("notice")
            /\ \A i \in 1..n : sink[current][f + i] = ChunkText(between[i])
        BY <2>1 DEF Wrote
      <4>3. /\ Len(sink'[current]) = f + n + 1
            /\ sink'[current][f + n + 1] = chunkCh[1]
            /\ \A i \in 1..(f + n) : sink'[current][i] = sink[current][i]
        BY <2>5, <4>1, <4>2
      <4>4. ASSUME NEW i \in 1..(n + 1) PROVE sink'[current][f + i] = ChunkText(between[i])
        <5>1. CASE i = n + 1
          BY <2>5, <3>3, <4>3, <5>1
        <5>2. CASE i \in 1..n
          <6>1. f + i \in 1..(f + n)
            BY <2>5, <5>2
          <6> QED BY <4>2, <4>3, <5>2, <6>1
        <5> QED BY <2>5, <5>1, <5>2
      <4>5. f = 1 => sink'[current][1] = Write("notice")
        BY <2>5, <4>2, <4>3
      <4> QED BY <1>1, <2>2, <2>5, <3>3, <4>3, <4>4, <4>5 DEF Wrote
    <3>5. Rest(0, e - 1, n + 1)
      <4>1. e - 1 \in 1..l
        BY <2>5, <3>2
      <4>2. IF phase = "ack" THEN e - 1 \in 1..(l - 1) /\ chunkCh'[e - 1] = End(current) ELSE e - 1 = l
        BY <1>1, <2>3, <2>5, <3>2
      <4>3. ASSUME NEW k \in 1..(l - 1), k \notin {0, e - 1} PROVE chunkCh'[k].kind = "chunk"
        <5>1. k + 1 \in 1..l /\ k + 1 \notin {b, e}
          BY <2>5, <3>2, <4>3
        <5> QED BY <1>1, <2>3, <5>1
      <4>4. ASSUME NEW k \in 1..((e - 1) - 1 - 0)
            PROVE  chunkCh'[0 + k] = ChunkText(between[(n + 1) + k])
        <5>1. k \in 1..(l - 1) /\ k + 1 \in 1..(e - 1 - b) /\ b + (k + 1) = k + 1
              /\ n + (k + 1) = (n + 1) + k /\ 0 + k = k
          BY <2>5, <3>2
        <5> QED BY <1>1, <2>3, <5>1
      <4>5. m = (n + 1) + ((e - 1) - 1 - 0)
        BY <2>3, <2>5, <3>2
      <4> QED BY <4>2, <4>3, <4>4, <4>5 DEF Rest
    <3>6. e - 1 \in 1..l /\ 0 < e - 1 /\ 0 \in 0..(l - 1)
      BY <1>1, <2>5, <3>2
    <3> QED BY <2>4, <2>5, <2>7, <3>1, <3>2, <3>3, <3>4, <3>5, <3>6
  <2>12. CASE chunkCh[1].kind = "chunk" /\ td = NoTurn
    <3>1. UNCHANGED <<endDone, sink, td>>
      BY <1>2, <2>12
    <3>2. b >= 2 /\ n = 0 /\ chunkCh[b] = Begin(current)
      BY <1>3, <2>3, <2>4, <2>5, <2>12
    <3>3. chunkCh'[b - 1] = Begin(current)
      BY <1>1, <2>5, <3>2
    <3>4. /\ b - 1 \in 0..(l - 1) /\ e - 1 \in 1..l /\ b - 1 < e - 1 /\ b - 1 # 0
          /\ 0 \in 0..m
      BY <2>3, <2>5, <3>2
    <3>5. Rest(b - 1, e - 1, 0) /\ Wrote(f, 0)'
      BY <2>5, <2>6, <2>8, <3>1, <3>2
    <3> QED BY <2>4, <2>7, <2>12, <3>1, <3>3, <3>4, <3>5
  <2> QED BY <1>2, <2>9, <2>10, <2>11, <2>12
<1> QED
  BY <1>4, <1>5

LEMMA WindowPreserved ==
  ASSUME StreamIInv, [StreamNext]_allVars
  PROVE  WindowStage' /\ WindowIsWritten'
<1> USE DEF StreamIInv
<1>1. ASSUME NEW t \in Turns, Submit(t) PROVE WindowStage' /\ WindowIsWritten'
  <2>1. UNCHANGED <<phase, endDone, chunkCh, td, between, current>>
    BY <1>1 DEF Submit, Push, PushRoom, PushShedding, PushPastCap, PushRefused, Enqueue,
       runnerVars, phaseVars, streamVars
  <2>2. submit[t] = "new"
    BY <1>1 DEF Submit, Push, PushRoom, PushShedding, PushPastCap, PushRefused
  <2>3. phase # "none" => current # t
    BY <2>2, TurnKinds DEF StreamTypeOK, IInv, EveryTurnAccounted, Held, Turns
  <2>4. phase # "none" => sink'[current] = sink[current]
    BY <1>1, <2>3, TurnKinds DEF Submit, StreamTypeOK, TypeOK
  <2> QED BY <2>1, <2>4, WindowKept
<1>2. ASSUME NEW t \in Turns, CancelContext(t) \/ StreamChunk(t) \/ AgentStops(t)
      PROVE  WindowStage' /\ WindowIsWritten'
  BY <1>2, WindowKept DEF CancelContext, StreamChunk, AgentStops, vars, phaseVars, streamVars
<1>3. ASSUME NEW c \in transit, OnUpdateStopped(c) PROVE WindowStage' /\ WindowIsWritten'
  BY <1>3, WindowKept DEF OnUpdateStopped, vars, phaseVars, streamVars
<1>4. CASE DrainStops \/ GcCloseDrainStop
  BY <1>4, WindowKept DEF DrainStops, GcCloseDrainStop, vars, phaseVars
<1>5. CASE RunnerWaits \/ GcVisits \/ GcRest \/ Settled \/ UNCHANGED allVars
  <2>1. UNCHANGED <<current, streamState>>
    BY <1>5 DEF RunnerWaits, GcVisits, GcRest, Settled, allVars, vars, FindEmpty, SelectNotify,
       SelectStop, FinishInFlight, GcFindIdle, GcCloseRunStop, GcStop, GcShed, GcForget, runnerVars
  <2> QED BY <2>1, WindowKept DEF streamState, phaseVars, streamVars
<1>6. IInv'
  BY StreamQueueInv
<1> QED
  BY <1>1, <1>2, <1>3, <1>4, <1>5, <1>6, StartWindow, CloseWindow, ApplyWindow, BeginWindow,
     AnswerWindow, EndWindow, FinaliseWindow, UpdateWindow, DrainWindow
     DEF StreamNext, RunTurn, Agent, Notify, Eviction

-----------------------------------------------------------------------------
(* The sinks.                                                              *)

(* The drain writes to the sink of the turn that runs or to none.          *)
LEMMA DrainTarget ==
  ASSUME StreamIInv, td # NoTurn PROVE td = current
<1>1. WindowOpen
  BY DEF StreamIInv, WindowStage, NoWindow
<1>2. PICK f \in 0..1, n \in 0..Len(between), b \in 0..Len(chunkCh), e \in 1..(Len(chunkCh) + 1) :
        Wrote(f, n) /\ Window(b, e, n)
  BY <1>1, OpenWindow DEF StreamIInv
<1> QED BY <1>2 DEF Window

(* Only two sinks are ever written to: that of the turn that runs, while   *)
(* it runs, and that of a prompt that is refused.                          *)
SinkFrame(t) ==
  \/ sink'[t] = sink[t]
  \/ t = current /\ UNCHANGED vars
  \/ submit[t] = "new" /\ submit'[t] = "refused"

LEMMA SinkStep ==
  ASSUME StreamIInv, [StreamNext]_allVars, NEW t \in Turns
  PROVE  SinkFrame(t)
<1> USE DEF SinkFrame, vars
<1>1. ASSUME NEW u \in Turns, Submit(u) PROVE SinkFrame(t)
  <2>1. submit[u] = "new"
    BY <1>1 DEF Submit, Push, PushRoom, PushShedding, PushPastCap, PushRefused
  <2> QED BY <1>1, <2>1 DEF Submit, StreamIInv, StreamTypeOK
<1>2. ASSUME NEW u \in Turns, CancelContext(u) \/ StreamChunk(u) \/ AgentStops(u)
      PROVE  SinkFrame(t)
  BY <1>2 DEF CancelContext, StreamChunk, AgentStops
<1>3. ASSUME NEW c \in transit, OnUpdate(c) \/ OnUpdateStopped(c) PROVE SinkFrame(t)
  BY <1>3 DEF OnUpdate, OnUpdateStopped
<1>4. CASE ApplyOptions \/ Finalise
  BY <1>4 DEF ApplyOptions, Finalise, StreamIInv, StreamTypeOK
<1>5. CASE Drain
  <2>1. UNCHANGED vars /\ (td = NoTurn => UNCHANGED sink)
        /\ (UNCHANGED sink \/ sink' = [sink EXCEPT ![td] = Append(@, Head(chunkCh))])
    BY <1>5 DEF Drain
  <2> QED BY <2>1, DrainTarget DEF StreamIInv, StreamTypeOK
<1>6. CASE StartTurn \/ GiveUpStale \/ SendBeginTurn \/ AgentAnswers \/ AbandonAgent
           \/ SendEndTurn \/ CloseTurn \/ DrainStops \/ GcCloseDrainStop
  BY <1>6 DEF StartTurn, GiveUpStale, SendBeginTurn, AgentAnswers, AbandonAgent, SendEndTurn,
     CloseTurn, DrainStops, GcCloseDrainStop
<1>7. CASE RunnerWaits \/ GcVisits \/ GcRest \/ Settled \/ UNCHANGED allVars
  BY <1>7 DEF RunnerWaits, GcVisits, GcRest, Settled, allVars, streamState
<1> QED
  BY <1>1, <1>2, <1>3, <1>4, <1>5, <1>6, <1>7 DEF StreamNext, RunTurn, Agent, Notify, Eviction

(* A turn that was answered or refused has nothing written to its sink.    *)
LEMMA AnsweredStep ==
  ASSUME StreamIInv, [StreamNext]_allVars, NEW t \in Turns, done[t] > 0 \/ submit[t] = "refused"
  PROVE  sink'[t] = sink[t]
<1>1. TypeOK /\ done[t] \in Nat /\ submit[t] # "new"
  <2>1. TypeOK /\ ShedIsFinal
    BY DEF StreamIInv, IInv
  <2>2. done[t] \in Nat /\ submit[t] \in {"new", "accepted", "refused"}
    BY <2>1 DEF TypeOK
  <2> QED BY <2>1, <2>2 DEF ShedIsFinal
<1>2. t # current
  <2>1. Held(t) => submit[t] = "accepted" /\ done[t] = 0
    BY DEF StreamIInv, IInv, EveryTurnAccounted
  <2> QED BY <1>1, <2>1 DEF Held
<1> QED BY <1>1, <1>2, SinkStep DEF SinkFrame

LEMMA UntouchedPreserved ==
  ASSUME StreamIInv, [StreamNext]_allVars
  PROVE  Untouched'
<1> SUFFICES ASSUME NEW t \in Turns, submit'[t] # "refused", done'[t] = 0, t # current'
             PROVE  sink'[t] = <<>>
  BY DEF Untouched
<1>1. Next \/ UNCHANGED vars
  BY NextRefines DEF allVars
<1>2. submit[t] # "refused" /\ done[t] = 0 /\ t # current
  BY <1>1, TurnsForward DEF StreamIInv
<1>3. sink[t] = <<>>
  BY <1>2 DEF StreamIInv, Untouched
<1> QED BY <1>2, <1>3, SinkStep DEF SinkFrame

(* What WindowIsWritten says of the response of a turn about to be closed  *)
(* is what ServedTurnsAreDone says of one that was.                        *)
LEMMA DoneIsLast ==
  ASSUME NEW cs \in Seq(Chunks), NEW front \in Notices,
         NEW w \in {<<>>, <<Write("error")>>, <<Write("remark")>>}, NEW s,
         s = front \o Texts(cs) \o w \o <<Write("done")>>
  PROVE  /\ s # <<>> /\ Last(s) = Write("done")
         /\ \A i \in 1..(Len(s) - 1) : s[i] # Write("done")
<1> DEFINE Before == Writes \ {Write("done")}
<1>1. /\ Write("notice") \in Before /\ Write("error") \in Before /\ Write("remark") \in Before
      /\ \A c \in Chunks : ChunkText(c) \in Before
  BY MessageTypes DEF Write, ChunkText
<1>2. front \in Seq(Before) /\ w \in Seq(Before)
  <2> HIDE DEF Before
  <2>1. \A x \in Before : <<x>> \in Seq(Before)
    OBVIOUS
  <2> QED BY <1>1, <2>1, EmptyElements DEF Notices
<1>3. Texts(cs) \in Seq(Before)
  <2> HIDE DEF Before
  <2>1. \A i \in 1..Len(cs) : ChunkText(cs[i]) \in Before
    BY <1>1
  <2> QED BY <2>1 DEF Texts
<1> DEFINE a == front \o Texts(cs) \o w
<1>4. a \in Seq(Before)
  <2> HIDE DEF Before
  <2> QED BY <1>2, <1>3, ConcatProperties
<1>5. a \in Seq(Writes) /\ \A i \in 1..Len(a) : a[i] # Write("done")
  <2>1. \A i \in 1..Len(a) : a[i] \in Before
    <3> HIDE DEF a, Before
    <3> QED BY <1>4
  <2> HIDE DEF a
  <2> QED BY <1>4, <2>1
<1>6. s = a \o <<Write("done")>> /\ <<Write("done")>> \in Seq(Writes)
  BY MessageTypes
<1> HIDE DEF a
<1>7. /\ Len(s) = Len(a) + 1 /\ s[Len(a) + 1] = Write("done") /\ s \in Seq(Writes)
      /\ \A i \in 1..Len(a) : s[i] = a[i]
  <2> DEFINE d == <<Write("done")>>
  <2>1. d \in Seq(Writes) /\ Len(d) = 1 /\ d[1] = Write("done")
    BY <1>6
  <2>2. s = a \o d
    BY <1>6
  <2> HIDE DEF d
  <2>3. a \in Seq(Writes) /\ Len(a) \in Nat
    BY <1>5
  <2>4. /\ a \o d \in Seq(Writes) /\ Len(a \o d) = Len(a) + 1
        /\ \A i \in 1..Len(a) : (a \o d)[i] = a[i]
        /\ (a \o d)[Len(a) + 1] = d[1]
    <3>1. /\ a \o d \in Seq(Writes) /\ Len(a \o d) = Len(a) + Len(d)
          /\ \A i \in 1..(Len(a) + Len(d)) :
                (a \o d)[i] = IF i <= Len(a) THEN a[i] ELSE d[i - Len(a)]
      BY ONLY <2>1, <2>3, ConcatProperties
    <3> QED BY ONLY <2>1, <2>3, <3>1
  <2> QED BY ONLY <2>1, <2>2, <2>4
<1>8. Len(a) \in Nat /\ Len(s) - 1 = Len(a)
  BY <1>5, <1>7
<1>9. s # <<>>
  BY <1>7, <1>8, EmptyElements
<1> QED BY <1>5, <1>7, <1>8, <1>9 DEF Last

LEMMA ServedPreserved ==
  ASSUME StreamIInv, [StreamNext]_allVars
  PROVE  ServedTurnsAreDone'
<1> DEFINE Ended(x) == /\ x # <<>> /\ Last(x) = Write("done")
                       /\ \A i \in 1..(Len(x) - 1) : x[i] # Write("done")
<1> SUFFICES ASSUME NEW t \in Turns, done'[t] > 0, t \notin shed'
             PROVE  Ended(sink'[t])
  BY DEF ServedTurnsAreDone
<1>1. \A u \in Turns : done[u] > 0 /\ u \notin shed => Ended(sink[u])
  BY DEF StreamIInv, ServedTurnsAreDone
<1> HIDE DEF Ended
<1>2. CASE done[t] > 0 /\ t \notin shed
  BY <1>1, <1>2, AnsweredStep
<1>3. CASE CloseTurn /\ ~(done[t] > 0 /\ t \notin shed)
  <2>1. t = current /\ phase = "close" /\ sink' = sink
    BY <1>3 DEF CloseTurn, EndTurn, CloseDone, StreamIInv, IInv, TypeOK
  <2>2. PICK front \in Notices, w \in {<<>>, <<Write("error")>>, <<Write("remark")>>} :
          sink[t] = front \o Texts(between) \o w \o <<Write("done")>>
    BY <2>1 DEF StreamIInv, WindowIsWritten
  <2>3. between \in Seq(Chunks)
    BY DEF StreamIInv, StreamTypeOK
  <2>4. Ended(sink[t])
    BY <2>2, <2>3, DoneIsLast DEF Ended
  <2> QED BY <2>1, <2>4
<1>4. CASE OtherStep
  BY <1>2, <1>4, ClosedOrShed DEF StreamIInv
<1>5. CloseTurn \/ OtherStep
  BY QueueStep DEF OtherStep, allVars
<1> QED BY <1>2, <1>3, <1>4, <1>5

-----------------------------------------------------------------------------
(* The theorems.                                                           *)

LEMMA StreamInitIInv == StreamInit => StreamIInv
<1> SUFFICES ASSUME StreamInit PROVE StreamIInv
  OBVIOUS
<1>1. IInv /\ TypeOK
  BY InitIInv DEF StreamInit, IInv
<1>2. current = NoTurn /\ runner = "lock"
  BY DEF StreamInit, Init
<1>3. StreamTypeOK
  <2>1. chunkCh \in Seq(ChunkMsgs) /\ Len(chunkCh) <= chunkChCap /\ between \in Seq(Chunks)
    BY ChunkBounds, EmptyElements DEF StreamInit
  <2>2. streamed \in [Turns -> 0..ChunksPerTurn] /\ sink \in [Turns -> Seq(Writes)]
    BY ChunkBounds, EmptyElements DEF StreamInit
  <2> QED BY <1>1, <1>2, <2>1, <2>2 DEF StreamInit, StreamTypeOK
<1>4. WindowStage /\ WindowIsWritten
  BY EmptyElements DEF StreamInit, WindowStage, WindowOpen, NoWindow, WindowIsWritten
<1>5. Untouched /\ ServedTurnsAreDone
  BY DEF StreamInit, Init, Untouched, ServedTurnsAreDone
<1> QED BY <1>1, <1>3, <1>4, <1>5 DEF StreamIInv

LEMMA StreamNextIInv == StreamIInv /\ [StreamNext]_allVars => StreamIInv'
BY StreamQueueInv, StreamTypes, WindowPreserved, UntouchedPreserved, ServedPreserved DEF StreamIInv

(* The queue, the runner, the drain, the agent and the sinks together keep *)
(* the inductive invariant.                                                *)
THEOREM StreamInvariant == StreamSpec => []StreamIInv
BY StreamInitIInv, StreamNextIInv, PTL DEF StreamSpec

(* chunkCh never holds more than its capacity, a turn is at a stage of     *)
(* runOneTurn exactly while the runner has it, and all keeps its shape.    *)
THEOREM StreamTypeCorrect == StreamSpec => []StreamTypeOK
BY StreamInvariant, PTL DEF StreamIInv

(* A turn that is ended has got what was put on chunkCh between its        *)
(* beginTurn and its endTurn, all of it, in that order, and nothing else.  *)
THEOREM AnswerIsComplete == StreamSpec => []WindowIsWritten
BY StreamInvariant, PTL DEF StreamIInv

(* A turn that was served has ended its response once, as its last call.   *)
THEOREM ResponseEndsOnce == StreamSpec => []ServedTurnsAreDone
BY StreamInvariant, PTL DEF StreamIInv

(* No step writes to the sink of a turn whose submitter may have returned. *)
THEOREM NothingAfterReturn == StreamSpec => NoWriteAfterReturn
<1>1. StreamIInv /\ [StreamNext]_allVars =>
        [\A t \in Turns : done[t] > 0 \/ submit[t] = "refused" => sink'[t] = sink[t]]_allVars
  BY AnsweredStep
<1> QED BY <1>1, StreamInvariant, PTL DEF StreamSpec, NoWriteAfterReturn

(* What a runner waits for at `<-endDone` (router.go:736) is on its way:   *)
(* the turn's endTurn is in chunkCh, once, behind its beginTurn if that is *)
(* still there, and no other turn's messages are.  So the drain alone can  *)
(* keep it waiting, and a drain that goes on reading does not.             *)
AckIsComing ==
  phase = "ack" /\ ~endDone =>
    \E e \in 1..Len(chunkCh) :
      /\ chunkCh[e] = End(current)
      /\ \A k \in 1..Len(chunkCh) : k # e =>
           \/ chunkCh[k].kind = "chunk"
           \/ k < e /\ chunkCh[k] = Begin(current)

(* runOneTurn never waits for an acknowledgement that nobody has been      *)
(* asked for, or that another turn's messages could be taken for.          *)
THEOREM RunnerIsAnswered == StreamSpec => []AckIsComing
<1>1. StreamIInv => AckIsComing
  <2> SUFFICES ASSUME StreamIInv, phase = "ack", ~endDone PROVE AckIsComing
    BY DEF AckIsComing
  <2>1. WindowOpen
    BY DEF WindowOpen
  <2>2. PICK f \in 0..1, n \in 0..Len(between), b \in 0..Len(chunkCh), e \in 1..(Len(chunkCh) + 1) :
          Wrote(f, n) /\ Window(b, e, n)
    BY <2>1, OpenWindow DEF StreamIInv
  <2>3. e \in 1..Len(chunkCh) /\ chunkCh[e] = End(current)
    BY <2>2 DEF Window
  <2>4. ASSUME NEW k \in 1..Len(chunkCh), k # e
        PROVE  chunkCh[k].kind = "chunk" \/ (k < e /\ chunkCh[k] = Begin(current))
    BY <2>2, <2>4 DEF Window
  <2> QED BY <2>3, <2>4 DEF AckIsComing
<1> QED BY <1>1, StreamInvariant, PTL
=============================================================================
