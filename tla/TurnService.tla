---------------------------- MODULE TurnService ----------------------------
(***************************************************************************)
(* What one conversation's session promises the requests that reach it,    *)
(* whatever queue, goroutines and channels it is made of                   *)
(* (internal/router/router.go).  A turn is a user prompt or a message      *)
(* reaction.  Accepted turns wait in one line in the order they were       *)
(* accepted and are served one at a time from its front.  A reaction may   *)
(* be dropped, a prompt only once the session is closed.                   *)
(***************************************************************************)
EXTENDS Naturals, SequencesExt

CONSTANTS
  Prompts,    \* turns that carry a user's message (turnUser)
  Reactions,  \* out-of-band turns nobody waits for (turnReaction)
  NoTurn      \* stands for "none"

Turns == Prompts \cup Reactions

VARIABLES
  line,     \* accepted turns that wait to be served, in order of acceptance
  serving,  \* the turn being served, or NoTurn
  fate,     \* how far each turn has come
  closed    \* the session accepts no more turns

vars == <<line, serving, fate, closed>>

Fates == {"new", "waiting", "serving", "refused", "served", "dropped"}

TypeOK ==
  /\ line \in Seq(Turns)
  /\ serving \in Turns \cup {NoTurn}
  /\ fate \in [Turns -> Fates]
  /\ closed \in BOOLEAN

Init ==
  /\ line = <<>>
  /\ serving = NoTurn
  /\ fate = [t \in Turns |-> "new"]
  /\ closed = FALSE

Accept(t) ==
  /\ fate[t] = "new" /\ ~closed
  /\ line' = Append(line, t)
  /\ fate' = [fate EXCEPT ![t] = "waiting"]
  /\ UNCHANGED <<serving, closed>>

(* A turn may be let in at the expense of the reaction that has waited     *)
(* longest.                                                                *)
AcceptDisplacing(t, i) ==
  /\ fate[t] = "new" /\ ~closed
  /\ line[i] \in Reactions
  /\ \A j \in 1..(i - 1) : line[j] \in Prompts
  /\ line' = Append(RemoveAt(line, i), t)
  /\ fate' = [fate EXCEPT ![t] = "waiting", ![line[i]] = "dropped"]
  /\ UNCHANGED <<serving, closed>>

(* An open session refuses no prompt.                                      *)
Refuse(t) ==
  /\ fate[t] = "new"
  /\ closed \/ t \in Reactions
  /\ fate' = [fate EXCEPT ![t] = "refused"]
  /\ UNCHANGED <<line, serving, closed>>

Start ==
  /\ serving = NoTurn /\ line # <<>> /\ ~closed
  /\ serving' = Head(line)
  /\ line' = Tail(line)
  /\ fate' = [fate EXCEPT ![Head(line)] = "serving"]
  /\ UNCHANGED closed

Served ==
  /\ serving # NoTurn
  /\ fate' = [fate EXCEPT ![serving] = "served"]
  /\ serving' = NoTurn
  /\ UNCHANGED <<line, closed>>

(* A reaction that waited too long is given up when its turn comes.        *)
GiveUp ==
  /\ serving \in Reactions
  /\ fate' = [fate EXCEPT ![serving] = "dropped"]
  /\ serving' = NoTurn
  /\ UNCHANGED <<line, closed>>

Close ==
  /\ ~closed
  /\ closed' = TRUE
  /\ UNCHANGED <<line, serving, fate>>

(* A closed session drops whatever still waits, front first.               *)
DropWaiting ==
  /\ closed /\ line # <<>>
  /\ line' = Tail(line)
  /\ fate' = [fate EXCEPT ![Head(line)] = "dropped"]
  /\ UNCHANGED <<serving, closed>>

Next ==
  \/ \E t \in Turns : \/ Accept(t)
                      \/ Refuse(t)
                      \/ \E i \in 1..Len(line) : AcceptDisplacing(t, i)
  \/ Start \/ Served \/ GiveUp
  \/ Close \/ DropWaiting

Spec == Init /\ [][Next]_vars
=============================================================================
