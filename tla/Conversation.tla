----------------------------- MODULE Conversation -----------------------------
(***************************************************************************)
(* What the relay's map of sessions promises the requests of one           *)
(* conversation, however they race to create its session and whenever it   *)
(* is evicted (internal/router/router.go).  There is one session at a      *)
(* time, named after the request that opened it, and one line before it.   *)
(* Whoever holds it may join the line, which it serves one at a time;      *)
(* whoever holds a session that has been closed is refused; those who wait *)
(* when it is closed are dropped.  Only a session that is idle starts to   *)
(* close: so the one it may be serving when it has closed, and never       *)
(* answer, came after that.                                                *)
(***************************************************************************)
EXTENDS Naturals, Sequences

CONSTANTS Requests, None

VARIABLES
  session,  \* the conversation's session, or None
  closing,  \* it was idle and is about to be closed
  given,    \* the session each request was given, or None
  fate,     \* how far each request has come
  line      \* who waits before the session, in order

vars == <<session, closing, given, fate, line>>

Init ==
  /\ session = None /\ closing = FALSE
  /\ given = [r \in Requests |-> None]
  /\ fate = [r \in Requests |-> "new"]
  /\ line = <<>>

Become(r, f) == fate' = [fate EXCEPT ![r] = f]

Take(r, s) ==
  /\ fate[r] = "new" /\ Become(r, "given")
  /\ given' = [given EXCEPT ![r] = s]
  /\ ~closing
  /\ UNCHANGED <<closing, line>>

(* A request is given the session there is, or opens its own.              *)
Join(r) == session # None /\ Take(r, session) /\ UNCHANGED session
Open(r) == session = None /\ Take(r, r) /\ session' = r

(* The agent makes no session for it.                                      *)
Fail(r) ==
  /\ fate[r] = "new" /\ Become(r, "failed")
  /\ UNCHANGED <<session, closing, given, line>>

Wait(r) ==
  /\ fate[r] = "given" /\ given[r] = session
  /\ Become(r, "waiting")
  /\ line' = Append(line, r)
  /\ UNCHANGED <<session, closing, given>>

Refuse(r) ==
  /\ fate[r] = "given" /\ given[r] # session
  /\ Become(r, "refused")
  /\ UNCHANGED <<session, closing, given, line>>

Busy == \E r \in Requests : given[r] = session /\ fate[r] = "running"

Serve ==
  /\ line # <<>> /\ ~Busy
  /\ Become(Head(line), "running")
  /\ line' = Tail(line)
  /\ UNCHANGED <<session, closing, given>>

(* Nobody's service ends while the session is being closed.                *)
End(r) ==
  /\ fate[r] = "running" /\ ~closing
  /\ Become(r, "served")
  /\ UNCHANGED <<session, closing, given, line>>

Abandon(r) ==
  /\ fate[r] = "running" /\ given[r] # session
  /\ Become(r, "stranded")
  /\ UNCHANGED <<session, closing, given, line>>

StartClosing ==
  /\ session # None /\ ~closing
  /\ line = <<>> /\ ~Busy
  /\ closing' = TRUE
  /\ UNCHANGED <<session, given, fate, line>>

Close ==
  /\ closing /\ closing' = FALSE
  /\ session' = None
  /\ fate' = [r \in Requests |-> IF fate[r] = "waiting" THEN "dropped" ELSE fate[r]]
  /\ line' = <<>>
  /\ UNCHANGED given

Next ==
  \/ \E r \in Requests :
       Join(r) \/ Open(r) \/ Fail(r) \/ Wait(r) \/ Refuse(r) \/ End(r) \/ Abandon(r)
  \/ Serve \/ StartClosing \/ Close

Spec == Init /\ [][Next]_vars
=============================================================================
