------------------------------ MODULE AuthBroker ------------------------------
(***************************************************************************)
(* Logins over chat (internal/authbroker/authbroker.go) and the handler's  *)
(* intercept in front of them (internal/httpsrv/handler.go: handleQuery,   *)
(* handleAuth), for one conversation.  Every critical section of the       *)
(* broker's mutex is one action, and so is every authenticate call.        *)
(* Nothing keeps a second query of the conversation out while one is being *)
(* handled.  The login a request starts is named after the request.        *)
(***************************************************************************)
EXTENDS Naturals, FiniteSets

CONSTANTS
  Requests,  \* queries of the conversation
  None

ASSUME AuthConstants == None \notin Requests

(* What a query says: a provider's login, one nobody offers, the list, the *)
(* cancellation, only spaces, or anything else (a pasted URL, or chat).    *)
Commands == {"login", "unknown", "logins", "cancel"}
Says == Commands \cup {"blank", "chat"}

VARIABLES
  pending,   \* Broker.pending[conv]: a login or None
  pc,        \* how far each request has come
  says,      \* what it says
  entry,     \* the pending login it saw when it last looked
  answer,    \* what its client was sent, or "router" for a normal prompt
  offered,   \* history: logins whose URL the user has, still to be used
  rivals,    \* history: who had looked at the map when a login entered it
  took       \* history: the login a request removed from the map

vars == <<pending, pc, says, entry, answer, offered, rivals, took>>

TypeOK ==
  /\ pending \in Requests \cup {None}
  /\ pc \in [Requests -> {"idle", "handle", "check", "start", "started",
                          "submit", "drop", "delete", "cancel", "end"}]
  /\ says \in [Requests -> Says \cup {None}]
  /\ entry \in [Requests -> Requests \cup {None}]
  /\ answer \in [Requests -> {"none", "router", "silent", "text", "url", "error"}]
  /\ offered \subseteq Requests
  /\ rivals \in [Requests -> SUBSET Requests]
  /\ took \in [Requests -> Requests \cup {None}]
  /\ \A r \in Requests : pc[r] = "end" <=> answer[r] # "none"

Init ==
  /\ pending = None
  /\ pc = [r \in Requests |-> "idle"]
  /\ says = [r \in Requests |-> None]
  /\ entry = [r \in Requests |-> None]
  /\ answer = [r \in Requests |-> "none"]
  /\ offered = {}
  /\ rivals = [r \in Requests |-> {}]
  /\ took = [r \in Requests |-> None]

Goto(r, stage) ==
  /\ pc' = [pc EXCEPT ![r] = stage]
  /\ UNCHANGED answer

Answer(r, a) ==
  /\ pc' = [pc EXCEPT ![r] = "end"]
  /\ answer' = [answer EXCEPT ![r] = a]

(* Those who go on to change the map by what they have seen in it.         *)
Looked == {r \in Requests : pc[r] \in {"start", "started", "submit", "drop",
                                        "delete"}}

(* The map gets the entry p, or none.                                      *)
SetPending(r, p) ==
  /\ pending' = p
  /\ took' = [took EXCEPT ![r] = pending]

-----------------------------------------------------------------------------
(* handleQuery: HasPending decides whether the broker gets the query.      *)

(* Mutant of Intercepted: the broker gets every query. *)
InterceptedAlways(s) == s \in Says

Intercepted(s) == pending # None \/ s \in Commands

Arrive(r, s) ==
  /\ pc[r] = "idle"
  /\ says' = [says EXCEPT ![r] = s]
  /\ entry' = [entry EXCEPT ![r] = pending]
  /\ IF Intercepted(s) THEN Goto(r, "handle") ELSE Answer(r, "router")
  /\ UNCHANGED <<pending, offered, rivals, took>>

(* Broker.Handle looks again: the entry may be another, or gone.           *)
(* handleAuth renders a nil outcome as an empty response.                  *)
HandlePending(r) ==
  /\ pc[r] = "handle" /\ pending # None
  /\ entry' = [entry EXCEPT ![r] = pending]
  /\ CASE says[r] = "cancel" -> Goto(r, "delete")
       [] says[r] = "blank"  -> Answer(r, "text")
       [] OTHER              -> Goto(r, "submit")
  /\ UNCHANGED <<pending, says, offered, rivals, took>>

HandleCommand(r) ==
  /\ pc[r] = "handle" /\ pending = None
  /\ CASE says[r] = "login"    -> Goto(r, "check")
       [] says[r] \in Commands \ {"login"} -> Answer(r, "text")
       [] OTHER                -> Answer(r, "silent")
  /\ UNCHANGED <<pending, says, entry, offered, rivals, took>>

(* start: the test for a pending login, the agent's call, the new entry.   *)
StartCheck(r) ==
  /\ pc[r] = "check"
  /\ IF pending # None THEN Answer(r, "text") ELSE Goto(r, "start")
  /\ UNCHANGED <<pending, says, entry, offered, rivals, took>>

(* The agent wants a redirect, or says anything else, or the call fails.   *)
StartAuthenticate(r) ==
  /\ pc[r] = "start"
  /\ Goto(r, "started") \/ Answer(r, "text") \/ Answer(r, "error")
  /\ UNCHANGED <<pending, says, entry, offered, rivals, took>>

(* Mutant of StartPending: the login is not remembered. *)
StartForgets(r) ==
  /\ pc[r] = "started"
  /\ offered' = offered \cup {r}
  /\ Answer(r, "url")
  /\ UNCHANGED <<pending, says, entry, rivals, took>>

StartPending(r) ==
  /\ pc[r] = "started"
  /\ SetPending(r, r)
  /\ offered' = offered \cup {r}
  /\ rivals' = [rivals EXCEPT ![r] = Looked \ {r}]
  /\ Answer(r, "url")
  /\ UNCHANGED <<says, entry>>

(* complete: the agent's call, then the entry goes, whatever it answered.  *)
Submit(r) ==
  /\ pc[r] = "submit"
  /\ offered' = offered \ {entry[r]}
  /\ Goto(r, "drop")
  /\ UNCHANGED <<pending, says, entry, rivals, took>>

(* Mutant of CompleteDrop: a failed paste leaves the entry. *)
DropUnlessFailed(r) ==
  /\ pc[r] = "drop"
  /\ SetPending(r, None) \/ UNCHANGED <<pending, took>>
  /\ Answer(r, "text")
  /\ UNCHANGED <<says, entry, offered, rivals>>

CompleteDrop(r) ==
  /\ pc[r] = "drop"
  /\ SetPending(r, None)
  /\ Answer(r, "text")
  /\ UNCHANGED <<says, entry, offered, rivals>>

(* cancel: the entry goes, then the agent is told.                         *)
CancelDelete(r) ==
  /\ pc[r] = "delete"
  /\ SetPending(r, None)
  /\ offered' = offered \ {entry[r]}
  /\ Goto(r, "cancel")
  /\ UNCHANGED <<says, entry, rivals>>

CancelAuthenticate(r) ==
  /\ pc[r] = "cancel"
  /\ Answer(r, "text")
  /\ UNCHANGED <<pending, says, entry, offered, rivals, took>>

Handle(r) ==
  \/ HandlePending(r) \/ HandleCommand(r)
  \/ StartCheck(r) \/ StartAuthenticate(r) \/ StartPending(r)
  \/ Submit(r) \/ CompleteDrop(r)
  \/ CancelDelete(r) \/ CancelAuthenticate(r)

Finished == (\A r \in Requests : pc[r] = "end") /\ UNCHANGED vars

Next ==
  \/ \E r \in Requests : (\E s \in Says : Arrive(r, s)) \/ Handle(r)
  \/ Finished

Spec == Init /\ [][Next]_vars

-----------------------------------------------------------------------------
(* Properties.                                                             *)

(* The map has lost a login to a query that had looked at it before the    *)
(* login was there.                                                        *)
Lost(l) == \E q \in rivals[l] : took[q] = l

(* However the queries of a conversation overlap, and whichever calls      *)
(* fail: a login whose URL the user was given is the pending one until it  *)
(* is used, so that the URL pasted in answer reaches the agent, unless a   *)
(* query that had looked at the map before (authbroker.go:148, 193, 211)   *)
(* took it away; and a login that was used is pending no longer than the   *)
(* query that used it takes, so that no chat is sent to the agent for it.  *)
LoginIsPending ==
  /\ \A l \in offered : pending = l \/ Lost(l)
  /\ pending \in Requests \ offered =>
       \E q \in Requests : pc[q] = "drop" /\ entry[q] = pending

(* handler.go:430, "Should not happen - broker returned nil for an auth    *)
(* turn": a message is answered by an empty response only if it came while *)
(* a login was pending, and this was used or lost before Handle looked.    *)
NoMessageSwallowed ==
  \A r \in Requests : answer[r] = "silent" =>
    /\ says[r] \notin Commands
    /\ entry[r] # None
    /\ entry[r] \notin offered \/ Lost(entry[r])

(* authbroker.go:4: "Each Poe conversation can have at most one in-flight  *)
(* login": one that was not lost.  Two queries may both pass the test for  *)
(* a pending login before either stores its own: the user has two URLs,    *)
(* and the relay has forgotten the first.                                  *)
AtMostOneLogin == Cardinality({l \in offered : ~Lost(l)}) <= 1
=============================================================================
