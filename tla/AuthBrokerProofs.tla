-------------------------- MODULE AuthBrokerProofs --------------------------
(***************************************************************************)
(* AuthBroker, for any number of queries handled at a time: the map and    *)
(* what the user has been told agree, but for logins lost to a query that  *)
(* had looked at the map before they were in it.                           *)
(***************************************************************************)
EXTENDS AuthBroker, FiniteSetTheorems, TLAPS

(* A login that is in the map, or that the user has, has been started, and *)
(* the query that started it is over.                                      *)
Started ==
  /\ pending # None => pc[pending] = "end"
  /\ \A l \in offered : pc[l] = "end"

(* So has one that a query saw.  A query that came to the broker is a      *)
(* command or has seen a login; one that acts on a login has seen it, and  *)
(* one that submitted it used it up.                                       *)
Saw(r) ==
  /\ entry[r] # None => pc[entry[r]] = "end"
  /\ pc[r] = "handle" => says[r] \in Commands \/ entry[r] # None
  /\ pc[r] \in {"submit", "drop", "delete"} => entry[r] # None
  /\ pc[r] = "drop" => entry[r] \notin offered

(* Whoever goes on to change the map has seen the pending login there, or  *)
(* had looked before it was there.                                         *)
KnownRival(r) ==
  r \in Looked /\ pending # None =>
    \/ r \in rivals[pending]
    \/ entry[r] = pending /\ pc[r] \notin {"start", "started"}

(* A query changes the map once. *)
TookOnce(r) == took[r] # None => pc[r] \in {"cancel", "end"}

(* NoMessageSwallowed, of one message. *)
Swallowed(r) ==
  answer[r] = "silent" =>
    /\ says[r] \notin Commands
    /\ entry[r] # None
    /\ entry[r] \notin offered \/ Lost(entry[r])

QueryInv(r) == Saw(r) /\ KnownRival(r) /\ TookOnce(r) /\ Swallowed(r)

IInv ==
  /\ TypeOK /\ Started /\ LoginIsPending
  /\ \A r \in Requests : QueryInv(r)

-----------------------------------------------------------------------------
LEMMA InitIInv == Init => IInv
<1> SUFFICES ASSUME Init PROVE IInv
  OBVIOUS
<1>1. TypeOK
  BY DEF Init, TypeOK
<1>2. Started /\ LoginIsPending
  BY AuthConstants DEF Init, Started, LoginIsPending
<1>3. ASSUME NEW r \in Requests PROVE QueryInv(r)
  BY DEF Init, QueryInv, Saw, KnownRival, TookOnce, Swallowed
<1> QED BY <1>1, <1>2, <1>3 DEF IInv

Others(r) ==
  \A q \in Requests \ {r} : /\ pc'[q] = pc[q] /\ entry'[q] = entry[q]
                            /\ says'[q] = says[q] /\ answer'[q] = answer[q]

(* A step that leaves the map alone is the concern of its query only.      *)
LEMMA MapStays ==
  ASSUME IInv, TypeOK', NEW r \in Requests, pc[r] \notin {"drop", "end"},
         UNCHANGED <<pending, offered, rivals, took>>, Others(r), QueryInv(r)'
  PROVE  IInv'
<1> USE DEF IInv, Others
<1>1. \A l \in Requests : pc[l] = "end" => pc'[l] = "end"
  OBVIOUS
<1>2. \A l : Lost(l)' <=> Lost(l)
  BY DEF Lost
<1>3. Started'
  BY <1>1 DEF Started, TypeOK
<1>4. LoginIsPending'
  <2>1. \A q \in Requests : pc[q] = "drop" => pc'[q] = "drop" /\ entry'[q] = entry[q]
    OBVIOUS
  <2>2. \A l \in offered : pending = l \/ Lost(l)'
    BY <1>2 DEF LoginIsPending
  <2>3. pending \in Requests \ offered =>
          \E q \in Requests : pc'[q] = "drop" /\ entry'[q] = pending
    BY <2>1 DEF LoginIsPending
  <2> QED BY <2>2, <2>3 DEF LoginIsPending
<1>5. ASSUME NEW q \in Requests \ {r} PROVE QueryInv(q)'
  <2>1. QueryInv(q)
    OBVIOUS
  <2>2. Saw(q)'
    BY <1>1, <2>1 DEF QueryInv, Saw, TypeOK
  <2>3. KnownRival(q)'
    BY <2>1 DEF QueryInv, KnownRival, Looked
  <2>4. TookOnce(q)' /\ Swallowed(q)'
    BY <1>2, <2>1 DEF QueryInv, TookOnce, Swallowed
  <2> QED BY <2>2, <2>3, <2>4 DEF QueryInv
<1> QED BY <1>3, <1>4, <1>5

(* Before the broker, and where it only looks, asks or answers.            *)
LEMMA Looking ==
  ASSUME IInv, NEW r \in Requests,
         \/ \E s \in Says : Arrive(r, s)
         \/ HandlePending(r) \/ HandleCommand(r)
         \/ StartCheck(r) \/ StartAuthenticate(r) \/ CancelAuthenticate(r)
  PROVE  IInv'
<1> USE AuthConstants DEF IInv, Goto, Answer, Commands, Says
<1>1. /\ UNCHANGED <<pending, offered, rivals, took>> /\ Others(r)
      /\ pc[r] \notin {"drop", "end"} /\ TypeOK'
  <2>1. CASE \E s \in Says : Arrive(r, s)
    BY <2>1 DEF Arrive, TypeOK, Others
  <2>2. CASE HandlePending(r)
    BY <2>2 DEF HandlePending, TypeOK, Others
  <2>3. CASE HandleCommand(r)
    BY <2>3 DEF HandleCommand, TypeOK, Others
  <2>4. CASE StartCheck(r) \/ StartAuthenticate(r) \/ CancelAuthenticate(r)
    BY <2>4 DEF StartCheck, StartAuthenticate, CancelAuthenticate, TypeOK, Others
  <2> QED BY <2>1, <2>2, <2>3, <2>4
<1>2. QueryInv(r)'
  <2> USE DEF QueryInv, Saw, KnownRival, TookOnce, Swallowed, Looked, TypeOK
  <2>1. CASE \E s \in Says : Arrive(r, s)
    BY <2>1 DEF Arrive, Started, Intercepted
  <2>2. CASE HandlePending(r)
    BY <2>2 DEF HandlePending, Started
  <2>3. CASE HandleCommand(r)
    <3>1. entry[r] # None /\ entry[r] \in offered => Lost(entry[r])
      BY <2>3 DEF HandleCommand, LoginIsPending
    <3>2. Lost(entry[r]) => Lost(entry[r])'
      BY <1>1, <2>3 DEF Lost, HandleCommand
    <3> QED BY <2>3, <3>1, <3>2 DEF HandleCommand
  <2>4. CASE StartCheck(r)
    BY <2>4 DEF StartCheck
  <2>5. CASE StartAuthenticate(r)
    BY <2>5 DEF StartAuthenticate
  <2>6. CASE CancelAuthenticate(r)
    BY <2>6 DEF CancelAuthenticate
  <2> QED BY <2>1, <2>2, <2>3, <2>4, <2>5, <2>6
<1> QED BY <1>1, <1>2, MapStays

(* complete asks the agent: the login is used up, and its query will drop  *)
(* it from the map.                                                        *)
LEMMA Submitting == ASSUME IInv, NEW r \in Requests, Submit(r) PROVE IInv'
<1> USE DEF IInv
<1>1. /\ pc[r] = "submit" /\ pc' = [pc EXCEPT ![r] = "drop"]
      /\ offered' = offered \ {entry[r]}
      /\ UNCHANGED <<pending, says, entry, answer, rivals, took>>
  BY DEF Submit, Goto
<1>2. TypeOK'
  BY <1>1 DEF TypeOK
<1>3. /\ pc'[r] = "drop" /\ \A q \in Requests \ {r} : pc'[q] = pc[q]
      /\ entry[r] # None /\ entry[r] \in Requests
  BY <1>1 DEF TypeOK, QueryInv, Saw
<1>4. \A l : Lost(l)' <=> Lost(l)
  BY <1>1 DEF Lost
<1>5. Started'
  BY <1>1, <1>3 DEF Started, TypeOK
<1>6. LoginIsPending'
  <2>1. pending \in Requests \ offered' =>
          \E q \in Requests : pc'[q] = "drop" /\ entry[q] = pending
    BY <1>1, <1>3 DEF LoginIsPending
  <2> QED BY <1>1, <1>4, <2>1 DEF LoginIsPending
<1>7. ASSUME NEW q \in Requests PROVE QueryInv(q)'
  <2>1. QueryInv(q)
    OBVIOUS
  <2>2. Saw(q)'
    BY <1>1, <1>3, <2>1 DEF QueryInv, Saw, TypeOK
  <2>3. KnownRival(q)' /\ TookOnce(q)' /\ Swallowed(q)'
    BY <1>1, <1>3, <1>4, <2>1 DEF QueryInv, KnownRival, Looked, TookOnce, Swallowed
  <2> QED BY <2>2, <2>3 DEF QueryInv
<1> QED BY <1>2, <1>5, <1>6, <1>7

(* Only a query that has not changed the map yet does, so no login is lost *)
(* less by that; and only a rival can take one the user still has.         *)
LEMMA LoginsKept ==
  ASSUME IInv, NEW r \in Looked, NEW p \in Requests \cup {None}, SetPending(r, p),
         pc[r] # "submit", pc[r] = "delete" => entry[r] \notin offered',
         offered' \subseteq offered \cup {p},
         \A l \in Requests : pc[l] = "end" => rivals'[l] = rivals[l]
  PROVE  /\ \A l \in Requests : pc[l] = "end" /\ Lost(l) => Lost(l)'
         /\ \A l \in offered' : p = l \/ Lost(l)'
<1> USE AuthConstants DEF IInv, SetPending, TypeOK
<1>1. r \in Requests /\ took[r] = None
  BY DEF Looked, QueryInv, TookOnce
<1>2. \A q \in Requests \ {r} : took'[q] = took[q]
  OBVIOUS
<1>3. ASSUME NEW l \in Requests, pc[l] = "end", Lost(l) PROVE Lost(l)'
  <2>1. PICK q \in rivals[l] : took[q] = l
    BY <1>3 DEF Lost
  <2>2. q \in Requests /\ took'[q] = l
    BY <1>1, <1>2, <2>1
  <2> QED BY <1>3, <2>1, <2>2 DEF Lost
<1>4. ASSUME NEW l \in offered', l # p PROVE Lost(l)'
  <2>1. l \in offered /\ l \in Requests /\ pc[l] = "end"
    BY <1>4 DEF Started
  <2>2. CASE pending = l
    <3>1. r \in rivals[l]
      <4>1. r \in rivals[l] \/ (entry[r] = l /\ pc[r] \notin {"start", "started"})
        BY <1>1, <2>1, <2>2 DEF QueryInv, KnownRival
      <4>2. entry[r] = l => pc[r] \notin {"drop", "delete"}
        BY <1>1, <1>4, <2>1 DEF QueryInv, Saw
      <4> QED BY <4>1, <4>2 DEF Looked
    <3> QED BY <1>1, <2>1, <2>2, <3>1 DEF Lost
  <2>3. CASE pending # l
    BY <1>3, <2>1, <2>3 DEF LoginIsPending
  <2> QED BY <2>2, <2>3
<1> QED BY <1>3, <1>4

(* start stores its login: whoever has looked at the map is its rival.     *)
LEMMA Storing == ASSUME IInv, NEW r \in Requests, StartPending(r) PROVE IInv'
<1> USE AuthConstants DEF IInv
<1>1. /\ pc[r] = "started" /\ r \in Looked /\ SetPending(r, r)
      /\ pc' = [pc EXCEPT ![r] = "end"] /\ answer' = [answer EXCEPT ![r] = "url"]
      /\ offered' = offered \cup {r} /\ rivals' = [rivals EXCEPT ![r] = Looked \ {r}]
      /\ UNCHANGED <<says, entry>>
  BY DEF StartPending, Answer, Looked
<1>2. pending' = r /\ took' = [took EXCEPT ![r] = pending]
  BY <1>1 DEF SetPending
<1>3. TypeOK'
  BY <1>1, <1>2 DEF TypeOK, Looked
<1>4. /\ pc'[r] = "end" /\ answer'[r] = "url" /\ rivals'[r] = Looked \ {r}
      /\ \A q \in Requests \ {r} : /\ pc'[q] = pc[q] /\ answer'[q] = answer[q]
                                   /\ rivals'[q] = rivals[q] /\ took'[q] = took[q]
  BY <1>1, <1>2 DEF TypeOK
<1>5. /\ \A l \in Requests : pc[l] = "end" /\ Lost(l) => Lost(l)'
      /\ \A l \in offered' : r = l \/ Lost(l)'
  <2>1. \A l \in Requests : pc[l] = "end" => rivals'[l] = rivals[l]
    BY <1>1, <1>4
  <2> QED BY <1>1, <2>1, LoginsKept
<1>6. Started' /\ LoginIsPending'
  BY <1>1, <1>2, <1>4, <1>5 DEF Started, LoginIsPending, TypeOK
<1>7. ASSUME NEW q \in Requests PROVE QueryInv(q)'
  <2>1. QueryInv(q)
    OBVIOUS
  <2>2. entry[q] # None => entry[q] \in Requests /\ entry[q] # r /\ pc[entry[q]] = "end"
    BY <1>1, <2>1 DEF QueryInv, Saw, TypeOK
  <2>3. Saw(q)'
    BY <1>1, <1>4, <2>1, <2>2 DEF QueryInv, Saw
  <2>4. KnownRival(q)'
    BY <1>2, <1>4 DEF KnownRival, Looked
  <2>5. TookOnce(q)'
    BY <1>4, <2>1 DEF QueryInv, TookOnce
  <2>6. Swallowed(q)'
    BY <1>1, <1>4, <1>5, <2>1, <2>2 DEF QueryInv, Swallowed
  <2> QED BY <2>3, <2>4, <2>5, <2>6 DEF QueryInv
<1> QED BY <1>3, <1>6, <1>7

(* complete and cancel empty the map, of whatever is in it.                *)
LEMMA Emptying ==
  ASSUME IInv, NEW r \in Requests, CompleteDrop(r) \/ CancelDelete(r) PROVE IInv'
<1> USE AuthConstants DEF IInv
<1>1. /\ pc[r] \in {"drop", "delete"} /\ r \in Looked /\ SetPending(r, None)
      /\ pc' = [pc EXCEPT ![r] = pc'[r]] /\ pc'[r] \in {"cancel", "end"}
      /\ answer' = [answer EXCEPT ![r] = answer'[r]] /\ answer'[r] \in {"none", "text"}
      /\ pc'[r] = "end" <=> answer'[r] # "none"
      /\ offered' \subseteq offered
      /\ pc[r] = "delete" => entry[r] \notin offered'
      /\ UNCHANGED <<says, entry, rivals>>
  BY DEF CompleteDrop, CancelDelete, Answer, Goto, Looked, TypeOK
<1>2. pending' = None /\ took' = [took EXCEPT ![r] = pending]
  BY <1>1 DEF SetPending
<1>3. TypeOK'
  BY <1>1, <1>2 DEF TypeOK
<1>4. \A q \in Requests \ {r} : /\ pc'[q] = pc[q] /\ answer'[q] = answer[q]
                                /\ took'[q] = took[q]
  BY <1>1, <1>2 DEF TypeOK
<1>5. /\ \A l \in Requests : pc[l] = "end" /\ Lost(l) => Lost(l)'
      /\ \A l \in offered' : None = l \/ Lost(l)'
  BY <1>1, LoginsKept
<1>6. Started' /\ LoginIsPending'
  BY <1>1, <1>2, <1>4, <1>5 DEF Started, LoginIsPending, TypeOK
<1>7. ASSUME NEW q \in Requests PROVE QueryInv(q)'
  <2>1. QueryInv(q)
    OBVIOUS
  <2>2. entry[q] # None => entry[q] \in Requests /\ entry[q] # r /\ pc[entry[q]] = "end"
    BY <1>1, <2>1 DEF QueryInv, Saw, TypeOK
  <2>3. Saw(q)'
    BY <1>1, <1>4, <2>1, <2>2 DEF QueryInv, Saw
  <2>4. KnownRival(q)' /\ TookOnce(q)'
    BY <1>1, <1>2, <1>4, <2>1 DEF QueryInv, KnownRival, TookOnce
  <2>5. Swallowed(q)'
    BY <1>1, <1>4, <1>5, <2>1, <2>2 DEF QueryInv, Swallowed
  <2> QED BY <2>3, <2>4, <2>5 DEF QueryInv
<1> QED BY <1>3, <1>6, <1>7

LEMMA NextIInv == IInv /\ [Next]_vars => IInv'
<1> SUFFICES ASSUME IInv, [Next]_vars PROVE IInv'
  OBVIOUS
<1>1. ASSUME NEW r \in Requests, (\E s \in Says : Arrive(r, s)) \/ Handle(r)
      PROVE  IInv'
  BY <1>1, Looking, Submitting, Storing, Emptying DEF Handle
<1>2. CASE UNCHANGED vars
  <2>1. TypeOK' /\ Started' /\ LoginIsPending'
    BY <1>2 DEF vars, IInv, TypeOK, Started, LoginIsPending, Lost
  <2>2. ASSUME NEW r \in Requests PROVE QueryInv(r)'
    <3>1. QueryInv(r)
      BY DEF IInv
    <3> QED BY <1>2, <3>1 DEF vars, QueryInv, Saw, KnownRival, Looked, TookOnce,
                Swallowed, Lost
  <2> QED BY <2>1, <2>2 DEF IInv
<1> QED BY <1>1, <1>2 DEF Next, Finished

LEMMA Invariance == Spec => []IInv
BY InitIInv, NextIInv, PTL DEF Spec

-----------------------------------------------------------------------------
(* The login whose URL the user was given is the pending one until it is   *)
(* used, unless a query that had looked at the map before took it away;    *)
(* and a used login stays pending only until its query has dropped it.     *)
THEOREM OfferedIsPending == Spec => []LoginIsPending
<1>1. IInv => LoginIsPending
  BY DEF IInv
<1> QED BY <1>1, Invariance, PTL

(* No message is answered by an empty response, unless the login it came   *)
(* for was used or lost before the broker looked for it again.             *)
THEOREM NothingSwallowed == Spec => []NoMessageSwallowed
<1>1. IInv => NoMessageSwallowed
  BY DEF IInv, QueryInv, Swallowed, NoMessageSwallowed
<1> QED BY <1>1, Invariance, PTL

(* A conversation has at most one login in flight (authbroker.go:4) that   *)
(* it has not lost to a query that overlapped the one that started it.     *)
THEOREM OneLogin == Spec => []AtMostOneLogin
<1>1. TypeOK /\ LoginIsPending => AtMostOneLogin
  <2> SUFFICES ASSUME TypeOK, LoginIsPending
               PROVE  Cardinality({l \in offered : ~Lost(l)}) <= 1
    BY DEF AtMostOneLogin
  <2>1. IsFiniteSet({pending}) /\ Cardinality({pending}) = 1
    BY FS_Singleton
  <2>2. {l \in offered : ~Lost(l)} \subseteq {pending}
    BY DEF LoginIsPending
  <2>3. Cardinality({l \in offered : ~Lost(l)}) <= Cardinality({pending})
    BY <2>1, <2>2, FS_Subset
  <2> QED BY <2>1, <2>3
<1>2. IInv => TypeOK /\ LoginIsPending
  BY DEF IInv
<1> QED BY <1>1, <1>2, Invariance, PTL
=============================================================================
