------------------------------- MODULE Response -------------------------------
(***************************************************************************)
(* What a query's response promises its reader, whatever heartbeat, locks  *)
(* and flags it is made of (internal/httpsrv/handler.go).  The router      *)
(* writes text, then perhaps one last word, and ends the response.  While  *)
(* the connection lives the reader is shown all of it, in order, and never *)
(* anything else; once it is lost what is shown stays as it is.            *)
(***************************************************************************)
EXTENDS Naturals, Sequences

VARIABLES
  answer,  \* what the reader is shown of it
  sent,    \* how many texts the router has written
  live,    \* the connection
  stage    \* open, closing once the last word has been said, ended

vars == <<answer, sent, live, stage>>

Init == answer = <<>> /\ sent = 0 /\ live = TRUE /\ stage = "open"

(* What the router says is shown, unless the connection is gone or goes.   *)
Deliver(a) ==
  \/ live /\ answer' = a /\ UNCHANGED live
  \/ live' = FALSE /\ UNCHANGED answer

Write ==
  /\ stage = "open"
  /\ sent' = sent + 1
  /\ Deliver(Append(answer, <<"text", sent + 1>>))
  /\ UNCHANGED stage

(* The last word is added to the answer, or put in its place.              *)
LastWord ==
  /\ stage = "open" /\ stage' = "closing"
  /\ \/ \E w \in {"error", "remark"} : Deliver(Append(answer, <<w, 0>>))
     \/ Deliver(<<<<"instead", 0>>>>)
  /\ UNCHANGED sent

NoLastWord ==
  /\ stage = "open" /\ stage' = "closing"
  /\ UNCHANGED <<answer, sent, live>>

(* Something other than the answer finds the connection gone.              *)
Lose ==
  /\ live /\ live' = FALSE /\ stage # "ended"
  /\ UNCHANGED <<answer, sent, stage>>

(* The reader learns that this was all.                                    *)
End ==
  /\ stage = "closing" /\ live
  /\ stage' = "ended"
  /\ UNCHANGED <<answer, sent, live>>

Next == Write \/ LastWord \/ NoLastWord \/ Lose \/ End

Spec == Init /\ [][Next]_vars
=============================================================================
