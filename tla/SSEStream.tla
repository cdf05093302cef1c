------------------------------ MODULE SSEStream ------------------------------
(***************************************************************************)
(* The response to one query: the sink the router writes to, the heartbeat *)
(* goroutine that animates a spinner on the same stream, the orderedWriter *)
(* that keeps them apart (internal/httpsrv/handler.go), the SSEWriter      *)
(* (internal/poeproto/poeproto.go), and what Poe shows of the events: text *)
(* appends to the body, replace_response sets it.  Each orderedWriter      *)
(* method holds its mutex throughout and is one action.                    *)
(***************************************************************************)
EXTENDS Naturals, SequencesExt

CONSTANT MaxTexts  \* bound: text chunks the router writes

ASSUME TextBound == MaxTexts \in Nat

VARIABLES
  realWritten,     \* orderedWriter.realWritten
  closed,          \* orderedWriter.closed
  spinnerVisible,  \* orderedWriter.spinnerVisible
  sseClosed,       \* SSEWriter.closed
  broken,          \* the connection is gone: every further write fails
  body,            \* what Poe shows
  over,            \* Poe has got the done event
  hbDone,          \* sink.hbDone is closed
  hb,              \* where the heartbeat goroutine is: select, tick, exit
  router,          \* what Router.Prompt does with the sink next
  texts            \* how many chunks it has written

vars == <<realWritten, closed, spinnerVisible, sseClosed, broken, body, over,
          hbDone, hb, router, texts>>
writerVars == <<realWritten, closed, spinnerVisible, sseClosed>>
wireVars   == <<broken, body, over>>

Spinner == <<"spinner", 0>>
Pieces == {Spinner} \cup {<<"text", n>> : n \in 1..MaxTexts}
             \cup {<<k, 0>> : k \in {"error", "remark", "instead"}}

TypeOK ==
  /\ realWritten \in BOOLEAN /\ closed \in BOOLEAN /\ spinnerVisible \in BOOLEAN
  /\ sseClosed \in BOOLEAN /\ broken \in BOOLEAN /\ over \in BOOLEAN
  /\ hbDone \in BOOLEAN
  /\ body \in Seq(Pieces)
  /\ hb \in {"select", "tick", "exit"}
  /\ router \in {"stream", "chunk", "error", "last", "done", "return", "returned"}
  /\ texts \in 0..MaxTexts
  /\ spinnerVisible => ~realWritten

(* handleQuery has sent meta and started the heartbeat.                    *)
Init ==
  /\ realWritten = FALSE /\ closed = FALSE /\ spinnerVisible = FALSE
  /\ sseClosed = FALSE /\ broken = FALSE
  /\ body = <<>> /\ over = FALSE
  /\ hbDone = FALSE /\ hb = "select"
  /\ router = "stream" /\ texts = 0

-----------------------------------------------------------------------------
(* SSEWriter.event for what is written under one lock: an event, which may *)
(* be preceded by one that clears the body.  The connection may fail at    *)
(* either of them.                                                         *)

Text(p)    == [op |-> "text", piece |-> p]
Replace(p) == [op |-> "replace", piece |-> p]
Done       == [op |-> "done", piece |-> Spinner]

Shown(b, e) ==
  CASE e.op = "text" -> Append(b, e.piece)
    [] e.op = "replace" -> <<e.piece>>
    [] e.op = "done" -> b

Emit(clear, e) ==
  IF broken \/ sseClosed
  THEN UNCHANGED wireVars
  ELSE \/ /\ broken' = TRUE
          /\ body' \in {body} \cup (IF clear THEN {<<>>} ELSE {})
          /\ UNCHANGED over
       \/ /\ body' = Shown(IF clear THEN <<>> ELSE body, e)
          /\ over' = (e = Done)
          /\ UNCHANGED broken

(* orderedWriter.clearSpinnerLocked: whether the frame is cleared ahead of *)
(* a user write.  Mutant of SpinnerClear: text is appended to the frame.   *)
SpinnerLeft == FALSE

SpinnerClear == ~realWritten /\ spinnerVisible

(* userText and userError, which differ in the event they write.           *)
UserAppend(p) ==
  IF closed THEN UNCHANGED <<writerVars, wireVars>>
  ELSE /\ Emit(SpinnerClear, Text(p))
       /\ realWritten' = TRUE
       /\ spinnerVisible' = (spinnerVisible /\ realWritten)
       /\ UNCHANGED <<closed, sseClosed>>

(* Mutant of UserReplace: the flag of the frame it replaced stays set. *)
UserReplaceKeepsFlag(p) ==
  IF closed THEN UNCHANGED <<writerVars, wireVars>>
  ELSE /\ Emit(FALSE, Replace(p))
       /\ realWritten' = TRUE
       /\ UNCHANGED <<spinnerVisible, closed, sseClosed>>

UserReplace(p) ==
  IF closed THEN UNCHANGED <<writerVars, wireVars>>
  ELSE /\ Emit(FALSE, Replace(p))
       /\ realWritten' = TRUE
       /\ spinnerVisible' = FALSE
       /\ UNCHANGED <<closed, sseClosed>>

(* Mutant of UserDone: the frame is not cleared. *)
UserDoneOnly ==
  IF closed THEN UNCHANGED <<writerVars, wireVars>>
  ELSE /\ Emit(FALSE, Done)
       /\ closed' = TRUE /\ sseClosed' = TRUE
       /\ UNCHANGED <<realWritten, spinnerVisible>>

(* SSEWriter.Done closes the writer even when its event does not get out.  *)
UserDone ==
  IF closed THEN UNCHANGED <<writerVars, wireVars>>
  ELSE /\ Emit(SpinnerClear, Done)
       /\ spinnerVisible' = (spinnerVisible /\ realWritten)
       /\ closed' = TRUE /\ sseClosed' = TRUE
       /\ UNCHANGED realWritten

-----------------------------------------------------------------------------
(* The router's calls on the sink, in the order a turn makes them          *)
(* (TurnStream): chunks, each preceded by FirstChunk at least the first    *)
(* time; then nothing, or a remark, an error or a replacement; then Done.  *)
(* Error and Done stop the heartbeat before they write.                    *)

Stop == hbDone' = TRUE

FirstChunk ==
  /\ router = "stream" /\ texts < MaxTexts
  /\ Stop
  /\ router' = "chunk"
  /\ UNCHANGED <<writerVars, wireVars, hb, texts>>

WriteChunk ==
  /\ router = "chunk"
  /\ texts' = texts + 1
  /\ UserAppend(<<"text", texts + 1>>)
  /\ router' = "stream"
  /\ UNCHANGED <<hbDone, hb>>

(* A remark needs no FirstChunk: the heartbeat may still be running.       *)
Remark ==
  /\ router = "stream"
  /\ UserAppend(<<"remark", 0>>) \/ UserReplace(<<"instead", 0>>)
  /\ router' = "last"
  /\ UNCHANGED <<hbDone, hb, texts>>

CallError ==
  /\ router = "stream"
  /\ Stop
  /\ router' = "error"
  /\ UNCHANGED <<writerVars, wireVars, hb, texts>>

WriteError ==
  /\ router = "error"
  /\ UserAppend(<<"error", 0>>)
  /\ router' = "last"
  /\ UNCHANGED <<hbDone, hb, texts>>

CallDone ==
  /\ router \in {"stream", "last"}
  /\ Stop
  /\ router' = "done"
  /\ UNCHANGED <<writerVars, wireVars, hb, texts>>

WriteDone ==
  /\ router = "done"
  /\ UserDone
  /\ router' = "return"
  /\ UNCHANGED <<hbDone, hb, texts>>

(* A prompt shed by eviction gets no call at all: Prompt just returns       *)
(* (SessionQueue!GcShed).                                                  *)
Shed ==
  /\ router = "stream" /\ texts = 0
  /\ router' = "return"
  /\ UNCHANGED <<writerVars, wireVars, hbDone, hb, texts>>

(* handleQuery's deferred stop(), and the end of the HTTP response.        *)
HandlerReturns ==
  /\ router = "return"
  /\ Stop
  /\ router' = "returned"
  /\ UNCHANGED <<writerVars, wireVars, hb, texts>>

-----------------------------------------------------------------------------
(* The heartbeat goroutine.  Its ticker fires while it selects.            *)

HbTick ==
  /\ hb = "select"
  /\ hb' = "tick"
  /\ UNCHANGED <<writerVars, wireVars, hbDone, router, texts>>

HbStopped ==
  /\ hb = "select" /\ hbDone
  /\ hb' = "exit"
  /\ UNCHANGED <<writerVars, wireVars, hbDone, router, texts>>

(* Mutant of GateClosed: only Done closes the gate. *)
GateClosedByDone == closed

GateClosed == realWritten \/ closed

(* Mutant of HbReplace: a closed gate skips the frame, and the goroutine   *)
(* goes on.                                                                *)
HbSkips ==
  /\ hb = "tick"
  /\ hb' = "select"
  /\ IF GateClosed
     THEN UNCHANGED <<writerVars, wireVars>>
     ELSE /\ Emit(FALSE, Replace(Spinner))
          /\ spinnerVisible' = TRUE
          /\ UNCHANGED <<realWritten, closed, sseClosed>>
  /\ UNCHANGED <<hbDone, router, texts>>

(* hbReplace; the goroutine disarms itself when the gate is closed.        *)
HbReplace ==
  /\ hb = "tick"
  /\ IF GateClosed
     THEN /\ hb' = "exit"
          /\ UNCHANGED <<writerVars, wireVars>>
     ELSE /\ hb' = "select"
          /\ Emit(FALSE, Replace(Spinner))
          /\ spinnerVisible' = TRUE
          /\ UNCHANGED <<realWritten, closed, sseClosed>>
  /\ UNCHANGED <<hbDone, router, texts>>

Finished == router = "returned" /\ hb = "exit" /\ UNCHANGED vars

RouterCalls == \/ FirstChunk \/ WriteChunk \/ Remark \/ CallError \/ WriteError
               \/ CallDone \/ WriteDone \/ Shed \/ HandlerReturns
Heartbeat == HbTick \/ HbStopped \/ HbReplace

Next == RouterCalls \/ Heartbeat \/ Finished

(* The ticker keeps firing.  Nothing is assumed of the select's preference *)
(* for hbDone over a tick, nor of the router.                              *)
Spec == Init /\ [][Next]_vars
FairSpec == Spec /\ WF_vars(HbTick) /\ WF_vars(HbReplace)

-----------------------------------------------------------------------------
(* Properties.                                                             *)

(* The spinner is never shown beside an answer: Poe appends text to what   *)
(* the body holds, so the frame must have been cleared.                    *)
SpinnerNeverMixed == Spinner \in ToSet(body) => body = <<Spinner>>

(* A response that was ended on a live connection has told Poe so, and no  *)
(* spinner is left on it, nor can a late tick put one back.                *)
NoFrozenSpinner ==
  closed /\ ~broken => over /\ Spinner \notin ToSet(body)

(* The heartbeat goroutine does not outlive the first user write by more   *)
(* than a tick, even if its select never looks at hbDone                   *)
(* (handler.go:329-334).                                                   *)
HeartbeatDisarms == GateClosed ~> hb = "exit"

(* With the spinner taken for no answer, a response is one Response allows *)
(* (Response.tla): all that the router writes is shown, in order, while    *)
(* the connection lives; no frame, however late, and no clearing of one    *)
(* takes it away; and nothing comes after the end.                         *)
Reader == INSTANCE Response WITH
  answer <- IF body = <<Spinner>> THEN <<>> ELSE body,
  sent <- texts,
  live <- ~broken,
  stage <- IF over THEN "ended"
           ELSE IF router \in {"last", "done", "return", "returned"} THEN "closing" ELSE "open"

ImplementsResponse == Reader!Spec
=============================================================================
