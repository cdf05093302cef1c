--------------------------- MODULE SSEStreamProofs ---------------------------
(***************************************************************************)
(* SSEStream, for a response of any length: the spinner is alone or gone,  *)
(* and with it left aside the response is one Response allows.             *)
(***************************************************************************)
EXTENDS SSEStream, SequenceTheorems, TLAPS

(* While the connection lives, the flag knows of a frame on the screen.    *)
FrameIsFlagged == Spinner \in ToSet(body) /\ ~broken => spinnerVisible
ClosedTogether == closed = sseClosed

(* Before the first user write there is no answer that a frame, or its     *)
(* clearing, could take away.                                              *)
NothingWritten == ~realWritten => body \in {<<>>, <<Spinner>>}

(* The bound on the texts holds: a chunk is announced while one is left.   *)
ChunkLeft == router = "chunk" => texts < MaxTexts

(* Only the router's Done closes the writer, and nothing is written after. *)
OpenUntilDone ==
  /\ router \in {"stream", "chunk", "error", "last", "done"} => ~closed
  /\ over => closed

IInv ==
  /\ TypeOK /\ ChunkLeft /\ OpenUntilDone
  /\ SpinnerNeverMixed /\ NoFrozenSpinner /\ FrameIsFlagged /\ ClosedTogether
  /\ NothingWritten

(* What has been written of an answer stays on the screen until the router *)
(* itself replaces it: no heartbeat tick, however late, takes it away, nor *)
(* does a clearing of the frame.  Only the frame itself may be taken away. *)
ContentKept ==
  [][body # <<Spinner>> => \/ IsPrefix(body, body')
                           \/ body' = <<<<"instead", 0>>>>]_vars

LEMMA EmptyElements == ToSet(<<>>) = {} /\ Len(<<>>) = 0 /\ \A S : <<>> \in Seq(S)
BY DEF ToSet

LEMMA AppendElements ==
  ASSUME NEW S, NEW s \in Seq(S), NEW e \in S
  PROVE  Append(s, e) \in Seq(S) /\ ToSet(Append(s, e)) = ToSet(s) \cup {e}
<1> DEFINE a == Append(s, e)
<1>1. /\ a \in Seq(S) /\ Len(a) = Len(s) + 1 /\ Len(s) \in Nat
      /\ \A i \in 1..Len(s) : a[i] = s[i]
      /\ a[Len(s) + 1] = e
  OBVIOUS
<1>2. DOMAIN s = 1..Len(s) /\ DOMAIN a = 1..(Len(s) + 1)
  BY <1>1
<1> HIDE DEF a
<1>3. ToSet(a) = ToSet(s) \cup {e}
  BY <1>1, <1>2 DEF ToSet
<1> QED BY <1>1, <1>3 DEF a

LEMMA PieceNames ==
  /\ Spinner \in Pieces
  /\ \A n \in 1..MaxTexts : <<"text", n>> \in Pieces
  /\ \A k \in {"error", "remark", "instead"} : <<k, 0>> \in Pieces
  /\ \A n : <<"text", n>> # Spinner
  /\ \A k \in {"error", "remark", "instead"} : <<k, 0>> # Spinner
BY DEF Pieces, Spinner

LEMMA OnePiece ==
  ASSUME NEW p \in Pieces
  PROVE  <<p>> \in Seq(Pieces) /\ ToSet(<<p>>) = {p}
BY DEF ToSet

(* What the wire and the flags may look like after one lock region.        *)
WriterOK ==
  /\ realWritten \in BOOLEAN /\ closed \in BOOLEAN /\ spinnerVisible \in BOOLEAN
  /\ sseClosed \in BOOLEAN /\ broken \in BOOLEAN /\ over \in BOOLEAN
  /\ body \in Seq(Pieces)
  /\ spinnerVisible => ~realWritten
  /\ SpinnerNeverMixed /\ NoFrozenSpinner /\ FrameIsFlagged /\ ClosedTogether
  /\ NothingWritten

LEMMA Idle == ASSUME WriterOK, UNCHANGED <<writerVars, wireVars>> PROVE WriterOK'
BY DEF WriterOK, writerVars, wireVars, SpinnerNeverMixed, NoFrozenSpinner,
       FrameIsFlagged, ClosedTogether, NothingWritten

LEMMA TextAppends ==
  ASSUME WriterOK, NEW p \in Pieces, p # Spinner, UserAppend(p)
  PROVE  WriterOK'
<1> USE DEF WriterOK, SpinnerNeverMixed, NoFrozenSpinner, FrameIsFlagged, ClosedTogether,
            NothingWritten
<1>1. CASE closed
  BY <1>1, Idle DEF UserAppend
<1>2. CASE ~closed
  <2> DEFINE before == IF SpinnerClear THEN <<>> ELSE body
  <2>1. before \in Seq(Pieces)
    BY EmptyElements
  <2>2. /\ Append(before, p) \in Seq(Pieces)
        /\ ToSet(Append(before, p)) = ToSet(before) \cup {p}
    <3> HIDE DEF before
    <3> QED
      BY ONLY <2>1, p \in Pieces, AppendElements
  <2>3. ~broken => Spinner \notin ToSet(before)
    BY EmptyElements DEF SpinnerClear
  <2>4. Shown(before, Text(p)) = Append(before, p)
    BY DEF Shown, Text
  <2> HIDE DEF before
  <2>5. \/ UNCHANGED wireVars /\ broken
        \/ broken' = TRUE /\ body' \in {body, <<>>} /\ over' = over
        \/ ~broken /\ broken' = broken /\ body' = Append(before, p) /\ over' \in BOOLEAN
    BY <1>2, <2>4 DEF UserAppend, Emit, wireVars, before
  <2>6. /\ realWritten' = TRUE /\ spinnerVisible' = (spinnerVisible /\ realWritten)
        /\ closed' = closed /\ sseClosed' = sseClosed
    BY <1>2 DEF UserAppend
  <2>7. ~spinnerVisible'
    BY <2>6
  <2>8. ~broken' => Spinner \notin ToSet(body')
    BY <2>2, <2>3, <2>5 DEF wireVars
  <2>9. Spinner \in ToSet(body') => body' = <<Spinner>>
    BY <2>5, <2>8, EmptyElements DEF wireVars
  <2>10. body' \in Seq(Pieces) /\ broken' \in BOOLEAN /\ over' \in BOOLEAN
    BY <2>2, <2>5, EmptyElements DEF wireVars
  <2> QED
    BY <1>2, <2>6, <2>7, <2>8, <2>9, <2>10
<1> QED
  BY <1>1, <1>2

LEMMA ReplaceSets ==
  ASSUME WriterOK, NEW p \in Pieces, p # Spinner, UserReplace(p)
  PROVE  WriterOK'
<1> USE DEF WriterOK, SpinnerNeverMixed, NoFrozenSpinner, FrameIsFlagged, ClosedTogether,
            NothingWritten
<1>1. CASE closed
  BY <1>1, Idle DEF UserReplace
<1>2. CASE ~closed
  <2>1. <<p>> \in Seq(Pieces) /\ Spinner \notin ToSet(<<p>>)
    BY OnePiece
  <2>2. Shown(body, Replace(p)) = <<p>>
    BY DEF Shown, Replace
  <2>3. \/ UNCHANGED wireVars /\ broken
        \/ broken' = TRUE /\ body' = body /\ over' = over
        \/ ~broken /\ broken' = broken /\ body' = <<p>> /\ over' \in BOOLEAN
    BY <1>2, <2>2 DEF UserReplace, Emit, wireVars
  <2>4. /\ realWritten' = TRUE /\ spinnerVisible' = FALSE
        /\ closed' = closed /\ sseClosed' = sseClosed
    BY <1>2 DEF UserReplace
  <2> QED
    BY <1>2, <2>1, <2>3, <2>4 DEF wireVars
<1> QED
  BY <1>1, <1>2

LEMMA DoneCloses == ASSUME WriterOK, UserDone PROVE WriterOK'
<1> USE DEF WriterOK, SpinnerNeverMixed, NoFrozenSpinner, FrameIsFlagged, ClosedTogether,
            NothingWritten
<1>1. CASE closed
  BY <1>1, Idle DEF UserDone
<1>2. CASE ~closed
  <2> DEFINE before == IF SpinnerClear THEN <<>> ELSE body
  <2>1. before \in Seq(Pieces) /\ (~broken => Spinner \notin ToSet(before))
    BY EmptyElements DEF SpinnerClear
  <2>2. Shown(before, Done) = before
    BY DEF Shown, Done
  <2> HIDE DEF before
  <2>3. \/ UNCHANGED wireVars /\ broken
        \/ broken' = TRUE /\ body' \in {body, <<>>} /\ over' = over
        \/ ~broken /\ broken' = broken /\ body' = before /\ over' = TRUE
    BY <1>2, <2>2 DEF UserDone, Emit, wireVars, before
  <2>4. /\ realWritten' = realWritten /\ spinnerVisible' = (spinnerVisible /\ realWritten)
        /\ closed' = TRUE /\ sseClosed' = TRUE
    BY <1>2 DEF UserDone
  <2>5. before \in {body, <<>>}
    BY DEF before
  <2>6. NothingWritten'
    BY <2>3, <2>4, <2>5 DEF wireVars
  <2>7. /\ body' \in Seq(Pieces) /\ broken' \in BOOLEAN /\ over' \in BOOLEAN
        /\ Spinner \in ToSet(body') => broken'
    BY <1>2, <2>1, <2>3, EmptyElements DEF wireVars
  <2>8. SpinnerNeverMixed'
    BY <2>3, <2>5, EmptyElements DEF wireVars
  <2>9. ~broken' => over'
    BY <2>3 DEF wireVars
  <2> QED
    BY <1>2, <2>4, <2>6, <2>7, <2>8, <2>9
<1> QED
  BY <1>1, <1>2

(* A frame goes out only through an open gate, when no answer is shown.    *)
LEMMA FrameReplaces == ASSUME WriterOK, HbReplace PROVE WriterOK'
<1> USE DEF WriterOK, SpinnerNeverMixed, NoFrozenSpinner, FrameIsFlagged, ClosedTogether,
            NothingWritten
<1>1. CASE GateClosed
  BY <1>1, Idle DEF HbReplace
<1>2. CASE ~GateClosed
  <2>1. <<Spinner>> \in Seq(Pieces)
    BY OnePiece, PieceNames
  <2>2. Shown(body, Replace(Spinner)) = <<Spinner>>
    BY DEF Shown, Replace
  <2>3. \/ UNCHANGED wireVars /\ broken
        \/ broken' = TRUE /\ body' = body /\ over' = over
        \/ ~broken /\ broken' = broken /\ body' = <<Spinner>> /\ over' \in BOOLEAN
    BY <1>2, <2>2 DEF HbReplace, GateClosed, Emit, wireVars
  <2>4. /\ realWritten' = realWritten /\ spinnerVisible' = TRUE /\ ~realWritten
        /\ closed' = closed /\ sseClosed' = sseClosed /\ ~closed
    BY <1>2 DEF HbReplace, GateClosed
  <2> QED
    BY <2>1, <2>3, <2>4 DEF wireVars
<1> QED
  BY <1>1, <1>2

(* What IsPrefix says of a body that stays or grows.                       *)
LEMMA PrefixOf ==
  ASSUME NEW S, NEW s \in Seq(S)
  PROVE  /\ IsPrefix(s, s)
         /\ \A e \in S : IsPrefix(s, Append(s, e))
         /\ \A t \in Seq(S) : IsPrefix(<<>>, t)
<1>1. ASSUME NEW t \in Seq(S), Len(s) <= Len(t), \A i \in 1..Len(s) : t[i] = s[i]
      PROVE  IsPrefix(s, t)
  <2>1. /\ SubSeq(s, 1, Len(s)) \in Seq(S) /\ SubSeq(t, 1, Len(s)) \in Seq(S)
        /\ Len(SubSeq(s, 1, Len(s))) = Len(s) /\ Len(SubSeq(t, 1, Len(s))) = Len(s)
        /\ \A i \in 1..Len(s) : SubSeq(s, 1, Len(s))[i] = SubSeq(t, 1, Len(s))[i]
    BY <1>1
  <2>2. SubSeq(s, 1, Len(s)) = SubSeq(t, 1, Len(s))
    BY <2>1, SeqEqual
  <2> QED BY <1>1, <2>2 DEF IsPrefix
<1>2. ASSUME NEW t \in Seq(S) PROVE IsPrefix(<<>>, t)
  <2>1. SubSeq(<<>>, 1, 0) = SubSeq(t, 1, 0) /\ Len(t) >= 0
    OBVIOUS
  <2> QED BY <2>1, EmptyElements DEF IsPrefix
<1>3. IsPrefix(s, s)
  BY <1>1
<1>4. ASSUME NEW e \in S PROVE IsPrefix(s, Append(s, e))
  <2>1. /\ Append(s, e) \in Seq(S) /\ Len(s) <= Len(Append(s, e))
        /\ \A i \in 1..Len(s) : Append(s, e)[i] = s[i]
    OBVIOUS
  <2> QED BY <1>1, <2>1
<1> QED BY <1>2, <1>3, <1>4

LEMMA InitIInv == Init => IInv
<1> SUFFICES ASSUME Init PROVE IInv
  OBVIOUS
<1>1. TypeOK /\ ChunkLeft
  <2>1. body \in Seq(Pieces)
    BY EmptyElements DEF Init
  <2>2. texts \in 0..MaxTexts
    BY TextBound DEF Init
  <2> QED
    BY <2>1, <2>2 DEF Init, TypeOK, ChunkLeft
<1>2. SpinnerNeverMixed /\ NoFrozenSpinner /\ FrameIsFlagged /\ ClosedTogether
  BY EmptyElements DEF Init, SpinnerNeverMixed, NoFrozenSpinner, FrameIsFlagged, ClosedTogether
<1>3. NothingWritten /\ OpenUntilDone
  BY DEF Init, NothingWritten, OpenUntilDone
<1> QED
  BY <1>1, <1>2, <1>3 DEF IInv

LEMMA NextIInv == IInv /\ [Next]_vars => IInv'
<1> SUFFICES ASSUME IInv, [Next]_vars PROVE IInv'
  OBVIOUS
<1>1. WriterOK /\ texts \in 0..MaxTexts /\ ChunkLeft
  BY DEF IInv, TypeOK, WriterOK
<1>2. WriterOK'
  <2>1. CASE FirstChunk \/ CallError \/ CallDone \/ Shed \/ HandlerReturns \/ HbTick \/ HbStopped
    BY <1>1, <2>1, Idle DEF FirstChunk, CallError, CallDone, Shed, HandlerReturns, HbTick, HbStopped
  <2>2. CASE UNCHANGED vars
    BY <1>1, <2>2, Idle DEF vars, writerVars, wireVars
  <2>3. CASE WriteChunk
    <3>1. <<"text", texts + 1>> \in Pieces /\ <<"text", texts + 1>> # Spinner
      BY <1>1, <2>3, TextBound, PieceNames DEF WriteChunk, ChunkLeft
    <3> QED
      BY <1>1, <2>3, <3>1, TextAppends DEF WriteChunk
  <2>4. CASE Remark
    BY <1>1, <2>4, TextAppends, ReplaceSets, PieceNames DEF Remark
  <2>5. CASE WriteError
    BY <1>1, <2>5, TextAppends, PieceNames DEF WriteError
  <2>6. CASE WriteDone
    BY <1>1, <2>6, DoneCloses DEF WriteDone
  <2>7. CASE HbReplace
    BY <1>1, <2>7, FrameReplaces
  <2> QED
    BY <2>1, <2>2, <2>3, <2>4, <2>5, <2>6, <2>7 DEF Next, RouterCalls, Heartbeat, Finished
<1>3. /\ hbDone' \in BOOLEAN /\ hb' \in {"select", "tick", "exit"}
      /\ router' \in {"stream", "chunk", "error", "last", "done", "return", "returned"}
      /\ texts' \in 0..MaxTexts /\ ChunkLeft'
  <2>0. /\ hbDone \in BOOLEAN /\ hb \in {"select", "tick", "exit"}
        /\ router \in {"stream", "chunk", "error", "last", "done", "return", "returned"}
        /\ texts \in 0..MaxTexts /\ ChunkLeft
    BY DEF IInv, TypeOK
  <2> USE <2>0, TextBound DEF ChunkLeft
  <2>1. CASE FirstChunk
    BY <2>1 DEF FirstChunk, Stop
  <2>6. CASE WriteChunk
    <3>1. texts' = texts + 1 /\ router' = "stream" /\ hbDone' = hbDone /\ hb' = hb /\ router = "chunk"
      BY <2>6 DEF WriteChunk
    <3> QED
      BY <3>1
  <2>2. CASE Remark \/ CallError \/ WriteError
    BY <2>2 DEF Remark, CallError, WriteError, Stop
  <2>3. CASE CallDone \/ WriteDone \/ Shed \/ HandlerReturns
    BY <2>3 DEF CallDone, WriteDone, Shed, HandlerReturns, Stop
  <2>4. CASE Heartbeat
    <3>1. router' = router /\ texts' = texts /\ hbDone' = hbDone /\ hb' \in {"select", "tick", "exit"}
      BY <2>4 DEF Heartbeat, HbTick, HbStopped, HbReplace
    <3> QED
      BY <3>1
  <2>5. CASE UNCHANGED vars
    BY <2>5 DEF vars
  <2> QED
    BY <2>1, <2>2, <2>3, <2>4, <2>5, <2>6 DEF Next, RouterCalls, Finished
<1>4. OpenUntilDone'
  <2> USE DEF IInv, OpenUntilDone
  <2>1. CASE WriteChunk \/ Remark \/ WriteError
    <3>1. closed' = closed /\ ~closed /\ (over' = over \/ over' = FALSE)
      BY <2>1 DEF WriteChunk, Remark, WriteError, UserAppend, UserReplace, Emit, Text, Replace,
         Done, wireVars
    <3> QED
      BY <2>1, <3>1
  <2>2. CASE WriteDone
    BY <2>2 DEF WriteDone, UserDone, Emit, wireVars
  <2>3. CASE HbReplace
    BY <2>3 DEF HbReplace, GateClosed, Emit, Replace, Done, writerVars, wireVars
  <2>4. CASE FirstChunk \/ CallError \/ CallDone \/ Shed \/ HandlerReturns \/ HbTick \/ HbStopped
    BY <2>4 DEF FirstChunk, CallError, CallDone, Shed, HandlerReturns, HbTick, HbStopped,
       writerVars, wireVars
  <2>5. CASE UNCHANGED vars
    BY <2>5 DEF vars
  <2> QED
    BY <2>1, <2>2, <2>3, <2>4, <2>5 DEF Next, RouterCalls, Heartbeat, Finished
<1> QED
  BY <1>2, <1>3, <1>4 DEF IInv, TypeOK, WriterOK

LEMMA Invariance == Spec => []IInv
  BY InitIInv, NextIInv, PTL DEF Spec

(* No step takes an answer away: a clearing of the frame meets either the  *)
(* frame itself or an empty body.                                          *)
LEMMA AnswerKept ==
  ASSUME IInv, [Next]_vars, body # <<Spinner>>
  PROVE  IsPrefix(body, body') \/ body' = <<<<"instead", 0>>>>
<1>1. /\ body \in Seq(Pieces) /\ IsPrefix(body, body)
      /\ SpinnerClear => body = <<>>
  <2>1. body \in Seq(Pieces) /\ NothingWritten
    BY DEF IInv, TypeOK
  <2> QED BY <2>1, PrefixOf DEF NothingWritten, SpinnerClear
<1>2. ASSUME NEW p \in Pieces, UserAppend(p) PROVE body' = body \/ body' = Append(body, p)
  BY <1>1, <1>2 DEF UserAppend, Emit, wireVars, Shown, Text
<1>3. ASSUME NEW p \in Pieces, UserAppend(p) PROVE IsPrefix(body, body')
  BY <1>1, <1>2, <1>3, PrefixOf
<1>4. CASE UNCHANGED body
  BY <1>1, <1>4
<1>5. CASE WriteChunk
  <2>1. <<"text", texts + 1>> \in Pieces
    BY <1>5, TextBound, PieceNames DEF WriteChunk, IInv, ChunkLeft, TypeOK
  <2> QED BY <1>3, <1>5, <2>1 DEF WriteChunk
<1>6. CASE Remark
  <2>1. CASE UserAppend(<<"remark", 0>>)
    BY <1>3, <2>1, PieceNames
  <2>2. CASE UserReplace(<<"instead", 0>>)
    BY <1>1, <2>2 DEF UserReplace, Emit, wireVars, Shown, Replace
  <2> QED BY <1>6, <2>1, <2>2 DEF Remark
<1>7. CASE WriteError
  BY <1>3, <1>7, PieceNames DEF WriteError
<1>8. CASE WriteDone
  BY <1>1, <1>8 DEF WriteDone, UserDone, Emit, wireVars, Shown, Done
<1>9. CASE HbReplace
  <2>1. CASE GateClosed
    BY <1>4, <1>9, <2>1 DEF HbReplace, wireVars
  <2>2. CASE ~GateClosed
    <3>1. body = <<>>
      BY <2>2 DEF GateClosed, IInv, NothingWritten
    <3>2. body' \in {<<>>, <<Spinner>>}
      BY <1>9, <2>2, <3>1 DEF HbReplace, Emit, wireVars, Shown, Replace
    <3>3. body' \in Seq(Pieces)
      BY <3>2, OnePiece, PieceNames, EmptyElements
    <3> QED BY <3>1, <3>3, PrefixOf
  <2> QED BY <2>1, <2>2
<1>10. CASE FirstChunk \/ CallError \/ CallDone \/ Shed \/ HandlerReturns \/ HbTick \/ HbStopped
  BY <1>4, <1>10 DEF FirstChunk, CallError, CallDone, Shed, HandlerReturns, HbTick, HbStopped, wireVars
<1>11. CASE UNCHANGED vars
  BY <1>4, <1>11 DEF vars
<1> QED
  BY <1>5, <1>6, <1>7, <1>8, <1>9, <1>10, <1>11 DEF Next, RouterCalls, Heartbeat, Finished

-----------------------------------------------------------------------------
(* Every step of the response is one Response allows.                      *)

Answer(b) == IF b = <<Spinner>> THEN <<>> ELSE b

(* While the connection lives the reader has every chunk written, each in  *)
(* its place, then perhaps a last word, or one instead of them all.        *)
ChunksShown ==
  /\ Len(Answer(body)) \in texts..(texts + 1)
  /\ \A i \in 1..texts : Answer(body)[i] = <<"text", i>>

AnswerIsWhole ==
  ~broken =>
    IF router \in {"stream", "chunk", "error"}
    THEN ChunksShown /\ Len(Answer(body)) = texts
    ELSE ChunksShown \/ Answer(body) = <<<<"instead", 0>>>>

StageOf(rtr, o) ==
  IF o THEN "ended"
  ELSE IF rtr \in {"last", "done", "return", "returned"} THEN "closing" ELSE "open"

LEMMA Mapped ==
  /\ Reader!vars = <<Answer(body), texts, ~broken, StageOf(router, over)>>
  /\ Reader!vars' = <<Answer(body'), texts', ~broken', StageOf(router', over')>>
  /\ Reader!Init <=> /\ Answer(body) = <<>> /\ texts = 0 /\ ~broken = TRUE
                     /\ StageOf(router, over) = "open"
  /\ \A a : Reader!Deliver(a) <=> \/ ~broken /\ Answer(body') = a /\ (~broken)' = ~broken
                                  \/ (~broken)' = FALSE /\ Answer(body') = Answer(body)
BY DEF Reader!vars, Reader!Init, Reader!Deliver, Answer, StageOf

(* Text shown on a live connection ends up behind the answer, whether or   *)
(* not a frame was cleared ahead of it.                                    *)
LEMMA AppendDelivers ==
  ASSUME IInv, NEW p \in Pieces, p # Spinner, ~closed, UserAppend(p)
  PROVE  /\ Reader!Deliver(Append(Answer(body), p))
         /\ ~over => ~over'
<1> DEFINE before == IF SpinnerClear THEN <<>> ELSE body
<1>1. body \in Seq(Pieces) /\ before \in Seq(Pieces) /\ broken \in BOOLEAN
  BY EmptyElements DEF IInv, TypeOK
<1>2. SpinnerClear => Answer(body) = <<>>
  BY DEF IInv, NothingWritten, SpinnerClear, Answer
<1>3. ~broken => Answer(body) = before
  <2>1. ~broken /\ ~SpinnerClear => body # <<Spinner>>
    BY OnePiece, PieceNames DEF IInv, TypeOK, FrameIsFlagged, SpinnerClear
  <2> QED
    BY <1>2, <2>1 DEF Answer
<1>4. Append(before, p) # <<Spinner>>
  <2>1. Append(before, p)[Len(before) + 1] = p /\ Len(Append(before, p)) = Len(before) + 1
        /\ Len(before) \in Nat
    <3> HIDE DEF before
    <3> QED
      BY <1>1
  <2>2. <<Spinner>>[1] = Spinner /\ Len(<<Spinner>>) = 1
    OBVIOUS
  <2> HIDE DEF before
  <2> QED
    BY <2>1, <2>2
<1>5. Shown(before, Text(p)) = Append(before, p) /\ Text(p) # Done
  BY DEF Shown, Text, Done
<1>6. \/ UNCHANGED wireVars /\ broken
      \/ broken' = TRUE /\ (body' = body \/ (SpinnerClear /\ body' = <<>>)) /\ over' = over
      \/ ~broken /\ broken' = broken /\ body' = Append(before, p) /\ over' = FALSE
  BY <1>5 DEF UserAppend, Emit, wireVars, IInv, ClosedTogether
<1> HIDE DEF before
<1>7. CASE UNCHANGED wireVars /\ broken
  BY <1>7, Mapped DEF wireVars, Answer
<1>8. CASE broken' = TRUE /\ (body' = body \/ (SpinnerClear /\ body' = <<>>)) /\ over' = over
  <2>1. Answer(body') = Answer(body)
    BY <1>2, <1>8 DEF Answer
  <2> QED
    BY <1>8, <2>1, Mapped
<1>9. CASE ~broken /\ broken' = broken /\ body' = Append(before, p) /\ over' = FALSE
  <2>1. Answer(body') = Append(Answer(body), p)
    BY <1>3, <1>4, <1>9 DEF Answer
  <2> QED
    BY <1>9, <2>1, Mapped
<1> QED
  BY <1>6, <1>7, <1>8, <1>9

LEMMA ReplaceDelivers ==
  ASSUME IInv, NEW p \in Pieces, p # Spinner, ~closed, UserReplace(p)
  PROVE  /\ Reader!Deliver(<<p>>)
         /\ ~over => ~over'
<1>1. Shown(body, Replace(p)) = <<p>> /\ Replace(p) # Done
  BY DEF Shown, Replace, Done
<1>2. \/ UNCHANGED wireVars /\ broken
      \/ broken' = TRUE /\ body' = body /\ over' = over
      \/ ~broken /\ broken' = broken /\ body' = <<p>> /\ over' = FALSE
  BY <1>1 DEF UserReplace, Emit, wireVars, IInv, ClosedTogether
<1>3. Answer(<<p>>) = <<p>>
  <2>1. <<p>>[1] = p /\ <<Spinner>>[1] = Spinner
    OBVIOUS
  <2> QED
    BY <2>1 DEF Answer
<1> QED
  BY <1>2, <1>3, Mapped DEF wireVars, IInv, TypeOK

LEMMA InitSimulates == Init => Reader!Init
BY Mapped DEF Init, Answer, StageOf

LEMMA NextSimulates == IInv /\ [Next]_vars => [Reader!Next]_(Reader!vars)
<1> SUFFICES ASSUME IInv, [Next]_vars PROVE [Reader!Next]_(Reader!vars)
  OBVIOUS
<1> USE DEF StageOf
<1>1. CASE FirstChunk \/ CallError \/ HandlerReturns \/ HbTick \/ HbStopped \/ UNCHANGED vars
  <2>1. UNCHANGED <<body, texts, broken, over>> /\ StageOf(router', over') = StageOf(router, over)
    BY <1>1 DEF FirstChunk, CallError, HandlerReturns, HbTick, HbStopped, wireVars, vars
  <2> QED
    BY <2>1, Mapped
<1>2. CASE CallDone \/ Shed
  <2>1. /\ UNCHANGED <<body, texts, broken, over>>
        /\ StageOf(router', over') \in {StageOf(router, over), "closing"}
        /\ StageOf(router, over) \in {"open", "closing"}
    BY <1>2 DEF CallDone, Shed, wireVars, IInv, OpenUntilDone
  <2>2. CASE StageOf(router', over') = StageOf(router, over)
    BY <2>1, <2>2, Mapped
  <2>3. CASE StageOf(router', over') = "closing" /\ StageOf(router, over) = "open"
    BY <2>1, <2>3 DEF Reader!Next, Reader!NoLastWord
  <2> QED
    BY <2>1, <2>2, <2>3
<1>3. CASE WriteChunk
  <2>1. /\ <<"text", texts + 1>> \in Pieces /\ <<"text", texts + 1>> # Spinner
        /\ ~closed /\ ~over
    BY <1>3, TextBound, PieceNames DEF WriteChunk, IInv, ChunkLeft, TypeOK, OpenUntilDone
  <2>2. Reader!Deliver(Append(Answer(body), <<"text", texts + 1>>)) /\ ~over'
    BY <1>3, <2>1, AppendDelivers DEF WriteChunk
  <2>3. texts' = texts + 1 /\ router = "chunk" /\ router' = "stream"
    BY <1>3 DEF WriteChunk
  <2> QED
    BY <2>1, <2>2, <2>3 DEF Reader!Next, Reader!Write, Answer
<1>4. CASE Remark \/ WriteError
  <2>1. /\ ~closed /\ ~over /\ texts' = texts
        /\ router \in {"stream", "error"} /\ router' = "last"
    BY <1>4 DEF Remark, WriteError, IInv, OpenUntilDone
  <2>2. /\ \/ \E w \in {"error", "remark"} : Reader!Deliver(Append(Answer(body), <<w, 0>>))
           \/ Reader!Deliver(<<<<"instead", 0>>>>)
        /\ ~over'
    BY <1>4, <2>1, AppendDelivers, ReplaceDelivers, PieceNames DEF Remark, WriteError
  <2> QED
    BY <2>1, <2>2 DEF Reader!Next, Reader!LastWord, Answer
<1>5. CASE WriteDone
  <2>1. ~closed /\ ~over /\ texts' = texts /\ router = "done" /\ router' = "return"
    BY <1>5 DEF WriteDone, IInv, OpenUntilDone
  <2>2. SpinnerClear => Answer(body) = <<>> /\ Answer(<<>>) = <<>>
    BY DEF IInv, NothingWritten, SpinnerClear, Answer
  <2>3. \/ UNCHANGED wireVars
        \/ broken' = TRUE /\ (body' = body \/ (SpinnerClear /\ body' = <<>>)) /\ over' = over
        \/ ~broken /\ broken' = broken /\ over' = TRUE
           /\ (body' = body \/ (SpinnerClear /\ body' = <<>>))
    BY <1>5, <2>1 DEF WriteDone, UserDone, Emit, wireVars, Shown, Done
  <2>4. Answer(body') = Answer(body)
    BY <2>2, <2>3 DEF wireVars
  <2>5. CASE over' = over /\ broken' = broken
    BY <2>1, <2>4, <2>5, Mapped
  <2>6. CASE over' = over /\ broken' = TRUE /\ ~broken
    BY <2>1, <2>4, <2>6 DEF Reader!Next, Reader!Lose, Answer
  <2>7. CASE ~broken /\ broken' = broken /\ over' = TRUE
    BY <2>1, <2>4, <2>7 DEF Reader!Next, Reader!End, Answer
  <2> QED
    BY <2>3, <2>5, <2>6, <2>7 DEF wireVars, IInv, TypeOK
<1>6. CASE HbReplace
  <2>0. texts' = texts /\ router' = router
    BY <1>6 DEF HbReplace
  <2>1. CASE UNCHANGED wireVars
    BY <2>0, <2>1, Mapped DEF wireVars
  <2>2. CASE ~GateClosed /\ ~broken
    <3>1. Answer(body) = <<>> /\ ~over
      BY <2>2 DEF GateClosed, IInv, NothingWritten, OpenUntilDone, Answer
    <3>2. \/ broken' = TRUE /\ body' = body /\ over' = over
          \/ broken' = broken /\ body' = <<Spinner>> /\ over' = FALSE
      BY <1>6, <2>2 DEF HbReplace, Emit, Shown, Replace, Done, IInv, ClosedTogether, GateClosed
    <3>3. Answer(body') = <<>> /\ ~over'
      BY <3>1, <3>2 DEF Answer
    <3>4. CASE broken' = TRUE
      BY <2>0, <2>2, <3>1, <3>3, <3>4 DEF Reader!Next, Reader!Lose, Answer
    <3>5. CASE broken' = broken
      BY <2>0, <3>1, <3>3, <3>5, Mapped
    <3> QED
      BY <3>2, <3>4, <3>5
  <2> QED
    BY <1>6, <2>1, <2>2 DEF HbReplace, Emit
<1> QED
  BY <1>1, <1>2, <1>3, <1>4, <1>5, <1>6 DEF Next, RouterCalls, Heartbeat, Finished

(* The abstract stage says whether the router has its last word to say.    *)
LEMMA OpenStage ==
  ASSUME NEW b \in Seq(Pieces), NEW o \in BOOLEAN,
         NEW rtr \in {"stream", "chunk", "error", "last", "done", "return", "returned"},
         o => rtr \notin {"stream", "chunk", "error"}
  PROVE  /\ Answer(b) \in Seq(Pieces)
         /\ StageOf(rtr, o) = "open" <=> rtr \in {"stream", "chunk", "error"}
BY EmptyElements DEF Answer, StageOf

(* What Response allows keeps the answer whole.                            *)
LEMMA WholeStep ==
  ASSUME IInv, IInv', [Reader!Next]_(Reader!vars), AnswerIsWhole
  PROVE  AnswerIsWhole'
<1> DEFINE a == Answer(body)
           open == StageOf(router, over) = "open"
<1> SUFFICES ASSUME ~broken' PROVE AnswerIsWhole'
  BY DEF AnswerIsWhole
<1>1. a \in Seq(Pieces) /\ texts \in Nat
      /\ (open <=> router \in {"stream", "chunk", "error"})
      /\ (open' <=> router' \in {"stream", "chunk", "error"})
  <2>1. over => router \notin {"stream", "chunk", "error"}
    BY DEF IInv, OpenUntilDone
  <2>2. over' => router' \notin {"stream", "chunk", "error"}
    BY DEF IInv, OpenUntilDone
  <2> QED
    BY <2>1, <2>2, OpenStage, TextBound DEF IInv, TypeOK
<1>2. \A p : /\ Len(Append(a, p)) = Len(a) + 1 /\ Len(a) \in Nat
             /\ \A i \in 1..Len(a) : Append(a, p)[i] = a[i]
             /\ Append(a, p)[Len(a) + 1] = p
  BY <1>1
<1>3. CASE a' = a /\ texts' = texts /\ ~broken /\ (open' => open)
  BY <1>1, <1>3 DEF AnswerIsWhole, ChunksShown
<1>4. ASSUME ~broken, open
      PROVE  Len(a) = texts /\ \A i \in 1..texts : a[i] = <<"text", i>>
  BY <1>1, <1>4 DEF AnswerIsWhole, ChunksShown
<1>5. CASE Reader!Write
  <2>1. ~broken /\ open /\ open' /\ texts' = texts + 1 /\ a' = Append(a, <<"text", texts + 1>>)
    <3>1. Reader!Deliver(Append(a, <<"text", texts + 1>>)) /\ open /\ open' /\ texts' = texts + 1
      BY <1>5 DEF Reader!Write, StageOf, Answer
    <3> QED
      BY <3>1, Mapped DEF IInv, TypeOK
  <2>2. Len(a') = texts' /\ \A i \in 1..texts' : a'[i] = <<"text", i>>
    <3> HIDE DEF a, open
    <3> QED
      BY <1>1, <1>2, <1>4, <2>1
  <2> QED
    BY <1>1, <2>1, <2>2 DEF AnswerIsWhole, ChunksShown
<1>6. CASE Reader!LastWord
  <2>1. /\ ~broken /\ open /\ ~open' /\ texts' = texts
        /\ \/ \E p : a' = Append(a, p)
           \/ a' = <<<<"instead", 0>>>>
    <3>1. /\ open /\ ~open' /\ texts' = texts
          /\ \/ \E p : Reader!Deliver(Append(a, p))
             \/ Reader!Deliver(<<<<"instead", 0>>>>)
      BY <1>6 DEF Reader!LastWord, StageOf, Answer
    <3> QED
      BY <3>1, Mapped DEF IInv, TypeOK
  <2>2. CASE \E p : a' = Append(a, p)
    <3>1. Len(a') = texts' + 1 /\ \A i \in 1..texts' : a'[i] = <<"text", i>>
      <4> HIDE DEF a, open
      <4> QED
        BY <1>1, <1>2, <1>4, <2>1, <2>2
    <3>2. Len(a') \in texts'..(texts' + 1)
      BY <1>1, <2>1, <3>1
    <3> QED
      BY <1>1, <2>1, <3>1, <3>2 DEF AnswerIsWhole, ChunksShown
  <2> QED
    BY <1>1, <2>1, <2>2 DEF AnswerIsWhole
<1>7. CASE Reader!NoLastWord \/ Reader!End
  BY <1>3, <1>7 DEF Reader!NoLastWord, Reader!End, StageOf, Answer
<1>8. CASE Reader!Lose
  BY <1>8 DEF Reader!Lose
<1>9. CASE UNCHANGED Reader!vars
  BY <1>3, <1>9, Mapped DEF IInv, TypeOK
<1> QED
  BY <1>5, <1>6, <1>7, <1>8, <1>9 DEF Reader!Next

-----------------------------------------------------------------------------
(* Theorems.                                                               *)

(* Every variable keeps its type; a frame is only flagged before any user  *)
(* write (orderedWriter's flags).                                          *)
THEOREM TypeCorrect == Spec => []TypeOK
<1>1. IInv => TypeOK
  BY DEF IInv
<1> QED
  BY <1>1, Invariance, PTL

(* orderedWriter: whatever the ticker, the router and the connection do,   *)
(* no spinner is shown beside an answer.                                   *)
THEOREM SpinnerAlone == Spec => []SpinnerNeverMixed
<1>1. IInv => SpinnerNeverMixed
  BY DEF IInv
<1> QED
  BY <1>1, Invariance, PTL

(* orderedWriter.userDone: a response ended on a live connection has told  *)
(* Poe so and shows no spinner.                                            *)
THEOREM SpinnerGone == Spec => []NoFrozenSpinner
<1>1. IInv => NoFrozenSpinner
  BY DEF IInv
<1> QED
  BY <1>1, Invariance, PTL

(* hbReplace, userText and clearSpinnerLocked: what an answer has put on   *)
(* the screen is only ever added to, or replaced by the router.            *)
THEOREM AnswerStays == Spec => ContentKept
<1>1. IInv /\ [Next]_vars =>
        [body # <<Spinner>> => IsPrefix(body, body') \/ body' = <<<<"instead", 0>>>>]_vars
  BY AnswerKept
<1> QED
  BY <1>1, Invariance, PTL DEF Spec, ContentKept

(* The sink, its heartbeat and a connection that fails anywhere: every     *)
(* response is one Response allows.                                        *)
THEOREM Refinement == Spec => ImplementsResponse
BY Invariance, InitSimulates, NextSimulates, PTL
   DEF Spec, Reader!Spec, ImplementsResponse

(* orderedWriter and the router's calls: while the connection lives the    *)
(* reader has every chunk written, in order, whatever the ticker does.     *)
THEOREM NothingMissing == Spec => []AnswerIsWhole
<1>1. Init => AnswerIsWhole
  BY DEF Init, AnswerIsWhole, ChunksShown, Answer
<1>2. IInv /\ IInv' /\ AnswerIsWhole /\ [Next]_vars => AnswerIsWhole'
  BY NextSimulates, WholeStep
<1> QED
  BY <1>1, <1>2, Invariance, PTL DEF Spec
=============================================================================
