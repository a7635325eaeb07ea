---------------------------- MODULE VcdiffStream ----------------------------
(***************************************************************************)
(* The Vcdiff stream of lib/vcdiff.js: a Transform that collects written   *)
(* chunks in _buffers until a window is worth encoding, hands them to the  *)
(* native engine (VcdCtx, whose variables and actions this module extends) *)
(* one write at a time, pushes what comes back and closes itself at the    *)
(* end.                                                                    *)
(*                                                                         *)
(* Node's own stream machinery is external and modelled from how           *)
(* lib/vcdiff.js uses it: writes queue behind the one being transformed, a *)
(* transform may be held until the reader makes room, 'data', 'drain' and  *)
(* write callbacks run user code in the middle of a step.  Every place     *)
(* where user code can run is a value of js, and between two steps the     *)
(* user may write, flush, end, close or read at any of them.               *)
(***************************************************************************)
EXTENDS VcdCtx

CONSTANTS
    MinWindow,      \* _minEncodeWindowSize, in bytes
    WriteHWM,       \* highWaterMark of the writable side
    ReadHWM,        \* highWaterMark of the readable side
    MaxWrite,       \* bound: bytes in one write by the user
    MaxQueue,       \* bound: requests waiting in the writable side
    MaxFlushes      \* bound: calls of flush() the user makes

ASSUME StreamConstantsAssumption ==
    /\ MinWindow \in Nat \ {0}
    /\ WriteHWM \in Nat \ {0}
    /\ ReadHWM \in Nat \ {0}
    /\ MaxWrite \in Nat
    /\ MaxQueue \in Nat
    /\ MaxFlushes \in Nat

VARIABLES
    \* The Vcdiff object
    buffers,        \* _buffers, concatenated; _nread is its length
    forceFlush,     \* _forceFlush
    \* _writableState and _transformState
    ws,             \* [ending, ended, needDrain, prefinished]
    writing,        \* the transform in progress: "no"; "held" for want of
                    \* room; "tick", its callback is in nextTick; "binding",
                    \* the engine works on it; "final", the one _flush makes
    request,        \* the write it belongs to
    queue,          \* the writes behind it
    waiters,        \* flush() calls waiting for 'drain'
    draining,       \* those the current 'drain' event has yet to call
    \* _readableState
    unread,         \* bytes pushed and not read
    rsEnded,        \* push(null) was called
    endEmitted,
    \* Control and history
    js,             \* "idle"; in push(), "data"; in onwrite, "drain" and
                    \* "after"
    written,        \* bytes the user wrote
    flushes,        \* calls of flush()
    flushTo,        \* bytes written before the last flush() or empty write
    earlyFlush,     \* the callback of a flush's empty chunk ran before the
                    \* bytes it flushes were delivered
    endedFlush,     \* flush() on an ended stream did not wait for them
    failed          \* 'error' with 'vcdiff binding closed' was emitted

jsVars == <<buffers, forceFlush, ws, writing, request, queue, waiters, draining,
            unread, rsEnded, endEmitted, js, written, flushes, flushTo,
            earlyFlush, endedFlush, failed>>
streamAllVars == <<vars, jsVars>>

NoFlush == -1

Request == [bytes : Seq(Nat), flushAt : Nat \cup {NoFlush}]

NoRequest == [bytes |-> <<>>, flushAt |-> NoFlush]

JsTypeOK ==
    /\ buffers \in Seq(Nat)
    /\ forceFlush \in BOOLEAN
    /\ ws \in [ending : BOOLEAN, ended : BOOLEAN, needDrain : BOOLEAN,
               prefinished : BOOLEAN]
    /\ writing \in {"no", "held", "tick", "binding", "final"}
    /\ request \in Request
    /\ queue \in Seq(Request)
    /\ waiters \in Seq(Nat) /\ draining \in Seq(Nat)
    /\ unread \in Nat
    /\ rsEnded \in BOOLEAN /\ endEmitted \in BOOLEAN
    /\ js \in {"idle", "data", "drain", "after"}
    /\ written \in Nat /\ flushes \in Nat /\ flushTo \in Nat
    /\ earlyFlush \in BOOLEAN /\ endedFlush \in BOOLEAN /\ failed \in BOOLEAN

StreamTypeOK == TypeOK /\ JsTypeOK

StreamInit ==
    /\ Init
    /\ buffers = <<>> /\ forceFlush = FALSE
    /\ ws = [ending |-> FALSE, ended |-> FALSE, needDrain |-> FALSE,
             prefinished |-> FALSE]
    /\ writing = "no" /\ request = NoRequest /\ queue = <<>>
    /\ waiters = <<>> /\ draining = <<>>
    /\ unread = 0 /\ rsEnded = FALSE /\ endEmitted = FALSE
    /\ js = "idle"
    /\ written = 0 /\ flushes = 0 /\ flushTo = 0
    /\ earlyFlush = FALSE /\ endedFlush = FALSE /\ failed = FALSE

-----------------------------------------------------------------------------
(* Helpers                                                                 *)

\* The bytes of a sequence of requests, in order.
BytesOf(requests) ==
    FoldLeft(LAMBDA bytes, r : bytes \o r.bytes, <<>>, requests)

\* _writableState.length, with the given requests behind the current one.
LengthWith(current, behind) == Len(current.bytes) + Len(BytesOf(behind))

Room == unread < ReadHWM

\* Mutants of ProcessChunk: _buffers is not cleared when it is sent; forceFlush
\* is not looked at; a kept chunk is never acknowledged.
ProcessChunkKeepsBuffers(chunk, isLast, force, whenSent) ==
    LET all == buffers \o chunk
    IN IF Len(all) >= MinWindow \/ force \/ mode = "DECODE"
       THEN writing' = whenSent /\ Write(all, isLast, TRUE) /\ UNCHANGED <<mode, buffers>>
       ELSE buffers' = all /\ writing' = "tick" /\ UNCHANGED vars

ProcessChunkIgnoresForce(chunk, isLast, force, whenSent) ==
    LET all == buffers \o chunk
    IN IF Len(all) >= MinWindow \/ mode = "DECODE"
       THEN buffers' = <<>> /\ writing' = whenSent /\ Write(all, isLast, TRUE) /\ UNCHANGED mode
       ELSE buffers' = all /\ writing' = "tick" /\ UNCHANGED vars

ProcessChunkForgetsCallback(chunk, isLast, force, whenSent) ==
    LET all == buffers \o chunk
    IN IF Len(all) >= MinWindow \/ force \/ mode = "DECODE"
       THEN buffers' = <<>> /\ writing' = whenSent /\ Write(all, isLast, TRUE) /\ UNCHANGED mode
       ELSE buffers' = all /\ writing' = "binding" /\ UNCHANGED vars

\* _processChunk: a small chunk is kept and acknowledged in the next tick, the
\* rest goes to the engine with everything kept.  whenSent is the state of the
\* transform in the second case.
ProcessChunk(chunk, isLast, force, whenSent) ==
    LET all == buffers \o chunk
    IN IF Len(all) >= MinWindow \/ force \/ mode = "DECODE"
       THEN /\ buffers' = <<>>
            /\ writing' = whenSent
            /\ Write(all, isLast, TRUE)
            /\ UNCHANGED mode
       ELSE /\ buffers' = all
            /\ writing' = "tick"
            /\ UNCHANGED vars

\* Mutants of TransformChunk: every chunk after end() is the last; _forceFlush
\* is never reset.
TransformChunkLastIfEnding(chunk, length, flag, ending, isBuffer, whenSent) ==
    /\ forceFlush' = (flag /\ Len(chunk) < length)
    /\ ProcessChunk(chunk, ending, flag \/ (isBuffer /\ chunk = <<>>), whenSent)

TransformChunkKeepsForce(chunk, length, flag, ending, isBuffer, whenSent) ==
    /\ forceFlush' = flag
    /\ ProcessChunk(chunk, ending /\ length = Len(chunk),
                    flag \/ (isBuffer /\ chunk = <<>>), whenSent)

\* _transform on an open engine, with length and flag the values of ws.length
\* and _forceFlush, isBuffer true unless _flush calls it.
TransformChunk(chunk, length, flag, ending, isBuffer, whenSent) ==
    /\ forceFlush' = (flag /\ Len(chunk) < length)
    /\ ProcessChunk(chunk,
                    ending /\ length = Len(chunk),
                    flag \/ (isBuffer /\ chunk = <<>>),
                    whenSent)

\* Mutant: _transform does not look at _closed.
StartWriteUnchecked(req, behind, left, flag) ==
    /\ request' = req
    /\ queue' = behind
    /\ \/ /\ ~Room
          /\ writing' = "held"
          /\ forceFlush' = flag
          /\ UNCHANGED <<vars, buffers>>
       \/ /\ Room
          /\ TransformChunk(req.bytes, LengthWith(req, behind), flag, ws.ending,
                            TRUE, "binding")
    /\ UNCHANGED failed

\* doWrite: the transform is held without room, fails on a closed engine, and
\* starts otherwise.  behind is the queue then, left the queue when it failed.
StartWrite(req, behind, left, flag) ==
    \/ /\ ~Room
       /\ writing' = "held"
       /\ request' = req
       /\ queue' = behind
       /\ forceFlush' = flag
       /\ UNCHANGED <<vars, buffers, failed>>
    \/ /\ Room /\ closed
       /\ writing' = "no"
       /\ request' = NoRequest
       /\ queue' = left
       /\ forceFlush' = flag
       /\ failed' = TRUE
       /\ UNCHANGED <<vars, buffers>>
    \/ /\ Room /\ ~closed
       /\ request' = req
       /\ queue' = behind
       /\ TransformChunk(req.bytes, LengthWith(req, behind), flag, ws.ending,
                         TRUE, "binding")
       /\ UNCHANGED failed

\* Writable.write of a request, with _forceFlush = flag.
WriteRequest(req, flag) ==
    /\ ~ws.ended
    /\ LET length == LengthWith(request, queue) + Len(req.bytes)
       IN ws' = [ws EXCEPT !.needDrain = @ \/ length >= WriteHWM]
    /\ IF writing # "no"
       THEN /\ queue' = Append(queue, req)
            /\ forceFlush' = flag
            /\ UNCHANGED <<vars, writing, request, buffers, failed>>
       ELSE StartWrite(req, queue, queue, flag)

\* Is the output of the first `at' bytes of an encoder yet to be pushed?
Undelivered(at) == mode = "ENCODE" /\ at > Len(delivered)

\* Mutant: the listener for 'drain' loses what it is to flush.
FlushRequestUnplaced(at) ==
    \/ /\ ~ws.ended /\ ws.needDrain
       /\ waiters' = Append(waiters, NoFlush)
       /\ UNCHANGED <<vars, buffers, forceFlush, ws, writing, request, queue,
                      endedFlush, failed>>
    \/ /\ ~ws.ended /\ ~ws.needDrain
       /\ WriteRequest([bytes |-> <<>>, flushAt |-> at], TRUE)
       /\ UNCHANGED <<waiters, endedFlush>>

\* Vcdiff.prototype.flush for a flush that was asked for after `at' bytes: on
\* an ended stream the callback is due in the next tick, before anything more
\* can be delivered; else wait for 'drain', or set _forceFlush and write an
\* empty chunk.
FlushRequest(at) ==
    \/ /\ ws.ended
       /\ endedFlush' = (endedFlush \/ Undelivered(at))
       /\ UNCHANGED <<vars, buffers, forceFlush, ws, writing, request, queue,
                      waiters, failed>>
    \/ /\ ~ws.ended /\ ws.needDrain
       /\ waiters' = Append(waiters, at)
       /\ UNCHANGED <<vars, buffers, forceFlush, ws, writing, request, queue,
                      endedFlush, failed>>
    \/ /\ ~ws.ended /\ ~ws.needDrain
       /\ WriteRequest([bytes |-> <<>>, flushAt |-> at], TRUE)
       /\ UNCHANGED <<waiters, endedFlush>>

\* finishMaybe, with ending the value of ws.ending: once, when all writes are
\* answered, 'prefinish' calls _flush, which forces out what is kept.
FinishMaybe(ending) ==
    IF ending /\ writing = "no" /\ queue = <<>> /\ ~ws.prefinished
    THEN /\ ws' = [ws EXCEPT !.prefinished = TRUE, !.ending = ending,
                             !.ended = ending]
         /\ \/ /\ closed
               /\ failed' = TRUE
               /\ forceFlush' = TRUE
               /\ UNCHANGED <<vars, buffers, writing>>
            \/ /\ ~closed
               /\ TransformChunk(<<>>, 0, TRUE, ending, FALSE, "final")
               /\ UNCHANGED failed
    ELSE /\ ws' = [ws EXCEPT !.ending = ending, !.ended = ending]
         /\ UNCHANGED <<vars, buffers, forceFlush, writing, failed>>

-----------------------------------------------------------------------------
(* The user                                                                *)

UserMayRun == ~aborted /\ main # "sync"

\* An empty chunk forces what is kept out, as one written by flush() does.
UserWrite ==
    /\ UserMayRun
    /\ Len(queue) < MaxQueue
    /\ \E n \in 0 .. MaxWrite :
          /\ written + n <= MaxAccepted
          /\ WriteRequest([bytes |-> [i \in 1 .. n |-> written + i],
                           flushAt |-> NoFlush], forceFlush)
          /\ written' = written + n
          /\ flushTo' = IF n = 0 THEN written ELSE flushTo
    /\ UNCHANGED <<waiters, draining, unread, rsEnded, endEmitted, js, flushes,
                   earlyFlush, endedFlush>>

UserFlush ==
    /\ UserMayRun
    /\ Len(queue) < MaxQueue /\ flushes < MaxFlushes
    /\ flushes' = flushes + 1
    /\ flushTo' = written
    /\ FlushRequest(written)
    /\ UNCHANGED <<draining, unread, rsEnded, endEmitted, js, written, earlyFlush>>

UserEnd ==
    /\ UserMayRun
    /\ ~ws.ending
    /\ FinishMaybe(TRUE)
    /\ UNCHANGED <<request, queue, waiters, draining, unread, rsEnded, endEmitted,
                   js, written, flushes, flushTo, earlyFlush, endedFlush>>

\* Vcdiff.prototype.close on an engine that did not fail.
UserClose ==
    /\ UserMayRun
    /\ ClientClose
    /\ UNCHANGED mode
    /\ UNCHANGED jsVars

\* read(): takes all there is; a transform held for want of room starts, or
\* fails on a closed engine without waking the queue.
UserRead ==
    /\ UserMayRun
    /\ unread > 0
    /\ unread' = 0
    /\ \/ /\ writing = "held" /\ ~closed
          /\ TransformChunk(request.bytes, LengthWith(request, queue), forceFlush,
                            ws.ending, TRUE, "binding")
          /\ UNCHANGED <<request, failed>>
       \/ /\ writing = "held" /\ closed
          /\ writing' = "no"
          /\ request' = NoRequest
          /\ failed' = TRUE
          /\ UNCHANGED <<vars, buffers, forceFlush>>
       \/ /\ writing # "held"
          /\ UNCHANGED <<vars, buffers, forceFlush, writing, request, failed>>
    /\ UNCHANGED <<ws, queue, waiters, draining, rsEnded, endEmitted, js, written,
                   flushes, flushTo, earlyFlush, endedFlush>>

User == UserWrite \/ UserFlush \/ UserEnd \/ UserClose \/ UserRead

-----------------------------------------------------------------------------
(* The event loop                                                          *)

PoolStep == ~aborted /\ Pool /\ UNCHANGED mode /\ UNCHANGED jsVars

\* callback(out, finished), up to the 'data' event of push(out).
Answer ==
    /\ ~aborted
    /\ js = "idle" /\ writing # "tick"
    /\ AfterOk
    /\ UNCHANGED mode
    /\ js' = "data"
    /\ unread' = unread + Len(output_buffer)
    /\ UNCHANGED <<buffers, forceFlush, ws, writing, request, queue, waiters,
                   draining, rsEnded, endEmitted, written, flushes, flushTo,
                   earlyFlush, endedFlush, failed>>

\* cb() of a write: onwrite starts the next queued write, on a closed engine it
\* fails them all, then 'drain' is emitted when nothing is left and somebody
\* waits, unless the stream is about to finish.
WriteAnswer ==
    /\ ~aborted
    /\ \/ js = "data" /\ writing = "binding"
       \/ js = "idle" /\ writing = "tick"
    /\ IF queue = <<>>
       THEN /\ writing' = "no"
            /\ request' = NoRequest
            /\ UNCHANGED <<vars, buffers, forceFlush, queue, failed>>
       ELSE StartWrite(Head(queue), Tail(queue), <<>>, forceFlush)
    /\ LET finishes == ws.ending /\ queue = <<>>
           empties  == BytesOf(queue) = <<>> \/ (closed /\ Room)
           drains   == ws.needDrain /\ ~finishes /\ empties
       IN IF drains
          THEN /\ js' = "drain"
               /\ ws' = [ws EXCEPT !.needDrain = FALSE]
               /\ draining' = waiters
               /\ waiters' = <<>>
          ELSE /\ js' = "after"
               /\ UNCHANGED <<ws, draining, waiters>>
    /\ earlyFlush' = (earlyFlush \/ Undelivered(request.flushAt))
    /\ UNCHANGED <<unread, rsEnded, endEmitted, written, flushes, flushTo,
                   endedFlush>>

\* A 'drain' listener that flush() registered: it calls flush() again.
DrainFlush ==
    /\ ~aborted
    /\ js = "drain" /\ draining # <<>>
    /\ draining' = Tail(draining)
    /\ FlushRequest(Head(draining))
    /\ UNCHANGED <<unread, rsEnded, endEmitted, js, written, flushes, flushTo,
                   earlyFlush>>

\* The end of afterWrite.
AfterWrite ==
    /\ ~aborted
    /\ \/ js = "drain" /\ draining = <<>>
       \/ js = "after"
    /\ js' = "idle"
    /\ FinishMaybe(ws.ending)
    /\ UNCHANGED <<request, queue, waiters, draining, unread, rsEnded, endEmitted,
                   written, flushes, flushTo, earlyFlush, endedFlush>>

\* cb() of the transform _flush made: done() pushes the end of the stream.
FinalAnswer ==
    /\ ~aborted
    /\ js = "data" /\ writing = "final"
    /\ js' = "idle"
    /\ writing' = "no"
    /\ rsEnded' = TRUE
    /\ UNCHANGED vars
    /\ UNCHANGED <<buffers, forceFlush, ws, request, queue, waiters, draining,
                   unread, endEmitted, written, flushes, flushTo, earlyFlush,
                   endedFlush, failed>>

\* MakeCallback ran the nextTick queue before it returned.
AnswerReturn ==
    /\ ~aborted
    /\ js = "idle" /\ writing # "tick"
    /\ AfterOkReturn
    /\ UNCHANGED mode
    /\ UNCHANGED jsVars

\* Mutant: onerror completes the transform in progress too.
ErrorStepAnswers ==
    /\ ~aborted
    /\ js = "idle" /\ writing # "tick"
    /\ \/ AfterError /\ UNCHANGED js
       \/ AfterErrorReturn /\ js' = "data"
    /\ UNCHANGED mode
    /\ UNCHANGED <<buffers, forceFlush, ws, writing, request, queue, waiters,
                   draining, unread, rsEnded, endEmitted, written, flushes,
                   flushTo, earlyFlush, endedFlush, failed>>

\* onerror: no callback is called, so the transform stays in progress.
ErrorStep ==
    /\ ~aborted
    /\ js = "idle" /\ writing # "tick"
    /\ AfterError \/ AfterErrorReturn
    /\ UNCHANGED mode
    /\ UNCHANGED jsVars

\* 'end', for which the constructor registered close.
EmitEnd ==
    /\ ~aborted
    /\ js = "idle" /\ main \in {"loop", "callback"}
    /\ rsEnded /\ unread = 0 /\ ~endEmitted
    /\ endEmitted' = TRUE
    /\ IF closed THEN UNCHANGED vars ELSE ClientClose /\ UNCHANGED mode
    /\ UNCHANGED <<buffers, forceFlush, ws, writing, request, queue, waiters,
                   draining, unread, rsEnded, js, written, flushes, flushTo,
                   earlyFlush, endedFlush, failed>>

Loop == Answer \/ WriteAnswer \/ DrainFlush \/ AfterWrite \/ FinalAnswer
          \/ AnswerReturn \/ ErrorStep \/ EmitEnd

StreamNext == User \/ PoolStep \/ Loop

\* The pool and the loop run what is ready, and the reader keeps reading.
StreamFairness ==
    /\ WF_streamAllVars(PoolStep)
    /\ WF_streamAllVars(Loop)
    /\ WF_streamAllVars(UserRead)

StreamSpec == StreamInit /\ [][StreamNext]_streamAllVars

StreamFairSpec == StreamSpec /\ StreamFairness

-----------------------------------------------------------------------------
(* Properties                                                              *)

\* lib/vcdiff.js keeps the contract of the binding: one write at a time, none
\* after close, after an error or through the null handle an error leaves, the
\* bytes in the order they were written, and nothing but empty last writes
\* after the last one (its bytes would be discarded in state DONE).
ImplementsCtx == Spec

\* The bytes of a transform that waits for room.
Held == IF writing = "held" THEN request.bytes ELSE <<>>

\* Every byte written is with the engine, in _buffers, in the held transform or
\* in the queue, in order; a closed engine may lose what it had not got.
InOrder ==
    ~failed => accepted \o buffers \o Held \o BytesOf(queue)
                 = [i \in 1 .. written |-> i]

\* 'end' is only emitted when every byte that was written was delivered.
EndMeansAll == rsEnded => Len(delivered) = written

\* A flush() calls back only once the output of everything written before it
\* was pushed, also when it waited for 'drain': unless the stream was ended
\* before the flush had its turn, for then it does not wait for the output
\* (src/lib/vcdiff.js:233-246).
FlushDelivers == ~earlyFlush /\ (endedFlush => ws.ended)

\* _forceFlush never outlives the writes it was set for: with nothing queued
\* small writes are collected again.
ForceFlushEnds == forceFlush /\ ~failed => writing # "no"

\* Only what a flush or the end asks for is encoded in less than a window.
SmallWindowsOnRequest ==
    [][LET n == Len(accepted') - Len(accepted)
       IN mode = "ENCODE" /\ n \in 1 .. MinWindow - 1
            => ended' \/ Len(accepted) < flushTo']_streamAllVars

\* A stream that is ended and read gets to 'end', unless it failed or the user
\* closed it.
EndCompletes == ws.ended ~> (endEmitted \/ hadError \/ closed)

\* A flush() that waits for 'drain' gets its turn, unless the stream is ended
\* (a finishing stream emits no 'drain'), failed or closed.
FlushGetsTurn ==
    waiters # <<>> ~> (waiters = <<>> \/ ws.ended \/ hadError \/ closed)

-----------------------------------------------------------------------------
(* The inductive invariant behind ImplementsCtx, InOrder, EndMeansAll,     *)
(* FlushDelivers and ForceFlushEnds                                        *)

\* A transform is with the engine exactly from its write until its callback.
ControlInv ==
    /\ ~collected /\ main # "sync"
    /\ awaiting => writing \in {"binding", "final"} /\ js # "data"
    /\ writing \in {"binding", "final"} => awaiting \/ js = "data"
    /\ js = "data" => writing \in {"binding", "final"} /\ main = "callback"
    /\ hadError => awaiting
    /\ failed => closed

\* Where the bytes are; nothing waits behind a transform that is not there.
OrderInv ==
    /\ written <= MaxAccepted
    /\ InOrder
    /\ ~failed /\ writing = "no" => queue = <<>>

\* Nothing follows the last write of an engine, and nothing the end.
EndInv ==
    /\ ws.ending = ws.ended
    /\ ws.prefinished => /\ ws.ended /\ queue = <<>>
                         /\ writing \in {"no", "final"}
    /\ ended => ws.ended
    /\ ended /\ ~failed => buffers = <<>> /\ Held = <<>> /\ BytesOf(queue) = <<>>
    /\ writing = "final" \/ rsEnded => ws.prefinished /\ ended /\ ~failed
    /\ rsEnded => writing = "no"

\* The flag of flush() is up only while something it was set for is waiting.
ForceInv ==
    forceFlush /\ ~failed => \/ writing = "held"
                             \/ writing \in {"tick", "binding"} /\ queue # <<>>

\* A request of flush() has no bytes, and the bytes queued behind it are later
\* than those it flushes.
FlushRequestOK(r) ==
    r.flushAt <= written /\ (r.flushAt # NoFlush => r.bytes = <<>>)

LaterThan(r, at) == \A i \in 1 .. Len(r.bytes) : r.bytes[i] > at

FlushInv ==
    /\ FlushDelivers
    /\ FlushRequestOK(request)
    /\ \A k \in 1 .. Len(queue) : FlushRequestOK(queue[k])
    /\ \A k \in 1 .. Len(waiters) : waiters[k] <= written
    /\ \A k \in 1 .. Len(draining) : draining[k] <= written
    /\ writing = "tick" => request.flushAt = NoFlush
    /\ writing = "binding" => request.flushAt <= Len(accepted)
    /\ ~failed => \A k \in 1 .. Len(queue) :
                      /\ \A j \in 1 .. k - 1 : LaterThan(queue[k], queue[j].flushAt)
                      /\ writing = "held" => LaterThan(queue[k], request.flushAt)

StreamInv ==
    IInv /\ JsTypeOK /\ ControlInv /\ OrderInv /\ EndInv /\ ForceInv /\ FlushInv
=============================================================================
