----------------------------- MODULE VcdOneShot -----------------------------
(***************************************************************************)
(* vcdiffEncode and vcdiffDecode: vcdiffBuffer of lib/vcdiff.js gives one  *)
(* Buffer to a fresh Vcdiff stream, collects what can be read and calls    *)
(* back once, with an error or with everything.  It is the only user of    *)
(* the stream, whose actions (VcdiffStream) are used as they are.  The     *)
(* caller gets no engine to hold: Retained is FALSE for this program, and  *)
(* the collector may take the engine while the pool works.                 *)
(***************************************************************************)
EXTENDS VcdiffStream

VARIABLES
    pc,         \* vcdiffBuffer: before "write" and "end" of engine.end(), then
                \* "flow"; there it returned
    nread,      \* bytes collected by flow
    answers     \* the calls of callback: "error" or "result"

shotVars == <<pc, nread, answers>>
shotAllVars == <<streamAllVars, shotVars>>

ShotInit ==
    /\ StreamInit
    /\ pc = "write"
    /\ nread = 0
    /\ answers = <<>>

Answered(answer) == answer \in ToSet(answers)

\* engine.end(buffer) writes the Buffer ...
EndWrites ==
    /\ pc = "write" /\ pc' = "end"
    /\ UserWrite
    /\ UNCHANGED <<nread, answers>>

\* ... and ends the stream; the loop has no turn between the two.
EndEnds ==
    /\ pc = "end" /\ pc' = "flow"
    /\ UserEnd
    /\ UNCHANGED <<nread, answers>>

\* Mutants: flow calls back as soon as it read something, or listens to the
\* first 'readable' only.
FlowAnswers ==
    /\ pc = "flow" /\ ~Answered("error")
    /\ UserRead
    /\ nread' = nread + unread
    /\ answers' = Append(answers, "result")
    /\ UNCHANGED pc

FlowOnce ==
    /\ pc = "flow" /\ ~Answered("error") /\ nread = 0
    /\ UserRead
    /\ nread' = nread + unread
    /\ UNCHANGED <<pc, answers>>

\* flow, on every 'readable' until onError removes it.
Flow ==
    /\ pc = "flow" /\ ~Answered("error")
    /\ UserRead
    /\ nread' = nread + unread
    /\ UNCHANGED <<pc, answers>>

\* The stream emits 'error' or 'end' in this step.
EmitsError == hadError' # hadError \/ failed' # failed
EmitsEnd   == endEmitted' # endEmitted

\* onError; onEnd unless onError removed it (close() ran before it, so its own
\* is the second and does nothing); no listener.
Listeners ==
    \/ /\ EmitsError
       /\ answers' = Append(answers, "error")
    \/ /\ EmitsEnd /\ ~Answered("error")
       /\ answers' = Append(answers, "result")
    \/ /\ ~EmitsError /\ (EmitsEnd => Answered("error"))
       /\ UNCHANGED answers

LoopRuns ==
    /\ pc = "flow"
    /\ Loop
    /\ Listeners
    /\ UNCHANGED <<pc, nread>>

PoolRuns == PoolStep /\ UNCHANGED shotVars

\* vcdiffBuffer returned, no callback runs, and no tick is due that would lead
\* to the engine (a kept chunk's cb(), 'readable' or 'end'): its listeners, the
\* stream and the handle only refer to each other.
Unreachable ==
    /\ pc = "flow" /\ main = "loop" /\ js = "idle"
    /\ writing # "tick"
    /\ unread = 0
    /\ rsEnded => endEmitted

\* The weak handle of an unreachable engine, whose work request does not refer
\* to it, lets the collector destroy it.
EngineCollected ==
    /\ ~aborted
    /\ Unreachable
    /\ Collect
    /\ UNCHANGED mode
    /\ UNCHANGED <<jsVars, shotVars>>

ShotNext ==
    EndWrites \/ EndEnds \/ Flow \/ LoopRuns \/ PoolRuns \/ EngineCollected

\* vcdiffBuffer runs to its end, flow is called whenever there is something to
\* read, the pool and the loop run what is ready.  Nothing makes the collector
\* run.
ShotFairness ==
    /\ WF_shotAllVars(EndEnds)
    /\ WF_shotAllVars(Flow)
    /\ WF_shotAllVars(LoopRuns)
    /\ WF_shotAllVars(PoolRuns)

ShotSpec == ShotInit /\ [][ShotNext]_shotAllVars /\ ShotFairness

-----------------------------------------------------------------------------
(* Properties                                                              *)

\* The callback is never called a second time, though 'error' and 'end' each
\* call it and the error listener is never removed (src/lib/vcdiff.js:71-72).
AnsweredOnce == Len(answers) <= 1

\* The Buffer the callback gets holds the output of the whole input: nothing
\* is read after it, and no chunk is left with the stream or the engine when
\* 'end' runs, nor did the collector take the engine before
\* (src/lib/vcdiff.js:92-97).
ResultIsWhole ==
    Answered("result") => nread = written /\ accepted = delivered
                            /\ Len(delivered) = written

\* When the callback is called the engine is done with the caller's Buffer: no
\* pool thread reads it then or later, so the caller may reuse it.
BufferIsFree == answers # <<>> => job = "none"

\* 'end' is never reached on an engine that failed: close(), which listens to
\* it, would throw on the handle that onerror set to null
\* (src/lib/vcdiff.js:195, 223).
CloseHasHandle == rsEnded => ~hadError

\* Every call is answered, whatever its length, mode and outcome, unless the
\* engine was collected under the pool and a destroyed VcdCtx was then used:
\* nothing else keeps a callback from coming (src/lib/vcdiff.js:66-99,
\* src/src/vcdiff.cc:124).
CallbackComes == pc = "end" ~> (answers # <<>> \/ aborted)
-----------------------------------------------------------------------------
(* The inductive invariant behind the safety properties                    *)

\* Until the engine is collected: the answers are what the stream has emitted;
\* what was delivered was read or can be; nobody but 'end' closes the engine,
\* so no transform ever finds it closed.
InUseInv ==
    /\ StreamInv
    /\ nread \in Nat
    /\ answers = IF hadError THEN <<"error">>
                 ELSE IF endEmitted THEN <<"result">> ELSE <<>>
    /\ nread + unread = Len(delivered)
    /\ endEmitted => rsEnded /\ unread = 0
    /\ closed => endEmitted
    /\ ~failed

\* Collected: either the call is over, or a job is left that has no coder.
CollectedInv ==
    /\ collected /\ ~aborted /\ Unreachable /\ ~coder
    /\ job # "none" => answers = <<>> /\ ~rsEnded
    /\ AnsweredOnce /\ ResultIsWhole /\ BufferIsFree /\ CloseHasHandle

\* Such a job was touched: an assert failed or freed memory was used, and no
\* result came of it.
MisusedInv ==
    /\ collected /\ aborted /\ ~rsEnded
    /\ answers # <<>> => answers = <<"error">> /\ job = "none"

ShotInv ==
    /\ pc \in {"write", "end", "flow"}
    /\ InUseInv \/ CollectedInv \/ MisusedInv
=============================================================================
