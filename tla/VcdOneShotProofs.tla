-------------------------- MODULE VcdOneShotProofs --------------------------
(***************************************************************************)
(* vcdiffEncode and vcdiffDecode call back at most once, with an error or  *)
(* with the whole output, and leave nothing at work behind: for Buffers,   *)
(* windows and high-water marks of any size, and whenever the collector    *)
(* runs.                                                                   *)
(*                                                                         *)
(* Until the engine is collected every step is one of the stream, whose    *)
(* invariant (VcdiffStreamProofs) is extended by what vcdiffBuffer knows.  *)
(* After it no step is left but one that finds the engine destroyed.       *)
(* Nothing is assumed of Retained.                                         *)
(***************************************************************************)
EXTENDS VcdOneShot, VcdiffStreamProofs

-----------------------------------------------------------------------------
(* Nobody closes the engine but 'end'                                      *)

\* What has been emitted and delivered stays as it is.
NothingEmitted == UNCHANGED <<hadError, failed, endEmitted, delivered, closed>>

\* A stream that is not at its end has an open engine ...
LEMMA OpenUntilEnd ==
    ASSUME InUseInv, closed
    PROVE  endEmitted /\ rsEnded /\ writing = "no" /\ ws.ended /\ ws.prefinished
BY DEF InUseInv, StreamInv, EndInv

\* ... and its end comes after the answer of the last write, without an error.
LEMMA EndIsQuiet ==
    ASSUME StreamInv, rsEnded
    PROVE  ~awaiting /\ job = "none" /\ ~hadError /\ writing = "no"
<1>1. writing = "no"
  BY DEF StreamInv, EndInv
<1>2. ~awaiting
  BY <1>1 DEF StreamInv, ControlInv
<1> QED
  BY <1>1, <1>2 DEF StreamInv, ControlInv, IInv, JobInv

\* A transform that starts emits nothing.
LEMMA TransformEmitsNothing ==
    ASSUME NEW chunk, NEW length, NEW flag, NEW ending, NEW isBuffer, NEW whenSent,
           TransformChunk(chunk, length, flag, ending, isBuffer, whenSent)
    PROVE  UNCHANGED <<hadError, delivered, closed>>
BY DEF TransformChunk, ProcessChunk, Write, vars, clientVars, streamVars

\* A write on an open engine emits nothing.
LEMMA StartWriteEmitsNothing ==
    ASSUME ~closed, NEW req, NEW behind, NEW left, NEW flag,
           StartWrite(req, behind, left, flag)
    PROVE  UNCHANGED <<hadError, delivered, closed, failed>>
BY TransformEmitsNothing DEF StartWrite, vars, clientVars, streamVars

LEMMA WriteRequestEmitsNothing ==
    ASSUME ~closed, NEW req, NEW flag, WriteRequest(req, flag)
    PROVE  UNCHANGED <<hadError, delivered, closed, failed>>
BY StartWriteEmitsNothing DEF WriteRequest, vars, clientVars, streamVars

\* _flush on an open engine emits nothing.
LEMMA FinishMaybeEmitsNothing ==
    ASSUME ~closed \/ ws.prefinished, NEW ending, FinishMaybe(ending)
    PROVE  UNCHANGED <<hadError, delivered, closed, failed>>
BY TransformEmitsNothing DEF FinishMaybe, vars, clientVars, streamVars

-----------------------------------------------------------------------------
(* What each step emits                                                    *)

LEMMA EndWritesQuiet ==
    ASSUME InUseInv, EndWrites
    PROVE  NothingEmitted /\ UNCHANGED <<unread, rsEnded, nread, answers>>
<1>1. UserWrite /\ UNCHANGED <<nread, answers>>
  BY DEF EndWrites
<1>2. ~closed
  BY <1>1, OpenUntilEnd DEF UserWrite, WriteRequest
<1> QED
  BY <1>1, <1>2, WriteRequestEmitsNothing DEF UserWrite, NothingEmitted

LEMMA EndEndsQuiet ==
    ASSUME InUseInv, EndEnds
    PROVE  NothingEmitted /\ UNCHANGED <<unread, rsEnded, nread, answers>>
<1>1. UserEnd /\ UNCHANGED <<nread, answers>>
  BY DEF EndEnds
<1>2. ~closed \/ ws.prefinished
  BY OpenUntilEnd
<1> QED
  BY <1>1, <1>2, FinishMaybeEmitsNothing DEF UserEnd, NothingEmitted

\* A read that starts a held transform finds the engine open.
LEMMA FlowQuiet ==
    ASSUME InUseInv, Flow
    PROVE  /\ NothingEmitted /\ UNCHANGED <<rsEnded, answers>>
           /\ unread' = 0 /\ nread' = nread + unread
<1>1. UserRead /\ nread' = nread + unread /\ UNCHANGED answers
  BY DEF Flow
<1>2. closed => writing # "held"
  BY OpenUntilEnd
<1>3. UNCHANGED <<hadError, delivered, closed, failed>>
  BY <1>1, <1>2, TransformEmitsNothing DEF UserRead, vars, clientVars, streamVars
<1> QED
  BY <1>1, <1>3 DEF UserRead, NothingEmitted

LEMMA PoolRunsQuiet ==
    ASSUME InUseInv, PoolRuns
    PROVE  NothingEmitted /\ UNCHANGED <<unread, rsEnded, nread, answers>>
BY DEF PoolRuns, PoolStep, Pool, PoolStart, PoolProcess, PoolProcessError,
       PoolFinish, PoolReturn, PoolUnchanged, clientVars, streamVars, jsVars,
       shotVars, NothingEmitted

\* The loop's steps that answer, continue or finish a write.
LEMMA WritesQuiet ==
    ASSUME InUseInv, WriteAnswer \/ DrainFlush \/ AfterWrite
    PROVE  NothingEmitted /\ UNCHANGED <<unread, rsEnded>>
<1>1. CASE WriteAnswer
  <2>1. ~closed
    BY <1>1, OpenUntilEnd DEF WriteAnswer
  <2> QED
    BY <1>1, <2>1, StartWriteEmitsNothing
       DEF WriteAnswer, NothingEmitted, vars, clientVars, streamVars
<1>2. CASE DrainFlush
  <2>1. closed => ws.ended
    BY OpenUntilEnd
  <2>2. ~ws.ended => (FlushRequest(Head(draining)) /\ ~closed)
    BY <1>2, <2>1 DEF DrainFlush
  <2> QED
    BY <1>2, <2>2, WriteRequestEmitsNothing
       DEF DrainFlush, FlushRequest, NothingEmitted, vars, clientVars, streamVars
<1>3. CASE AfterWrite
  <2>1. ~closed \/ ws.prefinished
    BY OpenUntilEnd
  <2> QED
    BY <1>3, <2>1, FinishMaybeEmitsNothing DEF AfterWrite, NothingEmitted
<1> QED
  BY <1>1, <1>2, <1>3

\* callback(out, finished) pushes exactly what is delivered.
LEMMA AnswerDelivers ==
    ASSUME InUseInv, Answer
    PROVE  /\ UNCHANGED <<hadError, failed, endEmitted, closed, rsEnded>>
           /\ ~endEmitted
           /\ Len(delivered') = Len(delivered) + (unread' - unread)
           /\ unread' \in Nat
<1>1. /\ delivered' = delivered \o output_buffer /\ job = "done"
      /\ unread' = unread + Len(output_buffer)
      /\ UNCHANGED <<hadError, failed, endEmitted, closed, rsEnded>>
  BY DEF Answer, AfterOk, FinishWrite, GetOutputBuffer
<1>2. delivered \in Seq(Nat) /\ output_buffer \in Seq(Nat) /\ unread \in Nat
  BY DEF InUseInv, StreamInv, IInv, TypeOK, JsTypeOK
<1>3. ~endEmitted
  BY <1>1, EndIsQuiet DEF InUseInv
<1> QED
  BY <1>1, <1>2, <1>3, ConcatLen

-----------------------------------------------------------------------------
(* The invariant                                                           *)

\* The parts of InUseInv that speak of one step's emissions.
ShotPart ==
    /\ nread \in Nat
    /\ answers = IF hadError THEN <<"error">>
                 ELSE IF endEmitted THEN <<"result">> ELSE <<>>
    /\ nread + unread = Len(delivered)
    /\ endEmitted => rsEnded /\ unread = 0
    /\ closed => endEmitted
    /\ ~failed

\* A step that emits nothing and loses no byte.
LEMMA QuietShot ==
    ASSUME InUseInv, NothingEmitted, UNCHANGED <<rsEnded, answers>>,
           \/ UNCHANGED <<unread, nread>>
           \/ unread' = 0 /\ nread' = nread + unread
    PROVE  ShotPart'
<1>1. unread \in Nat /\ nread \in Nat
  BY DEF InUseInv, StreamInv, JsTypeOK
<1> QED
  BY <1>1 DEF InUseInv, ShotPart, NothingEmitted

\* A step of the loop, with what the listeners do about it.
LEMMA LoopRunsKeeps ==
    ASSUME InUseInv, LoopRuns
    PROVE  ShotPart'
<1>1. Loop /\ Listeners /\ nread' = nread
  BY DEF LoopRuns
<1>2. /\ unread \in Nat /\ nread \in Nat /\ StreamInv /\ ~failed
      /\ hadError \in BOOLEAN /\ endEmitted \in BOOLEAN /\ rsEnded \in BOOLEAN
      /\ Len(delivered) \in Nat
  BY LenProperties DEF InUseInv, StreamInv, JsTypeOK, IInv, TypeOK
<1>3. CASE WriteAnswer \/ DrainFlush \/ AfterWrite
  <2>1. NothingEmitted /\ UNCHANGED <<unread, rsEnded>>
    BY <1>3, WritesQuiet
  <2>2. UNCHANGED answers
    BY <1>1, <2>1 DEF Listeners, EmitsError, EmitsEnd, NothingEmitted
  <2> QED
    BY <1>1, <2>1, <2>2, QuietShot
<1>4. CASE Answer
  <2>1. /\ UNCHANGED <<hadError, failed, endEmitted, closed, rsEnded>>
        /\ ~endEmitted /\ unread' \in Nat
        /\ Len(delivered') = Len(delivered) + (unread' - unread)
    BY <1>4, AnswerDelivers
  <2>2. UNCHANGED answers
    BY <1>1, <2>1 DEF Listeners, EmitsError, EmitsEnd
  <2>3. nread' + unread' = Len(delivered')
    BY <1>1, <1>2, <2>1 DEF InUseInv
  <2> QED
    BY <1>1, <1>2, <2>1, <2>2, <2>3 DEF InUseInv, ShotPart
<1>5. CASE AnswerReturn \/ FinalAnswer
  <2>1. NothingEmitted /\ unread' = unread /\ (rsEnded => rsEnded')
    BY <1>5 DEF AnswerReturn, AfterOkReturn, FinalAnswer, NothingEmitted, vars,
                clientVars, streamVars, jsVars
  <2>2. UNCHANGED answers
    BY <1>1, <2>1 DEF Listeners, EmitsError, EmitsEnd, NothingEmitted
  <2> QED
    BY <1>1, <1>2, <2>1, <2>2 DEF InUseInv, ShotPart, NothingEmitted
<1>6. CASE ErrorStep
  <2>1. CASE AfterErrorReturn
    <3>1. NothingEmitted /\ UNCHANGED <<unread, rsEnded>>
      BY <1>6, <2>1 DEF ErrorStep, AfterErrorReturn, NothingEmitted, clientVars,
                        streamVars, jsVars
    <3>2. UNCHANGED answers
      BY <1>1, <3>1 DEF Listeners, EmitsError, EmitsEnd, NothingEmitted
    <3> QED
      BY <1>1, <3>1, <3>2, QuietShot
  <2>2. CASE AfterError
    <3>1. /\ job = "done" /\ hadError' = TRUE
          /\ UNCHANGED <<closed, delivered, unread, rsEnded, endEmitted, failed>>
      BY <1>6, <2>2 DEF ErrorStep, AfterError, streamVars, jsVars
    <3>2. ~hadError
      BY <3>1 DEF InUseInv, StreamInv, IInv, JobInv
    <3>3. ~endEmitted
      BY <3>1, EndIsQuiet DEF InUseInv
    <3>4. answers' = <<"error">>
      <4>1. answers = <<>>
        BY <3>2, <3>3 DEF InUseInv
      <4>2. answers' = Append(answers, "error")
        BY <1>1, <3>1, <3>2 DEF Listeners, EmitsError, EmitsEnd
      <4> QED
        BY <4>1, <4>2
    <3> QED
      BY <1>1, <1>2, <3>1, <3>3, <3>4 DEF InUseInv, ShotPart
  <2> QED
    BY <1>6, <2>1, <2>2 DEF ErrorStep
<1>7. CASE EmitEnd
  <2>1. /\ rsEnded /\ unread = 0 /\ ~endEmitted /\ endEmitted' = TRUE
        /\ UNCHANGED <<unread, rsEnded, failed, hadError, delivered>>
    BY <1>7 DEF EmitEnd, ClientClose, vars, clientVars, streamVars
  <2>2. ~hadError
    BY <1>2, <2>1, EndIsQuiet
  <2>3. answers' = <<"result">>
    <3>1. answers = <<>>
      BY <2>1, <2>2 DEF InUseInv
    <3>2. ~Answered("error")
      BY <3>1 DEF Answered, ToSet
    <3>3. answers' = Append(answers, "result")
      BY <1>1, <2>1, <3>2 DEF Listeners, EmitsError, EmitsEnd
    <3> QED
      BY <3>1, <3>3
  <2> QED
    BY <1>1, <1>2, <2>1, <2>2, <2>3 DEF InUseInv, ShotPart
<1> QED
  BY <1>1, <1>3, <1>4, <1>5, <1>6, <1>7 DEF Loop

\* A step of the stream keeps what is known while the engine is in use.
LEMMA InUseKeeps ==
    ASSUME MaxAccepted <= MaxChunk, InUseInv,
           \/ EndWrites \/ EndEnds \/ Flow \/ LoopRuns \/ PoolRuns
           \/ UNCHANGED shotAllVars
    PROVE  InUseInv'
<1>1. [StreamNext]_streamAllVars
  BY DEF EndWrites, EndEnds, Flow, LoopRuns, PoolRuns, StreamNext, User, shotAllVars
<1>2. StreamInv'
  BY <1>1, StreamNextInv DEF InUseInv
<1>3. ShotPart'
  <2>1. CASE EndWrites
    BY <2>1, EndWritesQuiet, QuietShot
  <2>2. CASE EndEnds
    BY <2>2, EndEndsQuiet, QuietShot
  <2>3. CASE Flow
    BY <2>3, FlowQuiet, QuietShot
  <2>4. CASE LoopRuns
    BY <2>4, LoopRunsKeeps
  <2>5. CASE PoolRuns
    BY <2>5, PoolRunsQuiet, QuietShot
  <2>6. CASE UNCHANGED shotAllVars
    <3>1. NothingEmitted /\ UNCHANGED <<unread, rsEnded, nread, answers>>
      BY <2>6 DEF shotAllVars, streamAllVars, shotVars, vars, clientVars,
                  streamVars, jsVars, NothingEmitted
    <3> QED
      BY <3>1, QuietShot
  <2> QED
    BY <2>1, <2>2, <2>3, <2>4, <2>5, <2>6
<1> QED
  BY <1>2, <1>3 DEF InUseInv, ShotPart

\* The properties, while the engine is in use.
ShotPromises == AnsweredOnce /\ ResultIsWhole /\ BufferIsFree /\ CloseHasHandle

LEMMA InUsePromises ==
    ASSUME InUseInv
    PROVE  ShotPromises
<1>1. AnsweredOnce
  BY DEF InUseInv, AnsweredOnce
<1>2. ResultIsWhole
  <2> SUFFICES ASSUME Answered("result")
               PROVE  nread = written /\ accepted = delivered
                        /\ Len(delivered) = written
    BY DEF ResultIsWhole
  <2>1. endEmitted
    BY DEF Answered, ToSet, InUseInv
  <2>2. rsEnded /\ unread = 0 /\ StreamInv /\ nread \in Nat
    BY <2>1 DEF InUseInv
  <2>3. Len(delivered) = written /\ delivered = accepted
    BY <2>2, EndDelivered
  <2> QED
    BY <2>2, <2>3 DEF InUseInv
<1>3. BufferIsFree
  <2> SUFFICES ASSUME answers # <<>> PROVE job = "none"
    BY DEF BufferIsFree
  <2>1. hadError \/ rsEnded
    BY DEF InUseInv
  <2> QED
    BY <2>1, EndIsQuiet DEF InUseInv, StreamInv, IInv, StateInv
<1>4. CloseHasHandle
  BY EndIsQuiet DEF InUseInv, CloseHasHandle
<1> QED
  BY <1>1, <1>2, <1>3, <1>4 DEF ShotPromises

\* The collector takes an engine: nothing was answered for the job it leaves.
LEMMA CollectorTakes ==
    ASSUME InUseInv, EngineCollected
    PROVE  CollectedInv'
<1>1. /\ Unreachable /\ collected' = TRUE /\ coder' = FALSE
      /\ UNCHANGED <<job, main, hadError, accepted, delivered, aborted>>
      /\ UNCHANGED jsVars /\ UNCHANGED shotVars
  BY DEF EngineCollected, Collect, Reset, jobVars, clientVars, streamVars
<1>2. ~aborted
  BY DEF InUseInv, StreamInv, IInv
<1>3. Unreachable'
  BY <1>1 DEF Unreachable, jsVars, shotVars
<1>4. job # "none" => answers = <<>> /\ ~rsEnded
  <2>1. rsEnded => job = "none"
    BY EndIsQuiet DEF InUseInv
  <2>2. BufferIsFree
    BY InUsePromises DEF ShotPromises
  <2> QED
    BY <2>1, <2>2 DEF BufferIsFree
<1>5. ShotPromises'
  BY <1>1, InUsePromises DEF ShotPromises, AnsweredOnce, ResultIsWhole, Answered,
     BufferIsFree, CloseHasHandle, jsVars, shotVars
<1> QED
  BY <1>1, <1>2, <1>3, <1>4, <1>5 DEF CollectedInv, ShotPromises, jsVars, shotVars

\* What runs afterwards finds it destroyed: the pool no coder, the loop no
\* engine to answer for.
LEMMA CollectedIsFinal ==
    ASSUME CollectedInv, ShotNext
    PROVE  MisusedInv'
<1>1. /\ collected /\ ~coder /\ pc = "flow" /\ main = "loop" /\ js = "idle"
      /\ writing # "tick" /\ unread = 0 /\ (rsEnded => endEmitted)
      /\ job # "none" => answers = <<>> /\ ~rsEnded
  BY DEF CollectedInv, Unreachable
<1>2. PoolRuns \/ (LoopRuns /\ (Answer \/ (ErrorStep /\ AfterError)))
  <2>1. ~EndWrites /\ ~EndEnds /\ ~EngineCollected
    BY <1>1 DEF EndWrites, EndEnds, EngineCollected, Collect
  <2>2. ~Flow
    BY <1>1 DEF Flow, UserRead
  <2>3. /\ ~WriteAnswer /\ ~DrainFlush /\ ~AfterWrite /\ ~FinalAnswer
        /\ ~AnswerReturn /\ ~EmitEnd /\ ~AfterErrorReturn
    BY <1>1 DEF WriteAnswer, DrainFlush, AfterWrite, FinalAnswer, AnswerReturn,
       AfterOkReturn, EmitEnd, AfterErrorReturn
  <2> QED
    BY <2>1, <2>2, <2>3 DEF ShotNext, LoopRuns, Loop, ErrorStep
<1>3. CASE PoolRuns
  <2>1. job # "none" /\ collected' = collected /\ aborted' = TRUE
    BY <1>1, <1>3 DEF PoolRuns, PoolStep, Pool, PoolStart, PoolProcess,
       PoolProcessError, PoolFinish, PoolReturn, PoolUnchanged
  <2>2. rsEnded' = rsEnded /\ answers' = answers
    BY <1>3 DEF PoolRuns, PoolStep, jsVars, shotVars
  <2> QED
    BY <1>1, <2>1, <2>2 DEF MisusedInv
<1>4. CASE LoopRuns /\ Answer
  <2>1. /\ job = "done" /\ collected' = collected /\ aborted' = collected
        /\ UNCHANGED <<rsEnded, hadError, failed, endEmitted>>
    BY <1>4 DEF Answer, AfterOk
  <2>2. answers' = answers
    BY <1>4, <2>1 DEF LoopRuns, Listeners, EmitsError, EmitsEnd
  <2> QED
    BY <1>1, <2>1, <2>2 DEF MisusedInv
<1>5. CASE LoopRuns /\ ErrorStep /\ AfterError
  <2>1. /\ job = "done" /\ job' = "none" /\ collected' = collected
        /\ aborted' = collected
        /\ UNCHANGED <<rsEnded, failed, endEmitted>>
    BY <1>5 DEF ErrorStep, AfterError, jsVars
  <2>2. answers' = <<>> \/ answers' = <<"error">>
    <3>1. answers = <<>>
      BY <1>1, <2>1
    <3>2. answers' = answers \/ answers' = Append(answers, "error")
      BY <1>5, <2>1 DEF LoopRuns, Listeners, EmitsEnd
    <3> QED
      BY <3>1, <3>2
  <2> QED
    BY <1>1, <2>1, <2>2 DEF MisusedInv
<1> QED
  BY <1>2, <1>3, <1>4, <1>5

\* Nothing is said of a program that used a destroyed engine.
LEMMA MisusedIsFinal ==
    ASSUME MisusedInv, ShotNext
    PROVE  FALSE
BY DEF MisusedInv, ShotNext, EndWrites, EndEnds, Flow, LoopRuns, PoolRuns,
   EngineCollected, UserWrite, UserEnd, UserRead, UserMayRun, Loop, Answer,
   WriteAnswer, DrainFlush, AfterWrite, FinalAnswer, AnswerReturn, ErrorStep,
   EmitEnd, PoolStep

LEMMA ShotInitInv == ShotInit => ShotInv
<1> SUFFICES ASSUME ShotInit PROVE ShotInv
  OBVIOUS
<1>1. StreamInit /\ Init
  BY DEF ShotInit, StreamInit
<1>2. StreamInv
  BY <1>1, StreamInitInv
<1>3. Len(delivered) = 0 /\ unread = 0 /\ nread = 0
  BY <1>1, EmptySeq DEF StreamInit, Init, ShotInit
<1>4. InUseInv
  BY <1>1, <1>2, <1>3 DEF InUseInv, ShotInit, StreamInit, Init
<1> QED
  BY <1>4 DEF ShotInv, ShotInit

LEMMA ShotNextInv ==
    ASSUME MaxAccepted <= MaxChunk, ShotInv, [ShotNext]_shotAllVars
    PROVE  ShotInv'
<1>1. pc' \in {"write", "end", "flow"}
  BY DEF ShotInv, ShotNext, EndWrites, EndEnds, Flow, LoopRuns, PoolRuns,
         EngineCollected, shotVars, shotAllVars
<1>2. CASE InUseInv
  BY <1>1, <1>2, InUseKeeps, CollectorTakes DEF ShotNext, ShotInv
<1>3. CASE CollectedInv
  <2>1. CASE ShotNext
    BY <1>1, <1>3, <2>1, CollectedIsFinal DEF ShotInv
  <2>2. CASE UNCHANGED shotAllVars
    <3>1. CollectedInv'
      BY <1>3, <2>2 DEF CollectedInv, Unreachable, AnsweredOnce, ResultIsWhole,
         Answered, BufferIsFree, CloseHasHandle, shotAllVars, streamAllVars,
         shotVars, vars, memberVars, jobVars, clientVars, streamVars, jsVars
    <3> QED
      BY <1>1, <3>1 DEF ShotInv
  <2> QED
    BY <2>1, <2>2
<1>4. CASE MisusedInv
  <2>1. UNCHANGED shotAllVars
    BY <1>4, MisusedIsFinal
  <2>2. MisusedInv'
    BY <1>4, <2>1 DEF MisusedInv, shotAllVars, streamAllVars, shotVars, vars,
                      jobVars, jsVars
  <2> QED
    BY <1>1, <2>2 DEF ShotInv
<1> QED
  BY <1>2, <1>3, <1>4 DEF ShotInv

\* The invariant holds from the call of vcdiffEncode or vcdiffDecode on, however
\* the pool and the loop are scheduled and whenever the collector takes the
\* engine (lib/vcdiff.js:50-99).
THEOREM ShotInvariance ==
    ASSUME MaxAccepted <= MaxChunk
    PROVE  ShotSpec => []ShotInv
<1>1. ShotInv /\ [ShotNext]_shotAllVars => ShotInv'
  BY ShotNextInv
<1> QED
  BY <1>1, ShotInitInv, PTL DEF ShotSpec

-----------------------------------------------------------------------------
(* What it means                                                           *)

\* The four properties follow from each of its cases.
LEMMA ShotInvPromises ==
    ASSUME ShotInv
    PROVE  ShotPromises
<1>1. CASE InUseInv
  BY <1>1, InUsePromises
<1>2. CASE CollectedInv
  BY <1>2 DEF CollectedInv, ShotPromises
<1>3. CASE MisusedInv
  <2>1. answers = <<>> \/ answers = <<"error">>
    BY <1>3 DEF MisusedInv
  <2>2. AnsweredOnce
    <3>1. CASE answers = <<>>
      <4>1. Len(answers) = 0
        BY <3>1, EmptySeq
      <4> QED
        BY <4>1 DEF AnsweredOnce
    <3>2. CASE answers = <<"error">>
      <4>1. Len(answers) = 1
        BY <3>2
      <4> QED
        BY <4>1 DEF AnsweredOnce
    <3> QED
      BY <2>1, <3>1, <3>2
  <2>3. ResultIsWhole
    BY <2>1 DEF ResultIsWhole, Answered, ToSet
  <2> QED
    BY <1>3, <2>2, <2>3 DEF MisusedInv, ShotPromises, BufferIsFree, CloseHasHandle
<1> QED
  BY <1>1, <1>2, <1>3 DEF ShotInv

\* The callback is called at most once (lib/vcdiff.js:71-72).
THEOREM CallbackOnce ==
    ASSUME MaxAccepted <= MaxChunk
    PROVE  ShotSpec => []AnsweredOnce
<1>1. ShotInv => AnsweredOnce
  BY ShotInvPromises DEF ShotPromises
<1> QED
  BY <1>1, ShotInvariance, PTL

\* A result is the output of the whole Buffer (lib/vcdiff.js:92-97).
THEOREM WholeResult ==
    ASSUME MaxAccepted <= MaxChunk
    PROVE  ShotSpec => []ResultIsWhole
<1>1. ShotInv => ResultIsWhole
  BY ShotInvPromises DEF ShotPromises
<1> QED
  BY <1>1, ShotInvariance, PTL

\* The caller has its Buffer back when the callback comes (vcdiff.cc:108-135).
THEOREM BufferReturned ==
    ASSUME MaxAccepted <= MaxChunk
    PROVE  ShotSpec => []BufferIsFree
<1>1. ShotInv => BufferIsFree
  BY ShotInvPromises DEF ShotPromises
<1> QED
  BY <1>1, ShotInvariance, PTL

\* The listener of 'end' never closes through the handle an error dropped
\* (lib/vcdiff.js:195, 223).
THEOREM HandleAtEnd ==
    ASSUME MaxAccepted <= MaxChunk
    PROVE  ShotSpec => []CloseHasHandle
<1>1. ShotInv => CloseHasHandle
  BY ShotInvPromises DEF ShotPromises
<1> QED
  BY <1>1, ShotInvariance, PTL
=============================================================================
