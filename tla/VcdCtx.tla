------------------------------- MODULE VcdCtx -------------------------------
(***************************************************************************)
(* The native half of one engine: the VcdCtx object of src/src/vcdiff.cc   *)
(* with its coder, the work request it queues on libuv's thread pool and   *)
(* the callbacks it makes into JavaScript.                                 *)
(*                                                                         *)
(* Three parties take steps.  The application's JavaScript, on the main    *)
(* thread, constructs, writes and closes (the Client actions); it obeys    *)
(* what lib/vcdiff.js makes sure of, and VcdiffStream shows that           *)
(* lib/vcdiff.js does.  A pool thread runs Process (the Pool actions).     *)
(* The event loop, on the main thread, runs AfterShim when the pool is     *)
(* done (the After actions); AfterShim and SendError call back into        *)
(* JavaScript in the middle of their work, so each is two steps with       *)
(* client actions allowed between them.                                    *)
(*                                                                         *)
(* Bytes are the positions 1, 2, 3, ... of the input stream.  The output   *)
(* of the coder is represented by the input bytes it covers.               *)
(***************************************************************************)
EXTENDS Integers, Sequences, SequencesExt

(* A definition that follows the comment "Mutant" is not part of the model: *)
(* it is the next definition with a plausible bug, for checking that the   *)
(* properties would notice.                                                *)

CONSTANTS
    Retained,       \* does the application keep a reference to the engine
                    \* while it waits for an answer?
    MaxAccepted,    \* bound: bytes written to one engine
    MaxChunk        \* bound: bytes in one write

ASSUME ConstantsAssumption ==
    /\ Retained \in BOOLEAN
    /\ MaxAccepted \in Nat
    /\ MaxChunk \in Nat

VARIABLES
    \* Members of VcdCtx and its coder
    mode,               \* "ENCODE" or "DECODE", chosen when it is constructed
    coder,              \* does coder_ own a coder?
    session,            \* is its session open? encode_chunk_allowed_ of an
                        \* encoder, start_decoding_was_called_ of a decoder
    unparsed,           \* input the coder keeps for later (unparsed_bytes_)
    write_in_progress,
    pending_close,
    state,
    err,
    output_buffer,
    in_buffer,          \* is the input buffer referenced by in_buffer_?
    \* The libuv work request and its WorkData
    job,                \* "none", "queued", "running" or "done"
    data,               \* bytes of the write not yet given to the coder
    is_last,
    \* The main thread: "loop" (application code or idle), "sync" (inside a
    \* synchronous Write), "callback" (AfterShim called callback), "onerror"
    \* (SendError called onerror)
    main,
    \* What the JavaScript object knows
    closed,             \* _closed
    hadError,           \* _hadError, set with _handle = null
    awaiting,           \* a write whose callback was not called yet
    ended,              \* a write with isLast = true was made
    finished,           \* a callback said finished = true
    \* The streams, for the properties
    accepted,
    delivered,
    \* Ends the run
    collected,          \* the object was garbage collected
    aborted             \* an assert failed or freed memory was used

coderVars  == <<session, unparsed>>
memberVars == <<coder, coderVars, write_in_progress, pending_close, state, err,
                output_buffer, in_buffer>>
jobVars    == <<job, data, is_last>>
clientVars == <<closed, hadError, awaiting, ended, finished>>
streamVars == <<accepted, delivered>>
vars == <<mode, memberVars, jobVars, main, clientVars, streamVars, collected,
          aborted>>

\* VcdCtx::Mode, VcdCtx::State and VcdCtx::Error
Mode == {"ENCODE", "DECODE"}
State == {"IDLE", "PROCESSING", "FINALIZING", "DONE"}
Error == {"OK", "INIT_ERROR", "ENCODE_ERROR", "DECODE_ERROR"}

TypeOK ==
    /\ mode \in Mode
    /\ coder \in BOOLEAN
    /\ session \in BOOLEAN
    /\ unparsed \in Seq(Nat)
    /\ write_in_progress \in BOOLEAN
    /\ pending_close \in BOOLEAN
    /\ state \in State
    /\ err \in Error
    /\ output_buffer \in Seq(Nat)
    /\ in_buffer \in BOOLEAN
    /\ job \in {"none", "queued", "running", "done"}
    /\ data \in Seq(Nat)
    /\ is_last \in BOOLEAN
    /\ main \in {"loop", "sync", "callback", "onerror"}
    /\ closed \in BOOLEAN
    /\ hadError \in BOOLEAN
    /\ awaiting \in BOOLEAN
    /\ ended \in BOOLEAN
    /\ finished \in BOOLEAN
    /\ accepted \in Seq(Nat)
    /\ delivered \in Seq(Nat)
    /\ collected \in BOOLEAN
    /\ aborted \in BOOLEAN

\* VcdCtx::New: an engine with a coder for its mode.
Init ==
    /\ mode \in Mode
    /\ coder = TRUE
    /\ session = FALSE
    /\ unparsed = <<>>
    /\ write_in_progress = FALSE
    /\ pending_close = FALSE
    /\ state = "IDLE"
    /\ err = "OK"
    /\ output_buffer = <<>>
    /\ in_buffer = FALSE
    /\ job = "none"
    /\ data = <<>>
    /\ is_last = FALSE
    /\ main = "loop"
    /\ closed = FALSE
    /\ hadError = FALSE
    /\ awaiting = FALSE
    /\ ended = FALSE
    /\ finished = FALSE
    /\ accepted = <<>>
    /\ delivered = <<>>
    /\ collected = FALSE
    /\ aborted = FALSE

-----------------------------------------------------------------------------
(* Operations of the class that other operations call                      *)

\* ~VcdCtx and Close() once nothing is in flight: Reset().
Reset ==
    /\ pending_close' = FALSE
    /\ write_in_progress' = FALSE
    /\ coder' = FALSE

\* Mutant: Close() does not look at write_in_progress_.
CloseAtOnce == Reset

\* Close(): postponed while a write is in flight.
Close ==
    IF write_in_progress
    THEN /\ pending_close' = TRUE
         /\ UNCHANGED <<write_in_progress, coder>>
    ELSE Reset

\* Mutants: a postponed close ignores a write that callback started, or is
\* forgotten.
CloseWhateverRuns(wip) ==
    IF pending_close
    THEN Reset
    ELSE write_in_progress' = wip /\ UNCHANGED <<pending_close, coder>>

CloseForgotten(wip) == write_in_progress' = wip /\ UNCHANGED <<pending_close, coder>>

\* The end of AfterShim and of SendError, where write_in_progress_ has the
\* value wip: Close() if a close was postponed.
CloseIfPending(wip) ==
    IF pending_close /\ ~wip
    THEN Reset
    ELSE /\ write_in_progress' = wip
         /\ UNCHANGED <<pending_close, coder>>

\* A copy of the output, made before it is cleared.
GetOutputBuffer == output_buffer

\* FinishWrite(): the output moves to the caller.
FinishWrite ==
    /\ write_in_progress' = FALSE
    /\ in_buffer' = FALSE
    /\ delivered' = delivered \o GetOutputBuffer
    /\ output_buffer' = <<>>
    /\ finished' = (state = "DONE")

\* The chunks a client may hand over: the next n positions.
Chunk(n) == [i \in 1 .. n |-> Len(accepted) + i]

\* Write(): the three asserts, then the request is queued (async) or run at
\* once on the main thread (sync).
Write(chunk, last, async) ==
    /\ aborted' = ~(coder /\ ~write_in_progress /\ ~pending_close)
    /\ write_in_progress' = TRUE
    /\ in_buffer' = TRUE
    /\ job' = "queued"
    /\ data' = chunk
    /\ is_last' = last
    /\ main' = IF async THEN main ELSE "sync"
    /\ awaiting' = TRUE
    /\ ended' = last
    /\ accepted' = accepted \o chunk
    /\ UNCHANGED <<coder, coderVars, pending_close, state, err, output_buffer,
                   closed, hadError, finished, delivered, collected>>

-----------------------------------------------------------------------------
(* The application, through lib/vcdiff.js                                  *)

\* The main thread runs JavaScript that can reach the engine.
ClientMayRun ==
    /\ main \in {"loop", "callback"}
    /\ ~collected
    /\ ~closed
    /\ ~hadError

\* _processChunk with a callback.  One write at a time; once a write was the
\* last one, what follows is empty and last too (_flush after the last chunk).
ClientWrite ==
    /\ ClientMayRun
    /\ ~awaiting
    /\ \E n \in 0 .. MaxChunk, last \in BOOLEAN :
          /\ Len(accepted) + n <= MaxAccepted
          /\ ended => n = 0 /\ last
          /\ Write(Chunk(n), last, TRUE)

\* vcdiffEncodeSync and vcdiffDecodeSync: one last write on a fresh engine.
ClientWriteSync ==
    /\ ClientMayRun
    /\ main = "loop"
    /\ state = "IDLE" /\ ~awaiting
    /\ \E n \in 0 .. MaxChunk :
          /\ Len(accepted) + n <= MaxAccepted
          /\ Write(Chunk(n), TRUE, FALSE)

\* Vcdiff.prototype.close
ClientClose ==
    /\ ClientMayRun
    /\ closed' = TRUE
    /\ Close
    /\ UNCHANGED <<coderVars, state, err, output_buffer, in_buffer, jobVars,
                   main, hadError, awaiting, ended, finished, streamVars,
                   collected, aborted>>

-----------------------------------------------------------------------------
(* Process(): on a pool thread, or on the main thread for a sync write     *)

\* Everything Process leaves alone.
PoolUnchanged ==
    UNCHANGED <<coder, write_in_progress, pending_close, in_buffer, is_last,
                main, clientVars, streamVars, collected>>

\* What the coder may answer to Start: a code table writer may refuse the
\* dictionary, VcdDecoder::Start cannot fail.
EncoderStart == {"OK", "INIT_ERROR"}
DecoderStart == {"OK"}
Start == IF mode = "ENCODE" THEN EncoderStart ELSE DecoderStart

\* Mutant: Process goes on after a failed Start.
AfterStartUnchecked(error) == "PROCESSING"

AfterStart(error) == IF error = "OK" THEN "PROCESSING" ELSE "DONE"

\* The assert at its head, and Start() on the first write.
PoolStart ==
    /\ job = "queued"
    /\ job' = "running"
    /\ aborted' = ~(coder /\ (state = "IDLE" => output_buffer = <<>>))
    /\ \/ /\ state = "IDLE"
          /\ \E error \in Start :
                /\ err' = error
                /\ state' = AfterStart(error)
                /\ session' = (error = "OK")
       \/ /\ state # "IDLE"
          /\ UNCHANGED <<state, err, session>>
    /\ PoolUnchanged
    /\ UNCHANGED <<unparsed, output_buffer, data>>

\* Mutants: the bytes kept from earlier chunks come last, or are forgotten.
CoderInputSwapped == data \o unparsed
CoderInputForgets == data

\* Coder::Process works on the kept bytes and the chunk: an encoder turns all
\* of them into a window, a decoder handles some and keeps the rest.  When it
\* fails, a decoder may have put the windows it completed in the output.
CoderInput == unparsed \o data

EncoderProcess(input) == {Len(input)}
DecoderProcess(input) == 0 .. Len(input)
Covered(input) ==
    IF mode = "ENCODE" THEN EncoderProcess(input) ELSE DecoderProcess(input)

CoveredOnError(input) == IF mode = "ENCODE" THEN {0} ELSE 0 .. Len(input)

PoolProcess ==
    /\ job = "running" /\ state = "PROCESSING"
    /\ session
    /\ \E k \in Covered(CoderInput) :
          /\ output_buffer' = output_buffer \o SubSeq(CoderInput, 1, k)
          /\ unparsed' = SubSeq(CoderInput, k + 1, Len(CoderInput))
    /\ data' = <<>>
    /\ IF is_last
       THEN state' = "FINALIZING" /\ UNCHANGED job
       ELSE job' = "done" /\ UNCHANGED state
    /\ aborted' = ~coder
    /\ UNCHANGED <<err, session>>
    /\ PoolUnchanged

\* Coder::Process fails: a chunk the writer cannot encode, a malformed delta
\* (which ends the decoder's session), a call outside a session.
PoolProcessError ==
    /\ job = "running" /\ state = "PROCESSING"
    /\ \E k \in CoveredOnError(CoderInput) :
          output_buffer' = output_buffer \o SubSeq(CoderInput, 1, k)
    /\ err' = IF mode = "ENCODE" THEN "ENCODE_ERROR" ELSE "DECODE_ERROR"
    /\ session' = (session /\ mode = "ENCODE")
    /\ state' = "DONE"
    /\ aborted' = ~coder
    /\ UNCHANGED <<job, data, unparsed>>
    /\ PoolUnchanged

\* Mutants: Finish returns the next state; FinishDecoding is not looked at.
EncoderFinishMixesUp == {"DONE"}
DecoderFinishUnchecked == {"OK"}

\* What Finish may answer.  VcdEncoder::Finish drops the result of
\* FinishEncodingToInterface.  A decoder refuses to finish outside a session,
\* on unparsed bytes or in the middle of a window.
EncoderFinish == {"OK"}
DecoderFinish == {"DECODE_ERROR"} \cup {e \in {"OK"} : session /\ unparsed = <<>>}
Finish == IF mode = "ENCODE" THEN EncoderFinish ELSE DecoderFinish

PoolFinish ==
    /\ job = "running" /\ state = "FINALIZING"
    /\ err' \in Finish
    /\ session' = FALSE
    /\ state' = "DONE"
    /\ aborted' = ~coder
    /\ UNCHANGED <<job, data, unparsed, output_buffer>>
    /\ PoolUnchanged

\* Nothing is left to do once the state is DONE.
PoolReturn ==
    /\ job = "running" /\ state = "DONE"
    /\ job' = "done"
    /\ aborted' = ~coder
    /\ UNCHANGED <<state, err, data, coderVars, output_buffer>>
    /\ PoolUnchanged

Pool == PoolStart \/ PoolProcess \/ PoolProcessError \/ PoolFinish \/ PoolReturn

-----------------------------------------------------------------------------
(* The answer                                                              *)

HasError == err # "OK"

\* AfterShim without an error, up to the call of callback.
AfterOk ==
    /\ main = "loop" /\ job = "done" /\ ~HasError
    /\ FinishWrite
    /\ job' = "none"
    /\ data' = <<>>
    /\ main' = "callback"
    /\ awaiting' = FALSE
    /\ aborted' = collected
    /\ UNCHANGED <<coder, coderVars, pending_close, state, err, is_last,
                   closed, hadError, ended, accepted, collected>>

\* ... and after callback returned.  A write made by callback is in flight.
AfterOkReturn ==
    /\ main = "callback"
    /\ main' = "loop"
    /\ CloseIfPending(write_in_progress)
    /\ UNCHANGED <<coderVars, state, err, output_buffer, in_buffer, jobVars,
                   clientVars, streamVars, collected, aborted>>

\* AfterShim with an error: SendError calls onerror, which drops _handle.
AfterError ==
    /\ main = "loop" /\ job = "done" /\ HasError
    /\ job' = "none"
    /\ main' = "onerror"
    /\ hadError' = TRUE
    /\ aborted' = collected
    /\ UNCHANGED <<memberVars, data, is_last, closed, awaiting, ended,
                   finished, streamVars, collected>>

\* Mutant: AfterShim goes on after SendError and calls callback too.
AfterErrorFallsThrough ==
    /\ main = "onerror"
    /\ main' = "callback"
    /\ FinishWrite
    /\ UNCHANGED <<coder, pending_close, coderVars, state, err, jobVars, closed,
                   hadError, awaiting, ended, accepted, collected, aborted>>

\* ... and the end of SendError.
AfterErrorReturn ==
    /\ main = "onerror"
    /\ main' = "loop"
    /\ CloseIfPending(FALSE)
    /\ UNCHANGED <<coderVars, state, err, output_buffer, in_buffer, jobVars,
                   clientVars, streamVars, collected, aborted>>

\* A sync write returns its output; _processChunk asserts that the coder is
\* done and closes the engine.
SyncReturn ==
    /\ main = "sync" /\ job = "done" /\ ~HasError
    /\ aborted' = (state # "DONE")
    /\ FinishWrite
    /\ Reset
    /\ closed' = TRUE
    /\ job' = "none"
    /\ data' = <<>>
    /\ main' = "loop"
    /\ awaiting' = FALSE
    /\ UNCHANGED <<coderVars, state, err, is_last, hadError, ended, accepted,
                   collected>>

\* ... or throws the error that onerror was called with.
SyncError ==
    /\ main = "sync" /\ job = "done" /\ HasError
    /\ job' = "none"
    /\ main' = "loop"
    /\ hadError' = TRUE
    /\ CloseIfPending(FALSE)
    /\ UNCHANGED <<coderVars, state, err, output_buffer, in_buffer, data,
                   is_last, closed, awaiting, ended, finished, streamVars,
                   collected, aborted>>

After == AfterOk \/ AfterOkReturn \/ AfterError \/ AfterErrorReturn
            \/ SyncReturn \/ SyncError

-----------------------------------------------------------------------------
(* Garbage collection                                                      *)

\* The wrapper is weak and no code calls Ref() around the work: an engine the
\* application no longer references is destroyed whatever the pool does.
Collect ==
    /\ main = "loop"
    /\ ~collected
    /\ Retained => job = "none"
    /\ collected' = TRUE
    /\ Reset
    /\ UNCHANGED <<coderVars, state, err, output_buffer, in_buffer, jobVars,
                   main, clientVars, streamVars, aborted>>

-----------------------------------------------------------------------------

Client == ClientWrite \/ ClientWriteSync \/ ClientClose

Next ==
    /\ ~aborted
    /\ Client \/ Pool \/ After \/ Collect
    /\ UNCHANGED mode

\* The pool runs what is queued, the loop runs what is done, and a callback
\* returns.  Nothing makes the application write or close.
Fairness == WF_vars(~aborted /\ Pool /\ UNCHANGED mode)
            /\ WF_vars(~aborted /\ After /\ UNCHANGED mode)

Spec == Init /\ [][Next]_vars

FairSpec == Spec /\ Fairness

-----------------------------------------------------------------------------
(* Properties                                                              *)

\* A job the pool is to run, is running, or whose end it has not reported.
InPool == job \in {"queued", "running"}

\* Process() is never entered, nor does it run, without its coder ("attempt
\* to write after finalization", src/src/vcdiff.cc:148).
ProcessFindsCoder == InPool => coder

\* As long as the engine is referenced, no assert of Write, Process, AfterShim
\* or _processChunk fails and no step uses a destroyed VcdCtx: the coder is
\* there, writes never overlap, none is made while a close is postponed, the
\* output is empty when the coder starts, a sync write ends in one pass
\* (src/src/vcdiff.cc:108-110, 148, 151; src/lib/vcdiff.js:292).
NoAbort == ~aborted

\* Close() while the pool works is postponed, and so is the Reset() it ends
\* in: the coder a pool thread uses is not destroyed under it, and the chunk
\* it reads stays referenced by in_buffer_ until FinishWrite
\* (src/src/vcdiff.cc:36-42, 113, 135).
PoolInputsOutliveJob == InPool => coder /\ in_buffer

\* Across every split of the input, callback re-entry and postponed close: the
\* bytes delivered, in output_buffer_, kept by the coder and still to be
\* processed are those accepted, in order, none lost and none twice.
Conservation ==
    ~HasError => accepted = delivered \o output_buffer \o unparsed \o data

\* When a callback said finished = true (state_ == DONE without an error),
\* everything written was delivered, though the coder may keep input across
\* writes and a finished engine still answers empty writes.
FinishedMeansDelivered == finished => delivered = accepted

\* Every Process and Finish reaches a coder whose session is open, though a
\* failed Start or Process leaves it closed and Finish closes it: so what
\* VcdEncoder::Finish drops is always a success (src/src/vcd_encoder.cc:37).
SessionOpen == state \in {"PROCESSING", "FINALIZING"} => session

\* After onerror nothing is delivered, also when a close was postponed or the
\* failing write left output behind ("there is no way to cleanly recover").
SilentAfterError == [][hadError => UNCHANGED delivered]_vars

\* A write is answered by callback or by onerror, also when the engine is
\* closed while the pool works (AfterShim calls callback before it closes).
WriteAnswered == awaiting ~> (~awaiting \/ hadError)

\* A postponed close is not forgotten: whatever the answer is, and whatever
\* callback does, the coder is destroyed in the end.
CloseReleases == closed ~> ~coder

\* The engine is a reliable FIFO pipe (VcdPipe).
PipeStatus ==
    IF ~coder THEN "released"
    ELSE IF hadError THEN "failed"
    ELSE IF finished THEN "finished"
    ELSE "open"

Pipe == INSTANCE VcdPipe WITH Byte <- Nat, status <- PipeStatus

ImplementsPipe == Pipe!Spec

-----------------------------------------------------------------------------
(* The inductive invariant behind NoAbort, PoolInputsOutliveJob,           *)
(* Conservation, FinishedMeansDelivered and ImplementsPipe                 *)

\* A write in flight owns everything it uses.
JobInv ==
    /\ job # "none" => /\ coder /\ write_in_progress /\ in_buffer /\ awaiting
                       /\ ~hadError /\ ~collected /\ is_last = ended
    /\ write_in_progress => job # "none" \/ main = "onerror"
    /\ awaiting => job # "none" \/ hadError
    /\ collected => main = "loop" /\ job = "none"

\* A postponed close has a write to wait for.
CloseInv ==
    /\ pending_close => closed /\ (write_in_progress \/ main = "callback")
    /\ ~coder => closed \/ collected

\* Where the main thread is.
MainInv ==
    /\ main = "sync" => job # "none" /\ is_last /\ ~pending_close /\ ~closed
    /\ main = "onerror" => job = "none" /\ hadError
    /\ main = "callback" => ~hadError

\* How far Process got, and what that says of the error and the end.
StateInv ==
    /\ state = "IDLE" => unparsed = <<>> /\ output_buffer = <<>> /\ ~HasError
                            /\ delivered = <<>>
    /\ state = "IDLE" => job \in {"none", "queued"} /\ (ended => job = "queued")
    /\ state = "PROCESSING" => ~HasError /\ (ended => InPool)
    /\ state = "FINALIZING" => /\ job = "running" /\ ended /\ ~HasError
                               /\ data = <<>>
    /\ SessionOpen
    /\ mode = "ENCODE" => unparsed = <<>>
    /\ HasError => /\ state = "DONE"
                   /\ hadError \/ job \in {"running", "done"}
    /\ hadError => HasError /\ job = "none"
    /\ state = "DONE" /\ ~HasError => ended /\ unparsed = <<>> /\ data = <<>>

\* Where the bytes are.
BytesInv ==
    /\ Conservation
    /\ job \in {"none", "done"} /\ ~HasError => data = <<>>
    /\ job \in {"none", "queued"} /\ ~HasError => output_buffer = <<>>
    /\ finished => state = "DONE" /\ ~HasError /\ output_buffer = <<>>
    /\ ended /\ ~awaiting => finished
    /\ IsPrefix(delivered, accepted)

IInv == TypeOK /\ ~aborted /\ JobInv /\ CloseInv /\ MainInv /\ StateInv /\ BytesInv
=============================================================================
