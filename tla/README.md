# node-vcdiff: specifications, model checking and proofs

node-vcdiff is a Node addon that encodes and decodes VCDIFF deltas
(RFC 3284, with the extensions of SDCH) against a dictionary. A JavaScript
`Transform` stream (`src/lib/vcdiff.js`) drives a C++ object, `VcdCtx`
(`src/src/vcdiff.cc`), whose work runs on libuv's thread pool and is done by
Google's open-vcdiff, bundled under `src/src/third-party`.

This directory holds TLA+ modules of the parts with state and concurrency, the
TLC configurations that check them, and proofs checked by TLAPS. Line numbers
are those of the repository; `PROJECT.json` maps every definition to its lines.

## 1. Inventory

| Component | State | Operations | Interacts with | Status |
|---|---|---|---|---|
| Native engine, `src/src/vcdiff.cc`, `vcdiff.h` | `coder_`, `in_buffer_`, `work_req_`, `write_in_progress_`, `pending_close_`, `state_`, `err_`, `output_buffer_` | construction, `write`, `writeSync`, `close`, `Process` (pool), `AfterShim` (loop), destruction by the collector | JavaScript through `callback` and `onerror`; the pool through `uv_queue_work` | modelled: `VcdCtx`, `VcdMemory` |
| Coders, `vcd_encoder.cc`, `vcd_decoder.cc` | the handle of the dictionary, the open-vcdiff object and its session | construction, `Start`, `Process`, `Finish`, destruction | called by `Process`; the JavaScript heap | modelled: `VcdCtx`, `VcdMemory` |
| HashedDictionary, `vcd_hashed_dictionary.cc` | none that changes after construction | construction, destruction by the collector | shared by encoders, which point into it | modelled: `VcdMemory` |
| Vcdiff stream, `src/lib/vcdiff.js` 120-325 | `_buffers`, `_nread`, `_forceFlush`, `_closed`, `_hadError`, `_handle` | `write`, `end`, `flush`, `close`, `read`, `_transform`, `_flush`, the answer of the engine | Node's Transform and Writable; the engine | partly: `VcdiffStream` |
| One-shot calls, `vcdiff.js` 50-108 | the chunks read | `vcdiffEncode`, `vcdiffDecode` and their `Sync` forms | the stream; a callback | modelled: `VcdOneShot`; the `Sync` forms are `ClientWriteSync` of `VcdCtx` |
| Options and size limits, `vcdiff.js` 14-25, 120-187 and `vcdecoder.cc` | the limits, the sizes announced, parsed and produced | constructor, setters, header and instruction checks | the binding, open-vcdiff | partly: `VcdLimits` |
| open-vcdiff encoder | the session, the window writer | `StartEncoding`, `EncodeChunk`, `FinishEncoding`; `Add`, `Copy`, `Output` | the encoder coder | partly: `VcdWindow`, sessions in `VcdCtx` |
| open-vcdiff decoder | `unparsed_bytes_`, the window being decoded, the code table reader | `StartDecoding`, `DecodeChunk`, `FinishDecoding` | the decoder coder | partly: `VcdWindow`, `VcdLimits`, sessions in `VcdCtx` |
| Address cache, variable-length integers | near and same caches | `EncodeAddress`, `DecodeAddress`, `UpdateCache`, `Parse` | encoder and decoder windows | partly: `VcdAddressCache`, `VcdLimits` |
| Block hash, rolling hash | hash table and chains | `AddBlock`, `FindBestMatch`, `UpdateHash` | the encoder | not modelled: `VcdWindow` lets every match be found |
| Node's streams, libuv, V8 | - | - | - | external: only as the code here uses them |
| Command line tool, gflags, gtest, zlib's adler32, JSON writer | - | - | - | not modelled: input/output, tests, or no control flow of the engine |

What is hard here, and where it is looked at:

- Three parties act on one `VcdCtx`: user code, a pool thread and the loop; and
  user code runs *inside* the loop's steps, from `callback`, `onerror`,
  `'data'`, `'drain'` and `nextTick`. `close()` can come at any of these points
  (`VcdCtx`, `VcdiffStream`).
- An error may meet a postponed close; a decoder may fail after it produced
  output; a finished engine still answers writes (`VcdCtx`). The one-shot calls
  must never answer twice whichever of these happens, and nobody holds the engine
  they work with (`VcdOneShot`).
- The decoder keeps bytes from one write to the next, and the encoder stream
  keeps chunks until they make a window. Nothing may be lost, doubled or
  overtaken when flush, end, close and a slow reader come in between
  (`VcdiffStream`).
- One flag, `_forceFlush`, stands for every flush that is under way
  (`VcdiffStream`).
- Coders and pool threads hold raw pointers into objects of the JavaScript heap
  that several engines may share and that the collector may take (`VcdMemory`).
- A window is decoded from chunks that end anywhere; instructions, opcodes of
  two instructions and half-known addresses are taken back and tried again, while
  two address caches, in two processes, must change in step (`VcdWindow`).
- Shifts of 32-bit integers, unsigned subtractions, headers parsed twice
  (`VcdLimits`).

`PROJECT.json` lists these and the others as hazards, each with the properties
that watch it.

## 2. Modules

```
VcdPipe          a reliable FIFO of bytes: what an engine promises
  ^ refined by (ImplementsPipe)
VcdCtx           the native engine and the client contract   <- VcdCtxProofs
  ^ extended and refined by (ImplementsCtx)
VcdiffStream     lib/vcdiff.js and the part of Node   <- VcdiffStreamProofs
                 it relies on                            <- VcdQueueProofs
  ^ extended by
VcdOneShot       vcdiffEncode and vcdiffDecode          <- VcdOneShotProofs

VcdMemory        who keeps what alive                        <- VcdMemoryProofs

VcdAddressCache  the address cache, as values     <- VcdAddressCacheProofs
  ^ extended by
VcdWindow        the window writer and the           <- VcdWindowProofs
                 streaming decoder

VcdLimits        options and sizes, on machine integers      <- VcdLimitsProofs
```

The modules `MC...` instantiate them for TLC.
A definition that follows the comment "Mutant" is not part of a model: it is
the next definition with a plausible bug, and each property is known to fail
when its mutant takes the definition's place.

### VcdPipe

`accepted` and `delivered` are sequences of bytes, `status` is open, finished,
failed or released. What comes out is always an initial segment of what went
in; a pipe can finish only when everything was delivered; a pipe that failed,
finished or was released delivers nothing.

### VcdCtx

The variables are the members of the class (same names, without the trailing
underscore), the work request (`job`, `data`, `is_last`), where the main thread
is (`main`), what the JavaScript object knows (`closed` is `_closed`,
`hadError` is `_hadError`, `awaiting` a write without its answer), and the two
streams. A byte is its position in the input; output is represented by the
input it covers, so the content of deltas is left out and order and
completeness are kept. `mode` is chosen at construction.

| Action | Code |
|---|---|
| `ClientWrite`, `ClientWriteSync`, `ClientClose` | `_processChunk` 287, 308 and `close` 214-229 of `vcdiff.js`, `VcdCtx::Write` 104-131, `VcdCtx::Close` 36-42 |
| `PoolStart`, `PoolProcess`, `PoolProcessError`, `PoolFinish`, `PoolReturn` | `VcdCtx::Process` 147-178, one action per call of the coder |
| `AfterOk`, `AfterOkReturn` | `AfterShim` 228-249 up to the callback, and after it |
| `AfterError`, `AfterErrorReturn` | `SendError` 188-201 up to `onerror`, and after it |
| `SyncReturn`, `SyncError` | the end of a synchronous write, `vcdiff.js` 287-297 |
| `Collect` | `~VcdCtx` 26-28, run by the collector |

The pool's actions call the operations of the coders (`EncoderStart`,
`DecoderProcess` and so on, from `vcd_encoder.cc` and `vcd_decoder.cc`), each
with what it does to the session of the open-vcdiff object behind it.
`VcdEncoder::Finish` drops the result of `FinishEncodingToInterface`, which
fails only without a session: `SessionOpen` says that it always has one.

`Process` is several actions because close, and everything else the main
thread does, can fall between its calls. `AfterShim` and `SendError` are two
actions each because user code runs in their middle. A failed `assert` or the
use of a destroyed engine sets `aborted` and ends the run; `NoAbort` says that
this does not happen. An encoder takes all its input at each call; a decoder
takes any part and keeps the rest, refuses to end while it keeps some, and may
have produced output when it fails.

The client obeys what `lib/vcdiff.js` makes sure of: one write at a time, none
after close or an error, only empty last writes after the last one.
`VcdiffStream` shows that `lib/vcdiff.js` does make sure of it.

### VcdiffStream

Extends `VcdCtx` and reuses its operations (`Write`, `ClientClose`, `AfterOk`
and so on) inside the actions of the stream, so every step of the stream is a
step of the engine or leaves the engine alone: `ImplementsCtx`. `writing` is the
life of the transform under way: held because the reader is slow, acknowledged
in the next tick because the chunk was kept, at the binding, or the last one
that `_flush` makes. `queue` is the writable buffer, `waiters` the calls of
`flush()` that wait for `'drain'`, `js` where the code is when user code can
run. The user may write, flush, end, close and read between any two steps.

`FlushRequest` has the branches of `flush()`. The listener of `'drain'` calls it
again (`DrainFlush`), and by then the stream may be ended: then, as for a
`flush()` after the end, the callback is due in the next tick. `endedFlush`
remembers that such a callback came before its output, `earlyFlush` that one
that was written as a chunk did.

Definitions of Node's behaviour (`Writable.write`, `doWrite`, `onwrite`,
`afterWrite`, `finishMaybe`, Transform's `_write`, `_read` and `done`) are not
in the repository; they follow the stream classes of the Node versions the
addon is for, to the extent the code depends on them, and are marked external.

### VcdOneShot

`vcdiffBuffer` is one user of `VcdiffStream` with a fixed program: `EndWrites`
and `EndEnds` are the two halves of `engine.end(buffer)`, `Flow` reads whatever
there is, `LoopRuns` is a step of the loop with the listeners that run in it.
`answers` are the calls of the callback, `nread` the bytes read.

The calls return nothing, so nobody but the engine's own listeners and weak
handle leads to the engine: the module is run with `Retained = FALSE`, and
`EngineCollected` may take the engine whenever no code runs and no tick is due
that leads to it (`Unreachable`), in particular while the pool works. The action
is `Collect` of `VcdCtx`; what it does to a job is there too.

### VcdMemory

`heap` says of every JavaScript object whether it is new, alive or collected,
`held` what the application refers to, `handles` which `v8::Persistent` of the
binding is set and to what. An encoder has its dictionary's native half, a
decoder the dictionary Buffer itself (`coder`); a write in flight has its chunk
(`input`). `NewDictionary`, `New`, `Write`, `FinishWrite`, `SendError` and
`Close` set and reset handles as the code does, `Drop` and `Collect` are the
application and the collector. It abstracts the engine of `VcdCtx` to whether a
write is in flight, and multiplies it.

### VcdAddressCache and VcdWindow

`VcdAddressCache` has no variables: a cache is a value, `UpdateCache`,
`EncodeAddress` and `DecodeAddress` are operators.

`VcdWindow` has the writer of the encoder (`Add`, `Copy`, `EncodeInstruction`,
`Output`) and the decoder that reads what it wrote. The delta is a sequence of
tokens: the header of a window, an opcode (of one or two instructions), a size,
a byte of data, an address. The writer makes any sequence of ADDs and
COPYs, that is, whatever matches the block hash may find.

| Action | Code |
|---|---|
| `DecodeChunk` | `DecodeChunk`, and `UpdatePointers` of a window that is resumed |
| `ReadHeader`, `ChunkDone`, `WindowDecoded` | the loop over windows, `DecodeWindow`, `ReadHeader`, the end of `DecodeBody` |
| `GetNextInstruction`, `GetSize` | `GetNextInstruction`, with `UnGetInstruction` where the size is not there |
| `DecodeOperand` | `DecodeAdd`, `DecodeCopy`, `UnGetInstruction` where the operand is not there |

Positions are those of the whole delta: what the code keeps in
`unparsed_bytes_` is what lies between `parsed` and `received`.

Two variables are not in the code and no action looks at them: `history`, the
targets of all windows, and `marks`. A mark is what a decoder that had been given
everything would know before an instruction or a window: the position, the
pending second instruction, the cache, and what is decoded. The writer adds one
with every instruction (`Here`), and corrects the last one when it turns a
single opcode into a double one (`Marked`). The properties and the invariant
compare the decoder, which stops and starts again anywhere, with the marks.

### VcdLimits

`ConstructEncoder` and `ConstructDecoder` are the constructor's checks on
numbers and what it hands over; `InitCustomCodeTable` sets up the decoder that
open-vcdiff nests for a custom code table, with its planned size.
`ParseContinues` is `VarintBE::Parse` on any byte of a size but its last.
`ReadHeader` holds an announced window against the limits and counts it, or
leaves it to be parsed again when the header is incomplete;
`DecodeInstruction` holds each instruction against the window.
`IntSign` and `SizeModulus` are the widths of `int32_t` and `size_t`,
`VarintBase` what one byte of a size can hold.

## 3. Runs

| Run | Configuration | Shows |
|---|---|---|
| `engine` | up to 4 bytes in chunks of up to 2, both modes, fair; 4,821 states | `IInv`, `NoAbort`, `PoolInputsOutliveJob`, `Conservation`, `FinishedMeansDelivered`, `SessionOpen`, `SilentAfterError`, `WriteAnswered`, `CloseReleases`, `ImplementsPipe` |
| `engine_unreferenced` | the application may drop the engine at any time | violates `ProcessFindsCoder` |
| `stream` | 4 bytes, writes of up to 2, a window of 2, high-water marks 2 and 1, a queue of 2, one flush; 694,964 states | `InOrder`, `EndMeansAll`, `FlushDelivers`, `ForceFlushEnds`, `StreamInv`, `ImplementsCtx` |
| `stream_live` | 3 bytes, high-water mark 1, fair; 300,161 states | `EndCompletes`, `FlushGetsTurn` |
| `stream_window` | 2 bytes, writes of 1, a queue of 3 | violates `SmallWindowsOnRequest` |
| `oneshot` | a Buffer of up to 4 bytes, both modes, an engine the collector may take, fair; 2,156 states | `AnsweredOnce`, `ResultIsWhole`, `BufferIsFree`, `CloseHasHandle`, `ShotInv`, `CallbackComes` |
| `memory` | 2 engines, 2 dictionaries, 2 Buffers, with symmetry; 38,852 states | `DictionaryOutlivesCoder`, `InputOutlivesWork`, `ChunksAreReleased`, `MemoryInv` |
| `memory_leak` | one of each | violates `KeptForExistence` |
| `window` | two windows of up to 3 bytes, instructions of 1 or 2, a dictionary of 1 byte, 2 near slots, 1 same block of 2; 751,280 states | `WindowInv`, `WellFormedAccepted`, `DecodedIsPrefix`, `AllDecoded`, `InStep` |
| `limits` | 5-bit integers, 2-bit digits, default limit 8, a code table of 5; 1,541 states | `OutputWithinLimits`, `WindowsCountedOnce`, `PlanIsMet`, `NextByteFits` |
| `limits_range`, `limits_window` | the same | violate `DocumentedLimitAccepted`, `SmallWindowRefused` |

Each passing run also checks the type invariant of its module: `memory` and
`window` as a part of `MemoryInv` and `WindowInv`, `oneshot` as a part of
`ShotInv`. `StreamInv` has the `~aborted` that `NoAbort` asks of the engine.

**Bounds.** `MaxAccepted` and `MaxChunk` bound the bytes; with 4 bytes in
chunks of 0 to 2 there are enough writes for a close or an error to fall before,
in and after each, for a decoder to keep bytes over two writes, and for writes
after the last one. `MaxQueue` bounds the writable buffer: two requests behind
one make every case of `onwrite`. A window of 2 and writes of 0 to 2 give
chunks that are kept, that complete a window and that are one. A readable
high-water mark of 1 makes the transform held as soon as something is unread.
`MaxFlushes` bounds the calls of `flush()`.

In `memory` two of each kind are enough to share a dictionary between engines,
a Buffer between a dictionary and a chunk, and to let one outlive the other. The
symmetry is sound: nothing tells two engines, dictionaries or Buffers apart, and
only invariants are checked. In `window` one size is implicit in an opcode and one is
not, so there are single opcodes, double ones, and sizes of their own; a
same cache of 2 addresses and a near cache of 2 slots are overwritten within
a window, a COPY may take from the dictionary, from the target or from both, and
overlap what it writes, and a second window shows the reset. At these sizes an
address in the near cache is never cheaper than SELF, HERE or SAME, so the run
has no COPY of a NEAR mode; the theorems cover them.
Both windows end up in one chunk, in one per token, or in anything between. In
`limits` a limit of 8 and windows of 0 to 15 give sums below, at and above the
limit, a size has one to three digits and may overflow, and
`SizeModulus = 2 * IntSign` is the narrowest `size_t`. No bound is in the proofs.

**Deadlock** is not checked: a user who stops, a closed engine and an aborted
run are states in which these systems really end.

**Fairness.** `VcdCtx`: the pool runs what is queued, and the loop runs what is
done and returns from callbacks (weak fairness of `Pool` and of `After`). That
is libuv's scheduling; nothing is assumed of the user. `VcdiffStream` adds that
the reader keeps reading, without which a full stream rightly waits for ever.
`WriteAnswered` does not need the reader. `VcdOneShot` is its own reader: it runs
`engine.end(buffer)` to the end, and reads when there is something to read
(`EndEnds`, `Flow`); with the pool and the loop (`PoolRuns`, `LoopRuns`) that
makes the callback come, unless the engine was destroyed under the pool
(`CallbackComes`). The collector has no fairness anywhere.

## 4. What the code and its documentation disagree about

- **Collection during a write** (`engine_unreferenced`). Nothing references the
  engine while the pool works on it: `uv_queue_work` is given a raw `this`, and
  `in_buffer_` only keeps the input alive. An application that drops its stream
  after `write()` lets the collector destroy the coder under the pool. Every
  call of `vcdiffEncode` and `vcdiffDecode` is such an application: `vcdiffBuffer`
  returns nothing, and its engine is only reached by its own listeners. What is
  left to say of those calls is in `oneshot`: at most one answer, a right one, and
  none that is promised when the engine was destroyed. All other properties of
  `VcdCtx` and `VcdiffStream` are about `Retained = TRUE`, an application that
  holds its stream.
- **Small windows** (`stream_window`). Write A; `flush()`; write B while A is
  being worked on. The flag that `flush()` set is still up when B is taken from
  the queue, and B is encoded alone, though smaller than the minimum and never
  flushed. `ForceFlushEnds` shows that the flag does not stay up beyond that.
  A related surprise is no disagreement, for nothing documents when the callback
  of `flush()` comes: a flush that waits for `'drain'` when `end()` is called
  calls back as soon as `'drain'` is emitted, before the output of what was
  written before it (`vcdiff.js` 233-235, 241-243). `FlushDelivers` is about
  flushes that have their turn earlier.
- **Limits** (`limits_range`). `1 << 32 - 1` is -2147483648, so any
  `maxTargetFileSize` or `maxTargetWindowSize` is refused; and the values are
  not used.
- **Minimum window** (`limits_window`). The constructor checks
  `encodeWindowSize` and uses `minEncodeWindowSize`.
- **Dictionaries are kept for ever** (`memory_leak`). The coders' destructors
  are empty, and a `v8::Persistent` is not reset when it goes away. The reference
  to the dictionary is therefore kept not "for the existence of the decoder", but
  for that of the process, with `close()` or without.

## 5. Proofs

### VcdCtxProofs

For all values of the bounds and under `Retained = TRUE`, `Spec` of `VcdCtx`
implies `[]TypeOK`, `[]NoAbort`, `[]PoolInputsOutliveJob`, `[]Conservation`,
`[]FinishedMeansDelivered`, `[]SessionOpen`, `SilentAfterError`, and it
implements `VcdPipe` (`Refinement`).

None of these is inductive. `NoAbort` needs that a queued job has its coder,
which needs that a close is postponed exactly while a write is in flight, which
needs to know where the main thread is; `FinishedMeansDelivered` needs that a
coder that ended without an error keeps nothing. `IInv` is the conjunction of

- `JobInv`: a job in flight has the coder, the busy flag, the input buffer and a
  client that waits;
- `CloseInv`: a postponed close has a write, or the end of a callback, to wait
  for; only a close or the collector takes the coder;
- `MainInv`: what is known when the main thread is in a callback, in `onerror` or
  in a synchronous write;
- `StateInv`: what each value of `state_` says of the error, the job and the end;
- `BytesInv`: where the bytes are: accepted is delivered, then output, then
  kept, then unprocessed.

`InitInv` and `NextInv` show it inductive, with one step per action; the lemmas
on sequences before them say that bytes moved from one part to the next leave
the concatenation the same. `PipeInit`, `PipeNext` and `PipeStutter` map steps
to steps of the pipe: a write is `Accept`, an answer `Deliver` or `Finish`,
`onerror` is `Fail`, a close that takes effect `Release`, and everything else
stutters. Assumed: `ConstantsAssumption`, which TLC evaluates in the runs.

### VcdQueueProofs and VcdiffStreamProofs

For windows, high-water marks, queues and writes of any size, `StreamSpec`
implies `[]StreamTypeOK`, `[]InOrder`, `[]EndMeansAll`, `[]FlushDelivers`,
`[]ForceFlushEnds`, and it implements `Spec` of `VcdCtx` (`StreamRefinement`):
`lib/vcdiff.js` is a client as `VcdCtx` expects it, and `NoAbort` and the other
theorems about the engine hold of the two together.

`InOrder` speaks of the bytes of a queue, `BytesOf`, a fold of the community
modules: a function on sets of indices, defined by recursion, at the set of all
of them. `VcdQueueProofs` shows that this function exists (`FoldExists`, an
induction on the length of the queue), that its value depends on the requests it
folds only (`FoldAgrees`), and from that what the proofs of the stream use: a
request that is queued adds its bytes at the end (`BytesOfAppend`), the head of
the queue has the first ones (`BytesOfHead`), every byte belongs to a request
(`BytesOfMembers`). `Induction` itself is derived from the fact that the
natural numbers are well-founded, with a set in the place of a predicate.

`StreamInv`, the inductive invariant, is `IInv` of the engine with

- `ControlInv`: the engine works on a transform from its write until its
  callback, and never on two; an error leaves the transform where it is;
- `OrderInv`: `InOrder`, and nothing waits behind a transform that is not there;
- `EndInv`: nothing is kept, held or queued behind a write with `isLast`, so what
  the engine delivered when it says it is finished is everything;
- `ForceInv`: `_forceFlush` is up only while something it was set for waits;
- `FlushInv`: a request of `flush()` has no bytes and all bytes queued behind it
  are later than those it flushes, and when it reaches the engine those are
  sent. A flush callback runs from the answer to that write, when an encoder has
  delivered all it accepted; only `flush()` on an ended stream calls back
  otherwise.

Every way to start a transform ends in one of four outcomes: held, failed, sent
or kept (`StartWriteStep`). What an outcome leaves of each conjunct is shown
once (`OutcomeControl` to `OutcomeFlush`), and `write()`, `flush()`, the
listeners of `'drain'`, `read()` and the answer of the engine all use it.
Assumed: `Retained = TRUE`, that the application holds its stream, and
`MaxAccepted <= MaxChunk`, which only says that the bound on one write of the
engine does not forbid the stream to send all it kept. The lemmas about single
actions do not need `Retained`; the theorems need it because `StreamInv` says
of an engine in use what is no longer true of a collected one.

### VcdOneShotProofs

`ShotSpec` implies `[]AnsweredOnce`, `[]ResultIsWhole`, `[]BufferIsFree` and
`[]CloseHasHandle`. Assumed: `MaxAccepted <= MaxChunk`, as above, and nothing of
`Retained`: the collector may run whenever it can. The inductive invariant
`ShotInv` has three cases, and the steps between them are the lemmas:

- `InUseInv`, until the engine is collected. None of the properties follows from
  `StreamInv`: a user of the stream may close it while it works, and a transform
  that then finds the handle gone fails the stream (`failed`). That 'error'
  and 'end' do not both come needs that nobody but the listener of 'end' closes
  the engine, and that 'end' comes when no transform is left to find it closed.
  `InUseInv` adds this to `StreamInv`, with what the answers say of `hadError` and
  `endEmitted`, and that what was delivered is what was read or can be read.
  `EndIsQuiet` says that a stream at its end has no answer to wait for, so no
  error can follow; the other lemmas, one for each way to start a transform,
  that on an open engine this emits nothing. Every step but the collector's stays
  in this case (`InUseKeeps`).
- `CollectedInv`, entered by the collector (`CollectorTakes`): the call is over
  and nothing happens any more, or there is a job whose coder is gone and
  whose only step fails (`CollectedIsFinal`).
- `MisusedInv`, entered by that step: no result came of it, and nothing
  follows (`MisusedIsFinal`).

Each case implies the four properties (`ShotInvPromises`). That the callback
comes at all is left to TLC.

### VcdWindowProofs

For a dictionary, windows, instructions and address caches of any size, and
whatever sizes are implicit in an opcode, `Spec` of `VcdWindow` implies
`[]WellFormedAccepted`, `[]DecodedIsPrefix`, `[]AllDecoded` and `[]InStep`: a
delta the encoder wrote is decoded to what was encoded, however it is cut.

Nothing the decoder remembers says what the encoder meant; what is inductive,
`WindowInv`, says where the decoder is relative to the marks of the encoder.

- `WriterInv`: each mark leads to the next one. In the delta as it would be were
  the window output now (`Stream`), the tokens after a mark are an opcode, unless
  a second instruction is pending, the size if it is not implicit, and the
  operand, and they yield the cache and the target of the next mark (`LeadsTo`);
  or a window ends there and the next mark has a fresh cache (`EndsAt`). The
  opcode at `last_opcode_index` belongs to the last instruction.
- `DecoderInv`: the decoder is at a mark, on the way to the next one with the
  mark saved for `UnGetInstruction`, or between two windows. If it waits for
  data in a window, the next mark is further than what it was given
  (`AtInstruction`, `AtWindow`).

Two things in it are not obvious from the code. When the encoder turns a single
opcode into a double one it changes tokens that are written already; the
instruction they stand for keeps its size and its operand, and only the
mark behind it changes, by its pending instruction (`LeadsToSecond`,
`WrittenDouble`). And a decoder that runs out of data is not in error because the
next mark is within the window and beyond the data, so the window has more to
come (`BackToMark`).

The rest are facts about the parts. `RoundTrip` makes the decoder's address
the encoder's. `CopyIsMatch`, by induction on the number of bytes, makes
`DecodeCopy`'s loop, which reads bytes it has just appended, yield the periodic
match of the encoder. `EncodeInstructionWrites` says what the writer's step leaves
in the section (`Written`), `MarkStays` and `PairStays` that a longer window leaves
the earlier marks as they were, `DecoderPreserves` and `WriterPreserves` put the
steps together. Assumed: `WindowAssumption` and `CacheAssumption`.

### VcdMemoryProofs

For any numbers of engines, dictionaries and Buffers: `[]MemoryInv`, and from it
`[]DictionaryOutlivesCoder`, `[]InputOutlivesWork` and `[]ChunksAreReleased`.
That a dictionary is alive does not survive a step by itself, for the collector
may take what nobody refers to. `HandleInv` adds why it may not take this one:
every coder has the handle of its dictionary and every write that of its chunk,
whatever a handle or the application refers to is alive, and a write in flight
has its coder, as a close is postponed then. Assumed: `MemoryAssumption`,
that the sets are disjoint.

### VcdAddressCacheProofs

No specification, two facts about operators: `RoundTrip`, for a cache of any
size and content, decodes every code that `EncodeAddress` may choose to the
address it was chosen for; `CodeFits` bounds its mode and value. That the caches
of the two sides are equal when an address is decoded is part of
`WindowInvariance`. Both rest on one lemma per way to write an address. Assumed: `CacheAssumption`.

### VcdLimitsProofs

For all widths and limits: `[]TypeOK`, `[]OutputWithinLimits`,
`[]WindowsCountedOnce`, `[]NextByteFits`, `[]PlanIsMet`. `LimitsInv` adds to them
that what was announced is within the limits, that decoded bytes are within what
was announced, and that no half-parsed size reached the sign bit. The arithmetic
is in lemmas first: what fits a `size_t` is left alone by it (`SizeFits`), a
value that passes the test before the shift can be shifted and given any digit
(`ShiftFits`, `ParsedFits`). Assumed: `LimitsAssumption`, that `VarintBase`
divides `IntSign` (128 divides 2^31), that `size_t` is at least as wide as
`uint32_t`, and that the default limit and the code table fit an `int32_t`.

TLC evaluates every assumption in the runs.

### Only model-checked

Liveness (`WriteAnswered`, `CloseReleases`, `EndCompletes`, `FlushGetsTurn`,
`CallbackComes`), which needs fairness and `ENABLED`, beyond the prover's reach.
Every invariant and every action property that a passing run checks is a theorem.

## 6. Not modelled

- `VcdiffStream`: `flush()` in code that runs inside `end()` itself, where the
  stream is ending and not yet ended; `close()` after an error, which throws on
  the null handle. A writer that reuses a buffer whose chunk was acknowledged and kept:
  a byte is its position and a buffer has no content to change.
- Format flags and the content of dictionaries: constants of an engine. A
  decoder's dictionary Buffer is read in place, and JavaScript may write to it
  meanwhile; a HashedDictionary is a copy.
- `VcdWindow`: the standard format, whose windows are decoded only when all
  three sections are there; RUN, which the encoder never writes; VCD_TARGET
  windows, which the encoder never writes; the checksum; the file header and the
  custom code table in it (its planned size is in `VcdLimits`). A chunk that
  ends inside a token is one that ends before it, for no operation consumes a
  part of a token. Deltas that no encoder wrote: only their sizes, in `VcdLimits`.
  `LookupSecondOpcode` pairs any two instructions of implicit sizes; the default
  code table has fewer pairs, an ADD of 1 to 4 with a COPY of 4 to 6 and a COPY of 4
  with an ADD of 1, so the model has double opcodes the code lacks and loses none.
- `VarintBE`'s encoder and `HeaderParser`'s section lengths.
- The block hash and the rolling hash: which matches are found changes the size
  of a delta and not what it decodes to.
- The JSON output, the command line tool, `Init` and `GetErrorString`.
- Allocation failure, and libuv failing a work request (`assert(status == 0)`:
  nothing cancels one).

## 7. Plan

Done, in this order: `VcdPipe`, `VcdCtx`, `VcdCtxProofs`, `VcdiffStream`,
`VcdLimits`, `VcdMemory`, `VcdMemoryProofs`, `VcdOneShot`, `VcdAddressCache`,
`VcdWindow`, `VcdAddressCacheProofs`, `VcdLimitsProofs`, `VcdQueueProofs`,
`VcdiffStreamProofs`, `VcdOneShotProofs`, `VcdWindowProofs`. Next, most important
first:

1. `VcdHeader`: the file header, the custom code table and the section lengths
   of the standard format, parsed again from the start with every chunk.
2. `VcdBlockHash`: the incremental hash equals the direct one; the chains hold
   every block once.
