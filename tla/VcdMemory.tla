----------------------------- MODULE VcdMemory ------------------------------
(***************************************************************************)
(* Who keeps what alive between the JavaScript heap and the binding.       *)
(*                                                                         *)
(* Dictionaries are JavaScript objects: a Buffer for a decoder, which      *)
(* reads its bytes in place, and a HashedDictionary for an encoder, whose  *)
(* native half the encoder points into.  Several engines may share one.    *)
(* The application drops its references and closes engines as it likes;    *)
(* the collector takes what neither the application nor a v8::Persistent   *)
(* handle of the binding refers to, and destroys its native half with it.  *)
(*                                                                         *)
(* The application is whoever calls the binding: that lib/vcdiff.js also   *)
(* keeps the chunk of an asynchronous write in req.buffer is not relied    *)
(* on.  It keeps a reference to an engine while a write is in flight (what *)
(* happens otherwise is the subject of VcdCtx).                            *)
(***************************************************************************)
EXTENDS FiniteSets

CONSTANTS
    Buffers,        \* Buffers of the application
    Dictionaries,   \* HashedDictionary objects it may construct
    Engines,        \* engines it may construct
    None

ASSUME MemoryAssumption ==
    /\ Buffers \cap Dictionaries = {} /\ Buffers \cap Engines = {}
    /\ Dictionaries \cap Engines = {}
    /\ None \notin Buffers \cup Dictionaries \cup Engines

Objects == Buffers \cup Dictionaries \cup Engines

VARIABLES
    heap,           \* heap[o]: "new", "alive" or "collected"
    held,           \* the objects the application refers to
    coder,          \* coder[e]: the coder e owns, or None
    handles,        \* the handles of the binding that are not reset
    input,          \* input[e]: the Buffer a write in flight reads, or None
    pending_close,  \* pending_close[e]
    failed          \* engines whose onerror was called

vars == <<heap, held, coder, handles, input, pending_close, failed>>

\* What a coder keeps of its dictionary: an encoder the HashedDictionary, a
\* decoder the Buffer it reads in place.
VcdEncoder == [hashed_dictionary : Dictionaries]
VcdDecoder == [dictionary_handle : Buffers]

\* A v8::Persistent member of an engine or its coder that refers to an object.
Handle == [engine : Engines, member : {"dictionary", "in_buffer_"},
           object : Buffers \cup Dictionaries]

TypeOK ==
    /\ heap \in [Objects -> {"new", "alive", "collected"}]
    /\ held \subseteq Objects
    /\ coder \in [Engines -> VcdEncoder \cup VcdDecoder \cup {None}]
    /\ handles \subseteq Handle
    /\ input \in [Engines -> Buffers \cup {None}]
    /\ pending_close \in [Engines -> BOOLEAN]
    /\ failed \subseteq Engines

Init ==
    /\ heap = [o \in Objects |-> IF o \in Buffers THEN "alive" ELSE "new"]
    /\ held = Buffers
    /\ coder = [e \in Engines |-> None]
    /\ handles = {}
    /\ input = [e \in Engines |-> None]
    /\ pending_close = [e \in Engines |-> FALSE]
    /\ failed = {}

-----------------------------------------------------------------------------
(* Construction                                                            *)

Create(o) ==
    /\ heap[o] = "new"
    /\ heap' = [heap EXCEPT ![o] = "alive"]
    /\ held' = held \cup {o}

\* VcdHashedDictionary::New: the contents of the Buffer are copied and hashed.
\* When that fails the constructor throws and there is no object.
NewDictionary ==
    /\ \E b \in Buffers \cap held, d \in Dictionaries : Create(d)
    /\ UNCHANGED <<coder, handles, input, pending_close, failed>>

\* Mutant: the constructor of VcdEncoder keeps the pointer but no handle.
EncoderUnhandled(e, d) ==
    /\ coder' = [coder EXCEPT ![e] = [hashed_dictionary |-> d]]
    /\ UNCHANGED handles

\* The constructor of VcdEncoder ...
Encoder(e, d) ==
    /\ coder' = [coder EXCEPT ![e] = [hashed_dictionary |-> d]]
    /\ handles' = handles \cup
                  {[engine |-> e, member |-> "dictionary", object |-> d]}

\* Mutant: New mixes up the modes.
DecoderAsEncoder(e, b) == Encoder(e, b)

\* ... and of VcdDecoder.
Decoder(e, b) ==
    /\ coder' = [coder EXCEPT ![e] = [dictionary_handle |-> b]]
    /\ handles' = handles \cup
                  {[engine |-> e, member |-> "dictionary", object |-> b]}

\* VcdCtx::New
New ==
    /\ \E e \in Engines :
          /\ Create(e)
          /\ \/ \E d \in Dictionaries \cap held : Encoder(e, d)
             \/ \E b \in Buffers \cap held : Decoder(e, b)
    /\ UNCHANGED <<input, pending_close, failed>>

-----------------------------------------------------------------------------
(* Writes and close                                                        *)

\* The handles after in_buffer_ of e was reset to refer to a set of objects.
ResetInput(e, objects) ==
    {h \in handles : h.engine # e \/ h.member # "in_buffer_"}
      \cup {[engine |-> e, member |-> "in_buffer_", object |-> b] : b \in objects}

\* Mutant: Write does not set in_buffer_.
InputUnhandled(e, b) == handles

InputHandled(e, b) == ResetInput(e, {b})

\* VcdCtx::Write, under the asserts that VcdCtx shows to hold.
Write(e, b) ==
    /\ e \in held /\ b \in held
    /\ coder[e] # None /\ input[e] = None /\ ~pending_close[e]
    /\ e \notin failed
    /\ input' = [input EXCEPT ![e] = b]
    /\ handles' = InputHandled(e, b)
    /\ UNCHANGED <<heap, held, coder, pending_close, failed>>

\* ~VcdEncoder and ~VcdDecoder are empty: the coder is gone, its handles stay.
DestroyCoder(e) ==
    /\ coder' = [coder EXCEPT ![e] = None]
    /\ pending_close' = [pending_close EXCEPT ![e] = FALSE]

CloseIfPending(e) ==
    IF pending_close[e] THEN DestroyCoder(e)
    ELSE UNCHANGED <<coder, pending_close>>

\* Mutant: FinishWrite leaves in_buffer_ set.
InputKept(e) == handles

InputReleasedBy(e) == ResetInput(e, {})

\* AfterShim, with FinishWrite and a close that was postponed ...
FinishWrite(e) ==
    /\ input[e] # None
    /\ input' = [input EXCEPT ![e] = None]
    /\ handles' = InputReleasedBy(e)
    /\ CloseIfPending(e)
    /\ UNCHANGED <<heap, held, failed>>

\* ... or with SendError, which leaves in_buffer_ as it is.
SendError(e) ==
    /\ input[e] # None
    /\ input' = [input EXCEPT ![e] = None]
    /\ failed' = failed \cup {e}
    /\ CloseIfPending(e)
    /\ UNCHANGED <<heap, held, handles>>

\* Mutant: Close destroys the coder under a write in flight.
CloseAtOnce(e) == DestroyCoder(e)

CloseCoder(e) ==
    IF input[e] # None
    THEN pending_close' = [pending_close EXCEPT ![e] = TRUE] /\ UNCHANGED coder
    ELSE DestroyCoder(e)

\* The binding's close, called on an engine the application has.
Close(e) ==
    /\ e \in held /\ coder[e] # None /\ e \notin failed
    /\ CloseCoder(e)
    /\ UNCHANGED <<heap, held, handles, input, failed>>

-----------------------------------------------------------------------------
(* References and garbage                                                  *)

Drop(o) ==
    /\ o \in held
    /\ o \in Engines => input[o] = None
    /\ held' = held \ {o}
    /\ UNCHANGED <<heap, coder, handles, input, pending_close, failed>>

\* The collector takes an object nobody refers to; ~VcdCtx destroys the coder,
\* ~VcdHashedDictionary the hashed dictionary.
Collect(o) ==
    /\ heap[o] = "alive" /\ o \notin held
    /\ \A h \in handles : h.object # o
    /\ heap' = [heap EXCEPT ![o] = "collected"]
    /\ IF o \in Engines THEN DestroyCoder(o)
       ELSE UNCHANGED <<coder, pending_close>>
    /\ UNCHANGED <<held, handles, input, failed>>

Next ==
    \/ NewDictionary
    \/ New
    \/ \E e \in Engines, b \in Buffers : Write(e, b)
    \/ \E e \in Engines : FinishWrite(e) \/ SendError(e) \/ Close(e)
    \/ \E o \in Objects : Drop(o) \/ Collect(o)

Spec == Init /\ [][Next]_vars

-----------------------------------------------------------------------------
(* Properties                                                              *)

\* The dictionary of a coder, whatever its kind.
DictionaryOf(c) ==
    IF c \in VcdEncoder THEN c.hashed_dictionary ELSE c.dictionary_handle

\* The raw pointers a coder has into its dictionary never dangle, though the
\* application may have dropped the dictionary, other engines that share it
\* may have been closed, and its own engine may be about to be collected
\* (src/src/vcd_encoder.cc:16, src/src/vcd_decoder.cc:18-20).
DictionaryOutlivesCoder ==
    \A e \in Engines :
        coder[e] # None => heap[DictionaryOf(coder[e])] = "alive"

\* What a pool thread reads, the chunk and the coder, outlives its work,
\* whatever the application drops and closes meanwhile
\* (src/src/vcdiff.h:93, src/src/vcdiff.cc:36-42).
InputOutlivesWork ==
    \A e \in Engines :
        input[e] # None => coder[e] # None /\ heap[input[e]] = "alive"

\* An engine that did not fail keeps no chunk from being collected once its
\* write is answered (src/src/vcdiff.cc:135).
ChunksAreReleased ==
    \A h \in handles :
        h.member = "in_buffer_" => input[h.engine] # None \/ h.engine \in failed

\* The reference to a dictionary is kept for the existence of the coder, so
\* not longer (src/README.md:201-202).
KeptForExistence ==
    \A h \in handles : h.member = "dictionary" => coder[h.engine] # None

-----------------------------------------------------------------------------
(* The inductive invariant                                                 *)

\* Every coder and every write has the handle that keeps what it uses alive,
\* and what a handle or the application refers to is not collected.
HandleInv ==
    /\ \A e \in Engines :
          coder[e] # None =>
             [engine |-> e, member |-> "dictionary",
              object |-> DictionaryOf(coder[e])] \in handles
    /\ \A e \in Engines :
          input[e] # None =>
             /\ [engine |-> e, member |-> "in_buffer_", object |-> input[e]]
                  \in handles
             /\ coder[e] # None /\ e \in held
    /\ \A h \in handles : heap[h.object] = "alive"
    /\ \A o \in held : heap[o] = "alive"
    /\ \A e \in Engines : pending_close[e] => input[e] # None
    /\ \A e \in Engines : heap[e] = "new" => coder[e] = None

MemoryInv == TypeOK /\ HandleInv /\ ChunksAreReleased
=============================================================================
