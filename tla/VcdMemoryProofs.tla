--------------------------- MODULE VcdMemoryProofs --------------------------
(***************************************************************************)
(* Proofs about VcdMemory, for any sets of buffers, dictionaries and       *)
(* engines.  MemoryInv is inductive; the safety properties follow from it. *)
(***************************************************************************)
EXTENDS VcdMemory, TLAPS

\* The two kinds of coder are told apart by their members.
LEMMA CoderKinds ==
    /\ \A d \in Dictionaries : DictionaryOf([hashed_dictionary |-> d]) = d
    /\ \A b \in Buffers : DictionaryOf([dictionary_handle |-> b]) = b
<1>1. \A d \in Dictionaries : [hashed_dictionary |-> d] \in VcdEncoder
  BY DEF VcdEncoder
<1>2. \A b \in Buffers : [dictionary_handle |-> b] \notin VcdEncoder
  BY DEF VcdEncoder
<1> QED  BY <1>1, <1>2 DEF DictionaryOf

\* A coder refers to a Buffer or a dictionary.
LEMMA DictionaryOfType ==
    \A c \in VcdEncoder \cup VcdDecoder :
        DictionaryOf(c) \in Buffers \cup Dictionaries
BY DEF DictionaryOf, VcdEncoder, VcdDecoder

\* Initially there are Buffers and nothing else.
LEMMA InitInv == Init => MemoryInv
BY DEF Init, MemoryInv, TypeOK, HandleInv, ChunksAreReleased, Objects

\* A HashedDictionary is constructed.
LEMMA NewDictionaryInv == MemoryInv /\ NewDictionary => MemoryInv'
<1> SUFFICES ASSUME MemoryInv, NewDictionary PROVE MemoryInv'  OBVIOUS
<1> PICK d \in Dictionaries : Create(d)  BY DEF NewDictionary
<1> USE DEF Create, NewDictionary, MemoryInv
<1>1. TypeOK'  BY DEF TypeOK, Objects
<1>2. HandleInv'  BY MemoryAssumption DEF HandleInv, TypeOK, Objects, Handle
<1>3. ChunksAreReleased'  BY DEF ChunksAreReleased
<1> QED  BY <1>1, <1>2, <1>3

\* An engine is constructed over an object the application refers to.
LEMMA NewInv == MemoryInv /\ New => MemoryInv'
<1> SUFFICES ASSUME MemoryInv, New PROVE MemoryInv'  OBVIOUS
<1>1. PICK e \in Engines :
         /\ Create(e)
         /\ \/ \E d \in Dictionaries \cap held : Encoder(e, d)
            \/ \E b \in Buffers \cap held : Decoder(e, b)
  BY DEF New
<1>2. UNCHANGED <<input, pending_close, failed>>  BY DEF New
<1>3. PICK c \in VcdEncoder \cup VcdDecoder :
         /\ coder' = [coder EXCEPT ![e] = c]
         /\ DictionaryOf(c) \in held
         /\ handles' = handles \cup {[engine |-> e, member |-> "dictionary",
                                      object |-> DictionaryOf(c)]}
  BY <1>1, CoderKinds DEF Encoder, Decoder, VcdEncoder, VcdDecoder
<1>4. DictionaryOf(c) \in Buffers \cup Dictionaries  BY DictionaryOfType
<1> DEFINE new == [engine |-> e, member |-> "dictionary",
                   object |-> DictionaryOf(c)]
<1>5. /\ new \in Handle /\ new.engine = e /\ new.member = "dictionary"
      /\ new.object = DictionaryOf(c)
  BY <1>4 DEF Handle
<1> HIDE DEF new
<1>6. TypeOK'
  BY <1>1, <1>2, <1>3, <1>5 DEF MemoryInv, TypeOK, Create, Objects, new
<1>7. HandleInv'
  <2>1. heap' = [heap EXCEPT ![e] = "alive"] /\ held' = held \cup {e}
        /\ heap[e] = "new"
    BY <1>1 DEF Create
  <2>2. handles' = handles \cup {new}  BY <1>3 DEF new
  <2>3. \A i \in Engines : coder'[i] = IF i = e THEN c ELSE coder[i]
    BY <1>3 DEF MemoryInv, TypeOK
  <2>4. \A i \in Engines :
           coder'[i] # None =>
              [engine |-> i, member |-> "dictionary",
               object |-> DictionaryOf(coder'[i])] \in handles'
    BY <2>2, <2>3 DEF MemoryInv, HandleInv, new
  <2>5. \A i \in Engines :
           input[i] # None =>
              /\ [engine |-> i, member |-> "in_buffer_", object |-> input[i]]
                   \in handles'
              /\ coder'[i] # None /\ i \in held'
    BY <2>1, <2>2, <2>3 DEF MemoryInv, HandleInv
  <2>6. \A h \in handles' : heap'[h.object] = "alive"
    BY <1>3, <1>4, <1>5, <2>1, <2>2
       DEF MemoryInv, HandleInv, TypeOK, Objects, Handle
  <2>7. \A o \in held' : heap'[o] = "alive"
    BY <2>1 DEF MemoryInv, HandleInv, TypeOK, Objects
  <2>8. \A i \in Engines : heap'[i] = "new" => coder'[i] = None
    BY <2>1, <2>3 DEF MemoryInv, HandleInv, TypeOK, Objects
  <2> QED  BY <1>2, <2>4, <2>5, <2>6, <2>7, <2>8 DEF MemoryInv, HandleInv
<1>8. ChunksAreReleased'
  BY <1>2, <1>3, <1>5 DEF MemoryInv, ChunksAreReleased, new
<1> QED  BY <1>6, <1>7, <1>8 DEF MemoryInv

\* A chunk is written: its handle is new, the others of in_buffer_ go.
LEMMA WriteInv ==
    ASSUME NEW e \in Engines, NEW b \in Buffers, MemoryInv, Write(e, b)
    PROVE  MemoryInv'
<1> DEFINE new == [engine |-> e, member |-> "in_buffer_", object |-> b]
<1>1. /\ input' = [input EXCEPT ![e] = b] /\ coder[e] # None
      /\ e \in held /\ b \in held /\ ~pending_close[e]
      /\ UNCHANGED <<heap, held, coder, pending_close, failed>>
  BY DEF Write
<1>2. /\ handles' = {h \in handles : h.engine # e \/ h.member # "in_buffer_"}
                      \cup {new}
      /\ new \in Handle /\ new.engine = e /\ new.object = b
  BY DEF Write, InputHandled, ResetInput, Handle
<1>3. TypeOK'
  BY <1>1, <1>2 DEF MemoryInv, TypeOK
<1>4. \A i \in Engines : input'[i] = IF i = e THEN b ELSE input[i]
  BY <1>1 DEF MemoryInv, TypeOK
<1>5. HandleInv'
  <2>1. \A i \in Engines : coder[i] # None =>
           [engine |-> i, member |-> "dictionary",
            object |-> DictionaryOf(coder[i])] \in handles'
    BY <1>2 DEF MemoryInv, HandleInv
  <2>2. \A i \in Engines : input'[i] # None =>
           /\ [engine |-> i, member |-> "in_buffer_", object |-> input'[i]]
                \in handles'
           /\ coder[i] # None /\ i \in held
    BY <1>1, <1>2, <1>4 DEF MemoryInv, HandleInv
  <2>3. \A h \in handles' : heap[h.object] = "alive"
    BY <1>1, <1>2 DEF MemoryInv, HandleInv
  <2>4. \A i \in Engines : pending_close[i] => input'[i] # None
    BY <1>1, <1>4, MemoryAssumption DEF MemoryInv, HandleInv
  <2> QED  BY <1>1, <2>1, <2>2, <2>3, <2>4 DEF MemoryInv, HandleInv
<1>6. ChunksAreReleased'
  <2> SUFFICES ASSUME NEW h \in handles', h.member = "in_buffer_"
               PROVE  input'[h.engine] # None \/ h.engine \in failed
    BY <1>1 DEF ChunksAreReleased
  <2>1. CASE h = new  BY <2>1, <1>2, <1>4, MemoryAssumption
  <2>2. CASE h \in handles /\ h.engine # e
    <3>1. h.engine \in Engines  BY <2>2 DEF MemoryInv, TypeOK, Handle
    <3> QED  BY <2>2, <3>1, <1>4 DEF MemoryInv, ChunksAreReleased
  <2> QED  BY <1>2, <2>1, <2>2
<1> QED  BY <1>3, <1>5, <1>6 DEF MemoryInv

\* The end of a write without an error: in_buffer_ is reset.
LEMMA FinishWriteInv ==
    ASSUME NEW e \in Engines, MemoryInv, FinishWrite(e)
    PROVE  MemoryInv'
<1>1. /\ input' = [input EXCEPT ![e] = None]
      /\ handles' = {h \in handles : h.engine # e \/ h.member # "in_buffer_"}
      /\ UNCHANGED <<heap, held, failed>>
  BY DEF FinishWrite, InputReleasedBy, ResetInput
<1>2. /\ coder' \in {coder, [coder EXCEPT ![e] = None]}
      /\ pending_close' = [pending_close EXCEPT ![e] = FALSE]
  BY DEF FinishWrite, CloseIfPending, DestroyCoder, MemoryInv, TypeOK
<1>3. TypeOK'
  BY <1>1, <1>2 DEF MemoryInv, TypeOK
<1>4. \A i \in Engines : input'[i] = IF i = e THEN None ELSE input[i]
  BY <1>1 DEF MemoryInv, TypeOK
<1>5. \A i \in Engines : coder'[i] = coder[i] \/ (i = e /\ coder'[i] = None)
  BY <1>2 DEF MemoryInv, TypeOK
<1>6. HandleInv'
  <2>1. \A i \in Engines : coder'[i] # None =>
           [engine |-> i, member |-> "dictionary",
            object |-> DictionaryOf(coder'[i])] \in handles'
    BY <1>1, <1>5 DEF MemoryInv, HandleInv
  <2>2. \A i \in Engines : input'[i] # None =>
           /\ [engine |-> i, member |-> "in_buffer_", object |-> input'[i]]
                \in handles'
           /\ coder'[i] # None /\ i \in held
    BY <1>1, <1>4, <1>5 DEF MemoryInv, HandleInv
  <2>3. \A i \in Engines : pending_close'[i] => input'[i] # None
    BY <1>2, <1>4 DEF MemoryInv, HandleInv, TypeOK
  <2> QED  BY <1>1, <1>5, <2>1, <2>2, <2>3 DEF MemoryInv, HandleInv
<1>7. ChunksAreReleased'
  <2> SUFFICES ASSUME NEW h \in handles', h.member = "in_buffer_"
               PROVE  input'[h.engine] # None \/ h.engine \in failed
    BY <1>1 DEF ChunksAreReleased
  <2>1. h \in handles /\ h.engine # e  BY <1>1
  <2>2. h.engine \in Engines  BY <2>1 DEF MemoryInv, TypeOK, Handle
  <2> QED  BY <2>1, <2>2, <1>4 DEF MemoryInv, ChunksAreReleased
<1> QED  BY <1>3, <1>6, <1>7 DEF MemoryInv

\* The end of a write with an error: in_buffer_ stays, the engine has failed.
LEMMA SendErrorInv ==
    ASSUME NEW e \in Engines, MemoryInv, SendError(e)
    PROVE  MemoryInv'
<1>1. /\ input' = [input EXCEPT ![e] = None] /\ failed' = failed \cup {e}
      /\ UNCHANGED <<heap, held, handles>>
  BY DEF SendError
<1>2. /\ coder' \in {coder, [coder EXCEPT ![e] = None]}
      /\ pending_close' = [pending_close EXCEPT ![e] = FALSE]
  BY DEF SendError, CloseIfPending, DestroyCoder, MemoryInv, TypeOK
<1>3. TypeOK'
  BY <1>1, <1>2 DEF MemoryInv, TypeOK
<1>4. \A i \in Engines : input'[i] = IF i = e THEN None ELSE input[i]
  BY <1>1 DEF MemoryInv, TypeOK
<1>5. \A i \in Engines : coder'[i] = coder[i] \/ (i = e /\ coder'[i] = None)
  BY <1>2 DEF MemoryInv, TypeOK
<1>6. HandleInv'
  <2>1. \A i \in Engines : coder'[i] # None =>
           [engine |-> i, member |-> "dictionary",
            object |-> DictionaryOf(coder'[i])] \in handles
    BY <1>5 DEF MemoryInv, HandleInv
  <2>2. \A i \in Engines : input'[i] # None =>
           /\ [engine |-> i, member |-> "in_buffer_", object |-> input'[i]]
                \in handles
           /\ coder'[i] # None /\ i \in held
    BY <1>4, <1>5 DEF MemoryInv, HandleInv
  <2>3. \A i \in Engines : pending_close'[i] => input'[i] # None
    BY <1>2, <1>4 DEF MemoryInv, HandleInv, TypeOK
  <2> QED  BY <1>1, <1>5, <2>1, <2>2, <2>3 DEF MemoryInv, HandleInv
<1>7. ChunksAreReleased'
  <2> SUFFICES ASSUME NEW h \in handles, h.member = "in_buffer_", h.engine # e
               PROVE  input'[h.engine] # None \/ h.engine \in failed
    BY <1>1 DEF ChunksAreReleased
  <2>1. h.engine \in Engines  BY DEF MemoryInv, TypeOK, Handle
  <2> QED  BY <2>1, <1>4 DEF MemoryInv, ChunksAreReleased
<1> QED  BY <1>3, <1>6, <1>7 DEF MemoryInv

\* close(): at once when nothing is in flight, else later.
LEMMA CloseInv ==
    ASSUME NEW e \in Engines, MemoryInv, Close(e)
    PROVE  MemoryInv'
<1>1. UNCHANGED <<heap, held, handles, input, failed>>  BY DEF Close
<1>2. \/ /\ input[e] # None /\ UNCHANGED coder
         /\ pending_close' = [pending_close EXCEPT ![e] = TRUE]
      \/ /\ input[e] = None /\ coder' = [coder EXCEPT ![e] = None]
         /\ pending_close' = [pending_close EXCEPT ![e] = FALSE]
  BY DEF Close, CloseCoder, DestroyCoder
<1>3. TypeOK'
  BY <1>1, <1>2 DEF MemoryInv, TypeOK
<1>4. \A i \in Engines : coder'[i] = coder[i]
                            \/ (input[i] = None /\ coder'[i] = None)
  BY <1>2 DEF MemoryInv, TypeOK
<1>5. \A i \in Engines : pending_close'[i] => pending_close[i] \/ input[i] # None
  BY <1>2 DEF MemoryInv, TypeOK
<1>6. HandleInv'
  BY <1>1, <1>4, <1>5 DEF MemoryInv, HandleInv
<1>7. ChunksAreReleased'  BY <1>1 DEF MemoryInv, ChunksAreReleased
<1> QED  BY <1>3, <1>6, <1>7 DEF MemoryInv

\* The application drops a reference.
LEMMA DropInv ==
    ASSUME NEW o \in Objects, MemoryInv, Drop(o)
    PROVE  MemoryInv'
<1> USE DEF Drop, MemoryInv
<1>1. TypeOK'  BY DEF TypeOK
<1>2. HandleInv'  BY DEF HandleInv
<1>3. ChunksAreReleased'  BY DEF ChunksAreReleased
<1> QED  BY <1>1, <1>2, <1>3

\* An object without references is collected: no handle and no coder in use
\* refers to it.
LEMMA CollectInv ==
    ASSUME NEW o \in Objects, MemoryInv, Collect(o)
    PROVE  MemoryInv'
<1>1. /\ heap' = [heap EXCEPT ![o] = "collected"] /\ o \notin held
      /\ \A h \in handles : h.object # o
      /\ UNCHANGED <<held, handles, input, failed>>
  BY DEF Collect
<1>2. \/ /\ o \in Engines /\ coder' = [coder EXCEPT ![o] = None]
         /\ pending_close' = [pending_close EXCEPT ![o] = FALSE]
      \/ UNCHANGED <<coder, pending_close>>
  BY DEF Collect, DestroyCoder
<1>3. TypeOK'
  BY <1>1, <1>2 DEF MemoryInv, TypeOK
<1>4. \A i \in Engines : coder'[i] = coder[i] \/ (i = o /\ coder'[i] = None)
  BY <1>2 DEF MemoryInv, TypeOK
<1>5. \A i \in Engines : pending_close'[i] => pending_close[i]
  BY <1>2 DEF MemoryInv, TypeOK
<1>6. HandleInv'
  <2>1. \A i \in Engines : input[i] # None => coder'[i] # None /\ i \in held
    BY <1>1, <1>4 DEF MemoryInv, HandleInv
  <2>2. \A h \in handles : h.object \in Objects
    BY DEF MemoryInv, TypeOK, Handle, Objects
  <2>3. /\ \A h \in handles : heap'[h.object] = "alive"
        /\ \A p \in held : heap'[p] = "alive"
    BY <1>1, <2>2 DEF MemoryInv, HandleInv, TypeOK
  <2>4. \A i \in Engines : heap'[i] = "new" => heap[i] = "new"
    BY <1>1 DEF MemoryInv, TypeOK, Objects
  <2> QED  BY <1>1, <1>4, <1>5, <2>1, <2>3, <2>4 DEF MemoryInv, HandleInv
<1>7. ChunksAreReleased'  BY <1>1 DEF MemoryInv, ChunksAreReleased
<1> QED  BY <1>3, <1>6, <1>7 DEF MemoryInv

-----------------------------------------------------------------------------

\* Whatever the application constructs, writes, closes and drops, and whatever
\* the collector takes, every coder and every write in flight has its handle.
THEOREM Invariance == Spec => []MemoryInv
<1>1. Init => MemoryInv  BY InitInv
<1>2. MemoryInv /\ [Next]_vars => MemoryInv'
  <2> SUFFICES ASSUME MemoryInv, [Next]_vars PROVE MemoryInv'  OBVIOUS
  <2>1. CASE NewDictionary  BY <2>1, NewDictionaryInv
  <2>2. CASE New  BY <2>2, NewInv
  <2>3. ASSUME NEW e \in Engines, NEW b \in Buffers, Write(e, b) PROVE MemoryInv'
    BY <2>3, WriteInv
  <2>4. ASSUME NEW e \in Engines, FinishWrite(e) \/ SendError(e) \/ Close(e)
        PROVE  MemoryInv'
    BY <2>4, FinishWriteInv, SendErrorInv, CloseInv
  <2>5. ASSUME NEW o \in Objects, Drop(o) \/ Collect(o) PROVE MemoryInv'
    BY <2>5, DropInv, CollectInv
  <2>6. CASE UNCHANGED vars
    BY <2>6 DEF vars, MemoryInv, TypeOK, HandleInv, ChunksAreReleased
  <2> QED  BY <2>1, <2>2, <2>3, <2>4, <2>5, <2>6 DEF Next
<1> QED  BY <1>1, <1>2, PTL DEF Spec

\* Type correctness.
THEOREM MemoryTypeCorrect == Spec => []TypeOK
<1>1. MemoryInv => TypeOK  BY DEF MemoryInv
<1> QED  BY <1>1, Invariance, PTL

\* No coder, shared dictionary or not, ever has a dangling dictionary.
THEOREM DictionarySafe == Spec => []DictionaryOutlivesCoder
<1>1. MemoryInv => DictionaryOutlivesCoder
  <2> SUFFICES ASSUME MemoryInv, NEW e \in Engines, coder[e] # None
               PROVE  heap[DictionaryOf(coder[e])] = "alive"
    BY DEF DictionaryOutlivesCoder
  <2> DEFINE h == [engine |-> e, member |-> "dictionary",
                   object |-> DictionaryOf(coder[e])]
  <2>1. h \in handles  BY DEF MemoryInv, HandleInv
  <2>2. heap[h.object] = "alive"  BY <2>1 DEF MemoryInv, HandleInv
  <2> QED  BY <2>2
<1> QED  BY <1>1, Invariance, PTL

\* The coder and the chunk outlive every write in flight.
THEOREM InputSafe == Spec => []InputOutlivesWork
<1>1. MemoryInv => InputOutlivesWork
  <2> SUFFICES ASSUME MemoryInv, NEW e \in Engines, input[e] # None
               PROVE  coder[e] # None /\ heap[input[e]] = "alive"
    BY DEF InputOutlivesWork
  <2> DEFINE h == [engine |-> e, member |-> "in_buffer_", object |-> input[e]]
  <2>1. h \in handles /\ coder[e] # None  BY DEF MemoryInv, HandleInv
  <2>2. heap[h.object] = "alive"  BY <2>1 DEF MemoryInv, HandleInv
  <2> QED  BY <2>1, <2>2
<1> QED  BY <1>1, Invariance, PTL

\* An engine that did not fail releases each chunk when its write is answered.
THEOREM ChunksReleased == Spec => []ChunksAreReleased
<1>1. MemoryInv => ChunksAreReleased  BY DEF MemoryInv
<1> QED  BY <1>1, Invariance, PTL
=============================================================================
