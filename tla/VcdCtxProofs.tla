---------------------------- MODULE VcdCtxProofs ----------------------------
(***************************************************************************)
(* Proofs about VcdCtx, for every mode and every bound: with the engine    *)
(* referenced while a write is in flight, IInv is an inductive invariant,  *)
(* and from it follow the safety properties the runs check and the         *)
(* refinement of VcdPipe.                                                  *)
(***************************************************************************)
EXTENDS VcdCtx, SequenceTheorems, TLAPS

-----------------------------------------------------------------------------
(* Sequences                                                               *)

\* Cutting a sequence in two loses nothing: what PoolProcess does to its input.
LEMMA SplitSeq ==
    ASSUME NEW s \in Seq(Nat), NEW k \in 0 .. Len(s)
    PROVE  /\ SubSeq(s, 1, k) \in Seq(Nat)
           /\ SubSeq(s, k + 1, Len(s)) \in Seq(Nat)
           /\ SubSeq(s, 1, k) \o SubSeq(s, k + 1, Len(s)) = s
<1>1. SubSeq(s, 1, k) \in Seq(Nat)
  BY SubSeqProperties
<1>2. SubSeq(s, k + 1, Len(s)) \in Seq(Nat)
  BY SubSeqProperties
<1>3. SubSeq(s, 1, k) \o SubSeq(s, k + 1, Len(s)) = SubSeq(s, 1, Len(s))
  <2>1. Len(s) \in Nat
    BY LenProperties
  <2>2. /\ 1 \in 1 .. Len(s) + 1
        /\ k \in 1 - 1 .. Len(s)
        /\ Len(s) \in k .. Len(s)
    BY <2>1
  <2> QED
    BY <2>2, ConcatAdjacentSubSeq
<1>4. SubSeq(s, 1, Len(s)) = s
  BY SubSeqFull
<1> QED
  BY <1>1, <1>2, <1>3, <1>4

\* The library's facts about concatenation, for sequences of bytes.
LEMMA ConcatBytes ==
    /\ <<>> \in Seq(Nat)
    /\ \A s, t \in Seq(Nat) : s \o t \in Seq(Nat)
    /\ \A s \in Seq(Nat) : s \o <<>> = s /\ <<>> \o s = s
  BY EmptySeq, ConcatProperties, ConcatEmptySeq

LEMMA AssocBytes ==
    \A s, t, u \in Seq(Nat) : (s \o t) \o u = s \o (t \o u)
  BY ConcatAssociative

\* Process moves bytes from (unparsed, data) to (output_buffer, unparsed): when
\* the bytes before and after are the same, so is the whole stream.
LEMMA RegroupBytes ==
    ASSUME delivered \in Seq(Nat), output_buffer \in Seq(Nat),
           unparsed \in Seq(Nat), data \in Seq(Nat),
           NEW front \in Seq(Nat), NEW back \in Seq(Nat),
           front \o back = unparsed \o data
    PROVE  delivered \o output_buffer \o unparsed \o data
             = delivered \o (output_buffer \o front) \o back
<1> DEFINE out == delivered \o output_buffer
<1>1. out \in Seq(Nat)
  BY ConcatBytes
<1>2. out \o unparsed \o data = out \o (unparsed \o data)
  BY <1>1, AssocBytes
<1>3. out \o (front \o back) = (out \o front) \o back
  BY <1>1, AssocBytes
<1>4. out \o front = delivered \o (output_buffer \o front)
  BY AssocBytes
<1> QED
  BY <1>2, <1>3, <1>4

\* A sequence is a prefix of each of its extensions.
LEMMA PrefixConcat ==
    ASSUME NEW s \in Seq(Nat), NEW t \in Seq(Nat)
    PROVE  IsPrefix(s, s \o t)
<1>1. Len(s \o t) = Len(s) + Len(t) /\ Len(s) \in Nat /\ Len(t) \in Nat
  BY ConcatProperties, LenProperties
<1>2. CASE Len(s) = 0
  <2>1. SubSeq(s, 1, 0) = <<>> /\ SubSeq(s \o t, 1, 0) = <<>>
    BY SubSeqEmpty
  <2> QED
    BY <1>1, <1>2, <2>1 DEF IsPrefix
<1>3. CASE Len(s) # 0
  <2>1. 1 \in 1 .. Len(s) /\ Len(s) \in 1 .. Len(s)
    BY <1>1, <1>3
  <2>2. SubSeq(s \o t, 1, Len(s)) = SubSeq(s, 1, Len(s))
    BY <2>1, SubSeqOfConcat1
  <2> QED
    BY <1>1, <2>2 DEF IsPrefix
<1> QED
  BY <1>2, <1>3

\* A prefix stays one when more input is accepted.
LEMMA GrownPrefix ==
    ASSUME NEW d \in Seq(Nat), NEW u \in Seq(Nat), NEW c \in Seq(Nat)
    PROVE  IsPrefix(d, (d \o u) \o c)
<1>1. u \o c \in Seq(Nat)
  BY ConcatBytes
<1>2. (d \o u) \o c = d \o (u \o c)
  BY AssocBytes
<1> QED
  BY <1>1, <1>2, PrefixConcat

\* The chunk of a write is a sequence of positions.
LEMMA ChunkIsSeq ==
    ASSUME accepted \in Seq(Nat), NEW n \in Nat
    PROVE  /\ Chunk(n) \in Seq(Nat)
           /\ n = 0 => Chunk(n) = <<>>
<1>1. Len(accepted) \in Nat
  BY LenProperties
<1>2. \A i \in 1 .. n : Len(accepted) + i \in Nat
  BY <1>1
<1>3. Chunk(n) \in [1 .. n -> Nat]
  BY <1>2 DEF Chunk
<1>4. Chunk(n) \in Seq(Nat) /\ Len(Chunk(n)) = n
  BY <1>3, IsASeq, LenProperties
<1> QED
  BY <1>4, EmptySeq, LenProperties
-----------------------------------------------------------------------------
(* The inductive invariant                                                 *)

\* A fresh engine satisfies the invariant.
LEMMA InitInv == Init => IInv
<1> SUFFICES ASSUME Init PROVE IInv
  OBVIOUS
<1>1. <<>> \in Seq(Nat) /\ <<>> \o <<>> = <<>>
  BY ConcatBytes
<1>2. TypeOK /\ ~aborted
  BY <1>1 DEF Init, TypeOK, State, Error
<1>3. JobInv /\ CloseInv /\ MainInv /\ StateInv
  BY DEF Init, JobInv, CloseInv, MainInv, StateInv, SessionOpen, HasError
<1>4. BytesInv
  <2>1. IsPrefix(<<>>, <<>>)
    BY <1>1, PrefixConcat
  <2>2. Conservation
    BY <1>1 DEF Init, Conservation
  <2> QED
    BY <2>1, <2>2 DEF Init, BytesInv
<1> QED
  BY <1>2, <1>3, <1>4 DEF IInv

\* Every step of an engine that stays referenced, and every step that does not
\* collect one, keeps the invariant.
LEMMA NextInv ==
    ASSUME Retained = TRUE \/ ~collected', IInv, [Next]_vars
    PROVE  IInv'
<1>m. mode' = mode
  BY DEF Next, vars
<1> USE <1>m DEF IInv, TypeOK, State, Error, JobInv, CloseInv, MainInv, StateInv,
            SessionOpen, Mode, Close, Reset, CloseIfPending, PoolUnchanged, HasError,
            InPool, coderVars, memberVars,
           jobVars, clientVars, streamVars
<1>1. CASE ClientWrite
  <2> PICK n \in 0 .. MaxChunk, last \in BOOLEAN :
           Write(Chunk(n), last, TRUE) /\ (ended => n = 0 /\ last)
    BY <1>1 DEF ClientWrite
  <2>a. n \in Nat
    BY ConstantsAssumption DEF ConstantsAssumption
  <2>b. Chunk(n) \in Seq(Nat) /\ (n = 0 => Chunk(n) = <<>>)
    BY <2>a, ChunkIsSeq
  <2>c. accepted \o Chunk(n) \in Seq(Nat)
    BY <2>b, ConcatBytes
  <2>1. TypeOK'
    BY <1>1, <2>b, <2>c DEF ClientWrite, Write, ClientMayRun
  <2>2. JobInv'
    BY <1>1 DEF ClientWrite, Write, ClientMayRun
  <2>3. CloseInv'
    BY <1>1 DEF ClientWrite, Write, ClientMayRun
  <2>4. MainInv'
    BY <1>1 DEF ClientWrite, Write, ClientMayRun
  <2>5. StateInv'
    BY <1>1, <2>b DEF ClientWrite, Write, ClientMayRun
  <2>6. ~aborted'
    BY <1>1 DEF ClientWrite, Write, ClientMayRun
  <2>7. BytesInv'
    <3>1. ~HasError /\ data = <<>> /\ output_buffer = <<>>
      BY <1>1 DEF ClientWrite, ClientMayRun, BytesInv
    <3>2. accepted = delivered \o unparsed
      BY <3>1, ConcatBytes DEF BytesInv, Conservation
    <3>3. Conservation'
      BY <3>1, <3>2, <2>b, ConcatBytes DEF Write, Conservation
    <3>4. IsPrefix(delivered, accepted)'
      <4>1. IsPrefix(delivered, (delivered \o unparsed) \o Chunk(n))
        BY <2>b, GrownPrefix
      <4> QED
        BY <3>2, <4>1 DEF Write
    <3> QED
      BY <1>1, <3>1, <3>3, <3>4 DEF ClientWrite, ClientMayRun, Write, BytesInv
  <2> QED
    BY <2>1, <2>2, <2>3, <2>4, <2>5, <2>6, <2>7 DEF IInv
<1>2. CASE ClientWriteSync
  <2> PICK n \in 0 .. MaxChunk, last \in BOOLEAN :
           Write(Chunk(n), last, FALSE) /\ last = TRUE
    BY <1>2 DEF ClientWriteSync
  <2>a. n \in Nat
    BY ConstantsAssumption DEF ConstantsAssumption
  <2>b. Chunk(n) \in Seq(Nat) /\ (n = 0 => Chunk(n) = <<>>)
    BY <2>a, ChunkIsSeq
  <2>c. accepted \o Chunk(n) \in Seq(Nat)
    BY <2>b, ConcatBytes
  <2>1. TypeOK'
    BY <1>2, <2>b, <2>c DEF ClientWriteSync, Write, ClientMayRun
  <2>2. JobInv'
    BY <1>2 DEF ClientWriteSync, Write, ClientMayRun
  <2>3. CloseInv'
    BY <1>2 DEF ClientWriteSync, Write, ClientMayRun
  <2>4. MainInv'
    BY <1>2 DEF ClientWriteSync, Write, ClientMayRun
  <2>5. StateInv'
    BY <1>2, <2>b DEF ClientWriteSync, Write, ClientMayRun
  <2>6. ~aborted'
    BY <1>2 DEF ClientWriteSync, Write, ClientMayRun
  <2>7. BytesInv'
    <3>1. ~HasError /\ data = <<>> /\ output_buffer = <<>>
      BY <1>2 DEF ClientWriteSync, ClientMayRun, BytesInv
    <3>2. accepted = delivered \o unparsed
      BY <3>1, ConcatBytes DEF BytesInv, Conservation
    <3>3. Conservation'
      BY <3>1, <3>2, <2>b, ConcatBytes DEF Write, Conservation
    <3>4. IsPrefix(delivered, accepted)'
      <4>1. IsPrefix(delivered, (delivered \o unparsed) \o Chunk(n))
        BY <2>b, GrownPrefix
      <4> QED
        BY <3>2, <4>1 DEF Write
    <3> QED
      BY <1>2, <3>1, <3>3, <3>4 DEF ClientWriteSync, ClientMayRun, Write, BytesInv
  <2> QED
    BY <2>1, <2>2, <2>3, <2>4, <2>5, <2>6, <2>7 DEF IInv
<1>3. CASE ClientClose
  <2>1. TypeOK'
    BY <1>3 DEF ClientClose, ClientMayRun
  <2>2. JobInv'
    BY <1>3 DEF ClientClose, ClientMayRun
  <2>3. CloseInv'
    BY <1>3 DEF ClientClose, ClientMayRun
  <2>4. MainInv'
    BY <1>3 DEF ClientClose, ClientMayRun
  <2>5. StateInv'
    BY <1>3 DEF ClientClose, ClientMayRun
  <2>6. ~aborted'
    BY <1>3 DEF ClientClose, ClientMayRun
  <2>7. BytesInv'
    BY <1>3 DEF ClientClose, ClientMayRun, BytesInv, Conservation
  <2> QED
    BY <2>1, <2>2, <2>3, <2>4, <2>5, <2>6, <2>7 DEF IInv
<1>4. CASE PoolStart
  <2>1. TypeOK'
    BY <1>4 DEF PoolStart, Start, EncoderStart, DecoderStart, AfterStart
  <2>2. JobInv'
    BY <1>4 DEF PoolStart, Start, EncoderStart, DecoderStart, AfterStart
  <2>3. CloseInv'
    BY <1>4 DEF PoolStart, Start, EncoderStart, DecoderStart, AfterStart
  <2>4. MainInv'
    BY <1>4 DEF PoolStart, Start, EncoderStart, DecoderStart, AfterStart
  <2>5. StateInv'
    BY <1>4 DEF PoolStart, Start, EncoderStart, DecoderStart, AfterStart
  <2>6. ~aborted'
    BY <1>4 DEF PoolStart, Start, EncoderStart, DecoderStart, AfterStart
  <2>7. BytesInv'
    BY <1>4 DEF PoolStart, Start, EncoderStart, DecoderStart, AfterStart, BytesInv, Conservation
  <2> QED
    BY <2>1, <2>2, <2>3, <2>4, <2>5, <2>6, <2>7 DEF IInv
<1>5. CASE PoolProcess
  <2>a. \E front, back \in Seq(Nat) :
           /\ front \o back = unparsed \o data
           /\ output_buffer' = output_buffer \o front
           /\ unparsed' = back
           /\ mode = "ENCODE" => back = <<>>
    <3> DEFINE input == unparsed \o data
    <3>1. input \in Seq(Nat) /\ Len(input) \in Nat
      BY ConcatBytes, LenProperties
    <3>2. Covered(input) \subseteq 0 .. Len(input)
      BY <3>1 DEF Covered, EncoderProcess, DecoderProcess
    <3>3. PICK k \in Covered(input) :
             /\ output_buffer' = output_buffer \o SubSeq(input, 1, k)
             /\ unparsed' = SubSeq(input, k + 1, Len(input))
      BY <1>5 DEF PoolProcess, CoderInput
    <3>4. k \in 0 .. Len(input)
      BY <3>2
    <3>5. mode = "ENCODE" => unparsed' = <<>>
      <4> SUFFICES ASSUME mode = "ENCODE" PROVE unparsed' = <<>>
        OBVIOUS
      <4>1. k = Len(input)
        BY DEF Covered, EncoderProcess, DecoderProcess
      <4> QED
        BY <3>1, <3>3, <4>1, SubSeqEmpty
    <3> QED
      BY <3>1, <3>3, <3>4, <3>5, SplitSeq
  <2> PICK front, back \in Seq(Nat) :
           /\ front \o back = unparsed \o data
           /\ output_buffer' = output_buffer \o front
           /\ unparsed' = back
           /\ mode = "ENCODE" => back = <<>>
    BY <2>a
  <2>b. /\ front \o back = unparsed \o data
        /\ output_buffer' = output_buffer \o front /\ unparsed' = back
        /\ output_buffer \o front \in Seq(Nat)
        /\ unparsed \in Seq(Nat) /\ data \in Seq(Nat)
        /\ delivered \in Seq(Nat) /\ output_buffer \in Seq(Nat)
    BY ConcatBytes
  <2>1. TypeOK'
    <3>1. job' \in {"running", "done"} /\ state' \in State /\ data' = <<>>
          /\ aborted' \in BOOLEAN /\ UNCHANGED <<err, session>> /\ PoolUnchanged
      BY <1>5 DEF PoolProcess
    <3> QED
      BY <3>1, <2>b, ConcatBytes
  <2>2. JobInv'
    BY <1>5 DEF PoolProcess
  <2>3. CloseInv'
    BY <1>5 DEF PoolProcess
  <2>4. MainInv'
    BY <1>5 DEF PoolProcess
  <2>5. StateInv'
    BY <1>5, <2>b DEF PoolProcess
  <2>6. ~aborted'
    BY <1>5 DEF PoolProcess
  <2>7. BytesInv'
    <3>1. ~HasError
      BY <1>5 DEF PoolProcess
    <3>2. accepted = delivered \o (output_buffer \o front) \o back
      <4>1. accepted = delivered \o output_buffer \o unparsed \o data
        BY <3>1 DEF BytesInv, Conservation
      <4>2. delivered \o output_buffer \o unparsed \o data
              = delivered \o (output_buffer \o front) \o back
        BY <2>b, RegroupBytes
      <4> QED
        BY <4>1, <4>2
    <3>3. Conservation'
      <4>1. delivered \o (output_buffer \o front) \o back \in Seq(Nat)
        BY <3>2
      <4> QED
        BY <1>5, <3>2, <4>1, <2>b, ConcatBytes DEF PoolProcess, Conservation
    <3> QED
      BY <1>5, <3>1, <3>3 DEF PoolProcess, BytesInv
  <2> QED
    BY <2>1, <2>2, <2>3, <2>4, <2>5, <2>6, <2>7 DEF IInv
<1>6. CASE PoolProcessError
  <2> DEFINE input == unparsed \o data
  <2>a. input \in Seq(Nat) /\ Len(input) \in Nat
    BY ConcatBytes, LenProperties
  <2>c. CoveredOnError(input) \subseteq 0 .. Len(input)
    BY <2>a DEF CoveredOnError
  <2>d. PICK k \in CoveredOnError(input) :
           output_buffer' = output_buffer \o SubSeq(input, 1, k)
    BY <1>6 DEF PoolProcessError, CoderInput
  <2>b. output_buffer' \in Seq(Nat)
    BY <2>a, <2>c, <2>d, SplitSeq, ConcatBytes
  <2>1. TypeOK'
    BY <1>6, <2>b DEF PoolProcessError
  <2>2. JobInv'
    BY <1>6 DEF PoolProcessError
  <2>3. CloseInv'
    BY <1>6 DEF PoolProcessError
  <2>4. MainInv'
    BY <1>6 DEF PoolProcessError
  <2>5. StateInv'
    BY <1>6 DEF PoolProcessError
  <2>6. ~aborted'
    BY <1>6 DEF PoolProcessError
  <2>7. BytesInv'
    BY <1>6 DEF PoolProcessError, BytesInv, Conservation
  <2> QED
    BY <2>1, <2>2, <2>3, <2>4, <2>5, <2>6, <2>7 DEF IInv
<1>7. CASE PoolFinish
  <2>1. TypeOK'
    BY <1>7 DEF PoolFinish, Finish, EncoderFinish, DecoderFinish
  <2>2. JobInv'
    BY <1>7 DEF PoolFinish, Finish, EncoderFinish, DecoderFinish
  <2>3. CloseInv'
    BY <1>7 DEF PoolFinish, Finish, EncoderFinish, DecoderFinish
  <2>4. MainInv'
    BY <1>7 DEF PoolFinish, Finish, EncoderFinish, DecoderFinish
  <2>5. StateInv'
    BY <1>7 DEF PoolFinish, Finish, EncoderFinish, DecoderFinish
  <2>6. ~aborted'
    BY <1>7 DEF PoolFinish, Finish, EncoderFinish, DecoderFinish
  <2>7. BytesInv'
    BY <1>7 DEF PoolFinish, Finish, EncoderFinish, DecoderFinish, BytesInv, Conservation
  <2> QED
    BY <2>1, <2>2, <2>3, <2>4, <2>5, <2>6, <2>7 DEF IInv
<1>8. CASE PoolReturn
  <2>1. TypeOK'
    BY <1>8 DEF PoolReturn
  <2>2. JobInv'
    BY <1>8 DEF PoolReturn
  <2>3. CloseInv'
    BY <1>8 DEF PoolReturn
  <2>4. MainInv'
    BY <1>8 DEF PoolReturn
  <2>5. StateInv'
    BY <1>8 DEF PoolReturn
  <2>6. ~aborted'
    BY <1>8 DEF PoolReturn
  <2>7. BytesInv'
    BY <1>8 DEF PoolReturn, BytesInv, Conservation
  <2> QED
    BY <2>1, <2>2, <2>3, <2>4, <2>5, <2>6, <2>7 DEF IInv
<1>9. CASE AfterOk
  <2>a. delivered \o output_buffer \in Seq(Nat) /\ <<>> \in Seq(Nat)
    BY ConcatBytes
  <2>1. TypeOK'
    BY <1>9, <2>a DEF AfterOk, FinishWrite, GetOutputBuffer
  <2>2. JobInv'
    BY <1>9 DEF AfterOk, FinishWrite, GetOutputBuffer
  <2>3. CloseInv'
    BY <1>9 DEF AfterOk, FinishWrite, GetOutputBuffer
  <2>4. MainInv'
    BY <1>9 DEF AfterOk, FinishWrite, GetOutputBuffer
  <2>5. StateInv'
    BY <1>9 DEF AfterOk, FinishWrite, GetOutputBuffer
  <2>6. ~aborted'
    BY <1>9 DEF AfterOk, FinishWrite, GetOutputBuffer
  <2>7. BytesInv'
    <3>1. data = <<>> /\ ~HasError
      BY <1>9 DEF AfterOk, BytesInv
    <3>2. accepted = (delivered \o output_buffer) \o unparsed
      BY <3>1, <2>a, ConcatBytes DEF BytesInv, Conservation
    <3>3. Conservation'
      BY <1>9, <3>2, <2>a, ConcatBytes DEF AfterOk, FinishWrite, GetOutputBuffer, Conservation
    <3>4. IsPrefix(delivered, accepted)'
      BY <1>9, <3>2, <2>a, PrefixConcat DEF AfterOk, FinishWrite, GetOutputBuffer
    <3> QED
      BY <1>9, <3>1, <3>3, <3>4 DEF AfterOk, FinishWrite, GetOutputBuffer, BytesInv
  <2> QED
    BY <2>1, <2>2, <2>3, <2>4, <2>5, <2>6, <2>7 DEF IInv
<1>10. CASE AfterOkReturn
  <2>1. TypeOK'
    <3>1. /\ coder' \in BOOLEAN
          /\ write_in_progress' \in BOOLEAN
          /\ pending_close' \in BOOLEAN
      <4>1. CloseIfPending(write_in_progress)
        BY <1>10 DEF AfterOkReturn
      <4> QED
        BY <4>1
    <3>2. /\ main' = "loop"
          /\ UNCHANGED <<session, unparsed, state, err, output_buffer,
                         in_buffer, job, data, is_last, closed, hadError,
                         awaiting, ended, finished, accepted, delivered,
                         collected, aborted>>
      BY <1>10 DEF AfterOkReturn
    <3> QED
      BY <3>1, <3>2
  <2>2. JobInv'
    BY <1>10 DEF AfterOkReturn
  <2>3. CloseInv'
    BY <1>10 DEF AfterOkReturn
  <2>4. MainInv'
    BY <1>10 DEF AfterOkReturn
  <2>5. StateInv'
    BY <1>10 DEF AfterOkReturn
  <2>6. ~aborted'
    BY <1>10 DEF AfterOkReturn
  <2>7. BytesInv'
    BY <1>10 DEF AfterOkReturn, BytesInv, Conservation
  <2> QED
    BY <2>1, <2>2, <2>3, <2>4, <2>5, <2>6, <2>7 DEF IInv
<1>11. CASE AfterError
  <2>1. TypeOK'
    BY <1>11 DEF AfterError
  <2>2. JobInv'
    BY <1>11 DEF AfterError
  <2>3. CloseInv'
    BY <1>11 DEF AfterError
  <2>4. MainInv'
    BY <1>11 DEF AfterError
  <2>5. StateInv'
    BY <1>11 DEF AfterError
  <2>6. ~aborted'
    BY <1>11 DEF AfterError
  <2>7. BytesInv'
    BY <1>11 DEF AfterError, BytesInv, Conservation
  <2> QED
    BY <2>1, <2>2, <2>3, <2>4, <2>5, <2>6, <2>7 DEF IInv
<1>12. CASE AfterErrorReturn
  <2>1. TypeOK'
    <3>1. /\ coder' \in BOOLEAN
          /\ write_in_progress' \in BOOLEAN
          /\ pending_close' \in BOOLEAN
      <4>1. CloseIfPending(FALSE)
        BY <1>12 DEF AfterErrorReturn
      <4> QED
        BY <4>1
    <3>2. /\ main' = "loop"
          /\ UNCHANGED <<session, unparsed, state, err, output_buffer,
                         in_buffer, job, data, is_last, closed, hadError,
                         awaiting, ended, finished, accepted, delivered,
                         collected, aborted>>
      BY <1>12 DEF AfterErrorReturn
    <3> QED
      BY <3>1, <3>2
  <2>2. JobInv'
    BY <1>12 DEF AfterErrorReturn
  <2>3. CloseInv'
    BY <1>12 DEF AfterErrorReturn
  <2>4. MainInv'
    BY <1>12 DEF AfterErrorReturn
  <2>5. StateInv'
    BY <1>12 DEF AfterErrorReturn
  <2>6. ~aborted'
    BY <1>12 DEF AfterErrorReturn
  <2>7. BytesInv'
    BY <1>12 DEF AfterErrorReturn, BytesInv, Conservation
  <2> QED
    BY <2>1, <2>2, <2>3, <2>4, <2>5, <2>6, <2>7 DEF IInv
<1>13. CASE SyncReturn
  <2>a. delivered \o output_buffer \in Seq(Nat) /\ <<>> \in Seq(Nat)
    BY ConcatBytes
  <2>1. TypeOK'
    BY <1>13, <2>a DEF SyncReturn, FinishWrite, GetOutputBuffer
  <2>2. JobInv'
    BY <1>13 DEF SyncReturn, FinishWrite, GetOutputBuffer
  <2>3. CloseInv'
    BY <1>13 DEF SyncReturn, FinishWrite, GetOutputBuffer
  <2>4. MainInv'
    BY <1>13 DEF SyncReturn, FinishWrite, GetOutputBuffer
  <2>5. StateInv'
    BY <1>13 DEF SyncReturn, FinishWrite, GetOutputBuffer
  <2>6. ~aborted'
    BY <1>13 DEF SyncReturn, FinishWrite, GetOutputBuffer
  <2>7. BytesInv'
    <3>1. data = <<>> /\ ~HasError
      BY <1>13 DEF SyncReturn, BytesInv
    <3>2. accepted = (delivered \o output_buffer) \o unparsed
      BY <3>1, <2>a, ConcatBytes DEF BytesInv, Conservation
    <3>3. Conservation'
      BY <1>13, <3>2, <2>a, ConcatBytes DEF SyncReturn, FinishWrite, GetOutputBuffer, Conservation
    <3>4. IsPrefix(delivered, accepted)'
      BY <1>13, <3>2, <2>a, PrefixConcat DEF SyncReturn, FinishWrite, GetOutputBuffer
    <3> QED
      BY <1>13, <3>1, <3>3, <3>4 DEF SyncReturn, FinishWrite, GetOutputBuffer, BytesInv
  <2> QED
    BY <2>1, <2>2, <2>3, <2>4, <2>5, <2>6, <2>7 DEF IInv
<1>14. CASE SyncError
  <2>1. TypeOK'
    BY <1>14 DEF SyncError
  <2>2. JobInv'
    BY <1>14 DEF SyncError
  <2>3. CloseInv'
    BY <1>14 DEF SyncError
  <2>4. MainInv'
    BY <1>14 DEF SyncError
  <2>5. StateInv'
    BY <1>14 DEF SyncError
  <2>6. ~aborted'
    BY <1>14 DEF SyncError
  <2>7. BytesInv'
    BY <1>14 DEF SyncError, BytesInv, Conservation
  <2> QED
    BY <2>1, <2>2, <2>3, <2>4, <2>5, <2>6, <2>7 DEF IInv
<1>15. CASE Collect
  <2>1. TypeOK'
    BY <1>15 DEF Collect
  <2>2. JobInv'
    BY <1>15 DEF Collect
  <2>3. CloseInv'
    BY <1>15 DEF Collect
  <2>4. MainInv'
    BY <1>15 DEF Collect
  <2>5. StateInv'
    BY <1>15 DEF Collect
  <2>6. ~aborted'
    BY <1>15 DEF Collect
  <2>7. BytesInv'
    BY <1>15 DEF Collect, BytesInv, Conservation
  <2> QED
    BY <2>1, <2>2, <2>3, <2>4, <2>5, <2>6, <2>7 DEF IInv
<1>16. CASE UNCHANGED vars
  <2>1. TypeOK' /\ JobInv' /\ CloseInv' /\ MainInv' /\ StateInv' /\ ~aborted'
    BY <1>16 DEF vars
  <2>2. BytesInv'
    BY <1>16 DEF vars, BytesInv, Conservation
  <2> QED
    BY <2>1, <2>2
<1> QED
  BY <1>1, <1>2, <1>3, <1>4, <1>5, <1>6, <1>7, <1>8, <1>9, <1>10, <1>11,
     <1>12, <1>13, <1>14, <1>15, <1>16 DEF Next, Client, Pool, After

\* The invariant holds throughout (asserts and members of src/src/vcdiff.cc).
THEOREM Invariance ==
    ASSUME Retained = TRUE
    PROVE  Spec => []IInv
<1>1. IInv /\ [Next]_vars => IInv'
  BY NextInv
<1> QED
  BY <1>1, InitInv, PTL DEF Spec

-----------------------------------------------------------------------------
(* The safety properties                                                   *)

\* Every variable keeps its type.
THEOREM TypeCorrect ==
    ASSUME Retained = TRUE
    PROVE  Spec => []TypeOK
<1>1. IInv => TypeOK
  BY DEF IInv
<1> QED
  BY <1>1, Invariance, PTL

\* No assert of Write, Process, AfterShim or _processChunk ever fails, and no
\* step uses a destroyed VcdCtx, as long as the engine stays referenced
\* (src/src/vcdiff.cc:104-131, 147-178, 228-249).
THEOREM NeverAborts ==
    ASSUME Retained = TRUE
    PROVE  Spec => []NoAbort
<1>1. IInv => NoAbort
  BY DEF IInv, NoAbort
<1> QED
  BY <1>1, Invariance, PTL

\* The coder and the input buffer a pool thread uses are there until it is
\* done with them, whenever the application closes (src/src/vcdiff.cc:36-42).
THEOREM PoolInputsSafe ==
    ASSUME Retained = TRUE
    PROVE  Spec => []PoolInputsOutliveJob
<1>1. IInv => PoolInputsOutliveJob
  BY DEF IInv, JobInv, PoolInputsOutliveJob, InPool
<1> QED
  BY <1>1, Invariance, PTL

\* No byte is lost, doubled or moved between write() and callback, however the
\* input is split and whatever the coder keeps (src/src/vcdiff.cc:133-178).
THEOREM BytesConserved ==
    ASSUME Retained = TRUE
    PROVE  Spec => []Conservation
<1>1. IInv => Conservation
  BY DEF IInv, BytesInv
<1> QED
  BY <1>1, Invariance, PTL

\* Under IInv, a stream that is over holds no byte back.
LEMMA DoneHoldsNothing ==
    ASSUME IInv, state = "DONE", ~HasError
    PROVE  accepted = delivered \o output_buffer
<1>1. unparsed = <<>> /\ data = <<>> /\ Conservation
  BY DEF IInv, StateInv, BytesInv
<1>2. delivered \in Seq(Nat) /\ output_buffer \in Seq(Nat)
  BY DEF IInv, TypeOK
<1>3. delivered \o output_buffer \in Seq(Nat)
  BY <1>2, ConcatBytes
<1> QED
  BY <1>1, <1>3, ConcatBytes DEF Conservation

\* finished = true is only said once everything written was delivered
\* (src/src/vcdiff.cc:138).
THEOREM FinishedSafe ==
    ASSUME Retained = TRUE
    PROVE  Spec => []FinishedMeansDelivered
<1>1. IInv => FinishedMeansDelivered
  <2> SUFFICES ASSUME IInv, finished PROVE delivered = accepted
    BY DEF FinishedMeansDelivered
  <2>1. state = "DONE" /\ ~HasError /\ output_buffer = <<>>
    BY DEF IInv, BytesInv
  <2>2. delivered \in Seq(Nat)
    BY DEF IInv, TypeOK
  <2> QED
    BY <2>1, <2>2, DoneHoldsNothing, ConcatBytes
<1> QED
  BY <1>1, Invariance, PTL

\* Process and Finish only reach a coder whose session is open, so the result
\* of FinishEncodingToInterface that VcdEncoder::Finish drops is a success
\* (src/src/vcd_encoder.cc:36-39, src/src/vcdiff.cc:147-178).
THEOREM SessionSafe ==
    ASSUME Retained = TRUE
    PROVE  Spec => []SessionOpen
<1>1. IInv => SessionOpen
  BY DEF IInv, StateInv
<1> QED
  BY <1>1, Invariance, PTL

\* Nothing is delivered after onerror: no answer comes after it and no write is
\* made (src/src/vcdiff.cc:188-201, src/lib/vcdiff.js:192-202).
THEOREM ErrorIsFinal ==
    ASSUME Retained = TRUE
    PROVE  Spec => SilentAfterError
<1>1. IInv /\ [Next]_vars => [hadError => UNCHANGED delivered]_vars
  <2> SUFFICES ASSUME IInv, Next, hadError PROVE UNCHANGED delivered
    OBVIOUS
  <2>1. job = "none" /\ main # "callback"
    BY DEF IInv, StateInv, MainInv
  <2> QED
    BY <2>1 DEF Next, Client, Pool, After, ClientWrite, ClientWriteSync,
       ClientClose, ClientMayRun, PoolStart, PoolProcess, PoolProcessError,
       PoolFinish, PoolReturn, AfterOk, AfterOkReturn, AfterError,
       AfterErrorReturn, SyncReturn, SyncError, Collect, PoolUnchanged,
       streamVars
<1> QED
  BY <1>1, Invariance, PTL DEF Spec, SilentAfterError

-----------------------------------------------------------------------------
(* The engine implements the FIFO pipe                                     *)

\* Prefixes, in the words of the abstract specification.
LEMMA PipePrefix ==
    /\ \A s, t \in Seq(Nat) : Pipe!IsPrefix(s, s \o t)
    /\ \A s \in Seq(Nat) : Pipe!IsPrefix(s, s)
<1>1. \A s, t : Pipe!IsPrefix(s, t) <=> IsPrefix(s, t)
  BY DEF IsPrefix, Pipe!IsPrefix
<1>2. \A s, t \in Seq(Nat) : Pipe!IsPrefix(s, s \o t)
  BY <1>1, PrefixConcat
<1>3. \A s \in Seq(Nat) : s \o <<>> = s /\ <<>> \in Seq(Nat)
  BY ConcatBytes
<1> QED
  BY <1>2, <1>3

LEMMA PipeInit == Init => Pipe!Init
  BY DEF Init, Pipe!Init, PipeStatus

\* A step that changes none of the five variables the mapping reads stutters.
LEMMA PipeStutter ==
    ASSUME UNCHANGED <<accepted, delivered, coder, hadError, finished>>
    PROVE  UNCHANGED Pipe!vars
  BY DEF Pipe!vars, PipeStatus

\* Every step of the engine is a step of the pipe or leaves it unchanged.
LEMMA PipeNext ==
    ASSUME Retained = TRUE, IInv, [Next]_vars
    PROVE  [Pipe!Next]_Pipe!vars
<1> USE DEF Pipe!Next, Pipe!vars, PipeStatus
<1>t. TypeOK' /\ TypeOK
  BY NextInv DEF IInv
<1>1. ASSUME NEW n \in 0 .. MaxChunk, NEW last, NEW async,
             Write(Chunk(n), last, async), ended => n = 0,
             coder, ~hadError
      PROVE  [Pipe!Next]_Pipe!vars
  <2>1. n \in Nat
    BY ConstantsAssumption DEF ConstantsAssumption
  <2>2. Chunk(n) \in Seq(Nat) /\ (n = 0 => Chunk(n) = <<>>)
    BY <2>1, <1>t, ChunkIsSeq DEF TypeOK
  <2>3. accepted' = accepted \o Chunk(n)
        /\ UNCHANGED <<coder, hadError, finished, delivered>>
    BY <1>1 DEF Write
  <2>4. CASE finished
    <3>1. ended
      BY <2>4 DEF IInv, BytesInv, StateInv
    <3>2. accepted' = accepted
      BY <3>1, <1>1, <2>2, <2>3, <1>t, ConcatBytes DEF TypeOK
    <3> QED
      BY <3>2, <2>3, PipeStutter
  <2>5. CASE ~finished
    <3>1. Pipe!IsPrefix(accepted, accepted')
      BY <2>2, <2>3, <1>t, PipePrefix DEF TypeOK
    <3>2. Pipe!Accept
      BY <1>1, <2>3, <2>5, <3>1, <1>t DEF Pipe!Accept, TypeOK
    <3> QED
      BY <3>2
  <2> QED
    BY <2>4, <2>5
<1>2. CASE ClientWrite
  <2>1. coder /\ ~hadError
    BY <1>2 DEF ClientWrite, ClientMayRun, IInv, CloseInv
  <2> QED
    BY <1>1, <1>2, <2>1 DEF ClientWrite
<1>3. CASE ClientWriteSync
  <2>1. coder /\ ~hadError
    BY <1>3 DEF ClientWriteSync, ClientMayRun, IInv, CloseInv
  <2>2. ~ended
    BY <1>3 DEF ClientWriteSync, IInv, StateInv, JobInv
  <2> QED
    BY <1>1, <1>3, <2>1, <2>2 DEF ClientWriteSync
\* Closing, now or later, and garbage collection.
<1>4. ASSUME UNCHANGED <<accepted, delivered, hadError, finished>>,
             coder' = FALSE \/ coder' = coder
      PROVE  [Pipe!Next]_Pipe!vars
  <2>1. CASE coder' = FALSE
    BY <1>4, <2>1 DEF Pipe!Release
  <2>2. CASE coder' = coder
    BY <1>4, <2>2, PipeStutter
  <2> QED
    BY <1>4, <2>1, <2>2
<1>5. CASE ClientClose \/ AfterOkReturn \/ AfterErrorReturn \/ Collect
  BY <1>4, <1>5 DEF ClientClose, AfterOkReturn, AfterErrorReturn, Collect,
     Close, Reset, CloseIfPending, clientVars, streamVars
<1>6. CASE Pool
  <2>1. UNCHANGED <<accepted, delivered, coder, hadError, finished>>
    BY <1>6 DEF Pool, PoolStart, PoolProcess, PoolProcessError, PoolFinish,
       PoolReturn, PoolUnchanged, clientVars, streamVars
  <2> QED
    BY <2>1, PipeStutter
\* An error with its engine still there.
<1>7. ASSUME UNCHANGED <<accepted, delivered, coder, finished>>, hadError',
             HasError, job # "none"
      PROVE  [Pipe!Next]_Pipe!vars
  <2>1. coder /\ ~hadError /\ ~finished
    BY <1>7 DEF IInv, JobInv, BytesInv
  <2> QED
    BY <1>7, <2>1 DEF Pipe!Fail
<1>8. CASE AfterError
  BY <1>7, <1>8 DEF AfterError, memberVars, streamVars
<1>9. CASE SyncError
  <2>1. ~pending_close
    BY <1>9 DEF SyncError, IInv, MainInv
  <2> QED
    BY <1>7, <1>9, <2>1 DEF SyncError, CloseIfPending, streamVars
\* The output of a write, with or without the end of the stream.
<1>10. ASSUME FinishWrite, accepted' = accepted, UNCHANGED hadError,
              coder' = coder \/ (coder' = FALSE /\ state = "DONE"),
              ~HasError, job = "done"
       PROVE  [Pipe!Next]_Pipe!vars
  <2>1. coder /\ ~hadError
    BY <1>10 DEF IInv, JobInv
  <2>2. delivered' = delivered \o output_buffer /\ finished' = (state = "DONE")
    BY <1>10 DEF FinishWrite, GetOutputBuffer
  <2>3. CASE finished
    <3>1. output_buffer = <<>> /\ state = "DONE"
      BY <2>3 DEF IInv, BytesInv
    <3>2. delivered' = delivered /\ finished'
      BY <2>2, <3>1, <1>t, ConcatBytes DEF TypeOK
    <3> QED
      BY <1>10, <2>1, <2>3, <3>2 DEF Pipe!Release
  <2>4. CASE ~finished /\ state = "DONE"
    <3>1. delivered' = accepted
      BY <1>10, <2>2, <2>4, DoneHoldsNothing
    <3> QED
      BY <1>10, <2>1, <2>2, <2>4, <3>1 DEF Pipe!Finish
  <2>5. CASE ~finished /\ state # "DONE"
    <3>1. coder' = coder /\ ~finished'
      BY <1>10, <2>2, <2>5
    <3>2. accepted = delivered' \o unparsed
      <4>1. data = <<>> /\ Conservation
        BY <1>10 DEF IInv, BytesInv
      <4>2. delivered \o output_buffer \o unparsed \in Seq(Nat)
        BY <1>t, ConcatBytes DEF TypeOK
      <4> QED
        BY <1>10, <2>2, <4>1, <4>2, ConcatBytes DEF Conservation
    <3>3. Pipe!IsPrefix(delivered, delivered')
      BY <2>2, <1>t, PipePrefix DEF TypeOK
    <3>4. Pipe!IsPrefix(delivered', accepted)
      BY <3>2, <1>t, PipePrefix DEF TypeOK
    <3>5. Pipe!Deliver
      BY <1>10, <2>1, <2>5, <3>1, <3>3, <3>4, <1>t DEF Pipe!Deliver, TypeOK
    <3> QED
      BY <3>5
  <2> QED
    BY <2>3, <2>4, <2>5
<1>11. CASE AfterOk
  BY <1>10, <1>11 DEF AfterOk
<1>12. CASE SyncReturn
  <2>1. state = "DONE"
    BY <1>12 DEF SyncReturn, IInv, TypeOK, State, JobInv, MainInv, StateInv,
       InPool
  <2> QED
    BY <1>10, <1>12, <2>1 DEF SyncReturn, Reset
<1>13. CASE UNCHANGED vars
  BY <1>13, PipeStutter DEF vars, memberVars, clientVars, streamVars
<1> QED
  BY <1>2, <1>3, <1>5, <1>6, <1>8, <1>9, <1>11, <1>12, <1>13
     DEF Next, Client, After

\* The engine, as long as it stays referenced while a write is in flight, is a
\* reliable FIFO pipe: VcdCtx implements VcdPipe.
THEOREM Refinement ==
    ASSUME Retained = TRUE
    PROVE  Spec => ImplementsPipe
<1>1. IInv /\ [Next]_vars => [Pipe!Next]_Pipe!vars
  BY PipeNext
<1> QED
  BY <1>1, PipeInit, Invariance, PTL DEF Spec, ImplementsPipe, Pipe!Spec
=============================================================================
