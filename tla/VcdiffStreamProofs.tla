------------------------- MODULE VcdiffStreamProofs -------------------------
(***************************************************************************)
(* The stream of lib/vcdiff.js keeps the contract of the engine, and what  *)
(* it promises to its user, for buffers, windows, queues and high-water    *)
(* marks of any size.                                                      *)
(*                                                                         *)
(* Assumed: the program keeps the stream, and with it the engine, until    *)
(* its writes are answered (Retained; VcdOneShotProofs does without it),   *)
(* and the bound on chunks of the engine leaves the stream free to send    *)
(* all it may keep.                                                        *)
(***************************************************************************)
EXTENDS VcdQueueProofs

Positions(n) == [i \in 1 .. n |-> i]

-----------------------------------------------------------------------------
(* Bytes                                                                   *)

\* The stream 1, 2, ..., n is a sequence of n bytes.
LEMMA PositionsType ==
    \A n \in Nat : Positions(n) \in Seq(Nat) /\ Len(Positions(n)) = n
<1> SUFFICES ASSUME NEW n \in Nat
             PROVE  Positions(n) \in Seq(Nat) /\ Len(Positions(n)) = n
  OBVIOUS
<1>1. \A i \in 1 .. n : i \in Nat
  OBVIOUS
<1>2. Positions(n) \in Seq(Nat)
  BY <1>1, IsASeq DEF Positions
<1>3. DOMAIN Positions(n) = 1 .. n /\ DOMAIN Positions(n) = 1 .. Len(Positions(n))
      /\ Len(Positions(n)) \in Nat
  BY <1>2, LenProperties DEF Positions
<1> QED
  BY <1>2, <1>3

\* The library's facts about the bytes of a concatenation.
LEMMA ConcatLen ==
    \A s, t \in Seq(Nat) :
        /\ s \o t \in Seq(Nat)
        /\ Len(s) \in Nat /\ Len(t) \in Nat
        /\ Len(s \o t) = Len(s) + Len(t)
        /\ \A i \in 1 .. Len(s) + Len(t) :
              (s \o t)[i] = IF i <= Len(s) THEN s[i] ELSE t[i - Len(s)]
  BY ConcatProperties, LenProperties

\* What follows the bytes of the engine is the next chunk it may be given.
LEMMA NextChunk ==
    ASSUME accepted \in Seq(Nat), NEW all \in Seq(Nat), NEW rest \in Seq(Nat),
           NEW w \in Nat, (accepted \o all) \o rest = Positions(w)
    PROVE  /\ Len(accepted) + Len(all) + Len(rest) = w
           /\ all = Chunk(Len(all))
<1>1. /\ Len(accepted) \in Nat /\ Len(all) \in Nat /\ Len(rest) \in Nat
      /\ accepted \o all \in Seq(Nat)
      /\ Len(accepted \o all) = Len(accepted) + Len(all)
      /\ \A i \in 1 .. Len(accepted) + Len(all) :
            (accepted \o all)[i] = IF i <= Len(accepted) THEN accepted[i]
                                   ELSE all[i - Len(accepted)]
  BY ConcatLen
<1>2. /\ Len((accepted \o all) \o rest) = Len(accepted) + Len(all) + Len(rest)
      /\ \A i \in 1 .. Len(accepted) + Len(all) + Len(rest) :
            ((accepted \o all) \o rest)[i] =
               IF i <= Len(accepted) + Len(all) THEN (accepted \o all)[i]
               ELSE rest[i - (Len(accepted) + Len(all))]
  <2> DEFINE front == accepted \o all
  <2>1. front \in Seq(Nat) /\ Len(front) = Len(accepted) + Len(all)
    BY <1>1
  <2> HIDE DEF front
  <2>2. /\ Len(front \o rest) = Len(front) + Len(rest)
        /\ \A i \in 1 .. Len(front) + Len(rest) :
              (front \o rest)[i] = IF i <= Len(front) THEN front[i]
                                   ELSE rest[i - Len(front)]
    BY <2>1, ConcatLen
  <2> QED
    BY <2>1, <2>2 DEF front
<1>3. Len(accepted) + Len(all) + Len(rest) = w
  BY <1>2, PositionsType
<1>4. ASSUME NEW i \in 1 .. Len(all) PROVE all[i] = Len(accepted) + i
  <2>1. Len(accepted) + i \in 1 .. Len(accepted) + Len(all)
        /\ Len(accepted) + i \in 1 .. w /\ ~(Len(accepted) + i <= Len(accepted))
        /\ (Len(accepted) + i) - Len(accepted) = i
    BY <1>1, <1>3
  <2>2. (accepted \o all)[Len(accepted) + i] = all[i]
    BY <1>1, <2>1
  <2>3. ((accepted \o all) \o rest)[Len(accepted) + i] = (accepted \o all)[Len(accepted) + i]
    BY <1>1, <1>2, <2>1
  <2>4. Positions(w)[Len(accepted) + i] = Len(accepted) + i
    BY <2>1 DEF Positions
  <2> QED
    BY <2>2, <2>3, <2>4
<1>5. DOMAIN all = 1 .. Len(all) /\ all = [i \in DOMAIN all |-> all[i]]
  BY LenProperties
<1>6. all = [i \in 1 .. Len(all) |-> Len(accepted) + i]
  BY <1>4, <1>5
<1> QED
  BY <1>3, <1>6 DEF Chunk

\* A sequence of bytes is empty exactly when its length is 0.
LEMMA EmptyIffLen == \A s \in Seq(Nat) : Len(s) \in Nat /\ (Len(s) = 0 <=> s = <<>>)
  BY EmptySeq, LenProperties

-----------------------------------------------------------------------------
(* Starting a transform                                                    *)

\* What a step of the stream leaves alone in the engine.
EngineFrame ==
    /\ main' = main /\ closed' = closed /\ hadError' = hadError
    /\ collected' = collected

\* A chunk was sent with what was kept, with these bytes behind it, ...
Sent(chunk, rest, ending, flag, whenSent) ==
    /\ writing' = whenSent /\ awaiting' = TRUE
    /\ buffers' = <<>>
    /\ accepted' = (accepted \o buffers) \o chunk
    /\ ended' = (ending /\ rest = <<>>)
    /\ forceFlush' = (flag /\ rest # <<>>)

\* ... or kept.
Kept(chunk, flag, isBuffer) ==
    /\ writing' = "tick"
    /\ buffers' = buffers \o chunk
    /\ UNCHANGED vars
    /\ ~flag /\ forceFlush' = FALSE
    /\ isBuffer => chunk # <<>>

\* _transform on an engine that is free and open makes one legal write, or keeps
\* the chunk; either way nothing else of the engine changes.
LEMMA TransformStep ==
    ASSUME MaxAccepted <= MaxChunk,
           IInv, JsTypeOK, ControlInv, ~aborted, ~closed, ~awaiting,
           NEW w \in Nat, w <= MaxAccepted,
           NEW chunk \in Seq(Nat), NEW rest \in Seq(Nat), NEW length,
           ((accepted \o buffers) \o chunk) \o rest = Positions(w),
           length = Len(chunk) + Len(rest),
           NEW flag \in BOOLEAN, NEW ending \in BOOLEAN, NEW isBuffer \in BOOLEAN,
           NEW whenSent,
           ended => buffers = <<>> /\ chunk = <<>> /\ rest = <<>> /\ ending,
           TransformChunk(chunk, length, flag, ending, isBuffer, whenSent)
    PROVE  /\ [Next]_vars
           /\ EngineFrame
           /\ \/ Sent(chunk, rest, ending, flag, whenSent)
              \/ Kept(chunk, flag, isBuffer)
<1> DEFINE all == buffers \o chunk
           last == ending /\ length = Len(chunk)
           force == flag \/ (isBuffer /\ chunk = <<>>)
<1>1. /\ accepted \in Seq(Nat) /\ buffers \in Seq(Nat) /\ all \in Seq(Nat)
      /\ accepted \o all = (accepted \o buffers) \o chunk
      /\ Len(accepted) \in Nat
  <2>1. accepted \in Seq(Nat) /\ buffers \in Seq(Nat)
    BY DEF IInv, TypeOK, JsTypeOK
  <2> QED
    BY <2>1, ConcatBytes, AssocBytes, LenProperties
<1>2. /\ Len(chunk) \in Nat /\ Len(rest) \in Nat
      /\ Len(rest) = 0 <=> rest = <<>> 
      /\ Len(all) \in Nat /\ (Len(all) = 0 <=> all = <<>>)
  BY <1>1, EmptyIffLen
<1>3. last = (ending /\ rest = <<>>) /\ (Len(chunk) < length <=> rest # <<>>)
  BY <1>2
<1>4. Len(accepted) + Len(all) + Len(rest) = w /\ all = Chunk(Len(all))
  <2> HIDE DEF all
  <2> QED
    BY <1>1, NextChunk
<1>5. forceFlush' = (flag /\ rest # <<>>)
  BY <1>3 DEF TransformChunk
<1>6. CASE Write(all, last, TRUE) /\ buffers' = <<>> /\ writing' = whenSent
           /\ UNCHANGED mode
  <2>1. ClientMayRun
    <3>1. main \in {"loop", "sync", "callback", "onerror"}
          /\ (main = "onerror" => hadError)
      BY DEF IInv, TypeOK, MainInv
    <3> QED
      BY <3>1 DEF ControlInv, ClientMayRun
  <2>2. ended => Len(all) = 0 /\ last
    <3>1. ended => all = <<>>
      BY ConcatBytes
    <3> QED
      BY <1>2, <1>3, <3>1
  <2>3. Len(all) \in 0 .. MaxChunk /\ Len(accepted) + Len(all) <= MaxAccepted
    BY <1>1, <1>2, <1>4, ConstantsAssumption
  <2>4. last \in BOOLEAN
    OBVIOUS
  <2>5. Write(Chunk(Len(all)), last, TRUE)
    BY <1>4, <1>6
  <2> HIDE DEF all, last
  <2>6. ClientWrite
    BY <2>1, <2>2, <2>3, <2>4, <2>5 DEF ClientWrite
  <2>7. Next
    BY <2>6, <1>6 DEF Next, Client
  <2>8. EngineFrame /\ awaiting' = TRUE /\ ended' = last /\ accepted' = accepted \o all
    BY <1>6 DEF Write, EngineFrame
  <2>9. Sent(chunk, rest, ending, flag, whenSent)
    BY <1>1, <1>3, <1>5, <1>6, <2>8 DEF Sent
  <2> QED
    BY <2>7, <2>8, <2>9
<1>7. CASE buffers' = all /\ writing' = "tick" /\ UNCHANGED vars /\ ~force
  <2>1. EngineFrame
    BY <1>7 DEF vars, clientVars, EngineFrame
  <2>2. Kept(chunk, flag, isBuffer)
    BY <1>5, <1>7 DEF Kept
  <2> QED
    BY <1>7, <2>1, <2>2
<1> QED
  BY <1>6, <1>7 DEF TransformChunk, ProcessChunk

-----------------------------------------------------------------------------
(* What starts a queued or a new write                                     *)

\* doWrite holds the transform, fails it, or sends or keeps its bytes.
Outcome(req, behind, left, flag) ==
    \/ /\ writing' = "held" /\ request' = req /\ queue' = behind
       /\ forceFlush' = flag
       /\ UNCHANGED <<vars, buffers, failed>>
    \/ /\ closed
       /\ writing' = "no" /\ request' = NoRequest /\ queue' = left
       /\ forceFlush' = flag /\ failed' = TRUE
       /\ UNCHANGED <<vars, buffers>>
    \/ /\ ~failed /\ failed' = FALSE
       /\ request' = req /\ queue' = behind
       /\ EngineFrame
       /\ \/ Sent(req.bytes, BytesOf(behind), ws.ending, flag, "binding")
          \/ Kept(req.bytes, flag, TRUE)

\* The requests req and, behind it, behind are what comes after the bytes that
\* are kept, n bytes having been written, ...
InLine(req, behind, n) ==
    /\ req \in Request /\ behind \in Seq(Request)
    /\ n \in Nat /\ n <= MaxAccepted
    /\ ~failed => ((accepted \o buffers) \o req.bytes) \o BytesOf(behind)
                    = Positions(n)
    /\ ended /\ ~failed => req.bytes = <<>> /\ BytesOf(behind) = <<>>

\* ... and their flushes are in their places.
FlushesInLine(req, behind, n) ==
    /\ req.flushAt <= n /\ (req.flushAt # NoFlush => req.bytes = <<>>)
    /\ \A k \in 1 .. Len(behind) :
          behind[k].flushAt <= n /\ (behind[k].flushAt # NoFlush => behind[k].bytes = <<>>)
    /\ ~failed => \A k \in 1 .. Len(behind) :
                      /\ \A j \in 1 .. k - 1 : LaterThan(behind[k], behind[j].flushAt)
                      /\ LaterThan(behind[k], req.flushAt)

\* A transform that is started does the one or the other.
LEMMA StartStep ==
    ASSUME MaxAccepted <= MaxChunk,
           IInv, JsTypeOK, ControlInv, EndInv, ~aborted, ~awaiting,
           NEW req, NEW behind, NEW n, InLine(req, behind, n),
           NEW left, NEW flag \in BOOLEAN,
           ~closed, request' = req, queue' = behind, failed' = failed,
           TransformChunk(req.bytes, LengthWith(req, behind), flag, ws.ending,
                          TRUE, "binding")
    PROVE  [Next]_vars /\ Outcome(req, behind, left, flag)
<1>1. ~failed /\ failed' = FALSE
  BY DEF ControlInv, JsTypeOK
<1>2. req.bytes \in Seq(Nat) /\ BytesOf(behind) \in Seq(Nat)
  BY BytesOfType DEF InLine, Request
<1>3. LengthWith(req, behind) = Len(req.bytes) + Len(BytesOf(behind))
  BY DEF LengthWith
<1>4. ended => /\ buffers = <<>> /\ req.bytes = <<>> /\ BytesOf(behind) = <<>>
               /\ ws.ending
  BY <1>1 DEF EndInv, InLine
<1>5. ws.ending \in BOOLEAN
  BY DEF JsTypeOK
<1>6. n \in Nat /\ n <= MaxAccepted
      /\ ((accepted \o buffers) \o req.bytes) \o BytesOf(behind) = Positions(n)
  BY <1>1 DEF InLine
<1>7. /\ [Next]_vars
      /\ EngineFrame
      /\ \/ Sent(req.bytes, BytesOf(behind), ws.ending, flag, "binding")
         \/ Kept(req.bytes, flag, TRUE)
  <2> DEFINE chunk == req.bytes
             rest == BytesOf(behind)
             length == LengthWith(req, behind)
             ending == ws.ending
  <2>1. /\ chunk \in Seq(Nat) /\ rest \in Seq(Nat) /\ length = Len(chunk) + Len(rest)
        /\ ((accepted \o buffers) \o chunk) \o rest = Positions(n)
        /\ ending \in BOOLEAN /\ TRUE \in BOOLEAN
        /\ ended => buffers = <<>> /\ chunk = <<>> /\ rest = <<>> /\ ending
        /\ TransformChunk(chunk, length, flag, ending, TRUE, "binding")
    BY <1>2, <1>3, <1>4, <1>5, <1>6
  <2> HIDE DEF chunk, rest, length, ending
  <2>2. /\ [Next]_vars
        /\ EngineFrame
        /\ \/ Sent(chunk, rest, ending, flag, "binding")
           \/ Kept(chunk, flag, TRUE)
    BY <1>6, <2>1, TransformStep
  <2> QED
    BY <2>2 DEF chunk, rest, ending
<1> QED
  BY <1>1, <1>7 DEF Outcome

\* doWrite has no outcome but those.
LEMMA StartWriteStep ==
    ASSUME MaxAccepted <= MaxChunk,
           IInv, JsTypeOK, ControlInv, EndInv, ~aborted, ~awaiting,
           NEW req, NEW behind, NEW left, NEW n, InLine(req, behind, n),
           NEW flag \in BOOLEAN,
           StartWrite(req, behind, left, flag)
    PROVE  [Next]_vars /\ Outcome(req, behind, left, flag)
<1>1. CASE UNCHANGED <<vars, buffers>>
  BY <1>1, StartStep DEF StartWrite, Outcome
<1>2. CASE /\ ~closed
           /\ request' = req /\ queue' = behind
           /\ TransformChunk(req.bytes, LengthWith(req, behind), flag, ws.ending,
                             TRUE, "binding")
           /\ UNCHANGED failed
  BY <1>2, StartStep
<1> QED
  BY <1>1, <1>2 DEF StartWrite

-----------------------------------------------------------------------------
(* The invariant after a write was started                                 *)

\* What the step does besides.
Beside(n) ==
    /\ js' # "data"
    /\ ~ws.prefinished
    /\ ws'.ending = ws.ending /\ ws'.ended = ws.ended /\ ~ws'.prefinished
    /\ rsEnded' = rsEnded
    /\ written' = n /\ written <= n

\* Every outcome assigns values of the right type, ...
LEMMA OutcomeType ==
    ASSUME JsTypeOK, NEW req \in Request, NEW behind \in Seq(Request),
           NEW left \in Seq(Request), NEW flag \in BOOLEAN,
           Outcome(req, behind, left, flag)
    PROVE  /\ buffers' \in Seq(Nat) /\ forceFlush' \in BOOLEAN
           /\ writing' \in {"no", "held", "tick", "binding"}
           /\ request' \in Request /\ queue' \in Seq(Request)
           /\ failed' \in BOOLEAN
<1>1. buffers \in Seq(Nat) /\ failed \in BOOLEAN
  BY DEF JsTypeOK
<1>2. req.bytes \in Seq(Nat) /\ buffers \o req.bytes \in Seq(Nat) /\ <<>> \in Seq(Nat)
  BY <1>1, ConcatBytes DEF Request
<1>3. NoRequest \in Request
  BY ConcatBytes DEF NoRequest, Request, NoFlush
<1>4. CASE buffers' = buffers
  BY <1>1, <1>3, <1>4 DEF Outcome, Sent, Kept
<1>5. CASE Sent(req.bytes, BytesOf(behind), ws.ending, flag, "binding")
           /\ request' = req /\ queue' = behind /\ failed' = FALSE
  <2>1. forceFlush' \in BOOLEAN
    BY <1>5 DEF Sent
  <2> QED
    BY <1>2, <1>5, <2>1 DEF Sent
<1>6. CASE Kept(req.bytes, flag, TRUE) /\ request' = req /\ queue' = behind
           /\ failed' = FALSE /\ forceFlush' = FALSE
  BY <1>2, <1>6 DEF Kept
<1> QED
  BY <1>4, <1>5, <1>6 DEF Outcome, Kept

\* ... leaves the engine busy exactly when the transform is with it, ...
LEMMA OutcomeControl ==
    ASSUME ControlInv, IInv, ~awaiting, js' # "data",
           NEW req, NEW behind, NEW left, NEW flag,
           Outcome(req, behind, left, flag)
    PROVE  ControlInv'
<1>1. /\ main' = main /\ closed' = closed /\ hadError' = hadError
      /\ collected' = collected
  BY DEF Outcome, EngineFrame, vars, clientVars
<1>2. ~hadError /\ ~collected /\ main # "sync" /\ (failed => closed)
  BY DEF ControlInv
<1>3. failed' => closed
  BY <1>2 DEF Outcome
<1>4. \/ writing' = "binding" /\ awaiting' = TRUE
      \/ writing' \in {"no", "held", "tick"} /\ ~awaiting'
  BY DEF Outcome, Sent, Kept, vars, clientVars
<1> QED
  BY <1>1, <1>2, <1>3, <1>4 DEF ControlInv

\* ... moves bytes on without a change of their order, ...
LEMMA OutcomeOrder ==
    ASSUME JsTypeOK, IInv, NEW n, NEW req, NEW behind, NEW left, NEW flag,
           InLine(req, behind, n), Beside(n),
           Outcome(req, behind, left, flag)
    PROVE  OrderInv'
<1> DEFINE rest == BytesOf(behind)
<1>1. /\ accepted \in Seq(Nat) /\ buffers \in Seq(Nat) /\ req.bytes \in Seq(Nat)
      /\ rest \in Seq(Nat)
  BY BytesOfType DEF IInv, TypeOK, JsTypeOK, InLine, Request
<1>2. /\ <<>> \in Seq(Nat)
      /\ accepted \o buffers \in Seq(Nat)
      /\ (accepted \o buffers) \o req.bytes \in Seq(Nat)
      /\ ((accepted \o buffers) \o req.bytes) \o <<>> = (accepted \o buffers) \o req.bytes
      /\ (accepted \o buffers) \o req.bytes = accepted \o (buffers \o req.bytes)
  <2>1. <<>> \in Seq(Nat) /\ accepted \o buffers \in Seq(Nat)
    BY <1>1, ConcatBytes
  <2>2. /\ (accepted \o buffers) \o req.bytes \in Seq(Nat)
        /\ (accepted \o buffers) \o req.bytes = accepted \o (buffers \o req.bytes)
    <3>1. (accepted \o buffers) \o req.bytes \in Seq(Nat)
      BY <1>1, <2>1, ConcatBytes
    <3> QED
      BY <1>1, <3>1, AssocBytes
  <2> QED
    BY <2>1, <2>2, ConcatBytes
<1>3. ~failed => ((accepted \o buffers) \o req.bytes) \o rest = [i \in 1 .. n |-> i]
  BY DEF InLine, Positions
<1>4. written' <= MaxAccepted /\ written' = n
  BY DEF InLine, Beside
<1> HIDE DEF rest
<1>5. CASE writing' = "held" /\ request' = req /\ queue' = behind
           /\ UNCHANGED <<vars, buffers, failed>>
  <2>1. accepted' = accepted
    BY <1>5 DEF vars, streamVars
  <2>2. Held' = req.bytes
    BY <1>5 DEF Held
  <2>3. InOrder'
    BY <1>3, <1>4, <1>5, <2>1, <2>2 DEF InOrder, rest
  <2> QED
    BY <1>4, <1>5, <2>3 DEF OrderInv
<1>6. CASE failed'
  BY <1>4, <1>6 DEF OrderInv, InOrder
<1>7. CASE /\ ~failed /\ queue' = behind
           /\ Sent(req.bytes, BytesOf(behind), ws.ending, flag, "binding")
  <2>1. Held' = <<>>
    BY <1>7 DEF Held, Sent
  <2>2. ((accepted' \o buffers') \o Held') \o BytesOf(queue') = [i \in 1 .. n |-> i]
    BY <1>2, <1>3, <1>7, <2>1 DEF Sent, rest
  <2> QED
    BY <1>4, <1>7, <2>2 DEF OrderInv, InOrder, Sent
<1>8. CASE /\ ~failed /\ queue' = behind /\ Kept(req.bytes, flag, TRUE)
  <2>1. Held' = <<>> /\ accepted' = accepted
    BY <1>8 DEF Held, Kept, vars, streamVars
  <2>2. ((accepted' \o buffers') \o Held') \o BytesOf(queue') = [i \in 1 .. n |-> i]
    BY <1>2, <1>3, <1>8, <2>1 DEF Kept, rest
  <2> QED
    BY <1>4, <1>8, <2>2 DEF OrderInv, InOrder, Kept
<1> QED
  BY <1>5, <1>6, <1>7, <1>8 DEF Outcome

\* ... leaves nothing behind a last write, ...
LEMMA OutcomeEnd ==
    ASSUME EndInv, NEW n, NEW req, NEW behind, NEW left, NEW flag,
           InLine(req, behind, n), Beside(n),
           Outcome(req, behind, left, flag)
    PROVE  EndInv'
<1>1. /\ ws'.ending = ws'.ended /\ ~ws'.prefinished /\ ~rsEnded' /\ writing' # "final"
      /\ ws'.ended = ws.ending
  BY DEF EndInv, Beside, Outcome, Sent, Kept
<1>2. ended' => ws.ending
  BY DEF EndInv, Outcome, Sent, Kept, vars, clientVars
<1>3. ended' /\ ~failed' => buffers' = <<>> /\ Held' = <<>> /\ BytesOf(queue') = <<>>
  <2>1. CASE Outcome(req, behind, left, flag) /\ writing' = "held"
    BY <2>1 DEF EndInv, Outcome, Held, InLine, vars, clientVars, Sent, Kept
  <2>2. CASE /\ ~failed /\ queue' = behind
             /\ Sent(req.bytes, BytesOf(behind), ws.ending, flag, "binding")
    BY <2>2 DEF Held, Sent
  <2>3. CASE /\ ~failed /\ queue' = behind /\ Kept(req.bytes, flag, TRUE)
    BY <2>3 DEF Held, Kept, InLine, vars, clientVars
  <2> QED
    BY <2>1, <2>2, <2>3 DEF Outcome
<1> QED
  BY <1>1, <1>2, <1>3 DEF EndInv

\* ... takes the flag of flush() down with the last write that is queued, ...
LEMMA OutcomeForce ==
    ASSUME NEW req, NEW behind, NEW left, NEW flag,
           Outcome(req, behind, left, flag)
    PROVE  ForceInv'
BY NoBytes DEF ForceInv, Outcome, Sent, Kept

\* A flush that is sent finds everything it is to flush sent before it.
LEMMA FlushCovered ==
    ASSUME NEW req \in Request, NEW behind \in Seq(Request), NEW n \in Nat,
           NEW before \in Seq(Nat), before \o BytesOf(behind) = Positions(n),
           req.flushAt <= n,
           \A k \in 1 .. Len(behind) : LaterThan(behind[k], req.flushAt)
    PROVE  req.flushAt <= Len(before)
<1> DEFINE rest == BytesOf(behind)
<1>1. /\ rest \in Seq(Nat) /\ Len(before) \in Nat /\ Len(rest) \in Nat
      /\ Len(before \o rest) = Len(before) + Len(rest)
      /\ \A i \in 1 .. Len(before) + Len(rest) :
            (before \o rest)[i] = IF i <= Len(before) THEN before[i]
                                  ELSE rest[i - Len(before)]
  BY BytesOfType, ConcatLen
<1>2. Len(before) + Len(rest) = n
  BY <1>1, PositionsType
<1>3. req.flushAt \in Int
  BY DEF Request, NoFlush
<1>4. CASE Len(rest) = 0
  BY <1>1, <1>2, <1>4
<1>5. CASE Len(rest) > 0
  <2>1. /\ 1 \in 1 .. Len(rest) /\ Len(before) + 1 \in 1 .. Len(before) + Len(rest)
        /\ ~(Len(before) + 1 <= Len(before)) /\ (Len(before) + 1) - Len(before) = 1
        /\ Len(before) + 1 \in 1 .. n
    BY <1>1, <1>2, <1>5
  <2>2. (before \o rest)[Len(before) + 1] = rest[1]
    BY <1>1, <2>1
  <2>3. Positions(n)[Len(before) + 1] = Len(before) + 1
    BY <2>1 DEF Positions
  <2>4. rest[1] = Len(before) + 1
    BY <2>2, <2>3
  <2>5. PICK j \in 1 .. Len(behind) :
            \E k \in 1 .. Len(behind[j].bytes) : rest[1] = behind[j].bytes[k]
    BY <2>1, BytesOfMembers
  <2>6. rest[1] > req.flushAt
    BY <2>5 DEF LaterThan
  <2> QED
    BY <1>1, <1>3, <2>4, <2>6
<1> QED
  BY <1>1, <1>4, <1>5

\* ... and keeps every flush behind the bytes it flushes.
LEMMA OutcomeFlush ==
    ASSUME JsTypeOK, IInv, NEW n, NEW req, NEW behind,
           NEW left \in Seq(Request), NEW flag,
           InLine(req, behind, n), FlushesInLine(req, behind, n), Beside(n),
           left \in {behind, <<>>},
           FlushDelivers',
           \A k \in 1 .. Len(waiters') : waiters'[k] <= n,
           \A k \in 1 .. Len(draining') : draining'[k] <= n,
           Outcome(req, behind, left, flag)
    PROVE  FlushInv'
<1>n. n \in Nat /\ req \in Request /\ behind \in Seq(Request) /\ written' = n
  BY DEF InLine, Beside
<1>1. FlushRequestOK(request)'
  <2>1. NoRequest.flushAt = NoFlush /\ NoRequest.bytes = <<>>
    BY DEF NoRequest
  <2>2. CASE request' = NoRequest
    BY <1>n, <2>1, <2>2 DEF FlushRequestOK, NoFlush
  <2>3. CASE request' = req
    BY <1>n, <2>3 DEF FlushRequestOK, FlushesInLine
  <2> QED
    BY <2>2, <2>3 DEF Outcome
<1>2. \A k \in 1 .. Len(queue') : FlushRequestOK(queue[k])'
  <2>1. CASE queue' = behind
    BY <1>n, <2>1 DEF FlushRequestOK, FlushesInLine
  <2>2. CASE queue' = <<>>
    BY <2>2
  <2> QED
    BY <2>1, <2>2 DEF Outcome
<1>3. writing' = "tick" => request'.flushAt = NoFlush
  BY DEF Outcome, Sent, Kept, FlushesInLine
<1>4. writing' = "binding" => request'.flushAt <= Len(accepted')
  <2> SUFFICES ASSUME writing' = "binding" PROVE req.flushAt <= Len(accepted')
    BY DEF Outcome, Sent, Kept
  <2>1. /\ ~failed
        /\ accepted' = (accepted \o buffers) \o req.bytes
    BY DEF Outcome, Sent, Kept
  <2>2. accepted' \in Seq(Nat)
    <3>1. accepted \in Seq(Nat) /\ buffers \in Seq(Nat) /\ req.bytes \in Seq(Nat)
      BY <1>n DEF IInv, TypeOK, JsTypeOK, Request
    <3>2. accepted \o buffers \in Seq(Nat)
      BY <3>1, ConcatBytes
    <3> QED
      BY <2>1, <3>1, <3>2, ConcatBytes
  <2>3. accepted' \o BytesOf(behind) = Positions(n)
    BY <2>1 DEF InLine
  <2>4. /\ req.flushAt <= n
        /\ \A k \in 1 .. Len(behind) : LaterThan(behind[k], req.flushAt)
    BY <2>1 DEF FlushesInLine
  <2> QED
    BY <1>n, <2>2, <2>3, <2>4, FlushCovered
<1>5. ~failed' => \A k \in 1 .. Len(queue') :
                      /\ \A j \in 1 .. k - 1 : LaterThan(queue[k], queue[j].flushAt)'
                      /\ writing' = "held" => LaterThan(queue[k], request.flushAt)'
  <2> SUFFICES ASSUME ~failed'
               PROVE  \A k \in 1 .. Len(queue') :
                      /\ \A j \in 1 .. k - 1 : LaterThan(queue[k], queue[j].flushAt)'
                      /\ writing' = "held" => LaterThan(queue[k], request.flushAt)'
    OBVIOUS
  <2>1. ~failed /\ queue' = behind /\ request' = req
    <3>1. failed' # TRUE
      OBVIOUS
    <3> QED
      BY <3>1, Zenon DEF Outcome
  <2> QED
    BY <2>1 DEF FlushesInLine, LaterThan
<1> QED
  BY <1>n, <1>1, <1>2, <1>3, <1>4, <1>5 DEF FlushInv

-----------------------------------------------------------------------------
(* The operations that write                                               *)

\* What the invariant says of the JavaScript object.
JsInv == ControlInv /\ OrderInv /\ EndInv /\ ForceInv /\ FlushInv

\* The values an operation that starts or ends a transform assigns.
TransformTypeOK ==
    /\ buffers \in Seq(Nat) /\ forceFlush \in BOOLEAN
    /\ writing \in {"no", "held", "tick", "binding", "final"}
    /\ request \in Request /\ queue \in Seq(Request)
    /\ failed \in BOOLEAN
    /\ ws \in [ending : BOOLEAN, ended : BOOLEAN, needDrain : BOOLEAN,
               prefinished : BOOLEAN]

\* A request with the next bytes, or with none and a flush, is in its place
\* when nothing is in progress.
LEMMA AloneInLine ==
    ASSUME StreamInv, writing = "no",
           NEW req \in Request, NEW n \in Nat, n <= MaxAccepted, written <= n,
           Positions(written) \o req.bytes = Positions(n),
           ~ended, req.flushAt <= n, req.flushAt # NoFlush => req.bytes = <<>>
    PROVE  InLine(req, queue, n) /\ FlushesInLine(req, queue, n)
<1>1. /\ accepted \in Seq(Nat) /\ buffers \in Seq(Nat) /\ queue \in Seq(Request)
      /\ req.bytes \in Seq(Nat) /\ written \in Nat
  BY DEF StreamInv, IInv, TypeOK, JsTypeOK, Request
<1>2. ~failed => queue = <<>>
  BY DEF StreamInv, OrderInv
<1>3. ~failed => accepted \o buffers = Positions(written)
  <2> SUFFICES ASSUME ~failed PROVE accepted \o buffers = Positions(written)
    OBVIOUS
  <2>1. Held = <<>> /\ BytesOf(queue) = <<>>
    BY <1>2, NoBytes DEF Held
  <2>2. ((accepted \o buffers) \o Held) \o BytesOf(queue) = Positions(written)
    BY DEF StreamInv, OrderInv, InOrder, Positions
  <2>3. accepted \o buffers \in Seq(Nat)
    BY <1>1, ConcatBytes
  <2> QED
    BY <2>1, <2>2, <2>3, ConcatBytes
<1>4. ~failed => ((accepted \o buffers) \o req.bytes) \o BytesOf(queue) = Positions(n)
  <2> SUFFICES ASSUME ~failed
               PROVE  ((accepted \o buffers) \o req.bytes) \o BytesOf(queue)
                        = Positions(n)
    OBVIOUS
  <2>1. BytesOf(queue) = <<>>
    BY <1>2, NoBytes
  <2>2. Positions(n) \o <<>> = Positions(n)
    BY PositionsType, ConcatBytes
  <2> QED
    BY <1>3, <2>1, <2>2
<1>5. InLine(req, queue, n)
  BY <1>1, <1>4 DEF InLine
<1>6. \A k \in 1 .. Len(queue) :
         queue[k].flushAt <= n /\ (queue[k].flushAt # NoFlush => queue[k].bytes = <<>>)
  <2> SUFFICES ASSUME NEW k \in 1 .. Len(queue)
               PROVE  /\ queue[k].flushAt <= n
                      /\ queue[k].flushAt # NoFlush => queue[k].bytes = <<>>
    OBVIOUS
  <2>1. FlushRequestOK(queue[k])
    BY DEF StreamInv, FlushInv
  <2>2. queue[k] \in Request
    BY <1>1, ElementOfSeq
  <2>3. queue[k].flushAt \in Int
    BY <2>2 DEF Request, NoFlush
  <2> QED
    BY <1>1, <2>1, <2>3 DEF FlushRequestOK
<1>7. Len(<<>>) = 0
  BY EmptySeq
<1> QED
  BY <1>2, <1>5, <1>6, <1>7 DEF FlushesInLine

\* A request that finds nothing in progress starts at once.
LEMMA WriteNow ==
    ASSUME MaxAccepted <= MaxChunk, StreamInv, writing = "no", ~ws.ended,
           NEW req \in Request, NEW n \in Nat, n <= MaxAccepted, written <= n,
           Positions(written) \o req.bytes = Positions(n),
           req.flushAt <= n, req.flushAt # NoFlush => req.bytes = <<>>,
           NEW flag \in BOOLEAN,
           StartWrite(req, queue, queue, flag),
           ws'.ending = ws.ending, ws'.ended = ws.ended,
           ws'.prefinished = ws.prefinished,
           js' = js, rsEnded' = rsEnded, written' = n,
           earlyFlush' = earlyFlush, endedFlush' = endedFlush,
           \A k \in 1 .. Len(waiters') : waiters'[k] <= n,
           \A k \in 1 .. Len(draining') : draining'[k] <= n
    PROVE  [Next]_vars /\ JsInv' /\ Outcome(req, queue, queue, flag)
<1>1. IInv /\ JsTypeOK /\ ControlInv /\ EndInv
  BY DEF StreamInv
<1>2. ~aborted /\ ~awaiting /\ js # "data" /\ ~ended /\ ~ws.prefinished
  BY <1>1 DEF IInv, ControlInv, EndInv
<1>3. InLine(req, queue, n) /\ FlushesInLine(req, queue, n)
  BY <1>2, AloneInLine
<1>4. [Next]_vars /\ Outcome(req, queue, queue, flag)
  BY <1>1, <1>2, <1>3, StartWriteStep
<1>5. Beside(n)
  BY <1>2 DEF Beside
<1>6. queue \in Seq(Request) /\ FlushDelivers'
  BY DEF StreamInv, FlushInv, FlushDelivers, JsTypeOK
<1>7. ControlInv'
  BY <1>1, <1>2, <1>4, OutcomeControl
<1>8. OrderInv'
  BY <1>1, <1>3, <1>4, <1>5, OutcomeOrder
<1>9. EndInv'
  BY <1>1, <1>3, <1>4, <1>5, OutcomeEnd
<1>10. ForceInv'
  BY <1>4, OutcomeForce
<1>11. FlushInv'
  BY <1>1, <1>3, <1>4, <1>5, <1>6, OutcomeFlush
<1> QED
  BY <1>4, <1>7, <1>8, <1>9, <1>10, <1>11 DEF JsInv

\* A request that is queued behind another.
LEMMA WriteLater ==
    ASSUME StreamInv, writing # "no", ~ws.ended,
           NEW req \in Request, NEW n \in Nat, n <= MaxAccepted, written <= n,
           Positions(written) \o req.bytes = Positions(n), LaterThan(req, written),
           req.flushAt <= n, req.flushAt # NoFlush => req.bytes = <<>>,
           queue' = Append(queue, req),
           UNCHANGED <<vars, writing, request, buffers, failed>>,
           ws'.ending = ws.ending, ws'.ended = ws.ended,
           ws'.prefinished = ws.prefinished,
           js' = js, rsEnded' = rsEnded, written' = n,
           earlyFlush' = earlyFlush, endedFlush' = endedFlush,
           \A k \in 1 .. Len(waiters') : waiters'[k] <= n,
           \A k \in 1 .. Len(draining') : draining'[k] <= n
    PROVE  JsInv'
<1>1. /\ accepted \in Seq(Nat) /\ buffers \in Seq(Nat) /\ queue \in Seq(Request)
      /\ req.bytes \in Seq(Nat) /\ written \in Nat /\ request \in Request
      /\ req.flushAt \in Int
  BY DEF StreamInv, IInv, TypeOK, JsTypeOK, Request, NoFlush
<1>2. /\ main' = main /\ closed' = closed /\ hadError' = hadError
      /\ collected' = collected /\ awaiting' = awaiting /\ ended' = ended
      /\ accepted' = accepted
  BY DEF vars, clientVars, streamVars
<1>3. ~ended /\ ~ws.prefinished /\ writing # "final" /\ ~rsEnded
      /\ ws.ending = ws.ended
  BY DEF StreamInv, EndInv
<1>4. ControlInv'
  BY <1>2 DEF StreamInv, ControlInv
<1>5. OrderInv'
  <2>1. Held' = Held /\ Held \in Seq(Nat)
    BY <1>1, ConcatBytes DEF Held, Request
  <2>2. ASSUME ~failed
        PROVE  ((accepted \o buffers) \o Held) \o BytesOf(Append(queue, req))
                 = Positions(n)
    <3> DEFINE front == (accepted \o buffers) \o Held
               b == BytesOf(queue)
    <3>1. front \in Seq(Nat) /\ b \in Seq(Nat)
      BY <1>1, <2>1, ConcatBytes, BytesOfType
    <3>2. front \o b = Positions(written)
      BY <2>2 DEF StreamInv, OrderInv, InOrder, Positions
    <3>3. BytesOf(Append(queue, req)) = b \o req.bytes
      BY <1>1, BytesOfAppend
    <3> HIDE DEF front, b
    <3>4. (front \o b) \o req.bytes = front \o (b \o req.bytes)
      BY <1>1, <3>1, AssocBytes
    <3> QED
      BY <3>2, <3>3, <3>4 DEF front
  <2>3. InOrder'
    BY <1>2, <2>1, <2>2 DEF InOrder, Positions
  <2> QED
    BY <2>3 DEF OrderInv
<1>6. EndInv'
  BY <1>2, <1>3 DEF EndInv
<1>7. ForceInv'
  <2>1. queue' # <<>>
    BY <1>1, AppendProperties
  <2>2. writing \in {"held", "tick", "binding"}
    BY <1>3 DEF StreamInv, JsTypeOK
  <2> QED
    BY <2>1, <2>2 DEF ForceInv
<1>8. FlushInv'
  <2>1. /\ FlushDelivers' /\ FlushRequestOK(request)
        /\ \A k \in 1 .. Len(queue) : FlushRequestOK(queue[k])
        /\ writing = "tick" => request.flushAt = NoFlush
        /\ writing = "binding" => request.flushAt <= Len(accepted)
        /\ ~failed => \A k \in 1 .. Len(queue) :
                /\ \A j \in 1 .. k - 1 : LaterThan(queue[k], queue[j].flushAt)
                /\ writing = "held" => LaterThan(queue[k], request.flushAt)
    BY DEF StreamInv, FlushInv, FlushDelivers
  <2>2. /\ Len(queue) \in Nat /\ Len(queue') = Len(queue) + 1
        /\ \A k \in 1 .. Len(queue) : queue'[k] = queue[k] /\ queue[k] \in Request
        /\ queue'[Len(queue) + 1] = req
    BY <1>1, AppendProperties, LenProperties, ElementOfSeq
  <2>4. FlushRequestOK(request)'
    BY <1>1, <2>1 DEF FlushRequestOK, Request, NoFlush
  <2>5. \A k \in 1 .. Len(queue') : FlushRequestOK(queue[k])'
    <3> SUFFICES ASSUME NEW k \in 1 .. Len(queue') PROVE FlushRequestOK(queue[k])'
      OBVIOUS
    <3>1. CASE k \in 1 .. Len(queue)
      <4>1. queue'[k] = queue[k] /\ queue[k] \in Request /\ FlushRequestOK(queue[k])
        BY <2>1, <2>2, <3>1
      <4> QED
        BY <1>1, <4>1 DEF FlushRequestOK, Request, NoFlush
    <3>2. CASE k = Len(queue) + 1
      BY <2>2, <3>2 DEF FlushRequestOK
    <3> QED
      BY <2>2, <3>1, <3>2
  <2>6. ASSUME NEW at \in Int, at <= written PROVE LaterThan(req, at)
    <3>1. \A i \in 1 .. Len(req.bytes) : req.bytes[i] > written /\ req.bytes[i] \in Nat
      BY <1>1, ElementOfSeq DEF LaterThan
    <3> QED
      BY <1>1, <2>6, <3>1 DEF LaterThan
  <2>7. ~failed' => \A k \in 1 .. Len(queue') :
                      /\ \A j \in 1 .. k - 1 : LaterThan(queue[k], queue[j].flushAt)'
                      /\ writing' = "held" => LaterThan(queue[k], request.flushAt)'
    <3> SUFFICES ASSUME ~failed, NEW k \in 1 .. Len(queue')
                 PROVE  /\ \A j \in 1 .. k - 1 : LaterThan(queue'[k], queue'[j].flushAt)
                        /\ writing = "held" => LaterThan(queue'[k], request.flushAt)
      BY DEF LaterThan
    <3>1. CASE k \in 1 .. Len(queue)
      <4>1. queue'[k] = queue[k] /\ \A j \in 1 .. k - 1 : queue'[j] = queue[j]
        BY <2>2, <3>1
      <4> QED
        BY <2>1, <3>1, <4>1
    <3>2. CASE k = Len(queue) + 1
      <4>1. queue'[k] = req
        BY <2>2, <3>2
      <4>2. ASSUME NEW j \in 1 .. k - 1 PROVE LaterThan(req, queue'[j].flushAt)
        <5>1. j \in 1 .. Len(queue)
          BY <2>2, <3>2
        <5>2. /\ queue'[j] = queue[j] /\ queue[j].flushAt <= written
              /\ queue[j].flushAt \in Int
          BY <2>1, <2>2, <5>1 DEF FlushRequestOK, Request, NoFlush
        <5> QED
          BY <2>6, <5>2
      <4>3. LaterThan(req, request.flushAt)
        <5>1. request.flushAt <= written /\ request.flushAt \in Int
          BY <1>1, <2>1 DEF FlushRequestOK, Request, NoFlush
        <5> QED
          BY <2>6, <5>1
      <4> QED
        BY <4>1, <4>2, <4>3
    <3> QED
      BY <2>2, <3>1, <3>2
  <2> QED
    BY <1>2, <2>1, <2>4, <2>5, <2>7 DEF FlushInv, FlushDelivers
<1> QED
  BY <1>4, <1>5, <1>6, <1>7, <1>8 DEF JsInv

\* write() of a request with the next bytes, or of a flush.
LEMMA WriteRequestKeeps ==
    ASSUME MaxAccepted <= MaxChunk, StreamInv,
           NEW req \in Request, NEW n \in Nat, n <= MaxAccepted, written <= n,
           Positions(written) \o req.bytes = Positions(n), LaterThan(req, written),
           req.flushAt <= n, req.flushAt # NoFlush => req.bytes = <<>>,
           NEW flag \in BOOLEAN,
           WriteRequest(req, flag),
           js' = js, rsEnded' = rsEnded, written' = n,
           earlyFlush' = earlyFlush, endedFlush' = endedFlush,
           \A k \in 1 .. Len(waiters') : waiters'[k] <= n,
           \A k \in 1 .. Len(draining') : draining'[k] <= n
    PROVE  [Next]_vars /\ JsInv' /\ TransformTypeOK'
<1>1. ws \in [ending : BOOLEAN, ended : BOOLEAN, needDrain : BOOLEAN,
              prefinished : BOOLEAN]
  BY DEF StreamInv, JsTypeOK
<1>2. ~ws.ended
  BY DEF WriteRequest
<1>3. PICK b \in BOOLEAN : ws' = [ws EXCEPT !.needDrain = b]
  BY <1>1 DEF WriteRequest
<1>4. /\ ws'.ending = ws.ending /\ ws'.ended = ws.ended
      /\ ws'.prefinished = ws.prefinished
      /\ ws' \in [ending : BOOLEAN, ended : BOOLEAN, needDrain : BOOLEAN,
                  prefinished : BOOLEAN]
  BY <1>1, <1>3
<1>5. JsTypeOK /\ queue \in Seq(Request)
  BY DEF StreamInv, JsTypeOK
<1>6. CASE writing = "no"
  <2>1. StartWrite(req, queue, queue, flag)
    BY <1>6 DEF WriteRequest
  <2>2. [Next]_vars /\ JsInv' /\ Outcome(req, queue, queue, flag)
    BY <1>2, <1>4, <1>6, <2>1, WriteNow
  <2>3. TransformTypeOK'
    BY <1>4, <1>5, <2>2, OutcomeType DEF TransformTypeOK
  <2> QED
    BY <2>2, <2>3
<1>7. CASE writing # "no"
  <2>1. /\ queue' = Append(queue, req) /\ forceFlush' = flag
        /\ UNCHANGED <<vars, writing, request, buffers, failed>>
    BY <1>7 DEF WriteRequest
  <2>2. JsInv'
    BY <1>2, <1>4, <1>7, <2>1, WriteLater
  <2>3. Append(queue, req) \in Seq(Request)
    BY <1>5, AppendProperties
  <2>4. TransformTypeOK'
    BY <1>4, <1>5, <2>1, <2>3 DEF TransformTypeOK, JsTypeOK
  <2> QED
    BY <2>1, <2>2, <2>4
<1> QED
  BY <1>6, <1>7

\* The bytes of a write by the user.
LEMMA NextBytes ==
    \A w, n \in Nat :
        LET bytes == [i \in 1 .. n |-> w + i]
        IN /\ bytes \in Seq(Nat) /\ Len(bytes) = n
           /\ Positions(w) \o bytes = Positions(w + n)
           /\ \A i \in 1 .. n : bytes[i] > w
<1> SUFFICES ASSUME NEW w \in Nat, NEW n \in Nat
             PROVE  LET bytes == [i \in 1 .. n |-> w + i]
                    IN /\ bytes \in Seq(Nat) /\ Len(bytes) = n
                       /\ Positions(w) \o bytes = Positions(w + n)
                       /\ \A i \in 1 .. n : bytes[i] > w
  OBVIOUS
<1> DEFINE bytes == [i \in 1 .. n |-> w + i]
<1>1. bytes \in Seq(Nat)
  <2>1. \A i \in 1 .. n : w + i \in Nat
    OBVIOUS
  <2> QED
    BY <2>1, IsASeq
<1>2. Len(bytes) = n
  <2>1. DOMAIN bytes = 1 .. n /\ DOMAIN bytes = 1 .. Len(bytes) /\ Len(bytes) \in Nat
    BY <1>1, LenProperties
  <2> QED
    BY <2>1
<1>3. \A i \in 1 .. n : bytes[i] = w + i
  OBVIOUS
<1> HIDE DEF bytes
<1>4. Positions(w) \in Seq(Nat) /\ Len(Positions(w)) = w
  BY PositionsType
<1>5. \A i \in 1 .. w : Positions(w)[i] = i
  BY DEF Positions
<1> DEFINE first == Positions(w)
           both == first \o bytes
<1>6. /\ both \in Seq(Nat) /\ Len(both) = w + n
      /\ \A i \in 1 .. w + n : both[i] = i
  <2>1. first \in Seq(Nat) /\ Len(first) = w /\ \A i \in 1 .. w : first[i] = i
    BY <1>4, <1>5
  <2> HIDE DEF first
  <2>2. /\ both \in Seq(Nat) /\ Len(both) = w + n
        /\ \A i \in 1 .. w + n : both[i] = IF i <= w THEN first[i] ELSE bytes[i - w]
    BY <1>1, <1>2, <2>1, ConcatLen
  <2> HIDE DEF both
  <2>3. ASSUME NEW i \in 1 .. w + n PROVE both[i] = i
    <3>1. CASE i <= w
      BY <2>1, <2>2, <3>1
    <3>2. CASE i > w
      <4>1. i - w \in 1 .. n
        BY <3>2
      <4>2. bytes[i - w] = w + (i - w)
        BY <1>3, <4>1
      <4>3. both[i] = bytes[i - w]
        BY <2>2, <3>2
      <4> QED
        BY <4>2, <4>3
    <3> QED
      BY <3>1, <3>2
  <2> QED
    BY <2>2, <2>3
<1>7. Positions(w) \o bytes = Positions(w + n)
  <2> HIDE DEF both
  <2>1. DOMAIN both = 1 .. w + n /\ both = [i \in DOMAIN both |-> both[i]]
    BY <1>6, LenProperties
  <2>2. both = [i \in 1 .. w + n |-> i]
    BY <1>6, <2>1
  <2> QED
    BY <2>2 DEF both, first, Positions
<1>8. \A i \in 1 .. n : bytes[i] > w
  BY <1>3
<1> QED
  BY <1>1, <1>2, <1>7, <1>8 DEF bytes

\* write() by the user.
LEMMA UserWriteKeeps ==
    ASSUME MaxAccepted <= MaxChunk, StreamInv, UserWrite
    PROVE  [Next]_vars /\ JsTypeOK' /\ JsInv'
<1>1. PICK n \in 0 .. MaxWrite :
         /\ written + n <= MaxAccepted
         /\ WriteRequest([bytes |-> [i \in 1 .. n |-> written + i],
                          flushAt |-> NoFlush], forceFlush)
         /\ written' = written + n
         /\ flushTo' = IF n = 0 THEN written ELSE flushTo
  BY DEF UserWrite
<1> DEFINE bytes == [i \in 1 .. n |-> written + i]
           req == [bytes |-> bytes, flushAt |-> NoFlush]
<1>2. n \in Nat /\ written \in Nat /\ flushTo \in Nat /\ forceFlush \in BOOLEAN
  BY StreamConstantsAssumption DEF StreamInv, JsTypeOK
<1>3. /\ bytes \in Seq(Nat) /\ Len(bytes) = n
      /\ Positions(written) \o bytes = Positions(written + n)
      /\ \A i \in 1 .. n : bytes[i] > written
  BY <1>2, NextBytes
<1> HIDE DEF bytes
<1>4. /\ req \in Request /\ req.bytes = bytes /\ req.flushAt = NoFlush
      /\ WriteRequest(req, forceFlush)
  BY <1>1, <1>3 DEF Request, bytes
<1> HIDE DEF req
<1>5. LaterThan(req, written)
  BY <1>3, <1>4 DEF LaterThan
<1>6. UNCHANGED <<waiters, draining, unread, rsEnded, endEmitted, js, flushes,
                  earlyFlush, endedFlush>>
  BY DEF UserWrite
<1>7. /\ \A k \in 1 .. Len(waiters') : waiters'[k] <= written + n
      /\ \A k \in 1 .. Len(draining') : draining'[k] <= written + n
  <2>1. /\ \A k \in 1 .. Len(waiters) : waiters[k] <= written /\ waiters[k] \in Nat
        /\ \A k \in 1 .. Len(draining) : draining[k] <= written /\ draining[k] \in Nat
    <3>1. waiters \in Seq(Nat) /\ draining \in Seq(Nat)
      BY DEF StreamInv, JsTypeOK
    <3> QED
      BY <3>1, ElementOfSeq DEF StreamInv, FlushInv
  <2> QED
    BY <1>2, <1>6, <2>1
<1>8. [Next]_vars /\ JsInv' /\ TransformTypeOK'
  <2>1. written + n \in Nat /\ written <= written + n
        /\ Positions(written) \o req.bytes = Positions(written + n)
        /\ req.flushAt <= written + n /\ (req.flushAt # NoFlush => req.bytes = <<>>)
    BY <1>2, <1>3, <1>4 DEF NoFlush
  <2> QED
    BY <1>1, <1>2, <1>4, <1>5, <1>6, <1>7, <2>1, WriteRequestKeeps
<1>9. JsTypeOK'
  <2>1. flushTo' \in Nat /\ written' \in Nat
    BY <1>1, <1>2
  <2> QED
    BY <1>6, <1>8, <2>1 DEF JsTypeOK, TransformTypeOK, StreamInv
<1> QED
  BY <1>8, <1>9

\* Vcdiff.prototype.flush, for a flush that was asked for after `at' bytes.
LEMMA FlushRequestKeeps ==
    ASSUME MaxAccepted <= MaxChunk, StreamInv,
           NEW at \in Nat, at <= written,
           FlushRequest(at),
           js' = js, rsEnded' = rsEnded, earlyFlush' = earlyFlush,
           written' = written,
           draining' \in Seq(Nat),
           \A k \in 1 .. Len(draining') : draining'[k] <= written
    PROVE  /\ [Next]_vars /\ JsInv' /\ TransformTypeOK' /\ waiters' \in Seq(Nat)
           /\ endedFlush' \in BOOLEAN
<1>1. /\ written \in Nat /\ written <= MaxAccepted /\ waiters \in Seq(Nat)
      /\ \A k \in 1 .. Len(waiters) : waiters[k] <= written
      /\ JsTypeOK
  BY DEF StreamInv, JsTypeOK, OrderInv, FlushInv
<1>2. CASE /\ waiters' = Append(waiters, at)
           /\ UNCHANGED <<vars, buffers, forceFlush, ws, writing, request, queue,
                          endedFlush, failed>>
  <2>1. /\ waiters' \in Seq(Nat) /\ Len(waiters') = Len(waiters) + 1
        /\ Len(waiters) \in Nat
        /\ \A k \in 1 .. Len(waiters) : waiters'[k] = waiters[k]
        /\ waiters'[Len(waiters) + 1] = at
    BY <1>1, <1>2, AppendProperties, LenProperties
  <2>2. \A k \in 1 .. Len(waiters') : waiters'[k] <= written
    <3> SUFFICES ASSUME NEW k \in 1 .. Len(waiters') PROVE waiters'[k] <= written
      OBVIOUS
    <3>1. k \in 1 .. Len(waiters) \/ k = Len(waiters) + 1
      BY <2>1
    <3> QED
      BY <1>1, <2>1, <3>1
  <2>3. ControlInv' /\ OrderInv' /\ EndInv' /\ ForceInv'
    BY <1>2 DEF StreamInv, ControlInv, OrderInv, InOrder, Held, EndInv, ForceInv,
                vars, clientVars, streamVars
  <2>4. FlushInv'
    BY <1>2, <2>2 DEF StreamInv, FlushInv, FlushDelivers, FlushRequestOK, LaterThan,
                      vars, streamVars
  <2>5. TransformTypeOK'
    BY <1>1, <1>2 DEF TransformTypeOK, JsTypeOK
  <2> QED
    BY <1>1, <1>2, <2>1, <2>3, <2>4, <2>5 DEF JsInv, JsTypeOK
<1>3. CASE /\ WriteRequest([bytes |-> <<>>, flushAt |-> at], TRUE)
           /\ UNCHANGED <<waiters, endedFlush>>
  <2> DEFINE req == [bytes |-> <<>>, flushAt |-> at]
  <2>1. /\ req \in Request /\ req.bytes = <<>> /\ req.flushAt = at
        /\ LaterThan(req, written)
    BY ConcatBytes, EmptySeq DEF Request, LaterThan
  <2>2. Positions(written) \o <<>> = Positions(written)
    BY <1>1, PositionsType, ConcatBytes
  <2> HIDE DEF req
  <2>3. WriteRequest(req, TRUE)
    BY <1>3 DEF req
  <2>4. [Next]_vars /\ JsInv' /\ TransformTypeOK'
    BY <1>1, <1>3, <2>1, <2>2, <2>3, WriteRequestKeeps, written <= written
  <2> QED
    BY <1>1, <1>3, <2>4 DEF JsTypeOK
<1>4. CASE /\ ws.ended
           /\ endedFlush' = (endedFlush \/ Undelivered(at))
           /\ UNCHANGED <<vars, buffers, forceFlush, ws, writing, request, queue,
                          waiters, failed>>
  <2>1. ControlInv' /\ OrderInv' /\ EndInv' /\ ForceInv'
    BY <1>4 DEF StreamInv, ControlInv, OrderInv, InOrder, Held, EndInv, ForceInv,
                vars, clientVars, streamVars
  <2>2. FlushInv'
    BY <1>4 DEF StreamInv, FlushInv, FlushDelivers, FlushRequestOK, LaterThan,
                vars, streamVars
  <2>3. TransformTypeOK'
    BY <1>1, <1>4 DEF TransformTypeOK, JsTypeOK
  <2>4. endedFlush' \in BOOLEAN
    BY <1>4, Zenon
  <2> QED
    BY <1>1, <1>4, <2>1, <2>2, <2>3, <2>4 DEF JsInv
<1> QED
  BY <1>2, <1>3, <1>4 DEF FlushRequest

\* flush() by the user.
LEMMA UserFlushKeeps ==
    ASSUME MaxAccepted <= MaxChunk, StreamInv, UserFlush
    PROVE  [Next]_vars /\ JsTypeOK' /\ JsInv'
<1>1. /\ FlushRequest(written)
      /\ flushes' = flushes + 1 /\ flushTo' = written
      /\ UNCHANGED <<draining, unread, rsEnded, endEmitted, js, written, earlyFlush>>
  BY DEF UserFlush
<1>2. /\ written \in Nat /\ draining \in Seq(Nat) /\ flushes \in Nat /\ JsTypeOK
      /\ \A k \in 1 .. Len(draining) : draining[k] <= written
  BY DEF StreamInv, JsTypeOK, FlushInv
<1>3. /\ [Next]_vars /\ JsInv' /\ TransformTypeOK' /\ waiters' \in Seq(Nat)
      /\ endedFlush' \in BOOLEAN
  BY <1>1, <1>2, FlushRequestKeeps, written <= written
<1>4. JsTypeOK'
  BY <1>1, <1>2, <1>3 DEF JsTypeOK, TransformTypeOK
<1> QED
  BY <1>3, <1>4

\* flush() again, from the listener for 'drain'.
LEMMA DrainFlushKeeps ==
    ASSUME MaxAccepted <= MaxChunk, StreamInv, DrainFlush
    PROVE  [Next]_vars /\ JsTypeOK' /\ JsInv'
<1>1. /\ draining # <<>> /\ draining' = Tail(draining)
      /\ UNCHANGED <<unread, rsEnded, endEmitted, js, written, flushes, flushTo,
                     earlyFlush>>
  BY DEF DrainFlush
<1>2. /\ written \in Nat /\ draining \in Seq(Nat) /\ JsTypeOK
      /\ \A k \in 1 .. Len(draining) : draining[k] <= written
  BY DEF StreamInv, JsTypeOK, FlushInv
<1>3. /\ draining' \in Seq(Nat) /\ Head(draining) \in Nat
      /\ Head(draining) <= written
      /\ \A k \in 1 .. Len(draining') : draining'[k] <= written
  <2>1. /\ Tail(draining) \in Seq(Nat) /\ Head(draining) \in Nat
        /\ Len(draining) \in Nat /\ Len(draining) > 0
        /\ Len(Tail(draining)) = Len(draining) - 1
        /\ \A k \in 1 .. Len(Tail(draining)) : Tail(draining)[k] = draining[k + 1]
        /\ Head(draining) = draining[1]
    BY <1>1, <1>2, HeadTailProperties, EmptySeq, LenProperties
  <2>2. 1 \in 1 .. Len(draining)
        /\ \A k \in 1 .. Len(Tail(draining)) : k + 1 \in 1 .. Len(draining)
    BY <2>1
  <2> QED
    BY <1>1, <1>2, <2>1, <2>2
<1>4. /\ [Next]_vars /\ JsInv' /\ TransformTypeOK' /\ waiters' \in Seq(Nat)
      /\ endedFlush' \in BOOLEAN
  BY <1>1, <1>3, FlushRequestKeeps DEF DrainFlush
<1>5. JsTypeOK'
  BY <1>1, <1>2, <1>3, <1>4 DEF JsTypeOK, TransformTypeOK
<1> QED
  BY <1>4, <1>5

-----------------------------------------------------------------------------
(* The operations that leave the writes alone                              *)

\* What a step must leave alone for the bytes, the flags and the flushes to
\* stay where they are.
WritesUnchanged ==
    /\ UNCHANGED <<buffers, forceFlush, ws, writing, request, queue, waiters,
                   draining, rsEnded, written, earlyFlush, endedFlush, failed>>
    /\ accepted' = accepted /\ ended' = ended

\* A step that leaves the writes alone keeps what is said of them.
LEMMA QuietStep ==
    ASSUME StreamInv, WritesUnchanged
    PROVE  OrderInv' /\ EndInv' /\ ForceInv' /\ FlushInv'
<1>1. OrderInv'
  BY DEF StreamInv, WritesUnchanged, OrderInv, InOrder, Held
<1>2. EndInv'
  BY DEF StreamInv, WritesUnchanged, EndInv, Held
<1>3. ForceInv'
  BY DEF StreamInv, WritesUnchanged, ForceInv
<1>4. FlushInv'
  BY DEF StreamInv, WritesUnchanged, FlushInv, FlushDelivers, FlushRequestOK,
         LaterThan
<1> QED
  BY <1>1, <1>2, <1>3, <1>4

\* close().
LEMMA UserCloseKeeps ==
    ASSUME StreamInv, UserClose
    PROVE  [Next]_vars /\ JsTypeOK' /\ JsInv'
<1>1. Next
  BY DEF UserClose, UserMayRun, Next, Client
<1>2. /\ UNCHANGED jsVars /\ accepted' = accepted /\ ended' = ended
      /\ awaiting' = awaiting /\ main' = main /\ hadError' = hadError
      /\ collected' = collected /\ closed' = TRUE
  BY DEF UserClose, ClientClose, streamVars
<1>3. WritesUnchanged
  BY <1>2 DEF jsVars, WritesUnchanged
<1>4. ControlInv'
  BY <1>2 DEF jsVars, StreamInv, ControlInv
<1>5. JsTypeOK'
  BY <1>2 DEF jsVars, StreamInv, JsTypeOK
<1> QED
  BY <1>1, <1>3, <1>4, <1>5, QuietStep DEF JsInv

\* The pool touches nothing that the stream knows.
LEMMA PoolStepKeeps ==
    ASSUME StreamInv, PoolStep
    PROVE  [Next]_vars /\ JsTypeOK' /\ JsInv'
<1>1. Next
  BY DEF PoolStep, Next
<1>2. /\ UNCHANGED jsVars /\ accepted' = accepted /\ ended' = ended
      /\ awaiting' = awaiting /\ main' = main /\ hadError' = hadError
      /\ collected' = collected /\ closed' = closed
  BY DEF PoolStep, Pool, PoolStart, PoolProcess, PoolProcessError, PoolFinish,
         PoolReturn, PoolUnchanged, clientVars, streamVars
<1>3. WritesUnchanged
  BY <1>2 DEF jsVars, WritesUnchanged
<1>4. ControlInv'
  BY <1>2 DEF jsVars, StreamInv, ControlInv
<1>5. JsTypeOK'
  BY <1>2 DEF jsVars, StreamInv, JsTypeOK
<1> QED
  BY <1>1, <1>3, <1>4, <1>5, QuietStep DEF JsInv

\* callback(out, finished): the transform is answered, not yet completed.
LEMMA AnswerKeeps ==
    ASSUME StreamInv, Answer
    PROVE  [Next]_vars /\ JsTypeOK' /\ JsInv'
<1>1. Next
  BY DEF Answer, Next, After
<1>2. /\ js' = "data" /\ unread' = unread + Len(output_buffer)
      /\ UNCHANGED <<buffers, forceFlush, ws, writing, request, queue, waiters,
                     draining, rsEnded, endEmitted, written, flushes, flushTo,
                     earlyFlush, endedFlush, failed>>
      /\ accepted' = accepted /\ ended' = ended
      /\ awaiting' = FALSE /\ main' = "callback" /\ hadError' = hadError
      /\ collected' = collected /\ closed' = closed
      /\ job = "done"
  BY DEF Answer, AfterOk, FinishWrite
<1>3. WritesUnchanged
  BY <1>2 DEF WritesUnchanged
<1>4. ControlInv'
  <2>1. awaiting /\ ~hadError
    BY <1>2 DEF StreamInv, IInv, JobInv
  <2>2. writing \in {"binding", "final"}
    BY <2>1 DEF StreamInv, ControlInv
  <2> QED
    BY <1>2, <2>1, <2>2 DEF StreamInv, ControlInv
<1>5. JsTypeOK'
  <2>1. Len(output_buffer) \in Nat
    BY LenProperties DEF StreamInv, IInv, TypeOK
  <2> QED
    BY <1>2, <2>1 DEF StreamInv, JsTypeOK
<1> QED
  BY <1>1, <1>3, <1>4, <1>5, QuietStep DEF JsInv

\* The end of AfterShim.
LEMMA AnswerReturnKeeps ==
    ASSUME StreamInv, AnswerReturn
    PROVE  [Next]_vars /\ JsTypeOK' /\ JsInv'
<1>1. Next
  BY DEF AnswerReturn, Next, After
<1>2. /\ UNCHANGED jsVars /\ accepted' = accepted /\ ended' = ended
      /\ awaiting' = awaiting /\ main' = "loop" /\ hadError' = hadError
      /\ collected' = collected /\ closed' = closed /\ js = "idle"
  BY DEF AnswerReturn, AfterOkReturn, clientVars, streamVars
<1>3. WritesUnchanged
  BY <1>2 DEF jsVars, WritesUnchanged
<1>4. ControlInv'
  BY <1>2 DEF jsVars, StreamInv, ControlInv
<1>5. JsTypeOK'
  BY <1>2 DEF jsVars, StreamInv, JsTypeOK
<1> QED
  BY <1>1, <1>3, <1>4, <1>5, QuietStep DEF JsInv

\* onerror: the transform stays in progress.
LEMMA ErrorStepKeeps ==
    ASSUME StreamInv, ErrorStep
    PROVE  [Next]_vars /\ JsTypeOK' /\ JsInv'
<1>1. Next
  BY DEF ErrorStep, Next, After
<1>2. /\ UNCHANGED jsVars /\ accepted' = accepted /\ ended' = ended
      /\ awaiting' = awaiting /\ main' # "sync" 
      /\ collected' = collected /\ closed' = closed /\ js = "idle"
  BY DEF ErrorStep, AfterError, AfterErrorReturn, clientVars, streamVars
<1>3. hadError' => awaiting
  BY DEF ErrorStep, AfterError, AfterErrorReturn, clientVars, StreamInv, IInv,
         JobInv, ControlInv
<1>4. WritesUnchanged
  BY <1>2 DEF jsVars, WritesUnchanged
<1>5. ControlInv'
  BY <1>2, <1>3 DEF jsVars, StreamInv, ControlInv
<1>6. JsTypeOK'
  BY <1>2 DEF jsVars, StreamInv, JsTypeOK
<1> QED
  BY <1>1, <1>4, <1>5, <1>6, QuietStep DEF JsInv

\* 'end' closes the engine.
LEMMA EmitEndKeeps ==
    ASSUME StreamInv, EmitEnd
    PROVE  [Next]_vars /\ JsTypeOK' /\ JsInv'
<1>1. [Next]_vars
  BY DEF EmitEnd, Next, Client
<1>2. /\ endEmitted' = TRUE
      /\ UNCHANGED <<buffers, forceFlush, ws, writing, request, queue, waiters,
                     draining, unread, rsEnded, js, written, flushes, flushTo,
                     earlyFlush, endedFlush, failed>>
      /\ js = "idle"
  BY DEF EmitEnd
<1>3. /\ accepted' = accepted /\ ended' = ended
      /\ awaiting' = awaiting /\ main' = main /\ hadError' = hadError
      /\ collected' = collected /\ (closed => closed')
  BY DEF EmitEnd, ClientClose, vars, clientVars, streamVars
<1>4. WritesUnchanged
  BY <1>2, <1>3 DEF WritesUnchanged
<1>5. ControlInv'
  BY <1>2, <1>3 DEF StreamInv, ControlInv
<1>6. JsTypeOK'
  BY <1>2 DEF StreamInv, JsTypeOK
<1> QED
  BY <1>1, <1>4, <1>5, <1>6, QuietStep DEF JsInv

\* done() pushes the end of the stream.
LEMMA FinalAnswerKeeps ==
    ASSUME StreamInv, FinalAnswer
    PROVE  [Next]_vars /\ JsTypeOK' /\ JsInv'
<1>1. /\ js = "data" /\ writing = "final" /\ js' = "idle" /\ writing' = "no"
      /\ rsEnded' = TRUE /\ UNCHANGED vars
      /\ UNCHANGED <<buffers, forceFlush, ws, request, queue, waiters, draining,
                     unread, endEmitted, written, flushes, flushTo, earlyFlush,
                     endedFlush, failed>>
  BY DEF FinalAnswer
<1>2. /\ accepted' = accepted /\ ended' = ended /\ awaiting' = awaiting
      /\ main' = main /\ hadError' = hadError /\ collected' = collected
      /\ closed' = closed
  BY <1>1 DEF vars, clientVars, streamVars
<1>3. ControlInv'
  BY <1>1, <1>2 DEF StreamInv, ControlInv
<1>4. Held' = Held
  BY <1>1 DEF Held
<1>5. OrderInv'
  BY <1>1, <1>2, <1>4 DEF StreamInv, OrderInv, InOrder, EndInv
<1>6. EndInv'
  BY <1>1, <1>2, <1>4 DEF StreamInv, EndInv
<1>7. ForceInv'
  BY <1>1 DEF StreamInv, ForceInv
<1>8. FlushInv'
  BY <1>1 DEF StreamInv, FlushInv, FlushDelivers, FlushRequestOK, LaterThan
<1>9. JsTypeOK'
  BY <1>1 DEF StreamInv, JsTypeOK
<1> QED
  BY <1>1, <1>3, <1>5, <1>6, <1>7, <1>8, <1>9 DEF JsInv

-----------------------------------------------------------------------------
(* The end of the writable side                                            *)

\* finishMaybe starts the last transform, fails it on a closed engine, or waits.
LEMMA FinishMaybeKeeps ==
    ASSUME MaxAccepted <= MaxChunk, StreamInv,
           NEW ending \in BOOLEAN, ws.ending => ending,
           FinishMaybe(ending),
           js' = js \/ (js # "data" /\ js' # "data"),
           UNCHANGED <<request, queue, waiters, draining, rsEnded, written,
                       earlyFlush, endedFlush>>
    PROVE  [Next]_vars /\ JsInv' /\ TransformTypeOK'
<1>1. /\ ws \in [ending : BOOLEAN, ended : BOOLEAN, needDrain : BOOLEAN,
                 prefinished : BOOLEAN]
      /\ JsTypeOK /\ IInv /\ ControlInv /\ EndInv /\ OrderInv /\ ForceInv /\ FlushInv
      /\ ~aborted /\ (endedFlush => ending)
  BY DEF StreamInv, JsTypeOK, IInv, EndInv, FlushInv, FlushDelivers
<1>2. CASE /\ ws' = [ws EXCEPT !.ending = ending, !.ended = ending]
           /\ UNCHANGED <<vars, buffers, forceFlush, writing, failed>>
  <2>1. /\ accepted' = accepted /\ ended' = ended /\ awaiting' = awaiting
        /\ main' = main /\ hadError' = hadError /\ collected' = collected
        /\ closed' = closed
    BY <1>2 DEF vars, clientVars, streamVars
  <2>2. Held' = Held
    BY <1>2 DEF Held
  <2>3. ControlInv'
    BY <1>1, <1>2, <2>1 DEF ControlInv
  <2>4. OrderInv'
    BY <1>1, <1>2, <2>1, <2>2 DEF OrderInv, InOrder
  <2>5. EndInv'
    <3>1. /\ ws'.ending = ending /\ ws'.ended = ending
          /\ ws'.prefinished = ws.prefinished
      BY <1>1, <1>2
    <3> QED
      BY <1>1, <1>2, <2>1, <2>2, <3>1 DEF EndInv
  <2>6. ForceInv'
    BY <1>1, <1>2 DEF ForceInv
  <2>7. FlushInv'
    BY <1>1, <1>2, <2>1 DEF FlushInv, FlushDelivers, FlushRequestOK, LaterThan
  <2>8. TransformTypeOK'
    BY <1>1, <1>2 DEF JsTypeOK, TransformTypeOK
  <2> QED
    BY <1>2, <2>3, <2>4, <2>5, <2>6, <2>7, <2>8 DEF JsInv
<1>3. ASSUME ending, writing = "no", queue = <<>>, ~ws.prefinished,
             ws' = [ws EXCEPT !.prefinished = TRUE, !.ending = ending,
                              !.ended = ending]
      PROVE  [Next]_vars /\ JsInv' /\ TransformTypeOK'
  <2>w. /\ ws'.ending /\ ws'.ended /\ ws'.prefinished /\ ws'.ending = ws'.ended
        /\ ws' \in [ending : BOOLEAN, ended : BOOLEAN, needDrain : BOOLEAN,
                    prefinished : BOOLEAN]
    BY <1>1, <1>3
  <2>r. ~rsEnded /\ ~awaiting
    BY <1>1, <1>3 DEF EndInv, ControlInv
  <2>j. js # "data" /\ js' # "data"
    BY <1>1, <1>3 DEF ControlInv
  <2>1. CASE /\ closed /\ failed' = TRUE /\ forceFlush' = TRUE
             /\ UNCHANGED <<vars, buffers, writing>>
    <3>1. /\ accepted' = accepted /\ ended' = ended /\ awaiting' = awaiting
          /\ main' = main /\ hadError' = hadError /\ collected' = collected
          /\ closed' = closed
      BY <2>1 DEF vars, clientVars, streamVars
    <3>2. ControlInv'
      BY <1>1, <2>j, <2>1, <3>1 DEF ControlInv
    <3>3. OrderInv'
      BY <1>1, <2>1 DEF OrderInv, InOrder
    <3>4. EndInv'
      BY <1>1, <1>3, <2>w, <2>r, <2>1, <3>1 DEF EndInv
    <3>5. ForceInv'
      BY <2>1 DEF ForceInv
    <3>6. FlushInv'
      BY <1>1, <2>w, <2>1, <3>1 DEF FlushInv, FlushDelivers, FlushRequestOK, LaterThan
    <3>7. TransformTypeOK'
      BY <1>1, <2>1, <2>w DEF JsTypeOK, TransformTypeOK
    <3> QED
      BY <2>1, <3>2, <3>3, <3>4, <3>5, <3>6, <3>7 DEF JsInv
  <2>2. CASE /\ ~closed /\ TransformChunk(<<>>, 0, TRUE, ending, FALSE, "final")
             /\ UNCHANGED failed
    <3>1. /\ accepted \in Seq(Nat) /\ buffers \in Seq(Nat) /\ written \in Nat
          /\ accepted \o buffers \in Seq(Nat) /\ <<>> \in Seq(Nat)
          /\ Len(<<>>) = 0
      BY <1>1, ConcatBytes, EmptySeq DEF IInv, TypeOK, JsTypeOK
    <3>2. ~failed /\ failed' = FALSE
      BY <1>1, <2>2 DEF ControlInv, JsTypeOK
    <3>3. Held = <<>> /\ BytesOf(queue) = <<>>
      BY <1>3, NoBytes DEF Held
    <3>4. ((accepted \o buffers) \o <<>>) \o <<>> = Positions(written)
      BY <1>1, <3>2, <3>3 DEF OrderInv, InOrder, Positions
    <3>5. ended => buffers = <<>>
      BY <1>1, <3>2 DEF EndInv
    <3>6. written <= MaxAccepted /\ 0 = Len(<<>>) + Len(<<>>)
      BY <1>1, <3>1 DEF OrderInv
    <3>7. /\ [Next]_vars /\ EngineFrame
          /\ \/ Sent(<<>>, <<>>, ending, TRUE, "final")
             \/ Kept(<<>>, TRUE, FALSE)
      BY <1>1, <1>3, <2>2, <2>r, <3>1, <3>4, <3>5, <3>6, TransformStep
    <3>8. /\ writing' = "final" /\ awaiting' = TRUE /\ buffers' = <<>>
          /\ accepted' = (accepted \o buffers) \o <<>>
          /\ ended' = (ending /\ <<>> = <<>>)
          /\ forceFlush' = (TRUE /\ <<>> # <<>>)
      BY <3>7 DEF Sent, Kept
    <3>9. /\ main' = main /\ closed' = closed /\ hadError' = hadError
          /\ collected' = collected
      BY <3>7 DEF EngineFrame
    <3>10. Held' = <<>> /\ queue' = <<>>
      BY <1>3, <3>8 DEF Held
    <3>11. ControlInv'
      BY <1>1, <2>r, <2>j, <3>2, <3>8, <3>9 DEF ControlInv
    <3>12. OrderInv'
      <4>1. ((accepted' \o buffers') \o Held') \o BytesOf(queue') = Positions(written)
        BY <3>1, <3>4, <3>8, <3>10, NoBytes, ConcatBytes
      <4> QED
        BY <3>6, <3>8, <4>1 DEF OrderInv, InOrder, Positions
    <3>13. EndInv'
      BY <1>3, <2>w, <2>r, <3>2, <3>8, <3>10, NoBytes DEF EndInv
    <3>14. ForceInv'
      BY <3>8 DEF ForceInv
    <3>15. FlushInv'
      BY <1>1, <1>3, <2>w, <3>2, <3>8
         DEF FlushInv, FlushDelivers, FlushRequestOK, LaterThan
    <3>16. TransformTypeOK'
      BY <1>1, <2>w, <3>1, <3>2, <3>8 DEF JsTypeOK, TransformTypeOK
    <3> QED
      BY <3>7, <3>11, <3>12, <3>13, <3>14, <3>15, <3>16 DEF JsInv
  <2> QED
    BY <1>3, <2>1, <2>2 DEF FinishMaybe
<1> QED
  BY <1>2, <1>3 DEF FinishMaybe

\* end().
LEMMA UserEndKeeps ==
    ASSUME MaxAccepted <= MaxChunk, StreamInv, UserEnd
    PROVE  [Next]_vars /\ JsTypeOK' /\ JsInv'
<1>1. /\ FinishMaybe(TRUE) /\ ~ws.ending
      /\ UNCHANGED <<request, queue, waiters, draining, unread, rsEnded, endEmitted,
                     js, written, flushes, flushTo, earlyFlush, endedFlush>>
  BY DEF UserEnd
<1>2. [Next]_vars /\ JsInv' /\ TransformTypeOK'
  BY <1>1, FinishMaybeKeeps
<1>3. JsTypeOK'
  BY <1>1, <1>2 DEF StreamInv, JsTypeOK, TransformTypeOK
<1> QED
  BY <1>2, <1>3

\* The end of afterWrite.
LEMMA AfterWriteKeeps ==
    ASSUME MaxAccepted <= MaxChunk, StreamInv, AfterWrite
    PROVE  [Next]_vars /\ JsTypeOK' /\ JsInv'
<1>1. /\ FinishMaybe(ws.ending) /\ js \in {"drain", "after"} /\ js' = "idle"
      /\ UNCHANGED <<request, queue, waiters, draining, unread, rsEnded, endEmitted,
                     written, flushes, flushTo, earlyFlush, endedFlush>>
  BY DEF AfterWrite
<1>2. ws.ending \in BOOLEAN
  BY DEF StreamInv, JsTypeOK
<1>3. [Next]_vars /\ JsInv' /\ TransformTypeOK'
  BY <1>1, <1>2, FinishMaybeKeeps
<1>4. JsTypeOK'
  BY <1>1, <1>3 DEF StreamInv, JsTypeOK, TransformTypeOK
<1> QED
  BY <1>3, <1>4

-----------------------------------------------------------------------------
(* The answer to a write                                                   *)

\* The write at the head of the queue is next in line.
LEMMA HeadInLine ==
    ASSUME StreamInv, queue # <<>>, writing \in {"tick", "binding"}
    PROVE  /\ Head(queue) \in Request /\ Tail(queue) \in Seq(Request)
           /\ InLine(Head(queue), Tail(queue), written)
           /\ FlushesInLine(Head(queue), Tail(queue), written)
<1> DEFINE req == Head(queue)
           behind == Tail(queue)
<1>1. /\ accepted \in Seq(Nat) /\ buffers \in Seq(Nat) /\ queue \in Seq(Request)
      /\ written \in Nat /\ written <= MaxAccepted
  BY DEF StreamInv, IInv, TypeOK, JsTypeOK, OrderInv
<1>2. /\ req \in Request /\ behind \in Seq(Request)
      /\ Len(queue) \in Nat /\ Len(queue) > 0 /\ req = queue[1]
      /\ Len(behind) = Len(queue) - 1
      /\ \A k \in 1 .. Len(behind) : behind[k] = queue[k + 1]
  BY <1>1, HeadTailProperties, EmptySeq, LenProperties
<1>3. BytesOf(queue) = req.bytes \o BytesOf(behind)
  BY <1>1, BytesOfHead
<1>4. req.bytes \in Seq(Nat) /\ BytesOf(behind) \in Seq(Nat)
      /\ accepted \o buffers \in Seq(Nat)
  BY <1>1, <1>2, BytesOfType, ConcatBytes DEF Request
<1> HIDE DEF req, behind
<1>5. ASSUME ~failed
      PROVE  ((accepted \o buffers) \o req.bytes) \o BytesOf(behind)
               = Positions(written)
  <2>1. Held = <<>> /\ (accepted \o buffers) \o <<>> = accepted \o buffers
    BY <1>4, ConcatBytes DEF Held
  <2>2. (accepted \o buffers) \o BytesOf(queue) = Positions(written)
    BY <1>5, <2>1 DEF StreamInv, OrderInv, InOrder, Positions
  <2>3. ((accepted \o buffers) \o req.bytes) \o BytesOf(behind)
          = (accepted \o buffers) \o (req.bytes \o BytesOf(behind))
    BY <1>4, AssocBytes
  <2> QED
    BY <1>3, <2>2, <2>3
<1>6. ASSUME ended, ~failed PROVE req.bytes = <<>> /\ BytesOf(behind) = <<>>
  <2>1. BytesOf(queue) = <<>>
    BY <1>6 DEF StreamInv, EndInv
  <2>2. /\ Len(req.bytes) \in Nat /\ Len(BytesOf(behind)) \in Nat
        /\ Len(BytesOf(queue)) = Len(req.bytes) + Len(BytesOf(behind))
        /\ Len(BytesOf(queue)) = 0
    BY <1>3, <1>4, <2>1, ConcatLen, EmptySeq
  <2>3. Len(req.bytes) = 0 /\ Len(BytesOf(behind)) = 0
    <3>1. \A m, n \in Nat : m + n = 0 => m = 0 /\ n = 0
      OBVIOUS
    <3> QED
      BY <2>2, <3>1, Zenon
  <2> QED
    BY <1>4, <2>3, EmptySeq
<1>7. InLine(req, behind, written)
  BY <1>1, <1>2, <1>5, <1>6 DEF InLine
<1>8. /\ \A k \in 1 .. Len(queue) : FlushRequestOK(queue[k])
      /\ ~failed => \A k \in 1 .. Len(queue) :
                       \A j \in 1 .. k - 1 : LaterThan(queue[k], queue[j].flushAt)
  BY DEF StreamInv, FlushInv
<1>9. /\ 1 \in 1 .. Len(queue)
      /\ \A k \in 1 .. Len(behind) :
            /\ k + 1 \in 1 .. Len(queue) /\ 1 \in 1 .. (k + 1) - 1
            /\ \A j \in 1 .. k - 1 : /\ j + 1 \in 1 .. (k + 1) - 1
                                     /\ j \in 1 .. Len(behind)
  BY <1>2
<1>10. FlushesInLine(req, behind, written)
  <2>1. /\ req.flushAt <= written /\ (req.flushAt # NoFlush => req.bytes = <<>>)
        /\ \A k \in 1 .. Len(behind) :
              /\ behind[k].flushAt <= written
              /\ behind[k].flushAt # NoFlush => behind[k].bytes = <<>>
    BY <1>2, <1>8, <1>9 DEF FlushRequestOK
  <2>2. ASSUME ~failed, NEW k \in 1 .. Len(behind)
        PROVE  /\ \A j \in 1 .. k - 1 : LaterThan(behind[k], behind[j].flushAt)
               /\ LaterThan(behind[k], req.flushAt)
    <3>1. LaterThan(queue[k + 1], queue[1].flushAt)
      BY <1>8, <1>9, <2>2
    <3>2. ASSUME NEW j \in 1 .. k - 1 PROVE LaterThan(behind[k], behind[j].flushAt)
      <4>1. LaterThan(queue[k + 1], queue[j + 1].flushAt)
        BY <1>8, <1>9, <2>2
      <4>2. behind[k] = queue[k + 1] /\ behind[j] = queue[j + 1]
        BY <1>2, <1>9
      <4> QED
        BY <4>1, <4>2
    <3> QED
      BY <1>2, <3>1, <3>2
  <2> QED
    BY <2>1, <2>2 DEF FlushesInLine
<1> QED
  BY <1>2, <1>7, <1>10 DEF req, behind

\* An encoder that answered delivered everything it had been given.
LEMMA EncoderDelivered ==
    ASSUME StreamInv, mode = "ENCODE", js = "data"
    PROVE  delivered = accepted
<1>1. IInv /\ ControlInv
  BY DEF StreamInv
<1>2. ~awaiting
  BY DEF StreamInv, ControlInv
<1>3. job = "none" /\ ~hadError
  BY <1>1, <1>2 DEF IInv, JobInv, ControlInv
<1>4. ~HasError
  BY <1>1, <1>3 DEF IInv, StateInv
<1>5. data = <<>> /\ output_buffer = <<>> /\ unparsed = <<>>
  BY <1>1, <1>3, <1>4 DEF IInv, BytesInv, StateInv
<1>6. accepted = delivered \o output_buffer \o unparsed \o data
  BY <1>1, <1>4 DEF IInv, BytesInv, Conservation
<1>7. delivered \in Seq(Nat)
  BY <1>1 DEF IInv, TypeOK
<1> QED
  BY <1>5, <1>6, <1>7, ConcatBytes

\* So the callback of a flush does not run too early.
LEMMA FlushInTime ==
    ASSUME StreamInv, WriteAnswer
    PROVE  earlyFlush' = FALSE
<1>1. ~earlyFlush
  BY DEF StreamInv, FlushInv, FlushDelivers
<1>2. Len(delivered) \in Nat
  BY LenProperties DEF StreamInv, IInv, TypeOK
<1>3. ASSUME mode = "ENCODE" PROVE ~(request.flushAt > Len(delivered))
  <2>1. CASE js = "data" /\ writing = "binding"
    <3>1. request.flushAt <= Len(accepted)
      BY <2>1 DEF StreamInv, FlushInv
    <3>2. delivered = accepted
      BY <1>3, <2>1, EncoderDelivered
    <3>3. request.flushAt \in Int
      BY DEF StreamInv, JsTypeOK, Request, NoFlush
    <3> QED
      BY <1>2, <3>1, <3>2, <3>3
  <2>2. CASE js = "idle" /\ writing = "tick"
    <3>1. request.flushAt = NoFlush
      BY <2>2 DEF StreamInv, FlushInv
    <3> QED
      BY <1>2, <3>1 DEF NoFlush
  <2> QED
    BY <2>1, <2>2 DEF WriteAnswer
<1>4. earlyFlush' = (earlyFlush \/ (mode = "ENCODE" /\ request.flushAt > Len(delivered)))
  BY DEF WriteAnswer, Undelivered
<1> QED
  BY <1>1, <1>3, <1>4

\* cb(): the next write starts, or none is left.
LEMMA WriteAnswerKeeps ==
    ASSUME MaxAccepted <= MaxChunk, StreamInv, WriteAnswer
    PROVE  [Next]_vars /\ JsTypeOK' /\ JsInv'
<1>1. /\ JsTypeOK /\ IInv /\ ControlInv /\ EndInv /\ ~aborted
      /\ ws \in [ending : BOOLEAN, ended : BOOLEAN, needDrain : BOOLEAN,
                 prefinished : BOOLEAN]
      /\ waiters \in Seq(Nat) /\ draining \in Seq(Nat) /\ written \in Nat
      /\ written <= MaxAccepted /\ forceFlush \in BOOLEAN
      /\ queue \in Seq(Request)
      /\ \A k \in 1 .. Len(waiters) : waiters[k] <= written
      /\ \A k \in 1 .. Len(draining) : draining[k] <= written
  BY DEF StreamInv, JsTypeOK, IInv, OrderInv, FlushInv
<1>2. /\ writing \in {"tick", "binding"}
      /\ writing = "binding" => js = "data"
      /\ writing = "tick" => js = "idle"
      /\ UNCHANGED <<unread, rsEnded, endEmitted, written, flushes, flushTo,
                     endedFlush>>
  BY DEF WriteAnswer
<1>3. ~awaiting /\ ~ws.prefinished
  BY <1>1, <1>2 DEF ControlInv, EndInv
<1>5. /\ js' \in {"drain", "after"}
      /\ waiters' \in Seq(Nat) /\ draining' \in Seq(Nat)
      /\ \A k \in 1 .. Len(waiters') : waiters'[k] <= written
      /\ \A k \in 1 .. Len(draining') : draining'[k] <= written
      /\ \/ ws' = [ws EXCEPT !.needDrain = FALSE]
         \/ ws' = ws
  <2>1. <<>> \in Seq(Nat) /\ Len(<<>>) = 0
    BY EmptySeq
  <2>2. CASE /\ js' = "drain" /\ ws' = [ws EXCEPT !.needDrain = FALSE]
             /\ draining' = waiters /\ waiters' = <<>>
    BY <1>1, <2>1, <2>2
  <2>3. CASE js' = "after" /\ UNCHANGED <<ws, draining, waiters>>
    BY <1>1, <2>3
  <2> QED
    BY <2>2, <2>3 DEF WriteAnswer
<1>6. /\ ws'.ending = ws.ending /\ ws'.ended = ws.ended
      /\ ws'.prefinished = ws.prefinished
      /\ ws' \in [ending : BOOLEAN, ended : BOOLEAN, needDrain : BOOLEAN,
                  prefinished : BOOLEAN]
  BY <1>1, <1>5
<1>4. earlyFlush' = FALSE /\ FlushDelivers'
  <2>1. earlyFlush' = FALSE
    BY FlushInTime
  <2>2. endedFlush => ws.ended
    BY DEF StreamInv, FlushInv, FlushDelivers
  <2> QED
    BY <1>2, <1>6, <2>1, <2>2 DEF FlushDelivers
<1>7. CASE queue # <<>>
  <2> DEFINE req == Head(queue)
             behind == Tail(queue)
  <2>1. /\ req \in Request /\ behind \in Seq(Request) /\ <<>> \in Seq(Request)
        /\ InLine(req, behind, written) /\ FlushesInLine(req, behind, written)
        /\ <<>> \in {behind, <<>>}
    BY <1>2, <1>7, HeadInLine, EmptySeq
  <2>2. StartWrite(req, behind, <<>>, forceFlush)
    BY <1>7 DEF WriteAnswer
  <2> HIDE DEF req, behind
  <2>3. [Next]_vars /\ Outcome(req, behind, <<>>, forceFlush)
    BY <1>1, <1>3, <2>1, <2>2, StartWriteStep
  <2>4. Beside(written) /\ js' # "data"
    BY <1>1, <1>2, <1>3, <1>5, <1>6 DEF Beside
  <2>5. ControlInv'
    BY <1>1, <1>3, <2>3, <2>4, OutcomeControl
  <2>6. OrderInv'
    BY <1>1, <2>1, <2>3, <2>4, OutcomeOrder
  <2>7. EndInv'
    BY <1>1, <2>1, <2>3, <2>4, OutcomeEnd
  <2>8. ForceInv'
    BY <2>3, OutcomeForce
  <2>9. FlushInv'
    BY <1>1, <1>4, <1>5, <2>1, <2>3, <2>4, OutcomeFlush
  <2>10. /\ buffers' \in Seq(Nat) /\ forceFlush' \in BOOLEAN
         /\ writing' \in {"no", "held", "tick", "binding"}
         /\ request' \in Request /\ queue' \in Seq(Request)
         /\ failed' \in BOOLEAN
    BY <1>1, <2>1, <2>3, OutcomeType
  <2>11. JsTypeOK'
    BY <1>1, <1>2, <1>4, <1>5, <1>6, <2>10 DEF JsTypeOK
  <2> QED
    BY <2>3, <2>5, <2>6, <2>7, <2>8, <2>9, <2>11 DEF JsInv
<1>8. CASE queue = <<>>
  <2>1. /\ writing' = "no" /\ request' = NoRequest
        /\ UNCHANGED <<vars, buffers, forceFlush, queue, failed>>
    BY <1>8 DEF WriteAnswer
  <2>2. /\ accepted' = accepted /\ ended' = ended /\ awaiting' = awaiting
        /\ main' = main /\ hadError' = hadError /\ collected' = collected
        /\ closed' = closed
    BY <2>1 DEF vars, clientVars, streamVars
  <2>3. Held' = Held
    BY <1>2, <2>1 DEF Held
  <2>4. ControlInv'
    BY <1>1, <1>3, <1>5, <2>1, <2>2 DEF ControlInv
  <2>5. OrderInv'
    BY <1>2, <1>8, <2>1, <2>2, <2>3 DEF StreamInv, OrderInv, InOrder
  <2>6. EndInv'
    BY <1>1, <1>2, <1>3, <1>6, <2>1, <2>2, <2>3 DEF EndInv
  <2>7. ForceInv'
    BY <1>2, <1>8, <2>1 DEF StreamInv, ForceInv
  <2>8. FlushInv'
    <3>1. NoRequest.flushAt = NoFlush /\ NoRequest.bytes = <<>> /\ Len(<<>>) = 0
      BY EmptySeq DEF NoRequest
    <3>2. FlushRequestOK(request)'
      BY <1>1, <1>2, <2>1, <3>1 DEF FlushRequestOK, NoFlush
    <3> QED
      BY <1>2, <1>4, <1>5, <1>8, <2>1, <3>1, <3>2 DEF FlushInv
  <2>9. JsTypeOK'
    <3>1. NoRequest \in Request
      BY ConcatBytes DEF NoRequest, Request, NoFlush
    <3> QED
      BY <1>1, <1>2, <1>4, <1>5, <1>6, <2>1, <3>1 DEF JsTypeOK
  <2> QED
    BY <2>1, <2>4, <2>5, <2>6, <2>7, <2>8, <2>9 DEF JsInv
<1> QED
  BY <1>7, <1>8

\* read() starts a transform that was held, or fails it.
LEMMA UserReadKeeps ==
    ASSUME MaxAccepted <= MaxChunk, StreamInv, UserRead
    PROVE  [Next]_vars /\ JsTypeOK' /\ JsInv'
<1>1. /\ JsTypeOK /\ IInv /\ ControlInv /\ EndInv /\ ~aborted
      /\ written \in Nat /\ written <= MaxAccepted /\ forceFlush \in BOOLEAN
      /\ queue \in Seq(Request) /\ request \in Request
      /\ \A k \in 1 .. Len(waiters) : waiters[k] <= written
      /\ \A k \in 1 .. Len(draining) : draining[k] <= written
      /\ FlushDelivers
  BY DEF StreamInv, JsTypeOK, IInv, OrderInv, FlushInv
<1>2. /\ unread' = 0
      /\ UNCHANGED <<ws, queue, waiters, draining, rsEnded, endEmitted, js, written,
                     flushes, flushTo, earlyFlush, endedFlush>>
  BY DEF UserRead
<1>3. CASE UNCHANGED <<vars, buffers, forceFlush, writing, request, failed>>
  <2>1. WritesUnchanged
    BY <1>2, <1>3 DEF WritesUnchanged, vars, clientVars, streamVars
  <2>2. ControlInv'
    BY <1>1, <1>2, <1>3 DEF ControlInv, vars, clientVars
  <2>3. JsTypeOK'
    BY <1>1, <1>2, <1>3 DEF JsTypeOK
  <2> QED
    BY <1>3, <2>1, <2>2, <2>3, QuietStep DEF JsInv
<1>4. ASSUME writing = "held",
             [Next]_vars, Outcome(request, queue, queue, forceFlush)
      PROVE  JsTypeOK' /\ JsInv'
  <2>1. ~awaiting /\ js # "data" /\ ~ws.prefinished
    BY <1>1, <1>4 DEF ControlInv, EndInv
  <2>2. /\ InLine(request, queue, written) /\ FlushesInLine(request, queue, written)
    <3>1. Held = request.bytes
      BY <1>4 DEF Held
    <3>2. InLine(request, queue, written)
      BY <1>1, <3>1 DEF StreamInv, OrderInv, InOrder, EndInv, InLine, Positions
    <3>3. FlushesInLine(request, queue, written)
      BY <1>4 DEF StreamInv, FlushInv, FlushesInLine, FlushRequestOK
    <3> QED
      BY <3>2, <3>3
  <2>3. Beside(written) /\ js' # "data"
    BY <1>1, <1>2, <2>1 DEF Beside
  <2>4. ControlInv'
    BY <1>1, <1>4, <2>1, <2>3, OutcomeControl
  <2>5. OrderInv'
    BY <1>1, <1>4, <2>2, <2>3, OutcomeOrder
  <2>6. EndInv'
    BY <1>1, <1>4, <2>2, <2>3, OutcomeEnd
  <2>7. ForceInv'
    BY <1>4, OutcomeForce
  <2>8. FlushInv'
    <3>1. FlushDelivers'
      BY <1>1, <1>2 DEF FlushDelivers
    <3>2. /\ \A k \in 1 .. Len(waiters') : waiters'[k] <= written
          /\ \A k \in 1 .. Len(draining') : draining'[k] <= written
      BY <1>1, <1>2
    <3> QED
      BY <1>1, <1>4, <2>2, <2>3, <3>1, <3>2, OutcomeFlush
  <2>9. /\ buffers' \in Seq(Nat) /\ forceFlush' \in BOOLEAN
        /\ writing' \in {"no", "held", "tick", "binding"}
        /\ request' \in Request /\ queue' \in Seq(Request)
        /\ failed' \in BOOLEAN
    BY <1>1, <1>4, OutcomeType
  <2>10. JsTypeOK'
    BY <1>1, <1>2, <2>9 DEF JsTypeOK
  <2> QED
    BY <2>4, <2>5, <2>6, <2>7, <2>8, <2>10 DEF JsInv
<1>5. CASE /\ writing = "held" /\ closed
           /\ writing' = "no" /\ request' = NoRequest /\ failed' = TRUE
           /\ UNCHANGED <<vars, buffers, forceFlush>>
  <2>1. Outcome(request, queue, queue, forceFlush)
    BY <1>2, <1>5 DEF Outcome
  <2> QED
    BY <1>4, <1>5, <2>1
<1>6. CASE /\ writing = "held" /\ ~closed
           /\ TransformChunk(request.bytes, LengthWith(request, queue), forceFlush,
                             ws.ending, TRUE, "binding")
           /\ UNCHANGED <<request, failed>>
  <2>1. ~awaiting
    BY <1>1, <1>6 DEF ControlInv
  <2>2. InLine(request, queue, written)
    <3>1. Held = request.bytes
      BY <1>6 DEF Held
    <3> QED
      BY <1>1, <3>1 DEF StreamInv, OrderInv, InOrder, EndInv, InLine, Positions
  <2>3. request' = request /\ queue' = queue /\ failed' = failed /\ ~closed
    BY <1>2, <1>6
  <2>4. TransformChunk(request.bytes, LengthWith(request, queue), forceFlush,
                       ws.ending, TRUE, "binding")
    BY <1>6
  <2>5. [Next]_vars /\ Outcome(request, queue, queue, forceFlush)
    BY <1>1, <2>1, <2>2, <2>3, <2>4, StartStep
  <2> QED
    BY <1>4, <1>6, <2>5
<1> QED
  BY <1>3, <1>5, <1>6 DEF UserRead

-----------------------------------------------------------------------------
(* The inductive invariant                                                 *)

\* A fresh stream satisfies the invariant, ...
LEMMA StreamInitInv == StreamInit => StreamInv
<1> SUFFICES ASSUME StreamInit PROVE StreamInv
  OBVIOUS
<1>1. Init
  BY DEF StreamInit
<1>2. IInv
  BY <1>1, InitInv
<1>3. <<>> \in Seq(Nat) /\ <<>> \in Seq(Request) /\ Len(<<>>) = 0
      /\ <<>> \o <<>> = <<>>
  BY EmptySeq, ConcatBytes
<1>4. NoRequest \in Request /\ NoRequest.flushAt = NoFlush /\ NoRequest.bytes = <<>>
  BY <1>3 DEF NoRequest, Request, NoFlush
<1>5. JsTypeOK
  BY <1>3, <1>4 DEF StreamInit, JsTypeOK
<1>6. ControlInv
  BY <1>1 DEF StreamInit, Init, ControlInv
<1>7. OrderInv
  <2>1. Positions(0) = <<>>
    BY PositionsType, EmptySeq
  <2>2. Held = <<>> /\ BytesOf(queue) = <<>> /\ accepted = <<>> /\ buffers = <<>>
        /\ written = 0 /\ queue = <<>>
    BY <1>1, NoBytes DEF StreamInit, Init, Held
  <2>3. InOrder
    BY <1>3, <2>1, <2>2 DEF InOrder, Positions
  <2> QED
    BY <2>2, <2>3, ConstantsAssumption DEF OrderInv
<1>8. EndInv
  BY <1>1 DEF StreamInit, Init, EndInv
<1>9. ForceInv
  BY DEF StreamInit, ForceInv
<1>10. FlushInv
  BY <1>3, <1>4 DEF StreamInit, FlushInv, FlushDelivers, FlushRequestOK, NoFlush
<1> QED
  BY <1>2, <1>5, <1>6, <1>7, <1>8, <1>9, <1>10 DEF StreamInv

\* ... every step keeps it, and every step is one of the engine or none.
LEMMA StreamNextInv ==
    ASSUME MaxAccepted <= MaxChunk, StreamInv, [StreamNext]_streamAllVars
    PROVE  [Next]_vars /\ StreamInv'
<1>1. CASE StreamNext
  <2>1. [Next]_vars /\ JsTypeOK' /\ JsInv'
    BY <1>1, UserWriteKeeps, UserFlushKeeps, UserEndKeeps, UserCloseKeeps,
       UserReadKeeps, PoolStepKeeps, AnswerKeeps, WriteAnswerKeeps,
       DrainFlushKeeps, AfterWriteKeeps, FinalAnswerKeeps, AnswerReturnKeeps,
       ErrorStepKeeps, EmitEndKeeps
       DEF StreamNext, User, Loop
  <2>2. ~collected'
    BY <2>1 DEF JsInv, ControlInv
  <2>3. IInv'
    BY <2>1, <2>2, NextInv DEF StreamInv
  <2> QED
    BY <2>1, <2>3 DEF StreamInv, JsInv
<1>2. CASE UNCHANGED streamAllVars
  <2>1. UNCHANGED vars /\ UNCHANGED jsVars
    BY <1>2 DEF streamAllVars
  <2>2. IInv'
    BY <2>1, NextInv DEF StreamInv, ControlInv, vars
  <2>3. JsTypeOK'
    BY <2>1 DEF StreamInv, JsTypeOK, jsVars
  <2>4. ControlInv'
    BY <2>1 DEF StreamInv, ControlInv, vars, clientVars, jsVars
  <2>5. WritesUnchanged
    BY <2>1 DEF WritesUnchanged, vars, clientVars, streamVars, jsVars
  <2> QED
    BY <2>1, <2>2, <2>3, <2>4, <2>5, QuietStep DEF StreamInv
<1> QED
  BY <1>1, <1>2

\* The invariant holds throughout, whatever the user writes, flushes, reads and
\* ends, and whenever the callbacks come (lib/vcdiff.js:182-331).
THEOREM StreamInvariance ==
    ASSUME Retained = TRUE, MaxAccepted <= MaxChunk
    PROVE  StreamSpec => []StreamInv
<1>1. StreamInv /\ [StreamNext]_streamAllVars => StreamInv'
  BY StreamNextInv
<1> QED
  BY <1>1, StreamInitInv, PTL DEF StreamSpec

-----------------------------------------------------------------------------
(* What it means                                                           *)

\* Every variable of the stream keeps its type.
THEOREM StreamTypeCorrect ==
    ASSUME Retained = TRUE, MaxAccepted <= MaxChunk
    PROVE  StreamSpec => []StreamTypeOK
<1>1. StreamInv => StreamTypeOK
  BY DEF StreamInv, IInv, StreamTypeOK
<1> QED
  BY <1>1, StreamInvariance, PTL

\* lib/vcdiff.js only writes to an engine that has answered and is neither
\* closed nor failed, in order, and nothing after the last write
\* (lib/vcdiff.js:205-331): the stream implements the client of VcdCtx.
THEOREM StreamRefinement ==
    ASSUME Retained = TRUE, MaxAccepted <= MaxChunk
    PROVE  StreamSpec => ImplementsCtx
<1>1. StreamInv /\ [StreamNext]_streamAllVars => [Next]_vars
  BY StreamNextInv
<1>2. StreamInit => Init
  BY DEF StreamInit
<1> QED
  BY <1>1, <1>2, StreamInvariance, PTL DEF StreamSpec, ImplementsCtx, Spec

\* So no assert of the engine fails under lib/vcdiff.js
\* (src/src/vcdiff.cc:108-110, 148, 151).
THEOREM StreamNeverAborts ==
    ASSUME Retained = TRUE, MaxAccepted <= MaxChunk
    PROVE  StreamSpec => []NoAbort
<1>1. StreamInv => NoAbort
  BY DEF StreamInv, IInv, NoAbort
<1> QED
  BY <1>1, StreamInvariance, PTL

\* Every byte written is with the engine, kept, held or queued, in order
\* (_buffers and _processChunk, lib/vcdiff.js:284-331).
THEOREM StreamInOrder ==
    ASSUME Retained = TRUE, MaxAccepted <= MaxChunk
    PROVE  StreamSpec => []InOrder
<1>1. StreamInv => InOrder
  BY DEF StreamInv, OrderInv
<1> QED
  BY <1>1, StreamInvariance, PTL

\* A flush that has its turn before the stream is ended calls back after the
\* output of all it covers was pushed (lib/vcdiff.js:231-248).
THEOREM FlushesDeliver ==
    ASSUME Retained = TRUE, MaxAccepted <= MaxChunk
    PROVE  StreamSpec => []FlushDelivers
<1>1. StreamInv => FlushDelivers
  BY DEF StreamInv, FlushInv
<1> QED
  BY <1>1, StreamInvariance, PTL

\* _forceFlush does not outlive the writes it was set for
\* (lib/vcdiff.js:243, 264-268).
THEOREM ForceFlushEndsSafe ==
    ASSUME Retained = TRUE, MaxAccepted <= MaxChunk
    PROVE  StreamSpec => []ForceFlushEnds
<1>1. StreamInv => ForceFlushEnds
  BY DEF StreamInv, ForceInv, ForceFlushEnds
<1> QED
  BY <1>1, StreamInvariance, PTL

\* A stream that pushed its end delivered every byte, in order.
LEMMA EndDelivered ==
    ASSUME StreamInv, rsEnded
    PROVE  Len(delivered) = written /\ delivered = accepted
<1>1. ended /\ ~failed /\ writing = "no"
  BY DEF StreamInv, EndInv
<1>2. ~awaiting
  BY <1>1 DEF StreamInv, ControlInv
<1>3. finished /\ IInv
  BY <1>1, <1>2 DEF StreamInv, IInv, BytesInv
<1>4. delivered \in Seq(Nat) /\ accepted \in Seq(Nat) /\ written \in Nat
  BY DEF StreamInv, IInv, TypeOK, JsTypeOK
<1>5. delivered = accepted
  <2>1. state = "DONE" /\ ~HasError /\ output_buffer = <<>>
    BY <1>3 DEF IInv, BytesInv
  <2> QED
    BY <1>3, <1>4, <2>1, DoneHoldsNothing, ConcatBytes
<1>6. ((accepted \o buffers) \o Held) \o BytesOf(queue) = Positions(written)
  BY <1>1 DEF StreamInv, OrderInv, InOrder, Positions
<1>7. buffers = <<>> /\ Held = <<>> /\ BytesOf(queue) = <<>>
  BY <1>1 DEF StreamInv, EndInv
<1>8. accepted = Positions(written)
  BY <1>4, <1>6, <1>7, ConcatBytes
<1> QED
  BY <1>4, <1>5, <1>8, PositionsType

\* When the end is pushed every byte was delivered (lib/vcdiff.js:252-276).
THEOREM EndIsComplete ==
    ASSUME Retained = TRUE, MaxAccepted <= MaxChunk
    PROVE  StreamSpec => []EndMeansAll
<1>1. StreamInv => EndMeansAll
  BY EndDelivered DEF EndMeansAll
<1> QED
  BY <1>1, StreamInvariance, PTL
=============================================================================
