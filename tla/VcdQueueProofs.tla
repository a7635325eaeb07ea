--------------------------- MODULE VcdQueueProofs ---------------------------
(***************************************************************************)
(* The bytes of the writable buffer: what BytesOf of VcdiffStream, a fold  *)
(* over a queue of requests, does when a request is added at its end or    *)
(* taken from its head.                                                    *)
(*                                                                         *)
(* The fold is a function on sets of indices that is defined by recursion. *)
(* That it exists is an induction on the length of the queue.              *)
(***************************************************************************)
EXTENDS VcdiffStream, VcdCtxProofs, WellFoundedInduction

-----------------------------------------------------------------------------
(* Natural numbers                                                         *)

\* A set of natural numbers has a least element ...
LEMMA LeastNat ==
    ASSUME NEW T, T \subseteq Nat, T # {}
    PROVE  \E x \in T : \A y \in T : x <= y
<1>1. \E x \in T : \A y \in T : <<y, x>> \notin OpToRel(<, Nat)
  BY NatLessThanWellFounded, WFMin, Zenon
<1>2. \A x \in T, y \in T : <<y, x>> \notin OpToRel(<, Nat) => ~(y < x)
  BY Zenon DEF OpToRel
<1>3. \E x \in T : \A y \in T : ~(y < x)
  BY <1>1, <1>2, Zenon
<1> QED
  BY <1>3

\* ... which is induction, with a set in the place of a predicate.
LEMMA Induction ==
    ASSUME NEW T, 0 \in T, \A n \in Nat : n \in T => n + 1 \in T
    PROVE  Nat \subseteq T
<1> SUFFICES ASSUME ~(Nat \subseteq T) PROVE FALSE
  OBVIOUS
<1>1. PICK x \in Nat \ T : \A y \in Nat \ T : x <= y
  <2> DEFINE U == Nat \ T
  <2>1. U \subseteq Nat /\ U # {}
    OBVIOUS
  <2> HIDE DEF U
  <2>2. \E x \in U : \A y \in U : x <= y
    BY <2>1, LeastNat
  <2> QED
    BY <2>2 DEF U
<1>2. x - 1 \in Nat /\ x - 1 \notin T
  BY <1>1
<1> QED
  BY <1>1, <1>2

\* The maximum of a set of indices.
LEMMA MaxOfIndices ==
    ASSUME NEW m \in Nat, NEW s \in SUBSET (1 .. m), s # {}
    PROVE  Max(s) \in s /\ \A y \in s : Max(s) >= y
<1> DEFINE T == {n \in Nat : \A y \in s : y <= n}
<1>1. m \in T
  OBVIOUS
<1>2. PICK x \in T : \A y \in T : x <= y
  <2>1. T \subseteq Nat /\ T # {}
    BY <1>1
  <2> HIDE DEF T
  <2> QED
    BY <2>1, LeastNat
<1>3. x \in s
  <2> SUFFICES ASSUME x \notin s PROVE FALSE
    OBVIOUS
  <2>1. \A y \in s : y \in Nat /\ y <= x /\ y # x /\ y >= 1
    BY <1>2
  <2>2. x \in Nat /\ x >= 1
    <3>1. PICK y \in s : TRUE
      OBVIOUS
    <3> QED
      BY <2>1, <3>1, <1>2
  <2>3. x - 1 \in Nat /\ \A y \in s : y <= x - 1
    BY <2>1, <2>2
  <2>4. x - 1 \in T
    BY <2>3
  <2> QED
    BY <2>2, <2>4, <1>2
<1>4. \E z \in s : \A y \in s : z >= y
  BY <1>3, <1>2
<1> QED
  BY <1>4, Zenon DEF Max

-----------------------------------------------------------------------------
(* The fold                                                                *)

\* The indices up to m + 1.
LEMMA Segments ==
    \A m \in Nat : /\ (1 .. m + 1) \ {m + 1} = 1 .. m
                   /\ 1 .. m + 1 # {}
                   /\ 1 .. m + 1 \in SUBSET (1 .. m + 1)
<1> SUFFICES ASSUME NEW m \in Nat
             PROVE  /\ (1 .. m + 1) \ {m + 1} = 1 .. m
                    /\ 1 .. m + 1 # {}
                    /\ 1 .. m + 1 \in SUBSET (1 .. m + 1)
  OBVIOUS
<1>1. (1 .. m + 1) \ {m + 1} = 1 .. m
  OBVIOUS
<1>2. 1 \in 1 .. m + 1
  OBVIOUS
<1> QED
  BY <1>1, <1>2

\* The function on sets of indices whose value at 1 .. m the fold takes.
FoldStep(h, q, s) ==
    IF s = {} THEN <<>> ELSE h[s \ {Max(s)}] \o q[Max(s)].bytes

IsFold(h, q, m) == h = [s \in SUBSET (1 .. m) |-> FoldStep(h, q, s)]

\* The function exists, for queues of any length.
LEMMA FoldExists == \A q : \A m \in Nat : \E h : IsFold(h, q, m)
<1> SUFFICES ASSUME NEW q PROVE \A m \in Nat : \E h : IsFold(h, q, m)
  OBVIOUS
<1> DEFINE T == {m \in Nat : \E h : IsFold(h, q, m)}
<1>1. 0 \in T
  <2> DEFINE h == [s \in SUBSET (1 .. 0) |-> <<>>]
  <2>1. \A s \in SUBSET (1 .. 0) : s = {}
    OBVIOUS
  <2>2. [s \in SUBSET (1 .. 0) |-> FoldStep(h, q, s)] = h
    BY <2>1 DEF FoldStep
  <2> QED
    BY <2>2 DEF IsFold
<1>2. ASSUME NEW m \in Nat, m \in T PROVE m + 1 \in T
  <2>1. PICK h : IsFold(h, q, m)
    BY <1>2
  <2> DEFINE g == [s \in SUBSET (1 .. m + 1) |->
                     IF m + 1 \in s THEN h[s \ {m + 1}] \o q[m + 1].bytes
                     ELSE h[s]]
  <2>2. ASSUME NEW s \in SUBSET (1 .. m + 1) PROVE g[s] = FoldStep(g, q, s)
    <3>1. CASE m + 1 \in s
      <4>1. Max(s) \in s /\ Max(s) >= m + 1
        BY MaxOfIndices, <3>1, m + 1 \in Nat
      <4>2. Max(s) = m + 1
        <5>1. Max(s) \in 1 .. m + 1
          BY <4>1
        <5> HIDE DEF T
        <5> QED
          BY <4>1, <5>1
      <4>3. s \ {m + 1} \in SUBSET (1 .. m)
        OBVIOUS
      <4>4. s \ {m + 1} \in SUBSET (1 .. m + 1) /\ m + 1 \notin s \ {m + 1}
        OBVIOUS
      <4>5. g[s \ {m + 1}] = h[s \ {m + 1}]
        BY <4>4
      <4> QED
        BY <3>1, <4>2, <4>5 DEF FoldStep
    <3>2. CASE m + 1 \notin s
      <4>1. s \in SUBSET (1 .. m)
        BY <3>2
      <4>2. g[s] = h[s]
        BY <3>2
      <4>3. h[s] = FoldStep(h, q, s)
        BY <2>1, <4>1 DEF IsFold
      <4>4. s # {} => g[s \ {Max(s)}] = h[s \ {Max(s)}]
        BY <3>2
      <4> QED
        BY <4>2, <4>3, <4>4 DEF FoldStep
    <3> QED
      BY <3>1, <3>2
  <2>3. g = [s \in SUBSET (1 .. m + 1) |-> FoldStep(g, q, s)]
    <3> HIDE DEF g
    <3>1. DOMAIN g = SUBSET (1 .. m + 1) /\ g = [s \in DOMAIN g |-> g[s]]
      BY DEF g
    <3> QED
      BY <3>1, <2>2
  <2>4. IsFold(g, q, m + 1)
    <3> HIDE DEF g
    <3> QED
      BY <2>3 DEF IsFold
  <2> QED
    BY <2>4
<1>3. Nat \subseteq T
  <2> HIDE DEF T
  <2> QED
    BY <1>1, <1>2, Induction
<1> QED
  BY <1>3

\* What the fold takes from the first k requests depends on them only.
LEMMA FoldAgrees ==
    ASSUME NEW q, NEW p, NEW m \in Nat, NEW n \in Nat,
           NEW h, NEW g, IsFold(h, q, m), IsFold(g, p, n),
           NEW k \in Nat, k <= m, k <= n, \A i \in 1 .. k : q[i] = p[i]
    PROVE  h[1 .. k] = g[1 .. k]
<1> DEFINE T == {j \in Nat : j <= k => h[1 .. j] = g[1 .. j]}
<1>1. 0 \in T
  <2>1. 1 .. 0 = {} /\ 1 .. 0 \in SUBSET (1 .. m) /\ 1 .. 0 \in SUBSET (1 .. n)
    OBVIOUS
  <2> QED
    BY <2>1 DEF IsFold, FoldStep
<1>2. ASSUME NEW j \in Nat, j \in T PROVE j + 1 \in T
  <2> SUFFICES ASSUME j + 1 <= k PROVE h[1 .. j + 1] = g[1 .. j + 1]
    OBVIOUS
  <2>1. h[1 .. j] = g[1 .. j]
    BY <1>2
  <2>2. Max(1 .. j + 1) = j + 1
    <3>1. 1 .. j + 1 \in SUBSET (1 .. j + 1) /\ 1 .. j + 1 # {} /\ j + 1 \in Nat
      OBVIOUS
    <3>2. Max(1 .. j + 1) \in 1 .. j + 1 /\ \A y \in 1 .. j + 1 : Max(1 .. j + 1) >= y
      BY <3>1, MaxOfIndices
    <3> QED
      BY <3>2
  <2>3. (1 .. j + 1) \ {j + 1} = 1 .. j /\ 1 .. j + 1 # {}
    OBVIOUS
  <2>4. 1 .. j + 1 \in SUBSET (1 .. m) /\ 1 .. j + 1 \in SUBSET (1 .. n)
    OBVIOUS
  <2>5. h[1 .. j + 1] = h[1 .. j] \o q[j + 1].bytes
    <3>1. h[1 .. j + 1] = FoldStep(h, q, 1 .. j + 1)
      BY <2>4, Zenon DEF IsFold
    <3> QED
      BY <3>1, <2>2, <2>3, Zenon DEF FoldStep
  <2>6. g[1 .. j + 1] = g[1 .. j] \o p[j + 1].bytes
    <3>1. g[1 .. j + 1] = FoldStep(g, p, 1 .. j + 1)
      BY <2>4, Zenon DEF IsFold
    <3> QED
      BY <3>1, <2>2, <2>3, Zenon DEF FoldStep
  <2>7. q[j + 1] = p[j + 1]
    OBVIOUS
  <2> QED
    BY <2>1, <2>5, <2>6, <2>7
<1>3. Nat \subseteq T
  <2> HIDE DEF T
  <2> QED
    BY <1>1, <1>2, Induction
<1> QED
  BY <1>3

\* BytesOf is that function at the indices of the queue.
LEMMA BytesOfIsFold ==
    ASSUME NEW q, NEW m \in Nat, DOMAIN q = 1 .. m
    PROVE  \E h : IsFold(h, q, m) /\ BytesOf(q) = h[1 .. m]
<1> DEFINE chosen == CHOOSE h : h = [s \in SUBSET (1 .. m) |->
                                       IF s = {} THEN <<>>
                                       ELSE h[s \ {Max(s)}] \o q[Max(s)].bytes]
<1>1. BytesOf(q) = chosen[1 .. m]
  BY DEF BytesOf, FoldLeft, MapThenFoldSet
<1>2. IsFold(chosen, q, m)
  BY FoldExists DEF IsFold, FoldStep
<1> QED
  BY <1>1, <1>2

-----------------------------------------------------------------------------
(* The bytes of a queue                                                    *)

\* An empty queue has no bytes.
LEMMA NoBytes == BytesOf(<<>>) = <<>>
<1>1. DOMAIN <<>> = 1 .. 0 /\ 0 \in Nat /\ 1 .. 0 = {} /\ {} \in SUBSET (1 .. 0)
  OBVIOUS
<1>2. PICK h : IsFold(h, <<>>, 0) /\ BytesOf(<<>>) = h[1 .. 0]
  BY <1>1, BytesOfIsFold
<1>3. h[1 .. 0] = FoldStep(h, <<>>, 1 .. 0)
  BY <1>1, <1>2, Zenon DEF IsFold
<1> QED
  BY <1>1, <1>2, <1>3 DEF FoldStep

\* A request that is queued adds its bytes at the end.
LEMMA BytesOfAppend ==
    ASSUME NEW q \in Seq(Request), NEW r \in Request
    PROVE  BytesOf(Append(q, r)) = BytesOf(q) \o r.bytes
<1> DEFINE p == Append(q, r)
           m == Len(q)
<1>1. /\ m \in Nat /\ DOMAIN q = 1 .. m /\ p \in Seq(Request)
      /\ Len(p) = m + 1 /\ \A i \in 1 .. m : p[i] = q[i]
      /\ p[m + 1] = r
  BY LenProperties, AppendProperties
<1>2. DOMAIN p = 1 .. m + 1
  BY <1>1, LenProperties
<1> HIDE DEF p, m
<1>3. PICK h : IsFold(h, q, m) /\ BytesOf(q) = h[1 .. m]
  BY <1>1, BytesOfIsFold
<1>4. PICK g : IsFold(g, p, m + 1) /\ BytesOf(p) = g[1 .. m + 1]
  BY <1>1, <1>2, BytesOfIsFold, m + 1 \in Nat
<1>5. g[1 .. m] = h[1 .. m]
  BY <1>1, <1>3, <1>4, FoldAgrees, m + 1 \in Nat, m <= m + 1
<1>6. Max(1 .. m + 1) = m + 1
  <2>1. 1 .. m + 1 \in SUBSET (1 .. m + 1) /\ 1 .. m + 1 # {} /\ m + 1 \in Nat
    BY <1>1
  <2>2. Max(1 .. m + 1) \in 1 .. m + 1 /\ \A y \in 1 .. m + 1 : Max(1 .. m + 1) >= y
    BY <2>1, MaxOfIndices
  <2> QED
    BY <1>1, <2>2
<1>7. (1 .. m + 1) \ {m + 1} = 1 .. m /\ 1 .. m + 1 # {}
      /\ 1 .. m + 1 \in SUBSET (1 .. m + 1)
  BY <1>1, Segments
<1>8. g[1 .. m + 1] = FoldStep(g, p, 1 .. m + 1)
  BY <1>4, <1>7, Zenon DEF IsFold
<1>9. g[1 .. m + 1] = g[1 .. m] \o p[m + 1].bytes
  BY <1>6, <1>7, <1>8, Zenon DEF FoldStep
<1> QED
  BY <1>1, <1>3, <1>4, <1>5, <1>9 DEF p

\* A property of queues that holds of the empty one and survives a request
\* holds of every queue.
LEMMA QueueInduction ==
    ASSUME NEW T, <<>> \in T,
           \A q \in Seq(Request), r \in Request : q \in T => Append(q, r) \in T
    PROVE  Seq(Request) \subseteq T
<1> DEFINE U == {n \in Nat : \A q \in Seq(Request) : Len(q) = n => q \in T}
<1>1. 0 \in U
  BY EmptySeq
<1>2. ASSUME NEW n \in Nat, n \in U PROVE n + 1 \in U
  <2> SUFFICES ASSUME NEW q \in Seq(Request), Len(q) = n + 1 PROVE q \in T
    OBVIOUS
  <2>1. PICK p \in Seq(Request), r \in Request : q = Append(p, r)
    <3>1. q # <<>>
      BY EmptySeq
    <3> QED
      BY <3>1, SequenceEmptyOrAppend
  <2>2. Len(p) = n
    BY <2>1, AppendProperties, LenProperties
  <2> QED
    BY <1>2, <2>1, <2>2
<1>3. Nat \subseteq U
  <2> HIDE DEF U
  <2> QED
    BY <1>1, <1>2, Induction
<1> QED
  BY <1>3, LenProperties

\* The bytes of a queue are a sequence of bytes.
LEMMA BytesOfType == \A q \in Seq(Request) : BytesOf(q) \in Seq(Nat)
<1> DEFINE T == {q \in Seq(Request) : BytesOf(q) \in Seq(Nat)}
<1>1. <<>> \in T
  BY NoBytes, EmptySeq
<1>2. ASSUME NEW q \in Seq(Request), NEW r \in Request, q \in T
      PROVE  Append(q, r) \in T
  <2>1. BytesOf(q) \o r.bytes \in Seq(Nat)
    BY <1>2, ConcatProperties DEF Request
  <2> QED
    BY <2>1, BytesOfAppend, AppendProperties
<1> HIDE DEF T
<1>3. Seq(Request) \subseteq T
  BY <1>1, <1>2, QueueInduction
<1> QED
  BY <1>3 DEF T

\* The request at the head of a queue has its first bytes.
LEMMA BytesOfHead ==
    \A q \in Seq(Request) :
        q # <<>> => BytesOf(q) = Head(q).bytes \o BytesOf(Tail(q))
<1> DEFINE T == {q \in Seq(Request) :
                   q # <<>> => BytesOf(q) = Head(q).bytes \o BytesOf(Tail(q))}
<1>1. <<>> \in T
  BY EmptySeq
<1>2. ASSUME NEW q \in Seq(Request), NEW r \in Request, q \in T
      PROVE  Append(q, r) \in T
  <2>1. /\ Append(q, r) \in Seq(Request)
        /\ BytesOf(Append(q, r)) = BytesOf(q) \o r.bytes
        /\ r.bytes \in Seq(Nat)
    BY AppendProperties, BytesOfAppend DEF Request
  <2>2. CASE q = <<>>
    <3>1. Head(Append(q, r)) = r /\ Tail(Append(q, r)) = <<>>
      BY <2>2, HeadTailAppend
    <3>2. <<>> \o r.bytes = r.bytes /\ r.bytes \o <<>> = r.bytes
      BY <2>1, ConcatEmptySeq
    <3>3. BytesOf(Append(q, r)) = Head(Append(q, r)).bytes
                                    \o BytesOf(Tail(Append(q, r)))
      BY <2>1, <2>2, <3>1, <3>2, NoBytes
    <3> QED
      BY <2>1, <3>3
  <2>3. CASE q # <<>>
    <3>1. /\ Head(Append(q, r)) = Head(q)
          /\ Tail(Append(q, r)) = Append(Tail(q), r)
      BY <2>3, HeadTailAppend
    <3>2. Head(q) \in Request /\ Tail(q) \in Seq(Request)
      BY <2>3, HeadTailProperties
    <3>3. Head(q).bytes \in Seq(Nat) /\ BytesOf(Tail(q)) \in Seq(Nat)
      BY <3>2, BytesOfType DEF Request
    <3>4. BytesOf(Append(Tail(q), r)) = BytesOf(Tail(q)) \o r.bytes
      BY <3>2, BytesOfAppend
    <3>5. (Head(q).bytes \o BytesOf(Tail(q))) \o r.bytes
            = Head(q).bytes \o (BytesOf(Tail(q)) \o r.bytes)
      BY <2>1, <3>3, AssocBytes
    <3>6. BytesOf(q) = Head(q).bytes \o BytesOf(Tail(q))
      BY <1>2, <2>3
    <3>7. BytesOf(Append(q, r)) = Head(Append(q, r)).bytes
                                    \o BytesOf(Tail(Append(q, r)))
      BY <2>1, <3>1, <3>4, <3>5, <3>6
    <3> QED
      BY <2>1, <3>7
  <2> QED
    BY <2>2, <2>3
<1> HIDE DEF T
<1>3. Seq(Request) \subseteq T
  BY <1>1, <1>2, QueueInduction
<1> QED
  BY <1>3 DEF T

\* Every byte of a queue is a byte of one of its requests.
LEMMA BytesOfMembers ==
    \A q \in Seq(Request) : \A i \in 1 .. Len(BytesOf(q)) :
        \E j \in 1 .. Len(q) : \E k \in 1 .. Len(q[j].bytes) :
            BytesOf(q)[i] = q[j].bytes[k]
<1> DEFINE Found(q) ==
             \A i \in 1 .. Len(BytesOf(q)) :
                 \E j \in 1 .. Len(q) : \E k \in 1 .. Len(q[j].bytes) :
                     BytesOf(q)[i] = q[j].bytes[k]
           T == {q \in Seq(Request) : Found(q)}
<1>1. <<>> \in T
  BY NoBytes, EmptySeq
<1>2. ASSUME NEW q \in Seq(Request), NEW r \in Request, q \in T
      PROVE  Append(q, r) \in T
  <2> DEFINE p == Append(q, r)
             b == BytesOf(q)
  <2>1. /\ p \in Seq(Request) /\ Len(p) = Len(q) + 1 /\ Len(q) \in Nat
        /\ \A j \in 1 .. Len(q) : p[j] = q[j]
        /\ p[Len(q) + 1] = r
        /\ BytesOf(p) = b \o r.bytes
    BY AppendProperties, BytesOfAppend, LenProperties
  <2>2. b \in Seq(Nat) /\ r.bytes \in Seq(Nat)
    BY BytesOfType DEF Request
  <2>3. /\ Len(b) \in Nat /\ Len(r.bytes) \in Nat
        /\ Len(BytesOf(p)) = Len(b) + Len(r.bytes)
        /\ \A i \in 1 .. Len(b) + Len(r.bytes) :
              BytesOf(p)[i] = IF i <= Len(b) THEN b[i] ELSE r.bytes[i - Len(b)]
    BY <2>1, <2>2, ConcatProperties, LenProperties
  <2>4. ASSUME NEW i \in 1 .. Len(BytesOf(p))
        PROVE  \E j \in 1 .. Len(p) : \E k \in 1 .. Len(p[j].bytes) :
                   BytesOf(p)[i] = p[j].bytes[k]
    <3> HIDE DEF p, b
    <3>1. CASE i <= Len(b)
      <4>i. i \in 1 .. Len(b)
        BY <3>1, <2>3
      <4>j. PICK j \in 1 .. Len(q) :
               \E k \in 1 .. Len(q[j].bytes) : b[i] = q[j].bytes[k]
        BY <1>2, <4>i DEF b
      <4>1. PICK k \in 1 .. Len(q[j].bytes) : b[i] = q[j].bytes[k]
        BY <4>j
      <4>2. j \in 1 .. Len(p) /\ p[j] = q[j]
        BY <2>1
      <4>3. BytesOf(p)[i] = b[i]
        BY <3>1, <2>3
      <4> QED
        BY <4>1, <4>2, <4>3
    <3>2. CASE i > Len(b)
      <4>1. i - Len(b) \in 1 .. Len(r.bytes)
        BY <2>3, <3>2
      <4>2. BytesOf(p)[i] = r.bytes[i - Len(b)]
        BY <2>3, <3>2
      <4>3. Len(q) + 1 \in 1 .. Len(p) /\ p[Len(q) + 1] = r
        BY <2>1
      <4> QED
        BY <4>1, <4>2, <4>3
    <3> QED
      BY <3>1, <3>2, <2>3
  <2> HIDE DEF b
  <2> QED
    BY <2>1, <2>4
<1>3. Seq(Request) \subseteq T
  <2> HIDE DEF T
  <2> QED
    BY <1>1, <1>2, QueueInduction
<1> QED
  BY <1>3
=============================================================================
