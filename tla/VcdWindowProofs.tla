--------------------------- MODULE VcdWindowProofs --------------------------
(***************************************************************************)
(* Windows that the encoder wrote are decoded to what was encoded, however *)
(* the delta is cut into chunks: for dictionaries, windows, instructions   *)
(* and address caches of any size, and whatever sizes are implicit in an   *)
(* opcode.                                                                 *)
(*                                                                         *)
(* The marks say where a decoder with all of the delta would be.  The      *)
(* encoder's half of the proof is that each mark leads to the next one by  *)
(* the tokens that were written, the decoder's that it is always at a mark *)
(* or in the instruction after one, and comes back to the mark when tokens *)
(* are missing.                                                            *)
(***************************************************************************)
EXTENDS VcdWindow, VcdAddressCacheProofs, SequenceTheorems, WellFoundedInduction

-----------------------------------------------------------------------------
(* Numbers                                                                 *)

\* Induction on the natural numbers, with a set in the place of a predicate.
LEMMA SetInduction ==
    ASSUME NEW T, 0 \in T, \A n \in Nat : n \in T => n + 1 \in T
    PROVE  Nat \subseteq T
<1> DEFINE U == Nat \ T
<1> SUFFICES ASSUME U # {} PROVE FALSE
  OBVIOUS
<1>1. PICK x \in U : \A y \in U : ~(y < x)
  <2>1. U \subseteq Nat
    OBVIOUS
  <2> HIDE DEF U
  <2>2. \E x \in U : \A y \in U : <<y, x>> \notin OpToRel(<, Nat)
    BY <2>1, NatLessThanWellFounded, WFMin, Zenon
  <2>3. \A x \in U, y \in U : <<y, x>> \notin OpToRel(<, Nat) => ~(y < x)
    BY <2>1, Zenon DEF OpToRel
  <2> QED
    BY <2>2, <2>3, Zenon
<1>2. x - 1 \in Nat /\ x - 1 \notin T
  BY <1>1
<1> QED
  BY <1>1, <1>2

\* The remainder of a division has period p.
LEMMA Remainder ==
    ASSUME NEW p \in Nat \ {0}, NEW x \in Nat
    PROVE  /\ x % p \in 0 .. p - 1
           /\ x < p => x % p = x
           /\ x >= p => x % p = (x - p) % p
<1>1. x % p \in 0 .. p - 1 /\ x = p * (x \div p) + (x % p) /\ x \div p \in Nat
  BY SMT
<1>2. ASSUME x < p PROVE x % p = x
  <2>1. x \div p = 0
    <3>1. SUFFICES ASSUME x \div p >= 1 PROVE FALSE
      BY <1>1
    <3>2. p * (x \div p) >= p
      BY <1>1, <3>1, SMT
    <3> QED
      BY <1>1, <1>2, <3>2
  <2> QED
    BY <1>1, <2>1
<1>3. ASSUME x >= p PROVE x % p = (x - p) % p
  <2> DEFINE y == x - p
             q == x \div p
             r == y \div p
             a == x % p
             b == y % p
  <2>1. y \in Nat
    BY <1>3
  <2>2. b \in 0 .. p - 1 /\ y = p * r + b /\ r \in Nat
    BY <2>1, SMT
  <2>3. x = p * q + a /\ a \in 0 .. p - 1 /\ q \in Nat
    BY <1>1
  <2>4. x = y + p
    OBVIOUS
  <2> HIDE DEF y, q, r, a, b
  <2>5. p * q + a = p * (r + 1) + b
    BY <2>2, <2>3, <2>4, SMT
  <2>6. ~(q >= r + 2)
    <3> SUFFICES ASSUME q >= r + 2 PROVE FALSE
      OBVIOUS
    <3>1. p * q >= p * (r + 1) + p
      BY <2>2, <2>3, SMT
    <3> QED
      BY <2>2, <2>3, <2>5, <3>1, SMT
  <2>7. ~(q <= r)
    <3> SUFFICES ASSUME q <= r PROVE FALSE
      OBVIOUS
    <3>1. p * q + p <= p * (r + 1)
      BY <2>2, <2>3, SMT
    <3> QED
      BY <2>2, <2>3, <2>5, <3>1, SMT
  <2>8. q = r + 1
    BY <2>2, <2>3, <2>6, <2>7
  <2>9. a = b
    BY <2>2, <2>3, <2>5, <2>8, SMT
  <2> QED
    BY <2>9 DEF a, b, y
<1> QED
  BY <1>1, <1>2, <1>3

-----------------------------------------------------------------------------
(* Sequences                                                               *)

\* A prefix, element by element ...
LEMMA PrefixElements ==
    ASSUME NEW s \in Seq(Nat), NEW t \in Seq(Nat)
    PROVE  IsPrefix(s, t)
             <=> Len(s) <= Len(t) /\ \A i \in 1 .. Len(s) : s[i] = t[i]
<1>1. Len(s) \in Nat /\ Len(t) \in Nat
  BY LenProperties
<1>2. SubSeq(s, 1, Len(s)) = s
  BY SubSeqFull
<1> DEFINE u == SubSeq(t, 1, Len(s))
<1>3. ASSUME Len(s) <= Len(t)
      PROVE  /\ u \in Seq(Nat) /\ Len(u) = Len(s)
             /\ \A i \in 1 .. Len(s) : u[i] = t[i]
  <2>1. \A i \in 1 .. Len(s) : t[i] \in Nat
    BY <1>1, <1>3, ElementOfSeq
  <2> QED
    BY <1>1, <2>1, SubSeqProperties
<1> HIDE DEF u
<1>4. Len(s) <= Len(t) => (s = u <=> \A i \in 1 .. Len(s) : s[i] = t[i])
  BY <1>1, <1>3, SeqEqual
<1> QED
  BY <1>2, <1>4 DEF IsPrefix, u

\* ... stays one when the other sequence grows.
LEMMA PrefixGrows ==
    ASSUME NEW s \in Seq(Nat), NEW t \in Seq(Nat), NEW u \in Seq(Nat),
           IsPrefix(s, t)
    PROVE  IsPrefix(s, t \o u)
<1> DEFINE v == t \o u
<1>1. /\ v \in Seq(Nat) /\ Len(v) = Len(t) + Len(u)
      /\ \A i \in 1 .. Len(t) : v[i] = t[i]
      /\ Len(s) \in Nat /\ Len(t) \in Nat /\ Len(u) \in Nat
  BY ConcatProperties, LenProperties
<1> HIDE DEF v
<1>2. Len(s) <= Len(t) /\ \A i \in 1 .. Len(s) : s[i] = t[i]
  BY PrefixElements
<1>3. Len(s) <= Len(v) /\ \A i \in 1 .. Len(s) : s[i] = v[i]
  BY <1>1, <1>2
<1>4. IsPrefix(s, v)
  BY <1>1, <1>3, PrefixElements
<1> QED
  BY <1>4 DEF v

LEMMA PrefixSelf == \A s \in Seq(Nat) : IsPrefix(s, s)
  BY PrefixElements, LenProperties

LEMMA ConcatNat ==
    /\ <<>> \in Seq(Nat)
    /\ \A s, t \in Seq(Nat) :
          /\ s \o t \in Seq(Nat) /\ Len(s) \in Nat /\ Len(s \o t) = Len(s) + Len(t)
    /\ \A s \in Seq(Nat) : s \o <<>> = s
    /\ \A s, t, u \in Seq(Nat) : (s \o t) \o u = s \o (t \o u)
BY EmptySeq, ConcatProperties, ConcatEmptySeq, ConcatAssociative, LenProperties

LEMMA ConcatAssoc ==
    ASSUME NEW s \in Seq(Nat), NEW t \in Seq(Nat), NEW u \in Seq(Nat)
    PROVE  (s \o t) \o u = s \o (t \o u)
BY ConcatAssociative, SMTT(20)

-----------------------------------------------------------------------------
(* DecodeCopy's loop copies what the encoder matched                       *)

LEMMA MatchType ==
    ASSUME NEW before \in Seq(Nat), NEW address \in 0 .. Len(before) - 1,
           NEW n \in Nat
    PROVE  /\ Match(before, address, n) \in Seq(Nat)
           /\ Len(Match(before, address, n)) = n
           /\ \A i \in 1 .. n : Match(before, address, n)[i] =
                 before[address + 1 + ((i - 1) % (Len(before) - address))]
<1> DEFINE p == Len(before) - address
           m == Match(before, address, n)
<1>1. Len(before) \in Nat /\ p \in Nat \ {0} /\ address \in Nat
  BY LenProperties
<1>2. \A i \in 1 .. n : (i - 1) % p \in 0 .. p - 1
  <2> HIDE DEF p
  <2>1. \A i \in 1 .. n : i - 1 \in Nat
    OBVIOUS
  <2> QED
    BY <1>1, <2>1, Remainder
<1>3. \A i \in 1 .. n : address + 1 + ((i - 1) % p) \in 1 .. Len(before)
  BY <1>1, <1>2
<1>4. \A i \in 1 .. n : before[address + 1 + ((i - 1) % p)] \in Nat
  BY <1>3, ElementOfSeq
<1>5. m = [i \in 1 .. n |-> before[address + 1 + ((i - 1) % p)]]
  BY DEF Match
<1>6. m \in [1 .. n -> Nat]
  BY <1>4, <1>5
<1> HIDE DEF m
<1>7. m \in Seq(Nat) /\ Len(m) = n
  BY <1>6, SeqDef
<1> QED
  BY <1>5, <1>7 DEF m

\* One turn of the loop: the byte it appends is the next one of the match,
\* though it may have been appended itself.
LEMMA CopyTurn ==
    ASSUME NEW before \in Seq(Nat), NEW address \in 0 .. Len(before) - 1,
           NEW n \in Nat
    PROVE  LET done == before \o Match(before, address, n)
           IN before \o Match(before, address, n + 1)
                = Append(done, done[address + (n + 1)])
<1> DEFINE m == Match(before, address, n)
           l == Match(before, address, n + 1)
           p == Len(before) - address
           len == Len(before)
           done == before \o m
           longer == before \o l
           b == done[address + (n + 1)]
           appended == Append(done, b)
<1>0. n + 1 \in Nat
  OBVIOUS
<1>1. /\ m \in Seq(Nat) /\ l \in Seq(Nat) /\ Len(m) = n /\ Len(l) = n + 1
      /\ \A i \in 1 .. n : m[i] = before[address + 1 + ((i - 1) % p)]
      /\ \A i \in 1 .. n + 1 : l[i] = before[address + 1 + ((i - 1) % p)]
  BY <1>0, MatchType
<1>2. /\ len \in Nat /\ p \in Nat \ {0} /\ address \in Nat
      /\ p = len - address
  BY LenProperties
<1> HIDE DEF m, l, p
<1>3. /\ done \in Seq(Nat) /\ Len(done) = len + n
      /\ \A i \in 1 .. len + n : done[i] = IF i <= len THEN before[i] ELSE m[i - len]
  BY <1>1, ConcatProperties
<1>4. /\ longer \in Seq(Nat) /\ Len(longer) = len + (n + 1)
      /\ \A i \in 1 .. len + (n + 1) :
            longer[i] = IF i <= len THEN before[i] ELSE l[i - len]
  <2>1. l \in Seq(Nat) /\ Len(l) = n + 1
    BY <1>1
  <2> DEFINE u == l
             d == n + 1
  <2>2. u \in Seq(Nat) /\ Len(u) = d
    BY <2>1
  <2> HIDE DEF u, d
  <2>3. /\ before \o u \in Seq(Nat) /\ Len(before \o u) = len + d
        /\ \A i \in 1 .. len + d :
              (before \o u)[i] = IF i <= len THEN before[i] ELSE u[i - len]
    BY <2>2, ConcatProperties
  <2> QED
    BY <2>3 DEF u, d
<1> HIDE DEF done, longer, len
<1>5. b = l[n + 1]
  <2>1. l[n + 1] = before[address + 1 + (n % p)]
    <3>1. n + 1 \in 1 .. n + 1 /\ (n + 1) - 1 = n
      OBVIOUS
    <3> QED
      BY <1>1, <3>1
  <2>2. CASE n < p
    <3>1. n % p = n
      BY <1>2, <2>2, Remainder
    <3>2. address + (n + 1) \in 1 .. len
      BY <1>2, <2>2
    <3>3. b = before[address + (n + 1)]
      BY <1>2, <1>3, <3>2
    <3>4. address + 1 + n = address + (n + 1)
      BY <1>2
    <3> QED
      BY <2>1, <3>1, <3>3, <3>4
  <2>3. CASE n >= p
    <3>1. n % p = (n - p) % p
      BY <1>2, <2>3, Remainder
    <3> DEFINE j == address + (n + 1)
    <3>2. b = done[j]
      OBVIOUS
    <3>3. j \in 1 .. len + n /\ ~(j <= len) /\ j - len = n - p + 1
      <4>1. j \in Nat /\ j - len = n - p + 1
        BY <1>2
      <4> QED
        BY <1>2, <2>3, <4>1
    <3> HIDE DEF j, b
    <3>4. b = m[n - p + 1]
      <4>1. done[j] = m[j - len]
        BY <1>3, <3>3
      <4> QED
        BY <3>2, <3>3, <4>1
    <3>5. n - p + 1 \in 1 .. n /\ (n - p + 1) - 1 = n - p
      BY <1>2, <2>3
    <3>6. m[n - p + 1] = before[address + 1 + ((n - p) % p)]
      BY <1>1, <3>5
    <3> QED
      BY <2>1, <3>1, <3>4, <3>6
  <2> QED
    BY <1>2, <2>2, <2>3
<1>6. b \in Nat
  <2>1. n + 1 \in 1 .. Len(l)
    BY <1>1
  <2> QED
    BY <1>1, <1>5, <2>1, ElementOfSeq
<1> HIDE DEF b
<1>7. /\ appended \in Seq(Nat) /\ Len(appended) = len + (n + 1)
      /\ \A i \in 1 .. len + n : appended[i] = done[i]
      /\ appended[len + (n + 1)] = b
  <2>1. len + n + 1 = len + (n + 1)
    BY <1>2
  <2> QED
    BY <1>3, <1>6, <2>1, AppendProperties
<1> HIDE DEF appended
<1>8. ASSUME NEW i \in 1 .. len + (n + 1)
      PROVE  longer[i] = appended[i]
  <2>1. CASE i = len + (n + 1)
    <3>1. ~(i <= len) /\ i - len = n + 1
      BY <1>2, <2>1
    <3>2. longer[i] = l[n + 1]
      BY <1>4, <3>1
    <3> QED
      BY <1>5, <1>7, <2>1, <3>2
  <2>2. CASE i <= len
    <3>1. i \in 1 .. len + n
      BY <1>2, <2>2
    <3> QED
      BY <1>3, <1>4, <1>7, <2>2, <3>1
  <2>3. CASE i > len /\ i <= len + n
    <3>1. i - len \in 1 .. n /\ i \in 1 .. len + n /\ ~(i <= len)
      BY <1>2, <2>3
    <3>2. m[i - len] = l[i - len]
      <4> DEFINE j == i - len
      <4>1. j \in 1 .. n /\ j \in 1 .. n + 1
        BY <1>2, <3>1
      <4> HIDE DEF j
      <4>2. m[j] = l[j]
        BY <1>1, <4>1, Zenon
      <4> QED
        BY <4>2 DEF j
    <3> QED
      BY <1>3, <1>4, <1>7, <3>1, <3>2
  <2>4. i = len + (n + 1) \/ i <= len \/ (i > len /\ i <= len + n)
    BY <1>2
  <2> QED
    BY <2>1, <2>2, <2>3, <2>4
<1>9. longer = appended
  BY <1>4, <1>7, <1>8, SeqEqual
<1> QED
  BY <1>9 DEF longer, appended, b, done, m, l

\* So the whole loop appends the match, however much it overlaps what it
\* appends (vcdecoder.cc:1263-1310).
THEOREM CopyIsMatch ==
    ASSUME NEW before \in Seq(Nat), NEW address \in 0 .. Len(before) - 1,
           NEW n \in Nat
    PROVE  CopyBytes(before, address, n) = Match(before, address, n)
<1> DEFINE m(k) == Match(before, address, k)
           Turns(f) == f = [k \in 0 .. n |->
                              IF k = 0 THEN before
                              ELSE Append(f[k - 1], f[k - 1][address + k])]
           g == [k \in 0 .. n |-> before \o m(k)]
           all == CHOOSE f : Turns(f)
<1>1. before \o m(0) = before
  <2>1. m(0) \in Seq(Nat) /\ Len(m(0)) = 0
    BY MatchType
  <2>2. m(0) = <<>>
    BY <2>1, EmptySeq
  <2> QED
    BY <2>2, ConcatNat
<1>2. ASSUME NEW k \in 1 .. n
      PROVE  before \o m(k) = Append(before \o m(k - 1), (before \o m(k - 1))[address + k])
  <2>1. PICK j \in Nat : k = j + 1
    <3>1. k - 1 \in Nat /\ k = (k - 1) + 1
      OBVIOUS
    <3> QED
      BY <3>1
  <2>2. before \o m(j + 1) = Append(before \o m(j), (before \o m(j))[address + (j + 1)])
    BY CopyTurn
  <2>3. j = k - 1
    BY <2>1
  <2> QED
    BY <2>1, <2>2, <2>3
<1>3. Turns(g)
  <2>1. \A k \in 1 .. n : k - 1 \in 0 .. n /\ g[k - 1] = before \o m(k - 1)
    <3>1. \A k \in 1 .. n : k - 1 \in 0 .. n
      OBVIOUS
    <3> HIDE DEF m
    <3> QED
      BY <3>1
  <2> HIDE DEF m
  <2>2. ASSUME NEW k \in 0 .. n
        PROVE  g[k] = IF k = 0 THEN before ELSE Append(g[k - 1], g[k - 1][address + k])
    <3>1. CASE k = 0
      <4>1. g[k] = before \o m(k)
        OBVIOUS
      <4> QED
        BY <1>1, <3>1, <4>1
    <3>2. CASE k # 0
      <4>1. k \in 1 .. n
        BY <3>2
      <4>2. g[k] = before \o m(k) /\ g[k - 1] = before \o m(k - 1)
        BY <2>1, <4>1
      <4> HIDE DEF g
      <4>3. g[k] = Append(g[k - 1], g[k - 1][address + k])
        BY <1>2, <4>1, <4>2
      <4> QED
        BY <3>2, <4>3
    <3> QED
      BY <3>1, <3>2
  <2> QED
    BY <2>2, Zenon
<1>4. Turns(all)
  <2>1. \E f : Turns(f)
    BY <1>3
  <2> HIDE DEF Turns
  <2> QED
    BY <2>1, Zenon
<1>5. all[n] = before \o m(n)
  <2> HIDE DEF all, m
  <2> DEFINE T == {k \in Nat : k <= n => all[k] = before \o m(k)}
  <2>1. 0 \in T
    BY <1>1, <1>4
  <2>2. ASSUME NEW k \in Nat, k \in T PROVE k + 1 \in T
    <3> SUFFICES ASSUME k + 1 <= n PROVE all[k + 1] = before \o m(k + 1)
      OBVIOUS
    <3>1. all[k] = before \o m(k)
      BY <2>2
    <3>2. k + 1 \in 1 .. n /\ (k + 1) - 1 = k
      OBVIOUS
    <3>3. all[k + 1] = Append(all[k], all[k][address + (k + 1)])
      <4> DEFINE j == k + 1
      <4>1. j \in 0 .. n /\ j # 0 /\ j - 1 = k
        BY <3>2
      <4> HIDE DEF j
      <4>2. all[j] = IF j = 0 THEN before ELSE Append(all[j - 1], all[j - 1][address + j])
        BY <1>4, <4>1
      <4>3. all[j] = Append(all[k], all[k][address + j])
        BY <4>1, <4>2
      <4> QED
        BY <4>3 DEF j
    <3>4. before \o m(k + 1) = Append(before \o m(k), (before \o m(k))[address + (k + 1)])
      BY <1>2, <3>2
    <3> QED
      BY <3>1, <3>3, <3>4
  <2> HIDE DEF T
  <2>3. n \in T
    BY <2>1, <2>2, SetInduction
  <2> QED
    BY <2>3 DEF T
<1>6. CopyBytes(before, address, n) = SubSeq(all[n], Len(before) + 1, Len(before) + n)
  BY DEF CopyBytes
<1>7. /\ m(n) \in Seq(Nat) /\ Len(m(n)) = n /\ Len(before) \in Nat
      /\ \A i \in 1 .. Len(before) + n : (before \o m(n))[i] =
            IF i <= Len(before) THEN before[i] ELSE m(n)[i - Len(before)]
  <2>1. m(n) \in Seq(Nat) /\ Len(m(n)) = n
    BY MatchType
  <2> HIDE DEF m
  <2> QED
    BY <2>1, LenProperties, ConcatProperties
<1> HIDE DEF all, m
<1>8. \A i \in 1 .. n : /\ (before \o m(n))[Len(before) + i] = m(n)[i]
                        /\ m(n)[i] \in Nat
  BY <1>7, ElementOfSeq
<1> DEFINE s == before \o m(n)
           c == SubSeq(s, Len(before) + 1, Len(before) + n)
<1>9. \A i \in Len(before) + 1 .. Len(before) + n : s[i] \in Nat
  BY <1>7, ElementOfSeq
<1> HIDE DEF s
<1>10. /\ c \in Seq(Nat)
       /\ Len(c) = n
       /\ \A i \in 1 .. n : c[i] = s[Len(before) + i]
  <2>1. Len(before) + 1 \in Int /\ Len(before) + n \in Int
    BY <1>7
  <2> QED
    BY <1>7, <1>9, <2>1, SubSeqProperties
<1> HIDE DEF c
<1>11. c = m(n)
  <2> DEFINE u == m(n)
  <2>1. \A i \in 1 .. n : c[i] = u[i]
    BY <1>8, <1>10 DEF s
  <2>2. c \in Seq(Nat) /\ u \in Seq(Nat) /\ Len(c) = n /\ Len(u) = n
    BY <1>7, <1>10
  <2> HIDE DEF u
  <2>3. c = u
    BY <2>1, <2>2, SeqEqual
  <2> QED
    BY <2>3 DEF u
<1> QED
  BY <1>5, <1>6, <1>11 DEF c, s, m

-----------------------------------------------------------------------------
(* Marks and the tokens between them                                       *)

LEMMA MarkFields ==
    ASSUME NEW m \in Mark
    PROVE  /\ m.win \in Nat /\ m.pos \in Nat /\ m.pending \in Seq(Instruction)
           /\ m.cache \in Cache /\ m.decoded \in Seq(Nat) /\ m.output \in Seq(Nat)
           /\ Len(m.decoded) \in Nat
  BY LenProperties DEF Mark

LEMMA StartType ==
    ASSUME NEW win \in Nat, NEW out \in Seq(Nat)
    PROVE  Start(win, out) \in Mark
  BY InitialCacheType, ConcatNat, EmptySeq DEF Start, Mark, kNoOpcode

\* An address that is not refused is before the position.
LEMMA AddressInRange ==
    ASSUME NEW cache, NEW code, NEW here \in Nat,
           DecodeAddress(cache, code, here) # RESULT_ERROR
    PROVE  DecodeAddress(cache, code, here) \in 0 .. here - 1
  BY DEF DecodeAddress, IsDecodedAddressValid

\* An instruction has at least one token after its opcode and its size, and
\* grows the target.
LEMMA LeadsFacts ==
    ASSUME NEW s, NEW m \in Mark, NEW next \in Mark, LeadsTo(s, m, next)
    PROVE  /\ InstructionAt(s, m) \in Instruction
           /\ SizeFrom(m) \in Nat /\ OperandFrom(s, m) \in Nat
           /\ SizeAt(s, m) \in Nat \ {0}
           /\ m.pos <= SizeFrom(m) /\ SizeFrom(m) <= OperandFrom(s, m)
           /\ OperandFrom(s, m) < next.pos
           /\ next.win = m.win /\ next.output = m.output
           /\ Len(next.decoded) = Len(m.decoded) + SizeAt(s, m)
           /\ m.pending = kNoOpcode => SizeFrom(m) = m.pos + 1
           /\ InstructionAt(s, m).size = 0 => OperandFrom(s, m) = SizeFrom(m) + 1
<1> DEFINE p == OperandFrom(s, m)
           n == SizeAt(s, m)
           i == InstructionAt(s, m)
<1>1. i \in Instruction /\ n \in Nat \ {0} /\ next.win = m.win /\ next.output = m.output
  BY DEF LeadsTo
<1>2. SizeFrom(m) \in Nat /\ m.pos <= SizeFrom(m)
      /\ (m.pending = kNoOpcode => SizeFrom(m) = m.pos + 1)
  BY MarkFields DEF SizeFrom
<1>3. p \in Nat /\ SizeFrom(m) <= p /\ (i.size = 0 => p = SizeFrom(m) + 1)
  BY <1>2 DEF OperandFrom
<1>4. CASE LeadsByAdd(s, m, next)
  <2> DEFINE data == [k \in 1 .. n |-> s[p + k].data]
  <2>1. next.pos = p + n /\ next.decoded = m.decoded \o data
    BY <1>4 DEF LeadsByAdd
  <2>2. \A k \in 1 .. n : s[p + k].data \in Nat
    BY <1>4 DEF LeadsByAdd
  <2> HIDE DEF n, p, i
  <2>3. data \in [1 .. n -> Nat]
    BY <2>2
  <2> HIDE DEF data
  <2>4. data \in Seq(Nat) /\ Len(data) = n
    BY <1>1, <2>3, SeqDef
  <2>5. Len(next.decoded) = Len(m.decoded) + n
    <3>1. m.decoded \in Seq(Nat)
      BY MarkFields
    <3>2. Len(m.decoded \o data) = Len(m.decoded) + Len(data)
      BY <2>4, <3>1, ConcatNat
    <3> QED
      BY <2>1, <2>4, <3>2
  <2>6. p < next.pos
    BY <1>1, <1>3, <2>1
  <2> QED
    BY <1>1, <1>2, <1>3, <2>5, <2>6 DEF n, p, i
<1>5. CASE LeadsByCopy(s, m, next)
  <2> DEFINE address == AddressAt(s, m)
             before  == dictionary \o m.decoded
             bytes   == Match(before, address, n)
  <2>1. /\ next.pos = p + 1 /\ address # RESULT_ERROR
        /\ next.decoded = m.decoded \o CopyBytes(before, address, n)
    BY <1>5 DEF LeadsByCopy
  <2>2. before \in Seq(Nat) /\ Len(before) = Len(dictionary) + Len(m.decoded)
        /\ Len(before) \in Nat
    BY WindowAssumption, MarkFields, ConcatNat
  <2>3. address \in 0 .. Len(before) - 1
    BY <2>1, <2>2, AddressInRange DEF AddressAt
  <2> HIDE DEF n, p, i, address, before
  <2>4. CopyBytes(before, address, n) = bytes /\ bytes \in Seq(Nat) /\ Len(bytes) = n
    BY <1>1, <2>2, <2>3, CopyIsMatch, MatchType
  <2> HIDE DEF bytes
  <2>5. Len(next.decoded) = Len(m.decoded) + n
    <3>1. m.decoded \in Seq(Nat)
      BY MarkFields
    <3>2. Len(m.decoded \o bytes) = Len(m.decoded) + Len(bytes)
      BY <2>4, <3>1, ConcatProperties, Zenon
    <3> QED
      BY <2>1, <2>4, <3>2
  <2>6. p < next.pos
    BY <1>3, <2>1
  <2> QED
    BY <1>1, <1>2, <1>3, <2>5, <2>6 DEF n, p, i
<1> QED
  BY <1>4, <1>5 DEF LeadsTo

\* An instruction reads the tokens up to the next mark and no others.
LEMMA LeadsFrame ==
    ASSUME NEW s, NEW t, NEW m \in Mark, NEW next \in Mark,
           LeadsTo(s, m, next),
           \A k \in m.pos + 1 .. next.pos : t[k] = s[k]
    PROVE  LeadsTo(t, m, next)
<1> DEFINE p == OperandFrom(s, m)
           n == SizeAt(s, m)
           i == InstructionAt(s, m)
<1>1. /\ p \in Nat /\ n \in Nat \ {0} /\ SizeFrom(m) \in Nat /\ next.pos \in Nat
      /\ m.pos \in Nat /\ m.pos <= SizeFrom(m) /\ SizeFrom(m) <= p /\ p < next.pos
      /\ m.pending = kNoOpcode => SizeFrom(m) = m.pos + 1
      /\ i.size = 0 => p = SizeFrom(m) + 1
  BY LeadsFacts, MarkFields
<1>2. \A k \in Nat : m.pos < k /\ k <= next.pos => t[k] = s[k]
  BY <1>1
<1>3. m.pending = kNoOpcode => t[m.pos + 1] = s[m.pos + 1]
  BY <1>1
<1>4. InstructionAt(t, m) = i
  BY <1>3 DEF InstructionAt
<1>5. OperandFrom(t, m) = p
  BY <1>4 DEF OperandFrom
<1>6. i.size = 0 => t[SizeFrom(m) + 1] = s[SizeFrom(m) + 1]
  BY <1>1, <1>2
<1>7. SizeAt(t, m) = n
  BY <1>4, <1>6 DEF SizeAt
<1>8. t[p + 1] = s[p + 1]
  BY <1>1, <1>2
<1>9. AddressAt(t, m) = AddressAt(s, m)
  BY <1>4, <1>5, <1>8 DEF AddressAt
<1>10. ASSUME LeadsByAdd(s, m, next) PROVE LeadsByAdd(t, m, next)
  <2> DEFINE data == [k \in 1 .. n |-> s[p + k].data]
             same == [k \in 1 .. n |-> t[p + k].data]
  <2>1. next.pos = p + n
    BY <1>10 DEF LeadsByAdd
  <2>2. \A k \in 1 .. n : t[p + k] = s[p + k]
    <3> HIDE DEF p, n, i
    <3> QED
      BY <1>1, <1>2, <2>1
  <2>3. data = same
    <3> HIDE DEF p, n, i
    <3> QED
      BY <2>2
  <2>4. next.decoded = m.decoded \o same /\ (\A k \in 1 .. n : t[p + k] \in [data : Nat])
    BY <1>10, <2>2, <2>3 DEF LeadsByAdd
  <2> QED
    BY <1>10, <1>4, <1>5, <1>7, <2>1, <2>4 DEF LeadsByAdd
<1>11. ASSUME LeadsByCopy(s, m, next) PROVE LeadsByCopy(t, m, next)
  BY <1>11, <1>4, <1>5, <1>7, <1>8, <1>9 DEF LeadsByCopy
<1> QED
  BY <1>3, <1>4, <1>6, <1>7, <1>10, <1>11 DEF LeadsTo

\* An opcode to which a second instruction is added leaves that one pending.
LEMMA LeadsToSecond ==
    ASSUME NEW s, NEW t, NEW m \in Mark, NEW next \in Mark, NEW second,
           LeadsTo(s, m, next),
           m.pending = kNoOpcode, next.pending = kNoOpcode,
           t[m.pos + 1] = [opcode |-> <<InstructionAt(s, m)>> \o <<second>>],
           \A k \in m.pos + 2 .. next.pos : t[k] = s[k]
    PROVE  LeadsTo(t, m, [next EXCEPT !.pending = <<second>>])
<1> DEFINE p == OperandFrom(s, m)
           n == SizeAt(s, m)
           i == InstructionAt(s, m)
           then == [next EXCEPT !.pending = <<second>>]
<1>1. /\ p \in Nat /\ n \in Nat \ {0} /\ SizeFrom(m) \in Nat /\ next.pos \in Nat
      /\ m.pos \in Nat /\ SizeFrom(m) = m.pos + 1 /\ SizeFrom(m) <= p /\ p < next.pos
      /\ i.size = 0 => p = SizeFrom(m) + 1
  BY LeadsFacts, MarkFields
<1>2. \A k \in Nat : m.pos + 1 < k /\ k <= next.pos => t[k] = s[k]
  BY <1>1
<1>3. t[m.pos + 1] = [opcode |-> <<i>> \o <<second>>]
  OBVIOUS
<1>4. InstructionAt(t, m) = i
  <2>1. t[m.pos + 1].opcode = <<i>> \o <<second>>
    BY <1>3
  <2>2. (<<i>> \o <<second>>)[1] = i
    BY SMT
  <2> QED
    BY <2>1, <2>2 DEF InstructionAt
<1>5. OperandFrom(t, m) = p
  BY <1>4 DEF OperandFrom
<1>6. i.size = 0 => t[SizeFrom(m) + 1] = s[SizeFrom(m) + 1]
  BY <1>1, <1>2
<1>7. SizeAt(t, m) = n
  BY <1>4, <1>6 DEF SizeAt
<1>8. t[p + 1] = s[p + 1]
  BY <1>1, <1>2
<1>9. AddressAt(t, m) = AddressAt(s, m)
  BY <1>4, <1>5, <1>8 DEF AddressAt
<1>10. /\ then.win = next.win /\ then.pos = next.pos /\ then.cache = next.cache
       /\ then.decoded = next.decoded /\ then.output = next.output
       /\ then.pending = <<second>>
  BY DEF Mark
<1>11. ASSUME LeadsByAdd(s, m, next) PROVE LeadsByAdd(t, m, then)
  <2> DEFINE data == [k \in 1 .. n |-> s[p + k].data]
             same == [k \in 1 .. n |-> t[p + k].data]
  <2>1. next.pos = p + n
    BY <1>11 DEF LeadsByAdd
  <2>2. \A k \in 1 .. n : t[p + k] = s[p + k]
    <3> HIDE DEF p, n, i
    <3> QED
      BY <1>1, <1>2, <2>1
  <2>3. data = same
    <3> HIDE DEF p, n, i
    <3> QED
      BY <2>2
  <2>4. next.decoded = m.decoded \o same /\ (\A k \in 1 .. n : t[p + k] \in [data : Nat])
    BY <1>11, <2>2, <2>3 DEF LeadsByAdd
  <2> HIDE DEF then
  <2> QED
    BY <1>10, <1>11, <1>4, <1>5, <1>7, <2>1, <2>4 DEF LeadsByAdd
<1>12. ASSUME LeadsByCopy(s, m, next) PROVE LeadsByCopy(t, m, then)
  <2> HIDE DEF then
  <2> QED
    BY <1>10, <1>12, <1>4, <1>5, <1>7, <1>8, <1>9 DEF LeadsByCopy
<1> HIDE DEF then
<1>13. t[m.pos + 1] = [opcode |-> <<i>> \o then.pending]
  BY <1>3, <1>10
<1>14. /\ i \in Instruction /\ next.win = m.win /\ next.output = m.output
       /\ i.size = 0 => s[SizeFrom(m) + 1] = [size |-> n]
       /\ LeadsByAdd(s, m, next) \/ LeadsByCopy(s, m, next)
  BY DEF LeadsTo
<1>15. LeadsTo(t, m, then)
  BY <1>1, <1>4, <1>6, <1>7, <1>10, <1>11, <1>12, <1>13, <1>14 DEF LeadsTo
<1> QED
  BY <1>15 DEF then

\* Within its window an instruction has data to decode, and ends in it.
LEMMA LeadsWithin ==
    ASSUME NEW s, NEW m \in Mark, NEW next \in Mark,
           Within(s, m), Within(s, next), LeadsTo(s, m, next)
    PROVE  /\ Len(m.decoded) < s[m.win].header
           /\ Len(m.decoded) + SizeAt(s, m) <= s[m.win].header
           /\ next.pos <= WindowEnd(s, m.win)
           /\ WindowEnd(s, m.win) \in Nat
<1>1. /\ next.win = m.win /\ SizeAt(s, m) \in Nat \ {0}
      /\ Len(next.decoded) = Len(m.decoded) + SizeAt(s, m)
  BY LeadsFacts
<1>2. s[m.win].header \in Nat /\ s[m.win].length \in Nat /\ m.win \in Nat
  BY MarkFields DEF Within
<1>3. WindowEnd(s, m.win) \in Nat
  BY <1>2 DEF WindowEnd
<1>4. Len(next.decoded) <= s[m.win].header /\ next.pos <= WindowEnd(s, m.win)
  BY <1>1, <1>3, MarkFields DEF Within
<1> QED
  BY <1>1, <1>2, <1>3, <1>4, MarkFields

\* A sequence in three parts.
LEMMA ThreeParts ==
    ASSUME NEW S, NEW d \in Seq(S), NEW h \in S, NEW i \in Seq(S)
    PROVE  /\ d \o <<h>> \o i \in Seq(S)
           /\ Len(d) \in Nat /\ Len(i) \in Nat
           /\ Len(d \o <<h>> \o i) = Len(d) + 1 + Len(i)
           /\ \A p \in 1 .. Len(d) : (d \o <<h>> \o i)[p] = d[p]
           /\ (d \o <<h>> \o i)[Len(d) + 1] = h
           /\ \A j \in 1 .. Len(i) : (d \o <<h>> \o i)[Len(d) + 1 + j] = i[j]
<1> DEFINE one == <<h>>
           a == d \o one
           b == a \o i
<1>1. one \in Seq(S) /\ Len(one) = 1 /\ one[1] = h
  BY SMT
<1> HIDE DEF one
<1>2. /\ a \in Seq(S) /\ Len(a) = Len(d) + 1
      /\ \A p \in 1 .. Len(d) + 1 : a[p] = IF p <= Len(d) THEN d[p] ELSE one[p - Len(d)]
      /\ Len(d) \in Nat /\ Len(i) \in Nat
  <2>1. Len(d) \in Nat /\ Len(i) \in Nat
    BY LenProperties
  <2>2. /\ d \o one \in Seq(S) /\ Len(d \o one) = Len(d) + Len(one)
        /\ \A p \in 1 .. Len(d) + Len(one) :
              (d \o one)[p] = IF p <= Len(d) THEN d[p] ELSE one[p - Len(d)]
    BY <1>1, ConcatProperties, Zenon
  <2> QED
    BY <1>1, <2>1, <2>2
<1> HIDE DEF a
<1>3. /\ b \in Seq(S) /\ Len(b) = Len(a) + Len(i)
      /\ \A p \in 1 .. Len(a) + Len(i) : b[p] = IF p <= Len(a) THEN a[p] ELSE i[p - Len(a)]
  <2>1. a \in Seq(S)
    BY <1>2
  <2> QED
    BY <2>1, ConcatProperties, Zenon
<1> HIDE DEF b
<1>4. \A p \in 1 .. Len(d) : b[p] = d[p]
  BY <1>2, <1>3
<1>5. b[Len(d) + 1] = h
  BY <1>1, <1>2, <1>3
<1>6. ASSUME NEW j \in 1 .. Len(i) PROVE b[Len(d) + 1 + j] = i[j]
  <2> DEFINE p == Len(d) + 1 + j
  <2>1. p \in 1 .. Len(a) + Len(i) /\ ~(p <= Len(a)) /\ p - Len(a) = j
    BY <1>2
  <2> HIDE DEF p
  <2>2. b[p] = i[j]
    BY <1>3, <2>1
  <2> QED
    BY <2>2 DEF p
<1> QED
  BY <1>2, <1>3, <1>4, <1>5, <1>6 DEF a, b, one

LEMMA HeaderToken ==
    ASSUME NEW a \in Nat, NEW b \in Nat
    PROVE  [header |-> a, length |-> b] \in Token
  BY DEF Token

LEMMA StreamShape ==
    ASSUME TypeOK
    PROVE  /\ Stream \in Seq(Token)
           /\ Len(delta) \in Nat /\ Len(instructions_and_sizes) \in Nat
           /\ Len(Stream) = Len(delta) + 1 + Len(instructions_and_sizes)
           /\ \A p \in 1 .. Len(delta) : Stream[p] = delta[p]
           /\ Stream[Len(delta) + 1] = [header |-> Len(target),
                                        length |-> Len(instructions_and_sizes)]
           /\ \A j \in 1 .. Len(instructions_and_sizes) :
                 Stream[Len(delta) + 1 + j] = instructions_and_sizes[j]
<1> DEFINE h == [header |-> Len(target), length |-> Len(instructions_and_sizes)]
<1>1. delta \in Seq(Token) /\ instructions_and_sizes \in Seq(Token) /\ target \in Seq(Nat)
  BY DEF TypeOK
<1>2. h \in Token
  BY <1>1, HeaderToken, LenProperties
<1>3. Stream = delta \o <<h>> \o instructions_and_sizes
  BY DEF Stream
<1> HIDE DEF h
<1> QED
  BY <1>1, <1>2, <1>3, ThreeParts DEF h

-----------------------------------------------------------------------------
(* The decoder                                                             *)

\* The section ends where its data do or where it does.
LEMMA SectionEndBound ==
    ASSUME NEW from \in Nat, NEW expected \in Nat, NEW end \in Nat, from <= end
    PROVE  /\ SectionEnd(from, expected, end) \in from .. end
           /\ SectionEnd(from, expected, end) <= from + expected
           /\ SectionEnd(from, expected, end) \in {end, from + expected}
  BY DEF SectionEnd

\* A mark that is not the last, and the next one.
LEMMA TwoMarks ==
    ASSUME WindowInv, NEW k \in 1 .. Len(marks) - 1
    PROVE  /\ k \in 1 .. Len(marks) /\ k + 1 \in 1 .. Len(marks)
           /\ marks[k] \in Mark /\ marks[k + 1] \in Mark
           /\ Within(Stream, marks[k]) /\ Within(Stream, marks[k + 1])
           /\ \/ EndsAt(Stream, marks[k], marks[k + 1])
              \/ LeadsTo(Stream, marks[k], marks[k + 1])
<1>1. marks \in Seq(Mark) /\ Len(marks) \in Nat
  BY LenProperties DEF WindowInv, TypeOK
<1>2. k \in 1 .. Len(marks) /\ k + 1 \in 1 .. Len(marks)
  BY <1>1
<1>3. marks[k] \in Mark /\ marks[k + 1] \in Mark
  BY <1>1, <1>2, ElementOfSeq
<1> QED
  BY <1>2, <1>3 DEF WindowInv, WriterInv

\* A mark of a window that is all in the delta is not the last.
LEMMA NotLast ==
    ASSUME WindowInv, NEW k \in 1 .. Len(marks), marks[k].win <= Len(delta)
    PROVE  k \in 1 .. Len(marks) - 1
<1>1. Len(marks) \in Nat /\ Len(delta) \in Nat
  BY LenProperties DEF WindowInv, TypeOK
<1>2. marks[Len(marks)].win = Len(delta) + 1
  BY DEF WindowInv, WriterInv, Here
<1>3. k # Len(marks)
  BY <1>1, <1>2
<1> QED
  BY <1>1, <1>3

\* What the decoder was given is part of what was written.
LEMMA Received ==
    ASSUME WindowInv, NEW p \in Nat, 1 <= p, p <= received
    PROVE  delta[p] = Stream[p]
<1>1. TypeOK /\ received \in 0 .. Len(delta)
  BY DEF WindowInv, TypeOK
<1> QED
  BY <1>1, StreamShape

\* A decoder in a window is at an instruction, with the section it has.
LEMMA InWindow ==
    ASSUME WindowInv, phase \in {"next", "size", "operand"}
    PROVE  \E k \in 1 .. Len(marks) - 1 :
              /\ AtInstruction(marks[k], marks[k + 1])
              /\ section_end \in {received, WindowEnd(Stream, marks[k].win)}
              /\ section_end <= WindowEnd(Stream, marks[k].win)
              /\ WindowEnd(Stream, marks[k].win) \in Nat
              /\ received # 0
<1>1. PICK k \in 1 .. Len(marks) - 1 : AtInstruction(marks[k], marks[k + 1])
  BY DEF WindowInv, DecoderInv, AtWindow
<1>2. marks[k] \in Mark /\ Within(Stream, marks[k])
  BY TwoMarks
<1>3. WindowEnd(Stream, marks[k].win) \in Nat
  BY <1>2, MarkFields DEF Within, WindowEnd
<1>4. /\ parsed \in 0 .. received /\ received \in Nat
      /\ interleaved_bytes_expected \in Nat
  BY LenProperties DEF WindowInv, TypeOK
<1>5. /\ interleaved_bytes_expected = WindowEnd(Stream, marks[k].win) - parsed
      /\ section_end = SectionEnd(parsed, interleaved_bytes_expected, received)
  BY <1>1 DEF AtInstruction
<1>6. received # 0
  BY DEF WindowInv, DecoderInv
<1>7. /\ section_end <= parsed + interleaved_bytes_expected
      /\ section_end \in {received, parsed + interleaved_bytes_expected}
  <2>1. parsed \in Nat /\ parsed <= received
    BY <1>4
  <2> QED
    BY <1>4, <1>5, <2>1, SectionEndBound
<1>8. parsed + interleaved_bytes_expected = WindowEnd(Stream, marks[k].win)
  BY <1>3, <1>4, <1>5
<1> QED
  BY <1>1, <1>3, <1>6, <1>7, <1>8

\* Nothing the encoder has written changes.
LEMMA WriterUnchanged ==
    ASSUME WriterInv, UNCHANGED writerVars
    PROVE  WriterInv' /\ Stream' = Stream
<1>1. /\ Stream' = Stream /\ Here' = Here /\ delta' = delta /\ marks' = marks
      /\ last_opcode_index' = last_opcode_index /\ history' = history /\ target' = target
  BY DEF writerVars, Stream, Here
<1>2. \A m : Placed(m) => Placed(m)'
  BY <1>1 DEF Placed
<1> QED
  BY <1>1, <1>2 DEF WriterInv

\* The types of the writer's variables, of those of the delta's reader and of
\* its instructions.
WriterType ==
    /\ instructions_and_sizes \in Seq(Token) /\ delta \in Seq(Token)
    /\ last_opcode_index \in 0 .. Len(instructions_and_sizes)
    /\ address_cache \in Cache
    /\ target \in Seq(Nat) /\ history \in Seq(Nat)
    /\ marks \in Seq(Mark)

SectionType ==
    /\ received \in 0 .. Len(delta) /\ parsed \in 0 .. received
    /\ section_end \in 0 .. received /\ pos \in 0 .. section_end
    /\ last_instruction_start \in 0 .. pos
    /\ target_window_length \in Nat /\ interleaved_bytes_expected \in Nat

ReaderType ==
    /\ phase \in {"wait", "window", "next", "size", "operand"}
    /\ addr_cache \in Cache
    /\ instruction \in Seq(Instruction)
    /\ pending_second_instruction \in Seq(Instruction)
    /\ last_pending_second_instruction \in Seq(Instruction)
    /\ decoded \in Seq(Nat) /\ output \in Seq(Nat)
    /\ found_header \in BOOLEAN /\ failed \in BOOLEAN

LEMMA TypeParts == TypeOK <=> WriterType /\ SectionType /\ ReaderType
  BY DEF TypeOK, WriterType, SectionType, ReaderType

LEMMA TypePartsNext == TypeOK' <=> WriterType' /\ SectionType' /\ ReaderType'
  BY DEF TypeOK, WriterType, SectionType, ReaderType

LEMMA WriterTypeUnchanged ==
    ASSUME WriterType, UNCHANGED writerVars
    PROVE  WriterType'
  BY DEF WriterType, writerVars

\* DecodeChunk, with more of the delta.
LEMMA DecodeChunkPreserves ==
    ASSUME WindowInv, DecodeChunk
    PROVE  SectionType' /\ ReaderType' /\ DecoderInv'
<1>1. /\ phase = "wait" /\ ~failed /\ UNCHANGED writerVars
      /\ received' \in received .. Len(delta) /\ received' > parsed
      /\ UNCHANGED <<parsed, interleaved_bytes_expected, headerVars, instruction,
                     pending_second_instruction, targetVars, failed>>
  BY DEF DecodeChunk
<1>2. SectionType /\ ReaderType /\ DecoderInv /\ WriterInv
  BY TypeParts DEF WindowInv
<1>3. Stream' = Stream /\ marks' = marks /\ delta' = delta /\ Len(delta) \in Nat
  BY <1>1, <1>2, WriterUnchanged, StreamShape DEF writerVars, WindowInv
<1>4. received' \in Nat /\ received' # 0 /\ parsed \in Nat /\ received \in Nat
  BY <1>1, <1>2, <1>3 DEF SectionType
<1>5. CASE found_header
  <2>1. /\ phase' = "next" /\ pos' = parsed
        /\ section_end' = SectionEnd(parsed, interleaved_bytes_expected, received')
        /\ last_instruction_start' = parsed
        /\ last_pending_second_instruction' = pending_second_instruction
    BY <1>5 DEF DecodeChunk
  <2>2. PICK k \in 1 .. Len(marks) - 1 : AtInstruction(marks[k], marks[k + 1])
    BY <1>2, <1>5 DEF DecoderInv, AtWindow
  <2>3. parsed = marks[k].pos /\ pending_second_instruction = marks[k].pending
    BY <1>1, <2>2 DEF AtInstruction
  <2>4. AtInstruction(marks[k], marks[k + 1])'
    <3> DEFINE m == marks[k]
    <3>1. /\ found_header /\ output = m.output /\ decoded = m.decoded
          /\ addr_cache = m.cache /\ m.win <= Len(delta)
          /\ target_window_length = Stream[m.win].header
          /\ parsed \in m.win .. m.pos
          /\ interleaved_bytes_expected = WindowEnd(Stream, m.win) - parsed
      BY <2>2 DEF AtInstruction
    <3>2. marks'[k] = m /\ marks'[k + 1] = marks[k + 1]
      BY <1>3
    <3> QED
      BY <1>1, <1>3, <2>1, <2>3, <3>1, <3>2 DEF AtInstruction, headerVars, targetVars
  <2>5. section_end' \in parsed .. received'
    BY <1>1, <1>2, <1>4, <2>1, SectionEndBound DEF SectionType
  <2>6. SectionType'
    BY <1>1, <1>2, <1>3, <1>4, <2>1, <2>5 DEF SectionType, headerVars
  <2>7. ReaderType'
    BY <1>1, <1>2, <2>1 DEF ReaderType, headerVars, targetVars
  <2>8. DecoderInv'
    BY <1>1, <1>3, <1>4, <2>4 DEF DecoderInv
  <2> QED
    BY <2>6, <2>7, <2>8
<1>6. CASE ~found_header
  <2>1. /\ phase' = "window"
        /\ UNCHANGED <<pos, section_end, last_instruction_start,
                       last_pending_second_instruction>>
    BY <1>6 DEF DecodeChunk
  <2>2. PICK k \in 1 .. Len(marks) : AtWindow(marks[k])
    BY <1>2, <1>6 DEF DecoderInv, AtInstruction
  <2>3. AtWindow(marks[k])'
    BY <1>1, <1>3, <2>1, <2>2 DEF AtWindow, headerVars, targetVars
  <2>4. SectionType'
    BY <1>1, <1>2, <1>3, <1>4, <2>1 DEF SectionType, headerVars
  <2>5. ReaderType'
    BY <1>1, <1>2, <2>1 DEF ReaderType, headerVars, targetVars
  <2>6. DecoderInv'
    BY <1>1, <1>3, <1>4, <2>3 DEF DecoderInv
  <2> QED
    BY <2>4, <2>5, <2>6
<1> QED
  BY <1>5, <1>6

\* ReadHeader, at the first mark of a window.
LEMMA ReadHeaderPreserves ==
    ASSUME WindowInv, ReadHeader
    PROVE  SectionType' /\ ReaderType' /\ DecoderInv'
<1> DEFINE h == delta[parsed + 1]
<1>1. /\ phase = "window" /\ parsed < received /\ UNCHANGED writerVars
      /\ target_window_length' = h.header
      /\ interleaved_bytes_expected' = h.length
      /\ section_end' = SectionEnd(parsed + 1, h.length, received)
      /\ found_header' = TRUE /\ parsed' = parsed + 1 /\ pos' = parsed + 1
      /\ last_instruction_start' = 0
      /\ pending_second_instruction' = kNoOpcode
      /\ last_pending_second_instruction' = kNoOpcode
      /\ addr_cache' = InitialCache /\ phase' = "next"
      /\ UNCHANGED <<received, instruction, decoded, output, failed>>
  BY DEF ReadHeader
<1>2. SectionType /\ ReaderType /\ DecoderInv /\ WriterInv
  BY TypeParts DEF WindowInv
<1>3. Stream' = Stream /\ marks' = marks /\ delta' = delta /\ Len(delta) \in Nat
  BY <1>1, <1>2, WriterUnchanged, StreamShape DEF writerVars, WindowInv
<1>4. /\ received \in Nat /\ received # 0 /\ parsed \in Nat /\ parsed + 1 <= received
      /\ received <= Len(delta)
  BY <1>1, <1>2, <1>3 DEF SectionType
<1>5. PICK k \in 1 .. Len(marks) : AtWindow(marks[k])
  BY <1>1, <1>2 DEF DecoderInv, AtInstruction
<1> DEFINE m == marks[k]
<1>6. m = Start(parsed + 1, output) /\ decoded = <<>> /\ ~failed
  BY <1>2, <1>5 DEF AtWindow, DecoderInv
<1>7. /\ m.win = parsed + 1 /\ m.pos = parsed + 1 /\ m.pending = kNoOpcode
      /\ m.cache = InitialCache /\ m.decoded = <<>> /\ m.output = output
  BY <1>6 DEF Start
<1>8. k \in 1 .. Len(marks) - 1
  BY <1>4, <1>7, NotLast
<1>9. h = Stream[m.win]
  BY <1>4, <1>7, Received
<1>10. Within(Stream, m)
  BY <1>8, TwoMarks
<1>11. h.header \in Nat /\ h.length \in Nat
  BY <1>9, <1>10 DEF Within
<1>12. WindowEnd(Stream, m.win) - (parsed + 1) = h.length
  BY <1>4, <1>7, <1>9, <1>11 DEF WindowEnd
<1> HIDE DEF h
<1>13. AtInstruction(m, marks[k + 1])'
  <2>1. marks'[k] = m /\ marks'[k + 1] = marks[k + 1] /\ m' = m
    BY <1>3
  <2> HIDE DEF m
  <2>2. m.win <= Len(delta) /\ parsed + 1 \in m.win .. m.pos
    BY <1>4, <1>7
  <2> QED
    BY <1>1, <1>3, <1>6, <1>7, <1>9, <1>12, <2>1, <2>2 DEF AtInstruction
<1>14. section_end' \in parsed + 1 .. received
  <2>1. parsed + 1 \in Nat
    BY <1>4
  <2> QED
    BY <1>1, <1>4, <1>11, <2>1, SectionEndBound
<1>15. SectionType'
  BY <1>1, <1>3, <1>4, <1>11, <1>14 DEF SectionType
<1>16. ReaderType'
  <2>1. <<>> \in Seq(Instruction)
    BY EmptySeq
  <2> QED
    BY <1>1, <1>2, <2>1, InitialCacheType DEF ReaderType, kNoOpcode
<1>17. DecoderInv'
  BY <1>1, <1>3, <1>4, <1>6, <1>8, <1>13 DEF DecoderInv
<1> QED
  BY <1>15, <1>16, <1>17

LEMMA ChunkDonePreserves ==
    ASSUME WindowInv, ChunkDone
    PROVE  SectionType' /\ ReaderType' /\ DecoderInv'
<1>1. /\ phase = "window" /\ parsed = received /\ phase' = "wait"
      /\ UNCHANGED <<writerVars, received, sectionVars, headerVars, readerVars,
                     targetVars, failed>>
  BY DEF ChunkDone
<1>2. SectionType /\ ReaderType /\ DecoderInv /\ WriterInv
  BY TypeParts DEF WindowInv
<1>3. Stream' = Stream /\ marks' = marks /\ delta' = delta
  BY <1>1, <1>2, WriterUnchanged DEF writerVars
<1>4. received # 0 /\ ~failed
  BY <1>1, <1>2 DEF DecoderInv
<1>5. PICK k \in 1 .. Len(marks) : AtWindow(marks[k])
  BY <1>1, <1>2 DEF DecoderInv, AtInstruction
<1>6. AtWindow(marks[k])'
  BY <1>1, <1>3, <1>5 DEF AtWindow, headerVars, targetVars, sectionVars
<1>7. SectionType'
  BY <1>1, <1>2, <1>3 DEF SectionType, headerVars, sectionVars, readerVars
<1>8. ReaderType'
  BY <1>1, <1>2 DEF ReaderType, headerVars, targetVars, readerVars
<1>9. DecoderInv'
  BY <1>1, <1>3, <1>4, <1>6 DEF DecoderInv
<1> QED
  BY <1>7, <1>8, <1>9

-----------------------------------------------------------------------------
(* ... in an instruction                                                   *)

\* An end of data in an instruction: the decoder goes back to the mark, and is
\* right to expect more of the window.
LEMMA BackToMark ==
    ASSUME WindowInv, WriterInv', UNCHANGED writerVars,
           NEW k \in 1 .. Len(marks) - 1,
           AtInstruction(marks[k], marks[k + 1]),
           LeadsTo(Stream, marks[k], marks[k + 1]),
           phase \in {"next", "size", "operand"},
           EndOfData(marks[k].pos),
           pending_second_instruction' = marks[k].pending,
           marks[k + 1].pos > section_end,
           marks[k].pos <= section_end,
           UNCHANGED <<received, section_end, headerVars, instruction, targetVars>>,
           last_instruction_start' = marks[k].pos,
           last_pending_second_instruction' = marks[k].pending
    PROVE  SectionType' /\ ReaderType' /\ DecoderInv'
<1> DEFINE m == marks[k]
           next == marks[k + 1]
<1>1. SectionType /\ ReaderType /\ DecoderInv /\ WriterInv
  BY TypeParts DEF WindowInv
<1>2. Stream' = Stream /\ marks' = marks /\ delta' = delta
  BY <1>1, WriterUnchanged DEF writerVars
<1>3. /\ m \in Mark /\ next \in Mark /\ Within(Stream, m) /\ Within(Stream, next)
  BY TwoMarks
<1>4. /\ found_header /\ output = m.output /\ decoded = m.decoded
      /\ addr_cache = m.cache /\ m.win <= Len(delta)
      /\ target_window_length = Stream[m.win].header
      /\ parsed \in m.win .. m.pos
      /\ interleaved_bytes_expected = WindowEnd(Stream, m.win) - parsed
      /\ section_end = SectionEnd(parsed, interleaved_bytes_expected, received)
  BY DEF AtInstruction
<1>5. LeadsTo(Stream, m, next)
  OBVIOUS
<1>6. next.pos <= WindowEnd(Stream, m.win) /\ WindowEnd(Stream, m.win) \in Nat
  BY <1>3, <1>5, LeadsWithin
<1>7. m.pos < next.pos
  <2>1. /\ SizeFrom(m) \in Nat /\ OperandFrom(Stream, m) \in Nat
        /\ m.pos <= SizeFrom(m) /\ SizeFrom(m) <= OperandFrom(Stream, m)
        /\ OperandFrom(Stream, m) < next.pos
    BY <1>3, <1>5, LeadsFacts
  <2>2. m.pos \in Nat /\ next.pos \in Nat
    BY <1>3, MarkFields
  <2> HIDE DEF m, next
  <2> QED
    BY <2>1, <2>2
<1>8. m.win \in Nat /\ m.pos \in Nat /\ next.pos \in Nat /\ m.pending \in Seq(Instruction)
  BY <1>3, MarkFields
<1>9. received # 0 /\ ~failed
  BY <1>1 DEF DecoderInv
<1>10. /\ parsed' = m.pos /\ pos' = m.pos /\ phase' = "wait"
       /\ interleaved_bytes_expected' = interleaved_bytes_expected - (m.pos - parsed)
       /\ failed' = (interleaved_bytes_expected' = 0)
       /\ pending_second_instruction' = m.pending
       /\ last_pending_second_instruction' = m.pending
       /\ last_instruction_start' = m.pos
       /\ UNCHANGED <<received, section_end, headerVars, instruction, targetVars>>
  BY DEF EndOfData, UpdateInstructionPointer
<1>11. parsed \in Nat /\ parsed <= received /\ received \in Nat /\ section_end \in Nat
       /\ section_end <= received
  BY <1>1 DEF SectionType
<1>12. m.pos <= section_end /\ next.pos > section_end
  OBVIOUS
<1> HIDE DEF m, next
<1>13. interleaved_bytes_expected' = WindowEnd(Stream, m.win) - m.pos
  BY <1>4, <1>6, <1>8, <1>10, <1>11
<1>14. interleaved_bytes_expected' \in Nat \ {0} /\ ~failed' /\ failed' \in BOOLEAN
  <2>1. interleaved_bytes_expected' \in Nat \ {0}
    BY <1>6, <1>7, <1>8, <1>13, <1>12
  <2>2. failed' = (interleaved_bytes_expected' = 0) /\ interleaved_bytes_expected' # 0
    BY <1>10, <2>1
  <2> QED
    BY <2>1, <2>2, Zenon
<1>15. next.pos > received
  <2>1. section_end \in {received, parsed + interleaved_bytes_expected}
    BY <1>1, <1>4, <1>11, SectionEndBound DEF SectionType
  <2>2. parsed + interleaved_bytes_expected = WindowEnd(Stream, m.win)
    BY <1>4, <1>6, <1>11
  <2> QED
    BY <1>6, <1>12, <2>1, <2>2, <1>8, <1>11
<1>16. SectionType'
  <2>1. /\ parsed' = m.pos /\ pos' = m.pos /\ last_instruction_start' = m.pos
        /\ UNCHANGED <<received, section_end, target_window_length>>
    BY <1>10 DEF headerVars
  <2>2. m.pos \in 0 .. received /\ m.pos \in 0 .. section_end /\ m.pos \in 0 .. m.pos
    BY <1>8, <1>11, <1>12
  <2>3. /\ received \in 0 .. Len(delta) /\ section_end \in 0 .. received
        /\ target_window_length \in Nat
    BY <1>1 DEF SectionType
  <2> QED
    BY <1>2, <1>14, <2>1, <2>2, <2>3 DEF SectionType
<1>17. ReaderType'
  BY <1>1, <1>8, <1>10, <1>14 DEF ReaderType, headerVars, targetVars
<1>18. AtInstruction(marks[k], marks[k + 1])'
  <2>1. marks'[k] = m /\ marks'[k + 1] = next
    BY <1>2 DEF m, next
  <2>2. m.pos \in m.win .. m.pos
    BY <1>4, <1>8, <1>11
  <2> QED
    BY <1>2, <1>4, <1>5, <1>10, <1>13, <1>15, <2>1, <2>2
       DEF AtInstruction, headerVars, targetVars
<1>19. DecoderInv'
  BY <1>2, <1>9, <1>10, <1>14, <1>18 DEF DecoderInv
<1> QED
  BY <1>16, <1>17, <1>19

\* GetNextInstruction and GetSize, on the way through an instruction.
LEMMA WithinInstruction ==
    ASSUME WindowInv, UNCHANGED writerVars,
           NEW k \in 1 .. Len(marks) - 1,
           AtInstruction(marks[k], marks[k + 1]),
           LeadsTo(Stream, marks[k], marks[k + 1]),
           phase \in {"next", "size", "operand"},
           pos' \in pos .. section_end,
           phase' \in {"size", "operand"},
           phase' = "size" =>
              /\ pos' = SizeFrom(marks[k])
              /\ instruction' = <<InstructionAt(Stream, marks[k])>>,
           phase' = "operand" =>
              /\ pos' = OperandFrom(Stream, marks[k])
              /\ instruction' = <<[InstructionAt(Stream, marks[k]) EXCEPT
                                     !.size = SizeAt(Stream, marks[k])]>>,
           pending_second_instruction' = marks[k + 1].pending,
           UNCHANGED <<received, parsed, interleaved_bytes_expected, section_end,
                       headerVars, targetVars>>,
           ~failed',
           failed' \in BOOLEAN,
           last_instruction_start' = marks[k].pos,
           marks[k].pos <= pos,
           last_pending_second_instruction' = marks[k].pending
    PROVE  SectionType' /\ ReaderType' /\ DecoderInv'
<1> DEFINE m == marks[k]
           next == marks[k + 1]
           i == InstructionAt(Stream, m)
           n == SizeAt(Stream, m)
<1>1. SectionType /\ ReaderType /\ DecoderInv /\ WriterInv
  BY TypeParts DEF WindowInv
<1>2. Stream' = Stream /\ marks' = marks /\ delta' = delta
  BY <1>1, WriterUnchanged DEF writerVars
<1>3. m \in Mark /\ next \in Mark
  BY TwoMarks
<1>4. /\ found_header /\ output = m.output /\ decoded = m.decoded
      /\ addr_cache = m.cache /\ m.win <= Len(delta)
      /\ target_window_length = Stream[m.win].header
      /\ parsed \in m.win .. m.pos
      /\ interleaved_bytes_expected = WindowEnd(Stream, m.win) - parsed
      /\ section_end = SectionEnd(parsed, interleaved_bytes_expected, received)
  BY DEF AtInstruction
<1>5. LeadsTo(Stream, m, next) /\ i \in Instruction /\ n \in Nat
  BY <1>3, LeadsFacts
<1>6. instruction' \in Seq(Instruction)
  <2>1. [i EXCEPT !.size = n] \in Instruction
    BY <1>5 DEF Instruction
  <2> HIDE DEF i, n
  <2>2. \A x \in Instruction : <<x>> \in Seq(Instruction)
    OBVIOUS
  <2>3. instruction' \in {<<i>>, <<[i EXCEPT !.size = n]>>}
    BY DEF i, n, m
  <2> QED
    BY <1>5, <2>1, <2>2, <2>3
<1>7. m.pending \in Seq(Instruction) /\ next.pending \in Seq(Instruction) /\ m.pos \in Nat
  BY <1>3, MarkFields
<1>8. SectionType'
  <2>1. /\ received \in 0 .. Len(delta) /\ parsed \in 0 .. received
        /\ section_end \in 0 .. received /\ pos \in 0 .. section_end
        /\ target_window_length \in Nat /\ interleaved_bytes_expected \in Nat
    BY <1>1 DEF SectionType
  <2>2. /\ UNCHANGED <<received, parsed, interleaved_bytes_expected, section_end,
                       target_window_length>>
        /\ pos' \in pos .. section_end /\ last_instruction_start' = m.pos /\ m.pos <= pos
    BY DEF headerVars, m
  <2> HIDE DEF m
  <2>3. pos' \in 0 .. section_end /\ m.pos \in 0 .. pos'
    BY <1>7, <2>1, <2>2
  <2> QED
    BY <1>2, <2>1, <2>2, <2>3 DEF SectionType
<1>9. ReaderType'
  BY <1>1, <1>6, <1>7 DEF ReaderType, headerVars, targetVars, m, next
<1>10. AtInstruction(marks[k], marks[k + 1])'
  <2>1. marks'[k] = m /\ marks'[k + 1] = next
    BY <1>2
  <2>2. /\ phase' = "size" => pos' = SizeFrom(m) /\ instruction' = <<i>>
        /\ phase' = "operand" =>
              pos' = OperandFrom(Stream, m) /\ instruction' = <<[i EXCEPT !.size = n]>>
        /\ pending_second_instruction' = next.pending
        /\ last_instruction_start' = m.pos
        /\ last_pending_second_instruction' = m.pending
    OBVIOUS
  <2> HIDE DEF m, next
  <2> QED
    BY <1>2, <1>4, <1>5, <2>1, <2>2 DEF AtInstruction, headerVars, targetVars, i, n
<1>11. DecoderInv'
  BY <1>1, <1>2, <1>10 DEF DecoderInv
<1> QED
  BY <1>8, <1>9, <1>11

\* GetNextInstruction: a second instruction, an end of data, an opcode.
LEMMA GetNextInstructionPreserves ==
    ASSUME WindowInv, GetNextInstruction
    PROVE  SectionType' /\ ReaderType' /\ DecoderInv'
<1>1. /\ phase = "next" /\ Len(decoded) < target_window_length
      /\ last_instruction_start' = pos
      /\ last_pending_second_instruction' = pending_second_instruction
      /\ UNCHANGED <<writerVars, received, headerVars, targetVars>>
  BY DEF GetNextInstruction
<1>2. SectionType /\ ReaderType /\ DecoderInv /\ WriterInv /\ ~failed
  BY TypeParts DEF WindowInv, DecoderInv
<1>3. PICK k \in 1 .. Len(marks) - 1 :
         /\ AtInstruction(marks[k], marks[k + 1])
         /\ section_end \in {received, WindowEnd(Stream, marks[k].win)}
         /\ section_end <= WindowEnd(Stream, marks[k].win)
         /\ WindowEnd(Stream, marks[k].win) \in Nat
  BY <1>1, InWindow
<1> DEFINE m == marks[k]
           next == marks[k + 1]
<1>4. /\ m \in Mark /\ next \in Mark
      /\ EndsAt(Stream, m, next) \/ LeadsTo(Stream, m, next)
  BY TwoMarks
<1>5. /\ pos = m.pos /\ pending_second_instruction = m.pending /\ decoded = m.decoded
      /\ target_window_length = Stream[m.win].header
  BY <1>1, <1>3 DEF AtInstruction
<1>6. LeadsTo(Stream, m, next)
  <2>1. ASSUME EndsAt(Stream, m, next) PROVE FALSE
    <3>1. Len(decoded) = target_window_length
      BY <1>5, <2>1 DEF EndsAt
    <3>2. target_window_length \in Nat
      BY <1>2 DEF SectionType
    <3> QED
      BY <1>1, <3>1, <3>2
  <2> QED
    BY <1>4, <2>1
<1>7. /\ m.pos \in Nat /\ m.pos <= SizeFrom(m)
      /\ SizeFrom(m) <= OperandFrom(Stream, m) /\ OperandFrom(Stream, m) < next.pos
      /\ SizeFrom(m) \in Nat /\ OperandFrom(Stream, m) \in Nat /\ next.pos \in Nat
      /\ m.pending = kNoOpcode => SizeFrom(m) = m.pos + 1
  BY <1>4, <1>6, LeadsFacts, MarkFields
<1>8. CASE /\ pending_second_instruction # kNoOpcode
           /\ instruction' = pending_second_instruction
           /\ pending_second_instruction' = kNoOpcode
           /\ phase' = "size"
           /\ UNCHANGED <<sectionVars, failed>>
  <2>1. m.pending = <<InstructionAt(Stream, m)>> /\ next.pending = kNoOpcode
    BY <1>5, <1>6, <1>8 DEF LeadsTo
  <2>2. SizeFrom(m) = m.pos
    BY <1>5, <1>7, <1>8 DEF SizeFrom
  <2>3. pos' \in pos .. section_end
    BY <1>2, <1>8 DEF SectionType, sectionVars
  <2>4. /\ pos' = SizeFrom(m) /\ instruction' = <<InstructionAt(Stream, m)>>
        /\ pending_second_instruction' = next.pending
        /\ UNCHANGED <<received, parsed, interleaved_bytes_expected, section_end,
                       headerVars, targetVars>>
        /\ ~failed' /\ failed' \in BOOLEAN
    <3>1. /\ failed' = failed
          /\ UNCHANGED <<parsed, interleaved_bytes_expected, pos, section_end>>
      BY <1>8 DEF sectionVars
    <3>2. failed' \in BOOLEAN /\ ~failed'
      BY <1>2, <3>1 DEF ReaderType
    <3> QED
      BY <1>1, <1>5, <1>8, <2>1, <2>2, <3>1, <3>2
  <2>5. m.pos <= pos
    BY <1>5, <1>7
  <2> QED
    BY <1>1, <1>3, <1>5, <1>6, <1>8, <2>3, <2>4, <2>5, WithinInstruction
<1>9. CASE /\ pending_second_instruction = kNoOpcode /\ pos >= section_end
           /\ EndOfData(pos)
           /\ UNCHANGED <<instruction, pending_second_instruction, section_end>>
  <2>1. pos = section_end
    BY <1>2, <1>9 DEF SectionType
  <2>2. m.pos <= section_end /\ next.pos > section_end
    BY <1>5, <1>7, <2>1
  <2>3. WriterInv'
    BY <1>1, <1>2, WriterUnchanged
  <2> QED
    BY <1>1, <1>3, <1>5, <1>6, <1>9, <2>2, <2>3, BackToMark
<1>10. CASE /\ pending_second_instruction = kNoOpcode /\ pos < section_end
            /\ instruction' = <<delta[pos + 1].opcode[1]>>
            /\ pending_second_instruction' = Tail(delta[pos + 1].opcode)
            /\ pos' = pos + 1
            /\ phase' = "size"
            /\ UNCHANGED <<parsed, interleaved_bytes_expected, section_end, failed>>
  <2>1. pos + 1 \in Nat /\ 1 <= pos + 1 /\ pos + 1 <= received /\ pos + 1 <= section_end
    BY <1>2, <1>10, LenProperties DEF SectionType, WriterType
  <2>2. delta[pos + 1] = Stream[m.pos + 1]
    BY <1>5, <2>1, Received
  <2>3. Stream[m.pos + 1] = [opcode |-> <<InstructionAt(Stream, m)>> \o next.pending]
        /\ InstructionAt(Stream, m) \in Instruction
    BY <1>5, <1>6, <1>10 DEF LeadsTo
  <2>4. next.pending \in Seq(Instruction)
    BY <1>4, MarkFields
  <2> DEFINE i == InstructionAt(Stream, m)
             o == <<i>> \o next.pending
  <2>5. /\ o[1] = i /\ Tail(o) = next.pending
    <3> HIDE DEF i, next
    <3>1. <<i>> \in Seq(Instruction) /\ Len(<<i>>) = 1 /\ <<i>>[1] = i
      BY <2>3 DEF i
    <3> QED
      BY <2>4, <3>1
  <2>6. delta[pos + 1].opcode = o
    BY <2>2, <2>3
  <2> HIDE DEF o
  <2>7. /\ instruction' = <<i>> /\ pending_second_instruction' = next.pending
    BY <1>10, <2>5, <2>6
  <2>8. pos' = SizeFrom(m) /\ pos' \in pos .. section_end
    BY <1>5, <1>7, <1>10, <2>1
  <2>9. m.pos <= pos /\ ~failed' /\ failed' \in BOOLEAN
    BY <1>2, <1>5, <1>7, <1>10 DEF ReaderType
  <2> QED
    BY <1>1, <1>3, <1>5, <1>6, <1>10, <2>7, <2>8, <2>9, WithinInstruction
<1> QED
  BY <1>8, <1>9, <1>10 DEF GetNextInstruction

\* GetSize.
LEMMA GetSizePreserves ==
    ASSUME WindowInv, GetSize
    PROVE  SectionType' /\ ReaderType' /\ DecoderInv'
<1> DEFINE i    == instruction[1]
           size == IF i.size # 0 THEN i.size ELSE delta[pos + 1].size
<1>1. /\ phase = "size"
      /\ UNCHANGED <<writerVars, received, section_end, headerVars, targetVars,
                     last_instruction_start, last_pending_second_instruction>>
  BY DEF GetSize
<1>2. SectionType /\ ReaderType /\ DecoderInv /\ WriterInv /\ ~failed
  BY TypeParts DEF WindowInv, DecoderInv
<1>3. PICK k \in 1 .. Len(marks) - 1 :
         /\ AtInstruction(marks[k], marks[k + 1])
         /\ section_end \in {received, WindowEnd(Stream, marks[k].win)}
         /\ section_end <= WindowEnd(Stream, marks[k].win)
         /\ WindowEnd(Stream, marks[k].win) \in Nat
  BY <1>1, InWindow
<1> DEFINE m == marks[k]
           next == marks[k + 1]
<1>4. /\ m \in Mark /\ next \in Mark
      /\ Within(Stream, m) /\ Within(Stream, next)
  BY TwoMarks
<1>5. /\ pos = SizeFrom(m) /\ instruction = <<InstructionAt(Stream, m)>>
      /\ decoded = m.decoded
      /\ target_window_length = Stream[m.win].header
      /\ LeadsTo(Stream, m, next)
      /\ pending_second_instruction = next.pending
      /\ last_instruction_start = m.pos
      /\ last_pending_second_instruction = m.pending
  BY <1>1, <1>3 DEF AtInstruction
<1>6. /\ i = InstructionAt(Stream, m)
  BY <1>5
<1>7. /\ m.pos \in Nat /\ m.pos <= SizeFrom(m)
      /\ SizeFrom(m) <= OperandFrom(Stream, m) /\ OperandFrom(Stream, m) < next.pos
      /\ SizeFrom(m) \in Nat /\ OperandFrom(Stream, m) \in Nat /\ next.pos \in Nat
      /\ SizeAt(Stream, m) \in Nat \ {0}
      /\ i.size = 0 => OperandFrom(Stream, m) = SizeFrom(m) + 1
  BY <1>4, <1>5, <1>6, LeadsFacts, MarkFields
<1>8. CASE i.size = 0 /\ pos >= section_end /\ UnGetInstruction /\ UNCHANGED instruction
  <2>1. pos = section_end /\ m.pos <= section_end /\ next.pos > section_end
    BY <1>2, <1>5, <1>7, <1>8 DEF SectionType
  <2>2. WriterInv'
    BY <1>1, <1>2, WriterUnchanged
  <2>3. EndOfData(m.pos) /\ pending_second_instruction' = m.pending
    BY <1>5, <1>8 DEF UnGetInstruction
  <2> QED
    BY <1>1, <1>3, <1>5, <1>8, <2>1, <2>2, <2>3, BackToMark
<1>9. CASE /\ i.size = 0 => pos < section_end
           /\ instruction' = <<[i EXCEPT !.size = size]>>
           /\ pos' = pos + (IF i.size = 0 THEN 1 ELSE 0)
           /\ failed' = (Len(decoded) + size > target_window_length)
           /\ phase' = IF failed' THEN "wait" ELSE "operand"
           /\ UNCHANGED <<parsed, interleaved_bytes_expected, pending_second_instruction>>
  <2>1. size = SizeAt(Stream, m)
    <3>1. CASE i.size = 0
      <4>1. pos + 1 \in Nat /\ 1 <= pos + 1 /\ pos + 1 <= received
        BY <1>2, <1>9, <3>1, LenProperties DEF SectionType, WriterType
      <4>2. delta[pos + 1] = Stream[SizeFrom(m) + 1]
        BY <1>5, <4>1, Received
      <4> QED
        BY <1>6, <3>1, <4>2 DEF SizeAt
    <3>2. CASE i.size # 0
      BY <1>6, <3>2 DEF SizeAt
    <3> QED
      BY <3>1, <3>2
  <2>2. pos' = OperandFrom(Stream, m)
    BY <1>5, <1>6, <1>9 DEF OperandFrom
  <2>3. Len(m.decoded) + SizeAt(Stream, m) <= Stream[m.win].header
        /\ Stream[m.win].header \in Nat /\ Len(m.decoded) \in Nat
    BY <1>4, <1>5, LeadsWithin, MarkFields DEF Within
  <2> HIDE DEF size, i
  <2>4. ~(Len(decoded) + size > target_window_length)
    BY <1>5, <1>7, <2>1, <2>3
  <2>5. ~failed' /\ failed' \in BOOLEAN
    <3>1. failed' = (Len(decoded) + size > target_window_length)
      BY <1>9
    <3>2. (Len(decoded) + size > target_window_length) = FALSE
      BY <2>4
    <3>3. failed' = FALSE
      BY <3>1, <3>2
    <3> QED
      BY <3>3
  <2>6. phase' = "operand"
    BY <1>9, <2>5
  <2>7. pos' \in pos .. section_end
    <3>1. pos \in Nat /\ section_end \in Nat /\ pos <= section_end
      BY <1>2, LenProperties DEF SectionType, WriterType
    <3> QED
      BY <1>9, <3>1
  <2>8. m.pos <= pos
    BY <1>5, <1>7
  <2>9. instruction' = <<[InstructionAt(Stream, m) EXCEPT !.size = SizeAt(Stream, m)]>>
    BY <1>6, <1>9, <2>1
  <2> QED
    BY <1>1, <1>3, <1>5, <1>9, <2>2, <2>5, <2>6, <2>7, <2>8, <2>9, WithinInstruction
<1> QED
  BY <1>8, <1>9 DEF GetSize

\* With its operand an instruction is done, and the decoder at the next mark.
LEMMA ToNextMark ==
    ASSUME WindowInv, UNCHANGED writerVars,
           NEW k \in 1 .. Len(marks) - 1,
           AtInstruction(marks[k], marks[k + 1]),
           LeadsTo(Stream, marks[k], marks[k + 1]),
           phase = "operand",
           decoded' = marks[k + 1].decoded,
           addr_cache' = marks[k + 1].cache,
           pos' = marks[k + 1].pos,
           pos' \in pos .. section_end,
           phase' = "next",
           failed' = FALSE,
           UNCHANGED <<received, parsed, interleaved_bytes_expected, section_end,
                       headerVars, output, readerVars>>
    PROVE  SectionType' /\ ReaderType' /\ DecoderInv'
<1> DEFINE m == marks[k]
           next == marks[k + 1]
<1>1. SectionType /\ ReaderType /\ DecoderInv /\ WriterInv
  BY TypeParts DEF WindowInv
<1>2. /\ Stream' = Stream /\ marks' = marks /\ delta' = delta
      /\ Len(delta) \in Nat /\ Len(marks) \in Nat
  BY <1>1, WriterUnchanged, StreamShape, LenProperties
     DEF writerVars, WindowInv, WriterType
<1>3. m \in Mark /\ next \in Mark /\ k + 1 \in 1 .. Len(marks)
  BY TwoMarks
<1>4. /\ found_header /\ output = m.output
      /\ m.win <= Len(delta)
      /\ target_window_length = Stream[m.win].header
      /\ parsed \in m.win .. m.pos
      /\ interleaved_bytes_expected = WindowEnd(Stream, m.win) - parsed
      /\ section_end = SectionEnd(parsed, interleaved_bytes_expected, received)
      /\ pending_second_instruction = next.pending
  BY DEF AtInstruction
<1>5. LeadsTo(Stream, m, next)
  OBVIOUS
<1>6. next.win = m.win /\ next.output = m.output
  BY <1>5 DEF LeadsTo
<1>7. m.win \in Nat /\ m.pos \in Nat /\ next.pos \in Nat /\ m.pos < next.pos
  <2>1. /\ SizeFrom(m) \in Nat /\ OperandFrom(Stream, m) \in Nat
        /\ m.pos <= SizeFrom(m) /\ SizeFrom(m) <= OperandFrom(Stream, m)
        /\ OperandFrom(Stream, m) < next.pos
    BY <1>3, <1>5, LeadsFacts
  <2>2. m.win \in Nat /\ m.pos \in Nat /\ next.pos \in Nat
    BY <1>3, MarkFields
  <2> HIDE DEF m, next
  <2> QED
    BY <2>1, <2>2
<1>8. parsed \in next.win .. next.pos
  <2> HIDE DEF m, next
  <2> QED
    BY <1>4, <1>6, <1>7
<1>9. k + 1 \in 1 .. Len(marks) - 1
  BY <1>3, <1>4, <1>6, NotLast
<1>10. AtInstruction(marks[k + 1], marks[(k + 1) + 1])'
  <2>1. marks'[k + 1] = next /\ marks'[(k + 1) + 1] = marks[(k + 1) + 1]
    BY <1>2
  <2>2. /\ decoded' = next.decoded /\ addr_cache' = next.cache /\ pos' = next.pos
        /\ pending_second_instruction' = next.pending
    BY <1>4 DEF readerVars
  <2> HIDE DEF m, next
  <2> QED
    BY <1>2, <1>4, <1>6, <1>8, <2>1, <2>2 DEF AtInstruction, headerVars
<1>11. SectionType'
  BY <1>1, <1>2 DEF SectionType, headerVars, readerVars
<1>12. ReaderType'
  <2>1. next.decoded \in Seq(Nat) /\ next.cache \in Cache
    BY <1>3, MarkFields
  <2> QED
    BY <1>1, <2>1 DEF ReaderType, headerVars, readerVars
<1>13. DecoderInv'
  <2>1. received' # 0 /\ ~failed'
    BY <1>1 DEF DecoderInv
  <2> QED
    BY <1>2, <1>9, <1>10, <2>1 DEF DecoderInv
<1> QED
  BY <1>11, <1>12, <1>13

LEMMA DecodeOperandPreserves ==
    ASSUME WindowInv, DecodeOperand
    PROVE  SectionType' /\ ReaderType' /\ DecoderInv'
<1> DEFINE i == instruction[1]
<1>1. /\ phase = "operand"
      /\ UNCHANGED <<writerVars, received, section_end, headerVars, instruction,
                     last_instruction_start, last_pending_second_instruction>>
  BY DEF DecodeOperand
<1>2. SectionType /\ ReaderType /\ DecoderInv /\ WriterInv /\ ~failed
  BY TypeParts DEF WindowInv, DecoderInv
<1>3. PICK k \in 1 .. Len(marks) - 1 :
         /\ AtInstruction(marks[k], marks[k + 1])
         /\ section_end \in {received, WindowEnd(Stream, marks[k].win)}
         /\ section_end <= WindowEnd(Stream, marks[k].win)
         /\ WindowEnd(Stream, marks[k].win) \in Nat
  BY <1>1, InWindow
<1> DEFINE m == marks[k]
           next == marks[k + 1]
           I == InstructionAt(Stream, m)
           n == SizeAt(Stream, m)
<1>4. /\ m \in Mark /\ next \in Mark
      /\ Within(Stream, m) /\ Within(Stream, next)
  BY TwoMarks
<1>5. /\ pos = OperandFrom(Stream, m) /\ instruction = <<[I EXCEPT !.size = n]>>
      /\ output = m.output /\ decoded = m.decoded /\ addr_cache = m.cache
      /\ LeadsTo(Stream, m, next)
      /\ pending_second_instruction = next.pending
      /\ last_instruction_start = m.pos
      /\ last_pending_second_instruction = m.pending
  BY <1>1, <1>3 DEF AtInstruction
<1>6. /\ I \in Instruction
      /\ m.pos \in Nat /\ m.pos <= SizeFrom(m)
      /\ SizeFrom(m) <= OperandFrom(Stream, m) /\ OperandFrom(Stream, m) < next.pos
      /\ SizeFrom(m) \in Nat /\ OperandFrom(Stream, m) \in Nat /\ next.pos \in Nat
      /\ n \in Nat \ {0}
  BY <1>4, <1>5, LeadsFacts, MarkFields
<1>7. i.inst = I.inst /\ i.size = n /\ i.mode = I.mode
  <2>1. i = [I EXCEPT !.size = n]
    BY <1>5
  <2> HIDE DEF i, I, n
  <2> QED
    BY <1>6, <2>1 DEF Instruction
<1>8. I.inst = "VCD_ADD" => LeadsByAdd(Stream, m, next)
  BY <1>5 DEF LeadsTo, LeadsByCopy
<1>9. I.inst = "VCD_COPY" => LeadsByCopy(Stream, m, next)
  BY <1>5 DEF LeadsTo, LeadsByAdd
<1>10. I.inst \in {"VCD_ADD", "VCD_COPY"}
  BY <1>6 DEF Instruction
<1>11. /\ pos \in Nat /\ section_end \in Nat /\ pos <= section_end /\ section_end <= received
       /\ received \in Nat /\ received <= Len(delta)
  BY <1>2, LenProperties DEF SectionType, WriterType
<1>12. CASE OperandMissing(i)
  <2>1. next.pos > section_end
    <3>1. CASE I.inst = "VCD_ADD"
      <4>1. next.pos = pos + n
        BY <1>5, <1>8, <3>1 DEF LeadsByAdd
      <4>2. n > section_end - pos
        BY <1>7, <1>12, <3>1 DEF OperandMissing
      <4> HIDE DEF n, m, next
      <4> QED
        BY <1>6, <1>11, <4>1, <4>2
    <3>2. CASE I.inst = "VCD_COPY"
      <4>1. next.pos = pos + 1
        BY <1>5, <1>9, <3>2 DEF LeadsByCopy
      <4>2. 1 > section_end - pos
        BY <1>7, <1>12, <3>2 DEF OperandMissing
      <4> HIDE DEF n, m, next
      <4> QED
        BY <1>6, <1>11, <4>1, <4>2
    <3> QED
      BY <1>10, <3>1, <3>2
  <2>2. m.pos <= section_end
    BY <1>5, <1>6, <1>11
  <2>3. WriterInv'
    BY <1>1, <1>2, WriterUnchanged
  <2>4. EndOfData(m.pos) /\ pending_second_instruction' = m.pending /\ UNCHANGED targetVars
    BY <1>5, <1>12 DEF UnGetInstruction, OperandMissing
  <2> QED
    BY <1>1, <1>3, <1>5, <2>1, <2>2, <2>3, <2>4, BackToMark
<1>13. CASE i.inst = "VCD_ADD" /\ DecodeAdd(i.size)
  <2> DEFINE data == [j \in 1 .. n |-> delta[pos + j].data]
             same == [j \in 1 .. n |-> Stream[pos + j].data]
  <2>1. /\ n <= section_end - pos
        /\ OperandUsed(n, data, FALSE) /\ UNCHANGED addr_cache
    BY <1>7, <1>13 DEF DecodeAdd
  <2>2. /\ next.pos = pos + n /\ next.cache = m.cache
        /\ next.decoded = m.decoded \o same
    BY <1>5, <1>7, <1>8, <1>13 DEF LeadsByAdd
  <2>3. ASSUME NEW j \in 1 .. n PROVE delta[pos + j] = Stream[pos + j]
    <3> HIDE DEF n
    <3>1. pos + j \in Nat /\ 1 <= pos + j /\ pos + j <= received
      BY <1>6, <1>11, <2>1
    <3> QED
      BY <3>1, Received
  <2>4. data = same
    <3> HIDE DEF n
    <3> QED
      BY <2>3
  <2> HIDE DEF data, same, n, m, next, I
  <2>5. /\ decoded' = decoded \o data /\ pos' = pos + n /\ failed' = FALSE
        /\ phase' = "next"
        /\ UNCHANGED <<parsed, interleaved_bytes_expected, output,
                       pending_second_instruction>>
    BY <2>1 DEF OperandUsed
  <2>6. pos' \in pos .. section_end
    BY <1>6, <1>11, <2>1, <2>5
  <2>7. decoded' = next.decoded /\ addr_cache' = next.cache /\ pos' = next.pos
    BY <1>5, <2>1, <2>2, <2>4, <2>5
  <2> QED
    BY <1>1, <1>3, <1>5, <2>5, <2>6, <2>7, ToNextMark DEF m, next, readerVars
<1>14. CASE i.inst = "VCD_COPY" /\ DecodeCopy(i.size, i.mode)
  <2> DEFINE address == AddressAt(Stream, m)
  <2>1. pos + 1 \in Nat /\ 1 <= pos + 1 /\ pos + 1 <= received /\ pos + 1 <= section_end
    BY <1>11, <1>14 DEF DecodeCopy
  <2>2. delta[pos + 1] = Stream[pos + 1]
    BY <2>1, Received
  <2>3. DecodeAddress(addr_cache, [mode |-> i.mode, value |-> delta[pos + 1].address],
                      Len(dictionary) + Len(decoded)) = address
    BY <1>5, <1>7, <2>2 DEF AddressAt
  <2>4. /\ next.pos = pos + 1 /\ address # RESULT_ERROR
        /\ next.cache = UpdateCache(m.cache, address)
        /\ next.decoded = m.decoded \o CopyBytes(dictionary \o m.decoded, address, n)
    BY <1>5, <1>7, <1>9, <1>14 DEF LeadsByCopy
  <2> HIDE DEF address
  <2>5. /\ OperandUsed(1, CopyBytes(dictionary \o decoded, address, n), FALSE)
        /\ addr_cache' = UpdateCache(addr_cache, address)
    <3>1. (address = RESULT_ERROR) = FALSE
      BY <2>4
    <3> DEFINE bytes == CopyBytes(dictionary \o decoded, address, n)
    <3>2. /\ OperandUsed(1, bytes, address = RESULT_ERROR)
          /\ addr_cache' = IF address = RESULT_ERROR THEN addr_cache
                           ELSE UpdateCache(addr_cache, address)
      BY <1>7, <1>14, <2>3 DEF DecodeCopy
    <3> HIDE DEF bytes
    <3>3. OperandUsed(1, bytes, FALSE)
      BY <3>1, <3>2
    <3> QED
      BY <3>1, <3>2, <3>3 DEF bytes
  <2> HIDE DEF n, m, next, I
  <2>6. /\ decoded' = decoded \o CopyBytes(dictionary \o decoded, address, n)
        /\ pos' = pos + 1 /\ failed' = FALSE /\ phase' = "next"
        /\ UNCHANGED <<parsed, interleaved_bytes_expected, output,
                       pending_second_instruction>>
    BY <2>5 DEF OperandUsed
  <2>7. pos' \in pos .. section_end
    BY <1>11, <2>1, <2>6
  <2>8. decoded' = next.decoded /\ addr_cache' = next.cache /\ pos' = next.pos
    BY <1>5, <2>4, <2>5, <2>6
  <2> QED
    BY <1>1, <1>3, <1>5, <2>6, <2>7, <2>8, ToNextMark DEF m, next, readerVars
<1> QED
  BY <1>12, <1>13, <1>14 DEF DecodeOperand

\* The end of a window, and the head of the next one.
LEMMA WindowDecodedPreserves ==
    ASSUME WindowInv, WindowDecoded
    PROVE  SectionType' /\ ReaderType' /\ DecoderInv'
<1>1. /\ phase = "next" /\ Len(decoded) = target_window_length
      /\ parsed' = pos
      /\ interleaved_bytes_expected' = interleaved_bytes_expected - (pos - parsed)
      /\ failed' = (pos < section_end)
      /\ found_header' = FALSE /\ target_window_length' = 0
      /\ output' = (IF failed' THEN output ELSE output \o decoded)
      /\ decoded' = <<>>
      /\ phase' = IF failed' THEN "wait" ELSE "window"
      /\ UNCHANGED <<writerVars, received, pos, section_end, readerVars, addr_cache>>
  BY DEF WindowDecoded, UpdateInstructionPointer, AfterWindow
<1>2. SectionType /\ ReaderType /\ DecoderInv /\ WriterInv /\ ~failed
  BY TypeParts DEF WindowInv, DecoderInv
<1>3. PICK k \in 1 .. Len(marks) - 1 :
         /\ AtInstruction(marks[k], marks[k + 1])
         /\ section_end \in {received, WindowEnd(Stream, marks[k].win)}
         /\ section_end <= WindowEnd(Stream, marks[k].win)
         /\ WindowEnd(Stream, marks[k].win) \in Nat
         /\ received # 0
  BY <1>1, InWindow
<1> DEFINE m == marks[k]
           next == marks[k + 1]
<1>4. /\ m \in Mark /\ next \in Mark
      /\ Within(Stream, m) /\ Within(Stream, next)
      /\ EndsAt(Stream, m, next) \/ LeadsTo(Stream, m, next)
      /\ k + 1 \in 1 .. Len(marks)
  BY TwoMarks
<1>5. /\ pos = m.pos /\ decoded = m.decoded /\ output = m.output
      /\ target_window_length = Stream[m.win].header
      /\ parsed \in m.win .. m.pos
      /\ interleaved_bytes_expected = WindowEnd(Stream, m.win) - parsed
  BY <1>1, <1>3 DEF AtInstruction
<1>6. EndsAt(Stream, m, next)
  <2>1. ASSUME LeadsTo(Stream, m, next) PROVE FALSE
    <3>1. Len(decoded) < target_window_length
      BY <1>4, <1>5, <2>1, LeadsWithin
    <3>2. target_window_length \in Nat
      BY <1>2 DEF SectionType
    <3> QED
      BY <1>1, <3>1, <3>2
  <2> QED
    BY <1>4, <2>1
<1>7. pos = WindowEnd(Stream, m.win) /\ next = Start(m.pos + 1, m.output \o m.decoded)
  BY <1>5, <1>6 DEF EndsAt
<1>8. /\ pos \in Nat /\ section_end \in Nat /\ pos <= section_end /\ section_end <= received
      /\ received \in Nat /\ parsed \in Nat /\ parsed <= received
  BY <1>2, LenProperties DEF SectionType, WriterType
<1>9. failed' = FALSE
  <2>1. (pos < section_end) = FALSE
    BY <1>3, <1>7, <1>8
  <2> QED
    BY <1>1, <2>1
<1>10. phase' = "window" /\ output' = output \o decoded
  BY <1>1, <1>9
<1>11. Stream' = Stream /\ marks' = marks /\ delta' = delta
  BY <1>1, <1>2, WriterUnchanged DEF writerVars
<1>12. interleaved_bytes_expected' = 0
  <2> DEFINE end == WindowEnd(Stream, m.win)
  <2>1. end = pos /\ interleaved_bytes_expected = end - parsed
    BY <1>5, <1>7
  <2> HIDE DEF end
  <2> QED
    BY <1>1, <1>8, <2>1
<1>13. SectionType'
  BY <1>1, <1>2, <1>8, <1>11, <1>12 DEF SectionType, readerVars
<1>14. ReaderType'
  <2>1. output \o decoded \in Seq(Nat) /\ <<>> \in Seq(Nat)
    BY <1>2, ConcatNat DEF ReaderType
  <2> QED
    BY <1>1, <1>2, <1>9, <1>10, <2>1 DEF ReaderType, readerVars
<1>15. AtWindow(marks[k + 1])'
  <2>1. marks'[k + 1] = Start(pos + 1, output \o decoded)
    BY <1>5, <1>7, <1>11
  <2> QED
    BY <1>1, <1>10, <2>1 DEF AtWindow
<1>16. DecoderInv'
  BY <1>1, <1>3, <1>4, <1>9, <1>11, <1>15 DEF DecoderInv
<1> QED
  BY <1>13, <1>14, <1>16

\* Nothing the decoder does disturbs the invariant.
LEMMA DecoderPreserves ==
    ASSUME WindowInv, Decoder
    PROVE  WindowInv'
<1>1. UNCHANGED writerVars
  BY DEF Decoder, DecodeChunk, ReadHeader, ChunkDone, GetNextInstruction, GetSize,
         DecodeOperand, WindowDecoded
<1>2. SectionType' /\ ReaderType' /\ DecoderInv'
  BY DecodeChunkPreserves, ReadHeaderPreserves, ChunkDonePreserves,
     GetNextInstructionPreserves, GetSizePreserves, DecodeOperandPreserves,
     WindowDecodedPreserves DEF Decoder
<1>3. WriterType'
  BY <1>1, TypeParts, WriterTypeUnchanged DEF WindowInv
<1>4. WriterInv'
  BY <1>1, WriterUnchanged DEF WindowInv
<1> QED
  BY <1>2, <1>3, <1>4, TypePartsNext DEF WindowInv

-----------------------------------------------------------------------------
(* The encoder: what is written leads from mark to mark                    *)

\* Placed, for any delta and target.
PlacedIn(s, d, h, g, m) ==
    \/ WindowEnd(s, m.win) <= d /\ IsPrefix(m.output \o m.decoded, h)
    \/ m.win = d + 1 /\ m.output = h /\ IsPrefix(m.output \o m.decoded, h \o g)

LEMMA PlacedIsPlacedIn ==
    \A m : Placed(m) <=> PlacedIn(Stream, Len(delta), history, target, m)
  BY DEF Placed, PlacedIn

\* The encoder works before the first chunk: its steps leave the decoder where
\* it starts.
LEMMA DecoderWaits ==
    ASSUME WindowInv, received = 0, Writer, WriterType',
           Len(marks') >= 1, marks'[1] = Start(1, <<>>)
    PROVE  SectionType' /\ ReaderType' /\ DecoderInv'
<1>1. UNCHANGED <<received, phase, sectionVars, headerVars, readerVars, targetVars, failed>>
  BY DEF Writer
<1>2. SectionType /\ ReaderType /\ DecoderInv
  BY TypeParts DEF WindowInv
<1>3. /\ phase = "wait" /\ ~found_header /\ output = <<>> /\ parsed = 0 /\ pos = 0
      /\ section_end = 0 /\ ~failed
  BY <1>2 DEF DecoderInv
<1>4. decoded = <<>>
  BY <1>2, <1>3 DEF DecoderInv, AtInstruction, AtWindow
<1>5. SectionType'
  <2>1. 0 \in 0 .. Len(delta')
    BY LenProperties DEF WriterType
  <2>2. /\ received' = 0 /\ parsed' = parsed /\ section_end' = section_end /\ pos' = pos
        /\ last_instruction_start' = last_instruction_start
        /\ target_window_length' = target_window_length
        /\ interleaved_bytes_expected' = interleaved_bytes_expected
    BY <1>1 DEF sectionVars, headerVars, readerVars
  <2> QED
    BY <1>2, <2>1, <2>2 DEF SectionType
<1>6. ReaderType'
  BY <1>1, <1>2 DEF ReaderType, headerVars, readerVars, targetVars
<1>7. AtWindow(marks[1])'
  BY <1>1, <1>3, <1>4 DEF AtWindow, sectionVars, headerVars, targetVars
<1>8. 1 \in 1 .. Len(marks')
  BY LenProperties DEF WriterType
<1>9. DecoderInv'
  BY <1>1, <1>3, <1>7, <1>8 DEF DecoderInv, sectionVars, headerVars, targetVars
<1> QED
  BY <1>5, <1>6, <1>9

LEMMA AllMarks ==
    ASSUME WindowInv, NEW k \in 1 .. Len(marks)
    PROVE  /\ marks[k] \in Mark /\ Within(Stream, marks[k])
           /\ PlacedIn(Stream, Len(delta), history, target, marks[k])
<1>1. marks \in Seq(Mark)
  BY DEF WindowInv, TypeOK
<1>2. marks[k] \in Mark
  BY <1>1, ElementOfSeq
<1>3. Within(Stream, marks[k]) /\ Placed(marks[k])
  BY DEF WindowInv, WriterInv
<1> QED
  BY <1>2, <1>3, PlacedIsPlacedIn

\* Output: the window becomes a part of the delta, and its end leads to the
\* head of the next one.
LEMMA OutputPreserves ==
    ASSUME WindowInv, OutputWindow
    PROVE  WriterType' /\ WriterInv'
<1> DEFINE D == Len(delta)
           I == Len(instructions_and_sizes)
           L == Len(marks)
           s == Stream
           t == Stream'
           here == Start(Len(s) + 1, history \o target)
<1>1. /\ delta' = s /\ history' = history \o target
      /\ instructions_and_sizes' = <<>> /\ last_opcode_index' = 0
      /\ target' = <<>> /\ address_cache' = InitialCache
      /\ marks' = Append(marks, Here')
  BY DEF OutputWindow, Output, Stream
<1>2. TypeOK /\ WriterInv /\ WriterType
  BY TypeParts DEF WindowInv
<1>3. /\ s \in Seq(Token) /\ D \in Nat /\ I \in Nat /\ Len(s) = D + 1 + I
      /\ s[D + 1] = [header |-> Len(target), length |-> I]
      /\ Len(s) \in Nat
  BY <1>2, StreamShape
<1>4. /\ L \in Nat /\ L >= 1 /\ marks \in Seq(Mark)
      /\ target \in Seq(Nat) /\ history \in Seq(Nat) /\ Len(target) \in Nat
  BY <1>2, LenProperties DEF WriterType, WriterInv
<1>5. history \o target \in Seq(Nat)
  BY <1>4, ConcatNat
<1>6. Here' = here
  BY <1>1, <1>3 DEF Here, Start, kNoOpcode
<1>7. here \in Mark
  <2>1. Len(s) + 1 \in Nat
    BY <1>3
  <2> HIDE DEF s
  <2> QED
    BY <1>5, <2>1, StartType
<1>8. /\ Len(t) = Len(s) + 1 /\ Len(t) \in Nat
      /\ \A p \in 1 .. Len(s) : t[p] = s[p]
      /\ t[Len(s) + 1] = [header |-> 0, length |-> 0]
  <2> DEFINE h == [header |-> 0, length |-> 0]
             none == <<>>
  <2>1. t = s \o <<h>> \o none
    BY <1>1 DEF Stream
  <2>2. h \in Token /\ none \in Seq(Token) /\ Len(none) = 0
    BY HeaderToken, EmptySeq
  <2> HIDE DEF s, t, h, none
  <2>3. /\ Len(s \o <<h>> \o none) = Len(s) + 1 + Len(none)
        /\ \A p \in 1 .. Len(s) : (s \o <<h>> \o none)[p] = s[p]
        /\ (s \o <<h>> \o none)[Len(s) + 1] = h
    <3>1. s \in Seq(Token) /\ h \in Token /\ none \in Seq(Token)
      BY <1>3, <2>2
    <3> QED
      BY <3>1, ThreeParts, SMTT(30)
  <2> QED
    BY <1>3, <2>1, <2>2, <2>3 DEF h
<1>9. /\ Len(marks') = L + 1 /\ marks' \in Seq(Mark) /\ marks'[L + 1] = here
      /\ \A k \in 1 .. L : marks'[k] = marks[k]
  <2> HIDE DEF here
  <2> QED
    BY <1>1, <1>4, <1>6, <1>7, AppendProperties
<1>10. ASSUME NEW k \in 1 .. L
       PROVE  Within(t, marks[k]) /\ PlacedIn(t, Len(s), history \o target, <<>>, marks[k])
  <2> DEFINE m == marks[k]
  <2>1. m \in Mark /\ Within(s, m) /\ PlacedIn(s, D, history, target, m)
    BY AllMarks
  <2> HIDE DEF s, t, m
  <2>2. m.win \in 1 .. Len(s) /\ WindowEnd(s, m.win) <= Len(s)
    BY <2>1 DEF Within
  <2>3. t[m.win] = s[m.win] /\ WindowEnd(t, m.win) = WindowEnd(s, m.win)
    BY <1>8, <2>2 DEF WindowEnd
  <2>4. Within(t, m)
    <3>1. WindowEnd(s, m.win) \in Nat /\ m.win \in Nat /\ m.win <= Len(s)
      <4>1. m.win \in Nat /\ m.win <= Len(s)
        BY <1>3, <2>2
      <4>2. s[m.win].length \in Nat
        BY <2>1 DEF Within
      <4> QED
        BY <4>1, <4>2 DEF WindowEnd
    <3>2. m.win \in 1 .. Len(t) /\ WindowEnd(t, m.win) <= Len(t)
      BY <1>3, <1>8, <2>2, <2>3, <3>1
    <3> QED
      BY <2>1, <2>3, <3>2 DEF Within
  <2>5. IsPrefix(m.output \o m.decoded, history \o target)
    <3>1. m.output \o m.decoded \in Seq(Nat)
      BY <2>1, MarkFields, ConcatNat
    <3> QED
      BY <1>4, <2>1, <3>1, PrefixGrows DEF PlacedIn
  <2> QED
    BY <2>2, <2>3, <2>4, <2>5 DEF PlacedIn, m
<1>11. Within(t, here) /\ PlacedIn(t, Len(s), history \o target, <<>>, here)
  <2>1. /\ here.win = Len(s) + 1 /\ here.pos = Len(s) + 1 /\ here.decoded = <<>>
        /\ here.output = history \o target
    BY DEF Start
  <2> HIDE DEF s, t, here
  <2>2. Within(t, here)
    <3>1. WindowEnd(t, here.win) = Len(s) + 1
      BY <1>3, <1>8, <2>1 DEF WindowEnd
    <3>2. t[here.win] \in [header : Nat, length : Nat] /\ t[here.win].header = 0
      BY <1>8, <2>1
    <3>3. Len(here.decoded) = 0
      BY <2>1, EmptySeq
    <3> QED
      BY <1>3, <1>8, <2>1, <3>1, <3>2, <3>3 DEF Within
  <2>3. /\ here.output \o here.decoded = history \o target
        /\ (history \o target) \o <<>> = history \o target
    BY <1>5, <2>1, ConcatNat
  <2> QED
    BY <1>5, <2>1, <2>2, <2>3, PrefixSelf DEF PlacedIn
<1>12. ASSUME NEW k \in 1 .. L - 1
       PROVE  EndsAt(t, marks[k], marks[k + 1]) \/ LeadsTo(t, marks[k], marks[k + 1])
  <2> DEFINE m == marks[k]
             next == marks[k + 1]
  <2>1. /\ m \in Mark /\ next \in Mark /\ Within(s, m) /\ Within(s, next)
        /\ EndsAt(s, m, next) \/ LeadsTo(s, m, next)
    BY TwoMarks
  <2> HIDE DEF s, t, m, next
  <2>2. CASE EndsAt(s, m, next)
    <3>1. t[m.win] = s[m.win]
      BY <1>8, <2>1 DEF Within
    <3>2. EndsAt(t, m, next)
      BY <2>2, <3>1 DEF EndsAt, WindowEnd
    <3> QED
      BY <3>2 DEF m, next
  <2>3. CASE LeadsTo(s, m, next)
    <3>1. next.pos <= Len(s) /\ next.pos \in Nat /\ m.pos \in Nat
      <4>1. next.pos <= WindowEnd(s, next.win) /\ WindowEnd(s, next.win) <= Len(s)
            /\ next.pos \in Nat /\ m.pos \in Nat
        BY <2>1, MarkFields DEF Within
      <4>2. WindowEnd(s, next.win) \in Nat
        <5>1. next.win \in Nat
          BY <2>1, MarkFields
        <5>2. s[next.win].length \in Nat
          BY <2>1 DEF Within
        <5> QED
          BY <5>1, <5>2 DEF WindowEnd
      <4> QED
        BY <1>3, <4>1, <4>2
    <3>2. \A p \in m.pos + 1 .. next.pos : t[p] = s[p]
      <4>1. \A p \in m.pos + 1 .. next.pos : p \in 1 .. Len(s)
        BY <1>3, <3>1
      <4> QED
        BY <1>8, <4>1
    <3>3. LeadsTo(t, m, next)
      BY <2>1, <2>3, <3>2, LeadsFrame
    <3> QED
      BY <3>3 DEF m, next
  <2> QED
    BY <2>1, <2>2, <2>3
<1>13. EndsAt(t, marks[L], here)
  <2>1. marks[L] = Here
    BY <1>2 DEF WriterInv
  <2>2. /\ marks[L].pos = D + 1 + I /\ marks[L].win = D + 1 /\ marks[L].decoded = target
        /\ marks[L].pending = kNoOpcode /\ marks[L].output = history
    BY <2>1 DEF Here
  <2>3. t[D + 1] = [header |-> Len(target), length |-> I]
    <3>1. D + 1 \in 1 .. Len(s)
      BY <1>3
    <3> HIDE DEF s, t, D, I
    <3> QED
      BY <1>3, <1>8, <3>1
  <2>4. WindowEnd(t, D + 1) = D + 1 + I /\ t[D + 1].header = Len(target)
    BY <2>3 DEF WindowEnd
  <2>5. here = Start((D + 1 + I) + 1, history \o target)
    BY <1>3
  <2> HIDE DEF here, t, s, D, I
  <2> QED
    BY <2>2, <2>4, <2>5 DEF EndsAt
<1>14. WriterType'
  <2>1. <<>> \in Seq(Token) /\ Len(<<>>) = 0 /\ <<>> \in Seq(Nat)
    BY EmptySeq
  <2> QED
    BY <1>1, <1>3, <1>5, <1>9, <2>1, InitialCacheType DEF WriterType
<1>15. WriterInv'
  <2>1. Len(marks') >= 1 /\ marks'[1] = Start(1, <<>>)
    BY <1>2, <1>4, <1>9 DEF WriterInv
  <2>2. marks'[Len(marks')] = Here'
    BY <1>6, <1>9
  <2>3. \A k \in 1 .. Len(marks') : Within(t, marks'[k]) /\ Placed(marks[k])'
    <3> SUFFICES ASSUME NEW k \in 1 .. Len(marks')
                 PROVE  Within(t, marks'[k]) /\ Placed(marks[k])'
      OBVIOUS
    <3>1. Within(t, marks'[k]) /\ PlacedIn(t, Len(s), history \o target, <<>>, marks'[k])
      <4>1. k \in 1 .. L \/ k = L + 1
        BY <1>4, <1>9
      <4> HIDE DEF s, t, here
      <4>2. CASE k \in 1 .. L
        BY <1>9, <1>10, <4>2
      <4>3. CASE k = L + 1
        BY <1>9, <1>11, <4>3
      <4> QED
        BY <4>1, <4>2, <4>3
    <3> HIDE DEF s, here
    <3> QED
      BY <1>1, <3>1 DEF Placed, PlacedIn
  <2>4. \A k \in 1 .. Len(marks') - 1 :
           EndsAt(t, marks'[k], marks'[k + 1]) \/ LeadsTo(t, marks'[k], marks'[k + 1])
    <3> SUFFICES ASSUME NEW k \in 1 .. Len(marks') - 1
                 PROVE  EndsAt(t, marks'[k], marks'[k + 1])
                          \/ LeadsTo(t, marks'[k], marks'[k + 1])
      OBVIOUS
    <3> HIDE DEF t, here
    <3>1. CASE k = L
      BY <1>4, <1>9, <1>13, <3>1
    <3>2. CASE k # L
      <4>1. k \in 1 .. L - 1 /\ k \in 1 .. L /\ k + 1 \in 1 .. L
        BY <1>4, <1>9, <3>2
      <4> QED
        BY <1>9, <1>12, <4>1
    <3> QED
      BY <3>1, <3>2
  <2> HIDE DEF here
  <2> QED
    BY <1>1, <2>1, <2>2, <2>3, <2>4 DEF WriterInv
<1> QED
  BY <1>14, <1>15

\* A window that is not all in the delta is the one being written.
LEMMA PlacedWindow ==
    ASSUME NEW s, NEW d \in Nat, NEW h, NEW g, NEW m \in Mark,
           Within(s, m), PlacedIn(s, d, h, g, m)
    PROVE  /\ m.win \in 1 .. d + 1
           /\ WindowEnd(s, m.win) \in Nat /\ m.win <= WindowEnd(s, m.win)
           /\ m.win <= d => WindowEnd(s, m.win) <= d
           /\ m.win <= m.pos /\ m.pos <= WindowEnd(s, m.win)
<1>1. m.win \in Nat /\ m.win >= 1 /\ s[m.win].length \in Nat /\ m.pos \in Nat
  BY MarkFields DEF Within
<1>2. WindowEnd(s, m.win) \in Nat /\ m.win <= WindowEnd(s, m.win)
  BY <1>1 DEF WindowEnd
<1>3. m.win <= m.pos /\ m.pos <= WindowEnd(s, m.win)
  BY <1>1, <1>2 DEF Within
<1>4. WindowEnd(s, m.win) <= d \/ m.win = d + 1
  BY DEF PlacedIn
<1> QED
  BY <1>1, <1>2, <1>3, <1>4

\* The delta so far is d tokens of both, and the window behind it has grown.
Grown(s, t, d) ==
    /\ Len(s) \in Nat /\ Len(t) \in Nat /\ Len(s) <= Len(t)
    /\ \A p \in 1 .. d : t[p] = s[p]
    /\ s[d + 1] \in [header : Nat, length : Nat]
    /\ t[d + 1] \in [header : Nat, length : Nat]
    /\ s[d + 1].header <= t[d + 1].header
    /\ s[d + 1].length <= t[d + 1].length
    /\ d + 1 + t[d + 1].length <= Len(t)

\* A mark stays one while its window grows, whatever is pending at it.
LEMMA MarkStays ==
    ASSUME NEW s, NEW t, NEW d \in Nat,
           NEW h \in Seq(Nat), NEW g \in Seq(Nat), NEW b \in Seq(Nat),
           NEW m \in Mark, NEW x \in Mark,
           x.win = m.win, x.pos = m.pos, x.decoded = m.decoded, x.output = m.output,
           Within(s, m), PlacedIn(s, d, h, g, m),
           Grown(s, t, d)
    PROVE  Within(t, x) /\ PlacedIn(t, d, h, g \o b, x)
<1>1. /\ m.win \in 1 .. d + 1 /\ WindowEnd(s, m.win) \in Nat
      /\ m.win <= d => WindowEnd(s, m.win) <= d
      /\ m.win <= WindowEnd(s, m.win)
  BY PlacedWindow
<1>2. /\ m.win \in 1 .. Len(s) /\ WindowEnd(s, m.win) <= Len(s)
      /\ m.pos \in m.win .. WindowEnd(s, m.win)
      /\ Len(m.decoded) <= s[m.win].header
      /\ s[m.win] \in [header : Nat, length : Nat]
      /\ m.pos \in Nat /\ Len(m.decoded) \in Nat
  BY MarkFields DEF Within
<1>3. CASE m.win <= d
  <2>1. t[m.win] = s[m.win] /\ WindowEnd(t, m.win) = WindowEnd(s, m.win)
    <3>1. m.win \in 1 .. d
      BY <1>1, <1>3
    <3>2. t[m.win] = s[m.win]
      BY <3>1 DEF Grown
    <3> QED
      BY <3>2 DEF WindowEnd
  <2>2. Len(s) \in Nat /\ Len(t) \in Nat /\ Len(s) <= Len(t)
    BY DEF Grown
  <2>3. m.win \in 1 .. Len(t) /\ WindowEnd(s, m.win) <= Len(t)
    BY <1>1, <1>2, <2>2
  <2>4. Within(t, x)
    BY <1>2, <2>1, <2>3 DEF Within
  <2>5. IsPrefix(x.output \o x.decoded, h)
    BY <1>3 DEF PlacedIn
  <2> QED
    BY <1>1, <1>3, <2>1, <2>4, <2>5 DEF PlacedIn
<1>4. CASE m.win = d + 1
  <2>1. /\ s[m.win].length \in Nat /\ t[m.win].length \in Nat
        /\ s[m.win].header \in Nat /\ t[m.win].header \in Nat
        /\ s[m.win].length <= t[m.win].length /\ s[m.win].header <= t[m.win].header
        /\ t[m.win] \in [header : Nat, length : Nat]
        /\ Len(s) \in Nat /\ Len(t) \in Nat /\ Len(s) <= Len(t)
    BY <1>4 DEF Grown
  <2>2. /\ WindowEnd(s, m.win) = m.win + s[m.win].length
        /\ WindowEnd(t, m.win) = m.win + t[m.win].length
    BY DEF WindowEnd
  <2>3. WindowEnd(t, m.win) <= Len(t)
    BY <1>4, <2>2 DEF Grown
  <2>4. Within(t, x)
    <3>1. m.win \in 1 .. Len(t)
      BY <1>2, <2>1
    <3>2. m.pos \in m.win .. WindowEnd(t, m.win)
      <4> DEFINE a == WindowEnd(s, m.win)
                 c == WindowEnd(t, m.win)
                 l == s[m.win].length
                 n == t[m.win].length
                 w == m.win
                 q == m.pos
      <4>1. l \in Nat /\ n \in Nat /\ l <= n /\ a = w + l /\ c = w + n
        BY <2>1, <2>2
      <4>2. q \in w .. a /\ w \in Nat /\ q \in Nat
        BY <1>1, <1>2
      <4> HIDE DEF a, c, l, n, w, q
      <4>3. q \in w .. c
        BY <4>1, <4>2
      <4> QED
        BY <4>3 DEF q, w, c
    <3>3. Len(m.decoded) <= t[m.win].header
      <4> DEFINE l == Len(m.decoded)
                 n == s[m.win].header
                 c == t[m.win].header
      <4>1. l \in Nat /\ n \in Nat /\ c \in Nat /\ l <= n /\ n <= c
        BY <1>2, <2>1
      <4> HIDE DEF l, n, c
      <4>2. l <= c
        BY <4>1
      <4> QED
        BY <4>2 DEF l, c
    <3> QED
      BY <2>1, <2>3, <3>1, <3>2, <3>3 DEF Within
  <2>5. m.output = h /\ IsPrefix(m.output \o m.decoded, h \o g)
    BY <1>1, <1>4 DEF PlacedIn
  <2>6. IsPrefix(m.output \o m.decoded, h \o (g \o b))
    <3>1. m.output \o m.decoded \in Seq(Nat) /\ h \o g \in Seq(Nat)
      BY MarkFields, ConcatNat
    <3>2. (h \o g) \o b = h \o (g \o b)
      BY ConcatAssoc
    <3> QED
      BY <2>5, <3>1, <3>2, PrefixGrows
  <2> QED
    BY <1>4, <2>4, <2>5, <2>6 DEF PlacedIn
<1>5. m.win <= d \/ m.win = d + 1
  BY <1>1
<1> QED
  BY <1>3, <1>4, <1>5

\* What leads from a mark to the next one is not touched by what is written
\* behind it, nor by the header of its window.
LEMMA PairStays ==
    ASSUME NEW s, NEW t, NEW d \in Nat, NEW e \in Nat, NEW h, NEW g,
           NEW m \in Mark, NEW next \in Mark,
           Within(s, m), Within(s, next),
           PlacedIn(s, d, h, g, m), PlacedIn(s, d, h, g, next),
           EndsAt(s, m, next) \/ LeadsTo(s, m, next),
           \A p \in 1 .. d : t[p] = s[p],
           \A p \in d + 2 .. e : t[p] = s[p],
           m.win = d + 1 => next.pos <= e
    PROVE  EndsAt(t, m, next) \/ LeadsTo(t, m, next)
<1>1. /\ m.win \in 1 .. d + 1 /\ WindowEnd(s, m.win) \in Nat
      /\ m.win <= d => WindowEnd(s, m.win) <= d
      /\ m.win <= m.pos /\ m.pos <= WindowEnd(s, m.win)
  BY PlacedWindow
<1>2. /\ next.win \in 1 .. d + 1 /\ WindowEnd(s, next.win) \in Nat
      /\ next.win <= d => WindowEnd(s, next.win) <= d
      /\ next.win <= next.pos /\ next.pos <= WindowEnd(s, next.win)
  BY PlacedWindow
<1>3. m.pos \in Nat /\ next.pos \in Nat
  BY MarkFields
<1>4. CASE EndsAt(s, m, next)
  <2>1. next.win = m.pos + 1
    BY <1>4 DEF EndsAt, Start
  <2>2. m.win \in 1 .. d
    BY <1>1, <1>2, <1>3, <2>1
  <2>3. t[m.win] = s[m.win]
    BY <2>2
  <2> QED
    BY <1>4, <2>3 DEF EndsAt, WindowEnd
<1>5. CASE LeadsTo(s, m, next)
  <2>1. next.win = m.win
    BY <1>5 DEF LeadsTo
  <2>2. CASE m.win <= d
    <3>1. next.pos <= d
      BY <1>1, <1>2, <1>3, <2>1, <2>2
    <3>2. \A p \in m.pos + 1 .. next.pos : t[p] = s[p]
      BY <1>1, <1>3, <3>1
    <3> QED
      BY <1>5, <3>2, LeadsFrame
  <2>3. CASE m.win = d + 1
    <3>1. \A p \in m.pos + 1 .. next.pos : p \in d + 2 .. e
      BY <1>1, <1>3, <2>3
    <3>2. \A p \in m.pos + 1 .. next.pos : t[p] = s[p]
      BY <3>1
    <3> QED
      BY <1>5, <3>2, LeadsFrame
  <2> QED
    BY <1>1, <2>2, <2>3
<1> QED
  BY <1>4, <1>5

\* The section with an instruction in an opcode of its own, or in the one at k.
SingleOpcode(a, i, n, operand) ==
    Append(a, [opcode |-> <<i>>])
      \o (IF i.size = 0 THEN <<[size |-> n]>> ELSE <<>>) \o operand

SizeTokens(i) == IF i.size = 0 THEN 1 ELSE 0

DoubleOpcode(a, k, i, operand) ==
    [a EXCEPT ![k].opcode = Append(@, i)] \o operand

SingleWritten(a, b, i, n, operand) ==
    LET c == Len(a) + 1 + SizeTokens(i)
    IN /\ b \in Seq(Token) /\ Len(b) = c + Len(operand)
       /\ Len(a) \in Nat /\ Len(operand) \in Nat
       /\ \A j \in 1 .. Len(a) : b[j] = a[j]
       /\ b[Len(a) + 1] = [opcode |-> <<i>>]
       /\ i.size = 0 => b[Len(a) + 1 + 1] = [size |-> n]
       /\ \A j \in 1 .. Len(operand) : b[c + j] = operand[j]

DoubleWritten(a, b, k, i0, i, operand) ==
    /\ b \in Seq(Token) /\ Len(b) = Len(a) + Len(operand)
    /\ Len(a) \in Nat /\ Len(operand) \in Nat
    /\ \A j \in 1 .. Len(a) : j # k => b[j] = a[j]
    /\ b[k] = [opcode |-> <<i0>> \o <<i>>]
    /\ \A j \in 1 .. Len(operand) : b[Len(a) + j] = operand[j]

\* EncodeInstruction appends an opcode, its size unless implicit, the operand ...
LEMMA SingleTokens ==
    ASSUME NEW a \in Seq(Token), NEW i \in Instruction, NEW n \in Nat,
           NEW operand \in Seq(Token)
    PROVE  SingleWritten(a, SingleOpcode(a, i, n, operand), i, n, operand)
<1> DEFINE o == [opcode |-> <<i>>]
           h == [size |-> n]
           first == Append(a, o)
<1>1. o \in Token /\ h \in Token
  <2>1. <<i>> \in Seq(Instruction)
    OBVIOUS
  <2> QED
    BY <2>1 DEF Token
<1>2. Len(a) \in Nat /\ Len(operand) \in Nat
  BY LenProperties
<1> HIDE DEF o, h
<1>3. /\ first \in Seq(Token) /\ Len(first) = Len(a) + 1
      /\ \A j \in 1 .. Len(a) : first[j] = a[j]
      /\ first[Len(a) + 1] = o
  BY <1>1, AppendProperties
<1> HIDE DEF first
<1>4. CASE i.size = 0
  <2> DEFINE b == first \o <<h>> \o operand
  <2>1. /\ b \in Seq(Token) /\ Len(b) = Len(first) + 1 + Len(operand)
        /\ \A j \in 1 .. Len(first) : b[j] = first[j]
        /\ b[Len(first) + 1] = h
        /\ \A j \in 1 .. Len(operand) : b[Len(first) + 1 + j] = operand[j]
    <3>1. first \in Seq(Token) /\ h \in Token
      BY <1>1, <1>3
    <3> QED
      BY <3>1, ThreeParts, SMTT(30)
  <2> HIDE DEF b
  <2>2. \A j \in 1 .. Len(a) : b[j] = a[j]
    BY <1>2, <1>3, <2>1
  <2>3. b[Len(a) + 1] = o
    BY <1>2, <1>3, <2>1
  <2>4. /\ Len(b) = Len(a) + 1 + 1 + Len(operand)
        /\ b[Len(a) + 1 + 1] = h
        /\ \A j \in 1 .. Len(operand) : b[Len(a) + 1 + 1 + j] = operand[j]
    BY <1>2, <1>3, <2>1
  <2> QED
    BY <1>2, <1>4, <2>1, <2>2, <2>3, <2>4 DEF b, h, o, first, SingleOpcode, SingleWritten, SizeTokens
<1>5. CASE i.size # 0
  <2> DEFINE b == first \o operand
  <2>1. /\ b \in Seq(Token) /\ Len(b) = Len(first) + Len(operand)
        /\ \A j \in 1 .. Len(first) + Len(operand) :
              b[j] = IF j <= Len(first) THEN first[j] ELSE operand[j - Len(first)]
    BY <1>3, ConcatProperties
  <2>2. first \o <<>> = first
    BY <1>3, ConcatEmptySeq
  <2> HIDE DEF b
  <2>3. \A j \in 1 .. Len(a) : b[j] = a[j]
    BY <1>2, <1>3, <2>1
  <2>4. b[Len(a) + 1] = o
    BY <1>2, <1>3, <2>1
  <2>5. ASSUME NEW j \in 1 .. Len(operand) PROVE b[Len(a) + 1 + j] = operand[j]
    <3> DEFINE q == Len(a) + 1 + j
    <3>1. /\ q \in 1 .. Len(first) + Len(operand) /\ ~(q <= Len(first))
          /\ q - Len(first) = j
      BY <1>2, <1>3
    <3> HIDE DEF q
    <3>2. b[q] = operand[j]
      BY <2>1, <3>1
    <3> QED
      BY <3>2 DEF q
  <2> QED
    <3>1. SizeTokens(i) = 0 /\ SingleOpcode(a, i, n, operand) = b
      BY <1>5, <2>2 DEF b, o, first, SingleOpcode, SizeTokens
    <3>2. Len(a) + 1 + 0 = Len(a) + 1
      BY <1>2
    <3> QED
      BY <1>2, <1>3, <1>5, <2>1, <2>3, <2>4, <2>5, <3>1, <3>2 DEF o, SingleWritten
<1> QED
  BY <1>4, <1>5

\* ... or makes the last opcode a double one and appends the operand.
LEMMA DoubleTokens ==
    ASSUME NEW a \in Seq(Token), NEW n \in 1 .. Len(a),
           NEW i0 \in Instruction, NEW i \in Instruction,
           a[n] = [opcode |-> <<i0>>], NEW operand \in Seq(Token)
    PROVE  DoubleWritten(a, DoubleOpcode(a, n, i, operand), n, i0, i, operand)
<1> DEFINE two == <<i0>> \o <<i>>
           o == [opcode |-> two]
           e == [a EXCEPT ![n].opcode = Append(@, i)]
           b == e \o operand
<1>1. Len(a) \in Nat /\ Len(operand) \in Nat
  BY LenProperties
<1>2. two \in Seq(Instruction) /\ Append(<<i0>>, i) = two
  <2>1. <<i0>> \in Seq(Instruction) /\ <<i>> \in Seq(Instruction)
    OBVIOUS
  <2> QED
    BY <2>1, ConcatProperties, AppendIsConcat
<1> HIDE DEF two
<1>3. o \in Token
  BY <1>2 DEF Token
<1>4. e = [a EXCEPT ![n] = o]
  <2>1. a[n].opcode = <<i0>>
    OBVIOUS
  <2>2. [a[n] EXCEPT !.opcode = Append(@, i)] = [opcode |-> Append(<<i0>>, i)]
    OBVIOUS
  <2> QED
    BY <1>2, <2>2
<1> HIDE DEF o
<1>5. /\ e \in Seq(Token) /\ Len(e) = Len(a)
      /\ \A j \in 1 .. Len(a) : e[j] = IF j = n THEN o ELSE a[j]
  <2> DEFINE x == [a EXCEPT ![n] = o]
  <2>1. /\ x \in Seq(Token) /\ Len(x) = Len(a)
        /\ \A j \in 1 .. Len(a) : x[j] = IF j = n THEN o ELSE a[j]
    BY <1>3, ExceptSeq
  <2> QED
    BY <1>4, <2>1
<1> HIDE DEF e
<1>6. /\ b \in Seq(Token) /\ Len(b) = Len(e) + Len(operand)
      /\ \A j \in 1 .. Len(e) + Len(operand) :
            b[j] = IF j <= Len(e) THEN e[j] ELSE operand[j - Len(e)]
  <2>1. e \in Seq(Token)
    BY <1>5
  <2> QED
    BY <2>1, ConcatProperties, Zenon
<1> HIDE DEF b
<1>7. \A j \in 1 .. Len(a) : b[j] = IF j = n THEN o ELSE a[j]
  BY <1>1, <1>5, <1>6
<1>8. ASSUME NEW j \in 1 .. Len(operand) PROVE b[Len(a) + j] = operand[j]
  <2> DEFINE q == Len(a) + j
  <2>1. q \in 1 .. Len(e) + Len(operand) /\ ~(q <= Len(e)) /\ q - Len(e) = j
    BY <1>1, <1>5
  <2> HIDE DEF q
  <2>2. b[q] = operand[j]
    BY <1>6, <2>1
  <2> QED
    BY <2>2 DEF q
<1>9. b[n] = o /\ \A j \in 1 .. Len(a) : j # n => b[j] = a[j]
  BY <1>7
<1> QED
  BY <1>1, <1>5, <1>6, <1>8, <1>9 DEF b, e, o, two, DoubleOpcode, DoubleWritten

LEMMA StreamShapeNext ==
    ASSUME delta' \in Seq(Token), instructions_and_sizes' \in Seq(Token),
           target' \in Seq(Nat)
    PROVE  /\ Len(delta') \in Nat /\ Len(instructions_and_sizes') \in Nat
           /\ Len(target') \in Nat
           /\ Len(Stream') = Len(delta') + 1 + Len(instructions_and_sizes')
           /\ \A p \in 1 .. Len(delta') : Stream'[p] = delta'[p]
           /\ Stream'[Len(delta') + 1] = [header |-> Len(target'),
                                          length |-> Len(instructions_and_sizes')]
           /\ \A j \in 1 .. Len(instructions_and_sizes') :
                 Stream'[Len(delta') + 1 + j] = instructions_and_sizes'[j]
<1> DEFINE d == delta'
           i == instructions_and_sizes'
           n == Len(target')
           h == [header |-> n, length |-> Len(i)]
<1>1. d \in Seq(Token) /\ i \in Seq(Token) /\ n \in Nat /\ Len(i) \in Nat
  BY LenProperties
<1>2. Stream' = d \o <<h>> \o i
  BY DEF Stream
<1> HIDE DEF d, i, n
<1>3. h \in Token
  BY <1>1, HeaderToken
<1> HIDE DEF h
<1> QED
  BY <1>1, <1>2, <1>3, ThreeParts DEF h, d, i, n

\* What EncodeInstruction leaves for an instruction i of size n, whose operand
\* starts behind position p: the last mark with it, all marks in place, and
\* the last single opcode known.
Written(i, n, operand, p) ==
    LET L == Len(marks)
        m == Marked[L]
        t == Stream'
    IN /\ instructions_and_sizes' \in Seq(Token)
       /\ last_opcode_index' \in 0 .. Len(instructions_and_sizes')
       /\ Marked \in Seq(Mark) /\ Len(Marked) = L
       /\ Marked[1] = Start(1, <<>>)
       /\ m.win = Len(delta) + 1 /\ m.cache = address_cache /\ m.decoded = target
       /\ m.output = history
       /\ InstructionAt(t, m) = i /\ SizeAt(t, m) = n /\ OperandFrom(t, m) = p
       /\ m.pending = kNoOpcode => t[m.pos + 1] = [opcode |-> <<i>>]
       /\ m.pending # kNoOpcode => m.pending = <<i>> /\ i.size # 0
       /\ i.size = 0 => t[SizeFrom(m) + 1] = [size |-> n]
       /\ p \in Nat
       /\ p + Len(operand) = Len(delta) + 1 + Len(instructions_and_sizes')
       /\ \A j \in 1 .. Len(operand) : t[p + j] = operand[j]
       /\ \A k \in 1 .. L - 1 : \/ EndsAt(t, Marked[k], Marked[k + 1])
                                \/ LeadsTo(t, Marked[k], Marked[k + 1])
       /\ \A k \in 1 .. L : /\ Within(t, Marked[k])
                            /\ PlacedIn(t, Len(delta), history, target', Marked[k])
       /\ last_opcode_index' # 0 =>
             /\ m.pending = kNoOpcode /\ m.pos = Len(delta) + last_opcode_index'
             /\ \A k \in 1 .. L : Marked[k].pos <= m.pos

\* The window has grown by an instruction.
LEMMA WindowGrown ==
    ASSUME WindowInv, NEW bytes \in Seq(Nat),
           target' = target \o bytes, delta' = delta,
           instructions_and_sizes' \in Seq(Token),
           Len(instructions_and_sizes) <= Len(instructions_and_sizes')
    PROVE  Grown(Stream, Stream', Len(delta))
<1>1. TypeOK /\ target \in Seq(Nat) /\ delta \in Seq(Token)
  BY DEF WindowInv, TypeOK
<1>2. /\ target' \in Seq(Nat) /\ Len(target) \in Nat /\ Len(target') \in Nat
      /\ Len(target) <= Len(target')
  <2>1. target \o bytes \in Seq(Nat) /\ Len(target \o bytes) = Len(target) + Len(bytes)
        /\ Len(target) \in Nat /\ Len(bytes) \in Nat
    BY <1>1, ConcatNat
  <2> QED
    BY <2>1
<1> DEFINE s == Stream
           t == Stream'
           d == Len(delta)
           a == Len(instructions_and_sizes)
           b == Len(instructions_and_sizes')
           g == Len(target)
           h == Len(target')
<1>3. /\ d \in Nat /\ a \in Nat /\ Len(s) = d + 1 + a
      /\ s[d + 1] = [header |-> g, length |-> a]
      /\ \A p \in 1 .. d : s[p] = delta[p]
  BY <1>1, StreamShape
<1>4. /\ b \in Nat /\ Len(t) = d + 1 + b
      /\ t[d + 1] = [header |-> h, length |-> b]
      /\ \A p \in 1 .. d : t[p] = delta[p]
  <2>1. delta' \in Seq(Token)
    BY <1>1
  <2> QED
    BY <1>2, <2>1, StreamShapeNext
<1>5. a <= b /\ g <= h /\ g \in Nat /\ h \in Nat
  BY <1>2
<1> HIDE DEF s, t, d, a, b, g, h
<1>6. Grown(s, t, d)
  BY <1>3, <1>4, <1>5 DEF Grown
<1> QED
  BY <1>6 DEF s, t, d

\* The last mark is the encoder's position.
LEMMA LastMark ==
    ASSUME WindowInv
    PROVE  /\ Len(marks) \in Nat /\ Len(marks) >= 1 /\ marks \in Seq(Mark)
           /\ marks[Len(marks)] = Here /\ Here \in Mark
           /\ Here.win = Len(delta) + 1
           /\ Here.pos = Len(delta) + 1 + Len(instructions_and_sizes)
           /\ Here.pending = kNoOpcode /\ Here.cache = address_cache
           /\ Here.decoded = target /\ Here.output = history
<1>1. Len(marks) \in Nat /\ Len(marks) >= 1 /\ marks \in Seq(Mark)
      /\ marks[Len(marks)] = Here
  BY LenProperties DEF WindowInv, TypeOK, WriterInv
<1>2. marks[Len(marks)] \in Mark
  BY <1>1, ElementOfSeq
<1> QED
  BY <1>1, <1>2 DEF Here

\* A single opcode.
LEMMA WrittenSingle ==
    ASSUME WindowInv, NEW i \in Instruction, NEW n \in Nat \ {0},
           NEW operand \in Seq(Token), Len(operand) >= 1,
           i.size \in {0, n},
           NEW bytes \in Seq(Nat),
           target' = target \o bytes, UNCHANGED <<delta, history>>,
           instructions_and_sizes' = SingleOpcode(instructions_and_sizes, i, n, operand),
           last_opcode_index' = Len(instructions_and_sizes) + 1
    PROVE  \E p \in Nat : Written(i, n, operand, p)
<1> DEFINE a == instructions_and_sizes
           b == instructions_and_sizes'
           I == Len(a)
           D == Len(delta)
           L == Len(marks)
           s == Stream
           t == Stream'
           z == SizeTokens(i)
           p == D + 1 + I + 1 + z
           m == marks[L]
           x == Len(operand)
<1>1. TypeOK /\ a \in Seq(Token) /\ delta \in Seq(Token) /\ target \in Seq(Nat)
      /\ history \in Seq(Nat)
  BY DEF WindowInv, TypeOK
<1>2. /\ b \in Seq(Token) /\ Len(b) = (I + 1 + z) + x
      /\ I \in Nat /\ x \in Nat
      /\ \A j \in 1 .. I : b[j] = a[j]
      /\ b[I + 1] = [opcode |-> <<i>>]
      /\ i.size = 0 => b[I + 1 + 1] = [size |-> n]
      /\ \A j \in 1 .. x : b[(I + 1 + z) + j] = operand[j]
  <2>1. n \in Nat /\ a \in Seq(Token) /\ b = SingleOpcode(a, i, n, operand)
    BY <1>1
  <2>2. SingleWritten(a, b, i, n, operand)
    BY <2>1, SingleTokens
  <2> HIDE DEF a, b
  <2> QED
    BY <2>2 DEF SingleWritten
<1>3. /\ D \in Nat /\ Len(s) = D + 1 + I
      /\ \A q \in 1 .. D : s[q] = delta[q]
      /\ \A j \in 1 .. I : s[D + 1 + j] = a[j]
  BY <1>1, StreamShape
<1>4. target' \in Seq(Nat) /\ delta' = delta
  <2>1. target \o bytes \in Seq(Nat)
    BY <1>1, ConcatNat
  <2> QED
    BY <2>1
<1>5. /\ Len(t) = D + 1 + Len(b)
      /\ \A q \in 1 .. D : t[q] = delta[q]
      /\ \A j \in 1 .. Len(b) : t[D + 1 + j] = b[j]
  <2>1. delta' \in Seq(Token) /\ Len(delta') = D
    BY <1>1, <1>4
  <2> QED
    BY <1>2, <1>4, <2>1, StreamShapeNext
<1>6. x >= 1 /\ z \in {0, 1} /\ z = (IF i.size = 0 THEN 1 ELSE 0)
  BY DEF SizeTokens
<1>7. /\ L \in Nat /\ L >= 1 /\ marks \in Seq(Mark) /\ m \in Mark
      /\ m.win = D + 1 /\ m.pos = D + 1 + I /\ m.pending = kNoOpcode
      /\ m.cache = address_cache /\ m.decoded = target /\ m.output = history
  BY LastMark
<1>8. Grown(s, t, D)
  <2>1. I <= Len(b)
    BY <1>2, <1>6
  <2> QED
    BY <1>2, <1>4, <2>1, WindowGrown
<1>9. Marked = marks
  BY <1>2 DEF Marked
<1>10. marks[1] = Start(1, <<>>)
  BY DEF WindowInv, WriterInv
<1>11. last_opcode_index' = I + 1
  OBVIOUS
<1> HIDE DEF a, b, s, t, m, x, z, I, D, L
<1>12. \A q \in D + 2 .. D + 1 + I : t[q] = s[q]
  <2> SUFFICES ASSUME NEW q \in D + 2 .. D + 1 + I PROVE t[q] = s[q]
    OBVIOUS
  <2> DEFINE j == q - (D + 1)
  <2>1. j \in 1 .. I /\ j \in 1 .. Len(b) /\ q = D + 1 + j
    <3>1. I \in Nat /\ D \in Nat
      BY <1>2, <1>3
    <3>2. Len(b) \in Nat /\ I <= Len(b)
      BY <1>2, <1>6
    <3> QED
      BY <3>1, <3>2
  <2> HIDE DEF j
  <2> QED
    BY <1>2, <1>3, <1>5, <2>1
<1>13. t[m.pos + 1] = [opcode |-> <<i>>]
  <2>1. I + 1 \in 1 .. Len(b)
    BY <1>2, <1>6
  <2>2. m.pos + 1 = D + 1 + (I + 1)
    BY <1>2, <1>3, <1>7
  <2> QED
    BY <1>2, <1>5, <2>1, <2>2
<1>14. InstructionAt(t, m) = i /\ SizeFrom(m) = D + 1 + I + 1 /\ OperandFrom(t, m) = p
  <2>1. InstructionAt(t, m) = i
    BY <1>7, <1>13 DEF InstructionAt
  <2>2. SizeFrom(m) = D + 1 + I + 1
    BY <1>7 DEF SizeFrom
  <2> QED
    BY <1>6, <2>1, <2>2 DEF OperandFrom
<1>15. i.size = 0 => t[SizeFrom(m) + 1] = [size |-> n]
  <2>1. SUFFICES ASSUME i.size = 0 PROVE t[SizeFrom(m) + 1] = [size |-> n]
    OBVIOUS
  <2>2. z = 1
    BY <1>6, <2>1
  <2>3. I + 1 + 1 \in 1 .. Len(b) /\ SizeFrom(m) + 1 = D + 1 + (I + 1 + 1)
    BY <1>2, <1>3, <1>6, <1>14, <2>2
  <2> QED
    BY <1>2, <1>5, <2>1, <2>3
<1>16. SizeAt(t, m) = n
  BY <1>14, <1>15 DEF SizeAt
<1>17. p \in Nat /\ p + x = D + 1 + Len(b)
  <2> DEFINE l == Len(b)
  <2>1. l = (I + 1 + z) + x /\ I \in Nat /\ x \in Nat /\ D \in Nat /\ z \in Nat
    BY <1>2, <1>3, <1>6
  <2> HIDE DEF l
  <2>2. p \in Nat /\ p + x = D + 1 + l
    BY <2>1
  <2> QED
    BY <2>2 DEF l
<1>18. \A j \in 1 .. x : t[p + j] = operand[j]
  <2> SUFFICES ASSUME NEW j \in 1 .. x PROVE t[p + j] = operand[j]
    OBVIOUS
  <2> DEFINE q == (I + 1 + z) + j
  <2>1. q \in 1 .. Len(b) /\ p + j = D + 1 + q
    BY <1>2, <1>3, <1>6
  <2>2. b[q] = operand[j]
    BY <1>2
  <2> HIDE DEF q, p
  <2> QED
    BY <1>5, <2>1, <2>2
<1>19. \A k \in 1 .. L : /\ Within(t, marks[k])
                         /\ PlacedIn(t, D, history, target', marks[k])
                         /\ marks[k].pos <= m.pos
  <2> SUFFICES ASSUME NEW k \in 1 .. L
               PROVE  /\ Within(t, marks[k])
                      /\ PlacedIn(t, D, history, target', marks[k])
                      /\ marks[k].pos <= m.pos
    OBVIOUS
  <2> DEFINE y == marks[k]
  <2>1. y \in Mark /\ Within(s, y) /\ PlacedIn(s, D, history, target, y)
    BY AllMarks DEF s, L, D
  <2> HIDE DEF y
  <2>2. Within(t, y) /\ PlacedIn(t, D, history, target \o bytes, y)
    BY <1>1, <1>3, <1>8, <2>1, MarkStays
  <2>3. y.pos <= m.pos
    <3>1. /\ y.pos <= WindowEnd(s, y.win) /\ WindowEnd(s, y.win) <= Len(s)
          /\ WindowEnd(s, y.win) \in Nat /\ y.pos \in Nat
      BY <1>3, <2>1, PlacedWindow, MarkFields DEF Within
    <3> QED
      BY <1>2, <1>3, <1>7, <3>1
  <2> QED
    BY <2>2, <2>3 DEF y
<1>20. \A k \in 1 .. L - 1 : EndsAt(t, marks[k], marks[k + 1])
                               \/ LeadsTo(t, marks[k], marks[k + 1])
  <2> SUFFICES ASSUME NEW k \in 1 .. L - 1
               PROVE  EndsAt(t, marks[k], marks[k + 1])
                        \/ LeadsTo(t, marks[k], marks[k + 1])
    OBVIOUS
  <2> DEFINE y == marks[k]
             next == marks[k + 1]
             e == D + 1 + I
  <2>1. /\ y \in Mark /\ next \in Mark /\ Within(s, y) /\ Within(s, next)
        /\ EndsAt(s, y, next) \/ LeadsTo(s, y, next)
        /\ k \in 1 .. L /\ k + 1 \in 1 .. L
    BY TwoMarks DEF s, L
  <2>2. PlacedIn(s, D, history, target, y) /\ PlacedIn(s, D, history, target, next)
    BY <2>1, AllMarks DEF s, L, D
  <2>3. next.pos <= m.pos /\ m.pos = e
    BY <1>7, <1>19, <2>1
  <2>4. e \in Nat /\ \A q \in 1 .. D : t[q] = s[q]
    BY <1>2, <1>3, <1>5
  <2> HIDE DEF y, next, e
  <2>5. \A q \in D + 2 .. e : t[q] = s[q]
    BY <1>12 DEF e
  <2>6. EndsAt(t, y, next) \/ LeadsTo(t, y, next)
    <3>1. next.pos <= e
      BY <2>3
    <3> QED
      BY <1>3, <2>1, <2>2, <2>4, <2>5, <3>1, PairStays
  <2> QED
    BY <2>6 DEF y, next
<1>21. last_opcode_index' \in 0 .. Len(b) /\ m.pos = D + last_opcode_index'
  <2>1. I + 1 \in 0 .. Len(b)
    BY <1>2, <1>6
  <2>2. m.pos = D + (I + 1)
    BY <1>2, <1>3, <1>7
  <2> QED
    BY <1>11, <2>1, <2>2
<1> HIDE DEF p
<1>22. Written(i, n, operand, p)
  BY <1>2, <1>7, <1>9, <1>10, <1>13, <1>14, <1>15, <1>16, <1>17, <1>18, <1>19, <1>20, <1>21
     DEF Written, a, b, s, t, m, x, I, D, L
<1> QED
  BY <1>17, <1>22

\* The last single opcode is the one of the instruction before the last mark.
LEMMA LastOpcode ==
    ASSUME WindowInv, last_opcode_index # 0
    PROVE  LET y  == marks[Len(marks) - 1]
               i0 == InstructionAt(Stream, y)
           IN /\ Len(marks) > 1 /\ y \in Mark /\ y.pending = kNoOpcode
              /\ last_opcode_index \in 1 .. Len(instructions_and_sizes)
              /\ y.pos = Len(delta) + last_opcode_index
              /\ LeadsTo(Stream, y, Here)
              /\ i0 \in Instruction
              /\ instructions_and_sizes[last_opcode_index] = [opcode |-> <<i0>>]
              /\ \A k \in 1 .. Len(marks) - 1 : marks[k].pos <= y.pos
<1> DEFINE L == Len(marks)
           y == marks[L - 1]
           n == last_opcode_index
           D == Len(delta)
           I == Len(instructions_and_sizes)
           i0 == InstructionAt(Stream, y)
<1>1. /\ L > 1 /\ y.win = D + 1 /\ y.pending = kNoOpcode /\ y.pos = D + n
      /\ \A k \in 1 .. L - 1 : marks[k].pos <= y.pos
  BY DEF WindowInv, WriterInv
<1>2. TypeOK /\ n \in 0 .. I
  BY DEF WindowInv, TypeOK
<1>3. /\ D \in Nat /\ I \in Nat
      /\ \A j \in 1 .. I : Stream[D + 1 + j] = instructions_and_sizes[j]
  BY <1>2, StreamShape
<1>4. n \in 1 .. I
  BY <1>2, <1>3
<1>5. /\ L \in Nat /\ marks[L] = Here /\ Here.pending = kNoOpcode /\ Here.win = D + 1
  BY LastMark
<1>6. L - 1 \in 1 .. L - 1 /\ (L - 1) + 1 = L
  BY <1>1, <1>5
<1>7. /\ y \in Mark
      /\ EndsAt(Stream, y, Here) \/ LeadsTo(Stream, y, Here)
  BY <1>5, <1>6, TwoMarks
<1> HIDE DEF y, D, I, n
<1>8. LeadsTo(Stream, y, Here)
  <2>1. ASSUME EndsAt(Stream, y, Here) PROVE FALSE
    <3>1. Here.win = y.pos + 1
      BY <2>1 DEF EndsAt, Start
    <3> QED
      BY <1>1, <1>3, <1>4, <1>5, <3>1
  <2> QED
    BY <1>7, <2>1
<1>9. i0 \in Instruction /\ Stream[y.pos + 1] = [opcode |-> <<i0>> \o Here.pending]
  BY <1>1, <1>8 DEF LeadsTo
<1>10. <<i0>> \o Here.pending = <<i0>>
  <2>1. <<i0>> \in Seq(Instruction)
    BY <1>9
  <2> QED
    BY <1>5, <2>1, ConcatEmptySeq DEF kNoOpcode
<1>11. y.pos + 1 = D + 1 + n
  BY <1>1, <1>3, <1>4
<1>12. instructions_and_sizes[n] = [opcode |-> <<i0>>]
  BY <1>3, <1>4, <1>9, <1>10, <1>11
<1> QED
  BY <1>1, <1>4, <1>7, <1>8, <1>9, <1>12 DEF y, D, I, n

\* A double one.
LEMMA WrittenDouble ==
    ASSUME WindowInv, last_opcode_index # 0,
           NEW i \in Instruction, i.size # 0,
           NEW operand \in Seq(Token), Len(operand) >= 1,
           NEW bytes \in Seq(Nat),
           target' = target \o bytes, UNCHANGED <<delta, history>>,
           instructions_and_sizes' =
               DoubleOpcode(instructions_and_sizes, last_opcode_index, i, operand),
           last_opcode_index' = 0
    PROVE  Written(i, i.size, operand,
                   Len(delta) + 1 + Len(instructions_and_sizes))
<1> DEFINE a == instructions_and_sizes
           b == instructions_and_sizes'
           n == last_opcode_index
           I == Len(a)
           D == Len(delta)
           L == Len(marks)
           s == Stream
           t == Stream'
           y == marks[L - 1]
           i0 == InstructionAt(s, y)
           m == [Here EXCEPT !.pending = <<i>>]
           x == Len(operand)
           e == D + n
           p == D + 1 + I
<1>1. TypeOK /\ a \in Seq(Token) /\ delta \in Seq(Token) /\ target \in Seq(Nat)
      /\ history \in Seq(Nat)
  BY DEF WindowInv, TypeOK
<1>2. /\ L > 1 /\ y \in Mark /\ y.pending = kNoOpcode /\ n \in 1 .. I
      /\ y.pos = e /\ LeadsTo(s, y, Here) /\ i0 \in Instruction
      /\ a[n] = [opcode |-> <<i0>>]
      /\ \A k \in 1 .. L - 1 : marks[k].pos <= y.pos
  BY LastOpcode
<1>3. DoubleWritten(a, b, n, i0, i, operand)
  <2>1. b = DoubleOpcode(a, n, i, operand)
    OBVIOUS
  <2> HIDE DEF a, b, n, i0
  <2> QED
    BY <1>1, <1>2, <2>1, DoubleTokens
<1>4. /\ b \in Seq(Token) /\ Len(b) = I + x /\ I \in Nat /\ x \in Nat
      /\ \A j \in 1 .. I : j # n => b[j] = a[j]
      /\ b[n] = [opcode |-> <<i0>> \o <<i>>]
      /\ \A j \in 1 .. x : b[I + j] = operand[j]
  BY <1>3 DEF DoubleWritten
<1>5. /\ D \in Nat /\ Len(s) = D + 1 + I
      /\ \A q \in 1 .. D : s[q] = delta[q]
      /\ \A j \in 1 .. I : s[D + 1 + j] = a[j]
  BY <1>1, StreamShape
<1>6. target' \in Seq(Nat) /\ delta' = delta
  <2>1. target \o bytes \in Seq(Nat)
    BY <1>1, ConcatNat
  <2> QED
    BY <2>1
<1>7. /\ Len(t) = D + 1 + Len(b)
      /\ \A q \in 1 .. D : t[q] = delta[q]
      /\ \A j \in 1 .. Len(b) : t[D + 1 + j] = b[j]
  <2>1. delta' \in Seq(Token) /\ Len(delta') = D
    BY <1>1, <1>6
  <2> QED
    BY <1>4, <1>6, <2>1, StreamShapeNext
<1>8. /\ L \in Nat /\ marks \in Seq(Mark) /\ marks[L] = Here /\ Here \in Mark
      /\ Here.win = D + 1 /\ Here.pos = p /\ Here.pending = kNoOpcode
      /\ Here.cache = address_cache /\ Here.decoded = target /\ Here.output = history
  BY LastMark
<1>9. <<i>> \in Seq(Instruction) /\ <<i>>[1] = i /\ <<i>> # kNoOpcode
  BY DEF kNoOpcode
<1>10. /\ m \in Mark /\ m.pending = <<i>>
       /\ m.win = D + 1 /\ m.pos = p /\ m.cache = address_cache
       /\ m.decoded = target /\ m.output = history
  BY <1>8, <1>9 DEF Mark
<1>11. Grown(s, t, D)
  <2>1. I <= Len(b)
    BY <1>4
  <2> QED
    BY <1>4, <1>6, <2>1, WindowGrown
<1>12. Marked = [marks EXCEPT ![L] = m]
  <2>1. Last(b[n].opcode) = i
    <3>1. b[n].opcode = <<i0>> \o <<i>>
      BY <1>4
    <3> HIDE DEF i0
    <3>2. Len(<<i0>> \o <<i>>) = 2 /\ (<<i0>> \o <<i>>)[2] = i
      OBVIOUS
    <3> QED
      BY <3>1, <3>2 DEF Last
  <2>2. Marked = [marks EXCEPT ![L].pending = <<i>>]
    BY <2>1 DEF Marked
  <2> QED
    BY <1>8, <2>2
<1>13. marks[1] = Start(1, <<>>)
  BY DEF WindowInv, WriterInv
<1> HIDE DEF a, b, s, t, m, x, I, D, L, n, i0, y
<1>14. /\ Marked \in Seq(Mark) /\ Len(Marked) = L /\ Marked[L] = m
       /\ \A k \in 1 .. L - 1 : Marked[k] = marks[k]
  <2>1. L \in 1 .. Len(marks)
    BY <1>2, <1>8 DEF L
  <2> DEFINE c == [marks EXCEPT ![L] = m]
  <2>2. /\ c \in Seq(Mark) /\ Len(c) = Len(marks)
        /\ \A j \in 1 .. Len(marks) : c[j] = IF j = L THEN m ELSE marks[j]
    BY <1>8, <1>10, <2>1, ExceptSeq
  <2> HIDE DEF c
  <2>3. Marked = c /\ Len(marks) = L
    BY <1>12 DEF c, L
  <2>4. \A k \in 1 .. L - 1 : k \in 1 .. L /\ k # L
    BY <1>8
  <2> QED
    BY <2>1, <2>2, <2>3, <2>4
<1>15. \A q \in D + 2 .. p : q # D + 1 + n => t[q] = s[q]
  <2> SUFFICES ASSUME NEW q \in D + 2 .. p, q # D + 1 + n PROVE t[q] = s[q]
    OBVIOUS
  <2> DEFINE j == q - (D + 1)
  <2>1. j \in 1 .. I /\ j \in 1 .. Len(b) /\ q = D + 1 + j /\ j # n
    BY <1>2, <1>4, <1>5
  <2> HIDE DEF j
  <2> QED
    BY <1>4, <1>5, <1>7, <2>1
<1>16. InstructionAt(t, m) = i /\ SizeFrom(m) = p /\ OperandFrom(t, m) = p
       /\ SizeAt(t, m) = i.size /\ p \in Nat
  <2>1. InstructionAt(t, m) = i
    BY <1>9, <1>10 DEF InstructionAt
  <2>2. p \in Nat
    BY <1>4, <1>5
  <2> HIDE DEF p
  <2>3. SizeFrom(m) = p
    BY <1>9, <1>10, <2>2 DEF SizeFrom
  <2>4. OperandFrom(t, m) = p
    BY <2>1, <2>2, <2>3 DEF OperandFrom
  <2> QED
    BY <2>1, <2>2, <2>3, <2>4 DEF SizeAt
<1>17. p + x = D + 1 + Len(b) /\ \A j \in 1 .. x : t[p + j] = operand[j]
  <2>1. p + x = D + 1 + Len(b)
    BY <1>4, <1>5
  <2>2. ASSUME NEW j \in 1 .. x PROVE t[p + j] = operand[j]
    <3> DEFINE q == I + j
    <3>1. q \in 1 .. Len(b) /\ p + j = D + 1 + q
      <4>1. Len(b) = I + x /\ I \in Nat /\ x \in Nat /\ D \in Nat /\ j \in Nat
        BY <1>4, <1>5
      <4>2. p + j = D + 1 + q
        BY <4>1
      <4>3. q \in 1 .. Len(b)
        BY <4>1
      <4> QED
        BY <4>2, <4>3
    <3>2. b[q] = operand[j]
      BY <1>4
    <3> HIDE DEF q, p
    <3> QED
      BY <1>7, <3>1, <3>2
  <2> QED
    BY <2>1, <2>2
<1>18. \A k \in 1 .. L : /\ Within(t, Marked[k])
                         /\ PlacedIn(t, D, history, target', Marked[k])
  <2> SUFFICES ASSUME NEW k \in 1 .. L
               PROVE  /\ Within(t, Marked[k])
                      /\ PlacedIn(t, D, history, target', Marked[k])
    OBVIOUS
  <2> DEFINE o == marks[k]
             w == Marked[k]
  <2>1. o \in Mark /\ Within(s, o) /\ PlacedIn(s, D, history, target, o)
    BY AllMarks DEF s, L, D
  <2>2. w \in Mark /\ w.win = o.win /\ w.pos = o.pos /\ w.decoded = o.decoded
        /\ w.output = o.output
    <3>1. CASE k = L
      BY <1>8, <1>10, <1>14, <3>1
    <3>2. CASE k # L
      <4>1. k \in 1 .. L - 1
        BY <1>8, <3>2
      <4> QED
        BY <1>14, <2>1, <4>1
    <3> QED
      BY <3>1, <3>2
  <2> HIDE DEF o, w
  <2>3. Within(t, w) /\ PlacedIn(t, D, history, target \o bytes, w)
    BY <1>1, <1>5, <1>11, <2>1, <2>2, MarkStays
  <2> QED
    BY <2>3 DEF w
<1>19. LeadsTo(t, y, m)
  <2>1. t[y.pos + 1] = [opcode |-> <<InstructionAt(s, y)>> \o <<i>>]
    <3>1. n \in 1 .. Len(b) /\ y.pos + 1 = D + 1 + n
      BY <1>2, <1>4, <1>5
    <3> QED
      BY <1>4, <1>7, <3>1 DEF i0
  <2>2. \A k \in y.pos + 2 .. Here.pos : t[k] = s[k]
    <3> SUFFICES ASSUME NEW k \in y.pos + 2 .. Here.pos PROVE t[k] = s[k]
      OBVIOUS
    <3>1. k \in D + 2 .. p /\ k # D + 1 + n
      <4>1. /\ n \in 1 .. I /\ I \in Nat /\ D \in Nat
            /\ y.pos = D + n /\ Here.pos = D + 1 + I
        BY <1>2, <1>4, <1>5, <1>8
      <4> QED
        BY <4>1
    <3> QED
      BY <1>15, <3>1
  <2> QED
    BY <1>2, <1>8, <2>1, <2>2, LeadsToSecond DEF m
<1>20. \A k \in 1 .. L - 1 : EndsAt(t, Marked[k], Marked[k + 1])
                               \/ LeadsTo(t, Marked[k], Marked[k + 1])
  <2> SUFFICES ASSUME NEW k \in 1 .. L - 1
               PROVE  EndsAt(t, Marked[k], Marked[k + 1])
                        \/ LeadsTo(t, Marked[k], Marked[k + 1])
    OBVIOUS
  <2>1. CASE k = L - 1
    <3>1. k + 1 = L
      BY <1>8, <2>1
    <3>2. Marked[k] = y
      BY <1>14, <2>1 DEF y
    <3> QED
      BY <1>14, <1>19, <3>1, <3>2
  <2>2. CASE k # L - 1
    <3> DEFINE o == marks[k]
               next == marks[k + 1]
    <3>1. k + 1 \in 1 .. L - 1
      BY <1>8, <2>2
    <3>2. /\ o \in Mark /\ next \in Mark /\ Within(s, o) /\ Within(s, next)
          /\ EndsAt(s, o, next) \/ LeadsTo(s, o, next)
          /\ k \in 1 .. L /\ k + 1 \in 1 .. L
      BY TwoMarks DEF s, L
    <3>3. PlacedIn(s, D, history, target, o) /\ PlacedIn(s, D, history, target, next)
      BY <3>2, AllMarks DEF s, L, D
    <3>4. next.pos <= e
      BY <1>2, <3>1
    <3>5. e \in Nat /\ e <= p /\ e < D + 1 + n
      BY <1>2, <1>4, <1>5
    <3>6. Marked[k] = o /\ Marked[k + 1] = next
      BY <1>14, <3>1
    <3>7. \A q \in 1 .. D : t[q] = s[q]
      BY <1>5, <1>7
    <3>8. \A q \in D + 2 .. e : t[q] = s[q]
      <4> SUFFICES ASSUME NEW q \in D + 2 .. e PROVE t[q] = s[q]
        OBVIOUS
      <4>1. q \in D + 2 .. p /\ q # D + 1 + n
        BY <1>2, <1>4, <1>5, <3>5
      <4> QED
        BY <1>15, <4>1
    <3> HIDE DEF o, next, e
    <3>9. EndsAt(t, o, next) \/ LeadsTo(t, o, next)
      BY <1>5, <3>2, <3>3, <3>4, <3>5, <3>7, <3>8, PairStays
    <3> QED
      BY <3>6, <3>9
  <2> QED
    BY <2>1, <2>2
<1>21. last_opcode_index' \in 0 .. Len(b)
  BY <1>4
<1>22. Marked[1] = Start(1, <<>>)
  <2>1. 1 \in 1 .. L - 1
    BY <1>2, <1>8
  <2> QED
    BY <1>13, <1>14, <2>1
<1> HIDE DEF p
<1>23. Written(i, i.size, operand, p)
  BY <1>4, <1>9, <1>10, <1>14, <1>16, <1>17, <1>18, <1>20, <1>21, <1>22
     DEF Written, a, b, s, t, x, I, D, L
<1> QED
  BY <1>23 DEF p, D, I, a

\* The instruction as it is in an opcode.
Coded(inst, size, mode) ==
    [inst |-> inst, size |-> IF size \in ImplicitSizes THEN size ELSE 0, mode |-> mode]

LEMMA CodedType ==
    ASSUME NEW inst \in {"VCD_ADD", "VCD_COPY"}, NEW n \in Nat, NEW mode \in Nat
    PROVE  /\ Coded(inst, n, mode) \in Instruction
           /\ Coded(inst, n, mode).size \in {0, n}
           /\ Coded(inst, n, mode).inst = inst /\ Coded(inst, n, mode).mode = mode
  BY DEF Coded, Instruction

LEMMA EncodeInstructionWrites ==
    ASSUME WindowInv, NEW inst \in {"VCD_ADD", "VCD_COPY"},
           NEW n \in Nat \ {0}, NEW mode \in Nat,
           NEW operand \in Seq(Token), Len(operand) >= 1,
           NEW bytes \in Seq(Nat),
           target' = target \o bytes, UNCHANGED <<delta, history>>,
           EncodeInstruction(inst, n, mode, operand)
    PROVE  \E p \in Nat : Written(Coded(inst, n, mode), n, operand, p)
<1> DEFINE i == Coded(inst, n, mode)
           k == last_opcode_index
           a == instructions_and_sizes
           b == instructions_and_sizes'
           fits == k # 0 /\ LookupSecondOpcode(a[k].opcode[1], i)
<1>1. i \in Instruction /\ i.size \in {0, n}
  BY CodedType
<1>2. /\ fits => /\ b = DoubleOpcode(a, k, i, operand)
                 /\ last_opcode_index' = 0
      /\ ~fits => /\ b = SingleOpcode(a, i, n, operand)
                  /\ last_opcode_index' = Len(a) + 1
  BY DEF EncodeInstruction, Coded, DoubleOpcode, SingleOpcode
<1>3. CASE fits
  <2>1. k # 0 /\ i.size # 0
    BY <1>3 DEF LookupSecondOpcode
  <2>2. b = DoubleOpcode(a, k, i, operand) /\ last_opcode_index' = 0
    BY <1>2, <1>3
  <2>3. i.size = n
    BY <1>1, <2>1
  <2> HIDE DEF i
  <2>4. Written(i, i.size, operand, Len(delta) + 1 + Len(a))
    BY <1>1, <2>1, <2>2, WrittenDouble
  <2>5. Len(delta) + 1 + Len(a) \in Nat
    <3>1. TypeOK
      BY DEF WindowInv
    <3> QED
      BY <3>1, StreamShape
  <2> QED
    BY <2>3, <2>4, <2>5 DEF i
<1>4. CASE ~fits
  <2>1. b = SingleOpcode(a, i, n, operand) /\ last_opcode_index' = Len(a) + 1
    BY <1>2, <1>4
  <2> HIDE DEF i
  <2>2. \E p \in Nat : Written(i, n, operand, p)
    BY <1>1, <2>1, WrittenSingle
  <2> QED
    BY <2>2 DEF i
<1> QED
  BY <1>3, <1>4

\* An instruction that leads to the new position of the encoder ends its step.
LEMMA WrittenPreserves ==
    ASSUME WindowInv, NEW i, NEW n, NEW operand, NEW p, NEW bytes \in Seq(Nat),
           Written(i, n, operand, p),
           LeadsTo(Stream', Marked[Len(marks)], Here'),
           Here' \in Mark,
           marks' = Append(Marked, Here'),
           target' = target \o bytes, UNCHANGED <<delta, history>>,
           address_cache' \in Cache
    PROVE  WriterType' /\ WriterInv'
<1> DEFINE L == Len(marks)
           D == Len(delta)
           t == Stream'
           here == Here'
           b == instructions_and_sizes'
           all == Marked
           g == target'
<1>1. delta \in Seq(Token) /\ target \in Seq(Nat) /\ history \in Seq(Nat)
  BY DEF WindowInv, TypeOK
<1>2. /\ g \in Seq(Nat) /\ delta' = delta /\ history' = history /\ Len(g) \in Nat
  <2>1. target \o bytes \in Seq(Nat)
    BY <1>1, ConcatNat
  <2> QED
    BY <2>1, LenProperties
<1>3. /\ b \in Seq(Token) /\ last_opcode_index' \in 0 .. Len(b)
      /\ all \in Seq(Mark) /\ Len(all) = L /\ all[1] = Start(1, <<>>)
      /\ all[L].win = D + 1
      /\ \A k \in 1 .. L - 1 : EndsAt(t, all[k], all[k + 1]) \/ LeadsTo(t, all[k], all[k + 1])
      /\ \A k \in 1 .. L : Within(t, all[k]) /\ PlacedIn(t, D, history, g, all[k])
      /\ last_opcode_index' # 0 =>
            /\ all[L].pending = kNoOpcode /\ all[L].pos = D + last_opcode_index'
            /\ \A k \in 1 .. L : all[k].pos <= all[L].pos
  BY DEF Written
<1>4. L \in Nat /\ L >= 1
  BY LastMark
<1>5. /\ D \in Nat /\ Len(b) \in Nat /\ Len(t) = D + 1 + Len(b)
      /\ t[D + 1] = [header |-> Len(g), length |-> Len(b)]
  <2>1. delta' \in Seq(Token) /\ Len(delta') = D
    BY <1>1, <1>2
  <2> QED
    BY <1>2, <1>3, <2>1, StreamShapeNext
<1>6. /\ here.win = D + 1 /\ here.pos = D + 1 + Len(b) /\ here.decoded = g
      /\ here.output = history
  BY <1>2 DEF Here
<1>7. here \in Mark /\ LeadsTo(t, all[L], here) /\ marks' = Append(all, here)
  OBVIOUS
<1> HIDE DEF L, D, t, here, b, all, g
<1>8. /\ marks' \in Seq(Mark) /\ Len(marks') = L + 1 /\ marks'[L + 1] = here
      /\ \A k \in 1 .. L : marks'[k] = all[k]
  BY <1>3, <1>7, AppendProperties
<1>9. Within(t, here) /\ PlacedIn(t, D, history, g, here)
  <2>1. WindowEnd(t, here.win) = D + 1 + Len(b)
    <3>1. t[here.win] = [header |-> Len(g), length |-> Len(b)]
      BY <1>5, <1>6
    <3>2. t[here.win].length = Len(b)
      BY <3>1
    <3> QED
      BY <1>6, <3>2 DEF WindowEnd
  <2>2. t[here.win] \in [header : Nat, length : Nat] /\ t[here.win].header = Len(g)
    BY <1>2, <1>5, <1>6
  <2>3. Within(t, here)
    <3>1. D + 1 \in 1 .. Len(t) /\ D + 1 + Len(b) \in D + 1 .. D + 1 + Len(b)
          /\ D + 1 + Len(b) <= Len(t) /\ Len(g) <= Len(g)
      BY <1>2, <1>5
    <3> QED
      BY <1>6, <2>1, <2>2, <3>1 DEF Within
  <2>4. IsPrefix(history \o g, history \o g)
    BY <1>1, <1>2, ConcatNat, PrefixSelf
  <2> QED
    BY <1>6, <2>3, <2>4 DEF PlacedIn
<1>10. \A k \in 1 .. L + 1 : Within(t, marks'[k]) /\ PlacedIn(t, D, history, g, marks'[k])
  <2> SUFFICES ASSUME NEW k \in 1 .. L + 1
               PROVE  Within(t, marks'[k]) /\ PlacedIn(t, D, history, g, marks'[k])
    OBVIOUS
  <2>1. CASE k = L + 1
    BY <1>8, <1>9, <2>1
  <2>2. CASE k # L + 1
    <3>1. k \in 1 .. L
      BY <1>4, <2>2
    <3> QED
      BY <1>3, <1>8, <3>1
  <2> QED
    BY <2>1, <2>2
<1>11. \A k \in 1 .. L : EndsAt(t, marks'[k], marks'[k + 1])
                           \/ LeadsTo(t, marks'[k], marks'[k + 1])
  <2> SUFFICES ASSUME NEW k \in 1 .. L
               PROVE  EndsAt(t, marks'[k], marks'[k + 1])
                        \/ LeadsTo(t, marks'[k], marks'[k + 1])
    OBVIOUS
  <2>1. CASE k = L
    BY <1>7, <1>8, <2>1
  <2>2. CASE k # L
    <3>1. k \in 1 .. L - 1 /\ k + 1 \in 1 .. L
      BY <1>4, <2>2
    <3> QED
      BY <1>3, <1>8, <3>1
  <2> QED
    BY <2>1, <2>2
<1>12. WriterType'
  <2>1. delta' \in Seq(Token) /\ history' \in Seq(Nat)
    BY <1>1, <1>2
  <2> QED
    BY <1>2, <1>3, <1>8, <2>1 DEF WriterType, b, g
<1>13. last_opcode_index' # 0 =>
          /\ Len(marks') > 1
          /\ marks'[L].win = D + 1 /\ marks'[L].pending = kNoOpcode
          /\ marks'[L].pos = D + last_opcode_index'
          /\ \A k \in 1 .. L : marks'[k].pos <= marks'[L].pos
  <2>1. L \in 1 .. L /\ L + 1 > 1
    BY <1>4
  <2> QED
    BY <1>3, <1>8, <2>1
<1>14. WriterInv'
  <2>1. Len(marks') - 1 = L /\ Len(marks') = L + 1 /\ L + 1 >= 1 /\ 1 \in 1 .. L
    BY <1>4, <1>8
  <2>2. marks'[1] = Start(1, <<>>) /\ marks'[Len(marks')] = Here'
    BY <1>3, <1>8, <2>1 DEF here
  <2>3. \A k \in 1 .. Len(marks') : Within(t, marks'[k]) /\ Placed(marks[k])'
    <3> SUFFICES ASSUME NEW k \in 1 .. Len(marks')
                 PROVE  Within(t, marks'[k]) /\ Placed(marks[k])'
      OBVIOUS
    <3>1. Within(t, marks'[k]) /\ PlacedIn(t, D, history, g, marks'[k])
      BY <1>10, <2>1
    <3> QED
      BY <1>2, <3>1 DEF Placed, PlacedIn, t, g, D
  <2>4. \A k \in 1 .. Len(marks') - 1 :
           EndsAt(t, marks'[k], marks'[k + 1]) \/ LeadsTo(t, marks'[k], marks'[k + 1])
    BY <1>11, <2>1
  <2> QED
    BY <1>2, <1>13, <2>1, <2>2, <2>3, <2>4 DEF WriterInv, t, D
<1> QED
  BY <1>12, <1>14

\* What is written leads on from the last mark, by what the operand holds.
LEMMA LeadsHere ==
    ASSUME WindowInv, NEW i \in Instruction, NEW n \in Nat \ {0}, NEW operand, NEW p,
           Written(i, n, operand, p), UNCHANGED <<delta, history>>,
           \/ LeadsByAdd(Stream', Marked[Len(marks)], Here')
           \/ LeadsByCopy(Stream', Marked[Len(marks)], Here')
    PROVE  LeadsTo(Stream', Marked[Len(marks)], Here')
<1> DEFINE m == Marked[Len(marks)]
           t == Stream'
           here == Here'
<1>1. /\ m.win = Len(delta) + 1 /\ m.output = history
      /\ InstructionAt(t, m) = i /\ SizeAt(t, m) = n
      /\ m.pending = kNoOpcode => t[m.pos + 1] = [opcode |-> <<i>>]
      /\ m.pending # kNoOpcode => m.pending = <<i>> /\ i.size # 0
      /\ i.size = 0 => t[SizeFrom(m) + 1] = [size |-> n]
  BY DEF Written
<1>2. here.win = Len(delta) + 1 /\ here.output = history /\ here.pending = kNoOpcode
  BY DEF Here
<1>3. <<i>> \o kNoOpcode = <<i>>
  BY DEF kNoOpcode
<1>4. LeadsByAdd(t, m, here) \/ LeadsByCopy(t, m, here)
  OBVIOUS
<1> HIDE DEF m, t, here
<1>5. LeadsTo(t, m, here)
  BY <1>1, <1>2, <1>3, <1>4 DEF LeadsTo
<1> QED
  BY <1>5 DEF m, t, here

\* The new position of the encoder is a mark.
LEMMA HereNextType ==
    ASSUME WindowInv, UNCHANGED <<delta, history>>,
           instructions_and_sizes' \in Seq(Token), address_cache' \in Cache,
           target' \in Seq(Nat)
    PROVE  Here' \in Mark
<1>1. delta' \in Seq(Token) /\ history' \in Seq(Nat)
  BY DEF WindowInv, TypeOK
<1>2. Len(delta') \in Nat /\ Len(instructions_and_sizes') \in Nat
  BY <1>1, LenProperties
<1>3. kNoOpcode \in Seq(Instruction)
  BY DEF kNoOpcode
<1> QED
  BY <1>1, <1>2, <1>3 DEF Here, Mark

\* The bytes of an ADD are its operand.
LEMMA AddPreserves ==
    ASSUME WindowInv, NEW size \in 1 .. MaxSize, Add(size),
           UNCHANGED <<delta, history>>, marks' = Append(Marked, Here')
    PROVE  WriterType' /\ WriterInv'
<1> DEFINE first == Len(dictionary) + Len(history) + Len(target)
           data == [j \in 1 .. size |-> first + j]
           operand == [j \in 1 .. size |-> [data |-> data[j]]]
           i == Coded("VCD_ADD", size, 0)
           m == Marked[Len(marks)]
           t == Stream'
           here == Here'
<1>1. /\ target \in Seq(Nat) /\ history \in Seq(Nat) /\ dictionary \in Seq(Nat)
      /\ address_cache \in Cache
  BY WindowAssumption DEF WindowInv, TypeOK
<1>2. size \in Nat \ {0} /\ first \in Nat
  <2>1. MaxSize \in Nat
    BY WindowAssumption
  <2>2. Len(dictionary) \in Nat /\ Len(history) \in Nat /\ Len(target) \in Nat
    BY <1>1, LenProperties
  <2> QED
    BY <2>1, <2>2
<1>3. data \in Seq(Nat)
  <2> HIDE DEF first
  <2>1. \A j \in 1 .. size : first + j \in Nat
    BY <1>2
  <2> QED
    BY <1>2, <2>1
<1>4. /\ operand \in Seq(Token) /\ Len(operand) = size
      /\ \A j \in 1 .. size : operand[j] = [data |-> data[j]] /\ data[j] \in Nat
  <2> HIDE DEF first
  <2>1. \A j \in 1 .. size : data[j] \in Nat
    BY <1>2
  <2> HIDE DEF data
  <2>2. \A j \in 1 .. size : [data |-> data[j]] \in Token
    BY <2>1 DEF Token
  <2> QED
    BY <1>2, <2>1, <2>2
<1>5. /\ EncodeInstruction("VCD_ADD", size, 0, operand)
      /\ target' = target \o data /\ address_cache' = address_cache
  BY DEF Add
<1> HIDE DEF data, operand, i
<1>6. \E p \in Nat : Written(i, size, operand, p)
  <2>1. Len(operand) >= 1 /\ "VCD_ADD" \in {"VCD_ADD", "VCD_COPY"} /\ 0 \in Nat
    BY <1>2, <1>4
  <2>2. \E p \in Nat : Written(Coded("VCD_ADD", size, 0), size, operand, p)
    BY <1>2, <1>3, <1>4, <1>5, <2>1, EncodeInstructionWrites
  <2> QED
    BY <2>2 DEF i
<1>7. PICK p \in Nat : Written(i, size, operand, p)
  BY <1>6
<1>8. /\ m.cache = address_cache /\ m.decoded = target
      /\ InstructionAt(t, m) = i /\ SizeAt(t, m) = size /\ OperandFrom(t, m) = p
      /\ p + size = Len(delta) + 1 + Len(instructions_and_sizes')
      /\ \A j \in 1 .. size : t[p + j] = operand[j]
      /\ instructions_and_sizes' \in Seq(Token)
  BY <1>4, <1>7 DEF Written
<1>9. i \in Instruction /\ i.inst = "VCD_ADD"
  BY <1>2, CodedType DEF i
<1>10. here.pos = p + size /\ here.cache = m.cache /\ here.decoded = m.decoded \o data
  BY <1>5, <1>8 DEF Here
<1>11. LeadsByAdd(t, m, here)
  <2>1. \A k \in 1 .. size : t[p + k] = [data |-> data[k]] /\ data[k] \in Nat
    BY <1>4, <1>8
  <2> HIDE DEF t, m, here
  <2>2. \A k \in 1 .. size : t[p + k] \in [data : Nat] /\ t[p + k].data = data[k]
    <3> SUFFICES ASSUME NEW k \in 1 .. size
                 PROVE  t[p + k] \in [data : Nat] /\ t[p + k].data = data[k]
      OBVIOUS
    <3> DEFINE d == data[k]
    <3>1. t[p + k] = [data |-> d] /\ d \in Nat
      BY <2>1
    <3> HIDE DEF d
    <3>2. t[p + k] \in [data : Nat] /\ t[p + k].data = d
      BY <3>1
    <3> QED
      BY <3>2 DEF d
  <2>3. data = [k \in 1 .. size |-> t[p + k].data]
    BY <2>2 DEF data
  <2> QED
    BY <1>8, <1>9, <1>10, <2>2, <2>3 DEF LeadsByAdd
<1>12. LeadsTo(t, m, here)
  BY <1>2, <1>7, <1>9, <1>11, LeadsHere
<1>13. here \in Mark
  <2>1. target' \in Seq(Nat)
    BY <1>1, <1>3, <1>5, ConcatNat
  <2> QED
    BY <1>1, <1>5, <1>8, <2>1, HereNextType
<1> QED
  BY <1>1, <1>3, <1>5, <1>7, <1>12, <1>13, WrittenPreserves


\* A code is decoded by its mode and its value.
LEMMA CodeFields ==
    ASSUME NEW cache, NEW code, NEW here
    PROVE  DecodeAddress(cache, [mode |-> code.mode, value |-> code.value], here)
             = DecodeAddress(cache, code, here)
  BY DEF DecodeAddress, DecodedAddress

\* The bytes of a COPY are those that the decoder copies from the address it
\* decodes.
LEMMA CopyPreserves ==
    ASSUME WindowInv, NEW size \in 1 .. MaxSize,
           NEW address \in 0 .. Len(dictionary) + Len(target) - 1,
           Copy(address, size),
           UNCHANGED <<delta, history>>, marks' = Append(Marked, Here')
    PROVE  WriterType' /\ WriterInv'
<1> DEFINE before == dictionary \o target
           end == Len(dictionary) + Len(target)
           bytes == Match(before, address, size)
           m == Marked[Len(marks)]
           t == Stream'
           here == Here'
<1>1. /\ target \in Seq(Nat) /\ dictionary \in Seq(Nat) /\ address_cache \in Cache
  BY WindowAssumption DEF WindowInv, TypeOK
<1>2. size \in Nat \ {0}
  <2>1. MaxSize \in Nat
    BY WindowAssumption
  <2> QED
    BY <2>1
<1>3. before \in Seq(Nat) /\ Len(before) = end /\ end \in Nat
  <2>1. before \in Seq(Nat)
    BY <1>1, ConcatNat
  <2>2. Len(before) = end
    BY <1>1, ConcatProperties
  <2> QED
    BY <2>1, <2>2, LenProperties
<1>4. address \in 0 .. end - 1 /\ address \in Nat
  BY <1>3
<1> HIDE DEF before, end
<1>5. bytes \in Seq(Nat) /\ CopyBytes(before, address, size) = bytes
  BY <1>2, <1>3, <1>4, MatchType, CopyIsMatch
<1>6. PICK code \in EncodeAddress(address_cache, address, end) :
         EncodeInstruction("VCD_COPY", size, code.mode, <<[address |-> code.value]>>)
  BY DEF Copy, end
<1>7. /\ target' = target \o bytes
      /\ address_cache' = UpdateCache(address_cache, address)
  BY DEF Copy, before
<1> DEFINE operand == <<[address |-> code.value]>>
           i == Coded("VCD_COPY", size, code.mode)
<1>8. code.mode \in Nat /\ code.value \in Nat
  <2>1. code.mode \in 0 .. FirstSameMode + same_cache_size - 1 /\ code.value \in Nat
    BY <1>1, <1>3, <1>4, CodeFits
  <2> QED
    BY <2>1
<1>9. /\ operand \in Seq(Token) /\ Len(operand) = 1
      /\ operand[1] = [address |-> code.value]
  <2>1. [address |-> code.value] \in Token
    BY <1>8 DEF Token
  <2> QED
    BY <2>1
<1> HIDE DEF bytes, operand, i
<1>10. \E p \in Nat : Written(i, size, operand, p)
  <2>1. Len(operand) >= 1 /\ "VCD_COPY" \in {"VCD_ADD", "VCD_COPY"}
    BY <1>9
  <2>2. EncodeInstruction("VCD_COPY", size, code.mode, operand)
    BY <1>6 DEF operand
  <2>3. \E p \in Nat : Written(Coded("VCD_COPY", size, code.mode), size, operand, p)
    BY <1>2, <1>5, <1>7, <1>8, <1>9, <2>1, <2>2, EncodeInstructionWrites
  <2> QED
    BY <2>3 DEF i
<1>11. PICK p \in Nat : Written(i, size, operand, p)
  BY <1>10
<1>12. /\ m.cache = address_cache /\ m.decoded = target
       /\ InstructionAt(t, m) = i /\ SizeAt(t, m) = size /\ OperandFrom(t, m) = p
       /\ p + 1 = Len(delta) + 1 + Len(instructions_and_sizes')
       /\ t[p + 1] = [address |-> code.value]
       /\ instructions_and_sizes' \in Seq(Token)
  BY <1>9, <1>11 DEF Written
<1>13. i \in Instruction /\ i.inst = "VCD_COPY" /\ i.mode = code.mode
  BY <1>2, <1>8, CodedType DEF i
<1>14. /\ here.pos = p + 1 /\ here.cache = UpdateCache(m.cache, address)
       /\ here.decoded = m.decoded \o bytes
  BY <1>7, <1>12 DEF Here
<1>15. AddressAt(t, m) = address
  <2>1. t[p + 1].address = code.value
    BY <1>12
  <2>2. DecodeAddress(address_cache, [mode |-> code.mode, value |-> code.value], end)
          = address
    BY <1>1, <1>3, <1>4, CodeFields, RoundTrip
  <2> HIDE DEF t, m
  <2> QED
    BY <1>12, <1>13, <2>1, <2>2 DEF AddressAt, end
<1>16. LeadsByCopy(t, m, here)
  <2>1. t[p + 1] \in [address : Nat]
    BY <1>8, <1>12
  <2>2. address # RESULT_ERROR
    BY <1>4 DEF RESULT_ERROR
  <2> HIDE DEF t, m, here
  <2> QED
    BY <1>5, <1>12, <1>13, <1>14, <1>15, <2>1, <2>2 DEF LeadsByCopy, before
<1>17. LeadsTo(t, m, here)
  BY <1>2, <1>11, <1>13, <1>16, LeadsHere
<1>18. address_cache' \in Cache
  BY <1>1, <1>4, <1>7, UpdateCacheType
<1>19. here \in Mark
  <2>1. target' \in Seq(Nat)
    BY <1>1, <1>5, <1>7, ConcatNat
  <2> QED
    BY <1>12, <1>18, <2>1, HereNextType
<1> QED
  BY <1>5, <1>7, <1>11, <1>17, <1>18, <1>19, WrittenPreserves

LEMMA WriterPreserves ==
    ASSUME WindowInv, Writer
    PROVE  WindowInv'
<1>1. received = 0 /\ WriterType' /\ WriterInv'
  <2>1. CASE Encode
    <3>1. PICK size \in 1 .. MaxSize :
             \/ Add(size)
             \/ \E address \in 0 .. Len(dictionary) + Len(target) - 1 :
                   Copy(address, size)
      BY <2>1 DEF Encode
    <3>2. UNCHANGED <<delta, history>> /\ marks' = Append(Marked, Here')
      BY <2>1 DEF Encode
    <3>3. CASE Add(size)
      BY <3>2, <3>3, AddPreserves DEF Add, MayEncode
    <3>4. ASSUME NEW address \in 0 .. Len(dictionary) + Len(target) - 1,
                 Copy(address, size)
          PROVE  received = 0 /\ WriterType' /\ WriterInv'
      BY <3>2, <3>4, CopyPreserves DEF Copy, MayEncode
    <3> QED
      BY <3>1, <3>3, <3>4
  <2>2. CASE OutputWindow
    BY <2>2, OutputPreserves DEF OutputWindow, MayEncode
  <2> QED
    BY <2>1, <2>2 DEF Writer
<1>2. Len(marks') >= 1 /\ marks'[1] = Start(1, <<>>)
  BY <1>1 DEF WriterInv
<1>3. SectionType' /\ ReaderType' /\ DecoderInv'
  BY <1>1, <1>2, DecoderWaits
<1> QED
  BY <1>1, <1>3, TypePartsNext DEF WindowInv

-----------------------------------------------------------------------------
(* The invariant, and what it implies                                      *)

LEMMA InitInv == Init => WindowInv
<1> SUFFICES ASSUME Init PROVE WindowInv
  OBVIOUS
<1>1. TypeOK
  <2>1. Start(1, <<>>) \in Mark
    <3>1. <<>> \in Seq(Nat) /\ 1 \in Nat
      BY ConcatNat
    <3> QED
      BY <3>1, StartType
  <2>2. marks \in Seq(Mark)
    BY <2>1 DEF Init
  <2>3. InitialCache \in Cache
    BY InitialCacheType
  <2>4. /\ <<>> \in Seq(Token) /\ <<>> \in Seq(Nat) /\ <<>> \in Seq(Instruction)
        /\ Len(<<>>) = 0
    BY EmptySeq
  <2>5. WriterType
    BY <2>2, <2>3, <2>4 DEF Init, WriterType
  <2>6. SectionType
    BY <2>4 DEF Init, SectionType
  <2>7. ReaderType
    BY <2>3, <2>4 DEF Init, ReaderType, kNoOpcode
  <2> QED
    BY <2>5, <2>6, <2>7, TypeParts
<1>2. Stream = <<[header |-> 0, length |-> 0]>>
  BY DEF Init, Stream
<1>3. Len(marks) = 1 /\ marks[1] = Start(1, <<>>)
  BY DEF Init
<1>4. WriterInv
  <2>1. Here = Start(1, <<>>)
    BY DEF Init, Here, Start
  <2>2. WindowEnd(Stream, 1) = 1
    BY <1>2 DEF WindowEnd
  <2>3. Within(Stream, Start(1, <<>>))
    BY <1>2, <2>2 DEF Within, Start
  <2>4. Placed(Start(1, <<>>))
    <3>1. <<>> \in Seq(Nat) /\ <<>> \o <<>> = <<>>
      BY ConcatNat
    <3>2. IsPrefix(<<>> \o <<>>, history \o target)
      BY <3>1, PrefixSelf DEF Init
    <3> QED
      BY <3>2 DEF Placed, Start, Init
  <2> QED
    BY <1>3, <2>1, <2>3, <2>4 DEF WriterInv, Init
<1>5. DecoderInv
  <2>1. AtWindow(marks[1])
    BY <1>3 DEF Init, AtWindow
  <2> QED
    BY <1>3, <2>1 DEF Init, DecoderInv
<1> QED
  BY <1>1, <1>4, <1>5 DEF WindowInv

LEMMA StutterPreserves == WindowInv /\ UNCHANGED vars => WindowInv'
<1> SUFFICES ASSUME WindowInv, UNCHANGED vars PROVE WindowInv'
  OBVIOUS
<1> USE DEF vars, writerVars, sectionVars, headerVars, readerVars, targetVars
<1>1. TypeOK'
  BY DEF WindowInv, TypeOK
<1>2. WriterInv'
  BY DEF WindowInv, WriterInv, Here, Stream, Placed
<1>3. DecoderInv'
  BY DEF WindowInv, DecoderInv, AtInstruction, AtWindow, Stream
<1> QED
  BY <1>1, <1>2, <1>3 DEF WindowInv

\* Wherever the delta is split, the decoder is at a mark the encoder set, or on
\* its way to the next one: with the cache, the target and the pending second
\* instruction the encoder had there (VCDiffDeltaFileWindow::DecodeBody,
\* VCDiffCodeTableReader::UnGetInstruction, VCDiffCodeTableWriter::Output).
THEOREM WindowInvariance == Spec => []WindowInv
<1>1. WindowInv /\ [Next]_vars => WindowInv'
  BY WriterPreserves, DecoderPreserves, StutterPreserves DEF Next
<1> QED
  BY InitInv, <1>1, PTL DEF Spec


\* No split of a well-formed delta is an error (VCDiffDeltaFileWindow, vcdecoder.cc).
THEOREM NoRefusal == Spec => []WellFormedAccepted
<1>1. WindowInv => WellFormedAccepted
  BY DEF WindowInv, DecoderInv, WellFormedAccepted
<1> QED
  BY WindowInvariance, <1>1, PTL

\* What was decoded so far is the beginning of what was encoded, whatever was
\* taken back on the way (UnGetInstruction, DecodeCopy and DecodeAdd).
LEMMA InvPrefix == WindowInv => DecodedIsPrefix
<1> SUFFICES ASSUME WindowInv PROVE IsPrefix(output \o decoded, history)
  BY DEF DecodedIsPrefix
<1>1. Len(delta) \in Nat /\ output \in Seq(Nat) /\ history \in Seq(Nat)
  BY LenProperties DEF WindowInv, TypeOK
<1>2. ASSUME NEW k \in 1 .. Len(marks) - 1, AtInstruction(marks[k], marks[k + 1])
      PROVE  IsPrefix(output \o decoded, history)
  <2> DEFINE m == marks[k]
  <2>1. m.win <= Len(delta) /\ output = m.output /\ decoded = m.decoded
    BY <1>2 DEF AtInstruction
  <2>2. m \in Mark /\ PlacedIn(Stream, Len(delta), history, target, m)
    BY TwoMarks, AllMarks
  <2>3. m.win # Len(delta) + 1
    BY <1>1, <2>1, <2>2, MarkFields
  <2> HIDE DEF m
  <2> QED
    BY <2>1, <2>2, <2>3 DEF PlacedIn
<1>3. ASSUME NEW k \in 1 .. Len(marks), AtWindow(marks[k])
      PROVE  IsPrefix(output \o decoded, history)
  <2> DEFINE m == marks[k]
  <2>1. decoded = <<>> /\ m.output = output /\ m.decoded = <<>>
    BY <1>3 DEF AtWindow, Start
  <2>2. PlacedIn(Stream, Len(delta), history, target, m)
    BY AllMarks
  <2>3. output \o decoded = output /\ IsPrefix(history, history)
    BY <1>1, <2>1, ConcatNat, PrefixSelf
  <2> HIDE DEF m
  <2> QED
    BY <2>1, <2>2, <2>3 DEF PlacedIn
<1> QED
  BY <1>2, <1>3 DEF WindowInv, DecoderInv

THEOREM DecodedPrefix == Spec => []DecodedIsPrefix
  BY WindowInvariance, InvPrefix, PTL

\* After its last chunk the decoder has the whole history, and nothing left
\* (VCDiffDeltaFileWindow::DecodeWindow, VCDiffStreamingDecoderImpl::DecodeChunk).
LEMMA InvAllDecoded == WindowInv => AllDecoded
<1> SUFFICES ASSUME WindowInv, phase = "wait", received = Len(delta)
             PROVE  output = history /\ parsed = received
  BY DEF AllDecoded
<1>1. Len(delta) \in Nat
  BY LenProperties DEF WindowInv, TypeOK
<1>2. ASSUME NEW k \in 1 .. Len(marks) - 1, AtInstruction(marks[k], marks[k + 1])
      PROVE  FALSE
  <2> DEFINE m == marks[k]
             next == marks[k + 1]
  <2>1. m.win <= Len(delta) /\ LeadsTo(Stream, m, next) /\ next.pos > Len(delta)
    BY <1>2 DEF AtInstruction
  <2>2. /\ m \in Mark /\ next \in Mark /\ Within(Stream, m) /\ Within(Stream, next)
        /\ PlacedIn(Stream, Len(delta), history, target, m)
    BY TwoMarks, AllMarks
  <2>3. next.pos <= WindowEnd(Stream, m.win) /\ WindowEnd(Stream, m.win) \in Nat
    BY <2>1, <2>2, LeadsWithin
  <2>4. WindowEnd(Stream, m.win) <= Len(delta)
    BY <1>1, <2>1, <2>2, PlacedWindow
  <2>5. next.pos \in Nat
    BY <2>2, MarkFields
  <2> QED
    BY <1>1, <2>1, <2>3, <2>4, <2>5
<1>3. ASSUME NEW k \in 1 .. Len(marks), AtWindow(marks[k])
      PROVE  output = history /\ parsed = received
  <2> DEFINE m == marks[k]
  <2>1. parsed = received /\ m.output = output /\ m.win = parsed + 1
    BY <1>3 DEF AtWindow, Start
  <2>2. /\ m \in Mark /\ Within(Stream, m)
        /\ PlacedIn(Stream, Len(delta), history, target, m)
    BY AllMarks
  <2>3. WindowEnd(Stream, m.win) \in Nat /\ m.win <= WindowEnd(Stream, m.win)
    BY <1>1, <2>2, PlacedWindow
  <2>4. ~(WindowEnd(Stream, m.win) <= Len(delta))
    BY <1>1, <2>1, <2>3
  <2> HIDE DEF m
  <2> QED
    BY <2>1, <2>2, <2>4 DEF PlacedIn
<1> QED
  BY <1>2, <1>3 DEF WindowInv, DecoderInv

THEOREM WholeDecoded == Spec => []AllDecoded
  BY WindowInvariance, InvAllDecoded, PTL

\* The decoder reads every token as what it was written for (DecodeWindow,
\* GetNextInstruction, DecodeAdd and DecodeCopy).
LEMMA InvInStep == WindowInv => InStep
<1> SUFFICES ASSUME WindowInv PROVE InStep
  OBVIOUS
<1>1. /\ Len(delta) \in Nat /\ received \in 0 .. Len(delta) /\ parsed \in 0 .. received
      /\ section_end \in 0 .. received /\ pos \in 0 .. section_end
      /\ target_window_length \in Nat
  BY LenProperties DEF WindowInv, TypeOK
<1>2. ASSUME phase = "window", parsed < received
      PROVE  IsToken(parsed + 1, "header")
  <2>1. PICK k \in 1 .. Len(marks) : AtWindow(marks[k])
    BY <1>2 DEF WindowInv, DecoderInv, AtInstruction
  <2>2. marks[k].win = parsed + 1
    BY <2>1 DEF AtWindow, Start
  <2>3. Stream[parsed + 1] \in [header : Nat, length : Nat]
    BY <2>2, AllMarks DEF Within
  <2>4. delta[parsed + 1] = Stream[parsed + 1]
    BY <1>1, <1>2, Received
  <2>5. "header" \in DOMAIN delta[parsed + 1]
    BY <2>3, <2>4
  <2> QED
    BY <2>5 DEF IsToken
<1>3. ASSUME phase \in {"next", "size", "operand"}, pos < section_end
      PROVE  \E k \in 1 .. Len(marks) - 1 :
                /\ AtInstruction(marks[k], marks[k + 1])
                /\ marks[k] \in Mark /\ marks[k + 1] \in Mark
                /\ \/ EndsAt(Stream, marks[k], marks[k + 1])
                   \/ LeadsTo(Stream, marks[k], marks[k + 1])
                /\ delta[pos + 1] = Stream[pos + 1]
  <2>1. PICK k \in 1 .. Len(marks) - 1 : AtInstruction(marks[k], marks[k + 1])
    BY <1>3, InWindow
  <2>2. delta[pos + 1] = Stream[pos + 1]
    BY <1>1, <1>3, Received
  <2> QED
    BY <2>1, <2>2, TwoMarks
<1>4. ASSUME pos < section_end, phase = "next", pending_second_instruction = kNoOpcode,
             Len(decoded) < target_window_length
      PROVE  IsToken(pos + 1, "opcode")
  <2>1. PICK k \in 1 .. Len(marks) - 1 :
           /\ AtInstruction(marks[k], marks[k + 1])
           /\ \/ EndsAt(Stream, marks[k], marks[k + 1])
              \/ LeadsTo(Stream, marks[k], marks[k + 1])
           /\ delta[pos + 1] = Stream[pos + 1]
    BY <1>3, <1>4
  <2> DEFINE m == marks[k]
             next == marks[k + 1]
             o == <<InstructionAt(Stream, m)>> \o next.pending
  <2>2. /\ pos = m.pos /\ m.pending = kNoOpcode /\ decoded = m.decoded
        /\ target_window_length = Stream[m.win].header
    BY <1>4, <2>1 DEF AtInstruction
  <2>3. ~EndsAt(Stream, m, next)
    <3> SUFFICES ASSUME EndsAt(Stream, m, next) PROVE FALSE
      OBVIOUS
    <3>1. Len(decoded) = target_window_length
      BY <2>2 DEF EndsAt
    <3> QED
      BY <1>1, <1>4, <3>1
  <2>4. Stream[pos + 1] = [opcode |-> o]
    BY <2>1, <2>2, <2>3 DEF LeadsTo
  <2> HIDE DEF o
  <2>5. "opcode" \in DOMAIN delta[pos + 1]
    BY <2>1, <2>4
  <2> QED
    BY <2>5 DEF IsToken
<1>5. ASSUME pos < section_end, phase = "size", instruction[1].size = 0
      PROVE  IsToken(pos + 1, "size")
  <2>1. PICK k \in 1 .. Len(marks) - 1 :
           /\ AtInstruction(marks[k], marks[k + 1])
           /\ delta[pos + 1] = Stream[pos + 1]
    BY <1>3, <1>5
  <2> DEFINE m == marks[k]
             i == InstructionAt(Stream, m)
             n == SizeAt(Stream, m)
  <2>2. /\ pos = SizeFrom(m) /\ instruction = <<i>>
        /\ LeadsTo(Stream, m, marks[k + 1])
    BY <1>5, <2>1 DEF AtInstruction
  <2>3. i.size = 0
    BY <1>5, <2>2
  <2>4. Stream[pos + 1] = [size |-> n]
    BY <2>2, <2>3 DEF LeadsTo
  <2> HIDE DEF n
  <2>5. "size" \in DOMAIN delta[pos + 1]
    BY <2>1, <2>4
  <2> QED
    BY <2>5 DEF IsToken
<1>6. ASSUME pos < section_end, phase = "operand"
      PROVE  IsToken(pos + 1, IF instruction[1].inst = "VCD_ADD" THEN "data"
                              ELSE "address")
  <2>1. PICK k \in 1 .. Len(marks) - 1 :
           /\ AtInstruction(marks[k], marks[k + 1])
           /\ marks[k] \in Mark /\ marks[k + 1] \in Mark
           /\ delta[pos + 1] = Stream[pos + 1]
    BY <1>3, <1>6
  <2> DEFINE m == marks[k]
             next == marks[k + 1]
             i == InstructionAt(Stream, m)
             n == SizeAt(Stream, m)
  <2>2. /\ pos = OperandFrom(Stream, m) /\ instruction = <<[i EXCEPT !.size = n]>>
        /\ LeadsTo(Stream, m, next)
    BY <1>6, <2>1 DEF AtInstruction
  <2>3. i \in Instruction /\ n \in Nat \ {0}
    BY <2>1, <2>2, LeadsFacts
  <2>4. LeadsByAdd(Stream, m, next) \/ LeadsByCopy(Stream, m, next)
    BY <2>2 DEF LeadsTo
  <2>5. instruction[1].inst = i.inst
    <3> HIDE DEF i, n
    <3>1. [i EXCEPT !.size = n].inst = i.inst
      BY <2>3 DEF Instruction
    <3> QED
      BY <2>2, <3>1
  <2>6. CASE LeadsByAdd(Stream, m, next)
    <3>1. i.inst = "VCD_ADD" /\ \A j \in 1 .. n : Stream[pos + j] \in [data : Nat]
      BY <2>2, <2>6 DEF LeadsByAdd
    <3> HIDE DEF i, n
    <3>2. Stream[pos + 1] \in [data : Nat]
      <4>1. 1 \in 1 .. n
        BY <2>3
      <4> QED
        BY <3>1, <4>1
    <3>3. "data" \in DOMAIN delta[pos + 1]
      BY <2>1, <3>2
    <3> QED
      BY <2>5, <3>1, <3>3 DEF IsToken
  <2>7. CASE LeadsByCopy(Stream, m, next)
    <3>1. i.inst = "VCD_COPY" /\ Stream[pos + 1] \in [address : Nat]
      BY <2>2, <2>7 DEF LeadsByCopy
    <3> HIDE DEF i, n
    <3>2. "address" \in DOMAIN delta[pos + 1]
      BY <2>1, <3>1
    <3> QED
      BY <2>5, <3>1, <3>2 DEF IsToken
  <2> QED
    BY <2>4, <2>6, <2>7
<1> QED
  BY <1>2, <1>4, <1>5, <1>6 DEF InStep

THEOREM ReadAsWritten == Spec => []InStep
  BY WindowInvariance, InvInStep, PTL
=============================================================================
