--------------------------- MODULE VcdLimitsProofs --------------------------
(***************************************************************************)
(* Proofs about VcdLimits, for integers of any width and any limit.        *)
(***************************************************************************)
EXTENDS VcdLimits, TLAPS

\* The parameters leave room for a sum of two ints in a size_t.
LEMMA Widths ==
    /\ IntSign \in Nat /\ IntSign >= 2 /\ MaxInt = IntSign - 1
    /\ SizeModulus \in Nat /\ 2 * MaxInt < SizeModulus
    /\ DefaultLimit \in 1 .. MaxInt /\ CodeTableSize \in 1 .. MaxInt
BY LimitsAssumption DEF MaxInt

\* A number that fits is not changed by the conversion to size_t, and every
\* number fits after it.
LEMMA SizeFits ==
    /\ \A n \in 0 .. SizeModulus - 1 : Size(n) = n
    /\ \A n \in Int : Size(n) \in 0 .. SizeModulus - 1
BY Widths DEF Size

\* No window and no size: zero is a number of every type.
LEMMA ZeroFits ==
    /\ 0 \in 0 .. SizeModulus - 1 /\ 0 \in 0 .. MaxInt /\ 0 <= MaxInt
    /\ 0 \in 0 .. MaxInt - (VarintBase - 1)
    /\ -1 \in -1 .. MaxInt
<1>1. PICK k \in 1 .. IntSign : IntSign = k * VarintBase  BY LimitsAssumption
<1>2. VarintBase <= k * VarintBase  BY LimitsAssumption
<1> QED  BY <1>1, <1>2, LimitsAssumption, Widths

\* A half-parsed size and one more byte: the sum is an int32_t.
LEMMA ParsedFits ==
    ASSUME NextByteFits
    PROVE  /\ \A digit \in 0 .. VarintBase - 1 :
                 /\ ToInt32(varint + digit) = varint + digit
                 /\ varint + digit \in 0 .. MaxInt
           /\ ParsedSizes \subseteq 0 .. MaxInt
<1>1. VarintBase \in Nat  BY LimitsAssumption
<1>2. ASSUME NEW digit \in 0 .. VarintBase - 1
      PROVE  /\ ToInt32(varint + digit) = varint + digit
             /\ varint + digit \in 0 .. MaxInt
  <2>1. varint + digit \in 0 .. MaxInt  BY <1>1, Widths DEF NextByteFits
  <2>2. (varint + digit) % (2 * IntSign) = varint + digit  BY <2>1, Widths
  <2> QED  BY <2>1, <2>2, Widths DEF ToInt32
<1> QED  BY <1>2 DEF ParsedSizes

\* A value that passed the test stays small enough when it is shifted.
LEMMA ShiftFits ==
    ASSUME NEW result \in 0 .. MaxInt, ~ShiftOverflows(result)
    PROVE  ToInt32(result * VarintBase) \in 0 .. MaxInt - (VarintBase - 1)
<1>1. PICK k \in 1 .. IntSign : IntSign = k * VarintBase  BY LimitsAssumption
<1>2. VarintBase \in Nat /\ VarintBase >= 1 /\ k \in Nat /\ result \in Nat
  BY <1>1, LimitsAssumption, Widths
<1>3. result <= MaxInt \div VarintBase
  BY <1>2, Widths DEF ShiftOverflows
<1>4. result * VarintBase <= MaxInt
  <2> DEFINE q == MaxInt \div VarintBase
  <2>1. q \in Int /\ q * VarintBase <= MaxInt  BY <1>2, Widths
  <2>2. result * VarintBase <= q * VarintBase
    <3> HIDE DEF q
    <3> QED  BY <1>2, <1>3, <2>1 DEF q
  <2> QED  BY <1>2, <2>1, <2>2, Widths
<1>5. result <= k - 1
  <2> SUFFICES ASSUME result >= k PROVE FALSE  BY <1>2
  <2>1. result * VarintBase >= k * VarintBase  BY <1>2
  <2> QED  BY <1>1, <1>2, <1>4, <2>1, Widths
<1>6. result * VarintBase <= (k - 1) * VarintBase  BY <1>2, <1>5
<1>7. (k - 1) * VarintBase = IntSign - VarintBase  BY <1>1, <1>2
<1>8. result * VarintBase \in 0 .. MaxInt - (VarintBase - 1)
  <2>1. result * VarintBase \in Nat  BY <1>2
  <2> QED  BY <1>2, <1>6, <1>7, <2>1, Widths
<1>9. (result * VarintBase) % (2 * IntSign) = result * VarintBase
  BY <1>2, <1>8, Widths
<1> QED  BY <1>2, <1>8, <1>9, Widths DEF ToInt32

\* The default limit survives JavaScript's int32 and the binding's uint32.
LEMMA DefaultSurvives == DEFAULT_MAX_TARGET_SIZE % (2 * IntSign) = DefaultLimit
<1>1. DefaultLimit % (2 * IntSign) = DefaultLimit  BY Widths
<1> QED  BY <1>1, Widths DEF DEFAULT_MAX_TARGET_SIZE, ToInt32

LEMMA InitInv == Init => LimitsInv
<1>1. kUnlimitedBytes \in 0 .. SizeModulus - 1  BY SizeFits DEF kUnlimitedBytes
<1>2. DefaultLimit \in 0 .. SizeModulus - 1  BY Widths
<1> SUFFICES ASSUME Init PROVE LimitsInv  OBVIOUS
<1>4. TypeOK
  BY <1>1, <1>2, ZeroFits DEF Init, TypeOK, kDefaultMaximumTargetFileSize
<1> QED
  BY <1>4, ZeroFits
     DEF Init, LimitsInv, NextByteFits, HasPlannedTargetFileSize,
         kDefaultMaximumTargetFileSize

\* The constructors start with nothing decoded.
LEMMA ConstructInv ==
    ASSUME LimitsInv, ConstructEncoder \/ ConstructDecoder \/ InitCustomCodeTable
    PROVE  LimitsInv'
<1> USE DEF LimitsInv, TypeOK, NextByteFits, windowVars, limitVars, encoderVars
<1>1. CASE ConstructEncoder
  <2>1. minEncodeWindowSize' \in Nat
    BY <1>1, LimitsAssumption
       DEF ConstructEncoder, Options, DEFAULT_MIN_ENCODE_WINDOW_SIZE
  <2> QED  BY <1>1, <2>1 DEF ConstructEncoder
<1>2. CASE ConstructDecoder
  <2>1. DefaultLimit <= kTargetSizeLimit /\ DefaultLimit \in 0 .. SizeModulus - 1
    BY Widths DEF kTargetSizeLimit
  <2> QED
    BY <1>2, <2>1, DefaultSurvives
       DEF ConstructDecoder, HasPlannedTargetFileSize, DEFAULT_MIN_ENCODE_WINDOW_SIZE
<1>3. CASE InitCustomCodeTable
  <2>1. CodeTableSize \in 0 .. SizeModulus - 1  BY Widths
  <2> QED  BY <1>3, <2>1, Widths DEF InitCustomCodeTable, HasPlannedTargetFileSize
<1> QED  BY <1>1, <1>2, <1>3

\* A failed decoder has no window.
LEMMA FailInv == ASSUME LimitsInv, Fail PROVE LimitsInv'
<1>1. kUnlimitedBytes \in 0 .. SizeModulus - 1  BY SizeFits DEF kUnlimitedBytes
<1>2. TypeOK'  BY <1>1, ZeroFits DEF LimitsInv, TypeOK, Fail, encoderVars
<1> QED  BY <1>2, ZeroFits DEF LimitsInv, NextByteFits, Fail

\* The bytes of a size come one by one.
LEMMA ParseInv == ASSUME LimitsInv, ParseContinues PROVE LimitsInv'
<1>1. PICK digit \in 0 .. VarintBase - 1 :
         LET result == ToInt32(varint + digit)
         IN IF ShiftOverflows(result) THEN Fail
            ELSE /\ varint' = ToInt32(result * VarintBase)
                 /\ UNCHANGED <<kind, opts, phase, encoderVars, limitVars, total,
                                found_header, length, decoded, reparse, output>>
  BY DEF ParseContinues
<1> DEFINE result == ToInt32(varint + digit)
<1>2. result \in 0 .. MaxInt  BY ParsedFits DEF LimitsInv
<1>3. CASE ShiftOverflows(result)  BY <1>1, <1>3, FailInv
<1>4. CASE ~ShiftOverflows(result)
  <2>1. varint' \in 0 .. MaxInt - (VarintBase - 1)
    <3>1. ToInt32(result * VarintBase) \in 0 .. MaxInt - (VarintBase - 1)
      <4> HIDE DEF result
      <4> QED  BY <1>2, <1>4, ShiftFits
    <3> QED  BY <1>1, <1>4, <3>1
  <2>2. varint' \in 0 .. MaxInt
    BY <2>1, LimitsAssumption, Widths
  <2>3. UNCHANGED <<kind, opts, phase, encoderVars, limitVars, total, found_header,
                    length, decoded, reparse, output>>
    BY <1>1, <1>4
  <2> HIDE DEF result
  <2>4. TypeOK'  BY <2>2, <2>3 DEF LimitsInv, TypeOK, limitVars, encoderVars
  <2> QED
    BY <2>1, <2>3, <2>4
       DEF LimitsInv, NextByteFits, limitVars, HasPlannedTargetFileSize
<1> QED  BY <1>3, <1>4

\* A header whose length passed the checks: the subtractions did not wrap, so
\* the window fits in what the limits leave, and the sum does not wrap either.
LEMMA HeaderInv ==
    ASSUME LimitsInv, Decoding, ~found_header, NEW size \in 0 .. MaxInt,
           ~TargetWindowWouldExceedSizeLimits(size),
           HeaderIncomplete(size) \/ HeaderComplete(size)
    PROVE  LimitsInv'
<1> USE DEF LimitsInv, TypeOK, NextByteFits, windowVars, limitVars, encoderVars
<1>1. phase = "decoding" /\ size \in 0 .. SizeModulus - 1 /\ size <= MaxInt
  BY Widths DEF Decoding
<1>2. /\ Size(maximum_target_file_size - total) = maximum_target_file_size - total
      /\ HasPlannedTargetFileSize =>
           Size(planned_target_file_size - total) = planned_target_file_size - total
  BY <1>1, SizeFits, Widths
<1>3. /\ size <= maximum_target_window_size
      /\ total + size <= maximum_target_file_size
      /\ HasPlannedTargetFileSize => total + size <= planned_target_file_size
  BY <1>1, <1>2, Widths DEF TargetWindowWouldExceedSizeLimits
<1>4. CASE HeaderIncomplete(size)
  BY <1>1, <1>4, ZeroFits DEF HeaderIncomplete, HasPlannedTargetFileSize
<1>5. CASE HeaderComplete(size)
  <2>1. Size(total + size) = total + size  BY <1>1, <1>3, SizeFits, Widths
  <2> QED
    BY <1>1, <1>3, <1>5, <2>1, ZeroFits, Widths
       DEF HeaderComplete, HasPlannedTargetFileSize
<1> QED  BY <1>4, <1>5

\* An instruction that passed the check: the sum of two ints does not wrap.
LEMMA InstructionInv ==
    ASSUME LimitsInv, DecodeInstruction PROVE LimitsInv'
<1>1. PICK size \in ParsedSizes :
         IF InstructionExceeds(size) THEN Fail
         ELSE /\ decoded' = decoded + size
              /\ varint' = 0
              /\ UNCHANGED <<kind, opts, phase, encoderVars, limitVars, total,
                             found_header, length, reparse, output>>
  BY DEF DecodeInstruction
<1>2. CASE InstructionExceeds(size)  BY <1>1, <1>2, FailInv
<1>3. CASE ~InstructionExceeds(size)
  <2>1. /\ phase = "decoding" /\ found_header /\ decoded \in Nat
        /\ decoded < length /\ length \in Nat /\ length <= MaxInt
        /\ size \in 0 .. MaxInt
    BY ParsedFits DEF DecodeInstruction, InWindow, LimitsInv, TypeOK
  <2>2. size + decoded \in 0 .. SizeModulus - 1  BY <2>1, Widths
  <2>3. Size(size + decoded) = size + decoded  BY <2>2, SizeFits
  <2>4. ~(size + decoded > length)  BY <1>3, <2>3 DEF InstructionExceeds
  <2>5. decoded + size \in Nat /\ decoded + size <= length
    BY <2>1, <2>4, Widths
  <2>6. TypeOK'
    BY <1>1, <1>3, <2>5, ZeroFits DEF LimitsInv, TypeOK, limitVars, encoderVars
  <2> QED
    BY <1>1, <1>3, <2>1, <2>5, <2>6, ZeroFits
       DEF LimitsInv, NextByteFits, limitVars, HasPlannedTargetFileSize
<1> QED  BY <1>2, <1>3

\* A window ends with all it announced.
LEMMA WindowEndInv == ASSUME LimitsInv, DecodeBodyEnds PROVE LimitsInv'
<1>1. output \in Nat /\ decoded \in Nat /\ output + decoded \in Nat
  BY DEF LimitsInv, TypeOK
<1>2. TypeOK'
  BY <1>1, ZeroFits
     DEF LimitsInv, TypeOK, DecodeBodyEnds, limitVars, encoderVars
<1> QED
  BY <1>1, <1>2, ZeroFits
     DEF LimitsInv, NextByteFits, DecodeBodyEnds, limitVars, HasPlannedTargetFileSize

\* However a delta is cut, whatever it announces, and whatever the widths.
THEOREM LimitsInvariance == Spec => []LimitsInv
<1>1. Init => LimitsInv  BY InitInv
<1>2. LimitsInv /\ [Next]_vars => LimitsInv'
  <2> SUFFICES ASSUME LimitsInv, [Next]_vars PROVE LimitsInv'  OBVIOUS
  <2>1. CASE ConstructEncoder \/ ConstructDecoder \/ InitCustomCodeTable
    BY <2>1, ConstructInv
  <2>2. CASE ReadHeader
    <3>1. PICK size \in (IF reparse = -1 THEN ParsedSizes ELSE {reparse}) :
             IF TargetWindowWouldExceedSizeLimits(size) THEN Fail
             ELSE HeaderIncomplete(size) \/ HeaderComplete(size)
      BY <2>2 DEF ReadHeader
    <3>2. size \in 0 .. MaxInt  BY ParsedFits, Widths DEF LimitsInv, TypeOK
    <3>3. Decoding /\ ~found_header  BY <2>2 DEF ReadHeader
    <3> QED  BY <3>1, <3>2, <3>3, FailInv, HeaderInv
  <2>7. CASE ParseContinues  BY <2>7, ParseInv
  <2>3. CASE DecodeInstruction  BY <2>3, InstructionInv
  <2>4. CASE DecodeBodyEnds  BY <2>4, WindowEndInv
  <2>5. CASE Malformed  BY <2>5, FailInv DEF Malformed
  <2>6. CASE UNCHANGED vars
    BY <2>6 DEF vars, windowVars, limitVars, encoderVars, LimitsInv, TypeOK,
                NextByteFits, HasPlannedTargetFileSize
  <2> QED  BY <2>1, <2>2, <2>3, <2>4, <2>5, <2>6, <2>7 DEF Next
<1> QED  BY <1>1, <1>2, PTL DEF Spec

\* Type correctness: no number leaves its machine type.
THEOREM LimitsTypeCorrect == Spec => []TypeOK
<1>1. LimitsInv => TypeOK  BY DEF LimitsInv
<1> QED  BY <1>1, LimitsInvariance, PTL

\* No delta makes a decoder produce more than its limits.
THEOREM OutputBounded == Spec => []OutputWithinLimits
<1>1. LimitsInv => OutputWithinLimits
  BY DEF LimitsInv, TypeOK, OutputWithinLimits
<1> QED  BY <1>1, LimitsInvariance, PTL

\* Every window counts once towards the limits.
THEOREM CountedOnce == Spec => []WindowsCountedOnce
<1>1. LimitsInv => WindowsCountedOnce  BY DEF LimitsInv, WindowsCountedOnce
<1> QED  BY <1>1, LimitsInvariance, PTL

\* No size parsed from a delta overflows, whatever the widths.
THEOREM ParsedSizesFit == Spec => []NextByteFits
<1>1. LimitsInv => NextByteFits  BY DEF LimitsInv
<1> QED  BY <1>1, LimitsInvariance, PTL

\* A decoder with a plan produces exactly what was planned.
THEOREM PlanMet == Spec => []PlanIsMet
<1>1. LimitsInv => PlanIsMet
  BY DEF LimitsInv, TypeOK, PlanIsMet, ReachedPlannedTargetFileSize
<1> QED  BY <1>1, LimitsInvariance, PTL
=============================================================================
