----------------------------- MODULE VcdLimits ------------------------------
(***************************************************************************)
(* The numbers that bound an engine: the options the constructor of        *)
(* lib/vcdiff.js checks, the limits it hands to open-vcdiff, and how the   *)
(* streaming decoder holds every target window against them.               *)
(*                                                                         *)
(* Integers wrap where they do in the code, with the widths as parameters. *)
(* A window is its length: what its instructions copy is left out, how     *)
(* many bytes each produces is not.                                        *)
(*                                                                         *)
(* A definition that follows the comment "Mutant" is not part of the model:*)
(* it is the next definition with a plausible bug, for checking that the   *)
(* properties would notice.                                                *)
(***************************************************************************)
EXTENDS Integers

CONSTANTS
    IntSign,        \* the sign bit of an int32_t: 2 ^ 31
    SizeModulus,    \* the values of a size_t: 2 ^ 64
    VarintBase,     \* the values of a byte of a variable-length integer: 128
    DefaultLimit,   \* the default limit: 2 ^ 26
    CodeTableSize,  \* sizeof(VCDiffCodeTableData)
    WindowOptions   \* values of the encoder's window options, 0 for none

ASSUME LimitsAssumption ==
    /\ IntSign \in Nat /\ SizeModulus \in Nat
    /\ DefaultLimit \in 1 .. IntSign - 1
    /\ 2 * IntSign <= SizeModulus
    /\ VarintBase \in Nat
    /\ \E k \in 1 .. IntSign : IntSign = k * VarintBase
    /\ CodeTableSize \in 1 .. DefaultLimit
    /\ WindowOptions \subseteq Nat

VARIABLES
    kind,           \* "encoder", "decoder", or "codetable": the decoder that
                    \* open-vcdiff nests in one for a custom code table
    opts,           \* the number options given to the constructor
    phase,          \* "new", "thrown", "encoding", "decoding", "failed"
    minEncodeWindowSize,
    maximum_target_file_size, maximum_target_window_size,
    planned_target_file_size,
    total,          \* total_of_target_window_sizes_
    found_header,
    varint,         \* the size being parsed, as far as its bytes were read
    length,         \* target_window_length_
    decoded,        \* TargetBytesDecoded()
    reparse,        \* length of the header that will be parsed again, or -1
    output          \* bytes of the windows completed before

encoderVars == <<minEncodeWindowSize>>
limitVars == <<maximum_target_file_size, maximum_target_window_size,
               planned_target_file_size>>
windowVars == <<total, found_header, varint, length, decoded, reparse, output>>
vars == <<kind, opts, phase, encoderVars, limitVars, windowVars>>

-----------------------------------------------------------------------------
(* Machine integers                                                        *)

MaxInt == IntSign - 1

\* JavaScript's conversion to int32, which ends every shift.
ToInt32(n) == LET bits == n % (2 * IntSign)
              IN IF bits > MaxInt THEN bits - 2 * IntSign ELSE bits

Size(n) == n % SizeModulus

\* MIN_, MAX_ and DEFAULT_MAX_TARGET_FILE_SIZE, and the same for _WINDOW_.
MIN_MAX_TARGET_SIZE == 1
MAX_MAX_TARGET_SIZE == ToInt32(IntSign)
DEFAULT_MAX_TARGET_SIZE == ToInt32(DefaultLimit)

MIN_MIN_ENCODE_WINDOW_SIZE == 64
DEFAULT_MIN_ENCODE_WINDOW_SIZE == 4096

kDefaultMaximumTargetFileSize == DefaultLimit
kTargetSizeLimit == MaxInt

\* Mutant: the constant without its cast to size_t.
kUnlimitedBytesSigned == -3

kUnlimitedBytes == Size(-3)

Options == [maxTargetFileSize : -1 .. IntSign,
            maxTargetWindowSize : -1 .. IntSign,
            minEncodeWindowSize : WindowOptions,
            encodeWindowSize : WindowOptions]

TypeOK ==
    /\ kind \in {"encoder", "decoder", "codetable"}
    /\ opts \in Options
    /\ phase \in {"new", "thrown", "encoding", "decoding", "failed"}
    /\ minEncodeWindowSize \in Nat
    /\ {maximum_target_file_size, maximum_target_window_size,
        planned_target_file_size, total, length} \subseteq 0 .. SizeModulus - 1
    /\ found_header \in BOOLEAN
    /\ decoded \in Nat /\ output \in Nat
    /\ varint \in 0 .. MaxInt
    /\ reparse \in -1 .. MaxInt

\* An encoder is given window options, a decoder limits.
Init ==
    /\ kind \in {"encoder", "decoder", "codetable"}
    /\ opts \in Options
    /\ kind # "decoder" => opts.maxTargetFileSize = 0 /\ opts.maxTargetWindowSize = 0
    /\ kind # "encoder" => opts.minEncodeWindowSize = 0 /\ opts.encodeWindowSize = 0
    /\ phase = "new"
    /\ minEncodeWindowSize = 0
    /\ maximum_target_file_size = kDefaultMaximumTargetFileSize
    /\ maximum_target_window_size = kDefaultMaximumTargetFileSize
    /\ planned_target_file_size = kUnlimitedBytes
    /\ total = 0 /\ found_header = FALSE /\ varint = 0 /\ length = 0
    /\ decoded = 0 /\ reparse = -1 /\ output = 0

-----------------------------------------------------------------------------
(* Construction                                                            *)

\* An option that is given, and is not between the two bounds.
LimitRefused(value) ==
    value # 0 /\ (value < MIN_MAX_TARGET_SIZE \/ value > MAX_MAX_TARGET_SIZE)

ConstructEncoder ==
    /\ kind = "encoder" /\ phase = "new"
    /\ minEncodeWindowSize' = IF opts.minEncodeWindowSize # 0
                              THEN opts.minEncodeWindowSize
                              ELSE DEFAULT_MIN_ENCODE_WINDOW_SIZE
    /\ phase' = IF /\ opts.encodeWindowSize # 0
                   /\ opts.encodeWindowSize < MIN_MIN_ENCODE_WINDOW_SIZE
                THEN "thrown" ELSE "encoding"
    /\ UNCHANGED <<kind, opts, limitVars, windowVars>>

\* The options are checked, the defaults are handed over: the binding takes
\* them modulo 2^32 and open-vcdiff refuses a window limit beyond an int32_t.
ConstructDecoder ==
    /\ kind = "decoder" /\ phase = "new"
    /\ IF \/ LimitRefused(opts.maxTargetFileSize)
          \/ LimitRefused(opts.maxTargetWindowSize)
       THEN phase' = "thrown" /\ UNCHANGED limitVars
       ELSE LET limit == DEFAULT_MAX_TARGET_SIZE % (2 * IntSign)
            IN /\ phase' = "decoding"
               /\ maximum_target_file_size' = limit
               /\ maximum_target_window_size' =
                     IF limit <= kTargetSizeLimit THEN limit
                     ELSE maximum_target_window_size
               /\ UNCHANGED planned_target_file_size
    /\ minEncodeWindowSize' = DEFAULT_MIN_ENCODE_WINDOW_SIZE
    /\ UNCHANGED <<kind, opts, windowVars>>

\* The nested decoder keeps the default limits and plans for one code table.
InitCustomCodeTable ==
    /\ kind = "codetable" /\ phase = "new"
    /\ phase' = "decoding"
    /\ planned_target_file_size' = CodeTableSize
    /\ UNCHANGED <<kind, opts, encoderVars, maximum_target_file_size,
                   maximum_target_window_size, windowVars>>

-----------------------------------------------------------------------------
(* Decoding                                                                *)

HasPlannedTargetFileSize == planned_target_file_size # kUnlimitedBytes

ReachedPlannedTargetFileSize ==
    HasPlannedTargetFileSize /\ total >= planned_target_file_size

\* Mutant: each limit is compared with the window alone.
ExceedsIgnoringTotal(size) ==
    \/ size > maximum_target_window_size
    \/ HasPlannedTargetFileSize /\ size > planned_target_file_size
    \/ size > maximum_target_file_size

TargetWindowWouldExceedSizeLimits(size) ==
    \/ size > maximum_target_window_size
    \/ HasPlannedTargetFileSize /\ size > Size(planned_target_file_size - total)
    \/ size > Size(maximum_target_file_size - total)

\* Reset() of the decoder after an error: it decodes no more.
Fail ==
    /\ phase' = "failed"
    /\ planned_target_file_size' = kUnlimitedBytes
    /\ total' = 0 /\ found_header' = FALSE /\ varint' = 0 /\ length' = 0
    /\ decoded' = 0 /\ reparse' = -1
    /\ UNCHANGED <<kind, opts, encoderVars, maximum_target_file_size,
                   maximum_target_window_size, output>>

\* A window may start unless one is being decoded or the plan is met.
Decoding == phase = "decoding" /\ ~ReachedPlannedTargetFileSize

\* An instruction may follow.
InWindow == phase = "decoding" /\ found_header /\ decoded < length

\* Mutant: the value is tested, not what it becomes when it is shifted.
ShiftOverflowsLate(result) == result > MaxInt

\* VarintBE::Parse tests a value before it shifts it.
ShiftOverflows(result) == result > MaxInt \div VarintBase

\* A byte of the length of a window or the size of an instruction, not its
\* last one.  Where the input ends within the integer all of it is parsed
\* again, as if the chunk had ended before it.
ParseContinues ==
    /\ InWindow \/ (Decoding /\ ~found_header /\ reparse = -1)
    /\ \E digit \in 0 .. VarintBase - 1 :
          LET result == ToInt32(varint + digit)
          IN IF ShiftOverflows(result)
             THEN Fail
             ELSE /\ varint' = ToInt32(result * VarintBase)
                  /\ UNCHANGED <<kind, opts, phase, encoderVars, limitVars, total,
                                 found_header, length, decoded, reparse, output>>

\* What the last byte may make of it.
ParsedSizes == {ToInt32(varint + digit) : digit \in 0 .. VarintBase - 1}

\* Mutant: the window is counted before the rest of its header is there.
HeaderIncompleteCounts(size) ==
    /\ reparse' = size
    /\ varint' = 0
    /\ total' = Size(total + size)
    /\ length' = size
    /\ UNCHANGED <<kind, opts, phase, encoderVars, limitVars, found_header, decoded,
                   output>>

\* The length was parsed, but not all of the header or the body is there: the
\* next DecodeChunk parses the same bytes again.
HeaderIncomplete(size) ==
    /\ reparse' = size
    /\ varint' = 0
    /\ length' = size
    /\ UNCHANGED <<kind, opts, phase, encoderVars, limitVars, total, found_header,
                   decoded, output>>

HeaderComplete(size) ==
    /\ found_header' = TRUE
    /\ length' = size
    /\ total' = Size(total + size)
    /\ reparse' = -1
    /\ varint' = 0
    /\ UNCHANGED <<kind, opts, phase, encoderVars, limitVars, decoded, output>>

\* ReadHeader, from the last byte of the length on.
ReadHeader ==
    /\ Decoding
    /\ ~found_header
    /\ \E size \in (IF reparse = -1 THEN ParsedSizes ELSE {reparse}) :
          IF TargetWindowWouldExceedSizeLimits(size)
          THEN Fail
          ELSE HeaderIncomplete(size) \/ HeaderComplete(size)

\* Mutant: an instruction is compared with the window, not with what is left
\* of it.
InstructionExceedsAlone(size) == size > length

\* The check of DecodeBody on the size of an instruction.
InstructionExceeds(size) == size > length \/ Size(size + decoded) > length

\* One instruction of DecodeBody, from the last byte of its size on.
DecodeInstruction ==
    /\ InWindow
    /\ \E size \in ParsedSizes :
          IF InstructionExceeds(size)
          THEN Fail
          ELSE /\ decoded' = decoded + size
               /\ varint' = 0
               /\ UNCHANGED <<kind, opts, phase, encoderVars, limitVars, total,
                              found_header, length, reparse, output>>

\* The window is complete: DecodeWindow resets.
DecodeBodyEnds ==
    /\ phase = "decoding" /\ found_header
    /\ decoded = length
    /\ output' = output + decoded
    /\ found_header' = FALSE /\ length' = 0 /\ decoded' = 0
    /\ UNCHANGED <<kind, opts, phase, encoderVars, limitVars, total, varint,
                   reparse>>

\* Any check that is not about these sizes fails: lengths of sections, code
\* tables, addresses, the checksum, bytes left over.
Malformed == (Decoding \/ (phase = "decoding" /\ found_header)) /\ Fail

Next == ConstructEncoder \/ ConstructDecoder \/ InitCustomCodeTable
          \/ ParseContinues \/ ReadHeader \/ DecodeInstruction \/ DecodeBodyEnds
          \/ Malformed

Spec == Init /\ [][Next]_vars

-----------------------------------------------------------------------------
(* Properties                                                              *)

\* A delta that is being decoded never produces more than the limit the
\* decoder was given, over all its windows and in each of them, though only
\* announced lengths and single instructions are compared with it and the
\* comparison is a subtraction of unsigned numbers.
OutputWithinLimits ==
    phase = "decoding" => /\ output + decoded <= maximum_target_file_size
                          /\ decoded <= maximum_target_window_size

\* total_of_target_window_sizes_ counts every window once, also one whose
\* header is parsed again and again while its bytes arrive; the subtractions
\* from it then cannot wrap.
WindowsCountedOnce ==
    phase = "decoding" =>
        total = output + (IF found_header THEN length ELSE 0)

\* A nested decoder never goes past its plan ("The planned target file size
\* should not have been exceeded", src/src/third-party/open-vcdiff/src/
\* vcdecoder.cc:411), so the decoder around it gets exactly one code table.
PlanIsMet ==
    phase = "decoding" /\ HasPlannedTargetFileSize =>
        /\ output + decoded <= planned_target_file_size
        /\ ReachedPlannedTargetFileSize /\ ~found_header
              => output = planned_target_file_size

\* Whatever byte comes next, adding it to a half-parsed size does not overflow
\* an int32_t: no size is negative, and none is taken for one of the negative
\* codes that share its type, RESULT_ERROR and RESULT_END_OF_DATA
\* (src/src/third-party/open-vcdiff/src/varint_bigendian.cc:44-54).
NextByteFits == varint \in 0 .. MaxInt - (VarintBase - 1)

\* What makes them inductive: lengths that were announced are within the
\* limits, and what is decoded is within what was announced.
LimitsInv ==
    /\ TypeOK
    /\ NextByteFits
    /\ length <= MaxInt
    /\ phase = "new" => /\ total = 0 /\ output = 0 /\ ~found_header
                        /\ length = 0 /\ decoded = 0
                        /\ ~HasPlannedTargetFileSize
                        /\ maximum_target_window_size = DefaultLimit
    /\ phase = "decoding" =>
          /\ total = output + (IF found_header THEN length ELSE 0)
          /\ total <= maximum_target_file_size
          /\ HasPlannedTargetFileSize => total <= planned_target_file_size
          /\ found_header => length <= maximum_target_window_size
          /\ decoded <= (IF found_header THEN length ELSE 0)

\* The documented minimum of maxTargetFileSize is accepted: "minimum - 1,
\* maximum - 1 << 32 - 1" (src/README.md:217).
DocumentedLimitAccepted ==
    opts.maxTargetFileSize = 1 /\ opts.maxTargetWindowSize = 0 => phase # "thrown"

\* No engine encodes windows smaller than the documented minimum of
\* minEncodeWindowSize: "minimum - 60" (src/README.md:129).
SmallWindowRefused == phase = "encoding" => minEncodeWindowSize >= 60
=============================================================================
