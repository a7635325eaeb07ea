------------------------------ MODULE VcdWindow -----------------------------
(***************************************************************************)
(* Delta windows in the interleaved format of open-vcdiff: the code table  *)
(* writer of the encoder puts instructions, sizes, data and addresses into *)
(* one section, and the streaming decoder reads it again, in chunks that   *)
(* may end anywhere.  Where the input ends in the middle of an instruction *)
(* the decoder takes it back (UnGetInstruction) and resumes with the next  *)
(* chunk.                                                                  *)
(*                                                                         *)
(* A token stands for what the encoder appends at once: the header of a    *)
(* window, an opcode, a size, a byte of data, an address.  A chunk ends    *)
(* between two tokens: one that ends inside a token is one that ends       *)
(* before it, for no operation consumes a part of a token.                 *)
(*                                                                         *)
(* A byte of the target is a number.  The dictionary and the data of ADDs  *)
(* are all different, so a COPY from a wrong address always shows.         *)
(***************************************************************************)
EXTENDS VcdAddressCache, Sequences, SequencesExt

CONSTANTS
    ImplicitSizes,  \* sizes the default code table has opcodes for
    dictionary,     \* the source segment, a sequence of bytes
    MaxTarget,      \* bound: bytes in the target of a window
    MaxSize,        \* bound: size of an instruction
    MaxWindows      \* bound: windows

ASSUME WindowAssumption ==
    /\ dictionary \in Seq(Nat)
    /\ MaxTarget \in Nat /\ MaxSize \in Nat /\ MaxWindows \in Nat

VARIABLES
    \* VCDiffCodeTableWriter
    instructions_and_sizes,
    last_opcode_index,      \* 0 for none
    address_cache,
    target,                 \* the target of the window, for its length
    \* The delta, and how much of it the decoder was given
    delta,
    received,
    \* VCDiffDeltaFileWindow, its parent and its code table reader
    phase,                  \* "wait", between two DecodeChunk calls; "window",
                            \* at the head of its loop; in DecodeBody at
                            \* "next", "size" or "operand" of an instruction
    parsed,                 \* tokens the parseable chunk advanced past
    found_header,
    target_window_length,
    interleaved_bytes_expected,
    pos, section_end,       \* what instructions_and_sizes_ has unparsed
    instruction,            \* the one DecodeBody works on
    pending_second_instruction,
    last_instruction_start,
    last_pending_second_instruction,
    addr_cache,
    decoded,                \* decoded_target of the window
    output,                 \* ... and of those before it
    failed,                 \* RESULT_ERROR
    \* For the properties
    history,                \* targets of the windows in delta, joined
    marks                   \* where a decoder with all of the delta would be
                            \* before each instruction and window

writerVars == <<instructions_and_sizes, last_opcode_index, address_cache, target,
                delta, history, marks>>
sectionVars == <<parsed, interleaved_bytes_expected, pos, section_end>>
headerVars == <<found_header, target_window_length>>
readerVars == <<instruction, pending_second_instruction, last_instruction_start,
                last_pending_second_instruction>>
targetVars == <<addr_cache, decoded, output>>
vars == <<writerVars, received, phase, sectionVars, headerVars, readerVars,
          targetVars, failed>>

\* One instruction of an opcode; size 0 means that the size follows.
Instruction == [inst : {"VCD_ADD", "VCD_COPY"}, size : Nat, mode : Nat]

kNoOpcode == <<>>

Token == [header : Nat, length : Nat] \cup [opcode : Seq(Instruction)]
           \cup [size : Nat] \cup [data : Nat] \cup [address : Nat]

\* The window by the position of its header, the position in the delta, the
\* second instruction of an opcode, the cache and what is decoded.
Mark == [win : Nat, pos : Nat, pending : Seq(Instruction), cache : Cache,
         decoded : Seq(Nat), output : Seq(Nat)]

\* The mark at the head of a window, and the one of the encoder's position.
Start(win, out) ==
    [win |-> win, pos |-> win, pending |-> kNoOpcode, cache |-> InitialCache,
     decoded |-> <<>>, output |-> out]

Here ==
    [win |-> Len(delta) + 1, pos |-> Len(delta) + 1 + Len(instructions_and_sizes),
     pending |-> kNoOpcode, cache |-> address_cache, decoded |-> target,
     output |-> history]

TypeOK ==
    /\ instructions_and_sizes \in Seq(Token) /\ delta \in Seq(Token)
    /\ last_opcode_index \in 0 .. Len(instructions_and_sizes)
    /\ address_cache \in Cache /\ addr_cache \in Cache
    /\ received \in 0 .. Len(delta) /\ parsed \in 0 .. received
    /\ phase \in {"wait", "window", "next", "size", "operand"}
    /\ target_window_length \in Nat /\ interleaved_bytes_expected \in Nat
    /\ section_end \in 0 .. received /\ pos \in 0 .. section_end
    /\ last_instruction_start \in 0 .. pos
    /\ instruction \in Seq(Instruction)
    /\ pending_second_instruction \in Seq(Instruction)
    /\ last_pending_second_instruction \in Seq(Instruction)
    /\ \A s \in {target, decoded, output, history} : s \in Seq(Nat)
    /\ found_header \in BOOLEAN /\ failed \in BOOLEAN
    /\ marks \in Seq(Mark)

Init ==
    /\ instructions_and_sizes = <<>> /\ last_opcode_index = 0
    /\ address_cache = InitialCache /\ target = <<>>
    /\ delta = <<>> /\ received = 0 /\ history = <<>>
    /\ marks = <<Start(1, <<>>)>>
    /\ phase = "wait" /\ parsed = 0 /\ found_header = FALSE
    /\ target_window_length = 0 /\ interleaved_bytes_expected = 0
    /\ pos = 0 /\ section_end = 0
    /\ instruction = kNoOpcode /\ pending_second_instruction = kNoOpcode
    /\ last_instruction_start = 0
    /\ last_pending_second_instruction = kNoOpcode
    /\ addr_cache = InitialCache /\ decoded = <<>> /\ output = <<>>
    /\ failed = FALSE

-----------------------------------------------------------------------------
(* The encoder: VCDiffCodeTableWriter                                      *)

\* Mutant: a double opcode is used for sizes it does not imply.
LookupSecondOpcodeAnySize(first, second) == first.inst # second.inst

\* The double opcodes of the default code table: both sizes are implicit.
LookupSecondOpcode(first, second) ==
    first.inst # second.inst /\ first.size # 0 /\ second.size # 0

\* EncodeInstruction, and the operand its caller appends: the last opcode, if
\* it is single and goes with the instruction, becomes a double one.
EncodeInstruction(inst, size, mode, operand) ==
    LET i == [inst |-> inst, size |-> IF size \in ImplicitSizes THEN size ELSE 0,
              mode |-> mode]
        n == last_opcode_index
    IN IF n # 0 /\ LookupSecondOpcode(instructions_and_sizes[n].opcode[1], i)
       THEN /\ instructions_and_sizes' =
                 [instructions_and_sizes EXCEPT ![n].opcode = Append(@, i)]
                   \o operand
            /\ last_opcode_index' = 0
       ELSE /\ instructions_and_sizes' =
                 Append(instructions_and_sizes, [opcode |-> <<i>>])
                   \o (IF i.size = 0 THEN <<[size |-> size]>> ELSE <<>>)
                   \o operand
            /\ last_opcode_index' = Len(instructions_and_sizes) + 1

\* The encoder is told nothing by the decoder, which only sees the delta: that
\* the whole delta is there before the first chunk loses no behaviour.
MayEncode(size) ==
    /\ received = 0
    /\ Len(target) + size <= MaxTarget
    /\ Len(SelectSeq(delta, LAMBDA t : "header" \in DOMAIN t)) < MaxWindows

Add(size) ==
    /\ MayEncode(size)
    /\ LET first == Len(dictionary) + Len(history) + Len(target)
           data  == [i \in 1 .. size |-> first + i]
       IN /\ EncodeInstruction("VCD_ADD", size, 0,
                               [i \in 1 .. size |-> [data |-> data[i]]])
          /\ target' = target \o data
    /\ UNCHANGED address_cache

\* The bytes that a match of the given size at an address has, behind those
\* before: it may overlap the position it is found for.
Match(before, address, size) ==
    LET period == Len(before) - address
    IN [i \in 1 .. size |-> before[address + 1 + ((i - 1) % period)]]

Copy(address, size) ==
    /\ MayEncode(size)
    /\ \E code \in EncodeAddress(address_cache, address,
                                 Len(dictionary) + Len(target)) :
          EncodeInstruction("VCD_COPY", size, code.mode,
                            <<[address |-> code.value]>>)
    /\ address_cache' = UpdateCache(address_cache, address)
    /\ target' = target \o Match(dictionary \o target, address, size)

\* A second instruction is pending where the first one ends.
Marked ==
    IF last_opcode_index' = 0
    THEN [marks EXCEPT ![Len(marks)].pending =
            <<Last(instructions_and_sizes'[last_opcode_index].opcode)>>]
    ELSE marks

Encode ==
    /\ \E size \in 1 .. MaxSize :
          \/ Add(size)
          \/ \E address \in 0 .. Len(dictionary) + Len(target) - 1 :
                Copy(address, size)
    /\ UNCHANGED <<delta, history>>
    /\ marks' = Append(Marked, Here')

\* Output writes the window and gets ready for the next one.
Output ==
    /\ delta' = delta \o <<[header |-> Len(target),
                            length |-> Len(instructions_and_sizes)]>>
                      \o instructions_and_sizes
    /\ history' = history \o target
    /\ instructions_and_sizes' = <<>> /\ last_opcode_index' = 0
    /\ target' = <<>>
    /\ address_cache' = InitialCache

OutputWindow ==
    /\ target # <<>> /\ MayEncode(0)
    /\ Output
    /\ marks' = Append(marks, Here')

Writer == (Encode \/ OutputWindow)
          /\ UNCHANGED <<received, phase, sectionVars, headerVars, readerVars,
                         targetVars, failed>>

-----------------------------------------------------------------------------
(* The decoder: leaving and resuming DecodeBody                            *)

\* Mutant: the section is all there is, the next window included.
SectionEndOfData(from, expected, end) == end

\* UpdateInterleavedSectionPointers: the section from a position, as far as
\* there are data and as it goes.
SectionEnd(from, expected, end) ==
    IF end - from > expected THEN from + expected ELSE end

\* UpdateInstructionPointer, with the instructions parsed up to a position.
UpdateInstructionPointer(to) ==
    /\ parsed' = to
    /\ interleaved_bytes_expected' = interleaved_bytes_expected - (to - parsed)

\* RESULT_END_OF_DATA in DecodeBody, an error unless the window has more data.
EndOfData(to) ==
    /\ UpdateInstructionPointer(to)
    /\ pos' = to
    /\ phase' = "wait"
    /\ failed' = (interleaved_bytes_expected' = 0)

\* Mutant: a second instruction is not taken back.
UnGetInstructionForgets ==
    /\ EndOfData(last_instruction_start)
    /\ UNCHANGED pending_second_instruction

UnGetInstruction ==
    /\ EndOfData(last_instruction_start)
    /\ pending_second_instruction' = last_pending_second_instruction

\* DecodeChunk: the bytes not parsed so far and n more.  Without any it has
\* nothing to do; in the middle of a window it resumes it (UpdatePointers).
DecodeChunk ==
    /\ phase = "wait" /\ ~failed
    /\ received' \in received .. Len(delta)
    /\ received' > parsed
    /\ IF found_header
       THEN /\ phase' = "next"
            /\ pos' = parsed
            /\ section_end' = SectionEnd(parsed, interleaved_bytes_expected, received')
            /\ last_instruction_start' = parsed
            /\ last_pending_second_instruction' = pending_second_instruction
       ELSE /\ phase' = "window"
            /\ UNCHANGED <<pos, section_end, last_instruction_start,
                           last_pending_second_instruction>>
    /\ UNCHANGED <<writerVars, parsed, interleaved_bytes_expected, headerVars,
                   instruction, pending_second_instruction, targetVars, failed>>

\* DecodeWindow: ReadHeader resets the reader and the cache.
ReadHeader ==
    /\ phase = "window" /\ parsed < received
    /\ LET h == delta[parsed + 1]
       IN /\ target_window_length' = h.header
          /\ interleaved_bytes_expected' = h.length
          /\ section_end' = SectionEnd(parsed + 1, h.length, received)
    /\ found_header' = TRUE
    /\ parsed' = parsed + 1 /\ pos' = parsed + 1
    /\ last_instruction_start' = 0
    /\ pending_second_instruction' = kNoOpcode
    /\ last_pending_second_instruction' = kNoOpcode
    /\ addr_cache' = InitialCache
    /\ phase' = "next"
    /\ UNCHANGED <<writerVars, received, instruction, decoded, output, failed>>

\* The chunk is used up.
ChunkDone ==
    /\ phase = "window" /\ parsed = received
    /\ phase' = "wait"
    /\ UNCHANGED <<writerVars, received, sectionVars, headerVars, readerVars,
                   targetVars, failed>>

-----------------------------------------------------------------------------
(* The decoder: one instruction                                            *)

\* A token is only read as what it was written for (InStep).
IsToken(position, kind) == kind \in DOMAIN delta[position]

\* GetNextInstruction, up to the size: the second one of an opcode, the next
\* opcode, or none.
GetNextInstruction ==
    /\ phase = "next" /\ Len(decoded) < target_window_length
    /\ \/ /\ pending_second_instruction # kNoOpcode
          /\ instruction' = pending_second_instruction
          /\ pending_second_instruction' = kNoOpcode
          /\ phase' = "size"
          /\ UNCHANGED <<sectionVars, failed>>
       \/ /\ pending_second_instruction = kNoOpcode /\ pos >= section_end
          /\ EndOfData(pos)
          /\ UNCHANGED <<instruction, pending_second_instruction, section_end>>
       \/ /\ pending_second_instruction = kNoOpcode /\ pos < section_end
          /\ IsToken(pos + 1, "opcode")
          /\ instruction' = <<delta[pos + 1].opcode[1]>>
          /\ pending_second_instruction' = Tail(delta[pos + 1].opcode)
          /\ pos' = pos + 1
          /\ phase' = "size"
          /\ UNCHANGED <<parsed, interleaved_bytes_expected, section_end, failed>>
    /\ last_instruction_start' = pos
    /\ last_pending_second_instruction' = pending_second_instruction
    /\ UNCHANGED <<writerVars, received, headerVars, targetVars>>

\* ... its size: implicit, parsed, or not there yet; too large for the window.
GetSize ==
    /\ phase = "size"
    /\ LET i    == instruction[1]
           size == IF i.size # 0 THEN i.size ELSE delta[pos + 1].size
       IN \/ /\ i.size = 0 /\ pos >= section_end
             /\ UnGetInstruction
             /\ UNCHANGED instruction
          \/ /\ i.size = 0 => pos < section_end /\ IsToken(pos + 1, "size")
             /\ instruction' = <<[i EXCEPT !.size = size]>>
             /\ pos' = pos + (IF i.size = 0 THEN 1 ELSE 0)
             /\ failed' = (Len(decoded) + size > target_window_length)
             /\ phase' = IF failed' THEN "wait" ELSE "operand"
             /\ UNCHANGED <<parsed, interleaved_bytes_expected,
                            pending_second_instruction>>
    /\ UNCHANGED <<writerVars, received, section_end, headerVars, targetVars,
                   last_instruction_start, last_pending_second_instruction>>

\* An operand of n tokens is used: the bytes are the next of the target, unless
\* there was an error.
OperandUsed(n, bytes, error) ==
    /\ n <= section_end - pos
    /\ decoded' = IF error THEN decoded ELSE decoded \o bytes
    /\ pos' = pos + n
    /\ failed' = error
    /\ phase' = IF error THEN "wait" ELSE "next"
    /\ UNCHANGED <<parsed, interleaved_bytes_expected, output,
                   pending_second_instruction>>

DecodeAdd(size) ==
    /\ size <= section_end - pos
    /\ \A k \in 1 .. size : IsToken(pos + k, "data")
    /\ OperandUsed(size, [k \in 1 .. size |-> delta[pos + k].data], FALSE)
    /\ UNCHANGED addr_cache

\* DecodeCopy's loops, which append the bytes from an address on, the ones
\* just appended included.
CopyBytes(before, address, size) ==
    LET all[k \in 0 .. size] == IF k = 0 THEN before
                               ELSE Append(all[k - 1], all[k - 1][address + k])
    IN SubSeq(all[size], Len(before) + 1, Len(before) + size)

\* Mutant: the cache is updated though the address is not there.
OperandMissingCopied(i) ==
    /\ 1 > section_end - pos
    /\ UnGetInstruction
    /\ addr_cache' = UpdateCache(addr_cache, Len(dictionary) + Len(decoded))
    /\ UNCHANGED <<decoded, output>>

\* The operand is not all there: try again with the next chunk.
OperandMissing(i) ==
    /\ (IF i.inst = "VCD_ADD" THEN i.size ELSE 1) > section_end - pos
    /\ UnGetInstruction
    /\ UNCHANGED targetVars

DecodeCopy(size, mode) ==
    /\ pos < section_end /\ IsToken(pos + 1, "address")
    /\ LET here    == Len(dictionary) + Len(decoded)
           code    == [mode |-> mode, value |-> delta[pos + 1].address]
           address == DecodeAddress(addr_cache, code, here)
           error   == address = RESULT_ERROR
       IN /\ OperandUsed(1, CopyBytes(dictionary \o decoded, address, size), error)
          /\ addr_cache' = IF error THEN addr_cache
                           ELSE UpdateCache(addr_cache, address)

DecodeOperand ==
    /\ phase = "operand"
    /\ LET i == instruction[1]
       IN \/ OperandMissing(i)
          \/ i.inst = "VCD_ADD" /\ DecodeAdd(i.size)
          \/ i.inst = "VCD_COPY" /\ DecodeCopy(i.size, i.mode)
    /\ UNCHANGED <<writerVars, received, section_end, headerVars, instruction,
                   last_instruction_start, last_pending_second_instruction>>

\* Mutant: DecodeChunk returns after a window.
AfterWindowReturn == "wait"

\* ... and its loop goes on as long as there are data.
AfterWindow == "window"

\* The end of DecodeBody: nothing may be left of the section; decoded_target is
\* flushed.
WindowDecoded ==
    /\ phase = "next" /\ Len(decoded) = target_window_length
    /\ UpdateInstructionPointer(pos)
    /\ failed' = (pos < section_end)
    /\ found_header' = FALSE /\ target_window_length' = 0
    /\ output' = IF failed' THEN output ELSE output \o decoded
    /\ decoded' = <<>>
    /\ phase' = IF failed' THEN "wait" ELSE AfterWindow
    /\ UNCHANGED <<writerVars, received, pos, section_end, readerVars, addr_cache>>

Decoder == DecodeChunk \/ ReadHeader \/ ChunkDone \/ GetNextInstruction
             \/ GetSize \/ DecodeOperand \/ WindowDecoded

Next == Writer \/ Decoder

Spec == Init /\ [][Next]_vars

-----------------------------------------------------------------------------
(* Properties                                                              *)

\* No split of a delta the encoder wrote makes the decoder refuse it: neither
\* for want of data nor for an address, a size or an excess that comes from
\* resuming at the wrong place (src/src/third-party/open-vcdiff/src/vcdecoder.cc:1345).
WellFormedAccepted == ~failed

\* What is decoded is what was encoded: both caches are in step through
\* retried COPYs, double opcodes and the reset between windows, and nothing is
\* decoded twice.
DecodedIsPrefix == IsPrefix(output \o decoded, history)

\* The decoder has no data left over once it was given everything.
AllDecoded ==
    phase = "wait" /\ received = Len(delta)
        => output = history /\ parsed = received

\* The next token is what the decoder will read it as, at every split.
InStep ==
    /\ phase = "window" /\ parsed < received => IsToken(parsed + 1, "header")
    /\ pos < section_end =>
          /\ phase = "next" /\ pending_second_instruction = kNoOpcode
                /\ Len(decoded) < target_window_length
                => IsToken(pos + 1, "opcode")
          /\ phase = "size" /\ instruction[1].size = 0 => IsToken(pos + 1, "size")
          /\ phase = "operand" =>
                IsToken(pos + 1, IF instruction[1].inst = "VCD_ADD" THEN "data"
                                 ELSE "address")
-----------------------------------------------------------------------------
(* The inductive invariant behind all of them                              *)

\* The delta, were the window output now.
Stream ==
    delta \o <<[header |-> Len(target), length |-> Len(instructions_and_sizes)]>>
          \o instructions_and_sizes

\* The instruction after a mark of a delta s, where its size and its operand
\* are, and its size.
InstructionAt(s, m) ==
    IF m.pending = kNoOpcode THEN s[m.pos + 1].opcode[1] ELSE m.pending[1]

SizeFrom(m) == m.pos + (IF m.pending = kNoOpcode THEN 1 ELSE 0)

OperandFrom(s, m) ==
    SizeFrom(m) + (IF InstructionAt(s, m).size = 0 THEN 1 ELSE 0)

SizeAt(s, m) ==
    IF InstructionAt(s, m).size = 0 THEN s[SizeFrom(m) + 1].size
    ELSE InstructionAt(s, m).size

\* The address of a COPY after a mark.
AddressAt(s, m) ==
    DecodeAddress(m.cache, [mode  |-> InstructionAt(s, m).mode,
                            value |-> s[OperandFrom(s, m) + 1].address],
                  Len(dictionary) + Len(m.decoded))

\* From one mark an instruction leads to the next ...
LeadsByAdd(s, m, next) ==
    LET p == OperandFrom(s, m)
        n == SizeAt(s, m)
    IN /\ InstructionAt(s, m).inst = "VCD_ADD"
       /\ next.pos = p + n
       /\ next.cache = m.cache
       /\ \A k \in 1 .. n : s[p + k] \in [data : Nat]
       /\ next.decoded = m.decoded \o [k \in 1 .. n |-> s[p + k].data]

LeadsByCopy(s, m, next) ==
    LET p       == OperandFrom(s, m)
        address == AddressAt(s, m)
    IN /\ InstructionAt(s, m).inst = "VCD_COPY"
       /\ next.pos = p + 1
       /\ s[p + 1] \in [address : Nat]
       /\ address # RESULT_ERROR
       /\ next.cache = UpdateCache(m.cache, address)
       /\ next.decoded = m.decoded \o CopyBytes(dictionary \o m.decoded, address,
                                                SizeAt(s, m))

LeadsTo(s, m, next) ==
    LET i == InstructionAt(s, m)
        n == SizeAt(s, m)
    IN /\ i \in Instruction /\ n \in Nat \ {0}
       /\ next.win = m.win /\ next.output = m.output
       /\ IF m.pending = kNoOpcode
          THEN s[m.pos + 1] = [opcode |-> <<i>> \o next.pending]
          ELSE m.pending = <<i>> /\ next.pending = kNoOpcode /\ i.size # 0
       /\ i.size = 0 => s[SizeFrom(m) + 1] = [size |-> n]
       /\ LeadsByAdd(s, m, next) \/ LeadsByCopy(s, m, next)

\* ... or the end of the window to the head of the next one.
WindowEnd(s, win) == win + s[win].length

EndsAt(s, m, next) ==
    /\ m.pos = WindowEnd(s, m.win) /\ Len(m.decoded) = s[m.win].header
    /\ m.pending = kNoOpcode
    /\ next = Start(m.pos + 1, m.output \o m.decoded)

\* A mark is within its window, and that within the delta.
Within(s, m) ==
    /\ m.win \in 1 .. Len(s)
    /\ s[m.win] \in [header : Nat, length : Nat]
    /\ WindowEnd(s, m.win) <= Len(s)
    /\ m.pos \in m.win .. WindowEnd(s, m.win)
    /\ Len(m.decoded) <= s[m.win].header

\* A window is all in delta or the one being written.
Placed(m) ==
    \/ /\ WindowEnd(Stream, m.win) <= Len(delta)
       /\ IsPrefix(m.output \o m.decoded, history)
    \/ /\ m.win = Len(delta) + 1
       /\ m.output = history
       /\ IsPrefix(m.output \o m.decoded, history \o target)

WriterInv ==
    /\ Len(marks) >= 1
    /\ marks[1] = Start(1, <<>>) /\ marks[Len(marks)] = Here
    /\ \A k \in 1 .. Len(marks) : Within(Stream, marks[k]) /\ Placed(marks[k])
    /\ \A k \in 1 .. Len(marks) - 1 : \/ EndsAt(Stream, marks[k], marks[k + 1])
                                      \/ LeadsTo(Stream, marks[k], marks[k + 1])
    /\ last_opcode_index # 0 =>
          /\ Len(marks) > 1
          /\ LET m == marks[Len(marks) - 1]
             IN /\ m.win = Len(delta) + 1 /\ m.pending = kNoOpcode
                /\ m.pos = Len(delta) + last_opcode_index
                /\ \A k \in 1 .. Len(marks) - 1 : marks[k].pos <= m.pos

\* Where the decoder is within the instruction after a mark.
AtInstruction(m, next) ==
    LET s == Stream
    IN /\ found_header
       /\ output = m.output /\ decoded = m.decoded /\ addr_cache = m.cache
       /\ m.win <= Len(delta) /\ target_window_length = s[m.win].header
       /\ parsed \in m.win .. m.pos
       /\ interleaved_bytes_expected = WindowEnd(s, m.win) - parsed
       /\ phase # "wait" =>
             section_end = SectionEnd(parsed, interleaved_bytes_expected, received)
       /\ \/ /\ phase = "wait" /\ parsed = m.pos
             /\ pending_second_instruction = m.pending
             /\ LeadsTo(s, m, next) /\ next.pos > received
          \/ /\ phase = "next" /\ pos = m.pos
             /\ pending_second_instruction = m.pending
          \/ /\ phase \in {"size", "operand"} /\ LeadsTo(s, m, next)
             /\ pending_second_instruction = next.pending
             /\ last_instruction_start = m.pos
             /\ last_pending_second_instruction = m.pending
             /\ \/ /\ phase = "size" /\ pos = SizeFrom(m)
                   /\ instruction = <<InstructionAt(s, m)>>
                \/ /\ phase = "operand" /\ pos = OperandFrom(s, m)
                   /\ instruction = <<[InstructionAt(s, m) EXCEPT !.size = SizeAt(s, m)]>>

\* ... or between two windows.
AtWindow(m) ==
    /\ ~found_header /\ decoded = <<>>
    /\ m = Start(parsed + 1, output)
    /\ \/ phase = "window"
       \/ phase = "wait" /\ parsed = received

DecoderInv ==
    /\ ~failed
    /\ received = 0 => /\ phase = "wait" /\ ~found_header /\ output = <<>>
                       /\ parsed = 0 /\ pos = 0 /\ section_end = 0
    /\ \/ \E k \in 1 .. Len(marks) - 1 : AtInstruction(marks[k], marks[k + 1])
       \/ \E k \in 1 .. Len(marks) : AtWindow(marks[k])

WindowInv == TypeOK /\ WriterInv /\ DecoderInv
=============================================================================
