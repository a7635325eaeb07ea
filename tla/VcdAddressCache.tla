--------------------------- MODULE VcdAddressCache --------------------------
(***************************************************************************)
(* The address cache of open-vcdiff: encoder and decoder keep one each and *)
(* write the address of a COPY relative to it.  A cache is a value, an     *)
(* operation an operator on values.                                        *)
(***************************************************************************)
EXTENDS Integers

CONSTANTS
    near_cache_size,    \* slots of the NEAR cache
    same_cache_size,    \* blocks of the SAME cache
    Block               \* addresses in a block of the SAME cache (256)

ASSUME CacheAssumption ==
    /\ near_cache_size \in Nat
    /\ same_cache_size \in Nat
    /\ Block \in Nat \ {0}

VCD_SELF_MODE == 0
VCD_HERE_MODE == 1
FirstNearMode == 2
FirstSameMode == FirstNearMode + near_cache_size

NearSlots == 0 .. near_cache_size - 1
SameSlots == 0 .. same_cache_size * Block - 1

Cache == [near : [NearSlots -> Nat], same : [SameSlots -> Nat], next_slot : Nat]

\* What DecodeAddress answers to an address that is not valid.
RESULT_ERROR == -1

InitialCache == [near |-> [i \in NearSlots |-> 0],
                 same |-> [i \in SameSlots |-> 0],
                 next_slot |-> 0]

UpdateCache(cache, address) ==
    [near |-> [i \in NearSlots |->
                 IF i = cache.next_slot THEN address ELSE cache.near[i]],
     same |-> [i \in SameSlots |->
                 IF i = address % (same_cache_size * Block) THEN address
                 ELSE cache.same[i]],
     next_slot |-> IF near_cache_size = 0 THEN 0
                   ELSE (cache.next_slot + 1) % near_cache_size]

\* The encodings of an address outside the SAME cache.
Codes(cache, address, here) ==
    {[mode |-> VCD_SELF_MODE, value |-> address],
     [mode |-> VCD_HERE_MODE, value |-> here - address]}
      \cup {[mode |-> FirstNearMode + i, value |-> address - cache.near[i]] :
               i \in {j \in NearSlots : cache.near[j] <= address}}

\* EncodeAddress picks SAME when it can, else the smallest value, of those the
\* first mode.  (A set with one element.)
EncodeAddress(cache, address, here) ==
    LET position == address % (same_cache_size * Block)
        codes    == Codes(cache, address, here)
    IN IF same_cache_size > 0 /\ cache.same[position] = address
       THEN {[mode |-> FirstSameMode + position \div Block,
              value |-> position % Block]}
       ELSE {c \in codes : \A d \in codes : c.value < d.value
                              \/ (c.value = d.value /\ c.mode <= d.mode)}

\* The address a mode and a value stand for, valid or not.
DecodedAddress(cache, code, here) ==
    IF code.mode >= FirstSameMode
    THEN cache.same[(code.mode - FirstSameMode) * Block + code.value]
    ELSE IF code.mode = VCD_SELF_MODE THEN code.value
    ELSE IF code.mode = VCD_HERE_MODE THEN here - code.value
    ELSE cache.near[code.mode - FirstNearMode] + code.value

\* Mutant: the position in the target itself would do.
IsDecodedAddressValidOrHere(address, here) == address \in 1 .. here

IsDecodedAddressValid(address, here) == address \in 0 .. here - 1

DecodeAddress(cache, code, here) ==
    LET address == DecodedAddress(cache, code, here)
    IN IF IsDecodedAddressValid(address, here) THEN address ELSE RESULT_ERROR
=============================================================================
