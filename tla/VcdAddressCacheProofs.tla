------------------------ MODULE VcdAddressCacheProofs -----------------------
(***************************************************************************)
(* Proofs about VcdAddressCache, for caches of any size.                   *)
(***************************************************************************)
EXTENDS VcdAddressCache, TLAPS

LEMMA InitialCacheType == InitialCache \in Cache
BY DEF InitialCache, Cache

\* A cache stays a cache.
LEMMA UpdateCacheType ==
    ASSUME NEW cache \in Cache, NEW address \in Nat
    PROVE  UpdateCache(cache, address) \in Cache
<1>1. near_cache_size # 0 => (cache.next_slot + 1) % near_cache_size \in Nat
  BY CacheAssumption DEF Cache
<1> QED  BY <1>1 DEF UpdateCache, Cache

\* Division by the size of a block.
LEMMA BlockOf ==
    ASSUME NEW p \in Nat
    PROVE  /\ p \div Block \in Nat /\ p % Block \in 0 .. Block - 1
           /\ (p \div Block) * Block + (p % Block) = p
<1> DEFINE B == Block
<1>1. B \in Nat /\ B > 0  BY CacheAssumption
<1> HIDE DEF B
<1>2. p % B \in 0 .. B - 1  BY <1>1
<1>3. p = B * (p \div B) + (p % B)  BY <1>1, SMT
<1>4. p \div B \in Nat  BY <1>1, SMT
<1>5. B * (p \div B) = (p \div B) * B  BY <1>4, <1>1, SMT
<1> QED  BY <1>1, <1>2, <1>3, <1>4, <1>5 DEF B

\* A SAME position is in a block of the SAME cache.
LEMMA SameBlockExists ==
    ASSUME NEW p \in SameSlots PROVE p \div Block < same_cache_size
<1>1. p \in Nat /\ p < same_cache_size * Block
  BY CacheAssumption DEF SameSlots
<1>2. SUFFICES ASSUME p \div Block >= same_cache_size PROVE FALSE
  BY <1>1, BlockOf, CacheAssumption
<1>3. (p \div Block) * Block >= same_cache_size * Block
  BY <1>1, <1>2, BlockOf, CacheAssumption
<1> QED  BY <1>1, <1>3, BlockOf, CacheAssumption

-----------------------------------------------------------------------------

\* The decoder gets back every address the encoder writes, in whatever mode the
\* encoder chose, when both caches are the same: for all sizes of both caches,
\* all contents and all positions.
THEOREM RoundTrip ==
    ASSUME NEW cache \in Cache, NEW here \in Nat, NEW address \in 0 .. here - 1,
           NEW code \in EncodeAddress(cache, address, here)
    PROVE  DecodeAddress(cache, code, here) = address
<1> DEFINE n == same_cache_size * Block
           position == address % n
<1>1. address \in Nat /\ address < here  OBVIOUS
<1>2. DecodedAddress(cache, code, here) = address
  <2>1. CASE same_cache_size > 0 /\ cache.same[position] = address
    <3>1. n \in Nat /\ n > 0  BY <2>1, CacheAssumption
    <3>2. position \in 0 .. n - 1  BY <1>1, <3>1
    <3>3. position \in SameSlots /\ position \in Nat  BY <3>2 DEF SameSlots
    <3>4. code = [mode |-> FirstSameMode + position \div Block,
                  value |-> position % Block]
      BY <2>1 DEF EncodeAddress
    <3>5. position \div Block \in Nat  BY <3>3, BlockOf
    <3>6. code.mode >= FirstSameMode /\ code.mode - FirstSameMode = position \div Block
      BY <3>4, <3>5, CacheAssumption DEF FirstSameMode, FirstNearMode
    <3>7. (code.mode - FirstSameMode) * Block + code.value = position
      BY <3>3, <3>4, <3>6, BlockOf
    <3> QED  BY <2>1, <3>6, <3>7 DEF DecodedAddress
  <2>2. CASE ~(same_cache_size > 0 /\ cache.same[position] = address)
    <3>1. code \in Codes(cache, address, here)
      BY <2>2 DEF EncodeAddress
    <3>2. CASE code = [mode |-> VCD_SELF_MODE, value |-> address]
      BY <3>2, CacheAssumption
         DEF DecodedAddress, VCD_SELF_MODE, FirstSameMode, FirstNearMode
    <3>3. CASE code = [mode |-> VCD_HERE_MODE, value |-> here - address]
      BY <3>3, <1>1, CacheAssumption
         DEF DecodedAddress, VCD_SELF_MODE, VCD_HERE_MODE, FirstSameMode,
             FirstNearMode
    <3>4. ASSUME NEW i \in NearSlots,
                 code = [mode |-> FirstNearMode + i,
                         value |-> address - cache.near[i]]
          PROVE  DecodedAddress(cache, code, here) = address
      <4>1. cache.near[i] \in Nat  BY DEF Cache
      <4>2. i \in Nat /\ i < near_cache_size  BY CacheAssumption DEF NearSlots
      <4> QED
        BY <3>4, <1>1, <4>1, <4>2, CacheAssumption
           DEF DecodedAddress, VCD_SELF_MODE, VCD_HERE_MODE, FirstSameMode,
               FirstNearMode
    <3> QED  BY <3>1, <3>2, <3>3, <3>4 DEF Codes
  <2> QED  BY <2>1, <2>2
<1> QED  BY <1>1, <1>2 DEF DecodeAddress, IsDecodedAddressValid

\* What the encoder writes is what the format has room for: the mode is one of
\* the cache's (so of the code table's), a SAME value fits in its block (so in
\* the byte it is written as), no value is negative (the decoder takes those
\* for error codes).
THEOREM CodeFits ==
    ASSUME NEW cache \in Cache, NEW here \in Nat, NEW address \in 0 .. here - 1,
           NEW code \in EncodeAddress(cache, address, here)
    PROVE  /\ code.mode \in 0 .. FirstSameMode + same_cache_size - 1
           /\ code.value \in Nat
           /\ code.mode >= FirstSameMode => code.value < Block
<1> DEFINE n == same_cache_size * Block
           position == address % n
<1>1. address \in Nat /\ address < here  OBVIOUS
<1>2. CASE same_cache_size > 0 /\ cache.same[position] = address
  <2>1. n \in Nat /\ n > 0  BY <1>2, CacheAssumption
  <2>2. position \in 0 .. n - 1  BY <1>1, <2>1
  <2>3. position \in SameSlots /\ position \in Nat  BY <2>2 DEF SameSlots
  <2>4. code = [mode |-> FirstSameMode + position \div Block,
                value |-> position % Block]
    BY <1>2 DEF EncodeAddress
  <2>5. position \div Block \in Nat /\ position % Block \in 0 .. Block - 1
    BY <2>3, BlockOf
  <2>6. position \div Block < same_cache_size  BY <2>3, SameBlockExists
  <2> QED
    BY <2>4, <2>5, <2>6, CacheAssumption DEF FirstSameMode, FirstNearMode
<1>3. CASE ~(same_cache_size > 0 /\ cache.same[position] = address)
  <2>1. code \in Codes(cache, address, here)  BY <1>3 DEF EncodeAddress
  <2>2. CASE code = [mode |-> VCD_SELF_MODE, value |-> address]
    BY <2>2, <1>1, CacheAssumption DEF VCD_SELF_MODE, FirstSameMode, FirstNearMode
  <2>3. CASE code = [mode |-> VCD_HERE_MODE, value |-> here - address]
    BY <2>3, <1>1, CacheAssumption DEF VCD_HERE_MODE, FirstSameMode, FirstNearMode
  <2>4. ASSUME NEW i \in NearSlots, cache.near[i] <= address,
               code = [mode |-> FirstNearMode + i,
                       value |-> address - cache.near[i]]
        PROVE  /\ code.mode \in 0 .. FirstSameMode - 1
               /\ code.value \in Nat
    <3>1. cache.near[i] \in Nat  BY DEF Cache
    <3>2. i \in Nat /\ i < near_cache_size  BY CacheAssumption DEF NearSlots
    <3> QED
      BY <2>4, <1>1, <3>1, <3>2, CacheAssumption DEF FirstSameMode, FirstNearMode
  <2>5. FirstSameMode \in Nat  BY CacheAssumption DEF FirstSameMode, FirstNearMode
  <2> QED  BY <2>1, <2>2, <2>3, <2>4, <2>5, CacheAssumption DEF Codes
<1> QED  BY <1>2, <1>3
=============================================================================
