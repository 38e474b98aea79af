--------------------------- MODULE GcmCoreProofs ----------------------------
(***************************************************************************)
(* Proofs about the core, for every number of rounds, every FIFO of at     *)
(* least NR + 2 entries, every counter width and messages of every length: *)
(* first the counter-mode path alone, under every driver of CtrSpec; then  *)
(* the whole core, whose invariant of GcmCoreInv is inductive, and what    *)
(* follows from it; last the latencies of CoreTiming.                      *)
(***************************************************************************)
EXTENDS GcmCoreInv, CoreTiming, TLAPS

(* THE COUNTER-MODE PATH                                                   *)
allVars == <<keyVars, ctrVars>>
Token == [type : DataType, val : Cipher]
KeyNames == Keys \cup {ZeroKey}

-----------------------------------------------------------------------------
(* Small facts about the data.                                             *)

LEMMA BlockParts ==
    ASSUME NEW b \in Block
    PROVE  b[1] \in IVs \cup {ZeroIV} /\ b[2] \in 0..CtrMax
BY DEF Block

LEMMA BubbleIsToken == Bubble \in Token /\ Bubble.type = "none"
BY GcmAssumption DEF Bubble, Token, DataType, ZeroCipher, Cipher, ZeroBlock, Block

(* Adding a round key keeps a token's type and block.                      *)
LEMMA AddRoundKeyKeeps ==
    ASSUME NEW t \in Token, NEW k \in KeyNames
    PROVE  /\ AddRoundKey(t, k) \in Token
           /\ AddRoundKey(t, k).type = t.type
           /\ t.type # "none" => AddRoundKey(t, k).val.blk = t.val.blk
<1>1. CASE t.type = "none"
  BY <1>1, BubbleIsToken DEF AddRoundKey
<1>2. CASE t.type # "none"
  BY <1>2 DEF AddRoundKey, Token, Cipher, KeyNames
<1> QED BY <1>1, <1>2

LEMMA CounterBlockInBlock ==
    ASSUME CtrTypeOK
    PROVE  AES_data_in \in Block
BY GcmAssumption DEF CtrTypeOK, AES_data_in, counter_block, ZeroBlock, Block

-----------------------------------------------------------------------------
(* Type correctness.                                                       *)

LEMMA TypeInit == KeyInit /\ CtrInit => CtrTypeOK
<1> SUFFICES ASSUME KeyInit, CtrInit PROVE CtrTypeOK
  OBVIOUS
<1>1. pipe \in [Stages -> Token]
  BY BubbleIsToken DEF CtrInit
<1>2. J0 \in Block
  BY GcmAssumption DEF CtrInit, Block, ZeroBlock
<1>3. round_index \in 0..Derived - 1 /\ round_key \in [0..NR -> Keys \cup {ZeroKey}]
  BY GcmAssumption DEF KeyInit, Derived
<1>4. DOMAIN memory_array = 0..DEPTH - 1
  BY DEF CtrInit, CtrTypeOK
<1>5. expansion_finish \in BOOLEAN /\ gen_J0 \in BOOLEAN /\ IV_loaded \in BOOLEAN
      /\ data_valid \in BOOLEAN
  BY DEF KeyInit, CtrInit
<1>6. /\ CTR_counter \in 0..CtrMax /\ fetched \in 0..CtrMax
      /\ w_ptr \in 0..DEPTH - 1 /\ r_ptr \in 0..DEPTH - 1
      /\ IV_out \in IVs \cup {ZeroIV} /\ data_type_in \in DataType
  BY GcmAssumption DEF CtrInit, DataType
<1> QED BY <1>1, <1>2, <1>3, <1>4, <1>5, <1>6 DEF CtrTypeOK, Token

LEMMA TypeReset == CtrTypeOK /\ KeyReset /\ CtrReset => CtrTypeOK'
<1> SUFFICES ASSUME CtrTypeOK, KeyReset, CtrReset PROVE CtrTypeOK'
  OBVIOUS
<1>1. pipe' \in [Stages -> Token]
  BY BubbleIsToken DEF CtrReset
<1>2. J0' \in Block
  BY GcmAssumption DEF CtrReset, Block, ZeroBlock
<1>3. round_index' \in 0..Derived - 1 /\ round_key' \in [0..NR -> Keys \cup {ZeroKey}]
  BY GcmAssumption DEF KeyReset, Derived
<1>4. DOMAIN memory_array' = 0..DEPTH - 1
  BY DEF CtrReset, CtrTypeOK
<1>5. expansion_finish' \in BOOLEAN /\ gen_J0' \in BOOLEAN /\ IV_loaded' \in BOOLEAN
      /\ data_valid' \in BOOLEAN
  BY DEF KeyReset, CtrReset
<1>6. /\ CTR_counter' \in 0..CtrMax /\ fetched' \in 0..CtrMax
      /\ w_ptr' \in 0..DEPTH - 1 /\ r_ptr' \in 0..DEPTH - 1
      /\ IV_out' \in IVs \cup {ZeroIV} /\ data_type_in' \in DataType
  BY GcmAssumption DEF CtrReset, DataType
<1> QED BY <1>1, <1>2, <1>3, <1>4, <1>5, <1>6 DEF CtrTypeOK, Token

(* The key schedule moves within the registers it has.                     *)
LEMMA KeyStepType ==
    ASSUME CtrTypeOK, NEW in \in DriverInput, KeyStep(in.expansion_en, in.key)
    PROVE  /\ round_index' \in 0..Derived - 1
           /\ expansion_finish' \in BOOLEAN
           /\ round_key' \in [0..NR -> KeyNames]
<1>1. round_index \in 0..Derived - 1 /\ expansion_finish \in BOOLEAN
      /\ round_key \in [0..NR -> KeyNames]
  BY DEF CtrTypeOK, KeyNames
<1>2. round_index' \in 0..Derived - 1
  BY <1>1, GcmAssumption DEF KeyStep, Derived
<1>3. expansion_finish' \in BOOLEAN
  BY <1>1 DEF KeyStep, DriverInput
<1>4. NextKey(round_index, in.key) \in KeyNames
  BY <1>1, GcmAssumption DEF NextKey, KeyNames, Derived, DriverInput
<1>5. round_key' \in [0..NR -> KeyNames]
  BY <1>1, <1>4 DEF KeyStep, KeyNames, DriverInput
<1> QED BY <1>2, <1>3, <1>5

LEMMA PipeStepType ==
    ASSUME CtrTypeOK, PipeStep
    PROVE  pipe' \in [Stages -> Token]
<1>1. pipe \in [Stages -> Token] /\ round_key \in [0..NR -> KeyNames] /\ NR \in Nat
      /\ data_type_in \in DataType
  BY GcmAssumption DEF CtrTypeOK, Token, KeyNames
<1>2. ASSUME NEW s \in Stages, s > 0
      PROVE  AddRoundKey(pipe[s - 1], round_key[s - 1]) \in Token
  <2>1. s - 1 \in Stages /\ s - 1 \in 0..NR
    BY <1>1, <1>2 DEF Stages
  <2> QED BY <1>1, <2>1, AddRoundKeyKeeps
<1>3. [type |-> data_type_in, val |-> [blk |-> AES_data_in, keys |-> {}]] \in Token
  BY <1>1, CounterBlockInBlock DEF Token, Cipher
<1> QED BY <1>2, <1>3, BubbleIsToken DEF PipeStep

(* The registers around the pipeline.                                      *)
LEMMA CounterStepType ==
    ASSUME CtrTypeOK, NEW in \in DriverInput,
           CounterStep(in.load_data, in.load_IV, in.iv, in.clear)
    PROVE  /\ CTR_counter' \in 0..CtrMax
           /\ IV_out' \in IVs \cup {ZeroIV} /\ IV_loaded' \in BOOLEAN /\ J0' \in Block
<1>1. counter_block \in Block /\ ZeroBlock \in Block
  BY GcmAssumption DEF CtrTypeOK, counter_block, Block, ZeroBlock
<1>2. CASE in.clear
  <2>1. CTR_counter' = 0 /\ IV_out' = ZeroIV /\ J0' = ZeroBlock
    BY <1>2 DEF CounterStep
  <2>2. IV_loaded' \in BOOLEAN
    BY <1>2 DEF CounterStep
  <2> QED BY <1>1, <2>1, <2>2, GcmAssumption
<1>3. CASE ~in.clear
  <2>1. IV_loaded' \in BOOLEAN
    <3>1. IV_loaded' = (IV_loaded \/ in.load_IV)
      BY <1>3 DEF CounterStep
    <3> QED BY <3>1
  <2>2. IV_out' \in IVs \cup {ZeroIV} /\ J0' \in Block
    BY <1>1, <1>3 DEF CounterStep, CtrTypeOK, DriverInput
  <2>3. CTR_counter' \in 0..CtrMax
    BY <1>3, GcmAssumption DEF CounterStep, CtrTypeOK, CTR_counter_overflow
  <2> QED BY <2>1, <2>2, <2>3
<1> QED BY <1>2, <1>3

LEMMA FifoStepType ==
    ASSUME CtrTypeOK, NEW in \in DriverInput, NEW entry, FifoStep(in.load_data, entry)
    PROVE  /\ w_ptr' \in 0..DEPTH - 1 /\ r_ptr' \in 0..DEPTH - 1
           /\ DOMAIN memory_array' = 0..DEPTH - 1
BY GcmAssumption DEF FifoStep, CtrTypeOK, Succ

-----------------------------------------------------------------------------
(* Slots of the FIFO.                                                      *)

LEMMA ForwardSlot ==
    ASSUME NEW p \in 0..DEPTH - 1, NEW k \in 0..DEPTH
    PROVE  Forward(p, k) \in 0..DEPTH - 1
BY GcmAssumption DEF Forward

LEMMA ForwardSucc ==
    ASSUME NEW p \in 0..DEPTH - 1, NEW k \in 1..DEPTH
    PROVE  Succ(p) \in 0..DEPTH - 1 /\ Forward(Succ(p), k - 1) = Forward(p, k)
BY GcmAssumption DEF Forward, Succ

LEMMA SuccForward ==
    ASSUME NEW p \in 0..DEPTH - 1, NEW k \in 0..DEPTH - 1
    PROVE  Succ(Forward(p, k)) = Forward(p, k + 1)
BY GcmAssumption DEF Forward, Succ

(* Offsets less than a turn apart are different slots.                     *)
LEMMA ForwardDistinct ==
    ASSUME NEW p \in 0..DEPTH - 1, NEW j \in 0..DEPTH, NEW k \in 0..DEPTH,
           j < k, k - j < DEPTH
    PROVE  Forward(p, j) # Forward(p, k)
BY GcmAssumption DEF Forward

-----------------------------------------------------------------------------
(* What the invariant says of the next word.                               *)

LEMMA Typed ==
    ASSUME CtrInv
    PROVE  /\ CTR_counter \in Nat /\ fetched \in Nat /\ fetched <= CTR_counter
           /\ CTR_counter <= CtrMax /\ CtrMax \in Nat /\ NR \in Nat
           /\ DEPTH \in Nat /\ DEPTH >= NR + 2
           /\ w_ptr \in 0..DEPTH - 1 /\ r_ptr \in 0..DEPTH - 1
           /\ pipe \in [Stages -> Token] /\ CtrTypeOK
BY GcmAssumption DEF CtrInv, CtrTypeOK, FifoInStep, Token

LEMMA NumberIsNat ==
    ASSUME CtrTypeOK, NEW s \in Stages
    PROVE  Number(s) \in Nat
<1>1. pipe[s].val.blk \in Block
  BY DEF CtrTypeOK, Cipher
<1> QED BY <1>1, BlockParts, GcmAssumption DEF Number, BlockIndex

(* The block in register NR is the one whose word is at r_ptr.             *)
LEMMA NextFetched ==
    ASSUME CtrInv, Carries(NR)
    PROVE  Number(NR) = fetched + 1 /\ fetched + 1 <= CTR_counter
<1>1. NR \in 0..NR /\ NR \in Stages /\ Number(NR) \in Nat
  BY Typed, NumberIsNat DEF Stages
<1>2. fetched < Number(NR) /\ Number(NR) <= CTR_counter
      /\ (data_type_in = "CTR" => Number(NR) < CTR_counter)
  BY <1>1 DEF CtrInv, BlocksLoaded
<1>3. fetched + 1 \in fetched + 1 .. CTR_counter
  BY <1>1, <1>2, Typed
<1>4. CASE data_type_in = "CTR" /\ fetched + 1 = CTR_counter
  BY <1>1, <1>2, <1>4, Typed
<1>5. CASE \E s \in 0..NR : Carries(s) /\ Number(s) = fetched + 1
  <2>1. PICK s \in 0..NR : Carries(s) /\ Number(s) = fetched + 1
    BY <1>5
  <2>2. CASE s = NR
    BY <2>1, <2>2, <1>3, Typed
  <2>3. CASE s < NR
    <3>1. s \in Stages
      BY <2>1, Typed DEF Stages
    <3>2. BlocksInOrder
      BY DEF CtrInv
    <3>3. Number(NR) < Number(s)
      BY <1>1, <2>1, <2>3, <3>1, <3>2 DEF BlocksInOrder
    <3> QED BY <1>1, <1>2, <2>1, <3>3, Typed
  <2> QED BY <2>1, <2>2, <2>3, Typed
<1> QED BY <1>3, <1>4, <1>5 DEF CtrInv, NoBlockMissing

(* At most NR + 2 words wait in the FIFO, and so many only in a clock in   *)
(* which one is read: the reason why it needs no full flag.                *)
LEMMA Occupancy ==
    ASSUME CtrInv
    PROVE  /\ CTR_counter - fetched <= NR + 2
           /\ ~Carries(NR) => CTR_counter - fetched <= NR + 1
<1>1. CASE fetched = CTR_counter
  BY <1>1, Typed
<1>2. CASE fetched < CTR_counter
  <2>1. fetched + 1 \in fetched + 1 .. CTR_counter
    BY <1>2, Typed
  <2>2. CASE data_type_in = "CTR" /\ fetched + 1 = CTR_counter
    BY <2>2, Typed
  <2>3. CASE \E s \in 0..NR : Carries(s) /\ Number(s) = fetched + 1
    <3>1. PICK s \in 0..NR : Carries(s) /\ Number(s) = fetched + 1
      BY <2>3
    <3>2. CTR_counter - Number(s) <= s + 1
      BY <3>1 DEF CtrInv, BlocksLoaded
    <3>3. CASE s = NR
      BY <3>1, <3>2, <3>3, Typed
    <3>4. CASE s < NR
      BY <3>1, <3>2, <3>4, Typed
    <3> QED BY <3>1, <3>3, <3>4, Typed
  <2> QED BY <2>1, <2>2, <2>3 DEF CtrInv, NoBlockMissing
<1> QED BY <1>1, <1>2, Typed

LEMMA NothingPending ==
    ASSUME CtrInv, ~Pending
    PROVE  fetched = CTR_counter /\ w_ptr = r_ptr
<1>1. fetched = CTR_counter
  <2>1. SUFFICES ASSUME fetched < CTR_counter PROVE FALSE
    BY Typed
  <2>2. fetched + 1 \in fetched + 1 .. CTR_counter
    BY <2>1, Typed
  <2> QED BY <2>2 DEF CtrInv, NoBlockMissing, Pending, Carries
<1> QED BY <1>1, Typed, GcmAssumption DEF CtrInv, FifoInStep, Forward

-----------------------------------------------------------------------------
(* One clock edge.  Everything moves one register on.                      *)

LEMMA PipeMoves ==
    ASSUME CtrInv, PipeStep
    PROVE  /\ \A s \in 1..NR + 1 : /\ pipe'[s].type = pipe[s - 1].type
                                   /\ pipe[s - 1].type # "none" =>
                                        pipe'[s].val.blk = pipe[s - 1].val.blk
           /\ pipe'[0].type = "CTR" <=> data_type_in = "CTR"
           /\ data_type_in = "CTR" => pipe'[0].val.blk = counter_block
<1>1. ASSUME NEW s \in 1..NR + 1
      PROVE  /\ pipe'[s].type = pipe[s - 1].type
             /\ pipe[s - 1].type # "none" => pipe'[s].val.blk = pipe[s - 1].val.blk
  <2>1. s - 1 \in Stages /\ s - 1 \in 0..NR /\ s \in Stages /\ s > 0
    BY <1>1, Typed DEF Stages
  <2>2. pipe[s - 1] \in Token /\ round_key[s - 1] \in KeyNames
    BY <2>1, Typed DEF CtrTypeOK, KeyNames
  <2>3. pipe'[s] = AddRoundKey(pipe[s - 1], round_key[s - 1])
    BY <2>1 DEF PipeStep
  <2> QED BY <2>2, <2>3, AddRoundKeyKeeps
<1>2. 0 \in Stages /\ ~(0 > 0)
  BY Typed DEF Stages
<1>3. CASE data_type_in = "none"
  <2>1. pipe'[0] = Bubble
    BY <1>2, <1>3 DEF PipeStep
  <2> QED BY <1>1, <1>3, <2>1, BubbleIsToken
<1>4. CASE data_type_in # "none"
  <2>1. pipe'[0] = [type |-> data_type_in, val |-> [blk |-> AES_data_in, keys |-> {}]]
    BY <1>2, <1>4 DEF PipeStep
  <2>2. pipe'[0].type = data_type_in /\ pipe'[0].val.blk = AES_data_in
    BY <2>1
  <2>3. data_type_in = "CTR" => AES_data_in = counter_block
    BY DEF AES_data_in
  <2> QED BY <1>1, <1>4, <2>2, <2>3
<1> QED BY <1>3, <1>4

(* So do the block numbers, and the newest block is number CTR_counter.    *)
LEMMA NumbersMove ==
    ASSUME CtrInv, PipeStep
    PROVE  /\ \A s \in 1..NR : /\ Carries(s)' <=> Carries(s - 1)
                               /\ Carries(s - 1) =>
                                    /\ Number(s)' = Number(s - 1)
                                    /\ pipe'[s].val.blk[1] = pipe[s - 1].val.blk[1]
           /\ Carries(0)' <=> data_type_in = "CTR"
           /\ data_type_in = "CTR" => /\ Number(0)' = CTR_counter
                                      /\ pipe'[0].val.blk[1] = IV_out
<1>1. \A s \in 1..NR : s \in 1..NR + 1
  BY Typed
<1>2. data_type_in = "CTR" => BlockIndex(counter_block[2]) = CTR_counter
  BY Typed DEF counter_block, BlockIndex, CtrInv, BlocksLoaded
<1> QED BY <1>1, <1>2, PipeMoves DEF Carries, Number, counter_block

(* The counters of the message: loaded, fetched.                           *)
Edge(in) ==
    /\ in.load_data => ~CTR_counter_overflow /\ ~in.clear /\ ~in.load_IV
    /\ in.load_IV => CTR_counter = 0
    /\ in.clear => ~Pending
    /\ CounterStep(in.load_data, in.load_IV, in.iv, in.clear)
    /\ PipeStep
    /\ FifoStep(in.load_data, memory_array'[w_ptr])
    /\ in.load_data => memory_array'[w_ptr].word = DataWord(IV_out, CTR_counter + 1)
    /\ data_type_in' = "CTR" <=> in.load_data
    /\ fetched' = IF in.clear THEN 0 ELSE IF data_req THEN fetched + 1 ELSE fetched

LEMMA EdgeOfCtrEdge ==
    ASSUME CtrInv,
           NEW in \in DriverInput, CtrEdge(in)
    PROVE  Edge(in)
<1> DEFINE entry == [last |-> in.last, word |-> DataWord(IV_out, CTR_counter + 1)]
<1>1. FifoStep(in.load_data, entry) /\ TypeStep(in.load_key, in.load_data, in.last)
  BY DEF CtrEdge, CtrStep
<1>2. CASE in.load_data
  <2>1. memory_array'[w_ptr] = entry
    BY <1>1, <1>2, Typed DEF FifoStep, CtrTypeOK
  <2>2. ~in.load_key
    BY <1>2 DEF CtrEdge
  <2>3. data_type_in' = "CTR"
    BY <1>1, <1>2, <2>2 DEF TypeStep
  <2>4. FifoStep(in.load_data, memory_array'[w_ptr])
    BY <1>1, <2>1
  <2>5. memory_array'[w_ptr].word = DataWord(IV_out, CTR_counter + 1)
    BY <2>1
  <2> QED BY <1>2, <2>3, <2>4, <2>5 DEF CtrEdge, CtrStep, Edge
<1>3. CASE ~in.load_data
  <2>1. FifoStep(in.load_data, memory_array'[w_ptr])
    BY <1>1, <1>3 DEF FifoStep
  <2>2. data_type_in' # "CTR"
    BY <1>1, <1>3 DEF TypeStep
  <2> QED BY <1>3, <2>1, <2>2 DEF CtrEdge, CtrStep, Edge
<1> QED BY <1>2, <1>3

LEMMA CountersMove ==
    ASSUME CtrInv, NEW in \in DriverInput, Edge(in)
    PROVE  /\ in.clear => /\ CTR_counter' = 0 /\ fetched' = 0
                          /\ ~in.load_data /\ fetched = CTR_counter
           /\ ~in.clear => /\ CTR_counter' = IF in.load_data THEN CTR_counter + 1 ELSE CTR_counter
                           /\ fetched' = IF Carries(NR) THEN fetched + 1 ELSE fetched
                           /\ fetched # CTR_counter \/ in.load_data => IV_out' = IV_out
           /\ CTR_counter' \in Nat /\ fetched' \in Nat /\ fetched' <= CTR_counter'
           /\ CTR_counter' <= CtrMax
<1>1. CASE in.clear
  <2>1. ~Pending /\ ~in.load_data
    BY <1>1 DEF Edge
  <2>2. CTR_counter' = 0 /\ fetched' = 0
    BY <1>1 DEF Edge, CounterStep
  <2> QED BY <1>1, <2>1, <2>2, NothingPending, Typed
<1>2. CASE ~in.clear
  <2>1. CTR_counter' = IF in.load_data THEN CTR_counter + 1 ELSE CTR_counter
    BY <1>2 DEF Edge, CounterStep
  <2>2. fetched' = IF Carries(NR) THEN fetched + 1 ELSE fetched
    BY <1>2 DEF Edge, data_req, Carries
  <2>3. fetched # CTR_counter \/ in.load_data => IV_out' = IV_out
    BY <1>2, Typed DEF Edge, CounterStep
  <2>4. in.load_data => CTR_counter # CtrMax
    BY DEF Edge, CTR_counter_overflow
  <2> QED BY <1>2, <2>1, <2>2, <2>3, <2>4, NextFetched, Typed
<1> QED BY <1>1, <1>2

-----------------------------------------------------------------------------
(* The invariant after a clock edge, part by part.                         *)

(* Where a block in a register was before the edge.                        *)
LEMMA CameFrom ==
    ASSUME CtrInv, NEW in \in DriverInput, Edge(in),
           NEW s \in 0..NR, Carries(s)'
    PROVE  /\ ~in.clear /\ Number(s)' \in Nat /\ pipe'[s].val.blk[1] = IV_out
           /\ fetched < Number(s)' /\ Number(s)' <= CTR_counter
           /\ CTR_counter - Number(s)' <= s
           /\ Carries(NR) => fetched + 1 < Number(s)'
           /\ \/ s = 0 /\ data_type_in = "CTR" /\ Number(s)' = CTR_counter
              \/ s > 0 /\ s - 1 \in 0..NR /\ Carries(s - 1) /\ Number(s)' = Number(s - 1)
<1> USE DEF Edge
<1>1. CASE s = 0
  <2>1. data_type_in = "CTR" /\ Number(s)' = CTR_counter /\ pipe'[s].val.blk[1] = IV_out
    BY <1>1, NumbersMove
  <2>2. ~in.clear
    BY <2>1 DEF Pending
  <2>3. fetched < CTR_counter
    BY <2>1 DEF CtrInv, BlocksLoaded
  <2>4. Carries(NR) => fetched + 1 < CTR_counter
    <3>1. SUFFICES ASSUME Carries(NR) PROVE fetched + 1 < CTR_counter
      OBVIOUS
    <3>2. NR \in 0..NR
      BY Typed
    <3>3. Number(NR) < CTR_counter
      BY <2>1, <3>1, <3>2 DEF CtrInv, BlocksLoaded
    <3> QED BY <3>1, <3>3, NextFetched
  <2> QED BY <1>1, <2>1, <2>2, <2>3, <2>4, Typed
<1>2. CASE s > 0
  <2>1. s \in 1..NR /\ s - 1 \in 0..NR /\ s - 1 \in Stages /\ NR \in 0..NR
    BY <1>2, Typed DEF Stages
  <2>2. /\ Carries(s - 1) /\ Number(s)' = Number(s - 1)
        /\ pipe'[s].val.blk[1] = pipe[s - 1].val.blk[1]
    BY <2>1, NumbersMove
  <2>3. ~in.clear
    BY <2>1, <2>2 DEF Pending, Carries
  <2>4. /\ pipe[s - 1].val.blk[1] = IV_out
        /\ fetched < Number(s - 1) /\ Number(s - 1) <= CTR_counter
        /\ CTR_counter - Number(s - 1) <= s - 1 + 1
    BY <2>1, <2>2 DEF CtrInv, BlocksLoaded
  <2>5. Number(s - 1) \in Nat
    BY <2>1, NumberIsNat, Typed
  <2>6. Carries(NR) => fetched + 1 < Number(s - 1)
    <3>1. SUFFICES ASSUME Carries(NR) PROVE fetched + 1 < Number(s - 1)
      OBVIOUS
    <3>2. Number(NR) < Number(s - 1)
      BY <2>1, <2>2, <3>1, Typed DEF CtrInv, BlocksInOrder, Stages
    <3> QED BY <3>1, <3>2, NextFetched
  <2> QED BY <1>2, <2>1, <2>2, <2>3, <2>4, <2>5, <2>6, Typed
<1> QED BY <1>1, <1>2, Typed

LEMMA LoadedAfter ==
    ASSUME CtrInv, NEW in \in DriverInput, Edge(in)
    PROVE  BlocksLoaded'
<1>1. data_type_in' = "CTR" => fetched' < CTR_counter'
  <2>1. SUFFICES ASSUME in.load_data PROVE fetched' < CTR_counter'
    BY DEF Edge
  <2>2. ~in.clear
    BY <2>1 DEF Edge
  <2>3. /\ CTR_counter' = CTR_counter + 1
        /\ fetched' = IF Carries(NR) THEN fetched + 1 ELSE fetched
    BY <2>1, <2>2, CountersMove
  <2> QED BY <2>3, NextFetched, Typed
<1>2. ASSUME NEW s \in 0..NR, Carries(s)'
      PROVE  /\ pipe'[s].val.blk[1] = IV_out'
             /\ fetched' < Number(s)' /\ Number(s)' <= CTR_counter'
             /\ data_type_in' = "CTR" => Number(s)' < CTR_counter'
             /\ CTR_counter' - Number(s)' <= s + 1
  <2>1. /\ ~in.clear /\ Number(s)' \in Nat /\ pipe'[s].val.blk[1] = IV_out
        /\ fetched < Number(s)' /\ Number(s)' <= CTR_counter
        /\ CTR_counter - Number(s)' <= s
        /\ Carries(NR) => fetched + 1 < Number(s)'
    BY <1>2, CameFrom
  <2>2. /\ CTR_counter' = IF in.load_data THEN CTR_counter + 1 ELSE CTR_counter
        /\ fetched' = IF Carries(NR) THEN fetched + 1 ELSE fetched
        /\ IV_out' = IV_out
    BY <2>1, CountersMove, Typed
  <2>3. data_type_in' = "CTR" => in.load_data
    BY DEF Edge
  <2> QED BY <2>1, <2>2, <2>3, Typed
<1> QED BY <1>1, <1>2 DEF BlocksLoaded

LEMMA OrderAfter ==
    ASSUME CtrInv, NEW in \in DriverInput, Edge(in)
    PROVE  BlocksInOrder'
<1> SUFFICES ASSUME NEW s \in Stages, NEW t \in Stages, s < t, Carries(s)', Carries(t)'
             PROVE  Number(t)' < Number(s)'
  BY DEF BlocksInOrder
<1>0. s \in 0..NR
  BY Typed DEF Stages
<1>1. CASE t = NR + 1
  <2>1. t \in 1..NR + 1 /\ t - 1 = NR
    BY <1>1, Typed
  <2>2. Carries(NR) /\ Number(t)' = Number(NR)
    <3>1. /\ pipe'[t].type = pipe[t - 1].type
          /\ pipe[t - 1].type # "none" => pipe'[t].val.blk = pipe[t - 1].val.blk
      BY <2>1, PipeMoves DEF Edge
    <3> QED BY <2>1, <3>1 DEF Carries, Number
  <2>3. fetched + 1 < Number(s)'
    BY <1>0, <2>2, CameFrom
  <2> QED BY <2>2, <2>3, NextFetched
<1>2. CASE t \in 0..NR
  <2>1. t > 0 /\ t - 1 \in 0..NR /\ Carries(t - 1) /\ Number(t)' = Number(t - 1)
    BY <1>0, <1>2, CameFrom, Typed
  <2>2. CASE s = 0
    <3>1. data_type_in = "CTR" /\ Number(s)' = CTR_counter
      BY <1>0, <2>2, CameFrom, Typed
    <3>2. Number(t - 1) < CTR_counter
      BY <2>1, <3>1 DEF CtrInv, BlocksLoaded
    <3> QED BY <2>1, <3>1, <3>2
  <2>3. CASE s > 0
    <3>1. s - 1 \in 0..NR /\ Carries(s - 1) /\ Number(s)' = Number(s - 1)
      BY <1>0, <2>3, CameFrom
    <3>2. s - 1 < t - 1 /\ s - 1 \in Stages /\ t - 1 \in Stages
      BY <1>0, <2>1, <3>1, Typed DEF Stages
    <3> QED BY <2>1, <3>1, <3>2 DEF CtrInv, BlocksInOrder
  <2> QED BY <1>0, <2>2, <2>3, Typed
<1> QED BY <1>1, <1>2, Typed DEF Stages

LEMMA NoneMissingAfter ==
    ASSUME CtrInv, NEW in \in DriverInput, Edge(in)
    PROVE  NoBlockMissing'
<1> SUFFICES ASSUME NEW n \in fetched' + 1 .. CTR_counter'
             PROVE  \/ data_type_in' = "CTR" /\ n = CTR_counter'
                    \/ \E s \in 0..NR : Carries(s)' /\ Number(s)' = n
  BY DEF NoBlockMissing
<1>1. ~in.clear /\ n \in Nat
  BY CountersMove
<1>2. /\ CTR_counter' = IF in.load_data THEN CTR_counter + 1 ELSE CTR_counter
      /\ fetched' = IF Carries(NR) THEN fetched + 1 ELSE fetched
  BY <1>1, CountersMove
<1>3. CASE in.load_data /\ n = CTR_counter + 1
  BY <1>2, <1>3 DEF Edge
<1>4. CASE n <= CTR_counter
  <2>1. n \in fetched + 1 .. CTR_counter
    BY <1>1, <1>2, <1>4, Typed
  <2>2. CASE data_type_in = "CTR" /\ n = CTR_counter
    <3>1. 0 \in 0..NR /\ Carries(0)' /\ Number(0)' = n
      BY <2>2, NumbersMove, Typed DEF Edge
    <3> QED BY <3>1
  <2>3. CASE \E s \in 0..NR : Carries(s) /\ Number(s) = n
    <3>1. PICK s \in 0..NR : Carries(s) /\ Number(s) = n
      BY <2>3
    <3>2. s # NR
      BY <1>1, <1>2, <3>1, NextFetched, Typed
    <3>3. s + 1 \in 1..NR /\ s + 1 \in 0..NR /\ s + 1 - 1 = s
      BY <3>2, Typed
    <3>4. Carries(s + 1)' /\ Number(s + 1)' = n
      BY <3>1, <3>3, NumbersMove DEF Edge
    <3> QED BY <3>3, <3>4
  <2> QED BY <2>1, <2>2, <2>3 DEF CtrInv, NoBlockMissing
<1> QED BY <1>1, <1>2, <1>3, <1>4, Typed

(* Where the entries of the blocks to come are: the one just loaded, or    *)
(* where they were.                                                        *)
LEMMA EntriesAfter ==
    ASSUME CtrInv, NEW in \in DriverInput, Edge(in), ~in.clear,
           NEW n \in fetched' + 1 .. CTR_counter'
    PROVE  /\ n = CTR_counter + 1 =>
                /\ in.load_data
                /\ memory_array'[Forward(r_ptr', n - fetched' - 1)]
                     = memory_array'[w_ptr]
           /\ n # CTR_counter + 1 =>
                /\ n \in fetched + 1 .. CTR_counter
                /\ memory_array'[Forward(r_ptr', n - fetched' - 1)]
                     = memory_array[Forward(r_ptr, n - fetched - 1)]
<1> DEFINE k == CTR_counter - fetched
<1>1. /\ k \in 0..DEPTH /\ w_ptr = Forward(r_ptr, k)
      /\ ~Carries(NR) => k + 1 \in 0..DEPTH
      /\ Carries(NR) => k \in 1..DEPTH
  BY Occupancy, NextFetched, Typed DEF CtrInv, FifoInStep
<1>2. r_ptr' = IF Carries(NR) THEN Succ(r_ptr) ELSE r_ptr
  BY DEF Edge, FifoStep, data_req, Carries
<1>3. fetched' <= CTR_counter' /\ fetched' \in Nat /\ CTR_counter' \in Nat
  BY CountersMove
<1>4. /\ CTR_counter' = IF in.load_data THEN CTR_counter + 1 ELSE CTR_counter
      /\ fetched' = IF Carries(NR) THEN fetched + 1 ELSE fetched
  BY CountersMove
<1>5. n \in Nat /\ fetched < n /\ n - fetched - 1 \in Nat
      /\ (Carries(NR) => fetched + 1 < n)
  BY <1>3, <1>4, Typed
<1>6. Forward(r_ptr', n - fetched' - 1) = Forward(r_ptr, n - fetched - 1)
  <2>1. CASE Carries(NR)
    <3>1. n - fetched - 1 \in 1..DEPTH
      BY <1>1, <1>4, <1>5, <2>1, Typed
    <3>2. Forward(Succ(r_ptr), n - fetched - 1 - 1) = Forward(r_ptr, n - fetched - 1)
      BY <3>1, ForwardSucc, Typed
    <3>3. n - fetched' - 1 = n - fetched - 1 - 1
      BY <1>4, <1>5, <2>1, Typed
    <3> QED BY <1>2, <2>1, <3>2, <3>3
  <2>2. CASE ~Carries(NR)
    BY <1>2, <1>4, <2>2
  <2> QED BY <2>1, <2>2
<1>7. CASE n = CTR_counter + 1
  <2>1. in.load_data
    BY <1>4, <1>7, Typed
  <2>2. Forward(r_ptr, n - fetched - 1) = w_ptr
    BY <1>1, <1>7, Typed
  <2> QED BY <1>6, <1>7, <2>1, <2>2
<1>8. CASE n # CTR_counter + 1
  <2>1. n \in fetched + 1 .. CTR_counter
    BY <1>3, <1>4, <1>5, <1>8, Typed
  <2>2. /\ n - fetched - 1 \in 0..DEPTH /\ n - fetched - 1 < k
        /\ in.load_data => k - (n - fetched - 1) < DEPTH
    BY <1>1, <1>4, <1>5, <2>1, Typed
  <2>3. Forward(r_ptr, n - fetched - 1) \in 0..DEPTH - 1
    BY <2>2, ForwardSlot, Typed
  <2>4. in.load_data => Forward(r_ptr, n - fetched - 1) # w_ptr
    BY <1>1, <2>2, ForwardDistinct, Typed
  <2>5. memory_array'[Forward(r_ptr, n - fetched - 1)]
          = memory_array[Forward(r_ptr, n - fetched - 1)]
    BY <2>3, <2>4, Typed DEF Edge, FifoStep, CtrTypeOK
  <2> QED BY <1>6, <1>8, <2>1, <2>5
<1> QED BY <1>7, <1>8

LEMMA FifoAfter ==
    ASSUME CtrInv, NEW in \in DriverInput, Edge(in)
    PROVE  FifoInStep'
<1> DEFINE k == CTR_counter - fetched
<1>1. /\ k \in 0..DEPTH /\ w_ptr = Forward(r_ptr, k)
      /\ ~Carries(NR) => k + 1 \in 0..DEPTH
      /\ Carries(NR) => k \in 1..DEPTH
  BY Occupancy, NextFetched, Typed DEF CtrInv, FifoInStep
<1>2. /\ w_ptr' = IF in.load_data THEN Succ(w_ptr) ELSE w_ptr
      /\ r_ptr' = IF Carries(NR) THEN Succ(r_ptr) ELSE r_ptr
  BY DEF Edge, FifoStep, data_req, Carries
<1>3. fetched' <= CTR_counter' /\ fetched' \in Nat /\ CTR_counter' \in Nat
  BY CountersMove
<1>4. CASE in.clear
  <2>1. ~in.load_data /\ fetched = CTR_counter /\ fetched' = 0 /\ CTR_counter' = 0
    BY <1>4, CountersMove
  <2>2. ~Carries(NR)
    BY <2>1, NextFetched, Typed
  <2>3. Forward(r_ptr, 0) = r_ptr
    BY Typed DEF Forward
  <2>4. w_ptr' = Forward(r_ptr', CTR_counter' - fetched')
    BY <1>1, <1>2, <2>1, <2>2, <2>3, Typed
  <2> QED BY <1>3, <2>1, <2>4 DEF FifoInStep
<1>5. CASE ~in.clear
  <2>1. /\ CTR_counter' = IF in.load_data THEN CTR_counter + 1 ELSE CTR_counter
        /\ fetched' = IF Carries(NR) THEN fetched + 1 ELSE fetched
        /\ fetched # CTR_counter \/ in.load_data => IV_out' = IV_out
    BY <1>5, CountersMove
  <2>2. w_ptr' = Forward(r_ptr', CTR_counter' - fetched')
    <3>1. CASE in.load_data /\ Carries(NR)
      <4>1. CTR_counter' - fetched' = k
        BY <2>1, <3>1, Typed
      <4>2. CASE k < DEPTH
        <5>1. Succ(w_ptr) = Forward(r_ptr, k + 1)
          BY <1>1, <4>2, SuccForward, Typed
        <5>2. Forward(Succ(r_ptr), k + 1 - 1) = Forward(r_ptr, k + 1)
          BY <1>1, <4>2, ForwardSucc, Typed
        <5> QED BY <1>1, <1>2, <3>1, <4>1, <5>1, <5>2, Typed
      <4>3. CASE k = DEPTH
        <5>1. w_ptr = r_ptr
          BY <1>1, <4>3, Typed DEF Forward
        <5>2. Forward(Succ(r_ptr), DEPTH) = Succ(r_ptr)
          BY Typed DEF Forward, Succ
        <5> QED BY <1>2, <3>1, <4>1, <4>3, <5>1, <5>2
      <4> QED BY <1>1, <4>2, <4>3, Typed
    <3>2. CASE in.load_data /\ ~Carries(NR)
      <4>1. CTR_counter' - fetched' = k + 1
        BY <2>1, <3>2, Typed
      <4>2. Succ(w_ptr) = Forward(r_ptr, k + 1)
        BY <1>1, <3>2, SuccForward, Typed
      <4> QED BY <1>2, <3>2, <4>1, <4>2
    <3>3. CASE ~in.load_data /\ Carries(NR)
      <4>1. CTR_counter' - fetched' = k - 1
        BY <2>1, <3>3, Typed
      <4>2. Forward(Succ(r_ptr), k - 1) = Forward(r_ptr, k)
        BY <1>1, <3>3, ForwardSucc, Typed
      <4> QED BY <1>1, <1>2, <3>3, <4>1, <4>2
    <3>4. CASE ~in.load_data /\ ~Carries(NR)
      BY <1>1, <1>2, <2>1, <3>4
    <3> QED BY <3>1, <3>2, <3>3, <3>4
  <2>3. ASSUME NEW n \in fetched' + 1 .. CTR_counter'
        PROVE  memory_array'[Forward(r_ptr', n - fetched' - 1)].word = DataWord(IV_out', n)
    <3>1. CASE n = CTR_counter + 1
      <4>1. in.load_data
            /\ memory_array'[Forward(r_ptr', n - fetched' - 1)] = memory_array'[w_ptr]
        BY <1>5, <3>1, EntriesAfter
      <4> QED BY <2>1, <3>1, <4>1 DEF Edge
    <3>2. CASE n # CTR_counter + 1
      <4>1. n \in fetched + 1 .. CTR_counter
            /\ memory_array'[Forward(r_ptr', n - fetched' - 1)]
                 = memory_array[Forward(r_ptr, n - fetched - 1)]
        BY <1>5, <3>2, EntriesAfter
      <4>2. fetched # CTR_counter
        BY <4>1, Typed
      <4> QED BY <2>1, <4>1, <4>2 DEF CtrInv, FifoInStep
    <3> QED BY <3>1, <3>2
  <2> QED BY <1>3, <2>2, <2>3 DEF FifoInStep
<1> QED BY <1>4, <1>5

(* The word fetched is the word of the block that leaves register NR.      *)
LEMMA OutputAfter ==
    ASSUME CtrInv, NEW in \in DriverInput, Edge(in)
    PROVE  KeystreamMatchesWord'
<1> SUFFICES ASSUME pipe'[NR + 1].type = "CTR"
             PROVE  FIFO_data'.word = DataWord(pipe'[NR + 1].val.blk[1],
                                               BlockIndex(pipe'[NR + 1].val.blk[2]))
  BY DEF KeystreamMatchesWord, keystream_valid, data_type_out, AES_data_out
<1>1. NR + 1 \in 1..NR + 1 /\ NR + 1 - 1 = NR /\ NR \in 0..NR
  BY Typed
<1>2. Carries(NR) /\ pipe'[NR + 1].val.blk = pipe[NR].val.blk
  BY <1>1, PipeMoves DEF Edge, Carries
<1>3. Number(NR) = fetched + 1 /\ fetched + 1 \in fetched + 1 .. CTR_counter
      /\ pipe[NR].val.blk[1] = IV_out
  BY <1>1, <1>2, NextFetched, Typed DEF CtrInv, BlocksLoaded
<1>4. ASSUME NEW n \in fetched + 1 .. CTR_counter, n = fetched + 1
      PROVE  memory_array[r_ptr].word = DataWord(IV_out, n)
  <2>1. memory_array[Forward(r_ptr, n - fetched - 1)].word = DataWord(IV_out, n)
    BY <1>4 DEF CtrInv, FifoInStep
  <2>2. Forward(r_ptr, n - fetched - 1) = r_ptr
    BY <1>4, Typed DEF Forward
  <2> QED BY <2>1, <2>2
<1>5. memory_array[r_ptr].word = DataWord(IV_out, fetched + 1)
  BY <1>3, <1>4
<1>6. FIFO_data' = memory_array[r_ptr]
  BY <1>2 DEF Edge, FifoStep, data_req, Carries
<1>7. BlockIndex(pipe'[NR + 1].val.blk[2]) = fetched + 1
      /\ pipe'[NR + 1].val.blk[1] = IV_out
  BY <1>2, <1>3 DEF Number
<1> QED BY <1>5, <1>6, <1>7

(* J0 is taken before the first block is counted, data blocks come after.  *)
LEMMA ApartAfter ==
    ASSUME CtrInv, NEW in \in DriverInput, Edge(in), in.load_data => IV_loaded
    PROVE  BlocksApart'
<1> USE DEF Edge
<1>1. CounterStep(in.load_data, in.load_IV, in.iv, in.clear) /\ in.iv \in IVs
  BY DEF DriverInput
<1>2. /\ IV_loaded => IV_out \in IVs
      /\ CTR_counter > 0 => IV_out \in IVs
      /\ IsJ0(J0)
  BY DEF CtrInv, BlocksApart
<1>3. IV_loaded' => IV_out' \in IVs
  BY <1>1, <1>2 DEF CounterStep
<1>4. CTR_counter' > 0 => IV_out' \in IVs
  BY <1>1, <1>2, Typed DEF CounterStep
<1>5. IsJ0(J0')
  BY <1>1, <1>2, GcmAssumption DEF CounterStep, IsJ0, counter_block
<1>6. ASSUME NEW s \in Stages
      PROVE  /\ pipe'[s].type = "J0" => IsJ0(pipe'[s].val.blk)
             /\ pipe'[s].type = "CTR" => pipe'[s].val.blk[1] \in IVs /\ pipe'[s].val.blk[2] # 1
  <2>1. CASE s = 0
    <3>1. pipe'[0].type = "CTR" => data_type_in = "CTR"
      BY PipeMoves
    <3>2. data_type_in = "CTR" => /\ pipe'[0].val.blk = counter_block
                                  /\ CTR_counter > 0
      BY PipeMoves, Typed DEF CtrInv, BlocksLoaded
    <3>3. CTR_counter > 0 => counter_block[1] \in IVs /\ counter_block[2] # 1
      BY <1>2, Typed DEF counter_block
    <3>4. pipe'[0].type = "J0" => pipe'[0].val.blk = J0
      <4>1. 0 \in Stages /\ ~(0 > 0)
        BY Typed DEF Stages
      <4>2. CASE data_type_in = "none"
        BY <4>1, <4>2, BubbleIsToken DEF PipeStep
      <4>3. CASE data_type_in # "none"
        <5>1. pipe'[0] = [type |-> data_type_in, val |-> [blk |-> AES_data_in, keys |-> {}]]
          BY <4>1, <4>3 DEF PipeStep
        <5>2. pipe'[0].type = data_type_in /\ pipe'[0].val.blk = AES_data_in
          BY <5>1
        <5> QED BY <5>2 DEF AES_data_in
      <4> QED BY <4>2, <4>3
    <3> QED BY <1>2, <2>1, <3>1, <3>2, <3>3, <3>4
  <2>2. CASE s # 0
    <3>1. s \in 1..NR + 1 /\ s - 1 \in Stages
      BY <2>2, Typed DEF Stages
    <3>2. /\ pipe'[s].type = pipe[s - 1].type
          /\ pipe[s - 1].type # "none" => pipe'[s].val.blk = pipe[s - 1].val.blk
      BY <3>1, PipeMoves
    <3>3. /\ pipe[s - 1].type = "J0" => IsJ0(pipe[s - 1].val.blk)
          /\ pipe[s - 1].type = "CTR" =>
                pipe[s - 1].val.blk[1] \in IVs /\ pipe[s - 1].val.blk[2] # 1
      BY <3>1 DEF CtrInv, BlocksApart
    <3> QED BY <3>2, <3>3
  <2> QED BY <2>1, <2>2
<1> QED BY <1>3, <1>4, <1>5, <1>6 DEF BlocksApart, IsJ0

-----------------------------------------------------------------------------
(* The theorems.                                                           *)

LEMMA TypeAfter ==
    ASSUME CtrInv,
           NEW in \in DriverInput, CtrEdge(in)
    PROVE  CtrTypeOK'
<1> DEFINE entry == [last |-> in.last, word |-> DataWord(IV_out, CTR_counter + 1)]
<1>1. /\ KeyStep(in.expansion_en, in.key) /\ CounterStep(in.load_data, in.load_IV, in.iv, in.clear)
      /\ TypeStep(in.load_key, in.load_data, in.last) /\ PipeStep
      /\ FifoStep(in.load_data, entry) /\ OutStep
  BY DEF CtrEdge, CtrStep
<1>2. /\ round_index' \in 0..Derived - 1 /\ expansion_finish' \in BOOLEAN
      /\ round_key' \in [0..NR -> KeyNames]
  BY <1>1, KeyStepType, Typed
<1>3. /\ CTR_counter' \in 0..CtrMax
      /\ IV_out' \in IVs \cup {ZeroIV} /\ IV_loaded' \in BOOLEAN /\ J0' \in Block
  BY <1>1, CounterStepType, Typed
<1>4. pipe' \in [Stages -> Token]
  BY <1>1, PipeStepType, Typed
<1>5. /\ w_ptr' \in 0..DEPTH - 1 /\ r_ptr' \in 0..DEPTH - 1
      /\ DOMAIN memory_array' = 0..DEPTH - 1
  BY <1>1, FifoStepType, Typed
<1>6. gen_J0' \in BOOLEAN
  BY <1>1 DEF TypeStep, DriverInput
<1>7. data_type_in' \in DataType
  BY <1>1 DEF TypeStep, DataType
<1>8. data_valid' \in BOOLEAN
  <2>1. data_valid' = (pipe[NR + 1].type = "CTR")
    BY <1>1 DEF OutStep, keystream_valid, data_type_out
  <2> QED BY <2>1
<1>9. fetched' \in 0..CtrMax
  <2>1. Edge(in)
    BY EdgeOfCtrEdge
  <2>2. CTR_counter' \in Nat /\ fetched' \in Nat /\ fetched' <= CTR_counter' /\ CTR_counter' <= CtrMax
    BY <2>1, CountersMove
  <2> QED BY <2>2, Typed
<1> QED
  BY <1>2, <1>3, <1>4, <1>5, <1>6, <1>7, <1>8, <1>9 DEF CtrTypeOK, KeyNames, Token

LEMMA InvInit == KeyInit /\ CtrInit => CtrInv
<1> SUFFICES ASSUME KeyInit, CtrInit PROVE CtrInv
  OBVIOUS
<1>1. CtrTypeOK
  BY TypeInit
<1>2. \A s \in Stages : pipe[s].type = "none"
  BY BubbleIsToken DEF CtrInit
<1>3. \A s \in 0..NR : s \in Stages
  BY GcmAssumption DEF Stages
<1>4. NR + 1 \in Stages
  BY GcmAssumption DEF Stages
<1>5. fetched = 0 /\ CTR_counter = 0 /\ w_ptr = 0 /\ r_ptr = 0 /\ data_type_in = "none"
  BY DEF CtrInit
<1>6. BlocksLoaded /\ BlocksInOrder
  BY <1>2, <1>3, <1>5 DEF BlocksLoaded, BlocksInOrder, Carries
<1>7. NoBlockMissing /\ FifoInStep
  BY <1>5, GcmAssumption DEF NoBlockMissing, FifoInStep, Forward
<1>8. KeystreamMatchesWord
  BY <1>2, <1>4 DEF KeystreamMatchesWord, keystream_valid, data_type_out
<1>9. BlocksApart
  BY <1>2, <1>5 DEF BlocksApart, CtrInit, IsJ0
<1> QED BY <1>1, <1>6, <1>7, <1>8, <1>9 DEF CtrInv

LEMMA InvReset == CtrInv /\ KeyReset /\ CtrReset => CtrInv'
<1> SUFFICES ASSUME CtrInv, KeyReset, CtrReset PROVE CtrInv'
  OBVIOUS
<1>1. CtrTypeOK'
  BY TypeReset, Typed
<1>2. \A s \in Stages : pipe'[s].type = "none"
  BY BubbleIsToken DEF CtrReset
<1>3. \A s \in 0..NR : s \in Stages
  BY GcmAssumption DEF Stages
<1>4. NR + 1 \in Stages
  BY GcmAssumption DEF Stages
<1>5. /\ fetched' = 0 /\ CTR_counter' = 0 /\ w_ptr' = 0 /\ r_ptr' = 0
      /\ data_type_in' = "none"
  BY DEF CtrReset
<1>6. BlocksLoaded' /\ BlocksInOrder'
  BY <1>2, <1>3, <1>5 DEF BlocksLoaded, BlocksInOrder, Carries
<1>7. NoBlockMissing' /\ FifoInStep'
  BY <1>5, GcmAssumption DEF NoBlockMissing, FifoInStep, Forward
<1>8. KeystreamMatchesWord'
  BY <1>2, <1>4 DEF KeystreamMatchesWord, keystream_valid, data_type_out
<1>9. BlocksApart'
  BY <1>2, <1>5 DEF BlocksApart, CtrReset, IsJ0
<1> QED BY <1>1, <1>6, <1>7, <1>8, <1>9 DEF CtrInv

LEMMA InvNext == CtrInv /\ [CtrNext]_allVars => CtrInv'
<1> SUFFICES ASSUME CtrInv, [CtrNext]_allVars PROVE CtrInv'
  OBVIOUS
<1>1. CASE KeyReset /\ CtrReset
  BY <1>1, InvReset
<1>2. ASSUME NEW in \in DriverInput, CtrEdge(in)
      PROVE  CtrInv'
  <2>1. Edge(in)
    BY <1>2, EdgeOfCtrEdge
  <2>2. CtrTypeOK'
    BY <1>2, TypeAfter
  <2>3. BlocksLoaded' /\ BlocksInOrder'
    BY <2>1, LoadedAfter, OrderAfter
  <2>4. NoBlockMissing' /\ FifoInStep'
    BY <2>1, NoneMissingAfter, FifoAfter
  <2>5. KeystreamMatchesWord'
    BY <2>1, OutputAfter
  <2>6. BlocksApart'
    BY <1>2, <2>1, ApartAfter DEF CtrEdge
  <2> QED BY <2>2, <2>3, <2>4, <2>5, <2>6 DEF CtrInv
<1>3. CASE UNCHANGED allVars
  BY <1>3 DEF allVars, keyVars, ctrVars, CtrInv, CtrTypeOK, BlocksLoaded, BlocksInOrder,
              NoBlockMissing, FifoInStep, KeystreamMatchesWord, Carries, Number, BlocksApart,
              keystream_valid, data_type_out, AES_data_out
<1> QED BY <1>1, <1>2, <1>3 DEF CtrNext

(* The invariant holds in every reachable state.                           *)
THEOREM CtrInvariant == CtrSpec => []CtrInv
<1>1. CtrPathInit => CtrInv
  BY InvInit DEF CtrPathInit
<1>2. CtrInv /\ [CtrNext]_allVars => CtrInv'
  BY InvNext
<1> QED BY <1>1, <1>2, PTL DEF CtrSpec, allVars

(* Every register of the counter-mode path keeps its type; in particular   *)
(* no more words are fetched than the counter can count.                   *)
THEOREM CtrTypeCorrect == CtrSpec => []CtrTypeOK
<1>1. CtrInv => CtrTypeOK
  BY DEF CtrInv
<1> QED BY <1>1, CtrInvariant, PTL

(* Words and keystream never shift against each other, whatever the depth  *)
(* of the pipeline and of the FIFO (of at least NR + 2 entries).           *)
THEOREM KeystreamCorrect == CtrSpec => []KeystreamMatchesWord
<1>1. CtrInv => KeystreamMatchesWord
  BY DEF CtrInv
<1> QED BY <1>1, CtrInvariant, PTL

(* Two blocks in flight are never encrypted under the same counter, nor a  *)
(* data block under the tag's: the keystream of a word is its own.         *)
THEOREM CountersAlwaysDistinct == CtrSpec => []CountersDistinct
<1>1. CtrInv => CountersDistinct
  <2> SUFFICES ASSUME CtrInv, NEW s \in Stages, NEW t \in Stages, s # t,
                      pipe[s].type \in {"CTR", "J0"}, pipe[t].type = "CTR"
               PROVE  pipe[s].val.blk # pipe[t].val.blk
    BY DEF CountersDistinct
  <2>1. CASE pipe[s].type = "CTR"
    <3>1. s \in Nat /\ t \in Nat
      BY Typed DEF Stages
    <3>2. Number(s) \in Nat /\ Number(t) \in Nat /\ Number(s) # Number(t)
      BY <2>1, <3>1, NumberIsNat, Typed DEF CtrInv, BlocksInOrder, Carries
    <3> QED BY <3>2 DEF Number
  <2>2. CASE pipe[s].type = "J0"
    <3>1. /\ pipe[s].val.blk = ZeroBlock \/ pipe[s].val.blk[2] = 1
          /\ pipe[t].val.blk[1] \in IVs /\ pipe[t].val.blk[2] # 1
      BY <2>2 DEF CtrInv, BlocksApart, IsJ0
    <3>2. ZeroBlock[1] \notin IVs
      BY GcmAssumption DEF ZeroBlock
    <3> QED BY <3>1, <3>2
  <2> QED BY <2>1, <2>2
<1> QED BY <1>1, CtrInvariant, PTL

-----------------------------------------------------------------------------
(* THE WHOLE CORE                                                          *)
Input == [load_key : BOOLEAN, load_IV : BOOLEAN, load_tag_ref : BOOLEAN,
          load_AAD : BOOLEAN, no_AAD : BOOLEAN, AAD_last : BOOLEAN,
          load_data : BOOLEAN, data_in_last : BOOLEAN, verify_checked : BOOLEAN]

(* What all clocks of the user have in common: the strobes of in with the  *)
(* words of m, each strobe on its ready output.                            *)
Driven(in, m) ==
    /\ Clock(in, m) /\ Sample
    /\ IF in.load_key THEN key_ready /\ cipher_key' \in Keys ELSE cipher_key' = cipher_key
    /\ IF in.load_IV
       THEN /\ m \in Messages /\ m.key = cipher_key' /\ msg = NoMessage
            /\ \/ Current = "IDLE" /\ (in.load_key \/ H_loaded)
               \/ Current \in Keying /\ ~IV_loaded /\ ~H_loaded
       ELSE m = msg
    /\ msg' = IF finish THEN NoMessage ELSE m
    /\ in.load_tag_ref => msg # NoMessage /\ tag_ref_ready(tag_ref_loaded, mode)
    /\ in.no_AAD => Current = "WAIT_AAD" /\ msg.aad = 0
    /\ in.load_AAD => AAD_ready /\ aadSent < msg.aad
    /\ in.AAD_last => IF in.load_AAD THEN aadSent + 1 = msg.aad
                      ELSE Current = "LOAD_AAD" /\ aadSent = msg.aad
    /\ aadSent' = IF finish THEN 0 ELSE IF in.load_AAD THEN aadSent + 1 ELSE aadSent
    /\ in.load_data => /\ data_ready(CTR_counter_overflow) /\ dataSent < msg.data
                       /\ in.data_in_last = (dataSent + 1 = msg.data)
    /\ in.data_in_last => \/ in.load_data
                          \/ Current = "LOAD_DATA" /\ dataSent = msg.data
    /\ dataSent' = IF finish THEN 0 ELSE IF in.load_data THEN dataSent + 1 ELSE dataSent
    /\ in.verify_checked => verify_done
    /\ LastDue => in.data_in_last

-----------------------------------------------------------------------------
(* Every clock of the user is driven so.                                   *)

LEMMA NoInputIsInput == NoInput \in Input
BY DEF NoInput, Input

LEMMA StatesOfMessage ==
    ASSUME CoreInv
    PROVE  /\ Current \in CUStates
           /\ Current \in Serving => msg \in Messages
           /\ msg # NoMessage => msg \in Messages
           /\ Current = "IDLE" => msg = NoMessage
           /\ Current = "KEY_EXPANSION" => ~H_loaded
           /\ NoMessage \notin Messages
BY NamesAssumption DEF CoreInv, MessageInStep, KeyInStep, Keying

LEMMA MessageParts ==
    ASSUME NEW x \in Messages
    PROVE  /\ x.key \in Keys /\ x.iv \in IVs /\ x.mode \in BOOLEAN /\ x.genuine \in BOOLEAN
           /\ x.aad \in Nat /\ x.aad <= MaxAAD /\ x.data \in Nat /\ x.data >= 1
           /\ x.data <= MaxData /\ x # NoMessage
BY CoreAssumption, NamesAssumption DEF Messages

LEMMA LoadDriven ==
    ASSUME CoreInv,
           \/ \E x \in Messages : LoadKeyIV(x) \/ LoadIV(x)
           \/ \E k \in Keys : LoadKey(k)
    PROVE  \E in \in Input : \E m \in Messages \cup {NoMessage} : Driven(in, m)
<1>1. ASSUME NEW x \in Messages, LoadKeyIV(x)
      PROVE  \E in \in Input : Driven(in, x)
  <2> DEFINE in == [NoInput EXCEPT !.load_key = TRUE, !.load_IV = TRUE]
  <2>1. in \in Input
    BY DEF NoInput, Input
  <2>2. Driven(in, x)
    BY <1>1, StatesOfMessage, MessageParts
    DEF LoadKeyIV, Driven, NoInput, key_ready, finish, LastDue
  <2> QED BY <2>1, <2>2
<1>2. ASSUME NEW x \in Messages, LoadIV(x)
      PROVE  \E in \in Input : Driven(in, x)
  <2> DEFINE in == [NoInput EXCEPT !.load_IV = TRUE]
  <2>1. in \in Input
    BY DEF NoInput, Input
  <2>2. Driven(in, x)
    BY <1>2, StatesOfMessage
    DEF LoadIV, Driven, NoInput, finish, LastDue, IV_ready, Keying
  <2> QED BY <2>1, <2>2
<1>3. ASSUME NEW k \in Keys, LoadKey(k)
      PROVE  \E in \in Input : Driven(in, msg)
  <2> DEFINE in == [NoInput EXCEPT !.load_key = TRUE]
  <2>1. in \in Input
    BY DEF NoInput, Input
  <2>2. Driven(in, msg)
    BY <1>3 DEF LoadKey, Driven, NoInput, key_ready, finish, LastDue
  <2> QED BY <2>1, <2>2
<1>4. msg \in Messages \cup {NoMessage}
  BY StatesOfMessage
<1> QED BY <1>1, <1>2, <1>3, <1>4

LEMMA WordDriven ==
    ASSUME CoreInv, LoadTagRef \/ SkipAAD \/ SendAAD \/ HoldAADLast
    PROVE  \E in \in Input : Driven(in, msg)
<1>1. CASE LoadTagRef
  <2> DEFINE in == [NoInput EXCEPT !.load_tag_ref = TRUE]
  <2>1. in \in Input
    BY DEF NoInput, Input
  <2>2. Driven(in, msg)
    BY <1>1 DEF LoadTagRef, Proceed, Driven, NoInput, finish, LastDue, tag_ref_ready
  <2> QED BY <2>1, <2>2
<1>2. CASE SkipAAD
  <2> DEFINE in == [NoInput EXCEPT !.no_AAD = TRUE]
  <2>1. in \in Input
    BY DEF NoInput, Input
  <2>2. Driven(in, msg)
    BY <1>2 DEF SkipAAD, Proceed, Driven, NoInput, finish, LastDue
  <2> QED BY <2>1, <2>2
<1>3. CASE SendAAD
  <2> DEFINE in == [NoInput EXCEPT !.load_AAD = TRUE, !.AAD_last = (aadSent + 1 = msg.aad)]
  <2>1. in \in Input
    BY DEF NoInput, Input
  <2>2. Driven(in, msg)
    BY <1>3 DEF SendAAD, Driven, NoInput, finish, LastDue, AAD_ready
  <2> QED BY <2>1, <2>2
<1>4. CASE HoldAADLast
  <2> DEFINE in == [NoInput EXCEPT !.AAD_last = TRUE]
  <2>1. in \in Input
    BY DEF NoInput, Input
  <2>2. Driven(in, msg)
    BY <1>4 DEF HoldAADLast, Proceed, Driven, NoInput, finish, LastDue
  <2> QED BY <2>1, <2>2
<1> QED BY <1>1, <1>2, <1>3, <1>4

LEMMA DataDriven ==
    ASSUME CoreInv, SendData \/ HoldDataLast \/ AckVerify \/ Wait
    PROVE  \E in \in Input : Driven(in, msg)
<1>1. CASE SendData
  <2> DEFINE in == [NoInput EXCEPT !.load_data = TRUE,
                                   !.data_in_last = (dataSent + 1 = msg.data)]
  <2>1. in \in Input
    BY DEF NoInput, Input
  <2>2. dataSent \in Nat /\ msg \in Messages
    BY <1>1, StatesOfMessage DEF SendData, data_ready, CoreInv, WordsInStep, Serving, Started,
       Counted
  <2>3. ~LastDue /\ ~finish
    BY <1>1, <2>2, MessageParts DEF SendData, data_ready, LastDue, finish
  <2>4. Driven(in, msg)
    BY <1>1, <2>3 DEF SendData, Driven, NoInput
  <2> QED BY <2>1, <2>4
<1>2. CASE HoldDataLast
  <2> DEFINE in == [NoInput EXCEPT !.data_in_last = TRUE]
  <2>1. in \in Input
    BY DEF NoInput, Input
  <2>2. Driven(in, msg)
    BY <1>2 DEF HoldDataLast, Proceed, Driven, NoInput, finish, LastDue
  <2> QED BY <2>1, <2>2
<1>3. CASE AckVerify
  <2> DEFINE in == [NoInput EXCEPT !.verify_checked = TRUE]
  <2>1. in \in Input
    BY DEF NoInput, Input
  <2>2. Driven(in, msg)
    BY <1>3 DEF AckVerify, Proceed, Driven, NoInput, finish, LastDue, verify_done
  <2> QED BY <2>1, <2>2
<1>4. CASE Wait
  BY <1>4, NoInputIsInput DEF Wait, Proceed, Driven, NoInput
<1> QED BY <1>1, <1>2, <1>3, <1>4

LEMMA TickDriven ==
    ASSUME CoreInv, Tick
    PROVE  \E in \in Input : \E m \in Messages \cup {NoMessage} : Driven(in, m)
BY LoadDriven, WordDriven, DataDriven, StatesOfMessage DEF Tick

-----------------------------------------------------------------------------
(* What a driven clock does with the control unit and the path.            *)

LEMMA Moves ==
    ASSUME CoreInv, NEW in \in Input, NEW m \in Messages \cup {NoMessage}, Driven(in, m)
    PROVE  /\ Current = "IDLE" =>
                Current' = IF in.load_key THEN "KEY_EXPANSION"
                           ELSE IF ~in.load_IV THEN "IDLE"
                           ELSE IF Mode(m) THEN "WAIT_TAG_REF" ELSE "WAIT_AAD"
           /\ Current = "KEY_EXPANSION" =>
                Current' = IF expansion_finish THEN "WAIT_H_CAL" ELSE "KEY_EXPANSION"
           /\ Current = "WAIT_H_CAL" =>
                Current' = IF ~H_loaded THEN "WAIT_H_CAL"
                           ELSE IF ~IV_loaded THEN "FINISH"
                           ELSE IF Mode(m) /\ ~tag_ref_loaded THEN "WAIT_TAG_REF"
                           ELSE "WAIT_AAD"
           /\ Current = "WAIT_TAG_REF" =>
                Current' = IF tag_ref_loaded THEN "WAIT_AAD" ELSE "WAIT_TAG_REF"
           /\ Current = "WAIT_AAD" =>
                Current' = IF in.no_AAD THEN "WAIT_DATA"
                           ELSE IF in.load_AAD THEN "LOAD_AAD" ELSE "WAIT_AAD"
           /\ Current = "LOAD_AAD" =>
                Current' = IF in.AAD_last THEN "WAIT_DATA" ELSE "LOAD_AAD"
           /\ Current = "WAIT_DATA" =>
                Current' = IF in.load_data THEN "LOAD_DATA" ELSE "WAIT_DATA"
           /\ Current = "LOAD_DATA" =>
                Current' = IF in.data_in_last THEN "WAIT_PROCESS_FINISH" ELSE "LOAD_DATA"
           /\ Current = "WAIT_PROCESS_FINISH" =>
                Current' = IF ~process_finish THEN "WAIT_PROCESS_FINISH"
                           ELSE IF Mode(m) THEN "VERIFY_PASS" ELSE "FINISH"
           /\ Current = "VERIFY_PASS" =>
                Current' = IF in.verify_checked THEN "FINISH" ELSE "VERIFY_PASS"
           /\ Current = "FINISH" => Current' = "IDLE"
           /\ Current' \in CUStates
<1>1. CUStep(in.load_key, in.load_IV, Mode(m), expansion_finish, H_loaded, IV_loaded,
             tag_ref_loaded, in.load_AAD, in.no_AAD, in.AAD_last, in.load_data,
             in.data_in_last, process_finish, in.verify_checked)
  BY DEF Driven, Clock
<1> HIDE DEF Mode, process_finish
<1> QED BY <1>1 DEF CUStep, Go, Stay, CUStates

(* Which strobes each state admits.                                        *)
LEMMA Strobes ==
    ASSUME CoreInv, NEW in \in Input, NEW m \in Messages \cup {NoMessage}, Driven(in, m)
    PROVE  /\ in.load_key => Current = "IDLE"
           /\ in.load_IV => Current \in {"IDLE"} \cup Keying
           /\ in.load_tag_ref => Current \in {"WAIT_TAG_REF"} \cup Keying
           /\ in.no_AAD => Current = "WAIT_AAD"
           /\ in.load_AAD => Current \in {"WAIT_AAD", "LOAD_AAD"}
           /\ in.AAD_last => Current \in {"WAIT_AAD", "LOAD_AAD"}
           /\ in.load_data => Current \in {"WAIT_DATA", "LOAD_DATA"}
           /\ in.data_in_last => Current \in {"WAIT_DATA", "LOAD_DATA"}
           /\ in.verify_checked => Current = "VERIFY_PASS"
           /\ Current \notin {"IDLE"} \cup Keying => m = msg
BY DEF Driven, key_ready, tag_ref_ready, AAD_ready, data_ready, verify_done, Keying

LEMMA KindOf ==
    /\ Kind(0) = data_type_in /\ 0 \in Way
    /\ \A s \in Stages : s + 1 \in Way /\ s + 1 > 0 /\ Kind(s + 1) = pipe[s].type
    /\ \A p \in Way : p > 0 => p - 1 \in Stages /\ Kind(p) = pipe[p - 1].type
<1>1. NR \in Nat
  BY GcmAssumption
<1>2. ASSUME NEW s \in Stages
      PROVE  s + 1 \in Way /\ s + 1 > 0 /\ Kind(s + 1) = pipe[s].type
  <2>1. s \in Nat /\ s + 1 \in Way /\ s + 1 > 0 /\ s + 1 # 0 /\ s + 1 - 1 = s
    BY <1>1, <1>2 DEF Way, Stages
  <2>2. pipe[s + 1 - 1] = pipe[s]
    BY <2>1
  <2> QED BY <2>1, <2>2 DEF Kind
<1>3. ASSUME NEW p \in Way, p > 0
      PROVE  p - 1 \in Stages /\ Kind(p) = pipe[p - 1].type
  BY <1>1, <1>3 DEF Way, Stages, Kind
<1> QED BY <1>1, <1>2, <1>3 DEF Way, Kind

LEMMA QuietRegisters ==
    ASSUME CoreInv
    PROVE  Quiet <=> /\ ~gen_J0 /\ data_type_in = "none"
                     /\ \A s \in Stages : pipe[s].type = "none"
<1>1. ASSUME Quiet PROVE /\ ~gen_J0 /\ data_type_in = "none"
                         /\ \A s \in Stages : pipe[s].type = "none"
  BY <1>1, KindOf DEF Quiet
<1>2. ASSUME ~gen_J0, data_type_in = "none", \A s \in Stages : pipe[s].type = "none"
      PROVE  Quiet
  <2>1. \A p \in Way : p = 0 \/ p > 0
    BY GcmAssumption DEF Way
  <2> QED BY <1>2, <2>1, KindOf DEF Quiet
<1> QED BY <1>1, <1>2

LEMMA NothingOnTheWay ==
    ASSUME CoreInv, Quiet
    PROVE  ~Pending /\ ~keystream_valid /\ AES_finish /\ ~H_valid /\ ~E_valid /\ ~Carries(NR)
<1>1. NR + 1 \in Stages /\ 0..NR \subseteq Stages /\ NR \in 0..NR
  BY GcmAssumption DEF Stages
<1>2. data_type_in = "none" /\ \A s \in Stages : pipe[s].type = "none"
  BY QuietRegisters
<1> QED BY <1>1, <1>2 DEF Pending, keystream_valid, AES_finish, H_valid, E_valid,
       data_type_out, Carries

(* The path drains before the message registers are cleared.               *)
Clear == finish \/ Current' = "FINISH"

LEMMA DrainedBeforeClear ==
    ASSUME CoreInv, NEW in \in Input, NEW m \in Messages \cup {NoMessage}, Driven(in, m),
           Clear
    PROVE  ~gen_J0 /\ ~Pending /\ AES_finish /\ ~Carries(NR)
<1>1. CASE Quiet
  BY <1>1, NothingOnTheWay DEF Quiet
<1>2. CASE Current = "WAIT_PROCESS_FINISH"
  <2>1. AES_finish /\ tag_process_valid
    BY <1>2, Moves DEF Clear, finish, process_finish
  <2>2. NR \in 0..NR
    BY GcmAssumption
  <2> QED BY <1>2, <2>1, <2>2 DEF CoreInv, ResultInStep, AES_finish, Pending, Carries
<1>3. CASE Current = "WAIT_H_CAL"
  <2>1. H_loaded
    BY <1>3, Moves DEF Clear, finish
  <2> QED BY <1>3, <2>1, <1>1 DEF CoreInv, KeyInStep, Keying
<1>4. Current \in CUStates /\ (Current \notin Keying \cup Moving => Quiet)
  BY StatesOfMessage DEF CoreInv, TokensInStep
<1> QED BY <1>1, <1>2, <1>3, <1>4, Moves DEF Clear, finish, CUStates, Keying, Moving

(* The clock is an edge of the counter-mode path under a legal driver.     *)
Drive(in, m) ==
    [load_key |-> in.load_key, load_data |-> in.load_data, last |-> in.data_in_last,
     load_IV |-> in.load_IV, clear |-> Clear, expansion_en |-> expansion_en,
     key |-> IF cipher_key \in Keys THEN cipher_key ELSE CHOOSE k \in Keys : TRUE,
     iv |-> IF m \in Messages THEN m.iv ELSE CHOOSE v \in IVs : TRUE]

LEMMA DriveIsInput ==
    ASSUME NEW in \in Input, NEW m
    PROVE  Drive(in, m) \in DriverInput
<1>1. (CHOOSE k \in Keys : TRUE) \in Keys /\ (CHOOSE v \in IVs : TRUE) \in IVs
  BY GcmAssumption
<1>2. m \in Messages => m.iv \in IVs
  BY MessageParts
<1> QED BY <1>1, <1>2 DEF Drive, DriverInput, Input, Clear, expansion_en

LEMMA DriveIsEdge ==
    ASSUME CoreInv, NEW in \in Input, NEW m \in Messages \cup {NoMessage}, Driven(in, m)
    PROVE  CtrEdge(Drive(in, m))
<1> DEFINE d == Drive(in, m)
<1>1. /\ d.load_key = in.load_key /\ d.load_data = in.load_data /\ d.last = in.data_in_last
      /\ d.load_IV = in.load_IV /\ d.clear = Clear /\ d.expansion_en = expansion_en
      /\ expansion_en => d.key = cipher_key
      /\ in.load_IV => d.iv = m.iv /\ m # NoMessage
  BY NamesAssumption DEF Drive, expansion_en, CoreInv, KeyInStep, Driven
<1>2. in.load_data => /\ IV_loaded /\ ~CTR_counter_overflow
                      /\ ~in.load_key /\ ~in.load_IV /\ ~Clear
                      /\ CTR_counter = dataSent /\ m = msg /\ msg # NoMessage
                      /\ IV_out = msg.iv
  <2> SUFFICES ASSUME in.load_data
               PROVE  /\ IV_loaded /\ ~CTR_counter_overflow
                      /\ ~in.load_key /\ ~in.load_IV /\ ~Clear
                      /\ CTR_counter = dataSent /\ m = msg /\ msg # NoMessage
                      /\ IV_out = msg.iv
    OBVIOUS
  <2>1. Current \in {"WAIT_DATA", "LOAD_DATA"} /\ m = msg
    BY Strobes DEF Keying
  <2>2. ~in.load_key /\ ~in.load_IV /\ ~Clear
    BY <2>1, Strobes, Moves DEF Clear, finish, Keying
  <2>3. IV_loaded /\ CTR_counter = dataSent /\ msg # NoMessage /\ IV_out = msg.iv
    BY <2>1 DEF CoreInv, MessageInStep, WordsInStep, Serving, Started, Counted
  <2>4. ~CTR_counter_overflow
    BY <2>1, <2>3, GcmAssumption DEF Driven, data_ready, CTR_counter_overflow, CoreInv,
       WordsInStep, Counted
  <2> QED BY <2>1, <2>2, <2>3, <2>4
<1>3. in.load_IV => CTR_counter = 0
  BY Strobes DEF CoreInv, WordsInStep, Keying, Counted
<1>4. Clear => ~Pending
  BY DrainedBeforeClear
<1>5. KeyStep(expansion_en, d.key)
  BY <1>1 DEF Driven, Clock, KeyStep
<1>6. CtrStep(in.load_key, in.load_data, in.data_in_last,
              DataWord(IF m = NoMessage THEN ZeroIV ELSE m.iv, dataSent + 1),
              in.load_IV, IF m = NoMessage THEN ZeroIV ELSE m.iv, Clear)
  BY DEF Driven, Clock, Clear
<1>7. CtrStep(in.load_key, in.load_data, in.data_in_last, DataWord(IV_out, CTR_counter + 1),
              in.load_IV, d.iv, Clear)
  BY <1>1, <1>2, <1>6 DEF CtrStep, FifoStep, CounterStep
<1> QED BY <1>1, <1>2, <1>3, <1>4, <1>5, <1>7 DEF CtrEdge

LEMMA PathMoves ==
    ASSUME CoreInv, NEW in \in Input, NEW m \in Messages \cup {NoMessage}, Driven(in, m)
    PROVE  /\ CtrInv' /\ Edge(Drive(in, m))
           /\ Clear => CTR_counter' = 0 /\ IV_loaded' = FALSE /\ fetched' = 0 /\ ~in.load_data
           /\ ~Clear => /\ CTR_counter' = IF in.load_data THEN CTR_counter + 1 ELSE CTR_counter
                        /\ IV_loaded' = (IV_loaded \/ in.load_IV)
                        /\ IV_out' = IF in.load_IV THEN m.iv ELSE IV_out
                        /\ J0' = IF CTR_counter = 0 THEN counter_block ELSE J0
                        /\ fetched' = IF Carries(NR) THEN fetched + 1 ELSE fetched
           /\ gen_J0' = in.data_in_last
           /\ data_type_in' = IF in.load_key THEN "H" ELSE IF in.load_data THEN "CTR"
                              ELSE IF gen_J0 THEN "J0" ELSE "none"
           /\ data_valid' = keystream_valid /\ data_out_last' = CT_last
           /\ keystream_valid => data_out' = XorWord(FIFO_data.word, AES_data_out)
           /\ PipeStep
<1> DEFINE d == Drive(in, m)
<1>1. d \in DriverInput /\ CtrEdge(d)
  BY DriveIsInput, DriveIsEdge
<1>2. /\ d.load_key = in.load_key /\ d.load_data = in.load_data /\ d.last = in.data_in_last
      /\ d.load_IV = in.load_IV /\ d.clear = Clear /\ (in.load_IV => d.iv = m.iv)
  BY DEF Drive, Driven
<1>3. CtrInv' /\ Edge(d)
  <2>1. CtrInv
    BY DEF CoreInv
  <2>2. CtrNext
    BY <1>1 DEF CtrNext
  <2> QED BY <1>1, <2>1, <2>2, InvNext, EdgeOfCtrEdge
<1>4. /\ CounterStep(in.load_data, in.load_IV, d.iv, Clear)
      /\ TypeStep(in.load_key, in.load_data, in.data_in_last)
      /\ PipeStep /\ OutStep
      /\ fetched' = IF Clear THEN 0 ELSE IF data_req THEN fetched + 1 ELSE fetched
  BY <1>1, <1>2 DEF CtrEdge, CtrStep
<1>5. /\ Clear => CTR_counter' = 0 /\ fetched' = 0 /\ ~in.load_data
      /\ Clear => IV_loaded' = FALSE
  <2>1. Clear => ~in.load_data
    BY Strobes, Moves DEF Clear, finish
  <2> QED BY <1>4, <2>1 DEF CounterStep
<1>6. ~Clear => /\ CTR_counter' = IF in.load_data THEN CTR_counter + 1 ELSE CTR_counter
                /\ IV_out' = IF in.load_IV THEN m.iv ELSE IV_out
                /\ J0' = IF CTR_counter = 0 THEN counter_block ELSE J0
                /\ fetched' = IF Carries(NR) THEN fetched + 1 ELSE fetched
  <2>1. in.load_data => ~CTR_counter_overflow
    BY <1>1, <1>2 DEF CtrEdge
  <2> QED BY <1>2, <1>4, <2>1 DEF CounterStep, data_req, Carries
<1>7. ~Clear => IV_loaded' = (IV_loaded \/ in.load_IV)
  BY <1>4 DEF CounterStep
<1>8. /\ gen_J0' = in.data_in_last
      /\ data_type_in' = IF in.load_key THEN "H" ELSE IF in.load_data THEN "CTR"
                         ELSE IF gen_J0 THEN "J0" ELSE "none"
  BY <1>4 DEF TypeStep
<1>9. /\ data_valid' = keystream_valid /\ data_out_last' = CT_last
      /\ keystream_valid => data_out' = XorWord(FIFO_data.word, AES_data_out)
  BY <1>4 DEF OutStep
<1> QED BY <1>3, <1>4, <1>5, <1>6, <1>7, <1>8, <1>9

-----------------------------------------------------------------------------
(* The invariant after a driven clock, part by part.                       *)

LEMMA MessageAfter ==
    ASSUME CoreInv, NEW in \in Input, NEW m \in Messages \cup {NoMessage}, Driven(in, m)
    PROVE  MessageInStep'
<1>1. Current' \in CUStates
  BY Moves
<1>2. cipher_key' \in Keys \cup {ZeroKey} /\ msg' \in Messages \cup {NoMessage}
  BY DEF Driven, CoreInv, MessageInStep
<1>3. msg' # NoMessage => msg'.key = cipher_key'
  <2> SUFFICES ASSUME msg' # NoMessage PROVE msg'.key = cipher_key'
    OBVIOUS
  <2>1. ~finish /\ msg' = m
    BY DEF Driven
  <2>2. CASE in.load_IV
    BY <2>1, <2>2 DEF Driven
  <2>3. CASE ~in.load_IV
    <3>1. m = msg /\ Current # "IDLE"
      BY <2>1, <2>3, StatesOfMessage DEF Driven
    <3> QED BY <2>1, <3>1 DEF Driven, key_ready, CoreInv, MessageInStep
  <2> QED BY <2>2, <2>3
<1>4. Current' = "IDLE" => msg' = NoMessage
  <2> SUFFICES ASSUME Current' = "IDLE" PROVE msg' = NoMessage
    OBVIOUS
  <2>1. Current = "FINISH" \/ (Current = "IDLE" /\ ~in.load_IV)
    BY Moves, StatesOfMessage DEF CUStates
  <2> QED BY <2>1, StatesOfMessage DEF Driven, finish
<1>5. Current' \in Serving => msg' # NoMessage
  <2> SUFFICES ASSUME Current' \in Serving PROVE msg' # NoMessage
    OBVIOUS
  <2>1. ~finish
    BY Moves DEF finish, Serving, Started, Counted
  <2>2. CASE in.load_IV
    BY <2>1, <2>2, NamesAssumption DEF Driven
  <2>3. CASE ~in.load_IV
    <3>1. Current \in Serving \/ (Current = "WAIT_H_CAL" /\ IV_loaded)
      BY <2>3, Moves, StatesOfMessage DEF CUStates, Serving, Started, Counted
    <3> QED BY <2>1, <2>3, <3>1 DEF Driven, CoreInv, MessageInStep
  <2> QED BY <2>2, <2>3
<1>6. Current' # "FINISH" => IV_loaded' = (msg' # NoMessage)
  <2> SUFFICES ASSUME Current' # "FINISH" PROVE IV_loaded' = (msg' # NoMessage)
    OBVIOUS
  <2>1. CASE finish
    BY <2>1, PathMoves DEF Driven, Clear
  <2>2. CASE ~finish
    <3>1. IV_loaded' = (IV_loaded \/ in.load_IV) /\ msg' = m
      BY <2>2, PathMoves DEF Driven, Clear
    <3>2. IV_loaded = (msg # NoMessage)
      BY <2>2 DEF CoreInv, MessageInStep, finish
    <3>3. in.load_IV => m # NoMessage
      BY NamesAssumption DEF Driven
    <3>4. ~in.load_IV => m = msg
      BY DEF Driven
    <3> QED BY <3>1, <3>2, <3>3, <3>4
  <2> QED BY <2>1, <2>2
<1>7. Current' # "FINISH" /\ msg' # NoMessage => IV_out' = msg'.iv
  <2> SUFFICES ASSUME Current' # "FINISH", msg' # NoMessage PROVE IV_out' = msg'.iv
    OBVIOUS
  <2>1. ~Clear /\ msg' = m
    BY DEF Driven, Clear
  <2>2. ~in.load_IV => m = msg /\ IV_out = msg.iv
    BY <2>1 DEF Driven, CoreInv, MessageInStep, Clear, finish
  <2> QED BY <2>1, <2>2, PathMoves
<1>8. Current' = "FINISH" => ~IV_loaded'
  BY PathMoves DEF Clear
<1>9. Current' \in Started => J0' = <<msg'.iv, 1>>
  <2> SUFFICES ASSUME Current' \in Started PROVE J0' = <<msg'.iv, 1>>
    OBVIOUS
  <2>1. Current \in {"WAIT_AAD"} \cup Started /\ ~Clear
    BY Moves, StatesOfMessage DEF CUStates, Started, Counted, Clear, finish
  <2>2. m = msg /\ msg' = msg /\ msg # NoMessage /\ IV_out = msg.iv
    BY <2>1, Strobes DEF Driven, Keying, CoreInv, MessageInStep, Started, Counted, Serving,
       Clear, finish
  <2>3. CTR_counter = 0 => counter_block = <<IV_out, 1>>
    BY GcmAssumption DEF counter_block
  <2>4. CTR_counter # 0 => Current \in Started
    BY <2>1 DEF CoreInv, WordsInStep, Started, Counted
  <2> QED BY <2>1, <2>2, <2>3, <2>4, PathMoves DEF CoreInv, MessageInStep
<1> QED BY <1>1, <1>2, <1>3, <1>4, <1>5, <1>6, <1>7, <1>8, <1>9 DEF MessageInStep

LEMMA WordsAfter ==
    ASSUME CoreInv, NEW in \in Input, NEW m \in Messages \cup {NoMessage}, Driven(in, m)
    PROVE  WordsInStep'
<1>1. /\ aadSent' = IF finish THEN 0 ELSE IF in.load_AAD THEN aadSent + 1 ELSE aadSent
      /\ dataSent' = IF finish THEN 0 ELSE IF in.load_data THEN dataSent + 1 ELSE dataSent
      /\ msg' = IF finish THEN NoMessage ELSE m
  BY DEF Driven
<1>2. aadSent \in Nat /\ dataSent \in Nat
  BY DEF CoreInv, WordsInStep
<1>3. /\ AAD_cnt' = IF Clear THEN 0 ELSE IF in.load_AAD THEN AAD_cnt + 1 ELSE AAD_cnt
      /\ CTR_counter' = IF Clear THEN 0
                        ELSE IF in.load_data THEN CTR_counter + 1 ELSE CTR_counter
  BY PathMoves DEF Driven, Clock, Clear, TagStep, ClearMessage, LengthStep
<1>4. aadSent' \in Nat /\ dataSent' \in Nat
  BY <1>1, <1>2
<1>5. Current' # "FINISH" => CTR_counter' = dataSent' /\ AAD_cnt' = aadSent'
  BY <1>1, <1>3 DEF CoreInv, WordsInStep, Clear, finish
<1>6. Current' = "FINISH" => CTR_counter' = 0 /\ AAD_cnt' = 0
  BY <1>3 DEF Clear
<1>7. msg' = NoMessage => aadSent' = 0 /\ dataSent' = 0
  <2> SUFFICES ASSUME ~finish, m = NoMessage PROVE aadSent' = 0 /\ dataSent' = 0
    BY <1>1
  <2>1. m = msg /\ ~in.load_IV
    BY NamesAssumption DEF Driven
  <2>2. ~in.load_AAD /\ ~in.load_data
    BY <2>1, Strobes, StatesOfMessage, NamesAssumption DEF Serving, Started, Counted
  <2> QED BY <1>1, <2>1, <2>2 DEF CoreInv, WordsInStep
<1>8. msg' # NoMessage => aadSent' <= msg'.aad /\ dataSent' <= msg'.data
  <2> SUFFICES ASSUME ~finish, m # NoMessage
               PROVE  aadSent' <= m.aad /\ dataSent' <= m.data
    BY <1>1
  <2>1. CASE in.load_IV
    <3>1. msg = NoMessage /\ aadSent = 0 /\ dataSent = 0 /\ ~in.load_AAD /\ ~in.load_data
      BY <2>1, Strobes DEF Driven, CoreInv, WordsInStep, Keying
    <3>2. m.aad \in Nat /\ m.data \in Nat
      BY <2>1, MessageParts DEF Driven
    <3> QED BY <1>1, <3>1, <3>2
  <2>2. CASE ~in.load_IV
    <3>1. m = msg /\ msg.aad \in Nat /\ msg.data \in Nat
      BY <2>2, MessageParts DEF Driven
    <3>2. aadSent <= msg.aad /\ dataSent <= msg.data
      BY <2>2, <3>1 DEF CoreInv, WordsInStep
    <3>3. /\ in.load_AAD => aadSent < msg.aad
          /\ in.load_data => dataSent < msg.data
      BY DEF Driven
    <3> QED BY <1>1, <1>2, <3>1, <3>2, <3>3
  <2> QED BY <2>1, <2>2
<1>9. Current' \in Keying \cup {"WAIT_TAG_REF", "WAIT_AAD"} => aadSent' = 0
  <2> SUFFICES ASSUME Current' \in Keying \cup {"WAIT_TAG_REF", "WAIT_AAD"}
               PROVE  aadSent' = 0
    OBVIOUS
  <2>1. Current \in Keying \cup {"IDLE", "WAIT_TAG_REF", "WAIT_AAD"} /\ ~in.load_AAD
    BY Moves, Strobes, StatesOfMessage DEF CUStates, Keying, Driven
  <2> QED BY <1>1, <2>1, StatesOfMessage DEF CoreInv, WordsInStep
<1>10. Current' \in {"WAIT_DATA"} \cup Counted => aadSent' = msg'.aad
  <2> SUFFICES ASSUME Current' \in {"WAIT_DATA"} \cup Counted PROVE aadSent' = msg'.aad
    OBVIOUS
  <2>1. Current \in {"WAIT_AAD", "LOAD_AAD", "WAIT_DATA"} \cup Counted
    BY Moves, StatesOfMessage DEF CUStates, Counted
  <2>2. m = msg /\ ~finish
    BY <2>1, Strobes DEF Keying, finish, Counted
  <2>3. msg.aad \in Nat
    BY <2>1, StatesOfMessage, MessageParts DEF Serving, Started
  <2>4. CASE Current = "WAIT_AAD"
    <3>1. msg.aad = 0 /\ ~in.load_AAD /\ aadSent = 0
      BY <2>4, Moves, <1>2 DEF Driven, Counted, CoreInv, WordsInStep
    <3> QED BY <1>1, <2>2, <3>1
  <2>5. CASE Current = "LOAD_AAD"
    <3>1. in.AAD_last
      BY <2>5, Moves DEF Counted
    <3> QED BY <1>1, <2>2, <3>1 DEF Driven
  <2>6. CASE Current \in {"WAIT_DATA"} \cup Counted
    <3>1. aadSent = msg.aad /\ ~in.load_AAD
      BY <2>6, Strobes DEF CoreInv, WordsInStep, Counted
    <3> QED BY <1>1, <2>2, <3>1
  <2> QED BY <2>1, <2>4, <2>5, <2>6
<1>11. Current' \notin Counted \cup {"FINISH"} => dataSent' = 0
  <2> SUFFICES ASSUME Current' \notin Counted \cup {"FINISH"} PROVE dataSent' = 0
    OBVIOUS
  <2>1. finish \/ (Current \notin Counted \cup {"FINISH"} /\ ~in.load_data)
    BY Moves, Strobes, StatesOfMessage DEF CUStates, Counted, finish
  <2> QED BY <1>1, <2>1 DEF CoreInv, WordsInStep
<1>12. Current' \in Ending => dataSent' = msg'.data
  <2> SUFFICES ASSUME Current' \in Ending PROVE dataSent' = msg'.data
    OBVIOUS
  <2>1. (Current = "LOAD_DATA" /\ in.data_in_last) \/ Current \in Ending
    BY Moves, StatesOfMessage DEF CUStates, Ending
  <2>2. m = msg /\ ~finish /\ (Current \in Ending => ~in.load_data /\ dataSent = msg.data)
    BY <2>1, Strobes DEF Keying, finish, Ending, CoreInv, WordsInStep
  <2> QED BY <1>1, <1>2, <2>1, <2>2 DEF Driven
<1> QED
  BY <1>4, <1>5, <1>6, <1>7, <1>8, <1>9, <1>10, <1>11, <1>12 DEF WordsInStep

LEMMA TagRefAfter ==
    ASSUME CoreInv, NEW in \in Input, NEW m \in Messages \cup {NoMessage}, Driven(in, m)
    PROVE  TagRefInStep'
<1>1. /\ Clear => tag_ref_loaded' = FALSE
      /\ ~Clear => tag_ref_loaded' = (tag_ref_loaded \/ in.load_tag_ref)
  BY DEF Driven, Clock, Clear, TagStep, ClearMessage, TagRefStep
<1>2. ~Clear => tag_ref_reg' = IF in.load_tag_ref /\ ~tag_ref_loaded THEN TagRef ELSE tag_ref_reg
  BY DEF Driven, Clock, Clear, TagStep, TagRefStep
<1>3. tag_ref_loaded' \in BOOLEAN
  BY <1>1
<1>4. Current' = "VERIFY_PASS" => mode'
  <2> SUFFICES ASSUME Current' = "VERIFY_PASS" PROVE mode'
    OBVIOUS
  <2>1. /\ Current \in Ending /\ (Current = "WAIT_PROCESS_FINISH" => Mode(m))
    BY Moves, StatesOfMessage DEF CUStates, Ending
  <2>2. msg' = msg /\ m = msg
    BY <2>1, Strobes DEF Driven, finish, Ending, Keying
  <2> QED BY <2>1, <2>2 DEF mode, Mode, Ending, CoreInv, TagRefInStep
<1>5. mode' /\ Current' \in {"WAIT_AAD"} \cup Started => tag_ref_loaded'
  <2> SUFFICES ASSUME mode', Current' \in {"WAIT_AAD"} \cup Started PROVE tag_ref_loaded'
    OBVIOUS
  <2>1. ~Clear
    BY Moves DEF Clear, finish, Started, Counted
  <2>2. msg' = m
    BY <2>1 DEF Driven, Clear
  <2>3. Mode(m) /\ (m = msg => mode)
    BY <2>2 DEF mode, Mode
  <2>4. \/ Current \in {"WAIT_AAD"} \cup Started
        \/ Current = "WAIT_TAG_REF" /\ tag_ref_loaded
        \/ Current = "WAIT_H_CAL" /\ tag_ref_loaded
    BY <2>3, Moves, StatesOfMessage DEF CUStates, Started, Counted
  <2>5. Current \in {"WAIT_AAD"} \cup Started => tag_ref_loaded
    BY <2>3, Strobes DEF CoreInv, TagRefInStep, Started, Counted, Keying
  <2> QED BY <1>1, <2>1, <2>4, <2>5
<1>6. tag_ref_loaded' => /\ Current' \notin {"IDLE", "FINISH"} /\ mode'
                         /\ tag_ref_reg' = TagRef'
  <2> SUFFICES ASSUME tag_ref_loaded'
               PROVE  Current' \notin {"IDLE", "FINISH"} /\ mode' /\ tag_ref_reg' = TagRef'
    OBVIOUS
  <2>1. ~Clear /\ Current' # "FINISH" /\ msg' = m
    BY <1>1 DEF Clear, Driven
  <2>2. tag_ref_loaded => Current \notin {"IDLE", "FINISH"} /\ mode /\ tag_ref_reg = TagRef
    BY DEF CoreInv, TagRefInStep
  <2>3. in.load_tag_ref => mode /\ Current \in {"WAIT_TAG_REF"} \cup Keying
    BY Strobes DEF Driven, tag_ref_ready
  <2>4. mode /\ Current \notin {"IDLE", "FINISH"}
    BY <1>1, <2>1, <2>2, <2>3 DEF Keying
  <2>5. m = msg
    BY <2>4 DEF Driven, mode, Mode
  <2>6. Current' # "IDLE"
    BY <2>4, Moves, StatesOfMessage DEF CUStates
  <2>7. tag_ref_reg' = TagRef
    BY <1>1, <1>2, <2>1, <2>2
  <2>8. TagRef' = TagRef /\ mode'
    BY <2>1, <2>4, <2>5 DEF TagRef, mode
  <2> QED BY <2>1, <2>6, <2>7, <2>8
<1> QED BY <1>3, <1>4, <1>5, <1>6 DEF TagRefInStep

-----------------------------------------------------------------------------
(* The tokens and the key.                                                 *)

LEMMA Facts ==
    ASSUME CoreInv
    PROVE  /\ CtrInv /\ CtrTypeOK /\ NR \in Nat
           /\ Derived \in Nat /\ Derived >= 1 /\ Derived + KeyWords = NR + 1
           /\ KeyWords \in 1..2 /\ DOMAIN round_key = 0..NR
           /\ IV_loaded \in BOOLEAN /\ gen_J0 \in BOOLEAN
BY GcmAssumption DEF CoreInv, CtrInv, CtrTypeOK, Derived

LEMMA TokensMove ==
    ASSUME CoreInv, PipeStep
    PROVE  /\ pipe'[0].type = data_type_in
           /\ data_type_in # "none" =>
                pipe'[0].val.blk = AES_data_in /\ pipe'[0].val.keys = {}
           /\ \A s \in 1..NR + 1 :
                /\ pipe'[s].type = pipe[s - 1].type
                /\ pipe[s - 1].type # "none" =>
                     /\ pipe'[s].val.blk = pipe[s - 1].val.blk
                     /\ pipe'[s].val.keys = pipe[s - 1].val.keys \cup {round_key[s - 1]}
<1>1. 0 \in Stages /\ ~(0 > 0)
  BY Facts DEF Stages
<1>2. /\ pipe'[0].type = data_type_in
      /\ data_type_in # "none" => pipe'[0].val.blk = AES_data_in /\ pipe'[0].val.keys = {}
  <2>1. CASE data_type_in = "none"
    BY <1>1, <2>1, BubbleIsToken DEF PipeStep
  <2>2. CASE data_type_in # "none"
    <3>1. pipe'[0] = [type |-> data_type_in, val |-> [blk |-> AES_data_in, keys |-> {}]]
      BY <1>1, <2>2 DEF PipeStep
    <3> QED BY <3>1
  <2> QED BY <2>1, <2>2
<1>3. ASSUME NEW s \in 1..NR + 1
      PROVE  /\ pipe'[s].type = pipe[s - 1].type
             /\ pipe[s - 1].type # "none" =>
                  /\ pipe'[s].val.blk = pipe[s - 1].val.blk
                  /\ pipe'[s].val.keys = pipe[s - 1].val.keys \cup {round_key[s - 1]}
  <2>1. s \in Stages /\ s > 0
    BY Facts DEF Stages
  <2>2. pipe'[s] = AddRoundKey(pipe[s - 1], round_key[s - 1])
    BY <2>1 DEF PipeStep
  <2>3. CASE pipe[s - 1].type = "none"
    BY <2>2, <2>3, BubbleIsToken DEF AddRoundKey
  <2>4. CASE pipe[s - 1].type # "none"
    BY <2>2, <2>4 DEF AddRoundKey
  <2> QED BY <2>3, <2>4
<1> QED BY <1>2, <1>3

LEMMA KindsMove ==
    ASSUME CoreInv, PipeStep
    PROVE  /\ Kind(0)' = data_type_in'
           /\ \A p \in Way : p > 0 => p - 1 \in Way /\ Kind(p)' = Kind(p - 1)
<1>1. Kind(0)' = data_type_in'
  BY DEF Kind
<1>2. ASSUME NEW p \in Way, p > 0
      PROVE  p - 1 \in Way /\ Kind(p)' = Kind(p - 1)
  <2>1. p \in Nat /\ p - 1 \in Way /\ p - 1 \in Stages
    BY <1>2, Facts DEF Way, Stages
  <2>2. Kind(p)' = pipe'[p - 1].type
    BY <1>2 DEF Kind
  <2>3. CASE p = 1
    <3>1. p - 1 = 0
      BY <2>3
    <3> QED BY <2>1, <2>2, <3>1, TokensMove DEF Kind
  <2>4. CASE p > 1
    <3>1. p - 1 \in 1..NR + 1 /\ p - 1 > 0 /\ p - 1 - 1 \in Stages
      BY <1>2, <2>1, <2>4, Facts DEF Way, Stages
    <3>2. pipe'[p - 1].type = pipe[p - 1 - 1].type
      BY <3>1, TokensMove
    <3>3. Kind(p - 1) = pipe[p - 1 - 1].type
      BY <2>1, <3>1, KindOf
    <3> QED BY <2>1, <2>2, <3>2, <3>3
  <2> QED BY <1>2, <2>1, <2>3, <2>4
<1> QED BY <1>1, <1>2

(* No token is left once the valid bits say so and nothing more enters.    *)
LEMMA QuietAfter ==
    ASSUME CoreInv, NEW in \in Input, NEW m \in Messages \cup {NoMessage}, Driven(in, m),
           ~gen_J0, AES_finish, ~in.load_key, ~in.load_data, ~in.data_in_last
    PROVE  Quiet'
<1>1. PipeStep /\ ~gen_J0' /\ data_type_in' = "none"
  BY PathMoves
<1>2. ASSUME NEW p \in Way PROVE Kind(p)' = "none"
  <2>1. CASE p = 0
    BY <1>1, <2>1 DEF Kind
  <2>2. CASE p = 1
    <3>1. p > 0 /\ p - 1 = 0
      BY <2>2
    <3>2. Kind(p)' = Kind(0)
      BY <1>1, <3>1, KindsMove
    <3> QED BY <3>2 DEF Kind, AES_finish
  <2>3. CASE p > 1
    <3>1. p - 1 \in Way /\ p - 1 > 0 /\ p - 1 - 1 \in 0..NR /\ p > 0
      BY <2>3, Facts DEF Way
    <3>2. Kind(p)' = Kind(p - 1) /\ Kind(p - 1) = pipe[p - 1 - 1].type
      BY <1>1, <3>1, KindsMove, KindOf
    <3> QED BY <3>1, <3>2 DEF AES_finish
  <2> QED BY <2>1, <2>2, <2>3, Facts DEF Way
<1> QED BY <1>1, <1>2 DEF Quiet

LEMMA HMoves ==
    ASSUME CoreInv, NEW in \in Input, NEW m \in Messages \cup {NoMessage}, Driven(in, m)
    PROVE  /\ H_loaded' = (~in.load_key /\ (H_loaded \/ H_valid))
           /\ ~in.load_key => H_reg' = IF H_valid /\ ~H_loaded THEN AES_data_out ELSE H_reg
           /\ KeyStep(expansion_en, cipher_key)
           /\ ~in.load_key => cipher_key' = cipher_key
<1>1. HStep(in.load_key, H_valid, AES_data_out)
  BY DEF Driven, Clock, TagStep
<1>2. KeyStep(expansion_en, cipher_key) /\ (~in.load_key => cipher_key' = cipher_key)
  BY DEF Driven, Clock
<1>3. H_loaded' = (~in.load_key /\ (H_loaded \/ H_valid))
  BY <1>1 DEF HStep
<1>4. ~in.load_key => H_reg' = IF H_valid /\ ~H_loaded THEN AES_data_out ELSE H_reg
  BY <1>1 DEF HStep
<1> QED BY <1>2, <1>3, <1>4

(* The H token enters.                                                     *)
LEMMA HStarts ==
    ASSUME CoreInv, NEW in \in Input, NEW m \in Messages \cup {NoMessage}, Driven(in, m),
           in.load_key
    PROVE  ~gen_J0' /\ HAlone(0)'
<1>1. Current = "IDLE" /\ Current' = "KEY_EXPANSION" /\ ~in.load_data /\ ~in.data_in_last
  BY Strobes, Moves
<1>2. Quiet /\ round_index = 0 /\ ~expansion_finish
  BY <1>1 DEF CoreInv, TokensInStep, KeyInStep, Keying, Moving
<1>3. ~gen_J0' /\ data_type_in' = "H" /\ PipeStep
  BY <1>1, PathMoves
<1>4. Kind(0)' = "H" /\ \A q \in Way : q # 0 => Kind(q)' = "none"
  <2>1. ASSUME NEW q \in Way, q # 0 PROVE Kind(q)' = "none"
    <3>1. q > 0
      BY <2>1, Facts DEF Way
    <3> QED BY <1>2, <1>3, <3>1, KindsMove DEF Quiet
  <2> QED BY <1>3, <2>1 DEF Kind
<1>5. round_index' = 0 /\ ~expansion_finish'
  BY <1>1, <1>2, HMoves DEF KeyStep, expansion_en
<1>6. 0 <= Derived /\ 0 \notin {Derived, Derived + 1} /\ 0 < Derived /\ ~(0 > 0)
  BY Facts
<1> QED BY <1>1, <1>3, <1>4, <1>5, <1>6 DEF HAlone

(* One clock of the expansion.                                             *)
LEMMA ExpansionMoves ==
    ASSUME CoreInv, KeyStep(expansion_en, cipher_key), NEW p \in Way, HAlone(p)
    PROVE  /\ expansion_finish' <=> p + 1 \in {Derived, Derived + 1}
           /\ round_index' = IF p + 1 < Derived THEN p + 1 ELSE 0
           /\ \A i \in 0..NR : i < KeyWords + p + 1 => round_key'[i] = cipher_key
<1>1. p \in Nat /\ p <= NR + 2
  BY Facts DEF Way
<1>2. /\ expansion_en <=> p <= Derived
      /\ expansion_finish <=> p \in {Derived, Derived + 1}
      /\ round_index = IF p < Derived THEN p ELSE 0
      /\ \A i \in 0..NR : p > 0 /\ i < KeyWords + p => round_key[i] = cipher_key
  BY DEF HAlone, expansion_en
<1>3. expansion_finish' <=> p + 1 \in {Derived, Derived + 1}
  <2>0. expansion_finish' <=> \/ expansion_finish /\ expansion_en
                              \/ ~expansion_finish /\ expansion_en /\ round_index = Derived - 1
    BY DEF KeyStep, expansion_en
  <2>1. CASE p < Derived
    BY <1>1, <1>2, <2>0, <2>1, Facts
  <2>2. CASE p = Derived
    BY <1>1, <1>2, <2>0, <2>2, Facts
  <2>3. CASE p > Derived
    BY <1>1, <1>2, <2>0, <2>3, Facts
  <2> QED BY <1>1, <2>1, <2>2, <2>3, Facts
<1>4. round_index' = IF p + 1 < Derived THEN p + 1 ELSE 0
  <2>1. CASE p < Derived
    BY <1>1, <1>2, <2>1, Facts DEF KeyStep
  <2>2. CASE p = Derived
    BY <1>1, <1>2, <2>2, Facts DEF KeyStep
  <2>3. CASE p > Derived
    BY <1>1, <1>2, <2>3, Facts DEF KeyStep
  <2> QED BY <1>1, <2>1, <2>2, <2>3, Facts
<1>5. ASSUME NEW i \in 0..NR, i < KeyWords + p + 1 PROVE round_key'[i] = cipher_key
  <2>1. CASE p > Derived
    <3>1. round_key' = round_key
      BY <1>1, <1>2, <2>1, Facts DEF KeyStep
    <3>2. p > 0 /\ i < KeyWords + p
      BY <1>1, <2>1, Facts
    <3> QED BY <1>2, <3>1, <3>2
  <2>2. CASE p <= Derived
    <3>1. round_key'[i] = IF i < KeyWords THEN cipher_key
                          ELSE IF i = round_index + KeyWords THEN NextKey(round_index, cipher_key)
                          ELSE round_key[i]
      BY <1>1, <1>2, <2>2, Facts DEF KeyStep
    <3>2. CASE i < KeyWords
      BY <3>1, <3>2
    <3>3. CASE i >= KeyWords /\ i = round_index + KeyWords
      <4>1. NextKey(round_index, cipher_key) = cipher_key
        <5>1. CASE round_index = 0
          BY <5>1, Facts DEF NextKey, Source
        <5>2. CASE round_index # 0
          <6>1. p > 0 /\ round_index = p /\ p < Derived
            BY <1>1, <1>2, <5>2, Facts
          <6>2. round_key[p + KeyWords - 1] = cipher_key /\ round_key[p] = cipher_key
            BY <1>1, <1>2, <6>1, Facts
          <6> QED BY <6>1, <6>2 DEF NextKey, Source
        <5> QED BY <5>1, <5>2
      <4> QED BY <3>1, <3>3, <4>1, Facts
    <3>4. CASE i >= KeyWords /\ i # round_index + KeyWords
      <4>1. round_key'[i] = round_key[i]
        BY <3>1, <3>4, Facts
      <4>2. p > 0 /\ i < KeyWords + p
        BY <1>1, <1>2, <1>5, <2>2, <3>4, Facts
      <4> QED BY <1>2, <4>1, <4>2
    <3> QED BY <3>2, <3>3, <3>4, Facts
  <2> QED BY <1>1, <2>1, <2>2, Facts
<1> QED BY <1>3, <1>4, <1>5

(* The H token and the expansion advance together.                         *)
LEMMA HAdvances ==
    ASSUME CoreInv, NEW in \in Input, NEW m \in Messages \cup {NoMessage}, Driven(in, m),
           Current \in Keying, ~H_loaded, NEW p \in Way, HAlone(p)
    PROVE  /\ ~gen_J0' /\ ~in.load_key /\ cipher_key' = cipher_key
           /\ H_valid <=> p = NR + 2
           /\ p < NR + 2 => \E q \in Way : HAlone(q)'
           /\ p = NR + 2 => Quiet' /\ Current' = "WAIT_H_CAL"
           /\ \A i \in 0..NR : i < KeyWords + p + 1 => round_key'[i] = cipher_key'
           /\ Current' = IF p + 1 <= Derived THEN "KEY_EXPANSION" ELSE "WAIT_H_CAL"
<1>1. p \in Nat /\ p <= NR + 2
  BY Facts DEF Way
<1>2. ~in.load_key /\ ~in.load_data /\ ~in.data_in_last /\ cipher_key' = cipher_key
  BY Strobes, HMoves DEF Keying
<1>3. ~gen_J0' /\ PipeStep /\ (~gen_J0 => data_type_in' = "none") /\ ~gen_J0
  BY <1>2, PathMoves DEF CoreInv, KeyInStep
<1>4. H_valid <=> p = NR + 2
  <2>1. NR + 1 \in Stages /\ NR + 1 + 1 = NR + 2
    BY Facts DEF Stages
  <2>2. NR + 2 \in Way /\ Kind(NR + 2) = pipe[NR + 1].type
    BY <2>1, KindOf
  <2> QED BY <2>2 DEF HAlone, H_valid, data_type_out
<1>5. ASSUME NEW q \in Way, q # p + 1 PROVE Kind(q)' = "none"
  <2>1. CASE q = 0
    BY <1>3, <2>1 DEF Kind
  <2>2. CASE q > 0
    <3>1. q - 1 \in Way /\ q - 1 # p
      BY <1>1, <1>5, <2>2, Facts DEF Way
    <3> QED BY <1>3, <2>2, <3>1, KindsMove DEF HAlone
  <2> QED BY <2>1, <2>2, Facts DEF Way
<1>6. /\ expansion_finish' <=> p + 1 \in {Derived, Derived + 1}
      /\ round_index' = IF p + 1 < Derived THEN p + 1 ELSE 0
      /\ \A i \in 0..NR : i < KeyWords + p + 1 => round_key'[i] = cipher_key
  BY HMoves, ExpansionMoves
<1>7. Current' = IF p + 1 <= Derived THEN "KEY_EXPANSION" ELSE "WAIT_H_CAL"
  <2>1. CASE p < Derived
    <3>1. Current = "KEY_EXPANSION" /\ ~expansion_finish
      BY <1>1, <2>1, Facts DEF HAlone
    <3> QED BY <1>1, <2>1, <3>1, Moves, Facts
  <2>2. CASE p = Derived
    <3>1. Current = "KEY_EXPANSION" /\ expansion_finish
      BY <1>1, <2>2, Facts DEF HAlone
    <3> QED BY <1>1, <2>2, <3>1, Moves, Facts
  <2>3. CASE p > Derived
    <3>1. Current = "WAIT_H_CAL"
      BY <1>1, <2>3, Facts DEF HAlone
    <3> QED BY <1>1, <2>3, <3>1, Moves, Facts
  <2> QED BY <1>1, <2>1, <2>2, <2>3, Facts
<1>8. ASSUME NEW q \in Way, q = p + 1 PROVE HAlone(q)'
  <2>1. q > 0 /\ q - 1 = p /\ p \in Stages
    BY <1>1, <1>8, Facts DEF Way, Stages
  <2>2. Kind(q)' = "H"
    BY <1>3, <2>1, KindsMove DEF HAlone
  <2>3. /\ pipe'[p].val.blk = ZeroBlock
        /\ pipe'[p].val.keys = IF q = 1 THEN {} ELSE {cipher_key}
    <3>1. CASE p = 0
      <4>1. data_type_in = "H"
        BY <3>1 DEF HAlone, Kind
      <4> QED BY <1>3, <1>8, <3>1, <4>1, TokensMove DEF AES_data_in
    <3>2. CASE p > 0
      <4>1. p \in 1..NR + 1 /\ p - 1 \in 0..NR /\ q # 1
        BY <1>1, <1>8, <3>2, Facts DEF Way
      <4>2. pipe[p - 1].type = "H"
        BY <3>2, KindOf DEF HAlone
      <4>3. round_key[p - 1] = cipher_key
        BY <1>1, <3>2, <4>1, Facts DEF HAlone
      <4>4. /\ pipe[p - 1].val.blk = ZeroBlock
            /\ pipe[p - 1].val.keys = IF p = 1 THEN {} ELSE {cipher_key}
        BY <3>2 DEF HAlone
      <4>5. /\ pipe'[p].val.blk = pipe[p - 1].val.blk
            /\ pipe'[p].val.keys = pipe[p - 1].val.keys \cup {round_key[p - 1]}
        BY <1>3, <4>1, <4>2, TokensMove
      <4> QED BY <4>1, <4>3, <4>4, <4>5
    <3> QED BY <1>1, <3>1, <3>2
  <2>4. \A r \in Way : r # q => Kind(r)' = "none"
    BY <1>5, <1>8
  <2>5. /\ expansion_finish' <=> q \in {Derived, Derived + 1}
        /\ round_index' = IF q < Derived THEN q ELSE 0
        /\ \A i \in 0..NR : q > 0 /\ i < KeyWords + q => round_key'[i] = cipher_key'
    BY <1>1, <1>2, <1>6, <1>8, Facts
  <2>6. Current' = IF q <= Derived THEN "KEY_EXPANSION" ELSE "WAIT_H_CAL"
    BY <1>7, <1>8
  <2>7. /\ pipe'[q - 1].val.blk = ZeroBlock
        /\ pipe'[q - 1].val.keys = IF q = 1 THEN {} ELSE {cipher_key'}
    BY <1>2, <2>1, <2>3
  <2> QED BY <2>2, <2>4, <2>5, <2>6, <2>7 DEF HAlone
<1>9. ASSUME p = NR + 2 PROVE Quiet' /\ Current' = "WAIT_H_CAL"
  <2>1. p + 1 \notin Way /\ ~(p + 1 <= Derived)
    BY <1>9, Facts DEF Way
  <2> QED BY <1>3, <1>5, <1>7, <2>1 DEF Quiet
<1>10. p < NR + 2 => p + 1 \in Way
  BY <1>1, Facts DEF Way
<1> QED BY <1>2, <1>3, <1>4, <1>6, <1>7, <1>8, <1>9, <1>10

LEMMA KeyAfter ==
    ASSUME CoreInv, NEW in \in Input, NEW m \in Messages \cup {NoMessage}, Driven(in, m)
    PROVE  KeyInStep'
<1>1. ASSUME in.load_key PROVE KeyInStep'
  <2>1. Current' = "KEY_EXPANSION" /\ ~gen_J0' /\ HAlone(0)' /\ cipher_key' \in Keys
    BY <1>1, HStarts, Strobes, Moves DEF Driven
  <2>2. H_loaded' = FALSE /\ 0 \in Way
    BY <1>1, HMoves, KindOf
  <2> QED BY <2>1, <2>2 DEF KeyInStep, Keying, Serving, Started, Counted
<1>2. ASSUME ~in.load_key, Current \in Keying, ~H_loaded PROVE KeyInStep'
  <2>1. PICK p \in Way : HAlone(p)
    BY <1>2 DEF CoreInv, KeyInStep
  <2>2. /\ ~gen_J0' /\ cipher_key' = cipher_key
        /\ H_valid <=> p = NR + 2
        /\ p < NR + 2 => \E q \in Way : HAlone(q)'
        /\ p = NR + 2 => Quiet' /\ Current' = "WAIT_H_CAL"
        /\ \A i \in 0..NR : i < KeyWords + p + 1 => round_key'[i] = cipher_key'
        /\ Current' = IF p + 1 <= Derived THEN "KEY_EXPANSION" ELSE "WAIT_H_CAL"
    BY <1>2, <2>1, HAdvances
  <2>3. p \in Nat /\ p <= NR + 2
    BY Facts DEF Way
  <2>4. H_loaded' <=> p = NR + 2
    BY <1>2, <2>2, HMoves DEF H_valid
  <2>5. H_loaded' \in BOOLEAN
    BY <1>2, HMoves DEF H_valid
  <2>6. Current' = "KEY_EXPANSION" => cipher_key' \in Keys
    <3>1. Current' = "KEY_EXPANSION" => p <= Derived
      BY <2>2, <2>3, Facts
    <3>2. p <= Derived => Current = "KEY_EXPANSION"
      BY <2>1 DEF HAlone
    <3> QED BY <2>2, <3>1, <3>2 DEF CoreInv, KeyInStep
  <2>7. H_loaded' => H_reg' = AES(cipher_key', ZeroBlock)
    <3> SUFFICES ASSUME p = NR + 2 PROVE H_reg' = AES(cipher_key', ZeroBlock)
      BY <2>4
    <3>1. H_reg' = AES_data_out
      BY <1>2, <2>2, HMoves
    <3>2. p > 0 /\ p # 1 /\ p - 1 = NR + 1 /\ NR + 1 \in Stages
      BY <2>1, Facts DEF Stages
    <3>3. pipe[NR + 1].val.blk = ZeroBlock /\ pipe[NR + 1].val.keys = {cipher_key}
      BY <2>1, <3>2 DEF HAlone
    <3>4. pipe[NR + 1].val \in Cipher
      BY <3>2, Facts DEF CtrTypeOK
    <3> QED BY <2>2, <3>1, <3>3, <3>4 DEF AES_data_out, AES, Cipher
  <2>8. Current' \in Keying
    BY <2>2 DEF Keying
  <2>9. Current' # "KEY_EXPANSION" => \A i \in 0..NR : round_key'[i] = cipher_key'
    BY <2>2, <2>3, Facts
  <2>10. H_loaded' => round_index' = 0 /\ ~expansion_finish'
    <3> SUFFICES ASSUME p = NR + 2 PROVE round_index' = 0 /\ ~expansion_finish'
      BY <2>4
    <3> QED BY <2>1, Facts, HMoves, ExpansionMoves
  <2>11. ~H_loaded' => \E q \in Way : HAlone(q)'
    BY <2>2, <2>3, <2>4, Facts DEF Way
  <2>12. Current' \notin Serving \cup {"FINISH"}
    BY <2>2 DEF Serving, Started, Counted
  <2> QED BY <2>2, <2>4, <2>5, <2>6, <2>7, <2>8, <2>9, <2>10, <2>11, <2>12 DEF KeyInStep
<1>3. ASSUME ~in.load_key, Current \in Keying => H_loaded PROVE KeyInStep'
  <2>1. /\ Current # "KEY_EXPANSION" /\ cipher_key' = cipher_key
        /\ KeyStep(expansion_en, cipher_key)
    BY <1>3, HMoves, StatesOfMessage DEF Keying
  <2>2. /\ \A i \in 0..NR : round_key[i] = cipher_key
        /\ round_index = 0 /\ ~expansion_finish
    BY <1>3, <2>1 DEF CoreInv, KeyInStep
  <2>3. round_key' = round_key /\ round_index' = 0 /\ ~expansion_finish'
    BY <2>1, <2>2 DEF KeyStep, expansion_en
  <2>4. Current' \notin Keying
    BY <1>3, <2>1, Moves, StatesOfMessage DEF CUStates, Keying
  <2>5. ~H_valid
    <3>1. CASE Quiet
      BY <3>1, NothingOnTheWay
    <3>2. CASE ~Quiet
      <4>1. Current \in Moving
        BY <1>3, <3>2 DEF CoreInv, TokensInStep, KeyInStep
      <4>2. NR + 1 \in Stages
        BY Facts DEF Stages
      <4> QED BY <4>1, <4>2 DEF CoreInv, TokensInStep, H_valid, data_type_out
    <3> QED BY <3>1, <3>2
  <2>6. (H_loaded' <=> H_loaded) /\ H_reg' = H_reg
    BY <1>3, <2>5, HMoves
  <2>7. H_loaded' \in BOOLEAN
    BY <1>3, <2>5, HMoves DEF CoreInv, KeyInStep
  <2>8. Current' \in Serving \cup {"FINISH"} => H_loaded
    <3>1. Current = "IDLE" /\ Current' # "IDLE" => in.load_IV /\ H_loaded
      BY <1>3, Moves, Strobes DEF Driven, Keying
    <3>2. Current \in CUStates /\ Current # "IDLE" => Current \in Keying \cup Serving \cup {"FINISH"}
      BY DEF CUStates, Keying, Serving, Started, Counted
    <3> QED BY <1>3, <3>1, <3>2, StatesOfMessage DEF CoreInv, KeyInStep, Serving, Started, Counted
  <2> QED BY <2>1, <2>2, <2>3, <2>4, <2>6, <2>7, <2>8 DEF CoreInv, KeyInStep, Keying
<1> QED BY <1>1, <1>2, <1>3

LEMMA TokensAfter ==
    ASSUME CoreInv, NEW in \in Input, NEW m \in Messages \cup {NoMessage}, Driven(in, m)
    PROVE  TokensInStep'
<1>1. ASSUME Current' \notin Keying \cup Moving PROVE Quiet'
  <2>1. ~in.load_key /\ ~in.load_data /\ ~in.data_in_last
    BY <1>1, Strobes, Moves DEF Keying, Moving, Driven
  <2>2. CASE Quiet
    BY <2>1, <2>2, NothingOnTheWay, QuietAfter DEF Quiet
  <2>3. CASE Current = "WAIT_PROCESS_FINISH"
    <3>1. AES_finish /\ tag_process_valid
      BY <1>1, <2>3, Moves DEF process_finish, Moving
    <3>2. ~gen_J0
      BY <2>3, <3>1 DEF CoreInv, ResultInStep
    <3> QED BY <2>1, <3>1, <3>2, QuietAfter
  <2>4. CASE Current \in Keying
    <3>1. H_loaded
      BY <1>1, <2>4, Moves DEF Keying
    <3> QED BY <2>2, <2>4, <3>1 DEF CoreInv, KeyInStep
  <2>5. Current = "LOAD_DATA" => in.data_in_last \/ Current' \in Moving
    BY Moves DEF Moving
  <2> QED BY <1>1, <2>1, <2>2, <2>3, <2>4, <2>5 DEF CoreInv, TokensInStep, Moving
<1>2. ASSUME Current' \in Moving
      PROVE  /\ data_type_in' # "H"
             /\ \A s \in Stages :
                  /\ pipe'[s].type # "H"
                  /\ pipe'[s].type = "J0" => pipe'[s].val.blk = <<msg'.iv, 1>>
                  /\ pipe'[s].type # "none" =>
                        pipe'[s].val.keys = IF s = 0 THEN {} ELSE {cipher_key'}
  <2>1. Current \in {"WAIT_DATA"} \cup Moving
    BY <1>2, Moves, StatesOfMessage DEF CUStates, Moving
  <2>2. /\ ~in.load_key /\ cipher_key' = cipher_key /\ m = msg /\ msg' = msg
        /\ Current \in Started /\ Current # "KEY_EXPANSION"
    BY <2>1, Strobes, HMoves DEF Moving, Keying, Driven, finish, Started, Counted
  <2>3. /\ data_type_in # "H"
        /\ \A s \in Stages :
              /\ pipe[s].type # "H"
              /\ pipe[s].type = "J0" => pipe[s].val.blk = <<msg.iv, 1>>
              /\ pipe[s].type # "none" =>
                    pipe[s].val.keys = IF s = 0 THEN {} ELSE {cipher_key}
    <3>1. CASE Current = "WAIT_DATA"
      <4>1. Quiet
        BY <3>1 DEF CoreInv, TokensInStep, Keying, Moving
      <4> QED BY <4>1, QuietRegisters
    <3>2. CASE Current \in Moving
      BY <3>2 DEF CoreInv, TokensInStep
    <3> QED BY <2>1, <3>1, <3>2
  <2>4. PipeStep /\ data_type_in' # "H"
    BY <2>2, PathMoves
  <2>5. ASSUME NEW s \in Stages
        PROVE  /\ pipe'[s].type # "H"
               /\ pipe'[s].type = "J0" => pipe'[s].val.blk = <<msg'.iv, 1>>
               /\ pipe'[s].type # "none" =>
                     pipe'[s].val.keys = IF s = 0 THEN {} ELSE {cipher_key'}
    <3>1. CASE s = 0
      <4>1. J0 = <<msg.iv, 1>>
        BY <2>2 DEF CoreInv, MessageInStep
      <4> QED BY <2>2, <2>3, <2>4, <3>1, <4>1, TokensMove DEF AES_data_in
    <3>2. CASE s # 0
      <4>1. s \in 1..NR + 1 /\ s - 1 \in Stages /\ s - 1 \in 0..NR
        BY <2>5, <3>2, Facts DEF Stages
      <4>2. round_key[s - 1] = cipher_key
        BY <2>2, <4>1 DEF CoreInv, KeyInStep
      <4>3. /\ pipe'[s].type = pipe[s - 1].type
            /\ pipe[s - 1].type # "none" =>
                  /\ pipe'[s].val.blk = pipe[s - 1].val.blk
                  /\ pipe'[s].val.keys = pipe[s - 1].val.keys \cup {round_key[s - 1]}
        BY <2>4, <4>1, TokensMove
      <4>4. pipe[s - 1].type # "none" =>
              pipe[s - 1].val.keys = IF s - 1 = 0 THEN {} ELSE {cipher_key}
        BY <2>3, <4>1
      <4> QED BY <2>2, <2>3, <3>2, <4>1, <4>2, <4>3, <4>4
    <3> QED BY <3>1, <3>2
  <2> QED BY <2>4, <2>5
<1> QED BY <1>1, <1>2 DEF TokensInStep

(* Data blocks are on their way only while data is.                        *)
LEMMA BlocksMoving ==
    ASSUME CoreInv, \/ \E s \in Stages : pipe[s].type \in {"CTR", "J0"}
                    \/ data_type_in \in {"CTR", "J0"}
    PROVE  Current \in Moving
<1>1. ~Quiet
  BY QuietRegisters
<1>2. CASE Current \in Keying /\ ~H_loaded
  <2>1. PICK p \in Way : HAlone(p)
    BY <1>2 DEF CoreInv, KeyInStep
  <2>2. \A q \in Way : Kind(q) \in {"H", "none"}
    BY <2>1 DEF HAlone
  <2> QED BY <2>2, KindOf
<1> QED BY <1>1, <1>2 DEF CoreInv, TokensInStep, KeyInStep

LEMMA FetchedAfter ==
    ASSUME CoreInv, NEW in \in Input, NEW m \in Messages \cup {NoMessage}, Driven(in, m)
    PROVE  OutputInStep'
<1> DEFINE d == Drive(in, m)
<1>1. /\ d \in DriverInput /\ Edge(d) /\ CtrInv /\ PipeStep
      /\ d.clear = Clear /\ d.load_data = in.load_data
  <2>1. d \in DriverInput
    BY DriveIsInput
  <2>2. Edge(d) /\ PipeStep
    BY PathMoves
  <2>3. d.clear = Clear /\ d.load_data = in.load_data
    BY DEF Drive
  <2> QED BY <2>1, <2>2, <2>3, Facts
<1>2. CtrStep(in.load_key, in.load_data, in.data_in_last,
              DataWord(IF m = NoMessage THEN ZeroIV ELSE m.iv, dataSent + 1),
              in.load_IV, IF m = NoMessage THEN ZeroIV ELSE m.iv, Clear)
  BY DEF Driven, Clock, Clear
<1>3. ASSUME keystream_valid'
      PROVE  /\ AES_data_out'.blk[1] = IV_out' /\ Number(NR + 1)' = fetched'
             /\ FIFO_data'.last = (fetched' = msg'.data)
  <2>1. NR + 1 \in 1..NR + 1 /\ NR + 1 - 1 = NR /\ NR \in 0..NR /\ NR \in Stages
    BY Facts DEF Stages
  <2>2. Carries(NR) /\ pipe'[NR + 1].val.blk = pipe[NR].val.blk
    BY <1>1, <1>3, <2>1, TokensMove DEF keystream_valid, data_type_out, Carries
  <2>3. /\ Number(NR) = fetched + 1 /\ fetched + 1 <= CTR_counter
        /\ pipe[NR].val.blk[1] = IV_out
    BY <1>1, <2>1, <2>2, NextFetched DEF CtrInv, BlocksLoaded
  <2>4. ~Clear
    BY <2>2, DrainedBeforeClear
  <2>5. Current \in Moving
    BY <2>1, <2>2, BlocksMoving DEF Carries
  <2>6. ~in.load_IV /\ m = msg /\ msg' = msg
    BY <2>4, <2>5, Strobes DEF Moving, Keying, Driven, Clear
  <2>7. IV_out' = IV_out /\ fetched' = fetched + 1
    BY <2>2, <2>4, <2>6, PathMoves
  <2>8. FIFO_data' = memory_array[r_ptr]
    BY <1>2, <2>2 DEF CtrStep, FifoStep, data_req, Carries
  <2>9. ASSUME NEW n \in fetched + 1 .. CTR_counter, n = fetched + 1
        PROVE  memory_array[r_ptr].last = (n = msg.data)
    <3>1. memory_array[Forward(r_ptr, n - fetched - 1)].last = (n = msg.data)
      BY <2>9 DEF CoreInv, OutputInStep
    <3>2. Forward(r_ptr, n - fetched - 1) = r_ptr
      BY <1>1, <2>9, Typed DEF Forward
    <3> QED BY <3>1, <3>2
  <2>10. fetched + 1 \in fetched + 1 .. CTR_counter
    BY <1>1, <2>3, Typed
  <2>11. memory_array[r_ptr].last = (fetched + 1 = msg.data)
    BY <2>9, <2>10
  <2> QED BY <2>2, <2>3, <2>6, <2>7, <2>8, <2>11 DEF AES_data_out, Number
<1>4. ASSUME NEW n \in fetched' + 1 .. CTR_counter'
      PROVE  memory_array'[Forward(r_ptr', n - fetched' - 1)].last = (n = msg'.data)
  <2>1. ~Clear
    <3>1. Clear => CTR_counter' = 0 /\ fetched' = 0
      BY PathMoves
    <3> QED BY <1>4, <3>1
  <2>2. CASE n = CTR_counter + 1
    <3>1. /\ in.load_data
          /\ memory_array'[Forward(r_ptr', n - fetched' - 1)] = memory_array'[w_ptr]
      BY <1>1, <1>4, <2>1, <2>2, EntriesAfter
    <3>2. memory_array'[w_ptr].last = in.data_in_last
      BY <1>1, <1>2, <3>1, Typed DEF CtrStep, FifoStep, CtrTypeOK
    <3>3. CTR_counter = dataSent /\ m = msg /\ msg' = msg
      BY <2>1, <3>1, Strobes DEF Driven, Clear, Keying, CoreInv, WordsInStep, finish
    <3>4. in.data_in_last = (dataSent + 1 = msg.data)
      BY <3>1 DEF Driven
    <3> QED BY <2>2, <3>1, <3>2, <3>3, <3>4
  <2>3. CASE n # CTR_counter + 1
    <3>1. /\ n \in fetched + 1 .. CTR_counter
          /\ memory_array'[Forward(r_ptr', n - fetched' - 1)]
               = memory_array[Forward(r_ptr, n - fetched - 1)]
      BY <1>1, <1>4, <2>1, <2>3, EntriesAfter
    <3>2. memory_array[Forward(r_ptr, n - fetched - 1)].last = (n = msg.data)
      BY <3>1 DEF CoreInv, OutputInStep
    <3>3. fetched # CTR_counter
      BY <1>1, <3>1, Typed
    <3>4. Pending
      BY <1>1, <3>3, NothingPending
    <3>5. Current \in Moving
      BY <3>4, Facts, BlocksMoving DEF Pending, Stages
    <3>6. msg' = msg
      BY <2>1, <3>5, Strobes DEF Moving, Keying, Driven, Clear
    <3> QED BY <3>1, <3>2, <3>6
  <2> QED BY <2>2, <2>3
<1> QED BY <1>3, <1>4 DEF OutputInStep

-----------------------------------------------------------------------------
(* Sequences as functions, and the words of a message.                     *)

LEMMA AppendIs ==
    ASSUME NEW n \in Nat, NEW f, f = [i \in 1..n |-> f[i]], NEW e
    PROVE  /\ Append(f, e) = [i \in 1..n + 1 |-> IF i = n + 1 THEN e ELSE f[i]]
           /\ Len(f) = n /\ Len(Append(f, e)) = n + 1
OBVIOUS

LEMMA ConcatIs ==
    ASSUME NEW n \in Nat, NEW k \in Nat, NEW f, NEW g,
           f = [i \in 1..n |-> f[i]], g = [i \in 1..k |-> g[i]]
    PROVE  f \o g = [i \in 1..n + k |-> IF i <= n THEN f[i] ELSE g[i - n]]
OBVIOUS

LEMMA HashAppends ==
    ASSUME NEW x, NEW n \in Nat, NEW w, w = HashWord(x, n + 1)
    PROVE  Append(Hash(x, n), <<AES(x.key, ZeroBlock), w>>) = Hash(x, n + 1)
<1> DEFINE f == Hash(x, n)
           e == <<AES(x.key, ZeroBlock), w>>
<1>1. f = [i \in 1..n |-> f[i]] /\ \A i \in 1..n : f[i] = <<AES(x.key, ZeroBlock), HashWord(x, i)>>
  BY DEF Hash
<1> HIDE DEF f
<1>2. Append(f, e) = [i \in 1..n + 1 |-> IF i = n + 1 THEN e ELSE f[i]]
  BY <1>1, AppendIs
<1>3. \A i \in 1..n + 1 : i # n + 1 => i \in 1..n
  OBVIOUS
<1>4. Append(f, e) = [i \in 1..n + 1 |-> <<AES(x.key, ZeroBlock), HashWord(x, i)>>]
  BY <1>1, <1>2, <1>3
<1> QED BY <1>4 DEF Hash, f

(* The tag is over the hash of all words and the length.                   *)
LEMMA TagIsOfHash ==
    ASSUME NEW x \in Messages
    PROVE  S!GcmTag(x) = Tag(Hash(x, x.aad + x.data + 1), AES(x.key, <<x.iv, 1>>))
<1> DEFINE H == AES(x.key, ZeroBlock)
           f == [i \in 1..x.aad |-> <<H, AADWord(x.iv, i)>>]
           g == [i \in 1..x.data |-> <<H, S!CipherWord(x, i)>>]
           l == <<<<H, LengthWord(x.aad, x.data)>>>>
<1>1. x.aad \in Nat /\ x.data \in Nat
  BY MessageParts
<1>2. S!GcmTag(x) = Tag(f \o g \o l, AES(x.key, <<x.iv, 1>>))
  BY DEF S!GcmTag, S!Tag, Tag, S!AES, AES, S!AADWord, AADWord, S!LengthWord, LengthWord,
     S!ZeroBlock, ZeroBlock
<1>3. /\ f = [i \in 1..x.aad |-> f[i]] /\ \A i \in 1..x.aad : f[i] = <<H, AADWord(x.iv, i)>>
      /\ g = [i \in 1..x.data |-> g[i]] /\ \A i \in 1..x.data : g[i] = <<H, S!CipherWord(x, i)>>
      /\ l = [i \in 1..1 |-> l[i]] /\ l[1] = <<H, LengthWord(x.aad, x.data)>>
  OBVIOUS
<1> HIDE DEF f, g, l, H
<1> DEFINE fg == f \o g
<1>4. fg = [i \in 1..x.aad + x.data |-> IF i <= x.aad THEN f[i] ELSE g[i - x.aad]]
  BY SMTT(30), <1>1, <1>3, ConcatIs
<1> HIDE DEF fg
<1>5. fg = [i \in 1..x.aad + x.data |-> fg[i]] /\ x.aad + x.data \in Nat
  BY <1>1, <1>4
<1>6. fg \o l = [i \in 1..x.aad + x.data + 1 |->
                   IF i <= x.aad + x.data THEN fg[i] ELSE l[i - (x.aad + x.data)]]
  BY <1>3, <1>5, ConcatIs
<1>7. ASSUME NEW i \in 1..x.aad + x.data + 1
      PROVE  (IF i <= x.aad + x.data THEN fg[i] ELSE l[i - (x.aad + x.data)])
               = <<H, HashWord(x, i)>>
  <2>1. CASE i <= x.aad
    <3>1. i \in 1..x.aad /\ i \in 1..x.aad + x.data /\ i <= x.aad + x.data
      BY <1>1, <2>1
    <3>2. fg[i] = f[i] /\ f[i] = <<H, AADWord(x.iv, i)>>
      BY <1>3, <1>4, <2>1, <3>1
    <3> QED BY <2>1, <3>1, <3>2 DEF HashWord
  <2>2. CASE i > x.aad /\ i <= x.aad + x.data
    <3>1. i - x.aad \in 1..x.data /\ i \in 1..x.aad + x.data /\ ~(i <= x.aad)
      BY <1>1, <2>2
    <3>2. fg[i] = g[i - x.aad]
      BY <1>4, <3>1
    <3>3. g[i - x.aad] = <<H, S!CipherWord(x, i - x.aad)>>
      BY <1>3, <3>1
    <3>4. HashWord(x, i) = S!CipherWord(x, i - x.aad)
      BY <2>2, <3>1 DEF HashWord
    <3> QED BY <2>2, <3>2, <3>3, <3>4
  <2>3. CASE i > x.aad + x.data
    <3>1. i - (x.aad + x.data) = 1 /\ ~(i <= x.aad) /\ ~(i <= x.aad + x.data)
      BY <1>1, <2>3
    <3> QED BY <1>3, <3>1 DEF HashWord
  <2> QED BY <1>1, <2>1, <2>2, <2>3
<1>8. fg \o l = Hash(x, x.aad + x.data + 1)
  BY <1>6, <1>7 DEF Hash, H
<1> QED BY <1>2, <1>8 DEF fg

LEMMA TagIsNotZero ==
    ASSUME NEW x \in Messages
    PROVE  S!GcmTag(x) # ZeroTag
<1> DEFINE n == x.aad + x.data + 1
<1>1. n \in Nat /\ n >= 1
  BY MessageParts
<1>2. S!GcmTag(x) = Tag(Hash(x, n), AES(x.key, <<x.iv, 1>>))
  BY TagIsOfHash
<1>3. Hash(x, n) = [i \in 1..n |-> Hash(x, n)[i]]
  BY DEF Hash
<1>4. Len(Hash(x, n)) = n
  BY <1>1, <1>3, AppendIs
<1>5. Hash(x, n) # <<>>
  BY <1>1, <1>4
<1> QED BY <1>2, <1>5 DEF Tag, ZeroTag

(* The block that leaves the pipeline is the keystream of the word that    *)
(* leaves the FIFO.                                                        *)
LEMMA KeystreamOut ==
    ASSUME CoreInv, keystream_valid
    PROVE  /\ Current \in Moving /\ msg \in Messages
           /\ fetched \in Nat /\ fetched >= 1
           /\ AES_data_out = S!Keystream(msg, fetched)
           /\ FIFO_data.word = DataWord(msg.iv, fetched)
           /\ XorWord(FIFO_data.word, AES_data_out) = S!Answer(msg, fetched)
           /\ CT(mode) = S!CipherWord(msg, fetched)
<1>1. NR + 1 \in Stages /\ NR + 1 # 0
  BY Facts DEF Stages
<1>2. Current \in Moving /\ msg \in Messages
  <2>1. Current \in Moving
    BY <1>1, BlocksMoving DEF keystream_valid, data_type_out
  <2> QED BY <2>1, StatesOfMessage DEF Moving, Serving, Started, Counted
<1> DEFINE b == AES_data_out.blk
<1>3. AES_data_out.keys = {msg.key}
  BY <1>1, <1>2, NamesAssumption DEF CoreInv, TokensInStep, MessageInStep, keystream_valid,
     data_type_out, AES_data_out
<1>4. b[1] = msg.iv /\ BlockIndex(b[2]) = fetched
  BY <1>2, NamesAssumption DEF CoreInv, OutputInStep, MessageInStep, Moving, AES_data_out, Number
<1>5. AES_data_out \in Cipher /\ b \in Block
  BY <1>1, Facts DEF CtrTypeOK, AES_data_out, Cipher
<1>6. b = <<b[1], b[2]>> /\ b[2] \in 0..CtrMax
  BY <1>5 DEF Block
<1>7. b[2] # 1
  BY <1>1, Facts DEF CtrInv, BlocksApart, keystream_valid, data_type_out, AES_data_out
<1>8. fetched \in Nat /\ fetched >= 1 /\ b[2] = (fetched + 1) % (CtrMax + 1)
  <2>1. CtrMax \in Nat /\ CtrMax > 0
    BY GcmAssumption
  <2>2. CASE b[2] = 0
    <3>1. fetched = CtrMax
      BY <1>4, <2>2 DEF BlockIndex
    <3> QED BY <2>1, <2>2, <3>1
  <2>3. CASE b[2] # 0
    <3>1. fetched = b[2] - 1 /\ b[2] > 1
      BY <1>4, <1>6, <1>7, <2>1, <2>3 DEF BlockIndex
    <3> QED BY <1>6, <2>1, <3>1
  <2> QED BY <2>2, <2>3
<1>9. AES_data_out = S!Keystream(msg, fetched)
  <2>1. b = <<msg.iv, (fetched + 1) % (CtrMax + 1)>>
    BY <1>4, <1>6, <1>8
  <2> QED BY <1>3, <1>5, <2>1 DEF S!Keystream, S!AES, AES, Cipher
<1>10. FIFO_data.word = DataWord(msg.iv, fetched)
  BY <1>4, Facts DEF CtrInv, KeystreamMatchesWord
<1>11. XorWord(FIFO_data.word, AES_data_out) = S!Answer(msg, fetched)
  BY <1>9, <1>10 DEF S!Answer, S!XorWord, S!DataWord, XorWord, DataWord
<1>12. CT(mode) = S!CipherWord(msg, fetched)
  BY <1>2, <1>10, <1>11, NamesAssumption DEF CT, mode, Mode, S!CipherWord, S!DataWord, DataWord
<1> QED BY <1>2, <1>8, <1>9, <1>10, <1>11, <1>12

-----------------------------------------------------------------------------
(* The answers, the hash and the result.                                   *)

LEMMA Counts ==
    ASSUME CoreInv
    PROVE  /\ fetched \in Nat /\ CT_cnt \in Nat /\ Len(produced) \in Nat
           /\ aadSent \in Nat /\ dataSent \in Nat /\ fetched <= CTR_counter
           /\ Current # "FINISH" =>
                /\ keystream_valid => fetched = CT_cnt + 1
                /\ ~keystream_valid => fetched = CT_cnt
                /\ data_valid => CT_cnt = Len(produced) + 1
                /\ ~data_valid => CT_cnt = Len(produced)
                /\ CTR_counter = dataSent /\ AAD_cnt = aadSent
                /\ msg # NoMessage => fetched <= msg.data
                /\ Current \notin Counted => CT_cnt = 0 /\ ~data_valid /\ produced = <<>>
           /\ msg # NoMessage => dataSent <= msg.data /\ aadSent <= msg.aad
           /\ Current \in Moving => Current \in Counted /\ msg \in Messages
           /\ Current \in Counted => msg \in Messages /\ AAD_cnt = msg.aad
<1>1. fetched \in Nat /\ Len(produced) \in Nat /\ aadSent \in Nat /\ dataSent \in Nat
      /\ fetched <= CTR_counter
  BY Facts, Typed DEF CoreInv, AnswersInStep, WordsInStep
<1>2. Current # "FINISH" =>
        /\ keystream_valid => fetched = CT_cnt + 1
        /\ ~keystream_valid => fetched = CT_cnt + 0
        /\ data_valid => CT_cnt = Len(produced) + 1
        /\ ~data_valid => CT_cnt = Len(produced) + 0
  BY DEF CoreInv, AnswersInStep, One
<1>3. CT_cnt \in Nat
  BY <1>1, <1>2 DEF CoreInv, AnswersInStep
<1>4. Current # "FINISH" => CTR_counter = dataSent /\ AAD_cnt = aadSent
  BY DEF CoreInv, WordsInStep
<1>5. msg # NoMessage => dataSent <= msg.data /\ aadSent <= msg.aad
  BY DEF CoreInv, WordsInStep
<1>6. Current # "FINISH" /\ msg # NoMessage => fetched <= msg.data
  BY <1>1, <1>4, <1>5, StatesOfMessage, MessageParts
<1>7. /\ Current \in Moving => Current \in Counted /\ msg \in Messages
      /\ Current \in Counted => msg \in Messages /\ AAD_cnt = msg.aad
  BY <1>4, StatesOfMessage DEF Moving, Counted, Serving, Started, CoreInv, WordsInStep
<1>8. ASSUME Current # "FINISH", Current \notin Counted
      PROVE  CT_cnt = 0 /\ ~data_valid /\ produced = <<>>
  <2>1. dataSent = 0
    BY <1>8 DEF CoreInv, WordsInStep
  <2>2. CT_cnt = 0 /\ ~data_valid /\ Len(produced) = 0
    BY <1>1, <1>2, <1>3, <1>4, <1>8, <2>1
  <2>3. produced = [i \in 1..0 |-> S!Answer(msg, i)]
    BY <2>2 DEF CoreInv, AnswersInStep
  <2> QED BY <2>2, <2>3
<1> QED BY <1>1, <1>2, <1>3, <1>4, <1>5, <1>6, <1>7, <1>8

(* Once the last word's block is fetched, no block is left.                *)
LEMMA LastFetched ==
    ASSUME CoreInv, Current \in Counted, fetched = msg.data
    PROVE  ~Carries(NR) /\ dataSent = msg.data
<1>1. fetched <= CTR_counter /\ CTR_counter = dataSent /\ dataSent <= msg.data
      /\ fetched \in Nat /\ dataSent \in Nat
  BY Counts, MessageParts DEF Counted
<1>2. Carries(NR) => fetched + 1 <= CTR_counter
  BY Facts, NextFetched
<1> QED BY <1>1, <1>2

LEMMA OutputMoves ==
    ASSUME CoreInv, PipeStep
    PROVE  keystream_valid' <=> Carries(NR)
<1>1. NR \in Nat /\ NR + 1 \in 1..NR + 1 /\ NR + 1 - 1 = NR
  BY Facts
<1>2. ASSUME NEW s \in 1..NR + 1, s = NR + 1 PROVE pipe'[s].type = pipe[NR].type
  <2>1. pipe'[s].type = pipe[s - 1].type
    BY TokensMove
  <2>2. s - 1 = NR
    BY <1>1, <1>2
  <2> QED BY <2>1, <2>2
<1>3. pipe'[NR + 1].type = pipe[NR].type
  BY <1>1, <1>2
<1> QED BY <1>3 DEF keystream_valid, data_type_out, Carries

LEMMA TagMoves ==
    ASSUME CoreInv, NEW in \in Input, NEW m \in Messages \cup {NoMessage}, Driven(in, m)
    PROVE  /\ Clear => ClearMessage
           /\ ~Clear =>
                /\ CT_cnt' = IF keystream_valid THEN CT_cnt + 1 ELSE CT_cnt
                /\ AAD_cnt' = IF in.load_AAD THEN AAD_cnt + 1 ELSE AAD_cnt
                /\ length_block_valid' = CT_last
                /\ ghash_finish' = (ghash_finish \/ length_block_valid)
                /\ E_loaded' = (E_loaded \/ E_valid)
                /\ E_reg' = IF E_valid /\ ~E_loaded THEN AES_data_out ELSE E_reg
                /\ tag_process_valid' = (ghash_finish /\ E_loaded)
                /\ ghash_finish /\ E_loaded => tag' = Tag(ghash_out, E_reg)
<1>1. \/ Clear /\ ClearMessage
      \/ /\ ~Clear
         /\ LengthStep(in.load_AAD, keystream_valid, CT_last)
         /\ ResultStep(E_valid, AES_data_out)
         /\ ghash_finish' = (ghash_finish \/ length_block_valid)
  BY DEF Driven, Clock, Clear, TagStep, GHASHStep
<1> QED BY <1>1 DEF LengthStep, ResultStep

(* A message ends with no word left to answer.                             *)
LEMMA AnsweredBeforeClear ==
    ASSUME CoreInv, NEW in \in Input, NEW m \in Messages \cup {NoMessage}, Driven(in, m),
           Clear
    PROVE  ~keystream_valid
<1>1. CASE Quiet
  BY <1>1, NothingOnTheWay
<1>2. CASE Current = "WAIT_PROCESS_FINISH"
  <2>1. tag_process_valid
    BY <1>2, Moves DEF Clear, finish, process_finish
  <2> QED BY <2>1 DEF CoreInv, ResultInStep, HashInStep
<1>3. CASE Current = "WAIT_H_CAL"
  <2>1. H_loaded
    BY <1>3, Moves DEF Clear, finish
  <2> QED BY <1>3, <2>1, <1>1 DEF CoreInv, KeyInStep, Keying
<1>4. Current \in CUStates /\ (Current \notin Keying \cup Moving => Quiet)
  BY StatesOfMessage DEF CoreInv, TokensInStep
<1> QED BY <1>1, <1>2, <1>3, <1>4, Moves DEF Clear, finish, CUStates, Keying, Moving

LEMMA AnswersAfter ==
    ASSUME CoreInv, NEW in \in Input, NEW m \in Messages \cup {NoMessage}, Driven(in, m)
    PROVE  AnswersInStep'
<1>1. /\ data_valid' = keystream_valid
      /\ keystream_valid => data_out' = XorWord(FIFO_data.word, AES_data_out)
      /\ PipeStep
  BY PathMoves
<1>2. CASE finish
  <2>1. Clear /\ Current = "FINISH" /\ Current' = "IDLE"
    BY <1>2, Moves DEF Clear, finish
  <2>2. fetched' = 0 /\ CT_cnt' = 0 /\ ~keystream_valid' /\ ~data_valid'
    BY <1>1, <2>1, PathMoves, TagMoves, OutputMoves, DrainedBeforeClear, AnsweredBeforeClear
    DEF ClearMessage
  <2>3. produced' = <<>> /\ msg' = NoMessage
    BY <1>2 DEF Driven, Sample
  <2>4. Len(produced') = 0 /\ produced' = [i \in 1..0 |-> S!Answer(msg', i)]
    BY <2>3
  <2> QED BY <2>1, <2>2, <2>3, <2>4 DEF AnswersInStep, One
<1>3. CASE ~finish
  <2>1. /\ produced' = IF data_valid THEN Append(produced, data_out) ELSE produced
        /\ msg' = m /\ Current # "FINISH"
    BY <1>3 DEF Driven, Sample, finish
  <2>2. /\ Len(produced) \in Nat
        /\ produced = [i \in 1..Len(produced) |-> S!Answer(msg, i)]
        /\ msg = NoMessage => produced = <<>>
        /\ data_valid => data_out = S!Answer(msg, CT_cnt) /\ CT_cnt = Len(produced) + 1
        /\ ~data_valid => CT_cnt = Len(produced)
        /\ CT_cnt \in Nat
    BY <2>1, Counts DEF CoreInv, AnswersInStep
  <2>3. msg = NoMessage => ~data_valid
    BY <2>1, Counts, NamesAssumption
  <2>4. /\ Len(produced') = CT_cnt
        /\ produced' = [i \in 1..CT_cnt |-> S!Answer(msg, i)]
    <3>1. CASE data_valid
      <4>1. produced' = Append(produced, S!Answer(msg, CT_cnt))
        BY <2>1, <2>2, <3>1
      <4> DEFINE n == Len(produced)
                 e == S!Answer(msg, CT_cnt)
      <4>2. produced = [i \in 1..n |-> produced[i]] /\ \A i \in 1..n : produced[i] = S!Answer(msg, i)
        BY <2>2
      <4>3. n \in Nat /\ CT_cnt = n + 1
        BY <2>2, <3>1
      <4> HIDE DEF n, e
      <4>4. /\ Append(produced, e) = [i \in 1..n + 1 |-> IF i = n + 1 THEN e ELSE produced[i]]
            /\ Len(Append(produced, e)) = n + 1
        BY <4>2, <4>3, AppendIs
      <4>5. \A i \in 1..n + 1 : i # n + 1 => i \in 1..n
        BY <4>3
      <4>6. Append(produced, e) = [i \in 1..n + 1 |-> S!Answer(msg, i)]
        BY <4>2, <4>3, <4>4, <4>5 DEF e
      <4> QED BY <4>1, <4>3, <4>4, <4>6 DEF e
    <3>2. CASE ~data_valid
      BY <2>1, <2>2, <3>2
    <3> QED BY <3>1, <3>2
  <2>5. in.load_IV => produced' = <<>> /\ CT_cnt = 0
    <3> SUFFICES ASSUME in.load_IV PROVE produced' = <<>> /\ CT_cnt = 0
      OBVIOUS
    <3>1. Current \notin Counted
      BY Strobes DEF Keying, Counted
    <3> QED BY <2>1, <3>1, Counts
  <2>6. /\ Len(produced') \in Nat
        /\ produced' = [i \in 1..Len(produced') |-> S!Answer(msg', i)]
    <3>1. CASE in.load_IV
      <4>1. produced' = <<>> /\ Len(produced') = 0
        BY <2>5, <3>1
      <4>2. produced' = [i \in 1..0 |-> S!Answer(msg', i)]
        BY <4>1
      <4> QED BY <4>1, <4>2
    <3>2. CASE ~in.load_IV
      <4>1. msg' = msg
        BY <2>1, <3>2 DEF Driven
      <4> QED BY <2>2, <2>4, <4>1
    <3> QED BY <3>1, <3>2
  <2>7. msg' = NoMessage => produced' = <<>>
    BY <2>1, <2>2, <2>3, NamesAssumption DEF Driven
  <2>8. Current' = "FINISH" => CT_cnt' = 0
    BY TagMoves DEF Clear, ClearMessage
  <2>9. ASSUME Current' # "FINISH"
        PROVE  /\ fetched' = CT_cnt' + One(keystream_valid')
               /\ CT_cnt' = Len(produced') + One(data_valid')
    <3>1. /\ ~Clear
          /\ fetched' = IF Carries(NR) THEN fetched + 1 ELSE fetched
          /\ CT_cnt' = IF keystream_valid THEN CT_cnt + 1 ELSE CT_cnt
      <4>1. ~Clear
        BY <2>1, <2>9 DEF Clear, finish
      <4> QED BY <4>1, PathMoves, TagMoves
    <3>2. /\ keystream_valid => fetched = CT_cnt + 1
          /\ ~keystream_valid => fetched = CT_cnt
      BY <2>1, Counts
    <3>3. keystream_valid' <=> Carries(NR)
      BY <1>1, OutputMoves
    <3>4. One(keystream_valid') = IF Carries(NR) THEN 1 ELSE 0
      BY <3>3 DEF One
    <3>5. One(data_valid') = IF keystream_valid THEN 1 ELSE 0
      BY <1>1 DEF One
    <3>0. CT_cnt \in Nat /\ Len(produced') = CT_cnt
      BY <2>2, <2>4
    <3>6. CT_cnt' = Len(produced') + (IF keystream_valid THEN 1 ELSE 0)
      <4>1. CASE keystream_valid
        BY <3>0, <3>1, <4>1
      <4>2. CASE ~keystream_valid
        BY <3>0, <3>1, <4>2
      <4> QED BY <4>1, <4>2
    <3>7. fetched' = CT_cnt' + (IF Carries(NR) THEN 1 ELSE 0)
      <4>1. CASE keystream_valid
        BY <3>0, <3>1, <3>2, <4>1
      <4>2. CASE ~keystream_valid
        BY <3>0, <3>1, <3>2, <4>2
      <4> QED BY <4>1, <4>2
    <3> QED BY <3>4, <3>5, <3>6, <3>7
  <2>10. data_valid' => data_out' = S!Answer(msg', CT_cnt')
    <3> SUFFICES ASSUME keystream_valid PROVE data_out' = S!Answer(msg', CT_cnt')
      BY <1>1
    <3>1. ~Clear
      BY AnsweredBeforeClear
    <3>2. CT_cnt' = fetched
      BY <2>1, <3>1, Counts, TagMoves
    <3>3. m = msg
      BY KeystreamOut, Strobes DEF Moving, Keying
    <3> QED BY <1>1, <2>1, <3>2, <3>3, KeystreamOut
  <2>11. Current' = "FINISH" /\ msg' # NoMessage => Len(produced') = msg'.data
    <3> SUFFICES ASSUME Current' = "FINISH", m # NoMessage PROVE Len(produced') = m.data
      BY <2>1
    <3>1. Current \in {"WAIT_PROCESS_FINISH", "VERIFY_PASS", "WAIT_H_CAL"}
      BY <2>1, Moves, StatesOfMessage DEF CUStates
    <3>2. Current = "WAIT_H_CAL" => m = NoMessage
      <4>1. Current = "WAIT_H_CAL" => H_loaded /\ ~IV_loaded
        BY Moves
      <4> QED BY <4>1 DEF Driven, CoreInv, MessageInStep
    <3>3. tag_process_valid
      BY <3>1, <3>2, Moves DEF process_finish, CoreInv, ResultInStep
    <3>4. ~data_valid /\ CT_cnt = msg.data
      BY <3>3 DEF CoreInv, ResultInStep, HashInStep
    <3>5. m = msg
      BY <3>1, <3>2, Strobes DEF Keying
    <3> QED BY <2>4, <3>4, <3>5
  <2> QED BY <2>6, <2>7, <2>8, <2>9, <2>10, <2>11 DEF AnswersInStep, One
<1> QED BY <1>2, <1>3

(* What the hash takes at this clock, if anything: never two words.        *)
LEMMA HashMoves ==
    ASSUME CoreInv, NEW in \in Input, NEW m \in Messages \cup {NoMessage}, Driven(in, m),
           ~Clear
    PROVE  /\ in.load_AAD => /\ ~keystream_valid /\ ~length_block_valid /\ ~ghash_finish
                             /\ m = msg /\ CT_cnt = 0
                             /\ ghash_out' = Append(ghash_out, <<H_reg, AADWord(msg.iv, aadSent + 1)>>)
           /\ keystream_valid => /\ ~in.load_AAD /\ ~length_block_valid /\ ~ghash_finish
                                 /\ m = msg
                                 /\ ghash_out' = Append(ghash_out, <<H_reg, CT(mode)>>)
           /\ length_block_valid => /\ ~in.load_AAD /\ ~keystream_valid /\ ~ghash_finish
                                    /\ m = msg
                                    /\ ghash_out' = Append(ghash_out,
                                         <<H_reg, LengthWord(AAD_cnt, CT_cnt)>>)
           /\ ~in.load_AAD /\ ~keystream_valid /\ ~length_block_valid => ghash_out' = ghash_out
<1>1. GHASHStep(in.load_AAD, AADWord(IF m = NoMessage THEN ZeroIV ELSE m.iv, aadSent + 1),
                keystream_valid, CT(Mode(m)))
  BY DEF Driven, Clock, TagStep, Clear
<1>2. /\ length_block_valid => ~ghash_finish /\ ~keystream_valid /\ Current \in Moving
      /\ ghash_finish => ~keystream_valid /\ Current \in Ending
      /\ length_block_valid \in BOOLEAN /\ ghash_finish \in BOOLEAN
  BY DEF CoreInv, HashInStep
<1>3. keystream_valid => Current \in Moving /\ m = msg
  BY KeystreamOut, Strobes DEF Moving, Keying
<1>4. length_block_valid => m = msg
  BY <1>2, Strobes DEF Moving, Keying
<1>5. in.load_AAD => /\ Current \in {"WAIT_AAD", "LOAD_AAD"} /\ m = msg /\ m # NoMessage
                     /\ CT_cnt = 0
  BY Strobes, StatesOfMessage, Counts, NamesAssumption
  DEF Keying, Serving, Started, Counted
<1>6. in.load_AAD => ~keystream_valid /\ ~length_block_valid /\ ~ghash_finish
  BY <1>2, <1>3, <1>5 DEF Moving, Ending
<1>7. in.load_AAD \in BOOLEAN /\ keystream_valid \in BOOLEAN
  BY DEF Input, keystream_valid
<1> HIDE DEF keystream_valid
<1>8. in.load_AAD => ghash_out' = Append(ghash_out, <<H_reg, AADWord(msg.iv, aadSent + 1)>>)
  BY <1>1, <1>5, <1>6, <1>7, <1>2 DEF GHASHStep
<1>9. keystream_valid => ~in.load_AAD /\ ~length_block_valid /\ ~ghash_finish
  BY <1>2, <1>6
<1>10. keystream_valid => ghash_out' = Append(ghash_out, <<H_reg, CT(mode)>>)
  <2>1. m = msg => Mode(m) = mode
    BY DEF mode
  <2>2. m = msg => CT(Mode(m)) = CT(mode)
    BY <2>1
  <2> QED BY <1>1, <1>2, <1>3, <1>7, <1>9, <2>2 DEF GHASHStep
<1>11. length_block_valid =>
         ghash_out' = Append(ghash_out, <<H_reg, LengthWord(AAD_cnt, CT_cnt)>>)
  BY <1>1, <1>2, <1>6, <1>7 DEF GHASHStep
<1>12. ~in.load_AAD /\ ~keystream_valid /\ ~length_block_valid => ghash_out' = ghash_out
  BY <1>1, <1>2, <1>7 DEF GHASHStep
<1> QED BY <1>2, <1>3, <1>4, <1>5, <1>6, <1>8, <1>9, <1>10, <1>11, <1>12

(* ghash_out is the hash of the words counted.                             *)
LEMMA HashOutAfter ==
    ASSUME CoreInv, NEW in \in Input, NEW m \in Messages \cup {NoMessage}, Driven(in, m),
           ~Clear
    PROVE  ghash_out' = Hash(m, AAD_cnt' + CT_cnt' + One(ghash_finish'))
<1> DEFINE n == AAD_cnt + CT_cnt
<1>1. /\ Current # "FINISH" /\ n \in Nat /\ AAD_cnt \in Nat /\ CT_cnt \in Nat
      /\ AAD_cnt = aadSent /\ n = AAD_cnt + CT_cnt
  <2>1. Current # "FINISH"
    BY DEF Clear, finish
  <2> QED BY <2>1, Counts
<1>2. ghash_out = Hash(msg, n + One(ghash_finish)) /\ (~ghash_finish => One(ghash_finish) = 0)
      /\ ghash_finish \in BOOLEAN
  BY <1>1 DEF CoreInv, HashInStep, One
<1> HIDE DEF n
<1>0. ASSUME NEW w, ~ghash_finish, w = HashWord(msg, n + 1), H_reg = AES(msg.key, ZeroBlock)
      PROVE  Append(ghash_out, <<H_reg, w>>) = Hash(msg, n + 1)
  <2>1. ghash_out = Hash(msg, n)
    BY <1>0, <1>1, <1>2
  <2>2. Append(Hash(msg, n), <<AES(msg.key, ZeroBlock), w>>) = Hash(msg, n + 1)
    BY <1>0, <1>1, HashAppends
  <2> QED BY <1>0, <2>1, <2>2
<1>3. /\ CT_cnt' = IF keystream_valid THEN CT_cnt + 1 ELSE CT_cnt
      /\ AAD_cnt' = IF in.load_AAD THEN AAD_cnt + 1 ELSE AAD_cnt
      /\ ghash_finish' = (ghash_finish \/ length_block_valid)
  BY TagMoves
<1>4. Current \in Started => /\ H_reg = AES(msg.key, ZeroBlock) /\ msg \in Messages
                             /\ msg.aad \in Nat /\ msg.data \in Nat
  <2> SUFFICES ASSUME Current \in Started
               PROVE  /\ H_reg = AES(msg.key, ZeroBlock) /\ msg \in Messages
                      /\ msg.aad \in Nat /\ msg.data \in Nat
    OBVIOUS
  <2>1. msg \in Messages
    BY StatesOfMessage DEF Serving
  <2>2. H_reg = AES(cipher_key, ZeroBlock) /\ msg.key = cipher_key
    BY <2>1, NamesAssumption DEF CoreInv, KeyInStep, MessageInStep, Serving
  <2> QED BY <2>1, <2>2, MessageParts
<1>5. CASE in.load_AAD
  <2>1. /\ ~keystream_valid /\ ~length_block_valid /\ ~ghash_finish /\ m = msg /\ CT_cnt = 0
        /\ ghash_out' = Append(ghash_out, <<H_reg, AADWord(msg.iv, aadSent + 1)>>)
    BY <1>5, HashMoves
  <2>2. Current \in Started \cup {"WAIT_AAD"} /\ aadSent < msg.aad /\ msg \in Messages
    BY <1>5, Strobes, StatesOfMessage DEF Driven, Started, Serving
  <2>3. H_reg = AES(msg.key, ZeroBlock)
    BY <2>2, NamesAssumption DEF CoreInv, KeyInStep, MessageInStep, Serving
  <2>4. AADWord(msg.iv, aadSent + 1) = HashWord(msg, n + 1)
    BY <1>1, <2>1, <2>2, MessageParts DEF HashWord
  <2>5. ghash_out' = Hash(msg, n + 1)
    BY <1>0, <2>1, <2>3, <2>4
  <2>6. AAD_cnt' + CT_cnt' = n + 1
    BY <1>1, <1>3, <1>5, <2>1
  <2>8. ~ghash_finish'
    BY <1>1, <1>3, <1>5, <2>1
  <2>7. AAD_cnt' + CT_cnt' + One(ghash_finish') = n + 1
    BY <1>1, <2>6, <2>8 DEF One
  <2> QED BY <2>1, <2>5, <2>7
<1>6. CASE keystream_valid
  <2>1. /\ ~in.load_AAD /\ ~length_block_valid /\ ~ghash_finish /\ m = msg
        /\ ghash_out' = Append(ghash_out, <<H_reg, CT(mode)>>)
    BY <1>6, HashMoves
  <2>2. /\ Current \in Started /\ Current \in Counted /\ CT(mode) = S!CipherWord(msg, fetched)
        /\ fetched = CT_cnt + 1 /\ AAD_cnt = msg.aad /\ fetched <= msg.data
    BY <1>1, <1>6, KeystreamOut, Counts, NamesAssumption DEF Moving, Started, Counted
  <2>3. CT(mode) = HashWord(msg, n + 1)
    <3>1. /\ ~(n + 1 <= msg.aad) /\ n + 1 <= msg.aad + msg.data
          /\ n + 1 - msg.aad = fetched
      BY <1>1, <1>4, <2>2
    <3>2. HashWord(msg, n + 1) = S!CipherWord(msg, n + 1 - msg.aad)
      BY <1>1, <1>4, <2>2, <3>1 DEF HashWord
    <3> QED BY <2>2, <3>1, <3>2
  <2>5. ghash_out' = Hash(msg, n + 1)
    BY <1>0, <1>4, <2>1, <2>2, <2>3
  <2>6. AAD_cnt' + CT_cnt' = n + 1
    BY <1>1, <1>3, <1>6, <2>1
  <2>8. ~ghash_finish'
    BY <1>1, <1>3, <1>6, <2>1
  <2>7. AAD_cnt' + CT_cnt' + One(ghash_finish') = n + 1
    BY <1>1, <2>6, <2>8 DEF One
  <2> QED BY <2>1, <2>5, <2>7
<1>7. CASE length_block_valid
  <2>1. /\ ~in.load_AAD /\ ~keystream_valid /\ ~ghash_finish /\ m = msg
        /\ ghash_out' = Append(ghash_out, <<H_reg, LengthWord(AAD_cnt, CT_cnt)>>)
    BY <1>7, HashMoves
  <2>2. /\ Current \in Started /\ AAD_cnt = msg.aad /\ CT_cnt = msg.data
    BY <1>7, Counts DEF CoreInv, HashInStep, Moving, Started, Counted
  <2>3. LengthWord(AAD_cnt, CT_cnt) = HashWord(msg, n + 1)
    <3>1. ~(n + 1 <= msg.aad) /\ ~(n + 1 <= msg.aad + msg.data)
      BY <1>1, <1>4, <2>2
    <3> QED BY <2>2, <3>1 DEF HashWord
  <2>5. ghash_out' = Hash(msg, n + 1)
    BY <1>0, <1>4, <2>1, <2>2, <2>3
  <2>6. AAD_cnt' + CT_cnt' = n
    BY <1>1, <1>3, <1>7, <2>1
  <2>8. ghash_finish'
    BY <1>1, <1>3, <1>7, <2>1
  <2>7. AAD_cnt' + CT_cnt' + One(ghash_finish') = n + 1
    BY <1>1, <2>6, <2>8 DEF One
  <2> QED BY <2>1, <2>5, <2>7
<1>8. CASE ~in.load_AAD /\ ~keystream_valid /\ ~length_block_valid
  <2>1. ghash_out' = ghash_out /\ AAD_cnt' = AAD_cnt /\ CT_cnt' = CT_cnt
        /\ (ghash_finish' <=> ghash_finish)
    BY <1>2, <1>3, <1>8, HashMoves
  <2>2. One(ghash_finish') = One(ghash_finish)
    BY <2>1 DEF One
  <2>3. ghash_out' = Hash(msg, AAD_cnt' + CT_cnt' + One(ghash_finish'))
    BY <1>1, <1>2, <2>1, <2>2
  <2>4. CASE in.load_IV
    <3>1. Current \in {"IDLE"} \cup Keying
      BY <2>4, Strobes
    <3>2. ~ghash_finish /\ AAD_cnt = 0 /\ CT_cnt = 0
      BY <1>1, <3>1, Counts, StatesOfMessage
      DEF Keying, Counted, CoreInv, HashInStep, WordsInStep, Ending
    <3>3. AAD_cnt' + CT_cnt' + One(ghash_finish') = 0
      BY <1>2, <2>1, <2>2, <3>2
    <3>4. \A x : Hash(x, 0) = <<>>
      BY DEF Hash
    <3> QED BY <2>3, <3>3, <3>4
  <2>5. CASE ~in.load_IV
    <3>1. m = msg
      BY <2>5 DEF Driven
    <3> QED BY <2>3, <3>1
  <2> QED BY <2>4, <2>5
<1> QED BY <1>5, <1>6, <1>7, <1>8

LEMMA HashAfter ==
    ASSUME CoreInv, NEW in \in Input, NEW m \in Messages \cup {NoMessage}, Driven(in, m)
    PROVE  HashInStep'
<1>1. CASE Clear
  <2>1. /\ ghash_out' = <<>> /\ ~ghash_finish' /\ ~length_block_valid'
        /\ AAD_cnt' = 0 /\ CT_cnt' = 0 /\ length_block_valid' \in BOOLEAN
        /\ ghash_finish' \in BOOLEAN
    BY <1>1, TagMoves DEF ClearMessage
  <2>2. AAD_cnt' + CT_cnt' + One(ghash_finish') = 0
    BY <2>1 DEF One
  <2>3. Hash(msg', 0) = <<>>
    BY DEF Hash
  <2>4. ghash_out' = Hash(msg', AAD_cnt' + CT_cnt' + One(ghash_finish'))
    BY <2>1, <2>2, <2>3
  <2> QED BY <2>1, <2>4 DEF HashInStep, One
<1>2. CASE ~Clear
  <2>1. /\ CT_cnt' = IF keystream_valid THEN CT_cnt + 1 ELSE CT_cnt
        /\ length_block_valid' = CT_last
        /\ ghash_finish' = (ghash_finish \/ length_block_valid)
    BY <1>2, TagMoves
  <2>2. /\ Current # "FINISH" /\ Current' # "FINISH" /\ msg' = m
        /\ data_valid' = keystream_valid /\ data_out_last' = CT_last /\ PipeStep
    BY <1>2, PathMoves DEF Clear, finish, Driven
  <2>3. ghash_out' = Hash(msg', AAD_cnt' + CT_cnt' + One(ghash_finish'))
    BY <1>2, <2>2, HashOutAfter
  <2>4. /\ length_block_valid => /\ Current \in Moving /\ ~ghash_finish
                                 /\ data_valid /\ data_out_last
                                 /\ CT_cnt = msg.data /\ ~keystream_valid
        /\ ghash_finish => /\ Current \in Ending
                           /\ ~data_valid /\ CT_cnt = msg.data /\ ~keystream_valid
        /\ tag_process_valid => ghash_finish
        /\ length_block_valid \in BOOLEAN /\ ghash_finish \in BOOLEAN
    BY DEF CoreInv, HashInStep, ResultInStep
  <2>5. length_block_valid' \in BOOLEAN /\ ghash_finish' \in BOOLEAN
    BY <2>1, <2>4 DEF CT_last, keystream_valid
  <2>6. ASSUME CT_last
        PROVE  /\ Current' \in Moving /\ ~ghash_finish'
               /\ data_valid' /\ data_out_last'
               /\ CT_cnt' = msg'.data /\ ~keystream_valid'
    <3>1. keystream_valid /\ FIFO_data.last
      BY <2>6 DEF CT_last
    <3>2. fetched = msg.data
      BY <3>1 DEF CoreInv, OutputInStep
    <3>3. Current \in Moving /\ m = msg /\ Current \in Counted
      BY <3>1, KeystreamOut, Strobes DEF Moving, Keying, Counted
    <3>4. ~ghash_finish /\ ~length_block_valid /\ ~tag_process_valid
      BY <2>4, <3>1
    <3>5. Current' \in Moving
      BY <3>3, <3>4, Moves DEF Moving, process_finish
    <3>6. ~keystream_valid'
      BY <2>2, <3>2, <3>3, LastFetched, OutputMoves
    <3>7. CT_cnt' = msg'.data
      BY <2>1, <2>2, <3>1, <3>2, <3>3, Counts
    <3> QED BY <2>1, <2>2, <2>6, <3>1, <3>4, <3>5, <3>6, <3>7
  <2>7. ASSUME ghash_finish'
        PROVE  /\ Current' \in Ending
               /\ ~data_valid' /\ CT_cnt' = msg'.data /\ ~keystream_valid'
    <3>1. Current \in Counted /\ ~keystream_valid /\ CT_cnt = msg.data
      BY <2>1, <2>4, <2>7 DEF Ending, Moving, Counted
    <3>2. m = msg /\ fetched = msg.data
      BY <2>2, <3>1, Strobes, Counts DEF Keying, Counted
    <3>3. ~keystream_valid' /\ dataSent = msg.data
      BY <2>2, <3>1, <3>2, LastFetched, OutputMoves
    <3>4. Current' \in Ending
      <4>1. CASE Current \in Ending
        BY <2>2, <4>1, Moves DEF Ending
      <4>2. CASE Current = "LOAD_DATA"
        <5>1. data_valid /\ data_out_last
          BY <2>1, <2>4, <2>7, <4>2 DEF Ending
        <5>2. in.data_in_last
          BY <3>3, <4>2, <5>1 DEF LastDue, Driven
        <5> QED BY <4>2, <5>2, Moves DEF Ending
      <4> QED BY <3>1, <4>1, <4>2 DEF Counted, Ending
    <3> QED BY <2>1, <2>2, <3>1, <3>2, <3>3, <3>4
  <2> QED BY <2>1, <2>2, <2>3, <2>5, <2>6, <2>7 DEF HashInStep, One
<1> QED BY <1>1, <1>2

(* What leaves the pipeline for E while words are moving.                  *)
LEMMA EOut ==
    ASSUME CoreInv, E_valid
    PROVE  Current \in Moving /\ AES_data_out = AES(msg.key, <<msg.iv, 1>>)
<1>1. NR + 1 \in Stages /\ NR + 1 # 0 /\ pipe[NR + 1].type = "J0"
  BY Facts DEF Stages, E_valid, data_type_out
<1>2. Current \in Moving
  BY <1>1, BlocksMoving
<1>3. msg.key = cipher_key
  BY <1>2, Counts, NamesAssumption DEF CoreInv, MessageInStep
<1>4. pipe[NR + 1].val.blk = <<msg.iv, 1>> /\ pipe[NR + 1].val.keys = {msg.key}
  BY <1>1, <1>2, <1>3 DEF CoreInv, TokensInStep
<1>5. pipe[NR + 1].val \in Cipher
  BY <1>1, Facts DEF CtrTypeOK
<1> QED BY <1>2, <1>4, <1>5 DEF AES_data_out, AES, Cipher

LEMMA ResultAfter ==
    ASSUME CoreInv, NEW in \in Input, NEW m \in Messages \cup {NoMessage}, Driven(in, m)
    PROVE  ResultInStep'
<1>1. CASE Clear
  <2>1. /\ ~E_loaded' /\ ~tag_process_valid'
        /\ E_loaded' \in BOOLEAN /\ tag_process_valid' \in BOOLEAN
    BY <1>1, TagMoves DEF ClearMessage
  <2>2. Current' # "VERIFY_PASS"
    BY <1>1, Moves DEF Clear, finish
  <2> QED BY <2>1, <2>2 DEF ResultInStep
<1>2. CASE ~Clear
  <2>1. /\ E_loaded' = (E_loaded \/ E_valid)
        /\ E_reg' = IF E_valid /\ ~E_loaded THEN AES_data_out ELSE E_reg
        /\ tag_process_valid' = (ghash_finish /\ E_loaded)
        /\ ghash_finish /\ E_loaded => tag' = Tag(ghash_out, E_reg)
        /\ ghash_finish' = (ghash_finish \/ length_block_valid)
    BY <1>2, TagMoves
  <2>2. Current # "FINISH" /\ Current' # "FINISH" /\ msg' = m /\ gen_J0' = in.data_in_last
    BY <1>2, PathMoves DEF Clear, finish, Driven
  <2>3. /\ E_loaded => Current \in Counted /\ E_reg = AES(msg.key, <<msg.iv, 1>>)
        /\ tag_process_valid => ghash_finish /\ E_loaded
        /\ Current = "VERIFY_PASS" => tag_process_valid
        /\ ghash_finish => Current \in Ending /\ CT_cnt = msg.data
        /\ E_loaded \in BOOLEAN /\ ghash_finish \in BOOLEAN
    BY DEF CoreInv, ResultInStep, HashInStep
  <2>4. E_loaded' \in BOOLEAN /\ tag_process_valid' \in BOOLEAN
    BY <2>1, <2>3 DEF E_valid
  <2>5. ASSUME E_loaded \/ E_valid
        PROVE  /\ Current \in Counted /\ Current' \in Counted /\ m = msg
               /\ E_reg' = AES(msg.key, <<msg.iv, 1>>)
    <3>1. Current \in Counted
      BY <2>3, <2>5, EOut, Counts
    <3>2. Current' \in Counted /\ m = msg
      BY <2>2, <3>1, Moves, Strobes DEF Counted, Keying
    <3>3. E_reg' = AES(msg.key, <<msg.iv, 1>>)
      BY <2>1, <2>3, <2>5, EOut
    <3> QED BY <3>1, <3>2, <3>3
  <2>6. E_loaded' => Current' \in Counted /\ E_reg' = AES(msg'.key, <<msg'.iv, 1>>)
    BY <2>1, <2>2, <2>5
  <2>7. ASSUME ghash_finish, E_loaded
        PROVE  ghash_finish' /\ E_loaded' /\ tag' = S!GcmTag(msg')
    <3>1. m = msg /\ msg \in Messages /\ AAD_cnt = msg.aad /\ CT_cnt = msg.data
      BY <2>3, <2>5, <2>7, Counts
    <3>2. One(ghash_finish) = 1
      BY <2>7 DEF One
    <3>3. ghash_out = Hash(msg, msg.aad + msg.data + 1)
      BY <2>2, <3>1, <3>2 DEF CoreInv, HashInStep
    <3>4. tag' = S!GcmTag(msg)
      BY <2>1, <2>3, <2>7, <3>1, <3>3, TagIsOfHash
    <3> QED BY <2>1, <2>2, <2>7, <3>1, <3>4
  <2>8. Current' = "WAIT_PROCESS_FINISH" /\ gen_J0' => ~tag_process_valid'
    <3> SUFFICES ASSUME Current' = "WAIT_PROCESS_FINISH", in.data_in_last
                 PROVE  ~tag_process_valid'
      BY <2>2
    <3>1. Current \in {"WAIT_DATA", "LOAD_DATA"}
      BY Strobes
    <3> QED BY <2>1, <2>3, <3>1 DEF Ending
  <2>9. Current' = "VERIFY_PASS" => tag_process_valid'
    <3> SUFFICES ASSUME Current' = "VERIFY_PASS" PROVE tag_process_valid'
      OBVIOUS
    <3>1. tag_process_valid
      BY <2>3, Moves, StatesOfMessage DEF CUStates, process_finish
    <3> QED BY <2>1, <2>3, <3>1
  <2>10. tag_process_valid' => ghash_finish' /\ E_loaded' /\ tag' = S!GcmTag(msg')
    BY <2>1, <2>7
  <2>11. S!GcmTag(msg)' = S!GcmTag(msg')
    BY DEF S!GcmTag, S!CipherWord, S!Answer, S!Keystream
  <2> QED BY <2>4, <2>6, <2>8, <2>9, <2>10, <2>11 DEF ResultInStep
<1> QED BY <1>1, <1>2

(* The verdict the user takes is the message's.                            *)
LEMMA VerdictGiven ==
    ASSUME CoreInv, NEW in \in Input, NEW m \in Messages \cup {NoMessage}, Driven(in, m),
           ~finish, tag_valid \/ verify_done
    PROVE  /\ msg' = msg /\ msg \in Messages /\ verdict' = S!Verdict(msg)
           /\ Current \in Ending /\ Current' \in Ending \cup {"FINISH"}
<1>1. /\ verdict' = IF tag_valid THEN tag
                    ELSE IF verify_done THEN verify_pass(mode) ELSE verdict
      /\ msg' = m /\ Current # "FINISH"
  BY DEF Driven, Sample, finish
<1>2. /\ tag_process_valid => /\ Current \in Ending /\ msg \in Messages
                              /\ tag = S!GcmTag(msg)
      /\ Current = "VERIFY_PASS" => tag_process_valid /\ mode
  BY Counts DEF CoreInv, ResultInStep, HashInStep, TagRefInStep, Ending, Counted
<1>3. tag_valid => verdict' = S!Verdict(msg)
  <2> SUFFICES ASSUME tag_valid PROVE tag = S!Verdict(msg)
    BY <1>1
  <2>1. ~msg.mode /\ tag = S!GcmTag(msg)
    BY <1>2, NamesAssumption DEF tag_valid, mode, Mode
  <2> QED BY <2>1 DEF S!Verdict
<1>4. ~tag_valid /\ verify_done => verdict' = S!Verdict(msg)
  <2> SUFFICES ASSUME Current = "VERIFY_PASS" PROVE verify_pass(mode) = S!Verdict(msg)
    BY <1>1 DEF verify_done
  <2>1. mode /\ tag_process_valid /\ tag = S!GcmTag(msg) /\ msg \in Messages /\ msg.mode
    BY <1>2 DEF mode, Mode
  <2>2. tag_ref_reg = TagRef
    BY <2>1 DEF CoreInv, TagRefInStep, Started, Counted
  <2>3. msg.genuine \in BOOLEAN /\ S!GcmTag(msg) # ZeroTag
    BY <2>1, MessageParts, TagIsNotZero
  <2>4. (tag = TagRef) <=> msg.genuine
    BY <2>1, <2>3 DEF TagRef
  <2>5. verify_pass(mode) <=> msg.genuine
    BY <2>1, <2>2, <2>4 DEF verify_pass
  <2>6. verify_pass(mode) \in BOOLEAN
    BY DEF verify_pass, mode, Mode
  <2>7. S!Verdict(msg) = msg.genuine
    BY <2>1 DEF S!Verdict
  <2> QED BY <2>3, <2>5, <2>6, <2>7
<1>5. Current \in Ending /\ msg \in Messages
  BY <1>2 DEF tag_valid, verify_done
<1>6. m = msg
  BY <1>5, Strobes DEF Ending, Keying
<1>7. Current' \in Ending \cup {"FINISH"}
  BY <1>5, Moves DEF Ending
<1> QED BY <1>1, <1>3, <1>4, <1>5, <1>6, <1>7

LEMMA VerdictAfter ==
    ASSUME CoreInv, NEW in \in Input, NEW m \in Messages \cup {NoMessage}, Driven(in, m)
    PROVE  VerdictInStep'
<1>1. CASE finish
  <2>1. verdict' = NoVerdict /\ msg' = NoMessage
    BY <1>1 DEF Driven, Sample
  <2> QED BY <2>1 DEF VerdictInStep
<1>2. CASE ~finish
  <2>1. /\ verdict' = IF tag_valid THEN tag
                      ELSE IF verify_done THEN verify_pass(mode) ELSE verdict
        /\ msg' = m /\ Current # "FINISH"
    BY <1>2 DEF Driven, Sample, finish
  <2>2. verdict' # NoVerdict => /\ msg' # NoMessage /\ verdict' = S!Verdict(msg')
                                /\ Current' \in Ending \cup {"FINISH"}
    <3>1. CASE tag_valid \/ verify_done
      BY <1>2, <3>1, VerdictGiven, NamesAssumption
    <3>2. CASE ~tag_valid /\ ~verify_done
      <4> SUFFICES ASSUME verdict # NoVerdict
                   PROVE  /\ msg' # NoMessage /\ verdict = S!Verdict(msg')
                          /\ Current' \in Ending \cup {"FINISH"}
        BY <2>1, <3>2
      <4>1. msg # NoMessage /\ verdict = S!Verdict(msg) /\ Current \in Ending
        BY <2>1 DEF CoreInv, VerdictInStep
      <4>2. m = msg /\ Current' \in Ending \cup {"FINISH"}
        BY <4>1, Strobes, Moves DEF Ending, Keying
      <4> QED BY <2>1, <4>1, <4>2
    <3> QED BY <3>1, <3>2
  <2>3. Current' = "FINISH" /\ msg' # NoMessage => verdict' # NoVerdict
    <3> SUFFICES ASSUME Current' = "FINISH", m # NoMessage PROVE verdict' # NoVerdict
      BY <2>1
    <3>1. Current \in {"WAIT_PROCESS_FINISH", "VERIFY_PASS", "WAIT_H_CAL"}
      BY <2>1, Moves, StatesOfMessage DEF CUStates
    <3>2. CASE Current = "WAIT_PROCESS_FINISH"
      <4>1. tag_process_valid /\ ~Mode(m) /\ m = msg
        BY <3>2, Moves, Strobes DEF process_finish, Keying
      <4>2. tag_valid
        BY <4>1 DEF tag_valid, mode
      <4> QED BY <1>2, <4>2, VerdictGiven, NamesAssumption
    <3>3. CASE Current = "VERIFY_PASS"
      BY <1>2, <3>3, VerdictGiven, NamesAssumption DEF verify_done
    <3>4. CASE Current = "WAIT_H_CAL"
      <4>1. H_loaded /\ ~IV_loaded
        BY <3>4, Moves
      <4>2. m = msg
        BY <3>4, <4>1 DEF Driven
      <4> QED BY <3>4, <4>1, <4>2 DEF CoreInv, MessageInStep
    <3> QED BY <3>1, <3>2, <3>3, <3>4
  <2> QED BY <2>2, <2>3 DEF VerdictInStep
<1> QED BY <1>1, <1>2

LEMMA RegistersAfter ==
    ASSUME CoreInv, NEW in \in Input, NEW m \in Messages \cup {NoMessage}, Driven(in, m)
    PROVE  H_reg' \in Cipher /\ E_reg' \in Cipher
<1>1. ZeroCipher \in Cipher
  BY GcmAssumption DEF ZeroCipher, Cipher, ZeroBlock, Block
<1>2. AES_data_out \in Cipher
  BY Facts DEF CtrTypeOK, Stages, AES_data_out
<1>3. H_reg \in Cipher /\ E_reg \in Cipher
  BY DEF CoreInv
<1>4. in.load_key => H_reg' = ZeroCipher
  BY DEF Driven, Clock, TagStep, HStep
<1>5. H_reg' \in Cipher
  BY <1>1, <1>2, <1>3, <1>4, HMoves
<1>6. E_reg' \in Cipher
  BY <1>1, <1>2, <1>3, TagMoves DEF ClearMessage
<1> QED BY <1>5, <1>6

-----------------------------------------------------------------------------
(* The invariant.                                                          *)

(* What power-up and rst_n have in common: they differ in the FIFO memory. *)
Fresh ==
    /\ KeyInit /\ TagInit /\ CUInit /\ UserInit
    /\ gen_J0 = FALSE /\ data_type_in = "none"
    /\ CTR_counter = 0 /\ IV_loaded = FALSE /\ fetched = 0
    /\ pipe = [s \in Stages |-> Bubble] /\ data_valid = FALSE

LEMMA CoreInvFresh == Fresh /\ CtrInv => CoreInv
<1> SUFFICES ASSUME Fresh, CtrInv PROVE CoreInv
  OBVIOUS
<1> USE DEF Fresh
<1>2. Quiet /\ round_index = 0 /\ ~expansion_finish
      /\ \A i \in 0..NR : round_key[i] = ZeroKey
  <2>1. ASSUME NEW p \in Way PROVE Kind(p) = "none"
    <3>1. p > 0 => p - 1 \in Stages
      BY GcmAssumption DEF Way, Stages
    <3>2. p = 0 \/ p > 0
      BY GcmAssumption DEF Way
    <3> QED BY <3>1, <3>2 DEF Kind, Bubble
  <2> QED BY <2>1 DEF Quiet, KeyInit
<1>3. ~keystream_valid
  BY GcmAssumption DEF keystream_valid, data_type_out, Stages, Bubble
<1>4. H_reg \in Cipher /\ E_reg \in Cipher
  BY GcmAssumption DEF TagInit, ZeroCipher, Cipher, ZeroBlock, Block
<1>5. Current = "IDLE" /\ msg = NoMessage /\ cipher_key = ZeroKey
  BY DEF CUInit, UserInit
<1>6. MessageInStep
  BY <1>5 DEF MessageInStep, CUStates, Serving, Started, Counted
<1>7. WordsInStep
  BY <1>5 DEF WordsInStep, Keying, Counted, Ending, TagInit, UserInit
<1>8. TagRefInStep
  BY <1>5 DEF TagRefInStep, Started, Counted, TagInit
<1>9. KeyInStep
  BY <1>2, <1>5 DEF KeyInStep, Keying, Serving, Started, Counted, TagInit
<1>10. TokensInStep
  BY <1>2, <1>5 DEF TokensInStep, Moving
<1>11. OutputInStep
  BY <1>3 DEF OutputInStep
<1>12. AnswersInStep
  <2>1. produced = <<>> /\ fetched = 0 /\ CT_cnt = 0 /\ ~data_valid
    BY DEF UserInit, TagInit
  <2>2. Len(produced) = 0 /\ produced = [i \in 1..0 |-> S!Answer(msg, i)]
    BY <2>1
  <2> QED BY <1>3, <1>5, <2>1, <2>2 DEF AnswersInStep, One
<1>13. HashInStep
  <2>1. Hash(msg, 0) = <<>> /\ AAD_cnt = 0 /\ CT_cnt = 0 /\ One(ghash_finish) = 0
    BY DEF Hash, TagInit, One
  <2>2. Hash(msg, AAD_cnt + CT_cnt + One(ghash_finish)) = <<>>
    BY <2>1
  <2> QED BY <1>5, <2>2 DEF HashInStep, TagInit
<1>14. ResultInStep /\ VerdictInStep
  BY <1>5 DEF ResultInStep, VerdictInStep, TagInit, UserInit
<1> HIDE DEF Fresh
<1> QED
  BY <1>4, <1>6, <1>7, <1>8, <1>9, <1>10, <1>11, <1>12, <1>13, <1>14 DEF CoreInv

LEMMA CoreInvInit == Init => CoreInv
<1> SUFFICES ASSUME Init PROVE CoreInv
  OBVIOUS
<1>1. Fresh
  BY DEF Init, CtrInit, Fresh
<1>2. CtrInv
  BY InvInit DEF Init
<1> QED BY <1>1, <1>2, CoreInvFresh

LEMMA CoreInvReset == CoreInv /\ Reset => CoreInv'
<1> SUFFICES ASSUME CoreInv, Reset PROVE CoreInv'
  OBVIOUS
<1>1. Fresh'
  BY DEF Reset, Fresh, KeyReset, KeyInit, CtrReset, TagReset, ClearMessage, TagInit,
     CUReset, CUInit, UserInit
<1>2. CtrInv'
  BY InvNext DEF Reset, CtrNext, CoreInv
<1>3. (Fresh /\ CtrInv => CoreInv)'
  BY CoreInvFresh, PTL
<1> QED BY <1>1, <1>2, <1>3

LEMMA CoreInvTick ==
    ASSUME CoreInv, Tick
    PROVE  CoreInv'
<1>1. PICK in \in Input : \E m \in Messages \cup {NoMessage} : Driven(in, m)
  BY TickDriven
<1>2. PICK m \in Messages \cup {NoMessage} : Driven(in, m)
  BY <1>1
<1>3. CtrInv'
  BY <1>2, PathMoves
<1> QED BY <1>2, <1>3, RegistersAfter, MessageAfter, WordsAfter, TagRefAfter, KeyAfter,
           TokensAfter, FetchedAfter, AnswersAfter, HashAfter, ResultAfter, VerdictAfter
        DEF CoreInv

LEMMA CoreInvStutter == CoreInv /\ UNCHANGED vars => CoreInv'
<1> SUFFICES ASSUME CoreInv, UNCHANGED vars PROVE CoreInv'
  OBVIOUS
<1> USE DEF vars, keyVars, ctrVars, tagVars, userVars
<1>1. CtrInv'
  BY InvNext DEF CoreInv, allVars
<1>2. MessageInStep' /\ WordsInStep' /\ TagRefInStep' /\ VerdictInStep' /\ ResultInStep'
  BY DEF CoreInv, MessageInStep, WordsInStep, TagRefInStep, VerdictInStep, ResultInStep, mode,
     Mode, TagRef
<1>3. KeyInStep' /\ TokensInStep'
  <2>1. Quiet' <=> Quiet
    BY DEF Quiet, Kind
  <2>2. ASSUME NEW p \in Way PROVE HAlone(p)' <=> HAlone(p)
    BY DEF HAlone, Kind
  <2>3. KeyInStep'
    BY <2>1, <2>2 DEF CoreInv, KeyInStep
  <2> QED BY <2>1, <2>3 DEF CoreInv, TokensInStep
<1>4. OutputInStep' /\ AnswersInStep' /\ HashInStep'
  BY DEF CoreInv, OutputInStep, AnswersInStep, HashInStep, keystream_valid, data_type_out,
     AES_data_out, Number, Forward
<1> QED BY <1>1, <1>2, <1>3, <1>4 DEF CoreInv

(* The core keeps its invariant: for every key size, pipeline length, FIFO *)
(* of at least NR + 2 entries and counter width, for messages of every     *)
(* length in every order, with gaps in the input anywhere and with resets, *)
(* every word meets its own keystream, the hash has absorbed exactly the   *)
(* words counted, and the control unit leaves no state too early.          *)
THEOREM CoreInvariant == Spec => []CoreInv
<1>1. CoreInv /\ [Next]_vars => CoreInv'
  BY CoreInvTick, CoreInvReset, CoreInvStutter DEF Next
<1> QED BY CoreInvInit, <1>1, PTL DEF Spec

-----------------------------------------------------------------------------
(* What the invariant gives: the safety properties of GcmCore, the         *)
(* counter-mode path as a part of the core, and the service of GcmSpec as  *)
(* what the core implements.                                               *)

(* Every register of the core keeps its type, and no counter passes the    *)
(* length of the message.                                                  *)
THEOREM CoreTypeCorrect == Spec => []CoreTypeOK
<1>1. CoreInv => CoreTypeOK
  <2> SUFFICES ASSUME CoreInv PROVE CoreTypeOK
    OBVIOUS
  <2>1. CtrTypeOK /\ H_reg \in Cipher /\ E_reg \in Cipher
    BY Facts DEF CoreInv
  <2>2. /\ H_loaded \in BOOLEAN /\ E_loaded \in BOOLEAN /\ tag_ref_loaded \in BOOLEAN
        /\ tag_process_valid \in BOOLEAN /\ length_block_valid \in BOOLEAN
        /\ ghash_finish \in BOOLEAN
        /\ Current \in CUStates /\ cipher_key \in Keys \cup {ZeroKey}
        /\ msg \in Messages \cup {NoMessage}
    BY DEF CoreInv, KeyInStep, ResultInStep, TagRefInStep, HashInStep, MessageInStep
  <2>3. MaxAAD \in Nat /\ MaxData \in Nat
    BY CoreAssumption
  <2>4. aadSent \in 0..MaxAAD /\ dataSent \in 0..MaxData
    <3>1. CASE msg = NoMessage
      BY <2>3, <3>1 DEF CoreInv, WordsInStep
    <3>2. CASE msg # NoMessage
      <4>1. /\ msg.aad \in Nat /\ msg.aad <= MaxAAD /\ msg.data \in Nat /\ msg.data <= MaxData
        BY <2>2, <3>2, MessageParts
      <4> QED BY <2>3, <3>2, <4>1, Counts
    <3> QED BY <3>1, <3>2
  <2>5. AAD_cnt \in 0..MaxAAD /\ CT_cnt \in 0..MaxData
    <3>1. CASE Current = "FINISH"
      BY <2>3, <3>1 DEF CoreInv, WordsInStep, AnswersInStep
    <3>2. CASE Current # "FINISH"
      <4>1. CT_cnt <= fetched /\ fetched <= dataSent /\ CT_cnt \in Nat /\ fetched \in Nat
        BY <3>2, Counts
      <4> QED BY <2>3, <2>4, <3>2, <4>1, Counts
    <3> QED BY <3>1, <3>2
  <2>6. Len(produced) \in 0..MaxData
    <3>1. CASE msg = NoMessage
      <4>1. produced = <<>>
        BY <3>1 DEF CoreInv, AnswersInStep
      <4> QED BY <2>3, <4>1
    <3>2. CASE msg # NoMessage /\ Current = "FINISH"
      <4>1. Len(produced) = msg.data
        BY <3>2 DEF CoreInv, AnswersInStep
      <4> QED BY <2>2, <2>3, <3>2, <4>1, MessageParts
    <3>3. CASE Current # "FINISH"
      <4>1. Len(produced) <= CT_cnt /\ Len(produced) \in Nat
        BY <3>3, Counts
      <4> QED BY <2>3, <2>5, <4>1
    <3> QED BY <3>1, <3>2, <3>3
  <2>7. Len(ghash_out) <= MaxAAD + MaxData + 1
    <3>1. CASE Current = "FINISH"
      <4>1. ghash_out = <<>>
        BY <3>1 DEF CoreInv, HashInStep
      <4> QED BY <2>3, <4>1
    <3>2. CASE Current # "FINISH"
      <4> DEFINE n == AAD_cnt + CT_cnt + One(ghash_finish)
      <4>1. ghash_out = Hash(msg, n)
        BY <3>2 DEF CoreInv, HashInStep
      <4>2. One(ghash_finish) \in 0..1
        BY DEF One
      <4>3. n \in Nat /\ n <= MaxAAD + MaxData + 1
        BY <2>3, <2>5, <4>2
      <4> HIDE DEF n
      <4>4. ghash_out = [i \in 1..n |-> ghash_out[i]]
        BY <4>1 DEF Hash
      <4>5. Len(ghash_out) = n
        BY <4>3, <4>4, AppendIs
      <4> QED BY <4>3, <4>5
    <3> QED BY <3>1, <3>2
  <2> QED BY <2>1, <2>2, <2>4, <2>5, <2>6, <2>7 DEF CoreTypeOK
<1> QED BY <1>1, CoreInvariant, PTL

(* KeyFresh: H and every keystream block are encrypted under the current   *)
(* key in all rounds, although H starts while the key is being expanded.   *)
THEOREM KeyAlwaysFresh == Spec => []KeyFresh
<1>1. CoreInv => KeyFresh
  <2> SUFFICES ASSUME CoreInv PROVE KeyFresh
    OBVIOUS
  <2>1. NR + 1 \in Stages /\ NR + 1 # 0 /\ NR + 1 + 1 = NR + 2
    BY Facts DEF Stages
  <2>2. ASSUME data_type_out # "none" PROVE AES_data_out.keys = {cipher_key}
    <3>1. ~Quiet
      BY <2>1, <2>2, QuietRegisters DEF data_type_out
    <3>2. CASE Current \in Moving
      BY <2>1, <2>2, <3>2 DEF CoreInv, TokensInStep, data_type_out, AES_data_out
    <3>3. CASE Current \in Keying /\ ~H_loaded
      <4>1. PICK p \in Way : HAlone(p)
        BY <3>3 DEF CoreInv, KeyInStep
      <4>2. NR + 2 \in Way /\ Kind(NR + 2) # "none"
        BY <2>1, <2>2, KindOf DEF data_type_out
      <4>3. p = NR + 2
        BY <4>1, <4>2 DEF HAlone
      <4>4. p > 0 /\ p # 1 /\ p - 1 = NR + 1
        BY <4>3, Facts
      <4>5. pipe[p - 1].val.keys = {cipher_key}
        BY <4>1, <4>4 DEF HAlone
      <4> QED BY <4>4, <4>5 DEF AES_data_out
    <3> QED BY <3>1, <3>2, <3>3 DEF CoreInv, TokensInStep, KeyInStep
  <2> QED BY <2>2 DEF KeyFresh, CoreInv, KeyInStep
<1> QED BY <1>1, CoreInvariant, PTL

(* Drained: nothing of a message is left when it ends, although            *)
(* process_finish looks at the valid bits of the pipeline alone.           *)
THEOREM AlwaysDrained == Spec => []Drained
<1>1. CoreInv => Drained
  <2> SUFFICES ASSUME CoreInv, Current \in {"FINISH", "IDLE"}
               PROVE  /\ ~gen_J0 /\ data_type_in = "none"
                      /\ \A s \in 0..NR : pipe[s].type = "none"
                      /\ w_ptr = r_ptr
    BY DEF Drained
  <2>1. Quiet
    BY DEF CoreInv, TokensInStep, Keying, Moving
  <2>2. ~gen_J0 /\ data_type_in = "none" /\ \A s \in 0..NR : pipe[s].type = "none"
    BY <2>1, QuietRegisters, Facts DEF Stages
  <2>3. w_ptr = r_ptr
    BY <2>1, NothingOnTheWay, NothingPending, Facts
  <2> QED BY <2>2, <2>3
<1> QED BY <1>1, CoreInvariant, PTL

-----------------------------------------------------------------------------
(* The counter-mode path inside the core.                                  *)

(* Every clock of the core is an edge of the path under a driver that      *)
(* keeps what AesCtr asks of it: no load at the maximum of the counter, no *)
(* new IV under loaded blocks, no clearing with a block on its way.        *)
THEOREM PathDriven == Spec => DrivesCounterPath
<1>1. Init => CtrPathInit
  BY DEF Init, CtrPathInit
<1>2. CoreInv /\ [Next]_vars => [CtrNext]_<<keyVars, ctrVars>>
  <2> SUFFICES ASSUME CoreInv, [Next]_vars PROVE CtrNext \/ UNCHANGED <<keyVars, ctrVars>>
    OBVIOUS
  <2>1. CASE Tick
    <3>1. PICK in \in Input : \E m \in Messages \cup {NoMessage} : Driven(in, m)
      BY <2>1, TickDriven
    <3>2. PICK m \in Messages \cup {NoMessage} : Driven(in, m)
      BY <3>1
    <3> QED BY <3>2, DriveIsInput, DriveIsEdge DEF CtrNext
  <2>2. CASE Reset
    BY <2>2 DEF Reset, CtrNext
  <2>3. CASE UNCHANGED vars
    BY <2>3 DEF vars
  <2> QED BY <2>1, <2>2, <2>3 DEF Next
<1> QED BY <1>1, <1>2, CoreInvariant, PTL DEF Spec, DrivesCounterPath, CtrSpec

(* So what holds of the path holds in the core: the keystream block at the *)
(* XOR is the one of the word at the FIFO's output, and no two blocks of   *)
(* the pipeline have the same counter.                                     *)
THEOREM CoreKeystreamCorrect == Spec => [](KeystreamMatchesWord /\ CountersDistinct)
BY PathDriven, KeystreamCorrect, CountersAlwaysDistinct, PTL DEF DrivesCounterPath

-----------------------------------------------------------------------------
(* OverflowIsFinal.                                                        *)

(* An overflow happens in LOAD_DATA, and no driven clock ends it.          *)
LEMMA OverflowStays ==
    ASSUME CoreInv, NEW in \in Input, NEW m \in Messages \cup {NoMessage}, Driven(in, m),
           Overflowed
    PROVE  Overflowed' /\ msg' = msg
<1>1. CTR_counter = CtrMax /\ msg # NoMessage /\ dataSent < msg.data /\ CtrMax # 0
  BY GcmAssumption DEF Overflowed, CTR_counter_overflow
<1>2. Current # "FINISH"
  BY <1>1 DEF CoreInv, WordsInStep
<1>3. CTR_counter = dataSent /\ dataSent \in Nat /\ msg.data \in Nat
  BY <1>1, <1>2, Counts, StatesOfMessage, MessageParts
<1>4. dataSent # msg.data
  BY <1>1, <1>3
<1>5. Current = "LOAD_DATA"
  BY <1>1, <1>2, <1>3, <1>4 DEF CoreInv, WordsInStep, Counted, Ending
<1>6. ~in.load_data /\ ~in.data_in_last
  BY <1>1, <1>4, <1>5 DEF Driven, data_ready, CTR_counter_overflow
<1>7. Current' = "LOAD_DATA" /\ ~Clear /\ m = msg /\ ~finish
  BY <1>5, <1>6, Moves, Strobes DEF Clear, finish, Keying
<1>8. CTR_counter' = CTR_counter /\ msg' = msg /\ dataSent' = dataSent
  BY <1>6, <1>7, PathMoves DEF Driven
<1> QED BY <1>1, <1>8 DEF Overflowed, CTR_counter_overflow

(* Without a reset, a message longer than the counter never ends.          *)
THEOREM OverflowForever == Resettable = FALSE => (Spec => OverflowIsFinal)
<1> SUFFICES ASSUME Resettable = FALSE PROVE Spec => OverflowIsFinal
  OBVIOUS
<1>1. CoreInv /\ [Next]_vars => [Overflowed => Overflowed' /\ msg' = msg]_vars
  <2> SUFFICES ASSUME CoreInv, [Next]_vars
               PROVE  (Overflowed => Overflowed' /\ msg' = msg) \/ UNCHANGED vars
    OBVIOUS
  <2>1. CASE Tick
    <3>1. PICK in \in Input : \E m \in Messages \cup {NoMessage} : Driven(in, m)
      BY <2>1, TickDriven
    <3>2. PICK m \in Messages \cup {NoMessage} : Driven(in, m)
      BY <3>1
    <3> QED BY <3>2, OverflowStays
  <2>2. CASE Reset
    BY <2>2 DEF Reset
  <2> QED BY <2>1, <2>2 DEF Next
<1> QED BY <1>1, CoreInvariant, PTL DEF Spec, OverflowIsFinal

-----------------------------------------------------------------------------
(* The service.                                                            *)

(* Which step of GcmSpec a clock of the core is.                           *)
LEMMA ClockIsServiceStep ==
    ASSUME CoreInv, NEW in \in Input, NEW m \in Messages \cup {NoMessage}, Driven(in, m)
    PROVE  S!SpecNext \/ UNCHANGED <<msg, dataSent, produced, verdict>>
<1>1. CASE finish
  <2>1. msg' = NoMessage /\ dataSent' = 0 /\ produced' = <<>> /\ verdict' = NoVerdict
    BY <1>1 DEF Driven, Sample
  <2>2. CASE msg = NoMessage
    <3>1. dataSent = 0 /\ produced = <<>> /\ verdict = NoVerdict
      BY <2>2 DEF CoreInv, WordsInStep, AnswersInStep, VerdictInStep
    <3> QED BY <2>1, <2>2, <3>1
  <2>3. CASE msg # NoMessage
    <3>1. verdict # NoVerdict
      BY <1>1, <2>3 DEF CoreInv, VerdictInStep, finish
    <3> QED BY <2>1, <3>1 DEF S!SpecNext, S!Close, S!SpecInit
  <2> QED BY <2>2, <2>3
<1>2. CASE ~finish /\ (tag_valid \/ verify_done)
  <2>1. /\ msg' = msg /\ msg \in Messages /\ verdict' = S!Verdict(msg) /\ Current \in Ending
    BY <1>2, VerdictGiven
  <2>2. tag_process_valid
    BY <1>2 DEF tag_valid, verify_done, CoreInv, ResultInStep
  <2>3. ~data_valid /\ CT_cnt = msg.data
    BY <2>2 DEF CoreInv, ResultInStep, HashInStep
  <2>4. produced' = produced /\ Len(produced) = msg.data
    BY <1>2, <2>3, Counts DEF Driven, Sample, finish
  <2>5. dataSent' = dataSent
    BY <1>2, <2>1, Strobes DEF Driven, Ending
  <2>6. CASE verdict = NoVerdict
    BY <2>1, <2>4, <2>5, <2>6, NamesAssumption DEF S!SpecNext, S!Conclude
  <2>7. CASE verdict # NoVerdict
    <3>1. verdict' = verdict
      BY <2>1, <2>7 DEF CoreInv, VerdictInStep
    <3> QED BY <2>1, <2>4, <2>5, <3>1
  <2> QED BY <2>6, <2>7
<1>3. CASE ~finish /\ ~tag_valid /\ ~verify_done
  <2>1. /\ verdict' = verdict /\ msg' = m
        /\ produced' = IF data_valid THEN Append(produced, data_out) ELSE produced
        /\ dataSent' = IF in.load_data THEN dataSent + 1 ELSE dataSent
    BY <1>3 DEF Driven, Sample
  <2>2. CASE in.load_IV
    <3>1. Current \in {"IDLE"} \cup Keying /\ m \in Messages /\ msg = NoMessage
      BY <2>2, Strobes DEF Driven
    <3>2. ~in.load_data /\ ~data_valid
      BY <3>1, Strobes, Counts DEF Keying, Counted
    <3> QED BY <2>1, <3>1, <3>2 DEF S!SpecNext, S!Open
  <2>3. CASE ~in.load_IV /\ msg = NoMessage
    <3>1. m = msg /\ Current \notin Serving /\ Current # "FINISH"
      BY <1>3, <2>3 DEF Driven, CoreInv, MessageInStep, finish
    <3>2. ~in.load_data /\ ~data_valid
      BY <3>1, Strobes, Counts DEF Serving, Started, Counted
    <3> QED BY <2>1, <3>1, <3>2
  <2>4. CASE ~in.load_IV /\ msg # NoMessage
    <3>1. m = msg /\ Current # "FINISH"
      BY <1>3, <2>4 DEF Driven, finish
    <3>2. dataSent' = dataSent \/ (dataSent < msg.data /\ dataSent' = dataSent + 1)
      BY <2>1 DEF Driven
    <3>3. \/ produced' = produced
          \/ /\ Len(produced) < dataSent
             /\ produced' = Append(produced, S!Answer(msg, Len(produced) + 1))
      <4>1. CASE data_valid
        <5>1. CT_cnt = Len(produced) + 1 /\ data_out = S!Answer(msg, CT_cnt)
          BY <3>1, <4>1, Counts DEF CoreInv, AnswersInStep
        <5>2. CT_cnt <= fetched /\ fetched <= dataSent /\ Len(produced) \in Nat
              /\ fetched \in Nat /\ dataSent \in Nat
          BY <3>1, <5>1, Counts
        <5>3. Len(produced) < dataSent
          BY <5>1, <5>2
        <5> QED BY <2>1, <4>1, <5>1, <5>3
      <4>2. CASE ~data_valid
        BY <2>1, <4>2
      <4> QED BY <4>1, <4>2
    <3> QED BY <2>1, <2>4, <3>1, <3>2, <3>3 DEF S!SpecNext, S!Progress
  <2> QED BY <2>2, <2>3, <2>4
<1> QED BY <1>1, <1>2, <1>3

(* ImplementsService: whatever the clocks in which words, gaps, keys and   *)
(* tags are presented, the user sees one message at a time, every word     *)
(* answered once, in order and with its own keystream, and after the last  *)
(* one the GCM tag, or whether the tag presented is it.                    *)
THEOREM CoreImplementsService == Spec => ImplementsService
<1>1. Init => S!SpecInit
  BY DEF Init, UserInit, S!SpecInit
<1>2. CoreInv /\ [Next]_vars => [S!SpecNext]_(S!specVars)
  <2> SUFFICES ASSUME CoreInv, [Next]_vars
               PROVE  S!SpecNext \/ UNCHANGED <<msg, dataSent, produced, verdict>>
    BY DEF S!specVars
  <2>1. CASE Tick
    <3>1. PICK in \in Input : \E m \in Messages \cup {NoMessage} : Driven(in, m)
      BY <2>1, TickDriven
    <3>2. PICK m \in Messages \cup {NoMessage} : Driven(in, m)
      BY <3>1
    <3> QED BY <3>2, ClockIsServiceStep
  <2>2. CASE Reset
    BY <2>2 DEF Reset, S!SpecNext, S!Close, S!SpecInit
  <2>3. CASE UNCHANGED vars
    BY <2>3 DEF vars, userVars
  <2> QED BY <2>1, <2>2, <2>3 DEF Next
<1> QED BY <1>1, <1>2, CoreInvariant, PTL DEF Spec, ImplementsService, S!Service

-----------------------------------------------------------------------------
(* THE LATENCIES                                                           *)
(* H is at position sinceKey - 1 of its way until it is loaded.            *)
KeyTimed ==
    /\ sinceKey \in 0..Limit
    /\ Current = "IDLE" => sinceKey = 0
    /\ sinceKey > 0 /\ ~H_loaded => \E p \in Way : sinceKey = p + 1 /\ Kind(p) = "H"
    /\ sinceKey > 0 /\ H_loaded => sinceKey >= NR + 4

(* The last word's block is at position sinceLast - 1, the J0 sent after   *)
(* it one behind; the word is fetched in cycle NR + 3, answered in NR + 4, *)
(* and then the length word, the hash and the tag take a clock each.       *)
LastTimed ==
    /\ sinceLast \in 0..Limit
    /\ sinceLast > 0 =>
        /\ Current \in Counted /\ dataSent = msg.data
        /\ sinceLast = 1 => data_type_in = "CTR" /\ gen_J0
        /\ \A s \in 0..NR : sinceLast = s + 2 => Carries(s) /\ Number(s) = msg.data
        /\ \A p \in Way : sinceLast = p + 2 => Kind(p) = "J0"
        /\ fetched = msg.data <=> sinceLast >= NR + 3
        /\ keystream_valid /\ fetched = msg.data <=> sinceLast = NR + 3
        /\ data_valid /\ data_out_last <=> sinceLast = NR + 4
        /\ length_block_valid <=> sinceLast = NR + 4
        /\ ghash_finish <=> sinceLast >= NR + 5
        /\ sinceLast >= NR + 5 => E_loaded
        /\ tag_process_valid <=> sinceLast >= NR + 6

TimedInv == KeyTimed /\ LastTimed

-----------------------------------------------------------------------------
LEMMA TimedInvInit == TimedInit => TimedInv
BY GcmAssumption DEF TimedInit, TimedInv, KeyTimed, LastTimed, Limit, Init

(* What the stopwatches do in a driven clock.                              *)
LEMMA Watches ==
    ASSUME CoreInv, TimedInv, NEW in \in Input, NEW m \in Messages \cup {NoMessage}, Driven(in, m),
           TimedNext
    PROVE  /\ Current' # "IDLE" =>
                sinceKey' = IF in.load_key THEN 1 ELSE Advance(sinceKey)
           /\ Current' = "IDLE" => sinceKey' = 0
           /\ Current' \in {"FINISH", "IDLE"} => sinceLast' = 0
           /\ Current' \notin {"FINISH", "IDLE"} =>
                sinceLast' = IF in.load_data /\ dataSent' = msg.data THEN 1 ELSE Advance(sinceLast)
<1>1. key_ready /\ Current' = "KEY_EXPANSION" <=> in.load_key /\ Current' # "IDLE"
  BY Moves, Strobes DEF key_ready
<1>2. Current' \notin {"FINISH", "IDLE"} => (in.load_data <=> dataSent' # dataSent)
  <2>1. ~finish => dataSent' = IF in.load_data THEN dataSent + 1 ELSE dataSent
    BY DEF Driven
  <2>2. Current' # "IDLE" => ~finish
    BY Moves DEF finish
  <2> QED BY <2>1, <2>2, Counts
<1>3. in.load_data => m = msg /\ ~finish
  BY Strobes DEF Keying, finish
<1>4. msg' = IF finish THEN NoMessage ELSE m
  BY DEF Driven
<1>5. in.load_data => msg' = msg
  BY <1>3, <1>4
<1> QED BY <1>1, <1>2, <1>5 DEF TimedNext

-----------------------------------------------------------------------------
(* H.                                                                      *)
LEMMA KeyTimedAfter ==
    ASSUME CoreInv, TimedInv, NEW in \in Input, NEW m \in Messages \cup {NoMessage}, Driven(in, m),
           TimedNext
    PROVE  KeyTimed'
<1>0. NR \in Nat /\ sinceKey \in 0..NR + 7 /\ sinceKey \in Nat
  BY Facts DEF TimedInv, KeyTimed, Limit
<1>1. /\ H_loaded' <=> ~in.load_key /\ (H_loaded \/ H_valid)
      /\ data_type_in' = IF in.load_key THEN "H" ELSE IF in.load_data THEN "CTR"
                         ELSE IF gen_J0 THEN "J0" ELSE "none"
      /\ PipeStep
  BY HMoves, PathMoves
<1>2. CASE Current' = "IDLE"
  <2>1. sinceKey' = 0 /\ 0 \in 0..NR + 7
    BY <1>0, <1>2, Watches
  <2> QED BY <2>1 DEF KeyTimed, Limit
<1>3. CASE Current' # "IDLE" /\ in.load_key
  <2>1. sinceKey' = 1 /\ ~H_loaded' /\ data_type_in' = "H"
    BY <1>1, <1>3, Watches
  <2>2. 0 \in Way /\ Kind(0)' = "H" /\ sinceKey' = 0 + 1
    BY <2>1, KindOf DEF Kind
  <2>3. \E p \in Way : sinceKey' = p + 1 /\ Kind(p)' = "H"
    BY <2>2
  <2>4. sinceKey' \in 0..NR + 7
    BY <1>0, <2>1
  <2> QED BY <1>0, <1>3, <2>1, <2>3, <2>4 DEF KeyTimed, Limit
<1>4. CASE Current' # "IDLE" /\ ~in.load_key
  <2>1. sinceKey' = Advance(sinceKey) /\ (H_loaded' <=> H_loaded \/ H_valid)
    BY <1>1, <1>4, Watches
  <2>2. sinceKey' \in 0..NR + 7 /\ (sinceKey' > 0 => sinceKey > 0)
        /\ (sinceKey \in 1..NR + 6 => sinceKey' = sinceKey + 1)
        /\ sinceKey' >= sinceKey
    BY <1>0, <2>1 DEF Advance, Limit
  <2>3. CASE H_loaded
    <3>1. sinceKey > 0 => sinceKey >= NR + 4
      BY <2>3 DEF KeyTimed, TimedInv
    <3>2. sinceKey' > 0 => sinceKey' >= NR + 4
      BY <1>0, <2>2, <3>1
    <3> QED BY <1>0, <1>4, <2>1, <2>2, <2>3, <3>2 DEF KeyTimed, Limit
  <2>4. CASE ~H_loaded /\ sinceKey > 0
    <3>1. PICK p \in Way : sinceKey = p + 1 /\ Kind(p) = "H"
      BY <2>4 DEF TimedInv, KeyTimed
    <3>2. Current \in Keying
      BY <2>4, StatesOfMessage DEF TimedInv, KeyTimed, CoreInv, KeyInStep, Serving, Started,
         Counted, Keying, CUStates
    <3>3. PICK q \in Way : HAlone(q)
      BY <2>4, <3>2 DEF CoreInv, KeyInStep
    <3>4. p \in Nat /\ p <= NR + 2 /\ sinceKey' = p + 2
      BY <1>0, <2>2, <3>1 DEF Way
    <3>5. p = q
      BY <3>1, <3>3 DEF HAlone
    <3>6. NR + 2 \in Way /\ Kind(NR + 2) = data_type_out
      <4>1. NR + 1 \in Stages
        BY <1>0 DEF Stages
      <4>2. NR + 1 + 1 = NR + 2
        BY <1>0
      <4>3. Kind(NR + 1 + 1) = pipe[NR + 1].type /\ NR + 1 + 1 \in Way
        BY <4>1, KindOf
      <4> QED BY <4>2, <4>3 DEF data_type_out
    <3>7. H_valid <=> p = NR + 2
      BY <3>3, <3>5, <3>6 DEF HAlone, H_valid
    <3>8. CASE p = NR + 2
      <4>1. sinceKey' = NR + 4
        BY <1>0, <3>4, <3>8
      <4>2. H_loaded'
        BY <2>1, <3>7, <3>8
      <4> QED BY <1>0, <1>4, <2>2, <4>1, <4>2 DEF KeyTimed, Limit
    <3>9. CASE p # NR + 2
      <4>1. p + 1 \in Way /\ p + 1 > 0 /\ p + 1 - 1 = p /\ sinceKey' = (p + 1) + 1
        BY <1>0, <3>4, <3>9 DEF Way
      <4>2. PICK r \in Way : r = p + 1
        BY <4>1
      <4>3. r > 0 /\ r - 1 = p
        BY <4>1, <4>2
      <4>4. \E x \in Way : sinceKey' = x + 1 /\ Kind(x)' = "H"
        <5>1. Kind(r)' = Kind(r - 1)
          BY <1>1, <4>3, KindsMove
        <5>2. Kind(r - 1) = "H"
          BY <3>1, <4>3
        <5> QED BY <4>1, <4>2, <5>1, <5>2
      <4>5. ~H_loaded'
        BY <2>1, <2>4, <3>7, <3>9
      <4> QED BY <1>0, <1>4, <2>2, <4>4, <4>5 DEF KeyTimed, Limit
    <3> QED BY <3>8, <3>9
  <2>5. CASE sinceKey = 0
    <3>1. sinceKey' = 0
      BY <2>1, <2>5 DEF Advance
    <3> QED BY <1>0, <1>4, <2>2, <3>1 DEF KeyTimed, Limit
  <2>6. H_loaded \/ ~H_loaded
    OBVIOUS
  <2> QED BY <1>0, <2>3, <2>4, <2>5, <2>6
<1> QED BY <1>2, <1>3, <1>4

-----------------------------------------------------------------------------
(* The last word and its tag.                                              *)

(* In a clock that ends no message, every strobe follows the one before.   *)
LEMMA StrobesFollow ==
    ASSUME CoreInv, NEW in \in Input, NEW m \in Messages \cup {NoMessage}, Driven(in, m),
           Current \in Counted \cup {"WAIT_DATA"}, ~Clear
    PROVE  /\ m = msg /\ msg' = msg /\ msg \in Messages /\ Current' \in Counted \cup {"WAIT_DATA"}
           /\ CT_last <=> keystream_valid /\ fetched = msg.data
           /\ keystream_valid' <=> Carries(NR)
           /\ data_valid' /\ data_out_last' <=> CT_last
           /\ length_block_valid' <=> CT_last
           /\ ghash_finish' <=> ghash_finish \/ length_block_valid
           /\ E_loaded' <=> E_loaded \/ E_valid
           /\ tag_process_valid' <=> ghash_finish /\ E_loaded
           /\ fetched' = IF Carries(NR) THEN fetched + 1 ELSE fetched
           /\ PipeStep /\ gen_J0' = in.data_in_last
           /\ data_type_in' = IF in.load_data THEN "CTR" ELSE IF gen_J0 THEN "J0" ELSE "none"
           /\ dataSent' = IF in.load_data THEN dataSent + 1 ELSE dataSent
<1>1. ~finish /\ ~in.load_key /\ m = msg /\ Current # "FINISH" /\ msg \in Messages
  BY Strobes, StatesOfMessage DEF Counted, Keying, Serving, Started, finish, Clear
<1>2. msg' = msg /\ dataSent' = IF in.load_data THEN dataSent + 1 ELSE dataSent
  BY <1>1 DEF Driven
<1>3. Current' \in Counted \cup {"WAIT_DATA"}
  BY Moves DEF Counted, Clear
<1>4. keystream_valid => FIFO_data.last = (fetched = msg.data)
  BY DEF CoreInv, OutputInStep
<1>5. CT_last <=> keystream_valid /\ fetched = msg.data
  BY <1>4 DEF CT_last
<1>6. PipeStep /\ data_valid' = keystream_valid /\ data_out_last' = CT_last
  BY PathMoves
<1>7. keystream_valid' <=> Carries(NR)
  BY <1>6, OutputMoves
<1>8. data_valid' /\ data_out_last' <=> CT_last
  BY <1>6 DEF CT_last, keystream_valid
<1> QED BY <1>1, <1>2, <1>3, <1>5, <1>6, <1>7, <1>8, PathMoves, TagMoves

LEMMA LastLoaded ==
    ASSUME CoreInv, CoreInv', NEW in \in Input, NEW m \in Messages \cup {NoMessage}, Driven(in, m),
           ~Clear, in.load_data, dataSent' = msg.data, sinceLast' = 1
    PROVE  LastTimed'
<1>1. Current \in {"WAIT_DATA", "LOAD_DATA"} /\ Current' \in Counted
  BY Strobes, Moves DEF Counted
<1>2. Current \in Counted \cup {"WAIT_DATA"} /\ NR \in Nat
  BY <1>1, Facts DEF Counted
<1>3. /\ dataSent' = dataSent + 1 /\ dataSent \in Nat /\ fetched \in Nat /\ fetched <= dataSent
      /\ msg' = msg /\ msg \in Messages /\ CT_cnt <= fetched /\ CT_cnt \in Nat
  BY <1>1, <1>2, StrobesFollow, Counts
<1>4. dataSent < msg.data /\ fetched # msg.data /\ CT_cnt # msg.data
  BY <1>3
<1>5. ~CT_last /\ ~length_block_valid /\ ~ghash_finish
  <2>1. ~CT_last
    BY <1>2, <1>4, StrobesFollow
  <2> QED BY <1>4, <2>1 DEF CoreInv, HashInStep
<1>6. fetched' <= dataSent /\ fetched' \in Nat
  <2>1. Carries(NR) => fetched + 1 <= CTR_counter
    BY NextFetched, Facts
  <2>2. CTR_counter = dataSent
    BY <1>1, Counts
  <2> QED BY <1>2, <1>3, <2>1, <2>2, StrobesFollow
<1>7. fetched' # msg'.data
  <2>1. msg'.data = dataSent + 1
    BY <1>3
  <2>2. fetched' # dataSent + 1
    BY <1>3, <1>6
  <2> QED BY <2>1, <2>2
<1>8. data_type_in' = "CTR" /\ gen_J0'
  <2>1. in.data_in_last
    BY <1>3 DEF Driven
  <2> QED BY <1>2, <2>1, StrobesFollow
<1>9. /\ ~(data_valid' /\ data_out_last') /\ ~length_block_valid' /\ ~ghash_finish'
      /\ ~tag_process_valid'
  BY <1>2, <1>5, StrobesFollow
<1>10. /\ \A s \in 0..NR : 1 # s + 2
       /\ \A p \in Way : 1 # p + 2
       /\ ~(1 >= NR + 3) /\ 1 # NR + 3 /\ 1 # NR + 4 /\ ~(1 >= NR + 5) /\ ~(1 >= NR + 6)
       /\ 1 \in 0..NR + 7
  BY <1>2 DEF Way
<1> QED BY <1>1, <1>3, <1>7, <1>8, <1>9, <1>10 DEF LastTimed, Limit

LEMMA LastAdvances ==
    ASSUME CoreInv, CoreInv', LastTimed, NEW in \in Input, NEW m \in Messages \cup {NoMessage},
           Driven(in, m), ~Clear, sinceLast > 0, sinceLast' = Advance(sinceLast)
    PROVE  LastTimed'
<1>0. /\ NR \in Nat /\ sinceLast \in 1..NR + 7
      /\ Current \in Counted /\ Current \in Counted \cup {"WAIT_DATA"} /\ dataSent = msg.data
  BY Facts DEF LastTimed, Limit
<1>1. /\ sinceLast' \in 2..NR + 7
      /\ sinceLast < NR + 7 => sinceLast' = sinceLast + 1
      /\ sinceLast = NR + 7 => sinceLast' = NR + 7
  BY <1>0 DEF Advance, Limit
<1>2. /\ ~in.load_data /\ msg' = msg /\ msg \in Messages /\ dataSent' = dataSent
      /\ fetched \in Nat /\ msg.data \in Nat /\ CTR_counter = msg.data
  <2>1. msg \in Messages
    BY <1>0, StrobesFollow
  <2>2. ~in.load_data
    BY <1>0, <2>1, MessageParts DEF Driven
  <2> QED BY <1>0, <2>1, <2>2, StrobesFollow, Counts, MessageParts DEF Counted
<1>3. Current' \in Counted
  <2>1. Current' # "WAIT_DATA"
    BY <1>0, Moves DEF Counted
  <2> QED BY <1>0, <2>1, StrobesFollow
<1>4. ASSUME NEW s \in 0..NR, sinceLast' = s + 2
      PROVE  Carries(s)' /\ Number(s)' = msg'.data
  <2>0. sinceLast = s + 1
    BY <1>0, <1>1, <1>4
  <2>1. CtrInv /\ PipeStep /\ sinceLast = s + 1
    BY <2>0, Facts, PathMoves
  <2>2. CASE s = 0
    <3>1. data_type_in = "CTR"
      BY <1>0, <2>1, <2>2 DEF LastTimed
    <3> QED BY <1>2, <2>1, <2>2, <3>1, NumbersMove
  <2>3. CASE s # 0
    <3>1. s \in 1..NR /\ s - 1 \in 0..NR /\ sinceLast = (s - 1) + 2
      BY <1>0, <2>1, <2>3
    <3>2. Carries(s - 1) /\ Number(s - 1) = msg.data
      BY <1>0, <3>1 DEF LastTimed
    <3> QED BY <1>2, <2>1, <3>1, <3>2, NumbersMove
  <2> QED BY <2>2, <2>3
<1>5. ASSUME NEW p \in Way, sinceLast' = p + 2
      PROVE  Kind(p)' = "J0"
  <2>0. sinceLast = p + 1 /\ p \in 0..NR + 2
    BY <1>0, <1>1, <1>5 DEF Way
  <2>1. PipeStep /\ sinceLast = p + 1 /\ p \in 0..NR + 2
    BY <2>0, PathMoves
  <2>2. CASE p = 0
    <3>1. data_type_in' = "J0"
      BY <1>0, <1>2, <2>1, <2>2, StrobesFollow DEF LastTimed
    <3> QED BY <2>1, <2>2, <3>1, KindsMove
  <2>3. CASE p # 0
    <3>1. p > 0 /\ p - 1 \in Way /\ sinceLast = (p - 1) + 2
      BY <1>0, <2>1, <2>3 DEF Way
    <3>2. Kind(p - 1) = "J0"
      BY <1>0, <3>1 DEF LastTimed
    <3> QED BY <2>1, <3>1, <3>2, KindsMove
  <2> QED BY <2>2, <2>3
<1>6. fetched' = msg'.data <=> sinceLast' >= NR + 3
  <2>1. CASE sinceLast <= NR + 1
    <3>1. PICK s \in 0..NR : sinceLast' = s + 2
      <4>1. sinceLast - 1 \in 0..NR /\ sinceLast' = (sinceLast - 1) + 2
        BY <1>0, <1>1, <2>1
      <4> QED BY <4>1
    <3>2. Carries(s)' /\ Number(s)' = msg.data
      BY <1>2, <1>4, <3>1
    <3>3. fetched' < Number(s)'
      BY <3>2 DEF CoreInv, CtrInv, BlocksLoaded
    <3>4. fetched' # msg'.data
      BY <1>2, <3>2, <3>3
    <3> QED BY <1>0, <1>1, <2>1, <3>4
  <2>2. CASE sinceLast = NR + 2
    <3>1. NR \in 0..NR /\ Carries(NR) /\ Number(NR) = msg.data
      BY <1>0, <2>2 DEF LastTimed
    <3>2. fetched + 1 = msg.data
      BY <3>1, NextFetched, Facts
    <3>3. fetched' = msg'.data
      BY <1>0, <1>2, <3>1, <3>2, StrobesFollow
    <3> QED BY <1>0, <1>1, <2>2, <3>3
  <2>3. CASE sinceLast >= NR + 3
    <3>1. fetched = msg.data
      BY <1>0, <2>3 DEF LastTimed
    <3>2. fetched' = msg'.data
      BY <1>0, <1>2, <3>1, LastFetched, StrobesFollow
    <3> QED BY <1>0, <1>1, <2>3, <3>2
  <2> QED BY <1>0, <2>1, <2>2, <2>3
<1>7. keystream_valid' /\ fetched' = msg'.data <=> sinceLast' = NR + 3
  <2>1. CASE sinceLast <= NR + 1
    BY <1>0, <1>1, <1>6, <2>1
  <2>2. CASE sinceLast = NR + 2
    <3>1. NR \in 0..NR /\ Carries(NR)
      BY <1>0, <2>2 DEF LastTimed
    <3> QED BY <1>0, <1>1, <1>6, <2>2, <3>1, StrobesFollow
  <2>3. CASE sinceLast >= NR + 3
    <3>1. fetched = msg.data
      BY <1>0, <2>3 DEF LastTimed
    <3>2. ~Carries(NR)
      BY <1>0, <3>1, LastFetched
    <3>3. ~keystream_valid'
      BY <1>0, <3>2, StrobesFollow
    <3> QED BY <1>0, <1>1, <2>3, <3>3
  <2> QED BY <1>0, <2>1, <2>2, <2>3
<1>8. CT_last <=> sinceLast' = NR + 4
  <2>1. CT_last <=> sinceLast = NR + 3
    BY <1>0, StrobesFollow DEF LastTimed
  <2> QED BY <1>0, <1>1, <2>1
<1>9. /\ data_valid' /\ data_out_last' <=> sinceLast' = NR + 4
      /\ length_block_valid' <=> sinceLast' = NR + 4
  BY <1>0, <1>8, StrobesFollow
<1>10. ghash_finish' <=> sinceLast' >= NR + 5
  <2>1. ghash_finish \/ length_block_valid <=> sinceLast >= NR + 4
    BY <1>0 DEF LastTimed
  <2>2. sinceLast >= NR + 4 <=> sinceLast' >= NR + 5
    BY <1>0, <1>1
  <2> QED BY <1>0, <2>1, <2>2, StrobesFollow
<1>11. sinceLast' >= NR + 5 => E_loaded'
  <2>1. CASE sinceLast = NR + 4
    <3>1. NR + 2 \in Way /\ sinceLast = (NR + 2) + 2
      BY <1>0, <2>1 DEF Way
    <3>2. Kind(NR + 2) = "J0"
      BY <1>0, <3>1 DEF LastTimed
    <3>3. E_valid
      <4>1. PICK r \in Way : r = NR + 2
        BY <3>1
      <4>2. r > 0 /\ r - 1 = NR + 1
        BY <1>0, <4>1
      <4>3. Kind(r) = pipe[r - 1].type
        BY <4>2, KindOf
      <4> QED BY <3>2, <4>1, <4>2, <4>3 DEF E_valid, data_type_out
    <3> QED BY <1>0, <3>3, StrobesFollow
  <2>2. CASE sinceLast >= NR + 5
    <3>1. E_loaded
      BY <1>0, <2>2 DEF LastTimed
    <3> QED BY <1>0, <3>1, StrobesFollow
  <2>3. CASE sinceLast <= NR + 3
    BY <1>0, <1>1, <2>3
  <2> QED BY <1>0, <2>1, <2>2, <2>3
<1>12. tag_process_valid' <=> sinceLast' >= NR + 6
  <2>1. ghash_finish /\ E_loaded <=> sinceLast >= NR + 5
    BY <1>0 DEF LastTimed
  <2>2. sinceLast >= NR + 5 <=> sinceLast' >= NR + 6
    BY <1>0, <1>1
  <2> QED BY <1>0, <2>1, <2>2, StrobesFollow
<1>13. sinceLast' \in 0..NR + 7 /\ sinceLast' # 1 /\ dataSent' = msg'.data
  BY <1>0, <1>1, <1>2
<1> QED BY <1>3, <1>4, <1>5, <1>6, <1>7, <1>9, <1>10, <1>11, <1>12, <1>13 DEF LastTimed, Limit

LEMMA LastTimedAfter ==
    ASSUME CoreInv, CoreInv', TimedInv, NEW in \in Input, NEW m \in Messages \cup {NoMessage},
           Driven(in, m), TimedNext
    PROVE  LastTimed'
<1>0. NR \in Nat /\ sinceLast \in 0..NR + 7 /\ LastTimed
  BY Facts DEF TimedInv, LastTimed, Limit
<1>1. sinceLast' = 0 => LastTimed'
  <2>1. 0 \in 0..NR + 7 /\ ~(0 > 0)
    BY <1>0
  <2> QED BY <2>1 DEF LastTimed, Limit
<1>2. CASE Current' \in {"FINISH", "IDLE"}
  BY <1>1, <1>2, Watches
<1>3. CASE Current' \notin {"FINISH", "IDLE"}
  <2>1. ~Clear
    BY <1>3, Moves DEF Clear, finish
  <2>2. sinceLast' = IF in.load_data /\ dataSent' = msg.data THEN 1 ELSE Advance(sinceLast)
    BY <1>3, Watches
  <2>3. CASE in.load_data /\ dataSent' = msg.data
    BY <2>1, <2>2, <2>3, LastLoaded
  <2>4. CASE ~(in.load_data /\ dataSent' = msg.data)
    <3>1. sinceLast' = Advance(sinceLast)
      BY <2>2, <2>4
    <3>2. CASE sinceLast = 0
      BY <1>1, <3>1, <3>2 DEF Advance
    <3>3. CASE sinceLast > 0
      BY <1>0, <2>1, <3>1, <3>3, LastAdvances
    <3> QED BY <1>0, <3>2, <3>3
  <2> QED BY <2>3, <2>4
<1> QED BY <1>2, <1>3

(* Latency: whatever the keys, messages, gaps and resets, H takes NR + 4   *)
(* clocks, the last word's answer NR + 4 and the tag NR + 6, never one     *)
(* more or less.                                                           *)
THEOREM LatencyExact == TimedSpec => []Latency
<1>1. TimedSpec => Spec
  <2>1. TimedInit => Init
    BY DEF TimedInit
  <2>2. [TimedNext]_timedVars => [Next]_vars
    BY DEF TimedNext, timedVars
  <2> QED BY <2>1, <2>2, PTL DEF TimedSpec, Spec
<1>2. CoreInv /\ CoreInv' /\ TimedInv /\ [TimedNext]_timedVars => TimedInv'
  <2> SUFFICES ASSUME CoreInv, CoreInv', TimedInv, [TimedNext]_timedVars PROVE TimedInv'
    OBVIOUS
  <2>1. CASE TimedNext /\ Tick
    <3>1. PICK in \in Input : \E m \in Messages \cup {NoMessage} : Driven(in, m)
      BY <2>1, TickDriven
    <3>2. PICK m \in Messages \cup {NoMessage} : Driven(in, m)
      BY <3>1
    <3>3. KeyTimed'
      BY <2>1, <3>2, KeyTimedAfter
    <3>4. LastTimed'
      BY <2>1, <3>2, LastTimedAfter
    <3> QED BY <3>3, <3>4 DEF TimedInv
  <2>2. CASE TimedNext /\ Reset
    <3>1. sinceKey' = 0 /\ sinceLast' = 0
      BY <2>2 DEF TimedNext, Reset, CUReset
    <3>2. 0 \in 0..NR + 7
      BY Facts
    <3> QED BY <3>1, <3>2 DEF TimedInv, KeyTimed, LastTimed, Limit
  <2>3. CASE UNCHANGED timedVars
    <3> USE DEF timedVars, vars, keyVars, ctrVars, tagVars, userVars
    <3>1. KeyTimed'
      BY <2>3 DEF TimedInv, KeyTimed, Kind, Limit
    <3>2. LastTimed'
      BY <2>3 DEF TimedInv, LastTimed, Kind, Limit, Carries, Number, keystream_valid, data_type_out
    <3> QED BY <3>1, <3>2 DEF TimedInv
  <2> QED BY <2>1, <2>2, <2>3 DEF TimedNext, Next
<1>3. CoreInv /\ TimedInv => Latency
  <2> SUFFICES ASSUME CoreInv, TimedInv PROVE Latency
    OBVIOUS
  <2>1. H_loaded \in BOOLEAN /\ NR \in Nat
    BY Facts DEF CoreInv, KeyInStep
  <2>2. sinceKey > 0 => (H_loaded <=> sinceKey >= NR + 4)
    <3>1. \A p \in Way : ~(p + 1 >= NR + 4)
      BY <2>1 DEF Way
    <3> QED BY <2>1, <3>1 DEF TimedInv, KeyTimed
  <2> QED BY <2>1, <2>2 DEF Latency, TimedInv, LastTimed
<1> QED BY <1>1, <1>2, <1>3, TimedInvInit, CoreInvariant, PTL DEF TimedSpec
=============================================================================
