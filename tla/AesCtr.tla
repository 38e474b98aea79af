------------------------------- MODULE AesCtr -------------------------------
(***************************************************************************)
(* The counter-mode path of the core: AES_CTR.sv / AES_256_CTR.sv with     *)
(* counter_generator/*, FIFO/*, AES_encryption.sv / AES_256_encryption.sv. *)
(*                                                                         *)
(* A block loaded with load_data takes two ways that nothing synchronises  *)
(* but their lengths: its word goes into a FIFO without full or empty      *)
(* flags, its counter block through the NR + 2 pipeline registers; they    *)
(* meet again at the output XOR.  Every register of the path changes in    *)
(* CtrStep, one rising clock edge.                                         *)
(*                                                                         *)
(* The module is also a specification by itself (CtrSpec): the path under  *)
(* any driver that respects what the control unit guarantees it.           *)
(***************************************************************************)
EXTENDS KeySchedule

VARIABLES
    gen_J0,         (* data_in_last one clock ago                           *)
    data_type_in,   (* the type register at the pipeline's mouth            *)
    CTR_counter,    (* data blocks loaded in this message                   *)
    IV_out, IV_loaded, J0,
    pipe,           (* [type, val] in registers 0..NR and NR + 1 (the output) *)
    w_ptr, r_ptr, memory_array, FIFO_data,
    data_valid, data_out, data_out_last,
    fetched         (* history: FIFO entries read in this message           *)

ctrVars == <<gen_J0, data_type_in, CTR_counter, IV_out, IV_loaded, J0, pipe,
             w_ptr, r_ptr, memory_array, FIFO_data,
             data_valid, data_out, data_out_last, fetched>>

Stages == 0..NR + 1
Bubble == [type |-> "none", val |-> ZeroCipher]
NoEntry == [last |-> FALSE, word |-> ZeroWord]

CtrInit ==
    /\ gen_J0 = FALSE /\ data_type_in = "none"
    /\ CTR_counter = 0 /\ IV_out = ZeroIV /\ IV_loaded = FALSE /\ J0 = ZeroBlock
    /\ pipe = [s \in Stages |-> Bubble]
    /\ w_ptr = 0 /\ r_ptr = 0
    /\ memory_array = [i \in 0..DEPTH - 1 |-> NoEntry] /\ FIFO_data = NoEntry
    /\ data_valid = FALSE /\ data_out = ZeroWord /\ data_out_last = FALSE
    /\ fetched = 0

(* rst_n clears everything but the FIFO memory and its read register.      *)
CtrReset ==
    /\ gen_J0' = FALSE /\ data_type_in' = "none"
    /\ CTR_counter' = 0 /\ IV_out' = ZeroIV /\ IV_loaded' = FALSE /\ J0' = ZeroBlock
    /\ pipe' = [s \in Stages |-> Bubble]
    /\ w_ptr' = 0 /\ r_ptr' = 0 /\ UNCHANGED <<memory_array, FIFO_data>>
    /\ data_valid' = FALSE /\ data_out' = ZeroWord /\ data_out_last' = FALSE
    /\ fetched' = 0

-----------------------------------------------------------------------------
(* Combinational signals.                                                  *)

CTR_counter_overflow == CTR_counter = CtrMax

(* {IV_out, CTR_counter + 32'b1}: the addition wraps at the last block.    *)
counter_block == <<IV_out, IF CTR_counter = CtrMax THEN 0 ELSE CTR_counter + 1>>

(* output_unit: the block that goes with the type now in data_type_in.     *)
AES_data_in == IF data_type_in = "CTR" THEN counter_block
               ELSE IF data_type_in = "J0" THEN J0 ELSE ZeroBlock

(* Mutant: the word is requested together with its keystream.              *)
DataReqLate == pipe[NR + 1].type = "CTR"

data_req == pipe[NR].type = "CTR"
data_type_out == pipe[NR + 1].type
AES_data_out == pipe[NR + 1].val

(* Mutant: one register is missing from the NOR.                           *)
AESFinishSkipsFirst == data_type_in = "none" /\ \A s \in 1..NR : pipe[s].type = "none"

(* NOR of the valid inputs of the NR + 2 registers, so the token already   *)
(* in the output register does not count.                                  *)
AES_finish == data_type_in = "none" /\ \A s \in 0..NR : pipe[s].type = "none"

H_valid == data_type_out = "H"
E_valid == data_type_out = "J0"
keystream_valid == data_type_out = "CTR"
CT_last == keystream_valid /\ FIFO_data.last
(* Mutant: the hash takes the wrong side of the XOR.                       *)
CTSwapped(mode) == IF mode THEN XorWord(FIFO_data.word, AES_data_out) ELSE FIFO_data.word

CT(mode) == IF mode THEN FIFO_data.word ELSE XorWord(FIFO_data.word, AES_data_out)

-----------------------------------------------------------------------------
(* Register updates at a clock edge.  clear is finish_reset, asynchronous: *)
(* it holds these registers at zero through the whole FINISH cycle.        *)

(* Mutant: J0 follows the counter through the message.                     *)
CounterStepMovesJ0(load_data, load_IV, iv, clear) ==
    IF clear
    THEN CTR_counter' = 0 /\ IV_out' = ZeroIV /\ IV_loaded' = FALSE /\ J0' = ZeroBlock
    ELSE /\ CTR_counter' = IF load_data /\ ~CTR_counter_overflow
                           THEN CTR_counter + 1 ELSE CTR_counter
         /\ IV_out' = IF load_IV THEN iv ELSE IV_out
         /\ IV_loaded' = (IV_loaded \/ load_IV)
         /\ J0' = counter_block

CounterStep(load_data, load_IV, iv, clear) ==
    IF clear
    THEN CTR_counter' = 0 /\ IV_out' = ZeroIV /\ IV_loaded' = FALSE /\ J0' = ZeroBlock
    ELSE /\ CTR_counter' = IF load_data /\ ~CTR_counter_overflow
                           THEN CTR_counter + 1 ELSE CTR_counter
         /\ IV_out' = IF load_IV THEN iv ELSE IV_out
         /\ IV_loaded' = (IV_loaded \/ load_IV)
         /\ J0' = IF CTR_counter = 0 THEN counter_block ELSE J0

(* Mutant: data_in_last is not registered, and loses to its own block.     *)
TypeStepUnregistered(load_key, load_data, data_in_last) ==
    /\ gen_J0' = data_in_last
    /\ data_type_in' = IF load_key THEN "H" ELSE IF load_data THEN "CTR"
                       ELSE IF data_in_last THEN "J0" ELSE "none"

TypeStep(load_key, load_data, data_in_last) ==
    /\ gen_J0' = data_in_last
    /\ data_type_in' = IF load_key THEN "H" ELSE IF load_data THEN "CTR"
                       ELSE IF gen_J0 THEN "J0" ELSE "none"

(* Register s holds a block that has met round_key[0..s-1] and adds        *)
(* round_key[s] on the way to register s + 1.  A bubble's word is dead.    *)
AddRoundKey(t, k) ==
    IF t.type = "none" THEN Bubble
    ELSE [type |-> t.type, val |-> [blk |-> t.val.blk, keys |-> t.val.keys \cup {k}]]
PipeStep ==
    pipe' = [s \in Stages |->
               IF s > 0 THEN AddRoundKey(pipe[s - 1], round_key[s - 1])
               ELSE IF data_type_in = "none" THEN Bubble
               ELSE [type |-> data_type_in,
                     val |-> [blk |-> AES_data_in, keys |-> {}]]]

(* Write_pointer, Read_pointer, FIFO_memory: no flag guards either port,   *)
(* and a read of the slot being written returns the old entry.             *)
(* Mutant: the pointer wraps one slot early.                               *)
SuccShort(p) == IF p = DEPTH - 2 THEN 0 ELSE p + 1

Succ(p) == IF p = DEPTH - 1 THEN 0 ELSE p + 1
FifoStep(load_data, entry) ==
    /\ w_ptr' = IF load_data THEN Succ(w_ptr) ELSE w_ptr
    /\ memory_array' = IF load_data THEN [memory_array EXCEPT ![w_ptr] = entry]
                       ELSE memory_array
    /\ r_ptr' = IF data_req THEN Succ(r_ptr) ELSE r_ptr
    /\ FIFO_data' = IF data_req THEN memory_array[r_ptr] ELSE FIFO_data

(* Mutant: valid is taken from the register before the last.               *)
OutStepEarly ==
    /\ data_valid' = data_req
    /\ data_out_last' = CT_last
    /\ data_out' = IF keystream_valid THEN XorWord(FIFO_data.word, AES_data_out)
                   ELSE ZeroWord

OutStep ==
    /\ data_valid' = keystream_valid
    /\ data_out_last' = CT_last
    /\ data_out' = IF keystream_valid THEN XorWord(FIFO_data.word, AES_data_out)
                   ELSE ZeroWord

CtrStep(load_key, load_data, data_in_last, word, load_IV, iv, clear) ==
    /\ CounterStep(load_data, load_IV, iv, clear)
    /\ TypeStep(load_key, load_data, data_in_last)
    /\ PipeStep
    /\ FifoStep(load_data, [last |-> data_in_last, word |-> word])
    /\ OutStep
    /\ fetched' = IF clear THEN 0 ELSE IF data_req THEN fetched + 1 ELSE fetched

-----------------------------------------------------------------------------
(* The path alone, under any driver that keeps what the control unit and   *)
(* its user keep: no block is loaded with the counter at its maximum       *)
(* (data_ready is low), together with a key or in the FINISH cycle; the IV *)
(* does not change under loaded blocks; the message registers are cleared  *)
(* only when no block is on its way (process_finish needs AES_finish).     *)

Pending == data_type_in = "CTR" \/ \E s \in 0..NR : pipe[s].type = "CTR"

DriverInput == [load_key : BOOLEAN, load_data : BOOLEAN, last : BOOLEAN, load_IV : BOOLEAN,
                clear : BOOLEAN, expansion_en : BOOLEAN, key : Keys, iv : IVs]

CtrEdge(in) ==
    /\ in.load_data => IV_loaded /\ ~CTR_counter_overflow
                        /\ ~in.load_key /\ ~in.load_IV /\ ~in.clear
    /\ in.load_IV => CTR_counter = 0
    /\ in.clear => ~Pending
    /\ KeyStep(in.expansion_en, in.key)
    /\ CtrStep(in.load_key, in.load_data, in.last, DataWord(IV_out, CTR_counter + 1),
               in.load_IV, in.iv, in.clear)

CtrNext ==
    \/ KeyReset /\ CtrReset
    \/ \E in \in DriverInput : CtrEdge(in)

CtrPathInit == KeyInit /\ CtrInit

CtrSpec == CtrPathInit /\ [][CtrNext]_<<keyVars, ctrVars>>

(* Which block of the message a counter belongs to: block n is encrypted   *)
(* with {IV, n + 1}, and the last one the counter can name with {IV, 0}.   *)
BlockIndex(c) == IF c = 0 THEN CtrMax ELSE c - 1

CtrTypeOK ==
    /\ round_index \in 0..Derived - 1 /\ expansion_finish \in BOOLEAN
    /\ round_key \in [0..NR -> Keys \cup {ZeroKey}]
    /\ gen_J0 \in BOOLEAN /\ data_type_in \in DataType
    /\ CTR_counter \in 0..CtrMax
    /\ IV_out \in IVs \cup {ZeroIV} /\ IV_loaded \in BOOLEAN /\ J0 \in Block
    /\ pipe \in [Stages -> [type : DataType, val : Cipher]]
    /\ w_ptr \in 0..DEPTH - 1 /\ r_ptr \in 0..DEPTH - 1
    /\ DOMAIN memory_array = 0..DEPTH - 1
    /\ data_valid \in BOOLEAN
    /\ fetched \in 0..CtrMax

(* Whenever the pipeline delivers a keystream block, the FIFO output       *)
(* register holds the very word that was loaded with that counter block:   *)
(* although neither port of the FIFO is guarded (FIFO_memory.sv), gaps in  *)
(* the input, earlier messages and a full FIFO never shift the two.        *)
KeystreamMatchesWord ==
    keystream_valid =>
        FIFO_data.word = DataWord(AES_data_out.blk[1], BlockIndex(AES_data_out.blk[2]))

(* The blocks in flight are encrypted with pairwise different counters,    *)
(* none of them J0's, whose keystream masks the tag: the 32-bit counter    *)
(* stops instead of wrapping (CTR_counter.sv) and J0_register.sv takes its *)
(* block before the first data block is counted.                           *)
CountersDistinct ==
    \A s, t \in Stages :
        s # t /\ pipe[s].type \in {"CTR", "J0"} /\ pipe[t].type = "CTR"
           => pipe[s].val.blk # pipe[t].val.blk
=============================================================================
