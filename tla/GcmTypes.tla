------------------------------ MODULE GcmTypes ------------------------------
(***************************************************************************)
(* The constants and the symbolic data of the AES-GCM core (src/RTL).      *)
(*                                                                         *)
(* The core's data are 128-bit words.  Nothing the models check depends on *)
(* the bits: what matters is WHICH block was encrypted, under WHICH round  *)
(* keys, and WHICH words were combined.  So a word is the term that made   *)
(* it: AES is a free constructor on (block, round keys used), XOR a free   *)
(* pair, GHASH the sequence of words absorbed.                             *)
(***************************************************************************)
EXTENDS Naturals, Sequences

CONSTANTS
    Keys,       (* cipher keys the user may load                            *)
    ZeroKey,    (* what a round-key register holds after reset              *)
    IVs,        (* 96-bit initialisation vectors                            *)
    ZeroIV,     (* what the IV register holds after reset                   *)
    NR,         (* AES rounds: 10 in AES_encryption, 14 in AES_256_encryption *)
    KeyWords,   (* 128-bit words of cipher key: 1 for AES-128, 2 for AES-256 *)
    DEPTH,      (* entries of the data FIFO: 16 in both cores               *)
    CtrMax      (* largest value of the CTR counter: 2^32 - 1               *)

ASSUME GcmAssumption ==
    /\ Keys # {} /\ ZeroKey \notin Keys
    /\ IVs # {} /\ ZeroIV \notin IVs
    /\ NR \in Nat /\ KeyWords \in 1..2 /\ NR >= KeyWords
    (* An entry is written when its block is loaded and read NR + 2 edges   *)
    (* later, so the FIFO, which has no full flag, needs NR + 2 entries:    *)
    (* 12 of 16 are in use in AES-128 and all 16 in AES-256.               *)
    /\ DEPTH \in Nat /\ DEPTH >= NR + 2
    /\ CtrMax \in Nat \ {0}

(* A block the pipeline may encrypt: {IV, 32-bit counter}; 128'b0 for H.   *)
Block == (IVs \cup {ZeroIV}) \X (0..CtrMax)
ZeroBlock == <<ZeroIV, 0>>

(* The result of AES on a block: the block and every round key it met.  A  *)
(* value encrypted under one key throughout has a singleton key set.       *)
Cipher == [blk : Block, keys : SUBSET (Keys \cup {ZeroKey})]
ZeroCipher == [blk |-> ZeroBlock, keys |-> {}]
AES(k, b) == [blk |-> b, keys |-> {k}]

(* data_type in the pipeline registers: 2'b00, 2'b01, 2'b10, 2'b11.        *)
DataType == {"none", "H", "CTR", "J0"}

(* Input words.  The n-th word of a message is named by the message's IV.  *)
AADWord(iv, n) == <<"AAD", iv, n>>
DataWord(iv, n) == <<"DATA", iv, n>>
ZeroWord == DataWord(ZeroIV, 0)
XorWord(w, c) == <<"XOR", w, c>>
LengthWord(a, c) == <<"LEN", a, c>>

(* An authentication tag: the hash XOR E.                                  *)
Tag(hash, e) == [hash |-> hash, e |-> e]
ZeroTag == Tag(<<>>, ZeroCipher)
=============================================================================
