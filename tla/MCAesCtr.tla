------------------------------ MODULE MCAesCtr ------------------------------
(* AesCtr alone for TLC: a short pipeline with the FIFO exactly as deep as *)
(* it must be (NR + 2, the AES-256 case) and a 2-bit counter.  To keep the *)
(* graph small data_in_last comes only with a word, and the key schedule,  *)
(* which the pairing does not depend on, rests: it runs in MCGcmCore.      *)
EXTENDS AesCtrInv, TLC

KeysRest == UNCHANGED keyVars
LastWithWord == gen_J0' => w_ptr' # w_ptr
=============================================================================
