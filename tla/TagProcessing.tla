--------------------------- MODULE TagProcessing ---------------------------
(***************************************************************************)
(* TagProcessing.sv with GHASH.sv and LengthBlockCounter.sv: the hash      *)
(* absorbs AAD words, ciphertext words and the length word under H, and    *)
(* the tag is the hash XOR E = AES(J0).  The words arrive on three strobes *)
(* that nothing queues; a word whose strobe meets another's is lost.       *)
(*                                                                         *)
(* GHASH under a key is a free function of the words absorbed, so ghash_out *)
(* is the sequence of <<H at that clock, word>>.                           *)
(***************************************************************************)
EXTENDS GcmTypes

VARIABLES
    H_loaded, H_reg, E_loaded, E_reg,
    tag_ref_loaded, tag_ref_reg,
    AAD_cnt, CT_cnt,        (* words counted; the RTL counts 16 bytes each  *)
    length_block_valid,
    ghash_out, ghash_finish,
    tag, tag_process_valid

tagVars == <<H_loaded, H_reg, E_loaded, E_reg, tag_ref_loaded, tag_ref_reg, AAD_cnt,
             CT_cnt, length_block_valid, ghash_out, ghash_finish, tag, tag_process_valid>>

TagInit ==
    /\ H_loaded = FALSE /\ H_reg = ZeroCipher
    /\ E_loaded = FALSE /\ E_reg = ZeroCipher
    /\ tag_ref_loaded = FALSE /\ tag_ref_reg = ZeroTag
    /\ AAD_cnt = 0 /\ CT_cnt = 0 /\ length_block_valid = FALSE
    /\ ghash_out = <<>> /\ ghash_finish = FALSE
    /\ tag = ZeroTag /\ tag_process_valid = FALSE

(* Mutants: the word counter survives the message; rst_n reaches H alone.  *)
ClearMessageKeepsCount ==
    /\ E_loaded' = FALSE /\ E_reg' = ZeroCipher
    /\ tag_ref_loaded' = FALSE /\ tag_ref_reg' = ZeroTag
    /\ AAD_cnt' = 0 /\ UNCHANGED CT_cnt /\ length_block_valid' = FALSE
    /\ ghash_out' = <<>> /\ ghash_finish' = FALSE
    /\ tag' = ZeroTag /\ tag_process_valid' = FALSE
TagResetOnlyH ==
    /\ H_loaded' = FALSE /\ H_reg' = ZeroCipher
    /\ UNCHANGED <<E_loaded, E_reg, tag_ref_loaded, tag_ref_reg, AAD_cnt, CT_cnt,
                   length_block_valid, ghash_out, ghash_finish, tag, tag_process_valid>>

(* finish_reset: every register but H goes to zero.                        *)
ClearMessage ==
    /\ E_loaded' = FALSE /\ E_reg' = ZeroCipher
    /\ tag_ref_loaded' = FALSE /\ tag_ref_reg' = ZeroTag
    /\ AAD_cnt' = 0 /\ CT_cnt' = 0 /\ length_block_valid' = FALSE
    /\ ghash_out' = <<>> /\ ghash_finish' = FALSE
    /\ tag' = ZeroTag /\ tag_process_valid' = FALSE

TagReset == H_loaded' = FALSE /\ H_reg' = ZeroCipher /\ ClearMessage

verify_pass(mode) == mode /\ tag_process_valid /\ tag = tag_ref_reg

(* Mutant: H also survives a new key.                                      *)
HStepKeepsH(load_key, H_valid, H) ==
    /\ H_loaded' = (H_loaded \/ H_valid)
    /\ H_reg' = IF H_valid /\ ~H_loaded THEN H ELSE H_reg

(* H survives the end of a message; load_key clears it asynchronously.     *)
HStep(load_key, H_valid, H) ==
    /\ H_loaded' = (~load_key /\ (H_loaded \/ H_valid))
    /\ H_reg' = IF load_key THEN ZeroCipher
                ELSE IF H_valid /\ ~H_loaded THEN H ELSE H_reg

(* ghash_en is the parity of the three strobes; the data multiplexer takes *)
(* them in this order of priority.                                         *)
GHASHStep(load_AAD, aad, load_CT, ct) ==
    LET ghash_en == (load_AAD # (load_CT # length_block_valid)) /\ ~ghash_finish
        data_in  == IF load_AAD THEN aad
                    ELSE IF load_CT THEN ct ELSE LengthWord(AAD_cnt, CT_cnt)
    IN  /\ ghash_out' = IF ghash_en THEN Append(ghash_out, <<H_reg, data_in>>)
                        ELSE ghash_out
        /\ ghash_finish' = (ghash_finish \/ length_block_valid)

(* Mutant: the length word follows every ciphertext word.                  *)
LengthStepEveryWord(load_AAD, load_CT, CT_last) ==
    /\ AAD_cnt' = IF load_AAD THEN AAD_cnt + 1 ELSE AAD_cnt
    /\ CT_cnt' = IF load_CT THEN CT_cnt + 1 ELSE CT_cnt
    /\ length_block_valid' = load_CT

LengthStep(load_AAD, load_CT, CT_last) ==
    /\ AAD_cnt' = IF load_AAD THEN AAD_cnt + 1 ELSE AAD_cnt
    /\ CT_cnt' = IF load_CT THEN CT_cnt + 1 ELSE CT_cnt
    /\ length_block_valid' = CT_last

TagRefStep(load_tag_ref, tag_ref) ==
    /\ tag_ref_loaded' = (tag_ref_loaded \/ load_tag_ref)
    /\ tag_ref_reg' = IF load_tag_ref /\ ~tag_ref_loaded THEN tag_ref ELSE tag_ref_reg

(* E_reg keeps the first E of the message: a repeated J0 changes nothing.  *)
ResultStep(E_valid, E) ==
    /\ E_loaded' = (E_loaded \/ E_valid)
    /\ E_reg' = IF E_valid /\ ~E_loaded THEN E ELSE E_reg
    /\ tag_process_valid' = (ghash_finish /\ E_loaded)
    /\ tag' = IF ghash_finish /\ E_loaded THEN Tag(ghash_out, E_reg) ELSE ZeroTag

(* One clock edge.  clear is finish_reset, as in AesCtr.                   *)
TagStep(load_key, load_AAD, aad, load_CT, ct, CT_last, H_valid, E_valid, aes_out, load_tag_ref, tag_ref, clear) ==
    /\ HStep(load_key, H_valid, aes_out)
    /\ \/ clear /\ ClearMessage
       \/ /\ ~clear
          /\ GHASHStep(load_AAD, aad, load_CT, ct)
          /\ LengthStep(load_AAD, load_CT, CT_last)
          /\ TagRefStep(load_tag_ref, tag_ref)
          /\ ResultStep(E_valid, aes_out)
=============================================================================
