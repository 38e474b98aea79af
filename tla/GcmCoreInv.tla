----------------------------- MODULE GcmCoreInv -----------------------------
(***************************************************************************)
(* Why the core implements its service: the strengthening of GcmCore's     *)
(* properties that every clock edge preserves.  It says, for each state of *)
(* the control unit, which tokens may be on their way through the          *)
(* pipeline, what the message registers hold of the message, and how far   *)
(* the words, their answers and the hash have come.                        *)
(***************************************************************************)
EXTENDS GcmCore, AesCtrInv

Keying == {"KEY_EXPANSION", "WAIT_H_CAL"}
Moving == {"LOAD_DATA", "WAIT_PROCESS_FINISH"}
Ending == {"WAIT_PROCESS_FINISH", "VERIFY_PASS"}
Counted == {"LOAD_DATA", "WAIT_PROCESS_FINISH", "VERIFY_PASS"}
Started == {"LOAD_AAD", "WAIT_DATA"} \cup Counted
Serving == {"WAIT_TAG_REF", "WAIT_AAD"} \cup Started

(* The way of a token: position 0 is the type register, position s + 1 is  *)
(* pipeline register s.                                                    *)
Way == 0..NR + 2
Kind(p) == IF p = 0 THEN data_type_in ELSE pipe[p - 1].type
Quiet == ~gen_J0 /\ \A p \in Way : Kind(p) = "none"

One(b) == IF b THEN 1 ELSE 0

-----------------------------------------------------------------------------
(* The control unit, the user and the registers of one message agree on    *)
(* how far the message is.                                                 *)
MessageInStep ==
    /\ Current \in CUStates
    /\ cipher_key \in Keys \cup {ZeroKey} /\ msg \in Messages \cup {NoMessage}
    /\ msg # NoMessage => msg.key = cipher_key
    /\ Current = "IDLE" => msg = NoMessage
    /\ Current \in Serving => msg # NoMessage
    /\ Current # "FINISH" => IV_loaded = (msg # NoMessage)
    /\ Current # "FINISH" /\ msg # NoMessage => IV_out = msg.iv
    /\ Current = "FINISH" => ~IV_loaded
    /\ Current \in Started => J0 = <<msg.iv, 1>>

WordsInStep ==
    /\ aadSent \in Nat /\ dataSent \in Nat
    /\ Current # "FINISH" => CTR_counter = dataSent /\ AAD_cnt = aadSent
    /\ Current = "FINISH" => CTR_counter = 0 /\ AAD_cnt = 0
    /\ msg = NoMessage => aadSent = 0 /\ dataSent = 0
    /\ msg # NoMessage => aadSent <= msg.aad /\ dataSent <= msg.data
    /\ Current \in Keying \cup {"WAIT_TAG_REF", "WAIT_AAD"} => aadSent = 0
    /\ Current \in {"WAIT_DATA"} \cup Counted => aadSent = msg.aad
    /\ Current \notin Counted \cup {"FINISH"} => dataSent = 0
    /\ Current \in Ending => dataSent = msg.data

(* tag_ref is the message's, and a decryption has one before its first word. *)
TagRefInStep ==
    /\ tag_ref_loaded \in BOOLEAN
    /\ Current = "VERIFY_PASS" => mode
    /\ mode /\ Current \in {"WAIT_AAD"} \cup Started => tag_ref_loaded
    /\ tag_ref_loaded => Current \notin {"IDLE", "FINISH"} /\ mode /\ tag_ref_reg = TagRef

-----------------------------------------------------------------------------
(* While the key is expanded, one H token and nothing else is on its way,  *)
(* and its position tells the clock of the expansion: the token is at p    *)
(* when p round keys are computed, so each is there when it is met.        *)
HAlone(p) ==
    /\ Kind(p) = "H" /\ \A q \in Way : q # p => Kind(q) = "none"
    /\ p > 0 => pipe[p - 1].val.blk = ZeroBlock
    /\ p > 0 => pipe[p - 1].val.keys = IF p = 1 THEN {} ELSE {cipher_key}
    /\ Current = IF p <= Derived THEN "KEY_EXPANSION" ELSE "WAIT_H_CAL"
    /\ expansion_finish <=> p \in {Derived, Derived + 1}
    /\ round_index = IF p < Derived THEN p ELSE 0
    /\ \A i \in 0..NR : p > 0 /\ i < KeyWords + p => round_key[i] = cipher_key

KeyInStep ==
    /\ Current = "KEY_EXPANSION" => cipher_key \in Keys
    /\ H_loaded \in BOOLEAN
    /\ H_loaded => H_reg = AES(cipher_key, ZeroBlock)
    /\ Current \in Serving \cup {"FINISH"} => H_loaded
    /\ Current \in Keying /\ ~H_loaded => ~gen_J0 /\ \E p \in Way : HAlone(p)
    /\ Current \in Keying /\ H_loaded => Current = "WAIT_H_CAL" /\ Quiet
    /\ Current # "KEY_EXPANSION" => \A i \in 0..NR : round_key[i] = cipher_key
    /\ Current \notin Keying \/ H_loaded => round_index = 0 /\ ~expansion_finish

(* Outside the expansion, tokens are on their way only while data words    *)
(* are loaded and waited for: CTR tokens and the message's J0, under the   *)
(* one key.                                                                *)
TokensInStep ==
    /\ Current \notin Keying \cup Moving => Quiet
    /\ Current \in Moving =>
        /\ data_type_in # "H"
        /\ \A s \in Stages :
            /\ pipe[s].type # "H"
            /\ pipe[s].type = "J0" => pipe[s].val.blk = <<msg.iv, 1>>
            /\ pipe[s].type # "none" =>
                  pipe[s].val.keys = IF s = 0 THEN {} ELSE {cipher_key}

(* The block in the output register is the one whose word was fetched, and *)
(* the last flag of each word in the FIFO is on the message's last word.   *)
OutputInStep ==
    /\ keystream_valid =>
        /\ AES_data_out.blk[1] = IV_out /\ Number(NR + 1) = fetched
        /\ FIFO_data.last = (fetched = msg.data)
    /\ \A n \in fetched + 1 .. CTR_counter :
        memory_array[Forward(r_ptr, n - fetched - 1)].last = (n = msg.data)

-----------------------------------------------------------------------------
(* The hash of the first n words of a message: its AAD, its ciphertext,    *)
(* its length word.                                                        *)
HashWord(m, i) ==
    IF i <= m.aad THEN AADWord(m.iv, i)
    ELSE IF i <= m.aad + m.data THEN S!CipherWord(m, i - m.aad)
    ELSE LengthWord(m.aad, m.data)
Hash(m, n) == [i \in 1..n |-> <<AES(m.key, ZeroBlock), HashWord(m, i)>>]

(* Each word is fetched, then leaves the XOR for the hash and for data_out, *)
(* then is taken by the user.                                              *)
AnswersInStep ==
    /\ Len(produced) \in Nat
    /\ produced = [i \in 1..Len(produced) |-> S!Answer(msg, i)]
    /\ msg = NoMessage => produced = <<>>
    /\ Current = "FINISH" => CT_cnt = 0
    /\ Current = "FINISH" /\ msg # NoMessage => Len(produced) = msg.data
    /\ Current # "FINISH" => /\ fetched = CT_cnt + One(keystream_valid)
                             /\ CT_cnt = Len(produced) + One(data_valid)
    /\ data_valid => data_out = S!Answer(msg, CT_cnt)

HashInStep ==
    /\ Current # "FINISH" => ghash_out = Hash(msg, AAD_cnt + CT_cnt + One(ghash_finish))
    /\ Current = "FINISH" => ghash_out = <<>>
    /\ length_block_valid \in BOOLEAN /\ ghash_finish \in BOOLEAN
    /\ length_block_valid => /\ Current \in Moving /\ ~ghash_finish
                             /\ data_valid /\ data_out_last
                             /\ CT_cnt = msg.data /\ ~keystream_valid
    /\ ghash_finish => /\ Current \in Ending
                       /\ ~data_valid /\ CT_cnt = msg.data /\ ~keystream_valid

(* A J0 sent late, on the last clock of LOAD_DATA, is counted by           *)
(* AES_finish before the tag is there.                                     *)
ResultInStep ==
    /\ E_loaded \in BOOLEAN /\ tag_process_valid \in BOOLEAN
    /\ E_loaded => Current \in Counted /\ E_reg = AES(msg.key, <<msg.iv, 1>>)
    /\ tag_process_valid => ghash_finish /\ E_loaded /\ tag = S!GcmTag(msg)
    /\ Current = "WAIT_PROCESS_FINISH" /\ gen_J0 => ~tag_process_valid
    /\ Current = "VERIFY_PASS" => tag_process_valid

VerdictInStep ==
    /\ verdict # NoVerdict => /\ msg # NoMessage /\ verdict = S!Verdict(msg)
                              /\ Current \in Ending \cup {"FINISH"}
    /\ Current = "FINISH" /\ msg # NoMessage => verdict # NoVerdict

CoreInv ==
    /\ CtrInv
    /\ H_reg \in Cipher /\ E_reg \in Cipher
    /\ MessageInStep /\ WordsInStep /\ TagRefInStep
    /\ KeyInStep /\ TokensInStep /\ OutputInStep
    /\ AnswersInStep /\ HashInStep /\ ResultInStep /\ VerdictInStep
=============================================================================
