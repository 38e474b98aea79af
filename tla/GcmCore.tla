------------------------------ MODULE GcmCore -------------------------------
(***************************************************************************)
(* AES_GCM.sv / AES_256_GCM.sv: the control unit, the counter-mode path    *)
(* and the tag unit on one clock, driven by a user who presents inputs     *)
(* only on the ready outputs.  Every action but Reset is one rising edge   *)
(* of clk with the inputs the action names (Clock); Wait presents none, so *)
(* the input streams have gaps anywhere.                                   *)
(***************************************************************************)
EXTENDS AesCtr, TagProcessing, CU

CONSTANTS MaxAAD, MaxData,      (* bounds: words of AAD and data per message *)
          NoMessage, NoVerdict,
          Resettable            (* whether rst_n may fall while running     *)

ASSUME CoreAssumption == /\ MaxAAD \in Nat /\ MaxData \in Nat \ {0}
                         /\ Resettable \in BOOLEAN

VARIABLES
    cipher_key,         (* the key port, held stable by the user            *)
    msg,                (* the message the user is presenting               *)
    aadSent, dataSent,  (* words of it presented                            *)
    produced,           (* words taken from data_out                        *)
    verdict             (* tag taken on tag_valid, verify_pass on verify_done *)

userVars == <<cipher_key, msg, aadSent, dataSent, produced, verdict>>
vars == <<keyVars, ctrVars, tagVars, Current, userVars>>

(* genuine: tag_ref is the tag of this very message.                       *)
Messages == {m \in [key : Keys, iv : IVs, mode : BOOLEAN, aad : 0..MaxAAD,
                    data : 1..MaxData, genuine : BOOLEAN] : m.mode \/ m.genuine}

S == INSTANCE GcmSpec WITH message <- msg, accepted <- dataSent, returned <- produced

(* The names for "none" are no messages and no verdicts.                   *)
ASSUME NamesAssumption == /\ NoMessage \notin Messages
                          /\ \A m \in Messages : S!Verdict(m) # NoVerdict

UserInit == /\ cipher_key = ZeroKey /\ msg = NoMessage
            /\ aadSent = 0 /\ dataSent = 0
            /\ produced = <<>> /\ verdict = NoVerdict

Init == KeyInit /\ CtrInit /\ TagInit /\ CUInit /\ UserInit

-----------------------------------------------------------------------------
(* The mode port carries the mode of the message being presented.         *)
Mode(m) == m # NoMessage /\ m.mode
mode == Mode(msg)
tag_valid == ~mode /\ tag_process_valid
process_finish == AES_finish /\ tag_process_valid

(* A tag_ref that is not the message's: all zeros, what the tag register   *)
(* holds whenever no tag is ready.                                         *)
TagRef == IF msg.genuine THEN S!GcmTag(msg) ELSE ZeroTag

NoInput == [load_key |-> FALSE, load_IV |-> FALSE, load_tag_ref |-> FALSE,
            load_AAD |-> FALSE, no_AAD |-> FALSE, AAD_last |-> FALSE,
            load_data |-> FALSE, data_in_last |-> FALSE, verify_checked |-> FALSE]

(* One clock edge of the whole core, with the strobes of in and the words  *)
(* of m on the ports.                                                      *)
Clock(in, m) ==
    LET clear == finish \/ Current' = "FINISH"
        iv == IF m = NoMessage THEN ZeroIV ELSE m.iv
    IN  /\ CUStep(in.load_key, in.load_IV, Mode(m), expansion_finish, H_loaded, IV_loaded,
                  tag_ref_loaded, in.load_AAD, in.no_AAD, in.AAD_last, in.load_data,
                  in.data_in_last, process_finish, in.verify_checked)
        /\ KeyStep(expansion_en, cipher_key)
        /\ CtrStep(in.load_key, in.load_data, in.data_in_last, DataWord(iv, dataSent + 1),
                   in.load_IV, iv, clear)
        /\ TagStep(in.load_key, in.load_AAD, AADWord(iv, aadSent + 1), keystream_valid,
                   CT(Mode(m)), CT_last, H_valid, E_valid, AES_data_out,
                   in.load_tag_ref, IF in.load_tag_ref THEN TagRef ELSE ZeroTag, clear)

(* The user samples the outputs at every edge, and after FINISH is done    *)
(* with the message.                                                       *)
Sample ==
    IF finish
    THEN produced' = <<>> /\ verdict' = NoVerdict
    ELSE /\ produced' = IF data_valid THEN Append(produced, data_out) ELSE produced
         /\ verdict' = IF tag_valid THEN tag
                       ELSE IF verify_done THEN verify_pass(mode) ELSE verdict

Proceed == /\ cipher_key' = cipher_key
           /\ msg' = IF finish THEN NoMessage ELSE msg
           /\ aadSent' = IF finish THEN 0 ELSE aadSent
           /\ dataSent' = IF finish THEN 0 ELSE dataSent
           /\ Sample

-----------------------------------------------------------------------------
(* The user's clocks.                                                      *)

(* A new key, with the IV of a message or alone.                           *)
LoadKeyIV(m) ==
    /\ key_ready /\ Clock([NoInput EXCEPT !.load_key = TRUE, !.load_IV = TRUE], m)
    /\ cipher_key' = m.key /\ msg' = m
    /\ UNCHANGED <<aadSent, dataSent>> /\ Sample

LoadKey(k) ==
    /\ key_ready /\ Clock([NoInput EXCEPT !.load_key = TRUE], msg)
    /\ cipher_key' = k
    /\ UNCHANGED <<msg, aadSent, dataSent>> /\ Sample

(* An IV for the key already loaded (key reuse) or being expanded.  In the *)
(* clock in which WAIT_H_CAL leaves for FINISH, IV_ready is still high but *)
(* the IV would be cleared with the message: the user must not be so late. *)
LoadIV(m) ==
    /\ msg = NoMessage /\ m.key = cipher_key
    /\ IV_ready(H_loaded, IV_loaded)
    /\ ~(Current = "WAIT_H_CAL" /\ H_loaded)
    /\ Clock([NoInput EXCEPT !.load_IV = TRUE], m)
    /\ msg' = m
    /\ UNCHANGED <<cipher_key, aadSent, dataSent>> /\ Sample

LoadTagRef ==
    /\ msg # NoMessage /\ tag_ref_ready(tag_ref_loaded, mode)
    /\ Clock([NoInput EXCEPT !.load_tag_ref = TRUE], msg)
    /\ Proceed

SkipAAD ==
    /\ Current = "WAIT_AAD" /\ msg.aad = 0
    /\ Clock([NoInput EXCEPT !.no_AAD = TRUE], msg)
    /\ Proceed

SendAAD ==
    /\ AAD_ready /\ aadSent < msg.aad
    /\ Clock([NoInput EXCEPT !.load_AAD = TRUE, !.AAD_last = (aadSent + 1 = msg.aad)], msg)
    /\ aadSent' = aadSent + 1
    /\ UNCHANGED <<cipher_key, msg, dataSent>> /\ Sample

(* The control unit looks at AAD_last only in LOAD_AAD, which it enters on *)
(* the first word: a single word's AAD_last is presented a second time.    *)
HoldAADLast ==
    /\ Current = "LOAD_AAD" /\ aadSent = msg.aad
    /\ Clock([NoInput EXCEPT !.AAD_last = TRUE], msg)
    /\ Proceed

SendData ==
    /\ data_ready(CTR_counter_overflow) /\ dataSent < msg.data
    /\ Clock([NoInput EXCEPT !.load_data = TRUE, !.data_in_last = (dataSent + 1 = msg.data)],
             msg)
    /\ dataSent' = dataSent + 1
    /\ UNCHANGED <<cipher_key, msg, aadSent>> /\ Sample

(* As HoldAADLast, with a deadline that no output of the core announces:    *)
(* every such clock also sends J0 down the pipeline once more, and one sent *)
(* after the word's own answer is out would still be there when the message *)
(* ends and give the next message a wrong E.                                *)
HoldDataLast ==
    /\ Current = "LOAD_DATA" /\ dataSent = msg.data
    /\ Clock([NoInput EXCEPT !.data_in_last = TRUE], msg)
    /\ Proceed
LastDue == Current = "LOAD_DATA" /\ dataSent = msg.data /\ data_valid /\ data_out_last

AckVerify ==
    /\ verify_done
    /\ Clock([NoInput EXCEPT !.verify_checked = TRUE], msg)
    /\ Proceed

Wait == ~LastDue /\ Clock(NoInput, msg) /\ Proceed

(* rst_n falls and rises again; the FIFO memory has no reset.              *)
Reset ==
    /\ Resettable
    /\ KeyReset /\ CtrReset /\ TagReset /\ CUReset
    /\ cipher_key' = ZeroKey /\ msg' = NoMessage /\ aadSent' = 0 /\ dataSent' = 0
    /\ produced' = <<>> /\ verdict' = NoVerdict

Tick == \/ \E m \in Messages : LoadKeyIV(m) \/ LoadIV(m)
        \/ \E k \in Keys : LoadKey(k)
        \/ LoadTagRef \/ SkipAAD \/ SendAAD \/ HoldAADLast
        \/ SendData \/ HoldDataLast \/ AckVerify \/ Wait

Next == Tick \/ Reset

Spec == Init /\ [][Next]_vars

(* The clock runs and the user does not stall forever: a Tick that changes *)
(* something is taken as long as there is one.                             *)
FairSpec == Spec /\ WF_vars(Tick)

-----------------------------------------------------------------------------
(* Properties.                                                             *)

CoreTypeOK ==
    /\ CtrTypeOK
    /\ H_loaded \in BOOLEAN /\ H_reg \in Cipher
    /\ E_loaded \in BOOLEAN /\ E_reg \in Cipher
    /\ tag_ref_loaded \in BOOLEAN /\ tag_process_valid \in BOOLEAN
    /\ AAD_cnt \in 0..MaxAAD /\ CT_cnt \in 0..MaxData
    /\ length_block_valid \in BOOLEAN /\ ghash_finish \in BOOLEAN
    /\ Len(ghash_out) <= MaxAAD + MaxData + 1
    /\ Current \in CUStates
    /\ cipher_key \in Keys \cup {ZeroKey}
    /\ msg \in Messages \cup {NoMessage}
    /\ aadSent \in 0..MaxAAD /\ dataSent \in 0..MaxData
    /\ Len(produced) \in 0..MaxData

(* Every block leaves the pipeline encrypted under the current key in all  *)
(* its rounds, and H is the one of that key: H starts down the pipeline    *)
(* while the schedule is still being computed, each round key being ready  *)
(* in the very clock that uses it, and H outlives the message.             *)
KeyFresh ==
    /\ data_type_out # "none" => AES_data_out.keys = {cipher_key}
    /\ H_loaded => H_reg = AES(cipher_key, ZeroBlock)

(* A message ends only when nothing of it is left: no block on its way     *)
(* that could write E, ciphertext or the hash of the next message, no word *)
(* in the FIFO.  process_finish looks at valid bits of the pipeline alone. *)
Drained ==
    Current \in {"FINISH", "IDLE"} =>
        /\ ~gen_J0 /\ data_type_in = "none"
        /\ \A s \in 0..NR : pipe[s].type = "none"
        /\ w_ptr = r_ptr

(* The core implements the service of GcmSpec: all words answered in order *)
(* with their own keystream, and the right tag or verdict after them.      *)
ImplementsService == S!Service

(* The control unit and the user keep what AesCtr expects of its driver,   *)
(* so what holds of CtrSpec holds of the core.                             *)
DrivesCounterPath == CtrSpec

(* With the counter at its maximum and words of the message still to come, *)
(* data_ready never rises again and the message never ends: only rst_n     *)
(* gets the core out of LOAD_DATA (CU.sv, CTR_counter.sv).                 *)
Overflowed == CTR_counter_overflow /\ msg # NoMessage /\ dataSent < msg.data
OverflowIsFinal == [][Overflowed => Overflowed' /\ msg' = msg]_vars

(* Every message gets its verdict unless it is too long for the counter.   *)
Completes == (msg # NoMessage) ~> (verdict # NoVerdict \/ Overflowed)
=============================================================================
