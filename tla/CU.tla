--------------------------------- MODULE CU ---------------------------------
(***************************************************************************)
(* CU.sv, the control unit: a Moore machine of eleven states that opens    *)
(* the input ports of the core one after the other (the *_ready outputs)   *)
(* and ends every message with one FINISH clock, whose finish output       *)
(* clears the message registers.                                           *)
(***************************************************************************)
VARIABLE Current

CUStates == {"IDLE", "KEY_EXPANSION", "WAIT_H_CAL", "WAIT_TAG_REF", "WAIT_AAD",
             "LOAD_AAD", "WAIT_DATA", "LOAD_DATA", "WAIT_PROCESS_FINISH",
             "VERIFY_PASS", "FINISH"}

CUInit == Current = "IDLE"
CUReset == Current' = "IDLE"

-----------------------------------------------------------------------------
(* Outputs.  The status inputs come as parameters.                         *)
(* Mutant: the key port is open in the middle of a message.                *)
KeyReadyWhileLoading == Current \in {"IDLE", "LOAD_DATA"}

expansion_en == Current = "KEY_EXPANSION"
finish       == Current = "FINISH"
key_ready    == Current = "IDLE"
AAD_ready    == Current \in {"WAIT_AAD", "LOAD_AAD"}
verify_done  == Current = "VERIFY_PASS"
IV_ready(H_loaded, IV_loaded) ==
    \/ Current = "IDLE" /\ H_loaded
    \/ Current \in {"KEY_EXPANSION", "WAIT_H_CAL"} /\ ~IV_loaded
tag_ref_ready(tag_ref_loaded, mode) ==
    /\ Current \in {"KEY_EXPANSION", "WAIT_H_CAL", "WAIT_TAG_REF"}
    /\ ~tag_ref_loaded /\ mode
(* Mutant: the counter at its maximum does not close the data port.        *)
DataReadyOnOverflow(overflow) == Current \in {"WAIT_DATA", "LOAD_DATA"}

data_ready(overflow) ==
    \/ Current = "WAIT_DATA"
    \/ Current = "LOAD_DATA" /\ ~overflow

-----------------------------------------------------------------------------
(* Next-state logic: one transition per state and condition.               *)
Go(from, condition, to) == Current = from /\ condition /\ Current' = to
Stay(from, condition) == Go(from, ~condition, from)

CUStep(load_key, load_IV, mode, expansion_finish, H_loaded, IV_loaded, tag_ref_loaded, load_AAD, no_AAD, AAD_last, load_data, data_in_last, process_finish, verify_checked) ==
    LET start == load_key \/ load_IV
        tag_ref_missing == mode /\ ~tag_ref_loaded
    IN  \/ Stay("IDLE", start)
        \/ Go("IDLE", load_key, "KEY_EXPANSION")
        \/ Go("IDLE", start /\ ~load_key /\ mode, "WAIT_TAG_REF")
        \/ Go("IDLE", start /\ ~load_key /\ ~mode, "WAIT_AAD")
        \/ Stay("KEY_EXPANSION", expansion_finish)
        \/ Go("KEY_EXPANSION", expansion_finish, "WAIT_H_CAL")
        \/ Stay("WAIT_H_CAL", H_loaded)
        \/ Go("WAIT_H_CAL", H_loaded /\ IV_loaded /\ tag_ref_missing, "WAIT_TAG_REF")
        \/ Go("WAIT_H_CAL", H_loaded /\ IV_loaded /\ ~tag_ref_missing, "WAIT_AAD")
        \/ Go("WAIT_H_CAL", H_loaded /\ ~IV_loaded, "FINISH")
        \/ Stay("WAIT_TAG_REF", tag_ref_loaded)
        \/ Go("WAIT_TAG_REF", tag_ref_loaded, "WAIT_AAD")
        \/ Stay("WAIT_AAD", no_AAD \/ load_AAD)
        \/ Go("WAIT_AAD", no_AAD, "WAIT_DATA")
        \/ Go("WAIT_AAD", ~no_AAD /\ load_AAD, "LOAD_AAD")
        \/ Stay("LOAD_AAD", AAD_last)
        \/ Go("LOAD_AAD", AAD_last, "WAIT_DATA")
        \/ Stay("WAIT_DATA", load_data)
        \/ Go("WAIT_DATA", load_data, "LOAD_DATA")
        \/ Stay("LOAD_DATA", data_in_last)
        \/ Go("LOAD_DATA", data_in_last, "WAIT_PROCESS_FINISH")
        \/ Stay("WAIT_PROCESS_FINISH", process_finish)
        \/ Go("WAIT_PROCESS_FINISH", process_finish /\ mode, "VERIFY_PASS")
        \/ Go("WAIT_PROCESS_FINISH", process_finish /\ ~mode, "FINISH")
        \/ Stay("VERIFY_PASS", verify_checked)
        \/ Go("VERIFY_PASS", verify_checked, "FINISH")
        \/ Go("FINISH", TRUE, "IDLE")
=============================================================================
