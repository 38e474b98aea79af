----------------------------- MODULE CoreTiming -----------------------------
(***************************************************************************)
(* The latencies of the core, in clocks, measured by two stopwatches added *)
(* to GcmCore.  A stopwatch that reads n is in the n-th clock cycle after  *)
(* the one that carried its strobe; it stands at 0 when it is not running. *)
(***************************************************************************)
EXTENDS GcmCore

VARIABLES sinceKey,     (* since load_key                                   *)
          sinceLast     (* since load_data of the message's last word       *)

timedVars == <<vars, sinceKey, sinceLast>>

(* NR + 6 is the longest latency below: what follows is all alike.         *)
Limit == NR + 7
Advance(n) == IF n \in 1..Limit - 1 THEN n + 1 ELSE n

TimedInit == Init /\ sinceKey = 0 /\ sinceLast = 0

TimedNext ==
    /\ Next
    /\ sinceKey' = IF Current' = "IDLE" THEN 0
                   ELSE IF key_ready /\ Current' = "KEY_EXPANSION" THEN 1
                   ELSE Advance(sinceKey)
    /\ sinceLast' = IF Current' \in {"FINISH", "IDLE"} THEN 0
                    ELSE IF dataSent' # dataSent /\ dataSent' = msg.data THEN 1
                    ELSE Advance(sinceLast)

TimedSpec == TimedInit /\ [][TimedNext]_timedVars

(* The latencies the code has: H is there NR + 4 cycles after load_key, a  *)
(* word is answered NR + 4 cycles and the tag NR + 6 cycles after the last *)
(* word was loaded, no earlier and no later, whatever gaps the message had.*)
Latency ==
    /\ sinceKey > 0 => (H_loaded <=> sinceKey >= NR + 4)
    /\ sinceLast > 0 => /\ (data_valid /\ data_out_last <=> sinceLast = NR + 4)
                        /\ (tag_process_valid <=> sinceLast >= NR + 6)

(* variant_compatibility_matrix.md, tables 2.1 and 2.2: "H_loaded Asserts  *)
(* T12", "data_valid Asserts Cycle N + 12", "Tag Valid Cycle N + 14" for   *)
(* AES-128 and T16, N + 16, N + 18 for AES-256: NR + 2 and NR + 4.         *)
DocumentedLatency ==
    /\ sinceKey = NR + 2 => H_loaded
    /\ sinceLast = NR + 2 => data_valid
    /\ sinceLast = NR + 4 => tag_process_valid
=============================================================================
