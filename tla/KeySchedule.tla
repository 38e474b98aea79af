---------------------------- MODULE KeySchedule -----------------------------
(***************************************************************************)
(* KeyExpansion.sv with Counter.sv (AES-128, KeyWords = 1) and             *)
(* KeyExpansion_256.sv with Counter_256.sv (AES-256, KeyWords = 2): the    *)
(* round keys are computed one per clock while expansion_en is high, each  *)
(* from the one(s) before it, while the pipeline already uses them.  A     *)
(* round key is named by the cipher key it derives from: deriving from a   *)
(* register still holding the previous key's round key gives that key's.   *)
(***************************************************************************)
EXTENDS GcmTypes

VARIABLES
    round_index,        (* counter of the round keys computed               *)
    expansion_finish,   (* all round keys are valid                         *)
    round_key           (* round_key[0..NR]: the cipher key each came from  *)

keyVars == <<round_index, expansion_finish, round_key>>

(* The number of derived round keys: 10 for AES-128, 13 for AES-256.       *)
Derived == NR + 1 - KeyWords

KeyInit ==
    /\ round_index = 0
    /\ expansion_finish = FALSE
    /\ round_key = [i \in 0..NR |-> ZeroKey]

KeyReset ==
    round_index' = 0 /\ expansion_finish' = FALSE /\ round_key' = [i \in 0..NR |-> ZeroKey]

(* current_key / prev_key: index 0 reads the cipher key port itself, the   *)
(* 256-bit schedule also reads it at index 1; later ones the registers.    *)
(* With two words the new key also needs its other predecessor; a          *)
(* mismatch of the two is a key of nobody, named ZeroKey.                  *)
Source(i, key) == IF i < KeyWords THEN key ELSE round_key[i]
NextKey(i, key) ==
    LET near == IF i = 0 THEN key ELSE round_key[i + KeyWords - 1]
    IN  IF near = Source(i, key) THEN near ELSE ZeroKey

(* One clock edge of the round-key registers and of the index counter.     *)
(* expansion_finish stays up until the controller drops expansion_en; the  *)
(* registers keep being written meanwhile, from index 0 again.             *)
KeyStep(expansion_en, key) ==
    /\ round_key' =
         IF ~expansion_en THEN round_key
         ELSE [i \in 0..NR |-> IF i < KeyWords THEN key
                               ELSE IF i = round_index + KeyWords
                                    THEN NextKey(round_index, key)
                                    ELSE round_key[i]]
    /\ IF expansion_finish
       THEN /\ expansion_finish' = expansion_en
            /\ round_index' = IF expansion_en THEN round_index ELSE 0
       ELSE /\ expansion_finish' = (expansion_en /\ round_index = Derived - 1)
            /\ round_index' = IF ~expansion_en THEN round_index
                              ELSE IF round_index = Derived - 1 THEN 0
                              ELSE round_index + 1
=============================================================================
