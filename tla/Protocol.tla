------------------------------ MODULE Protocol ------------------------------
(***************************************************************************)
(* The packet protocol of realtime_env/host/protocol.py: opcodes, limits,  *)
(* and the framing [opcode] [length] [payload ...] on the wire. A packet   *)
(* is a pair <<opcode, payload>>, as in the code.                          *)
(***************************************************************************)
EXTENDS Integers, Sequences, SequencesExt

CONSTANTS
    BlockBytes,     (* 16 in the code                                       *)
    MaxDataBlocks,  (* 15 in the code: the block counter of the IP has 4 bits *)
    MaxPayload      (* 255 in the code: the length field has 8 bits; at     *)
                    (* least MaxDataBytes                                   *)

MaxDataBytes == MaxDataBlocks * BlockBytes

Starts == {"START_ENCRYPT", "START_DECRYPT"}
CMD_ACKS == [LOAD_KEY |-> "ACK_KEY", LOAD_IV |-> "ACK_IV", LOAD_AAD |-> "ACK_AAD",
             LOAD_PLAINTEXT |-> "ACK_PLAINTEXT", LOAD_TAG_REF |-> "ACK_TAG_REF"]
Loads == DOMAIN CMD_ACKS
Acks == {CMD_ACKS[c] : c \in Loads}

(* What the wire carries for each opcode the host sends.                   *)
Code == [LOAD_KEY |-> 1, LOAD_IV |-> 2, LOAD_AAD |-> 3, LOAD_PLAINTEXT |-> 4,
         START_ENCRYPT |-> 5, LOAD_TAG_REF |-> 6, START_DECRYPT |-> 7]

TooLong(packet) == Len(packet[2]) > MaxPayload
BuildPacket(packet) == <<Code[packet[1]], Len(packet[2])>> \o packet[2]

(* Splits a byte stream into packets; ok is FALSE when it ends inside one. *)
ParsePackets(stream) ==
    LET parse[pos \in 1..Len(stream) + 1] ==
            LET last == pos + 1 + stream[pos + 1]
                rest == parse[last + 1]
            IN  IF pos > Len(stream) THEN [ok |-> TRUE, packets |-> <<>>]
                ELSE IF pos = Len(stream) \/ last > Len(stream) THEN [ok |-> FALSE, packets |-> <<>>]
                ELSE [rest EXCEPT !.packets = <<<<stream[pos], SubSeq(stream, pos + 2, last)>>>> \o @]
    IN  parse[1]
=============================================================================
