---------------------------- MODULE CommandSpec -----------------------------
(***************************************************************************)
(* What the engine promises the host, without bytes or clocks: a packet    *)
(* whose length its opcode allows is executed and answered, any other is   *)
(* refused by name, and the answers leave whole and in order               *)
(* (docs/protocol.md, sections 3 and 4). Unlike in gcm_model, blocks of a  *)
(* second load follow those of the first, and the four bits that count     *)
(* them wrap.                                                              *)
(***************************************************************************)
EXTENDS GcmModel

CONSTANTS
    Offered,        (* packets the host may send                            *)
    KeyBytes,       (* of this variant, KEY_BITS / 8                        *)
    KeyLengths,     (* of both variants                                     *)
    IvBytes, TagBytes

VARIABLES
    model,      (* the engine of gcm_model                                  *)
    due,        (* answers not sent yet                                     *)
    answer      (* the bytes of an answer just sent                         *)

commandVars == <<model, due, answer>>

(* The bytes of a response.                                                *)
OneByte == {"ERR_UNKNOWN", "ERR_LEN", "ERR_TIMEOUT", "VERIFY_RESULT"}
Bytes(response) ==
    IF response[1] \in OneByte THEN <<response[1], 1, response[2]>>
    ELSE <<response[1], Len(response[2])>> \o response[2]

Known(cmd) == cmd \in Loads \union Starts
LengthOk(cmd, length) ==
    CASE cmd = "LOAD_KEY" -> length \in KeyLengths
      [] cmd = "LOAD_IV" -> length = IvBytes
      [] cmd = "LOAD_TAG_REF" -> length = TagBytes
      [] cmd \in {"LOAD_AAD", "LOAD_PLAINTEXT"} -> length > 0 /\ length % BlockBytes = 0
      [] cmd \in Starts -> length = 0
      [] OTHER -> FALSE
OtherVariant(packet) == packet[1] = "LOAD_KEY" /\ Len(packet[2]) \in KeyLengths \ {KeyBytes}

(* Blocks beyond the last one countable start again from none.             *)
Stored(old, new) ==
    LET all == old \o new
        limit == MaxDataBytes + BlockBytes
    IN  SubSeq(all, (Len(all) \div limit) * limit + 1, Len(all))

Performed(e, packet) ==
    CASE packet[1] = "LOAD_AAD" -> [e EXCEPT !.aad = Stored(@, packet[2])]
      [] packet[1] = "LOAD_PLAINTEXT" -> [e EXCEPT !.data = Stored(@, packet[2])]
      [] OTHER -> Loaded(e, packet[1], packet[2])

Execute(packet) ==
    /\ LengthOk(packet[1], Len(packet[2])) /\ ~OtherVariant(packet)
    /\ due' = due \o Answer(model, packet[1])
    /\ model' = Performed(model, packet)
    /\ UNCHANGED answer

(* A key of the other variant clears the message all the same.             *)
Refuse(packet) ==
    /\ ~LengthOk(packet[1], Len(packet[2])) \/ OtherVariant(packet)
    /\ due' = Append(due, <<IF Known(packet[1]) THEN "ERR_LEN" ELSE "ERR_UNKNOWN", packet[1]>>)
    /\ model' = IF OtherVariant(packet) THEN Cleared(model) ELSE model
    /\ UNCHANGED answer

(* The packet stops before its end. Its whole blocks stay.                 *)
Drop(packet) ==
    /\ due' = Append(due, <<"ERR_TIMEOUT", packet[1]>>)
    /\ \/ model' = model
       \/ /\ packet[1] \in {"LOAD_AAD", "LOAD_PLAINTEXT"}
          /\ \E blocks \in 1..(Len(packet[2]) - 1) \div BlockBytes :
                 model' = Performed(model, <<packet[1], SubSeq(packet[2], 1, blocks * BlockBytes)>>)
    /\ UNCHANGED answer

Reply ==
    /\ due # <<>> /\ answer = <<>>
    /\ answer' = Bytes(Head(due)) /\ due' = Tail(due)
    /\ UNCHANGED model
Received == answer # <<>> /\ answer' = <<>> /\ UNCHANGED <<model, due>>

CommandInit == model = NewEngine /\ due = <<>> /\ answer = <<>>
CommandNext ==
    \/ \E packet \in Offered : Execute(packet) \/ Refuse(packet) \/ Drop(packet)
    \/ Reply \/ Received

Commands == CommandInit /\ [][CommandNext]_commandVars
=============================================================================
