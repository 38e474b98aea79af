------------------------------ MODULE EngineData ------------------------------
(***************************************************************************)
(* Why the engine implements CommandSpec: what the parser, the buffers,    *)
(* the core, the capture registers and the builder hold of the packet that *)
(* comes, of the message that is served and of the answer that leaves.     *)
(* EngineProofs proves it.                                                 *)
(***************************************************************************)
EXTENDS Engine

opcode == sending[1]
payload == sending[2]
Whole(packet) == <<packet[1], Len(packet[2])>> \o packet[2]
From(k) == SubSeq(Whole(sending), k, Len(payload) + 2)
BlockLoads == {"LOAD_AAD", "LOAD_PLAINTEXT"}
Allowed == LengthOk(opcode, Len(payload))
(* The bytes of n that make up whole blocks, for the loads of blocks.      *)
InBlocks(n) == IF opcode \in BlockLoads THEN n - (n % BlockBytes) ELSE 0

(* The parser: a packet lies on the line from the byte on that is due, or  *)
(* was cut.                                                                *)
Arriving ==
    /\ parsing.at = "idle" =>
           /\ parsing = ClearParser
           /\ \/ sending = Nothing /\ line = <<>>
              \/ sending \in Offered /\ line = From(1)
    /\ parsing.at # "idle" => sending \in Offered /\ parsing.cmd = opcode
    /\ parsing.at = "GET_LEN" => line \in {<<>>, From(2)}
    /\ parsing.at = "CHECK_CMD" => line = From(3)
    /\ parsing.at \in {"GET_LEN", "CHECK_CMD"} => parsing.cnt = 0 /\ parsing.shift = <<>> /\ ~parsing.discard
    /\ parsing.at \in {"CHECK_CMD", "PAYLOAD"} => parsing.len = Len(payload)
    /\ parsing.at = "PAYLOAD" =>
           /\ line \in {<<>>, From(parsing.cnt + 3)}
           /\ parsing.cnt \in 0..Len(payload) - 1
           /\ parsing.discard <=> ~Allowed
           /\ ~parsing.discard => parsing.shift = SubSeq(payload, InBlocks(parsing.cnt) + 1, parsing.cnt)
    /\ parsing.at \in {"SETTLE_0", "SETTLE_1"} => line = <<>> /\ parsing.cnt \in 0..Len(payload)

(* What a strobe of the parser says of the packet.                         *)
Delivered ==
    /\ strobe.event \in Loads \union Starts => strobe.event = opcode /\ Allowed /\ ~parsing.discard
    /\ strobe.event \in BlockLoads =>
           /\ parsing.cnt \in BlockBytes..Len(payload) /\ parsing.cnt % BlockBytes = 0
           /\ strobe.value = SubSeq(payload, parsing.cnt - BlockBytes + 1, parsing.cnt)
           /\ strobe.done <=> parsing.cnt = Len(payload)
    /\ strobe.event \in Loads \ BlockLoads => strobe.value = payload
    /\ strobe.event \in {"ERR_LEN", "ERR_UNKNOWN"} =>
           ~Allowed /\ parsing.discard /\ strobe.event = IF Known(opcode) THEN "ERR_LEN" ELSE "ERR_UNKNOWN"
    /\ strobe.event \in {"ERR_LEN", "ERR_UNKNOWN", "ERR_TIMEOUT"} => strobe.value = opcode
    /\ strobe.event = "ERR_TIMEOUT" => parsing.cnt = 0 \/ parsing.cnt < Len(payload)
    /\ strobe.event \in Loads \union Starts \union {"ERR_LEN", "ERR_UNKNOWN", "ERR_TIMEOUT"} \/ strobe = NoStrobe
    /\ parsing.at = "SETTLE_0" /\ opcode \in BlockLoads /\ ~parsing.discard => strobe.done

(* Bytes of the packet that its load has put into the buffers so far.      *)
Written(load) ==
    IF opcode = load /\ parsing.at \in {"PAYLOAD", "SETTLE_0"} /\ ~parsing.discard
    THEN InBlocks(parsing.cnt) - (IF strobe.event = load THEN BlockBytes ELSE 0) ELSE 0

(* The buffers hold the message that CommandSpec has, and the blocks of    *)
(* the packet under way; while the message is served CommandSpec has none. *)
InStep ==
    /\ model.key = regs.key /\ model.iv = regs.iv
    /\ IF fsm.at = "IDLE"
       THEN /\ model.tag_ref = regs.tag_ref
            /\ FlattenSeq(regs.aad) = Stored(model.aad, SubSeq(payload, 1, Written("LOAD_AAD")))
            /\ FlattenSeq(regs.pt) = Stored(model.data, SubSeq(payload, 1, Written("LOAD_PLAINTEXT")))
       ELSE model.aad = <<>> /\ model.data = <<>> /\ model.tag_ref = <<>>

(* The message that is served, and what the core computes from it.         *)
Result == RunMessage(regs.key, regs.iv, FlattenSeq(regs.aad), FlattenSeq(regs.pt), fsm.mode)
Passed == fsm.mode /\ Result.tag = regs.tag_ref
Served == fsm.at # "IDLE" => regs.pt # <<>> /\ (fsm.mode => regs.tag_ref # <<>>)

(* What the core has after the word that it gets in this clock, and how    *)
(* much of the message that is by then.                                    *)
AadAfter == IF "load_AAD" \in drive.on THEN Append(core.aad, drive.word) ELSE core.aad
DataAfter == IF "load_data" \in drive.on THEN Append(core.data, drive.word) ELSE core.data
AadDue == CASE fsm.at = "WAIT_AAD_READY" -> 0 [] fsm.at = "STREAM_AAD" -> fsm.idx [] OTHER -> Len(regs.aad)
DataDue ==
    CASE fsm.at \in {"WAIT_AAD_READY", "HOLD_AAD_LAST", "STREAM_AAD", "WAIT_DATA_READY"} -> 0
      [] fsm.at = "STREAM_PT" -> fsm.idx
      [] OTHER -> Len(regs.pt)

InMessage ==
    \/ fsm.at \in {"WAIT_AAD_READY", "HOLD_AAD_LAST", "STREAM_AAD", "WAIT_DATA_READY", "HOLD_PT_LAST", "STREAM_PT"}
    \/ fsm.at = "WAIT_PIPELINE" /\ Current \notin {"FINISH", "IDLE"}
Fresh == core.tag_ref = <<>> /\ core.aad = <<>> /\ core.data = <<>> /\ core.out = 0 /\ core.word = <<>>
Feeding ==
    /\ Current \in {"IDLE", "FINISH"} => Fresh
    /\ fsm.at = "START_KEY_IV" => drive.word = <<regs.key, regs.iv>>
    /\ InMessage =>
           /\ core.key = regs.key /\ core.iv = regs.iv
           /\ AadAfter = SubSeq(regs.aad, 1, AadDue) /\ DataAfter = SubSeq(regs.pt, 1, DataDue)
           /\ Len(core.data) \in 0..Len(regs.pt) /\ core.data = SubSeq(regs.pt, 1, Len(core.data))
           /\ core.tag_ref \in {<<>>, regs.tag_ref}
           /\ fsm.mode /\ Current \notin {"KEY_EXPANSION", "WAIT_H_CAL", "WAIT_TAG_REF"} => core.tag_ref # <<>>
    /\ fsm.at = "STREAM_AAD" => fsm.idx \in 1..Len(regs.aad) - 1
    /\ fsm.at = "STREAM_PT" => fsm.idx \in 1..Len(regs.pt) - 1

(* word is the i-th block of the output.                                   *)
BlockOf(word, i, output) == Len(word) = BlockBytes /\ \A j \in 1..BlockBytes : word[j] = output[i * BlockBytes + j]

(* What the core has given out, and what was captured of it.               *)
Complete ==
    \/ fsm.at = "WAIT_PIPELINE" /\ capture.captured
    \/ fsm.at \in {"SEND_CT", "WAIT_CT_SENT", "SEND_TAG", "WAIT_TAG_SENT", "SEND_VERIFY", "WAIT_VERIFY_SENT"}
Given ==
    /\ DOMAIN capture = {"ct", "count", "tag", "captured", "pass"} /\ DOMAIN capture.ct = 0..MaxDataBlocks
    /\ InMessage =>
           /\ core.out \in 0..Len(core.data) /\ capture.count = core.out - (IF core.word = <<>> THEN 0 ELSE 1)
           /\ capture.count >= 0
           /\ core.word # <<>> => BlockOf(core.word, capture.count, Result.output)
           /\ \A i \in 0..capture.count - 1 : BlockOf(capture.ct[i], i, Result.output)
           /\ capture.pass => Passed
    /\ core.last => core.data = regs.pt
    /\ core.tag # <<>> => core.last /\ core.tag = Result.tag /\ core.out = Len(core.data) /\ core.word = <<>>
    /\ Current = "VERIFY_PASS" => core.tag # <<>>
    /\ Complete =>
           /\ capture.count = Len(regs.pt) /\ \A i \in 0..Len(regs.pt) - 1 : BlockOf(capture.ct[i], i, Result.output)
           /\ capture.tag = Result.tag /\ (fsm.mode => (capture.pass <=> Passed))

(* The answers of the message that is served.                              *)
CtPart == IF fsm.mode /\ ~Passed THEN <<>> ELSE <<<<"CIPHERTEXT", Result.output>>>>
TagPart == <<<<"AUTH_TAG", Result.tag>>>>
VerdictPart == IF fsm.mode THEN <<<<"VERIFY_RESULT", Passed>>>> ELSE <<>>

Owing ==
    /\ fsm.at = "IDLE" => IF ask # <<>> THEN due = <<ask>> ELSE IF builder.busy THEN due = <<Head(due)>> ELSE due = <<>>
    /\ fsm.at \notin {"IDLE", "SEND_CT", "WAIT_CT_SENT", "SEND_TAG", "WAIT_TAG_SENT", "SEND_VERIFY", "WAIT_VERIFY_SENT"} =>
           due = CtPart \o TagPart \o VerdictPart
    /\ fsm.at = "SEND_CT" \/ (fsm.at = "WAIT_CT_SENT" /\ ~builder.sent) =>
           (fsm.mode => Passed) /\ due = CtPart \o TagPart \o VerdictPart
    /\ fsm.at = "SEND_TAG" \/ (fsm.at = "WAIT_CT_SENT" /\ builder.sent) \/ (fsm.at = "WAIT_TAG_SENT" /\ ~builder.sent) =>
           due = TagPart \o VerdictPart
    /\ fsm.at = "SEND_VERIFY" \/ (fsm.at = "WAIT_TAG_SENT" /\ builder.sent) \/ (fsm.at = "WAIT_VERIFY_SENT" /\ ~builder.sent) =>
           due = VerdictPart
    /\ fsm.at \in {"SEND_VERIFY", "WAIT_VERIFY_SENT"} => fsm.mode
    /\ fsm.at = "WAIT_VERIFY_SENT" /\ builder.sent => due = <<>>

(* The bytes of the answer that have left.                                 *)
Gone == builder.idx + (IF builder.at = "SEND_BYTE" \/ builder.tx_start THEN 0 ELSE 1)
IsTag(value) == value = <<value[1], value[2], value[3], value[4]>>
Leaving ==
    /\ send # "none" => ask = <<>> /\ <<fsm.at, send>> \in {<<"WAIT_CT_SENT", "CIPHERTEXT">>, <<"WAIT_TAG_SENT", "AUTH_TAG">>,
                                               <<"WAIT_VERIFY_SENT", "VERIFY_RESULT">>}
    /\ ask # <<>> => \/ ask[1] \in Acks /\ ask = <<ask[1], <<>>>>
                     \/ ask[1] \in {"ERR_UNKNOWN", "ERR_LEN", "ERR_TIMEOUT"} /\ ask = <<ask[1], ask[2]>>
    /\ builder.busy =>
           /\ builder.at # "idle" /\ due # <<>> /\ builder.idx \in 0..builder.len + 1
           /\ IF builder.cmd = "CIPHERTEXT"
              THEN fsm.at = "WAIT_CT_SENT" /\ builder.len = Len(regs.pt) * BlockBytes
              ELSE /\ Head(due) = <<builder.cmd, builder.value>>
                   /\ \/ builder.cmd \in OneByte /\ builder.len = 1
                      \/ builder.cmd = "AUTH_TAG" /\ builder.len = TagBytes /\ IsTag(builder.value)
                      \/ builder.cmd \in Acks /\ builder.len = 0 /\ builder.value = <<>>
           /\ wire = SubSeq(Bytes(Head(due)), 1, Gone)
           /\ builder.tx_start => builder.tx_data = Bytes(Head(due))[builder.idx + 1]
    /\ ~builder.busy => wire = <<>> /\ builder.at = "idle"
    /\ answer # <<>> => builder.sent
    /\ builder.sent => builder = [IdleBuilder EXCEPT !.sent = TRUE]

(* The verdict is a bit.                                                   *)
Judged == capture.pass \in BOOLEAN
=============================================================================
