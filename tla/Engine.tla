------------------------------- MODULE Engine -------------------------------
(***************************************************************************)
(* aes_gcm_engine.sv with its packet parser and builder: bytes in, one     *)
(* command at a time to the core, bytes out. Clock is one rising edge of   *)
(* all registers; the other actions are the host's. The core is its        *)
(* control unit (CU) over a data path that takes any number of clocks and  *)
(* computes what gcm_model does from the words it was given.               *)
(*                                                                         *)
(* A byte is an opcode, a length or a byte of GcmModel; a tag has one byte *)
(* for each thing it authenticates. A register that nothing reads until it *)
(* is written again is shown as empty, and the words above a count are not *)
(* shown. model, due and answer are histories for CommandSpec.             *)
(***************************************************************************)
EXTENDS CommandSpec, CU

CONSTANT Early      (* packets that may come while the engine is busy       *)

(* Blocks have bytes and there is room for one, a tag has one byte for each *)
(* thing it authenticates, and a packet is a pair of an opcode and bytes.  *)
ASSUME EngineAssumption ==
    /\ BlockBytes \in Nat \ {0} /\ MaxDataBlocks \in Nat \ {0} /\ TagBytes = 4
    /\ Early \subseteq Offered
    /\ \A packet \in Offered :
           packet = <<packet[1], packet[2]>> /\ packet[2] \in Seq(Range(packet[2]))

VARIABLES
    line,       (* bytes of the packet on its way, in the link and the RX FIFO *)
    sending,    (* the packet: a history                                    *)
    spoiled,    (* a packet cut short may have left blocks: a history       *)
    parsing,     (* [at, cmd, len, cnt, shift, discard]                      *)
    strobe,     (* its outputs: [event, value, done]                        *)
    regs,       (* the buffers: [key, iv, tag_ref, aad, pt]                 *)
    ask,        (* the builder_send_ack and _err registers: <<>> or <<response, value>> *)
    send,       (* the builder_send registers of the FSM                    *)
    fsm,        (* [at, mode, tag_ref_sent, idx]: wrap_state and its registers *)
    drive,      (* the inputs of the core: [on, word]                       *)
    core,       (* its data path                                            *)
    capture,    (* [ct, count, tag, captured, pass]                         *)
    builder,    (* [at, cmd, len, value, idx, busy, sent, tx_start, tx_data] *)
    tx,         (* the link's transmitter: free, late (taken, tx_busy low) or busy *)
    wire        (* bytes of the answer that have left                       *)

parserVars == <<line, parsing, strobe>>
engineVars == <<commandVars, Current, parserVars, sending, spoiled, regs, ask, send, fsm, drive, core, capture,
                builder, tx, wire>>

Nothing == <<"none", <<>>>>
NoStrobe == [event |-> "none", value |-> <<>>, done |-> FALSE]
ClearParser == [at |-> "idle", cmd |-> "none", len |-> 0, cnt |-> 0, shift |-> <<>>, discard |-> FALSE]
NoRegs == [key |-> <<>>, iv |-> <<>>, tag_ref |-> <<>>, aad |-> <<>>, pt |-> <<>>]
IdleFsm == [at |-> "IDLE", mode |-> FALSE, tag_ref_sent |-> FALSE, idx |-> 0]
NoDrive == [on |-> {}, word |-> <<>>]
(* Words of a message, in and out; out counts those given out, word is on  *)
(* data_out, last after data_in_last.                                      *)
NoMessageYet == [H_loaded |-> FALSE, IV_loaded |-> FALSE, key |-> <<>>, iv |-> <<>>, tag_ref |-> <<>>, aad |-> <<>>,
                 data |-> <<>>, last |-> FALSE, out |-> 0, word |-> <<>>, tag |-> <<>>]
NoWords == [i \in 0..MaxDataBlocks |-> <<>>]
IdleBuilder == [at |-> "idle", cmd |-> "none", len |-> 0, value |-> <<>>, idx |-> 0, busy |-> FALSE, sent |-> FALSE,
                tx_start |-> FALSE, tx_data |-> <<>>]

EngineInit ==
    /\ CommandInit /\ CUInit
    /\ line = <<>> /\ sending = Nothing /\ spoiled = FALSE
    /\ parsing = ClearParser /\ strobe = NoStrobe
    /\ regs = NoRegs /\ ask = <<>> /\ send = "none"
    /\ fsm = IdleFsm
    /\ drive = NoDrive /\ core = NoMessageYet
    /\ capture = [ct |-> NoWords, count |-> 0, tag |-> <<>>, captured |-> FALSE, pass |-> FALSE]
    /\ builder = IdleBuilder /\ tx = "free" /\ wire = <<>>

(* A new command must not overtake the message or answer in progress.      *)
(* Mutant: the queue is read while an answer goes out.                     *)
ReadyWhileAnswering == fsm.at = "IDLE"
engine_ready == fsm.at = "IDLE" /\ ~builder.busy

-----------------------------------------------------------------------------
(* The host and the link in front of the engine.                           *)

(* The next packet may come while the one before is executed or answered   *)
(* (which one it is does not show before the parser takes its first byte,  *)
(* so one of Early stands for all). As in framing.build_tx a key comes     *)
(* first and an IV second; after a packet that was cut the host starts     *)
(* what is loaded or a new message.                                        *)
Orderly(packet) ==
    /\ packet[1] = "LOAD_KEY" \/ (model.key # <<>> /\ (packet[1] = "LOAD_IV" \/ model.iv # <<>>))
    /\ spoiled => packet[1] \in {"LOAD_KEY", "START_ENCRYPT"}

SendPacket ==
    /\ line = <<>> /\ parsing.at = "idle"
    /\ \E packet \in IF engine_ready /\ ask = <<>> THEN Offered ELSE Early :
           /\ Orderly(packet)
           /\ sending' = packet
           /\ line' = <<packet[1], Len(packet[2])>> \o packet[2]
           /\ spoiled' = (spoiled /\ packet[1] = "START_ENCRYPT")
    /\ UNCHANGED <<commandVars, Current, parsing, strobe, regs, ask, send, fsm, drive, core, capture, builder, tx, wire>>

CutPacket ==
    /\ line # <<>> /\ parsing.at \in {"GET_LEN", "PAYLOAD"} /\ ~spoiled
    /\ line' = <<>> /\ spoiled' = TRUE
    /\ UNCHANGED <<commandVars, Current, parsing, strobe, sending, regs, ask, send, fsm, drive, core, capture,
                   builder, tx, wire>>

-----------------------------------------------------------------------------
(* packet_parser.                                                          *)
rx_ready == parsing.at \in {"idle", "GET_LEN", "PAYLOAD"}
rx_valid(arrives) == arrives /\ line # <<>> /\ rx_ready /\ engine_ready

Parse(from, condition, next, out) ==
    /\ parsing.at = from /\ condition
    /\ parsing' = next /\ strobe' = out
At(state) == [parsing EXCEPT !.at = state]
Ends == parsing.cnt + 1 = parsing.len

(* The inactivity timer runs out long after every byte on its way and      *)
(* every answer: only when the packet was cut and nothing else moves.      *)
Expires ==
    /\ line = <<>> /\ parsing.at \in {"GET_LEN", "PAYLOAD"}
    /\ engine_ready /\ strobe = NoStrobe /\ ask = <<>>

(* A block at a time for the loads of blocks, the whole payload otherwise. *)
Payload(byte) ==
    LET value == Append(parsing.shift, byte)
        whole == Ends \/ (parsing.cmd \in {"LOAD_AAD", "LOAD_PLAINTEXT"} /\ Len(value) = BlockBytes)
    IN  /\ parsing' = [parsing EXCEPT !.at = IF Ends THEN "SETTLE_0" ELSE @, !.cnt = @ + 1,
                                    !.shift = IF whole THEN <<>> ELSE value]
        /\ strobe' = IF whole THEN [event |-> parsing.cmd, value |-> value, done |-> Ends] ELSE NoStrobe

ParserStep(arrives) ==
    LET valid == rx_valid(arrives)
        byte == Head(line)
        length_ok == LengthOk(parsing.cmd, parsing.len)
        error(event) == [event |-> event, value |-> parsing.cmd, done |-> TRUE]
    IN  /\ line' = IF valid THEN Tail(line) ELSE line
        /\ \/ Parse("idle", ~valid, ClearParser, NoStrobe)
           \/ Parse("idle", valid, [ClearParser EXCEPT !.at = "GET_LEN", !.cmd = byte], NoStrobe)
           \/ Parse("GET_LEN", valid, [At("CHECK_CMD") EXCEPT !.len = byte], NoStrobe)
           \/ Parse("CHECK_CMD", ~length_ok,
                    [At(IF parsing.len = 0 THEN "SETTLE_0" ELSE "PAYLOAD") EXCEPT !.discard = TRUE],
                    error(IF Known(parsing.cmd) THEN "ERR_LEN" ELSE "ERR_UNKNOWN"))
           \/ Parse("CHECK_CMD", length_ok /\ parsing.len = 0, At("SETTLE_0"),
                    [event |-> parsing.cmd, value |-> <<>>, done |-> TRUE])
           \/ Parse("CHECK_CMD", length_ok /\ parsing.len > 0, At("PAYLOAD"), NoStrobe)
           \/ parsing.at = "PAYLOAD" /\ valid /\ ~parsing.discard /\ Payload(byte)
           \/ Parse("PAYLOAD", valid /\ parsing.discard,
                    [At(IF Ends THEN "SETTLE_0" ELSE "PAYLOAD") EXCEPT !.cnt = @ + 1], NoStrobe)
           \/ Parse("SETTLE_0", TRUE, At("SETTLE_1"), NoStrobe)
           \/ Parse("SETTLE_1", TRUE, ClearParser, NoStrobe)
           \/ \E state \in {"GET_LEN", "PAYLOAD"} :
                  \/ Parse(state, Expires, At("SETTLE_0"), error("ERR_TIMEOUT"))
                  \/ Parse(state, ~valid /\ ~Expires, parsing, NoStrobe)

-----------------------------------------------------------------------------
(* The buffers and the requests for answers they raise.                    *)
start_requested == strobe.event \in Starts
start_refused ==
    /\ start_requested /\ fsm.at = "IDLE"
    /\ regs.pt = <<>> \/ (strobe.event = "START_DECRYPT" /\ regs.tag_ref = <<>>)
message_done == builder.sent /\ ((fsm.at = "WAIT_TAG_SENT" /\ ~fsm.mode) \/ fsm.at = "WAIT_VERIFY_SENT")
key_len_bad == strobe.event = "LOAD_KEY" /\ Len(strobe.value) # KeyBytes

(* The counters have four bits: one block more than countable is none.     *)
Write(blocks, block) == IF Len(blocks) = MaxDataBlocks THEN <<>> ELSE Append(blocks, block)
WithoutMessage(r) == [r EXCEPT !.aad = <<>>, !.pt = <<>>, !.tag_ref = <<>>]

Latched ==
    CASE strobe.event = "LOAD_KEY" -> WithoutMessage([regs EXCEPT !.key = IF key_len_bad THEN @ ELSE strobe.value])
      [] strobe.event = "LOAD_IV" -> WithoutMessage([regs EXCEPT !.iv = strobe.value])
      [] strobe.event = "LOAD_TAG_REF" -> [regs EXCEPT !.tag_ref = strobe.value]
      [] strobe.event = "LOAD_AAD" -> [regs EXCEPT !.aad = Write(@, strobe.value)]
      [] strobe.event = "LOAD_PLAINTEXT" -> [regs EXCEPT !.pt = Write(@, strobe.value)]
      [] OTHER -> regs
BufferStep ==
    /\ regs' = IF message_done THEN WithoutMessage(Latched) ELSE Latched
    /\ ask' = CASE strobe.event \in {"ERR_UNKNOWN", "ERR_LEN", "ERR_TIMEOUT"} -> <<strobe.event, strobe.value>>
                [] start_refused -> <<"ERR_LEN", strobe.event>>
                [] key_len_bad -> <<"ERR_LEN", "LOAD_KEY">>
                [] strobe.event \in Loads /\ strobe.done /\ ~key_len_bad -> <<CMD_ACKS[strobe.event], <<>>>>
                [] OTHER -> <<>>
-----------------------------------------------------------------------------
(* Capture of the core's outputs, by the code's three conditions.          *)
tag_valid == ~fsm.mode /\ core.tag # <<>>
verify_pass == fsm.mode /\ core.tag # <<>> /\ core.tag = core.tag_ref

(* Mutant: reg_verify_pass keeps the verdict of an earlier message.        *)
PassKept(start) == verify_pass \/ capture.pass
Pass(start) == verify_pass \/ (capture.pass /\ ~start)

CaptureStep ==
    LET start == fsm.at = "START_KEY_IV"
        given == core.word # <<>>
        tag == tag_valid \/ (fsm.mode /\ verify_done)
    IN  capture' = IF message_done THEN [capture EXCEPT !.ct = NoWords, !.count = 0, !.tag = <<>>]
                   ELSE [ct |-> IF given THEN [capture.ct EXCEPT ![capture.count] = core.word] ELSE capture.ct,
                         count |-> IF given THEN (capture.count + 1) % (MaxDataBlocks + 1)
                                   ELSE IF start THEN 0 ELSE capture.count,
                         tag |-> IF tag THEN core.tag ELSE capture.tag,
                         captured |-> tag \/ (capture.captured /\ ~start),
                         pass |-> Pass(start)]

-----------------------------------------------------------------------------
(* The orchestration FSM: one transition per state and condition, the      *)
(* inputs it raises to the core and the answer it asks the builder for.    *)
Goto(state) == [fsm EXCEPT !.at = state]
Slot(blocks, i) == IF i < Len(blocks) THEN blocks[i + 1] ELSE <<>>

Orchestrate(from, condition, next, on, word) ==
    /\ fsm.at = from /\ condition
    /\ fsm' = next /\ drive' = [on |-> on, word |-> word] /\ send' = "none"
Silent(from, condition, state) == Orchestrate(from, condition, Goto(state), {}, <<>>)
Request(from, response, to) ==
    /\ fsm.at = from
    /\ fsm' = Goto(to) /\ drive' = NoDrive /\ send' = response

(* One word per clock; a single word's last strobe is held for a clock.    *)
Stream(blocks, from, load, last, hold, to) ==
    LET idx == fsm.idx
        next == idx + 1
    IN  \/ Orchestrate(from, next # Len(blocks), [fsm EXCEPT !.idx = next], {load}, Slot(blocks, idx))
        \/ Orchestrate(from, next = Len(blocks), [fsm EXCEPT !.at = to, !.idx = 0], {load, last}, Slot(blocks, idx))
        \/ Orchestrate(hold, TRUE, Goto(to), {last}, <<>>)
(* The first word, once the core is ready for it.                          *)
First(blocks, from, ready, load, last, hold, stream) ==
    \/ Orchestrate(from, ready /\ Len(blocks) = 1, Goto(hold), {load, last}, Slot(blocks, 0))
    \/ Orchestrate(from, ready /\ Len(blocks) # 1, [fsm EXCEPT !.at = stream, !.idx = 1], {load}, Slot(blocks, 0))

(* Not in the list: the tag reference, in the same clocks as the AAD.      *)
SendsTagRef == fsm.at = "WAIT_AAD_READY" /\ fsm.mode /\ tag_ref_ready(core.tag_ref # <<>>, fsm.mode) /\ ~fsm.tag_ref_sent
PipelineDone == capture.count = Len(regs.pt) /\ capture.captured

FsmStep ==
    \/ Silent("IDLE", ~start_requested \/ start_refused, "IDLE")
    \/ Orchestrate("IDLE", start_requested /\ ~start_refused,
                   [at |-> "START_KEY_IV", mode |-> strobe.event = "START_DECRYPT", tag_ref_sent |-> FALSE, idx |-> 0],
                   {"load_key"}, <<regs.key, regs.iv>>)
    \/ Silent("START_KEY_IV", TRUE, "WAIT_AAD_READY")
    \/ Orchestrate("WAIT_AAD_READY", SendsTagRef, [fsm EXCEPT !.tag_ref_sent = TRUE], {"load_tag_ref"}, <<>>)
    \/ Silent("WAIT_AAD_READY", ~SendsTagRef /\ ~AAD_ready, "WAIT_AAD_READY")
    \/ Orchestrate("WAIT_AAD_READY", AAD_ready /\ regs.aad = <<>>, Goto("WAIT_DATA_READY"), {"no_AAD"}, <<>>)
    \/ First(regs.aad, "WAIT_AAD_READY", AAD_ready /\ regs.aad # <<>>, "load_AAD", "AAD_last", "HOLD_AAD_LAST", "STREAM_AAD")
    \/ Stream(regs.aad, "STREAM_AAD", "load_AAD", "AAD_last", "HOLD_AAD_LAST", "WAIT_DATA_READY")
    \/ Silent("WAIT_DATA_READY", ~data_ready(FALSE), "WAIT_DATA_READY")
    \/ First(regs.pt, "WAIT_DATA_READY", data_ready(FALSE), "load_data", "data_in_last", "HOLD_PT_LAST", "STREAM_PT")
    \/ Stream(regs.pt, "STREAM_PT", "load_data", "data_in_last", "HOLD_PT_LAST", "WAIT_PIPELINE")
    \/ Orchestrate("WAIT_PIPELINE", TRUE,
                   Goto(IF ~PipelineDone THEN "WAIT_PIPELINE"
                        ELSE IF fsm.mode /\ ~capture.pass THEN "SEND_TAG" ELSE "SEND_CT"),
                   IF fsm.mode /\ verify_done THEN {"verify_checked"} ELSE {}, <<>>)
    \/ Request("SEND_CT", "CIPHERTEXT", "WAIT_CT_SENT")
    \/ Silent("WAIT_CT_SENT", TRUE, IF builder.sent THEN "SEND_TAG" ELSE "WAIT_CT_SENT")
    \/ Request("SEND_TAG", "AUTH_TAG", "WAIT_TAG_SENT")
    \/ Silent("WAIT_TAG_SENT", ~builder.sent, "WAIT_TAG_SENT")
    \/ Silent("WAIT_TAG_SENT", builder.sent /\ fsm.mode, "SEND_VERIFY")
    \/ Request("SEND_VERIFY", "VERIFY_RESULT", "WAIT_VERIFY_SENT")
    \/ Silent("WAIT_VERIFY_SENT", ~builder.sent, "WAIT_VERIFY_SENT")
    \/ Orchestrate(fsm.at, message_done, IdleFsm, {}, <<>>)

-----------------------------------------------------------------------------
(* The core: works lets its data path finish what it is at. The pipeline   *)
(* is empty when the tag is ready (GcmCore).                               *)
Message == RunMessage(core.key, core.iv, FlattenSeq(core.aad), FlattenSeq(core.data), fsm.mode)

CoreStep(works) ==
    LET in(name) == name \in drive.on
        gives == works /\ core.out < Len(core.data)
    IN  /\ CUStep(in("load_key"), in("load_key"), fsm.mode, works, core.H_loaded, core.IV_loaded, core.tag_ref # <<>>,
                  in("load_AAD"), in("no_AAD"), in("AAD_last"), in("load_data"), in("data_in_last"),
                  core.tag # <<>>, in("verify_checked"))
        /\ core' = IF finish \/ Current' = "FINISH" THEN NoMessageYet
                   ELSE [H_loaded |-> ~in("load_key") /\ (core.H_loaded \/ (Current = "WAIT_H_CAL" /\ works)),
                         IV_loaded |-> core.IV_loaded \/ in("load_key"),
                         key |-> IF in("load_key") THEN drive.word[1] ELSE core.key,
                         iv |-> IF in("load_key") THEN drive.word[2] ELSE core.iv,
                         tag_ref |-> IF in("load_tag_ref") THEN regs.tag_ref ELSE core.tag_ref,
                         aad |-> IF in("load_AAD") THEN Append(core.aad, drive.word) ELSE core.aad,
                         data |-> IF in("load_data") THEN Append(core.data, drive.word) ELSE core.data,
                         last |-> core.last \/ in("data_in_last"),
                         out |-> IF gives THEN core.out + 1 ELSE core.out,
                         word |-> IF gives
                                  THEN SubSeq(Message.output, core.out * BlockBytes + 1, (core.out + 1) * BlockBytes)
                                  ELSE <<>>,
                         tag |-> IF works /\ core.last /\ core.out = Len(core.data) THEN Message.tag ELSE core.tag]

-----------------------------------------------------------------------------
(* packet_builder and the link's transmitter.                              *)
tx_busy == tx = "busy"

Asked(response, length, value) ==
    builder' = [IdleBuilder EXCEPT !.at = "SEND_BYTE", !.busy = TRUE, !.cmd = response, !.len = length, !.value = value]

current_tx_byte ==
    LET payload_idx == builder.idx - 2
    IN  CASE builder.idx = 0 -> builder.cmd
          [] builder.idx = 1 -> builder.len
          [] OTHER ->
               CASE builder.cmd = "CIPHERTEXT" -> capture.ct[payload_idx \div BlockBytes][(payload_idx % BlockBytes) + 1]
                 [] builder.cmd = "AUTH_TAG" -> builder.value[payload_idx + 1]
                 [] OTHER -> builder.value

(* A request that comes while the builder is not idle is lost.             *)
Idling ==
    LET ack == ask # <<>> /\ ask[1] \in Acks
    IN  /\ builder.at = "idle"
        /\ \/ ack /\ Asked(ask[1], 0, <<>>)
           \/ ~ack /\ send = "CIPHERTEXT" /\ Asked(send, Len(regs.pt) * BlockBytes, <<>>)
           \/ ~ack /\ send = "AUTH_TAG" /\ Asked(send, TagBytes, capture.tag)
           \/ ~ack /\ send = "VERIFY_RESULT" /\ Asked(send, 1, capture.pass)
           \/ ~ack /\ send = "none" /\ ask # <<>> /\ Asked(ask[1], 1, ask[2])
           \/ ask = <<>> /\ send = "none" /\ builder' = IdleBuilder

Quiet(b) == [b EXCEPT !.tx_start = FALSE, !.tx_data = <<>>]
packet_ends == builder.at = "WAIT_FREE" /\ ~tx_busy /\ builder.idx + 1 = builder.len + 2

SendByte == builder.at = "SEND_BYTE" /\
    builder' = IF tx_busy THEN Quiet(builder)
               ELSE [builder EXCEPT !.at = "WAIT_BUSY", !.tx_start = TRUE, !.tx_data = current_tx_byte]
WaitBusy == builder.at = "WAIT_BUSY" /\
    builder' = [Quiet(builder) EXCEPT !.at = IF tx_busy THEN "WAIT_FREE" ELSE @]
WaitFree == builder.at = "WAIT_FREE" /\
    builder' = IF tx_busy THEN builder
               ELSE IF packet_ends THEN [IdleBuilder EXCEPT !.sent = TRUE]
               ELSE [builder EXCEPT !.at = "SEND_BYTE", !.idx = @ + 1]

BuilderStep == Idling \/ SendByte \/ WaitBusy \/ WaitFree

(* tx_busy rises with the byte or some edges after it.                     *)
LinkStep(moves) ==
    /\ tx' = IF builder.tx_start THEN (IF moves THEN "busy" ELSE "late")
             ELSE IF ~moves THEN tx ELSE IF tx = "late" THEN "busy" ELSE "free"
    /\ wire' = IF builder.tx_start THEN Append(wire, builder.tx_data) ELSE IF packet_ends THEN <<>> ELSE wire

-----------------------------------------------------------------------------
(* What CommandSpec sees: a packet when its strobe reaches the buffers, an *)
(* answer when its last byte is gone.                                      *)
HistoryStep ==
    LET event == strobe.event
        whole == IF parsing.discard \/ parsing.cmd \notin {"LOAD_AAD", "LOAD_PLAINTEXT"} THEN 0
                 ELSE parsing.cnt - (parsing.cnt % BlockBytes)
    IN  /\ answer' = IF packet_ends THEN wire ELSE <<>>
        /\ \/ packet_ends /\ due' = (IF due = <<>> THEN due ELSE Tail(due)) /\ model' = model
           \/ ~packet_ends /\ ~strobe.done /\ UNCHANGED <<due, model>>
           \/ /\ ~packet_ends /\ strobe.done
              /\ \/ /\ event \in {"ERR_UNKNOWN", "ERR_LEN", "ERR_TIMEOUT"}
                    /\ due' = Append(due, <<event, strobe.value>>)
                    /\ model' = IF event # "ERR_TIMEOUT" \/ whole = 0 THEN model
                                ELSE Performed(model, <<parsing.cmd, SubSeq(sending[2], 1, whole)>>)
                 \/ key_len_bad /\ due' = Append(due, <<"ERR_LEN", event>>) /\ model' = Cleared(model)
                 \/ /\ Known(event) /\ ~key_len_bad
                    /\ due' = due \o Answer(model, event) /\ model' = Performed(model, sending)

-----------------------------------------------------------------------------
(* outside: a byte is there, the core has finished what it is at and the   *)
(* link has moved on; never are two of them waited for in one clock.       *)
Clock(outside) ==
    /\ ParserStep(outside) /\ BufferStep /\ CaptureStep /\ FsmStep
    /\ CoreStep(outside) /\ BuilderStep /\ LinkStep(outside) /\ HistoryStep
    /\ sending' = IF parsing.at = "SETTLE_1" THEN Nothing ELSE sending
    /\ UNCHANGED spoiled

EngineNext == SendPacket \/ CutPacket \/ \E outside \in BOOLEAN : Clock(outside)

(* The clock runs, and bytes, core and link are not slow for ever.         *)
EngineSpec == EngineInit /\ [][EngineNext]_engineVars /\ WF_engineVars(Clock(TRUE))

-----------------------------------------------------------------------------
(* Properties.                                                             *)

EngineTypeOK ==
    /\ Len(line) <= MaxPayload + 2 /\ strobe.done \in BOOLEAN
    /\ parsing.at \in {"idle", "GET_LEN", "CHECK_CMD", "PAYLOAD", "SETTLE_0", "SETTLE_1"}
    /\ parsing.cnt \in 0..parsing.len /\ Len(parsing.shift) < MaxPayload
    /\ Len(regs.aad) \in 0..MaxDataBlocks /\ Len(regs.pt) \in 0..MaxDataBlocks
    /\ fsm.idx \in 0..MaxDataBlocks /\ capture.count \in 0..MaxDataBlocks
    /\ core.out \in 0..Len(core.data) /\ Current \in CUStates
    /\ builder.idx \in 0..builder.len + 1 /\ builder.sent \in BOOLEAN
    /\ tx \in {"free", "late", "busy"} /\ Len(wire) <= builder.len + 2
    /\ Len(due) \in 0..3

(* The engine executes, refuses and answers as CommandSpec says.           *)
ImplementsCommands == Commands

(* Nothing is handed over that the other side does not take: strobes to    *)
(* the core only on its ready outputs, requests only to an idle builder    *)
(* and one at a time, bytes only to a free link, and no packet byte while  *)
(* an answer goes out or the core works (aes_gcm_engine.sv, RX queue:      *)
(* "a new command must not overtake the message or response in progress"). *)
HandedOver ==
    /\ "load_key" \in drive.on => key_ready
    /\ "load_tag_ref" \in drive.on => tag_ref_ready(core.tag_ref # <<>>, fsm.mode)
    /\ "load_AAD" \in drive.on => AAD_ready
    /\ "load_data" \in drive.on => data_ready(FALSE)
    /\ ask # <<>> \/ send # "none" => builder.at = "idle" /\ (ask = <<>> \/ send = "none")
    /\ builder.tx_start => tx = "free"
    /\ strobe.event \in Starts => fsm.at = "IDLE"

(* Whatever comes, the engine gets ready for the next packet again with    *)
(* every answer sent (packet_parser.sv: "A packet cut short must not       *)
(* swallow the one after it").                                             *)
ReadyAgain == []<>(parsing.at = "idle" /\ engine_ready /\ due = <<>>)
=============================================================================
