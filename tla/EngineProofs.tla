---------------------------- MODULE EngineProofs ----------------------------
(***************************************************************************)
(* Two results about the engine, for every size of blocks and buffers,     *)
(* every packet of the host, cut or whole, and any number of clocks that   *)
(* the core and the link take. What it hands over is taken (HandedOver):   *)
(* that invariant is about the registers of control only, as no count or   *)
(* length decides whether a strobe or a request is taken. And it           *)
(* implements CommandSpec (ImplementsCommands): beside the first, the      *)
(* invariant Data is about the bytes, the predicates of EngineData and     *)
(* the types in Typed.                                                     *)
(***************************************************************************)
EXTENDS EngineData, SequenceLemmas, TLAPS

(* The registers that change field by field.                               *)
ParserAt(a, c, l, n, s, d) == [at |-> a, cmd |-> c, len |-> l, cnt |-> n, shift |-> s, discard |-> d]
FsmAt(a, m, t, i) == [at |-> a, mode |-> m, tag_ref_sent |-> t, idx |-> i]
BuilderAt(a, c, l, v, i, b, s, t, d) ==
    [at |-> a, cmd |-> c, len |-> l, value |-> v, idx |-> i, busy |-> b, sent |-> s, tx_start |-> t, tx_data |-> d]
FsmShaped == \E a, m, t, i : fsm = FsmAt(a, m, t, i)
BuilderShaped == \E a, c, l, v, i, b, s, t, d : builder = BuilderAt(a, c, l, v, i, b, s, t, d)
ParserShaped == \E a, c, l, n, s, d : parsing = ParserAt(a, c, l, n, s, d)
Shaped ==
    /\ ParserShaped
    /\ FsmShaped
    /\ BuilderShaped

(* The parser: what it strobes, and what is asked for because of it. A     *)
(* packet is taken in while nothing else moves.                            *)
ParserStates == {"idle", "GET_LEN", "CHECK_CMD", "PAYLOAD", "SETTLE_0", "SETTLE_1"}
TakingIn == parsing.at \in {"GET_LEN", "CHECK_CMD"} \/ (parsing.at = "PAYLOAD" /\ ~parsing.discard)
Strobing ==
    /\ parsing.at \in ParserStates
    /\ ~strobe.done => strobe.event \in {"none", "LOAD_AAD", "LOAD_PLAINTEXT"}
    /\ strobe.event \in Starts => parsing.at = "SETTLE_0"
    /\ parsing.at \in {"idle", "GET_LEN", "CHECK_CMD", "SETTLE_1"} => strobe = NoStrobe
    /\ parsing.at = "PAYLOAD" /\ ~parsing.discard => parsing.cmd \notin Starts
    /\ TakingIn => ~strobe.done
Asking ==
    /\ TakingIn \/ parsing.at = "idle" \/ strobe.done => ask = <<>>
    /\ TakingIn \/ strobe.done => builder = IdleBuilder
    /\ ask # <<>> => builder = IdleBuilder
    /\ fsm.at # "IDLE" => parsing.at \in {"idle", "SETTLE_1"} /\ ask = <<>>

(* The builder has nothing to do while the FSM is not waiting for it.      *)
Serving == {"START_KEY_IV", "WAIT_AAD_READY", "HOLD_AAD_LAST", "STREAM_AAD", "WAIT_DATA_READY", "HOLD_PT_LAST",
            "STREAM_PT", "WAIT_PIPELINE", "SEND_CT", "SEND_TAG", "SEND_VERIFY"}
Answering == {"WAIT_CT_SENT", "WAIT_TAG_SENT", "WAIT_VERIFY_SENT"}
Building ==
    /\ fsm.at \in Serving \union Answering \union {"IDLE"}
    /\ builder.at \in {"idle", "SEND_BYTE", "WAIT_BUSY", "WAIT_FREE"}
    /\ builder.at # "idle" => builder.busy
    /\ builder.sent => builder.at = "idle"
    /\ fsm.at \in Serving => builder = IdleBuilder
    /\ fsm.at \notin Answering => send = "none"
    /\ send # "none" => builder = IdleBuilder

(* A byte is given to the transmitter when the one before has left.        *)
Sending ==
    /\ builder.at \in {"idle", "SEND_BYTE"} => ~builder.tx_start /\ tx = "free"
    /\ builder.at = "WAIT_BUSY" => IF builder.tx_start THEN tx = "free" ELSE tx \in {"late", "busy"}
    /\ builder.at = "WAIT_FREE" => ~builder.tx_start /\ tx \in {"busy", "free"}

(* The inputs of the core and the state it is in, for each state of the FSM.*)
Opened == {"KEY_EXPANSION", "WAIT_H_CAL", "WAIT_TAG_REF"}
Driving ==
    /\ fsm.at \in Answering \union {"IDLE", "SEND_VERIFY"} => drive.on = {} /\ Current = "IDLE"
    /\ fsm.at = "START_KEY_IV" => drive.on = {"load_key"} /\ Current = "IDLE"
    /\ fsm.at = "WAIT_AAD_READY" =>
           /\ core.IV_loaded
           /\ \/ drive.on = {} /\ Current \in Opened \union {"WAIT_AAD"}
              \/ /\ drive.on = {"load_tag_ref"} /\ Current \in Opened
                 /\ fsm.mode /\ fsm.tag_ref_sent /\ core.tag_ref = <<>>
    /\ fsm.at = "HOLD_AAD_LAST" => drive.on = {"load_AAD", "AAD_last"} /\ Current = "WAIT_AAD"
    /\ fsm.at = "STREAM_AAD" => drive.on = {"load_AAD"} /\ Current \in {"WAIT_AAD", "LOAD_AAD"}
    /\ fsm.at = "WAIT_DATA_READY" =>
           \/ drive.on = {"no_AAD"} /\ Current = "WAIT_AAD"
           \/ drive.on \in {{"load_AAD", "AAD_last"}, {"AAD_last"}} /\ Current = "LOAD_AAD"
           \/ drive.on = {} /\ Current = "WAIT_DATA"
    /\ fsm.at = "HOLD_PT_LAST" => drive.on = {"load_data", "data_in_last"} /\ Current = "WAIT_DATA"
    /\ fsm.at = "STREAM_PT" => drive.on = {"load_data"} /\ Current \in {"WAIT_DATA", "LOAD_DATA"}
    /\ fsm.at = "WAIT_PIPELINE" =>
           \/ drive.on \in {{"load_data", "data_in_last"}, {"data_in_last"}} /\ Current = "LOAD_DATA"
           \/ /\ drive.on \in {{}, {"verify_checked"}}
              /\ Current \in {"WAIT_PROCESS_FINISH", "VERIFY_PASS", "FINISH", "IDLE"}
    /\ fsm.at \in {"SEND_CT", "SEND_TAG"} => drive.on \in {{}, {"verify_checked"}} /\ Current \in {"FINISH", "IDLE"}

(* The tag is there only after the last word, and the verdict is not read  *)
(* before this message has one.                                            *)
Loading == {"WAIT_AAD_READY", "HOLD_AAD_LAST", "STREAM_AAD", "WAIT_DATA_READY", "HOLD_PT_LAST", "STREAM_PT"}
Finishing ==
    /\ fsm.at # "WAIT_PIPELINE" \/ Current \in {"FINISH", "IDLE"} => ~core.last
    /\ core.tag # <<>> => fsm.at = "WAIT_PIPELINE" /\ Current \in {"WAIT_PROCESS_FINISH", "VERIFY_PASS"}
    /\ Current = "VERIFY_PASS" => fsm.mode /\ (capture.captured => "verify_checked" \in drive.on)
    /\ fsm.at \in Loading \/ (fsm.at = "WAIT_PIPELINE" /\ Current \in {"LOAD_DATA", "WAIT_PROCESS_FINISH"})
           => ~capture.captured

EngineInv == Shaped /\ Strobing /\ Asking /\ Building /\ Sending /\ Driving /\ Finishing

-----------------------------------------------------------------------------
LEMMA EngineInvInit == EngineInit => EngineInv
  <1> SUFFICES ASSUME EngineInit PROVE EngineInv
    OBVIOUS
  <1>1. Shaped
    BY DEF EngineInit, Shaped, ParserShaped, FsmShaped, BuilderShaped, ParserAt, FsmAt, BuilderAt, ClearParser, IdleFsm, IdleBuilder
  <1>2. Strobing /\ Asking
    BY DEF EngineInit, Strobing, Asking, TakingIn, ParserStates, NoStrobe, Starts, ClearParser, IdleFsm
  <1>3. Building /\ Sending
    BY DEF EngineInit, Building, Sending, Serving, Answering, IdleFsm, IdleBuilder
  <1>4. Driving /\ Finishing
    BY DEF EngineInit, Driving, Finishing, Loading, Answering, IdleFsm, NoDrive, NoMessageYet, CUInit
  <1> QED BY <1>1, <1>2, <1>3, <1>4 DEF EngineInv
-----------------------------------------------------------------------------
(* One clock of a unit.                                                    *)

(* Only a packet that ends, or a start that is refused, asks for an answer.*)
LEMMA AskClock ==
  ASSUME Strobing, BufferStep
  PROVE  /\ ~strobe.done => ask' = <<>>
         /\ start_requested /\ ~start_refused => ask' = <<>>
         /\ strobe = NoStrobe => ask' = <<>>
  <1>1. /\ "none" \notin Loads \union Starts
        /\ Starts \intersect Loads = {} /\ "LOAD_KEY" \notin Starts
        /\ Starts \intersect {"ERR_UNKNOWN", "ERR_LEN", "ERR_TIMEOUT"} = {}
    BY DEF Loads, Starts, CMD_ACKS
  <1>2. ASSUME ~strobe.done PROVE ask' = <<>>
    <2>1. strobe.event \in {"none", "LOAD_AAD", "LOAD_PLAINTEXT"}
      BY <1>2 DEF Strobing
    <2>2. strobe.event \notin {"ERR_UNKNOWN", "ERR_LEN", "ERR_TIMEOUT"} /\ ~start_refused /\ ~key_len_bad
      BY <2>1 DEF start_refused, start_requested, key_len_bad, Starts
    <2> QED BY <1>2, <2>2 DEF BufferStep
  <1>3. ASSUME start_requested, ~start_refused PROVE ask' = <<>>
    <2>1. strobe.event \in Starts /\ ~key_len_bad
      BY <1>1, <1>3 DEF start_requested, key_len_bad
    <2> QED BY <1>1, <1>3, <2>1 DEF BufferStep
  <1>4. ASSUME strobe = NoStrobe PROVE ask' = <<>>
    BY <1>2, <1>4 DEF NoStrobe
  <1> QED BY <1>2, <1>3, <1>4

(* Without a request the builder rests.                                    *)
LEMMA BuilderRests ==
  ASSUME builder.at = "idle", ask = <<>>, send = "none", BuilderStep
  PROVE  builder' = IdleBuilder
  BY DEF BuilderStep, Idling, SendByte, WaitBusy, WaitFree

(* A byte of the packet is taken only while the engine is ready.           *)
LEMMA ParserMoves ==
  ASSUME Shaped, NEW o \in BOOLEAN, ParserStep(o)
  PROVE  /\ ParserShaped'
         /\ \/ parsing.at = "idle" /\ ~engine_ready /\ parsing'.at = "idle" /\ strobe' = NoStrobe
            \/ parsing.at = "idle" /\ engine_ready /\ parsing'.at \in {"idle", "GET_LEN"} /\ strobe' = NoStrobe
            \/ parsing.at = "GET_LEN" /\ parsing'.at \in {"GET_LEN", "CHECK_CMD"} /\ strobe' = NoStrobe
            \/ /\ parsing.at = "CHECK_CMD" /\ ~LengthOk(parsing.cmd, parsing.len)
               /\ parsing'.at \in {"SETTLE_0", "PAYLOAD"} /\ parsing'.discard
               /\ strobe'.done /\ strobe'.event \in {"ERR_LEN", "ERR_UNKNOWN"}
            \/ /\ parsing.at = "CHECK_CMD" /\ LengthOk(parsing.cmd, parsing.len) /\ parsing.len = 0
               /\ parsing'.at = "SETTLE_0" /\ strobe'.done
            \/ /\ parsing.at = "CHECK_CMD" /\ LengthOk(parsing.cmd, parsing.len) /\ parsing.len > 0
               /\ parsing'.at = "PAYLOAD" /\ parsing'.cmd = parsing.cmd /\ parsing'.discard = parsing.discard
               /\ strobe' = NoStrobe
            \/ /\ parsing.at = "PAYLOAD" /\ ~parsing.discard
               /\ parsing'.cmd = parsing.cmd /\ parsing'.discard = parsing.discard
               /\ \/ strobe' = NoStrobe /\ parsing'.at = "PAYLOAD"
                  \/ /\ strobe'.event = parsing.cmd
                     /\ strobe'.done \/ (~strobe'.done /\ parsing.cmd \in {"LOAD_AAD", "LOAD_PLAINTEXT"})
                     /\ parsing'.at = IF strobe'.done THEN "SETTLE_0" ELSE "PAYLOAD"
            \/ /\ parsing.at = "PAYLOAD" /\ parsing.discard /\ parsing'.discard
               /\ parsing'.at \in {"PAYLOAD", "SETTLE_0"} /\ strobe' = NoStrobe
            \/ parsing.at = "SETTLE_0" /\ parsing'.at = "SETTLE_1" /\ strobe' = NoStrobe
            \/ parsing.at = "SETTLE_1" /\ parsing'.at = "idle" /\ strobe' = NoStrobe
            \/ /\ parsing.at \in {"GET_LEN", "PAYLOAD"} /\ Expires
               /\ parsing'.at = "SETTLE_0" /\ strobe'.done /\ strobe'.event = "ERR_TIMEOUT"
  <1> DEFINE ok == LengthOk(parsing.cmd, parsing.len)
             error(e) == [event |-> e, value |-> parsing.cmd, done |-> TRUE]
  <1>1. PICK a, c, l, n, s, d : parsing = ParserAt(a, c, l, n, s, d)
    BY DEF Shaped, ParserShaped
  <1>2. /\ parsing.at = a /\ parsing.cmd = c /\ parsing.len = l /\ parsing.cnt = n /\ parsing.discard = d
        /\ \A x : At(x) = ParserAt(x, c, l, n, s, d)
    BY <1>1 DEF ParserAt, At
  <1>20. ASSUME NEW x, NEW y, NEW z, NEW u, NEW v, NEW w, parsing' = ParserAt(x, y, z, u, v, w)
         PROVE  ParserShaped'
    BY <1>20 DEF ParserShaped
  <1>3. CASE parsing.at = "idle"
    <2>1. \/ parsing' = ClearParser /\ strobe' = NoStrobe
          \/ engine_ready /\ parsing' = [ClearParser EXCEPT !.at = "GET_LEN", !.cmd = Head(line)] /\ strobe' = NoStrobe
      BY <1>3 DEF ParserStep, Parse, rx_valid
    <2>2. ClearParser = ParserAt("idle", "none", 0, 0, <<>>, FALSE)
      BY DEF ClearParser, ParserAt
    <2>3. CASE parsing' = ClearParser /\ strobe' = NoStrobe
      <3>1. ParserShaped' /\ parsing'.at = "idle"
        BY <1>20, <2>2, <2>3 DEF ParserAt
      <3> QED BY <1>3, <2>3, <3>1
    <2>4. CASE engine_ready /\ parsing' = [ClearParser EXCEPT !.at = "GET_LEN", !.cmd = Head(line)] /\ strobe' = NoStrobe
      <3>1. parsing' = ParserAt("GET_LEN", Head(line), 0, 0, <<>>, FALSE)
        BY <2>4 DEF ClearParser, ParserAt
      <3>2. ParserShaped' /\ parsing'.at = "GET_LEN"
        BY <1>20, <3>1 DEF ParserAt
      <3> QED BY <1>3, <2>4, <3>2
    <2> QED BY <2>1, <2>3, <2>4
  <1>4. CASE parsing.at = "GET_LEN"
    <2>1. \/ parsing' = [At("CHECK_CMD") EXCEPT !.len = Head(line)] /\ strobe' = NoStrobe
          \/ Expires /\ parsing' = At("SETTLE_0") /\ strobe' = error("ERR_TIMEOUT")
          \/ parsing' = parsing /\ strobe' = NoStrobe
      BY <1>4 DEF ParserStep, Parse
    <2>2. CASE parsing' = [At("CHECK_CMD") EXCEPT !.len = Head(line)] /\ strobe' = NoStrobe
      <3>1. parsing' = ParserAt("CHECK_CMD", c, Head(line), n, s, d)
        BY <1>2, <2>2 DEF ParserAt
      <3>2. ParserShaped' /\ parsing'.at = "CHECK_CMD"
        BY <1>20, <3>1 DEF ParserAt
      <3> QED BY <1>4, <2>2, <3>2
    <2>3. CASE Expires /\ parsing' = At("SETTLE_0") /\ strobe' = error("ERR_TIMEOUT")
      <3>1. parsing' = ParserAt("SETTLE_0", c, l, n, s, d)
        BY <1>2, <2>3
      <3>2. ParserShaped' /\ parsing'.at = "SETTLE_0" /\ strobe'.done /\ strobe'.event = "ERR_TIMEOUT"
        BY <1>20, <2>3, <3>1 DEF ParserAt
      <3> QED BY <1>4, <2>3, <3>2
    <2>4. CASE parsing' = parsing /\ strobe' = NoStrobe
      BY <1>1, <1>4, <1>20, <2>4
    <2> QED BY <2>1, <2>2, <2>3, <2>4
  <1>5. CASE parsing.at = "CHECK_CMD"
    <2>1. \/ /\ ~ok /\ parsing' = [At(IF parsing.len = 0 THEN "SETTLE_0" ELSE "PAYLOAD") EXCEPT !.discard = TRUE]
             /\ strobe' = error(IF Known(parsing.cmd) THEN "ERR_LEN" ELSE "ERR_UNKNOWN")
          \/ ok /\ parsing.len = 0 /\ parsing' = At("SETTLE_0") /\ strobe' = [event |-> parsing.cmd, value |-> <<>>, done |-> TRUE]
          \/ ok /\ parsing.len > 0 /\ parsing' = At("PAYLOAD") /\ strobe' = NoStrobe
      BY <1>5 DEF ParserStep, Parse
    <2>2. CASE ~ok /\ parsing' = [At(IF parsing.len = 0 THEN "SETTLE_0" ELSE "PAYLOAD") EXCEPT !.discard = TRUE]
               /\ strobe' = error(IF Known(parsing.cmd) THEN "ERR_LEN" ELSE "ERR_UNKNOWN")
      <3>1. parsing' = ParserAt(IF parsing.len = 0 THEN "SETTLE_0" ELSE "PAYLOAD", c, l, n, s, TRUE)
        BY <1>2, <2>2 DEF ParserAt
      <3>2. /\ ParserShaped'
            /\ parsing'.at \in {"SETTLE_0", "PAYLOAD"} /\ parsing'.discard
            /\ strobe'.done /\ strobe'.event \in {"ERR_LEN", "ERR_UNKNOWN"}
        BY <1>20, <2>2, <3>1 DEF ParserAt
      <3> QED BY <1>5, <2>2, <3>2
    <2>3. CASE ok /\ parsing.len = 0 /\ parsing' = At("SETTLE_0") /\ strobe' = [event |-> parsing.cmd, value |-> <<>>, done |-> TRUE]
      <3>1. parsing' = ParserAt("SETTLE_0", c, l, n, s, d)
        BY <1>2, <2>3
      <3>2. ParserShaped' /\ parsing'.at = "SETTLE_0" /\ strobe'.done
        BY <1>20, <2>3, <3>1 DEF ParserAt
      <3> QED BY <1>5, <2>3, <3>2
    <2>4. CASE ok /\ parsing.len > 0 /\ parsing' = At("PAYLOAD") /\ strobe' = NoStrobe
      <3>1. parsing' = ParserAt("PAYLOAD", c, l, n, s, d)
        BY <1>2, <2>4
      <3>2. ParserShaped' /\ parsing'.at = "PAYLOAD" /\ parsing'.cmd = parsing.cmd /\ parsing'.discard = parsing.discard
        BY <1>20, <1>2, <3>1 DEF ParserAt
      <3> QED BY <1>5, <2>4, <3>2
    <2> QED BY <2>1, <2>2, <2>3, <2>4
  <1>6. CASE parsing.at = "PAYLOAD"
    <2>1. CASE ~parsing.discard /\ Payload(Head(line))
      <3> DEFINE value == Append(parsing.shift, Head(line))
                 whole == Ends \/ (parsing.cmd \in {"LOAD_AAD", "LOAD_PLAINTEXT"} /\ Len(value) = BlockBytes)
                 shift == IF whole THEN <<>> ELSE value
      <3>1. parsing' = [parsing EXCEPT !.at = IF Ends THEN "SETTLE_0" ELSE @, !.cnt = @ + 1, !.shift = shift]
        BY <2>1 DEF Payload
      <3>2. strobe' = IF whole THEN [event |-> parsing.cmd, value |-> value, done |-> Ends] ELSE NoStrobe
        BY <2>1 DEF Payload
      <3> HIDE DEF shift
      <3>3. parsing' = ParserAt(IF Ends THEN "SETTLE_0" ELSE "PAYLOAD", c, l, n + 1, shift, d)
        BY <1>1, <1>2, <1>6, <3>1 DEF ParserAt
      <3>4. /\ ParserShaped'
            /\ parsing'.at = IF Ends THEN "SETTLE_0" ELSE "PAYLOAD"
            /\ parsing'.cmd = parsing.cmd /\ parsing'.discard = parsing.discard
        BY <1>2, <1>20, <3>3 DEF ParserAt
      <3> HIDE DEF value
      <3>5. CASE Ends
        <4>1. strobe'.event = parsing.cmd /\ strobe'.done
          BY <3>2, <3>5
        <4> QED BY <1>6, <2>1, <3>4, <3>5, <4>1
      <3>6. CASE ~Ends /\ whole
        <4>1. strobe'.event = parsing.cmd /\ ~strobe'.done /\ parsing.cmd \in {"LOAD_AAD", "LOAD_PLAINTEXT"}
          BY <3>2, <3>6
        <4> QED BY <1>6, <2>1, <3>4, <3>6, <4>1
      <3>7. CASE ~Ends /\ ~whole
        <4>1. strobe' = NoStrobe
          BY <3>2, <3>7
        <4> QED BY <1>6, <2>1, <3>4, <3>7, <4>1
      <3> QED BY <3>5, <3>6, <3>7
    <2>2. CASE parsing.discard /\ parsing' = [At(IF Ends THEN "SETTLE_0" ELSE "PAYLOAD") EXCEPT !.cnt = @ + 1] /\ strobe' = NoStrobe
      <3>1. parsing' = ParserAt(IF Ends THEN "SETTLE_0" ELSE "PAYLOAD", c, l, n + 1, s, d)
        BY <1>2, <2>2 DEF ParserAt
      <3>2. ParserShaped' /\ parsing'.at \in {"SETTLE_0", "PAYLOAD"} /\ parsing'.discard = parsing.discard
        BY <1>20, <1>2, <3>1 DEF ParserAt
      <3> QED BY <1>6, <2>2, <3>2
    <2>3. CASE Expires /\ parsing' = At("SETTLE_0") /\ strobe' = error("ERR_TIMEOUT")
      <3>1. parsing' = ParserAt("SETTLE_0", c, l, n, s, d)
        BY <1>2, <2>3
      <3>2. ParserShaped' /\ parsing'.at = "SETTLE_0" /\ strobe'.done /\ strobe'.event = "ERR_TIMEOUT"
        BY <1>20, <2>3, <3>1 DEF ParserAt
      <3> QED BY <1>6, <2>3, <3>2
    <2>4. CASE parsing' = parsing /\ strobe' = NoStrobe
      BY <1>1, <1>6, <1>20, <2>4
    <2>5. \/ ~parsing.discard /\ Payload(Head(line))
          \/ parsing.discard /\ parsing' = [At(IF Ends THEN "SETTLE_0" ELSE "PAYLOAD") EXCEPT !.cnt = @ + 1] /\ strobe' = NoStrobe
          \/ Expires /\ parsing' = At("SETTLE_0") /\ strobe' = error("ERR_TIMEOUT")
          \/ parsing' = parsing /\ strobe' = NoStrobe
      BY <1>6 DEF ParserStep, Parse
    <2> QED BY <2>1, <2>2, <2>3, <2>4, <2>5
  <1>7. CASE parsing.at = "SETTLE_0"
    <2>1. parsing' = ParserAt("SETTLE_1", c, l, n, s, d) /\ strobe' = NoStrobe
      BY <1>2, <1>7 DEF ParserStep, Parse
    <2>2. ParserShaped' /\ parsing'.at = "SETTLE_1"
      BY <1>20, <2>1 DEF ParserAt
    <2> QED BY <1>7, <2>1, <2>2
  <1>8. CASE parsing.at = "SETTLE_1"
    <2>1. parsing' = ParserAt("idle", "none", 0, 0, <<>>, FALSE) /\ strobe' = NoStrobe
      BY <1>8 DEF ParserStep, Parse, ClearParser, ParserAt
    <2>2. ParserShaped' /\ parsing'.at = "idle"
      BY <1>20, <2>1 DEF ParserAt
    <2> QED BY <1>8, <2>1, <2>2
  <1>9. parsing.at \in ParserStates
    BY DEF ParserStep, Parse, ParserStates
  <1> QED BY <1>3, <1>4, <1>5, <1>6, <1>7, <1>8, <1>9 DEF ParserStates

(* One transition: nothing is asked of the builder, the direction stays.   *)
Move(from, to, on) ==
    /\ fsm.at = from /\ fsm'.at = to /\ fsm'.mode = fsm.mode
    /\ drive'.on = on /\ send' = "none"
MoveAsking(from, to) ==
    fsm.at = from /\ fsm'.at = to /\ fsm'.mode = fsm.mode /\ drive'.on = {}

(* The transitions of the FSM with the inputs of the core they raise.      *)
FsmMove ==
    \/ ~(start_requested /\ ~start_refused) /\ Move("IDLE", "IDLE", {})
    \/ /\ start_requested /\ ~start_refused /\ fsm.at = "IDLE" /\ fsm'.at = "START_KEY_IV"
       /\ drive'.on = {"load_key"} /\ send' = "none"
    \/ Move("START_KEY_IV", "WAIT_AAD_READY", {})
    \/ SendsTagRef /\ Move("WAIT_AAD_READY", "WAIT_AAD_READY", {"load_tag_ref"}) /\ fsm'.tag_ref_sent
    \/ ~AAD_ready /\ Move("WAIT_AAD_READY", "WAIT_AAD_READY", {})
    \/ AAD_ready /\ Move("WAIT_AAD_READY", "WAIT_DATA_READY", {"no_AAD"})
    \/ AAD_ready /\ Move("WAIT_AAD_READY", "HOLD_AAD_LAST", {"load_AAD", "AAD_last"})
    \/ AAD_ready /\ Move("WAIT_AAD_READY", "STREAM_AAD", {"load_AAD"})
    \/ Move("STREAM_AAD", "STREAM_AAD", {"load_AAD"})
    \/ Move("STREAM_AAD", "WAIT_DATA_READY", {"load_AAD", "AAD_last"})
    \/ Move("HOLD_AAD_LAST", "WAIT_DATA_READY", {"AAD_last"})
    \/ ~data_ready(FALSE) /\ Move("WAIT_DATA_READY", "WAIT_DATA_READY", {})
    \/ data_ready(FALSE) /\ Move("WAIT_DATA_READY", "HOLD_PT_LAST", {"load_data", "data_in_last"})
    \/ data_ready(FALSE) /\ Move("WAIT_DATA_READY", "STREAM_PT", {"load_data"})
    \/ Move("STREAM_PT", "STREAM_PT", {"load_data"})
    \/ Move("STREAM_PT", "WAIT_PIPELINE", {"load_data", "data_in_last"})
    \/ Move("HOLD_PT_LAST", "WAIT_PIPELINE", {"data_in_last"})
    \/ \E to \in {"WAIT_PIPELINE", "SEND_TAG", "SEND_CT"} :
           /\ to = "WAIT_PIPELINE" \/ capture.captured
           /\ Move("WAIT_PIPELINE", to, IF fsm.mode /\ verify_done THEN {"verify_checked"} ELSE {})
    \/ MoveAsking("SEND_CT", "WAIT_CT_SENT")
    \/ ~builder.sent /\ Move("WAIT_CT_SENT", "WAIT_CT_SENT", {})
    \/ builder.sent /\ Move("WAIT_CT_SENT", "SEND_TAG", {})
    \/ MoveAsking("SEND_TAG", "WAIT_TAG_SENT")
    \/ ~builder.sent /\ Move("WAIT_TAG_SENT", "WAIT_TAG_SENT", {})
    \/ builder.sent /\ Move("WAIT_TAG_SENT", "SEND_VERIFY", {})
    \/ MoveAsking("SEND_VERIFY", "WAIT_VERIFY_SENT")
    \/ ~builder.sent /\ Move("WAIT_VERIFY_SENT", "WAIT_VERIFY_SENT", {})
    \/ /\ fsm.at \in {"WAIT_TAG_SENT", "WAIT_VERIFY_SENT"} /\ builder.sent
       /\ fsm'.at = "IDLE" /\ drive'.on = {} /\ send' = "none"

LEMMA FsmMoves ==
  ASSUME Shaped, FsmStep
  PROVE  FsmShaped' /\ FsmMove
  <1>1. PICK a, m, t, i : fsm = FsmAt(a, m, t, i)
    BY DEF Shaped, FsmShaped
  <1>2. fsm.at = a /\ fsm.mode = m
    BY <1>1 DEF FsmAt
  <1>3. ASSUME NEW x, NEW y, fsm' = [fsm EXCEPT !.at = x, !.idx = y]
        PROVE  FsmShaped' /\ fsm'.at = x /\ fsm'.mode = fsm.mode
    <2>1. fsm' = FsmAt(x, m, t, y)
      BY <1>1, <1>3 DEF FsmAt
    <2> QED BY <1>2, <2>1 DEF FsmAt, FsmShaped
  <1>4. ASSUME NEW x, fsm' = Goto(x)
        PROVE  FsmShaped' /\ fsm'.at = x /\ fsm'.mode = fsm.mode
    <2>1. fsm' = FsmAt(x, m, t, i)
      BY <1>1, <1>4 DEF FsmAt, Goto
    <2> QED BY <1>2, <2>1 DEF FsmAt, FsmShaped
  <1>5. ASSUME NEW y, fsm' = [fsm EXCEPT !.idx = y]
        PROVE  FsmShaped' /\ fsm'.at = fsm.at /\ fsm'.mode = fsm.mode
    <2>1. fsm' = FsmAt(a, m, t, y)
      BY <1>1, <1>5 DEF FsmAt
    <2> QED BY <1>2, <2>1 DEF FsmAt, FsmShaped
  <1>6. ASSUME fsm' = [fsm EXCEPT !.tag_ref_sent = TRUE]
        PROVE  FsmShaped' /\ fsm'.at = fsm.at /\ fsm'.mode = fsm.mode /\ fsm'.tag_ref_sent
    <2>1. fsm' = FsmAt(a, m, TRUE, i)
      BY <1>1, <1>6 DEF FsmAt
    <2> QED BY <1>2, <2>1 DEF FsmAt, FsmShaped
  <1>7. ASSUME NEW x, NEW y, fsm' = [at |-> x, mode |-> y, tag_ref_sent |-> FALSE, idx |-> 0]
        PROVE  FsmShaped' /\ fsm'.at = x
    BY <1>7 DEF FsmAt, FsmShaped
  <1>8. ASSUME NEW from, NEW condition, NEW x, NEW on, NEW word, Orchestrate(from, condition, Goto(x), on, word)
        PROVE  FsmShaped' /\ condition /\ Move(from, x, on)
    <2>1. fsm' = Goto(x) /\ fsm.at = from /\ condition /\ send' = "none" /\ drive' = [on |-> on, word |-> word]
      BY <1>8 DEF Orchestrate
    <2> QED BY <1>4, <2>1 DEF Move
  <1>9. ASSUME NEW from, NEW condition, NEW x, Silent(from, condition, x)
        PROVE  FsmShaped' /\ condition /\ Move(from, x, {})
    BY <1>8, <1>9 DEF Silent
  <1>10. ASSUME NEW from, NEW response, NEW x, Request(from, response, x)
         PROVE  FsmShaped' /\ MoveAsking(from, x)
    <2>1. fsm' = Goto(x) /\ fsm.at = from /\ drive' = NoDrive
      BY <1>10 DEF Request
    <2> QED BY <1>4, <2>1 DEF MoveAsking, NoDrive
  <1>11. ASSUME NEW blocks, NEW from, NEW load, NEW last, NEW hold, NEW to, Stream(blocks, from, load, last, hold, to)
         PROVE  /\ FsmShaped'
                /\ Move(from, from, {load}) \/ Move(from, to, {load, last}) \/ Move(hold, to, {last})
    <2>1. \/ /\ fsm.at = from /\ send' = "none" /\ fsm' = [fsm EXCEPT !.idx = fsm.idx + 1]
             /\ drive' = [on |-> {load}, word |-> Slot(blocks, fsm.idx)]
          \/ /\ fsm.at = from /\ send' = "none" /\ fsm' = [fsm EXCEPT !.at = to, !.idx = 0]
             /\ drive' = [on |-> {load, last}, word |-> Slot(blocks, fsm.idx)]
          \/ /\ fsm.at = hold /\ send' = "none" /\ fsm' = Goto(to)
             /\ drive' = [on |-> {last}, word |-> <<>>]
      BY <1>11 DEF Stream, Orchestrate
    <2>2. CASE fsm.at = from /\ fsm' = [fsm EXCEPT !.idx = fsm.idx + 1] /\ drive'.on = {load} /\ send' = "none"
      BY <1>5, <2>2 DEF Move
    <2>3. CASE fsm.at = from /\ fsm' = [fsm EXCEPT !.at = to, !.idx = 0] /\ drive'.on = {load, last} /\ send' = "none"
      BY <1>3, <2>3 DEF Move
    <2>4. CASE fsm.at = hold /\ fsm' = Goto(to) /\ drive'.on = {last} /\ send' = "none"
      BY <1>4, <2>4 DEF Move
    <2> QED BY <2>1, <2>2, <2>3, <2>4
  <1>12. ASSUME NEW blocks, NEW from, NEW ready, NEW load, NEW last, NEW hold, NEW stream,
                First(blocks, from, ready, load, last, hold, stream)
         PROVE  FsmShaped' /\ ready /\ (Move(from, hold, {load, last}) \/ Move(from, stream, {load}))
    <2>1. \/ /\ fsm.at = from /\ ready /\ send' = "none" /\ fsm' = Goto(hold)
             /\ drive' = [on |-> {load, last}, word |-> Slot(blocks, 0)]
          \/ /\ fsm.at = from /\ ready /\ send' = "none" /\ fsm' = [fsm EXCEPT !.at = stream, !.idx = 1]
             /\ drive' = [on |-> {load}, word |-> Slot(blocks, 0)]
      BY <1>12 DEF First, Orchestrate
    <2>2. CASE /\ fsm.at = from /\ ready /\ fsm' = [fsm EXCEPT !.at = stream, !.idx = 1]
               /\ drive'.on = {load} /\ send' = "none"
      BY <1>3, <2>2 DEF Move
    <2>3. CASE fsm.at = from /\ ready /\ fsm' = Goto(hold) /\ drive'.on = {load, last} /\ send' = "none"
      BY <1>4, <2>3 DEF Move
    <2> QED BY <2>1, <2>2, <2>3
  <1>20. CASE Silent("IDLE", ~start_requested \/ start_refused, "IDLE")
    BY <1>9, <1>20 DEF FsmMove
  <1>21. CASE Orchestrate("IDLE", start_requested /\ ~start_refused,
                 [at |-> "START_KEY_IV", mode |-> strobe.event = "START_DECRYPT", tag_ref_sent |-> FALSE, idx |-> 0],
                 {"load_key"}, <<regs.key, regs.iv>>)
    <2> DEFINE decrypt == strobe.event = "START_DECRYPT"
    <2>1. /\ start_requested /\ ~start_refused /\ fsm.at = "IDLE" /\ send' = "none" /\ drive'.on = {"load_key"}
          /\ fsm' = [at |-> "START_KEY_IV", mode |-> decrypt, tag_ref_sent |-> FALSE, idx |-> 0]
      BY <1>21 DEF Orchestrate
    <2> HIDE DEF decrypt
    <2> QED BY <1>7, <2>1 DEF FsmMove
  <1>22. CASE Silent("START_KEY_IV", TRUE, "WAIT_AAD_READY")
    BY <1>9, <1>22 DEF FsmMove
  <1>23. CASE Orchestrate("WAIT_AAD_READY", SendsTagRef, [fsm EXCEPT !.tag_ref_sent = TRUE], {"load_tag_ref"}, <<>>)
    <2>1. /\ SendsTagRef /\ fsm.at = "WAIT_AAD_READY" /\ send' = "none" /\ drive'.on = {"load_tag_ref"}
          /\ fsm' = [fsm EXCEPT !.tag_ref_sent = TRUE]
      BY <1>23 DEF Orchestrate
    <2> QED BY <1>6, <2>1 DEF FsmMove, Move
  <1>24. CASE Silent("WAIT_AAD_READY", ~SendsTagRef /\ ~AAD_ready, "WAIT_AAD_READY")
    BY <1>9, <1>24 DEF FsmMove
  <1>25. CASE Orchestrate("WAIT_AAD_READY", AAD_ready /\ regs.aad = <<>>, Goto("WAIT_DATA_READY"), {"no_AAD"}, <<>>)
    <2>1. FsmShaped' /\ AAD_ready /\ Move("WAIT_AAD_READY", "WAIT_DATA_READY", {"no_AAD"})
      BY <1>8, <1>25
    <2> QED BY <2>1 DEF FsmMove
  <1>26. CASE First(regs.aad, "WAIT_AAD_READY", AAD_ready /\ regs.aad # <<>>, "load_AAD", "AAD_last", "HOLD_AAD_LAST", "STREAM_AAD")
    <2>1. /\ FsmShaped' /\ AAD_ready
          /\ \/ Move("WAIT_AAD_READY", "HOLD_AAD_LAST", {"load_AAD", "AAD_last"})
             \/ Move("WAIT_AAD_READY", "STREAM_AAD", {"load_AAD"})
      BY <1>12, <1>26
    <2> QED BY <2>1 DEF FsmMove
  <1>27. CASE Stream(regs.aad, "STREAM_AAD", "load_AAD", "AAD_last", "HOLD_AAD_LAST", "WAIT_DATA_READY")
    <2>1. /\ FsmShaped'
          /\ \/ Move("STREAM_AAD", "STREAM_AAD", {"load_AAD"})
             \/ Move("STREAM_AAD", "WAIT_DATA_READY", {"load_AAD", "AAD_last"})
             \/ Move("HOLD_AAD_LAST", "WAIT_DATA_READY", {"AAD_last"})
      BY <1>11, <1>27
    <2> QED BY <2>1 DEF FsmMove
  <1>28. CASE Silent("WAIT_DATA_READY", ~data_ready(FALSE), "WAIT_DATA_READY")
    BY <1>9, <1>28 DEF FsmMove
  <1>29. CASE First(regs.pt, "WAIT_DATA_READY", data_ready(FALSE), "load_data", "data_in_last", "HOLD_PT_LAST", "STREAM_PT")
    <2>1. /\ FsmShaped' /\ data_ready(FALSE)
          /\ \/ Move("WAIT_DATA_READY", "HOLD_PT_LAST", {"load_data", "data_in_last"})
             \/ Move("WAIT_DATA_READY", "STREAM_PT", {"load_data"})
      BY <1>12, <1>29
    <2> QED BY <2>1 DEF FsmMove
  <1>30. CASE Stream(regs.pt, "STREAM_PT", "load_data", "data_in_last", "HOLD_PT_LAST", "WAIT_PIPELINE")
    <2>1. /\ FsmShaped'
          /\ \/ Move("STREAM_PT", "STREAM_PT", {"load_data"})
             \/ Move("STREAM_PT", "WAIT_PIPELINE", {"load_data", "data_in_last"})
             \/ Move("HOLD_PT_LAST", "WAIT_PIPELINE", {"data_in_last"})
      BY <1>11, <1>30
    <2> QED BY <2>1 DEF FsmMove
  <1>31. CASE Orchestrate("WAIT_PIPELINE", TRUE,
                 Goto(IF ~PipelineDone THEN "WAIT_PIPELINE"
                      ELSE IF fsm.mode /\ ~capture.pass THEN "SEND_TAG" ELSE "SEND_CT"),
                 IF fsm.mode /\ verify_done THEN {"verify_checked"} ELSE {}, <<>>)
    <2> DEFINE to == IF ~PipelineDone THEN "WAIT_PIPELINE" ELSE IF fsm.mode /\ ~capture.pass THEN "SEND_TAG" ELSE "SEND_CT"
               on == IF fsm.mode /\ verify_done THEN {"verify_checked"} ELSE {}
    <2>1. FsmShaped' /\ Move("WAIT_PIPELINE", to, on)
      BY <1>8, <1>31
    <2>2. to \in {"WAIT_PIPELINE", "SEND_TAG", "SEND_CT"} /\ (to = "WAIT_PIPELINE" \/ capture.captured)
      BY DEF PipelineDone
    <2> HIDE DEF to
    <2> QED BY <2>1, <2>2 DEF FsmMove
  <1>32. CASE Request("SEND_CT", "CIPHERTEXT", "WAIT_CT_SENT")
    BY <1>10, <1>32 DEF FsmMove
  <1>33. CASE Silent("WAIT_CT_SENT", TRUE, IF builder.sent THEN "SEND_TAG" ELSE "WAIT_CT_SENT")
    <2>1. FsmShaped' /\ Move("WAIT_CT_SENT", IF builder.sent THEN "SEND_TAG" ELSE "WAIT_CT_SENT", {})
      BY <1>9, <1>33
    <2> QED BY <2>1 DEF FsmMove
  <1>34. CASE Request("SEND_TAG", "AUTH_TAG", "WAIT_TAG_SENT")
    BY <1>10, <1>34 DEF FsmMove
  <1>35. CASE Silent("WAIT_TAG_SENT", ~builder.sent, "WAIT_TAG_SENT")
    BY <1>9, <1>35 DEF FsmMove
  <1>36. CASE Silent("WAIT_TAG_SENT", builder.sent /\ fsm.mode, "SEND_VERIFY")
    <2>1. FsmShaped' /\ builder.sent /\ Move("WAIT_TAG_SENT", "SEND_VERIFY", {})
      BY <1>9, <1>36
    <2> QED BY <2>1 DEF FsmMove
  <1>37. CASE Request("SEND_VERIFY", "VERIFY_RESULT", "WAIT_VERIFY_SENT")
    BY <1>10, <1>37 DEF FsmMove
  <1>38. CASE Silent("WAIT_VERIFY_SENT", ~builder.sent, "WAIT_VERIFY_SENT")
    BY <1>9, <1>38 DEF FsmMove
  <1>39. CASE Orchestrate(fsm.at, message_done, IdleFsm, {}, <<>>)
    <2>1. message_done /\ fsm' = FsmAt("IDLE", FALSE, FALSE, 0) /\ drive'.on = {} /\ send' = "none"
      BY <1>39 DEF Orchestrate, IdleFsm, FsmAt
    <2>2. fsm'.at = "IDLE" /\ FsmShaped'
      BY <2>1 DEF FsmAt, FsmShaped
    <2>3. fsm.at \in {"WAIT_TAG_SENT", "WAIT_VERIFY_SENT"} /\ builder.sent
      BY <2>1 DEF message_done
    <2> QED BY <2>1, <2>2, <2>3 DEF FsmMove
  <1> QED BY <1>20, <1>21, <1>22, <1>23, <1>24, <1>25, <1>26, <1>27, <1>28, <1>29, <1>30, <1>31, <1>32, <1>33, <1>34,
             <1>35, <1>36, <1>37, <1>38, <1>39 DEF FsmStep

(* A clock of the builder: it goes round once for each byte.               *)
BuilderMove ==
    \/ builder.at = "idle" /\ ask = <<>> /\ send = "none" /\ builder' = IdleBuilder
    \/ /\ builder.at = "idle" /\ (ask # <<>> \/ send # "none")
       /\ builder'.at = "SEND_BYTE" /\ builder'.busy /\ ~builder'.sent /\ ~builder'.tx_start
    \/ /\ builder.at \in {"SEND_BYTE", "WAIT_BUSY", "WAIT_FREE"}
       /\ builder'.busy = builder.busy /\ builder'.sent = builder.sent
       /\ \/ builder.at = "SEND_BYTE" /\ tx_busy /\ builder'.at = "SEND_BYTE" /\ ~builder'.tx_start
          \/ builder.at = "SEND_BYTE" /\ ~tx_busy /\ builder'.at = "WAIT_BUSY" /\ builder'.tx_start
          \/ builder.at = "WAIT_BUSY" /\ tx_busy /\ builder'.at = "WAIT_FREE" /\ ~builder'.tx_start
          \/ builder.at = "WAIT_BUSY" /\ ~tx_busy /\ builder'.at = "WAIT_BUSY" /\ ~builder'.tx_start
          \/ builder.at = "WAIT_FREE" /\ tx_busy /\ builder'.at = "WAIT_FREE" /\ builder'.tx_start = builder.tx_start
          \/ builder.at = "WAIT_FREE" /\ ~tx_busy /\ builder'.at = "SEND_BYTE" /\ builder'.tx_start = builder.tx_start
    \/ builder.at = "WAIT_FREE" /\ ~tx_busy /\ builder'.at = "idle" /\ ~builder'.tx_start

LEMMA BuilderMoves ==
  ASSUME Shaped, BuilderStep
  PROVE  BuilderShaped' /\ BuilderMove
  <1>1. PICK a, c, l, v, i, b, s, t, d : builder = BuilderAt(a, c, l, v, i, b, s, t, d)
    BY DEF Shaped, BuilderShaped
  <1>2. builder.at = a /\ builder.busy = b /\ builder.sent = s /\ builder.tx_start = t
    BY <1>1 DEF BuilderAt
  <1>3. ASSUME NEW a1, NEW c1, NEW l1, NEW v1, NEW i1, NEW b1, NEW s1, NEW t1, NEW d1,
               builder' = BuilderAt(a1, c1, l1, v1, i1, b1, s1, t1, d1)
        PROVE  /\ BuilderShaped'
               /\ builder'.at = a1 /\ builder'.busy = b1 /\ builder'.sent = s1 /\ builder'.tx_start = t1
    BY <1>3 DEF BuilderAt, BuilderShaped
  <1>4. CASE Idling
    <2>1. ASSUME NEW response, NEW length, NEW value, Asked(response, length, value)
          PROVE  /\ BuilderShaped'
                 /\ builder'.at = "SEND_BYTE" /\ builder'.busy /\ ~builder'.sent /\ ~builder'.tx_start
      <3>1. builder' = BuilderAt("SEND_BYTE", response, length, value, 0, TRUE, FALSE, FALSE, <<>>)
        BY <2>1 DEF Asked, IdleBuilder, BuilderAt
      <3>2. BuilderShaped'
        BY <1>3, <3>1, Zenon
      <3>3. builder'.at = "SEND_BYTE" /\ builder'.busy /\ ~builder'.sent /\ ~builder'.tx_start
        BY <3>1 DEF BuilderAt
      <3> QED BY <3>2, <3>3
    <2>2. CASE ask = <<>> /\ send = "none" /\ builder' = IdleBuilder
      <3>1. builder' = BuilderAt("idle", "none", 0, <<>>, 0, FALSE, FALSE, FALSE, <<>>)
        BY <2>2 DEF IdleBuilder, BuilderAt
      <3> QED BY <1>3, <1>4, <2>2, <3>1 DEF BuilderMove, Idling
    <2>3. CASE /\ ask # <<>> \/ send # "none"
               /\ \E response, length, value : Asked(response, length, value)
      BY <1>4, <2>1, <2>3 DEF BuilderMove, Idling
    <2> QED BY <1>4, <2>2, <2>3 DEF Idling
  <1>5. CASE SendByte
    <2>1. CASE tx_busy
      <3>1. builder' = BuilderAt(a, c, l, v, i, b, s, FALSE, <<>>)
        BY <1>1, <1>5, <2>1 DEF SendByte, Quiet, BuilderAt
      <3>2. BuilderShaped'
        BY <1>3, <3>1, Zenon
      <3>3. builder'.at = builder.at /\ builder'.busy = builder.busy /\ builder'.sent = builder.sent /\ ~builder'.tx_start
        BY <1>2, <3>1 DEF BuilderAt
      <3> QED BY <1>5, <2>1, <3>2, <3>3 DEF BuilderMove, SendByte
    <2>2. CASE ~tx_busy
      <3>1. builder' = BuilderAt("WAIT_BUSY", c, l, v, i, b, s, TRUE, current_tx_byte)
        <4> DEFINE byte == current_tx_byte
        <4>1. builder' = [builder EXCEPT !.at = "WAIT_BUSY", !.tx_start = TRUE, !.tx_data = byte]
          BY <1>5, <2>2 DEF SendByte
        <4> HIDE DEF byte
        <4>2. builder' = BuilderAt("WAIT_BUSY", c, l, v, i, b, s, TRUE, byte)
          BY <1>1, <4>1 DEF BuilderAt
        <4> QED BY <4>2 DEF byte
      <3>2. BuilderShaped'
        BY <1>3, <3>1, Zenon
      <3>3. builder'.at = "WAIT_BUSY" /\ builder'.busy = builder.busy /\ builder'.sent = builder.sent /\ builder'.tx_start
        BY <1>2, <3>1 DEF BuilderAt
      <3> QED BY <1>5, <2>2, <3>2, <3>3 DEF BuilderMove, SendByte
    <2> QED BY <2>1, <2>2
  <1>6. CASE WaitBusy
    <2>1. CASE tx_busy
      <3>1. builder' = BuilderAt("WAIT_FREE", c, l, v, i, b, s, FALSE, <<>>)
        BY <1>1, <1>6, <2>1 DEF WaitBusy, Quiet, BuilderAt
      <3>2. BuilderShaped'
        BY <1>3, <3>1, Zenon
      <3>3. builder'.at = "WAIT_FREE" /\ builder'.busy = builder.busy /\ builder'.sent = builder.sent /\ ~builder'.tx_start
        BY <1>2, <3>1 DEF BuilderAt
      <3> QED BY <1>6, <2>1, <3>2, <3>3 DEF BuilderMove, WaitBusy
    <2>2. CASE ~tx_busy
      <3>1. builder' = BuilderAt(a, c, l, v, i, b, s, FALSE, <<>>)
        BY <1>1, <1>6, <2>2 DEF WaitBusy, Quiet, BuilderAt
      <3>2. BuilderShaped'
        BY <1>3, <3>1, Zenon
      <3>3. builder'.at = builder.at /\ builder'.busy = builder.busy /\ builder'.sent = builder.sent /\ ~builder'.tx_start
        BY <1>2, <3>1 DEF BuilderAt
      <3> QED BY <1>6, <2>2, <3>2, <3>3 DEF BuilderMove, WaitBusy
    <2> QED BY <2>1, <2>2
  <1>7. CASE WaitFree
    <2>1. CASE tx_busy
      <3>1. builder' = BuilderAt(a, c, l, v, i, b, s, t, d)
        BY <1>1, <1>7, <2>1 DEF WaitFree
      <3> QED BY <1>2, <1>3, <1>7, <2>1, <3>1 DEF BuilderMove, WaitFree
    <2>2. CASE ~tx_busy /\ packet_ends
      <3>1. builder' = BuilderAt("idle", "none", 0, <<>>, 0, FALSE, TRUE, FALSE, <<>>)
        BY <1>7, <2>2 DEF WaitFree, IdleBuilder, BuilderAt
      <3>2. BuilderShaped'
        BY <1>3, <3>1, Zenon
      <3>3. builder'.at = "idle" /\ ~builder'.tx_start
        BY <1>2, <3>1 DEF BuilderAt
      <3> QED BY <1>7, <2>2, <3>2, <3>3 DEF BuilderMove, WaitFree
    <2>3. CASE ~tx_busy /\ ~packet_ends
      <3>1. builder' = BuilderAt("SEND_BYTE", c, l, v, i + 1, b, s, t, d)
        BY <1>1, <1>7, <2>3 DEF WaitFree, BuilderAt
      <3> QED BY <1>2, <1>3, <1>7, <2>3, <3>1 DEF BuilderMove, WaitFree
    <2> QED BY <2>1, <2>2, <2>3
  <1> QED BY <1>4, <1>5, <1>6, <1>7 DEF BuilderStep

(* A clock of the core: which state it goes to under which inputs, and     *)
(* which registers of the message it sets or clears.                       *)
LEMMA CoreMoves ==
  ASSUME NEW works \in BOOLEAN, CoreStep(works)
  PROVE  /\ Current = "IDLE" => Current' = IF "load_key" \in drive.on THEN "KEY_EXPANSION" ELSE "IDLE"
         /\ Current \in Opened /\ core.IV_loaded =>
                Current' \in Opened \/ (Current' = "WAIT_AAD" /\ ~(fsm.mode /\ core.tag_ref = <<>>))
         /\ Current = "WAIT_AAD" => Current' = IF "no_AAD" \in drive.on THEN "WAIT_DATA"
                                               ELSE IF "load_AAD" \in drive.on THEN "LOAD_AAD" ELSE "WAIT_AAD"
         /\ Current = "LOAD_AAD" => Current' = IF "AAD_last" \in drive.on THEN "WAIT_DATA" ELSE "LOAD_AAD"
         /\ Current = "WAIT_DATA" => Current' = IF "load_data" \in drive.on THEN "LOAD_DATA" ELSE "WAIT_DATA"
         /\ Current = "LOAD_DATA" => Current' = IF "data_in_last" \in drive.on THEN "WAIT_PROCESS_FINISH" ELSE "LOAD_DATA"
         /\ Current = "WAIT_PROCESS_FINISH" =>
                \/ Current' = "WAIT_PROCESS_FINISH" /\ core.tag = <<>>
                \/ Current' = "VERIFY_PASS" /\ core.tag # <<>> /\ fsm.mode
                \/ Current' = "FINISH" /\ core.tag # <<>> /\ ~fsm.mode
         /\ Current = "VERIFY_PASS" => Current' = IF "verify_checked" \in drive.on THEN "FINISH" ELSE "VERIFY_PASS"
         /\ Current = "FINISH" => Current' = "IDLE"
  <1> DEFINE checked == core.tag # <<>>
             loaded == core.tag_ref # <<>>
  <1>1. CUStep("load_key" \in drive.on, "load_key" \in drive.on, fsm.mode, works, core.H_loaded, core.IV_loaded, loaded,
               "load_AAD" \in drive.on, "no_AAD" \in drive.on, "AAD_last" \in drive.on, "load_data" \in drive.on,
               "data_in_last" \in drive.on, checked, "verify_checked" \in drive.on)
    BY DEF CoreStep
  <1>2. CASE Current = "IDLE"
    BY <1>1, <1>2 DEF CUStep, Go, Stay, Opened
  <1>3. CASE Current = "KEY_EXPANSION"
    BY <1>1, <1>3 DEF CUStep, Go, Stay, Opened
  <1>4. CASE Current = "WAIT_H_CAL"
    BY <1>1, <1>4 DEF CUStep, Go, Stay, Opened
  <1>5. CASE Current = "WAIT_TAG_REF"
    BY <1>1, <1>5 DEF CUStep, Go, Stay, Opened
  <1>6. CASE Current \in {"WAIT_AAD", "LOAD_AAD", "WAIT_DATA", "LOAD_DATA"}
    BY <1>1, <1>6 DEF CUStep, Go, Stay, Opened
  <1>7. CASE Current \in {"WAIT_PROCESS_FINISH", "VERIFY_PASS", "FINISH"}
    BY <1>1, <1>7 DEF CUStep, Go, Stay, Opened
  <1>8. CASE Current \notin CUStates
    BY <1>8 DEF CUStates, Opened
  <1> QED BY <1>2, <1>3, <1>4, <1>5, <1>6, <1>7, <1>8 DEF CUStates

LEMMA CoreRegisters ==
  ASSUME NEW works \in BOOLEAN, CoreStep(works)
  PROVE  /\ Current = "FINISH" \/ Current' = "FINISH" => core' = NoMessageYet
         /\ Current # "FINISH" /\ Current' # "FINISH" =>
                /\ core.IV_loaded \/ "load_key" \in drive.on => core'.IV_loaded
                /\ "load_tag_ref" \notin drive.on => core'.tag_ref = core.tag_ref
                /\ core'.last => core.last \/ "data_in_last" \in drive.on
                /\ core.tag = <<>> /\ ~core.last => core'.tag = <<>>
  <1>1. Current = "FINISH" \/ Current' = "FINISH" => core' = NoMessageYet
    BY DEF CoreStep, finish
  <1>2. ASSUME Current # "FINISH", Current' # "FINISH"
        PROVE  /\ core.IV_loaded \/ "load_key" \in drive.on => core'.IV_loaded
               /\ "load_tag_ref" \notin drive.on => core'.tag_ref = core.tag_ref
               /\ core'.last => core.last \/ "data_in_last" \in drive.on
               /\ core.tag = <<>> /\ ~core.last => core'.tag = <<>>
    BY <1>2 DEF CoreStep, finish
  <1> QED BY <1>1, <1>2

-----------------------------------------------------------------------------
(* A clock keeps each part of the invariant.                               *)
LEMMA StrobingKept ==
  ASSUME EngineInv, NEW o \in BOOLEAN, Clock(o)
  PROVE  Strobing'
  <1>1. /\ "none" \notin Starts /\ "LOAD_AAD" \notin Starts /\ "LOAD_PLAINTEXT" \notin Starts
        /\ "ERR_LEN" \notin Starts /\ "ERR_UNKNOWN" \notin Starts /\ "ERR_TIMEOUT" \notin Starts
    BY DEF Starts
  <1>2. ASSUME strobe' = NoStrobe PROVE strobe'.event = "none" /\ ~strobe'.done
    BY <1>2 DEF NoStrobe
  <1>3. ASSUME LengthOk(parsing.cmd, parsing.len), parsing.cmd \in Starts PROVE parsing.len = 0
    BY <1>3 DEF LengthOk, Starts
  <1> DEFINE Taken == parsing.at \in {"GET_LEN", "CHECK_CMD"} \/ (parsing.at = "PAYLOAD" /\ ~parsing.discard)
  <1>4. parsing.at = "PAYLOAD" /\ ~parsing.discard => parsing.cmd \notin Starts
    BY DEF EngineInv, Strobing
  <1>5. /\ parsing'.at \in ParserStates
        /\ strobe'.event \in Starts => parsing'.at = "SETTLE_0"
        /\ parsing'.at \in {"idle", "GET_LEN", "CHECK_CMD", "SETTLE_1"} => strobe' = NoStrobe
    BY <1>1, <1>2, <1>4, ParserMoves DEF EngineInv, Clock, ParserStates
  <1>6. ~strobe'.done => strobe'.event \in {"none", "LOAD_AAD", "LOAD_PLAINTEXT"}
    BY <1>2, ParserMoves DEF EngineInv, Clock
  <1>7. parsing'.at = "PAYLOAD" /\ ~parsing'.discard => parsing'.cmd \notin Starts /\ ~strobe'.done
    <2>1. ~(parsing.len > 0 /\ parsing.len = 0)
      OBVIOUS
    <2> QED BY <1>2, <1>3, <1>4, <2>1, ParserMoves DEF EngineInv, Clock
  <1>8. parsing'.at \in {"GET_LEN", "CHECK_CMD"} => ~strobe'.done
    BY <1>2, <1>5
  <1> QED BY <1>5, <1>6, <1>7, <1>8 DEF Strobing, TakingIn

LEMMA AskingKept ==
  ASSUME EngineInv, NEW o \in BOOLEAN, Clock(o)
  PROVE  Asking'
  <1>1. /\ ~strobe.done => ask' = <<>>
        /\ start_requested /\ ~start_refused => ask' = <<>>
        /\ strobe = NoStrobe => ask' = <<>>
    BY AskClock DEF EngineInv, Clock
  <1>2. BuilderStep /\ ParserStep(o) /\ FsmMove
    BY FsmMoves DEF EngineInv, Clock
  <1>3. fsm.at = "IDLE" => send = "none"
    BY DEF EngineInv, Building, Answering
  <1>4. TakingIn \/ strobe.done => ask = <<>> /\ builder = IdleBuilder /\ fsm.at = "IDLE"
    BY DEF EngineInv, Asking, Strobing, TakingIn, NoStrobe
  <1>5. IdleBuilder.at = "idle"
    BY DEF IdleBuilder
  <1>6. TakingIn \/ strobe.done => builder' = IdleBuilder
    BY <1>2, <1>3, <1>4, <1>5, BuilderRests
  <1>7. parsing.at = "idle" => ask' = <<>>
    BY <1>1 DEF EngineInv, Strobing
  <1>8. parsing.at = "idle" /\ engine_ready => builder' = IdleBuilder
    <2>1. builder.at = "idle" \/ builder.busy
      BY DEF EngineInv, Building
    <2> QED BY <1>2, <1>3, <2>1, BuilderRests DEF EngineInv, Asking, engine_ready
  <1>9. Expires => ask' = <<>> /\ builder' = IdleBuilder
    <2>1. builder.at = "idle" \/ builder.busy
      BY DEF EngineInv, Building
    <2> QED BY <1>1, <1>2, <1>3, <2>1, BuilderRests DEF Expires, engine_ready
  <1>10. TakingIn' => ask' = <<>> /\ builder' = IdleBuilder
    BY <1>1, <1>2, <1>6, <1>7, <1>8, ParserMoves DEF EngineInv, Strobing, TakingIn
  <1>11. strobe'.done => ask' = <<>> /\ builder' = IdleBuilder
    BY <1>1, <1>2, <1>6, <1>9, ParserMoves DEF EngineInv, Strobing, TakingIn, NoStrobe
  <1>12. parsing'.at = "idle" => ask' = <<>>
    BY <1>1, <1>2, <1>7, ParserMoves DEF EngineInv, Strobing
  <1>13. ask' # <<>> => builder' = IdleBuilder
    BY <1>1, <1>6
  <1>14. fsm'.at # "IDLE" => parsing'.at \in {"idle", "SETTLE_1"} /\ ask' = <<>>
    <2>1. CASE fsm.at = "IDLE"
      <3>1. fsm'.at # "IDLE" => start_requested /\ ~start_refused
        BY <1>2, <2>1 DEF FsmMove, Move, MoveAsking
      <3>2. start_requested => parsing.at = "SETTLE_0"
        BY DEF EngineInv, Strobing, start_requested
      <3> QED BY <1>1, <1>2, <3>1, <3>2, ParserMoves DEF EngineInv
    <2>2. CASE fsm.at # "IDLE"
      <3>1. parsing.at \in {"idle", "SETTLE_1"} /\ strobe = NoStrobe
        BY <2>2 DEF EngineInv, Asking, Strobing
      <3> QED BY <1>1, <1>2, <2>2, <3>1, ParserMoves DEF EngineInv, engine_ready
    <2> QED BY <2>1, <2>2
  <1> QED BY <1>10, <1>11, <1>12, <1>13, <1>14 DEF Asking

LEMMA BuildingKept ==
  ASSUME EngineInv, NEW o \in BOOLEAN, Clock(o)
  PROVE  Building'
  <1>1. FsmMove /\ BuilderMove /\ BuilderStep
    BY FsmMoves, BuilderMoves DEF EngineInv, Clock
  <1>2. fsm'.at \in Serving \union Answering \union {"IDLE"}
    BY <1>1 DEF FsmMove, Move, MoveAsking, Serving, Answering
  <1>3. /\ ~IdleBuilder.sent /\ IdleBuilder.at = "idle"
    BY DEF IdleBuilder
  <1>4. /\ builder'.at \in {"idle", "SEND_BYTE", "WAIT_BUSY", "WAIT_FREE"}
        /\ builder'.at # "idle" => builder'.busy
        /\ builder'.sent => builder'.at = "idle"
    BY <1>1, <1>3 DEF BuilderMove, EngineInv, Building
  <1>5. fsm.at # "IDLE" => ask = <<>>
    BY DEF EngineInv, Asking
  <1>6. fsm.at \in Serving => builder' = IdleBuilder
    <2> SUFFICES ASSUME fsm.at \in Serving PROVE builder' = IdleBuilder
      OBVIOUS
    <2>1. builder = IdleBuilder /\ send = "none" /\ ask = <<>>
      BY <1>5 DEF EngineInv, Building, Serving, Answering
    <2> QED BY <1>1, <1>3, <2>1, BuilderRests
  <1>7. fsm.at # "IDLE" /\ builder.sent => builder' = IdleBuilder
    <2>1. builder.sent => builder.at = "idle" /\ send = "none"
      BY <1>3 DEF EngineInv, Building
    <2> QED BY <1>1, <1>5, <2>1, BuilderRests
  <1>8. strobe.event \in Starts => builder' = IdleBuilder
    <2>1. strobe.event \in Starts => strobe.done
      BY DEF EngineInv, Strobing, Starts
    <2>2. strobe.done => ask = <<>> /\ builder = IdleBuilder /\ fsm.at = "IDLE"
      BY DEF EngineInv, Asking, Strobing, NoStrobe
    <2>3. fsm.at = "IDLE" => send = "none"
      BY DEF EngineInv, Building, Answering
    <2> QED BY <1>1, <1>3, <2>1, <2>2, <2>3, BuilderRests
  <1>9. fsm'.at \in Serving => builder' = IdleBuilder
    BY <1>1, <1>6, <1>7, <1>8 DEF FsmMove, Move, MoveAsking, Serving, start_requested
  <1>10. fsm'.at \notin Answering => send' = "none"
    BY <1>1 DEF FsmMove, Move, MoveAsking, Answering
  <1>11. send' # "none" => builder' = IdleBuilder
    BY <1>1, <1>6 DEF FsmMove, Move, MoveAsking, Serving
  <1> QED BY <1>2, <1>4, <1>9, <1>10, <1>11 DEF Building

LEMMA SendingKept ==
  ASSUME EngineInv, NEW o \in BOOLEAN, Clock(o)
  PROVE  Sending'
  <1>1. BuilderMove
    BY BuilderMoves DEF EngineInv, Clock
  <1>2. tx' = IF builder.tx_start THEN (IF o THEN "busy" ELSE "late")
              ELSE IF ~o THEN tx ELSE IF tx = "late" THEN "busy" ELSE "free"
    BY DEF Clock, LinkStep
  <1>3. ~IdleBuilder.tx_start /\ IdleBuilder.at = "idle"
    BY DEF IdleBuilder
  <1>4. CASE builder.at = "idle"
    BY <1>1, <1>2, <1>3, <1>4 DEF BuilderMove, EngineInv, Sending
  <1>5. CASE builder.at = "SEND_BYTE"
    BY <1>1, <1>2, <1>5 DEF BuilderMove, EngineInv, Sending, tx_busy
  <1>6. CASE builder.at = "WAIT_BUSY"
    BY <1>1, <1>2, <1>6 DEF BuilderMove, EngineInv, Sending, tx_busy
  <1>7. CASE builder.at = "WAIT_FREE"
    BY <1>1, <1>2, <1>7 DEF BuilderMove, EngineInv, Sending, tx_busy
  <1> QED BY <1>4, <1>5, <1>6, <1>7 DEF EngineInv, Building

LEMMA DrivingKept ==
  ASSUME EngineInv, NEW o \in BOOLEAN, Clock(o)
  PROVE  Driving'
  <1>1. CoreStep(o) /\ FsmMove
    BY FsmMoves DEF EngineInv, Clock
  <1> USE DEF FsmMove, Move, MoveAsking
  <1>2. CASE fsm.at = "IDLE"
    <2>1. drive.on = {} /\ Current' = "IDLE"
      BY <1>1, <1>2, CoreMoves DEF EngineInv, Driving
    <2> QED BY <1>1, <1>2, <2>1 DEF Driving, Answering
  <1>3. CASE fsm.at = "START_KEY_IV"
    <2>1. Current = "IDLE" /\ drive.on = {"load_key"} /\ Current' = "KEY_EXPANSION"
      BY <1>1, <1>3, CoreMoves DEF EngineInv, Driving
    <2>2. core'.IV_loaded
      BY <1>1, <2>1, CoreRegisters
    <2>3. fsm'.at = "WAIT_AAD_READY" /\ drive'.on = {}
      BY <1>1, <1>3
    <2> QED BY <2>1, <2>2, <2>3 DEF Driving, Answering, Opened
  <1>4. CASE fsm.at = "WAIT_AAD_READY" /\ Current \in Opened
    <2>1. /\ core.IV_loaded
          /\ \/ drive.on = {}
             \/ drive.on = {"load_tag_ref"} /\ fsm.mode /\ fsm.tag_ref_sent /\ core.tag_ref = <<>>
      BY <1>4 DEF EngineInv, Driving, Opened
    <2>2. \/ Current' \in Opened
          \/ Current' = "WAIT_AAD" /\ ~(fsm.mode /\ core.tag_ref = <<>>)
      BY <1>1, <1>4, <2>1, CoreMoves
    <2>3. core'.IV_loaded /\ (drive.on = {} => core'.tag_ref = core.tag_ref)
      BY <1>1, <1>4, <2>1, <2>2, CoreRegisters DEF Opened
    <2>4. ~AAD_ready
      BY <1>4 DEF AAD_ready, Opened
    <2>5. fsm'.at = "WAIT_AAD_READY" /\ fsm'.mode = fsm.mode
      BY <1>1, <1>4, <2>4
    <2>6. CASE drive'.on = {}
      BY <2>2, <2>3, <2>5, <2>6 DEF Driving, Answering, Opened
    <2>7. CASE SendsTagRef /\ drive'.on = {"load_tag_ref"} /\ fsm'.tag_ref_sent
      <3>1. fsm.mode /\ core.tag_ref = <<>> /\ ~fsm.tag_ref_sent
        BY <2>7 DEF SendsTagRef, tag_ref_ready
      <3>2. Current' \in Opened /\ core'.tag_ref = <<>> /\ fsm'.mode
        BY <2>1, <2>2, <2>3, <2>5, <3>1
      <3> QED BY <2>3, <2>5, <2>7, <3>2 DEF Driving, Answering, Opened
    <2> QED BY <1>1, <1>4, <2>4, <2>6, <2>7
  <1>5. CASE fsm.at = "WAIT_AAD_READY" /\ Current = "WAIT_AAD"
    <2>1. drive.on = {} /\ core.IV_loaded
      BY <1>5 DEF EngineInv, Driving, Opened
    <2>2. Current' = "WAIT_AAD" /\ AAD_ready /\ ~SendsTagRef
      BY <1>1, <1>5, <2>1, CoreMoves DEF AAD_ready, SendsTagRef, tag_ref_ready
    <2> QED BY <1>1, <1>5, <2>2 DEF Driving, Answering
  <1>6. CASE fsm.at = "HOLD_AAD_LAST"
    <2>1. Current' = "LOAD_AAD"
      BY <1>1, <1>6, CoreMoves DEF EngineInv, Driving
    <2>2. fsm'.at = "WAIT_DATA_READY" /\ drive'.on = {"AAD_last"}
      BY <1>1, <1>6
    <2> QED BY <2>1, <2>2 DEF Driving, Answering
  <1>7. CASE fsm.at = "STREAM_AAD"
    <2>1. Current' = "LOAD_AAD"
      BY <1>1, <1>7, CoreMoves DEF EngineInv, Driving
    <2> QED BY <1>1, <1>7, <2>1 DEF Driving, Answering
  <1>8. CASE fsm.at = "WAIT_DATA_READY"
    <2>1. \/ Current = "WAIT_DATA" /\ drive.on = {} /\ Current' = "WAIT_DATA"
          \/ Current \in {"WAIT_AAD", "LOAD_AAD"} /\ Current' = "WAIT_DATA"
      BY <1>1, <1>8, CoreMoves DEF EngineInv, Driving
    <2> QED BY <1>1, <1>8, <2>1 DEF Driving, Answering, data_ready
  <1>9. CASE fsm.at = "HOLD_PT_LAST"
    <2>1. Current' = "LOAD_DATA"
      BY <1>1, <1>9, CoreMoves DEF EngineInv, Driving
    <2>2. fsm'.at = "WAIT_PIPELINE" /\ drive'.on = {"data_in_last"}
      BY <1>1, <1>9
    <2> QED BY <2>1, <2>2 DEF Driving, Answering
  <1>10. CASE fsm.at = "STREAM_PT"
    <2>1. Current' = "LOAD_DATA"
      BY <1>1, <1>10, CoreMoves DEF EngineInv, Driving
    <2> QED BY <1>1, <1>10, <2>1 DEF Driving, Answering
  <1>11. CASE fsm.at = "WAIT_PIPELINE"
    <2>1. \/ Current = "LOAD_DATA" /\ Current' = "WAIT_PROCESS_FINISH" /\ ~capture.captured
          \/ Current = "WAIT_PROCESS_FINISH" /\ ~capture.captured /\ Current' \in {"WAIT_PROCESS_FINISH", "VERIFY_PASS", "FINISH"}
          \/ Current = "VERIFY_PASS" /\ Current' \in {"VERIFY_PASS", "FINISH"} /\ (capture.captured => Current' = "FINISH")
          \/ Current \in {"FINISH", "IDLE"} /\ Current' = "IDLE"
      BY <1>1, <1>11, CoreMoves DEF EngineInv, Driving, Finishing
    <2>2. /\ fsm'.at \in {"WAIT_PIPELINE", "SEND_TAG", "SEND_CT"} /\ (fsm'.at = "WAIT_PIPELINE" \/ capture.captured)
          /\ drive'.on \in {{}, {"verify_checked"}}
      BY <1>1, <1>11
    <2> QED BY <2>1, <2>2 DEF Driving, Answering
  <1>12. CASE fsm.at \in {"SEND_CT", "SEND_TAG"}
    <2>1. Current' = "IDLE"
      BY <1>1, <1>12, CoreMoves DEF EngineInv, Driving
    <2>2. fsm'.at \in Answering /\ drive'.on = {}
      BY <1>1, <1>12 DEF Answering
    <2> QED BY <2>1, <2>2 DEF Driving, Answering
  <1>13. CASE fsm.at \in Answering \union {"SEND_VERIFY"}
    <2>1. Current' = "IDLE"
      BY <1>1, <1>13, CoreMoves DEF EngineInv, Driving
    <2>2. fsm'.at \in Answering \union {"IDLE", "SEND_TAG", "SEND_VERIFY"} /\ drive'.on = {}
      BY <1>1, <1>13 DEF Answering
    <2> QED BY <2>1, <2>2 DEF Driving, Answering
  <1>14. fsm.at = "WAIT_AAD_READY" => Current \in Opened \union {"WAIT_AAD"}
    BY DEF EngineInv, Driving
  <1> QED BY <1>2, <1>3, <1>4, <1>5, <1>6, <1>7, <1>8, <1>9, <1>10, <1>11, <1>12, <1>13, <1>14
          DEF EngineInv, Building, Serving, Answering

LEMMA FinishingKept ==
  ASSUME EngineInv, NEW o \in BOOLEAN, Clock(o)
  PROVE  Finishing'
  <1>1. CoreStep(o) /\ FsmMove
    BY FsmMoves DEF EngineInv, Clock
  <1>2. ~NoMessageYet.last /\ NoMessageYet.tag = <<>>
    BY DEF NoMessageYet
  <1>3. /\ core.last => fsm.at = "WAIT_PIPELINE" /\ Current \in {"LOAD_DATA", "WAIT_PROCESS_FINISH", "VERIFY_PASS"}
        /\ core.tag # <<>> => fsm.at = "WAIT_PIPELINE" /\ Current \in {"WAIT_PROCESS_FINISH", "VERIFY_PASS"}
        /\ Current \in {"WAIT_PROCESS_FINISH", "VERIFY_PASS"} => fsm.at = "WAIT_PIPELINE"
        /\ "data_in_last" \in drive.on => \/ fsm.at = "HOLD_PT_LAST" /\ Current = "WAIT_DATA"
                                          \/ fsm.at = "WAIT_PIPELINE" /\ Current = "LOAD_DATA"
    <2>1. /\ "data_in_last" \in drive.on => \/ fsm.at = "HOLD_PT_LAST" /\ Current = "WAIT_DATA"
                                            \/ fsm.at = "WAIT_PIPELINE" /\ Current = "LOAD_DATA"
                                            \/ fsm.at = "WAIT_DATA_READY"
          /\ fsm.at = "WAIT_DATA_READY" => "data_in_last" \notin drive.on
          /\ Current \in {"WAIT_PROCESS_FINISH", "VERIFY_PASS"} => fsm.at = "WAIT_PIPELINE"
      BY DEF EngineInv, Driving, Building, Serving, Answering, Opened
    <2>2. core.last => fsm.at = "WAIT_PIPELINE" /\ Current \in {"LOAD_DATA", "WAIT_PROCESS_FINISH", "VERIFY_PASS"}
      BY DEF EngineInv, Driving, Finishing
    <2>3. core.tag # <<>> => fsm.at = "WAIT_PIPELINE" /\ Current \in {"WAIT_PROCESS_FINISH", "VERIFY_PASS"}
      BY DEF EngineInv, Finishing
    <2>4. "data_in_last" \in drive.on => \/ fsm.at = "HOLD_PT_LAST" /\ Current = "WAIT_DATA"
                                         \/ fsm.at = "WAIT_PIPELINE" /\ Current = "LOAD_DATA"
      BY <2>1
    <2> QED BY <2>1, <2>2, <2>3, <2>4
  <1>4. CASE fsm.at = "WAIT_PIPELINE"
    <2>1. \/ Current = "LOAD_DATA" /\ Current' = "WAIT_PROCESS_FINISH" /\ core.tag = <<>> /\ ~capture.captured
          \/ /\ Current = "WAIT_PROCESS_FINISH" /\ ~capture.captured
             /\ \/ Current' = "WAIT_PROCESS_FINISH" /\ core.tag = <<>>
                \/ Current' = "VERIFY_PASS" /\ fsm.mode
                \/ Current' = "FINISH"
          \/ /\ Current = "VERIFY_PASS" /\ Current' \in {"VERIFY_PASS", "FINISH"} /\ fsm.mode
             /\ capture.captured => Current' = "FINISH"
          \/ Current \in {"FINISH", "IDLE"} /\ Current' = "IDLE" /\ core.tag = <<>>
      BY <1>1, <1>4, CoreMoves DEF EngineInv, Driving, Finishing
    <2>2. /\ fsm'.at \in {"WAIT_PIPELINE", "SEND_TAG", "SEND_CT"} /\ (fsm'.at = "WAIT_PIPELINE" \/ capture.captured)
          /\ fsm'.mode = fsm.mode /\ drive'.on = IF fsm.mode /\ verify_done THEN {"verify_checked"} ELSE {}
      BY <1>1, <1>4 DEF FsmMove, Move, MoveAsking
    <2>3. capture'.captured => tag_valid \/ (fsm.mode /\ verify_done) \/ capture.captured
      BY <1>4 DEF Clock, CaptureStep, message_done
    <2>4. tag_valid => core.tag # <<>> /\ ~fsm.mode
      BY DEF tag_valid
    <2>5. verify_done <=> Current = "VERIFY_PASS"
      BY DEF verify_done
    <2>6. fsm'.at # "WAIT_PIPELINE" \/ Current' \in {"FINISH", "IDLE"} => ~core'.last
      <3>1. CASE Current = "FINISH" \/ Current' = "FINISH"
        BY <1>1, <1>2, <3>1, CoreRegisters
      <3>2. CASE Current # "FINISH" /\ Current' # "FINISH"
        <4>1. core'.last => core.last \/ "data_in_last" \in drive.on
          BY <1>1, <3>2, CoreRegisters
        <4> QED BY <1>3, <2>1, <2>2, <3>2, <4>1
      <3> QED BY <3>1, <3>2
    <2>7. core'.tag # <<>> => fsm'.at = "WAIT_PIPELINE" /\ Current' \in {"WAIT_PROCESS_FINISH", "VERIFY_PASS"}
      <3>1. CASE Current = "FINISH" \/ Current' = "FINISH"
        BY <1>1, <1>2, <3>1, CoreRegisters
      <3>2. CASE Current # "FINISH" /\ Current' # "FINISH"
        <4>1. core.tag = <<>> /\ ~core.last => core'.tag = <<>>
          BY <1>1, <3>2, CoreRegisters
        <4> QED BY <1>3, <2>1, <2>2, <3>2, <4>1
      <3> QED BY <3>1, <3>2
    <2>8. Current' = "VERIFY_PASS" => fsm'.mode /\ (capture'.captured => "verify_checked" \in drive'.on)
      BY <2>1, <2>2, <2>3, <2>4, <2>5
    <2>9. fsm'.at = "WAIT_PIPELINE" /\ Current' \in {"LOAD_DATA", "WAIT_PROCESS_FINISH"} => ~capture'.captured
      BY <2>1, <2>3, <2>4, <2>5
    <2>10. fsm'.at \notin Loading
      BY <2>2 DEF Loading
    <2> QED BY <2>6, <2>7, <2>8, <2>9, <2>10 DEF Finishing
  <1>5. CASE fsm.at # "WAIT_PIPELINE"
    <2>1. ~core.last /\ core.tag = <<>> /\ ~verify_done /\ ~tag_valid
      BY <1>3, <1>5 DEF verify_done, tag_valid
    <2>2. Current' # "VERIFY_PASS"
      <3>1. Current \in {"IDLE", "WAIT_AAD", "LOAD_AAD", "WAIT_DATA", "LOAD_DATA", "FINISH"} \/ (Current \in Opened /\ core.IV_loaded)
        BY <1>5 DEF EngineInv, Driving, Building, Serving, Answering, Opened
      <3> QED BY <1>1, <3>1, CoreMoves DEF Opened
    <2>3. core'.tag = <<>> /\ (core'.last => fsm.at = "HOLD_PT_LAST" /\ Current = "WAIT_DATA")
      <3>1. CASE Current = "FINISH" \/ Current' = "FINISH"
        BY <1>1, <1>2, <3>1, CoreRegisters
      <3>2. CASE Current # "FINISH" /\ Current' # "FINISH"
        BY <1>1, <1>3, <1>5, <2>1, <3>2, CoreRegisters
      <3> QED BY <3>1, <3>2
    <2>4. fsm.at = "HOLD_PT_LAST" => fsm'.at = "WAIT_PIPELINE" /\ Current' = "LOAD_DATA"
      BY <1>1, CoreMoves DEF FsmMove, Move, MoveAsking, EngineInv, Driving
    <2>5. fsm'.at \in Loading \union {"WAIT_PIPELINE"} => fsm.at \in Loading \union {"START_KEY_IV"}
      BY <1>1, <1>5 DEF FsmMove, Move, MoveAsking, Loading
    <2>6. fsm.at \in Loading \union {"START_KEY_IV"} => ~capture'.captured
      <3> SUFFICES ASSUME fsm.at \in Loading \union {"START_KEY_IV"} PROVE ~capture'.captured
        OBVIOUS
      <3>1. ~message_done
        BY DEF message_done, Loading
      <3>2. capture'.captured => capture.captured /\ fsm.at # "START_KEY_IV"
        BY <2>1, <3>1 DEF Clock, CaptureStep
      <3>3. fsm.at \in Loading => ~capture.captured
        BY DEF EngineInv, Finishing
      <3> QED BY <3>2, <3>3
    <2> QED BY <2>2, <2>3, <2>4, <2>5, <2>6 DEF Finishing
  <1> QED BY <1>4, <1>5

(* The host changes nothing that the invariant is about.                   *)
LEMMA HostKept ==
  ASSUME EngineInv, SendPacket \/ CutPacket \/ UNCHANGED engineVars
  PROVE  EngineInv'
  <1>1. UNCHANGED <<Current, parsing, strobe, ask, send, fsm, drive, core, capture, builder, tx>>
    BY DEF SendPacket, CutPacket, engineVars, parserVars
  <1> USE <1>1 DEF EngineInv
  <1>2. Shaped'
    BY DEF Shaped, ParserShaped, FsmShaped, BuilderShaped
  <1>3. Strobing' /\ Asking'
    BY DEF Strobing, Asking, TakingIn
  <1>4. Building' /\ Sending'
    BY DEF Building, Sending
  <1>5. Driving' /\ Finishing'
    BY DEF Driving, Finishing
  <1> QED BY <1>2, <1>3, <1>4, <1>5

LEMMA EngineInvNext == EngineInv /\ [EngineNext]_engineVars => EngineInv'
  <1>1. ASSUME EngineInv, NEW o \in BOOLEAN, Clock(o) PROVE EngineInv'
    <2>1. Shaped'
      BY <1>1, ParserMoves, FsmMoves, BuilderMoves DEF EngineInv, Shaped, Clock
    <2> QED BY <1>1, <2>1, StrobingKept, AskingKept, BuildingKept, SendingKept, DrivingKept, FinishingKept DEF EngineInv
  <1> QED BY <1>1, HostKept DEF EngineNext

-----------------------------------------------------------------------------
(* aes_gcm_engine.sv, packet_builder.sv: no strobe is raised to the core in *)
(* a clock in which its port is closed, no request is made of a builder    *)
(* that does not take it, no byte is given to a transmitter that is not    *)
(* free, and no start comes while a message is under way: for every size   *)
(* of the buffers, every host and every core and link, however slow.       *)
THEOREM HandedOverAlways == EngineSpec => []HandedOver
  <1>1. EngineInv => HandedOver
    <2> SUFFICES ASSUME EngineInv PROVE HandedOver
      OBVIOUS
    <2>1. "load_key" \in drive.on => key_ready
      BY DEF EngineInv, Driving, Building, Serving, Answering, key_ready
    <2>2. "load_tag_ref" \in drive.on => tag_ref_ready(core.tag_ref # <<>>, fsm.mode)
      BY DEF EngineInv, Driving, Building, Serving, Answering, Opened, tag_ref_ready
    <2>3. "load_AAD" \in drive.on => AAD_ready
      BY DEF EngineInv, Driving, Building, Serving, Answering, AAD_ready
    <2>4. "load_data" \in drive.on => data_ready(FALSE)
      BY DEF EngineInv, Driving, Building, Serving, Answering, data_ready
    <2>5. ask # <<>> \/ send # "none" => builder.at = "idle" /\ (ask = <<>> \/ send = "none")
      BY DEF EngineInv, Asking, Building, Answering, IdleBuilder
    <2>6. builder.tx_start => tx = "free"
      BY DEF EngineInv, Building, Sending
    <2>7. strobe.event \in Starts => fsm.at = "IDLE"
      BY DEF EngineInv, Asking, Strobing
    <2> QED BY <2>1, <2>2, <2>3, <2>4, <2>5, <2>6, <2>7 DEF HandedOver
  <1> QED BY <1>1, EngineInvInit, EngineInvNext, PTL DEF EngineSpec


-----------------------------------------------------------------------------
(* THE PARSER                                                              *)
(* Byte by byte the parser takes the packet that is on the line: what it   *)
(* reports (Delivered) is the opcode and the payload that were sent.       *)
(* A byte of a packet of the host, and what else may be on the line.       *)
Byte == UNION {Range(packet[2]) : packet \in Offered}
Item == Byte \union Nat \union {packet[1] : packet \in Offered}

(* The sizes are numbers.                                                  *)
LEMMA Units == BlockBytes \in Nat \ {0} /\ MaxDataBlocks \in Nat \ {0} /\ TagBytes = 4
  BY EngineAssumption

(* A packet is an opcode and a sequence of bytes.                          *)
LEMMA PacketBytes == ASSUME NEW packet \in Offered PROVE packet[2] \in Seq(Byte) /\ packet = <<packet[1], packet[2]>>
  <1>1. packet[2] \in Seq(Range(packet[2])) /\ packet = <<packet[1], packet[2]>>
    BY EngineAssumption
  <1>2. Range(packet[2]) \subseteq Byte
    BY DEF Byte
  <1> QED BY <1>1, <1>2, SeqMonotonic

(* The bytes of a packet on the line.                                      *)
LEMMA PacketOnLine ==
  ASSUME sending \in Offered
  PROVE  /\ payload \in Seq(Byte) /\ Len(payload) \in Nat
         /\ Whole(sending) \in Seq(Item) /\ Len(Whole(sending)) = Len(payload) + 2
         /\ Whole(sending)[1] = opcode /\ Whole(sending)[2] = Len(payload)
         /\ \A k \in 1..Len(payload) : Whole(sending)[k + 2] = payload[k]
         /\ From(1) = Whole(sending)
         /\ From(Len(payload) + 3) = <<>>
         /\ \A k \in 1..Len(payload) + 2 :
                From(k) # <<>> /\ Head(From(k)) = Whole(sending)[k] /\ Tail(From(k)) = From(k + 1)
  <1> DEFINE w == Whole(sending)
             p == payload
             c == opcode
  <1>1. p \in Seq(Byte) /\ Len(p) \in Nat
    BY PacketBytes DEF payload
  <1>2. c \in Item /\ Len(p) \in Item /\ Byte \subseteq Item
    BY <1>1 DEF Item, opcode
  <1>3. w = <<c, Len(p)>> \o p
    BY DEF Whole, opcode, payload
  <1> HIDE DEF w, p, c
  <1>4. p \in Seq(Item)
    BY <1>1, <1>2, SeqMonotonic
  <1>5. <<c, Len(p)>> \in Seq(Item) /\ Len(<<c, Len(p)>>) = 2 /\ <<c, Len(p)>>[1] = c /\ <<c, Len(p)>>[2] = Len(p)
    BY <1>2
  <1>6. w \in Seq(Item) /\ Len(w) = Len(p) + 2 /\ w[1] = c /\ w[2] = Len(p) /\ \A k \in 1..Len(p) : w[k + 2] = p[k]
    <2> DEFINE h == <<c, Len(p)>>
    <2>1. h \in Seq(Item) /\ Len(h) = 2 /\ h[1] = c /\ h[2] = Len(p) /\ w = h \o p
      BY <1>3, <1>5
    <2> HIDE DEF h
    <2>2. /\ w \in Seq(Item) /\ Len(w) = Len(h) + Len(p)
          /\ \A i \in 1..Len(h) + Len(p) : w[i] = IF i <= Len(h) THEN h[i] ELSE p[i - Len(h)]
      BY <1>4, <2>1, ConcatProperties
    <2>3. w \in Seq(Item) /\ Len(w) = Len(p) + 2
      BY <1>1, <2>1, <2>2
    <2>4. ASSUME NEW i \in 1..Len(p) + 2 PROVE w[i] = IF i <= 2 THEN h[i] ELSE p[i - 2]
      <3>1. i \in 1..Len(h) + Len(p)
        BY <1>1, <2>1
      <3> QED BY <2>1, <2>2, <3>1
    <2>5. w[1] = c /\ w[2] = Len(p)
      <3>1. 1 \in 1..Len(p) + 2 /\ 2 \in 1..Len(p) + 2
        BY <1>1
      <3>2. w[1] = h[1] /\ w[2] = h[2]
        BY <2>4, <3>1
      <3> QED BY <2>1, <3>2
    <2>6. ASSUME NEW k \in 1..Len(p) PROVE w[k + 2] = p[k]
      <3>1. k + 2 \in 1..Len(p) + 2 /\ ~(k + 2 <= 2) /\ k + 2 - 2 = k
        BY <1>1
      <3> QED BY <2>4, <3>1
    <2> QED BY <2>3, <2>5, <2>6
  <1>7. SubSeq(w, 1, Len(p) + 2) = w
    BY <1>6, SubSeqFull
  <1>8. SubSeq(w, Len(p) + 3, Len(p) + 2) = <<>>
    BY <1>1, SubSeqEmpty
  <1>9. ASSUME NEW k \in 1..Len(p) + 2
        PROVE  /\ SubSeq(w, k, Len(p) + 2) # <<>> /\ Head(SubSeq(w, k, Len(p) + 2)) = w[k]
               /\ Tail(SubSeq(w, k, Len(p) + 2)) = SubSeq(w, k + 1, Len(p) + 2)
    <2>1. k \in 1..Len(w) /\ Len(w) \in k..Len(w) /\ Len(w) = Len(p) + 2
      BY <1>1, <1>6
    <2>2. Head(SubSeq(w, k, Len(w))) = w[k] /\ Tail(SubSeq(w, k, Len(w))) = SubSeq(w, k + 1, Len(w))
      BY <1>6, <2>1, HeadTailOfSubSeq
    <2>3. Len(SubSeq(w, k, Len(w))) = Len(w) - k + 1
      BY <1>6, <2>1, SubSeqProperties
    <2>4. SubSeq(w, k, Len(w)) # <<>>
      <3>1. Len(w) - k + 1 # 0
        BY <1>1, <1>6
      <3> QED BY <2>3, <3>1, NotEmpty
    <2>5. Len(w) = Len(p) + 2
      BY <1>6
    <2> QED BY <2>2, <2>4, <2>5, Zenon
  <1> QED BY <1>1, <1>6, <1>7, <1>8, <1>9 DEF From, w, p, c

-----------------------------------------------------------------------------
(* A clock of the parser, field by field.                                  *)
Becomes(a, c, l, n, s, d) ==
    /\ parsing'.at = a /\ parsing'.cmd = c /\ parsing'.len = l /\ parsing'.cnt = n /\ parsing'.shift = s
    /\ parsing'.discard = d
Takes == line # <<>> /\ engine_ready /\ line' = Tail(line)
Keeps == line' = line
Report(event) == [event |-> event, value |-> parsing.cmd, done |-> TRUE]
Opens == LengthOk(parsing.cmd, parsing.len)
ValueNow == Append(parsing.shift, Head(line))
WholeNow == Ends \/ (parsing.cmd \in BlockLoads /\ Len(ValueNow) = BlockBytes)

FromIdle ==
    \/ parsing' = ClearParser /\ strobe' = NoStrobe /\ Keeps
    \/ Takes /\ Becomes("GET_LEN", Head(line), 0, 0, <<>>, FALSE) /\ strobe' = NoStrobe
FromLen ==
    \/ Takes /\ Becomes("CHECK_CMD", parsing.cmd, Head(line), parsing.cnt, parsing.shift, parsing.discard) /\ strobe' = NoStrobe
    \/ /\ Becomes("SETTLE_0", parsing.cmd, parsing.len, parsing.cnt, parsing.shift, parsing.discard)
       /\ strobe' = Report("ERR_TIMEOUT") /\ Keeps /\ line = <<>>
    \/ parsing' = parsing /\ strobe' = NoStrobe /\ Keeps
FromCheck ==
    /\ Keeps
    /\ \/ /\ ~Opens /\ strobe' = Report(IF Known(parsing.cmd) THEN "ERR_LEN" ELSE "ERR_UNKNOWN")
          /\ Becomes(IF parsing.len = 0 THEN "SETTLE_0" ELSE "PAYLOAD", parsing.cmd, parsing.len, parsing.cnt, parsing.shift, TRUE)
       \/ /\ Opens /\ parsing.len = 0 /\ strobe' = [event |-> parsing.cmd, value |-> <<>>, done |-> TRUE]
          /\ Becomes("SETTLE_0", parsing.cmd, parsing.len, parsing.cnt, parsing.shift, parsing.discard)
       \/ /\ Opens /\ parsing.len > 0 /\ strobe' = NoStrobe
          /\ Becomes("PAYLOAD", parsing.cmd, parsing.len, parsing.cnt, parsing.shift, parsing.discard)
FromPayload ==
    \/ /\ Takes /\ ~parsing.discard
       /\ Becomes(IF Ends THEN "SETTLE_0" ELSE "PAYLOAD", parsing.cmd, parsing.len, parsing.cnt + 1,
                  IF WholeNow THEN <<>> ELSE ValueNow, parsing.discard)
       /\ strobe' = IF WholeNow THEN [event |-> parsing.cmd, value |-> ValueNow, done |-> Ends] ELSE NoStrobe
    \/ /\ Takes /\ parsing.discard /\ strobe' = NoStrobe
       /\ Becomes(IF Ends THEN "SETTLE_0" ELSE "PAYLOAD", parsing.cmd, parsing.len, parsing.cnt + 1, parsing.shift, parsing.discard)
    \/ /\ Becomes("SETTLE_0", parsing.cmd, parsing.len, parsing.cnt, parsing.shift, parsing.discard)
       /\ strobe' = Report("ERR_TIMEOUT") /\ Keeps /\ line = <<>>
    \/ parsing' = parsing /\ strobe' = NoStrobe /\ Keeps
FromSettle ==
    /\ strobe' = NoStrobe /\ Keeps
    /\ \/ /\ parsing.at = "SETTLE_0"
          /\ Becomes("SETTLE_1", parsing.cmd, parsing.len, parsing.cnt, parsing.shift, parsing.discard)
       \/ parsing.at = "SETTLE_1" /\ parsing' = ClearParser

(* In each clock the parser makes one of these moves, or rests.            *)
LEMMA ParserClock ==
  ASSUME ParserShaped, NEW o \in BOOLEAN, ParserStep(o)
  PROVE  /\ parsing.at = "idle" => FromIdle
         /\ parsing.at = "GET_LEN" => FromLen
         /\ parsing.at = "CHECK_CMD" => FromCheck
         /\ parsing.at = "PAYLOAD" => FromPayload
         /\ parsing.at \in {"SETTLE_0", "SETTLE_1"} => FromSettle
  <1>1. PICK a, c, l, n, s, d : parsing = ParserAt(a, c, l, n, s, d)
    BY DEF ParserShaped
  <1>2. /\ parsing.at = a /\ parsing.cmd = c /\ parsing.len = l /\ parsing.cnt = n /\ parsing.shift = s /\ parsing.discard = d
        /\ \A x : At(x) = ParserAt(x, c, l, n, s, d)
    BY <1>1 DEF ParserAt, At
  <1>3. ASSUME NEW x, NEW y, NEW z, NEW u, NEW v, NEW w, parsing' = ParserAt(x, y, z, u, v, w)
        PROVE  Becomes(x, y, z, u, v, w)
    BY <1>3 DEF ParserAt, Becomes
  <1>4. line' = IF rx_valid(o) THEN Tail(line) ELSE line
    BY DEF ParserStep
  <1>5. rx_valid(o) => Takes
    BY <1>4 DEF rx_valid, Takes
  <1>6. ~rx_valid(o) => Keeps
    BY <1>4 DEF Keeps
  <1>7. Expires => ~rx_valid(o) /\ line = <<>>
    BY DEF Expires, rx_valid
  <1>8. ASSUME NEW x, parsing' = At(x) PROVE Becomes(x, c, l, n, s, d)
    BY <1>2, <1>3, <1>8
  <1>9. CASE parsing.at = "idle"
    <2>1. \/ ~rx_valid(o) /\ parsing' = ClearParser /\ strobe' = NoStrobe
          \/ rx_valid(o) /\ parsing' = [ClearParser EXCEPT !.at = "GET_LEN", !.cmd = Head(line)] /\ strobe' = NoStrobe
      BY <1>9 DEF ParserStep, Parse
    <2>2. CASE ~rx_valid(o) /\ parsing' = ClearParser /\ strobe' = NoStrobe
      BY <1>6, <1>9, <2>2 DEF FromIdle
    <2>3. CASE rx_valid(o) /\ parsing' = [ClearParser EXCEPT !.at = "GET_LEN", !.cmd = Head(line)] /\ strobe' = NoStrobe
      <3>1. parsing'.at = "GET_LEN" /\ parsing'.cmd = Head(line) /\ parsing'.len = 0 /\ parsing'.cnt = 0 /\ parsing'.shift = <<>>
            /\ parsing'.discard = FALSE
        BY <2>3 DEF ClearParser
      <3> QED BY <1>5, <1>9, <2>3, <3>1 DEF FromIdle, Becomes
    <2> QED BY <2>1, <2>2, <2>3
  <1>10. CASE parsing.at = "GET_LEN"
    <2>1. \/ rx_valid(o) /\ parsing' = [At("CHECK_CMD") EXCEPT !.len = Head(line)] /\ strobe' = NoStrobe
          \/ Expires /\ parsing' = At("SETTLE_0") /\ strobe' = Report("ERR_TIMEOUT")
          \/ ~rx_valid(o) /\ parsing' = parsing /\ strobe' = NoStrobe
      BY <1>10 DEF ParserStep, Parse, Report
    <2>2. CASE rx_valid(o) /\ parsing' = [At("CHECK_CMD") EXCEPT !.len = Head(line)] /\ strobe' = NoStrobe
      <3>1. parsing' = ParserAt("CHECK_CMD", c, Head(line), n, s, d)
        BY <1>2, <2>2 DEF ParserAt
      <3> QED BY <1>2, <1>3, <1>5, <1>10, <2>2, <3>1 DEF FromLen
    <2>3. CASE Expires /\ parsing' = At("SETTLE_0") /\ strobe' = Report("ERR_TIMEOUT")
      BY <1>2, <1>6, <1>7, <1>8, <1>10, <2>3 DEF FromLen
    <2>4. CASE ~rx_valid(o) /\ parsing' = parsing /\ strobe' = NoStrobe
      BY <1>6, <1>10, <2>4 DEF FromLen
    <2> QED BY <2>1, <2>2, <2>3, <2>4
  <1>11. CASE parsing.at = "CHECK_CMD"
    <2>1. ~rx_valid(o)
      BY <1>11 DEF rx_valid, rx_ready
    <2>2. \/ /\ ~Opens /\ parsing' = [At(IF parsing.len = 0 THEN "SETTLE_0" ELSE "PAYLOAD") EXCEPT !.discard = TRUE]
             /\ strobe' = Report(IF Known(parsing.cmd) THEN "ERR_LEN" ELSE "ERR_UNKNOWN")
          \/ Opens /\ parsing.len = 0 /\ parsing' = At("SETTLE_0") /\ strobe' = [event |-> parsing.cmd, value |-> <<>>, done |-> TRUE]
          \/ Opens /\ parsing.len > 0 /\ parsing' = At("PAYLOAD") /\ strobe' = NoStrobe
      BY <1>11 DEF ParserStep, Parse, Report, Opens
    <2>3. CASE /\ ~Opens /\ parsing' = [At(IF parsing.len = 0 THEN "SETTLE_0" ELSE "PAYLOAD") EXCEPT !.discard = TRUE]
               /\ strobe' = Report(IF Known(parsing.cmd) THEN "ERR_LEN" ELSE "ERR_UNKNOWN")
      <3> DEFINE to == IF parsing.len = 0 THEN "SETTLE_0" ELSE "PAYLOAD"
      <3>1. parsing' = [At(to) EXCEPT !.discard = TRUE]
        BY <2>3
      <3> HIDE DEF to
      <3>2. parsing' = [ParserAt(to, c, l, n, s, d) EXCEPT !.discard = TRUE]
        BY <1>2, <3>1
      <3>3. parsing'.at = to /\ parsing'.cmd = c /\ parsing'.len = l /\ parsing'.cnt = n /\ parsing'.shift = s /\ parsing'.discard = TRUE
        BY <3>2 DEF ParserAt
      <3> QED BY <1>2, <1>6, <1>11, <2>1, <2>3, <3>3 DEF FromCheck, Becomes, to
    <2>4. CASE Opens /\ parsing.len = 0 /\ parsing' = At("SETTLE_0") /\ strobe' = [event |-> parsing.cmd, value |-> <<>>, done |-> TRUE]
      BY <1>2, <1>6, <1>8, <1>11, <2>1, <2>4 DEF FromCheck
    <2>5. CASE Opens /\ parsing.len > 0 /\ parsing' = At("PAYLOAD") /\ strobe' = NoStrobe
      BY <1>2, <1>6, <1>8, <1>11, <2>1, <2>5 DEF FromCheck
    <2> QED BY <2>2, <2>3, <2>4, <2>5
  <1>12. CASE parsing.at = "PAYLOAD"
    <2>1. \/ rx_valid(o) /\ ~parsing.discard /\ Payload(Head(line))
          \/ /\ rx_valid(o) /\ parsing.discard /\ parsing' = [At(IF Ends THEN "SETTLE_0" ELSE "PAYLOAD") EXCEPT !.cnt = @ + 1]
             /\ strobe' = NoStrobe
          \/ Expires /\ parsing' = At("SETTLE_0") /\ strobe' = Report("ERR_TIMEOUT")
          \/ ~rx_valid(o) /\ parsing' = parsing /\ strobe' = NoStrobe
      BY <1>12 DEF ParserStep, Parse, Report
    <2>2. CASE rx_valid(o) /\ ~parsing.discard /\ Payload(Head(line))
      <3> DEFINE shift == IF WholeNow THEN <<>> ELSE ValueNow
                 to == IF Ends THEN "SETTLE_0" ELSE "PAYLOAD"
      <3>1. parsing' = [parsing EXCEPT !.at = IF Ends THEN "SETTLE_0" ELSE @, !.cnt = @ + 1, !.shift = shift]
        BY <2>2 DEF Payload, WholeNow, ValueNow, BlockLoads
      <3>2. strobe' = IF WholeNow THEN [event |-> parsing.cmd, value |-> ValueNow, done |-> Ends] ELSE NoStrobe
        BY <2>2 DEF Payload, WholeNow, ValueNow, BlockLoads
      <3> HIDE DEF shift
      <3>3. parsing' = ParserAt(to, c, l, n + 1, shift, d)
        BY <1>1, <1>2, <1>12, <3>1 DEF ParserAt
      <3> HIDE DEF to
      <3>4. Becomes(to, c, l, n + 1, shift, d)
        BY <1>3, <3>3
      <3> QED BY <1>2, <1>5, <1>12, <2>2, <3>2, <3>4 DEF FromPayload, shift, to
    <2>3. CASE /\ rx_valid(o) /\ parsing.discard /\ parsing' = [At(IF Ends THEN "SETTLE_0" ELSE "PAYLOAD") EXCEPT !.cnt = @ + 1]
               /\ strobe' = NoStrobe
      <3> DEFINE to == IF Ends THEN "SETTLE_0" ELSE "PAYLOAD"
      <3>1. parsing' = [At(to) EXCEPT !.cnt = @ + 1]
        BY <2>3
      <3> HIDE DEF to
      <3>2. parsing' = ParserAt(to, c, l, n + 1, s, d)
        BY <1>2, <3>1 DEF ParserAt
      <3>3. Becomes(to, c, l, n + 1, s, d)
        BY <1>3, <3>2
      <3> QED BY <1>2, <1>5, <1>12, <2>3, <3>3 DEF FromPayload, to
    <2>4. CASE Expires /\ parsing' = At("SETTLE_0") /\ strobe' = Report("ERR_TIMEOUT")
      BY <1>2, <1>6, <1>7, <1>8, <1>12, <2>4 DEF FromPayload
    <2>5. CASE ~rx_valid(o) /\ parsing' = parsing /\ strobe' = NoStrobe
      BY <1>6, <1>12, <2>5 DEF FromPayload
    <2> QED BY <2>1, <2>2, <2>3, <2>4, <2>5
  <1>13. CASE parsing.at \in {"SETTLE_0", "SETTLE_1"}
    <2>1. ~rx_valid(o)
      BY <1>13 DEF rx_valid, rx_ready
    <2>2. \/ parsing.at = "SETTLE_0" /\ parsing' = At("SETTLE_1") /\ strobe' = NoStrobe
          \/ parsing.at = "SETTLE_1" /\ parsing' = ClearParser /\ strobe' = NoStrobe
      BY <1>13 DEF ParserStep, Parse
    <2> QED BY <1>2, <1>6, <1>8, <1>13, <2>1, <2>2 DEF FromSettle
  <1> QED BY <1>9, <1>10, <1>11, <1>12, <1>13

-----------------------------------------------------------------------------
(* The parser keeps in step with the packet.                               *)
LEMMA BlocksOfPacket ==
  ASSUME NEW n \in Nat
  PROVE  /\ InBlocks(n) \in 0..n /\ InBlocks(0) = 0
         /\ opcode \notin BlockLoads => InBlocks(n) = 0 /\ InBlocks(n + 1) = 0
         /\ opcode \in BlockLoads =>
                /\ n - InBlocks(n) = n % BlockBytes
                /\ InBlocks(n + 1) = IF (n + 1) % BlockBytes = 0 THEN n + 1 ELSE InBlocks(n)
                /\ (n + 1) - InBlocks(n) = BlockBytes <=> (n + 1) % BlockBytes = 0
  <1>0. BlockBytes \in Nat \ {0}
    BY Units
  <1>1. n % BlockBytes \in 0..BlockBytes - 1 /\ n % BlockBytes <= n
    <2>1. n % BlockBytes \in 0..BlockBytes - 1 /\ (n \div BlockBytes) * BlockBytes \in Nat
          /\ n = (n \div BlockBytes) * BlockBytes + (n % BlockBytes)
      BY <1>0, Division
    <2> QED BY <2>1
  <1>2. (n + 1) % BlockBytes = IF (n % BlockBytes) + 1 = BlockBytes THEN 0 ELSE (n % BlockBytes) + 1
    BY <1>0, NextRemainder
  <1>3. 0 % BlockBytes = 0
    <2>1. 0 = 0 * BlockBytes + 0 /\ 0 \in 0..BlockBytes - 1 /\ 0 \in Nat
      BY <1>0
    <2> QED BY <1>0, <2>1, Quotient
  <1> DEFINE r == n % BlockBytes
             t == (n + 1) % BlockBytes
  <1> HIDE DEF r, t
  <1>4. r \in 0..BlockBytes - 1 /\ r <= n /\ t = IF r + 1 = BlockBytes THEN 0 ELSE r + 1
    BY <1>1, <1>2 DEF r, t
  <1>5. InBlocks(n) = (IF opcode \in BlockLoads THEN n - r ELSE 0) /\ InBlocks(n + 1) = IF opcode \in BlockLoads THEN (n + 1) - t ELSE 0
    BY DEF InBlocks, r, t
  <1>6. InBlocks(0) = 0
    BY <1>3 DEF InBlocks
  <1>7. InBlocks(n) \in 0..n
    BY <1>4, <1>5
  <1>8. opcode \in BlockLoads =>
                /\ n - InBlocks(n) = r
                /\ InBlocks(n + 1) = IF t = 0 THEN n + 1 ELSE InBlocks(n)
                /\ (n + 1) - InBlocks(n) = BlockBytes <=> t = 0
    BY <1>0, <1>4, <1>5
  <1> QED BY <1>5, <1>6, <1>7, <1>8 DEF r, t

(* The byte that is due, and what lies on the line behind it.              *)
LEMMA NextByte ==
  ASSUME Arriving, parsing.at = "PAYLOAD", line # <<>>
  PROVE  /\ sending \in Offered /\ payload \in Seq(Byte) /\ Len(payload) \in Nat /\ parsing.cnt \in 0..Len(payload) - 1
         /\ Tail(line) = From(parsing.cnt + 1 + 3)
         /\ Ends <=> parsing.cnt + 1 = Len(payload)
         /\ ~parsing.discard =>
                /\ Allowed
                /\ ValueNow = SubSeq(payload, InBlocks(parsing.cnt) + 1, parsing.cnt + 1)
                /\ ~WholeNow => InBlocks(parsing.cnt + 1) = InBlocks(parsing.cnt) /\ ~Ends
                /\ opcode \notin BlockLoads => (WholeNow <=> Ends) /\ InBlocks(parsing.cnt) = 0
                /\ opcode \in BlockLoads =>
                       /\ WholeNow <=> (parsing.cnt + 1) % BlockBytes = 0
                       /\ WholeNow => /\ InBlocks(parsing.cnt) = parsing.cnt + 1 - BlockBytes
                                      /\ InBlocks(parsing.cnt + 1) = parsing.cnt + 1
  <1> DEFINE n == Len(payload)
             c == parsing.cnt
             m == InBlocks(c) + 1
  <1>1. sending \in Offered /\ parsing.cmd = opcode /\ parsing.len = n /\ line = From(c + 3) /\ c \in 0..n - 1
        /\ (parsing.discard <=> ~Allowed) /\ (~parsing.discard => parsing.shift = SubSeq(payload, m, c))
    BY DEF Arriving
  <1>2. payload \in Seq(Byte) /\ n \in Nat
    BY <1>1, PacketOnLine
  <1> HIDE DEF n, c, m
  <1>3. c \in Nat /\ c + 3 \in 1..n + 2 /\ c + 1 \in 1..n /\ c + 1 + 2 = c + 3 /\ c + 3 + 1 = c + 1 + 3
    BY <1>1, <1>2
  <1>4. Head(line) = Whole(sending)[c + 3] /\ Tail(line) = From(c + 3 + 1)
    BY <1>1, <1>3, PacketOnLine DEF n
  <1>5. Whole(sending)[c + 1 + 2] = payload[c + 1]
    BY <1>1, <1>3, PacketOnLine DEF n
  <1>6. Head(line) = payload[c + 1] /\ Tail(line) = From(c + 1 + 3)
    BY <1>3, <1>4, <1>5
  <1>7. Ends <=> c + 1 = n
    BY <1>1 DEF Ends, c
  <1>8. ASSUME ~parsing.discard
        PROVE  /\ Allowed
               /\ ValueNow = SubSeq(payload, m, c + 1)
               /\ ~WholeNow => InBlocks(c + 1) = InBlocks(c) /\ ~Ends
               /\ opcode \notin BlockLoads => (WholeNow <=> Ends) /\ InBlocks(c) = 0
               /\ opcode \in BlockLoads =>
                      /\ WholeNow <=> (c + 1) % BlockBytes = 0
                      /\ WholeNow => InBlocks(c) = c + 1 - BlockBytes /\ InBlocks(c + 1) = c + 1
    <2>1. Allowed /\ parsing.shift = SubSeq(payload, m, c)
      BY <1>1, <1>8
    <2>2. m \in Nat /\ m \in 1..c + 1 /\ InBlocks(c) = m - 1 /\ InBlocks(c) \in 0..c
      <3>1. InBlocks(c) \in 0..c
        BY <1>3, BlocksOfPacket
      <3> QED BY <1>3, <3>1 DEF m
    <2>3. c + 1 <= n
      BY <1>3
    <2>4. Append(SubSeq(payload, m, c), payload[c + 1]) = SubSeq(payload, m, c + 1)
      BY <1>2, <1>3, <2>2, <2>3, SubSeqMore DEF n
    <2>5. ValueNow = SubSeq(payload, m, c + 1)
      BY <1>6, <2>1, <2>4 DEF ValueNow
    <2>6. Len(ValueNow) = (c + 1) - InBlocks(c)
      <3>1. \A i \in m..c + 1 : payload[i] \in Byte
        BY <1>2, <1>3, <2>2 DEF n
      <3>2. Len(SubSeq(payload, m, c + 1)) = IF m <= c + 1 THEN c + 1 - m + 1 ELSE 0
        BY <1>3, <2>2, <3>1, SubSeqProperties
      <3> QED BY <1>3, <2>2, <2>5, <3>2
    <2>7. WholeNow <=> (c + 1 = n \/ (opcode \in BlockLoads /\ (c + 1) - InBlocks(c) = BlockBytes))
      BY <1>1, <1>7, <2>6 DEF WholeNow
    <2>8. CASE opcode \notin BlockLoads
      <3>1. InBlocks(c) = 0 /\ InBlocks(c + 1) = 0
        BY <1>3, <2>8, BlocksOfPacket
      <3> QED BY <1>7, <2>1, <2>5, <2>7, <2>8, <3>1
    <2>9. CASE opcode \in BlockLoads
      <3>1. /\ InBlocks(c + 1) = IF (c + 1) % BlockBytes = 0 THEN c + 1 ELSE InBlocks(c)
            /\ (c + 1) - InBlocks(c) = BlockBytes <=> (c + 1) % BlockBytes = 0
        BY <1>3, <2>9, BlocksOfPacket
      <3>2. n % BlockBytes = 0
        BY <2>1, <2>9 DEF Allowed, LengthOk, BlockLoads, Starts, n
      <3>6. c + 1 = n => (c + 1) % BlockBytes = 0
        BY <3>2
      <3>3. WholeNow <=> (c + 1) % BlockBytes = 0
        <4>1. (c + 1) - InBlocks(c) = BlockBytes <=> (c + 1) % BlockBytes = 0
          BY <3>1
        <4>2. CASE c + 1 = n
          <5>1. WholeNow
            BY <2>7, <4>2
          <5> QED BY <3>6, <4>2, <5>1
        <4>3. CASE c + 1 # n /\ (c + 1) % BlockBytes = 0
          <5>1. (c + 1) - InBlocks(c) = BlockBytes
            BY <4>1, <4>3
          <5>2. WholeNow
            BY <2>7, <2>9, <5>1
          <5> QED BY <4>3, <5>2
        <4>4. CASE c + 1 # n /\ (c + 1) % BlockBytes # 0
          <5>1. (c + 1) - InBlocks(c) # BlockBytes
            BY <4>1, <4>4
          <5>2. ~WholeNow
            BY <2>7, <4>4, <5>1
          <5> QED BY <4>4, <5>2
        <4> QED BY <4>2, <4>3, <4>4
      <3>4. WholeNow => InBlocks(c) = c + 1 - BlockBytes /\ InBlocks(c + 1) = c + 1
        BY <1>3, <2>2, <3>1, <3>3, Units
      <3>5. ~WholeNow => InBlocks(c + 1) = InBlocks(c) /\ ~Ends
        BY <1>7, <2>7, <3>1, <3>3
      <3> QED BY <2>1, <2>5, <2>9, <3>3, <3>4, <3>5
    <2> QED BY <2>8, <2>9
  <1> QED BY <1>1, <1>2, <1>6, <1>7, <1>8 DEF n, c, m

(* A clock that keeps the packet keeps all that is said of its bytes.      *)
LEMMA SamePacket ==
  ASSUME sending' = sending
  PROVE  /\ opcode' = opcode /\ payload' = payload /\ (Allowed' <=> Allowed)
         /\ \A n : InBlocks(n)' = InBlocks(n)
         /\ \A k : From(k)' = From(k)
  <1>1. opcode' = opcode /\ payload' = payload
    BY DEF opcode, payload
  <1> QED BY <1>1 DEF Allowed, InBlocks, From, Whole

(* A packet comes to lie on the line from its first byte on.               *)
LEMMA WholePacket ==
  ASSUME NEW packet \in Offered
  PROVE  SubSeq(Whole(packet), 1, Len(packet[2]) + 2) = Whole(packet)
  <1> DEFINE p == packet[2]
             c == packet[1]
  <1>1. p \in Seq(Byte)
    BY PacketBytes
  <1>2. c \in Item /\ Len(p) \in Item /\ Byte \subseteq Item
    BY <1>1 DEF Item
  <1>3. Whole(packet) = <<c, Len(p)>> \o p
    BY DEF Whole
  <1> HIDE DEF p, c
  <1>4. p \in Seq(Item)
    BY <1>1, <1>2, SeqMonotonic
  <1>5. <<c, Len(p)>> \in Seq(Item) /\ Len(<<c, Len(p)>>) = 2
    BY <1>2
  <1>6. Whole(packet) \in Seq(Item) /\ Len(Whole(packet)) = Len(p) + 2
    <2> DEFINE h == <<c, Len(p)>>
    <2>1. h \in Seq(Item) /\ Len(h) = 2 /\ Whole(packet) = h \o p
      BY <1>3, <1>5
    <2> HIDE DEF h
    <2>2. Whole(packet) \in Seq(Item) /\ Len(Whole(packet)) = Len(h) + Len(p)
      BY <1>4, <2>1, ConcatProperties
    <2>3. Len(p) \in Nat
      BY <1>4
    <2> QED BY <2>1, <2>2, <2>3
  <1> QED BY <1>6, SubSeqFull DEF p

(* The host puts a packet on the line, or cuts the one that is there.      *)
LEMMA ArrivingHost ==
  ASSUME EngineInv, Arriving, SendPacket \/ CutPacket \/ UNCHANGED engineVars
  PROVE  Arriving'
  <1>1. CASE SendPacket
    <2>1. PICK packet \in Offered : sending' = packet /\ line' = Whole(packet)
      BY <1>1, EngineAssumption DEF SendPacket, Whole
    <2>2. parsing.at = "idle" /\ parsing' = parsing /\ parsing = ClearParser
      BY <1>1 DEF SendPacket, Arriving
    <2>3. From(1)' = SubSeq(Whole(packet), 1, Len(packet[2]) + 2)
      BY <2>1 DEF From, payload
    <2>4. line' = From(1)' /\ sending' \in Offered
      BY <2>1, <2>3, WholePacket
    <2> QED BY <2>2, <2>4 DEF Arriving
  <1>2. CASE CutPacket
    <2>1. sending' = sending /\ parsing' = parsing /\ line' = <<>> /\ parsing.at \in {"GET_LEN", "PAYLOAD"}
      BY <1>2 DEF CutPacket
    <2> QED BY <2>1, SamePacket DEF Arriving
  <1>3. CASE UNCHANGED engineVars
    <2>1. sending' = sending /\ parsing' = parsing /\ line' = line
      BY <1>3 DEF engineVars, parserVars
    <2> QED BY <2>1, SamePacket DEF Arriving
  <1> QED BY <1>1, <1>2, <1>3

(* A clock takes the byte that is due, or none.                            *)
LEMMA ArrivingClock ==
  ASSUME EngineInv, Arriving, NEW o \in BOOLEAN, Clock(o)
  PROVE  Arriving'
  <1>1. /\ parsing.at = "idle" => FromIdle
        /\ parsing.at = "GET_LEN" => FromLen
        /\ parsing.at = "CHECK_CMD" => FromCheck
        /\ parsing.at = "PAYLOAD" => FromPayload
        /\ parsing.at \in {"SETTLE_0", "SETTLE_1"} => FromSettle
    BY ParserClock DEF EngineInv, Shaped, Clock
  <1>2. parsing.at # "SETTLE_1" => /\ sending' = sending
                                   /\ opcode' = opcode /\ payload' = payload /\ (Allowed' <=> Allowed)
                                   /\ \A n : InBlocks(n)' = InBlocks(n)
                                   /\ \A k : From(k)' = From(k)
    BY SamePacket DEF Clock
  <1>3. parsing.at \in ParserStates
    BY DEF EngineInv, Strobing
  <1>4. CASE parsing.at = "idle"
    <2>1. CASE parsing' = ClearParser /\ Keeps
      <3>1. parsing'.at = "idle"
        BY <2>1 DEF ClearParser
      <3> QED BY <1>2, <1>4, <2>1, <3>1 DEF Arriving, Keeps
    <2>2. CASE Takes /\ Becomes("GET_LEN", Head(line), 0, 0, <<>>, FALSE)
      <3>1. sending \in Offered /\ line = From(1)
        BY <1>4, <2>2 DEF Arriving, Takes
      <3>2. Head(line) = opcode /\ Tail(line) = From(2)
        <4>1. 1 \in 1..Len(payload) + 2 /\ 1 + 1 = 2
          BY <3>1, PacketOnLine
        <4> QED BY <3>1, <4>1, PacketOnLine
      <3> QED BY <1>2, <1>4, <2>2, <3>1, <3>2 DEF Arriving, Becomes, Takes
    <2> QED BY <1>1, <1>4, <2>1, <2>2 DEF FromIdle
  <1>5. CASE parsing.at = "GET_LEN"
    <2>0. sending \in Offered /\ parsing.cmd = opcode /\ line \in {<<>>, From(2)}
          /\ parsing.cnt = 0 /\ parsing.shift = <<>> /\ ~parsing.discard
      BY <1>5 DEF Arriving
    <2>1. CASE Takes /\ Becomes("CHECK_CMD", parsing.cmd, Head(line), parsing.cnt, parsing.shift, parsing.discard)
      <3>1. line = From(2)
        BY <2>0, <2>1 DEF Takes
      <3>2. Head(line) = Len(payload) /\ Tail(line) = From(3)
        <4>1. 2 \in 1..Len(payload) + 2 /\ 2 + 1 = 3
          BY <2>0, PacketOnLine
        <4> QED BY <2>0, <3>1, <4>1, PacketOnLine
      <3> QED BY <1>2, <1>5, <2>0, <2>1, <3>2 DEF Arriving, Becomes, Takes
    <2>2. CASE Becomes("SETTLE_0", parsing.cmd, parsing.len, parsing.cnt, parsing.shift, parsing.discard) /\ Keeps /\ line = <<>>
      <3>1. parsing'.cnt \in 0..Len(payload)
        BY <2>0, <2>2, PacketOnLine DEF Becomes
      <3> QED BY <1>2, <1>5, <2>0, <2>2, <3>1 DEF Arriving, Becomes, Keeps
    <2>3. CASE parsing' = parsing /\ Keeps
      BY <1>2, <1>5, <2>3 DEF Arriving, Keeps
    <2> QED BY <1>1, <1>5, <2>1, <2>2, <2>3 DEF FromLen
  <1>6. CASE parsing.at = "CHECK_CMD"
    <2>0. sending \in Offered /\ parsing.cmd = opcode /\ line = From(3) /\ parsing.len = Len(payload)
          /\ parsing.cnt = 0 /\ parsing.shift = <<>> /\ ~parsing.discard
      BY <1>6 DEF Arriving
    <2>1. Opens <=> Allowed
      BY <2>0 DEF Opens, Allowed
    <2>2. Len(payload) \in Nat /\ (Len(payload) = 0 => line = <<>>)
      BY <2>0, PacketOnLine
    <2>3. Keeps /\ parsing'.cmd = opcode /\ parsing'.len = Len(payload) /\ parsing'.cnt = 0 /\ parsing'.shift = <<>>
          /\ (parsing'.discard <=> ~Allowed) /\ parsing'.at = IF Len(payload) = 0 THEN "SETTLE_0" ELSE "PAYLOAD"
      BY <1>1, <1>6, <2>0, <2>1, <2>2 DEF FromCheck, Becomes
    <2>4. payload \in Seq(Byte) /\ InBlocks(0) = 0 /\ SubSeq(payload, 1, 0) = <<>>
      BY <2>0, PacketOnLine, BlocksOfPacket, SubSeqEmpty
    <2>5. CASE Len(payload) = 0
      BY <1>2, <1>6, <2>0, <2>2, <2>3, <2>5 DEF Arriving, Keeps
    <2>6. CASE Len(payload) # 0
      <3>1. parsing'.cnt \in 0..Len(payload) - 1 /\ 0 + 3 = 3 /\ 0 + 1 = 1
        BY <2>2, <2>3, <2>6
      <3>2. parsing'.shift = SubSeq(payload, InBlocks(parsing'.cnt) + 1, parsing'.cnt)
        BY <2>3, <2>4, <3>1
      <3>3. line' = From(parsing'.cnt + 3)
        BY <2>0, <2>3, <3>1 DEF Keeps
      <3> QED BY <1>2, <1>6, <2>0, <2>3, <2>6, <3>1, <3>2, <3>3 DEF Arriving
    <2> QED BY <2>5, <2>6
  <1>7. CASE parsing.at = "PAYLOAD"
    <2>0. sending \in Offered /\ parsing.cmd = opcode /\ parsing.len = Len(payload)
          /\ line \in {<<>>, From(parsing.cnt + 3)} /\ parsing.cnt \in 0..Len(payload) - 1
          /\ (parsing.discard <=> ~Allowed)
      BY <1>7 DEF Arriving
    <2>01. payload \in Seq(Byte) /\ Len(payload) \in Nat /\ From(Len(payload) + 3) = <<>>
      BY <2>0, PacketOnLine
    <2>1. CASE Takes /\ ~parsing.discard
               /\ Becomes(IF Ends THEN "SETTLE_0" ELSE "PAYLOAD", parsing.cmd, parsing.len, parsing.cnt + 1,
                          IF WholeNow THEN <<>> ELSE ValueNow, parsing.discard)
      <3> DEFINE c == parsing.cnt
                 n == Len(payload)
      <3>1. Tail(line) = From(c + 1 + 3) /\ (Ends <=> c + 1 = n)
            /\ Allowed /\ ValueNow = SubSeq(payload, InBlocks(c) + 1, c + 1)
            /\ (~WholeNow => InBlocks(c + 1) = InBlocks(c) /\ ~Ends)
            /\ (opcode \notin BlockLoads => (WholeNow <=> Ends))
            /\ (opcode \in BlockLoads => (WholeNow => InBlocks(c + 1) = c + 1))
        BY <1>7, <2>1, NextByte DEF Takes
      <3>2. parsing'.cnt = c + 1 /\ line' = From(c + 1 + 3) /\ parsing'.shift = (IF WholeNow THEN <<>> ELSE ValueNow)
            /\ parsing'.at = (IF Ends THEN "SETTLE_0" ELSE "PAYLOAD") /\ parsing'.cmd = opcode /\ parsing'.len = n
            /\ ~parsing'.discard
        BY <2>0, <2>1, <3>1 DEF Becomes, Takes
      <3>3. c \in 0..n - 1 /\ n \in Nat
        BY <2>0, <2>01
      <3> HIDE DEF c, n
      <3>4. CASE Ends
        <4>1. c + 1 + 3 = n + 3 /\ c + 1 \in 0..n
          BY <3>1, <3>3, <3>4
        <4>2. line' = <<>>
          BY <2>01, <3>2, <4>1 DEF n
        <4>3. parsing'.at = "SETTLE_0" /\ parsing'.cnt \in 0..Len(payload) /\ parsing'.cmd = opcode
          BY <3>2, <3>4, <4>1 DEF n
        <4> QED BY <1>2, <1>7, <2>0, <4>2, <4>3 DEF Arriving
      <3>5. CASE ~Ends
        <4>1. c + 1 \in 0..n - 1
          BY <3>1, <3>3, <3>5
        <4>2. parsing'.shift = SubSeq(payload, InBlocks(c + 1) + 1, c + 1)
          <5>1. CASE WholeNow
            <6>1. InBlocks(c + 1) = c + 1
              BY <3>1, <3>5, <5>1
            <6>2. SubSeq(payload, c + 1 + 1, c + 1) = <<>>
              BY <2>01, <3>3, SubSeqEmpty
            <6> QED BY <3>2, <5>1, <6>1, <6>2
          <5>2. CASE ~WholeNow
            <6>1. InBlocks(c + 1) = InBlocks(c) /\ parsing'.shift = SubSeq(payload, InBlocks(c) + 1, c + 1)
              BY <3>1, <3>2, <5>2
            <6> QED BY <6>1
          <5> QED BY <5>1, <5>2
        <4>3. parsing'.at = "PAYLOAD" /\ ~Ends
          BY <3>2, <3>5
        <4>4. parsing'.cnt \in 0..Len(payload) - 1 /\ line' = From(parsing'.cnt + 3)
              /\ parsing'.shift = SubSeq(payload, InBlocks(parsing'.cnt) + 1, parsing'.cnt)
          BY <3>2, <4>1, <4>2 DEF n
        <4>5. parsing'.cmd = opcode /\ parsing'.len = Len(payload) /\ ~parsing'.discard /\ Allowed
          BY <3>1, <3>2 DEF n
        <4> QED BY <1>2, <1>7, <2>0, <4>3, <4>4, <4>5 DEF Arriving
      <3> QED BY <3>4, <3>5
    <2>2. CASE Takes /\ parsing.discard
               /\ Becomes(IF Ends THEN "SETTLE_0" ELSE "PAYLOAD", parsing.cmd, parsing.len, parsing.cnt + 1, parsing.shift, parsing.discard)
      <3> DEFINE c == parsing.cnt
                 n == Len(payload)
      <3>1. Tail(line) = From(c + 1 + 3) /\ (Ends <=> c + 1 = n)
        BY <1>7, <2>2, NextByte DEF Takes
      <3>2. parsing'.cnt = c + 1 /\ line' = From(c + 1 + 3)
            /\ parsing'.at = (IF Ends THEN "SETTLE_0" ELSE "PAYLOAD") /\ parsing'.cmd = opcode /\ parsing'.len = n
            /\ parsing'.discard
        BY <2>0, <2>2, <3>1 DEF Becomes, Takes
      <3>3. c \in 0..n - 1 /\ n \in Nat
        BY <2>0, <2>01
      <3> HIDE DEF c, n
      <3>4. CASE Ends
        <4>1. c + 1 + 3 = n + 3 /\ c + 1 \in 0..n
          BY <3>1, <3>3, <3>4
        <4>2. line' = <<>>
          BY <2>01, <3>2, <4>1 DEF n
        <4>3. parsing'.at = "SETTLE_0" /\ parsing'.cnt \in 0..Len(payload) /\ parsing'.cmd = opcode
          BY <3>2, <3>4, <4>1 DEF n
        <4> QED BY <1>2, <1>7, <2>0, <4>2, <4>3 DEF Arriving
      <3>5. CASE ~Ends
        <4>1. c + 1 \in 0..n - 1
          BY <3>1, <3>3, <3>5
        <4>2. parsing'.at = "PAYLOAD" /\ parsing'.cnt \in 0..Len(payload) - 1 /\ line' = From(parsing'.cnt + 3)
          BY <3>2, <3>5, <4>1 DEF n
        <4>3. parsing'.cmd = opcode /\ parsing'.len = Len(payload) /\ parsing'.discard /\ ~Allowed
          BY <2>0, <2>2, <3>2 DEF n
        <4> QED BY <1>2, <1>7, <2>0, <4>2, <4>3 DEF Arriving
      <3> QED BY <3>4, <3>5
    <2>3. CASE Becomes("SETTLE_0", parsing.cmd, parsing.len, parsing.cnt, parsing.shift, parsing.discard) /\ Keeps /\ line = <<>>
      <3>1. parsing'.cnt \in 0..Len(payload)
        BY <2>0, <2>01, <2>3 DEF Becomes
      <3> QED BY <1>2, <1>7, <2>0, <2>3, <3>1 DEF Arriving, Becomes, Keeps
    <2>4. CASE parsing' = parsing /\ Keeps
      BY <1>2, <1>7, <2>4 DEF Arriving, Keeps
    <2> QED BY <1>1, <1>7, <2>1, <2>2, <2>3, <2>4 DEF FromPayload
  <1>8. CASE parsing.at = "SETTLE_0"
    <2>1. Becomes("SETTLE_1", parsing.cmd, parsing.len, parsing.cnt, parsing.shift, parsing.discard) /\ Keeps
      BY <1>1, <1>8 DEF FromSettle
    <2> QED BY <1>2, <1>8, <2>1 DEF Arriving, Becomes, Keeps
  <1>9. CASE parsing.at = "SETTLE_1"
    <2>1. parsing' = ClearParser /\ Keeps /\ sending' = Nothing /\ line = <<>>
      BY <1>1, <1>9 DEF FromSettle, Clock, Arriving
    <2>2. parsing'.at = "idle"
      BY <2>1 DEF ClearParser
    <2> QED BY <2>1, <2>2 DEF Arriving, Keeps
  <1> QED BY <1>3, <1>4, <1>5, <1>6, <1>7, <1>8, <1>9 DEF ParserStates

Refusals == {"ERR_LEN", "ERR_UNKNOWN", "ERR_TIMEOUT"}

(* Loads, starts, refusals and the rest are different opcodes.             *)
LEMMA Opcodes ==
  /\ Loads = {"LOAD_KEY", "LOAD_IV", "LOAD_AAD", "LOAD_PLAINTEXT", "LOAD_TAG_REF"}
  /\ Starts = {"START_ENCRYPT", "START_DECRYPT"}
  /\ BlockLoads = {"LOAD_AAD", "LOAD_PLAINTEXT"}
  /\ Allowed => opcode \in Loads \union Starts
  /\ Allowed /\ opcode \in BlockLoads => Len(payload) > 0 /\ Len(payload) % BlockBytes = 0
  /\ Allowed /\ opcode \in Starts => Len(payload) = 0
  <1>1. /\ Loads = {"LOAD_KEY", "LOAD_IV", "LOAD_AAD", "LOAD_PLAINTEXT", "LOAD_TAG_REF"}
        /\ Starts = {"START_ENCRYPT", "START_DECRYPT"}
        /\ BlockLoads = {"LOAD_AAD", "LOAD_PLAINTEXT"}
    BY DEF Loads, CMD_ACKS, Starts, BlockLoads
  <1>2. Allowed => opcode \in Loads \union Starts
    BY <1>1 DEF Allowed, LengthOk
  <1>3. Allowed /\ opcode \in BlockLoads => Len(payload) > 0 /\ Len(payload) % BlockBytes = 0
    BY <1>1 DEF Allowed, LengthOk
  <1>4. Allowed /\ opcode \in Starts => Len(payload) = 0
    BY <1>1 DEF Allowed, LengthOk
  <1> QED BY <1>1, <1>2, <1>3, <1>4

(* Without a strobe there is nothing to say of it.                         *)
LEMMA NothingDelivered ==
  ASSUME strobe = NoStrobe, parsing.at # "SETTLE_0"
  PROVE  Delivered
  BY Opcodes DEF Delivered, NoStrobe

(* The host does not touch the strobe.                                     *)
LEMMA DeliveredHost ==
  ASSUME EngineInv, Delivered, SendPacket \/ CutPacket \/ UNCHANGED engineVars
  PROVE  Delivered'
  <1>1. CASE SendPacket
    <2>1. parsing.at = "idle" /\ parsing' = parsing /\ strobe' = strobe
      BY <1>1 DEF SendPacket
    <2>2. strobe' = NoStrobe /\ parsing'.at # "SETTLE_0"
      BY <2>1 DEF EngineInv, Strobing
    <2>3. strobe'.event = "none"
      BY <2>2 DEF NoStrobe
    <2> QED BY <2>2, <2>3, Opcodes DEF Delivered
  <1>2. CASE CutPacket \/ UNCHANGED engineVars
    <2>1. sending' = sending /\ parsing' = parsing /\ strobe' = strobe
      BY <1>2 DEF CutPacket, engineVars, parserVars
    <2> QED BY <2>1, SamePacket DEF Delivered
  <1> QED BY <1>1, <1>2

(* What a strobe tells the engine is what was sent.                        *)
LEMMA DeliveredClock ==
  ASSUME EngineInv, Arriving, Delivered, NEW o \in BOOLEAN, Clock(o)
  PROVE  Delivered'
  <1>1. /\ parsing.at = "idle" => FromIdle
        /\ parsing.at = "GET_LEN" => FromLen
        /\ parsing.at = "CHECK_CMD" => FromCheck
        /\ parsing.at = "PAYLOAD" => FromPayload
        /\ parsing.at \in {"SETTLE_0", "SETTLE_1"} => FromSettle
    BY ParserClock DEF EngineInv, Shaped, Clock
  <1>2. parsing.at # "SETTLE_1" => /\ sending' = sending
                                   /\ opcode' = opcode /\ payload' = payload /\ (Allowed' <=> Allowed)
    BY SamePacket DEF Clock
  <1>3. parsing.at \in ParserStates
    BY DEF EngineInv, Strobing
  <1>4. ASSUME strobe' = NoStrobe, parsing'.at # "SETTLE_0" \/ parsing'.discard PROVE Delivered'
    <2>1. strobe'.event = "none"
      BY <1>4 DEF NoStrobe
    <2> QED BY <1>4, <2>1, Opcodes DEF Delivered
  <1>5. CASE parsing.at = "idle"
    <2>1. strobe' = NoStrobe /\ parsing'.at # "SETTLE_0"
      BY <1>1, <1>5 DEF FromIdle, ClearParser, Becomes
    <2> QED BY <1>4, <2>1
  <1>6. ASSUME parsing.at # "SETTLE_1", sending \in Offered, parsing.cmd = opcode, strobe' = Report("ERR_TIMEOUT"),
               parsing'.cnt = 0 \/ parsing'.cnt < Len(payload)
        PROVE  Delivered'
    <2>1. strobe'.event = "ERR_TIMEOUT" /\ strobe'.value = opcode /\ strobe'.done
      BY <1>6 DEF Report
    <2> QED BY <1>2, <1>6, <2>1, Opcodes DEF Delivered
  <1>7. CASE parsing.at = "GET_LEN"
    <2>1. sending \in Offered /\ parsing.cmd = opcode /\ parsing.cnt = 0
      BY <1>7 DEF Arriving
    <2>2. \/ strobe' = NoStrobe /\ parsing'.at # "SETTLE_0"
          \/ strobe' = Report("ERR_TIMEOUT") /\ parsing'.cnt = 0
      BY <1>1, <1>7, <2>1 DEF FromLen, Becomes
    <2> QED BY <1>4, <1>6, <1>7, <2>1, <2>2
  <1>8. CASE parsing.at = "CHECK_CMD"
    <2>1. sending \in Offered /\ parsing.cmd = opcode /\ parsing.len = Len(payload) /\ ~parsing.discard /\ (Opens <=> Allowed)
      BY <1>8 DEF Arriving, Opens, Allowed
    <2>2. \/ ~Allowed /\ parsing'.discard /\ strobe' = Report(IF Known(opcode) THEN "ERR_LEN" ELSE "ERR_UNKNOWN")
          \/ Allowed /\ Len(payload) = 0 /\ strobe' = [event |-> opcode, value |-> <<>>, done |-> TRUE] /\ ~parsing'.discard
          \/ strobe' = NoStrobe /\ parsing'.at # "SETTLE_0"
      BY <1>1, <1>8, <2>1 DEF FromCheck, Becomes
    <2>3. CASE ~Allowed /\ parsing'.discard /\ strobe' = Report(IF Known(opcode) THEN "ERR_LEN" ELSE "ERR_UNKNOWN")
      <3>1. /\ strobe'.event = (IF Known(opcode) THEN "ERR_LEN" ELSE "ERR_UNKNOWN") /\ strobe'.value = opcode /\ strobe'.done
        BY <2>1, <2>3 DEF Report
      <3>2. Known(opcode') <=> Known(opcode)
        BY <1>2, <1>8
      <3> QED BY <1>2, <1>8, <2>3, <3>1, <3>2, Opcodes DEF Delivered
    <2>4. CASE Allowed /\ Len(payload) = 0 /\ strobe' = [event |-> opcode, value |-> <<>>, done |-> TRUE] /\ ~parsing'.discard
      <3>1. strobe'.event = opcode /\ strobe'.value = <<>> /\ strobe'.done
        BY <2>4
      <3>2. payload = <<>>
        <4>1. payload \in Seq(Byte)
          BY <2>1, PacketOnLine
        <4> QED BY <2>4, <4>1, EmptySeq
      <3>3. opcode \in Loads \union Starts /\ opcode \notin BlockLoads
        BY <2>4, Opcodes
      <3> QED BY <1>2, <1>8, <2>4, <3>1, <3>2, <3>3, Opcodes DEF Delivered
    <2> QED BY <1>4, <2>2, <2>3, <2>4
  <1>9. CASE parsing.at = "PAYLOAD"
    <2>0. sending \in Offered /\ parsing.cmd = opcode /\ parsing.cnt \in 0..Len(payload) - 1
      BY <1>9 DEF Arriving
    <2>01. payload \in Seq(Byte) /\ Len(payload) \in Nat
      BY <2>0, PacketOnLine
    <2>1. CASE /\ Takes /\ ~parsing.discard
               /\ Becomes(IF Ends THEN "SETTLE_0" ELSE "PAYLOAD", parsing.cmd, parsing.len, parsing.cnt + 1,
                          IF WholeNow THEN <<>> ELSE ValueNow, parsing.discard)
               /\ strobe' = IF WholeNow THEN [event |-> parsing.cmd, value |-> ValueNow, done |-> Ends] ELSE NoStrobe
      <3> DEFINE c == parsing.cnt
                 n == Len(payload)
      <3>1. /\ Ends <=> c + 1 = n
            /\ Allowed /\ ValueNow = SubSeq(payload, InBlocks(c) + 1, c + 1)
            /\ ~WholeNow => ~Ends
            /\ opcode \notin BlockLoads => (WholeNow <=> Ends) /\ InBlocks(c) = 0
            /\ opcode \in BlockLoads =>
                   /\ WholeNow <=> (c + 1) % BlockBytes = 0
                   /\ WholeNow => InBlocks(c) = c + 1 - BlockBytes
        BY <1>9, <2>1, NextByte DEF Takes
      <3>2. parsing'.cnt = c + 1 /\ ~parsing'.discard /\ parsing'.at = (IF Ends THEN "SETTLE_0" ELSE "PAYLOAD")
        BY <2>1 DEF Becomes
      <3>3. c \in 0..n - 1 /\ n \in Nat /\ InBlocks(c) \in 0..c
        BY <2>0, <2>01, BlocksOfPacket
      <3>4. CASE ~WholeNow
        <4>1. strobe' = NoStrobe /\ parsing'.at # "SETTLE_0"
          BY <2>1, <3>1, <3>2, <3>4
        <4> QED BY <1>4, <4>1
      <3>5. CASE WholeNow
        <4>1. strobe'.event = opcode /\ strobe'.value = SubSeq(payload, InBlocks(c) + 1, c + 1) /\ strobe'.done = Ends
          BY <2>0, <2>1, <3>1, <3>5
        <4>2. opcode \in Loads \union Starts
          BY <3>1, Opcodes
        <4>3. CASE opcode \in BlockLoads
          <5>1. InBlocks(c) = (c + 1) - BlockBytes /\ (c + 1) % BlockBytes = 0
            BY <3>1, <3>3, <3>5, <4>3, Units
          <5>2. parsing'.cnt \in BlockBytes..Len(payload) /\ parsing'.cnt % BlockBytes = 0
            <6>1. c + 1 \in BlockBytes..n
              BY <3>3, <5>1, Units
            <6> QED BY <3>2, <5>1, <6>1
          <5>3. strobe'.value = SubSeq(payload, parsing'.cnt - BlockBytes + 1, parsing'.cnt)
            BY <3>2, <4>1, <5>1
          <5>4. strobe'.done <=> parsing'.cnt = Len(payload)
            BY <3>1, <3>2, <4>1
          <5>5. parsing'.at = "SETTLE_0" => strobe'.done
            BY <3>2, <4>1
          <5>6. opcode \in Loads
            BY <4>3, Opcodes
          <5> QED BY <1>2, <1>9, <3>1, <3>2, <4>1, <4>3, <5>2, <5>3, <5>4, <5>5, <5>6, Opcodes DEF Delivered
        <4>4. CASE opcode \notin BlockLoads
          <5>1. InBlocks(c) = 0 /\ c + 1 = n
            BY <3>1, <3>5, <4>4
          <5>2. strobe'.value = payload
            BY <2>01, <4>1, <5>1, SubSeqFull
          <5> QED BY <1>2, <1>9, <3>1, <3>2, <4>1, <4>2, <4>4, <5>2, Opcodes DEF Delivered
        <4> QED BY <4>3, <4>4
      <3> QED BY <3>4, <3>5
    <2>2. CASE strobe' = NoStrobe /\ (parsing'.at # "SETTLE_0" \/ parsing'.discard)
      BY <1>4, <2>2
    <2>3. CASE parsing'.cnt = parsing.cnt /\ strobe' = Report("ERR_TIMEOUT")
      <3>1. parsing'.cnt < Len(payload)
        BY <2>0, <2>01, <2>3
      <3> QED BY <1>6, <1>9, <2>0, <2>3, <3>1
    <2> QED BY <1>1, <1>9, <2>1, <2>2, <2>3 DEF FromPayload, Becomes
  <1>10. CASE parsing.at \in {"SETTLE_0", "SETTLE_1"}
    <2>1. strobe' = NoStrobe /\ parsing'.at # "SETTLE_0"
      BY <1>1, <1>10 DEF FromSettle, Becomes, ClearParser
    <2> QED BY <1>4, <2>1
  <1> QED BY <1>3, <1>5, <1>7, <1>8, <1>9, <1>10 DEF ParserStates

-----------------------------------------------------------------------------
(* THE BUFFERS                                                             *)
(* Blocks that arrive one by one are the bytes that CommandSpec stores at  *)
(* once, when the packet has come to its end.                              *)
Blocks == InBlocksOf(Byte, BlockBytes)
Limit == MaxDataBytes + BlockBytes

(* Room in a buffer is a whole number of blocks; Limit is one block more.  *)
LEMMA Limits ==
  /\ MaxDataBytes \in Nat /\ Limit \in Nat \ {0} /\ MaxDataBytes < Limit /\ BlockBytes <= MaxDataBytes
  /\ \A k \in 0..MaxDataBlocks : k * BlockBytes \in 0..MaxDataBytes
  /\ \A k \in 0..MaxDataBlocks - 1 : k * BlockBytes + BlockBytes <= MaxDataBytes
  <1>1. BlockBytes \in Nat \ {0} /\ MaxDataBlocks \in Nat \ {0}
    BY Units
  <1>2. MaxDataBytes \in Nat
    BY <1>1 DEF MaxDataBytes
  <1>3. ASSUME NEW k \in 0..MaxDataBlocks PROVE k * BlockBytes \in 0..MaxDataBytes
    <2>1. PICK e \in Nat : MaxDataBlocks = k + e
      <3>1. MaxDataBlocks - k \in Nat /\ MaxDataBlocks = k + (MaxDataBlocks - k)
        BY <1>1
      <3> QED BY <3>1
    <2>2. (k + e) * BlockBytes = k * BlockBytes + e * BlockBytes /\ k * BlockBytes \in Nat /\ e * BlockBytes \in Nat
      BY <1>1, <2>1
    <2> DEFINE x == k * BlockBytes
               y == e * BlockBytes
    <2>3. MaxDataBytes = x + y /\ x \in Nat /\ y \in Nat
      BY <2>1, <2>2 DEF MaxDataBytes
    <2> HIDE DEF x, y
    <2>4. x \in 0..MaxDataBytes
      BY <1>2, <2>3
    <2> QED BY <2>4 DEF x
  <1>4. ASSUME NEW k \in 0..MaxDataBlocks - 1 PROVE k * BlockBytes + BlockBytes <= MaxDataBytes
    <2>1. k + 1 \in 0..MaxDataBlocks
      BY <1>1
    <2>2. (k + 1) * BlockBytes \in 0..MaxDataBytes
      BY <1>3, <2>1
    <2>3. (k + 1) * BlockBytes = k * BlockBytes + BlockBytes /\ k * BlockBytes \in Nat
      BY <1>1
    <2> QED BY <1>1, <1>2, <2>2, <2>3
  <1>5. 1 * BlockBytes = BlockBytes /\ 1 \in 0..MaxDataBlocks
    BY <1>1
  <1>6. BlockBytes <= MaxDataBytes
    <2>1. 1 * BlockBytes \in 0..MaxDataBytes
      BY <1>3, <1>5
    <2> QED BY <1>1, <1>2, <1>5, <2>1
  <1> QED BY <1>1, <1>2, <1>3, <1>4, <1>6 DEF Limit

(* What a load leaves, and one block more.                                 *)
LEMMA StoredIs ==
  ASSUME NEW old \in Seq(Byte), NEW new \in Seq(Byte)
  PROVE  LET all == old \o new
             n == Len(all)
         IN  /\ all \in Seq(Byte) /\ n \in Nat
             /\ Stored(old, new) = SubSeq(all, (n \div Limit) * Limit + 1, n)
             /\ Stored(old, new) \in Seq(Byte) /\ Len(Stored(old, new)) = n % Limit
             /\ (n \div Limit) * Limit \in Nat /\ n \div Limit \in Nat /\ n % Limit \in 0..Limit - 1
             /\ n = (n \div Limit) * Limit + (n % Limit)
  <1> DEFINE all == old \o new
             n == Len(all)
             d == (n \div Limit) * Limit
             r == n % Limit
  <1>1. all \in Seq(Byte) /\ n \in Nat
    BY ConcatProperties
  <1> HIDE DEF all
  <1>2. d \in Nat /\ n \div Limit \in Nat /\ r \in 0..Limit - 1 /\ n = d + r
    BY <1>1, Limits, Division
  <1>3. Stored(old, new) = SubSeq(all, d + 1, n)
    BY DEF Stored, Limit, all
  <1> HIDE DEF d, r
  <1>4. SubSeq(all, d + 1, n) \in Seq(Byte) /\ Len(SubSeq(all, d + 1, n)) = n - d
    <2>1. d <= Len(all)
      BY <1>1, <1>2, Limits
    <2> QED BY <1>1, <1>2, <2>1, SubSeqTail
  <1>5. n - d = r
    BY <1>1, <1>2, Limits
  <1> QED BY <1>1, <1>2, <1>3, <1>4, <1>5 DEF d, r, all

(* A load of nothing leaves what was there.                                *)
LEMMA StoredNone ==
  ASSUME NEW old \in Seq(Byte), Len(old) <= MaxDataBytes
  PROVE  Stored(old, <<>>) = old
  <1>1. old \o <<>> = old /\ <<>> \in Seq(Byte) /\ Len(old) \in Nat
    BY ConcatEmptySeq, EmptySeq
  <1>2. Len(old) \div Limit = 0
    <2>1. Len(old) \in 0..Limit - 1 /\ Len(old) = 0 * Limit + Len(old)
      BY <1>1, Limits
    <2> QED BY <1>1, <2>1, Limits, Quotient
  <1>3. Stored(old, <<>>) = SubSeq(old, 0 * Limit + 1, Len(old))
    BY <1>1, <1>2 DEF Stored, Limit
  <1>4. 0 * Limit + 1 = 1
    BY Limits
  <1> QED BY <1>3, <1>4, SubSeqFull

(* One block more, or none at all where the four bits wrap.                *)
LEMMA StoredMore ==
  ASSUME NEW old \in Seq(Byte), NEW new \in Seq(Byte), NEW block \in Seq(Byte), Len(block) = BlockBytes,
         NEW k \in 0..MaxDataBlocks, Len(Stored(old, new)) = k * BlockBytes
  PROVE  Stored(old, new \o block) = IF k = MaxDataBlocks THEN <<>> ELSE Stored(old, new) \o block
  <1> DEFINE all == old \o new
             more == old \o (new \o block)
             n == Len(all)
             q == n \div Limit
             d == q * Limit
             r == n % Limit
  <1>1. /\ all \in Seq(Byte) /\ n \in Nat /\ Stored(old, new) = SubSeq(all, d + 1, n)
        /\ Len(Stored(old, new)) = r /\ d \in Nat /\ q \in Nat /\ r \in 0..Limit - 1 /\ n = d + r
    BY StoredIs
  <1>2. new \o block \in Seq(Byte) /\ more = all \o block
    <2>1. new \o block \in Seq(Byte)
      BY ConcatProperties
    <2>2. (old \o new) \o block = old \o (new \o block)
      OBVIOUS
    <2> QED BY <2>1, <2>2
  <1>3. Stored(old, new \o block) = SubSeq(more, (Len(more) \div Limit) * Limit + 1, Len(more))
    BY DEF Stored, Limit
  <1>4. d = q * Limit
    OBVIOUS
  <1> HIDE DEF all, more, n, q, d, r
  <1>5. n = Len(all)
    BY DEF n
  <1>6. /\ d <= Len(all) /\ Len(more) = n + BlockBytes
        /\ SubSeq(more, d + 1, n + BlockBytes) = SubSeq(all, d + 1, n) \o block
    <2>1. d <= Len(all)
      BY <1>1, <1>5, Limits
    <2>2. PICK e \in Nat : e = d
      BY <1>1
    <2>3. all \in Seq(Byte) /\ block \in Seq(Byte) /\ e <= Len(all)
      BY <1>1, <2>1, <2>2
    <2>4. Len(all \o block) = Len(all) + Len(block)
      BY <2>3, ConcatProperties
    <2>5. SubSeq(all \o block, e + 1, Len(all) + Len(block)) = SubSeq(all, e + 1, Len(all)) \o block
      BY <2>3, SubSeqTail, ZenonT(60)
    <2> QED BY <1>2, <1>5, <2>1, <2>2, <2>4, <2>5
  <1>7. r = k * BlockBytes
    BY <1>1
  <1>8. Limit \in Nat \ {0} /\ BlockBytes \in Nat \ {0} /\ n + BlockBytes \in Nat
    BY <1>1, Limits, Units
  <1>9. CASE k = MaxDataBlocks
    <2>1. r = MaxDataBytes
      BY <1>7, <1>9 DEF MaxDataBytes
    <2>2. n + BlockBytes = (q + 1) * Limit + 0 /\ 0 \in 0..Limit - 1 /\ q + 1 \in Nat
      <3>1. (q + 1) * Limit = q * Limit + Limit
        BY <1>1, <1>8
      <3>2. (q + 1) * Limit = d + Limit
        BY <1>4, <3>1
      <3>3. Limit = r + BlockBytes
        BY <2>1, Limits DEF Limit
      <3>4. n + BlockBytes = d + Limit
        BY <1>1, <1>8, <3>3
      <3> QED BY <1>1, <1>8, <3>2, <3>4
    <2>3. (n + BlockBytes) \div Limit = q + 1
      BY <1>8, <2>2, Quotient
    <2>4. (q + 1) * Limit = n + BlockBytes
      BY <1>1, <1>8, <2>2
    <2>5. Stored(old, new \o block) = SubSeq(more, n + BlockBytes + 1, n + BlockBytes)
      BY <1>3, <1>6, <2>3, <2>4
    <2>6. SubSeq(more, n + BlockBytes + 1, n + BlockBytes) = <<>>
      BY <1>8, SubSeqEmpty
    <2> QED BY <1>9, <2>5, <2>6
  <1>10. CASE k # MaxDataBlocks
    <2>1. k \in 0..MaxDataBlocks - 1
      BY <1>10, Units
    <2>2. r + BlockBytes <= MaxDataBytes
      BY <1>7, <2>1, Limits
    <2>3. r + BlockBytes \in 0..Limit - 1 /\ n + BlockBytes = d + (r + BlockBytes)
      BY <1>1, <1>8, <2>2, Limits
    <2>4. (n + BlockBytes) \div Limit = q
      <3>1. n + BlockBytes = q * Limit + (r + BlockBytes)
        BY <1>4, <2>3
      <3> DEFINE n2 == n + BlockBytes
                 r2 == r + BlockBytes
      <3>2. n2 \in Nat /\ r2 \in 0..Limit - 1 /\ n2 = q * Limit + r2 /\ q \in Nat
        BY <1>1, <1>8, <2>3, <3>1
      <3> HIDE DEF n2, r2
      <3>3. n2 \div Limit = q
        BY <1>8, <3>2, Quotient
      <3> QED BY <3>3 DEF n2
    <2>5. Stored(old, new \o block) = SubSeq(more, d + 1, n + BlockBytes)
      BY <1>3, <1>4, <1>6, <2>4
    <2> QED BY <1>1, <1>6, <1>10, <2>5
  <1> QED BY <1>9, <1>10

(* The blocks of a buffer, one after the other.                            *)
LEMMA BufferIs ==
  ASSUME NEW s \in Blocks
  PROVE  /\ s \in Seq(Seq(Byte)) /\ Len(s) \in Nat
         /\ FlattenSeq(s) \in Seq(Byte) /\ Len(FlattenSeq(s)) = Len(s) * BlockBytes
         /\ FlattenSeq(s) = <<>> <=> s = <<>>
  <1>1. s \in Seq(Seq(Byte)) /\ Len(s) \in Nat /\ BlockBytes \in Nat \ {0}
    BY Units DEF Blocks, InBlocksOf
  <1>2. Flattened(Byte, BlockBytes, s, Len(s))
    BY <1>1, FlattenBlocks DEF Blocks
  <1>3. FlattenSeq(s) \in Seq(Byte) /\ Len(FlattenSeq(s)) = Len(s) * BlockBytes
    BY <1>2 DEF Flattened
  <1>4. s = <<>> => FlattenSeq(s) = <<>>
    BY FlattenEmpty
  <1>5. s # <<>> => FlattenSeq(s) # <<>>
    <2> SUFFICES ASSUME s # <<>> PROVE FlattenSeq(s) # <<>>
      OBVIOUS
    <2>1. Len(s) \in Nat \ {0}
      BY <1>1, EmptySeq
    <2> DEFINE n == Len(s)
               b == BlockBytes
    <2>2. n \in Nat \ {0} /\ b \in Nat \ {0} /\ Len(FlattenSeq(s)) = n * b
      BY <1>1, <1>3, <2>1
    <2> HIDE DEF n, b
    <2>3. n * b # 0
      BY <2>2
    <2> QED BY <2>2, <2>3, NotEmpty
  <1> QED BY <1>1, <1>3, <1>4, <1>5

(* A block written into a buffer that has room, or is full and wraps.      *)
LEMMA WriteIs ==
  ASSUME NEW s \in Blocks, Len(s) <= MaxDataBlocks, NEW block \in Seq(Byte), Len(block) = BlockBytes
  PROVE  /\ Write(s, block) \in Blocks /\ Len(Write(s, block)) <= MaxDataBlocks
         /\ FlattenSeq(Write(s, block)) = IF Len(s) = MaxDataBlocks THEN <<>> ELSE FlattenSeq(s) \o block
  <1>1. s \in Seq(Seq(Byte)) /\ Len(s) \in Nat /\ \A i \in DOMAIN s : Len(s[i]) = BlockBytes
    BY DEF Blocks, InBlocksOf
  <1>2. CASE Len(s) = MaxDataBlocks
    <2>1. Write(s, block) = <<>>
      BY <1>2 DEF Write
    <2>2. <<>> \in Blocks /\ Len(<<>>) <= MaxDataBlocks
      <3>1. <<>> \in Seq(Seq(Byte)) /\ Len(<<>>) = 0 /\ DOMAIN <<>> = {}
        BY EmptySeq
      <3> QED BY <3>1, Units DEF Blocks, InBlocksOf
    <2> QED BY <1>2, <2>1, <2>2, FlattenEmpty
  <1>3. CASE Len(s) # MaxDataBlocks
    <2>1. Write(s, block) = Append(s, block)
      BY <1>3 DEF Write
    <2>2. /\ Append(s, block) \in Seq(Seq(Byte)) /\ Len(Append(s, block)) = Len(s) + 1
          /\ \A i \in 1..Len(s) : Append(s, block)[i] = s[i]
          /\ Append(s, block)[Len(s) + 1] = block
      BY <1>1, AppendProperties
    <2> DEFINE t == Append(s, block)
    <2>3. t \in Seq(Seq(Byte)) /\ Len(t) = Len(s) + 1 /\ (\A i \in 1..Len(s) : t[i] = s[i]) /\ t[Len(s) + 1] = block
      BY <2>2
    <2> HIDE DEF t
    <2>4. \A i \in DOMAIN t : Len(t[i]) = BlockBytes
      <3> TAKE i \in DOMAIN t
      <3>1. i \in 1..Len(s) + 1
        BY <2>3, LenProperties
      <3>2. CASE i = Len(s) + 1
        BY <2>3, <3>2
      <3>3. CASE i # Len(s) + 1
        <4>1. i \in 1..Len(s) /\ i \in DOMAIN s
          BY <1>1, <3>1, <3>3
        <4> QED BY <1>1, <2>3, <4>1
      <3> QED BY <3>2, <3>3
    <2>5. t \in Blocks /\ Len(t) <= MaxDataBlocks
      BY <1>1, <1>3, <2>3, <2>4, Units DEF Blocks, InBlocksOf
    <2>6. FlattenSeq(t) = FlattenSeq(s) \o block
      BY <1>1, FlattenAppend DEF t
    <2> QED BY <1>3, <2>1, <2>5, <2>6 DEF t
  <1> QED BY <1>2, <1>3

-----------------------------------------------------------------------------
(* The buffers and the engine of CommandSpec, field by field.              *)
RegsAt(k, i, t, a, p) == [key |-> k, iv |-> i, tag_ref |-> t, aad |-> a, pt |-> p]
ModelAt(k, i, t, a, d) == [key |-> k, iv |-> i, aad |-> a, data |-> d, tag_ref |-> t]
RegsShaped == \E k, i, t, a, p : regs = RegsAt(k, i, t, a, p)
ModelShaped == \E k, i, t, a, d : model = ModelAt(k, i, t, a, d)
Buffered(s) == s \in Blocks /\ Len(s) <= MaxDataBlocks
MessageData(s) == s \in Seq(Byte) /\ Len(s) <= MaxDataBytes
Typed ==
    /\ RegsShaped /\ Buffered(regs.aad) /\ Buffered(regs.pt)
    /\ ModelShaped /\ MessageData(model.aad) /\ MessageData(model.data)

(* The buffers are a record of five fields.                                *)
LEMMA RegsFields ==
  ASSUME RegsShaped
  PROVE  regs = RegsAt(regs.key, regs.iv, regs.tag_ref, regs.aad, regs.pt)
  BY DEF RegsShaped, RegsAt

(* So is the engine of CommandSpec.                                        *)
LEMMA ModelFields ==
  ASSUME ModelShaped
  PROVE  model = ModelAt(model.key, model.iv, model.tag_ref, model.aad, model.data)
  BY DEF ModelShaped, ModelAt

RegsBecome(k, i, t, a, p) ==
    RegsShaped' /\ regs'.key = k /\ regs'.iv = i /\ regs'.tag_ref = t /\ regs'.aad = a /\ regs'.pt = p
ModelBecomes(k, i, t, a, d) ==
    ModelShaped' /\ model'.key = k /\ model'.iv = i /\ model'.tag_ref = t /\ model'.aad = a /\ model'.data = d

(* What a clock does to the buffers.                                       *)
LEMMA RegsClock ==
  ASSUME RegsShaped, BufferStep
  PROVE  /\ strobe = NoStrobe /\ message_done => RegsBecome(regs.key, regs.iv, <<>>, <<>>, <<>>)
         /\ ~message_done =>
                /\ strobe.event = "LOAD_KEY" =>
                       RegsBecome(IF key_len_bad THEN regs.key ELSE strobe.value, regs.iv, <<>>, <<>>, <<>>)
                /\ strobe.event = "LOAD_IV" => RegsBecome(regs.key, strobe.value, <<>>, <<>>, <<>>)
                /\ strobe.event = "LOAD_TAG_REF" => RegsBecome(regs.key, regs.iv, strobe.value, regs.aad, regs.pt)
                /\ strobe.event = "LOAD_AAD" =>
                       RegsBecome(regs.key, regs.iv, regs.tag_ref, Write(regs.aad, strobe.value), regs.pt)
                /\ strobe.event = "LOAD_PLAINTEXT" =>
                       RegsBecome(regs.key, regs.iv, regs.tag_ref, regs.aad, Write(regs.pt, strobe.value))
                /\ strobe.event \notin Loads => regs' = regs
  <1> DEFINE k == regs.key
             i == regs.iv
             t == regs.tag_ref
             a == regs.aad
             p == regs.pt
             v == strobe.value
  <1>1. regs = RegsAt(k, i, t, a, p)
    BY RegsFields
  <1> HIDE DEF k, i, t, a, p, v
  <1>2. ASSUME NEW x, NEW y, NEW z, NEW b, NEW c, regs' = RegsAt(x, y, z, b, c) PROVE RegsBecome(x, y, z, b, c)
    <2>1. RegsShaped'
      BY <1>2 DEF RegsShaped
    <2>2. /\ regs'.key = x /\ regs'.iv = y /\ regs'.tag_ref = z
          /\ regs'.aad = b /\ regs'.pt = c
      BY <1>2 DEF RegsAt
    <2> QED BY <2>1, <2>2 DEF RegsBecome
  <1>3. ASSUME NEW r, NEW x, NEW y, NEW z, NEW b, NEW c, r = WithoutMessage(RegsAt(x, y, z, b, c))
        PROVE  r = RegsAt(x, y, <<>>, <<>>, <<>>)
    BY <1>3 DEF WithoutMessage, RegsAt
  <1>4. regs' = IF message_done THEN WithoutMessage(Latched) ELSE Latched
    BY DEF BufferStep
  <1>5. Loads = {"LOAD_KEY", "LOAD_IV", "LOAD_AAD", "LOAD_PLAINTEXT", "LOAD_TAG_REF"}
    BY Opcodes
  <1>6. ASSUME strobe = NoStrobe, message_done PROVE RegsBecome(k, i, <<>>, <<>>, <<>>)
    <2>1. strobe.event = "none"
      BY <1>6 DEF NoStrobe
    <2>2. Latched = regs
      BY <2>1 DEF Latched
    <2> QED BY <1>1, <1>2, <1>3, <1>4, <1>6, <2>2
  <1>7. ASSUME ~message_done, strobe.event = "LOAD_KEY"
        PROVE  RegsBecome(IF key_len_bad THEN k ELSE v, i, <<>>, <<>>, <<>>)
    <2> DEFINE x == IF key_len_bad THEN k ELSE v
    <2>1. Latched = WithoutMessage([regs EXCEPT !.key = IF key_len_bad THEN regs.key ELSE strobe.value])
      BY <1>7 DEF Latched
    <2>2. Latched = WithoutMessage([regs EXCEPT !.key = x])
      BY <2>1 DEF k, v
    <2> HIDE DEF x
    <2>3. [RegsAt(k, i, t, a, p) EXCEPT !.key = x] = RegsAt(x, i, t, a, p)
      BY DEF RegsAt
    <2>4. regs' = RegsAt(x, i, <<>>, <<>>, <<>>)
      BY <1>1, <1>3, <1>4, <1>7, <2>2, <2>3
    <2> QED BY <1>2, <2>4 DEF x
  <1>8. ASSUME ~message_done, strobe.event = "LOAD_IV" PROVE RegsBecome(k, v, <<>>, <<>>, <<>>)
    <2>1. Latched = WithoutMessage([regs EXCEPT !.iv = v])
      BY <1>8 DEF Latched, v
    <2>2. [RegsAt(k, i, t, a, p) EXCEPT !.iv = v] = RegsAt(k, v, t, a, p)
      BY DEF RegsAt
    <2>3. regs' = RegsAt(k, v, <<>>, <<>>, <<>>)
      BY <1>1, <1>3, <1>4, <1>8, <2>1, <2>2
    <2> QED BY <1>2, <2>3
  <1>9. ASSUME ~message_done, strobe.event = "LOAD_TAG_REF" PROVE RegsBecome(k, i, v, a, p)
    <2>1. Latched = [regs EXCEPT !.tag_ref = v]
      BY <1>9 DEF Latched, v
    <2>2. [RegsAt(k, i, t, a, p) EXCEPT !.tag_ref = v] = RegsAt(k, i, v, a, p)
      BY DEF RegsAt
    <2> QED BY <1>1, <1>2, <1>4, <1>9, <2>1, <2>2
  <1>10. ASSUME ~message_done, strobe.event = "LOAD_AAD" PROVE RegsBecome(k, i, t, Write(a, v), p)
    <2> DEFINE x == Write(a, v)
    <2>1. Latched = [regs EXCEPT !.aad = x]
      BY <1>10 DEF Latched, v, a
    <2> HIDE DEF x
    <2>2. [RegsAt(k, i, t, a, p) EXCEPT !.aad = x] = RegsAt(k, i, t, x, p)
      BY DEF RegsAt
    <2>3. RegsBecome(k, i, t, x, p)
      BY <1>1, <1>2, <1>4, <1>10, <2>1, <2>2
    <2> QED BY <2>3 DEF x
  <1>11. ASSUME ~message_done, strobe.event = "LOAD_PLAINTEXT" PROVE RegsBecome(k, i, t, a, Write(p, v))
    <2> DEFINE x == Write(p, v)
    <2>1. Latched = [regs EXCEPT !.pt = x]
      BY <1>11 DEF Latched, v, p
    <2> HIDE DEF x
    <2>2. [RegsAt(k, i, t, a, p) EXCEPT !.pt = x] = RegsAt(k, i, t, a, x)
      BY DEF RegsAt
    <2>3. RegsBecome(k, i, t, a, x)
      BY <1>1, <1>2, <1>4, <1>11, <2>1, <2>2
    <2> QED BY <2>3 DEF x
  <1>12. ASSUME ~message_done, strobe.event \notin Loads PROVE regs' = regs
    BY <1>4, <1>5, <1>12 DEF Latched
  <1> QED BY <1>6, <1>7, <1>8, <1>9, <1>10, <1>11, <1>12 DEF k, i, t, a, p, v

(* What a packet does to the engine of CommandSpec.                        *)
LEMMA ModelPerforms ==
  ASSUME ModelShaped, NEW cmd, NEW data, model' = Performed(model, <<cmd, data>>)
  PROVE  /\ cmd = "LOAD_KEY" => ModelBecomes(data, model.iv, <<>>, <<>>, <<>>)
         /\ cmd = "LOAD_IV" => ModelBecomes(model.key, data, <<>>, <<>>, <<>>)
         /\ cmd = "LOAD_TAG_REF" => ModelBecomes(model.key, model.iv, data, model.aad, model.data)
         /\ cmd = "LOAD_AAD" => ModelBecomes(model.key, model.iv, model.tag_ref, Stored(model.aad, data), model.data)
         /\ cmd = "LOAD_PLAINTEXT" => ModelBecomes(model.key, model.iv, model.tag_ref, model.aad, Stored(model.data, data))
         /\ cmd \in Starts =>
                IF NotReady(model, cmd) THEN model' = model ELSE ModelBecomes(model.key, model.iv, <<>>, <<>>, <<>>)
  <1> DEFINE k == model.key
             i == model.iv
             t == model.tag_ref
             a == model.aad
             d == model.data
  <1>1. model = ModelAt(k, i, t, a, d)
    BY ModelFields
  <1>2. k = model.key /\ i = model.iv /\ t = model.tag_ref /\ a = model.aad /\ d = model.data
    OBVIOUS
  <1> HIDE DEF k, i, t, a, d
  <1>3. ASSUME NEW x, NEW y, NEW z, NEW b, NEW c, model' = ModelAt(x, y, z, b, c) PROVE ModelBecomes(x, y, z, b, c)
    <2>1. ModelShaped'
      BY <1>3 DEF ModelShaped
    <2>2. /\ model'.key = x /\ model'.iv = y /\ model'.tag_ref = z
          /\ model'.aad = b /\ model'.data = c
      BY <1>3 DEF ModelAt
    <2> QED BY <2>1, <2>2 DEF ModelBecomes
  <1>4. ASSUME NEW r, NEW x, NEW y, NEW z, NEW b, NEW c, r = Cleared(ModelAt(x, y, z, b, c))
        PROVE  r = ModelAt(x, y, <<>>, <<>>, <<>>)
    BY <1>4 DEF Cleared, ModelAt
  <1>5. model' = CASE cmd = "LOAD_AAD" -> [model EXCEPT !.aad = Stored(@, data)]
                   [] cmd = "LOAD_PLAINTEXT" -> [model EXCEPT !.data = Stored(@, data)]
                   [] OTHER -> Loaded(model, cmd, data)
    BY DEF Performed
  <1>6. ASSUME cmd = "LOAD_KEY" PROVE ModelBecomes(data, i, <<>>, <<>>, <<>>)
    <2>1. model' = Cleared([model EXCEPT !.key = data])
      BY <1>5, <1>6, Opcodes DEF Loaded
    <2>2. [ModelAt(k, i, t, a, d) EXCEPT !.key = data] = ModelAt(data, i, t, a, d)
      BY DEF ModelAt
    <2>3. model' = Cleared(ModelAt(data, i, t, a, d))
      BY <1>1, <2>1, <2>2
    <2>4. model' = ModelAt(data, i, <<>>, <<>>, <<>>)
      BY <1>4, <2>3
    <2> QED BY <1>3, <2>4
  <1>7. ASSUME cmd = "LOAD_IV" PROVE ModelBecomes(k, data, <<>>, <<>>, <<>>)
    <2>1. model' = Cleared([model EXCEPT !.iv = data])
      BY <1>5, <1>7, Opcodes DEF Loaded
    <2>2. [ModelAt(k, i, t, a, d) EXCEPT !.iv = data] = ModelAt(k, data, t, a, d)
      BY DEF ModelAt
    <2>3. model' = Cleared(ModelAt(k, data, t, a, d))
      BY <1>1, <2>1, <2>2
    <2>4. model' = ModelAt(k, data, <<>>, <<>>, <<>>)
      BY <1>4, <2>3
    <2> QED BY <1>3, <2>4
  <1>8. ASSUME cmd = "LOAD_TAG_REF" PROVE ModelBecomes(k, i, data, a, d)
    <2>1. model' = [model EXCEPT !.tag_ref = data]
      BY <1>5, <1>8, Opcodes DEF Loaded
    <2>2. [ModelAt(k, i, t, a, d) EXCEPT !.tag_ref = data] = ModelAt(k, i, data, a, d)
      BY DEF ModelAt
    <2> QED BY <1>1, <1>3, <2>1, <2>2
  <1>9. ASSUME cmd = "LOAD_AAD" PROVE ModelBecomes(k, i, t, Stored(a, data), d)
    <2> DEFINE x == Stored(a, data)
    <2>1. model' = [model EXCEPT !.aad = x]
      BY <1>2, <1>5, <1>9
    <2> HIDE DEF x
    <2>2. [ModelAt(k, i, t, a, d) EXCEPT !.aad = x] = ModelAt(k, i, t, x, d)
      BY DEF ModelAt
    <2>3. ModelBecomes(k, i, t, x, d)
      BY <1>1, <1>3, <2>1, <2>2
    <2> QED BY <2>3 DEF x
  <1>10. ASSUME cmd = "LOAD_PLAINTEXT" PROVE ModelBecomes(k, i, t, a, Stored(d, data))
    <2> DEFINE x == Stored(d, data)
    <2>1. model' = [model EXCEPT !.data = x]
      BY <1>2, <1>5, <1>10
    <2> HIDE DEF x
    <2>2. [ModelAt(k, i, t, a, d) EXCEPT !.data = x] = ModelAt(k, i, t, a, x)
      BY DEF ModelAt
    <2>3. ModelBecomes(k, i, t, a, x)
      BY <1>1, <1>3, <2>1, <2>2
    <2> QED BY <2>3 DEF x
  <1>11. ASSUME cmd \in Starts
         PROVE  IF NotReady(model, cmd) THEN model' = model ELSE ModelBecomes(k, i, <<>>, <<>>, <<>>)
    <2>1. model' = IF NotReady(model, cmd) THEN model ELSE Cleared(model)
      BY <1>5, <1>11, Opcodes DEF Loaded
    <2> QED BY <1>1, <1>3, <1>4, <2>1
  <1> QED BY <1>2, <1>6, <1>7, <1>8, <1>9, <1>10, <1>11

-----------------------------------------------------------------------------
(* What a strobe finds: the FSM at rest, no answer on its way.             *)
LEMMA StrobeFinds ==
  ASSUME EngineInv, Delivered
  PROVE  /\ strobe # NoStrobe => fsm.at = "IDLE" /\ parsing.at \in {"PAYLOAD", "SETTLE_0"}
         /\ fsm.at = "IDLE" => ~message_done
         /\ strobe.done => builder = IdleBuilder /\ ~packet_ends /\ ask = <<>>
         /\ strobe = NoStrobe => strobe.event = "none" /\ ~strobe.done
         /\ strobe.event = "none" => strobe = NoStrobe
         /\ strobe.event \in {"none"} \union Loads \union Starts \union Refusals
         /\ strobe.event \notin {"none"} \union BlockLoads => strobe.done
  <1>1. strobe # NoStrobe => fsm.at = "IDLE" /\ parsing.at \in {"PAYLOAD", "SETTLE_0"}
    BY DEF EngineInv, Strobing, Asking, ParserStates
  <1>2. fsm.at = "IDLE" => ~message_done
    BY DEF message_done
  <1>3. strobe.done => builder = IdleBuilder /\ ~packet_ends /\ ask = <<>>
    BY DEF EngineInv, Asking, packet_ends, IdleBuilder
  <1>4. strobe = NoStrobe => strobe.event = "none" /\ ~strobe.done
    BY DEF NoStrobe
  <1>5. strobe.event \in Loads \union Starts \union Refusals \/ strobe = NoStrobe
    BY DEF Delivered, Refusals
  <1>6. "none" \notin Loads \union Starts \union Refusals
    BY Opcodes DEF Refusals
  <1>7. strobe.event \notin {"none"} \union BlockLoads => strobe.done
    BY Opcodes DEF EngineInv, Strobing
  <1> QED BY <1>1, <1>2, <1>3, <1>4, <1>5, <1>6, <1>7

(* What a load has written so far are whole blocks of its payload.         *)
LEMMA WrittenInPayload ==
  ASSUME EngineInv, Arriving, NEW o \in BOOLEAN, Clock(o), NEW load \in BlockLoads,
         parsing.at = "PAYLOAD", opcode = load, ~parsing.discard
  PROVE  Written(load)' = InBlocks(parsing.cnt) /\ payload' = payload
  <1>1. FromPayload
    BY ParserClock DEF EngineInv, Shaped, Clock
  <1>2. /\ sending' = sending /\ opcode' = opcode /\ payload' = payload
        /\ \A n : InBlocks(n)' = InBlocks(n)
    BY SamePacket DEF Clock
  <1>3. parsing.cmd = opcode /\ sending \in Offered
    BY DEF Arriving
  <1>4. "none" # load /\ "ERR_TIMEOUT" # load
    BY Opcodes
  <1>5. ASSUME parsing'.at \in {"PAYLOAD", "SETTLE_0"}, ~parsing'.discard
        PROVE  Written(load)' = InBlocks(parsing'.cnt) - (IF strobe'.event = load THEN BlockBytes ELSE 0)
    BY <1>2, <1>5 DEF Written
  <1>6. InBlocks(parsing.cnt) \in Nat
    <2>1. parsing.cnt \in Nat
      BY <1>3, PacketOnLine DEF Arriving
    <2> QED BY <2>1, BlocksOfPacket
  <1>7. CASE Takes /\ parsing'.cnt = parsing.cnt + 1 /\ ~parsing'.discard /\ parsing'.at \in {"PAYLOAD", "SETTLE_0"}
             /\ strobe' = IF WholeNow THEN [event |-> parsing.cmd, value |-> ValueNow, done |-> Ends] ELSE NoStrobe
    <2>1. /\ parsing.cnt \in 0..Len(payload) - 1 /\ Len(payload) \in Nat
          /\ ~WholeNow => InBlocks(parsing.cnt + 1) = InBlocks(parsing.cnt)
          /\ WholeNow => InBlocks(parsing.cnt) = parsing.cnt + 1 - BlockBytes /\ InBlocks(parsing.cnt + 1) = parsing.cnt + 1
      BY <1>7, NextByte DEF Takes
    <2>2. CASE WholeNow
      <3>1. strobe'.event = load
        BY <1>3, <1>7, <2>2
      <3>2. Written(load)' = (parsing.cnt + 1) - BlockBytes
        BY <1>5, <1>7, <2>1, <2>2, <3>1
      <3>3. (parsing.cnt + 1) - BlockBytes = parsing.cnt + 1 - BlockBytes
        BY <2>1, Units
      <3> QED BY <1>2, <2>1, <2>2, <3>2, <3>3
    <2>3. CASE ~WholeNow
      <3>1. strobe'.event # load
        BY <1>4, <1>7, <2>3 DEF NoStrobe
      <3>2. Written(load)' = InBlocks(parsing.cnt) - 0
        BY <1>5, <1>7, <2>1, <2>3, <3>1
      <3> QED BY <1>2, <1>6, <3>2
    <2> QED BY <2>2, <2>3
  <1>8. CASE parsing'.at \in {"PAYLOAD", "SETTLE_0"} /\ parsing'.cnt = parsing.cnt /\ ~parsing'.discard
             /\ (strobe' = NoStrobe \/ strobe' = Report("ERR_TIMEOUT"))
    <2>1. strobe'.event # load
      BY <1>4, <1>8 DEF NoStrobe, Report
    <2>2. Written(load)' = InBlocks(parsing.cnt) - 0
      BY <1>5, <1>8, <2>1
    <2> QED BY <1>2, <1>6, <2>2
  <1> QED BY <1>1, <1>7, <1>8 DEF FromPayload, Becomes

(* No load is under way, nothing of it is written.                         *)
LEMMA WrittenNone ==
  ASSUME NEW load, \/ parsing.at \notin {"PAYLOAD", "SETTLE_0"} \/ opcode # load \/ parsing.discard
  PROVE  Written(load) = 0
  BY DEF Written

(* The same after a clock.                                                 *)
LEMMA WrittenNoneNext ==
  ASSUME NEW load, \/ parsing'.at \notin {"PAYLOAD", "SETTLE_0"} \/ opcode' # load \/ parsing'.discard
  PROVE  Written(load)' = 0
  BY DEF Written

(* A clock writes the block of its strobe and nothing else.                *)
LEMMA WrittenClock ==
  ASSUME EngineInv, Arriving, Delivered, NEW o \in BOOLEAN, Clock(o), NEW load \in BlockLoads
  PROVE  /\ strobe.event = load =>
                /\ opcode = load /\ ~parsing.discard /\ payload \in Seq(Byte)
                /\ parsing.cnt \in BlockBytes..Len(payload) /\ InBlocks(parsing.cnt) = parsing.cnt
                /\ Written(load) = parsing.cnt - BlockBytes
                /\ strobe.value = SubSeq(payload, parsing.cnt - BlockBytes + 1, parsing.cnt)
                /\ strobe.done => parsing.cnt = Len(payload) /\ Written(load)' = 0
                /\ ~strobe.done => Written(load)' = parsing.cnt /\ payload' = payload
         /\ strobe.event \notin Refusals \union {load} =>
                Written(load)' = Written(load) /\ (payload' = payload \/ Written(load) = 0)
         /\ strobe.event \in Refusals =>
                /\ Written(load)' = 0
                /\ Written(load) = IF opcode = load /\ ~parsing.discard THEN InBlocks(parsing.cnt) ELSE 0
                /\ strobe.event # "ERR_TIMEOUT" => Written(load) = 0
  <1>1. /\ parsing.at = "idle" => FromIdle
        /\ parsing.at = "GET_LEN" => FromLen
        /\ parsing.at = "CHECK_CMD" => FromCheck
        /\ parsing.at = "PAYLOAD" => FromPayload
        /\ parsing.at \in {"SETTLE_0", "SETTLE_1"} => FromSettle
    BY ParserClock DEF EngineInv, Shaped, Clock
  <1>2. parsing.at # "SETTLE_1" => /\ sending' = sending
                                   /\ opcode' = opcode /\ payload' = payload /\ (Allowed' <=> Allowed)
                                   /\ \A n : InBlocks(n)' = InBlocks(n)
    BY SamePacket DEF Clock
  <1>3. parsing.at \in ParserStates
    BY DEF EngineInv, Strobing
  <1>4. parsing.at = "SETTLE_0" => parsing'.at = "SETTLE_1"
    BY <1>1 DEF FromSettle, Becomes
  <1>5. parsing.at = "PAYLOAD" /\ parsing.discard => parsing'.discard
    BY <1>1 DEF FromPayload, Becomes
  <1>6. parsing.at \in {"PAYLOAD", "SETTLE_0"} => sending \in Offered /\ payload \in Seq(Byte) /\ Len(payload) \in Nat
                                                 /\ parsing.cnt \in 0..Len(payload)
    <2>1. parsing.at \in {"PAYLOAD", "SETTLE_0"} => sending \in Offered /\ parsing.cnt \in 0..Len(payload) - 1 \union 0..Len(payload)
      BY DEF Arriving
    <2> QED BY <2>1, PacketOnLine
  <1>7. ASSUME strobe.event = load
        PROVE  /\ opcode = load /\ ~parsing.discard /\ payload \in Seq(Byte)
               /\ parsing.cnt \in BlockBytes..Len(payload) /\ InBlocks(parsing.cnt) = parsing.cnt
               /\ Written(load) = parsing.cnt - BlockBytes
               /\ strobe.value = SubSeq(payload, parsing.cnt - BlockBytes + 1, parsing.cnt)
               /\ strobe.done => parsing.cnt = Len(payload) /\ Written(load)' = 0
               /\ ~strobe.done => Written(load)' = parsing.cnt /\ payload' = payload
    <2>1. load \in Loads /\ load # "none"
      BY Opcodes
    <2>2. opcode = load /\ ~parsing.discard /\ parsing.cnt \in BlockBytes..Len(payload) /\ parsing.cnt % BlockBytes = 0
          /\ strobe.value = SubSeq(payload, parsing.cnt - BlockBytes + 1, parsing.cnt)
          /\ (strobe.done <=> parsing.cnt = Len(payload))
      BY <1>7, <2>1 DEF Delivered
    <2>3. parsing.at \in {"PAYLOAD", "SETTLE_0"}
      BY <1>7, <2>1, StrobeFinds
    <2>4. InBlocks(parsing.cnt) = parsing.cnt
      <3>1. InBlocks(parsing.cnt) = parsing.cnt - 0
        BY <2>2 DEF InBlocks
      <3> QED BY <1>6, <2>3, <3>1
    <2>5. Written(load) = parsing.cnt - BlockBytes
      BY <1>7, <2>2, <2>3, <2>4 DEF Written
    <2>6. CASE parsing.at = "PAYLOAD"
      <3>1. Written(load)' = parsing.cnt /\ payload' = payload
        BY <2>2, <2>4, <2>6, WrittenInPayload
      <3>2. ~strobe.done
        BY <2>2, <2>6 DEF EngineInv, Strobing, TakingIn
      <3> QED BY <1>6, <2>2, <2>3, <2>4, <2>5, <3>1, <3>2
    <2>7. CASE parsing.at = "SETTLE_0"
      <3>1. Written(load)' = 0
        BY <1>4, <2>7, WrittenNoneNext
      <3>2. strobe.done
        BY <2>2, <2>7 DEF Delivered
      <3> QED BY <1>6, <2>2, <2>3, <2>4, <2>5, <3>1, <3>2
    <2> QED BY <2>3, <2>6, <2>7
  <1>8. ASSUME strobe.event \notin Refusals \union {load}
        PROVE  Written(load)' = Written(load) /\ (payload' = payload \/ Written(load) = 0)
    <2>1. CASE strobe # NoStrobe
      <3>1. strobe.event = opcode /\ opcode # load /\ parsing.at # "SETTLE_1"
        BY <1>8, <2>1, StrobeFinds DEF Delivered
      <3>2. Written(load) = 0 /\ Written(load)' = 0
        BY <1>2, <3>1, WrittenNone, WrittenNoneNext
      <3> QED BY <3>2
    <2>2. CASE strobe = NoStrobe
      <3>1. CASE parsing.at \in {"idle", "SETTLE_1"}
        <4>1. parsing'.at \in {"idle", "GET_LEN"}
          BY <1>1, <3>1 DEF FromIdle, FromSettle, Becomes, ClearParser
        <4>2. Written(load) = 0 /\ Written(load)' = 0
          BY <3>1, <4>1, WrittenNone, WrittenNoneNext
        <4> QED BY <4>2
      <3>2. ASSUME parsing.at \in {"GET_LEN", "CHECK_CMD"}, parsing'.at \in {"PAYLOAD", "SETTLE_0"}, parsing'.cnt = 0,
                   strobe'.event # load
            PROVE  Written(load)' = 0
        <4>1. InBlocks(0)' = 0
          BY <1>2, <3>2, BlocksOfPacket
        <4>2. Written(load)' = IF opcode' = load /\ ~parsing'.discard THEN InBlocks(0)' - 0 ELSE 0
          BY <3>2 DEF Written
        <4> QED BY <4>1, <4>2
      <3>3. CASE parsing.at = "GET_LEN"
        <4>1. parsing.cnt = 0
          BY <3>3 DEF Arriving
        <4>2. parsing'.at \notin {"PAYLOAD", "SETTLE_0"} \/ (parsing'.at = "SETTLE_0" /\ parsing'.cnt = 0 /\ strobe'.event = "ERR_TIMEOUT")
          BY <1>1, <3>3, <4>1 DEF FromLen, Becomes, Report
        <4>3. "ERR_TIMEOUT" # load
          BY Opcodes
        <4>4. Written(load) = 0 /\ Written(load)' = 0
          BY <3>2, <3>3, <4>2, <4>3, WrittenNone, WrittenNoneNext
        <4> QED BY <4>4
      <3>4. CASE parsing.at = "CHECK_CMD"
        <4>1. parsing.cnt = 0 /\ parsing.cmd = opcode /\ parsing.len = Len(payload) /\ (Opens <=> Allowed)
          BY <3>4 DEF Arriving, Opens, Allowed
        <4>2. \/ parsing'.discard
              \/ Allowed /\ Len(payload) = 0
              \/ parsing'.at = "PAYLOAD" /\ parsing'.cnt = 0 /\ strobe' = NoStrobe
          BY <1>1, <3>4, <4>1 DEF FromCheck, Becomes
        <4>3. Allowed /\ Len(payload) = 0 => opcode' # load
          BY <1>2, <3>4, Opcodes
        <4>4. strobe' = NoStrobe => strobe'.event # load
          BY Opcodes DEF NoStrobe
        <4>5. Written(load) = 0 /\ Written(load)' = 0
          BY <3>2, <3>4, <4>2, <4>3, <4>4, WrittenNone, WrittenNoneNext
        <4> QED BY <4>5
      <3>5. CASE parsing.at = "PAYLOAD"
        <4>1. CASE opcode = load /\ ~parsing.discard
          <5>1. Written(load)' = InBlocks(parsing.cnt) /\ payload' = payload
            BY <3>5, <4>1, WrittenInPayload
          <5>2. Written(load) = InBlocks(parsing.cnt) - 0
            BY <1>8, <3>5, <4>1 DEF Written
          <5>3. InBlocks(parsing.cnt) \in Nat
            <6>1. parsing.cnt \in Nat
              BY <1>6, <3>5
            <6> QED BY <6>1, BlocksOfPacket
          <5> QED BY <5>1, <5>2, <5>3
        <4>2. CASE opcode # load \/ parsing.discard
          <5>1. Written(load) = 0 /\ Written(load)' = 0
            BY <1>2, <1>5, <3>5, <4>2, WrittenNone, WrittenNoneNext
          <5> QED BY <5>1
        <4> QED BY <4>1, <4>2
      <3>6. CASE parsing.at = "SETTLE_0"
        <4>1. opcode # load \/ parsing.discard
          BY <2>2, <3>6, StrobeFinds DEF Delivered
        <4>2. Written(load) = 0 /\ Written(load)' = 0
          BY <1>4, <3>6, <4>1, WrittenNone, WrittenNoneNext
        <4> QED BY <4>2
      <3> QED BY <1>3, <3>1, <3>3, <3>4, <3>5, <3>6 DEF ParserStates
    <2> QED BY <2>1, <2>2
  <1>9. ASSUME strobe.event \in Refusals
        PROVE  /\ Written(load)' = 0
               /\ Written(load) = IF opcode = load /\ ~parsing.discard THEN InBlocks(parsing.cnt) ELSE 0
               /\ strobe.event # "ERR_TIMEOUT" => Written(load) = 0
    <2>1. strobe.event # load /\ strobe # NoStrobe /\ strobe.done
      BY <1>9, Opcodes, StrobeFinds DEF Refusals
    <2>2. parsing.at \in {"PAYLOAD", "SETTLE_0"}
      BY <2>1, StrobeFinds
    <2>3. parsing.at = "PAYLOAD" => parsing.discard
      BY <2>1 DEF EngineInv, Strobing, TakingIn
    <2>4. Written(load)' = 0
      BY <1>4, <1>5, <2>2, <2>3, WrittenNoneNext
    <2>5. InBlocks(parsing.cnt) \in Nat
      <3>1. parsing.cnt \in Nat
        BY <1>6, <2>2
      <3> QED BY <3>1, BlocksOfPacket
    <2>6. Written(load) = IF opcode = load /\ ~parsing.discard THEN InBlocks(parsing.cnt) - 0 ELSE 0
      BY <2>1, <2>2 DEF Written
    <2>7. strobe.event # "ERR_TIMEOUT" => parsing.discard
      BY <1>9 DEF Delivered, Refusals
    <2> QED BY <2>4, <2>5, <2>6, <2>7
  <1> QED BY <1>7, <1>8, <1>9

-----------------------------------------------------------------------------
(* One buffer and the message that CommandSpec has of it.                  *)
InBuffer(blocks, data, new) == Buffered(blocks) /\ MessageData(data) /\ FlattenSeq(blocks) = Stored(data, new)
Put(load) == SubSeq(payload, 1, Written(load))

(* An empty buffer holds the empty message.                                *)
LEMMA InBufferEmpty == InBuffer(<<>>, <<>>, <<>>)
  <1>1. <<>> \in Seq(Byte) /\ Len(<<>>) = 0 /\ <<>> \in Seq(Seq(Byte)) /\ DOMAIN <<>> = {}
    BY EmptySeq
  <1>2. Stored(<<>>, <<>>) = <<>>
    <2>1. PICK e \in Seq(Byte) : e = <<>>
      BY <1>1
    <2>2. Len(e) <= MaxDataBytes
      BY <1>1, <2>1, Limits
    <2>3. Stored(e, <<>>) = e
      BY <2>2, StoredNone
    <2> QED BY <2>1, <2>3
  <1>3. <<>> \in Blocks
    BY <1>1 DEF Blocks, InBlocksOf
  <1> QED BY <1>1, <1>2, <1>3, FlattenEmpty, Limits, Units DEF InBuffer, Buffered, MessageData

(* A load that has come to its end leaves what the buffer holds.           *)
LEMMA InBufferSettled ==
  ASSUME NEW blocks, NEW data, NEW new, InBuffer(blocks, data, new)
  PROVE  /\ InBuffer(blocks, Stored(data, new), <<>>)
         /\ Stored(data, <<>>) = data /\ (new = <<>> => FlattenSeq(blocks) = data)
  <1>1. Buffered(blocks) /\ MessageData(data) /\ FlattenSeq(blocks) = Stored(data, new)
    BY DEF InBuffer
  <1>2. blocks \in Blocks /\ Len(blocks) <= MaxDataBlocks
    BY <1>1 DEF Buffered
  <1>3. FlattenSeq(blocks) \in Seq(Byte) /\ Len(FlattenSeq(blocks)) = Len(blocks) * BlockBytes /\ Len(blocks) \in Nat
    BY <1>2, BufferIs
  <1>4. Len(blocks) \in 0..MaxDataBlocks
    BY <1>2, <1>3, Units
  <1>5. Len(FlattenSeq(blocks)) <= MaxDataBytes
    <2>1. Len(blocks) * BlockBytes \in 0..MaxDataBytes
      BY <1>4, Limits
    <2> QED BY <1>3, <2>1, Limits
  <1> DEFINE f == FlattenSeq(blocks)
  <1>6. Stored(f, <<>>) = f
    <2> HIDE DEF f
    <2>1. f \in Seq(Byte) /\ Len(f) <= MaxDataBytes
      BY <1>3, <1>5 DEF f
    <2> QED BY <2>1, StoredNone
  <1>7. InBuffer(blocks, Stored(data, new), <<>>)
    BY <1>1, <1>3, <1>5, <1>6 DEF InBuffer, MessageData
  <1>8. Stored(data, <<>>) = data
    BY <1>1, StoredNone DEF MessageData
  <1> QED BY <1>1, <1>7, <1>8

(* A block goes into the buffer and into what CommandSpec will store.      *)
LEMMA BlockArrives ==
  ASSUME EngineInv, Arriving, Delivered, NEW o \in BOOLEAN, Clock(o), NEW load \in BlockLoads, strobe.event = load,
         NEW blocks, NEW data, InBuffer(blocks, data, Put(load))
  PROVE  /\ InBuffer(Write(blocks, strobe.value), data, SubSeq(payload, 1, parsing.cnt))
         /\ strobe.done => SubSeq(payload, 1, parsing.cnt) = payload /\ Written(load)' = 0
         /\ ~strobe.done => SubSeq(payload, 1, parsing.cnt) = Put(load)'
  <1> DEFINE c == parsing.cnt
             w == Written(load)
             v == strobe.value
  <1>1. /\ payload \in Seq(Byte) /\ c \in BlockBytes..Len(payload) /\ w = c - BlockBytes
        /\ v = SubSeq(payload, c - BlockBytes + 1, c)
        /\ strobe.done => c = Len(payload) /\ Written(load)' = 0
        /\ ~strobe.done => Written(load)' = c /\ payload' = payload
    BY WrittenClock
  <1>2. Buffered(blocks) /\ MessageData(data) /\ FlattenSeq(blocks) = Stored(data, SubSeq(payload, 1, w))
    BY DEF InBuffer, Put
  <1>3. strobe.done => SubSeq(payload, 1, c) = payload
    BY <1>1, SubSeqFull
  <1>4. ~strobe.done => SubSeq(payload, 1, c) = Put(load)'
    BY <1>1 DEF Put
  <1> HIDE DEF c, w, v
  <1>5. /\ BlockBytes \in Nat \ {0} /\ c \in Nat /\ w \in Nat /\ c = w + BlockBytes /\ c - BlockBytes + 1 = w + 1
        /\ Len(payload) \in Nat
    BY <1>1, Units
  <1> DEFINE new == SubSeq(payload, 1, w)
  <1>6. v \in Seq(Byte) /\ Len(v) = BlockBytes /\ new \in Seq(Byte) /\ SubSeq(payload, 1, c) = new \o v
    <2>1. \A i \in w + 1..c : payload[i] \in Byte
      BY <1>1, <1>5
    <2>2. SubSeq(payload, w + 1, c) \in Seq(Byte) /\ Len(SubSeq(payload, w + 1, c)) = IF w + 1 <= c THEN c - (w + 1) + 1 ELSE 0
      BY <1>5, <2>1, SubSeqProperties
    <2>3. c - (w + 1) + 1 = BlockBytes /\ w + 1 <= c
      BY <1>5
    <2>4. \A i \in 1..w : payload[i] \in Byte
      BY <1>1, <1>5
    <2>5. new \in Seq(Byte)
      BY <1>5, <2>4, SubSeqProperties
    <2>6. 1 \in 1..Len(payload) + 1 /\ w \in 1 - 1..Len(payload) /\ c \in w..Len(payload)
      BY <1>1, <1>5
    <2>7. SubSeq(payload, 1, w) \o SubSeq(payload, w + 1, c) = SubSeq(payload, 1, c)
      BY <1>1, <2>6, ConcatAdjacentSubSeq
    <2> QED BY <1>1, <1>5, <2>2, <2>3, <2>5, <2>7
  <1> HIDE DEF new
  <1>7. blocks \in Blocks /\ Len(blocks) <= MaxDataBlocks /\ data \in Seq(Byte) /\ FlattenSeq(blocks) = Stored(data, new)
    BY <1>2 DEF Buffered, MessageData, new
  <1>8. FlattenSeq(blocks) \in Seq(Byte) /\ Len(FlattenSeq(blocks)) = Len(blocks) * BlockBytes /\ Len(blocks) \in Nat
    BY <1>7, BufferIs
  <1>9. PICK k \in 0..MaxDataBlocks : k = Len(blocks)
    BY <1>7, <1>8, Units
  <1>10. Stored(data, new \o v) = IF k = MaxDataBlocks THEN <<>> ELSE Stored(data, new) \o v
    <2>1. Len(Stored(data, new)) = k * BlockBytes
      BY <1>7, <1>8, <1>9
    <2> QED BY <1>6, <1>7, <2>1, StoredMore
  <1>11. /\ Write(blocks, v) \in Blocks /\ Len(Write(blocks, v)) <= MaxDataBlocks
         /\ FlattenSeq(Write(blocks, v)) = IF Len(blocks) = MaxDataBlocks THEN <<>> ELSE FlattenSeq(blocks) \o v
    BY <1>6, <1>7, WriteIs
  <1>12. FlattenSeq(Write(blocks, v)) = Stored(data, SubSeq(payload, 1, c))
    <2>1. FlattenSeq(blocks) \o v = Stored(data, new) \o v
      BY <1>7
    <2> QED BY <1>6, <1>9, <1>10, <1>11, <2>1
  <1>13. InBuffer(Write(blocks, v), data, SubSeq(payload, 1, c))
    BY <1>2, <1>11, <1>12 DEF InBuffer, Buffered
  <1> QED BY <1>1, <1>3, <1>4, <1>13 DEF c, v

-----------------------------------------------------------------------------
(* The engine of CommandSpec in one clock.                                 *)
WholeBlocks == IF opcode \in BlockLoads /\ ~parsing.discard THEN InBlocks(parsing.cnt) ELSE 0

(* The engine of CommandSpec changes at the end of a packet only.          *)
LEMMA ModelClock ==
  ASSUME EngineInv, Arriving, Delivered, NEW o \in BOOLEAN, Clock(o)
  PROVE  /\ ~strobe.done => model' = model
         /\ strobe.event \in {"ERR_LEN", "ERR_UNKNOWN"} => model' = model
         /\ strobe.event = "ERR_TIMEOUT" =>
                model' = IF WholeBlocks = 0 THEN model ELSE Performed(model, <<opcode, SubSeq(payload, 1, WholeBlocks)>>)
         /\ key_len_bad => model' = Cleared(model)
         /\ strobe.event \in Loads \union Starts /\ strobe.done /\ ~key_len_bad =>
                /\ strobe.event = opcode /\ sending \in Offered /\ sending = <<opcode, payload>>
                /\ model' = Performed(model, <<opcode, payload>>)
  <1>1. HistoryStep
    BY DEF Clock
  <1> DEFINE whole == IF parsing.discard \/ parsing.cmd \notin {"LOAD_AAD", "LOAD_PLAINTEXT"} THEN 0
                      ELSE parsing.cnt - (parsing.cnt % BlockBytes)
             event == strobe.event
  <1>2. /\ strobe.done => ~packet_ends
        /\ strobe # NoStrobe => parsing.at \in {"PAYLOAD", "SETTLE_0"}
        /\ strobe.event \notin {"none"} \union BlockLoads => strobe.done
        /\ strobe = NoStrobe => ~strobe.done
    BY StrobeFinds
  <1>3. parsing.at \in {"PAYLOAD", "SETTLE_0"} => parsing.cmd = opcode /\ sending \in Offered
    BY DEF Arriving
  <1>4. ~strobe.done => model' = model
    BY <1>1, <1>2 DEF HistoryStep
  <1>5. ASSUME strobe.done
        PROVE  \/ /\ event \in Refusals
                  /\ model' = IF event # "ERR_TIMEOUT" \/ whole = 0 THEN model
                              ELSE Performed(model, <<parsing.cmd, SubSeq(sending[2], 1, whole)>>)
               \/ key_len_bad /\ model' = Cleared(model)
               \/ Known(event) /\ ~key_len_bad /\ model' = Performed(model, sending)
    BY <1>1, <1>2, <1>5 DEF HistoryStep, Refusals
  <1>6. strobe.done => parsing.cmd = opcode /\ sending \in Offered
    BY <1>2, <1>3
  <1>7. key_len_bad => event = "LOAD_KEY"
    BY DEF key_len_bad
  <1>8. event \in Refusals => strobe.done /\ event \notin Loads \union Starts
    BY <1>2, Opcodes DEF Refusals
  <1>9. event \in Refusals => ~Known(event) /\ ~key_len_bad
    BY <1>7, <1>8, Opcodes DEF Known
  <1>10. ASSUME event \in {"ERR_LEN", "ERR_UNKNOWN"} PROVE model' = model
    <2>1. event \in Refusals /\ event # "ERR_TIMEOUT"
      BY <1>10 DEF Refusals
    <2> QED BY <1>5, <1>8, <1>9, <2>1
  <1>11. ASSUME event = "ERR_TIMEOUT"
         PROVE  model' = IF WholeBlocks = 0 THEN model ELSE Performed(model, <<opcode, SubSeq(payload, 1, WholeBlocks)>>)
    <2>1. event \in Refusals /\ parsing.cmd = opcode
      BY <1>6, <1>8, <1>11 DEF Refusals
    <2>2. whole = WholeBlocks
      BY <2>1 DEF WholeBlocks, InBlocks, BlockLoads
    <2> HIDE DEF whole
    <2>3. model' = IF whole = 0 THEN model ELSE Performed(model, <<opcode, SubSeq(payload, 1, whole)>>)
      BY <1>5, <1>8, <1>9, <1>11, <2>1 DEF payload
    <2> QED BY <2>2, <2>3
  <1>12. ASSUME key_len_bad PROVE model' = Cleared(model)
    <2>1. event = "LOAD_KEY" /\ strobe.done
      BY <1>2, <1>7, <1>12, Opcodes
    <2>2. event \notin Refusals
      BY <2>1 DEF Refusals
    <2> QED BY <1>5, <1>12, <2>1, <2>2
  <1>13. ASSUME event \in Loads \union Starts, strobe.done, ~key_len_bad
         PROVE  /\ strobe.event = opcode /\ sending \in Offered /\ sending = <<opcode, payload>>
                /\ model' = Performed(model, <<opcode, payload>>)
    <2>1. event \notin Refusals
      BY <1>8, <1>13
    <2>2. model' = Performed(model, sending)
      BY <1>5, <1>13, <2>1
    <2>3. sending \in Offered
      BY <1>6, <1>13
    <2>4. sending = <<opcode, payload>>
      BY <2>3, PacketBytes DEF opcode, payload
    <2>5. strobe.event = opcode
      BY <1>13 DEF Delivered
    <2> QED BY <2>2, <2>3, <2>4, <2>5
  <1> QED BY <1>4, <1>10, <1>11, <1>12, <1>13

-----------------------------------------------------------------------------
(* A clock of the FSM with the word it gives the core.                     *)
FsmTo(to, idx, on, word) ==
    /\ fsm'.at = to /\ fsm'.mode = fsm.mode /\ fsm'.idx = idx
    /\ drive'.on = on /\ drive'.word = word /\ send' = "none"
FsmAsks(to, response) ==
    fsm'.at = to /\ fsm'.mode = fsm.mode /\ drive'.on = {} /\ drive'.word = <<>> /\ send' = response
StartsNow == start_requested /\ ~start_refused
Begins ==
    /\ fsm'.at = "START_KEY_IV" /\ (fsm'.mode <=> strobe.event = "START_DECRYPT")
    /\ drive'.on = {"load_key"} /\ drive'.word = <<regs.key, regs.iv>> /\ send' = "none"
Streams(blocks, load, last, self, to) ==
    \/ /\ fsm.idx + 1 # Len(blocks) /\ FsmTo(self, fsm.idx + 1, {load}, Slot(blocks, fsm.idx))
    \/ /\ fsm.idx + 1 = Len(blocks) /\ FsmTo(to, 0, {load, last}, Slot(blocks, fsm.idx))
Firsts(blocks, load, last, hold, stream) ==
    \/ Len(blocks) = 1 /\ FsmTo(hold, fsm.idx, {load, last}, Slot(blocks, 0))
    \/ Len(blocks) # 1 /\ FsmTo(stream, 1, {load}, Slot(blocks, 0))
Stays(condition, from, to, on) == FsmTo(IF condition THEN to ELSE from, fsm.idx, on, <<>>)

(* In each clock the FSM makes one of these moves, or rests.               *)
LEMMA FsmClock ==
  ASSUME Shaped, FsmStep
  PROVE  /\ fsm.at = "IDLE" => IF StartsNow THEN Begins ELSE FsmTo("IDLE", fsm.idx, {}, <<>>)
         /\ fsm.at = "START_KEY_IV" => FsmTo("WAIT_AAD_READY", fsm.idx, {}, <<>>)
         /\ fsm.at = "WAIT_AAD_READY" =>
                \/ SendsTagRef /\ FsmTo("WAIT_AAD_READY", fsm.idx, {"load_tag_ref"}, <<>>)
                \/ ~SendsTagRef /\ ~AAD_ready /\ FsmTo("WAIT_AAD_READY", fsm.idx, {}, <<>>)
                \/ AAD_ready /\ regs.aad = <<>> /\ FsmTo("WAIT_DATA_READY", fsm.idx, {"no_AAD"}, <<>>)
                \/ /\ AAD_ready /\ regs.aad # <<>>
                   /\ Firsts(regs.aad, "load_AAD", "AAD_last", "HOLD_AAD_LAST", "STREAM_AAD")
         /\ fsm.at = "STREAM_AAD" => Streams(regs.aad, "load_AAD", "AAD_last", "STREAM_AAD", "WAIT_DATA_READY")
         /\ fsm.at = "HOLD_AAD_LAST" => FsmTo("WAIT_DATA_READY", fsm.idx, {"AAD_last"}, <<>>)
         /\ fsm.at = "WAIT_DATA_READY" =>
                \/ ~data_ready(FALSE) /\ FsmTo("WAIT_DATA_READY", fsm.idx, {}, <<>>)
                \/ data_ready(FALSE) /\ Firsts(regs.pt, "load_data", "data_in_last", "HOLD_PT_LAST", "STREAM_PT")
         /\ fsm.at = "STREAM_PT" => Streams(regs.pt, "load_data", "data_in_last", "STREAM_PT", "WAIT_PIPELINE")
         /\ fsm.at = "HOLD_PT_LAST" => FsmTo("WAIT_PIPELINE", fsm.idx, {"data_in_last"}, <<>>)
         /\ fsm.at = "WAIT_PIPELINE" =>
                FsmTo(IF ~PipelineDone THEN "WAIT_PIPELINE" ELSE IF fsm.mode /\ ~capture.pass THEN "SEND_TAG" ELSE "SEND_CT",
                      fsm.idx, IF fsm.mode /\ verify_done THEN {"verify_checked"} ELSE {}, <<>>)
         /\ fsm.at = "SEND_CT" => FsmAsks("WAIT_CT_SENT", "CIPHERTEXT")
         /\ fsm.at = "WAIT_CT_SENT" => Stays(builder.sent, "WAIT_CT_SENT", "SEND_TAG", {})
         /\ fsm.at = "SEND_TAG" => FsmAsks("WAIT_TAG_SENT", "AUTH_TAG")
         /\ fsm.at = "WAIT_TAG_SENT" =>
                \/ ~message_done /\ Stays(builder.sent, "WAIT_TAG_SENT", "SEND_VERIFY", {}) /\ (builder.sent => fsm.mode)
                \/ message_done /\ fsm'.at = "IDLE" /\ drive'.on = {} /\ send' = "none"
         /\ fsm.at = "SEND_VERIFY" => FsmAsks("WAIT_VERIFY_SENT", "VERIFY_RESULT")
         /\ fsm.at = "WAIT_VERIFY_SENT" =>
                \/ ~message_done /\ ~builder.sent /\ FsmTo("WAIT_VERIFY_SENT", fsm.idx, {}, <<>>)
                \/ message_done /\ fsm'.at = "IDLE" /\ drive'.on = {} /\ send' = "none"
  <1>1. PICK a, m, t, i : fsm = FsmAt(a, m, t, i)
    BY DEF Shaped, FsmShaped
  <1>2. fsm.at = a /\ fsm.mode = m /\ fsm.idx = i
    BY <1>1 DEF FsmAt
  <1>3. ASSUME NEW x, NEW y, fsm' = [fsm EXCEPT !.at = x, !.idx = y]
        PROVE  fsm'.at = x /\ fsm'.mode = fsm.mode /\ fsm'.idx = y
    <2>1. fsm' = FsmAt(x, m, t, y)
      BY <1>1, <1>3 DEF FsmAt
    <2> QED BY <1>2, <2>1 DEF FsmAt
  <1>4. ASSUME NEW x, fsm' = Goto(x)
        PROVE  fsm'.at = x /\ fsm'.mode = fsm.mode /\ fsm'.idx = fsm.idx
    <2>1. fsm' = FsmAt(x, m, t, i)
      BY <1>1, <1>4 DEF FsmAt, Goto
    <2> QED BY <1>2, <2>1 DEF FsmAt
  <1>5. ASSUME NEW y, fsm' = [fsm EXCEPT !.idx = y]
        PROVE  fsm'.at = fsm.at /\ fsm'.mode = fsm.mode /\ fsm'.idx = y
    <2>1. fsm' = FsmAt(a, m, t, y)
      BY <1>1, <1>5 DEF FsmAt
    <2> QED BY <1>2, <2>1 DEF FsmAt
  <1>6. ASSUME fsm' = [fsm EXCEPT !.tag_ref_sent = TRUE]
        PROVE  fsm'.at = fsm.at /\ fsm'.mode = fsm.mode /\ fsm'.idx = fsm.idx
    <2>1. fsm' = FsmAt(a, m, TRUE, i)
      BY <1>1, <1>6 DEF FsmAt
    <2> QED BY <1>2, <2>1 DEF FsmAt
  <1>7. ASSUME NEW from, NEW condition, NEW x, NEW on, NEW word, Orchestrate(from, condition, Goto(x), on, word)
        PROVE  condition /\ fsm.at = from /\ FsmTo(x, fsm.idx, on, word)
    <2>1. fsm' = Goto(x) /\ fsm.at = from /\ condition /\ send' = "none" /\ drive' = [on |-> on, word |-> word]
      BY <1>7 DEF Orchestrate
    <2>2. drive'.on = on /\ drive'.word = word
      BY <2>1
    <2> QED BY <1>4, <2>1, <2>2 DEF FsmTo
  <1>8. ASSUME NEW from, NEW condition, NEW x, Silent(from, condition, x)
        PROVE  condition /\ fsm.at = from /\ FsmTo(x, fsm.idx, {}, <<>>)
    BY <1>7, <1>8 DEF Silent
  <1>9. ASSUME NEW from, NEW response, NEW x, Request(from, response, x)
        PROVE  fsm.at = from /\ FsmAsks(x, response)
    <2>1. fsm' = Goto(x) /\ fsm.at = from /\ drive' = NoDrive /\ send' = response
      BY <1>9 DEF Request
    <2>2. drive'.on = {} /\ drive'.word = <<>>
      BY <2>1 DEF NoDrive
    <2> QED BY <1>4, <2>1, <2>2 DEF FsmAsks
  <1>10. ASSUME NEW blocks, NEW from, NEW load, NEW last, NEW hold, NEW to, Stream(blocks, from, load, last, hold, to)
         PROVE  \/ fsm.at = from /\ Streams(blocks, load, last, from, to)
                \/ fsm.at = hold /\ FsmTo(to, fsm.idx, {last}, <<>>)
    <2>1. \/ /\ fsm.at = from /\ send' = "none" /\ fsm' = [fsm EXCEPT !.idx = fsm.idx + 1] /\ fsm.idx + 1 # Len(blocks)
             /\ drive' = [on |-> {load}, word |-> Slot(blocks, fsm.idx)]
          \/ /\ fsm.at = from /\ send' = "none" /\ fsm' = [fsm EXCEPT !.at = to, !.idx = 0] /\ fsm.idx + 1 = Len(blocks)
             /\ drive' = [on |-> {load, last}, word |-> Slot(blocks, fsm.idx)]
          \/ Orchestrate(hold, TRUE, Goto(to), {last}, <<>>)
      BY <1>10 DEF Stream, Orchestrate
    <2>2. CASE /\ fsm.at = from /\ send' = "none" /\ fsm' = [fsm EXCEPT !.idx = fsm.idx + 1] /\ fsm.idx + 1 # Len(blocks)
               /\ drive' = [on |-> {load}, word |-> Slot(blocks, fsm.idx)]
      <3>1. drive'.on = {load} /\ drive'.word = Slot(blocks, fsm.idx)
        BY <2>2
      <3>2. FsmTo(from, fsm.idx + 1, {load}, Slot(blocks, fsm.idx))
        BY <1>5, <2>2, <3>1 DEF FsmTo
      <3> QED BY <2>2, <3>2 DEF Streams
    <2>3. CASE /\ fsm.at = from /\ send' = "none" /\ fsm' = [fsm EXCEPT !.at = to, !.idx = 0] /\ fsm.idx + 1 = Len(blocks)
               /\ drive' = [on |-> {load, last}, word |-> Slot(blocks, fsm.idx)]
      <3>1. drive'.on = {load, last} /\ drive'.word = Slot(blocks, fsm.idx)
        BY <2>3
      <3>2. FsmTo(to, 0, {load, last}, Slot(blocks, fsm.idx))
        BY <1>3, <2>3, <3>1 DEF FsmTo
      <3> QED BY <2>3, <3>2 DEF Streams
    <2>4. CASE Orchestrate(hold, TRUE, Goto(to), {last}, <<>>)
      <3>1. fsm' = Goto(to) /\ fsm.at = hold /\ send' = "none" /\ drive' = [on |-> {last}, word |-> <<>>]
        BY <2>4 DEF Orchestrate
      <3>2. drive'.on = {last} /\ drive'.word = <<>>
        BY <3>1
      <3> QED BY <1>4, <3>1, <3>2 DEF FsmTo
    <2> QED BY <2>1, <2>2, <2>3, <2>4
  <1>11. ASSUME NEW blocks, NEW from, NEW ready, NEW load, NEW last, NEW hold, NEW stream,
                First(blocks, from, ready, load, last, hold, stream)
         PROVE  fsm.at = from /\ ready /\ Firsts(blocks, load, last, hold, stream)
    <2>1. \/ /\ fsm.at = from /\ ready /\ send' = "none" /\ fsm' = Goto(hold) /\ Len(blocks) = 1
             /\ drive' = [on |-> {load, last}, word |-> Slot(blocks, 0)]
          \/ /\ fsm.at = from /\ ready /\ send' = "none" /\ fsm' = [fsm EXCEPT !.at = stream, !.idx = 1] /\ Len(blocks) # 1
             /\ drive' = [on |-> {load}, word |-> Slot(blocks, 0)]
      BY <1>11 DEF First, Orchestrate
    <2>2. CASE /\ fsm.at = from /\ ready /\ send' = "none" /\ fsm' = Goto(hold) /\ Len(blocks) = 1
               /\ drive' = [on |-> {load, last}, word |-> Slot(blocks, 0)]
      <3>1. drive'.on = {load, last} /\ drive'.word = Slot(blocks, 0)
        BY <2>2
      <3> QED BY <1>4, <2>2, <3>1 DEF FsmTo, Firsts
    <2>3. CASE /\ fsm.at = from /\ ready /\ send' = "none" /\ fsm' = [fsm EXCEPT !.at = stream, !.idx = 1] /\ Len(blocks) # 1
               /\ drive' = [on |-> {load}, word |-> Slot(blocks, 0)]
      <3>1. drive'.on = {load} /\ drive'.word = Slot(blocks, 0)
        BY <2>3
      <3> QED BY <1>3, <2>3, <3>1 DEF FsmTo, Firsts
    <2> QED BY <2>1, <2>2, <2>3
  <1>12. message_done => fsm.at \in {"WAIT_TAG_SENT", "WAIT_VERIFY_SENT"} /\ builder.sent
    BY DEF message_done
  <1>13. ASSUME Orchestrate(fsm.at, message_done, IdleFsm, {}, <<>>)
         PROVE  message_done /\ fsm'.at = "IDLE" /\ drive'.on = {} /\ send' = "none"
    BY <1>13 DEF Orchestrate, IdleFsm
  <1>14. CASE fsm.at = "IDLE"
    <2>1. \/ Silent("IDLE", ~start_requested \/ start_refused, "IDLE")
          \/ Orchestrate("IDLE", start_requested /\ ~start_refused,
                   [at |-> "START_KEY_IV", mode |-> strobe.event = "START_DECRYPT", tag_ref_sent |-> FALSE, idx |-> 0],
                   {"load_key"}, <<regs.key, regs.iv>>)
      BY <1>12, <1>14 DEF FsmStep, Orchestrate, Silent, Request, First, Stream
    <2>2. CASE Silent("IDLE", ~start_requested \/ start_refused, "IDLE")
      <3>1. (~start_requested \/ start_refused) /\ FsmTo("IDLE", fsm.idx, {}, <<>>)
        BY <1>8, <2>2
      <3> QED BY <1>14, <3>1 DEF StartsNow
    <2>3. CASE Orchestrate("IDLE", start_requested /\ ~start_refused,
                   [at |-> "START_KEY_IV", mode |-> strobe.event = "START_DECRYPT", tag_ref_sent |-> FALSE, idx |-> 0],
                   {"load_key"}, <<regs.key, regs.iv>>)
      BY <1>14, <2>3 DEF Orchestrate, StartsNow, Begins
    <2> QED BY <1>14, <2>1, <2>2, <2>3
  <1>15. CASE fsm.at = "START_KEY_IV"
    <2>1. Silent("START_KEY_IV", TRUE, "WAIT_AAD_READY")
      BY <1>12, <1>15 DEF FsmStep, Orchestrate, Silent, Request, First, Stream
    <2> QED BY <1>15, <1>8, <2>1
  <1>16. CASE fsm.at = "WAIT_AAD_READY"
    <2>1. \/ Orchestrate("WAIT_AAD_READY", SendsTagRef, [fsm EXCEPT !.tag_ref_sent = TRUE], {"load_tag_ref"}, <<>>)
          \/ Silent("WAIT_AAD_READY", ~SendsTagRef /\ ~AAD_ready, "WAIT_AAD_READY")
          \/ Orchestrate("WAIT_AAD_READY", AAD_ready /\ regs.aad = <<>>, Goto("WAIT_DATA_READY"), {"no_AAD"}, <<>>)
          \/ First(regs.aad, "WAIT_AAD_READY", AAD_ready /\ regs.aad # <<>>, "load_AAD", "AAD_last", "HOLD_AAD_LAST", "STREAM_AAD")
      BY <1>12, <1>16 DEF FsmStep, Orchestrate, Silent, Request, First, Stream
    <2>2. CASE Orchestrate("WAIT_AAD_READY", SendsTagRef, [fsm EXCEPT !.tag_ref_sent = TRUE], {"load_tag_ref"}, <<>>)
      BY <1>16, <1>6, <2>2 DEF Orchestrate, FsmTo
    <2>3. CASE Silent("WAIT_AAD_READY", ~SendsTagRef /\ ~AAD_ready, "WAIT_AAD_READY")
      BY <1>16, <1>8, <2>3
    <2>4. CASE Orchestrate("WAIT_AAD_READY", AAD_ready /\ regs.aad = <<>>, Goto("WAIT_DATA_READY"), {"no_AAD"}, <<>>)
      BY <1>16, <1>7, <2>4
    <2>5. CASE First(regs.aad, "WAIT_AAD_READY", AAD_ready /\ regs.aad # <<>>, "load_AAD", "AAD_last", "HOLD_AAD_LAST", "STREAM_AAD")
      BY <1>16, <1>11, <2>5
    <2> QED BY <1>16, <2>1, <2>2, <2>3, <2>4, <2>5
  <1>17. CASE fsm.at = "STREAM_AAD"
    <2>1. Stream(regs.aad, "STREAM_AAD", "load_AAD", "AAD_last", "HOLD_AAD_LAST", "WAIT_DATA_READY")
      BY <1>12, <1>17 DEF FsmStep, Orchestrate, Silent, Request, First, Stream
    <2>2. \/ fsm.at = "STREAM_AAD" /\ Streams(regs.aad, "load_AAD", "AAD_last", "STREAM_AAD", "WAIT_DATA_READY")
          \/ fsm.at = "HOLD_AAD_LAST" /\ FsmTo("WAIT_DATA_READY", fsm.idx, {"AAD_last"}, <<>>)
      BY <1>10, <2>1
    <2>3. Streams(regs.aad, "load_AAD", "AAD_last", "STREAM_AAD", "WAIT_DATA_READY")
      BY <1>17, <2>2
    <2> QED BY <1>17, <2>3
  <1>18. CASE fsm.at = "HOLD_AAD_LAST"
    <2>1. Stream(regs.aad, "STREAM_AAD", "load_AAD", "AAD_last", "HOLD_AAD_LAST", "WAIT_DATA_READY")
      BY <1>12, <1>18 DEF FsmStep, Orchestrate, Silent, Request, First, Stream
    <2>2. \/ fsm.at = "STREAM_AAD" /\ Streams(regs.aad, "load_AAD", "AAD_last", "STREAM_AAD", "WAIT_DATA_READY")
          \/ fsm.at = "HOLD_AAD_LAST" /\ FsmTo("WAIT_DATA_READY", fsm.idx, {"AAD_last"}, <<>>)
      BY <1>10, <2>1
    <2>3. FsmTo("WAIT_DATA_READY", fsm.idx, {"AAD_last"}, <<>>)
      BY <1>18, <2>2
    <2> QED BY <1>18, <2>3
  <1>19. CASE fsm.at = "WAIT_DATA_READY"
    <2>1. PICK ready : ready = data_ready(FALSE)
      OBVIOUS
    <2>2. \/ Silent("WAIT_DATA_READY", ~data_ready(FALSE), "WAIT_DATA_READY")
          \/ First(regs.pt, "WAIT_DATA_READY", ready, "load_data", "data_in_last", "HOLD_PT_LAST", "STREAM_PT")
      BY <1>12, <1>19, <2>1 DEF FsmStep, Orchestrate, Silent, Request, First, Stream
    <2>3. CASE Silent("WAIT_DATA_READY", ~data_ready(FALSE), "WAIT_DATA_READY")
      BY <1>19, <1>8, <2>3
    <2>4. CASE First(regs.pt, "WAIT_DATA_READY", ready, "load_data", "data_in_last", "HOLD_PT_LAST", "STREAM_PT")
      <3>1. ready /\ Firsts(regs.pt, "load_data", "data_in_last", "HOLD_PT_LAST", "STREAM_PT")
        BY <1>11, <2>4
      <3> QED BY <1>19, <2>1, <3>1
    <2> QED BY <1>19, <2>2, <2>3, <2>4
  <1>20. CASE fsm.at = "STREAM_PT"
    <2>1. Stream(regs.pt, "STREAM_PT", "load_data", "data_in_last", "HOLD_PT_LAST", "WAIT_PIPELINE")
      BY <1>12, <1>20 DEF FsmStep, Orchestrate, Silent, Request, First, Stream
    <2>2. \/ fsm.at = "STREAM_PT" /\ Streams(regs.pt, "load_data", "data_in_last", "STREAM_PT", "WAIT_PIPELINE")
          \/ fsm.at = "HOLD_PT_LAST" /\ FsmTo("WAIT_PIPELINE", fsm.idx, {"data_in_last"}, <<>>)
      BY <1>10, <2>1
    <2>3. Streams(regs.pt, "load_data", "data_in_last", "STREAM_PT", "WAIT_PIPELINE")
      BY <1>20, <2>2
    <2> QED BY <1>20, <2>3
  <1>21. CASE fsm.at = "HOLD_PT_LAST"
    <2>1. Stream(regs.pt, "STREAM_PT", "load_data", "data_in_last", "HOLD_PT_LAST", "WAIT_PIPELINE")
      BY <1>12, <1>21 DEF FsmStep, Orchestrate, Silent, Request, First, Stream
    <2>2. \/ fsm.at = "STREAM_PT" /\ Streams(regs.pt, "load_data", "data_in_last", "STREAM_PT", "WAIT_PIPELINE")
          \/ fsm.at = "HOLD_PT_LAST" /\ FsmTo("WAIT_PIPELINE", fsm.idx, {"data_in_last"}, <<>>)
      BY <1>10, <2>1
    <2>3. FsmTo("WAIT_PIPELINE", fsm.idx, {"data_in_last"}, <<>>)
      BY <1>21, <2>2
    <2> QED BY <1>21, <2>3
  <1>22. CASE fsm.at = "WAIT_PIPELINE"
    <2>1. Orchestrate("WAIT_PIPELINE", TRUE,
                   Goto(IF ~PipelineDone THEN "WAIT_PIPELINE"
                        ELSE IF fsm.mode /\ ~capture.pass THEN "SEND_TAG" ELSE "SEND_CT"),
                   IF fsm.mode /\ verify_done THEN {"verify_checked"} ELSE {}, <<>>)
      BY <1>12, <1>22 DEF FsmStep, Orchestrate, Silent, Request, First, Stream
    <2> QED BY <1>22, <1>7, <2>1
  <1>23. CASE fsm.at = "SEND_CT"
    <2>1. Request("SEND_CT", "CIPHERTEXT", "WAIT_CT_SENT")
      BY <1>12, <1>23 DEF FsmStep, Orchestrate, Silent, Request, First, Stream
    <2> QED BY <1>23, <1>9, <2>1
  <1>24. CASE fsm.at = "WAIT_CT_SENT"
    <2>1. Silent("WAIT_CT_SENT", TRUE, IF builder.sent THEN "SEND_TAG" ELSE "WAIT_CT_SENT")
      BY <1>12, <1>24 DEF FsmStep, Orchestrate, Silent, Request, First, Stream
    <2> QED BY <1>24, <1>8, <2>1 DEF Stays
  <1>25. CASE fsm.at = "SEND_TAG"
    <2>1. Request("SEND_TAG", "AUTH_TAG", "WAIT_TAG_SENT")
      BY <1>12, <1>25 DEF FsmStep, Orchestrate, Silent, Request, First, Stream
    <2> QED BY <1>25, <1>9, <2>1
  <1>26. CASE fsm.at = "WAIT_TAG_SENT"
    <2>1. \/ Silent("WAIT_TAG_SENT", ~builder.sent, "WAIT_TAG_SENT")
          \/ Silent("WAIT_TAG_SENT", builder.sent /\ fsm.mode, "SEND_VERIFY")
          \/ Orchestrate(fsm.at, message_done, IdleFsm, {}, <<>>)
      BY <1>12, <1>26 DEF FsmStep, Orchestrate, Silent, Request, First, Stream
    <2>2. CASE Silent("WAIT_TAG_SENT", ~builder.sent, "WAIT_TAG_SENT")
      BY <1>26, <1>8, <1>12, <2>2 DEF Stays
    <2>3. CASE Silent("WAIT_TAG_SENT", builder.sent /\ fsm.mode, "SEND_VERIFY")
      BY <1>26, <1>8, <2>3 DEF Stays, message_done
    <2>4. CASE Orchestrate(fsm.at, message_done, IdleFsm, {}, <<>>)
      BY <1>26, <1>13, <2>4
    <2> QED BY <1>26, <2>1, <2>2, <2>3, <2>4
  <1>27. CASE fsm.at = "SEND_VERIFY"
    <2>1. Request("SEND_VERIFY", "VERIFY_RESULT", "WAIT_VERIFY_SENT")
      BY <1>12, <1>27 DEF FsmStep, Orchestrate, Silent, Request, First, Stream
    <2> QED BY <1>27, <1>9, <2>1
  <1>28. CASE fsm.at = "WAIT_VERIFY_SENT"
    <2>1. \/ Silent("WAIT_VERIFY_SENT", ~builder.sent, "WAIT_VERIFY_SENT")
          \/ Orchestrate(fsm.at, message_done, IdleFsm, {}, <<>>)
      BY <1>12, <1>28 DEF FsmStep, Orchestrate, Silent, Request, First, Stream
    <2>2. CASE Silent("WAIT_VERIFY_SENT", ~builder.sent, "WAIT_VERIFY_SENT")
      BY <1>28, <1>8, <1>12, <2>2
    <2>3. CASE Orchestrate(fsm.at, message_done, IdleFsm, {}, <<>>)
      BY <1>28, <1>13, <2>3
    <2> QED BY <1>28, <2>1, <2>2, <2>3
  <1> QED BY <1>14, <1>15, <1>16, <1>17, <1>18, <1>19, <1>20, <1>21, <1>22, <1>23, <1>24, <1>25, <1>26, <1>27, <1>28

-----------------------------------------------------------------------------
(* THE MESSAGE OF COMMANDSPEC                                              *)
(* The buffers hold the message that CommandSpec has (InStep), clock by    *)
(* clock: loads, blocks, starts, refusals and packets that are cut.        *)
LEMMA PutNone == ASSUME NEW load, Written(load) = 0 PROVE Put(load) = <<>>
  BY DEF Put

(* or has put nothing after a clock,                                       *)
LEMMA PutNoneNext == ASSUME NEW load, Written(load)' = 0 PROVE Put(load)' = <<>>
  BY DEF Put

(* or as much as before.                                                   *)
LEMMA PutSame ==
  ASSUME NEW load, Written(load)' = Written(load), payload' = payload \/ Written(load) = 0
  PROVE  Put(load)' = Put(load)
  <1>1. CASE payload' = payload
    BY <1>1 DEF Put
  <1>2. CASE Written(load) = 0
    BY <1>2, PutNone, PutNoneNext
  <1> QED BY <1>1, <1>2

(* InStep, buffer by buffer,                                               *)
LEMMA BufferPair ==
  ASSUME InStep, Typed, fsm.at = "IDLE"
  PROVE  /\ model.key = regs.key /\ model.iv = regs.iv /\ model.tag_ref = regs.tag_ref
         /\ InBuffer(regs.aad, model.aad, Put("LOAD_AAD")) /\ InBuffer(regs.pt, model.data, Put("LOAD_PLAINTEXT"))
  BY DEF InStep, Typed, InBuffer, Put

(* and put together again, for an FSM at rest                              *)
LEMMA Assemble ==
  ASSUME RegsShaped', ModelShaped', fsm'.at = "IDLE",
         model'.key = regs'.key, model'.iv = regs'.iv, model'.tag_ref = regs'.tag_ref,
         InBuffer(regs'.aad, model'.aad, Put("LOAD_AAD")'), InBuffer(regs'.pt, model'.data, Put("LOAD_PLAINTEXT")')
  PROVE  InStep' /\ Typed'
  BY DEF InStep, Typed, InBuffer, Put

(* and for one that serves a message.                                      *)
LEMMA AssembleBusy ==
  ASSUME Typed, regs' = regs, ModelShaped', fsm'.at # "IDLE", model'.key = regs.key, model'.iv = regs.iv,
         model'.aad = <<>>, model'.data = <<>>, model'.tag_ref = <<>>
  PROVE  InStep' /\ Typed'
  <1>1. MessageData(<<>>)
    BY InBufferEmpty DEF InBuffer
  <1>2. RegsShaped' /\ Buffered(regs'.aad) /\ Buffered(regs'.pt)
    BY DEF Typed, RegsShaped
  <1> QED BY <1>1, <1>2 DEF InStep, Typed

(* When the FSM leaves its rest and comes back to it.                      *)
LEMMA FsmLeaves ==
  ASSUME EngineInv, FsmStep
  PROVE  /\ fsm.at = "IDLE" => fsm'.at = IF StartsNow THEN "START_KEY_IV" ELSE "IDLE"
         /\ fsm.at # "IDLE" => (fsm'.at = "IDLE" <=> message_done)
         /\ fsm.at # "IDLE" /\ ~message_done => fsm'.mode = fsm.mode
  <1>1. Shaped /\ fsm.at \in Serving \union Answering \union {"IDLE"}
    BY DEF EngineInv, Building
  <1>2. message_done => fsm.at \in {"WAIT_TAG_SENT", "WAIT_VERIFY_SENT"}
    BY DEF message_done
  <1>3. CASE fsm.at = "IDLE"
    BY <1>1, <1>3, FsmClock DEF FsmTo, Begins
  <1>4. CASE fsm.at \in {"START_KEY_IV", "WAIT_AAD_READY", "STREAM_AAD", "HOLD_AAD_LAST"}
    BY <1>1, <1>2, <1>4, FsmClock DEF FsmTo, Streams, Firsts
  <1>5. CASE fsm.at \in {"WAIT_DATA_READY", "STREAM_PT", "HOLD_PT_LAST"}
    BY <1>1, <1>2, <1>5, FsmClock DEF FsmTo, Streams, Firsts
  <1>6. CASE fsm.at \in {"WAIT_PIPELINE", "SEND_CT", "WAIT_CT_SENT", "SEND_TAG", "SEND_VERIFY"}
    BY <1>1, <1>2, <1>6, FsmClock DEF FsmTo, FsmAsks, Stays
  <1>7. CASE fsm.at = "WAIT_TAG_SENT"
    BY <1>1, <1>7, FsmClock DEF Stays, FsmTo
  <1>8. CASE fsm.at = "WAIT_VERIFY_SENT"
    BY <1>1, <1>8, FsmClock DEF FsmTo
  <1> QED BY <1>1, <1>3, <1>4, <1>5, <1>6, <1>7, <1>8 DEF Serving, Answering

(* A start takes the message out of the engine of CommandSpec.             *)
LEMMA ModelCleared ==
  ASSUME ModelShaped, model' = Cleared(model)
  PROVE  ModelBecomes(model.key, model.iv, <<>>, <<>>, <<>>)
  <1>1. model = ModelAt(model.key, model.iv, model.tag_ref, model.aad, model.data)
    BY ModelFields
  <1>2. model' = ModelAt(model.key, model.iv, <<>>, <<>>, <<>>)
    BY <1>1 DEF Cleared, ModelAt
  <1>3. ModelShaped'
    BY <1>2 DEF ModelShaped
  <1> QED BY <1>2, <1>3 DEF ModelBecomes, ModelAt

(* A clock while a message is served.                                      *)
LEMMA InStepServing ==
  ASSUME EngineInv, Arriving, Delivered, InStep, Typed, NEW o \in BOOLEAN, Clock(o), fsm.at # "IDLE"
  PROVE  InStep' /\ Typed'
  <1>1. Shaped /\ BufferStep /\ FsmStep /\ ParserStep(o)
    BY DEF EngineInv, Clock
  <1>2. strobe = NoStrobe /\ strobe.event = "none" /\ ~strobe.done
    BY StrobeFinds
  <1>3. model' = model
    BY <1>2, ModelClock
  <1>4. /\ model.aad = <<>> /\ model.data = <<>> /\ model.tag_ref = <<>>
        /\ model.key = regs.key /\ model.iv = regs.iv
    BY DEF InStep
  <1>5. RegsShaped /\ ModelShaped /\ ModelShaped'
    BY <1>3 DEF Typed, ModelShaped
  <1>6. CASE message_done
    <2>1. RegsBecome(regs.key, regs.iv, <<>>, <<>>, <<>>)
      BY <1>1, <1>2, <1>5, <1>6, RegsClock
    <2>2. fsm'.at = "IDLE"
      BY <1>1, <1>6, FsmLeaves
    <2>3. parsing.at \in {"idle", "SETTLE_1"}
      BY DEF EngineInv, Asking
    <2>4. parsing'.at \in {"idle", "GET_LEN"}
      BY <1>1, <2>3, ParserMoves
    <2>5. Put("LOAD_AAD")' = <<>> /\ Put("LOAD_PLAINTEXT")' = <<>>
      BY <2>4, WrittenNoneNext, PutNoneNext
    <2> QED BY <1>3, <1>4, <1>5, <2>1, <2>2, <2>5, InBufferEmpty, Assemble DEF RegsBecome
  <1>7. CASE ~message_done
    <2>1. regs' = regs
      BY <1>1, <1>2, <1>5, <1>7, RegsClock DEF Loads, CMD_ACKS
    <2>2. fsm'.at # "IDLE"
      BY <1>1, <1>7, FsmLeaves
    <2> QED BY <1>3, <1>4, <1>5, <2>1, <2>2, AssembleBusy
  <1> QED BY <1>6, <1>7

(* What a strobe leaves of the packets under way.                          *)
LEMMA PutClock ==
  ASSUME EngineInv, Arriving, Delivered, NEW o \in BOOLEAN, Clock(o), NEW load \in BlockLoads
  PROVE  /\ strobe.event \notin Refusals \union {load} => Put(load)' = Put(load)
         /\ strobe.event \in Refusals => Put(load)' = <<>>
         /\ strobe.event \in {"ERR_LEN", "ERR_UNKNOWN"} => Put(load) = <<>>
         /\ strobe.event \in (Loads \union Starts) \ {load} => Put(load) = <<>> /\ Put(load)' = <<>>
  <1>1. strobe.event \notin Refusals \union {load} => Put(load)' = Put(load)
    BY WrittenClock, PutSame
  <1>2. strobe.event \in Refusals => Put(load)' = <<>>
    BY WrittenClock, PutNoneNext
  <1>3. strobe.event \in {"ERR_LEN", "ERR_UNKNOWN"} => Put(load) = <<>>
    BY WrittenClock, PutNone DEF Refusals
  <1>4. ASSUME strobe.event \in (Loads \union Starts) \ {load}
        PROVE  Put(load) = <<>> /\ Put(load)' = <<>>
    <2>1. opcode # load
      BY <1>4 DEF Delivered
    <2>2. Put(load) = <<>>
      BY <2>1, WrittenNone, PutNone
    <2>3. strobe.event \notin Refusals
      BY <1>4, Opcodes DEF Refusals
    <2> QED BY <1>1, <1>4, <2>2, <2>3
  <1> QED BY <1>1, <1>2, <1>3, <1>4

(* A packet that loads no block.                                           *)
LEMMA InStepLoad ==
  ASSUME EngineInv, Arriving, Delivered, InStep, Typed, NEW o \in BOOLEAN, Clock(o), fsm.at = "IDLE",
         strobe.event \in {"LOAD_KEY", "LOAD_IV", "LOAD_TAG_REF"}
  PROVE  InStep' /\ Typed'
  <1>1. Shaped /\ BufferStep /\ FsmStep
    BY DEF EngineInv, Clock
  <1>2. strobe.done /\ ~message_done /\ strobe.event \in Loads \ BlockLoads /\ strobe.event \notin Starts
    BY StrobeFinds, Opcodes
  <1>3. fsm'.at = "IDLE"
    BY <1>1, <1>2, FsmLeaves DEF StartsNow, start_requested
  <1>4. RegsShaped /\ ModelShaped
    BY DEF Typed
  <1>5. strobe.event = opcode /\ strobe.value = payload
    BY <1>2 DEF Delivered
  <1>6. /\ Put("LOAD_AAD") = <<>> /\ Put("LOAD_AAD")' = <<>>
        /\ Put("LOAD_PLAINTEXT") = <<>> /\ Put("LOAD_PLAINTEXT")' = <<>>
    BY <1>2, PutClock, Opcodes
  <1>7. /\ model.key = regs.key /\ model.iv = regs.iv /\ model.tag_ref = regs.tag_ref
        /\ InBuffer(regs.aad, model.aad, <<>>) /\ InBuffer(regs.pt, model.data, <<>>)
    BY <1>6, BufferPair
  <1>8. CASE key_len_bad
    <2>1. ModelBecomes(model.key, model.iv, <<>>, <<>>, <<>>)
      BY <1>4, <1>8, ModelClock, ModelCleared
    <2>2. RegsBecome(regs.key, regs.iv, <<>>, <<>>, <<>>)
      BY <1>1, <1>2, <1>4, <1>8, RegsClock DEF key_len_bad
    <2> QED BY <1>3, <1>6, <1>7, <2>1, <2>2, InBufferEmpty, Assemble DEF RegsBecome, ModelBecomes
  <1>9. CASE ~key_len_bad
    <2>1. model' = Performed(model, <<opcode, payload>>)
      BY <1>2, <1>9, ModelClock
    <2>2. CASE strobe.event = "LOAD_KEY"
      <3>1. ModelBecomes(payload, model.iv, <<>>, <<>>, <<>>)
        BY <1>4, <1>5, <2>1, <2>2, ModelPerforms
      <3>2. RegsBecome(payload, regs.iv, <<>>, <<>>, <<>>)
        BY <1>1, <1>2, <1>4, <1>5, <1>9, <2>2, RegsClock
      <3> QED BY <1>3, <1>6, <1>7, <3>1, <3>2, InBufferEmpty, Assemble DEF RegsBecome, ModelBecomes
    <2>3. CASE strobe.event = "LOAD_IV"
      <3>1. ModelBecomes(model.key, payload, <<>>, <<>>, <<>>)
        BY <1>4, <1>5, <2>1, <2>3, ModelPerforms
      <3>2. RegsBecome(regs.key, payload, <<>>, <<>>, <<>>)
        BY <1>1, <1>2, <1>4, <1>5, <1>9, <2>3, RegsClock
      <3> QED BY <1>3, <1>6, <1>7, <3>1, <3>2, InBufferEmpty, Assemble DEF RegsBecome, ModelBecomes
    <2>4. CASE strobe.event = "LOAD_TAG_REF"
      <3>1. ModelBecomes(model.key, model.iv, payload, model.aad, model.data)
        BY <1>4, <1>5, <2>1, <2>4, ModelPerforms
      <3>2. RegsBecome(regs.key, regs.iv, payload, regs.aad, regs.pt)
        BY <1>1, <1>2, <1>4, <1>5, <1>9, <2>4, RegsClock
      <3> QED BY <1>3, <1>6, <1>7, <3>1, <3>2, Assemble DEF RegsBecome, ModelBecomes
    <2> QED BY <2>2, <2>3, <2>4
  <1> QED BY <1>8, <1>9

(* A block arrives.                                                        *)
LEMMA InStepBlock ==
  ASSUME EngineInv, Arriving, Delivered, InStep, Typed, NEW o \in BOOLEAN, Clock(o), fsm.at = "IDLE",
         strobe.event \in BlockLoads
  PROVE  InStep' /\ Typed'
  <1> DEFINE new == SubSeq(payload, 1, parsing.cnt)
  <1>1. Shaped /\ BufferStep /\ FsmStep
    BY DEF EngineInv, Clock
  <1>2. ~message_done /\ strobe.event \in Loads \union Starts /\ strobe.event \notin Starts /\ ~key_len_bad
    BY StrobeFinds, Opcodes DEF key_len_bad
  <1>3. fsm'.at = "IDLE"
    BY <1>1, <1>2, FsmLeaves DEF StartsNow, start_requested
  <1>4. RegsShaped /\ ModelShaped
    BY DEF Typed
  <1>5. strobe.event = opcode
    BY <1>2 DEF Delivered
  <1>6. /\ model.key = regs.key /\ model.iv = regs.iv /\ model.tag_ref = regs.tag_ref
        /\ InBuffer(regs.aad, model.aad, Put("LOAD_AAD")) /\ InBuffer(regs.pt, model.data, Put("LOAD_PLAINTEXT"))
    BY BufferPair
  <1>7. strobe.done => new = payload
    BY <1>6, BlockArrives, Opcodes
  <1>8. strobe.done => model' = Performed(model, <<opcode, new>>)
    BY <1>2, <1>7, ModelClock
  <1>9. CASE strobe.event = "LOAD_AAD"
    <2>1. Put("LOAD_PLAINTEXT") = <<>> /\ Put("LOAD_PLAINTEXT")' = <<>>
      BY <1>2, <1>9, PutClock, Opcodes
    <2>2. RegsBecome(regs.key, regs.iv, regs.tag_ref, Write(regs.aad, strobe.value), regs.pt)
      BY <1>1, <1>2, <1>4, <1>9, RegsClock
    <2>3. /\ InBuffer(Write(regs.aad, strobe.value), model.aad, new)
          /\ strobe.done => Put("LOAD_AAD")' = <<>>
          /\ ~strobe.done => new = Put("LOAD_AAD")'
      BY <1>6, <1>9, BlockArrives, PutNoneNext, Opcodes
    <2> HIDE DEF new
    <2>4. CASE ~strobe.done
      <3>1. model' = model /\ new = Put("LOAD_AAD")'
        BY <2>3, <2>4, ModelClock
      <3>2. ModelShaped'
        BY <1>4, <3>1 DEF ModelShaped
      <3> QED BY <1>3, <1>6, <2>1, <2>2, <2>3, <3>1, <3>2, Assemble DEF RegsBecome
    <2>5. CASE strobe.done
      <3>1. model' = Performed(model, <<opcode, new>>) /\ Put("LOAD_AAD")' = <<>>
        BY <1>8, <2>3, <2>5
      <3>2. ModelBecomes(model.key, model.iv, model.tag_ref, Stored(model.aad, new), model.data)
        BY <1>4, <1>5, <1>9, <3>1, ModelPerforms
      <3>3. InBuffer(Write(regs.aad, strobe.value), Stored(model.aad, new), <<>>)
        BY <2>3, InBufferSettled
      <3> QED BY <1>3, <1>6, <2>1, <2>2, <3>1, <3>2, <3>3, Assemble DEF RegsBecome, ModelBecomes
    <2> QED BY <2>4, <2>5
  <1>10. CASE strobe.event = "LOAD_PLAINTEXT"
    <2>1. Put("LOAD_AAD") = <<>> /\ Put("LOAD_AAD")' = <<>>
      BY <1>2, <1>10, PutClock, Opcodes
    <2>2. RegsBecome(regs.key, regs.iv, regs.tag_ref, regs.aad, Write(regs.pt, strobe.value))
      BY <1>1, <1>2, <1>4, <1>10, RegsClock
    <2>3. /\ InBuffer(Write(regs.pt, strobe.value), model.data, new)
          /\ strobe.done => Put("LOAD_PLAINTEXT")' = <<>>
          /\ ~strobe.done => new = Put("LOAD_PLAINTEXT")'
      BY <1>6, <1>10, BlockArrives, PutNoneNext, Opcodes
    <2> HIDE DEF new
    <2>4. CASE ~strobe.done
      <3>1. model' = model /\ new = Put("LOAD_PLAINTEXT")'
        BY <2>3, <2>4, ModelClock
      <3>2. ModelShaped'
        BY <1>4, <3>1 DEF ModelShaped
      <3> QED BY <1>3, <1>6, <2>1, <2>2, <2>3, <3>1, <3>2, Assemble DEF RegsBecome
    <2>5. CASE strobe.done
      <3>1. model' = Performed(model, <<opcode, new>>) /\ Put("LOAD_PLAINTEXT")' = <<>>
        BY <1>8, <2>3, <2>5
      <3>2. ModelBecomes(model.key, model.iv, model.tag_ref, model.aad, Stored(model.data, new))
        BY <1>4, <1>5, <1>10, <3>1, ModelPerforms
      <3>3. InBuffer(Write(regs.pt, strobe.value), Stored(model.data, new), <<>>)
        BY <2>3, InBufferSettled
      <3> QED BY <1>3, <1>6, <2>1, <2>2, <3>1, <3>2, <3>3, Assemble DEF RegsBecome, ModelBecomes
    <2> QED BY <2>4, <2>5
  <1> QED BY <1>9, <1>10, Opcodes

(* A start: the message leaves CommandSpec, the buffers keep it.           *)
LEMMA InStepStart ==
  ASSUME EngineInv, Arriving, Delivered, InStep, Typed, NEW o \in BOOLEAN, Clock(o), fsm.at = "IDLE",
         strobe.event \in Starts
  PROVE  /\ InStep' /\ Typed'
         /\ opcode = strobe.event /\ (start_refused <=> NotReady(model, strobe.event))
         /\ FlattenSeq(regs.aad) = model.aad /\ FlattenSeq(regs.pt) = model.data
         /\ model.tag_ref = regs.tag_ref /\ model.key = regs.key /\ model.iv = regs.iv
  <1>1. Shaped /\ BufferStep /\ FsmStep
    BY DEF EngineInv, Clock
  <1>2. strobe.done /\ ~message_done /\ strobe.event \notin Loads /\ start_requested /\ ~key_len_bad
    BY StrobeFinds, Opcodes DEF start_requested, key_len_bad
  <1>3. RegsShaped /\ ModelShaped
    BY DEF Typed
  <1>4. strobe.event = opcode /\ model' = Performed(model, <<opcode, payload>>)
    BY <1>2, ModelClock
  <1>5. /\ Put("LOAD_AAD") = <<>> /\ Put("LOAD_AAD")' = <<>>
        /\ Put("LOAD_PLAINTEXT") = <<>> /\ Put("LOAD_PLAINTEXT")' = <<>>
    BY <1>2, PutClock, Opcodes
  <1>6. /\ model.key = regs.key /\ model.iv = regs.iv /\ model.tag_ref = regs.tag_ref
        /\ InBuffer(regs.aad, model.aad, <<>>) /\ InBuffer(regs.pt, model.data, <<>>)
    BY <1>5, BufferPair
  <1>7. FlattenSeq(regs.aad) = model.aad /\ FlattenSeq(regs.pt) = model.data
    BY <1>6, InBufferSettled
  <1>8. start_refused <=> NotReady(model, strobe.event)
    <2>1. regs.pt = <<>> <=> model.data = <<>>
      BY <1>6, <1>7, BufferIs DEF InBuffer, Buffered
    <2> QED BY <1>2, <1>6, <2>1 DEF start_refused, NotReady
  <1>9. regs' = regs
    BY <1>1, <1>2, <1>3, RegsClock
  <1>10. CASE start_refused
    <2>1. fsm'.at = "IDLE"
      BY <1>1, <1>10, FsmLeaves DEF StartsNow
    <2>2. model' = model
      BY <1>3, <1>4, <1>8, <1>10, ModelPerforms
    <2>3. RegsShaped' /\ ModelShaped'
      BY <1>3, <1>9, <2>2 DEF RegsShaped, ModelShaped
    <2>4. InStep' /\ Typed'
      BY <1>5, <1>6, <1>9, <2>1, <2>2, <2>3, Assemble
    <2> QED BY <1>4, <1>6, <1>7, <1>8, <2>4
  <1>11. CASE ~start_refused
    <2>1. fsm'.at # "IDLE"
      BY <1>1, <1>2, <1>11, FsmLeaves DEF StartsNow
    <2>2. ModelBecomes(model.key, model.iv, <<>>, <<>>, <<>>)
      BY <1>3, <1>4, <1>8, <1>11, ModelPerforms
    <2>3. InStep' /\ Typed'
      BY <1>6, <1>9, <2>1, <2>2, AssembleBusy DEF ModelBecomes
    <2> QED BY <1>4, <1>6, <1>7, <1>8, <2>3
  <1> QED BY <1>10, <1>11

(* No packet, or one that is refused or given up.                          *)
LEMMA InStepRefusal ==
  ASSUME EngineInv, Arriving, Delivered, InStep, Typed, NEW o \in BOOLEAN, Clock(o), fsm.at = "IDLE",
         strobe.event \in Refusals \union {"none"}
  PROVE  InStep' /\ Typed'
  <1>1. Shaped /\ BufferStep /\ FsmStep
    BY DEF EngineInv, Clock
  <1>2. ~message_done /\ strobe.event \notin Loads \union Starts /\ "LOAD_AAD" \in BlockLoads /\ "LOAD_PLAINTEXT" \in BlockLoads
    BY StrobeFinds, Opcodes DEF Refusals
  <1>3. RegsShaped /\ ModelShaped
    BY DEF Typed
  <1>4. regs' = regs
    BY <1>1, <1>2, <1>3, RegsClock
  <1>5. fsm'.at = "IDLE"
    BY <1>1, <1>2, FsmLeaves DEF StartsNow, start_requested
  <1>6. /\ model.key = regs.key /\ model.iv = regs.iv /\ model.tag_ref = regs.tag_ref
        /\ InBuffer(regs.aad, model.aad, Put("LOAD_AAD")) /\ InBuffer(regs.pt, model.data, Put("LOAD_PLAINTEXT"))
    BY BufferPair
  <1>7. RegsShaped'
    BY <1>3, <1>4 DEF RegsShaped
  <1>8. ASSUME model' = model, Put("LOAD_AAD")' = Put("LOAD_AAD"), Put("LOAD_PLAINTEXT")' = Put("LOAD_PLAINTEXT")
        PROVE  InStep' /\ Typed'
    <2>1. ModelShaped'
      BY <1>3, <1>8 DEF ModelShaped
    <2> QED BY <1>4, <1>5, <1>6, <1>7, <1>8, <2>1, Assemble
  <1>9. CASE strobe.event = "none"
    <2>1. model' = model
      BY <1>9, StrobeFinds, ModelClock
    <2>2. Put("LOAD_AAD")' = Put("LOAD_AAD") /\ Put("LOAD_PLAINTEXT")' = Put("LOAD_PLAINTEXT")
      BY <1>2, <1>9, PutClock DEF Refusals
    <2> QED BY <1>8, <2>1, <2>2
  <1>10. CASE strobe.event \in {"ERR_LEN", "ERR_UNKNOWN"}
    <2>1. model' = model
      BY <1>10, ModelClock
    <2>2. Put("LOAD_AAD")' = Put("LOAD_AAD") /\ Put("LOAD_PLAINTEXT")' = Put("LOAD_PLAINTEXT")
      BY <1>2, <1>10, PutClock DEF Refusals
    <2> QED BY <1>8, <2>1, <2>2
  <1>11. CASE strobe.event = "ERR_TIMEOUT"
    <2>1. Put("LOAD_AAD")' = <<>> /\ Put("LOAD_PLAINTEXT")' = <<>>
      BY <1>2, <1>11, PutClock DEF Refusals
    <2>2. \A load \in BlockLoads : Written(load) = IF opcode = load THEN WholeBlocks ELSE 0
      BY <1>11, WrittenClock DEF Refusals, WholeBlocks
    <2>3. CASE WholeBlocks = 0
      <3>1. Put("LOAD_AAD") = <<>> /\ Put("LOAD_PLAINTEXT") = <<>>
        BY <1>2, <2>2, <2>3, PutNone
      <3>2. model' = model
        BY <1>11, <2>3, ModelClock
      <3> QED BY <1>8, <2>1, <3>1, <3>2
    <2>4. CASE WholeBlocks # 0
      <3>1. opcode \in BlockLoads
        BY <2>4 DEF WholeBlocks
      <3>2. model' = Performed(model, <<opcode, SubSeq(payload, 1, WholeBlocks)>>)
        BY <1>11, <2>4, ModelClock
      <3>3. CASE opcode = "LOAD_AAD"
        <4>1. Put("LOAD_AAD") = SubSeq(payload, 1, WholeBlocks) /\ Put("LOAD_PLAINTEXT") = <<>>
          BY <1>2, <2>2, <3>3, PutNone DEF Put
        <4>2. ModelBecomes(model.key, model.iv, model.tag_ref, Stored(model.aad, Put("LOAD_AAD")), model.data)
          BY <1>3, <3>2, <3>3, <4>1, ModelPerforms
        <4>3. InBuffer(regs.aad, Stored(model.aad, Put("LOAD_AAD")), <<>>)
          BY <1>6, InBufferSettled
        <4> QED BY <1>4, <1>5, <1>6, <1>7, <2>1, <4>1, <4>2, <4>3, Assemble DEF ModelBecomes
      <3>4. CASE opcode = "LOAD_PLAINTEXT"
        <4>1. Put("LOAD_PLAINTEXT") = SubSeq(payload, 1, WholeBlocks) /\ Put("LOAD_AAD") = <<>>
          BY <1>2, <2>2, <3>4, PutNone DEF Put
        <4>2. ModelBecomes(model.key, model.iv, model.tag_ref, model.aad, Stored(model.data, Put("LOAD_PLAINTEXT")))
          BY <1>3, <3>2, <3>4, <4>1, ModelPerforms
        <4>3. InBuffer(regs.pt, Stored(model.data, Put("LOAD_PLAINTEXT")), <<>>)
          BY <1>6, InBufferSettled
        <4> QED BY <1>4, <1>5, <1>6, <1>7, <2>1, <4>1, <4>2, <4>3, Assemble DEF ModelBecomes
      <3> QED BY <3>1, <3>3, <3>4 DEF BlockLoads
    <2> QED BY <2>3, <2>4
  <1> QED BY <1>9, <1>10, <1>11 DEF Refusals

(* Every clock keeps buffers and CommandSpec in step,                      *)
LEMMA InStepClock ==
  ASSUME EngineInv, Arriving, Delivered, InStep, Typed, NEW o \in BOOLEAN, Clock(o)
  PROVE  InStep' /\ Typed'
  <1>1. CASE fsm.at # "IDLE"
    BY <1>1, InStepServing
  <1>2. CASE fsm.at = "IDLE" /\ strobe.event \in Loads \ BlockLoads
    BY <1>2, InStepLoad, Opcodes
  <1>3. CASE fsm.at = "IDLE" /\ strobe.event \in BlockLoads
    BY <1>3, InStepBlock
  <1>4. CASE fsm.at = "IDLE" /\ strobe.event \in Starts
    BY <1>4, InStepStart
  <1>5. CASE fsm.at = "IDLE" /\ strobe.event \in Refusals \union {"none"}
    BY <1>5, InStepRefusal
  <1>6. strobe.event \in {"none"} \union Loads \union Starts \union Refusals
    BY StrobeFinds
  <1> QED BY <1>1, <1>2, <1>3, <1>4, <1>5, <1>6

(* and so does the host.                                                   *)
LEMMA InStepHost ==
  ASSUME EngineInv, Arriving, InStep, Typed, SendPacket \/ CutPacket \/ UNCHANGED engineVars
  PROVE  InStep' /\ Typed'
  <1>1. UNCHANGED <<model, regs, fsm, parsing, strobe>>
    BY DEF SendPacket, CutPacket, engineVars, commandVars, parserVars
  <1>2. CASE sending' = sending
    BY <1>1, <1>2 DEF InStep, Typed, Written, InBlocks, opcode, payload, RegsShaped, ModelShaped
  <1>3. CASE sending' # sending
    <2>1. parsing.at = "idle" /\ parsing'.at = "idle"
      BY <1>1, <1>3 DEF SendPacket, CutPacket, engineVars
    <2>2. /\ Written("LOAD_AAD") = 0 /\ Written("LOAD_PLAINTEXT") = 0
          /\ Written("LOAD_AAD")' = 0 /\ Written("LOAD_PLAINTEXT")' = 0
      BY <2>1, WrittenNone, WrittenNoneNext
    <2>3. \A load \in BlockLoads : Put(load) = <<>> /\ Put(load)' = <<>>
      BY <2>2, PutNone, PutNoneNext DEF BlockLoads
    <2>4. Typed'
      BY <1>1 DEF Typed, RegsShaped, ModelShaped
    <2> QED BY <1>1, <2>3, <2>4 DEF InStep, Put, BlockLoads
  <1> QED BY <1>2, <1>3

(* They begin in step.                                                     *)
LEMMA InStepInit ==
  ASSUME EngineInit
  PROVE  InStep /\ Typed
  <1>1. regs = RegsAt(<<>>, <<>>, <<>>, <<>>, <<>>) /\ model = ModelAt(<<>>, <<>>, <<>>, <<>>, <<>>)
    BY DEF EngineInit, CommandInit, NoRegs, NewEngine, RegsAt, ModelAt
  <1>2. RegsShaped /\ ModelShaped
    BY <1>1 DEF RegsShaped, ModelShaped
  <1>3. InBuffer(regs.aad, model.aad, <<>>) /\ InBuffer(regs.pt, model.data, <<>>)
    BY <1>1, InBufferEmpty DEF RegsAt, ModelAt
  <1>4. Put("LOAD_AAD") = <<>> /\ Put("LOAD_PLAINTEXT") = <<>>
    <2>1. parsing.at = "idle"
      BY DEF EngineInit, ClearParser
    <2> QED BY <2>1, WrittenNone, PutNone
  <1>5. fsm.at = "IDLE"
    BY DEF EngineInit, IdleFsm
  <1> QED BY <1>1, <1>2, <1>3, <1>4, <1>5 DEF InStep, Typed, InBuffer, Put, RegsAt, ModelAt

(* What is served is there.                                                *)
LEMMA ServedClock ==
  ASSUME EngineInv, Delivered, Typed, Served, NEW o \in BOOLEAN, Clock(o)
  PROVE  Served'
  <1>1. Shaped /\ BufferStep /\ FsmStep /\ RegsShaped
    BY DEF EngineInv, Clock, Typed
  <1>2. CASE fsm.at # "IDLE" /\ ~message_done
    <2>1. strobe.event = "none"
      BY <1>2, StrobeFinds
    <2>2. regs' = regs
      BY <1>1, <1>2, <2>1, RegsClock, Opcodes
    <2> QED BY <1>1, <1>2, <2>2, FsmLeaves DEF Served
  <1>3. CASE fsm.at = "IDLE" /\ StartsNow
    <2>1. strobe.event \in Starts /\ ~message_done
      BY <1>3, StrobeFinds DEF StartsNow, start_requested
    <2>2. regs' = regs
      BY <1>1, <2>1, RegsClock, Opcodes
    <2>3. regs.pt # <<>> /\ (strobe.event = "START_DECRYPT" => regs.tag_ref # <<>>)
      BY <1>3 DEF StartsNow, start_refused
    <2>4. fsm'.mode <=> strobe.event = "START_DECRYPT"
      BY <1>1, <1>3, FsmClock DEF Begins
    <2> QED BY <2>2, <2>3, <2>4 DEF Served
  <1>4. CASE (fsm.at # "IDLE" /\ message_done) \/ (fsm.at = "IDLE" /\ ~StartsNow)
    BY <1>1, <1>4, FsmLeaves DEF Served
  <1> QED BY <1>2, <1>3, <1>4

-----------------------------------------------------------------------------
(* THE CORE AND THE CAPTURE REGISTERS                                      *)
(* What the FSM feeds the core is the message of the buffers (Feeding),    *)
(* and what the capture registers hold in the end is its result (Given).   *)
(* A clock of the data path of the core, field by field.                   *)
LEMMA CoreFields ==
  ASSUME NEW works \in BOOLEAN, CoreStep(works), Current # "FINISH", Current' # "FINISH"
  PROVE  /\ core'.key = IF "load_key" \in drive.on THEN drive.word[1] ELSE core.key
         /\ core'.iv = IF "load_key" \in drive.on THEN drive.word[2] ELSE core.iv
         /\ core'.tag_ref = IF "load_tag_ref" \in drive.on THEN regs.tag_ref ELSE core.tag_ref
         /\ core'.aad = AadAfter /\ core'.data = DataAfter
         /\ core'.last <=> core.last \/ "data_in_last" \in drive.on
         /\ core'.out = IF works /\ core.out < Len(core.data) THEN core.out + 1 ELSE core.out
         /\ core'.word = IF works /\ core.out < Len(core.data)
                         THEN SubSeq(Message.output, core.out * BlockBytes + 1, (core.out + 1) * BlockBytes) ELSE <<>>
         /\ core'.tag = IF works /\ core.last /\ core.out = Len(core.data) THEN Message.tag ELSE core.tag
  <1> DEFINE next == IF works /\ core.out < Len(core.data) THEN core.out + 1 ELSE core.out
             word == IF works /\ core.out < Len(core.data)
                     THEN SubSeq(Message.output, core.out * BlockBytes + 1, (core.out + 1) * BlockBytes) ELSE <<>>
             tag == IF works /\ core.last /\ core.out = Len(core.data) THEN Message.tag ELSE core.tag
             last == core.last \/ "data_in_last" \in drive.on
             H == ~("load_key" \in drive.on) /\ (core.H_loaded \/ (Current = "WAIT_H_CAL" /\ works))
             I == core.IV_loaded \/ "load_key" \in drive.on
             aad == AadAfter
             data == DataAfter
             key == IF "load_key" \in drive.on THEN drive.word[1] ELSE core.key
             iv == IF "load_key" \in drive.on THEN drive.word[2] ELSE core.iv
             ref == IF "load_tag_ref" \in drive.on THEN regs.tag_ref ELSE core.tag_ref
  <1>1. core' = [H_loaded |-> H, IV_loaded |-> I, key |-> key, iv |-> iv, tag_ref |-> ref, aad |-> aad, data |-> data,
                 last |-> last, out |-> next, word |-> word, tag |-> tag]
    BY DEF CoreStep, finish, AadAfter, DataAfter
  <1> HIDE DEF next, word, tag, last, H, I, aad, data, key, iv, ref
  <1>2. /\ core'.key = key /\ core'.iv = iv /\ core'.tag_ref = ref /\ core'.aad = aad /\ core'.data = data
        /\ core'.out = next /\ core'.word = word /\ core'.tag = tag /\ core'.last = last
    BY <1>1
  <1> QED BY <1>2 DEF next, word, tag, last, aad, data, key, iv, ref

(* The clock in which the core ends a message empties it.                  *)
LEMMA CoreEnds ==
  ASSUME NEW works \in BOOLEAN, CoreStep(works), Current = "FINISH" \/ Current' = "FINISH"
  PROVE  Fresh' /\ ~core'.last /\ core'.tag = <<>>
  BY CoreRegisters DEF Fresh, NoMessageYet

(* A part of a message, one block more.                                    *)
LEMMA Part ==
  ASSUME NEW blocks \in Seq(Seq(Byte))
  PROVE  /\ SubSeq(blocks, 1, 0) = <<>> /\ SubSeq(blocks, 1, Len(blocks)) = blocks
         /\ Len(blocks) \in Nat
         /\ \A n \in 0..Len(blocks) : SubSeq(blocks, 1, n) \in Seq(Seq(Byte)) /\ Len(SubSeq(blocks, 1, n)) = n
         /\ \A n \in 0..Len(blocks) - 1 :
                n + 1 \in 0..Len(blocks) /\ Append(SubSeq(blocks, 1, n), Slot(blocks, n)) = SubSeq(blocks, 1, n + 1)
  <1>1. Len(blocks) \in Nat
    OBVIOUS
  <1>2. ASSUME NEW n \in 0..Len(blocks) - 1
        PROVE  Append(SubSeq(blocks, 1, n), Slot(blocks, n)) = SubSeq(blocks, 1, n + 1)
    <2>1. n \in Nat /\ 1 \in 1..n + 1 /\ n + 1 <= Len(blocks) /\ Slot(blocks, n) = blocks[n + 1] /\ 1 \in Nat
      BY <1>1, <1>2 DEF Slot
    <2> QED BY <2>1, SubSeqMore
  <1> QED BY <1>1, <1>2

(* While a message is served its buffers and direction stay.               *)
LEMMA ServingStays ==
  ASSUME EngineInv, Delivered, Typed, NEW o \in BOOLEAN, Clock(o), fsm.at # "IDLE", ~message_done
  PROVE  regs' = regs /\ fsm'.mode = fsm.mode
  <1>1. Shaped /\ BufferStep /\ FsmStep /\ RegsShaped
    BY DEF EngineInv, Clock, Typed
  <1>2. strobe.event = "none"
    BY StrobeFinds
  <1> QED BY <1>1, <1>2, RegsClock, Opcodes, FsmLeaves

Taking == {"WAIT_AAD_READY", "HOLD_AAD_LAST", "STREAM_AAD", "WAIT_DATA_READY", "HOLD_PT_LAST", "STREAM_PT"}

(* What each transition of the FSM gives the core.                         *)
LEMMA NextWords ==
  ASSUME EngineInv, Feeding, Served, Typed, NEW o \in BOOLEAN, Clock(o), fsm.at \in Taking, regs' = regs,
         core'.aad = AadAfter, core'.data = DataAfter
  PROVE  /\ fsm'.at \in Taking \union {"WAIT_PIPELINE"}
         /\ fsm'.at = "WAIT_PIPELINE" => fsm.at \in {"STREAM_PT", "HOLD_PT_LAST"}
         /\ AadAfter' = SubSeq(regs.aad, 1, AadDue') /\ DataAfter' = SubSeq(regs.pt, 1, DataDue')
         /\ fsm'.at = "STREAM_AAD" => fsm'.idx \in 1..Len(regs.aad) - 1
         /\ fsm'.at = "STREAM_PT" => fsm'.idx \in 1..Len(regs.pt) - 1
         /\ DataDue \in 0..Len(regs.pt)
  <1> DEFINE aad == regs.aad
             pt == regs.pt
             A == AadAfter
             D == DataAfter
             word == drive'.word
  <1>1. Shaped /\ FsmStep /\ fsm.at # "IDLE"
    BY DEF EngineInv, Clock, Taking
  <1>2. /\ aad \in Seq(Seq(Byte)) /\ pt \in Seq(Seq(Byte)) /\ Len(pt) \in Nat /\ Len(aad) \in Nat
        /\ pt # <<>> /\ Len(pt) >= 1 /\ (aad # <<>> => Len(aad) >= 1) /\ (aad = <<>> => Len(aad) = 0)
    <2>1. aad \in Seq(Seq(Byte)) /\ pt \in Seq(Seq(Byte))
      BY BufferIs DEF Typed, Buffered
    <2> QED BY <1>1, <2>1 DEF Served
  <1>3. A = SubSeq(aad, 1, AadDue) /\ D = SubSeq(pt, 1, DataDue)
    BY DEF Feeding, InMessage, Taking
  <1>4. /\ fsm.at = "STREAM_AAD" => fsm.idx \in 1..Len(aad) - 1
        /\ fsm.at = "STREAM_PT" => fsm.idx \in 1..Len(pt) - 1
    BY DEF Feeding
  <1>5. /\ SubSeq(aad, 1, 0) = <<>> /\ SubSeq(aad, 1, Len(aad)) = aad
        /\ SubSeq(pt, 1, 0) = <<>> /\ SubSeq(pt, 1, Len(pt)) = pt
    BY <1>2, Part
  <1>6. /\ AadAfter' = IF "load_AAD" \in drive'.on THEN Append(A, word) ELSE A
        /\ DataAfter' = IF "load_data" \in drive'.on THEN Append(D, word) ELSE D
    BY DEF AadAfter, DataAfter
  <1>7. /\ \A n \in 0..Len(aad) - 1 : Append(SubSeq(aad, 1, n), Slot(aad, n)) = SubSeq(aad, 1, n + 1)
        /\ \A n \in 0..Len(pt) - 1 : Append(SubSeq(pt, 1, n), Slot(pt, n)) = SubSeq(pt, 1, n + 1)
    BY <1>2, Part
  <1>8. /\ AadDue' = IF fsm'.at = "WAIT_AAD_READY" THEN 0 ELSE IF fsm'.at = "STREAM_AAD" THEN fsm'.idx ELSE Len(aad)
        /\ AadDue = IF fsm.at = "WAIT_AAD_READY" THEN 0 ELSE IF fsm.at = "STREAM_AAD" THEN fsm.idx ELSE Len(aad)
    BY DEF AadDue
  <1>9. /\ DataDue' = IF fsm'.at \in {"WAIT_AAD_READY", "HOLD_AAD_LAST", "STREAM_AAD", "WAIT_DATA_READY"} THEN 0
                      ELSE IF fsm'.at = "STREAM_PT" THEN fsm'.idx ELSE Len(pt)
        /\ DataDue = IF fsm.at \in {"WAIT_AAD_READY", "HOLD_AAD_LAST", "STREAM_AAD", "WAIT_DATA_READY"} THEN 0
                     ELSE IF fsm.at = "STREAM_PT" THEN fsm.idx ELSE Len(pt)
    BY DEF DataDue
  <1> HIDE DEF aad, pt, A, D, word
  <1>10. CASE fsm.at = "WAIT_AAD_READY"
    <2>1. A = <<>> /\ D = <<>>
      BY <1>3, <1>5, <1>8, <1>9, <1>10
    <2>2. CASE fsm'.at = "WAIT_AAD_READY" /\ drive'.on \in {{}, {"load_tag_ref"}}
      BY <1>5, <1>6, <1>8, <1>9, <1>10, <1>2, <2>1, <2>2 DEF Taking, aad, pt
    <2>3. CASE fsm'.at = "WAIT_DATA_READY" /\ drive'.on = {"no_AAD"} /\ aad = <<>>
      BY <1>5, <1>6, <1>8, <1>9, <1>10, <1>2, <2>1, <2>3 DEF Taking, aad, pt
    <2>4. CASE aad # <<>> /\ Firsts(aad, "load_AAD", "AAD_last", "HOLD_AAD_LAST", "STREAM_AAD")
      <3>1. Append(<<>>, Slot(aad, 0)) = SubSeq(aad, 1, 1)
        BY <1>2, <1>5, <1>7, <2>4
      <3>2. CASE fsm'.at = "HOLD_AAD_LAST" /\ drive'.on = {"load_AAD", "AAD_last"} /\ word = Slot(aad, 0) /\ Len(aad) = 1
        BY <1>5, <1>6, <1>8, <1>9, <1>10, <1>2, <2>1, <3>1, <3>2 DEF Taking, aad, pt
      <3>3. CASE fsm'.at = "STREAM_AAD" /\ fsm'.idx = 1 /\ drive'.on = {"load_AAD"} /\ word = Slot(aad, 0) /\ Len(aad) # 1
        BY SMTT(30), <1>5, <1>6, <1>8, <1>9, <1>10, <1>2, <2>1, <2>4, <3>1, <3>3 DEF Taking, aad, pt
      <3> QED BY <2>4, <3>2, <3>3 DEF Firsts, FsmTo, word
    <2> QED BY <1>1, <1>10, <2>2, <2>3, <2>4, FsmClock DEF FsmTo, aad
  <1>11. CASE fsm.at = "STREAM_AAD"
    <2>1. fsm.idx \in 1..Len(aad) - 1 /\ A = SubSeq(aad, 1, fsm.idx) /\ D = <<>>
      BY <1>3, <1>4, <1>5, <1>8, <1>9, <1>11
    <2>2. /\ Append(A, Slot(aad, fsm.idx)) = SubSeq(aad, 1, fsm.idx + 1)
          /\ fsm.idx \in 0..Len(aad) /\ (fsm.idx + 1 # Len(aad) => fsm.idx + 1 \in 1..Len(aad) - 1)
      <3>1. fsm.idx \in 0..Len(aad) - 1
        BY <1>2, <2>1
      <3>2. Append(SubSeq(aad, 1, fsm.idx), Slot(aad, fsm.idx)) = SubSeq(aad, 1, fsm.idx + 1)
        BY <1>7, <3>1
      <3>3. fsm.idx \in 0..Len(aad) /\ (fsm.idx + 1 # Len(aad) => fsm.idx + 1 \in 1..Len(aad) - 1)
        BY SMTT(30), <1>2, <3>1
      <3> QED BY <2>1, <3>2, <3>3
    <2>3. CASE fsm.idx + 1 # Len(aad) /\ fsm'.at = "STREAM_AAD" /\ fsm'.idx = fsm.idx + 1 /\ drive'.on = {"load_AAD"}
               /\ word = Slot(aad, fsm.idx)
      <3>1. AadAfter' = SubSeq(aad, 1, fsm.idx + 1) /\ DataAfter' = <<>>
        BY <1>6, <2>1, <2>2, <2>3
      <3>2. AadDue' = fsm.idx + 1 /\ DataDue' = 0 /\ DataDue = 0
        BY <1>8, <1>9, <1>11, <2>3
      <3> QED BY <1>2, <1>5, <1>11, <2>2, <2>3, <3>1, <3>2 DEF Taking, aad, pt
    <2>4. CASE fsm.idx + 1 = Len(aad) /\ fsm'.at = "WAIT_DATA_READY" /\ drive'.on = {"load_AAD", "AAD_last"}
               /\ word = Slot(aad, fsm.idx)
      <3>1. AadAfter' = SubSeq(aad, 1, Len(aad)) /\ DataAfter' = <<>>
        BY <1>6, <2>1, <2>2, <2>4
      <3>2. AadDue' = Len(aad) /\ DataDue' = 0 /\ DataDue = 0
        BY <1>8, <1>9, <1>11, <2>4
      <3> QED BY <1>2, <1>5, <1>11, <2>4, <3>1, <3>2 DEF Taking, aad, pt
    <2>5. Streams(aad, "load_AAD", "AAD_last", "STREAM_AAD", "WAIT_DATA_READY")
      BY <1>1, <1>11, FsmClock DEF aad
    <2> QED BY <2>3, <2>4, <2>5 DEF Streams, FsmTo, word
  <1>12. CASE fsm.at = "HOLD_AAD_LAST"
    <2>1. A = aad /\ D = <<>>
      BY <1>3, <1>5, <1>8, <1>9, <1>12
    <2>2. fsm'.at = "WAIT_DATA_READY" /\ drive'.on = {"AAD_last"}
      BY <1>1, <1>12, FsmClock DEF FsmTo
    <2> QED BY <1>2, <1>5, <1>6, <1>8, <1>9, <1>12, <2>1, <2>2 DEF Taking, aad, pt
  <1>13. CASE fsm.at = "WAIT_DATA_READY"
    <2>1. A = aad /\ D = <<>>
      BY <1>3, <1>5, <1>8, <1>9, <1>13
    <2>2. CASE fsm'.at = "WAIT_DATA_READY" /\ drive'.on = {}
      BY <1>2, <1>5, <1>6, <1>8, <1>9, <1>13, <2>1, <2>2 DEF Taking, aad, pt
    <2>3. CASE Firsts(pt, "load_data", "data_in_last", "HOLD_PT_LAST", "STREAM_PT")
      <3>1. Append(<<>>, Slot(pt, 0)) = SubSeq(pt, 1, 1)
        BY <1>2, <1>5, <1>7
      <3>2. CASE fsm'.at = "HOLD_PT_LAST" /\ drive'.on = {"load_data", "data_in_last"} /\ word = Slot(pt, 0) /\ Len(pt) = 1
        BY <1>5, <1>6, <1>8, <1>9, <1>13, <1>2, <2>1, <3>1, <3>2 DEF Taking, aad, pt
      <3>3. CASE fsm'.at = "STREAM_PT" /\ fsm'.idx = 1 /\ drive'.on = {"load_data"} /\ word = Slot(pt, 0) /\ Len(pt) # 1
        BY <1>5, <1>6, <1>8, <1>9, <1>13, <1>2, <2>1, <3>1, <3>3 DEF Taking, aad, pt
      <3> QED BY <2>3, <3>2, <3>3 DEF Firsts, FsmTo, word
    <2> QED BY <1>1, <1>13, <2>2, <2>3, FsmClock DEF FsmTo, pt
  <1>14. CASE fsm.at = "STREAM_PT"
    <2>1. fsm.idx \in 1..Len(pt) - 1 /\ A = aad /\ D = SubSeq(pt, 1, fsm.idx)
      BY <1>3, <1>4, <1>5, <1>8, <1>9, <1>14
    <2>2. /\ Append(D, Slot(pt, fsm.idx)) = SubSeq(pt, 1, fsm.idx + 1)
          /\ fsm.idx \in 0..Len(pt) /\ (fsm.idx + 1 # Len(pt) => fsm.idx + 1 \in 1..Len(pt) - 1)
      <3>1. fsm.idx \in 0..Len(pt) - 1
        BY <1>2, <2>1
      <3>2. Append(SubSeq(pt, 1, fsm.idx), Slot(pt, fsm.idx)) = SubSeq(pt, 1, fsm.idx + 1)
        BY <1>7, <3>1
      <3>3. fsm.idx \in 0..Len(pt) /\ (fsm.idx + 1 # Len(pt) => fsm.idx + 1 \in 1..Len(pt) - 1)
        BY SMTT(30), <1>2, <3>1
      <3> QED BY <2>1, <3>2, <3>3
    <2>3. CASE fsm.idx + 1 # Len(pt) /\ fsm'.at = "STREAM_PT" /\ fsm'.idx = fsm.idx + 1 /\ drive'.on = {"load_data"}
               /\ word = Slot(pt, fsm.idx)
      <3>1. AadAfter' = aad /\ DataAfter' = SubSeq(pt, 1, fsm.idx + 1)
        BY <1>6, <2>1, <2>2, <2>3
      <3>2. AadDue' = Len(aad) /\ DataDue' = fsm.idx + 1 /\ DataDue = fsm.idx
        BY <1>8, <1>9, <1>14, <2>3
      <3> QED BY <1>2, <1>5, <1>14, <2>2, <2>3, <3>1, <3>2 DEF Taking, aad, pt
    <2>4. CASE fsm.idx + 1 = Len(pt) /\ fsm'.at = "WAIT_PIPELINE" /\ drive'.on = {"load_data", "data_in_last"}
               /\ word = Slot(pt, fsm.idx)
      <3>1. AadAfter' = aad /\ DataAfter' = SubSeq(pt, 1, Len(pt))
        BY <1>6, <2>1, <2>2, <2>4
      <3>2. AadDue' = Len(aad) /\ DataDue' = Len(pt) /\ DataDue = fsm.idx
        BY <1>8, <1>9, <1>14, <2>4
      <3> QED BY <1>2, <1>5, <1>14, <2>2, <2>4, <3>1, <3>2 DEF Taking, aad, pt
    <2>5. Streams(pt, "load_data", "data_in_last", "STREAM_PT", "WAIT_PIPELINE")
      BY <1>1, <1>14, FsmClock DEF pt
    <2> QED BY <2>3, <2>4, <2>5 DEF Streams, FsmTo, word
  <1>15. CASE fsm.at = "HOLD_PT_LAST"
    <2>1. A = aad /\ D = pt
      BY <1>3, <1>5, <1>8, <1>9, <1>15
    <2>2. fsm'.at = "WAIT_PIPELINE" /\ drive'.on = {"data_in_last"}
      BY <1>1, <1>15, FsmClock DEF FsmTo
    <2> QED BY <1>2, <1>5, <1>6, <1>8, <1>9, <1>15, <2>1, <2>2 DEF Taking, aad, pt
  <1> QED BY <1>10, <1>11, <1>12, <1>13, <1>14, <1>15 DEF Taking

(* A core that is at rest stays empty.                                     *)
LEMMA FreshKept ==
  ASSUME Feeding, Current \in {"IDLE", "FINISH"}, NEW works \in BOOLEAN, CoreStep(works),
         drive.on \in {{}, {"verify_checked"}}
  PROVE  Fresh' /\ Current' = "IDLE"
  <1>1. Current' = "IDLE"
    BY CoreMoves
  <1>2. CASE Current = "FINISH"
    BY <1>1, <1>2, CoreEnds
  <1>3. CASE Current = "IDLE"
    <2>1. Fresh
      BY <1>3 DEF Feeding
    <2>2. /\ core'.tag_ref = core.tag_ref /\ core'.aad = core.aad /\ core'.data = core.data
          /\ ~(core.out < Len(core.data))
      BY <1>1, <1>3, <2>1, CoreFields DEF Fresh, AadAfter, DataAfter
    <2>3. core'.out = core.out /\ core'.word = <<>>
      BY <1>1, <1>3, <2>2, CoreFields
    <2> QED BY <1>1, <2>1, <2>2, <2>3 DEF Fresh
  <1> QED BY <1>2, <1>3

(* The core takes AAD and data, block by block.                            *)
LEMMA FeedingTaking ==
  ASSUME EngineInv, Delivered, Served, Typed, Feeding, NEW o \in BOOLEAN, Clock(o), fsm.at \in Taking
  PROVE  /\ Feeding' /\ InMessage' /\ regs' = regs /\ fsm'.mode = fsm.mode
         /\ Current # "FINISH" /\ Current' # "FINISH"
         /\ fsm'.at \in Taking \union {"WAIT_PIPELINE"} /\ drive.on \intersect {"load_key"} = {}
  <1>1. CoreStep(o) /\ InMessage /\ Driving
    BY DEF EngineInv, Clock, InMessage, Taking
  <1>2. regs' = regs /\ fsm'.mode = fsm.mode
    <2>1. fsm.at # "IDLE" /\ ~message_done
      BY DEF Taking, message_done
    <2> QED BY <2>1, ServingStays
  <1>3. Current \in Opened \union {"WAIT_AAD", "LOAD_AAD", "WAIT_DATA", "LOAD_DATA"} /\ "load_key" \notin drive.on
    BY <1>1 DEF Taking, Driving
  <1>4. /\ Current' \notin {"IDLE", "FINISH"}
        /\ Current \in Opened => \/ Current' \in Opened
                                 \/ Current' = "WAIT_AAD" /\ ~(fsm.mode /\ core.tag_ref = <<>>)
        /\ Current \notin Opened => Current' \notin Opened
    <2>1. Current \in Opened => core.IV_loaded
      BY <1>1 DEF Taking, Driving, Opened
    <2>2. CASE Current \in Opened
      BY <1>1, <2>1, <2>2, CoreMoves DEF Opened
    <2>3. CASE Current \in {"WAIT_AAD", "LOAD_AAD"}
      BY <1>1, <2>3, CoreMoves DEF Opened
    <2>4. CASE Current \in {"WAIT_DATA", "LOAD_DATA"}
      BY <1>1, <2>4, CoreMoves DEF Opened
    <2> QED BY <1>3, <2>2, <2>3, <2>4
  <1>5. Current # "FINISH"
    BY <1>3 DEF Opened
  <1>6. /\ core'.key = core.key /\ core'.iv = core.iv /\ core'.aad = AadAfter /\ core'.data = DataAfter
        /\ core'.tag_ref = IF "load_tag_ref" \in drive.on THEN regs.tag_ref ELSE core.tag_ref
    BY <1>1, <1>3, <1>4, <1>5, CoreFields
  <1>7. /\ fsm'.at \in Taking \union {"WAIT_PIPELINE"}
        /\ AadAfter' = SubSeq(regs.aad, 1, AadDue') /\ DataAfter' = SubSeq(regs.pt, 1, DataDue')
        /\ fsm'.at = "STREAM_AAD" => fsm'.idx \in 1..Len(regs.aad) - 1
        /\ fsm'.at = "STREAM_PT" => fsm'.idx \in 1..Len(regs.pt) - 1
        /\ DataDue \in 0..Len(regs.pt)
    BY <1>2, <1>6, NextWords
  <1>8. core'.key = regs.key /\ core'.iv = regs.iv /\ core'.data = SubSeq(regs.pt, 1, DataDue)
    BY <1>1, <1>6 DEF Feeding
  <1>9. Len(core'.data) \in 0..Len(regs.pt) /\ core'.data = SubSeq(regs.pt, 1, Len(core'.data))
    <2>1. regs.pt \in Seq(Seq(Byte))
      BY BufferIs DEF Typed, Buffered
    <2>2. Len(core'.data) = DataDue
      BY <1>7, <1>8, <2>1, Part
    <2> QED BY <1>7, <1>8, <2>2
  <1>10. core'.tag_ref \in {<<>>, regs.tag_ref}
    BY <1>1, <1>6 DEF Feeding
  <1>11. fsm.mode /\ Current' \notin Opened => core'.tag_ref # <<>>
    <2> SUFFICES ASSUME fsm.mode, Current' \notin Opened PROVE core'.tag_ref # <<>>
      OBVIOUS
    <2>1. core.tag_ref # <<>>
      <3>1. CASE Current \in Opened
        BY <1>4, <3>1
      <3>2. CASE Current \notin Opened
        BY <1>1, <3>2 DEF Feeding, Opened
      <3> QED BY <3>1, <3>2
    <2>2. "load_tag_ref" \notin drive.on
      BY <1>1, <2>1 DEF Taking, Driving
    <2> QED BY <1>6, <2>1, <2>2
  <1>12. InMessage'
    BY <1>4, <1>7 DEF InMessage, Taking
  <1>13. Feeding'
    <2>1. fsm'.at # "START_KEY_IV"
      BY <1>7 DEF Taking
    <2> QED BY <1>2, <1>4, <1>7, <1>8, <1>9, <1>10, <1>11, <2>1 DEF Feeding, Opened
  <1> QED BY <1>2, <1>3, <1>4, <1>5, <1>7, <1>12, <1>13

(* The first clock of a message: the core takes the key and the IV.        *)
LEMMA FeedingStart ==
  ASSUME EngineInv, Delivered, Typed, Feeding, NEW o \in BOOLEAN, Clock(o), fsm.at = "START_KEY_IV"
  PROVE  /\ Feeding' /\ InMessage' /\ fsm'.at = "WAIT_AAD_READY" /\ regs' = regs /\ fsm'.mode = fsm.mode
         /\ core'.data = <<>> /\ core'.out = 0 /\ core'.word = <<>> /\ ~core'.last /\ core'.tag = <<>>
         /\ Current' = "KEY_EXPANSION"
  <1>1. CoreStep(o) /\ Shaped /\ FsmStep /\ Current = "IDLE" /\ drive.on = {"load_key"}
    BY DEF EngineInv, Clock, Driving
  <1>2. regs' = regs /\ fsm'.mode = fsm.mode
    BY ServingStays DEF message_done
  <1>3. Current' = "KEY_EXPANSION"
    BY <1>1, CoreMoves
  <1>4. drive.word = <<regs.key, regs.iv>> /\ Fresh
    BY <1>1 DEF Feeding
  <1>5. ~core.last /\ core.tag = <<>>
    BY DEF EngineInv, Finishing
  <1>6. fsm'.at = "WAIT_AAD_READY" /\ drive'.on = {}
    BY <1>1, FsmClock DEF FsmTo
  <1>7. AadAfter = <<>> /\ DataAfter = <<>> /\ Len(core.data) = 0 /\ core.out = 0
    BY <1>1, <1>4 DEF AadAfter, DataAfter, Fresh
  <1>8. /\ core'.key = regs.key /\ core'.iv = regs.iv /\ core'.tag_ref = <<>> /\ core'.aad = <<>> /\ core'.data = <<>>
        /\ core'.out = 0 /\ core'.word = <<>> /\ ~core'.last /\ core'.tag = <<>>
    BY <1>1, <1>3, <1>4, <1>5, <1>7, CoreFields DEF Fresh
  <1>9. AadAfter' = <<>> /\ DataAfter' = <<>> /\ AadDue' = 0 /\ DataDue' = 0
    BY <1>6, <1>8 DEF AadAfter, DataAfter, AadDue, DataDue
  <1>10. SubSeq(regs.aad, 1, 0) = <<>> /\ SubSeq(regs.pt, 1, 0) = <<>> /\ Len(regs.pt) \in Nat
    BY BufferIs DEF Typed, Buffered
  <1>11. Len(core'.data) = 0
    BY <1>8
  <1>12. InMessage'
    BY <1>6 DEF InMessage
  <1>13. Feeding'
    BY <1>2, <1>3, <1>6, <1>8, <1>9, <1>10, <1>11 DEF Feeding
  <1> QED BY <1>2, <1>3, <1>6, <1>8, <1>12, <1>13

(* The core has all of the message and works it off.                       *)
Sent == {"SEND_CT", "WAIT_CT_SENT", "SEND_TAG", "WAIT_TAG_SENT", "SEND_VERIFY", "WAIT_VERIFY_SENT"}
LEMMA FeedingPipeline ==
  ASSUME EngineInv, Delivered, Typed, Feeding, NEW o \in BOOLEAN, Clock(o), fsm.at = "WAIT_PIPELINE"
  PROVE  /\ Feeding' /\ regs' = regs /\ fsm'.mode = fsm.mode
         /\ fsm'.at \in {"WAIT_PIPELINE", "SEND_CT", "SEND_TAG"} /\ drive.on \intersect {"load_key", "load_tag_ref", "load_AAD"} = {}
         /\ InMessage => core.aad = regs.aad /\ DataAfter = regs.pt
         /\ InMessage \/ (Current \in {"IDLE", "FINISH"} /\ Fresh /\ Current' = "IDLE" /\ Fresh')
         /\ InMessage => Current # "FINISH"
         /\ InMessage /\ Current' # "FINISH" =>
                Current' \in {"WAIT_PROCESS_FINISH", "VERIFY_PASS"} /\ (fsm'.at = "WAIT_PIPELINE" => InMessage')
         /\ Current' = "FINISH" => ~InMessage' /\ Fresh'
  <1>1. CoreStep(o) /\ Shaped /\ FsmStep /\ Driving
    BY DEF EngineInv, Clock
  <1>2. regs' = regs /\ fsm'.mode = fsm.mode
    BY ServingStays DEF message_done
  <1>3. /\ fsm'.at \in {"WAIT_PIPELINE", "SEND_CT", "SEND_TAG"} /\ drive'.on \in {{}, {"verify_checked"}}
    BY <1>1, FsmClock DEF FsmTo
  <1>4. drive.on \intersect {"load_key", "load_tag_ref", "load_AAD"} = {}
    BY <1>1 DEF Driving
  <1>5. CASE InMessage
    <2>1. Current \in {"LOAD_DATA", "WAIT_PROCESS_FINISH", "VERIFY_PASS"}
      BY <1>1, <1>5 DEF InMessage, Driving
    <2>2. Current' \in {"WAIT_PROCESS_FINISH", "VERIFY_PASS", "FINISH"}
      <3>1. Current = "LOAD_DATA" => "data_in_last" \in drive.on
        BY <1>1 DEF Driving
      <3> QED BY <1>1, <2>1, <3>1, CoreMoves
    <2>3. regs.aad \in Seq(Seq(Byte)) /\ regs.pt \in Seq(Seq(Byte))
      BY BufferIs DEF Typed, Buffered
    <2>4. core.aad = regs.aad /\ DataAfter = regs.pt
      <3>1. AadDue = Len(regs.aad) /\ DataDue = Len(regs.pt)
        BY DEF AadDue, DataDue
      <3>2. AadAfter = regs.aad /\ DataAfter = regs.pt
        BY <1>5, <2>3, <3>1, Part DEF Feeding
      <3> QED BY <1>4, <3>2 DEF AadAfter
    <2>5. CASE Current' = "FINISH"
      <3>1. Fresh' /\ ~InMessage'
        BY <1>1, <1>3, <2>5, CoreEnds DEF InMessage
      <3>2. Feeding'
        BY <1>3, <2>5, <3>1 DEF Feeding
      <3> QED BY <1>2, <1>3, <1>4, <1>5, <2>1, <2>4, <2>5, <3>1, <3>2
    <2>6. CASE Current' # "FINISH"
      <3>1. /\ core'.key = core.key /\ core'.iv = core.iv /\ core'.aad = AadAfter /\ core'.data = DataAfter
            /\ core'.tag_ref = core.tag_ref
        BY <1>1, <1>4, <2>1, <2>6, CoreFields
      <3>2. AadAfter = regs.aad
        BY <1>4, <2>4 DEF AadAfter
      <3>3. AadAfter' = regs.aad /\ DataAfter' = regs.pt
        BY <1>3, <2>4, <3>1, <3>2 DEF AadAfter, DataAfter
      <3>4. AadDue' = Len(regs.aad) /\ DataDue' = Len(regs.pt)
        BY <1>2, <1>3 DEF AadDue, DataDue
      <3>5. /\ SubSeq(regs.aad, 1, Len(regs.aad)) = regs.aad /\ SubSeq(regs.pt, 1, Len(regs.pt)) = regs.pt
            /\ Len(regs.pt) \in Nat
        BY <2>3, Part
      <3>6. /\ core.key = regs.key /\ core.iv = regs.iv /\ core.tag_ref \in {<<>>, regs.tag_ref}
            /\ fsm.mode => core.tag_ref # <<>>
        BY <1>5, <2>1 DEF Feeding
      <3>7. Len(core'.data) = Len(regs.pt)
        BY <2>4, <3>1
      <3>8. Feeding'
        BY <1>2, <1>3, <2>2, <2>4, <2>6, <3>1, <3>3, <3>4, <3>5, <3>6, <3>7 DEF Feeding
      <3>9. fsm'.at = "WAIT_PIPELINE" => InMessage'
        BY <2>2, <2>6 DEF InMessage
      <3> QED BY <1>2, <1>3, <1>4, <1>5, <2>1, <2>2, <2>4, <2>6, <3>8, <3>9
    <2> QED BY <2>5, <2>6
  <1>6. CASE ~InMessage
    <2>1. Current \in {"IDLE", "FINISH"}
      BY <1>6 DEF InMessage
    <2>2. drive.on \in {{}, {"verify_checked"}}
      BY <1>1, <2>1 DEF Driving
    <2>3. Fresh' /\ Current' = "IDLE"
      BY <1>1, <2>1, <2>2, FreshKept
    <2>4. Fresh
      BY <2>1 DEF Feeding
    <2>5. Feeding'
      BY <1>3, <2>3 DEF Feeding, InMessage
    <2> QED BY <1>2, <1>3, <1>4, <1>6, <2>1, <2>3, <2>4, <2>5
  <1> QED BY <1>5, <1>6

(* The FSM rests or answers, and the core is done with the message.        *)
LEMMA FeedingRest ==
  ASSUME EngineInv, Delivered, Typed, Feeding, NEW o \in BOOLEAN, Clock(o), fsm.at \in Sent \union {"IDLE"}
  PROVE  /\ Feeding' /\ ~InMessage' /\ Fresh /\ Fresh' /\ Current' = "IDLE"
         /\ fsm'.at \in Sent \union {"IDLE", "START_KEY_IV"} /\ (fsm'.at = "START_KEY_IV" => fsm.at = "IDLE")
         /\ fsm.at \in Sent /\ ~message_done => regs' = regs /\ fsm'.mode = fsm.mode /\ fsm'.at \in Sent
  <1>1. CoreStep(o) /\ Shaped /\ FsmStep /\ Driving /\ BufferStep /\ RegsShaped
    BY DEF EngineInv, Clock, Typed
  <1>2. drive.on \in {{}, {"verify_checked"}} /\ Current \in {"IDLE", "FINISH"}
    BY <1>1 DEF Driving, Sent, Answering
  <1>3. Fresh' /\ Current' = "IDLE" /\ Fresh
    BY <1>1, <1>2, FreshKept DEF Feeding
  <1>4. CASE fsm.at = "IDLE"
    <2>1. fsm'.at = IF StartsNow THEN "START_KEY_IV" ELSE "IDLE"
      BY <1>1, <1>4, FsmLeaves
    <2>2. StartsNow => regs' = regs /\ drive'.word = <<regs.key, regs.iv>>
      <3> SUFFICES ASSUME StartsNow PROVE regs' = regs /\ drive'.word = <<regs.key, regs.iv>>
        OBVIOUS
      <3>1. strobe.event \notin Loads
        BY Opcodes DEF StartsNow, start_requested
      <3>2. ~message_done
        BY <1>4, StrobeFinds
      <3> QED BY <1>1, <1>4, <3>1, <3>2, RegsClock, FsmClock DEF Begins
    <2> QED BY <1>3, <1>4, <2>1, <2>2 DEF Feeding, InMessage, Sent
  <1>5. CASE fsm.at \in Sent
    <2>1. fsm'.at \in Sent \union {"IDLE"} /\ (fsm'.at = "IDLE" <=> message_done)
      <3>1. fsm.at # "IDLE"
        BY <1>5 DEF Sent
      <3>2. CASE fsm.at \in {"SEND_CT", "WAIT_CT_SENT", "SEND_TAG"}
        BY <1>1, <3>1, <3>2, FsmClock, FsmLeaves DEF Sent, FsmTo, FsmAsks, Stays
      <3>3. CASE fsm.at \in {"WAIT_TAG_SENT", "SEND_VERIFY", "WAIT_VERIFY_SENT"}
        BY <1>1, <3>1, <3>3, FsmClock, FsmLeaves DEF Sent, FsmTo, FsmAsks, Stays
      <3> QED BY <1>5, <3>2, <3>3 DEF Sent
    <2>2. Feeding' /\ ~InMessage'
      BY <1>3, <2>1 DEF Feeding, InMessage, Sent
    <2>3. ~message_done => regs' = regs /\ fsm'.mode = fsm.mode
      BY <1>5, ServingStays DEF Sent
    <2> QED BY <1>3, <1>5, <2>1, <2>2, <2>3 DEF Sent
  <1> QED BY <1>4, <1>5

(* Every clock feeds the core what the buffers hold.                       *)
LEMMA FeedingClock ==
  ASSUME EngineInv, Delivered, Served, Typed, Feeding, NEW o \in BOOLEAN, Clock(o)
  PROVE  Feeding'
  <1>1. fsm.at \in Taking \union {"START_KEY_IV", "WAIT_PIPELINE", "IDLE"} \union Sent
    BY DEF EngineInv, Building, Serving, Answering, Taking, Sent
  <1> QED BY <1>1, FeedingTaking, FeedingStart, FeedingPipeline, FeedingRest

(* A word that the core gives out is a block of the result.                *)
LEMMA WordIs ==
  ASSUME Typed, core.key = regs.key, core.iv = regs.iv, NEW m \in 0..Len(regs.pt), core.data = SubSeq(regs.pt, 1, m),
         NEW out \in 0..m - 1
  PROVE  BlockOf(SubSeq(Message.output, out * BlockBytes + 1, (out + 1) * BlockBytes), out, Result.output)
  <1> DEFINE d == FlattenSeq(core.data)
             p == FlattenSeq(regs.pt)
             stream(i) == {<<regs.key, regs.iv, i>>}
             q == out * BlockBytes
             D == {XorByte(d[i], stream(i)) : i \in 1..Len(d)}
             word == SubSeq(Message.output, q + 1, q + BlockBytes)
  <1>1. BlockBytes \in Nat \ {0} /\ BlockBytes \in Nat /\ BlockBytes \in Int
    BY Units
  <1>2. regs.pt \in Blocks /\ regs.pt \in Seq(Seq(Byte)) /\ Len(regs.pt) \in Nat /\ m \in Nat /\ out \in Nat
    <2>1. regs.pt \in Blocks /\ regs.pt \in Seq(Seq(Byte)) /\ Len(regs.pt) \in Nat
      BY BufferIs DEF Typed, Buffered
    <2> QED BY <2>1
  <1>3. /\ core.data \in Seq(Seq(Byte)) /\ Len(core.data) = m /\ \A i \in 1..m : core.data[i] = regs.pt[i]
    <2> DEFINE s == regs.pt
    <2> HIDE DEF s
    <2>1. s \in Seq(Seq(Byte)) /\ m \in 0..Len(s)
      BY <1>2 DEF s
    <2>2. SubSeq(s, 1, m) \in Seq(Seq(Byte)) /\ Len(SubSeq(s, 1, m)) = m /\ \A i \in 1..m : SubSeq(s, 1, m)[i] = s[i]
      BY <2>1
    <2> QED BY <2>2 DEF s
  <1>4. core.data \in Blocks
    <2>1. DOMAIN core.data = 1..m /\ DOMAIN regs.pt = 1..Len(regs.pt)
      BY <1>2, <1>3
    <2>2. \A i \in DOMAIN regs.pt : Len(regs.pt[i]) = BlockBytes
      BY <1>2 DEF Blocks, InBlocksOf
    <2>3. ASSUME NEW i \in DOMAIN core.data PROVE Len(core.data[i]) = BlockBytes
      <3>1. i \in 1..m /\ i \in DOMAIN regs.pt
        BY <1>2, <2>1
      <3> QED BY <1>3, <2>2, <3>1
    <2> QED BY <1>3, <2>3 DEF Blocks, InBlocksOf
  <1>5. Flattened(Byte, BlockBytes, core.data, Len(core.data)) /\ Flattened(Byte, BlockBytes, regs.pt, Len(regs.pt))
    BY <1>1, <1>2, <1>4, FlattenBlocks DEF Blocks
  <1>6. /\ d \in Seq(Byte) /\ Len(d) = m * BlockBytes /\ p \in Seq(Byte) /\ Len(p) = Len(regs.pt) * BlockBytes
        /\ \A j \in 1..BlockBytes : d[q + j] = core.data[out + 1][j]
        /\ \A j \in 1..BlockBytes : p[q + j] = regs.pt[out + 1][j]
    <2>1. out \in 0..m - 1 /\ out \in 0..Len(regs.pt) - 1
      BY <1>2
    <2> QED BY <1>3, <1>5, <2>1 DEF Flattened
  <1>7. q \in Nat /\ (out + 1) * BlockBytes = q + BlockBytes /\ q + BlockBytes <= m * BlockBytes
        /\ m * BlockBytes <= Len(regs.pt) * BlockBytes /\ m * BlockBytes \in Nat /\ Len(regs.pt) * BlockBytes \in Nat
    <2>1. out + 1 \in Nat /\ out + 1 <= m /\ m <= Len(regs.pt)
      BY <1>2
    <2>2. q \in Nat /\ (out + 1) * BlockBytes = q + BlockBytes
      BY <1>1, <1>2, <2>1, Multiples
    <2>3. (out + 1) * BlockBytes <= m * BlockBytes /\ m * BlockBytes \in Nat
      BY <1>1, <1>2, <2>1, Multiples
    <2>4. m * BlockBytes <= Len(regs.pt) * BlockBytes /\ Len(regs.pt) * BlockBytes \in Nat
      BY <1>1, <1>2, <2>1, Multiples
    <2> QED BY <2>2, <2>3, <2>4
  <1>8. /\ Message.output = [i \in 1..Len(d) |-> XorByte(d[i], stream(i))]
        /\ Result.output = [i \in 1..Len(p) |-> XorByte(p[i], stream(i))]
    BY DEF Message, Result, RunMessage
  <1> HIDE DEF d, p, q, stream
  <1>9. Message.output \in Seq(D) /\ Len(Message.output) = m * BlockBytes
    <2>1. PICK n \in Nat : n = m * BlockBytes
      BY <1>7
    <2>2. Len(d) = n
      BY <1>6, <2>1
    <2>3. Message.output = [i \in 1..n |-> XorByte(d[i], stream(i))] /\ D = {XorByte(d[i], stream(i)) : i \in 1..n}
      BY <1>8, <2>2
    <2> HIDE DEF D
    <2>4. Message.output \in [1..n -> D]
      BY <2>3
    <2>5. Message.output \in Seq(D) /\ Len(Message.output) = n
      BY <2>4
    <2> QED BY <2>1, <2>5
  <1> HIDE DEF D
  <1>10. word \in Seq(D) /\ Len(word) = BlockBytes /\ \A j \in 1..BlockBytes : word[j] = Message.output[q + j]
    <2>1. q + BlockBytes <= Len(Message.output)
      BY <1>7, <1>9
    <2> QED BY <1>1, <1>7, <1>9, <2>1, PartOf
  <1>11. ASSUME NEW j \in 1..BlockBytes PROVE word[j] = Result.output[q + j]
    <2>1. q + j \in 1..Len(d) /\ q + j \in 1..Len(p)
      BY <1>1, <1>6, <1>7
    <2>2. core.data[out + 1] = regs.pt[out + 1]
      BY <1>2, <1>3
    <2>3. d[q + j] = p[q + j]
      BY <1>6, <2>2
    <2>4. Message.output[q + j] = XorByte(d[q + j], stream(q + j)) /\ Result.output[q + j] = XorByte(p[q + j], stream(q + j))
      BY <1>8, <2>1
    <2> QED BY <1>10, <2>3, <2>4
  <1> QED BY <1>7, <1>10, <1>11 DEF BlockOf, q

(* A clock of the capture registers, field by field.                       *)
CaptureFields == {"ct", "count", "tag", "captured", "pass"}
TakesTag == tag_valid \/ (fsm.mode /\ verify_done)

(* A capture register changes in the clock of its word, tag or verdict.    *)
LEMMA CaptureClock ==
  ASSUME DOMAIN capture = CaptureFields, DOMAIN capture.ct = 0..MaxDataBlocks, CaptureStep
  PROVE  /\ DOMAIN capture' = CaptureFields /\ DOMAIN capture'.ct = 0..MaxDataBlocks
         /\ ~message_done =>
                /\ capture'.ct = IF core.word # <<>> THEN [capture.ct EXCEPT ![capture.count] = core.word] ELSE capture.ct
                /\ capture'.count = IF core.word # <<>> THEN (capture.count + 1) % (MaxDataBlocks + 1)
                                    ELSE IF fsm.at = "START_KEY_IV" THEN 0 ELSE capture.count
                /\ capture'.tag = IF TakesTag THEN core.tag ELSE capture.tag
                /\ capture'.captured <=> TakesTag \/ (capture.captured /\ fsm.at # "START_KEY_IV")
                /\ capture'.pass <=> verify_pass \/ (capture.pass /\ fsm.at # "START_KEY_IV")
  <1> DEFINE ct == IF core.word # <<>> THEN [capture.ct EXCEPT ![capture.count] = core.word] ELSE capture.ct
             count == IF core.word # <<>> THEN (capture.count + 1) % (MaxDataBlocks + 1)
                      ELSE IF fsm.at = "START_KEY_IV" THEN 0 ELSE capture.count
             tag == IF TakesTag THEN core.tag ELSE capture.tag
             captured == TakesTag \/ (capture.captured /\ fsm.at # "START_KEY_IV")
             pass == verify_pass \/ (capture.pass /\ fsm.at # "START_KEY_IV")
  <1>1. DOMAIN ct = 0..MaxDataBlocks
    OBVIOUS
  <1>2. CASE message_done
    <2>1. capture' = [capture EXCEPT !.ct = NoWords, !.count = 0, !.tag = <<>>]
      BY <1>2 DEF CaptureStep
    <2>2. DOMAIN capture' = CaptureFields /\ capture'.ct = NoWords
      BY <2>1 DEF CaptureFields
    <2> QED BY <1>2, <2>2 DEF NoWords
  <1>3. CASE ~message_done
    <2>1. capture' = [ct |-> ct, count |-> count, tag |-> tag, captured |-> captured, pass |-> pass]
      BY <1>3 DEF CaptureStep, TakesTag, Pass
    <2> HIDE DEF ct, count, tag, captured, pass
    <2>2. /\ DOMAIN capture' = CaptureFields
          /\ capture'.ct = ct /\ capture'.count = count /\ capture'.tag = tag /\ capture'.captured = captured /\ capture'.pass = pass
      BY <2>1 DEF CaptureFields
    <2> QED BY <1>1, <1>3, <2>2 DEF ct, count, tag, captured, pass
  <1> QED BY <1>2, <1>3

(* A sequence and one element more.                                        *)
LEMMA LenAppend ==
  ASSUME NEW S, NEW s \in Seq(S), NEW x
  PROVE  Len(Append(s, x)) = Len(s) + 1
  <1>1. s \in Seq(S \union {x})
    OBVIOUS
  <1> QED BY <1>1

(* What the registers hold after a clock in which the core works.          *)
Holds(count, ct, tag, pass) ==
    /\ count = Len(regs.pt) /\ \A i \in 0..Len(regs.pt) - 1 : BlockOf(ct[i], i, Result.output)
    /\ tag = Result.tag /\ (fsm.mode => (pass <=> Passed))

(* While a message is served its result has a tag and one block for each.  *)
LEMMA InMessageFacts ==
  ASSUME EngineInv, Delivered, Served, Typed, Feeding, NEW o \in BOOLEAN, Clock(o), InMessage
  PROVE  /\ regs' = regs /\ fsm'.mode = fsm.mode /\ ~message_done /\ fsm.at \notin {"START_KEY_IV", "IDLE"}
         /\ Current # "FINISH" /\ "load_key" \notin drive.on
         /\ fsm'.at \in Taking \union {"WAIT_PIPELINE", "SEND_CT", "SEND_TAG"}
         /\ Current' = "FINISH" \/ fsm'.at \notin Taking => fsm.at \in {"WAIT_PIPELINE", "STREAM_PT", "HOLD_PT_LAST"}
         /\ fsm'.at \in {"SEND_CT", "SEND_TAG"} \/ Current' = "FINISH" => fsm.at = "WAIT_PIPELINE"
         /\ core.last \/ "data_in_last" \in drive.on => DataAfter = regs.pt
         /\ core.last => core.aad = regs.aad
  <1>1. CASE fsm.at \in Taking
    <2>1. /\ regs' = regs /\ fsm'.mode = fsm.mode /\ Current # "FINISH" /\ Current' # "FINISH"
          /\ fsm'.at \in Taking \union {"WAIT_PIPELINE"} /\ "load_key" \notin drive.on
      BY <1>1, FeedingTaking
    <2>2. fsm'.at = "WAIT_PIPELINE" => fsm.at \in {"STREAM_PT", "HOLD_PT_LAST"}
      <3>1. Shaped /\ FsmStep
        BY DEF EngineInv, Clock
      <3>2. CASE fsm.at \in {"WAIT_AAD_READY", "HOLD_AAD_LAST", "STREAM_AAD"}
        BY <3>1, <3>2, FsmClock DEF FsmTo, Firsts, Streams
      <3>3. CASE fsm.at \in {"WAIT_DATA_READY"}
        BY <3>1, <3>3, FsmClock DEF FsmTo, Firsts
      <3> QED BY <1>1, <3>2, <3>3 DEF Taking
    <2>3. ~core.last
      BY <1>1 DEF EngineInv, Finishing, Taking
    <2>4. "data_in_last" \in drive.on => fsm.at = "HOLD_PT_LAST"
      BY <1>1 DEF EngineInv, Driving, Taking
    <2>5. "data_in_last" \in drive.on => DataAfter = regs.pt
      <3>1. regs.pt \in Seq(Seq(Byte))
        BY BufferIs DEF Typed, Buffered
      <3>2. "data_in_last" \in drive.on => DataDue = Len(regs.pt)
        BY <2>4 DEF DataDue
      <3> QED BY <3>1, <3>2, Part DEF Feeding
    <2> QED BY <1>1, <2>1, <2>2, <2>3, <2>5 DEF Taking, message_done
  <1>2. CASE fsm.at = "WAIT_PIPELINE"
    <2>1. /\ regs' = regs /\ fsm'.mode = fsm.mode
          /\ fsm'.at \in {"WAIT_PIPELINE", "SEND_CT", "SEND_TAG"} /\ "load_key" \notin drive.on
          /\ core.aad = regs.aad /\ DataAfter = regs.pt /\ Current # "FINISH"
      BY <1>2, FeedingPipeline
    <2> QED BY <1>2, <2>1 DEF Taking, message_done
  <1> QED BY <1>1, <1>2 DEF InMessage, Taking

(* What the core gave out in the clock before is captured.                 *)
LEMMA GivenCaptures ==
  ASSUME EngineInv, Delivered, Served, Typed, Feeding, Given, NEW o \in BOOLEAN, Clock(o), InMessage
  PROVE  /\ capture'.count = core.out
         /\ \A i \in 0..core.out - 1 : BlockOf(capture'.ct[i], i, Result.output)
         /\ capture'.pass => Passed
         /\ capture'.captured => Holds(capture'.count, capture'.ct, capture'.tag, capture'.pass)
         /\ capture.captured => capture'.captured
         /\ core.tag # <<>> => core.tag_ref \in {<<>>, regs.tag_ref}
  <1> DEFINE pt == regs.pt
             out == core.out
             count == capture.count
             ct == capture.ct
             Block(word, i) == BlockOf(word, i, Result.output)
  <1>1. CaptureStep /\ DOMAIN capture = CaptureFields /\ DOMAIN capture.ct = 0..MaxDataBlocks
    BY DEF Clock, Given, CaptureFields
  <1>2. ~message_done /\ fsm.at # "START_KEY_IV" /\ (core.last => DataAfter = regs.pt)
    BY InMessageFacts
  <1>3. /\ capture'.ct = IF core.word # <<>> THEN [ct EXCEPT ![count] = core.word] ELSE ct
        /\ capture'.count = IF core.word # <<>> THEN (count + 1) % (MaxDataBlocks + 1) ELSE count
        /\ capture'.tag = IF TakesTag THEN core.tag ELSE capture.tag
        /\ capture'.captured <=> TakesTag \/ capture.captured
        /\ capture'.pass <=> verify_pass \/ capture.pass
    BY <1>1, <1>2, CaptureClock
  <1>4. /\ MaxDataBlocks \in Nat /\ Len(pt) \in Nat /\ Len(pt) <= MaxDataBlocks
        /\ Len(core.data) \in 0..Len(pt) /\ out \in 0..Len(core.data) /\ out \in Nat /\ out <= MaxDataBlocks
    <2>1. MaxDataBlocks \in Nat /\ Len(pt) \in Nat /\ Len(pt) <= MaxDataBlocks
      BY Units, BufferIs DEF Typed, Buffered
    <2>2. Len(core.data) \in 0..Len(pt) /\ out \in 0..Len(core.data)
      BY DEF Feeding, Given
    <2> HIDE DEF pt, out
    <2> QED BY <2>1, <2>2
  <1>5. /\ count = out - (IF core.word = <<>> THEN 0 ELSE 1) /\ count >= 0
        /\ core.word # <<>> => Block(core.word, count)
        /\ \A i \in 0..count - 1 : Block(ct[i], i)
        /\ capture.pass => Passed
    BY DEF Given
  <1> HIDE DEF out, count, pt, Block
  <1>6. capture'.count = out
    <2>1. CASE core.word = <<>>
      BY <1>3, <1>4, <1>5, <2>1
    <2>2. CASE core.word # <<>>
      <3>1. count + 1 = out
        BY <1>4, <1>5, <2>2
      <3>2. out % (MaxDataBlocks + 1) = out
        BY <1>4
      <3> QED BY <1>3, <2>2, <3>1, <3>2
    <2> QED BY <2>1, <2>2
  <1>7. ASSUME NEW i \in 0..out - 1 PROVE Block(capture'.ct[i], i)
    <2>1. CASE core.word = <<>>
      BY <1>3, <1>4, <1>5, <2>1
    <2>2. CASE core.word # <<>>
      <3>1. count + 1 = out /\ count \in Nat /\ count \in 0..MaxDataBlocks /\ i \in 0..MaxDataBlocks
        BY <1>4, <1>5, <2>2
      <3>2. capture'.ct = [ct EXCEPT ![count] = core.word] /\ DOMAIN ct = 0..MaxDataBlocks
        BY <1>1, <1>3, <2>2
      <3>3. CASE i = count
        <4>1. capture'.ct[i] = core.word
          BY <3>1, <3>2, <3>3
        <4> QED BY <1>5, <2>2, <3>3, <4>1
      <3>4. CASE i # count
        <4>1. capture'.ct[i] = ct[i] /\ i \in 0..count - 1
          BY <1>4, <3>1, <3>2, <3>4
        <4> QED BY <1>5, <4>1
      <3> QED BY <3>3, <3>4
    <2> QED BY <2>1, <2>2
  <1>8. core.tag_ref \in {<<>>, regs.tag_ref}
    BY DEF Feeding
  <1>9. core.tag # <<>> =>
          /\ core.last /\ core.tag = Result.tag /\ out = Len(core.data) /\ core.word = <<>> /\ core.data = pt
    BY DEF Given, out, pt
  <1>10. verify_pass => Passed
    <2> SUFFICES ASSUME verify_pass PROVE Passed
      OBVIOUS
    <2>1. fsm.mode /\ core.tag # <<>> /\ core.tag = core.tag_ref
      BY DEF verify_pass
    <2>2. core.tag = Result.tag /\ core.tag = regs.tag_ref
      BY <1>8, <1>9, <2>1
    <2> QED BY <2>1, <2>2 DEF Passed
  <1>11. capture'.pass => Passed
    BY <1>3, <1>5, <1>10
  <1>12. TakesTag => core.tag # <<>>
    BY DEF TakesTag, tag_valid, verify_done, Given
  <1>13. CASE TakesTag
    <2>1. capture'.count = Len(pt) /\ capture'.tag = Result.tag
      BY <1>3, <1>6, <1>9, <1>12, <1>13
    <2>2. \A i \in 0..Len(pt) - 1 : Block(capture'.ct[i], i)
      BY <1>6, <1>7, <2>1
    <2>3. fsm.mode /\ Passed => capture'.pass
      <3> SUFFICES ASSUME fsm.mode, Passed PROVE verify_pass
        BY <1>3
      <3>1. core.tag # <<>> /\ core.tag = Result.tag /\ Result.tag = regs.tag_ref
        BY <1>9, <1>12, <1>13 DEF Passed
      <3>2. Current = "VERIFY_PASS"
        BY <1>13 DEF TakesTag, tag_valid, verify_done
      <3>3. core.tag_ref # <<>>
        BY <3>2 DEF Feeding
      <3> QED BY <1>8, <3>1, <3>3 DEF verify_pass
    <2>4. Holds(capture'.count, capture'.ct, capture'.tag, capture'.pass)
      BY <1>11, <2>1, <2>2, <2>3 DEF Holds, pt, Block
    <2> QED BY <1>3, <1>6, <1>7, <1>8, <1>11, <1>13, <2>4 DEF out, Block
  <1>14. CASE ~TakesTag /\ capture.captured
    <2>1. fsm.at = "WAIT_PIPELINE" /\ Current = "VERIFY_PASS"
      <3>1. fsm.at \notin Loading
        BY <1>14 DEF EngineInv, Finishing
      <3>2. fsm.at = "WAIT_PIPELINE" /\ Current \notin {"IDLE", "FINISH"}
        BY <3>1 DEF InMessage, Loading
      <3>3. Current \notin {"LOAD_DATA", "WAIT_PROCESS_FINISH"}
        BY <1>14, <3>2 DEF EngineInv, Finishing
      <3> QED BY <3>2, <3>3 DEF EngineInv, Driving
    <2>2. core.tag # <<>>
      BY <2>1 DEF Given
    <2>3. capture'.count = Len(pt) /\ capture'.tag = capture.tag
      BY <1>3, <1>6, <1>9, <1>14, <2>2
    <2>4. capture.tag = Result.tag /\ (fsm.mode => (capture.pass <=> Passed))
      BY <1>14, <2>1 DEF Given, Complete
    <2>5. \A i \in 0..Len(pt) - 1 : Block(capture'.ct[i], i)
      BY <1>6, <1>7, <2>3
    <2>6. fsm.mode => (capture'.pass <=> Passed)
      BY <1>3, <1>11, <2>4
    <2>7. Holds(capture'.count, capture'.ct, capture'.tag, capture'.pass)
      BY <2>3, <2>4, <2>5, <2>6 DEF Holds, pt, Block
    <2> QED BY <1>3, <1>6, <1>7, <1>8, <1>11, <1>14, <2>7 DEF out, Block
  <1>15. CASE ~TakesTag /\ ~capture.captured
    BY <1>3, <1>6, <1>7, <1>8, <1>11, <1>15 DEF out, Block
  <1> QED BY <1>13, <1>14, <1>15

(* The message that is served keeps its result.                            *)
LEMMA ResultSame ==
  ASSUME regs' = regs, fsm'.mode = fsm.mode
  PROVE  Result' = Result /\ (Passed' <=> Passed)
  BY DEF Result, Passed

(* A message is complete once its tag, or its verdict, was captured.       *)
LEMMA CompleteAfter ==
  ASSUME EngineInv, Delivered, Served, Typed, Feeding, Given, NEW o \in BOOLEAN, Clock(o), InMessage
  PROVE  /\ DOMAIN capture' = CaptureFields /\ DOMAIN capture'.ct = 0..MaxDataBlocks
         /\ Complete' => /\ capture'.count = Len(regs'.pt)
                         /\ \A i \in 0..Len(regs'.pt) - 1 : BlockOf(capture'.ct[i], i, Result'.output)
                         /\ capture'.tag = Result'.tag /\ (fsm'.mode => (capture'.pass <=> Passed'))
  <1>1. /\ regs' = regs /\ fsm'.mode = fsm.mode
        /\ fsm'.at \in Taking \union {"WAIT_PIPELINE", "SEND_CT", "SEND_TAG"}
        /\ fsm'.at \in {"SEND_CT", "SEND_TAG"} => fsm.at = "WAIT_PIPELINE"
    BY InMessageFacts
  <1>2. DOMAIN capture' = CaptureFields /\ DOMAIN capture'.ct = 0..MaxDataBlocks
    <2>1. CaptureStep /\ DOMAIN capture = CaptureFields /\ DOMAIN capture.ct = 0..MaxDataBlocks
      BY DEF Clock, Given, CaptureFields
    <2> QED BY <2>1, CaptureClock
  <1>3. Complete' => capture'.captured
    <2>1. CASE fsm'.at \in {"SEND_CT", "SEND_TAG"}
      <3>1. Shaped /\ FsmStep
        BY DEF EngineInv, Clock
      <3>2. PipelineDone
        BY <1>1, <2>1, <3>1, FsmClock DEF FsmTo
      <3> QED BY <3>2, GivenCaptures DEF PipelineDone
    <2>2. CASE fsm'.at \in Taking \union {"WAIT_PIPELINE"}
      BY <2>2 DEF Complete, Taking
    <2> QED BY <1>1, <2>1, <2>2
  <1>4. Complete' => Holds(capture'.count, capture'.ct, capture'.tag, capture'.pass)
    BY <1>3, GivenCaptures
  <1>5. Result' = Result /\ (Passed' <=> Passed)
    BY <1>1, ResultSame
  <1> QED BY <1>1, <1>2, <1>4, <1>5 DEF Holds

(* The core gives out the next block, or the tag behind the last one.      *)
LEMMA GivenWorks ==
  ASSUME EngineInv, Delivered, Served, Typed, Feeding, Given, NEW o \in BOOLEAN, Clock(o), InMessage, Current' # "FINISH"
  PROVE  Given'
  <1> DEFINE gives == o /\ core.out < Len(core.data)
  <1>1. /\ regs' = regs /\ fsm'.mode = fsm.mode /\ Current # "FINISH" /\ "load_key" \notin drive.on
        /\ core.last \/ "data_in_last" \in drive.on => DataAfter = regs.pt
        /\ core.last => core.aad = regs.aad
    BY InMessageFacts
  <1>2. CoreStep(o)
    BY DEF Clock
  <1>3. /\ core'.data = DataAfter /\ (core'.last <=> core.last \/ "data_in_last" \in drive.on)
        /\ core'.out = IF gives THEN core.out + 1 ELSE core.out
        /\ core'.word = IF gives
                        THEN SubSeq(Message.output, core.out * BlockBytes + 1, (core.out + 1) * BlockBytes) ELSE <<>>
        /\ core'.tag = IF o /\ core.last /\ core.out = Len(core.data) THEN Message.tag ELSE core.tag
    BY <1>1, <1>2, CoreFields
  <1>4. /\ core.key = regs.key /\ core.iv = regs.iv
        /\ Len(core.data) \in 0..Len(regs.pt) /\ core.data = SubSeq(regs.pt, 1, Len(core.data))
        /\ core.out \in 0..Len(core.data) /\ Len(regs.pt) \in Nat /\ Len(core.data) \in Nat /\ core.out \in Nat
    <2>1. Len(regs.pt) \in Nat
      BY BufferIs DEF Typed, Buffered
    <2> QED BY <2>1 DEF Feeding, Given
  <1>5. Len(DataAfter) >= Len(core.data) /\ Len(DataAfter) \in Nat
    <2>1. core.data \in Seq(Seq(Byte))
      <3>1. regs.pt \in Seq(Seq(Byte))
        BY BufferIs DEF Typed, Buffered
      <3> QED BY <1>4, <3>1, Part
    <2>2. Len(Append(core.data, drive.word)) = Len(core.data) + 1
      BY <2>1, LenAppend
    <2> QED BY <1>4, <2>2 DEF DataAfter
  <1>6. core'.out \in 0..Len(core'.data)
    BY <1>3, <1>4, <1>5
  <1>7. gives => BlockOf(core'.word, core.out, Result.output) /\ core'.word # <<>>
    <2> SUFFICES ASSUME gives PROVE BlockOf(core'.word, core.out, Result.output) /\ core'.word # <<>>
      OBVIOUS
    <2>1. core.out \in 0..Len(core.data) - 1
      BY <1>4
    <2>2. BlockOf(core'.word, core.out, Result.output)
      BY <1>3, <1>4, <2>1, WordIs
    <2>3. Len(core'.word) = BlockBytes /\ BlockBytes \in Nat \ {0}
      BY <2>2, Units DEF BlockOf
    <2>4. core'.word # <<>>
      BY <2>3
    <2> QED BY <2>2, <2>4
  <1>8. ~gives => core'.word = <<>>
    BY <1>3
  <1>9. capture'.count = core.out /\ (capture'.pass => Passed)
        /\ \A i \in 0..core.out - 1 : BlockOf(capture'.ct[i], i, Result.output)
    BY GivenCaptures
  <1> HIDE DEF gives
  <1>10. capture'.count = core'.out - (IF core'.word = <<>> THEN 0 ELSE 1)
    BY <1>3, <1>4, <1>7, <1>8, <1>9
  <1>11. core'.last => core'.data = regs.pt
    BY <1>1, <1>3
  <1>12. core.last => core.data = regs.pt /\ Message.tag = Result.tag
    <2> SUFFICES ASSUME core.last PROVE core.data = regs.pt /\ Message.tag = Result.tag
      OBVIOUS
    <2>1. core.data = regs.pt /\ core.aad = regs.aad
      BY <1>1 DEF Given
    <2> QED BY <1>4, <2>1 DEF Message, Result
  <1>13. core.tag # <<>> => core.last /\ core.tag = Result.tag /\ core.out = Len(core.data)
    BY DEF Given
  <1>14. core'.tag # <<>> => core'.last /\ core'.tag = Result.tag /\ core'.out = Len(core'.data) /\ core'.word = <<>>
    <2> SUFFICES ASSUME core'.tag # <<>>
                 PROVE core'.last /\ core'.tag = Result.tag /\ core'.out = Len(core'.data) /\ core'.word = <<>>
      OBVIOUS
    <2>1. core.last /\ core.out = Len(core.data) /\ core'.tag = Result.tag
      BY <1>3, <1>12, <1>13
    <2>2. core'.data = core.data
      BY <1>1, <1>3, <1>12, <2>1
    <2>3. ~gives
      BY <1>4, <2>1 DEF gives
    <2> QED BY <1>3, <1>8, <2>1, <2>2, <2>3
  <1>15. Current' = "VERIFY_PASS" => core'.tag # <<>>
    <2> SUFFICES ASSUME Current' = "VERIFY_PASS" PROVE core'.tag # <<>>
      OBVIOUS
    <2>1. core.tag # <<>>
      <3>1. fsm.at = "WAIT_PIPELINE" /\ Current \notin {"IDLE", "FINISH"}
        <4>1. fsm.at \in Taking => /\ Current \in Opened \union {"WAIT_AAD", "LOAD_AAD", "WAIT_DATA", "LOAD_DATA"}
                                   /\ Current \in Opened => core.IV_loaded
          BY DEF EngineInv, Driving, Taking, Opened
        <4>2. fsm.at \notin Taking
          BY <1>2, <4>1, CoreMoves DEF Opened
        <4> QED BY <4>2 DEF InMessage, Taking
      <3>2. Current \in {"LOAD_DATA", "WAIT_PROCESS_FINISH", "VERIFY_PASS"}
            /\ (Current = "LOAD_DATA" => "data_in_last" \in drive.on)
        BY <3>1 DEF EngineInv, Driving
      <3> QED BY <1>2, <3>2, CoreMoves DEF Given
    <2> QED BY <1>3, <1>12, <1>13, <2>1
  <1>16. Result' = Result /\ (Passed' <=> Passed)
    BY <1>1, ResultSame
  <1>17. capture'.count >= 0 /\ (core'.word # <<>> => BlockOf(core'.word, capture'.count, Result'.output))
         /\ (\A i \in 0..capture'.count - 1 : BlockOf(capture'.ct[i], i, Result'.output)) /\ (capture'.pass => Passed')
    BY <1>4, <1>7, <1>8, <1>9, <1>16
  <1> QED BY <1>1, <1>6, <1>10, <1>11, <1>14, <1>15, <1>16, <1>17, CompleteAfter DEF Given, CaptureFields

(* The core ends the message, the capture registers keep it.               *)
LEMMA GivenEnds ==
  ASSUME EngineInv, Delivered, Served, Typed, Feeding, Given, NEW o \in BOOLEAN, Clock(o), InMessage, Current' = "FINISH"
  PROVE  Given'
  <1>1. CoreStep(o) /\ fsm.at = "WAIT_PIPELINE"
    BY InMessageFacts DEF Clock
  <1>2. ~InMessage'
    BY <1>1, FeedingPipeline
  <1>3. ~core'.last /\ core'.tag = <<>>
    BY <1>1, CoreEnds
  <1> QED BY <1>2, <1>3, CompleteAfter DEF Given, CaptureFields

(* A core at rest gives nothing.                                           *)
LEMMA GivenRests ==
  ASSUME EngineInv, EngineInv', Given, NEW o \in BOOLEAN, Clock(o), Fresh, Current \in {"IDLE", "FINISH"}, Current' = "IDLE",
         ~InMessage', Complete' => Complete /\ regs' = regs /\ fsm'.mode = fsm.mode /\ ~message_done /\ fsm.at # "START_KEY_IV"
  PROVE  Given'
  <1>1. CaptureStep /\ DOMAIN capture = CaptureFields /\ DOMAIN capture.ct = 0..MaxDataBlocks
    BY DEF Clock, Given, CaptureFields
  <1>2. ~core'.last /\ core'.tag = <<>>
    BY DEF EngineInv, Finishing
  <1>3. core.tag = <<>> /\ core.word = <<>> /\ ~TakesTag /\ ~verify_pass
    BY DEF EngineInv, Finishing, Fresh, TakesTag, tag_valid, verify_done, verify_pass
  <1>4. DOMAIN capture' = CaptureFields /\ DOMAIN capture'.ct = 0..MaxDataBlocks
    BY <1>1, CaptureClock
  <1>5. Complete' => /\ capture'.count = Len(regs'.pt)
                     /\ \A i \in 0..Len(regs'.pt) - 1 : BlockOf(capture'.ct[i], i, Result'.output)
                     /\ capture'.tag = Result'.tag /\ (fsm'.mode => (capture'.pass <=> Passed'))
    <2> SUFFICES ASSUME Complete'
                 PROVE  /\ capture'.count = Len(regs'.pt)
                        /\ \A i \in 0..Len(regs'.pt) - 1 : BlockOf(capture'.ct[i], i, Result'.output)
                        /\ capture'.tag = Result'.tag /\ (fsm'.mode => (capture'.pass <=> Passed'))
      OBVIOUS
    <2>1. /\ capture'.ct = capture.ct /\ capture'.count = capture.count /\ capture'.tag = capture.tag
          /\ capture'.pass <=> capture.pass
      BY <1>1, <1>3, CaptureClock
    <2>2. Result' = Result /\ (Passed' <=> Passed)
      BY ResultSame
    <2>3. /\ capture.count = Len(regs.pt) /\ \A i \in 0..Len(regs.pt) - 1 : BlockOf(capture.ct[i], i, Result.output)
          /\ capture.tag = Result.tag /\ (fsm.mode => (capture.pass <=> Passed))
      BY DEF Given
    <2> QED BY <2>1, <2>2, <2>3
  <1> QED BY <1>2, <1>4, <1>5 DEF Given, CaptureFields

(* A start clears the capture registers.                                   *)
LEMMA GivenStart ==
  ASSUME EngineInv, Delivered, Typed, Feeding, Given, NEW o \in BOOLEAN, Clock(o), fsm.at = "START_KEY_IV"
  PROVE  Given'
  <1>1. /\ InMessage' /\ fsm'.at = "WAIT_AAD_READY"
        /\ core'.data = <<>> /\ core'.out = 0 /\ core'.word = <<>> /\ ~core'.last /\ core'.tag = <<>>
        /\ Current' = "KEY_EXPANSION"
    BY FeedingStart
  <1>2. CaptureStep /\ DOMAIN capture = CaptureFields /\ DOMAIN capture.ct = 0..MaxDataBlocks
    BY DEF Clock, Given, CaptureFields
  <1>3. core.tag = <<>> /\ core.word = <<>>
    BY DEF EngineInv, Finishing, Driving, Feeding, Fresh
  <1>4. /\ DOMAIN capture' = CaptureFields /\ DOMAIN capture'.ct = 0..MaxDataBlocks
        /\ capture'.count = 0 /\ ~capture'.pass
    BY <1>2, <1>3, CaptureClock DEF message_done, verify_pass
  <1>5. ~Complete'
    BY <1>1 DEF Complete
  <1> QED BY <1>1, <1>4, <1>5 DEF Given, CaptureFields

(* Every clock captures what the core gave.                                *)
LEMMA GivenClock ==
  ASSUME EngineInv, EngineInv', Delivered, Served, Typed, Feeding, Given, NEW o \in BOOLEAN, Clock(o)
  PROVE  Given'
  <1>1. fsm.at \in Taking \union {"START_KEY_IV", "WAIT_PIPELINE", "IDLE"} \union Sent
    BY DEF EngineInv, Building, Serving, Answering, Taking, Sent
  <1>2. CASE InMessage
    BY <1>2, GivenWorks, GivenEnds
  <1>3. CASE fsm.at = "START_KEY_IV"
    BY <1>3, GivenStart
  <1>4. CASE fsm.at = "WAIT_PIPELINE" /\ ~InMessage
    <2>1. /\ regs' = regs /\ fsm'.mode = fsm.mode /\ fsm'.at \in {"WAIT_PIPELINE", "SEND_CT", "SEND_TAG"}
          /\ Current \in {"IDLE", "FINISH"} /\ Fresh /\ Current' = "IDLE"
      BY <1>4, FeedingPipeline
    <2>2. ~InMessage'
      BY <2>1 DEF InMessage
    <2>3. CaptureStep /\ DOMAIN capture = CaptureFields /\ DOMAIN capture.ct = 0..MaxDataBlocks
      BY DEF Clock, Given, CaptureFields
    <2>4. ~message_done /\ ~TakesTag
      BY <1>4, <2>1 DEF message_done, TakesTag, tag_valid, verify_done, EngineInv, Finishing
    <2>5. Complete' => capture.captured
      <3>1. CASE fsm'.at \in {"SEND_CT", "SEND_TAG"}
        <4>1. Shaped /\ FsmStep
          BY DEF EngineInv, Clock
        <4> QED BY <1>4, <3>1, <4>1, FsmClock DEF FsmTo, PipelineDone
      <3>2. CASE fsm'.at = "WAIT_PIPELINE"
        <4>1. capture'.captured <=> capture.captured
          BY <1>4, <2>3, <2>4, CaptureClock
        <4> QED BY <3>2, <4>1 DEF Complete
      <3> QED BY <2>1, <3>1, <3>2
    <2>6. Complete' => Complete
      BY <1>4, <2>5 DEF Complete
    <2> QED BY <1>4, <2>1, <2>2, <2>4, <2>6, GivenRests
  <1>5. CASE fsm.at \in Sent \union {"IDLE"}
    <2>1. /\ ~InMessage' /\ Fresh /\ Current' = "IDLE"
          /\ fsm'.at \in Sent \union {"IDLE", "START_KEY_IV"} /\ (fsm'.at = "START_KEY_IV" => fsm.at = "IDLE")
          /\ fsm.at \in Sent /\ ~message_done => regs' = regs /\ fsm'.mode = fsm.mode /\ fsm'.at \in Sent
      BY <1>5, FeedingRest
    <2>2. Current \in {"IDLE", "FINISH"}
      BY <1>5 DEF EngineInv, Driving, Sent, Answering
    <2>3. Shaped /\ FsmStep
      BY DEF EngineInv, Clock
    <2>4. Complete' => fsm'.at \in Sent
      BY <2>1 DEF Complete, Sent
    <2>5. fsm'.at \in Sent => fsm.at \in Sent /\ ~message_done
      <3>1. fsm.at = "IDLE" => fsm'.at \notin Sent
        BY <2>3, FsmLeaves DEF Sent
      <3>2. fsm.at # "IDLE" /\ message_done => fsm'.at = "IDLE"
        BY <2>3, FsmLeaves
      <3> QED BY <1>5, <3>1, <3>2 DEF Sent
    <2>6. fsm.at \in Sent => Complete /\ fsm.at # "START_KEY_IV"
      BY DEF Sent, Complete
    <2> QED BY <2>1, <2>2, <2>4, <2>5, <2>6, GivenRests
  <1> QED BY <1>1, <1>2, <1>3, <1>4, <1>5 DEF InMessage, Taking

-----------------------------------------------------------------------------
(* THE ANSWERS                                                             *)
(* The builder, and the bytes of each kind of answer.                      *)
(* The answers that are due, after a clock.                                *)
LEMMA DueClock ==
  ASSUME EngineInv, Delivered, NEW o \in BOOLEAN, Clock(o)
  PROVE  /\ ~strobe.done => due' = IF packet_ends /\ due # <<>> THEN Tail(due) ELSE due
         /\ answer' = IF packet_ends THEN wire ELSE <<>>
         /\ strobe.done => ~packet_ends
         /\ strobe.event \in Refusals => due' = Append(due, <<strobe.event, strobe.value>>)
         /\ key_len_bad => due' = Append(due, <<"ERR_LEN", "LOAD_KEY">>)
         /\ strobe.event \in Loads \union Starts /\ strobe.done /\ ~key_len_bad => due' = due \o Answer(model, strobe.event)
  <1>1. HistoryStep
    BY DEF Clock
  <1>2. strobe.done => ~packet_ends
    BY StrobeFinds
  <1>3. answer' = IF packet_ends THEN wire ELSE <<>>
    BY <1>1 DEF HistoryStep
  <1>4. ~strobe.done => due' = IF packet_ends /\ due # <<>> THEN Tail(due) ELSE due
    BY <1>1 DEF HistoryStep
  <1>5. strobe.event \notin {"none"} \union BlockLoads => strobe.done
    BY StrobeFinds
  <1>6. ASSUME strobe.event \in Refusals PROVE due' = Append(due, <<strobe.event, strobe.value>>)
    <2>1. strobe.done /\ ~packet_ends /\ ~key_len_bad /\ ~Known(strobe.event)
      BY <1>2, <1>5, <1>6, Opcodes DEF Refusals, key_len_bad, Known
    <2> QED BY <1>1, <1>6, <2>1 DEF HistoryStep, Refusals
  <1>7. ASSUME key_len_bad PROVE due' = Append(due, <<"ERR_LEN", "LOAD_KEY">>)
    <2>1. strobe.event = "LOAD_KEY"
      BY <1>7 DEF key_len_bad
    <2>2. strobe.done /\ ~packet_ends
      BY <1>2, <1>5, <2>1, Opcodes
    <2> QED BY <1>1, <1>7, <2>1, <2>2 DEF HistoryStep
  <1>8. ASSUME strobe.event \in Loads \union Starts, strobe.done, ~key_len_bad
        PROVE  due' = due \o Answer(model, strobe.event)
    <2>1. ~packet_ends /\ strobe.event \notin {"ERR_UNKNOWN", "ERR_LEN", "ERR_TIMEOUT"}
      BY <1>2, <1>8, Opcodes
    <2> QED BY <1>1, <1>8, <2>1 DEF HistoryStep
  <1> QED BY <1>2, <1>3, <1>4, <1>6, <1>7, <1>8

(* What the buffers ask for.                                               *)
LEMMA AskIs ==
  ASSUME EngineInv, Delivered, NEW o \in BOOLEAN, Clock(o)
  PROVE  /\ strobe.event \in Refusals => ask' = <<strobe.event, strobe.value>>
         /\ start_refused => ask' = <<"ERR_LEN", strobe.event>>
         /\ key_len_bad => ask' = <<"ERR_LEN", "LOAD_KEY">>
         /\ strobe.event \in Loads /\ strobe.done /\ ~key_len_bad => ask' = <<CMD_ACKS[strobe.event], <<>>>>
         /\ ~strobe.done => ask' = <<>>
         /\ StartsNow => ask' = <<>>
  <1>1. BufferStep /\ Strobing
    BY DEF EngineInv, Clock
  <1>2. ~strobe.done => ask' = <<>>
    BY <1>1, AskClock
  <1>3. StartsNow => ask' = <<>>
    BY <1>1, AskClock DEF StartsNow
  <1>4. strobe.event \in Refusals => ask' = <<strobe.event, strobe.value>>
    <2>1. strobe.event \in Refusals => ~start_refused /\ ~key_len_bad /\ strobe.event \notin Loads
      BY Opcodes DEF start_refused, start_requested, key_len_bad, Refusals
    <2> QED BY <1>1, <2>1 DEF BufferStep, Refusals
  <1>5. start_refused => ask' = <<"ERR_LEN", strobe.event>>
    <2>1. start_refused => ~key_len_bad /\ strobe.event \notin Loads \union {"ERR_UNKNOWN", "ERR_LEN", "ERR_TIMEOUT"}
      BY Opcodes DEF start_refused, start_requested, key_len_bad
    <2> QED BY <1>1, <2>1 DEF BufferStep
  <1>6. key_len_bad => ask' = <<"ERR_LEN", "LOAD_KEY">>
    <2>1. key_len_bad => strobe.event = "LOAD_KEY" /\ ~start_refused
      BY Opcodes DEF start_refused, start_requested, key_len_bad
    <2> QED BY <1>1, <2>1 DEF BufferStep
  <1>7. strobe.event \in Loads /\ strobe.done /\ ~key_len_bad => ask' = <<CMD_ACKS[strobe.event], <<>>>>
    <2>1. strobe.event \in Loads => ~start_refused /\ strobe.event \notin {"ERR_UNKNOWN", "ERR_LEN", "ERR_TIMEOUT"}
      BY Opcodes DEF start_refused, start_requested
    <2> QED BY <1>1, <2>1 DEF BufferStep
  <1> QED BY <1>2, <1>3, <1>4, <1>5, <1>6, <1>7

(* A clock of the builder, field by field.                                 *)
Started(response, length, value) ==
    /\ builder'.at = "SEND_BYTE" /\ builder'.cmd = response /\ builder'.len = length /\ builder'.value = value
    /\ builder'.idx = 0 /\ builder'.busy /\ ~builder'.sent /\ ~builder'.tx_start
Goes(state, idx) ==
    /\ builder'.at = state /\ builder'.cmd = builder.cmd /\ builder'.len = builder.len /\ builder'.value = builder.value
    /\ builder'.idx = idx /\ builder'.busy = builder.busy /\ builder'.sent = builder.sent

(* In each clock the builder makes one of these moves, or rests.           *)
LEMMA BuilderClock ==
  ASSUME BuilderShaped, BuilderStep
  PROVE  /\ builder.at = "idle" =>
                \/ ask # <<>> /\ ask[1] \in Acks /\ Started(ask[1], 0, <<>>)
                \/ send = "CIPHERTEXT" /\ Started("CIPHERTEXT", Len(regs.pt) * BlockBytes, <<>>)
                \/ send = "AUTH_TAG" /\ Started("AUTH_TAG", TagBytes, capture.tag)
                \/ send = "VERIFY_RESULT" /\ Started("VERIFY_RESULT", 1, capture.pass)
                \/ ask # <<>> /\ ask[1] \notin Acks /\ send = "none" /\ Started(ask[1], 1, ask[2])
                \/ ask = <<>> /\ send = "none" /\ builder' = IdleBuilder
         /\ builder.at = "SEND_BYTE" =>
                IF tx_busy THEN Goes("SEND_BYTE", builder.idx) /\ ~builder'.tx_start
                ELSE Goes("WAIT_BUSY", builder.idx) /\ builder'.tx_start /\ builder'.tx_data = current_tx_byte
         /\ builder.at = "WAIT_BUSY" => Goes(IF tx_busy THEN "WAIT_FREE" ELSE "WAIT_BUSY", builder.idx) /\ ~builder'.tx_start
         /\ builder.at = "WAIT_FREE" =>
                IF tx_busy THEN Goes("WAIT_FREE", builder.idx) /\ builder'.tx_start = builder.tx_start
                ELSE IF packet_ends THEN builder' = [IdleBuilder EXCEPT !.sent = TRUE]
                ELSE Goes("SEND_BYTE", builder.idx + 1) /\ builder'.tx_start = builder.tx_start
  <1>1. PICK a, c, l, v, i, b, s, t, d : builder = BuilderAt(a, c, l, v, i, b, s, t, d)
    BY DEF BuilderShaped
  <1>2. /\ builder.at = a /\ builder.cmd = c /\ builder.len = l /\ builder.value = v /\ builder.idx = i
        /\ builder.busy = b /\ builder.sent = s /\ builder.tx_start = t
    BY <1>1 DEF BuilderAt
  <1>3. ASSUME NEW a1, NEW i1, NEW t1, NEW d1, builder' = BuilderAt(a1, c, l, v, i1, b, s, t1, d1)
        PROVE  Goes(a1, i1) /\ builder'.tx_start = t1 /\ builder'.tx_data = d1
    BY <1>2, <1>3 DEF BuilderAt, Goes
  <1>4. ASSUME NEW response, NEW length, NEW value, Asked(response, length, value)
        PROVE  Started(response, length, value)
    <2>1. builder' = BuilderAt("SEND_BYTE", response, length, value, 0, TRUE, FALSE, FALSE, <<>>)
      BY <1>4 DEF Asked, IdleBuilder, BuilderAt
    <2> QED BY <2>1 DEF BuilderAt, Started
  <1>5. CASE builder.at = "idle"
    <2>1. Idling
      BY <1>5 DEF BuilderStep, SendByte, WaitBusy, WaitFree
    <2> DEFINE length == Len(regs.pt) * BlockBytes
    <2>2. \/ ask # <<>> /\ ask[1] \in Acks /\ Asked(ask[1], 0, <<>>)
          \/ send = "CIPHERTEXT" /\ Asked("CIPHERTEXT", length, <<>>)
          \/ send = "AUTH_TAG" /\ Asked("AUTH_TAG", TagBytes, capture.tag)
          \/ send = "VERIFY_RESULT" /\ Asked("VERIFY_RESULT", 1, capture.pass)
          \/ ask # <<>> /\ ask[1] \notin Acks /\ send = "none" /\ Asked(ask[1], 1, ask[2])
          \/ ask = <<>> /\ send = "none" /\ builder' = IdleBuilder
      BY <2>1 DEF Idling
    <2> HIDE DEF length
    <2>3. \/ ask # <<>> /\ ask[1] \in Acks /\ Started(ask[1], 0, <<>>)
          \/ send = "CIPHERTEXT" /\ Started("CIPHERTEXT", length, <<>>)
          \/ send = "AUTH_TAG" /\ Started("AUTH_TAG", TagBytes, capture.tag)
          \/ send = "VERIFY_RESULT" /\ Started("VERIFY_RESULT", 1, capture.pass)
          \/ ask # <<>> /\ ask[1] \notin Acks /\ send = "none" /\ Started(ask[1], 1, ask[2])
          \/ ask = <<>> /\ send = "none" /\ builder' = IdleBuilder
      BY <1>4, <2>2
    <2> QED BY <1>5, <2>3 DEF length
  <1>6. CASE builder.at = "SEND_BYTE"
    <2>1. SendByte
      BY <1>6 DEF BuilderStep, Idling, WaitBusy, WaitFree
    <2>2. CASE tx_busy
      <3>1. builder' = BuilderAt("SEND_BYTE", c, l, v, i, b, s, FALSE, <<>>)
        BY <1>1, <1>2, <1>6, <2>1, <2>2 DEF SendByte, Quiet, BuilderAt
      <3>2. Goes("SEND_BYTE", i) /\ builder'.tx_start = FALSE
        BY <1>3, <3>1
      <3> QED BY <1>2, <1>6, <2>2, <3>2
    <2>3. CASE ~tx_busy
      <3> DEFINE byte == current_tx_byte
      <3>1. builder' = [builder EXCEPT !.at = "WAIT_BUSY", !.tx_start = TRUE, !.tx_data = byte]
        BY <2>1, <2>3 DEF SendByte
      <3> HIDE DEF byte
      <3>2. builder' = BuilderAt("WAIT_BUSY", c, l, v, i, b, s, TRUE, byte)
        BY <1>1, <3>1 DEF BuilderAt
      <3>3. Goes("WAIT_BUSY", i) /\ builder'.tx_start = TRUE /\ builder'.tx_data = byte
        BY <1>3, <3>2
      <3> QED BY <1>2, <1>6, <2>3, <3>3 DEF byte
    <2> QED BY <2>2, <2>3
  <1>7. CASE builder.at = "WAIT_BUSY"
    <2>1. WaitBusy
      BY <1>7 DEF BuilderStep, Idling, SendByte, WaitFree
    <2>2. CASE tx_busy
      <3>1. builder' = BuilderAt("WAIT_FREE", c, l, v, i, b, s, FALSE, <<>>)
        BY <1>1, <1>2, <2>1, <2>2 DEF WaitBusy, Quiet, BuilderAt
      <3>2. Goes("WAIT_FREE", i) /\ builder'.tx_start = FALSE
        BY <1>3, <3>1
      <3> QED BY <1>2, <1>7, <2>2, <3>2
    <2>3. CASE ~tx_busy
      <3>1. builder' = BuilderAt("WAIT_BUSY", c, l, v, i, b, s, FALSE, <<>>)
        BY <1>1, <1>2, <1>7, <2>1, <2>3 DEF WaitBusy, Quiet, BuilderAt
      <3>2. Goes("WAIT_BUSY", i) /\ builder'.tx_start = FALSE
        BY <1>3, <3>1
      <3> QED BY <1>2, <1>7, <2>3, <3>2
    <2> QED BY <2>2, <2>3
  <1>8. CASE builder.at = "WAIT_FREE"
    <2>1. WaitFree
      BY <1>8 DEF BuilderStep, Idling, SendByte, WaitBusy
    <2>2. CASE tx_busy
      <3>1. builder' = builder
        BY <2>1, <2>2 DEF WaitFree
      <3> QED BY <1>8, <2>2, <3>1 DEF Goes
    <2>3. CASE ~tx_busy /\ packet_ends
      BY <1>8, <2>1, <2>3 DEF WaitFree
    <2>4. CASE ~tx_busy /\ ~packet_ends
      <3>1. builder' = BuilderAt("SEND_BYTE", c, l, v, i + 1, b, s, t, d)
        BY <1>1, <2>1, <2>4 DEF WaitFree, BuilderAt
      <3>2. Goes("SEND_BYTE", i + 1) /\ builder'.tx_start = t
        BY <1>3, <3>1
      <3> QED BY <1>2, <1>8, <2>4, <3>2
    <2> QED BY <2>2, <2>3, <2>4
  <1> QED BY <1>5, <1>6, <1>7, <1>8

-----------------------------------------------------------------------------
(* The bytes of the answer that leaves.                                    *)
LEMMA OutputIs ==
  ASSUME Typed
  PROVE  /\ \E D : Result.output \in Seq(D)
         /\ Len(Result.output) = Len(regs.pt) * BlockBytes /\ Len(regs.pt) * BlockBytes \in Nat
  <1> DEFINE p == FlattenSeq(regs.pt)
             stream(i) == {<<regs.key, regs.iv, i>>}
             D == {XorByte(p[i], stream(i)) : i \in 1..Len(p)}
  <1>1. regs.pt \in Blocks /\ Len(regs.pt) \in Nat /\ Len(p) = Len(regs.pt) * BlockBytes /\ p \in Seq(Byte)
    BY BufferIs DEF Typed, Buffered
  <1>2. PICK n \in Nat : n = Len(p)
    BY <1>1
  <1>3. Result.output = [i \in 1..Len(p) |-> XorByte(p[i], stream(i))]
    BY DEF Result, RunMessage
  <1> HIDE DEF p, stream
  <1>4. Result.output = [i \in 1..n |-> XorByte(p[i], stream(i))] /\ D = {XorByte(p[i], stream(i)) : i \in 1..n}
    BY <1>2, <1>3
  <1> HIDE DEF D
  <1>5. Result.output \in [1..n -> D]
    BY <1>4 DEF D
  <1>6. Result.output \in Seq(D) /\ Len(Result.output) = n
    BY <1>5
  <1> QED BY <1>1, <1>2, <1>6 DEF p

(* A tag is four bytes.                                                    *)
LEMMA TagIs ==
  /\ Result.tag = <<Result.tag[1], Result.tag[2], Result.tag[3], Result.tag[4]>> /\ IsTag(Result.tag)
  <1>1. PICK a, b, c, d : Result.tag = <<a, b, c, d>>
    BY DEF Result, RunMessage
  <1> QED BY <1>1 DEF IsTag

(* The bytes of each kind of answer.                                       *)
LEMMA OneByteIs ==
  ASSUME NEW cmd \in OneByte, NEW value
  PROVE  Bytes(<<cmd, value>>) = <<cmd, 1, value>>
  BY DEF Bytes

(* An acknowledgement has no payload,                                      *)
LEMMA AckIs ==
  ASSUME NEW cmd \in Acks
  PROVE  Bytes(<<cmd, <<>>>>) = <<cmd, 0>>
  <1>1. cmd \notin OneByte
    BY DEF Acks, Loads, CMD_ACKS, OneByte
  <1>2. <<cmd, 0>> \o <<>> = <<cmd, 0>>
    OBVIOUS
  <1> QED BY <1>1, <1>2 DEF Bytes

(* a tag has four bytes,                                                   *)
LEMMA TagBytesAre ==
  ASSUME NEW value, IsTag(value)
  PROVE  Bytes(<<"AUTH_TAG", value>>) = <<"AUTH_TAG", 4, value[1], value[2], value[3], value[4]>>
  <1>1. Len(value) = 4
    BY DEF IsTag
  <1>2. <<"AUTH_TAG", 4>> \o <<value[1], value[2], value[3], value[4]>>
        = <<"AUTH_TAG", 4, value[1], value[2], value[3], value[4]>>
    BY TwoAndFour
  <1>3. Bytes(<<"AUTH_TAG", value>>) = <<"AUTH_TAG", 4>> \o value
    BY <1>1 DEF Bytes, OneByte
  <1> QED BY <1>2, <1>3 DEF IsTag

(* and ciphertext the bytes of the output.                                 *)
LEMMA CiphertextIs ==
  ASSUME NEW D, NEW output \in Seq(D)
  PROVE  LET bytes == Bytes(<<"CIPHERTEXT", output>>)
         IN  /\ bytes \in Seq(D \union {"CIPHERTEXT"} \union Nat) /\ Len(bytes) = Len(output) + 2
             /\ bytes[1] = "CIPHERTEXT" /\ bytes[2] = Len(output)
             /\ \A k \in 1..Len(output) : bytes[k + 2] = output[k]
  <1> DEFINE S == D \union {"CIPHERTEXT"} \union Nat
  <1>1. output \in Seq(S) /\ "CIPHERTEXT" \in S /\ Len(output) \in S
    OBVIOUS
  <1>2. Bytes(<<"CIPHERTEXT", output>>) = <<"CIPHERTEXT", Len(output)>> \o output
    BY DEF Bytes, OneByte
  <1> DEFINE h == <<"CIPHERTEXT", Len(output)>>
  <1>3. h \in Seq(S) /\ Len(h) = 2 /\ h[1] = "CIPHERTEXT" /\ h[2] = Len(output)
    BY <1>1
  <1> HIDE DEF S, h
  <1>4. /\ h \o output \in Seq(S) /\ Len(h \o output) = Len(output) + 2
        /\ (h \o output)[1] = "CIPHERTEXT" /\ (h \o output)[2] = Len(output)
        /\ \A k \in 1..Len(output) : (h \o output)[k + 2] = output[k]
    BY <1>1, <1>3, TwoAhead
  <1> QED BY <1>2, <1>4 DEF S, h

(* The answer of the builder is the first of those that are due, and the   *)
(* byte that it is at is one of its bytes.                                 *)
BuildsAnswer(bytes) ==
    /\ \E S : bytes \in Seq(S)
    /\ Len(bytes) = builder.len + 2 /\ builder.len \in Nat
    /\ current_tx_byte = bytes[builder.idx + 1]

(* An answer that is being built has not been sent.                        *)
LEMMA NotSent ==
  ASSUME Leaving, builder.busy
  PROVE  ~builder.sent
  <1> SUFFICES ASSUME builder.sent PROVE FALSE
    OBVIOUS
  <1>1. builder = [IdleBuilder EXCEPT !.sent = TRUE]
    BY DEF Leaving
  <1>2. builder.busy = FALSE
    BY <1>1 DEF IdleBuilder
  <1> QED BY <1>2

(* The answers of a message, one by one.                                   *)
LEMMA Parts ==
  /\ ~fsm.mode \/ Passed => /\ CtPart \o TagPart \o VerdictPart # <<>>
                            /\ Head(CtPart \o TagPart \o VerdictPart) = <<"CIPHERTEXT", Result.output>>
                            /\ Tail(CtPart \o TagPart \o VerdictPart) = TagPart \o VerdictPart
  /\ fsm.mode /\ ~Passed => CtPart \o TagPart \o VerdictPart = TagPart \o VerdictPart
  /\ TagPart \o VerdictPart # <<>> /\ Head(TagPart \o VerdictPart) = <<"AUTH_TAG", Result.tag>>
  /\ Tail(TagPart \o VerdictPart) = VerdictPart
  /\ fsm.mode => VerdictPart # <<>> /\ Head(VerdictPart) = <<"VERIFY_RESULT", Passed>> /\ Tail(VerdictPart) = <<>>
  /\ ~fsm.mode => VerdictPart = <<>>
  <1> DEFINE c == <<"CIPHERTEXT", Result.output>>
             t == <<"AUTH_TAG", Result.tag>>
             v == <<"VERIFY_RESULT", Passed>>
  <1>1. CtPart = (IF fsm.mode /\ ~Passed THEN <<>> ELSE <<c>>) /\ TagPart = <<t>> /\ VerdictPart = IF fsm.mode THEN <<v>> ELSE <<>>
    BY DEF CtPart, TagPart, VerdictPart
  <1> HIDE DEF c, t, v
  <1>2. /\ <<c>> \o <<t>> = <<c, t>> /\ <<c, t>> \o <<v>> = <<c, t, v>> /\ <<t>> \o <<v>> = <<t, v>>
        /\ <<c, t>> \o <<>> = <<c, t>> /\ <<>> \o <<t>> = <<t>> /\ <<t>> \o <<>> = <<t>>
    <2>1. <<c>> \o <<t>> = <<c, t>> /\ <<t>> \o <<v>> = <<t, v>> /\ <<c, t>> \o <<v>> = <<c, t, v>>
      BY OneAndOne, TwoAndOne
    <2>2. <<c, t>> \o <<>> = <<c, t>>
      OBVIOUS
    <2>3. <<>> \o <<t>> = <<t>>
      OBVIOUS
    <2>4. <<t>> \o <<>> = <<t>>
      OBVIOUS
    <2> QED BY <2>1, <2>2, <2>3, <2>4
  <1>3. /\ Head(<<c, t, v>>) = c /\ Tail(<<c, t, v>>) = <<t, v>> /\ Head(<<c, t>>) = c /\ Tail(<<c, t>>) = <<t>>
        /\ Head(<<t, v>>) = t /\ Tail(<<t, v>>) = <<v>> /\ Head(<<t>>) = t /\ Tail(<<t>>) = <<>>
        /\ Head(<<v>>) = v /\ Tail(<<v>>) = <<>>
    OBVIOUS
  <1>4. <<c, t, v>> # <<>> /\ <<c, t>> # <<>> /\ <<t, v>> # <<>> /\ <<t>> # <<>> /\ <<v>> # <<>>
    OBVIOUS
  <1>5. CASE fsm.mode /\ Passed
    BY <1>1, <1>2, <1>3, <1>4, <1>5 DEF c, t, v
  <1>6. CASE fsm.mode /\ ~Passed
    BY <1>1, <1>2, <1>3, <1>4, <1>6 DEF c, t, v
  <1>7. CASE ~fsm.mode
    BY <1>1, <1>2, <1>3, <1>4, <1>7 DEF c, t, v
  <1> QED BY <1>5, <1>6, <1>7

(* The byte that the builder is at is that byte of the answer due first.   *)
LEMMA AnswerIs ==
  ASSUME Typed, Given, Owing, Leaving, builder.busy
  PROVE  due # <<>> /\ BuildsAnswer(Bytes(Head(due))) /\ builder.idx \in 0..builder.len + 1
  <1> DEFINE bytes == Bytes(Head(due))
             idx == builder.idx
  <1>1. /\ due # <<>> /\ idx \in 0..builder.len + 1
        /\ \/ builder.cmd = "CIPHERTEXT" /\ fsm.at = "WAIT_CT_SENT" /\ builder.len = Len(regs.pt) * BlockBytes
           \/ /\ builder.cmd # "CIPHERTEXT" /\ Head(due) = <<builder.cmd, builder.value>>
              /\ \/ builder.cmd \in OneByte /\ builder.len = 1
                 \/ builder.cmd = "AUTH_TAG" /\ builder.len = TagBytes /\ IsTag(builder.value)
                 \/ builder.cmd \in Acks /\ builder.len = 0 /\ builder.value = <<>>
    BY DEF Leaving
  <1>2. CASE builder.cmd = "CIPHERTEXT" /\ fsm.at = "WAIT_CT_SENT" /\ builder.len = Len(regs.pt) * BlockBytes
    <2> DEFINE output == Result.output
    <2>1. Head(due) = <<"CIPHERTEXT", output>>
      <3>1. (fsm.mode => Passed) /\ due = CtPart \o TagPart \o VerdictPart
        BY <1>2, NotSent DEF Owing
      <3> QED BY <3>1, Parts
    <2>2. PICK D : output \in Seq(D)
      BY OutputIs
    <2>3. Len(output) = Len(regs.pt) * BlockBytes /\ Len(regs.pt) * BlockBytes \in Nat
      BY OutputIs
    <2>4. capture.count = Len(regs.pt) /\ \A i \in 0..Len(regs.pt) - 1 : BlockOf(capture.ct[i], i, output)
      BY <1>2 DEF Given, Complete
    <2> HIDE DEF output
    <2>5. /\ bytes \in Seq(D \union {"CIPHERTEXT"} \union Nat) /\ Len(bytes) = Len(output) + 2
          /\ bytes[1] = "CIPHERTEXT" /\ bytes[2] = Len(output)
          /\ \A k \in 1..Len(output) : bytes[k + 2] = output[k]
      <3>1. LET b == Bytes(<<"CIPHERTEXT", output>>)
            IN  /\ b \in Seq(D \union {"CIPHERTEXT"} \union Nat) /\ Len(b) = Len(output) + 2
                /\ b[1] = "CIPHERTEXT" /\ b[2] = Len(output)
                /\ \A k \in 1..Len(output) : b[k + 2] = output[k]
        BY <2>2, CiphertextIs, Zenon
      <3>2. bytes = Bytes(<<"CIPHERTEXT", output>>)
        BY <2>1
      <3> QED BY <3>1, <3>2
    <2>6. PICK n \in Nat : n = Len(regs.pt) * BlockBytes
      BY <2>3
    <2>7. builder.len = n /\ Len(output) = n /\ idx \in 0..n + 1
      BY <1>1, <1>2, <2>3, <2>6
    <2> HIDE DEF bytes
    <2>8. CASE idx \in {0, 1}
      <3>1. current_tx_byte = IF idx = 0 THEN builder.cmd ELSE builder.len
        BY <2>8 DEF current_tx_byte
      <3> QED BY <1>1, <1>2, <2>5, <2>7, <2>8, <3>1 DEF BuildsAnswer, bytes
    <2>9. CASE idx \notin {0, 1}
      <3>1. PICK m \in Nat : m = idx - 2
        BY <2>7, <2>9
      <3>2. m < n /\ idx + 1 = (m + 1) + 2 /\ m + 1 \in 1..Len(output)
        BY <2>7, <3>1
      <3>3. BlockBytes \in Nat \ {0} /\ Len(regs.pt) \in Nat
        BY Units, BufferIs DEF Typed, Buffered
      <3> DEFINE q == m \div BlockBytes
                 r == m % BlockBytes
      <3>4. q \in 0..Len(regs.pt) - 1
        BY <2>6, <3>2, <3>3, QuotientBelow
      <3>5. r \in 0..BlockBytes - 1 /\ m = q * BlockBytes + r /\ q * BlockBytes \in Nat
        BY <3>3, Division
      <3>6. current_tx_byte = capture.ct[q][r + 1]
        <4>1. current_tx_byte = capture.ct[(idx - 2) \div BlockBytes][((idx - 2) % BlockBytes) + 1]
          BY <1>2, <2>9 DEF current_tx_byte
        <4> QED BY <3>1, <4>1
      <3> HIDE DEF q, r
      <3>7. r + 1 \in 1..BlockBytes /\ q * BlockBytes + (r + 1) = m + 1
        BY <3>3, <3>5
      <3>8. capture.ct[q][r + 1] = output[m + 1]
        BY <2>4, <3>4, <3>7 DEF BlockOf
      <3>9. bytes[idx + 1] = output[m + 1]
        BY <2>5, <3>2
      <3> QED BY <1>1, <2>5, <2>7, <3>6, <3>8, <3>9 DEF BuildsAnswer, bytes
    <2> QED BY <2>8, <2>9
  <1>3. CASE Head(due) = <<builder.cmd, builder.value>> /\ builder.cmd \in OneByte /\ builder.len = 1
    <2>1. bytes = <<builder.cmd, 1, builder.value>>
      BY <1>3, OneByteIs
    <2>2. idx \in {0, 1, 2}
      BY <1>1, <1>3
    <2>3. current_tx_byte = IF idx = 0 THEN builder.cmd ELSE IF idx = 1 THEN 1 ELSE builder.value
      <3>1. builder.cmd \notin {"CIPHERTEXT", "AUTH_TAG"}
        BY <1>3 DEF OneByte
      <3> QED BY <1>3, <2>2, <3>1 DEF current_tx_byte
    <2> DEFINE t == <<builder.cmd, 1, builder.value>>
    <2>6. t \in Seq({builder.cmd, 1, builder.value}) /\ Len(t) = 3 /\ t[1] = builder.cmd /\ t[2] = 1 /\ t[3] = builder.value
      BY OfThree
    <2>7. bytes = t
      BY <2>1
    <2> HIDE DEF bytes, t
    <2>4. bytes \in Seq({builder.cmd, 1, builder.value}) /\ Len(bytes) = 3
          /\ bytes[1] = builder.cmd /\ bytes[2] = 1 /\ bytes[3] = builder.value
      BY <2>6, <2>7
    <2>5. current_tx_byte = bytes[idx + 1]
      <3>1. CASE idx = 0
        BY <2>3, <2>4, <3>1
      <3>2. CASE idx = 1
        BY <2>3, <2>4, <3>2
      <3>3. CASE idx = 2
        BY <2>3, <2>4, <3>3
      <3> QED BY <2>2, <3>1, <3>2, <3>3
    <2> QED BY <1>1, <1>3, <2>4, <2>5 DEF BuildsAnswer, bytes
  <1>4. CASE /\ builder.cmd # "CIPHERTEXT" /\ Head(due) = <<builder.cmd, builder.value>>
             /\ builder.cmd = "AUTH_TAG" /\ builder.len = TagBytes /\ IsTag(builder.value)
    <2> DEFINE v == builder.value
    <2>1. bytes = <<"AUTH_TAG", 4, v[1], v[2], v[3], v[4]>> /\ builder.len = 4
      BY <1>4, Units, TagBytesAre
    <2> DEFINE t == <<"AUTH_TAG", 4, v[1], v[2], v[3], v[4]>>
               S == {"AUTH_TAG", 4, v[1], v[2], v[3], v[4]}
    <2>6. /\ t \in Seq(S) /\ Len(t) = 6 /\ t[1] = "AUTH_TAG" /\ t[2] = 4
          /\ t[3] = v[1] /\ t[4] = v[2] /\ t[5] = v[3] /\ t[6] = v[4]
      BY OfSix
    <2>7. bytes = t
      BY <2>1
    <2> HIDE DEF bytes, t, S
    <2>2. /\ bytes \in Seq(S) /\ Len(bytes) = 6 /\ bytes[1] = "AUTH_TAG" /\ bytes[2] = 4
          /\ bytes[3] = v[1] /\ bytes[4] = v[2] /\ bytes[5] = v[3] /\ bytes[6] = v[4]
      BY <2>6, <2>7
    <2>3. idx \in {0, 1, 2, 3, 4, 5}
      BY <1>1, <2>1
    <2>4. current_tx_byte = IF idx = 0 THEN "AUTH_TAG" ELSE IF idx = 1 THEN 4 ELSE v[idx - 2 + 1]
      BY <1>4, <2>1, <2>3 DEF current_tx_byte
    <2> HIDE DEF bytes, v
    <2>5. current_tx_byte = bytes[idx + 1]
      <3>1. CASE idx = 0
        BY <2>2, <2>4, <3>1
      <3>2. CASE idx = 1
        BY <2>2, <2>4, <3>2
      <3>3. CASE idx = 2
        BY <2>2, <2>4, <3>3
      <3>4. CASE idx = 3
        BY <2>2, <2>4, <3>4
      <3>5. CASE idx = 4
        BY <2>2, <2>4, <3>5
      <3>6. CASE idx = 5
        BY <2>2, <2>4, <3>6
      <3> QED BY <2>3, <3>1, <3>2, <3>3, <3>4, <3>5, <3>6
    <2> QED BY <1>1, <2>1, <2>2, <2>5 DEF BuildsAnswer, bytes
  <1>5. CASE Head(due) = <<builder.cmd, builder.value>> /\ builder.cmd \in Acks /\ builder.len = 0 /\ builder.value = <<>>
    <2>1. bytes = <<builder.cmd, 0>>
      BY <1>5, AckIs
    <2>2. idx \in {0, 1}
      BY <1>1, <1>5
    <2>3. current_tx_byte = IF idx = 0 THEN builder.cmd ELSE 0
      BY <1>5, <2>2 DEF current_tx_byte
    <2> DEFINE t == <<builder.cmd, 0>>
    <2>6. t \in Seq({builder.cmd, 0}) /\ Len(t) = 2 /\ t[1] = builder.cmd /\ t[2] = 0
      BY OfTwo
    <2>7. bytes = t
      BY <2>1
    <2> HIDE DEF bytes, t
    <2>4. bytes \in Seq({builder.cmd, 0}) /\ Len(bytes) = 2 /\ bytes[1] = builder.cmd /\ bytes[2] = 0
      BY <2>6, <2>7
    <2>5. current_tx_byte = bytes[idx + 1]
      <3>1. CASE idx = 0
        BY <2>3, <2>4, <3>1
      <3>2. CASE idx = 1
        BY <2>3, <2>4, <3>2
      <3> QED BY <2>2, <3>1, <3>2
    <2> QED BY <1>1, <1>5, <2>4, <2>5 DEF BuildsAnswer, bytes
  <1> QED BY <1>1, <1>2, <1>3, <1>4, <1>5

-----------------------------------------------------------------------------
(* WHAT IS OWED                                                            *)
(* The answers that CommandSpec has due are those that the engine has still*)
(* to send (Owing).                                                        *)
(* The answers of a message, of the engine and of CommandSpec.             *)
PartsOf(mode, result, passed) ==
    (IF mode /\ ~passed THEN <<>> ELSE <<<<"CIPHERTEXT", result.output>>>>) \o <<<<"AUTH_TAG", result.tag>>>>
    \o (IF mode THEN <<<<"VERIFY_RESULT", passed>>>> ELSE <<>>)

(* Its ciphertext, its tag and its verdict, as far as it has them.         *)
LEMMA PartsAre ==
  ASSUME NEW mode, NEW result, NEW passed
  PROVE  <<>> \o PartsOf(mode, result, passed) = PartsOf(mode, result, passed)
  <1> DEFINE c == <<"CIPHERTEXT", result.output>>
             t == <<"AUTH_TAG", result.tag>>
             v == <<"VERIFY_RESULT", passed>>
  <1>1. PartsOf(mode, result, passed)
        = (IF mode /\ ~passed THEN <<>> ELSE <<c>>) \o <<t>> \o (IF mode THEN <<v>> ELSE <<>>)
    BY DEF PartsOf
  <1> HIDE DEF c, t, v
  <1>2. <<c>> \o <<t>> = <<c, t>> /\ <<t>> \o <<v>> = <<t, v>> /\ <<c, t>> \o <<v>> = <<c, t, v>>
    BY OneAndOne, TwoAndOne
  <1>3. <<c, t>> \o <<>> = <<c, t>>
    OBVIOUS
  <1>4. <<>> \o <<t>> = <<t>>
    OBVIOUS
  <1>5. <<>> \o <<c, t, v>> = <<c, t, v>>
    OBVIOUS
  <1>6. <<>> \o <<t, v>> = <<t, v>>
    OBVIOUS
  <1>7. <<>> \o <<c, t>> = <<c, t>>
    OBVIOUS
  <1>8. CASE mode /\ ~passed
    BY <1>1, <1>2, <1>4, <1>6, <1>8
  <1>9. CASE mode /\ passed
    BY <1>1, <1>2, <1>5, <1>9
  <1>10. CASE ~mode
    BY <1>1, <1>2, <1>3, <1>7, <1>10
  <1> QED BY <1>8, <1>9, <1>10

(* What CommandSpec answers to a start are these parts.                    *)
LEMMA AnswerParts ==
  ASSUME NEW e, NEW cmd \in Starts, ~NotReady(e, cmd), NEW mode, mode <=> cmd = "START_DECRYPT",
         NEW result, result = RunMessage(e.key, e.iv, e.aad, e.data, mode),
         NEW passed, passed = (mode /\ result.tag = e.tag_ref)
  PROVE  Answer(e, cmd) = PartsOf(mode, result, passed)
  <1>1. cmd \notin Loads
    BY Opcodes
  <1> DEFINE decrypt == cmd = "START_DECRYPT"
             run == RunMessage(e.key, e.iv, e.aad, e.data, decrypt)
             verdict == decrypt /\ run.tag = e.tag_ref
  <1>2. Answer(e, cmd)
        = (IF verdict \/ ~decrypt THEN <<<<"CIPHERTEXT", run.output>>>> ELSE <<>>) \o <<<<"AUTH_TAG", run.tag>>>>
          \o (IF decrypt THEN <<<<"VERIFY_RESULT", verdict>>>> ELSE <<>>)
    BY <1>1 DEF Answer
  <1>3. run = result
    BY DEF RunMessage
  <1>4. verdict = passed
    BY <1>3
  <1> HIDE DEF run, verdict
  <1>5. <<<<"VERIFY_RESULT", verdict>>>> = <<<<"VERIFY_RESULT", passed>>>>
    BY <1>4
  <1> QED BY <1>2, <1>3, <1>4, <1>5 DEF PartsOf

(* The parts of the message that is served are those that it has.          *)
LEMMA PartsNow == CtPart \o TagPart \o VerdictPart = PartsOf(fsm.mode, Result, Passed)
  BY DEF CtPart, TagPart, VerdictPart, PartsOf

(* The same after a clock.                                                 *)
LEMMA PartsNext == CtPart' \o TagPart' \o VerdictPart' = PartsOf(fsm'.mode, Result', Passed')
  BY DEF CtPart, TagPart, VerdictPart, PartsOf

(* A message begins: it owes what CommandSpec answers to the start.        *)
LEMMA OwingStart ==
  ASSUME EngineInv, Arriving, Delivered, InStep, Typed, Owing, Leaving, NEW o \in BOOLEAN, Clock(o),
         fsm.at = "IDLE", StartsNow
  PROVE  Owing'
  <1>1. strobe.event \in Starts /\ ~start_refused
    BY DEF StartsNow, start_requested
  <1>2. /\ strobe.done /\ builder = IdleBuilder /\ ask = <<>> /\ ~key_len_bad /\ ~message_done
        /\ strobe.event \notin Loads
    BY <1>1, StrobeFinds, Opcodes DEF key_len_bad
  <1>3. due = <<>>
    BY <1>2 DEF Owing, IdleBuilder
  <1>4. due' = <<>> \o Answer(model, strobe.event)
    BY <1>1, <1>2, <1>3, DueClock
  <1>5. /\ ~NotReady(model, strobe.event) /\ FlattenSeq(regs.aad) = model.aad /\ FlattenSeq(regs.pt) = model.data
        /\ model.tag_ref = regs.tag_ref /\ model.key = regs.key /\ model.iv = regs.iv
    BY <1>1, InStepStart
  <1>6. regs' = regs
    BY <1>2, RegsClock DEF Clock, Typed
  <1>7. fsm'.at = "START_KEY_IV" /\ (fsm'.mode <=> strobe.event = "START_DECRYPT")
    BY FsmClock DEF EngineInv, Clock, Begins
  <1>8. Result' = RunMessage(model.key, model.iv, model.aad, model.data, fsm'.mode)
    BY <1>5, <1>6 DEF Result
  <1>9. Passed' = (fsm'.mode /\ Result'.tag = model.tag_ref)
    BY <1>5, <1>6 DEF Passed
  <1>10. Answer(model, strobe.event) = PartsOf(fsm'.mode, Result', Passed')
    BY <1>1, <1>5, <1>7, <1>8, <1>9, AnswerParts
  <1>11. due' = CtPart' \o TagPart' \o VerdictPart'
    BY <1>4, <1>10, PartsAre, PartsNext
  <1> QED BY <1>7, <1>11 DEF Owing

(* The builder starts when it is asked, and ends with its packet.          *)
LEMMA BuilderAfter ==
  ASSUME EngineInv, NEW o \in BOOLEAN, Clock(o)
  PROVE  /\ builder'.sent <=> packet_ends
         /\ builder.at = "idle" => (builder'.busy <=> ask # <<>> \/ send # "none")
         /\ builder.at # "idle" => (builder'.busy <=> ~packet_ends) /\ builder.busy
  <1>1. BuilderShaped /\ BuilderStep /\ Building
    BY DEF EngineInv, Shaped, Clock
  <1>2. CASE builder.at = "idle"
    <2>1. ~packet_ends
      BY <1>2 DEF packet_ends
    <2>2. CASE ask = <<>> /\ send = "none"
      BY <1>1, <1>2, <2>1, <2>2, BuilderRests DEF IdleBuilder
    <2>3. CASE ask # <<>> \/ send # "none"
      BY <1>1, <1>2, <2>1, <2>3, BuilderClock DEF Started
    <2> QED BY <1>2, <2>2, <2>3
  <1>3. CASE builder.at # "idle"
    <2>1. builder.busy /\ ~builder.sent /\ builder.at \in {"SEND_BYTE", "WAIT_BUSY", "WAIT_FREE"}
      BY <1>1, <1>3 DEF Building
    <2>2. CASE packet_ends
      <3>1. builder' = [IdleBuilder EXCEPT !.sent = TRUE]
        BY <1>1, <2>2, BuilderClock DEF packet_ends
      <3> QED BY <1>3, <2>1, <2>2, <3>1 DEF IdleBuilder
    <2>3. CASE ~packet_ends
      <3>1. builder'.busy = builder.busy /\ builder'.sent = builder.sent
        BY <1>1, <2>1, <2>3, BuilderClock DEF Goes
      <3> QED BY <1>3, <2>1, <2>3, <3>1
    <2> QED BY <2>2, <2>3
  <1> QED BY <1>2, <1>3

(* A sequence of one element.                                              *)
LEMMA OneMore == ASSUME NEW a PROVE <<>> \o <<a>> = <<a>> /\ Append(<<>>, a) = <<a>> /\ Tail(<<a>>) = <<>> /\ Head(<<a>>) = a /\ <<a>> # <<>>
  OBVIOUS

(* No message is served: each packet owes one answer.                      *)
LEMMA OwingIdle ==
  ASSUME EngineInv, Arriving, Delivered, InStep, Typed, Owing, Leaving, NEW o \in BOOLEAN, Clock(o),
         fsm.at = "IDLE", ~StartsNow
  PROVE  Owing'
  <1>1. fsm'.at = "IDLE"
    BY FsmClock DEF EngineInv, Clock, FsmTo
  <1>2. SUFFICES IF ask' # <<>> THEN due' = <<ask'>> ELSE IF builder'.busy THEN due' = <<Head(due')>> ELSE due' = <<>>
    BY <1>1 DEF Owing
  <1>3. IF ask # <<>> THEN due = <<ask>> ELSE IF builder.busy THEN due = <<Head(due)>> ELSE due = <<>>
    BY DEF Owing
  <1>4. Building /\ Asking /\ send = "none" /\ BuilderStep
    BY DEF EngineInv, Building, Answering, Clock
  <1>5. CASE ~strobe.done
    <2>1. ask' = <<>> /\ due' = IF packet_ends /\ due # <<>> THEN Tail(due) ELSE due
      BY <1>5, AskIs, DueClock
    <2>2. CASE ask # <<>>
      <3>1. builder.at = "idle" /\ ~packet_ends
        BY <1>4, <2>2 DEF Asking, IdleBuilder, packet_ends
      <3>2. builder'.busy /\ due' = <<ask>>
        BY <1>3, <2>1, <2>2, <3>1, BuilderAfter
      <3>3. Head(due') = ask
        BY <3>2, OneMore
      <3> QED BY <2>1, <3>2, <3>3
    <2>3. CASE ask = <<>> /\ ~builder.busy
      <3>1. builder.at = "idle" /\ ~packet_ends
        BY <1>4, <2>3 DEF Building, packet_ends
      <3>2. ~builder'.busy /\ due' = <<>>
        BY <1>3, <1>4, <2>1, <2>3, <3>1, BuilderAfter
      <3> QED BY <2>1, <3>2
    <2>4. CASE ask = <<>> /\ builder.busy
      <3>1. builder.at # "idle" /\ due = <<Head(due)>>
        BY <1>3, <2>4 DEF Leaving
      <3>2. CASE packet_ends
        <4>1. due' = <<>>
          BY <2>1, <3>1, <3>2, OneMore
        <4> QED BY <2>1, <3>1, <3>2, <4>1, BuilderAfter
      <3>3. CASE ~packet_ends
        BY <2>1, <3>1, <3>3, BuilderAfter
      <3> QED BY <3>2, <3>3
    <2> QED BY <2>2, <2>3, <2>4
  <1>6. CASE strobe.done
    <2>1. builder = IdleBuilder /\ ask = <<>> /\ due = <<>>
      BY <1>3, <1>6, StrobeFinds DEF IdleBuilder
    <2>2. \E a : a # <<>> /\ ask' = a /\ due' = <<a>>
      <3>1. strobe.event \in Loads \union Starts \union Refusals
        BY <1>6, StrobeFinds
      <3>2. CASE strobe.event \in Refusals
        <4>1. ask' = <<strobe.event, strobe.value>> /\ due' = <<<<strobe.event, strobe.value>>>>
          BY <2>1, <3>2, AskIs, DueClock, OneMore
        <4> QED BY <4>1
      <3>3. CASE key_len_bad
        <4>1. ask' = <<"ERR_LEN", "LOAD_KEY">> /\ due' = <<<<"ERR_LEN", "LOAD_KEY">>>>
          BY <2>1, <3>3, AskIs, DueClock, OneMore
        <4> QED BY <4>1
      <3>4. CASE strobe.event \in Loads /\ ~key_len_bad
        <4>1. Answer(model, strobe.event) = <<<<CMD_ACKS[strobe.event], <<>>>>>>
          BY <3>4 DEF Answer
        <4>2. ask' = <<CMD_ACKS[strobe.event], <<>>>> /\ due' = <<>> \o <<<<CMD_ACKS[strobe.event], <<>>>>>>
          BY <1>6, <2>1, <3>4, <4>1, AskIs, DueClock
        <4> DEFINE a == <<CMD_ACKS[strobe.event], <<>>>>
        <4>3. a # <<>> /\ ask' = a /\ due' = <<>> \o <<a>>
          BY <4>2
        <4> HIDE DEF a
        <4>4. due' = <<a>>
          BY <4>3, OneMore
        <4> QED BY <4>3, <4>4
      <3>5. CASE strobe.event \in Starts
        <4>1. start_refused /\ ~key_len_bad /\ strobe.event \notin Loads
          BY <3>5, Opcodes DEF StartsNow, start_requested, key_len_bad
        <4>2. NotReady(model, strobe.event)
          BY <3>5, <4>1, InStepStart
        <4>3. Answer(model, strobe.event) = <<<<"ERR_LEN", strobe.event>>>>
          BY <4>1, <4>2 DEF Answer
        <4>4. ask' = <<"ERR_LEN", strobe.event>> /\ due' = <<<<"ERR_LEN", strobe.event>>>>
          BY <1>6, <2>1, <3>5, <4>1, <4>3, AskIs, DueClock, OneMore
        <4> QED BY <4>4
      <3> QED BY <3>1, <3>2, <3>3, <3>4, <3>5
    <2> QED BY <2>2
  <1> QED BY <1>5, <1>6

(* A message is served: what it owes, and what of it has been sent.        *)
LEMMA PartsKept ==
  ASSUME EngineInv, Delivered, Typed, NEW o \in BOOLEAN, Clock(o), fsm.at # "IDLE", ~message_done
  PROVE  /\ regs' = regs /\ fsm'.mode = fsm.mode /\ (Passed' <=> Passed)
         /\ CtPart' \o TagPart' \o VerdictPart' = CtPart \o TagPart \o VerdictPart
         /\ TagPart' \o VerdictPart' = TagPart \o VerdictPart /\ VerdictPart' = VerdictPart
  <1>1. regs' = regs /\ fsm'.mode = fsm.mode
    BY ServingStays
  <1>2. Result' = Result /\ (Passed' <=> Passed)
    BY <1>1, ResultSame
  <1>3. Passed' = Passed
    BY <1>1, <1>2 DEF Passed
  <1>4. CtPart' = CtPart /\ TagPart' = TagPart
    BY <1>1, <1>2 DEF CtPart, TagPart
  <1>5. VerdictPart' = VerdictPart
    BY <1>1, <1>3 DEF VerdictPart
  <1> QED BY <1>1, <1>2, <1>4, <1>5

(* While a message is served nothing else is added to what is due.         *)
LEMMA DueServing ==
  ASSUME EngineInv, Delivered, NEW o \in BOOLEAN, Clock(o), fsm.at # "IDLE"
  PROVE  /\ strobe = NoStrobe /\ ~strobe.done /\ ask = <<>> /\ ask' = <<>>
         /\ due' = IF packet_ends /\ due # <<>> THEN Tail(due) ELSE due
         /\ fsm.at \in Serving => builder = IdleBuilder /\ ~packet_ends
  <1>1. strobe = NoStrobe /\ ~strobe.done
    BY StrobeFinds
  <1>2. ask = <<>> /\ (fsm.at \in Serving => builder = IdleBuilder)
    BY DEF EngineInv, Asking, Building
  <1>3. builder = IdleBuilder => ~packet_ends
    BY DEF IdleBuilder, packet_ends
  <1> QED BY <1>1, <1>2, <1>3, AskIs, DueClock

(* Before the last word of the message nothing of it is sent,              *)
LEMMA OwingBefore ==
  ASSUME EngineInv, Delivered, Typed, Given, Owing, NEW o \in BOOLEAN, Clock(o),
         fsm.at \in Taking \union {"START_KEY_IV", "WAIT_PIPELINE", "SEND_CT"}
  PROVE  Owing'
  <1>1. fsm.at # "IDLE" /\ ~message_done /\ fsm.at \in Serving
    BY DEF Taking, message_done, Serving
  <1>2. /\ CtPart' \o TagPart' \o VerdictPart' = CtPart \o TagPart \o VerdictPart
        /\ TagPart' \o VerdictPart' = TagPart \o VerdictPart /\ fsm'.mode = fsm.mode /\ (Passed' <=> Passed)
    BY <1>1, PartsKept
  <1>3. due' = due /\ ~packet_ends /\ ~builder'.sent
    BY <1>1, DueServing, BuilderAfter
  <1>4. due = CtPart \o TagPart \o VerdictPart
    BY <1>1 DEF Owing, Taking
  <1>5. due' = CtPart' \o TagPart' \o VerdictPart'
    BY <1>2, <1>3, <1>4
  <1> HIDE DEF Passed
  <1>6. CASE fsm.at \in Taking \union {"START_KEY_IV"}
    <2>1. fsm'.at \in Taking \union {"WAIT_PIPELINE"}
      <3>1. FsmMove
        BY FsmMoves DEF EngineInv, Clock
      <3> QED BY <1>1, <1>6, <3>1 DEF FsmMove, Move, MoveAsking, Taking
    <2> QED BY <1>5, <2>1 DEF Owing, Taking
  <1>7. CASE fsm.at = "WAIT_PIPELINE"
    <2>1. fsm'.at = IF ~PipelineDone THEN "WAIT_PIPELINE" ELSE IF fsm.mode /\ ~capture.pass THEN "SEND_TAG" ELSE "SEND_CT"
      BY <1>7, FsmClock DEF EngineInv, Clock, FsmTo
    <2>2. PipelineDone => (fsm.mode => (capture.pass <=> Passed))
      BY <1>7 DEF Given, Complete, PipelineDone
    <2>3. CASE ~PipelineDone
      BY <1>5, <2>1, <2>3 DEF Owing
    <2>4. CASE PipelineDone /\ fsm.mode /\ ~capture.pass
      <3>1. ~Passed
        BY <2>2, <2>4
      <3>2. due' = TagPart' \o VerdictPart'
        BY <1>2, <1>5, <2>4, <3>1, Parts
      <3> QED BY <2>1, <2>4, <3>2 DEF Owing
    <2>5. CASE PipelineDone /\ ~(fsm.mode /\ ~capture.pass)
      <3>1. fsm'.at = "SEND_CT" /\ (fsm'.mode => Passed')
        BY <1>2, <2>1, <2>2, <2>5
      <3> QED BY <1>5, <3>1 DEF Owing
    <2> QED BY <2>3, <2>4, <2>5
  <1>8. CASE fsm.at = "SEND_CT"
    <2>1. fsm'.at = "WAIT_CT_SENT"
      BY <1>8, FsmClock DEF EngineInv, Clock, FsmAsks
    <2>2. fsm.mode => Passed
      BY <1>8 DEF Owing
    <2> QED BY <1>2, <1>3, <1>5, <2>1, <2>2 DEF Owing
  <1> QED BY <1>6, <1>7, <1>8

(* after it one answer after the other.                                    *)
LEMMA OwingAfter ==
  ASSUME EngineInv, Delivered, Typed, Owing, Leaving, NEW o \in BOOLEAN, Clock(o),
         fsm.at \in {"WAIT_CT_SENT", "SEND_TAG", "WAIT_TAG_SENT", "SEND_VERIFY", "WAIT_VERIFY_SENT"}, ~message_done
  PROVE  Owing'
  <1>1. fsm.at # "IDLE"
    OBVIOUS
  <1>2. /\ CtPart' \o TagPart' \o VerdictPart' = CtPart \o TagPart \o VerdictPart
        /\ TagPart' \o VerdictPart' = TagPart \o VerdictPart /\ VerdictPart' = VerdictPart
        /\ fsm'.mode = fsm.mode /\ (Passed' <=> Passed)
    BY <1>1, PartsKept
  <1>3. due' = (IF packet_ends /\ due # <<>> THEN Tail(due) ELSE due) /\ (builder'.sent <=> packet_ends)
    BY <1>1, DueServing, BuilderAfter
  <1>4. builder.sent => ~packet_ends
    BY DEF EngineInv, Building, packet_ends
  <1>5. fsm.at \in Serving => ~packet_ends
    BY <1>1, DueServing
  <1> HIDE DEF Passed
  <1>6. CASE fsm.at = "WAIT_CT_SENT" /\ ~builder.sent
    <2>1. fsm'.at = "WAIT_CT_SENT"
      BY <1>6, FsmClock DEF EngineInv, Clock, Stays, FsmTo
    <2>2. (fsm.mode => Passed) /\ due = CtPart \o TagPart \o VerdictPart
      BY <1>6 DEF Owing
    <2>3. CASE packet_ends
      <3>1. due' = TagPart' \o VerdictPart'
        BY <1>2, <1>3, <2>2, <2>3, Parts
      <3> QED BY <1>3, <2>1, <2>3, <3>1 DEF Owing
    <2>4. CASE ~packet_ends
      <3>1. due' = CtPart' \o TagPart' \o VerdictPart'
        BY <1>2, <1>3, <2>2, <2>4
      <3> QED BY <1>2, <1>3, <2>1, <2>2, <2>4, <3>1 DEF Owing
    <2> QED BY <2>3, <2>4
  <1>7. CASE fsm.at = "WAIT_CT_SENT" /\ builder.sent
    <2>1. fsm'.at = "SEND_TAG"
      BY <1>7, FsmClock DEF EngineInv, Clock, Stays, FsmTo
    <2>2. due' = TagPart' \o VerdictPart'
      BY <1>2, <1>3, <1>4, <1>7 DEF Owing
    <2> QED BY <2>1, <2>2 DEF Owing
  <1>8. CASE fsm.at = "SEND_TAG"
    <2>1. fsm'.at = "WAIT_TAG_SENT"
      BY <1>8, FsmClock DEF EngineInv, Clock, FsmAsks
    <2>2. ~builder'.sent /\ due' = TagPart' \o VerdictPart'
      BY <1>2, <1>3, <1>5, <1>8 DEF Owing, Serving
    <2> QED BY <2>1, <2>2 DEF Owing
  <1>9. CASE fsm.at = "WAIT_TAG_SENT" /\ ~builder.sent
    <2>1. fsm'.at = "WAIT_TAG_SENT"
      BY <1>9, FsmClock DEF EngineInv, Clock, Stays, FsmTo, message_done
    <2>2. due = TagPart \o VerdictPart
      BY <1>9 DEF Owing
    <2>3. CASE packet_ends
      <3>1. due' = VerdictPart'
        BY <1>2, <1>3, <2>2, <2>3, Parts
      <3> QED BY <1>3, <2>1, <2>3, <3>1 DEF Owing
    <2>4. CASE ~packet_ends
      <3>1. due' = TagPart' \o VerdictPart'
        BY <1>2, <1>3, <2>2, <2>4
      <3> QED BY <1>3, <2>1, <2>4, <3>1 DEF Owing
    <2> QED BY <2>3, <2>4
  <1>10. CASE fsm.at = "WAIT_TAG_SENT" /\ builder.sent
    <2>1. fsm'.at = "SEND_VERIFY" /\ fsm.mode
      BY <1>10, FsmClock DEF EngineInv, Clock, Stays, FsmTo
    <2>2. due' = VerdictPart'
      BY <1>2, <1>3, <1>4, <1>10 DEF Owing
    <2> QED BY <1>2, <2>1, <2>2 DEF Owing
  <1>11. CASE fsm.at = "SEND_VERIFY"
    <2>1. fsm'.at = "WAIT_VERIFY_SENT"
      BY <1>11, FsmClock DEF EngineInv, Clock, FsmAsks
    <2>2. ~builder'.sent /\ due' = VerdictPart' /\ fsm.mode
      BY <1>2, <1>3, <1>5, <1>11 DEF Owing, Serving
    <2> QED BY <1>2, <2>1, <2>2 DEF Owing
  <1>12. CASE fsm.at = "WAIT_VERIFY_SENT"
    <2>1. fsm'.at = "WAIT_VERIFY_SENT" /\ ~builder.sent
      BY <1>12, FsmClock DEF EngineInv, Clock, FsmTo
    <2>2. due = VerdictPart /\ fsm.mode
      BY <1>12, <2>1 DEF Owing
    <2>3. CASE packet_ends
      <3>1. due' = <<>>
        BY <1>3, <2>2, <2>3, Parts
      <3> QED BY <1>2, <1>3, <2>1, <2>2, <2>3, <3>1 DEF Owing
    <2>4. CASE ~packet_ends
      <3>1. due' = VerdictPart'
        BY <1>2, <1>3, <2>2, <2>4
      <3> QED BY <1>2, <1>3, <2>1, <2>2, <2>4, <3>1 DEF Owing
    <2> QED BY <2>3, <2>4
  <1> QED BY <1>6, <1>7, <1>8, <1>9, <1>10, <1>11, <1>12

(* The last answer of the message is gone.                                 *)
LEMMA OwingDone ==
  ASSUME EngineInv, Delivered, Owing, NEW o \in BOOLEAN, Clock(o), fsm.at # "IDLE", message_done
  PROVE  Owing'
  <1>1. builder.sent /\ builder.at = "idle" /\ ~packet_ends /\ send = "none"
    BY DEF message_done, EngineInv, Building, packet_ends, IdleBuilder
  <1>2. fsm'.at = "IDLE"
    BY FsmLeaves DEF Clock
  <1>3. ask' = <<>> /\ due' = due /\ ask = <<>>
    BY <1>1, DueServing
  <1>4. due = <<>>
    BY Parts DEF message_done, Owing
  <1>5. ~builder'.busy
    BY <1>1, <1>3, BuilderAfter
  <1> QED BY <1>2, <1>3, <1>4, <1>5 DEF Owing

(* Every clock owes what CommandSpec has due.                              *)
LEMMA OwingClock ==
  ASSUME EngineInv, Arriving, Delivered, InStep, Typed, Given, Owing, Leaving, NEW o \in BOOLEAN, Clock(o)
  PROVE  Owing'
  <1>1. fsm.at \in Serving \union Answering \union {"IDLE"}
    BY DEF EngineInv, Building
  <1>2. CASE fsm.at = "IDLE"
    BY <1>2, OwingStart, OwingIdle
  <1>3. CASE fsm.at # "IDLE" /\ message_done
    BY <1>3, OwingDone
  <1>4. CASE fsm.at # "IDLE" /\ ~message_done
    <2>1. \/ fsm.at \in Taking \union {"START_KEY_IV", "WAIT_PIPELINE", "SEND_CT"}
          \/ fsm.at \in {"WAIT_CT_SENT", "SEND_TAG", "WAIT_TAG_SENT", "SEND_VERIFY", "WAIT_VERIFY_SENT"}
      BY <1>1, <1>4 DEF Serving, Answering, Taking
    <2> QED BY <1>4, <2>1, OwingBefore, OwingAfter
  <1> QED BY <1>2, <1>3, <1>4

-----------------------------------------------------------------------------
(* WHAT LEAVES                                                             *)
(* The bytes that have left are the first ones of the first answer due     *)
(* (Leaving).                                                              *)
LEMMA JudgedClock ==
  ASSUME Given, Judged, NEW o \in BOOLEAN, Clock(o)
  PROVE  Judged'
  <1>1. CaptureStep /\ DOMAIN capture = CaptureFields
    BY DEF Clock, Given, CaptureFields
  <1>2. CASE message_done
    <2>1. capture' = [capture EXCEPT !.ct = NoWords, !.count = 0, !.tag = <<>>]
      BY <1>1, <1>2 DEF CaptureStep
    <2>2. capture'.pass = capture.pass
      BY <1>1, <2>1 DEF CaptureFields
    <2> QED BY <2>2 DEF Judged
  <1>3. CASE ~message_done
    <2>1. capture'.pass = Pass(fsm.at = "START_KEY_IV")
      BY <1>1, <1>3 DEF CaptureStep
    <2>2. Pass(fsm.at = "START_KEY_IV") \in BOOLEAN
      BY DEF Pass
    <2> QED BY <2>1, <2>2 DEF Judged
  <1> QED BY <1>2, <1>3

(* The answer that leaves stays the first of those that are due.           *)
Answers(cmd, len, value) ==
    IF cmd = "CIPHERTEXT" THEN fsm.at = "WAIT_CT_SENT" /\ len = Len(regs.pt) * BlockBytes
    ELSE /\ Head(due) = <<cmd, value>>
         /\ \/ cmd \in OneByte /\ len = 1
            \/ cmd = "AUTH_TAG" /\ len = TagBytes /\ IsTag(value)
            \/ cmd \in Acks /\ len = 0 /\ value = <<>>
AnswersNow == Answers(builder.cmd, builder.len, builder.value)

(* What the builder holds is the first of the answers that are due, and    *)
(* what left of it so far are its first bytes.                             *)
BuildsNow ==
    /\ builder.at # "idle" /\ due # <<>> /\ builder.idx \in 0..builder.len + 1
    /\ AnswersNow
    /\ wire = SubSeq(Bytes(Head(due)), 1, Gone)
    /\ builder.tx_start => builder.tx_data = Bytes(Head(due))[builder.idx + 1]

(* A builder that is busy builds the first answer due.                     *)
LEMMA LeavingBuilds == Leaving /\ builder.busy => BuildsNow
  BY DEF Leaving, BuildsNow, AnswersNow, Answers

(* The answer that leaves does not change under way.                       *)
LEMMA AnswerStays ==
  ASSUME EngineInv, Delivered, Typed, Owing, Leaving, NEW o \in BOOLEAN, Clock(o), builder.busy, ~packet_ends,
         builder'.cmd = builder.cmd, builder'.len = builder.len, builder'.value = builder.value
  PROVE  due' = due /\ AnswersNow'
  <1>1. ~strobe.done /\ ~builder.sent
    BY StrobeFinds, NotSent DEF IdleBuilder
  <1>2. due' = due
    BY <1>1, DueClock
  <1>3. AnswersNow
    BY LeavingBuilds DEF BuildsNow
  <1>4. CASE builder.cmd = "CIPHERTEXT"
    <2>1. fsm.at = "WAIT_CT_SENT" /\ builder.len = Len(regs.pt) * BlockBytes
      BY <1>3, <1>4 DEF AnswersNow, Answers
    <2>2. ~message_done
      BY <2>1 DEF message_done
    <2>3. regs' = regs
      BY <2>1, <2>2, ServingStays
    <2>4. fsm'.at = "WAIT_CT_SENT"
      BY <1>1, <2>1, FsmClock DEF EngineInv, Clock, Stays, FsmTo
    <2> QED BY <1>2, <1>4, <2>1, <2>3, <2>4 DEF AnswersNow, Answers
  <1>5. CASE builder.cmd # "CIPHERTEXT"
    BY <1>2, <1>3, <1>5 DEF AnswersNow, Answers
  <1> QED BY <1>2, <1>4, <1>5

(* A byte that the transmitter has taken is on the wire.                   *)
LEMMA WireClock ==
  ASSUME EngineInv, NEW o \in BOOLEAN, Clock(o)
  PROVE  /\ builder.at # "WAIT_BUSY" => ~builder.tx_start
         /\ builder.at \in {"idle", "SEND_BYTE"} => ~tx_busy
         /\ wire' = IF builder.tx_start THEN Append(wire, builder.tx_data) ELSE IF packet_ends THEN <<>> ELSE wire
         /\ packet_ends => builder.at = "WAIT_FREE"
         /\ builder.at \in {"idle", "SEND_BYTE", "WAIT_BUSY", "WAIT_FREE"}
  BY DEF EngineInv, Sending, Building, Clock, LinkStep, packet_ends, tx_busy

(* The answer goes on: the next of its bytes leaves, or none.              *)
LEMMA LeavingGoesOn ==
  ASSUME EngineInv, Delivered, Typed, Given, Owing, Leaving, NEW o \in BOOLEAN, Clock(o), builder.busy, ~packet_ends
  PROVE  BuildsNow' /\ builder'.busy
  <1> DEFINE bytes == Bytes(Head(due))
             idx == builder.idx
             len == builder.len
  <1>1. /\ builder.at # "idle" /\ due # <<>> /\ AnswersNow /\ wire = SubSeq(bytes, 1, Gone)
        /\ builder.tx_start => builder.tx_data = bytes[idx + 1]
    BY LeavingBuilds DEF BuildsNow
  <1>2. idx \in 0..len + 1 /\ len \in Nat /\ Len(bytes) = len + 2 /\ current_tx_byte = bytes[idx + 1]
    BY AnswerIs DEF BuildsAnswer
  <1>3. PICK S : bytes \in Seq(S)
    BY AnswerIs DEF BuildsAnswer
  <1>4. BuilderShaped /\ BuilderStep
    BY DEF EngineInv, Shaped, Clock
  <1>5. builder.at \in {"SEND_BYTE", "WAIT_BUSY", "WAIT_FREE"}
    BY <1>1, WireClock
  <1>6. builder'.cmd = builder.cmd /\ builder'.len = len /\ builder'.value = builder.value /\ builder'.busy
    BY <1>4, <1>5, BuilderClock DEF Goes
  <1>7. due' = due /\ AnswersNow'
    BY <1>6, AnswerStays
  <1>8. bytes' = bytes
    BY <1>7
  <1>9. SUFFICES /\ builder'.at # "idle" /\ builder'.idx \in 0..len + 1
                 /\ wire' = SubSeq(bytes, 1, Gone')
                 /\ builder'.tx_start => builder'.tx_data = bytes[builder'.idx + 1]
    BY <1>1, <1>6, <1>7, <1>8 DEF BuildsNow
  <1> HIDE DEF bytes
  <1>10. CASE builder.at = "SEND_BYTE"
    <2>1. Goes("WAIT_BUSY", idx) /\ builder'.tx_start /\ builder'.tx_data = bytes[idx + 1] /\ wire' = wire
      BY <1>2, <1>4, <1>10, BuilderClock, WireClock
    <2>2. Gone = idx /\ Gone' = idx
      BY <1>2, <1>10, <2>1 DEF Gone, Goes
    <2> QED BY <1>1, <1>2, <2>1, <2>2 DEF Goes
  <1>11. CASE builder.at = "WAIT_BUSY"
    <2>1. Goes(IF tx_busy THEN "WAIT_FREE" ELSE "WAIT_BUSY", idx) /\ ~builder'.tx_start
      BY <1>4, <1>11, BuilderClock
    <2>2. Gone' = idx + 1 /\ Gone = IF builder.tx_start THEN idx ELSE idx + 1
      BY <1>2, <1>11, <2>1 DEF Gone, Goes
    <2>3. CASE builder.tx_start
      <3>1. wire' = Append(SubSeq(bytes, 1, idx), bytes[idx + 1])
        BY <1>1, <2>2, <2>3, WireClock
      <3>2. idx \in Nat /\ 1 \in 1..idx + 1 /\ idx + 1 <= Len(bytes) /\ 1 \in Nat
        BY <1>2
      <3>3. wire' = SubSeq(bytes, 1, idx + 1)
        BY <1>3, <3>1, <3>2, SubSeqMore
      <3> QED BY <1>2, <2>1, <2>2, <3>3 DEF Goes
    <2>4. CASE ~builder.tx_start
      BY <1>1, <1>2, <2>1, <2>2, <2>4, WireClock DEF Goes
    <2> QED BY <2>3, <2>4
  <1>12. CASE builder.at = "WAIT_FREE"
    <2>1. ~builder.tx_start /\ wire' = wire /\ ~builder'.tx_start
      BY <1>4, <1>12, WireClock, BuilderClock
    <2>2. Gone = idx + 1
      BY <1>2, <1>12, <2>1 DEF Gone
    <2>3. CASE tx_busy
      <3>1. Goes("WAIT_FREE", idx)
        BY <1>4, <1>12, <2>3, BuilderClock
      <3>2. Gone' = idx + 1
        BY <1>2, <2>1, <3>1 DEF Gone, Goes
      <3> QED BY <1>1, <1>2, <2>1, <2>2, <3>1, <3>2 DEF Goes
    <2>4. CASE ~tx_busy
      <3>1. Goes("SEND_BYTE", idx + 1)
        BY <1>4, <1>12, <2>4, BuilderClock
      <3>2. Gone' = idx + 1
        BY <1>2, <2>1, <3>1 DEF Gone, Goes
      <3>3. idx + 1 \in 0..len + 1
        BY <1>2, <1>12, <2>4 DEF packet_ends
      <3> QED BY <1>1, <1>2, <2>1, <2>2, <3>1, <3>2, <3>3 DEF Goes
    <2> QED BY <2>3, <2>4
  <1> QED BY <1>5, <1>10, <1>11, <1>12

(* What a message asks the builder for.                                    *)
LEMMA SendFinds ==
  ASSUME EngineInv, Given, Judged, Owing, Leaving, send # "none"
  PROVE  /\ ask = <<>> /\ builder = IdleBuilder /\ due # <<>>
         /\ send = "CIPHERTEXT" => fsm.at = "WAIT_CT_SENT" /\ Head(due) = <<"CIPHERTEXT", Result.output>>
         /\ send = "AUTH_TAG" => fsm.at = "WAIT_TAG_SENT" /\ Head(due) = <<"AUTH_TAG", capture.tag>> /\ IsTag(capture.tag)
         /\ send = "VERIFY_RESULT" => fsm.at = "WAIT_VERIFY_SENT" /\ Head(due) = <<"VERIFY_RESULT", capture.pass>>
         /\ send \in {"CIPHERTEXT", "AUTH_TAG", "VERIFY_RESULT"}
  <1>1. /\ ask = <<>> /\ builder = IdleBuilder
        /\ <<fsm.at, send>> \in {<<"WAIT_CT_SENT", "CIPHERTEXT">>, <<"WAIT_TAG_SENT", "AUTH_TAG">>,
                                 <<"WAIT_VERIFY_SENT", "VERIFY_RESULT">>}
    BY DEF Leaving, EngineInv, Building
  <1>2. ~builder.sent
    BY <1>1 DEF IdleBuilder
  <1>3. CASE fsm.at = "WAIT_CT_SENT" /\ send = "CIPHERTEXT"
    <2>1. due # <<>> /\ Head(due) = <<"CIPHERTEXT", Result.output>>
      BY <1>2, <1>3, Parts DEF Owing
    <2> QED BY <1>1, <1>3, <2>1
  <1>4. CASE fsm.at = "WAIT_TAG_SENT" /\ send = "AUTH_TAG"
    <2>1. due # <<>> /\ Head(due) = <<"AUTH_TAG", Result.tag>>
      BY <1>2, <1>4, Parts DEF Owing
    <2>2. capture.tag = Result.tag
      BY <1>4 DEF Given, Complete
    <2> QED BY <1>1, <1>4, <2>1, <2>2, TagIs
  <1>5. CASE fsm.at = "WAIT_VERIFY_SENT" /\ send = "VERIFY_RESULT"
    <2>1. fsm.mode /\ due = VerdictPart
      BY <1>2, <1>5 DEF Owing
    <2>2. due # <<>> /\ Head(due) = <<"VERIFY_RESULT", Passed>>
      BY <2>1, Parts
    <2>3. capture.pass <=> Passed
      BY <1>5, <2>1 DEF Given, Complete
    <2>4. capture.pass = Passed
      BY <2>3 DEF Judged, Passed
    <2> QED BY <1>1, <1>5, <2>2, <2>4
  <1> QED BY <1>1, <1>3, <1>4, <1>5

(* Nothing is a part of anything.                                          *)
LEMMA NoneYet == ASSUME NEW s PROVE SubSeq(s, 1, 0) = <<>>
  OBVIOUS

(* An answer begins.                                                       *)
AnswersNext(cmd, len, value) ==
    IF cmd = "CIPHERTEXT" THEN fsm'.at = "WAIT_CT_SENT" /\ len = Len(regs'.pt) * BlockBytes
    ELSE /\ Head(due') = <<cmd, value>>
         /\ \/ cmd \in OneByte /\ len = 1
            \/ cmd = "AUTH_TAG" /\ len = TagBytes /\ IsTag(value)
            \/ cmd \in Acks /\ len = 0 /\ value = <<>>

(* The builder is asked while nothing else leaves.                         *)
LEMMA LeavingBegins ==
  ASSUME EngineInv, Delivered, Typed, Given, Judged, Owing, Leaving, NEW o \in BOOLEAN, Clock(o), builder.at = "idle",
         ask # <<>> \/ send # "none"
  PROVE  BuildsNow' /\ builder'.busy
  <1>1. BuilderShaped /\ BuilderStep
    BY DEF EngineInv, Shaped, Clock
  <1>2. ~packet_ends /\ ~builder.busy
    BY DEF packet_ends, Leaving
  <1>3. wire' = <<>>
    BY <1>2, WireClock DEF Leaving
  <1>4. ~strobe.done
    <2>1. ask # <<>> => ~strobe.done
      BY StrobeFinds
    <2>2. send # "none" => fsm.at # "IDLE"
      BY DEF EngineInv, Building, Answering
    <2> QED BY <2>1, <2>2, DueServing
  <1>5. due' = due
    BY <1>2, <1>4, DueClock
  <1>6. ASSUME NEW cmd, NEW len \in Nat, NEW value, Started(cmd, len, value), due # <<>>, AnswersNext(cmd, len, value)
        PROVE  BuildsNow' /\ builder'.busy
    <2>1. Gone' = 0
      BY <1>6 DEF Gone, Started
    <2>2. wire' = SubSeq(Bytes(Head(due')), 1, Gone')
      BY <1>3, <2>1, NoneYet
    <2>3. AnswersNow'
      BY <1>6 DEF AnswersNow, Answers, AnswersNext, Started
    <2>4. builder'.at # "idle" /\ due' # <<>> /\ builder'.idx \in 0..builder'.len + 1 /\ ~builder'.tx_start
      BY <1>5, <1>6 DEF Started
    <2> QED BY <1>6, <2>2, <2>3, <2>4 DEF BuildsNow, Started
  <1>7. CASE ask # <<>>
    <2>1. /\ fsm.at = "IDLE" /\ send = "none"
          /\ \/ ask[1] \in Acks /\ ask = <<ask[1], <<>>>>
             \/ ask[1] \in {"ERR_UNKNOWN", "ERR_LEN", "ERR_TIMEOUT"} /\ ask = <<ask[1], ask[2]>>
      BY <1>7 DEF Leaving, EngineInv, Asking
    <2>2. due = <<ask>>
      BY <1>7, <2>1 DEF Owing
    <2>3. due # <<>> /\ Head(due') = ask
      BY <1>5, <2>2, OneMore
    <2>4. CASE ask[1] \in Acks
      <3>1. ask = <<ask[1], <<>>>> /\ ask[1] # "CIPHERTEXT"
        BY <2>1, <2>4 DEF Acks, Loads, CMD_ACKS
      <3>2. Started(ask[1], 0, <<>>)
        BY <1>1, <2>1, <2>4, BuilderClock
      <3>3. AnswersNext(ask[1], 0, <<>>)
        BY <2>3, <2>4, <3>1 DEF AnswersNext
      <3> QED BY <1>6, <2>3, <3>2, <3>3
    <2>5. CASE ask[1] \notin Acks
      <3>1. ask = <<ask[1], ask[2]>> /\ ask[1] \in OneByte /\ ask[1] # "CIPHERTEXT"
        BY <2>1, <2>5 DEF OneByte
      <3>2. Started(ask[1], 1, ask[2])
        BY <1>1, <1>7, <2>1, <2>5, BuilderClock
      <3>3. AnswersNext(ask[1], 1, ask[2])
        BY <2>3, <3>1 DEF AnswersNext
      <3> QED BY <1>6, <2>3, <3>2, <3>3
    <2> QED BY <2>4, <2>5
  <1>8. CASE send # "none"
    <2>1. /\ ask = <<>> /\ builder = IdleBuilder /\ due # <<>>
          /\ send = "CIPHERTEXT" => fsm.at = "WAIT_CT_SENT"
          /\ send = "AUTH_TAG" => Head(due) = <<"AUTH_TAG", capture.tag>> /\ IsTag(capture.tag)
          /\ send = "VERIFY_RESULT" => Head(due) = <<"VERIFY_RESULT", capture.pass>>
          /\ send \in {"CIPHERTEXT", "AUTH_TAG", "VERIFY_RESULT"}
      BY <1>8, SendFinds
    <2>2. CASE send = "CIPHERTEXT"
      <3>1. Started("CIPHERTEXT", Len(regs.pt) * BlockBytes, <<>>)
        BY <1>1, <2>1, <2>2, BuilderClock
      <3>2. fsm.at = "WAIT_CT_SENT" /\ ~message_done /\ ~builder.sent
        BY <2>1, <2>2 DEF message_done, IdleBuilder
      <3>3. regs' = regs
        BY <3>2, ServingStays
      <3>4. fsm'.at = "WAIT_CT_SENT"
        BY <3>2, FsmClock DEF EngineInv, Clock, Stays, FsmTo
      <3>5. Len(regs.pt) * BlockBytes \in Nat
        BY OutputIs
      <3> DEFINE len == Len(regs.pt) * BlockBytes
      <3>6. len \in Nat /\ Started("CIPHERTEXT", len, <<>>) /\ len = Len(regs'.pt) * BlockBytes
        BY <3>1, <3>3, <3>5
      <3> HIDE DEF len
      <3>7. AnswersNext("CIPHERTEXT", len, <<>>)
        BY <3>4, <3>6 DEF AnswersNext
      <3> QED BY <1>6, <2>1, <3>6, <3>7
    <2>3. CASE send = "AUTH_TAG"
      <3>1. Started("AUTH_TAG", TagBytes, capture.tag)
        BY <1>1, <2>1, <2>3, BuilderClock
      <3> DEFINE tag == capture.tag
      <3>2. Started("AUTH_TAG", TagBytes, tag) /\ Head(due') = <<"AUTH_TAG", tag>> /\ IsTag(tag)
        BY <1>5, <2>1, <2>3, <3>1
      <3> HIDE DEF tag
      <3>3. AnswersNext("AUTH_TAG", TagBytes, tag)
        BY <3>2 DEF AnswersNext
      <3> QED BY <1>6, <2>1, <3>2, <3>3, Units
    <2>4. CASE send = "VERIFY_RESULT"
      <3>1. Started("VERIFY_RESULT", 1, capture.pass)
        BY <1>1, <2>1, <2>4, BuilderClock
      <3> DEFINE pass == capture.pass
      <3>2. Started("VERIFY_RESULT", 1, pass) /\ Head(due') = <<"VERIFY_RESULT", pass>>
        BY <1>5, <2>1, <2>4, <3>1
      <3> HIDE DEF pass
      <3>3. AnswersNext("VERIFY_RESULT", 1, pass)
        BY <3>2 DEF AnswersNext, OneByte
      <3> QED BY <1>6, <2>1, <3>2, <3>3
    <2> QED BY <2>1, <2>2, <2>3, <2>4
  <1> QED BY <1>7, <1>8

(* What the buffers and the FSM ask for is an answer.                      *)
LEMMA AsksNext ==
  ASSUME EngineInv, Delivered, NEW o \in BOOLEAN, Clock(o)
  PROVE  /\ send' # "none" => ask' = <<>> /\ <<fsm'.at, send'>> \in
                {<<"WAIT_CT_SENT", "CIPHERTEXT">>, <<"WAIT_TAG_SENT", "AUTH_TAG">>, <<"WAIT_VERIFY_SENT", "VERIFY_RESULT">>}
         /\ ask' # <<>> => \/ ask'[1] \in Acks /\ ask' = <<ask'[1], <<>>>>
                           \/ ask'[1] \in {"ERR_UNKNOWN", "ERR_LEN", "ERR_TIMEOUT"} /\ ask' = <<ask'[1], ask'[2]>>
  <1>1. CASE send' # "none"
    <2>1. fsm.at \in Serving \union Answering \union {"IDLE"}
      BY DEF EngineInv, Building
    <2>2. \/ fsm.at = "SEND_CT" /\ fsm'.at = "WAIT_CT_SENT" /\ send' = "CIPHERTEXT"
          \/ fsm.at = "SEND_TAG" /\ fsm'.at = "WAIT_TAG_SENT" /\ send' = "AUTH_TAG"
          \/ fsm.at = "SEND_VERIFY" /\ fsm'.at = "WAIT_VERIFY_SENT" /\ send' = "VERIFY_RESULT"
      BY <1>1, <2>1, FsmClock DEF EngineInv, Clock, Serving, Answering, FsmTo, FsmAsks, Begins, Streams, Firsts, Stays
    <2>3. ask' = <<>>
      BY <2>2, DueServing
    <2> QED BY <2>2, <2>3
  <1>2. ASSUME NEW a, NEW b, ask' = <<a, b>>
        PROVE  ask'[1] = a /\ ask'[2] = b /\ ask' = <<ask'[1], ask'[2]>>
    BY <1>2
  <1>3. CASE ask' # <<>> /\ send' = "none"
    <2>1. strobe.done /\ ~StartsNow
      BY <1>3, AskIs
    <2>2. strobe.event \in Loads \union Starts \union Refusals
      BY <2>1, StrobeFinds
    <2>3. CASE strobe.event \in Refusals
      BY <1>2, <1>3, <2>3, AskIs DEF Refusals
    <2>4. CASE key_len_bad \/ start_refused
      BY <1>2, <1>3, <2>4, AskIs
    <2>5. CASE strobe.event \in Loads /\ ~key_len_bad
      <3>1. ask' = <<CMD_ACKS[strobe.event], <<>>>> /\ CMD_ACKS[strobe.event] \in Acks
        BY <2>1, <2>5, AskIs DEF Acks, Loads
      <3> DEFINE a == CMD_ACKS[strobe.event]
      <3> HIDE DEF a
      <3>2. ask' = <<a, <<>>>> /\ a \in Acks
        BY <3>1 DEF a
      <3>3. ask'[1] = a
        BY <3>2
      <3> QED BY <1>3, <3>2, <3>3
    <2>6. CASE strobe.event \in Starts
      <3>1. start_refused
        BY <2>1, <2>6 DEF StartsNow, start_requested
      <3> QED BY <2>4, <3>1
    <2> QED BY <2>2, <2>3, <2>4, <2>5, <2>6
  <1> QED BY <1>1, <1>3

(* Every clock sends the bytes of the answer due first.                    *)
LEMMA LeavingClock ==
  ASSUME EngineInv, Delivered, Typed, Given, Judged, Owing, Leaving, NEW o \in BOOLEAN, Clock(o)
  PROVE  Leaving'
  <1>1. /\ send' # "none" => ask' = <<>> /\ <<fsm'.at, send'>> \in
               {<<"WAIT_CT_SENT", "CIPHERTEXT">>, <<"WAIT_TAG_SENT", "AUTH_TAG">>, <<"WAIT_VERIFY_SENT", "VERIFY_RESULT">>}
        /\ ask' # <<>> => \/ ask'[1] \in Acks /\ ask' = <<ask'[1], <<>>>>
                          \/ ask'[1] \in {"ERR_UNKNOWN", "ERR_LEN", "ERR_TIMEOUT"} /\ ask' = <<ask'[1], ask'[2]>>
    BY AsksNext
  <1>2. BuilderShaped /\ BuilderStep /\ answer' = IF packet_ends THEN wire ELSE <<>>
    BY DueClock DEF EngineInv, Shaped, Clock
  <1>3. answer' # <<>> => builder'.sent
    BY <1>2, BuilderAfter
  <1>4. SUFFICES /\ builder'.busy => BuildsNow'
                 /\ ~builder'.busy => wire' = <<>> /\ builder'.at = "idle"
                 /\ builder'.sent => builder' = [IdleBuilder EXCEPT !.sent = TRUE]
    BY <1>1, <1>3, <1>4 DEF Leaving, BuildsNow, AnswersNow, Answers
  <1>5. CASE packet_ends
    <2>1. builder' = [IdleBuilder EXCEPT !.sent = TRUE]
      BY <1>2, <1>5, BuilderClock DEF packet_ends
    <2>2. wire' = <<>>
      BY <1>5, WireClock
    <2> QED BY <2>1, <2>2 DEF IdleBuilder
  <1>6. CASE ~packet_ends /\ builder.at # "idle"
    <2>1. builder.busy /\ ~builder'.sent
      BY <1>6, BuilderAfter
    <2> QED BY <1>6, <2>1, LeavingGoesOn
  <1>7. CASE builder.at = "idle" /\ (ask # <<>> \/ send # "none")
    <2>1. ~builder'.sent
      BY <1>7, BuilderAfter DEF packet_ends
    <2> QED BY <1>7, <2>1, LeavingBegins
  <1>8. CASE builder.at = "idle" /\ ask = <<>> /\ send = "none"
    <2>1. builder' = IdleBuilder
      BY <1>2, <1>8, BuilderRests
    <2>2. ~packet_ends /\ ~builder.busy
      BY <1>8 DEF packet_ends, Leaving
    <2>3. wire' = <<>>
      BY <1>8, <2>2, WireClock DEF Leaving
    <2> QED BY <2>1, <2>3 DEF IdleBuilder
  <1> QED BY <1>5, <1>6, <1>7, <1>8

-----------------------------------------------------------------------------
(* THE REFINEMENT                                                          *)
(* Every clock of the engine is a step of CommandSpec or a stutter.        *)
Data == Arriving /\ Delivered /\ InStep /\ Typed /\ Served /\ Feeding /\ Given /\ Judged /\ Owing /\ Leaving

(* The engine begins with nothing under way.                               *)
LEMMA DataInit == EngineInit => Data
  <1> SUFFICES ASSUME EngineInit PROVE Data
    OBVIOUS
  <1>1. InStep /\ Typed
    BY InStepInit
  <1>2. Arriving
    BY DEF EngineInit, Arriving, ClearParser
  <1>3. Delivered
    BY NothingDelivered DEF EngineInit, ClearParser
  <1>4. fsm.at = "IDLE" /\ Current = "IDLE" /\ ~InMessage /\ ~Complete
    BY DEF EngineInit, CUInit, IdleFsm, InMessage, Complete
  <1>5. Served
    BY <1>4 DEF Served
  <1>6. Feeding
    BY <1>4 DEF EngineInit, Feeding, Fresh, NoMessageYet
  <1>7. Given
    <2>1. DOMAIN capture = {"ct", "count", "tag", "captured", "pass"} /\ DOMAIN capture.ct = 0..MaxDataBlocks
      BY DEF EngineInit, NoWords
    <2>2. core.tag = <<>> /\ ~core.last
      BY DEF EngineInit, NoMessageYet
    <2> QED BY <1>4, <2>1, <2>2 DEF Given
  <1>8. Judged
    BY DEF EngineInit, Judged
  <1>9. Owing
    BY <1>4 DEF EngineInit, CommandInit, IdleBuilder, Owing
  <1>10. Leaving
    BY DEF EngineInit, CommandInit, IdleBuilder, Leaving
  <1> QED BY <1>1, <1>2, <1>3, <1>5, <1>6, <1>7, <1>8, <1>9, <1>10 DEF Data

(* The host touches the line only.                                         *)
LEMMA DataHost ==
  ASSUME EngineInv, Data, SendPacket \/ CutPacket \/ UNCHANGED engineVars
  PROVE  Data'
  <1>1. Arriving' /\ Delivered' /\ InStep' /\ Typed'
    BY ArrivingHost, DeliveredHost, InStepHost DEF Data
  <1>2. UNCHANGED <<Current, strobe, regs, ask, send, fsm, drive, core, capture, builder, tx, wire, due, answer>>
    BY DEF SendPacket, CutPacket, engineVars, commandVars, parserVars
  <1>3. Result' = Result /\ Passed' = Passed /\ (InMessage' <=> InMessage) /\ (Complete' <=> Complete)
    BY <1>2 DEF Result, Passed, InMessage, Complete
  <1>4. Served' /\ Judged'
    BY <1>2 DEF Data, Served, Judged
  <1>5. Feeding'
    <2>1. AadAfter' = AadAfter /\ DataAfter' = DataAfter /\ AadDue' = AadDue /\ DataDue' = DataDue /\ (Fresh' <=> Fresh)
      BY <1>2 DEF AadAfter, DataAfter, AadDue, DataDue, Fresh
    <2> QED BY <1>2, <1>3, <2>1 DEF Data, Feeding
  <1>6. Given'
    BY <1>2, <1>3 DEF Data, Given
  <1>7. Owing'
    <2>1. CtPart' = CtPart /\ TagPart' = TagPart /\ VerdictPart' = VerdictPart
      BY <1>2, <1>3 DEF CtPart, TagPart, VerdictPart
    <2> QED BY <1>2, <1>3, <2>1 DEF Data, Owing
  <1>8. Leaving'
    <2>1. Gone' = Gone
      BY <1>2 DEF Gone
    <2> QED BY <1>2, <2>1 DEF Data, Leaving
  <1> QED BY <1>1, <1>4, <1>5, <1>6, <1>7, <1>8 DEF Data

(* Every clock keeps the invariant.                                        *)
LEMMA DataClock ==
  ASSUME EngineInv, EngineInv', Data, NEW o \in BOOLEAN, Clock(o)
  PROVE  Data'
  BY ArrivingClock, DeliveredClock, InStepClock, ServedClock, FeedingClock, GivenClock, JudgedClock, OwingClock, LeavingClock
     DEF Data

-----------------------------------------------------------------------------
(* The last byte of an answer is gone: CommandSpec replies.                *)
LEMMA ClockReplies ==
  ASSUME EngineInv, Data, NEW o \in BOOLEAN, Clock(o), packet_ends
  PROVE  Reply
  <1>1. builder.at = "WAIT_FREE" /\ builder.busy /\ ~builder.tx_start /\ ~builder.sent /\ builder.idx + 1 = builder.len + 2
    BY DEF packet_ends, EngineInv, Building, Sending
  <1>2. ~strobe.done
    BY DueClock DEF Data
  <1>3. model' = model
    BY <1>2, ModelClock DEF Data
  <1> DEFINE bytes == Bytes(Head(due))
  <1>4. due # <<>> /\ wire = SubSeq(bytes, 1, Gone)
    BY <1>1, LeavingBuilds DEF Data, BuildsNow
  <1>5. PICK S : bytes \in Seq(S)
    BY <1>1, AnswerIs DEF Data, BuildsAnswer
  <1>6. Len(bytes) = builder.len + 2
    BY <1>1, AnswerIs DEF Data, BuildsAnswer
  <1>7. Gone = Len(bytes)
    <2>1. Gone = builder.idx + 1
      BY <1>1 DEF Gone
    <2> QED BY <1>1, <1>6, <2>1
  <1> HIDE DEF bytes
  <1>8. wire = bytes
    BY <1>4, <1>5, <1>7
  <1>9. answer = <<>> /\ answer' = wire /\ due' = Tail(due)
    BY <1>1, <1>2, <1>4, DueClock DEF Data, Leaving
  <1> QED BY <1>3, <1>4, <1>8, <1>9 DEF Reply, bytes

(* No packet comes to its end, no answer either.                           *)
LEMMA ClockStutters ==
  ASSUME EngineInv, Data, NEW o \in BOOLEAN, Clock(o), ~packet_ends, ~strobe.done
  PROVE  Received \/ UNCHANGED commandVars
  <1>1. model' = model /\ due' = due /\ answer' = <<>>
    BY ModelClock, DueClock DEF Data
  <1> QED BY <1>1 DEF Received, commandVars

(* The packet of a strobe.                                                 *)
LEMMA StrobeOf ==
  ASSUME EngineInv, Data, strobe.done
  PROVE  /\ sending \in Offered /\ sending[1] = opcode /\ sending[2] = payload
         /\ payload \in Seq(Byte) /\ Len(payload) \in Nat /\ parsing.cnt \in 0..Len(payload)
         /\ strobe.event \in Loads \union Starts \union Refusals
         /\ answer = <<>>
  <1>1. parsing.at \in {"PAYLOAD", "SETTLE_0"}
    BY StrobeFinds DEF Data
  <1>2. sending \in Offered
    BY <1>1 DEF Data, Arriving
  <1>3. payload \in Seq(Byte) /\ Len(payload) \in Nat
    BY <1>2, PacketBytes DEF payload
  <1>4. parsing.cnt \in 0..Len(payload)
    BY <1>1, <1>3 DEF Data, Arriving
  <1>5. answer = <<>>
    <2>1. ~builder.sent
      BY StrobeFinds DEF Data, IdleBuilder
    <2> QED BY <2>1 DEF Data, Leaving
  <1>6. strobe.event \in Loads \union Starts \union Refusals
    BY StrobeFinds DEF Data
  <1> QED BY <1>2, <1>3, <1>4, <1>5, <1>6 DEF opcode, payload

(* A packet that is refused.                                               *)
LEMMA ClockRefuses ==
  ASSUME EngineInv, Data, NEW o \in BOOLEAN, Clock(o), strobe.done,
         strobe.event \in {"ERR_LEN", "ERR_UNKNOWN"} \/ key_len_bad
  PROVE  \E packet \in Offered : Refuse(packet)
  <1>1. /\ sending \in Offered /\ sending[1] = opcode /\ sending[2] = payload /\ answer = <<>>
    BY StrobeOf
  <1>2. answer' = <<>>
    BY DueClock DEF Data
  <1>3. CASE strobe.event \in {"ERR_LEN", "ERR_UNKNOWN"}
    <2>1. ~Allowed /\ strobe.event = (IF Known(opcode) THEN "ERR_LEN" ELSE "ERR_UNKNOWN") /\ strobe.value = opcode
      BY <1>3 DEF Data, Delivered
    <2>2. due' = Append(due, <<strobe.event, strobe.value>>) /\ model' = model
      BY <1>3, DueClock, ModelClock DEF Data, Refusals
    <2>3. ~OtherVariant(sending)
      BY <1>1, <2>1, Opcodes DEF OtherVariant, Allowed, LengthOk
    <2> QED BY <1>1, <1>2, <2>1, <2>2, <2>3 DEF Refuse, Allowed
  <1>4. CASE key_len_bad
    <2>1. strobe.event = "LOAD_KEY" /\ Len(strobe.value) # KeyBytes
      BY <1>4 DEF key_len_bad
    <2>2. opcode = "LOAD_KEY" /\ Allowed /\ strobe.value = payload
      BY <2>1, Opcodes DEF Data, Delivered
    <2>3. OtherVariant(sending) /\ Known(opcode)
      BY <1>1, <2>1, <2>2, Opcodes DEF OtherVariant, Allowed, LengthOk, Known
    <2>4. due' = Append(due, <<"ERR_LEN", "LOAD_KEY">>) /\ model' = Cleared(model)
      BY <1>4, DueClock, ModelClock DEF Data
    <2> QED BY <1>1, <1>2, <2>2, <2>3, <2>4 DEF Refuse
  <1> QED BY <1>3, <1>4

(* A packet that is executed.                                              *)
LEMMA ClockExecutes ==
  ASSUME EngineInv, Data, NEW o \in BOOLEAN, Clock(o), strobe.done, strobe.event \in Loads \union Starts, ~key_len_bad
  PROVE  \E packet \in Offered : Execute(packet)
  <1>1. /\ sending \in Offered /\ sending[1] = opcode /\ sending[2] = payload /\ answer = <<>>
    BY StrobeOf
  <1>2. answer' = <<>>
    BY DueClock DEF Data
  <1>3. opcode = strobe.event /\ sending = <<opcode, payload>> /\ model' = Performed(model, <<opcode, payload>>)
    BY ModelClock DEF Data
  <1>4. due' = due \o Answer(model, opcode)
    BY <1>3, DueClock DEF Data
  <1>5. Allowed
    BY DEF Data, Delivered
  <1>6. ~OtherVariant(sending)
    <2>1. opcode = "LOAD_KEY" => strobe.value = payload
      BY <1>3, Opcodes DEF Data, Delivered
    <2> QED BY <1>1, <1>3, <2>1 DEF OtherVariant, key_len_bad
  <1> QED BY <1>1, <1>2, <1>3, <1>4, <1>5, <1>6 DEF Execute, Allowed

(* A packet that was cut: its whole blocks stay.                           *)
LEMMA ClockDrops ==
  ASSUME EngineInv, Data, NEW o \in BOOLEAN, Clock(o), strobe.done, strobe.event = "ERR_TIMEOUT"
  PROVE  \E packet \in Offered : Drop(packet)
  <1> DEFINE n == Len(payload)
             cnt == parsing.cnt
  <1>1. /\ sending \in Offered /\ sending[1] = opcode /\ sending[2] = payload /\ answer = <<>>
        /\ n \in Nat /\ cnt \in 0..n
    BY StrobeOf
  <1>2. answer' = <<>>
    BY DueClock DEF Data
  <1>3. strobe.value = opcode /\ (cnt = 0 \/ cnt < n)
    BY DEF Data, Delivered
  <1>4. due' = Append(due, <<"ERR_TIMEOUT", opcode>>)
    BY <1>3, DueClock DEF Data, Refusals
  <1>5. model' = IF WholeBlocks = 0 THEN model ELSE Performed(model, <<opcode, SubSeq(payload, 1, WholeBlocks)>>)
    BY ModelClock DEF Data
  <1>6. CASE WholeBlocks = 0
    <2>1. model' = model
      BY <1>5, <1>6
    <2> QED BY <1>1, <1>2, <1>4, <2>1 DEF Drop
  <1>7. CASE WholeBlocks # 0
    <2>1. opcode \in BlockLoads /\ WholeBlocks = cnt - (cnt % BlockBytes)
      BY <1>7 DEF WholeBlocks, InBlocks
    <2>2. BlockBytes \in Nat \ {0} /\ cnt \in Nat
      BY <1>1, Units
    <2> DEFINE k == cnt \div BlockBytes
    <2>3. WholeBlocks = k * BlockBytes /\ k \in Nat
      BY <2>1, <2>2, WholeMultiple, Division
    <2>4. cnt # 0 /\ cnt <= n - 1 /\ n - 1 \in Nat
      <3>1. cnt = 0 => cnt \div BlockBytes = 0
        BY <2>2, Quotient
      <3>2. cnt # 0
        BY <1>7, <2>2, <2>3, <3>1
      <3> QED BY <1>1, <1>3, <3>2
    <2>5. k <= (n - 1) \div BlockBytes /\ (n - 1) \div BlockBytes \in Nat
      BY <2>2, <2>4, QuotientMonotone, Division
    <2>6. k # 0
      BY <1>7, <2>2, <2>3
    <2>7. k \in 1..(n - 1) \div BlockBytes
      BY <2>3, <2>5, <2>6
    <2>8. model' = Performed(model, <<sending[1], SubSeq(sending[2], 1, k * BlockBytes)>>)
      BY <1>1, <1>5, <1>7, <2>3
    <2>9. \E blocks \in 1..(Len(sending[2]) - 1) \div BlockBytes :
             model' = Performed(model, <<sending[1], SubSeq(sending[2], 1, blocks * BlockBytes)>>)
      BY <1>1, <2>7, <2>8
    <2>10. sending[1] \in {"LOAD_AAD", "LOAD_PLAINTEXT"}
      BY <1>1, <2>1, Opcodes
    <2> QED BY <1>1, <1>2, <1>4, <2>9, <2>10 DEF Drop
  <1> QED BY <1>6, <1>7

-----------------------------------------------------------------------------

(* Each clock and each move of the host is a step of CommandSpec.          *)
LEMMA StepImplements ==
  ASSUME EngineInv, Data, [EngineNext]_engineVars
  PROVE  [CommandNext]_commandVars
  <1>1. CASE SendPacket \/ CutPacket \/ UNCHANGED engineVars
    BY <1>1 DEF SendPacket, CutPacket, engineVars
  <1>2. ASSUME NEW o \in BOOLEAN, Clock(o) PROVE [CommandNext]_commandVars
    <2>1. CASE packet_ends
      BY <1>2, <2>1, ClockReplies DEF CommandNext
    <2>2. CASE ~packet_ends /\ ~strobe.done
      BY <1>2, <2>2, ClockStutters DEF CommandNext
    <2>3. CASE strobe.done
      <3>1. strobe.event \in Loads \union Starts \union Refusals
        BY <2>3, StrobeOf
      <3>2. CASE strobe.event \in {"ERR_LEN", "ERR_UNKNOWN"} \/ key_len_bad
        BY <1>2, <2>3, <3>2, ClockRefuses DEF CommandNext
      <3>3. CASE strobe.event \in Loads \union Starts /\ ~key_len_bad
        BY <1>2, <2>3, <3>3, ClockExecutes DEF CommandNext
      <3>4. CASE strobe.event = "ERR_TIMEOUT"
        BY <1>2, <2>3, <3>4, ClockDrops DEF CommandNext
      <3> QED BY <3>1, <3>2, <3>3, <3>4 DEF Refusals
    <2> QED BY <2>1, <2>2, <2>3
  <1> QED BY <1>1, <1>2 DEF EngineNext

(* The invariant is inductive, given EngineInv.                            *)
LEMMA DataNext ==
  ASSUME EngineInv, EngineInv', Data, [EngineNext]_engineVars
  PROVE  Data'
  <1>1. CASE SendPacket \/ CutPacket \/ UNCHANGED engineVars
    BY <1>1, DataHost
  <1>2. ASSUME NEW o \in BOOLEAN, Clock(o) PROVE Data'
    BY <1>2, DataClock
  <1> QED BY <1>1, <1>2 DEF EngineNext

(* The parser, the buffers, the core, the capture registers, the builder   *)
(* hold what the packet, the message and the answer under way are, whatever*)
(* the order of packets, wherever they are cut and however slow core and   *)
(* link are: the invariant of parser, engine FSM, core and builder.        *)
THEOREM EngineDataAlways == EngineSpec => []Data
  <1>1. EngineInit => EngineInv /\ Data
    BY EngineInvInit, DataInit
  <1>2. EngineInv /\ Data /\ [EngineNext]_engineVars => EngineInv' /\ Data'
    BY EngineInvNext, DataNext
  <1> QED BY <1>1, <1>2, PTL DEF EngineSpec

(* The engine with parser and builder implements CommandSpec: it executes  *)
(* each packet that comes whole and right, refuses or drops each other one,*)
(* and every answer on the wire is, byte for byte and in order, one that   *)
(* CommandSpec owes (ImplementsCommands of the runs).                      *)
THEOREM EngineImplementsCommands == EngineSpec => ImplementsCommands
  <1>1. EngineInit => EngineInv /\ Data /\ CommandInit
    BY EngineInvInit, DataInit DEF EngineInit
  <1>2. EngineInv /\ Data /\ [EngineNext]_engineVars => EngineInv' /\ Data'
    BY EngineInvNext, DataNext
  <1>3. EngineInv /\ Data /\ [EngineNext]_engineVars => [CommandNext]_commandVars
    BY StepImplements
  <1> QED BY <1>1, <1>2, <1>3, PTL DEF EngineSpec, ImplementsCommands, Commands
=============================================================================
