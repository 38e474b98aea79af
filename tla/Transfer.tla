------------------------------ MODULE Transfer ------------------------------
(***************************************************************************)
(* One exchange of packets with the IP (links.transfer, spi_link.          *)
(* transfer_spi): a window of messages is sent at once, then the answers   *)
(* to its commands are read one by one and compared with what each command *)
(* must answer. The link keeps order, but may be late, cut a packet or     *)
(* change a bit. A serial port, the bridge and the emulator keep unread    *)
(* answers for the next exchange; SPI starts every exchange with CLEAR.    *)
(***************************************************************************)
EXTENDS Framing

CONSTANTS
    Channels,   (* of "uart", "spi", "emu"; "uart" also stands for the bridge *)
    Windows,    (* BURST_MESSAGES, PACED_WINDOW or the user's --window      *)
    MaxFaults   (* bound: faults of the link in one run                     *)

VARIABLES
    channel, window,
    engine,     (* the IP, which answers as gcm_model does                  *)
    toBoard,    (* commands not yet executed                                *)
    rx,         (* <<answer, exchange it belongs to>> not yet read          *)
    sent,       (* the stream of this exchange                              *)
    groups,     (* windows of it not yet sent                               *)
    awaiting,   (* commands sent whose answers are not all read             *)
    partial,    (* answers read for the first of them                       *)
    responses,  (* all answers read in this exchange                        *)
    xfer,       (* "idle", "send", "read", "done", "failed"                 *)
    exchange,   (* exchanges started                                        *)
    faults,     (* faults so far                                            *)
    ciphered    (* <<key, IV, data>> the IP has encrypted: a history        *)

transferVars == <<channel, window, engine, toBoard, rx, sent, groups, awaiting, partial,
                  responses, xfer, exchange, faults, ciphered>>

TransferInit ==
    /\ channel \in Channels /\ window \in Windows
    /\ engine = NewEngine /\ toBoard = <<>> /\ rx = <<>> /\ sent = <<>> /\ groups = <<>>
    /\ awaiting = <<>> /\ partial = <<>> /\ responses = <<>>
    /\ xfer = "idle" /\ exchange = 0 /\ faults = 0 /\ ciphered = {}

ClearNever == FALSE (* Mutant: the CLEAR frame is not sent *)
ClearFirst == channel = "spi"

StartExchange(packets) ==
    /\ sent' = packets /\ groups' = Batches(packets, window)
    /\ awaiting' = <<>> /\ partial' = <<>> /\ responses' = <<>>
    /\ xfer' = "send" /\ exchange' = exchange + 1
    /\ IF ClearFirst
       THEN engine' = NewEngine /\ toBoard' = <<>> /\ rx' = <<>>
       ELSE UNCHANGED <<engine, toBoard, rx>>
    /\ UNCHANGED <<channel, window, faults, ciphered>>

SendGroup ==
    /\ xfer = "send"
    /\ IF groups = <<>>
       THEN xfer' = "done" /\ UNCHANGED <<groups, toBoard, awaiting>>
       ELSE /\ toBoard' = toBoard \o [i \in DOMAIN Head(groups) |-> <<Head(groups)[i], exchange>>]
            /\ awaiting' = [i \in DOMAIN Head(groups) |-> Head(groups)[i][1]]
            /\ groups' = Tail(groups)
            /\ xfer' = "read"
    /\ UNCHANGED <<channel, window, engine, rx, sent, partial, responses, exchange, faults, ciphered>>

(* The answers a command must get; a decryption whose first answer is the  *)
(* tag has been rejected by the IP.                                        *)
Expected(cmd, first) ==
    IF cmd \in Loads THEN <<CMD_ACKS[cmd]>>
    ELSE IF cmd = "START_ENCRYPT" THEN <<"CIPHERTEXT", "AUTH_TAG">>
    ELSE IF first = "AUTH_TAG" THEN <<"AUTH_TAG", "VERIFY_RESULT">>
    ELSE <<"CIPHERTEXT", "AUTH_TAG", "VERIFY_RESULT">>

ReadReply ==
    /\ xfer = "read" /\ rx # <<>>
    /\ rx' = Tail(rx)
    /\ LET got == Head(rx)[1]
           read == Append(partial, got)
           expected == Expected(Head(awaiting), read[1][1])
       IN  IF got[1] # expected[Len(read)]
           THEN xfer' = "failed" /\ UNCHANGED <<partial, awaiting, responses>>
           ELSE /\ responses' = Append(responses, got)
                /\ IF Len(read) < Len(expected)
                   THEN partial' = read /\ UNCHANGED <<awaiting, xfer>>
                   ELSE /\ partial' = <<>>
                        /\ awaiting' = Tail(awaiting)
                        /\ xfer' = IF Tail(awaiting) = <<>> THEN "send" ELSE "read"
    /\ UNCHANGED <<channel, window, engine, toBoard, sent, groups, exchange, faults, ciphered>>

(* A wait that ends without an answer: none will come, or it is late.      *)
Timeout ==
    /\ xfer = "read" /\ rx = <<>>
    /\ IF toBoard = <<>> THEN UNCHANGED faults
       ELSE faults < MaxFaults /\ faults' = faults + 1
    /\ xfer' = "failed"
    /\ UNCHANGED <<channel, window, engine, toBoard, rx, sent, groups, awaiting, partial,
                   responses, exchange, ciphered>>

BoardStep ==
    /\ toBoard # <<>>
    /\ LET cmd == Head(toBoard)[1][1]
           payload == Head(toBoard)[1][2]
           answers == Answer(engine, cmd)
       IN  /\ rx' = rx \o [i \in DOMAIN answers |-> <<answers[i], Head(toBoard)[2]>>]
           /\ engine' = Loaded(engine, cmd, payload)
           /\ ciphered' = IF cmd = "START_ENCRYPT" /\ ~NotReady(engine, cmd)
                          THEN ciphered \union {<<engine.key, engine.iv, engine.data>>} ELSE ciphered
    /\ toBoard' = Tail(toBoard)
    /\ UNCHANGED <<channel, window, sent, groups, awaiting, partial, responses, xfer, exchange, faults>>

(* A packet that loses bytes: the IP drops it, with or without an error.   *)
CutCommand ==
    /\ toBoard # <<>> /\ faults < MaxFaults /\ channel # "emu"
    /\ toBoard' = Tail(toBoard) /\ faults' = faults + 1
    /\ rx' \in {rx, Append(rx, <<<<"ERR_TIMEOUT", Head(toBoard)[1][1]>>, Head(toBoard)[2]>>)}
    /\ UNCHANGED <<channel, window, engine, sent, groups, awaiting, partial, responses, xfer,
                   exchange, ciphered>>

(* A bit of an answer's data that changes on the way.                      *)
CorruptAnswer ==
    /\ faults < MaxFaults /\ channel # "emu"
    /\ \E i \in DOMAIN rx :
          /\ rx[i][1][1] = "CIPHERTEXT"
          /\ rx' = [rx EXCEPT ![i][1][2][1] = XorByte(@, FlippedBit)]
    /\ faults' = faults + 1
    /\ UNCHANGED <<channel, window, engine, toBoard, sent, groups, awaiting, partial, responses,
                   xfer, exchange, ciphered>>

(* The checks where an answer disagrees with the software model.           *)
Differences ==
    LET expected == SplitRx(Simulate(sent)).replies
        actual == SplitRx(responses).replies
    IN  IF Len(expected) # Len(actual) THEN {0}
        ELSE {i \in DOMAIN expected : expected[i] # actual[i]}

(* answer_stream accepts; the emulator is the model, so it is not compared. *)
Compared == channel # "emu"
Accepted == SplitRx(responses).ok /\ (Compared => Differences = {})

LinkStep == SendGroup \/ ReadReply \/ Timeout \/ BoardStep
LinkFault == CutCommand \/ CorruptAnswer
=============================================================================
