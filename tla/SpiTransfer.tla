---------------------------- MODULE SpiTransfer -----------------------------
(***************************************************************************)
(* The SPI side of an exchange, byte by byte (host/spi_link.py and         *)
(* spi_frames.py): every frame clocks a status byte and then whatever the  *)
(* IP has queued, zeros when that is nothing. The host rebuilds packets    *)
(* from these bytes across frames. The IP builds a packet faster than SPI  *)
(* clocks one, so a queue never runs dry inside a packet.                  *)
(***************************************************************************)
EXTENDS Integers, Sequences, SequencesExt, Functions

CONSTANTS
    Replies,        (* the answers of a window: sequences of packets        *)
    OldReplies,     (* answers an aborted run left queued                   *)
    FrameBytes,     (* bytes a frame clocks after the status: READ_BYTES    *)
    Retries         (* READ_RETRIES                                         *)

Framed(p) == <<p[1], Len(p[2])>> \o p[2]
Wire(packets) == FlattenSeq([i \in DOMAIN packets |-> Framed(packets[i])])

(* An answer is an opcode that is not the idle byte, and bytes.            *)
SpiReply == (Nat \ {0}) \X Seq(Nat)
ASSUME SpiAssumption == Replies \subseteq Seq(SpiReply)

VARIABLES
    exchange,   (* "clear", "data", "frame", "wait", "done", "failed"       *)
    answers,    (* what the IP will answer, and has not queued yet          *)
    fifo,       (* bytes the IP has queued                                  *)
    status,     (* "ok", sticky "overflow", or "absent": no slave           *)
    held,       (* status_hold: the status byte of the frame, frozen in it  *)
    left,       (* bytes the frame has still to clock                       *)
    miso,       (* bytes clocked in by the frame                            *)
    buffer,     (* MisoDecoder._buffer                                      *)
    packets,    (* decoded, not yet received                                *)
    received,   (* returned to read_replies                                 *)
    reads,      (* READ frames since the last packet                        *)
    expected    (* the answers of this window: a history                    *)

spiVars == <<exchange, answers, fifo, status, held, left, miso, buffer, packets, received, reads, expected>>

SpiInit ==
    /\ exchange = "clear" /\ expected \in Replies /\ answers = expected
    /\ \E old \in OldReplies : fifo = Wire(old)
    /\ status \in {"ok", "overflow", "absent"} /\ held = status
    /\ left = 0 /\ miso = <<>> /\ buffer = <<>> /\ packets = <<>> /\ received = <<>> /\ reads = 0

(* CLEAR_FRAME: the engine, both queues and the flags are reset.           *)
ClearFrame ==
    /\ exchange = "clear"
    /\ fifo' = <<>> /\ status' = IF status = "absent" THEN status ELSE "ok"
    /\ exchange' = "data"
    /\ UNCHANGED <<answers, held, left, miso, buffer, packets, received, reads, expected>>

(* A frame starts: the DATA frame of the window, or a READ frame.          *)
StartFrame ==
    /\ \/ exchange = "data" /\ left' \in 1..FrameBytes /\ UNCHANGED reads
       \/ /\ exchange = "wait" /\ packets = <<>> /\ reads < Retries
          /\ left' = FrameBytes /\ reads' = reads + 1
    /\ held' = status /\ miso' = <<>> /\ exchange' = "frame"
    /\ UNCHANGED <<answers, fifo, status, buffer, packets, received, expected>>

(* The IP queues an answer, at any moment once the commands are in.        *)
Queue ==
    /\ exchange \in {"frame", "wait"} /\ answers # <<>>
    /\ fifo' = fifo \o Framed(Head(answers)) /\ answers' = Tail(answers)
    /\ UNCHANGED <<exchange, status, held, left, miso, buffer, packets, received, reads, expected>>

(* A queue is full: the flag stays set until the next CLEAR. The receive   *)
(* queue loses a command, and with it an answer; the other one makes the   *)
(* builder wait.                                                           *)
Overflow ==
    /\ exchange \in {"frame", "wait"} /\ answers # <<>> /\ status = "ok"
    /\ status' = "overflow" /\ answers' \in {answers, Tail(answers)}
    /\ UNCHANGED <<exchange, fifo, held, left, miso, buffer, packets, received, reads, expected>>

ClockByte ==
    /\ exchange = "frame" /\ left > 0
    /\ left' = left - 1
    /\ miso' = Append(miso, IF fifo = <<>> THEN 0 ELSE Head(fifo))
    /\ fifo' = IF fifo = <<>> THEN fifo ELSE Tail(fifo)
    /\ UNCHANGED <<exchange, answers, status, held, buffer, packets, received, reads, expected>>

NoIdle(byte) == FALSE (* Mutant: a zero between packets is taken for an opcode *)
Idle(byte) == byte = 0

Rest(bytes, at) == SubSeq(bytes, at, Len(bytes))

(* MisoDecoder.feed: zeros are idle only where an opcode is due; a packet  *)
(* that is not complete waits for the next frame.                          *)
Feed(bytes) ==
    LET n == Len(bytes)
        end(at) == at + 2 + bytes[at + 1]
        decode[at \in 1..n + 1] ==
            IF at > n THEN [packets |-> <<>>, rest |-> <<>>]
            ELSE IF Idle(bytes[at]) THEN decode[at + 1]
            ELSE IF at = n \/ end(at) > n + 1
            THEN [packets |-> <<>>, rest |-> Rest(bytes, at)]
            ELSE [decode[end(at)] EXCEPT !.packets =
                     <<<<bytes[at], SubSeq(bytes, at + 2, end(at) - 1)>>>> \o @]
    IN  decode[1]

StatusOk == held = "ok"

(* The frame ends: check_status, then the decoder is fed.                  *)
EndFrame ==
    /\ exchange = "frame" /\ left = 0
    /\ IF ~StatusOk
       THEN exchange' = "failed" /\ UNCHANGED <<buffer, packets>>
       ELSE /\ packets' = packets \o Feed(buffer \o miso).packets
            /\ buffer' = Feed(buffer \o miso).rest
            /\ exchange' = "wait"
    /\ UNCHANGED <<answers, fifo, status, held, left, miso, received, reads, expected>>

ReceivePacket ==
    /\ exchange = "wait" /\ packets # <<>> /\ reads < Retries
    /\ received' = Append(received, Head(packets)) /\ packets' = Tail(packets)
    /\ reads' = 0
    /\ exchange' = IF Len(received') = Len(expected) THEN "done" ELSE "wait"
    /\ UNCHANGED <<answers, fifo, status, held, left, miso, buffer, expected>>

GiveUpEmpty == (* Mutant: gives up only when nothing was decoded *)
    /\ exchange = "wait" /\ reads = Retries /\ packets = <<>> /\ exchange' = "failed"
    /\ UNCHANGED <<answers, fifo, status, held, left, miso, buffer, packets, received, reads, expected>>

(* The loop has made its last READ frame; it does not look once more.      *)
GiveUp ==
    /\ exchange = "wait" /\ reads = Retries
    /\ exchange' = "failed"
    /\ UNCHANGED <<answers, fifo, status, held, left, miso, buffer, packets, received, reads, expected>>

Host == ClearFrame \/ StartFrame \/ ClockByte \/ EndFrame \/ ReceivePacket \/ GiveUp
SpiNext == Host \/ Queue \/ Overflow

SpiSpec == SpiInit /\ [][SpiNext]_spiVars /\ WF_spiVars(Host)
-----------------------------------------------------------------------------
SpiTypeOK ==
    /\ exchange \in {"clear", "data", "frame", "wait", "done", "failed"}
    /\ left \in 0..FrameBytes /\ Len(miso) <= FrameBytes /\ reads \in 0..Retries

DecodedIsExpected ==
    /\ IsPrefix(received \o packets, expected) \/ status # "ok"
    /\ exchange = "done" => received = expected

NothingMissing ==
    status = "ok" /\ exchange \in {"frame", "wait", "done"} =>
        LET onItsWay == Feed(buffer \o (IF exchange = "frame" THEN miso ELSE <<>>) \o fifo)
        IN  /\ received \o packets \o onItsWay.packets \o answers = expected
            /\ onItsWay.rest = <<>>

(* Wherever frames cut the bytes and however many idle zeros lie between   *)
(* packets, what the host decodes is what the IP answered to this window,  *)
(* in order, byte for byte: nothing an aborted run left behind, no packet  *)
(* shifted by a zero of a payload. A window with a lost answer never ends  *)
(* as if it were complete, though the status byte tells a frame late.      *)
(* Until a frame's status is bad nothing is missing: decoded packets, the  *)
(* decoder's rest, the frame's bytes and the queue together hold every     *)
(* answer queued so far, apart from idle zeros (spi_frames.py).            *)
DecodesAnswers == DecodedIsExpected /\ NothingMissing

(* Every exchange ends: with all its answers, or with an error after at    *)
(* most Retries empty READ frames in a row.                                *)
ExchangeEnds == <>(exchange \in {"done", "failed"})
=============================================================================
