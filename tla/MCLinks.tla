------------------------------- MODULE MCLinks --------------------------------
(* The links of the host and the engine behind them, each a part of its own:   *)
(* an exchange over SPI byte by byte, the UART client with its board, the      *)
(* emulator with its host, and the RTL from its receive queue to its           *)
(* transmitter. One part is chosen and runs; the others stay at one of their   *)
(* initial states.                                                             *)
EXTENDS UartClient, Engine, SpiTransfer

CONSTANTS
    k1, k2,
    WireCost, UpCost, DownCost, SharedCost, Trips, LateBy, ReplyWait, MaxTime  \* of Emulator

(* Half of WIFI_TOTAL is less than either direction alone.                     *)
ASSUME CostAssumption == UpCost <= SharedCost /\ DownCost <= SharedCost

VARIABLES
    part,
    now, upFree, downFree, radio, replies, server, late, host, burst, sentAt, toServer, toHost, lastDue

emulatorVars == <<now, upFree, downFree, radio, replies, server, late, host, burst, sentAt, toServer, toHost, lastDue>>
linkVars == <<part, spiVars, vars, emulatorVars, engineVars>>

(* An acknowledgement, data with zeros in it, a tag ending in zero; opcodes    *)
(* are 1..3 here, and lengths and data are values of the same range.           *)
SpiReplies == {<<<<1, <<>>>>, <<2, <<0, 1, 0>>>>, <<3, <<0, 0>>>>>>, <<<<1, <<>>>>, <<1, <<>>>>, <<2, <<0>>>>>>}
SpiOldReplies == {<<>>, <<<<3, <<1, 2>>>>>>}

Data == <<{<<"byte", 1>>}>>
Aad == <<{<<"byte", 2>>}>>
RightTag == RunMessage(k1, <<"iv">>, Aad, Data, TRUE).tag

(* An encryption, a decryption with AAD and its right tag, and one whose tag   *)
(* is wrong; other keys and AAD show what is left of an earlier one.           *)
UartVectors ==
    <<[key |-> k2, iv |-> <<"iv">>, aad |-> <<>>, data |-> Data, decrypt |-> FALSE, tag |-> <<>>],
      [key |-> k1, iv |-> <<"iv">>, aad |-> Aad, data |-> Data, decrypt |-> TRUE, tag |-> RightTag],
      [key |-> k1, iv |-> <<"iv">>, aad |-> <<>>, data |-> Data, decrypt |-> TRUE, tag |-> RightTag]>>

ASSUME SettleAssumption == UartAssumption

(* A load and a start with two answers, then a burst of one load.              *)
EmulatorBursts == <<<<<<2, <<1>>>>, <<1, <<5, 1>>>>>>, <<<<1, <<1>>>>>>>>

Radio == INSTANCE Emulator WITH Bursts <- EmulatorBursts, Wifi <- TRUE
Wired == INSTANCE Emulator WITH Bursts <- EmulatorBursts, Wifi <- FALSE

(* Loads of three blocks of data and two of AAD, so that the counters, which   *)
(* end at three, wrap and reach each number, cut packets included; a key of    *)
(* the other variant, a ragged load, an unknown opcode; the tag of one of the  *)
(* messages.                                                                   *)
Blocks == [i \in 1..6 |-> {<<"byte", i>>}]
LoadedTag == RunMessage(<<k1>>, <<"iv">>, SubSeq(Blocks, 1, 4), Blocks, TRUE).tag
IpPackets ==
    {<<"LOAD_KEY", <<k1>>>>, <<"LOAD_KEY", <<k1, k1>>>>, <<"LOAD_IV", <<"iv">>>>, <<"LOAD_AAD", SubSeq(Blocks, 1, 4)>>,
     <<"LOAD_PLAINTEXT", Blocks>>, <<"LOAD_PLAINTEXT", SubSeq(Blocks, 1, 3)>>, <<"LOAD_TAG_REF", LoadedTag>>,
     <<"START_ENCRYPT", <<>>>>, <<"START_DECRYPT", <<>>>>, <<"NOP", <<{}>>>>}

EarlyPackets == {<<"LOAD_KEY", <<k1>>>>}

LinksInit ==
    /\ part \in {"spi", "uart", "radio", "wired", "engine"}
    /\ SpiInit /\ (part # "spi" => status = "ok" /\ fifo = <<>> /\ expected = CHOOSE some \in SpiReplies : TRUE)
    /\ Init /\ Radio!Init /\ EngineInit

InSpi == part = "spi" /\ UNCHANGED <<part, vars, emulatorVars, engineVars>>
InUart == part = "uart" /\ UNCHANGED <<part, spiVars, emulatorVars, engineVars>>
InRadio == part = "radio" /\ UNCHANGED <<part, spiVars, vars, engineVars>>
InWired == part = "wired" /\ UNCHANGED <<part, spiVars, vars, engineVars>>
InEngine == part = "engine" /\ UNCHANGED <<part, spiVars, vars, emulatorVars>>

(* The exchange, the last program or the host of the emulator has ended, or    *)
(* the clock.                                                                  *)
Stopped ==
    /\ \/ part = "spi" /\ exchange \in {"done", "failed"}
       \/ part = "uart" /\ pc = "dead" /\ sessions = MaxSessions
       \/ part \in {"radio", "wired"} /\ (host \in {"done", "failed"} \/ now = MaxTime)
    /\ UNCHANGED linkVars

LinksNext ==
    \/ InSpi /\ ClearFrame
    \/ InSpi /\ StartFrame
    \/ InSpi /\ ClockByte
    \/ InSpi /\ EndFrame
    \/ InSpi /\ ReceivePacket
    \/ InSpi /\ GiveUp
    \/ InSpi /\ Queue
    \/ InSpi /\ Overflow
    \/ InUart /\ Open
    \/ InUart /\ Settled
    \/ InUart /\ WriteZero
    \/ InUart /\ Flushed
    \/ InUart /\ Send
    \/ InUart /\ Receive
    \/ InUart /\ Timeout
    \/ InUart /\ Finish
    \/ InUart /\ Tick
    \/ InUart /\ Arrive
    \/ InUart /\ KillMidPacket
    \/ InUart /\ LoseAnswer
    \/ InRadio /\ Radio!Receive
    \/ InRadio /\ Radio!Answer
    \/ InRadio /\ Radio!Deliver
    \/ InRadio /\ Radio!Send
    \/ InRadio /\ Radio!Poll
    \/ InRadio /\ Radio!Tick
    \/ InWired /\ Wired!Receive
    \/ InWired /\ Wired!Answer
    \/ InWired /\ Wired!Deliver
    \/ InWired /\ Wired!Send
    \/ InWired /\ Wired!Poll
    \/ InWired /\ Wired!Tick
    \/ InEngine /\ SendPacket
    \/ InEngine /\ CutPacket
    \/ \E outside \in BOOLEAN : InEngine /\ Clock(outside)
    \/ Stopped

(* What SpiTransfer, UartClient and Engine assume: the host's code runs, time   *)
(* passes, what is on the way arrives and the clock of the IP runs.             *)
LinksSpec ==
    /\ LinksInit /\ [][LinksNext]_linkVars
    /\ WF_linkVars(InSpi /\ Host)
    /\ WF_linkVars(InUart /\ Session) /\ WF_linkVars(InUart /\ Tick) /\ WF_linkVars(InUart /\ Arrive)
    /\ WF_linkVars(InEngine /\ Clock(TRUE))

-------------------------------------------------------------------------------
(* The types of every part.                                                     *)
LinksTypeOK == SpiTypeOK /\ UartTypeOK /\ Radio!EmulatorTypeOK /\ EngineTypeOK

(* spi_link.py, uart_client.py, aes_gcm_engine.sv: every exchange over SPI and   *)
(* every program over the UART ends, whatever is lost, and the engine gets      *)
(* ready for the next packet again, whatever came.                              *)
EveryExchangeEnds ==
    /\ part = "spi" => ExchangeEnds
    /\ part = "uart" => SessionEnds
    /\ part = "engine" => ReadyAgain

(* emulator.py: the answers of a burst are due in order, the host goes on only  *)
(* once the last of them was, and no burst is quicker than its bytes on the     *)
(* wire and the radio.                                                          *)
EmulatedTimes ==
    /\ Radio!DuesOrdered /\ Radio!NeverEarly
    /\ IF part = "wired" THEN Wired!NoFasterThanLink ELSE Radio!NoFasterThanLink
===============================================================================
