------------------------------ MODULE MCCommands ------------------------------
(* The commands of the host, each a part of its own: "menu" and "session" are  *)
(* Session without and with --advanced, "raw" and "image" the two file modes,  *)
(* "log" and "late" the log of runs whose threads are all joined, or not.  One *)
(* part is chosen and runs; the others stay at one of their initial states.    *)
EXTENDS Session

CONSTANTS
    MenuKeys, MenuRounds,                    \* of the session without --advanced
    k, p, NoChunk, NoFile, OlderFile,
    Channels, Windows, MaxFaults, Tampers,   \* of ImageMode
    MaxRuns, MaxSeconds, MaxFrames, Writers  \* of RunLog

ASSUME RunLogAssumption == {MaxRuns, MaxSeconds, MaxFrames} \subseteq Nat /\ IsFiniteSet(Writers)
(* A window of none or fewer is no window: batches then sends all at once.      *)
ASSUME WindowAssumption == Windows \subseteq Nat \ {0}
ASSUME MenuAssumption == MenuRounds \in Nat /\ NoPair \notin MenuKeys \X Prefixes

VARIABLES
    part,
    phase, args, packets, rawResponses, rawEncrypted, decrypted, result, outcome,
    channel, window, engine, toBoard, rx, sent, groups, awaiting, partial, responses, xfer, exchange, faults, ciphered,
    stage, iv, tamper, encrypted, outcomes, usedIV, hurt,
    active, logs, clock, run, writer

rawVars == <<phase, args, packets, rawResponses, rawEncrypted, decrypted, result, outcome>>
imageVars == <<channel, window, engine, toBoard, rx, sent, groups, awaiting, partial, responses, xfer, exchange, faults,
               ciphered, stage, iv, tamper, encrypted, outcomes, usedIV, hurt>>
logVars == <<active, logs, clock, run, writer>>
commandVars == <<part, vars, rawVars, imageVars, logVars>>

Byte(n) == {<<"byte", n>>}

(* The empty file, one byte, a block, blocks and a rest, and eight bytes; AAD   *)
(* and data up to one byte too many.                                            *)
RawFiles == {<<>>, <<Byte(1)>>, <<Byte(1), {}>>, <<Byte(1), {}, Byte(2), Byte(1), Byte(3)>>, [i \in 1..8 |-> Byte(i % 3)]}
RawAads == {<<>>, <<Byte(4)>>, [i \in 1..5 |-> Byte(4)]}
RawData == {<<>>, <<Byte(5)>>, <<Byte(5), Byte(6)>>, [i \in 1..5 |-> Byte(5)]}

(* The second IV overflows after one chunk, the third holds two.                *)
RawIVs == {<<p, 0>>, <<p, 7>>, <<p, 6>>}

Raw == INSTANCE RawMode WITH
    BlockBytes <- 2, MaxDataBlocks <- 2, MaxPayload <- 7, CounterLimit <- 8, Keys <- {<<k>>}, IVs <- RawIVs,
    Files <- RawFiles, Aads <- RawAads, Data <- RawData, BlockChoices <- 0..3,
    responses <- rawResponses, encrypted <- rawEncrypted

(* Two images of two chunks and one of one: equal windows meet unequal streams, *)
(* and the third image starts behind whatever the others left.                  *)
ImagePixels == <<<<Byte(1), Byte(2)>>, <<Byte(3)>>, <<Byte(4), Byte(1)>>>>

Image == INSTANCE ImageMode WITH
    BlockBytes <- 1, MaxDataBlocks <- 1, MaxPayload <- 2, CounterLimit <- 6, Key <- k, FirstIV <- <<p, 0>>, Images <- ImagePixels

Plain == INSTANCE Session WITH Advanced <- FALSE, Keys <- MenuKeys, MaxRounds <- MenuRounds
Log == INSTANCE RunLog WITH Stragglers <- FALSE
Late == INSTANCE RunLog WITH Stragglers <- TRUE

CommandsInit ==
    /\ part \in {"menu", "session", "raw", "image", "log", "late"}
    /\ SessionInit /\ Log!RunLogInit
    /\ Raw!Init /\ (part # "raw" => result = NoFile /\ args = CHOOSE some \in Raw!MessageArgs : TRUE)
    /\ Image!Init /\ (part # "image" => channel = "uart" /\ window = 1 /\ tamper = NoChunk)

InMenu == part = "menu" /\ UNCHANGED <<part, rawVars, imageVars, logVars>>
InSession == part = "session" /\ UNCHANGED <<part, rawVars, imageVars, logVars>>
InRaw == part = "raw" /\ UNCHANGED <<part, vars, imageVars, logVars>>
InImage == part = "image" /\ UNCHANGED <<part, vars, rawVars, logVars>>
InLog == part = "log" /\ UNCHANGED <<part, vars, rawVars, imageVars>>
InLate == part = "late" /\ UNCHANGED <<part, vars, rawVars, imageVars>>

(* The commands that end at all have ended; the others say so themselves.       *)
Stopped ==
    /\ \/ part = "raw" /\ phase = "done"
       \/ part \in {"log", "late"} /\ run.pc = "idle" /\ run.number = MaxRuns
    /\ UNCHANGED commandVars

CommandsNext ==
    \/ InMenu /\ Plain!Begin
    \/ InMenu /\ Plain!AskRound
    \/ InMenu /\ Plain!Exit
    \/ InMenu /\ Plain!Dispatch
    \/ InMenu /\ Plain!Crash
    \/ InMenu /\ Plain!MarkUsed
    \/ InMenu /\ Plain!Again
    \/ InMenu /\ Plain!Terminated
    \/ InSession /\ Begin
    \/ InSession /\ AskSelftest
    \/ InSession /\ AskRound
    \/ InSession /\ Exit
    \/ InSession /\ Dispatch
    \/ InSession /\ Crash
    \/ InSession /\ MarkUsed
    \/ InSession /\ Again
    \/ InSession /\ Terminated
    \/ InRaw /\ Raw!Open
    \/ InRaw /\ Raw!BuildFile
    \/ InRaw /\ Raw!Encrypt
    \/ InRaw /\ Raw!Decrypt
    \/ InRaw /\ Raw!CheckFile
    \/ InRaw /\ Raw!SendMessage
    \/ InImage /\ Image!Load
    \/ InImage /\ Image!Encrypted
    \/ InImage /\ Image!Decrypted
    \/ InImage /\ Image!Link
    \/ InImage /\ Image!Ended
    \/ InLog /\ Log!Tick
    \/ InLog /\ Log!Start
    \/ InLog /\ Log!StartStages
    \/ InLog /\ Log!CloseLog
    \/ InLog /\ Log!Forget
    \/ \E w \in Writers : InLog /\ Log!TestActive(w)
    \/ \E w \in Writers : InLog /\ Log!WriteRow(w)
    \/ \E w \in Writers : InLog /\ Log!WriteLine(w)
    \/ \E w \in Writers : InLog /\ Log!EndWriter(w)
    \/ InLate /\ Late!Tick
    \/ InLate /\ Late!Start
    \/ InLate /\ Late!StartStages
    \/ InLate /\ Late!CloseLog
    \/ InLate /\ Late!Forget
    \/ \E w \in Writers : InLate /\ Late!TestActive(w)
    \/ \E w \in Writers : InLate /\ Late!WriteRow(w)
    \/ \E w \in Writers : InLate /\ Late!WriteLine(w)
    \/ \E w \in Writers : InLate /\ Late!EndWriter(w)
    \/ Stopped

CommandsSpec == CommandsInit /\ [][CommandsNext]_commandVars

-------------------------------------------------------------------------------
(* The types of every part.                                                     *)
CommandsTypeOK ==
    /\ IF part = "menu" THEN Plain!SessionTypeOK ELSE SessionTypeOK
    /\ Raw!RawTypeOK /\ Image!ImageTypeOK /\ Late!RunLogTypeOK

(* raw_file: the stream it builds carries the whole file and only padding, in   *)
(* blocks the IP takes, and no two of its messages share an IV.                 *)
StreamCarriesData == Raw!StreamCarriesData /\ Raw!IVsUnique

(* raw_file: the stream cut into windows is still the stream, and its bytes are *)
(* read back as the packets they were; a part of a packet is refused.           *)
StreamReadBack == Raw!BatchesKeepStream /\ Raw!WireReadBack

(* raw_file and raw_message: data only under the tag that authenticates it; a   *)
(* tampered chunk is named, gives no plaintext and leaves no file, and a run    *)
(* without tampering gives back the data.                                       *)
OnlyGenuine == Raw!TamperCaught /\ Raw!MessageVerdict

(* image_mode: an image reported OK was encrypted by the IP under its own IVs.  *)
OkMeansEncrypted == Image!OkMeansEncrypted

(* image_mode: an image fails only because of a fault, and over SPI of its own. *)
FaultContained == Image!FaultContained

(* transfer: never more messages under way than the window was chosen for.      *)
InFlight == Image!InFlight

(* menu.py with cli.run_command: no line the menu builds is locked out, with or *)
(* without --advanced (cli.py:29 "Everything the plain menu can ask for"), and  *)
(* it is refused only for a side of 0 or out of range, or for data too long for *)
(* one message, which the menu does not check; names read as options excepted.  *)
MenuAccepted == IF part = "menu" THEN Plain!MenuCommandsRun ELSE MenuCommandsRun

(* run_log.py: a closed log never changes, even under threads that outlive it.  *)
ClosedIsFinal == Late!ClosedIsFinal

(* run_log.py: every run keeps a file of its own and one is open at a time; it  *)
(* holds what its own threads did, row for line, when the run waits for them.   *)
OneLogPerRun == Late!LogsKept /\ Late!OneRunOpen /\ (part = "log" => Log!OwnLines /\ Log!RowsMatchLines)
===============================================================================
