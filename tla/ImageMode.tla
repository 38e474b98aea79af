----------------------------- MODULE ImageMode ------------------------------
(***************************************************************************)
(* "image" (cli.image_mode): one channel, several images in turn. Each is  *)
(* encrypted, decrypted again by the IP and compared (run_image); an image *)
(* that fails is reported and the next one uses the same channel.          *)
(***************************************************************************)
EXTENDS Transfer

CONSTANTS
    Key, FirstIV,
    Images,         (* the pixels of each image                             *)
    Tampers,        (* chunks --tamper-chunk may name                       *)
    NoChunk

VARIABLES
    stage,      (* "load", "encrypt", "decrypt", "end"                      *)
    iv,         (* of the next image                                        *)
    tamper,
    encrypted,  (* replies of the encryption                                *)
    outcomes,   (* "ok" or "failed" of the images done                      *)
    usedIV,     (* the IV each image was given: a history                   *)
    hurt        (* images during which the link had a fault: a history      *)

imageVars == <<stage, iv, tamper, encrypted, outcomes, usedIV, hurt>>
vars == <<transferVars, imageVars>>

Init ==
    /\ TransferInit
    /\ stage = "load" /\ iv = FirstIV /\ tamper \in Tampers \union {NoChunk}
    /\ encrypted = <<>> /\ outcomes = <<>> /\ usedIV = <<>> /\ hurt = {}

current == Len(outcomes) + 1
Pixels == Images[current]
EncryptTx == BuildTx(Pixels, Key, iv, <<>>, 1)
Messages == SplitTx(EncryptTx).messages
Layout == [byte_len |-> Len(Pixels), chunks |-> Len(Messages)]

NextImage(outcome) ==
    /\ outcomes' = Append(outcomes, outcome)
    /\ encrypted' = <<>>
    /\ stage' = IF current = Len(Images) THEN "end" ELSE "load"

Fail == NextImage("failed") /\ UNCHANGED iv

(* load_image and build_tx may refuse the image; nothing is sent then.     *)
Load ==
    /\ stage = "load"
    /\ usedIV' = Append(usedIV, iv)
    /\ UNCHANGED <<tamper, hurt>>
    /\ IF BuildRefused(Pixels, iv, <<>>, 1)
       THEN Fail /\ UNCHANGED transferVars
       ELSE /\ StartExchange(EncryptTx)
            /\ stage' = "encrypt"
            /\ UNCHANGED <<iv, encrypted, outcomes>>

Tampered == IF tamper = NoChunk THEN responses ELSE FlipCiphertext(responses, tamper)

Encrypted ==
    /\ stage = "encrypt" /\ xfer \in {"done", "failed"}
    /\ UNCHANGED <<tamper, usedIV, hurt>>
    /\ IF xfer = "failed" \/ ~Accepted \/ (tamper # NoChunk /\ FlipRefused(responses, tamper))
       THEN Fail /\ xfer' = "idle" /\ UNCHANGED <<channel, window, engine, toBoard, rx, sent, groups,
                awaiting, partial, responses, exchange, faults, ciphered>>
       ELSE /\ encrypted' = SplitRx(Tampered).replies
            /\ StartExchange(BuildDecryptTx(Key, Messages, SplitRx(Tampered).replies))
            /\ stage' = "decrypt"
            /\ UNCHANGED <<iv, outcomes>>

Tags == [i \in DOMAIN encrypted |-> encrypted[i].tag]
Restored(replies) == JoinChunks(Layout, [i \in DOMAIN replies |-> replies[i].data])
Verified(replies) == /\ Len(Tags) = Len(replies) /\ BadReplies(Tags, replies) = {}
                     /\ Restored(replies) = Pixels

(* The IV moves on only past an image whose pixels all came back; that the *)
(* counter has no room left for a next image fails this one.               *)
AdvanceOrFail ==
    IF IvOverflow(iv, Layout.chunks)
    THEN NextImage("failed") /\ UNCHANGED iv
    ELSE NextImage("ok") /\ iv' = AdvanceIv(iv, Layout.chunks)

Decrypted ==
    /\ stage = "decrypt" /\ xfer \in {"done", "failed"}
    /\ xfer' = "idle"
    /\ UNCHANGED <<tamper, usedIV, hurt, channel, window, engine, toBoard, rx, sent, groups, awaiting,
                   partial, responses, exchange, faults, ciphered>>
    /\ IF xfer = "failed" \/ ~Accepted \/ ~Verified(SplitRx(responses).replies)
       THEN Fail
       ELSE AdvanceOrFail

(* The link and the IP move on, also after the host has given up.          *)
Link ==
    /\ LinkStep \/ LinkFault
    /\ hurt' = IF faults' # faults THEN hurt \union {current} ELSE hurt
    /\ UNCHANGED <<stage, iv, tamper, encrypted, outcomes, usedIV>>

Host == Load \/ Encrypted \/ Decrypted
(* The command has ended; nothing else may leave the host waiting, which   *)
(* TLC checks as the absence of deadlock.                                  *)
Ended == stage = "end" /\ UNCHANGED vars

Next == Host \/ Link \/ Ended

Spec == Init /\ [][Next]_vars
-----------------------------------------------------------------------------
ImageTypeOK ==
    /\ stage \in {"load", "encrypt", "decrypt", "end"}
    /\ xfer \in {"idle", "send", "read", "done", "failed"}
    /\ iv[2] < CounterLimit /\ Len(outcomes) <= Len(Images) /\ faults <= MaxFaults
    /\ Len(usedIV) \in {Len(outcomes), Len(outcomes) + 1}

(* An image is reported OK only when the IP itself has encrypted each of   *)
(* its chunks under the chunk's own IV: answers an earlier exchange left   *)
(* behind never stand in for it.                                           *)
OkMeansEncrypted ==
    \A n \in DOMAIN outcomes : outcomes[n] = "ok" =>
        \A c \in 1..Len(Images[n]) :
            <<Key, AdvanceIv(usedIV[n], c - 1), <<Images[n][c]>>>> \in ciphered

(* Without tampering an image fails only because of a fault of the link:   *)
(* over SPI one that happened during that very image, because the CLEAR    *)
(* that starts the next exchange removes all the failed one left; on the   *)
(* other links, which keep unread answers, one that happened by then.      *)
FaultContained ==
    tamper = NoChunk =>
        \A n \in DOMAIN outcomes : outcomes[n] = "failed" =>
            IF channel = "spi" THEN n \in hurt ELSE \E m \in hurt : m <= n

(* Until something goes wrong there are never more than window messages    *)
(* between the host and the end of their answers, so the queues of the IP  *)
(* never hold more than BURST_MESSAGES was chosen for.                     *)
InFlight ==
    faults = 0 \/ channel = "spi" =>
        Cardinality({i \in DOMAIN toBoard : toBoard[i][1][1] \in Starts})
        + Cardinality({i \in DOMAIN rx : rx[i][1][1] = "AUTH_TAG"}) <= window

(* cli.py:224, "Several images under one key must not share an IV".        *)
IVFresh == \A a, b \in ciphered : a[1] = b[1] /\ a[2] = b[2] => a = b
=============================================================================
