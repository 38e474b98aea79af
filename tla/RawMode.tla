------------------------------ MODULE RawMode -------------------------------
(***************************************************************************)
(* One run of "raw" (host/cli.py): a file is split, encrypted, possibly    *)
(* tampered with, decrypted by the IP and compared (raw_file), or the user *)
(* sends exactly one message (raw_message). The channel is the software    *)
(* model, which answers a whole stream at once (links.ModelChannel).       *)
(***************************************************************************)
EXTENDS Framing

CONSTANTS
    Keys, IVs, Files,   (* what the user may give                           *)
    Aads, Data,         (* AAD and one-message data, before padding         *)
    BlockChoices,       (* --chunk_blocks                                   *)
    NoChunk,            (* no --tamper-chunk                                *)
    NoFile, OlderFile   (* the output file: none, or that of an earlier run *)

Chunks == 1..ChunkCount(8, 1)

VARIABLES
    phase, args, packets, responses, encrypted, decrypted,
    result,     (* the output file: NoFile, OlderFile or its bytes          *)
    outcome     (* "running", "ok", "failed"                                *)

vars == <<phase, args, packets, responses, encrypted, decrypted, result, outcome>>

FileArgs == [op : {"file"}, key : Keys, iv : IVs, aad : Aads, data : Files,
             blocks : BlockChoices, tamper : Chunks \union {NoChunk}]
MessageArgs == [op : {"encrypt", "decrypt"}, key : Keys, iv : IVs, aad : Aads,
                data : Data, blocks : {1}, tamper : {NoChunk}]

Init ==
    /\ phase = "open" /\ args \in FileArgs \union MessageArgs
    /\ packets = <<>> /\ responses = <<>> /\ encrypted = <<>> /\ decrypted = <<>>
    /\ result \in {NoFile, OlderFile} /\ outcome = "running"

Exchange(stream) == Simulate(stream)
Fail == phase' = "done" /\ outcome' = "failed"
Aad == ZeroPad(args.aad)

(* Mutant: an AAD of any length is taken.                                  *)
OpenUnchecked ==
    /\ phase = "open"
    /\ UNCHANGED <<args, packets, responses, encrypted, decrypted, result>>
    /\ \/ Fail
       \/ phase' = (IF args.op = "file" THEN "build" ELSE "message") /\ UNCHANGED outcome

(* read_secrets and open_channel, then read_bytes: all may raise.          *)
Open ==
    /\ phase = "open"
    /\ UNCHANGED <<args, packets, responses, encrypted, decrypted, result>>
    /\ \/ Fail
       \/ /\ Len(args.aad) <= MaxDataBytes
          /\ phase' = IF args.op = "file" THEN "build" ELSE "message"
          /\ UNCHANGED outcome

(* The output of an earlier run is removed before the stream is built.     *)
BuildFile ==
    /\ phase = "build"
    /\ result' = NoFile
    /\ UNCHANGED <<args, responses, encrypted, decrypted>>
    /\ IF BuildRefused(args.data, args.iv, Aad, args.blocks)
       THEN Fail /\ UNCHANGED packets
       ELSE /\ packets' = BuildTx(args.data, args.key, args.iv, Aad, args.blocks)
            /\ phase' = "encrypt" /\ UNCHANGED outcome

Layout == [byte_len |-> Len(args.data), chunks |-> Len(SplitTx(packets).messages)]

(* The answers, with the ciphertext bit the user asked to flip.            *)
Encrypt ==
    /\ phase = "encrypt"
    /\ UNCHANGED <<args, packets, decrypted, result>>
    /\ LET answered == Exchange(packets)
           tampered == IF args.tamper = NoChunk THEN answered
                       ELSE FlipCiphertext(answered, args.tamper)
           rx == SplitRx(tampered)
       IN  IF \/ args.tamper # NoChunk /\ FlipRefused(answered, args.tamper)
              \/ ~rx.ok
           THEN Fail /\ UNCHANGED <<responses, encrypted>>
           ELSE /\ responses' = tampered /\ encrypted' = rx.replies
                /\ phase' = "decrypt" /\ UNCHANGED outcome

Decrypt ==
    /\ phase = "decrypt"
    /\ UNCHANGED <<args, packets, responses, encrypted, result>>
    /\ LET messages == SplitTx(packets).messages
           rx == SplitRx(Exchange(BuildDecryptTx(args.key, messages, encrypted)))
       IN  IF DecryptRefused(messages, encrypted) \/ ~rx.ok
           THEN Fail /\ UNCHANGED decrypted
           ELSE decrypted' = rx.replies /\ phase' = "check" /\ UNCHANGED outcome

Tags == [i \in DOMAIN encrypted |-> encrypted[i].tag]
Outputs == [i \in DOMAIN decrypted |-> decrypted[i].data]

CheckFile ==
    /\ phase = "check"
    /\ UNCHANGED <<args, packets, responses, encrypted, decrypted>>
    /\ IF \/ Len(Tags) # Len(decrypted)
          \/ BadReplies(Tags, decrypted) # {}
          \/ JoinRefused(Layout, Outputs)
          \/ JoinChunks(Layout, Outputs) # args.data
       THEN Fail /\ UNCHANGED result
       ELSE /\ result' = JoinChunks(Layout, Outputs)
            /\ phase' = "done" /\ outcome' = "ok"

(* The tag the user gives with --tag: the right one, or another.           *)
UserTags == LET right == RunMessage(args.key, args.iv, Aad, ZeroPad(args.data), TRUE).tag
            IN  {right, [right EXCEPT ![3] = <<FlippedBit>>]}

RawPackets(tag) ==
    <<<<"LOAD_KEY", args.key>>, <<"LOAD_IV", args.iv>>>> \o AadPacket(Aad)
    \o <<<<"LOAD_PLAINTEXT", ZeroPad(args.data)>>>>
    \o IF args.op = "decrypt" THEN <<<<"LOAD_TAG_REF", tag>>, <<"START_DECRYPT", <<>>>>>>
       ELSE <<<<"START_ENCRYPT", <<>>>>>>

SendMessage ==
    /\ phase = "message"
    /\ UNCHANGED <<args, encrypted, result>>
    /\ \/ /\ args.data = <<>> \/ Len(args.data) > MaxDataBytes
          /\ Fail /\ UNCHANGED <<packets, responses, decrypted>>
       \/ /\ args.data # <<>> /\ Len(args.data) <= MaxDataBytes
          /\ \E tag \in UserTags : packets' = RawPackets(tag)
          /\ responses' = Exchange(packets')
          /\ decrypted' = SplitRx(responses').replies
          /\ phase' = "done"
          /\ outcome' = IF args.op = "decrypt" /\ Head(decrypted').verified # "pass"
                        THEN "failed" ELSE "ok"

Next == Open \/ BuildFile \/ Encrypt \/ Decrypt \/ CheckFile \/ SendMessage

Spec == Init /\ [][Next]_vars
-----------------------------------------------------------------------------
RawTypeOK ==
    /\ phase \in {"open", "build", "encrypt", "decrypt", "check", "message", "done"}
    /\ outcome \in {"running", "ok", "failed"}
    /\ result \in {NoFile, OlderFile} \union Files
    /\ phase \notin {"open", "done"} => Len(args.aad) <= MaxDataBytes

Messages == SplitTx(packets).messages

(* Under one key no two messages of a stream share an IV (build_tx counts  *)
(* it up), and none goes past the counter that advance_iv bounds.          *)
IVsUnique ==
    \A i, j \in 1..Len(Messages) :
        /\ Messages[i].iv[2] < CounterLimit
        /\ Messages[i].iv = Messages[j].iv => i = j

(* What the IP is asked to encrypt is whole blocks, at most the 15 its     *)
(* counter holds, and taken together all the data and only padding.        *)
StreamCarriesData ==
    args.op = "file" /\ packets # <<>> =>
        LET carried == FlattenSeq([i \in 1..Len(Messages) |-> Messages[i].data])
        IN  /\ SubSeq(carried, 1, Len(args.data)) = args.data
            /\ Len(carried) - Len(args.data) < BlockBytes
            /\ \A i \in Len(args.data) + 1..Len(carried) : carried[i] = {}
            /\ \A i \in 1..Len(Messages) :
                   Len(Messages[i].data) <= MaxDataBytes /\ Len(Messages[i].data) % BlockBytes = 0

(* A tampered run ends in an error that names exactly the tampered chunk,  *)
(* leaves no file, not even that of an earlier run, and the IP has given   *)
(* no plaintext of that chunk; a run that was not tampered with, once its  *)
(* stream was built, succeeds and its file is the data.                    *)
TamperCaught ==
    /\ phase = "check" /\ args.tamper # NoChunk =>
           /\ BadReplies(Tags, decrypted) = {args.tamper}
           /\ decrypted[args.tamper].data = <<>>
    /\ phase = "done" /\ args.op = "file" /\ packets # <<>> =>
           /\ outcome = IF args.tamper = NoChunk THEN "ok" ELSE "failed"
           /\ result = IF outcome = "ok" THEN args.data ELSE NoFile

(* A user's message gives its data only under the tag it authenticates:    *)
(* a decryption with another tag shows no output and ends in failure.      *)
MessageVerdict ==
    phase = "done" /\ args.op = "decrypt" /\ packets # <<>> =>
        LET reply == Head(decrypted)
            genuine == Messages[1].tag_ref = reply.tag
        IN  /\ (outcome = "ok") = genuine
            /\ genuine <=> reply.data # <<>>

Wire(stream) == FlattenSeq([i \in DOMAIN stream |-> BuildPacket(stream[i])])

(* The bytes of a stream, in a packet file or on the link to the emulator, *)
(* are read back as the packets they were, and a prefix of them is refused *)
(* unless it ends where a packet does.                                     *)
WireReadBack ==
    phase \in {"encrypt", "done"} =>
        LET ends == {Len(Wire(SubSeq(packets, 1, n))) : n \in 0..Len(packets)}
        IN  /\ \A i \in DOMAIN packets : ~TooLong(packets[i])
            /\ ParsePackets(Wire(packets)).packets = [i \in DOMAIN packets |-> <<Code[packets[i][1]], packets[i][2]>>]
            /\ \A n \in 0..Len(Wire(packets)) : ParsePackets(SubSeq(Wire(packets), 1, n)).ok = (n \in ends)

(* A window of the stream holds at most window messages, is never empty,   *)
(* and the windows together are the stream: nothing lost, doubled or moved. *)
BatchesKeepStream ==
    \A window \in 1..3 :
        LET groups == Batches(packets, window)
        IN  /\ FlattenSeq(groups) = packets
            /\ \A g \in Range(groups) :
                   Len(SelectSeq(g, LAMBDA p : p[1] \in Starts)) \in 0..window /\ g # <<>>
            /\ window = 1 => \A g \in Range(groups) : Len(g) = 1
            /\ \A n \in 1..Len(groups) - 1 : window > 1 =>
                   Len(SelectSeq(groups[n], LAMBDA p : p[1] \in Starts)) = window
=============================================================================
