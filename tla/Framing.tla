------------------------------ MODULE Framing -------------------------------
(***************************************************************************)
(* How the host splits data into GCM messages and joins the answers back   *)
(* (host/framing.py). An IV is <<prefix, counter>>: the code counts in its *)
(* last 32 bits, CounterLimit stands for 2^32. Where the code raises, an   *)
(* operator named ...Refused holds, or the result's ok field is FALSE.     *)
(***************************************************************************)
EXTENDS GcmModel

CONSTANT CounterLimit

(* Mutant: whole blocks get one more.                                      *)
ZeroPadAlways(data) == data \o [i \in 1..(BlockBytes - (Len(data) % BlockBytes)) |-> {}]

ZeroPad(data) == data \o [i \in 1..((-Len(data)) % BlockBytes) |-> {}]

IvOverflow(iv, count) == iv[2] + count >= CounterLimit
AdvanceIv(iv, count) == <<iv[1], iv[2] + count>>

ChunkCount(length, blocks) == (length + blocks * BlockBytes - 1) \div (blocks * BlockBytes)
Piece(data, blocks, n) ==
    LET size == blocks * BlockBytes
    IN  SubSeq(data, (n - 1) * size + 1, IF n * size < Len(data) THEN n * size ELSE Len(data))

BuildRefused(data, iv, aad, blocks) ==
    \/ blocks \notin 1..MaxDataBlocks
    \/ Len(aad) % BlockBytes # 0 \/ Len(aad) > MaxDataBytes
    \/ data = <<>>
    \/ IvOverflow(iv, ChunkCount(Len(data), blocks) - 1)

AadPacket(aad) == IF aad = <<>> THEN <<>> ELSE <<<<"LOAD_AAD", aad>>>>

(* Mutant: the first message already has the IV after the given one.       *)
BuildTxNextIV(data, key, iv, aad, blocks) ==
    <<<<"LOAD_KEY", key>>>> \o
    FlattenSeq([n \in 1..ChunkCount(Len(data), blocks) |->
        <<<<"LOAD_IV", AdvanceIv(iv, n)>>>>
        \o (IF n = 1 THEN AadPacket(aad) ELSE <<>>)
        \o <<<<"LOAD_PLAINTEXT", ZeroPad(Piece(data, blocks, n))>>, <<"START_ENCRYPT", <<>>>>>>])

BuildTx(data, key, iv, aad, blocks) ==
    <<<<"LOAD_KEY", key>>>> \o
    FlattenSeq([n \in 1..ChunkCount(Len(data), blocks) |->
        <<<<"LOAD_IV", AdvanceIv(iv, n - 1)>>>>
        \o (IF n = 1 THEN AadPacket(aad) ELSE <<>>)
        \o <<<<"LOAD_PLAINTEXT", ZeroPad(Piece(data, blocks, n))>>, <<"START_ENCRYPT", <<>>>>>>])

(* The messages of a host -> IP stream, as the host itself reads it.       *)
SplitTx(packets) ==
    LET step(acc, p) ==
            CASE p[1] = "LOAD_KEY" -> [acc EXCEPT !.key = p[2]]
              [] p[1] = "LOAD_IV" -> [acc EXCEPT !.iv = p[2]]
              [] p[1] = "LOAD_AAD" -> [acc EXCEPT !.aad = p[2]]
              [] p[1] = "LOAD_PLAINTEXT" -> [acc EXCEPT !.data = p[2]]
              [] p[1] = "LOAD_TAG_REF" -> [acc EXCEPT !.tag_ref = p[2]]
              [] p[1] \in Starts ->
                    [acc EXCEPT !.messages = Append(@, [iv |-> acc.iv, aad |-> acc.aad,
                                    data |-> acc.data, start |-> p[1], tag_ref |-> acc.tag_ref]),
                                !.aad = <<>>, !.tag_ref = <<>>]
    IN  FoldLeft(step, [key |-> <<>>, iv |-> <<>>, aad |-> <<>>, data |-> <<>>,
                        tag_ref |-> <<>>, messages |-> <<>>], packets)

(* One reply per message of an IP -> host stream; verified is "none" after *)
(* an encryption.                                                          *)
SplitRx(packets) ==
    LET open(acc) == acc.data # <<>>
        step(acc, p) ==
            CASE p[1] \in Acks -> acc
              [] p[1] = "CIPHERTEXT" /\ ~open(acc) -> [acc EXCEPT !.data = p[2]]
              [] p[1] = "AUTH_TAG" ->
                    [acc EXCEPT !.replies = Append(@, [data |-> acc.data, tag |-> p[2],
                                                       verified |-> "none"]),
                                !.data = <<>>]
              [] /\ p[1] = "VERIFY_RESULT" /\ acc.replies # <<>> /\ ~open(acc)
                 /\ Last(acc.replies).verified = "none" ->
                    [acc EXCEPT !.replies[Len(acc.replies)].verified =
                        IF p[2] THEN "pass" ELSE "fail"]
              [] OTHER -> [acc EXCEPT !.ok = FALSE]
        end == FoldLeft(step, [ok |-> TRUE, data |-> <<>>, replies |-> <<>>], packets)
    IN  [ok |-> end.ok /\ ~open(end)
                /\ \A i \in DOMAIN end.replies :
                       end.replies[i].data = <<>> => end.replies[i].verified = "fail",
         replies |-> end.replies]

JoinRefused(layout, chunks) ==
    Len(chunks) # layout.chunks \/ Len(FlattenSeq(chunks)) < layout.byte_len
JoinChunks(layout, chunks) == SubSeq(FlattenSeq(chunks), 1, layout.byte_len)

DecryptRefused(messages, replies) == Len(messages) # Len(replies)
BuildDecryptTx(key, messages, replies) ==
    <<<<"LOAD_KEY", key>>>> \o
    FlattenSeq([i \in 1..Len(messages) |->
        <<<<"LOAD_IV", messages[i].iv>>>> \o AadPacket(messages[i].aad)
        \o <<<<"LOAD_PLAINTEXT", replies[i].data>>, <<"LOAD_TAG_REF", replies[i].tag>>,
             <<"START_DECRYPT", <<>>>>>>])

(* The chunks check_replies finds bad: not verified, or another tag.       *)
BadReplies(tags, replies) ==
    {i \in DOMAIN tags : replies[i].verified # "pass" \/ replies[i].tag # tags[i]}

FlipRefused(responses, chunk) ==
    chunk > Len(SelectSeq(responses, LAMBDA p : p[1] = "CIPHERTEXT"))
FlipCiphertext(responses, chunk) ==
    [i \in DOMAIN responses |->
        IF /\ responses[i][1] = "CIPHERTEXT"
           /\ chunk = Len(SelectSeq(SubSeq(responses, 1, i), LAMBDA p : p[1] = "CIPHERTEXT"))
        THEN <<"CIPHERTEXT", [responses[i][2] EXCEPT ![1] = XorByte(@, FlippedBit)]>>
        ELSE responses[i]]

(* Mutant: the messages after the last full window are not sent.           *)
BatchesFull(packets, window) ==
    LET step(acc, p) ==
            LET started == acc.started + (IF p[1] \in Starts THEN 1 ELSE 0)
                group == Append(acc.group, p)
            IN  IF window = 1 \/ started = window
                THEN [groups |-> Append(acc.groups, group), group |-> <<>>, started |-> 0]
                ELSE [acc EXCEPT !.group = group, !.started = started]
    IN  FoldLeft(step, [groups |-> <<>>, group |-> <<>>, started |-> 0], packets).groups

(* Mutant: a window is closed one message late.                            *)
BatchesWide(packets, window) ==
    LET step(acc, p) ==
            LET started == acc.started + (IF p[1] \in Starts THEN 1 ELSE 0)
                group == Append(acc.group, p)
            IN  IF started > window
                THEN [groups |-> Append(acc.groups, group), group |-> <<>>, started |-> 0]
                ELSE [acc EXCEPT !.group = group, !.started = started]
        end == FoldLeft(step, [groups |-> <<>>, group |-> <<>>, started |-> 0], packets)
    IN  IF end.group = <<>> THEN end.groups ELSE Append(end.groups, end.group)

(* Groups of at most window messages; a window of 1 is one packet a group. *)
Batches(packets, window) ==
    LET step(acc, p) ==
            LET started == acc.started + (IF p[1] \in Starts THEN 1 ELSE 0)
                group == Append(acc.group, p)
            IN  IF window = 1 \/ started = window
                THEN [groups |-> Append(acc.groups, group), group |-> <<>>, started |-> 0]
                ELSE [acc EXCEPT !.group = group, !.started = started]
        end == FoldLeft(step, [groups |-> <<>>, group |-> <<>>, started |-> 0], packets)
    IN  IF end.group = <<>> THEN end.groups ELSE Append(end.groups, end.group)
=============================================================================
