----------------------------- MODULE CameraProofs -----------------------------
(* Proofs about the camera pipeline for every set of options, every number of  *)
(* frames, every way of cutting them into messages and any number of errors:   *)
(* the IVs of a run never meet, the decoder gets every encoded frame in order  *)
(* or a key frame, a decoder that waits has a key frame coming, every frame is *)
(* accounted for, and the panel is honest.                                     *)
EXTENDS Camera, SequenceTheorems, TLAPS

-------------------------------------------------------------------------------
(* Queues.                                                                     *)
Queue(S) == [items : Seq(S), closed : BOOLEAN, dropped : Nat, capacity : Nat, dropOldest : BOOLEAN]

LEMMA NewQueueType ==
  ASSUME NEW S, NEW capacity \in Nat, NEW drop \in BOOLEAN
  PROVE  NewQueue(capacity, drop) \in Queue(S)
  BY EmptySeq DEF NewQueue, Queue

(* put() on an open queue that loses nothing appends; on a closed one it does  *)
(* nothing.                                                                    *)
LEMMA PutAppends ==
  ASSUME NEW S, NEW q \in Queue(S), NEW x \in S, ~q.dropOldest, ~PutWaits(q), ~q.closed
  PROVE  Put(q, x).items = Append(q.items, x)
  <1>1. Len(q.items) < q.capacity /\ Surplus(q) = 0
    BY LenProperties DEF PutWaits, Surplus, Queue
  <1>2. SubSeq(q.items, 1, Len(q.items)) = q.items
    BY SubSeqFull DEF Queue
  <1> QED BY <1>1, <1>2 DEF Put, Queue

LEMMA QueueUpdate ==
  ASSUME NEW S, NEW q \in Queue(S), NEW items \in Seq(S), NEW dropped \in Nat
  PROVE  /\ [q EXCEPT !.items = items, !.dropped = dropped] \in Queue(S)
         /\ [q EXCEPT !.items = items, !.dropped = dropped].closed = q.closed
         /\ [q EXCEPT !.items = items, !.dropped = dropped].dropOldest = q.dropOldest
  BY DEF Queue

LEMMA PutType ==
  ASSUME NEW S, NEW q \in Queue(S), NEW x \in S
  PROVE  /\ Put(q, x) \in Queue(S)
         /\ Put(q, x).closed = q.closed /\ Put(q, x).dropOldest = q.dropOldest
         /\ q.closed => Put(q, x) = q
  <1>1. CASE q.closed
    BY <1>1 DEF Put, Queue
  <1>2. CASE ~q.closed
    <2>1. Surplus(q) \in Nat
      BY LenProperties DEF Surplus, Queue
    <2> DEFINE rest == SubSeq(q.items, Surplus(q) + 1, Len(q.items))
    <2>2. rest \in Seq(S)
      <3>1. q.items \in Seq(S) /\ Len(q.items) \in Nat
        BY LenProperties DEF Queue
      <3>2. \A i \in (Surplus(q) + 1)..Len(q.items) : q.items[i] \in S
        BY <2>1, <3>1, ElementOfSeq
      <3> QED BY <2>1, <3>1, <3>2, SubSeqProperties
    <2>3. Append(rest, x) \in Seq(S)
      BY <2>2, AppendProperties
    <2>4. q.dropped + Surplus(q) \in Nat
      BY <2>1 DEF Queue
    <2>5. Put(q, x) = [q EXCEPT !.items = Append(rest, x), !.dropped = q.dropped + Surplus(q)]
      BY <1>2, Zenon DEF Put
    <2>6. \A items \in Seq(S), dropped \in Nat :
            /\ [q EXCEPT !.items = items, !.dropped = dropped] \in Queue(S)
            /\ [q EXCEPT !.items = items, !.dropped = dropped].closed = q.closed
            /\ [q EXCEPT !.items = items, !.dropped = dropped].dropOldest = q.dropOldest
      BY QueueUpdate
    <2> DEFINE more == Append(rest, x)
               count == q.dropped + Surplus(q)
               p == [q EXCEPT !.items = more, !.dropped = count]
    <2>7. more \in Seq(S) /\ count \in Nat /\ Put(q, x) = p
      BY <2>3, <2>4, <2>5
    <2> HIDE DEF more, count
    <2>8. p \in Queue(S) /\ p.closed = q.closed /\ p.dropOldest = q.dropOldest
      BY <2>6, <2>7
    <2> HIDE DEF p
    <2> QED BY <1>2, <2>7, <2>8
  <1> QED BY <1>1, <1>2

LEMMA GetType ==
  ASSUME NEW S, NEW q \in Queue(S)
  PROVE  /\ Get(q) \in Queue(S)
         /\ Get(q).closed = q.closed /\ Get(q).dropOldest = q.dropOldest
         /\ q.items # <<>> => Got(q) = q.items[1] /\ Got(q) \in S /\ Len(q.items) >= 1
         /\ q.items = <<>> => Got(q) = NoItem /\ Get(q) = q
  <1>1. CASE q.items = <<>>
    BY <1>1, EmptySeq DEF Get, Got, Queue
  <1>2. CASE q.items # <<>>
    <2>1. q.items \in Seq(S)
      BY DEF Queue
    <2>2. Tail(q.items) \in Seq(S) /\ Head(q.items) \in S /\ Head(q.items) = q.items[1]
      BY <1>2, <2>1, HeadTailProperties
    <2>3. Len(q.items) >= 1
      BY <1>2, <2>1, LenProperties, EmptySeq
    <2> QED BY <1>2, <2>1, <2>2, <2>3 DEF Get, Got, Queue
  <1> QED BY <1>1, <1>2

(* get() takes the head: the others move up by one.                            *)
LEMMA GetMoves ==
  ASSUME NEW S, NEW q \in Queue(S), q.items # <<>>
  PROVE  /\ Len(Get(q).items) = Len(q.items) - 1
         /\ \A i \in 1..Len(Get(q).items) : Get(q).items[i] = q.items[i + 1]
  <1>1. q.items \in Seq(S) /\ Get(q).items = Tail(q.items)
    BY DEF Get, Queue
  <1> QED BY <1>1, HeadTailProperties, LenProperties

LEMMA CloseType ==
  ASSUME NEW S, NEW q \in Queue(S)
  PROVE  /\ Close(q) \in Queue(S) /\ Close(q).items = q.items /\ Close(q).closed
         /\ Close(q).dropOldest = q.dropOldest
         /\ Abort(q) \in Queue(S) /\ Abort(q).items = <<>> /\ Abort(q).closed
         /\ Abort(q).dropOldest = q.dropOldest
  BY EmptySeq DEF Close, Abort, Queue

-------------------------------------------------------------------------------
(* Types of the part of the state the proofs are about.                        *)
Messages == [first : Nat, count : Nat]

LinkLive == {"preroll", "get", "exchange", "decrypt", "put"}

AllPcs == {"read", "encode", "clear", "put", "close", "preroll", "get", "exchange", "decrypt", "abort", "restore",
           "request", "publish", "end"} \cup ErrorPcs

CompressRecord == [pc : AllPcs, frame : Frames \cup {NoItem}, encoded : Nat]

LinkRecord == [pc : AllPcs, item : Frames \cup Packets \cup {NoItem}, sent : Nat]

DecryptRecord == [pc : AllPcs, item : Packets \cup {NoItem}, skipped : BOOLEAN]

StatsRecord == [frames : Nat, failed : Nat, waiting : Nat, dropped : Nat, ended : BOOLEAN]

SourceRecord == [given : Nat, slot : BOOLEAN, running : BOOLEAN, dropped : Nat]

(* What a stage has in hand.                                                   *)
CompressType == compress \in CompressRecord /\ (compress.pc \in {"clear", "put"} => compress.frame \in Frames)

LinkType ==
    /\ link \in LinkRecord
    /\ link.pc = "exchange" => link.item \in Frames
    /\ link.pc \in {"decrypt", "put"} => link.item \in Packets

DecryptType ==
    /\ decrypt \in DecryptRecord
    /\ decrypt.pc \in {"restore", "request", "publish"} => decrypt.item \in Packets

OutgoingType == outgoing \in Queue(Frames) /\ outgoing.dropOldest = Drops(args)

ReturnedType == returned \in Queue(Packets) /\ returned.dropOldest = FALSE

KeyType == wantKey \in BOOLEAN /\ waitingKey \in BOOLEAN

HistoryType == sent \in Seq(Messages) /\ decoded \in Seq(Frames) /\ iv \in Nat

StreamType ==
    /\ args \in RunOptions /\ source \in SourceRecord /\ stats \in StatsRecord
    /\ CompressType /\ LinkType /\ DecryptType /\ OutgoingType /\ ReturnedType /\ KeyType /\ HistoryType

LEMMA StreamTypeInit == Init => StreamType
  <1> SUFFICES ASSUME NEW options \in Runs, args = options, StreamInit(options)
               PROVE  StreamType
    BY DEF Init
  <1>1. args \in RunOptions
    BY CameraAssumption
  <1>2. Capacity(options) \in Nat /\ Drops(options) \in BOOLEAN
    BY <1>1 DEF Capacity, Preroll, Drops, RunOptions
  <1>3. outgoing \in Queue(Frames) /\ returned \in Queue(Packets)
    BY <1>2, NewQueueType DEF StreamInit
  <1>4. OutgoingType /\ ReturnedType
    BY <1>3 DEF StreamInit, NewQueue, OutgoingType, ReturnedType
  <1>5. HistoryType
    BY EmptySeq DEF StreamInit, HistoryType
  <1>6. source \in SourceRecord /\ stats \in StatsRecord
    BY DEF StreamInit, SourceRecord, StatsRecord
  <1>7. CompressType
    BY DEF StreamInit, AllPcs, CompressType, CompressRecord
  <1>8. LinkType
    BY DEF StreamInit, AllPcs, LinkType, LinkRecord
  <1>9. DecryptType
    BY DEF StreamInit, AllPcs, DecryptType, DecryptRecord
  <1>10. KeyType
    BY DEF StreamInit, KeyType
  <1> QED BY <1>1, <1>4, <1>5, <1>6, <1>7, <1>8, <1>9, <1>10 DEF StreamType

(* What an error leaves of the stages: their pc alone, in the handler.         *)
LEMMA HandlerSteps ==
  ASSUME StreamType, NEW t \in Threads, Error(t) \/ Handler(t)
  PROVE  /\ UNCHANGED <<args, source, wantKey, iv, waitingKey, stats, sent, decoded>>
         /\ \E pc \in ErrorPcs : SetPc(t, pc)
         /\ \/ outgoing' = outgoing /\ returned' = returned
            \/ outgoing' = Abort(outgoing) /\ returned' = returned
            \/ outgoing' = outgoing /\ returned' = Abort(returned)
         /\ Pc(t) \in Raising[t] \cup ErrorPcs
  <1>1. CASE Error(t)
    BY <1>1 DEF Error, ErrorPcs
  <1>2. CASE ReadFailure(t)
    BY <1>2 DEF ReadFailure, ErrorPcs
  <1>3. CASE KeepFailure(t)
    BY <1>3 DEF KeepFailure, ErrorPcs
  <1>4. CASE StopAll(t)
    BY <1>4 DEF StopAll, ErrorPcs
  <1> QED BY <1>1, <1>2, <1>3, <1>4 DEF Handler

LEMMA SetPcKeeps ==
  ASSUME StreamType, NEW t \in Threads, NEW pc \in ErrorPcs, SetPc(t, pc)
  PROVE  /\ compress' \in CompressRecord /\ link' \in LinkRecord /\ decrypt' \in DecryptRecord
         /\ compress'.frame = compress.frame /\ compress'.encoded = compress.encoded
         /\ link'.item = link.item /\ link'.sent = link.sent
         /\ decrypt'.item = decrypt.item
         /\ compress'.pc = compress.pc \/ compress'.pc \in ErrorPcs
         /\ link'.pc = link.pc \/ link'.pc \in ErrorPcs
         /\ decrypt'.pc = decrypt.pc \/ decrypt'.pc \in ErrorPcs
         /\ t = "compress" => compress'.pc \in ErrorPcs /\ link' = link /\ decrypt' = decrypt
         /\ t = "link" => link'.pc \in ErrorPcs /\ compress' = compress /\ decrypt' = decrypt
         /\ t = "decrypt" => decrypt'.pc \in ErrorPcs /\ compress' = compress /\ link' = link
  <1>0. pc \in AllPcs
    BY DEF AllPcs
  <1>00. compress \in CompressRecord /\ link \in LinkRecord /\ decrypt \in DecryptRecord
    BY DEF StreamType, CompressType, LinkType, DecryptType
  <1>1. CASE t = "compress"
    <2>1. compress' = [compress EXCEPT !.pc = pc] /\ link' = link /\ decrypt' = decrypt
      BY <1>1 DEF SetPc
    <2>2. /\ compress' \in CompressRecord /\ compress'.pc = pc
          /\ compress'.frame = compress.frame /\ compress'.encoded = compress.encoded
      BY <1>0, <1>00, <2>1 DEF CompressRecord
    <2> QED BY <1>00, <1>1, <2>1, <2>2
  <1>2. CASE t = "link"
    <2>1. link' = [link EXCEPT !.pc = pc] /\ compress' = compress /\ decrypt' = decrypt
      BY <1>2 DEF SetPc
    <2>2. link' \in LinkRecord /\ link'.pc = pc /\ link'.item = link.item /\ link'.sent = link.sent
      BY <1>0, <1>00, <2>1 DEF LinkRecord
    <2> QED BY <1>00, <1>2, <2>1, <2>2
  <1>3. CASE t = "decrypt"
    <2>1. decrypt' = [decrypt EXCEPT !.pc = pc] /\ compress' = compress /\ link' = link
      BY <1>3 DEF SetPc
    <2>2. decrypt' \in DecryptRecord /\ decrypt'.pc = pc /\ decrypt'.item = decrypt.item
      BY <1>0, <1>00, <2>1 DEF DecryptRecord
    <2> QED BY <1>00, <1>3, <2>1, <2>2
  <1> QED BY <1>1, <1>2, <1>3 DEF Threads

LEMMA AbortType ==
  ASSUME StreamType
  PROVE  /\ Abort(outgoing) \in Queue(Frames) /\ Abort(outgoing).dropOldest = outgoing.dropOldest
         /\ Abort(returned) \in Queue(Packets) /\ Abort(returned).dropOldest = returned.dropOldest
         /\ Close(outgoing) \in Queue(Frames) /\ Close(outgoing).dropOldest = outgoing.dropOldest
         /\ Close(returned) \in Queue(Packets) /\ Close(returned).dropOldest = returned.dropOldest
  <1>1. outgoing \in Queue(Frames) /\ returned \in Queue(Packets)
    BY DEF StreamType, OutgoingType, ReturnedType
  <1> QED BY <1>1, CloseType

LEMMA StreamTypeHandlers ==
  ASSUME StreamType, NEW t \in Threads, Error(t) \/ Handler(t)
  PROVE  StreamType'
  <1>1. PICK pc \in ErrorPcs : SetPc(t, pc)
    BY HandlerSteps
  <1>2. UNCHANGED <<args, source, wantKey, iv, waitingKey, stats, sent, decoded>>
    BY HandlerSteps
  <1>3. OutgoingType' /\ ReturnedType'
    BY <1>2, AbortType, HandlerSteps DEF StreamType, OutgoingType, ReturnedType, Drops
  <1>4. ErrorPcs \cap {"clear", "put", "exchange", "decrypt", "restore", "request", "publish"} = {}
    BY DEF ErrorPcs
  <1>5. CompressType'
    BY <1>1, <1>4, SetPcKeeps DEF StreamType, CompressType
  <1>6. LinkType'
    BY <1>1, <1>4, SetPcKeeps DEF StreamType, LinkType
  <1>7. DecryptType'
    BY <1>1, <1>4, SetPcKeeps DEF StreamType, DecryptType
  <1> QED BY <1>2, <1>3, <1>5, <1>6, <1>7 DEF StreamType, KeyType, HistoryType


LEMMA StreamTypeCompress ==
  ASSUME StreamType, CompressStage PROVE StreamType'
  <1> USE DEF StreamType, CompressType, CompressRecord
  <1>0. UNCHANGED <<args, link, decrypt, returned, stats, waitingKey, sent, decoded, iv>>
    BY DEF CompressStage, Read, Encode, ClearRequest, PutOutgoing, EndCompress
  <1>1. LinkType' /\ DecryptType' /\ ReturnedType' /\ HistoryType'
    BY <1>0 DEF LinkType, DecryptType, ReturnedType, HistoryType
  <1>2. CASE Read
    <2>1. CompressType'
      BY <1>2 DEF Read, AllPcs
    <2>2. source' \in SourceRecord
      <3>1. [source EXCEPT !.slot = FALSE] \in SourceRecord
        BY DEF SourceRecord
      <3>2. [source EXCEPT !.given = @ + 1] \in SourceRecord
        BY DEF SourceRecord
      <3> QED BY <1>2, <3>1, <3>2 DEF Read, TakeFrame
    <2> QED BY <1>0, <1>1, <1>2, <2>1, <2>2 DEF Read, OutgoingType, KeyType, Drops
  <1>3. CASE Encode
    <2>1. CompressType'
      BY <1>3 DEF Encode, AllPcs, Frames, Forced, RunOptions, KeyType
    <2> QED BY <1>0, <1>1, <1>3, <2>1 DEF Encode, OutgoingType, KeyType, Drops
  <1>4. CASE ClearRequest
    <2>1. CompressType'
      BY <1>4 DEF ClearRequest, AllPcs
    <2> QED BY <1>0, <1>1, <1>4, <2>1 DEF ClearRequest, OutgoingType, KeyType, Drops
  <1>5. CASE PutOutgoing
    <2>1. CompressType'
      BY <1>5 DEF PutOutgoing, AllPcs
    <2>2. OutgoingType'
      BY <1>0, <1>5, PutType DEF PutOutgoing, OutgoingType, Drops
    <2> QED BY <1>0, <1>1, <1>5, <2>1, <2>2 DEF PutOutgoing, KeyType
  <1>6. CASE EndCompress
    <2>1. CompressType'
      BY <1>6 DEF EndCompress, AllPcs, ErrorPcs
    <2>2. OutgoingType'
      BY <1>0, <1>6, AbortType DEF EndCompress, OutgoingType, Drops
    <2> QED BY <1>0, <1>1, <1>6, <2>1, <2>2 DEF EndCompress, KeyType
  <1> QED BY <1>2, <1>3, <1>4, <1>5, <1>6 DEF CompressStage

LEMMA StreamTypeLink ==
  ASSUME StreamType, LinkStage PROVE StreamType'
  <1> USE DEF StreamType, LinkType, LinkRecord
  <1>0. UNCHANGED <<args, source, compress, wantKey, decrypt, stats, waitingKey, decoded>>
    BY DEF LinkStage, Fill, GetFrame, Exchange, DecryptInIp, PutReturned, EndLink
  <1>1. CompressType' /\ DecryptType' /\ KeyType'
    BY <1>0 DEF CompressType, DecryptType, KeyType
  <1>2. CASE Fill
    <2>1. LinkType'
      BY <1>2 DEF Fill, AllPcs
    <2> QED BY <1>0, <1>1, <1>2, <2>1 DEF Fill, OutgoingType, ReturnedType, HistoryType, Drops
  <1>3. CASE GetFrame
    <2>1. OutgoingType'
      BY <1>0, <1>3, GetType DEF GetFrame, OutgoingType, Drops
    <2>2. Got(outgoing) \in Frames \cup {NoItem}
      BY GetType DEF OutgoingType
    <2>3. LinkType'
      BY <1>3, <2>2 DEF GetFrame, AllPcs
    <2> QED BY <1>0, <1>1, <1>3, <2>1, <2>3 DEF GetFrame, ReturnedType, HistoryType
  <1>4. CASE Exchange
    <2>1. link.item \in Frames /\ link.item.chunks \in Nat
      BY <1>4, CameraAssumption DEF Exchange, Frames
    <2>2. [frame |-> link.item, pass |-> ~Tampered(link.sent + 1)] \in Packets
      BY <2>1 DEF Packets, Tampered
    <2>3. Append(sent, [first |-> iv, count |-> link.item.chunks]) \in Seq(Messages)
      BY <2>1, AppendProperties DEF HistoryType, Messages
    <2>4. HistoryType'
      <3>1. iv' \in Nat
        BY <1>4, <2>1 DEF Exchange, Advance, HistoryType
      <3>2. sent' \in Seq(Messages)
        BY <1>4, <2>3 DEF Exchange, HistoryType
      <3> QED BY <1>0, <1>4, <3>1, <3>2 DEF Exchange, HistoryType
    <2>5. LinkType'
      <3>1. CASE link' = [link EXCEPT !.pc = "except"]
        BY <3>1 DEF AllPcs, ErrorPcs
      <3>2. CASE link' = [sent |-> link.sent + 1, pc |-> IF args.fpga THEN "decrypt" ELSE "put",
                          item |-> [frame |-> link.item, pass |-> ~Tampered(link.sent + 1)]]
        BY <2>2, <3>2 DEF AllPcs
      <3> QED BY <1>4, <3>1, <3>2 DEF Exchange
    <2> QED BY <1>0, <1>1, <1>4, <2>4, <2>5 DEF Exchange, OutgoingType, ReturnedType, Drops
  <1>5. CASE DecryptInIp
    <2>1. LinkType'
      BY <1>5 DEF DecryptInIp, AllPcs
    <2> QED BY <1>0, <1>1, <1>5, <2>1 DEF DecryptInIp, OutgoingType, ReturnedType, HistoryType, Drops
  <1>6. CASE PutReturned
    <2>1. ReturnedType'
      BY <1>6, PutType DEF PutReturned, ReturnedType
    <2>2. LinkType'
      BY <1>6 DEF PutReturned, AllPcs
    <2> QED BY <1>0, <1>1, <1>6, <2>1, <2>2 DEF PutReturned, OutgoingType, HistoryType, Drops
  <1>7. CASE EndLink
    <2>1. OutgoingType' /\ ReturnedType'
      BY <1>0, <1>7, AbortType DEF EndLink, OutgoingType, ReturnedType, Drops
    <2>2. LinkType'
      BY <1>7 DEF EndLink, AllPcs, ErrorPcs
    <2> QED BY <1>0, <1>1, <1>7, <2>1, <2>2 DEF EndLink, HistoryType
  <1> QED BY <1>2, <1>3, <1>4, <1>5, <1>6, <1>7 DEF LinkStage

LEMMA StreamTypeDecrypt ==
  ASSUME StreamType, DecryptStage PROVE StreamType'
  <1> USE DEF StreamType, DecryptType, DecryptRecord
  <1>0. UNCHANGED <<args, source, compress, link, outgoing, iv, sent>>
    BY DEF DecryptStage, GetReturned, Restore, RequestKeyFrame, Publish, EndDecrypt
  <1>1. CompressType' /\ LinkType' /\ OutgoingType'
    BY <1>0 DEF CompressType, LinkType, OutgoingType, Drops
  <1>2. CASE GetReturned
    <2>1. ReturnedType'
      BY <1>2, GetType DEF GetReturned, ReturnedType
    <2>2. Got(returned) \in Packets \cup {NoItem}
      BY GetType DEF ReturnedType
    <2>3. DecryptType'
      BY <1>2, <2>2 DEF GetReturned, AllPcs
    <2> QED BY <1>0, <1>1, <1>2, <2>1, <2>3 DEF GetReturned, KeyType, HistoryType
  <1>3. CASE Restore
    <2>1. decrypt.item.frame \in Frames
      BY <1>3 DEF Restore, Packets
    <2>2. HistoryType'
      <3>1. Append(decoded, decrypt.item.frame) \in Seq(Frames)
        BY <2>1, AppendProperties DEF HistoryType
      <3> QED BY <1>0, <1>3, <3>1 DEF Restore, HistoryType
    <2>3. DecryptType'
      BY <1>3 DEF Restore, AllPcs
    <2>4. stats' \in StatsRecord
      <3>1. [stats EXCEPT !.failed = @ + 1] \in StatsRecord
        BY DEF StatsRecord
      <3>2. [stats EXCEPT !.waiting = @ + 1] \in StatsRecord
        BY DEF StatsRecord
      <3> QED BY <1>3, <3>1, <3>2 DEF Restore
    <2>5. KeyType'
      BY <1>3 DEF Restore, KeyType
    <2> QED BY <1>0, <1>1, <1>3, <2>2, <2>3, <2>4, <2>5 DEF Restore, ReturnedType
  <1>4. CASE RequestKeyFrame
    <2>1. DecryptType'
      BY <1>4 DEF RequestKeyFrame, AllPcs
    <2> QED BY <1>0, <1>1, <1>4, <2>1 DEF RequestKeyFrame, KeyType, HistoryType, ReturnedType
  <1>5. CASE Publish
    <2>1. DecryptType'
      BY <1>5 DEF Publish, AllPcs
    <2>2. stats' \in StatsRecord
      BY <1>5 DEF Publish, StatsRecord
    <2> QED BY <1>0, <1>1, <1>5, <2>1, <2>2 DEF Publish, KeyType, HistoryType, ReturnedType
  <1>6. CASE EndDecrypt
    <2>1. DecryptType'
      BY <1>6 DEF EndDecrypt, AllPcs, ErrorPcs
    <2>2. Dropped \in Nat
      BY DEF Dropped, SourceRecord, OutgoingType, Queue
    <2>3. stats' \in StatsRecord
      BY <1>6, <2>2 DEF EndDecrypt, StatsRecord
    <2> QED BY <1>0, <1>1, <1>6, <2>1, <2>3 DEF EndDecrypt, KeyType, HistoryType, ReturnedType
  <1> QED BY <1>2, <1>3, <1>4, <1>5, <1>6 DEF DecryptStage

(* The source and the main thread.                                             *)
Others == Grab \/ Window \/ HoldEnds \/ UserCloses \/ Terminated \/ UNCHANGED vars

LEMMA OtherSteps ==
  ASSUME StreamType, Others
  PROVE  /\ UNCHANGED <<args, compress, wantKey, link, iv, decrypt, waitingKey, stats, sent, decoded>>
         /\ \/ outgoing' = outgoing /\ returned' = returned
            \/ outgoing' = Abort(outgoing) /\ returned' = returned
            \/ outgoing' = outgoing /\ returned' = Abort(returned)
         /\ source' \in SourceRecord
  <1>0. source \in SourceRecord
    BY DEF StreamType
  <1>1. CASE Grab
    <2>1. UNCHANGED <<args, compress, wantKey, link, iv, decrypt, waitingKey, stats, sent, decoded, outgoing, returned>>
      BY <1>1 DEF Grab
    <2>2. [source EXCEPT !.running = FALSE] \in SourceRecord
      BY <1>0 DEF SourceRecord
    <2>3. \A n \in Nat : [source EXCEPT !.given = @ + 1, !.slot = TRUE, !.dropped = @ + n] \in SourceRecord
      <3>1. source.given + 1 \in Nat /\ \A n \in Nat : source.dropped + n \in Nat
        BY <1>0 DEF SourceRecord
      <3> QED BY <1>0, <3>1, Zenon DEF SourceRecord
    <2>4. (IF source.slot /\ ~args.fps THEN 1 ELSE 0) \in Nat
      OBVIOUS
    <2>5. source' \in SourceRecord
      BY <1>1, <2>2, <2>3, <2>4 DEF Grab
    <2> QED BY <2>1, <2>5
  <1>2. CASE Redraw \/ LoopEnds \/ HoldEnds \/ UserCloses \/ Terminated \/ UNCHANGED vars
    BY <1>0, <1>2 DEF Redraw, LoopEnds, HoldEnds, UserCloses, Terminated, vars
  <1>3. CASE Stop
    BY <1>0, <1>3 DEF Stop
  <1>4. CASE Finish
    <2>1. source' \in SourceRecord
      BY <1>0, <1>4 DEF Finish, SourceRecord
    <2> QED BY <1>4, <2>1 DEF Finish
  <1> QED BY <1>1, <1>2, <1>3, <1>4 DEF Others, Window

LEMMA StreamTypeOthers ==
  ASSUME StreamType, Others PROVE StreamType'
  <1>1. OutgoingType' /\ ReturnedType'
    BY OtherSteps, AbortType DEF StreamType, OutgoingType, ReturnedType, Drops
  <1>2. CompressType' /\ LinkType' /\ DecryptType' /\ KeyType' /\ HistoryType'
    BY OtherSteps DEF StreamType, CompressType, LinkType, DecryptType, KeyType, HistoryType
  <1> QED BY <1>1, <1>2, OtherSteps DEF StreamType

LEMMA NextCases ==
  ASSUME [Next]_vars
  PROVE  \/ CompressStage \/ LinkStage \/ DecryptStage \/ Others
         \/ \E t \in Threads : Error(t) \/ Handler(t)
  BY DEF Next, Others

LEMMA StreamTypeNext == StreamType /\ [Next]_vars => StreamType'
  BY NextCases, StreamTypeCompress, StreamTypeLink, StreamTypeDecrypt, StreamTypeOthers, StreamTypeHandlers

-------------------------------------------------------------------------------
(* IVs.  While the link stage may still send, its counter is past every IV it  *)
(* used; after the last value it never comes back to the exchange.             *)
IVInv ==
    /\ link.pc \in LinkLive => \A i \in DOMAIN sent : sent[i].first + sent[i].count <= iv
    /\ CameraIVsUnique

LEMMA LinkStaysDown ==
  ASSUME StreamType, [Next]_vars, link'.pc \in LinkLive PROVE link.pc \in LinkLive
  <1>1. CASE CompressStage
    BY <1>1 DEF CompressStage, Read, Encode, ClearRequest, PutOutgoing, EndCompress
  <1>2. CASE LinkStage
    <2>1. CASE Fill \/ GetFrame \/ Exchange \/ DecryptInIp \/ PutReturned
      BY <2>1 DEF Fill, GetFrame, Exchange, DecryptInIp, PutReturned, LinkLive
    <2>2. CASE EndLink
      BY <2>2 DEF EndLink, LinkLive, StreamType, LinkType, LinkRecord
    <2> QED BY <1>2, <2>1, <2>2 DEF LinkStage
  <1>3. CASE DecryptStage
    BY <1>3 DEF DecryptStage, GetReturned, Restore, RequestKeyFrame, Publish, EndDecrypt
  <1>4. CASE Others
    BY <1>4, OtherSteps
  <1>5. CASE \E t \in Threads : Error(t) \/ Handler(t)
    <2>1. PICK t \in Threads : Error(t) \/ Handler(t)
      BY <1>5
    <2>2. PICK pc \in ErrorPcs : SetPc(t, pc)
      BY <2>1, HandlerSteps
    <2>3. link'.pc = link.pc \/ link'.pc \in ErrorPcs
      BY <2>2, SetPcKeeps
    <2> QED BY <2>3 DEF LinkLive, ErrorPcs
  <1> QED BY <1>1, <1>2, <1>3, <1>4, <1>5, NextCases

LEMMA OnlyExchangeSends ==
  ASSUME StreamType, [Next]_vars, ~Exchange PROVE UNCHANGED <<iv, sent>>
  <1>1. CASE CompressStage
    BY <1>1 DEF CompressStage, Read, Encode, ClearRequest, PutOutgoing, EndCompress
  <1>2. CASE LinkStage
    BY <1>2 DEF LinkStage, Fill, GetFrame, DecryptInIp, PutReturned, EndLink
  <1>3. CASE DecryptStage
    BY <1>3 DEF DecryptStage, GetReturned, Restore, RequestKeyFrame, Publish, EndDecrypt
  <1>4. CASE Others
    BY <1>4, OtherSteps
  <1>5. CASE \E t \in Threads : Error(t) \/ Handler(t)
    BY <1>5, HandlerSteps
  <1> QED BY <1>1, <1>2, <1>3, <1>4, <1>5, NextCases

LEMMA IVInvNext == StreamType /\ IVInv /\ [Next]_vars => IVInv'
  <1> SUFFICES ASSUME StreamType, IVInv, [Next]_vars PROVE IVInv'
    OBVIOUS
  <1>1. CASE ~Exchange
    BY <1>1, OnlyExchangeSends, LinkStaysDown DEF IVInv, CameraIVsUnique
  <1>2. CASE Exchange
    <2> DEFINE message == [first |-> iv, count |-> link.item.chunks]
    <2>1. link.item.chunks \in Nat /\ iv \in Nat /\ sent \in Seq(Messages) /\ message \in Messages
      BY <1>2, CameraAssumption DEF Exchange, StreamType, LinkType, HistoryType, Frames, Messages
    <2>2. \A i \in DOMAIN sent : sent[i].first + sent[i].count <= iv /\ sent[i] \in Messages
      BY <1>2, <2>1 DEF Exchange, IVInv, LinkLive
    <2>3. CASE sent' = Append(sent, message)
      <3>1. /\ Len(sent') = Len(sent) + 1 /\ sent'[Len(sent) + 1] = message
            /\ \A i \in DOMAIN sent : sent'[i] = sent[i]
            /\ DOMAIN sent = 1..Len(sent) /\ DOMAIN sent' = 1..(Len(sent) + 1) /\ Len(sent) \in Nat
        BY <2>1, <2>3, AppendProperties, LenProperties
      <3>2. CameraIVsUnique'
        <4> SUFFICES ASSUME NEW i \in DOMAIN sent', NEW j \in DOMAIN sent', i < j
                     PROVE  sent'[i].first + sent'[i].count <= sent'[j].first
          BY DEF CameraIVsUnique
        <4>1. i \in DOMAIN sent /\ sent'[i] = sent[i]
          BY <3>1
        <4>2. CASE j \in DOMAIN sent
          BY <3>1, <4>1, <4>2 DEF IVInv, CameraIVsUnique
        <4>3. CASE j = Len(sent) + 1
          BY <2>2, <3>1, <4>1, <4>3
        <4> QED BY <3>1, <4>2, <4>3
      <3>3. ASSUME link'.pc \in LinkLive, NEW i \in DOMAIN sent'
            PROVE  sent'[i].first + sent'[i].count <= iv'
        <4>1. iv' = iv + link.item.chunks
          BY <1>2, <3>3 DEF Exchange, Advance, LinkLive, StreamType, LinkType, LinkRecord
        <4>2. CASE i \in DOMAIN sent
          BY <2>1, <2>2, <3>1, <4>1, <4>2 DEF Messages
        <4>3. CASE i = Len(sent) + 1
          BY <2>1, <3>1, <4>1, <4>3
        <4> QED BY <3>1, <3>3, <4>2, <4>3
      <3> QED BY <3>2, <3>3 DEF IVInv
    <2>4. CASE UNCHANGED <<iv, sent>>
      BY <2>4, LinkStaysDown DEF IVInv, CameraIVsUnique
    <2> QED BY <1>2, <2>3, <2>4 DEF Exchange
  <1> QED BY <1>1, <1>2

(* camera.py:307-316: no two messages of a run share an IV, for any number of  *)
(* frames and messages, whatever is dropped, tampered with or fails.           *)
THEOREM CameraIVsNeverMeet == Spec => []CameraIVsUnique
  <1>1. Init => StreamType /\ IVInv
    <2>1. Init => sent = <<>>
      BY DEF Init, StreamInit
    <2> QED BY <2>1, StreamTypeInit DEF IVInv, CameraIVsUnique
  <1>2. StreamType /\ IVInv /\ [Next]_vars => (StreamType /\ IVInv)'
    BY StreamTypeNext, IVInvNext
  <1>3. IVInv => CameraIVsUnique
    BY DEF IVInv
  <1> QED BY <1>1, <1>2, <1>3, PTL DEF Spec

-------------------------------------------------------------------------------
(* Frames.  A JPEG frame is a key frame; in H.264 the first one is.            *)
GoodFrames(jpeg) == {f \in Frames : f.key \/ (~jpeg /\ f.seq # 1)}

GoodPackets(jpeg) == {p \in Packets : p.frame \in GoodFrames(jpeg)}

CompressGood == compress.pc \in {"clear", "put"} => compress.frame \in GoodFrames(args.jpeg)

OutgoingGood == outgoing \in Queue(GoodFrames(args.jpeg))

LinkGood ==
    /\ link.pc = "exchange" => link.item \in GoodFrames(args.jpeg)
    /\ link.pc \in {"decrypt", "put"} => link.item \in GoodPackets(args.jpeg)

ReturnedGood == returned \in Queue(GoodPackets(args.jpeg))

DecryptGood == decrypt.pc \in {"restore", "request", "publish"} => decrypt.item \in GoodPackets(args.jpeg)

FramesGood == CompressGood /\ OutgoingGood /\ LinkGood /\ ReturnedGood /\ DecryptGood /\ decoded \in Seq(GoodFrames(args.jpeg))

LEMMA FramesGoodInit == Init => FramesGood
  <1> SUFFICES ASSUME NEW options \in Runs, args = options, StreamInit(options)
               PROVE  FramesGood
    BY DEF Init
  <1>1. options \in RunOptions
    BY CameraAssumption
  <1>2. Capacity(options) \in Nat /\ Drops(options) \in BOOLEAN
    BY <1>1 DEF Capacity, Preroll, Drops, RunOptions
  <1>3. OutgoingGood /\ ReturnedGood
    BY <1>2, NewQueueType DEF StreamInit, OutgoingGood, ReturnedGood
  <1>4. CompressGood /\ LinkGood /\ DecryptGood
    BY DEF StreamInit, CompressGood, LinkGood, DecryptGood
  <1>5. decoded \in Seq(GoodFrames(args.jpeg))
    BY EmptySeq DEF StreamInit
  <1> QED BY <1>3, <1>4, <1>5 DEF FramesGood

LEMMA FramesGoodCompress ==
  ASSUME StreamType, FramesGood, CompressStage PROVE FramesGood'
  <1>0. UNCHANGED <<args, link, returned, decrypt, decoded>>
    BY DEF CompressStage, Read, Encode, ClearRequest, PutOutgoing, EndCompress
  <1>1. LinkGood' /\ ReturnedGood' /\ DecryptGood' /\ (decoded \in Seq(GoodFrames(args.jpeg)))'
    BY <1>0 DEF FramesGood, LinkGood, ReturnedGood, DecryptGood
  <1>2. CASE Read
    <2>1. CompressGood'
      BY <1>2 DEF Read, CompressGood, StreamType, CompressType, CompressRecord
    <2> QED BY <1>0, <1>1, <1>2, <2>1 DEF Read, FramesGood, OutgoingGood
  <1>3. CASE Encode
    <2>1. PICK chunks \in ChunkCounts :
            compress' = [pc |-> IF Forced THEN "clear" ELSE "put", encoded |-> compress.encoded + 1,
                         frame |-> [seq |-> compress.encoded + 1, chunks |-> chunks,
                                    key |-> args.jpeg \/ Forced \/ compress.encoded = 0]]
      BY <1>3 DEF Encode
    <2>2. compress.encoded \in Nat
      BY DEF StreamType, CompressType, CompressRecord
    <2>3. (args.jpeg \/ Forced \/ compress.encoded = 0) \in BOOLEAN
      OBVIOUS
    <2> DEFINE frame == [seq |-> compress.encoded + 1, chunks |-> chunks, key |-> args.jpeg \/ Forced \/ compress.encoded = 0]
    <2>4. compress'.frame \in GoodFrames(args.jpeg)
      <3>1. frame \in Frames
        BY <2>2, <2>3 DEF Frames
      <3>2. frame.key \/ (~args.jpeg /\ frame.seq # 1)
        <4>1. frame.key <=> args.jpeg \/ Forced \/ compress.encoded = 0
          BY Zenon
        <4>2. compress.encoded # 0 => frame.seq # 1
          BY <2>2
        <4> HIDE DEF frame
        <4> QED BY <4>1, <4>2, Zenon
      <3> QED BY <2>1, <3>1, <3>2 DEF GoodFrames
    <2> QED BY <1>0, <1>1, <1>3, <2>4 DEF Encode, FramesGood, CompressGood, OutgoingGood
  <1>4. CASE ClearRequest
    <2>1. CompressGood'
      BY <1>0, <1>4 DEF ClearRequest, FramesGood, CompressGood, StreamType, CompressType, CompressRecord
    <2> QED BY <1>0, <1>1, <1>4, <2>1 DEF ClearRequest, FramesGood, OutgoingGood
  <1>5. CASE PutOutgoing
    <2>1. OutgoingGood'
      BY <1>0, <1>5, PutType DEF PutOutgoing, FramesGood, CompressGood, OutgoingGood
    <2>2. CompressGood'
      BY <1>5 DEF PutOutgoing, CompressGood, StreamType, CompressType, CompressRecord
    <2> QED BY <1>1, <2>1, <2>2 DEF FramesGood
  <1>6. CASE EndCompress
    <2>1. OutgoingGood'
      BY <1>0, <1>6, CloseType DEF EndCompress, FramesGood, OutgoingGood
    <2>2. CompressGood'
      BY <1>6 DEF EndCompress, CompressGood, StreamType, CompressType, CompressRecord
    <2> QED BY <1>1, <2>1, <2>2 DEF FramesGood
  <1> QED BY <1>2, <1>3, <1>4, <1>5, <1>6 DEF CompressStage

LEMMA FramesGoodLink ==
  ASSUME StreamType, FramesGood, LinkStage PROVE FramesGood'
  <1>0. UNCHANGED <<args, compress, decrypt, decoded>>
    BY DEF LinkStage, Fill, GetFrame, Exchange, DecryptInIp, PutReturned, EndLink
  <1>1. CompressGood' /\ DecryptGood' /\ (decoded \in Seq(GoodFrames(args.jpeg)))'
    BY <1>0 DEF FramesGood, CompressGood, DecryptGood
  <1>2. OutgoingGood'
    <2>1. CASE GetFrame
      BY <1>0, <2>1, GetType DEF GetFrame, FramesGood, OutgoingGood
    <2>2. CASE EndLink
      BY <1>0, <2>2, CloseType DEF EndLink, FramesGood, OutgoingGood
    <2>3. CASE Fill \/ Exchange \/ DecryptInIp \/ PutReturned
      BY <1>0, <2>3 DEF Fill, Exchange, DecryptInIp, PutReturned, FramesGood, OutgoingGood
    <2> QED BY <2>1, <2>2, <2>3 DEF LinkStage
  <1>3. ReturnedGood'
    <2>1. CASE PutReturned
      BY <1>0, <2>1, PutType DEF PutReturned, FramesGood, LinkGood, ReturnedGood
    <2>2. CASE EndLink
      BY <1>0, <2>2, CloseType DEF EndLink, FramesGood, ReturnedGood
    <2>3. CASE Fill \/ Exchange \/ DecryptInIp \/ GetFrame
      BY <1>0, <2>3 DEF Fill, Exchange, DecryptInIp, GetFrame, FramesGood, ReturnedGood
    <2> QED BY <2>1, <2>2, <2>3 DEF LinkStage
  <1>4. LinkGood'
    <2>0. link \in LinkRecord
      BY DEF StreamType, LinkType
    <2>1. CASE GetFrame
      <3>1. Got(outgoing) # NoItem => Got(outgoing) \in GoodFrames(args.jpeg)
        BY GetType DEF FramesGood, OutgoingGood
      <3> QED BY <1>0, <2>0, <2>1, <3>1 DEF GetFrame, LinkGood, LinkRecord
    <2>2. CASE Exchange
      <3>1. link.item \in GoodFrames(args.jpeg)
        BY <2>2 DEF Exchange, FramesGood, LinkGood
      <3>2. [frame |-> link.item, pass |-> ~Tampered(link.sent + 1)] \in GoodPackets(args.jpeg)
        BY <3>1 DEF GoodPackets, GoodFrames, Packets
      <3>3. CASE link' = [link EXCEPT !.pc = "except"]
        BY <2>0, <3>3 DEF LinkGood, LinkRecord
      <3>4. CASE link' = [sent |-> link.sent + 1, pc |-> IF args.fpga THEN "decrypt" ELSE "put",
                          item |-> [frame |-> link.item, pass |-> ~Tampered(link.sent + 1)]]
        BY <1>0, <3>2, <3>4 DEF LinkGood
      <3> QED BY <2>2, <3>3, <3>4 DEF Exchange
    <2>3. CASE Fill
      BY <2>0, <2>3 DEF Fill, LinkGood, LinkRecord
    <2>4. CASE DecryptInIp
      BY <1>0, <2>0, <2>4 DEF DecryptInIp, FramesGood, LinkGood, LinkRecord
    <2>5. CASE PutReturned
      BY <2>0, <2>5 DEF PutReturned, LinkGood, LinkRecord
    <2>6. CASE EndLink
      BY <2>0, <2>6 DEF EndLink, LinkGood, LinkRecord
    <2> QED BY <2>1, <2>2, <2>3, <2>4, <2>5, <2>6 DEF LinkStage
  <1> QED BY <1>1, <1>2, <1>3, <1>4 DEF FramesGood

LEMMA FramesGoodDecrypt ==
  ASSUME StreamType, FramesGood, DecryptStage PROVE FramesGood'
  <1>0. UNCHANGED <<args, compress, link, outgoing>> /\ decrypt \in DecryptRecord
    BY DEF DecryptStage, GetReturned, Restore, RequestKeyFrame, Publish, EndDecrypt, StreamType, DecryptType
  <1>1. CompressGood' /\ LinkGood' /\ OutgoingGood'
    BY <1>0 DEF FramesGood, CompressGood, LinkGood, OutgoingGood
  <1>2. CASE GetReturned
    <2>1. ReturnedGood'
      BY <1>0, <1>2, GetType DEF GetReturned, FramesGood, ReturnedGood
    <2>2. Got(returned) # NoItem => Got(returned) \in GoodPackets(args.jpeg)
      BY GetType DEF FramesGood, ReturnedGood
    <2>3. DecryptGood'
      BY <1>0, <1>2, <2>2 DEF GetReturned, DecryptGood, DecryptRecord
    <2> QED BY <1>0, <1>1, <1>2, <2>1, <2>3 DEF GetReturned, FramesGood
  <1>3. CASE Restore
    <2>1. decrypt.item \in GoodPackets(args.jpeg)
      BY <1>3 DEF Restore, FramesGood, DecryptGood
    <2>2. Append(decoded, decrypt.item.frame) \in Seq(GoodFrames(args.jpeg))
      BY <2>1, AppendProperties DEF FramesGood, GoodPackets
    <2>3. DecryptGood'
      BY <1>0, <1>3, <2>1 DEF Restore, DecryptGood, DecryptRecord
    <2> QED BY <1>0, <1>1, <1>3, <2>2, <2>3 DEF Restore, FramesGood, ReturnedGood
  <1>4. CASE RequestKeyFrame
    <2>1. DecryptGood'
      BY <1>0, <1>4 DEF RequestKeyFrame, FramesGood, DecryptGood, DecryptRecord
    <2> QED BY <1>0, <1>1, <1>4, <2>1 DEF RequestKeyFrame, FramesGood, ReturnedGood
  <1>5. CASE Publish
    <2>1. DecryptGood'
      BY <1>0, <1>5 DEF Publish, DecryptGood, DecryptRecord
    <2> QED BY <1>0, <1>1, <1>5, <2>1 DEF Publish, FramesGood, ReturnedGood
  <1>6. CASE EndDecrypt
    <2>1. DecryptGood'
      BY <1>0, <1>6 DEF EndDecrypt, DecryptGood, DecryptRecord
    <2> QED BY <1>0, <1>1, <1>6, <2>1 DEF EndDecrypt, FramesGood, ReturnedGood
  <1> QED BY <1>2, <1>3, <1>4, <1>5, <1>6 DEF DecryptStage

(* What an error, the source or the main thread leaves of the stages: each pc  *)
(* as it was or in the handler, and queues as they were or aborted.            *)
Bystander ==
    /\ UNCHANGED <<args, wantKey, iv, waitingKey, stats, sent, decoded>>
    /\ compress'.frame = compress.frame /\ compress'.encoded = compress.encoded
    /\ link'.item = link.item /\ link'.sent = link.sent
    /\ decrypt'.item = decrypt.item
    /\ compress'.pc = compress.pc \/ (compress'.pc \in ErrorPcs /\ compress.pc \in {"read", "encode"} \cup ErrorPcs)
    /\ link'.pc = link.pc \/ link'.pc \in ErrorPcs
    /\ decrypt'.pc = decrypt.pc \/ decrypt'.pc \in ErrorPcs
    /\ outgoing' = outgoing \/ outgoing' = Abort(outgoing)
    /\ returned' = returned \/ returned' = Abort(returned)

LEMMA HandlerIsBystander ==
  ASSUME StreamType, NEW t \in Threads, Error(t) \/ Handler(t) PROVE Bystander
  <1>1. PICK pc \in ErrorPcs : SetPc(t, pc)
    BY HandlerSteps
  <1>2. t = "compress" => compress.pc \in {"read", "encode"} \cup ErrorPcs
    BY HandlerSteps DEF Pc, Raising
  <1>3. t # "compress" => compress' = compress
    BY <1>1 DEF SetPc
  <1> QED BY <1>1, <1>2, <1>3, HandlerSteps, SetPcKeeps DEF Bystander

LEMMA OtherIsBystander ==
  ASSUME StreamType, Others PROVE Bystander
  BY OtherSteps DEF Bystander

LEMMA NextCasesShort ==
  ASSUME StreamType, [Next]_vars
  PROVE  CompressStage \/ LinkStage \/ DecryptStage \/ Bystander
  BY NextCases, HandlerIsBystander, OtherIsBystander

LEMMA FramesGoodBystander ==
  ASSUME StreamType, FramesGood, Bystander PROVE FramesGood'
  <1>1. OutgoingGood' /\ ReturnedGood'
    BY CloseType DEF Bystander, FramesGood, OutgoingGood, ReturnedGood
  <1>2. CompressGood' /\ LinkGood' /\ DecryptGood'
    BY DEF Bystander, FramesGood, CompressGood, LinkGood, DecryptGood, ErrorPcs
  <1> QED BY <1>1, <1>2 DEF Bystander, FramesGood

LEMMA FramesGoodNext == StreamType /\ FramesGood /\ [Next]_vars => FramesGood'
  BY NextCasesShort, FramesGoodCompress, FramesGoodLink, FramesGoodDecrypt, FramesGoodBystander

-------------------------------------------------------------------------------
(* Order.  An H.264 frame is numbered as it is encoded; nothing is dropped, so *)
(* the number of a frame anywhere is known from the counts of the stages.      *)
Hand == IF compress.pc \in {"clear", "put"} THEN 1 ELSE 0

Base == link.sent + (IF link.pc = "exchange" THEN 1 ELSE 0)

LinkHand == IF link.pc \in {"decrypt", "put"} THEN 1 ELSE 0

Done == stats.frames + (IF decrypt.pc \in {"restore", "request", "publish"} THEN 1 ELSE 0)

Outgoing(i) == outgoing.items[i].seq

Returned(i) == returned.items[i].frame.seq

CompressOrder == compress.pc \in {"clear", "put"} => compress.frame.seq = compress.encoded

OutgoingOrder ==
    link.pc \in LinkLive =>
      /\ \A i \in 1..Len(outgoing.items) : Outgoing(i) = Base + i
      /\ ~outgoing.closed => compress.encoded - Hand = Base + Len(outgoing.items)

LinkOrder ==
    /\ link.pc = "exchange" => link.item.seq = link.sent + 1
    /\ link.pc \in {"decrypt", "put"} => link.item.frame.seq = link.sent

SendOrder == ~args.jpeg => CompressOrder /\ OutgoingOrder /\ LinkOrder

LEMMA SendOrderInit == Init => SendOrder
  <1> SUFFICES ASSUME NEW options \in Runs, args = options, StreamInit(options)
               PROVE  CompressOrder /\ OutgoingOrder /\ LinkOrder
    BY DEF Init, SendOrder
  <1>1. /\ compress.pc = "read" /\ compress.encoded = 0 /\ link.pc = "preroll" /\ link.sent = 0
        /\ outgoing.items = <<>>
    BY DEF StreamInit, NewQueue
  <1>2. Len(outgoing.items) = 0 /\ Hand = 0 /\ Base = 0
    BY <1>1 DEF Hand, Base
  <1>3. CompressOrder /\ LinkOrder
    BY <1>1 DEF CompressOrder, LinkOrder
  <1>4. OutgoingOrder
    BY <1>1, <1>2 DEF OutgoingOrder
  <1> QED BY <1>3, <1>4

LEMMA SendOrderCompress ==
  ASSUME StreamType, SendOrder, ~args.jpeg, CompressStage
  PROVE  CompressOrder' /\ OutgoingOrder' /\ LinkOrder'
  <1>0. /\ UNCHANGED <<args, link>> /\ compress \in CompressRecord /\ outgoing \in Queue(Frames) /\ ~outgoing.dropOldest
        /\ CompressOrder /\ OutgoingOrder /\ LinkOrder
    BY DEF CompressStage, Read, Encode, ClearRequest, PutOutgoing, EndCompress, StreamType, CompressType, OutgoingType,
           Drops, SendOrder
  <1>1. LinkOrder' /\ Base' = Base
    BY <1>0 DEF LinkOrder, Base
  <1>2. CASE Read
    <2>1. outgoing' = outgoing /\ compress'.encoded = compress.encoded /\ Hand = 0 /\ Hand' = 0 /\ CompressOrder'
      BY <1>0, <1>2 DEF Read, Hand, CompressRecord, CompressOrder
    <2> QED BY <1>0, <1>1, <2>1 DEF OutgoingOrder, Outgoing
  <1>3. CASE Encode
    <2>1. /\ outgoing' = outgoing /\ compress'.encoded = compress.encoded + 1
          /\ Hand = 0 /\ Hand' = 1 /\ compress'.frame.seq = compress.encoded + 1
      BY <1>0, <1>3 DEF Encode, Hand
    <2>2. compress.encoded \in Nat
      BY <1>0 DEF CompressRecord
    <2> QED BY <1>0, <1>1, <2>1, <2>2 DEF OutgoingOrder, Outgoing, CompressOrder
  <1>4. CASE ClearRequest
    <2>1. /\ outgoing' = outgoing /\ compress'.encoded = compress.encoded /\ Hand = 1 /\ Hand' = 1
          /\ compress'.frame = compress.frame
      BY <1>0, <1>4 DEF ClearRequest, Hand, CompressRecord
    <2> QED BY <1>0, <1>1, <1>4, <2>1 DEF ClearRequest, OutgoingOrder, Outgoing, CompressOrder
  <1>5. CASE PutOutgoing
    <2>1. /\ compress'.encoded = compress.encoded /\ Hand = 1 /\ Hand' = 0 /\ CompressOrder'
          /\ compress.frame \in Frames /\ compress.frame.seq = compress.encoded
      BY <1>0, <1>5 DEF PutOutgoing, Hand, CompressRecord, CompressOrder, StreamType, CompressType
    <2>2. outgoing' = Put(outgoing, compress.frame) /\ ~PutWaits(outgoing)
      BY <1>5 DEF PutOutgoing
    <2>3. CASE outgoing.closed
      BY <1>0, <1>1, <2>1, <2>2, <2>3, PutType DEF OutgoingOrder, Outgoing
    <2>4. CASE ~outgoing.closed
      <3>1. outgoing'.items = Append(outgoing.items, compress.frame)
        BY <1>0, <2>1, <2>2, <2>4, PutAppends
      <3>2. outgoing.items \in Seq(Frames)
        BY <1>0 DEF Queue
      <3>3. /\ Len(outgoing'.items) = Len(outgoing.items) + 1 /\ Len(outgoing.items) \in Nat
            /\ outgoing'.items[Len(outgoing.items) + 1] = compress.frame
            /\ \A i \in 1..Len(outgoing.items) : outgoing'.items[i] = outgoing.items[i]
        BY <2>1, <3>1, <3>2, AppendProperties, LenProperties
      <3>4. compress.encoded \in Nat /\ Base \in Nat
        BY <1>0 DEF CompressRecord, Base, StreamType, LinkType, LinkRecord
      <3>5. ASSUME link'.pc \in LinkLive PROVE OutgoingOrder'
        <4>1. /\ \A i \in 1..Len(outgoing.items) : outgoing.items[i].seq = Base + i
              /\ compress.encoded - 1 = Base + Len(outgoing.items)
          BY <1>0, <2>1, <2>4, <3>5 DEF OutgoingOrder, Outgoing
        <4>2. compress.encoded = Base + Len(outgoing'.items)
          <5>1. \A e, b, n \in Nat : e - 1 = b + n => e = b + (n + 1)
            OBVIOUS
          <5>2. compress.encoded \in Nat /\ Base \in Nat /\ Len(outgoing.items) \in Nat
            BY <3>3, <3>4
          <5>3. compress.encoded - 1 = Base + Len(outgoing.items)
            BY <4>1
          <5>4. Len(outgoing'.items) = Len(outgoing.items) + 1
            BY <3>3
          <5> HIDE DEF Base
          <5>5. compress.encoded = Base + (Len(outgoing.items) + 1)
            BY <5>1, <5>2, <5>3
          <5> QED BY <5>4, <5>5
        <4>3. \A i \in 1..Len(outgoing'.items) : outgoing'.items[i].seq = Base + i
          <5> TAKE i \in 1..Len(outgoing'.items)
          <5>1. CASE i \in 1..Len(outgoing.items)
            BY <3>3, <4>1, <5>1
          <5>2. CASE i = Len(outgoing.items) + 1
            BY <2>1, <3>3, <4>2, <5>2
          <5> QED BY <3>3, <5>1, <5>2
        <4> QED BY <1>1, <2>1, <3>4, <4>2, <4>3 DEF OutgoingOrder, Outgoing
      <3> QED BY <1>1, <2>1, <3>5 DEF OutgoingOrder
    <2> QED BY <2>3, <2>4
  <1>6. CASE EndCompress
    <2>1. outgoing'.items = outgoing.items /\ outgoing'.closed /\ CompressOrder'
      BY <1>0, <1>6, CloseType DEF EndCompress, CompressOrder, CompressRecord
    <2> QED BY <1>0, <1>1, <2>1 DEF OutgoingOrder, Outgoing
  <1> QED BY <1>2, <1>3, <1>4, <1>5, <1>6 DEF CompressStage

LEMMA SendOrderLink ==
  ASSUME StreamType, SendOrder, ~args.jpeg, LinkStage
  PROVE  CompressOrder' /\ OutgoingOrder' /\ LinkOrder'
  <1>0. /\ UNCHANGED <<args, compress>> /\ link \in LinkRecord /\ outgoing \in Queue(Frames)
        /\ CompressOrder /\ OutgoingOrder /\ LinkOrder
    BY DEF LinkStage, Fill, GetFrame, Exchange, DecryptInIp, PutReturned, EndLink, StreamType, LinkType, OutgoingType,
           SendOrder
  <1>1. CompressOrder' /\ Hand' = Hand /\ compress'.encoded = compress.encoded /\ link.sent \in Nat
    BY <1>0 DEF CompressOrder, Hand, LinkRecord
  <1>2. CASE Fill \/ DecryptInIp \/ PutReturned
    <2>1. outgoing' = outgoing /\ link.pc \in LinkLive /\ link'.sent = link.sent /\ Base' = Base /\ LinkOrder'
      BY <1>0, <1>2 DEF Fill, DecryptInIp, PutReturned, LinkLive, LinkRecord, LinkOrder, Base
    <2> QED BY <1>0, <1>1, <2>1 DEF OutgoingOrder, Outgoing
  <1>3. CASE GetFrame
    <2>1. CASE link'.pc = "abort"
      BY <1>1, <2>1 DEF OutgoingOrder, LinkOrder, LinkLive
    <2>2. CASE link'.pc # "abort"
      <3>1. /\ outgoing' = Get(outgoing) /\ Got(outgoing) # NoItem
            /\ link' = [link EXCEPT !.item = Got(outgoing), !.pc = "exchange"]
        BY <1>0, <1>3, <2>2 DEF GetFrame, LinkRecord
      <3>2. outgoing.items # <<>> /\ Got(outgoing) = outgoing.items[1] /\ Len(outgoing.items) >= 1
        BY <1>0, <3>1, GetType
      <3>3. /\ Len(outgoing'.items) = Len(outgoing.items) - 1 /\ outgoing'.closed = outgoing.closed
            /\ \A i \in 1..Len(outgoing'.items) : outgoing'.items[i] = outgoing.items[i + 1]
        BY <1>0, <3>1, <3>2, GetMoves, GetType
      <3>4. Len(outgoing.items) \in Nat
        BY <1>0, LenProperties DEF Queue
      <3>5. link.pc = "get" /\ link'.pc = "exchange" /\ link'.sent = link.sent /\ link'.item = outgoing.items[1]
        BY <1>0, <1>3, <3>1, <3>2 DEF GetFrame, LinkRecord
      <3>6. Base = link.sent /\ Base' = link.sent + 1
        BY <1>1, <3>5 DEF Base
      <3>7. \A i \in 1..Len(outgoing.items) : outgoing.items[i].seq = link.sent + i
        BY <1>0, <3>5, <3>6 DEF OutgoingOrder, Outgoing, LinkLive
      <3>8. LinkOrder'
        BY <3>2, <3>4, <3>5, <3>7 DEF LinkOrder
      <3>9. \A i \in 1..Len(outgoing'.items) : outgoing'.items[i].seq = link.sent + 1 + i
        <4> TAKE i \in 1..Len(outgoing'.items)
        <4>1. i + 1 \in 1..Len(outgoing.items) /\ i \in Nat
          BY <3>3, <3>4
        <4>2. outgoing.items[i + 1].seq = link.sent + (i + 1)
          BY <3>7, <4>1
        <4>3. outgoing'.items[i].seq = link.sent + (i + 1)
          BY <3>3, <4>2
        <4> QED BY <1>1, <4>1, <4>3
      <3>10. ~outgoing'.closed => compress.encoded - Hand = link.sent + 1 + Len(outgoing'.items)
        <4>1. ~outgoing.closed => compress.encoded - Hand = link.sent + Len(outgoing.items)
          BY <1>0, <3>5, <3>6 DEF OutgoingOrder, LinkLive
        <4>2. \A e, h, n, b \in Int : e - h = b + n => e - h = b + 1 + (n - 1)
          OBVIOUS
        <4>3. compress.encoded \in Int /\ Hand \in Int /\ link.sent \in Int /\ Len(outgoing.items) \in Int
          BY <1>0, <1>1, <3>4 DEF StreamType, CompressType, CompressRecord, Hand
        <4>4. ~outgoing.closed => compress.encoded - Hand = link.sent + 1 + (Len(outgoing.items) - 1)
          BY <4>1, <4>2, <4>3
        <4> QED BY <3>3, <4>4
      <3> QED BY <1>0, <1>1, <3>6, <3>8, <3>9, <3>10 DEF OutgoingOrder, Outgoing
    <2> QED BY <2>1, <2>2
  <1>4. CASE Exchange
    <2>1. CASE link'.pc = "except"
      BY <1>1, <2>1 DEF OutgoingOrder, LinkOrder, LinkLive
    <2>2. CASE link'.pc # "except"
      <3>1. /\ link'.pc \in {"decrypt", "put"} /\ link'.sent = link.sent + 1 /\ link'.item.frame = link.item
            /\ outgoing' = outgoing /\ link.pc = "exchange"
        BY <1>0, <1>4, <2>2 DEF Exchange, LinkRecord
      <3>2. Base' = Base /\ LinkOrder'
        BY <1>0, <1>1, <3>1 DEF Base, LinkOrder
      <3> QED BY <1>0, <1>1, <3>1, <3>2 DEF OutgoingOrder, Outgoing, LinkLive
    <2> QED BY <2>1, <2>2
  <1>5. CASE EndLink
    <2>1. link'.pc \in {"close", "done"}
      BY <1>0, <1>5 DEF EndLink, LinkRecord
    <2> QED BY <1>1, <2>1 DEF OutgoingOrder, LinkOrder, LinkLive
  <1> QED BY <1>2, <1>3, <1>4, <1>5 DEF LinkStage

LEMMA SendOrderNext == StreamType /\ SendOrder /\ [Next]_vars => SendOrder'
  <1> SUFFICES ASSUME StreamType, SendOrder, [Next]_vars, ~args'.jpeg
               PROVE  CompressOrder' /\ OutgoingOrder' /\ LinkOrder'
    BY DEF SendOrder
  <1>1. CASE CompressStage
    <2>1. args' = args
      BY <1>1 DEF CompressStage, Read, Encode, ClearRequest, PutOutgoing, EndCompress
    <2> QED BY <1>1, <2>1, SendOrderCompress
  <1>2. CASE LinkStage
    <2>1. args' = args
      BY <1>2 DEF LinkStage, Fill, GetFrame, Exchange, DecryptInIp, PutReturned, EndLink
    <2> QED BY <1>2, <2>1, SendOrderLink
  <1>3. CASE DecryptStage
    <2>1. UNCHANGED <<args, compress, outgoing, link>>
      BY <1>3 DEF DecryptStage, GetReturned, Restore, RequestKeyFrame, Publish, EndDecrypt
    <2> QED BY <2>1 DEF SendOrder, CompressOrder, OutgoingOrder, LinkOrder, Outgoing, Base, Hand
  <1>4. CASE Bystander
    <2>0. CompressOrder /\ OutgoingOrder /\ LinkOrder /\ args' = args /\ outgoing \in Queue(Frames)
      BY <1>4 DEF Bystander, SendOrder, StreamType, OutgoingType
    <2>1. CompressOrder' /\ LinkOrder' /\ Hand' = Hand /\ compress'.encoded = compress.encoded
      BY <1>4, <2>0 DEF Bystander, CompressOrder, LinkOrder, Hand, ErrorPcs
    <2>2. link'.pc \in LinkLive => link.pc \in LinkLive /\ Base' = Base
      BY <1>4 DEF Bystander, LinkLive, ErrorPcs, Base
    <2>3. outgoing' = outgoing \/ (outgoing'.items = <<>> /\ outgoing'.closed)
      BY <1>4, <2>0, CloseType DEF Bystander
    <2> QED BY <2>0, <2>1, <2>2, <2>3, EmptySeq DEF OutgoingOrder, Outgoing
  <1> QED BY <1>1, <1>2, <1>3, <1>4, NextCasesShort

-------------------------------------------------------------------------------
DecryptLive == {"get", "restore", "request", "publish"}

ReturnedOrder ==
    decrypt.pc \in DecryptLive =>
      /\ \A i \in 1..Len(returned.items) : Returned(i) = Done + i
      /\ link.pc \in LinkLive /\ ~returned.closed => link.sent - LinkHand = Done + Len(returned.items)

ItemOrder == decrypt.pc \in {"restore", "request", "publish"} => decrypt.item.frame.seq = stats.frames + 1

ReturnOrder == ~args.jpeg => ReturnedOrder /\ ItemOrder

LEMMA ReturnOrderInit == Init => ReturnOrder
  <1> SUFFICES ASSUME NEW options \in Runs, args = options, StreamInit(options)
               PROVE  ReturnedOrder /\ ItemOrder
    BY DEF Init, ReturnOrder
  <1>1. /\ decrypt.pc = "get" /\ stats.frames = 0 /\ link.pc = "preroll" /\ link.sent = 0
        /\ returned.items = <<>>
    BY DEF StreamInit, NewQueue
  <1>2. Len(returned.items) = 0 /\ LinkHand = 0 /\ Done = 0
    BY <1>1 DEF LinkHand, Done
  <1>3. ItemOrder
    BY <1>1 DEF ItemOrder
  <1>4. ReturnedOrder
    BY <1>1, <1>2 DEF ReturnedOrder
  <1> QED BY <1>3, <1>4

LEMMA ReturnOrderLink ==
  ASSUME StreamType, SendOrder, ReturnOrder, ~args.jpeg, LinkStage
  PROVE  ReturnedOrder' /\ ItemOrder'
  <1>0. /\ UNCHANGED <<decrypt, stats>> /\ link \in LinkRecord /\ returned \in Queue(Packets) /\ ~returned.dropOldest
        /\ ReturnedOrder /\ ItemOrder /\ LinkOrder
    BY DEF LinkStage, Fill, GetFrame, Exchange, DecryptInIp, PutReturned, EndLink, StreamType, LinkType, ReturnedType,
           SendOrder, ReturnOrder
  <1>1. ItemOrder' /\ Done' = Done
    BY <1>0 DEF ItemOrder, Done
  <1>2. link.sent \in Nat /\ stats.frames \in Nat /\ Done \in Nat
    BY <1>0 DEF LinkRecord, StreamType, StatsRecord, Done
  <1>3. CASE Fill \/ DecryptInIp
    <2>1. /\ returned' = returned /\ link.pc \in LinkLive /\ link'.sent = link.sent /\ LinkHand' = LinkHand
      BY <1>0, <1>3 DEF Fill, DecryptInIp, LinkLive, LinkRecord, LinkHand
    <2> QED BY <1>0, <1>1, <2>1 DEF ReturnedOrder, Returned
  <1>4. CASE GetFrame
    <2>1. /\ returned' = returned /\ link.pc \in LinkLive /\ link'.sent = link.sent /\ LinkHand' = LinkHand
      BY <1>0, <1>4 DEF GetFrame, LinkLive, LinkRecord, LinkHand
    <2> QED BY <1>0, <1>1, <2>1 DEF ReturnedOrder, Returned
  <1>5. CASE Exchange
    <2>1. returned' = returned /\ link.pc = "exchange" /\ LinkHand = 0
      BY <1>5 DEF Exchange, LinkHand
    <2>2. CASE link'.pc = "except"
      BY <1>0, <1>1, <2>1, <2>2 DEF ReturnedOrder, Returned, LinkLive
    <2>3. CASE link'.pc # "except"
      <3>1. link'.pc \in {"decrypt", "put"} /\ link'.sent = link.sent + 1
        BY <1>0, <1>5, <2>3 DEF Exchange, LinkRecord
      <3>2. link'.sent - LinkHand' = link.sent - LinkHand
        BY <1>2, <2>1, <3>1 DEF LinkHand
      <3> QED BY <1>0, <1>1, <2>1, <3>2 DEF ReturnedOrder, Returned, LinkLive
    <2> QED BY <2>2, <2>3
  <1>6. CASE PutReturned
    <2>1. /\ link.pc = "put" /\ link'.pc = "get" /\ link'.sent = link.sent /\ LinkHand = 1 /\ LinkHand' = 0
          /\ link.item \in Packets /\ link.item.frame.seq = link.sent
      BY <1>0, <1>6 DEF PutReturned, LinkHand, LinkRecord, LinkOrder, StreamType, LinkType
    <2>2. returned' = Put(returned, link.item) /\ ~PutWaits(returned)
      BY <1>6 DEF PutReturned
    <2>3. CASE returned.closed
      <3>1. returned' = returned
        BY <1>0, <2>1, <2>2, <2>3, PutType
      <3> QED BY <1>0, <1>1, <2>3, <3>1 DEF ReturnedOrder, Returned
    <2>4. CASE ~returned.closed
      <3>1. returned'.items = Append(returned.items, link.item)
        BY <1>0, <2>1, <2>2, <2>4, PutAppends
      <3>2. returned.items \in Seq(Packets)
        BY <1>0 DEF Queue
      <3>3. /\ Len(returned'.items) = Len(returned.items) + 1 /\ Len(returned.items) \in Nat
            /\ returned'.items[Len(returned.items) + 1] = link.item
            /\ \A i \in 1..Len(returned.items) : returned'.items[i] = returned.items[i]
        BY <2>1, <3>1, <3>2, AppendProperties, LenProperties
      <3>4. ASSUME decrypt.pc \in DecryptLive PROVE ReturnedOrder'
        <4>1. \A i \in 1..Len(returned.items) : returned.items[i].frame.seq = Done + i
          BY <1>0, <3>4 DEF ReturnedOrder, Returned
        <4>2. link.sent = Done + Len(returned'.items)
          <5>1. \A e, b, n \in Nat : e - 1 = b + n => e = b + (n + 1)
            OBVIOUS
          <5>2. link.sent \in Nat /\ Done \in Nat /\ Len(returned.items) \in Nat
            BY <1>2, <3>3
          <5>3. link.sent - 1 = Done + Len(returned.items)
            BY <1>0, <2>1, <2>4, <3>4 DEF ReturnedOrder, LinkLive
          <5>4. Len(returned'.items) = Len(returned.items) + 1
            BY <3>3
          <5>5. link.sent = Done + (Len(returned.items) + 1)
            BY <5>1, <5>2, <5>3
          <5> QED BY <5>4, <5>5
        <4>3. \A i \in 1..Len(returned'.items) : returned'.items[i].frame.seq = Done + i
          <5> TAKE i \in 1..Len(returned'.items)
          <5>1. CASE i \in 1..Len(returned.items)
            BY <3>3, <4>1, <5>1
          <5>2. CASE i = Len(returned.items) + 1
            BY <2>1, <3>3, <4>2, <5>2
          <5> QED BY <3>3, <5>1, <5>2
        <4>4. link'.sent - LinkHand' = Done + Len(returned'.items)
          BY <1>2, <2>1, <4>2
        <4> QED BY <1>1, <4>3, <4>4 DEF ReturnedOrder, Returned
      <3> QED BY <1>0, <1>1, <3>4 DEF ReturnedOrder
    <2> QED BY <2>3, <2>4
  <1>7. CASE EndLink
    <2>1. link'.pc \in {"close", "done"} /\ returned'.items = returned.items
      BY <1>0, <1>7, CloseType DEF EndLink, LinkRecord
    <2> QED BY <1>0, <1>1, <2>1 DEF ReturnedOrder, Returned, LinkLive
  <1> QED BY <1>3, <1>4, <1>5, <1>6, <1>7 DEF LinkStage

LEMMA ReturnOrderDecrypt ==
  ASSUME StreamType, ReturnOrder, ~args.jpeg, DecryptStage
  PROVE  ReturnedOrder' /\ ItemOrder'
  <1>0. /\ UNCHANGED link /\ decrypt \in DecryptRecord /\ returned \in Queue(Packets) /\ stats \in StatsRecord
        /\ ReturnedOrder /\ ItemOrder
    BY DEF DecryptStage, GetReturned, Restore, RequestKeyFrame, Publish, EndDecrypt, StreamType, DecryptType,
           ReturnedType, ReturnOrder
  <1>1. LinkHand' = LinkHand /\ link'.sent = link.sent /\ stats.frames \in Nat
    BY <1>0 DEF LinkHand, StatsRecord
  <1>2. CASE GetReturned
    <2>1. CASE Got(returned) = NoItem
      BY <1>0, <1>2, <2>1 DEF GetReturned, DecryptRecord, ReturnedOrder, ItemOrder, DecryptLive
    <2>2. CASE Got(returned) # NoItem
      <3>1. returned.items # <<>> /\ Got(returned) = returned.items[1] /\ Len(returned.items) >= 1
        BY <1>0, <2>2, GetType
      <3>2. /\ decrypt.pc = "get" /\ decrypt'.pc = "restore" /\ decrypt'.item = returned.items[1]
            /\ returned' = Get(returned) /\ stats' = stats
        BY <1>0, <1>2, <2>2, <3>1 DEF GetReturned, DecryptRecord
      <3>3. /\ Len(returned'.items) = Len(returned.items) - 1 /\ returned'.closed = returned.closed
            /\ \A i \in 1..Len(returned'.items) : returned'.items[i] = returned.items[i + 1]
        BY <1>0, <3>1, <3>2, GetMoves, GetType
      <3>4. Len(returned.items) \in Nat
        BY <1>0, LenProperties DEF Queue
      <3>5. Done = stats.frames /\ Done' = stats.frames + 1
        BY <1>1, <3>2 DEF Done
      <3>6. \A i \in 1..Len(returned.items) : returned.items[i].frame.seq = stats.frames + i
        BY <1>0, <3>2, <3>5 DEF ReturnedOrder, Returned, DecryptLive
      <3>7. ItemOrder'
        BY <3>1, <3>2, <3>4, <3>6 DEF ItemOrder
      <3>8. \A i \in 1..Len(returned'.items) : returned'.items[i].frame.seq = stats.frames + 1 + i
        <4> TAKE i \in 1..Len(returned'.items)
        <4>1. i + 1 \in 1..Len(returned.items) /\ i \in Nat
          BY <3>3, <3>4
        <4>2. returned.items[i + 1].frame.seq = stats.frames + (i + 1)
          BY <3>6, <4>1
        <4>3. returned'.items[i].frame.seq = stats.frames + (i + 1)
          BY <3>3, <4>2
        <4> QED BY <1>1, <4>1, <4>3
      <3>9. link'.pc \in LinkLive /\ ~returned'.closed => link.sent - LinkHand = stats.frames + 1 + Len(returned'.items)
        <4>1. link.pc \in LinkLive /\ ~returned.closed => link.sent - LinkHand = stats.frames + Len(returned.items)
          BY <1>0, <3>2, <3>5 DEF ReturnedOrder, DecryptLive
        <4>2. \A e, h, n, b \in Int : e - h = b + n => e - h = b + 1 + (n - 1)
          OBVIOUS
        <4>3. link.sent \in Int /\ LinkHand \in Int /\ stats.frames \in Int /\ Len(returned.items) \in Int
          BY <1>0, <1>1, <3>4 DEF StreamType, LinkType, LinkRecord, LinkHand
        <4>4. link.pc \in LinkLive /\ ~returned.closed => link.sent - LinkHand = stats.frames + 1 + (Len(returned.items) - 1)
          BY <4>1, <4>2, <4>3
        <4> QED BY <1>0, <3>3, <4>4
      <3> QED BY <1>1, <3>5, <3>7, <3>8, <3>9 DEF ReturnedOrder, Returned
    <2> QED BY <2>1, <2>2
  <1>3. CASE Restore
    <2>1. /\ decrypt.pc = "restore" /\ decrypt'.pc \in {"request", "publish"} /\ decrypt'.item = decrypt.item
          /\ returned' = returned /\ stats'.frames = stats.frames
      BY <1>0, <1>3 DEF Restore, DecryptRecord, StatsRecord
    <2>2. Done' = Done /\ ItemOrder'
      BY <1>0, <2>1 DEF Done, ItemOrder
    <2> QED BY <1>0, <1>1, <2>1, <2>2 DEF ReturnedOrder, Returned, DecryptLive
  <1>4. CASE RequestKeyFrame
    <2>1. /\ decrypt.pc = "request" /\ decrypt'.pc = "publish" /\ decrypt'.item = decrypt.item
          /\ returned' = returned /\ stats' = stats
      BY <1>0, <1>4 DEF RequestKeyFrame, DecryptRecord
    <2>2. Done' = Done /\ ItemOrder'
      BY <1>0, <2>1 DEF Done, ItemOrder
    <2> QED BY <1>0, <1>1, <2>1, <2>2 DEF ReturnedOrder, Returned, DecryptLive
  <1>5. CASE Publish
    <2>1. /\ decrypt.pc = "publish" /\ decrypt'.pc = "get" /\ returned' = returned
          /\ stats'.frames = stats.frames + 1
      BY <1>0, <1>5 DEF Publish, DecryptRecord, StatsRecord
    <2>2. Done' = Done /\ ItemOrder'
      BY <1>1, <2>1 DEF Done, ItemOrder
    <2> QED BY <1>0, <1>1, <2>1, <2>2 DEF ReturnedOrder, Returned, DecryptLive
  <1>6. CASE EndDecrypt
    BY <1>0, <1>6 DEF EndDecrypt, DecryptRecord, ReturnedOrder, ItemOrder, DecryptLive
  <1> QED BY <1>2, <1>3, <1>4, <1>5, <1>6 DEF DecryptStage

LEMMA ReturnOrderNext == StreamType /\ SendOrder /\ ReturnOrder /\ [Next]_vars => ReturnOrder'
  <1> SUFFICES ASSUME StreamType, SendOrder, ReturnOrder, [Next]_vars, ~args'.jpeg
               PROVE  ReturnedOrder' /\ ItemOrder'
    BY DEF ReturnOrder
  <1>1. CASE CompressStage
    <2>1. UNCHANGED <<args, link, returned, decrypt, stats>>
      BY <1>1 DEF CompressStage, Read, Encode, ClearRequest, PutOutgoing, EndCompress
    <2> QED BY <2>1 DEF ReturnOrder, ReturnedOrder, ItemOrder, Returned, Done, LinkHand
  <1>2. CASE LinkStage
    <2>1. args' = args
      BY <1>2 DEF LinkStage, Fill, GetFrame, Exchange, DecryptInIp, PutReturned, EndLink
    <2> QED BY <1>2, <2>1, ReturnOrderLink
  <1>3. CASE DecryptStage
    <2>1. args' = args
      BY <1>3 DEF DecryptStage, GetReturned, Restore, RequestKeyFrame, Publish, EndDecrypt
    <2> QED BY <1>3, <2>1, ReturnOrderDecrypt
  <1>4. CASE Bystander
    <2>0. ReturnedOrder /\ ItemOrder /\ returned \in Queue(Packets)
      BY <1>4 DEF Bystander, ReturnOrder, StreamType, ReturnedType
    <2>1. decrypt'.pc = decrypt.pc \/ decrypt'.pc \notin DecryptLive
      BY <1>4 DEF Bystander, DecryptLive, ErrorPcs
    <2>2. ItemOrder'
      BY <1>4, <2>0, <2>1 DEF Bystander, ItemOrder, DecryptLive
    <2>3. decrypt'.pc = decrypt.pc => Done' = Done
      BY <1>4 DEF Bystander, Done
    <2>4. link'.pc \in LinkLive => link.pc \in LinkLive /\ LinkHand' = LinkHand /\ link'.sent = link.sent
      BY <1>4 DEF Bystander, LinkLive, ErrorPcs, LinkHand
    <2>5. returned' = returned \/ (Len(returned'.items) = 0 /\ returned'.closed)
      BY <1>4, <2>0, CloseType DEF Bystander
    <2> QED BY <2>0, <2>1, <2>2, <2>3, <2>4, <2>5 DEF ReturnedOrder, Returned
  <1> QED BY <1>1, <1>2, <1>3, <1>4, NextCasesShort

-------------------------------------------------------------------------------
(* The decoder.  While it does not wait, the frame it got last is the one the  *)
(* decrypt stage handled last.                                                 *)
LastSeq == IF decoded = <<>> THEN 0 ELSE decoded[Len(decoded)].seq

Handled == stats.frames + (IF decrypt.pc \in {"request", "publish"} THEN 1 ELSE 0)

LastDecoded == ~args.jpeg /\ decrypt.pc \in DecryptLive /\ ~waitingKey => LastSeq = Handled

FollowInv == LastDecoded /\ DecoderFollows

LEMMA FollowInvInit == Init => FollowInv
  <1> SUFFICES ASSUME NEW options \in Runs, StreamInit(options) PROVE FollowInv
    BY DEF Init
  <1>1. decoded = <<>> /\ decrypt.pc = "get" /\ stats.frames = 0
    BY DEF StreamInit
  <1> QED BY <1>1, EmptySeq DEF FollowInv, LastDecoded, DecoderFollows, LastSeq, Handled

LEMMA FollowInvRestore ==
  ASSUME StreamType, FramesGood, ReturnOrder, FollowInv, Restore PROVE FollowInv'
  <1> DEFINE frame == decrypt.item.frame
  <1>0. /\ args' = args /\ decrypt.pc = "restore" /\ decrypt \in DecryptRecord /\ stats \in StatsRecord
        /\ decrypt'.pc \in {"request", "publish"} /\ stats'.frames = stats.frames /\ stats.frames \in Nat
    BY DEF Restore, StreamType, DecryptType, DecryptRecord, StatsRecord
  <1>1. frame \in GoodFrames(args.jpeg) /\ decoded \in Seq(Frames) /\ decoded \in Seq(GoodFrames(args.jpeg))
    BY <1>0 DEF FramesGood, DecryptGood, GoodPackets, StreamType, HistoryType
  <1>2. Handled = stats.frames /\ Handled' = stats.frames + 1
    BY <1>0 DEF Handled
  <1>3. CASE decoded' = decoded
    <2>1. CASE ~args.jpeg => waitingKey'
      BY <1>0, <1>3, <2>1 DEF FollowInv, LastDecoded, DecoderFollows
    <2>2. CASE ~(~args.jpeg => waitingKey')
      <3>1. decoded' = Append(decoded, frame)
        BY <2>2 DEF Restore, Skips, StreamType, KeyType
      <3>2. decoded' # decoded
        BY <1>1, <3>1, AppendProperties, LenProperties DEF GoodFrames
      <3> QED BY <1>3, <3>2
    <2> QED BY <2>1, <2>2
  <1>4. CASE decoded' # decoded
    <2>1. decoded' = Append(decoded, frame) /\ (waitingKey => frame.key)
      BY <1>4 DEF Restore, Skips
    <2>2. frame \in Frames
      BY <1>1 DEF GoodFrames
    <2>3. /\ Len(decoded') = Len(decoded) + 1 /\ decoded'[Len(decoded) + 1] = frame /\ Len(decoded) \in Nat
          /\ \A i \in DOMAIN decoded : decoded'[i] = decoded[i]
          /\ DOMAIN decoded = 1..Len(decoded) /\ DOMAIN decoded' = 1..(Len(decoded) + 1)
          /\ decoded = <<>> <=> Len(decoded) = 0
      BY <1>1, <2>1, <2>2, AppendProperties, LenProperties, EmptySeq
    <2>4. ~args.jpeg => frame.seq = stats.frames + 1
      BY <1>0 DEF ReturnOrder, ItemOrder
    <2>5. LastDecoded'
      BY <1>0, <1>2, <2>3, <2>4 DEF LastDecoded, LastSeq
    <2>6. frame.key \/ (Len(decoded) > 0 /\ frame.seq = decoded[Len(decoded)].seq + 1)
      <3>1. CASE frame.key
        BY <3>1
      <3>2. CASE ~frame.key
        <4>1. ~args.jpeg /\ frame.seq # 1 /\ ~waitingKey
          BY <1>1, <2>1, <3>2 DEF GoodFrames
        <4>2. LastSeq = stats.frames
          BY <1>0, <1>2, <4>1 DEF FollowInv, LastDecoded, DecryptLive
        <4>3. decoded # <<>>
          BY <1>0, <2>4, <4>1, <4>2 DEF LastSeq
        <4> QED BY <2>3, <2>4, <4>1, <4>2, <4>3 DEF LastSeq
      <3> QED BY <3>1, <3>2
    <2>7. DecoderFollows'
      <3> SUFFICES ASSUME NEW i \in DOMAIN decoded'
                   PROVE  decoded'[i].key \/ (i > 1 /\ decoded'[i].seq = decoded'[i - 1].seq + 1)
        BY DEF DecoderFollows
      <3>1. CASE i \in DOMAIN decoded
        <4>1. decoded[i].key \/ (i > 1 /\ decoded[i].seq = decoded[i - 1].seq + 1)
          BY <3>1 DEF FollowInv, DecoderFollows
        <4>2. i > 1 => i - 1 \in DOMAIN decoded
          BY <2>3, <3>1
        <4> QED BY <2>3, <3>1, <4>1, <4>2
      <3>2. CASE i = Len(decoded) + 1
        <4>1. i - 1 = Len(decoded) /\ (Len(decoded) > 0 => i - 1 \in DOMAIN decoded /\ i > 1)
          BY <2>3, <3>2
        <4> QED BY <2>3, <2>6, <3>2, <4>1
      <3> QED BY <2>3, <3>1, <3>2
    <2> QED BY <2>5, <2>7 DEF FollowInv
  <1> QED BY <1>3, <1>4

LEMMA FollowInvNext == StreamType /\ FramesGood /\ ReturnOrder /\ FollowInv /\ [Next]_vars => FollowInv'
  <1> SUFFICES ASSUME StreamType, FramesGood, ReturnOrder, FollowInv, [Next]_vars PROVE FollowInv'
    OBVIOUS
  <1>0. decrypt \in DecryptRecord /\ stats \in StatsRecord
    BY DEF StreamType, DecryptType
  <1>1. CASE CompressStage
    <2>1. UNCHANGED <<args, decrypt, stats, waitingKey, decoded>>
      BY <1>1 DEF CompressStage, Read, Encode, ClearRequest, PutOutgoing, EndCompress
    <2> QED BY <2>1 DEF FollowInv, LastDecoded, LastSeq, Handled, DecoderFollows
  <1>2. CASE LinkStage
    <2>1. UNCHANGED <<args, decrypt, stats, waitingKey, decoded>>
      BY <1>2 DEF LinkStage, Fill, GetFrame, Exchange, DecryptInIp, PutReturned, EndLink
    <2> QED BY <2>1 DEF FollowInv, LastDecoded, LastSeq, Handled, DecoderFollows
  <1>3. CASE GetReturned
    <2>1. UNCHANGED <<args, stats, waitingKey, decoded>> /\ decrypt.pc = "get" /\ decrypt'.pc \in {"end", "restore"}
      BY <1>0, <1>3 DEF GetReturned, DecryptRecord
    <2> QED BY <2>1 DEF FollowInv, LastDecoded, LastSeq, Handled, DecoderFollows, DecryptLive
  <1>4. CASE Restore
    BY <1>4, FollowInvRestore
  <1>5. CASE RequestKeyFrame
    <2>1. /\ UNCHANGED <<args, stats, waitingKey, decoded>>
          /\ decrypt.pc = "request" /\ decrypt'.pc = "publish"
      BY <1>0, <1>5 DEF RequestKeyFrame, DecryptRecord
    <2> QED BY <2>1 DEF FollowInv, LastDecoded, LastSeq, Handled, DecoderFollows, DecryptLive
  <1>6. CASE Publish
    <2>1. /\ UNCHANGED <<args, waitingKey, decoded>> /\ stats'.frames = stats.frames + 1 /\ stats.frames \in Nat
          /\ decrypt.pc = "publish" /\ decrypt'.pc = "get"
      BY <1>0, <1>6 DEF Publish, DecryptRecord, StatsRecord
    <2>2. Handled' = Handled
      BY <2>1 DEF Handled
    <2> QED BY <2>1, <2>2 DEF FollowInv, LastDecoded, LastSeq, DecoderFollows, DecryptLive
  <1>7. CASE EndDecrypt
    <2>1. UNCHANGED <<args, waitingKey, decoded>> /\ decrypt'.pc = "done"
      BY <1>0, <1>7 DEF EndDecrypt, DecryptRecord
    <2> QED BY <2>1 DEF FollowInv, LastDecoded, DecoderFollows, DecryptLive
  <1>8. CASE Bystander
    <2>1. decrypt'.pc = decrypt.pc \/ decrypt'.pc \notin DecryptLive
      BY <1>8 DEF Bystander, DecryptLive, ErrorPcs
    <2> QED BY <1>8, <2>1 DEF Bystander, FollowInv, LastDecoded, LastSeq, Handled, DecoderFollows
  <1> QED BY <1>1, <1>2, <1>3, <1>4, <1>5, <1>6, <1>7, <1>8, NextCasesShort DEF DecryptStage

(* camera.py:325-378 and codec.py:86-112: the decoder is never given a frame   *)
(* that builds on one it did not get, for any number of frames, any capacity   *)
(* of the queue, any tampering and any error.                                  *)
THEOREM DecoderAlwaysFollows == Spec => []DecoderFollows
  <1> DEFINE Inv == StreamType /\ FramesGood /\ SendOrder /\ ReturnOrder /\ FollowInv
  <1>1. Init => Inv
    BY StreamTypeInit, FramesGoodInit, SendOrderInit, ReturnOrderInit, FollowInvInit
  <1>2. Inv /\ [Next]_vars => Inv'
    BY StreamTypeNext, FramesGoodNext, SendOrderNext, ReturnOrderNext, FollowInvNext
  <1>3. Inv => DecoderFollows
    BY DEF FollowInv
  <1> QED BY <1>1, <1>2, <1>3, PTL DEF Spec

-------------------------------------------------------------------------------
(* The key frame.  The compress stage holds a frame only between Encode and    *)
(* PutOutgoing, and clears the request only with the key frame in hand.        *)
Stopping == outgoing.closed \/ returned.closed \/ \E t \in Threads : Pc(t) \in ErrorPcs

Asked == wantKey \/ decrypt.pc = "request"

InHand ==
    /\ compress.frame # NoItem => compress.pc \in {"clear", "put"}
    /\ compress.pc = "clear" => compress.frame.key

WaitInv == waitingKey => Asked \/ KeyOnItsWay \/ Stopping

KeyInv == InHand /\ WaitInv /\ (waitingKey => ~args.jpeg)

LEMMA StoppingDef ==
  Stopping <=> \/ outgoing.closed \/ returned.closed
               \/ compress.pc \in ErrorPcs \/ link.pc \in ErrorPcs \/ decrypt.pc \in ErrorPcs
  BY DEF Stopping, Threads, Pc

LEMMA StoppingStays ==
  ASSUME StreamType, [Next]_vars, Stopping PROVE Stopping'
  <1>0. /\ outgoing \in Queue(Frames) /\ returned \in Queue(Packets)
        /\ compress \in CompressRecord /\ link \in LinkRecord /\ decrypt \in DecryptRecord
    BY DEF StreamType, OutgoingType, ReturnedType, CompressType, LinkType, DecryptType
  <1>1. outgoing.closed => outgoing'.closed
    <2>1. CASE CompressStage
      BY <1>0, <2>1, PutType, CloseType
      DEF CompressStage, Read, Encode, ClearRequest, PutOutgoing, EndCompress, StreamType, CompressType
    <2>2. CASE LinkStage
      BY <1>0, <2>2, GetType, CloseType DEF LinkStage, Fill, GetFrame, Exchange, DecryptInIp, PutReturned, EndLink
    <2>3. CASE DecryptStage
      BY <2>3 DEF DecryptStage, GetReturned, Restore, RequestKeyFrame, Publish, EndDecrypt
    <2>4. CASE Bystander
      BY <1>0, <2>4, CloseType DEF Bystander
    <2> QED BY <2>1, <2>2, <2>3, <2>4, NextCasesShort
  <1>2. returned.closed => returned'.closed
    <2>1. CASE CompressStage
      BY <2>1 DEF CompressStage, Read, Encode, ClearRequest, PutOutgoing, EndCompress
    <2>2. CASE LinkStage
      BY <1>0, <2>2, PutType, CloseType
      DEF LinkStage, Fill, GetFrame, Exchange, DecryptInIp, PutReturned, EndLink, StreamType, LinkType
    <2>3. CASE DecryptStage
      BY <1>0, <2>3, GetType DEF DecryptStage, GetReturned, Restore, RequestKeyFrame, Publish, EndDecrypt
    <2>4. CASE Bystander
      BY <1>0, <2>4, CloseType DEF Bystander
    <2> QED BY <2>1, <2>2, <2>3, <2>4, NextCasesShort
  <1>3. /\ compress.pc \in ErrorPcs => compress'.pc \in ErrorPcs
        /\ link.pc \in ErrorPcs => link'.pc \in ErrorPcs
        /\ decrypt.pc \in ErrorPcs => decrypt'.pc \in ErrorPcs
    <2>1. CASE CompressStage
      BY <2>1 DEF CompressStage, Read, Encode, ClearRequest, PutOutgoing, EndCompress, ErrorPcs
    <2>2. CASE LinkStage
      BY <2>2 DEF LinkStage, Fill, GetFrame, Exchange, DecryptInIp, PutReturned, EndLink, ErrorPcs
    <2>3. CASE DecryptStage
      BY <2>3 DEF DecryptStage, GetReturned, Restore, RequestKeyFrame, Publish, EndDecrypt, ErrorPcs
    <2>4. CASE Bystander
      BY <2>4 DEF Bystander
    <2> QED BY <2>1, <2>2, <2>3, <2>4, NextCasesShort
  <1>4. Stopping' <=> \/ outgoing'.closed \/ returned'.closed
                      \/ compress'.pc \in ErrorPcs \/ link'.pc \in ErrorPcs \/ decrypt'.pc \in ErrorPcs
    BY DEF Stopping, Threads, Pc
  <1> QED BY <1>1, <1>2, <1>3, <1>4, StoppingDef

LEMMA KeyInvInit == Init => KeyInv
  BY DEF Init, StreamInit, KeyInv, InHand, WaitInv

LEMMA InHandNext ==
  ASSUME StreamType, InHand, [Next]_vars PROVE InHand'
  <1>0. compress \in CompressRecord /\ NoItem \notin Frames
    BY CameraAssumption DEF StreamType, CompressType
  <1>1. CASE Read
    BY <1>0, <1>1 DEF Read, InHand, CompressRecord
  <1>2. CASE Encode
    <2>1. PICK chunks \in ChunkCounts :
            compress' = [pc |-> IF Forced THEN "clear" ELSE "put", encoded |-> compress.encoded + 1,
                         frame |-> [seq |-> compress.encoded + 1, chunks |-> chunks,
                                    key |-> args.jpeg \/ Forced \/ compress.encoded = 0]]
      BY <1>2 DEF Encode
    <2>2. Forced => compress'.frame.key
      BY <2>1
    <2>3. compress'.pc = "clear" => Forced
      BY <2>1
    <2>4. compress'.pc \in {"clear", "put"}
      BY <2>1
    <2> QED BY <2>2, <2>3, <2>4 DEF InHand
  <1>3. CASE ClearRequest
    BY <1>0, <1>3 DEF ClearRequest, InHand, CompressRecord
  <1>4. CASE PutOutgoing
    BY <1>0, <1>4 DEF PutOutgoing, InHand, CompressRecord
  <1>5. CASE EndCompress
    BY <1>0, <1>5 DEF EndCompress, InHand, CompressRecord
  <1>6. CASE LinkStage \/ DecryptStage
    <2>1. compress' = compress
      BY <1>6 DEF LinkStage, Fill, GetFrame, Exchange, DecryptInIp, PutReturned, EndLink,
                  DecryptStage, GetReturned, Restore, RequestKeyFrame, Publish, EndDecrypt
    <2> QED BY <2>1 DEF InHand
  <1>7. CASE Bystander
    BY <1>7 DEF Bystander, InHand, ErrorPcs
  <1> QED BY <1>1, <1>2, <1>3, <1>4, <1>5, <1>6, <1>7, NextCasesShort DEF CompressStage

LEMMA WaitInvCompress ==
  ASSUME StreamType, FramesGood, KeyInv, CompressStage PROVE WaitInv'
  <1> SUFFICES ASSUME waitingKey', ~Stopping', ~Stopping PROVE Asked' \/ KeyOnItsWay'
    BY StoppingStays DEF WaitInv, Next
  <1>0. UNCHANGED <<args, waitingKey, link, returned, decrypt>>
    BY DEF CompressStage, Read, Encode, ClearRequest, PutOutgoing, EndCompress
  <1>1. Asked \/ KeyOnItsWay
    BY <1>0 DEF KeyInv, WaitInv
  <1>2. compress \in CompressRecord /\ outgoing \in Queue(Frames) /\ ~outgoing.dropOldest /\ ~outgoing.closed
    BY <1>0, StoppingDef DEF StreamType, CompressType, OutgoingType, Drops, KeyInv
  <1>3. CASE Read
    <2>1. UNCHANGED <<wantKey, outgoing>> /\ compress'.frame = compress.frame
      BY <1>2, <1>3 DEF Read, CompressRecord
    <2> QED BY <1>0, <1>1, <2>1 DEF Asked, KeyOnItsWay
  <1>4. CASE Encode
    <2>1. UNCHANGED <<wantKey, outgoing>> /\ compress.frame = NoItem
      BY <1>4 DEF Encode, KeyInv, InHand
    <2> QED BY <1>0, <1>1, <2>1 DEF Asked, KeyOnItsWay
  <1>5. CASE ClearRequest
    <2>1. compress'.frame = compress.frame /\ compress.frame.key /\ compress.frame \in Frames
      BY <1>2, <1>5 DEF ClearRequest, KeyInv, InHand, CompressRecord, StreamType, CompressType
    <2> QED BY <2>1, CameraAssumption DEF KeyOnItsWay
  <1>6. CASE PutOutgoing
    <2>1. wantKey' = wantKey /\ compress.frame \in Frames
      BY <1>6 DEF PutOutgoing, StreamType, CompressType
    <2>2. outgoing'.items = Append(outgoing.items, compress.frame)
      BY <1>2, <1>6, <2>1, PutAppends DEF PutOutgoing
    <2>3. /\ Len(outgoing.items) + 1 \in DOMAIN outgoing'.items
          /\ outgoing'.items[Len(outgoing.items) + 1] = compress.frame
          /\ \A i \in DOMAIN outgoing.items : i \in DOMAIN outgoing'.items /\ outgoing'.items[i] = outgoing.items[i]
      <3>1. outgoing.items \in Seq(Frames)
        BY <1>2 DEF Queue
      <3> QED BY <2>1, <2>2, <3>1, AppendProperties, LenProperties
    <2> QED BY <1>0, <1>1, <2>1, <2>3 DEF Asked, KeyOnItsWay
  <1>7. CASE EndCompress
    <2>1. outgoing'.closed
      BY <1>2, <1>7, CloseType DEF EndCompress
    <2> QED BY <2>1 DEF Stopping
  <1> QED BY <1>3, <1>4, <1>5, <1>6, <1>7 DEF CompressStage

LEMMA WaitInvLink ==
  ASSUME StreamType, KeyInv, LinkStage PROVE WaitInv'
  <1> SUFFICES ASSUME waitingKey', ~Stopping', ~Stopping PROVE Asked' \/ KeyOnItsWay'
    BY StoppingStays DEF WaitInv, Next
  <1>0. UNCHANGED <<args, waitingKey, wantKey, compress, decrypt>>
    BY DEF LinkStage, Fill, GetFrame, Exchange, DecryptInIp, PutReturned, EndLink
  <1>1. Asked \/ KeyOnItsWay
    BY <1>0 DEF KeyInv, WaitInv
  <1>2. /\ link \in LinkRecord /\ outgoing \in Queue(Frames) /\ ~outgoing.closed
        /\ returned \in Queue(Packets) /\ ~returned.dropOldest /\ ~returned.closed
        /\ link'.pc \notin ErrorPcs
    BY StoppingDef DEF StreamType, LinkType, OutgoingType, ReturnedType, Stopping, Threads, Pc
  <1>3. CASE Fill
    <2>1. UNCHANGED <<outgoing, returned>> /\ link.pc = "preroll"
      BY <1>3 DEF Fill
    <2> QED BY <1>0, <1>1, <2>1 DEF Asked, KeyOnItsWay
  <1>4. CASE GetFrame
    <2>0. returned' = returned /\ link.pc = "get"
      BY <1>4 DEF GetFrame
    <2>1. CASE outgoing' = outgoing
      BY <1>0, <1>1, <2>0, <2>1 DEF Asked, KeyOnItsWay
    <2>2. CASE outgoing' # outgoing
      <3>1. outgoing' = Get(outgoing) /\ outgoing.items # <<>>
        BY <1>2, <1>4, <2>2, GetType DEF GetFrame
      <3>2. /\ Got(outgoing) = outgoing.items[1] /\ Got(outgoing) \in Frames
            /\ link'.pc = "exchange" /\ link'.item = outgoing.items[1]
        <4>1. Got(outgoing) = outgoing.items[1] /\ Got(outgoing) \in Frames
          BY <1>2, <3>1, GetType
        <4>2. Got(outgoing) # NoItem
          BY <4>1, CameraAssumption
        <4>3. link' = [link EXCEPT !.item = Got(outgoing), !.pc = "exchange"]
          BY <1>4, <2>2, <4>2 DEF GetFrame
        <4> QED BY <1>2, <4>1, <4>3 DEF LinkRecord
      <3>3. \A i \in DOMAIN outgoing.items : i # 1 => i - 1 \in DOMAIN outgoing'.items /\ outgoing'.items[i - 1] = outgoing.items[i]
        <4>1. /\ Len(outgoing'.items) = Len(outgoing.items) - 1
              /\ \A i \in 1..Len(outgoing'.items) : outgoing'.items[i] = outgoing.items[i + 1]
          BY <1>2, <3>1, GetMoves
        <4>2. outgoing.items \in Seq(Frames) /\ outgoing'.items \in Seq(Frames)
          BY <1>2, <3>1, GetType DEF Queue
        <4>3. DOMAIN outgoing.items = 1..Len(outgoing.items) /\ DOMAIN outgoing'.items = 1..Len(outgoing'.items)
              /\ Len(outgoing.items) \in Nat
          BY <4>2, LenProperties
        <4> TAKE i \in DOMAIN outgoing.items
        <4> HAVE i # 1
        <4>4. i \in Nat /\ i - 1 \in 1..Len(outgoing'.items) /\ (i - 1) + 1 = i
          BY <4>1, <4>3
        <4> QED BY <4>1, <4>3, <4>4
      <3> QED BY <1>0, <1>1, <2>0, <3>2, <3>3 DEF Asked, KeyOnItsWay
    <2> QED BY <2>1, <2>2
  <1>5. CASE Exchange
    <2>0. UNCHANGED <<outgoing, returned>> /\ link.pc = "exchange"
      BY <1>5 DEF Exchange
    <2>1. link'.pc # "except"
      BY <1>2 DEF ErrorPcs
    <2>2. link'.pc \in {"decrypt", "put"} /\ link'.item.frame = link.item
      BY <1>2, <1>5, <2>1 DEF Exchange, LinkRecord
    <2> QED BY <1>0, <1>1, <2>0, <2>2 DEF Asked, KeyOnItsWay
  <1>6. CASE DecryptInIp
    <2>1. UNCHANGED <<outgoing, returned>> /\ link.pc = "decrypt" /\ link'.pc = "put" /\ link'.item = link.item
      BY <1>2, <1>6 DEF DecryptInIp, LinkRecord
    <2> QED BY <1>0, <1>1, <2>1 DEF Asked, KeyOnItsWay
  <1>7. CASE PutReturned
    <2>1. outgoing' = outgoing /\ link.item \in Packets /\ link.pc = "put"
      BY <1>7 DEF PutReturned, StreamType, LinkType
    <2>2. returned'.items = Append(returned.items, link.item)
      BY <1>2, <1>7, <2>1, PutAppends DEF PutReturned
    <2>3. /\ Len(returned.items) + 1 \in DOMAIN returned'.items
          /\ returned'.items[Len(returned.items) + 1] = link.item
          /\ \A i \in DOMAIN returned.items : i \in DOMAIN returned'.items /\ returned'.items[i] = returned.items[i]
      <3>1. returned.items \in Seq(Packets)
        BY <1>2 DEF Queue
      <3> QED BY <2>1, <2>2, <3>1, AppendProperties, LenProperties
    <2> QED BY <1>0, <1>1, <2>1, <2>3 DEF Asked, KeyOnItsWay
  <1>8. CASE EndLink
    <2>1. outgoing'.closed \/ returned'.closed
      BY <1>2, <1>8, CloseType DEF EndLink
    <2> QED BY <2>1 DEF Stopping
  <1> QED BY <1>3, <1>4, <1>5, <1>6, <1>7, <1>8 DEF LinkStage

LEMMA WaitInvDecrypt ==
  ASSUME StreamType, KeyInv, DecryptStage PROVE WaitInv' /\ (waitingKey' => ~args'.jpeg)
  <1>0. /\ UNCHANGED <<args, compress, outgoing, link>> /\ decrypt \in DecryptRecord /\ returned \in Queue(Packets)
        /\ waitingKey \in BOOLEAN
    BY DEF DecryptStage, GetReturned, Restore, RequestKeyFrame, Publish, EndDecrypt, StreamType, DecryptType,
           ReturnedType, KeyType
  <1>1. waitingKey' => ~args'.jpeg
    BY <1>0 DEF DecryptStage, GetReturned, Restore, RequestKeyFrame, Publish, EndDecrypt, KeyInv
  <1>2. ASSUME waitingKey', ~Stopping', ~Stopping PROVE Asked' \/ KeyOnItsWay'
    <2>1. CASE Restore
      <3>1. CASE ~decrypt.item.pass
        <4>1. ~args.jpeg
          BY <1>0, <1>1, <1>2
        <4>2. decrypt' = [decrypt EXCEPT !.pc = "request", !.skipped = FALSE]
          BY <2>1, <3>1, <4>1 DEF Restore, AsksForKey
        <4> QED BY <1>0, <4>2 DEF Asked, DecryptRecord
      <3>2. CASE decrypt.item.pass
        <4>1. /\ waitingKey /\ ~decrypt.item.frame.key /\ decrypt.pc = "restore"
              /\ UNCHANGED <<wantKey, returned>>
          BY <1>2, <2>1, <3>2 DEF Restore, Skips
        <4>2. Asked \/ KeyOnItsWay
          BY <1>2, <4>1 DEF KeyInv, WaitInv
        <4> QED BY <1>0, <4>1, <4>2 DEF Asked, KeyOnItsWay
      <3> QED BY <3>1, <3>2
    <2>2. CASE GetReturned
      <3>0. /\ UNCHANGED <<wantKey, waitingKey>> /\ decrypt.pc = "get" /\ returned' = Get(returned)
        BY <2>2 DEF GetReturned
      <3>1. Asked \/ KeyOnItsWay
        BY <1>2, <3>0 DEF KeyInv, WaitInv
      <3>2. returned.items # <<>>
        BY <1>2, <2>2, StoppingDef DEF GetReturned, GetWaits
      <3>3. /\ Got(returned) = returned.items[1] /\ decrypt'.pc = "restore" /\ decrypt'.item = returned.items[1]
        <4>1. Got(returned) = returned.items[1] /\ Got(returned) \in Packets
          BY <1>0, <3>2, GetType
        <4>2. Got(returned) # NoItem
          BY <4>1, CameraAssumption
        <4>3. decrypt' = [decrypt EXCEPT !.item = Got(returned), !.pc = "restore"]
          BY <2>2, <4>2 DEF GetReturned
        <4> QED BY <1>0, <4>1, <4>3 DEF DecryptRecord
      <3>4. \A i \in DOMAIN returned.items : i # 1 => i - 1 \in DOMAIN returned'.items /\ returned'.items[i - 1] = returned.items[i]
        <4>1. /\ Len(returned'.items) = Len(returned.items) - 1
              /\ \A i \in 1..Len(returned'.items) : returned'.items[i] = returned.items[i + 1]
          BY <1>0, <3>0, <3>2, GetMoves
        <4>2. returned.items \in Seq(Packets) /\ returned'.items \in Seq(Packets)
          BY <1>0, <3>0, GetType DEF Queue
        <4>3. DOMAIN returned.items = 1..Len(returned.items) /\ DOMAIN returned'.items = 1..Len(returned'.items)
              /\ Len(returned.items) \in Nat
          BY <4>2, LenProperties
        <4> TAKE i \in DOMAIN returned.items
        <4> HAVE i # 1
        <4>4. i \in Nat /\ i - 1 \in 1..Len(returned'.items) /\ (i - 1) + 1 = i
          BY <4>1, <4>3
        <4> QED BY <4>1, <4>3, <4>4
      <3> QED BY <1>0, <3>0, <3>1, <3>3, <3>4 DEF Asked, KeyOnItsWay
    <2>3. CASE RequestKeyFrame
      BY <2>3 DEF RequestKeyFrame, Asked
    <2>4. CASE Publish
      <3>1. UNCHANGED <<wantKey, waitingKey, returned>> /\ decrypt.pc = "publish"
        BY <2>4 DEF Publish
      <3>2. Asked \/ KeyOnItsWay
        BY <1>2, <3>1 DEF KeyInv, WaitInv
      <3> QED BY <1>0, <3>1, <3>2 DEF Asked, KeyOnItsWay
    <2>5. CASE EndDecrypt
      <3>1. decrypt'.pc \in ErrorPcs
        BY <1>0, <2>5 DEF EndDecrypt, DecryptRecord, ErrorPcs
      <3>2. Stopping'
        BY <3>1 DEF Stopping, Threads, Pc
      <3> QED BY <1>2, <3>2
    <2> QED BY <2>1, <2>2, <2>3, <2>4, <2>5 DEF DecryptStage
  <1>3. Stopping => Stopping'
    BY StoppingStays DEF Next
  <1> QED BY <1>1, <1>2, <1>3 DEF WaitInv

LEMMA KeyInvNext == StreamType /\ FramesGood /\ KeyInv /\ [Next]_vars => KeyInv'
  <1> SUFFICES ASSUME StreamType, FramesGood, KeyInv, [Next]_vars PROVE KeyInv'
    OBVIOUS
  <1>1. InHand'
    BY InHandNext DEF KeyInv
  <1>2. CASE CompressStage
    <2>1. UNCHANGED <<args, waitingKey>>
      BY <1>2 DEF CompressStage, Read, Encode, ClearRequest, PutOutgoing, EndCompress
    <2> QED BY <1>1, <1>2, <2>1, WaitInvCompress DEF KeyInv
  <1>3. CASE LinkStage
    <2>1. UNCHANGED <<args, waitingKey>>
      BY <1>3 DEF LinkStage, Fill, GetFrame, Exchange, DecryptInIp, PutReturned, EndLink
    <2> QED BY <1>1, <1>3, <2>1, WaitInvLink DEF KeyInv
  <1>4. CASE DecryptStage
    BY <1>1, <1>4, WaitInvDecrypt DEF KeyInv
  <1>5. CASE Bystander
    <2>1. UNCHANGED <<args, waitingKey>>
      BY <1>5 DEF Bystander
    <2>2. ASSUME waitingKey, ~Stopping', ~Stopping PROVE Asked' \/ KeyOnItsWay'
      <3>0. outgoing \in Queue(Frames) /\ returned \in Queue(Packets)
        BY DEF StreamType, OutgoingType, ReturnedType
      <3>1. UNCHANGED <<outgoing, returned>>
        BY <1>5, <2>2, <3>0, CloseType DEF Bystander, Stopping
      <3>2. link'.pc = link.pc /\ decrypt'.pc = decrypt.pc
        BY <1>5, <2>2 DEF Bystander, Stopping, Threads, Pc
      <3>3. Asked \/ KeyOnItsWay
        BY <2>2 DEF KeyInv, WaitInv
      <3>4. /\ wantKey' = wantKey /\ compress'.frame = compress.frame /\ link'.item = link.item
            /\ decrypt'.item = decrypt.item
        BY <1>5 DEF Bystander
      <3> QED BY <3>1, <3>2, <3>3, <3>4 DEF Asked, KeyOnItsWay
    <2> QED BY <1>1, <2>1, <2>2, StoppingStays DEF KeyInv, WaitInv
  <1> QED BY <1>2, <1>3, <1>4, <1>5, NextCasesShort

(* camera.py:355-378 and codec.py:92-106: a decoder that waits has a key frame *)
(* asked for or on its way, though the request is a flag that two threads      *)
(* write and that the encoder clears after it has read it.                     *)
THEOREM KeyAlwaysComes == Spec => []KeyComes
  <1> DEFINE Inv == StreamType /\ FramesGood /\ KeyInv
  <1>1. Init => Inv
    BY StreamTypeInit, FramesGoodInit, KeyInvInit
  <1>2. Inv /\ [Next]_vars => Inv'
    BY StreamTypeNext, FramesGoodNext, KeyInvNext
  <1>3. Inv => KeyComes
    BY DEF KeyInv, WaitInv, KeyComes, Asked, Stopping
  <1> QED BY <1>1, <1>2, <1>3, PTL DEF Spec

-------------------------------------------------------------------------------
(* What becomes of the frames of a run: each is shown, skipped or counted as   *)
(* dropped, no queue overfills, and the window never shows a picture beside    *)
(* the verdict of another frame.                                               *)

One(b) == IF b THEN 1 ELSE 0

-------------------------------------------------------------------------------
(* Types that need more than a look at the action.                             *)

(* No stage leaves its own states but for the handler's.                       *)
PcsOK ==
    /\ compress.pc \in {"read", "encode", "clear", "put", "close"} \cup ErrorPcs
    /\ link.pc \in {"preroll", "get", "exchange", "decrypt", "put", "abort", "close"} \cup ErrorPcs
    /\ decrypt.pc \in {"get", "restore", "request", "publish", "end"} \cup ErrorPcs

QueueBounded(q) == q.capacity >= 1 /\ Len(q.items) <= q.capacity /\ (~q.dropOldest => q.dropped = 0)

(* A frame is encoded, in the slot, lost from the slot or about to be encoded  *)
(* only after the source gave it.                                              *)
SourceBounded ==
    /\ ~args.live => ~source.slot /\ source.dropped = 0
    /\ compress.encoded + One(compress.pc = "encode") + source.dropped + One(source.slot) <= source.given
    /\ source.given <= FrameCount

(* A handler that stops the others has kept a failure.                         *)
Stops == {"stop outgoing", "stop returned"}

FailureInv ==
    /\ errors \in [count : Nat, seen : [Threads -> Threads \cup {NoThread}]]
    /\ failure \in Threads \cup {NoThread}
    /\ compress.pc \in Stops \/ link.pc \in Stops \/ decrypt.pc \in Stops => failure # NoThread

TypeInv == args \in Runs /\ iv <= CounterLimit /\ PcsOK /\ QueueBounded(outgoing) /\ QueueBounded(returned)
           /\ SourceBounded /\ FailureInv

-------------------------------------------------------------------------------
(* The window.  The results not yet taken are numbered on from the frame       *)
(* shown; the picture is that frame's or none; and the window closes by itself *)
(* only when nothing can be published any more.                                *)
Result == [number : Nat, pass : BOOLEAN, waiting : BOOLEAN]

ViewRecord(v) ==
    /\ v = [shown |-> v.shown, plain |-> v.plain, hold |-> v.hold, failed |-> v.failed, started |-> v.started]
    /\ v.shown \in Nat /\ v.plain \in {NoPicture, v.shown} /\ v.hold \in BOOLEAN /\ v.started \in BOOLEAN

ViewInv ==
    /\ ViewRecord(view) /\ playback \in Seq(Result)
    /\ \A i \in 1..Len(playback) : playback[i].number = view.shown + i
    /\ args.window => stats.frames = view.shown + Len(playback)

CloseInv == main = "stop outgoing" => args.window /\ playback = <<>> /\ decrypt.pc = "done"

-------------------------------------------------------------------------------
(* The count.  While nothing failed and nobody stopped the run, each frame the *)
(* source gave is in the slot, in the hands of a stage, in a queue, published  *)
(* or counted as dropped; and each stage ends only after the one before it,    *)
(* with its queue empty.                                                       *)
MainRuns == main \in {"running", "stop outgoing"}

Calm ==
    /\ failure = NoThread /\ MainRuns
    /\ {compress.pc, link.pc, decrypt.pc} \cap {"except", "keep"} = {}

Undisturbed == Calm /\ ~LimitReached

InCompress == One(compress.pc \in {"encode", "clear", "put"})

InLink == One(link.pc \in {"exchange", "decrypt", "put"})

InDecrypt == One(decrypt.pc \in {"restore", "request", "publish"})

SourceEnds ==
    /\ ~source.running => args.live /\ source.given = FrameCount
    /\ compress.pc \in {"close", "done"} => source.given = FrameCount /\ ~source.slot /\ (args.live => ~source.running)

InOrder ==
    /\ outgoing.closed => compress.pc = "done"
    /\ link.pc \in {"abort", "close", "done"} => outgoing.closed /\ outgoing.items = <<>>
    /\ returned.closed => link.pc = "done"
    /\ decrypt.pc \in {"end", "done"} => returned.closed /\ returned.items = <<>>

Counted == decrypt.pc = "done" => stats.dropped = Dropped

InSlot == One(source.slot)

Upstream == InSlot + source.dropped + InCompress

Midway == Len(outgoing.items) + outgoing.dropped + InLink

Downstream == Len(returned.items) + InDecrypt + stats.frames

Balance == ~args.fps => source.given = Upstream + Midway + Downstream

CountInv == Undisturbed => SourceEnds /\ InOrder /\ Counted /\ Balance

FrameInv == TypeInv /\ ViewInv /\ CloseInv /\ CountInv

-------------------------------------------------------------------------------
(* Queues.                                                                     *)

(* A queue that holds no more than its capacity still does after put(), and    *)
(* what is in it or was dropped from it grew by the item put.                  *)
LEMMA PutBounded ==
  ASSUME NEW S, NEW q \in Queue(S), NEW x \in S, QueueBounded(q), ~PutWaits(q)
  PROVE  /\ QueueBounded(Put(q, x))
         /\ ~q.closed => Len(Put(q, x).items) + Put(q, x).dropped = Len(q.items) + q.dropped + 1
  <1>0. q.items \in Seq(S) /\ Len(q.items) \in Nat /\ q.capacity \in Nat /\ q.dropped \in Nat
       /\ q.dropOldest \in BOOLEAN
    BY LenProperties DEF Queue
  <1>1. CASE q.closed
    BY <1>1, PutType
  <1>2. CASE ~q.closed
    <2> DEFINE rest == SubSeq(q.items, Surplus(q) + 1, Len(q.items))
               more == Append(rest, x)
               count == q.dropped + Surplus(q)
    <2>1. Surplus(q) \in {0, 1} /\ Surplus(q) <= Len(q.items) /\ (Surplus(q) = 1 => q.dropOldest)
          /\ Len(q.items) - Surplus(q) + 1 <= q.capacity
      BY <1>0, <1>2 DEF Surplus, QueueBounded, PutWaits
    <2>2. rest \in Seq(S) /\ Len(rest) = Len(q.items) - Surplus(q)
      <3>1. \A i \in (Surplus(q) + 1)..Len(q.items) : q.items[i] \in S
        BY <1>0, <2>1, ElementOfSeq
      <3>2. Surplus(q) + 1 \in Int /\ Len(q.items) \in Int
        BY <1>0, <2>1
      <3>3. /\ rest \in Seq(S)
            /\ Len(rest) = IF Surplus(q) + 1 <= Len(q.items) THEN Len(q.items) - (Surplus(q) + 1) + 1 ELSE 0
        BY <3>1, <3>2, SubSeqProperties
      <3> HIDE DEF rest
      <3> QED BY <1>0, <2>1, <3>3
    <2>3. more \in Seq(S) /\ Len(more) = Len(q.items) - Surplus(q) + 1
      BY <2>2, AppendProperties
    <2>4. Put(q, x) = [q EXCEPT !.items = more, !.dropped = count]
      BY <1>2, Zenon DEF Put
    <2> HIDE DEF more, count
    <2>5. /\ Put(q, x).items = more /\ Put(q, x).dropped = count
          /\ Put(q, x).capacity = q.capacity /\ Put(q, x).dropOldest = q.dropOldest
      BY <2>4 DEF Queue
    <2>6. QueueBounded(Put(q, x))
      <3>1. ~q.dropOldest => count = 0
        BY <1>0, <2>1 DEF QueueBounded, count
      <3>2. Len(more) <= q.capacity /\ q.capacity >= 1
        BY <1>0, <2>1, <2>3 DEF QueueBounded
      <3> QED BY <2>5, <3>1, <3>2 DEF QueueBounded
    <2>7. Len(Put(q, x).items) + Put(q, x).dropped = Len(q.items) + q.dropped + 1
      <3>1. Surplus(q) \in Nat /\ count = q.dropped + Surplus(q)
        BY <2>1 DEF count
      <3>2. Len(more) + count = Len(q.items) + q.dropped + 1
        BY <1>0, <2>3, <3>1
      <3> QED BY <2>5, <3>2
    <2> QED BY <2>6, <2>7
  <1> QED BY <1>1, <1>2

LEMMA GetBounded ==
  ASSUME NEW S, NEW q \in Queue(S), QueueBounded(q)
  PROVE  /\ QueueBounded(Get(q)) /\ Get(q).dropped = q.dropped
         /\ q.items # <<>> => Len(Get(q).items) = Len(q.items) - 1
         /\ q.items = <<>> => Get(q) = q
  <1>0. q.items \in Seq(S) /\ Len(q.items) \in Nat
    BY LenProperties DEF Queue
  <1>1. /\ Get(q).dropped = q.dropped /\ Get(q).capacity = q.capacity
        /\ Get(q).dropOldest = q.dropOldest
    BY DEF Get, Queue
  <1>2. CASE q.items = <<>>
    BY <1>2, GetType
  <1>3. CASE q.items # <<>>
    BY <1>0, <1>1, <1>3, GetMoves DEF QueueBounded, Queue
  <1> QED BY <1>2, <1>3

LEMMA CloseBounded ==
  ASSUME NEW S, NEW q \in Queue(S), QueueBounded(q)
  PROVE  /\ QueueBounded(Close(q)) /\ Close(q).items = q.items /\ Close(q).dropped = q.dropped
         /\ QueueBounded(Abort(q)) /\ Abort(q).items = <<>> /\ Abort(q).dropped = q.dropped
         /\ Close(q).closed /\ Abort(q).closed
  <1>1. /\ Close(q).items = q.items /\ Abort(q).items = <<>> /\ Close(q).closed /\ Abort(q).closed
        /\ Close(q).dropped = q.dropped /\ Abort(q).dropped = q.dropped
        /\ Close(q).dropOldest = q.dropOldest /\ Abort(q).dropOldest = q.dropOldest
        /\ Close(q).capacity = q.capacity /\ Abort(q).capacity = q.capacity
    BY DEF Close, Abort, Queue
  <1>2. Len(<<>>) = 0 /\ q.capacity \in Nat
    BY EmptySeq DEF Queue
  <1> QED BY <1>1, <1>2 DEF QueueBounded

-------------------------------------------------------------------------------
(* Types.                                                                      *)
LEMMA TypeInvInit == Init => TypeInv
  <1> SUFFICES ASSUME NEW options \in Runs, args = options, StreamInit(options)
               PROVE  TypeInv
    BY DEF Init
  <1>1. args \in RunOptions
    BY CameraAssumption
  <1>2. Capacity(options) \in Nat /\ Capacity(options) >= 2
    BY <1>1 DEF Capacity, Preroll, RunOptions
  <1>3. QueueBounded(outgoing) /\ QueueBounded(returned)
    BY <1>2, EmptySeq DEF StreamInit, NewQueue, QueueBounded
  <1>4. PcsOK
    BY DEF StreamInit, PcsOK
  <1>5. SourceBounded
    BY CameraAssumption DEF StreamInit, SourceBounded, One
  <1>6. FailureInv
    BY DEF StreamInit, FailureInv, Stops, Pc, Threads
  <1>7. args \in Runs /\ iv <= CounterLimit
    BY CameraAssumption DEF StreamInit
  <1> QED BY <1>3, <1>4, <1>5, <1>6, <1>7 DEF TypeInv

LEMMA TypeInvCompress ==
  ASSUME StreamType, TypeInv, CompressStage PROVE TypeInv'
  <1>0. /\ UNCHANGED <<args, iv, returned, link, decrypt, failure, errors>>
        /\ compress \in CompressRecord /\ source \in SourceRecord /\ outgoing \in Queue(Frames)
    BY DEF CompressStage, Read, Encode, ClearRequest, PutOutgoing, EndCompress, StreamType, CompressType, OutgoingType
  <1>1. compress'.pc \in {"read", "encode", "put", "clear", "close", "done"}
    <2>1. CASE Read \/ ClearRequest \/ PutOutgoing \/ EndCompress
      BY <1>0, <2>1 DEF Read, ClearRequest, PutOutgoing, EndCompress, CompressRecord
    <2>2. CASE Encode
      BY <2>2 DEF Encode
    <2> QED BY <2>1, <2>2 DEF CompressStage
  <1>2. PcsOK'
    BY <1>0, <1>1 DEF TypeInv, PcsOK, ErrorPcs
  <1>3. FailureInv'
    BY <1>0, <1>1 DEF TypeInv, FailureInv, Stops
  <1>4. QueueBounded(outgoing')
    <2>1. CASE PutOutgoing
      <3>1. compress.frame \in Frames
        BY <2>1 DEF PutOutgoing, StreamType, CompressType
      <3> QED BY <1>0, <2>1, <3>1, PutBounded DEF PutOutgoing, TypeInv
    <2>2. CASE EndCompress
      BY <1>0, <2>2, CloseBounded DEF EndCompress, TypeInv
    <2>3. CASE outgoing' = outgoing
      BY <2>3 DEF TypeInv
    <2> QED BY <2>1, <2>2, <2>3 DEF CompressStage, Read, Encode, ClearRequest
  <1>5. SourceBounded'
    <2>0. /\ source.given \in Nat /\ source.dropped \in Nat /\ compress.encoded \in Nat /\ FrameCount \in Nat
          /\ SourceBounded
      BY <1>0, CameraAssumption DEF SourceRecord, CompressRecord, TypeInv
    <2>1. CASE Read
      <3>1. CASE source' = source /\ compress' = [compress EXCEPT !.pc = "close"]
        BY <1>0, <2>0, <2>1, <3>1 DEF Read, SourceBounded, CompressRecord, One
      <3>2. CASE /\ compress' = [compress EXCEPT !.pc = "encode"] /\ HasFrame /\ args.live
                 /\ source' = [source EXCEPT !.slot = FALSE]
        BY <1>0, <2>0, <2>1, <3>2 DEF Read, SourceBounded, CompressRecord, SourceRecord, One, HasFrame
      <3>3. CASE /\ compress' = [compress EXCEPT !.pc = "encode"] /\ HasFrame /\ ~args.live
                 /\ source' = [source EXCEPT !.given = @ + 1]
        BY <1>0, <2>0, <2>1, <3>3 DEF Read, SourceBounded, CompressRecord, SourceRecord, One, HasFrame
      <3> QED BY <2>1, <3>1, <3>2, <3>3 DEF Read, TakeFrame
    <2>2. CASE Encode
      <3>1. source' = source /\ compress'.encoded = compress.encoded + 1 /\ compress'.pc \in {"clear", "put"} /\ compress.pc = "encode"
        BY <2>2 DEF Encode
      <3> QED BY <1>0, <2>0, <3>1 DEF SourceBounded, One
    <2>3. CASE ClearRequest \/ PutOutgoing \/ EndCompress
      <3>1. source' = source /\ compress'.encoded = compress.encoded /\ compress'.pc # "encode" /\ compress.pc # "encode"
        BY <1>0, <2>3 DEF ClearRequest, PutOutgoing, EndCompress, CompressRecord
      <3> QED BY <1>0, <2>0, <3>1 DEF SourceBounded, One
    <2> QED BY <2>1, <2>2, <2>3 DEF CompressStage
  <1> QED BY <1>0, <1>2, <1>3, <1>4, <1>5 DEF TypeInv

LEMMA TypeInvLink ==
  ASSUME StreamType, TypeInv, LinkStage PROVE TypeInv'
  <1>0. /\ UNCHANGED <<args, source, compress, decrypt, failure, errors>>
        /\ link \in LinkRecord /\ outgoing \in Queue(Frames) /\ returned \in Queue(Packets)
    BY DEF LinkStage, Fill, GetFrame, Exchange, DecryptInIp, PutReturned, EndLink, StreamType, LinkType, OutgoingType, ReturnedType
  <1>1. link'.pc \in {"get", "abort", "exchange", "decrypt", "put", "except", "close", "done"}
    <2>1. CASE Fill \/ GetFrame \/ DecryptInIp \/ PutReturned \/ EndLink
      BY <1>0, <2>1 DEF Fill, GetFrame, DecryptInIp, PutReturned, EndLink, LinkRecord
    <2>2. CASE Exchange
      BY <1>0, <2>2 DEF Exchange, LinkRecord
    <2> QED BY <2>1, <2>2 DEF LinkStage
  <1>2. PcsOK'
    BY <1>0, <1>1 DEF TypeInv, PcsOK, ErrorPcs
  <1>3. FailureInv'
    BY <1>0, <1>1 DEF TypeInv, FailureInv, Stops
  <1>4. QueueBounded(outgoing') /\ QueueBounded(returned')
    <2>1. CASE GetFrame
      BY <1>0, <2>1, GetBounded DEF GetFrame, TypeInv
    <2>2. CASE PutReturned
      <3>1. link.item \in Packets
        BY <2>2 DEF PutReturned, StreamType, LinkType
      <3> QED BY <1>0, <2>2, <3>1, PutBounded DEF PutReturned, TypeInv
    <2>3. CASE EndLink
      BY <1>0, <2>3, CloseBounded DEF EndLink, TypeInv
    <2>4. CASE Fill \/ Exchange \/ DecryptInIp
      BY <2>4 DEF Fill, Exchange, DecryptInIp, TypeInv
    <2> QED BY <2>1, <2>2, <2>3, <2>4 DEF LinkStage
  <1>5. iv' <= CounterLimit
    <2>1. CASE Exchange
      <3>1. CASE iv' = iv
        BY <3>1 DEF TypeInv
      <3>2. CASE iv' # iv
        <4>1. link.item \in Frames
          BY <2>1 DEF Exchange, StreamType, LinkType
        <4>2. link.item.chunks \in Nat /\ iv \in Nat /\ CounterLimit \in Nat
          BY <4>1, CameraAssumption DEF Frames, StreamType, HistoryType
        <4>3. iv' = Advance(iv, link.item.chunks) /\ ~(Advance(iv, link.item.chunks) > CounterLimit)
          BY <2>1, <3>2 DEF Exchange
        <4> QED BY <4>2, <4>3 DEF Advance
      <3> QED BY <3>1, <3>2
    <2>2. CASE ~Exchange
      <3>1. iv' = iv
        BY <2>2 DEF LinkStage, Fill, GetFrame, DecryptInIp, PutReturned, EndLink
      <3> QED BY <3>1 DEF TypeInv
    <2> QED BY <2>1, <2>2
  <1>6. SourceBounded'
    BY <1>0 DEF TypeInv, SourceBounded, One
  <1> QED BY <1>0, <1>2, <1>3, <1>4, <1>5, <1>6 DEF TypeInv

LEMMA TypeInvDecrypt ==
  ASSUME StreamType, TypeInv, DecryptStage PROVE TypeInv'
  <1>0. /\ UNCHANGED <<args, iv, source, compress, link, outgoing, failure, errors>>
        /\ decrypt \in DecryptRecord /\ returned \in Queue(Packets)
    BY DEF DecryptStage, GetReturned, Restore, RequestKeyFrame, Publish, EndDecrypt, StreamType, DecryptType, ReturnedType
  <1>1. decrypt'.pc \in {"get", "restore", "request", "publish", "end", "done"}
    BY <1>0 DEF DecryptStage, GetReturned, Restore, RequestKeyFrame, Publish, EndDecrypt, DecryptRecord
  <1>2. PcsOK'
    BY <1>0, <1>1 DEF TypeInv, PcsOK, ErrorPcs
  <1>3. FailureInv'
    BY <1>0, <1>1 DEF TypeInv, FailureInv, Stops
  <1>4. QueueBounded(returned')
    BY <1>0, GetBounded DEF DecryptStage, GetReturned, Restore, RequestKeyFrame, Publish, EndDecrypt, TypeInv
  <1>5. SourceBounded'
    BY <1>0 DEF TypeInv, SourceBounded, One
  <1> QED BY <1>0, <1>2, <1>3, <1>4, <1>5 DEF TypeInv

(* Handlers keep what they read of failure, or themselves if it was none.      *)
LEMMA FailureInvHandlers ==
  ASSUME StreamType, TypeInv, NEW t \in Threads, Error(t) \/ Handler(t) PROVE FailureInv'
  <1>0. /\ errors \in [count : Nat, seen : [Threads -> Threads \cup {NoThread}]] /\ failure \in Threads \cup {NoThread}
        /\ FailureInv
    BY DEF TypeInv, FailureInv
  <1>1. t # NoThread
    BY DEF Threads, NoThread
  <1>2. compress \in CompressRecord /\ link \in LinkRecord /\ decrypt \in DecryptRecord
    BY DEF StreamType, CompressType, LinkType, DecryptType
  <1>3. CASE Error(t) \/ ReadFailure(t)
    <2>1. failure' = failure
      BY <1>3 DEF Error, ReadFailure
    <2>2. errors' \in [count : Nat, seen : [Threads -> Threads \cup {NoThread}]]
      BY <1>0, <1>3 DEF Error, ReadFailure
    <2>3. PICK pc \in {"except", "keep"} : SetPc(t, pc)
      BY <1>3 DEF Error, ReadFailure
    <2>4. /\ compress'.pc = compress.pc \/ compress'.pc \in {"except", "keep"}
          /\ link'.pc = link.pc \/ link'.pc \in {"except", "keep"}
          /\ decrypt'.pc = decrypt.pc \/ decrypt'.pc \in {"except", "keep"}
      BY <1>2, <2>3 DEF SetPc, CompressRecord, LinkRecord, DecryptRecord
    <2> QED BY <1>0, <2>1, <2>2, <2>4 DEF FailureInv, Stops
  <1>4. CASE KeepFailure(t)
    <2>1. errors.seen[t] \in Threads \cup {NoThread} /\ errors' = errors
      BY <1>0, <1>4 DEF KeepFailure
    <2>2. failure' \in Threads
      BY <1>4, <2>1 DEF KeepFailure, Threads, NoThread
    <2> QED BY <1>0, <2>1, <2>2 DEF FailureInv, Threads, NoThread
  <1>5. CASE StopAll(t)
    <2>1. failure' = failure /\ errors' = errors
      BY <1>5 DEF StopAll
    <2>2. Pc(t) \in Stops
      BY <1>5 DEF StopAll, Stops
    <2>3. failure # NoThread
      BY <1>0, <2>2 DEF FailureInv, Threads, Pc
    <2> QED BY <1>0, <2>1, <2>3 DEF FailureInv
  <1> QED BY <1>3, <1>4, <1>5 DEF Handler

LEMMA TypeInvHandlers ==
  ASSUME StreamType, TypeInv, NEW t \in Threads, Error(t) \/ Handler(t) PROVE TypeInv'
  <1>0. UNCHANGED <<args, source, iv>>
    BY HandlerSteps
  <1>1. PICK pc \in ErrorPcs : SetPc(t, pc)
    BY HandlerSteps
  <1>2. compress'.encoded = compress.encoded /\ (compress'.pc = compress.pc \/ compress'.pc \in ErrorPcs)
        /\ (link'.pc = link.pc \/ link'.pc \in ErrorPcs) /\ (decrypt'.pc = decrypt.pc \/ decrypt'.pc \in ErrorPcs)
    BY <1>1, SetPcKeeps
  <1>3. PcsOK'
    BY <1>2 DEF TypeInv, PcsOK
  <1>4. QueueBounded(outgoing') /\ QueueBounded(returned')
    <2>1. outgoing \in Queue(Frames) /\ returned \in Queue(Packets)
      BY DEF StreamType, OutgoingType, ReturnedType
    <2> QED BY <2>1, HandlerSteps, CloseBounded DEF TypeInv
  <1>5. SourceBounded'
    <2>1. compress'.pc = "encode" => compress.pc = "encode"
      BY <1>2 DEF ErrorPcs
    <2>2. /\ source.given \in Nat /\ source.dropped \in Nat /\ compress.encoded \in Nat /\ FrameCount \in Nat
          /\ SourceBounded
      BY CameraAssumption DEF SourceRecord, CompressRecord, TypeInv, StreamType, CompressType
    <2> QED BY <1>0, <1>2, <2>1, <2>2 DEF SourceBounded, One
  <1> QED BY <1>0, <1>3, <1>4, <1>5, FailureInvHandlers DEF TypeInv

LEMMA TypeInvOthers ==
  ASSUME StreamType, TypeInv, Others PROVE TypeInv'
  <1>0. /\ UNCHANGED <<args, iv, compress, link, decrypt>> /\ outgoing \in Queue(Frames) /\ returned \in Queue(Packets)
    BY OtherSteps DEF StreamType, OutgoingType, ReturnedType
  <1>1. UNCHANGED <<failure, errors>>
    BY DEF Others, Grab, Window, Redraw, LoopEnds, Stop, Finish, HoldEnds, UserCloses, Terminated, vars
  <1>2. PcsOK' /\ FailureInv'
    BY <1>0, <1>1 DEF TypeInv, PcsOK, FailureInv, Stops
  <1>3. QueueBounded(outgoing') /\ QueueBounded(returned')
    BY <1>0, OtherSteps, CloseBounded DEF TypeInv
  <1>4. SourceBounded'
    <2>0. /\ source \in SourceRecord /\ source.given \in Nat /\ source.dropped \in Nat /\ compress.encoded \in Nat
          /\ FrameCount \in Nat /\ SourceBounded
      BY CameraAssumption DEF SourceRecord, CompressRecord, TypeInv, StreamType, CompressType
    <2>1. CASE Grab
      <3>1. CASE source.given < FrameCount
        <4> DEFINE lost == IF source.slot /\ ~args.fps THEN 1 ELSE 0
        <4>1. args.live /\ source' = [source EXCEPT !.given = @ + 1, !.slot = TRUE, !.dropped = @ + lost]
          BY <2>1, <3>1 DEF Grab
        <4>2. source'.given = source.given + 1 /\ source'.slot /\ source'.dropped = source.dropped + lost
          BY <2>0, <4>1 DEF SourceRecord
        <4>3. (lost = 0 /\ ~source.slot) \/ (lost <= 1 /\ lost >= 0 /\ source.slot)
          OBVIOUS
        <4> HIDE DEF lost
        <4>4. lost \in {0, 1}
          BY DEF lost
        <4> QED BY <1>0, <2>0, <3>1, <4>1, <4>2, <4>3, <4>4 DEF SourceBounded, One
      <3>2. CASE ~(source.given < FrameCount)
        <4>1. source' = [source EXCEPT !.running = FALSE]
          BY <2>1, <3>2 DEF Grab
        <4>2. source'.given = source.given /\ source'.slot = source.slot /\ source'.dropped = source.dropped
          BY <2>0, <4>1 DEF SourceRecord
        <4> QED BY <1>0, <2>0, <4>2 DEF SourceBounded, One
      <3> QED BY <3>1, <3>2
    <2>2. CASE ~Grab
      <3>1. source'.given = source.given /\ source'.slot = source.slot /\ source'.dropped = source.dropped
        BY <2>0, <2>2 DEF Others, Window, Redraw, LoopEnds, Stop, Finish, HoldEnds, UserCloses, Terminated, vars, SourceRecord
      <3> QED BY <1>0, <2>0, <3>1 DEF SourceBounded, One
    <2> QED BY <2>1, <2>2
  <1> QED BY <1>0, <1>2, <1>3, <1>4 DEF TypeInv

LEMMA TypeInvNext == StreamType /\ TypeInv /\ [Next]_vars => TypeInv'
  BY NextCases, TypeInvCompress, TypeInvLink, TypeInvDecrypt, TypeInvOthers, TypeInvHandlers

-------------------------------------------------------------------------------
(* The window.                                                                 *)

(* Who touches the window's state: the decrypt stage publishes, the main       *)
(* thread takes and leaves.                                                    *)
LEMMA WindowKept ==
  ASSUME [Next]_vars, ~Publish, ~Redraw, ~HoldEnds
  PROVE  UNCHANGED <<view, playback>>
  BY DEF Next, Grab, CompressStage, Read, Encode, ClearRequest, PutOutgoing, EndCompress,
         LinkStage, Fill, GetFrame, Exchange, DecryptInIp, PutReturned, EndLink,
         DecryptStage, GetReturned, Restore, RequestKeyFrame, EndDecrypt,
         Error, Handler, ReadFailure, KeepFailure, StopAll, Window, LoopEnds, UserCloses, Stop, Finish, Terminated, vars

(* Stats.frames counts what was published.                                     *)
LEMMA FramesKept ==
  ASSUME StreamType, [Next]_vars, ~Publish PROVE stats'.frames = stats.frames /\ args' = args
  <1>0. stats \in StatsRecord
    BY DEF StreamType
  <1>1. CASE CompressStage
    BY <1>1 DEF CompressStage, Read, Encode, ClearRequest, PutOutgoing, EndCompress
  <1>2. CASE LinkStage
    BY <1>2 DEF LinkStage, Fill, GetFrame, Exchange, DecryptInIp, PutReturned, EndLink
  <1>3. CASE DecryptStage
    BY <1>0, <1>3 DEF DecryptStage, GetReturned, Restore, RequestKeyFrame, EndDecrypt, StatsRecord
  <1>4. CASE Others
    BY <1>4, OtherSteps
  <1>5. CASE \E t \in Threads : Error(t) \/ Handler(t)
    BY <1>5, HandlerSteps
  <1> QED BY <1>1, <1>2, <1>3, <1>4, <1>5, NextCases

(* A stage that has ended takes no further step.                               *)
LEMMA DoneStays ==
  ASSUME StreamType, [Next]_vars
  PROVE  /\ compress.pc = "done" => compress'.pc = "done"
         /\ link.pc = "done" => link'.pc = "done"
         /\ decrypt.pc = "done" => decrypt'.pc = "done"
  <1>1. CASE CompressStage
    BY <1>1 DEF CompressStage, Read, Encode, ClearRequest, PutOutgoing, EndCompress
  <1>2. CASE LinkStage
    BY <1>2 DEF LinkStage, Fill, GetFrame, Exchange, DecryptInIp, PutReturned, EndLink
  <1>3. CASE DecryptStage
    BY <1>3 DEF DecryptStage, GetReturned, Restore, RequestKeyFrame, Publish, EndDecrypt
  <1>4. CASE Others
    BY <1>4, OtherSteps
  <1>5. CASE \E t \in Threads : Error(t) \/ Handler(t)
    <2>1. PICK t \in Threads : Error(t) \/ Handler(t)
      BY <1>5
    <2>2. PICK pc \in ErrorPcs : SetPc(t, pc)
      BY <2>1, HandlerSteps
    <2>3. Pc(t) # "done"
      <3>1. CASE Error(t)
        <4>1. Pc(t) \in Raising[t]
          BY <3>1 DEF Error
        <4>2. \A u \in Threads : "done" \notin Raising[u]
          BY DEF Raising, Threads
        <4> QED BY <4>1, <4>2
      <3>2. CASE Handler(t)
        BY <3>2, Zenon DEF Handler, ReadFailure, KeepFailure, StopAll
      <3> QED BY <2>1, <3>1, <3>2
    <2>4. CASE t = "compress"
      <3>1. compress.pc # "done" /\ link' = link /\ decrypt' = decrypt
        BY <2>2, <2>3, <2>4, SetPcKeeps DEF Pc
      <3> QED BY <3>1
    <2>5. CASE t = "link"
      <3>1. link.pc # "done" /\ compress' = compress /\ decrypt' = decrypt
        BY <2>2, <2>3, <2>5, SetPcKeeps DEF Pc
      <3> QED BY <3>1
    <2>6. CASE t = "decrypt"
      <3>1. decrypt.pc # "done" /\ compress' = compress /\ link' = link
        BY <2>2, <2>3, <2>6, SetPcKeeps DEF Pc
      <3> QED BY <3>1
    <2> QED BY <2>4, <2>5, <2>6 DEF Threads
  <1> QED BY <1>1, <1>2, <1>3, <1>4, <1>5, NextCases

(* The main thread goes to its own stop only from the loop, once every stage   *)
(* has ended and nothing is left to show.                                      *)
LEMMA LoopEndsOnce ==
  ASSUME [Next]_vars, main' = "stop outgoing", main # "stop outgoing"
  PROVE  /\ args.window /\ playback = <<>> /\ UNCHANGED <<view, playback, args, stats>>
         /\ compress.pc = "done" /\ link.pc = "done" /\ decrypt.pc = "done"
         /\ UNCHANGED <<compress, link, decrypt, source, outgoing, returned, failure, errors>>
  <1>1. LoopEnds
    BY DEF Next, Grab, CompressStage, Read, Encode, ClearRequest, PutOutgoing, EndCompress,
           LinkStage, Fill, GetFrame, Exchange, DecryptInIp, PutReturned, EndLink,
           DecryptStage, GetReturned, Restore, RequestKeyFrame, Publish, EndDecrypt,
           Error, Handler, ReadFailure, KeepFailure, StopAll, Window, Redraw, HoldEnds, UserCloses, Stop, Finish,
           Terminated, vars
  <1>2. Pc("compress") = "done" /\ Pc("link") = "done" /\ Pc("decrypt") = "done"
    BY <1>1 DEF LoopEnds, WindowEnds, Alive, Threads
  <1> QED BY <1>1, <1>2 DEF LoopEnds, WindowEnds, Pc

(* The frame drawn, and the verdict shown beside it.                           *)
LEMMA RedrawTakes ==
  ASSUME ViewInv, Redraw
  PROVE  \E due \in 1..Len(playback) :
           /\ playback' \in Seq(Result) /\ Len(playback') = Len(playback) - due
           /\ \A i \in 1..Len(playback') : playback'[i] = playback[due + i]
           /\ ViewRecord(view') /\ view'.shown = view.shown + due
           /\ (\E i \in 1..due : ~playback[i].pass) => ThirdPanel(view') = Fail
  <1>1. PICK due \in 1..Len(playback) :
          /\ view' = TakeResults(view, SubSeq(playback, 1, due))
          /\ playback' = SubSeq(playback, due + 1, Len(playback))
    BY DEF Redraw
  <1>2. /\ playback \in Seq(Result) /\ Len(playback) \in Nat /\ due \in Nat /\ due >= 1 /\ due <= Len(playback)
        /\ \A i \in 1..Len(playback) : playback[i] \in Result /\ playback[i].number = view.shown + i
    BY ElementOfSeq, LenProperties DEF ViewInv
  <1> DEFINE taken == SubSeq(playback, 1, due)
  <1>3. taken \in Seq(Result) /\ Len(taken) = due /\ \A i \in 1..due : taken[i] = playback[i]
    <2>1. 1 \in Int /\ due \in Int /\ \A i \in 1..due : playback[i] \in Result
      BY <1>2
    <2>2. /\ taken \in Seq(Result) /\ Len(taken) = IF 1 <= due THEN due - 1 + 1 ELSE 0
          /\ \A i \in 1..(due - 1 + 1) : taken[i] = playback[1 + i - 1]
      BY <2>1, SubSeqProperties
    <2> HIDE DEF taken
    <2>3. \A i \in 1..due : i \in 1..(due - 1 + 1) /\ 1 + i - 1 = i
      BY <1>2
    <2> QED BY <1>2, <2>2, <2>3
  <1>4. /\ playback' \in Seq(Result) /\ Len(playback') = Len(playback) - due
        /\ \A i \in 1..Len(playback') : playback'[i] = playback[due + i]
    <2>1. due + 1 \in Int /\ Len(playback) \in Int /\ \A i \in (due + 1)..Len(playback) : playback[i] \in Result
      BY <1>2
    <2>2. /\ playback' \in Seq(Result)
          /\ Len(playback') = IF due + 1 <= Len(playback) THEN Len(playback) - (due + 1) + 1 ELSE 0
          /\ \A i \in 1..(Len(playback) - (due + 1) + 1) : playback'[i] = playback[(due + 1) + i - 1]
      BY <1>1, <2>1, SubSeqProperties
    <2>3. Len(playback') = Len(playback) - due
      BY <1>2, <2>2
    <2>4. \A i \in 1..Len(playback') : i \in 1..(Len(playback) - (due + 1) + 1) /\ (due + 1) + i - 1 = due + i
      BY <1>2, <2>3
    <2> QED BY <2>2, <2>3, <2>4
  <1> DEFINE last == taken[Len(taken)]
  <1>5. last \in Result /\ last.number = view.shown + due
    BY <1>2, <1>3
  <1>6. DOMAIN taken = 1..due
    BY <1>3, LenProperties
  <1>7. view' = [view EXCEPT !.shown = last.number, !.plain = Picture(last, view.plain),
                             !.hold = view.hold \/ AnyFailed(taken),
                             !.failed = IF AnyFailed(taken) THEN LastFailed(taken) ELSE view.failed,
                             !.started = TRUE]
    BY <1>1 DEF TakeResults
  <1> HIDE DEF taken, last
  <1>8. /\ view'.shown = last.number /\ view'.plain = Picture(last, view.plain)
        /\ view'.hold = (view.hold \/ AnyFailed(taken)) /\ view'.started = TRUE
        /\ view' = [shown |-> view'.shown, plain |-> view'.plain, hold |-> view'.hold, failed |-> view'.failed,
                    started |-> view'.started]
    BY <1>7, Zenon DEF ViewInv, ViewRecord
  <1>9. view'.hold \in BOOLEAN /\ (AnyFailed(taken) => view'.hold)
    BY <1>8
  <1>10. ViewRecord(view')
    <2>1. last.number \in Nat /\ view'.plain \in {NoPicture, last.number}
      BY <1>2, <1>5, <1>8 DEF Picture, Result
    <2> QED BY <1>8, <1>9, <2>1 DEF ViewRecord
  <1>11. (\E i \in 1..due : ~playback[i].pass) => ThirdPanel(view') = Fail
    <2>1. (\E i \in 1..due : ~playback[i].pass) => AnyFailed(taken)
      BY <1>3, <1>6 DEF AnyFailed
    <2> QED BY <1>8, <1>9, <2>1 DEF ThirdPanel
  <1> QED BY <1>4, <1>5, <1>8, <1>10, <1>11

LEMMA ViewInvInit == Init => ViewInv /\ CloseInv
  <1> SUFFICES ASSUME NEW options \in Runs, args = options, StreamInit(options)
               PROVE  ViewInv /\ CloseInv
    BY DEF Init
  <1>1. view = NewView /\ playback = <<>> /\ stats.frames = 0 /\ main = "running"
    BY DEF StreamInit
  <1>2. playback \in Seq(Result) /\ Len(playback) = 0
    BY <1>1, EmptySeq
  <1>3. ViewRecord(view) /\ view.shown = 0
    BY <1>1 DEF ViewRecord, NewView, NoPicture
  <1>4. CloseInv
    BY <1>1 DEF CloseInv
  <1> QED BY <1>1, <1>2, <1>3, <1>4 DEF ViewInv

LEMMA ViewInvNext == StreamType /\ ViewInv /\ [Next]_vars => ViewInv'
  <1> SUFFICES ASSUME StreamType, ViewInv, [Next]_vars PROVE ViewInv'
    OBVIOUS
  <1>0. /\ playback \in Seq(Result) /\ Len(playback) \in Nat /\ view.shown \in Nat /\ stats \in StatsRecord
        /\ stats.frames \in Nat
    BY LenProperties DEF ViewInv, ViewRecord, StreamType, StatsRecord
  <1>1. CASE Publish
    <2>1. /\ view' = view /\ args' = args /\ decrypt.item.pass \in BOOLEAN /\ decrypt.skipped \in BOOLEAN
          /\ stats'.frames = stats.frames + 1
      BY <1>0, <1>1 DEF Publish, StreamType, DecryptType, DecryptRecord, Packets, StatsRecord
    <2>2. CASE ~args.window
      <3>1. playback' = playback
        BY <1>1, <2>2 DEF Publish
      <3> QED BY <2>1, <2>2, <3>1 DEF ViewInv, ViewRecord
    <2>3. CASE args.window
      <3> DEFINE result == [number |-> stats.frames + 1, pass |-> decrypt.item.pass, waiting |-> decrypt.skipped]
      <3>1. playback' = Append(playback, result) /\ result \in Result /\ result.number = stats.frames + 1
        BY <1>0, <1>1, <2>1, <2>3 DEF Publish, Result
      <3> HIDE DEF result
      <3>2. /\ playback' \in Seq(Result) /\ Len(playback') = Len(playback) + 1
            /\ \A i \in 1..Len(playback) : playback'[i] = playback[i]
            /\ playback'[Len(playback) + 1] = result
        BY <1>0, <3>1, AppendProperties
      <3>3. stats.frames = view.shown + Len(playback) /\ \A i \in 1..Len(playback) : playback[i].number = view.shown + i
        BY <2>3 DEF ViewInv
      <3>4. \A i \in 1..Len(playback') : playback'[i].number = view.shown + i
        <4> TAKE i \in 1..Len(playback')
        <4>1. CASE i \in 1..Len(playback)
          BY <3>2, <3>3, <4>1
        <4>2. CASE i = Len(playback) + 1
          <5>1. playback'[i] = result
            BY <3>2, <4>2
          <5>2. stats.frames + 1 = view.shown + i
            <6>1. stats.frames \in Nat /\ Len(playback) \in Nat /\ view.shown \in Nat
              BY <1>0
            <6>2. stats.frames = view.shown + Len(playback)
              BY <3>3
            <6>3. stats.frames + 1 = view.shown + (Len(playback) + 1)
              BY <6>1, <6>2
            <6> QED BY <4>2, <6>3
          <5> QED BY <3>1, <5>1, <5>2
        <4> QED BY <1>0, <3>2, <4>1, <4>2
      <3> QED BY <1>0, <2>1, <3>2, <3>3, <3>4 DEF ViewInv, ViewRecord
    <2> QED BY <2>2, <2>3
  <1>2. CASE Redraw
    <2>1. stats' = stats /\ args' = args
      BY <1>2 DEF Redraw
    <2>2. PICK due \in 1..Len(playback) :
            /\ playback' \in Seq(Result) /\ Len(playback') = Len(playback) - due
            /\ \A i \in 1..Len(playback') : playback'[i] = playback[due + i]
            /\ ViewRecord(view') /\ view'.shown = view.shown + due
      BY <1>2, RedrawTakes
    <2>3. \A i \in 1..Len(playback) : playback[i].number = view.shown + i
      BY DEF ViewInv
    <2>4. \A i \in 1..Len(playback') : playback'[i].number = view'.shown + i
      <3> TAKE i \in 1..Len(playback')
      <3>1. due + i \in 1..Len(playback) /\ view.shown + (due + i) = view'.shown + i
        BY <1>0, <2>2
      <3> QED BY <2>2, <2>3, <3>1
    <2>5. args.window => stats.frames = view'.shown + Len(playback')
      BY <1>0, <2>2 DEF ViewInv
    <2> QED BY <2>1, <2>2, <2>4, <2>5 DEF ViewInv, ViewRecord
  <1>3. CASE HoldEnds
    <2>1. view' = [view EXCEPT !.hold = FALSE] /\ UNCHANGED <<playback, stats, args>>
      BY <1>3 DEF HoldEnds
    <2>2. ViewRecord(view') /\ view'.shown = view.shown
      BY <2>1 DEF ViewInv, ViewRecord
    <2> QED BY <2>1, <2>2 DEF ViewInv, ViewRecord
  <1>4. CASE ~Publish /\ ~Redraw /\ ~HoldEnds
    <2>1. UNCHANGED <<view, playback>> /\ stats'.frames = stats.frames /\ args' = args
      BY <1>4, WindowKept, FramesKept
    <2> QED BY <2>1 DEF ViewInv, ViewRecord
  <1> QED BY <1>1, <1>2, <1>3, <1>4

LEMMA CloseInvNext == StreamType /\ CloseInv /\ [Next]_vars => CloseInv'
  <1> SUFFICES ASSUME StreamType, CloseInv, [Next]_vars, main' = "stop outgoing"
               PROVE  args'.window /\ playback' = <<>> /\ decrypt'.pc = "done"
    BY DEF CloseInv
  <1>1. CASE main # "stop outgoing"
    BY <1>1, LoopEndsOnce, Zenon
  <1>2. CASE main = "stop outgoing"
    <2>1. args.window /\ playback = <<>> /\ decrypt.pc = "done"
      BY <1>2 DEF CloseInv
    <2>2. decrypt'.pc = "done"
      BY <2>1, DoneStays
    <2>3. ~Publish
      BY <2>1 DEF Publish
    <2>4. ~Redraw /\ ~HoldEnds
      BY <1>2, Zenon DEF Redraw, HoldEnds
    <2> QED BY <2>1, <2>2, <2>3, <2>4, WindowKept, FramesKept
  <1> QED BY <1>1, <1>2

-------------------------------------------------------------------------------
LEMMA FrameTypes == Spec => [](StreamType /\ TypeInv /\ ViewInv /\ CloseInv)
  <1> DEFINE Inv == StreamType /\ TypeInv /\ ViewInv /\ CloseInv
  <1>1. Init => Inv
    BY StreamTypeInit, TypeInvInit, ViewInvInit
  <1>2. Inv /\ [Next]_vars => Inv'
    BY StreamTypeNext, TypeInvNext, ViewInvNext, CloseInvNext
  <1> QED BY <1>1, <1>2, PTL DEF Spec

(* Every part of the pipeline's state keeps its type, no queue ever holds more *)
(* than its capacity, and only the queue of a live JPEG run drops a frame      *)
(* (pipeline.py:112-165, camera.py:289-303).                                   *)
THEOREM CameraTypeCorrect == Spec => []CameraTypeOK
  <1>1. StreamType /\ TypeInv => CameraTypeOK
    <2> SUFFICES ASSUME StreamType, TypeInv PROVE CameraTypeOK
      OBVIOUS
    <2>1. /\ args \in Runs /\ PcsOK /\ wantKey \in BOOLEAN /\ waitingKey \in BOOLEAN
          /\ failure \in Threads \cup {NoThread}
      BY DEF TypeInv, FailureInv, StreamType, KeyType
    <2>2. /\ source \in SourceRecord /\ compress \in CompressRecord /\ link \in LinkRecord
          /\ decrypt \in DecryptRecord /\ outgoing \in Queue(Frames) /\ returned \in Queue(Packets)
          /\ outgoing.dropOldest = Drops(args) /\ returned.dropOldest = FALSE /\ args \in RunOptions
      BY DEF StreamType, CompressType, LinkType, DecryptType, OutgoingType, ReturnedType
    <2>3. source \in [given : 0..FrameCount, slot : BOOLEAN, running : BOOLEAN, dropped : 0..FrameCount]
          /\ compress.encoded \in 0..FrameCount
      <3>1. /\ source.given \in Nat /\ source.dropped \in Nat /\ compress.encoded \in Nat /\ FrameCount \in Nat
            /\ SourceBounded
        BY <2>2, CameraAssumption DEF SourceRecord, CompressRecord, TypeInv
      <3>2. source.given <= FrameCount /\ source.dropped <= FrameCount /\ compress.encoded <= FrameCount
        BY <3>1 DEF SourceBounded, One
      <3>3. source.given \in 0..FrameCount /\ source.dropped \in 0..FrameCount /\ compress.encoded \in 0..FrameCount
        BY <3>1, <3>2
      <3> QED BY <2>2, <3>3 DEF SourceRecord
    <2>4. QueueOK(outgoing, Frames) /\ QueueOK(returned, Packets)
      BY <2>2 DEF QueueOK, Queue, QueueBounded, TypeInv
    <2>5. outgoing.dropped > 0 => args.live /\ args.jpeg
      <3>1. ~outgoing.dropOldest => outgoing.dropped = 0
        BY DEF TypeInv, QueueBounded
      <3>2. outgoing.dropOldest => args.live /\ args.jpeg
        BY <2>2 DEF Drops
      <3> QED BY <3>1, <3>2
    <2>6. iv \in 0..CounterLimit
      BY CameraAssumption DEF TypeInv, StreamType, HistoryType
    <2>7. compress.frame \in Frames \cup {NoItem}
      BY <2>2 DEF CompressRecord
    <2>8. link.item \in Frames \cup Packets \cup {NoItem} /\ link.sent \in Nat
      BY <2>2 DEF LinkRecord
    <2>9. decrypt.item \in Packets \cup {NoItem} /\ decrypt.skipped \in BOOLEAN
      BY <2>2 DEF DecryptRecord
    <2> QED BY <2>1, <2>3, <2>4, <2>5, <2>6, <2>7, <2>8, <2>9, Zenon DEF CameraTypeOK, PcsOK
  <1> QED BY <1>1, FrameTypes, PTL

(* camera_view.py:54-62 and 119-160: the third panel shows the frame the other *)
(* panels show, never an older one and never one whose tag failed; a window    *)
(* that closes by itself has shown every frame of the run.                     *)
THEOREM PanelAlwaysHonest == Spec => []PanelHonest
  <1>1. StreamType /\ ViewInv /\ CloseInv => PanelHonest
    <2> SUFFICES ASSUME StreamType, ViewInv, CloseInv PROVE PanelHonest
      OBVIOUS
    <2>1. ThirdPanel(view) \notin {Fail, NoPicture} => ThirdPanel(view) = view.shown
      BY DEF ViewInv, ViewRecord, ThirdPanel
    <2>2. main = "stop outgoing" => playback = <<>> /\ args.window
      BY Zenon DEF CloseInv
    <2>3. playback = <<>> /\ args.window => view.shown = stats.frames
      <3>1. Len(<<>>) = 0
        BY EmptySeq
      <3> QED BY <3>1 DEF ViewInv, ViewRecord
    <2> QED BY <2>1, <2>2, <2>3, Zenon DEF PanelHonest
  <1> QED BY <1>1, FrameTypes, PTL

(* camera_view.py:147-160: a redraw takes every frame that is due and shows    *)
(* FAIL if any of them failed, though it draws the last one only.              *)
THEOREM FailuresAlwaysShown == Spec => FailuresShown
  <1> DEFINE Shown == \A due \in 1..Len(playback) :
                        (/\ playback' = SubSeq(playback, due + 1, Len(playback))
                         /\ \E i \in 1..due : ~playback[i].pass)
                        => ThirdPanel(view') = Fail
  <1>1. ViewInv /\ [Next]_vars => [Shown]_<<view, playback>>
    <2> SUFFICES ASSUME ViewInv, [Next]_vars, NEW due \in 1..Len(playback),
                        playback' = SubSeq(playback, due + 1, Len(playback)), \E i \in 1..due : ~playback[i].pass
                 PROVE  ThirdPanel(view') = Fail
      OBVIOUS
    <2>1. /\ playback \in Seq(Result) /\ Len(playback) \in Nat
          /\ \A i \in 1..Len(playback) : playback[i] \in Result
      BY ElementOfSeq, LenProperties DEF ViewInv
    <2>2. Len(playback') = Len(playback) - due
      <3>1. due + 1 \in Int /\ Len(playback) \in Int /\ \A i \in (due + 1)..Len(playback) : playback[i] \in Result
        BY <2>1
      <3>2. Len(playback') = IF due + 1 <= Len(playback) THEN Len(playback) - (due + 1) + 1 ELSE 0
        BY <3>1, SubSeqProperties
      <3> QED BY <2>1, <3>2
    <2>3. CASE Redraw
      <3>1. PICK d \in 1..Len(playback) :
              /\ Len(playback') = Len(playback) - d
              /\ (\E i \in 1..d : ~playback[i].pass) => ThirdPanel(view') = Fail
        BY <2>3, RedrawTakes
      <3>2. d = due
        BY <2>1, <2>2, <3>1
      <3> QED BY <3>1, <3>2
    <2>4. CASE Publish
      <3>1. Len(playback') \in {Len(playback), Len(playback) + 1}
        <4>1. CASE args.window
          <5>1. PICK result : playback' = Append(playback, result)
            BY <2>4, <4>1 DEF Publish
          <5> QED BY <2>1, <5>1
        <4>2. CASE ~args.window
          BY <2>4, <4>2 DEF Publish
        <4> QED BY <4>1, <4>2
      <3> QED BY <2>1, <2>2, <3>1
    <2>5. CASE ~Redraw /\ ~Publish
      <3>1. playback' = playback
        <4>1. CASE HoldEnds
          BY <4>1 DEF HoldEnds
        <4>2. CASE ~HoldEnds
          BY <2>5, <4>2, WindowKept
        <4> QED BY <4>1, <4>2
      <3> QED BY <2>1, <2>2, <3>1
    <2> QED BY <2>3, <2>4, <2>5
  <1> QED BY <1>1, FrameTypes, PTL DEF Spec, FailuresShown

-------------------------------------------------------------------------------
(* A run that is undisturbed after a step was so before it, and the step was   *)
(* no error's: what stops a run is never undone.                               *)

LEMMA CountInvInit == Init => CountInv
  <1> SUFFICES ASSUME NEW options \in Runs, args = options, StreamInit(options)
               PROVE  CountInv
    BY DEF Init
  <1>1. /\ source = [given |-> 0, slot |-> FALSE, running |-> TRUE, dropped |-> 0]
        /\ compress.pc = "read" /\ link.pc = "preroll" /\ decrypt.pc = "get" /\ stats.frames = 0
        /\ outgoing.items = <<>> /\ ~outgoing.closed /\ outgoing.dropped = 0
        /\ returned.items = <<>> /\ ~returned.closed
    BY DEF StreamInit, NewQueue
  <1>2. Len(<<>>) = 0
    BY EmptySeq
  <1>3. SourceEnds /\ InOrder /\ Counted
    BY <1>1 DEF SourceEnds, InOrder, Counted
  <1>4. Balance
    BY <1>1, <1>2 DEF Balance, Upstream, Midway, Downstream, InCompress, InLink, InDecrypt, InSlot, One
  <1> QED BY <1>3, <1>4 DEF CountInv

LEMMA CalmPcs ==
  ASSUME TypeInv, Calm
  PROVE  /\ compress.pc \in {"read", "encode", "clear", "put", "close", "done"}
         /\ link.pc \in {"preroll", "get", "exchange", "decrypt", "put", "abort", "close", "done"}
         /\ decrypt.pc \in {"get", "restore", "request", "publish", "end", "done"}
  BY Zenon DEF TypeInv, PcsOK, FailureInv, Stops, ErrorPcs, Calm

(* The main thread does not come back once it stops the run.                   *)
LEMMA MainStays == ASSUME [Next]_vars, MainRuns' PROVE MainRuns
  <1>1. CASE UNCHANGED main
    BY <1>1 DEF MainRuns
  <1>2. CASE ~UNCHANGED main
    <2>1. LoopEnds \/ UserCloses \/ Stop \/ Finish
      BY <1>2 DEF Next, Grab, CompressStage, Read, Encode, ClearRequest, PutOutgoing, EndCompress,
           LinkStage, Fill, GetFrame, Exchange, DecryptInIp, PutReturned, EndLink,
           DecryptStage, GetReturned, Restore, RequestKeyFrame, Publish, EndDecrypt,
           Error, Handler, ReadFailure, KeepFailure, StopAll, Window, Redraw, HoldEnds, Terminated, vars
    <2>2. CASE LoopEnds \/ UserCloses
      BY <2>2, Zenon DEF LoopEnds, UserCloses, MainRuns
    <2>3. CASE Stop
      <3>1. main' \in {"stop returned", "finish"}
        BY <2>3, Zenon DEF Stop
      <3> QED BY <3>1, Zenon DEF MainRuns
    <2>4. CASE Finish
      <3>1. main' = "done"
        BY <2>4, Zenon DEF Finish
      <3> QED BY <3>1, Zenon DEF MainRuns
    <2> QED BY <2>1, <2>2, <2>3, <2>4
  <1> QED BY <1>1, <1>2

(* The messages sent only grow in number.                                      *)
LEMMA SentGrows == ASSUME StreamType, [Next]_vars, LimitReached PROVE LimitReached'
  <1>0. link \in LinkRecord /\ args \in RunOptions
    BY DEF StreamType, LinkType
  <1>1. CASE Exchange
    <2>1. args' = args /\ (link'.sent = link.sent \/ link'.sent = link.sent + 1)
      BY <1>0, <1>1 DEF Exchange, LinkRecord
    <2>2. link.sent \in Nat /\ args.limit \in Nat
      BY <1>0 DEF LinkRecord, RunOptions
    <2> QED BY <2>1, <2>2 DEF LimitReached
  <1>2. CASE CompressStage \/ DecryptStage
    BY <1>2 DEF CompressStage, Read, Encode, ClearRequest, PutOutgoing, EndCompress,
                DecryptStage, GetReturned, Restore, RequestKeyFrame, Publish, EndDecrypt, LimitReached
  <1>3. CASE Others
    BY <1>3, OtherSteps DEF LimitReached
  <1>4. CASE \E t \in Threads : Error(t) \/ Handler(t)
    <2>1. PICK t \in Threads : Error(t) \/ Handler(t)
      BY <1>4
    <2>2. PICK pc \in ErrorPcs : SetPc(t, pc)
      BY <2>1, HandlerSteps
    <2>3. link'.sent = link.sent /\ args' = args
      BY <2>1, <2>2, SetPcKeeps, HandlerSteps
    <2> QED BY <2>3 DEF LimitReached
  <1>5. CASE Fill \/ GetFrame \/ DecryptInIp \/ PutReturned \/ EndLink
    <2>1. args' = args /\ link'.sent = link.sent
      BY <1>0, <1>5 DEF Fill, GetFrame, DecryptInIp, PutReturned, EndLink, LinkRecord
    <2> QED BY <2>1 DEF LimitReached
  <1> QED BY <1>1, <1>2, <1>3, <1>4, <1>5, NextCases DEF LinkStage

(* Nothing of the counted state is touched.                                    *)
Apart == UNCHANGED <<args, source, compress, outgoing, link, returned, decrypt, stats>>

LEMMA HandlersDisturb ==
  ASSUME StreamType, TypeInv, NEW t \in Threads, Error(t) \/ Handler(t), Calm' PROVE FALSE
  <1>0. compress \in CompressRecord /\ link \in LinkRecord /\ decrypt \in DecryptRecord
    BY DEF StreamType, CompressType, LinkType, DecryptType
  <1>1. CASE Error(t) \/ ReadFailure(t)
    <2>1. PICK pc \in {"except", "keep"} : SetPc(t, pc)
      BY <1>1 DEF Error, ReadFailure
    <2>2. compress'.pc = pc \/ link'.pc = pc \/ decrypt'.pc = pc
      BY <1>0, <2>1 DEF SetPc, Threads, CompressRecord, LinkRecord, DecryptRecord
    <2> QED BY <2>2, Zenon DEF Calm
  <1>2. CASE KeepFailure(t)
    <2>1. errors.seen[t] \in Threads \cup {NoThread} /\ t # NoThread
      BY DEF TypeInv, FailureInv, Threads, NoThread
    <2>2. failure' # NoThread
      BY <1>2, <2>1 DEF KeepFailure
    <2> QED BY <2>2, Zenon DEF Calm
  <1>3. CASE StopAll(t)
    <2>1. failure' = failure /\ Pc(t) \in Stops
      BY <1>3, Zenon DEF StopAll, Stops
    <2>2. failure # NoThread
      BY <2>1 DEF TypeInv, FailureInv, Threads, Pc
    <2> QED BY <2>1, <2>2, Zenon DEF Calm
  <1> QED BY <1>1, <1>2, <1>3 DEF Handler

LEMMA MainStepsApart == ASSUME Others, ~Grab, MainRuns' PROVE Apart
  <1>1. ~Stop
    <2>1. Stop => main' \in {"stop returned", "finish"}
      BY Zenon DEF Stop
    <2> QED BY <2>1, Zenon DEF MainRuns
  <1>2. ~Finish
    <2>1. Finish => main' = "done"
      BY Zenon DEF Finish
    <2> QED BY <2>1, Zenon DEF MainRuns
  <1> QED BY <1>1, <1>2 DEF Others, Window, Redraw, LoopEnds, HoldEnds, UserCloses, Terminated, vars, Apart

(* The steps of an undisturbed run, as far as frames are concerned.            *)
LEMMA CalmStep ==
  ASSUME StreamType, TypeInv, [Next]_vars, Undisturbed'
  PROVE  Undisturbed /\ (Grab \/ CompressStage \/ LinkStage \/ DecryptStage \/ Apart)
  <1>0. Calm' /\ MainRuns' /\ failure' = NoThread
    BY Zenon DEF Undisturbed, Calm
  <1>1. ~ \E t \in Threads : Error(t) \/ Handler(t)
    BY <1>0, HandlersDisturb
  <1>2. MainRuns /\ ~LimitReached
    BY MainStays, SentGrows, <1>0 DEF Undisturbed
  <1>3. CompressStage \/ LinkStage \/ DecryptStage \/ Others
    BY <1>1, NextCases
  <1>4. failure' = failure
    BY <1>3 DEF CompressStage, Read, Encode, ClearRequest, PutOutgoing, EndCompress,
           LinkStage, Fill, GetFrame, Exchange, DecryptInIp, PutReturned, EndLink,
           DecryptStage, GetReturned, Restore, RequestKeyFrame, Publish, EndDecrypt,
           Others, Grab, Window, Redraw, LoopEnds, Stop, Finish, HoldEnds, UserCloses, Terminated, vars
  <1>5. /\ compress.pc \in {"except", "keep"} => compress' = compress
        /\ link.pc \in {"except", "keep"} => link' = link
        /\ decrypt.pc \in {"except", "keep"} => decrypt' = decrypt
    <2>1. CASE CompressStage
      BY <2>1 DEF CompressStage, Read, Encode, ClearRequest, PutOutgoing, EndCompress
    <2>2. CASE LinkStage
      BY <2>2 DEF LinkStage, Fill, GetFrame, Exchange, DecryptInIp, PutReturned, EndLink
    <2>3. CASE DecryptStage
      BY <2>3 DEF DecryptStage, GetReturned, Restore, RequestKeyFrame, Publish, EndDecrypt
    <2>4. CASE Others
      BY <2>4, OtherSteps
    <2> QED BY <1>3, <2>1, <2>2, <2>3, <2>4
  <1>6. {compress.pc, link.pc, decrypt.pc} \cap {"except", "keep"} = {}
    BY <1>0, <1>5, Zenon DEF Calm
  <1>7. Undisturbed
    BY <1>0, <1>2, <1>4, <1>6 DEF Undisturbed, Calm
  <1> QED BY <1>0, <1>3, <1>7, MainStepsApart

LEMMA CountTypes ==
  ASSUME StreamType
  PROVE  /\ source \in SourceRecord /\ compress \in CompressRecord /\ link \in LinkRecord /\ decrypt \in DecryptRecord
         /\ outgoing \in Queue(Frames) /\ returned \in Queue(Packets) /\ stats \in StatsRecord
         /\ Len(outgoing.items) \in Nat /\ Len(returned.items) \in Nat /\ outgoing.dropped \in Nat
         /\ source.given \in Nat /\ source.dropped \in Nat /\ stats.frames \in Nat
         /\ InCompress \in Nat /\ InLink \in Nat /\ InDecrypt \in Nat /\ InSlot \in Nat
         /\ Upstream \in Nat /\ Midway \in Nat /\ Downstream \in Nat
  <1>1. /\ source \in SourceRecord /\ compress \in CompressRecord /\ link \in LinkRecord /\ decrypt \in DecryptRecord
        /\ outgoing \in Queue(Frames) /\ returned \in Queue(Packets) /\ stats \in StatsRecord
    BY DEF StreamType, CompressType, LinkType, DecryptType, OutgoingType, ReturnedType
  <1>2. Len(outgoing.items) \in Nat /\ Len(returned.items) \in Nat /\ outgoing.dropped \in Nat
    BY <1>1, LenProperties DEF Queue
  <1>3. source.given \in Nat /\ source.dropped \in Nat /\ stats.frames \in Nat
    BY <1>1 DEF SourceRecord, StatsRecord
  <1>4. InCompress \in Nat /\ InLink \in Nat /\ InDecrypt \in Nat /\ InSlot \in Nat
    BY DEF InCompress, InLink, InDecrypt, InSlot, One
  <1>5. Upstream \in Nat /\ Midway \in Nat /\ Downstream \in Nat
    <2>1. Upstream \in Nat
      BY <1>3, <1>4 DEF Upstream
    <2>2. Midway \in Nat
      BY <1>2, <1>4 DEF Midway
    <2>3. Downstream \in Nat
      BY <1>2, <1>3, <1>4 DEF Downstream
    <2> QED BY <2>1, <2>2, <2>3
  <1> QED BY <1>1, <1>2, <1>3, <1>4, <1>5

LEMMA CountGrab ==
  ASSUME StreamType, TypeInv, SourceEnds, InOrder, Counted, Balance, Grab
  PROVE  (SourceEnds /\ InOrder /\ Counted /\ Balance)'
  <1>0. /\ UNCHANGED <<args, compress, outgoing, link, returned, decrypt, stats>>
        /\ args.live /\ source.running /\ source \in SourceRecord
        /\ source.given \in Nat /\ source.dropped \in Nat
    BY CountTypes DEF Grab
  <1>1. /\ compress.pc \notin {"close", "done"} /\ ~outgoing.closed
        /\ link.pc \notin {"abort", "close", "done"} /\ ~returned.closed /\ decrypt.pc \notin {"end", "done"}
    BY <1>0 DEF SourceEnds, InOrder
  <1>2. InOrder' /\ Counted'
    BY <1>0, <1>1 DEF InOrder, Counted
  <1>3. CASE source.given < FrameCount
    <2> DEFINE lost == IF source.slot /\ ~args.fps THEN 1 ELSE 0
    <2>1. source' = [source EXCEPT !.given = @ + 1, !.slot = TRUE, !.dropped = @ + lost]
      BY <1>3 DEF Grab
    <2>2. ~args.fps => lost = InSlot
      BY DEF InSlot, One
    <2> HIDE DEF lost
    <2>3. /\ source'.given = source.given + 1 /\ source'.slot /\ source'.dropped = source.dropped + lost
          /\ source'.running = source.running
      BY <1>0, <2>1 DEF SourceRecord
    <2>4. SourceEnds'
      BY <1>0, <1>1, <2>3 DEF SourceEnds
    <2>5. InSlot' = 1
      BY <2>3 DEF InSlot, One
    <2>6. UNCHANGED <<InCompress, Midway, Downstream>>
      BY <1>0 DEF InCompress, InLink, InDecrypt, Midway, Downstream
    <2>7. Balance'
      <3>1. source.given \in Nat /\ Upstream \in Nat /\ Midway \in Nat /\ Downstream \in Nat
            /\ InCompress \in Nat /\ InSlot \in Nat
        BY CountTypes
      <3>2. ~args.fps => Upstream' = Upstream + 1
        BY <1>0, <2>2, <2>3, <2>5, <2>6, <3>1 DEF Upstream
      <3> QED BY <1>0, <2>3, <2>6, <3>1, <3>2 DEF Balance
    <2> QED BY <1>2, <2>4, <2>7
  <1>4. CASE ~(source.given < FrameCount)
    <2>1. source' = [source EXCEPT !.running = FALSE]
      BY <1>4 DEF Grab
    <2>2. source'.given = source.given /\ source'.slot = source.slot /\ source'.dropped = source.dropped
      BY <1>0, <2>1 DEF SourceRecord
    <2>3. source.given = FrameCount
      BY <1>0, <1>4, CameraAssumption DEF TypeInv, SourceBounded
    <2>4. SourceEnds'
      BY <1>0, <1>1, <2>2, <2>3 DEF SourceEnds
    <2>5. UNCHANGED <<Upstream, Midway, Downstream>>
      BY <1>0, <2>2 DEF InCompress, InLink, InDecrypt, InSlot, Upstream, Midway, Downstream
    <2>6. Balance'
      BY <1>0, <2>2, <2>5 DEF Balance
    <2> QED BY <1>2, <2>4, <2>6
  <1> QED BY <1>3, <1>4

LEMMA CountCompress ==
  ASSUME StreamType, TypeInv, SourceEnds, InOrder, Counted, Balance, Calm, CompressStage
  PROVE  (SourceEnds /\ InOrder /\ Counted /\ Balance)'
  <1>0. /\ UNCHANGED <<args, link, returned, decrypt, stats>> /\ InLink' = InLink /\ Downstream' = Downstream
    BY DEF CompressStage, Read, Encode, ClearRequest, PutOutgoing, EndCompress, InLink, InDecrypt, Downstream
  <1>00. compress \in CompressRecord /\ source \in SourceRecord /\ outgoing \in Queue(Frames)
    BY CountTypes
  <1>1. compress.pc # "done"
    BY DEF CompressStage, Read, Encode, ClearRequest, PutOutgoing, EndCompress
  <1>2. ~outgoing.closed /\ link.pc \notin {"abort", "close", "done"} /\ ~returned.closed /\ decrypt.pc \notin {"end", "done"}
    BY <1>1 DEF InOrder
  <1>3. InOrder' /\ Counted'
    <2>1. outgoing'.closed => compress'.pc = "done"
      <3>1. CASE EndCompress
        BY <1>00, <3>1 DEF EndCompress, CompressRecord
      <3>2. CASE PutOutgoing
        <4>1. compress.frame \in Frames
          BY <3>2 DEF PutOutgoing, StreamType, CompressType
        <4> QED BY <1>00, <1>2, <3>2, <4>1, PutType DEF PutOutgoing
      <3>3. CASE Read \/ Encode \/ ClearRequest
        BY <1>2, <3>3 DEF Read, Encode, ClearRequest
      <3> QED BY <3>1, <3>2, <3>3 DEF CompressStage
    <2> QED BY <1>0, <1>2, <2>1 DEF InOrder, Counted
  <1>4. CASE Read
    <2>0. outgoing' = outgoing /\ compress.pc = "read" /\ InCompress = 0
      BY <1>4 DEF Read, InCompress, One
    <2>1. CASE HasFrame
      <3>1. compress'.pc = "encode" /\ source' = TakeFrame
        <4>1. SourceEnds => (HasFrame /\ ~args.live => source.running)
          BY DEF HasFrame
        <4>2. compress' = [compress EXCEPT !.pc = "encode"] /\ source' = TakeFrame
          BY <1>2, <1>4, <2>1 DEF Read
        <4> QED BY <1>00, <4>2 DEF CompressRecord
      <3>2. InCompress' = 1
        BY <3>1 DEF InCompress, One
      <3>3. /\ source'.running = source.running /\ source'.dropped = source.dropped
            /\ ~source.running => source'.given = source.given
            /\ \/ source'.given = source.given /\ InSlot = 1 /\ InSlot' = 0
               \/ source'.given = source.given + 1 /\ InSlot' = InSlot
        <4>1. CASE args.live
          <5>1. source' = [source EXCEPT !.slot = FALSE] /\ source.slot
            BY <2>1, <3>1, <4>1 DEF TakeFrame, HasFrame
          <5> QED BY <1>00, <5>1 DEF SourceRecord, InSlot, One
        <4>2. CASE ~args.live
          <5>1. source' = [source EXCEPT !.given = @ + 1] /\ source.running
            BY <2>1, <3>1, <4>2 DEF TakeFrame, HasFrame
          <5> QED BY <1>00, <5>1 DEF SourceRecord, InSlot
        <4> QED BY <4>1, <4>2
      <3>4. SourceEnds'
        BY <1>0, <3>1, <3>3 DEF SourceEnds
      <3>5. Balance'
        <4>1. source.given \in Nat /\ Upstream \in Nat /\ Midway \in Nat /\ Downstream \in Nat
              /\ source.dropped \in Nat /\ InSlot \in Nat
          BY CountTypes
        <4>2. \/ source'.given = source.given /\ Upstream' = Upstream
              \/ source'.given = source.given + 1 /\ Upstream' = Upstream + 1
          BY <2>0, <3>2, <3>3, <4>1 DEF Upstream
        <4>3. Midway' = Midway
          BY <1>0, <2>0 DEF Midway
        <4> QED BY <1>0, <4>1, <4>2, <4>3 DEF Balance
      <3> QED BY <1>3, <3>4, <3>5
    <2>2. CASE ~HasFrame
      <3>1. source' = source /\ compress'.pc = "close" /\ SourceEnded
        BY <1>00, <1>2, <1>4, <2>2 DEF Read, CompressRecord
      <3>2. source.given = FrameCount /\ ~source.slot /\ (args.live => ~source.running)
        BY <1>00, <2>2, <3>1, CameraAssumption DEF HasFrame, SourceEnded, SourceEnds, TypeInv, SourceBounded, SourceRecord
      <3>3. SourceEnds'
        BY <1>0, <3>1, <3>2 DEF SourceEnds
      <3>4. InCompress' = 0
        BY <3>1 DEF InCompress, One
      <3>5. Upstream' = Upstream /\ Midway' = Midway
        BY <1>0, <2>0, <3>1, <3>4 DEF Upstream, Midway, InSlot
      <3>6. Balance'
        BY <1>0, <3>1, <3>5 DEF Balance
      <3> QED BY <1>3, <3>3, <3>6
    <2> QED BY <2>1, <2>2
  <1>5. CASE Encode \/ ClearRequest
    <2>1. source' = source /\ outgoing' = outgoing /\ compress.pc \in {"encode", "clear"} /\ compress'.pc \in {"clear", "put"}
      <3>1. CASE Encode
        BY <3>1 DEF Encode
      <3>2. CASE ClearRequest
        BY <1>00, <3>2 DEF ClearRequest, CompressRecord
      <3> QED BY <1>5, <3>1, <3>2
    <2>2. InCompress' = InCompress
      BY <2>1 DEF InCompress, One
    <2>3. SourceEnds' /\ Balance'
      BY <1>0, <2>1, <2>2 DEF SourceEnds, Balance, Upstream, Midway, InSlot
    <2> QED BY <1>3, <2>3
  <1>6. CASE PutOutgoing
    <2>1. source' = source /\ compress.pc = "put" /\ compress'.pc = "read" /\ compress.frame \in Frames
      BY <1>00, <1>6 DEF PutOutgoing, CompressRecord, StreamType, CompressType
    <2>2. InCompress = 1 /\ InCompress' = 0
      BY <2>1 DEF InCompress, One
    <2>3. Len(outgoing'.items) + outgoing'.dropped = Len(outgoing.items) + outgoing.dropped + 1
      BY <1>00, <1>2, <1>6, <2>1, PutBounded DEF PutOutgoing, TypeInv
    <2>4. Len(outgoing'.items) \in Nat /\ outgoing'.dropped \in Nat
      BY <1>00, <1>6, <2>1, PutType, LenProperties DEF PutOutgoing, Queue
    <2>5. SourceEnds'
      BY <1>0, <2>1 DEF SourceEnds
    <2>6. Balance'
      <3>1. /\ source.given \in Nat /\ Upstream \in Nat /\ Midway \in Nat /\ Downstream \in Nat /\ InLink \in Nat
            /\ source.dropped \in Nat /\ InSlot \in Nat /\ Len(outgoing.items) \in Nat /\ outgoing.dropped \in Nat
        BY CountTypes
      <3>2. Upstream = Upstream' + 1 /\ Upstream' \in Nat
        BY <2>1, <2>2, <3>1 DEF Upstream, InSlot
      <3>3. Midway' = Midway + 1
        BY <1>0, <2>3, <2>4, <3>1 DEF Midway
      <3> QED BY <1>0, <2>1, <3>1, <3>2, <3>3 DEF Balance
    <2> QED BY <1>3, <2>5, <2>6
  <1>7. CASE EndCompress
    <2>1. source' = source /\ compress.pc = "close" /\ compress'.pc = "done"
      BY <1>00, <1>7 DEF EndCompress, CompressRecord
    <2>2. InCompress = 0 /\ InCompress' = 0
      BY <2>1 DEF InCompress, One
    <2>3. outgoing'.items = outgoing.items /\ outgoing'.dropped = outgoing.dropped
      BY <1>00, <1>7, CloseBounded DEF EndCompress, TypeInv
    <2>4. Upstream' = Upstream /\ Midway' = Midway
      BY <1>0, <2>1, <2>2, <2>3 DEF Upstream, Midway, InSlot
    <2>5. SourceEnds' /\ Balance'
      BY <1>0, <2>1, <2>4 DEF SourceEnds, Balance
    <2> QED BY <1>3, <2>5
  <1> QED BY <1>4, <1>5, <1>6, <1>7 DEF CompressStage

LEMMA CountLink ==
  ASSUME StreamType, TypeInv, SourceEnds, InOrder, Counted, Balance, Undisturbed, Calm', LinkStage
  PROVE  (SourceEnds /\ InOrder /\ Counted /\ Balance)'
  <1>0. /\ UNCHANGED <<args, source, compress, decrypt, stats>>
        /\ InSlot' = InSlot /\ InCompress' = InCompress /\ Upstream' = Upstream /\ InDecrypt' = InDecrypt
    BY DEF LinkStage, Fill, GetFrame, Exchange, DecryptInIp, PutReturned, EndLink,
           InSlot, InCompress, InDecrypt, Upstream
  <1>00. /\ link \in LinkRecord /\ outgoing \in Queue(Frames) /\ returned \in Queue(Packets)
         /\ link'.pc # "except" /\ ~LimitReached
    BY CountTypes, Zenon DEF Calm, Undisturbed
  <1>1. link.pc # "done" /\ ~returned.closed /\ decrypt.pc \notin {"end", "done"}
    <2>1. link.pc # "done"
      BY DEF LinkStage, Fill, GetFrame, Exchange, DecryptInIp, PutReturned, EndLink
    <2> QED BY <2>1 DEF InOrder
  <1>2. SourceEnds' /\ Counted'
    BY <1>0, <1>1 DEF SourceEnds, Counted
  <1>3. CASE Fill \/ Exchange \/ DecryptInIp
    <2>1. /\ UNCHANGED <<outgoing, returned>>
          /\ link'.pc \in {"get", "exchange", "decrypt", "put"}
          /\ InLink' = InLink
      <3>1. CASE Fill
        <4>1. UNCHANGED <<outgoing, returned>> /\ link.pc = "preroll" /\ link'.pc = "get"
          BY <1>00, <3>1 DEF Fill, LinkRecord
        <4> QED BY <4>1 DEF InLink, One
      <3>2. CASE Exchange
        <4>1. UNCHANGED <<outgoing, returned>> /\ link.pc = "exchange" /\ link'.pc \in {"decrypt", "put"}
          BY <1>00, <3>2 DEF Exchange, LinkRecord
        <4> QED BY <4>1 DEF InLink, One
      <3>3. CASE DecryptInIp
        <4>1. UNCHANGED <<outgoing, returned>> /\ link.pc = "decrypt" /\ link'.pc = "put"
          BY <1>00, <3>3 DEF DecryptInIp, LinkRecord
        <4> QED BY <4>1 DEF InLink, One
      <3> QED BY <1>3, <3>1, <3>2, <3>3
    <2>2. InOrder'
      BY <1>0, <1>1, <2>1 DEF InOrder
    <2>3. Midway' = Midway /\ Downstream' = Downstream
      BY <1>0, <2>1 DEF Midway, Downstream
    <2> QED BY <1>0, <1>2, <2>2, <2>3 DEF Balance
  <1>4. CASE GetFrame
    <2>0. /\ returned' = returned /\ link.pc = "get" /\ ~GetWaits(outgoing) /\ outgoing' = Get(outgoing)
          /\ link' = [link EXCEPT !.item = Got(outgoing), !.pc = IF Got(outgoing) = NoItem THEN "abort" ELSE "exchange"]
      BY <1>00, <1>4 DEF GetFrame
    <2>1. InLink = 0
      BY <2>0 DEF InLink, One
    <2>2. Downstream' = Downstream
      BY <1>0, <2>0 DEF Downstream
    <2>3. outgoing'.closed = outgoing.closed /\ outgoing'.dropped = outgoing.dropped
      BY <1>00, <2>0, GetType, GetBounded DEF TypeInv
    <2>4. CASE outgoing.items = <<>>
      <3>1. outgoing' = outgoing /\ outgoing.closed /\ link'.pc = "abort"
        BY <1>00, <2>0, <2>4, GetType DEF GetWaits, LinkRecord
      <3>2. InLink' = 0
        BY <3>1 DEF InLink, One
      <3>3. Midway' = Midway
        BY <2>1, <3>1, <3>2 DEF Midway
      <3>4. InOrder'
        BY <1>0, <1>1, <2>0, <2>4, <3>1 DEF InOrder
      <3> QED BY <1>0, <1>2, <2>2, <3>3, <3>4 DEF Balance
    <2>5. CASE outgoing.items # <<>>
      <3>1. Got(outgoing) # NoItem /\ Len(outgoing'.items) = Len(outgoing.items) - 1
        <4>1. Got(outgoing) \in Frames
          BY <1>00, <2>5, GetType
        <4>2. Len(outgoing'.items) = Len(outgoing.items) - 1
          BY <1>00, <2>0, <2>5, GetBounded DEF TypeInv
        <4> QED BY <4>1, <4>2, CameraAssumption
      <3>2. link'.pc = "exchange"
        BY <1>00, <2>0, <3>1 DEF LinkRecord
      <3>3. InLink' = 1
        BY <3>2 DEF InLink, One
      <3>4. Midway' = Midway
        <4>1. Len(outgoing.items) \in Nat /\ outgoing.dropped \in Nat
          BY CountTypes
        <4> QED BY <2>1, <2>3, <3>1, <3>3, <4>1 DEF Midway
      <3>5. InOrder'
        BY <1>0, <1>1, <2>0, <2>3, <3>2 DEF InOrder
      <3> QED BY <1>0, <1>2, <2>2, <3>4, <3>5 DEF Balance
    <2> QED BY <2>4, <2>5
  <1>5. CASE PutReturned
    <2>1. /\ outgoing' = outgoing /\ link.pc = "put" /\ link'.pc = "get" /\ link.item \in Packets
          /\ returned' = Put(returned, link.item) /\ ~PutWaits(returned)
      BY <1>00, <1>5 DEF PutReturned, LinkRecord, StreamType, LinkType
    <2>2. InLink = 1 /\ InLink' = 0
      BY <2>1 DEF InLink, One
    <2>3. Len(returned'.items) = Len(returned.items) + 1 /\ returned'.closed = returned.closed
      <3>1. returned.items \in Seq(Packets) /\ ~returned.dropOldest
        BY DEF StreamType, ReturnedType, Queue
      <3>2. returned'.items = Append(returned.items, link.item)
        BY <1>00, <1>1, <2>1, <3>1, PutAppends
      <3>3. returned'.closed = returned.closed
        BY <1>00, <2>1, PutType
      <3> QED BY <2>1, <3>1, <3>2, <3>3, AppendProperties
    <2>4. InOrder'
      BY <1>0, <1>1, <2>1, <2>3 DEF InOrder
    <2>5. Midway = Midway' + 1 /\ Midway' \in Nat
      <3>1. Len(outgoing.items) \in Nat /\ outgoing.dropped \in Nat
        BY CountTypes
      <3> QED BY <2>1, <2>2, <3>1 DEF Midway
    <2>6. Downstream' = Downstream + 1
      <3>1. Len(returned.items) \in Nat /\ InDecrypt \in Nat /\ stats.frames \in Nat
        BY CountTypes
      <3> QED BY <1>0, <2>3, <3>1 DEF Downstream
    <2>7. source.given \in Nat /\ Upstream \in Nat /\ Midway \in Nat /\ Downstream \in Nat
      BY CountTypes
    <2>8. Balance'
      BY <1>0, <2>5, <2>6, <2>7 DEF Balance
    <2> QED BY <1>2, <2>4, <2>8
  <1>6. CASE EndLink
    <2>0. link.pc \in {"abort", "close"} /\ link'.pc \in {"close", "done"}
      BY <1>00, <1>6 DEF EndLink, LinkRecord
    <2>1. outgoing.closed /\ outgoing.items = <<>> /\ compress.pc = "done"
      BY <2>0 DEF InOrder
    <2>2. InLink = 0 /\ InLink' = 0
      BY <2>0 DEF InLink, One
    <2>3. outgoing'.closed /\ outgoing'.items = <<>> /\ outgoing'.dropped = outgoing.dropped
      BY <1>00, <1>6, <2>1, CloseBounded DEF EndLink, TypeInv
    <2>4. returned'.items = returned.items /\ (returned'.closed => link'.pc = "done")
      <3>1. CASE link.pc = "abort"
        BY <1>1, <1>6, <3>1 DEF EndLink
      <3>2. CASE link.pc = "close"
        BY <1>00, <1>6, <3>2, CloseBounded DEF EndLink, TypeInv, LinkRecord
      <3> QED BY <2>0, <3>1, <3>2
    <2>5. InOrder'
      BY <1>0, <1>1, <2>1, <2>3, <2>4 DEF InOrder
    <2>6. Midway' = Midway /\ Downstream' = Downstream
      BY <1>0, <2>1, <2>2, <2>3, <2>4 DEF Midway, Downstream
    <2> QED BY <1>0, <1>2, <2>5, <2>6 DEF Balance
  <1> QED BY <1>3, <1>4, <1>5, <1>6 DEF LinkStage

LEMMA CountDecrypt ==
  ASSUME StreamType, TypeInv, SourceEnds, InOrder, Counted, Balance, DecryptStage
  PROVE  (SourceEnds /\ InOrder /\ Counted /\ Balance)'
  <1>0. /\ UNCHANGED <<args, source, compress, outgoing, link>>
        /\ InSlot' = InSlot /\ InCompress' = InCompress /\ InLink' = InLink
        /\ Upstream' = Upstream /\ Midway' = Midway /\ Dropped' = Dropped
    BY DEF DecryptStage, GetReturned, Restore, RequestKeyFrame, Publish, EndDecrypt,
           InSlot, InCompress, InLink, Upstream, Midway, Dropped
  <1>00. decrypt \in DecryptRecord /\ returned \in Queue(Packets) /\ stats \in StatsRecord
    BY CountTypes
  <1>1. SourceEnds'
    BY <1>0 DEF SourceEnds
  <1>2. CASE GetReturned
    <2>0. /\ stats' = stats /\ decrypt.pc = "get" /\ ~GetWaits(returned) /\ returned' = Get(returned)
          /\ decrypt' = [decrypt EXCEPT !.item = Got(returned), !.pc = IF Got(returned) = NoItem THEN "end" ELSE "restore"]
      BY <1>2 DEF GetReturned
    <2>1. InDecrypt = 0
      BY <2>0 DEF InDecrypt, One
    <2>2. returned'.closed = returned.closed
      BY <1>00, <2>0, GetType
    <2>3. decrypt'.pc \in {"end", "restore"}
      BY <1>00, <2>0 DEF DecryptRecord
    <2>4. CASE returned.items = <<>>
      <3>1. returned' = returned /\ returned.closed /\ decrypt'.pc = "end"
        BY <1>00, <2>0, <2>4, GetType DEF GetWaits, DecryptRecord
      <3>2. InDecrypt' = 0
        BY <3>1 DEF InDecrypt, One
      <3>3. InOrder' /\ Counted'
        BY <1>0, <2>4, <3>1 DEF InOrder, Counted
      <3>4. Downstream' = Downstream
        BY <2>0, <2>1, <3>1, <3>2 DEF Downstream
      <3> QED BY <1>0, <1>1, <3>3, <3>4 DEF Balance
    <2>5. CASE returned.items # <<>>
      <3>1. Got(returned) # NoItem /\ Len(returned'.items) = Len(returned.items) - 1
        <4>1. Got(returned) \in Packets
          BY <1>00, <2>5, GetType
        <4>2. Len(returned'.items) = Len(returned.items) - 1
          BY <1>00, <2>0, <2>5, GetBounded DEF TypeInv
        <4> QED BY <4>1, <4>2, CameraAssumption
      <3>2. decrypt'.pc = "restore"
        BY <1>00, <2>0, <3>1 DEF DecryptRecord
      <3>3. InDecrypt' = 1
        BY <3>2 DEF InDecrypt, One
      <3>4. Downstream' = Downstream
        <4>1. Len(returned.items) \in Nat /\ stats.frames \in Nat
          BY CountTypes
        <4> QED BY <2>0, <2>1, <3>1, <3>3, <4>1 DEF Downstream
      <3>5. InOrder' /\ Counted'
        BY <1>0, <2>0, <2>2, <3>2 DEF InOrder, Counted
      <3> QED BY <1>0, <1>1, <3>4, <3>5 DEF Balance
    <2> QED BY <2>4, <2>5
  <1>3. CASE Restore \/ RequestKeyFrame
    <2>1. /\ returned' = returned /\ stats'.frames = stats.frames
          /\ decrypt.pc \in {"restore", "request"} /\ decrypt'.pc \in {"request", "publish"}
      <3>1. CASE Restore
        BY <1>00, <3>1 DEF Restore, StatsRecord, DecryptRecord
      <3>2. CASE RequestKeyFrame
        BY <1>00, <3>2 DEF RequestKeyFrame, DecryptRecord
      <3> QED BY <1>3, <3>1, <3>2
    <2>2. InDecrypt' = InDecrypt
      BY <2>1 DEF InDecrypt, One
    <2>3. Downstream' = Downstream
      BY <2>1, <2>2 DEF Downstream
    <2>4. InOrder' /\ Counted'
      BY <1>0, <2>1 DEF InOrder, Counted
    <2> QED BY <1>0, <1>1, <2>3, <2>4 DEF Balance
  <1>4. CASE Publish
    <2>1. /\ returned' = returned /\ stats'.frames = stats.frames + 1
          /\ decrypt.pc = "publish" /\ decrypt'.pc = "get"
      BY <1>00, <1>4 DEF Publish, StatsRecord, DecryptRecord
    <2>2. InDecrypt = 1 /\ InDecrypt' = 0
      BY <2>1 DEF InDecrypt, One
    <2>3. Downstream' = Downstream
      <3>1. Len(returned.items) \in Nat /\ stats.frames \in Nat
        BY CountTypes
      <3> QED BY <2>1, <2>2, <3>1 DEF Downstream
    <2>4. InOrder' /\ Counted'
      BY <1>0, <2>1 DEF InOrder, Counted
    <2> QED BY <1>0, <1>1, <2>3, <2>4 DEF Balance
  <1>5. CASE EndDecrypt
    <2>1. /\ returned' = returned /\ stats'.frames = stats.frames /\ stats'.dropped = Dropped
          /\ decrypt.pc = "end" /\ decrypt'.pc = "done"
      BY <1>00, <1>5 DEF EndDecrypt, StatsRecord, DecryptRecord
    <2>2. InDecrypt = 0 /\ InDecrypt' = 0
      BY <2>1 DEF InDecrypt, One
    <2>3. Downstream' = Downstream
      BY <2>1, <2>2 DEF Downstream
    <2>4. InOrder' /\ Counted'
      BY <1>0, <2>1 DEF InOrder, Counted
    <2> QED BY <1>0, <1>1, <2>3, <2>4 DEF Balance
  <1> QED BY <1>2, <1>3, <1>4, <1>5 DEF DecryptStage

LEMMA CountInvNext == StreamType /\ TypeInv /\ CountInv /\ [Next]_vars => CountInv'
  <1> SUFFICES ASSUME StreamType, TypeInv, CountInv, [Next]_vars, Undisturbed'
               PROVE  (SourceEnds /\ InOrder /\ Counted /\ Balance)'
    BY DEF CountInv
  <1>1. Undisturbed /\ (Grab \/ CompressStage \/ LinkStage \/ DecryptStage \/ Apart)
    BY CalmStep
  <1>2. SourceEnds /\ InOrder /\ Counted /\ Balance /\ Calm /\ Calm'
    BY <1>1 DEF CountInv, Undisturbed
  <1>3. CASE Apart
    <2>1. UNCHANGED <<InSlot, InCompress, InLink, InDecrypt, Upstream, Midway, Downstream, Dropped>>
      BY <1>3 DEF Apart, InSlot, InCompress, InLink, InDecrypt, Upstream, Midway, Downstream, Dropped
    <2> QED BY <1>2, <1>3, <2>1 DEF Apart, SourceEnds, InOrder, Counted, Balance
  <1> QED BY <1>1, <1>2, <1>3, CountGrab, CountCompress, CountLink, CountDecrypt

LEMMA FrameInvHolds == Spec => [](StreamType /\ FrameInv)
  <1> DEFINE Inv == StreamType /\ FrameInv
  <1>1. Init => Inv
    BY StreamTypeInit, TypeInvInit, ViewInvInit, CountInvInit DEF FrameInv
  <1>2. Inv /\ [Next]_vars => Inv'
    BY StreamTypeNext, TypeInvNext, ViewInvNext, CloseInvNext, CountInvNext DEF FrameInv
  <1> QED BY <1>1, <1>2, PTL DEF Spec

(* camera.py:316-323 and 380-391: a run that nobody stopped and in which       *)
(* nothing failed accounts for every frame of the source, published or counted *)
(* as dropped by the camera or by the queue, however the stages interleaved.   *)
THEOREM FramesAlwaysAccounted == Spec => []FramesAccounted
  <1>1. StreamType /\ FrameInv => FramesAccounted
    <2> SUFFICES ASSUME StreamType, FrameInv, Normal, ~Alive, ~args.fps
                 PROVE  stats.frames + stats.dropped = FrameCount
      BY DEF FramesAccounted
    <2>1. compress.pc = "done" /\ link.pc = "done" /\ decrypt.pc = "done"
      <3>1. Pc("compress") = "done" /\ Pc("link") = "done" /\ Pc("decrypt") = "done"
        BY DEF Alive, Threads
      <3> QED BY <3>1 DEF Pc
    <2>2. Undisturbed
      <3>1. failure = NoThread /\ MainRuns /\ ~LimitReached
        BY Zenon DEF Normal, MainRuns
      <3>2. {compress.pc, link.pc, decrypt.pc} \cap {"except", "keep"} = {}
        BY <2>1
      <3> QED BY <3>1, <3>2 DEF Undisturbed, Calm
    <2>3. SourceEnds /\ InOrder /\ Counted /\ Balance
      BY <2>2 DEF FrameInv, CountInv
    <2>4. source.given = FrameCount /\ ~source.slot /\ outgoing.items = <<>> /\ returned.items = <<>>
      BY <2>1, <2>3 DEF SourceEnds, InOrder
    <2>5. InSlot = 0 /\ InCompress = 0 /\ InLink = 0 /\ InDecrypt = 0
      BY <2>1, <2>4 DEF InSlot, InCompress, InLink, InDecrypt, One
    <2>6. Len(outgoing.items) = 0 /\ Len(returned.items) = 0
      BY <2>4, EmptySeq
    <2>7. stats.dropped = source.dropped + outgoing.dropped
      BY <2>1, <2>3 DEF Counted, Dropped
    <2>8. source.dropped \in Nat /\ outgoing.dropped \in Nat /\ stats.frames \in Nat
      BY CountTypes
    <2>9. Upstream = source.dropped /\ Midway = outgoing.dropped /\ Downstream = stats.frames
      BY <2>5, <2>6, <2>8 DEF Upstream, Midway, Downstream
    <2>10. source.given = source.dropped + outgoing.dropped + stats.frames
      BY <2>3, <2>9 DEF Balance
    <2> QED BY <2>4, <2>7, <2>8, <2>10
  <1> QED BY <1>1, FrameInvHolds, PTL
=============================================================================
