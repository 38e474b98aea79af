-------------------------------- MODULE Camera --------------------------------
(* camera.py FrameStream: three stages on threads of their own, joined by two  *)
(* FrameQueues, between a video source and the window on the main thread.      *)
(*                                                                             *)
(*   source -> compress -> outgoing -> link -> returned -> decrypt -> window   *)
(*                                                                             *)
(* A step of a thread ends where it touches state another thread uses.  A      *)
(* frame is the record [seq, key, chunks]: its place in the encoded stream,    *)
(* whether it is a key frame, and the messages it is cut into.  IVs are the    *)
(* values of the 32-bit counter, counted from the first IV of the run.         *)
EXTENDS FrameQueue, CameraView, FiniteSets

CONSTANTS
    Runs,          \* the command lines: sets of options, see RunOptions
    FrameCount,    \* frames the source gives before it ends
    ChunkCounts,   \* messages a frame may need
    CounterLimit   \* IVs the counter can number

RunOptions == [live : BOOLEAN, jpeg : BOOLEAN, fps : BOOLEAN, preroll : Nat, limit : Nat, tamper : Nat, fpga : BOOLEAN, window : BOOLEAN,
               errors : Nat]   \* bound: errors raised in the stages of the run

Frames == [seq : Nat, chunks : ChunkCounts, key : BOOLEAN]

Packets == [frame : Frames, pass : BOOLEAN]

ASSUME CameraAssumption ==
    /\ Runs \subseteq RunOptions
    /\ FrameCount \in Nat /\ CounterLimit \in Nat
    /\ ChunkCounts \subseteq Nat \ {0}
    /\ NoItem \notin Frames \cup Packets

Threads == {"compress", "link", "decrypt"}

NoThread == "none"

VARIABLES
    args,       \* the options of the run
    source,     \* LiveSource or FileSource: [given, slot, running, dropped]
    compress,   \* compress stage: [pc, frame, encoded]; encoded counts the frames encoded
    wantKey,    \* encoder._want_key
    outgoing, returned,
    link,       \* link stage: [pc, item, sent]
    iv,         \* link stage: the next IV
    decrypt,    \* decrypt stage: [pc, item, skipped]
    waitingKey, \* FrameStream._waiting_key
    stats,      \* Stats: [frames, failed, waiting, dropped, ended]
    failure,    \* Stages.failure: the thread whose error is kept
    errors,     \* what each thread's handler read of failure, and the errors so far
    playback,   \* the results published and not yet taken by the window
    view,
    main,       \* the main thread
    sent,       \* history: the exchanges, [first, count] of their IVs
    decoded     \* history: the frames the decoder was given

vars == <<args, source, compress, wantKey, outgoing, returned, link, iv, decrypt, waitingKey, stats, failure,
          errors, playback, view, main, sent, decoded>>

(* FrameStream.preroll: a file needs no buffer.                                *)
Preroll(options) == IF options.live THEN options.preroll ELSE 0

Capacity(options) == IF 2 * Preroll(options) > 2 THEN 2 * Preroll(options) ELSE 2

Drops(options) == options.live /\ options.jpeg

StreamInit(options) ==
    /\ source = [given |-> 0, slot |-> FALSE, running |-> TRUE, dropped |-> 0]
    /\ compress = [pc |-> "read", frame |-> NoItem, encoded |-> 0]
    /\ wantKey = FALSE
    /\ outgoing = NewQueue(Capacity(options), Drops(options))
    /\ returned = NewQueue(2, FALSE)
    /\ link = [pc |-> "preroll", item |-> NoItem, sent |-> 0]
    /\ iv = 0
    /\ decrypt = [pc |-> "get", item |-> NoItem, skipped |-> FALSE]
    /\ waitingKey = FALSE
    /\ stats = [frames |-> 0, failed |-> 0, waiting |-> 0, dropped |-> 0, ended |-> FALSE]
    /\ failure = NoThread
    /\ errors = [count |-> 0, seen |-> [t \in Threads |-> NoThread]]
    /\ playback = <<>>
    /\ view = NewView
    /\ main = "running"
    /\ sent = <<>>
    /\ decoded = <<>>

Init == \E options \in Runs : args = options /\ StreamInit(options)

-------------------------------------------------------------------------------
(* Source.  LiveSource._grab overwrites the frame nobody took; the end of the  *)
(* video or an unplugged camera stops it.                                      *)
Grab ==
    /\ args.live /\ source.running /\ main # "done"
    /\ IF source.given < FrameCount
       THEN source' = [source EXCEPT !.given = @ + 1, !.slot = TRUE,
                                     !.dropped = @ + (IF source.slot /\ ~args.fps THEN 1 ELSE 0)]
       ELSE source' = [source EXCEPT !.running = FALSE]
    /\ UNCHANGED <<args, compress, wantKey, outgoing, returned, link, iv, decrypt, waitingKey, stats, failure,
                   errors, playback, view, main, sent, decoded>>

HasFrame == IF args.live THEN source.slot ELSE source.running /\ source.given < FrameCount

SourceEnded == IF args.live THEN ~source.running ELSE TRUE

TakeFrame == IF args.live THEN [source EXCEPT !.slot = FALSE] ELSE [source EXCEPT !.given = @ + 1]

-------------------------------------------------------------------------------
(* Compress stage.                                                             *)
Read ==
    /\ compress.pc = "read"
    /\ \/ /\ outgoing.closed
          /\ compress' = [compress EXCEPT !.pc = "close"] /\ UNCHANGED source
       \/ /\ ~outgoing.closed /\ HasFrame
          /\ compress' = [compress EXCEPT !.pc = "encode"] /\ source' = TakeFrame
       \/ /\ ~outgoing.closed /\ ~HasFrame /\ SourceEnded
          /\ compress' = [compress EXCEPT !.pc = "close"] /\ UNCHANGED source
    /\ UNCHANGED <<args, wantKey, outgoing, returned, link, iv, decrypt, waitingKey, stats, failure, errors,
                   playback, view, main, sent, decoded>>

(* H264Encoder.encode reads _want_key and clears it in two statements.         *)
Forced == ~args.jpeg /\ wantKey

Encode ==
    /\ compress.pc = "encode"
    /\ \E chunks \in ChunkCounts :
         compress' = [pc |-> IF Forced THEN "clear" ELSE "put", encoded |-> compress.encoded + 1,
                      frame |-> [seq |-> compress.encoded + 1, chunks |-> chunks,
                                 key |-> args.jpeg \/ Forced \/ compress.encoded = 0]]
    /\ UNCHANGED <<args, source, wantKey, outgoing, returned, link, iv, decrypt, waitingKey, stats, failure, errors,
                   playback, view, main, sent, decoded>>

ClearRequest ==
    /\ compress.pc = "clear"
    /\ wantKey' = FALSE
    /\ compress' = [compress EXCEPT !.pc = "put"]
    /\ UNCHANGED <<args, source, outgoing, returned, link, iv, decrypt, waitingKey, stats, failure, errors, playback,
                   view, main, sent, decoded>>

PutOutgoing ==
    /\ compress.pc = "put" /\ ~PutWaits(outgoing)
    /\ outgoing' = Put(outgoing, compress.frame)
    /\ compress' = [compress EXCEPT !.pc = "read", !.frame = NoItem]
    /\ UNCHANGED <<args, source, wantKey, returned, link, iv, decrypt, waitingKey, stats, failure, errors, playback,
                   view, main, sent, decoded>>

EndCompress ==
    /\ compress.pc = "close"
    /\ outgoing' = Close(outgoing)
    /\ compress' = [compress EXCEPT !.pc = "done"]
    /\ UNCHANGED <<args, source, wantKey, returned, link, iv, decrypt, waitingKey, stats, failure, errors, playback,
                   view, main, sent, decoded>>

-------------------------------------------------------------------------------
(* Link stage.                                                                 *)
Fill ==
    /\ link.pc = "preroll" /\ ~HoldingWaits(outgoing, Preroll(args))
    /\ link' = [link EXCEPT !.pc = "get"]
    /\ UNCHANGED <<args, source, compress, wantKey, outgoing, returned, iv, decrypt, waitingKey, stats, failure,
                   errors, playback, view, main, sent, decoded>>

LimitReached == args.limit # 0 /\ link.sent >= args.limit

GetFrame ==
    /\ link.pc = "get"
    /\ IF LimitReached
       THEN link' = [link EXCEPT !.pc = "abort"] /\ UNCHANGED outgoing
       ELSE /\ ~GetWaits(outgoing)
            /\ link' = [link EXCEPT !.item = Got(outgoing), !.pc = IF Got(outgoing) = NoItem THEN "abort" ELSE "exchange"]
            /\ outgoing' = Get(outgoing)
    /\ UNCHANGED <<args, source, compress, wantKey, returned, iv, decrypt, waitingKey, stats, failure, errors,
                   playback, view, main, sent, decoded>>

(* --tamper-every flips a byte of what the link returned.                      *)
Tampered(count) == args.tamper # 0 /\ count % args.tamper = 0

(* Mutant: the IV moves by one message, however many the frame has.            *)
AdvanceByOne(counter, count) == counter + 1

(* framing.advance_iv.                                                         *)
Advance(counter, count) == counter + count

(* Past the last counter value advance_iv raises: in build_tx before anything  *)
(* is sent, or after the exchange when the frame took the last value.          *)
Exchange ==
    /\ link.pc = "exchange"
    /\ IF iv + link.item.chunks - 1 > CounterLimit
       THEN link' = [link EXCEPT !.pc = "except"] /\ UNCHANGED <<iv, sent>>
       ELSE /\ sent' = Append(sent, [first |-> iv, count |-> link.item.chunks])
            /\ IF Advance(iv, link.item.chunks) > CounterLimit
               THEN link' = [link EXCEPT !.pc = "except"] /\ UNCHANGED iv
               ELSE /\ iv' = Advance(iv, link.item.chunks)
                    /\ link' = [sent |-> link.sent + 1, pc |-> IF args.fpga THEN "decrypt" ELSE "put",
                                item |-> [frame |-> link.item, pass |-> ~Tampered(link.sent + 1)]]
    /\ UNCHANGED <<args, source, compress, wantKey, outgoing, returned, decrypt, waitingKey, stats, failure, errors,
                   playback, view, main, decoded>>

(* --fpga-decrypt: the IP checks the tags, on this thread.                     *)
DecryptInIp ==
    /\ link.pc = "decrypt"
    /\ link' = [link EXCEPT !.pc = "put"]
    /\ UNCHANGED <<args, source, compress, wantKey, outgoing, returned, iv, decrypt, waitingKey, stats, failure,
                   errors, playback, view, main, sent, decoded>>

PutReturned ==
    /\ link.pc = "put" /\ ~PutWaits(returned)
    /\ returned' = Put(returned, link.item)
    /\ link' = [link EXCEPT !.pc = "get", !.item = NoItem]
    /\ UNCHANGED <<args, source, compress, wantKey, outgoing, iv, decrypt, waitingKey, stats, failure, errors,
                   playback, view, main, sent, decoded>>

EndLink ==
    /\ \/ /\ link.pc = "abort"
          /\ outgoing' = Abort(outgoing) /\ UNCHANGED returned
          /\ link' = [link EXCEPT !.pc = "close"]
       \/ /\ link.pc = "close"
          /\ returned' = Close(returned) /\ UNCHANGED outgoing
          /\ link' = [link EXCEPT !.pc = "done"]
    /\ UNCHANGED <<args, source, compress, wantKey, iv, decrypt, waitingKey, stats, failure, errors, playback, view,
                   main, sent, decoded>>

-------------------------------------------------------------------------------
(* Decrypt stage.                                                              *)
GetReturned ==
    /\ decrypt.pc = "get" /\ ~GetWaits(returned)
    /\ decrypt' = [decrypt EXCEPT !.item = Got(returned), !.pc = IF Got(returned) = NoItem THEN "end" ELSE "restore"]
    /\ returned' = Get(returned)
    /\ UNCHANGED <<args, source, compress, wantKey, outgoing, link, iv, waitingKey, stats, failure, errors, playback,
                   view, main, sent, decoded>>

(* Mutant: a frame after a failed one is decoded whatever it is.               *)
SkipsNever(frame) == FALSE

(* The tag passed, but the decoder has nothing to build the frame on.          *)
Skips(frame) == waitingKey /\ ~frame.key

(* Mutant: a key frame is asked for once, when the decoder starts to wait.     *)
AsksOnce == ~args.jpeg /\ ~waitingKey

AsksForKey == ~args.jpeg

Restore ==
    /\ decrypt.pc = "restore"
    /\ LET frame == decrypt.item.frame IN
       \/ /\ ~decrypt.item.pass
          /\ stats' = [stats EXCEPT !.failed = @ + 1]
          /\ waitingKey' = (waitingKey \/ ~args.jpeg)
          /\ decrypt' = [decrypt EXCEPT !.pc = IF AsksForKey THEN "request" ELSE "publish", !.skipped = FALSE]
          /\ UNCHANGED decoded
       \/ /\ decrypt.item.pass /\ Skips(frame)
          /\ stats' = [stats EXCEPT !.waiting = @ + 1]
          /\ decrypt' = [decrypt EXCEPT !.pc = "publish", !.skipped = TRUE]
          /\ UNCHANGED <<waitingKey, decoded>>
       \/ /\ decrypt.item.pass /\ ~Skips(frame)
          /\ waitingKey' = FALSE
          /\ decoded' = Append(decoded, frame)
          /\ decrypt' = [decrypt EXCEPT !.pc = "publish", !.skipped = FALSE]
          /\ UNCHANGED stats
    /\ UNCHANGED <<args, source, compress, wantKey, outgoing, returned, link, iv, failure, errors, playback, view,
                   main, sent>>

RequestKeyFrame ==
    /\ decrypt.pc = "request"
    /\ wantKey' = TRUE
    /\ decrypt' = [decrypt EXCEPT !.pc = "publish"]
    /\ UNCHANGED <<args, source, compress, outgoing, returned, link, iv, waitingKey, stats, failure, errors, playback,
                   view, main, sent, decoded>>

(* With no window publish() does nothing.                                      *)
Publish ==
    /\ decrypt.pc = "publish"
    /\ stats' = [stats EXCEPT !.frames = @ + 1]
    /\ playback' = IF args.window
                   THEN Append(playback, [number |-> stats.frames + 1, pass |-> decrypt.item.pass, waiting |-> decrypt.skipped])
                   ELSE playback
    /\ decrypt' = [decrypt EXCEPT !.pc = "get", !.item = NoItem]
    /\ UNCHANGED <<args, source, compress, wantKey, outgoing, returned, link, iv, waitingKey, failure, errors, view,
                   main, sent, decoded>>

(* Mutant: the frames the queue dropped are not counted.                       *)
DroppedBySource == source.dropped

(* FrameStream.dropped.                                                        *)
Dropped == source.dropped + outgoing.dropped

EndDecrypt ==
    /\ decrypt.pc = "end"
    /\ stats' = [stats EXCEPT !.dropped = Dropped, !.ended = TRUE]
    /\ decrypt' = [decrypt EXCEPT !.pc = "done"]
    /\ UNCHANGED <<args, source, compress, wantKey, outgoing, returned, link, iv, waitingKey, failure, errors,
                   playback, view, main, sent, decoded>>

-------------------------------------------------------------------------------
(* Stages._run: an error is kept, if it is the first, and stops the others.    *)
(* The test of `failure` and its assignment are two steps, and stop() aborts   *)
(* the queues one after the other.                                             *)
Pc(t) == CASE t = "compress" -> compress.pc [] t = "link" -> link.pc [] OTHER -> decrypt.pc

SetPc(t, pc) ==
    /\ compress' = IF t = "compress" THEN [compress EXCEPT !.pc = pc] ELSE compress
    /\ link' = IF t = "link" THEN [link EXCEPT !.pc = pc] ELSE link
    /\ decrypt' = IF t = "decrypt" THEN [decrypt EXCEPT !.pc = pc] ELSE decrypt

Raising == [compress |-> {"read", "encode"}, link |-> {"exchange", "decrypt"}, decrypt |-> {"restore"}]

Error(t) ==
    /\ Pc(t) \in Raising[t] /\ errors.count < args.errors
    /\ errors' = [errors EXCEPT !.count = @ + 1]
    /\ SetPc(t, "except")
    /\ UNCHANGED <<args, source, wantKey, outgoing, returned, iv, waitingKey, stats, failure, playback, view, main,
                   sent, decoded>>

ReadFailure(t) ==
    /\ Pc(t) = "except"
    /\ errors' = [errors EXCEPT !.seen[t] = failure]
    /\ SetPc(t, "keep")
    /\ UNCHANGED <<args, source, wantKey, outgoing, returned, iv, waitingKey, stats, failure, playback, view, main,
                   sent, decoded>>

KeepFailure(t) ==
    /\ Pc(t) = "keep"
    /\ failure' = IF errors.seen[t] = NoThread THEN t ELSE errors.seen[t]
    /\ SetPc(t, "stop outgoing")
    /\ UNCHANGED <<args, source, wantKey, outgoing, returned, iv, waitingKey, stats, errors, playback, view, main,
                   sent, decoded>>

StopAll(t) ==
    /\ \/ /\ Pc(t) = "stop outgoing"
          /\ outgoing' = Abort(outgoing) /\ UNCHANGED returned
          /\ SetPc(t, "stop returned")
       \/ /\ Pc(t) = "stop returned"
          /\ returned' = Abort(returned) /\ UNCHANGED outgoing
          /\ SetPc(t, "done")
    /\ UNCHANGED <<args, source, wantKey, iv, waitingKey, stats, failure, errors, playback, view, main, sent, decoded>>

-------------------------------------------------------------------------------
(* Main thread.                                                                *)
Alive == \E t \in Threads : Pc(t) # "done"

(* View.compose: takes the frames that are due, the oldest ones.               *)
Redraw ==
    /\ main = "running" /\ args.window
    /\ \E due \in 1..Len(playback) :
         /\ view' = TakeResults(view, SubSeq(playback, 1, due))
         /\ playback' = SubSeq(playback, due + 1, Len(playback))
    /\ UNCHANGED <<args, source, compress, wantKey, outgoing, returned, link, iv, decrypt, waitingKey, stats, failure,
                   errors, main, sent, decoded>>

(* _FAIL_HOLD_S have passed.                                                   *)
HoldEnds ==
    /\ main = "running" /\ view.hold
    /\ view' = [view EXCEPT !.hold = FALSE]
    /\ UNCHANGED <<args, source, compress, wantKey, outgoing, returned, link, iv, decrypt, waitingKey, stats, failure,
                   errors, playback, main, sent, decoded>>

(* View.run, and the loop of process_frames when there is no window.           *)
WindowEnds == ~Alive /\ playback = <<>>

LoopEnds ==
    /\ main = "running" /\ WindowEnds
    /\ main' = IF args.window THEN "stop outgoing" ELSE "finish"
    /\ UNCHANGED <<args, source, compress, wantKey, outgoing, returned, link, iv, decrypt, waitingKey, stats, failure,
                   errors, playback, view, sent, decoded>>

(* q, Esc or the X button.                                                     *)
UserCloses ==
    /\ main = "running" /\ args.window
    /\ main' = "user stop"
    /\ UNCHANGED <<args, source, compress, wantKey, outgoing, returned, link, iv, decrypt, waitingKey, stats, failure,
                   errors, playback, view, sent, decoded>>

Stop ==
    /\ \/ /\ main \in {"stop outgoing", "user stop"}
          /\ outgoing' = Abort(outgoing) /\ UNCHANGED returned
          /\ main' = "stop returned"
       \/ /\ main = "stop returned"
          /\ returned' = Abort(returned) /\ UNCHANGED outgoing
          /\ main' = "finish"
    /\ UNCHANGED <<args, source, compress, wantKey, link, iv, decrypt, waitingKey, stats, failure, errors, playback,
                   view, sent, decoded>>

(* FrameStream.finish: waits for the stages, _STOP_WAIT_S at most; then run()  *)
(* closes the source.                                                          *)
Finish ==
    /\ main = "finish"
    /\ main' = "done"
    /\ source' = [source EXCEPT !.running = FALSE]
    /\ UNCHANGED <<args, compress, wantKey, outgoing, returned, link, iv, decrypt, waitingKey, stats, failure, errors,
                   playback, view, sent, decoded>>

-------------------------------------------------------------------------------
CompressStage == Read \/ Encode \/ ClearRequest \/ PutOutgoing \/ EndCompress

LinkStage == Fill \/ GetFrame \/ Exchange \/ DecryptInIp \/ PutReturned \/ EndLink

DecryptStage == GetReturned \/ Restore \/ RequestKeyFrame \/ Publish \/ EndDecrypt

Handler(t) == ReadFailure(t) \/ KeepFailure(t) \/ StopAll(t)

Window == Redraw \/ LoopEnds \/ Stop \/ Finish

Terminated == main = "done" /\ ~Alive /\ UNCHANGED vars

Next ==
    \/ Grab \/ CompressStage \/ LinkStage \/ DecryptStage
    \/ \E t \in Threads : Error(t) \/ Handler(t)
    \/ Window \/ HoldEnds \/ UserCloses
    \/ Terminated

Spec == Init /\ [][Next]_vars

(* The camera delivers, every thread runs, and the window is redrawn.  The     *)
(* user need not do anything and nothing need fail.                            *)
FairSpec ==
    /\ Spec
    /\ WF_vars(Grab) /\ WF_vars(CompressStage) /\ WF_vars(LinkStage) /\ WF_vars(DecryptStage) /\ WF_vars(Window)
    /\ \A t \in Threads : WF_vars(Handler(t))

-------------------------------------------------------------------------------
QueueOK(q, items) ==
    /\ q.items \in Seq(items) /\ q.closed \in BOOLEAN /\ q.dropped \in Nat
    /\ Len(q.items) <= q.capacity
    /\ ~q.dropOldest => q.dropped = 0

ErrorPcs == {"except", "keep", "stop outgoing", "stop returned", "done"}

(* Types of the stages' state; a queue never holds more than its capacity, and *)
(* only the queue of a live JPEG run drops.                                    *)
CameraTypeOK ==
    /\ args \in Runs
    /\ source \in [given : 0..FrameCount, slot : BOOLEAN, running : BOOLEAN, dropped : 0..FrameCount]
    /\ compress.pc \in {"read", "encode", "clear", "put", "close"} \cup ErrorPcs
    /\ compress.frame \in Frames \cup {NoItem} /\ compress.encoded \in 0..FrameCount
    /\ wantKey \in BOOLEAN /\ waitingKey \in BOOLEAN
    /\ QueueOK(outgoing, Frames) /\ QueueOK(returned, Packets)
    /\ outgoing.dropped > 0 => args.live /\ args.jpeg
    /\ link.pc \in {"preroll", "get", "exchange", "decrypt", "put", "abort", "close"} \cup ErrorPcs
    /\ link.item \in Frames \cup Packets \cup {NoItem} /\ link.sent \in Nat
    /\ iv \in 0..CounterLimit
    /\ decrypt.pc \in {"get", "restore", "request", "publish", "end"} \cup ErrorPcs
    /\ decrypt.item \in Packets \cup {NoItem} /\ decrypt.skipped \in BOOLEAN
    /\ failure \in Threads \cup {NoThread}

(* No IV is used for two messages of a run, whatever was dropped, tampered     *)
(* with or failed: camera.py:314 "Stays unique across frames".                 *)
CameraIVsUnique ==
    \A i, j \in DOMAIN sent : i < j => sent[i].first + sent[i].count <= sent[j].first

(* H.264: the decoder gets a key frame, or the frame after the one it got      *)
(* last; a frame that failed, was skipped or was dropped leaves it waiting     *)
(* (codec.py:4 "no encoded frame may be dropped").                             *)
DecoderFollows ==
    \A i \in DOMAIN decoded : decoded[i].key \/ (i > 1 /\ decoded[i].seq = decoded[i - 1].seq + 1)

(* A key frame is on its way to the decrypt stage.                             *)
KeyOnItsWay ==
    \/ compress.frame # NoItem /\ compress.frame.key
    \/ \E i \in DOMAIN outgoing.items : outgoing.items[i].key
    \/ link.pc = "exchange" /\ link.item.key
    \/ link.pc \in {"decrypt", "put"} /\ link.item.frame.key
    \/ \E i \in DOMAIN returned.items : returned.items[i].frame.key
    \/ decrypt.pc = "restore" /\ decrypt.item.frame.key

(* Whenever the decoder waits, a key frame is asked for or on its way, unless  *)
(* the run is being stopped: the picture comes back.  The request is a flag    *)
(* two threads write without a lock, and a key frame may itself fail.          *)
KeyComes ==
    waitingKey =>
        \/ wantKey \/ decrypt.pc = "request" \/ KeyOnItsWay
        \/ outgoing.closed \/ returned.closed
        \/ \E t \in Threads : Pc(t) \in ErrorPcs

(* The panel shows the picture of the frame shown last and of no other, and    *)
(* only when its tag passed ("nothing of it may reach the screen",             *)
(* camera_view.py:54); when the window closes by itself, the last frame of the *)
(* run was shown.                                                              *)
PanelHonest ==
    /\ ThirdPanel(view) \notin {Fail, NoPicture} => ThirdPanel(view) = view.shown
    /\ main = "stop outgoing" => playback = <<>> /\ view.shown = stats.frames

(* A redraw may skip frames, but never a failed one (camera_view.py:153).      *)
FailuresShown ==
    [][\A due \in 1..Len(playback) :
          (/\ playback' = SubSeq(playback, due + 1, Len(playback))
           /\ \E i \in 1..due : ~playback[i].pass)
          => ThirdPanel(view') = Fail]_<<view, playback>>

Normal == failure = NoThread /\ main \in {"running", "stop outgoing"} /\ ~LimitReached

(* A run nobody stopped accounts for every frame of the source: published, or  *)
(* counted as dropped, by the camera or by the queue.                          *)
FramesAccounted ==
    Normal /\ ~Alive /\ ~args.fps => stats.frames + stats.dropped = FrameCount

(* Every stage ends: when the source ends, when the limit is reached, when the *)
(* user closes the window, and when a stage fails, whatever queue another one  *)
(* waits on then.                                                              *)
StagesEnd == <>[](~Alive /\ main = "done")

(* pipeline.py:68 "The first error stops them all and is kept for the caller". *)
FirstErrorKept == [][failure # NoThread => failure' = failure]_failure
===============================================================================
