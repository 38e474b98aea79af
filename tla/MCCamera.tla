------------------------------- MODULE MCCamera -------------------------------
(* The command lines of the runs: a live camera or a file, JPEG or H.264, with *)
(* and without a window, tampering, --fpga-decrypt, a limit, and errors.       *)
EXTENDS Camera

Base == [live |-> TRUE, jpeg |-> FALSE, fps |-> FALSE, preroll |-> 1, limit |-> 0, tamper |-> 2,
         fpga |-> FALSE, window |-> FALSE, errors |-> 0]

File == [Base EXCEPT !.live = FALSE, !.preroll = 0]

(* Every second frame is tampered with, and nothing else fails.                *)
StreamRuns == {Base, [Base EXCEPT !.jpeg = TRUE], [Base EXCEPT !.fps = TRUE, !.limit = 3]}

(* The IP checks the tags; a stage may fail.                                   *)
FileRuns == {[File EXCEPT !.fpga = TRUE, !.errors = 1], [File EXCEPT !.jpeg = TRUE, !.limit = 2, !.errors = 1]}

WindowRuns == {[File EXCEPT !.window = TRUE, !.limit = 3],
               [Base EXCEPT !.window = TRUE, !.jpeg = TRUE, !.limit = 1, !.tamper = 0, !.errors = 1]}

CameraRuns == StreamRuns \cup FileRuns \cup WindowRuns

(* Two stages that fail.                                                       *)
FailingRuns == {[Base EXCEPT !.errors = 2]}
===============================================================================
