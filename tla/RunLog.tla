-------------------------------- MODULE RunLog --------------------------------
(* run_log.py with its callers: run_command (cli.py) opens the log of a run    *)
(* and closes it, the threads of the run write to it through the module's      *)
(* functions.  These test the global _active and then use it, in two reads     *)
(* with no lock between them; the stage threads of a camera run may outlive    *)
(* it, because FrameStream.finish waits for them _STOP_WAIT_S only.            *)
(* A log is the record [stamp, suffix, open, rows, lines]: its file name, the  *)
(* runs whose threads wrote the rows of its CSV, and those of its FRAME lines. *)
EXTENDS Integers, Sequences

CONSTANTS
    MaxRuns,     \* runs of the session
    MaxSeconds,  \* seconds the session lasts
    MaxFrames,   \* frames a writer logs in a run
    Writers,     \* stage threads that log frames
    Stragglers   \* TRUE: a thread may outlive its run

NoLog == 0

VARIABLES
    active,  \* _active: the number of a log, or NoLog
    logs,    \* every log of the folder, in the order of their creation
    clock,   \* the second datetime.now() is in
    run,     \* the main thread: [pc, number]
    writer   \* the writers: [run, pc, left]

vars == <<active, logs, clock, run, writer>>

RunLogInit ==
    /\ active = NoLog /\ logs = <<>> /\ clock = 1
    /\ run = [pc |-> "idle", number |-> 0]
    /\ writer = [w \in Writers |-> [run |-> 0, pc |-> "ended", left |-> 0]]

Tick == clock < MaxSeconds /\ clock' = clock + 1 /\ UNCHANGED <<active, logs, run, writer>>

-------------------------------------------------------------------------------
Taken(suffix) == \E i \in DOMAIN logs : logs[i].stamp = clock /\ logs[i].suffix = suffix

(* Mutant: the name of the log is that of its second.                          *)
FirstSuffix == 1

(* Two runs in the same second keep both logs.                                 *)
FreeSuffix == CHOOSE s \in 1..(Len(logs) + 1) : ~Taken(s) /\ \A t \in 1..(s - 1) : Taken(t)

(* Mutant: a closed file is written to.                                        *)
WriteAnyway(log, field, by) == [log EXCEPT ![field] = Append(@, by)]

(* RunLog.write and RunLog.row, under the log's lock.                          *)
Write(log, field, by) == IF log.open THEN [log EXCEPT ![field] = Append(@, by)] ELSE log

NewLog == [stamp |-> clock, suffix |-> FreeSuffix, open |-> TRUE, rows |-> <<>>, lines |-> <<>>]

(* finish(): the log left open is closed.                                      *)
Finished == [i \in DOMAIN logs |-> IF i = active THEN [logs[i] EXCEPT !.open = FALSE] ELSE logs[i]]

(* start().                                                                    *)
Start ==
    /\ run.pc = "idle" /\ run.number < MaxRuns
    /\ logs' = Append(Finished, NewLog)
    /\ active' = Len(logs) + 1
    /\ run' = [pc |-> "open", number |-> run.number + 1]
    /\ UNCHANGED <<clock, writer>>

(* The run starts its stages; one that still works for an earlier run goes on. *)
StartStages ==
    /\ run.pc = "open"
    /\ run' = [run EXCEPT !.pc = "running"]
    /\ writer' = [w \in Writers |-> IF writer[w].pc = "ended"
                                    THEN [run |-> run.number, pc |-> "work", left |-> MaxFrames] ELSE writer[w]]
    /\ UNCHANGED <<active, logs, clock>>

Joined == \A w \in Writers : writer[w].pc = "ended"

(* finish(): the file is closed, and then the global forgets it.               *)
CloseLog ==
    /\ run.pc = "running" /\ (Joined \/ Stragglers)
    /\ logs' = Finished
    /\ run' = [run EXCEPT !.pc = "closed"]
    /\ UNCHANGED <<active, clock, writer>>

Forget ==
    /\ run.pc = "closed"
    /\ active' = NoLog
    /\ run' = [run EXCEPT !.pc = "idle"]
    /\ UNCHANGED <<logs, clock, writer>>

-------------------------------------------------------------------------------
(* frame(): the test, the row and the line each read _active.                  *)
TestActive(w) ==
    /\ writer[w].pc = "work" /\ writer[w].left > 0
    /\ writer' = [writer EXCEPT ![w].left = @ - 1, ![w].pc = IF active = NoLog THEN "work" ELSE "row"]
    /\ UNCHANGED <<active, logs, clock, run>>

WriteOn(w, from, field, next) ==
    /\ writer[w].pc = from
    /\ IF active = NoLog
       THEN writer' = [writer EXCEPT ![w].pc = "broken"] /\ UNCHANGED logs
       ELSE /\ writer' = [writer EXCEPT ![w].pc = next]
            /\ logs' = [logs EXCEPT ![active] = Write(@, field, writer[w].run)]
    /\ UNCHANGED <<active, clock, run>>

WriteRow(w) == WriteOn(w, "row", "rows", "line")

WriteLine(w) == WriteOn(w, "line", "lines", "work")

(* The stage ends, or its failure ends it.                                     *)
EndWriter(w) ==
    /\ writer[w].pc \in {"work", "broken"}
    /\ writer' = [writer EXCEPT ![w].pc = "ended"]
    /\ UNCHANGED <<active, logs, clock, run>>

Next ==
    \/ Tick \/ Start \/ StartStages \/ CloseLog \/ Forget
    \/ \E w \in Writers : TestActive(w) \/ WriteRow(w) \/ WriteLine(w) \/ EndWriter(w)

Spec == RunLogInit /\ [][Next]_vars

-------------------------------------------------------------------------------
(* Types; no row is lost to a missing log unless a thread outlived its run.    *)
RunLogTypeOK ==
    /\ active \in 0..Len(logs) /\ clock \in 1..MaxSeconds
    /\ run \in [pc : {"idle", "open", "running", "closed"}, number : 0..MaxRuns]
    /\ \A i \in DOMAIN logs : logs[i].open \in BOOLEAN /\ logs[i].rows \in Seq(1..MaxRuns) /\ logs[i].lines \in Seq(1..MaxRuns)
    /\ writer \in [Writers -> [run : 0..MaxRuns, pc : {"work", "row", "line", "broken", "ended"}, left : 0..MaxFrames]]
    /\ Len(logs) = run.number

(* Only one run is open at a time (run_log.py:3), and it is the active one.    *)
OneRunOpen == \A i \in DOMAIN logs : logs[i].open => i = active

(* Two runs never share a file, however short they are.                        *)
LogsKept == \A i, j \in DOMAIN logs : logs[i].stamp = logs[j].stamp /\ logs[i].suffix = logs[j].suffix => i = j

(* A closed log never changes again, even under threads that outlived its run. *)
ClosedIsFinal == [][\A i \in DOMAIN logs : ~logs[i].open => logs'[i] = logs[i]]_logs

(* Every log holds what its own run did, and when the run is over a row of the *)
(* CSV for every FRAME line: for runs that wait for their threads.             *)
OwnLines == \A i \in DOMAIN logs : \A field \in {"rows", "lines"} : \A k \in DOMAIN logs[i][field] : logs[i][field][k] = i

RowsMatchLines == \A i \in DOMAIN logs : ~logs[i].open => Len(logs[i].rows) = Len(logs[i].lines)
===============================================================================
