----------------------------- MODULE CommandProofs -----------------------------
(* The commands of the host, for any number of keys, prefixes, rounds, runs    *)
(* and writers: the menu's lines are accepted and its pairs never repeat with  *)
(* and without --advanced (the lemmas of SessionProofs, once for each), every  *)
(* run has a log of its own, and the file modes send streams that carry their  *)
(* files and keep to their window (the lemmas of FileProofs, once for each).   *)
EXTENDS Sequences, MCCommands, SessionProofs, FiniteSetTheorems, WellFoundedInduction

PlainProofs == INSTANCE SessionProofs WITH Advanced <- FALSE, Keys <- MenuKeys, MaxRounds <- MenuRounds

Streams == INSTANCE FileProofs WITH
    BlockBytes <- 2, MaxDataBlocks <- 2, MaxPayload <- 7, CounterLimit <- 8, Key <- k, FirstIV <- <<p, 0>>, Images <- ImagePixels,
    Keys <- {<<k>>}, IVs <- RawIVs, Files <- RawFiles, Aads <- RawAads, Data <- RawData, BlockChoices <- 0..3

Transfers == INSTANCE FileProofs WITH
    BlockBytes <- 1, MaxDataBlocks <- 1, MaxPayload <- 2, CounterLimit <- 6, Key <- k, FirstIV <- <<p, 0>>, Images <- ImagePixels,
    Keys <- {<<k>>}, IVs <- RawIVs, Files <- RawFiles, Aads <- RawAads, Data <- RawData, BlockChoices <- 0..3

-------------------------------------------------------------------------------
(* A log of the folder.                                                        *)
LogRecord == [stamp : Nat, suffix : Nat, open : BOOLEAN, rows : Seq(Nat), lines : Seq(Nat)]

(* A stage thread that logs.                                                   *)
WriterRecord == [run : Nat, pc : {"work", "row", "line", "broken", "ended"}, left : Int]

LogShape ==
    /\ logs \in Seq(LogRecord) /\ clock \in Nat
    /\ run \in [pc : {"idle", "open", "running", "closed"}, number : Nat]
    /\ Len(logs) = run.number
    /\ active \in 0..Len(logs)
    /\ writer \in [Writers -> WriterRecord]

(* The run under way has its log open; the global forgets a log once closed.   *)
ActiveLog ==
    /\ Late!OneRunOpen
    /\ run.pc \in {"open", "running"} => active = Len(logs) /\ active # Late!NoLog /\ logs[active].open
    /\ run.pc = "closed" => \A i \in DOMAIN logs : ~logs[i].open
    /\ run.pc = "idle" => active = Late!NoLog

LogInv == LogShape /\ ActiveLog /\ Late!LogsKept

LEMMA StepsOfLogs ==
  ASSUME [CommandsNext]_commandVars
  PROVE  /\ part' = part
         /\ \/ UNCHANGED logVars
            \/ part = "log" /\ Log!Next
            \/ part = "late" /\ Late!Next
  <1>1. CASE UNCHANGED commandVars \/ Stopped
    BY <1>1 DEF commandVars, Stopped
  <1>2. CASE InMenu \/ InSession \/ InRaw \/ InImage
    BY <1>2 DEF InMenu, InSession, InRaw, InImage
  <1>3. CASE InLog /\ Log!Next
    BY <1>3 DEF InLog
  <1>4. CASE InLate /\ Late!Next
    BY <1>4 DEF InLate
  <1> QED BY <1>1, <1>2, <1>3, <1>4, Zenon DEF CommandsNext, Log!Next, Late!Next

(* A run that waits for its threads does what any run may do, and closes its   *)
(* log when all of them have ended.                                            *)
LEMMA LogIsLate == Log!Next => Late!Next /\ (run.pc = "running" /\ run'.pc # "running" => Late!Joined)
  <1>1. Log!FreeSuffix = Late!FreeSuffix
    BY DEF Log!FreeSuffix, Late!FreeSuffix, Log!Taken, Late!Taken
  <1>2. Log!Finished = Late!Finished
    BY DEF Log!Finished, Late!Finished
  <1>3. Log!NewLog = Late!NewLog
    BY <1>1 DEF Log!NewLog, Late!NewLog
  <1>4. Log!Start => Late!Start /\ run.pc # "running"
    BY <1>2, <1>3 DEF Log!Start, Late!Start
  <1>5. Log!CloseLog => Late!CloseLog /\ Late!Joined
    BY <1>2 DEF Log!CloseLog, Late!CloseLog, Log!Joined, Late!Joined
  <1>6. Log!StartStages => Late!StartStages /\ run.pc # "running"
    BY DEF Log!StartStages, Late!StartStages
  <1>7. (Log!Tick => Late!Tick /\ run' = run) /\ (Log!Forget => Late!Forget /\ run.pc # "running")
    BY DEF Log!Tick, Late!Tick, Log!Forget, Late!Forget, Log!NoLog, Late!NoLog
  <1>8. \A w \in Writers : /\ Log!TestActive(w) => Late!TestActive(w) /\ run' = run
                           /\ Log!EndWriter(w) => Late!EndWriter(w) /\ run' = run
    BY DEF Log!TestActive, Late!TestActive, Log!EndWriter, Late!EndWriter, Log!NoLog, Late!NoLog
  <1>9. \A log, field, by : Log!Write(log, field, by) = Late!Write(log, field, by)
    BY DEF Log!Write, Late!Write
  <1>10. \A w \in Writers : /\ Log!WriteRow(w) => Late!WriteRow(w) /\ run' = run
                            /\ Log!WriteLine(w) => Late!WriteLine(w) /\ run' = run
    BY <1>9 DEF Log!WriteRow, Late!WriteRow, Log!WriteLine, Late!WriteLine, Log!WriteOn, Late!WriteOn, Log!NoLog, Late!NoLog
  <1> QED BY <1>4, <1>5, <1>6, <1>7, <1>8, <1>10 DEF Log!Next, Late!Next
(* Some suffix up to Len(logs) + 1 is free, so the loop that looks for it ends *)
(* and finds one.                                                              *)
LEMMA SuffixIsFree ==
  ASSUME LogShape
  PROVE  Late!FreeSuffix \in Nat /\ ~Late!Taken(Late!FreeSuffix)
  <1> DEFINE S == 1..(Len(logs) + 1)
             Free == {s \in S : ~Late!Taken(s)}
  <1>0. Len(logs) \in Nat /\ DOMAIN logs = 1..Len(logs)
    BY DEF LogShape
  <1>1. Free # {}
    <2> SUFFICES ASSUME \A s \in S : Late!Taken(s) PROVE FALSE
      OBVIOUS
    <2> DEFINE holder == [s \in S |-> CHOOSE i \in DOMAIN logs : logs[i].stamp = clock /\ logs[i].suffix = s]
    <2>1. \A s \in S : holder[s] \in 1..Len(logs) /\ logs[holder[s]].suffix = s
      BY <1>0 DEF Late!Taken
    <2>2. holder \in [S -> 1..Len(logs)]
      BY <2>1
    <2>3. IsFiniteSet(S) /\ Cardinality(S) = Len(logs) + 1
      BY <1>0, FS_Interval
    <2>4. IsFiniteSet(1..Len(logs)) /\ Cardinality(1..Len(logs)) = Len(logs)
      BY <1>0, FS_Interval
    <2> HIDE DEF holder
    <2>5. PICK s, t \in S : s # t /\ holder[s] = holder[t]
      <3>1. Cardinality(1..Len(logs)) < Cardinality(S)
        BY <1>0, <2>3, <2>4
      <3> HIDE DEF S
      <3> QED BY <2>2, <2>3, <2>4, <3>1, FS_PigeonHole
    <2> QED BY <2>1, <2>5
  <1>2. PICK least \in Free : \A s \in Free : ~(s < least)
    <2>1. Free \subseteq Nat
      BY <1>0
    <2> HIDE DEF Free
    <2>2. PICK least \in Free : \A s \in Free : <<s, least>> \notin OpToRel(<, Nat)
      BY <1>1, <2>1, NatLessThanWellFounded, WFMin
    <2>3. \A s \in Free : ~(s < least)
      BY <2>1, <2>2 DEF OpToRel
    <2> QED BY <2>3
  <1>3. least \in S /\ ~Late!Taken(least) /\ \A t \in 1..(least - 1) : Late!Taken(t)
    BY <1>0, <1>2
  <1>4. \E s \in S : ~Late!Taken(s) /\ \A t \in 1..(s - 1) : Late!Taken(t)
    BY <1>3
  <1>5. Late!FreeSuffix \in S /\ ~Late!Taken(Late!FreeSuffix)
    BY <1>4 DEF Late!FreeSuffix
  <1> QED BY <1>0, <1>5

(* Closing touches the flag of the active log and nothing else.                *)
LEMMA FinishedLogs ==
  ASSUME LogShape
  PROVE  /\ Late!Finished \in Seq(LogRecord) /\ Len(Late!Finished) = Len(logs) /\ DOMAIN Late!Finished = DOMAIN logs
         /\ \A i \in DOMAIN logs : /\ Late!Finished[i].open = (logs[i].open /\ i # active)
                                   /\ Late!Finished[i].stamp = logs[i].stamp /\ Late!Finished[i].suffix = logs[i].suffix
                                   /\ Late!Finished[i].rows = logs[i].rows /\ Late!Finished[i].lines = logs[i].lines
                                   /\ ~logs[i].open \/ i # active => Late!Finished[i] = logs[i]
  <1>0. Len(logs) \in Nat /\ DOMAIN logs = 1..Len(logs) /\ \A i \in 1..Len(logs) : logs[i] \in LogRecord
    BY DEF LogShape
  <1>1. \A log \in LogRecord : [log EXCEPT !.open = FALSE] \in LogRecord /\ (~log.open => [log EXCEPT !.open = FALSE] = log)
    BY DEF LogRecord
  <1>2. Late!Finished \in [1..Len(logs) -> LogRecord]
    BY <1>0, <1>1 DEF Late!Finished
  <1>3. Late!Finished \in Seq(LogRecord) /\ Len(Late!Finished) = Len(logs)
    BY <1>0, <1>2
  <1>4. \A i \in DOMAIN logs : ~logs[i].open \/ i # active => Late!Finished[i] = logs[i]
    BY <1>0, <1>1 DEF Late!Finished
  <1>5. \A i \in DOMAIN logs : /\ Late!Finished[i].open = (logs[i].open /\ i # active)
                               /\ Late!Finished[i].stamp = logs[i].stamp /\ Late!Finished[i].suffix = logs[i].suffix
                               /\ Late!Finished[i].rows = logs[i].rows /\ Late!Finished[i].lines = logs[i].lines
    BY <1>0 DEF Late!Finished, LogRecord
  <1> QED BY <1>0, <1>2, <1>3, <1>4, <1>5

(* A row or a line is added to a log that is open, and to no other.            *)
LEMMA WriteLog ==
  ASSUME NEW log \in LogRecord, NEW by \in Nat, NEW field \in {"rows", "lines"}
  PROVE  LET new == Late!Write(log, field, by) IN
         /\ new \in LogRecord
         /\ new.stamp = log.stamp /\ new.suffix = log.suffix /\ new.open = log.open
         /\ ~log.open => new = log
         /\ log.open => /\ new.rows = IF field = "rows" THEN Append(log.rows, by) ELSE log.rows
                        /\ new.lines = IF field = "lines" THEN Append(log.lines, by) ELSE log.lines
  <1>1. CASE field = "rows"
    <2>1. Late!Write(log, "rows", by) = IF log.open THEN [log EXCEPT !.rows = Append(@, by)] ELSE log
      BY DEF Late!Write
    <2>2. Append(log.rows, by) \in Seq(Nat)
      BY DEF LogRecord
    <2> QED BY <1>1, <2>1, <2>2 DEF LogRecord
  <1>2. CASE field = "lines"
    <2>1. Late!Write(log, "lines", by) = IF log.open THEN [log EXCEPT !.lines = Append(@, by)] ELSE log
      BY DEF Late!Write
    <2>2. Append(log.lines, by) \in Seq(Nat)
      BY DEF LogRecord
    <2> QED BY <1>2, <2>1, <2>2 DEF LogRecord
  <1> QED BY <1>1, <1>2
(* What a step may do to the logs that are there already.                      *)
ClosedStays == \A i \in DOMAIN logs : ~logs[i].open => logs'[i] = logs[i]

LEMMA StartKeeps == LogInv /\ Late!Start => LogInv' /\ ClosedStays
  <1> SUFFICES ASSUME LogInv, Late!Start PROVE LogInv' /\ ClosedStays
    OBVIOUS
  <1> DEFINE n == Len(logs)
  <1>0. n \in Nat /\ DOMAIN logs = 1..n /\ \A i \in 1..n : logs[i] \in LogRecord
    BY DEF LogInv, LogShape
  <1>1. active = 0 /\ \A i \in 1..n : ~logs[i].open
    BY <1>0 DEF LogInv, ActiveLog, Late!OneRunOpen, Late!Start, Late!NoLog
  <1>2. Late!Finished \in Seq(LogRecord) /\ Len(Late!Finished) = n /\ \A i \in 1..n : Late!Finished[i] = logs[i]
    BY <1>0, <1>1, FinishedLogs DEF LogInv
  <1>3. Late!FreeSuffix \in Nat /\ ~Late!Taken(Late!FreeSuffix)
    BY SuffixIsFree DEF LogInv
  <1>4. Late!NewLog \in LogRecord /\ Late!NewLog.open /\ Late!NewLog.stamp = clock /\ Late!NewLog.suffix = Late!FreeSuffix
    BY <1>3 DEF Late!NewLog, LogRecord, LogInv, LogShape
  <1>5. logs' = Append(Late!Finished, Late!NewLog)
    BY DEF Late!Start
  <1>6. /\ logs' \in Seq(LogRecord) /\ Len(logs') = n + 1 /\ DOMAIN logs' = 1..(n + 1)
        /\ logs'[n + 1] = Late!NewLog
        /\ \A i \in 1..n : logs'[i] = logs[i]
    BY <1>0, <1>2, <1>4, <1>5
  <1>7. LogShape'
    <2>1. run \in [pc : {"idle", "open", "running", "closed"}, number : Nat] /\ run.number = n /\ run' = [pc |-> "open", number |-> run.number + 1]
      BY DEF LogInv, LogShape, Late!Start
    <2>2. run' \in [pc : {"idle", "open", "running", "closed"}, number : Nat] /\ run'.number = n + 1
      BY <1>0, <2>1
    <2>3. active' \in 0..Len(logs') /\ UNCHANGED <<clock, writer>>
      BY <1>0, <1>6 DEF Late!Start
    <2> QED BY <1>6, <2>2, <2>3 DEF LogInv, LogShape
  <1>8. ActiveLog'
    <2>1. active' = n + 1 /\ run'.pc = "open"
      BY DEF Late!Start
    <2>2. \A i \in DOMAIN logs' : logs'[i].open => i = active'
      BY <1>0, <1>1, <1>6, <2>1
    <2>3. active' = Len(logs') /\ active' # 0 /\ logs'[active'].open
      BY <1>0, <1>4, <1>6, <2>1
    <2> QED BY <2>1, <2>2, <2>3 DEF ActiveLog, Late!OneRunOpen, Late!NoLog
  <1>9. Late!LogsKept'
    <2> SUFFICES ASSUME NEW i \in 1..(n + 1), NEW j \in 1..(n + 1),
                        logs'[i].stamp = logs'[j].stamp, logs'[i].suffix = logs'[j].suffix
                 PROVE  i = j
      BY <1>6 DEF Late!LogsKept
    <2>1. \A l \in 1..n : ~(logs[l].stamp = clock /\ logs[l].suffix = Late!FreeSuffix)
      BY <1>0, <1>3 DEF Late!Taken
    <2>2. CASE i \in 1..n /\ j \in 1..n
      BY <1>0, <1>6, <2>2 DEF LogInv, Late!LogsKept
    <2>3. CASE i = n + 1 /\ j \in 1..n
      BY <1>4, <1>6, <2>1, <2>3
    <2>4. CASE i \in 1..n /\ j = n + 1
      BY <1>4, <1>6, <2>1, <2>4
    <2>5. \A l \in 1..(n + 1) : l \in 1..n \/ l = n + 1
      BY <1>0
    <2> QED BY <2>2, <2>3, <2>4, <2>5
  <1>10. ClosedStays
    BY <1>0, <1>6 DEF ClosedStays
  <1> QED BY <1>7, <1>8, <1>9, <1>10 DEF LogInv

LEMMA CloseKeeps == LogInv /\ Late!CloseLog => LogInv' /\ ClosedStays
  <1> SUFFICES ASSUME LogInv, Late!CloseLog PROVE LogInv' /\ ClosedStays
    OBVIOUS
  <1>1. /\ logs' \in Seq(LogRecord) /\ Len(logs') = Len(logs) /\ DOMAIN logs' = DOMAIN logs
        /\ \A i \in DOMAIN logs : /\ logs'[i].open = (logs[i].open /\ i # active)
                                  /\ logs'[i].stamp = logs[i].stamp /\ logs'[i].suffix = logs[i].suffix
                                  /\ ~logs[i].open => logs'[i] = logs[i]
    BY FinishedLogs DEF LogInv, Late!CloseLog
  <1>2. run' \in [pc : {"idle", "open", "running", "closed"}, number : Nat] /\ run'.number = run.number /\ run'.pc = "closed"
    BY DEF LogInv, LogShape, Late!CloseLog
  <1>3. UNCHANGED <<active, clock, writer>>
    BY DEF Late!CloseLog
  <1>4. LogShape'
    BY <1>1, <1>2, <1>3 DEF LogInv, LogShape
  <1>5. ActiveLog'
    <2>1. run.pc = "running"
      BY DEF Late!CloseLog
    <2>2. \A i \in DOMAIN logs' : ~logs'[i].open
      BY <1>1 DEF LogInv, ActiveLog, Late!OneRunOpen
    <2> QED BY <1>2, <1>3, <2>2 DEF ActiveLog, Late!OneRunOpen
  <1>6. Late!LogsKept'
    BY <1>1 DEF LogInv, Late!LogsKept
  <1> QED BY <1>1, <1>4, <1>5, <1>6 DEF LogInv, ClosedStays

(* The steps that leave the files alone.                                       *)
LEMMA QuietKeeps ==
  ASSUME LogInv, UNCHANGED logs, LogShape', UNCHANGED <<active, run>> \/ Late!StartStages \/ Late!Forget
  PROVE  LogInv' /\ ClosedStays
  <1>1. Late!LogsKept' /\ ClosedStays
    BY DEF LogInv, Late!LogsKept, ClosedStays
  <1>2. CASE UNCHANGED <<active, run>>
    BY <1>1, <1>2 DEF LogInv, ActiveLog, Late!OneRunOpen
  <1>3. CASE Late!StartStages
    <2>1. active' = active /\ run.pc = "open" /\ run'.pc = "running"
      BY <1>3 DEF Late!StartStages, LogInv, LogShape
    <2> QED BY <1>1, <2>1 DEF LogInv, ActiveLog, Late!OneRunOpen
  <1>4. CASE Late!Forget
    <2>1. active' = 0 /\ run'.pc = "idle"
      BY <1>4 DEF Late!Forget, Late!NoLog, LogInv, LogShape
    <2>2. \A i \in DOMAIN logs : ~logs[i].open
      BY <1>4 DEF Late!Forget, LogInv, ActiveLog
    <2> QED BY <1>1, <2>1, <2>2 DEF LogInv, ActiveLog, Late!OneRunOpen, Late!NoLog
  <1> QED BY <1>2, <1>3, <1>4
MovedTo(f, w, to) == [f EXCEPT ![w].pc = to]

TestedTo(f, w, to) == [f EXCEPT ![w].left = @ - 1, ![w].pc = to]

LEMMA WriterMoves ==
  ASSUME NEW f \in [Writers -> WriterRecord], NEW w \in Writers,
         NEW to \in {"work", "row", "line", "broken", "ended"}
  PROVE  MovedTo(f, w, to) \in [Writers -> WriterRecord] /\ TestedTo(f, w, to) \in [Writers -> WriterRecord]
  <1>1. \A r \in WriterRecord : /\ [r EXCEPT !.pc = to] \in WriterRecord
                                /\ [r EXCEPT !.left = @ - 1] \in WriterRecord
    BY DEF WriterRecord
  <1> DEFINE g == [f EXCEPT ![w].left = @ - 1]
  <1>2. g \in [Writers -> WriterRecord]
    BY <1>1
  <1> HIDE DEF g
  <1>3. [g EXCEPT ![w].pc = to] \in [Writers -> WriterRecord]
    BY <1>1, <1>2
  <1>4. [f EXCEPT ![w].pc = to] \in [Writers -> WriterRecord]
    BY <1>1
  <1> QED BY <1>3, <1>4 DEF g, MovedTo, TestedTo

(* A thread adds a row or a line to the log that is active, if it is open.     *)
LEMMA WriteKeeps ==
  ASSUME LogInv, NEW w \in Writers, NEW from, NEW field \in {"rows", "lines"}, NEW next \in {"line", "work"},
         Late!WriteOn(w, from, field, next)
  PROVE  LogInv' /\ ClosedStays
  <1>0. Len(logs) \in Nat /\ DOMAIN logs = 1..Len(logs) /\ \A i \in DOMAIN logs : logs[i] \in LogRecord
    BY DEF LogInv, LogShape
  <1>1. UNCHANGED <<active, clock, run>>
    BY DEF Late!WriteOn
  <1>2. writer' \in [Writers -> WriterRecord]
    <2>1. writer \in [Writers -> WriterRecord]
      BY DEF LogInv, LogShape
    <2>2. writer' = MovedTo(writer, w, "broken") \/ writer' = MovedTo(writer, w, next)
      BY DEF Late!WriteOn, MovedTo
    <2> QED BY <2>1, <2>2, WriterMoves
  <1>3. CASE active = 0
    <2>1. UNCHANGED logs
      BY <1>3 DEF Late!WriteOn, Late!NoLog
    <2> QED BY <1>1, <1>2, <2>1, QuietKeeps DEF LogInv, LogShape
  <1>4. CASE active # 0
    <2> DEFINE new == Late!Write(logs[active], field, writer[w].run)
    <2>0. active \in DOMAIN logs /\ writer[w].run \in Nat
      BY <1>0, <1>4 DEF LogInv, LogShape, WriterRecord
    <2>1. /\ new \in LogRecord
          /\ new.stamp = logs[active].stamp /\ new.suffix = logs[active].suffix /\ new.open = logs[active].open
          /\ ~logs[active].open => new = logs[active]
      <3> DEFINE log == logs[active]
      <3>1. log \in LogRecord
        BY <1>0, <2>0
      <3> HIDE DEF log
      <3> QED BY <2>0, <3>1, WriteLog DEF new, log
    <2>2. logs' = [logs EXCEPT ![active] = new]
      BY <1>4 DEF Late!WriteOn, Late!NoLog
    <2> HIDE DEF new
    <2>3. /\ logs' \in Seq(LogRecord) /\ Len(logs') = Len(logs) /\ DOMAIN logs' = DOMAIN logs
          /\ \A i \in DOMAIN logs : logs'[i] = IF i = active THEN new ELSE logs[i]
      BY <1>0, <2>0, <2>1, <2>2 DEF LogInv, LogShape
    <2>4. LogShape'
      BY <1>1, <1>2, <2>3 DEF LogInv, LogShape
    <2>5. \A i \in DOMAIN logs : /\ logs'[i].open = logs[i].open /\ logs'[i].stamp = logs[i].stamp
                                 /\ logs'[i].suffix = logs[i].suffix
                                 /\ ~logs[i].open => logs'[i] = logs[i]
      BY <2>1, <2>3
    <2>6. ActiveLog'
      BY <1>0, <1>1, <2>3, <2>5 DEF LogInv, LogShape, ActiveLog, Late!OneRunOpen, Late!NoLog
    <2>7. Late!LogsKept'
      BY <2>3, <2>5 DEF LogInv, Late!LogsKept
    <2> QED BY <2>4, <2>5, <2>6, <2>7 DEF LogInv, ClosedStays
  <1> QED BY <1>3, <1>4

LEMMA LogInvNext == LogInv /\ Late!Next => LogInv' /\ ClosedStays
  <1> SUFFICES ASSUME LogInv, Late!Next PROVE LogInv' /\ ClosedStays
    OBVIOUS
  <1>1. CASE Late!Tick
    <2>1. LogShape'
      BY <1>1 DEF Late!Tick, LogInv, LogShape
    <2> QED BY <1>1, <2>1, QuietKeeps DEF Late!Tick
  <1>2. CASE Late!Start \/ Late!CloseLog
    BY <1>2, StartKeeps, CloseKeeps
  <1>3. CASE Late!StartStages
    <2>1. MaxFrames \in Int /\ run.number \in Nat
      BY RunLogAssumption DEF LogInv, LogShape
    <2>2. [run |-> run.number, pc |-> "work", left |-> MaxFrames] \in WriterRecord
      BY <2>1 DEF WriterRecord
    <2>3. LogShape'
      BY <1>3, <2>2 DEF Late!StartStages, LogInv, LogShape
    <2>4. UNCHANGED logs
      BY <1>3 DEF Late!StartStages
    <2> QED BY <1>3, <2>3, <2>4, QuietKeeps
  <1>4. CASE Late!Forget
    <2>1. LogShape'
      BY <1>4 DEF Late!Forget, Late!NoLog, LogInv, LogShape
    <2>2. UNCHANGED logs
      BY <1>4 DEF Late!Forget
    <2> QED BY <1>4, <2>1, <2>2, QuietKeeps
  <1>5. ASSUME NEW w \in Writers, Late!TestActive(w) \/ Late!EndWriter(w)
        PROVE  LogInv' /\ ClosedStays
    <2>1. writer' \in [Writers -> WriterRecord]
      <3>1. writer \in [Writers -> WriterRecord]
        BY DEF LogInv, LogShape
      <3>2. \E to \in {"work", "row", "ended"} : writer' = MovedTo(writer, w, to) \/ writer' = TestedTo(writer, w, to)
        BY <1>5, Zenon DEF Late!TestActive, Late!EndWriter, MovedTo, TestedTo
      <3> QED BY <3>1, <3>2, WriterMoves
    <2>2. UNCHANGED <<active, logs, clock, run>>
      BY <1>5 DEF Late!TestActive, Late!EndWriter
    <2> QED BY <2>1, <2>2, QuietKeeps DEF LogInv, LogShape
  <1>6. ASSUME NEW w \in Writers, Late!WriteRow(w) \/ Late!WriteLine(w)
        PROVE  LogInv' /\ ClosedStays
    BY <1>6, WriteKeeps DEF Late!WriteRow, Late!WriteLine
  <1> QED BY <1>1, <1>2, <1>3, <1>4, <1>5, <1>6 DEF Late!Next
-------------------------------------------------------------------------------
(* Runs that wait for their threads.  A thread works for the run under way and *)
(* only while it runs, so it always finds the log of its own run; and a row    *)
(* without its line belongs to a thread that stands between the two.           *)
AtLine == {w \in Writers : writer[w].pc = "line"}

OwnThreads ==
    \A w \in Writers : writer[w].pc # "ended" =>
        run.pc = "running" /\ writer[w].run = run.number /\ writer[w].pc # "broken"

OwnEntries ==
    \A i \in DOMAIN logs : /\ \A j \in DOMAIN logs[i].rows : logs[i].rows[j] = i
                           /\ \A j \in DOMAIN logs[i].lines : logs[i].lines[j] = i

(* The rows of a log are its lines and one for each thread between the two.    *)
Level(log, between) == Len(log.rows) = Len(log.lines) + IF log.open THEN Cardinality(between) ELSE 0

Levelled == \A i \in DOMAIN logs : Level(logs[i], AtLine)

Calm == OwnThreads /\ OwnEntries /\ Levelled

LEMMA AtLineFinite == IsFiniteSet(AtLine) /\ Cardinality(AtLine) \in Nat
  <1>1. AtLine \in SUBSET Writers
    BY DEF AtLine
  <1> QED BY <1>1, RunLogAssumption, FS_Subset, FS_CardinalityType

LEMMA NobodyAtLine ==
  ASSUME Calm, run.pc # "running" \/ Late!Joined
  PROVE  AtLine = {} /\ Cardinality(AtLine) = 0
  <1>1. AtLine = {}
    BY DEF Calm, OwnThreads, AtLine, Late!Joined
  <1> QED BY <1>1, FS_EmptySet

LEMMA StartIsCalm == LogInv /\ Calm /\ Late!Start => Calm'
  <1> SUFFICES ASSUME LogInv, Calm, Late!Start PROVE Calm'
    OBVIOUS
  <1> DEFINE n == Len(logs)
  <1>0. n \in Nat /\ DOMAIN logs = 1..n
    BY DEF LogInv, LogShape
  <1>1. run.pc = "idle" /\ writer' = writer /\ AtLine' = AtLine /\ Cardinality(AtLine) = 0
    BY NobodyAtLine DEF Late!Start, AtLine
  <1>2. active = 0
    BY <1>1 DEF LogInv, ActiveLog, Late!NoLog
  <1>3. /\ Late!Finished \in Seq(LogRecord) /\ Len(Late!Finished) = n /\ \A i \in 1..n : Late!Finished[i] = logs[i]
        /\ logs' = Append(Late!Finished, Late!NewLog)
    BY <1>0, <1>2, FinishedLogs DEF LogInv, Late!Start
  <1>4. DOMAIN logs' = 1..(n + 1) /\ logs'[n + 1] = Late!NewLog /\ \A i \in 1..n : logs'[i] = logs[i]
    BY <1>0, <1>3
  <1>5. Late!NewLog.rows = <<>> /\ Late!NewLog.lines = <<>>
    BY DEF Late!NewLog
  <1>6. \A i \in 1..(n + 1) : i \in 1..n \/ i = n + 1
    BY <1>0
  <1>7. OwnThreads'
    BY <1>1 DEF Calm, OwnThreads
  <1>8. OwnEntries'
    BY <1>0, <1>4, <1>5, <1>6 DEF Calm, OwnEntries
  <1>9. Levelled'
    <2>1. \A i \in 1..n : Level(logs'[i], AtLine')
      BY <1>0, <1>1, <1>4 DEF Calm, Levelled
    <2>2. Level(logs'[n + 1], AtLine')
      BY <1>1, <1>4, <1>5 DEF Level
    <2> QED BY <1>4, <1>6, <2>1, <2>2 DEF Levelled
  <1> QED BY <1>7, <1>8, <1>9 DEF Calm

LEMMA CloseIsCalm == LogInv /\ Calm /\ Late!CloseLog /\ Late!Joined => Calm'
  <1> SUFFICES ASSUME LogInv, Calm, Late!CloseLog, Late!Joined PROVE Calm'
    OBVIOUS
  <1>1. writer' = writer /\ AtLine' = AtLine /\ Cardinality(AtLine) = 0
    BY NobodyAtLine DEF Late!CloseLog, AtLine
  <1>2. /\ DOMAIN logs' = DOMAIN logs
        /\ \A i \in DOMAIN logs : logs'[i].rows = logs[i].rows /\ logs'[i].lines = logs[i].lines
    BY FinishedLogs DEF LogInv, Late!CloseLog
  <1>3. OwnThreads'
    BY <1>1 DEF OwnThreads, Late!Joined
  <1>4. OwnEntries'
    BY <1>2 DEF Calm, OwnEntries
  <1>5. Levelled'
    BY <1>1, <1>2 DEF Calm, Levelled, Level
  <1> QED BY <1>3, <1>4, <1>5 DEF Calm

(* The steps that leave the files and the threads between row and line alone.  *)
LEMMA QuietIsCalm ==
  ASSUME Calm, UNCHANGED logs, AtLine' = AtLine, OwnThreads'
  PROVE  Calm'
  BY DEF Calm, OwnEntries, Levelled

(* A step of a thread that finds the log it looks for.                         *)
LEMMA ThreadIsCalm ==
  ASSUME LogInv, Calm, NEW w \in Writers, Late!TestActive(w) \/ Late!EndWriter(w)
  PROVE  Calm'
  <1>1. run.pc = "running" /\ writer[w].run = run.number /\ writer[w].pc = "work"
    BY DEF Calm, OwnThreads, Late!TestActive, Late!EndWriter
  <1>2. active # Late!NoLog
    BY <1>1 DEF LogInv, ActiveLog
  <1>3. UNCHANGED <<logs, run>>
    BY DEF Late!TestActive, Late!EndWriter
  <1>4. \E to \in {"row", "ended"} : writer' = MovedTo(writer, w, to) \/ writer' = TestedTo(writer, w, to)
    BY <1>2, Zenon DEF Late!TestActive, Late!EndWriter, MovedTo, TestedTo
  <1>5. PICK to \in {"row", "ended"} :
          /\ writer'[w].pc = to /\ writer'[w].run = writer[w].run
          /\ \A v \in Writers \ {w} : writer'[v] = writer[v]
    BY <1>4 DEF MovedTo, TestedTo, LogInv, LogShape, WriterRecord
  <1>6. AtLine' = AtLine
    BY <1>1, <1>5 DEF AtLine
  <1>7. OwnThreads'
    BY <1>1, <1>3, <1>5 DEF Calm, OwnThreads
  <1> QED BY <1>3, <1>6, <1>7, QuietIsCalm
(* The thread stands between row and line just when the row is there and the   *)
(* line is not.                                                                *)
LEMMA WriteIsCalm ==
  ASSUME LogInv, Calm, NEW w \in Writers, Late!WriteRow(w) \/ Late!WriteLine(w)
  PROVE  Calm'
  <1> DEFINE log == logs[active]
  <1>0. Len(logs) \in Nat /\ DOMAIN logs = 1..Len(logs) /\ \A i \in DOMAIN logs : logs[i] \in LogRecord
    BY DEF LogInv, LogShape
  <1>1. /\ run.pc = "running" /\ writer[w].run = run.number /\ run.number \in Nat
        /\ writer[w].pc \in {"row", "line"}
    BY DEF Calm, OwnThreads, Late!WriteRow, Late!WriteLine, Late!WriteOn, LogInv, LogShape
  <1>2. /\ active # Late!NoLog /\ active = run.number /\ active \in DOMAIN logs
        /\ log \in LogRecord /\ log.open
    BY <1>0, <1>1 DEF LogInv, LogShape, ActiveLog, Late!NoLog
  <1>3. PICK field \in {"rows", "lines"} :
          /\ field = "rows" <=> writer[w].pc = "row"
          /\ logs' = [logs EXCEPT ![active] = Late!Write(log, field, active)]
          /\ writer' = MovedTo(writer, w, IF field = "rows" THEN "line" ELSE "work")
    <2>1. CASE Late!WriteRow(w)
      <3>1. /\ writer[w].pc = "row" /\ writer' = MovedTo(writer, w, "line")
            /\ logs' = [logs EXCEPT ![active] = Late!Write(log, "rows", writer[w].run)]
        BY <1>2, <2>1 DEF Late!WriteRow, Late!WriteOn, MovedTo
      <3> QED BY <1>1, <1>2, <3>1
    <2>2. CASE Late!WriteLine(w)
      <3>1. /\ writer[w].pc = "line" /\ writer' = MovedTo(writer, w, "work")
            /\ logs' = [logs EXCEPT ![active] = Late!Write(log, "lines", writer[w].run)]
        BY <1>2, <2>2 DEF Late!WriteLine, Late!WriteOn, MovedTo
      <3> QED BY <1>1, <1>2, <3>1
    <2> QED BY <2>1, <2>2
  <1> DEFINE new == Late!Write(log, field, active)
  <1>4. /\ new \in LogRecord /\ new.open
        /\ new.rows = IF field = "rows" THEN Append(log.rows, active) ELSE log.rows
        /\ new.lines = IF field = "lines" THEN Append(log.lines, active) ELSE log.lines
    <2> HIDE DEF log
    <2>1. active \in Nat
      BY <1>1, <1>2
    <2> QED BY <1>2, <2>1, WriteLog DEF new
  <1> HIDE DEF new
  <1>5. /\ DOMAIN logs' = DOMAIN logs /\ logs'[active] = new
        /\ \A i \in DOMAIN logs \ {active} : logs'[i] = logs[i] /\ ~logs[i].open
    <2>1. \A i \in DOMAIN logs \ {active} : ~logs[i].open
      BY DEF LogInv, ActiveLog, Late!OneRunOpen
    <2> QED BY <1>0, <1>2, <1>3, <2>1 DEF new
  <1>6. /\ writer'[w].pc = IF field = "rows" THEN "line" ELSE "work"
        /\ writer'[w].run = writer[w].run /\ \A v \in Writers \ {w} : writer'[v] = writer[v]
    BY <1>3 DEF MovedTo, LogInv, LogShape, WriterRecord
  <1>7. OwnThreads'
    <2>1. run' = run
      BY DEF Late!WriteRow, Late!WriteLine, Late!WriteOn
    <2> QED BY <1>1, <1>6, <2>1 DEF Calm, OwnThreads
  <1>8. log.rows \in Seq(Nat) /\ log.lines \in Seq(Nat) /\ Len(log.rows) \in Nat /\ Len(log.lines) \in Nat
    BY <1>2 DEF LogRecord
  <1>9. OwnEntries'
    <2>1. \A j \in DOMAIN new.rows : new.rows[j] = active
      BY <1>2, <1>4, <1>8 DEF Calm, OwnEntries
    <2>2. \A j \in DOMAIN new.lines : new.lines[j] = active
      BY <1>2, <1>4, <1>8 DEF Calm, OwnEntries
    <2> QED BY <1>5, <2>1, <2>2 DEF Calm, OwnEntries
  <1>10. Levelled'
    <2>1. \A i \in DOMAIN logs \ {active} : Level(logs'[i], AtLine')
      BY <1>5 DEF Calm, Levelled, Level
    <2>2. Len(log.rows) = Len(log.lines) + Cardinality(AtLine)
      BY <1>2 DEF Calm, Levelled, Level
    <2>3. IsFiniteSet(AtLine) /\ Cardinality(AtLine) \in Nat
      BY AtLineFinite
    <2>4. ASSUME field = "rows" PROVE Level(new, AtLine')
      <3>1. AtLine' = AtLine \cup {w} /\ w \notin AtLine
        BY <1>3, <1>6, <2>4 DEF AtLine
      <3>2. Cardinality(AtLine') = Cardinality(AtLine) + 1
        BY <2>3, <3>1, FS_AddElement
      <3>3. Len(new.rows) = Len(log.rows) + 1 /\ Len(new.lines) = Len(log.lines)
        BY <1>4, <1>8, <2>4
      <3> HIDE DEF log
      <3>4. Len(new.rows) = Len(new.lines) + Cardinality(AtLine')
        BY <1>8, <2>2, <2>3, <3>2, <3>3
      <3> QED BY <1>4, <3>4 DEF Level
    <2>5. ASSUME field = "lines" PROVE Level(new, AtLine')
      <3>1. AtLine' = AtLine \ {w} /\ w \in AtLine
        BY <1>1, <1>3, <1>6, <2>5 DEF AtLine
      <3>2. Cardinality(AtLine') = Cardinality(AtLine) - 1
        BY <2>3, <3>1, FS_RemoveElement
      <3>3. Len(new.lines) = Len(log.lines) + 1 /\ new.rows = log.rows
        BY <1>4, <1>8, <2>5
      <3> QED BY <1>4, <1>8, <2>2, <2>3, <3>2, <3>3 DEF Level
    <2>6. Level(logs'[active], AtLine')
      BY <1>5, <2>4, <2>5
    <2> QED BY <1>5, <2>1, <2>6 DEF Levelled
  <1> QED BY <1>7, <1>9, <1>10 DEF Calm

LEMMA CalmNext ==
  ASSUME LogInv, Calm, Late!Next, run.pc = "running" /\ run'.pc # "running" => Late!Joined
  PROVE  Calm'
  <1>1. CASE Late!Start
    BY <1>1, StartIsCalm
  <1>2. CASE Late!CloseLog
    <2>1. Late!Joined
      BY <1>2 DEF Late!CloseLog, LogInv, LogShape
    <2> QED BY <1>2, <2>1, CloseIsCalm
  <1>3. CASE Late!StartStages
    <2>1. run.pc = "open" /\ run'.pc = "running" /\ run'.number = run.number /\ UNCHANGED logs
      BY <1>3 DEF Late!StartStages, LogInv, LogShape
    <2>2. AtLine = {} /\ \A w \in Writers : writer[w].pc = "ended"
      BY <2>1, NobodyAtLine DEF Calm, OwnThreads
    <2>3. \A w \in Writers : writer'[w] = [run |-> run.number, pc |-> "work", left |-> MaxFrames]
      BY <1>3, <2>2 DEF Late!StartStages
    <2>4. AtLine' = {} /\ OwnThreads'
      BY <2>1, <2>3 DEF AtLine, OwnThreads
    <2> QED BY <2>1, <2>2, <2>4, QuietIsCalm
  <1>4. CASE Late!Tick \/ Late!Forget
    <2>1. UNCHANGED <<logs, writer>> /\ (run' = run \/ run.pc = "closed")
      BY <1>4 DEF Late!Tick, Late!Forget
    <2>2. AtLine' = AtLine /\ OwnThreads'
      BY <2>1 DEF AtLine, Calm, OwnThreads
    <2> QED BY <2>1, <2>2, QuietIsCalm
  <1>5. CASE \E w \in Writers : Late!TestActive(w) \/ Late!EndWriter(w)
    BY <1>5, ThreadIsCalm
  <1>6. CASE \E w \in Writers : Late!WriteRow(w) \/ Late!WriteLine(w)
    BY <1>6, WriteIsCalm
  <1> QED BY <1>1, <1>2, <1>3, <1>4, <1>5, <1>6 DEF Late!Next
LEMMA LogInvInit == CommandsInit => LogInv /\ Calm
  <1> SUFFICES ASSUME CommandsInit PROVE LogInv /\ Calm
    OBVIOUS
  <1>1. /\ active = 0 /\ logs = <<>> /\ clock = 1 /\ run = [pc |-> "idle", number |-> 0]
        /\ writer = [w \in Writers |-> [run |-> 0, pc |-> "ended", left |-> 0]]
    BY DEF CommandsInit, Log!RunLogInit, Log!NoLog
  <1>2. logs \in Seq(LogRecord) /\ Len(logs) = 0 /\ DOMAIN logs = {}
    BY <1>1
  <1>3. LogShape
    BY <1>1, <1>2 DEF LogShape, WriterRecord
  <1>4. LogInv
    BY <1>1, <1>2, <1>3 DEF LogInv, ActiveLog, Late!OneRunOpen, Late!LogsKept, Late!NoLog
  <1>5. Calm
    BY <1>1, <1>2 DEF Calm, OwnThreads, OwnEntries, Levelled
  <1> QED BY <1>4, <1>5

(* Only the runs that wait are calm.                                           *)
RunsInv == LogInv /\ (part # "late" => Calm)

LEMMA RunsInvNext == RunsInv /\ [CommandsNext]_commandVars => RunsInv' /\ ClosedStays
  <1> SUFFICES ASSUME RunsInv, [CommandsNext]_commandVars PROVE RunsInv' /\ ClosedStays
    OBVIOUS
  <1>1. part' = part
    BY StepsOfLogs
  <1>2. CASE UNCHANGED logVars
    <2>1. UNCHANGED <<active, logs, clock, run, writer>>
      BY <1>2 DEF logVars
    <2>2. LogInv'
      BY <2>1 DEF RunsInv, LogInv, LogShape, ActiveLog, Late!OneRunOpen, Late!LogsKept
    <2>3. Calm => Calm'
      BY <2>1 DEF Calm, OwnThreads, OwnEntries, Levelled, AtLine
    <2> QED BY <1>1, <2>1, <2>2, <2>3 DEF RunsInv, ClosedStays
  <1>3. CASE part = "log" /\ Log!Next
    BY <1>1, <1>3, LogIsLate, LogInvNext, CalmNext DEF RunsInv
  <1>4. CASE part = "late" /\ Late!Next
    BY <1>1, <1>4, LogInvNext DEF RunsInv
  <1> QED BY <1>2, <1>3, <1>4, StepsOfLogs

(* For any runs, threads and frames: no two runs share a file, only one log is *)
(* open, and it is the active one, even when threads outlive their runs.  When *)
(* the runs wait for them, a log holds entries of its own run only and, once   *)
(* closed, a row for every line.                                               *)
THEOREM LogsBelongToRuns == CommandsSpec => []OneLogPerRun
  <1>1. CommandsInit => RunsInv
    BY LogInvInit DEF RunsInv
  <1>2. RunsInv => OneLogPerRun
    <2> SUFFICES ASSUME RunsInv PROVE OneLogPerRun
      OBVIOUS
    <2>1. Late!LogsKept /\ Late!OneRunOpen
      BY DEF RunsInv, LogInv, ActiveLog
    <2>2. Calm => Log!OwnLines
      BY DEF Calm, OwnEntries, Log!OwnLines
    <2>3. Calm => Log!RowsMatchLines
      <3> SUFFICES ASSUME Calm, NEW i \in DOMAIN logs, ~logs[i].open
                   PROVE  Len(logs[i].rows) = Len(logs[i].lines)
        BY DEF Log!RowsMatchLines
      <3>1. logs[i] \in LogRecord
        BY DEF RunsInv, LogInv, LogShape
      <3>2. Len(logs[i].rows) = Len(logs[i].lines) + 0 /\ Len(logs[i].lines) \in Nat
        BY <3>1 DEF Calm, Levelled, Level, LogRecord
      <3> QED BY <3>2
    <2> QED BY <2>1, <2>2, <2>3 DEF OneLogPerRun, RunsInv
  <1>3. RunsInv /\ [CommandsNext]_commandVars => RunsInv'
    BY RunsInvNext
  <1> QED BY <1>1, <1>2, <1>3, PTL DEF CommandsSpec

(* A closed log never changes, under threads that write late included.         *)
THEOREM ClosedForever == CommandsSpec => ClosedIsFinal
  <1>1. CommandsInit => RunsInv
    BY LogInvInit DEF RunsInv
  <1>2. RunsInv /\ [CommandsNext]_commandVars => RunsInv'
    BY RunsInvNext
  <1>3. RunsInv /\ [CommandsNext]_commandVars => [\A i \in DOMAIN logs : ~logs[i].open => logs'[i] = logs[i]]_logs
    BY RunsInvNext DEF ClosedStays
  <1> QED BY <1>1, <1>2, <1>3, PTL DEF CommandsSpec, ClosedIsFinal, Late!ClosedIsFinal
-------------------------------------------------------------------------------
(* The session without --advanced, instance of the lemmas of SessionProofs.    *)
LEMMA SameRefusals ==
  /\ Plain!BadArgument = PlainProofs!BadArgument /\ Plain!BadValue = PlainProofs!BadValue
  /\ Plain!Refused = PlainProofs!Refused /\ Plain!ReadAsOption = PlainProofs!ReadAsOption
  /\ PlainProofs!MAX_DATA_BYTES = Plain!MAX_DATA_BYTES
  <1>1. \A link : Plain!Transport(link) = PlainProofs!Transport(link)
    BY DEF Plain!Transport, PlainProofs!Transport
  <1>2. \A mode : Plain!ParserOptions(mode) = PlainProofs!ParserOptions(mode)
    BY DEF Plain!ParserOptions, PlainProofs!ParserOptions, Plain!common_options, PlainProofs!common_options,
           Plain!link_options, PlainProofs!link_options, Plain!output_options, PlainProofs!output_options
  <1>3. \A option : Plain!Has(option) = PlainProofs!Has(option)
    BY DEF Plain!Has, PlainProofs!Has
  <1>4. Plain!BadArgument = PlainProofs!BadArgument
    BY <1>2, <1>3 DEF Plain!BadArgument, PlainProofs!BadArgument
  <1>5. Plain!BadValue = PlainProofs!BadValue
    BY <1>1, <1>3 DEF Plain!BadValue, PlainProofs!BadValue, Plain!KEY_SIZES, PlainProofs!KEY_SIZES, Plain!IV_BYTES,
       PlainProofs!IV_BYTES, Plain!TAG_BYTES, PlainProofs!TAG_BYTES, Plain!MAX_DATA_BYTES, PlainProofs!MAX_DATA_BYTES
  <1>6. Plain!ReadAsOption = PlainProofs!ReadAsOption
    BY DEF Plain!ReadAsOption, PlainProofs!ReadAsOption
  <1>7. PlainProofs!MAX_DATA_BYTES = Plain!MAX_DATA_BYTES
    BY DEF Plain!MAX_DATA_BYTES, PlainProofs!MAX_DATA_BYTES
  <1> QED BY <1>4, <1>5, <1>6, <1>7 DEF Plain!Refused, PlainProofs!Refused

LEMMA PlainNext == [Plain!Next]_vars => [PlainProofs!Next]_vars
  <1>1. \A link : Plain!Transport(link) = PlainProofs!Transport(link)
    BY DEF Plain!Transport, PlainProofs!Transport
  <1>2. Plain!Modes = PlainProofs!Modes /\ \A mode : Plain!Sims(mode) = PlainProofs!Sims(mode)
    BY DEF Plain!Modes, PlainProofs!Modes, Plain!Sims, PlainProofs!Sims
  <1>3. Plain!CameraOptions = PlainProofs!CameraOptions
    BY DEF Plain!CameraOptions, PlainProofs!CameraOptions
  <1>4. \A mode : Plain!Options(mode) = PlainProofs!Options(mode)
    BY <1>3 DEF Plain!Options, PlainProofs!Options, Plain!RawOptions, PlainProofs!RawOptions, Plain!ImageOptions, PlainProofs!ImageOptions
  <1>5. \A sim : Plain!AsksPort(sim) = PlainProofs!AsksPort(sim) /\ Plain!MayPace(sim) = PlainProofs!MayPace(sim)
    BY <1>1 DEF Plain!AsksPort, PlainProofs!AsksPort, Plain!MayPace, PlainProofs!MayPace
  <1>6. \A sim : Plain!LinkOptions(sim) = PlainProofs!LinkOptions(sim) /\ Plain!PortsAfter(sim) = PlainProofs!PortsAfter(sim)
    BY <1>5 DEF Plain!LinkOptions, PlainProofs!LinkOptions, Plain!PortsAfter, PlainProofs!PortsAfter
  <1>7. Plain!NewPairs = PlainProofs!NewPairs /\ Plain!SecretOptions = PlainProofs!SecretOptions
    BY DEF Plain!NewPairs, PlainProofs!NewPairs, Plain!SecretOptions, PlainProofs!SecretOptions
  <1>8. \A mode, options : Plain!Typed(mode, options) = PlainProofs!Typed(mode, options)
    BY DEF Plain!Typed, PlainProofs!Typed, Plain!Given, PlainProofs!Given
  <1>9. Plain!AskRound => PlainProofs!AskRound
    <2> SUFFICES ASSUME Plain!AskRound PROVE PlainProofs!AskRound
      OBVIOUS
    <2>1. PICK mode \in Plain!Modes \ {"selftest"} : \E sim \in Plain!Sims(mode) :
            \E options \in Plain!Options(mode), link \in Plain!LinkOptions(sim), secrets \in Plain!SecretOptions :
            \E typed \in Plain!Typed(mode, options \cup secrets), pair \in Plain!NewPairs, port \in Plain!PortsAfter(sim) :
              /\ command' = [mode |-> mode, options |-> options \cup link \cup secrets, sim |-> sim, typed |-> typed, pair |-> pair]
              /\ session' = [session EXCEPT !.port = port]
      BY DEF Plain!AskRound
    <2>2. PICK sim \in Plain!Sims(mode) :
            \E options \in Plain!Options(mode), link \in Plain!LinkOptions(sim), secrets \in Plain!SecretOptions :
            \E typed \in Plain!Typed(mode, options \cup secrets), pair \in Plain!NewPairs, port \in Plain!PortsAfter(sim) :
              /\ command' = [mode |-> mode, options |-> options \cup link \cup secrets, sim |-> sim, typed |-> typed, pair |-> pair]
              /\ session' = [session EXCEPT !.port = port]
      BY <2>1
    <2>3. PICK options \in Plain!Options(mode), link \in Plain!LinkOptions(sim), secrets \in Plain!SecretOptions :
            \E typed \in Plain!Typed(mode, options \cup secrets), pair \in Plain!NewPairs, port \in Plain!PortsAfter(sim) :
              /\ command' = [mode |-> mode, options |-> options \cup link \cup secrets, sim |-> sim, typed |-> typed, pair |-> pair]
              /\ session' = [session EXCEPT !.port = port]
      BY <2>2
    <2>4. PICK typed \in Plain!Typed(mode, options \cup secrets), pair \in Plain!NewPairs, port \in Plain!PortsAfter(sim) :
            /\ command' = [mode |-> mode, options |-> options \cup link \cup secrets, sim |-> sim, typed |-> typed, pair |-> pair]
            /\ session' = [session EXCEPT !.port = port]
      BY <2>3
    <2>5. /\ mode \in PlainProofs!Modes \ {"selftest"} /\ sim \in PlainProofs!Sims(mode)
          /\ options \in PlainProofs!Options(mode) /\ link \in PlainProofs!LinkOptions(sim)
          /\ secrets \in PlainProofs!SecretOptions /\ pair \in PlainProofs!NewPairs /\ port \in PlainProofs!PortsAfter(sim)
          /\ typed \in PlainProofs!Typed(mode, options \cup secrets)
      BY <1>2, <1>4, <1>6, <1>7, <1>8
    <2>6. \E options_ \in PlainProofs!Options(mode), link_ \in PlainProofs!LinkOptions(sim), secrets_ \in PlainProofs!SecretOptions :
          \E typed_ \in PlainProofs!Typed(mode, options_ \cup secrets_), pair_ \in PlainProofs!NewPairs, port_ \in PlainProofs!PortsAfter(sim) :
            /\ command' = [mode |-> mode, options |-> options_ \cup link_ \cup secrets_, sim |-> sim, typed |-> typed_, pair |-> pair_]
            /\ session' = [session EXCEPT !.port = port_]
      BY <2>5, <2>4
    <2> QED BY <2>5, <2>6 DEF Plain!AskRound, PlainProofs!AskRound
  <1>10. Plain!AskSelftest => PlainProofs!AskSelftest
    BY <1>2, <1>6 DEF Plain!AskSelftest, PlainProofs!AskSelftest, Plain!Modes, Plain!NothingTyped, PlainProofs!NothingTyped
  <1>11. Plain!Begin => PlainProofs!Begin
    BY <1>1 DEF Plain!Begin, PlainProofs!Begin, Plain!LINK_ORDER, PlainProofs!LINK_ORDER
  <1>12. Plain!locked_by = PlainProofs!locked_by
    BY DEF Plain!locked_by, PlainProofs!locked_by, Plain!OPEN_OPTIONS, PlainProofs!OPEN_OPTIONS, Plain!LOCKED_COMMANDS, PlainProofs!LOCKED_COMMANDS
  <1>13. Plain!Locked = PlainProofs!Locked
    BY <1>12 DEF Plain!Locked, PlainProofs!Locked
  <1>14. Plain!Encrypts = PlainProofs!Encrypts
    BY <1>13, SameRefusals DEF Plain!Encrypts, PlainProofs!Encrypts, Plain!Has, PlainProofs!Has
  <1>15. Plain!Dispatch => PlainProofs!Dispatch
    BY <1>13, <1>14, SameRefusals DEF Plain!Dispatch, PlainProofs!Dispatch
  <1>16. Plain!Crash => PlainProofs!Crash
    BY <1>14 DEF Plain!Crash, PlainProofs!Crash, Plain!NoCommand, PlainProofs!NoCommand
  <1>17. Plain!MarkUsed => PlainProofs!MarkUsed
    BY DEF Plain!MarkUsed, PlainProofs!MarkUsed, Plain!UsedAfterRun, PlainProofs!UsedAfterRun
  <1>18. (Plain!Exit => PlainProofs!Exit) /\ (Plain!Again => PlainProofs!Again) /\ (Plain!Terminated => PlainProofs!Terminated)
    BY DEF Plain!Exit, PlainProofs!Exit, Plain!Again, PlainProofs!Again, Plain!Terminated, PlainProofs!Terminated,
           Plain!NoCommand, PlainProofs!NoCommand, Plain!vars, PlainProofs!vars
  <1> QED BY <1>9, <1>10, <1>11, <1>15, <1>16, <1>17, <1>18 DEF Plain!Next, PlainProofs!Next

(* The two sessions say the same of their states, but for the lock.            *)
LEMMA PlainInv ==
  /\ PlainProofs!SessionIInv = SessionIInv
  /\ PlainProofs!MenuCommandsRun = Plain!MenuCommandsRun
  <1>1. PlainProofs!SessionIInv = SessionIInv
    BY DEF PlainProofs!SessionIInv, SessionIInv, PlainProofs!Shape, Shape, PlainProofs!PairsUsedOnce, PairsUsedOnce,
           PlainProofs!Accounted, Accounted, PlainProofs!PairIsNew, PairIsNew
  <1>3. Plain!locked_by = PlainProofs!locked_by
    BY DEF Plain!locked_by, PlainProofs!locked_by, Plain!OPEN_OPTIONS, PlainProofs!OPEN_OPTIONS, Plain!LOCKED_COMMANDS, PlainProofs!LOCKED_COMMANDS
  <1>4. Plain!Locked = PlainProofs!Locked
    BY <1>3 DEF Plain!Locked, PlainProofs!Locked
  <1> QED BY <1>1, <1>4, SameRefusals DEF Plain!MenuCommandsRun, PlainProofs!MenuCommandsRun

LEMMA StepsOfSessions ==
  ASSUME [CommandsNext]_commandVars
  PROVE  part' = part /\ (IF part = "menu" THEN [Plain!Next]_vars ELSE [Next]_vars)
  <1>1. CASE UNCHANGED commandVars \/ Stopped
    BY <1>1 DEF commandVars, Stopped
  <1>2. CASE InRaw \/ InImage \/ InLog \/ InLate
    BY <1>2 DEF InRaw, InImage, InLog, InLate
  <1>3. CASE InMenu /\ Plain!Next
    BY <1>3 DEF InMenu
  <1>4. CASE InSession /\ Next
    BY <1>4 DEF InSession
  <1> QED BY <1>1, <1>2, <1>3, <1>4, Zenon DEF CommandsNext, Plain!Next, Next

SessionsInv == SessionIInv /\ IF part = "menu" THEN PlainProofs!MenuInv ELSE MenuInv

LEMMA SessionsInvInit == CommandsInit => SessionsInv
  <1> SUFFICES ASSUME CommandsInit PROVE SessionsInv
    OBVIOUS
  <1>1. SessionInit
    BY DEF CommandsInit
  <1>2. SessionIInv
    BY <1>1, SessionInvInit
  <1>3. MenuInv /\ PlainProofs!MenuInv
    BY <1>1 DEF SessionInit, MenuInv, MenuCommandsRun, PlainProofs!MenuInv, PlainProofs!MenuCommandsRun
  <1> QED BY <1>2, <1>3 DEF SessionsInv

LEMMA SessionsInvNext == SessionsInv /\ [CommandsNext]_commandVars => SessionsInv'
  <1> SUFFICES ASSUME SessionsInv, [CommandsNext]_commandVars PROVE SessionsInv'
    OBVIOUS
  <1>1. CASE part = "menu"
    <2>1. [PlainProofs!Next]_vars /\ part' = "menu"
      BY <1>1, StepsOfSessions, PlainNext
    <2>2. [PlainProofs!Next]_PlainProofs!vars
      BY <2>1 DEF vars, PlainProofs!vars
    <2>3. PlainProofs!SessionIInv /\ PlainProofs!MenuInv
      BY <1>1, PlainInv DEF SessionsInv
    <2>4. PlainProofs!SessionIInv' /\ PlainProofs!MenuInv'
      BY <2>2, <2>3, MenuAssumption, SessionAssumption, PlainProofs!SessionInvNext, PlainProofs!MenuInvNext
    <2>5. PlainProofs!SessionIInv' = SessionIInv'
      BY DEF PlainProofs!SessionIInv, SessionIInv, PlainProofs!Shape, Shape, PlainProofs!PairsUsedOnce, PairsUsedOnce,
             PlainProofs!Accounted, Accounted, PlainProofs!PairIsNew, PairIsNew
    <2> QED BY <2>1, <2>4, <2>5 DEF SessionsInv
  <1>2. CASE part # "menu"
    <2>1. [Next]_vars /\ part' # "menu"
      BY <1>2, StepsOfSessions
    <2> QED BY <1>2, <2>1, SessionAssumption, SessionInvNext, MenuInvNext DEF SessionsInv
  <1> QED BY <1>1, <1>2

(* In both sessions, in any number of rounds: no line the menu builds is       *)
(* locked, and none is refused, but for a side of 0 or out of parse_size's     *)
(* range, data too long for one message, and names read as options.            *)
THEOREM MenuAlwaysAccepted == CommandsSpec => []MenuAccepted
  <1>1. SessionsInv => MenuAccepted
    BY PlainInv DEF SessionsInv, MenuAccepted, MenuInv, PlainProofs!MenuInv
  <1> QED BY <1>1, SessionsInvInit, SessionsInvNext, PTL DEF CommandsSpec

(* Nor do two runs of either session encrypt under the same pair.              *)
THEOREM CommandPairsNeverRepeat == CommandsSpec => []PairsUsedOnce
  <1>1. SessionsInv => PairsUsedOnce
    BY DEF SessionsInv, SessionIInv
  <1> QED BY <1>1, SessionsInvInit, SessionsInvNext, PTL DEF CommandsSpec
-------------------------------------------------------------------------------
(* "raw", instance of the lemmas of FileProofs: what a file's stream is.       *)
LEMMA SameStreams ==
  /\ \A d, key, i, a, b : Raw!BuildTx(d, key, i, a, b) = Streams!BuildTx(d, key, i, a, b)
  /\ \A d, i, a, b : Raw!BuildRefused(d, i, a, b) = Streams!BuildRefused(d, i, a, b)
  /\ Raw!Aad = Streams!Raw!Aad /\ \A tag : Raw!RawPackets(tag) = Streams!Raw!RawPackets(tag)
  /\ Raw!FileArgs = Streams!Raw!FileArgs /\ Raw!MessageArgs = Streams!Raw!MessageArgs
  <1>1. \A d, key, i, a, b : Raw!BuildTx(d, key, i, a, b) = Streams!BuildTx(d, key, i, a, b)
    BY DEF Raw!BuildTx, Streams!BuildTx, Raw!FlattenSeq, Streams!FlattenSeq, Raw!ChunkCount, Streams!ChunkCount, Raw!AdvanceIv,
           Streams!AdvanceIv, Raw!AadPacket, Streams!AadPacket, Raw!ZeroPad, Streams!ZeroPad, Raw!Piece, Streams!Piece
  <1>2. \A d, i, a, b : Raw!BuildRefused(d, i, a, b) = Streams!BuildRefused(d, i, a, b)
    BY DEF Raw!BuildRefused, Streams!BuildRefused, Raw!MaxDataBytes, Streams!MaxDataBytes, Raw!IvOverflow, Streams!IvOverflow,
           Raw!ChunkCount, Streams!ChunkCount
  <1>3. Raw!Aad = Streams!Raw!Aad /\ \A tag : Raw!RawPackets(tag) = Streams!Raw!RawPackets(tag)
    BY DEF Raw!Aad, Streams!Raw!Aad, Raw!RawPackets, Streams!Raw!RawPackets, Raw!AadPacket, Streams!Raw!AadPacket, Raw!ZeroPad, Streams!Raw!ZeroPad
  <1>4. Raw!FileArgs = Streams!Raw!FileArgs /\ Raw!MessageArgs = Streams!Raw!MessageArgs
    BY DEF Raw!FileArgs, Streams!Raw!FileArgs, Raw!MessageArgs, Streams!Raw!MessageArgs, Raw!Chunks, Streams!Raw!Chunks,
           Raw!ChunkCount, Streams!Raw!ChunkCount
  <1> QED BY <1>1, <1>2, <1>3, <1>4

LEMMA SameCarried ==
  Streams!Raw!StreamCarriesData /\ Streams!Raw!IVsUnique => Raw!StreamCarriesData /\ Raw!IVsUnique
  <1>1. Raw!Messages = Streams!Raw!Messages
    BY DEF Raw!Messages, Streams!Raw!Messages, Raw!SplitTx, Streams!Raw!SplitTx, Raw!FoldLeft, Streams!Raw!FoldLeft,
           Raw!MapThenFoldSet, Streams!Raw!MapThenFoldSet, Raw!Max, Streams!Raw!Max, Raw!Starts, Streams!Raw!Starts
  <1>2. \A s : Raw!FlattenSeq(s) = Streams!Raw!FlattenSeq(s)
    BY DEF Raw!FlattenSeq, Streams!Raw!FlattenSeq
  <1>3. Streams!Raw!StreamCarriesData => Raw!StreamCarriesData
    BY <1>1, <1>2 DEF Raw!StreamCarriesData, Streams!Raw!StreamCarriesData, Raw!MaxDataBytes, Streams!Raw!MaxDataBytes
  <1>4. Streams!Raw!IVsUnique => Raw!IVsUnique
    BY <1>1 DEF Raw!IVsUnique, Streams!Raw!IVsUnique
  <1> QED BY <1>3, <1>4

(* The bytes of the files are sets, and the IVs count to 7 at most.            *)
LEMMA RawValues == Streams!RawAssumption
  <1>1. Streams!Sized
    BY DEF Streams!Sized
  <1>2. \E S : RawFiles \subseteq Seq(S)
    <2> DEFINE S == {{}} \union {Byte(n) : n \in 0..5}
    <2>1. {} \in S /\ Byte(1) \in S /\ Byte(2) \in S /\ Byte(3) \in S /\ \A n \in 0..2 : Byte(n) \in S
      OBVIOUS
    <2>2. [i \in 1..8 |-> Byte(i % 3)] \in Seq(S)
      <3>1. \A i \in 1..8 : Byte(i % 3) \in S
        BY <2>1
      <3> HIDE DEF S
      <3> QED BY <3>1
    <2> HIDE DEF S
    <2>3. <<>> \in Seq(S) /\ <<Byte(1)>> \in Seq(S) /\ <<Byte(1), {}>> \in Seq(S)
          /\ <<Byte(1), {}, Byte(2), Byte(1), Byte(3)>> \in Seq(S)
      BY <2>1
    <2>4. RawFiles \subseteq Seq(S)
      BY <2>2, <2>3 DEF RawFiles
    <2> QED BY <2>4
  <1>3. 8 \in Nat /\ \A i \in RawIVs : i[2] \in 0..8 - 1
    BY DEF RawIVs
  <1> QED BY <1>1, <1>2, <1>3 DEF Streams!RawAssumption

LEMMA StepsOfRaw ==
  ASSUME [CommandsNext]_commandVars
  PROVE  [Raw!Next]_rawVars
  <1>1. CASE UNCHANGED commandVars \/ Stopped
    BY <1>1 DEF commandVars, Stopped
  <1>2. CASE InMenu \/ InSession \/ InImage \/ InLog \/ InLate
    BY <1>2 DEF InMenu, InSession, InImage, InLog, InLate
  <1>3. CASE InRaw /\ Raw!Next
    BY <1>3
  <1> QED BY <1>1, <1>2, <1>3, Zenon DEF CommandsNext, Raw!Next

LEMMA RawKeepsStream == ASSUME Streams!RawInv, [Raw!Next]_rawVars PROVE Streams!RawInv'
  <1>1. ASSUME UNCHANGED <<phase, args, packets>> PROVE Streams!RawInv'
    BY <1>1 DEF Streams!RawInv, Streams!Raw!Aad, Streams!Raw!RawPackets
  <1>2. CASE UNCHANGED rawVars
    BY <1>1, <1>2 DEF rawVars
  <1>3. CASE Raw!Open
    BY <1>3 DEF Raw!Open, Raw!Fail, Streams!RawInv, Streams!Raw!Aad, Streams!Raw!RawPackets
  <1>4. CASE Raw!BuildFile
    BY <1>4, SameStreams DEF Raw!BuildFile, Raw!Fail, Streams!RawInv, Streams!Raw!Aad, Streams!Raw!RawPackets
  <1>5. CASE Raw!Encrypt \/ Raw!Decrypt \/ Raw!CheckFile
    BY <1>5 DEF Raw!Encrypt, Raw!Decrypt, Raw!CheckFile, Raw!Fail, Streams!RawInv, Streams!Raw!Aad, Streams!Raw!RawPackets
  <1>6. CASE Raw!SendMessage
    BY <1>6, SameStreams DEF Raw!SendMessage, Raw!Fail, Streams!RawInv, Streams!Raw!Aad, Streams!Raw!RawPackets
  <1> QED BY <1>2, <1>3, <1>4, <1>5, <1>6 DEF Raw!Next

(* raw_file: the stream it builds carries the whole file and only padding, in  *)
(* blocks the IP takes, and no two of its messages share an IV.                *)
THEOREM StreamsCarryData == CommandsSpec => []StreamCarriesData
  <1>1. CommandsInit => Streams!RawInv
    BY SameStreams DEF CommandsInit, Raw!Init, Streams!RawInv
  <1>2. Streams!RawInv /\ [CommandsNext]_commandVars => Streams!RawInv'
    BY StepsOfRaw, RawKeepsStream
  <1>3. Streams!RawInv => StreamCarriesData
    BY RawValues, Streams!RawMeans, SameCarried DEF StreamCarriesData
  <1> QED BY <1>1, <1>2, <1>3, PTL DEF CommandsSpec
-------------------------------------------------------------------------------
(* "image", the other instance: a state, and a step, of the runs is one of the *)
(* lemmas, definition by definition.                                           *)
LEMMA SameFolds ==
  /\ Image!NewEngine = Transfers!NewEngine
  /\ \A x : Image!SplitTx(x) = Transfers!SplitTx(x)
  /\ \A x : Image!SplitRx(x) = Transfers!SplitRx(x)
  /\ \A x, width : Image!Batches(x, width) = Transfers!Batches(x, width)
  /\ \A x : Image!Simulate(x) = Transfers!Simulate(x)
  /\ \A e, cmd, z : Image!Loaded(e, cmd, z) = Transfers!Loaded(e, cmd, z)
  /\ \A e, cmd : Image!Answer(e, cmd) = Transfers!Answer(e, cmd)
  /\ \A e, cmd : Image!NotReady(e, cmd) = Transfers!NotReady(e, cmd)
  <1> USE DEF Image!FoldLeft, Transfers!FoldLeft, Image!MapThenFoldSet, Transfers!MapThenFoldSet, Image!Max, Transfers!Max,
              Image!Starts, Transfers!Starts, Image!Loads, Transfers!Loads, Image!Acks, Transfers!Acks,
              Image!CMD_ACKS, Transfers!CMD_ACKS, Image!Last, Transfers!Last,
              Image!NotReady, Transfers!NotReady, Image!Cleared, Transfers!Cleared, Image!RunMessage, Transfers!RunMessage,
              Image!XorByte, Transfers!XorByte, Image!Loaded, Transfers!Loaded, Image!Answer, Transfers!Answer,
              Image!NewEngine, Transfers!NewEngine
  <1>1. \A x : Image!SplitTx(x) = Transfers!SplitTx(x)
    BY DEF Image!SplitTx, Transfers!SplitTx
  <1>2. \A x : Image!SplitRx(x) = Transfers!SplitRx(x)
    BY DEF Image!SplitRx, Transfers!SplitRx
  <1>3. \A x, width : Image!Batches(x, width) = Transfers!Batches(x, width)
    BY DEF Image!Batches, Transfers!Batches
  <1>4. \A x : Image!Simulate(x) = Transfers!Simulate(x)
    BY DEF Image!Simulate, Transfers!Simulate
  <1>5. \A e, cmd, z : Image!Loaded(e, cmd, z) = Transfers!Loaded(e, cmd, z)
    OBVIOUS
  <1>6. \A e, cmd : Image!Answer(e, cmd) = Transfers!Answer(e, cmd)
    OBVIOUS
  <1>7. Image!NewEngine = Transfers!NewEngine
    OBVIOUS
  <1>8. \A e, cmd : Image!NotReady(e, cmd) = Transfers!NotReady(e, cmd)
    OBVIOUS
  <1> QED BY ONLY <1>1, <1>2, <1>3, <1>4, <1>5, <1>6, <1>7, <1>8

LEMMA SamePackets ==
  /\ \A data, key, nonce, aad, blocks : Image!BuildTx(data, key, nonce, aad, blocks) = Transfers!BuildTx(data, key, nonce, aad, blocks)
  /\ \A data, nonce, aad, blocks : Image!BuildRefused(data, nonce, aad, blocks) = Transfers!BuildRefused(data, nonce, aad, blocks)
  /\ \A key, messages, replies : Image!BuildDecryptTx(key, messages, replies) = Transfers!BuildDecryptTx(key, messages, replies)
  /\ \A layout, chunks : Image!JoinChunks(layout, chunks) = Transfers!JoinChunks(layout, chunks)
  /\ \A tags, replies : Image!BadReplies(tags, replies) = Transfers!BadReplies(tags, replies)
  /\ \A x, chunk : Image!FlipRefused(x, chunk) = Transfers!FlipRefused(x, chunk)
  /\ \A x, chunk : Image!FlipCiphertext(x, chunk) = Transfers!FlipCiphertext(x, chunk)
  /\ \A nonce, count : /\ Image!IvOverflow(nonce, count) = Transfers!IvOverflow(nonce, count)
                       /\ Image!AdvanceIv(nonce, count) = Transfers!AdvanceIv(nonce, count)
  <1>1. \A data, key, nonce, aad, blocks : Image!BuildTx(data, key, nonce, aad, blocks) = Transfers!BuildTx(data, key, nonce, aad, blocks)
    BY DEF Image!BuildTx, Transfers!BuildTx, Image!FlattenSeq, Transfers!FlattenSeq, Image!ChunkCount, Transfers!ChunkCount,
           Image!AdvanceIv, Transfers!AdvanceIv, Image!AadPacket, Transfers!AadPacket, Image!ZeroPad, Transfers!ZeroPad,
           Image!Piece, Transfers!Piece
  <1>2. \A data, nonce, aad, blocks : Image!BuildRefused(data, nonce, aad, blocks) = Transfers!BuildRefused(data, nonce, aad, blocks)
    BY DEF Image!BuildRefused, Transfers!BuildRefused, Image!MaxDataBytes, Transfers!MaxDataBytes, Image!IvOverflow,
           Transfers!IvOverflow, Image!ChunkCount, Transfers!ChunkCount
  <1>3. \A key, messages, replies : Image!BuildDecryptTx(key, messages, replies) = Transfers!BuildDecryptTx(key, messages, replies)
    BY DEF Image!BuildDecryptTx, Transfers!BuildDecryptTx, Image!FlattenSeq, Transfers!FlattenSeq,
           Image!AadPacket, Transfers!AadPacket
  <1>4. \A layout, chunks : Image!JoinChunks(layout, chunks) = Transfers!JoinChunks(layout, chunks)
    BY DEF Image!JoinChunks, Transfers!JoinChunks, Image!FlattenSeq, Transfers!FlattenSeq
  <1>5. \A tags, replies : Image!BadReplies(tags, replies) = Transfers!BadReplies(tags, replies)
    BY DEF Image!BadReplies, Transfers!BadReplies
  <1>6. \A x, chunk : Image!FlipRefused(x, chunk) = Transfers!FlipRefused(x, chunk)
    BY DEF Image!FlipRefused, Transfers!FlipRefused
  <1>7. \A x, chunk : Image!FlipCiphertext(x, chunk) = Transfers!FlipCiphertext(x, chunk)
    BY DEF Image!FlipCiphertext, Transfers!FlipCiphertext, Image!XorByte, Transfers!XorByte, Image!FlippedBit, Transfers!FlippedBit
  <1>8. \A nonce, count : /\ Image!IvOverflow(nonce, count) = Transfers!IvOverflow(nonce, count)
                          /\ Image!AdvanceIv(nonce, count) = Transfers!AdvanceIv(nonce, count)
    BY DEF Image!IvOverflow, Transfers!IvOverflow, Image!AdvanceIv, Transfers!AdvanceIv
  <1> QED BY <1>1, <1>2, <1>3, <1>4, <1>5, <1>6, <1>7, <1>8

LEMMA SameState ==
  /\ Image!current = Transfers!current /\ Image!Pixels = Transfers!Pixels /\ Image!EncryptTx = Transfers!EncryptTx
  /\ Image!Messages = Transfers!Messages /\ Image!Layout = Transfers!Layout /\ Image!Tampered = Transfers!Tampered
  /\ Image!Accepted = Transfers!Accepted
  /\ \A replies : Image!Verified(replies) = Transfers!Verified(replies)
  <1>1. Image!current = Transfers!current
    BY DEF Image!current, Transfers!current
  <1>2. Image!Pixels = Transfers!Pixels
    BY <1>1 DEF Image!Pixels, Transfers!Pixels
  <1>3. Image!EncryptTx = Transfers!EncryptTx
    BY <1>2, SamePackets DEF Image!EncryptTx, Transfers!EncryptTx
  <1>4. Image!Messages = Transfers!Messages
    BY <1>3, SameFolds DEF Image!Messages, Transfers!Messages
  <1>5. Image!Layout = Transfers!Layout
    BY <1>2, <1>4 DEF Image!Layout, Transfers!Layout
  <1>6. Image!Tampered = Transfers!Tampered
    BY SamePackets DEF Image!Tampered, Transfers!Tampered
  <1>7. Image!Accepted = Transfers!Accepted
    <2>1. Image!Simulate(sent) = Transfers!Simulate(sent)
      BY SameFolds
    <2>2. \A x : Image!SplitRx(x) = Transfers!SplitRx(x)
      BY SameFolds
    <2>3. Image!Differences = Transfers!Differences
      BY <2>1, <2>2 DEF Image!Differences, Transfers!Differences
    <2> QED BY <2>2, <2>3 DEF Image!Accepted, Transfers!Accepted, Image!Compared, Transfers!Compared
  <1>8. \A replies : Image!Verified(replies) = Transfers!Verified(replies)
    <2>1. Image!Tags = Transfers!Tags
      BY DEF Image!Tags, Transfers!Tags
    <2>2. \A replies : Image!Restored(replies) = Transfers!Restored(replies)
      BY <1>5, SamePackets DEF Image!Restored, Transfers!Restored
    <2> QED BY <1>2, <2>1, <2>2, SamePackets DEF Image!Verified, Transfers!Verified
  <1> QED BY <1>1, <1>2, <1>3, <1>4, <1>5, <1>6, <1>7, <1>8

LEMMA SameHost ==
  /\ \A x : Image!StartExchange(x) => Transfers!StartExchange(x)
  /\ \A result_ : Image!NextImage(result_) => Transfers!NextImage(result_)
  <1>1. \A x : Image!Batches(x, window) = Transfers!Batches(x, window)
    BY SameFolds
  <1>2. \A x : Image!StartExchange(x) => Transfers!StartExchange(x)
    BY <1>1, SameFolds DEF Image!StartExchange, Transfers!StartExchange, Image!ClearFirst, Transfers!ClearFirst
  <1>3. \A result_ : Image!NextImage(result_) => Transfers!NextImage(result_)
    BY SameState DEF Image!NextImage, Transfers!NextImage
  <1> QED BY <1>2, <1>3

LEMMA HostSteps == Image!Host => Transfers!Host
  <1>1. Image!Fail => Transfers!Fail
    BY SameHost DEF Image!Fail, Transfers!Fail
  <1>2. Image!Load => Transfers!Load
    <2> SUFFICES ASSUME Image!Load PROVE Transfers!Load
      OBVIOUS
    <2>1. Image!BuildRefused(Image!Pixels, iv, <<>>, 1) = Transfers!BuildRefused(Transfers!Pixels, iv, <<>>, 1)
      BY SamePackets, SameState
    <2>2. Image!StartExchange(Image!EncryptTx) => Transfers!StartExchange(Transfers!EncryptTx)
      BY SameHost, SameState
    <2> QED BY <1>1, <2>1, <2>2 DEF Image!Load, Transfers!Load, Image!transferVars, Transfers!transferVars
  <1>3. Image!Encrypted => Transfers!Encrypted
    <2> SUFFICES ASSUME Image!Encrypted PROVE Transfers!Encrypted
      OBVIOUS
    <2>1. /\ Image!Accepted = Transfers!Accepted
          /\ Image!FlipRefused(responses, tamper) = Transfers!FlipRefused(responses, tamper)
      BY SamePackets, SameState
    <2>2. Image!SplitRx(Image!Tampered) = Transfers!SplitRx(Transfers!Tampered)
      BY SameFolds, SameState
    <2> DEFINE rs == Transfers!SplitRx(Transfers!Tampered).replies
    <2>3. Image!BuildDecryptTx(k, Image!Messages, rs) = Transfers!BuildDecryptTx(k, Transfers!Messages, rs)
      BY SamePackets, SameState
    <2>4. Image!StartExchange(Image!BuildDecryptTx(k, Image!Messages, rs))
            => Transfers!StartExchange(Transfers!BuildDecryptTx(k, Transfers!Messages, rs))
      BY <2>3, SameHost
    <2> QED BY <1>1, <2>1, <2>2, <2>4 DEF Image!Encrypted, Transfers!Encrypted
  <1>4. Image!Decrypted => Transfers!Decrypted
    <2> SUFFICES ASSUME Image!Decrypted PROVE Transfers!Decrypted
      OBVIOUS
    <2>1. Image!Accepted = Transfers!Accepted
      BY SameState
    <2>2. Image!Verified(Image!SplitRx(responses).replies) = Transfers!Verified(Transfers!SplitRx(responses).replies)
      BY SameFolds, SameState
    <2>3. /\ Image!IvOverflow(iv, Image!Layout.chunks) = Transfers!IvOverflow(iv, Transfers!Layout.chunks)
          /\ Image!AdvanceIv(iv, Image!Layout.chunks) = Transfers!AdvanceIv(iv, Transfers!Layout.chunks)
      BY SamePackets, SameState
    <2>4. Image!AdvanceOrFail => Transfers!AdvanceOrFail
      BY <2>3, SameHost DEF Image!AdvanceOrFail, Transfers!AdvanceOrFail
    <2> QED BY <1>1, <2>1, <2>2, <2>4 DEF Image!Decrypted, Transfers!Decrypted
  <1> QED BY <1>2, <1>3, <1>4 DEF Image!Host, Transfers!Host

LEMMA LinkSteps == Image!Link => Transfers!Link
  <1>1. Image!SendGroup => Transfers!SendGroup
    BY DEF Image!SendGroup, Transfers!SendGroup
  <1>2. \A cmd, first : Image!Expected(cmd, first) = Transfers!Expected(cmd, first)
    BY DEF Image!Expected, Transfers!Expected, Image!Loads, Transfers!Loads, Image!CMD_ACKS, Transfers!CMD_ACKS
  <1>3. Image!ReadReply => Transfers!ReadReply
    BY <1>2 DEF Image!ReadReply, Transfers!ReadReply
  <1>4. Image!Timeout => Transfers!Timeout
    BY DEF Image!Timeout, Transfers!Timeout
  <1>5. Image!BoardStep => Transfers!BoardStep
    BY SameFolds DEF Image!BoardStep, Transfers!BoardStep
  <1>6. Image!LinkFault => Transfers!LinkFault
    BY DEF Image!LinkFault, Transfers!LinkFault, Image!CutCommand, Transfers!CutCommand, Image!CorruptAnswer,
           Transfers!CorruptAnswer, Image!XorByte, Transfers!XorByte, Image!FlippedBit, Transfers!FlippedBit
  <1> QED BY <1>1, <1>3, <1>4, <1>5, <1>6, SameState DEF Image!Link, Transfers!Link, Image!LinkStep, Transfers!LinkStep

LEMMA ImageStepsAre == [Image!Next]_imageVars => [Transfers!Next]_Transfers!vars
  <1>1. imageVars' = imageVars => Transfers!vars' = Transfers!vars
    BY DEF imageVars, Transfers!vars, Transfers!transferVars, Transfers!imageVars
  <1>2. Image!Ended => Transfers!Ended
    BY DEF Image!Ended, Transfers!Ended, Image!vars, Transfers!vars, Image!transferVars, Transfers!transferVars,
           Image!imageVars, Transfers!imageVars
  <1> QED BY <1>1, <1>2, HostSteps, LinkSteps DEF Image!Next, Transfers!Next

LEMMA ImageInitIs == Image!Init => Transfers!Init
  BY SameFolds DEF Image!Init, Transfers!Init, Image!TransferInit, Transfers!TransferInit

(* The windows and the images of the runs.                                     *)
LEMMA ImageValues == Transfers!ImageAssumption
  <1>1. Transfers!Sized
    BY DEF Transfers!Sized
  <1>2. \E S : ImagePixels \in Seq(Seq(S))
    <2> DEFINE S == {Byte(1), Byte(2), Byte(3), Byte(4)}
    <2>1. Byte(1) \in S /\ Byte(2) \in S /\ Byte(3) \in S /\ Byte(4) \in S
      OBVIOUS
    <2> HIDE DEF S
    <2>2. <<Byte(1), Byte(2)>> \in Seq(S) /\ <<Byte(3)>> \in Seq(S) /\ <<Byte(4), Byte(1)>> \in Seq(S)
      BY <2>1
    <2>3. ImagePixels \in Seq(Seq(S))
      BY <2>2 DEF ImagePixels
    <2> QED BY <2>3
  <1>3. ImagePixels # <<>>
    BY DEF ImagePixels
  <1> QED BY <1>1, <1>2, <1>3, WindowAssumption DEF Transfers!ImageAssumption

LEMMA StepsOfImage ==
  ASSUME [CommandsNext]_commandVars
  PROVE  [Image!Next]_imageVars
  <1>1. CASE UNCHANGED commandVars \/ Stopped
    BY <1>1 DEF commandVars, Stopped
  <1>2. CASE InMenu \/ InSession \/ InRaw \/ InLog \/ InLate
    BY <1>2 DEF InMenu, InSession, InRaw, InLog, InLate
  <1>3. CASE InImage /\ Image!Next
    BY <1>3
  <1> QED BY <1>1, <1>2, <1>3, Zenon DEF CommandsNext, Image!Next, Image!Host

(* links.transfer and transfer_spi: for every window and number of faults,     *)
(* never more messages under way than the window was chosen for, until         *)
(* something goes wrong, and over SPI also after it.                           *)
THEOREM WindowKept == CommandsSpec => []InFlight
  <1>1. CommandsInit => Transfers!ImageInv
    BY ImageInitIs, ImageValues, Transfers!ImageStarts DEF CommandsInit
  <1>2. Transfers!ImageInv /\ [CommandsNext]_commandVars => Transfers!ImageInv'
    BY StepsOfImage, ImageStepsAre, ImageValues, Transfers!ImageSteps
  <1>3. Transfers!ImageInv => InFlight
    <2>1. Transfers!InFlight => InFlight
      BY DEF InFlight, Transfers!InFlight, Image!InFlight, Image!Starts, Transfers!Starts, Image!Cardinality, Transfers!Cardinality
    <2> QED BY <2>1, Transfers!ImageMeans
  <1> QED BY <1>1, <1>2, <1>3, PTL DEF CommandsSpec
===============================================================================
