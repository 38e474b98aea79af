----------------------------- MODULE UartClient -----------------------------
(***************************************************************************)
(* host/uart_client.py on its own: every packet waits for its answer, an   *)
(* error ends the program, and the next one opens the port again and       *)
(* resynchronises the board (AesGcmUartClient.__init__). The program may   *)
(* be killed in the middle of a packet. The board is the packet parser,    *)
(* with its inactivity timeout, in front of gcm_model's engine.            *)
(***************************************************************************)
EXTENDS GcmModel

CONSTANTS
    Vectors,        (* the runs of execute: vectors_for, or the user's one  *)
    PayloadBytes,   (* bytes of a LOAD packet; more than 2 zeros            *)
    ParserTimeout,  (* ticks: 10 ms                                         *)
    SettleTime,     (* ticks: the 50 ms the client sleeps                   *)
    MaxFaults, MaxSessions

(* The client sleeps longer than the parser waits for the rest of a packet.*)
UartAssumption ==
    /\ PayloadBytes \in Nat \ {0} /\ ParserTimeout \in Nat \ {0} /\ SettleTime \in Nat
    /\ ParserTimeout <= SettleTime
    /\ Len(Vectors) \in Nat /\ \A n \in 1..Len(Vectors) : Vectors[n].decrypt \in BOOLEAN

VARIABLES
    engine,
    parser,     (* [at, cmd, left]: "idle", "length" due, or "payload"      *)
    quiet,      (* ticks since the parser's last byte                       *)
    flight,     (* answers on the way to the PC                             *)
    rx,         (* answers in the PC's input buffer                         *)
    pc,         (* what the client does; "dead" between programs            *)
    sleep,      (* ticks left of a sleep                                    *)
    job,        (* vectors done in this session                             *)
    step,       (* packet of the vector being sent                          *)
    got,        (* answers to its START so far                              *)
    results,    (* <<vector, output, tag>> that execute returned            *)
    synced,     (* this session's resync ran to its end                     *)
    sessions,
    before,     (* faults before this session: a history                    *)
    faults

boardVars == <<engine, parser, quiet>>
clientVars == <<pc, sleep, job, step, got, results, synced, sessions, before>>
vars == <<boardVars, flight, rx, clientVars, faults>>

IdleParser == [at |-> "idle", cmd |-> "none", left |-> 0]

Init ==
    /\ engine = NewEngine /\ parser = IdleParser /\ quiet = 0
    /\ flight = <<>> /\ rx = <<>> /\ faults = 0
    /\ pc = "dead" /\ sleep = 0 /\ job = 0 /\ step = 1 /\ got = <<>>
    /\ results = <<>> /\ synced = FALSE
    /\ sessions = 0 /\ before = 0

(*------------------------------- the board -------------------------------*)
(* A whole packet arrives while the parser is idle.                        *)
ExecutePacket(packet) ==
    /\ engine' = Loaded(engine, packet[1], packet[2])
    /\ flight' = flight \o Answer(engine, packet[1])

Garbage == <<{<<"garbage">>}>>
Length(cmd) == IF cmd \in Starts THEN 0 ELSE PayloadBytes

(* One byte 0x00, which is neither an opcode nor a length of a LOAD.       *)
ZeroByte ==
    /\ quiet' = 0
    /\ CASE parser.at = "idle" ->
              parser' = [at |-> "length", cmd |-> "none", left |-> 0] /\ UNCHANGED <<engine, flight>>
         [] parser.at = "length" ->
              /\ parser' = IdleParser
              /\ IF parser.cmd \in Starts THEN ExecutePacket(<<parser.cmd, <<>>>>)
                 ELSE /\ flight' = Append(flight, <<IF parser.cmd = "none" THEN "ERR_UNKNOWN"
                                                    ELSE "ERR_LEN", parser.cmd>>)
                      /\ UNCHANGED engine
         [] parser.at = "payload" /\ parser.left > 1 ->
              parser' = [parser EXCEPT !.left = @ - 1] /\ UNCHANGED <<engine, flight>>
         [] parser.at = "payload" /\ parser.left = 1 ->
              parser' = IdleParser /\ ExecutePacket(<<parser.cmd, Garbage>>)

(* Mutant: the parser waits for ever for the rest of a packet.             *)
TickWaiting ==
    /\ sleep > 0 /\ flight = <<>>
    /\ sleep' = sleep - 1
    /\ quiet' = (IF parser.at = "idle" THEN 0 ELSE quiet + 1)
    /\ UNCHANGED <<engine, parser, flight, rx, pc, job, step, got, results, synced, sessions, before, faults>>

(* Time passes while the client sleeps: a packet that stopped arriving is  *)
(* dropped after ParserTimeout.                                            *)
Tick ==
    /\ sleep > 0 /\ flight = <<>>
    /\ sleep' = sleep - 1
    /\ IF parser.at # "idle" /\ quiet + 1 >= ParserTimeout
       THEN parser' = IdleParser /\ quiet' = 0 /\ flight' = <<<<"ERR_TIMEOUT", parser.cmd>>>>
       ELSE quiet' = (IF parser.at = "idle" THEN 0 ELSE quiet + 1) /\ UNCHANGED <<parser, flight>>
    /\ UNCHANGED <<engine, rx, pc, job, step, got, results, synced, sessions, before, faults>>

Arrive ==
    /\ flight # <<>>
    /\ rx' = Append(rx, Head(flight)) /\ flight' = Tail(flight)
    /\ UNCHANGED <<boardVars, clientVars, faults>>

(*-------------------------------- opening --------------------------------*)
Open ==
    /\ pc = "dead" /\ sessions < MaxSessions
    /\ sessions' = sessions + 1 /\ pc' = "settle" /\ sleep' = SettleTime
    /\ job' = 0 /\ step' = 1 /\ got' = <<>> /\ results' = <<>> /\ synced' = FALSE /\ before' = faults
    /\ UNCHANGED <<boardVars, flight, rx, faults>>

(* The input buffer is emptied and resync_hardware starts; what fails in   *)
(* it is ignored, and the session goes on.                                 *)
Settled ==
    /\ pc = "settle" /\ sleep = 0 /\ flight = <<>>
    /\ rx' = <<>>
    /\ \/ pc' = "zero1" /\ UNCHANGED faults
       \/ pc' = "send" /\ faults < MaxFaults /\ faults' = faults + 1
    /\ UNCHANGED <<boardVars, flight, sleep, job, step, got, results, synced, sessions, before>>

WriteZero ==
    /\ pc \in {"zero1", "zero2"}
    /\ ZeroByte
    /\ IF pc = "zero1" THEN pc' = "zero2" /\ UNCHANGED sleep
       ELSE pc' = "resync" /\ sleep' = SettleTime
    /\ UNCHANGED <<rx, job, step, got, results, synced, sessions, before, faults>>

(* Mutant: what the board answered to the zeros is not thrown away.        *)
FlushedNot ==
    /\ pc = "resync" /\ sleep = 0 /\ flight = <<>>
    /\ pc' = "send" /\ synced' = TRUE
    /\ UNCHANGED <<boardVars, flight, rx, sleep, job, step, got, results, sessions, before, faults>>

Flushed ==
    /\ pc = "resync" /\ sleep = 0 /\ flight = <<>>
    /\ pc' = "send"
    /\ \/ rx' = <<>> /\ synced' = TRUE /\ UNCHANGED faults
       \/ faults < MaxFaults /\ faults' = faults + 1 /\ UNCHANGED <<rx, synced>>
    /\ UNCHANGED <<boardVars, flight, sleep, job, step, got, results, sessions, before>>

(*-------------------------------- execute --------------------------------*)
Vector == Vectors[job + 1]
(* Mutant: a decryption leaves out the AAD.                                *)
PacketsNoAad(v) ==
    <<<<"LOAD_KEY", v.key>>, <<"LOAD_IV", v.iv>>>>
    \o (IF v.aad = <<>> \/ v.decrypt THEN <<>> ELSE <<<<"LOAD_AAD", v.aad>>>>)
    \o <<<<"LOAD_PLAINTEXT", v.data>>>>
    \o (IF v.decrypt THEN <<<<"LOAD_TAG_REF", v.tag>>, <<"START_DECRYPT", <<>>>>>>
        ELSE <<<<"START_ENCRYPT", <<>>>>>>)

Packets(v) ==
    <<<<"LOAD_KEY", v.key>>, <<"LOAD_IV", v.iv>>>>
    \o (IF v.aad = <<>> THEN <<>> ELSE <<<<"LOAD_AAD", v.aad>>>>)
    \o <<<<"LOAD_PLAINTEXT", v.data>>>>
    \o (IF v.decrypt THEN <<<<"LOAD_TAG_REF", v.tag>>, <<"START_DECRYPT", <<>>>>>>
        ELSE <<<<"START_ENCRYPT", <<>>>>>>)
Packet == Packets(Vector)[step]

(* The load_... checks of a length: <<>> stands for a wrong one.           *)
WrongLength == Packet[1] \in Loads /\ Packet[2] = <<>>

Send ==
    /\ pc = "send" /\ job < Len(Vectors)
    /\ IF WrongLength
       THEN pc' = "dead" /\ UNCHANGED <<boardVars, flight>>
       ELSE /\ pc' = "receive" /\ UNCHANGED <<parser, quiet>>
            /\ parser.at = "idle" /\ ExecutePacket(Packet)
    /\ UNCHANGED <<rx, sleep, job, step, got, results, synced, sessions, before, faults>>

(* The program is killed after the first bytes of a packet.                *)
KillMidPacket ==
    /\ pc = "send" /\ job < Len(Vectors) /\ ~WrongLength /\ faults < MaxFaults
    /\ parser' \in {[at |-> "length", cmd |-> Packet[1], left |-> 0]}
            \union {[at |-> "payload", cmd |-> Packet[1], left |-> n] : n \in 1..Length(Packet[1])}
    /\ quiet' = 0 /\ pc' = "dead" /\ faults' = faults + 1
    /\ UNCHANGED <<engine, flight, rx, sleep, job, step, got, results, synced, sessions, before>>

(* An answer is lost on the way.                                           *)
LoseAnswer ==
    /\ flight # <<>> /\ faults < MaxFaults
    /\ flight' = Tail(flight) /\ faults' = faults + 1
    /\ UNCHANGED <<boardVars, rx, clientVars>>

(* What execute takes next after the answers it has to this packet.        *)
Takes(cmd, answers, kind) ==
    IF cmd \in Loads THEN kind = CMD_ACKS[cmd]
    ELSE IF answers = <<>> THEN kind = "CIPHERTEXT" \/ (cmd = "START_DECRYPT" /\ kind = "AUTH_TAG")
    ELSE kind = IF Last(answers)[1] = "CIPHERTEXT" THEN "AUTH_TAG" ELSE "VERIFY_RESULT"
Complete(cmd, kind) ==
    cmd \in Loads \/ kind = (IF cmd = "START_DECRYPT" THEN "VERIFY_RESULT" ELSE "AUTH_TAG")

Output(answers) == IF answers[1][1] = "CIPHERTEXT" THEN answers[1][2] ELSE <<>>
TagOf(answers) == (CHOOSE a \in Range(answers) : a[1] = "AUTH_TAG")[2]
Disagrees(answers) == Vector.decrypt /\ Last(answers)[2] # (TagOf(answers) = Vector.tag)

Receive ==
    /\ pc = "receive" /\ rx # <<>>
    /\ rx' = Tail(rx)
    /\ LET cmd == Packet[1]
           kind == Head(rx)[1]
           answers == Append(got, Head(rx))
       IN  IF \/ ~Takes(cmd, got, kind)
              \/ cmd \in Starts /\ Complete(cmd, kind) /\ Disagrees(answers)
           THEN pc' = "dead" /\ UNCHANGED <<got, step, job, results>>
           ELSE IF ~Complete(cmd, kind)
           THEN got' = answers /\ UNCHANGED <<pc, step, job, results>>
           ELSE /\ pc' = "send" /\ got' = <<>>
                /\ IF cmd \in Loads
                   THEN step' = step + 1 /\ UNCHANGED <<job, results>>
                   ELSE /\ step' = 1 /\ job' = job + 1
                        /\ results' = Append(results, <<Vector, Output(answers), TagOf(answers)>>)
    /\ UNCHANGED <<boardVars, flight, sleep, synced, sessions, before, faults>>

(* TimeoutError: the program ends, the port is closed (main's finally).    *)
Timeout ==
    /\ pc = "receive" /\ rx = <<>>
    /\ IF flight = <<>> THEN UNCHANGED faults ELSE faults < MaxFaults /\ faults' = faults + 1
    /\ pc' = "dead"
    /\ UNCHANGED <<boardVars, flight, rx, sleep, job, step, got, results, synced, sessions, before>>

(* All vectors done: the summary is printed and the port closed.           *)
Finish ==
    /\ pc = "send" /\ job = Len(Vectors)
    /\ pc' = "dead"
    /\ UNCHANGED <<boardVars, flight, rx, sleep, job, step, got, results, synced, sessions, before, faults>>

Session == Open \/ Settled \/ WriteZero \/ Flushed \/ Send \/ Receive \/ Timeout \/ Finish
Next == Session \/ Tick \/ Arrive \/ KillMidPacket \/ LoseAnswer

(* The program runs, time passes and what is in flight arrives.            *)
Fairness == WF_vars(Session) /\ WF_vars(Tick) /\ WF_vars(Arrive)
Spec == Init /\ [][Next]_vars
FairSpec == Spec /\ Fairness
-----------------------------------------------------------------------------
UartTypeOK ==
    /\ pc \in {"dead", "settle", "zero1", "zero2", "resync", "send", "receive"}
    /\ parser.left \in 0..PayloadBytes /\ quiet < ParserTimeout /\ sleep \in 0..SettleTime

(* resync_hardware, "Forces the FPGA packet parser FSM back into ST_IDLE": *)
(* wherever an earlier program was killed, the first packet of the next    *)
(* meets an idle parser, and no answer to anything older is left to read.  *)
ResyncIdle ==
    pc = "send" /\ step = 1 /\ job = 0 =>
        parser = IdleParser /\ flight = <<>> /\ (synced => rx = <<>>)

(* What execute returns is what the IP computes from this very vector,     *)
(* whatever an earlier program left in the engine, the parser or the link, *)
(* and whether or not the resync worked; a decryption never returns data   *)
(* under a wrong tag.                                                      *)
OwnData ==
    \A r \in Range(results) :
        LET v == r[1]
            run == RunMessage(v.key, v.iv, v.aad, v.data, v.decrypt)
        IN  /\ r[3] = run.tag
            /\ \/ r[2] = run.output /\ (v.decrypt => v.tag = run.tag)
               \/ r[2] = <<>> /\ v.decrypt

OwnResult == ResyncIdle /\ OwnData

(* After a resync that worked a session fails only by a fault of its own:  *)
(* none before it, in whatever state it left the board, is felt.           *)
FreshStart ==
    [][pc = "receive" /\ pc' = "dead" /\ synced => faults' > before]_vars

(* Every program ends, by its result or by a timeout.                      *)
SessionEnds == pc # "dead" ~> pc = "dead"
=============================================================================
