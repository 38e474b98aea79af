------------------------------ MODULE Emulator ------------------------------
(***************************************************************************)
(* --sim emu (host/emulator.py): a process that answers with the software  *)
(* model on the schedule of a measured link. It computes when each answer  *)
(* of a burst is due, waits for the last one only, and hands the burst     *)
(* back through a pipe (_serve, RemoteClient). Times are integers and      *)
(* costs are times per byte.                                               *)
(***************************************************************************)
EXTENDS Integers, Sequences, SequencesExt, FiniteSets

CONSTANTS
    Bursts,         (* what the host sends: each a sequence of              *)
                    (* <<bytes of the command, bytes of each answer>>       *)
    WireCost,       (* 1 / Profile.rate                                     *)
    Wifi,           (* whether the link has the Wi-Fi hop                   *)
    UpCost, DownCost, SharedCost,   (* 1 / WIFI_UP, WIFI_DOWN, WIFI_TOTAL/2 *)
    Trips,          (* half round trips                                     *)
    LateBy, ReplyWait,
    MaxTime         (* bound on the clock                                   *)

VARIABLES
    now,
    upFree, downFree,   (* when the wire is free again, each way            *)
    radio,      (* Wifi._free                                               *)
    replies,    (* due times of the answers in the server                   *)
    server,     (* "idle", "answer", "wait"                                 *)
    late,
    host,       (* "send", "poll", "done", "failed"                         *)
    burst,      (* bursts sent                                              *)
    sentAt,
    toServer, toHost,   (* the two ways of the pipe                         *)
    lastDue     (* of the bursts served so far: a history                   *)

vars == <<now, upFree, downFree, radio, replies, server, late, host, burst, sentAt,
          toServer, toHost, lastDue>>

Later(a, b) == IF a >= b THEN a ELSE b

Init ==
    /\ now = 0 /\ upFree = 0 /\ downFree = 0 /\ radio = [up |-> 0, down |-> 0]
    /\ replies = <<>> /\ server = "idle" /\ late = 0
    /\ host = "send" /\ burst = 0 /\ sentAt = 0 /\ toServer = <<>> /\ toHost = <<>> /\ lastDue = 0

Cost(dir) == IF dir = "up" THEN UpCost ELSE DownCost
Other(dir) == IF dir = "up" THEN "down" ELSE "up"

(* Wifi.carry: the schedule s with this transfer added; s.at is its end.   *)
(* Without the hop it takes no time.                                       *)
Carry(s, ready, size, dir) ==
    LET cost == IF s.radio[Other(dir)] > ready THEN SharedCost ELSE Cost(dir)
        from == Later(ready, s.radio[dir])
        to == from + size * cost
    IN  IF ~Wifi THEN [s EXCEPT !.at = ready]
        ELSE [s EXCEPT !.at = to, !.radio[dir] = to]

AnswerOne(s, size, trip) ==
    LET wired == [s EXCEPT !.down = Later(s.up, s.down) + size * WireCost]
        there == Carry(wired, wired.down, size, "down")
    IN  [there EXCEPT !.due = Append(@, there.at + trip)]

(* EmulatedClient.send_stream, for one command and its answers.            *)
Command(s, command, trip, start) ==
    LET there == Carry(s, start + trip, command[1], "up")
        run == [there EXCEPT !.up = Later(there.at, there.up) + command[1] * WireCost]
    IN  FoldLeft(LAMBDA acc, size : AnswerOne(acc, size, trip), run, command[2])

Schedule(data, trip, start) ==
    FoldLeft(LAMBDA acc, command : Command(acc, command, trip, start),
             [at |-> 0, up |-> upFree, down |-> downFree, radio |-> radio, due |-> replies], data)

Receive ==
    /\ server = "idle" /\ toServer # <<>>
    /\ toServer' = Tail(toServer)
    /\ \E trip \in Trips :
          LET s == Schedule(Head(toServer), trip, now)
          IN  /\ upFree' = s.up /\ downFree' = s.down /\ radio' = s.radio
              /\ replies' = s.due
    /\ server' = "answer"
    /\ UNCHANGED <<now, late, host, burst, sentAt, toHost, lastDue>>

(* receive_packet hands all but the last answer over at once; it counts    *)
(* the burst as late if the last is already overdue, else waits for it.    *)
Answer ==
    /\ server = "answer"
    /\ late' = late + (IF now > Last(replies) + LateBy THEN 1 ELSE 0)
    /\ server' = "wait"
    /\ UNCHANGED <<now, upFree, downFree, radio, replies, host, burst, sentAt,
                   toServer, toHost, lastDue>>

DeliverFirst == (* Mutant: hands the burst over when its first answer is due *)
    /\ server = "wait" /\ now >= Head(replies)
    /\ toHost' = Append(toHost, Len(replies)) /\ replies' = <<>>
    /\ lastDue' = Last(replies) /\ server' = "idle"
    /\ UNCHANGED <<now, upFree, downFree, radio, late, host, burst, sentAt, toServer>>

Deliver ==
    /\ server = "wait" /\ now >= Last(replies)
    /\ toHost' = Append(toHost, Len(replies)) /\ replies' = <<>>
    /\ lastDue' = Last(replies)
    /\ server' = "idle"
    /\ UNCHANGED <<now, upFree, downFree, radio, late, host, burst, sentAt, toServer>>

(* The host (links.transfer): a window out, all its answers back.          *)
Send ==
    /\ host = "send"
    /\ IF burst = Len(Bursts)
       THEN host' = "done" /\ UNCHANGED <<burst, sentAt, toServer>>
       ELSE /\ toServer' = Append(toServer, Bursts[burst + 1])
            /\ burst' = burst + 1 /\ sentAt' = now /\ host' = "poll"
    /\ UNCHANGED <<now, upFree, downFree, radio, replies, server, late, toHost, lastDue>>

Poll ==
    /\ host = "poll"
    /\ \/ toHost # <<>> /\ toHost' = Tail(toHost) /\ host' = "send"
       \/ toHost = <<>> /\ now >= sentAt + ReplyWait /\ host' = "failed" /\ UNCHANGED toHost
    /\ UNCHANGED <<now, upFree, downFree, radio, replies, server, late, burst, sentAt,
                   toServer, lastDue>>

Tick ==
    /\ now < MaxTime /\ host \notin {"done", "failed"}
    /\ now' = now + 1
    /\ UNCHANGED <<upFree, downFree, radio, replies, server, late, host, burst, sentAt,
                   toServer, toHost, lastDue>>

Next == Receive \/ Answer \/ Deliver \/ Send \/ Poll \/ Tick
Spec == Init /\ [][Next]_vars
-----------------------------------------------------------------------------
EmulatorTypeOK ==
    /\ server \in {"idle", "answer", "wait"} /\ host \in {"send", "poll", "done", "failed"}
    /\ burst \in 0..Len(Bursts) /\ late \in 0..burst /\ Len(toHost) <= 1

(* The answers of a burst are due in the order they are read: that is why  *)
(* receive_packet waits for the last one only.                             *)
DuesOrdered == \A i, j \in DOMAIN replies : i < j => replies[i] <= replies[j]

(* The host never goes on before the link would have let it: its next      *)
(* burst leaves only once the last answer of the one before was due.       *)
NeverEarly == host \in {"send", "done"} => now >= lastDue

Sum(seq) == FoldLeft(LAMBDA a, b : a + b, 0, seq)
(* The emulated link never beats its own rate: the answers the host has    *)
(* took at least the time of their bytes on the wire, and of their bytes   *)
(* on the radio at its best.                                               *)
NoFasterThanLink ==
    host \in {"send", "done"} =>
        LET down == Sum([b \in 1..burst |-> Sum([c \in DOMAIN Bursts[b] |-> Sum(Bursts[b][c][2])])])
        IN  now >= down * Later(WireCost, IF Wifi THEN DownCost ELSE 0)
=============================================================================
