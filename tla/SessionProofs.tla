----------------------------- MODULE SessionProofs ----------------------------
(* For any keys, prefixes and number of rounds, with and without --advanced:   *)
(* no two runs of a session encrypt under the same pair, and a line the menu   *)
(* builds is refused only for what the menu does not check.                    *)
EXTENDS Session, TLAPS

(* A pair that encrypted is used up, or belongs to the run that is under way.  *)
Accounted ==
    \A r \in issued : \/ r.pair \in session.used
                      \/ pc = "run" /\ r = [round |-> rounds, pair |-> command.pair]
                      \/ pc = "exit"

(* What the assignments to parts of the session rely on.                       *)
Shape == "used" \in DOMAIN session /\ \A r \in issued : r.pair # NoPair

(* The pair of the round under way was not used before.                        *)
PairIsNew ==
    pc \in {"command", "run"} => command.pair = NoPair \/ command.pair \notin session.used

SessionIInv == Shape /\ Accounted /\ PairIsNew /\ PairsUsedOnce

LEMMA SessionInvInit == SessionInit => SessionIInv
  BY DEF SessionInit, SessionIInv, Shape, Accounted, PairIsNew, PairsUsedOnce

(* The guard of Encrypts is the only way into `issued`, and it finds every     *)
(* other pair in `used`.                                                       *)
LEMMA IssuedIsNew ==
  ASSUME SessionIInv, pc = "command", Encrypts,
         issued' = issued \cup {[round |-> rounds, pair |-> command.pair]}
  PROVE  PairsUsedOnce'
  <1>1. \A r \in issued : r.pair \in session.used
    BY DEF SessionIInv, Accounted
  <1>2. command.pair \notin session.used
    BY DEF SessionIInv, PairIsNew, Encrypts
  <1>3. \A r \in issued : r.pair # command.pair
    BY <1>1, <1>2
  <1>4. \A r, s \in issued' : r.pair = s.pair => r = s
    BY <1>3 DEF SessionIInv, PairsUsedOnce
  <1> QED BY <1>4 DEF PairsUsedOnce

LEMMA SessionInvNext == SessionIInv /\ [Next]_vars => SessionIInv'
  <1> SUFFICES ASSUME SessionIInv, [Next]_vars PROVE SessionIInv'
    OBVIOUS
  <1>1. CASE Begin
    <2>1. session'.used = session.used
      BY <1>1 DEF Begin, SessionIInv, Shape
    <2> QED BY <1>1, <2>1 DEF Begin, SessionIInv, Shape, Accounted, PairIsNew, PairsUsedOnce
  <1>2. CASE AskSelftest
    <2>1. session'.used = session.used /\ pc' = "command" /\ command'.pair = NoPair
      BY <1>2 DEF AskSelftest, SessionIInv, Shape
    <2> QED BY <1>2, <2>1 DEF AskSelftest, SessionIInv, Shape, Accounted, PairIsNew, PairsUsedOnce
  <1>3. CASE AskRound
    <2>1. session'.used = session.used /\ pc' = "command" /\ command'.pair \in NewPairs
      BY <1>3 DEF AskRound, SessionIInv, Shape
    <2>2. command'.pair \notin session'.used
      BY <2>1 DEF NewPairs
    <2> QED BY <1>3, <2>1, <2>2 DEF AskRound, SessionIInv, Shape, Accounted, PairIsNew, PairsUsedOnce
  <1>4. CASE Exit
    BY <1>4 DEF Exit, SessionIInv, Shape, Accounted, PairIsNew, PairsUsedOnce
  <1>5. CASE Dispatch
    <2>0. pc = "command" /\ pc' = "run" /\ UNCHANGED <<session, command, rounds>>
      BY <1>5 DEF Dispatch
    <2>1. PairIsNew' /\ Shape'
      BY <1>5, <2>0 DEF Dispatch, Encrypts, SessionIInv, Shape, PairIsNew
    <2>2. CASE issued' = issued
      BY <2>0, <2>1, <2>2 DEF SessionIInv, Accounted, PairsUsedOnce
    <2>3. CASE Encrypts /\ issued' = issued \cup {[round |-> rounds, pair |-> command.pair]}
      <3>1. PairsUsedOnce'
        BY <2>0, <2>3, IssuedIsNew
      <3>2. Accounted'
        BY <2>0, <2>3 DEF SessionIInv, Accounted
      <3> QED BY <2>1, <3>1, <3>2 DEF SessionIInv
    <2> QED BY <1>5, <2>2, <2>3 DEF Dispatch
  <1>6. CASE Crash
    <2>0. pc' = "exit"
      BY <1>6 DEF Crash
    <2>1. Shape' /\ PairIsNew' /\ Accounted'
      BY <1>6, <2>0 DEF Crash, Encrypts, SessionIInv, Shape, PairIsNew, Accounted
    <2>2. CASE issued' = issued
      BY <2>1, <2>2 DEF SessionIInv, PairsUsedOnce
    <2>3. CASE Encrypts /\ pc = "command" /\ issued' = issued \cup {[round |-> rounds, pair |-> command.pair]}
      BY <2>1, <2>3, IssuedIsNew DEF SessionIInv
    <2> QED BY <1>6, <2>2, <2>3 DEF Crash
  <1>7. CASE MarkUsed
    <2>1. /\ pc = "run" /\ pc' = "again" /\ UNCHANGED <<command, rounds, issued>>
          /\ session'.used = UsedAfterRun
      BY <1>7 DEF MarkUsed, SessionIInv, Shape
    <2>2. session.used \subseteq session'.used
      BY <2>1 DEF UsedAfterRun
    <2>3. command.pair # NoPair => command.pair \in session'.used
      BY <2>1 DEF UsedAfterRun
    <2>4. Shape' /\ PairIsNew' /\ PairsUsedOnce'
      BY <1>7, <2>1 DEF MarkUsed, SessionIInv, Shape, PairIsNew, PairsUsedOnce
    <2>5. Accounted'
      BY <2>1, <2>2, <2>3 DEF SessionIInv, Shape, Accounted
    <2> QED BY <2>4, <2>5 DEF SessionIInv
  <1>8. CASE Again
    BY <1>8 DEF Again, SessionIInv, Shape, Accounted, PairIsNew, PairsUsedOnce
  <1>9. CASE UNCHANGED vars
    BY <1>9 DEF vars, SessionIInv, Shape, Accounted, PairIsNew, PairsUsedOnce
  <1>10. CASE Terminated
    BY <1>10 DEF Terminated, vars, SessionIInv, Shape, Accounted, PairIsNew, PairsUsedOnce
  <1> QED BY <1>1, <1>2, <1>3, <1>4, <1>5, <1>6, <1>7, <1>8, <1>9, <1>10 DEF Next

(* A key and the first 8 bytes of an IV encrypt in one run of a session only.  *)
THEOREM PairsNeverRepeat == Spec => []PairsUsedOnce
  <1>1. SessionIInv => PairsUsedOnce
    BY DEF SessionIInv
  <1> QED BY <1>1, SessionInvInit, SessionInvNext, PTL DEF Spec
-------------------------------------------------------------------------------
(* What the menu asks for is accepted.  The link does not change in a round,   *)
(* and without --advanced it is never changed at all.                          *)
MenuInv ==
    /\ "link" \in DOMAIN session
    /\ ~Advanced => session.link = "uart12m"
    /\ MenuCommandsRun

(* Every option the menu asks for is one of its command, and one that some     *)
(* check of the command line looks at comes with what the check wants beside.  *)
LEMMA OptionsFit ==
  ASSUME NEW mode \in Modes \ {"selftest"}, NEW options \in Options(mode)
  PROVE  /\ "--paced" \notin options /\ "--no-window" \notin options
         /\ options \subseteq ParserOptions(mode)
         /\ mode = "camera" => /\ "--realtime" \in options \/ "--loop" \in options => "--source" \in options
                               /\ "--source" \in options => "--realtime" \in options
         /\ mode = "raw" => ~("--data" \in options <=> "--file" \in options)
         /\ "--op" \in options => "--tag" \in options
         /\ ~Advanced => options \subseteq OPEN_OPTIONS /\ "--codec" \notin options
  <1>1. CASE mode = "camera"
    <2>1. options \in CameraOptions
      BY <1>1 DEF Options
    <2>2. PICK replay \in {{}, {"--source", "--realtime", "--loop"}},
               chosen \in SUBSET {"--size", "--quality", "--fpga-decrypt", "--fps", "--codec", "--tamper-every"} :
               /\ options = chosen \cup replay
               /\ ~Advanced => replay = {} /\ chosen \subseteq {"--size", "--quality", "--fpga-decrypt", "--fps"}
      <3>1. CASE Advanced
        BY <2>1, <3>1 DEF CameraOptions
      <3>2. CASE ~Advanced
        BY <2>1, <3>2 DEF CameraOptions
      <3> QED BY <3>1, <3>2
    <2>3. "--paced" \notin options /\ "--no-window" \notin options /\ "--op" \notin options
      BY <2>2
    <2>4. "--realtime" \in options \/ "--loop" \in options => "--source" \in options
      BY <2>2
    <2>5. "--source" \in options => "--realtime" \in options
      BY <2>2
    <2>6. ~Advanced => options \subseteq OPEN_OPTIONS /\ "--codec" \notin options
      BY <2>2 DEF OPEN_OPTIONS
    <2>7. options \subseteq {"--size", "--quality", "--fpga-decrypt", "--fps", "--codec", "--tamper-every",
                             "--source", "--realtime", "--loop"}
      BY <2>2
    <2>8. options \subseteq ParserOptions(mode)
      BY <1>1, <2>7 DEF ParserOptions
    <2> QED BY <1>1, <2>3, <2>4, <2>5, <2>6, <2>8
  <1>2. CASE mode = "image"
    BY <1>2 DEF Options, ImageOptions, OPEN_OPTIONS, ParserOptions
  <1>3. CASE mode = "raw"
    BY <1>3 DEF Options, RawOptions, OPEN_OPTIONS, ParserOptions
  <1> QED BY <1>1, <1>2, <1>3 DEF Modes

(* The options of the link; --paced is asked for on the ESP link only.         *)
LEMMA LinkOptionsFit ==
  ASSUME NEW sim, NEW link \in LinkOptions(sim)
  PROVE  /\ "--paced" \in link => Transport(session.link) = "esp" /\ sim \in {"", "emu"} /\ Advanced
         /\ link \subseteq {"--link", "--sim", "-p", "--paced"}
  <1>1. PICK paced \in IF MayPace(sim) THEN {{}, {"--paced"}} ELSE {{}} :
          link = {"--link"} \cup (IF sim # "" THEN {"--sim"} ELSE {}) \cup (IF AsksPort(sim) THEN {"-p"} ELSE {}) \cup paced
    BY DEF LinkOptions
  <1>2. paced \subseteq {"--paced"} /\ (paced # {} => MayPace(sim))
    BY <1>1
  <1>3. link \subseteq {"--link", "--sim", "-p"} \cup paced
    BY <1>1
  <1> QED BY <1>2, <1>3 DEF MayPace

(* What the menu's checks let through passes those of the command line, but    *)
(* for the size and for the data of a message.                                 *)
LEMMA TypedFits ==
  ASSUME NEW mode, NEW options, NEW typed \in Typed(mode, options), SessionAssumption
  PROVE  /\ typed.size # {} => "--size" \in options
         /\ \A side \in typed.size : side \in Nat
         /\ typed.key \in KEY_SIZES /\ typed.iv = IV_BYTES /\ typed.aad \in 0..MAX_DATA_BYTES
         /\ typed.data \in Nat /\ ("--data" \in options => typed.data # 0)
         /\ "--tag" \in options => typed.tag = TAG_BYTES
         /\ typed.name \in {"plain", "dash"}
  <1>1. typed.data \in Given("--data", options, Lengths \ {0}, 0)
    BY DEF Typed
  <1>2. typed.data \in Nat /\ ("--data" \in options => typed.data # 0)
    <2>1. Lengths \subseteq Nat
      BY DEF SessionAssumption
    <2>2. CASE "--data" \in options
      BY <1>1, <2>1, <2>2 DEF Given
    <2>3. CASE "--data" \notin options
      BY <1>1, <2>3 DEF Given
    <2> QED BY <2>2, <2>3
  <1> USE DEF Typed, Given
  <1>3. typed.size # {} => "--size" \in options
    OBVIOUS
  <1>4. \A side \in typed.size : side \in Nat
    <2>1. CASE "--size" \in options
      <3>1. PICK width \in Sides, height \in Sides : typed.size = {width, height}
        BY <2>1
      <3>2. width \in Nat /\ height \in Nat
        BY DEF SessionAssumption
      <3> QED BY <3>1, <3>2
    <2> QED BY <1>3, <2>1
  <1>5. typed.key \in KEY_SIZES /\ typed.iv = IV_BYTES
    BY DEF KEY_SIZES, IV_BYTES
  <1>6. typed.aad \in 0..MAX_DATA_BYTES
    BY DEF MAX_DATA_BYTES
  <1>7. "--tag" \in options => typed.tag = TAG_BYTES
    BY DEF TAG_BYTES
  <1>8. typed.name \in {"plain", "dash"}
    OBVIOUS
  <1> QED BY <1>2, <1>3, <1>4, <1>5, <1>6, <1>7, <1>8

LEMMA AskRoundAccepted == ASSUME SessionAssumption, MenuInv, AskRound PROVE MenuInv'
  <1>1. PICK mode \in Modes \ {"selftest"} : \E sim \in Sims(mode) :
          \E options \in Options(mode), link \in LinkOptions(sim), secrets \in SecretOptions :
          \E typed \in Typed(mode, options \cup secrets), pair \in NewPairs, port \in PortsAfter(sim) :
            /\ command' = [mode |-> mode, options |-> options \cup link \cup secrets, sim |-> sim, typed |-> typed, pair |-> pair]
            /\ session' = [session EXCEPT !.port = port]
    BY DEF AskRound
  <1>2. PICK sim \in Sims(mode) :
          \E options \in Options(mode), link \in LinkOptions(sim), secrets \in SecretOptions :
          \E typed \in Typed(mode, options \cup secrets), pair \in NewPairs, port \in PortsAfter(sim) :
            /\ command' = [mode |-> mode, options |-> options \cup link \cup secrets, sim |-> sim, typed |-> typed, pair |-> pair]
            /\ session' = [session EXCEPT !.port = port]
    BY <1>1
  <1>3. PICK options \in Options(mode), link \in LinkOptions(sim), secrets \in SecretOptions :
          \E typed \in Typed(mode, options \cup secrets), pair \in NewPairs, port \in PortsAfter(sim) :
            /\ command' = [mode |-> mode, options |-> options \cup link \cup secrets, sim |-> sim, typed |-> typed, pair |-> pair]
            /\ session' = [session EXCEPT !.port = port]
    BY <1>2
  <1>4. PICK typed \in Typed(mode, options \cup secrets), pair \in NewPairs, port \in PortsAfter(sim) :
          /\ command' = [mode |-> mode, options |-> options \cup link \cup secrets, sim |-> sim, typed |-> typed, pair |-> pair]
          /\ session' = [session EXCEPT !.port = port]
    BY <1>3
  <1>5. /\ command'.mode = mode /\ command'.sim = sim /\ command'.typed = typed
        /\ command'.options = options \cup link \cup secrets
    BY <1>4
  <1>6. "link" \in DOMAIN session' /\ session'.link = session.link
    BY <1>4 DEF MenuInv
  <1>7. secrets \in {{"--key", "--iv"}, {"--key", "--iv", "--aad"}}
    BY DEF SecretOptions
  <1>8. /\ sim \in {"", "model", "emu", "rtl"} /\ (mode = "camera" => sim # "rtl")
        /\ ~Advanced => sim \in {"", "model"}
        /\ mode \in {"camera", "image", "raw"}
    BY DEF Sims, Modes
  <1>9. /\ "--paced" \in command'.options => Transport(session.link) = "esp" /\ sim \in {"", "emu"}
        /\ \A option \in {"--realtime", "--loop", "--source", "--no-window", "--data", "--file", "--op", "--tag"} :
              option \in command'.options <=> option \in options
        /\ "--key" \in command'.options /\ "--iv" \in command'.options
    BY <1>5, <1>7, OptionsFit, LinkOptionsFit
  <1>10. command'.options \subseteq ParserOptions(mode)
    <2>1. {"--link", "--sim", "-p", "--paced", "--key", "--iv", "--aad"} \subseteq ParserOptions(mode)
      BY <1>8 DEF ParserOptions, common_options, link_options
    <2>2. link \cup secrets \subseteq ParserOptions(mode)
      BY <1>7, <2>1, LinkOptionsFit
    <2> QED BY <1>5, <2>2, OptionsFit
  <1>11. BadArgument' /\ typed.name # "dash" => \E side \in typed.size : side \notin 1..SideLimit - 1
    <2>1. ASSUME NEW side \in typed.size, ~(0 < side /\ side < SideLimit) PROVE side \notin 1..SideLimit - 1
      <3>1. side \in Nat /\ SideLimit \in Nat
        BY TypedFits DEF SessionAssumption
      <3> QED BY <2>1, <3>1
    <2>2. mode # "selftest" /\ sim \in {"", "model", "rtl", "emu"}
      BY <1>8
    <2>3. typed.name # "dash" /\ BadArgument' => \E side \in typed.size : ~(0 < side /\ side < SideLimit)
      BY <1>5, <1>9, <1>10, <2>2 DEF BadArgument, Has
    <2> QED BY <2>1, <2>3
  <1>12. BadValue' => typed.data > MAX_DATA_BYTES
    <2>0. /\ typed.data \in Nat /\ ("--data" \in options \cup secrets => typed.data # 0)
          /\ "--tag" \in options \cup secrets => typed.tag = TAG_BYTES
      BY TypedFits
    <2>1. "--data" \in command'.options => typed.data \in Nat \ {0}
      BY <1>9, <2>0
    <2>2. "--op" \in command'.options => "--tag" \in command'.options /\ typed.tag = TAG_BYTES
      BY <1>9, <2>0, OptionsFit
    <2>3. typed.key \in KEY_SIZES /\ typed.iv = IV_BYTES /\ ~(typed.aad > MAX_DATA_BYTES)
      BY TypedFits DEF MAX_DATA_BYTES
    <2>4. Transport(session'.link) = Transport(session.link)
      BY <1>6
    <2>5. mode = "raw" => ~("--data" \in command'.options <=> "--file" \in command'.options)
      BY <1>9, OptionsFit
    <2>6. mode = "camera" => /\ sim # "rtl" /\ "--no-window" \notin command'.options
                             /\ "--realtime" \in command'.options \/ "--loop" \in command'.options => "--source" \in command'.options
                             /\ "--source" \in command'.options => "--realtime" \in command'.options
      BY <1>8, <1>9, OptionsFit
    <2>7. "--data" \in command'.options /\ typed.data \notin 1..MAX_DATA_BYTES => typed.data > MAX_DATA_BYTES
      BY <2>1 DEF MAX_DATA_BYTES
    <2>8. "--paced" \in command'.options => Transport(session'.link) = "esp" /\ sim \notin {"model", "rtl"}
      BY <1>9, <2>4
    <2> QED BY Zenon, <1>5, <2>2, <2>3, <2>5, <2>6, <2>7, <2>8 DEF BadValue, Has
  <1>13. ~Locked'
    <2> SUFFICES ASSUME ~Advanced PROVE ~locked_by'
      BY DEF Locked
    <2>1. options \subseteq OPEN_OPTIONS /\ "--codec" \notin options
      BY OptionsFit
    <2>2. secrets \subseteq OPEN_OPTIONS /\ "--codec" \notin secrets
      BY <1>7, Zenon DEF OPEN_OPTIONS
    <2>3. "--paced" \notin link
      BY LinkOptionsFit
    <2>4. link \subseteq {"--link", "--sim", "-p"} /\ "--codec" \notin link
      BY <2>3, LinkOptionsFit
    <2>5. link \subseteq OPEN_OPTIONS
      BY <2>4, Zenon DEF OPEN_OPTIONS
    <2>6. command'.options \subseteq OPEN_OPTIONS /\ "--codec" \notin command'.options
      BY <1>5, <2>1, <2>2, <2>4, <2>5
    <2> QED BY <2>6, <1>5, <1>6, <1>8 DEF locked_by, LOCKED_COMMANDS, MenuInv
  <1> QED BY <1>5, <1>6, <1>11, <1>12, <1>13 DEF MenuInv, MenuCommandsRun, Refused, ReadAsOption

LEMMA AskSelftestAccepted == ASSUME MenuInv, AskSelftest PROVE MenuInv'
  <1>1. PICK sim \in Sims("selftest") : \E link \in LinkOptions(sim) : \E port \in PortsAfter(sim) :
          /\ command' = [mode |-> "selftest", options |-> {"--aes"} \cup link, sim |-> sim, typed |-> NothingTyped, pair |-> NoPair]
          /\ session' = [session EXCEPT !.port = port]
    BY DEF AskSelftest
  <1>2. PICK link \in LinkOptions(sim), port \in PortsAfter(sim) :
          /\ command' = [mode |-> "selftest", options |-> {"--aes"} \cup link, sim |-> sim, typed |-> NothingTyped, pair |-> NoPair]
          /\ session' = [session EXCEPT !.port = port]
    BY <1>1
  <1>3. Advanced
    BY DEF AskSelftest, Modes
  <1>4. "link" \in DOMAIN session' /\ session'.link = session.link
    BY <1>2 DEF MenuInv
  <1>5. /\ command'.mode = "selftest" /\ command'.sim = sim /\ command'.typed = NothingTyped
        /\ command'.options = {"--aes"} \cup link /\ sim \in {"", "model", "emu", "rtl"}
        /\ "--paced" \in command'.options => Transport(session.link) = "esp" /\ sim \in {"", "emu"}
    BY <1>2, LinkOptionsFit DEF Sims
  <1>6. command'.options \subseteq {"--aes", "--link", "--sim", "-p", "--paced"}
    BY <1>5, LinkOptionsFit
  <1>7. {"--aes", "--link", "--sim", "-p", "--paced"} \subseteq ParserOptions("selftest")
    BY DEF ParserOptions, link_options
  <1>8. ~BadArgument'
    <2>1. command'.options \subseteq ParserOptions("selftest")
      BY <1>6, <1>7
    <2>2. NothingTyped.size = {} /\ NothingTyped.name = "plain"
      BY DEF NothingTyped
    <2> QED BY <1>5, <2>1, <2>2 DEF BadArgument
  <1>9. ~BadValue'
    <2>1. Transport(session'.link) = Transport(session.link)
      BY <1>4
    <2>2. command'.mode # "camera" /\ command'.mode # "raw" /\ "--data" \notin command'.options /\ "--op" \notin command'.options
      BY <1>5, <1>6
    <2>3. "--paced" \in command'.options => Transport(session'.link) = "esp" /\ sim \notin {"model", "rtl"}
      BY <1>5, <2>1
    <2> QED BY Zenon, <1>5, <2>2, <2>3 DEF BadValue, Has
  <1> QED BY <1>3, <1>4, <1>8, <1>9 DEF MenuInv, MenuCommandsRun, Refused, Locked

LEMMA MenuInvNext == ASSUME SessionAssumption, MenuInv, [Next]_vars PROVE MenuInv'
  <1>1. CASE Begin
    BY <1>1 DEF Begin, MenuInv, MenuCommandsRun
  <1>2. CASE Exit \/ Dispatch \/ Crash \/ Again
    BY <1>2 DEF Exit, Dispatch, Crash, Again, MenuInv, MenuCommandsRun
  <1>3. CASE MarkUsed
    BY <1>3 DEF MarkUsed, MenuInv, MenuCommandsRun
  <1>4. CASE UNCHANGED vars
    BY <1>4 DEF vars, MenuInv, MenuCommandsRun, Locked, locked_by, Refused, BadArgument, BadValue, Has, ReadAsOption
  <1>5. CASE Terminated
    BY <1>4, <1>5 DEF Terminated
  <1> QED BY <1>1, <1>2, <1>3, <1>4, <1>5, AskRoundAccepted, AskSelftestAccepted DEF Next

(* With and without --advanced, in any number of rounds: no line the menu      *)
(* builds is locked, and none is refused, whatever the user answers, but for a *)
(* side of 0 or too long, data too long for one message, and a name that       *)
(* argparse reads as an option: what the menu's own questions do not check.    *)
THEOREM MenuLinesRun == Spec => []MenuCommandsRun
  <1>1. SessionInit => MenuInv
    BY DEF SessionInit, MenuInv, MenuCommandsRun
  <1>2. MenuInv => MenuCommandsRun
    BY DEF MenuInv
  <1>3. MenuInv /\ [Next]_vars => MenuInv'
    BY SessionAssumption, MenuInvNext
  <1> QED BY <1>1, <1>2, <1>3, PTL DEF Spec
===============================================================================
