-------------------------------- MODULE Session --------------------------------
(* menu.py with cli.run_command: a session of rounds, each of which builds the *)
(* command line of one run and executes it.  A command is a record: the mode,  *)
(* the options its line names, what was typed for them, as far as a later      *)
(* check looks at it, and the pair <<key, first 8 bytes of the IV>> it was     *)
(* given, NoPair for a self-test.                                              *)
(* The last 4 bytes of an IV are the counter of the messages of a run, which   *)
(* Camera, ImageMode and RawMode follow; a run is here the pair it encrypts    *)
(* under.                                                                      *)
EXTENDS Integers, FiniteSets

CONSTANTS
    Keys, Prefixes,  \* cipher keys, and first 8 bytes of IVs
    Ports,           \* serial ports the user may type
    Sides, Lengths,  \* widths and heights, and numbers of bytes, that may be typed
    SideLimit,       \* of parse_size: 65536
    MaxRounds,
    Advanced,        \* --advanced was given
    NoPair, NoPort

ASSUME SessionAssumption ==
    /\ Advanced \in BOOLEAN /\ MaxRounds \in Nat
    /\ NoPair \notin Keys \X Prefixes /\ NoPort \notin Ports
    /\ Sides \subseteq Nat /\ Lengths \subseteq Nat /\ SideLimit \in Nat

VARIABLES
    session,  \* menu.Session: [link, port, used]
    pc,       \* begin, ask, command, run, again, exit
    command,
    code,     \* the exit code of the last run
    rounds,
    issued    \* history: the runs that encrypted, [round, pair]

vars == <<session, pc, command, code, rounds, issued>>

LINK_ORDER == {"uart12m", "uart2m", "spi40", "spi30"}

Transport(link) == CASE link \in {"uart12m", "uart2m"} -> "uart" [] link = "spi40" -> "esp" [] OTHER -> "ft232h"

NoCommand == [mode |-> "none"]

SessionInit ==
    /\ session = [link |-> "uart12m", port |-> NoPort, used |-> {}]
    /\ pc = "begin" /\ command = NoCommand /\ code = 0 /\ rounds = 0 /\ issued = {}

(* run_menu: --advanced picks the link; the kit is looked for on a UART.       *)
Begin ==
    /\ pc = "begin"
    /\ \E link \in IF Advanced THEN LINK_ORDER ELSE {session.link} :
       \E port \in IF Transport(link) = "uart" THEN Ports \cup {NoPort} ELSE {NoPort} :
         session' = [session EXCEPT !.link = link, !.port = port]
    /\ pc' = "ask"
    /\ UNCHANGED <<command, code, rounds, issued>>

-------------------------------------------------------------------------------
(* ask_mode, menu_items.                                                       *)
Modes == {"camera", "image", "raw"} \cup (IF Advanced THEN {"selftest"} ELSE {})

(* ask_sim: the camera needs real time.                                        *)
Sims(mode) == IF ~Advanced THEN {"", "model"}
              ELSE IF mode = "camera" THEN {"", "model", "emu"} ELSE {"", "model", "emu", "rtl"}

(* camera_arguments.  fps limits the camera, or the replay of a video, which   *)
(* the menu always plays in real time and in a loop.                           *)
CameraOptions ==
    LET replays == IF Advanced THEN {{}, {"--source", "--realtime", "--loop"}} ELSE {{}}
        more == IF Advanced THEN {"--codec", "--tamper-every"} ELSE {}
    IN {options \cup replay : options \in SUBSET ({"--size", "--quality", "--fpga-decrypt", "--fps"} \cup more), replay \in replays}

ImageOptions == SUBSET {"--size"}

(* raw_arguments: a tag makes it a decryption.                                 *)
RawOptions == {{"--file"}, {"--data"}, {"--data", "--op", "--tag"}}

Options(mode) == CASE mode = "camera" -> CameraOptions [] mode = "image" -> ImageOptions [] OTHER -> RawOptions

(* link_arguments: which may ask for the port, once a session.                 *)
AsksPort(sim) == Transport(session.link) = "uart" /\ sim = ""

MayPace(sim) == Advanced /\ Transport(session.link) = "esp" /\ sim \in {"", "emu"}

LinkOptions(sim) == {{"--link"} \cup (IF sim # "" THEN {"--sim"} ELSE {}) \cup (IF AsksPort(sim) THEN {"-p"} ELSE {}) \cup paced :
                     paced \in IF MayPace(sim) THEN {{}, {"--paced"}} ELSE {{}}}

(* secret_arguments: asks until the pair is a new one in this session.         *)
NewPairs == (Keys \X Prefixes) \ session.used

SecretOptions == {{"--key", "--iv"}, {"--key", "--iv", "--aad"}}

(* What may be typed behind the options: what size_check and hex_check take    *)
(* (menu.py:45, 193-209), data of any length, and for a name any text; an      *)
(* answer that begins with a dash may be an option to argparse.                *)
Given(option, options, answers, otherwise) == IF option \in options THEN answers ELSE {otherwise}

Typed(mode, options) ==
    [size : Given("--size", options, {{width, height} : width, height \in Sides}, {}),
     key : Lengths \cap {16, 32}, iv : Lengths \cap {12}, aad : Given("--aad", options, Lengths \cap 1..240, 0),
     data : Given("--data", options, Lengths \ {0}, 0), tag : Given("--tag", options, Lengths \cap {16}, 0),
     name : IF mode = "image" \/ "--file" \in options \/ "--source" \in options THEN {"plain", "dash"} ELSE {"plain"}]

NothingTyped == [size |-> {}, key |-> 0, iv |-> 0, aad |-> 0, data |-> 0, tag |-> 0, name |-> "plain"]

PortsAfter(sim) == IF AsksPort(sim) /\ session.port = NoPort THEN Ports ELSE {session.port}

AskSelftest ==
    /\ pc = "ask" /\ rounds < MaxRounds /\ "selftest" \in Modes
    /\ \E sim \in Sims("selftest") : \E link \in LinkOptions(sim) : \E port \in PortsAfter(sim) :
         /\ command' = [mode |-> "selftest", options |-> {"--aes"} \cup link, sim |-> sim, typed |-> NothingTyped, pair |-> NoPair]
         /\ session' = [session EXCEPT !.port = port]
    /\ pc' = "command" /\ rounds' = rounds + 1
    /\ UNCHANGED <<code, issued>>

AskRound ==
    /\ pc = "ask" /\ rounds < MaxRounds
    /\ \E mode \in Modes \ {"selftest"} : \E sim \in Sims(mode) :
       \E options \in Options(mode), link \in LinkOptions(sim), secrets \in SecretOptions :
       \E typed \in Typed(mode, options \cup secrets), pair \in NewPairs, port \in PortsAfter(sim) :
         /\ command' = [mode |-> mode, options |-> options \cup link \cup secrets, sim |-> sim, typed |-> typed, pair |-> pair]
         /\ session' = [session EXCEPT !.port = port]
    /\ pc' = "command" /\ rounds' = rounds + 1
    /\ UNCHANGED <<code, issued>>

(* 0 in the menu; end of input or Ctrl+C at any question; or a digit such as   *)
(* a superscript that isdigit takes for a number and int does not.             *)
Exit ==
    /\ pc \in {"ask", "again"}
    /\ pc' = "exit" /\ command' = NoCommand
    /\ UNCHANGED <<session, code, rounds, issued>>

-------------------------------------------------------------------------------
(* cli.run_command.                                                            *)
(* Mutant: an option the menu asks for is forgotten.                           *)
OpenOptionsNoFps == {"--link", "--sim", "--key", "--iv", "--aad", "-p", "--port", "--size", "--quality", "--fpga-decrypt", "--data", "--file", "--op", "--tag"}

OPEN_OPTIONS == {"--link", "--sim", "--key", "--iv", "--aad", "-p", "--port", "--size", "--quality", "--fpga-decrypt", "--fps", "--data", "--file", "--op", "--tag"}

LOCKED_COMMANDS == {"selftest", "wifi-test", "sample"}

locked_by ==
    \/ command.mode \in LOCKED_COMMANDS
    \/ ~(command.options \subseteq OPEN_OPTIONS)
    \/ session.link # "uart12m"
    \/ command.sim \notin {"", "model"}
    \/ command.mode = "camera" /\ "--codec" \in command.options

(* build_parser: the options of each command.                                  *)
link_options == {"--link", "--sim", "--window", "--paced", "-p", "--port", "-t", "--timeout", "--esp-host", "--ftdi-url"}
common_options == link_options \cup {"--key", "--iv", "--aad"}
output_options == {"--chunk-blocks", "--tamper-chunk", "--show-chunks", "--output-dir"}

ParserOptions(mode) ==
    CASE mode = "raw" -> common_options \cup output_options \cup {"--data", "--file", "--op", "--tag"}
      [] mode = "image" -> common_options \cup output_options \cup {"--size", "--fit", "--gray"}
      [] mode = "camera" -> common_options \cup {"--size", "--quality", "--codec", "--fpga-decrypt", "--source", "--camera-index",
                                "--frames", "--no-window", "--realtime", "--loop", "--tamper-every", "--fps"}
      [] OTHER -> link_options \cup {"--aes"}

KEY_SIZES == {16, 32}
IV_BYTES == 12
TAG_BYTES == 16
MAX_DATA_BYTES == 240

Has(option) == option \in command.options

(* What argparse refuses: an option the command does not have or one that is   *)
(* missing, a size out of range (parse_size), an option in place of a value.   *)
BadArgument ==
    \/ ~(command.options \subseteq ParserOptions(command.mode))
    \/ command.mode # "selftest" /\ ~(Has("--key") /\ Has("--iv"))
    \/ command.sim \notin {"", "model", "rtl", "emu"}
    \/ \E side \in command.typed.size : ~(0 < side /\ side < SideLimit)
    \/ command.typed.name = "dash" /\ (Has("--file") \/ Has("--source"))

(* The ValueErrors about the line itself, of camera_mode, raw_mode,            *)
(* raw_message, read_secrets and open_channel.  --fps is given for a positive  *)
(* number only (menu.py:176), so that cli.py:335 has nothing to refuse.        *)
BadValue ==
    \/ /\ command.mode = "camera"
       /\ \/ command.sim = "rtl"
          \/ (Has("--realtime") \/ Has("--loop")) /\ ~Has("--source")
          \/ Has("--loop") /\ Has("--no-window") /\ ~Has("--frames")
          \/ Has("--fps") /\ Has("--source") /\ ~Has("--realtime")
    \/ command.mode = "raw" /\ (Has("--data") <=> Has("--file"))
    \/ Has("--data") /\ command.typed.data \notin 1..MAX_DATA_BYTES
    \/ Has("--op") /\ ~(Has("--tag") /\ command.typed.tag = TAG_BYTES)
    \/ /\ command.mode # "selftest"
       /\ command.typed.key \notin KEY_SIZES \/ command.typed.iv # IV_BYTES \/ command.typed.aad > MAX_DATA_BYTES
    \/ Has("--paced") /\ (Transport(session.link) # "esp" \/ command.sim \in {"model", "rtl"})

Refused == BadArgument \/ BadValue

(* An image whose name begins with a dash: the name of an option, which may be *)
(* one that is refused, --help, or one that is taken.                          *)
ReadAsOption == command.typed.name = "dash"

Locked == ~Advanced /\ locked_by

Encrypts == command.pair # NoPair /\ ~Has("--op") /\ ~Locked /\ ~Refused

(* The run: it is refused, encrypts under its pair, or fails before.  The code *)
(* is 2 from argparse and the lock, 1 for an error that the command line       *)
(* handles and for Ctrl+C.                                                     *)
Dispatch ==
    /\ pc = "command"
    /\ \/ /\ Locked \/ Refused \/ ReadAsOption
          /\ code' \in (IF Locked \/ BadArgument THEN {2} ELSE IF BadValue THEN {1} ELSE {0, 2})
          /\ UNCHANGED issued
       \/ /\ Encrypts
          /\ issued' = issued \cup {[round |-> rounds, pair |-> command.pair]}
          /\ code' \in {0, 1}
       \/ /\ ~Locked /\ ~Refused
          /\ code' \in (IF Encrypts THEN {1} ELSE {0, 1})
          /\ UNCHANGED issued
    /\ pc' = "run"
    /\ UNCHANGED <<session, command, rounds>>

(* An error of another kind leaves run_menu, and the session with it.          *)
Crash ==
    /\ pc \in {"command", "run"}
    /\ \/ /\ Encrypts /\ pc = "command"
          /\ issued' = issued \cup {[round |-> rounds, pair |-> command.pair]}
       \/ UNCHANGED issued
    /\ pc' = "exit" /\ command' = NoCommand
    /\ UNCHANGED <<session, code, rounds>>

(* Mutant: only a run that succeeded uses up its pair.                         *)
UsedIfSucceeded == IF command.pair # NoPair /\ code = 0 THEN session.used \cup {command.pair} ELSE session.used

UsedAfterRun == IF command.pair # NoPair THEN session.used \cup {command.pair} ELSE session.used

(* run_menu after the run.                                                     *)
MarkUsed ==
    /\ pc = "run"
    /\ session' = [session EXCEPT !.used = UsedAfterRun]
    /\ pc' = "again"
    /\ UNCHANGED <<command, code, rounds, issued>>

Again ==
    /\ pc = "again"
    /\ pc' = "ask" /\ command' = NoCommand
    /\ UNCHANGED <<session, code, rounds, issued>>

Terminated == (pc = "exit" \/ (pc = "ask" /\ rounds = MaxRounds)) /\ UNCHANGED vars

Next == Begin \/ AskSelftest \/ AskRound \/ Exit \/ Dispatch \/ Crash \/ MarkUsed \/ Again \/ Terminated

Spec == SessionInit /\ [][Next]_vars

-------------------------------------------------------------------------------
(* Types; a command waits exactly while a round is under way.                  *)
SessionTypeOK ==
    /\ session.link \in LINK_ORDER /\ session.port \in Ports \cup {NoPort} /\ session.used \subseteq Keys \X Prefixes
    /\ pc \in {"begin", "ask", "command", "run", "again", "exit"}
    /\ pc \in {"command", "run", "again"} <=> command # NoCommand
    /\ code \in 0..2 /\ rounds \in 0..MaxRounds

(* No two runs of a session encrypt under the same key and the same first 8    *)
(* bytes of the IV, whatever ended the first one (realtime_env/README.md:50):  *)
(* together with the counters of one run, no IV is used twice.                 *)
PairsUsedOnce == \A r, s \in issued : r.pair = s.pair => r = s

(* The menu, the lock, the parser and the checks of the modes are four lists   *)
(* kept by hand.  Without --advanced no round is locked out (cli.py:29         *)
(* "Everything the plain menu can ask for"), and no round is refused, but for  *)
(* what the menu does not check: a side of 0 or above 65535 (size_check counts *)
(* digits only), data too long for one message, and names that argparse reads  *)
(* as options.                                                                 *)
MenuCommandsRun ==
    pc = "command" /\ ~ReadAsOption =>
        /\ ~Locked
        /\ Refused => \/ \E side \in command.typed.size : side \notin 1..SideLimit - 1
                      \/ command.typed.data > MAX_DATA_BYTES
===============================================================================
