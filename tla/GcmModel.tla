------------------------------ MODULE GcmModel ------------------------------
(***************************************************************************)
(* The software stand-in of the IP, host/gcm_model.py. A byte is a set of  *)
(* atoms and XOR their symmetric difference, so that flipping a bit,       *)
(* encrypting and decrypting compose as they do on real bytes; {} is the   *)
(* zero byte. Key stream bytes are the atoms <<key, iv, position>>, and a  *)
(* tag is the tuple of all it authenticates.                               *)
(***************************************************************************)
EXTENDS Protocol

XorByte(a, b) == (a \ b) \union (b \ a)
FlippedBit == {<<"bit">>}

RunMessage(key, iv, aad, data, decrypt) ==
    LET output == [i \in 1..Len(data) |-> XorByte(data[i], {<<key, iv, i>>})]
    IN  [output |-> output, tag |-> <<key, iv, aad, IF decrypt THEN data ELSE output>>]

NewEngine == [key |-> <<>>, iv |-> <<>>, aad |-> <<>>, data |-> <<>>, tag_ref |-> <<>>]
Cleared(e) == [e EXCEPT !.aad = <<>>, !.data = <<>>, !.tag_ref = <<>>]
NotReady(e, cmd) == e.data = <<>> \/ (cmd = "START_DECRYPT" /\ e.tag_ref = <<>>)

Loaded(e, cmd, payload) ==
    CASE cmd = "LOAD_KEY" -> Cleared([e EXCEPT !.key = payload])
      [] cmd = "LOAD_IV" -> Cleared([e EXCEPT !.iv = payload])
      [] cmd = "LOAD_AAD" -> [e EXCEPT !.aad = payload]
      [] cmd = "LOAD_PLAINTEXT" -> [e EXCEPT !.data = payload]
      [] cmd = "LOAD_TAG_REF" -> [e EXCEPT !.tag_ref = payload]
      [] cmd \in Starts -> IF NotReady(e, cmd) THEN e ELSE Cleared(e)

(* Mutant: the plaintext is given out whatever the tag.                    *)
AnswerUnverified(e, cmd) ==
    IF cmd \in Loads THEN <<<<CMD_ACKS[cmd], <<>>>>>>
    ELSE IF NotReady(e, cmd) THEN <<<<"ERR_LEN", cmd>>>>
    ELSE LET decrypt == cmd = "START_DECRYPT"
             run == RunMessage(e.key, e.iv, e.aad, e.data, decrypt)
         IN  <<<<"CIPHERTEXT", run.output>>, <<"AUTH_TAG", run.tag>>>>
             \o (IF decrypt THEN <<<<"VERIFY_RESULT", run.tag = e.tag_ref>>>> ELSE <<>>)

(* The responses to one packet.                                            *)
Answer(e, cmd) ==
    IF cmd \in Loads THEN <<<<CMD_ACKS[cmd], <<>>>>>>
    ELSE IF NotReady(e, cmd) THEN <<<<"ERR_LEN", cmd>>>>
    ELSE LET decrypt == cmd = "START_DECRYPT"
             run == RunMessage(e.key, e.iv, e.aad, e.data, decrypt)
             passed == decrypt /\ run.tag = e.tag_ref
         IN  (IF passed \/ ~decrypt THEN <<<<"CIPHERTEXT", run.output>>>> ELSE <<>>)
             \o <<<<"AUTH_TAG", run.tag>>>>
             \o (IF decrypt THEN <<<<"VERIFY_RESULT", passed>>>> ELSE <<>>)

Simulate(packets) ==
    FoldLeft(LAMBDA acc, p : [engine |-> Loaded(acc.engine, p[1], p[2]),
                              out |-> acc.out \o Answer(acc.engine, p[1])],
             [engine |-> NewEngine, out |-> <<>>], packets).out
=============================================================================
