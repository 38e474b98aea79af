------------------------------ MODULE GcmSpec -------------------------------
(***************************************************************************)
(* What the core promises its user, without clocks or registers: one       *)
(* message at a time is opened, its words are taken in order, every word   *)
(* taken is returned XORed with its own keystream block, in order, and the *)
(* message ends with the GCM verdict over all of it (the tag, or whether   *)
(* the tag presented is the right one) after the last word is out.         *)
(***************************************************************************)
EXTENDS GcmTypes

CONSTANTS
    Messages,           (* [key, iv, mode, aad, data, genuine] records      *)
    NoMessage, NoVerdict,
    Resettable          (* whether a reset may end a message early          *)

VARIABLES
    message,    (* the open message, or NoMessage                           *)
    accepted,   (* data words taken                                         *)
    returned,   (* words returned                                           *)
    verdict     (* the tag of an encryption, TRUE/FALSE for a decryption    *)

specVars == <<message, accepted, returned, verdict>>

(* GCM (NIST SP 800-38D) in the symbolic algebra of GcmTypes.              *)
Keystream(m, n) == AES(m.key, <<m.iv, (n + 1) % (CtrMax + 1)>>)
Answer(m, n) == XorWord(DataWord(m.iv, n), Keystream(m, n))
CipherWord(m, n) == IF m.mode THEN DataWord(m.iv, n) ELSE Answer(m, n)
GcmTag(m) ==
    LET H == AES(m.key, ZeroBlock)
    IN  Tag([i \in 1..m.aad |-> <<H, AADWord(m.iv, i)>>]
            \o [i \in 1..m.data |-> <<H, CipherWord(m, i)>>]
            \o <<<<H, LengthWord(m.aad, m.data)>>>>,
            AES(m.key, <<m.iv, 1>>))
Verdict(m) == IF m.mode THEN m.genuine ELSE GcmTag(m)

SpecInit == message = NoMessage /\ accepted = 0 /\ returned = <<>> /\ verdict = NoVerdict

Open(m) == /\ message = NoMessage
           /\ message' = m
           /\ UNCHANGED <<accepted, returned, verdict>>

(* Words go in and out independently, each in order.                       *)
Progress ==
    /\ message # NoMessage
    /\ \/ UNCHANGED accepted
       \/ accepted < message.data /\ accepted' = accepted + 1
    /\ \/ UNCHANGED returned
       \/ /\ Len(returned) < accepted
          /\ returned' = Append(returned, Answer(message, Len(returned) + 1))
    /\ UNCHANGED <<message, verdict>>

Conclude ==
    /\ message # NoMessage /\ verdict = NoVerdict
    /\ Len(returned) = message.data
    /\ verdict' = Verdict(message)
    /\ UNCHANGED <<message, accepted, returned>>

(* The end of the message; only a reset may end it without a verdict.      *)
Close == (verdict # NoVerdict \/ Resettable) /\ SpecInit'

SpecNext == (\E m \in Messages : Open(m)) \/ Progress \/ Conclude \/ Close

Service == SpecInit /\ [][SpecNext]_specVars
=============================================================================
