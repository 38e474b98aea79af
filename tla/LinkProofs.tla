------------------------------ MODULE LinkProofs ------------------------------
(***************************************************************************)
(* The host's ends of two links, for all their parameters. First the UART  *)
(* client: a result of execute is that of its own vector, and a session    *)
(* whose resync worked fails by a fault of its own only. Then SPI: what is *)
(* decoded of an exchange, for every answers and frame length, every cut   *)
(* of the bytes into frames, any number of idle zeros and whatever an      *)
(* aborted run left queued; the core of it is FeedTogether, that bytes     *)
(* decoded in two parts give what they give at once, so that a frame, a    *)
(* zero or a packet changes what is still to be decoded in one place only. *)
(***************************************************************************)
EXTENDS UartClient, SpiTransfer, SequenceLemmas

(* The packets of a vector: key, IV, AAD if there is any, data, tag to be  *)
(* checked against, start.                                                 *)
DataAt(v) == IF v.aad = <<>> THEN 3 ELSE 4
PacketCount(v) == DataAt(v) + (IF v.decrypt THEN 2 ELSE 1)
PacketAt(v, s) ==
    IF s = 1 THEN <<"LOAD_KEY", v.key>>
    ELSE IF s = 2 THEN <<"LOAD_IV", v.iv>>
    ELSE IF s < DataAt(v) THEN <<"LOAD_AAD", v.aad>>
    ELSE IF s = DataAt(v) THEN <<"LOAD_PLAINTEXT", v.data>>
    ELSE IF ~v.decrypt THEN <<"START_ENCRYPT", <<>>>>
    ELSE IF s = DataAt(v) + 1 THEN <<"LOAD_TAG_REF", v.tag>>
    ELSE <<"START_DECRYPT", <<>>>>

(* What the IP answers to a vector, and whether the tag is right.          *)
Run(v) == RunMessage(v.key, v.iv, v.aad, v.data, v.decrypt)
RightTag(v) == Run(v).tag = v.tag
Ciphertext(v) == <<"CIPHERTEXT", Run(v).output>>
Tag(v) == <<"AUTH_TAG", Run(v).tag>>
Verdict(v) == <<"VERIFY_RESULT", RightTag(v)>>
OwnAnswers(v, cmd) ==
    IF cmd \in Loads THEN <<<<CMD_ACKS[cmd], <<>>>>>>
    ELSE IF ~v.decrypt THEN <<Ciphertext(v), Tag(v)>>
    ELSE IF RightTag(v) THEN <<Ciphertext(v), Tag(v), Verdict(v)>>
    ELSE <<Tag(v), Verdict(v)>>

(* All that is ever on the way to the PC, and all that execute returns.    *)
AllVectors == {Vectors[n] : n \in 1..Len(Vectors)}
Opcodes == Loads \union Starts \union {"none"}
ReplyPackets ==
    {<<"ERR_UNKNOWN", "none">>} \union {<<"ERR_TIMEOUT", c>> : c \in Opcodes}
    \union {<<CMD_ACKS[c], <<>>>> : c \in Loads}
    \union {Ciphertext(v) : v \in AllVectors} \union {Tag(v) : v \in AllVectors}
    \union {Verdict(v) : v \in AllVectors}
Outputs == {Run(v).output : v \in AllVectors} \union {<<>>}
AllResults == AllVectors \X Outputs \X {Run(v).tag : v \in AllVectors}

ParserType ==
    {IdleParser} \union [at : {"length"}, cmd : Opcodes, left : {0}]
    \union [at : {"payload"}, cmd : Loads, left : 1..PayloadBytes]

(* The engine while packet s of v is due: what the packets before it have  *)
(* loaded, none of them empty.                                             *)
LoadedUpTo(v, s) ==
    /\ s \in 1..PacketCount(v)
    /\ s >= 2 => engine.key = v.key
    /\ s >= 3 => /\ engine.iv = v.iv
                 /\ engine.aad = IF s > 3 THEN v.aad ELSE <<>>
                 /\ engine.data = IF s > DataAt(v) THEN v.data ELSE <<>>
                 /\ engine.tag_ref = IF s > DataAt(v) + 1 THEN v.tag ELSE <<>>
    /\ s > DataAt(v) => v.data # <<>>
    /\ s > DataAt(v) + 1 => v.tag # <<>>

EngineRecord ==
    engine = [key |-> engine.key, iv |-> engine.iv, aad |-> engine.aad, data |-> engine.data,
              tag_ref |-> engine.tag_ref]

(* Types: of the board, of what is on its way and kept, and of the client. *)
BoardType == EngineRecord /\ parser \in ParserType /\ quiet \in 0..ParserTimeout - 1
SeqType == flight \in Seq(ReplyPackets) /\ rx \in Seq(ReplyPackets) /\ got \in Seq(ReplyPackets) /\ results \in Seq(AllResults)
ClientType ==
    /\ pc \in {"dead", "settle", "zero1", "zero2", "resync", "send", "receive"}
    /\ sleep \in 0..SettleTime /\ job \in 0..Len(Vectors) /\ step \in Nat
    /\ before \in Nat /\ faults \in Nat /\ before <= faults
UartType == BoardType /\ SeqType /\ ClientType

(* Opening: however the parser was left, it is idle when the sleep ends,   *)
(* and the two zeros are one refused packet.                               *)
Opening ==
    /\ sleep > 0 => pc \in {"settle", "resync"}
    /\ pc = "settle" => parser.at = "idle" \/ quiet + sleep >= ParserTimeout
    /\ pc \in {"zero1", "resync", "send", "receive"} => parser = IdleParser
    /\ pc = "zero2" => parser = [at |-> "length", cmd |-> "none", left |-> 0]
    /\ pc \in {"zero1", "zero2"} => flight = <<>> /\ rx = <<>>
    /\ pc = "resync" => /\ \A i \in 1..Len(rx) : rx[i][1] = "ERR_UNKNOWN"
                       /\ \A i \in 1..Len(flight) : flight[i][1] = "ERR_UNKNOWN"
    /\ pc \in {"settle", "zero1", "zero2", "resync"} =>
           ~synced /\ job = 0 /\ step = 1 /\ got = <<>> /\ results = <<>>

(* A resync that failed half way may leave the answer to its zeros.        *)
Stale == rx # <<>> /\ rx[1][1] = "ERR_UNKNOWN" /\ ~synced /\ got = <<>>

Sending ==
    /\ flight = <<>> /\ got = <<>>
    /\ rx = <<>> \/ (Stale /\ job = 0 /\ step = 1)
    /\ IF job < Len(Vectors) THEN LoadedUpTo(Vector, step) ELSE step = 1

(* What can still come of the answers to a packet, in the order they are   *)
(* given; an answer may be missing.                                        *)
Rank(answer) ==
    IF answer[1] = "CIPHERTEXT" THEN 1 ELSE IF answer[1] = "AUTH_TAG" THEN 2 ELSE 3
Own(v, cmd, answer) ==
    \/ cmd \in Loads /\ answer = <<CMD_ACKS[cmd], <<>>>>
    \/ cmd \in Starts /\ answer = Ciphertext(v) /\ (v.decrypt => RightTag(v))
    \/ cmd \in Starts /\ answer = Tag(v)
    \/ cmd = "START_DECRYPT" /\ answer = Verdict(v)
InOrder(given) ==
    \A i, j \in 1..Len(given) : i < j => Rank(given[i]) < Rank(given[j])
Pending == rx \o flight

GotOwn(v, cmd) ==
    \/ got = <<>>
    \/ cmd \in Starts /\ got = <<Ciphertext(v)>> /\ (v.decrypt => RightTag(v))
    \/ cmd = "START_DECRYPT" /\ got = <<Tag(v)>>
    \/ cmd = "START_DECRYPT" /\ got = <<Ciphertext(v), Tag(v)>> /\ RightTag(v)
PendingOwn(v, cmd) ==
    /\ InOrder(Pending)
    /\ \A i \in 1..Len(Pending) : /\ Own(v, cmd, Pending[i])
                                  /\ got # <<>> => Rank(Last(got)) < Rank(Pending[i])
    /\ synced /\ faults = before => got \o Pending = OwnAnswers(v, cmd)

Receiving ==
    /\ job < Len(Vectors) /\ step \in 1..PacketCount(Vector)
    /\ Packet[1] \in Loads => LoadedUpTo(Vector, step + 1)
    /\ Stale \/ (GotOwn(Vector, Packet[1]) /\ PendingOwn(Vector, Packet[1]))

Genuine(r) ==
    /\ r[3] = Run(r[1]).tag
    /\ \/ r[2] = Run(r[1]).output /\ (r[1].decrypt => RightTag(r[1]))
       \/ r[2] = <<>> /\ r[1].decrypt

UartInv ==
    /\ UartType /\ Opening
    /\ pc = "send" => Sending
    /\ pc = "receive" => Receiving
    /\ \A i \in 1..Len(results) : Genuine(results[i])

-----------------------------------------------------------------------------
(* Sequences that are written out.                                         *)
LEMMA Concatenated ==
  ASSUME NEW S, NEW s \in Seq(S), NEW t \in Seq(S), NEW u \in Seq(S), Len(u) = Len(s) + Len(t),
         \A i \in 1..Len(s) : s[i] = u[i], \A i \in 1..Len(t) : t[i] = u[Len(s) + i]
  PROVE  s \o t = u
  <1>1. /\ s \o t \in Seq(S) /\ Len(s \o t) = Len(u)
        /\ Len(s) \in Nat /\ Len(t) \in Nat
        /\ \A i \in 1..Len(u) : (s \o t)[i] = IF i <= Len(s) THEN s[i] ELSE t[i - Len(s)]
    BY ConcatProperties, LenProperties
  <1>2. ASSUME NEW i \in 1..Len(s \o t) PROVE (s \o t)[i] = u[i]
    <2>1. CASE i <= Len(s)
      BY <1>1, <2>1
    <2>2. CASE i > Len(s)
      <3>1. i - Len(s) \in 1..Len(t)
        BY <1>1, <2>2
      <3> QED BY <1>1, <2>2, <3>1
    <2> QED BY <1>1, <2>1, <2>2
  <1> QED BY <1>1, <1>2, SeqEqual

LEMMA ShortTuples ==
  /\ \A a : <<>> \o <<a>> = <<a>>
  /\ \A a, b : <<a, b>> \o <<>> = <<a, b>>
  /\ \A a, b : <<a>> \o <<b>> = <<a, b>>
  /\ \A a, b, c : <<a, b>> \o <<c>> = <<a, b, c>>
  /\ \A a, b, c, d : <<a, b, c>> \o <<d>> = <<a, b, c, d>>
  /\ \A a, b, c, d, e : <<a, b, c>> \o <<d, e>> = <<a, b, c, d, e>>
  /\ \A a, b, c, d, e : <<a, b, c, d>> \o <<e>> = <<a, b, c, d, e>>
  /\ \A a, b, c, d, e, f : <<a, b, c, d>> \o <<e, f>> = <<a, b, c, d, e, f>>
  <1>1. ASSUME NEW a PROVE <<>> \o <<a>> = <<a>>
    <2>1. <<a>> \in Seq({a})
      OBVIOUS
    <2> QED BY <2>1, ConcatEmptySeq
  <1>2. ASSUME NEW a, NEW b PROVE <<a, b>> \o <<>> = <<a, b>>
    <2>1. <<a, b>> \in Seq({a, b})
      OBVIOUS
    <2> QED BY <2>1, ConcatEmptySeq
  <1>3. ASSUME NEW a, NEW b PROVE <<a>> \o <<b>> = <<a, b>>
    <2> DEFINE S == {a, b} p == <<a>> q == <<b>> u == <<a, b>>
    <2>1. /\ p \in Seq(S) /\ q \in Seq(S) /\ u \in Seq(S) /\ Len(u) = Len(p) + Len(q)
          /\ Len(p) = 1 /\ Len(q) = 1 /\ p[1] = u[1] /\ q[1] = u[2]
      OBVIOUS
    <2> HIDE DEF S, p, q, u
    <2>2. (\A i \in 1..Len(p) : p[i] = u[i]) /\ \A i \in 1..Len(q) : q[i] = u[Len(p) + i]
      BY <2>1
    <2>3. p \o q = u
      BY <2>1, <2>2, Concatenated
    <2> QED BY <2>3 DEF p, q, u
  <1>4. ASSUME NEW a, NEW b, NEW c PROVE <<a, b>> \o <<c>> = <<a, b, c>>
    <2> DEFINE S == {a, b, c} p == <<a, b>> q == <<c>> u == <<a, b, c>>
    <2>1. /\ p \in Seq(S) /\ q \in Seq(S) /\ u \in Seq(S) /\ Len(u) = Len(p) + Len(q)
          /\ \A i \in 1..Len(p) : p[i] = u[i]
          /\ \A i \in 1..Len(q) : q[i] = u[Len(p) + i]
      OBVIOUS
    <2> HIDE DEF S, p, q, u
    <2>2. p \o q = u
      BY <2>1, Concatenated
    <2> QED BY <2>2 DEF p, q, u
  <1>5. ASSUME NEW a, NEW b, NEW c, NEW d PROVE <<a, b, c>> \o <<d>> = <<a, b, c, d>>
    <2> DEFINE S == {a, b, c, d} p == <<a, b, c>> q == <<d>> u == <<a, b, c, d>>
    <2>1. /\ p \in Seq(S) /\ q \in Seq(S) /\ u \in Seq(S) /\ Len(u) = Len(p) + Len(q)
          /\ \A i \in 1..Len(p) : p[i] = u[i]
          /\ \A i \in 1..Len(q) : q[i] = u[Len(p) + i]
      OBVIOUS
    <2> HIDE DEF S, p, q, u
    <2>2. p \o q = u
      BY <2>1, Concatenated
    <2> QED BY <2>2 DEF p, q, u
  <1>6. ASSUME NEW a, NEW b, NEW c, NEW d, NEW e PROVE <<a, b, c>> \o <<d, e>> = <<a, b, c, d, e>>
    <2> DEFINE S == {a, b, c, d, e} p == <<a, b, c>> q == <<d, e>> u == <<a, b, c, d, e>>
    <2>1. /\ p \in Seq(S) /\ q \in Seq(S) /\ u \in Seq(S) /\ Len(u) = Len(p) + Len(q)
          /\ \A i \in 1..Len(p) : p[i] = u[i]
          /\ \A i \in 1..Len(q) : q[i] = u[Len(p) + i]
      OBVIOUS
    <2> HIDE DEF S, p, q, u
    <2>2. p \o q = u
      BY <2>1, Concatenated
    <2> QED BY <2>2 DEF p, q, u
  <1>7. ASSUME NEW a, NEW b, NEW c, NEW d, NEW e PROVE <<a, b, c, d>> \o <<e>> = <<a, b, c, d, e>>
    <2> DEFINE S == {a, b, c, d, e} p == <<a, b, c, d>> q == <<e>> u == <<a, b, c, d, e>>
    <2>1. /\ p \in Seq(S) /\ q \in Seq(S) /\ u \in Seq(S) /\ Len(u) = Len(p) + Len(q)
          /\ \A i \in 1..Len(p) : p[i] = u[i]
          /\ \A i \in 1..Len(q) : q[i] = u[Len(p) + i]
      OBVIOUS
    <2> HIDE DEF S, p, q, u
    <2>2. p \o q = u
      BY <2>1, Concatenated
    <2> QED BY <2>2 DEF p, q, u
  <1>8. ASSUME NEW a, NEW b, NEW c, NEW d, NEW e, NEW f PROVE <<a, b, c, d>> \o <<e, f>> = <<a, b, c, d, e, f>>
    <2> DEFINE S == {a, b, c, d, e, f} p == <<a, b, c, d>> q == <<e, f>> u == <<a, b, c, d, e, f>>
    <2>1. /\ p \in Seq(S) /\ q \in Seq(S) /\ u \in Seq(S) /\ Len(u) = Len(p) + Len(q)
          /\ \A i \in 1..Len(p) : p[i] = u[i]
          /\ \A i \in 1..Len(q) : q[i] = u[Len(p) + i]
      OBVIOUS
    <2> HIDE DEF S, p, q, u
    <2>2. p \o q = u
      BY <2>1, Concatenated
    <2> QED BY <2>2 DEF p, q, u
  <1> QED BY <1>1, <1>2, <1>3, <1>4, <1>5, <1>6, <1>7, <1>8

LEMMA Appended ==
  ASSUME NEW a, NEW b, NEW c
  PROVE  /\ Append(<<>>, a) = <<a>> /\ Append(<<a>>, b) = <<a, b>>
         /\ Append(<<a, b>>, c) = <<a, b, c>>
  <1> DEFINE S == {a, b, c} p == <<a>> q == <<a, b>>
  <1>1. <<>> \in Seq(S) /\ p \in Seq(S) /\ q \in Seq(S)
    OBVIOUS
  <1>2. a \in S /\ b \in S /\ c \in S
    OBVIOUS
  <1> HIDE DEF S, p, q
  <1>3. Append(<<>>, a) = <<>> \o <<a>> /\ Append(p, b) = p \o <<b>> /\ Append(q, c) = q \o <<c>>
    BY <1>1, <1>2, AppendIsConcat
  <1>4. <<>> \o <<a>> = <<a>>
    BY ShortTuples
  <1>5. p \o <<b>> = <<a, b>>
    BY ShortTuples DEF p
  <1>6. q \o <<c>> = <<a, b, c>>
    BY ShortTuples DEF q
  <1>7. Append(p, b) = <<a, b>> /\ Append(q, c) = <<a, b, c>> /\ Append(<<>>, a) = <<a>>
    BY <1>3, <1>4, <1>5, <1>6
  <1> QED BY <1>7 DEF p, q

LEMMA Kinds ==
  /\ Loads = {"LOAD_KEY", "LOAD_IV", "LOAD_AAD", "LOAD_PLAINTEXT", "LOAD_TAG_REF"}
  /\ Starts = {"START_ENCRYPT", "START_DECRYPT"}
  /\ \A c \in Loads : CMD_ACKS[c] \in {"ACK_KEY", "ACK_IV", "ACK_AAD", "ACK_PLAINTEXT", "ACK_TAG_REF"}
  /\ Loads \intersect Starts = {}
  BY DEF Loads, Starts, CMD_ACKS

(* execute sends the packets of a vector one after the other.              *)
LEMMA PacketsInOrder ==
  ASSUME NEW v, v.decrypt \in BOOLEAN, NEW s \in 1..PacketCount(v)
  PROVE  Packets(v)[s] = PacketAt(v, s)
  <1> DEFINE key == <<"LOAD_KEY", v.key>> iv == <<"LOAD_IV", v.iv>> aad == <<"LOAD_AAD", v.aad>>
             data == <<"LOAD_PLAINTEXT", v.data>> tag == <<"LOAD_TAG_REF", v.tag>>
             encrypt == <<"START_ENCRYPT", <<>>>> decrypt == <<"START_DECRYPT", <<>>>>
  <1>0. Packets(v) = <<key, iv>> \o (IF v.aad = <<>> THEN <<>> ELSE <<aad>>) \o <<data>>
                     \o (IF v.decrypt THEN <<tag, decrypt>> ELSE <<encrypt>>)
    BY DEF Packets
  <1>a. PacketAt(v, s) = IF s = 1 THEN key ELSE IF s = 2 THEN iv ELSE IF s < DataAt(v) THEN aad
                         ELSE IF s = DataAt(v) THEN data ELSE IF ~v.decrypt THEN encrypt
                         ELSE IF s = DataAt(v) + 1 THEN tag ELSE decrypt
    BY DEF PacketAt
  <1> HIDE DEF key, iv, aad, data, tag, encrypt, decrypt
  <1>1. CASE v.aad = <<>> /\ v.decrypt
    <2>1. Packets(v) = <<key, iv>> \o <<>> \o <<data>> \o <<tag, decrypt>>
      BY <1>0, <1>1
    <2>2. /\ <<key, iv>> \o <<>> = <<key, iv>>
          /\ <<key, iv>> \o <<data>> = <<key, iv, data>>
          /\ <<key, iv, data>> \o <<tag, decrypt>> = <<key, iv, data, tag, decrypt>>
      BY ShortTuples
    <2>3. Packets(v) = <<key, iv, data, tag, decrypt>>
      BY <2>1, <2>2
    <2> QED BY <1>a, <1>1, <2>3 DEF PacketCount, DataAt
  <1>2. CASE v.aad = <<>> /\ ~v.decrypt
    <2>1. Packets(v) = <<key, iv>> \o <<>> \o <<data>> \o <<encrypt>>
      BY <1>0, <1>2
    <2>2. /\ <<key, iv>> \o <<>> = <<key, iv>>
          /\ <<key, iv>> \o <<data>> = <<key, iv, data>>
          /\ <<key, iv, data>> \o <<encrypt>> = <<key, iv, data, encrypt>>
      BY ShortTuples
    <2>3. Packets(v) = <<key, iv, data, encrypt>>
      BY <2>1, <2>2
    <2> QED BY <1>a, <1>2, <2>3 DEF PacketCount, DataAt
  <1>3. CASE v.aad # <<>> /\ v.decrypt
    <2>1. Packets(v) = <<key, iv>> \o <<aad>> \o <<data>> \o <<tag, decrypt>>
      BY <1>0, <1>3
    <2>2. /\ <<key, iv>> \o <<aad>> = <<key, iv, aad>>
          /\ <<key, iv, aad>> \o <<data>> = <<key, iv, aad, data>>
          /\ <<key, iv, aad, data>> \o <<tag, decrypt>> = <<key, iv, aad, data, tag, decrypt>>
      BY ShortTuples
    <2>3. Packets(v) = <<key, iv, aad, data, tag, decrypt>>
      BY <2>1, <2>2
    <2> QED BY <1>a, <1>3, <2>3 DEF PacketCount, DataAt
  <1>4. CASE v.aad # <<>> /\ ~v.decrypt
    <2>1. Packets(v) = <<key, iv>> \o <<aad>> \o <<data>> \o <<encrypt>>
      BY <1>0, <1>4
    <2>2. /\ <<key, iv>> \o <<aad>> = <<key, iv, aad>>
          /\ <<key, iv, aad>> \o <<data>> = <<key, iv, aad, data>>
          /\ <<key, iv, aad, data>> \o <<encrypt>> = <<key, iv, aad, data, encrypt>>
      BY ShortTuples
    <2>3. Packets(v) = <<key, iv, aad, data, encrypt>>
      BY <2>1, <2>2
    <2> QED BY <1>a, <1>4, <2>3 DEF PacketCount, DataAt
  <1> QED BY <1>1, <1>2, <1>3, <1>4

(* The last packet of a vector is its start, the others are loads.         *)
LEMMA StartIsLast ==
  ASSUME NEW v, v.decrypt \in BOOLEAN, NEW s \in 1..PacketCount(v)
  PROVE  /\ PacketCount(v) \in 4..6
         /\ PacketAt(v, s)[1] \in Loads \union Starts
         /\ PacketAt(v, s)[1] \in Starts <=> s = PacketCount(v)
         /\ PacketAt(v, s)[1] \in Starts =>
                PacketAt(v, s)[1] = IF v.decrypt THEN "START_DECRYPT" ELSE "START_ENCRYPT"
  BY Kinds DEF PacketCount, PacketAt, DataAt

(* What a load does to the engine.                                         *)
LEMMA LoadForms ==
  ASSUME NEW p, NEW e
  PROVE  /\ Loaded(e, "LOAD_KEY", p) = Cleared([e EXCEPT !.key = p])
         /\ Loaded(e, "LOAD_IV", p) = Cleared([e EXCEPT !.iv = p])
         /\ Loaded(e, "LOAD_AAD", p) = [e EXCEPT !.aad = p]
         /\ Loaded(e, "LOAD_PLAINTEXT", p) = [e EXCEPT !.data = p]
         /\ Loaded(e, "LOAD_TAG_REF", p) = [e EXCEPT !.tag_ref = p]
  BY Zenon DEF Loaded, Starts

LEMMA ClearedForm ==
  ASSUME NEW k, NEW i, NEW a, NEW d, NEW t, NEW e,
         e = [key |-> k, iv |-> i, aad |-> a, data |-> d, tag_ref |-> t]
  PROVE  Cleared(e) = [key |-> k, iv |-> i, aad |-> <<>>, data |-> <<>>, tag_ref |-> <<>>]
  <1> DEFINE e1 == [e EXCEPT !.aad = <<>>] e2 == [e1 EXCEPT !.data = <<>>] e3 == [e2 EXCEPT !.tag_ref = <<>>]
  <1>1. [e EXCEPT !.aad = <<>>, !.data = <<>>, !.tag_ref = <<>>] = e3
    OBVIOUS
  <1>2. e1 = [key |-> k, iv |-> i, aad |-> <<>>, data |-> d, tag_ref |-> t]
    OBVIOUS
  <1> HIDE DEF e1
  <1>3. e2 = [key |-> k, iv |-> i, aad |-> <<>>, data |-> <<>>, tag_ref |-> t]
    BY <1>2
  <1> HIDE DEF e2
  <1>4. e3 = [key |-> k, iv |-> i, aad |-> <<>>, data |-> <<>>, tag_ref |-> <<>>]
    BY <1>3
  <1> QED BY <1>1, <1>4, Zenon DEF Cleared

LEMMA LoadEffect ==
  ASSUME NEW p, NEW k, NEW i, NEW a, NEW d, NEW t, NEW e,
         e = [key |-> k, iv |-> i, aad |-> a, data |-> d, tag_ref |-> t]
  PROVE  /\ Loaded(e, "LOAD_KEY", p) = [key |-> p, iv |-> i, aad |-> <<>>, data |-> <<>>, tag_ref |-> <<>>]
         /\ Loaded(e, "LOAD_IV", p) = [key |-> k, iv |-> p, aad |-> <<>>, data |-> <<>>, tag_ref |-> <<>>]
         /\ Loaded(e, "LOAD_AAD", p) = [key |-> k, iv |-> i, aad |-> p, data |-> d, tag_ref |-> t]
         /\ Loaded(e, "LOAD_PLAINTEXT", p) = [key |-> k, iv |-> i, aad |-> a, data |-> p, tag_ref |-> t]
         /\ Loaded(e, "LOAD_TAG_REF", p) = [key |-> k, iv |-> i, aad |-> a, data |-> d, tag_ref |-> p]
  <1>1. Loaded(e, "LOAD_KEY", p) = [key |-> p, iv |-> i, aad |-> <<>>, data |-> <<>>, tag_ref |-> <<>>]
    <2>1. [e EXCEPT !.key = p] = [key |-> p, iv |-> i, aad |-> a, data |-> d, tag_ref |-> t]
      OBVIOUS
    <2> DEFINE e1 == [e EXCEPT !.key = p]
    <2>2. Loaded(e, "LOAD_KEY", p) = Cleared(e1)
      BY LoadForms
    <2> HIDE DEF e1
    <2> QED BY <2>1, <2>2, ClearedForm DEF e1
  <1>2. Loaded(e, "LOAD_IV", p) = [key |-> k, iv |-> p, aad |-> <<>>, data |-> <<>>, tag_ref |-> <<>>]
    <2>1. [e EXCEPT !.iv = p] = [key |-> k, iv |-> p, aad |-> a, data |-> d, tag_ref |-> t]
      OBVIOUS
    <2> DEFINE e1 == [e EXCEPT !.iv = p]
    <2>2. Loaded(e, "LOAD_IV", p) = Cleared(e1)
      BY LoadForms
    <2> HIDE DEF e1
    <2> QED BY <2>1, <2>2, ClearedForm DEF e1
  <1>3. Loaded(e, "LOAD_AAD", p) = [key |-> k, iv |-> i, aad |-> p, data |-> d, tag_ref |-> t]
    <2>1. [e EXCEPT !.aad = p] = [key |-> k, iv |-> i, aad |-> p, data |-> d, tag_ref |-> t]
      OBVIOUS
    <2> QED BY <2>1, LoadForms
  <1>4. Loaded(e, "LOAD_PLAINTEXT", p) = [key |-> k, iv |-> i, aad |-> a, data |-> p, tag_ref |-> t]
    <2>1. [e EXCEPT !.data = p] = [key |-> k, iv |-> i, aad |-> a, data |-> p, tag_ref |-> t]
      OBVIOUS
    <2> QED BY <2>1, LoadForms
  <1>5. Loaded(e, "LOAD_TAG_REF", p) = [key |-> k, iv |-> i, aad |-> a, data |-> d, tag_ref |-> p]
    <2>1. [e EXCEPT !.tag_ref = p] = [key |-> k, iv |-> i, aad |-> a, data |-> d, tag_ref |-> p]
      OBVIOUS
    <2> QED BY <2>1, LoadForms
  <1> QED BY <1>1, <1>2, <1>3, <1>4, <1>5

(* A load that is not empty is what the next packet finds in the engine.   *)
LEMMA LoadStep ==
  ASSUME NEW v, v.decrypt \in BOOLEAN, NEW s, LoadedUpTo(v, s),
         EngineRecord,
         PacketAt(v, s)[1] \in Loads, PacketAt(v, s)[2] # <<>>,
         engine' = Loaded(engine, PacketAt(v, s)[1], PacketAt(v, s)[2])
  PROVE  LoadedUpTo(v, s + 1)'
  <1>1. s \in 1..PacketCount(v) /\ s # PacketCount(v) /\ PacketCount(v) \in 4..6 /\ DataAt(v) \in 3..4
        /\ PacketCount(v) = DataAt(v) + (IF v.decrypt THEN 2 ELSE 1)
    BY StartIsLast, Kinds DEF LoadedUpTo, DataAt, PacketCount
  <1>2. CASE s = 1
    <2>a. PacketAt(v, s) = <<"LOAD_KEY", v.key>>
      BY <1>2 DEF PacketAt
    <2>1. engine'.key = v.key
      BY <2>a, LoadEffect DEF EngineRecord
    <2> QED BY <1>1, <1>2, <2>1 DEF LoadedUpTo
  <1>3. CASE s = 2
    <2>a. PacketAt(v, s) = <<"LOAD_IV", v.iv>>
      BY <1>3 DEF PacketAt
    <2>1. /\ engine'.key = engine.key /\ engine'.iv = v.iv /\ engine'.aad = <<>> /\ engine'.data = <<>>
          /\ engine'.tag_ref = <<>>
      BY <2>a, LoadEffect DEF EngineRecord
    <2> QED BY <1>1, <1>3, <2>1 DEF LoadedUpTo
  <1>4. CASE s > 2 /\ s < DataAt(v)
    <2>a. PacketAt(v, s) = <<"LOAD_AAD", v.aad>>
      BY <1>1, <1>4 DEF PacketAt
    <2>1. /\ engine'.key = engine.key /\ engine'.iv = engine.iv /\ engine'.aad = v.aad
          /\ engine'.data = engine.data /\ engine'.tag_ref = engine.tag_ref
      BY <2>a, LoadEffect DEF EngineRecord
    <2> QED BY <1>1, <1>4, <2>1 DEF LoadedUpTo
  <1>5. CASE s = DataAt(v)
    <2>a. PacketAt(v, s) = <<"LOAD_PLAINTEXT", v.data>>
      BY <1>1, <1>5 DEF PacketAt
    <2>1. /\ engine'.key = engine.key /\ engine'.iv = engine.iv /\ engine'.aad = engine.aad
          /\ engine'.data = v.data /\ engine'.tag_ref = engine.tag_ref /\ v.data # <<>>
      BY <2>a, LoadEffect DEF EngineRecord
    <2>2. engine.aad = v.aad
      BY <1>1, <1>5 DEF LoadedUpTo, DataAt
    <2> QED BY <1>1, <1>5, <2>1, <2>2 DEF LoadedUpTo
  <1>6. CASE s > DataAt(v)
    <2>1. s = DataAt(v) + 1 /\ v.decrypt
      BY <1>1, <1>6
    <2>a. PacketAt(v, s) = <<"LOAD_TAG_REF", v.tag>>
      BY <1>1, <2>1 DEF PacketAt
    <2>2. /\ engine'.key = engine.key /\ engine'.iv = engine.iv /\ engine'.aad = engine.aad
          /\ engine'.data = engine.data /\ engine'.tag_ref = v.tag /\ v.tag # <<>>
      BY <2>a, LoadEffect DEF EngineRecord
    <2> QED BY <1>1, <2>1, <2>2 DEF LoadedUpTo
  <1> QED BY <1>1, <1>2, <1>3, <1>4, <1>5, <1>6

(* The engine answers a packet of a vector with that vector's answers: it  *)
(* is never asked to start with something missing.                         *)
LEMMA AnswersAreOwn ==
  ASSUME NEW v, v.decrypt \in BOOLEAN, NEW s, LoadedUpTo(v, s)
  PROVE  Answer(engine, PacketAt(v, s)[1]) = OwnAnswers(v, PacketAt(v, s)[1])
  <1> DEFINE cmd == PacketAt(v, s)[1]
  <1>1. CASE cmd \in Loads
    BY <1>1 DEF Answer, OwnAnswers
  <1>2. CASE cmd \notin Loads
    <2>1. s = PacketCount(v) /\ s \in 4..6 /\ cmd \in Starts
      BY <1>2, StartIsLast DEF LoadedUpTo
    <2>2. cmd = IF v.decrypt THEN "START_DECRYPT" ELSE "START_ENCRYPT"
      BY <2>1, StartIsLast DEF LoadedUpTo
    <2>3. /\ engine.key = v.key /\ engine.iv = v.iv /\ engine.data = v.data /\ v.data # <<>>
          /\ v.decrypt => engine.tag_ref = v.tag /\ v.tag # <<>>
          /\ engine.aad = v.aad
      BY <2>1 DEF LoadedUpTo, PacketCount, DataAt
    <2>4. ~NotReady(engine, cmd) /\ (cmd = "START_DECRYPT") = v.decrypt
      BY <2>2, <2>3 DEF NotReady
    <2>5. RunMessage(engine.key, engine.iv, engine.aad, engine.data, cmd = "START_DECRYPT") = Run(v)
      BY <2>3, <2>4 DEF Run
    <2>6. Answer(engine, cmd) =
              (IF ~v.decrypt \/ RightTag(v) THEN <<Ciphertext(v)>> ELSE <<>>) \o <<Tag(v)>>
              \o (IF v.decrypt THEN <<Verdict(v)>> ELSE <<>>)
      BY <1>2, <2>3, <2>4, <2>5 DEF Answer, Ciphertext, Tag, Verdict, RightTag
    <2>7. CASE ~v.decrypt
      BY <1>2, <2>6, <2>7, ShortTuples DEF OwnAnswers
    <2>8. CASE v.decrypt
      BY <1>2, <2>6, <2>8, ShortTuples DEF OwnAnswers
    <2> QED BY <2>7, <2>8
  <1> QED BY <1>1, <1>2

(* Taking from one sequence what another is given, and losing from it.     *)
LEMMA MoveHead ==
  ASSUME NEW S, NEW s \in Seq(S), NEW t \in Seq(S), t # <<>>
  PROVE  /\ Append(s, Head(t)) \in Seq(S) /\ Tail(t) \in Seq(S)
         /\ Append(s, Head(t)) \o Tail(t) = s \o t
  <1> DEFINE a == Append(s, Head(t)) b == Tail(t)
  <1>1. /\ Head(t) \in S /\ b \in Seq(S) /\ Len(b) = Len(t) - 1 /\ Len(t) \in Nat \ {0} /\ Len(s) \in Nat
        /\ \A i \in 1..Len(b) : b[i] = t[i + 1]
    BY HeadTailProperties, LenProperties, EmptySeq
  <1>2. Head(t) = t[1]
    BY <1>1
  <1>3. /\ a \in Seq(S) /\ Len(a) = Len(s) + 1 /\ a[Len(s) + 1] = t[1]
        /\ \A i \in 1..Len(s) : a[i] = s[i]
    BY <1>1, <1>2, AppendProperties
  <1>4. /\ s \o t \in Seq(S) /\ Len(s \o t) = Len(s) + Len(t)
        /\ \A i \in 1..Len(s) + Len(t) : (s \o t)[i] = IF i <= Len(s) THEN s[i] ELSE t[i - Len(s)]
    BY ConcatProperties
  <1> HIDE DEF a, b
  <1> DEFINE u == s \o t
  <1>5. \A i \in 1..Len(a) : a[i] = u[i]
    BY <1>1, <1>3, <1>4
  <1>6. \A i \in 1..Len(b) : b[i] = u[Len(a) + i]
    <2> SUFFICES ASSUME NEW i \in 1..Len(b) PROVE b[i] = u[Len(a) + i]
      OBVIOUS
    <2>1. Len(a) + i \in 1..Len(s) + Len(t) /\ Len(a) + i > Len(s) /\ Len(a) + i - Len(s) = i + 1
      BY <1>1, <1>3
    <2> QED BY <1>1, <1>4, <2>1
  <1>7. u \in Seq(S) /\ Len(u) = Len(a) + Len(b)
    BY <1>1, <1>3, <1>4
  <1> HIDE DEF u
  <1>8. a \o b = u
    BY <1>1, <1>3, <1>5, <1>6, <1>7, Concatenated
  <1> QED BY <1>1, <1>3, <1>8 DEF a, b, u

LEMMA DropHead ==
  ASSUME NEW S, NEW s \in Seq(S), NEW t \in Seq(S), t # <<>>
  PROVE  /\ Tail(t) \in Seq(S) /\ Len(s \o Tail(t)) = Len(s \o t) - 1
         /\ \A i \in 1..Len(s \o Tail(t)) :
                (s \o Tail(t))[i] = (s \o t)[IF i <= Len(s) THEN i ELSE i + 1]
  <1> DEFINE b == Tail(t)
  <1>1. /\ b \in Seq(S) /\ Len(b) = Len(t) - 1 /\ Len(t) \in Nat \ {0} /\ Len(s) \in Nat
        /\ \A i \in 1..Len(b) : b[i] = t[i + 1]
    BY HeadTailProperties, LenProperties, EmptySeq
  <1>2. /\ Len(s \o t) = Len(s) + Len(t)
        /\ \A i \in 1..Len(s) + Len(t) : (s \o t)[i] = IF i <= Len(s) THEN s[i] ELSE t[i - Len(s)]
    BY ConcatProperties
  <1> HIDE DEF b
  <1>3. /\ Len(s \o b) = Len(s) + Len(b)
        /\ \A i \in 1..Len(s) + Len(b) : (s \o b)[i] = IF i <= Len(s) THEN s[i] ELSE b[i - Len(s)]
    BY <1>1, ConcatProperties
  <1>4. ASSUME NEW i \in 1..Len(s \o b)
        PROVE  (s \o b)[i] = (s \o t)[IF i <= Len(s) THEN i ELSE i + 1]
    <2>1. CASE i <= Len(s)
      BY <1>1, <1>2, <1>3, <2>1
    <2>2. CASE i > Len(s)
      <3>1. i - Len(s) \in 1..Len(b) /\ i + 1 \in 1..Len(s) + Len(t) /\ (i - Len(s)) + 1 = i + 1 - Len(s)
        BY <1>1, <1>3, <2>2
      <3> QED BY <1>1, <1>2, <1>3, <2>2, <3>1
    <2> QED BY <1>1, <1>3, <2>1, <2>2
  <1> QED BY <1>1, <1>2, <1>3, <1>4 DEF b

LEMMA TakeHead ==
  ASSUME NEW S, NEW s \in Seq(S), NEW t \in Seq(S), s # <<>>
  PROVE  /\ Tail(s) \in Seq(S) /\ s \o t # <<>> /\ s \o t \in Seq(S)
         /\ Head(s) = (s \o t)[1] /\ Head(s) \in S /\ Head(s \o t) = Head(s)
         /\ Tail(s) \o t = Tail(s \o t)
  <1> DEFINE a == Tail(s) u == s \o t b == Tail(u)
  <1>1. /\ a \in Seq(S) /\ Len(a) = Len(s) - 1 /\ Len(s) \in Nat \ {0} /\ Len(t) \in Nat /\ Head(s) \in S
        /\ \A i \in 1..Len(a) : a[i] = s[i + 1]
    BY HeadTailProperties, LenProperties, EmptySeq
  <1>2. /\ u \in Seq(S) /\ Len(u) = Len(s) + Len(t)
        /\ \A i \in 1..Len(s) + Len(t) : u[i] = IF i <= Len(s) THEN s[i] ELSE t[i - Len(s)]
    BY ConcatProperties
  <1>3. u # <<>> /\ Head(s) = s[1] /\ u[1] = s[1]
    BY <1>1, <1>2, EmptySeq
  <1>4. Head(u) = u[1]
    BY <1>2, <1>3
  <1> HIDE DEF a, u
  <1>5. b \in Seq(S) /\ Len(b) = Len(u) - 1 /\ \A i \in 1..Len(b) : b[i] = u[i + 1]
    BY <1>2, <1>3, HeadTailProperties
  <1> HIDE DEF b
  <1>6. \A i \in 1..Len(a) : a[i] = b[i]
    <2> SUFFICES ASSUME NEW i \in 1..Len(a) PROVE a[i] = b[i]
      OBVIOUS
    <2>1. i \in 1..Len(b) /\ i + 1 \in 1..Len(s) + Len(t) /\ i + 1 <= Len(s)
      BY <1>1, <1>2, <1>5
    <2> QED BY <1>1, <1>2, <1>5, <2>1
  <1>7. \A i \in 1..Len(t) : t[i] = b[Len(a) + i]
    <2> SUFFICES ASSUME NEW i \in 1..Len(t) PROVE t[i] = b[Len(a) + i]
      OBVIOUS
    <2>1. /\ Len(a) + i \in 1..Len(b) /\ Len(a) + i + 1 \in 1..Len(s) + Len(t) /\ Len(a) + i + 1 > Len(s)
          /\ Len(a) + i + 1 - Len(s) = i
      BY <1>1, <1>2, <1>5
    <2>2. b[Len(a) + i] = u[Len(a) + i + 1]
      BY <1>5, <2>1
    <2>3. u[Len(a) + i + 1] = t[i]
      BY <1>2, <2>1
    <2> QED BY <2>2, <2>3
  <1>8. Len(b) = Len(a) + Len(t)
    BY <1>1, <1>2, <1>5
  <1>9. a \o t = b
    BY <1>1, <1>5, <1>6, <1>7, <1>8, Concatenated
  <1> QED BY <1>1, <1>2, <1>3, <1>4, <1>9 DEF a, b, u

(* The engine stays a record of five fields.                               *)
LEMMA EngineShape ==
  ASSUME NEW p, NEW cmd \in Loads \union Starts,
         EngineRecord,
         engine' = Loaded(engine, cmd, p)
  PROVE  EngineRecord'
  <1>1. CASE cmd \in Loads
    <2>1. \E k, i, a, d, t : engine' = [key |-> k, iv |-> i, aad |-> a, data |-> d, tag_ref |-> t]
      BY <1>1, LoadEffect, Kinds DEF EngineRecord
    <2> QED BY <2>1 DEF EngineRecord
  <1>2. CASE cmd \in Starts
    <2>1. engine' = engine \/ engine' = Cleared(engine)
      BY <1>2, Zenon DEF Loaded, Starts
    <2>2. Cleared(engine) = [key |-> engine.key, iv |-> engine.iv, aad |-> <<>>, data |-> <<>>, tag_ref |-> <<>>]
      BY ClearedForm DEF EngineRecord
    <2>3. CASE engine' = engine
      BY <2>3 DEF EngineRecord
    <2>4. CASE engine' = Cleared(engine)
      BY <2>2, <2>4 DEF EngineRecord
    <2> QED BY <2>1, <2>3, <2>4
  <1> QED BY <1>1, <1>2

(* An opcode that execute sends for a vector.                              *)
Fits(v, cmd) ==
    /\ v.decrypt \in BOOLEAN
    /\ cmd \in Loads \/ cmd = IF v.decrypt THEN "START_DECRYPT" ELSE "START_ENCRYPT"

(* What execute takes is the next answer of the packet, never a later one  *)
(* in its place: only the output of a decryption may be missing.           *)
TakenNext(v, cmd, h) ==
    \/ cmd \in Loads /\ got = <<>> /\ h = <<CMD_ACKS[cmd], <<>>>>
    \/ cmd \in Starts /\ got = <<>> /\ h = Ciphertext(v) /\ (v.decrypt => RightTag(v))
    \/ cmd = "START_DECRYPT" /\ got = <<>> /\ h = Tag(v)
    \/ cmd \in Starts /\ got = <<Ciphertext(v)>> /\ h = Tag(v) /\ (v.decrypt => RightTag(v))
    \/ cmd = "START_DECRYPT" /\ got = <<Tag(v)>> /\ h = Verdict(v)
    \/ cmd = "START_DECRYPT" /\ got = <<Ciphertext(v), Tag(v)>> /\ h = Verdict(v) /\ RightTag(v)

LEMMA LastOfGot ==
  ASSUME NEW v, NEW cmd, GotOwn(v, cmd), got # <<>>
  PROVE  /\ cmd \in Starts /\ cmd \notin Loads
         /\ \/ got = <<Ciphertext(v)>> /\ Last(got)[1] = "CIPHERTEXT" /\ Rank(Last(got)) = 1
            \/ got \in {<<Tag(v)>>, <<Ciphertext(v), Tag(v)>>} /\ Last(got)[1] = "AUTH_TAG" /\ Rank(Last(got)) = 2
  BY Kinds DEF GotOwn, Last, Ciphertext, Tag, Rank

LEMMA TakesNext ==
  ASSUME NEW v, NEW cmd, Fits(v, cmd), GotOwn(v, cmd), NEW h, Own(v, cmd, h),
         got # <<>> => Rank(Last(got)) < Rank(h), Takes(cmd, got, h[1])
  PROVE  TakenNext(v, cmd, h)
  <1>1. /\ cmd \in Loads \/ cmd \in Starts
        /\ cmd \in Loads => cmd \notin Starts
    BY Kinds DEF Fits
  <1>2. CASE cmd \in Loads
    BY <1>1, <1>2, Kinds DEF GotOwn, Own, TakenNext
  <1>3. CASE cmd \in Starts /\ got = <<>>
    <2>1. h[1] = "CIPHERTEXT" \/ (cmd = "START_DECRYPT" /\ h[1] = "AUTH_TAG")
      BY <1>1, <1>3 DEF Takes
    <2> QED BY <1>1, <1>3, <2>1 DEF Own, TakenNext, Ciphertext, Tag, Verdict
  <1>4. CASE cmd \in Starts /\ got = <<Ciphertext(v)>>
    <2>1. h[1] = "AUTH_TAG"
      <3>1. got # <<>> /\ Last(got)[1] = "CIPHERTEXT"
        BY <1>4 DEF Last, Ciphertext
      <3> QED BY <1>1, <1>4, <3>1 DEF Takes
    <2>2. v.decrypt => RightTag(v)
      BY <1>4 DEF GotOwn, Ciphertext, Tag
    <2> QED BY <1>1, <1>4, <2>1, <2>2 DEF Own, TakenNext, Ciphertext, Tag, Verdict
  <1>5. CASE cmd = "START_DECRYPT" /\ got \in {<<Tag(v)>>, <<Ciphertext(v), Tag(v)>>}
    <2>1. h[1] = "VERIFY_RESULT"
      <3>1. got # <<>> /\ Last(got)[1] = "AUTH_TAG"
        BY <1>5 DEF Last, Ciphertext, Tag
      <3> QED BY <1>1, <1>5, <3>1, Kinds DEF Takes
    <2>2. got = <<Ciphertext(v), Tag(v)>> => RightTag(v)
      BY <1>5 DEF GotOwn, Ciphertext, Tag
    <2> QED BY <1>1, <1>5, <2>1, <2>2, Kinds DEF Own, TakenNext, Ciphertext, Tag, Verdict
  <1> QED BY <1>1, <1>2, <1>3, <1>4, <1>5 DEF GotOwn

(* With no fault since the port was opened, the next answer is the one     *)
(* that execute waits for, and there is one.                               *)
LEMMA WholeTakes ==
  ASSUME NEW v, NEW cmd, Fits(v, cmd), GotOwn(v, cmd), got \in Seq(ReplyPackets), Pending \in Seq(ReplyPackets),
         got \o Pending = OwnAnswers(v, cmd)
  PROVE  Pending # <<>> /\ Takes(cmd, got, Pending[1][1])
  <1> DEFINE p == Pending w == got \o p
  <1>1. /\ Len(got) \in Nat /\ Len(p) \in Nat /\ Len(w) = Len(got) + Len(p)
        /\ \A i \in 1..Len(got) + Len(p) : w[i] = IF i <= Len(got) THEN got[i] ELSE p[i - Len(got)]
    BY ConcatProperties, LenProperties
  <1>2. w = OwnAnswers(v, cmd)
    OBVIOUS
  <1>3. p # <<>> <=> Len(p) > 0
    BY <1>1, EmptySeq
  <1>a. Len(p) = Len(w) - Len(got)
    BY <1>1
  <1> HIDE DEF p, w
  <1>4. CASE cmd \in Loads
    <2>1. got = <<>> /\ w = <<<<CMD_ACKS[cmd], <<>>>>>>
      BY <1>2, <1>4, Kinds DEF GotOwn, OwnAnswers
    <2>2. Len(got) = 0 /\ Len(w) = 1 /\ w[1] = <<CMD_ACKS[cmd], <<>>>>
      BY <2>1
    <2>3. Len(p) = 1
      BY <1>a, <2>2
    <2>4. p[1] = <<CMD_ACKS[cmd], <<>>>>
      BY <1>1, <2>2, <2>3
    <2>5. p[1][1] = CMD_ACKS[cmd] /\ Takes(cmd, got, CMD_ACKS[cmd])
      BY <1>4, <2>4 DEF Takes
    <2> QED BY <1>3, <2>3, <2>5 DEF p
  <1>5. CASE cmd \in Starts /\ got = <<>>
    <2>1. Len(got) = 0 /\ Len(w) > 0 /\ w[1] \in {Ciphertext(v), Tag(v)}
          /\ (w[1] = Tag(v) => v.decrypt)
      BY <1>2, <1>5, Kinds DEF OwnAnswers, Ciphertext, Tag, Fits
    <2>2. Len(p) > 0 /\ p[1] = w[1]
      BY <1>1, <2>1
    <2>3. p[1][1] = "CIPHERTEXT" \/ (p[1][1] = "AUTH_TAG" /\ cmd = "START_DECRYPT")
      BY <1>5, <2>1, <2>2, Kinds DEF Ciphertext, Tag, Fits
    <2>4. Takes(cmd, got, p[1][1])
      BY <1>5, <2>3, Kinds DEF Takes
    <2> QED BY <1>3, <2>2, <2>4 DEF p
  <1>6. CASE cmd \in Starts /\ got = <<Ciphertext(v)>>
    <2>1. v.decrypt => RightTag(v)
      BY <1>6 DEF GotOwn, Ciphertext, Tag
    <2>2. Len(got) = 1 /\ Len(w) > 1 /\ w[2] = Tag(v)
      BY <1>2, <1>6, <2>1, Kinds DEF OwnAnswers
    <2>3. Len(p) > 0 /\ p[1] = Tag(v)
      BY <1>1, <2>2
    <2>4. got # <<>> /\ Last(got)[1] = "CIPHERTEXT" /\ p[1][1] = "AUTH_TAG"
      BY <1>6, <2>3 DEF Last, Ciphertext, Tag
    <2>5. Takes(cmd, got, p[1][1])
      BY <1>6, <2>4, Kinds DEF Takes
    <2> QED BY <1>3, <2>3, <2>5 DEF p
  <1>7. CASE cmd = "START_DECRYPT" /\ got = <<Tag(v)>>
    <2>1. v.decrypt
      BY <1>7, Kinds DEF Fits
    <2>2. Len(got) = 1 /\ got[1] = Tag(v) /\ w[1] = Tag(v)
      BY <1>1, <1>7
    <2>3. ~RightTag(v)
      BY <1>2, <1>7, <2>1, <2>2, Kinds DEF OwnAnswers, Ciphertext, Tag
    <2>4. Len(w) = 2 /\ w[2] = Verdict(v)
      BY <1>2, <1>7, <2>1, <2>3, Kinds DEF OwnAnswers
    <2>a. Len(p) = 1
      BY <1>a, <2>2, <2>4
    <2>5. Len(p) > 0 /\ p[1] = Verdict(v)
      BY <1>1, <2>2, <2>4, <2>a
    <2>6. got # <<>> /\ Last(got)[1] = "AUTH_TAG" /\ p[1][1] = "VERIFY_RESULT"
      BY <1>7, <2>5 DEF Last, Tag, Verdict
    <2>7. Takes(cmd, got, p[1][1])
      BY <1>7, <2>6, Kinds DEF Takes
    <2> QED BY <1>3, <2>5, <2>7 DEF p
  <1>8. CASE cmd = "START_DECRYPT" /\ got = <<Ciphertext(v), Tag(v)>>
    <2>1. v.decrypt /\ RightTag(v)
      BY <1>8, Kinds DEF Fits, GotOwn, Ciphertext, Tag
    <2>2. Len(got) = 2 /\ Len(w) = 3 /\ w[3] = Verdict(v)
      BY <1>2, <1>8, <2>1, Kinds DEF OwnAnswers
    <2>a. Len(p) = 1
      BY <1>a, <2>2
    <2>3. Len(p) > 0 /\ p[1] = Verdict(v)
      BY <1>1, <2>2, <2>a
    <2>4. got # <<>> /\ Last(got)[1] = "AUTH_TAG" /\ p[1][1] = "VERIFY_RESULT"
      BY <1>8, <2>3 DEF Last, Tag, Verdict
    <2>5. Takes(cmd, got, p[1][1])
      BY <1>8, <2>4, Kinds DEF Takes
    <2> QED BY <1>3, <2>3, <2>5 DEF p
  <1> QED BY <1>4, <1>5, <1>6, <1>7, <1>8, Kinds DEF GotOwn, Fits

-----------------------------------------------------------------------------
(* The steps of the program and of the board.                              *)
LEMMA KnownVector ==
  ASSUME UartAssumption, job \in Nat, job < Len(Vectors)
  PROVE  /\ Vector \in AllVectors /\ Vector.decrypt \in BOOLEAN
         /\ \A s \in 1..PacketCount(Vector) :
                Packets(Vector)[s] = PacketAt(Vector, s) /\ Fits(Vector, PacketAt(Vector, s)[1])
  <1>1. job + 1 \in 1..Len(Vectors)
    BY DEF UartAssumption
  <1>2. Vector \in AllVectors /\ Vector.decrypt \in BOOLEAN
    BY <1>1 DEF UartAssumption, Vector, AllVectors
  <1>3. ASSUME NEW s \in 1..PacketCount(Vector)
        PROVE  Packets(Vector)[s] = PacketAt(Vector, s) /\ Fits(Vector, PacketAt(Vector, s)[1])
    BY <1>2, PacketsInOrder, StartIsLast DEF Fits
  <1> QED BY <1>2, <1>3

LEMMA UartInit ==
  ASSUME UartAssumption, Init
  PROVE  UartInv
  <1>1. UartType
    <2>1. EngineRecord
      BY DEF Init, NewEngine, EngineRecord
    <2>2. flight \in Seq(ReplyPackets) /\ rx \in Seq(ReplyPackets) /\ got \in Seq(ReplyPackets) /\ results \in Seq(AllResults)
      BY EmptySeq DEF Init
    <2>3. parser \in ParserType
      BY DEF Init, ParserType
    <2>4. ClientType
      BY DEF UartAssumption, Init, ClientType
    <2>5. quiet \in 0..ParserTimeout - 1
      BY DEF UartAssumption, Init
    <2> QED BY <2>1, <2>2, <2>3, <2>4, <2>5 DEF UartType, BoardType, SeqType
  <1>2. Opening
    BY DEF Init, Opening
  <1> QED BY <1>1, <1>2 DEF Init, UartInv

LEMMA OpenStep ==
  ASSUME UartAssumption, UartInv, Open
  PROVE  UartInv'
  <1>1. UartType'
    <2>1. EngineRecord'
      BY DEF Open, boardVars, UartInv, UartType, BoardType, SeqType, ClientType, EngineRecord
    <2>2. got' \in Seq(ReplyPackets) /\ results' \in Seq(AllResults)
      BY EmptySeq DEF Open
    <2>3. ClientType'
      BY DEF UartAssumption, UartInv, Open, UartType, ClientType
    <2> QED BY <2>1, <2>2, <2>3 DEF UartInv, Open, UartType, boardVars, BoardType, SeqType
  <1>2. Opening'
    <2>1. quiet' + sleep' >= ParserTimeout
      <3>1. quiet \in Nat
        BY DEF UartAssumption, UartInv, UartType, BoardType
      <3> QED BY <3>1 DEF UartAssumption, Open, boardVars
    <2>2. pc' = "settle" /\ ~synced' /\ job' = 0 /\ step' = 1 /\ got' = <<>> /\ results' = <<>>
      BY DEF Open
    <2> QED BY <2>1, <2>2 DEF Opening
  <1> QED BY <1>1, <1>2 DEF Open, UartInv

LEMMA SettledStep ==
  ASSUME UartAssumption, UartInv, Settled
  PROVE  UartInv'
  <1>1. parser = IdleParser
    <2>1. parser \in ParserType /\ quiet < ParserTimeout /\ quiet \in Int
      BY DEF UartAssumption, UartInv, UartType, BoardType
    <2>2. parser.at = "idle"
      BY <2>1 DEF UartAssumption, UartInv, Settled, Opening
    <2> QED BY <2>1, <2>2 DEF ParserType, IdleParser
  <1>2. UartType'
    <2>1. BoardType'
      BY DEF UartInv, Settled, UartType, BoardType, EngineRecord, boardVars
    <2>2. SeqType'
      BY EmptySeq DEF UartInv, Settled, UartType, SeqType
    <2>3. ClientType'
      BY DEF UartInv, Settled, UartType, ClientType
    <2> QED BY <2>1, <2>2, <2>3 DEF UartType
  <1>3. Opening'
    BY <1>1 DEF UartInv, Settled, Opening, boardVars, UartType, BoardType, SeqType, ClientType
  <1>4. pc' = "send" => Sending'
    <2> SUFFICES ASSUME pc' = "send" PROVE Sending'
      OBVIOUS
    <2>1. /\ flight' = <<>> /\ got' = <<>> /\ rx' = <<>> /\ job' = 0 /\ step' = 1
      BY DEF UartInv, Settled, Opening
    <2>2. job' < Len(Vectors) => LoadedUpTo(Vector, 1)'
      <3>1. ASSUME 0 < Len(Vectors) PROVE Vectors[1].decrypt \in BOOLEAN
        BY <3>1 DEF UartAssumption
      <3>2. \A v : v.decrypt \in BOOLEAN => 1 \in 1..PacketCount(v) /\ ~(1 > DataAt(v)) /\ ~(1 > DataAt(v) + 1)
        BY DEF PacketCount, DataAt
      <3>3. job' < Len(Vectors) => Vector'.decrypt \in BOOLEAN
        BY <2>1, <3>1 DEF Vector
      <3> QED BY <3>2, <3>3 DEF LoadedUpTo
    <2> QED BY <2>1, <2>2 DEF Sending
  <1>5. pc' # "receive" /\ results' = results
    BY DEF Settled
  <1> QED BY <1>2, <1>3, <1>4, <1>5 DEF UartInv

LEMMA WriteZeroStep ==
  ASSUME UartAssumption, UartInv, WriteZero
  PROVE  UartInv'
  <1>1. CASE pc = "zero1"
    <2>1. parser = IdleParser /\ flight = <<>> /\ rx = <<>>
      BY <1>1 DEF UartInv, Opening
    <2>2. /\ parser' = [at |-> "length", cmd |-> "none", left |-> 0] /\ quiet' = 0 /\ pc' = "zero2"
          /\ UNCHANGED <<engine, flight, rx, sleep, job, step, got, results, synced, sessions, before, faults>>
      BY <1>1, <2>1 DEF WriteZero, ZeroByte, IdleParser
    <2>3. UartType'
      <3>1. BoardType'
        BY <2>2 DEF UartAssumption, UartInv, UartType, BoardType, EngineRecord, ParserType, Opcodes
      <3>2. SeqType' /\ ClientType'
        BY <2>2 DEF UartInv, UartType, SeqType, ClientType
      <3> QED BY <3>1, <3>2 DEF UartType
    <2>4. Opening'
      BY <1>1, <2>2 DEF UartInv, Opening, UartType, BoardType, SeqType, ClientType
    <2> QED BY <2>2, <2>3, <2>4 DEF UartInv
  <1>2. CASE pc = "zero2"
    <2>1. parser = [at |-> "length", cmd |-> "none", left |-> 0] /\ flight = <<>> /\ rx = <<>>
      BY <1>2 DEF UartInv, Opening
    <2>2. parser.at = "length" /\ parser.cmd = "none" /\ parser.cmd \notin Starts
      BY <2>1, Kinds
    <2>3. /\ parser' = IdleParser /\ quiet' = 0 /\ pc' = "resync" /\ sleep' = SettleTime
          /\ flight' = Append(<<>>, <<"ERR_UNKNOWN", "none">>)
          /\ UNCHANGED <<engine, rx, job, step, got, results, synced, sessions, before, faults>>
      BY <1>2, <2>1, <2>2 DEF WriteZero, ZeroByte
    <2>4. flight' = <<<<"ERR_UNKNOWN", "none">>>>
      BY <2>3, Appended
    <2>5. flight' \in Seq(ReplyPackets)
      BY <2>4 DEF ReplyPackets
    <2>6. UartType'
      <3>1. BoardType'
        BY <2>3 DEF UartAssumption, UartInv, UartType, BoardType, EngineRecord, ParserType
      <3>2. SeqType' /\ ClientType'
        BY <2>3, <2>5 DEF UartAssumption, UartInv, UartType, SeqType, ClientType
      <3> QED BY <3>1, <3>2 DEF UartType
    <2>7. /\ \A i \in 1..Len(rx') : rx'[i][1] = "ERR_UNKNOWN"
          /\ \A i \in 1..Len(flight') : flight'[i][1] = "ERR_UNKNOWN"
      BY <2>1, <2>3, <2>4
    <2>8. Opening'
      BY <1>2, <2>3, <2>7 DEF UartInv, Opening, UartType, BoardType, SeqType, ClientType
    <2> QED BY <2>3, <2>6, <2>8 DEF UartInv
  <1> QED BY <1>1, <1>2 DEF WriteZero

LEMMA TickStep ==
  ASSUME UartAssumption, UartInv, Tick
  PROVE  UartInv'
  <1>1. pc \in {"settle", "resync"} /\ sleep' = sleep - 1 /\ sleep \in 1..SettleTime
    BY DEF UartAssumption, Tick, UartInv, Opening, UartType, BoardType, SeqType, ClientType
  <1>2. CASE parser.at # "idle" /\ quiet + 1 >= ParserTimeout
    <2>1. /\ parser' = IdleParser /\ quiet' = 0 /\ flight' = <<<<"ERR_TIMEOUT", parser.cmd>>>>
          /\ UNCHANGED <<engine, rx, pc, job, step, got, results, synced, sessions, before, faults>>
      BY <1>2 DEF Tick
    <2>2. parser.cmd \in Opcodes
      BY DEF UartInv, UartType, BoardType, SeqType, ClientType, ParserType, IdleParser, Opcodes
    <2>3. flight' \in Seq(ReplyPackets)
      BY <2>1, <2>2 DEF ReplyPackets
    <2>a. EngineRecord' /\ parser' \in ParserType
      BY <2>1 DEF UartInv, UartType, BoardType, SeqType, ClientType, EngineRecord, ParserType
    <2>b. SeqType' /\ ClientType'
      <3>1. SeqType'
        BY <2>1, <2>3 DEF UartInv, UartType, SeqType
      <3>2. ClientType'
        BY <1>1, <2>1 DEF UartAssumption, UartInv, UartType, ClientType
      <3> QED BY <3>1, <3>2
    <2>4. UartType'
      BY <2>1, <2>a, <2>b DEF UartAssumption, UartType, BoardType
    <2>5. pc = "settle"
      BY <1>1, <1>2 DEF UartInv, Opening, IdleParser
    <2>6. Opening'
      BY <1>1, <2>1, <2>5 DEF UartInv, Opening, UartType, BoardType, SeqType, ClientType, IdleParser
    <2> QED BY <1>1, <2>1, <2>4, <2>6 DEF UartInv
  <1>3. CASE ~(parser.at # "idle" /\ quiet + 1 >= ParserTimeout)
    <2>1. /\ quiet' = (IF parser.at = "idle" THEN 0 ELSE quiet + 1)
          /\ UNCHANGED <<parser, flight, engine, rx, pc, job, step, got, results, synced, sessions, before, faults>>
      BY <1>3 DEF Tick
    <2>2. UartType'
      <3>1. BoardType'
        BY <1>3, <2>1 DEF UartAssumption, UartInv, UartType, BoardType, EngineRecord
      <3>2. SeqType'
        BY <2>1 DEF UartInv, UartType, SeqType
      <3>3. ClientType'
        BY <1>1, <2>1 DEF UartAssumption, UartInv, UartType, ClientType
      <3> QED BY <3>1, <3>2, <3>3 DEF UartType
    <2>3. Opening'
      BY <1>1, <1>3, <2>1 DEF UartAssumption, UartInv, Opening, UartType, BoardType, SeqType, ClientType
    <2> QED BY <1>1, <2>1, <2>2, <2>3 DEF UartInv
  <1> QED BY <1>2, <1>3

LEMMA FlushedStep ==
  ASSUME UartAssumption, UartInv, Flushed
  PROVE  UartInv'
  <1>1. UartType'
    <2>1. BoardType'
      BY DEF Flushed, boardVars, UartInv, UartType, BoardType, EngineRecord
    <2>2. SeqType'
      BY EmptySeq DEF UartInv, UartType, SeqType, Flushed
    <2>3. ClientType'
      BY DEF UartInv, UartType, ClientType, Flushed
    <2> QED BY <2>1, <2>2, <2>3 DEF UartType
  <1>2. Opening'
    BY DEF UartInv, Flushed, Opening, boardVars, UartType, BoardType, SeqType, ClientType
  <1>3. Sending'
    <2>1. /\ flight' = <<>> /\ got' = <<>> /\ job' = 0 /\ step' = 1
          /\ rx' = <<>> \/ (rx' = rx /\ ~synced')
      BY DEF UartInv, Flushed, Opening
    <2>2. rx' = rx /\ ~synced' => rx' = <<>> \/ (Stale' /\ job' = 0 /\ step' = 1)
      <3> SUFFICES ASSUME rx' = rx, ~synced', rx # <<>> PROVE Stale' /\ job' = 0 /\ step' = 1
        BY <2>1
      <3>1. rx \in Seq(ReplyPackets) /\ Len(rx) \in Nat \ {0}
        BY EmptySeq DEF UartInv, UartType, BoardType, SeqType, ClientType
      <3>2. rx[1][1] = "ERR_UNKNOWN"
        BY <3>1 DEF UartInv, Flushed, Opening
      <3> QED BY <2>1, <3>2 DEF Stale
    <2>3. job' < Len(Vectors) => LoadedUpTo(Vector, 1)'
      <3>1. ASSUME 0 < Len(Vectors) PROVE Vectors[1].decrypt \in BOOLEAN
        BY <3>1 DEF UartAssumption
      <3>2. \A v : v.decrypt \in BOOLEAN => 1 \in 1..PacketCount(v) /\ ~(1 > DataAt(v)) /\ ~(1 > DataAt(v) + 1)
        BY DEF PacketCount, DataAt
      <3>3. job' < Len(Vectors) => Vector'.decrypt \in BOOLEAN
        BY <2>1, <3>1 DEF Vector
      <3> QED BY <3>2, <3>3 DEF LoadedUpTo
    <2> QED BY <2>1, <2>2, <2>3 DEF Sending
  <1>4. pc' = "send" /\ results' = results
    BY DEF Flushed
  <1> QED BY <1>1, <1>2, <1>3, <1>4 DEF UartInv

(* What a step of the link leaves alone.                                   *)
LEMMA LinkFrame ==
  ASSUME UartType, UNCHANGED <<boardVars, clientVars>>
  PROVE  /\ BoardType' /\ Vector' = Vector /\ Packet' = Packet
         /\ \A v, s : LoadedUpTo(v, s)' <=> LoadedUpTo(v, s)
         /\ \A v, cmd : GotOwn(v, cmd)' <=> GotOwn(v, cmd)
  <1>1. BoardType'
    BY DEF UartType, BoardType, EngineRecord, boardVars
  <1>2. Vector' = Vector /\ Packet' = Packet
    BY DEF clientVars, Vector, Packet
  <1> QED BY <1>1, <1>2 DEF LoadedUpTo, GotOwn, boardVars, clientVars

LEMMA ArriveStep ==
  ASSUME UartAssumption, UartInv, Arrive
  PROVE  UartInv'
  <1> USE DEF Arrive
  <1>1. /\ rx \in Seq(ReplyPackets) /\ flight \in Seq(ReplyPackets) /\ flight # <<>>
        /\ Len(rx) \in Nat /\ Len(flight) \in Nat \ {0}
    BY EmptySeq, LenProperties DEF UartInv, UartType, SeqType
  <1>2. rx' \in Seq(ReplyPackets) /\ flight' \in Seq(ReplyPackets) /\ Pending' = Pending
    BY <1>1, MoveHead DEF Pending
  <1>3. /\ Len(rx') = Len(rx) + 1 /\ rx'[Len(rx) + 1] = flight[1] /\ \A i \in 1..Len(rx) : rx'[i] = rx[i]
        /\ Len(flight') = Len(flight) - 1 /\ \A i \in 1..Len(flight') : flight'[i] = flight[i + 1]
    <2>1. Head(flight) \in ReplyPackets /\ Head(flight) = flight[1]
      BY <1>1, HeadTailProperties
    <2> QED BY <1>1, <2>1, HeadTailProperties, AppendProperties
  <1>4. /\ BoardType' /\ Vector' = Vector /\ Packet' = Packet
        /\ \A v, s : LoadedUpTo(v, s)' <=> LoadedUpTo(v, s)
        /\ \A v, cmd : GotOwn(v, cmd)' <=> GotOwn(v, cmd)
    BY LinkFrame DEF UartInv
  <1>5. UartType'
    <2>1. SeqType'
      BY <1>2 DEF UartInv, UartType, SeqType, clientVars
    <2>2. ClientType'
      BY DEF UartInv, UartType, ClientType, clientVars
    <2> QED BY <1>4, <2>1, <2>2 DEF UartType
  <1>6. pc = "resync" => /\ \A i \in 1..Len(rx') : rx'[i][1] = "ERR_UNKNOWN"
                         /\ \A i \in 1..Len(flight') : flight'[i][1] = "ERR_UNKNOWN"
    <2> SUFFICES ASSUME pc = "resync"
                 PROVE  /\ \A i \in 1..Len(rx') : rx'[i][1] = "ERR_UNKNOWN"
                        /\ \A i \in 1..Len(flight') : flight'[i][1] = "ERR_UNKNOWN"
      OBVIOUS
    <2>1. /\ \A i \in 1..Len(rx) : rx[i][1] = "ERR_UNKNOWN"
          /\ \A i \in 1..Len(flight) : flight[i][1] = "ERR_UNKNOWN"
      BY DEF UartInv, Opening
    <2>2. ASSUME NEW i \in 1..Len(rx') PROVE rx'[i][1] = "ERR_UNKNOWN"
      BY <1>1, <1>3, <2>1
    <2>3. ASSUME NEW i \in 1..Len(flight') PROVE flight'[i][1] = "ERR_UNKNOWN"
      BY <1>1, <1>3, <2>1
    <2> QED BY <2>2, <2>3
  <1>7. Opening'
    BY <1>1, <1>6 DEF UartInv, Opening, boardVars, clientVars
  <1>8. pc # "send"
    BY <1>1 DEF UartInv, Sending
  <1>9. pc = "receive" => Receiving'
    <2> SUFFICES ASSUME pc = "receive" PROVE Receiving'
      OBVIOUS
    <2>1. Receiving
      BY DEF UartInv
    <2>2. Stale => Stale'
      <3> SUFFICES ASSUME Stale PROVE Stale'
        OBVIOUS
      <3>1. Len(rx) > 0
        BY <1>1, EmptySeq DEF Stale
      <3>2. rx'[1] = rx[1] /\ rx' # <<>>
        BY <1>1, <1>2, <1>3, <3>1, EmptySeq
      <3> QED BY <3>2 DEF Stale, clientVars
    <2>3. \A v, cmd : PendingOwn(v, cmd) => PendingOwn(v, cmd)'
      BY <1>2 DEF PendingOwn, clientVars
    <2> QED BY <1>4, <2>1, <2>2, <2>3 DEF Receiving, clientVars
  <1> QED BY <1>5, <1>7, <1>8, <1>9 DEF UartInv, clientVars

(* A lost answer leaves the others in their order, and is a fault of this  *)
(* session.                                                                *)
LEMMA LoseKeepsOwn ==
  ASSUME UartType, NEW v, NEW cmd, PendingOwn(v, cmd), flight # <<>>, flight' = Tail(flight), faults' = faults + 1,
         UNCHANGED <<rx, got, synced, before>>
  PROVE  PendingOwn(v, cmd)'
  <1>0. rx \in Seq(ReplyPackets) /\ flight \in Seq(ReplyPackets)
    BY DEF UartType, SeqType
  <1>a. /\ Len(rx \o Tail(flight)) = Len(rx \o flight) - 1
        /\ \A i \in 1..Len(rx \o Tail(flight)) :
               (rx \o Tail(flight))[i] = (rx \o flight)[IF i <= Len(rx) THEN i ELSE i + 1]
    <2> DEFINE R == ReplyPackets
    <2>1. rx \in Seq(R) /\ flight \in Seq(R) /\ flight # <<>>
      BY <1>0
    <2> HIDE DEF R
    <2> QED BY <2>1, DropHead
  <1> DEFINE p == Pending q == Pending'
  <1>1. /\ rx \in Seq(ReplyPackets) /\ flight \in Seq(ReplyPackets) /\ Len(rx) \in Nat /\ p \in Seq(ReplyPackets) /\ Len(p) \in Nat
    BY ConcatProperties, LenProperties DEF UartType, SeqType, Pending
  <1>2. q = rx \o Tail(flight) /\ p = rx \o flight
    BY DEF Pending
  <1> HIDE DEF p, q
  <1>3. /\ Len(q) = Len(p) - 1
        /\ \A i \in 1..Len(q) : q[i] = p[IF i <= Len(rx) THEN i ELSE i + 1]
    BY <1>2, <1>a
  <1>4. \A i \in 1..Len(q) : (IF i <= Len(rx) THEN i ELSE i + 1) \in 1..Len(p)
    BY <1>1, <1>3
  <1>5. /\ \A i, j \in 1..Len(p) : i < j => Rank(p[i]) < Rank(p[j])
        /\ \A i \in 1..Len(p) : Own(v, cmd, p[i]) /\ (got # <<>> => Rank(Last(got)) < Rank(p[i]))
    BY DEF PendingOwn, InOrder, p
  <1>6. \A i \in 1..Len(q) : Own(v, cmd, q[i]) /\ (got # <<>> => Rank(Last(got)) < Rank(q[i]))
    BY <1>3, <1>4, <1>5
  <1>7. ASSUME NEW i \in 1..Len(q), NEW j \in 1..Len(q), i < j
        PROVE  Rank(q[i]) < Rank(q[j])
    <2> DEFINE x == IF i <= Len(rx) THEN i ELSE i + 1
               y == IF j <= Len(rx) THEN j ELSE j + 1
    <2>1. x \in 1..Len(p) /\ y \in 1..Len(p) /\ q[i] = p[x] /\ q[j] = p[y]
      BY <1>3, <1>4
    <2>2. x < y
      BY <1>1, <1>3, <1>7
    <2> HIDE DEF x, y
    <2> QED BY <1>5, <2>1, <2>2
  <1>8. faults' # before'
    BY DEF UartType, ClientType
  <1> QED BY <1>6, <1>7, <1>8 DEF PendingOwn, InOrder, Rank, Own, Last, q

LEMMA LoseAnswerStep ==
  ASSUME UartAssumption, UartInv, LoseAnswer
  PROVE  UartInv'
  <1> USE DEF LoseAnswer
  <1>1. /\ flight \in Seq(ReplyPackets) /\ flight # <<>> /\ Len(flight) \in Nat \ {0}
    BY EmptySeq DEF UartInv, UartType, SeqType
  <1>2. /\ flight' \in Seq(ReplyPackets) /\ Len(flight') = Len(flight) - 1
        /\ \A i \in 1..Len(flight') : flight'[i] = flight[i + 1]
    BY <1>1, HeadTailProperties
  <1>3. /\ BoardType' /\ Vector' = Vector /\ Packet' = Packet
        /\ \A v, s : LoadedUpTo(v, s)' <=> LoadedUpTo(v, s)
        /\ \A v, cmd : GotOwn(v, cmd)' <=> GotOwn(v, cmd)
    BY LinkFrame DEF UartInv
  <1>4. UartType'
    <2>1. SeqType'
      BY <1>2 DEF UartInv, UartType, SeqType, clientVars
    <2>2. ClientType'
      BY DEF UartInv, UartType, ClientType, clientVars
    <2> QED BY <1>3, <2>1, <2>2 DEF UartType
  <1>5. pc = "resync" => \A i \in 1..Len(flight') : flight'[i][1] = "ERR_UNKNOWN"
    BY <1>1, <1>2 DEF UartInv, Opening
  <1>6. Opening'
    BY <1>1, <1>5 DEF UartInv, Opening, boardVars, clientVars
  <1>7. pc # "send"
    BY <1>1 DEF UartInv, Sending
  <1>8. pc = "receive" => Receiving'
    <2> SUFFICES ASSUME pc = "receive" PROVE Receiving'
      OBVIOUS
    <2>1. Receiving
      BY DEF UartInv
    <2>2. Stale => Stale'
      BY DEF Stale, clientVars
    <2>3. \A v, cmd : PendingOwn(v, cmd) => PendingOwn(v, cmd)'
      BY LoseKeepsOwn DEF UartInv, clientVars
    <2> QED BY <1>3, <2>1, <2>2, <2>3 DEF Receiving, clientVars
  <1> QED BY <1>4, <1>6, <1>7, <1>8 DEF UartInv, clientVars

(* A program that ends leaves everything else to the next one.             *)
LEMMA EndStep ==
  ASSUME UartAssumption, UartInv, pc \in {"send", "receive"}, pc' = "dead",
         BoardType', faults' \in {faults, faults + 1}, rx' = rx \/ (rx # <<>> /\ rx' = Tail(rx)),
         UNCHANGED <<flight, sleep, job, step, got, results, synced, sessions, before>>
  PROVE  UartInv'
  <1>1. SeqType'
    BY HeadTailProperties DEF UartInv, UartType, SeqType
  <1>2. ClientType'
    BY DEF UartInv, UartType, ClientType
  <1>3. sleep = 0
    BY DEF UartAssumption, UartInv, UartType, ClientType, Opening
  <1>4. Opening'
    BY <1>3 DEF Opening
  <1> QED BY <1>1, <1>2, <1>4 DEF UartInv, UartType

LEMMA Opcode ==
  ASSUME UartAssumption, UartInv, pc \in {"send", "receive"}, job < Len(Vectors)
  PROVE  /\ job \in Nat /\ step \in 1..PacketCount(Vector) /\ Vector \in AllVectors /\ Vector.decrypt \in BOOLEAN
         /\ Packet = PacketAt(Vector, step) /\ Packet[1] \in Loads \union Starts
         /\ Fits(Vector, Packet[1])
         /\ pc = "send" => LoadedUpTo(Vector, step)
  <1>1. job \in Nat
    BY DEF UartAssumption, UartInv, UartType, ClientType
  <1>2. step \in 1..PacketCount(Vector) /\ (pc = "send" => LoadedUpTo(Vector, step))
    BY DEF UartInv, Sending, Receiving, LoadedUpTo
  <1>3. /\ Vector \in AllVectors /\ Vector.decrypt \in BOOLEAN /\ Packet = PacketAt(Vector, step)
        /\ Fits(Vector, Packet[1])
    BY <1>1, <1>2, KnownVector DEF Packet
  <1>4. Packet[1] \in Loads \union Starts
    BY <1>2, <1>3, StartIsLast
  <1> QED BY <1>1, <1>2, <1>3, <1>4

LEMMA KillMidPacketStep ==
  ASSUME UartAssumption, UartInv, KillMidPacket
  PROVE  UartInv'
  <1>1. Packet[1] \in Loads \union Starts
    BY Opcode DEF KillMidPacket
  <1>2. /\ Packet[1] \in Opcodes
        /\ Length(Packet[1]) # 0 => Packet[1] \in Loads /\ Length(Packet[1]) = PayloadBytes
    BY <1>1 DEF Opcodes, Length
  <1>3. ASSUME NEW n \in 1..Length(Packet[1])
        PROVE  [at |-> "payload", cmd |-> Packet[1], left |-> n] \in ParserType
    <2>1. Packet[1] \in Loads /\ n \in 1..PayloadBytes
      BY <1>2
    <2> QED BY <2>1 DEF ParserType
  <1>4. parser' \in ParserType
    BY <1>2, <1>3 DEF KillMidPacket, ParserType
  <1>5. BoardType'
    BY <1>4 DEF UartAssumption, KillMidPacket, UartInv, UartType, BoardType, EngineRecord
  <1> QED BY <1>5, EndStep DEF KillMidPacket

LEMMA TimeoutStep ==
  ASSUME UartAssumption, UartInv, Timeout
  PROVE  UartInv'
  <1>1. BoardType'
    BY DEF Timeout, boardVars, UartInv, UartType, BoardType, EngineRecord
  <1> QED BY <1>1, EndStep DEF Timeout

LEMMA FinishStep ==
  ASSUME UartAssumption, UartInv, Finish
  PROVE  UartInv'
  <1>1. BoardType'
    BY DEF Finish, boardVars, UartInv, UartType, BoardType, EngineRecord
  <1> QED BY <1>1, EndStep DEF Finish

(* The answers to a packet come in one order.                              *)
LEMMA OwnInOrder ==
  ASSUME NEW v \in AllVectors, NEW cmd, Fits(v, cmd)
  PROVE  /\ OwnAnswers(v, cmd) \in Seq(ReplyPackets)
         /\ InOrder(OwnAnswers(v, cmd))
         /\ \A i \in 1..Len(OwnAnswers(v, cmd)) : Own(v, cmd, OwnAnswers(v, cmd)[i])
  <1>1. /\ Ciphertext(v) \in ReplyPackets /\ Tag(v) \in ReplyPackets /\ Verdict(v) \in ReplyPackets
        /\ Rank(Ciphertext(v)) = 1 /\ Rank(Tag(v)) = 2 /\ Rank(Verdict(v)) = 3
    BY DEF ReplyPackets, Rank, Ciphertext, Tag, Verdict
  <1>2. CASE cmd \in Loads
    <2>1. <<CMD_ACKS[cmd], <<>>>> \in ReplyPackets
      BY <1>2 DEF ReplyPackets
    <2>2. OwnAnswers(v, cmd) = <<<<CMD_ACKS[cmd], <<>>>>>>
      BY <1>2 DEF OwnAnswers
    <2> QED BY <1>2, <2>1, <2>2 DEF InOrder, Own
  <1>3. CASE cmd \notin Loads
    <2> DEFINE c == Ciphertext(v) t == Tag(v) d == Verdict(v)
    <2>1. cmd = (IF v.decrypt THEN "START_DECRYPT" ELSE "START_ENCRYPT") /\ cmd \in Starts
      BY <1>3, Kinds DEF Fits
    <2>2. /\ v.decrypt => Own(v, cmd, d)
          /\ Own(v, cmd, t)
          /\ (v.decrypt => RightTag(v)) => Own(v, cmd, c)
      BY <2>1 DEF Own
    <2>3. OwnAnswers(v, cmd) = IF ~v.decrypt THEN <<c, t>> ELSE IF RightTag(v) THEN <<c, t, d>> ELSE <<t, d>>
      BY <1>3 DEF OwnAnswers
    <2> HIDE DEF c, t, d
    <2>4. c \in ReplyPackets /\ t \in ReplyPackets /\ d \in ReplyPackets /\ Rank(c) = 1 /\ Rank(t) = 2 /\ Rank(d) = 3
      BY <1>1 DEF c, t, d
    <2>5. CASE ~v.decrypt
      <3>1. OwnAnswers(v, cmd) = <<c, t>>
        BY <2>3, <2>5
      <3> QED BY <2>2, <2>4, <2>5, <3>1 DEF InOrder
    <2>6. CASE v.decrypt /\ RightTag(v)
      <3>1. OwnAnswers(v, cmd) = <<c, t, d>>
        BY <2>3, <2>6
      <3> QED BY <2>2, <2>4, <2>6, <3>1 DEF InOrder
    <2>7. CASE v.decrypt /\ ~RightTag(v)
      <3>1. OwnAnswers(v, cmd) = <<t, d>>
        BY <2>3, <2>7
      <3> QED BY <2>2, <2>4, <2>7, <3>1 DEF InOrder
    <2> QED BY <2>5, <2>6, <2>7
  <1> QED BY <1>2, <1>3

LEMMA SendStep ==
  ASSUME UartAssumption, UartInv, Send
  PROVE  UartInv'
  <1>1. /\ pc = "send" /\ job < Len(Vectors) /\ Sending
        /\ UNCHANGED <<rx, sleep, job, step, got, results, synced, sessions, before, faults>>
    BY DEF Send, UartInv
  <1>2. /\ job \in Nat /\ step \in 1..PacketCount(Vector) /\ Vector \in AllVectors /\ Vector.decrypt \in BOOLEAN
        /\ Packet = PacketAt(Vector, step) /\ Packet[1] \in Loads \union Starts
        /\ Fits(Vector, Packet[1]) /\ LoadedUpTo(Vector, step)
    BY <1>1, Opcode
  <1>3. CASE WrongLength
    <2>1. BoardType'
      BY <1>3 DEF Send, boardVars, UartInv, UartType, BoardType, EngineRecord
    <2> QED BY <1>1, <1>3, <2>1, EndStep DEF Send
  <1>4. CASE ~WrongLength
    <2>1. /\ pc' = "receive" /\ UNCHANGED <<parser, quiet>>
          /\ engine' = Loaded(engine, Packet[1], Packet[2])
          /\ flight' = flight \o Answer(engine, Packet[1])
      BY <1>4 DEF Send, ExecutePacket
    <2>2. EngineRecord
      BY DEF UartInv, UartType, BoardType
    <2>3. BoardType'
      <3>1. EngineRecord'
        BY <1>2, <2>1, <2>2, EngineShape
      <3> QED BY <2>1, <3>1 DEF UartInv, UartType, BoardType
    <2>4. /\ OwnAnswers(Vector, Packet[1]) \in Seq(ReplyPackets)
          /\ InOrder(OwnAnswers(Vector, Packet[1]))
          /\ \A i \in 1..Len(OwnAnswers(Vector, Packet[1])) :
                 Own(Vector, Packet[1], OwnAnswers(Vector, Packet[1])[i])
      BY <1>2, OwnInOrder
    <2>5. flight' = OwnAnswers(Vector, Packet[1])
      <3>1. Answer(engine, Packet[1]) = OwnAnswers(Vector, Packet[1])
        BY <1>2, AnswersAreOwn
      <3> QED BY <1>1, <2>1, <2>4, <3>1, ConcatEmptySeq DEF Sending
    <2>6. SeqType'
      BY <1>1, <2>4, <2>5 DEF UartInv, UartType, SeqType
    <2>7. ClientType'
      BY <1>1, <2>1 DEF UartInv, UartType, ClientType
    <2>8. Opening'
      BY <1>1, <2>1 DEF UartInv, Opening
    <2>9. Vector' = Vector /\ Packet' = Packet /\ job' = job /\ step' = step
      BY <1>1 DEF Vector, Packet
    <2>10. Packet[1] \in Loads => LoadedUpTo(Vector, step + 1)'
      <3> SUFFICES ASSUME Packet[1] \in Loads PROVE LoadedUpTo(Vector, step + 1)'
        OBVIOUS
      <3>1. Packet[2] # <<>>
        BY <1>4 DEF WrongLength
      <3> DEFINE v == Vector s == step
      <3>2. LoadedUpTo(v, s) /\ v.decrypt \in BOOLEAN /\ Packet = PacketAt(v, s) /\ v' = v /\ s' = s
        BY <1>2, <2>9
      <3> HIDE DEF v, s
      <3>3. \A w, n : w = v /\ n = s => LoadedUpTo(w, n + 1)'
        BY <2>1, <2>2, <3>1, <3>2, LoadStep
      <3> QED BY <2>9, <3>3 DEF v, s, LoadedUpTo
    <2>11. rx = <<>> => GotOwn(Vector, Packet[1])' /\ PendingOwn(Vector, Packet[1])'
      <3> SUFFICES ASSUME rx = <<>> PROVE GotOwn(Vector, Packet[1])' /\ PendingOwn(Vector, Packet[1])'
        OBVIOUS
      <3>1. got' = <<>>
        BY <1>1 DEF Sending
      <3>2. Pending' = OwnAnswers(Vector, Packet[1])
        BY <1>1, <2>4, <2>5, ConcatEmptySeq DEF Pending
      <3>3. (got \o Pending)' = OwnAnswers(Vector, Packet[1])
        BY <2>4, <3>1, <3>2, ConcatEmptySeq
      <3>4. GotOwn(Vector, Packet[1])'
        BY <3>1 DEF GotOwn
      <3>5. PendingOwn(Vector, Packet[1])'
        BY <2>4, <2>9, <3>1, <3>2, <3>3 DEF PendingOwn, InOrder, OwnAnswers, Own
      <3> QED BY <3>4, <3>5
    <2>12. rx # <<>> => Stale'
      BY <1>1 DEF Sending, Stale
    <2>13. Receiving'
      BY <1>1, <1>2, <2>9, <2>10, <2>11, <2>12 DEF Receiving
    <2> QED BY <1>1, <2>1, <2>3, <2>6, <2>7, <2>8, <2>13 DEF UartInv, UartType
  <1> QED BY <1>3, <1>4

(* What Receive takes is the next answer to the packet that was sent.      *)
LEMMA HeadNext ==
  ASSUME UartAssumption, UartInv, pc = "receive", rx # <<>>
  PROVE  /\ Tail(rx) \in Seq(ReplyPackets) /\ Len(Tail(rx)) = Len(rx) - 1 /\ Len(rx) \in Nat \ {0}
         /\ Pending \in Seq(ReplyPackets) /\ Pending # <<>> /\ Len(Pending) = Len(rx) + Len(flight)
         /\ Len(flight) \in Nat /\ got \in Seq(ReplyPackets)
         /\ Head(rx) = Pending[1] /\ Head(rx) = Head(Pending) /\ Tail(rx) \o flight = Tail(Pending)
         /\ Takes(Packet[1], got, Head(rx)[1]) =>
                /\ ~Stale /\ GotOwn(Vector, Packet[1]) /\ PendingOwn(Vector, Packet[1])
                /\ TakenNext(Vector, Packet[1], Head(rx))
  <1>1. rx \in Seq(ReplyPackets) /\ flight \in Seq(ReplyPackets) /\ got \in Seq(ReplyPackets)
    BY DEF UartInv, UartType, SeqType
  <1>2. /\ Tail(rx) \in Seq(ReplyPackets) /\ Len(Tail(rx)) = Len(rx) - 1 /\ Len(rx) \in Nat \ {0} /\ Len(flight) \in Nat
        /\ Head(rx) = rx[1]
    BY <1>1, HeadTailProperties, LenProperties, EmptySeq
  <1>3. /\ Pending \in Seq(ReplyPackets) /\ Pending # <<>> /\ Head(rx) = Pending[1]
        /\ Head(rx) = Head(Pending) /\ Tail(rx) \o flight = Tail(Pending)
    BY <1>1, TakeHead DEF Pending
  <1>4. Len(Pending) = Len(rx) + Len(flight)
    BY <1>1, ConcatProperties DEF Pending
  <1>5. ASSUME Takes(Packet[1], got, Head(rx)[1])
        PROVE  /\ ~Stale /\ GotOwn(Vector, Packet[1]) /\ PendingOwn(Vector, Packet[1])
               /\ TakenNext(Vector, Packet[1], Head(rx))
    <2>1. Receiving /\ job < Len(Vectors)
      BY DEF UartInv, Receiving
    <2>2. Fits(Vector, Packet[1])
      BY <2>1, Opcode
    <2>3. ~Stale
      <3> SUFFICES ASSUME Stale PROVE FALSE
        OBVIOUS
      <3>1. got = <<>> /\ Head(rx)[1] = "ERR_UNKNOWN"
        BY <1>2 DEF Stale
      <3>2. CASE Packet[1] \in Loads
        BY <1>5, <3>1, <3>2, Kinds DEF Takes
      <3>3. CASE Packet[1] \notin Loads
        BY <1>5, <3>1, <3>3 DEF Takes
      <3> QED BY <3>2, <3>3
    <2>4. GotOwn(Vector, Packet[1]) /\ PendingOwn(Vector, Packet[1])
      BY <2>1, <2>3 DEF Receiving
    <2>5. 1 \in 1..Len(Pending)
      BY <1>2, <1>4
    <2>6. Own(Vector, Packet[1], Head(rx)) /\ (got # <<>> => Rank(Last(got)) < Rank(Head(rx)))
      BY <1>3, <2>4, <2>5 DEF PendingOwn
    <2> QED BY <1>5, <2>2, <2>3, <2>4, <2>6, TakesNext
  <1> QED BY <1>1, <1>2, <1>3, <1>4, <1>5

(* After the answer that completes a packet nothing more comes of it, and  *)
(* what execute makes of the answers to a start is the vector's result.    *)
LEMMA NothingAfter ==
  ASSUME NEW v, NEW cmd, Fits(v, cmd), NEW h, TakenNext(v, cmd, h), Complete(cmd, h[1]), NEW o, Own(v, cmd, o)
  PROVE  ~(Rank(h) < Rank(o))
  <1>1. CASE cmd \in Loads
    <2>1. h = <<CMD_ACKS[cmd], <<>>>> /\ o = h
      BY <1>1, Kinds DEF TakenNext, Own
    <2> QED BY <2>1 DEF Rank
  <1>2. CASE cmd = "START_DECRYPT"
    <2>1. h[1] = "VERIFY_RESULT"
      BY <1>2, Kinds DEF Complete
    <2> QED BY <2>1 DEF Rank
  <1>3. CASE cmd = "START_ENCRYPT"
    <2>1. h[1] = "AUTH_TAG" /\ o \in {Ciphertext(v), Tag(v)}
      BY <1>3, Kinds DEF Complete, Own
    <2> QED BY <2>1 DEF Rank, Ciphertext, Tag
  <1> QED BY <1>1, <1>2, <1>3, Kinds DEF Fits

LEMMA Completed ==
  ASSUME NEW v, NEW cmd \in Starts, Fits(v, cmd), NEW h, TakenNext(v, cmd, h), Complete(cmd, h[1])
  PROVE  /\ TagOf(Append(got, h)) = Run(v).tag
         /\ \/ Output(Append(got, h)) = Run(v).output /\ (v.decrypt => RightTag(v))
            \/ Output(Append(got, h)) = <<>> /\ v.decrypt
         /\ v.decrypt => Last(Append(got, h))[2] = RightTag(v)
  <1> DEFINE c == Ciphertext(v) t == Tag(v) d == Verdict(v)
  <1>1. /\ c[1] = "CIPHERTEXT" /\ c[2] = Run(v).output /\ t[1] = "AUTH_TAG" /\ t[2] = Run(v).tag
        /\ d[1] = "VERIFY_RESULT" /\ d[2] = RightTag(v)
    BY DEF Ciphertext, Tag, Verdict
  <1>2. \/ cmd = "START_ENCRYPT" /\ ~v.decrypt /\ got = <<c>> /\ h = t
        \/ cmd = "START_DECRYPT" /\ v.decrypt /\ got = <<t>> /\ h = d
        \/ cmd = "START_DECRYPT" /\ v.decrypt /\ got = <<c, t>> /\ h = d /\ RightTag(v)
    BY <1>1, Kinds DEF TakenNext, Complete, Fits
  <1> HIDE DEF c, t, d
  <1>3. CASE ~v.decrypt /\ got = <<c>> /\ h = t
    <2>1. Append(got, h) = <<c, t>>
      BY <1>3, Appended
    <2>2. Range(<<c, t>>) = {c, t}
      BY DEF Range
    <2>3. TagOf(<<c, t>>) = t[2]
      BY <1>1, <2>2 DEF TagOf
    <2>4. Output(<<c, t>>) = c[2]
      BY <1>1 DEF Output
    <2> QED BY <1>1, <1>3, <2>1, <2>3, <2>4
  <1>4. CASE v.decrypt /\ got = <<t>> /\ h = d
    <2>1. Append(got, h) = <<t, d>>
      BY <1>4, Appended
    <2>2. Range(<<t, d>>) = {t, d}
      BY DEF Range
    <2>3. TagOf(<<t, d>>) = t[2]
      BY <1>1, <2>2 DEF TagOf
    <2>4. Output(<<t, d>>) = <<>> /\ Last(<<t, d>>) = d
      BY <1>1 DEF Output, Last
    <2> QED BY <1>1, <1>4, <2>1, <2>3, <2>4
  <1>5. CASE v.decrypt /\ got = <<c, t>> /\ h = d /\ RightTag(v)
    <2>1. Append(got, h) = <<c, t, d>>
      BY <1>5, Appended
    <2>2. Range(<<c, t, d>>) = {c, t, d}
      BY DEF Range
    <2>3. TagOf(<<c, t, d>>) = t[2]
      BY <1>1, <2>2 DEF TagOf
    <2>4. Output(<<c, t, d>>) = c[2] /\ Last(<<c, t, d>>) = d
      BY <1>1 DEF Output, Last
    <2> QED BY <1>1, <1>5, <2>1, <2>3, <2>4
  <1> QED BY <1>2, <1>3, <1>4, <1>5

LEMMA FirstPacket ==
  ASSUME NEW v, v.decrypt \in BOOLEAN
  PROVE  LoadedUpTo(v, 1) /\ LoadedUpTo(v, 1)'
  <1>1. 1 \in 1..PacketCount(v) /\ ~(1 > DataAt(v)) /\ ~(1 > DataAt(v) + 1)
    BY DEF PacketCount, DataAt
  <1> QED BY <1>1 DEF LoadedUpTo

(* One more of the answers to a start.                                     *)
LEMMA TakeMore ==
  ASSUME UartAssumption, UartInv, NEW v, NEW cmd, pc = "receive", rx # <<>>, Fits(v, cmd),
         GotOwn(v, cmd), PendingOwn(v, cmd), TakenNext(v, cmd, Head(rx)), ~Complete(cmd, Head(rx)[1]),
         rx' = Tail(rx), got' = Append(got, Head(rx)), UNCHANGED <<flight, synced, faults, before>>
  PROVE  GotOwn(v, cmd)' /\ PendingOwn(v, cmd)'
  <1> DEFINE h == Head(rx) p == Pending q == Pending'
  <1>1. /\ p \in Seq(ReplyPackets) /\ p # <<>> /\ got \in Seq(ReplyPackets) /\ h = p[1] /\ h = Head(p) /\ q = Tail(p)
    BY HeadNext DEF Pending
  <1>2. /\ Len(q) = Len(p) - 1 /\ Len(p) \in Nat \ {0} /\ \A i \in 1..Len(q) : q[i] = p[i + 1]
    BY <1>1, HeadTailProperties, LenProperties, EmptySeq
  <1>3. got' \o q = got \o p
    BY <1>1, MoveHead
  <1>4. /\ Ciphertext(v)[1] = "CIPHERTEXT" /\ Tag(v)[1] = "AUTH_TAG" /\ Verdict(v)[1] = "VERIFY_RESULT"
    BY DEF Ciphertext, Tag, Verdict
  <1>5. \/ cmd \in Starts /\ got = <<>> /\ h = Ciphertext(v) /\ (v.decrypt => RightTag(v))
        \/ cmd = "START_DECRYPT" /\ got = <<>> /\ h = Tag(v)
        \/ cmd = "START_DECRYPT" /\ got = <<Ciphertext(v)>> /\ h = Tag(v) /\ RightTag(v)
    BY <1>4, Kinds DEF TakenNext, Complete, Fits
  <1>6. \/ cmd \in Starts /\ got' = <<Ciphertext(v)>> /\ h = Ciphertext(v) /\ (v.decrypt => RightTag(v))
        \/ cmd = "START_DECRYPT" /\ got' = <<Tag(v)>> /\ h = Tag(v)
        \/ cmd = "START_DECRYPT" /\ got' = <<Ciphertext(v), Tag(v)>> /\ h = Tag(v) /\ RightTag(v)
    BY <1>5, Appended
  <1>7. GotOwn(v, cmd)'
    BY <1>6 DEF GotOwn, Ciphertext, Tag, RightTag, Run
  <1>8. Last(got') = h
    BY <1>6 DEF Last
  <1>9. /\ \A i, j \in 1..Len(p) : i < j => Rank(p[i]) < Rank(p[j])
        /\ \A i \in 1..Len(p) : Own(v, cmd, p[i])
        /\ synced /\ faults = before => got \o p = OwnAnswers(v, cmd)
    BY DEF PendingOwn, InOrder
  <1> HIDE DEF h, p, q
  <1>10. \A i \in 1..Len(q) : i + 1 \in 1..Len(p) /\ 1 \in 1..Len(p) /\ 1 < i + 1
    BY <1>2
  <1>11. \A i \in 1..Len(q) : Own(v, cmd, q[i]) /\ Rank(h) < Rank(q[i])
    BY <1>1, <1>2, <1>9, <1>10
  <1>12. \A i, j \in 1..Len(q) : i < j => Rank(q[i]) < Rank(q[j])
    <2> SUFFICES ASSUME NEW i \in 1..Len(q), NEW j \in 1..Len(q), i < j PROVE Rank(q[i]) < Rank(q[j])
      OBVIOUS
    <2> DEFINE x == i + 1 y == j + 1
    <2>1. x \in 1..Len(p) /\ y \in 1..Len(p) /\ x < y /\ q[i] = p[x] /\ q[j] = p[y]
      BY <1>2, <1>10
    <2> HIDE DEF x, y
    <2> QED BY <1>9, <2>1
  <1>13. InOrder(Pending)'
    BY <1>12 DEF InOrder, q
  <1>14. \A i \in 1..Len(Pending') : Own(v, cmd, Pending[i])' /\ (Rank(Last(got)) < Rank(Pending[i]))'
    <2>1. \A i \in 1..Len(q) : Own(v, cmd, q[i]) /\ Rank(Last(got')) < Rank(q[i])
      BY <1>8, <1>11
    <2> QED BY <2>1 DEF q
  <1>15. (synced /\ faults = before => got \o Pending = OwnAnswers(v, cmd))'
    BY <1>3, <1>9 DEF q, OwnAnswers
  <1> QED BY <1>7, <1>13, <1>14, <1>15 DEF PendingOwn, q

(* The last answer leaves nothing behind it.                               *)
LEMMA TakeLast ==
  ASSUME UartAssumption, UartInv, NEW v, NEW cmd, pc = "receive", rx # <<>>, Fits(v, cmd),
         PendingOwn(v, cmd), TakenNext(v, cmd, Head(rx)), Complete(cmd, Head(rx)[1])
  PROVE  Tail(rx) = <<>> /\ flight = <<>>
  <1>1. /\ Tail(rx) \in Seq(ReplyPackets) /\ Len(Tail(rx)) = Len(rx) - 1 /\ Len(rx) \in Nat \ {0}
        /\ Len(Pending) = Len(rx) + Len(flight) /\ Len(flight) \in Nat /\ Head(rx) = Pending[1]
    BY HeadNext
  <1>2. ~(2 <= Len(Pending))
    <2> SUFFICES ASSUME 2 <= Len(Pending) PROVE FALSE
      OBVIOUS
    <2>1. 1 \in 1..Len(Pending) /\ 2 \in 1..Len(Pending)
      BY <1>1
    <2>2. Rank(Pending[1]) < Rank(Pending[2]) /\ Own(v, cmd, Pending[2])
      BY <2>1 DEF PendingOwn, InOrder
    <2> QED BY <1>1, <2>2, NothingAfter
  <1>3. Len(Tail(rx)) = 0 /\ Len(flight) = 0
    BY <1>1, <1>2
  <1> QED BY <1>1, <1>3, EmptySeq DEF UartInv, UartType, SeqType

LEMMA ReceiveStep ==
  ASSUME UartAssumption, UartInv, Receive
  PROVE  UartInv'
  <1> DEFINE cmd == Packet[1] h == Head(rx) v == Vector
  <1>1. /\ pc = "receive" /\ rx # <<>> /\ rx' = Tail(rx) /\ job < Len(Vectors) /\ Receiving
        /\ UNCHANGED <<boardVars, flight, sleep, synced, sessions, before, faults>>
    BY DEF Receive, UartInv, Receiving
  <1>2. BoardType'
    BY <1>1 DEF boardVars, UartInv, UartType, BoardType, EngineRecord
  <1>3. /\ \/ pc' = "dead" /\ UNCHANGED <<got, step, job, results>>
           \/ /\ Takes(cmd, got, h[1]) /\ ~Complete(cmd, h[1])
              /\ got' = Append(got, h) /\ UNCHANGED <<pc, step, job, results>>
           \/ /\ Takes(cmd, got, h[1]) /\ Complete(cmd, h[1]) /\ cmd \in Loads
              /\ pc' = "send" /\ got' = <<>> /\ step' = step + 1 /\ UNCHANGED <<job, results>>
           \/ /\ Takes(cmd, got, h[1]) /\ Complete(cmd, h[1]) /\ cmd \notin Loads
              /\ pc' = "send" /\ got' = <<>> /\ step' = 1 /\ job' = job + 1
              /\ results' = Append(results, <<v, Output(Append(got, h)), TagOf(Append(got, h))>>)
    BY DEF Receive
  <1>4. /\ job \in 0..Len(Vectors) /\ job + 1 \in 0..Len(Vectors) /\ step \in 1..PacketCount(v) /\ v \in AllVectors
        /\ v.decrypt \in BOOLEAN /\ cmd \in Loads \union Starts /\ Fits(v, cmd)
    BY <1>1, Opcode DEF UartAssumption
  <1>5. /\ Tail(rx) \in Seq(ReplyPackets)
        /\ Takes(cmd, got, h[1]) =>
               /\ ~Stale /\ GotOwn(v, cmd) /\ PendingOwn(v, cmd) /\ TakenNext(v, cmd, h)
    BY <1>1, HeadNext
  <1>a. sleep = 0 /\ parser = IdleParser /\ PacketCount(v) \in 4..6
    BY <1>1, <1>4, StartIsLast DEF UartAssumption, UartInv, UartType, ClientType, Opening
  <1>6. CASE pc' = "dead" /\ UNCHANGED <<got, step, job, results>>
    BY <1>1, <1>2, <1>6, EndStep
  <1>7. CASE /\ Takes(cmd, got, h[1]) /\ ~Complete(cmd, h[1])
             /\ got' = Append(got, h) /\ UNCHANGED <<pc, step, job, results>>
    <2>1. h \in ReplyPackets /\ got \in Seq(ReplyPackets)
      BY <1>1, HeadTailProperties DEF UartInv, UartType, SeqType
    <2>2. SeqType'
      BY <1>1, <1>5, <1>7, <2>1, AppendProperties DEF UartInv, UartType, SeqType
    <2>3. ClientType'
      BY <1>1, <1>7 DEF UartInv, UartType, ClientType
    <2>4. Opening'
      BY <1>1, <1>7 DEF UartInv, Opening, boardVars
    <2>5. GotOwn(v, cmd) /\ PendingOwn(v, cmd) /\ TakenNext(v, cmd, h)
      BY <1>5, <1>7
    <2>6. \A w, c : w = v /\ c = cmd => GotOwn(w, c)' /\ PendingOwn(w, c)'
      BY <1>1, <1>4, <1>7, <2>5, TakeMore
    <2>7. Vector' = v /\ Packet' = Packet /\ job' = job /\ step' = step
      BY <1>7 DEF Vector, Packet
    <2>8. GotOwn(Vector, Packet[1])' /\ PendingOwn(Vector, Packet[1])'
      BY <2>6, <2>7 DEF GotOwn, PendingOwn
    <2>9. cmd \notin Loads
      BY <1>7 DEF Complete
    <2>10. Receiving'
      BY <1>1, <1>4, <2>7, <2>8, <2>9 DEF Receiving
    <2> QED BY <1>1, <1>2, <1>7, <2>2, <2>3, <2>4, <2>10 DEF UartInv, UartType
  <1>8. CASE /\ Takes(cmd, got, h[1]) /\ Complete(cmd, h[1]) /\ cmd \in Loads
             /\ pc' = "send" /\ got' = <<>> /\ step' = step + 1 /\ UNCHANGED <<job, results>>
    <2>1. rx' = <<>> /\ flight' = <<>>
      BY <1>1, <1>4, <1>5, <1>8, TakeLast
    <2>2. SeqType'
      BY <1>8, <2>1, EmptySeq DEF UartInv, UartType, SeqType
    <2>3. ClientType'
      BY <1>1, <1>8 DEF UartInv, UartType, ClientType
    <2>4. Opening'
      BY <1>1, <1>8, <1>a DEF Opening, boardVars
    <2>5. Vector' = v /\ job' < Len(Vectors)
      BY <1>1, <1>8 DEF Vector
    <2>6. LoadedUpTo(v, step + 1)
      BY <1>1, <1>8 DEF Receiving
    <2>7. LoadedUpTo(Vector, step)'
      BY <1>1, <1>8, <2>5, <2>6 DEF LoadedUpTo, boardVars
    <2>8. Sending'
      BY <1>8, <2>1, <2>5, <2>7 DEF Sending
    <2> QED BY <1>2, <1>8, <2>2, <2>3, <2>4, <2>8 DEF UartInv, UartType
  <1>9. CASE /\ Takes(cmd, got, h[1]) /\ Complete(cmd, h[1]) /\ cmd \notin Loads
             /\ pc' = "send" /\ got' = <<>> /\ step' = 1 /\ job' = job + 1
             /\ results' = Append(results, <<v, Output(Append(got, h)), TagOf(Append(got, h))>>)
    <2>1. rx' = <<>> /\ flight' = <<>>
      BY <1>1, <1>4, <1>5, <1>9, TakeLast
    <2> DEFINE o == Output(Append(got, h)) t == TagOf(Append(got, h)) r == <<v, o, t>>
    <2>2. t = Run(v).tag /\ ((o = Run(v).output /\ (v.decrypt => RightTag(v))) \/ (o = <<>> /\ v.decrypt))
      BY <1>4, <1>5, <1>9, Completed
    <2> HIDE DEF o, t
    <2>3. r \in AllResults /\ Genuine(r)
      BY <1>4, <2>2 DEF AllResults, Outputs, Genuine
    <2>4. results \in Seq(AllResults) /\ results' = Append(results, r)
      BY <1>9 DEF UartInv, UartType, SeqType, o, t
    <2> HIDE DEF r
    <2>5. /\ results' \in Seq(AllResults) /\ Len(results') = Len(results) + 1 /\ Len(results) \in Nat
          /\ results'[Len(results) + 1] = r /\ \A i \in 1..Len(results) : results'[i] = results[i]
      BY <2>3, <2>4, AppendProperties, LenProperties
    <2>6. \A i \in 1..Len(results') : Genuine(results'[i])
      BY <2>3, <2>5 DEF UartInv
    <2>7. SeqType'
      BY <1>9, <2>1, <2>5, EmptySeq DEF UartInv, UartType, SeqType
    <2>8. ClientType'
      BY <1>1, <1>4, <1>9 DEF UartInv, UartType, ClientType
    <2>9. Opening'
      BY <1>1, <1>9, <1>a DEF Opening, boardVars
    <2>10. job' < Len(Vectors) => LoadedUpTo(Vector, step)'
      <3> SUFFICES ASSUME job' < Len(Vectors) PROVE LoadedUpTo(Vector, step)'
        OBVIOUS
      <3>1. job' + 1 \in 1..Len(Vectors)
        BY <1>4, <1>9 DEF UartAssumption
      <3>2. \A n \in 1..Len(Vectors) : LoadedUpTo(Vectors[n], 1)'
        BY FirstPacket DEF UartAssumption
      <3> QED BY <1>9, <3>1, <3>2 DEF LoadedUpTo, Vector
    <2>11. Sending'
      BY <1>9, <2>1, <2>10 DEF Sending
    <2>12. \A i \in 1..Len(results') : Genuine(results[i])'
      BY <2>6 DEF Genuine, Run, RightTag
    <2> QED BY <1>2, <1>9, <2>7, <2>8, <2>9, <2>11, <2>12 DEF UartInv, UartType
  <1> QED BY <1>3, <1>6, <1>7, <1>8, <1>9

LEMMA UartStep ==
  ASSUME UartAssumption, UartInv, [Next]_vars
  PROVE  UartInv'
  <1>1. CASE UNCHANGED vars
    <2> USE <1>1 DEF vars, boardVars, clientVars
    <2>1. UartType'
      BY DEF UartInv, UartType, BoardType, EngineRecord, SeqType, ClientType
    <2>2. Opening'
      BY DEF UartInv, Opening
    <2>3. pc' = "send" => Sending'
      BY DEF UartInv, Sending, Stale, LoadedUpTo, Vector
    <2>4. pc' = "receive" => Receiving'
      <3>1. Vector' = Vector /\ Packet' = Packet /\ Pending' = Pending
        BY DEF Vector, Packet, Pending
      <3> QED BY <3>1 DEF UartInv, Receiving, Stale, LoadedUpTo, GotOwn, PendingOwn
    <2> QED BY <2>1, <2>2, <2>3, <2>4 DEF UartInv
  <1>2. CASE Next
    BY <1>2, OpenStep, SettledStep, WriteZeroStep, FlushedStep, SendStep, ReceiveStep, TimeoutStep, FinishStep,
       TickStep, ArriveStep, KillMidPacketStep, LoseAnswerStep DEF Next, Session
  <1> QED BY <1>1, <1>2

LEMMA UartAlways ==
  ASSUME UartAssumption
  PROVE  Spec => []UartInv
  <1>1. Init => UartInv
    BY UartInit
  <1>2. UartInv /\ [Next]_vars => UartInv'
    BY UartStep
  <1> QED BY <1>1, <1>2, PTL DEF Spec

-----------------------------------------------------------------------------
(* resync_hardware and execute, for every list of vectors, every sleep     *)
(* that is at least the parser's timeout and any number of programs and    *)
(* faults: a session meets an idle parser and, after its resync, no old    *)
(* answer; a result of execute is that of its own vector, and a decryption *)
(* returns data under the right tag only.                                  *)
THEOREM ResultsAreOwn ==
  ASSUME UartAssumption
  PROVE  Spec => []OwnResult
  <1>1. ASSUME UartInv PROVE ResyncIdle
    BY <1>1 DEF UartInv, Opening, Sending, Stale, ResyncIdle
  <1>2. ASSUME UartInv PROVE OwnData
    <2> SUFFICES ASSUME NEW r \in Range(results) PROVE Genuine(r)
      BY DEF OwnData, Genuine, Run, RightTag
    <2>1. PICK i \in 1..Len(results) : r = results[i]
      BY <1>2 DEF UartInv, UartType, SeqType, Range
    <2> QED BY <1>2, <2>1 DEF UartInv
  <1>3. Spec => []UartInv
    BY UartAlways
  <1> QED BY <1>1, <1>2, <1>3, PTL DEF OwnResult

(* A session of uart_client.py whose resync worked ends in an error only   *)
(* by a fault of its own: whatever state an earlier program left the board *)
(* in, its first answer is the one that execute waits for, and so on.      *)
THEOREM FreshStartAlways ==
  ASSUME UartAssumption
  PROVE  Spec => FreshStart
  <1>1. ASSUME UartInv, [Next]_vars, pc = "receive", pc' = "dead", synced
        PROVE  faults' > before
    <2> SUFFICES ASSUME faults = before, faults' = faults PROVE FALSE
      <3>1. /\ before \in Nat /\ faults \in Nat /\ before <= faults
        BY <1>1 DEF UartInv, UartType, ClientType
      <3>2. before' = before /\ (faults' = faults \/ faults' = faults + 1)
        BY <1>1 DEF Next, Session, Open, Settled, WriteZero, Flushed, Send, Receive, Timeout, Finish, Tick, Arrive,
                    KillMidPacket, LoseAnswer, vars, boardVars, clientVars
      <3> QED BY <3>1, <3>2
    <2>1. /\ job < Len(Vectors) /\ GotOwn(Vector, Packet[1]) /\ PendingOwn(Vector, Packet[1])
      BY <1>1 DEF UartInv, Receiving, Stale
    <2>2. /\ Fits(Vector, Packet[1]) /\ Packet[1] \in Loads \union Starts
      BY <1>1, <2>1, Opcode
    <2>3. got \o Pending = OwnAnswers(Vector, Packet[1])
      BY <1>1, <2>1 DEF PendingOwn
    <2>4. got \in Seq(ReplyPackets) /\ Pending \in Seq(ReplyPackets)
      BY <1>1, ConcatProperties DEF UartInv, UartType, SeqType, Pending
    <2>5. Pending # <<>> /\ Takes(Packet[1], got, Pending[1][1])
      BY <2>1, <2>2, <2>3, <2>4, WholeTakes
    <2>6. Receive \/ Timeout
      BY <1>1 DEF Next, Session, Open, Settled, WriteZero, Flushed, Send, Finish, Tick, Arrive,
                  KillMidPacket, LoseAnswer, vars, boardVars, clientVars
    <2>7. CASE Timeout
      <3>1. rx = <<>> /\ flight = <<>>
        BY <1>1, <2>7 DEF Timeout, UartInv, UartType, ClientType
      <3>2. <<>> \in Seq(ReplyPackets) /\ <<>> \o <<>> = <<>>
        BY ConcatEmptySeq, EmptySeq
      <3> QED BY <2>5, <3>1, <3>2 DEF Pending
    <2>8. CASE Receive
      <3> DEFINE cmd == Packet[1] h == Head(rx)
      <3>1. rx # <<>> /\ (~Takes(cmd, got, h[1]) \/ (cmd \in Starts /\ Complete(cmd, h[1]) /\ Disagrees(Append(got, h))))
        BY <1>1, <2>8 DEF Receive
      <3>2. h = Pending[1] /\ TakenNext(Vector, cmd, h)
        BY <1>1, <2>5, <3>1, HeadNext
      <3>3. cmd \in Starts /\ Complete(cmd, h[1]) /\ Disagrees(Append(got, h))
        BY <2>5, <3>1, <3>2
      <3>4. /\ TagOf(Append(got, h)) = Run(Vector).tag
            /\ Vector.decrypt => Last(Append(got, h))[2] = RightTag(Vector)
        BY <2>2, <3>2, <3>3, Completed
      <3> QED BY <3>3, <3>4 DEF Disagrees, RightTag
    <2> QED BY <2>6, <2>7, <2>8
  <1>2. UartInv /\ [Next]_vars => [pc = "receive" /\ pc' = "dead" /\ synced => faults' > before]_vars
    BY <1>1
  <1>3. Spec => []UartInv
    BY UartAlways
  <1> QED BY <1>2, <1>3, PTL DEF Spec, FreshStart
-----------------------------------------------------------------------------

Empty == [packets |-> <<>>, rest |-> <<>>]
Ahead(packet, result) == [result EXCEPT !.packets = <<packet>> \o @]

(* What the decoder makes of the bytes from at on, given what it makes of  *)
(* those further on.                                                       *)
End(bytes, at) == at + 2 + bytes[at + 1]
Cut(bytes, at) == at = Len(bytes) \/ End(bytes, at) > Len(bytes) + 1
Decoded(bytes, d, at) ==
    IF at > Len(bytes) THEN Empty
    ELSE IF Idle(bytes[at]) THEN d[at + 1]
    ELSE IF Cut(bytes, at) THEN [packets |-> <<>>, rest |-> Rest(bytes, at)]
    ELSE Ahead(<<bytes[at], SubSeq(bytes, at + 2, End(bytes, at) - 1)>>, d[End(bytes, at)])
Decodes(bytes, k, d) == d = [at \in k..Len(bytes) + 1 |-> Decoded(bytes, d, at)]

LEMMA DecodesBefore ==
  ASSUME NEW bytes \in Seq(Nat), NEW k \in 1..Len(bytes), NEW d, Decodes(bytes, k + 1, d)
  PROVE  \E e : Decodes(bytes, k, e)
  <1> DEFINE n == Len(bytes) + 1
             e == [at \in k..n |-> IF at = k THEN Decoded(bytes, d, k) ELSE d[at]]
             f == [at \in k..n |-> Decoded(bytes, e, at)]
  <1>0. n \in Nat /\ k \in 1..n - 1 /\ k \in Nat
    OBVIOUS
  <1>1. \A at \in k + 1..n : d[at] = Decoded(bytes, d, at)
    BY DEF Decodes
  <1>2. \A at \in k + 1..n : e[at] = d[at]
    BY <1>0
  <1>3. ASSUME NEW at \in k..n PROVE Decoded(bytes, e, at) = Decoded(bytes, d, at)
    <2>1. CASE at > Len(bytes)
      BY <2>1 DEF Decoded
    <2>2. CASE ~(at > Len(bytes))
      <3>1. at + 1 \in k + 1..n
        BY <1>0, <2>2
      <3>2. CASE Idle(bytes[at])
        BY <1>2, <2>2, <3>1, <3>2 DEF Decoded
      <3>3. CASE ~Idle(bytes[at]) /\ Cut(bytes, at)
        BY <2>2, <3>3 DEF Decoded
      <3>4. CASE ~Idle(bytes[at]) /\ ~Cut(bytes, at)
        <4>1. End(bytes, at) \in k + 1..n
          <5>1. at + 1 \in 1..Len(bytes) /\ at \in Nat
            BY <1>0, <2>2, <3>4 DEF Cut
          <5>2. bytes[at + 1] \in Nat
            BY <5>1
          <5> QED BY <1>0, <3>4, <5>1, <5>2, SMTT(30) DEF Cut, End
        <4>2. e[End(bytes, at)] = d[End(bytes, at)]
          BY <1>2, <4>1
        <4> QED BY <2>2, <3>4, <4>2 DEF Decoded
      <3> QED BY <3>2, <3>3, <3>4
    <2> QED BY <2>1, <2>2
  <1>4. \A at \in k..n : e[at] = Decoded(bytes, d, at)
    <2> TAKE at \in k..n
    <2>1. CASE at = k
      BY <2>1
    <2>2. CASE at # k
      <3>1. at \in k + 1..n
        BY <1>0, <2>2
      <3> QED BY <1>1, <1>2, <3>1
    <2> QED BY <2>1, <2>2
  <1>5. e = f
    <2>1. DOMAIN e = DOMAIN f
      BY Zenon
    <2>2. \A at \in k..n : f[at] = Decoded(bytes, e, at)
      BY Zenon
    <2> HIDE DEF e, f
    <2>3. \A at \in k..n : e[at] = f[at]
      BY <1>3, <1>4, <2>2
    <2> QED BY <2>1, <2>3 DEF e, f
  <1>6. Decodes(bytes, k, e)
    BY <1>5, Zenon DEF Decodes
  <1> QED BY <1>6

LEMMA DecoderExists == ASSUME NEW bytes \in Seq(Nat) PROVE \E d : Decodes(bytes, 1, d)
  <1> DEFINE n == Len(bytes) + 1
             T == {j \in Nat : j < n /\ ~\E d : Decodes(bytes, n - j, d)}
  <1>0. n \in Nat /\ n >= 1 /\ n - 1 \in Nat
    OBVIOUS
  <1>1. \E d : Decodes(bytes, n, d)
    <2> DEFINE d == [at \in n..n |-> Empty]
    <2>1. d = [at \in n..Len(bytes) + 1 |-> Decoded(bytes, d, at)]
      <3>1. \A at \in n..n : Decoded(bytes, d, at) = Empty
        BY DEF Decoded
      <3> QED BY <3>1
    <2>2. Decodes(bytes, n, d)
      BY <2>1, Zenon DEF Decodes
    <2> QED BY <2>2
  <1>2. T = {}
    <2> SUFFICES ASSUME T # {} PROVE FALSE
      OBVIOUS
    <2>1. T \subseteq Nat
      OBVIOUS
    <2>2. PICK j \in T : \A y \in T : j <= y
      BY <2>1, NatMin
    <2>3. j \in Nat /\ j < n /\ ~\E d : Decodes(bytes, n - j, d)
      OBVIOUS
    <2>4. j # 0
      <3>1. n - 0 = n
        BY <1>0
      <3> QED BY <1>1, <2>3, <3>1
    <2>5. j - 1 \in Nat /\ j - 1 < n /\ j - 1 \notin T
      <3>1. j - 1 \in Nat /\ j - 1 < n /\ ~(j <= j - 1)
        BY <1>0, <2>3, <2>4
      <3>2. j - 1 \notin T
        BY <2>2, <3>1
      <3> QED BY <3>1, <3>2
    <2>6. PICK d : Decodes(bytes, n - (j - 1), d)
      BY <2>5
    <2>7. PICK k \in 1..Len(bytes) : k = n - j /\ n - (j - 1) = k + 1
      <3>1. n - j \in 1..Len(bytes) /\ n - (j - 1) = (n - j) + 1
        <4> HIDE DEF T
        <4> QED BY <2>3, <2>4
      <3> QED BY <3>1
    <2>8. \E e : Decodes(bytes, k, e)
      BY <2>6, <2>7, DecodesBefore
    <2> QED BY <2>3, <2>7, <2>8
  <1>3. n - 1 \notin T /\ n - 1 < n /\ n - (n - 1) = 1
    BY <1>0, <1>2
  <1> QED BY <1>0, <1>3

(* Feed reads what the decoder makes of the first byte.                    *)
LEMMA FeedIs ==
  ASSUME NEW bytes \in Seq(Nat)
  PROVE  \E d : Decodes(bytes, 1, d) /\ Feed(bytes) = d[1]
  <1> DEFINE d == CHOOSE d : Decodes(bytes, 1, d)
  <1>1. Decodes(bytes, 1, d)
    BY DecoderExists
  <1>2. Feed(bytes) = d[1]
    BY DEF Feed, Decodes, Decoded, Cut, End, Ahead, Empty
  <1> QED BY <1>1, <1>2

(* A part of the end of a sequence.                                        *)
LEMMA PartOfEnd ==
  ASSUME NEW S, NEW b \in Seq(S), NEW s \in 0..Len(b), NEW i \in Nat \ {0}, NEW j \in 0..Len(b) - s
  PROVE  /\ SubSeq(b, s + 1, Len(b)) \in Seq(S) /\ Len(SubSeq(b, s + 1, Len(b))) = Len(b) - s
         /\ \A x \in 1..Len(b) - s : SubSeq(b, s + 1, Len(b))[x] = b[x + s]
         /\ SubSeq(SubSeq(b, s + 1, Len(b)), i, j) = SubSeq(b, i + s, j + s)
  <1> DEFINE c == SubSeq(b, s + 1, Len(b))
  <1>1. c \in Seq(S) /\ Len(c) = Len(b) - s /\ \A x \in 1..Len(b) - s : c[x] = b[x + s]
    <2>1. s + 1 \in 1..Len(b) + 1
      OBVIOUS
    <2>2. \A x \in s + 1..Len(b) : b[x] \in S
      OBVIOUS
    <2>3. c = [x \in 1..Len(b) - s |-> b[x + s]]
      OBVIOUS
    <2> QED BY <2>1, <2>2, <2>3, SubSeqProperties
  <1>2. SubSeq(c, i, j) = SubSeq(b, i + s, j + s)
    <2> HIDE DEF c
    <2> DEFINE N == IF i <= j THEN j - i + 1 ELSE 0
    <2>1. SubSeq(c, i, j) = [x \in 1..N |-> c[i + x - 1]]
      OBVIOUS
    <2>2. SubSeq(b, i + s, j + s) = [x \in 1..N |-> b[i + s + x - 1]]
      OBVIOUS
    <2>3. \A x \in 1..N : c[i + x - 1] = b[i + s + x - 1]
      <3> TAKE x \in 1..N
      <3>1. i + x - 1 \in 1..Len(b) - s /\ (i + x - 1) + s = i + s + x - 1
        OBVIOUS
      <3> QED BY <1>1, <3>1
    <2> HIDE DEF N
    <2>4. [x \in 1..N |-> c[i + x - 1]] = [x \in 1..N |-> b[i + s + x - 1]]
      BY <2>3
    <2> QED BY <2>1, <2>2, <2>4
  <1> QED BY <1>1, <1>2

(* What the decoder makes of the end of the bytes it makes of them alone.  *)
LEMMA DecodesEnd ==
  ASSUME NEW b \in Seq(Nat), NEW s \in 0..Len(b), NEW d, NEW e, NEW c, c = SubSeq(b, s + 1, Len(b)),
         Decodes(b, 1, d), Decodes(c, 1, e)
  PROVE  e[1] = d[s + 1]
  <1> DEFINE m == Len(b) - s
             T == {j \in Nat : j <= m /\ e[m + 1 - j] # d[m + 1 - j + s]}
  <1>1. /\ m \in Nat /\ Len(b) \in Nat /\ s \in Nat /\ m + s = Len(b)
        /\ c \in Seq(Nat) /\ Len(c) = m /\ \A x \in 1..m : c[x] = b[x + s]
    <2>1. m \in Nat /\ Len(b) \in Nat /\ s \in Nat /\ m + s = Len(b)
      OBVIOUS
    <2>2. 1 \in Nat \ {0} /\ 0 \in 0..Len(b) - s
      BY <2>1
    <2> QED BY <2>1, <2>2, PartOfEnd, ZenonT(40)
  <1>2. /\ \A at \in 1..m + 1 : e[at] = Decoded(c, e, at)
        /\ \A at \in 1..Len(b) + 1 : d[at] = Decoded(b, d, at)
    BY <1>1 DEF Decodes
  <1> HIDE DEF m
  <1>3. ASSUME NEW at \in 1..m + 1, \A later \in at + 1..m + 1 : e[later] = d[later + s]
        PROVE  e[at] = d[at + s]
    <2>1. at \in Nat /\ at + s \in 1..Len(b) + 1 /\ (at > m <=> at + s > Len(b)) /\ (at = m <=> at + s = Len(b))
      BY <1>1
    <2>2. e[at] = Decoded(c, e, at) /\ d[at + s] = Decoded(b, d, at + s)
      BY <1>2, <2>1
    <2>3. CASE at > m
      BY <1>1, <2>1, <2>2, <2>3 DEF Decoded
    <2>4. CASE at <= m
      <3>1. c[at] = b[at + s] /\ ~(at > m) /\ ~(at + s > Len(b))
        BY <1>1, <2>1, <2>4
      <3>2. CASE Idle(c[at])
        <4>1. e[at + 1] = d[(at + 1) + s] /\ (at + 1) + s = (at + s) + 1
          BY <1>1, <1>3, <2>1, <2>4
        <4> QED BY <1>1, <2>2, <3>1, <3>2, <4>1 DEF Decoded
      <3>3. CASE ~Idle(c[at]) /\ at = m
        <4>1. Cut(c, at) /\ Cut(b, at + s)
          BY <1>1, <2>1, <3>3 DEF Cut
        <4>2. Rest(c, at) = Rest(b, at + s)
          <5>1. m \in 0..Len(b) - s /\ at \in Nat \ {0}
            BY <1>1, <2>1
          <5>2. SubSeq(c, at, m) = SubSeq(b, at + s, m + s)
            BY <1>1, <5>1, PartOfEnd
          <5> QED BY <1>1, <5>2 DEF Rest
        <4> QED BY <1>1, <2>2, <3>1, <3>3, <4>1, <4>2 DEF Decoded
      <3>4. CASE ~Idle(c[at]) /\ at # m
        <4>1. at + 1 \in 1..m /\ c[at + 1] = b[(at + 1) + s] /\ (at + 1) + s = (at + s) + 1 /\ c[at + 1] \in Nat
          BY <1>1, <2>1, <2>4, <3>4, SMTT(30)
        <4>2. End(c, at) \in Nat /\ End(b, at + s) = End(c, at) + s /\ End(c, at) >= at + 2
          <5>1. PICK v \in Nat : v = c[at + 1] /\ v = b[(at + s) + 1]
            BY <4>1
          <5>2. End(c, at) = at + 2 + v /\ End(b, at + s) = (at + s) + 2 + v
            BY <5>1 DEF End
          <5>3. at + 2 + v \in Nat /\ (at + s) + 2 + v = (at + 2 + v) + s /\ at + 2 + v >= at + 2
            BY <1>1, <2>1
          <5> QED BY <5>2, <5>3
        <4>3. Cut(c, at) <=> Cut(b, at + s)
          <5>1. PICK v \in Nat : v = End(c, at) /\ v + s = End(b, at + s)
            BY <4>2
          <5>2. (v > m + 1) <=> (v + s > Len(b) + 1)
            BY <1>1
          <5>3. at + s # Len(b)
            BY <2>1, <3>4
          <5> QED BY <1>1, <3>4, <5>1, <5>2, <5>3 DEF Cut
        <4>4. CASE Cut(c, at)
          <5>1. m \in 0..Len(b) - s /\ at \in Nat \ {0}
            BY <1>1, <2>1
          <5>2. SubSeq(c, at, m) = SubSeq(b, at + s, m + s)
            BY <1>1, <5>1, PartOfEnd
          <5>3. Rest(c, at) = Rest(b, at + s)
            BY <1>1, <5>2 DEF Rest
          <5> QED BY <1>1, <2>2, <3>1, <3>4, <4>3, <4>4, <5>3 DEF Decoded
        <4>5. CASE ~Cut(c, at)
          <5>1. PICK z \in 1..m + 1 : z = End(c, at) /\ z >= at + 2
            BY <1>1, <2>1, <4>2, <4>5 DEF Cut
          <5>2. z - 1 \in 0..Len(b) - s /\ at + 2 \in Nat \ {0} /\ z \in at + 1..m + 1 /\ End(b, at + s) = z + s
            <6>1. z - 1 \in 0..Len(b) - s
              BY <1>1, <5>1, SMTT(30)
            <6>2. at + 2 \in Nat \ {0} /\ z \in at + 1..m + 1
              BY <1>1, <2>1, <5>1, SMTT(30)
            <6> QED BY <4>2, <5>1, <6>1, <6>2
          <5>3. SubSeq(c, at + 2, z - 1) = SubSeq(b, (at + 2) + s, (z - 1) + s)
            <6>1. PICK i \in Nat \ {0}, j \in 0..Len(b) - s : i = at + 2 /\ j = z - 1
              BY <5>2
            <6>2. SubSeq(SubSeq(b, s + 1, Len(b)), i, j) = SubSeq(b, i + s, j + s)
              BY PartOfEnd
            <6> QED BY <6>1, <6>2
          <5>4. (at + 2) + s = (at + s) + 2 /\ (z - 1) + s = (z + s) - 1
            BY <1>1, <2>1, <5>1
          <5>5. e[z] = d[z + s]
            BY <1>3, <5>2
          <5>6. e[at] = Ahead(<<c[at], SubSeq(c, at + 2, z - 1)>>, e[z])
            BY <1>1, <2>2, <3>1, <3>4, <4>5, <5>1 DEF Decoded
          <5>7. d[at + s] = Ahead(<<b[at + s], SubSeq(b, (at + s) + 2, (z + s) - 1)>>, d[z + s])
            BY <2>2, <3>1, <3>4, <4>3, <4>5, <5>2 DEF Decoded
          <5> QED BY <3>1, <5>3, <5>4, <5>5, <5>6, <5>7
        <4> QED BY <4>4, <4>5
      <3> QED BY <3>2, <3>3, <3>4
    <2> QED BY <1>1, <2>1, <2>3, <2>4
  <1>4. T = {}
    <2> SUFFICES ASSUME T # {} PROVE FALSE
      OBVIOUS
    <2>1. T \subseteq Nat
      OBVIOUS
    <2>2. PICK j \in T : \A y \in T : j <= y
      BY <2>1, NatMin
    <2>3. j \in Nat /\ j <= m /\ e[m + 1 - j] # d[m + 1 - j + s]
      OBVIOUS
    <2>4. PICK at \in 1..m + 1 : at = m + 1 - j
      BY <1>1, <2>3
    <2>5. ASSUME NEW later \in at + 1..m + 1 PROVE e[later] = d[later + s]
      <3>1. PICK y \in Nat : y = m + 1 - later
        BY <1>1, <2>4
      <3>2. y <= m /\ ~(j <= y) /\ m + 1 - y = later
        BY <1>1, <2>3, <2>4, <3>1
      <3>3. y \notin T
        BY <2>2, <3>2
      <3> QED BY <3>2, <3>3
    <2> QED BY <1>3, <2>3, <2>4, <2>5
  <1>5. m \in Nat /\ m <= m /\ m + 1 - m = 1 /\ 1 + s = s + 1
    BY <1>1
  <1>6. ~(m \in Nat /\ m <= m /\ e[m + 1 - m] # d[m + 1 - m + s])
    BY <1>4
  <1> QED BY <1>5, <1>6

(* Nothing to decode.                                                      *)
LEMMA FeedNothing == Feed(<<>>) = Empty
  <1>1. <<>> \in Seq(Nat) /\ Len(<<>>) = 0
    OBVIOUS
  <1>2. PICK d : Decodes(<<>>, 1, d) /\ Feed(<<>>) = d[1]
    BY <1>1, FeedIs
  <1> QED BY <1>1, <1>2 DEF Decodes, Decoded

(* A packet that is not whole yet waits.                                   *)
Waits(b) == ~Idle(b[1]) /\ (Len(b) = 1 \/ b[2] + 2 > Len(b))
LEMMA FeedWaits ==
  ASSUME NEW b \in Seq(Nat), b # <<>>, Waits(b)
  PROVE  Feed(b) = [packets |-> <<>>, rest |-> b]
  <1>1. PICK d : Decodes(b, 1, d) /\ Feed(b) = d[1]
    BY FeedIs
  <1>2. Len(b) \in Nat /\ Len(b) >= 1
    OBVIOUS
  <1>3. d[1] = Decoded(b, d, 1)
    BY <1>1, <1>2 DEF Decodes
  <1>4. Cut(b, 1)
    <2>1. CASE Len(b) = 1
      BY <2>1 DEF Cut
    <2>2. CASE Len(b) # 1
      <3>1. b[2] \in Nat
        <4>1. 2 \in 1..Len(b)
          <5>1. PICK n \in Nat : n = Len(b)
            BY <1>2
          <5>2. 2 \in 1..n
            BY <1>2, <2>2, <5>1
          <5> QED BY <5>1, <5>2
        <4> QED BY <4>1
      <3> QED BY <1>2, <2>2, <3>1 DEF Cut, End, Waits
    <2> QED BY <2>1, <2>2
  <1>5. Rest(b, 1) = b
    BY <1>2 DEF Rest
  <1> QED BY <1>1, <1>2, <1>3, <1>4, <1>5 DEF Decoded, Waits

(* A zero where an opcode is due is idle.                                  *)
LEMMA FeedIdle ==
  ASSUME NEW b \in Seq(Nat), b # <<>>, Idle(b[1])
  PROVE  Feed(b) = Feed(Tail(b))
  <1>1. PICK d : Decodes(b, 1, d) /\ Feed(b) = d[1]
    BY FeedIs
  <1>2. Len(b) \in Nat /\ Len(b) >= 1 /\ 1 \in 0..Len(b)
    OBVIOUS
  <1>3. d[1] = Decoded(b, d, 1)
    BY <1>1, <1>2 DEF Decodes
  <1>4. d[1] = d[2]
    BY <1>2, <1>3 DEF Decoded
  <1>5. Tail(b) = SubSeq(b, 2, Len(b)) /\ Tail(b) \in Seq(Nat)
    BY <1>2
  <1>6. PICK e : Decodes(Tail(b), 1, e) /\ Feed(Tail(b)) = e[1]
    BY <1>5, FeedIs
  <1>7. PICK s \in 0..Len(b) : s = 1 /\ s + 1 = 2
    BY <1>2
  <1>8. e[1] = d[s + 1]
    <2>1. PICK c : c = Tail(b)
      OBVIOUS
    <2>2. c = SubSeq(b, s + 1, Len(b)) /\ Decodes(c, 1, e)
      BY <1>5, <1>6, <1>7, <2>1
    <2> QED BY <1>1, <2>2, DecodesEnd
  <1> QED BY <1>1, <1>4, <1>6, <1>7, <1>8

(* A packet, and what is behind it.                                        *)
Behind(b) == SubSeq(b, b[2] + 3, Len(b))
LEMMA FeedPacket ==
  ASSUME NEW b \in Seq(Nat), b # <<>>, ~Idle(b[1]), ~Waits(b)
  PROVE  /\ Len(b) >= 2 /\ b[2] \in Nat /\ b[2] + 2 <= Len(b) /\ Behind(b) \in Seq(Nat) /\ Len(Behind(b)) < Len(b)
         /\ Feed(b) = Ahead(<<b[1], SubSeq(b, 3, b[2] + 2)>>, Feed(Behind(b)))
  <1>1. PICK d : Decodes(b, 1, d) /\ Feed(b) = d[1]
    BY FeedIs
  <1>2. Len(b) \in Nat /\ Len(b) >= 2
    <2>1. Len(b) # 1
      BY DEF Waits
    <2>2. PICK n \in Nat : n = Len(b) /\ n >= 1
      OBVIOUS
    <2> QED BY <2>1, <2>2
  <1>3. PICK v \in Nat : v = b[2]
    BY <1>2
  <1>4. v + 2 <= Len(b)
    BY <1>2, <1>3 DEF Waits
  <1>5. d[1] = Decoded(b, d, 1)
    BY <1>1, <1>2, SMTT(30) DEF Decodes
  <1>6. End(b, 1) = v + 3 /\ (v + 3) - 1 = v + 2 /\ ~Cut(b, 1)
    BY <1>2, <1>3, <1>4, SMTT(30) DEF End, Cut
  <1>7. d[1] = Ahead(<<b[1], SubSeq(b, 3, v + 2)>>, d[v + 3])
    <2>1. ~(1 > Len(b)) /\ 1 + 2 = 3
      BY <1>2
    <2> QED BY <1>5, <1>6, <2>1 DEF Decoded
  <1>8. PICK s \in 0..Len(b) : s = v + 2 /\ s + 1 = v + 3
    BY <1>2, <1>4
  <1>9. 1 \in Nat \ {0} /\ 0 \in 0..Len(b) - s
    BY <1>2
  <1>10. Behind(b) = SubSeq(b, s + 1, Len(b)) /\ Behind(b) \in Seq(Nat) /\ Len(Behind(b)) = Len(b) - s
    <2>1. v + 3 = s + 1 /\ Behind(b) = SubSeq(b, v + 3, Len(b))
      BY <1>3, <1>8 DEF Behind
    <2>2. SubSeq(b, s + 1, Len(b)) \in Seq(Nat) /\ Len(SubSeq(b, s + 1, Len(b))) = Len(b) - s
      BY <1>9, PartOfEnd
    <2> QED BY <2>1, <2>2
  <1>11. PICK e : Decodes(Behind(b), 1, e) /\ Feed(Behind(b)) = e[1]
    BY <1>10, FeedIs
  <1>12. e[1] = d[s + 1]
    BY <1>1, <1>10, <1>11, DecodesEnd
  <1>13. Feed(b) = Ahead(<<b[1], SubSeq(b, 3, v + 2)>>, Feed(Behind(b)))
    BY <1>1, <1>7, <1>8, <1>11, <1>12
  <1>14. Len(b) - s < Len(b)
    BY <1>2, <1>8
  <1> QED BY <1>2, <1>3, <1>4, <1>10, <1>13, <1>14

-----------------------------------------------------------------------------
(* What the decoder gives are answers and bytes.                           *)
Results == [packets : Seq(SpiReply), rest : Seq(Nat)]

LEMMA AheadIs ==
  ASSUME NEW p \in SpiReply, NEW f \in Results
  PROVE  Ahead(p, f) \in Results /\ Ahead(p, f).packets = <<p>> \o f.packets /\ Ahead(p, f).rest = f.rest
  <1>1. <<p>> \o f.packets \in Seq(SpiReply)
    BY DEF Results
  <1> QED BY <1>1 DEF Ahead, Results

(* The packet at the beginning is an answer.                               *)
LEMMA FirstIs ==
  ASSUME NEW b \in Seq(Nat), b # <<>>, ~Idle(b[1]), b[2] \in Nat, b[2] + 2 <= Len(b)
  PROVE  <<b[1], SubSeq(b, 3, b[2] + 2)>> \in SpiReply
  <1>1. b[1] \in Nat \ {0}
    BY DEF Idle
  <1>2. SubSeq(b, 3, b[2] + 2) \in Seq(Nat)
    <2>1. PICK n \in Nat : n = b[2] + 2 /\ n <= Len(b)
      OBVIOUS
    <2>2. \A i \in 3..n : b[i] \in Nat
      BY <2>1
    <2>3. SubSeq(b, 3, n) \in Seq(Nat)
      BY <2>2, SubSeqProperties
    <2> QED BY <2>1, <2>3
  <1> QED BY <1>1, <1>2 DEF SpiReply

LEMMA FeedShape == ASSUME NEW b \in Seq(Nat) PROVE Feed(b) \in Results
  <1> DEFINE T == {n \in Nat : \E c \in Seq(Nat) : Len(c) = n /\ Feed(c) \notin Results}
  <1>1. T = {}
    <2> SUFFICES ASSUME T # {} PROVE FALSE
      OBVIOUS
    <2>1. T \subseteq Nat
      OBVIOUS
    <2>2. PICK n \in T : \A y \in T : n <= y
      BY <2>1, NatMin
    <2>3. PICK c \in Seq(Nat) : Len(c) = n /\ Feed(c) \notin Results
      OBVIOUS
    <2>4. ASSUME NEW s \in Seq(Nat), Len(s) < Len(c) PROVE Feed(s) \in Results
      <3>1. Len(s) \notin T
        BY <2>2, <2>3, <2>4
      <3> QED BY <3>1
    <2> HIDE DEF T
    <2>5. CASE c = <<>>
      <3>1. Empty \in Results
        BY DEF Empty, Results
      <3> QED BY <2>3, <2>5, <3>1, FeedNothing
    <2>6. CASE c # <<>> /\ Idle(c[1])
      <3>1. Tail(c) \in Seq(Nat) /\ Len(Tail(c)) < Len(c)
        BY <2>6
      <3> QED BY <2>3, <2>4, <2>6, <3>1, FeedIdle
    <2>7. CASE c # <<>> /\ Waits(c)
      <3>1. Feed(c) = [packets |-> <<>>, rest |-> c]
        BY <2>7, FeedWaits
      <3>2. <<>> \in Seq(SpiReply)
        OBVIOUS
      <3> QED BY <2>3, <3>1, <3>2 DEF Results
    <2>8. CASE c # <<>> /\ ~Idle(c[1]) /\ ~Waits(c)
      <3>1. /\ c[2] \in Nat /\ c[2] + 2 <= Len(c) /\ Behind(c) \in Seq(Nat) /\ Len(Behind(c)) < Len(c)
            /\ Feed(c) = Ahead(<<c[1], SubSeq(c, 3, c[2] + 2)>>, Feed(Behind(c)))
        BY <2>8, FeedPacket
      <3>2. Feed(Behind(c)) \in Results
        BY <2>4, <3>1
      <3>3. <<c[1], SubSeq(c, 3, c[2] + 2)>> \in SpiReply
        BY <2>8, <3>1, FirstIs
      <3> QED BY <2>3, <3>1, <3>2, <3>3, AheadIs
    <2> QED BY <2>5, <2>6, <2>7, <2>8
  <1>2. Len(b) \notin T
    BY <1>1
  <1> QED BY <1>2

LEMMA PartOfLeft ==
  ASSUME NEW S, NEW a \in Seq(S), NEW b \in Seq(S), NEW n \in 0..Len(a)
  PROVE  SubSeq(a \o b, 3, n) = SubSeq(a, 3, n)
  <1> DEFINE N == IF 3 <= n THEN n - 2 ELSE 0
  <1>1. SubSeq(a \o b, 3, n) = [x \in 1..N |-> (a \o b)[3 + x - 1]]
    OBVIOUS
  <1>2. SubSeq(a, 3, n) = [x \in 1..N |-> a[3 + x - 1]]
    OBVIOUS
  <1>3. \A x \in 1..N : (a \o b)[3 + x - 1] = a[3 + x - 1]
    <2> TAKE x \in 1..N
    <2>1. 3 + x - 1 \in 1..Len(a)
      OBVIOUS
    <2> QED BY <2>1
  <1> HIDE DEF N
  <1> QED BY <1>1, <1>2, <1>3

(* Bytes that come in two parts are decoded as if they came at once.       *)
Together(x, y) ==
  /\ Feed(x \o y).packets = Feed(x).packets \o Feed(Feed(x).rest \o y).packets
  /\ Feed(x \o y).rest = Feed(Feed(x).rest \o y).rest

LEMMA TogetherIdle ==
  ASSUME NEW x \in Seq(Nat), NEW y \in Seq(Nat), x # <<>>, Idle(x[1]), Together(Tail(x), y)
  PROVE  Together(x, y)
  <1>1. x \o y \in Seq(Nat) /\ x \o y # <<>> /\ (x \o y)[1] = x[1]
    OBVIOUS
  <1>2. Tail(x \o y) = Tail(x) \o y
    OBVIOUS
  <1>3. Feed(x \o y) = Feed(Tail(x) \o y) /\ Feed(x) = Feed(Tail(x))
    BY <1>1, <1>2, FeedIdle
  <1> QED BY <1>3 DEF Together

LEMMA TogetherWaits ==
  ASSUME NEW x \in Seq(Nat), NEW y \in Seq(Nat), x # <<>>, Waits(x)
  PROVE  Together(x, y)
  <1>1. Feed(x).packets = <<>> /\ Feed(x).rest = x
    BY FeedWaits
  <1>2. x \o y \in Seq(Nat)
    OBVIOUS
  <1>3. Feed(x \o y).packets \in Seq(SpiReply)
    BY <1>2, FeedShape DEF Results
  <1> HIDE DEF Waits
  <1>4. <<>> \o Feed(x \o y).packets = Feed(x \o y).packets
    BY <1>3
  <1> QED BY <1>1, <1>4 DEF Together

LEMMA TogetherPacket ==
  ASSUME NEW x \in Seq(Nat), NEW y \in Seq(Nat), x # <<>>, ~Idle(x[1]), ~Waits(x), Together(Behind(x), y)
  PROVE  Together(x, y)
  <1> DEFINE z == x \o y
             p == <<x[1], SubSeq(x, 3, x[2] + 2)>>
             f == Feed(Behind(x))
             g == Feed(Behind(x) \o y)
             h == Feed(f.rest \o y)
  <1>1. /\ Len(x) >= 2 /\ x[2] \in Nat /\ x[2] + 2 <= Len(x) /\ Behind(x) \in Seq(Nat)
        /\ Feed(x) = Ahead(p, f)
    BY FeedPacket
  <1>2. p \in SpiReply
    BY <1>1, FirstIs
  <1>3. z \in Seq(Nat) /\ z # <<>> /\ z[1] = x[1] /\ Len(z) = Len(x) + Len(y)
    OBVIOUS
  <1>4. z[2] = x[2]
    BY <1>1
  <1>5. ~Idle(z[1]) /\ ~Waits(z)
    <2>1. x[2] + 2 <= Len(z) /\ Len(z) # 1
      BY <1>1, <1>3, SMTT(30)
    <2> HIDE DEF z
    <2> QED BY <1>1, <1>3, <1>4, <2>1, SMTT(30) DEF Waits
  <1>6. Feed(z) = Ahead(<<z[1], SubSeq(z, 3, z[2] + 2)>>, Feed(Behind(z)))
    BY <1>3, <1>5, FeedPacket
  <1>7. SubSeq(z, 3, z[2] + 2) = SubSeq(x, 3, x[2] + 2)
    <2>1. PICK n \in Nat : n = x[2] + 2 /\ n <= Len(x)
      BY <1>1
    <2>2. SubSeq(z, 3, n) = SubSeq(x, 3, n)
      <3>1. n \in 0..Len(x)
        BY <2>1
      <3> QED BY <3>1, PartOfLeft, Zenon
    <2> QED BY <1>4, <2>1, <2>2
  <1>8. Behind(z) = Behind(x) \o y
    <2>1. PICK d \in Nat : d = x[2] + 2 /\ d <= Len(x) /\ d + 1 = x[2] + 3
      BY <1>1
    <2>2. SubSeq(x \o y, d + 1, Len(x) + Len(y)) = SubSeq(x, d + 1, Len(x)) \o y
      BY <2>1, SubSeqTail, ZenonT(40)
    <2> QED BY <1>3, <1>4, <2>1, <2>2 DEF Behind
  <1>9. Feed(z) = Ahead(p, g)
    BY <1>3, <1>6, <1>7, <1>8
  <1>10. f \in Results /\ Behind(x) \o y \in Seq(Nat)
    BY <1>1, FeedShape
  <1>11. g \in Results /\ f.rest \o y \in Seq(Nat)
    <2>1. g \in Results
      BY <1>10, FeedShape
    <2>2. f.rest \in Seq(Nat)
      BY <1>10 DEF Results
    <2> HIDE DEF f
    <2>3. f.rest \o y \in Seq(Nat)
      BY <2>2
    <2> QED BY <2>1, <2>3
  <1>12. h \in Results
    BY <1>11, FeedShape
  <1>13. g.packets = f.packets \o h.packets /\ g.rest = h.rest
    BY DEF Together
  <1> HIDE DEF p, f, g, h, z
  <1>14. Feed(z).packets = <<p>> \o g.packets /\ Feed(z).rest = g.rest
    BY <1>2, <1>9, <1>11, AheadIs
  <1>15. Feed(x).packets = <<p>> \o f.packets /\ Feed(x).rest = f.rest
    BY <1>1, <1>2, <1>10, AheadIs
  <1>16. <<p>> \o (f.packets \o h.packets) = (<<p>> \o f.packets) \o h.packets
    <2>1. PICK a \in Seq(SpiReply), b \in Seq(SpiReply), c \in Seq(SpiReply) : a = <<p>> /\ b = f.packets /\ c = h.packets
      <3>1. <<p>> \in Seq(SpiReply)
        BY <1>2
      <3>2. f.packets \in Seq(SpiReply) /\ h.packets \in Seq(SpiReply)
        BY <1>10, <1>12 DEF Results
      <3> QED BY <3>1, <3>2
    <2>2. (a \o b) \o c = a \o (b \o c)
      BY SMTT(30)
    <2> QED BY <2>1, <2>2
  <1>17. Feed(z).packets = Feed(x).packets \o h.packets /\ Feed(z).rest = h.rest
    BY <1>13, <1>14, <1>15, <1>16
  <1>18. h = Feed(Feed(x).rest \o y)
    BY <1>15 DEF h
  <1> QED BY <1>17, <1>18 DEF Together, z

LEMMA FeedTogether == ASSUME NEW x \in Seq(Nat), NEW y \in Seq(Nat) PROVE Together(x, y)
  <1> DEFINE T == {n \in Nat : \E c \in Seq(Nat) : Len(c) = n /\ ~Together(c, y)}
  <1>1. T = {}
    <2> SUFFICES ASSUME T # {} PROVE FALSE
      OBVIOUS
    <2>1. T \subseteq Nat
      OBVIOUS
    <2>2. PICK n \in T : \A k \in T : n <= k
      BY <2>1, NatMin
    <2>3. PICK c \in Seq(Nat) : Len(c) = n /\ ~Together(c, y)
      OBVIOUS
    <2>4. ASSUME NEW s \in Seq(Nat), Len(s) < Len(c) PROVE Together(s, y)
      <3>1. Len(s) \notin T
        BY <2>2, <2>3, <2>4
      <3> QED BY <3>1
    <2> HIDE DEF T
    <2>5. CASE c = <<>>
      <3>1. <<>> \o y = y /\ Feed(y).packets \in Seq(SpiReply)
        BY FeedShape DEF Results
      <3>2. <<>> \o Feed(y).packets = Feed(y).packets
        BY <3>1
      <3>3. Feed(c).packets = <<>> /\ Feed(c).rest = <<>>
        BY <2>5, FeedNothing DEF Empty
      <3>4. c \o y = y
        BY <2>5, <3>1
      <3> QED BY <2>3, <3>1, <3>2, <3>3, <3>4 DEF Together
    <2>6. CASE c # <<>> /\ Idle(c[1])
      <3>1. Tail(c) \in Seq(Nat) /\ Len(Tail(c)) < Len(c)
        BY <2>6
      <3> QED BY <2>3, <2>4, <2>6, <3>1, TogetherIdle
    <2>7. CASE c # <<>> /\ Waits(c)
      BY <2>3, <2>7, TogetherWaits
    <2>8. CASE c # <<>> /\ ~Idle(c[1]) /\ ~Waits(c)
      <3>1. Behind(c) \in Seq(Nat) /\ Len(Behind(c)) < Len(c)
        BY <2>8, FeedPacket
      <3> QED BY <2>3, <2>4, <2>8, <3>1, TogetherPacket
    <2> QED BY <2>5, <2>6, <2>7, <2>8
  <1>2. Len(x) \notin T
    BY <1>1
  <1> QED BY <1>2

(* A zero behind whole packets is idle, a packet behind them is decoded.   *)
LEMMA FeedZero ==
  ASSUME NEW x \in Seq(Nat), Feed(x).rest = <<>>
  PROVE  Feed(x \o <<0>>).packets = Feed(x).packets /\ Feed(x \o <<0>>).rest = <<>>
  <1> DEFINE z == <<0>>
  <1>1. z \in Seq(Nat) /\ z # <<>> /\ Idle(z[1]) /\ Tail(z) = <<>> /\ <<>> \o z = z
    BY DEF Idle
  <1> HIDE DEF z
  <1>2. Feed(z) = Feed(<<>>)
    BY <1>1, FeedIdle
  <1>3. Feed(z).packets = <<>> /\ Feed(z).rest = <<>>
    BY <1>2, FeedNothing DEF Empty
  <1>4. Feed(x).packets \in Seq(SpiReply)
    BY FeedShape DEF Results
  <1>5. Feed(x).packets \o <<>> = Feed(x).packets
    BY <1>4
  <1>6. Together(x, z)
    BY <1>1, FeedTogether
  <1> QED BY <1>1, <1>3, <1>5, <1>6 DEF Together, z

LEMMA PacketIs == ASSUME NEW p \in SpiReply PROVE Framed(p) \in Seq(Nat) /\ Feed(Framed(p)).packets = <<p>> /\ Feed(Framed(p)).rest = <<>>
  <1>1. PICK op \in Nat \ {0}, data \in Seq(Nat) : p = <<op, data>>
    BY DEF SpiReply
  <1> DEFINE b == <<op, Len(data)>> \o data
             v == Len(data)
  <1>2. Framed(p) = b
    BY <1>1 DEF Framed
  <1>3. /\ b \in Seq(Nat) /\ v \in Nat /\ Len(b) = v + 2 /\ b[1] = op /\ b[2] = v
        /\ \A k \in 1..v : b[k + 2] = data[k]
    <2>1. <<op, Len(data)>> \in Seq(Nat) /\ Len(<<op, Len(data)>>) = 2
      OBVIOUS
    <2> QED BY <2>1, TwoAhead
  <1> HIDE DEF b
  <1>4. b # <<>> /\ ~Idle(b[1]) /\ ~Waits(b)
    <2>1. Len(b) # 1 /\ ~(b[2] + 2 > Len(b))
      BY <1>3
    <2>2. ~Idle(b[1])
      BY <1>3 DEF Idle
    <2> QED BY <1>3, <2>1, <2>2 DEF Waits
  <1>5. Feed(b) = Ahead(<<b[1], SubSeq(b, 3, v + 2)>>, Feed(Behind(b)))
    BY <1>3, <1>4, FeedPacket
  <1>6. Behind(b) = <<>>
    <2>1. SubSeq(b, v + 3, v + 2) = <<>>
      BY <1>3
    <2> QED BY <1>3, <2>1 DEF Behind
  <1>7. SubSeq(b, 3, v + 2) = data
    <2> DEFINE s == SubSeq(b, 3, v + 2)
    <2>1. s = [x \in 1..v |-> b[3 + x - 1]]
      BY <1>3
    <2>2. \A x \in 1..v : 3 + x - 1 = x + 2
      BY <1>3
    <2>3. data = [x \in 1..v |-> data[x]]
      OBVIOUS
    <2> HIDE DEF v, s
    <2>4. [x \in 1..v |-> b[3 + x - 1]] = [x \in 1..v |-> data[x]]
      BY <1>3, <2>2
    <2> QED BY <2>1, <2>3, <2>4 DEF s
  <1>8. Feed(b) = Ahead(p, Empty)
    BY <1>1, <1>3, <1>5, <1>6, <1>7, FeedNothing
  <1>9. Empty \in Results /\ Empty.packets = <<>> /\ Empty.rest = <<>>
    BY DEF Empty, Results
  <1>10. Feed(b).packets = <<p>> \o <<>> /\ Feed(b).rest = <<>>
    BY <1>8, <1>9, AheadIs
  <1>11. <<p>> \o <<>> = <<p>>
    OBVIOUS
  <1> QED BY <1>2, <1>3, <1>10, <1>11

LEMMA FeedAnswer ==
  ASSUME NEW x \in Seq(Nat), NEW p \in SpiReply, Feed(x).rest = <<>>
  PROVE  Feed(x \o Framed(p)).packets = Feed(x).packets \o <<p>> /\ Feed(x \o Framed(p)).rest = <<>>
  <1> DEFINE y == Framed(p)
  <1>1. y \in Seq(Nat) /\ Feed(y).packets = <<p>> /\ Feed(y).rest = <<>>
    BY PacketIs
  <1> HIDE DEF y
  <1>2. <<>> \o y = y
    BY <1>1
  <1>3. Together(x, y)
    BY <1>1, FeedTogether
  <1> QED BY <1>1, <1>2, <1>3 DEF Together, y

-----------------------------------------------------------------------------
(* The exchange.                                                           *)
InFrame == IF exchange = "frame" THEN miso ELSE <<>>
OnWire == buffer \o InFrame \o fifo
Total == received \o packets \o Feed(OnWire).packets \o answers

SpiInv ==
    /\ expected \in Seq(SpiReply) /\ answers \in Seq(SpiReply) /\ received \in Seq(SpiReply) /\ packets \in Seq(SpiReply)
    /\ buffer \in Seq(Nat) /\ miso \in Seq(Nat)
    /\ exchange \in {"clear", "data", "frame", "wait", "done", "failed"}
    /\ exchange # "clear" => fifo \in Seq(Nat)
    /\ exchange \in {"clear", "data"} => received = <<>> /\ packets = <<>> /\ buffer = <<>> /\ answers = expected
    /\ exchange = "data" => fifo = <<>>
    /\ exchange = "frame" /\ held # "ok" => status # "ok"
    /\ exchange \in {"frame", "wait", "done"} =>
           /\ Feed(OnWire).rest = <<>>
           /\ Total = expected \/ (status # "ok" /\ Len(Total) < Len(expected))
    /\ status = "ok" => IsPrefix(received \o packets, expected)
    /\ exchange = "done" => Len(received) = Len(expected)

LEMMA PrefixOf ==
  ASSUME NEW S, NEW s \in Seq(S), NEW t \in Seq(S), NEW e, e = s \o t
  PROVE  IsPrefix(s, e)
  <1>1. e \in Seq(S) /\ Len(s) <= Len(e) /\ SubSeq(e, 1, Len(s)) = SubSeq(s, 1, Len(s))
    OBVIOUS
  <1>2. SubSeq(s, 1, Len(s)) = s
    OBVIOUS
  <1> QED BY <1>1, <1>2 DEF IsPrefix

LEMMA NothingIsPrefix == ASSUME NEW S, NEW e \in Seq(S) PROVE IsPrefix(<<>> \o <<>>, e)
  <1>1. <<>> \o <<>> = <<>> /\ Len(<<>>) = 0
    OBVIOUS
  <1>2. e = <<>> \o e /\ <<>> \in Seq(S)
    OBVIOUS
  <1>3. IsPrefix(<<>>, e)
    BY <1>2, PrefixOf
  <1> QED BY <1>1, <1>3

(* The parts of what was answered.                                         *)
LEMMA TotalIs ==
  ASSUME SpiInv, exchange \in {"frame", "wait", "done"}
  PROVE  /\ OnWire \in Seq(Nat) /\ InFrame \in Seq(Nat) /\ Feed(OnWire).packets \in Seq(SpiReply)
         /\ Total \in Seq(SpiReply)
         /\ Total = (received \o packets) \o (Feed(OnWire).packets \o answers)
  <1>1. InFrame \in Seq(Nat) /\ buffer \in Seq(Nat) /\ fifo \in Seq(Nat)
    BY DEF SpiInv, InFrame
  <1>2. OnWire \in Seq(Nat)
    BY <1>1 DEF OnWire
  <1>3. Feed(OnWire).packets \in Seq(SpiReply)
    BY <1>2, FeedShape DEF Results
  <1>4. PICK a \in Seq(SpiReply), b \in Seq(SpiReply), c \in Seq(SpiReply), d \in Seq(SpiReply) :
          a = received /\ b = packets /\ c = Feed(OnWire).packets /\ d = answers
    BY <1>3 DEF SpiInv
  <1>5. a \o b \in Seq(SpiReply) /\ ((a \o b) \o c) \o d = (a \o b) \o (c \o d)
    BY SMTT(30)
  <1>6. ((a \o b) \o c) \o d \in Seq(SpiReply)
    OBVIOUS
  <1> QED BY <1>1, <1>2, <1>3, <1>4, <1>5, <1>6 DEF Total

(* What was received and decoded begins what was expected.                 *)
LEMMA NothingLost ==
  ASSUME SpiInv, exchange \in {"frame", "wait", "done"}, status = "ok"
  PROVE  IsPrefix(received \o packets, expected)
  BY DEF SpiInv

LEMMA SpiInvInit == SpiInit => SpiInv
  <1> SUFFICES ASSUME SpiInit PROVE SpiInv
    OBVIOUS
  <1>1. expected \in Seq(SpiReply)
    BY SpiAssumption DEF SpiInit
  <1>2. <<>> \in Seq(SpiReply) /\ <<>> \in Seq(Nat)
    OBVIOUS
  <1>3. IsPrefix(received \o packets, expected)
    BY <1>1, NothingIsPrefix DEF SpiInit
  <1> QED BY <1>1, <1>2, <1>3 DEF SpiInit, SpiInv

Regrouped(a, b, c, d, e) ==
  /\ a \o b \o (c \o d) \o e = a \o (b \o c) \o d \o e
  /\ a \o b \o (c \o d) \o e = (a \o (b \o c)) \o (d \o e)

LEMMA Regroup ==
  ASSUME NEW S, NEW a \in Seq(S), NEW b \in Seq(S), NEW c \in Seq(S), NEW d \in Seq(S), NEW e \in Seq(S)
  PROVE  Regrouped(a, b, c, d, e) /\ a \o (b \o c) \in Seq(S) /\ d \o e \in Seq(S)
  <1>1. a \o b \o (c \o d) = a \o (b \o c) \o d
    <2>1. a \o b \o (c \o d) = (a \o b \o c) \o d
      BY SMTT(30)
    <2>2. a \o b \o c = a \o (b \o c)
      OBVIOUS
    <2> QED BY <2>1, <2>2
  <1>2. a \o (b \o c) \in Seq(S) /\ d \o e \in Seq(S)
    OBVIOUS
  <1>3. (a \o (b \o c)) \o d \o e = (a \o (b \o c)) \o (d \o e)
    <2>1. PICK f \in Seq(S) : f = a \o (b \o c)
      BY <1>2
    <2>2. f \o d \o e = f \o (d \o e)
      BY SMTT(30)
    <2> QED BY <2>1, <2>2
  <1> QED BY <1>1, <1>2, <1>3 DEF Regrouped

LEMMA SpiClear == SpiInv /\ ClearFrame => SpiInv'
  <1> SUFFICES ASSUME SpiInv, ClearFrame PROVE SpiInv'
    OBVIOUS
  <1>1. expected' \in Seq(SpiReply) /\ received' = <<>> /\ packets' = <<>>
    BY DEF SpiInv, ClearFrame
  <1>2. IsPrefix(received' \o packets', expected')
    BY <1>1, NothingIsPrefix
  <1>3. fifo' \in Seq(Nat)
    BY DEF ClearFrame
  <1> QED BY <1>2, <1>3 DEF SpiInv, ClearFrame

LEMMA SpiStart == SpiInv /\ StartFrame => SpiInv'
  <1> SUFFICES ASSUME SpiInv, StartFrame PROVE SpiInv'
    OBVIOUS
  <1>1. /\ exchange' = "frame" /\ miso' = <<>> /\ miso' \in Seq(Nat) /\ held' = status
        /\ UNCHANGED <<answers, fifo, status, buffer, packets, received, expected>>
    BY DEF StartFrame
  <1>2. Feed(OnWire').rest = <<>> /\ (Total' = expected' \/ (status' # "ok" /\ Len(Total') < Len(expected')))
    <2>1. InFrame' = <<>>
      BY <1>1 DEF InFrame
    <2>2. CASE exchange = "data"
      <3>1. received = <<>> /\ packets = <<>> /\ buffer = <<>> /\ fifo = <<>> /\ answers = expected /\ expected \in Seq(SpiReply)
        BY <2>2 DEF SpiInv
      <3>2. OnWire' = <<>>
        BY <1>1, <2>1, <3>1 DEF OnWire
      <3>3. Feed(OnWire').packets = <<>> /\ Feed(OnWire').rest = <<>>
        BY <3>2, FeedNothing DEF Empty
      <3>4. <<>> \o <<>> \o <<>> \o expected = expected
        BY <3>1
      <3> QED BY <1>1, <3>1, <3>3, <3>4 DEF Total
    <2>3. CASE exchange = "wait"
      <3>1. OnWire' = OnWire
        BY <1>1, <2>1, <2>3 DEF OnWire, InFrame
      <3>2. Total' = Total
        BY <1>1, <3>1 DEF Total
      <3> QED BY <1>1, <2>3, <3>1, <3>2 DEF SpiInv
    <2> QED BY <2>2, <2>3 DEF StartFrame
  <1> QED BY <1>1, <1>2 DEF SpiInv, StartFrame

LEMMA SpiQueue == SpiInv /\ Queue => SpiInv'
  <1> SUFFICES ASSUME SpiInv, Queue PROVE SpiInv'
    OBVIOUS
  <1>1. /\ exchange \in {"frame", "wait"} /\ answers # <<>> /\ fifo' = fifo \o Framed(Head(answers)) /\ answers' = Tail(answers)
        /\ UNCHANGED <<exchange, status, held, miso, buffer, packets, received, expected>>
    BY DEF Queue
  <1>2. /\ buffer \in Seq(Nat) /\ fifo \in Seq(Nat) /\ answers \in Seq(SpiReply) /\ received \in Seq(SpiReply) /\ packets \in Seq(SpiReply)
        /\ OnWire \in Seq(Nat) /\ InFrame \in Seq(Nat) /\ Feed(OnWire).packets \in Seq(SpiReply) /\ Feed(OnWire).rest = <<>>
    BY <1>1, TotalIs DEF SpiInv
  <1>3. PICK p \in SpiReply : p = Head(answers)
    BY <1>1, <1>2
  <1>4. Framed(p) \in Seq(Nat) /\ Tail(answers) \in Seq(SpiReply) /\ answers = <<p>> \o Tail(answers)
    BY <1>1, <1>2, <1>3, PacketIs
  <1>5. fifo' \in Seq(Nat)
    BY <1>1, <1>2, <1>3, <1>4
  <1>6. OnWire' = OnWire \o Framed(p)
    <2>1. PICK a \in Seq(Nat), b \in Seq(Nat), c \in Seq(Nat) : a = buffer \o InFrame /\ b = fifo /\ c = Framed(p)
      <3>1. buffer \o InFrame \in Seq(Nat)
        BY <1>2
      <3> QED BY <1>2, <1>4, <3>1
    <2>2. a \o (b \o c) = (a \o b) \o c
      BY SMTT(30)
    <2> QED BY <1>1, <1>3, <2>1, <2>2 DEF OnWire, InFrame
  <1>7. Feed(OnWire').packets = Feed(OnWire).packets \o <<p>> /\ Feed(OnWire').rest = <<>>
    BY <1>2, <1>6, FeedAnswer
  <1>8. Total' = Total
    <2>1. PICK a \in Seq(SpiReply), b \in Seq(SpiReply), c \in Seq(SpiReply), d \in Seq(SpiReply) :
            a = received \o packets /\ b = Feed(OnWire).packets /\ c = <<p>> /\ d = Tail(answers)
      <3>1. received \o packets \in Seq(SpiReply) /\ <<p>> \in Seq(SpiReply)
        BY <1>2
      <3> QED BY <1>2, <1>4, <3>1
    <2>2. a \o (b \o c) \o d = a \o b \o (c \o d)
      <3>1. a \o (b \o c) = a \o b \o c /\ a \o b \in Seq(SpiReply)
        OBVIOUS
      <3>2. (a \o b) \o c \o d = (a \o b) \o (c \o d)
        BY SMTT(30)
      <3> QED BY <3>1, <3>2
    <2> QED BY <1>1, <1>4, <1>7, <2>1, <2>2 DEF Total
  <1> QED BY <1>1, <1>4, <1>5, <1>7, <1>8 DEF SpiInv

LEMMA SpiOverflow == SpiInv /\ Overflow => SpiInv'
  <1> SUFFICES ASSUME SpiInv, Overflow PROVE SpiInv'
    OBVIOUS
  <1>1. /\ exchange \in {"frame", "wait"} /\ answers # <<>> /\ status = "ok" /\ status' = "overflow" /\ answers' \in {answers, Tail(answers)}
        /\ UNCHANGED <<exchange, fifo, held, miso, buffer, packets, received, expected>>
    BY DEF Overflow
  <1>2. OnWire' = OnWire
    BY <1>1 DEF OnWire, InFrame
  <1>3. Total = expected /\ Feed(OnWire).rest = <<>> /\ answers \in Seq(SpiReply)
    BY <1>1 DEF SpiInv
  <1>4. CASE answers' = answers
    <2>1. Total' = Total
      BY <1>1, <1>2, <1>4 DEF Total
    <2> QED BY <1>1, <1>2, <1>3, <1>4, <2>1 DEF SpiInv
  <1>5. CASE answers' = Tail(answers)
    <2>1. Tail(answers) \in Seq(SpiReply) /\ Len(Tail(answers)) < Len(answers)
      BY <1>1, <1>3
    <2>2. PICK a \in Seq(SpiReply) : a = received \o packets \o Feed(OnWire).packets
      <3>1. received \in Seq(SpiReply) /\ packets \in Seq(SpiReply) /\ Feed(OnWire).packets \in Seq(SpiReply)
        BY <1>1, TotalIs DEF SpiInv
      <3> HIDE DEF Feed
      <3>2. received \o packets \in Seq(SpiReply)
        BY <3>1
      <3>3. (received \o packets) \o Feed(OnWire).packets \in Seq(SpiReply)
        BY <3>1, <3>2
      <3> QED BY <3>3
    <2>3. Len(a \o Tail(answers)) < Len(a \o answers)
      BY <1>3, <2>1
    <2>4. Total = a \o answers /\ Total' = a \o Tail(answers)
      BY <1>1, <1>2, <1>5, <2>2 DEF Total
    <2> QED BY <1>1, <1>2, <1>3, <1>5, <2>1, <2>3, <2>4 DEF SpiInv
  <1> QED BY <1>1, <1>4, <1>5

LEMMA NothingBehind ==
  ASSUME NEW S, NEW a \in Seq(S), NEW b \in Seq(S), NEW h \in S
  PROVE  a \o b \o <<>> = a \o b /\ <<h>> \o <<>> = <<h>>
  <1>1. PICK c \in Seq(S) : c = a \o b
    <2>1. a \o b \in Seq(S)
      OBVIOUS
    <2> QED BY <2>1
  <1>2. c \o <<>> = c
    OBVIOUS
  <1> QED BY <1>1, <1>2

(* A byte that leaves the queue for the frame stays where it is.           *)
Moved(a, b, z, c) == a \o (b \o z) \o c = a \o b \o (z \o c)

LEMMA ByteMoves ==
  ASSUME NEW S, NEW a \in Seq(S), NEW b \in Seq(S), NEW z \in Seq(S), NEW c \in Seq(S)
  PROVE  Moved(a, b, z, c)
  <1>1. a \o (b \o z) = (a \o b) \o z /\ a \o b \in Seq(S)
    OBVIOUS
  <1>2. ((a \o b) \o z) \o c = (a \o b) \o (z \o c)
    OBVIOUS
  <1> QED BY <1>1, <1>2 DEF Moved

LEMMA SpiByte == SpiInv /\ ClockByte => SpiInv'
  <1> SUFFICES ASSUME SpiInv, ClockByte PROVE SpiInv'
    OBVIOUS
  <1>1. /\ exchange = "frame" /\ miso' = Append(miso, IF fifo = <<>> THEN 0 ELSE Head(fifo))
        /\ fifo' = IF fifo = <<>> THEN fifo ELSE Tail(fifo)
        /\ UNCHANGED <<exchange, answers, status, held, buffer, packets, received, expected>>
    BY DEF ClockByte
  <1>2. /\ buffer \in Seq(Nat) /\ fifo \in Seq(Nat) /\ miso \in Seq(Nat) /\ OnWire \in Seq(Nat) /\ Feed(OnWire).rest = <<>>
    BY <1>1, TotalIs DEF SpiInv
  <1>3. OnWire = buffer \o miso \o fifo /\ OnWire' = buffer \o miso' \o fifo'
    BY <1>1 DEF OnWire, InFrame
  <1>4. Feed(OnWire').packets = Feed(OnWire).packets /\ Feed(OnWire').rest = <<>> /\ miso' \in Seq(Nat) /\ fifo' \in Seq(Nat)
    <2>1. CASE fifo = <<>>
      <3>1. PICK z \in Seq(Nat), t \in Seq(Nat) : z = <<0>> /\ t = <<>>
        <4>1. <<0>> \in Seq(Nat) /\ <<>> \in Seq(Nat)
          OBVIOUS
        <4> QED BY <4>1
      <3>2. miso' = miso \o z /\ miso' \in Seq(Nat) /\ fifo' = t /\ buffer \o (miso \o z) \o t = buffer \o miso \o (z \o t)
        <4>1. miso' = Append(miso, 0) /\ Append(miso, 0) = miso \o <<0>>
          BY <1>1, <1>2, <2>1
        <4>2. miso \o z \in Seq(Nat)
          BY <1>2
        <4>3. fifo' = t
          BY <1>1, <2>1, <3>1
        <4>4. buffer \o (miso \o z) \o t = buffer \o miso \o (z \o t)
          <5>1. Moved(buffer, miso, z, t)
            BY <1>2, ByteMoves
          <5> QED BY <5>1 DEF Moved
        <4> QED BY <3>1, <4>1, <4>2, <4>3, <4>4
      <3>3. buffer \o miso \o <<>> = buffer \o miso /\ <<0>> \o <<>> = <<0>>
        <4>1. 0 \in Nat
          OBVIOUS
        <4> QED BY <1>2, <4>1, NothingBehind
      <3>4. OnWire' = OnWire \o <<0>>
        BY <1>3, <2>1, <3>1, <3>2, <3>3
      <3> QED BY <1>2, <3>1, <3>2, <3>4, FeedZero
    <2>2. CASE fifo # <<>>
      <3>1. PICK z \in Seq(Nat), t \in Seq(Nat) : z = <<Head(fifo)>> /\ t = Tail(fifo) /\ fifo = z \o t
        <4>1. <<Head(fifo)>> \in Seq(Nat) /\ Tail(fifo) \in Seq(Nat)
          <5>1. Head(fifo) \in Nat
            BY <1>2, <2>2
          <5> QED BY <1>2, <2>2, <5>1
        <4>2. fifo = <<Head(fifo)>> \o Tail(fifo)
          BY <1>2, <2>2
        <4> QED BY <4>1, <4>2
      <3>3. miso' = miso \o z /\ miso' \in Seq(Nat) /\ fifo' = t
        <4>1. Append(miso, Head(fifo)) = miso \o <<Head(fifo)>>
          <5>1. Head(fifo) \in Nat
            BY <1>2, <2>2
          <5> QED BY <1>2, <5>1
        <4>2. miso \o z \in Seq(Nat)
          BY <1>2
        <4> QED BY <1>1, <2>2, <3>1, <4>1, <4>2
      <3>4. buffer \o (miso \o z) \o t = buffer \o miso \o (z \o t)
        <4>1. Moved(buffer, miso, z, t)
          BY <1>2, ByteMoves
        <4> QED BY <4>1 DEF Moved
      <3>5. OnWire' = OnWire
        BY <1>3, <3>1, <3>3, <3>4
      <3> QED BY <1>2, <3>3, <3>5
    <2> QED BY <2>1, <2>2
  <1>5. Total' = Total
    BY <1>1, <1>4 DEF Total
  <1> QED BY <1>1, <1>4, <1>5 DEF SpiInv

(* A frame that ends gives the decoder its bytes: what is decoded at once  *)
(* is what was to be decoded.                                              *)
LEMMA SpiEnd == SpiInv /\ EndFrame => SpiInv'
  <1> SUFFICES ASSUME SpiInv, EndFrame PROVE SpiInv'
    OBVIOUS
  <1>1. exchange = "frame" /\ UNCHANGED <<answers, fifo, status, held, miso, received, expected>>
    BY DEF EndFrame
  <1>2. CASE ~StatusOk
    <2>1. exchange' = "failed" /\ buffer' = buffer /\ packets' = packets /\ status # "ok"
      BY <1>1, <1>2 DEF EndFrame, StatusOk, SpiInv
    <2> QED BY <1>1, <2>1 DEF SpiInv
  <1>3. CASE StatusOk
    <2>1. PICK x \in Seq(Nat) : x = buffer \o miso
      <3>1. buffer \o miso \in Seq(Nat)
        BY DEF SpiInv
      <3> QED BY <3>1
    <2>2. packets' = packets \o Feed(x).packets /\ buffer' = Feed(x).rest /\ exchange' = "wait"
      BY <1>3, <2>1 DEF EndFrame
    <2>3. Feed(x).packets \in Seq(SpiReply) /\ Feed(x).rest \in Seq(Nat)
      BY FeedShape DEF Results
    <2>4. fifo \in Seq(Nat) /\ answers \in Seq(SpiReply) /\ received \in Seq(SpiReply) /\ packets \in Seq(SpiReply)
      BY <1>1 DEF SpiInv
    <2>5. OnWire = x \o fifo
      BY <1>1, <2>1 DEF OnWire, InFrame
    <2>6. OnWire' = Feed(x).rest \o fifo /\ OnWire' \in Seq(Nat)
      <3>1. OnWire' = Feed(x).rest \o <<>> \o fifo
        BY <1>1, <2>2 DEF OnWire, InFrame
      <3>2. Feed(x).rest \o <<>> = Feed(x).rest /\ Feed(x).rest \o fifo \in Seq(Nat)
        BY <2>3, <2>4
      <3> QED BY <3>1, <3>2
    <2>7. Feed(OnWire).packets = Feed(x).packets \o Feed(OnWire').packets /\ Feed(OnWire).rest = Feed(OnWire').rest
      <3>1. Together(x, fifo)
        BY <2>4, FeedTogether
      <3> QED BY <2>5, <2>6, <3>1 DEF Together
    <2>8. Feed(OnWire').packets \in Seq(SpiReply)
      BY <2>6, FeedShape DEF Results
    <2> HIDE DEF Feed
    <2>9. /\ Regrouped(received, packets, Feed(x).packets, Feed(OnWire').packets, answers)
          /\ received \o (packets \o Feed(x).packets) \in Seq(SpiReply) /\ Feed(OnWire').packets \o answers \in Seq(SpiReply)
      BY <2>3, <2>4, <2>8, Regroup
    <2>10. Total' = Total /\ Total = (received' \o packets') \o (Feed(OnWire').packets \o answers)
      <3>1. Total = received \o packets \o (Feed(x).packets \o Feed(OnWire').packets) \o answers
        BY <2>7 DEF Total
      <3>2. Total' = received \o (packets \o Feed(x).packets) \o Feed(OnWire').packets \o answers
        BY <1>1, <2>2 DEF Total
      <3> QED BY <1>1, <2>2, <2>9, <3>1, <3>2 DEF Regrouped
    <2>11. status' = "ok" => IsPrefix(received' \o packets', expected')
      <3>1. SUFFICES ASSUME status = "ok" PROVE IsPrefix(received' \o packets', expected)
        BY <1>1
      <3>2. received' \o packets' \in Seq(SpiReply)
        BY <1>1, <2>2, <2>9
      <3>3. Total = expected
        BY <1>1, <3>1 DEF SpiInv
      <3> QED BY <2>9, <2>10, <3>2, <3>3, PrefixOf
    <2>12. Feed(OnWire').rest = <<>> /\ (Total' = expected' \/ (status' # "ok" /\ Len(Total') < Len(expected')))
      BY <1>1, <2>7, <2>10 DEF SpiInv
    <2>13. packets' \in Seq(SpiReply) /\ buffer' \in Seq(Nat)
      BY <2>2, <2>3, <2>4
    <2> QED BY <1>1, <2>2, <2>11, <2>12, <2>13 DEF SpiInv
  <1> QED BY <1>2, <1>3

(* A packet that is received was the first decoded.                        *)
LEMMA FirstMoves ==
  ASSUME NEW S, NEW a \in Seq(S), NEW b \in Seq(S), b # <<>>
  PROVE  /\ Append(a, Head(b)) \in Seq(S) /\ Tail(b) \in Seq(S)
         /\ Append(a, Head(b)) \o Tail(b) = a \o b
  <1>1. PICK z \in Seq(S) : z = <<Head(b)>>
    <2>1. <<Head(b)>> \in Seq(S)
      OBVIOUS
    <2> QED BY <2>1
  <1>2. b = z \o Tail(b) /\ Tail(b) \in Seq(S)
    BY <1>1
  <1>3. Append(a, Head(b)) = a \o z /\ a \o z \in Seq(S)
    BY <1>1
  <1>4. PICK t \in Seq(S) : t = Tail(b)
    BY <1>2
  <1>5. (a \o z) \o t = a \o (z \o t)
    OBVIOUS
  <1> QED BY <1>2, <1>3, <1>4, <1>5

LEMMA SpiReceive == SpiInv /\ ReceivePacket => SpiInv'
  <1> SUFFICES ASSUME SpiInv, ReceivePacket PROVE SpiInv'
    OBVIOUS
  <1>1. /\ exchange = "wait" /\ packets # <<>> /\ received' = Append(received, Head(packets)) /\ packets' = Tail(packets)
        /\ exchange' = (IF Len(received') = Len(expected) THEN "done" ELSE "wait")
        /\ UNCHANGED <<answers, fifo, status, held, miso, buffer, expected>>
    BY DEF ReceivePacket
  <1>2. received \in Seq(SpiReply) /\ packets \in Seq(SpiReply)
    BY DEF SpiInv
  <1>3. received' \in Seq(SpiReply) /\ packets' \in Seq(SpiReply) /\ received' \o packets' = received \o packets
    BY <1>1, <1>2, FirstMoves
  <1>4. exchange' \in {"wait", "done"} /\ (exchange' = "done" => Len(received') = Len(expected'))
    BY <1>1
  <1>5. OnWire' = OnWire
    BY <1>1, <1>4 DEF OnWire, InFrame
  <1>6. Total' = Total
    BY <1>1, <1>3, <1>5 DEF Total
  <1>7. Feed(OnWire').rest = <<>> /\ (Total' = expected' \/ (status' # "ok" /\ Len(Total') < Len(expected')))
    BY <1>1, <1>5, <1>6 DEF SpiInv
  <1>8. status' = "ok" => IsPrefix(received' \o packets', expected')
    BY <1>1, <1>3 DEF SpiInv
  <1>9. fifo' \in Seq(Nat) /\ answers' \in Seq(SpiReply) /\ expected' \in Seq(SpiReply) /\ buffer' \in Seq(Nat) /\ miso' \in Seq(Nat)
    BY <1>1 DEF SpiInv
  <1> QED BY <1>3, <1>4, <1>7, <1>8, <1>9 DEF SpiInv

LEMMA SpiGiveUp == SpiInv /\ GiveUp => SpiInv'
  <1> SUFFICES ASSUME SpiInv, GiveUp PROVE SpiInv'
    OBVIOUS
  <1>1. /\ exchange = "wait" /\ exchange' = "failed"
        /\ UNCHANGED <<answers, fifo, status, held, miso, buffer, packets, received, expected>>
    BY DEF GiveUp
  <1> QED BY <1>1 DEF SpiInv

LEMMA SpiStutter == SpiInv /\ UNCHANGED spiVars => SpiInv'
  <1> SUFFICES ASSUME SpiInv, UNCHANGED spiVars PROVE SpiInv'
    OBVIOUS
  <1>1. UNCHANGED <<exchange, answers, fifo, status, held, miso, buffer, packets, received, expected>>
    BY DEF spiVars
  <1>2. OnWire' = OnWire
    BY <1>1 DEF OnWire, InFrame
  <1>3. Total' = Total
    BY <1>1, <1>2 DEF Total
  <1> QED BY <1>1, <1>2, <1>3 DEF SpiInv

LEMMA SpiInvNext == SpiInv /\ [SpiNext]_spiVars => SpiInv'
  BY SpiClear, SpiStart, SpiQueue, SpiOverflow, SpiByte, SpiEnd, SpiReceive, SpiGiveUp, SpiStutter DEF SpiNext, Host

-----------------------------------------------------------------------------
(* A beginning as long as the whole is the whole.                          *)
LEMMA LengthOfBoth == ASSUME NEW S, NEW s \in Seq(S), NEW t \in Seq(S) PROVE Len(s \o t) = Len(s) + Len(t)
  OBVIOUS

Whole(s, t, u, e) ==
  /\ ~(Len((s \o t) \o u) < Len(e))
  /\ (s \o t) \o u = e => s = e

LEMMA WholeOf ==
  ASSUME NEW S, NEW s \in Seq(S), NEW t \in Seq(S), NEW u \in Seq(S), NEW e \in Seq(S), Len(s) = Len(e)
  PROVE  Whole(s, t, u, e)
  <1>1. PICK v \in Seq(S) : v = s \o t
    <2>1. s \o t \in Seq(S)
      OBVIOUS
    <2> QED BY <2>1
  <1>2. Len(v) = Len(s) + Len(t) /\ Len(v \o u) = Len(v) + Len(u) /\ Len(t) \in Nat /\ Len(u) \in Nat /\ Len(s) \in Nat
    <2>1. Len(v) = Len(s) + Len(t)
      <3>1. Len(s \o t) = Len(s) + Len(t)
        BY LengthOfBoth, Zenon
      <3> QED BY <1>1, <3>1
    <2>2. Len(v \o u) = Len(v) + Len(u)
      OBVIOUS
    <2>3. Len(t) \in Nat /\ Len(u) \in Nat /\ Len(s) \in Nat
      OBVIOUS
    <2> QED BY <2>1, <2>2, <2>3
  <1>3. ASSUME v \o u = e PROVE s = e
    <2>1. Len(t) = 0 /\ Len(u) = 0
      BY <1>2, <1>3
    <2>2. t = <<>> /\ u = <<>>
      BY <2>1
    <2>3. v = s
      BY <1>1, <2>2
    <2> QED BY <1>3, <2>2, <2>3
  <1>4. ~(Len(v \o u) < Len(e))
    BY <1>2
  <1> QED BY <1>1, <1>3, <1>4 DEF Whole

LEMMA SpiInvIsEnough == SpiInv => DecodesAnswers
  <1> SUFFICES ASSUME SpiInv PROVE DecodesAnswers
    OBVIOUS
  <1>1. exchange = "done" => received = expected
    <2> SUFFICES ASSUME exchange = "done" PROVE received = expected
      OBVIOUS
    <2>1. Total = (received \o packets) \o (Feed(OnWire).packets \o answers)
      BY TotalIs
    <2>2. /\ received \in Seq(SpiReply) /\ packets \in Seq(SpiReply) /\ expected \in Seq(SpiReply) /\ Len(received) = Len(expected)
          /\ Total = expected \/ Len(Total) < Len(expected)
      BY DEF SpiInv
    <2>3. Feed(OnWire).packets \o answers \in Seq(SpiReply)
      <3>1. Feed(OnWire).packets \in Seq(SpiReply) /\ answers \in Seq(SpiReply)
        BY TotalIs DEF SpiInv
      <3> HIDE DEF Feed
      <3> QED BY <3>1
    <2> DEFINE u == Feed(OnWire).packets \o answers
    <2> HIDE DEF u
    <2>4. u \in Seq(SpiReply) /\ Total = (received \o packets) \o u
      BY <2>1, <2>3 DEF u
    <2>5. Whole(received, packets, u, expected)
      BY <2>2, <2>4, WholeOf
    <2> QED BY <2>2, <2>4, <2>5 DEF Whole
  <1>2. DecodedIsExpected
    BY <1>1 DEF SpiInv, DecodedIsExpected
  <1>3. NothingMissing
    <2> SUFFICES ASSUME status = "ok", exchange \in {"frame", "wait", "done"}
                 PROVE  received \o packets \o Feed(OnWire).packets \o answers = expected /\ Feed(OnWire).rest = <<>>
      BY DEF NothingMissing, OnWire, InFrame
    <2> QED BY DEF SpiInv, Total
  <1> QED BY <1>2, <1>3 DEF DecodesAnswers

(* The host's packets are the IP's answers (spi_link.py, MisoDecoder.feed  *)
(* and read_replies): for every cut of the bytes into frames, every number *)
(* of idle zeros between packets and whatever an aborted run left queued,  *)
(* what is decoded is what was answered to this window, in order and byte  *)
(* for byte, unless a queue overflowed, and a window with a lost answer    *)
(* does not end as complete.                                               *)
THEOREM AnswersDecoded == SpiSpec => []DecodesAnswers
  <1>1. SpiInit => SpiInv
    BY SpiInvInit
  <1>2. SpiInv /\ [SpiNext]_spiVars => SpiInv'
    BY SpiInvNext
  <1>3. SpiInv => DecodesAnswers
    BY SpiInvIsEnough
  <1> QED BY <1>1, <1>2, <1>3, PTL DEF SpiSpec
=============================================================================
