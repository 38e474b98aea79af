------------------------------ MODULE FileProofs ------------------------------
(***************************************************************************)
(* The file modes, for every file, image, window and number of faults: the *)
(* stream of a file carries the whole file under IVs that differ           *)
(* (StreamCarriesData, IVsUnique of RawMode), and a transfer never has     *)
(* more messages under way than the window holds (InFlight of ImageMode).  *)
(* First what the streams are made of, for both modes; then what the link, *)
(* the IP and the host have of an exchange at any time; "raw" comes last.  *)
(***************************************************************************)
EXTENDS ImageMode, SequenceLemmas, FiniteSetTheorems

(* The step of SplitTx, packet by packet.                                  *)
SplitStep(acc, p) ==
    CASE p[1] = "LOAD_KEY" -> [acc EXCEPT !.key = p[2]]
      [] p[1] = "LOAD_IV" -> [acc EXCEPT !.iv = p[2]]
      [] p[1] = "LOAD_AAD" -> [acc EXCEPT !.aad = p[2]]
      [] p[1] = "LOAD_PLAINTEXT" -> [acc EXCEPT !.data = p[2]]
      [] p[1] = "LOAD_TAG_REF" -> [acc EXCEPT !.tag_ref = p[2]]
      [] p[1] \in Starts ->
            [acc EXCEPT !.messages = Append(@, [iv |-> acc.iv, aad |-> acc.aad,
                            data |-> acc.data, start |-> p[1], tag_ref |-> acc.tag_ref]),
                        !.aad = <<>>, !.tag_ref = <<>>]
Unsplit == [key |-> <<>>, iv |-> <<>>, aad |-> <<>>, data |-> <<>>, tag_ref |-> <<>>, messages |-> <<>>]

Splits(x, n, f) ==
  f = [s \in SUBSET (1..n) |-> IF s = {} THEN Unsplit ELSE SplitStep(f[s \ {Max(s)}], x[Max(s)])]

LEMMA LastIsMax == ASSUME NEW n \in Nat, NEW s \in SUBSET (1..n + 1), n + 1 \in s PROVE Max(s) = n + 1
  <1>1. \A y \in s : n + 1 >= y
    OBVIOUS
  <1>2. \A z \in s : (\A y \in s : z >= y) => z = n + 1
    OBVIOUS
  <1> QED BY <1>1, <1>2 DEF Max

LEMMA SplitNext ==
  ASSUME NEW x, NEW n \in Nat, NEW f, Splits(x, n, f)
  PROVE  \E g : Splits(x, n + 1, g)
  <1> DEFINE g == [s \in SUBSET (1..n + 1) |-> IF n + 1 \in s THEN SplitStep(f[s \ {n + 1}], x[n + 1]) ELSE f[s]]
  <1>1. \A s \in SUBSET (1..n) : g[s] = f[s]
    <2> TAKE s \in SUBSET (1..n)
    <2>1. s \in SUBSET (1..n + 1) /\ n + 1 \notin s
      OBVIOUS
    <2> QED BY <2>1
  <1>2. ASSUME NEW s \in SUBSET (1..n + 1)
        PROVE  g[s] = IF s = {} THEN Unsplit ELSE SplitStep(g[s \ {Max(s)}], x[Max(s)])
    <2>1. CASE n + 1 \in s
      <3>1. Max(s) = n + 1 /\ s \ {n + 1} \in SUBSET (1..n)
        BY <2>1, LastIsMax
      <3>2. g[s \ {n + 1}] = f[s \ {n + 1}]
        BY <1>1, <3>1
      <3> QED BY <2>1, <3>1, <3>2
    <2>2. CASE n + 1 \notin s
      <3>1. s \in SUBSET (1..n) /\ s \ {Max(s)} \in SUBSET (1..n)
        <4>1. \A y \in s : y \in 1..n + 1 /\ y # n + 1
          BY <2>2
        <4>2. \A y \in 1..n + 1 : y # n + 1 => y \in 1..n
          OBVIOUS
        <4>3. s \subseteq 1..n
          BY <4>1, <4>2
        <4> HIDE DEF g
        <4> QED BY <4>3
      <3>2. g[s] = f[s] /\ g[s \ {Max(s)}] = f[s \ {Max(s)}]
        BY <1>1, <3>1
      <3>3. f[s] = IF s = {} THEN Unsplit ELSE SplitStep(f[s \ {Max(s)}], x[Max(s)])
        BY <3>1 DEF Splits
      <3> QED BY <3>2, <3>3
    <2> QED BY <2>1, <2>2
  <1>3. g = [s \in SUBSET (1..n + 1) |-> g[s]]
    OBVIOUS
  <1> HIDE DEF g
  <1>4. Splits(x, n + 1, g)
    BY <1>2, <1>3 DEF Splits
  <1> QED BY <1>4

LEMMA SplitExists == ASSUME NEW x, NEW n \in Nat PROVE \E f : Splits(x, n, f)
  <1> DEFINE T == {m \in Nat : ~\E f : Splits(x, m, f)}
  <1>1. T = {}
    <2> SUFFICES ASSUME T # {} PROVE FALSE
      OBVIOUS
    <2>1. PICK m \in T : \A y \in T : m <= y
      <3>1. T \subseteq Nat
        OBVIOUS
      <3> QED BY <3>1, NatMin
    <2>2. CASE m = 0
      <3> DEFINE f == [s \in SUBSET (1..0) |-> Unsplit]
      <3>1. \A s \in SUBSET (1..0) : s = {}
        OBVIOUS
      <3>2. Splits(x, 0, f)
        BY <3>1 DEF Splits
      <3> QED BY <2>2, <3>2
    <2>3. CASE m # 0
      <3>1. m - 1 \in Nat /\ m - 1 \notin T /\ (m - 1) + 1 = m
        BY <2>1, <2>3
      <3>2. PICK f : Splits(x, m - 1, f)
        BY <3>1
      <3>3. \E g : Splits(x, (m - 1) + 1, g)
        BY <3>1, <3>2, SplitNext
      <3> QED BY <3>1, <3>3
    <2> QED BY <2>2, <2>3
  <1>2. n \notin T
    BY <1>1
  <1> QED BY <1>2

LEMMA SplitIs ==
  ASSUME NEW x, NEW n \in Nat, DOMAIN x = 1..n
  PROVE  \E f : Splits(x, n, f) /\ SplitTx(x) = f[1..n]
  <1> DEFINE f == CHOOSE f : Splits(x, n, f)
  <1>1. Splits(x, n, f)
    BY SplitExists
  <1>2. SplitTx(x) = f[1..n]
    BY Zenon DEF SplitTx, FoldLeft, MapThenFoldSet, Splits, SplitStep, Unsplit
  <1> QED BY <1>1, <1>2

LEMMA SplitFirst ==
  ASSUME NEW x, NEW n \in Nat, NEW f, Splits(x, n, f)
  PROVE  /\ f[1..0] = Unsplit
         /\ \A k \in 1..n : f[1..k] = SplitStep(f[1..k - 1], x[k])
  <1>1. 1..0 = {} /\ {} \in SUBSET (1..n)
    OBVIOUS
  <1>2. ASSUME NEW k \in 1..n PROVE f[1..k] = SplitStep(f[1..k - 1], x[k])
    <2>1. k - 1 \in Nat /\ (k - 1) + 1 = k /\ 1..k \in SUBSET (1..n) /\ 1..k \in SUBSET (1..(k - 1) + 1) /\ k \in 1..k
      OBVIOUS
    <2>2. Max(1..k) = k
      BY <2>1, LastIsMax
    <2>3. (1..k) \ {k} = 1..k - 1
      BY <2>1
    <2>4. 1..k # {}
      BY <2>1
    <2> QED BY <2>1, <2>2, <2>3, <2>4 DEF Splits
  <1> QED BY <1>1, <1>2 DEF Splits

LEMMA SplitAgrees ==
  ASSUME NEW x, NEW y, NEW m \in Nat, NEW n \in Nat, NEW f, NEW g, Splits(x, m, f), Splits(y, n, g), m <= n, Agree(x, y, m)
  PROVE  f[1..m] = g[1..m]
  <1> DEFINE T == {k \in Nat : k <= m /\ f[1..k] # g[1..k]}
  <1>1. T = {}
    <2> SUFFICES ASSUME T # {} PROVE FALSE
      OBVIOUS
    <2>1. PICK k \in T : \A j \in T : k <= j
      <3>1. T \subseteq Nat
        OBVIOUS
      <3> QED BY <3>1, NatMin
    <2>2. CASE k = 0
      BY <2>2, SplitFirst
    <2>3. CASE k # 0
      <3>1. k \in 1..m /\ k \in 1..n /\ k - 1 \in Nat /\ k - 1 <= m /\ k - 1 \notin T
        BY <2>1, <2>3
      <3>2. f[1..k - 1] = g[1..k - 1] /\ x[k] = y[k]
        BY <3>1 DEF Agree
      <3> QED BY <3>1, <3>2, SplitFirst
    <2> QED BY <2>2, <2>3
  <1> QED BY <1>1

LEMMA SplitNothing == SplitTx(<<>>) = Unsplit
  <1>1. DOMAIN <<>> = 1..0 /\ 0 \in Nat
    OBVIOUS
  <1>2. PICK f : Splits(<<>>, 0, f) /\ SplitTx(<<>>) = f[1..0]
    BY <1>1, SplitIs
  <1> QED BY <1>2, SplitFirst

LEMMA SplitOneMore ==
  ASSUME NEW S, NEW x \in Seq(S), NEW p \in S
  PROVE  SplitTx(Append(x, p)) = SplitStep(SplitTx(x), p)
  <1> DEFINE y == Append(x, p)
             n == Len(x)
  <1>1. n \in Nat /\ DOMAIN x = 1..n /\ DOMAIN y = 1..n + 1 /\ y[n + 1] = p /\ Agree(x, y, n)
    BY DEF Agree
  <1> HIDE DEF y, n
  <1>2. PICK f : Splits(x, n, f) /\ SplitTx(x) = f[1..n]
    BY <1>1, SplitIs
  <1>3. PICK g : Splits(y, n + 1, g) /\ SplitTx(y) = g[1..n + 1]
    BY <1>1, SplitIs
  <1>4. f[1..n] = g[1..n]
    BY <1>1, <1>2, <1>3, SplitAgrees
  <1>5. g[1..n + 1] = SplitStep(g[1..(n + 1) - 1], y[n + 1])
    BY <1>1, <1>3, SplitFirst
  <1>6. (n + 1) - 1 = n
    BY <1>1
  <1> QED BY <1>1, <1>2, <1>3, <1>4, <1>5, <1>6 DEF y
-----------------------------------------------------------------------------
(* A message of a stream, and the packets that carry it.                   *)
Section(nonce, aad, data) ==
    <<<<"LOAD_IV", nonce>>>> \o AadPacket(aad) \o <<<<"LOAD_PLAINTEXT", data>>, <<"START_ENCRYPT", <<>>>>>>
Message(nonce, aad, data) ==
    [iv |-> nonce, aad |-> aad, data |-> data, start |-> "START_ENCRYPT", tag_ref |-> <<>>]
SectionPackets(nonce, aad, data) ==
    {<<"LOAD_IV", nonce>>, <<"LOAD_AAD", aad>>, <<"LOAD_PLAINTEXT", data>>, <<"START_ENCRYPT", <<>>>>}

(* What the host has read of a stream.                                     *)
Read(key, nonce, aad, data, messages) ==
    [key |-> key, iv |-> nonce, aad |-> aad, data |-> data, tag_ref |-> <<>>, messages |-> messages]

LEMMA OneByOne ==
  ASSUME NEW S, NEW x \in Seq(S), NEW a \in S, NEW b \in S, NEW c \in S, NEW d \in S
  PROVE  /\ x \o <<a, b, c>> = Append(Append(Append(x, a), b), c)
         /\ x \o <<a, b, c, d>> = Append(Append(Append(Append(x, a), b), c), d)
  OBVIOUS

LEMMA FourIs ==
  ASSUME NEW S, NEW s \in Seq(S), Len(s) = 4
  PROVE  s = <<s[1], s[2], s[3], s[4]>>
  OBVIOUS
LEMMA AndNothing == ASSUME NEW a PROVE <<a>> \o <<>> = <<a>>
  <1>1. <<a>> \in Seq({a})
    OBVIOUS
  <1> QED BY <1>1
LEMMA Regroup == ASSUME NEW S, NEW s \in Seq(S), NEW t \in Seq(S), NEW u \in Seq(S) PROVE (s \o t) \o u = s \o (t \o u)
  OBVIOUS
LEMMA OneAndTwo == ASSUME NEW a, NEW b, NEW c PROVE <<a>> \o <<b, c>> = <<a, b, c>>
  <1>1. <<a>> \in Seq({a, b, c}) /\ <<b>> \in Seq({a, b, c}) /\ <<c>> \in Seq({a, b, c})
    OBVIOUS
  <1>2. (<<a>> \o <<b>>) \o <<c>> = <<a>> \o (<<b>> \o <<c>>)
    BY <1>1, Regroup
  <1> QED BY <1>2, OneAndOne, TwoAndOne
LEMMA TwoAndTwo == ASSUME NEW a, NEW b, NEW c, NEW d PROVE <<a, b>> \o <<c, d>> = <<a, b, c, d>>
  <1> DEFINE s == <<a, b>>
             t == <<c, d>>
             S == {a, b, c, d}
  <1>1. s \in Seq(S) /\ Len(s) = 2 /\ s[1] = a /\ s[2] = b /\ t \in Seq(S) /\ Len(t) = 2 /\ t[1] = c /\ t[2] = d
    OBVIOUS
  <1> HIDE DEF s, t, S
  <1>2. /\ s \o t \in Seq(S) /\ Len(s \o t) = 4 /\ (s \o t)[1] = a /\ (s \o t)[2] = b
        /\ (s \o t)[3] = c /\ (s \o t)[4] = d
    BY SMTT(30), <1>1, TwoAhead
  <1>3. s \o t = <<a, b, c, d>>
    BY <1>2, FourIs
  <1> QED BY <1>3 DEF s, t

LEMMA SectionIs ==
  ASSUME NEW nonce, NEW aad, NEW data
  PROVE  Section(nonce, aad, data) =
           IF aad = <<>> THEN <<<<"LOAD_IV", nonce>>, <<"LOAD_PLAINTEXT", data>>, <<"START_ENCRYPT", <<>>>>>>
           ELSE <<<<"LOAD_IV", nonce>>, <<"LOAD_AAD", aad>>, <<"LOAD_PLAINTEXT", data>>, <<"START_ENCRYPT", <<>>>>>>
  <1> DEFINE a == <<"LOAD_IV", nonce>>
             b == <<"LOAD_AAD", aad>>
             c == <<"LOAD_PLAINTEXT", data>>
             d == <<"START_ENCRYPT", <<>>>>
  <1>1. Section(nonce, aad, data) = (<<a>> \o (IF aad = <<>> THEN <<>> ELSE <<b>>)) \o <<c, d>>
    BY DEF Section, AadPacket
  <1> HIDE DEF a, b, c, d
  <1>2. Section(nonce, aad, data) = IF aad = <<>> THEN <<a, c, d>> ELSE <<a, b, c, d>>
    <2>1. CASE aad = <<>>
      BY <1>1, <2>1, AndNothing, OneAndTwo
    <2>2. CASE aad # <<>>
      <3>1. <<a>> \o <<b>> = <<a, b>> /\ <<a, b>> \o <<c, d>> = <<a, b, c, d>>
        BY OneAndOne, TwoAndTwo
      <3> QED BY <1>1, <2>2, <3>1
    <2> QED BY <2>1, <2>2
  <1> QED BY <1>2 DEF a, b, c, d

LEMMA SplitSection ==
  ASSUME NEW S, NEW x \in Seq(S), NEW nonce, NEW aad, NEW data, SectionPackets(nonce, aad, data) \subseteq S,
         NEW key, NEW i, NEW d, NEW ms, SplitTx(x) = Read(key, i, <<>>, d, ms)
  PROVE  /\ x \o Section(nonce, aad, data) \in Seq(S)
         /\ SplitTx(x \o Section(nonce, aad, data)) = Read(key, nonce, <<>>, data, Append(ms, Message(nonce, aad, data)))
  <1> DEFINE a == <<"LOAD_IV", nonce>>
             b == <<"LOAD_AAD", aad>>
             c == <<"LOAD_PLAINTEXT", data>>
             e == <<"START_ENCRYPT", <<>>>>
  <1>1. a \in S /\ b \in S /\ c \in S /\ e \in S
    BY DEF SectionPackets
  <1>2. Section(nonce, aad, data) = IF aad = <<>> THEN <<a, c, e>> ELSE <<a, b, c, e>>
    BY SectionIs
  <1>3. /\ \A u, f, g, m : SplitStep(Read(key, u, f, g, m), a) = Read(key, nonce, f, g, m)
        /\ \A u, f, g, m : SplitStep(Read(key, u, f, g, m), b) = Read(key, u, aad, g, m)
        /\ \A u, f, g, m : SplitStep(Read(key, u, f, g, m), c) = Read(key, u, f, data, m)
        /\ \A u, f, g, m : SplitStep(Read(key, u, f, g, m), e) = Read(key, u, <<>>, g, Append(m, Message(u, f, g)))
    <2>1. ASSUME NEW u, NEW f, NEW g, NEW m
          PROVE  SplitStep(Read(key, u, f, g, m), a) = Read(key, nonce, f, g, m)
      BY DEF SplitStep, Read, Starts, Message
    <2>2. ASSUME NEW u, NEW f, NEW g, NEW m
          PROVE  SplitStep(Read(key, u, f, g, m), b) = Read(key, u, aad, g, m)
      BY DEF SplitStep, Read, Starts, Message
    <2>3. ASSUME NEW u, NEW f, NEW g, NEW m
          PROVE  SplitStep(Read(key, u, f, g, m), c) = Read(key, u, f, data, m)
      BY DEF SplitStep, Read, Starts, Message
    <2>4. ASSUME NEW u, NEW f, NEW g, NEW m
          PROVE  SplitStep(Read(key, u, f, g, m), e) = Read(key, u, <<>>, g, Append(m, Message(u, f, g)))
      BY DEF SplitStep, Read, Starts, Message
    <2> QED BY <2>1, <2>2, <2>3, <2>4
  <1> HIDE DEF a, b, c, e
  <1>4. ASSUME NEW y \in Seq(S), NEW q \in S
        PROVE  Append(y, q) \in Seq(S) /\ SplitTx(Append(y, q)) = SplitStep(SplitTx(y), q)
    BY SplitOneMore
  <1> DEFINE xa == Append(x, a)
             xb == Append(xa, b)
  <1>5. xa \in Seq(S) /\ SplitTx(xa) = Read(key, nonce, <<>>, d, ms)
    BY <1>1, <1>3, <1>4
  <1>6. xb \in Seq(S) /\ SplitTx(xb) = Read(key, nonce, aad, d, ms)
    <2> HIDE DEF xa
    <2> QED BY <1>1, <1>3, <1>4, <1>5
  <1>7. ASSUME NEW y \in Seq(S), SplitTx(y) = Read(key, nonce, aad, d, ms)
        PROVE  /\ Append(Append(y, c), e) \in Seq(S)
               /\ SplitTx(Append(Append(y, c), e)) = Read(key, nonce, <<>>, data, Append(ms, Message(nonce, aad, data)))
    <2> DEFINE z == Append(y, c)
    <2>1. z \in Seq(S) /\ SplitTx(z) = Read(key, nonce, aad, data, ms)
      BY <1>1, <1>3, <1>4, <1>7
    <2> HIDE DEF z
    <2>2. Append(z, e) \in Seq(S) /\ SplitTx(Append(z, e)) = Read(key, nonce, <<>>, data, Append(ms, Message(nonce, aad, data)))
      BY <1>1, <1>3, <1>4, <2>1
    <2> QED BY <2>2 DEF z
  <1>8. CASE aad = <<>>
    <2>1. x \o Section(nonce, aad, data) = Append(Append(xa, c), e)
      BY <1>1, <1>2, <1>8, OneByOne
    <2> HIDE DEF xa
    <2> QED BY <1>5, <1>7, <1>8, <2>1
  <1>9. CASE aad # <<>>
    <2>1. x \o Section(nonce, aad, data) = Append(Append(xb, c), e)
      BY <1>1, <1>2, <1>9, OneByOne
    <2> HIDE DEF xa, xb
    <2> QED BY <1>6, <1>7, <2>1
  <1> QED BY <1>8, <1>9

(* A stream with a key and n messages.                                     *)
Stream(key, ivs, aads, datas, n) ==
    <<<<"LOAD_KEY", key>>>> \o FlattenSeq([i \in 1..n |-> Section(ivs[i], aads[i], datas[i])])
MessagesOf(ivs, aads, datas, n) == [i \in 1..n |-> Message(ivs[i], aads[i], datas[i])]
StreamPackets(key, ivs, aads, datas, n) ==
    {<<"LOAD_KEY", key>>} \union UNION {SectionPackets(ivs[i], aads[i], datas[i]) : i \in 1..n}

LEMMA SplitStream ==
  ASSUME NEW key, NEW ivs, NEW aads, NEW datas, NEW n \in Nat
  PROVE  SplitTx(Stream(key, ivs, aads, datas, n)).messages = MessagesOf(ivs, aads, datas, n)
  <1> DEFINE S == StreamPackets(key, ivs, aads, datas, n)
             Sec(i) == Section(ivs[i], aads[i], datas[i])
             Secs(m) == [i \in 1..m |-> Sec(i)]
             Msgs(m) == MessagesOf(ivs, aads, datas, m)
             X(m) == Stream(key, ivs, aads, datas, m)
             Claim(m) == FlattenSeq(Secs(m)) \in Seq(S) /\ X(m) \in Seq(S) /\ \E i, d : SplitTx(X(m)) = Read(key, i, <<>>, d, Msgs(m))
             T == {m \in Nat : m <= n /\ ~Claim(m)}
  <1>1. <<"LOAD_KEY", key>> \in S /\ \A i \in 1..n : SectionPackets(ivs[i], aads[i], datas[i]) \subseteq S
    BY DEF StreamPackets
  <1>2. \A i \in 1..n : Sec(i) \in Seq(S)
    <2> SUFFICES ASSUME NEW i \in 1..n PROVE Section(ivs[i], aads[i], datas[i]) \in Seq(S)
      OBVIOUS
    <2> DEFINE a == <<"LOAD_IV", ivs[i]>>
               b == <<"LOAD_AAD", aads[i]>>
               c == <<"LOAD_PLAINTEXT", datas[i]>>
               d == <<"START_ENCRYPT", <<>>>>
    <2>1. a \in S /\ b \in S /\ c \in S /\ d \in S
      BY <1>1 DEF SectionPackets
    <2>2. Section(ivs[i], aads[i], datas[i]) = IF aads[i] = <<>> THEN <<a, c, d>> ELSE <<a, b, c, d>>
      BY SectionIs
    <2> HIDE DEF a, b, c, d, S
    <2>3. <<a, c, d>> \in Seq(S) /\ <<a, b, c, d>> \in Seq(S)
      BY <2>1
    <2> QED BY <2>2, <2>3
  <1>3. \A m \in 0..n : Secs(m) \in Seq(Seq(S)) /\ Len(Secs(m)) = m
    <2> HIDE DEF S, Sec
    <2> QED BY <1>2
  <1>4. \A m \in 0..n - 1 : Secs(m + 1) = Append(Secs(m), Sec(m + 1))
    <2> SUFFICES ASSUME NEW m \in 0..n - 1 PROVE Secs(m + 1) = Append(Secs(m), Sec(m + 1))
      OBVIOUS
    <2>1. m \in 0..n /\ m + 1 \in 0..n /\ m + 1 \in 1..n
      OBVIOUS
    <2> HIDE DEF S, Sec
    <2> QED BY <1>2, <1>3, <2>1
  <1>5. \A m \in 0..n - 1 : Msgs(m + 1) = Append(Msgs(m), Message(ivs[m + 1], aads[m + 1], datas[m + 1]))
    <2> SUFFICES ASSUME NEW m \in 0..n - 1
                 PROVE  Msgs(m + 1) = Append(Msgs(m), Message(ivs[m + 1], aads[m + 1], datas[m + 1]))
      OBVIOUS
    <2> DEFINE M(i) == Message(ivs[i], aads[i], datas[i])
               R == {M(i) : i \in 1..n}
    <2>1. [i \in 1..m |-> M(i)] \in Seq(R) /\ M(m + 1) \in R
      OBVIOUS
    <2> HIDE DEF R
    <2>2. [i \in 1..m + 1 |-> M(i)] = Append([i \in 1..m |-> M(i)], M(m + 1))
      <3> HIDE DEF M
      <3> QED BY <2>1
    <2> QED BY <2>2 DEF MessagesOf
  <1>6. Claim(0)
    <2> DEFINE kp == <<"LOAD_KEY", key>>
    <2>1. Secs(0) = <<>>
      OBVIOUS
    <2>2. X(0) = <<kp>>
      <3>1. X(0) = <<kp>> \o FlattenSeq(Secs(0))
        BY DEF Stream
      <3>2. FlattenSeq(Secs(0)) = <<>>
        <4> HIDE DEF Secs
        <4> QED BY <2>1, FlattenEmpty
      <3> HIDE DEF X, Secs, kp
      <3> QED BY <3>1, <3>2, AndNothing
    <2>3. <<>> \in Seq(S) /\ <<kp>> = Append(<<>>, kp)
      OBVIOUS
    <2>4. SplitTx(<<kp>>) = SplitStep(Unsplit, kp)
      BY <1>1, <2>3, SplitOneMore, SplitNothing
    <2>5. SplitStep(Unsplit, kp) = Read(key, <<>>, <<>>, <<>>, <<>>)
      BY DEF SplitStep, Unsplit, Read, Starts
    <2>6. Msgs(0) = <<>>
      BY DEF MessagesOf
    <2>7. X(0) \in Seq(S)
      <3> HIDE DEF S, X, kp
      <3> QED BY <1>1, <2>2 DEF kp
    <2>8. FlattenSeq(Secs(0)) \in Seq(S)
      <3>1. FlattenSeq(Secs(0)) = <<>>
        <4> HIDE DEF Secs
        <4> QED BY <2>1, FlattenEmpty
      <3> HIDE DEF S, Secs
      <3> QED BY <3>1, <2>3
    <2> HIDE DEF X, S
    <2> QED BY <2>2, <2>4, <2>5, <2>6, <2>7, <2>8
  <1>7. ASSUME NEW m \in 0..n - 1, Claim(m) PROVE Claim(m + 1)
    <2>1. PICK i, d : SplitTx(X(m)) = Read(key, i, <<>>, d, Msgs(m))
      BY <1>7
    <2>2. m \in 0..n /\ m + 1 \in 1..n
      OBVIOUS
    <2>3. FlattenSeq(Secs(m + 1)) = FlattenSeq(Secs(m)) \o Sec(m + 1)
      <3>1. Secs(m) \in Seq(Seq(S)) /\ Sec(m + 1) \in Seq(S)
        BY <1>2, <1>3, <2>2
      <3>2. FlattenSeq(Append(Secs(m), Sec(m + 1))) = FlattenSeq(Secs(m)) \o Sec(m + 1)
        <4> HIDE DEF S, Sec, Secs
        <4> QED BY <3>1, FlattenAppend
      <3> HIDE DEF Secs, Sec, S
      <3> QED BY <1>4, <3>2
    <2>4. FlattenSeq(Secs(m)) \in Seq(S)
      BY <1>7
    <2>8. FlattenSeq(Secs(m + 1)) \in Seq(S)
      <3> DEFINE f == FlattenSeq(Secs(m))
                 g == Sec(m + 1)
      <3>1. f \in Seq(S) /\ g \in Seq(S)
        BY <1>2, <2>2, <2>4
      <3>2. f \o g \in Seq(S)
        <4> HIDE DEF f, g, S
        <4> QED BY <3>1
      <3> HIDE DEF S, Secs, Sec
      <3> QED BY <2>3, <3>2
    <2>5. X(m + 1) = X(m) \o Sec(m + 1)
      <3> DEFINE k == <<<<"LOAD_KEY", key>>>>
                 f == FlattenSeq(Secs(m))
      <3>1. k \in Seq(S) /\ f \in Seq(S) /\ Sec(m + 1) \in Seq(S)
        <4> HIDE DEF S, Sec, Secs
        <4> QED BY <1>1, <1>2, <2>2, <2>4
      <3>2. k \o (f \o Sec(m + 1)) = (k \o f) \o Sec(m + 1)
        <4> HIDE DEF k, f, Sec, S
        <4> QED BY <3>1
      <3>3. X(m) = k \o f /\ X(m + 1) = k \o FlattenSeq(Secs(m + 1))
        BY DEF Stream
      <3> HIDE DEF X, k, f, Sec, Secs, S
      <3> QED BY <2>3, <3>2, <3>3 DEF f
    <2>6. /\ X(m) \o Sec(m + 1) \in Seq(S)
          /\ SplitTx(X(m) \o Sec(m + 1))
               = Read(key, ivs[m + 1], <<>>, datas[m + 1], Append(Msgs(m), Message(ivs[m + 1], aads[m + 1], datas[m + 1])))
      <3>1. SectionPackets(ivs[m + 1], aads[m + 1], datas[m + 1]) \subseteq S /\ X(m) \in Seq(S)
        BY <1>1, <1>7, <2>2
      <3> HIDE DEF S, X, Msgs
      <3> QED BY <2>1, <3>1, SplitSection
    <2> HIDE DEF X, Msgs, Sec, S, Secs
    <2> QED BY <1>5, <2>5, <2>6, <2>8
  <1>8. T = {}
    <2> SUFFICES ASSUME T # {} PROVE FALSE
      OBVIOUS
    <2>1. T \subseteq Nat
      OBVIOUS
    <2>2. PICK m \in T : \A y \in T : m <= y
      BY <2>1, NatMin
    <2> HIDE DEF Claim
    <2>3. m # 0
      BY <1>6, <2>2
    <2>4. m - 1 \in 0..n - 1 /\ m - 1 \notin T /\ (m - 1) + 1 = m
      BY <2>2, <2>3
    <2> QED BY <1>7, <2>2, <2>4
  <1>9. n \notin T
    BY <1>8
  <1> HIDE DEF Msgs, X, S
  <1>10. PICK i, d : SplitTx(X(n)) = Read(key, i, <<>>, d, Msgs(n))
    BY <1>9
  <1> QED BY <1>10 DEF Read, X, Msgs
-----------------------------------------------------------------------------
(* How many messages a file of l bytes takes.                              *)
LEMMA CountIs ==
  ASSUME NEW l \in Nat \ {0}, NEW size \in Nat \ {0}, NEW c, c = (l + size - 1) \div size
  PROVE  /\ c \in Nat /\ c - 1 \in Nat /\ (c - 1) + 1 = c
         /\ (c - 1) * size \in Nat /\ (c - 1) * size < l /\ l <= (c - 1) * size + size
  <1> DEFINE n == l + size - 1
             r == n % size
             p == c * size
  <1>1. n \in Nat
    OBVIOUS
  <1>2. c \in Nat /\ r \in 0..size - 1 /\ p \in Nat /\ n = p + r
    <2> HIDE DEF n
    <2>1. c = n \div size
      BY DEF n
    <2> QED BY <1>1, <2>1, Division
  <1>3. c # 0
    <2>1. p # 0
      <3> HIDE DEF r, p
      <3> QED BY <1>2
    <2> QED BY <2>1
  <1>4. c - 1 \in Nat /\ (c - 1) + 1 = c
    BY <1>2, <1>3
  <1>5. (c - 1) * size \in Nat /\ p = (c - 1) * size + size
    <2> DEFINE d == c - 1
    <2>1. d \in Nat /\ c = d + 1
      BY <1>4
    <2> HIDE DEF d
    <2>2. d * size \in Nat /\ (d + 1) * size = d * size + size
      BY <2>1
    <2> QED BY <2>1, <2>2 DEF d
  <1> DEFINE e == (c - 1) * size
  <1> HIDE DEF r, p, e
  <1>6. e < l /\ l <= e + size
    <2>1. e \in Nat /\ p = e + size
      BY <1>5 DEF e
    <2> QED BY <1>2, <2>1
  <1> QED BY <1>4, <1>5, <1>6 DEF e

(* What the padding adds fills the last block.                             *)
LEMMA PadCount ==
  ASSUME NEW l \in Nat, NEW b \in Nat \ {0}
  PROVE  /\ (-l) % b \in 0..b - 1
         /\ \E q \in Nat : l + ((-l) % b) = q * b
  <1>1. (-l) % b \in 0..b - 1 /\ (-l) \div b \in Int /\ -l = ((-l) \div b) * b + ((-l) % b)
    OBVIOUS
  <1> DEFINE d == (-l) \div b
             r == (-l) % b
             q == -d
  <1>2. d \in Int /\ r \in 0..b - 1 /\ -l = d * b + r
    BY <1>1
  <1> HIDE DEF d, r
  <1>3. q \in Int /\ q * b = -(d * b)
    BY <1>2
  <1>4. l + r = q * b
    BY <1>2, <1>3
  <1>5. q >= 0
    <2> SUFFICES ASSUME q < 0 PROVE FALSE
      BY <1>3
    <2>1. q * b < 0
      BY <1>3
    <2> HIDE DEF q
    <2> QED BY <1>2, <1>4, <2>1
  <1> HIDE DEF q
  <1>6. q \in Nat
    BY <1>3, <1>5
  <1> QED BY <1>2, <1>4, <1>6 DEF r

LEMMA PadNone ==
  ASSUME NEW q \in Nat, NEW b \in Nat \ {0}
  PROVE  (-(q * b)) % b = 0
  <1> DEFINE l == q * b
             r == (-l) % b
  <1>1. l \in Nat
    OBVIOUS
  <1>2. r \in 0..b - 1 /\ \E k \in Nat : l + r = k * b
    <2> HIDE DEF l
    <2> QED BY <1>1, PadCount
  <1>3. PICK k \in Nat : l + r = k * b
    BY <1>2
  <1> HIDE DEF r
  <1>4. k >= q
    <2> SUFFICES ASSUME k < q PROVE FALSE
      OBVIOUS
    <2>1. k * b + b <= q * b
      <3>1. k + 1 <= q
        OBVIOUS
      <3>2. (k + 1) * b <= q * b /\ (k + 1) * b = k * b + b
        BY <3>1, Multiples
      <3> QED BY <3>2
    <2>2. k * b \in Nat
      OBVIOUS
    <2> DEFINE kb == k * b
    <2> HIDE DEF l, kb
    <2>3. l + r = kb /\ kb + b <= l /\ kb \in Nat
      BY <1>3, <2>1, <2>2 DEF l, kb
    <2> QED BY <1>1, <1>2, <2>3
  <1>5. k = q
    <2> SUFFICES ASSUME k > q PROVE FALSE
      BY <1>4
    <2>1. q * b + b <= k * b
      <3>1. q + 1 <= k
        OBVIOUS
      <3>2. (q + 1) * b <= k * b /\ (q + 1) * b = q * b + b
        BY <3>1, Multiples
      <3> QED BY <3>2
    <2> DEFINE kb == k * b
    <2>2. kb \in Nat
      OBVIOUS
    <2> HIDE DEF l, kb
    <2>3. l + r = kb /\ l + b <= kb
      BY <1>3, <2>1 DEF l, kb
    <2> QED BY <1>1, <1>2, <2>2, <2>3
  <1>6. r = 0
    <2>1. l + r = l
      BY <1>3, <1>5
    <2> HIDE DEF l
    <2> QED BY <1>1, <1>2, <2>1
  <1> QED BY <1>6 DEF r
-----------------------------------------------------------------------------
Sized == BlockBytes \in Nat \ {0} /\ MaxDataBlocks \in Nat

LEMMA PadIs ==
  ASSUME Sized, NEW S, {} \in S, NEW data \in Seq(S), NEW l \in Nat, l = Len(data)
  PROVE  LET e == (-l) % BlockBytes
         IN  /\ ZeroPad(data) \in Seq(S) /\ Len(ZeroPad(data)) = l + e
             /\ \A i \in 1..l : ZeroPad(data)[i] = data[i]
             /\ \A i \in l + 1..l + e : ZeroPad(data)[i] = {}
  <1> DEFINE e == (-l) % BlockBytes
             z == [i \in 1..e |-> {}]
  <1>1. e \in Nat
    BY PadCount DEF Sized
  <1>2. ZeroPad(data) = data \o z
    BY DEF ZeroPad
  <1>3. z \in Seq(S) /\ Len(z) = e /\ \A i \in 1..e : z[i] = {}
    <2> HIDE DEF e
    <2> QED BY <1>1
  <1> HIDE DEF e, z
  <1> DEFINE j == data \o z
  <1>4. j \in Seq(S) /\ Len(j) = l + e /\ \A i \in 1..l + e : j[i] = IF i <= l THEN data[i] ELSE z[i - l]
    BY <1>1, <1>3, Joined
  <1> HIDE DEF j
  <1>5. \A i \in 1..l : j[i] = data[i]
    BY <1>1, <1>4
  <1>6. \A i \in l + 1..l + e : j[i] = {}
    <2> TAKE i \in l + 1..l + e
    <2>1. i \in 1..l + e /\ ~(i <= l) /\ i - l \in 1..e
      BY <1>1
    <2> QED BY <1>3, <1>4, <2>1
  <1> QED BY <1>2, <1>4, <1>5, <1>6 DEF e, j

LEMMA PadWhole ==
  ASSUME Sized, NEW S, NEW data \in Seq(S), NEW q \in Nat, Len(data) = q * BlockBytes
  PROVE  ZeroPad(data) = data
  <1>1. (-Len(data)) % BlockBytes = 0
    BY PadNone DEF Sized
  <1>2. [i \in 1..0 |-> {}] = <<>>
    OBVIOUS
  <1>3. ZeroPad(data) = data \o <<>>
    BY <1>1, <1>2 DEF ZeroPad
  <1> QED BY <1>3
-----------------------------------------------------------------------------
(* p is the b elements of s after the first q.                             *)
IsPart(S, p, s, q, b) == p \in Seq(S) /\ Len(p) = b /\ \A j \in 1..b : p[j] = s[q + j]

LEMMA PartIs ==
  ASSUME NEW S, NEW s \in Seq(S), NEW q \in Nat, NEW b \in Nat, q + b <= Len(s)
  PROVE  IsPart(S, SubSeq(s, q + 1, q + b), s, q, b)
  BY PartOf DEF IsPart

(* j is a and then b, of m and n elements.                                 *)
IsJoin(S, j, a, b, m, n) ==
    j \in Seq(S) /\ Len(j) = m + n /\ \A i \in 1..m + n : j[i] = IF i <= m THEN a[i] ELSE b[i - m]

LEMMA JoinIs ==
  ASSUME NEW S, NEW a \in Seq(S), NEW b \in Seq(S)
  PROVE  IsJoin(S, a \o b, a, b, Len(a), Len(b))
  <1>1. Len(a) \in Nat /\ Len(b) \in Nat
    OBVIOUS
  <1> QED BY <1>1, Joined DEF IsJoin

(* How much of l bytes is left after q, at most size.                      *)
PartLen(q, size, l) == IF q + size < l THEN size ELSE l - q

LEMMA PartLenIs ==
  ASSUME NEW q \in Nat, NEW size \in Nat \ {0}, NEW l \in Nat, q < l
  PROVE  /\ PartLen(q, size, l) \in 1..size /\ PartLen(q, size, l) \in Nat /\ q + PartLen(q, size, l) <= l
         /\ q + PartLen(q, size, l) = IF q + size < l THEN q + size ELSE l
  BY DEF PartLen

(* All the data and padding, put together.                                 *)
Carries(carried, data, l, e) ==
    /\ Len(carried) = l + e
    /\ SubSeq(carried, 1, l) = data
    /\ \A i \in l + 1..l + e : carried[i] = {}

LEMMA CarriesEnd ==
  ASSUME NEW S, NEW data \in Seq(S), NEW l \in Nat, l = Len(data), NEW q \in Nat, q <= l, NEW e \in Nat,
         NEW f \in Seq(S), Len(f) = q, \A i \in 1..q : f[i] = data[i],
         NEW z \in Seq(S), Len(z) = (l - q) + e,
         \A i \in 1..l - q : z[i] = data[q + i], \A i \in (l - q) + 1..(l - q) + e : z[i] = {}
  PROVE  Carries(f \o z, data, l, e)
  <1> DEFINE m == l - q
             n == m + e
             j == f \o z
  <1>1. m \in Nat /\ n \in Nat /\ q + n = l + e /\ l = q + m
    OBVIOUS
  <1>2. Len(z) = n /\ (\A i \in 1..m : z[i] = data[q + i]) /\ \A i \in m + 1..n : z[i] = {}
    OBVIOUS
  <1> HIDE DEF m, n, j
  <1>3. j \in Seq(S) /\ Len(j) = q + n /\ \A i \in 1..q + n : j[i] = IF i <= q THEN f[i] ELSE z[i - q]
    <2>1. q \in Nat /\ n \in Nat /\ q = Len(f) /\ n = Len(z)
      BY <1>1, <1>2
    <2>2. IsJoin(S, f \o z, f, z, q, n)
      <3>1. IsJoin(S, f \o z, f, z, Len(f), Len(z))
        BY JoinIs
      <3> QED BY <2>1, <3>1
    <2> QED BY <2>2 DEF j, IsJoin
  <1>4. \A i \in 1..l : j[i] = data[i]
    <2> TAKE i \in 1..l
    <2>1. CASE i <= q
      BY <1>1, <1>3, <2>1
    <2>2. CASE i > q
      <3>1. i \in 1..q + n /\ ~(i <= q) /\ i - q \in 1..m /\ q + (i - q) = i
        BY <1>1, <2>2 DEF n
      <3> QED BY <1>2, <1>3, <3>1
    <2> QED BY <2>1, <2>2
  <1>5. \A i \in l + 1..l + e : j[i] = {}
    <2> TAKE i \in l + 1..l + e
    <2>1. i \in 1..q + n /\ ~(i <= q) /\ i - q \in m + 1..n
      BY <1>1 DEF n
    <2> QED BY <1>2, <1>3, <2>1
  <1>6. SubSeq(j, 1, l) = data
    <2>1. 0 + l <= Len(j) /\ 0 \in Nat /\ 0 + 1 = 1 /\ 0 + l = l
      BY <1>1, <1>3
    <2>2. /\ SubSeq(j, 1, l) \in Seq(S) /\ Len(SubSeq(j, 1, l)) = l
          /\ \A i \in 1..l : SubSeq(j, 1, l)[i] = j[0 + i]
      BY <1>3, <2>1, PartOf
    <2> DEFINE p == SubSeq(j, 1, l)
    <2>3. \A i \in 1..l : p[i] = data[i]
      <3> TAKE i \in 1..l
      <3>1. 0 + i = i
        OBVIOUS
      <3> QED BY <1>4, <2>2, <3>1
    <2>4. p \in Seq(S) /\ Len(p) = Len(data)
      BY <2>2
    <2> HIDE DEF p
    <2>5. p = data
      BY <2>3, <2>4, SeqEqual
    <2> QED BY <2>5 DEF p
  <1> QED BY <1>1, <1>3, <1>5, <1>6 DEF Carries, j

(* The pieces of a file: whole ones, and the last.                         *)
LEMMA PieceIs ==
  ASSUME NEW S, NEW data \in Seq(S), NEW blocks \in Nat, NEW size \in Nat \ {0}, size = blocks * BlockBytes,
         NEW l \in Nat, l = Len(data), NEW n \in Nat, n * size < l
  PROVE  IsPart(S, Piece(data, blocks, n + 1), data, n * size, PartLen(n * size, size, l))
  <1> DEFINE q == n * size
             m == PartLen(q, size, l)
  <1>1. q \in Nat /\ (n + 1) * size = q + size /\ (n + 1) - 1 = n
    <2>1. size \in Nat /\ n <= n
      OBVIOUS
    <2> QED BY <2>1, Multiples
  <1>2. Piece(data, blocks, n + 1)
          = SubSeq(data, ((n + 1) - 1) * size + 1, IF (n + 1) * size < l THEN (n + 1) * size ELSE l)
    BY DEF Piece
  <1>3. Piece(data, blocks, n + 1) = SubSeq(data, q + 1, IF q + size < l THEN q + size ELSE l)
    BY <1>1, <1>2
  <1>4. q < l
    OBVIOUS
  <1> HIDE DEF q, m
  <1>5. m \in Nat /\ q + m <= Len(data) /\ q + m = IF q + size < l THEN q + size ELSE l
    BY <1>1, <1>4, PartLenIs DEF m
  <1>6. IsPart(S, SubSeq(data, q + 1, q + m), data, q, m)
    BY <1>1, <1>5, PartIs
  <1> QED BY <1>3, <1>5, <1>6 DEF q, m
-----------------------------------------------------------------------------
(* The data of the messages of a stream.                                   *)
Pieces(data, blocks, n) == [i \in 1..n |-> ZeroPad(Piece(data, blocks, i))]

(* The first n of them are whole.                                          *)
AreWhole(S, s, data, size, n) ==
    /\ s \in InBlocksOf(S, size) /\ Len(s) = n
    /\ \A i \in 0..n - 1, j \in 1..size : s[i + 1][j] = data[i * size + j]

LEMMA WholePieces ==
  ASSUME Sized, NEW S, {} \in S, NEW data \in Seq(S), NEW blocks \in Nat,
         NEW size \in Nat \ {0}, size = blocks * BlockBytes, NEW l \in Nat, l = Len(data), NEW n \in Nat, n * size < l
  PROVE  AreWhole(S, Pieces(data, blocks, n), data, size, n)
  <1> DEFINE P(i) == ZeroPad(Piece(data, blocks, i))
  <1>1. ASSUME NEW i \in 0..n - 1
        PROVE  P(i + 1) \in Seq(S) /\ Len(P(i + 1)) = size /\ \A j \in 1..size : P(i + 1)[j] = data[i * size + j]
    <2> DEFINE q == i * size
               p == Piece(data, blocks, i + 1)
    <2>1. q \in Nat /\ q + size < l + 1 /\ q < l
      <3>1. i \in Nat /\ size \in Nat /\ i + 1 <= n /\ i <= i
        OBVIOUS
      <3>2. q \in Nat /\ (i + 1) * size = q + size
        BY <3>1, Multiples
      <3>3. (i + 1) * size <= n * size /\ n * size \in Nat
        BY <3>1, Multiples
      <3> DEFINE ns == n * size
      <3> HIDE DEF ns, q
      <3> QED BY <3>1, <3>2, <3>3 DEF ns
    <2>2. IsPart(S, p, data, q, PartLen(q, size, l))
      <3>1. i \in Nat /\ i * size < l
        BY <2>1
      <3> QED BY <3>1, PieceIs
    <2>3. PartLen(q, size, l) = size
      <3> HIDE DEF q
      <3> QED BY <2>1 DEF PartLen
    <2> HIDE DEF q, p
    <2>4. p \in Seq(S) /\ Len(p) = size /\ \A j \in 1..size : p[j] = data[q + j]
      BY <2>2, <2>3 DEF IsPart
    <2>5. P(i + 1) = p
      BY <2>4, PadWhole DEF p
    <2> QED BY <2>4, <2>5 DEF q
  <1> HIDE DEF P
  <1>2. \A i \in 1..n : P(i) \in Seq(S) /\ Len(P(i)) = size
    <2> TAKE i \in 1..n
    <2>1. i - 1 \in 0..n - 1 /\ (i - 1) + 1 = i
      OBVIOUS
    <2> QED BY <1>1, <2>1
  <1>3. [i \in 1..n |-> P(i)] \in Seq(Seq(S)) /\ Len([i \in 1..n |-> P(i)]) = n
    BY <1>2
  <1> DEFINE s == [i \in 1..n |-> P(i)]
  <1>4. s \in InBlocksOf(S, size)
    BY <1>2, <1>3 DEF InBlocksOf
  <1>5. \A i \in 0..n - 1 : s[i + 1] = P(i + 1)
    <2> TAKE i \in 0..n - 1
    <2>1. i + 1 \in 1..n
      OBVIOUS
    <2> QED BY <2>1
  <1>6. s = Pieces(data, blocks, n)
    BY DEF Pieces, P
  <1>7. Len(s) = n
    BY <1>3 DEF s
  <1> HIDE DEF s
  <1>8. AreWhole(S, s, data, size, n)
    <2>1. ASSUME NEW i \in 0..n - 1, NEW j \in 1..size PROVE s[i + 1][j] = data[i * size + j]
      BY <1>1, <1>5
    <2> QED BY <1>4, <1>7, <2>1 DEF AreWhole
  <1> QED BY <1>6, <1>8

LEMMA StreamCarries ==
  ASSUME Sized, NEW S, {} \in S, NEW data \in Seq(S), data # <<>>, NEW blocks \in Nat \ {0},
         NEW c, c = ChunkCount(Len(data), blocks)
  PROVE  \E e \in 0..BlockBytes - 1 : Carries(FlattenSeq(Pieces(data, blocks, c)), data, Len(data), e)
  <1> DEFINE size == blocks * BlockBytes
             l == Len(data)
             n == c - 1
             q == n * size
             s == Pieces(data, blocks, n)
             t == Piece(data, blocks, c)
             f == FlattenSeq(s)
             m == l - q
             e == (-m) % BlockBytes
             z == ZeroPad(t)
  <1>1. size \in Nat \ {0} /\ l \in Nat \ {0}
    BY DEF Sized
  <1>2. c = (l + size - 1) \div size
    BY DEF ChunkCount
  <1> HIDE DEF size, l
  <1>3. c \in Nat /\ n \in Nat /\ n + 1 = c /\ q \in Nat /\ q < l /\ l <= q + size
    BY <1>1, <1>2, CountIs
  <1> HIDE DEF n
  <1>4. AreWhole(S, s, data, size, n)
    <2>1. n * size < l /\ size = blocks * BlockBytes /\ l = Len(data) /\ blocks \in Nat
      BY <1>3 DEF size, l
    <2> HIDE DEF q, m, e, z, t, f
    <2> QED BY <1>1, <1>3, <2>1, WholePieces DEF s
  <1>5. f \in Seq(S) /\ Len(f) = q /\ \A i \in 0..n - 1, j \in 1..size : f[i * size + j] = s[i + 1][j]
    <2>1. Flattened(S, size, s, Len(s))
      BY <1>1, <1>4, FlattenBlocks DEF AreWhole
    <2> QED BY <1>4, <2>1 DEF Flattened, AreWhole
  <1> HIDE DEF f
  <1>6. \A k \in 1..q : f[k] = data[k]
    <2> TAKE k \in 1..q
    <2> DEFINE i == (k - 1) \div size
               r == (k - 1) % size
    <2>1. k - 1 \in Nat
      BY <1>3
    <2>2. i \in Nat /\ r \in 0..size - 1 /\ i * size \in Nat /\ k - 1 = i * size + r
      BY <1>1, <2>1, Division
    <2>3. i \in 0..n - 1
      <3>1. k - 1 < n * size
        BY <1>3
      <3> QED BY <1>1, <1>3, <2>1, <3>1, QuotientBelow
    <2> HIDE DEF i, r
    <2>4. r + 1 \in 1..size /\ i * size + (r + 1) = k
      BY <1>1, <1>3, <2>2
    <2>5. f[k] = s[i + 1][r + 1]
      BY <1>5, <2>3, <2>4
    <2>7. s[i + 1][r + 1] = data[i * size + (r + 1)]
      BY <1>4, <2>3, <2>4 DEF AreWhole
    <2> QED BY <2>4, <2>5, <2>7
  <1>7. m \in 1..size /\ t \in Seq(S) /\ Len(t) = m /\ \A j \in 1..m : t[j] = data[q + j]
    <2>1. n * size < l /\ size = blocks * BlockBytes /\ l = Len(data) /\ blocks \in Nat
      BY <1>3 DEF size, l
    <2>2. IsPart(S, Piece(data, blocks, n + 1), data, n * size, PartLen(n * size, size, l))
      <3> HIDE DEF q, m, e, z, t
      <3> QED BY <1>1, <1>3, <2>1, PieceIs
    <2>3. IsPart(S, t, data, q, PartLen(q, size, l))
      BY <1>3, <2>2
    <2> HIDE DEF q
    <2>4. PartLen(q, size, l) = m /\ m \in 1..size
      BY <1>1, <1>3 DEF PartLen
    <2> HIDE DEF t, m
    <2> QED BY <2>3, <2>4 DEF IsPart
  <1> HIDE DEF t, m
  <1>8. /\ z \in Seq(S) /\ Len(z) = m + e /\ e \in 0..BlockBytes - 1
        /\ \A i \in 1..m : z[i] = t[i]
        /\ \A i \in m + 1..m + e : z[i] = {}
    <2>1. m \in Nat /\ BlockBytes \in Nat \ {0}
      BY <1>7 DEF Sized
    <2>2. e \in 0..BlockBytes - 1
      BY <2>1, PadCount
    <2> QED BY <1>7, <2>1, <2>2, PadIs
  <1>9. FlattenSeq(Pieces(data, blocks, c)) = f \o z
    <2>1. s \in Seq(Seq(S)) /\ z \in Seq(S) /\ Len(s) = n
      BY <1>4, <1>8 DEF InBlocksOf, AreWhole
    <2>2. Pieces(data, blocks, c) = Append(s, z)
      <3> DEFINE P(i) == ZeroPad(Piece(data, blocks, i))
      <3>1. s = [i \in 1..n |-> P(i)] /\ P(n + 1) = z /\ Pieces(data, blocks, c) = [i \in 1..n + 1 |-> P(i)]
        BY <1>3 DEF s, Pieces, t
      <3> HIDE DEF P, z
      <3> QED BY <1>3, <1>4, <2>1, <3>1
    <2> HIDE DEF z
    <2> QED BY <2>1, <2>2, FlattenAppend DEF f
  <1> HIDE DEF e, z, q
  <1>10. Carries(f \o z, data, l, e)
    <2>1. e \in Nat /\ q <= l /\ l \in Nat
      BY <1>1, <1>3, <1>8 DEF Sized
    <2>2. Len(z) = (l - q) + e /\ (\A i \in 1..l - q : z[i] = data[q + i]) /\ \A i \in (l - q) + 1..(l - q) + e : z[i] = {}
      <3>1. m = l - q
        BY DEF m, q
      <3> QED BY <1>7, <1>8, <3>1
    <2> QED BY <1>3, <1>5, <1>6, <1>8, <2>1, <2>2, CarriesEnd DEF l
  <1> QED BY <1>8, <1>9, <1>10 DEF l
-----------------------------------------------------------------------------
(* Every message is of whole blocks, at most those the IP takes.           *)
Fits(data) == Len(data) <= MaxDataBytes /\ Len(data) % BlockBytes = 0

LEMMA PaddedFits ==
  ASSUME Sized, NEW S, {} \in S, NEW data \in Seq(S), NEW blocks \in 1..MaxDataBlocks, Len(data) <= blocks * BlockBytes
  PROVE  Fits(ZeroPad(data))
  <1> DEFINE l == Len(data)
             e == (-l) % BlockBytes
             size == blocks * BlockBytes
             z == ZeroPad(data)
  <1>1. l \in Nat /\ l <= size /\ BlockBytes \in Nat \ {0} /\ blocks \in Nat /\ blocks <= MaxDataBlocks /\ MaxDataBlocks \in Nat
    BY DEF Sized
  <1> HIDE DEF l
  <1>2. Len(z) = l + e
    BY <1>1, PadIs DEF l
  <1>3. e \in 0..BlockBytes - 1
    BY <1>1, PadCount
  <1>4. PICK k \in Nat : l + e = k * BlockBytes
    BY <1>1, PadCount
  <1>5. k <= blocks
    <2> SUFFICES ASSUME ~(k <= blocks) PROVE FALSE
      OBVIOUS
    <2>1. blocks + 1 <= k
      BY <1>1
    <2>2. (blocks + 1) * BlockBytes <= k * BlockBytes /\ (blocks + 1) * BlockBytes = size + BlockBytes
          /\ size \in Nat /\ k * BlockBytes \in Nat
      BY <1>1, <2>1, Multiples
    <2> DEFINE kb == k * BlockBytes
    <2>3. size + BlockBytes <= kb /\ l + e = kb /\ size \in Nat
      BY <1>4, <2>2
    <2> HIDE DEF kb, size, e
    <2> QED BY <1>1, <1>3, <2>3
  <1>6. k * BlockBytes <= MaxDataBlocks * BlockBytes
    BY <1>1, <1>5, Multiples
  <1>7. (k * BlockBytes) % BlockBytes = 0
    <2>1. 0 \in 0..BlockBytes - 1 /\ k * BlockBytes \in Nat /\ k * BlockBytes = k * BlockBytes + 0
      BY <1>1
    <2> QED BY <1>1, <2>1, Quotient
  <1>8. Len(z) = k * BlockBytes
    BY <1>2, <1>4
  <1> HIDE DEF z
  <1>9. Fits(z)
    <2> HIDE DEF e
    <2> QED BY <1>6, <1>7, <1>8 DEF Fits, MaxDataBytes
  <1> QED BY <1>9 DEF z, Fits

LEMMA PiecesFit ==
  ASSUME Sized, NEW S, {} \in S, NEW data \in Seq(S), data # <<>>, NEW blocks \in 1..MaxDataBlocks,
         NEW c, c = ChunkCount(Len(data), blocks), NEW i \in 1..c
  PROVE  Fits(Pieces(data, blocks, c)[i])
  <1> DEFINE size == blocks * BlockBytes
             l == Len(data)
             n == i - 1
             p == Piece(data, blocks, n + 1)
  <1>1. size \in Nat \ {0} /\ l \in Nat \ {0} /\ blocks \in Nat
    BY DEF Sized
  <1>2. c = (l + size - 1) \div size
    BY DEF ChunkCount
  <1>3. size = blocks * BlockBytes /\ l = Len(data)
    OBVIOUS
  <1> HIDE DEF size, l
  <1>4. c \in Nat /\ c - 1 \in Nat /\ (c - 1) * size \in Nat /\ (c - 1) * size < l
    BY <1>1, <1>2, CountIs
  <1>5. n \in Nat /\ n + 1 = i /\ n <= c - 1
    BY <1>4
  <1>6. n * size < l
    <2>1. n * size <= (c - 1) * size /\ n * size \in Nat
      BY <1>1, <1>4, <1>5, Multiples
    <2> DEFINE a == n * size
               b == (c - 1) * size
    <2> HIDE DEF a, b
    <2> QED BY <1>1, <1>4, <2>1 DEF a, b
  <1> HIDE DEF n
  <1>7. IsPart(S, p, data, n * size, PartLen(n * size, size, l))
    BY <1>1, <1>3, <1>5, <1>6, PieceIs
  <1>8. PartLen(n * size, size, l) \in 1..size
    <2>1. n * size \in Nat
      BY <1>1, <1>5
    <2> QED BY <1>1, <1>6, <2>1, PartLenIs
  <1>9. p \in Seq(S) /\ Len(p) <= blocks * BlockBytes
    <2> DEFINE m == PartLen(n * size, size, l)
    <2> HIDE DEF m, p
    <2>1. m \in 1..size /\ Len(p) = m /\ p \in Seq(S)
      BY <1>7, <1>8 DEF IsPart, m
    <2> QED BY <1>1, <1>3, <2>1
  <1> HIDE DEF p
  <1>10. Fits(ZeroPad(p))
    BY <1>9, PaddedFits
  <1>11. Pieces(data, blocks, c)[i] = ZeroPad(Piece(data, blocks, i))
    BY DEF Pieces
  <1> QED BY <1>5, <1>10, <1>11 DEF p
-----------------------------------------------------------------------------
(* The stream raw_file builds, as a stream of messages.                    *)
Counted(nonce, c) == [n \in 1..c |-> AdvanceIv(nonce, n - 1)]
FirstOnly(aad, c) == [n \in 1..c |-> IF n = 1 THEN aad ELSE <<>>]

LEMMA BuildIsStream ==
  ASSUME NEW data, NEW key, NEW nonce, NEW aad, NEW blocks
  PROVE  LET c == ChunkCount(Len(data), blocks)
         IN  BuildTx(data, key, nonce, aad, blocks) = Stream(key, Counted(nonce, c), FirstOnly(aad, c), Pieces(data, blocks, c), c)
  <1> DEFINE c == ChunkCount(Len(data), blocks)
             A(n) == <<<<"LOAD_IV", AdvanceIv(nonce, n - 1)>>>>
             B(n) == IF n = 1 THEN AadPacket(aad) ELSE <<>>
             P(n) == <<<<"LOAD_PLAINTEXT", ZeroPad(Piece(data, blocks, n))>>, <<"START_ENCRYPT", <<>>>>>>
  <1>1. BuildTx(data, key, nonce, aad, blocks) = <<<<"LOAD_KEY", key>>>> \o FlattenSeq([n \in 1..c |-> A(n) \o B(n) \o P(n)])
    BY DEF BuildTx
  <1>2. \A n \in 1..c : Section(Counted(nonce, c)[n], FirstOnly(aad, c)[n], Pieces(data, blocks, c)[n]) = A(n) \o B(n) \o P(n)
    <2> TAKE n \in 1..c
    <2>1. Counted(nonce, c)[n] = AdvanceIv(nonce, n - 1) /\ Pieces(data, blocks, c)[n] = ZeroPad(Piece(data, blocks, n))
      BY DEF Counted, Pieces
    <2>2. AadPacket(FirstOnly(aad, c)[n]) = B(n)
      BY DEF FirstOnly, AadPacket
    <2> QED BY <2>1, <2>2 DEF Section
  <1> HIDE DEF A, B, P, c
  <1>3. [n \in 1..c |-> Section(Counted(nonce, c)[n], FirstOnly(aad, c)[n], Pieces(data, blocks, c)[n])]
          = [n \in 1..c |-> A(n) \o B(n) \o P(n)]
    BY <1>2
  <1>4. BuildTx(data, key, nonce, aad, blocks) = Stream(key, Counted(nonce, c), FirstOnly(aad, c), Pieces(data, blocks, c), c)
    BY <1>1, <1>3 DEF Stream
  <1> QED BY <1>4 DEF c

LEMMA BuiltMessages ==
  ASSUME NEW data, NEW key, NEW nonce, NEW aad, NEW blocks, NEW c \in Nat, c = ChunkCount(Len(data), blocks)
  PROVE  SplitTx(BuildTx(data, key, nonce, aad, blocks)).messages
           = MessagesOf(Counted(nonce, c), FirstOnly(aad, c), Pieces(data, blocks, c), c)
  BY BuildIsStream, SplitStream

-----------------------------------------------------------------------------
(* Sequences of anything.                                                  *)
IsSeq(x) == \E S : x \in Seq(S)

LEMMA ListIs ==
  ASSUME NEW x, IsSeq(x)
  PROVE  Len(x) \in Nat /\ DOMAIN x = 1..Len(x) /\ (x = <<>> <=> Len(x) = 0)
  <1>1. PICK S : x \in Seq(S)
    BY DEF IsSeq
  <1> QED BY <1>1, EmptySeq

LEMMA ListSame ==
  ASSUME NEW x, NEW y, IsSeq(x), IsSeq(y), Len(x) = Len(y), \A i \in 1..Len(x) : x[i] = y[i]
  PROVE  x = y
  <1>1. PICK S : x \in Seq(S)
    BY DEF IsSeq
  <1>2. PICK T : y \in Seq(T)
    BY DEF IsSeq
  <1>3. x \in [1..Len(x) -> S] /\ y \in [1..Len(y) -> T]
    BY <1>1, <1>2
  <1> QED BY <1>3

LEMMA ListOf ==
  ASSUME NEW f, NEW n \in Nat, f = [i \in 1..n |-> f[i]]
  PROVE  IsSeq(f) /\ Len(f) = n
  <1> DEFINE S == {f[i] : i \in 1..n}
  <1>1. f \in [1..n -> S]
    OBVIOUS
  <1> HIDE DEF S
  <1>2. f \in Seq(S)
    BY <1>1
  <1> QED BY <1>1, <1>2 DEF IsSeq

LEMMA ListAppend ==
  ASSUME NEW x, NEW p, IsSeq(x)
  PROVE  /\ IsSeq(Append(x, p)) /\ Len(Append(x, p)) = Len(x) + 1
         /\ Append(x, p)[Len(x) + 1] = p
         /\ \A i \in 1..Len(x) : Append(x, p)[i] = x[i]
  <1>1. PICK S : x \in Seq(S)
    BY DEF IsSeq
  <1>2. x \in Seq(S \union {p}) /\ p \in S \union {p}
    BY <1>1
  <1> DEFINE T == S \union {p}
  <1> HIDE DEF T
  <1>3. x \in Seq(T) /\ p \in T
    BY <1>2 DEF T
  <1>4. Append(x, p) \in Seq(T) /\ Len(Append(x, p)) = Len(x) + 1
    BY <1>3
  <1>5. Append(x, p)[Len(x) + 1] = p /\ \A i \in 1..Len(x) : Append(x, p)[i] = x[i]
    BY <1>3
  <1> QED BY <1>4, <1>5 DEF IsSeq

LEMMA ListTail ==
  ASSUME NEW x, IsSeq(x), x # <<>>
  PROVE  /\ IsSeq(Tail(x)) /\ Len(x) \in Nat \ {0} /\ Len(Tail(x)) = Len(x) - 1 /\ Head(x) = x[1]
         /\ \A i \in 1..Len(x) - 1 : Tail(x)[i] = x[i + 1]
  <1>1. PICK S : x \in Seq(S)
    BY DEF IsSeq
  <1>2. Tail(x) \in Seq(S) /\ Len(x) \in Nat \ {0} /\ Len(Tail(x)) = Len(x) - 1 /\ Head(x) = x[1]
    BY <1>1, EmptySeq, HeadTailProperties
  <1>3. \A i \in 1..Len(x) - 1 : Tail(x)[i] = x[i + 1]
    BY <1>1, <1>2
  <1> QED BY <1>2, <1>3 DEF IsSeq

LEMMA ListJoin ==
  ASSUME NEW x, NEW y, IsSeq(x), IsSeq(y)
  PROVE  /\ IsSeq(x \o y) /\ Len(x \o y) = Len(x) + Len(y)
         /\ \A i \in 1..Len(x) : (x \o y)[i] = x[i]
         /\ \A i \in 1..Len(y) : (x \o y)[Len(x) + i] = y[i]
  <1>1. PICK S : x \in Seq(S)
    BY DEF IsSeq
  <1>2. PICK T : y \in Seq(T)
    BY DEF IsSeq
  <1> DEFINE U == S \union T
  <1>3. x \in Seq(U) /\ y \in Seq(U)
    BY <1>1, <1>2
  <1> HIDE DEF U
  <1>4. x \o y \in Seq(U) /\ Len(x \o y) = Len(x) + Len(y)
    BY <1>3
  <1>5. \A i \in 1..Len(x) : (x \o y)[i] = x[i]
    BY <1>3
  <1>6. \A i \in 1..Len(y) : (x \o y)[Len(x) + i] = y[i]
    BY <1>3
  <1> QED BY <1>4, <1>5, <1>6 DEF IsSeq

LEMMA ListPart ==
  ASSUME NEW x, IsSeq(x), NEW m \in Nat, NEW n \in Nat, m <= n, n <= Len(x)
  PROVE  /\ IsSeq(SubSeq(x, m + 1, n)) /\ Len(SubSeq(x, m + 1, n)) = n - m
         /\ \A i \in 1..n - m : SubSeq(x, m + 1, n)[i] = x[m + i]
  <1>1. PICK S : x \in Seq(S)
    BY DEF IsSeq
  <1>2. n - m \in Nat /\ m + (n - m) = n
    OBVIOUS
  <1>3. /\ SubSeq(x, m + 1, m + (n - m)) \in Seq(S) /\ Len(SubSeq(x, m + 1, m + (n - m))) = n - m
        /\ \A j \in 1..n - m : SubSeq(x, m + 1, m + (n - m))[j] = x[m + j]
    BY <1>1, <1>2, PartOf
  <1> QED BY <1>2, <1>3 DEF IsSeq

LEMMA ListEmpty == IsSeq(<<>>) /\ Len(<<>>) = 0
  <1>1. <<>> \in Seq({})
    OBVIOUS
  <1> QED BY <1>1 DEF IsSeq
LEMMA ListOne == ASSUME NEW a PROVE IsSeq(<<a>>) /\ Len(<<a>>) = 1 /\ <<a>>[1] = a
  <1>1. <<a>> \in Seq({a})
    OBVIOUS
  <1> QED BY <1>1 DEF IsSeq

LEMMA ListFirst ==
  ASSUME NEW x, IsSeq(x), NEW n \in Nat, n <= Len(x)
  PROVE  IsSeq(SubSeq(x, 1, n)) /\ Len(SubSeq(x, 1, n)) = n /\ \A i \in 1..n : SubSeq(x, 1, n)[i] = x[i]
  <1>1. PICK S : x \in Seq(S)
    BY DEF IsSeq
  <1>2. SubSeq(x, 1, n) \in Seq(S) /\ Len(SubSeq(x, 1, n)) = n
    BY <1>1
  <1>3. \A i \in 1..n : SubSeq(x, 1, n)[i] = x[i]
    BY <1>1
  <1> QED BY <1>2, <1>3 DEF IsSeq

LEMMA ListIn ==
  ASSUME NEW S, NEW x, IsSeq(x), \A i \in 1..Len(x) : x[i] \in S
  PROVE  x \in Seq(S)
  <1>1. PICK U : x \in Seq(U)
    BY DEF IsSeq
  <1>2. x \in [1..Len(x) -> U] /\ Len(x) \in Nat
    BY <1>1
  <1>3. x \in [1..Len(x) -> S]
    BY <1>2
  <1> QED BY <1>2, <1>3

LEMMA ListStrip ==
  ASSUME NEW x, IsSeq(x), x # <<>>
  PROVE  LET y == SubSeq(x, 1, Len(x) - 1)
         IN  /\ IsSeq(y) /\ Len(x) \in Nat \ {0} /\ Len(y) = Len(x) - 1 /\ x = Append(y, x[Len(x)])
             /\ \A i \in 1..Len(x) - 1 : y[i] = x[i]
  <1> DEFINE n == Len(x)
             y == SubSeq(x, 1, n - 1)
  <1>1. n \in Nat \ {0} /\ n - 1 \in Nat
    BY ListIs
  <1>2. IsSeq(y) /\ Len(y) = n - 1 /\ \A i \in 1..n - 1 : y[i] = x[i]
    <2>1. n - 1 <= Len(x)
      BY <1>1
    <2> HIDE DEF n
    <2> QED BY <1>1, <2>1, ListFirst
  <1> HIDE DEF y
  <1>3. /\ IsSeq(Append(y, x[n])) /\ Len(Append(y, x[n])) = Len(y) + 1 /\ Append(y, x[n])[Len(y) + 1] = x[n]
        /\ \A i \in 1..Len(y) : Append(y, x[n])[i] = y[i]
    BY <1>2, ListAppend
  <1> DEFINE z == Append(y, x[n])
  <1>4. Len(z) = n /\ IsSeq(z) /\ z[n] = x[n] /\ \A i \in 1..n - 1 : z[i] = x[i]
    <2> HIDE DEF n
    <2> QED BY <1>1, <1>2, <1>3
  <1> HIDE DEF z
  <1>5. \A i \in 1..n : z[i] = x[i]
    BY <1>1, <1>4
  <1>6. x = z
    BY <1>4, <1>5, ListSame
  <1> QED BY <1>1, <1>2, <1>6 DEF y, z

LEMMA FlattenIn == ASSUME NEW S, NEW s \in Seq(Seq(S)) PROVE FlattenSeq(s) \in Seq(S)
  <1> DEFINE T == {n \in Nat : \E x \in Seq(Seq(S)) : Len(x) = n /\ FlattenSeq(x) \notin Seq(S)}
  <1>1. T = {}
    <2> SUFFICES ASSUME T # {} PROVE FALSE
      OBVIOUS
    <2>1. PICK n \in T : \A y \in T : n <= y
      <3>1. T \subseteq Nat
        OBVIOUS
      <3> QED BY <3>1, NatMin
    <2>2. PICK x \in Seq(Seq(S)) : Len(x) = n /\ FlattenSeq(x) \notin Seq(S)
      BY <2>1
    <2>3. x # <<>>
      BY <2>2, FlattenEmpty
    <2> DEFINE y == SubSeq(x, 1, Len(x) - 1)
    <2>4. IsSeq(y) /\ Len(x) \in Nat \ {0} /\ Len(y) = Len(x) - 1 /\ x = Append(y, x[Len(x)])
          /\ \A i \in 1..Len(x) - 1 : y[i] = x[i]
      BY <2>2, <2>3, ListStrip DEF IsSeq
    <2> HIDE DEF y
    <2>5. n - 1 \in Nat /\ n - 1 \notin T
      BY <2>1, <2>2, <2>4
    <2>6. y \in Seq(Seq(S)) /\ x[Len(x)] \in Seq(S)
      <3>1. \A i \in 1..Len(x) : x[i] \in Seq(S)
        OBVIOUS
      <3>2. \A i \in 1..Len(y) : y[i] \in Seq(S)
        BY <2>4, <3>1
      <3>3. Len(x) \in 1..Len(x)
        BY <2>4
      <3>4. y \in Seq(Seq(S))
        BY <2>4, <3>2, ListIn
      <3> QED BY <3>1, <3>3, <3>4
    <2>7. FlattenSeq(y) \in Seq(S)
      BY <2>2, <2>4, <2>5, <2>6
    <2>8. FlattenSeq(x) = FlattenSeq(y) \o x[Len(x)]
      BY <2>4, <2>6, FlattenAppend
    <2>9. FlattenSeq(y) \o x[Len(x)] \in Seq(S)
      BY <2>6, <2>7
    <2> QED BY <2>2, <2>8, <2>9
  <1>2. Len(s) \in Nat /\ Len(s) \notin T
    BY <1>1
  <1> QED BY <1>2

(* Sequences of sequences.                                                 *)
Lists(s) == IsSeq(s) /\ \A i \in 1..Len(s) : IsSeq(s[i])

LEMMA ListsIn == ASSUME NEW s, Lists(s) PROVE \E S : s \in Seq(Seq(S))
  <1> DEFINE S == UNION {{s[i][j] : j \in 1..Len(s[i])} : i \in 1..Len(s)}
  <1>1. Len(s) \in Nat /\ DOMAIN s = 1..Len(s)
    BY ListIs DEF Lists
  <1>2. ASSUME NEW i \in 1..Len(s) PROVE s[i] \in Seq(S)
    <2>1. PICK U : s[i] \in Seq(U)
      BY DEF Lists, IsSeq
    <2>2. \A j \in 1..Len(s[i]) : s[i][j] \in S
      OBVIOUS
    <2> HIDE DEF S
    <2>3. s[i] \in [1..Len(s[i]) -> U] /\ Len(s[i]) \in Nat
      BY <2>1
    <2>4. s[i] \in [1..Len(s[i]) -> S]
      BY <2>2, <2>3
    <2> QED BY <2>3, <2>4
  <1> HIDE DEF S
  <1>3. PICK U : s \in Seq(U)
    BY DEF Lists, IsSeq
  <1>4. s \in [1..Len(s) -> U]
    BY <1>3
  <1>5. s \in [1..Len(s) -> Seq(S)]
    BY <1>2, <1>4
  <1>6. s \in Seq(Seq(S))
    BY <1>1, <1>5
  <1> QED BY <1>6

LEMMA FlatLast ==
  ASSUME NEW s, NEW b, Lists(s), IsSeq(b)
  PROVE  /\ IsSeq(FlattenSeq(s)) /\ Lists(Append(s, b))
         /\ FlattenSeq(Append(s, b)) = FlattenSeq(s) \o b
  <1>1. Len(Append(s, b)) = Len(s) + 1 /\ Append(s, b)[Len(s) + 1] = b /\ Len(s) \in Nat /\ IsSeq(Append(s, b))
        /\ \A i \in 1..Len(s) : Append(s, b)[i] = s[i]
    BY ListAppend, ListIs DEF Lists
  <1>2. Lists(Append(s, b))
    BY <1>1 DEF Lists
  <1>3. PICK S : s \in Seq(Seq(S))
    BY ListsIn
  <1>4. PICK U : b \in Seq(U)
    BY DEF IsSeq
  <1> DEFINE V == S \union U
  <1>5. b \in Seq(V) /\ \A i \in 1..Len(s) : s[i] \in Seq(V)
    BY <1>3, <1>4
  <1> HIDE DEF V
  <1>6. s \in [1..Len(s) -> Seq(V)]
    <2>1. s \in [1..Len(s) -> Seq(S)]
      BY <1>3
    <2> QED BY <1>5, <2>1
  <1>7. s \in Seq(Seq(V))
    BY <1>1, <1>6
  <1>8. FlattenSeq(s) \in Seq(V)
    BY <1>7, FlattenIn
  <1>9. FlattenSeq(Append(s, b)) = FlattenSeq(s) \o b
    BY <1>5, <1>7, FlattenAppend
  <1> QED BY <1>2, <1>8, <1>9 DEF IsSeq

LEMMA ListRegroup ==
  ASSUME NEW x, NEW y, NEW z, IsSeq(x), IsSeq(y), IsSeq(z)
  PROVE  (x \o y) \o z = x \o (y \o z)
  <1>1. PICK S : x \in Seq(S)
    BY DEF IsSeq
  <1>2. PICK T : y \in Seq(T)
    BY DEF IsSeq
  <1>3. PICK U : z \in Seq(U)
    BY DEF IsSeq
  <1> DEFINE V == S \union T \union U
  <1>4. x \in Seq(V) /\ y \in Seq(V) /\ z \in Seq(V)
    BY <1>1, <1>2, <1>3
  <1> HIDE DEF V
  <1> QED BY <1>4

LEMMA ListNothing == ASSUME NEW x, IsSeq(x) PROVE x \o <<>> = x /\ <<>> \o x = x
  <1>1. PICK S : x \in Seq(S)
    BY DEF IsSeq
  <1> QED BY <1>1, ConcatEmptySeq

LEMMA FlatFirst ==
  ASSUME NEW s, Lists(s), s # <<>>
  PROVE  Lists(Tail(s)) /\ IsSeq(Head(s)) /\ FlattenSeq(s) = Head(s) \o FlattenSeq(Tail(s))
  <1> DEFINE Claim(x) == FlattenSeq(x) = Head(x) \o FlattenSeq(Tail(x))
             T == {n \in Nat : \E x : Lists(x) /\ x # <<>> /\ Len(x) = n /\ ~Claim(x)}
  <1>1. ASSUME NEW x, Lists(x), x # <<>>
        PROVE  Lists(Tail(x)) /\ IsSeq(Head(x)) /\ Len(x) \in Nat \ {0} /\ Len(Tail(x)) = Len(x) - 1 /\ Head(x) = x[1]
               /\ \A i \in 1..Len(x) - 1 : Tail(x)[i] = x[i + 1]
    <2>1. IsSeq(Tail(x)) /\ Len(x) \in Nat \ {0} /\ Len(Tail(x)) = Len(x) - 1 /\ Head(x) = x[1]
          /\ \A i \in 1..Len(x) - 1 : Tail(x)[i] = x[i + 1]
      BY <1>1, ListTail DEF Lists
    <2>2. \A i \in 1..Len(x) : IsSeq(x[i])
      BY <1>1 DEF Lists
    <2>3. \A i \in 1..Len(x) - 1 : i + 1 \in 1..Len(x)
      BY <2>1
    <2> QED BY <2>1, <2>2, <2>3 DEF Lists
  <1>2. T = {}
    <2> SUFFICES ASSUME T # {} PROVE FALSE
      OBVIOUS
    <2>1. PICK n \in T : \A y \in T : n <= y
      <3>1. T \subseteq Nat
        OBVIOUS
      <3> QED BY <3>1, NatMin
    <2>2. PICK x : Lists(x) /\ x # <<>> /\ Len(x) = n /\ ~Claim(x)
      BY <2>1
    <2> DEFINE y == SubSeq(x, 1, Len(x) - 1)
               b == x[Len(x)]
    <2>3. IsSeq(y) /\ Len(x) \in Nat \ {0} /\ Len(y) = Len(x) - 1 /\ x = Append(y, b)
          /\ \A i \in 1..Len(x) - 1 : y[i] = x[i]
      BY <2>2, ListStrip DEF Lists
    <2> HIDE DEF y
    <2>4. Lists(y) /\ IsSeq(b)
      BY <2>2, <2>3 DEF Lists
    <2> HIDE DEF b, Claim
    <2>5. FlattenSeq(x) = FlattenSeq(y) \o b /\ IsSeq(FlattenSeq(y))
      BY <2>3, <2>4, FlatLast
    <2>6. CASE y = <<>>
      <3>1. x = <<b>>
        BY <2>3, <2>6
      <3>2. Head(x) = b /\ Tail(x) = <<>>
        BY <3>1
      <3>3. FlattenSeq(x) = b
        BY <2>4, <2>5, <2>6, FlattenEmpty, ListNothing
      <3> QED BY <2>2, <2>4, <3>2, <3>3, FlattenEmpty, ListNothing DEF Claim
    <2>7. CASE y # <<>>
      <3>1. n - 1 \in Nat /\ n - 1 \notin T /\ Len(y) = n - 1
        BY <2>1, <2>2, <2>3
      <3>2. Claim(y)
        BY <2>4, <2>7, <3>1
      <3>3. /\ Lists(Tail(y)) /\ IsSeq(Head(y)) /\ Len(y) \in Nat \ {0} /\ Len(Tail(y)) = Len(y) - 1 /\ Head(y) = y[1]
            /\ \A i \in 1..Len(y) - 1 : Tail(y)[i] = y[i + 1]
        BY <1>1, <2>4, <2>7
      <3>4. /\ Lists(Tail(x)) /\ IsSeq(Head(x)) /\ Len(Tail(x)) = Len(x) - 1 /\ Head(x) = x[1]
            /\ \A i \in 1..Len(x) - 1 : Tail(x)[i] = x[i + 1]
        BY <1>1, <2>2
      <3>5. Head(x) = Head(y)
        BY <2>3, <3>3, <3>4
      <3>6. Tail(x) = Append(Tail(y), b)
        <4> DEFINE u == Tail(x)
                   v == Tail(y)
        <4>1. /\ IsSeq(Append(v, b)) /\ Len(Append(v, b)) = Len(v) + 1 /\ Append(v, b)[Len(v) + 1] = b
              /\ \A i \in 1..Len(v) : Append(v, b)[i] = v[i]
          BY <3>3, ListAppend DEF Lists
        <4> DEFINE w == Append(v, b)
                   m == Len(y)
        <4>2. /\ m \in Nat \ {0} /\ IsSeq(w) /\ Len(w) = m /\ w[m] = b /\ \A i \in 1..m - 1 : w[i] = y[i + 1]
          BY <3>3, <4>1
        <4>3. IsSeq(u) /\ Len(u) = m /\ \A i \in 1..m : u[i] = x[i + 1]
          BY <2>3, <3>4 DEF Lists
        <4> HIDE DEF u, v, w
        <4>4. x[m + 1] = b /\ \A i \in 1..m : x[i] = y[i]
          BY <2>3 DEF b
        <4> HIDE DEF m
        <4>5. \A i \in 1..m - 1 : w[i] = u[i]
          <5> TAKE i \in 1..m - 1
          <5>1. i + 1 \in 1..m /\ i \in 1..m
            BY <4>2
          <5> QED BY <4>2, <4>3, <4>4, <5>1
        <4>6. w[m] = u[m] /\ \A i \in 1..m : i = m \/ i \in 1..m - 1
          BY <4>2, <4>3, <4>4
        <4>7. \A i \in 1..m : u[i] = w[i]
          BY <4>5, <4>6
        <4> QED BY <4>2, <4>3, <4>7, ListSame DEF u, v, w
      <3>7. FlattenSeq(Tail(x)) = FlattenSeq(Tail(y)) \o b /\ IsSeq(FlattenSeq(Tail(y)))
        BY <2>4, <3>3, <3>6, FlatLast
      <3>8. FlattenSeq(x) = (Head(y) \o FlattenSeq(Tail(y))) \o b
        BY <2>5, <3>2 DEF Claim
      <3>9. FlattenSeq(x) = Head(y) \o (FlattenSeq(Tail(y)) \o b)
        <4>1. IsSeq(Head(y)) /\ IsSeq(FlattenSeq(Tail(y))) /\ IsSeq(b)
          BY <2>4, <3>3, <3>7
        <4>2. ASSUME NEW p, NEW q, IsSeq(p), IsSeq(q) PROVE (p \o q) \o b = p \o (q \o b)
          BY <2>4, <4>2, ListRegroup
        <4>3. (Head(y) \o FlattenSeq(Tail(y))) \o b = Head(y) \o (FlattenSeq(Tail(y)) \o b)
          BY Zenon, <4>1, <4>2
        <4> QED BY <3>8, <4>3
      <3> QED BY <2>2, <3>5, <3>7, <3>9 DEF Claim
    <2> QED BY <2>6, <2>7
  <1>3. Len(s) \in Nat /\ Len(s) \notin T
    BY <1>1, <1>2
  <1> QED BY <1>1, <1>3

LEMMA ListOneMore ==
  ASSUME NEW x, NEW y, NEW b, IsSeq(x), IsSeq(y)
  PROVE  IsSeq(x \o y) /\ x \o Append(y, b) = Append(x \o y, b)
  <1>1. PICK S : x \in Seq(S)
    BY DEF IsSeq
  <1>2. PICK T : y \in Seq(T)
    BY DEF IsSeq
  <1> DEFINE V == S \union T \union {b}
  <1>3. x \in Seq(V) /\ y \in Seq(V) /\ b \in V
    BY <1>1, <1>2
  <1> HIDE DEF V
  <1>4. x \o y \in Seq(V)
    BY <1>3
  <1> QED BY <1>3, <1>4 DEF IsSeq

-----------------------------------------------------------------------------
(* How many elements of x are in K.                                        *)
Ones(x, K) == Cardinality({i \in DOMAIN x : x[i] \in K})

LEMMA OnesFinite ==
  ASSUME NEW x, NEW K, IsSeq(x)
  PROVE  IsFiniteSet({i \in DOMAIN x : x[i] \in K}) /\ Ones(x, K) \in Nat
  <1>1. Len(x) \in Nat /\ DOMAIN x = 1..Len(x)
    BY ListIs
  <1>2. IsFiniteSet(1..Len(x))
    BY <1>1, FS_Interval
  <1>3. {i \in DOMAIN x : x[i] \in K} \in SUBSET (1..Len(x))
    BY <1>1
  <1>4. IsFiniteSet({i \in DOMAIN x : x[i] \in K})
    BY <1>2, <1>3, FS_Subset
  <1> QED BY <1>4, FS_CardinalityType DEF Ones

LEMMA OnesNone == ASSUME NEW K PROVE Ones(<<>>, K) = 0
  <1>1. {i \in DOMAIN <<>> : <<>>[i] \in K} = {}
    OBVIOUS
  <1> QED BY <1>1, FS_EmptySet DEF Ones

LEMMA OnesMore ==
  ASSUME NEW x, NEW p, NEW K, IsSeq(x)
  PROVE  Ones(Append(x, p), K) = Ones(x, K) + IF p \in K THEN 1 ELSE 0
  <1> DEFINE n == Len(x)
             y == Append(x, p)
             A == {i \in DOMAIN x : x[i] \in K}
             B == {i \in DOMAIN y : y[i] \in K}
  <1>1. n \in Nat /\ DOMAIN x = 1..n
    BY ListIs
  <1>2. DOMAIN y = 1..n + 1 /\ y[n + 1] = p /\ \A i \in 1..n : y[i] = x[i]
    <2>1. IsSeq(y) /\ Len(y) = n + 1 /\ y[n + 1] = p /\ \A i \in 1..n : y[i] = x[i]
      BY ListAppend
    <2> QED BY <2>1, ListIs
  <1>3. IsFiniteSet(A) /\ Cardinality(A) \in Nat /\ n + 1 \notin A
    <2>1. IsFiniteSet(A) /\ Cardinality(A) \in Nat
      BY OnesFinite DEF Ones
    <2>2. n + 1 \notin 1..n
      BY <1>1
    <2> QED BY <1>1, <2>1, <2>2
  <1> HIDE DEF n, y
  <1>4. CASE p \in K
    <2>1. B = A \union {n + 1}
      BY <1>1, <1>2, <1>4
    <2> HIDE DEF A, B
    <2>2. Cardinality(A \union {n + 1}) = Cardinality(A) + 1
      BY <1>3, FS_AddElement
    <2> QED BY <1>4, <2>1, <2>2 DEF Ones, A, B, y
  <1>5. CASE p \notin K
    <2>1. B = A
      BY <1>1, <1>2, <1>5
    <2>2. Ones(x, K) = Cardinality(A) /\ Ones(Append(x, p), K) = Cardinality(B)
      BY DEF Ones, y
    <2> HIDE DEF A, B
    <2> QED BY <1>3, <1>5, <2>1, <2>2
  <1> QED BY <1>4, <1>5

LEMMA OnesFirst ==
  ASSUME NEW x, NEW K, IsSeq(x), x # <<>>
  PROVE  Ones(x, K) = Ones(Tail(x), K) + IF Head(x) \in K THEN 1 ELSE 0
  <1> DEFINE n == Len(x)
             y == Tail(x)
             A == {i \in DOMAIN x : x[i] \in K}
             B == {i \in DOMAIN y : y[i] \in K}
             f == [i \in B |-> i + 1]
  <1>1. n \in Nat \ {0} /\ DOMAIN x = 1..n /\ Head(x) = x[1]
    BY ListIs, ListTail
  <1>2. DOMAIN y = 1..n - 1 /\ (\A i \in 1..n - 1 : y[i] = x[i + 1]) /\ IsSeq(y)
    <2>1. IsSeq(y) /\ Len(y) = n - 1 /\ \A i \in 1..n - 1 : y[i] = x[i + 1]
      BY ListTail
    <2> QED BY <2>1, ListIs
  <1>3. IsFiniteSet(A) /\ IsFiniteSet(B) /\ Cardinality(A) \in Nat /\ Cardinality(B) \in Nat
    BY <1>2, OnesFinite DEF Ones
  <1> HIDE DEF n, y
  <1>4. \A i \in B : i \in 1..n - 1 /\ i + 1 \in 1..n /\ i + 1 # 1 /\ i + 1 \in A
    BY <1>1, <1>2
  <1>5. \A i \in A \ {1} : i - 1 \in B /\ (i - 1) + 1 = i
    BY <1>1, <1>2
  <1>6. f \in Bijection(B, A \ {1})
    <2>1. f \in [B -> A \ {1}]
      BY <1>4
    <2>2. \A i, j \in B : f[i] = f[j] => i = j
      BY <1>4
    <2>3. \A i \in A \ {1} : \E j \in B : f[j] = i
      BY <1>5
    <2> HIDE DEF f, A, B
    <2> QED BY <2>1, <2>2, <2>3 DEF Bijection, Injection, Surjection, IsInjective
  <1>7. Cardinality(A \ {1}) = Cardinality(B)
    <2> HIDE DEF f, A, B
    <2> QED BY <1>3, <1>6, FS_Bijection DEF ExistsBijection
  <1>8. Cardinality(A \ {1}) = IF 1 \in A THEN Cardinality(A) - 1 ELSE Cardinality(A)
    BY <1>3, FS_RemoveElement
  <1>9. 1 \in A <=> Head(x) \in K
    BY <1>1
  <1>10. Ones(x, K) = Cardinality(A) /\ Ones(Tail(x), K) = Cardinality(B)
    BY DEF Ones, y
  <1> HIDE DEF A, B
  <1> QED BY <1>3, <1>7, <1>8, <1>9, <1>10

LEMMA OnesJoin ==
  ASSUME NEW x, NEW y, NEW K, IsSeq(x), IsSeq(y)
  PROVE  Ones(x \o y, K) = Ones(x, K) + Ones(y, K)
  <1> DEFINE T == {n \in Nat : \E z : IsSeq(z) /\ Len(z) = n /\ Ones(x \o z, K) # Ones(x, K) + Ones(z, K)}
  <1>1. T = {}
    <2> SUFFICES ASSUME T # {} PROVE FALSE
      OBVIOUS
    <2>1. PICK n \in T : \A m \in T : n <= m
      <3>1. T \subseteq Nat
        OBVIOUS
      <3> QED BY <3>1, NatMin
    <2>2. PICK z : IsSeq(z) /\ Len(z) = n /\ Ones(x \o z, K) # Ones(x, K) + Ones(z, K)
      BY <2>1
    <2>3. Ones(x, K) \in Nat
      BY OnesFinite
    <2>4. CASE z = <<>>
      <3>1. x \o z = x
        BY <2>4, ListNothing
      <3> QED BY <2>2, <2>3, <2>4, <3>1, OnesNone
    <2>5. CASE z # <<>>
      <3> DEFINE v == SubSeq(z, 1, Len(z) - 1)
                 b == z[Len(z)]
      <3>1. IsSeq(v) /\ Len(z) \in Nat \ {0} /\ Len(v) = Len(z) - 1 /\ z = Append(v, b)
        BY <2>2, <2>5, ListStrip
      <3> HIDE DEF v, b
      <3>2. n - 1 \in Nat /\ n - 1 \notin T
        BY <2>1, <2>2, <3>1
      <3>3. Ones(x \o v, K) = Ones(x, K) + Ones(v, K)
        BY <2>2, <3>1, <3>2
      <3>4. Ones(z, K) = Ones(v, K) + (IF b \in K THEN 1 ELSE 0) /\ Ones(v, K) \in Nat
        <4>1. Ones(Append(v, b), K) = Ones(v, K) + (IF b \in K THEN 1 ELSE 0)
          BY <3>1, OnesMore
        <4>2. Ones(v, K) \in Nat
          BY <3>1, OnesFinite
        <4> QED BY <3>1, <4>1, <4>2
      <3>5. x \o z = Append(x \o v, b) /\ IsSeq(x \o v)
        <4>1. ASSUME NEW p, NEW e, IsSeq(p) PROVE x \o Append(p, e) = Append(x \o p, e)
          BY <4>1, ListOneMore
        <4>2. x \o Append(v, b) = Append(x \o v, b)
          BY Zenon, <3>1, <4>1
        <4>3. IsSeq(x \o v)
          BY <3>1, ListJoin
        <4> QED BY <3>1, <4>2, <4>3
      <3>6. Ones(Append(x \o v, b), K) = Ones(x \o v, K) + IF b \in K THEN 1 ELSE 0
        BY <3>5, OnesMore
      <3> QED BY <2>2, <2>3, <3>3, <3>4, <3>5, <3>6
    <2> QED BY <2>4, <2>5
  <1>2. Len(y) \in Nat /\ Len(y) \notin T
    BY <1>1, ListIs
  <1> QED BY <1>2

-----------------------------------------------------------------------------
(* The steps of the two folds over a stream of packets: SplitRx over the   *)
(* answers, Batches over the commands.                                     *)
RxStep(acc, p) ==
    CASE p[1] \in Acks -> acc
      [] p[1] = "CIPHERTEXT" /\ ~(acc.data # <<>>) -> [acc EXCEPT !.data = p[2]]
      [] p[1] = "AUTH_TAG" ->
            [acc EXCEPT !.replies = Append(@, [data |-> acc.data, tag |-> p[2], verified |-> "none"]),
                        !.data = <<>>]
      [] /\ p[1] = "VERIFY_RESULT" /\ acc.replies # <<>> /\ ~(acc.data # <<>>)
         /\ Last(acc.replies).verified = "none" ->
            [acc EXCEPT !.replies[Len(acc.replies)].verified = IF p[2] THEN "pass" ELSE "fail"]
      [] OTHER -> [acc EXCEPT !.ok = FALSE]
BatchStep(width, acc, p) ==
    LET started == acc.started + (IF p[1] \in Starts THEN 1 ELSE 0)
        group == Append(acc.group, p)
    IN  IF width = 1 \/ started = width
        THEN [groups |-> Append(acc.groups, group), group |-> <<>>, started |-> 0]
        ELSE [acc EXCEPT !.group = group, !.started = started]

Step(kind, acc, p) == IF kind[1] = "rx" THEN RxStep(acc, p) ELSE BatchStep(kind[2], acc, p)
Start(kind) ==
    IF kind[1] = "rx" THEN [ok |-> TRUE, data |-> <<>>, replies |-> <<>>]
    ELSE [groups |-> <<>>, group |-> <<>>, started |-> 0]

(* f folds every part of x that consists of some of its first n elements.  *)
Folds(kind, x, n, f) ==
    f = [s \in SUBSET (1..n) |-> IF s = {} THEN Start(kind) ELSE Step(kind, f[s \ {Max(s)}], x[Max(s)])]

LEMMA FoldsNext ==
  ASSUME NEW kind, NEW x, NEW n \in Nat, NEW f, Folds(kind, x, n, f)
  PROVE  \E g : Folds(kind, x, n + 1, g)
  <1> DEFINE g == [s \in SUBSET (1..n + 1) |-> IF n + 1 \in s THEN Step(kind, f[s \ {n + 1}], x[n + 1]) ELSE f[s]]
  <1>1. \A s \in SUBSET (1..n) : g[s] = f[s]
    <2> TAKE s \in SUBSET (1..n)
    <2>1. s \in SUBSET (1..n + 1) /\ n + 1 \notin s
      OBVIOUS
    <2> QED BY <2>1
  <1>2. ASSUME NEW s \in SUBSET (1..n + 1)
        PROVE  g[s] = IF s = {} THEN Start(kind) ELSE Step(kind, g[s \ {Max(s)}], x[Max(s)])
    <2>1. CASE n + 1 \in s
      <3>1. Max(s) = n + 1 /\ s \ {n + 1} \in SUBSET (1..n)
        BY <2>1, LastIsMax
      <3>2. g[s \ {n + 1}] = f[s \ {n + 1}]
        BY <1>1, <3>1
      <3> QED BY <2>1, <3>1, <3>2
    <2>2. CASE n + 1 \notin s
      <3>1. s \in SUBSET (1..n) /\ s \ {Max(s)} \in SUBSET (1..n)
        <4>1. \A y \in s : y \in 1..n + 1 /\ y # n + 1
          BY <2>2
        <4>2. \A y \in 1..n + 1 : y # n + 1 => y \in 1..n
          OBVIOUS
        <4>3. s \subseteq 1..n
          BY <4>1, <4>2
        <4> HIDE DEF g
        <4> QED BY <4>3
      <3>2. g[s] = f[s] /\ g[s \ {Max(s)}] = f[s \ {Max(s)}]
        BY <1>1, <3>1
      <3>3. f[s] = IF s = {} THEN Start(kind) ELSE Step(kind, f[s \ {Max(s)}], x[Max(s)])
        BY <3>1 DEF Folds
      <3> QED BY <3>2, <3>3
    <2> QED BY <2>1, <2>2
  <1>3. g = [s \in SUBSET (1..n + 1) |-> g[s]]
    OBVIOUS
  <1> HIDE DEF g
  <1>4. Folds(kind, x, n + 1, g)
    BY <1>2, <1>3 DEF Folds
  <1> QED BY <1>4

LEMMA FoldsExist == ASSUME NEW kind, NEW x, NEW n \in Nat PROVE \E f : Folds(kind, x, n, f)
  <1> DEFINE T == {m \in Nat : ~\E f : Folds(kind, x, m, f)}
  <1>1. T = {}
    <2> SUFFICES ASSUME T # {} PROVE FALSE
      OBVIOUS
    <2>1. PICK m \in T : \A y \in T : m <= y
      <3>1. T \subseteq Nat
        OBVIOUS
      <3> QED BY <3>1, NatMin
    <2>2. CASE m = 0
      <3> DEFINE f == [s \in SUBSET (1..0) |-> Start(kind)]
      <3>1. \A s \in SUBSET (1..0) : s = {}
        OBVIOUS
      <3>2. Folds(kind, x, 0, f)
        BY <3>1 DEF Folds
      <3> QED BY <2>2, <3>2
    <2>3. CASE m # 0
      <3>1. m - 1 \in Nat /\ m - 1 \notin T /\ (m - 1) + 1 = m
        BY <2>1, <2>3
      <3>2. PICK f : Folds(kind, x, m - 1, f)
        BY <3>1
      <3>3. \E g : Folds(kind, x, (m - 1) + 1, g)
        BY <3>1, <3>2, FoldsNext
      <3> QED BY <3>1, <3>3
    <2> QED BY <2>2, <2>3
  <1>2. n \notin T
    BY <1>1
  <1> QED BY <1>2

LEMMA FoldsAre ==
  ASSUME NEW kind, NEW x, NEW n \in Nat, NEW f, Folds(kind, x, n, f)
  PROVE  /\ f[1..0] = Start(kind)
         /\ \A k \in 1..n : f[1..k] = Step(kind, f[1..k - 1], x[k])
  <1>1. 1..0 = {} /\ {} \in SUBSET (1..n)
    OBVIOUS
  <1>2. ASSUME NEW k \in 1..n PROVE f[1..k] = Step(kind, f[1..k - 1], x[k])
    <2>1. k - 1 \in Nat /\ (k - 1) + 1 = k /\ 1..k \in SUBSET (1..n) /\ 1..k \in SUBSET (1..(k - 1) + 1) /\ k \in 1..k
      OBVIOUS
    <2>2. Max(1..k) = k
      BY <2>1, LastIsMax
    <2>3. (1..k) \ {k} = 1..k - 1
      BY <2>1
    <2>4. 1..k # {}
      BY <2>1
    <2> QED BY <2>1, <2>2, <2>3, <2>4 DEF Folds
  <1> QED BY <1>1, <1>2 DEF Folds

LEMMA FoldsAgree ==
  ASSUME NEW kind, NEW x, NEW y, NEW m \in Nat, NEW n \in Nat, NEW f, NEW g,
         Folds(kind, x, m, f), Folds(kind, y, n, g), m <= n, Agree(x, y, m)
  PROVE  f[1..m] = g[1..m]
  <1> DEFINE T == {k \in Nat : k <= m /\ f[1..k] # g[1..k]}
  <1>2. f[1..0] = Start(kind) /\ \A k \in 1..m : f[1..k] = Step(kind, f[1..k - 1], x[k])
    BY FoldsAre
  <1>3. g[1..0] = Start(kind) /\ \A k \in 1..n : g[1..k] = Step(kind, g[1..k - 1], y[k])
    BY FoldsAre
  <1>1. T = {}
    <2> SUFFICES ASSUME T # {} PROVE FALSE
      OBVIOUS
    <2>1. PICK k \in T : \A j \in T : k <= j
      <3>1. T \subseteq Nat
        OBVIOUS
      <3> QED BY <3>1, NatMin
    <2>2. CASE k = 0
      BY <1>2, <1>3, <2>1, <2>2
    <2>3. CASE k # 0
      <3>1. k \in 1..m /\ k \in 1..n /\ k - 1 \in Nat /\ k - 1 <= m /\ k - 1 \notin T
        BY <2>1, <2>3
      <3>2. f[1..k - 1] = g[1..k - 1] /\ x[k] = y[k]
        BY <3>1 DEF Agree
      <3>3. f[1..k] = g[1..k]
        BY <1>2, <1>3, <3>1, <3>2
      <3> QED BY <2>1, <3>3
    <2> QED BY <2>2, <2>3
  <1>4. m \in Nat /\ m <= m /\ m \notin T
    BY <1>1
  <1> QED BY <1>4

(* What a fold makes of a whole sequence.                                  *)
Folded(kind, x) == (CHOOSE f : Folds(kind, x, Len(x), f))[1..Len(x)]

LEMMA FoldedNone == ASSUME NEW kind PROVE Folded(kind, <<>>) = Start(kind)
  <1> DEFINE f == CHOOSE f : Folds(kind, <<>>, 0, f)
  <1>1. Folds(kind, <<>>, 0, f)
    BY FoldsExist
  <1> HIDE DEF f
  <1>2. f[1..0] = Start(kind)
    BY <1>1, FoldsAre
  <1> QED BY <1>2 DEF Folded, f

LEMMA FoldedMore ==
  ASSUME NEW kind, NEW x, NEW p, IsSeq(x)
  PROVE  Folded(kind, Append(x, p)) = Step(kind, Folded(kind, x), p)
  <1> DEFINE y == Append(x, p)
             n == Len(x)
             f == CHOOSE f : Folds(kind, x, n, f)
             g == CHOOSE g : Folds(kind, y, n + 1, g)
  <1>1. n \in Nat /\ Len(y) = n + 1 /\ y[n + 1] = p /\ Agree(x, y, n)
    BY ListIs, ListAppend DEF Agree
  <1> HIDE DEF y, n
  <1>2. Folds(kind, x, n, f) /\ Folds(kind, y, n + 1, g)
    <2>1. n + 1 \in Nat
      BY <1>1
    <2>0. \E h : Folds(kind, x, n, h)
      BY <1>1, FoldsExist
    <2>2. \E h : Folds(kind, y, n + 1, h)
      BY <2>1, FoldsExist
    <2> QED BY <2>0, <2>2
  <1>3. Folded(kind, x) = f[1..n] /\ Folded(kind, y) = g[1..n + 1]
    BY <1>1 DEF Folded, n
  <1> HIDE DEF f, g
  <1>4. f[1..n] = g[1..n]
    BY <1>1, <1>2, FoldsAgree
  <1>5. g[1..n + 1] = Step(kind, g[1..(n + 1) - 1], y[n + 1])
    <2>1. n + 1 \in Nat /\ n + 1 \in 1..n + 1
      BY <1>1
    <2>2. ASSUME NEW z, NEW m \in Nat, NEW h, Folds(kind, z, m, h)
          PROVE  \A k \in 1..m : h[1..k] = Step(kind, h[1..k - 1], z[k])
      BY <2>2, FoldsAre
    <2>3. \A k \in 1..n + 1 : g[1..k] = Step(kind, g[1..k - 1], y[k])
      BY Zenon, <1>2, <2>1, <2>2
    <2> QED BY <2>1, <2>3
  <1>6. (n + 1) - 1 = n
    BY <1>1
  <1> QED BY <1>1, <1>3, <1>4, <1>5, <1>6 DEF y

Received(x) == Folded(<<"rx", 0>>, x)
Batched(width, x) == Folded(<<"batch", width>>, x)

LEMMA FoldOfRx ==
  ASSUME NEW x, IsSeq(x)
  PROVE  SplitRx(x) = [ok |-> /\ Received(x).ok /\ ~(Received(x).data # <<>>)
                              /\ \A i \in DOMAIN Received(x).replies :
                                   Received(x).replies[i].data = <<>> => Received(x).replies[i].verified = "fail",
                       replies |-> Received(x).replies]
  <1> DEFINE n == Len(x)
             Are(f) == f = [s \in SUBSET (1..n) |->
                              IF s = {} THEN [ok |-> TRUE, data |-> <<>>, replies |-> <<>>]
                              ELSE RxStep(f[s \ {Max(s)}], x[Max(s)])]
             f == CHOOSE f : Are(f)
             e == f[1..n]
  <1>1. n \in Nat /\ DOMAIN x = 1..n
    BY ListIs
  <1> HIDE DEF n
  <1>2. SplitRx(x) = [ok |-> /\ e.ok /\ ~(e.data # <<>>)
                             /\ \A i \in DOMAIN e.replies : e.replies[i].data = <<>> => e.replies[i].verified = "fail",
                      replies |-> e.replies]
    BY Zenon, <1>1 DEF SplitRx, FoldLeft, MapThenFoldSet, RxStep
  <1>3. \A g : Are(g) <=> Folds(<<"rx", 0>>, x, n, g)
    BY DEF Folds, Step, Start
  <1>4. e = Received(x)
    <2> DEFINE g == CHOOSE g : Folds(<<"rx", 0>>, x, n, g)
    <2>1. Folds(<<"rx", 0>>, x, n, g)
      BY <1>1, FoldsExist
    <2>2. Folds(<<"rx", 0>>, x, n, f)
      BY <1>3, <2>1
    <2>3. Received(x) = g[1..n]
      BY DEF Received, Folded, n
    <2>4. Agree(x, x, n) /\ n <= n
      BY <1>1 DEF Agree
    <2> HIDE DEF f, g
    <2>5. f[1..n] = g[1..n]
      BY <1>1, <2>1, <2>2, <2>4, FoldsAgree
    <2> QED BY <2>3, <2>5
  <1> HIDE DEF e
  <1> QED BY <1>2, <1>4

LEMMA FoldOfBatches ==
  ASSUME NEW x, NEW width, IsSeq(x)
  PROVE  Batches(x, width) = IF Batched(width, x).group = <<>> THEN Batched(width, x).groups
                             ELSE Append(Batched(width, x).groups, Batched(width, x).group)
  <1> DEFINE n == Len(x)
             Are(f) == f = [s \in SUBSET (1..n) |->
                              IF s = {} THEN [groups |-> <<>>, group |-> <<>>, started |-> 0]
                              ELSE BatchStep(width, f[s \ {Max(s)}], x[Max(s)])]
             f == CHOOSE f : Are(f)
             e == f[1..n]
  <1>1. n \in Nat /\ DOMAIN x = 1..n
    BY ListIs
  <1> HIDE DEF n
  <1>2. Batches(x, width) = IF e.group = <<>> THEN e.groups ELSE Append(e.groups, e.group)
    <2>1. CASE e.group = <<>>
      <3>1. Batches(x, width) = e.groups
        BY Zenon, <1>1, <2>1 DEF Batches, FoldLeft, MapThenFoldSet, BatchStep
      <3> QED BY <2>1, <3>1
    <2>2. CASE e.group # <<>>
      <3>1. Batches(x, width) = Append(e.groups, e.group)
        BY Zenon, <1>1, <2>2 DEF Batches, FoldLeft, MapThenFoldSet, BatchStep
      <3> QED BY <2>2, <3>1
    <2> QED BY <2>1, <2>2
  <1>3. \A g : Are(g) <=> Folds(<<"batch", width>>, x, n, g)
    BY DEF Folds, Step, Start
  <1>4. e = Batched(width, x)
    <2> DEFINE g == CHOOSE g : Folds(<<"batch", width>>, x, n, g)
    <2>1. Folds(<<"batch", width>>, x, n, g)
      BY <1>1, FoldsExist
    <2>2. Folds(<<"batch", width>>, x, n, f)
      BY <1>3, <2>1
    <2>3. Batched(width, x) = g[1..n]
      BY DEF Batched, Folded, n
    <2>4. Agree(x, x, n) /\ n <= n
      BY <1>1 DEF Agree
    <2> HIDE DEF f, g
    <2>5. f[1..n] = g[1..n]
      BY <1>1, <2>1, <2>2, <2>4, FoldsAgree
    <2> QED BY <2>3, <2>5
  <1> HIDE DEF e
  <1> QED BY <1>2, <1>4

LEMMA FlattenIs == ASSUME NEW s, Lists(s) PROVE IsSeq(FlattenSeq(s))
  <1>1. PICK S : s \in Seq(Seq(S))
    BY ListsIn
  <1> QED BY <1>1, FlattenIn DEF IsSeq

-----------------------------------------------------------------------------
(* Commands of the host, their opcodes, and how many messages they start.  *)
IsPacket(p) == \E op \in Loads \union Starts : \E payload : p = <<op, payload>>
Packets(x) == IsSeq(x) /\ \A i \in 1..Len(x) : IsPacket(x[i])
Ops(x) == [i \in 1..Len(x) |-> x[i][1]]
Count(x, K) == Ones(Ops(x), K)
Started(x) == Count(x, Starts)
Tagged(x) == Count(x, {"AUTH_TAG"})

LEMMA OpsAre ==
  ASSUME NEW x, IsSeq(x)
  PROVE  IsSeq(Ops(x)) /\ Len(Ops(x)) = Len(x) /\ (\A i \in 1..Len(x) : Ops(x)[i] = x[i][1])
         /\ (\A K : Count(x, K) \in Nat) /\ Started(x) \in Nat /\ Tagged(x) \in Nat
  <1>1. Len(x) \in Nat
    BY ListIs
  <1> DEFINE f == Ops(x)
  <1>2. f = [i \in 1..Len(x) |-> f[i]] /\ \A i \in 1..Len(x) : f[i] = x[i][1]
    BY DEF Ops
  <1> HIDE DEF f
  <1>3. IsSeq(f) /\ Len(f) = Len(x)
    BY <1>1, <1>2, ListOf
  <1>4. \A K : Ones(f, K) \in Nat
    BY <1>3, OnesFinite
  <1>5. \A K : Count(x, K) \in Nat
    BY <1>4 DEF f, Count
  <1>6. Started(x) \in Nat /\ Tagged(x) \in Nat
    BY <1>5 DEF Started, Tagged
  <1> QED BY <1>2, <1>3, <1>5, <1>6 DEF f

LEMMA CountNone == ASSUME NEW K PROVE Count(<<>>, K) = 0
  <1>1. IsSeq(Ops(<<>>)) /\ Len(Ops(<<>>)) = 0
    BY OpsAre, ListEmpty
  <1>2. Ops(<<>>) = <<>>
    BY <1>1, ListIs
  <1> QED BY <1>2, OnesNone DEF Count
LEMMA StartedNone == Started(<<>>) = 0 /\ Tagged(<<>>) = 0
  BY CountNone DEF Started, Tagged

LEMMA CountMore ==
  ASSUME NEW x, NEW p, IsSeq(x), NEW K
  PROVE  Count(Append(x, p), K) = Count(x, K) + IF p[1] \in K THEN 1 ELSE 0
  <1> DEFINE n == Len(x)
             y == Append(x, p)
             s == Ops(x)
             t == Ops(y)
             u == Append(s, p[1])
  <1>1. n \in Nat /\ IsSeq(y) /\ Len(y) = n + 1 /\ y[n + 1] = p /\ \A i \in 1..n : y[i] = x[i]
    BY ListIs, ListAppend
  <1>2. IsSeq(s) /\ Len(s) = n /\ \A i \in 1..n : s[i] = x[i][1]
    BY OpsAre
  <1> HIDE DEF y, n
  <1>3. IsSeq(t) /\ Len(t) = n + 1 /\ \A i \in 1..n + 1 : t[i] = y[i][1]
    BY <1>1, OpsAre
  <1> HIDE DEF s, t
  <1>4. IsSeq(u) /\ Len(u) = n + 1 /\ u[n + 1] = p[1] /\ \A i \in 1..n : u[i] = s[i]
    BY <1>2, ListAppend
  <1> HIDE DEF u
  <1>5. \A i \in 1..n + 1 : t[i] = u[i]
    BY <1>1, <1>2, <1>3, <1>4
  <1>6. t = u
    BY <1>3, <1>4, <1>5, ListSame
  <1>7. Ones(u, K) = Ones(s, K) + IF p[1] \in K THEN 1 ELSE 0
    BY <1>2, OnesMore DEF u
  <1> QED BY <1>6, <1>7 DEF Count, s, t, y
LEMMA StartedMore ==
  ASSUME NEW x, NEW p, IsSeq(x)
  PROVE  /\ Started(Append(x, p)) = Started(x) + IF p[1] \in Starts THEN 1 ELSE 0
         /\ Tagged(Append(x, p)) = Tagged(x) + IF p[1] = "AUTH_TAG" THEN 1 ELSE 0
  BY CountMore DEF Started, Tagged

LEMMA PacketsMore ==
  ASSUME NEW x, NEW p, Packets(x), IsPacket(p)
  PROVE  Packets(Append(x, p))
  BY ListIs, ListAppend DEF Packets

(* Whole groups of at most width messages.                                 *)
Grouped(width, gs) ==
    /\ Lists(gs)
    /\ \A i \in 1..Len(gs) : Packets(gs[i]) /\ gs[i] # <<>> /\ Started(gs[i]) <= width

LEMMA GroupedMore ==
  ASSUME NEW width, NEW gs, NEW g, Grouped(width, gs), Packets(g), g # <<>>, Started(g) <= width
  PROVE  Grouped(width, Append(gs, g)) /\ FlattenSeq(Append(gs, g)) = FlattenSeq(gs) \o g
         /\ IsSeq(FlattenSeq(gs))
  <1>1. Lists(gs) /\ IsSeq(g) /\ IsSeq(gs)
    BY DEF Grouped, Packets, Lists
  <1>2. /\ Lists(Append(gs, g)) /\ FlattenSeq(Append(gs, g)) = FlattenSeq(gs) \o g
        /\ IsSeq(FlattenSeq(gs))
    BY <1>1, FlatLast
  <1>3. Len(Append(gs, g)) = Len(gs) + 1 /\ Append(gs, g)[Len(gs) + 1] = g /\ Len(gs) \in Nat
        /\ \A i \in 1..Len(gs) : Append(gs, g)[i] = gs[i]
    BY <1>1, ListAppend, ListIs
  <1>4. \A i \in 1..Len(gs) + 1 : i = Len(gs) + 1 \/ i \in 1..Len(gs)
    BY <1>3
  <1>5. Grouped(width, Append(gs, g))
    BY <1>2, <1>3, <1>4 DEF Grouped
  <1> QED BY <1>2, <1>5

(* What Batches has made of x so far.                                      *)
Batch(gs, group, started) == [groups |-> gs, group |-> group, started |-> started]
BatchOf(width, x, gs, group) ==
    /\ Batched(width, x) = Batch(gs, group, Started(group))
    /\ Grouped(width, gs) /\ Packets(group) /\ FlattenSeq(gs) \o group = x
    /\ Started(group) < width /\ (width = 1 => group = <<>>)

LEMMA BatchOfMore ==
  ASSUME NEW width \in Nat \ {0}, NEW x, NEW gs, NEW group, BatchOf(width, x, gs, group),
         IsSeq(x), NEW p, IsPacket(p)
  PROVE  \E hs, h : BatchOf(width, Append(x, p), hs, h)
  <1> DEFINE g == Append(group, p)
             n == Started(group)
             b == Batch(gs, group, n)
             k == IF p[1] \in Starts THEN 1 ELSE 0
  <1>1. Packets(group) /\ IsSeq(group) /\ Grouped(width, gs) /\ IsSeq(gs) /\ n \in Nat /\ n < width
        /\ FlattenSeq(gs) \o group = x
    BY OpsAre DEF BatchOf, Packets, Grouped, Lists
  <1>2. Packets(g) /\ Started(g) = n + k /\ g # <<>> /\ IsSeq(g)
    <2>1. Packets(g) /\ Started(g) = n + k
      BY <1>1, PacketsMore, StartedMore
    <2>2. Len(g) = Len(group) + 1 /\ Len(group) \in Nat /\ IsSeq(g)
      BY <1>1, ListAppend, ListIs
    <2>3. Len(g) # 0
      BY <2>2
    <2>4. g # <<>>
      BY <2>3, NotEmpty
    <2> QED BY <2>1, <2>2, <2>4
  <1>3. Batched(width, Append(x, p)) = BatchStep(width, b, p)
    <2>1. Batched(width, Append(x, p)) = Step(<<"batch", width>>, Batched(width, x), p)
      BY FoldedMore DEF Batched
    <2> QED BY <2>1 DEF Step, BatchOf
  <1>4. IsSeq(FlattenSeq(gs)) /\ FlattenSeq(gs) \o g = Append(x, p)
    <2>1. IsSeq(FlattenSeq(gs))
      BY <1>1, FlattenIs DEF Grouped
    <2>2. ASSUME NEW u, NEW v, NEW e, IsSeq(u), IsSeq(v) PROVE u \o Append(v, e) = Append(u \o v, e)
      BY <2>2, ListOneMore
    <2>3. FlattenSeq(gs) \o Append(group, p) = Append(FlattenSeq(gs) \o group, p)
      <3>1. IsSeq(group)
        BY <1>1
      <3> QED BY <2>1, <2>2, <3>1
    <2> QED BY <1>1, <2>1, <2>3
  <1>5. BatchStep(width, b, p) = IF width = 1 \/ n + k = width THEN Batch(Append(gs, g), <<>>, 0)
                                 ELSE Batch(gs, g, n + k)
    <2>1. b.groups = gs /\ b.group = group /\ b.started = n
      BY DEF Batch
    <2>2. [b EXCEPT !.group = g, !.started = n + k] = Batch(gs, g, n + k)
      <3>1. ASSUME NEW h, NEW m, NEW t
            PROVE  [Batch(gs, group, m) EXCEPT !.group = h, !.started = t] = Batch(gs, h, t)
        <4>1. [Batch(gs, group, m) EXCEPT !.group = h, !.started = t]
                = [[Batch(gs, group, m) EXCEPT !.group = h] EXCEPT !.started = t]
          BY DEF Batch
        <4>2. [Batch(gs, group, m) EXCEPT !.group = h] = Batch(gs, h, m)
          BY DEF Batch
        <4>3. [Batch(gs, h, m) EXCEPT !.started = t] = Batch(gs, h, t)
          BY DEF Batch
        <4> QED BY <4>1, <4>2, <4>3
      <3> HIDE DEF n, g, k
      <3> QED BY <3>1
    <2>3. BatchStep(width, b, p) = IF width = 1 \/ n + k = width THEN Batch(Append(gs, g), <<>>, 0)
                                   ELSE [b EXCEPT !.group = g, !.started = n + k]
      <3> HIDE DEF n, b
      <3> QED BY <2>1 DEF BatchStep, Batch
    <2> QED BY <2>2, <2>3
  <1>6. CASE width = 1 \/ n + k = width
    <2>1. Started(g) <= width
      BY <1>1, <1>2, <1>6
    <2>2. Grouped(width, Append(gs, g)) /\ FlattenSeq(Append(gs, g)) = FlattenSeq(gs) \o g
      BY <1>1, <1>2, <2>1, GroupedMore
    <2>3. Packets(<<>>) /\ Started(<<>>) = 0 /\ IsSeq(<<>>)
      BY ListEmpty, StartedNone DEF Packets
    <2>4. FlattenSeq(Append(gs, g)) \o <<>> = Append(x, p)
      <3>1. IsSeq(FlattenSeq(gs) \o g)
        BY <1>1, <1>4, ListAppend, ListIs, ListJoin, <1>2
      <3> QED BY <1>4, <2>2, <3>1, ListNothing
    <2>5. Batched(width, Append(x, p)) = Batch(Append(gs, g), <<>>, Started(<<>>))
      BY <1>3, <1>5, <1>6, <2>3
    <2> HIDE DEF g, n, k, b
    <2>6. BatchOf(width, Append(x, p), Append(gs, g), <<>>)
      BY <2>2, <2>3, <2>4, <2>5 DEF BatchOf
    <2> QED BY <2>6
  <1>7. CASE ~(width = 1 \/ n + k = width)
    <2>1. Started(g) < width /\ width # 1
      BY <1>1, <1>2, <1>7
    <2>2. Batched(width, Append(x, p)) = Batch(gs, g, Started(g))
      BY <1>2, <1>3, <1>5, <1>7
    <2> HIDE DEF g, n, k, b
    <2>3. BatchOf(width, Append(x, p), gs, g)
      BY <1>1, <1>2, <1>4, <2>1, <2>2 DEF BatchOf
    <2> QED BY <2>3
  <1> QED BY <1>6, <1>7

LEMMA BatchOfNone ==
  ASSUME NEW width \in Nat \ {0}
  PROVE  BatchOf(width, <<>>, <<>>, <<>>)
  <1>1. Batched(width, <<>>) = Batch(<<>>, <<>>, Started(<<>>))
    BY FoldedNone, StartedNone DEF Batched, Start, Batch
  <1>2. Grouped(width, <<>>) /\ Packets(<<>>) /\ IsSeq(<<>>)
    BY ListEmpty DEF Grouped, Lists, Packets
  <1>3. FlattenSeq(<<>>) \o <<>> = <<>>
    BY <1>2, FlattenEmpty, ListNothing
  <1>4. Started(<<>>) < width
    BY StartedNone
  <1> QED BY <1>1, <1>2, <1>3, <1>4 DEF BatchOf

LEMMA BatchOfAny ==
  ASSUME NEW width \in Nat \ {0}, NEW x, Packets(x)
  PROVE  \E gs, group : BatchOf(width, x, gs, group)
  <1> DEFINE T == {n \in Nat : \E y : Packets(y) /\ Len(y) = n /\ ~\E gs, group : BatchOf(width, y, gs, group)}
  <1>1. T = {}
    <2> SUFFICES ASSUME T # {} PROVE FALSE
      OBVIOUS
    <2>1. PICK n \in T : \A m \in T : n <= m
      <3>1. T \subseteq Nat
        OBVIOUS
      <3> QED BY <3>1, NatMin
    <2>2. PICK y : Packets(y) /\ Len(y) = n /\ ~\E gs, group : BatchOf(width, y, gs, group)
      BY <2>1
    <2>3. y # <<>>
      BY <2>2, BatchOfNone
    <2> DEFINE v == SubSeq(y, 1, Len(y) - 1)
               p == y[Len(y)]
    <2>4. IsSeq(v) /\ Len(y) \in Nat \ {0} /\ Len(v) = Len(y) - 1 /\ y = Append(v, p)
          /\ \A i \in 1..Len(y) - 1 : v[i] = y[i]
      BY <2>2, <2>3, ListStrip DEF Packets
    <2> HIDE DEF v
    <2>5. Packets(v) /\ IsPacket(p)
      <3>1. \A i \in 1..Len(y) - 1 : i \in 1..Len(y)
        BY <2>4
      <3> QED BY <2>2, <2>4, <3>1 DEF Packets
    <2> HIDE DEF p
    <2>6. n - 1 \in Nat /\ n - 1 \notin T /\ Len(v) = n - 1
      BY <2>1, <2>2, <2>4
    <2>7. PICK gs, group : BatchOf(width, v, gs, group)
      BY <2>5, <2>6
    <2>8. \E hs, h : BatchOf(width, Append(v, p), hs, h)
      BY <2>4, <2>5, <2>7, BatchOfMore
    <2> QED BY <2>2, <2>4, <2>8
  <1>2. Len(x) \in Nat /\ Len(x) \notin T
    BY <1>1, ListIs DEF Packets
  <1> QED BY <1>2

(* The windows of a stream are the stream, and hold at most width messages. *)
LEMMA BatchesAre ==
  ASSUME NEW width \in Nat \ {0}, NEW x, Packets(x)
  PROVE  Grouped(width, Batches(x, width)) /\ FlattenSeq(Batches(x, width)) = x
  <1>1. PICK gs, group : BatchOf(width, x, gs, group)
    BY BatchOfAny
  <1>2. Batches(x, width) = IF group = <<>> THEN gs ELSE Append(gs, group)
    BY <1>1, FoldOfBatches DEF BatchOf, Batch, Packets
  <1>3. Grouped(width, gs) /\ Packets(group) /\ IsSeq(group) /\ FlattenSeq(gs) \o group = x /\ Started(group) <= width
        /\ IsSeq(FlattenSeq(gs))
    <2>1. Started(group) \in Nat /\ Started(group) < width
      BY <1>1, OpsAre DEF BatchOf, Packets
    <2>2. Started(group) <= width
      BY <2>1
    <2> QED BY <1>1, <2>2, FlattenIs DEF BatchOf, Packets, Grouped
  <1>4. CASE group = <<>>
    BY <1>2, <1>3, <1>4, ListNothing
  <1>5. CASE group # <<>>
    BY <1>2, <1>3, <1>5, GroupedMore
  <1> QED BY <1>4, <1>5

-----------------------------------------------------------------------------
(* What the IP needs before a start is loaded right before it.             *)
Full(payload) == IsSeq(payload) /\ payload # <<>>
Filled(need, payload) == need = "full" => Full(payload)
Prepared(need, x, j) ==
    /\ x[j][1] = "START_ENCRYPT" => j > 1 /\ x[j - 1][1] = "LOAD_PLAINTEXT" /\ Filled(need, x[j - 1][2])
    /\ x[j][1] = "START_DECRYPT" =>
           /\ j > 2 /\ x[j - 1][1] = "LOAD_TAG_REF" /\ Filled(need, x[j - 1][2])
           /\ x[j - 2][1] = "LOAD_PLAINTEXT" /\ Filled(need, x[j - 2][2])

(* A stream of such packets, of the opcodes in K, which starts n messages. *)
Serves(need, x, K, n) ==
    /\ Packets(x) /\ Started(x) = n
    /\ \A j \in 1..Len(x) : x[j][1] \in K /\ Prepared(need, x, j)

LEMMA CountJoin ==
  ASSUME NEW x, NEW y, IsSeq(x), IsSeq(y), NEW K
  PROVE  Count(x \o y, K) = Count(x, K) + Count(y, K)
  <1> DEFINE m == Len(x)
             n == Len(y)
             z == x \o y
             s == Ops(x)
             t == Ops(y)
             u == Ops(z)
             v == s \o t
  <1>1. m \in Nat /\ n \in Nat
    BY ListIs
  <1>2. IsSeq(z) /\ Len(z) = m + n /\ (\A i \in 1..m : z[i] = x[i]) /\ \A i \in 1..n : z[m + i] = y[i]
    BY ListJoin
  <1>3. IsSeq(s) /\ Len(s) = m /\ \A i \in 1..m : s[i] = x[i][1]
    BY OpsAre
  <1>4. IsSeq(t) /\ Len(t) = n /\ \A i \in 1..n : t[i] = y[i][1]
    BY OpsAre
  <1> HIDE DEF m, n, z
  <1>5. IsSeq(u) /\ Len(u) = m + n /\ \A i \in 1..m + n : u[i] = z[i][1]
    BY <1>2, OpsAre
  <1> HIDE DEF s, t, u
  <1>6. IsSeq(v) /\ Len(v) = m + n /\ (\A i \in 1..m : v[i] = s[i]) /\ \A i \in 1..n : v[m + i] = t[i]
    BY <1>3, <1>4, ListJoin
  <1> HIDE DEF v
  <1>7. \A i \in 1..m + n : u[i] = v[i]
    <2> TAKE i \in 1..m + n
    <2>1. CASE i \in 1..m
      <3>1. i \in 1..m + n
        OBVIOUS
      <3> QED BY <1>2, <1>3, <1>5, <1>6, <2>1
    <2>2. CASE i \notin 1..m
      <3>1. i - m \in 1..n /\ m + (i - m) = i
        BY <1>1, <2>2
      <3>2. z[m + (i - m)] = y[i - m] /\ v[m + (i - m)] = t[i - m] /\ t[i - m] = y[i - m][1]
        BY <1>2, <1>4, <1>6, <3>1
      <3> QED BY <1>5, <3>1, <3>2
    <2> QED BY <2>1, <2>2
  <1>8. u = v
    BY <1>5, <1>6, <1>7, ListSame
  <1>9. Ones(v, K) = Ones(s, K) + Ones(t, K)
    BY <1>3, <1>4, OnesJoin DEF v
  <1> QED BY <1>8, <1>9 DEF Count, s, t, u, z
LEMMA OpsJoin ==
  ASSUME NEW x, NEW y, IsSeq(x), IsSeq(y)
  PROVE  Started(x \o y) = Started(x) + Started(y) /\ Tagged(x \o y) = Tagged(x) + Tagged(y)
  BY CountJoin DEF Started, Tagged
LEMMA CountFirst ==
  ASSUME NEW x, IsSeq(x), x # <<>>, NEW K
  PROVE  Count(x, K) = Count(Tail(x), K) + IF x[1][1] \in K THEN 1 ELSE 0
  <1> DEFINE n == Len(x)
             y == Tail(x)
             s == Ops(x)
             t == Ops(y)
             u == Tail(s)
  <1>1. IsSeq(y) /\ n \in Nat \ {0} /\ Len(y) = n - 1 /\ \A i \in 1..n - 1 : y[i] = x[i + 1]
    BY ListTail
  <1>2. IsSeq(s) /\ Len(s) = n /\ \A i \in 1..n : s[i] = x[i][1]
    BY OpsAre
  <1> HIDE DEF y, n
  <1>3. IsSeq(t) /\ Len(t) = n - 1 /\ \A i \in 1..n - 1 : t[i] = y[i][1]
    BY <1>1, OpsAre
  <1> HIDE DEF s, t
  <1>4. s # <<>> /\ IsSeq(u) /\ Len(u) = n - 1 /\ \A i \in 1..n - 1 : u[i] = s[i + 1]
    <2>1. s # <<>>
      BY <1>1, <1>2, ListIs
    <2> QED BY <1>2, <2>1, ListTail
  <1> HIDE DEF u
  <1>5. \A i \in 1..n - 1 : t[i] = u[i]
    <2>1. \A i \in 1..n - 1 : i + 1 \in 1..n
      BY <1>1
    <2> QED BY <1>1, <1>2, <1>3, <1>4, <2>1
  <1>6. t = u
    BY <1>3, <1>4, <1>5, ListSame
  <1>7. Ones(s, K) = Ones(u, K) + IF s[1] \in K THEN 1 ELSE 0
    BY <1>2, <1>4, OnesFirst DEF u
  <1>8. s[1] = x[1][1]
    BY <1>1, <1>2
  <1> QED BY <1>6, <1>7, <1>8 DEF Count, s, t, y
LEMMA OpsFirst ==
  ASSUME NEW x, IsSeq(x), x # <<>>
  PROVE  /\ Started(x) = Started(Tail(x)) + IF x[1][1] \in Starts THEN 1 ELSE 0
         /\ Tagged(x) = Tagged(Tail(x)) + IF x[1][1] = "AUTH_TAG" THEN 1 ELSE 0
  BY CountFirst DEF Started, Tagged

LEMMA ServesJoin ==
  ASSUME NEW need, NEW K, NEW x, NEW y, NEW m, NEW n, Serves(need, x, K, m), Serves(need, y, K, n)
  PROVE  Serves(need, x \o y, K, m + n)
  <1> DEFINE a == Len(x)
             b == Len(y)
             z == x \o y
  <1>1. IsSeq(x) /\ IsSeq(y) /\ a \in Nat /\ b \in Nat
    BY ListIs DEF Serves, Packets
  <1>2. IsSeq(z) /\ Len(z) = a + b /\ (\A i \in 1..a : z[i] = x[i]) /\ \A i \in 1..b : z[a + i] = y[i]
    BY <1>1, ListJoin
  <1>3. Started(z) = m + n
    BY <1>1, OpsJoin DEF Serves
  <1>4. (\A i \in 1..a : IsPacket(x[i]) /\ x[i][1] \in K /\ Prepared(need, x, i))
        /\ \A i \in 1..b : IsPacket(y[i]) /\ y[i][1] \in K /\ Prepared(need, y, i)
    BY DEF Serves, Packets
  <1> HIDE DEF a, b, z
  <1>5. ASSUME NEW i \in 1..a + b
        PROVE  IsPacket(z[i]) /\ z[i][1] \in K /\ Prepared(need, z, i)
    <2>1. CASE i \in 1..a
      <3>1. z[i] = x[i] /\ (i > 1 => z[i - 1] = x[i - 1]) /\ (i > 2 => z[i - 2] = x[i - 2])
        <4>1. (i > 1 => i - 1 \in 1..a) /\ (i > 2 => i - 2 \in 1..a)
          BY <1>1, <2>1
        <4> QED BY <1>2, <2>1, <4>1
      <3>2. IsPacket(x[i]) /\ x[i][1] \in K /\ Prepared(need, x, i)
        BY <1>4, <2>1
      <3> QED BY <3>1, <3>2 DEF Prepared
    <2>2. CASE i \notin 1..a
      <3> DEFINE j == i - a
      <3>1. j \in 1..b /\ a + j = i /\ (j > 1 => i > 1 /\ j - 1 \in 1..b /\ a + (j - 1) = i - 1)
            /\ (j > 2 => i > 2 /\ j - 2 \in 1..b /\ a + (j - 2) = i - 2)
        BY <1>1, <2>2
      <3> HIDE DEF j
      <3>2. z[i] = y[j] /\ (j > 1 => z[i - 1] = y[j - 1]) /\ (j > 2 => z[i - 2] = y[j - 2])
        <4>1. z[a + j] = y[j] /\ (j > 1 => z[a + (j - 1)] = y[j - 1]) /\ (j > 2 => z[a + (j - 2)] = y[j - 2])
          BY <1>2, <3>1
        <4> QED BY <3>1, <4>1
      <3>3. IsPacket(y[j]) /\ y[j][1] \in K /\ Prepared(need, y, j)
        BY <1>4, <3>1
      <3> QED BY <3>1, <3>2, <3>3 DEF Prepared
    <2> QED BY <2>1, <2>2
  <1>6. Packets(z)
    BY <1>2, <1>5 DEF Packets
  <1>7. Serves(need, z, K, m + n)
    BY <1>2, <1>3, <1>5, <1>6 DEF Serves
  <1> QED BY <1>7 DEF z

LEMMA ServesNone == ASSUME NEW need, NEW K PROVE Serves(need, <<>>, K, 0)
  BY StartedNone, ListEmpty DEF Serves, Packets

(* Each one message long.                                                  *)
LEMMA ServesFlat ==
  ASSUME NEW need, NEW K, NEW s, IsSeq(s), \A i \in 1..Len(s) : Serves(need, s[i], K, 1)
  PROVE  Serves(need, FlattenSeq(s), K, Len(s))
  <1> DEFINE Each(x) == IsSeq(x) /\ \A i \in 1..Len(x) : Serves(need, x[i], K, 1)
             T == {n \in Nat : \E x : Each(x) /\ Len(x) = n /\ ~Serves(need, FlattenSeq(x), K, n)}
  <1>1. T = {}
    <2> SUFFICES ASSUME T # {} PROVE FALSE
      OBVIOUS
    <2>1. PICK n \in T : \A m \in T : n <= m
      <3>1. T \subseteq Nat
        OBVIOUS
      <3> QED BY <3>1, NatMin
    <2>2. PICK x : Each(x) /\ Len(x) = n /\ ~Serves(need, FlattenSeq(x), K, n)
      BY <2>1
    <2>3. n # 0 /\ x # <<>>
      BY <2>2, FlattenEmpty, ServesNone, ListIs
    <2> DEFINE v == SubSeq(x, 1, Len(x) - 1)
               b == x[Len(x)]
    <2>4. IsSeq(v) /\ Len(x) \in Nat \ {0} /\ Len(v) = Len(x) - 1 /\ x = Append(v, b)
          /\ \A i \in 1..Len(x) - 1 : v[i] = x[i]
      BY <2>2, <2>3, ListStrip
    <2> HIDE DEF v
    <2>5. Each(v) /\ Serves(need, b, K, 1)
      <3>1. Len(x) \in 1..Len(x) /\ \A i \in 1..Len(x) - 1 : i \in 1..Len(x)
        BY <2>4
      <3> QED BY <2>2, <2>4, <3>1
    <2> HIDE DEF b
    <2>6. n - 1 \in Nat /\ n - 1 \notin T /\ Len(v) = n - 1 /\ (n - 1) + 1 = n
      BY <2>1, <2>2, <2>4
    <2>7. Serves(need, FlattenSeq(v), K, n - 1)
      BY <2>5, <2>6
    <2>8. Lists(v) /\ IsSeq(b)
      BY <2>5 DEF Lists, Serves, Packets
    <2>9. FlattenSeq(Append(v, b)) = FlattenSeq(v) \o b
      BY <2>8, FlatLast
    <2>10. Serves(need, FlattenSeq(v) \o b, K, (n - 1) + 1)
      BY <2>5, <2>7, ServesJoin
    <2> QED BY <2>2, <2>4, <2>6, <2>9, <2>10
  <1>2. Len(s) \in Nat /\ Len(s) \notin T
    BY <1>1, ListIs
  <1> QED BY <1>2

LEMMA ServesLoad ==
  ASSUME NEW need, NEW K, NEW op \in Loads, op \in K, NEW payload
  PROVE  Serves(need, <<<<op, payload>>>>, K, 0)
  <1> DEFINE p == <<op, payload>>
             x == <<p>>
  <1>1. p[1] = op /\ op \notin Starts /\ IsPacket(p)
    BY DEF Loads, CMD_ACKS, Starts, IsPacket
  <1> HIDE DEF p
  <1>2. IsSeq(x) /\ Len(x) = 1 /\ x[1] = p
    BY ListOne
  <1>3. x = Append(<<>>, p)
    OBVIOUS
  <1>4. Started(x) = 0
    <2>1. Started(Append(<<>>, p)) = Started(<<>>) + IF p[1] \in Starts THEN 1 ELSE 0
      BY StartedMore, ListEmpty
    <2>2. p[1] \notin Starts
      BY <1>1
    <2> HIDE DEF x
    <2> QED BY <1>3, <2>1, <2>2, StartedNone
  <1> HIDE DEF x
  <1>5. Prepared(need, x, 1) /\ \A j \in 1..1 : j = 1
    BY <1>1, <1>2 DEF Prepared, Starts
  <1>6. Serves(need, x, K, 0)
    BY <1>1, <1>2, <1>4, <1>5 DEF Serves, Packets
  <1> QED BY <1>6 DEF x, p

LEMMA ServesAad ==
  ASSUME NEW need, NEW K, "LOAD_AAD" \in K, NEW aad
  PROVE  Serves(need, AadPacket(aad), K, 0)
  <1>1. "LOAD_AAD" \in Loads
    BY DEF Loads, CMD_ACKS
  <1> QED BY <1>1, ServesNone, ServesLoad DEF AadPacket

LEMMA ListAre2 ==
  ASSUME NEW a, NEW b
  PROVE  LET x == <<a, b>> IN IsSeq(x) /\ Len(x) = 2 /\ x[1] = a /\ x[2] = b /\ \A j \in 1..2 : j = 1 \/ j = 2
  <1>1. <<a, b>> \in Seq({a, b})
    OBVIOUS
  <1>2. \A j \in 1..2 : j = 1 \/ j = 2
    OBVIOUS
  <1> QED BY <1>1, <1>2 DEF IsSeq
LEMMA ListAre3 ==
  ASSUME NEW a, NEW b, NEW c
  PROVE  LET x == <<a, b, c>>
         IN  IsSeq(x) /\ Len(x) = 3 /\ x[1] = a /\ x[2] = b /\ x[3] = c /\ \A j \in 1..3 : j = 1 \/ j = 2 \/ j = 3
  <1>1. <<a, b, c>> \in Seq({a, b, c})
    OBVIOUS
  <1>2. \A j \in 1..3 : j = 1 \/ j = 2 \/ j = 3
    OBVIOUS
  <1> QED BY <1>1, <1>2 DEF IsSeq

(* How many messages two and three packets start.                          *)
LEMMA StartedOne == ASSUME NEW a PROVE Started(<<a>>) = IF a[1] \in Starts THEN 1 ELSE 0
  <1>1. Started(Append(<<>>, a)) = Started(<<>>) + IF a[1] \in Starts THEN 1 ELSE 0
    BY StartedMore, ListEmpty
  <1>2. Append(<<>>, a) = <<a>>
    OBVIOUS
  <1> QED BY <1>1, <1>2, StartedNone
LEMMA StartedTwo ==
  ASSUME NEW a, NEW b
  PROVE  Started(<<a, b>>) = (IF a[1] \in Starts THEN 1 ELSE 0) + IF b[1] \in Starts THEN 1 ELSE 0
  <1>1. Started(<<a>> \o <<b>>) = Started(<<a>>) + Started(<<b>>)
    BY OpsJoin, ListOne
  <1>2. <<a>> \o <<b>> = <<a, b>>
    BY OneAndOne
  <1> QED BY <1>1, <1>2, StartedOne
LEMMA StartedThree ==
  ASSUME NEW a, NEW b, NEW c
  PROVE  Started(<<a, b, c>>) = ((IF a[1] \in Starts THEN 1 ELSE 0) + IF b[1] \in Starts THEN 1 ELSE 0)
                                + IF c[1] \in Starts THEN 1 ELSE 0
  <1>1. Started(<<a, b>> \o <<c>>) = Started(<<a, b>>) + Started(<<c>>)
    BY OpsJoin, ListOne, ListAre2
  <1>2. <<a, b>> \o <<c>> = <<a, b, c>>
    BY TwoAndOne
  <1> QED BY <1>1, <1>2, StartedOne, StartedTwo

LEMMA ServesEncryption ==
  ASSUME NEW need, NEW K, {"LOAD_PLAINTEXT", "START_ENCRYPT"} \subseteq K, NEW data, Filled(need, data)
  PROVE  Serves(need, <<<<"LOAD_PLAINTEXT", data>>, <<"START_ENCRYPT", <<>>>>>>, K, 1)
  <1> DEFINE a == <<"LOAD_PLAINTEXT", data>>
             b == <<"START_ENCRYPT", <<>>>>
             x == <<a, b>>
  <1>1. a[1] = "LOAD_PLAINTEXT" /\ a[2] = data /\ b[1] = "START_ENCRYPT" /\ IsPacket(a) /\ IsPacket(b)
        /\ a[1] \notin Starts /\ b[1] \in Starts
    BY DEF IsPacket, Loads, CMD_ACKS, Starts
  <1> HIDE DEF a, b
  <1>2. IsSeq(x) /\ Len(x) = 2 /\ x[1] = a /\ x[2] = b /\ \A j \in 1..2 : j = 1 \/ j = 2
    BY ListAre2
  <1>3. Started(x) = 1
    BY <1>1, StartedTwo
  <1> HIDE DEF x
  <1>4. Prepared(need, x, 1) /\ Prepared(need, x, 2)
    BY <1>1, <1>2 DEF Prepared
  <1>5. Packets(x) /\ \A j \in 1..Len(x) : x[j][1] \in K /\ Prepared(need, x, j)
    BY <1>1, <1>2, <1>4 DEF Packets
  <1> QED BY <1>3, <1>5 DEF Serves, x, a, b

LEMMA ServesDecryption ==
  ASSUME NEW need, NEW K, {"LOAD_PLAINTEXT", "LOAD_TAG_REF", "START_DECRYPT"} \subseteq K,
         NEW data, Filled(need, data), NEW tag, Filled(need, tag)
  PROVE  Serves(need, <<<<"LOAD_PLAINTEXT", data>>, <<"LOAD_TAG_REF", tag>>, <<"START_DECRYPT", <<>>>>>>, K, 1)
  <1> DEFINE a == <<"LOAD_PLAINTEXT", data>>
             b == <<"LOAD_TAG_REF", tag>>
             c == <<"START_DECRYPT", <<>>>>
             x == <<a, b, c>>
  <1>1. a[1] = "LOAD_PLAINTEXT" /\ a[2] = data /\ b[1] = "LOAD_TAG_REF" /\ b[2] = tag /\ c[1] = "START_DECRYPT"
        /\ IsPacket(a) /\ IsPacket(b) /\ IsPacket(c)
        /\ a[1] \notin Starts /\ b[1] \notin Starts /\ c[1] \in Starts
    BY DEF IsPacket, Loads, CMD_ACKS, Starts
  <1> HIDE DEF a, b, c
  <1>2. IsSeq(x) /\ Len(x) = 3 /\ x[1] = a /\ x[2] = b /\ x[3] = c /\ \A j \in 1..3 : j = 1 \/ j = 2 \/ j = 3
    BY ListAre3
  <1>3. Started(x) = 1
    BY <1>1, StartedThree
  <1> HIDE DEF x
  <1>4. Prepared(need, x, 1) /\ Prepared(need, x, 2) /\ Prepared(need, x, 3)
    BY <1>1, <1>2 DEF Prepared
  <1>5. Packets(x) /\ \A j \in 1..Len(x) : x[j][1] \in K /\ Prepared(need, x, j)
    BY <1>1, <1>2, <1>4 DEF Packets
  <1> QED BY <1>3, <1>5 DEF Serves, x, a, b, c

LEMMA ServesSection ==
  ASSUME NEW need, NEW K, Loads \subseteq K, "START_ENCRYPT" \in K, NEW nonce, NEW aad, NEW data, Filled(need, data)
  PROVE  Serves(need, Section(nonce, aad, data), K, 1)
  <1>1. {"LOAD_PLAINTEXT", "LOAD_IV", "LOAD_AAD"} \subseteq Loads
    BY DEF Loads, CMD_ACKS
  <1>2. Serves(need, <<<<"LOAD_IV", nonce>>>>, K, 0) /\ Serves(need, AadPacket(aad), K, 0)
    BY <1>1, ServesLoad, ServesAad
  <1>3. Serves(need, <<<<"LOAD_PLAINTEXT", data>>, <<"START_ENCRYPT", <<>>>>>>, K, 1)
    BY <1>1, ServesEncryption
  <1>4. Serves(need, <<<<"LOAD_IV", nonce>>>> \o AadPacket(aad), K, 0 + 0)
    BY Zenon, <1>2, ServesJoin
  <1>5. 0 + 0 = 0 /\ 0 + 1 = 1
    OBVIOUS
  <1>6. Serves(need, (<<<<"LOAD_IV", nonce>>>> \o AadPacket(aad)) \o <<<<"LOAD_PLAINTEXT", data>>, <<"START_ENCRYPT", <<>>>>>>, K, 0 + 1)
    BY Zenon, <1>3, <1>4, <1>5, ServesJoin
  <1> QED BY <1>5, <1>6 DEF Section

(* What the host sends to have a reply checked.                            *)
Check(nonce, aad, data, tag) ==
    <<<<"LOAD_IV", nonce>>>> \o AadPacket(aad)
    \o <<<<"LOAD_PLAINTEXT", data>>, <<"LOAD_TAG_REF", tag>>, <<"START_DECRYPT", <<>>>>>>

LEMMA ServesCheck ==
  ASSUME NEW need, NEW K, Loads \subseteq K, "START_DECRYPT" \in K, NEW nonce, NEW aad, NEW data, Filled(need, data), NEW tag, Filled(need, tag)
  PROVE  Serves(need, Check(nonce, aad, data, tag), K, 1)
  <1>1. {"LOAD_PLAINTEXT", "LOAD_IV", "LOAD_AAD", "LOAD_TAG_REF"} \subseteq Loads
    BY DEF Loads, CMD_ACKS
  <1>2. Serves(need, <<<<"LOAD_IV", nonce>>>>, K, 0) /\ Serves(need, AadPacket(aad), K, 0)
    BY <1>1, ServesLoad, ServesAad
  <1> DEFINE z == <<<<"LOAD_PLAINTEXT", data>>, <<"LOAD_TAG_REF", tag>>, <<"START_DECRYPT", <<>>>>>>
  <1>3. Serves(need, z, K, 1)
    BY <1>1, ServesDecryption
  <1> HIDE DEF z
  <1>4. Serves(need, <<<<"LOAD_IV", nonce>>>> \o AadPacket(aad), K, 0 + 0)
    BY Zenon, <1>2, ServesJoin
  <1>5. 0 + 0 = 0 /\ 0 + 1 = 1
    OBVIOUS
  <1>6. Serves(need, (<<<<"LOAD_IV", nonce>>>> \o AadPacket(aad)) \o z, K, 0 + 1)
    BY Zenon, <1>3, <1>4, <1>5, ServesJoin
  <1> QED BY <1>5, <1>6 DEF Check, z

(* A key and sections, each of one message.                                *)
LEMMA ServesKeyed ==
  ASSUME NEW need, NEW K, Loads \subseteq K, NEW key, NEW n \in Nat, NEW f, f = [i \in 1..n |-> f[i]],
         \A i \in 1..n : Serves(need, f[i], K, 1)
  PROVE  Serves(need, <<<<"LOAD_KEY", key>>>> \o FlattenSeq(f), K, n)
  <1>1. IsSeq(f) /\ Len(f) = n
    BY ListOf
  <1>2. Serves(need, FlattenSeq(f), K, n)
    BY <1>1, ServesFlat
  <1>3. Serves(need, <<<<"LOAD_KEY", key>>>>, K, 0)
    <2>1. "LOAD_KEY" \in Loads
      BY DEF Loads, CMD_ACKS
    <2> QED BY <2>1, ServesLoad
  <1>4. Serves(need, <<<<"LOAD_KEY", key>>>> \o FlattenSeq(f), K, 0 + n)
    BY <1>2, <1>3, ServesJoin
  <1> QED BY <1>4

-----------------------------------------------------------------------------
(* What each message of a built stream carries is something.               *)
LEMMA PiecesFull ==
  ASSUME Sized, NEW S, NEW data \in Seq(S), data # <<>>, NEW blocks \in Nat \ {0},
         NEW c, c = ChunkCount(Len(data), blocks), NEW i \in 1..c
  PROVE  c \in Nat /\ Full(ZeroPad(Piece(data, blocks, i)))
  <1> DEFINE size == blocks * BlockBytes
             l == Len(data)
             n == i - 1
             p == Piece(data, blocks, n + 1)
  <1>1. size \in Nat \ {0} /\ l \in Nat \ {0} /\ blocks \in Nat
    BY DEF Sized
  <1>2. c = (l + size - 1) \div size
    BY DEF ChunkCount
  <1>3. size = blocks * BlockBytes /\ l = Len(data)
    OBVIOUS
  <1> HIDE DEF size, l
  <1>4. c \in Nat /\ c - 1 \in Nat /\ (c - 1) * size \in Nat /\ (c - 1) * size < l
    BY <1>1, <1>2, CountIs
  <1>5. n \in Nat /\ n + 1 = i /\ n <= c - 1
    BY <1>4
  <1>6. n * size < l
    <2>1. n * size <= (c - 1) * size /\ n * size \in Nat
      BY <1>1, <1>4, <1>5, Multiples
    <2> DEFINE a == n * size
               b == (c - 1) * size
    <2> HIDE DEF a, b
    <2> QED BY <1>1, <1>4, <2>1 DEF a, b
  <1> HIDE DEF n
  <1>7. IsPart(S, p, data, n * size, PartLen(n * size, size, l))
    BY <1>1, <1>3, <1>5, <1>6, PieceIs
  <1>8. PartLen(n * size, size, l) \in 1..size
    <2>1. n * size \in Nat
      BY <1>1, <1>5
    <2> QED BY <1>1, <1>6, <2>1, PartLenIs
  <1>9. p \in Seq(S) /\ Len(p) \in Nat \ {0}
    <2> DEFINE m == PartLen(n * size, size, l)
    <2> HIDE DEF m, p
    <2>1. m \in 1..size /\ Len(p) = m /\ p \in Seq(S)
      BY <1>7, <1>8 DEF IsPart, m
    <2> QED BY <1>1, <1>3, <2>1
  <1> HIDE DEF p
  <1>10. Full(ZeroPad(p))
    <2> DEFINE T == S \union {{}}
               e == (-Len(p)) % BlockBytes
    <2>1. {} \in T /\ p \in Seq(T)
      BY <1>9
    <2> HIDE DEF T
    <2>2. ZeroPad(p) \in Seq(T) /\ Len(ZeroPad(p)) = Len(p) + e /\ e \in Nat
      <3> DEFINE k == Len(p)
      <3>1. k \in Nat /\ k = Len(p)
        BY <1>9
      <3>2. (-k) % BlockBytes \in 0..BlockBytes - 1
        <4> HIDE DEF k
        <4> QED BY <3>1, PadCount DEF Sized
      <3>3. ZeroPad(p) \in Seq(T) /\ Len(ZeroPad(p)) = k + ((-k) % BlockBytes)
        <4> HIDE DEF k
        <4> QED BY <2>1, <3>1, PadIs
      <3> QED BY <3>2, <3>3 DEF Sized
    <2>3. Len(ZeroPad(p)) # 0
      <3> HIDE DEF e
      <3> QED BY <1>9, <2>2
    <2> QED BY <2>2, <2>3, NotEmpty DEF Full, IsSeq
  <1> QED BY <1>4, <1>5, <1>10 DEF p

(* The stream of an image, as long as build_tx takes it.                   *)
LEMMA BuiltServes ==
  ASSUME Sized, NEW S, NEW data \in Seq(S), NEW key, NEW nonce, ~BuildRefused(data, nonce, <<>>, 1)
  PROVE  LET c == ChunkCount(Len(data), 1)
             x == BuildTx(data, key, nonce, <<>>, 1)
         IN  c \in Nat /\ Serves("full", x, Loads \union {"START_ENCRYPT"}, c) /\ Len(SplitTx(x).messages) = c
  <1> DEFINE c == ChunkCount(Len(data), 1)
             x == BuildTx(data, key, nonce, <<>>, 1)
             K == Loads \union {"START_ENCRYPT"}
             f == [i \in 1..c |-> Section(Counted(nonce, c)[i], FirstOnly(<<>>, c)[i], Pieces(data, 1, c)[i])]
  <1>1. data # <<>>
    BY DEF BuildRefused
  <1>2. c \in Nat
    <2> DEFINE l == Len(data)
               size == 1 * BlockBytes
    <2>1. l \in Nat \ {0} /\ size \in Nat \ {0} /\ c = (l + size - 1) \div size
      BY <1>1 DEF Sized, ChunkCount
    <2> HIDE DEF l, size, c
    <2> QED BY <2>1, CountIs
  <1>3. x = <<<<"LOAD_KEY", key>>>> \o FlattenSeq(f)
    BY BuildIsStream DEF Stream
  <1>4. ASSUME NEW i \in 1..c PROVE Serves("full", f[i], K, 1)
    <2>1. Filled("full", Pieces(data, 1, c)[i])
      <3>1. Full(ZeroPad(Piece(data, 1, i)))
        BY <1>1, PiecesFull
      <3> QED BY <3>1 DEF Pieces, Filled
    <2>2. Loads \subseteq K /\ "START_ENCRYPT" \in K
      OBVIOUS
    <2> HIDE DEF c, K
    <2> QED BY <2>1, <2>2, ServesSection
  <1>5. SplitTx(x).messages = MessagesOf(Counted(nonce, c), FirstOnly(<<>>, c), Pieces(data, 1, c), c)
    BY <1>2, BuiltMessages
  <1>6. Len(SplitTx(x).messages) = c
    <2> DEFINE m == MessagesOf(Counted(nonce, c), FirstOnly(<<>>, c), Pieces(data, 1, c), c)
    <2>1. m = [i \in 1..c |-> m[i]]
      BY DEF MessagesOf
    <2> HIDE DEF m, c
    <2>2. Len(m) = c
      BY <1>2, <2>1, ListOf
    <2> QED BY <1>5, <2>2 DEF m
  <1>7. f = [i \in 1..c |-> f[i]] /\ Loads \subseteq K
    OBVIOUS
  <1> HIDE DEF c, f, K, x
  <1>8. Serves("full", x, K, c)
    BY <1>2, <1>3, <1>4, <1>7, ServesKeyed
  <1> QED BY <1>2, <1>6, <1>8 DEF c, x, K

(* The stream that has all replies checked.                                *)
LEMMA CheckedServes ==
  ASSUME NEW need, NEW key, NEW messages, NEW replies, Len(messages) \in Nat,
         need = "full" => \A i \in 1..Len(messages) : Full(replies[i].data) /\ Full(replies[i].tag)
  PROVE  Serves(need, BuildDecryptTx(key, messages, replies), Loads \union Starts, Len(messages))
  <1> DEFINE n == Len(messages)
             K == Loads \union Starts
             f == [i \in 1..n |-> Check(messages[i].iv, messages[i].aad, replies[i].data, replies[i].tag)]
  <1>1. BuildDecryptTx(key, messages, replies) = <<<<"LOAD_KEY", key>>>> \o FlattenSeq(f)
    BY DEF BuildDecryptTx, Check
  <1>2. Loads \subseteq K /\ "START_DECRYPT" \in K
    BY DEF Starts
  <1>3. ASSUME NEW i \in 1..n PROVE Serves(need, f[i], K, 1)
    <2>1. Filled(need, replies[i].data) /\ Filled(need, replies[i].tag)
      BY DEF Filled
    <2> HIDE DEF n, K
    <2> QED BY <1>2, <2>1, ServesCheck
  <1>4. f = [i \in 1..n |-> f[i]] /\ n \in Nat
    OBVIOUS
  <1> HIDE DEF f, n, K
  <1>5. Serves(need, <<<<"LOAD_KEY", key>>>> \o FlattenSeq(f), K, n)
    BY <1>2, <1>3, <1>4, ServesKeyed
  <1> QED BY <1>1, <1>5 DEF n, K

-----------------------------------------------------------------------------
(* The answers to an encryption stream: every tag comes right after its    *)
(* ciphertext, and neither is empty.                                       *)
IsAnswer(x, i) ==
    /\ x[i][1] \in Acks \union {"CIPHERTEXT", "AUTH_TAG"}
    /\ x[i][1] \in {"CIPHERTEXT", "AUTH_TAG"} => Full(x[i][2])
    /\ x[i][1] = "AUTH_TAG" => i > 1 /\ x[i - 1][1] = "CIPHERTEXT"
Paired(x) == IsSeq(x) /\ \A i \in 1..Len(x) : IsAnswer(x, i)

(* What SplitRx makes of them: as many replies as tags, none of them empty. *)
Got(ok, data, replies) == [ok |-> ok, data |-> data, replies |-> replies]
AllFull(replies) == IsSeq(replies) /\ \A i \in 1..Len(replies) : Full(replies[i].data) /\ Full(replies[i].tag)
GotOf(x, ok, data, replies) ==
    /\ Received(x) = Got(ok, data, replies)
    /\ AllFull(replies) /\ Len(replies) = Tagged(x)
    /\ data = <<>> \/ Full(data)
    /\ x # <<>> /\ x[Len(x)][1] = "CIPHERTEXT" => Full(data)

LEMMA PairedFirst ==
  ASSUME NEW x, NEW p, IsSeq(x), Paired(Append(x, p))
  PROVE  /\ Paired(x) /\ p[1] \in Acks \union {"CIPHERTEXT", "AUTH_TAG"}
         /\ p[1] \in {"CIPHERTEXT", "AUTH_TAG"} => Full(p[2])
         /\ p[1] = "AUTH_TAG" => x # <<>> /\ x[Len(x)][1] = "CIPHERTEXT"
  <1> DEFINE n == Len(x)
             y == Append(x, p)
  <1>1. n \in Nat /\ IsSeq(y) /\ Len(y) = n + 1 /\ y[n + 1] = p /\ (\A i \in 1..n : y[i] = x[i]) /\ (x = <<>> <=> n = 0)
    BY ListIs, ListAppend
  <1>2. \A i \in 1..n + 1 : IsAnswer(y, i)
    BY <1>1 DEF Paired
  <1> HIDE DEF n, y
  <1>3. ASSUME NEW i \in 1..n PROVE IsAnswer(x, i)
    <2>1. i \in 1..n + 1 /\ (i > 1 => i - 1 \in 1..n)
      BY <1>1
    <2>2. y[i] = x[i] /\ (i > 1 => y[i - 1] = x[i - 1])
      BY <1>1, <2>1
    <2> QED BY <1>2, <2>1, <2>2 DEF IsAnswer
  <1>4. IsAnswer(y, n + 1) /\ (n + 1) - 1 = n
    BY <1>1, <1>2
  <1>5. p[1] = "AUTH_TAG" => x # <<>> /\ x[n][1] = "CIPHERTEXT"
    <2> SUFFICES ASSUME p[1] = "AUTH_TAG" PROVE x # <<>> /\ x[n][1] = "CIPHERTEXT"
      OBVIOUS
    <2>1. n + 1 > 1 /\ y[n][1] = "CIPHERTEXT"
      BY <1>1, <1>4 DEF IsAnswer
    <2>2. n \in 1..n
      BY <1>1, <2>1
    <2> QED BY <1>1, <2>1, <2>2
  <1>6. Paired(x)
    BY <1>3 DEF Paired, n
  <1>7. p[1] \in Acks \union {"CIPHERTEXT", "AUTH_TAG"} /\ (p[1] \in {"CIPHERTEXT", "AUTH_TAG"} => Full(p[2]))
    BY <1>1, <1>4 DEF IsAnswer
  <1> QED BY <1>5, <1>6, <1>7 DEF n

LEMMA GotSet ==
  ASSUME NEW ok, NEW data, NEW replies, NEW v, NEW r
  PROVE  /\ [Got(ok, data, replies) EXCEPT !.ok = v] = Got(v, data, replies)
         /\ [Got(ok, data, replies) EXCEPT !.replies = Append(@, r)] = Got(ok, data, Append(replies, r))
  <1>1. [Got(ok, data, replies) EXCEPT !.ok = v] = Got(v, data, replies)
    BY DEF Got
  <1>2. Got(ok, data, replies).replies = replies
    BY DEF Got
  <1>3. ASSUME NEW s PROVE [Got(ok, data, replies) EXCEPT !.replies = s] = Got(ok, data, s)
    BY DEF Got
  <1>4. [Got(ok, data, replies) EXCEPT !.replies = Append(@, r)]
          = [Got(ok, data, replies) EXCEPT !.replies = Append(Got(ok, data, replies).replies, r)]
    OBVIOUS
  <1> QED BY <1>1, <1>2, <1>3, <1>4

LEMMA GotMore ==
  ASSUME NEW x, NEW p, IsSeq(x), Paired(Append(x, p)), NEW ok, NEW data, NEW replies, GotOf(x, ok, data, replies)
  PROVE  \E k, d, rs : GotOf(Append(x, p), k, d, rs)
  <1> DEFINE y == Append(x, p)
             g == Got(ok, data, replies)
  <1>1. y # <<>> /\ y[Len(y)] = p /\ Tagged(y) = Tagged(x) + (IF p[1] = "AUTH_TAG" THEN 1 ELSE 0) /\ Tagged(x) \in Nat
    <2>1. Len(y) = Len(x) + 1 /\ y[Len(x) + 1] = p /\ Len(x) \in Nat /\ IsSeq(y)
      BY ListAppend, ListIs
    <2>2. y # <<>> /\ y[Len(y)] = p
      <3> HIDE DEF y
      <3>1. Len(y) # 0
        BY <2>1
      <3> QED BY <2>1, <3>1, NotEmpty
    <2> QED BY <2>2, StartedMore, OpsAre
  <1>2. Received(y) = RxStep(g, p)
    <2>1. Received(y) = Step(<<"rx", 0>>, Received(x), p)
      BY FoldedMore DEF Received
    <2> QED BY <2>1 DEF Step, GotOf
  <1>3. p[1] \in Acks \union {"CIPHERTEXT", "AUTH_TAG"} /\ (p[1] \in {"CIPHERTEXT", "AUTH_TAG"} => Full(p[2]))
        /\ (p[1] = "AUTH_TAG" => x # <<>> /\ x[Len(x)][1] = "CIPHERTEXT")
    BY PairedFirst
  <1>4. "CIPHERTEXT" \notin Acks /\ "AUTH_TAG" \notin Acks
    BY DEF Acks, Loads, CMD_ACKS
  <1>5. g.ok = ok /\ g.data = data /\ g.replies = replies
    BY DEF Got
  <1>6. CASE p[1] \in Acks
    <2>1. RxStep(g, p) = g
      BY <1>4, <1>6 DEF RxStep, Acks, Loads, CMD_ACKS
    <2>2. p[1] # "CIPHERTEXT" /\ p[1] # "AUTH_TAG"
      BY <1>4, <1>6
    <2> HIDE DEF y
    <2>3. GotOf(y, ok, data, replies)
      BY <1>1, <1>2, <2>1, <2>2 DEF GotOf
    <2> QED BY <2>3 DEF y
  <1>7. CASE p[1] = "CIPHERTEXT"
    <2>1. CASE data = <<>>
      <3>1. RxStep(g, p) = [g EXCEPT !.data = p[2]]
        BY <1>4, <1>5, <1>7, <2>1 DEF RxStep
      <3>2. [g EXCEPT !.data = p[2]] = Got(ok, p[2], replies)
        BY DEF Got
      <3> HIDE DEF y
      <3>3. GotOf(y, ok, p[2], replies)
        BY <1>1, <1>2, <1>3, <1>7, <3>1, <3>2 DEF GotOf
      <3> QED BY <3>3 DEF y
    <2>2. CASE data # <<>>
      <3>1. RxStep(g, p) = [g EXCEPT !.ok = FALSE]
        BY <1>4, <1>5, <1>7, <2>2 DEF RxStep
      <3>2. [g EXCEPT !.ok = FALSE] = Got(FALSE, data, replies)
        <4> DEFINE v == FALSE
        <4>1. [g EXCEPT !.ok = v] = Got(v, data, replies)
          <5> HIDE DEF v
          <5> QED BY DEF Got
        <4> QED BY <4>1
      <3>3. Full(data)
        BY <2>2 DEF GotOf
      <3> HIDE DEF y
      <3>4. GotOf(y, FALSE, data, replies)
        BY <1>1, <1>2, <1>7, <3>1, <3>2, <3>3 DEF GotOf
      <3> QED BY <3>4 DEF y
    <2> QED BY <2>1, <2>2
  <1>8. CASE p[1] = "AUTH_TAG"
    <2> DEFINE r == [data |-> data, tag |-> p[2], verified |-> "none"]
               rs == Append(replies, r)
    <2>1. RxStep(g, p) = [g EXCEPT !.replies = Append(@, r), !.data = <<>>]
      BY <1>4, <1>5, <1>8 DEF RxStep
    <2>2. [g EXCEPT !.replies = Append(@, r), !.data = <<>>] = Got(ok, <<>>, rs)
      <3>1. [g EXCEPT !.replies = Append(@, r), !.data = <<>>] = [[g EXCEPT !.replies = Append(@, r)] EXCEPT !.data = <<>>]
        BY DEF Got
      <3>2. [g EXCEPT !.replies = Append(@, r)] = Got(ok, data, rs)
        BY GotSet
      <3>3. [Got(ok, data, rs) EXCEPT !.data = <<>>] = Got(ok, <<>>, rs)
        BY DEF Got
      <3> QED BY <3>1, <3>2, <3>3
    <2>3. Full(data) /\ Full(p[2]) /\ AllFull(replies) /\ Len(replies) = Tagged(x)
      BY <1>3, <1>8 DEF GotOf
    <2>4. r.data = data /\ r.tag = p[2]
      OBVIOUS
    <2> HIDE DEF r
    <2>5. IsSeq(rs) /\ Len(rs) = Len(replies) + 1 /\ rs[Len(replies) + 1] = r /\ Len(replies) \in Nat
          /\ \A i \in 1..Len(replies) : rs[i] = replies[i]
      BY <2>3, ListAppend, ListIs DEF AllFull
    <2> HIDE DEF rs
    <2>6. AllFull(rs)
      <3>1. \A i \in 1..Len(replies) + 1 : i \in 1..Len(replies) \/ i = Len(replies) + 1
        BY <2>5
      <3> QED BY <2>3, <2>4, <2>5, <3>1 DEF AllFull
    <2>7. p[1] # "CIPHERTEXT"
      BY <1>8
    <2> HIDE DEF y
    <2>8. GotOf(y, ok, <<>>, rs)
      BY <1>1, <1>2, <1>8, <2>1, <2>2, <2>3, <2>5, <2>6, <2>7 DEF GotOf
    <2> QED BY <2>8 DEF y
  <1> QED BY <1>3, <1>6, <1>7, <1>8

LEMMA GotAny ==
  ASSUME NEW x, Paired(x)
  PROVE  \E ok, data, replies : GotOf(x, ok, data, replies)
  <1> DEFINE T == {n \in Nat : \E y : Paired(y) /\ Len(y) = n /\ ~\E ok, data, replies : GotOf(y, ok, data, replies)}
  <1>1. T = {}
    <2> SUFFICES ASSUME T # {} PROVE FALSE
      OBVIOUS
    <2>1. PICK n \in T : \A m \in T : n <= m
      <3>1. T \subseteq Nat
        OBVIOUS
      <3> QED BY <3>1, NatMin
    <2>2. PICK y : Paired(y) /\ Len(y) = n /\ ~\E ok, data, replies : GotOf(y, ok, data, replies)
      BY <2>1
    <2>3. y # <<>>
      <3>1. Received(<<>>) = Got(TRUE, <<>>, <<>>)
        <4>1. <<"rx", 0>>[1] = "rx"
          OBVIOUS
        <4>2. Received(<<>>) = Start(<<"rx", 0>>)
          BY FoldedNone DEF Received
        <4> QED BY Zenon, <4>1, <4>2 DEF Start, Got
      <3>2. AllFull(<<>>) /\ Len(<<>>) = Tagged(<<>>)
        BY ListEmpty, StartedNone DEF AllFull
      <3>3. GotOf(<<>>, TRUE, <<>>, <<>>)
        BY <3>1, <3>2 DEF GotOf
      <3> QED BY <2>2, <3>3
    <2> DEFINE v == SubSeq(y, 1, Len(y) - 1)
               p == y[Len(y)]
    <2>4. IsSeq(v) /\ Len(y) \in Nat \ {0} /\ Len(v) = Len(y) - 1 /\ y = Append(v, p)
      BY <2>2, <2>3, ListStrip DEF Paired
    <2> HIDE DEF v, p
    <2>5. Paired(v)
      BY <2>2, <2>4, PairedFirst
    <2>6. n - 1 \in Nat /\ n - 1 \notin T /\ Len(v) = n - 1
      BY <2>1, <2>2, <2>4
    <2>7. PICK ok, data, replies : GotOf(v, ok, data, replies)
      BY <2>5, <2>6
    <2>8. \E k, d, rs : GotOf(Append(v, p), k, d, rs)
      BY <2>2, <2>4, <2>7, GotMore
    <2> QED BY <2>2, <2>4, <2>8
  <1>2. Len(x) \in Nat /\ Len(x) \notin T
    BY <1>1, ListIs DEF Paired
  <1> QED BY <1>2

LEMMA RepliesFull ==
  ASSUME NEW x, Paired(x)
  PROVE  AllFull(SplitRx(x).replies) /\ Len(SplitRx(x).replies) = Tagged(x)
  <1>1. PICK ok, data, replies : GotOf(x, ok, data, replies)
    BY GotAny
  <1>2. SplitRx(x).replies = Received(x).replies
    BY FoldOfRx DEF Paired
  <1>3. Received(x).replies = replies
    BY <1>1 DEF GotOf, Got
  <1> QED BY <1>1, <1>2, <1>3 DEF GotOf

(* A flipped bit changes none of that.                                     *)
LEMMA FlipKeeps ==
  ASSUME NEW x, NEW chunk, Paired(x)
  PROVE  Paired(FlipCiphertext(x, chunk)) /\ Tagged(FlipCiphertext(x, chunk)) = Tagged(x)
  <1> DEFINE y == FlipCiphertext(x, chunk)
             n == Len(x)
  <1>1. n \in Nat /\ DOMAIN x = 1..n /\ IsSeq(x) /\ \A i \in 1..n : IsAnswer(x, i)
    BY ListIs DEF Paired
  <1>2. y = [i \in 1..n |-> y[i]]
    BY <1>1 DEF FlipCiphertext
  <1>3. ASSUME NEW i \in 1..n PROVE y[i][1] = x[i][1] /\ (Full(x[i][2]) => Full(y[i][2]))
    <2> DEFINE e == [x[i][2] EXCEPT ![1] = XorByte(@, FlippedBit)]
    <2>1. Full(x[i][2]) => Full(e)
      <3> DEFINE d == x[i][2]
      <3> SUFFICES ASSUME Full(d) PROVE Full(e)
        OBVIOUS
      <3>1. Len(d) \in Nat /\ DOMAIN d = 1..Len(d) /\ Len(d) # 0
        BY ListIs DEF Full
      <3>2. DOMAIN e = 1..Len(d) /\ e = [j \in DOMAIN e |-> e[j]]
        BY <3>1
      <3> HIDE DEF d, e
      <3>3. e = [j \in 1..Len(d) |-> e[j]]
        BY <3>2
      <3>4. IsSeq(e) /\ Len(e) = Len(d)
        BY <3>1, <3>3, ListOf
      <3> QED BY <3>1, <3>4, NotEmpty DEF Full
    <2> HIDE DEF e
    <2>2. y[i] = x[i] \/ (x[i][1] = "CIPHERTEXT" /\ y[i] = <<"CIPHERTEXT", e>>)
      BY <1>1 DEF FlipCiphertext, e
    <2>3. <<"CIPHERTEXT", e>>[1] = "CIPHERTEXT" /\ <<"CIPHERTEXT", e>>[2] = e
      OBVIOUS
    <2> QED BY <2>1, <2>2, <2>3
  <1> HIDE DEF y, n
  <1>4. IsSeq(y) /\ Len(y) = n
    BY <1>1, <1>2, ListOf
  <1>5. ASSUME NEW i \in 1..n PROVE IsAnswer(y, i)
    <2>1. i > 1 => i - 1 \in 1..n
      BY <1>1
    <2> QED BY <1>1, <1>3, <2>1 DEF IsAnswer
  <1>6. Paired(y)
    BY <1>4, <1>5 DEF Paired
  <1>7. Ops(y) = Ops(x)
    BY <1>3, <1>4 DEF Ops, n
  <1> QED BY <1>6, <1>7 DEF Tagged, Count, y

-----------------------------------------------------------------------------
(* Packets and answers under way, without the exchange they belong to.     *)
Pair(p) == p = <<p[1], p[2]>>
Pairs(x) == IsSeq(x) /\ \A i \in 1..Len(x) : Pair(x[i])
Queued(q) == IsSeq(q) /\ \A i \in 1..Len(q) : Pair(q[i]) /\ Pair(q[i][1])
Packs(q) == [i \in 1..Len(q) |-> q[i][1]]

LEMMA PacksAre ==
  ASSUME NEW q, Queued(q)
  PROVE  /\ IsSeq(q) /\ Len(q) \in Nat /\ Pairs(Packs(q)) /\ IsSeq(Packs(q)) /\ Len(Packs(q)) = Len(q)
         /\ \A i \in 1..Len(q) : Packs(q)[i] = q[i][1]
         /\ Packs(q) = <<>> <=> q = <<>>
  <1> DEFINE x == Packs(q)
  <1>1. IsSeq(q) /\ Len(q) \in Nat /\ \A i \in 1..Len(q) : x[i] = q[i][1] /\ Pair(q[i][1])
    BY ListIs DEF Queued, Packs
  <1>2. x = [i \in 1..Len(q) |-> x[i]]
    BY DEF Packs
  <1> HIDE DEF x
  <1>3. IsSeq(x) /\ Len(x) = Len(q)
    BY <1>1, <1>2, ListOf
  <1>4. Pairs(x) /\ (x = <<>> <=> q = <<>>)
    BY <1>1, <1>3, ListIs DEF Pairs
  <1> QED BY <1>1, <1>3, <1>4 DEF x

LEMMA UnderWay ==
  ASSUME NEW q, Queued(q), NEW K
  PROVE  Cardinality({i \in DOMAIN q : q[i][1][1] \in K}) = Count(Packs(q), K)
  <1> DEFINE x == Packs(q)
             s == Ops(x)
             n == Len(q)
  <1>1. DOMAIN q = 1..n /\ IsSeq(x) /\ Len(x) = n /\ \A i \in 1..n : x[i] = q[i][1]
    BY PacksAre, ListIs
  <1> HIDE DEF x, n
  <1>2. DOMAIN s = 1..n /\ \A i \in 1..n : s[i] = x[i][1]
    BY <1>1, OpsAre, ListIs
  <1> HIDE DEF s
  <1>3. {i \in DOMAIN q : q[i][1][1] \in K} = {i \in DOMAIN s : s[i] \in K}
    BY <1>1, <1>2
  <1> QED BY <1>3 DEF Count, Ones, s, x

LEMMA PacksTail ==
  ASSUME NEW q, Queued(q), q # <<>>
  PROVE  Queued(Tail(q)) /\ Packs(Tail(q)) = Tail(Packs(q)) /\ Packs(q) # <<>> /\ Packs(q)[1] = Head(q)[1]
         /\ Pair(Head(q)) /\ Pair(Head(q)[1])
  <1> DEFINE r == Tail(q)
             n == Len(q)
             x == Packs(q)
             y == Packs(r)
             z == Tail(x)
  <1>1. IsSeq(r) /\ n \in Nat \ {0} /\ Len(r) = n - 1 /\ Head(q) = q[1] /\ \A i \in 1..n - 1 : r[i] = q[i + 1]
    BY ListTail DEF Queued
  <1>2. IsSeq(x) /\ Len(x) = n /\ x # <<>> /\ \A i \in 1..n : x[i] = q[i][1]
    BY PacksAre
  <1>3. \A i \in 1..n : Pair(q[i]) /\ Pair(q[i][1])
    BY DEF Queued
  <1> HIDE DEF r, n, x
  <1>4. \A i \in 1..n - 1 : i + 1 \in 1..n
    BY <1>1
  <1>5. Queued(r)
    BY <1>1, <1>3, <1>4 DEF Queued
  <1>6. IsSeq(y) /\ Len(y) = n - 1 /\ \A i \in 1..n - 1 : y[i] = r[i][1]
    BY <1>1, <1>5, PacksAre
  <1>7. IsSeq(z) /\ Len(z) = n - 1 /\ \A i \in 1..n - 1 : z[i] = x[i + 1]
    BY <1>2, ListTail
  <1> HIDE DEF y, z
  <1>8. \A i \in 1..n - 1 : y[i] = z[i]
    BY <1>1, <1>2, <1>4, <1>6, <1>7
  <1>9. y = z
    BY <1>6, <1>7, <1>8, ListSame
  <1>10. 1 \in 1..n
    BY <1>1
  <1> QED BY <1>1, <1>2, <1>3, <1>5, <1>9, <1>10 DEF r, x, y, z

LEMMA PacksJoin ==
  ASSUME NEW q, Queued(q), NEW x, Pairs(x), NEW n
  PROVE  LET r == q \o [i \in DOMAIN x |-> <<x[i], n>>] IN Queued(r) /\ Packs(r) = Packs(q) \o x
  <1> DEFINE f == [i \in DOMAIN x |-> <<x[i], n>>]
             r == q \o f
             a == Len(q)
             b == Len(x)
             y == Packs(r)
             z == Packs(q) \o x
  <1>1. IsSeq(x) /\ b \in Nat /\ DOMAIN x = 1..b /\ \A i \in 1..b : Pair(x[i])
    BY ListIs DEF Pairs
  <1>2. f = [i \in 1..b |-> f[i]] /\ \A i \in 1..b : f[i][1] = x[i] /\ Pair(f[i])
    BY <1>1 DEF Pair
  <1> HIDE DEF f
  <1>3. IsSeq(f) /\ Len(f) = b
    BY <1>1, <1>2, ListOf
  <1>4. a \in Nat /\ IsSeq(q) /\ \A i \in 1..a : Pair(q[i]) /\ Pair(q[i][1])
    BY ListIs DEF Queued
  <1>5. IsSeq(r) /\ Len(r) = a + b /\ (\A i \in 1..a : r[i] = q[i]) /\ \A i \in 1..b : r[a + i] = f[i]
    BY <1>3, <1>4, ListJoin
  <1>6. IsSeq(Packs(q)) /\ Len(Packs(q)) = a /\ \A i \in 1..a : Packs(q)[i] = q[i][1]
    BY PacksAre
  <1>7. IsSeq(z) /\ Len(z) = a + b /\ (\A i \in 1..a : z[i] = Packs(q)[i]) /\ \A i \in 1..b : z[a + i] = x[i]
    BY <1>1, <1>6, ListJoin
  <1> HIDE DEF r, a, b, z
  <1>8. \A i \in 1..a + b : i \in 1..a \/ \E j \in 1..b : i = a + j
    <2> TAKE i \in 1..a + b
    <2>1. i \notin 1..a => i - a \in 1..b /\ i = a + (i - a)
      BY <1>1, <1>4
    <2> QED BY <2>1
  <1>9. Queued(r)
    <2>1. \A i \in 1..a + b : Pair(r[i]) /\ Pair(r[i][1])
      BY <1>1, <1>2, <1>4, <1>5, <1>8
    <2> QED BY <1>5, <2>1 DEF Queued
  <1>10. IsSeq(y) /\ Len(y) = a + b /\ \A i \in 1..a + b : y[i] = r[i][1]
    BY <1>5, <1>9, PacksAre
  <1> HIDE DEF y
  <1>11. ASSUME NEW i \in 1..a + b PROVE y[i] = z[i]
    <2>1. CASE i \in 1..a
      BY <1>5, <1>6, <1>7, <1>10, <2>1
    <2>2. CASE i \notin 1..a
      <3>1. PICK j \in 1..b : i = a + j
        BY <1>8, <2>2
      <3> QED BY <1>2, <1>5, <1>7, <1>10, <3>1
    <2> QED BY <2>1, <2>2
  <1>12. y = z
    BY <1>7, <1>10, <1>11, ListSame
  <1> QED BY <1>9, <1>12 DEF r, f, y, z

(* A bit that changes on the way leaves every answer of the kind it was.   *)
LEMMA CorruptKeeps ==
  ASSUME NEW q, Queued(q), NEW i \in DOMAIN q
  PROVE  LET r == [q EXCEPT ![i][1][2][1] = XorByte(@, FlippedBit)]
         IN  Queued(r) /\ \A K : Count(Packs(r), K) = Count(Packs(q), K)
  <1> DEFINE p == q[i][1]
             e == [p[2] EXCEPT ![1] = XorByte(@, FlippedBit)]
             r == [q EXCEPT ![i][1][2][1] = XorByte(@, FlippedBit)]
             n == Len(q)
  <1>1. IsSeq(q) /\ n \in Nat /\ DOMAIN q = 1..n /\ (\A j \in 1..n : Pair(q[j]) /\ Pair(q[j][1])) /\ i \in 1..n
    BY ListIs DEF Queued
  <1>2. q[i] = <<<<p[1], p[2]>>, q[i][2]>>
    BY <1>1 DEF Pair
  <1>3. DOMAIN r = 1..n /\ r = [j \in 1..n |-> r[j]]
    BY <1>1
  <1>4. \A j \in 1..n : j # i => r[j] = q[j]
    BY <1>1
  <1>5. r[i] = <<<<p[1], e>>, q[i][2]>>
    <2>1. r[i] = [q[i] EXCEPT ![1] = [q[i][1] EXCEPT ![2] = e]]
      BY <1>1
    <2>2. ASSUME NEW a, NEW b, NEW c, NEW d
          PROVE  [<<<<a, b>>, c>> EXCEPT ![1] = [<<a, b>> EXCEPT ![2] = d]] = <<<<a, d>>, c>>
      OBVIOUS
    <2>3. q[i][1] = <<p[1], p[2]>>
      BY <1>1 DEF Pair
    <2> HIDE DEF e, r
    <2> QED BY <1>2, <2>1, <2>2, <2>3
  <1> HIDE DEF r, e
  <1>6. r[i][1] = <<p[1], e>> /\ r[i][1][1] = p[1] /\ Pair(r[i]) /\ Pair(r[i][1])
    BY <1>5 DEF Pair
  <1>7. IsSeq(r) /\ Len(r) = n
    BY <1>1, <1>3, ListOf
  <1>8. Queued(r)
    BY <1>1, <1>4, <1>6, <1>7 DEF Queued
  <1>9. Ops(Packs(r)) = Ops(Packs(q))
    <2>1. \A j \in 1..n : r[j][1][1] = q[j][1][1]
      BY <1>4, <1>6
    <2>2. Len(Packs(r)) = n /\ Len(Packs(q)) = n /\ \A j \in 1..n : Packs(r)[j] = r[j][1] /\ Packs(q)[j] = q[j][1]
      BY <1>7, <1>8, PacksAre
    <2> HIDE DEF n
    <2> QED BY <2>1, <2>2 DEF Ops
  <1> QED BY <1>8, <1>9 DEF Count, r

-----------------------------------------------------------------------------
(* What one command is answered.                                           *)
LEMMA ExpectedIs ==
  ASSUME NEW cmd, NEW first
  PROVE  LET e == Expected(cmd, first)
         IN  /\ IsSeq(e) /\ Len(e) \in 1..3
             /\ cmd \in Loads => Len(e) = 1 /\ e[1] = CMD_ACKS[cmd] /\ e[1] \in Acks
             /\ cmd = "START_ENCRYPT" => Len(e) = 2 /\ e[1] = "CIPHERTEXT" /\ e[2] = "AUTH_TAG"
             /\ cmd = "START_DECRYPT" /\ first = "AUTH_TAG" => Len(e) = 2 /\ e[1] = "AUTH_TAG" /\ e[2] = "VERIFY_RESULT"
             /\ cmd = "START_DECRYPT" /\ first # "AUTH_TAG" =>
                    Len(e) = 3 /\ e[1] = "CIPHERTEXT" /\ e[2] = "AUTH_TAG" /\ e[3] = "VERIFY_RESULT"
  <1>1. "START_ENCRYPT" \notin Loads /\ "START_DECRYPT" \notin Loads
    BY DEF Loads, CMD_ACKS
  <1>2. CASE cmd \in Loads
    <2>1. Expected(cmd, first) = <<CMD_ACKS[cmd]>> /\ CMD_ACKS[cmd] \in Acks
      BY <1>2 DEF Expected, Acks
    <2> QED BY <1>1, <1>2, <2>1, ListOne
  <1>3. CASE cmd = "START_ENCRYPT"
    BY <1>1, <1>3, ListAre2 DEF Expected
  <1>4. CASE cmd \notin Loads /\ cmd # "START_ENCRYPT"
    <2>1. CASE first = "AUTH_TAG"
      BY <1>4, <2>1, ListAre2 DEF Expected
    <2>2. CASE first # "AUTH_TAG"
      BY <1>4, <2>2, ListAre3 DEF Expected
    <2> QED BY <2>1, <2>2
  <1> QED BY <1>2, <1>3, <1>4

AnswersTo(cmd, s) ==
    /\ Pairs(s) /\ s # <<>> /\ Len(s) = Len(Expected(cmd, s[1][1]))
    /\ \A k \in 1..Len(s) :
           /\ s[k][1] = Expected(cmd, s[1][1])[k]
           /\ s[k][1] \in {"CIPHERTEXT", "AUTH_TAG"} => Full(s[k][2])
Ready(e, cmd) == /\ cmd \in Starts => Full(e.data)
                 /\ cmd = "START_DECRYPT" => Full(e.tag_ref)

LEMMA Single ==
  ASSUME NEW k, NEW v
  PROVE  LET x == <<<<k, v>>>>
         IN  Pairs(x) /\ x # <<>> /\ x[1][1] = k /\ x[1][2] = v /\ Len(x) = 1
             /\ Tagged(x) = IF k = "AUTH_TAG" THEN 1 ELSE 0
  <1> DEFINE p == <<k, v>>
  <1>1. p[1] = k /\ p[2] = v /\ Pair(p)
    BY DEF Pair
  <1> HIDE DEF p
  <1>2. IsSeq(<<p>>) /\ Len(<<p>>) = 1 /\ <<p>>[1] = p
    BY ListOne
  <1>3. Tagged(Append(<<>>, p)) = Tagged(<<>>) + IF p[1] = "AUTH_TAG" THEN 1 ELSE 0
    BY StartedMore, ListEmpty
  <1>4. Append(<<>>, p) = <<p>>
    OBVIOUS
  <1>5. \A i \in 1..1 : i = 1
    OBVIOUS
  <1>6. Pairs(<<p>>)
    BY <1>1, <1>2, <1>5 DEF Pairs
  <1>7. Tagged(<<p>>) = IF k = "AUTH_TAG" THEN 1 ELSE 0
    BY <1>1, <1>3, <1>4, StartedNone
  <1>8. <<p>> # <<>>
    BY <1>2, NotEmpty
  <1> QED BY <1>1, <1>2, <1>6, <1>7, <1>8 DEF p

(* Two and three answers.                                                  *)
TwoPairs(x, y, s) ==
    /\ Pairs(s) /\ Len(s) = 2 /\ s[1] = x /\ s[2] = y /\ s # <<>>
    /\ Tagged(s) = (IF x[1] = "AUTH_TAG" THEN 1 ELSE 0) + IF y[1] = "AUTH_TAG" THEN 1 ELSE 0
ThreePairs(x, y, z, s) ==
    /\ Pairs(s) /\ Len(s) = 3 /\ s[1] = x /\ s[2] = y /\ s[3] = z /\ s # <<>>
    /\ Tagged(s) = ((IF x[1] = "AUTH_TAG" THEN 1 ELSE 0) + IF y[1] = "AUTH_TAG" THEN 1 ELSE 0)
                   + IF z[1] = "AUTH_TAG" THEN 1 ELSE 0
LEMMA OnePair ==
  ASSUME NEW p, Pair(p)
  PROVE  IsSeq(<<p>>) /\ Tagged(<<p>>) = IF p[1] = "AUTH_TAG" THEN 1 ELSE 0
  <1>1. IsSeq(<<p>>)
    BY ListOne
  <1>2. p = <<p[1], p[2]>>
    BY DEF Pair
  <1>3. ASSUME NEW k, NEW v PROVE Tagged(<<<<k, v>>>>) = IF k = "AUTH_TAG" THEN 1 ELSE 0
    BY Single
  <1>4. Tagged(<<<<p[1], p[2]>>>>) = IF p[1] = "AUTH_TAG" THEN 1 ELSE 0
    BY <1>3
  <1> QED BY <1>1, <1>2, <1>4
LEMMA TwoAre ==
  ASSUME NEW x, NEW y, Pair(x), Pair(y)
  PROVE  TwoPairs(x, y, <<x, y>>)
  <1> DEFINE s == <<x, y>>
  <1>1. IsSeq(s) /\ Len(s) = 2 /\ s[1] = x /\ s[2] = y /\ \A j \in 1..2 : j = 1 \/ j = 2
    BY ListAre2
  <1>2. Tagged(<<x>> \o <<y>>) = Tagged(<<x>>) + Tagged(<<y>>) /\ <<x>> \o <<y>> = s
    BY OnePair, OpsJoin, OneAndOne
  <1>3. Tagged(<<x>>) = (IF x[1] = "AUTH_TAG" THEN 1 ELSE 0) /\ Tagged(<<y>>) = IF y[1] = "AUTH_TAG" THEN 1 ELSE 0
    BY OnePair
  <1> HIDE DEF s
  <1>4. Pairs(s) /\ s # <<>>
    BY <1>1, NotEmpty DEF Pairs
  <1>5. TwoPairs(x, y, s)
    BY <1>1, <1>2, <1>3, <1>4 DEF TwoPairs
  <1> QED BY <1>5 DEF s
LEMMA ThreeAre ==
  ASSUME NEW x, NEW y, NEW z, Pair(x), Pair(y), Pair(z)
  PROVE  ThreePairs(x, y, z, <<x, y, z>>)
  <1> DEFINE s == <<x, y, z>>
             r == <<x, y>>
  <1>1. IsSeq(s) /\ Len(s) = 3 /\ s[1] = x /\ s[2] = y /\ s[3] = z /\ \A j \in 1..3 : j = 1 \/ j = 2 \/ j = 3
    BY ListAre3
  <1>2. TwoPairs(x, y, r)
    BY TwoAre
  <1>3. r \o <<z>> = s
    BY TwoAndOne
  <1> HIDE DEF s, r
  <1>4. Tagged(r \o <<z>>) = Tagged(r) + Tagged(<<z>>) /\ Tagged(<<z>>) = IF z[1] = "AUTH_TAG" THEN 1 ELSE 0
    BY <1>2, OnePair, OpsJoin DEF TwoPairs, Pairs
  <1>5. Pairs(s) /\ s # <<>>
    BY <1>1, NotEmpty DEF Pairs
  <1>6. ThreePairs(x, y, z, s)
    BY <1>1, <1>2, <1>3, <1>4, <1>5 DEF ThreePairs, TwoPairs
  <1> QED BY <1>6 DEF s

LEMMA OutputFull ==
  ASSUME NEW key, NEW nonce, NEW aad, NEW data, NEW decrypt, Full(data)
  PROVE  Full(RunMessage(key, nonce, aad, data, decrypt).output)
  <1> DEFINE f == [i \in 1..Len(data) |-> XorByte(data[i], {<<key, nonce, i>>})]
  <1>1. RunMessage(key, nonce, aad, data, decrypt).output = f
    BY DEF RunMessage
  <1>2. Len(data) \in Nat /\ Len(data) # 0
    BY ListIs DEF Full
  <1>3. f = [i \in 1..Len(data) |-> f[i]]
    OBVIOUS
  <1> HIDE DEF f
  <1>4. IsSeq(f) /\ Len(f) = Len(data)
    BY <1>2, <1>3, ListOf
  <1> QED BY <1>1, <1>2, <1>4, NotEmpty DEF Full
LEMMA TagFull ==
  ASSUME NEW key, NEW nonce, NEW aad, NEW data, NEW decrypt
  PROVE  Full(RunMessage(key, nonce, aad, data, decrypt).tag)
  <1>1. ASSUME NEW a, NEW b, NEW c, NEW d PROVE Full(<<a, b, c, d>>)
    <2>1. <<a, b, c, d>> \in Seq({a, b, c, d}) /\ Len(<<a, b, c, d>>) # 0
      OBVIOUS
    <2> QED BY <2>1, NotEmpty DEF Full, IsSeq
  <1> DEFINE o == [i \in 1..Len(data) |-> XorByte(data[i], {<<key, nonce, i>>})]
  <1>2. RunMessage(key, nonce, aad, data, decrypt).tag = <<key, nonce, aad, IF decrypt THEN data ELSE o>>
    BY DEF RunMessage
  <1> HIDE DEF o
  <1> QED BY <1>1, <1>2

LEMMA AnswerIs ==
  ASSUME NEW e, NEW cmd \in Loads \union Starts
  PROVE  /\ Pairs(Answer(e, cmd))
         /\ Tagged(Answer(e, cmd)) <= IF cmd \in Starts THEN 1 ELSE 0
         /\ Ready(e, cmd) => AnswersTo(cmd, Answer(e, cmd))
  <1> DEFINE decrypt == cmd = "START_DECRYPT"
             m == RunMessage(e.key, e.iv, e.aad, e.data, decrypt)
             passed == decrypt /\ m.tag = e.tag_ref
             c == <<"CIPHERTEXT", m.output>>
             t == <<"AUTH_TAG", m.tag>>
             v == <<"VERIFY_RESULT", passed>>
  <1>0. \A op \in Loads : op \notin Starts
    BY DEF Loads, CMD_ACKS, Starts
  <1>1. CASE cmd \in Loads
    <2>1. Answer(e, cmd) = <<<<CMD_ACKS[cmd], <<>>>>>>
      BY <1>1 DEF Answer
    <2>2. CMD_ACKS[cmd] \in Acks /\ CMD_ACKS[cmd] # "AUTH_TAG" /\ CMD_ACKS[cmd] # "CIPHERTEXT"
      BY <1>1 DEF Acks, Loads, CMD_ACKS
    <2> DEFINE k == CMD_ACKS[cmd]
               x == <<<<k, <<>>>>>>
    <2> HIDE DEF k
    <2>3. Pairs(x) /\ x # <<>> /\ x[1][1] = k /\ Len(x) = 1 /\ Tagged(x) = 0 /\ \A i \in 1..1 : i = 1
      BY <2>2, Single DEF k
    <2> HIDE DEF x
    <2>4. Len(Expected(cmd, x[1][1])) = 1 /\ Expected(cmd, x[1][1])[1] = k
      BY <1>1, ExpectedIs DEF k
    <2>5. AnswersTo(cmd, x)
      BY <2>2, <2>3, <2>4 DEF AnswersTo, k
    <2>6. Tagged(x) <= IF cmd \in Starts THEN 1 ELSE 0
      BY <2>3
    <2> QED BY <2>1, <2>3, <2>5, <2>6 DEF x, k
  <1>2. CASE cmd \in Starts /\ NotReady(e, cmd)
    <2>1. Answer(e, cmd) = <<<<"ERR_LEN", cmd>>>>
      BY <1>0, <1>2 DEF Answer
    <2>2. ~Ready(e, cmd)
      BY <1>2 DEF Ready, NotReady, Full
    <2>3. Pairs(Answer(e, cmd)) /\ Tagged(Answer(e, cmd)) = 0
      BY <2>1, Single
    <2> QED BY <1>2, <2>2, <2>3
  <1>3. CASE cmd \in Starts /\ ~NotReady(e, cmd)
    <2>1. Answer(e, cmd) = (IF passed \/ ~decrypt THEN <<c>> ELSE <<>>) \o <<t>> \o (IF decrypt THEN <<v>> ELSE <<>>)
      BY <1>0, <1>3 DEF Answer
    <2>2. Pair(c) /\ Pair(t) /\ Pair(v) /\ c[1] = "CIPHERTEXT" /\ t[1] = "AUTH_TAG" /\ v[1] = "VERIFY_RESULT"
          /\ (Ready(e, cmd) => Full(c[2])) /\ Full(t[2])
      <3>1. Pair(c) /\ Pair(t) /\ Pair(v) /\ c[1] = "CIPHERTEXT" /\ t[1] = "AUTH_TAG" /\ v[1] = "VERIFY_RESULT"
        BY DEF Pair
      <3>2. c[2] = m.output /\ t[2] = m.tag
        OBVIOUS
      <3>3. Full(m.tag) /\ (Full(e.data) => Full(m.output))
        BY TagFull, OutputFull
      <3> HIDE DEF m, c, t
      <3> QED BY <1>3, <3>1, <3>2, <3>3 DEF Ready
    <2>3. decrypt = (cmd = "START_DECRYPT") /\ (passed => decrypt) /\ (cmd = "START_ENCRYPT" \/ cmd = "START_DECRYPT")
      BY <1>3 DEF Starts
    <2> HIDE DEF decrypt, passed, c, t, v
    <2>4. CASE ~decrypt
      <3>1. Answer(e, cmd) = (<<c>> \o <<t>>) \o <<>>
        BY <2>1, <2>4, <2>3
      <3>2. (<<c>> \o <<t>>) \o <<>> = <<c, t>>
        BY OneAndOne, ListAre2, ListNothing
      <3> DEFINE x == <<c, t>>
      <3>3. Pairs(x) /\ Len(x) = 2 /\ x[1] = c /\ x[2] = t /\ x # <<>> /\ Tagged(x) = 1 /\ \A k \in 1..2 : k = 1 \/ k = 2
        <4>1. TwoPairs(c, t, x)
          BY <2>2, TwoAre
        <4>2. \A k \in 1..2 : k = 1 \/ k = 2
          OBVIOUS
        <4> HIDE DEF x
        <4> QED BY <2>2, <4>1, <4>2 DEF TwoPairs
      <3> HIDE DEF x
      <3>4. cmd = "START_ENCRYPT"
        BY <2>3, <2>4
      <3>5. Ready(e, cmd) => AnswersTo(cmd, x)
        BY <2>2, <3>3, <3>4, ExpectedIs DEF AnswersTo
      <3>6. Answer(e, cmd) = x
        BY <3>1, <3>2 DEF x
      <3> QED BY <1>3, <3>3, <3>5, <3>6
    <2>5. CASE decrypt /\ passed
      <3>1. Answer(e, cmd) = (<<c>> \o <<t>>) \o <<v>>
        BY <2>1, <2>5
      <3>2. (<<c>> \o <<t>>) \o <<v>> = <<c, t, v>>
        <4>1. <<c>> \o <<t>> = <<c, t>> /\ <<c, t>> \o <<v>> = <<c, t, v>>
          BY OneAndOne, TwoAndOne
        <4> QED BY <4>1
      <3> DEFINE x == <<c, t, v>>
      <3>3. Pairs(x) /\ Len(x) = 3 /\ x[1] = c /\ x[2] = t /\ x[3] = v /\ x # <<>> /\ Tagged(x) = 1
            /\ \A k \in 1..3 : k = 1 \/ k = 2 \/ k = 3
        <4>1. ThreePairs(c, t, v, x)
          BY <2>2, ThreeAre
        <4>2. \A k \in 1..3 : k = 1 \/ k = 2 \/ k = 3
          OBVIOUS
        <4> HIDE DEF x
        <4> QED BY <2>2, <4>1, <4>2 DEF ThreePairs
      <3> HIDE DEF x
      <3>4. cmd = "START_DECRYPT" /\ x[1][1] # "AUTH_TAG"
        BY <2>2, <2>3, <2>5, <3>3
      <3>5. Ready(e, cmd) => AnswersTo(cmd, x)
        BY <2>2, <3>3, <3>4, ExpectedIs DEF AnswersTo
      <3>6. Answer(e, cmd) = x
        BY <3>1, <3>2 DEF x
      <3> QED BY <1>3, <3>3, <3>5, <3>6
    <2>6. CASE decrypt /\ ~passed
      <3>1. Answer(e, cmd) = (<<>> \o <<t>>) \o <<v>>
        BY <2>1, <2>6
      <3>2. (<<>> \o <<t>>) \o <<v>> = <<t, v>>
        BY OneAndOne, ListOne, ListNothing
      <3> DEFINE x == <<t, v>>
      <3>3. Pairs(x) /\ Len(x) = 2 /\ x[1] = t /\ x[2] = v /\ x # <<>> /\ Tagged(x) = 1 /\ \A k \in 1..2 : k = 1 \/ k = 2
        <4>1. TwoPairs(t, v, x)
          BY <2>2, TwoAre
        <4>2. \A k \in 1..2 : k = 1 \/ k = 2
          OBVIOUS
        <4> HIDE DEF x
        <4> QED BY <2>2, <4>1, <4>2 DEF TwoPairs
      <3> HIDE DEF x
      <3>4. cmd = "START_DECRYPT" /\ x[1][1] = "AUTH_TAG"
        BY <2>2, <2>3, <2>6, <3>3
      <3>5. Ready(e, cmd) => AnswersTo(cmd, x)
        BY <2>2, <3>3, <3>4, ExpectedIs DEF AnswersTo
      <3>6. Answer(e, cmd) = x
        BY <3>1, <3>2 DEF x
      <3> QED BY <1>3, <3>3, <3>5, <3>6
    <2> QED BY <2>4, <2>5, <2>6
  <1> QED BY <1>1, <1>2, <1>3

-----------------------------------------------------------------------------
(* The IP has, or is about to be given, what the starts in x need.         *)
Ip(k, v, a, d, t) == [key |-> k, iv |-> v, aad |-> a, data |-> d, tag_ref |-> t]
IsIp(e) == \E k, v, a, d, t : e = Ip(k, v, a, d, t)
Primed(e, x) ==
    \A j \in 1..Len(x) :
        /\ x[j][1] = "START_ENCRYPT" =>
               IF j = 1 THEN Full(e.data) ELSE x[j - 1][1] = "LOAD_PLAINTEXT" /\ Full(x[j - 1][2])
        /\ x[j][1] = "START_DECRYPT" =>
               /\ IF j = 1 THEN Full(e.tag_ref) ELSE x[j - 1][1] = "LOAD_TAG_REF" /\ Full(x[j - 1][2])
               /\ IF j <= 2 THEN Full(e.data) ELSE x[j - 2][1] = "LOAD_PLAINTEXT" /\ Full(x[j - 2][2])

LEMMA PrimedAtStart ==
  ASSUME NEW e, NEW x, NEW K, NEW n, Serves("full", x, K, n)
  PROVE  Primed(e, x)
  <1>1. \A j \in 1..Len(x) : Prepared("full", x, j) /\ j \in Nat
    BY ListIs DEF Serves, Packets
  <1> QED BY <1>1 DEF Prepared, Filled, Primed

LEMMA IpHas ==
  ASSUME NEW k, NEW v, NEW a, NEW d, NEW t
  PROVE  Ip(k, v, a, d, t).data = d /\ Ip(k, v, a, d, t).tag_ref = t
  BY DEF Ip
LEMMA IpSet ==
  ASSUME NEW k, NEW v, NEW a, NEW d, NEW t, NEW z
  PROVE  /\ [Ip(k, v, a, d, t) EXCEPT !.key = z] = Ip(z, v, a, d, t)
         /\ [Ip(k, v, a, d, t) EXCEPT !.iv = z] = Ip(k, z, a, d, t)
         /\ [Ip(k, v, a, d, t) EXCEPT !.aad = z] = Ip(k, v, z, d, t)
         /\ [Ip(k, v, a, d, t) EXCEPT !.data = z] = Ip(k, v, a, z, t)
         /\ [Ip(k, v, a, d, t) EXCEPT !.tag_ref = z] = Ip(k, v, a, d, z)
  BY DEF Ip
LEMMA IpCleared ==
  ASSUME NEW k, NEW v, NEW a, NEW d, NEW t
  PROVE  Cleared(Ip(k, v, a, d, t)) = Ip(k, v, <<>>, <<>>, <<>>)
  <1>1. Cleared(Ip(k, v, a, d, t)) = [[[Ip(k, v, a, d, t) EXCEPT !.aad = <<>>] EXCEPT !.data = <<>>] EXCEPT !.tag_ref = <<>>]
    BY DEF Cleared, Ip
  <1>2. [Ip(k, v, a, d, t) EXCEPT !.aad = <<>>] = Ip(k, v, <<>>, d, t)
    BY DEF Ip
  <1>3. [Ip(k, v, <<>>, d, t) EXCEPT !.data = <<>>] = Ip(k, v, <<>>, <<>>, t)
    BY DEF Ip
  <1>4. [Ip(k, v, <<>>, <<>>, t) EXCEPT !.tag_ref = <<>>] = Ip(k, v, <<>>, <<>>, <<>>)
    BY DEF Ip
  <1> QED BY Zenon, <1>1, <1>2, <1>3, <1>4

(* What the IP does with a command of each kind.                           *)
LEMMA LoadedBy ==
  ASSUME NEW e, NEW z
  PROVE  /\ Loaded(e, "LOAD_KEY", z) = Cleared([e EXCEPT !.key = z])
         /\ Loaded(e, "LOAD_IV", z) = Cleared([e EXCEPT !.iv = z])
         /\ Loaded(e, "LOAD_AAD", z) = [e EXCEPT !.aad = z]
         /\ Loaded(e, "LOAD_PLAINTEXT", z) = [e EXCEPT !.data = z]
         /\ Loaded(e, "LOAD_TAG_REF", z) = [e EXCEPT !.tag_ref = z]
         /\ \A op \in Starts : Loaded(e, op, z) \in {e, Cleared(e)}
  <1>1. Loaded(e, "LOAD_KEY", z) = Cleared([e EXCEPT !.key = z])
    BY DEF Loaded, Starts
  <1>2. Loaded(e, "LOAD_IV", z) = Cleared([e EXCEPT !.iv = z])
    BY DEF Loaded, Starts
  <1>3. Loaded(e, "LOAD_AAD", z) = [e EXCEPT !.aad = z]
    BY DEF Loaded, Starts
  <1>4. Loaded(e, "LOAD_PLAINTEXT", z) = [e EXCEPT !.data = z]
    BY DEF Loaded, Starts
  <1>5. Loaded(e, "LOAD_TAG_REF", z) = [e EXCEPT !.tag_ref = z]
    BY DEF Loaded, Starts
  <1>6. ASSUME NEW op \in Starts PROVE Loaded(e, op, z) \in {e, Cleared(e)}
    BY DEF Loaded, Starts
  <1> QED BY <1>1, <1>2, <1>3, <1>4, <1>5, <1>6
LEMMA IpLoadedBy ==
  ASSUME NEW k, NEW v, NEW a, NEW d, NEW t, NEW z
  PROVE  LET e == Ip(k, v, a, d, t)
         IN  /\ Loaded(e, "LOAD_KEY", z) = Ip(z, v, <<>>, <<>>, <<>>)
             /\ Loaded(e, "LOAD_IV", z) = Ip(k, z, <<>>, <<>>, <<>>)
             /\ Loaded(e, "LOAD_AAD", z) = Ip(k, v, z, d, t)
             /\ Loaded(e, "LOAD_PLAINTEXT", z) = Ip(k, v, a, z, t)
             /\ Loaded(e, "LOAD_TAG_REF", z) = Ip(k, v, a, d, z)
             /\ \A op \in Starts : Loaded(e, op, z) \in {e, Ip(k, v, <<>>, <<>>, <<>>)}
  <1> DEFINE e == Ip(k, v, a, d, t)
  <1>1. /\ [e EXCEPT !.key = z] = Ip(z, v, a, d, t) /\ [e EXCEPT !.iv = z] = Ip(k, z, a, d, t)
        /\ [e EXCEPT !.aad = z] = Ip(k, v, z, d, t) /\ [e EXCEPT !.data = z] = Ip(k, v, a, z, t)
        /\ [e EXCEPT !.tag_ref = z] = Ip(k, v, a, d, z)
    BY DEF Ip
  <1>2. /\ Cleared(Ip(z, v, a, d, t)) = Ip(z, v, <<>>, <<>>, <<>>)
        /\ Cleared(Ip(k, z, a, d, t)) = Ip(k, z, <<>>, <<>>, <<>>)
        /\ Cleared(e) = Ip(k, v, <<>>, <<>>, <<>>)
    BY Zenon, IpCleared
  <1> HIDE DEF e
  <1>3. Loaded(e, "LOAD_KEY", z) = Ip(z, v, <<>>, <<>>, <<>>)
    <2>1. Loaded(e, "LOAD_KEY", z) = Cleared([e EXCEPT !.key = z])
      BY LoadedBy
    <2> QED BY <1>1, <1>2, <2>1
  <1>4. Loaded(e, "LOAD_IV", z) = Ip(k, z, <<>>, <<>>, <<>>)
    <2>1. Loaded(e, "LOAD_IV", z) = Cleared([e EXCEPT !.iv = z])
      BY LoadedBy
    <2> QED BY <1>1, <1>2, <2>1
  <1>5. Loaded(e, "LOAD_AAD", z) = Ip(k, v, z, d, t) /\ Loaded(e, "LOAD_PLAINTEXT", z) = Ip(k, v, a, z, t)
    BY Zenon, <1>1, LoadedBy
  <1>6. Loaded(e, "LOAD_TAG_REF", z) = Ip(k, v, a, d, z)
    BY Zenon, <1>1, LoadedBy
  <1>7. \A op \in Starts : Loaded(e, op, z) \in {e, Ip(k, v, <<>>, <<>>, <<>>)}
    BY Zenon, <1>2, LoadedBy
  <1> QED BY Zenon, <1>3, <1>4, <1>5, <1>6, <1>7 DEF e

LEMMA IpLoaded ==
  ASSUME NEW e, IsIp(e), NEW op \in Loads \union Starts, NEW z
  PROVE  /\ IsIp(Loaded(e, op, z))
         /\ op = "LOAD_PLAINTEXT" => Loaded(e, op, z).data = z
         /\ op = "LOAD_TAG_REF" => Loaded(e, op, z).tag_ref = z /\ Loaded(e, op, z).data = e.data
  <1>1. PICK k, v, a, d, t : e = Ip(k, v, a, d, t)
    BY DEF IsIp
  <1>2. /\ Loaded(e, "LOAD_KEY", z) = Ip(z, v, <<>>, <<>>, <<>>)
        /\ Loaded(e, "LOAD_IV", z) = Ip(k, z, <<>>, <<>>, <<>>)
        /\ Loaded(e, "LOAD_AAD", z) = Ip(k, v, z, d, t)
        /\ Loaded(e, "LOAD_PLAINTEXT", z) = Ip(k, v, a, z, t)
        /\ Loaded(e, "LOAD_TAG_REF", z) = Ip(k, v, a, d, z)
        /\ \A o \in Starts : Loaded(e, o, z) \in {e, Ip(k, v, <<>>, <<>>, <<>>)}
    <2>1. LET f == Ip(k, v, a, d, t)
          IN  /\ Loaded(f, "LOAD_KEY", z) = Ip(z, v, <<>>, <<>>, <<>>)
              /\ Loaded(f, "LOAD_IV", z) = Ip(k, z, <<>>, <<>>, <<>>)
              /\ Loaded(f, "LOAD_AAD", z) = Ip(k, v, z, d, t)
              /\ Loaded(f, "LOAD_PLAINTEXT", z) = Ip(k, v, a, z, t)
              /\ Loaded(f, "LOAD_TAG_REF", z) = Ip(k, v, a, d, z)
              /\ \A o \in Starts : Loaded(f, o, z) \in {f, Ip(k, v, <<>>, <<>>, <<>>)}
      BY Zenon, IpLoadedBy
    <2> QED BY <1>1, <2>1
  <1>3. Ip(k, v, a, z, t).data = z /\ Ip(k, v, a, d, z).tag_ref = z /\ Ip(k, v, a, d, z).data = d /\ e.data = d
    BY <1>1 DEF Ip
  <1>4. op \in {"LOAD_KEY", "LOAD_IV", "LOAD_AAD", "LOAD_PLAINTEXT", "LOAD_TAG_REF"} \/ op \in Starts
    BY DEF Loads, CMD_ACKS
  <1>5. IsIp(Loaded(e, op, z))
    BY Zenon, <1>1, <1>2, <1>4 DEF IsIp
  <1>6. op = "LOAD_PLAINTEXT" => Loaded(e, op, z).data = z
    BY Zenon, <1>2, <1>3
  <1>7. op = "LOAD_TAG_REF" => Loaded(e, op, z).tag_ref = z /\ Loaded(e, op, z).data = e.data
    BY Zenon, <1>2, <1>3
  <1> QED BY <1>5, <1>6, <1>7

LEMMA PrimedNext ==
  ASSUME NEW e, IsIp(e), NEW x, Packets(x), x # <<>>, Primed(e, x)
  PROVE  /\ Ready(e, x[1][1])
         /\ IsIp(Loaded(e, x[1][1], x[1][2])) /\ Primed(Loaded(e, x[1][1], x[1][2]), Tail(x))
  <1> DEFINE n == Len(x)
             y == Tail(x)
             op == x[1][1]
             z == x[1][2]
             f == Loaded(e, op, z)
  <1>1. n \in Nat \ {0} /\ Len(y) = n - 1 /\ \A i \in 1..n - 1 : y[i] = x[i + 1]
    BY ListTail DEF Packets
  <1>2. op \in Loads \union Starts
    <2>1. 1 \in 1..n
      BY <1>1
    <2>2. PICK o \in Loads \union Starts : \E payload : x[1] = <<o, payload>>
      BY <2>1 DEF Packets, IsPacket
    <2> QED BY <2>2
  <1>3. Ready(e, op)
    <2>1. 1 \in 1..n
      BY <1>1
    <2> QED BY <2>1 DEF Primed, Ready, Starts
  <1>4. IsIp(f) /\ (op = "LOAD_PLAINTEXT" => f.data = z) /\ (op = "LOAD_TAG_REF" => f.tag_ref = z /\ f.data = e.data)
    BY <1>2, IpLoaded
  <1> HIDE DEF f, y
  <1>5. ASSUME NEW j \in 1..n - 1
        PROVE  /\ y[j][1] = "START_ENCRYPT" =>
                      IF j = 1 THEN Full(f.data) ELSE y[j - 1][1] = "LOAD_PLAINTEXT" /\ Full(y[j - 1][2])
               /\ y[j][1] = "START_DECRYPT" =>
                      /\ IF j = 1 THEN Full(f.tag_ref) ELSE y[j - 1][1] = "LOAD_TAG_REF" /\ Full(y[j - 1][2])
                      /\ IF j <= 2 THEN Full(f.data) ELSE y[j - 2][1] = "LOAD_PLAINTEXT" /\ Full(y[j - 2][2])
    <2>1. j + 1 \in 1..n /\ j + 1 # 1 /\ (j + 1) - 1 = j /\ (j + 1) - 2 = j - 1 /\ y[j] = x[j + 1]
      BY <1>1
    <2>2. (j > 1 => y[j - 1] = x[j]) /\ (j > 2 => y[j - 2] = x[j - 1])
      <3>1. (j > 1 => j - 1 \in 1..n - 1 /\ (j - 1) + 1 = j) /\ (j > 2 => j - 2 \in 1..n - 1 /\ (j - 2) + 1 = j - 1)
        BY <1>1
      <3> QED BY <1>1, <3>1
    <2>3. /\ x[j + 1][1] = "START_ENCRYPT" => x[j][1] = "LOAD_PLAINTEXT" /\ Full(x[j][2])
          /\ x[j + 1][1] = "START_DECRYPT" =>
                /\ x[j][1] = "LOAD_TAG_REF" /\ Full(x[j][2])
                /\ IF j + 1 <= 2 THEN Full(e.data) ELSE x[j - 1][1] = "LOAD_PLAINTEXT" /\ Full(x[j - 1][2])
      BY <2>1 DEF Primed
    <2>4. CASE j = 1
      BY <1>4, <2>1, <2>3, <2>4
    <2>5. CASE j = 2
      BY <1>4, <2>1, <2>2, <2>3, <2>5
    <2>6. CASE j > 2
      <3>1. ~(j <= 2) /\ ~(j + 1 <= 2) /\ j # 1 /\ j > 1
        BY <1>1, <2>6
      <3> QED BY <2>1, <2>2, <2>3, <2>6, <3>1
    <2>7. j = 1 \/ j = 2 \/ j > 2
      BY <1>1
    <2> QED BY <2>4, <2>5, <2>6, <2>7
  <1>6. Primed(f, y)
    BY <1>1, <1>5 DEF Primed
  <1> QED BY <1>3, <1>4, <1>6 DEF f, y

-----------------------------------------------------------------------------
(* Answers read and answers still to come, of a command that is answered.  *)
Begun(cmd, some) ==
    some = <<>> \/ LET e == Expected(cmd, some[1][1])
                   IN  Len(some) < Len(e) /\ \A k \in 1..Len(some) : some[k][1] = e[k]

(* x, then y, is a, then b; x is only a part of a.                         *)
SameJoin(x, y, a, b) == x \o y = a \o b
LEMMA SplitAt ==
  ASSUME NEW x, NEW y, NEW a, NEW b, IsSeq(x), IsSeq(y), IsSeq(a), IsSeq(b),
         SameJoin(x, y, a, b), Len(x) < Len(a)
  PROVE  /\ \A k \in 1..Len(x) : x[k] = a[k]
         /\ y # <<>> /\ y[1] = a[Len(x) + 1]
         /\ Len(x) + 1 = Len(a) => Append(x, y[1]) = a /\ Tail(y) = b
         /\ SameJoin(Append(x, y[1]), Tail(y), a, b)
  <1> DEFINE z == x \o y
             w == a \o b
             m == Len(x)
             n == Len(a)
             c == Append(x, y[1])
             r == Tail(y)
             v == c \o r
  <1>1. m \in Nat /\ n \in Nat /\ Len(y) \in Nat /\ Len(b) \in Nat
    BY ListIs
  <1>2. IsSeq(z) /\ Len(z) = m + Len(y) /\ (\A i \in 1..m : z[i] = x[i]) /\ \A i \in 1..Len(y) : z[m + i] = y[i]
    BY ListJoin
  <1>3. IsSeq(w) /\ Len(w) = n + Len(b) /\ (\A i \in 1..n : w[i] = a[i]) /\ \A i \in 1..Len(b) : w[n + i] = b[i]
    BY ListJoin
  <1>4. z = w
    BY DEF SameJoin
  <1>5. Len(y) >= 1 /\ y # <<>> /\ Len(b) = Len(y) - (n - m)
    <2>1. m + Len(y) = n + Len(b)
      BY <1>2, <1>3, <1>4
    <2>2. Len(y) >= 1 /\ Len(b) = Len(y) - (n - m)
      BY <1>1, <2>1
    <2>3. y # <<>>
      BY <2>2, ListIs
    <2> QED BY <2>2, <2>3
  <1>6. IsSeq(r) /\ Len(r) = Len(y) - 1 /\ \A i \in 1..Len(y) - 1 : r[i] = y[i + 1]
    BY <1>5, ListTail
  <1>7. IsSeq(c) /\ Len(c) = m + 1 /\ c[m + 1] = y[1] /\ \A i \in 1..m : c[i] = x[i]
    BY ListAppend
  <1> HIDE DEF z, w, c, r
  <1>8. IsSeq(v) /\ Len(v) = (m + 1) + Len(r) /\ (\A i \in 1..m + 1 : v[i] = c[i]) /\ \A i \in 1..Len(r) : v[(m + 1) + i] = r[i]
    <2>1. IsSeq(v) /\ Len(v) = Len(c) + Len(r) /\ (\A i \in 1..Len(c) : v[i] = c[i])
          /\ \A i \in 1..Len(r) : v[Len(c) + i] = r[i]
      <3>1. IsSeq(c) /\ IsSeq(r)
        BY <1>6, <1>7
      <3> QED BY <3>1, ListJoin
    <2> HIDE DEF v, m
    <2> QED BY <1>7, <2>1
  <1> HIDE DEF v, m, n
  <1>9. \A k \in 1..m : x[k] = a[k]
    BY <1>1, <1>2, <1>3, <1>4 DEF m, n
  <1>10. y[1] = a[m + 1]
    <2>1. 1 \in 1..Len(y) /\ m + 1 \in 1..n
      BY <1>1, <1>5 DEF m, n
    <2> QED BY <1>2, <1>3, <1>4, <2>1
  <1>11. ASSUME m + 1 = n PROVE c = a /\ r = b
    <2>1. \A k \in 1..m + 1 : c[k] = a[k]
      <3>1. \A k \in 1..m + 1 : k = m + 1 \/ k \in 1..m
        BY <1>1
      <3> QED BY <1>7, <1>9, <1>10, <3>1
    <2>2. c = a
      BY <1>7, <1>11, <2>1, ListSame DEF n
    <2>3. Len(r) = Len(b)
      <3>1. n - m = 1
        BY <1>1, <1>11
      <3> QED BY <1>5, <1>6, <3>1
    <2>4. ASSUME NEW i \in 1..Len(r) PROVE r[i] = b[i]
      <3>1. i \in 1..Len(y) - 1 /\ i + 1 \in 1..Len(y) /\ i \in 1..Len(b) /\ m + (i + 1) = n + i
        BY <1>1, <1>6, <1>11, <2>3
      <3>2. r[i] = y[i + 1] /\ z[m + (i + 1)] = y[i + 1] /\ w[n + i] = b[i]
        BY <1>2, <1>3, <1>6, <3>1
      <3> QED BY <1>4, <3>1, <3>2
    <2>5. r = b
      BY <1>6, <2>3, <2>4, ListSame
    <2> QED BY <2>2, <2>5
  <1>12. v = z
    <2>1. Len(v) = Len(z)
      BY <1>1, <1>2, <1>5, <1>6, <1>8
    <2>2. ASSUME NEW i \in 1..Len(v) PROVE v[i] = z[i]
      <3>1. CASE i <= m
        <4>1. i \in 1..m /\ i \in 1..m + 1
          BY <1>1, <3>1
        <4> QED BY <1>2, <1>7, <1>8, <4>1
      <3>2. CASE i = m + 1
        <4>1. m + 1 \in 1..m + 1 /\ 1 \in 1..Len(y)
          BY <1>1, <1>5
        <4> QED BY <1>2, <1>7, <1>8, <3>2, <4>1
      <3>3. CASE i > m + 1
        <4> DEFINE j == i - (m + 1)
        <4>1. j \in 1..Len(r) /\ i = (m + 1) + j /\ j + 1 \in 1..Len(y) /\ i = m + (j + 1) /\ j \in 1..Len(y) - 1
          BY <1>1, <1>6, <1>8, <2>2, <3>3
        <4> HIDE DEF j
        <4>2. v[i] = r[j] /\ r[j] = y[j + 1] /\ z[i] = y[j + 1]
          BY <1>2, <1>6, <1>8, <4>1
        <4> QED BY <4>2
      <3>4. i <= m \/ i = m + 1 \/ i > m + 1
        BY <1>1, <1>8, <1>6, <1>5
      <3> QED BY <3>1, <3>2, <3>3, <3>4
    <2> QED BY <1>2, <1>8, <2>1, <2>2, ListSame
  <1>13. SameJoin(c, r, a, b)
    BY <1>4, <1>12 DEF SameJoin, v, z, w
  <1> QED BY <1>5, <1>9, <1>10, <1>11, <1>13 DEF c, r, m, n

(* Sequences of answers, one for each of the first commands.               *)
Answered(cmds, ans) ==
    /\ Lists(ans) /\ Len(ans) <= Len(cmds)
    /\ \A i \in 1..Len(ans) : AnswersTo(cmds[i], ans[i])
Makes(some, back, ans) == some \o back = FlattenSeq(ans)
(* What is read and to be read are such answers; q are the other commands. *)
Answering(cmds, q, some, back, ans) ==
    /\ Answered(cmds, ans) /\ Len(ans) + Len(q) = Len(cmds)
    /\ \A i \in 1..Len(q) : q[i][1] = cmds[Len(ans) + i]
    /\ Makes(some, back, ans)

LEMMA FirstAnswer ==
  ASSUME NEW cmds, NEW ans, NEW some, NEW back, Answered(cmds, ans), ans # <<>>, IsSeq(some), IsSeq(back),
         Begun(cmds[1], some), Makes(some, back, ans)
  PROVE  LET a == ans[1]
             b == FlattenSeq(Tail(ans))
         IN  /\ IsSeq(a) /\ IsSeq(b) /\ AnswersTo(cmds[1], a) /\ Lists(Tail(ans))
             /\ SameJoin(some, back, a, b) /\ Len(some) < Len(a)
             /\ some # <<>> => some[1] = a[1]
  <1> DEFINE a == ans[1]
             b == FlattenSeq(Tail(ans))
  <1>1. Lists(ans) /\ IsSeq(ans) /\ Len(ans) \in Nat /\ 1 \in 1..Len(ans)
    <2>1. Lists(ans) /\ IsSeq(ans)
      BY DEF Answered, Lists
    <2>2. Len(ans) \in Nat /\ Len(ans) # 0
      BY <2>1, ListIs
    <2> QED BY <2>1, <2>2
  <1>2. AnswersTo(cmds[1], a)
    BY <1>1 DEF Answered
  <1>3. Lists(Tail(ans)) /\ IsSeq(a) /\ FlattenSeq(ans) = a \o b
    <2>1. Head(ans) = ans[1]
      BY <1>1, ListTail
    <2> QED BY <1>1, <2>1, FlatFirst
  <1>4. IsSeq(b)
    BY <1>3, FlattenIs
  <1>5. SameJoin(some, back, a, b)
    BY <1>3 DEF SameJoin, Makes
  <1>6. a # <<>> /\ Len(a) \in Nat /\ Len(a) # 0 /\ Len(a) = Len(Expected(cmds[1], a[1][1]))
    BY <1>2, <1>3, ListIs DEF AnswersTo
  <1> HIDE DEF a, b
  <1>7. Len(some) < Len(a) /\ (some # <<>> => some[1] = a[1])
    <2>1. CASE some = <<>>
      <3>1. Len(some) = 0
        BY <2>1, ListEmpty
      <3> QED BY <1>6, <2>1, <3>1
    <2>2. CASE some # <<>>
      <3>1. Len(some) \in Nat /\ Len(some) # 0
        BY <2>2, ListIs
      <3>2. 1 \in 1..Len(some) /\ 1 \in 1..Len(a)
        BY <1>6, <3>1
      <3>3. (some \o back)[1] = some[1]
        BY <3>2, ListJoin
      <3>4. (a \o b)[1] = a[1]
        <4>1. IsSeq(a) /\ IsSeq(b)
          BY <1>3, <1>4
        <4> QED BY <3>2, <4>1, ListJoin
      <3>5. some[1] = a[1]
        BY <1>5, <3>3, <3>4 DEF SameJoin
      <3>6. Len(some) < Len(Expected(cmds[1], some[1][1]))
        BY <2>2 DEF Begun
      <3> QED BY <1>6, <3>5, <3>6
    <2> QED BY <2>1, <2>2
  <1> QED BY <1>2, <1>3, <1>4, <1>5, <1>7 DEF a, b

(* While nothing is lost, an answer is under way or to be computed.        *)
LEMMA NeverWaits ==
  ASSUME NEW cmds, NEW some, NEW ans, IsSeq(cmds), IsSeq(some), cmds # <<>>,
         Answering(cmds, <<>>, some, <<>>, ans), Begun(cmds[1], some)
  PROVE  FALSE
  <1>1. Answered(cmds, ans) /\ IsSeq(ans) /\ Len(ans) + Len(<<>>) = Len(cmds) /\ Makes(some, <<>>, ans)
    BY DEF Answering, Answered, Lists
  <1>2. Len(<<>>) = 0 /\ IsSeq(<<>>)
    BY ListEmpty
  <1>3. ans # <<>>
    <2>1. Len(cmds) \in Nat /\ Len(cmds) # 0 /\ Len(ans) \in Nat
      BY <1>1, ListIs
    <2>2. Len(ans) # 0
      BY <1>1, <1>2, <2>1
    <2> QED BY <1>1, <2>2, ListIs
  <1> DEFINE a == ans[1]
             b == FlattenSeq(Tail(ans))
  <1>4. IsSeq(a) /\ IsSeq(b) /\ SameJoin(some, <<>>, a, b) /\ Len(some) < Len(a)
    BY <1>1, <1>2, <1>3, FirstAnswer
  <1> HIDE DEF a, b
  <1>5. <<>> # <<>>
    BY <1>2, <1>4, SplitAt
  <1> QED BY <1>5

(* The next answer is the one its command must get.                        *)
LEMMA NextAnswer ==
  ASSUME NEW cmds, NEW q, NEW some, NEW back, NEW ans, IsSeq(cmds), IsSeq(q), IsSeq(some), IsSeq(back), back # <<>>,
         Answering(cmds, q, some, back, ans), Begun(cmds[1], some)
  PROVE  LET read == Append(some, back[1])
             e == Expected(cmds[1], read[1][1])
         IN  /\ back[1][1] = e[Len(read)]
             /\ back[1][1] \in {"CIPHERTEXT", "AUTH_TAG"} => Full(back[1][2])
             /\ Len(read) < Len(e) => Answering(cmds, q, read, Tail(back), ans)
             /\ ~(Len(read) < Len(e)) => Answering(Tail(cmds), q, <<>>, Tail(back), Tail(ans))
  <1> DEFINE read == Append(some, back[1])
             e == Expected(cmds[1], read[1][1])
             m == Len(some)
             a == ans[1]
             b == FlattenSeq(Tail(ans))
  <1>1. Answered(cmds, ans) /\ Lists(ans) /\ IsSeq(ans) /\ Len(ans) + Len(q) = Len(cmds) /\ Len(ans) <= Len(cmds)
        /\ Makes(some, back, ans) /\ \A i \in 1..Len(q) : q[i][1] = cmds[Len(ans) + i]
    BY DEF Answering, Answered, Lists
  <1>2. ans # <<>>
    <2>1. SUFFICES ASSUME ans = <<>> PROVE FALSE
      OBVIOUS
    <2>2. FlattenSeq(ans) = <<>>
      BY <2>1, FlattenEmpty
    <2>3. Len(some \o back) = m + Len(back) /\ IsSeq(some \o back)
      BY ListJoin
    <2>4. Len(back) \in Nat /\ Len(back) # 0 /\ m \in Nat
      BY ListIs
    <2>5. Len(some \o back) = 0
      BY <1>1, <2>2, ListEmpty DEF Makes
    <2> QED BY <2>3, <2>4, <2>5
  <1>3. /\ IsSeq(a) /\ IsSeq(b) /\ AnswersTo(cmds[1], a) /\ Lists(Tail(ans))
        /\ SameJoin(some, back, a, b) /\ m < Len(a) /\ (some # <<>> => some[1] = a[1])
    <2>1. Answered(cmds, ans) /\ ans # <<>> /\ Makes(some, back, ans)
      BY <1>1, <1>2
    <2> QED BY  <2>1, FirstAnswer
  <1>4. m \in Nat /\ Len(a) \in Nat /\ Len(ans) \in Nat /\ Len(ans) # 0 /\ Len(cmds) \in Nat /\ Len(q) \in Nat
    BY <1>1, <1>2, <1>3, ListIs
  <1> HIDE DEF a, b
  <1>5. /\ \A k \in 1..m : some[k] = a[k]
        /\ back[1] = a[m + 1]
        /\ m + 1 = Len(a) => read = a /\ Tail(back) = b
        /\ SameJoin(read, Tail(back), a, b)
    BY <1>3, SplitAt
  <1>6. IsSeq(read) /\ Len(read) = m + 1 /\ read[m + 1] = back[1] /\ \A k \in 1..m : read[k] = some[k]
    BY ListAppend
  <1>7. read[1] = a[1]
    <2>1. CASE m = 0
      BY <1>5, <1>6, <2>1
    <2>2. CASE m # 0
      <3>1. 1 \in 1..m
        BY <1>4, <2>2
      <3> QED BY <1>5, <1>6, <3>1
    <2> QED BY <2>1, <2>2
  <1>8. e = Expected(cmds[1], a[1][1]) /\ Len(e) = Len(a)
    BY <1>3, <1>7 DEF AnswersTo
  <1> HIDE DEF read, e
  <1>9. back[1][1] = e[Len(read)] /\ (back[1][1] \in {"CIPHERTEXT", "AUTH_TAG"} => Full(back[1][2]))
    <2>1. m + 1 \in 1..Len(a)
      BY <1>3, <1>4
    <2>2. a[m + 1][1] = e[m + 1] /\ (a[m + 1][1] \in {"CIPHERTEXT", "AUTH_TAG"} => Full(a[m + 1][2]))
      BY <1>3, <1>8, <2>1 DEF AnswersTo
    <2> QED BY <1>5, <1>6, <2>2
  <1>10. Answering(cmds, q, read, Tail(back), ans)
    <2>1. FlattenSeq(ans) = a \o b
      BY <1>1, <1>3 DEF SameJoin, Makes
    <2>2. Makes(read, Tail(back), ans)
      BY <1>5, <2>1 DEF SameJoin, Makes
    <2> QED BY <1>1, <2>2 DEF Answering
  <1>11. ASSUME ~(Len(read) < Len(e)) PROVE Answering(Tail(cmds), q, <<>>, Tail(back), Tail(ans))
    <2> DEFINE c == Tail(cmds)
               s == Tail(ans)
    <2>1. m + 1 = Len(a)
      BY <1>3, <1>4, <1>6, <1>8, <1>11
    <2>2. IsSeq(c) /\ Len(c) = Len(cmds) - 1 /\ \A i \in 1..Len(cmds) - 1 : c[i] = cmds[i + 1]
      <3>1. cmds # <<>>
        BY <1>1, <1>4, ListIs
      <3> QED BY <3>1, ListTail
    <2>3. Lists(s) /\ Len(s) = Len(ans) - 1 /\ \A i \in 1..Len(ans) - 1 : s[i] = ans[i + 1]
      BY <1>1, <1>2, <1>3, ListTail
    <2>4. Tail(back) = b /\ b = FlattenSeq(s) /\ IsSeq(b)
      BY <1>3, <1>5, <2>1 DEF b
    <2> HIDE DEF c, s
    <2>5. Makes(<<>>, Tail(back), s)
      BY <2>4, ListNothing DEF Makes
    <2>6. ASSUME NEW i \in 1..Len(s) PROVE AnswersTo(c[i], s[i])
      <3>1. i \in 1..Len(ans) - 1 /\ i + 1 \in 1..Len(ans) /\ i \in 1..Len(cmds) - 1
        BY <1>1, <1>4, <2>3
      <3>2. AnswersTo(cmds[i + 1], ans[i + 1])
        BY <1>1, <3>1 DEF Answered
      <3> QED BY <2>2, <2>3, <3>1, <3>2
    <2>7. Len(s) <= Len(c) /\ Len(s) + Len(q) = Len(c)
      BY <1>1, <1>4, <2>2, <2>3
    <2>8. ASSUME NEW i \in 1..Len(q) PROVE q[i][1] = c[Len(s) + i]
      <3>1. Len(s) + i \in 1..Len(cmds) - 1 /\ (Len(s) + i) + 1 = Len(ans) + i
        BY <1>1, <1>4, <2>3
      <3>2. c[Len(s) + i] = cmds[Len(ans) + i]
        BY <2>2, <3>1
      <3> QED BY <1>1, <3>2
    <2>9. Answered(c, s)
      BY <2>3, <2>6, <2>7 DEF Answered
    <2>10. Answering(c, q, <<>>, Tail(back), s)
      BY <2>5, <2>7, <2>8, <2>9 DEF Answering
    <2> QED BY <2>10 DEF c, s
  <1> QED BY <1>9, <1>10, <1>11 DEF read, e

(* The answers a window begins with, and one more of them.                 *)
LEMMA AnsweringNone ==
  ASSUME NEW g, IsSeq(g)
  PROVE  Answering(Ops(g), g, <<>>, <<>>, <<>>)
  <1>1. IsSeq(Ops(g)) /\ Len(Ops(g)) = Len(g) /\ (\A i \in 1..Len(g) : Ops(g)[i] = g[i][1]) /\ Len(g) \in Nat
    BY OpsAre, ListIs
  <1>2. Len(<<>>) = 0 /\ Lists(<<>>)
    BY ListEmpty DEF Lists
  <1>3. Makes(<<>>, <<>>, <<>>)
    BY FlattenEmpty, ListEmpty, ListNothing DEF Makes
  <1>4. \A i \in 1..Len(g) : Len(<<>>) + i = i
    BY <1>2
  <1> QED BY <1>1, <1>2, <1>3, <1>4 DEF Answering, Answered
LEMMA AnsweringMore ==
  ASSUME NEW cmds, NEW q, NEW some, NEW back, NEW ans, NEW w, IsSeq(cmds), IsSeq(q), IsSeq(some), IsSeq(back), q # <<>>,
         Answering(cmds, q, some, back, ans), AnswersTo(q[1][1], w)
  PROVE  Answering(cmds, Tail(q), some, back \o w, Append(ans, w))
  <1> DEFINE n == Len(ans)
             s == Append(ans, w)
             r == Tail(q)
  <1>1. Lists(ans) /\ IsSeq(ans) /\ IsSeq(w) /\ n + Len(q) = Len(cmds) /\ n <= Len(cmds) /\ Makes(some, back, ans)
        /\ (\A i \in 1..Len(q) : q[i][1] = cmds[n + i]) /\ \A i \in 1..n : AnswersTo(cmds[i], ans[i])
    BY DEF Answering, Answered, Lists, AnswersTo, Pairs
  <1>2. n \in Nat /\ Len(q) \in Nat /\ Len(q) # 0 /\ Len(cmds) \in Nat
    BY <1>1, ListIs
  <1>3. Len(s) = n + 1 /\ s[n + 1] = w /\ \A i \in 1..n : s[i] = ans[i]
    BY <1>1, ListAppend
  <1>4. Lists(s) /\ FlattenSeq(s) = FlattenSeq(ans) \o w /\ IsSeq(FlattenSeq(ans))
    BY <1>1, FlatLast
  <1>5. IsSeq(r) /\ Len(r) = Len(q) - 1 /\ \A i \in 1..Len(q) - 1 : r[i] = q[i + 1]
    BY ListTail
  <1> HIDE DEF s, n, r
  <1>6. ASSUME NEW i \in 1..n + 1 PROVE AnswersTo(cmds[i], s[i])
    <2>1. CASE i = n + 1
      <3>1. 1 \in 1..Len(q)
        BY <1>2
      <3> QED BY <1>1, <1>3, <2>1, <3>1
    <2>2. CASE i \in 1..n
      BY <1>1, <1>3, <2>2
    <2> QED BY <1>2, <2>1, <2>2
  <1>7. ASSUME NEW i \in 1..Len(r) PROVE r[i][1] = cmds[(n + 1) + i]
    <2>1. i \in 1..Len(q) - 1 /\ i + 1 \in 1..Len(q) /\ n + (i + 1) = (n + 1) + i
      BY <1>2, <1>5
    <2>2. r[i] = q[i + 1] /\ q[i + 1][1] = cmds[n + (i + 1)]
      BY <1>1, <1>5, <2>1
    <2> QED BY <2>1, <2>2
  <1>8. Makes(some, back \o w, s)
    <2>1. (some \o back) \o w = some \o (back \o w)
      <3>1. IsSeq(w)
        BY <1>1
      <3> QED BY <3>1, ListRegroup
    <2> QED BY <1>1, <1>4, <2>1 DEF Makes
  <1>9. n + 1 <= Len(cmds) /\ (n + 1) + Len(r) = Len(cmds)
    <2>1. Len(q) \in Nat /\ Len(q) # 0 /\ n \in Nat /\ n + Len(q) = Len(cmds) /\ Len(r) = Len(q) - 1
      BY <1>1, <1>2, <1>5
    <2> QED BY <2>1
  <1> QED BY <1>3, <1>4, <1>6, <1>7, <1>8, <1>9 DEF Answering, Answered, s, r

(* The kinds of the answers to one command.                                *)
LEMMA TagsExpected ==
  ASSUME NEW cmd \in Loads \union Starts, NEW first
  PROVE  Ones(Expected(cmd, first), {"AUTH_TAG"}) = IF cmd \in Starts THEN 1 ELSE 0
  <1> DEFINE e == Expected(cmd, first)
             T == {i \in DOMAIN e : e[i] \in {"AUTH_TAG"}}
  <1>1. IsSeq(e) /\ DOMAIN e = 1..Len(e) /\ Len(e) \in 1..3
    BY ExpectedIs, ListIs
  <1>2. CASE cmd \in Loads
    <2>1. Len(e) = 1 /\ e[1] \in Acks /\ cmd \notin Starts
      BY <1>2, ExpectedIs DEF Loads, CMD_ACKS, Starts
    <2>2. "AUTH_TAG" \notin Acks
      BY DEF Acks, Loads, CMD_ACKS
    <2> HIDE DEF e
    <2>3. T = {}
      BY <1>1, <2>1, <2>2
    <2> QED BY <2>1, <2>3, FS_EmptySet DEF Ones, e
  <1>3. CASE cmd \in Starts
    <2>1. \E j \in 1..Len(e) : \A i \in 1..Len(e) : e[i] = "AUTH_TAG" <=> i = j
      <3>1. CASE cmd = "START_ENCRYPT"
        <4>1. Len(e) = 2 /\ e[1] = "CIPHERTEXT" /\ e[2] = "AUTH_TAG"
          BY <3>1, ExpectedIs
        <4> HIDE DEF e
        <4> QED BY <4>1
      <3>2. CASE cmd = "START_DECRYPT" /\ first = "AUTH_TAG"
        <4>1. Len(e) = 2 /\ e[1] = "AUTH_TAG" /\ e[2] = "VERIFY_RESULT"
          BY <3>2, ExpectedIs
        <4> HIDE DEF e
        <4> QED BY <4>1
      <3>3. CASE cmd = "START_DECRYPT" /\ first # "AUTH_TAG"
        <4>1. Len(e) = 3 /\ e[1] = "CIPHERTEXT" /\ e[2] = "AUTH_TAG" /\ e[3] = "VERIFY_RESULT"
          BY <3>3, ExpectedIs
        <4> HIDE DEF e
        <4> QED BY <4>1
      <3> QED BY <1>3, <3>1, <3>2, <3>3 DEF Starts
    <2>2. PICK j \in 1..Len(e) : \A i \in 1..Len(e) : e[i] = "AUTH_TAG" <=> i = j
      BY <2>1
    <2> HIDE DEF e
    <2>3. T = {j}
      BY <1>1, <2>2
    <2>4. Cardinality({j}) = 1
      BY FS_Singleton
    <2> QED BY <1>3, <2>3, <2>4 DEF Ones, e
  <1> QED BY <1>2, <1>3
LEMMA TagsOf ==
  ASSUME NEW x, NEW e, IsSeq(x), IsSeq(e), Len(x) = Len(e), \A k \in 1..Len(x) : x[k][1] = e[k]
  PROVE  Tagged(x) = Ones(e, {"AUTH_TAG"})
  <1>1. IsSeq(Ops(x)) /\ Len(Ops(x)) = Len(x) /\ \A i \in 1..Len(x) : Ops(x)[i] = x[i][1]
    BY OpsAre
  <1>2. Ops(x) = e
    BY <1>1, ListSame
  <1> QED BY <1>2 DEF Tagged, Count

(* What reading the answer a command must get does to what is read of it.  *)
LEMMA ReadOn ==
  ASSUME NEW cmd \in Loads \union Starts, NEW some, IsSeq(some), Begun(cmd, some), NEW got,
         LET read == Append(some, got) IN got[1] = Expected(cmd, read[1][1])[Len(read)]
  PROVE  LET read == Append(some, got)
             e == Expected(cmd, read[1][1])
         IN  /\ Len(read) < Len(e) => Begun(cmd, read)
             /\ ~(Len(read) < Len(e)) => Tagged(read) = IF cmd \in Starts THEN 1 ELSE 0
             /\ cmd # "START_DECRYPT" =>
                    /\ got[1] \in Acks \union {"CIPHERTEXT", "AUTH_TAG"}
                    /\ got[1] = "AUTH_TAG" <=> cmd \in Starts /\ ~(Len(read) < Len(e))
                    /\ got[1] = "AUTH_TAG" => some # <<>> /\ some[Len(some)][1] = "CIPHERTEXT"
  <1> DEFINE read == Append(some, got)
             e == Expected(cmd, read[1][1])
             m == Len(some)
  <1>1. m \in Nat /\ (some = <<>> <=> m = 0)
    BY ListIs
  <1>2. IsSeq(read) /\ Len(read) = m + 1 /\ read[m + 1] = got /\ \A k \in 1..m : read[k] = some[k]
    BY ListAppend
  <1>3. IsSeq(e) /\ Len(e) \in 1..3
    BY ExpectedIs
  <1>4. got[1] = e[Len(read)]
    OBVIOUS
  <1>5. m # 0 => m < Len(e) /\ \A k \in 1..m : some[k][1] = e[k]
    <2>1. SUFFICES ASSUME m # 0 PROVE m < Len(e) /\ \A k \in 1..m : some[k][1] = e[k]
      OBVIOUS
    <2>2. read[1] = some[1]
      BY <1>1, <1>2, <2>1
    <2>3. Begun(cmd, some) /\ some # <<>>
      BY <1>1, <2>1
    <2>4. e = Expected(cmd, some[1][1])
      BY <2>2
    <2> HIDE DEF e, read
    <2> QED BY <2>3, <2>4 DEF Begun
  <1> HIDE DEF read
  <1>6. \A k \in 1..m + 1 : read[k][1] = e[k]
    <2> HIDE DEF e
    <2>1. \A k \in 1..m + 1 : k = m + 1 \/ (k \in 1..m /\ m # 0)
      BY <1>1
    <2> QED BY <1>1, <1>2, <1>4, <1>5, <2>1
  <1>7. read # <<>> /\ m < Len(e)
    <2> HIDE DEF e
    <2>1. Len(read) # 0
      BY <1>1, <1>2
    <2> HIDE DEF m
    <2>2. m # 0 => m < Len(e)
      BY <1>5, Zenon
    <2>3. m < Len(e)
      BY <1>3, <2>2
    <2> QED BY <1>2, <2>1, <2>3, ListIs
  <1>8. Len(read) < Len(e) => Begun(cmd, read)
    <2> QED BY <1>2, <1>6 DEF Begun
  <1>9. ASSUME ~(Len(read) < Len(e)) PROVE Tagged(read) = IF cmd \in Starts THEN 1 ELSE 0
    <2>1. Ones(e, {"AUTH_TAG"}) = IF cmd \in Starts THEN 1 ELSE 0
      BY TagsExpected
    <2> HIDE DEF e
    <2>2. Len(read) = Len(e)
      BY <1>1, <1>2, <1>3, <1>7, <1>9
    <2>3. Tagged(read) = Ones(e, {"AUTH_TAG"})
      BY <1>2, <1>3, <1>6, <2>2, TagsOf
    <2> QED BY <2>1, <2>3
  <1>10. ASSUME cmd # "START_DECRYPT"
         PROVE  /\ got[1] \in Acks \union {"CIPHERTEXT", "AUTH_TAG"}
                /\ got[1] = "AUTH_TAG" <=> cmd \in Starts /\ ~(Len(read) < Len(e))
                /\ got[1] = "AUTH_TAG" => some # <<>> /\ some[m][1] = "CIPHERTEXT"
    <2>1. CASE cmd \in Loads
      <3>1. Len(e) = 1 /\ e[1] \in Acks /\ cmd \notin Starts
        BY <2>1, ExpectedIs DEF Loads, CMD_ACKS, Starts
      <3>2. "AUTH_TAG" \notin Acks
        BY DEF Acks, Loads, CMD_ACKS
      <3> HIDE DEF e
      <3>3. m = 0
        BY <1>1, <1>7, <3>1
      <3>4. Len(read) = 1
        BY <1>2, <3>3
      <3> QED BY <1>4, <3>1, <3>2, <3>4
    <2>2. CASE cmd \in Starts
      <3>1. cmd = "START_ENCRYPT"
        BY <1>10, <2>2 DEF Starts
      <3>2. Len(e) = 2 /\ e[1] = "CIPHERTEXT" /\ e[2] = "AUTH_TAG"
        BY <3>1, ExpectedIs
      <3> HIDE DEF e
      <3>3. CASE m = 0
        <4>1. Len(read) = 1
          BY <1>2, <3>3
        <4> QED BY <1>4, <2>2, <3>2, <4>1
      <3>4. CASE m = 1
        <4>1. Len(read) = 2 /\ some # <<>> /\ some[1][1] = e[1]
          BY <1>1, <1>2, <1>5, <3>4
        <4> QED BY <1>4, <2>2, <3>2, <3>4, <4>1
      <3>5. m = 0 \/ m = 1
        <4>1. m \in Nat /\ m < 2
          BY <1>1, <1>7, <3>2
        <4> HIDE DEF m
        <4> QED BY <4>1
      <3> QED BY <3>3, <3>4, <3>5
    <2> QED BY <2>1, <2>2
  <1> QED BY <1>8, <1>9, <1>10 DEF read

-----------------------------------------------------------------------------
(* The link: what awaits what, in which order, whatever goes wrong.        *)
LinkOk ==
    /\ window \in Nat \ {0} /\ faults \in Nat
    /\ Queued(toBoard) /\ Packets(Packs(toBoard)) /\ Queued(rx) /\ Grouped(window, groups)
    /\ IsSeq(awaiting) /\ \A i \in 1..Len(awaiting) : awaiting[i] \in Loads \union Starts
    /\ Pairs(partial) /\ IsSeq(responses)
    /\ partial # <<>> => responses # <<>> /\ responses[Len(responses)] = partial[Len(partial)]
    /\ xfer = "read" => awaiting # <<>> /\ Begun(awaiting[1], partial)
    /\ xfer \in {"send", "done"} => awaiting = <<>> /\ partial = <<>>
    /\ xfer = "done" => groups = <<>>
(* As long as no answer of an earlier exchange is in the way, what is      *)
(* under way are at most the messages whose answers are not all read.      *)
Way == Started(Packs(toBoard)) + Tagged(Packs(rx))
CountOk ==
    channel = "spi" \/ faults = 0 =>
        /\ Way <= window
        /\ xfer = "send" => Way = 0
        /\ xfer = "read" => Way + Tagged(partial) <= Ones(awaiting, Starts) /\ Ones(awaiting, Starts) <= window
(* Without a fault the IP answers each command of a window in turn, and    *)
(* nothing is left of it when all is read.                                 *)
SmoothOk ==
    faults = 0 =>
        /\ xfer # "failed" /\ IsIp(engine)
        /\ xfer # "read" => toBoard = <<>> /\ rx = <<>>
        /\ xfer = "read" => \E ans : Answering(awaiting, Packs(toBoard), partial, Packs(rx), ans)
        /\ xfer \in {"send", "read"} => Primed(engine, Packs(toBoard) \o FlattenSeq(groups))

LEMMA PairsAre ==
  ASSUME NEW x, Packets(x)
  PROVE  Pairs(x) /\ IsSeq(x) /\ \A i \in 1..Len(x) : x[i][1] \in Loads \union Starts
  <1>1. ASSUME NEW p, IsPacket(p) PROVE Pair(p) /\ p[1] \in Loads \union Starts
    BY <1>1 DEF IsPacket, Pair
  <1> QED BY <1>1 DEF Packets, Pairs

(* A new exchange begins with an empty link: the CLEAR of SPI empties it,  *)
(* and without a fault nothing was left.                                   *)
LEMMA StartKeeps ==
  ASSUME NEW x, Packets(x), LinkOk, SmoothOk, xfer # "read", StartExchange(x),
         faults = 0 => \A e : Primed(e, x)
  PROVE  LinkOk' /\ CountOk' /\ SmoothOk'
  <1>1. /\ groups' = Batches(x, window) /\ awaiting' = <<>> /\ partial' = <<>> /\ responses' = <<>>
        /\ xfer' = "send" /\ window' = window /\ faults' = faults /\ channel' = channel
    BY DEF StartExchange
  <1>2. /\ channel = "spi" => engine' = NewEngine /\ toBoard' = <<>> /\ rx' = <<>>
        /\ channel # "spi" => engine' = engine /\ toBoard' = toBoard /\ rx' = rx
    BY DEF StartExchange, ClearFirst
  <1>3. Grouped(window, Batches(x, window)) /\ FlattenSeq(Batches(x, window)) = x
    BY BatchesAre DEF LinkOk
  <1>4. Queued(<<>>) /\ Packs(<<>>) = <<>> /\ Packets(<<>>) /\ IsSeq(<<>>) /\ Pairs(<<>>) /\ Len(<<>>) = 0
    <2>1. IsSeq(<<>>) /\ Len(<<>>) = 0
      BY ListEmpty
    <2>2. Queued(<<>>)
      BY <2>1 DEF Queued
    <2>3. Packs(<<>>) = <<>>
      BY <2>2, PacksAre
    <2> QED BY <2>1, <2>2, <2>3 DEF Packets, Pairs
  <1>5. Started(<<>>) = 0 /\ Tagged(<<>>) = 0
    BY StartedNone
  <1>6. Queued(toBoard') /\ Packets(Packs(toBoard')) /\ Queued(rx')
    BY <1>2, <1>4 DEF LinkOk
  <1>7. LinkOk'
    <2>1. window' \in Nat \ {0} /\ faults' \in Nat /\ Grouped(window', groups')
      BY <1>1, <1>3 DEF LinkOk
    <2>2. Pairs(partial') /\ IsSeq(awaiting') /\ IsSeq(responses') /\ Len(awaiting') = 0 /\ partial' = <<>>
      BY <1>1, <1>4
    <2> QED BY <1>1, <1>6, <2>1, <2>2 DEF LinkOk
  <1>8. channel = "spi" \/ faults = 0 => toBoard' = <<>> /\ rx' = <<>>
    BY <1>2 DEF SmoothOk
  <1>9. CountOk'
    <2>1. channel = "spi" \/ faults = 0 => Way' = 0
      BY <1>4, <1>5, <1>8 DEF Way
    <2>2. window \in Nat
      BY DEF LinkOk
    <2> QED BY <1>1, <2>1, <2>2 DEF CountOk
  <1>10. SmoothOk'
    <2>1. SUFFICES ASSUME faults' = 0 PROVE SmoothOk'
      BY DEF SmoothOk
    <2>2. faults = 0 /\ toBoard' = <<>> /\ rx' = <<>>
      BY <1>1, <1>8, <2>1
    <2>3. IsIp(engine')
      <3>1. IsIp(NewEngine)
        BY DEF IsIp, Ip, NewEngine
      <3> QED BY <1>2, <2>2, <3>1 DEF SmoothOk
    <2>4. Primed(engine', Packs(toBoard') \o FlattenSeq(groups'))
      <3>1. Packs(toBoard') \o FlattenSeq(groups') = x
        BY <1>1, <1>3, <1>4, <2>2, ListNothing DEF Packets
      <3> QED BY <2>2, <3>1
    <2> QED BY <1>1, <2>2, <2>3, <2>4 DEF SmoothOk
  <1> QED BY <1>7, <1>9, <1>10

LEMMA PacketsJoin ==
  ASSUME NEW x, NEW y, Packets(x), Packets(y)
  PROVE  Packets(x \o y)
  <1> DEFINE z == x \o y
  <1>1. IsSeq(x) /\ IsSeq(y) /\ Len(x) \in Nat /\ Len(y) \in Nat
    BY ListIs DEF Packets
  <1>2. IsSeq(z) /\ Len(z) = Len(x) + Len(y) /\ (\A i \in 1..Len(x) : z[i] = x[i]) /\ \A i \in 1..Len(y) : z[Len(x) + i] = y[i]
    BY <1>1, ListJoin
  <1> HIDE DEF z
  <1>3. ASSUME NEW i \in 1..Len(z) PROVE IsPacket(z[i])
    <2>1. CASE i \in 1..Len(x)
      BY <1>2, <2>1 DEF Packets
    <2>2. CASE i \notin 1..Len(x)
      <3>1. i - Len(x) \in 1..Len(y) /\ Len(x) + (i - Len(x)) = i
        BY <1>1, <1>2, <2>2
      <3>2. z[i] = y[i - Len(x)]
        BY <1>2, <3>1
      <3> QED BY <3>1, <3>2 DEF Packets
    <2> QED BY <2>1, <2>2
  <1> QED BY <1>2, <1>3 DEF Packets, z
LEMMA PacketsTail ==
  ASSUME NEW x, Packets(x), x # <<>>
  PROVE  Packets(Tail(x))
  <1>1. IsSeq(Tail(x)) /\ Len(x) \in Nat /\ Len(Tail(x)) = Len(x) - 1 /\ \A i \in 1..Len(x) - 1 : Tail(x)[i] = x[i + 1]
    BY ListTail DEF Packets
  <1>2. \A i \in 1..Len(x) - 1 : i + 1 \in 1..Len(x)
    BY <1>1
  <1> QED BY <1>1, <1>2 DEF Packets
LEMMA GroupedFirst ==
  ASSUME NEW width, NEW gs, Grouped(width, gs), gs # <<>>
  PROVE  /\ Packets(Head(gs)) /\ Head(gs) # <<>> /\ Started(Head(gs)) <= width
         /\ Grouped(width, Tail(gs)) /\ IsSeq(FlattenSeq(Tail(gs)))
         /\ FlattenSeq(gs) = Head(gs) \o FlattenSeq(Tail(gs))
  <1>1. Lists(gs) /\ IsSeq(gs) /\ Len(gs) \in Nat /\ Len(gs) # 0
    BY ListIs DEF Grouped, Lists
  <1>2. Lists(Tail(gs)) /\ FlattenSeq(gs) = Head(gs) \o FlattenSeq(Tail(gs))
    BY <1>1, FlatFirst
  <1>3. Len(Tail(gs)) = Len(gs) - 1 /\ Head(gs) = gs[1] /\ \A i \in 1..Len(gs) - 1 : Tail(gs)[i] = gs[i + 1]
    BY <1>1, ListTail
  <1>4. 1 \in 1..Len(gs) /\ \A i \in 1..Len(gs) - 1 : i + 1 \in 1..Len(gs)
    BY <1>1
  <1>5. Grouped(width, Tail(gs))
    BY <1>2, <1>3, <1>4 DEF Grouped
  <1>6. Packets(Head(gs)) /\ Head(gs) # <<>> /\ Started(Head(gs)) <= width
    BY <1>3, <1>4 DEF Grouped
  <1> QED BY <1>2, <1>5, <1>6, FlattenIs

(* What a window sent does to the link.                                    *)
LEMMA SentGroup ==
  ASSUME LinkOk, SendGroup, groups # <<>>
  PROVE  LET g == Head(groups)
         IN  /\ Packets(g) /\ g # <<>> /\ IsSeq(g) /\ Started(g) <= window /\ Started(g) \in Nat
             /\ awaiting' = Ops(g) /\ Len(Ops(g)) = Len(g) /\ IsSeq(Ops(g)) /\ Ops(g) # <<>>
             /\ Queued(toBoard') /\ Packs(toBoard') = Packs(toBoard) \o g
             /\ groups' = Tail(groups) /\ Grouped(window, Tail(groups)) /\ FlattenSeq(groups) = g \o FlattenSeq(Tail(groups))
             /\ IsSeq(FlattenSeq(Tail(groups))) /\ xfer' = "read" /\ xfer = "send"
  <1> DEFINE g == Head(groups)
  <1>1. /\ Packets(g) /\ g # <<>> /\ Started(g) <= window /\ Grouped(window, Tail(groups))
        /\ FlattenSeq(groups) = g \o FlattenSeq(Tail(groups)) /\ IsSeq(FlattenSeq(Tail(groups)))
    BY GroupedFirst DEF LinkOk
  <1>2. /\ toBoard' = toBoard \o [i \in DOMAIN g |-> <<g[i], exchange>>]
        /\ awaiting' = [i \in DOMAIN g |-> g[i][1]] /\ groups' = Tail(groups) /\ xfer' = "read" /\ xfer = "send"
    BY DEF SendGroup
  <1> HIDE DEF g
  <1>3. Pairs(g) /\ IsSeq(g) /\ DOMAIN g = 1..Len(g) /\ Len(g) # 0
    BY <1>1, PairsAre, ListIs
  <1>4. awaiting' = Ops(g)
    BY <1>2, <1>3 DEF Ops
  <1>5. IsSeq(Ops(g)) /\ Len(Ops(g)) = Len(g) /\ Ops(g) # <<>> /\ Started(g) \in Nat
    BY <1>3, OpsAre, ListIs
  <1>6. Queued(toBoard') /\ Packs(toBoard') = Packs(toBoard) \o g
    <2>1. Queued(toBoard)
      BY DEF LinkOk
    <2> QED BY <1>2, <1>3, <2>1, PacksJoin
  <1> QED BY <1>1, <1>2, <1>3, <1>4, <1>5, <1>6 DEF g

LEMMA SendKeeps ==
  ASSUME LinkOk, CountOk, SmoothOk, SendGroup
  PROVE  LinkOk' /\ CountOk' /\ SmoothOk'
  <1>1. /\ xfer = "send" /\ awaiting = <<>> /\ partial = <<>>
        /\ UNCHANGED <<channel, window, engine, rx, sent, partial, responses, exchange, faults, ciphered>>
    BY DEF SendGroup, LinkOk
  <1>2. CASE groups = <<>>
    <2>1. xfer' = "done" /\ UNCHANGED <<groups, toBoard, awaiting>>
      BY <1>2 DEF SendGroup
    <2>2. LinkOk'
      BY <1>1, <1>2, <2>1 DEF LinkOk
    <2>3. CountOk'
      BY <1>1, <2>1 DEF CountOk, Way
    <2>4. SmoothOk'
      BY <1>1, <2>1 DEF SmoothOk
    <2> QED BY <2>2, <2>3, <2>4
  <1>3. CASE groups # <<>>
    <2> DEFINE g == Head(groups)
    <2>1. /\ Packets(g) /\ g # <<>> /\ IsSeq(g) /\ Started(g) <= window /\ Started(g) \in Nat
          /\ awaiting' = Ops(g) /\ Len(Ops(g)) = Len(g) /\ IsSeq(Ops(g)) /\ Ops(g) # <<>>
          /\ Queued(toBoard') /\ Packs(toBoard') = Packs(toBoard) \o g
          /\ groups' = Tail(groups) /\ Grouped(window, Tail(groups)) /\ FlattenSeq(groups) = g \o FlattenSeq(Tail(groups))
          /\ IsSeq(FlattenSeq(Tail(groups))) /\ xfer' = "read"
      BY <1>3, SentGroup
    <2> HIDE DEF g
    <2>2. Packets(Packs(toBoard')) /\ Packets(Packs(toBoard)) /\ IsSeq(Packs(toBoard))
      BY <2>1, PacketsJoin DEF LinkOk, Packets
    <2>3. \A i \in 1..Len(awaiting') : awaiting'[i] \in Loads \union Starts
      <3>1. \A i \in 1..Len(g) : g[i][1] \in Loads \union Starts /\ Ops(g)[i] = g[i][1]
        BY <2>1, PairsAre, OpsAre
      <3> QED BY <2>1, <3>1
    <2>4. LinkOk'
      <3>1. Begun(awaiting'[1], partial')
        BY <1>1 DEF Begun
      <3> QED BY <1>1, <2>1, <2>2, <2>3, <3>1 DEF LinkOk
    <2>5. CountOk'
      <3>1. SUFFICES ASSUME channel = "spi" \/ faults = 0 PROVE CountOk'
        BY <1>1 DEF CountOk
      <3>2. Way = 0
        BY <1>1, <3>1 DEF CountOk
      <3>3. Started(Packs(toBoard')) = Started(Packs(toBoard)) + Started(g)
        BY <2>1, <2>2, OpsJoin
      <3>4. Started(Packs(toBoard)) \in Nat /\ Tagged(Packs(rx)) \in Nat /\ Tagged(partial) = 0
        <4>1. IsSeq(Packs(rx))
          BY PacksAre DEF LinkOk
        <4> QED BY <1>1, <2>2, <4>1, OpsAre, StartedNone
      <3>5. Way' = Started(Packs(toBoard')) + Tagged(Packs(rx))
        BY <1>1 DEF Way
      <3>6. Way' = Started(g)
        BY <2>1, <3>2, <3>3, <3>4, <3>5 DEF Way
      <3>7. Ones(awaiting', Starts) = Started(g)
        BY <2>1 DEF Started, Count
      <3> QED BY <1>1, <2>1, <3>4, <3>6, <3>7 DEF CountOk
    <2>6. SmoothOk'
      <3>1. SUFFICES ASSUME faults = 0 PROVE SmoothOk'
        BY <1>1 DEF SmoothOk
      <3>2. toBoard = <<>> /\ rx = <<>> /\ IsIp(engine) /\ Primed(engine, Packs(toBoard) \o FlattenSeq(groups))
        BY <1>1, <3>1 DEF SmoothOk
      <3>3. Packs(toBoard) = <<>> /\ Packs(rx) = <<>>
        BY <3>2, PacksAre DEF LinkOk
      <3>4. Packs(toBoard') = g /\ IsSeq(FlattenSeq(groups))
        <4>1. IsSeq(FlattenSeq(groups))
          BY FlattenIs DEF LinkOk, Grouped
        <4> QED BY <2>1, <3>3, <4>1, ListNothing
      <3>5. Primed(engine', Packs(toBoard') \o FlattenSeq(groups'))
        BY <1>1, <2>1, <3>2, <3>3, <3>4, ListNothing
      <3>6. Answering(awaiting', Packs(toBoard'), partial', Packs(rx'), <<>>)
        <4>1. Answering(Ops(g), g, <<>>, <<>>, <<>>)
          BY <2>1, AnsweringNone
        <4> QED BY <1>1, <2>1, <3>3, <3>4, <4>1
      <3> QED BY <1>1, <2>1, <3>2, <3>5, <3>6 DEF SmoothOk
    <2> QED BY <2>4, <2>5, <2>6
  <1> QED BY <1>2, <1>3

LEMMA TailJoin ==
  ASSUME NEW x, NEW y, IsSeq(x), IsSeq(y), x # <<>>
  PROVE  IsSeq(x \o y) /\ x \o y # <<>> /\ (x \o y)[1] = x[1] /\ Tail(x \o y) = Tail(x) \o y
  <1> DEFINE z == x \o y
             t == Tail(x)
             u == t \o y
             v == Tail(z)
             m == Len(x)
             n == Len(y)
  <1>1. m \in Nat /\ n \in Nat /\ m # 0
    BY ListIs
  <1>2. IsSeq(z) /\ Len(z) = m + n /\ (\A i \in 1..m : z[i] = x[i]) /\ \A i \in 1..n : z[m + i] = y[i]
    BY ListJoin
  <1>3. IsSeq(t) /\ Len(t) = m - 1 /\ \A i \in 1..m - 1 : t[i] = x[i + 1]
    BY ListTail
  <1> HIDE DEF z, t
  <1>4. IsSeq(u) /\ Len(u) = Len(t) + n /\ (\A i \in 1..Len(t) : u[i] = t[i]) /\ \A i \in 1..n : u[Len(t) + i] = y[i]
    <2>1. IsSeq(t)
      BY <1>3
    <2> QED BY <2>1, ListJoin
  <1>5. z # <<>> /\ z[1] = x[1]
    <2>1. Len(z) # 0 /\ 1 \in 1..m
      <3> HIDE DEF m, n
      <3> QED BY <1>1, <1>2
    <2> QED BY <1>2, <2>1, ListIs
  <1>6. IsSeq(v) /\ Len(v) = Len(z) - 1 /\ \A i \in 1..Len(z) - 1 : v[i] = z[i + 1]
    BY <1>2, <1>5, ListTail
  <1> HIDE DEF m, n, u, v
  <1>7. Len(u) = m + n - 1 /\ Len(v) = m + n - 1
    BY <1>1, <1>2, <1>3, <1>4, <1>6
  <1>8. ASSUME NEW i \in 1..m + n - 1 PROVE v[i] = u[i]
    <2>1. v[i] = z[i + 1]
      <3>1. Len(z) - 1 = m + n - 1
        BY <1>1, <1>2
      <3> QED BY <1>6, <3>1
    <2>2. CASE i < m
      <3>1. i \in 1..m - 1 /\ i \in 1..Len(t) /\ i + 1 \in 1..m
        BY <1>1, <1>3, <2>2
      <3> QED BY <1>2, <1>3, <1>4, <2>1, <3>1
    <2>3. CASE i >= m
      <3> DEFINE j == i - (m - 1)
      <3>1. j \in 1..n /\ i + 1 = m + j /\ i = Len(t) + j
        BY <1>1, <1>3, <2>3
      <3> HIDE DEF j
      <3> QED BY <1>2, <1>4, <2>1, <3>1
    <2>4. i < m \/ i >= m
      BY <1>1
    <2> QED BY <2>2, <2>3, <2>4
  <1>9. v = u
    BY <1>4, <1>6, <1>7, <1>8, ListSame
  <1> QED BY <1>2, <1>5, <1>9 DEF z, t, u, v
LEMMA GroupedFlat ==
  ASSUME NEW width, NEW gs, Grouped(width, gs)
  PROVE  Packets(FlattenSeq(gs))
  <1>1. PICK S : gs \in Seq(Seq(S))
    BY ListsIn DEF Grouped
  <1> DEFINE T == {p \in S : IsPacket(p)}
  <1>2. ASSUME NEW i \in 1..Len(gs) PROVE gs[i] \in Seq(T)
    <2>1. gs[i] \in Seq(S) /\ IsSeq(gs[i]) /\ \A j \in 1..Len(gs[i]) : IsPacket(gs[i][j])
      BY <1>1 DEF Grouped, Packets
    <2>2. \A j \in 1..Len(gs[i]) : gs[i][j] \in T
      BY <2>1
    <2> HIDE DEF T
    <2> QED BY <2>1, <2>2, ListIn
  <1> DEFINE U == Seq(T)
  <1>3. gs \in Seq(U)
    <2>1. IsSeq(gs)
      BY DEF Grouped, Lists
    <2> HIDE DEF U
    <2> QED BY <1>2, <2>1, ListIn DEF U
  <1> HIDE DEF T
  <1>4. FlattenSeq(gs) \in Seq(T)
    BY <1>3, FlattenIn
  <1>5. IsSeq(FlattenSeq(gs)) /\ \A i \in 1..Len(FlattenSeq(gs)) : FlattenSeq(gs)[i] \in T
    BY <1>4 DEF IsSeq
  <1> QED BY <1>5 DEF Packets, T

(* What a command executed does to the link.                               *)
LEMMA Executed ==
  ASSUME LinkOk, BoardStep
  PROVE  LET x == Packs(toBoard)
             op == x[1][1]
             answers == Answer(engine, op)
         IN  /\ Packets(x) /\ IsSeq(x) /\ x # <<>> /\ op \in Loads \union Starts
             /\ Pairs(answers) /\ Tagged(answers) <= (IF op \in Starts THEN 1 ELSE 0)
             /\ Queued(toBoard') /\ Packs(toBoard') = Tail(x)
             /\ Queued(rx') /\ Packs(rx') = Packs(rx) \o answers
             /\ engine' = Loaded(engine, op, x[1][2])
  <1> DEFINE x == Packs(toBoard)
             op == x[1][1]
             answers == Answer(engine, op)
             h == Head(toBoard)
  <1>1. /\ toBoard # <<>> /\ toBoard' = Tail(toBoard)
        /\ rx' = rx \o [i \in DOMAIN Answer(engine, h[1][1]) |-> <<Answer(engine, h[1][1])[i], h[2]>>]
        /\ engine' = Loaded(engine, h[1][1], h[1][2])
    BY DEF BoardStep
  <1>2. Queued(toBoard') /\ Packs(toBoard') = Tail(x) /\ x # <<>> /\ x[1] = h[1]
    BY <1>1, PacksTail DEF LinkOk
  <1>3. Packets(x) /\ IsSeq(x) /\ Len(x) \in Nat /\ Len(x) # 0
    BY <1>2, ListIs DEF LinkOk, Packets
  <1>4. op \in Loads \union Starts
    <2>1. 1 \in 1..Len(x)
      BY <1>3
    <2> QED BY <1>3, <2>1, PairsAre
  <1>5. Pairs(answers) /\ Tagged(answers) <= IF op \in Starts THEN 1 ELSE 0
    BY <1>4, AnswerIs
  <1>6. rx' = rx \o [i \in DOMAIN answers |-> <<answers[i], h[2]>>] /\ engine' = Loaded(engine, op, x[1][2])
    BY <1>1, <1>2
  <1> HIDE DEF answers, x
  <1>7. Queued(rx') /\ Packs(rx') = Packs(rx) \o answers
    <2>1. Queued(rx)
      BY DEF LinkOk
    <2> DEFINE n == h[2]
               r == rx \o [i \in DOMAIN answers |-> <<answers[i], n>>]
    <2>2. rx' = r
      BY <1>6
    <2> HIDE DEF h, n
    <2>3. Queued(r) /\ Packs(r) = Packs(rx) \o answers
      BY <1>5, <2>1, PacksJoin
    <2> QED BY <2>2, <2>3
  <1> QED BY <1>2, <1>3, <1>4, <1>5, <1>6, <1>7 DEF answers, x

LEMMA BoardKeeps ==
  ASSUME LinkOk, CountOk, SmoothOk, BoardStep
  PROVE  LinkOk' /\ CountOk' /\ SmoothOk'
  <1> DEFINE x == Packs(toBoard)
             op == x[1][1]
             answers == Answer(engine, op)
  <1>1. /\ Packets(x) /\ IsSeq(x) /\ x # <<>> /\ op \in Loads \union Starts
        /\ Pairs(answers) /\ Tagged(answers) <= (IF op \in Starts THEN 1 ELSE 0)
        /\ Queued(toBoard') /\ Packs(toBoard') = Tail(x)
        /\ Queued(rx') /\ Packs(rx') = Packs(rx) \o answers
        /\ engine' = Loaded(engine, op, x[1][2])
    BY Executed
  <1>2. UNCHANGED <<channel, window, sent, groups, awaiting, partial, responses, xfer, exchange, faults>>
    BY DEF BoardStep
  <1>3. Packets(Tail(x)) /\ IsSeq(Packs(rx)) /\ IsSeq(answers)
    BY <1>1, PacketsTail, PacksAre DEF LinkOk, Pairs
  <1>4. Ready(engine, op) => AnswersTo(op, answers)
    BY <1>1, AnswerIs
  <1> HIDE DEF answers, x
  <1>5. LinkOk'
    BY <1>1, <1>2, <1>3 DEF LinkOk
  <1>6. Way' <= Way /\ Way' \in Nat /\ Way \in Nat
    <2>1. Started(x) = Started(Tail(x)) + IF op \in Starts THEN 1 ELSE 0
      BY <1>1, OpsFirst
    <2>2. Tagged(Packs(rx) \o answers) = Tagged(Packs(rx)) + Tagged(answers)
      BY <1>3, OpsJoin
    <2>3. Started(Tail(x)) \in Nat /\ Started(x) \in Nat /\ Tagged(Packs(rx)) \in Nat /\ Tagged(answers) \in Nat
      <3>1. IsSeq(Tail(x))
        BY <1>3 DEF Packets
      <3> QED BY <1>1, <1>3, <3>1, OpsAre
    <2>4. Way = Started(x) + Tagged(Packs(rx)) /\ Way' = Started(Tail(x)) + Tagged(Packs(rx) \o answers)
      BY <1>1 DEF Way, x
    <2> QED BY <1>1, <2>1, <2>2, <2>3, <2>4
  <1>7. CountOk'
    <2>1. SUFFICES ASSUME channel = "spi" \/ faults = 0 PROVE CountOk'
      BY <1>2 DEF CountOk
    <2>2. /\ Way <= window /\ (xfer = "send" => Way = 0) /\ window \in Nat /\ Tagged(partial) \in Nat
          /\ Ones(awaiting, Starts) \in Nat
          /\ xfer = "read" => Way + Tagged(partial) <= Ones(awaiting, Starts) /\ Ones(awaiting, Starts) <= window
      <3>1. Tagged(partial) \in Nat /\ Ones(awaiting, Starts) \in Nat
        BY OpsAre, OnesFinite DEF LinkOk, Pairs
      <3> QED BY <2>1, <3>1 DEF CountOk, LinkOk
    <2>3. Way' <= window /\ (xfer = "send" => Way' = 0)
      BY <1>6, <2>2
    <2>4. xfer = "read" => Way' + Tagged(partial) <= Ones(awaiting, Starts)
      BY <1>6, <2>2
    <2> QED BY <1>2, <2>2, <2>3, <2>4 DEF CountOk
  <1>8. SmoothOk'
    <2>1. SUFFICES ASSUME faults = 0 PROVE SmoothOk'
      BY <1>2 DEF SmoothOk
    <2>2. toBoard # <<>>
      BY DEF BoardStep
    <2>3. xfer = "read" /\ IsIp(engine) /\ Primed(engine, x \o FlattenSeq(groups))
      BY <2>1, <2>2 DEF SmoothOk, x
    <2>4. PICK ans : Answering(awaiting, x, partial, Packs(rx), ans)
      BY <2>1, <2>3 DEF SmoothOk, x
    <2> DEFINE f == FlattenSeq(groups)
               z == x \o f
    <2>5. Packets(f) /\ IsSeq(f)
      BY GroupedFlat DEF LinkOk, Packets
    <2> HIDE DEF f
    <2>6. Packets(z) /\ z # <<>> /\ z[1] = x[1] /\ Tail(z) = Tail(x) \o f
      BY <1>1, <2>5, PacketsJoin, TailJoin
    <2>7. Ready(engine, op) /\ IsIp(Loaded(engine, op, x[1][2])) /\ Primed(Loaded(engine, op, x[1][2]), Tail(x) \o f)
      <3>1. Primed(engine, z)
        BY <2>3 DEF f
      <3> HIDE DEF z
      <3>2. Ready(engine, z[1][1]) /\ IsIp(Loaded(engine, z[1][1], z[1][2])) /\ Primed(Loaded(engine, z[1][1], z[1][2]), Tail(z))
        BY <2>3, <2>6, <3>1, PrimedNext
      <3> QED BY <2>6, <3>2
    <2>8. Answering(awaiting, Tail(x), partial, Packs(rx) \o answers, Append(ans, answers))
      <3>1. IsSeq(awaiting) /\ IsSeq(partial) /\ AnswersTo(op, answers)
        BY <1>4, <2>7 DEF LinkOk, Pairs
      <3> QED BY <1>1, <1>3, <2>4, <3>1, AnsweringMore
    <2>9. \E a : Answering(awaiting', Packs(toBoard'), partial', Packs(rx'), a)
      BY <1>1, <1>2, <2>8
    <2>10. Primed(engine', Packs(toBoard') \o FlattenSeq(groups')) /\ IsIp(engine')
      BY <1>1, <1>2, <2>7 DEF f
    <2> QED BY <1>2, <2>3, <2>9, <2>10 DEF SmoothOk
  <1> QED BY <1>5, <1>7, <1>8

LEMMA TimeoutKeeps ==
  ASSUME LinkOk, CountOk, SmoothOk, Timeout
  PROVE  LinkOk' /\ CountOk' /\ SmoothOk'
  <1>1. /\ xfer = "read" /\ rx = <<>> /\ xfer' = "failed" /\ faults \in Nat
        /\ UNCHANGED <<channel, window, engine, toBoard, rx, sent, groups, awaiting, partial, responses, exchange, ciphered>>
        /\ (toBoard = <<>> /\ faults' = faults) \/ faults' = faults + 1
    BY DEF Timeout, LinkOk
  <1>2. faults' \in Nat /\ (faults' = 0 => faults = 0 /\ toBoard = <<>>)
    BY <1>1
  <1>3. LinkOk'
    BY <1>1, <1>2 DEF LinkOk
  <1>4. CountOk'
    BY <1>1, <1>2 DEF CountOk, Way
  <1>5. faults' # 0
    <2>1. SUFFICES ASSUME faults = 0, toBoard = <<>> PROVE FALSE
      BY <1>2
    <2>2. PICK ans : Answering(awaiting, Packs(toBoard), partial, Packs(rx), ans)
      BY <1>1, <2>1 DEF SmoothOk
    <2>3. Packs(toBoard) = <<>> /\ Packs(rx) = <<>>
      BY <1>1, <2>1, PacksAre DEF LinkOk
    <2>4. Answering(awaiting, <<>>, partial, <<>>, ans)
      BY <2>2, <2>3
    <2>5. IsSeq(awaiting) /\ IsSeq(partial) /\ awaiting # <<>> /\ Begun(awaiting[1], partial)
      BY <1>1 DEF LinkOk, Pairs
    <2> QED BY <2>4, <2>5, NeverWaits
  <1> QED BY <1>3, <1>4, <1>5 DEF SmoothOk

LEMMA QueuedMore ==
  ASSUME NEW q, Queued(q), NEW p, Pair(p), NEW n
  PROVE  Queued(Append(q, <<p, n>>)) /\ Packs(Append(q, <<p, n>>)) = Append(Packs(q), p)
  <1> DEFINE e == <<p, n>>
             r == Append(q, e)
  <1>1. Pair(e) /\ e[1] = p
    BY DEF Pair
  <1> HIDE DEF e
  <1>2. IsSeq(q) /\ Len(q) \in Nat
    BY ListIs DEF Queued
  <1>3. IsSeq(r) /\ Len(r) = Len(q) + 1 /\ r[Len(q) + 1] = e /\ \A i \in 1..Len(q) : r[i] = q[i]
    BY <1>2, ListAppend
  <1> HIDE DEF r
  <1>4. \A i \in 1..Len(r) : i = Len(q) + 1 \/ i \in 1..Len(q)
    BY <1>2, <1>3
  <1>5. Queued(r)
    BY <1>1, <1>3, <1>4 DEF Queued
  <1> DEFINE x == Packs(q)
             y == Packs(r)
             z == Append(x, p)
  <1>6. IsSeq(x) /\ Len(x) = Len(q) /\ \A i \in 1..Len(q) : x[i] = q[i][1]
    BY PacksAre
  <1>7. IsSeq(y) /\ Len(y) = Len(r) /\ \A i \in 1..Len(r) : y[i] = r[i][1]
    BY <1>5, PacksAre
  <1> HIDE DEF x, y
  <1>8. IsSeq(z) /\ Len(z) = Len(x) + 1 /\ z[Len(x) + 1] = p /\ \A i \in 1..Len(x) : z[i] = x[i]
    BY <1>6, ListAppend
  <1> HIDE DEF z
  <1>9. \A i \in 1..Len(r) : y[i] = z[i]
    BY <1>1, <1>3, <1>4, <1>6, <1>7, <1>8
  <1>10. y = z
    BY <1>3, <1>6, <1>7, <1>8, <1>9, ListSame
  <1> QED BY <1>5, <1>10 DEF e, r, x, y, z

LEMMA CutKeeps ==
  ASSUME LinkOk, CountOk, CutCommand
  PROVE  LinkOk' /\ CountOk' /\ SmoothOk'
  <1> DEFINE x == Packs(toBoard)
             p == <<"ERR_TIMEOUT", Head(toBoard)[1][1]>>
  <1>1. /\ toBoard # <<>> /\ toBoard' = Tail(toBoard) /\ faults' = faults + 1
        /\ rx' = rx \/ rx' = Append(rx, <<p, Head(toBoard)[2]>>)
        /\ UNCHANGED <<channel, window, engine, sent, groups, awaiting, partial, responses, xfer, exchange, ciphered>>
    BY DEF CutCommand
  <1>2. Queued(toBoard) /\ Packets(x) /\ IsSeq(x) /\ Queued(rx) /\ IsSeq(Packs(rx)) /\ faults \in Nat
    BY PacksAre DEF LinkOk, Packets
  <1>3. Queued(toBoard') /\ Packs(toBoard') = Tail(x) /\ x # <<>>
    BY <1>1, <1>2, PacksTail
  <1>4. Pair(p) /\ p[1] # "AUTH_TAG"
    BY DEF Pair
  <1> HIDE DEF p, x
  <1>5. Queued(rx') /\ (Packs(rx') = Packs(rx) \/ Packs(rx') = Append(Packs(rx), p))
    <2>1. CASE rx' = rx
      BY <1>2, <2>1
    <2>2. CASE rx' = Append(rx, <<p, Head(toBoard)[2]>>)
      <3> DEFINE n == Head(toBoard)[2]
      <3>1. rx' = Append(rx, <<p, n>>)
        BY <2>2
      <3> HIDE DEF n
      <3>2. Queued(Append(rx, <<p, n>>)) /\ Packs(Append(rx, <<p, n>>)) = Append(Packs(rx), p)
        BY <1>2, <1>4, QueuedMore
      <3> QED BY <3>1, <3>2
    <2> QED BY <1>1, <2>1, <2>2
  <1>6. Packets(Tail(x))
    BY <1>2, <1>3, PacketsTail
  <1>7. faults' \in Nat /\ faults' # 0
    BY <1>1, <1>2
  <1>8. LinkOk'
    BY <1>1, <1>3, <1>5, <1>6, <1>7 DEF LinkOk
  <1>9. Way' <= Way /\ Way' \in Nat /\ Way \in Nat
    <2>1. Started(x) = Started(Tail(x)) + IF x[1][1] \in Starts THEN 1 ELSE 0
      BY <1>2, <1>3, OpsFirst
    <2>2. Tagged(Packs(rx')) = Tagged(Packs(rx))
      <3>1. Tagged(Append(Packs(rx), p)) = Tagged(Packs(rx)) + 0
        BY <1>2, <1>4, StartedMore
      <3>2. Tagged(Packs(rx)) \in Nat
        BY <1>2, OpsAre
      <3>3. Tagged(Append(Packs(rx), p)) = Tagged(Packs(rx))
        BY <3>1, <3>2
      <3> QED BY Zenon, <1>5, <3>3
    <2>3. Started(Tail(x)) \in Nat /\ Started(x) \in Nat /\ Tagged(Packs(rx)) \in Nat
      <3>1. IsSeq(Tail(x))
        BY <1>6 DEF Packets
      <3> QED BY <1>2, <3>1, OpsAre
    <2>4. Way = Started(x) + Tagged(Packs(rx)) /\ Way' = Started(Tail(x)) + Tagged(Packs(rx))
      BY <1>3, <2>2 DEF Way, x
    <2> QED BY <2>1, <2>3, <2>4
  <1>10. CountOk'
    <2>1. SUFFICES ASSUME channel = "spi" PROVE CountOk'
      BY <1>1, <1>7 DEF CountOk
    <2>2. /\ Way <= window /\ (xfer = "send" => Way = 0) /\ window \in Nat /\ Tagged(partial) \in Nat
          /\ Ones(awaiting, Starts) \in Nat
          /\ xfer = "read" => Way + Tagged(partial) <= Ones(awaiting, Starts) /\ Ones(awaiting, Starts) <= window
      <3>1. Tagged(partial) \in Nat /\ Ones(awaiting, Starts) \in Nat
        BY OpsAre, OnesFinite DEF LinkOk, Pairs
      <3> QED BY <2>1, <3>1 DEF CountOk, LinkOk
    <2>3. Way' <= window /\ (xfer = "send" => Way' = 0)
      BY <1>9, <2>2
    <2>4. xfer = "read" => Way' + Tagged(partial) <= Ones(awaiting, Starts)
      BY <1>9, <2>2
    <2> QED BY <1>1, <2>2, <2>3, <2>4 DEF CountOk
  <1> QED BY <1>7, <1>8, <1>10 DEF SmoothOk

LEMMA CorruptStays ==
  ASSUME LinkOk, CountOk, CorruptAnswer
  PROVE  LinkOk' /\ CountOk' /\ SmoothOk'
  <1>1. PICK i \in DOMAIN rx : rx' = [rx EXCEPT ![i][1][2][1] = XorByte(@, FlippedBit)]
    BY DEF CorruptAnswer
  <1>2. /\ faults' = faults + 1 /\ faults \in Nat /\ Queued(rx)
        /\ UNCHANGED <<channel, window, engine, toBoard, sent, groups, awaiting, partial, responses, xfer, exchange, ciphered>>
    BY DEF CorruptAnswer, LinkOk
  <1>3. Queued(rx') /\ \A K : Count(Packs(rx'), K) = Count(Packs(rx), K)
    BY <1>1, <1>2, CorruptKeeps
  <1>4. Way' = Way
    BY <1>2, <1>3 DEF Way, Tagged
  <1>5. faults' \in Nat /\ faults' # 0
    BY <1>2
  <1> QED BY <1>2, <1>3, <1>4, <1>5 DEF LinkOk, CountOk, SmoothOk

LEMMA AnsweringEnds ==
  ASSUME NEW q, NEW back, NEW ans, IsSeq(q), IsSeq(back), Answering(<<>>, q, <<>>, back, ans)
  PROVE  q = <<>> /\ back = <<>>
  <1>1. IsSeq(ans) /\ Len(ans) + Len(q) = Len(<<>>) /\ Makes(<<>>, back, ans)
    BY DEF Answering, Answered, Lists
  <1>2. Len(ans) \in Nat /\ Len(q) \in Nat /\ Len(<<>>) = 0
    BY <1>1, ListIs, ListEmpty
  <1>3. Len(ans) = 0 /\ Len(q) = 0
    BY <1>1, <1>2
  <1>4. ans = <<>> /\ q = <<>>
    BY <1>1, <1>3, ListIs
  <1>5. <<>> \o back = <<>>
    BY <1>1, <1>4, FlattenEmpty DEF Makes
  <1>6. <<>> \o back = back
    BY ListNothing
  <1> QED BY <1>4, <1>5, <1>6

(* What an answer read does to the link.                                   *)
LEMMA Answer1 ==
  ASSUME LinkOk, xfer = "read", rx # <<>>, rx' = Tail(rx)
  PROVE  LET y == Packs(rx)
         IN  /\ IsSeq(y) /\ y # <<>> /\ y[1] = Head(rx)[1] /\ Pair(y[1])
             /\ Queued(rx') /\ Packs(rx') = Tail(y)
             /\ Tagged(y) = Tagged(Packs(rx')) + IF y[1][1] = "AUTH_TAG" THEN 1 ELSE 0
             /\ Tagged(y) \in Nat /\ Tagged(Packs(rx')) \in Nat
  <1> DEFINE y == Packs(rx)
  <1>1. Queued(rx)
    BY DEF LinkOk
  <1>2. IsSeq(y) /\ Queued(rx') /\ Packs(rx') = Tail(y) /\ y # <<>> /\ y[1] = Head(rx)[1] /\ Pair(y[1])
    BY <1>1, PacksAre, PacksTail
  <1>3. IsSeq(Packs(rx'))
    BY <1>2, PacksAre
  <1> HIDE DEF y
  <1>4. Tagged(y) = Tagged(Tail(y)) + IF y[1][1] = "AUTH_TAG" THEN 1 ELSE 0
    BY <1>2, OpsFirst
  <1>5. Tagged(y) \in Nat /\ Tagged(Packs(rx')) \in Nat
    BY <1>2, <1>3, OpsAre
  <1> QED BY <1>2, <1>4, <1>5 DEF y

LEMMA ReadKeeps ==
  ASSUME LinkOk, CountOk, SmoothOk, ReadReply
  PROVE  LinkOk' /\ CountOk' /\ SmoothOk'
  <1> DEFINE y == Packs(rx)
             got == y[1]
             read == Append(partial, got)
             cmd == awaiting[1]
             e == Expected(cmd, read[1][1])
             tag == IF got[1] = "AUTH_TAG" THEN 1 ELSE 0
  <1>1. xfer = "read" /\ rx # <<>> /\ rx' = Tail(rx)
        /\ UNCHANGED <<channel, window, engine, toBoard, sent, groups, exchange, faults, ciphered>>
    BY DEF ReadReply
  <1>2. /\ IsSeq(y) /\ y # <<>> /\ got = Head(rx)[1] /\ Pair(got)
        /\ Queued(rx') /\ Packs(rx') = Tail(y)
        /\ Tagged(y) = Tagged(Packs(rx')) + tag /\ Tagged(y) \in Nat /\ Tagged(Packs(rx')) \in Nat
    BY <1>1, Answer1
  <1>3. /\ IsSeq(awaiting) /\ awaiting # <<>> /\ Len(awaiting) \in Nat /\ Len(awaiting) # 0
        /\ cmd \in Loads \union Starts /\ Begun(cmd, partial) /\ Pairs(partial) /\ IsSeq(partial) /\ IsSeq(responses)
        /\ Head(awaiting) = cmd /\ IsSeq(Tail(awaiting))
    <2>1. IsSeq(awaiting) /\ awaiting # <<>> /\ Begun(cmd, partial) /\ Pairs(partial) /\ IsSeq(partial) /\ IsSeq(responses)
      BY <1>1 DEF LinkOk, Pairs
    <2>2. Len(awaiting) \in Nat /\ Len(awaiting) # 0 /\ Head(awaiting) = cmd /\ IsSeq(Tail(awaiting))
      BY <2>1, ListIs, ListTail
    <2>3. 1 \in 1..Len(awaiting)
      BY <2>2
    <2>4. cmd \in Loads \union Starts
      BY <2>3 DEF LinkOk
    <2> QED BY <2>1, <2>2, <2>4
  <1>4. \/ /\ got[1] # e[Len(read)]
           /\ xfer' = "failed" /\ UNCHANGED <<partial, awaiting, responses>>
        \/ /\ got[1] = e[Len(read)] /\ responses' = Append(responses, got)
           /\ Len(read) < Len(e)
           /\ partial' = read /\ UNCHANGED <<awaiting, xfer>>
        \/ /\ got[1] = e[Len(read)] /\ responses' = Append(responses, got)
           /\ ~(Len(read) < Len(e))
           /\ partial' = <<>> /\ awaiting' = Tail(awaiting)
           /\ xfer' = IF Tail(awaiting) = <<>> THEN "send" ELSE "read"
    <2>1. got = Head(rx)[1] /\ cmd = Head(awaiting)
      BY <1>2, <1>3
    <2> HIDE DEF y, cmd
    <2>2. LET r == Append(partial, Head(rx)[1])
              x == Expected(Head(awaiting), r[1][1])
          IN  IF Head(rx)[1][1] # x[Len(r)]
              THEN xfer' = "failed" /\ UNCHANGED <<partial, awaiting, responses>>
              ELSE /\ responses' = Append(responses, Head(rx)[1])
                   /\ IF Len(r) < Len(x)
                      THEN partial' = r /\ UNCHANGED <<awaiting, xfer>>
                      ELSE /\ partial' = <<>>
                           /\ awaiting' = Tail(awaiting)
                           /\ xfer' = IF Tail(awaiting) = <<>> THEN "send" ELSE "read"
      BY DEF ReadReply
    <2> QED BY <2>1, <2>2
  <1>5. Way \in Nat /\ Way' \in Nat /\ Way = Way' + tag /\ Tagged(partial) \in Nat /\ Tagged(read) = Tagged(partial) + tag
        /\ Ones(awaiting, Starts) \in Nat /\ window \in Nat
    <2>1. Started(Packs(toBoard)) \in Nat
      <3>1. IsSeq(Packs(toBoard))
        BY PacksAre DEF LinkOk
      <3> QED BY <3>1, OpsAre
    <2>2. Way = Started(Packs(toBoard)) + Tagged(y) /\ Way' = Started(Packs(toBoard)) + Tagged(Packs(rx'))
      BY <1>1 DEF Way
    <2>3. Tagged(partial) \in Nat /\ Ones(awaiting, Starts) \in Nat /\ window \in Nat
      BY <1>3, OpsAre, OnesFinite DEF LinkOk
    <2>4. Tagged(read) = Tagged(partial) + tag
      <3> HIDE DEF y
      <3> QED BY <1>3, StartedMore
    <2> HIDE DEF y, read
    <2> QED BY <1>2, <2>1, <2>2, <2>3, <2>4
  <1>8. Way' <= Way /\ Way' \in Nat /\ Way \in Nat /\ window \in Nat
    <2> HIDE DEF y, read, e
    <2>1. tag \in Nat
      OBVIOUS
    <2>2. Way = Way' + tag /\ Way \in Nat /\ Way' \in Nat /\ window \in Nat
      BY <1>5
    <2>3. \A a, b, c \in Nat : a = b + c => b <= a
      OBVIOUS
    <2> HIDE DEF tag
    <2> QED BY Zenon, <2>1, <2>2, <2>3
  <1>6. CASE got[1] # e[Len(read)]
    <2>1. xfer' = "failed" /\ UNCHANGED <<partial, awaiting, responses>>
      BY <1>4, <1>6
    <2>2. LinkOk'
      BY <1>1, <1>2, <2>1 DEF LinkOk
    <2>3. CountOk'
      <3>1. SUFFICES ASSUME channel = "spi" \/ faults = 0 PROVE CountOk'
        BY <1>1 DEF CountOk
      <3>2. Way <= window
        BY <3>1 DEF CountOk
      <3> HIDE DEF y
      <3>3. Way' <= window
        <4> QED BY <1>8, <3>2
      <3> QED BY <1>1, <2>1, <3>3 DEF CountOk
    <2>4. faults # 0
      <3>1. SUFFICES ASSUME faults = 0 PROVE FALSE
        OBVIOUS
      <3>2. PICK ans : Answering(awaiting, Packs(toBoard), partial, y, ans)
        BY <1>1, <3>1 DEF SmoothOk
      <3>3. IsSeq(Packs(toBoard))
        BY PacksAre DEF LinkOk
      <3>4. got[1] = e[Len(read)]
        <4> HIDE DEF y
        <4> QED BY <1>2, <1>3, <3>2, <3>3, NextAnswer
      <3> QED BY <1>6, <3>4
    <2>5. SmoothOk'
      BY <1>1, <2>4 DEF SmoothOk
    <2> QED BY <2>2, <2>3, <2>5
  <1>7. CASE got[1] = e[Len(read)]
    <2>1. /\ Len(read) < Len(e) => Begun(cmd, read)
          /\ ~(Len(read) < Len(e)) => Tagged(read) = IF cmd \in Starts THEN 1 ELSE 0
      <3> HIDE DEF y, cmd
      <3> QED BY <1>3, <1>7, ReadOn
    <2>2. responses' = Append(responses, got) /\ IsSeq(responses') /\ Len(responses') = Len(responses) + 1
          /\ responses'[Len(responses) + 1] = got /\ responses' # <<>>
      <3>1. responses' = Append(responses, got)
        BY <1>4, <1>7
      <3> HIDE DEF y
      <3>2. IsSeq(Append(responses, got)) /\ Len(Append(responses, got)) = Len(responses) + 1
            /\ Append(responses, got)[Len(responses) + 1] = got /\ Len(responses) \in Nat
        BY <1>3, ListAppend, ListIs
      <3>3. Len(responses) + 1 # 0
        BY <3>2
      <3>4. Append(responses, got) # <<>>
        BY <3>2, <3>3, ListIs
      <3> QED BY <3>1, <3>2, <3>4
    <2>3. \/ faults # 0
          \/ /\ \E ans : Answering(awaiting, Packs(toBoard), partial, y, ans)
             /\ IsIp(engine) /\ Primed(engine, Packs(toBoard) \o FlattenSeq(groups))
      BY <1>1 DEF SmoothOk
    <2>4. IsSeq(Packs(toBoard))
      BY PacksAre DEF LinkOk
    <2>5. CASE Len(read) < Len(e)
      <3>1. partial' = read /\ UNCHANGED <<awaiting, xfer>>
        BY <1>4, <1>7, <2>5
      <3>2. Pairs(read) /\ read # <<>> /\ read[Len(read)] = got
        <4> HIDE DEF y
        <4>1. IsSeq(read) /\ Len(read) = Len(partial) + 1 /\ read[Len(partial) + 1] = got /\ Len(partial) \in Nat
              /\ \A k \in 1..Len(partial) : read[k] = partial[k]
          BY <1>3, ListAppend, ListIs
        <4> HIDE DEF read
        <4>2. Len(read) # 0 /\ \A k \in 1..Len(read) : k = Len(partial) + 1 \/ k \in 1..Len(partial)
          BY <4>1
        <4>3. \A k \in 1..Len(read) : Pair(read[k])
          BY <1>2, <1>3, <4>1, <4>2 DEF Pairs
        <4> QED BY <4>1, <4>2, <4>3, ListIs DEF Pairs
      <3>3. LinkOk'
        <4>1. Begun(awaiting'[1], partial')
          BY <2>1, <2>5, <3>1
        <4>2. responses'[Len(responses')] = partial'[Len(partial')]
          <5> HIDE DEF y
          <5> QED BY <2>2, <3>1, <3>2
        <4>3. Pairs(partial')
          BY <3>1, <3>2
        <4> HIDE DEF y, read, cmd, e
        <4> QED BY <1>1, <1>2, <2>2, <3>1, <4>1, <4>2, <4>3 DEF LinkOk
      <3>4. CountOk'
        <4>1. SUFFICES ASSUME channel = "spi" \/ faults = 0 PROVE CountOk'
          BY <1>1 DEF CountOk
        <4>2. Way <= window /\ Way + Tagged(partial) <= Ones(awaiting, Starts) /\ Ones(awaiting, Starts) <= window
          BY <1>1, <4>1 DEF CountOk
        <4> HIDE DEF y, read, cmd, e
        <4>3. Way' <= window /\ Way' + Tagged(read) <= Ones(awaiting, Starts)
          BY <1>5, <4>2
        <4> QED BY <1>1, <3>1, <4>2, <4>3 DEF CountOk
      <3>5. SmoothOk'
        <4>1. SUFFICES ASSUME faults = 0 PROVE SmoothOk'
          BY <1>1 DEF SmoothOk
        <4>2. PICK ans : Answering(awaiting, Packs(toBoard), partial, y, ans)
          BY <2>3, <4>1
        <4>3. Answering(awaiting, Packs(toBoard), read, Tail(y), ans)
          <5> HIDE DEF y
          <5> QED BY <1>2, <1>3, <2>4, <2>5, <4>2, NextAnswer
        <4> HIDE DEF y, read, cmd, e
        <4> QED BY <1>1, <1>2, <2>3, <3>1, <4>1, <4>3 DEF SmoothOk
      <3> QED BY <3>3, <3>4, <3>5
    <2>6. CASE ~(Len(read) < Len(e))
      <3>1. partial' = <<>> /\ awaiting' = Tail(awaiting) /\ xfer' = IF Tail(awaiting) = <<>> THEN "send" ELSE "read"
        BY <1>4, <1>7, <2>6
      <3>2. /\ Len(Tail(awaiting)) = Len(awaiting) - 1
            /\ \A i \in 1..Len(awaiting) - 1 : Tail(awaiting)[i] = awaiting[i + 1] /\ i + 1 \in 1..Len(awaiting)
        <4>1. \A i \in 1..Len(awaiting) - 1 : i + 1 \in 1..Len(awaiting)
          BY <1>3
        <4> QED BY <1>3, <4>1, ListTail
      <3>3. LinkOk'
        <4>1. \A i \in 1..Len(awaiting') : awaiting'[i] \in Loads \union Starts
          BY <3>1, <3>2 DEF LinkOk
        <4>2. Begun(awaiting'[1], partial') /\ Pairs(partial') /\ IsSeq(awaiting')
          <5>1. Pairs(<<>>)
            BY ListEmpty DEF Pairs
          <5> QED BY <1>3, <3>1, <5>1 DEF Begun
        <4>3. /\ xfer' = "read" => awaiting' # <<>>
              /\ xfer' \in {"send", "done"} => awaiting' = <<>> /\ partial' = <<>>
              /\ xfer' # "done"
          BY <3>1
        <4> HIDE DEF y, read, cmd, e
        <4> QED BY <1>1, <1>2, <2>2, <3>1, <4>1, <4>2, <4>3 DEF LinkOk
      <3>4. Ones(awaiting, Starts) = Ones(Tail(awaiting), Starts) + (IF cmd \in Starts THEN 1 ELSE 0)
            /\ Ones(Tail(awaiting), Starts) \in Nat
        BY <1>3, OnesFirst, OnesFinite
      <3>5. CountOk'
        <4>1. SUFFICES ASSUME channel = "spi" \/ faults = 0 PROVE CountOk'
          BY <1>1 DEF CountOk
        <4>2. Way <= window /\ Way + Tagged(partial) <= Ones(awaiting, Starts) /\ Ones(awaiting, Starts) <= window
          BY <1>1, <4>1 DEF CountOk
        <4>3. Tagged(read) = IF cmd \in Starts THEN 1 ELSE 0
          BY <2>1, <2>6
        <4>4. Tagged(partial') = 0
          BY <3>1, StartedNone
        <4> HIDE DEF y, read, cmd, e
        <4>5. Way' <= window /\ Way' <= Ones(Tail(awaiting), Starts) /\ Ones(Tail(awaiting), Starts) <= window
          BY <1>5, <3>4, <4>2, <4>3
        <4>6. Tail(awaiting) = <<>> => Way' = 0
          <5>1. Tail(awaiting) = <<>> => Ones(Tail(awaiting), Starts) = 0
            BY OnesNone
          <5>2. Way' \in Nat /\ (Tail(awaiting) = <<>> => Way' <= 0)
            BY <1>5, <4>5, <5>1
          <5> QED BY <5>2
        <4>7. Way' + 0 <= Ones(Tail(awaiting), Starts)
          BY <1>5, <4>5
        <4> QED BY <1>1, <3>1, <4>4, <4>5, <4>6, <4>7 DEF CountOk
      <3>6. SmoothOk'
        <4>1. SUFFICES ASSUME faults = 0 PROVE SmoothOk'
          BY <1>1 DEF SmoothOk
        <4>2. PICK ans : Answering(awaiting, Packs(toBoard), partial, y, ans)
          BY <2>3, <4>1
        <4>3. Answering(Tail(awaiting), Packs(toBoard), <<>>, Tail(y), Tail(ans))
          <5> HIDE DEF y
          <5> QED BY <1>2, <1>3, <2>4, <2>6, <4>2, NextAnswer
        <4>4. ASSUME Tail(awaiting) = <<>> PROVE toBoard' = <<>> /\ rx' = <<>>
          <5>1. Answering(<<>>, Packs(toBoard), <<>>, Tail(y), Tail(ans))
            BY <4>3, <4>4
          <5>2. Packs(toBoard) = <<>> /\ Tail(y) = <<>>
            <6>1. IsSeq(Tail(y))
              BY <1>2, ListTail
            <6> HIDE DEF y
            <6> QED BY <2>4, <5>1, <6>1, AnsweringEnds
          <5> QED BY <1>1, <1>2, <5>2, PacksAre DEF LinkOk
        <4> HIDE DEF y, read, cmd, e
        <4>5. xfer' = "read" => Answering(awaiting', Packs(toBoard'), partial', Packs(rx'), Tail(ans))
          BY <1>1, <1>2, <3>1, <4>3
        <4>6. xfer' # "read" => toBoard' = <<>> /\ rx' = <<>>
          BY <3>1, <4>4
        <4>7. xfer' # "failed"
          BY <3>1
        <4> QED BY <1>1, <2>3, <4>1, <4>5, <4>6, <4>7 DEF SmoothOk
      <3> QED BY <3>3, <3>5, <3>6
    <2> QED BY <2>5, <2>6
  <1> QED BY <1>6, <1>7

-----------------------------------------------------------------------------
(* Without a fault each message of an image's encryption is answered once, *)
(* is still awaited or still to be sent: when all is read, there is a      *)
(* reply for each of them.                                                 *)
PairedOk ==
    faults = 0 /\ stage = "encrypt" =>
        /\ Paired(responses)
        /\ \A i \in 1..Len(awaiting) : awaiting[i] # "START_DECRYPT"
        /\ \A i \in 1..Len(FlattenSeq(groups)) : FlattenSeq(groups)[i][1] # "START_DECRYPT"
        /\ (Tagged(responses) + Ones(awaiting, Starts)) + Started(FlattenSeq(groups)) = Len(Messages)

LEMMA PairedMore ==
  ASSUME NEW x, NEW p, Paired(x), p[1] \in Acks \union {"CIPHERTEXT", "AUTH_TAG"},
         p[1] \in {"CIPHERTEXT", "AUTH_TAG"} => Full(p[2]),
         p[1] = "AUTH_TAG" => x # <<>> /\ x[Len(x)][1] = "CIPHERTEXT"
  PROVE  Paired(Append(x, p))
  <1> DEFINE n == Len(x)
             y == Append(x, p)
  <1>1. IsSeq(x) /\ n \in Nat /\ (x = <<>> <=> n = 0)
    BY ListIs DEF Paired
  <1>2. IsSeq(y) /\ Len(y) = n + 1 /\ y[n + 1] = p /\ \A i \in 1..n : y[i] = x[i]
    BY <1>1, ListAppend
  <1> HIDE DEF y
  <1>3. ASSUME NEW i \in 1..n PROVE IsAnswer(y, i)
    <2>1. IsAnswer(x, i) /\ y[i] = x[i]
      BY <1>2 DEF Paired
    <2>2. i > 1 => y[i - 1] = x[i - 1]
      <3>1. i > 1 => i - 1 \in 1..n
        BY <1>1
      <3> QED BY <1>2, <3>1
    <2> QED BY <2>1, <2>2 DEF IsAnswer
  <1>4. IsAnswer(y, n + 1)
    <2>1. p[1] = "AUTH_TAG" => n + 1 > 1 /\ y[(n + 1) - 1] = x[n]
      <3>1. p[1] = "AUTH_TAG" => n # 0
        BY <1>1
      <3>2. n # 0 => n \in 1..n /\ n + 1 > 1 /\ (n + 1) - 1 = n
        BY <1>1
      <3> QED BY <1>2, <3>1, <3>2
    <2> QED BY <1>2, <2>1 DEF IsAnswer
  <1>5. \A i \in 1..n + 1 : i = n + 1 \/ i \in 1..n
    BY <1>1
  <1>6. \A i \in 1..Len(y) : IsAnswer(y, i)
    BY <1>2, <1>3, <1>4, <1>5
  <1> QED BY <1>2, <1>6 DEF Paired, y

LEMMA SameMessages == ASSUME UNCHANGED <<iv, outcomes>> PROVE Messages' = Messages
  BY DEF Messages, EncryptTx, Pixels, current

LEMMA SendPairs ==
  ASSUME LinkOk, PairedOk, SendGroup, UNCHANGED <<stage, iv, outcomes>>
  PROVE  PairedOk'
  <1>1. SUFFICES ASSUME faults' = 0, stage = "encrypt" PROVE PairedOk'
    BY DEF PairedOk
  <1>2. faults = 0 /\ awaiting = <<>> /\ responses' = responses /\ stage' = "encrypt" /\ Messages' = Messages
    BY <1>1, SameMessages DEF SendGroup, LinkOk
  <1> DEFINE f == FlattenSeq(groups)
  <1>3. /\ Paired(responses) /\ \A i \in 1..Len(f) : f[i][1] # "START_DECRYPT"
        /\ (Tagged(responses) + Ones(awaiting, Starts)) + Started(f) = Len(Messages)
    BY <1>1, <1>2 DEF PairedOk
  <1>4. CASE groups = <<>>
    <2>1. UNCHANGED <<groups, awaiting>>
      BY <1>4 DEF SendGroup
    <2> QED BY <1>1, <1>2, <2>1 DEF PairedOk
  <1>5. CASE groups # <<>>
    <2> DEFINE g == Head(groups)
               r == FlattenSeq(Tail(groups))
    <2>1. IsSeq(g) /\ awaiting' = Ops(g) /\ groups' = Tail(groups) /\ f = g \o r /\ IsSeq(r)
      BY <1>5, SentGroup
    <2> HIDE DEF g, r, f
    <2>2. Started(f) = Started(g) + Started(r) /\ Started(g) \in Nat /\ Started(r) \in Nat
      BY <2>1, OpsJoin, OpsAre
    <2>3. Tagged(responses) \in Nat
      BY <1>3, OpsAre DEF Paired
    <2>4. Ones(awaiting, Starts) = 0
      BY <1>2, OnesNone
    <2>5. Ones(awaiting', Starts) = Started(g)
      BY <2>1 DEF Started, Count
    <2>6. (Tagged(responses) + Ones(awaiting', Starts)) + Started(r) = Len(Messages)
      <3>1. (Tagged(responses) + 0) + (Started(g) + Started(r)) = Len(Messages)
        BY <1>3, <2>2, <2>4
      <3>2. (Tagged(responses) + Started(g)) + Started(r) = Len(Messages)
        BY <2>2, <2>3, <3>1
      <3> QED BY <2>5, <3>2
    <2>7. /\ Len(g) \in Nat /\ Len(r) \in Nat /\ Len(f) = Len(g) + Len(r)
          /\ \A i \in 1..Len(g) : f[i] = g[i]
          /\ \A i \in 1..Len(r) : f[Len(g) + i] = r[i]
      BY <2>1, ListIs, ListJoin
    <2>8. \A i \in 1..Len(g) : i \in 1..Len(f)
      BY <2>7
    <2>9. \A i \in 1..Len(r) : Len(g) + i \in 1..Len(f)
      BY <2>7
    <2>10. \A i \in 1..Len(g) : g[i][1] # "START_DECRYPT"
      BY <1>3, <2>7, <2>8
    <2>11. \A i \in 1..Len(r) : r[i][1] # "START_DECRYPT"
      BY <1>3, <2>7, <2>9
    <2>12. \A i \in 1..Len(awaiting') : awaiting'[i] # "START_DECRYPT"
      BY <2>1, <2>10, OpsAre
    <2>13. FlattenSeq(groups') = r
      BY <2>1 DEF r
    <2>14. /\ \A i \in 1..Len(FlattenSeq(groups')) : FlattenSeq(groups')[i][1] # "START_DECRYPT"
           /\ (Tagged(responses') + Ones(awaiting', Starts)) + Started(FlattenSeq(groups')) = Len(Messages')
      BY <1>2, <2>6, <2>11, <2>13
    <2> QED BY <1>2, <1>3, <2>12, <2>14 DEF PairedOk
  <1> QED BY <1>4, <1>5

(* What ReadReply does, command and answer named.                          *)
LEMMA ReadCases ==
  ASSUME LinkOk, ReadReply
  PROVE  LET y == Packs(rx)
             got == y[1]
             read == Append(partial, got)
             cmd == awaiting[1]
             e == Expected(cmd, read[1][1])
         IN  /\ IsSeq(y) /\ y # <<>> /\ IsSeq(awaiting) /\ awaiting # <<>> /\ IsSeq(partial) /\ IsSeq(responses)
             /\ cmd \in Loads \union Starts /\ Begun(cmd, partial) /\ IsSeq(Packs(toBoard)) /\ xfer = "read"
             /\ \/ got[1] # e[Len(read)] /\ xfer' = "failed" /\ UNCHANGED <<partial, awaiting, responses>>
                \/ /\ got[1] = e[Len(read)] /\ responses' = Append(responses, got)
                   /\ Len(read) < Len(e) /\ awaiting' = awaiting
                \/ /\ got[1] = e[Len(read)] /\ responses' = Append(responses, got)
                   /\ ~(Len(read) < Len(e)) /\ awaiting' = Tail(awaiting)
  <1> DEFINE y == Packs(rx)
             got == y[1]
             read == Append(partial, got)
             cmd == awaiting[1]
             e == Expected(cmd, read[1][1])
  <1>1. xfer = "read" /\ rx # <<>> /\ rx' = Tail(rx)
    BY DEF ReadReply
  <1>2. IsSeq(y) /\ y # <<>> /\ got = Head(rx)[1]
    BY <1>1, Answer1
  <1>3. /\ IsSeq(awaiting) /\ awaiting # <<>> /\ Begun(cmd, partial) /\ IsSeq(partial) /\ IsSeq(responses)
        /\ IsSeq(Packs(toBoard))
    BY <1>1, PacksAre DEF LinkOk, Pairs
  <1>4. Len(awaiting) \in Nat /\ Len(awaiting) # 0 /\ Head(awaiting) = cmd
    BY <1>3, ListIs, ListTail
  <1>5. cmd \in Loads \union Starts
    <2>1. 1 \in 1..Len(awaiting)
      BY <1>4
    <2> QED BY <2>1 DEF LinkOk
  <1>6. \/ got[1] # e[Len(read)] /\ xfer' = "failed" /\ UNCHANGED <<partial, awaiting, responses>>
        \/ /\ got[1] = e[Len(read)] /\ responses' = Append(responses, got)
           /\ Len(read) < Len(e) /\ awaiting' = awaiting
        \/ /\ got[1] = e[Len(read)] /\ responses' = Append(responses, got)
           /\ ~(Len(read) < Len(e)) /\ awaiting' = Tail(awaiting)
    <2>1. got = Head(rx)[1] /\ cmd = Head(awaiting)
      BY <1>2, <1>4
    <2> HIDE DEF y, cmd
    <2>2. LET r == Append(partial, Head(rx)[1])
              x == Expected(Head(awaiting), r[1][1])
          IN  IF Head(rx)[1][1] # x[Len(r)]
              THEN xfer' = "failed" /\ UNCHANGED <<partial, awaiting, responses>>
              ELSE /\ responses' = Append(responses, Head(rx)[1])
                   /\ IF Len(r) < Len(x)
                      THEN awaiting' = awaiting
                      ELSE awaiting' = Tail(awaiting)
      BY DEF ReadReply
    <2> QED BY <2>1, <2>2
  <1> HIDE DEF y, read, e
  <1> QED BY <1>1, <1>2, <1>3, <1>5, <1>6 DEF y, read, e

LEMMA ReadPairs ==
  ASSUME LinkOk, SmoothOk, PairedOk, ReadReply, UNCHANGED <<stage, iv, outcomes>>
  PROVE  PairedOk'
  <1> DEFINE y == Packs(rx)
             got == y[1]
             read == Append(partial, got)
             cmd == awaiting[1]
             e == Expected(cmd, read[1][1])
             f == FlattenSeq(groups)
             tag == IF got[1] = "AUTH_TAG" THEN 1 ELSE 0
  <1>1. SUFFICES ASSUME faults' = 0, stage = "encrypt" PROVE PairedOk'
    BY DEF PairedOk
  <1>2. faults = 0 /\ stage' = "encrypt" /\ Messages' = Messages /\ groups' = groups
    BY <1>1, SameMessages DEF ReadReply
  <1>3. /\ Paired(responses) /\ (\A i \in 1..Len(awaiting) : awaiting[i] # "START_DECRYPT")
        /\ \A i \in 1..Len(f) : f[i][1] # "START_DECRYPT"
        /\ (Tagged(responses) + Ones(awaiting, Starts)) + Started(f) = Len(Messages)
    BY <1>1, <1>2 DEF PairedOk
  <1>4. /\ IsSeq(y) /\ y # <<>> /\ IsSeq(awaiting) /\ awaiting # <<>> /\ IsSeq(partial) /\ IsSeq(responses)
        /\ cmd \in Loads \union Starts /\ Begun(cmd, partial) /\ IsSeq(Packs(toBoard)) /\ xfer = "read"
        /\ \/ got[1] # e[Len(read)] /\ UNCHANGED <<partial, awaiting, responses>>
           \/ /\ got[1] = e[Len(read)] /\ responses' = Append(responses, got)
              /\ Len(read) < Len(e) /\ awaiting' = awaiting
           \/ /\ got[1] = e[Len(read)] /\ responses' = Append(responses, got)
              /\ ~(Len(read) < Len(e)) /\ awaiting' = Tail(awaiting)
    BY ReadCases
  <1>5. CASE got[1] # e[Len(read)]
    <2>1. UNCHANGED <<awaiting, responses>>
      BY <1>4, <1>5
    <2> QED BY <1>2, <1>3, <2>1 DEF PairedOk
  <1>6. CASE got[1] = e[Len(read)]
    <2>1. cmd # "START_DECRYPT" /\ Len(awaiting) \in Nat /\ Len(awaiting) # 0
      <3>1. Len(awaiting) \in Nat /\ Len(awaiting) # 0
        BY <1>4, ListIs
      <3>2. 1 \in 1..Len(awaiting)
        BY <3>1
      <3> QED BY <1>3, <3>1, <3>2
    <2>2. /\ got[1] \in Acks \union {"CIPHERTEXT", "AUTH_TAG"}
          /\ got[1] = "AUTH_TAG" <=> cmd \in Starts /\ ~(Len(read) < Len(e))
          /\ got[1] = "AUTH_TAG" => partial # <<>> /\ partial[Len(partial)][1] = "CIPHERTEXT"
      <3> HIDE DEF y, cmd
      <3> QED BY <1>4, <1>6, <2>1, ReadOn
    <2>3. got[1] \in {"CIPHERTEXT", "AUTH_TAG"} => Full(got[2])
      <3>1. PICK ans : Answering(awaiting, Packs(toBoard), partial, y, ans)
        BY <1>2, <1>4 DEF SmoothOk
      <3> HIDE DEF y
      <3> QED BY <1>4, <3>1, NextAnswer
    <2>4. got[1] = "AUTH_TAG" => responses # <<>> /\ responses[Len(responses)][1] = "CIPHERTEXT"
      BY <2>2 DEF LinkOk
    <2>5. responses' = Append(responses, got)
      BY <1>4, <1>6
    <2>6. (Len(read) < Len(e) /\ awaiting' = awaiting) \/ (~(Len(read) < Len(e)) /\ awaiting' = Tail(awaiting))
      BY <1>4, <1>6
    <2> DEFINE part == Len(read) < Len(e)
    <2> HIDE DEF y, f, read, e, part
    <2>7. Paired(responses')
      BY <1>3, <2>2, <2>3, <2>4, <2>5, PairedMore
    <2>8. Tagged(responses') = Tagged(responses) + tag
      BY <1>4, <2>5, StartedMore
    <2>9. Ones(awaiting, Starts) = Ones(awaiting', Starts) + tag
      <3>1. CASE part
        <4>1. tag = 0 /\ awaiting' = awaiting
          BY <2>2, <2>6, <3>1 DEF part
        <4>2. Ones(awaiting, Starts) \in Nat
          BY <1>4, OnesFinite
        <4> QED BY <4>1, <4>2
      <3>2. CASE ~part
        <4>1. tag = (IF cmd \in Starts THEN 1 ELSE 0) /\ awaiting' = Tail(awaiting)
          BY <2>2, <2>6, <3>2 DEF part
        <4>2. Head(awaiting) = cmd
          BY <1>4, ListTail
        <4>3. Ones(awaiting, Starts) = Ones(Tail(awaiting), Starts) + IF Head(awaiting) \in Starts THEN 1 ELSE 0
          BY <1>4, OnesFirst
        <4> HIDE DEF tag, cmd
        <4> QED BY <4>1, <4>2, <4>3
      <3> QED BY <3>1, <3>2
    <2>10. IsSeq(awaiting') /\ \A i \in 1..Len(awaiting') : awaiting'[i] # "START_DECRYPT"
      <3>1. CASE awaiting' = awaiting
        BY <1>3, <1>4, <3>1
      <3>2. CASE awaiting' = Tail(awaiting)
        <4>1. /\ IsSeq(Tail(awaiting)) /\ Len(Tail(awaiting)) = Len(awaiting) - 1
              /\ \A i \in 1..Len(awaiting) - 1 : Tail(awaiting)[i] = awaiting[i + 1]
          BY <1>4, ListTail
        <4>2. \A i \in 1..Len(awaiting) - 1 : i + 1 \in 1..Len(awaiting)
          BY <2>1
        <4> QED BY <1>3, <3>2, <4>1, <4>2
      <3> QED BY <2>6, <3>1, <3>2
    <2>11. (Tagged(responses') + Ones(awaiting', Starts)) + Started(f) = Len(Messages)
      <3>1. Tagged(responses) \in Nat /\ Ones(awaiting', Starts) \in Nat /\ Started(f) \in Nat /\ tag \in Nat
        <4>1. IsSeq(f)
          BY FlattenIs DEF LinkOk, Grouped, f
        <4> QED BY <1>4, <2>10, <4>1, OpsAre, OnesFinite
      <3> HIDE DEF tag
      <3>3. ((Tagged(responses) + tag) + Ones(awaiting', Starts)) + Started(f)
            = (Tagged(responses) + (Ones(awaiting', Starts) + tag)) + Started(f)
        <4> DEFINE a == Tagged(responses)
                   b == Ones(awaiting', Starts)
                   c == Started(f)
        <4>1. a \in Nat /\ b \in Nat /\ c \in Nat
          BY <3>1
        <4> HIDE DEF a, b, c
        <4>2. ((a + tag) + b) + c = (a + (b + tag)) + c
          BY <3>1, <4>1
        <4> QED BY <4>2 DEF a, b, c
      <3> QED BY Zenon, <1>3, <2>8, <2>9, <3>3
    <2>12. FlattenSeq(groups') = f
      BY <1>2 DEF f
    <2> QED BY <1>2, <1>3, <2>7, <2>10, <2>11, <2>12 DEF PairedOk
  <1> QED BY <1>5, <1>6

-----------------------------------------------------------------------------
(* The images are of bytes, and a window holds a message (cli.py:373 takes *)
(* any integer; batches sends all at once for one that is not positive).   *)
ImageAssumption ==
    /\ Sized /\ Windows \subseteq Nat \ {0}
    /\ Images # <<>> /\ \E S : Images \in Seq(Seq(S))

ImageOk ==
    /\ IsSeq(outcomes) /\ stage \in {"load", "encrypt", "decrypt", "end"}
    /\ stage # "end" => Len(outcomes) < Len(Images)
    /\ stage = "encrypt" => ~BuildRefused(Pixels, iv, <<>>, 1)
    /\ stage \in {"load", "end"} => xfer = "idle"

ImageInv == LinkOk /\ CountOk /\ SmoothOk /\ PairedOk /\ ImageOk

(* The stream of an image that build_tx does not refuse.                   *)
LEMMA EncryptServes ==
  ASSUME ImageAssumption, ImageOk, stage # "end", ~BuildRefused(Pixels, iv, <<>>, 1)
  PROVE  /\ Len(Messages) \in Nat
         /\ Serves("full", EncryptTx, Loads \union {"START_ENCRYPT"}, Len(Messages))
  <1>1. PICK S : Images \in Seq(Seq(S))
    BY DEF ImageAssumption
  <1>2. Len(outcomes) \in Nat
    BY ListIs DEF ImageOk
  <1>3. current \in 1..Len(Images)
    BY <1>1, <1>2 DEF ImageOk, current
  <1>4. Pixels \in Seq(S)
    BY <1>1, <1>3 DEF Pixels
  <1>5. Sized
    BY DEF ImageAssumption
  <1> DEFINE c == ChunkCount(Len(Pixels), 1)
             x == BuildTx(Pixels, Key, iv, <<>>, 1)
  <1>6. c \in Nat /\ Serves("full", x, Loads \union {"START_ENCRYPT"}, c) /\ Len(SplitTx(x).messages) = c
    BY <1>4, <1>5, BuiltServes
  <1> HIDE DEF c
  <1> QED BY <1>6 DEF Messages, EncryptTx

LEMMA NextImageOk ==
  ASSUME ImageOk, stage # "end", NEW outcome, NextImage(outcome), xfer' = "idle", ImageAssumption
  PROVE  ImageOk'
  <1>1. PICK S : Images \in Seq(Seq(S))
    BY DEF ImageAssumption
  <1>2. Len(outcomes) \in Nat /\ Len(Images) \in Nat
    BY <1>1, ListIs DEF ImageOk
  <1>3. IsSeq(outcomes') /\ Len(outcomes') = Len(outcomes) + 1
    BY ListAppend DEF ImageOk, NextImage
  <1>4. stage' \in {"load", "end"} /\ (stage' # "end" => Len(outcomes) + 1 # Len(Images))
    BY DEF NextImage, current
  <1>5. stage' # "end" => Len(outcomes') < Len(Images)
    BY <1>2, <1>3, <1>4 DEF ImageOk
  <1> QED BY <1>3, <1>4, <1>5 DEF ImageOk

(* An exchange that is over leaves the link as it is.                      *)
LEMMA IdleKeeps ==
  ASSUME LinkOk, CountOk, SmoothOk, xfer # "read", xfer' = "idle",
         UNCHANGED <<channel, window, engine, toBoard, rx, groups, awaiting, partial, responses, faults>>
  PROVE  LinkOk' /\ CountOk' /\ SmoothOk'
  <1>1. LinkOk'
    BY DEF LinkOk
  <1>2. CountOk'
    BY DEF CountOk, Way
  <1>3. SmoothOk'
    BY DEF SmoothOk
  <1> QED BY <1>1, <1>2, <1>3

LEMMA LoadKeeps == ASSUME ImageAssumption, ImageInv, Load PROVE ImageInv'
  <1>1. xfer = "idle" /\ stage = "load" /\ stage # "end"
    BY DEF Load, ImageInv, ImageOk
  <1>2. CASE BuildRefused(Pixels, iv, <<>>, 1)
    <2>1. NextImage("failed") /\ UNCHANGED transferVars
      BY <1>2 DEF Load, Fail
    <2>2. /\ xfer' = "idle"
          /\ UNCHANGED <<channel, window, engine, toBoard, rx, groups, awaiting, partial, responses, faults>>
      BY <1>1, <2>1 DEF transferVars
    <2>3. LinkOk' /\ CountOk' /\ SmoothOk'
      BY <1>1, <2>2, IdleKeeps DEF ImageInv
    <2>4. ImageOk'
      BY <1>1, <2>1, <2>2, NextImageOk DEF ImageInv
    <2>5. PairedOk'
      BY <2>1 DEF PairedOk, NextImage
    <2> QED BY <2>3, <2>4, <2>5 DEF ImageInv
  <1>3. CASE ~BuildRefused(Pixels, iv, <<>>, 1)
    <2>1. StartExchange(EncryptTx) /\ stage' = "encrypt" /\ UNCHANGED <<iv, outcomes>>
      BY <1>3 DEF Load
    <2> DEFINE x == EncryptTx
               n == Len(Messages)
               K == Loads \union {"START_ENCRYPT"}
    <2>2. n \in Nat /\ Serves("full", x, K, n)
      BY <1>1, <1>3, EncryptServes DEF ImageInv
    <2>3. \A e : Primed(e, x)
      BY <2>2, PrimedAtStart
    <2>4. Packets(x) /\ Started(x) = n /\ \A j \in 1..Len(x) : x[j][1] \in K
      BY <2>2 DEF Serves
    <2>5. Messages' = Messages
      BY <2>1, SameMessages
    <2> HIDE DEF x, n
    <2>6. LinkOk' /\ CountOk' /\ SmoothOk'
      <3>1. StartExchange(x)
        BY <2>1 DEF x
      <3>2. LinkOk /\ SmoothOk /\ xfer # "read"
        BY <1>1 DEF ImageInv
      <3> QED BY <2>3, <2>4, <3>1, <3>2, StartKeeps
    <2>7. groups' = Batches(x, window) /\ awaiting' = <<>> /\ responses' = <<>>
      BY <2>1 DEF StartExchange, x
    <2>8. FlattenSeq(groups') = x
      BY <2>4, <2>7, BatchesAre DEF ImageInv, LinkOk
    <2>9. PairedOk'
      <3>1. Paired(<<>>)
        BY ListEmpty DEF Paired
      <3>2. Tagged(<<>>) = 0
        BY StartedNone
      <3>3. Ones(<<>>, Starts) = 0
        BY OnesNone
      <3>4. \A i \in 1..Len(x) : x[i][1] # "START_DECRYPT"
        BY <2>4 DEF Loads, CMD_ACKS
      <3>5. (Tagged(responses') + Ones(awaiting', Starts)) + Started(FlattenSeq(groups')) = Len(Messages')
        BY <2>2, <2>4, <2>5, <2>7, <2>8, <3>2, <3>3 DEF n
      <3>6. \A i \in 1..Len(awaiting') : awaiting'[i] # "START_DECRYPT"
        BY <2>7
      <3> QED BY <2>7, <2>8, <3>1, <3>4, <3>5, <3>6 DEF PairedOk
    <2>10. ImageOk'
      <3>1. Pixels' = Pixels /\ iv' = iv
        BY <2>1 DEF Pixels, current
      <3> QED BY <1>1, <1>3, <2>1, <3>1 DEF ImageInv, ImageOk
    <2> QED BY <2>6, <2>9, <2>10 DEF ImageInv
  <1> QED BY <1>2, <1>3

(* The host has taken the answers of an encryption without a fault: one    *)
(* full ciphertext and tag for each message.                               *)
LEMMA AnswersComplete ==
  ASSUME LinkOk, SmoothOk, PairedOk, faults = 0, stage = "encrypt", xfer \in {"done", "failed"}
  PROVE  /\ AllFull(SplitRx(Tampered).replies)
         /\ Len(SplitRx(Tampered).replies) = Len(Messages)
  <1>1. xfer = "done" /\ awaiting = <<>> /\ groups = <<>>
    BY DEF LinkOk, SmoothOk
  <1>2. Paired(responses) /\ (Tagged(responses) + Ones(awaiting, Starts)) + Started(FlattenSeq(groups)) = Len(Messages)
    BY DEF PairedOk
  <1>3. FlattenSeq(<<>>) = <<>>
    BY FlattenEmpty
  <1>4. Ones(<<>>, Starts) = 0 /\ Started(<<>>) = 0
    BY OnesNone, StartedNone
  <1>5. Tagged(responses) \in Nat
    BY <1>2, OpsAre DEF Paired
  <1>6. Tagged(responses) = Len(Messages)
    BY <1>1, <1>2, <1>3, <1>4, <1>5
  <1>7. Paired(Tampered) /\ Tagged(Tampered) = Tagged(responses)
    <2>1. Paired(FlipCiphertext(responses, tamper)) /\ Tagged(FlipCiphertext(responses, tamper)) = Tagged(responses)
      BY <1>2, FlipKeeps
    <2> QED BY <1>2, <2>1 DEF Tampered
  <1> QED BY <1>6, <1>7, RepliesFull

LEMMA EncryptedKeeps == ASSUME ImageAssumption, ImageInv, Encrypted PROVE ImageInv'
  <1>1. stage = "encrypt" /\ stage # "end" /\ xfer \in {"done", "failed"} /\ xfer # "read"
    BY DEF Encrypted
  <1>2. CASE xfer = "failed" \/ ~Accepted \/ (tamper # NoChunk /\ FlipRefused(responses, tamper))
    <2>1. NextImage("failed") /\ xfer' = "idle"
      BY <1>2 DEF Encrypted, Fail
    <2>2. UNCHANGED <<channel, window, engine, toBoard, rx, groups, awaiting, partial, responses, faults>>
      BY <1>2 DEF Encrypted
    <2>3. LinkOk' /\ CountOk' /\ SmoothOk'
      BY <1>1, <2>1, <2>2, IdleKeeps DEF ImageInv
    <2>4. ImageOk'
      BY <1>1, <2>1, NextImageOk DEF ImageInv
    <2>5. PairedOk'
      BY <2>1 DEF PairedOk, NextImage
    <2> QED BY <2>3, <2>4, <2>5 DEF ImageInv
  <1>3. CASE ~(xfer = "failed" \/ ~Accepted \/ (tamper # NoChunk /\ FlipRefused(responses, tamper)))
    <2> DEFINE rs == SplitRx(Tampered).replies
               x == BuildDecryptTx(Key, Messages, rs)
    <2>1. StartExchange(x) /\ stage' = "decrypt" /\ UNCHANGED <<iv, outcomes>>
      BY <1>3 DEF Encrypted
    <2>2. Len(Messages) \in Nat
      BY <1>1, EncryptServes DEF ImageInv, ImageOk
    <2>3. ASSUME faults = 0 PROVE AllFull(rs) /\ Len(rs) = Len(Messages)
      BY <1>1, <2>3, AnswersComplete DEF ImageInv
    <2> HIDE DEF rs
    <2>4. Packets(x)
      <3>1. Serves("any", x, Loads \union Starts, Len(Messages))
        BY <2>2, CheckedServes
      <3> QED BY <3>1 DEF Serves
    <2>5. ASSUME faults = 0 PROVE \A e : Primed(e, x)
      <3>1. \A i \in 1..Len(Messages) : Full(rs[i].data) /\ Full(rs[i].tag)
        BY <2>3, <2>5 DEF AllFull
      <3>2. Serves("full", x, Loads \union Starts, Len(Messages))
        BY <2>2, <3>1, CheckedServes
      <3> QED BY <3>2, PrimedAtStart
    <2> HIDE DEF x
    <2>6. LinkOk' /\ CountOk' /\ SmoothOk'
      <3>1. LinkOk /\ SmoothOk
        BY DEF ImageInv
      <3> QED BY <1>1, <2>1, <2>4, <2>5, <3>1, StartKeeps
    <2>7. PairedOk'
      BY <2>1 DEF PairedOk
    <2>8. ImageOk'
      BY <1>1, <2>1 DEF ImageInv, ImageOk
    <2> QED BY <2>6, <2>7, <2>8 DEF ImageInv
  <1> QED BY <1>2, <1>3

LEMMA DecryptedKeeps == ASSUME ImageAssumption, ImageInv, Decrypted PROVE ImageInv'
  <1>1. stage = "decrypt" /\ stage # "end" /\ xfer # "read" /\ xfer' = "idle"
    BY DEF Decrypted
  <1>2. UNCHANGED <<channel, window, engine, toBoard, rx, groups, awaiting, partial, responses, faults>>
    BY DEF Decrypted
  <1>3. PICK outcome : NextImage(outcome)
    BY DEF Decrypted, Fail, AdvanceOrFail
  <1>4. LinkOk' /\ CountOk' /\ SmoothOk'
    BY <1>1, <1>2, IdleKeeps DEF ImageInv
  <1>5. ImageOk'
    BY <1>1, <1>3, NextImageOk DEF ImageInv
  <1>6. PairedOk'
    BY <1>3 DEF PairedOk, NextImage
  <1> QED BY <1>4, <1>5, <1>6 DEF ImageInv

LEMMA LinkKeeps == ASSUME ImageAssumption, ImageInv, Link PROVE ImageInv'
  <1>1. UNCHANGED <<stage, iv, outcomes>>
    BY DEF Link
  <1>2. LinkOk /\ CountOk /\ SmoothOk /\ PairedOk /\ ImageOk
    BY DEF ImageInv
  <1>3. Pixels' = Pixels /\ Messages' = Messages
    BY <1>1, SameMessages DEF Pixels, current
  <1>4. ASSUME xfer # "idle" \/ xfer' = xfer PROVE ImageOk'
    BY <1>1, <1>2, <1>3, <1>4 DEF ImageOk
  <1>5. ASSUME UNCHANGED <<groups, awaiting, responses, faults>> PROVE PairedOk'
    BY <1>1, <1>2, <1>3, <1>5 DEF PairedOk
  <1>6. ASSUME faults' # 0 PROVE PairedOk'
    BY <1>6 DEF PairedOk
  <1>7. CASE SendGroup
    <2>1. LinkOk' /\ CountOk' /\ SmoothOk'
      BY <1>2, <1>7, SendKeeps
    <2>2. PairedOk'
      BY <1>1, <1>2, <1>7, SendPairs
    <2> QED BY <1>4, <1>7, <2>1, <2>2 DEF ImageInv, SendGroup
  <1>8. CASE ReadReply
    <2>1. LinkOk' /\ CountOk' /\ SmoothOk'
      BY <1>2, <1>8, ReadKeeps
    <2>2. PairedOk'
      BY <1>1, <1>2, <1>8, ReadPairs
    <2> QED BY <1>4, <1>8, <2>1, <2>2 DEF ImageInv, ReadReply
  <1>9. CASE Timeout
    <2>1. LinkOk' /\ CountOk' /\ SmoothOk'
      BY <1>2, <1>9, TimeoutKeeps
    <2>2. PairedOk'
      <3>1. faults' = faults \/ faults' = faults + 1
        BY <1>9 DEF Timeout
      <3>2. faults' = faults \/ faults' # 0
        BY <1>2, <3>1 DEF LinkOk
      <3> QED BY <1>5, <1>6, <1>9, <3>2 DEF Timeout
    <2> QED BY <1>4, <1>9, <2>1, <2>2 DEF ImageInv, Timeout
  <1>10. CASE BoardStep
    <2>1. LinkOk' /\ CountOk' /\ SmoothOk'
      BY <1>2, <1>10, BoardKeeps
    <2> QED BY <1>4, <1>5, <1>10, <2>1 DEF ImageInv, BoardStep
  <1>11. CASE CutCommand
    <2>1. LinkOk' /\ CountOk' /\ SmoothOk'
      BY <1>2, <1>11, CutKeeps
    <2>2. faults' # 0
      BY <1>2, <1>11 DEF CutCommand, LinkOk
    <2> QED BY <1>4, <1>6, <1>11, <2>1, <2>2 DEF ImageInv, CutCommand
  <1>12. CASE CorruptAnswer
    <2>1. LinkOk' /\ CountOk' /\ SmoothOk'
      BY <1>2, <1>12, CorruptStays
    <2>2. faults' # 0
      BY <1>2, <1>12 DEF CorruptAnswer, LinkOk
    <2> QED BY <1>4, <1>6, <1>12, <2>1, <2>2 DEF ImageInv, CorruptAnswer
  <1> QED BY <1>7, <1>8, <1>9, <1>10, <1>11, <1>12 DEF Link, LinkStep, LinkFault

LEMMA ImageStarts == ASSUME ImageAssumption, Init PROVE ImageInv
  <1>1. IsSeq(<<>>) /\ Len(<<>>) = 0
    BY ListEmpty
  <1>2. Queued(<<>>) /\ Pairs(<<>>)
    BY <1>1 DEF Queued, Pairs
  <1>3. Packs(<<>>) = <<>>
    BY <1>2, PacksAre
  <1>4. Packets(<<>>) /\ Grouped(window, <<>>)
    BY <1>1 DEF Packets, Grouped, Lists
  <1>5. window \in Nat \ {0}
    BY DEF Init, TransferInit, ImageAssumption
  <1>6. LinkOk
    BY <1>1, <1>2, <1>3, <1>4, <1>5 DEF LinkOk, Init, TransferInit
  <1>7. CountOk
    BY <1>3, <1>5, StartedNone DEF CountOk, Way, Init, TransferInit
  <1>8. IsIp(NewEngine)
    BY DEF IsIp, Ip, NewEngine
  <1>9. SmoothOk
    BY <1>8 DEF SmoothOk, Init, TransferInit
  <1>10. PairedOk
    BY DEF PairedOk, Init
  <1>11. Len(Images) \in Nat /\ 0 < Len(Images)
    <2>1. PICK S : Images \in Seq(Seq(S))
      BY DEF ImageAssumption
    <2> QED BY <2>1 DEF ImageAssumption
  <1>12. ImageOk
    BY <1>1, <1>11 DEF ImageOk, Init, TransferInit
  <1> QED BY <1>6, <1>7, <1>9, <1>10, <1>12 DEF ImageInv

LEMMA ImageSteps == ASSUME ImageAssumption, ImageInv, [Next]_vars PROVE ImageInv'
  <1>1. ASSUME UNCHANGED vars PROVE ImageInv'
    <2>1. /\ UNCHANGED <<channel, window, engine, toBoard, rx, sent, groups, awaiting, partial,
                          responses, xfer, exchange, faults, ciphered>>
          /\ UNCHANGED <<stage, iv, tamper, encrypted, outcomes, usedIV, hurt>>
      BY <1>1 DEF vars, transferVars, imageVars
    <2>2. LinkOk' /\ CountOk' /\ SmoothOk'
      BY <2>1 DEF ImageInv, LinkOk, CountOk, Way, SmoothOk
    <2>3. Pixels' = Pixels /\ Messages' = Messages
      BY <2>1, SameMessages DEF Pixels, current
    <2>4. PairedOk' /\ ImageOk'
      BY <2>1, <2>3 DEF ImageInv, PairedOk, ImageOk
    <2> QED BY <2>2, <2>4 DEF ImageInv
  <1>2. CASE Host
    BY <1>2, LoadKeeps, EncryptedKeeps, DecryptedKeeps DEF Host
  <1>3. CASE Link
    BY <1>3, LinkKeeps
  <1>4. CASE Ended
    BY <1>1, <1>4 DEF Ended
  <1> QED BY <1>1, <1>2, <1>3, <1>4 DEF Next

LEMMA ImageMeans == ASSUME ImageInv PROVE InFlight
  <1>1. Queued(toBoard) /\ Queued(rx)
    BY DEF ImageInv, LinkOk
  <1>2. Cardinality({i \in DOMAIN toBoard : toBoard[i][1][1] \in Starts}) = Started(Packs(toBoard))
    BY <1>1, UnderWay DEF Started
  <1>3. Cardinality({i \in DOMAIN rx : rx[i][1][1] = "AUTH_TAG"}) = Tagged(Packs(rx))
    <2>1. {i \in DOMAIN rx : rx[i][1][1] = "AUTH_TAG"} = {i \in DOMAIN rx : rx[i][1][1] \in {"AUTH_TAG"}}
      OBVIOUS
    <2> QED BY <1>1, <2>1, UnderWay DEF Tagged
  <1> QED BY <1>2, <1>3 DEF ImageInv, CountOk, Way, InFlight

(* For every window, link, list of images, chunk that is tampered with and *)
(* number of faults: as long as no fault has happened, and over SPI also   *)
(* afterwards, never more than window messages are between the host and    *)
(* the end of their answers (InFlight of ImageMode), whatever the order in *)
(* which the IP executes and the host reads.                               *)
THEOREM InFlightAlways == ASSUME ImageAssumption PROVE Spec => []InFlight
  <1>1. Init => ImageInv
    BY ImageStarts
  <1>2. ImageInv /\ [Next]_vars => ImageInv'
    BY ImageSteps
  <1>3. ImageInv => InFlight
    BY ImageMeans
  <1> QED BY <1>1, <1>2, <1>3, PTL DEF Spec

-----------------------------------------------------------------------------
(* "raw": its own state, beside that of "image"; the streams are the same. *)
CONSTANTS Keys, IVs, Files, Aads, Data, BlockChoices, NoFile, OlderFile
VARIABLES phase, args, packets, rawResponses, rawEncrypted, decrypted, result, outcome

Raw == INSTANCE RawMode WITH responses <- rawResponses, encrypted <- rawEncrypted

(* RawMode's streams are made by the same functions of framing.py.         *)
LEMMA SameFraming ==
  /\ \A data, key, nonce, aad, blocks : Raw!BuildTx(data, key, nonce, aad, blocks) = BuildTx(data, key, nonce, aad, blocks)
  /\ \A data, nonce, aad, blocks : Raw!BuildRefused(data, nonce, aad, blocks) = BuildRefused(data, nonce, aad, blocks)
  /\ \A x : Raw!SplitTx(x) = SplitTx(x)
  /\ \A s : Raw!FlattenSeq(s) = FlattenSeq(s)
  /\ \A data : Raw!ZeroPad(data) = ZeroPad(data)
  /\ \A aad : Raw!AadPacket(aad) = AadPacket(aad)
  /\ Raw!MaxDataBytes = MaxDataBytes
  <1>1. Raw!MaxDataBytes = MaxDataBytes
    BY DEF Raw!MaxDataBytes, MaxDataBytes
  <1>2. \A s : Raw!FlattenSeq(s) = FlattenSeq(s)
    BY DEF Raw!FlattenSeq, FlattenSeq
  <1>3. \A data : Raw!ZeroPad(data) = ZeroPad(data)
    BY DEF Raw!ZeroPad, ZeroPad
  <1>4. \A aad : Raw!AadPacket(aad) = AadPacket(aad)
    BY DEF Raw!AadPacket, AadPacket
  <1>5. \A data, key, nonce, aad, blocks : Raw!BuildTx(data, key, nonce, aad, blocks) = BuildTx(data, key, nonce, aad, blocks)
    BY DEF Raw!BuildTx, BuildTx, Raw!FlattenSeq, FlattenSeq, Raw!ChunkCount, ChunkCount, Raw!AdvanceIv, AdvanceIv,
           Raw!AadPacket, AadPacket, Raw!ZeroPad, ZeroPad, Raw!Piece, Piece
  <1>6. \A data, nonce, aad, blocks : Raw!BuildRefused(data, nonce, aad, blocks) = BuildRefused(data, nonce, aad, blocks)
    BY DEF Raw!BuildRefused, BuildRefused, Raw!MaxDataBytes, MaxDataBytes, Raw!IvOverflow, IvOverflow, Raw!ChunkCount, ChunkCount
  <1>7. \A x : Raw!SplitTx(x) = SplitTx(x)
    BY DEF Raw!SplitTx, SplitTx, Raw!FoldLeft, FoldLeft, Raw!MapThenFoldSet, MapThenFoldSet, Raw!Max, Max, Raw!Starts, Starts
  <1> QED BY <1>1, <1>2, <1>3, <1>4, <1>5, <1>6, <1>7

(* What the user may give: bytes, and IVs whose counter has 32 bits.       *)
RawAssumption ==
    /\ Sized
    /\ \E S : Files \subseteq Seq(S)
    /\ CounterLimit \in Nat /\ \A nonce \in IVs : nonce[2] \in 0..CounterLimit - 1

(* The stream of a run is none, that of its file or its one message.       *)
RawInv ==
    /\ args \in Raw!FileArgs \union Raw!MessageArgs
    /\ phase = "build" => args.op = "file"
    /\ phase = "message" => args.op # "file"
    /\ \/ packets = <<>>
       \/ /\ args.op = "file" /\ ~BuildRefused(args.data, args.iv, Raw!Aad, args.blocks)
          /\ packets = BuildTx(args.data, args.key, args.iv, Raw!Aad, args.blocks)
       \/ args.op # "file" /\ \E tag : packets = Raw!RawPackets(tag)

LEMMA RawStarts == ASSUME Raw!Init PROVE RawInv
  BY DEF Raw!Init, RawInv

LEMMA RawSteps == ASSUME RawInv, [Raw!Next]_Raw!vars PROVE RawInv'
  <1>1. ASSUME UNCHANGED <<phase, args, packets>> PROVE RawInv'
    BY <1>1 DEF RawInv, Raw!Aad, Raw!RawPackets
  <1>2. CASE UNCHANGED Raw!vars
    BY <1>1, <1>2 DEF Raw!vars
  <1>3. CASE Raw!Open
    BY <1>3 DEF Raw!Open, Raw!Fail, RawInv, Raw!Aad, Raw!RawPackets
  <1>4. CASE Raw!BuildFile
    BY <1>4, SameFraming DEF Raw!BuildFile, Raw!Fail, RawInv, Raw!Aad, Raw!RawPackets
  <1>5. CASE Raw!Encrypt \/ Raw!Decrypt \/ Raw!CheckFile
    BY <1>5 DEF Raw!Encrypt, Raw!Decrypt, Raw!CheckFile, Raw!Fail, RawInv, Raw!Aad, Raw!RawPackets
  <1>6. CASE Raw!SendMessage
    BY <1>6 DEF Raw!SendMessage, Raw!Fail, RawInv, Raw!Aad, Raw!RawPackets
  <1> QED BY <1>2, <1>3, <1>4, <1>5, <1>6 DEF Raw!Next
-----------------------------------------------------------------------------
(* The stream of a file, as the assumptions and its checks leave it.       *)
LEMMA FileMessages ==
  ASSUME RawAssumption, args \in Raw!FileArgs, ~BuildRefused(args.data, args.iv, Raw!Aad, args.blocks),
         packets = BuildTx(args.data, args.key, args.iv, Raw!Aad, args.blocks)
  PROVE  \E c \in Nat :
           /\ c = ChunkCount(Len(args.data), args.blocks) /\ ~IvOverflow(args.iv, c - 1)
           /\ Raw!Messages = MessagesOf(Counted(args.iv, c), FirstOnly(Raw!Aad, c), Pieces(args.data, args.blocks, c), c)
  <1> DEFINE c == ChunkCount(Len(args.data), args.blocks)
  <1>1. args.data # <<>> /\ args.blocks \in 1..MaxDataBlocks /\ ~IvOverflow(args.iv, c - 1)
    BY DEF BuildRefused
  <1>2. PICK S : Files \subseteq Seq(S)
    BY DEF RawAssumption
  <1>3. args.data \in Seq(S)
    BY <1>2 DEF Raw!FileArgs
  <1> DEFINE size == args.blocks * BlockBytes
             l == Len(args.data)
  <1>4. size \in Nat \ {0} /\ l \in Nat \ {0}
    <2>1. args.blocks \in Nat \ {0} /\ BlockBytes \in Nat \ {0}
      BY <1>1 DEF RawAssumption, Sized
    <2>2. \A a, b \in Nat \ {0} : a * b \in Nat \ {0}
      OBVIOUS
    <2>3. l \in Nat /\ l # 0
      BY <1>1, <1>3
    <2> QED BY <2>1, <2>2, <2>3
  <1>5. c \in Nat
    <2>1. c = (l + size - 1) \div size
      BY DEF ChunkCount
    <2> HIDE DEF l, size, c
    <2> QED BY <1>4, <2>1, CountIs
  <1>6. Raw!Messages = MessagesOf(Counted(args.iv, c), FirstOnly(Raw!Aad, c), Pieces(args.data, args.blocks, c), c)
    <2>1. c = ChunkCount(Len(args.data), args.blocks)
      OBVIOUS
    <2> HIDE DEF c
    <2> QED BY <1>5, <2>1, BuiltMessages, SameFraming DEF Raw!Messages
  <1> QED BY <1>1, <1>5, <1>6

LEMMA MessageFields ==
  ASSUME NEW ivs, NEW aads, NEW datas, NEW n \in Nat
  PROVE  /\ Len(MessagesOf(ivs, aads, datas, n)) = n
         /\ \A i \in 1..n : /\ MessagesOf(ivs, aads, datas, n)[i].data = datas[i]
                            /\ MessagesOf(ivs, aads, datas, n)[i].iv = ivs[i]
  BY DEF MessagesOf, Message

(* A file's stream carries the file.                                       *)
LEMMA FileCarried ==
  ASSUME RawAssumption, args \in Raw!FileArgs, ~BuildRefused(args.data, args.iv, Raw!Aad, args.blocks),
         packets = BuildTx(args.data, args.key, args.iv, Raw!Aad, args.blocks)
  PROVE  Raw!StreamCarriesData
  <1> DEFINE data == args.data
             blocks == args.blocks
             D(c) == Pieces(data, blocks, c)
  <1>1. PICK c \in Nat :
           /\ c = ChunkCount(Len(data), blocks)
           /\ Raw!Messages = MessagesOf(Counted(args.iv, c), FirstOnly(Raw!Aad, c), D(c), c)
    BY FileMessages
  <1>2. PICK R : Files \subseteq Seq(R)
    BY DEF RawAssumption
  <1> DEFINE S == R \union {{}}
  <1>3. {} \in S /\ data \in Seq(S) /\ data # <<>> /\ blocks \in 1..MaxDataBlocks /\ blocks \in Nat \ {0} /\ Sized
    <2>1. data \in Files
      BY DEF Raw!FileArgs
    <2>2. \A s \in Seq(R) : s \in Seq(S)
      OBVIOUS
    <2> QED BY <1>2, <2>1, <2>2 DEF BuildRefused, RawAssumption
  <1> DEFINE M == Raw!Messages
  <1>4. Len(M) = c /\ \A i \in 1..c : M[i].data = D(c)[i]
    <2> HIDE DEF D
    <2>1. M = MessagesOf(Counted(args.iv, c), FirstOnly(Raw!Aad, c), D(c), c)
      BY <1>1
    <2> HIDE DEF M
    <2> QED BY <2>1, MessageFields
  <1>5. D(c) = [i \in 1..c |-> D(c)[i]]
    BY DEF Pieces
  <1> HIDE DEF data, blocks, S, M
  <1>6. PICK e \in 0..BlockBytes - 1 : Carries(FlattenSeq(D(c)), data, Len(data), e)
    BY <1>1, <1>3, StreamCarries
  <1>7. \A i \in 1..c : Fits(D(c)[i])
    BY <1>1, <1>3, PiecesFit
  <1> HIDE DEF D
  <1> DEFINE carried == FlattenSeq([i \in 1..Len(M) |-> M[i].data])
  <1>8. carried = FlattenSeq(D(c))
    <2>1. [i \in 1..Len(M) |-> M[i].data] = [i \in 1..c |-> D(c)[i]]
      BY <1>4
    <2> QED BY <1>5, <2>1
  <1> HIDE DEF carried
  <1>9. Len(data) \in Nat /\ BlockBytes \in Nat
    BY <1>3 DEF Sized
  <1>10. /\ SubSeq(carried, 1, Len(data)) = data
         /\ Len(carried) - Len(data) < BlockBytes
         /\ \A i \in Len(data) + 1..Len(carried) : carried[i] = {}
    BY <1>6, <1>8, <1>9 DEF Carries
  <1>11. \A i \in 1..Len(M) : Len(M[i].data) <= MaxDataBytes /\ Len(M[i].data) % BlockBytes = 0
    BY <1>4, <1>7 DEF Fits
  <1>12. \A s : Raw!FlattenSeq(s) = FlattenSeq(s)
    BY SameFraming
  <1>13. Raw!MaxDataBytes = MaxDataBytes
    BY SameFraming
  <1> QED BY <1>10, <1>11, <1>12, <1>13 DEF Raw!StreamCarriesData, M, data, carried

(* A file's messages count their IVs up, below the limit.                  *)
LEMMA FileIVs ==
  ASSUME RawAssumption, args \in Raw!FileArgs, ~BuildRefused(args.data, args.iv, Raw!Aad, args.blocks),
         packets = BuildTx(args.data, args.key, args.iv, Raw!Aad, args.blocks)
  PROVE  Raw!IVsUnique
  <1> DEFINE D(c) == Pieces(args.data, args.blocks, c)
             nonce == args.iv
             M == Raw!Messages
  <1>1. PICK c \in Nat :
           /\ ~IvOverflow(nonce, c - 1)
           /\ M = MessagesOf(Counted(nonce, c), FirstOnly(Raw!Aad, c), D(c), c)
    BY FileMessages
  <1>2. nonce[2] \in Nat /\ CounterLimit \in Nat
    BY DEF RawAssumption, Raw!FileArgs
  <1> HIDE DEF D, M, nonce
  <1>3. Len(M) = c /\ \A i \in 1..c : M[i].iv = Counted(nonce, c)[i]
    BY <1>1, MessageFields
  <1>4. \A i \in 1..c : M[i].iv[1] = nonce[1] /\ M[i].iv[2] = nonce[2] + (i - 1)
    BY <1>3 DEF Counted, AdvanceIv
  <1>5. ASSUME NEW i \in 1..c, NEW j \in 1..c
        PROVE  M[i].iv[2] < CounterLimit /\ (M[i].iv = M[j].iv => i = j)
    <2>1. M[i].iv[2] = nonce[2] + (i - 1) /\ M[j].iv[2] = nonce[2] + (j - 1)
      BY <1>4
    <2>2. nonce[2] + (c - 1) < CounterLimit
      BY <1>1, <1>2 DEF IvOverflow
    <2> QED BY <1>2, <2>1, <2>2
  <1> QED BY <1>3, <1>5 DEF Raw!IVsUnique, M

(* What the host has read of a message, with its IV.                       *)
At(key, nonce, aad, data, tag, messages) ==
    [key |-> key, iv |-> nonce, aad |-> aad, data |-> data, tag_ref |-> tag, messages |-> messages]
ReadUnder(S, nonce, x, messages) ==
    x \in Seq(S) /\ \E key, aad, data, tag : SplitTx(x) = At(key, nonce, aad, data, tag, messages)

LEMMA ReadOnLoad ==
  ASSUME NEW S, NEW nonce, NEW x, NEW ms, ReadUnder(S, nonce, x, ms), NEW z,
         NEW op \in {"LOAD_AAD", "LOAD_PLAINTEXT", "LOAD_TAG_REF"}, <<op, z>> \in S
  PROVE  ReadUnder(S, nonce, Append(x, <<op, z>>), ms)
  <1>1. PICK key, aad, data, tag : SplitTx(x) = At(key, nonce, aad, data, tag, ms)
    BY DEF ReadUnder
  <1> DEFINE y == Append(x, <<op, z>>)
  <1>2. y \in Seq(S) /\ SplitTx(y) = SplitStep(SplitTx(x), <<op, z>>)
    BY SplitOneMore DEF ReadUnder
  <1>3. CASE op = "LOAD_AAD"
    <2>1. SplitStep(At(key, nonce, aad, data, tag, ms), <<op, z>>) = At(key, nonce, z, data, tag, ms)
      BY <1>3 DEF SplitStep, At, Starts
    <2> HIDE DEF y
    <2> QED BY <1>1, <1>2, <2>1 DEF ReadUnder, y
  <1>4. CASE op = "LOAD_PLAINTEXT"
    <2>1. SplitStep(At(key, nonce, aad, data, tag, ms), <<op, z>>) = At(key, nonce, aad, z, tag, ms)
      BY <1>4 DEF SplitStep, At, Starts
    <2> HIDE DEF y
    <2> QED BY <1>1, <1>2, <2>1 DEF ReadUnder, y
  <1>5. CASE op = "LOAD_TAG_REF"
    <2>1. SplitStep(At(key, nonce, aad, data, tag, ms), <<op, z>>) = At(key, nonce, aad, data, z, ms)
      BY <1>5 DEF SplitStep, At, Starts
    <2> HIDE DEF y
    <2> QED BY <1>1, <1>2, <2>1 DEF ReadUnder, y
  <1> QED BY <1>3, <1>4, <1>5

LEMMA ReadOnStart ==
  ASSUME NEW S, NEW nonce, NEW x, ReadUnder(S, nonce, x, <<>>), NEW z,
         NEW op \in Starts, <<op, z>> \in S
  PROVE  LET ms == SplitTx(Append(x, <<op, z>>)).messages IN Len(ms) = 1 /\ ms[1].iv = nonce
  <1>1. PICK key, aad, data, tag : SplitTx(x) = At(key, nonce, aad, data, tag, <<>>)
    BY DEF ReadUnder
  <1>2. SplitTx(Append(x, <<op, z>>)) = SplitStep(SplitTx(x), <<op, z>>)
    BY SplitOneMore DEF ReadUnder
  <1> DEFINE m == [iv |-> nonce, aad |-> aad, data |-> data, start |-> op, tag_ref |-> tag]
  <1>3. SplitStep(At(key, nonce, aad, data, tag, <<>>), <<op, z>>).messages = Append(<<>>, m)
    BY DEF SplitStep, At, Starts
  <1>4. Append(<<>>, m) = <<m>> /\ Len(<<m>>) = 1 /\ <<m>>[1] = m
    OBVIOUS
  <1>5. m.iv = nonce
    OBVIOUS
  <1>6. SplitTx(Append(x, <<op, z>>)).messages = <<m>>
    BY <1>1, <1>2, <1>3, <1>4
  <1> HIDE DEF m
  <1>7. <<m>>[1].iv = nonce
    BY <1>4, <1>5
  <1> QED BY <1>4, <1>6, <1>7

(* The one message of raw_message has the user's IV.                       *)
LEMMA OneMessage ==
  ASSUME NEW tag, packets = Raw!RawPackets(tag)
  PROVE  Len(Raw!Messages) = 1 /\ Raw!Messages[1].iv = args.iv
  <1> DEFINE k == <<"LOAD_KEY", args.key>>
             v == <<"LOAD_IV", args.iv>>
             a == <<"LOAD_AAD", Raw!Aad>>
             d == <<"LOAD_PLAINTEXT", ZeroPad(args.data)>>
             t == <<"LOAD_TAG_REF", tag>>
             e == <<"START_ENCRYPT", <<>>>>
             u == <<"START_DECRYPT", <<>>>>
             S == {k, v, a, d, t, e, u}
             w == <<k, v>>
             x == w \o AadPacket(Raw!Aad)
             y == x \o <<d>>
             Under(s) == ReadUnder(S, args.iv, s, <<>>)
             Done(s) == Len(SplitTx(s).messages) = 1 /\ SplitTx(s).messages[1].iv = args.iv
  <1>1. packets = y \o (IF args.op = "decrypt" THEN <<t, u>> ELSE <<e>>)
    BY SameFraming DEF Raw!RawPackets
  <1>2. ASSUME NEW s \in Seq(S), NEW b \in S, NEW c \in S
        PROVE  s \o <<b>> = Append(s, b) /\ s \o <<b, c>> = Append(Append(s, b), c) /\ Append(s, b) \in Seq(S)
    <2> HIDE DEF S
    <2> QED OBVIOUS
  <1>3. Under(w)
    <2>1. <<>> \in Seq(S) /\ <<k>> \in Seq(S) /\ k \in S /\ v \in S /\ w \in Seq(S)
      OBVIOUS
    <2>2. <<k>> = Append(<<>>, k) /\ w = Append(<<k>>, v)
      OBVIOUS
    <2>3. SplitTx(<<k>>) = SplitStep(Unsplit, k)
      <3> HIDE DEF k, S
      <3> QED BY <2>1, <2>2, SplitOneMore, SplitNothing
    <2>4. SplitTx(w) = SplitStep(SplitTx(<<k>>), v)
      <3> HIDE DEF k, v, w, S
      <3> QED BY <2>1, <2>2, SplitOneMore
    <2>5. SplitStep(Unsplit, k) = At(args.key, <<>>, <<>>, <<>>, <<>>, <<>>)
      BY DEF SplitStep, Unsplit, At, Starts
    <2>6. SplitStep(At(args.key, <<>>, <<>>, <<>>, <<>>, <<>>), v) = At(args.key, args.iv, <<>>, <<>>, <<>>, <<>>)
      BY DEF SplitStep, At, Starts
    <2>7. SplitTx(w) = At(args.key, args.iv, <<>>, <<>>, <<>>, <<>>)
      BY <2>3, <2>4, <2>5, <2>6
    <2> HIDE DEF w, S
    <2> QED BY <2>1, <2>7 DEF ReadUnder
  <1>4. a \in S /\ d \in S /\ t \in S /\ e \in S /\ u \in S
    OBVIOUS
  <1>5. ASSUME NEW s, Under(s)
        PROVE  /\ s \in Seq(S) /\ Under(Append(s, a)) /\ Under(Append(s, d)) /\ Under(Append(s, t))
               /\ Done(Append(s, e)) /\ Done(Append(s, u))
    <2>1. s \in Seq(S)
      BY <1>5 DEF ReadUnder
    <2>2. Under(Append(s, a)) /\ Under(Append(s, d)) /\ Under(Append(s, t))
      <3> HIDE DEF S
      <3> QED BY <1>4, <1>5, ReadOnLoad
    <2>3. Done(Append(s, e)) /\ Done(Append(s, u))
      <3>1. "START_ENCRYPT" \in Starts /\ "START_DECRYPT" \in Starts
        BY DEF Starts
      <3> HIDE DEF S
      <3> QED BY <1>4, <1>5, <3>1, ReadOnStart
    <2> QED BY <2>1, <2>2, <2>3
  <1> HIDE DEF a, d, t, e, u, k, v, S, w, Under, Done
  <1>6. Under(x)
    <2>1. CASE Raw!Aad = <<>>
      <3>1. w \o <<>> = w
        BY <1>3, <1>5
      <3> QED BY <1>3, <2>1, <3>1 DEF AadPacket
    <2>2. CASE Raw!Aad # <<>>
      <3>1. x = w \o <<a>>
        BY <2>2 DEF AadPacket, a
      <3>2. x = Append(w, a)
        BY <1>2, <1>3, <1>4, <1>5, <3>1
      <3> QED BY <1>3, <1>5, <3>2
    <2> QED BY <2>1, <2>2
  <1> HIDE DEF x
  <1>7. Under(y)
    <2>1. y = Append(x, d)
      BY <1>2, <1>4, <1>5, <1>6
    <2> QED BY <1>5, <1>6, <2>1
  <1> HIDE DEF y
  <1>8. Done(packets)
    <2>1. CASE args.op = "decrypt"
      <3>1. packets = Append(Append(y, t), u)
        BY <1>1, <1>2, <1>4, <1>5, <1>7, <2>1
      <3> QED BY <1>5, <1>7, <3>1
    <2>2. CASE args.op # "decrypt"
      <3>1. packets = Append(y, e)
        BY <1>1, <1>2, <1>4, <1>5, <1>7, <2>2
      <3> QED BY <1>5, <1>7, <3>1
    <2> QED BY <2>1, <2>2
  <1> QED BY <1>8, SameFraming DEF Done, Raw!Messages

LEMMA RawMeans == ASSUME RawAssumption, RawInv PROVE Raw!StreamCarriesData /\ Raw!IVsUnique
  <1>1. CASE packets = <<>>
    <2>1. Raw!Messages = <<>>
      BY <1>1, SplitNothing, SameFraming DEF Raw!Messages, Unsplit
    <2> QED BY <1>1, <2>1 DEF Raw!StreamCarriesData, Raw!IVsUnique
  <1>2. CASE /\ args.op = "file" /\ ~BuildRefused(args.data, args.iv, Raw!Aad, args.blocks)
             /\ packets = BuildTx(args.data, args.key, args.iv, Raw!Aad, args.blocks)
    <2>1. args \in Raw!FileArgs
      BY <1>2 DEF RawInv, Raw!FileArgs, Raw!MessageArgs
    <2> QED BY <1>2, <2>1, FileCarried, FileIVs
  <1>3. CASE args.op # "file" /\ \E tag : packets = Raw!RawPackets(tag)
    <2>1. Len(Raw!Messages) = 1 /\ Raw!Messages[1].iv = args.iv
      BY <1>3, OneMessage
    <2>2. args.iv \in IVs
      BY <1>3 DEF RawInv, Raw!FileArgs, Raw!MessageArgs
    <2>3. Raw!Messages[1].iv[2] < CounterLimit
      BY <2>1, <2>2 DEF RawAssumption
    <2>4. \A i \in 1..Len(Raw!Messages) : i = 1
      BY <2>1
    <2> QED BY <1>3, <2>3, <2>4 DEF Raw!StreamCarriesData, Raw!IVsUnique
  <1> QED BY <1>1, <1>2, <1>3 DEF RawInv

(* For every file, IV, AAD and number of blocks: the stream raw_file       *)
(* builds carries the whole file and only padding, in messages the IP      *)
(* takes, and no two messages of a run share an IV (StreamCarriesData and  *)
(* IVsUnique of RawMode).                                                  *)
THEOREM StreamCarriesAlways == ASSUME RawAssumption PROVE Raw!Spec => [](Raw!StreamCarriesData /\ Raw!IVsUnique)
  <1>1. Raw!Init => RawInv
    BY RawStarts
  <1>2. RawInv /\ [Raw!Next]_Raw!vars => RawInv'
    BY RawSteps
  <1>3. RawInv => Raw!StreamCarriesData /\ Raw!IVsUnique
    BY RawMeans
  <1> QED BY <1>1, <1>2, <1>3, PTL DEF Raw!Spec
=============================================================================
