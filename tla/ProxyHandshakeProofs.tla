------------------------ MODULE ProxyHandshakeProofs ------------------------
(***************************************************************************)
(* Proofs about the opening of a session, for any versions of guests, any  *)
(* versions of daemons that fit in two bytes, and any features.            *)
(***************************************************************************)
EXTENDS ProxyHandshake, SequenceTheorems, TLAPS

(* What may be on the wires.                                               *)
Hello == Tok("hello", version)
GuestVersion == Tok("version", guest.ver)
HostVersion == Tok("version", host.ver)
Reserve == Tok("reserve", "")
Info == Tok("info", "")

\* The post-handshake words that the daemon has still to read.
RestOfPost == PostWords \union {<<Tok("value", ""), Reserve>>, <<Reserve>>}

\* What follows the daemon's info.
Ends == {Tok(t, "") : t \in {"last", "error", "stream"}}
Greetings == {<<e>> : e \in Ends} \union {<<Tok("log", ""), e>> : e \in Ends}

UpPlaces == {"up magic", "up version", "up features"}
CopyPlaces == {"affinity", "value", "reserve"}
DownPlaces == {"down version", "down features"} \union CopyPlaces
LatePlaces == {"info", "greeting", "loop"}

\* A party goes by what the session goes by.
Agreed(party) == party.useVer = version /\ party.useFeats = features

\* The fields of a party.
IsParty(p) ==
    p = [ver |-> p.ver, feats |-> p.feats, at |-> p.at, said |-> p.said,
         useVer |-> p.useVer, useFeats |-> p.useFeats]

Shape ==
    /\ TypeOK
    /\ IsParty(guest) /\ guest.ver \in Nat
    /\ IsParty(host) /\ host.ver \in 0..(TwoBytes - 1)
    /\ pc \in {"magic", "dial", "up magic", "up version"} => version = 0 /\ features = {}
    /\ version < FeatureExchange => features = {}
    /\ pc \in DownPlaces \union LatePlaces => version >= Floor

\* The guest's leg: where the guest is and what lies on the socket, for each
\* place of the session.
GuestUnder ==
    /\ pc # "closed" /\ guest.at \in {"start", "hello", "features"} => guest.useFeats = {}
    /\ pc = "magic" =>
          /\ p2g = <<>>
          /\ \/ guest.at = "start" /\ g2p = <<>>
             \/ guest.at = "hello" /\ g2p = <<Tok("magic", guest.said), GuestVersion>>
    /\ pc \in {"dial"} \union UpPlaces =>
          guest.at = "hello" /\ g2p = <<GuestVersion>> /\ p2g = <<>>
    /\ pc = "down version" =>
          \/ guest.at = "hello" /\ g2p = <<GuestVersion>> /\ p2g = <<Hello>>
          \/ /\ guest.at = "features" /\ p2g = <<>>
             /\ g2p = <<GuestVersion, Tok("features", guest.feats)>>
             /\ guest.useVer = Lower(guest.ver, version) /\ guest.useVer >= FeatureExchange
          \/ /\ guest.at = "info" /\ p2g = <<>>
             /\ \E post \in PostWords : g2p = <<GuestVersion>> \o post
             /\ guest.useVer = Lower(guest.ver, version) /\ guest.useVer < FeatureExchange
             /\ guest.useFeats = {}
    /\ pc \in {"down features"} \union CopyPlaces => guest.ver >= version
    /\ pc = "down features" =>
          /\ version >= FeatureExchange
          /\ \/ guest.at = "hello" /\ g2p = <<>> /\ p2g = <<Hello>>
             \/ /\ guest.at = "features" /\ guest.useVer = version
                /\ g2p = <<Tok("features", guest.feats)>> /\ p2g = <<>>
    /\ pc = "affinity" =>
          \/ /\ guest.at = "hello" /\ version < FeatureExchange /\ features = {}
             /\ g2p = <<>> /\ p2g = <<Hello>>
          \/ /\ guest.at = "features" /\ guest.useVer = version /\ features \subseteq guest.feats
             /\ g2p = <<>> /\ p2g = <<Tok("features", features)>>
          \/ guest.at = "info" /\ Agreed(guest) /\ g2p \in PostWords /\ p2g = <<>>
    /\ pc = "value" =>
          /\ guest.at = "info" /\ Agreed(guest)
          /\ g2p = <<Tok("value", ""), Reserve>> /\ p2g = <<>>
    /\ pc = "reserve" =>
          guest.at = "info" /\ Agreed(guest) /\ g2p = <<Reserve>> /\ p2g = <<>>
    /\ pc \in LatePlaces =>
          guest.at \in {"info", "greeting", "ready"} /\ Agreed(guest) /\ g2p = <<>>

\* The daemon's leg, where it may be dead at any moment.
HostUnder ==
    /\ pc \in {"magic", "dial"} =>
          host.at = "absent" /\ host.useFeats = {} /\ p2h = <<>> /\ h2p = <<>>
    /\ pc \in {"up magic", "up version"} => host.useFeats = {}
    /\ pc = "up magic" =>
          \/ host.at \in {"hello", "dead"} /\ p2h = <<Tok("hello", OurVersion)>> /\ h2p = <<>>
          \/ /\ p2h = <<>>
             /\ \E magic \in {"good", "bad"} : h2p = <<Tok("magic", magic), HostVersion>>
             /\ host.useVer = Lower(host.ver, OurVersion)
             /\ host.at \in {IF host.useVer >= FeatureExchange THEN "features" ELSE "post", "dead"}
    /\ pc = "up version" =>
          /\ p2h = <<>> /\ h2p = <<HostVersion>>
          /\ host.useVer = Lower(host.ver, OurVersion)
          /\ host.at \in {IF host.useVer >= FeatureExchange THEN "features" ELSE "post", "dead"}
    /\ pc = "up features" =>
          /\ host.useVer = version /\ version >= FeatureExchange
          /\ \/ /\ host.at \in {"features", "dead"} /\ host.useFeats = {}
                /\ p2h = <<Tok("features", OurFeatures)>> /\ h2p = <<>>
             \/ /\ host.at \in {"post", "dead"} /\ host.useFeats = host.feats \intersect OurFeatures
                /\ p2h = <<>> /\ h2p = <<Tok("features", host.feats)>>
    /\ pc \in DownPlaces \union LatePlaces => Agreed(host)
    /\ pc \in DownPlaces => host.at \in {"post", "dead"} /\ p2h = <<>> /\ h2p = <<>>
    /\ pc = "info" =>
          \/ host.at \in {"post", "dead"} /\ p2h \in RestOfPost /\ h2p = <<>>
          \/ /\ host.at \in {"ops", "dead"} /\ p2h = <<>>
             /\ \E rest \in Greetings : h2p = <<Info>> \o rest
    /\ pc = "greeting" => host.at \in {"ops", "dead"} /\ p2h = <<>> /\ h2p \in Greetings
    /\ pc = "loop" => host.at \in {"ops", "dead"} /\ p2h = <<>> /\ h2p = <<>>

Buffers ==
    /\ pc \notin {"value", "reserve"} => hw = <<>>
    /\ pc = "value" => hw = <<Tok("affinity", "1")>>
    /\ pc = "reserve" => hw \in {<<Tok("affinity", "0")>>, <<Tok("affinity", "1"), Tok("value", "")>>}
    /\ pc # "greeting" => gw = <<>>

\* Where the daemon has been dialled, or is about to be, the guest has said
\* the magic, and says it once.
Speakers ==
    pc = "dial" \/ host.at # "absent" => guest.said = "good" /\ guest.at # "start"

IInv == Shape /\ GuestUnder /\ HostUnder /\ Buffers /\ Speakers

-----------------------------------------------------------------------------
(* Short sequences, joined.                                                *)

LEMMA One ==
    ASSUME NEW a
    PROVE  Head(<<a>>) = a /\ Tail(<<a>>) = <<>> /\ <<a>> # <<>>
OBVIOUS

LEMMA Two ==
    ASSUME NEW a, NEW b
    PROVE  Head(<<a, b>>) = a /\ Tail(<<a, b>>) = <<b>> /\ <<a, b>> # <<>>
<1>1. Head(<<a, b>>) = a
    OBVIOUS
<1>2. Tail(<<a, b>>) = <<b>>
    OBVIOUS
<1>3. <<a, b>> # <<>>
    OBVIOUS
<1> QED BY <1>1, <1>2, <1>3

LEMMA Three ==
    ASSUME NEW a, NEW b, NEW c
    PROVE  Head(<<a, b, c>>) = a /\ Tail(<<a, b, c>>) = <<b, c>> /\ <<a, b, c>> # <<>>
<1>1. Head(<<a, b, c>>) = a
    OBVIOUS
<1>2. Tail(<<a, b, c>>) = <<b, c>>
    OBVIOUS
<1>3. <<a, b, c>> # <<>>
    OBVIOUS
<1> QED BY <1>1, <1>2, <1>3

LEMMA Four ==
    ASSUME NEW a, NEW b, NEW c, NEW d
    PROVE  Head(<<a, b, c, d>>) = a /\ Tail(<<a, b, c, d>>) = <<b, c, d>> /\ <<a, b, c, d>> # <<>>
<1>1. Head(<<a, b, c, d>>) = a
    OBVIOUS
<1>2. Tail(<<a, b, c, d>>) = <<b, c, d>>
    OBVIOUS
<1>3. <<a, b, c, d>> # <<>>
    OBVIOUS
<1> QED BY <1>1, <1>2, <1>3

LEMMA OneAndOne ==
    ASSUME NEW a, NEW b
    PROVE  <<a>> \o <<b>> = <<a, b>>
<1> DEFINE S == {a, b}
           s == <<a>> \o <<b>>
           t == <<a, b>>
<1>1. s \in Seq(S) /\ Len(s) = 2 /\ s[1] = a /\ s[2] = b
    OBVIOUS
<1>2. t \in Seq(S) /\ Len(t) = 2 /\ t[1] = a /\ t[2] = b
    OBVIOUS
<1> HIDE DEF s, t, S
<1>3. \A i \in 1..Len(s) : s[i] = t[i]
    BY <1>1, <1>2
<1>4. s = t
    BY <1>1, <1>2, <1>3, SeqEqual
<1> QED BY <1>4 DEF s, t

LEMMA OneAndTwo ==
    ASSUME NEW a, NEW b, NEW c
    PROVE  <<a>> \o <<b, c>> = <<a, b, c>>
<1> DEFINE S == {a, b, c}
           s == <<a>> \o <<b, c>>
           t == <<a, b, c>>
<1>1. s \in Seq(S) /\ Len(s) = 3 /\ s[1] = a /\ s[2] = b /\ s[3] = c
    OBVIOUS
<1>2. t \in Seq(S) /\ Len(t) = 3 /\ t[1] = a /\ t[2] = b /\ t[3] = c
    OBVIOUS
<1> HIDE DEF s, t, S
<1>3. \A i \in 1..Len(s) : s[i] = t[i]
    BY <1>1, <1>2
<1>4. s = t
    BY <1>1, <1>2, <1>3, SeqEqual
<1> QED BY <1>4 DEF s, t

LEMMA OneAndThree ==
    ASSUME NEW a, NEW b, NEW c, NEW d
    PROVE  <<a>> \o <<b, c, d>> = <<a, b, c, d>>
<1> DEFINE S == {a, b, c, d}
           s == <<a>> \o <<b, c, d>>
           t == <<a, b, c, d>>
<1>1. s \in Seq(S) /\ Len(s) = 4 /\ s[1] = a /\ s[2] = b /\ s[3] = c /\ s[4] = d
    OBVIOUS
<1>2. t \in Seq(S) /\ Len(t) = 4 /\ t[1] = a /\ t[2] = b /\ t[3] = c /\ t[4] = d
    OBVIOUS
<1> HIDE DEF s, t, S
<1>3. \A i \in 1..Len(s) : s[i] = t[i]
    BY <1>1, <1>2
<1>4. s = t
    BY <1>1, <1>2, <1>3, SeqEqual
<1> QED BY <1>4 DEF s, t

LEMMA TwoAndOne ==
    ASSUME NEW a, NEW b, NEW c
    PROVE  <<a, b>> \o <<c>> = <<a, b, c>>
<1> DEFINE S == {a, b, c}
           s == <<a, b>> \o <<c>>
           t == <<a, b, c>>
<1>1. s \in Seq(S) /\ Len(s) = 3 /\ s[1] = a /\ s[2] = b /\ s[3] = c
    OBVIOUS
<1>2. t \in Seq(S) /\ Len(t) = 3 /\ t[1] = a /\ t[2] = b /\ t[3] = c
    OBVIOUS
<1> HIDE DEF s, t, S
<1>3. \A i \in 1..Len(s) : s[i] = t[i]
    BY <1>1, <1>2
<1>4. s = t
    BY <1>1, <1>2, <1>3, SeqEqual
<1> QED BY <1>4 DEF s, t

LEMMA NothingAndPost ==
    ASSUME NEW post \in PostWords
    PROVE  <<>> \o post = post
<1>1. \A a, b : <<>> \o <<a, b>> = <<a, b>>
    OBVIOUS
<1>2. \A a, b, c : <<>> \o <<a, b, c>> = <<a, b, c>>
    OBVIOUS
<1> QED BY <1>1, <1>2 DEF PostWords

\* The words of the versions the code names.
LEMMA VersionWords == OurVersion = 294 /\ FeatureExchange = 294 /\ Floor = 291
BY DEF OurVersion, FeatureExchange, Floor, Wire

LEMMA VersionsNat ==
    ASSUME Shape
    PROVE  /\ version \in Nat /\ version <= 294 /\ guest.ver \in Nat
           /\ host.ver \in Nat /\ host.ver < TwoBytes
<1>1. version \in {0} \union 291..294
    BY VersionWords DEF Shape, TypeOK
<1>2. version \in Nat /\ version <= 294
    BY <1>1
<1>3. host.ver \in 0..(TwoBytes - 1)
    BY DEF Shape
<1>4. guest.ver \in Nat
    BY DEF Shape
<1>5. TwoBytes \in Nat
    BY DEF TwoBytes
<1>6. host.ver \in Nat /\ host.ver < TwoBytes
    BY <1>3, <1>5
<1> QED BY <1>2, <1>4, <1>6

\* What is left of the guest's socket once its version has been read.
LEMMA AfterVersion ==
    ASSUME NEW v, NEW post \in PostWords
    PROVE  /\ Head(<<v>> \o post) = v /\ Tail(<<v>> \o post) = post
           /\ <<v>> \o post # <<>>
<1> DEFINE s == <<v>> \o post
<1> SUFFICES Head(s) = v /\ Tail(s) = post /\ s # <<>>
    OBVIOUS
<1>1. CASE post = <<Tok("affinity", "0"), Tok("reserve", "")>>
    <2>1. s = <<v, Tok("affinity", "0"), Tok("reserve", "")>>
        BY <1>1, OneAndTwo
    <2> HIDE DEF s
    <2> QED BY <1>1, <2>1, Three
<1>2. CASE post = <<Tok("affinity", "1"), Tok("value", ""), Tok("reserve", "")>>
    <2>1. s = <<v, Tok("affinity", "1"), Tok("value", ""), Tok("reserve", "")>>
        BY <1>2, OneAndThree
    <2>2. \A a, b, c : Head(<<v, a, b, c>>) = v /\ Tail(<<v, a, b, c>>) = <<a, b, c>>
                       /\ <<v, a, b, c>> # <<>>
        BY Four
    <2>3. /\ Head(s) = v /\ s # <<>>
          /\ Tail(s) = <<Tok("affinity", "1"), Tok("value", ""), Tok("reserve", "")>>
        <3> HIDE DEF s
        <3> QED BY <2>1, <2>2
    <2> QED BY <1>2, <2>3
<1> QED BY <1>1, <1>2 DEF PostWords

\* What is left of the daemon's socket once its info has been read.
LEMMA AfterInfo ==
    ASSUME NEW v, NEW rest \in Greetings
    PROVE  /\ Head(<<v>> \o rest) = v /\ Tail(<<v>> \o rest) = rest
           /\ <<v>> \o rest # <<>>
<1> DEFINE s == <<v>> \o rest
<1> SUFFICES Head(s) = v /\ Tail(s) = rest /\ s # <<>>
    OBVIOUS
<1>1. CASE \E e \in Ends : rest = <<e>>
    <2>1. PICK e \in Ends : rest = <<e>>
        BY <1>1
    <2>2. s = <<v, e>>
        BY <2>1, OneAndOne
    <2> HIDE DEF s
    <2> QED BY <2>1, <2>2, Two
<1>2. CASE \E e \in Ends : rest = <<Tok("log", ""), e>>
    <2>1. PICK e \in Ends : rest = <<Tok("log", ""), e>>
        BY <1>2
    <2>2. s = <<v, Tok("log", ""), e>>
        BY <2>1, OneAndTwo
    <2> HIDE DEF s
    <2> QED BY <2>1, <2>2, Three
<1> QED BY <1>1, <1>2 DEF Greetings

\* What is left of the post-handshake words once the next has been read.
LEMMA AfterPostWord ==
    ASSUME NEW words \in RestOfPost
    PROVE  /\ Head(words).t \in {"affinity", "value"} => Tail(words) \in RestOfPost
           /\ Head(words).t = "reserve" => Tail(words) = <<>>
<1>1. CASE words = <<Reserve>>
    <2>1. Head(words) = Reserve /\ Tail(words) = <<>>
        BY <1>1, One
    <2>2. Reserve.t = "reserve"
        BY DEF Reserve, Tok
    <2> QED BY <2>1, <2>2
<1>2. CASE \E w \in {Tok("affinity", "0"), Tok("value", "")} : words = <<w, Reserve>>
    <2>1. PICK w \in {Tok("affinity", "0"), Tok("value", "")} : words = <<w, Reserve>>
        BY <1>2
    <2>2. w.t # "reserve"
        <3>1. Tok("affinity", "0").t # "reserve" /\ Tok("value", "").t # "reserve"
            BY DEF Tok
        <3> QED BY <2>1, <3>1
    <2>3. Head(words) = w /\ Tail(words) = <<Reserve>>
        BY <2>1, Two
    <2> QED BY <2>2, <2>3 DEF RestOfPost
<1>3. CASE words = <<Tok("affinity", "1"), Tok("value", ""), Reserve>>
    <2>1. Head(words) = Tok("affinity", "1") /\ Tail(words) = <<Tok("value", ""), Reserve>>
        BY <1>3, Three
    <2>2. Tok("affinity", "1").t # "reserve"
        BY DEF Tok
    <2> QED BY <2>1, <2>2 DEF RestOfPost
<1> QED BY <1>1, <1>2, <1>3 DEF RestOfPost, PostWords, Reserve

LEMMA NothingAround ==
    ASSUME NEW a
    PROVE  <<>> \o <<a>> = <<a>> /\ <<a>> \o <<>> = <<a>>
<1>1. <<>> \o <<a>> = <<a>>
    OBVIOUS
<1>2. <<a>> \o <<>> = <<a>>
    OBVIOUS
<1> QED BY <1>1, <1>2

LEMMA NothingBefore ==
    ASSUME NEW a
    PROVE  <<>> \o <<>> \o <<a>> = <<a>>
<1>1. <<>> \o <<>> = <<>>
    OBVIOUS
<1> QED BY <1>1, NothingAround

LEMMA AppendOne ==
    ASSUME NEW a, NEW b
    PROVE  Append(<<>>, b) = <<b>> /\ Append(<<a>>, b) = <<a, b>>
<1>1. Append(<<>>, b) = <<b>>
    OBVIOUS
<1>2. Append(<<a>>, b) = <<a, b>>
    <2> DEFINE S == {a, b}
               s == Append(<<a>>, b)
               t == <<a, b>>
    <2>1. s \in Seq(S) /\ Len(s) = 2 /\ s[1] = a /\ s[2] = b
        OBVIOUS
    <2>2. t \in Seq(S) /\ Len(t) = 2 /\ t[1] = a /\ t[2] = b
        OBVIOUS
    <2> HIDE DEF s, t, S
    <2>3. \A i \in 1..Len(s) : s[i] = t[i]
        BY <2>1, <2>2
    <2>4. s = t
        BY <2>1, <2>2, <2>3, SeqEqual
    <2> QED BY <2>4 DEF s, t
<1> QED BY <1>1, <1>2

-----------------------------------------------------------------------------
LEMMA InitIInv == Init => IInv
<1> SUFFICES ASSUME Init PROVE IInv
    OBVIOUS
<1>1. PICK v \in GuestVersions, f \in SUBSET Features : guest = Party(v, f, "start")
    BY DEF Init
<1>2. PICK w \in HostVersions, g \in SUBSET Features : host = Party(w, g, "absent")
    BY DEF Init
<1>3. v \in Nat /\ w \in 0..(TwoBytes - 1)
    BY VersionsAssumption
<1>4. Shape
    BY <1>1, <1>2, <1>3
    DEF Init, Shape, TypeOK, Places, GuestPlaces, HostPlaces, IsParty, Party, DownPlaces,
        CopyPlaces, LatePlaces
<1>5. GuestUnder /\ HostUnder
    BY <1>1, <1>2
    DEF Init, GuestUnder, HostUnder, Party, DownPlaces, CopyPlaces, UpPlaces, LatePlaces
<1> QED BY <1>1, <1>2, <1>4, <1>5 DEF Init, IInv, Buffers, Speakers, Party

-----------------------------------------------------------------------------
(* The guest.                                                              *)

\* A step of the guest is the guest's leg's business alone.
LEMMA GuestLeg ==
    ASSUME IInv, GuestStep, GuestUnder', IsParty(guest'), guest'.ver = guest.ver,
           guest'.at \in {"hello", "features", "info", "greeting", "ready"},
           guest.at # "start" => guest'.said = guest.said
    PROVE  IInv'
<1>1. UNCHANGED <<pc, version, features, hw, gw, p2h, h2p, host, health>>
    BY DEF GuestStep
<1>2. Shape'
    BY <1>1 DEF IInv, Shape, TypeOK, IsParty
<1>3. HostUnder'
    BY <1>1 DEF IInv, HostUnder, Agreed, HostVersion
<1>4. Buffers' /\ Speakers'
    BY <1>1 DEF IInv, Buffers, Speakers
<1> QED BY <1>2, <1>3, <1>4 DEF IInv

LEMMA GuestOpensIInv ==
    ASSUME IInv, GuestStep, GuestOpens
    PROVE  IInv'
<1>1. PICK magic \in {"good", "bad"} :
         /\ g2p' = g2p \o <<Tok("magic", magic), Tok("version", guest.ver)>>
         /\ guest' = [guest EXCEPT !.at = "hello", !.said = magic]
    BY DEF GuestOpens, GuestSays
<1>2. guest.at = "start" /\ p2g' = p2g /\ UNCHANGED <<pc, version, features>>
    BY DEF GuestOpens, GuestStep
<1>3. IsParty(guest)
    BY DEF IInv, Shape
<1>4. /\ IsParty(guest') /\ guest'.ver = guest.ver /\ guest'.at = "hello" /\ guest'.said = magic
      /\ guest'.useFeats = guest.useFeats
    BY <1>1, <1>3 DEF IsParty
<1>5. pc \in {"magic", "closed"}
    BY <1>2 DEF IInv, Shape, TypeOK, Places, GuestPlaces, HostPlaces, GuestUnder, UpPlaces,
                CopyPlaces, LatePlaces, Speakers
<1>6. pc = "magic" => g2p' = <<Tok("magic", guest'.said), GuestVersion'>> /\ p2g' = <<>>
    BY <1>1, <1>2, <1>4 DEF IInv, GuestUnder, GuestVersion
<1>7. GuestUnder'
    BY <1>2, <1>4, <1>5, <1>6 DEF IInv, GuestUnder, UpPlaces, CopyPlaces, LatePlaces
<1> QED BY <1>2, <1>4, <1>7, GuestLeg

LEMMA GuestReadsHelloIInv ==
    ASSUME IInv, GuestStep, GuestReadsHello
    PROVE  IInv'
<1> DEFINE use == Lower(guest.ver, Head(p2g).v)
<1>1. /\ guest.at = "hello" /\ p2g # <<>> /\ Head(p2g).t = "hello" /\ p2g' = Tail(p2g)
      /\ UNCHANGED <<pc, version, features>>
    BY DEF GuestReadsHello, GuestReads, GuestStep
<1>2. \/ /\ use >= FeatureExchange
         /\ guest' = [guest EXCEPT !.at = "features", !.useVer = use]
         /\ g2p' = g2p \o <<Tok("features", guest.feats)>>
      \/ /\ ~(use >= FeatureExchange)
         /\ guest' = [guest EXCEPT !.at = "info", !.useVer = use]
         /\ \E post \in PostWords : g2p' = g2p \o post
    BY DEF GuestReadsHello, GuestSays
<1>3. IsParty(guest)
    BY DEF IInv, Shape
<1>4. /\ IsParty(guest') /\ guest'.ver = guest.ver /\ guest'.at \in {"features", "info"}
      /\ guest'.said = guest.said /\ guest'.useVer = use /\ guest'.useFeats = guest.useFeats
      /\ guest'.feats = guest.feats
    BY <1>2, <1>3 DEF IsParty
<1>5. pc \in {"down version", "down features", "affinity", "closed"}
    BY <1>1 DEF IInv, Shape, TypeOK, Places, GuestPlaces, HostPlaces, GuestUnder, UpPlaces,
                CopyPlaces, LatePlaces
<1>6. ASSUME pc # "closed"
      PROVE  /\ p2g' = <<>> /\ guest.useFeats = {} /\ use = Lower(guest.ver, version)
             /\ g2p = IF pc = "down version" THEN <<GuestVersion>> ELSE <<>>
    <2>0. g2p = IF pc = "down version" THEN <<GuestVersion>> ELSE <<>>
        BY <1>1, <1>5, <1>6 DEF IInv, GuestUnder, CopyPlaces
    <2>1. p2g = <<Hello>>
        BY <1>1, <1>5, <1>6 DEF IInv, GuestUnder, CopyPlaces
    <2>2. Head(p2g) = Hello /\ Tail(p2g) = <<>>
        BY <2>1, One
    <2>4. Head(p2g).v = version
        BY <2>2 DEF Hello, Tok
    <2>3. guest.useFeats = {}
        BY <1>1, <1>6 DEF IInv, GuestUnder
    <2> QED BY <1>1, <2>0, <2>2, <2>3, <2>4
<1>7. version \in Nat /\ guest.ver \in Nat /\ FeatureExchange = 294
    BY VersionsNat, VersionWords DEF IInv
<1>8. GuestUnder'
    <2>1. CASE pc = "down version" /\ use >= FeatureExchange
        <3>1. g2p' = <<GuestVersion, Tok("features", guest.feats)>> /\ guest'.at = "features"
            BY <1>2, <1>3, <1>6, <2>1, OneAndOne DEF IsParty
        <3> QED BY <1>1, <1>4, <1>6, <2>1, <3>1
                DEF GuestUnder, GuestVersion, Hello, UpPlaces, CopyPlaces, LatePlaces
    <2>2. CASE pc = "down version" /\ ~(use >= FeatureExchange)
        <3>1. PICK post \in PostWords : g2p' = <<GuestVersion>> \o post
            BY <1>2, <1>6, <2>2
        <3>2. guest'.at = "info" /\ use < FeatureExchange
            <4>1. use \in Nat
                BY <1>6, <1>7, <2>2 DEF Lower
            <4>2. guest'.at = "info"
                BY <1>2, <1>3, <2>2 DEF IsParty
            <4>3. ~(use >= FeatureExchange)
                BY <2>2
            <4> HIDE DEF use
            <4>4. use < FeatureExchange
                BY <1>7, <4>1, <4>3
            <4> QED BY <4>2, <4>4
        <3> QED BY <1>1, <1>4, <1>6, <2>2, <3>1, <3>2
                DEF GuestUnder, GuestVersion, Hello, UpPlaces, CopyPlaces, LatePlaces
    <2>3. CASE pc = "down features"
        <3>1. version >= FeatureExchange /\ guest.ver >= version
            BY <2>3 DEF IInv, GuestUnder
        <3>2. use = version /\ use >= FeatureExchange
            <4>1. use = Lower(guest.ver, version)
                BY <1>6, <2>3
            <4> HIDE DEF use
            <4> QED BY <1>7, <3>1, <4>1 DEF Lower
        <3>3. g2p' = <<Tok("features", guest.feats)>> /\ guest'.at = "features"
            <4> HIDE DEF use
            <4>1. g2p' = g2p \o <<Tok("features", guest.feats)>> /\ g2p = <<>>
                BY <1>2, <1>6, <2>3, <3>2
            <4>2. guest'.at = "features"
                BY <1>2, <1>3, <3>2 DEF IsParty
            <4> QED BY <4>1, <4>2
        <3> QED BY <1>1, <1>4, <1>6, <2>3, <3>1, <3>2, <3>3
                DEF GuestUnder, Hello, UpPlaces, CopyPlaces, LatePlaces
    <2>4. CASE pc = "affinity"
        <3>1. version < FeatureExchange /\ features = {} /\ guest.ver >= version
            BY <1>1, <2>4 DEF IInv, GuestUnder, CopyPlaces
        <3>2. use = version /\ ~(use >= FeatureExchange)
            <4>1. use = Lower(guest.ver, version)
                BY <1>6, <2>4
            <4> HIDE DEF use
            <4> QED BY <1>7, <3>1, <4>1 DEF Lower
        <3>3. PICK post \in PostWords : g2p' = <<>> \o post
            BY <1>2, <1>6, <2>4, <3>2
        <3>4. g2p' \in PostWords
            BY <3>3, NothingAndPost
        <3>5. guest'.at = "info"
            BY <1>2, <1>3, <3>2 DEF IsParty
        <3> QED BY <1>1, <1>4, <1>6, <2>4, <3>1, <3>2, <3>4, <3>5
                DEF GuestUnder, Agreed, UpPlaces, CopyPlaces, LatePlaces
    <2>5. CASE pc = "closed"
        BY <1>1, <2>5 DEF GuestUnder, UpPlaces, CopyPlaces, LatePlaces
    <2> QED BY <1>5, <2>1, <2>2, <2>3, <2>4, <2>5
<1> QED BY <1>4, <1>8, GuestLeg

LEMMA GuestReadsFeaturesIInv ==
    ASSUME IInv, GuestStep, GuestReadsFeatures
    PROVE  IInv'
<1>1. /\ guest.at = "features" /\ p2g # <<>> /\ Head(p2g).t = "features" /\ p2g' = Tail(p2g)
      /\ guest' = [guest EXCEPT !.at = "info", !.useFeats = guest.feats \intersect Head(p2g).v]
      /\ UNCHANGED <<pc, version, features>>
    BY DEF GuestReadsFeatures, GuestReads, GuestStep
<1>2. PICK post \in PostWords : g2p' = g2p \o post
    BY DEF GuestReadsFeatures, GuestSays
<1>3. /\ IsParty(guest') /\ guest'.ver = guest.ver /\ guest'.at = "info"
      /\ guest'.said = guest.said /\ guest'.useVer = guest.useVer
      /\ guest'.useFeats = guest.feats \intersect Head(p2g).v
    BY <1>1 DEF IInv, Shape, IsParty
<1>4. pc \in {"affinity", "closed"}
    BY <1>1 DEF IInv, Shape, TypeOK, Places, GuestPlaces, HostPlaces, GuestUnder, UpPlaces,
                CopyPlaces, LatePlaces
<1>5. CASE pc = "affinity"
    <2>1. /\ guest.useVer = version /\ features \subseteq guest.feats
          /\ g2p = <<>> /\ p2g = <<Tok("features", features)>> /\ guest.ver >= version
        BY <1>1, <1>5 DEF IInv, GuestUnder, CopyPlaces
    <2>2. Head(p2g).v = features /\ p2g' = <<>>
        BY <1>1, <2>1 DEF Tok
    <2>3. guest'.useFeats = features
        BY <1>3, <2>1, <2>2
    <2>4. g2p' \in PostWords
        BY <1>2, <2>1, NothingAndPost
    <2>5. GuestUnder'
        BY <1>1, <1>3, <1>5, <2>1, <2>2, <2>3, <2>4
        DEF GuestUnder, Agreed, UpPlaces, CopyPlaces, LatePlaces
    <2> QED BY <1>3, <2>5, GuestLeg
<1>6. CASE pc = "closed"
    <2>1. GuestUnder'
        BY <1>1, <1>6 DEF GuestUnder, UpPlaces, CopyPlaces, LatePlaces
    <2> QED BY <1>3, <2>1, GuestLeg
<1> QED BY <1>4, <1>5, <1>6

LEMMA GuestReadsRestIInv ==
    ASSUME IInv, GuestStep, GuestReadsRest
    PROVE  IInv'
<1>1. /\ guest.at \in {"info", "greeting"} /\ g2p' = g2p /\ p2g # <<>>
      /\ Head(p2g).t \in {"info", "log", "last", "error"}
      /\ guest' \in {guest, [guest EXCEPT !.at = "greeting"], [guest EXCEPT !.at = "ready"]}
      /\ UNCHANGED <<pc, version, features>>
    BY DEF GuestReadsRest, GuestReads, GuestStep
<1>2. /\ IsParty(guest') /\ guest'.ver = guest.ver /\ guest'.at \in {"info", "greeting", "ready"}
      /\ guest'.said = guest.said /\ guest'.useVer = guest.useVer
      /\ guest'.useFeats = guest.useFeats
    BY <1>1 DEF IInv, Shape, IsParty
<1>3. pc \in LatePlaces \union {"closed"}
    BY <1>1 DEF IInv, Shape, TypeOK, Places, GuestPlaces, HostPlaces, GuestUnder, UpPlaces,
                CopyPlaces, LatePlaces
<1>4. GuestUnder'
    BY <1>1, <1>2, <1>3
    DEF IInv, GuestUnder, Agreed, UpPlaces, CopyPlaces, LatePlaces
<1> QED BY <1>2, <1>4, GuestLeg

LEMMA GuestStepIInv ==
    ASSUME IInv, GuestStep
    PROVE  IInv'
BY GuestOpensIInv, GuestReadsHelloIInv, GuestReadsFeaturesIInv, GuestReadsRestIInv DEF GuestStep

LEMMA GuestFailsIInv ==
    ASSUME IInv, GuestFails
    PROVE  IInv'
<1>1. UNCHANGED <<pc, version, features, hw, gw, g2p, p2g, p2h, h2p, guest, host>>
    BY DEF GuestFails, chans
<1>2. health' \in {"talks", "stalls", "gone"}
    BY DEF GuestFails
<1>3. Shape'
    BY <1>1, <1>2 DEF IInv, Shape, TypeOK, IsParty
<1>4. GuestUnder'
    BY <1>1 DEF IInv, GuestUnder, Agreed, GuestVersion, Hello
<1>5. HostUnder'
    BY <1>1 DEF IInv, HostUnder, Agreed, HostVersion
<1>6. Buffers' /\ Speakers'
    BY <1>1 DEF IInv, Buffers, Speakers
<1> QED BY <1>3, <1>4, <1>5, <1>6 DEF IInv

-----------------------------------------------------------------------------
(* The daemon.                                                             *)

\* A step of the daemon is the daemon's leg's business alone.
LEMMA HostLeg ==
    ASSUME IInv, UNCHANGED <<pc, version, features, hw, gw, g2p, p2g, guest, health>>,
           host.at # "absent", HostUnder', IsParty(host'), host'.ver = host.ver,
           host'.at \in {"hello", "features", "post", "ops", "dead"}
    PROVE  IInv'
<1>1. Shape'
    BY DEF IInv, Shape, TypeOK, IsParty
<1>2. GuestUnder'
    BY DEF IInv, GuestUnder, Agreed, GuestVersion, Hello
<1>3. Buffers' /\ Speakers'
    BY DEF IInv, Buffers, Speakers
<1> QED BY <1>1, <1>2, <1>3 DEF IInv

LEMMA HostAnswersHelloIInv ==
    ASSUME IInv, HostStep, HostAnswersHello
    PROVE  IInv'
<1> DEFINE use == Lower(host.ver, Head(p2h).v)
           at == IF use >= FeatureExchange THEN "features" ELSE "post"
<1>1. /\ host.at = "hello" /\ p2h # <<>> /\ Head(p2h).t = "hello" /\ p2h' = Tail(p2h)
      /\ host' = [host EXCEPT !.useVer = use, !.at = at]
      /\ UNCHANGED <<pc, version, features, hw, gw, g2p, p2g, guest, health>>
    BY DEF HostAnswersHello, HostReads, HostStep
<1>2. PICK magic \in {"good", "bad"} :
         h2p' = h2p \o <<Tok("magic", magic), Tok("version", host.ver)>>
    BY DEF HostAnswersHello
<1>3. /\ IsParty(host') /\ host'.ver = host.ver /\ host'.at = at /\ host'.useVer = use
      /\ host'.useFeats = host.useFeats
    <2>1. IsParty(host)
        BY DEF IInv, Shape
    <2> HIDE DEF use, at
    <2> QED BY <1>1, <2>1 DEF IsParty
<1>4. pc \in {"up magic", "closed"}
    BY <1>1 DEF IInv, Shape, TypeOK, Places, GuestPlaces, HostPlaces, HostUnder, DownPlaces,
                CopyPlaces, LatePlaces
<1>5. CASE pc = "up magic"
    <2>1. p2h = <<Tok("hello", OurVersion)>> /\ h2p = <<>> /\ host.useFeats = {}
        BY <1>1, <1>5 DEF IInv, HostUnder
    <2>2. Head(p2h).v = OurVersion /\ p2h' = <<>>
        BY <1>1, <2>1 DEF Tok
    <2>3. h2p' = <<Tok("magic", magic), HostVersion'>>
        BY <1>2, <1>3, <2>1 DEF HostVersion
    <2>4. host'.useVer = Lower(host'.ver, OurVersion)
        BY <1>3, <2>2
    <2>5. host'.at = IF host'.useVer >= FeatureExchange THEN "features" ELSE "post"
        BY <1>3
    <2>6. HostUnder'
        <3> HIDE DEF use, at
        <3> QED BY <1>1, <1>3, <1>5, <2>1, <2>2, <2>3, <2>4, <2>5
                DEF HostUnder, DownPlaces, CopyPlaces, LatePlaces
    <2> QED BY <1>1, <1>3, <2>6, HostLeg
<1>6. CASE pc = "closed"
    <2>1. HostUnder'
        BY <1>1, <1>6 DEF HostUnder, DownPlaces, CopyPlaces, LatePlaces
    <2> QED BY <1>1, <1>3, <2>1, HostLeg
<1> QED BY <1>4, <1>5, <1>6

LEMMA HostAnswersFeaturesIInv ==
    ASSUME IInv, HostStep, HostAnswersFeatures
    PROVE  IInv'
<1>1. /\ host.at = "features" /\ p2h # <<>> /\ Head(p2h).t = "features" /\ p2h' = Tail(p2h)
      /\ h2p' = Append(h2p, Tok("features", host.feats))
      /\ host' = [host EXCEPT !.at = "post", !.useFeats = host.feats \intersect Head(p2h).v]
      /\ UNCHANGED <<pc, version, features, hw, gw, g2p, p2g, guest, health>>
    BY DEF HostAnswersFeatures, HostReads, HostStep
<1>2. /\ IsParty(host') /\ host'.ver = host.ver /\ host'.at = "post"
      /\ host'.useVer = host.useVer /\ host'.feats = host.feats
      /\ host'.useFeats = host.feats \intersect Head(p2h).v
    BY <1>1 DEF IInv, Shape, IsParty
<1>3. pc \in {"up features", "closed"}
    <2>1. pc \in {"up magic", "up version"} => Head(p2h).t # "features"
        BY <1>1 DEF IInv, HostUnder, Tok
    <2>2. ASSUME pc \in {"up magic", "up version"} PROVE p2h = <<>> \/ p2h = <<Tok("hello", OurVersion)>>
        BY <2>2 DEF IInv, HostUnder
    <2>3. pc \notin {"up magic", "up version"}
        <3>1. SUFFICES ASSUME pc \in {"up magic", "up version"} PROVE FALSE
            OBVIOUS
        <3>2. p2h = <<Tok("hello", OurVersion)>>
            BY <1>1, <2>2, <3>1
        <3>3. Head(p2h).t = "hello"
            BY <3>2, One DEF Tok
        <3> QED BY <1>1, <3>3
    <2> QED BY <1>1, <2>3 DEF IInv, Shape, TypeOK, Places, GuestPlaces, HostPlaces, HostUnder,
                              DownPlaces, CopyPlaces, LatePlaces
<1>4. CASE pc = "up features"
    <2>1. /\ host.useVer = version /\ version >= FeatureExchange
          /\ p2h = <<Tok("features", OurFeatures)>> /\ h2p = <<>>
        BY <1>1, <1>4 DEF IInv, HostUnder
    <2>2. Head(p2h).v = OurFeatures /\ p2h' = <<>>
        BY <1>1, <2>1 DEF Tok
    <2>3. h2p' = <<Tok("features", host'.feats)>>
        BY <1>1, <1>2, <2>1
    <2>4. HostUnder'
        BY <1>1, <1>2, <1>4, <2>1, <2>2, <2>3 DEF HostUnder, DownPlaces, CopyPlaces, LatePlaces
    <2> QED BY <1>1, <1>2, <2>4, HostLeg
<1>5. CASE pc = "closed"
    <2>1. HostUnder'
        BY <1>1, <1>5 DEF HostUnder, DownPlaces, CopyPlaces, LatePlaces
    <2> QED BY <1>1, <1>2, <2>1, HostLeg
<1> QED BY <1>3, <1>4, <1>5

\* A daemon that has the version and, where there are any, the features.
LEMMA HostAtPost ==
    ASSUME IInv, host.at = "post", p2h # <<>>
    PROVE  pc \in {"info", "closed"} /\ (pc = "info" => p2h \in RestOfPost /\ h2p = <<>>)
<1>1. pc \notin {"up magic", "up version", "up features"}
    <2>1. pc \in {"up magic", "up version"} => p2h = <<>>
        BY DEF IInv, HostUnder
    <2>2. pc = "up features" => p2h = <<>>
        BY DEF IInv, HostUnder
    <2> QED BY <2>1, <2>2
<1> QED BY <1>1 DEF IInv, Shape, TypeOK, Places, GuestPlaces, HostPlaces, HostUnder, DownPlaces,
                    CopyPlaces, LatePlaces

LEMMA HostReadsPostIInv ==
    ASSUME IInv, HostStep, HostReadsPost
    PROVE  IInv'
<1>1. /\ host.at = "post" /\ p2h # <<>> /\ Head(p2h).t \in {"affinity", "value"}
      /\ p2h' = Tail(p2h)
      /\ UNCHANGED <<pc, version, features, hw, gw, g2p, p2g, guest, health, h2p, host>>
    BY DEF HostReadsPost, HostReads, HostStep
<1>2. IsParty(host)
    BY DEF IInv, Shape
<1>3. CASE pc = "info"
    <2>1. p2h \in RestOfPost
        BY <1>1, <1>3, HostAtPost
    <2>2. p2h' \in RestOfPost
        BY <1>1, <2>1, AfterPostWord
    <2>3. HostUnder'
        BY <1>1, <1>3, <2>2 DEF IInv, HostUnder, Agreed, DownPlaces, CopyPlaces, LatePlaces
    <2> QED BY <1>1, <1>2, <2>3, HostLeg
<1>4. CASE pc = "closed"
    <2>1. HostUnder'
        BY <1>1, <1>4 DEF HostUnder, DownPlaces, CopyPlaces, LatePlaces
    <2> QED BY <1>1, <1>2, <2>1, HostLeg
<1> QED BY <1>1, <1>3, <1>4, HostAtPost

LEMMA HostGreetsIInv ==
    ASSUME IInv, HostStep, HostGreets
    PROVE  IInv'
<1>1. /\ host.at = "post" /\ p2h # <<>> /\ Head(p2h).t = "reserve" /\ p2h' = Tail(p2h)
      /\ host' = [host EXCEPT !.at = "ops"]
      /\ UNCHANGED <<pc, version, features, hw, gw, g2p, p2g, guest, health>>
    BY DEF HostGreets, HostReads, HostStep
<1>2. PICK end \in {"last", "error", "stream"}, logs \in {<<>>, <<Tok("log", "")>>} :
         h2p' = h2p \o <<Tok("info", "")>> \o logs \o <<Tok(end, "")>>
    BY DEF HostGreets
<1>3. /\ IsParty(host') /\ host'.ver = host.ver /\ host'.at = "ops"
      /\ host'.useVer = host.useVer /\ host'.useFeats = host.useFeats
    BY <1>1 DEF IInv, Shape, IsParty
<1>4. CASE pc = "info"
    <2>1. p2h \in RestOfPost /\ h2p = <<>>
        BY <1>1, <1>4, HostAtPost
    <2>2. p2h' = <<>>
        BY <1>1, <2>1, AfterPostWord
    <2>3. \E rest \in Greetings : h2p' = <<Info>> \o rest
        <3> DEFINE e == Tok(end, "")
        <3>1. e \in Ends
            BY DEF Ends
        <3>2. CASE logs = <<>>
            <4>1. h2p' = <<Info>> \o <<e>>
                BY <1>2, <2>1, <3>2, NothingAround DEF Info
            <4> QED BY <3>1, <4>1 DEF Greetings
        <3>3. CASE logs = <<Tok("log", "")>>
            <4>1. h2p' = <<Info, Tok("log", "")>> \o <<e>>
                BY <1>2, <2>1, <3>3, NothingAround, OneAndOne DEF Info
            <4>2. h2p' = <<Info>> \o <<Tok("log", ""), e>>
                <5> HIDE DEF e
                <5>1. <<Info, Tok("log", "")>> \o <<e>> = <<Info, Tok("log", ""), e>>
                    BY TwoAndOne
                <5>2. <<Info>> \o <<Tok("log", ""), e>> = <<Info, Tok("log", ""), e>>
                    BY OneAndTwo
                <5> QED BY <4>1, <5>1, <5>2
            <4> QED BY <3>1, <4>2 DEF Greetings
        <3> QED BY <3>2, <3>3
    <2>4. HostUnder'
        BY <1>1, <1>3, <1>4, <2>2, <2>3
        DEF IInv, HostUnder, Agreed, DownPlaces, CopyPlaces, LatePlaces
    <2> QED BY <1>1, <1>3, <2>4, HostLeg
<1>5. CASE pc = "closed"
    <2>1. HostUnder'
        BY <1>1, <1>5 DEF HostUnder, DownPlaces, CopyPlaces, LatePlaces
    <2> QED BY <1>1, <1>3, <2>1, HostLeg
<1> QED BY <1>1, <1>4, <1>5, HostAtPost

LEMMA HostStepIInv ==
    ASSUME IInv, HostStep
    PROVE  IInv'
BY HostAnswersHelloIInv, HostAnswersFeaturesIInv, HostReadsPostIInv, HostGreetsIInv DEF HostStep

LEMMA HostDiesIInv ==
    ASSUME IInv, HostDies
    PROVE  IInv'
<1>1. /\ host.at \notin {"absent", "dead"} /\ host' = [host EXCEPT !.at = "dead"]
      /\ UNCHANGED <<pc, version, features, hw, gw, g2p, p2g, p2h, h2p, guest, health>>
    BY DEF HostDies, chans
<1>2. /\ IsParty(host') /\ host'.ver = host.ver /\ host'.at = "dead"
      /\ host'.useVer = host.useVer /\ host'.feats = host.feats
      /\ host'.useFeats = host.useFeats
    BY <1>1 DEF IInv, Shape, IsParty
<1>3. HostUnder'
    BY <1>1, <1>2 DEF IInv, HostUnder, Agreed, HostVersion, DownPlaces, CopyPlaces, LatePlaces
<1> QED BY <1>1, <1>2, <1>3, HostLeg

-----------------------------------------------------------------------------
(* The session.                                                            *)

LEMMA ClosedIInv ==
    ASSUME IInv, pc' = "closed", UNCHANGED <<version, features, guest, host, health>>,
           hw' = <<>>, gw' = <<>>
    PROVE  IInv'
<1>1. Shape'
    BY DEF IInv, Shape, TypeOK, IsParty, Places, DownPlaces, CopyPlaces, LatePlaces
<1>2. GuestUnder' /\ HostUnder'
    BY DEF GuestUnder, HostUnder, UpPlaces, DownPlaces, CopyPlaces, LatePlaces
<1>3. Buffers' /\ Speakers'
    BY DEF IInv, Buffers, Speakers
<1> QED BY <1>1, <1>2, <1>3 DEF IInv

\* A step of the session that neither fixes a version nor dials.
LEMMA Onward ==
    ASSUME IInv, UNCHANGED <<version, features, guest, host, health>>, pc' \in Places,
           pc' \in {"magic", "dial", "up magic", "up version"} =>
                pc \in {"magic", "dial", "up magic", "up version"},
           pc' \in DownPlaces \union LatePlaces => pc \in DownPlaces \union LatePlaces,
           pc' = "dial" => guest.said = "good" /\ guest.at # "start",
           GuestUnder', HostUnder', Buffers'
    PROVE  IInv'
<1>1. Shape'
    <2>1. Shape
        BY DEF IInv
    <2>2. TypeOK'
        BY <2>1 DEF Shape, TypeOK
    <2>3. IsParty(guest)' /\ IsParty(host)'
        BY <2>1 DEF Shape, IsParty
    <2> QED BY <2>1, <2>2, <2>3 DEF Shape
<1>2. Speakers'
    BY DEF IInv, Speakers
<1> QED BY <1>1, <1>2 DEF IInv

LEMMA GuestMagicIInv ==
    ASSUME IInv, GuestMagic
    PROVE  IInv'
<1>1. /\ pc = "magic" /\ g2p # <<>> /\ g2p' = Tail(g2p)
      /\ UNCHANGED <<h2p, guest, host, health>>
    BY DEF GuestMagic, Reads
<1>2. \/ /\ Head(g2p).v = "good" /\ pc' = "dial"
         /\ UNCHANGED <<version, features, hw, gw, p2g, p2h>>
      \/ Close
    BY DEF GuestMagic
<1>3. /\ guest.at = "hello" /\ g2p = <<Tok("magic", guest.said), GuestVersion>> /\ p2g = <<>>
      /\ guest.useFeats = {} /\ host.at = "absent" /\ host.useFeats = {}
      /\ p2h = <<>> /\ h2p = <<>> /\ hw = <<>> /\ gw = <<>>
    BY <1>1 DEF IInv, GuestUnder, HostUnder, Buffers
<1>4. Head(g2p) = Tok("magic", guest.said) /\ g2p' = <<GuestVersion>>
    BY <1>1, <1>3, Two
<1>5. Head(g2p).v = guest.said
    BY <1>4 DEF Tok
<1>6. CASE /\ Head(g2p).v = "good" /\ pc' = "dial"
           /\ UNCHANGED <<version, features, hw, gw, p2g, p2h>>
    <2>1. GuestUnder'
        BY <1>1, <1>3, <1>4, <1>6 DEF GuestUnder, GuestVersion, UpPlaces, CopyPlaces, LatePlaces
    <2>2. HostUnder' /\ Buffers'
        BY <1>1, <1>3, <1>6 DEF HostUnder, Buffers, DownPlaces, CopyPlaces, LatePlaces
    <2>3. /\ UNCHANGED <<version, features, guest, host, health>>
          /\ pc' = "dial" /\ guest.said = "good" /\ guest.at # "start"
        BY <1>1, <1>3, <1>5, <1>6
    <2> QED BY <1>1, <2>1, <2>2, <2>3, Onward DEF Places, DownPlaces, CopyPlaces, LatePlaces
<1>7. CASE Close
    BY <1>1, <1>7, ClosedIInv DEF Close
<1> QED BY <1>2, <1>6, <1>7

LEMMA DialIInv ==
    ASSUME IInv, Dial
    PROVE  IInv'
<1>1. pc = "dial" /\ UNCHANGED <<g2p, h2p, guest, health>>
    BY DEF Dial
<1>2. \/ /\ pc' = "up magic" /\ host' = [host EXCEPT !.at = "hello"]
         /\ p2h' = p2h \o hw \o <<Tok("hello", OurVersion)>> /\ hw' = <<>>
         /\ UNCHANGED <<version, features, gw, p2g>>
      \/ Close /\ UNCHANGED host
    BY DEF Dial, ToHost
<1>3. CASE /\ pc' = "up magic" /\ host' = [host EXCEPT !.at = "hello"]
           /\ p2h' = p2h \o hw \o <<Tok("hello", OurVersion)>> /\ hw' = <<>>
           /\ UNCHANGED <<version, features, gw, p2g>>
    <2>1. /\ IsParty(host') /\ host'.ver = host.ver /\ host'.at = "hello"
          /\ host'.useFeats = host.useFeats
        BY <1>3 DEF IInv, Shape, IsParty
    <2>2. p2h = <<>> /\ hw = <<>> /\ h2p = <<>> /\ gw = <<>> /\ host.useFeats = {}
        BY <1>1 DEF IInv, HostUnder, Buffers
    <2>3. p2h' = <<Tok("hello", OurVersion)>>
        BY <1>3, <2>2, NothingBefore
    <2>4. Shape'
        BY <1>1, <1>3, <2>1
        DEF IInv, Shape, TypeOK, IsParty, Places, HostPlaces, DownPlaces, CopyPlaces, LatePlaces
    <2>5. GuestUnder'
        BY <1>1, <1>3 DEF IInv, GuestUnder, GuestVersion, UpPlaces, CopyPlaces, LatePlaces
    <2>6. HostUnder' /\ Buffers'
        BY <1>1, <1>3, <2>1, <2>2, <2>3
        DEF HostUnder, Buffers, DownPlaces, CopyPlaces, LatePlaces
    <2>7. Speakers'
        BY <1>1, <1>3 DEF IInv, Speakers
    <2> QED BY <2>4, <2>5, <2>6, <2>7 DEF IInv
<1>4. CASE Close /\ UNCHANGED host
    BY <1>1, <1>4, ClosedIInv DEF Close
<1> QED BY <1>2, <1>3, <1>4

LEMMA UpMagicIInv ==
    ASSUME IInv, UpMagic
    PROVE  IInv'
<1>1. /\ pc = "up magic" /\ h2p # <<>> /\ h2p' = Tail(h2p)
      /\ UNCHANGED <<g2p, guest, host, health>>
    BY DEF UpMagic, ReadsUp
<1>2. \/ pc' = "up version" /\ UNCHANGED <<version, features, hw, gw, p2g, p2h>>
      \/ Close
    BY DEF UpMagic
<1>3. CASE pc' = "up version" /\ UNCHANGED <<version, features, hw, gw, p2g, p2h>>
    <2>1. PICK magic \in {"good", "bad"} : h2p = <<Tok("magic", magic), HostVersion>>
        BY <1>1 DEF IInv, HostUnder
    <2>2. h2p' = <<HostVersion>>
        BY <1>1, <2>1, Two
    <2>3. /\ p2h = <<>> /\ host.useVer = Lower(host.ver, OurVersion) /\ host.useFeats = {}
          /\ host.at \in {IF host.useVer >= FeatureExchange THEN "features" ELSE "post", "dead"}
        BY <1>1 DEF IInv, HostUnder
    <2>4. HostUnder'
        BY <1>1, <1>3, <2>2, <2>3 DEF HostUnder, HostVersion, DownPlaces, CopyPlaces, LatePlaces
    <2>5. GuestUnder'
        BY <1>1, <1>3 DEF IInv, GuestUnder, GuestVersion, UpPlaces, CopyPlaces, LatePlaces
    <2>6. Buffers'
        BY <1>1, <1>3 DEF IInv, Buffers
    <2> QED BY <1>1, <1>3, <2>4, <2>5, <2>6, Onward
            DEF Places, HostPlaces, DownPlaces, CopyPlaces, LatePlaces
<1>4. CASE Close
    BY <1>1, <1>4, ClosedIInv DEF Close
<1> QED BY <1>2, <1>3, <1>4

\* What FromWire keeps of a word.
LEMMA FromWireKeeps ==
    ASSUME NEW n \in Nat
    PROVE  FromWire(n) \in Nat /\ FromWire(n) <= n /\ (n < TwoBytes => FromWire(n) = n)
BY DEF FromWire, TwoBytes

LEMMA UpVersionIInv ==
    ASSUME IInv, UpVersion
    PROVE  IInv'
<1> DEFINE v == Lower(FromWire(Head(h2p).v), OurVersion)
<1>1. /\ pc = "up version" /\ h2p # <<>> /\ h2p' = Tail(h2p)
      /\ UNCHANGED <<g2p, guest, host, health>>
    BY DEF UpVersion, ReadsUp
<1>2. \/ Close
      \/ /\ v >= Floor /\ v >= FeatureExchange
         /\ pc' = "up features" /\ version' = v /\ UNCHANGED <<features, gw, p2g>>
         /\ p2h' = p2h \o hw \o <<Tok("features", OurFeatures)>> /\ hw' = <<>>
      \/ /\ v >= Floor /\ ~(v >= FeatureExchange)
         /\ pc' = "down version" /\ version' = v /\ UNCHANGED <<features, hw, p2h>>
         /\ p2g' = p2g \o gw \o <<Tok("hello", v)>> /\ gw' = <<>>
    BY DEF UpVersion, OpenDownstream, ToHost, ToGuest
<1>3. /\ h2p = <<HostVersion>> /\ p2h = <<>> /\ host.useVer = Lower(host.ver, OurVersion)
      /\ host.at \in {IF host.useVer >= FeatureExchange THEN "features" ELSE "post", "dead"}
      /\ host.useFeats = {} /\ hw = <<>> /\ gw = <<>> /\ features = {} /\ version = 0
    BY <1>1 DEF IInv, HostUnder, Buffers, Shape
<1>4. guest.at = "hello" /\ g2p = <<GuestVersion>> /\ p2g = <<>> /\ guest.useFeats = {}
    BY <1>1 DEF IInv, GuestUnder, UpPlaces
<1>5. h2p' = <<>> /\ Head(h2p) = HostVersion
    BY <1>1, <1>3, One
<1>6. Head(h2p).v = host.ver
    BY <1>5 DEF HostVersion, Tok
<1>7. host.ver \in Nat /\ FromWire(host.ver) = host.ver
    BY VersionsNat, FromWireKeeps DEF IInv
<1>8. v = host.useVer
    BY <1>3, <1>6, <1>7
<1>9. v \in Nat /\ v <= OurVersion
    BY <1>3, <1>7, <1>8, VersionWords DEF Lower
<1> HIDE DEF v
<1>10. v >= Floor => v \in Floor..OurVersion
    BY <1>9, VersionWords
<1>11. IsParty(guest) /\ IsParty(host)
    BY DEF IInv, Shape
<1>12. CASE Close
    BY <1>1, <1>12, ClosedIInv DEF Close
<1>13. CASE /\ v >= Floor /\ v >= FeatureExchange
            /\ pc' = "up features" /\ version' = v /\ UNCHANGED <<features, gw, p2g>>
            /\ p2h' = p2h \o hw \o <<Tok("features", OurFeatures)>> /\ hw' = <<>>
    <2>1. p2h' = <<Tok("features", OurFeatures)>>
        BY <1>3, <1>13, NothingBefore
    <2>2. Shape'
        BY <1>1, <1>3, <1>10, <1>13
        DEF IInv, Shape, TypeOK, IsParty, Places, HostPlaces, DownPlaces, CopyPlaces, LatePlaces
    <2>3. GuestUnder'
        BY <1>1, <1>4, <1>13 DEF GuestUnder, GuestVersion, UpPlaces, CopyPlaces, LatePlaces
    <2>4. HostUnder'
        BY <1>1, <1>3, <1>5, <1>8, <1>13, <2>1 DEF HostUnder, DownPlaces, CopyPlaces, LatePlaces
    <2>5. Buffers' /\ Speakers'
        BY <1>1, <1>3, <1>13 DEF IInv, Buffers, Speakers
    <2> QED BY <2>2, <2>3, <2>4, <2>5 DEF IInv
<1>14. CASE /\ v >= Floor /\ ~(v >= FeatureExchange)
            /\ pc' = "down version" /\ version' = v /\ UNCHANGED <<features, hw, p2h>>
            /\ p2g' = p2g \o gw \o <<Tok("hello", v)>> /\ gw' = <<>>
    <2>1. p2g' = <<Hello'>>
        BY <1>3, <1>4, <1>14, NothingBefore DEF Hello
    <2>2. Shape'
        BY <1>1, <1>3, <1>10, <1>14
        DEF IInv, Shape, TypeOK, IsParty, Places, GuestPlaces, DownPlaces, CopyPlaces, LatePlaces
    <2>3. GuestUnder'
        BY <1>1, <1>4, <1>14, <2>1 DEF GuestUnder, GuestVersion, UpPlaces, CopyPlaces, LatePlaces
    <2>4. HostUnder'
        BY <1>1, <1>3, <1>5, <1>8, <1>14
        DEF HostUnder, Agreed, DownPlaces, CopyPlaces, LatePlaces, UpPlaces
    <2>5. Buffers' /\ Speakers'
        BY <1>1, <1>3, <1>14 DEF IInv, Buffers, Speakers
    <2> QED BY <2>2, <2>3, <2>4, <2>5 DEF IInv
<1> QED BY <1>2, <1>12, <1>13, <1>14

LEMMA UpFeaturesIInv ==
    ASSUME IInv, UpFeatures
    PROVE  IInv'
<1>1. /\ pc = "up features" /\ h2p # <<>> /\ h2p' = Tail(h2p)
      /\ UNCHANGED <<g2p, guest, host, health>>
    BY DEF UpFeatures, ReadsUp
<1>2. /\ features' = OurFeatures \intersect Head(h2p).v
      /\ pc' = "down version" /\ version' = version /\ UNCHANGED <<hw, p2h>>
      /\ p2g' = p2g \o gw \o <<Tok("hello", version)>> /\ gw' = <<>>
    BY DEF UpFeatures, OpenDownstream, ToGuest
<1>3. /\ host.at \in {"post", "dead"} /\ host.useFeats = host.feats \intersect OurFeatures
      /\ p2h = <<>> /\ h2p = <<Tok("features", host.feats)>>
      /\ host.useVer = version /\ version >= FeatureExchange /\ hw = <<>> /\ gw = <<>>
    BY <1>1 DEF IInv, HostUnder, Buffers
<1>4. guest.at = "hello" /\ g2p = <<GuestVersion>> /\ p2g = <<>> /\ guest.useFeats = {}
    BY <1>1 DEF IInv, GuestUnder, UpPlaces
<1>5. h2p' = <<>> /\ Head(h2p) = Tok("features", host.feats)
    BY <1>1, <1>3, One
<1>6. features' = host.useFeats
    <2>1. Head(h2p).v = host.feats
        BY <1>5 DEF Tok
    <2> QED BY <1>2, <1>3, <2>1
<1>7. version \in Nat /\ version >= Floor /\ ~(version < FeatureExchange)
    BY <1>3, VersionsNat, VersionWords DEF IInv
<1>8. p2g' = <<Hello'>>
    BY <1>2, <1>3, <1>4, NothingBefore DEF Hello
<1>9. Shape'
    <2>1. features' \subseteq OurFeatures
        BY <1>2
    <2> QED BY <1>1, <1>2, <1>7, <2>1
            DEF IInv, Shape, TypeOK, IsParty, Places, GuestPlaces, DownPlaces, CopyPlaces,
                LatePlaces
<1>10. GuestUnder'
    BY <1>1, <1>2, <1>4, <1>8 DEF GuestUnder, GuestVersion, UpPlaces, CopyPlaces, LatePlaces
<1>11. HostUnder'
    BY <1>1, <1>2, <1>3, <1>5, <1>6
    DEF HostUnder, Agreed, UpPlaces, DownPlaces, CopyPlaces, LatePlaces
<1>12. Buffers' /\ Speakers'
    BY <1>1, <1>2, <1>3 DEF IInv, Buffers, Speakers
<1> QED BY <1>9, <1>10, <1>11, <1>12 DEF IInv

\* While the session copies the guest's words, the daemon's leg lies still.
LEMMA HostWaits ==
    ASSUME IInv, pc \in DownPlaces, pc' \in DownPlaces,
           UNCHANGED <<version, features, p2h, h2p, host>>
    PROVE  HostUnder'
<1>1. Agreed(host) /\ host.at \in {"post", "dead"} /\ p2h = <<>> /\ h2p = <<>>
    BY DEF IInv, HostUnder
<1>2. pc' \notin {"magic", "dial", "up magic", "up version", "up features", "info", "greeting",
                  "loop"}
    BY DEF DownPlaces, CopyPlaces
<1> QED BY <1>1, <1>2 DEF HostUnder, Agreed, DownPlaces, CopyPlaces

LEMMA DownVersionIInv ==
    ASSUME IInv, DownVersion
    PROVE  IInv'
<1>1. /\ pc = "down version" /\ g2p # <<>> /\ g2p' = Tail(g2p)
      /\ UNCHANGED <<h2p, guest, host, health>>
    BY DEF DownVersion, Reads
<1>2. \/ /\ FromWire(Head(g2p).v) >= version
         /\ pc' = IF version >= FeatureExchange THEN "down features" ELSE "affinity"
         /\ UNCHANGED <<version, features, hw, gw, p2g, p2h>>
      \/ Close
    BY DEF DownVersion
<1>3. CASE Close
    BY <1>1, <1>3, ClosedIInv DEF Close
<1>4. CASE /\ FromWire(Head(g2p).v) >= version
           /\ pc' = IF version >= FeatureExchange THEN "down features" ELSE "affinity"
           /\ UNCHANGED <<version, features, hw, gw, p2g, p2h>>
    <2>1. /\ version \in Nat /\ guest.ver \in Nat /\ FeatureExchange = 294
          /\ FromWire(guest.ver) \in Nat /\ FromWire(guest.ver) <= guest.ver
        BY VersionsNat, VersionWords, FromWireKeeps DEF IInv
    <2>2. Head(g2p) = GuestVersion
        <3>1. \/ g2p = <<GuestVersion>>
              \/ g2p = <<GuestVersion, Tok("features", guest.feats)>>
              \/ \E post \in PostWords : g2p = <<GuestVersion>> \o post
            BY <1>1 DEF IInv, GuestUnder
        <3>2. CASE g2p = <<GuestVersion>>
            BY <3>2, One
        <3>3. CASE g2p = <<GuestVersion, Tok("features", guest.feats)>>
            BY <3>3, Two
        <3>4. CASE \E post \in PostWords : g2p = <<GuestVersion>> \o post
            BY <3>4, AfterVersion
        <3> QED BY <3>1, <3>2, <3>3, <3>4
    <2>3. Head(g2p).v = guest.ver
        BY <2>2 DEF GuestVersion, Tok
    <2>4. guest.ver >= version
        <3>1. FromWire(guest.ver) >= version
            BY <1>4, <2>3
        <3> QED BY <2>1, <3>1
    <2>5. version < FeatureExchange => features = {}
        BY DEF IInv, Shape
    <2>6. Lower(guest.ver, version) = version
        BY <2>1, <2>4 DEF Lower
    <2>7. pc' \in {"down features", "affinity"}
        BY <1>4
    <2>8. (pc' = "down features") <=> version >= 294
        BY <1>4, <2>1
    <2>9. GuestUnder'
        <3>1. CASE guest.at = "hello" /\ g2p = <<GuestVersion>> /\ p2g = <<Hello>>
            <4>1. g2p' = <<>> /\ p2g' = <<Hello'>> /\ guest.useFeats = {}
                BY <1>1, <1>4, <3>1, One DEF IInv, GuestUnder, Hello
            <4>2. pc' = "affinity" => version < FeatureExchange
                BY <2>1, <2>7, <2>8
            <4> QED BY <1>1, <1>4, <2>1, <2>4, <2>5, <2>7, <2>8, <3>1, <4>1, <4>2
                    DEF GuestUnder, UpPlaces, CopyPlaces, LatePlaces
        <3>2. CASE /\ guest.at = "features" /\ p2g = <<>>
                   /\ g2p = <<GuestVersion, Tok("features", guest.feats)>>
                   /\ guest.useVer = Lower(guest.ver, version) /\ guest.useVer >= FeatureExchange
            <4>1. g2p' = <<Tok("features", guest.feats)>> /\ guest.useFeats = {}
                BY <1>1, <3>2, Two DEF IInv, GuestUnder
            <4>2. guest.useVer = version /\ pc' = "down features"
                BY <2>1, <2>6, <2>8, <3>2
            <4> QED BY <1>1, <1>4, <2>1, <2>4, <2>8, <3>2, <4>1, <4>2
                    DEF GuestUnder, UpPlaces, CopyPlaces, LatePlaces
        <3>3. CASE /\ guest.at = "info" /\ p2g = <<>>
                   /\ \E post \in PostWords : g2p = <<GuestVersion>> \o post
                   /\ guest.useVer = Lower(guest.ver, version) /\ guest.useVer < FeatureExchange
                   /\ guest.useFeats = {}
            <4>1. g2p' \in PostWords
                BY <1>1, <3>3, AfterVersion
            <4>2. guest.useVer = version /\ pc' = "affinity" /\ features = {}
                <5>1. guest.useVer = version
                    BY <2>6, <3>3
                <5>2. version < 294
                    BY <2>1, <3>3, <5>1
                <5>3. ~(version >= 294)
                    BY <2>1, <5>2
                <5> QED BY <2>1, <2>5, <2>7, <2>8, <5>1, <5>2, <5>3
            <4> QED BY <1>1, <1>4, <2>1, <2>4, <3>3, <4>1, <4>2
                    DEF GuestUnder, Agreed, UpPlaces, CopyPlaces, LatePlaces
        <3> QED BY <1>1, <3>1, <3>2, <3>3 DEF IInv, GuestUnder
    <2>10. HostUnder' /\ Buffers'
        BY <1>1, <1>4, <2>7, HostWaits DEF IInv, Buffers, DownPlaces, CopyPlaces
    <2> QED BY <1>1, <1>4, <2>7, <2>9, <2>10, Onward
            DEF Places, GuestPlaces, DownPlaces, CopyPlaces, LatePlaces
<1> QED BY <1>2, <1>3, <1>4

LEMMA DownFeaturesIInv ==
    ASSUME IInv, DownFeatures
    PROVE  IInv'
<1>1. /\ pc = "down features" /\ g2p # <<>> /\ g2p' = Tail(g2p)
      /\ p2g' = p2g \o gw \o <<Tok("features", features)>> /\ gw' = <<>> /\ hw' = <<>>
      /\ pc' = IF features \subseteq Head(g2p).v THEN "affinity" ELSE "closed"
      /\ UNCHANGED <<version, features, p2h, h2p, guest, host, health>>
    BY DEF DownFeatures, Reads, ToGuest
<1>2. /\ guest.at = "features" /\ guest.useVer = version /\ guest.ver >= version
      /\ g2p = <<Tok("features", guest.feats)>> /\ p2g = <<>> /\ gw = <<>>
      /\ guest.useFeats = {}
    BY <1>1 DEF IInv, GuestUnder, Buffers
<1>3. Head(g2p) = Tok("features", guest.feats) /\ g2p' = <<>>
    BY <1>1, <1>2, One
<1>4. Head(g2p).v = guest.feats
    BY <1>3 DEF Tok
<1>5. p2g' = <<Tok("features", features)>>
    BY <1>1, <1>2, NothingBefore
<1>6. CASE features \subseteq guest.feats
    <2>1. pc' = "affinity"
        BY <1>1, <1>4, <1>6
    <2>2. GuestUnder'
        BY <1>1, <1>2, <1>3, <1>5, <1>6, <2>1 DEF GuestUnder, UpPlaces, CopyPlaces, LatePlaces
    <2>3. HostUnder' /\ Buffers'
        BY <1>1, <2>1, HostWaits DEF IInv, Buffers, DownPlaces, CopyPlaces
    <2> QED BY <1>1, <2>1, <2>2, <2>3, Onward
            DEF Places, GuestPlaces, DownPlaces, CopyPlaces, LatePlaces
<1>7. CASE ~(features \subseteq guest.feats)
    BY <1>1, <1>4, <1>7, ClosedIInv
<1> QED BY <1>6, <1>7

LEMMA CopyAffinityIInv ==
    ASSUME IInv, CopyAffinity
    PROVE  IInv'
<1>1. /\ pc = "affinity" /\ g2p # <<>> /\ g2p' = Tail(g2p)
      /\ pc' = IF Head(g2p).v = "0" THEN "reserve" ELSE "value"
      /\ hw' = Append(hw, Head(g2p))
      /\ UNCHANGED <<version, features, gw, p2g, p2h, h2p, guest, host, health>>
    BY DEF CopyAffinity, Reads
<1>2. /\ guest.at = "info" /\ Agreed(guest) /\ g2p \in PostWords /\ p2g = <<>>
      /\ guest.ver >= version /\ hw = <<>> /\ gw = <<>>
    BY <1>1 DEF IInv, GuestUnder, Buffers, CopyPlaces
<1>3. \/ /\ pc' = "reserve" /\ g2p' = <<Reserve>> /\ hw' = <<Tok("affinity", "0")>>
      \/ /\ pc' = "value" /\ g2p' = <<Tok("value", ""), Reserve>>
         /\ hw' = <<Tok("affinity", "1")>>
    <2>1. CASE g2p = <<Tok("affinity", "0"), Reserve>>
        <3>1. Head(g2p) = Tok("affinity", "0") /\ g2p' = <<Reserve>>
            BY <1>1, <2>1, Two
        <3>2. Tok("affinity", "0").v = "0"
            BY DEF Tok
        <3>3. hw' = <<Tok("affinity", "0")>>
            BY <1>1, <1>2, <3>1, AppendOne
        <3> QED BY <1>1, <3>1, <3>2, <3>3
    <2>2. CASE g2p = <<Tok("affinity", "1"), Tok("value", ""), Reserve>>
        <3>1. Head(g2p) = Tok("affinity", "1") /\ g2p' = <<Tok("value", ""), Reserve>>
            BY <1>1, <2>2, Three
        <3>2. Tok("affinity", "1").v # "0"
            BY DEF Tok
        <3>3. hw' = <<Tok("affinity", "1")>>
            BY <1>1, <1>2, <3>1, AppendOne
        <3> QED BY <1>1, <3>1, <3>2, <3>3
    <2> QED BY <1>2, <2>1, <2>2 DEF PostWords, Reserve
<1>4. GuestUnder'
    BY <1>1, <1>2, <1>3 DEF GuestUnder, Agreed, UpPlaces, CopyPlaces, LatePlaces
<1>5. HostUnder' /\ Buffers'
    BY <1>1, <1>2, <1>3, HostWaits DEF IInv, Buffers, DownPlaces, CopyPlaces
<1> QED BY <1>1, <1>3, <1>4, <1>5, Onward
        DEF Places, GuestPlaces, DownPlaces, CopyPlaces, LatePlaces

LEMMA CopyAffinityValueIInv ==
    ASSUME IInv, CopyAffinityValue
    PROVE  IInv'
<1>1. /\ pc = "value" /\ pc' = "reserve" /\ g2p' = Tail(g2p) /\ hw' = Append(hw, Head(g2p))
      /\ UNCHANGED <<version, features, gw, p2g, p2h, h2p, guest, host, health>>
    BY DEF CopyAffinityValue, Reads
<1>2. /\ guest.at = "info" /\ Agreed(guest) /\ g2p = <<Tok("value", ""), Reserve>> /\ p2g = <<>>
      /\ guest.ver >= version /\ hw = <<Tok("affinity", "1")>> /\ gw = <<>>
    BY <1>1 DEF IInv, GuestUnder, Buffers, CopyPlaces
<1>3. Head(g2p) = Tok("value", "") /\ g2p' = <<Reserve>>
    BY <1>1, <1>2, Two
<1>4. hw' = <<Tok("affinity", "1"), Tok("value", "")>>
    BY <1>1, <1>2, <1>3, AppendOne
<1>5. GuestUnder'
    BY <1>1, <1>2, <1>3 DEF GuestUnder, Agreed, UpPlaces, CopyPlaces, LatePlaces
<1>6. HostUnder' /\ Buffers'
    BY <1>1, <1>2, <1>4, HostWaits DEF IInv, Buffers, DownPlaces, CopyPlaces
<1> QED BY <1>1, <1>5, <1>6, Onward
        DEF Places, GuestPlaces, DownPlaces, CopyPlaces, LatePlaces

LEMMA CopyReserveIInv ==
    ASSUME IInv, CopyReserve
    PROVE  IInv'
<1>1. /\ pc = "reserve" /\ pc' = "info" /\ g2p' = Tail(g2p)
      /\ p2h' = p2h \o hw \o <<Head(g2p)>> /\ hw' = <<>>
      /\ UNCHANGED <<version, features, gw, p2g, h2p, guest, host, health>>
    BY DEF CopyReserve, Reads, ToHost
<1>2. /\ guest.at = "info" /\ Agreed(guest) /\ g2p = <<Reserve>> /\ gw = <<>>
      /\ guest.ver >= version
      /\ hw \in {<<Tok("affinity", "0")>>, <<Tok("affinity", "1"), Tok("value", "")>>}
    BY <1>1 DEF IInv, GuestUnder, Buffers, CopyPlaces
<1>3. Head(g2p) = Reserve /\ g2p' = <<>>
    BY <1>1, <1>2, One
<1>4. Agreed(host) /\ host.at \in {"post", "dead"} /\ p2h = <<>> /\ h2p = <<>>
    BY <1>1 DEF IInv, HostUnder, DownPlaces, CopyPlaces
<1>5. p2h' \in RestOfPost
    <2>1. CASE hw = <<Tok("affinity", "0")>>
        <3>1. <<>> \o hw = <<Tok("affinity", "0")>>
            BY <2>1, NothingAround
        <3>2. p2h' = <<Tok("affinity", "0"), Reserve>>
            BY <1>1, <1>3, <1>4, <3>1, OneAndOne
        <3> QED BY <3>2 DEF RestOfPost, PostWords, Reserve
    <2>2. CASE hw = <<Tok("affinity", "1"), Tok("value", "")>>
        <3>1. \A a, b : <<>> \o <<a, b>> = <<a, b>>
            OBVIOUS
        <3>2. <<>> \o hw = <<Tok("affinity", "1"), Tok("value", "")>>
            BY <2>2, <3>1
        <3>3. p2h' = <<Tok("affinity", "1"), Tok("value", ""), Reserve>>
            BY <1>1, <1>3, <1>4, <3>2, TwoAndOne
        <3> QED BY <3>3 DEF RestOfPost, PostWords, Reserve
    <2> QED BY <1>2, <2>1, <2>2
<1>6. GuestUnder'
    BY <1>1, <1>2, <1>3 DEF GuestUnder, Agreed, UpPlaces, CopyPlaces, LatePlaces
<1>7. HostUnder' /\ Buffers'
    BY <1>1, <1>2, <1>4, <1>5
    DEF HostUnder, Buffers, Agreed, UpPlaces, DownPlaces, CopyPlaces, LatePlaces
<1> QED BY <1>1, <1>6, <1>7, Onward
        DEF Places, HostPlaces, DownPlaces, CopyPlaces, LatePlaces

LEMMA CopyInfoIInv ==
    ASSUME IInv, CopyInfo
    PROVE  IInv'
<1>1. /\ pc = "info" /\ pc' = "greeting" /\ h2p # <<>> /\ h2p' = Tail(h2p)
      /\ UNCHANGED <<version, features, hw, p2g, p2h, g2p, guest, host, health>>
    BY DEF CopyInfo, ReadsUp
<1>2. /\ host.at \in {"ops", "dead"} /\ p2h = <<>> /\ Agreed(host)
      /\ \E rest \in Greetings : h2p = <<Info>> \o rest
    BY <1>1 DEF IInv, HostUnder, LatePlaces
<1>3. h2p' \in Greetings
    BY <1>1, <1>2, AfterInfo
<1>4. GuestUnder'
    BY <1>1 DEF IInv, GuestUnder, Agreed, UpPlaces, CopyPlaces, LatePlaces
<1>5. HostUnder'
    BY <1>1, <1>2, <1>3 DEF HostUnder, Agreed, UpPlaces, DownPlaces, CopyPlaces, LatePlaces
<1>6. Buffers'
    BY <1>1 DEF IInv, Buffers
<1> QED BY <1>1, <1>4, <1>5, <1>6, Onward
        DEF Places, HostPlaces, DownPlaces, CopyPlaces, LatePlaces

LEMMA RelayGreetingIInv ==
    ASSUME IInv, RelayGreeting
    PROVE  IInv'
<1>1. /\ pc = "greeting" /\ h2p # <<>> /\ h2p' = Tail(h2p) /\ gw' = <<>>
      /\ UNCHANGED <<version, features, hw, p2h, g2p, guest, host, health>>
      /\ \/ Head(h2p).t = "log" /\ pc' = pc
         \/ Head(h2p).t \in {"last", "error"} /\ pc' = "loop"
         \/ pc' = "closed"
    BY DEF RelayGreeting, ReadsUp, ToGuest
<1>2. /\ host.at \in {"ops", "dead"} /\ p2h = <<>> /\ Agreed(host) /\ h2p \in Greetings
      /\ hw = <<>>
    BY <1>1 DEF IInv, HostUnder, Buffers, LatePlaces
<1>3. /\ Head(h2p).t = "log" => h2p' \in Greetings
      /\ Head(h2p).t \in {"last", "error"} => h2p' = <<>>
    <2>1. CASE \E e \in Ends : h2p = <<e>>
        <3>1. PICK e \in Ends : h2p = <<e>>
            BY <2>1
        <3>2. Head(h2p) = e /\ h2p' = <<>>
            BY <1>1, <3>1, One
        <3>3. e.t # "log"
            <4>1. PICK t \in {"last", "error", "stream"} : e = Tok(t, "")
                BY <3>1 DEF Ends
            <4>2. e.t = t
                BY <4>1 DEF Tok
            <4> QED BY <4>2
        <3> QED BY <3>2, <3>3
    <2>2. CASE \E e \in Ends : h2p = <<Tok("log", ""), e>>
        <3>1. PICK e \in Ends : h2p = <<Tok("log", ""), e>>
            BY <2>2
        <3>2. Head(h2p) = Tok("log", "") /\ h2p' = <<e>>
            BY <1>1, <3>1, Two
        <3>3. Tok("log", "").t = "log"
            BY DEF Tok
        <3>4. h2p' \in Greetings
            BY <3>2 DEF Greetings
        <3> QED BY <3>2, <3>3, <3>4
    <2> QED BY <1>2, <2>1, <2>2 DEF Greetings
<1>4. CASE pc' = "closed"
    BY <1>1, <1>2, <1>4, ClosedIInv
<1>5. CASE pc' # "closed"
    <2>1. \/ pc' = "greeting" /\ h2p' \in Greetings
          \/ pc' = "loop" /\ h2p' = <<>>
        BY <1>1, <1>3, <1>5
    <2>2. GuestUnder'
        BY <1>1, <2>1 DEF IInv, GuestUnder, Agreed, UpPlaces, CopyPlaces, LatePlaces
    <2>3. HostUnder' /\ Buffers'
        BY <1>1, <1>2, <2>1
        DEF HostUnder, Buffers, Agreed, UpPlaces, DownPlaces, CopyPlaces, LatePlaces
    <2> QED BY <1>1, <2>1, <2>2, <2>3, Onward
            DEF Places, HostPlaces, DownPlaces, CopyPlaces, LatePlaces
<1> QED BY <1>4, <1>5

LEMMA SessionStepIInv ==
    ASSUME IInv, SessionStep
    PROVE  IInv'
<1>1. CASE GuestGivenUp \/ HostGone
    BY <1>1, ClosedIInv DEF GuestGivenUp, HostGone, Close, NoRead
<1> QED BY <1>1, GuestMagicIInv, DialIInv, UpMagicIInv, UpVersionIInv, UpFeaturesIInv,
           DownVersionIInv, DownFeaturesIInv, CopyAffinityIInv, CopyAffinityValueIInv,
           CopyReserveIInv, CopyInfoIInv, RelayGreetingIInv
        DEF SessionStep

LEMMA StutterIInv ==
    ASSUME IInv, UNCHANGED vars
    PROVE  IInv'
<1>1. UNCHANGED <<pc, version, features, hw, gw, g2p, p2g, p2h, h2p, guest, host, health>>
    BY DEF vars, chans
<1>2. Shape'
    BY <1>1 DEF IInv, Shape, TypeOK, IsParty
<1>3. GuestUnder'
    BY <1>1 DEF IInv, GuestUnder, Agreed, GuestVersion, Hello
<1>4. HostUnder'
    BY <1>1 DEF IInv, HostUnder, Agreed, HostVersion
<1>5. Buffers' /\ Speakers'
    BY <1>1 DEF IInv, Buffers, Speakers
<1> QED BY <1>2, <1>3, <1>4, <1>5 DEF IInv

-----------------------------------------------------------------------------
(* The opening of a session goes through the places of session::run with   *)
(* the sockets in step: what lies on each of them, and where each party    *)
(* is, follows from the place alone.                                       *)
THEOREM HandshakeInvariant == Spec => []IInv
<1>1. IInv /\ [Next]_vars => IInv'
    BY GuestStepIInv, GuestFailsIInv, HostStepIInv, HostDiesIInv, SessionStepIInv, StutterIInv
    DEF Next, Over
<1> QED BY InitIInv, <1>1, PTL DEF Spec

\* The session's place and what it has negotiated, the guest's place and
\* the daemon's stay in their sets.
THEOREM HandshakeTypeOK == Spec => []TypeOK
<1>1. IInv => TypeOK
    BY DEF IInv, Shape
<1> QED BY HandshakeInvariant, <1>1, PTL

\* The op loop starts with the guest, the daemon and the session agreed on
\* the version and the features (handshake::upstream, handshake::downstream),
\* whatever the three versions and feature lists are.
THEOREM HandshakeLegsAgree == Spec => []LegsAgree
<1>1. IInv => LegsAgree
    BY DEF IInv, GuestUnder, HostUnder, Agreed, LegsAgree, LatePlaces
<1> QED BY HandshakeInvariant, <1>1, PTL

\* No daemon child is forked for a guest that has not said the magic
\* (session::run calls handshake::guest_magic before connect).
THEOREM HandshakeSpeakersOnly == Spec => []DaemonOnlyForSpeakers
<1>1. IInv => DaemonOnlyForSpeakers
    BY DEF IInv, Speakers, DaemonOnlyForSpeakers
<1> QED BY HandshakeInvariant, <1>1, PTL

\* The op loop starts with both BufWriters empty and no word of the
\* handshake unread.
THEOREM HandshakeStartsClean == Spec => []LoopStartsClean
<1>1. IInv => LoopStartsClean
    BY DEF IInv, GuestUnder, HostUnder, Buffers, LoopStartsClean, LatePlaces
<1> QED BY HandshakeInvariant, <1>1, PTL
=============================================================================
