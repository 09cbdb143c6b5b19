--------------------------- MODULE ProxyHandshake ---------------------------
(***************************************************************************)
(* The opening of a relay session: session::run up to its op loop          *)
(* (src/src/proxy/session.rs) with both legs of src/src/proxy/handshake.rs.*)
(* The guest's magic is checked first, then the host daemon is dialled and *)
(* the upstream leg fixes version and features, which the downstream leg   *)
(* imposes on the guest.  The post-handshake words, the daemon's info and  *)
(* its greeting follow.                                                    *)
(*                                                                         *)
(* The guest and the daemon follow nix's client and server sides of the    *)
(* handshake: each uses the lower of the two versions and the features     *)
(* both lists name.  The guest may be of any version, send a wrong magic,  *)
(* stall anywhere and hang up; the daemon may be of any version, send a    *)
(* wrong magic, greet with an error and die.                               *)
(*                                                                         *)
(* A write to a peer that is gone is lost here; in the code it is an       *)
(* error.  Every such write is followed by a read from the same peer,      *)
(* which ends the session in both.                                         *)
(***************************************************************************)
EXTENDS Naturals, Sequences

CONSTANTS
    OurFeatures,    \* const OUR_FEATURES
    GuestVersions,  \* version words guests send
    HostVersions,   \* version words host daemons send
    Features        \* feature names

Wire(major, minor) == major * 256 + minor

\* const OUR_VERSION, FLOOR, FEATURE_EXCHANGE
OurVersion == Wire(1, 38)
Floor == Wire(1, 35)
FeatureExchange == Wire(1, 38)

\* Version::from_wire keeps the low byte of the minor and of the major; the
\* derived order is that of the words built from them.
TwoBytes == 65536
FromWire(v) == v % TwoBytes
Major(v) == v \div 256

Lower(a, b) == IF a <= b THEN a ELSE b

(* A guest may send any word.  The daemon's is its PROTOCOL_VERSION, which *)
(* fits in the two bytes that FromWire keeps.                              *)
ASSUME VersionsAssumption ==
    GuestVersions \subseteq Nat /\ HostVersions \subseteq 0..(TwoBytes - 1)
ASSUME FeaturesAssumption == OurFeatures \subseteq Features

VARIABLES
    pc,       \* where session::run is
    version, features,  \* Negotiated, 0 and {} until known
    hw, gw,   \* the BufWriters
    g2p, p2g, p2h, h2p,
    guest,    \* the guest: what it has, where it is, what it agreed to
    host,     \* the same of the daemon child, at = "absent" before the dial
    health    \* the guest: "talks", "stalls", "gone"

chans == <<g2p, p2g, p2h, h2p>>
vars == <<pc, version, features, hw, gw, chans, guest, host, health>>

Tok(t, v) == [t |-> t, v |-> v]

\* A party to the handshake.
Party(ver, feats, at) ==
    [ver |-> ver, feats |-> feats, at |-> at, said |-> "nothing",
     useVer |-> 0, useFeats |-> {}]

Init ==
    /\ pc = "magic"
    /\ version = 0 /\ features = {}
    /\ hw = <<>> /\ gw = <<>>
    /\ g2p = <<>> /\ p2g = <<>> /\ p2h = <<>> /\ h2p = <<>>
    /\ \E v \in GuestVersions, f \in SUBSET Features : guest = Party(v, f, "start")
    /\ \E v \in HostVersions, f \in SUBSET Features : host = Party(v, f, "absent")
    /\ health = "talks"

-----------------------------------------------------------------------------
(* The guest (external).                                                   *)

GuestSays(toks) == g2p' = g2p \o toks

GuestOpens ==
    /\ guest.at = "start"
    /\ \E magic \in {"good", "bad"} :
          /\ GuestSays(<<Tok("magic", magic), Tok("version", guest.ver)>>)
          /\ guest' = [guest EXCEPT !.at = "hello", !.said = magic]
    /\ UNCHANGED p2g

\* The post-handshake words: affinity, its value when nonzero, reserveSpace.
PostWords == {<<Tok("affinity", "0"), Tok("reserve", "")>>,
              <<Tok("affinity", "1"), Tok("value", ""), Tok("reserve", "")>>}

GuestReads(t) == p2g # <<>> /\ Head(p2g).t = t /\ p2g' = Tail(p2g)

GuestReadsHello ==
    /\ guest.at = "hello"
    /\ GuestReads("hello")
    /\ LET use == Lower(guest.ver, Head(p2g).v)
       IN IF use >= FeatureExchange
          THEN /\ guest' = [guest EXCEPT !.at = "features", !.useVer = use]
               /\ GuestSays(<<Tok("features", guest.feats)>>)
          ELSE /\ guest' = [guest EXCEPT !.at = "info", !.useVer = use]
               /\ \E post \in PostWords : GuestSays(post)

GuestReadsFeatures ==
    /\ guest.at = "features"
    /\ GuestReads("features")
    /\ guest' = [guest EXCEPT !.at = "info",
                              !.useFeats = guest.feats \intersect Head(p2g).v]
    /\ \E post \in PostWords : GuestSays(post)

GuestReadsRest ==
    /\ \/ guest.at = "info" /\ GuestReads("info")
             /\ guest' = [guest EXCEPT !.at = "greeting"]
       \/ guest.at = "greeting" /\ GuestReads("log") /\ UNCHANGED guest
       \/ guest.at = "greeting" /\ (GuestReads("last") \/ GuestReads("error"))
             /\ guest' = [guest EXCEPT !.at = "ready"]
    /\ UNCHANGED g2p

GuestStep ==
    /\ health = "talks"
    /\ GuestOpens \/ GuestReadsHello \/ GuestReadsFeatures \/ GuestReadsRest
    /\ UNCHANGED <<pc, version, features, hw, gw, p2h, h2p, host, health>>

GuestFails ==
    /\ \/ health = "talks" /\ health' = "stalls"
       \/ health # "gone" /\ health' = "gone"
    /\ UNCHANGED <<pc, version, features, hw, gw, chans, guest, host>>

-----------------------------------------------------------------------------
(* The host daemon child (external).                                       *)

HostReads(t) == p2h # <<>> /\ Head(p2h).t = t /\ p2h' = Tail(p2h)

HostAnswersHello ==
    /\ host.at = "hello"
    /\ HostReads("hello")
    /\ \E magic \in {"good", "bad"} :
          h2p' = h2p \o <<Tok("magic", magic), Tok("version", host.ver)>>
    /\ LET use == Lower(host.ver, Head(p2h).v)
       IN host' = [host EXCEPT !.useVer = use,
                       !.at = IF use >= FeatureExchange THEN "features" ELSE "post"]

HostAnswersFeatures ==
    /\ host.at = "features"
    /\ HostReads("features")
    /\ h2p' = Append(h2p, Tok("features", host.feats))
    /\ host' = [host EXCEPT !.at = "post",
                            !.useFeats = host.feats \intersect Head(p2h).v]

HostReadsPost ==
    /\ host.at = "post"
    /\ HostReads("affinity") \/ HostReads("value")
    /\ UNCHANGED <<h2p, host>>

HostGreets ==
    /\ host.at = "post"
    /\ HostReads("reserve")
    /\ \E end \in {"last", "error", "stream"}, logs \in {<<>>, <<Tok("log", "")>>} :
          h2p' = h2p \o <<Tok("info", "")>> \o logs \o <<Tok(end, "")>>
    /\ host' = [host EXCEPT !.at = "ops"]

HostStep ==
    /\ HostAnswersHello \/ HostAnswersFeatures \/ HostReadsPost \/ HostGreets
    /\ UNCHANGED <<pc, version, features, hw, gw, g2p, p2g, guest, health>>

HostDies ==
    /\ host.at \notin {"absent", "dead"}
    /\ host' = [host EXCEPT !.at = "dead"]
    /\ UNCHANGED <<pc, version, features, hw, gw, chans, guest, health>>

-----------------------------------------------------------------------------
(* The session.                                                            *)

\* An error: both connections are dropped, unflushed bytes with them.
Close ==
    /\ pc' = "closed"
    /\ hw' = <<>> /\ gw' = <<>>
    /\ UNCHANGED <<version, features, p2g, p2h>>

\* Write toks and flush.
ToHost(toks)  == p2h' = p2h \o hw \o toks /\ hw' = <<>>
ToGuest(toks) == p2g' = p2g \o gw \o toks /\ gw' = <<>>

Reads(t)    == g2p # <<>> /\ Head(g2p).t = t /\ g2p' = Tail(g2p)
                 /\ UNCHANGED <<h2p, guest, host, health>>
ReadsUp(t)  == h2p # <<>> /\ Head(h2p).t = t /\ h2p' = Tail(h2p)
                 /\ UNCHANGED <<g2p, guest, host, health>>
NoRead      == UNCHANGED <<g2p, h2p, guest, host, health>>

\* A mutant: the daemon is dialled as soon as the guest says anything.
GuestMagicUnchecked ==
    /\ pc = "magic"
    /\ Reads("magic")
    /\ pc' = "dial"
    /\ UNCHANGED <<version, features, hw, gw, p2g, p2h>>

\* handshake::guest_magic
GuestMagic ==
    /\ pc = "magic"
    /\ Reads("magic")
    /\ IF Head(g2p).v = "good"
       THEN pc' = "dial" /\ UNCHANGED <<version, features, hw, gw, p2g, p2h>>
       ELSE Close

\* connect(), which the daemon's listener may refuse, and the opening of
\* handshake::upstream.
Dial ==
    /\ pc = "dial"
    /\ \/ /\ pc' = "up magic"
          /\ host' = [host EXCEPT !.at = "hello"]
          /\ ToHost(<<Tok("hello", OurVersion)>>)
          /\ UNCHANGED <<version, features, gw, p2g>>
       \/ Close /\ UNCHANGED host
    /\ UNCHANGED <<g2p, h2p, guest, health>>

UpMagic ==
    /\ pc = "up magic"
    /\ ReadsUp("magic")
    /\ IF Head(h2p).v = "good"
       THEN pc' = "up version" /\ UNCHANGED <<version, features, hw, gw, p2g, p2h>>
       ELSE Close

\* handshake::downstream opens: the negotiated version goes to the guest.
OpenDownstream(v) ==
    /\ pc' = "down version"
    /\ version' = v
    /\ ToGuest(<<Tok("hello", v)>>)

\* The daemon's version fixes the session's; from 1.38 on features follow.
UpVersion ==
    /\ pc = "up version"
    /\ ReadsUp("version")
    /\ LET daemon == FromWire(Head(h2p).v)
           v == Lower(daemon, OurVersion)
       IN \/ /\ Major(daemon) # 1 \/ v < Floor
             /\ Close
          \/ /\ Major(daemon) = 1 /\ v >= Floor
             /\ IF v >= FeatureExchange
                THEN /\ pc' = "up features"
                     /\ version' = v
                     /\ ToHost(<<Tok("features", OurFeatures)>>)
                     /\ UNCHANGED <<gw, p2g>>
                ELSE OpenDownstream(v) /\ UNCHANGED <<hw, p2h>>
             /\ UNCHANGED features

UpFeatures ==
    /\ pc = "up features"
    /\ ReadsUp("features")
    /\ features' = OurFeatures \intersect Head(h2p).v
    /\ OpenDownstream(version)
    /\ UNCHANGED <<hw, p2h>>

\* A mutant: a guest of any version is taken.
DownVersionUnchecked ==
    /\ pc = "down version"
    /\ Reads("version")
    /\ pc' = IF version >= FeatureExchange THEN "down features" ELSE "affinity"
    /\ UNCHANGED <<version, features, hw, gw, p2g, p2h>>

\* The guest must not be older than what was negotiated upstream.
DownVersion ==
    /\ pc = "down version"
    /\ Reads("version")
    /\ IF FromWire(Head(g2p).v) >= version
       THEN /\ pc' = IF version >= FeatureExchange THEN "down features" ELSE "affinity"
            /\ UNCHANGED <<version, features, hw, gw, p2g, p2h>>
       ELSE Close

\* The guest is told the negotiated features, then must have every one.
DownFeatures ==
    /\ pc = "down features"
    /\ Reads("features")
    /\ ToGuest(<<Tok("features", features)>>)
    /\ pc' = IF features \subseteq Head(g2p).v THEN "affinity" ELSE "closed"
    /\ hw' = <<>>
    /\ UNCHANGED <<version, features, p2h>>

\* The post-handshake words are copied to the host and flushed at the end.
CopyAffinity ==
    /\ pc = "affinity"
    /\ Reads("affinity")
    /\ pc' = IF Head(g2p).v = "0" THEN "reserve" ELSE "value"
    /\ hw' = Append(hw, Head(g2p))
    /\ UNCHANGED <<version, features, gw, p2g, p2h>>

CopyAffinityValue ==
    /\ pc = "value"
    /\ Reads("value")
    /\ pc' = "reserve"
    /\ hw' = Append(hw, Head(g2p))
    /\ UNCHANGED <<version, features, gw, p2g, p2h>>

\* A mutant: the last word is copied and the buffer not flushed.
CopyReserveUnflushed ==
    /\ pc = "reserve"
    /\ Reads("reserve")
    /\ pc' = "info"
    /\ hw' = Append(hw, Head(g2p))
    /\ UNCHANGED <<version, features, gw, p2g, p2h>>

CopyReserve ==
    /\ pc = "reserve"
    /\ Reads("reserve")
    /\ pc' = "info"
    /\ ToHost(<<Head(g2p)>>)
    /\ UNCHANGED <<version, features, gw, p2g>>

\* The daemon's version string and trusted flag wait in gw for a flush.
CopyInfo ==
    /\ pc = "info"
    /\ ReadsUp("info")
    /\ pc' = "greeting"
    /\ gw' = Append(gw, Head(h2p))
    /\ UNCHANGED <<version, features, hw, p2g, p2h>>

\* A mutant: the last flush before the loop is missing.
RelayGreetingUnflushed ==
    /\ pc = "greeting"
    /\ \/ ReadsUp("log") /\ UNCHANGED pc /\ ToGuest(<<Head(h2p)>>)
       \/ (ReadsUp("last") \/ ReadsUp("error"))
             /\ pc' = "loop" /\ gw' = Append(gw, Head(h2p)) /\ UNCHANGED p2g
    /\ UNCHANGED <<version, features, hw, p2h>>

\* stderr::relay of the greeting.  How it ended is not looked at: after an
\* ERROR greeting the loop is entered too.
RelayGreeting ==
    /\ pc = "greeting"
    /\ \/ ReadsUp("log") /\ UNCHANGED pc /\ ToGuest(<<Head(h2p)>>)
       \/ (ReadsUp("last") \/ ReadsUp("error"))
             /\ pc' = "loop" /\ ToGuest(<<Head(h2p)>>)
       \/ ReadsUp("stream")
             /\ pc' = "closed" /\ ToGuest(<<Tok("error", "")>>)
    /\ UNCHANGED <<version, features, hw, p2h>>

GuestPlaces == {"magic", "down version", "down features", "affinity", "value", "reserve"}
HostPlaces  == {"up magic", "up version", "up features", "info", "greeting"}

\* HANDSHAKE_TIMEOUT runs out, or the guest's end of file is read.
GuestGivenUp ==
    /\ pc \in GuestPlaces
    /\ health # "talks"
    /\ g2p = <<>>
    /\ Close /\ NoRead

\* The daemon child is gone; no timeout watches for one that is only silent.
HostGone ==
    /\ pc \in HostPlaces
    /\ host.at = "dead"
    /\ h2p = <<>>
    /\ Close /\ NoRead

SessionStep ==
    \/ GuestMagic \/ Dial
    \/ UpMagic \/ UpVersion \/ UpFeatures
    \/ DownVersion \/ DownFeatures
    \/ CopyAffinity \/ CopyAffinityValue \/ CopyReserve
    \/ CopyInfo \/ RelayGreeting
    \/ GuestGivenUp \/ HostGone

\* The handshake is over, or the session is.
Over == pc \in {"loop", "closed"} /\ UNCHANGED vars

Next == GuestStep \/ GuestFails \/ HostStep \/ HostDies \/ SessionStep \/ Over

(* Fairness.  The session's task is polled and its timers run; the daemon  *)
(* goes on or dies; a guest that talks goes on talking, but it may stop    *)
(* talking at any moment.                                                  *)
Fairness == WF_vars(SessionStep) /\ WF_vars(HostStep) /\ WF_vars(GuestStep)

Spec == Init /\ [][Next]_vars /\ Fairness

-----------------------------------------------------------------------------
(* Properties.                                                             *)

Places == GuestPlaces \union HostPlaces \union {"dial", "loop", "closed"}

TypeOK ==
    /\ pc \in Places
    /\ version \in {0} \union Floor..OurVersion
    /\ features \subseteq OurFeatures
    /\ guest.at \in {"start", "hello", "features", "info", "greeting", "ready"}
    /\ host.at \in {"absent", "hello", "features", "post", "ops", "dead"}
    /\ health \in {"talks", "stalls", "gone"}

\* When the op loop starts, the guest and the daemon, each by its own rule,
\* have settled on the version and the features the session goes by: no
\* payload needs translating from here on.
LegsAgree ==
    pc = "loop" =>
        /\ guest.useVer = version /\ host.useVer = version
        /\ guest.useFeats = features /\ host.useFeats = features

\* The daemon forks a child only for a guest that has said the magic.
DaemonOnlyForSpeakers == host.at # "absent" => guest.said = "good"

\* What ProxySession starts from: the op loop begins with both BufWriters
\* empty and every word of the handshake read by the one it was meant for.
LoopStartsClean ==
    pc = "loop" =>
        /\ hw = <<>> /\ gw = <<>> /\ g2p = <<>> /\ h2p = <<>>
        /\ host.at # "dead" => p2h = <<>>

\* No flush is missing and no guest is waited for forever: with a daemon
\* that goes on or dies, the handshake ends for any guest, one that stops
\* talking in any place included.
HandshakeEnds == <>(pc \in {"loop", "closed"})
=============================================================================
