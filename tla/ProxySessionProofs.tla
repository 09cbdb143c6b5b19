------------------------- MODULE ProxySessionProofs -------------------------
(***************************************************************************)
(* Proofs about the op loop of a session, for any set of store paths and   *)
(* any manifest, any requests and any number of them, any number of log    *)
(* messages and of changes to the host store.                              *)
(*                                                                         *)
(* The first part is about what the session has read, buffered and         *)
(* flushed.  The second is about the framing of both legs: each has a      *)
(* grammar, the steps of an automaton, and what lies on it is a run of     *)
(* that from the place of its reader to the place of its writer.  With     *)
(* both, a session implements the service without wires of StoreQuery.     *)
(***************************************************************************)
EXTENDS ProxySession, SequenceTheorems, TLAPS

\* The half of the inductive invariant that only the session's steps, and a
\* dying daemon, disturb.
SessionOK ==
    /\ pc \in Places
    /\ kind \in Kinds \union {"none"}
    /\ path \in Paths \union {NoPath}
    /\ hw \in Seq(QueryTokens) /\ gw \in Seq(Tokens)
    /\ fill \in {"none", "dialed", "asked", "ensured", "failed"}
    /\ p2h \in Seq(QueryTokens)
    /\ answers \in Seq(Answers)
    /\ PlaceFitsOp
    /\ NothingWithheld
    /\ kind = "setoptions" => hw = <<>>
    /\ pc = "fill" => path \in Manifest

\* The other half: the peers, the store, and the channels both sides move.
PeersOK ==
    /\ g2p \in Seq(Tokens) /\ p2g \in Seq(Tokens) /\ h2p \in Seq(Tokens)
    /\ gopen \in BOOLEAN
    /\ gtodo \in Seq(Tokens)
    /\ gst \in {"stderr", "res", "rest", "lost"}
    /\ asked \in Seq(AllRequests)
    /\ got \in Seq(Answers)
    /\ hopen \in BOOLEAN
    /\ htodo \in Seq(Tokens)
    /\ valid \subseteq Paths
    /\ changes \in 0..MaxChanges
    /\ orphans \subseteq Manifest
    /\ seen \in {"unseen", "valid", "invalid", "result"}

IInv == SessionOK /\ PeersOK

-----------------------------------------------------------------------------
(* Tokens.                                                                 *)

\* What the session learns from the tag of a token it reads.
LEMMA TokenTags ==
    /\ \A t \in Tokens : t.t = "word" =>
          t.v \in Kinds /\ (Forwarded(t.v) => t \in QueryTokens)
    /\ \A t \in Tokens : t.t = "arg" /\ t.v # NoPath =>
          t.v \in Paths /\ t \in QueryTokens
    /\ \A t \in Tokens : t.t = "flag" /\ t.v = "0" => t \in QueryTokens
<1> SUFFICES ASSUME NEW t \in Tokens
             PROVE  /\ t.t = "word" =>
                         t.v \in Kinds /\ (Forwarded(t.v) => t \in QueryTokens)
                    /\ t.t = "arg" /\ t.v # NoPath =>
                         t.v \in Paths /\ t \in QueryTokens
                    /\ t.t = "flag" /\ t.v = "0" => t \in QueryTokens
    OBVIOUS
<1>1. CASE t \in {Word(k) : k \in Kinds}
    <2>1. PICK k \in Kinds : t = Word(k)
        BY <1>1
    <2>2. t.t = "word" /\ t.v = k
        BY <2>1 DEF Word, Tok
    <2>3. Forwarded(k) => t \in QueryTokens
        BY <2>1 DEF Forwarded, QueryTokens
    <2>4. t.t # "arg" /\ t.t # "flag"
        BY <2>2
    <2> QED BY <2>2, <2>3, <2>4
<1>2. CASE t \in {Arg(p) : p \in Paths \union {NoPath}}
    <2>1. PICK p \in Paths \union {NoPath} : t = Arg(p)
        BY <1>2
    <2>2. t.t = "arg" /\ t.v = p
        BY <2>1 DEF Arg, Tok
    <2>3. p \in Paths => t \in QueryTokens
        BY <2>1 DEF QueryTokens
    <2>4. t.t # "word" /\ t.t # "flag"
        BY <2>2
    <2>5. t.v # NoPath => t.v \in Paths
        BY <2>2
    <2> QED BY <2>2, <2>3, <2>4, <2>5
<1>3. CASE t \in {Flag("0"), Flag("1")}
    <2>1. t.t = "flag" /\ (t.v = "0" => t = Flag("0"))
        BY <1>3 DEF Flag, Tok
    <2>2. t = Flag("0") => t \in QueryTokens
        BY DEF QueryTokens
    <2> QED BY <2>1, <2>2
<1>4. CASE t \in {Begun, Log, Last, Streaming, Broken, Rest, Err("daemon"), Err("proxy")}
    <2>1. t.t \in {"begun", "log", "last", "stream", "broken", "rest", "error"}
        <3>1. /\ Log.t = "log" /\ Last.t = "last" /\ Streaming.t = "stream" /\ Begun.t = "begun"
              /\ Broken.t = "broken" /\ Rest.t = "rest"
              /\ Err("daemon").t = "error" /\ Err("proxy").t = "error"
            BY DEF Begun, Log, Last, Streaming, Broken, Rest, Err, Tok
        <3> QED BY <1>4, <3>1
    <2> QED BY <2>1
<1>5. CASE t \in {Res(v) : v \in {"valid", "invalid", "end", "more"}}
    BY <1>5 DEF Res, Tok
<1> QED BY <1>1, <1>2, <1>3, <1>4, <1>5 DEF Tokens

LEMMA TokensMade ==
    /\ {Log, Last, Streaming, Broken, Rest, Err("daemon"), Err("proxy")} \subseteq Tokens
    /\ \A v \in {"valid", "invalid", "end", "more"} : Res(v) \in Tokens
    /\ QueryTokens \subseteq Tokens
    /\ Word("isvalid") \in QueryTokens
    /\ \A p \in Paths : Arg(p) \in QueryTokens
    /\ Garbage \in Tokens
    /\ \A k \in Kinds : Word(k) \in Tokens
    /\ Flag("0") \in Tokens /\ Flag("1") \in Tokens
    /\ Begun \in QueryTokens
BY DEF Tokens, QueryTokens, Tok, Begun, Word, Arg, Flag, Log, Last, Streaming, Broken, Rest,
    Err, Res, Kinds, Garbage

LEMMA RequestTokensTyped ==
    ASSUME NEW r \in AllRequests
    PROVE  RequestTokens(r) \in Seq(Tokens)
<1>1. /\ Word(r.kind) \in Tokens
      /\ Arg(r.path) \in Tokens
      /\ Flag(r.flag) \in Tokens
      /\ Garbage \in Tokens
    BY TokensMade DEF AllRequests
<1> HIDE DEF Tokens
<1>2. (IF r.form = "good" THEN Arg(r.path) ELSE Garbage) \in Tokens
    BY <1>1
<1> DEFINE arg == IF r.form = "good" THEN Arg(r.path) ELSE Garbage
<1>3. <<Word(r.kind), arg>> \in Seq(Tokens) /\ <<Flag(r.flag)>> \in Seq(Tokens)
        /\ <<>> \in Seq(Tokens)
    BY <1>1, <1>2
<1> HIDE DEF arg
<1>4. (IF r.kind = "queryvalid" THEN <<Flag(r.flag)>> ELSE <<>>) \in Seq(Tokens)
    BY <1>3
<1> QED BY <1>3, <1>4, ConcatProperties DEF RequestTokens, arg

-----------------------------------------------------------------------------
(* The ends of an op keep the session's half, whatever action they end.    *)

\* Dropping both connections.
LEMMA HangupOK ==
    ASSUME SessionOK, PeersOK, Hangup, p2h' \in Seq(QueryTokens)
    PROVE  SessionOK' /\ p2g' \in Seq(Tokens)
             /\ seen' \in {"unseen", "valid", "invalid", "result"}
BY DEF SessionOK, PeersOK, Hangup, Places, HostWaits, PlaceFitsOp, NothingWithheld, histVars

\* A complete reply.
LEMMA ReplyOK ==
    ASSUME SessionOK, PeersOK, pc \notin {"args", "flag"} \/ kind = "setoptions",
           NEW toks \in Seq(Tokens), NEW a \in Answers,
           Reply(toks, a), p2h' = p2h
    PROVE  SessionOK' /\ p2g' \in Seq(Tokens)
             /\ seen' \in {"unseen", "valid", "invalid", "result"}
<1>1. CASE ~gopen /\ Hangup
    BY <1>1, HangupOK DEF SessionOK
<1>2. CASE Deliver(toks) /\ pc' = "idle" /\ kind' = "none" /\ path' = NoPath
           /\ fill' = "none" /\ answers' = Append(answers, a) /\ seen' = "unseen"
           /\ UNCHANGED hw
    <2>1. p2g' \in Seq(Tokens) /\ gw' = <<>>
        BY <1>2, ConcatProperties DEF Deliver, SessionOK, PeersOK
    <2>2. hw' = <<>>
        BY <1>2 DEF SessionOK, NothingWithheld
    <2>3. answers' \in Seq(Answers)
        BY <1>2 DEF SessionOK
    <2> QED
        BY <1>2, <2>1, <2>2, <2>3
        DEF SessionOK, Places, HostWaits, PlaceFitsOp, NothingWithheld
<1> QED BY <1>1, <1>2 DEF Reply

\* A synthetic error and the end of the session.
LEMMA RejectOK ==
    ASSUME SessionOK, PeersOK, Reject, p2h' \in Seq(QueryTokens)
    PROVE  SessionOK' /\ p2g' \in Seq(Tokens)
             /\ seen' \in {"unseen", "valid", "invalid", "result"}
<1>1. CASE ~gopen /\ Hangup
    BY <1>1, HangupOK
<1>2. CASE Deliver(<<Err("proxy")>>) /\ pc' = "closed" /\ kind' = "none"
           /\ path' = NoPath /\ fill' = "none" /\ hw' = <<>>
           /\ answers' = Append(answers, "rejected") /\ seen' = "unseen"
    <2>1. <<Err("proxy")>> \in Seq(Tokens)
        BY TokensMade
    <2>2. p2g' \in Seq(Tokens) /\ gw' = <<>>
        BY <1>2, <2>1, ConcatProperties DEF Deliver, SessionOK, PeersOK
    <2>3. answers' \in Seq(Answers)
        BY <1>2 DEF SessionOK, Answers
    <2> QED
        BY <1>2, <2>2, <2>3
        DEF SessionOK, Places, HostWaits, PlaceFitsOp, NothingWithheld
<1> QED BY <1>1, <1>2 DEF Reject

\* A request that is complete.
LEMMA SendHostOK ==
    ASSUME SessionOK, PeersOK, NEW toks \in Seq(QueryTokens), NEW p \in Paths,
           NEW place \in {"stderr", "restderr"},
           gw = <<>>,
           Forwarded(kind), place = "restderr" => kind = "isvalid",
           SendHost(toks, place, p)
    PROVE  SessionOK' /\ p2g' \in Seq(Tokens)
             /\ seen' \in {"unseen", "valid", "invalid", "result"}
<1>1. CASE ~hopen /\ Hangup /\ UNCHANGED p2h
    BY <1>1, HangupOK DEF SessionOK
<1>2. CASE hopen /\ p2h' = p2h \o hw \o toks /\ hw' = <<>> /\ pc' = place
           /\ path' = p /\ fill' = "none" /\ UNCHANGED <<kind, gw, p2g, histVars>>
    <2>1. p2h' \in Seq(QueryTokens)
        BY <1>2, ConcatProperties DEF SessionOK
    <2>2. kind # "none"
        BY DEF Forwarded
    <2> QED
        BY <1>2, <2>1, <2>2
        DEF SessionOK, PeersOK, Places, HostWaits, PlaceFitsOp, NothingWithheld,
            histVars
<1> QED BY <1>1, <1>2 DEF SendHost

-----------------------------------------------------------------------------
LEMMA InitIInv == Init => IInv
<1> SUFFICES ASSUME Init PROVE IInv
    OBVIOUS
<1>1. SessionOK
    BY DEF Init, SessionOK, Places, HostWaits, PlaceFitsOp, NothingWithheld
<1>2. PeersOK
    BY BoundsAssumption DEF Init, PeersOK
<1> QED BY <1>1, <1>2 DEF IInv

\* Reading a token leaves a typed channel and yields a typed token.
LEMMA ReadOK ==
    ASSUME NEW s \in Seq(Tokens), s # <<>>
    PROVE  Head(s) \in Tokens /\ Tail(s) \in Seq(Tokens)
OBVIOUS

\* A guest's step.
LEMMA GuestIInv ==
    ASSUME IInv, GuestStep \/ GuestRecv
    PROVE  IInv'
<1> USE DEF IInv
<1>1. SessionOK'
    <2>1. UNCHANGED <<sessionVars, p2h, answers>>
        BY DEF GuestStep, GuestBegin, GuestSend, GuestRecv, GuestHangup, histVars
    <2> QED BY <2>1 DEF SessionOK, sessionVars, PlaceFitsOp, NothingWithheld
<1>2. ASSUME NEW r \in Requests, GuestBegin(r) PROVE PeersOK'
    <2>1. r \in AllRequests /\ RequestTokens(r) \in Seq(Tokens)
        BY RequestsAssumption, RequestTokensTyped
    <2> QED
        BY <1>2, <2>1 DEF GuestBegin, PeersOK, hostVars, storeVars, histVars
<1>3. CASE GuestSend
    <2>1. Head(gtodo) \in Tokens /\ Tail(gtodo) \in Seq(Tokens)
        BY <1>3, ReadOK DEF GuestSend, PeersOK
    <2>2. PeersOK'
        BY <1>3, <2>1 DEF GuestSend, PeersOK, hostVars, storeVars, histVars
    <2> QED BY <1>1, <2>2
<1>4. CASE GuestHangup
    <2>1. gopen' \in BOOLEAN
        BY <1>4, Zenon DEF GuestHangup
    <2>2. gtodo' = <<>> /\ p2g' = <<>>
            /\ UNCHANGED <<g2p, h2p, gst, asked, got, hostVars, storeVars, histVars>>
        BY <1>4, Zenon DEF GuestHangup
    <2>3. PeersOK'
        BY <2>1, <2>2 DEF PeersOK, hostVars, storeVars, histVars
    <2> QED BY <1>1, <2>3
<1>5. CASE GuestRecv
    <2> DEFINE k == IF Len(got) < Len(asked) THEN asked[Len(got) + 1].kind ELSE "none"
               t == Head(p2g)
               next == IF k = "none" THEN "lost" ELSE Parse(gst, k, t)
    <2>1. t \in Tokens /\ p2g' \in Seq(Tokens)
        BY <1>5, ReadOK DEF GuestRecv, PeersOK
    <2>2. /\ next = "done" => gst' = "stderr" /\ got' = Append(got, AnswerOf(k, t))
          /\ next # "done" => gst' = next /\ got' = got
        BY <1>5 DEF GuestRecv
    <2> HIDE DEF k, t
    <2>3. Parse(gst, k, t) \in {"stderr", "res", "rest", "done", "lost"}
        BY DEF Parse
    <2>4. Parse(gst, k, t) = "done" /\ k = "isvalid" /\ t.t = "res" =>
             t.v \in {"valid", "invalid"}
        BY DEF Parse, PeersOK, Res, Tok
    <2>5. Parse(gst, k, t) = "done" => AnswerOf(k, t) \in Answers
        BY <2>4 DEF AnswerOf, Answers
    <2>6. next \in {"stderr", "res", "rest", "done", "lost"}
            /\ (next = "done" => AnswerOf(k, t) \in Answers)
        BY <2>3, <2>5
    <2> HIDE DEF next
    <2>7. gst' \in {"stderr", "res", "rest", "lost"} /\ got' \in Seq(Answers)
        <3>1. got \in Seq(Answers)
            BY DEF PeersOK
        <3>2. CASE next = "done"
            BY <2>2, <2>6, <3>1, <3>2
        <3>3. CASE next # "done"
            BY <2>2, <2>6, <3>1, <3>3
        <3> QED BY <3>2, <3>3
    <2>8. PeersOK'
        BY <1>5, <2>1, <2>7 DEF GuestRecv, PeersOK, hostVars, storeVars, histVars
    <2> QED BY <1>1, <2>8
<1> QED BY <1>1, <1>2, <1>3, <1>4, <1>5 DEF GuestStep

-----------------------------------------------------------------------------
\* What the daemon replies is made of tokens.
LEMMA OutcomesTyped ==
    ASSUME NEW k, NEW look \in {"valid", "invalid"}, NEW out \in Outcomes(k, look)
    PROVE  out \in Seq(Tokens)
<1> HIDE DEF Tokens
<1>1. /\ Err("daemon") \in Tokens /\ Streaming \in Tokens /\ Broken \in Tokens
      /\ Last \in Tokens /\ Rest \in Tokens /\ Res(look) \in Tokens
      /\ Res("end") \in Tokens /\ Res("more") \in Tokens
    BY TokensMade
<1>2. /\ <<Err("daemon")>> \in Seq(Tokens)
      /\ <<Streaming>> \in Seq(Tokens)
      /\ <<Broken>> \in Seq(Tokens)
      /\ <<Last, Res(look)>> \in Seq(Tokens)
      /\ <<Last, Res("end")>> \in Seq(Tokens)
      /\ <<Last, Broken>> \in Seq(Tokens)
    BY <1>1
<1>3. /\ <<Last, Res("more"), Rest>> \in Seq(Tokens)
      /\ <<Last, Res("more"), Broken>> \in Seq(Tokens)
    BY <1>1
<1>4. \/ out \in {<<Err("daemon")>>, <<Streaming>>, <<Broken>>}
      \/ out = <<Last, Res(look)>>
      \/ out \in {<<Last, Res("end")>>, <<Last, Res("more"), Rest>>,
                  <<Last, Broken>>, <<Last, Res("more"), Broken>>}
    BY Zenon DEF Outcomes
<1> QED BY <1>2, <1>3, <1>4, Zenon

LEMMA LogsTyped == Logs \subseteq Seq(Tokens)
<1> SUFFICES ASSUME NEW n \in 0..MaxLogs, NEW l \in [1..n -> {Log}]
             PROVE  l \in Seq(Tokens)
    BY DEF Logs
<1>1. n \in Nat
    BY BoundsAssumption
<1>2. l \in [1..n -> Tokens]
    BY TokensMade
<1> QED BY <1>1, <1>2, SeqDef

\* A step of the daemon, of a fill's daemon or of another user of the host.
LEMMA HostIInv ==
    ASSUME IInv, HostStep \/ FillEnds \/ Others
    PROVE  IInv'
<1> USE DEF IInv
<1>1. CASE HostRun
    <2>1. SessionOK'
        <3>1. p2h' \in Seq(QueryTokens)
            <4>1. RequestLen \in {2, 3} /\ p2h \in Seq(QueryTokens)
                BY DEF RequestLen, SessionOK
            <4>2. p2h' = SubSeq(p2h, RequestLen + 1, Len(p2h))
                BY <1>1 DEF HostRun
            <4> QED BY <4>1, <4>2
        <3>2. UNCHANGED <<sessionVars, answers>>
            BY <1>1 DEF HostRun
        <3> QED BY <3>1, <3>2 DEF SessionOK, sessionVars, PlaceFitsOp, NothingWithheld
    <2>2. htodo' \in Seq(Tokens) /\ seen' \in {"unseen", "valid", "invalid", "result"}
        <3> DEFINE k == p2h[1].v
                   look == IF p2h[2].v \in valid THEN "valid" ELSE "invalid"
        <3>1. PICK logs \in Logs, out \in Outcomes(k, look) :
                 /\ htodo' = logs \o out
                 /\ seen' = IF out[1] # Last THEN seen
                            ELSE IF k = "isvalid" THEN look ELSE "result"
            BY <1>1 DEF HostRun
        <3>2. look \in {"valid", "invalid"}
            OBVIOUS
        <3> HIDE DEF k, look
        <3>3. logs \in Seq(Tokens) /\ out \in Seq(Tokens)
            BY <3>2, OutcomesTyped, LogsTyped
        <3>4. htodo' \in Seq(Tokens)
            BY <3>1, <3>3, ConcatProperties
        <3> QED BY <3>1, <3>2, <3>4 DEF PeersOK
    <2>3. PeersOK'
        BY <1>1, <2>2 DEF HostRun, PeersOK, guestVars, storeVars
    <2> QED BY <2>1, <2>3
<1>2. CASE HostSend \/ HostDies \/ StoreChanges \/ (\E p \in Paths : OrphanFetches(p))
    <2>1. SessionOK'
        <3>1. UNCHANGED <<sessionVars, answers>> /\ p2h' \in {p2h, <<>>}
            BY <1>2 DEF HostSend, HostDies, StoreChanges, OrphanFetches, histVars
        <3> QED BY <3>1 DEF SessionOK, sessionVars, PlaceFitsOp, NothingWithheld
    <2>2. CASE HostSend
        <3>1. Head(htodo) \in Tokens /\ Tail(htodo) \in Seq(Tokens)
            BY <2>2, ReadOK DEF HostSend, PeersOK
        <3>2. PeersOK'
            BY <2>2, <3>1 DEF HostSend, PeersOK, guestVars, storeVars, histVars
        <3> QED BY <2>1, <3>2
    <2>3. CASE HostDies
        <3>1. hopen' \in BOOLEAN
            BY <2>3, Zenon DEF HostDies
        <3>2. htodo' = <<>> /\ UNCHANGED <<g2p, p2g, h2p, guestVars, storeVars, histVars>>
            BY <2>3, Zenon DEF HostDies
        <3>3. PeersOK'
            BY <3>1, <3>2 DEF PeersOK, guestVars, storeVars, histVars
        <3> QED BY <2>1, <3>3
    <2>4. CASE StoreChanges
        <3>1. changes' \in 0..MaxChanges /\ valid' \subseteq Paths
            BY <2>4, BoundsAssumption DEF StoreChanges, PeersOK
        <3>2. PeersOK'
            BY <2>4, <3>1 DEF StoreChanges, PeersOK, guestVars, hostVars, histVars
        <3> QED BY <2>1, <3>2
    <2>5. CASE \E p \in Paths : OrphanFetches(p)
        <3>1. PeersOK'
            BY <2>5 DEF OrphanFetches, PeersOK, guestVars, hostVars, histVars
        <3> QED BY <2>1, <3>1
    <2> QED BY <1>2, <2>2, <2>3, <2>4, <2>5
<1>3. CASE FillEnds
    <2>1. /\ pc = "fill" /\ UNCHANGED <<pc, kind, path, hw, gw, p2h, answers>>
          /\ fill' \in {"ensured", "failed"}
        BY <1>3 DEF FillEnds, FillEnsured, FillFails, FillStep, histVars
    <2>2. SessionOK'
        BY <2>1 DEF SessionOK, PlaceFitsOp, NothingWithheld
    <2>3. path \in Manifest /\ path \in Paths
        BY <2>1, ManifestAssumption DEF SessionOK
    <2>4. valid' \subseteq Paths /\ orphans' \subseteq Manifest /\ changes' = changes
        BY <1>3, <2>3 DEF FillEnds, FillEnsured, FillFails, storeVars, PeersOK
    <2>5. UNCHANGED <<g2p, p2g, h2p, guestVars, hostVars, histVars>>
        BY <1>3 DEF FillEnds, FillEnsured, FillFails, FillStep
    <2>6. PeersOK'
        BY <2>4, <2>5 DEF PeersOK, guestVars, hostVars, histVars
    <2> QED BY <2>2, <2>6
<1> QED BY <1>1, <1>2, <1>3 DEF HostStep, Others

-----------------------------------------------------------------------------
(* The session's steps.                                                    *)

\* An answer to an isvalid.
LEMMA ReplyValidityOK ==
    ASSUME SessionOK, PeersOK, pc \notin {"args", "flag"},
           NEW v \in {"valid", "invalid"}, ReplyValidity(v), p2h' = p2h
    PROVE  SessionOK' /\ p2g' \in Seq(Tokens)
             /\ seen' \in {"unseen", "valid", "invalid", "result"}
<1>1. Last \in Tokens /\ Res(v) \in Tokens
    BY TokensMade
<1>2. <<Last, Res(v)>> \in Seq(Tokens)
    BY <1>1
<1>3. v \in Answers
    BY DEF Answers
<1> QED BY <1>2, <1>3, ReplyOK DEF ReplyValidity

LEMMA IncompleteOK ==
    ASSUME SessionOK
    PROVE  Incomplete \in Seq(QueryTokens)
<1>1. hw \in Seq(QueryTokens) /\ Begun \in QueryTokens
    BY TokensMade DEF SessionOK
<1> HIDE DEF QueryTokens
<1>2. Append(hw, Begun) \in Seq(QueryTokens)
    BY <1>1
<1> QED BY <1>1, <1>2 DEF Incomplete

\* The unfinished prefix that a full BufWriter pushes out.
LEMMA SpillsPrefixOK ==
    ASSUME SessionOK, SpillsPrefix
    PROVE  p2h' \in Seq(QueryTokens)
<1> HIDE DEF QueryTokens
<1> DEFINE q == Incomplete
<1>1. q \in Seq(QueryTokens) /\ p2h \in Seq(QueryTokens)
    BY IncompleteOK DEF SessionOK
<1>2. CASE UNCHANGED p2h
    BY <1>1, <1>2
<1>3. CASE \E n \in 1..Len(q) : p2h' = p2h \o SubSeq(q, 1, n)
    <2> HIDE DEF q
    <2>1. PICK n \in 1..Len(q) : p2h' = p2h \o SubSeq(q, 1, n)
        BY <1>3
    <2>2. SubSeq(q, 1, n) \in Seq(QueryTokens)
        BY <1>1
    <2> QED BY <1>1, <2>1, <2>2, ConcatProperties
<1> QED BY <1>2, <1>3 DEF SpillsPrefix

\* What every step of the session leaves alone, and what it reads.
LEMMA SessionFrame ==
    ASSUME PeersOK, SessionStep
    PROVE  /\ UNCHANGED <<guestVars, hostVars, storeVars>>
           /\ g2p' \in Seq(Tokens) /\ h2p' \in Seq(Tokens)
<1>1. /\ g2p # <<>> => Tail(g2p) \in Seq(Tokens)
      /\ h2p # <<>> => Tail(h2p) \in Seq(Tokens)
    BY ReadOK DEF PeersOK
<1>2. CASE RejectOp \/ AcceptOp \/ GuestGone \/ ForwardArgs \/ SwallowOptions
            \/ CopyList \/ CopyFlag \/ BadArgs \/ ArgsSpillFails \/ ArgsTimeout
    BY <1>1, <1>2
    DEF RejectOp, AcceptOp, GuestGone, ForwardArgs, SwallowOptions, CopyList, CopyFlag,
        BadArgs, ArgsSpillFails, ArgsTimeout, ReadsArg, ReadsGuest, PeersOK
<1>3. CASE HostLost \/ HostStreams \/ RelayLog \/ RelayError \/ RelayLast
            \/ RelayResult \/ RelayRest \/ AnswerFromHost \/ StartFill
    BY <1>1, <1>3
    DEF HostLost, HostStreams, RelayLog, RelayError, RelayLast, RelayResult, RelayRest,
        AnswerFromHost, StartFill, ReadsHost, PeersOK
<1>4. CASE FillDial \/ FillAsk \/ AnswerAfterFailedFill \/ Recheck \/ DropLog
            \/ RecheckLast \/ RecheckError \/ AnswerFromRecheck
    BY <1>1, <1>4
    DEF FillDial, FillAsk, FillStep, AnswerAfterFailedFill, Recheck, DropLog,
        RecheckLast, RecheckError, AnswerFromRecheck, ReadsHost, PeersOK
<1> QED BY <1>2, <1>3, <1>4 DEF SessionStep

\* Between an op word and the end of its arguments.
LEMMA RequestSteps ==
    ASSUME IInv,
           \/ RejectOp \/ AcceptOp \/ GuestGone \/ ForwardArgs \/ SwallowOptions
           \/ CopyList \/ CopyFlag \/ BadArgs \/ ArgsSpillFails \/ ArgsTimeout
    PROVE  SessionOK' /\ p2g' \in Seq(Tokens)
             /\ seen' \in {"unseen", "valid", "invalid", "result"}
<1>0. SessionOK /\ PeersOK
    BY DEF IInv
<1> DEFINE t == Head(g2p)
<1>t. /\ g2p # <<>> => t \in Tokens
      /\ hw \in Seq(QueryTokens) /\ p2h \in Seq(QueryTokens)
    BY <1>0, ReadOK DEF PeersOK, SessionOK
<1>a. ASSUME ReadsArg
      PROVE  t \in QueryTokens /\ t.v \in Paths /\ pc = "args" /\ gw = <<>>
    BY <1>0, <1>a, <1>t, TokenTags DEF ReadsArg, ReadsGuest, SessionOK, NothingWithheld
<1>1. CASE RejectOp
    BY <1>0, <1>1, <1>t, RejectOK DEF RejectOp
<1>2. CASE AcceptOp
    <2>1. t.v \in Kinds /\ (Forwarded(t.v) => t \in QueryTokens)
        BY <1>2, <1>t, TokenTags DEF AcceptOp, ReadsGuest
    <2>2. hw = <<>> /\ gw = <<>>
        BY <1>0, <1>2 DEF AcceptOp, SessionOK, NothingWithheld
    <2>3. hw' \in Seq(QueryTokens) /\ (t.v = "setoptions" => hw' = <<>>)
        BY <1>2, <2>1, <2>2 DEF AcceptOp, Forwarded
    <2> HIDE DEF t
    <2>4. pc' = "args" /\ kind' = t.v
            /\ UNCHANGED <<path, gw, fill, p2g, p2h, histVars>>
        BY <1>2 DEF AcceptOp, t
    <2>5. kind' \in Kinds /\ kind' # "none"
        BY <2>1, <2>4 DEF Kinds
    <2>6. PlaceFitsOp'
        BY <2>4, <2>5 DEF PlaceFitsOp, HostWaits
    <2>7. SessionOK'
        BY <1>0, <2>2, <2>3, <2>4, <2>5, <2>6
        DEF SessionOK, NothingWithheld, Places, histVars
    <2> QED BY <1>0, <2>4, <2>7 DEF PeersOK, histVars
<1>3. CASE GuestGone
    BY <1>0, <1>3, <1>t, HangupOK DEF GuestGone
<1>4. CASE ForwardArgs
    <2>1. <<t>> \in Seq(QueryTokens) /\ t.v \in Paths /\ gw = <<>>
        BY <1>4, <1>a DEF ForwardArgs
    <2>2. Forwarded(kind) /\ SendHost(<<t>>, "stderr", t.v)
        BY <1>4 DEF ForwardArgs, Forwarded
    <2> HIDE DEF t
    <2> QED BY <1>0, <2>1, <2>2, SendHostOK
<1>5. CASE SwallowOptions
    <2>1. <<Last>> \in Seq(Tokens) /\ "ok" \in Answers
        BY TokensMade DEF Answers
    <2> QED BY <1>0, <1>5, <2>1, ReplyOK DEF SwallowOptions
<1>6. CASE CopyList
    <2>1. t \in QueryTokens /\ t.v \in Paths /\ pc = "args" /\ gw = <<>>
        BY <1>6, <1>a DEF CopyList
    <2> HIDE DEF t
    <2>2. <<t>> \in Seq(QueryTokens) /\ Append(hw, t) \in Seq(QueryTokens)
        BY <1>t, <2>1
    <2>3. hw' \in Seq(QueryTokens) /\ p2h' \in Seq(QueryTokens)
        <3>1. \/ hw' = Append(hw, t) /\ p2h' = p2h
              \/ hw' = <<t>> /\ p2h' = p2h \o hw
              \/ hw' = <<>> /\ p2h' = p2h \o Append(hw, t)
            BY <1>6 DEF CopyList, t
        <3>2. p2h \o hw \in Seq(QueryTokens) /\ p2h \o Append(hw, t) \in Seq(QueryTokens)
            BY <1>t, <2>2, ConcatProperties
        <3>3. <<>> \in Seq(QueryTokens)
            OBVIOUS
        <3> QED BY <1>t, <2>2, <3>1, <3>2, <3>3, Zenon
    <2>4. pc' = "flag" /\ kind = "queryvalid" /\ path' = t.v
            /\ UNCHANGED <<kind, gw, fill, p2g, histVars>>
        BY <1>6 DEF CopyList, t
    <2>5. SessionOK'
        BY <1>0, <2>1, <2>3, <2>4
        DEF SessionOK, NothingWithheld, PlaceFitsOp, Places, HostWaits, histVars
    <2> QED BY <1>0, <2>4, <2>5 DEF PeersOK, histVars
<1>7. CASE CopyFlag
    <2>1. t \in QueryTokens /\ <<t>> \in Seq(QueryTokens)
        <3>1. t \in Tokens /\ t.t = "flag" /\ t.v = "0"
            BY <1>7, <1>t DEF CopyFlag, ReadsGuest
        <3> HIDE DEF t
        <3>2. t \in QueryTokens
            BY <3>1, TokenTags
        <3> QED BY <3>2
    <2>2. path \in Paths /\ kind = "queryvalid" /\ gw = <<>>
        BY <1>0, <1>7 DEF CopyFlag, SessionOK, PlaceFitsOp, NothingWithheld
    <2>3. Forwarded(kind) /\ SendHost(<<t>>, "stderr", path)
        BY <1>7, <2>2 DEF CopyFlag, Forwarded
    <2> HIDE DEF t
    <2> QED BY <1>0, <2>1, <2>2, <2>3, SendHostOK
<1>8. CASE BadArgs
    BY <1>0, <1>8, SpillsPrefixOK, RejectOK DEF BadArgs
<1>9. CASE ArgsSpillFails
    BY <1>0, <1>9, <1>t, RejectOK DEF ArgsSpillFails
<1>10. CASE ArgsTimeout
    BY <1>0, <1>10, SpillsPrefixOK, RejectOK DEF ArgsTimeout
<1> QED BY <1>1, <1>2, <1>3, <1>4, <1>5, <1>6, <1>7, <1>8, <1>9, <1>10

\* Between the end of the arguments and the end of the reply.
LEMMA ReplySteps ==
    ASSUME IInv,
           \/ HostLost \/ HostStreams
           \/ RelayLog \/ RelayError \/ RelayLast \/ RelayResult \/ RelayRest
    PROVE  SessionOK' /\ p2g' \in Seq(Tokens)
             /\ seen' \in {"unseen", "valid", "invalid", "result"}
<1>0. SessionOK /\ PeersOK
    BY DEF IInv
<1> DEFINE t == Head(h2p)
<1>t. /\ h2p # <<>> => t \in Tokens
      /\ p2h \in Seq(QueryTokens) /\ gw \in Seq(Tokens) /\ p2g \in Seq(Tokens)
    BY <1>0, ReadOK DEF PeersOK, SessionOK
<1>1. CASE HostLost
    BY <1>0, <1>1, <1>t, HangupOK DEF HostLost
<1>2. CASE HostStreams
    <2>1. p2h' = p2h /\ (Reject \/ Hangup)
        BY <1>2 DEF HostStreams
    <2> QED BY <1>0, <1>t, <2>1, RejectOK, HangupOK
<1>3. CASE RelayLog
    <2>1. CASE Deliver(<<Log>>) /\ UNCHANGED <<pc, kind, path, hw, fill, histVars>>
        <3>1. <<Log>> \in Seq(Tokens)
            BY TokensMade
        <3>2. p2g' \in Seq(Tokens) /\ gw' = <<>>
            BY <1>t, <2>1, <3>1, ConcatProperties DEF Deliver
        <3>3. p2h' = p2h
            BY <1>3 DEF RelayLog
        <3>4. SessionOK'
            BY <1>0, <2>1, <3>2, <3>3
            DEF SessionOK, PlaceFitsOp, NothingWithheld, histVars
        <3> QED BY <1>0, <2>1, <3>2, <3>4 DEF PeersOK, histVars
    <2>2. CASE ~gopen /\ Hangup
        BY <1>0, <1>3, <1>t, <2>2, HangupOK DEF RelayLog
    <2> QED BY <1>3, <2>1, <2>2 DEF RelayLog
<1>4. CASE RelayError
    <2>1. <<Err("daemon")>> \in Seq(Tokens) /\ "error" \in Answers
        BY TokensMade DEF Answers
    <2> QED BY <1>0, <1>4, <2>1, ReplyOK DEF RelayError
<1>5. CASE RelayLast
    <2>1. /\ UNCHANGED <<kind, path, hw, fill, p2g, p2h, histVars>>
          /\ pc = "stderr"
          /\ \/ kind = "isvalid" /\ pc' = "ivresult" /\ gw' = gw
             \/ kind # "isvalid" /\ pc' = "result" /\ gw' = Append(gw, Last)
        BY <1>5 DEF RelayLast
    <2>2. Append(gw, Last) \in Seq(Tokens)
        BY <1>t, TokensMade
    <2>3. SessionOK'
        BY <1>0, <2>1, <2>2
        DEF SessionOK, NothingWithheld, PlaceFitsOp, Places, HostWaits, Forwarded, histVars
    <2> QED BY <1>0, <2>1, <2>3 DEF PeersOK, histVars
<1>6. CASE RelayResult
    <2>1. t \in Tokens /\ p2h' = p2h /\ pc = "result"
        BY <1>6, <1>t DEF RelayResult, ReadsHost
    <2>2. \/ Reply(<<t>>, "result")
          \/ /\ pc' = "rest"
             /\ \/ gw' = Append(gw, t) /\ UNCHANGED p2g
                \/ gopen /\ p2g' = p2g \o gw \o <<t>> /\ gw' = <<>>
             /\ UNCHANGED <<kind, path, hw, fill, histVars>>
        BY <1>6 DEF RelayResult
    <2> HIDE DEF t
    <2>3. <<t>> \in Seq(Tokens) /\ Append(gw, t) \in Seq(Tokens) /\ "result" \in Answers
        BY <1>t, <2>1 DEF Answers
    <2>4. CASE Reply(<<t>>, "result")
        BY <1>0, <2>1, <2>3, <2>4, ReplyOK
    <2>5. CASE /\ pc' = "rest"
               /\ \/ gw' = Append(gw, t) /\ UNCHANGED p2g
                  \/ gopen /\ p2g' = p2g \o gw \o <<t>> /\ gw' = <<>>
               /\ UNCHANGED <<kind, path, hw, fill, histVars>>
        <3>1. p2g \o gw \o <<t>> \in Seq(Tokens)
            BY <1>t, <2>3, ConcatProperties
        <3>2. p2g' \in Seq(Tokens) /\ gw' \in Seq(Tokens)
            <4>1. <<>> \in Seq(Tokens)
                OBVIOUS
            <4> QED BY <1>t, <2>3, <2>5, <3>1, <4>1, Zenon
        <3>3. SessionOK'
            BY <1>0, <2>1, <2>5, <3>2
            DEF SessionOK, NothingWithheld, PlaceFitsOp, Places, HostWaits, histVars
        <3> QED BY <1>0, <2>5, <3>2, <3>3 DEF PeersOK, histVars
    <2> QED BY <2>2, <2>4, <2>5
<1>7. CASE RelayRest
    <2>1. <<Rest>> \in Seq(Tokens) /\ "result" \in Answers
        BY TokensMade DEF Answers
    <2> QED BY <1>0, <1>7, <2>1, ReplyOK DEF RelayRest
<1> QED BY <1>1, <1>2, <1>3, <1>4, <1>5, <1>6, <1>7

\* intercept_is_valid_path.
LEMMA InterceptSteps ==
    ASSUME IInv,
           \/ AnswerFromHost \/ StartFill
           \/ FillDial \/ FillAsk \/ AnswerAfterFailedFill
           \/ Recheck \/ DropLog \/ RecheckLast \/ RecheckError \/ AnswerFromRecheck
    PROVE  SessionOK' /\ p2g' \in Seq(Tokens)
             /\ seen' \in {"unseen", "valid", "invalid", "result"}
<1>0. SessionOK /\ PeersOK
    BY DEF IInv
<1>1. CASE AnswerFromHost \/ AnswerAfterFailedFill \/ RecheckError \/ AnswerFromRecheck
    <2>1. \A t : Verdict(t) \in {"valid", "invalid"}
        BY DEF Verdict
    <2>2. PICK v \in {"valid", "invalid"} : ReplyValidity(v)
        BY <1>1, <2>1
        DEF AnswerFromHost, AnswerAfterFailedFill, RecheckError, AnswerFromRecheck
    <2>3. pc \notin {"args", "flag"} /\ p2h' = p2h
        BY <1>1
        DEF AnswerFromHost, AnswerAfterFailedFill, RecheckError, AnswerFromRecheck
    <2> QED BY <1>0, <2>2, <2>3, ReplyValidityOK
<1>2. CASE StartFill \/ RecheckLast
    <2>1. /\ UNCHANGED <<kind, path, hw, gw, fill, p2g, p2h, histVars>>
          /\ \/ pc = "ivresult" /\ pc' = "fill" /\ path \in Manifest
             \/ pc = "restderr" /\ pc' = "reresult"
        BY <1>2 DEF StartFill, RecheckLast
    <2>2. SessionOK'
        BY <1>0, <2>1
        DEF SessionOK, NothingWithheld, PlaceFitsOp, Places, HostWaits, histVars
    <2> QED BY <1>0, <2>1, <2>2 DEF PeersOK, histVars
<1>3. CASE FillDial \/ FillAsk \/ DropLog
    <2>1. /\ UNCHANGED <<pc, kind, path, hw, gw, p2g, p2h, histVars>>
          /\ fill' \in {fill, "dialed", "asked"}
        BY <1>3 DEF FillDial, FillAsk, FillStep, DropLog, sessionVars
    <2>2. SessionOK'
        BY <1>0, <2>1 DEF SessionOK, NothingWithheld, PlaceFitsOp, histVars
    <2> QED BY <1>0, <2>1, <2>2 DEF PeersOK, histVars
<1>4. CASE Recheck
    <2>1. path \in Paths /\ kind = "isvalid" /\ gw = <<>>
        BY <1>0, <1>4 DEF Recheck, SessionOK, PlaceFitsOp, NothingWithheld
    <2>2. <<Word("isvalid"), Arg(path)>> \in Seq(QueryTokens) /\ Forwarded(kind)
        BY <2>1, TokensMade DEF Forwarded
    <2> QED BY <1>0, <1>4, <2>1, <2>2, SendHostOK DEF Recheck
<1> QED BY <1>1, <1>2, <1>3, <1>4

-----------------------------------------------------------------------------
\* Every step keeps the inductive invariant.
LEMMA NextIInv == IInv /\ [Next]_vars => IInv'
<1> SUFFICES ASSUME IInv, [Next]_vars PROVE IInv'
    OBVIOUS
<1>1. CASE SessionStep
    <2>1. /\ SessionOK' /\ p2g' \in Seq(Tokens)
          /\ seen' \in {"unseen", "valid", "invalid", "result"}
        BY <1>1, RequestSteps, ReplySteps, InterceptSteps DEF SessionStep
    <2>2. /\ UNCHANGED <<guestVars, hostVars, storeVars>>
          /\ g2p' \in Seq(Tokens) /\ h2p' \in Seq(Tokens)
        BY <1>1, SessionFrame DEF IInv
    <2>3. PeersOK'
        BY <2>1, <2>2 DEF IInv, PeersOK, guestVars, hostVars, storeVars
    <2> QED BY <2>1, <2>3 DEF IInv
<1>2. CASE GuestStep \/ GuestRecv
    BY <1>2, GuestIInv
<1>3. CASE HostStep \/ FillEnds \/ Others
    BY <1>3, HostIInv
<1>4. CASE UNCHANGED vars
    <2>1. SessionOK'
        BY <1>4 DEF IInv, SessionOK, NothingWithheld, PlaceFitsOp, vars, sessionVars, histVars
    <2>2. PeersOK'
        BY <1>4 DEF IInv, PeersOK, vars, guestVars, hostVars, storeVars, histVars
    <2> QED BY <2>1, <2>2 DEF IInv
<1> QED BY <1>1, <1>2, <1>3, <1>4 DEF Next, Terminated

\* The inductive invariant holds throughout.
THEOREM SessionInvariant == Spec => []IInv
<1> QED BY InitIInv, NextIInv, PTL DEF Spec

\* Every variable keeps its type, and the op loop is only ever in a place
\* that fits the op it serves (session.rs, run and intercept_is_valid_path).
THEOREM SessionTypeOK == Spec => []TypeOK
<1>1. IInv => TypeOK
    <2>1. \A s \in Seq(QueryTokens) : s \in Seq(Tokens)
        BY TokensMade
    <2>2. Manifest \subseteq Paths
        BY ManifestAssumption
    <2> QED BY <2>1, <2>2 DEF IInv, SessionOK, PeersOK, TypeOK
<1> QED BY <1>1, SessionInvariant, PTL

\* Nobody waits for bytes that sit in a BufWriter: whenever the session
\* waits, what it owes the other side has been flushed.
THEOREM SessionNothingWithheld == Spec => []NothingWithheld
<1>1. IInv => NothingWithheld
    BY DEF IInv, SessionOK
<1> QED BY <1>1, SessionInvariant, PTL

\* Only tokens of allowed queries are written toward the host daemon,
\* whatever the guest sends and however often its requests are cut short.
THEOREM SessionHostSeesOnlyQueries == Spec => []HostSeesOnlyQueries
<1>1. IInv => HostSeesOnlyQueries
    BY DEF IInv, SessionOK, HostSeesOnlyQueries
<1> QED BY <1>1, SessionInvariant, PTL

\* Only paths the manifest lists are ever fetched, also by a fill whose
\* session is over.
THEOREM SessionFetchesListed == Spec => []FetchesListed
<1>1. IInv => FetchesListed
    BY DEF IInv, SessionOK, PeersOK, FetchesListed
<1> QED BY <1>1, SessionInvariant, PTL

\* A step that answers says what; it answers "invalid" only with the daemon's
\* verdict on a path that is not listed, after a failed fill, or with the
\* verdict of a re-check.
LEMMA InvalidIsLate ==
    ASSUME IInv, [Next]_vars, answers' = Append(answers, "invalid"), path \in Manifest
    PROVE  \/ pc = "fill" /\ fill = "failed"
           \/ pc \in {"restderr", "reresult"}
<1>1. answers \in Seq(Answers) /\ PlaceFitsOp
    BY DEF IInv, SessionOK
<1>2. answers' # answers /\ \A a : answers' = Append(answers, a) => a = "invalid"
    <2> HIDE DEF Answers
    <2>1. Len(answers') = Len(answers) + 1 /\ Len(answers) \in Nat
        BY <1>1
    <2>2. answers'[Len(answers) + 1] = "invalid"
        BY <1>1
    <2>3. ASSUME NEW a, answers' = Append(answers, a) PROVE a = "invalid"
        BY <1>1, <2>2, <2>3
    <2> QED BY <2>1, <2>3
<1>3. SessionStep
    BY <1>2
    DEF Next, Terminated, vars, histVars, GuestStep, GuestBegin, GuestSend, GuestHangup,
        GuestRecv, HostStep, HostRun, HostSend, FillEnds, FillEnsured, FillFails, FillStep,
        Others, HostDies, StoreChanges, OrphanFetches
<1>4. ~Hangup /\ ~Reject
    BY <1>2 DEF Hangup, Reject, histVars
<1>5. \A toks, a : Reply(toks, a) => a = "invalid"
    BY <1>2, <1>4 DEF Reply
<1>6. \A toks, place, p : ~SendHost(toks, place, p)
    BY <1>2, <1>4 DEF SendHost, histVars
<1>7. ~(RejectOp \/ AcceptOp \/ GuestGone \/ ForwardArgs \/ SwallowOptions \/ CopyList
          \/ CopyFlag \/ BadArgs \/ ArgsSpillFails \/ ArgsTimeout)
    BY <1>2, <1>4, <1>5, <1>6
    DEF RejectOp, AcceptOp, GuestGone, ForwardArgs, SwallowOptions, CopyList, CopyFlag,
        BadArgs, ArgsSpillFails, ArgsTimeout, histVars
<1>8. ~(HostLost \/ HostStreams \/ RelayLog \/ RelayError \/ RelayLast \/ RelayResult
          \/ RelayRest)
    BY <1>2, <1>4, <1>5
    DEF HostLost, HostStreams, RelayLog, RelayError, RelayLast, RelayResult, RelayRest,
        histVars
<1>9. ~(StartFill \/ FillDial \/ FillAsk \/ Recheck \/ DropLog \/ RecheckLast)
    BY <1>2, <1>4, <1>6
    DEF StartFill, FillDial, FillAsk, FillStep, Recheck, DropLog, RecheckLast, histVars
<1>10. ~AnswerFromHost
    BY <1>5 DEF AnswerFromHost, ReplyValidity
<1> QED BY <1>3, <1>7, <1>8, <1>9, <1>10
        DEF SessionStep, AnswerAfterFailedFill, RecheckError, AnswerFromRecheck

\* A listed path is called invalid only once the fill of it has failed or the
\* host has denied it again: the daemon's first look alone never decides
\* (session.rs, intercept_is_valid_path).
THEOREM SessionInvalidOnlyAfterFill == Spec => InvalidOnlyAfterFill
<1>1. IInv /\ [Next]_vars =>
          [answers' = Append(answers, "invalid") /\ path \in Manifest =>
              \/ pc = "fill" /\ fill = "failed"
              \/ pc \in {"restderr", "reresult"}]_vars
    BY InvalidIsLate
<1> QED BY <1>1, SessionInvariant, PTL DEF Spec, InvalidOnlyAfterFill


-----------------------------------------------------------------------------
(* Runs of an automaton, given by a set of steps <<place, token, place>>.  *)

\* The places one comes by when s is read from a: b is the last of them.
Walk(T, s, r) == \A i \in 1..Len(s) : <<r[i], s[i], r[i + 1]>> \in T

Run(T, s, a, b) ==
    \E r : Walk(T, s, r) /\ r[1] = a /\ r[Len(s) + 1] = b

LEMMA RunNothing ==
    ASSUME NEW T, NEW a
    PROVE  Run(T, <<>>, a, a)
<1> DEFINE r == [i \in {1} |-> a]
<1>1. Walk(T, <<>>, r) /\ r[1] = a /\ r[Len(<<>>) + 1] = a
    BY DEF Walk
<1> QED BY <1>1, Zenon DEF Run

LEMMA NothingRuns ==
    ASSUME NEW T, NEW a, NEW b, Run(T, <<>>, a, b)
    PROVE  a = b
BY DEF Run

LEMMA RunOne ==
    ASSUME NEW T, NEW a, NEW t, NEW b, <<a, t, b>> \in T
    PROVE  Run(T, <<t>>, a, b)
<1> DEFINE r == [i \in {1, 2} |-> IF i = 1 THEN a ELSE b]
<1>1. r[1] = a /\ r[2] = b
    OBVIOUS
<1> HIDE DEF r
<1>2. Len(<<t>>) = 1 /\ <<t>>[1] = t
    OBVIOUS
<1>3. Walk(T, <<t>>, r)
    BY <1>1, <1>2 DEF Walk
<1> QED BY <1>1, <1>2, <1>3 DEF Run

\* Reading the first token.
LEMMA RunHead ==
    ASSUME NEW S, NEW T, NEW s \in Seq(S), s # <<>>, NEW a, NEW b, Run(T, s, a, b)
    PROVE  \E c : <<a, Head(s), c>> \in T /\ Run(T, Tail(s), c, b)
<1>1. PICK r : Walk(T, s, r) /\ r[1] = a /\ r[Len(s) + 1] = b
    BY DEF Run
<1>2. Len(s) \in Nat \ {0} /\ Head(s) = s[1] /\ Len(Tail(s)) = Len(s) - 1
        /\ \A i \in 1..(Len(s) - 1) : Tail(s)[i] = s[i + 1]
    OBVIOUS
<1>3. <<a, Head(s), r[2]>> \in T
    BY <1>1, <1>2 DEF Walk
<1> DEFINE q == [i \in 1..Len(s) |-> r[i + 1]]
<1>4. q[1] = r[2] /\ q[Len(Tail(s)) + 1] = b
    BY <1>1, <1>2
<1>5. \A i \in 1..Len(Tail(s)) : q[i] = r[i + 1] /\ q[i + 1] = r[(i + 1) + 1]
    BY <1>2
<1>6. \A i \in 1..Len(Tail(s)) : <<r[i + 1], s[i + 1], r[(i + 1) + 1]>> \in T
    BY <1>1, <1>2 DEF Walk
<1> HIDE DEF q
<1>7. Walk(T, Tail(s), q)
    BY <1>2, <1>5, <1>6 DEF Walk
<1>8. Run(T, Tail(s), r[2], b)
    BY <1>4, <1>7 DEF Run
<1> QED BY <1>3, <1>8

\* One run after the other, and back.
LEMMA RunConcat ==
    ASSUME NEW S, NEW T, NEW s \in Seq(S), NEW u \in Seq(S),
           NEW a, NEW b, NEW c, Run(T, s, a, b), Run(T, u, b, c)
    PROVE  Run(T, s \o u, a, c)
<1>1. PICK r : Walk(T, s, r) /\ r[1] = a /\ r[Len(s) + 1] = b
    BY DEF Run
<1>2. PICK q : Walk(T, u, q) /\ q[1] = b /\ q[Len(u) + 1] = c
    BY DEF Run
<1> DEFINE m == Len(s)
           n == Len(u)
           p == [i \in 1..(m + n + 1) |-> IF i <= m THEN r[i] ELSE q[i - m]]
<1>3. m \in Nat /\ n \in Nat /\ Len(s \o u) = m + n
        /\ (\A i \in 1..m : (s \o u)[i] = s[i])
        /\ (\A i \in (m + 1)..(m + n) : (s \o u)[i] = u[i - m])
    BY ConcatProperties
<1>4. \A i \in 1..(m + n + 1) : p[i] = IF i <= m THEN r[i] ELSE q[i - m]
    OBVIOUS
<1>5. \A i \in 1..m : <<r[i], s[i], r[i + 1]>> \in T
    BY <1>1 DEF Walk
<1>6. \A i \in 1..n : <<q[i], u[i], q[i + 1]>> \in T
    BY <1>2 DEF Walk
<1> HIDE DEF m, n, p
<1>7. p[1] = a /\ p[m + n + 1] = c
    BY <1>1, <1>2, <1>3, <1>4 DEF m, n
<1>8. ASSUME NEW i \in 1..m PROVE <<p[i], (s \o u)[i], p[i + 1]>> \in T
    <2>1. p[i] = r[i]
        BY <1>3, <1>4
    <2>2. p[i + 1] = r[i + 1]
        <3>1. CASE i < m
            BY <1>3, <1>4, <3>1
        <3>2. CASE i = m
            <4>1. p[i + 1] = q[1]
                BY <1>3, <1>4, <3>2
            <4> QED BY <1>1, <1>2, <3>2, <4>1 DEF m
        <3> QED BY <1>3, <3>1, <3>2
    <2> QED BY <1>3, <1>5, <2>1, <2>2
<1>9. ASSUME NEW i \in (m + 1)..(m + n) PROVE <<p[i], (s \o u)[i], p[i + 1]>> \in T
    <2>1. i - m \in 1..n /\ (i + 1) - m = (i - m) + 1
        BY <1>3
    <2>2. p[i] = q[i - m] /\ p[i + 1] = q[(i - m) + 1]
        BY <1>3, <1>4, <2>1
    <2> QED BY <1>3, <1>6, <2>1, <2>2
<1>10. \A i \in 1..(m + n) : i \in 1..m \/ i \in (m + 1)..(m + n)
    BY <1>3
<1>11. Walk(T, s \o u, p)
    BY <1>3, <1>8, <1>9, <1>10 DEF Walk
<1> QED BY <1>3, <1>7, <1>11 DEF Run

LEMMA RunSplits ==
    ASSUME NEW S, NEW T, NEW s \in Seq(S), NEW u \in Seq(S),
           NEW a, NEW c, Run(T, s \o u, a, c)
    PROVE  \E b : Run(T, s, a, b)
<1>1. PICK r : Walk(T, s \o u, r) /\ r[1] = a
    BY DEF Run
<1>2. Len(s) \in Nat /\ Len(u) \in Nat /\ Len(s \o u) = Len(s) + Len(u)
        /\ \A i \in 1..Len(s) : (s \o u)[i] = s[i]
    BY ConcatProperties
<1>3. Walk(T, s, r)
    BY <1>1, <1>2 DEF Walk
<1> QED BY <1>1, <1>3 DEF Run

\* More steps allow no fewer runs.
LEMMA RunGrows ==
    ASSUME NEW T, NEW U, T \subseteq U, NEW s, NEW a, NEW b, Run(T, s, a, b)
    PROVE  Run(U, s, a, b)
BY DEF Run, Walk

LEMMA RunTwo ==
    ASSUME NEW T, NEW a, NEW t, NEW b, NEW u, NEW c, <<a, t, b>> \in T, <<b, u, c>> \in T
    PROVE  Run(T, <<t, u>>, a, c)
<1> DEFINE r == [i \in {1, 2, 3} |-> IF i = 1 THEN a ELSE IF i = 2 THEN b ELSE c]
<1>1. r[1] = a /\ r[2] = b /\ r[3] = c
    OBVIOUS
<1> HIDE DEF r
<1>2. Len(<<t, u>>) = 2 /\ <<t, u>>[1] = t /\ <<t, u>>[2] = u
    OBVIOUS
<1>3. Walk(T, <<t, u>>, r)
    BY <1>1, <1>2 DEF Walk
<1> QED BY <1>1, <1>2, <1>3 DEF Run

LEMMA RunThree ==
    ASSUME NEW T, NEW a, NEW t, NEW b, NEW u, NEW c, NEW v, NEW d,
           <<a, t, b>> \in T, <<b, u, c>> \in T, <<c, v, d>> \in T
    PROVE  Run(T, <<t, u, v>>, a, d)
<1> DEFINE r == [i \in {1, 2, 3, 4} |->
                    IF i = 1 THEN a ELSE IF i = 2 THEN b ELSE IF i = 3 THEN c ELSE d]
<1>1. r[1] = a /\ r[2] = b /\ r[3] = c /\ r[4] = d
    OBVIOUS
<1> HIDE DEF r
<1>2. Len(<<t, u, v>>) = 3 /\ <<t, u, v>>[1] = t /\ <<t, u, v>>[2] = u /\ <<t, u, v>>[3] = v
    OBVIOUS
<1>3. Walk(T, <<t, u, v>>, r)
    BY <1>1, <1>2 DEF Walk
<1> QED BY <1>1, <1>2, <1>3 DEF Run

-----------------------------------------------------------------------------
(* Sequences.                                                              *)

\* Moving a token across a boundary changes nothing.
LEMMA Across ==
    ASSUME NEW S, NEW s \in Seq(S), NEW u \in Seq(S), u # <<>>
    PROVE  Append(s, Head(u)) \o Tail(u) = s \o u
OBVIOUS

\* The front of two joined sequences.
LEMMA FrontOfJoined ==
    ASSUME NEW S, NEW s \in Seq(S), NEW u \in Seq(S), s # <<>>
    PROVE  /\ s \o u \in Seq(S) /\ s \o u # <<>>
           /\ Head(s \o u) = Head(s) /\ Tail(s \o u) = Tail(s) \o u
OBVIOUS

LEMMA NothingJoined ==
    ASSUME NEW S, NEW s \in Seq(S)
    PROVE  s \o <<>> = s /\ <<>> \o s = s
OBVIOUS

LEMMA OneMore ==
    ASSUME NEW x, NEW y
    PROVE  Append(<<x>>, y) = <<x, y>>
<1> DEFINE S == {x, y}
           s == Append(<<x>>, y)
           t == <<x, y>>
<1>1. s \in Seq(S) /\ Len(s) = 2 /\ s[1] = x /\ s[2] = y
    <2>1. <<x>> \in Seq(S) /\ Len(<<x>>) = 1 /\ <<x>>[1] = x /\ y \in S
        OBVIOUS
    <2> QED BY <2>1, AppendProperties
<1>2. t \in Seq(S) /\ Len(t) = 2 /\ t[1] = x /\ t[2] = y
    OBVIOUS
<1> HIDE DEF s, t
<1>3. \A i \in 1..Len(s) : s[i] = t[i]
    BY <1>1, <1>2
<1>4. s = t
    BY <1>1, <1>2, <1>3, SeqEqual
<1> QED BY <1>4 DEF s, t

LEMMA OneAndOne ==
    ASSUME NEW a, NEW b
    PROVE  <<a>> \o <<b>> = <<a, b>>
<1> DEFINE S == {a, b}
           s == <<a>> \o <<b>>
           t == <<a, b>>
<1>1. s \in Seq(S) /\ Len(s) = 2 /\ s[1] = a /\ s[2] = b
    OBVIOUS
<1>2. t \in Seq(S) /\ Len(t) = 2 /\ t[1] = a /\ t[2] = b
    OBVIOUS
<1> HIDE DEF s, t, S
<1>3. \A i \in 1..Len(s) : s[i] = t[i]
    BY <1>1, <1>2
<1>4. s = t
    BY <1>1, <1>2, <1>3, SeqEqual
<1> QED BY <1>4 DEF s, t

LEMMA TwoAndOne ==
    ASSUME NEW a, NEW b, NEW c
    PROVE  <<a, b>> \o <<c>> = <<a, b, c>>
<1> DEFINE S == {a, b, c}
           s == <<a, b>> \o <<c>>
           t == <<a, b, c>>
<1>1. s \in Seq(S) /\ Len(s) = 3 /\ s[1] = a /\ s[2] = b /\ s[3] = c
    OBVIOUS
<1>2. t \in Seq(S) /\ Len(t) = 3 /\ t[1] = a /\ t[2] = b /\ t[3] = c
    OBVIOUS
<1> HIDE DEF s, t, S
<1>3. \A i \in 1..Len(s) : s[i] = t[i]
    BY <1>1, <1>2
<1>4. s = t
    BY <1>1, <1>2, <1>3, SeqEqual
<1> QED BY <1>4 DEF s, t

-----------------------------------------------------------------------------
(* The host's leg.                                                         *)

\* What a look at the store can have found, for a query of kind k.
Looks(k) == IF k = "isvalid" THEN {"valid", "invalid"} ELSE {"result"}

\* How the daemon's reply to a query of kind k is read, when its latest look
\* found s.  An error leaves things as they were: not looked at, or, in a
\* re-check, invalid.
HostGrammar(k, s) ==
    {<<"stderr", Log, "stderr">>, <<"stderr", Streaming, "end">>, <<"stderr", Broken, "end">>}
    \union (IF s \in {"unseen", "invalid"} THEN {<<"stderr", Err("daemon"), "end">>} ELSE {})
    \union (IF s \notin Looks(k) THEN {}
            ELSE {<<"stderr", Last, "res">>}
                 \union IF k = "isvalid" THEN {<<"res", Res(s), "end">>}
                        ELSE {<<"res", Res("end"), "end">>, <<"res", Res("more"), "rest">>,
                              <<"res", Broken, "end">>, <<"rest", Rest, "end">>,
                              <<"rest", Broken, "end">>})

\* Where the session stands in the reply.
Awaiting ==
    IF pc \in {"stderr", "restderr"} THEN "stderr" ELSE IF pc = "rest" THEN "rest" ELSE "res"

HostRequest ==
    IF kind = "queryvalid" THEN <<Word(kind), Arg(path), Flag("0")>>
    ELSE <<Word(kind), Arg(path)>>

\* A list and the word before it may have left the BufWriter or not.
PrefixSpilt ==
    \/ p2h = <<>> /\ hw = <<Word("queryvalid"), Arg(path)>>
    \/ p2h = <<Word("queryvalid")>> /\ hw = <<Arg(path)>>
    \/ p2h = <<Word("queryvalid"), Arg(path)>> /\ hw = <<>>

\* What lies on the host's leg: nothing between exchanges, in an exchange the
\* request or the reply to it, from where the session stands.  A closed
\* session leaves no more than the beginning of a request.
HostUnder ==
    /\ ~hopen => htodo = <<>> /\ p2h = <<>>
    /\ pc \in {"idle", "fill"} => hw = <<>> /\ p2h = <<>> /\ htodo = <<>> /\ h2p = <<>>
    /\ pc \in {"idle", "args", "flag"} => seen = "unseen"
    /\ pc = "fill" => seen = "invalid"
    /\ pc = "args" =>
          /\ p2h = <<>> /\ htodo = <<>> /\ h2p = <<>>
          /\ hw = IF Forwarded(kind) THEN <<Word(kind)>> ELSE <<>>
    /\ pc = "flag" => htodo = <<>> /\ h2p = <<>> /\ (hopen => PrefixSpilt)
    /\ pc = "closed" => p2h = <<>> \/ Len(p2h) < RequestLen
    /\ pc \in HostWaits =>
          /\ hw = <<>>
          /\ \/ /\ pc \in {"stderr", "restderr"}
                /\ p2h = HostRequest /\ htodo = <<>> /\ h2p = <<>>
                /\ seen = IF pc = "stderr" THEN "unseen" ELSE "invalid"
             \/ /\ p2h = <<>>
                /\ \E b : Run(HostGrammar(kind, seen), h2p \o htodo, Awaiting, b)

\* What a token of the reply leads to.
LEMMA HostGrammarReads ==
    ASSUME NEW k, NEW s, NEW a, NEW t, NEW b, <<a, t, b>> \in HostGrammar(k, s)
    PROVE  /\ a # "end"
           /\ a = "stderr" /\ t.t = "log" => b = "stderr"
           /\ a = "stderr" /\ t.t = "last" => b = "res"
           /\ a = "stderr" /\ t.t = "error" => b = "end" /\ s \in {"unseen", "invalid"}
           /\ a = "res" /\ t.t = "res" /\ k = "isvalid" =>
                 b = "end" /\ t = Res(s) /\ s \in {"valid", "invalid"}
           /\ a = "res" /\ t.t = "res" /\ k # "isvalid" =>
                 /\ s = "result"
                 /\ (t = Res("end") /\ b = "end") \/ (t = Res("more") /\ b = "rest")
           /\ a = "rest" => b = "end" /\ s = "result"
<1>1. /\ Log.t = "log" /\ Last.t = "last" /\ Err("daemon").t = "error"
      /\ Streaming.t = "stream" /\ Broken.t = "broken" /\ Rest.t = "rest"
      /\ \A v : Res(v).t = "res"
    BY DEF Log, Last, Err, Streaming, Broken, Rest, Res, Tok
<1>2. \/ a = "stderr" /\ t = Log /\ b = "stderr"
      \/ a = "stderr" /\ t = Last /\ b = "res"
      \/ a = "stderr" /\ t = Err("daemon") /\ b = "end" /\ s \in {"unseen", "invalid"}
      \/ a = "stderr" /\ t \in {Streaming, Broken} /\ b = "end"
      \/ a = "res" /\ k = "isvalid" /\ t = Res(s) /\ b = "end" /\ s \in {"valid", "invalid"}
      \/ a = "res" /\ k # "isvalid" /\ t = Res("end") /\ b = "end" /\ s = "result"
      \/ a = "res" /\ k # "isvalid" /\ t = Res("more") /\ b = "rest" /\ s = "result"
      \/ a = "res" /\ t = Broken /\ b = "end"
      \/ a = "rest" /\ b = "end" /\ s = "result"
    BY DEF HostGrammar, Looks
<1> QED BY <1>1, <1>2

\* Nothing follows the end of a reply.
LEMMA ReplyEnds ==
    ASSUME NEW k, NEW s, NEW u \in Seq(Tokens), NEW b, Run(HostGrammar(k, s), u, "end", b)
    PROVE  u = <<>>
<1> HIDE DEF Tokens
<1>1. SUFFICES ASSUME u # <<>> PROVE FALSE
    OBVIOUS
<1>2. PICK c : <<"end", Head(u), c>> \in HostGrammar(k, s)
    BY <1>1, RunHead
<1> QED BY <1>2, HostGrammarReads

\* The session reads a token of the daemon's reply.
LEMMA HostReads ==
    ASSUME IInv, HostUnder, pc \in HostWaits, h2p # <<>>
    PROVE  /\ p2h = <<>> /\ hw = <<>>
           /\ \E c :
                 /\ <<Awaiting, Head(h2p), c>> \in HostGrammar(kind, seen)
                 /\ c = "end" => Tail(h2p) = <<>> /\ htodo = <<>>
                 /\ \E b : Run(HostGrammar(kind, seen), Tail(h2p) \o htodo, c, b)
<1> HIDE DEF Tokens
<1>1. h2p \in Seq(Tokens) /\ htodo \in Seq(Tokens)
    BY DEF IInv, PeersOK
<1>2. p2h = <<>> /\ hw = <<>>
    BY DEF HostUnder
<1>3. PICK b : Run(HostGrammar(kind, seen), h2p \o htodo, Awaiting, b)
    BY DEF HostUnder
<1>4. /\ h2p \o htodo \in Seq(Tokens) /\ h2p \o htodo # <<>>
      /\ Head(h2p \o htodo) = Head(h2p) /\ Tail(h2p \o htodo) = Tail(h2p) \o htodo
    BY <1>1, FrontOfJoined
<1>5. PICK c : /\ <<Awaiting, Head(h2p), c>> \in HostGrammar(kind, seen)
               /\ Run(HostGrammar(kind, seen), Tail(h2p) \o htodo, c, b)
    BY <1>3, <1>4, RunHead
<1>6. Tail(h2p) \in Seq(Tokens) /\ Tail(h2p) \o htodo \in Seq(Tokens)
    BY <1>1, ConcatProperties
<1>7. ASSUME c = "end" PROVE Tail(h2p) = <<>> /\ htodo = <<>>
    <2>1. Tail(h2p) \o htodo = <<>>
        BY <1>5, <1>6, <1>7, ReplyEnds
    <2>2. Tail(h2p) = <<>>
        BY <1>1, <1>6, <2>1, FrontOfJoined
    <2> QED BY <1>1, <2>1, <2>2, NothingJoined
<1> QED BY <1>2, <1>5, <1>7

\* What the daemon makes of a query can be read as its reply.
LEMMA ReplyReadable ==
    ASSUME NEW k, NEW look \in {"valid", "invalid"},
           NEW logs \in Logs, NEW out \in Outcomes(k, look),
           NEW s, out[1] # Last => s \in {"unseen", "invalid"},
           out[1] = Last => s = IF k = "isvalid" THEN look ELSE "result"
    PROVE  Run(HostGrammar(k, s), logs \o out, "stderr", "end")
<1> DEFINE T == HostGrammar(k, s)
<1>1. Run(T, logs, "stderr", "stderr")
    <2>1. PICK n \in 0..MaxLogs : logs \in [1..n -> {Log}]
        BY DEF Logs
    <2>2. Len(logs) = n /\ n \in Nat
        BY <2>1, BoundsAssumption
    <2>3. <<"stderr", Log, "stderr">> \in T
        BY DEF HostGrammar
    <2> DEFINE r == [i \in 1..(n + 1) |-> "stderr"]
    <2> HIDE DEF T
    <2>4. r[1] = "stderr" /\ r[n + 1] = "stderr"
        BY <2>2
    <2>5. Walk(T, logs, r)
        BY <2>1, <2>2, <2>3 DEF Walk
    <2> QED BY <2>2, <2>4, <2>5 DEF Run
<1>2. Run(T, out, "stderr", "end")
    <2>1. /\ <<"stderr", Streaming, "end">> \in T /\ <<"stderr", Broken, "end">> \in T
          /\ s \in {"unseen", "invalid"} => <<"stderr", Err("daemon"), "end">> \in T
        BY DEF HostGrammar
    <2>2. ASSUME k = "isvalid", s = look
          PROVE  <<"stderr", Last, "res">> \in T /\ <<"res", Res(look), "end">> \in T
        BY <2>2 DEF HostGrammar, Looks
    <2>3. ASSUME k # "isvalid", s = "result"
          PROVE  /\ <<"stderr", Last, "res">> \in T
                 /\ <<"res", Res("end"), "end">> \in T /\ <<"res", Res("more"), "rest">> \in T
                 /\ <<"res", Broken, "end">> \in T /\ <<"rest", Rest, "end">> \in T
                 /\ <<"rest", Broken, "end">> \in T
        BY <2>3 DEF HostGrammar, Looks
    <2> HIDE DEF T
    <2>4. CASE out = <<Err("daemon")>>
        <3>1. out[1] # Last
            BY <2>4 DEF Err, Last, Tok
        <3> QED BY <2>1, <2>4, <3>1, RunOne
    <2>5. CASE out \in {<<Streaming>>, <<Broken>>}
        BY <2>1, <2>5, RunOne
    <2>6. CASE k = "isvalid" /\ out = <<Last, Res(look)>>
        BY <2>2, <2>6, RunTwo
    <2>7. CASE k # "isvalid" /\ out \in {<<Last, Res("end")>>, <<Last, Broken>>}
        BY <2>3, <2>7, RunTwo
    <2>8. CASE k # "isvalid" /\ out \in {<<Last, Res("more"), Rest>>, <<Last, Res("more"), Broken>>}
        BY <2>3, <2>8, RunThree
    <2> QED BY <2>4, <2>5, <2>6, <2>7, <2>8, Zenon DEF Outcomes
<1> HIDE DEF T, Tokens
<1>3. logs \in Seq(Tokens) /\ out \in Seq(Tokens)
    BY LogsTyped, OutcomesTyped
<1> QED BY <1>1, <1>2, <1>3, RunConcat DEF T

\* The two connections are dropped.
LEMMA ClosedHost ==
    ASSUME HostUnder, pc' = "closed", UNCHANGED <<hopen, htodo>>, p2h' = p2h \/ hopen,
           (p2h = <<>> \/ Len(p2h) < RequestLen)'
    PROVE  HostUnder'
BY DEF HostUnder, HostWaits

\* A complete reply, or none at all: nothing of it is left.
LEMMA IdleHost ==
    ASSUME HostUnder, pc' = "idle", seen' = "unseen",
           hw' = <<>>, p2h' = <<>>, h2p' = <<>>, htodo' = <<>>
    PROVE  HostUnder'
BY DEF HostUnder, HostWaits

\* A request goes out.
LEMMA AskedHost ==
    ASSUME HostUnder, IInv, pc' \in {"stderr", "restderr"}, hw' = <<>>,
           hopen, p2h' = HostRequest', h2p' = <<>>, htodo' = <<>>, hopen' = hopen,
           seen' = IF pc' = "stderr" THEN "unseen" ELSE "invalid"
    PROVE  HostUnder'
BY DEF HostUnder, HostWaits

\* One token further in the reply.
LEMMA OnwardHost ==
    ASSUME HostUnder, pc' \in HostWaits, hw' = <<>>, p2h' = <<>>,
           UNCHANGED <<hopen, htodo>>,
           \E b : Run(HostGrammar(kind', seen'), h2p' \o htodo', Awaiting', b)
    PROVE  HostUnder'
<1>1. PICK b : Run(HostGrammar(kind', seen'), h2p' \o htodo', Awaiting', b)
    OBVIOUS
<1>2. (\E c : Run(HostGrammar(kind, seen), h2p \o htodo, Awaiting, c))'
    BY <1>1
<1> QED BY <1>2 DEF HostUnder, HostWaits

LEMMA InitHost == Init => HostUnder
BY DEF Init, HostUnder, HostWaits

\* The daemon runs nothing but the request the session waits about.
LEMMA DaemonHasRequest ==
    ASSUME IInv, HostUnder, HostRun
    PROVE  /\ pc \in {"stderr", "restderr"} /\ p2h = HostRequest
           /\ htodo = <<>> /\ h2p = <<>> /\ hw = <<>>
           /\ seen = IF pc = "stderr" THEN "unseen" ELSE "invalid"
           /\ RequestLen = Len(p2h) /\ p2h[1].v = kind /\ p2h[2].v = path
<1>1. p2h # <<>> /\ Len(p2h) >= RequestLen /\ hopen
    BY DEF HostRun
<1>2. CASE pc = "closed"
    <2>1. Len(p2h) < RequestLen /\ Len(p2h) \in Nat /\ RequestLen \in Nat
        BY <1>1, <1>2 DEF HostUnder, RequestLen, IInv, SessionOK
    <2> QED BY <1>1, <2>1
<1>3. CASE pc \in {"idle", "fill", "args"}
    BY <1>1, <1>3 DEF HostUnder
<1>4. CASE pc = "flag"
    <2>1. \/ p2h = <<Word("queryvalid")>>
          \/ p2h = <<Word("queryvalid"), Arg(path)>>
        BY <1>1, <1>4 DEF HostUnder, PrefixSpilt
    <2>2. p2h[1] = Word("queryvalid") /\ (Len(p2h) = 1 \/ Len(p2h) = 2)
        BY <2>1
    <2>3. RequestLen = 3
        BY <2>2 DEF RequestLen
    <2>4. CASE Len(p2h) = 1
        BY <1>1, <2>3, <2>4
    <2>5. CASE Len(p2h) = 2
        BY <1>1, <2>3, <2>5
    <2> QED BY <2>2, <2>4, <2>5
<1>5. CASE pc \in HostWaits
    <2>1. /\ pc \in {"stderr", "restderr"} /\ p2h = HostRequest
          /\ htodo = <<>> /\ h2p = <<>> /\ hw = <<>>
          /\ seen = IF pc = "stderr" THEN "unseen" ELSE "invalid"
        BY <1>1, <1>5 DEF HostUnder
    <2>2. /\ p2h[1] = Word(kind) /\ p2h[2] = Arg(path)
          /\ Len(p2h) = IF kind = "queryvalid" THEN 3 ELSE 2
        BY <2>1 DEF HostRequest
    <2>3. Word(kind) = Word("queryvalid") <=> kind = "queryvalid"
        BY DEF Word, Tok
    <2>4. RequestLen = Len(p2h) /\ p2h[1].v = kind /\ p2h[2].v = path
        BY <2>2, <2>3 DEF RequestLen, Word, Arg, Tok
    <2> QED BY <2>1, <2>4
<1> QED BY <1>2, <1>3, <1>4, <1>5 DEF IInv, SessionOK, Places

\* The daemon's own steps.
LEMMA DaemonHost ==
    ASSUME IInv, HostUnder, HostStep \/ HostDies
    PROVE  HostUnder'
<1> HIDE DEF Tokens
<1>0. h2p \in Seq(Tokens) /\ htodo \in Seq(Tokens)
    BY DEF IInv, PeersOK
<1>1. CASE HostRun
    <2>1. /\ hopen /\ p2h' = SubSeq(p2h, RequestLen + 1, Len(p2h))
          /\ UNCHANGED <<pc, kind, path, hw, h2p, hopen>>
        BY <1>1 DEF HostRun, sessionVars
    <2>2. /\ pc \in {"stderr", "restderr"} /\ htodo = <<>> /\ h2p = <<>> /\ hw = <<>>
          /\ seen \in {"unseen", "invalid"}
        BY <1>1, DaemonHasRequest
    <2>3. RequestLen = Len(p2h) /\ p2h[1].v = kind
        BY <1>1, DaemonHasRequest
    <2>4. p2h' = <<>>
        <3>1. p2h \in Seq(QueryTokens)
            BY DEF IInv, SessionOK
        <3> HIDE DEF QueryTokens
        <3>2. SubSeq(p2h, Len(p2h) + 1, Len(p2h)) = <<>>
            BY <3>1
        <3> QED BY <2>1, <2>3, <3>2
    <2>5. PICK look \in {"valid", "invalid"} :
             \E logs \in Logs, out \in Outcomes(kind, look) :
                /\ htodo' = logs \o out
                /\ seen' = IF out[1] # Last THEN seen
                           ELSE IF kind = "isvalid" THEN look ELSE "result"
        <3> DEFINE look == IF p2h[2].v \in valid THEN "valid" ELSE "invalid"
        <3>1. \E logs \in Logs, out \in Outcomes(p2h[1].v, look) :
                /\ htodo' = logs \o out
                /\ seen' = IF out[1] # Last THEN seen
                           ELSE IF p2h[1].v = "isvalid" THEN look ELSE "result"
            BY <1>1 DEF HostRun
        <3>2. look \in {"valid", "invalid"}
            OBVIOUS
        <3> HIDE DEF look
        <3> QED BY <2>3, <3>1, <3>2
    <2>6. PICK logs \in Logs, out \in Outcomes(kind, look) :
                /\ htodo' = logs \o out
                /\ seen' = IF out[1] # Last THEN seen
                           ELSE IF kind = "isvalid" THEN look ELSE "result"
        BY <2>5
    <2>7. Run(HostGrammar(kind, seen'), htodo', "stderr", "end")
        BY <2>2, <2>6, ReplyReadable
    <2>8. htodo' \in Seq(Tokens)
        BY <2>6, OutcomesTyped, LogsTyped, ConcatProperties
    <2>9. h2p' \o htodo' = htodo' /\ Awaiting' = "stderr" /\ kind' = kind
        BY <2>1, <2>2, <2>8, NothingJoined DEF Awaiting
    <2>10. (\E b : Run(HostGrammar(kind, seen), h2p \o htodo, Awaiting, b))'
        BY <2>7, <2>9
    <2> QED BY <2>1, <2>2, <2>4, <2>10 DEF HostUnder, HostWaits
<1>2. CASE HostSend
    <2>1. /\ hopen /\ pc # "closed" /\ htodo # <<>>
          /\ h2p' = Append(h2p, Head(htodo)) /\ htodo' = Tail(htodo)
          /\ UNCHANGED <<pc, kind, path, hw, p2h, hopen, seen>>
        BY <1>2 DEF HostSend, sessionVars, histVars
    <2>2. h2p' \o htodo' = h2p \o htodo
        BY <1>0, <2>1, Across
    <2>3. pc \in HostWaits
        BY <2>1 DEF HostUnder, IInv, SessionOK, Places
    <2>4. p2h = <<>> /\ \E b : Run(HostGrammar(kind, seen), h2p \o htodo, Awaiting, b)
        BY <2>1, <2>3 DEF HostUnder
    <2>5. Awaiting' = Awaiting
        BY <2>1 DEF Awaiting
    <2>6. (\E b : Run(HostGrammar(kind, seen), h2p \o htodo, Awaiting, b))'
        BY <2>1, <2>2, <2>4, <2>5
    <2> QED BY <2>1, <2>3, <2>4, <2>6 DEF HostUnder, HostWaits
<1>3. CASE HostDies
    <2>1. /\ ~hopen' /\ htodo' = <<>> /\ p2h' = <<>>
          /\ UNCHANGED <<pc, kind, path, hw, h2p, seen>>
        BY <1>3 DEF HostDies, sessionVars, histVars
    <2>2. h2p' \o htodo' = h2p
        BY <1>0, <2>1, NothingJoined
    <2>3. Awaiting' = Awaiting
        BY <2>1 DEF Awaiting
    <2>4. ASSUME pc \in HostWaits
          PROVE  \E b : Run(HostGrammar(kind, seen), h2p, Awaiting, b)
        <3>1. CASE h2p = <<>>
            BY <3>1, RunNothing
        <3>2. CASE h2p # <<>>
            <4>1. \E b : Run(HostGrammar(kind, seen), h2p \o htodo, Awaiting, b)
                BY <2>4, <3>2 DEF HostUnder
            <4> QED BY <1>0, <4>1, RunSplits
        <3> QED BY <3>1, <3>2
    <2>5. pc \in HostWaits => (\E b : Run(HostGrammar(kind, seen), h2p \o htodo, Awaiting, b))'
        BY <2>1, <2>2, <2>3, <2>4
    <2> QED BY <2>1, <2>5 DEF HostUnder, HostWaits
<1> QED BY <1>1, <1>2, <1>3 DEF HostStep

\* Every token says what it is and what it carries.
LEMMA TokenIsTok ==
    ASSUME NEW t \in Tokens
    PROVE  t = Tok(t.t, t.v)
<1>1. ASSUME NEW x, NEW v, t = Tok(x, v) PROVE t = Tok(t.t, t.v)
    <2>1. t.t = x /\ t.v = v
        BY <1>1 DEF Tok
    <2> QED BY <1>1, <2>1
<1>2. \E x, v : t = Tok(x, v)
    BY DEF Tokens, Begun, Word, Arg, Flag, Log, Last, Streaming, Broken, Rest, Err, Res
<1> QED BY <1>1, <1>2

LEMMA ReplyHost ==
    ASSUME HostUnder, NEW toks, NEW a, Reply(toks, a),
           UNCHANGED <<p2h, hopen, htodo>>,
           hw = <<>>, p2h = <<>>, htodo = <<>>, h2p' = <<>>
    PROVE  HostUnder'
<1>1. CASE Hangup
    BY <1>1, ClosedHost DEF Hangup
<1>2. CASE pc' = "idle" /\ seen' = "unseen" /\ UNCHANGED hw
    BY <1>2, IdleHost
<1> QED BY <1>1, <1>2 DEF Reply

LEMMA SendsHost ==
    ASSUME HostUnder, IInv, NEW toks, NEW place \in {"stderr", "restderr"}, NEW p,
           SendHost(toks, place, p), UNCHANGED <<hopen, htodo, h2p>>,
           htodo = <<>>, h2p = <<>>,
           seen = IF place = "stderr" THEN "unseen" ELSE "invalid",
           hopen => p2h \o hw \o toks =
                        IF kind = "queryvalid" THEN <<Word(kind), Arg(p), Flag("0")>>
                        ELSE <<Word(kind), Arg(p)>>
    PROVE  HostUnder'
<1>1. CASE ~hopen /\ Hangup /\ UNCHANGED p2h
    <2>1. p2h' = <<>>
        BY <1>1 DEF HostUnder
    <2> QED BY <1>1, <2>1, ClosedHost DEF Hangup
<1>2. CASE /\ hopen /\ p2h' = p2h \o hw \o toks /\ hw' = <<>> /\ pc' = place
           /\ path' = p /\ UNCHANGED <<kind, seen>>
    <2>1. p2h' = HostRequest'
        BY <1>2 DEF HostRequest
    <2> QED BY <1>2, <2>1, AskedHost
<1> QED BY <1>1, <1>2 DEF SendHost, histVars

\* What a refused request has pushed out of the BufWriter is not a whole one.
LEMMA SpilledShort ==
    ASSUME IInv, HostUnder, pc \in {"args", "flag"}, SpillsPrefix
    PROVE  (p2h = <<>> \/ Len(p2h) < RequestLen)'
<1> HIDE DEF QueryTokens
<1> DEFINE q == Incomplete
           w == p2h \o q
<1>0. p2h \in Seq(QueryTokens) /\ hw \in Seq(QueryTokens) /\ q \in Seq(QueryTokens)
    BY IncompleteOK DEF IInv, SessionOK
<1>6. pc # "args" => q = hw
    BY DEF Incomplete
<1>7. \/ p2h' = p2h
      \/ hopen /\ \E n \in 1..Len(q) : p2h' = p2h \o SubSeq(q, 1, n)
    BY DEF SpillsPrefix
<1>1. \/ p2h = <<>> /\ q = <<>>
      \/ p2h = <<>> /\ ~hopen
      \/ Len(w) < IF w[1] = Word("queryvalid") THEN 3 ELSE 2
    <2>1. CASE pc = "args"
        <3>1. p2h = <<>> /\ hw = IF Forwarded(kind) THEN <<Word(kind)>> ELSE <<>>
            BY <2>1 DEF HostUnder
        <3>2. w = q
            BY <1>0, <3>1, NothingJoined
        <3>3. CASE kind = "queryvalid"
            <4>1. hw = <<Word("queryvalid")>> /\ q = Append(hw, Begun)
                BY <2>1, <3>1, <3>3 DEF Forwarded, Incomplete
            <4> HIDE DEF q
            <4>2. q = <<Word("queryvalid"), Begun>>
                BY <4>1, OneMore
            <4>3. Len(q) = 2 /\ q[1] = Word("queryvalid")
                BY <4>2
            <4> HIDE DEF w
            <4> QED BY <3>2, <4>3
        <3>4. CASE kind # "queryvalid"
            <4>1. q = hw
                BY <3>4 DEF Incomplete
            <4>2. hw = <<>> \/ hw = <<Word(kind)>>
                BY <3>1
            <4> HIDE DEF q, w
            <4>3. CASE hw = <<>>
                BY <3>1, <4>1, <4>3
            <4>4. CASE hw = <<Word(kind)>>
                <5>1. w = <<Word(kind)>>
                    BY <3>2, <4>1, <4>4
                <5>2. Len(w) = 1
                    BY <5>1
                <5> QED BY <5>2
            <4> QED BY <4>2, <4>3, <4>4
        <3> QED BY <3>3, <3>4
    <2>2. CASE pc = "flag" /\ hopen
        <3>1. PrefixSpilt /\ w = p2h \o hw
            BY <1>6, <2>2 DEF HostUnder
        <3>2. w = <<Word("queryvalid"), Arg(path)>>
            <4> HIDE DEF w
            <4>1. CASE p2h = <<>> /\ hw = <<Word("queryvalid"), Arg(path)>>
                BY <3>1, <4>1
            <4>2. CASE p2h = <<Word("queryvalid")>> /\ hw = <<Arg(path)>>
                BY <3>1, <4>2, OneAndOne
            <4>3. CASE p2h = <<Word("queryvalid"), Arg(path)>> /\ hw = <<>>
                BY <3>1, <4>3
            <4> QED BY <3>1, <4>1, <4>2, <4>3 DEF PrefixSpilt
        <3> HIDE DEF w
        <3>3. Len(w) = 2 /\ w[1] = Word("queryvalid")
            BY <3>2
        <3> QED BY <3>3
    <2>3. CASE pc = "flag" /\ ~hopen
        BY <2>3 DEF HostUnder
    <2> QED BY <2>1, <2>2, <2>3
<1> HIDE DEF q
<1>2. \/ p2h' = p2h
      \/ hopen /\ \E n \in 1..Len(q) : p2h' = p2h \o SubSeq(q, 1, n)
    BY <1>7
<1>3. p2h' # <<>> => Len(p2h') \in Nat /\ Len(p2h') <= Len(w) /\ p2h'[1] = w[1]
    <2>1. CASE p2h' = p2h
        BY <1>0, <2>1
    <2>2. ASSUME NEW n \in 1..Len(q), p2h' = p2h \o SubSeq(q, 1, n)
          PROVE  Len(p2h') \in Nat /\ Len(p2h') <= Len(w) /\ p2h'[1] = w[1]
        <3> DEFINE u == SubSeq(q, 1, n)
        <3>1. u \in Seq(QueryTokens) /\ Len(u) = n /\ u[1] = q[1]
            BY <1>0
        <3> HIDE DEF u
        <3>2. p2h' = p2h \o u
            BY <2>2 DEF u
        <3>3. n \in Nat \ {0} /\ n <= Len(q) /\ Len(q) \in Nat /\ Len(p2h) \in Nat
            BY <1>0
        <3>4. Len(p2h') = Len(p2h) + n /\ Len(w) = Len(p2h) + Len(q)
            BY <1>0, <3>1, <3>2, ConcatProperties
        <3>5. p2h'[1] = IF Len(p2h) = 0 THEN u[1] ELSE p2h[1]
            BY <1>0, <3>1, <3>2, <3>3
        <3>6. w[1] = IF Len(p2h) = 0 THEN q[1] ELSE p2h[1]
            BY <1>0, <3>3
        <3> QED BY <3>1, <3>3, <3>4, <3>5, <3>6
    <2> QED BY <1>2, <2>1, <2>2
<1>4. Len(w) \in Nat
    BY <1>0
<1>5. q = <<>> => p2h' = p2h
    BY <1>2
<1> HIDE DEF w
<1> QED BY <1>1, <1>2, <1>3, <1>4, <1>5 DEF RequestLen

\* The session's steps while it reads a request.
LEMMA RequestHost ==
    ASSUME IInv, HostUnder,
           \/ RejectOp \/ AcceptOp \/ GuestGone \/ ForwardArgs \/ SwallowOptions
           \/ CopyList \/ CopyFlag \/ BadArgs \/ ArgsSpillFails \/ ArgsTimeout
    PROVE  HostUnder'
<1> HIDE DEF Tokens
<1>0. UNCHANGED <<hopen, htodo, h2p>> /\ g2p \in Seq(Tokens)
    BY DEF RejectOp, AcceptOp, GuestGone, ForwardArgs, SwallowOptions, CopyList, CopyFlag,
           BadArgs, ArgsSpillFails, ArgsTimeout, hostVars, IInv, PeersOK
<1> DEFINE t == Head(g2p)
<1>t. ASSUME g2p # <<>> PROVE t \in Tokens /\ t = Tok(t.t, t.v)
    BY <1>0, <1>t, TokenIsTok
<1>1. CASE RejectOp \/ GuestGone \/ BadArgs \/ ArgsSpillFails \/ ArgsTimeout
    <2>1. Reject \/ Hangup
        BY <1>1 DEF RejectOp, GuestGone, BadArgs, ArgsSpillFails, ArgsTimeout
    <2>2. pc' = "closed"
        BY <2>1 DEF Reject, Hangup
    <2>3. p2h' = p2h \/ hopen
        BY <1>1 DEF RejectOp, GuestGone, BadArgs, ArgsSpillFails, ArgsTimeout, SpillsPrefix
    <2>4. (p2h = <<>> \/ Len(p2h) < RequestLen)'
        <3>1. CASE RejectOp \/ GuestGone \/ ArgsSpillFails
            <4>1. p2h' = p2h /\ (pc = "idle" \/ ~hopen)
                BY <3>1 DEF RejectOp, GuestGone, ArgsSpillFails
            <4> QED BY <4>1 DEF HostUnder
        <3>2. CASE BadArgs \/ ArgsTimeout
            BY <3>2, SpilledShort DEF BadArgs, ArgsTimeout
        <3> QED BY <1>1, <3>1, <3>2
    <2> QED BY <1>0, <2>2, <2>3, <2>4, ClosedHost
<1>2. CASE AcceptOp
    <2>1. /\ pc = "idle" /\ pc' = "args" /\ kind' = t.v /\ UNCHANGED <<p2h, path, seen>>
          /\ hw' = IF Forwarded(t.v) THEN Append(hw, t) ELSE hw
          /\ t = Word(t.v)
        <3>1. g2p # <<>> /\ t.t = "word"
            BY <1>2 DEF AcceptOp, ReadsGuest
        <3>2. t = Word(t.v)
            BY <1>t, <3>1 DEF Word
        <3> QED BY <1>2, <3>2 DEF AcceptOp, histVars
    <2>2. hw = <<>> /\ p2h = <<>> /\ htodo = <<>> /\ h2p = <<>> /\ seen = "unseen"
        BY <2>1 DEF HostUnder
    <2> HIDE DEF t
    <2>3. hw' = IF Forwarded(kind') THEN <<Word(kind')>> ELSE <<>>
        BY <2>1, <2>2
    <2>4. (hw = IF Forwarded(kind) THEN <<Word(kind)>> ELSE <<>>)'
        BY <2>3 DEF Forwarded
    <2> QED BY <1>0, <2>1, <2>2, <2>4 DEF HostUnder, HostWaits
<1>a. ASSUME ReadsArg
      PROVE  /\ pc = "args" /\ t = Arg(t.v) /\ p2h = <<>> /\ htodo = <<>> /\ h2p = <<>>
             /\ hw = IF Forwarded(kind) THEN <<Word(kind)>> ELSE <<>>
             /\ seen = "unseen"
    <2>1. g2p # <<>> /\ t.t = "arg" /\ pc = "args"
        BY <1>a DEF ReadsArg, ReadsGuest
    <2>2. t = Arg(t.v)
        BY <1>t, <2>1 DEF Arg
    <2> QED BY <2>1, <2>2 DEF HostUnder
<1>3. CASE ForwardArgs
    <2>1. ReadsArg /\ kind \in {"isvalid", "query"} /\ SendHost(<<t>>, "stderr", t.v)
        BY <1>3 DEF ForwardArgs
    <2>2. /\ t = Arg(t.v) /\ p2h = <<>> /\ hw = <<Word(kind)>> /\ htodo = <<>> /\ h2p = <<>>
          /\ seen = "unseen"
        BY <1>a, <2>1 DEF Forwarded
    <2> HIDE DEF t
    <2>3. p2h \o hw \o <<t>> = <<Word(kind), Arg(t.v)>>
        <3>1. p2h \o hw = <<Word(kind)>>
            BY <2>2
        <3> QED BY <2>2, <3>1, OneAndOne
    <2> QED BY <1>0, <2>1, <2>2, <2>3, SendsHost
<1>4. CASE SwallowOptions
    <2>1. ReadsArg /\ kind = "setoptions" /\ Reply(<<Last>>, "ok") /\ p2h' = p2h
        BY <1>4 DEF SwallowOptions
    <2> QED BY <1>0, <1>a, <2>1, ReplyHost DEF Forwarded
<1>5. CASE CopyList
    <2>1. /\ ReadsArg /\ kind = "queryvalid" /\ pc' = "flag" /\ path' = t.v
          /\ \/ hw' = Append(hw, t) /\ UNCHANGED p2h
             \/ p2h' = p2h \o hw /\ hw' = <<t>>
             \/ p2h' = p2h \o Append(hw, t) /\ hw' = <<>>
          /\ hopen \/ UNCHANGED p2h
          /\ UNCHANGED seen
        BY <1>5 DEF CopyList, histVars
    <2>2. /\ seen = "unseen" /\ t = Arg(t.v) /\ p2h = <<>> /\ htodo = <<>> /\ h2p = <<>>
          /\ hw = <<Word("queryvalid")>>
        BY <1>a, <2>1 DEF Forwarded
    <2> HIDE DEF t
    <2>3. Append(hw, t) = <<Word("queryvalid"), Arg(t.v)>>
        <3>1. Append(hw, t) = hw \o <<t>>
            BY <2>2
        <3> QED BY <2>2, <3>1, OneAndOne
    <2>4. p2h \o hw = <<Word("queryvalid")>>
            /\ p2h \o Append(hw, t) = <<Word("queryvalid"), Arg(t.v)>>
        BY <2>2, <2>3
    <2>5. PrefixSpilt'
        BY <2>1, <2>2, <2>3, <2>4 DEF PrefixSpilt
    <2> QED BY <1>0, <2>1, <2>2, <2>5 DEF HostUnder, HostWaits
<1>6. CASE CopyFlag
    <2>1. /\ pc = "flag" /\ g2p # <<>> /\ t.t = "flag" /\ t.v = "0"
          /\ SendHost(<<t>>, "stderr", path)
        BY <1>6 DEF CopyFlag, ReadsGuest
    <2>2. t = Flag("0") /\ kind = "queryvalid" /\ htodo = <<>> /\ h2p = <<>> /\ seen = "unseen"
        BY <1>t, <2>1 DEF Flag, HostUnder, IInv, SessionOK, PlaceFitsOp
    <2> HIDE DEF t
    <2>3. ASSUME hopen
          PROVE  p2h \o hw \o <<t>> = <<Word("queryvalid"), Arg(path), Flag("0")>>
        <3>1. PrefixSpilt
            BY <2>1, <2>3 DEF HostUnder
        <3>2. p2h \o hw = <<Word("queryvalid"), Arg(path)>>
            <4>1. CASE p2h = <<>> /\ hw = <<Word("queryvalid"), Arg(path)>>
                BY <4>1
            <4>2. CASE p2h = <<Word("queryvalid")>> /\ hw = <<Arg(path)>>
                BY <4>2, OneAndOne
            <4>3. CASE p2h = <<Word("queryvalid"), Arg(path)>> /\ hw = <<>>
                BY <4>3
            <4> QED BY <3>1, <4>1, <4>2, <4>3 DEF PrefixSpilt
        <3> QED BY <2>2, <3>2, TwoAndOne
    <2> QED BY <1>0, <2>1, <2>2, <2>3, SendsHost
<1> QED BY <1>1, <1>2, <1>3, <1>4, <1>5, <1>6

\* The session's steps while it reads a reply, or fills.
LEMMA ReplyStepsHost ==
    ASSUME IInv, HostUnder,
           \/ HostLost \/ HostStreams
           \/ RelayLog \/ RelayError \/ RelayLast \/ RelayResult \/ RelayRest
           \/ AnswerFromHost \/ StartFill
           \/ FillDial \/ FillAsk \/ AnswerAfterFailedFill
           \/ Recheck \/ DropLog \/ RecheckLast \/ RecheckError \/ AnswerFromRecheck
    PROVE  HostUnder'
<1> HIDE DEF Tokens
<1>0. UNCHANGED <<hopen, htodo>>
    BY DEF HostLost, HostStreams, RelayLog, RelayError, RelayLast, RelayResult, RelayRest,
           AnswerFromHost, StartFill, FillDial, FillAsk, FillStep, AnswerAfterFailedFill,
           Recheck, DropLog, RecheckLast, RecheckError, AnswerFromRecheck, hostVars
<1> DEFINE t == Head(h2p)
           T == HostGrammar(kind, seen)
<1>1. CASE HostLost \/ HostStreams
    <2>1. (Reject \/ Hangup) /\ p2h' = p2h
        BY <1>1 DEF HostLost, HostStreams
    <2>2. pc' = "closed"
        BY <2>1 DEF Reject, Hangup
    <2>3. p2h = <<>>
        <3>1. pc \in HostWaits /\ (h2p # <<>> \/ ~hopen)
            BY <1>1 DEF HostLost, HostStreams, ReadsHost, HostWaits
        <3> QED BY <3>1, HostReads DEF HostUnder
    <2> QED BY <1>0, <2>1, <2>2, <2>3, ClosedHost
<1>2. CASE RelayLog \/ DropLog
    <2>1. /\ pc \in {"stderr", "restderr"} /\ h2p # <<>> /\ t.t = "log"
          /\ h2p' = Tail(h2p) /\ p2h' = p2h
          /\ UNCHANGED <<pc, kind, path, hw, seen>> \/ Hangup
        BY <1>2 DEF RelayLog, DropLog, ReadsHost, sessionVars, histVars
    <2>2. CASE Hangup
        <3>1. p2h = <<>>
            BY <2>1, HostReads DEF HostWaits
        <3> QED BY <1>0, <2>1, <2>2, <3>1, ClosedHost DEF Hangup
    <2>3. CASE UNCHANGED <<pc, kind, path, hw, seen>>
        <3>1. p2h = <<>> /\ hw = <<>> /\ \E c :
                 <<Awaiting, t, c>> \in T /\ \E b : Run(T, Tail(h2p) \o htodo, c, b)
            BY <2>1, HostReads DEF HostWaits
        <3>2. Awaiting = "stderr" /\ Awaiting' = "stderr"
            BY <2>1, <2>3 DEF Awaiting
        <3>3. \E b : Run(T, Tail(h2p) \o htodo, "stderr", b)
            BY <2>1, <3>1, <3>2, HostGrammarReads
        <3>4. \E b : Run(HostGrammar(kind', seen'), h2p' \o htodo', Awaiting', b)
            BY <1>0, <2>1, <2>3, <3>2, <3>3
        <3> QED BY <1>0, <2>1, <2>3, <3>1, <3>4, OnwardHost DEF HostWaits
    <2> QED BY <2>1, <2>2, <2>3
<1>3. CASE RelayLast \/ RecheckLast
    <2>1. /\ pc \in {"stderr", "restderr"} /\ h2p # <<>> /\ t.t = "last"
          /\ h2p' = Tail(h2p) /\ pc' \in {"ivresult", "result", "reresult"}
          /\ UNCHANGED <<kind, path, hw, p2h, seen>>
        BY <1>3 DEF RelayLast, RecheckLast, ReadsHost, histVars
    <2>2. p2h = <<>> /\ hw = <<>> /\ \E c :
             <<Awaiting, t, c>> \in T /\ \E b : Run(T, Tail(h2p) \o htodo, c, b)
        BY <2>1, HostReads DEF HostWaits
    <2>3. Awaiting = "stderr" /\ Awaiting' = "res"
        BY <2>1 DEF Awaiting
    <2>4. \E b : Run(T, Tail(h2p) \o htodo, "res", b)
        BY <2>1, <2>2, <2>3, HostGrammarReads
    <2>5. \E b : Run(HostGrammar(kind', seen'), h2p' \o htodo', Awaiting', b)
        BY <1>0, <2>1, <2>3, <2>4
    <2> QED BY <1>0, <2>1, <2>2, <2>5, OnwardHost DEF HostWaits
<1>4. CASE RelayError \/ RecheckError \/ RelayRest \/ AnswerFromHost \/ AnswerFromRecheck
    <2>1. /\ pc \in HostWaits /\ h2p # <<>> /\ h2p' = Tail(h2p) /\ p2h' = p2h
          /\ \/ Awaiting = "stderr" /\ t.t = "error"
             \/ Awaiting = "res" /\ t.t = "res" /\ kind = "isvalid"
             \/ Awaiting = "rest"
          /\ \E toks, a : Reply(toks, a)
        BY <1>4
        DEF RelayError, RecheckError, RelayRest, AnswerFromHost, AnswerFromRecheck,
            ReadsHost, ReplyValidity, HostWaits, Awaiting, IInv, SessionOK, PlaceFitsOp
    <2>2. /\ p2h = <<>> /\ hw = <<>>
          /\ \E c : <<Awaiting, t, c>> \in T /\ (c = "end" => Tail(h2p) = <<>> /\ htodo = <<>>)
        BY <2>1, HostReads
    <2>3. Tail(h2p) = <<>> /\ htodo = <<>>
        BY <2>1, <2>2, HostGrammarReads
    <2> QED BY <1>0, <2>1, <2>2, <2>3, ReplyHost
<1>5. CASE RelayResult
    <2>1. /\ pc = "result" /\ kind # "isvalid" /\ h2p # <<>> /\ t.t = "res"
          /\ h2p' = Tail(h2p) /\ p2h' = p2h
          /\ IF t.v = "end" THEN Reply(<<t>>, "result")
             ELSE pc' = "rest" /\ UNCHANGED <<kind, path, hw, seen>>
        BY <1>5 DEF RelayResult, ReadsHost, IInv, SessionOK, PlaceFitsOp, histVars
    <2>2. p2h = <<>> /\ hw = <<>> /\ Awaiting = "res"
        BY <2>1, HostReads DEF HostWaits, Awaiting
    <2>3. PICK c :
             /\ <<"res", t, c>> \in T
             /\ c = "end" => Tail(h2p) = <<>> /\ htodo = <<>>
             /\ \E b : Run(T, Tail(h2p) \o htodo, c, b)
        BY <2>1, <2>2, HostReads DEF HostWaits
    <2>4. (t = Res("end") /\ c = "end") \/ (t = Res("more") /\ c = "rest")
        BY <2>1, <2>3, HostGrammarReads
    <2>5. CASE t.v = "end"
        <3>1. c = "end"
            BY <2>4, <2>5 DEF Res, Tok
        <3> HIDE DEF t
        <3> QED BY <1>0, <2>1, <2>2, <2>3, <2>5, <3>1, ReplyHost
    <2>6. CASE t.v # "end"
        <3>1. c = "rest"
            BY <2>4, <2>6 DEF Res, Tok
        <3>2. Awaiting' = "rest"
            BY <2>1, <2>6 DEF Awaiting
        <3>3. \E b : Run(HostGrammar(kind', seen'), h2p' \o htodo', Awaiting', b)
            BY <1>0, <2>1, <2>3, <2>6, <3>1, <3>2
        <3> QED BY <1>0, <2>1, <2>2, <2>6, <3>3, OnwardHost DEF HostWaits
    <2> QED BY <2>5, <2>6
<1>6. CASE StartFill
    <2>1. /\ pc = "ivresult" /\ kind = "isvalid" /\ h2p # <<>> /\ t.t = "res"
          /\ h2p' = Tail(h2p) /\ pc' = "fill" /\ UNCHANGED <<kind, path, hw, p2h, seen>>
          /\ Verdict(t) = "invalid"
        BY <1>6 DEF StartFill, ReadsHost, IInv, SessionOK, PlaceFitsOp, histVars
    <2>2. Awaiting = "res"
        BY <2>1 DEF Awaiting
    <2>3. /\ p2h = <<>> /\ hw = <<>>
          /\ \E c : <<"res", t, c>> \in T /\ (c = "end" => Tail(h2p) = <<>> /\ htodo = <<>>)
        BY <2>1, <2>2, HostReads DEF HostWaits
    <2>4. /\ Tail(h2p) = <<>> /\ htodo = <<>>
          /\ t = Res(seen) /\ seen \in {"valid", "invalid"}
        BY <2>1, <2>3, HostGrammarReads
    <2>5. seen = "invalid"
        BY <2>1, <2>4 DEF Verdict, Res, Tok
    <2> QED BY <1>0, <2>1, <2>3, <2>4, <2>5 DEF HostUnder, HostWaits
<1>7. CASE FillDial \/ FillAsk
    <2>1. UNCHANGED <<pc, kind, path, hw, p2h, h2p, seen>> /\ pc = "fill"
        BY <1>7 DEF FillDial, FillAsk, FillStep, histVars
    <2> QED BY <1>0, <2>1 DEF HostUnder, HostWaits
<1>8. CASE AnswerAfterFailedFill
    <2>1. pc = "fill" /\ UNCHANGED <<p2h, h2p>> /\ \E toks, a : Reply(toks, a)
        BY <1>8 DEF AnswerAfterFailedFill, ReplyValidity
    <2>2. hw = <<>> /\ p2h = <<>> /\ htodo = <<>> /\ h2p = <<>>
        BY <2>1 DEF HostUnder
    <2> QED BY <1>0, <2>1, <2>2, ReplyHost
<1>9. CASE Recheck
    <2>1. /\ pc = "fill" /\ kind = "isvalid" /\ UNCHANGED h2p
          /\ SendHost(<<Word("isvalid"), Arg(path)>>, "restderr", path)
        BY <1>9 DEF Recheck, IInv, SessionOK, PlaceFitsOp
    <2>2. hw = <<>> /\ p2h = <<>> /\ htodo = <<>> /\ h2p = <<>> /\ seen = "invalid"
        BY <2>1 DEF HostUnder
    <2>3. p2h \o hw \o <<Word("isvalid"), Arg(path)>> = <<Word("isvalid"), Arg(path)>>
        <3>1. p2h \o hw = <<>>
            BY <2>2
        <3> QED BY <3>1
    <2> QED BY <1>0, <2>1, <2>2, <2>3, SendsHost
<1> QED BY <1>1, <1>2, <1>3, <1>4, <1>5, <1>6, <1>7, <1>8, <1>9

\* Every step keeps the host's leg.
LEMMA NextHost ==
    ASSUME IInv, HostUnder, [Next]_vars
    PROVE  HostUnder'
<1>1. CASE SessionStep
    BY <1>1, RequestHost, ReplyStepsHost DEF SessionStep
<1>2. CASE HostStep \/ HostDies
    BY <1>2, DaemonHost
<1>3. CASE UNCHANGED <<pc, kind, path, hw, p2h, h2p, htodo, hopen, seen>>
    <2>1. /\ Awaiting' = Awaiting /\ HostRequest' = HostRequest /\ PrefixSpilt' = PrefixSpilt
          /\ RequestLen' = RequestLen
        BY <1>3 DEF Awaiting, HostRequest, PrefixSpilt, RequestLen
    <2>2. (\E b : Run(HostGrammar(kind, seen), h2p \o htodo, Awaiting, b))'
            <=> \E b : Run(HostGrammar(kind, seen), h2p \o htodo, Awaiting, b)
        BY <1>3, <2>1
    <2> QED BY <1>3, <2>1, <2>2 DEF HostUnder, HostWaits
<1>4. CASE \/ GuestStep \/ GuestRecv \/ FillEnds \/ StoreChanges
           \/ (\E p \in Paths : OrphanFetches(p)) \/ UNCHANGED vars
    BY <1>3, <1>4
    DEF GuestStep, GuestBegin, GuestSend, GuestHangup, GuestRecv, FillEnds, FillEnsured,
        FillFails, FillStep, StoreChanges, OrphanFetches, vars, sessionVars, hostVars,
        histVars
<1> QED BY <1>1, <1>2, <1>4 DEF Next, Others, Terminated

-----------------------------------------------------------------------------
(* The guest's leg: its requests.                                          *)

Busy == HostWaits \union {"fill"}

\* The number of the request being served, or of the next one.
Serving == Len(answers) + 1

ArgOf(r) == IF r.form = "good" THEN Arg(r.path) ELSE Garbage

\* How the guest's requests, all of them in one piece, are read.
RequestGrammar ==
    {<<<<"word", n>>, Word(asked[n].kind), <<"arg", n>>>> : n \in 1..Len(asked)}
    \union {<<<<"arg", n>>, ArgOf(asked[n]),
              IF asked[n].kind = "queryvalid" THEN <<"flag", n>> ELSE <<"word", n + 1>>>> :
              n \in 1..Len(asked)}
    \union {<<<<"flag", n>>, Flag(asked[n].flag), <<"word", n + 1>>>> :
              n \in {m \in 1..Len(asked) : asked[m].kind = "queryvalid"}}

\* Where the session stands in them.
Reading ==
    IF pc = "idle" THEN <<"word", Serving>>
    ELSE IF pc = "args" THEN <<"arg", Serving>>
    ELSE IF pc = "flag" THEN <<"flag", Serving>>
    ELSE <<"word", Serving + 1>>

\* What the guest has sent and what it has still to send is the rest of its
\* requests; of one that hung up, some of the rest.
RequestsFollow ==
    \E b : /\ Run(RequestGrammar, g2p \o gtodo, Reading, b)
           /\ gopen => b = <<"word", Len(asked) + 1>>

\* The op being served is the guest's.
ServesAsked ==
    /\ kind # "none" => Serving <= Len(asked) /\ asked[Serving].kind = kind
    /\ pc \in Busy \union {"flag"} =>
          path = asked[Serving].path /\ asked[Serving].form = "good"

RequestsUnder == pc # "closed" => ServesAsked /\ RequestsFollow

LEMMA RequestGrammarReads ==
    ASSUME NEW p, NEW n, NEW t, NEW c, <<<<p, n>>, t, c>> \in RequestGrammar
    PROVE  /\ n \in 1..Len(asked)
           /\ p = "word" => t = Word(asked[n].kind) /\ c = <<"arg", n>>
           /\ p = "arg" =>
                 /\ t = ArgOf(asked[n])
                 /\ c = IF asked[n].kind = "queryvalid" THEN <<"flag", n>> ELSE <<"word", n + 1>>
           /\ p = "flag" => t = Flag(asked[n].flag) /\ c = <<"word", n + 1>>
<1>1. CASE <<<<p, n>>, t, c>> \in
              {<<<<"word", m>>, Word(asked[m].kind), <<"arg", m>>>> : m \in 1..Len(asked)}
    BY <1>1
<1>2. CASE <<<<p, n>>, t, c>> \in
              {<<<<"arg", m>>, ArgOf(asked[m]),
                 IF asked[m].kind = "queryvalid" THEN <<"flag", m>> ELSE <<"word", m + 1>>>> :
                 m \in 1..Len(asked)}
    BY <1>2
<1>3. CASE <<<<p, n>>, t, c>> \in
              {<<<<"flag", m>>, Flag(asked[m].flag), <<"word", m + 1>>>> :
                 m \in {i \in 1..Len(asked) : asked[i].kind = "queryvalid"}}
    BY <1>3
<1> QED BY <1>1, <1>2, <1>3, Zenon DEF RequestGrammar

\* The tokens of a request, one by one.
LEMMA RequestSpelt ==
    ASSUME NEW r
    PROVE  RequestTokens(r) =
              IF r.kind = "queryvalid" THEN <<Word(r.kind), ArgOf(r), Flag(r.flag)>>
              ELSE <<Word(r.kind), ArgOf(r)>>
<1>1. CASE r.kind = "queryvalid"
    <2>1. RequestTokens(r) = <<Word(r.kind), ArgOf(r)>> \o <<Flag(r.flag)>>
        BY <1>1 DEF RequestTokens, ArgOf
    <2> QED BY <1>1, <2>1, TwoAndOne
<1>2. CASE r.kind # "queryvalid"
    BY <1>2 DEF RequestTokens, ArgOf
<1> QED BY <1>1, <1>2

\* The session reads a token of a request.
LEMMA RequestRead ==
    ASSUME IInv, RequestsUnder, pc # "closed", g2p # <<>>
    PROVE  \E c : /\ <<Reading, Head(g2p), c>> \in RequestGrammar
                  /\ \E b : /\ Run(RequestGrammar, Tail(g2p) \o gtodo, c, b)
                            /\ gopen => b = <<"word", Len(asked) + 1>>
<1> HIDE DEF Tokens
<1>1. g2p \in Seq(Tokens) /\ gtodo \in Seq(Tokens)
    BY DEF IInv, PeersOK
<1>2. PICK b : /\ Run(RequestGrammar, g2p \o gtodo, Reading, b)
               /\ gopen => b = <<"word", Len(asked) + 1>>
    BY DEF RequestsUnder, RequestsFollow
<1>3. /\ g2p \o gtodo \in Seq(Tokens) /\ g2p \o gtodo # <<>>
      /\ Head(g2p \o gtodo) = Head(g2p) /\ Tail(g2p \o gtodo) = Tail(g2p) \o gtodo
    BY <1>1, FrontOfJoined
<1>4. PICK c : /\ <<Reading, Head(g2p), c>> \in RequestGrammar
               /\ Run(RequestGrammar, Tail(g2p) \o gtodo, c, b)
    BY <1>2, <1>3, RunHead
<1> QED BY <1>2, <1>4

\* So it stands where the grammar leads.
LEMMA RequestsOnward ==
    ASSUME IInv, RequestsUnder, pc # "closed", g2p # <<>>, g2p' = Tail(g2p),
           UNCHANGED <<gtodo, gopen, asked>>,
           \A c : <<Reading, Head(g2p), c>> \in RequestGrammar => c = Reading'
    PROVE  RequestsFollow'
<1>1. RequestGrammar' = RequestGrammar
    BY DEF RequestGrammar
<1>2. PICK b : /\ Run(RequestGrammar, Tail(g2p) \o gtodo, Reading', b)
               /\ gopen => b = <<"word", Len(asked) + 1>>
    BY RequestRead
<1>3. (\E d : /\ Run(RequestGrammar, g2p \o gtodo, Reading, d)
              /\ gopen => d = <<"word", Len(asked) + 1>>)'
    BY <1>1, <1>2
<1> QED BY <1>3 DEF RequestsFollow

\* Where it reads nothing it stands still.
LEMMA RequestsStay ==
    ASSUME RequestsUnder, pc # "closed", UNCHANGED <<g2p, gtodo, gopen, asked>>,
           Reading' = Reading
    PROVE  RequestsFollow'
<1>1. RequestGrammar' = RequestGrammar
    BY DEF RequestGrammar
<1>2. PICK b : /\ Run(RequestGrammar, g2p \o gtodo, Reading, b)
               /\ gopen => b = <<"word", Len(asked) + 1>>
    BY DEF RequestsUnder, RequestsFollow
<1>3. (\E d : /\ Run(RequestGrammar, g2p \o gtodo, Reading, d)
              /\ gopen => d = <<"word", Len(asked) + 1>>)'
    BY <1>1, <1>2
<1> QED BY <1>3 DEF RequestsFollow

\* Requests begun stay as they are.
LEMMA AskedGrows ==
    ASSUME NEW r, asked \in Seq(AllRequests), asked' = Append(asked, r)
    PROVE  /\ Len(asked) \in Nat /\ Len(asked') = Len(asked) + 1
           /\ asked'[Len(asked) + 1] = r
           /\ \A n \in 1..Len(asked) : asked'[n] = asked[n]
<1> HIDE DEF AllRequests
<1> QED OBVIOUS

LEMMA RequestGrammarGrows ==
    ASSUME NEW r, asked \in Seq(AllRequests), asked' = Append(asked, r)
    PROVE  RequestGrammar \subseteq RequestGrammar'
<1> HIDE DEF AllRequests
<1>1. /\ \A n \in 1..Len(asked) : asked'[n] = asked[n]
      /\ \A n \in 1..Len(asked) : n \in 1..Len(asked')
    BY AskedGrows
<1> DEFINE A == {<<<<"word", n>>, Word(asked[n].kind), <<"arg", n>>>> : n \in 1..Len(asked)}
           B == {<<<<"arg", n>>, ArgOf(asked[n]),
                   IF asked[n].kind = "queryvalid" THEN <<"flag", n>> ELSE <<"word", n + 1>>>> :
                   n \in 1..Len(asked)}
           C == {<<<<"flag", n>>, Flag(asked[n].flag), <<"word", n + 1>>>> :
                   n \in {m \in 1..Len(asked) : asked[m].kind = "queryvalid"}}
<1>2. A \subseteq A'
    BY <1>1
<1>3. B \subseteq B'
    <2>1. \A n \in 1..Len(asked) : ArgOf(asked'[n]) = ArgOf(asked[n])
        BY <1>1
    <2> QED BY <1>1, <2>1
<1>4. C \subseteq C'
    BY <1>1
<1>5. RequestGrammar = A \union B \union C /\ RequestGrammar' = A' \union B' \union C'
    BY DEF RequestGrammar
<1> HIDE DEF A, B, C
<1> QED BY <1>2, <1>3, <1>4, <1>5

\* The guest's own steps.
LEMMA GuestRequests ==
    ASSUME IInv, RequestsUnder, GuestStep \/ GuestRecv
    PROVE  RequestsUnder'
<1> HIDE DEF Tokens
<1>0. /\ g2p \in Seq(Tokens) /\ gtodo \in Seq(Tokens) /\ asked \in Seq(AllRequests)
      /\ answers \in Seq(Answers)
    BY DEF IInv, PeersOK, SessionOK
<1>1. UNCHANGED <<pc, kind, path, answers>>
    BY DEF GuestStep, GuestBegin, GuestSend, GuestRecv, GuestHangup, histVars, sessionVars
<1>2. Reading' = Reading /\ Serving' = Serving
    BY <1>1 DEF Reading, Serving
<1>3. SUFFICES ASSUME pc # "closed" PROVE ServesAsked' /\ RequestsFollow'
    BY <1>1 DEF RequestsUnder
<1>4. PICK b : /\ Run(RequestGrammar, g2p \o gtodo, Reading, b)
               /\ gopen => b = <<"word", Len(asked) + 1>>
    BY <1>3 DEF RequestsUnder, RequestsFollow
<1>5. ServesAsked
    BY <1>3 DEF RequestsUnder
<1>6. ASSUME NEW r \in Requests, GuestBegin(r) PROVE ServesAsked' /\ RequestsFollow'
    <2>1. /\ gopen /\ gopen' = gopen /\ g2p' = g2p /\ gtodo = <<>> /\ gtodo' = RequestTokens(r)
          /\ asked' = Append(asked, r) /\ r \in AllRequests
        BY <1>6, RequestsAssumption DEF GuestBegin
    <2> DEFINE n == Len(asked) + 1
               T == RequestGrammar'
    <2>2. n \in 1..Len(asked') /\ Len(asked') = n /\ asked'[n] = r
        BY <1>0, <2>1, AskedGrows
    <2>3. Run(T, g2p, Reading, <<"word", n>>)
        <3>1. g2p \o gtodo = g2p
            BY <1>0, <2>1, NothingJoined
        <3>2. Run(RequestGrammar, g2p, Reading, <<"word", n>>)
            BY <1>4, <2>1, <3>1
        <3>3. RequestGrammar \subseteq T
            BY <1>0, <2>1, RequestGrammarGrows
        <3> HIDE DEF T, n
        <3> QED BY <3>2, <3>3, RunGrows
    <2>4. Run(T, gtodo', <<"word", n>>, <<"word", n + 1>>)
        <3>1. /\ <<<<"word", n>>, Word(r.kind), <<"arg", n>>>> \in T
              /\ r.kind = "queryvalid" =>
                    /\ <<<<"arg", n>>, ArgOf(r), <<"flag", n>>>> \in T
                    /\ <<<<"flag", n>>, Flag(r.flag), <<"word", n + 1>>>> \in T
              /\ r.kind # "queryvalid" => <<<<"arg", n>>, ArgOf(r), <<"word", n + 1>>>> \in T
            <4>1. <<<<"word", n>>, Word(asked'[n].kind), <<"arg", n>>>> \in T
                BY <2>2 DEF RequestGrammar
            <4>2. <<<<"arg", n>>, ArgOf(asked'[n]),
                     IF asked'[n].kind = "queryvalid" THEN <<"flag", n>>
                     ELSE <<"word", n + 1>>>> \in T
                BY <2>2 DEF RequestGrammar
            <4>3. asked'[n].kind = "queryvalid" =>
                     <<<<"flag", n>>, Flag(asked'[n].flag), <<"word", n + 1>>>> \in T
                BY <2>2 DEF RequestGrammar
            <4> HIDE DEF T
            <4> QED BY <2>2, <4>1, <4>2, <4>3
        <3> HIDE DEF T, n
        <3> QED BY <2>1, <3>1, RequestSpelt, RunTwo, RunThree
    <2>5. gtodo' \in Seq(Tokens)
        BY <2>1, RequestTokensTyped
    <2>6. Run(T, g2p' \o gtodo', Reading', <<"word", n + 1>>)
        <3> HIDE DEF T, n
        <3> QED BY <1>0, <1>2, <2>1, <2>3, <2>4, <2>5, RunConcat
    <2>7. (\E d : /\ Run(RequestGrammar, g2p \o gtodo, Reading, d)
                  /\ gopen => d = <<"word", Len(asked) + 1>>)'
        BY <2>2, <2>6
    <2>8. ServesAsked'
        <3>1. Serving \in Nat \ {0}
            BY <1>0 DEF Serving
        <3>2. Serving <= Len(asked) => asked'[Serving] = asked[Serving] /\ Serving <= Len(asked')
            BY <1>0, <2>1, <3>1, AskedGrows
        <3>3. kind # "none" => Serving <= Len(asked)
            BY <1>5 DEF ServesAsked
        <3>4. pc \in Busy \union {"flag"} => kind # "none"
            BY <1>3 DEF IInv, SessionOK, PlaceFitsOp, Busy, HostWaits
        <3> QED BY <1>1, <1>2, <1>5, <3>2, <3>3, <3>4 DEF ServesAsked, Busy
    <2> QED BY <2>7, <2>8 DEF RequestsFollow
<1>7. ASSUME UNCHANGED asked
      PROVE  ServesAsked' /\ RequestGrammar' = RequestGrammar
    BY <1>1, <1>2, <1>5, <1>7 DEF ServesAsked, RequestGrammar, Busy, HostWaits
<1>8. CASE GuestSend
    <2>1. /\ gtodo # <<>> /\ g2p' = Append(g2p, Head(gtodo)) /\ gtodo' = Tail(gtodo)
          /\ UNCHANGED <<gopen, asked>>
        BY <1>8 DEF GuestSend
    <2>2. g2p' \o gtodo' = g2p \o gtodo
        BY <1>0, <2>1, Across
    <2>3. (\E d : /\ Run(RequestGrammar, g2p \o gtodo, Reading, d)
                  /\ gopen => d = <<"word", Len(asked) + 1>>)'
        BY <1>2, <1>4, <1>7, <2>1, <2>2
    <2> QED BY <1>7, <2>1, <2>3 DEF RequestsFollow
<1>9. CASE GuestRecv
    <2>1. UNCHANGED <<g2p, gtodo, gopen, asked>>
        BY <1>9 DEF GuestRecv
    <2> QED BY <1>2, <1>3, <1>7, <2>1, RequestsStay
<1>10. CASE GuestHangup
    <2>1. gtodo' = <<>> /\ UNCHANGED <<g2p, asked>>
        BY <1>10 DEF GuestHangup
    <2>2. ~gopen'
        BY <1>10, Zenon DEF GuestHangup
    <2>3. g2p' \o gtodo' = g2p
        BY <1>0, <2>1, NothingJoined
    <2>4. \E d : Run(RequestGrammar, g2p, Reading, d)
        BY <1>0, <1>4, RunSplits
    <2>5. (\E d : /\ Run(RequestGrammar, g2p \o gtodo, Reading, d)
                  /\ gopen => d = <<"word", Len(asked) + 1>>)'
        BY <1>2, <1>7, <2>1, <2>2, <2>3, <2>4
    <2> QED BY <1>7, <2>1, <2>5 DEF RequestsFollow
<1> QED BY <1>6, <1>8, <1>9, <1>10 DEF GuestStep

\* The op being served has a number.
LEMMA OpIsAsked ==
    ASSUME IInv, RequestsUnder, kind # "none"
    PROVE  Serving \in 1..Len(asked) /\ asked[Serving].kind = kind
<1>1. answers \in Seq(Answers) /\ asked \in Seq(AllRequests)
    BY DEF IInv, SessionOK, PeersOK
<1>2. Serving <= Len(asked) /\ asked[Serving].kind = kind
    BY DEF RequestsUnder, ServesAsked, IInv, SessionOK, PlaceFitsOp
<1> HIDE DEF Answers, AllRequests
<1>3. Len(answers) \in Nat /\ Len(asked) \in Nat
    BY <1>1
<1> QED BY <1>2, <1>3 DEF Serving

\* A reply leads to the next request.
LEMMA NextServed ==
    ASSUME NEW a, answers \in Seq(Answers), answers' = Append(answers, a)
    PROVE  Serving' = Serving + 1
<1> HIDE DEF Answers
<1> QED BY DEF Serving

\* What an argument block says of the request.
LEMMA ArgRead ==
    ASSUME IInv, RequestsUnder, ReadsArg
    PROVE  /\ Serving <= Len(asked) /\ asked[Serving].kind = kind
           /\ asked[Serving].form = "good" /\ Head(g2p).v = asked[Serving].path
           /\ \A c : <<Reading, Head(g2p), c>> \in RequestGrammar =>
                 c = IF kind = "queryvalid" THEN <<"flag", Serving>> ELSE <<"word", Serving + 1>>
<1>1. pc = "args" /\ g2p # <<>> /\ Head(g2p).v # NoPath
    BY DEF ReadsArg, ReadsGuest
<1>2. Reading = <<"arg", Serving>>
    BY <1>1 DEF Reading
<1>3. Serving <= Len(asked) /\ asked[Serving].kind = kind
    BY <1>1 DEF RequestsUnder, ServesAsked, IInv, SessionOK, PlaceFitsOp
<1>4. \A c : <<Reading, Head(g2p), c>> \in RequestGrammar =>
          /\ Head(g2p) = ArgOf(asked[Serving])
          /\ c = IF kind = "queryvalid" THEN <<"flag", Serving>> ELSE <<"word", Serving + 1>>
    BY <1>2, <1>3, RequestGrammarReads
<1>5. Head(g2p) = ArgOf(asked[Serving])
    BY <1>1, <1>4, RequestRead
<1>6. asked[Serving].form = "good" /\ Head(g2p).v = asked[Serving].path
    BY <1>1, <1>5 DEF ArgOf, Arg, Garbage, Tok
<1> QED BY <1>3, <1>4, <1>6

\* The session's steps while it reads a request.
LEMMA RequestStepsRequests ==
    ASSUME IInv, RequestsUnder,
           \/ RejectOp \/ AcceptOp \/ GuestGone \/ ForwardArgs \/ SwallowOptions
           \/ CopyList \/ CopyFlag \/ BadArgs \/ ArgsSpillFails \/ ArgsTimeout
    PROVE  RequestsUnder'
<1>0. UNCHANGED <<gopen, gtodo, asked>> /\ answers \in Seq(Answers)
    BY DEF RejectOp, AcceptOp, GuestGone, ForwardArgs, SwallowOptions, CopyList, CopyFlag,
           BadArgs, ArgsSpillFails, ArgsTimeout, guestVars, IInv, SessionOK
<1> DEFINE t == Head(g2p)
<1>c. ASSUME pc' = "closed" PROVE RequestsUnder'
    BY <1>c DEF RequestsUnder
<1>1. CASE RejectOp \/ GuestGone \/ BadArgs \/ ArgsSpillFails \/ ArgsTimeout
    <2>1. Reject \/ Hangup
        BY <1>1 DEF RejectOp, GuestGone, BadArgs, ArgsSpillFails, ArgsTimeout
    <2> QED BY <1>c, <2>1 DEF Reject, Hangup
<1>2. CASE AcceptOp
    <2>1. /\ pc = "idle" /\ pc' = "args" /\ kind' = t.v /\ UNCHANGED answers
          /\ g2p # <<>> /\ g2p' = Tail(g2p)
        BY <1>2 DEF AcceptOp, ReadsGuest, histVars
    <2>2. Reading = <<"word", Serving>> /\ Serving' = Serving /\ Reading' = <<"arg", Serving>>
        BY <2>1 DEF Reading, Serving
    <2>3. \A c : <<Reading, t, c>> \in RequestGrammar =>
              /\ Serving \in 1..Len(asked) /\ t = Word(asked[Serving].kind) /\ c = Reading'
        BY <2>2, RequestGrammarReads
    <2> HIDE DEF t
    <2>4. \E c : <<Reading, t, c>> \in RequestGrammar
        BY <2>1, RequestRead DEF t
    <2>5. Serving \in 1..Len(asked) /\ t = Word(asked[Serving].kind)
        BY <2>3, <2>4
    <2>6. t.v = asked[Serving].kind
        BY <2>5 DEF Word, Tok
    <2>7. ServesAsked'
        BY <1>0, <2>1, <2>2, <2>5, <2>6 DEF ServesAsked, Busy, HostWaits
    <2>8. RequestsFollow'
        BY <1>0, <2>1, <2>3, RequestsOnward DEF t
    <2> QED BY <2>7, <2>8 DEF RequestsUnder
<1>3. CASE ForwardArgs
    <2>1. ReadsArg /\ kind \in {"isvalid", "query"} /\ SendHost(<<t>>, "stderr", t.v)
        BY <1>3 DEF ForwardArgs
    <2>2. pc = "args" /\ g2p # <<>> /\ g2p' = Tail(g2p)
        BY <2>1 DEF ReadsArg, ReadsGuest
    <2>3. CASE pc' = "closed"
        BY <1>c, <2>3
    <2>4. CASE pc' = "stderr" /\ path' = t.v /\ UNCHANGED <<kind, answers>>
        <3>1. Serving' = Serving /\ Reading' = <<"word", Serving + 1>>
            BY <2>4 DEF Reading, Serving
        <3>2. RequestsFollow'
            BY <1>0, <2>1, <2>2, <3>1, ArgRead, RequestsOnward
        <3>3. ServesAsked'
            BY <1>0, <2>1, <2>4, <3>1, ArgRead DEF ServesAsked
        <3> QED BY <3>2, <3>3 DEF RequestsUnder
    <2> QED BY <2>1, <2>3, <2>4 DEF SendHost, Hangup, histVars
<1>4. CASE SwallowOptions
    <2>1. ReadsArg /\ kind = "setoptions" /\ Reply(<<Last>>, "ok")
        BY <1>4 DEF SwallowOptions
    <2>2. pc = "args" /\ g2p # <<>> /\ g2p' = Tail(g2p)
        BY <2>1 DEF ReadsArg, ReadsGuest
    <2>3. CASE pc' = "closed"
        BY <1>c, <2>3
    <2>4. CASE pc' = "idle" /\ kind' = "none" /\ answers' = Append(answers, "ok")
        <3>1. Reading' = <<"word", Serving + 1>>
            BY <1>0, <2>4, NextServed DEF Reading
        <3>2. RequestsFollow'
            BY <1>0, <2>1, <2>2, <3>1, ArgRead, RequestsOnward
        <3> QED BY <2>4, <3>2 DEF RequestsUnder, ServesAsked, Busy, HostWaits
    <2> QED BY <2>1, <2>3, <2>4 DEF Reply, Hangup
<1>5. CASE CopyList
    <2>1. /\ ReadsArg /\ kind = "queryvalid" /\ pc' = "flag" /\ path' = t.v
          /\ UNCHANGED <<kind, answers>>
        BY <1>5 DEF CopyList, histVars
    <2>2. pc = "args" /\ g2p # <<>> /\ g2p' = Tail(g2p)
        BY <2>1 DEF ReadsArg, ReadsGuest
    <2>3. Serving' = Serving /\ Reading' = <<"flag", Serving>>
        BY <2>1 DEF Reading, Serving
    <2>4. RequestsFollow'
        BY <1>0, <2>1, <2>2, <2>3, ArgRead, RequestsOnward
    <2>5. ServesAsked'
        BY <1>0, <2>1, <2>3, ArgRead DEF ServesAsked
    <2> QED BY <2>4, <2>5 DEF RequestsUnder
<1>6. CASE CopyFlag
    <2>1. /\ pc = "flag" /\ g2p # <<>> /\ g2p' = Tail(g2p)
          /\ SendHost(<<t>>, "stderr", path)
        BY <1>6 DEF CopyFlag, ReadsGuest
    <2>2. CASE pc' = "closed"
        BY <1>c, <2>2
    <2>3. CASE pc' = "stderr" /\ path' = path /\ UNCHANGED <<kind, answers>>
        <3>1. /\ Reading = <<"flag", Serving>>
              /\ Serving' = Serving /\ Reading' = <<"word", Serving + 1>>
            BY <2>1, <2>3 DEF Reading, Serving
        <3>2. \A c : <<Reading, t, c>> \in RequestGrammar => c = Reading'
            BY <3>1, RequestGrammarReads
        <3>3. RequestsFollow'
            BY <1>0, <2>1, <3>2, RequestsOnward
        <3>4. ServesAsked'
            BY <1>0, <2>1, <2>3, <3>1 DEF ServesAsked, RequestsUnder
        <3> QED BY <3>3, <3>4 DEF RequestsUnder
    <2> QED BY <2>1, <2>2, <2>3 DEF SendHost, Hangup, histVars
<1> QED BY <1>1, <1>2, <1>3, <1>4, <1>5, <1>6

\* What the session does while it reads a reply, or fills, as the guest's
\* requests see it.
LEMMA ReplyStepsOutline ==
    ASSUME IInv,
           \/ HostLost \/ HostStreams
           \/ RelayLog \/ RelayError \/ RelayLast \/ RelayResult \/ RelayRest
           \/ AnswerFromHost \/ StartFill
           \/ FillDial \/ FillAsk \/ AnswerAfterFailedFill
           \/ Recheck \/ DropLog \/ RecheckLast \/ RecheckError \/ AnswerFromRecheck
    PROVE  /\ pc \in Busy /\ UNCHANGED <<guestVars, g2p>>
           /\ \/ pc' = "closed"
              \/ pc' \in Busy /\ UNCHANGED <<kind, path, answers>>
              \/ /\ pc' = "idle" /\ kind' = "none"
                 /\ \E a : answers' = Append(answers, a)
<1>1. /\ Hangup => pc' = "closed"
      /\ Reject => pc' = "closed"
      /\ \A toks, a : Reply(toks, a) =>
            \/ pc' = "closed"
            \/ pc' = "idle" /\ kind' = "none" /\ \E b : answers' = Append(answers, b)
    BY DEF Hangup, Reject, Reply
<1>2. CASE HostLost \/ HostStreams
    BY <1>1, <1>2 DEF HostLost, HostStreams, Busy, HostWaits
<1>3. CASE RelayLog \/ RelayLast \/ StartFill \/ FillDial \/ FillAsk \/ DropLog \/ RecheckLast
    BY <1>1, <1>3 DEF RelayLog, RelayLast, StartFill, FillDial, FillAsk, FillStep, DropLog,
        RecheckLast, Busy, HostWaits, histVars, sessionVars
<1>4. CASE RelayError \/ RelayRest \/ RelayResult
    BY <1>1, <1>4 DEF RelayError, RelayRest, RelayResult, Busy, HostWaits, histVars
<1>5. CASE AnswerFromHost \/ AnswerAfterFailedFill \/ RecheckError \/ AnswerFromRecheck
    BY <1>1, <1>5 DEF AnswerFromHost, AnswerAfterFailedFill, RecheckError, AnswerFromRecheck,
        ReplyValidity, Busy, HostWaits
<1>6. CASE Recheck
    BY <1>1, <1>6 DEF Recheck, SendHost, Busy, HostWaits, histVars
<1> QED BY <1>2, <1>3, <1>4, <1>5, <1>6

LEMMA ReplyStepsRequests ==
    ASSUME IInv, RequestsUnder,
           \/ HostLost \/ HostStreams
           \/ RelayLog \/ RelayError \/ RelayLast \/ RelayResult \/ RelayRest
           \/ AnswerFromHost \/ StartFill
           \/ FillDial \/ FillAsk \/ AnswerAfterFailedFill
           \/ Recheck \/ DropLog \/ RecheckLast \/ RecheckError \/ AnswerFromRecheck
    PROVE  RequestsUnder'
<1>1. /\ pc \in Busy /\ UNCHANGED <<g2p, gtodo, gopen, asked>>
      /\ \/ pc' = "closed"
         \/ pc' \in Busy /\ UNCHANGED <<kind, path, answers>>
         \/ /\ pc' = "idle" /\ kind' = "none"
            /\ \E a : answers' = Append(answers, a)
    BY ReplyStepsOutline DEF guestVars
<1>2. pc # "closed" /\ Reading = <<"word", Serving + 1>>
    BY <1>1 DEF Busy, HostWaits, Reading
<1>3. CASE pc' = "closed"
    BY <1>3 DEF RequestsUnder
<1>4. CASE pc' \in Busy /\ UNCHANGED <<kind, path, answers>>
    <2>1. Serving' = Serving /\ Reading' = Reading
        BY <1>2, <1>4 DEF Serving, Reading, Busy, HostWaits
    <2>2. RequestsFollow'
        BY <1>1, <1>2, <2>1, RequestsStay
    <2>3. ServesAsked'
        BY <1>1, <1>2, <1>4, <2>1 DEF ServesAsked, RequestsUnder
    <2> QED BY <2>2, <2>3 DEF RequestsUnder
<1>5. CASE pc' = "idle" /\ kind' = "none" /\ \E a : answers' = Append(answers, a)
    <2>1. Serving' = Serving + 1
        BY <1>5, NextServed DEF IInv, SessionOK
    <2>2. Reading' = Reading
        BY <1>2, <1>5, <2>1 DEF Reading
    <2>3. RequestsFollow'
        BY <1>1, <1>2, <2>2, RequestsStay
    <2> QED BY <1>5, <2>3 DEF RequestsUnder, ServesAsked, Busy, HostWaits
<1> QED BY <1>1, <1>3, <1>4, <1>5

LEMMA InitRequests == Init => RequestsUnder
<1> SUFFICES ASSUME Init PROVE RequestsUnder
    OBVIOUS
<1>1. g2p \o gtodo = <<>> /\ Reading = <<"word", Len(asked) + 1>>
    BY DEF Init, Reading, Serving
<1>2. RequestsFollow
    BY <1>1, RunNothing DEF RequestsFollow
<1> QED BY <1>2 DEF Init, RequestsUnder, ServesAsked, Busy, HostWaits

\* Every step keeps the guest's requests.
LEMMA NextRequests ==
    ASSUME IInv, RequestsUnder, [Next]_vars
    PROVE  RequestsUnder'
<1>1. CASE SessionStep
    BY <1>1, RequestStepsRequests, ReplyStepsRequests DEF SessionStep
<1>2. CASE GuestStep \/ GuestRecv
    BY <1>2, GuestRequests
<1>3. CASE UNCHANGED <<pc, kind, path, guestVars, g2p, answers>>
    <2>1. /\ Serving' = Serving /\ Reading' = Reading
          /\ UNCHANGED <<pc, kind, path, g2p, gtodo, gopen, asked>>
        BY <1>3 DEF Serving, Reading, guestVars
    <2>2. pc # "closed" => RequestsFollow'
        BY <2>1, RequestsStay
    <2> QED BY <2>1, <2>2 DEF RequestsUnder, ServesAsked, Busy
<1>4. CASE HostStep \/ FillEnds \/ Others \/ UNCHANGED vars
    BY <1>3, <1>4
    DEF HostStep, HostRun, HostSend, FillEnds, FillEnsured, FillFails, FillStep, Others,
        HostDies, StoreChanges, OrphanFetches, vars, sessionVars, histVars
<1> QED BY <1>1, <1>2, <1>4 DEF Next, Terminated

-----------------------------------------------------------------------------
(* The guest's leg: the replies.                                           *)

GuestPlaces == {"stderr", "res", "rest"}

\* How the guest reads the replies to its requests, all of them in one piece,
\* where each has to end as the answer the session gave.
ReplyGrammarOf(rs, as) ==
    {x \in (GuestPlaces \X (1..Len(rs))) \X Tokens \X (GuestPlaces \X Nat) :
        \E place \in GuestPlaces, n \in 1..Len(rs) :
            /\ x[1] = <<place, n>>
            /\ \/ x[3] = <<Parse(place, rs[n].kind, x[2]), n>>
               \/ /\ Parse(place, rs[n].kind, x[2]) = "done"
                  /\ x[3] = <<"stderr", n + 1>>
                  /\ n <= Len(as) /\ as[n] = AnswerOf(rs[n].kind, x[2])}

ReplyGrammar == ReplyGrammarOf(asked, answers)

\* Where the session stands in them.
Replying ==
    <<IF pc = "result" THEN "res" ELSE IF pc = "rest" THEN "rest" ELSE "stderr", Serving>>

\* What lies on the guest's leg leads its parser to where the session stands,
\* and once that is over, to where it stood.
RepliesFollow ==
    \E e : /\ Run(ReplyGrammar, p2g \o gw, <<gst, Len(got) + 1>>, e)
           /\ pc # "closed" => e = Replying

RepliesUnder ==
    /\ gst \in GuestPlaces
    /\ AnswersInOrder
    /\ gopen => RepliesFollow

LEMMA ReplyGrammarReads ==
    ASSUME NEW place, NEW n, NEW t, NEW c, <<<<place, n>>, t, c>> \in ReplyGrammar
    PROVE  LET q == Parse(place, asked[n].kind, t)
           IN /\ place \in GuestPlaces /\ n \in 1..Len(asked) /\ t \in Tokens
              /\ \/ q \in GuestPlaces /\ c = <<q, n>>
                 \/ /\ q = "done" /\ c = <<"stderr", n + 1>>
                    /\ n <= Len(answers) /\ answers[n] = AnswerOf(asked[n].kind, t)
<1> HIDE DEF Tokens
<1> DEFINE x == <<<<place, n>>, t, c>>
           q == Parse(place, asked[n].kind, t)
<1>1. x \in (GuestPlaces \X (1..Len(asked))) \X Tokens \X (GuestPlaces \X Nat)
    BY DEF ReplyGrammar, ReplyGrammarOf
<1>2. place \in GuestPlaces /\ n \in 1..Len(asked) /\ t \in Tokens /\ c \in GuestPlaces \X Nat
    BY <1>1
<1>3. x[1] = <<place, n>> /\ x[2] = t /\ x[3] = c
    OBVIOUS
<1>4. PICK p \in GuestPlaces, m \in 1..Len(asked) :
          /\ x[1] = <<p, m>>
          /\ \/ x[3] = <<Parse(p, asked[m].kind, x[2]), m>>
             \/ /\ Parse(p, asked[m].kind, x[2]) = "done"
                /\ x[3] = <<"stderr", m + 1>>
                /\ m <= Len(answers) /\ answers[m] = AnswerOf(asked[m].kind, x[2])
    BY DEF ReplyGrammar, ReplyGrammarOf
<1> HIDE DEF x
<1>5. p = place /\ m = n
    BY <1>3, <1>4
<1>6. \/ c = <<q, n>>
      \/ /\ q = "done" /\ c = <<"stderr", n + 1>>
         /\ n <= Len(answers) /\ answers[n] = AnswerOf(asked[n].kind, t)
    BY <1>3, <1>4, <1>5
<1>7. c = <<q, n>> => q \in GuestPlaces
    BY <1>2
<1> QED BY <1>2, <1>6, <1>7

LEMMA ReplyGrammarSteps ==
    ASSUME NEW rs, NEW as, NEW place \in GuestPlaces, NEW n \in 1..Len(rs), NEW t \in Tokens
    PROVE  LET q == Parse(place, rs[n].kind, t)
           IN /\ q \in GuestPlaces => <<<<place, n>>, t, <<q, n>>>> \in ReplyGrammarOf(rs, as)
              /\ q = "done" /\ n <= Len(as) /\ as[n] = AnswerOf(rs[n].kind, t) =>
                    <<<<place, n>>, t, <<"stderr", n + 1>>>> \in ReplyGrammarOf(rs, as)
<1> HIDE DEF Tokens
<1> DEFINE q == Parse(place, rs[n].kind, t)
<1>1. ASSUME NEW c \in GuestPlaces \X Nat,
             \/ c = <<q, n>>
             \/ /\ q = "done" /\ c = <<"stderr", n + 1>>
                /\ n <= Len(as) /\ as[n] = AnswerOf(rs[n].kind, t)
      PROVE  <<<<place, n>>, t, c>> \in ReplyGrammarOf(rs, as)
    <2> DEFINE x == <<<<place, n>>, t, c>>
    <2>1. x \in (GuestPlaces \X (1..Len(rs))) \X Tokens \X (GuestPlaces \X Nat)
        OBVIOUS
    <2>2. x[1] = <<place, n>> /\ x[2] = t /\ x[3] = c
        OBVIOUS
    <2> HIDE DEF x
    <2>3. /\ x[1] = <<place, n>>
          /\ \/ x[3] = <<Parse(place, rs[n].kind, x[2]), n>>
             \/ /\ Parse(place, rs[n].kind, x[2]) = "done"
                /\ x[3] = <<"stderr", n + 1>>
                /\ n <= Len(as) /\ as[n] = AnswerOf(rs[n].kind, x[2])
        BY <1>1, <2>2
    <2>4. x \in ReplyGrammarOf(rs, as)
        BY <2>1, <2>3, Zenon DEF ReplyGrammarOf
    <2> QED BY <2>4 DEF x
<1>2. q \in GuestPlaces => <<q, n>> \in GuestPlaces \X Nat
    OBVIOUS
<1>3. <<"stderr", n + 1>> \in GuestPlaces \X Nat
    BY DEF GuestPlaces
<1> QED BY <1>1, <1>2, <1>3

\* Replies given stay as they are, and so do requests.
LEMMA ReplyGrammarGrows ==
    ASSUME asked \in Seq(AllRequests), answers \in Seq(Answers),
           \/ UNCHANGED asked
           \/ \E r : asked' = Append(asked, r),
           \/ UNCHANGED answers
           \/ \E a : answers' = Append(answers, a)
    PROVE  ReplyGrammar \subseteq ReplyGrammar'
<1> HIDE DEF AllRequests, Answers, Tokens
<1>1. \A n \in 1..Len(asked) : n \in 1..Len(asked') /\ asked'[n] = asked[n]
    <2>1. CASE UNCHANGED asked
        BY <2>1
    <2>2. CASE \E r : asked' = Append(asked, r)
        BY <2>2, AskedGrows
    <2> QED BY <2>1, <2>2
<1>2. \A n \in 1..Len(answers) : n <= Len(answers') /\ answers'[n] = answers[n]
    OBVIOUS
<1>3. Len(answers) \in Nat
    OBVIOUS
<1>4. ASSUME NEW x \in ReplyGrammar PROVE x \in ReplyGrammar'
    <2>1. x \in (GuestPlaces \X (1..Len(asked))) \X Tokens \X (GuestPlaces \X Nat)
        BY <1>4 DEF ReplyGrammar, ReplyGrammarOf
    <2>2. x \in (GuestPlaces \X (1..Len(asked'))) \X Tokens \X (GuestPlaces \X Nat)
        BY <1>1, <2>1
    <2>3. PICK place \in GuestPlaces, n \in 1..Len(asked) :
              /\ x[1] = <<place, n>>
              /\ \/ x[3] = <<Parse(place, asked[n].kind, x[2]), n>>
                 \/ /\ Parse(place, asked[n].kind, x[2]) = "done"
                    /\ x[3] = <<"stderr", n + 1>>
                    /\ n <= Len(answers) /\ answers[n] = AnswerOf(asked[n].kind, x[2])
        BY <1>4 DEF ReplyGrammar, ReplyGrammarOf
    <2>4. n \in 1..Len(asked') /\ asked'[n] = asked[n]
        BY <1>1
    <2>5. n <= Len(answers) => n <= Len(answers') /\ answers'[n] = answers[n]
        BY <1>2, <1>3
    <2>6. /\ x[1] = <<place, n>>
          /\ \/ x[3] = <<Parse(place, asked'[n].kind, x[2]), n>>
             \/ /\ Parse(place, asked'[n].kind, x[2]) = "done"
                /\ x[3] = <<"stderr", n + 1>>
                /\ n <= Len(answers') /\ answers'[n] = AnswerOf(asked'[n].kind, x[2])
        BY <2>3, <2>4, <2>5
    <2>7. n \in 1..Len(asked') /\ x[2] \in Tokens
          /\ \E pl \in GuestPlaces : /\ x[1] = <<pl, n>>
                /\ \/ x[3] = <<Parse(pl, asked'[n].kind, x[2]), n>>
                   \/ /\ Parse(pl, asked'[n].kind, x[2]) = "done"
                      /\ x[3] = <<"stderr", n + 1>>
                      /\ n <= Len(answers') /\ answers'[n] = AnswerOf(asked'[n].kind, x[2])
        BY <2>2, <2>4, <2>6, Zenon
    <2> QED BY <2>2, <2>7, Zenon DEF ReplyGrammar, ReplyGrammarOf
<1> QED BY <1>4

\* What the guest's parser makes of the tokens a reply is made of.
LEMMA Parses ==
    ASSUME NEW k
    PROVE  /\ Parse("stderr", k, Log) = "stderr"
           /\ \A w : Parse("stderr", k, Err(w)) = "done"
           /\ k = "setoptions" => Parse("stderr", k, Last) = "done"
           /\ k # "setoptions" => Parse("stderr", k, Last) = "res"
           /\ k = "isvalid" =>
                 \A v \in {"valid", "invalid"} :
                    Parse("res", k, Res(v)) = "done" /\ AnswerOf(k, Res(v)) = v
           /\ k # "isvalid" =>
                 /\ Parse("res", k, Res("end")) = "done" /\ AnswerOf(k, Res("end")) = "result"
                 /\ Parse("res", k, Res("more")) = "rest"
           /\ Parse("rest", k, Rest) = "done" /\ AnswerOf(k, Rest) = "result"
           /\ AnswerOf(k, Err("daemon")) = "error" /\ AnswerOf(k, Err("proxy")) = "rejected"
           /\ AnswerOf(k, Last) = "ok"
<1>1. /\ Log.t = "log" /\ Last.t = "last" /\ Rest.t = "rest"
      /\ \A w : Err(w).t = "error" /\ Err(w).v = w
      /\ \A v : Res(v).t = "res" /\ Res(v).v = v
    BY DEF Log, Last, Err, Rest, Res, Tok
<1>2. Parse("stderr", k, Log) = "stderr"
    BY <1>1 DEF Parse
<1>3. \A w : Parse("stderr", k, Err(w)) = "done"
    BY <1>1 DEF Parse
<1>4. IF k = "setoptions" THEN Parse("stderr", k, Last) = "done"
      ELSE Parse("stderr", k, Last) = "res"
    BY <1>1 DEF Parse
<1>5. ASSUME k = "isvalid", NEW v \in {"valid", "invalid"}
      PROVE  Parse("res", k, Res(v)) = "done" /\ AnswerOf(k, Res(v)) = v
    BY <1>1, <1>5 DEF Parse, AnswerOf
<1>6. ASSUME k # "isvalid"
      PROVE  /\ Parse("res", k, Res("end")) = "done" /\ AnswerOf(k, Res("end")) = "result"
             /\ Parse("res", k, Res("more")) = "rest"
    <2>1. Res("end") # Res("more")
        BY <1>1
    <2> QED BY <1>1, <1>6, <2>1 DEF Parse, AnswerOf
<1>7. Parse("rest", k, Rest) = "done" /\ AnswerOf(k, Rest) = "result"
    BY <1>1 DEF Parse, AnswerOf
<1>8. /\ AnswerOf(k, Err("daemon")) = "error" /\ AnswerOf(k, Err("proxy")) = "rejected"
      /\ AnswerOf(k, Last) = "ok"
    BY <1>1 DEF AnswerOf
<1> QED BY <1>2, <1>3, <1>4, <1>5, <1>6, <1>7, <1>8

\* Nothing is written, and the session stands where it stood.
LEMMA RepliesStand ==
    ASSUME RepliesUnder, UNCHANGED <<gst, got, gopen, asked, answers>>,
           p2g' \o gw' = p2g \o gw,
           pc' # "closed" => pc # "closed" /\ Replying' = Replying
    PROVE  RepliesUnder'
<1>1. ReplyGrammar' = ReplyGrammar
    BY DEF ReplyGrammar
<1>2. ASSUME gopen PROVE RepliesFollow'
    <2>1. PICK e : /\ Run(ReplyGrammar, p2g \o gw, <<gst, Len(got) + 1>>, e)
                   /\ pc # "closed" => e = Replying
        BY <1>2 DEF RepliesUnder, RepliesFollow
    <2>2. (\E d : /\ Run(ReplyGrammar, p2g \o gw, <<gst, Len(got) + 1>>, d)
                  /\ pc # "closed" => d = Replying)'
        BY <1>1, <2>1
    <2> QED BY <2>2 DEF RepliesFollow
<1> QED BY <1>2 DEF RepliesUnder, AnswersInOrder

\* The connections are dropped, with what the buffer held.
LEMMA RepliesCut ==
    ASSUME IInv, RepliesUnder, Hangup, UNCHANGED guestVars
    PROVE  RepliesUnder'
<1> HIDE DEF Tokens
<1>0. UNCHANGED <<gst, got, gopen, asked, answers, p2g>> /\ pc' = "closed" /\ gw' = <<>>
    BY DEF guestVars, Hangup, histVars
<1>1. ReplyGrammar' = ReplyGrammar
    BY <1>0 DEF ReplyGrammar
<1>2. p2g \in Seq(Tokens) /\ gw \in Seq(Tokens) /\ p2g' \o gw' = p2g
    BY <1>0, NothingJoined DEF IInv, SessionOK, PeersOK
<1>3. ASSUME gopen PROVE RepliesFollow'
    <2>1. \E e : Run(ReplyGrammar, p2g \o gw, <<gst, Len(got) + 1>>, e)
        BY <1>3 DEF RepliesUnder, RepliesFollow
    <2>2. \E e : Run(ReplyGrammar, p2g, <<gst, Len(got) + 1>>, e)
        BY <1>2, <2>1, RunSplits
    <2>3. (\E d : /\ Run(ReplyGrammar, p2g \o gw, <<gst, Len(got) + 1>>, d)
                  /\ pc # "closed" => d = Replying)'
        BY <1>0, <1>1, <1>2, <2>2
    <2> QED BY <2>3 DEF RepliesFollow
<1> QED BY <1>0, <1>3 DEF RepliesUnder, AnswersInOrder

\* toks are written, and lead to where the session comes to stand.
LEMMA RepliesWritten ==
    ASSUME IInv, RepliesUnder, pc # "closed", UNCHANGED guestVars,
           \/ UNCHANGED answers
           \/ \E a : answers' = Append(answers, a),
           NEW toks \in Seq(Tokens), NEW d,
           gopen => p2g' \o gw' = (p2g \o gw) \o toks,
           Run(ReplyGrammar', toks, Replying, d),
           pc' # "closed" => d = Replying'
    PROVE  RepliesUnder'
<1> HIDE DEF Tokens, Answers, AllRequests
<1>0. /\ UNCHANGED <<gst, got, gopen, asked>>
      /\ p2g \in Seq(Tokens) /\ gw \in Seq(Tokens)
      /\ asked \in Seq(AllRequests) /\ answers \in Seq(Answers) /\ got \in Seq(Answers)
    BY DEF guestVars, IInv, SessionOK, PeersOK
<1>1. ReplyGrammar \subseteq ReplyGrammar'
    BY <1>0, ReplyGrammarGrows
<1>2. ASSUME gopen PROVE RepliesFollow'
    <2>1. Run(ReplyGrammar, p2g \o gw, <<gst, Len(got) + 1>>, Replying)
        BY <1>2 DEF RepliesUnder, RepliesFollow
    <2>2. Run(ReplyGrammar', p2g \o gw, <<gst, Len(got) + 1>>, Replying)
        BY <1>1, <2>1, RunGrows
    <2>3. p2g \o gw \in Seq(Tokens)
        BY <1>0, ConcatProperties
    <2>4. Run(ReplyGrammar', (p2g \o gw) \o toks, <<gst, Len(got) + 1>>, d)
        BY <2>2, <2>3, RunConcat
    <2>5. (\E e : /\ Run(ReplyGrammar, p2g \o gw, <<gst, Len(got) + 1>>, e)
                  /\ pc # "closed" => e = Replying)'
        BY <1>0, <1>2, <2>4
    <2> QED BY <2>5 DEF RepliesFollow
<1>3. AnswersInOrder'
    <2>1. AnswersInOrder
        BY DEF RepliesUnder
    <2>2. Len(answers) <= Len(answers') /\ \A n \in 1..Len(answers) : answers'[n] = answers[n]
        BY <1>0
    <2>3. Len(got) \in Nat /\ Len(answers) \in Nat /\ Len(answers') \in Nat /\ DOMAIN got = 1..Len(got)
        BY <1>0
    <2>4. Len(got) <= Len(answers) /\ \A n \in 1..Len(got) : got[n] = answers[n]
        BY <2>1, <2>3 DEF AnswersInOrder
    <2>5. Len(got) <= Len(answers') /\ \A n \in 1..Len(got) : got[n] = answers'[n]
        BY <2>2, <2>3, <2>4
    <2> QED BY <1>0, <2>3, <2>5 DEF AnswersInOrder
<1> QED BY <1>0, <1>2, <1>3 DEF RepliesUnder

\* A token that does not end the reply, and one that does.
LEMMA InnerToken ==
    ASSUME UNCHANGED asked, Serving \in 1..Len(asked), NEW place \in GuestPlaces,
           NEW t \in Tokens, NEW q \in GuestPlaces, Parse(place, asked[Serving].kind, t) = q
    PROVE  <<<<place, Serving>>, t, <<q, Serving>>>> \in ReplyGrammar'
<1> HIDE DEF Tokens
<1>1. ReplyGrammar' = ReplyGrammarOf(asked, answers')
    BY DEF ReplyGrammar
<1> QED BY <1>1, ReplyGrammarSteps

LEMMA LastToken ==
    ASSUME IInv, UNCHANGED asked, Serving \in 1..Len(asked), NEW place \in GuestPlaces,
           NEW t \in Tokens, Parse(place, asked[Serving].kind, t) = "done",
           NEW a, answers' = Append(answers, a), AnswerOf(asked[Serving].kind, t) = a
    PROVE  <<<<place, Serving>>, t, <<"stderr", Serving + 1>>>> \in ReplyGrammar'
<1> HIDE DEF Tokens, Answers
<1>1. ReplyGrammar' = ReplyGrammarOf(asked, answers')
    BY DEF ReplyGrammar
<1>2. answers \in Seq(Answers)
    BY DEF IInv, SessionOK
<1>3. Serving <= Len(answers') /\ answers'[Serving] = a
    BY <1>2 DEF Serving
<1> QED BY <1>1, <1>3, ReplyGrammarSteps

\* A complete reply.
LEMMA ReplyReplies ==
    ASSUME IInv, RepliesUnder, pc # "closed", UNCHANGED guestVars,
           NEW toks \in Seq(Tokens), NEW a, Reply(toks, a),
           answers' = Append(answers, a) =>
               Run(ReplyGrammar', toks, Replying, <<"stderr", Serving + 1>>)
    PROVE  RepliesUnder'
<1> HIDE DEF Tokens
<1>1. CASE Hangup
    BY <1>1, RepliesCut
<1>2. CASE Deliver(toks) /\ pc' = "idle" /\ answers' = Append(answers, a)
    <2>1. p2g' \o gw' = (p2g \o gw) \o toks
        <3>1. p2g \in Seq(Tokens) /\ gw \in Seq(Tokens)
            BY DEF IInv, SessionOK, PeersOK
        <3>2. p2g' = (p2g \o gw) \o toks /\ gw' = <<>>
            BY <1>2 DEF Deliver
        <3>3. (p2g \o gw) \o toks \in Seq(Tokens)
            BY <3>1, ConcatProperties
        <3> QED BY <3>2, <3>3, NothingJoined
    <2>2. Replying' = <<"stderr", Serving + 1>>
        BY <1>2, NextServed DEF Replying, IInv, SessionOK
    <2> QED BY <1>2, <2>1, <2>2, RepliesWritten
<1> QED BY <1>1, <1>2 DEF Reply

\* The proxy's own error, at a place where the guest takes a stderr message.
LEMMA RejectReplies ==
    ASSUME IInv, RepliesUnder, pc \in {"idle", "args", "flag", "stderr"},
           Serving \in 1..Len(asked), UNCHANGED guestVars, Reject
    PROVE  RepliesUnder'
<1> HIDE DEF Tokens
<1>1. CASE Hangup
    BY <1>1, RepliesCut
<1>2. CASE Deliver(<<Err("proxy")>>) /\ pc' = "closed" /\ answers' = Append(answers, "rejected")
    <2>1. Err("proxy") \in Tokens /\ <<Err("proxy")>> \in Seq(Tokens) /\ "stderr" \in GuestPlaces
        BY TokensMade DEF GuestPlaces
    <2>2. p2g' \o gw' = (p2g \o gw) \o <<Err("proxy")>>
        <3>1. p2g \in Seq(Tokens) /\ gw \in Seq(Tokens)
            BY DEF IInv, SessionOK, PeersOK
        <3>2. p2g' = (p2g \o gw) \o <<Err("proxy")>> /\ gw' = <<>>
            BY <1>2 DEF Deliver
        <3>3. (p2g \o gw) \o <<Err("proxy")>> \in Seq(Tokens)
            BY <2>1, <3>1, ConcatProperties
        <3> QED BY <3>2, <3>3, NothingJoined
    <2>3. Replying = <<"stderr", Serving>>
        BY DEF Replying
    <2>4. <<Replying, Err("proxy"), <<"stderr", Serving + 1>>>> \in ReplyGrammar'
        <3>1. /\ Parse("stderr", asked[Serving].kind, Err("proxy")) = "done"
              /\ AnswerOf(asked[Serving].kind, Err("proxy")) = "rejected"
            BY Parses
        <3>2. UNCHANGED asked
            BY DEF guestVars
        <3> QED BY <1>2, <2>1, <2>3, <3>1, <3>2, LastToken
    <2>5. Run(ReplyGrammar', <<Err("proxy")>>, Replying, <<"stderr", Serving + 1>>)
        BY <2>4, RunOne
    <2> QED BY <1>2, <2>1, <2>2, <2>5, RepliesWritten
<1> QED BY <1>1, <1>2 DEF Reject

\* The session's steps while it reads a request.
LEMMA RequestStepsReplies ==
    ASSUME IInv, RequestsUnder, RepliesUnder,
           \/ RejectOp \/ AcceptOp \/ GuestGone \/ ForwardArgs \/ SwallowOptions
           \/ CopyList \/ CopyFlag \/ BadArgs \/ ArgsSpillFails \/ ArgsTimeout
    PROVE  RepliesUnder'
<1> HIDE DEF Tokens
<1>0. UNCHANGED guestVars /\ UNCHANGED <<gst, got, gopen, asked>>
    BY DEF RejectOp, AcceptOp, GuestGone, ForwardArgs, SwallowOptions, CopyList, CopyFlag,
           BadArgs, ArgsSpillFails, ArgsTimeout, guestVars
<1>1. ASSUME pc \in {"args", "flag"}
      PROVE  Serving \in 1..Len(asked) /\ asked[Serving].kind = kind
    BY <1>1, OpIsAsked DEF IInv, SessionOK, PlaceFitsOp
<1>2. CASE RejectOp
    <2>1. pc = "idle" /\ g2p # <<>> /\ Reject
        BY <1>2 DEF RejectOp, ReadsGuest
    <2>2. Reading = <<"word", Serving>>
        BY <2>1 DEF Reading
    <2>3. \E c : <<Reading, Head(g2p), c>> \in RequestGrammar
        BY <2>1, RequestRead
    <2>4. Serving \in 1..Len(asked)
        BY <2>2, <2>3, RequestGrammarReads
    <2> QED BY <1>0, <2>1, <2>4, RejectReplies
<1>3. CASE BadArgs \/ ArgsSpillFails \/ ArgsTimeout
    <2>1. pc \in {"args", "flag"} /\ Reject
        BY <1>3 DEF BadArgs, ArgsSpillFails, ArgsTimeout, ReadsArg
    <2> QED BY <1>0, <1>1, <2>1, RejectReplies
<1>4. CASE GuestGone
    BY <1>0, <1>4, RepliesCut DEF GuestGone
<1>5. CASE AcceptOp \/ CopyList
    <2>1. pc \in {"idle", "args"} /\ pc' \in {"args", "flag"} /\ UNCHANGED <<p2g, gw, answers>>
        BY <1>5 DEF AcceptOp, CopyList, ReadsArg, histVars
    <2>2. Replying' = Replying
        BY <2>1 DEF Replying, Serving
    <2> QED BY <1>0, <2>1, <2>2, RepliesStand
<1>6. CASE ForwardArgs \/ CopyFlag
    <2>1. pc \in {"args", "flag"} /\ \E toks, p : SendHost(toks, "stderr", p)
        BY <1>6 DEF ForwardArgs, CopyFlag, ReadsArg
    <2>2. CASE Hangup
        BY <1>0, <2>2, RepliesCut
    <2>3. CASE pc' = "stderr" /\ UNCHANGED <<gw, p2g, answers>>
        <3>1. Replying' = Replying
            BY <2>1, <2>3 DEF Replying, Serving
        <3> QED BY <1>0, <2>1, <2>3, <3>1, RepliesStand
    <2> QED BY <2>1, <2>2, <2>3 DEF SendHost, histVars
<1>7. CASE SwallowOptions
    <2>1. pc = "args" /\ kind = "setoptions" /\ Reply(<<Last>>, "ok")
        BY <1>7 DEF SwallowOptions, ReadsArg
    <2>2. Last \in Tokens /\ <<Last>> \in Seq(Tokens) /\ "stderr" \in GuestPlaces
        BY TokensMade DEF GuestPlaces
    <2>3. ASSUME answers' = Append(answers, "ok")
          PROVE  Run(ReplyGrammar', <<Last>>, Replying, <<"stderr", Serving + 1>>)
        <3>1. Replying = <<"stderr", Serving>>
            BY <2>1 DEF Replying
        <3>2. <<Replying, Last, <<"stderr", Serving + 1>>>> \in ReplyGrammar'
            BY <1>0, <1>1, <2>1, <2>2, <2>3, <3>1, Parses, LastToken
        <3> QED BY <3>2, RunOne
    <2> QED BY <1>0, <2>1, <2>2, <2>3, ReplyReplies
<1> QED BY <1>2, <1>3, <1>4, <1>5, <1>6, <1>7

\* An isvalid's answer.
LEMMA ValidityReplies ==
    ASSUME IInv, RepliesUnder, UNCHANGED guestVars,
           pc \in {"ivresult", "fill", "restderr", "reresult"},
           Serving \in 1..Len(asked), asked[Serving].kind = "isvalid",
           NEW v \in {"valid", "invalid"}, ReplyValidity(v)
    PROVE  RepliesUnder'
<1> HIDE DEF Tokens
<1>1. Last \in Tokens /\ Res(v) \in Tokens /\ <<Last, Res(v)>> \in Seq(Tokens)
    <2>1. Last \in Tokens /\ Res(v) \in Tokens
        BY TokensMade
    <2> QED BY <2>1
<1>2. Replying = <<"stderr", Serving>> /\ "stderr" \in GuestPlaces /\ "res" \in GuestPlaces
    BY DEF Replying, GuestPlaces
<1>3. asked' = asked
    BY DEF guestVars
<1>4. ASSUME answers' = Append(answers, v)
      PROVE  Run(ReplyGrammar', <<Last, Res(v)>>, Replying, <<"stderr", Serving + 1>>)
    <2>1. <<<<"stderr", Serving>>, Last, <<"res", Serving>>>> \in ReplyGrammar'
        BY <1>1, <1>2, <1>3, Parses, InnerToken
    <2>2. <<<<"res", Serving>>, Res(v), <<"stderr", Serving + 1>>>> \in ReplyGrammar'
        <3>1. /\ Parse("res", asked[Serving].kind, Res(v)) = "done"
              /\ AnswerOf(asked[Serving].kind, Res(v)) = v
            BY Parses
        <3> QED BY <1>1, <1>2, <1>3, <1>4, <3>1, LastToken
    <2> QED BY <1>2, <2>1, <2>2, RunTwo
<1>5. Reply(<<Last, Res(v)>>, v)
    BY DEF ReplyValidity
<1> QED BY <1>1, <1>4, <1>5, ReplyReplies

\* A token of the host's result is one of the two that can stand there.
LEMMA ResultRead ==
    ASSUME IInv, HostUnder, pc = "result", ReadsHost("res")
    PROVE  Head(h2p) \in {Res("end"), Res("more")}
<1>1. kind # "isvalid" /\ h2p # <<>> /\ Head(h2p).t = "res" /\ Awaiting = "res"
    BY DEF IInv, SessionOK, PlaceFitsOp, ReadsHost, Awaiting
<1>2. PICK c : <<"res", Head(h2p), c>> \in HostGrammar(kind, seen)
    BY <1>1, HostReads DEF HostWaits
<1> QED BY <1>1, <1>2, HostGrammarReads

\* Writing one token of a reply that goes on, into the buffer or past it.
LEMMA TokenReplies ==
    ASSUME IInv, RepliesUnder, pc # "closed", UNCHANGED guestVars, UNCHANGED answers,
           Serving \in 1..Len(asked), NEW t \in Tokens,
           \/ gw' = Append(gw, t) /\ UNCHANGED p2g
           \/ p2g' = p2g \o gw \o <<t>> /\ gw' = <<>>,
           NEW place \in GuestPlaces, NEW q \in GuestPlaces,
           Replying = <<place, Serving>>, Parse(place, asked[Serving].kind, t) = q,
           Replying' = <<q, Serving>>
    PROVE  RepliesUnder'
<1> HIDE DEF Tokens
<1>1. p2g \in Seq(Tokens) /\ gw \in Seq(Tokens) /\ <<t>> \in Seq(Tokens) /\ asked' = asked
    BY DEF IInv, SessionOK, PeersOK, guestVars
<1>2. p2g' \o gw' = (p2g \o gw) \o <<t>>
    <2>1. CASE gw' = Append(gw, t) /\ UNCHANGED p2g
        BY <1>1, <2>1
    <2>2. CASE p2g' = p2g \o gw \o <<t>> /\ gw' = <<>>
        <3>1. (p2g \o gw) \o <<t>> \in Seq(Tokens)
            BY <1>1, ConcatProperties
        <3> QED BY <2>2, <3>1, NothingJoined
    <2> QED BY <2>1, <2>2
<1>3. <<Replying, t, <<q, Serving>>>> \in ReplyGrammar'
    BY <1>1, InnerToken
<1>4. Run(ReplyGrammar', <<t>>, Replying, <<q, Serving>>)
    BY <1>3, RunOne
<1> QED BY <1>1, <1>2, <1>4, RepliesWritten

\* The session's steps while it reads a reply, or fills.
LEMMA ReplyStepsReplies ==
    ASSUME IInv, HostUnder, RequestsUnder, RepliesUnder,
           \/ HostLost \/ HostStreams
           \/ RelayLog \/ RelayError \/ RelayLast \/ RelayResult \/ RelayRest
           \/ AnswerFromHost \/ StartFill
           \/ FillDial \/ FillAsk \/ AnswerAfterFailedFill
           \/ Recheck \/ DropLog \/ RecheckLast \/ RecheckError \/ AnswerFromRecheck
    PROVE  RepliesUnder'
<1> HIDE DEF Tokens
<1>0. UNCHANGED guestVars /\ UNCHANGED <<gst, got, gopen, asked>> /\ pc \in Busy /\ pc # "closed"
    BY ReplyStepsOutline DEF guestVars, Busy, HostWaits
<1>1. Serving \in 1..Len(asked) /\ asked[Serving].kind = kind
    BY <1>0, OpIsAsked DEF IInv, SessionOK, PlaceFitsOp, Busy, HostWaits
<1>2. /\ pc = "stderr" => kind # "setoptions" /\ Replying = <<"stderr", Serving>>
      /\ pc = "result" => kind \notin {"isvalid", "setoptions"} /\ Replying = <<"res", Serving>>
      /\ pc = "rest" => kind # "isvalid" /\ Replying = <<"rest", Serving>>
      /\ pc \in {"ivresult", "fill", "restderr", "reresult"} =>
            kind = "isvalid" /\ Replying = <<"stderr", Serving>>
    BY DEF IInv, SessionOK, PlaceFitsOp, Forwarded, Replying
<1>3. /\ {Log, Last, Rest, Err("daemon"), Res("end"), Res("more")} \subseteq Tokens
      /\ {"stderr", "res", "rest"} \subseteq GuestPlaces
    BY TokensMade DEF GuestPlaces
<1>4. CASE HostLost
    BY <1>0, <1>4, RepliesCut DEF HostLost
<1>5. CASE HostStreams
    BY <1>0, <1>1, <1>5, RepliesCut, RejectReplies DEF HostStreams
<1>6. CASE RelayLog
    <2>1. pc = "stderr" /\ (Hangup \/ (Deliver(<<Log>>) /\ UNCHANGED <<pc, answers>>))
        BY <1>6 DEF RelayLog, histVars
    <2>2. CASE Deliver(<<Log>>) /\ UNCHANGED <<pc, answers>>
        <3>1. Replying' = <<"stderr", Serving>>
            BY <1>2, <2>1, <2>2 DEF Replying, Serving
        <3> QED BY <1>0, <1>1, <1>2, <1>3, <2>1, <2>2, <3>1, Parses, TokenReplies DEF Deliver
    <2> QED BY <1>0, <2>1, <2>2, RepliesCut
<1>7. CASE RelayError
    <2>1. pc = "stderr" /\ Reply(<<Err("daemon")>>, "error")
        BY <1>7 DEF RelayError
    <2>2. ASSUME answers' = Append(answers, "error")
          PROVE  Run(ReplyGrammar', <<Err("daemon")>>, Replying, <<"stderr", Serving + 1>>)
        <3>1. <<Replying, Err("daemon"), <<"stderr", Serving + 1>>>> \in ReplyGrammar'
            BY <1>0, <1>1, <1>2, <1>3, <2>1, <2>2, Parses, LastToken
        <3> QED BY <3>1, RunOne
    <2>3. <<Err("daemon")>> \in Seq(Tokens)
        BY <1>3
    <2> QED BY <1>0, <2>1, <2>2, <2>3, ReplyReplies
<1>8. CASE RelayLast
    <2>1. /\ pc = "stderr" /\ UNCHANGED <<p2g, answers>>
          /\ IF kind = "isvalid" THEN pc' = "ivresult" /\ UNCHANGED gw
             ELSE pc' = "result" /\ gw' = Append(gw, Last)
        BY <1>8 DEF RelayLast, histVars
    <2>2. CASE kind = "isvalid"
        <3>1. Replying' = Replying
            BY <1>2, <2>1, <2>2 DEF Replying, Serving
        <3> QED BY <1>0, <2>1, <2>2, <3>1, RepliesStand
    <2>3. CASE kind # "isvalid"
        <3>1. Replying' = <<"res", Serving>>
            BY <2>1, <2>3 DEF Replying, Serving
        <3>2. Parse("stderr", asked[Serving].kind, Last) = "res"
            BY <1>1, <1>2, <2>1, Parses
        <3>3. gw' = Append(gw, Last) /\ UNCHANGED p2g /\ Replying = <<"stderr", Serving>>
            BY <1>2, <2>1, <2>3
        <3> QED BY <1>0, <1>1, <1>3, <2>1, <3>1, <3>2, <3>3, TokenReplies
    <2> QED BY <2>2, <2>3
<1>9. CASE RelayResult
    <2> DEFINE t == Head(h2p)
    <2>1. /\ pc = "result" /\ t \in {Res("end"), Res("more")}
          /\ IF t.v = "end" THEN Reply(<<t>>, "result")
             ELSE /\ pc' = "rest" /\ UNCHANGED answers
                  /\ \/ gw' = Append(gw, t) /\ UNCHANGED p2g
                     \/ p2g' = p2g \o gw \o <<t>> /\ gw' = <<>>
        BY <1>9, ResultRead DEF RelayResult, histVars
    <2> HIDE DEF t
    <2>2. Res("end").v = "end" /\ Res("more").v = "more"
        BY DEF Res, Tok
    <2>3. CASE t = Res("end")
        <3>1. Reply(<<t>>, "result") /\ <<t>> \in Seq(Tokens)
            BY <1>3, <2>1, <2>2, <2>3
        <3>2. ASSUME answers' = Append(answers, "result")
              PROVE  Run(ReplyGrammar', <<t>>, Replying, <<"stderr", Serving + 1>>)
            <4>1. <<Replying, t, <<"stderr", Serving + 1>>>> \in ReplyGrammar'
                BY <1>0, <1>1, <1>2, <1>3, <2>1, <2>3, <3>2, Parses, LastToken
            <4> QED BY <4>1, RunOne
        <3> QED BY <1>0, <3>1, <3>2, ReplyReplies
    <2>4. CASE t = Res("more")
        <3>1. Replying' = <<"rest", Serving>>
            BY <2>1, <2>2, <2>4 DEF Replying, Serving
        <3> QED BY <1>0, <1>1, <1>2, <1>3, <2>1, <2>2, <2>4, <3>1, Parses, TokenReplies
    <2> QED BY <2>1, <2>3, <2>4
<1>10. CASE RelayRest
    <2>1. pc = "rest" /\ Reply(<<Rest>>, "result") /\ <<Rest>> \in Seq(Tokens)
        BY <1>3, <1>10 DEF RelayRest
    <2>2. ASSUME answers' = Append(answers, "result")
          PROVE  Run(ReplyGrammar', <<Rest>>, Replying, <<"stderr", Serving + 1>>)
        <3>1. <<Replying, Rest, <<"stderr", Serving + 1>>>> \in ReplyGrammar'
            BY <1>0, <1>1, <1>2, <1>3, <2>1, <2>2, Parses, LastToken
        <3> QED BY <3>1, RunOne
    <2> QED BY <1>0, <2>1, <2>2, ReplyReplies
<1>11. CASE AnswerFromHost \/ AnswerAfterFailedFill \/ RecheckError \/ AnswerFromRecheck
    <2>1. \A u : Verdict(u) \in {"valid", "invalid"}
        BY DEF Verdict
    <2>2. /\ \E v \in {"valid", "invalid"} : ReplyValidity(v)
          /\ pc \in {"ivresult", "fill", "restderr", "reresult"}
        BY <1>11, <2>1
        DEF AnswerFromHost, AnswerAfterFailedFill, RecheckError, AnswerFromRecheck
    <2> QED BY <1>0, <1>1, <1>2, <2>2, ValidityReplies
<1>12. CASE StartFill \/ FillDial \/ FillAsk \/ DropLog \/ RecheckLast
    <2>1. /\ pc \in {"ivresult", "fill", "restderr"} /\ pc' \in {"fill", "restderr", "reresult"}
          /\ UNCHANGED <<gw, p2g, answers>>
        BY <1>12 DEF StartFill, FillDial, FillAsk, FillStep, DropLog, RecheckLast, histVars, sessionVars
    <2>2. Replying' = Replying
        BY <2>1 DEF Replying, Serving
    <2> QED BY <1>0, <2>1, <2>2, RepliesStand
<1>13. CASE Recheck
    <2>1. pc = "fill" /\ \E toks, p : SendHost(toks, "restderr", p)
        BY <1>13 DEF Recheck
    <2>2. CASE pc' = "restderr" /\ UNCHANGED <<gw, p2g, answers>>
        <3>1. Replying' = Replying
            BY <2>1, <2>2 DEF Replying, Serving
        <3> QED BY <1>0, <2>2, <3>1, RepliesStand
    <2> QED BY <1>0, <2>1, <2>2, RepliesCut DEF SendHost, histVars
<1> QED BY <1>4, <1>5, <1>6, <1>7, <1>8, <1>9, <1>10, <1>11, <1>12, <1>13

\* What the parser takes from the leg.
LEMMA GuestReads ==
    ASSUME IInv, RepliesUnder, GuestRecv
    PROVE  RepliesUnder'
<1> HIDE DEF Tokens, Answers, AllRequests
<1> DEFINE t == Head(p2g)
           n == Len(got) + 1
           q == Parse(gst, asked[n].kind, t)
<1>0. /\ p2g \in Seq(Tokens) /\ gw \in Seq(Tokens) /\ got \in Seq(Answers)
      /\ asked \in Seq(AllRequests) /\ answers \in Seq(Answers)
    BY DEF IInv, SessionOK, PeersOK
<1>1. gopen /\ p2g # <<>> /\ p2g' = Tail(p2g) /\ UNCHANGED <<pc, gw, asked, answers, gopen>>
    BY DEF GuestRecv, sessionVars, histVars
<1>2. PICK e : /\ Run(ReplyGrammar, p2g \o gw, <<gst, n>>, e)
               /\ pc # "closed" => e = Replying
    BY <1>1 DEF RepliesUnder, RepliesFollow
<1>3. /\ p2g \o gw \in Seq(Tokens) /\ p2g \o gw # <<>>
      /\ Head(p2g \o gw) = t /\ Tail(p2g \o gw) = Tail(p2g) \o gw
    BY <1>0, <1>1, FrontOfJoined
<1>4. PICK c : /\ <<<<gst, n>>, t, c>> \in ReplyGrammar
               /\ Run(ReplyGrammar, Tail(p2g) \o gw, c, e)
    BY <1>2, <1>3, RunHead
<1>5. /\ n \in 1..Len(asked)
      /\ \/ q \in GuestPlaces /\ c = <<q, n>>
         \/ /\ q = "done" /\ c = <<"stderr", n + 1>>
            /\ n <= Len(answers) /\ answers[n] = AnswerOf(asked[n].kind, t)
    BY <1>4, ReplyGrammarReads
<1>6. Len(got) < Len(asked) /\ asked[n].kind # "none"
    <2>1. asked[n] \in AllRequests
        BY <1>0, <1>5
    <2>2. asked[n].kind \in Kinds
        BY <2>1 DEF AllRequests
    <2>3. Len(got) \in Nat /\ Len(asked) \in Nat
        BY <1>0
    <2> QED BY <1>5, <2>2, <2>3 DEF Kinds
<1>7. IF q = "done" THEN gst' = "stderr" /\ got' = Append(got, AnswerOf(asked[n].kind, t))
      ELSE gst' = q /\ got' = got
    BY <1>6 DEF GuestRecv
<1> HIDE DEF q
<1>8. ASSUME c = <<gst', Len(got') + 1>> PROVE RepliesFollow'
    <2>1. ReplyGrammar' = ReplyGrammar /\ Replying' = Replying
        BY <1>1 DEF ReplyGrammar, Replying, Serving
    <2>2. (\E d : /\ Run(ReplyGrammar, p2g \o gw, <<gst, Len(got) + 1>>, d)
                  /\ pc # "closed" => d = Replying)'
        BY <1>1, <1>2, <1>4, <1>8, <2>1
    <2> QED BY <2>2 DEF RepliesFollow
<1>9. AnswersInOrder /\ DOMAIN got = 1..Len(got) /\ Len(got) \in Nat /\ Len(answers) \in Nat
    BY <1>0 DEF RepliesUnder
<1>10. CASE q = "done"
    <2> HIDE DEF t
    <2>1. /\ gst' = "stderr" /\ got' = Append(got, answers[n]) /\ c = <<"stderr", n + 1>>
          /\ n <= Len(answers)
        BY <1>5, <1>7, <1>10 DEF GuestPlaces
    <2>2. answers[n] \in Answers
        BY <1>0, <1>9, <2>1
    <2>3. /\ Len(got') = n /\ got'[n] = answers[n] /\ DOMAIN got' = 1..n
          /\ \A i \in 1..Len(got) : got'[i] = got[i]
        BY <1>0, <2>1, <2>2
    <2>4. AnswersInOrder'
        <3>1. \A i \in 1..Len(got) : got[i] = answers[i]
            BY <1>9 DEF AnswersInOrder
        <3>2. \A i \in 1..n : i \in 1..Len(got) \/ i = n
            BY <1>9
        <3>3. \A i \in 1..n : got'[i] = answers[i]
            BY <2>3, <3>1, <3>2
        <3> QED BY <1>1, <2>1, <2>3, <3>3 DEF AnswersInOrder
    <2>5. RepliesFollow'
        BY <1>8, <2>1, <2>3
    <2> QED BY <2>1, <2>4, <2>5 DEF RepliesUnder, GuestPlaces
<1>11. CASE q # "done"
    <2>1. q \in GuestPlaces /\ c = <<q, n>> /\ gst' = q /\ got' = got
        BY <1>5, <1>7, <1>11
    <2>2. RepliesFollow'
        BY <1>8, <2>1
    <2> QED BY <1>1, <1>9, <2>1, <2>2 DEF RepliesUnder, AnswersInOrder
<1> QED BY <1>10, <1>11

\* The guest's other steps.
LEMMA GuestStepReplies ==
    ASSUME IInv, RepliesUnder, GuestStep
    PROVE  RepliesUnder'
<1>1. ASSUME NEW r, GuestBegin(r) PROVE RepliesUnder'
    <2>1. /\ asked' = Append(asked, r)
          /\ UNCHANGED <<pc, gst, got, gopen, p2g, gw, answers>>
        BY <1>1 DEF GuestBegin, sessionVars, histVars
    <2>2. ReplyGrammar \subseteq ReplyGrammar'
        BY <2>1, ReplyGrammarGrows DEF IInv, SessionOK, PeersOK
    <2>3. Replying' = Replying
        BY <2>1 DEF Replying, Serving
    <2>4. ASSUME gopen PROVE RepliesFollow'
        <3>1. PICK e : /\ Run(ReplyGrammar, p2g \o gw, <<gst, Len(got) + 1>>, e)
                       /\ pc # "closed" => e = Replying
            BY <2>4 DEF RepliesUnder, RepliesFollow
        <3>2. Run(ReplyGrammar', p2g \o gw, <<gst, Len(got) + 1>>, e)
            BY <2>2, <3>1, RunGrows
        <3>3. (\E d : /\ Run(ReplyGrammar, p2g \o gw, <<gst, Len(got) + 1>>, d)
                      /\ pc # "closed" => d = Replying)'
            BY <2>1, <2>3, <3>1, <3>2
        <3> QED BY <3>3 DEF RepliesFollow
    <2> QED BY <2>1, <2>4 DEF RepliesUnder, AnswersInOrder
<1>2. CASE GuestSend
    <2>1. UNCHANGED <<pc, gst, got, gopen, asked, p2g, gw, answers>>
        BY <1>2 DEF GuestSend, sessionVars, histVars
    <2>2. Replying' = Replying
        BY <2>1 DEF Replying, Serving
    <2> QED BY <2>1, <2>2, RepliesStand
<1>3. CASE GuestHangup
    <2>1. UNCHANGED <<gst, got, answers>>
        BY <1>3 DEF GuestHangup, histVars
    <2>2. ~gopen'
        BY <1>3, Zenon DEF GuestHangup
    <2> QED BY <2>1, <2>2 DEF RepliesUnder, AnswersInOrder
<1> QED BY <1>1, <1>2, <1>3 DEF GuestStep

LEMMA InitReplies == Init => RepliesUnder
<1> SUFFICES ASSUME Init PROVE RepliesUnder
    OBVIOUS
<1>1. p2g \o gw = <<>> /\ Replying = <<gst, Len(got) + 1>>
    BY DEF Init, Replying, Serving
<1>2. RepliesFollow
    BY <1>1, RunNothing DEF RepliesFollow
<1> QED BY <1>2 DEF Init, RepliesUnder, GuestPlaces, AnswersInOrder

\* Every step keeps the replies on their way.
LEMMA NextReplies ==
    ASSUME IInv, HostUnder, RequestsUnder, RepliesUnder, [Next]_vars
    PROVE  RepliesUnder'
<1>1. CASE SessionStep
    BY <1>1, RequestStepsReplies, ReplyStepsReplies DEF SessionStep
<1>2. CASE GuestStep \/ GuestRecv
    BY <1>2, GuestStepReplies, GuestReads
<1>3. CASE UNCHANGED <<pc, guestVars, p2g, gw, answers>>
    <2>1. UNCHANGED <<gst, got, gopen, asked, answers>> /\ p2g' \o gw' = p2g \o gw
        BY <1>3 DEF guestVars
    <2>2. Replying' = Replying
        BY <1>3 DEF Replying, Serving
    <2> QED BY <1>3, <2>1, <2>2, RepliesStand
<1>4. CASE HostStep \/ FillEnds \/ Others \/ UNCHANGED vars
    BY <1>3, <1>4
    DEF HostStep, HostRun, HostSend, FillEnds, FillEnsured, FillFails, FillStep, Others,
        HostDies, StoreChanges, OrphanFetches, vars, sessionVars, guestVars, histVars
<1> QED BY <1>1, <1>2, <1>4 DEF Next, Terminated

-----------------------------------------------------------------------------
\* The framing of both legs holds throughout.
LEMMA SessionFraming == Spec => [](IInv /\ HostUnder /\ RequestsUnder /\ RepliesUnder)
<1> DEFINE Framing == IInv /\ HostUnder /\ RequestsUnder /\ RepliesUnder
<1>1. Init => Framing
    BY InitIInv, InitHost, InitRequests, InitReplies
<1>2. Framing /\ [Next]_vars => Framing'
    BY NextIInv, NextHost, NextRequests, NextReplies
<1> QED BY <1>1, <1>2, PTL DEF Spec

\* Whenever the session looks for the next op, and for as long as a fill
\* runs, the relayed host connection is at an op boundary: whatever the daemon
\* answered or failed to answer, no token of an earlier exchange is left on it
\* for a later one to misread (session.rs, run and intercept_is_valid_path).
THEOREM SessionHostLegAtBoundary == Spec => []HostLegAtBoundary
<1>1. HostUnder => HostLegAtBoundary
    BY DEF HostUnder, HostLegAtBoundary
<1> QED BY <1>1, SessionFraming, PTL

\* The session never takes the argument of one op for the word of the next:
\* each op is consumed to its last token, the ops it swallows included
\* (session.rs, run and copy_args).
THEOREM SessionGuestLegAtBoundary == Spec => []GuestLegAtBoundary
<1>1. IInv /\ RequestsUnder => GuestLegAtBoundary
    <2> SUFFICES ASSUME IInv, RequestsUnder, pc = "idle", g2p # <<>>
                 PROVE  Head(g2p).t = "word"
        BY DEF GuestLegAtBoundary
    <2>1. Reading = <<"word", Serving>>
        BY DEF Reading
    <2>2. \E c : <<Reading, Head(g2p), c>> \in RequestGrammar
        BY RequestRead
    <2>3. Head(g2p) = Word(asked[Serving].kind)
        BY <2>1, <2>2, RequestGrammarReads
    <2> QED BY <2>3 DEF Word, Tok
<1> QED BY <1>1, SessionFraming, PTL

\* Whatever the daemon sends, wherever either side dies, and whatever error
\* the proxy makes up itself, the guest's parser never meets a token that
\* cannot stand where it stands (stderr.rs and the result paths of session.rs).
THEOREM SessionGuestNeverDesyncs == Spec => []GuestNeverDesyncs
<1>1. RepliesUnder => GuestNeverDesyncs
    BY DEF RepliesUnder, GuestPlaces, GuestNeverDesyncs
<1> QED BY <1>1, SessionFraming, PTL

\* The guest parses the answers the session gave, in that order, also when it
\* sent its requests without waiting (session.rs, run).
THEOREM SessionAnswersInOrder == Spec => []AnswersInOrder
<1>1. RepliesUnder => AnswersInOrder
    BY DEF RepliesUnder
<1> QED BY <1>1, SessionFraming, PTL

-----------------------------------------------------------------------------
(* The service of StoreQuery.                                              *)

\* The fetches granted, as the session's own state has them.
GrantNow == orphans \union (IF fill = "asked" THEN {path} ELSE {})

\* What the framing does not say: a fill runs in its place only, a re-check
\* follows a look, and no substitution is forwarded.
ServiceUnder ==
    /\ pc # "fill" => fill = "none"
    /\ pc = "restderr" => seen # "unseen"
    /\ pc \in Busy /\ kind = "queryvalid" => asked[Serving].flag = "0"

SessionUnder == IInv /\ HostUnder /\ RequestsUnder /\ ServiceUnder

LEMMA InitService == Init => ServiceUnder
BY DEF Init, ServiceUnder, Busy, HostWaits

LEMMA RequestStepsService ==
    ASSUME SessionUnder,
           \/ RejectOp \/ AcceptOp \/ GuestGone \/ ForwardArgs \/ SwallowOptions
           \/ CopyList \/ CopyFlag \/ BadArgs \/ ArgsSpillFails \/ ArgsTimeout
    PROVE  ServiceUnder'
<1>1. ServiceUnder /\ IInv /\ RequestsUnder
    BY DEF SessionUnder
<1>2. CASE RejectOp \/ GuestGone \/ SwallowOptions \/ BadArgs \/ ArgsSpillFails \/ ArgsTimeout
    <2>1. pc' \in {"idle", "closed"} /\ fill' = "none"
        BY <1>2 DEF RejectOp, GuestGone, SwallowOptions, BadArgs, ArgsSpillFails, ArgsTimeout,
            Reply, Reject, Hangup
    <2> QED BY <2>1 DEF ServiceUnder, Busy, HostWaits
<1>3. CASE AcceptOp \/ CopyList
    <2>1. pc \in {"idle", "args"} /\ pc' \in {"args", "flag"} /\ fill' = fill
        BY <1>3 DEF AcceptOp, CopyList, ReadsArg
    <2> QED BY <1>1, <2>1 DEF ServiceUnder, Busy, HostWaits
<1>4. CASE ForwardArgs
    <2>1. kind \in {"isvalid", "query"} /\ SendHost(<<Head(g2p)>>, "stderr", Head(g2p).v)
        BY <1>4 DEF ForwardArgs
    <2>2. CASE pc' = "closed" /\ fill' = "none"
        BY <2>2 DEF ServiceUnder, Busy, HostWaits
    <2>3. CASE pc' = "stderr" /\ fill' = "none" /\ kind' = kind
        BY <2>1, <2>3 DEF ServiceUnder, Busy, HostWaits
    <2> QED BY <2>1, <2>2, <2>3 DEF SendHost, Hangup
<1>5. CASE CopyFlag
    <2>1. /\ pc = "flag" /\ g2p # <<>> /\ Head(g2p).v = "0" /\ fill' = "none" /\ asked' = asked
          /\ pc' = "closed" \/ (pc' = "stderr" /\ UNCHANGED answers)
        BY <1>5 DEF CopyFlag, ReadsGuest, SendHost, Hangup, histVars, guestVars
    <2>2. Reading = <<"flag", Serving>>
        BY <2>1 DEF Reading
    <2>3. Head(g2p) = Flag(asked[Serving].flag)
        <3>1. \E c : <<Reading, Head(g2p), c>> \in RequestGrammar
            BY <1>1, <2>1, RequestRead
        <3> QED BY <2>2, <3>1, RequestGrammarReads
    <2>4. asked[Serving].flag = "0"
        BY <2>1, <2>3 DEF Flag, Tok
    <2> QED BY <2>1, <2>4 DEF ServiceUnder, Serving, Busy, HostWaits
<1> QED BY <1>2, <1>3, <1>4, <1>5

LEMMA ReplyStepsService ==
    ASSUME SessionUnder,
           \/ HostLost \/ HostStreams
           \/ RelayLog \/ RelayError \/ RelayLast \/ RelayResult \/ RelayRest
           \/ AnswerFromHost \/ StartFill
           \/ FillDial \/ FillAsk \/ AnswerAfterFailedFill
           \/ Recheck \/ DropLog \/ RecheckLast \/ RecheckError \/ AnswerFromRecheck
    PROVE  ServiceUnder'
<1>1. ServiceUnder /\ IInv /\ HostUnder
    BY DEF SessionUnder
<1>2. pc' # "fill" => fill' = "none"
    <2>1. CASE StartFill \/ FillDial \/ FillAsk
        BY <2>1 DEF StartFill, FillDial, FillAsk, FillStep
    <2>2. CASE RelayLog \/ RelayLast \/ RelayResult \/ RelayRest \/ DropLog \/ RecheckLast
        <3>1. pc # "fill" /\ fill' \in {fill, "none"}
            BY <2>2 DEF RelayLog, RelayLast, RelayResult, RelayRest, DropLog, RecheckLast,
                Reply, Hangup, sessionVars
        <3> QED BY <1>1, <3>1 DEF ServiceUnder
    <2>3. CASE HostLost \/ HostStreams \/ RelayError \/ AnswerFromHost \/ AnswerAfterFailedFill
                  \/ Recheck \/ RecheckError \/ AnswerFromRecheck
        BY <2>3 DEF HostLost, HostStreams, RelayError, AnswerFromHost, AnswerAfterFailedFill,
            Recheck, RecheckError, AnswerFromRecheck, ReplyValidity, Reply, Reject, SendHost,
            Hangup
    <2> QED BY <2>1, <2>2, <2>3
<1>3. pc' = "restderr" => seen' # "unseen"
    <2> SUFFICES ASSUME pc' = "restderr" PROVE seen' # "unseen"
        OBVIOUS
    <2>1. DropLog \/ Recheck
        BY DEF HostLost, HostStreams, RelayLog, RelayError, RelayLast, RelayResult, RelayRest,
            AnswerFromHost, StartFill, FillDial, FillAsk, FillStep, AnswerAfterFailedFill,
            RecheckLast, RecheckError, AnswerFromRecheck, ReplyValidity, Reply, Reject, Hangup
    <2>2. pc \in {"fill", "restderr"} /\ seen' = seen
        BY <2>1 DEF DropLog, Recheck, SendHost, Hangup, histVars
    <2> QED BY <1>1, <2>2 DEF ServiceUnder, HostUnder
<1>4. pc' \in Busy /\ kind' = "queryvalid" => asked'[Serving'].flag = "0"
    <2>1. /\ pc \in Busy /\ asked' = asked
          /\ \/ pc' = "closed" \/ pc' = "idle"
             \/ pc' \in Busy /\ UNCHANGED <<kind, answers>>
        BY <1>1, ReplyStepsOutline DEF guestVars
    <2> QED BY <1>1, <2>1 DEF ServiceUnder, Serving, Busy, HostWaits
<1> QED BY <1>2, <1>3, <1>4 DEF ServiceUnder

LEMMA NextService ==
    ASSUME SessionUnder, [Next]_vars
    PROVE  ServiceUnder'
<1>1. ServiceUnder /\ IInv /\ HostUnder /\ RequestsUnder
    BY DEF SessionUnder
<1>2. CASE SessionStep
    BY <1>2, RequestStepsService, ReplyStepsService DEF SessionStep
<1>3. CASE HostRun
    <2>1. seen' = seen \/ seen' \in {"valid", "invalid", "result"}
        BY <1>3 DEF HostRun
    <2>2. UNCHANGED <<pc, kind, fill, asked, answers>>
        BY <1>3 DEF HostRun, sessionVars, guestVars
    <2> QED BY <1>1, <2>1, <2>2 DEF ServiceUnder, Serving, Busy
<1>4. CASE FillEnds
    <2>1. pc = "fill" /\ UNCHANGED <<pc, kind, asked, answers, seen>>
        BY <1>4 DEF FillEnds, FillEnsured, FillFails, FillStep, guestVars, histVars
    <2> QED BY <1>1, <2>1 DEF ServiceUnder, Serving, Busy
<1>5. ASSUME NEW r, GuestBegin(r) PROVE ServiceUnder'
    <2>1. asked' = Append(asked, r) /\ UNCHANGED <<pc, kind, fill, answers, seen>>
        BY <1>5 DEF GuestBegin, sessionVars, histVars
    <2>2. asked \in Seq(AllRequests)
        BY <1>1 DEF IInv, PeersOK
    <2>3. ASSUME pc \in Busy PROVE asked'[Serving] = asked[Serving]
        <3>1. kind # "none"
            BY <1>1, <2>3 DEF IInv, SessionOK, PlaceFitsOp, Busy, HostWaits
        <3> QED BY <1>1, <2>1, <2>2, <3>1, OpIsAsked, AskedGrows
    <2> QED BY <1>1, <2>1, <2>3 DEF ServiceUnder, Serving, Busy
<1>6. CASE UNCHANGED <<pc, kind, fill, asked, answers, seen>>
    BY <1>1, <1>6 DEF ServiceUnder, Serving, Busy
<1>7. CASE \/ GuestSend \/ GuestHangup \/ GuestRecv \/ HostSend \/ Others \/ UNCHANGED vars
    BY <1>6, <1>7 DEF GuestSend, GuestHangup, GuestRecv, HostSend, Others, HostDies,
        StoreChanges, OrphanFetches, vars, sessionVars, guestVars, histVars
<1> QED BY <1>2, <1>3, <1>4, <1>5, <1>7 DEF Next, GuestStep, HostStep, Terminated

\* A step the service does not see.
Unseen ==
    /\ GrantNow' = GrantNow
    /\ pc' = "closed" <=> pc = "closed"
    /\ UNCHANGED <<valid, asked, answers, seen>>

LEMMA InitImplements == Init => Service!Init
BY DEF Init, Service!Init

\* The steps of the service, in terms of the session's own state.
LEMMA ServiceCloses ==
    ASSUME pc' = "closed", GrantNow' = GrantNow, UNCHANGED <<valid, asked, answers, seen>>
    PROVE  Service!Next
BY DEF Service!Next, Service!Close, GrantNow

LEMMA ServiceAnswers ==
    ASSUME pc # "closed", Serving \in 1..Len(asked), answers \in Seq(Answers),
           NEW a \in Answers, Service!MayAnswer(a), answers' = Append(answers, a),
           seen' = "unseen", pc' = "closed" <=> a = "rejected",
           GrantNow' = GrantNow, UNCHANGED <<valid, asked>>
    PROVE  Service!Next
<1> HIDE DEF Answers
<1>1. Service!Serving
    BY DEF Service!Serving, Serving
<1> HIDE DEF Service!Serving, Service!MayAnswer
<1>2. Service!Answer(a)
    BY <1>1 DEF Service!Answer, GrantNow
<1> QED BY <1>2 DEF Service!Next, Answers

\* What the session knows of the request it serves.
LEMMA CurrentIs ==
    ASSUME SessionUnder, kind # "none"
    PROVE  /\ Serving \in 1..Len(asked) /\ answers \in Seq(Answers)
           /\ Service!Serving /\ Service!Current = asked[Serving]
           /\ asked[Serving].kind = kind
           /\ pc \in Busy => path = asked[Serving].path
           /\ pc \in Busy /\ Forwarded(kind) => Service!ReachesHost(Service!Current)
<1>1. IInv /\ RequestsUnder /\ ServiceUnder
    BY DEF SessionUnder
<1>2. Serving \in 1..Len(asked) /\ asked[Serving].kind = kind
    BY <1>1, OpIsAsked
<1>3. answers \in Seq(Answers)
    BY <1>1 DEF IInv, SessionOK
<1>4. Service!Serving /\ Service!Current = asked[Serving]
    <2> HIDE DEF Answers
    <2> QED BY <1>2, <1>3 DEF Serving, Service!Serving, Service!Current
<1>5. ASSUME pc \in Busy PROVE path = asked[Serving].path /\ asked[Serving].form = "good"
    BY <1>1, <1>5 DEF RequestsUnder, ServesAsked, Busy, HostWaits
<1>6. ASSUME pc \in Busy, Forwarded(kind) PROVE Service!ReachesHost(Service!Current)
    BY <1>1, <1>2, <1>4, <1>5, <1>6
    DEF ServiceUnder, Service!ReachesHost, Service!ArgsAccepted, Service!Forwarded, Forwarded
<1> QED BY <1>2, <1>3, <1>4, <1>5, <1>6

\* The ends of an op.
LEMMA HangupImplements ==
    ASSUME Hangup, fill # "asked", UNCHANGED <<asked, storeVars>>
    PROVE  Service!Next
<1>1. pc' = "closed" /\ GrantNow' = GrantNow /\ UNCHANGED <<valid, answers, seen>>
    BY DEF Hangup, GrantNow, storeVars, histVars
<1> QED BY <1>1, ServiceCloses

LEMMA ReplyImplements ==
    ASSUME SessionUnder, kind # "none", fill # "asked", UNCHANGED <<asked, storeVars>>,
           NEW toks, NEW a \in Answers \ {"rejected"}, Reply(toks, a), Service!MayAnswer(a)
    PROVE  Service!Next
<1>1. pc # "closed"
    BY DEF SessionUnder, IInv, SessionOK, PlaceFitsOp
<1>2. CASE Hangup
    BY <1>2, HangupImplements
<1>3. CASE /\ pc' = "idle" /\ fill' = "none" /\ answers' = Append(answers, a)
           /\ seen' = "unseen"
    <2>1. GrantNow' = GrantNow /\ valid' = valid
        BY <1>3 DEF GrantNow, storeVars
    <2> HIDE DEF Answers, Service!MayAnswer
    <2> QED BY <1>1, <1>3, <2>1, CurrentIs, ServiceAnswers
<1> QED BY <1>2, <1>3 DEF Reply

LEMMA RejectImplements ==
    ASSUME pc # "closed", Serving \in 1..Len(asked), answers \in Seq(Answers),
           fill # "asked", UNCHANGED <<asked, storeVars>>, Reject
    PROVE  Service!Next
<1>1. CASE Hangup
    BY <1>1, HangupImplements
<1>2. CASE /\ pc' = "closed" /\ fill' = "none" /\ answers' = Append(answers, "rejected")
           /\ seen' = "unseen"
    <2>1. GrantNow' = GrantNow /\ valid' = valid
        BY <1>2 DEF GrantNow, storeVars
    <2>2. "rejected" \in Answers /\ Service!MayAnswer("rejected")
        BY DEF Answers, Service!MayAnswer
    <2> HIDE DEF Answers, Service!MayAnswer
    <2> QED BY <1>2, <2>1, <2>2, ServiceAnswers
<1> QED BY <1>1, <1>2 DEF Reject

LEMMA SendImplements ==
    ASSUME pc # "closed", NEW toks, NEW place \in HostWaits, NEW p, SendHost(toks, place, p),
           fill # "asked", UNCHANGED <<asked, storeVars>>
    PROVE  Service!Next \/ Unseen
<1>1. CASE Hangup
    BY <1>1, HangupImplements
<1>2. CASE pc' = place /\ fill' = "none" /\ UNCHANGED histVars
    BY <1>2 DEF Unseen, GrantNow, storeVars, histVars, HostWaits
<1> QED BY <1>1, <1>2 DEF SendHost

LEMMA RequestStepsImplement ==
    ASSUME SessionUnder,
           \/ RejectOp \/ AcceptOp \/ GuestGone \/ ForwardArgs \/ SwallowOptions
           \/ CopyList \/ CopyFlag \/ BadArgs \/ ArgsSpillFails \/ ArgsTimeout
    PROVE  Service!Next \/ Unseen
<1>1. IInv /\ RequestsUnder /\ ServiceUnder
    BY DEF SessionUnder
<1>2. asked' = asked /\ UNCHANGED storeVars
    BY DEF RejectOp, AcceptOp, GuestGone, ForwardArgs, SwallowOptions, CopyList, CopyFlag,
           BadArgs, ArgsSpillFails, ArgsTimeout, guestVars
<1>3. pc \in {"idle", "args", "flag"}
    BY DEF RejectOp, AcceptOp, GuestGone, ForwardArgs, SwallowOptions, CopyList, CopyFlag,
           BadArgs, ArgsSpillFails, ArgsTimeout, ReadsArg
<1>4. fill = "none"
    BY <1>1, <1>3 DEF ServiceUnder
<1>5. CASE RejectOp
    <2>1. pc = "idle" /\ g2p # <<>> /\ Reject
        BY <1>5 DEF RejectOp, ReadsGuest
    <2>2. Serving \in 1..Len(asked)
        <3>1. Reading = <<"word", Serving>>
            BY <2>1 DEF Reading
        <3>2. \E c : <<Reading, Head(g2p), c>> \in RequestGrammar
            BY <1>1, <2>1, RequestRead
        <3> QED BY <3>1, <3>2, RequestGrammarReads
    <2>3. answers \in Seq(Answers)
        BY <1>1 DEF IInv, SessionOK
    <2> QED BY <1>2, <1>4, <2>1, <2>2, <2>3, RejectImplements
<1>6. CASE BadArgs \/ ArgsSpillFails \/ ArgsTimeout
    <2>1. pc \in {"args", "flag"} /\ Reject
        BY <1>6 DEF BadArgs, ArgsSpillFails, ArgsTimeout, ReadsArg
    <2>2. kind # "none"
        BY <1>1, <2>1 DEF IInv, SessionOK, PlaceFitsOp
    <2> QED BY <1>2, <1>4, <2>1, <2>2, CurrentIs, RejectImplements
<1>7. CASE GuestGone
    BY <1>2, <1>4, <1>7, HangupImplements DEF GuestGone
<1>8. CASE AcceptOp \/ CopyList
    <2>1. pc' \in {"args", "flag"} /\ UNCHANGED <<fill, histVars>>
        BY <1>8 DEF AcceptOp, CopyList
    <2> QED BY <1>2, <1>3, <1>4, <2>1 DEF Unseen, GrantNow, histVars, storeVars
<1>9. CASE ForwardArgs \/ CopyFlag
    <2>1. \E toks, p : SendHost(toks, "stderr", p)
        BY <1>9 DEF ForwardArgs, CopyFlag
    <2> QED BY <1>2, <1>3, <1>4, <2>1, SendImplements DEF HostWaits
<1>10. CASE SwallowOptions
    <2>1. ReadsArg /\ kind = "setoptions" /\ Reply(<<Last>>, "ok")
        BY <1>10 DEF SwallowOptions
    <2>2. Service!Current = asked[Serving] /\ asked[Serving].kind = kind
        BY <2>1, CurrentIs
    <2>3. asked[Serving].form = "good"
        BY <1>1, <2>1, ArgRead
    <2>4. Service!MayAnswer("ok")
        BY <2>1, <2>2, <2>3 DEF Service!MayAnswer, Service!ArgsAccepted
    <2>5. "ok" \in Answers \ {"rejected"}
        BY DEF Answers
    <2> HIDE DEF Answers, Service!MayAnswer
    <2> QED BY <1>2, <1>4, <2>1, <2>4, <2>5, ReplyImplements
<1> QED BY <1>5, <1>6, <1>7, <1>8, <1>9, <1>10

\* The steps that answer with what the daemon said, or looked.
LEMMA AnswersImplement ==
    ASSUME SessionUnder,
           \/ RelayError \/ RelayResult \/ RelayRest \/ AnswerFromHost
           \/ AnswerAfterFailedFill \/ RecheckError \/ AnswerFromRecheck
    PROVE  Service!Next \/ Unseen
<1> HIDE DEF Answers, Tokens
<1>1. IInv /\ HostUnder /\ RequestsUnder /\ ServiceUnder
    BY DEF SessionUnder
<1>2. asked' = asked /\ UNCHANGED storeVars
    BY DEF RelayError, RelayResult, RelayRest, AnswerFromHost, AnswerAfterFailedFill,
           RecheckError, AnswerFromRecheck, guestVars
<1>3. pc \in Busy /\ fill # "asked"
    BY <1>1 DEF RelayError, RelayResult, RelayRest, AnswerFromHost, AnswerAfterFailedFill,
           RecheckError, AnswerFromRecheck, ServiceUnder, Busy, HostWaits
<1>4. kind # "none"
    BY <1>1, <1>3 DEF IInv, SessionOK, PlaceFitsOp, Busy, HostWaits
<1>5. ASSUME NEW toks, NEW a \in {"error", "result", "valid", "invalid"}, Reply(toks, a),
             Service!MayAnswer(a)
      PROVE  Service!Next
    <2>1. a \in Answers \ {"rejected"}
        BY DEF Answers
    <2> HIDE DEF Service!MayAnswer
    <2> QED BY <1>2, <1>3, <1>4, <1>5, <2>1, ReplyImplements
<1>6. ASSUME NEW toks, NEW a \in {"result", "valid", "invalid"}, Reply(toks, a), a = seen
      PROVE  Service!Next
    <2>1. Service!MayAnswer(a)
        BY <1>6 DEF Service!MayAnswer
    <2> HIDE DEF Service!MayAnswer
    <2> QED BY <1>5, <1>6, <2>1
<1>7. CASE RelayError
    <2>1. pc = "stderr" /\ Reply(<<Err("daemon")>>, "error")
        BY <1>7 DEF RelayError
    <2>2. Forwarded(kind)
        BY <1>1, <2>1 DEF IInv, SessionOK, PlaceFitsOp
    <2>3. Service!ReachesHost(Service!Current)
        BY <1>3, <1>4, <2>2, CurrentIs
    <2>4. Service!MayAnswer("error")
        BY <2>3 DEF Service!MayAnswer
    <2> HIDE DEF Service!MayAnswer
    <2> QED BY <1>5, <2>1, <2>4
<1>8. CASE RelayResult \/ RelayRest
    <2>1. pc \in {"result", "rest"} /\ h2p # <<>> /\ kind # "isvalid"
        BY <1>1, <1>8 DEF RelayResult, RelayRest, ReadsHost, IInv, SessionOK, PlaceFitsOp
    <2>2. \E c : <<Awaiting, Head(h2p), c>> \in HostGrammar(kind, seen)
        BY <1>1, <2>1, HostReads DEF HostWaits
    <2>3. Awaiting = IF pc = "result" THEN "res" ELSE "rest"
        BY <2>1 DEF Awaiting
    <2>4. seen = "result"
        BY <1>8, <2>1, <2>2, <2>3, HostGrammarReads DEF RelayResult, RelayRest, ReadsHost
    <2>5. CASE \E toks : Reply(toks, "result")
        BY <1>6, <2>4, <2>5
    <2>6. CASE pc' = "rest" /\ UNCHANGED <<fill, path, histVars>>
        BY <1>2, <2>1, <2>6 DEF Unseen, GrantNow, histVars, storeVars
    <2> QED BY <1>8, <2>5, <2>6 DEF RelayResult, RelayRest
<1>9. CASE AnswerFromHost \/ AnswerFromRecheck
    <2>1. /\ pc \in {"ivresult", "reresult"} /\ ReadsHost("res")
          /\ ReplyValidity(Verdict(Head(h2p)))
        BY <1>9 DEF AnswerFromHost, AnswerFromRecheck
    <2>2. kind = "isvalid" /\ Awaiting = "res" /\ h2p # <<>> /\ Head(h2p).t = "res"
        BY <1>1, <2>1 DEF ReadsHost, Awaiting, IInv, SessionOK, PlaceFitsOp
    <2>3. \E c : <<"res", Head(h2p), c>> \in HostGrammar(kind, seen)
        BY <1>1, <2>1, <2>2, HostReads DEF HostWaits
    <2>4. Head(h2p) = Res(seen) /\ seen \in {"valid", "invalid"}
        BY <2>2, <2>3, HostGrammarReads
    <2>5. Verdict(Head(h2p)) = seen
        BY <2>4 DEF Verdict, Res, Tok
    <2> QED BY <1>6, <2>1, <2>4, <2>5 DEF ReplyValidity
<1>10. CASE AnswerAfterFailedFill
    <2>1. pc = "fill" /\ ReplyValidity("invalid")
        BY <1>10 DEF AnswerAfterFailedFill
    <2>2. seen = "invalid"
        BY <1>1, <2>1 DEF HostUnder
    <2> QED BY <1>6, <2>1, <2>2 DEF ReplyValidity
<1>11. CASE RecheckError
    <2>1. /\ pc = "restderr" /\ h2p # <<>> /\ Head(h2p).t = "error" /\ ReplyValidity("invalid")
        BY <1>11 DEF RecheckError, ReadsHost
    <2>2. Awaiting = "stderr"
        BY <2>1 DEF Awaiting
    <2>3. \E c : <<"stderr", Head(h2p), c>> \in HostGrammar(kind, seen)
        BY <1>1, <2>1, <2>2, HostReads DEF HostWaits
    <2>4. seen = "invalid"
        BY <1>1, <2>1, <2>3, HostGrammarReads DEF ServiceUnder
    <2> QED BY <1>6, <2>1, <2>4 DEF ReplyValidity
<1> QED BY <1>7, <1>8, <1>9, <1>10, <1>11

\* The session's other steps while it waits for the daemon, or fills.
LEMMA WaitsImplement ==
    ASSUME SessionUnder,
           \/ HostLost \/ HostStreams \/ RelayLog \/ RelayLast \/ StartFill
           \/ FillDial \/ FillAsk \/ Recheck \/ DropLog \/ RecheckLast
    PROVE  Service!Next \/ Unseen
<1>1. IInv /\ HostUnder /\ RequestsUnder /\ ServiceUnder
    BY DEF SessionUnder
<1>2. asked' = asked /\ UNCHANGED storeVars
    BY DEF HostLost, HostStreams, RelayLog, RelayLast, StartFill, FillDial, FillAsk, FillStep,
           Recheck, DropLog, RecheckLast, guestVars
<1>3. pc \in Busy /\ pc # "closed"
    BY DEF HostLost, HostStreams, RelayLog, RelayLast, StartFill, FillDial, FillAsk, FillStep,
           Recheck, DropLog, RecheckLast, Busy, HostWaits
<1>4. kind # "none"
    BY <1>1, <1>3 DEF IInv, SessionOK, PlaceFitsOp, Busy, HostWaits
<1>5. CASE HostLost \/ HostStreams
    <2>1. pc # "fill" /\ (Reject \/ Hangup)
        BY <1>5 DEF HostLost, HostStreams, HostWaits
    <2>2. fill # "asked"
        BY <1>1, <2>1 DEF ServiceUnder
    <2> QED BY <1>2, <1>3, <1>4, <2>1, <2>2, CurrentIs, RejectImplements, HangupImplements
<1>6. CASE RelayLog
    <2>1. fill # "asked"
        BY <1>1, <1>6 DEF RelayLog, ServiceUnder
    <2>2. CASE Hangup
        BY <1>2, <2>1, <2>2, HangupImplements
    <2>3. CASE UNCHANGED <<pc, path, fill, histVars>>
        BY <1>2, <2>3 DEF Unseen, GrantNow, histVars, storeVars
    <2> QED BY <1>6, <2>2, <2>3 DEF RelayLog
<1>7. CASE RelayLast \/ StartFill \/ DropLog \/ RecheckLast
    <2>1. pc' # "closed" /\ UNCHANGED <<path, fill, histVars>>
        BY <1>3, <1>7 DEF RelayLast, StartFill, DropLog, RecheckLast, sessionVars
    <2> QED BY <1>2, <1>3, <2>1 DEF Unseen, GrantNow, histVars, storeVars
<1>8. CASE FillDial
    <2>1. fill # "asked" /\ fill' # "asked" /\ UNCHANGED <<pc, path, histVars>>
        BY <1>8 DEF FillDial, FillStep
    <2> QED BY <1>2, <2>1 DEF Unseen, GrantNow, histVars, storeVars
<1>9. CASE FillAsk
    <2>1. /\ pc = "fill" /\ fill = "dialed" /\ fill' = "asked"
          /\ UNCHANGED <<pc, path, valid, orphans, answers, seen>>
        BY <1>9 DEF FillAsk, FillStep, histVars, storeVars
    <2>2. kind = "isvalid" /\ seen = "invalid" /\ path \in Manifest
        BY <1>1, <2>1 DEF IInv, SessionOK, PlaceFitsOp, HostUnder
    <2>3. /\ Service!Serving /\ Service!Current.kind = "isvalid"
          /\ Service!Current.path = path
        BY <1>3, <1>4, <2>2, CurrentIs
    <2>4. GrantNow' = GrantNow \union {path}
        BY <2>1 DEF GrantNow
    <2> HIDE DEF Service!Serving, Service!Current
    <2>5. Service!Grant
        BY <1>2, <1>3, <2>1, <2>2, <2>3, <2>4 DEF Service!Grant, GrantNow
    <2> QED BY <2>5 DEF Service!Next
<1>10. CASE Recheck
    <2>1. pc = "fill" /\ fill = "ensured" /\ \E toks : SendHost(toks, "restderr", path)
        BY <1>10 DEF Recheck
    <2> QED BY <1>2, <1>3, <2>1, SendImplements DEF HostWaits
<1> QED BY <1>5, <1>6, <1>7, <1>8, <1>9, <1>10

\* The guest asks; the rest of what it does the service does not see.
LEMMA GuestImplements ==
    ASSUME SessionUnder, GuestStep \/ GuestRecv
    PROVE  Service!Next \/ Unseen
<1>1. CASE \E r \in Requests : GuestBegin(r)
    <2>1. PICK r \in AllRequests : asked' = Append(asked, r)
        BY <1>1, RequestsAssumption DEF GuestBegin
    <2>2. /\ pc # "closed" /\ UNCHANGED <<pc, fill, path, orphans>>
          /\ UNCHANGED <<valid, answers, seen>>
        BY <1>1 DEF GuestBegin, sessionVars, storeVars, histVars
    <2> HIDE DEF AllRequests
    <2>3. Service!AllRequests = AllRequests
        BY DEF AllRequests, Service!AllRequests, Kinds, Service!Kinds
    <2>4. Service!Ask
        BY <2>1, <2>2, <2>3 DEF Service!Ask
    <2> QED BY <2>4 DEF Service!Next
<1>2. CASE GuestSend \/ GuestHangup \/ GuestRecv
    BY <1>2 DEF GuestSend, GuestHangup, GuestRecv, sessionVars, storeVars, histVars, Unseen,
        GrantNow
<1> QED BY <1>1, <1>2 DEF GuestStep

\* The daemon looks at its store for the request being served.
LEMMA HostImplements ==
    ASSUME SessionUnder, HostStep
    PROVE  Service!Next \/ Unseen
<1>1. IInv /\ HostUnder
    BY DEF SessionUnder
<1>2. CASE HostRun
    <2>1. /\ pc \in {"stderr", "restderr"} /\ p2h[1].v = kind /\ p2h[2].v = path
        BY <1>1, <1>2, DaemonHasRequest
    <2>2. pc \in Busy /\ kind # "none" /\ Forwarded(kind)
        BY <1>1, <2>1 DEF IInv, SessionOK, PlaceFitsOp, Busy, HostWaits, Forwarded
    <2>3. /\ Service!Serving /\ Service!ReachesHost(Service!Current)
          /\ Service!Current.kind = kind /\ Service!Current.path = path
        BY <2>2, CurrentIs
    <2>4. /\ UNCHANGED <<pc, fill, path, orphans>> /\ UNCHANGED <<valid, asked, answers>>
          /\ \/ seen' = seen
             \/ seen' = IF kind # "isvalid" THEN "result"
                        ELSE IF path \in valid THEN "valid" ELSE "invalid"
        <3>1. UNCHANGED <<pc, fill, path, orphans>> /\ UNCHANGED <<valid, asked, answers>>
            BY <1>2 DEF HostRun, sessionVars, guestVars, storeVars
        <3>2. seen' = seen \/ seen' = IF p2h[1].v # "isvalid" THEN "result"
                                      ELSE IF p2h[2].v \in valid THEN "valid" ELSE "invalid"
            BY <1>2 DEF HostRun
        <3> QED BY <2>1, <3>1, <3>2
    <2>5. CASE seen' = seen
        BY <2>4, <2>5 DEF Unseen, GrantNow
    <2>6. CASE seen' # seen
        <3> HIDE DEF Service!Serving, Service!Current, Service!ReachesHost
        <3>1. Service!Look
            BY <2>3, <2>4, <2>6 DEF Service!Look
        <3> QED BY <3>1 DEF Service!Next
    <2> QED BY <2>5, <2>6
<1>3. CASE HostSend
    BY <1>3 DEF HostSend, sessionVars, guestVars, storeVars, histVars, Unseen, GrantNow
<1> QED BY <1>2, <1>3 DEF HostStep

\* What was granted is fetched, by the fill or long after it.
LEMMA ServiceFetches ==
    ASSUME NEW p \in Paths, p \in GrantNow, valid' \in {valid, valid \union {p}},
           GrantNow' \in {GrantNow, GrantNow \ {p}}, pc' = pc, UNCHANGED <<asked, answers, seen>>
    PROVE  Service!Next
BY DEF Service!Next, Service!Fetch, GrantNow

LEMMA StoreImplements ==
    ASSUME SessionUnder, FillEnds \/ Others
    PROVE  Service!Next \/ Unseen
<1>1. orphans \subseteq Paths /\ (pc = "fill" => path \in Paths)
    BY ManifestAssumption DEF SessionUnder, IInv, SessionOK, PeersOK, PlaceFitsOp
<1>2. CASE FillEnsured
    <2>1. /\ fill = "asked" /\ fill' = "ensured" /\ path \in Paths /\ valid' = valid \union {path}
          /\ orphans' = orphans /\ UNCHANGED <<pc, asked, answers, seen>>
        BY <1>1, <1>2 DEF FillEnsured, FillStep, guestVars, histVars
    <2>2. path \in GrantNow /\ GrantNow' \in {GrantNow, GrantNow \ {path}}
        BY <2>1 DEF GrantNow
    <2> QED BY <2>1, <2>2, ServiceFetches
<1>3. CASE FillFails
    <2>1. /\ fill' = "failed" /\ path \in Paths /\ UNCHANGED <<pc, path, valid, asked, answers, seen>>
          /\ orphans' = orphans \/ (fill = "asked" /\ orphans' = orphans \union {path})
        BY <1>1, <1>3 DEF FillFails, FillStep, guestVars, histVars, storeVars
    <2>2. CASE fill = "asked"
        <3>1. path \in GrantNow /\ GrantNow' \in {GrantNow, GrantNow \ {path}}
            BY <2>1, <2>2 DEF GrantNow
        <3> QED BY <2>1, <3>1, ServiceFetches
    <2>3. CASE fill # "asked"
        BY <2>1, <2>3 DEF Unseen, GrantNow
    <2> QED BY <2>2, <2>3
<1>4. ASSUME NEW p \in Paths, OrphanFetches(p) PROVE Service!Next
    <2>1. /\ p \in orphans /\ orphans' = orphans \ {p} /\ valid' = valid \union {p}
          /\ UNCHANGED <<pc, fill, path, asked, answers, seen>>
        BY <1>4 DEF OrphanFetches, sessionVars, guestVars, histVars
    <2>2. p \in GrantNow /\ GrantNow' \in {GrantNow, GrantNow \ {p}}
        BY <2>1 DEF GrantNow
    <2> QED BY <2>1, <2>2, ServiceFetches
<1>5. CASE StoreChanges
    <2>1. /\ \E p \in Paths : valid' \in {valid \union {p}, valid \ {p}}
          /\ UNCHANGED <<pc, fill, path, orphans, asked, answers, seen>>
        BY <1>5 DEF StoreChanges, sessionVars, guestVars, histVars
    <2>2. Service!HostChange
        BY <2>1 DEF Service!HostChange
    <2> QED BY <2>2 DEF Service!Next
<1>6. CASE HostDies
    BY <1>6 DEF HostDies, sessionVars, guestVars, storeVars, histVars, Unseen, GrantNow
<1> QED BY <1>2, <1>3, <1>4, <1>5, <1>6 DEF FillEnds, Others

LEMMA NextImplements == SessionUnder /\ [Next]_vars => [Service!Next]_(Service!absVars)
<1> SUFFICES ASSUME SessionUnder, [Next]_vars
             PROVE  Service!Next \/ Unseen
    BY DEF Service!absVars, Unseen, GrantNow
<1>1. CASE SessionStep
    BY <1>1, RequestStepsImplement, AnswersImplement, WaitsImplement DEF SessionStep
<1>2. CASE UNCHANGED vars
    BY <1>2 DEF vars, sessionVars, guestVars, storeVars, histVars, Unseen, GrantNow
<1> QED BY <1>1, <1>2, GuestImplements, HostImplements, StoreImplements DEF Next, Terminated

\* The session is the service: it answers one request after the other, each
\* with what the daemon last saw while that request was being served, and has
\* the host fetch only a listed path the guest asked about and the host has
\* just called invalid (session.rs, run and intercept_is_valid_path).
THEOREM SessionImplementsStoreQuery == Spec => ImplementsStoreQuery
<1>1. Init => SessionUnder
    BY InitIInv, InitHost, InitRequests, InitService DEF SessionUnder
<1>2. SessionUnder /\ [Next]_vars => SessionUnder'
    BY NextIInv, NextHost, NextRequests, NextService DEF SessionUnder
<1>3. Spec => []SessionUnder
    BY <1>1, <1>2, PTL DEF Spec
<1> QED BY <1>3, InitImplements, NextImplements, PTL DEF Spec, ImplementsStoreQuery, Service!Spec
=============================================================================
