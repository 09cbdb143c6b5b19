---------------------------- MODULE ProxySession ----------------------------
(***************************************************************************)
(* The op loop of one relay session (src/src/proxy/session.rs), from the   *)
(* end of the handshakes to the end of the session, between a guest client *)
(* and the host daemon child that serves the session's connection.         *)
(*                                                                         *)
(* A channel is the sequence of tokens written to a socket and not yet     *)
(* read.  A token is a unit the proxy reads or forwards as a whole: an op  *)
(* word, an argument block, one stderr message, the first word of a result *)
(* and the rest of it.  hw and gw are the BufWriters: what is in them was  *)
(* written by the session and is not on the socket yet.                    *)
(*                                                                         *)
(* The guest and the daemon are modelled from what the session expects of  *)
(* them.  The guest may send its next request early, stop in the middle of *)
(* one, send what the allowlist denies or a malformed block, and hang up.  *)
(* The daemon may answer with an error, with a message the proxy does not  *)
(* relay, or die at any moment; its store changes under the session.       *)
(***************************************************************************)
EXTENDS StoreRequests, Naturals, Sequences

CONSTANTS
    NoPath,       \* "no path": not a path
    Requests,     \* the requests the guest may make
    MaxOps,       \* bound: requests the guest makes
    MaxLogs,      \* bound: log messages of one stderr exchange
    MaxChanges    \* bound: changes other users make to the host store

ASSUME NoPathAssumption == NoPath \notin Paths
ASSUME RequestsAssumption == Requests \subseteq AllRequests
ASSUME BoundsAssumption == MaxOps \in Nat /\ MaxLogs \in Nat /\ MaxChanges \in Nat

VARIABLES
    (* the session *)
    pc,       \* where session::run is
    kind,     \* the kind of the op being served, "none" between ops
    path,     \* its argument, NoPath until it is read
    hw,       \* BufWriter toward the host daemon
    gw,       \* BufWriter toward the guest
    fill,     \* progress of ensure_path on its own connection
    (* the sockets *)
    g2p, p2g, p2h, h2p,
    (* the guest *)
    gopen,    \* it has not hung up
    gtodo,    \* tokens of its request it has still to send
    gst,      \* where its parser is in the reply it waits for
    asked,    \* history: the requests it began to send
    got,      \* history: the answers it parsed
    (* the host daemon *)
    hopen,    \* the child serving the session's connection is alive
    htodo,    \* tokens of its reply it has still to send
    valid,    \* the paths the host store holds
    changes,  \* changes made by others
    orphans,  \* fetches whose connection the proxy has given up on
    (* history, for the abstract specification *)
    seen,     \* the daemon's latest look for the op being served
    answers   \* the answers the session wrote

sessionVars == <<pc, kind, path, hw, gw, fill>>
guestVars   == <<gopen, gtodo, gst, asked, got>>
storeVars   == <<valid, changes, orphans>>
hostVars    == <<hopen, htodo>>
histVars    == <<seen, answers>>
vars == <<sessionVars, g2p, p2g, p2h, h2p, guestVars, hostVars, storeVars, histVars>>

-----------------------------------------------------------------------------
(* Tokens.                                                                 *)

Tok(t, v) == [t |-> t, v |-> v]

Word(k)   == Tok("word", k)      \* an op word
Arg(p)    == Tok("arg", p)       \* an argument block
Garbage   == Tok("arg", NoPath)  \* one over a cap, or with bad padding
Begun     == Tok("begun", "")    \* the count and some whole strings of a list
Flag(f)   == Tok("flag", f)      \* the substitute flag
Log       == Tok("log", "")      \* STDERR_NEXT and the activity messages
Last      == Tok("last", "")     \* STDERR_LAST
Err(who)  == Tok("error", who)   \* STDERR_ERROR, by "daemon" or by "proxy"
Streaming == Tok("stream", "")   \* STDERR_READ, STDERR_WRITE or unknown
Broken    == Tok("broken", "")   \* a message or result that does not decode
Res(v)    == Tok("res", v)       \* the first word of a result
Rest      == Tok("rest", "")     \* what follows it

RequestTokens(r) ==
    <<Word(r.kind), IF r.form = "good" THEN Arg(r.path) ELSE Garbage>>
        \o IF r.kind = "queryvalid" THEN <<Flag(r.flag)>> ELSE <<>>

Init ==
    /\ pc = "idle"
    /\ kind = "none"
    /\ path = NoPath
    /\ hw = <<>> /\ gw = <<>>
    /\ fill = "none"
    /\ g2p = <<>> /\ p2g = <<>> /\ p2h = <<>> /\ h2p = <<>>
    /\ gopen = TRUE
    /\ gtodo = <<>>
    /\ gst = "stderr"
    /\ asked = <<>> /\ got = <<>>
    /\ hopen \in BOOLEAN   \* the loop is entered after an ERROR greeting too
    /\ htodo = <<>>
    /\ valid \in SUBSET Paths
    /\ changes = 0
    /\ orphans = {}
    /\ seen = "unseen"
    /\ answers = <<>>

-----------------------------------------------------------------------------
(* The guest (external).                                                   *)

GuestBegin(r) ==
    /\ gopen /\ pc # "closed"
    /\ gtodo = <<>>
    /\ Len(asked) < MaxOps
    /\ gtodo' = RequestTokens(r)
    /\ asked' = Append(asked, r)
    /\ UNCHANGED <<sessionVars, g2p, p2g, p2h, h2p, gopen, gst, got,
                   hostVars, storeVars, histVars>>

GuestSend ==
    /\ gopen /\ pc # "closed"
    /\ gtodo # <<>>
    /\ g2p' = Append(g2p, Head(gtodo))
    /\ gtodo' = Tail(gtodo)
    /\ UNCHANGED <<sessionVars, p2g, p2h, h2p, gopen, gst, asked, got,
                   hostVars, storeVars, histVars>>

\* How the guest's parser takes token t of the reply to a request of kind k:
\* its next place, "done" at the end of the reply, "lost" when t cannot
\* stand there.
Parse(place, k, t) ==
    CASE place = "stderr" /\ t.t = "log"                        -> "stderr"
      [] place = "stderr" /\ t.t = "error"                      -> "done"
      [] place = "stderr" /\ t.t = "last" /\ k = "setoptions"   -> "done"
      [] place = "stderr" /\ t.t = "last" /\ k # "setoptions"   -> "res"
      [] place = "res" /\ k = "isvalid" /\ t.t = "res"
            /\ t.v \in {"valid", "invalid"}                     -> "done"
      [] place = "res" /\ k # "isvalid" /\ t = Res("end")       -> "done"
      [] place = "res" /\ k # "isvalid" /\ t = Res("more")      -> "rest"
      [] place = "rest" /\ t.t = "rest"                         -> "done"
      [] OTHER                                                  -> "lost"

\* The answer a reply stands for, read off its last token.
AnswerOf(k, t) ==
    CASE t.t = "error" -> IF t.v = "daemon" THEN "error" ELSE "rejected"
      [] t.t = "last"  -> "ok"
      [] t.t = "res" /\ k = "isvalid" -> t.v
      [] OTHER         -> "result"

GuestRecv ==
    /\ gopen
    /\ p2g # <<>>
    /\ p2g' = Tail(p2g)
    /\ LET k == IF Len(got) < Len(asked) THEN asked[Len(got) + 1].kind ELSE "none"
           next == IF k = "none" THEN "lost" ELSE Parse(gst, k, Head(p2g))
       IN IF next = "done"
          THEN /\ gst' = "stderr"
               /\ got' = Append(got, AnswerOf(k, Head(p2g)))
          ELSE /\ gst' = next
               /\ got' = got
    /\ UNCHANGED <<sessionVars, g2p, p2h, h2p, gopen, gtodo, asked,
                   hostVars, storeVars, histVars>>

GuestHangup ==
    /\ gopen
    /\ gopen' = FALSE
    /\ gtodo' = <<>>
    /\ p2g' = <<>>
    /\ UNCHANGED <<sessionVars, g2p, p2h, h2p, gst, asked, got,
                   hostVars, storeVars, histVars>>

-----------------------------------------------------------------------------
(* The host daemon child (external) and its store.                         *)

\* The tokens of the request at the front of p2h: the word, the argument
\* block, and for a queryvalid the flag.
RequestLen == IF p2h[1] = Word("queryvalid") THEN 3 ELSE 2

Logs == UNION {[1..n -> {Log}] : n \in 0..MaxLogs}

Outcomes(k, v) ==
    {<<Err("daemon")>>, <<Streaming>>, <<Broken>>}
      \union
    IF k = "isvalid" THEN {<<Last, Res(v)>>}
    ELSE {<<Last, Res("end")>>, <<Last, Res("more"), Rest>>,
          <<Last, Broken>>, <<Last, Res("more"), Broken>>}

\* The child has the whole request: it executes it, and its look at the
\* store is what it will report.
HostRun ==
    /\ hopen
    /\ htodo = <<>>
    /\ p2h # <<>> /\ Len(p2h) >= RequestLen
    /\ LET k == p2h[1].v
           look == IF p2h[2].v \in valid THEN "valid" ELSE "invalid"
       IN \E logs \in Logs, out \in Outcomes(k, look) :
             /\ htodo' = logs \o out
             /\ seen' = IF out[1] # Last THEN seen
                        ELSE IF k = "isvalid" THEN look ELSE "result"
    /\ p2h' = SubSeq(p2h, RequestLen + 1, Len(p2h))
    /\ UNCHANGED <<sessionVars, g2p, p2g, h2p, guestVars, hopen, storeVars, answers>>

HostSend ==
    /\ hopen /\ pc # "closed"
    /\ htodo # <<>>
    /\ h2p' = Append(h2p, Head(htodo))
    /\ htodo' = Tail(htodo)
    /\ UNCHANGED <<sessionVars, g2p, p2g, p2h, guestVars, hopen, storeVars, histVars>>

\* It exits or is killed; what it sent before can still be read.
HostDies ==
    /\ hopen
    /\ hopen' = FALSE
    /\ htodo' = <<>>
    /\ p2h' = <<>>
    /\ UNCHANGED <<sessionVars, g2p, p2g, h2p, guestVars, storeVars, histVars>>

\* Other users of the host: a build registers a path, a collection removes one.
StoreChanges ==
    /\ changes < MaxChanges
    /\ changes' = changes + 1
    /\ \E p \in Paths : valid' \in {valid \union {p}, valid \ {p}} \ {valid}
    /\ UNCHANGED <<sessionVars, g2p, p2g, p2h, h2p, guestVars, hostVars, orphans, histVars>>

\* The daemon child of a fill the proxy gave up on completes it all the same.
OrphanFetches(p) ==
    /\ p \in orphans
    /\ orphans' = orphans \ {p}
    /\ valid' = valid \union {p}
    /\ UNCHANGED <<sessionVars, g2p, p2g, p2h, h2p, guestVars, hostVars, changes, histVars>>

-----------------------------------------------------------------------------
(* Ends of an op.                                                          *)

\* run() returns: both connections are dropped, and with them what the
\* BufWriters still hold.  Nothing is answered.
Hangup ==
    /\ pc' = "closed"
    /\ kind' = "none" /\ path' = NoPath /\ fill' = "none"
    /\ hw' = <<>> /\ gw' = <<>>
    /\ UNCHANGED <<p2g, histVars>>

\* Write toks to gw and flush it.  A guest that has hung up makes the write
\* an error, which ends the session.
Deliver(toks) ==
    /\ gopen
    /\ p2g' = p2g \o gw \o toks
    /\ gw' = <<>>

\* The reply is complete: back to the op boundary.
Reply(toks, a) ==
    \/ /\ Deliver(toks)
       /\ pc' = "idle"
       /\ kind' = "none" /\ path' = NoPath /\ fill' = "none"
       /\ answers' = Append(answers, a)
       /\ seen' = "unseen"
       /\ UNCHANGED hw
    \/ ~gopen /\ Hangup

\* A mutant: write_error does not flush, and the error is lost in the close.
RejectUnflushed ==
    /\ pc' = "closed"
    /\ kind' = "none" /\ path' = NoPath /\ fill' = "none"
    /\ hw' = <<>> /\ gw' = <<>>
    /\ answers' = Append(answers, "rejected")
    /\ seen' = "unseen"
    /\ UNCHANGED p2g

\* stderr::write_error, then the session ends with the error.
Reject ==
    \/ /\ Deliver(<<Err("proxy")>>)
       /\ pc' = "closed"
       /\ kind' = "none" /\ path' = NoPath /\ fill' = "none"
       /\ hw' = <<>>
       /\ answers' = Append(answers, "rejected")
       /\ seen' = "unseen"
    \/ ~gopen /\ Hangup

\* Write toks to hw, flush it, and wait at place for the reply about p.  A
\* dead child makes it an error.
SendHost(toks, place, p) ==
    \/ /\ hopen
       /\ p2h' = p2h \o hw \o toks
       /\ hw' = <<>>
       /\ pc' = place
       /\ path' = p
       /\ fill' = "none"
       /\ UNCHANGED <<kind, gw, p2g, histVars>>
    \/ /\ ~hopen
       /\ Hangup
       /\ UNCHANGED p2h

-----------------------------------------------------------------------------
(* The op boundary.                                                        *)

ReadsGuest(t) ==
    /\ g2p # <<>>
    /\ Head(g2p).t = t
    /\ g2p' = Tail(g2p)

\* A mutant: a denied op is an error of the op, and the session goes on.
RejectOpGoesOn ==
    /\ pc = "idle"
    /\ ReadsGuest("word")
    /\ ~Allowed(Head(g2p).v)
    /\ Reply(<<Err("proxy")>>, "rejected")
    /\ UNCHANGED <<p2h, h2p, guestVars, hostVars, storeVars>>

\* The next op word is not in the allowlist.
RejectOp ==
    /\ pc = "idle"
    /\ ReadsGuest("word")
    /\ ~Allowed(Head(g2p).v)
    /\ Reject
    /\ UNCHANGED <<p2h, h2p, guestVars, hostVars, storeVars>>

\* A mutant: SetOptions' word is written to the host like any other.
AcceptOpForwardsOptions ==
    /\ pc = "idle"
    /\ ReadsGuest("word")
    /\ Allowed(Head(g2p).v)
    /\ kind' = Head(g2p).v
    /\ hw' = Append(hw, Head(g2p))
    /\ pc' = "args"
    /\ UNCHANGED <<path, gw, fill, p2g, p2h, h2p, guestVars, hostVars, storeVars, histVars>>

\* An allowed op: its word goes to the host's buffer, SetOptions' nowhere.
AcceptOp ==
    /\ pc = "idle"
    /\ ReadsGuest("word")
    /\ Allowed(Head(g2p).v)
    /\ kind' = Head(g2p).v
    /\ hw' = IF Forwarded(Head(g2p).v) THEN Append(hw, Head(g2p)) ELSE hw
    /\ pc' = "args"
    /\ UNCHANGED <<path, gw, fill, p2g, p2h, h2p, guestVars, hostVars, storeVars, histVars>>

\* A mutant: an end of file between ops is not told from no data.
GuestGoneIgnored == FALSE /\ Hangup

\* The guest hung up between ops.
GuestGone ==
    /\ pc = "idle"
    /\ g2p = <<>> /\ ~gopen
    /\ Hangup
    /\ UNCHANGED <<g2p, p2h, h2p, guestVars, hostVars, storeVars>>

-----------------------------------------------------------------------------
(* Arguments, within ARGS_TIMEOUT.                                         *)

ReadsArg ==
    /\ pc = "args"
    /\ ReadsGuest("arg")
    /\ Head(g2p).v # NoPath

\* The arguments of a single-block op are complete: flush, await the host.
ForwardArgs ==
    /\ ReadsArg
    /\ kind \in {"isvalid", "query"}
    /\ SendHost(<<Head(g2p)>>, "stderr", Head(g2p).v)
    /\ UNCHANGED <<h2p, guestVars, hostVars, storeVars>>

\* SetOptions is answered by the proxy itself.
SwallowOptions ==
    /\ ReadsArg
    /\ kind = "setoptions"
    /\ Reply(<<Last>>, "ok")
    /\ UNCHANGED <<p2h, h2p, guestVars, hostVars, storeVars>>

\* The list of a queryvalid: a large one overflows the BufWriter, which
\* first pushes out what it holds and then keeps or passes on the list.
CopyList ==
    /\ ReadsArg
    /\ kind = "queryvalid"
    /\ pc' = "flag"
    /\ path' = Head(g2p).v
    /\ \/ hw' = Append(hw, Head(g2p)) /\ UNCHANGED p2h
       \/ hopen /\ p2h' = p2h \o hw /\ hw' = <<Head(g2p)>>
       \/ hopen /\ p2h' = p2h \o Append(hw, Head(g2p)) /\ hw' = <<>>
    /\ UNCHANGED <<kind, gw, fill, p2g, h2p, guestVars, hostVars, storeVars, histVars>>

\* The substitute flag is 0: the request is complete.
CopyFlag ==
    /\ pc = "flag"
    /\ ReadsGuest("flag")
    /\ Head(g2p).v = "0"
    /\ SendHost(<<Head(g2p)>>, "stderr", path)
    /\ UNCHANGED <<h2p, guestVars, hostVars, storeVars>>

\* What the BufWriter has had of an incomplete request: a string is copied when
\* it is whole, a list string by string.
Incomplete == IF pc = "args" /\ kind = "queryvalid" THEN Append(hw, Begun) ELSE hw

\* What of it the BufWriter may have pushed out already.
SpillsPrefix ==
    \/ UNCHANGED p2h
    \/ hopen /\ \E n \in 1..Len(Incomplete) : p2h' = p2h \o SubSeq(Incomplete, 1, n)

\* The block does not decode, or substitution is asked for.
BadArgs ==
    /\ \/ pc = "args" /\ ReadsGuest("arg") /\ Head(g2p).v = NoPath
       \/ pc = "flag" /\ ReadsGuest("flag") /\ Head(g2p).v = "1"
    /\ SpillsPrefix
    /\ Reject
    /\ UNCHANGED <<h2p, guestVars, hostVars, storeVars>>

\* A block that overflows the BufWriter meets a dead host child.
ArgsSpillFails ==
    /\ \/ ReadsArg /\ Forwarded(kind)
       \/ pc = "flag" /\ ReadsGuest("flag") /\ Head(g2p).v = "0"
    /\ ~hopen
    /\ Reject
    /\ UNCHANGED <<p2h, h2p, guestVars, hostVars, storeVars>>

\* A mutant: only the end of file ends the wait for arguments.
ArgsTimeoutOnlyEof ==
    /\ pc \in {"args", "flag"}
    /\ g2p = <<>> /\ ~gopen
    /\ SpillsPrefix
    /\ Reject
    /\ UNCHANGED <<g2p, h2p, guestVars, hostVars, storeVars>>

\* The guest stalls past ARGS_TIMEOUT or hangs up in the arguments.
ArgsTimeout ==
    /\ pc \in {"args", "flag"}
    /\ g2p = <<>>
    /\ SpillsPrefix
    /\ Reject
    /\ UNCHANGED <<g2p, h2p, guestVars, hostVars, storeVars>>

-----------------------------------------------------------------------------
(* The stderr exchange and the result.                                     *)

ReadsHost(t) ==
    /\ h2p # <<>>
    /\ Head(h2p).t = t
    /\ h2p' = Tail(h2p)

\* The places that wait for the host daemon.
HostWaits == {"stderr", "result", "rest", "ivresult", "restderr", "reresult"}

\* A mutant: the guest gets a synthetic error wherever the host is lost.
HostLostRejects ==
    /\ pc \in HostWaits
    /\ \/ h2p = <<>> /\ ~hopen /\ UNCHANGED h2p
       \/ ReadsHost("broken")
    /\ Reject
    /\ UNCHANGED <<g2p, p2h, guestVars, hostVars, storeVars>>

\* The child is gone and all it sent is read, or what it sent does not
\* decode: the session ends without a word.
HostLost ==
    /\ pc \in HostWaits
    /\ \/ h2p = <<>> /\ ~hopen /\ UNCHANGED h2p
       \/ ReadsHost("broken")
    /\ Hangup
    /\ UNCHANGED <<g2p, p2h, guestVars, hostVars, storeVars>>

\* A message the proxy does not relay: the guest is message-aligned and
\* gets a synthetic error, except in a re-check, which it knows nothing of.
HostStreams ==
    /\ pc \in {"stderr", "restderr"}
    /\ ReadsHost("stream")
    /\ IF pc = "stderr" THEN Reject ELSE Hangup
    /\ UNCHANGED <<g2p, p2h, guestVars, hostVars, storeVars>>

\* A mutant: log messages wait in the BufWriter for the next flush.
RelayLogUnflushed ==
    /\ pc = "stderr"
    /\ ReadsHost("log")
    /\ gw' = Append(gw, Log)
    /\ UNCHANGED <<pc, kind, path, hw, fill, p2g, histVars, g2p, p2h, guestVars,
                   hostVars, storeVars>>

\* A log message goes through at once.
RelayLog ==
    /\ pc = "stderr"
    /\ ReadsHost("log")
    /\ \/ Deliver(<<Log>>) /\ UNCHANGED <<pc, kind, path, hw, fill, histVars>>
       \/ ~gopen /\ Hangup
    /\ UNCHANGED <<g2p, p2h, guestVars, hostVars, storeVars>>

\* The daemon's error ends the op, not the session.
RelayError ==
    /\ pc = "stderr"
    /\ ReadsHost("error")
    /\ Reply(<<Err("daemon")>>, "error")
    /\ UNCHANGED <<g2p, p2h, guestVars, hostVars, storeVars>>

\* A mutant: the STDERR_LAST of an isvalid is forwarded like any other.
RelayLastAlways ==
    /\ pc = "stderr"
    /\ ReadsHost("last")
    /\ pc' = "result"
    /\ gw' = Append(gw, Last)
    /\ UNCHANGED <<kind, path, hw, fill, p2g, histVars, g2p, p2h, guestVars,
                   hostVars, storeVars>>

\* STDERR_LAST: forwarded, but held back for an isvalid, whose answer the
\* proxy may still change.
RelayLast ==
    /\ pc = "stderr"
    /\ ReadsHost("last")
    /\ IF kind = "isvalid"
       THEN pc' = "ivresult" /\ UNCHANGED gw
       ELSE pc' = "result" /\ gw' = Append(gw, Last)
    /\ UNCHANGED <<kind, path, hw, fill, p2g, histVars, g2p, p2h, guestVars,
                   hostVars, storeVars>>

\* copy_result: a result of one word, or of a word and what it announces.
\* A large rest overflows gw, so the guest may have read part of it.
RelayResult ==
    /\ pc = "result"
    /\ ReadsHost("res")
    /\ IF Head(h2p).v = "end"
       THEN Reply(<<Head(h2p)>>, "result")
       ELSE /\ pc' = "rest"
            /\ \/ gw' = Append(gw, Head(h2p)) /\ UNCHANGED p2g
               \/ gopen /\ p2g' = p2g \o gw \o <<Head(h2p)>> /\ gw' = <<>>
            /\ UNCHANGED <<kind, path, hw, fill, histVars>>
    /\ UNCHANGED <<g2p, p2h, guestVars, hostVars, storeVars>>

RelayRest ==
    /\ pc = "rest"
    /\ ReadsHost("rest")
    /\ Reply(<<Rest>>, "result")
    /\ UNCHANGED <<g2p, p2h, guestVars, hostVars, storeVars>>

-----------------------------------------------------------------------------
(* intercept_is_valid_path after the host's STDERR_LAST.                   *)

\* A mutant: the word written does not depend on the verdict.
ReplyValidityTrue(v) == Reply(<<Last, Res("valid")>>, v)

\* write_is_valid_path_result, and the caller's flush.
ReplyValidity(v) == Reply(<<Last, Res(v)>>, v)

\* host_valid: any word but 0 means valid.
Verdict(t) == IF t = Res("invalid") THEN "invalid" ELSE "valid"

\* A mutant: the host's answer always stands.
AnswerFromHostAlways ==
    /\ pc = "ivresult"
    /\ ReadsHost("res")
    /\ ReplyValidity(Verdict(Head(h2p)))
    /\ UNCHANGED <<g2p, p2h, guestVars, hostVars, storeVars>>

\* The host's answer stands, unless it is "invalid" for a manifest path.
AnswerFromHost ==
    /\ pc = "ivresult"
    /\ ReadsHost("res")
    /\ Verdict(Head(h2p)) = "valid" \/ path \notin Manifest
    /\ ReplyValidity(Verdict(Head(h2p)))
    /\ UNCHANGED <<g2p, p2h, guestVars, hostVars, storeVars>>

StartFill ==
    /\ pc = "ivresult"
    /\ ReadsHost("res")
    /\ Verdict(Head(h2p)) = "invalid" /\ path \in Manifest
    /\ pc' = "fill"
    /\ UNCHANGED <<kind, path, hw, gw, fill, p2g, histVars, g2p, p2h, guestVars,
                   hostVars, storeVars>>

\* ensure_path on a fresh connection: connect, handshake and greeting, then
\* the request.
FillStep(from, to) ==
    /\ pc = "fill"
    /\ fill = from
    /\ fill' = to
    /\ UNCHANGED <<pc, kind, path, hw, gw, g2p, p2g, p2h, h2p, guestVars,
                   hostVars, histVars>>

FillDial == FillStep("none", "dialed") /\ UNCHANGED storeVars
FillAsk  == FillStep("dialed", "asked") /\ UNCHANGED storeVars

\* The other daemon child fetches the path and says so.
FillEnsured ==
    /\ FillStep("asked", "ensured")
    /\ valid' = valid \union {path}
    /\ UNCHANGED <<changes, orphans>>

\* The connection or the handshake fails, the daemon reports an error or an
\* odd success word, or the connection is lost before the success word.
FillFails ==
    /\ \E from \in {"none", "dialed", "asked", "ensured"} : FillStep(from, "failed")
    /\ \/ UNCHANGED storeVars
       \/ /\ fill = "asked"
          /\ orphans' = orphans \union {path}
          /\ UNCHANGED <<valid, changes>>

\* The fill failed: a warning, and the host's first answer.
AnswerAfterFailedFill ==
    /\ pc = "fill"
    /\ fill = "failed"
    /\ ReplyValidity("invalid")
    /\ UNCHANGED <<g2p, p2h, h2p, guestVars, hostVars, storeVars>>

\* A mutant: a fill that succeeded is taken as the answer.
RecheckSkipped ==
    /\ pc = "fill"
    /\ fill = "ensured"
    /\ ReplyValidity("valid")
    /\ UNCHANGED <<g2p, p2h, h2p, guestVars, hostVars, storeVars>>

\* recheck_is_valid_path: ask again on the session's own connection.
Recheck ==
    /\ pc = "fill"
    /\ fill = "ensured"
    /\ SendHost(<<Word("isvalid"), Arg(path)>>, "restderr", path)
    /\ UNCHANGED <<g2p, h2p, guestVars, hostVars, storeVars>>

\* drain_to_terminal: log messages of the re-check are not relayed.
DropLog ==
    /\ pc = "restderr"
    /\ ReadsHost("log")
    /\ UNCHANGED <<sessionVars, p2g, histVars, g2p, p2h, guestVars, hostVars, storeVars>>

\* A mutant: STDERR_LAST is taken for success, its result word not read.
RecheckLastAnswers ==
    /\ pc = "restderr"
    /\ ReadsHost("last")
    /\ ReplyValidity("valid")
    /\ UNCHANGED <<g2p, p2h, guestVars, hostVars, storeVars>>

RecheckLast ==
    /\ pc = "restderr"
    /\ ReadsHost("last")
    /\ pc' = "reresult"
    /\ UNCHANGED <<kind, path, hw, gw, fill, p2g, histVars, g2p, p2h, guestVars,
                   hostVars, storeVars>>

\* The daemon's error during a re-check becomes "invalid", with a warning.
RecheckError ==
    /\ pc = "restderr"
    /\ ReadsHost("error")
    /\ ReplyValidity("invalid")
    /\ UNCHANGED <<g2p, p2h, guestVars, hostVars, storeVars>>

AnswerFromRecheck ==
    /\ pc = "reresult"
    /\ ReadsHost("res")
    /\ ReplyValidity(Verdict(Head(h2p)))
    /\ UNCHANGED <<g2p, p2h, guestVars, hostVars, storeVars>>

-----------------------------------------------------------------------------
SessionStep ==
    \/ RejectOp \/ AcceptOp \/ GuestGone
    \/ ForwardArgs \/ SwallowOptions \/ CopyList \/ CopyFlag
    \/ BadArgs \/ ArgsSpillFails \/ ArgsTimeout
    \/ HostLost \/ HostStreams
    \/ RelayLog \/ RelayError \/ RelayLast \/ RelayResult \/ RelayRest
    \/ AnswerFromHost \/ StartFill
    \/ FillDial \/ FillAsk \/ AnswerAfterFailedFill
    \/ Recheck \/ DropLog \/ RecheckLast \/ RecheckError \/ AnswerFromRecheck

GuestStep == (\E r \in Requests : GuestBegin(r)) \/ GuestSend \/ GuestHangup

HostStep == HostRun \/ HostSend

FillEnds == FillEnsured \/ FillFails

Others == HostDies \/ StoreChanges \/ \E p \in Paths : OrphanFetches(p)

\* The session is over and so is what it left behind.
Terminated == pc = "closed" /\ UNCHANGED vars

Next ==
    \/ SessionStep
    \/ GuestStep
    \/ GuestRecv
    \/ HostStep
    \/ FillEnds
    \/ Others
    \/ Terminated

(* Fairness.  The session is a task the runtime keeps polling, and its     *)
(* timers run.  The guest reads what it is sent (what it sends is up to    *)
(* it).  The daemon, which the proxy trusts and puts no timeout on, goes   *)
(* on with what it was asked, on both connections, or dies.                *)
Fairness ==
    /\ WF_vars(SessionStep)
    /\ WF_vars(GuestRecv)
    /\ WF_vars(HostStep)
    /\ WF_vars(FillEnds)

Spec == Init /\ [][Next]_vars /\ Fairness

-----------------------------------------------------------------------------
(* Properties.                                                             *)

Places == {"idle", "args", "flag", "fill", "closed"} \union HostWaits

Tokens == {Word(k) : k \in Kinds} \union {Arg(p) : p \in Paths \union {NoPath}}
    \union {Begun, Flag("0"), Flag("1"), Log, Last, Streaming, Broken, Rest}
    \union {Err("daemon"), Err("proxy")}
    \union {Res(v) : v \in {"valid", "invalid", "end", "more"}}

Answers == {"rejected", "error", "ok", "result", "valid", "invalid"}

\* Which op can be where.
PlaceFitsOp ==
    /\ pc \in {"idle", "closed"} <=> kind = "none"
    /\ pc = "flag" => kind = "queryvalid"
    /\ pc \in {"stderr", "result", "rest"} => Forwarded(kind)
    /\ pc \in {"result", "rest"} => kind # "isvalid"
    /\ pc \in {"ivresult", "fill", "restderr", "reresult"} => kind = "isvalid"
    /\ pc \in HostWaits \union {"fill", "flag"} => path \in Paths

TypeOK ==
    /\ pc \in Places
    /\ kind \in Kinds \union {"none"}
    /\ path \in Paths \union {NoPath}
    /\ hw \in Seq(Tokens) /\ gw \in Seq(Tokens)
    /\ fill \in {"none", "dialed", "asked", "ensured", "failed"}
    /\ g2p \in Seq(Tokens) /\ p2g \in Seq(Tokens)
    /\ p2h \in Seq(Tokens) /\ h2p \in Seq(Tokens)
    /\ gopen \in BOOLEAN
    /\ gtodo \in Seq(Tokens)
    /\ gst \in {"stderr", "res", "rest", "lost"}
    /\ asked \in Seq(AllRequests)
    /\ got \in Seq(Answers)
    /\ hopen \in BOOLEAN
    /\ htodo \in Seq(Tokens)
    /\ valid \subseteq Paths
    /\ changes \in 0..MaxChanges
    /\ orphans \subseteq Paths
    /\ seen \in {"unseen", "valid", "invalid", "result"}
    /\ answers \in Seq(Answers)
    /\ PlaceFitsOp

\* Nobody is kept waiting for bytes that sit in a BufWriter: whenever the
\* session waits for the host daemon its request is on the socket, and
\* whenever it waits for anything but the rest of a result, everything it
\* wrote for the guest is on the socket, log messages included.
NothingWithheld ==
    /\ pc \notin {"args", "flag"} => hw = <<>>
    /\ pc \notin {"result", "rest"} => gw = <<>>

\* The relayed host connection is at an op boundary whenever the session
\* looks for the next op and for as long as a fill runs: no token of an
\* earlier exchange is left that a later one would misread.
HostLegAtBoundary ==
    pc \in {"idle", "fill"} =>
        hw = <<>> /\ p2h = <<>> /\ htodo = <<>> /\ h2p = <<>>

\* The session never takes the argument of one op for the word of the next.
GuestLegAtBoundary ==
    pc = "idle" /\ g2p # <<>> => Head(g2p).t = "word"

\* Whatever the daemon sends, wherever either side dies, and whatever error
\* the proxy makes up itself, the guest's parser never meets a token that
\* cannot stand where it stands.
GuestNeverDesyncs == gst # "lost"

\* The guest parses the answers the session gave, in that order.
AnswersInOrder ==
    /\ Len(got) <= Len(answers)
    /\ \A i \in DOMAIN got : got[i] = answers[i]

\* The tokens of allowed, forwarded queries.
QueryTokens ==
    {Word(k) : k \in {"isvalid", "query", "queryvalid"}}
        \union {Arg(p) : p \in Paths} \union {Flag("0"), Begun}

\* Nothing but the tokens of allowed queries is ever written toward the
\* daemon on the guest's behalf: no denied op, no SetOptions, no request to
\* substitute, nothing of a malformed block but the whole strings a list begins
\* with, not even in the unfinished prefix that a full BufWriter pushes out
\* before the request is refused.
HostSeesOnlyQueries ==
    hw \in Seq(QueryTokens) /\ p2h \in Seq(QueryTokens)

\* The host is only ever asked to fetch what the manifest lists, also by a
\* fill the proxy has long given up on.
FetchesListed ==
    /\ orphans \subseteq Manifest
    /\ pc = "fill" => path \in Manifest

\* A guest is told that a manifest path is invalid only after a fill of
\* that path failed or the host denied it again.
InvalidOnlyAfterFill ==
    [][answers' = Append(answers, "invalid") /\ path \in Manifest =>
         \/ pc = "fill" /\ fill = "failed"
         \/ pc \in {"restderr", "reresult"}]_vars

\* The session implements the service of StoreQuery: a request is served by
\* a single chain of looks at the host store while it is being served, and
\* fetches are granted for the listed path in question only.
Service ==
    INSTANCE StoreQuery WITH
        granted <- orphans \union (IF fill = "asked" THEN {path} ELSE {}),
        open    <- (pc # "closed")

ImplementsStoreQuery == Service!Spec

\* The guest has sent at least the op word of its n-th request.
Sent(n) ==
    /\ Len(asked) >= n
    /\ Len(asked) = n => gtodo # RequestTokens(asked[n])

\* Every request whose op word was sent is answered or the session ends: a
\* guest that stalls in its arguments runs into the timeout, a daemon that
\* goes on or dies cannot leave both sides waiting.
RequestsSettled ==
    \A n \in 1..MaxOps :
        Sent(n) ~> (Len(got) >= n \/ pc = "closed" \/ ~gopen)

\* An answer once given reaches a guest that stays: the end of the session
\* does not swallow it.
AnswersArrive ==
    \A n \in 1..MaxOps : Len(answers) >= n ~> (Len(got) >= n \/ ~gopen)

\* A guest that hangs up, even in the middle of a fill, ends the session.
HangupEndsSession == ~gopen ~> pc = "closed"
=============================================================================
