----------------------------- MODULE StoreQuery -----------------------------
(***************************************************************************)
(* What a relay session promises, without the wire: a service that answers *)
(* requests one at a time and in order.  A validity answer is the latest   *)
(* of the looks the host daemon took at its store while that request was   *)
(* being served.  The service changes the store in one way only: it may    *)
(* have the host fetch a path that is in the manifest, that the guest      *)
(* asked about, and that the host has just called invalid.                 *)
(***************************************************************************)
EXTENDS StoreRequests, Naturals, Sequences

VARIABLES
    valid,    \* the paths the host store holds
    asked,    \* the requests of the guest, in order
    answers,  \* the answers given, the i-th to asked[i]
    seen,     \* the latest look for the request being served
    granted,  \* paths the host daemon was asked to fetch
    open      \* the session still serves

absVars == <<valid, asked, answers, seen, granted, open>>

Serving == Len(answers) < Len(asked)
Current == asked[Len(answers) + 1]

Init ==
    /\ valid \subseteq Paths
    /\ asked = <<>>
    /\ answers = <<>>
    /\ seen = "unseen"
    /\ granted = {}
    /\ open = TRUE

Ask ==
    /\ open
    /\ \E r \in AllRequests : asked' = Append(asked, r)
    /\ UNCHANGED <<valid, answers, seen, granted, open>>

\* The host daemon executes the request.
Look ==
    /\ Serving
    /\ ReachesHost(Current)
    /\ seen' = IF Current.kind # "isvalid" THEN "result"
               ELSE IF Current.path \in valid THEN "valid" ELSE "invalid"
    /\ UNCHANGED <<valid, asked, answers, granted, open>>

\* A denied or malformed request can only be rejected, and a rejection is
\* the last thing the session says.
MayAnswer(a) ==
    \/ a = "rejected"
    \/ a = "error" /\ ReachesHost(Current)
    \/ a = "ok" /\ Current.kind = "setoptions" /\ ArgsAccepted(Current)
    \/ a = seen /\ seen # "unseen"

Answer(a) ==
    /\ open
    /\ Serving
    /\ MayAnswer(a)
    /\ answers' = Append(answers, a)
    /\ seen' = "unseen"
    /\ open' = (a # "rejected")
    /\ UNCHANGED <<valid, asked, granted>>

\* Ask the host to fetch the path in question.
Grant ==
    /\ open
    /\ Serving
    /\ Current.kind = "isvalid"
    /\ Current.path \in Manifest
    /\ seen = "invalid"
    /\ granted' = granted \union {Current.path}
    /\ UNCHANGED <<valid, asked, answers, seen, open>>

\* The host fetches a path it was asked to fetch, or gives up on it.
Fetch(p) ==
    /\ p \in granted
    /\ valid' \in {valid, valid \union {p}}
    /\ granted' \in {granted, granted \ {p}}
    /\ UNCHANGED <<asked, answers, seen, open>>

\* The host's own users: builds, garbage collection.
HostChange ==
    /\ \E p \in Paths : valid' \in {valid \union {p}, valid \ {p}}
    /\ UNCHANGED <<asked, answers, seen, granted, open>>

Close ==
    /\ open' = FALSE
    /\ UNCHANGED <<valid, asked, answers, seen, granted>>

Next ==
    \/ Ask
    \/ Look
    \/ \E a \in {"rejected", "error", "ok", "result", "valid", "invalid"} :
           Answer(a)
    \/ Grant
    \/ \E p \in Paths : Fetch(p)
    \/ HostChange
    \/ Close

Spec == Init /\ [][Next]_absVars
=============================================================================
