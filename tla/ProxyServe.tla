----------------------------- MODULE ProxyServe -----------------------------
(***************************************************************************)
(* The accept loop of the nix daemon proxy (src/src/proxy.rs): a semaphore *)
(* of MaxSessions permits taken BEFORE accept, one relay session per       *)
(* accepted guest connection, and the hook that unlinks the listening      *)
(* socket at the first accept.                                             *)
(*                                                                         *)
(* A session is reduced to what it costs the proxy and the host daemon:    *)
(* one guest descriptor from accept to end, one host daemon connection     *)
(* from the moment the guest's magic is accepted, and a second, fresh one  *)
(* while an on-demand fill runs.  ProxySession models what is said on      *)
(* those connections.                                                      *)
(***************************************************************************)
EXTENDS Naturals, Sequences, FiniteSets

CONSTANTS
    Clients,      \* connection slots of the guest's nix daemon children
    MaxSessions,  \* const MAX_SESSIONS
    BacklogMax    \* how many connections the kernel queues for accept

ASSUME MaxSessionsAssumption == MaxSessions \in Nat \ {0}
ASSUME BacklogAssumption     == BacklogMax \in Nat \ {0}

VARIABLES
    acceptor,  \* where the accept loop is
    permits,   \* permits left in the semaphore
    backlog,   \* connections waiting in the kernel queue, oldest first
    phase,     \* what each guest connection is doing
    armed,     \* on_first_accept has not been taken yet
    named      \* the listening socket still has its host-side name

vars == <<acceptor, permits, backlog, phase, armed, named>>

-----------------------------------------------------------------------------
Phases == {"outside", "queued", "magic", "relay", "filling"}

InPhases(P) == {c \in Clients : phase[c] \in P}

\* The session tasks that run: each owns a permit and a guest descriptor.
Running == InPhases({"magic", "relay", "filling"})

\* The accept loop holds a permit from acquire until it hands it to a
\* session, or drops it at the end of the failed iteration.
Held == IF acceptor = "acquire" THEN 0 ELSE 1

\* Connections open on the host daemon: one per dialled session and one
\* more per running fill.
HostConns == Cardinality(InPhases({"relay", "filling"}))
               + Cardinality(InPhases({"filling"}))

Init ==
    /\ acceptor = "acquire"
    /\ permits = MaxSessions
    /\ backlog = <<>>
    /\ phase = [c \in Clients |-> "outside"]
    /\ armed = TRUE
    /\ named = TRUE

-----------------------------------------------------------------------------
(* The guest: connects through the bind mount, which outlives the name.    *)

Connect(c) ==
    /\ phase[c] = "outside"
    /\ Len(backlog) < BacklogMax
    /\ phase' = [phase EXCEPT ![c] = "queued"]
    /\ backlog' = Append(backlog, c)
    /\ UNCHANGED <<acceptor, permits, armed, named>>

-----------------------------------------------------------------------------
(* The accept loop.                                                        *)

\* A mutant: accept first, and queue for the permit afterwards.
AcquireNothing ==
    /\ acceptor = "acquire"
    /\ acceptor' = "accept"
    /\ UNCHANGED <<permits, backlog, phase, armed, named>>

Acquire ==
    /\ acceptor = "acquire"
    /\ permits > 0
    /\ permits' = permits - 1
    /\ acceptor' = "accept"
    /\ UNCHANGED <<backlog, phase, armed, named>>

\* accept() succeeds: the hook runs if it is still there, and the permit
\* moves into the spawned session.
Accept ==
    /\ acceptor = "accept"
    /\ backlog # <<>>
    /\ phase' = [phase EXCEPT ![Head(backlog)] = "magic"]
    /\ backlog' = Tail(backlog)
    /\ armed' = FALSE
    /\ named' = IF armed THEN FALSE ELSE named
    /\ acceptor' = "acquire"
    /\ UNCHANGED permits

\* A mutant: the error path consumes the hook without running it.
AcceptErrorTakesHook ==
    /\ acceptor = "accept"
    /\ backlog # <<>>
    /\ acceptor' = "sleep"
    /\ armed' = FALSE
    /\ UNCHANGED <<permits, backlog, phase, named>>

\* A mutant: serve() returns its first accept error.
AcceptErrorFatal ==
    /\ acceptor = "accept"
    /\ backlog # <<>>
    /\ acceptor' = "dead"
    /\ UNCHANGED <<permits, backlog, phase, armed, named>>

\* accept() fails (EMFILE): the loop sleeps, still holding the permit.
AcceptError ==
    /\ acceptor = "accept"
    /\ backlog # <<>>
    /\ acceptor' = "sleep"
    /\ UNCHANGED <<permits, backlog, phase, armed, named>>

\* A mutant: the permit of a failed iteration is forgotten.
WakeLeaksPermit ==
    /\ acceptor = "sleep"
    /\ acceptor' = "acquire"
    /\ UNCHANGED <<permits, backlog, phase, armed, named>>

\* The sleep ends and `continue` drops the permit.
Wake ==
    /\ acceptor = "sleep"
    /\ acceptor' = "acquire"
    /\ permits' = permits + 1
    /\ UNCHANGED <<backlog, phase, armed, named>>

-----------------------------------------------------------------------------
(* The sessions.                                                           *)

\* The guest's magic is good: the session dials the host daemon.
DialHost(c) ==
    /\ phase[c] = "magic"
    /\ phase' = [phase EXCEPT ![c] = "relay"]
    /\ UNCHANGED <<acceptor, permits, backlog, armed, named>>

\* ensure_path: a fresh host daemon connection next to the session's own.
FillDial(c) ==
    /\ phase[c] = "relay"
    /\ phase' = [phase EXCEPT ![c] = "filling"]
    /\ UNCHANGED <<acceptor, permits, backlog, armed, named>>

\* The fill succeeded or failed: its connection is dropped, the session
\* goes on.
FillDone(c) ==
    /\ phase[c] = "filling"
    /\ phase' = [phase EXCEPT ![c] = "relay"]
    /\ UNCHANGED <<acceptor, permits, backlog, armed, named>>

\* The relay future ends, closing its connections, and drops the permit.
Finish(c) ==
    /\ phase' = [phase EXCEPT ![c] = "outside"]
    /\ permits' = permits + 1
    /\ UNCHANGED <<acceptor, backlog, armed, named>>

\* A mutant: a guest that sends no magic is waited for.
MagicNeverTimesOut(c) == FALSE /\ Finish(c)

\* No magic within HANDSHAKE_TIMEOUT, a wrong one, or the dial failed.
MagicFails(c) == phase[c] = "magic" /\ Finish(c)

\* The guest hangs up, or a protocol violation or a timeout kills the
\* session.  A running fill is awaited first, so this leaves from "relay".
RelayEnds(c) == phase[c] = "relay" /\ Finish(c)

SessionStep(c) ==
    \/ DialHost(c)
    \/ MagicFails(c)
    \/ FillDial(c)
    \/ FillDone(c)
    \/ RelayEnds(c)

Next ==
    \/ Acquire
    \/ Accept
    \/ AcceptError
    \/ Wake
    \/ \E c \in Clients : Connect(c) \/ SessionStep(c)

(* Fairness.  The loop is a task the runtime keeps polling.  The comment   *)
(* at the error path calls accept errors transient: a connection that is   *)
(* retried forever is accepted in the end, which is strong fairness of     *)
(* Accept, since every error disables it for a while.  A session waits for *)
(* the guest's magic at most 60 s.  Nothing else in a session is fair: an  *)
(* idle pooled connection keeps its permit for as long as the guest likes. *)
Fairness ==
    /\ WF_vars(Acquire)
    /\ SF_vars(Accept)
    /\ WF_vars(Wake)
    /\ \A c \in Clients : WF_vars(MagicFails(c))

Spec == Init /\ [][Next]_vars /\ Fairness

-----------------------------------------------------------------------------
(* Properties.                                                             *)

TypeOK ==
    /\ acceptor \in {"acquire", "accept", "sleep"}
    /\ permits \in 0..MaxSessions
    /\ backlog \in Seq(Clients)
    /\ phase \in [Clients -> Phases]
    /\ armed \in BOOLEAN
    /\ named \in BOOLEAN

\* No permit is lost or invented, whatever mixture of accept errors, failed
\* handshakes and finished sessions the loop goes through: at every moment
\* the semaphore, the accept loop and the running sessions together own
\* exactly MaxSessions permits.
PermitsConserved == permits + Held + Cardinality(Running) = MaxSessions

\* The descriptors the proxy spends on connections are bounded however many
\* guests connect: one per guest, one per relayed host connection, one per
\* fill.  The host daemon forks at most 2 * MaxSessions children for them.
DescriptorsBounded ==
    /\ HostConns <= 2 * MaxSessions
    /\ Cardinality(Running) + HostConns <= 3 * MaxSessions

\* What the comment on MAX_SESSIONS says: the session cap is also a cap on
\* host daemon connections.  It is not, see the README.
SessionCapIsHostCap == HostConns <= MaxSessions

\* A session only ever runs once the listening socket has lost its
\* host-side name: no accept error on the way may swallow the hook.
NameGoneWhenServing == Running # {} => ~named

\* The socket is unlinked only by a step that accepts a connection, the
\* proof that the container's bind mount pins the inode.
UnlinkProvesMount ==
    [][named # named' =>
         \E c \in Clients : phase[c] = "queued" /\ phase'[c] = "magic"]_vars

\* Accept errors never stop the loop: if slots keep becoming free, every
\* queued connection is accepted.
QueueServedWhileSlotsRecur ==
    []<>(Cardinality(Running) < MaxSessions) =>
        \A c \in Clients : phase[c] = "queued" ~> phase[c] # "queued"

\* Clients that connect and never send their magic cannot starve the queue:
\* while no session gets past the magic, every queued connection is
\* accepted, with no help from any guest.
StallersDoNotStarve ==
    [](\A c \in Clients : phase[c] \notin {"relay", "filling"}) =>
        \A c \in Clients : phase[c] = "queued" ~> phase[c] = "magic"
=============================================================================
