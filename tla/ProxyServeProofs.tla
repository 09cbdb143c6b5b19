-------------------------- MODULE ProxyServeProofs --------------------------
(***************************************************************************)
(* Proofs about the proxy as a process.  First its accept loop, for any    *)
(* number of clients, any session cap and any backlog; then its life       *)
(* beside the launcher's, for any number of runs that get the same pid.    *)
(***************************************************************************)
EXTENDS ProxyServe, ProxyLifecycle, FiniteSetTheorems, TLAPS

-----------------------------------------------------------------------------
(* The accept loop.                                                        *)

\* The kernel queue holds exactly clients that are queued, each once.
BacklogExact ==
    /\ \A i \in DOMAIN backlog : phase[backlog[i]] = "queued"
    /\ \A i, j \in DOMAIN backlog : backlog[i] = backlog[j] => i = j

\* The inductive invariant: a step that starts or ends a session moves one
\* permit only because the client it concerns is not, or is, running; that
\* the queue says of the clients in it.
IInv ==
    /\ TypeOK
    /\ BacklogExact
    /\ IsFiniteSet(Running)
    /\ PermitsConserved
    /\ named <=> armed
    /\ Running # {} => ~armed

-----------------------------------------------------------------------------
\* A client that leaves no running phase is added to the running sessions.
LEMMA RunningGrows ==
    ASSUME TypeOK, IsFiniteSet(Running), NEW c \in Clients,
           phase[c] \notin {"magic", "relay", "filling"},
           phase' = [phase EXCEPT ![c] = "magic"]
    PROVE  /\ IsFiniteSet(Running')
           /\ Cardinality(Running') = Cardinality(Running) + 1
<1>1. Running' = Running \union {c} /\ c \notin Running
    BY DEF Running, InPhases, TypeOK
<1> QED BY <1>1, FS_AddElement

\* A running client that goes outside is taken from them.
LEMMA RunningShrinks ==
    ASSUME TypeOK, IsFiniteSet(Running), NEW c \in Clients,
           phase[c] \in {"magic", "relay", "filling"},
           phase' = [phase EXCEPT ![c] = "outside"]
    PROVE  /\ IsFiniteSet(Running')
           /\ Cardinality(Running') = Cardinality(Running) - 1
           /\ Cardinality(Running) > 0
<1>1. Running' = Running \ {c} /\ c \in Running
    BY DEF Running, InPhases, TypeOK
<1>2. Cardinality(Running) \in Nat /\ Running # {}
    BY <1>1, FS_CardinalityType
<1>3. Cardinality(Running) > 0
    BY <1>2, FS_EmptySet
<1> QED BY <1>1, <1>3, FS_RemoveElement

\* A change between two phases on the same side changes nothing.
LEMMA RunningStays ==
    ASSUME TypeOK, NEW c \in Clients, NEW q \in Phases,
           phase[c] \in {"magic", "relay", "filling"}
               <=> q \in {"magic", "relay", "filling"},
           phase' = [phase EXCEPT ![c] = q]
    PROVE  Running' = Running
BY DEF Running, InPhases, TypeOK, Phases

-----------------------------------------------------------------------------
LEMMA InitIInv == Init => IInv
<1> SUFFICES ASSUME Init PROVE IInv
    OBVIOUS
<1>1. Running = {}
    BY DEF Init, Running, InPhases
<1>2. IsFiniteSet(Running) /\ Cardinality(Running) = 0
    BY <1>1, FS_EmptySet
<1>3. TypeOK
    BY MaxSessionsAssumption DEF Init, TypeOK, Phases
<1>4. BacklogExact
    BY DEF Init, BacklogExact
<1> QED
    BY <1>1, <1>2, <1>3, <1>4, MaxSessionsAssumption
    DEF Init, IInv, PermitsConserved, Held

LEMMA NextIInv == IInv /\ [Next]_vars => IInv'
<1> SUFFICES ASSUME IInv, [Next]_vars PROVE IInv'
    OBVIOUS
<1> USE MaxSessionsAssumption
<1>0. TypeOK /\ Cardinality(Running) \in Nat
    BY FS_CardinalityType DEF IInv
<1>1. CASE Acquire
    <2>1. Running' = Running
        BY <1>1 DEF Acquire, Running, InPhases
    <2>2. TypeOK'
        BY <1>0, <1>1 DEF TypeOK, Acquire
    <2>3. BacklogExact'
        BY <1>1 DEF IInv, BacklogExact, Acquire
    <2>4. PermitsConserved'
        BY <1>0, <1>1, <2>1 DEF IInv, TypeOK, PermitsConserved, Held, Acquire
    <2> QED BY <1>1, <2>1, <2>2, <2>3, <2>4 DEF IInv, Acquire
<1>2. CASE Accept
    <2> DEFINE c == Head(backlog)
    <2>1. c \in Clients /\ phase[c] = "queued" /\ backlog \in Seq(Clients) /\ backlog # <<>>
        BY <1>0, <1>2 DEF IInv, TypeOK, BacklogExact, Accept
    <2>2. phase' = [phase EXCEPT ![c] = "magic"] /\ backlog' = Tail(backlog)
        BY <1>2 DEF Accept
    <2>3. IsFiniteSet(Running') /\ Cardinality(Running') = Cardinality(Running) + 1
        BY <1>0, <2>1, <2>2, RunningGrows DEF IInv
    <2>7. named' = FALSE /\ armed' = FALSE
        BY <1>0, <1>2 DEF IInv, TypeOK, Accept
    <2>4. TypeOK'
        <3> HIDE DEF c
        <3>1. phase' \in [Clients -> Phases]
            BY <1>0, <2>2 DEF TypeOK, Phases
        <3>2. backlog' \in Seq(Clients)
            BY <2>1, <2>2
        <3>3. permits' \in 0..MaxSessions /\ acceptor' = "acquire"
            BY <1>0, <1>2 DEF TypeOK, Accept
        <3> QED BY <2>7, <3>1, <3>2, <3>3 DEF TypeOK
    <2>5. BacklogExact'
        <3>1. \A i \in DOMAIN Tail(backlog) :
                 i + 1 \in DOMAIN backlog /\ i + 1 # 1 /\ Tail(backlog)[i] = backlog[i + 1]
            BY <2>1
        <3>2. \A i \in DOMAIN Tail(backlog) :
                 backlog[i + 1] # c /\ backlog[i + 1] \in Clients
            BY <2>1, <3>1 DEF IInv, BacklogExact
        <3>3. \A i \in DOMAIN backlog' : phase'[backlog'[i]] = "queued"
            BY <1>0, <2>2, <3>1, <3>2 DEF IInv, BacklogExact, TypeOK
        <3>4. \A i, j \in DOMAIN backlog' : backlog'[i] = backlog'[j] => i = j
            <4> SUFFICES ASSUME NEW i \in DOMAIN backlog', NEW j \in DOMAIN backlog',
                                backlog'[i] = backlog'[j]
                         PROVE  i = j
                OBVIOUS
            <4>1. i + 1 \in DOMAIN backlog /\ j + 1 \in DOMAIN backlog
                    /\ backlog[i + 1] = backlog[j + 1]
                BY <2>2, <3>1
            <4>2. i + 1 = j + 1
                BY <4>1 DEF IInv, BacklogExact
            <4>3. i \in Nat /\ j \in Nat
                BY <2>1, <2>2
            <4> QED BY <4>2, <4>3
        <3> QED BY <3>3, <3>4 DEF BacklogExact
    <2>6. PermitsConserved'
        BY <1>0, <1>2, <2>3 DEF IInv, TypeOK, PermitsConserved, Held, Accept
    <2> QED BY <2>3, <2>4, <2>5, <2>6, <2>7 DEF IInv
<1>3. CASE AcceptError \/ Wake
    <2>1. Running' = Running
        BY <1>3 DEF AcceptError, Wake, Running, InPhases
    <2>2. PermitsConserved'
        BY <1>0, <1>3, <2>1
        DEF IInv, TypeOK, PermitsConserved, Held, AcceptError, Wake
    <2>3. TypeOK'
        BY <1>0, <1>3, <2>1, <2>2
        DEF IInv, TypeOK, PermitsConserved, Held, AcceptError, Wake
    <2>4. BacklogExact'
        BY <1>3 DEF IInv, BacklogExact, AcceptError, Wake
    <2> QED BY <1>3, <2>1, <2>2, <2>3, <2>4 DEF IInv, AcceptError, Wake
<1>4. ASSUME NEW c \in Clients, Connect(c)
      PROVE  IInv'
    <2>1. phase' = [phase EXCEPT ![c] = "queued"] /\ phase[c] = "outside"
            /\ backlog' = Append(backlog, c)
        BY <1>4 DEF Connect
    <2>2. Running' = Running
        BY <1>0, <2>1, RunningStays DEF Phases
    <2>3. TypeOK'
        BY <1>0, <1>4, <2>1 DEF TypeOK, Connect, Phases
    <2>4. BacklogExact'
        <3>1. backlog \in Seq(Clients)
            BY <1>0 DEF TypeOK
        <3>2. /\ Len(backlog) \in Nat
              /\ DOMAIN backlog = 1..Len(backlog)
              /\ DOMAIN backlog' = 1..(Len(backlog) + 1)
              /\ backlog'[Len(backlog) + 1] = c
              /\ \A i \in 1..Len(backlog) : backlog'[i] = backlog[i]
            BY <2>1, <3>1
        <3>3. \A i \in 1..Len(backlog) :
                 backlog[i] # c /\ backlog[i] \in Clients /\ phase'[backlog[i]] = "queued"
            BY <1>0, <2>1, <3>1, <3>2 DEF IInv, BacklogExact, TypeOK
        <3>4. phase'[c] = "queued"
            BY <1>0, <2>1 DEF TypeOK
        <3>5. \A i \in DOMAIN backlog' : phase'[backlog'[i]] = "queued"
            BY <3>2, <3>3, <3>4
        <3>6. \A i, j \in 1..Len(backlog) : backlog[i] = backlog[j] => i = j
            BY <3>2 DEF IInv, BacklogExact
        <3>7. \A i, j \in DOMAIN backlog' : backlog'[i] = backlog'[j] => i = j
            BY <3>2, <3>3, <3>6
        <3> QED BY <3>5, <3>7 DEF BacklogExact
    <2>5. PermitsConserved'
        BY <1>4, <2>2 DEF IInv, PermitsConserved, Held, Connect
    <2> QED BY <1>4, <2>2, <2>3, <2>4, <2>5 DEF IInv, Connect
<1>5. ASSUME NEW c \in Clients, SessionStep(c)
      PROVE  IInv'
    <2>0. backlog' = backlog /\ acceptor' = acceptor /\ armed' = armed /\ named' = named
            /\ phase[c] \in {"magic", "relay", "filling"}
        BY <1>5 DEF SessionStep, DialHost, MagicFails, FillDial, FillDone, RelayEnds, Finish
    <2>1. \A q : phase' = [phase EXCEPT ![c] = q] => BacklogExact'
        <3> SUFFICES ASSUME NEW q, phase' = [phase EXCEPT ![c] = q]
                     PROVE  BacklogExact'
            OBVIOUS
        <3>1. \A i \in DOMAIN backlog : backlog[i] # c /\ backlog[i] \in Clients
            BY <1>0, <2>0 DEF IInv, BacklogExact, TypeOK
        <3> QED BY <1>0, <2>0, <3>1 DEF IInv, BacklogExact, TypeOK
    <2>2. CASE DialHost(c) \/ FillDial(c) \/ FillDone(c)
        <3>1. PICK q \in {"relay", "filling"} :
                 phase' = [phase EXCEPT ![c] = q] /\ permits' = permits
            BY <2>2 DEF DialHost, FillDial, FillDone
        <3>2. Running' = Running
            BY <1>0, <2>0, <3>1, RunningStays DEF Phases
        <3>3. TypeOK'
            BY <1>0, <2>0, <3>1 DEF TypeOK, Phases
        <3>4. PermitsConserved'
            BY <2>0, <3>1, <3>2 DEF IInv, PermitsConserved, Held
        <3> QED BY <2>0, <2>1, <3>1, <3>2, <3>3, <3>4 DEF IInv
    <2>3. CASE MagicFails(c) \/ RelayEnds(c)
        <3>1. phase' = [phase EXCEPT ![c] = "outside"] /\ permits' = permits + 1
            BY <2>3 DEF MagicFails, RelayEnds, Finish
        <3>2. /\ IsFiniteSet(Running')
              /\ Cardinality(Running') = Cardinality(Running) - 1
              /\ Cardinality(Running) > 0
            BY <1>0, <2>0, <3>1, RunningShrinks DEF IInv
        <3>3. PermitsConserved' /\ permits' \in 0..MaxSessions
            BY <1>0, <2>0, <3>1, <3>2 DEF IInv, TypeOK, PermitsConserved, Held
        <3>4. TypeOK'
            BY <1>0, <2>0, <3>1, <3>3 DEF TypeOK, Phases
        <3>5. Running' # {} => Running # {}
            BY <1>0, <3>2, FS_EmptySet
        <3> QED BY <2>0, <2>1, <3>1, <3>2, <3>3, <3>4, <3>5 DEF IInv
    <2> QED BY <1>5, <2>2, <2>3 DEF SessionStep
<1>6. CASE UNCHANGED vars
    BY <1>6 DEF vars, IInv, TypeOK, BacklogExact, PermitsConserved, Held, Running, InPhases
<1> QED BY <1>1, <1>2, <1>3, <1>4, <1>5, <1>6 DEF Next

-----------------------------------------------------------------------------
\* Every state of the accept loop satisfies the inductive invariant.
THEOREM ServeInvariant == Spec => []IInv
BY InitIInv, NextIInv, PTL DEF Spec

\* The types of the accept loop's variables.
THEOREM ServeTypeOK == Spec => []TypeOK
<1>1. IInv => TypeOK
    BY DEF IInv
<1> QED BY <1>1, ServeInvariant, PTL

\* No permit is lost or invented by accept errors, failed handshakes and
\* finished sessions, for any number of clients and any session cap.
THEOREM ServePermitsConserved == Spec => []PermitsConserved
<1>1. IInv => PermitsConserved
    BY DEF IInv
<1> QED BY <1>1, ServeInvariant, PTL

\* The host daemon connections are at most two per permit, and all
\* descriptors at most three, however many guests connect.
THEOREM ServeDescriptorsBounded == Spec => []DescriptorsBounded
<1>1. ASSUME IInv PROVE DescriptorsBounded
    <2> DEFINE dialled == InPhases({"relay", "filling"})
               filling == InPhases({"filling"})
    <2>1. dialled \subseteq Running /\ filling \subseteq Running
        BY DEF Running, InPhases
    <2>2. /\ Cardinality(dialled) \in Nat /\ Cardinality(dialled) <= Cardinality(Running)
          /\ Cardinality(filling) \in Nat /\ Cardinality(filling) <= Cardinality(Running)
          /\ Cardinality(Running) \in Nat
        BY <1>1, <2>1, FS_Subset, FS_CardinalityType DEF IInv
    <2>3. Cardinality(Running) <= MaxSessions
        BY <1>1, <2>2, MaxSessionsAssumption DEF IInv, TypeOK, PermitsConserved, Held
    <2> HIDE DEF dialled, filling
    <2>4. HostConns = Cardinality(dialled) + Cardinality(filling)
        BY DEF HostConns, dialled, filling
    <2> QED BY <2>2, <2>3, <2>4, MaxSessionsAssumption DEF DescriptorsBounded
<1>2. IInv => DescriptorsBounded
    BY <1>1
<1> QED BY <1>2, ServeInvariant, PTL

\* Once any session runs the socket has lost its name, whatever accept
\* errors came before.
THEOREM ServeNameGone == Spec => []NameGoneWhenServing
<1>1. IInv => NameGoneWhenServing
    BY DEF IInv, NameGoneWhenServing
<1> QED BY <1>1, ServeInvariant, PTL

\* The step that unlinks the socket is a step that accepts a connection.
THEOREM ServeUnlinkProvesMount == Spec => UnlinkProvesMount
<1>1. IInv /\ [Next]_vars =>
        [named # named' => \E c \in Clients : phase[c] = "queued" /\ phase'[c] = "magic"]_vars
    <2> SUFFICES ASSUME IInv, Next, named # named'
                 PROVE  \E c \in Clients : phase[c] = "queued" /\ phase'[c] = "magic"
        BY DEF vars
    <2>1. Accept
        BY DEF Next, Acquire, AcceptError, Wake, Connect, SessionStep, DialHost,
               MagicFails, FillDial, FillDone, RelayEnds, Finish
    <2>2. /\ Head(backlog) \in Clients
          /\ phase[Head(backlog)] = "queued"
        BY <2>1 DEF Accept, IInv, TypeOK, BacklogExact
    <2>3. phase'[Head(backlog)] = "magic"
        BY <2>1, <2>2 DEF Accept, IInv, TypeOK
    <2> QED BY <2>2, <2>3
<1> QED BY <1>1, ServeInvariant, PTL DEF Spec, UnlinkProvesMount

-----------------------------------------------------------------------------
(* The lives of launcher and proxy.                                        *)

\* Only the last of the runs has a process with the pid.
OneParent ==
    \A r, q \in Runs : q < r /\ parent[r] # "none" => parent[q] = "gone"

LifeInv ==
    /\ LifeTypeOK
    /\ OneParent
    /\ NoUnsignalledOrphan
    /\ StaleNameNeverBlocks

\* With pids that come again only after the proxy has left: no proxy but
\* the last run's can still remove the name.
Quiet ==
    /\ ~reuse => \A r, q \in Runs : q < r /\ parent[r] # "none" => proxy[q] \in {"none", "gone"}
    /\ SocketThereToMount

-----------------------------------------------------------------------------
\* Two runs are one, or one comes before the other.
LEMMA RunsOrdered == \A r, q \in Runs : r = q \/ r < q \/ q < r
BY DEF Runs

\* Every step is a step of one run.
LEMMA StepsOfARun ==
    ASSUME LifeNext, lives' # lives
    PROVE  \E r \in Runs : ParentStep(r) \/ ProxyStep(r) \/ FirstAccept(r) \/ Kill(r)
BY DEF LifeNext, AllOver, lives

LEMMA LifeInitOK == LifeInit => LifeInv /\ Quiet
BY DEF LifeInit, LifeInv, LifeTypeOK, OneParent, NoUnsignalledOrphan, StaleNameNeverBlocks, Quiet,
    SocketThereToMount, ParentPlaces, ProxyPlaces

\* A step of the launcher or of podman.
LEMMA ParentKeeps ==
    ASSUME LifeInv, NEW r \in Runs, ParentStep(r)
    PROVE  LifeInv'
<1>0. UNCHANGED reuse
    BY DEF ParentStep
<1> USE <1>0 DEF LifeInv
<1>1. CASE Launch(r)
    BY <1>1, RunsOrdered
    DEF Launch, ParentGoes, LifeTypeOK, OneParent, NoUnsignalledOrphan, StaleNameNeverBlocks,
        ParentPlaces
<1>2. CASE RemoveStale(r)
    BY <1>2, RunsOrdered
    DEF RemoveStale, ParentGoes, LifeTypeOK, OneParent, NoUnsignalledOrphan,
        StaleNameNeverBlocks, ParentPlaces
<1>3. CASE Bind(r)
    BY <1>3, RunsOrdered
    DEF Bind, ParentGoes, LifeTypeOK, OneParent, NoUnsignalledOrphan, StaleNameNeverBlocks,
        ParentPlaces
<1>4. CASE Spawn(r)
    BY <1>4, RunsOrdered
    DEF Spawn, ParentGoes, LifeTypeOK, OneParent, NoUnsignalledOrphan, StaleNameNeverBlocks,
        ParentPlaces, ProxyPlaces
<1>5. CASE Exec(r) \/ Mount(r)
    BY <1>5, RunsOrdered
    DEF Exec, Mount, ParentGoes, LifeTypeOK, OneParent, NoUnsignalledOrphan,
        StaleNameNeverBlocks, ParentPlaces
<1>6. CASE ParentEnds(r)
    BY <1>6, RunsOrdered
    DEF ParentEnds, ParentDies, ParentAlive, Watching, LifeTypeOK, OneParent,
        NoUnsignalledOrphan, StaleNameNeverBlocks, ParentPlaces
<1>7. CASE Interrupt(r)
    <2>1. CASE proxy[r] = "boot"
        <3>1. /\ parent' = [parent EXCEPT ![r] = "gone"]
              /\ proxy' = [proxy EXCEPT ![r] = "gone"]
              /\ killed' = [killed EXCEPT ![r] = TRUE]
              /\ UNCHANGED <<signal, name, hook>>
              /\ parent[r] # "none"
            BY <1>7, <2>1 DEF Interrupt
        <3>2. LifeTypeOK'
            BY <3>1 DEF LifeTypeOK, ParentPlaces, ProxyPlaces
        <3>3. OneParent' /\ StaleNameNeverBlocks'
            BY <2>1, <3>1 DEF OneParent, StaleNameNeverBlocks, LifeTypeOK
        <3>4. NoUnsignalledOrphan'
            BY <2>1, <3>1 DEF NoUnsignalledOrphan, LifeTypeOK
        <3> QED BY <3>2, <3>3, <3>4
    <2>2. CASE proxy[r] # "boot"
        <3>1. /\ parent' = [parent EXCEPT ![r] = "gone"]
              /\ signal' = [signal EXCEPT ![r] = signal[r] \/ ProxyAlive(r)]
              /\ UNCHANGED <<proxy, killed, name, hook>>
              /\ parent[r] # "none"
            BY <1>7, <2>2 DEF Interrupt
        <3>2. (signal[r] \/ ProxyAlive(r)) \in BOOLEAN
            BY DEF ProxyAlive, LifeTypeOK
        <3>3. LifeTypeOK'
            BY <3>1, <3>2 DEF LifeTypeOK, ParentPlaces
        <3>4. OneParent' /\ StaleNameNeverBlocks'
            BY <3>1 DEF OneParent, StaleNameNeverBlocks, LifeTypeOK
        <3>5. NoUnsignalledOrphan'
            BY <3>1, <3>2 DEF NoUnsignalledOrphan, ProxyAlive, LifeTypeOK
        <3> QED BY <3>3, <3>4, <3>5
    <2> QED BY <2>1, <2>2
<1> QED BY <1>1, <1>2, <1>3, <1>4, <1>5, <1>6, <1>7 DEF ParentStep

\* A step of the proxy, or its end.
LEMMA ProxyKeeps ==
    ASSUME LifeInv, NEW r \in Runs, ProxyStep(r) \/ FirstAccept(r) \/ Kill(r)
    PROVE  LifeInv'
<1>0. UNCHANGED reuse
    BY DEF ProxyStep, FirstAccept, Kill
<1> USE <1>0 DEF LifeInv
<1>1. CASE InstallHandlers(r) \/ SetPdeathsig(r)
    BY <1>1
    DEF InstallHandlers, SetPdeathsig, ProxyGoes, LifeTypeOK, OneParent, NoUnsignalledOrphan,
        StaleNameNeverBlocks, ProxyPlaces
<1>2. CASE CheckParent(r)
    BY <1>2
    DEF CheckParent, ParentAlive, ProxyGoes, LifeTypeOK, OneParent, NoUnsignalledOrphan,
        StaleNameNeverBlocks, ProxyPlaces
<1>3. CASE StartServing(r) \/ TakeSignal(r)
    BY <1>3
    DEF StartServing, TakeSignal, ProxyGoes, LifeTypeOK, OneParent, NoUnsignalledOrphan,
        StaleNameNeverBlocks, ProxyPlaces
<1>4. CASE Leave(r) \/ FirstAccept(r)
    BY <1>4
    DEF Leave, FirstAccept, ProxyGoes, LifeTypeOK, OneParent, NoUnsignalledOrphan,
        StaleNameNeverBlocks, ProxyPlaces
<1>5. CASE Kill(r)
    BY <1>5
    DEF Kill, ProxyAlive, LifeTypeOK, OneParent, NoUnsignalledOrphan, StaleNameNeverBlocks,
        ProxyPlaces
<1> QED BY <1>1, <1>2, <1>3, <1>4, <1>5 DEF ProxyStep

LEMMA LifeNextOK == LifeInv /\ [LifeNext]_lives => LifeInv'
<1> SUFFICES ASSUME LifeInv, [LifeNext]_lives PROVE LifeInv'
    OBVIOUS
<1>1. CASE UNCHANGED lives
    BY <1>1
    DEF LifeInv, LifeTypeOK, OneParent, NoUnsignalledOrphan, StaleNameNeverBlocks, lives
<1>2. CASE LifeNext /\ lives' # lives
    BY <1>2, StepsOfARun, ParentKeeps, ProxyKeeps
<1> QED BY <1>1, <1>2

\* No name is removed under a run that still has to mount it.
LEMMA LifeNextQuiet == LifeInv /\ Quiet /\ [LifeNext]_lives => Quiet'
<1> SUFFICES ASSUME LifeInv, Quiet, [LifeNext]_lives PROVE Quiet'
    OBVIOUS
<1> USE DEF LifeInv
<1>1. CASE UNCHANGED lives
    BY <1>1 DEF Quiet, SocketThereToMount, lives
<1>2. ASSUME NEW r \in Runs, ParentStep(r) PROVE Quiet'
    <2>0. UNCHANGED reuse
        BY <1>2 DEF ParentStep
    <2> USE <2>0
    <2>1. CASE Launch(r)
        BY <2>1, RunsOrdered
        DEF Launch, ParentGoes, ProxyAlive, LifeTypeOK, OneParent, Quiet, SocketThereToMount
    <2>2. CASE RemoveStale(r) \/ Bind(r)
        BY <2>2, RunsOrdered
        DEF RemoveStale, Bind, ParentGoes, LifeTypeOK, OneParent, Quiet, SocketThereToMount
    <2>3. CASE Spawn(r) \/ Exec(r) \/ Mount(r)
        BY <2>3, RunsOrdered
        DEF Spawn, Exec, Mount, ParentGoes, LifeTypeOK, OneParent, Quiet, SocketThereToMount
    <2>4. CASE ParentEnds(r) \/ Interrupt(r)
        BY <2>4, RunsOrdered
        DEF ParentEnds, ParentDies, ParentAlive, Interrupt, LifeTypeOK, OneParent, Quiet,
            SocketThereToMount
    <2> QED BY <1>2, <2>1, <2>2, <2>3, <2>4 DEF ParentStep
<1>3. ASSUME NEW r \in Runs, ProxyStep(r) \/ FirstAccept(r) \/ Kill(r) PROVE Quiet'
    <2>0. UNCHANGED reuse
        BY <1>3 DEF ProxyStep, FirstAccept, Kill
    <2> USE <2>0
    <2>1. CASE InstallHandlers(r) \/ SetPdeathsig(r) \/ CheckParent(r) \/ StartServing(r)
                \/ TakeSignal(r) \/ Kill(r)
        BY <2>1
        DEF InstallHandlers, SetPdeathsig, CheckParent, StartServing, TakeSignal, Kill,
            ProxyGoes, ProxyAlive, LifeTypeOK, OneParent, Quiet, SocketThereToMount
    <2>2. CASE Leave(r) \/ FirstAccept(r)
        BY <2>2, RunsOrdered
        DEF Leave, FirstAccept, ProxyGoes, LifeTypeOK, OneParent, Quiet, SocketThereToMount
    <2> QED BY <1>3, <2>1, <2>2 DEF ProxyStep
<1>4. CASE LifeNext /\ lives' # lives
    BY <1>2, <1>3, <1>4, StepsOfARun
<1> QED BY <1>1, <1>4

-----------------------------------------------------------------------------
THEOREM LifecycleInvariant == LifeSpec => []LifeInv
<1> QED BY LifeInitOK, LifeNextOK, PTL DEF LifeSpec

\* The variables keep their types, and no proxy comes before its socket is
\* bound (claudepod-start.rs, spawn_nix_proxy).
THEOREM LifecycleTypeOK == LifeSpec => []LifeTypeOK
<1>1. LifeInv => LifeTypeOK
    BY DEF LifeInv
<1> QED BY <1>1, LifecycleInvariant, PTL

\* The parent's death is never missed (claudepod-nix-proxy.rs, run): the
\* signal or the getppid check sees it, whichever step it falls between.
THEOREM LifecycleNoUnsignalledOrphan == LifeSpec => []NoUnsignalledOrphan
<1>1. LifeInv => NoUnsignalledOrphan
    BY DEF LifeInv
<1> QED BY <1>1, LifecycleInvariant, PTL

\* After the stale name is removed nothing but the own bind makes a new one
\* (claudepod-start.rs, spawn_nix_proxy).
THEOREM LifecycleStaleNameNeverBlocks == LifeSpec => []StaleNameNeverBlocks
<1>1. LifeInv => StaleNameNeverBlocks
    BY DEF LifeInv
<1> QED BY <1>1, LifecycleInvariant, PTL

\* podman finds the socket to mount, provided that a pid does not come again
\* before the proxy that was named after it has left.
THEOREM LifecycleSocketThereToMount == LifeSpec => []SocketThereToMount
<1>1. LifeInit => LifeInv /\ Quiet
    BY LifeInitOK
<1>2. (LifeInv /\ Quiet) /\ [LifeNext]_lives => (LifeInv /\ Quiet)'
    BY LifeNextOK, LifeNextQuiet
<1>3. LifeInv /\ Quiet => SocketThereToMount
    BY DEF Quiet
<1> QED BY <1>1, <1>2, <1>3, PTL DEF LifeSpec
=============================================================================
