--------------------------- MODULE ProxyLifecycle ---------------------------
(***************************************************************************)
(* The lives of the launcher and of the proxy it spawns, and the name of   *)
(* the socket between them (src/src/bin/claudepod-start.rs,                *)
(* src/src/bin/claudepod-nix-proxy.rs).                                    *)
(*                                                                         *)
(* The launcher binds the socket under a name made of its own pid, spawns  *)
(* the proxy with the listener, and execs podman, which keeps the pid and  *)
(* bind-mounts the socket into the container.  The proxy removes the name  *)
(* on its first accepted connection and again when it ends.  It ends with  *)
(* its parent: PR_SET_PDEATHSIG sends it SIGTERM when the process with     *)
(* that pid dies.                                                          *)
(*                                                                         *)
(* The runs here are the successive ones that get the same pid, hence the  *)
(* same name.  A run's launcher may fail anywhere, a terminal's interrupt  *)
(* hits launcher and proxy together, and the proxy may be killed.          *)
(***************************************************************************)
EXTENDS Naturals

CONSTANT MaxRuns    \* bound: runs that get the same pid

ASSUME MaxRunsAssumption == MaxRuns \in Nat \ {0}

Runs == 1..MaxRuns

VARIABLES
    reuse,    \* chosen once: a pid may come again while the proxy of the
              \* run that had it before is still leaving
    parent,   \* the process with the pid: the launcher, then podman
    proxy,    \* the proxy process of a run
    name,     \* the run whose socket bears the name, 0 when there is none
    signal,   \* SIGTERM or SIGINT is pending at the proxy
    hook,     \* on_first_accept is still to run
    killed    \* history: the proxy died without a chance to clean up

lives == <<reuse, parent, proxy, name, signal, hook, killed>>

-----------------------------------------------------------------------------
ParentPlaces == {"none", "start", "clean", "bound", "spawned", "podman", "mounted", "gone"}
ProxyPlaces  == {"none", "boot", "handlers", "armed", "checked", "serving", "leaving", "gone"}

\* The proxy has called PR_SET_PDEATHSIG and runs.
Watching(r) == proxy[r] \in {"armed", "checked", "serving", "leaving"}

ParentAlive(r) == parent[r] \notin {"none", "gone"}
ProxyAlive(r)  == proxy[r] \notin {"none", "gone"}

LifeInit ==
    /\ reuse \in BOOLEAN
    /\ parent = [r \in Runs |-> "none"]
    /\ proxy  = [r \in Runs |-> "none"]
    /\ name = 0
    /\ signal = [r \in Runs |-> FALSE]
    /\ hook   = [r \in Runs |-> TRUE]
    /\ killed = [r \in Runs |-> FALSE]

-----------------------------------------------------------------------------
(* The launcher, then podman under the same pid.                           *)

ParentGoes(r, from, to) ==
    /\ parent[r] = from
    /\ parent' = [parent EXCEPT ![r] = to]

\* The pid is free again, and a new run of the launcher gets it.
Launch(r) ==
    /\ \A q \in Runs : q < r => parent[q] = "gone"
    /\ reuse \/ \A q \in Runs : ~ProxyAlive(q)
    /\ ParentGoes(r, "none", "start")
    /\ UNCHANGED <<proxy, name, signal, hook, killed>>

\* A mutant: a name left by a crashed proxy is not removed.
KeepStale(r) ==
    /\ ParentGoes(r, "start", "clean")
    /\ UNCHANGED <<proxy, name, signal, hook, killed>>

\* Remove a name that a proxy of an earlier run left.
RemoveStale(r) ==
    /\ ParentGoes(r, "start", "clean")
    /\ name' = 0
    /\ UNCHANGED <<proxy, signal, hook, killed>>

\* bind() fails when the name exists; LauncherFails covers that.
Bind(r) ==
    /\ name = 0
    /\ ParentGoes(r, "clean", "bound")
    /\ name' = r
    /\ UNCHANGED <<proxy, signal, hook, killed>>

Spawn(r) ==
    /\ ParentGoes(r, "bound", "spawned")
    /\ proxy' = [proxy EXCEPT ![r] = "boot"]
    /\ UNCHANGED <<name, signal, hook, killed>>

Exec(r) ==
    /\ ParentGoes(r, "spawned", "podman")
    /\ UNCHANGED <<proxy, name, signal, hook, killed>>

\* podman resolves the volume's host path while the name is there; without
\* it the run fails.
Mount(r) ==
    /\ name = r
    /\ ParentGoes(r, "podman", "mounted")
    /\ UNCHANGED <<proxy, name, signal, hook, killed>>

\* The kernel's part in a parent's death: a proxy that asked for it is sent
\* SIGTERM.
ParentDies(r) ==
    /\ parent' = [parent EXCEPT ![r] = "gone"]
    /\ signal' = [signal EXCEPT ![r] = signal[r] \/ Watching(r)]

\* The launcher fails in any of its steps, those after the spawn included,
\* podman fails, or the container's session ends.
ParentEnds(r) ==
    /\ ParentAlive(r)
    /\ ParentDies(r)
    /\ UNCHANGED <<proxy, name, hook, killed>>

\* A terminal's interrupt goes to the launcher and the proxy; a proxy that
\* has no handlers yet is killed by it.
Interrupt(r) ==
    /\ parent[r] \in {"start", "clean", "bound", "spawned", "podman"}
    /\ parent' = [parent EXCEPT ![r] = "gone"]
    /\ IF proxy[r] = "boot"
       THEN /\ proxy' = [proxy EXCEPT ![r] = "gone"]
            /\ killed' = [killed EXCEPT ![r] = TRUE]
            /\ UNCHANGED signal
       ELSE /\ signal' = [signal EXCEPT ![r] = signal[r] \/ ProxyAlive(r)]
            /\ UNCHANGED <<proxy, killed>>
    /\ UNCHANGED <<name, hook>>

-----------------------------------------------------------------------------
(* The proxy.                                                              *)

ProxyGoes(r, from, to) ==
    /\ proxy[r] = from
    /\ proxy' = [proxy EXCEPT ![r] = to]

InstallHandlers(r) ==
    /\ ProxyGoes(r, "boot", "handlers")
    /\ UNCHANGED <<parent, name, signal, hook, killed>>

SetPdeathsig(r) ==
    /\ ProxyGoes(r, "handlers", "armed")
    /\ UNCHANGED <<parent, name, signal, hook, killed>>

\* A mutant: only the signal is relied on.
CheckParentSkipped(r) ==
    /\ ProxyGoes(r, "armed", "checked")
    /\ UNCHANGED <<parent, name, signal, hook, killed>>

\* A parent that died before PR_SET_PDEATHSIG shows in getppid.
CheckParent(r) ==
    /\ ProxyGoes(r, "armed", IF ParentAlive(r) THEN "checked" ELSE "leaving")
    /\ UNCHANGED <<parent, name, signal, hook, killed>>

\* A mutant: the name is removed as soon as the listener is adopted.
StartServingUnlinks(r) ==
    /\ ProxyGoes(r, "checked", "serving")
    /\ name' = 0
    /\ UNCHANGED <<parent, signal, hook, killed>>

\* The manifest is loaded and the listener adopted; either may fail.
StartServing(r) ==
    /\ \/ ProxyGoes(r, "checked", "serving")
       \/ ProxyGoes(r, "checked", "leaving")
    /\ UNCHANGED <<parent, name, signal, hook, killed>>

\* The first connection, which came through the mount: the hook removes
\* whatever bears the name.
FirstAccept(r) ==
    /\ proxy[r] = "serving"
    /\ parent[r] = "mounted"
    /\ hook[r]
    /\ hook' = [hook EXCEPT ![r] = FALSE]
    /\ name' = 0
    /\ UNCHANGED <<reuse, parent, proxy, signal, killed>>

\* select! sees a signal that came at any time since the handlers were
\* installed.
TakeSignal(r) ==
    /\ signal[r]
    /\ ProxyGoes(r, "serving", "leaving")
    /\ UNCHANGED <<parent, name, signal, hook, killed>>

\* A mutant: the name is left to the first-accept hook.
LeaveKeepsName(r) ==
    /\ ProxyGoes(r, "leaving", "gone")
    /\ UNCHANGED <<parent, name, signal, hook, killed>>

\* The unlink at the end of main, which again removes whatever bears the name.
Leave(r) ==
    /\ ProxyGoes(r, "leaving", "gone")
    /\ name' = 0
    /\ UNCHANGED <<parent, signal, hook, killed>>

\* SIGKILL, or a crash.
Kill(r) ==
    /\ ProxyAlive(r)
    /\ proxy' = [proxy EXCEPT ![r] = "gone"]
    /\ killed' = [killed EXCEPT ![r] = TRUE]
    /\ UNCHANGED <<reuse, parent, name, signal, hook>>

-----------------------------------------------------------------------------
ParentStep(r) ==
    /\ \/ Launch(r) \/ RemoveStale(r) \/ Bind(r) \/ Spawn(r) \/ Exec(r) \/ Mount(r)
       \/ ParentEnds(r) \/ Interrupt(r)
    /\ UNCHANGED reuse

\* What the proxy does of its own accord.
ProxyStep(r) ==
    /\ \/ InstallHandlers(r) \/ SetPdeathsig(r) \/ CheckParent(r) \/ StartServing(r)
       \/ TakeSignal(r) \/ Leave(r)
    /\ UNCHANGED reuse

\* Every run that gets the pid is over.
AllOver == (\A r \in Runs : parent[r] = "gone" /\ ~ProxyAlive(r)) /\ UNCHANGED lives

LifeNext ==
    \/ \E r \in Runs : ParentStep(r) \/ ProxyStep(r) \/ FirstAccept(r) \/ Kill(r)
    \/ AllOver

(* Fairness.  The proxy is a process that is scheduled.  Nothing is        *)
(* assumed of the launcher, of podman or of the guest.                     *)
LifeFairness == \A r \in Runs : WF_lives(ProxyStep(r))

LifeSpec == LifeInit /\ [][LifeNext]_lives /\ LifeFairness

-----------------------------------------------------------------------------
(* Properties.                                                             *)

LifeTypeOK ==
    /\ reuse \in BOOLEAN
    /\ parent \in [Runs -> ParentPlaces]
    /\ proxy \in [Runs -> ProxyPlaces]
    /\ name \in {0} \union Runs
    /\ signal \in [Runs -> BOOLEAN]
    /\ hook \in [Runs -> BOOLEAN]
    /\ killed \in [Runs -> BOOLEAN]
    /\ \A r \in Runs :
          parent[r] \in {"none", "start", "clean", "bound"} => proxy[r] = "none"

\* Wherever the parent dies, before the prctl, between it and the getppid
\* check or after: a proxy that went on past the check has the signal.
NoUnsignalledOrphan ==
    \A r \in Runs :
        parent[r] = "gone" /\ proxy[r] \in {"checked", "serving"} => signal[r]

\* The proxy's life is the session's: it ends when its parent has.
ProxyEndsWithSession ==
    \A r \in Runs : parent[r] = "gone" ~> ~ProxyAlive(r)

\* A run that came to have a proxy leaves no name behind, with or without a
\* connection, unless the proxy was killed outright.
NameReclaimed ==
    \A r \in Runs :
        parent[r] = "gone" /\ ProxyAlive(r) ~> name # r \/ killed[r]

\* A name that an earlier run of the same pid left never fails a bind.
StaleNameNeverBlocks ==
    \A r \in Runs : parent[r] = "clean" => name = 0

\* podman finds the socket it is told to mount for as long as the proxy is
\* up: nobody removes the name before the mount has pinned the socket.  This
\* is so as long as no proxy is still leaving when its pid comes again.
SocketThereToMount ==
    ~reuse => \A r \in Runs :
        /\ parent[r] \in {"bound", "spawned", "podman"}
        /\ proxy[r] \in {"none", "boot", "handlers", "armed", "checked", "serving"}
        => name = r
=============================================================================
