---------------------------- MODULE NestedStores ----------------------------
(***************************************************************************)
(* Nested launches and the stores they stack.                              *)
(*                                                                         *)
(* claudepod-start gives a container its parent's store layers, each bound *)
(* at a short path /nix/.l/<i>, and names them in CLAUDEPOD_STORE_LAYERS.  *)
(* claudepod-entry mounts one overlay over them, with a fresh tmpfs as its *)
(* upper layer, and leaves the longer list in /run for launches inside the *)
(* container.  A path means something else in every mount namespace: what  *)
(* one level calls /nix/.l/0 the next one calls /nix/.l/1.                 *)
(*                                                                         *)
(* Beside this chain of files runs the chain of metadata: the Nix daemon   *)
(* of a container asks its proxy, which asks the daemon of the level       *)
(* below.  The two chains share no code, and a guest works only if they    *)
(* agree.                                                                  *)
(***************************************************************************)
EXTENDS Integers, Sequences

CONSTANTS
    MaxPods,     \* how many containers are launched
    Paths,       \* store paths
    Contents     \* what a store path may hold: two builds need not agree

ASSUME PodsAssumption == MaxPods \in Nat

Pods == 1..MaxPods    \* containers, in the order of their launches
Host == 0
Levels == {Host} \union Pods

(* Directories, as the processes of one level name them.                   *)
StoreDir == <<"/nix/store", 0>>
UpperDir == <<"/nix/.rw-store/store", 0>>
LayerDir(i) == <<"/nix/.l", i>>

(* An encoded list is a sequence of directories and of these.              *)
Colon == <<":", 0>>
Newline == <<"newline", 0>>

Symbols == {"/nix/store", "/nix/.rw-store/store", "/nix/.l", ":", "newline"} \X Nat

(* What a layer holds of a store path, besides a content.                  *)
None == "none"
Whiteout == "whiteout"
ASSUME ContentsAssumption == None \notin Contents /\ Whiteout \notin Contents

VARIABLES
    pod,        \* how far a container is
    parent,     \* the level it was launched from
    binds,      \* what is bound at its /nix/.l/0, /nix/.l/1, ...
    layersEnv,  \* its CLAUDEPOD_STORE_LAYERS
    layersFile, \* its /run/claudepod-store-layers; empty if there is none
    store,      \* the layers at a level's /nix/store, highest first
    files,      \* what the own layer of a level holds
    db          \* the valid paths in the Nix database of a level

mounts == <<pod, parent, binds, layersEnv, layersFile, store>>
vars == <<mounts, files, db>>

-----------------------------------------------------------------------------
(* The encoding of layer lists.                                            *)

Join(dirs) ==
    [k \in 1..(IF dirs = <<>> THEN 0 ELSE 2 * Len(dirs) - 1) |->
        IF k % 2 = 1 THEN dirs[(k + 1) \div 2] ELSE Colon]

\* An empty field, at an end or between two colons, is refused.
Accepted(raw) ==
    /\ Len(raw) % 2 = 1
    /\ \A k \in 1..Len(raw) : raw[k] = Colon <=> k % 2 = 0

Parse(raw) == [i \in 1..((Len(raw) + 1) \div 2) |-> raw[2 * i - 1]]

\* A mutant: the newline at the end of a file is kept.
KeepNewline(raw) == raw

\* The newline that ends a file is no part of the list in it.
Trim(raw) ==
    IF raw # <<>> /\ raw[Len(raw)] = Newline THEN SubSeq(raw, 1, Len(raw) - 1) ELSE raw

-----------------------------------------------------------------------------
(* What a directory is, for the processes of a level: the layers that are  *)
(* seen there, highest first.                                              *)

Resolve(l, dir) ==
    IF dir = StoreDir THEN store[l]
    ELSE IF dir = UpperDir THEN <<l>>
    ELSE IF dir[2] + 1 \in DOMAIN binds[l] THEN binds[l][dir[2] + 1]
    ELSE <<>>

Live(l) == pod[l] \in {"created", "mounted", "running"}
Running(l) == pod[l] = "running"

\* What the stack of a level shows of a path: what its highest layer shows
\* that knows the path.
View(l, x) ==
    LET knows == {i \in 1..Len(store[l]) : files[store[l][i]][x] # None}
    IN  IF knows = {} THEN None
        ELSE files[store[l][CHOOSE i \in knows : \A j \in knows : i <= j]][x]

\* The levels whose daemons a query from l reaches in the end.
Ancestors(l) ==
    LET up[n \in Levels] == IF n = Host THEN {} ELSE {parent[n]} \union up[parent[n]]
    IN  up[l]

ValidBelow(l, x) == \E a \in Ancestors(l) : db[a][x] # None

-----------------------------------------------------------------------------
Init ==
    /\ pod = [l \in Levels |-> IF l = Host THEN "running" ELSE "none"]
    /\ parent = [l \in Levels |-> Host]
    /\ binds = [l \in Levels |-> <<>>]
    /\ layersEnv = [l \in Levels |-> <<>>]
    /\ layersFile = [l \in Levels |-> <<>>]
    /\ store = [l \in Levels |-> IF l = Host THEN <<Host>> ELSE <<>>]
    /\ files = [l \in Levels |-> [x \in Paths |-> None]]
    /\ db = [l \in Levels |-> [x \in Paths |-> None]]

(* The launcher, in the mount namespace of p, and podman.                  *)

\* A top-level launch finds no file.
ParentLayers(p) ==
    IF layersFile[p] = <<>> THEN <<StoreDir>> ELSE Parse(Trim(layersFile[p]))

\* The launcher stops at a list that it cannot parse.
Parsable(p) == layersFile[p] = <<>> \/ Accepted(Trim(layersFile[p]))

\* The short names under which the container will have the layers.
ChildLayers(layers) == [i \in 1..Len(layers) |-> LayerDir(i - 1)]

\* A mutant: the layers are bound in the order of their ages.
BindsReversed(p, layers) ==
    [i \in 1..Len(layers) |-> Resolve(p, layers[Len(layers) + 1 - i])]

\* podman resolves the host side of a volume at the level it runs at.
Binds(p, layers) == [i \in 1..Len(layers) |-> Resolve(p, layers[i])]

Launch(c, p) ==
    LET layers == ParentLayers(p)
    IN  /\ pod[c] = "none"
        /\ \A b \in Pods : b < c => pod[b] # "none"
        /\ p < c
        /\ Running(p) /\ Parsable(p)
        /\ pod' = [pod EXCEPT ![c] = "created"]
        /\ parent' = [parent EXCEPT ![c] = p]
        /\ binds' = [binds EXCEPT ![c] = Binds(p, layers)]
        /\ layersEnv' = [layersEnv EXCEPT ![c] = Join(ChildLayers(layers))]
        /\ store' = [store EXCEPT ![c] = store[p]]
        /\ UNCHANGED <<layersFile, files, db>>

(* claudepod-entry, in the mount namespace of the container.               *)

LowerLayers(c) == Parse(layersEnv[c])

\* Overlays do not stack as they like: every lower directory is to be a
\* plain one, and none of them the upper one.
Mountable(c) ==
    /\ Accepted(layersEnv[c])
    /\ \A i \in 1..Len(LowerLayers(c)) :
          /\ Len(Resolve(c, LowerLayers(c)[i])) = 1
          /\ Resolve(c, LowerLayers(c)[i]) # <<c>>

SetupStoreOverlay(c) ==
    /\ pod[c] = "created"
    /\ Mountable(c)
    /\ pod' = [pod EXCEPT ![c] = "mounted"]
    /\ store' = [store EXCEPT ![c] =
          <<c>> \o [i \in 1..Len(LowerLayers(c)) |-> Resolve(c, LowerLayers(c)[i])[1]]]
    /\ UNCHANGED <<parent, binds, layersEnv, layersFile, files, db>>

\* A mutant: a nested launch is told of the container's own layer alone.
UpperAlone(c) == <<UpperDir>>

DescendantLayers(c) == <<UpperDir>> \o LowerLayers(c)

\* The configuration under /run, then exec of init.
WriteRuntimeConfig(c) ==
    /\ pod[c] = "mounted"
    /\ pod' = [pod EXCEPT ![c] = "running"]
    /\ layersFile' = [layersFile EXCEPT ![c] = Append(Join(DescendantLayers(c)), Newline)]
    /\ UNCHANGED <<parent, binds, layersEnv, store, files, db>>

\* The container ends, its entry fails or it is killed.  What runs inside it
\* is dead before it is; its tmpfs goes with it.
Stop(c) ==
    /\ Live(c)
    /\ \A d \in Pods : parent[d] = c => ~Live(d)
    /\ pod' = [pod EXCEPT ![c] = "gone"]
    /\ binds' = [binds EXCEPT ![c] = <<>>]
    /\ layersEnv' = [layersEnv EXCEPT ![c] = <<>>]
    /\ layersFile' = [layersFile EXCEPT ![c] = <<>>]
    /\ store' = [store EXCEPT ![c] = <<>>]
    /\ files' = [files EXCEPT ![c] = [x \in Paths |-> None]]
    /\ db' = [db EXCEPT ![c] = [x \in Paths |-> None]]
    /\ UNCHANGED parent

-----------------------------------------------------------------------------
(* Nix, at every level.                                                    *)

\* A query that is answered from below: the row is kept in the own database.
Sync(c, x) ==
    /\ Running(c) /\ c # Host
    /\ db[c][x] = None
    /\ db[parent[c]][x] # None
    /\ db' = [db EXCEPT ![c][x] = db[parent[c]][x]]
    /\ UNCHANGED <<mounts, files>>

\* A listed path that the host lacks is fetched for the query of a
\* container; a nested launcher has no manifest to give its proxy.
Fill(c, x, v) ==
    /\ Running(c) /\ c # Host /\ parent[c] = Host
    /\ db[c][x] = None /\ db[Host][x] = None
    /\ files' = [files EXCEPT ![Host][x] = v]
    /\ db' = [db EXCEPT ![Host][x] = v, ![c][x] = v]
    /\ UNCHANGED mounts

\* A build at a level that finds the path valid nowhere.  Files that lie
\* there unregistered are replaced on the host; in a container they are in
\* a layer it cannot write, and the build fails.
Build(l, x, v) ==
    /\ Running(l)
    /\ db[l][x] = None /\ ~ValidBelow(l, x)
    /\ l # Host => View(l, x) \in {None, Whiteout}
    /\ files' = [files EXCEPT ![l][x] = v]
    /\ db' = [db EXCEPT ![l][x] = v]
    /\ UNCHANGED mounts

\* A crash on the host leaves files that no database knows.
Plant(x, v) ==
    /\ db[Host][x] = None /\ files[Host][x] = None
    /\ files' = [files EXCEPT ![Host][x] = v]
    /\ UNCHANGED <<mounts, db>>

\* The environment's part of the bargain, which no code enforces: a level
\* collects nothing that a container launched from it has registered.
Collectable(l, x) == \A d \in Pods : parent[d] = l /\ Live(d) => db[d][x] = None

\* Collection drops the row, and the files if they are the level's own.
\* Overlayfs has to hide what lies below; a path that is valid there is
\* taken out of the upper directory behind its back.
Collect(l, x) ==
    /\ Running(l)
    /\ db[l][x] # None
    /\ Collectable(l, x)
    /\ db' = [db EXCEPT ![l][x] = None]
    /\ files' = [files EXCEPT ![l][x] =
          IF @ \notin Contents THEN @
          ELSE IF \/ l = Host
                  \/ ValidBelow(l, x)
                  \/ \A a \in Ancestors(l) : files[a][x] \notin Contents
               THEN None ELSE Whiteout]
    /\ UNCHANGED mounts

PodStep(c) ==
    \/ \E p \in Levels : Launch(c, p)
    \/ SetupStoreOverlay(c) \/ WriteRuntimeConfig(c) \/ Stop(c)
    \/ \E x \in Paths : Sync(c, x) \/ \E v \in Contents : Fill(c, x, v)

NixStep(l) ==
    \E x \in Paths : Collect(l, x) \/ \E v \in Contents : Build(l, x, v)

Next ==
    \/ \E c \in Pods : PodStep(c)
    \/ \E l \in Levels : NixStep(l)
    \/ \E x \in Paths, v \in Contents : Plant(x, v)

Spec == Init /\ [][Next]_vars

-----------------------------------------------------------------------------
(* Properties.                                                             *)

TypeOK ==
    /\ pod \in [Levels -> {"none", "created", "mounted", "running", "gone"}]
    /\ parent \in [Levels -> Levels]
    /\ binds \in [Levels -> Seq(Seq(Levels))]
    /\ layersEnv \in [Levels -> Seq(Symbols)]
    /\ layersFile \in [Levels -> Seq(Symbols)]
    /\ store \in [Levels -> Seq(Levels)]
    /\ files \in [Levels -> [Paths -> Contents \union {None, Whiteout}]]
    /\ db \in [Levels -> [Paths -> Contents \union {None}]]
    /\ pod[Host] = "running"
    /\ \A c \in Pods : Live(c) => Running(parent[c]) /\ store[c] # <<>>

\* However deep the nesting, what the launcher hands to a container is a list
\* that its entry can mount, plain directories by names that mean something in
\* the new mount namespace, and what the entry leaves is a list that the next
\* launcher can read.
MountNeverFails ==
    /\ \A c \in Pods : pod[c] = "created" => Mountable(c)
    /\ \A l \in Levels : Running(l) => Parsable(l)

\* The /nix/store of a container is its own layer on top of its parent's
\* /nix/store, layer by layer and in the same order, although the overlay
\* is mounted flat and every layer has been renamed at every level.
StackIsInherited ==
    \A c \in Pods :
        pod[c] \in {"mounted", "running"} => store[c] = <<c>> \o store[parent[c]]

\* The chain of daemons and the chain of layers agree: the files that a level
\* shows of a path are those its database describes, whichever level built
\* them.  Only a whiteout may stand in for them.
ValidMatchesFiles ==
    \A l \in Levels, x \in Paths :
        Running(l) /\ db[l][x] # None => View(l, x) \in {db[l][x], Whiteout}
=============================================================================
