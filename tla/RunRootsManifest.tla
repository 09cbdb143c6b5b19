-------------------------- MODULE RunRootsManifest --------------------------
(***************************************************************************)
(* The cache of the nix run-roots manifest: launchers that look it up,     *)
(* build it and publish it (src/src/bin/claudepod-start.rs), and the proxy *)
(* that loads it again later (src/src/bin/claudepod-nix-proxy.rs).         *)
(*                                                                         *)
(* All launchers here share one cache file: one guest system, one nixpkgs. *)
(* A pid identifies a launcher, one at a time; it may be killed in any     *)
(* step and leave its temp file to the next owner of the pid.  A power     *)
(* loss kills all of them and rolls the file system back: a file that was  *)
(* not synced may have lost any part of what was written to it, and a name *)
(* bears what it bore when the directory last reached the disk, or what it *)
(* bore in the end.                                                        *)
(***************************************************************************)
EXTENDS Naturals

CONSTANTS
    Pids,       \* the pids launchers get
    Inodes,     \* the files the disk has room for
    NoFile,     \* what a name that is not there bears
    MaxLosses   \* bound: power losses

ASSUME NoFileAssumption == NoFile \notin Inodes
ASSUME LossesAssumption == MaxLosses \in Nat

VARIABLES
    pc,       \* where a launcher, or later its proxy, is
    fd,       \* the file it has open
    data,     \* what is in a file
    synced,   \* the files whose content is on the disk
    path,     \* what bears the name of the manifest
    tmp,      \* what bears the temp name of a pid
    diskPath, \* both, as the directory is on the disk
    diskTmp,
    left,     \* history: an owner of the pid was killed or could not clean
              \* up, and no later one has removed what it left
    losses    \* power losses so far

procVars == <<pc, fd, left>>
fileVars == <<data, synced>>
nameVars == <<path, tmp>>
diskVars == <<diskPath, diskTmp>>
vars == <<procVars, fileVars, nameVars, diskVars, losses>>

-----------------------------------------------------------------------------
(* Contents.  "part" is a manifest cut off somewhere: after a line or in a *)
(* name it still parses, so a load cannot be relied on to notice.  (Cut    *)
(* off in a hash it does not; that is the harmless case.)  A file of       *)
(* nothing parses too.  "junk" is complete output that is no manifest.     *)

Contents == {"empty", "part", "junk", "whole"}

\* NixRunRoots::load
Parses(content) == content # "junk"

\* What a power loss may leave of a file.
Remains(i) == IF i \in synced THEN {data[i]} ELSE {data[i], "empty", "part"}

Named == {path, diskPath} \union {tmp[p] : p \in Pids} \union {diskTmp[p] : p \in Pids}
Open  == {fd[p] : p \in Pids}

\* Files without a name and without a process that has them open.
Free == Inodes \ (Named \union Open)

\* Where a builder writes to its temp file, and where it has one.
Writing  == {"write", "sync"}
Building == Writing \union {"validate", "rename", "cleanup"}

Places == {"off", "look", "open", "read", "eval", "stale", "create", "syncdir",
           "ready", "nofills", "refused",
           "serving", "unserved"} \union Building

Init ==
    /\ pc = [p \in Pids |-> "off"]
    /\ fd = [p \in Pids |-> NoFile]
    /\ data = [i \in Inodes |-> "empty"]
    /\ synced = {}
    /\ path = NoFile
    /\ tmp = [p \in Pids |-> NoFile]
    /\ diskPath = NoFile
    /\ diskTmp = [p \in Pids |-> NoFile]
    /\ left = [p \in Pids |-> FALSE]
    /\ losses = 0

-----------------------------------------------------------------------------
(* Looking the manifest up.                                                *)

Goes(p, from, to) == pc[p] = from /\ pc' = [pc EXCEPT ![p] = to]

Start(p) ==
    /\ Goes(p, "off", "look")
    /\ UNCHANGED <<fd, left, fileVars, nameVars, diskVars, losses>>

\* nix_run_roots_manifest, with or without --build-nix-run-roots: a file that
\* is there is used either way.
Look(p) ==
    /\ \/ path # NoFile /\ Goes(p, "look", "open")
       \/ path = NoFile /\ (Goes(p, "look", "eval") \/ Goes(p, "look", "nofills"))
    /\ UNCHANGED <<fd, left, fileVars, nameVars, diskVars, losses>>

\* std::fs::read opens the file first, and a rename may come in between.
OpenCached(p) ==
    /\ path # NoFile
    /\ Goes(p, "open", "read")
    /\ fd' = [fd EXCEPT ![p] = path]
    /\ UNCHANGED <<left, fileVars, nameVars, diskVars, losses>>

LoadCached(p) ==
    /\ Goes(p, "read", IF Parses(data[fd[p]]) THEN "ready" ELSE "refused")
    /\ fd' = [fd EXCEPT ![p] = NoFile]
    /\ UNCHANGED <<left, fileVars, nameVars, diskVars, losses>>

-----------------------------------------------------------------------------
(* Building it.                                                            *)

\* nix eval runs; what it prints shows when it is written.
Eval(p) ==
    /\ Goes(p, "eval", "stale")
    /\ UNCHANGED <<fd, left, fileVars, nameVars, diskVars, losses>>

\* A mutant: every temp file in the directory is taken to be stale.
RemoveAllStale(p) ==
    /\ Goes(p, "stale", "create")
    /\ tmp' = [q \in Pids |-> NoFile]
    /\ left' = [left EXCEPT ![p] = FALSE]
    /\ UNCHANGED <<fd, path, fileVars, diskVars, losses>>

\* A temp file that a killed launcher left under the same pid.
RemoveStale(p) ==
    /\ Goes(p, "stale", "create")
    /\ tmp' = [tmp EXCEPT ![p] = NoFile]
    /\ left' = [left EXCEPT ![p] = FALSE]
    /\ UNCHANGED <<fd, path, fileVars, diskVars, losses>>

\* A mutant: no name of its own, the file is written in place.
CreateInPlace(p) ==
    /\ Goes(p, "create", "write")
    /\ \E i \in Free :
           /\ tmp' = [tmp EXCEPT ![p] = i]
           /\ path' = i
           /\ fd' = [fd EXCEPT ![p] = i]
           /\ data' = [data EXCEPT ![i] = "empty"]
           /\ synced' = synced \ {i}
    /\ UNCHANGED <<left, diskVars, losses>>

\* create_new: a file of its own, or none.
Create(p) ==
    /\ tmp[p] = NoFile
    /\ Goes(p, "create", "write")
    /\ \E i \in Free :
           /\ tmp' = [tmp EXCEPT ![p] = i]
           /\ fd' = [fd EXCEPT ![p] = i]
           /\ data' = [data EXCEPT ![i] = "empty"]
           /\ synced' = synced \ {i}
    /\ UNCHANGED <<left, path, diskVars, losses>>

\* Any step up to the rename may fail, for want of space, of rights or of a
\* usable nix.  There is nothing to clean up before the temp file is there.
Fails(p) ==
    /\ \/ \E from \in {"look", "open", "read", "eval", "stale", "create"} :
              Goes(p, from, "refused")
       \/ \E from \in Building \ {"cleanup"} : Goes(p, from, "cleanup")
    /\ fd' = [fd EXCEPT ![p] = NoFile]
    /\ UNCHANGED <<left, fileVars, nameVars, diskVars, losses>>

\* write_all in pieces, and the last of them.
WriteSome(p) ==
    /\ pc[p] = "write"
    /\ data' = [data EXCEPT ![fd[p]] = "part"]
    /\ UNCHANGED <<procVars, synced, nameVars, diskVars, losses>>

WriteAll(p) ==
    /\ Goes(p, "write", "sync")
    /\ \E c \in {"whole", "junk"} : data' = [data EXCEPT ![fd[p]] = c]
    /\ UNCHANGED <<fd, left, synced, nameVars, diskVars, losses>>

\* sync_all, and the file is closed.
SyncFile(p) ==
    /\ Goes(p, "sync", "validate")
    /\ fd' = [fd EXCEPT ![p] = NoFile]
    /\ synced' = synced \union {fd[p]}
    /\ UNCHANGED <<left, data, nameVars, diskVars, losses>>

\* A mutant: what nix printed is taken for a manifest.
ValidateSkipped(p) ==
    /\ Goes(p, "validate", "rename")
    /\ UNCHANGED <<fd, left, fileVars, nameVars, diskVars, losses>>

\* The temp file is loaded by its name.
Validate(p) ==
    /\ Goes(p, "validate", IF Parses(data[tmp[p]]) THEN "rename" ELSE "cleanup")
    /\ UNCHANGED <<fd, left, fileVars, nameVars, diskVars, losses>>

Rename(p) ==
    /\ Goes(p, "rename", "syncdir")
    /\ path' = tmp[p]
    /\ tmp' = [tmp EXCEPT ![p] = NoFile]
    /\ UNCHANGED <<fd, left, fileVars, diskVars, losses>>

\* fsync_dir_best_effort: it is not looked at whether it worked.
SyncDir(p) ==
    /\ Goes(p, "syncdir", "ready")
    /\ \/ diskPath' = path /\ diskTmp' = tmp
       \/ UNCHANGED diskVars
    /\ UNCHANGED <<fd, left, fileVars, nameVars, losses>>

\* A mutant: a failed build leaves its temp file.
CleanupSkipped(p) ==
    /\ Goes(p, "cleanup", "refused")
    /\ UNCHANGED <<fd, left, fileVars, nameVars, diskVars, losses>>

\* It is not looked at whether the removal worked.
Cleanup(p) ==
    /\ Goes(p, "cleanup", "refused")
    /\ \/ tmp' = [tmp EXCEPT ![p] = NoFile] /\ UNCHANGED left
       \/ left' = [left EXCEPT ![p] = TRUE] /\ UNCHANGED tmp
    /\ UNCHANGED <<fd, path, fileVars, diskVars, losses>>

-----------------------------------------------------------------------------
(* The proxy, some time later, loads whatever bears the name by then.      *)

ProxyLoad(p) ==
    /\ Goes(p, "ready", IF path # NoFile /\ Parses(data[path]) THEN "serving" ELSE "unserved")
    /\ UNCHANGED <<fd, left, fileVars, nameVars, diskVars, losses>>

\* The run is over, one way or the other; the pid is free.
End(p) ==
    /\ \E from \in {"nofills", "refused", "serving", "unserved"} : Goes(p, from, "off")
    /\ UNCHANGED <<fd, left, fileVars, nameVars, diskVars, losses>>

\* An interrupt, or a kill.
Kill(p) ==
    /\ pc[p] # "off"
    /\ pc' = [pc EXCEPT ![p] = "off"]
    /\ fd' = [fd EXCEPT ![p] = NoFile]
    /\ left' = [left EXCEPT ![p] = TRUE]
    /\ UNCHANGED <<fileVars, nameVars, diskVars, losses>>

-----------------------------------------------------------------------------
(* The file system (external).                                             *)

\* The directory reaches the disk of itself.
Writeback ==
    /\ diskPath' = path
    /\ diskTmp' = tmp
    /\ UNCHANGED <<procVars, fileVars, nameVars, losses>>

PowerLoss ==
    /\ losses < MaxLosses
    /\ losses' = losses + 1
    /\ path' \in {path, diskPath}
    /\ \E kept \in SUBSET Pids :
           tmp' = [p \in Pids |-> IF p \in kept THEN tmp[p] ELSE diskTmp[p]]
    /\ diskPath' = path'
    /\ diskTmp' = tmp'
    /\ data' \in [Inodes -> Contents]
    /\ \A i \in Inodes : data'[i] \in Remains(i)
    /\ synced' = Inodes
    /\ pc' = [p \in Pids |-> "off"]
    /\ fd' = [p \in Pids |-> NoFile]
    /\ left' = [p \in Pids |-> TRUE]

-----------------------------------------------------------------------------
Launcher(p) ==
    \/ Start(p) \/ Look(p) \/ OpenCached(p) \/ LoadCached(p)
    \/ Eval(p) \/ RemoveStale(p) \/ Create(p) \/ Fails(p)
    \/ WriteSome(p) \/ WriteAll(p) \/ SyncFile(p) \/ Validate(p) \/ Rename(p)
    \/ SyncDir(p) \/ Cleanup(p)
    \/ ProxyLoad(p) \/ End(p) \/ Kill(p)

Next == (\E p \in Pids : Launcher(p)) \/ Writeback \/ PowerLoss

Spec == Init /\ [][Next]_vars

-----------------------------------------------------------------------------
(* Properties.                                                             *)

\* A builder has its temp file, and writes to that one, until it has renamed
\* or removed it.
HasTemp ==
    \A p \in Pids :
        /\ pc[p] \in Building => tmp[p] \in Inodes
        /\ pc[p] \in Writing => fd[p] = tmp[p]

TypeOK ==
    /\ pc \in [Pids -> Places]
    /\ fd \in [Pids -> Inodes \union {NoFile}]
    /\ data \in [Inodes -> Contents]
    /\ synced \subseteq Inodes
    /\ path \in Inodes \union {NoFile}
    /\ tmp \in [Pids -> Inodes \union {NoFile}]
    /\ diskPath \in Inodes \union {NoFile}
    /\ diskTmp \in [Pids -> Inodes \union {NoFile}]
    /\ left \in [Pids -> BOOLEAN]
    /\ losses \in 0..MaxLosses
    /\ HasTemp

\* Whatever is killed, fails or loses power, and whoever builds at the same
\* time: the file that bears the manifest's name holds all of a manifest.
PublishedWhole == path # NoFile => data[path] = "whole"

\* A launcher that came through the lookup or the build has a manifest to
\* hand on: neither its own load nor the proxy's later one, of what may be
\* another launcher's file by then, meets a missing or a broken file.
ValidatedStays ==
    \A p \in Pids :
        /\ pc[p] \in {"open", "ready"} => path # NoFile /\ data[path] = "whole"
        /\ pc[p] = "read" => data[fd[p]] = "whole"
        /\ pc[p] # "unserved"

\* A launcher that ends of its own accord leaves no temp file: one that is
\* there is being written, or was left by a kill or a failed removal.
NoLitter ==
    \A p \in Pids :
        tmp[p] # NoFile =>
            left[p] \/ pc[p] \in Building

\* Only a power loss takes a published manifest away: a launcher that
\* builds and fails, or cleans up, leaves the cache as good as it was.
NeverUnpublished == [][losses' = losses /\ path # NoFile => path' # NoFile]_vars

\* The cache implements the cell of ManifestCell.
Cell ==
    INSTANCE ManifestCell WITH
        Launchers <- Pids,
        cell  <- IF path = NoFile THEN "empty" ELSE data[path],
        grant <- [p \in Pids |->
                     CASE pc[p] = "serving"               -> "fills"
                       [] pc[p] = "nofills"               -> "nofills"
                       [] pc[p] \in {"refused", "unserved"} -> "refused"
                       [] OTHER                           -> "pending"]

ImplementsCell == Cell!Spec
=============================================================================
