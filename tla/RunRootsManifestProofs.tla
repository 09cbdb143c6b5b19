----------------------- MODULE RunRootsManifestProofs -----------------------
(***************************************************************************)
(* Proofs about the manifest cache: for any pids, any number of files and  *)
(* any number of power losses the name bears a whole manifest or nothing,  *)
(* and the cache implements the cell of ManifestCell.                      *)
(***************************************************************************)
EXTENDS RunRootsManifest, TLAPS

\* A temp file that is being built is its builder's alone.
Exclusive ==
    \A p \in Pids : pc[p] \in Building =>
        /\ tmp[p] # path /\ tmp[p] # diskPath
        /\ \A q \in Pids : q # p => tmp[q] # tmp[p] /\ fd[q] # tmp[p]

\* What bears the name, now or after a power loss, is whole and on the disk.
Published ==
    /\ path # NoFile => data[path] = "whole" /\ path \in synced
    /\ diskPath # NoFile => data[diskPath] = "whole" /\ diskPath \in synced
    /\ diskPath # NoFile => path # NoFile

\* How far a build has come shows in its temp file.
Progress ==
    \A p \in Pids :
        /\ pc[p] \in {"sync", "validate"} => data[tmp[p]] \in {"whole", "junk"}
        /\ pc[p] = "rename" => data[tmp[p]] = "whole"
        /\ pc[p] \in {"validate", "rename"} => tmp[p] \in synced

\* Who has found or published the manifest can load it.
Found ==
    \A p \in Pids :
        /\ pc[p] \in {"open", "read", "syncdir", "ready"} => path # NoFile
        /\ pc[p] = "read" => fd[p] \in Inodes /\ data[fd[p]] = "whole"
        /\ pc[p] # "unserved"

IInv == TypeOK /\ Exclusive /\ Published /\ Progress /\ Found /\ NoLitter

-----------------------------------------------------------------------------
LEMMA InitOK == Init => IInv
BY NoFileAssumption, LossesAssumption
DEF Init, IInv, TypeOK, HasTemp, Exclusive, Published, Progress, Found, NoLitter, Places,
    Building, Writing, Contents

\* Steps that leave the files and their names alone.
LEMMA ReadersKeep ==
    ASSUME IInv, NEW p \in Pids,
           Start(p) \/ Look(p) \/ OpenCached(p) \/ LoadCached(p) \/ Eval(p)
               \/ ProxyLoad(p) \/ End(p)
    PROVE  IInv'
<1> USE NoFileAssumption
    DEF IInv, TypeOK, HasTemp, Exclusive, Published, Progress, Found, NoLitter, Places,
        Building, Writing, Goes, fileVars, nameVars, diskVars
<1>1. CASE Start(p)
    BY <1>1 DEF Start
<1>2. CASE Look(p)
    BY <1>2 DEF Look
<1>3. CASE OpenCached(p)
    BY <1>3 DEF OpenCached
<1>4. CASE LoadCached(p)
    BY <1>4 DEF LoadCached, Parses
<1>5. CASE Eval(p)
    BY <1>5 DEF Eval
<1>6. CASE ProxyLoad(p)
    BY <1>6 DEF ProxyLoad, Parses
<1>7. CASE End(p)
    BY <1>7 DEF End
<1> QED BY <1>1, <1>2, <1>3, <1>4, <1>5, <1>6, <1>7

\* Steps that end a launcher, or a step of its build.
LEMMA FailuresKeep ==
    ASSUME IInv, NEW p \in Pids, Fails(p) \/ Cleanup(p) \/ Kill(p) \/ RemoveStale(p)
    PROVE  IInv'
<1> USE NoFileAssumption
    DEF IInv, TypeOK, HasTemp, Exclusive, Published, Progress, Found, NoLitter, Places,
        Building, Writing, Goes, fileVars, nameVars, diskVars
<1>1. CASE Fails(p)
    BY <1>1 DEF Fails
<1>2. CASE Cleanup(p)
    <2>1. CASE tmp' = [tmp EXCEPT ![p] = NoFile] /\ left' = left
        BY <1>2, <2>1 DEF Cleanup
    <2>2. CASE left' = [left EXCEPT ![p] = TRUE] /\ tmp' = tmp
        BY <1>2, <2>2 DEF Cleanup
    <2> QED BY <1>2, <2>1, <2>2 DEF Cleanup
<1>3. CASE Kill(p)
    BY <1>3 DEF Kill
<1>4. CASE RemoveStale(p)
    BY <1>4 DEF RemoveStale
<1> QED BY <1>1, <1>2, <1>3, <1>4

\* Steps of a build that goes well.
LEMMA BuildKeeps ==
    ASSUME IInv, NEW p \in Pids,
           Create(p) \/ WriteSome(p) \/ WriteAll(p) \/ SyncFile(p) \/ Validate(p)
               \/ Rename(p) \/ SyncDir(p)
    PROVE  IInv'
<1> USE NoFileAssumption
    DEF IInv, TypeOK, HasTemp, Exclusive, Published, Progress, Found, NoLitter, Places,
        Building, Writing, Contents, Goes, fileVars, nameVars, diskVars, procVars
<1>1. CASE Create(p)
    BY <1>1 DEF Create, Free, Named, Open
<1>2. CASE WriteSome(p)
    BY <1>2 DEF WriteSome
<1>3. CASE WriteAll(p)
    BY <1>3 DEF WriteAll
<1>4. CASE SyncFile(p)
    BY <1>4 DEF SyncFile
<1>5. CASE Validate(p)
    BY <1>5 DEF Validate, Parses
<1>6. CASE Rename(p)
    BY <1>6 DEF Rename
<1>7. CASE SyncDir(p)
    BY <1>7 DEF SyncDir
<1> QED BY <1>1, <1>2, <1>3, <1>4, <1>5, <1>6, <1>7

\* The file system on its own, and a power loss.
LEMMA DiskKeeps == ASSUME IInv, Writeback \/ PowerLoss PROVE IInv'
<1> USE NoFileAssumption, LossesAssumption
    DEF IInv, TypeOK, HasTemp, Exclusive, Published, Progress, Found, NoLitter, Places,
        Building, Writing, fileVars, nameVars, diskVars, procVars
<1>1. CASE Writeback
    BY <1>1 DEF Writeback
<1>2. CASE PowerLoss
    <2>1. path' # NoFile => path' \in synced /\ data'[path'] = data[path'] /\ data[path'] = "whole"
        BY <1>2 DEF PowerLoss, Remains
    <2>2. tmp' \in [Pids -> Inodes \union {NoFile}]
        BY <1>2 DEF PowerLoss
    <2> QED BY <1>2, <2>1, <2>2 DEF PowerLoss
<1> QED BY <1>1, <1>2

LEMMA NextKeeps == IInv /\ [Next]_vars => IInv'
<1> SUFFICES ASSUME IInv, [Next]_vars PROVE IInv'
    OBVIOUS
<1>1. CASE UNCHANGED vars
    BY <1>1
    DEF IInv, TypeOK, HasTemp, Exclusive, Published, Progress, Found, NoLitter,
        fileVars, nameVars, diskVars, procVars, vars
<1>2. CASE \E p \in Pids : Launcher(p)
    BY <1>2, ReadersKeep, FailuresKeep, BuildKeeps DEF Launcher
<1>3. CASE Writeback \/ PowerLoss
    BY <1>3, DiskKeeps
<1> QED BY <1>1, <1>2, <1>3 DEF Next

-----------------------------------------------------------------------------
\* The inductive invariant: what is being built is nobody else's, what is
\* published is whole and on the disk, and who has found it can load it.
THEOREM ManifestInvariant == Spec => []IInv
BY InitOK, NextKeeps, PTL DEF Spec

\* Every variable keeps its type, and a builder has the temp file it writes to.
THEOREM ManifestTypeOK == Spec => []TypeOK
<1>1. IInv => TypeOK
    BY DEF IInv
<1> QED BY <1>1, ManifestInvariant, PTL

\* The name of the manifest bears a whole one whenever it bears anything:
\* after any kill, failure or power loss, with any number of builders.
THEOREM ManifestPublishedWhole == Spec => []PublishedWhole
<1>1. IInv => PublishedWhole
    BY DEF IInv, Published, PublishedWhole
<1> QED BY <1>1, ManifestInvariant, PTL

\* A manifest a launcher has found or published can be loaded from then on,
\* by itself and by its proxy.
THEOREM ManifestValidatedStays == Spec => []ValidatedStays
<1>1. IInv => ValidatedStays
    BY DEF IInv, Published, Found, ValidatedStays
<1> QED BY <1>1, ManifestInvariant, PTL

\* Failed builds remove their temp files.
THEOREM ManifestNoLitter == Spec => []NoLitter
<1>1. IInv => NoLitter
    BY DEF IInv
<1> QED BY <1>1, ManifestInvariant, PTL

\* No step of a launcher takes a published manifest away.
THEOREM ManifestNeverUnpublished == Spec => NeverUnpublished
<1>1. IInv /\ [Next]_vars => [losses' = losses /\ path # NoFile => path' # NoFile]_vars
    <2> SUFFICES ASSUME IInv, Next, losses' = losses, path # NoFile
                 PROVE  path' # NoFile
        OBVIOUS
    <2>1. CASE PowerLoss
        BY <2>1 DEF PowerLoss, IInv, TypeOK
    <2>2. CASE Writeback
        BY <2>2 DEF Writeback, nameVars
    <2>3. CASE \E p \in Pids : Launcher(p)
        <3>1. PICK p \in Pids : Launcher(p)
            BY <2>3
        <3>2. CASE Rename(p)
            BY <3>2, NoFileAssumption DEF Rename, Goes, IInv, TypeOK, HasTemp, Building
        <3>3. CASE ~Rename(p)
            BY <3>1, <3>3
            DEF Launcher, Start, Look, OpenCached, LoadCached, Eval, RemoveStale, Create,
                Fails, WriteSome, WriteAll, SyncFile, Validate, SyncDir, Cleanup,
                ProxyLoad, End, Kill, nameVars
        <3> QED BY <3>2, <3>3
    <2> QED BY <2>1, <2>2, <2>3 DEF Next
<1> QED BY <1>1, ManifestInvariant, PTL DEF Spec, NeverUnpublished

-----------------------------------------------------------------------------
(* The cache implements the cell.  A launcher is granted what its place    *)
(* says; the cell is filled by the rename, and nothing else touches it.    *)

CellNow == IF path = NoFile THEN "empty" ELSE data[path]

GrantAt(place) ==
    CASE place = "serving"                   -> "fills"
      [] place = "nofills"                   -> "nofills"
      [] place \in {"refused", "unserved"}   -> "refused"
      [] OTHER                               -> "pending"

GrantNow == [p \in Pids |-> GrantAt(pc[p])]

\* The initial cache is the empty cell.
LEMMA InitImplements == Init => Cell!Init
BY DEF Init, Cell!Init

\* The steps of the cell, in terms of the cache's own state.
LEMMA CellResolves ==
    ASSUME NEW p \in Pids, NEW g \in {"fills", "nofills", "refused"},
           GrantNow[p] = "pending", GrantNow' = [GrantNow EXCEPT ![p] = g],
           CellNow' = CellNow, g = "fills" => CellNow = "whole"
    PROVE  Cell!Next
<1>1. Cell!Resolve(p, g)
    BY DEF Cell!Resolve, CellNow, GrantNow, GrantAt
<1>2. CASE g = "fills"
    <2>1. Cell!Fills(p)
        BY <1>1, <1>2 DEF Cell!Fills, CellNow
    <2> QED BY <2>1 DEF Cell!Next
<1>3. CASE g = "nofills"
    <2>1. Cell!NoFills(p)
        BY <1>1, <1>3 DEF Cell!NoFills
    <2> QED BY <2>1 DEF Cell!Next
<1>4. CASE g = "refused"
    <2>1. Cell!Refuse(p)
        BY <1>1, <1>4 DEF Cell!Refuse
    <2> QED BY <2>1 DEF Cell!Next
<1> QED BY <1>2, <1>3, <1>4

LEMMA CellAgain ==
    ASSUME NEW p \in Pids, GrantNow' = [GrantNow EXCEPT ![p] = "pending"],
           CellNow' = CellNow
    PROVE  Cell!Next
BY DEF Cell!Next, Cell!Again, CellNow, GrantNow, GrantAt

LEMMA CellPublishes ==
    ASSUME CellNow' = "whole", GrantNow' = GrantNow
    PROVE  Cell!Next
BY DEF Cell!Next, Cell!Publish, CellNow, GrantNow, GrantAt

LEMMA CellLoses ==
    ASSUME CellNow' \in {CellNow, "empty"}, GrantNow' = [p \in Pids |-> "pending"]
    PROVE  Cell!Next
BY DEF Cell!Next, Cell!PowerLoss, CellNow, GrantNow, GrantAt

\* The grant of a launcher that moves on is the one of its new place.
LEMMA GrantMoves ==
    ASSUME TypeOK, NEW p \in Pids, NEW to \in Places, pc' = [pc EXCEPT ![p] = to]
    PROVE  /\ GrantNow[p] = GrantAt(pc[p])
           /\ GrantNow' = [GrantNow EXCEPT ![p] = GrantAt(to)]
BY DEF GrantNow, GrantAt, TypeOK

LEMMA GrantStays ==
    ASSUME TypeOK, NEW p \in Pids, NEW to \in Places, pc' = [pc EXCEPT ![p] = to],
           GrantAt(to) = GrantAt(pc[p])
    PROVE  GrantNow' = GrantNow
<1>1. GrantNow' = [GrantNow EXCEPT ![p] = GrantNow[p]]
    BY GrantMoves
<1> QED BY <1>1 DEF GrantNow

\* What is in the cell changes with what is in the published file only.
LEMMA CellStays ==
    ASSUME path' = path, path # NoFile => data'[path] = data[path]
    PROVE  CellNow' = CellNow
BY DEF CellNow

\* Steps of a launcher that is still looking, or building.
LEMMA PendingImplements ==
    ASSUME IInv, NEW p \in Pids,
           Start(p) \/ OpenCached(p) \/ Eval(p) \/ RemoveStale(p) \/ Create(p)
               \/ WriteSome(p) \/ WriteAll(p) \/ SyncFile(p) \/ SyncDir(p)
    PROVE  CellNow' = CellNow /\ GrantNow' = GrantNow
<1> USE DEF IInv, Goes, GrantAt, Places, Building, Writing
<1>1. path' = path
    BY DEF Start, OpenCached, Eval, RemoveStale, Create, WriteSome, WriteAll, SyncFile,
        SyncDir, nameVars
<1>2. path # NoFile => data'[path] = data[path]
    <2>1. CASE Create(p)
        BY <2>1 DEF Create, Free, Named, TypeOK
    <2>2. CASE WriteSome(p) \/ WriteAll(p)
        BY <2>2 DEF WriteSome, WriteAll, Exclusive, TypeOK, HasTemp
    <2>3. CASE ~(Create(p) \/ WriteSome(p) \/ WriteAll(p))
        BY <2>3 DEF Start, OpenCached, Eval, RemoveStale, SyncFile, SyncDir, fileVars
    <2> QED BY <2>1, <2>2, <2>3
<1>3. GrantNow' = GrantNow
    <2>1. CASE WriteSome(p)
        BY <2>1 DEF WriteSome, procVars, GrantNow
    <2>2. CASE ~WriteSome(p)
        <3>1. \E to \in Places : pc' = [pc EXCEPT ![p] = to] /\ GrantAt(to) = GrantAt(pc[p])
            BY <2>2 DEF Start, OpenCached, Eval, RemoveStale, Create, WriteAll, SyncFile,
                SyncDir
        <3> QED BY <3>1, GrantStays
    <2> QED BY <2>1, <2>2
<1> QED BY <1>1, <1>2, <1>3, CellStays

\* Steps that decide what a launcher gets, or end its run.
LEMMA DecisionImplements ==
    ASSUME IInv, NEW p \in Pids,
           Look(p) \/ LoadCached(p) \/ Fails(p) \/ Validate(p) \/ Cleanup(p)
               \/ ProxyLoad(p) \/ End(p) \/ Kill(p)
    PROVE  Cell!Next \/ (CellNow' = CellNow /\ GrantNow' = GrantNow)
<1> USE DEF IInv
<1>1. CellNow' = CellNow
    BY CellStays
    DEF Look, LoadCached, Fails, Validate, Cleanup, ProxyLoad, End, Kill, nameVars, fileVars
<1>2. PICK to \in Places : pc' = [pc EXCEPT ![p] = to]
    BY DEF Look, LoadCached, Fails, Validate, Cleanup, ProxyLoad, End, Kill, Goes, Places,
        Building, Writing
<1>3. GrantNow[p] = GrantAt(pc[p]) /\ GrantNow' = [GrantNow EXCEPT ![p] = GrantAt(to)]
    BY <1>2, GrantMoves
<1>4. CASE GrantAt(to) = "pending"
    BY <1>1, <1>3, <1>4, CellAgain
<1>5. CASE GrantAt(to) # "pending"
    <2>1. pc[p] \notin {"serving", "nofills", "refused", "unserved"}
        BY <1>2, <1>5
        DEF Look, LoadCached, Fails, Validate, Cleanup, ProxyLoad, End, Kill, Goes, Building,
            Writing, GrantAt, TypeOK
    <2>2. GrantNow[p] = "pending"
        BY <1>3, <2>1 DEF GrantAt
    <2>3. GrantAt(to) \in {"fills", "nofills", "refused"}
        BY <1>5 DEF GrantAt
    <2>4. GrantAt(to) = "fills" => CellNow = "whole"
        <3> SUFFICES ASSUME to = "serving" PROVE CellNow = "whole"
            BY DEF GrantAt
        <3>1. ProxyLoad(p)
            BY <1>2
            DEF Look, LoadCached, Fails, Validate, Cleanup, End, Kill, Goes, Building,
                Writing, TypeOK
        <3> QED BY <3>1 DEF ProxyLoad, Goes, Found, Published, CellNow
    <2> QED BY <1>1, <1>3, <2>2, <2>3, <2>4, CellResolves
<1> QED BY <1>4, <1>5

LEMMA StepImplements == IInv /\ [Next]_vars => [Cell!Next]_(Cell!cellVars)
<1> SUFFICES ASSUME IInv, [Next]_vars
             PROVE  Cell!Next \/ (CellNow' = CellNow /\ GrantNow' = GrantNow)
    BY DEF Cell!cellVars, CellNow, GrantNow, GrantAt
<1>1. CASE UNCHANGED vars
    BY <1>1 DEF vars, procVars, fileVars, nameVars, CellNow, GrantNow
<1>2. CASE \E p \in Pids : Launcher(p)
    <2>1. PICK p \in Pids : Launcher(p)
        BY <1>2
    <2>2. CASE Rename(p)
        <3>1. CellNow' = "whole"
            BY <2>2, NoFileAssumption
            DEF Rename, Goes, IInv, Progress, TypeOK, HasTemp, Building, CellNow, fileVars
        <3>2. GrantNow' = GrantNow
            BY <2>2, GrantStays DEF Rename, Goes, IInv, GrantAt, Places
        <3> QED BY <3>1, <3>2, CellPublishes
    <2>3. CASE ~Rename(p)
        BY <2>1, <2>3, PendingImplements, DecisionImplements DEF Launcher
    <2> QED BY <2>2, <2>3
<1>3. CASE Writeback
    BY <1>3 DEF Writeback, procVars, fileVars, nameVars, CellNow, GrantNow
<1>4. CASE PowerLoss
    <2>1. GrantNow' = [p \in Pids |-> "pending"]
        BY <1>4 DEF PowerLoss, GrantNow, GrantAt
    <2>2. CellNow' \in {CellNow, "empty"}
        BY <1>4 DEF PowerLoss, Remains, IInv, TypeOK, Published, CellNow
    <2> QED BY <2>1, <2>2, CellLoses
<1> QED BY <1>1, <1>2, <1>3, <1>4 DEF Next

\* The cache implements the cell: launchers and proxies may look at it as a
\* single value that is there whole or not at all.
THEOREM ManifestImplementsCell == Spec => ImplementsCell
BY InitImplements, ManifestInvariant, StepImplements, PTL
DEF Spec, ImplementsCell, Cell!Spec
=============================================================================
