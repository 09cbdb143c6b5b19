------------------------------- MODULE SubIds -------------------------------
(***************************************************************************)
(* The subordinate ids of nested containers.                               *)
(*                                                                         *)
(* podman maps the ids of a container from the ranges that /etc/subuid of  *)
(* the level it runs at delegates to the user (and from the user's own     *)
(* id).  claudepod-entry derives the container's /etc/subuid from the map  *)
(* the kernel shows, so that podman can be run once more inside.  What the *)
(* file says is in terms of the container's ids, which mean something else *)
(* at every level.  The same code serves uids and gids, although the user  *)
(* has another number as a group.                                          *)
(***************************************************************************)
EXTENDS Integers, FiniteSets

CONSTANTS
    RUNTIME_UID,  \* the user's uid inside every container; 1000 in the code
    RUNTIME_GID,  \* the user's gid there; 100 in the code
    HostId,       \* the invoking user's id on the host
    HostIds,      \* ids of the host
    MaxRanges,    \* ranges the host delegates to the user
    MaxDepth,     \* levels of containers
    MaxWord       \* the largest u64

ASSUME SubIdsAssumption ==
    /\ RUNTIME_UID \in Nat /\ RUNTIME_GID \in 0..RUNTIME_UID
    /\ HostId \in Nat /\ MaxDepth \in Nat /\ MaxWord \in Nat
    /\ HostIds \subseteq Nat /\ IsFiniteSet(HostIds)

Depths == 0..MaxDepth

(* Lines of a map and of a subid file.                                     *)
MapLine == [inside : Nat, parent : Nat, count : Nat]
SubidRange == [start : Nat, count : Nat]

\* The ids in a set of ranges.
Ids(ranges) == UNION {r.start..(r.start + r.count - 1) : r \in ranges}

\* The ids of a container that a map covers.
Inside(map) == UNION {m.inside..(m.inside + m.count - 1) : m \in map}

VARIABLES
    inner,    \* the user's id inside every container: uids or gids
    depth,    \* the innermost level
    idMap,    \* /proc/self/uid_map, or gid_map, of a level; a set of lines
    subids    \* its /etc/subuid, or /etc/subgid; a set of ranges

vars == <<inner, depth, idMap, subids>>

-----------------------------------------------------------------------------
(* podman --userns=keep-id:uid=1000,gid=100.  The delegated ids, in        *)
(* ascending order, become 0, 1, ... of the container, but for one: inner  *)
(* is the user.                                                            *)

Least(a, b) == IF a < b THEN a ELSE b
Greatest(a, b) == IF a < b THEN b ELSE a

\* How many delegated ids come before a range.
Offset(ranges, r) == Cardinality({id \in Ids(ranges) : id < r.start})

BelowUser(ranges, r) ==
    [inside |-> Offset(ranges, r),
     parent |-> r.start,
     count |-> Least(r.count, Greatest(0, inner - Offset(ranges, r)))]

AboveUser(ranges, r) ==
    LET skip == BelowUser(ranges, r).count
    IN  [inside |-> Offset(ranges, r) + skip + 1,
         parent |-> r.start + skip,
         count |-> r.count - skip]

KeepId(ranges, id) ==
    {m \in {[inside |-> inner, parent |-> id, count |-> 1]}
           \union {BelowUser(ranges, r) : r \in ranges}
           \union {AboveUser(ranges, r) : r \in ranges} : m.count > 0}

-----------------------------------------------------------------------------
(* claudepod-entry: the subid file from the map.                           *)

SUBID_DELEGATE_START == RUNTIME_UID + 1

End(m) == m.inside + m.count

\* checked_add: a line that ends past the largest word is an error.
Accepted(map) == \A m \in map : End(m) <= MaxWord

\* A mutant: the user's own id is delegated with the rest.
StartAtUser(m) == Greatest(m.inside, RUNTIME_UID)

Start(m) == Greatest(m.inside, SUBID_DELEGATE_START)

\* A mutant: a line that begins below the user is dropped, not clipped.
SubidFileUnclipped(map) ==
    {[start |-> m.inside, count |-> m.count] :
        m \in {n \in map : n.inside >= SUBID_DELEGATE_START}}

SubidFile(map) ==
    {[start |-> Start(m), count |-> End(m) - Start(m)] :
        m \in {n \in map : Start(n) < End(n)}}

-----------------------------------------------------------------------------
\* Ranges of the host, apart from each other and from its users.
HostRanges == {r \in [start : HostIds, count : 1..Cardinality(HostIds)] :
                  Ids({r}) \subseteq HostIds \ {HostId}}

Apart(r, s) == r = s \/ Ids({r}) \intersect Ids({s}) = {}

\* The user at a level.
User(d) == IF d = 0 THEN HostId ELSE inner

Init ==
    /\ inner \in {RUNTIME_UID, RUNTIME_GID}
    /\ depth = 0
    /\ idMap = [d \in Depths |-> {}]
    /\ \E ranges \in {{r, s} : r \in HostRanges, s \in HostRanges} :
          /\ Cardinality(ranges) <= MaxRanges
          /\ \A r, s \in ranges : Apart(r, s)
          /\ subids = [d \in Depths |-> IF d = 0 THEN ranges ELSE {}]

\* A launch at the innermost level: podman maps, the entry delegates.
Nest ==
    LET map == KeepId(subids[depth], User(depth))
    IN  /\ depth < MaxDepth
        /\ Accepted(map)
        /\ depth' = depth + 1
        /\ idMap' = [idMap EXCEPT ![depth + 1] = map]
        /\ subids' = [subids EXCEPT ![depth + 1] = SubidFile(map)]
        /\ UNCHANGED inner

Next == Nest

Spec == Init /\ [][Next]_vars

-----------------------------------------------------------------------------
(* Properties.                                                             *)

\* The ids one level up that an id of a container stands for.
Outside(map, id) ==
    {m.parent + (id - m.inside) : m \in {n \in map : id \in n.inside..(End(n) - 1)}}

\* The ids on the host that an id of a level stands for.
OnHost(d, id) ==
    LET at[n \in 0..d] ==
          IF n = d THEN {id}
          ELSE UNION {Outside(idMap[n + 1], i) : i \in at[n + 1]}
    IN  at[0]

\* At every depth the user of the container is the user who began on the
\* host, every other id is one that the host delegated, and no two ids are
\* the same one there: nothing a nested container does under another id it
\* does as the invoking user.
UserStaysApart ==
    \A d \in 1..depth :
        /\ OnHost(d, inner) = {HostId}
        /\ \A id \in Inside(idMap[d]) \ {inner} :
              /\ OnHost(d, id) # {}
              /\ OnHost(d, id) \subseteq Ids(subids[0])
        /\ \A id, jd \in Inside(idMap[d]) :
              id # jd => OnHost(d, id) \intersect OnHost(d, jd) = {}

\* What a level delegates is all it has above the runtime user and nothing
\* else, no id twice.
DelegatesAllAbove ==
    \A d \in 1..depth :
        /\ Ids(subids[d]) = {id \in Inside(idMap[d]) : id > RUNTIME_UID}
        /\ \A r, s \in subids[d] : Apart(r, s)
=============================================================================
