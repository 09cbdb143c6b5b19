---------------------------- MODULE SubIdsProofs ----------------------------
(***************************************************************************)
(* Proofs about the subordinate ids: for any ids of the host, at any       *)
(* depth, what claudepod-entry delegates is all that the container has     *)
(* above the runtime user, each id once; and who is who on the host.       *)
(***************************************************************************)
EXTENDS SubIds, FiniteSetTheorems, WellFoundedInduction, TLAPS

Span(m) == m.inside..(End(m) - 1)

\* What a subid file must be for podman, and what claudepod-entry makes.
GoodRanges(ranges) ==
    /\ ranges \subseteq SubidRange
    /\ IsFiniteSet(Ids(ranges))
    /\ \A r, s \in ranges : Apart(r, s)

GoodMap(map) ==
    /\ map \subseteq MapLine
    /\ \A m, n \in map : m = n \/ Span(m) \intersect Span(n) = {}

Delegated(map, ranges) == Ids(ranges) = {id \in Inside(map) : id > RUNTIME_UID}

IInv ==
    /\ inner \in Nat
    /\ depth \in Depths
    /\ DOMAIN idMap = Depths /\ DOMAIN subids = Depths
    /\ \A d \in 0..depth : GoodRanges(subids[d])
    /\ \A d \in 1..depth : Delegated(idMap[d], subids[d])

-----------------------------------------------------------------------------
(* The map that podman makes.                                              *)

LEMMA IdsOfOne ==
    ASSUME NEW r
    PROVE  Ids({r}) = r.start..(r.start + r.count - 1)
BY DEF Ids

LEMMA OffsetNat ==
    ASSUME NEW ranges, GoodRanges(ranges), NEW r \in ranges
    PROVE  Offset(ranges, r) \in Nat
<1>1. IsFiniteSet({id \in Ids(ranges) : id < r.start})
    BY FS_Subset DEF GoodRanges
<1> QED BY <1>1, FS_CardinalityType DEF Offset

\* The ids of a range come before those of every range that starts later.
LEMMA OffsetsApart ==
    ASSUME NEW ranges, GoodRanges(ranges), NEW r \in ranges, NEW s \in ranges,
           r.count > 0, s.count > 0, r.start < s.start
    PROVE  Offset(ranges, r) + r.count <= Offset(ranges, s)
<1> DEFINE Before(x) == {id \in Ids(ranges) : id < x.start}
           own == r.start..(r.start + r.count - 1)
<1>1. /\ r.start \in Nat /\ r.count \in Nat /\ s.start \in Nat /\ s.count \in Nat
    BY DEF GoodRanges, SubidRange
<1>2. own \intersect (s.start..(s.start + s.count - 1)) = {}
    <2>1. r # s
        BY <1>1
    <2> QED BY <2>1, IdsOfOne DEF GoodRanges, Apart
<1>3. r.start + r.count <= s.start
    <2>1. SUFFICES ASSUME s.start < r.start + r.count PROVE FALSE
        BY <1>1
    <2>2. s.start \in own /\ s.start \in s.start..(s.start + s.count - 1)
        BY <1>1, <2>1
    <2> QED BY <1>2, <2>2
<1>4. own \subseteq Ids(ranges)
    BY DEF Ids
<1>5. \A id \in own : id < s.start /\ ~(id < r.start)
    BY <1>1, <1>3
<1>6. Before(r) \subseteq Before(s)
    <2>1. \A id \in Ids(ranges) : id \in Int
        BY DEF Ids, GoodRanges, SubidRange
    <2> QED BY <1>1, <2>1
<1>7. (Before(r) \union own) \subseteq Before(s)
    BY <1>4, <1>5, <1>6
<1>8. Before(r) \intersect own = {}
    BY <1>5
<1>9. IsFiniteSet(Before(r)) /\ IsFiniteSet(Before(s))
    BY FS_Subset DEF GoodRanges
<1>10. IsFiniteSet(own) /\ Cardinality(own) = r.count
    <2> DEFINE last == r.start + r.count - 1
    <2>1. last \in Int /\ r.start \in Int
        BY <1>1
    <2>2. last - r.start + 1 = r.count /\ ~(r.start > last)
        BY <1>1
    <2>3. own = r.start..last
        OBVIOUS
    <2> HIDE DEF last, own
    <2>4. IsFiniteSet(r.start..last)
          /\ Cardinality(r.start..last) = IF r.start > last THEN 0 ELSE last - r.start + 1
        BY <2>1, FS_Interval
    <2> QED BY <2>2, <2>3, <2>4
<1> HIDE DEF own, Before
<1>11. Cardinality(Before(r) \union own) = Cardinality(Before(r)) + Cardinality(own)
    <2>1. Cardinality(Before(r) \union own)
             = Cardinality(Before(r)) + Cardinality(own) - Cardinality(Before(r) \intersect own)
        BY <1>9, <1>10, FS_Union
    <2>2. Cardinality(Before(r) \intersect own) = 0
        BY <1>8, FS_EmptySet
    <2>3. Cardinality(Before(r)) \in Nat /\ Cardinality(own) \in Nat
        BY <1>9, <1>10, FS_CardinalityType
    <2> QED BY <2>1, <2>2, <2>3
<1>12. Cardinality(Before(r) \union own) <= Cardinality(Before(s))
    BY <1>7, <1>9, FS_Subset
<1>13. Cardinality(Before(r)) = Offset(ranges, r) /\ Cardinality(Before(s)) = Offset(ranges, s)
    BY DEF Before, Offset
<1> QED BY <1>10, <1>11, <1>12, <1>13

\* A range's lines: those below the user end by the user, those above start
\* after, and neither leaves what the range has room for.
LEMMA LinesOfRange ==
    ASSUME inner \in Nat, NEW ranges, GoodRanges(ranges), NEW r \in ranges
    PROVE  LET o == Offset(ranges, r)
               b == BelowUser(ranges, r)
               a == AboveUser(ranges, r)
           IN  /\ b \in MapLine /\ a \in MapLine
               /\ b.count > 0 => r.count > 0 /\ b.inside = o /\ End(b) <= inner /\ End(b) <= o + r.count
               /\ a.count > 0 => r.count > 0 /\ a.inside > inner /\ a.inside > o
                                 /\ End(a) = o + r.count + 1
<1> DEFINE o == Offset(ranges, r)
           n == Least(r.count, Greatest(0, inner - o))
           b == BelowUser(ranges, r)
           a == AboveUser(ranges, r)
<1>1. o \in Nat
    BY OffsetNat
<1>2. r.start \in Nat /\ r.count \in Nat
    BY DEF GoodRanges, SubidRange
<1>3. b = [inside |-> o, parent |-> r.start, count |-> n]
    BY DEF BelowUser
<1>4. a = [inside |-> o + n + 1, parent |-> r.start + n, count |-> r.count - n]
    BY DEF AboveUser, BelowUser
<1> HIDE DEF o
<1>5. /\ n \in Nat /\ n <= r.count
      /\ n > 0 => o + n <= inner
      /\ n < r.count => o + n >= inner
    BY <1>1, <1>2 DEF Least, Greatest
<1> HIDE DEF n, a, b
<1>6. b \in MapLine /\ b.inside = o /\ b.count = n /\ End(b) = o + n
    BY <1>1, <1>2, <1>3, <1>5 DEF MapLine, End
<1>7. a \in MapLine /\ a.inside = o + n + 1 /\ a.count = r.count - n
    BY <1>1, <1>2, <1>4, <1>5 DEF MapLine
<1>8. End(a) = o + r.count + 1
    BY <1>1, <1>2, <1>5, <1>7 DEF End
<1>9. b.count > 0 => r.count > 0 /\ b.inside = o /\ End(b) <= inner /\ End(b) <= o + r.count
    BY <1>1, <1>2, <1>5, <1>6
<1>10. a.count > 0 => r.count > 0 /\ a.inside > inner /\ a.inside > o /\ End(a) = o + r.count + 1
    BY <1>1, <1>2, <1>5, <1>7, <1>8
<1>11. b \in MapLine /\ a \in MapLine
    BY <1>6, <1>7
<1> QED BY <1>9, <1>10, <1>11 DEF o, a, b

LEMMA InsideSpans ==
    ASSUME NEW map, map \subseteq MapLine, NEW id
    PROVE  id \in Inside(map) <=> \E m \in map : id \in Span(m)
<1>1. \A m \in map : Span(m) = m.inside..(m.inside + m.count - 1)
    BY DEF Span, End, MapLine
<1> QED BY <1>1 DEF Inside

\* No id of the container is mapped twice.
LEMMA KeepIdGood ==
    ASSUME inner \in Nat, NEW ranges, GoodRanges(ranges), NEW id \in Nat
    PROVE  GoodMap(KeepId(ranges, id))
<1> DEFINE user == [inside |-> inner, parent |-> id, count |-> 1]
           map == KeepId(ranges, id)
           o(r) == Offset(ranges, r)
           b(r) == BelowUser(ranges, r)
           a(r) == AboveUser(ranges, r)
<1>1. user \in MapLine /\ user.inside = inner /\ End(user) = inner + 1
    BY DEF MapLine, End
<1>2. \A m \in map : \/ m = user
                     \/ \E r \in ranges : m = b(r) /\ b(r).count > 0
                     \/ \E r \in ranges : m = a(r) /\ a(r).count > 0
    <2>1. SUFFICES ASSUME NEW m \in map
                   PROVE  \/ m = user
                          \/ \E r \in ranges : m = b(r) /\ b(r).count > 0
                          \/ \E r \in ranges : m = a(r) /\ a(r).count > 0
        OBVIOUS
    <2>2. /\ m.count > 0
          /\ m \in {user} \union {BelowUser(ranges, r) : r \in ranges}
                        \union {AboveUser(ranges, r) : r \in ranges}
        BY <2>1 DEF KeepId
    <2> HIDE DEF user
    <2> QED BY <2>2
<1>3. \A r \in ranges :
         /\ o(r) \in Nat /\ r.count \in Nat /\ r.start \in Nat
         /\ b(r) \in MapLine /\ a(r) \in MapLine
         /\ b(r).count > 0 => r.count > 0 /\ b(r).inside = o(r) /\ End(b(r)) <= inner
                              /\ End(b(r)) <= o(r) + r.count
         /\ a(r).count > 0 => r.count > 0 /\ a(r).inside > inner /\ a(r).inside > o(r)
                              /\ End(a(r)) = o(r) + r.count + 1
    BY LinesOfRange, OffsetNat DEF GoodRanges, SubidRange
<1>4. map \subseteq MapLine
    BY <1>1, <1>2, <1>3
<1>5. \A r, s \in ranges : r.count > 0 /\ s.count > 0 /\ r # s =>
         o(r) + r.count <= o(s) \/ o(s) + s.count <= o(r)
    <2>1. SUFFICES ASSUME NEW r \in ranges, NEW s \in ranges, r.count > 0, s.count > 0, r # s
                   PROVE  o(r) + r.count <= o(s) \/ o(s) + s.count <= o(r)
        OBVIOUS
    <2>2. r.start # s.start
        <3>1. SUFFICES ASSUME r.start = s.start PROVE FALSE
            OBVIOUS
        <3>2. r.start \in Ids({r}) /\ r.start \in Ids({s})
            BY <1>3, <2>1, <3>1, IdsOfOne
        <3> QED BY <2>1, <3>2 DEF GoodRanges, Apart
    <2>3. r.start < s.start \/ s.start < r.start
        BY <1>3, <2>2
    <2> QED BY <2>1, <2>3, OffsetsApart
<1> HIDE DEF map, o, a, b, user
<1>6. \A m \in MapLine : m.inside \in Nat /\ End(m) \in Nat
    BY DEF MapLine, End
<1>7. \A m, n \in MapLine : End(m) <= n.inside \/ End(n) <= m.inside
                             => Span(m) \intersect Span(n) = {}
    BY <1>6 DEF Span
<1>8. \A r, s \in ranges : r # s =>
         /\ b(r).count > 0 /\ b(s).count > 0 => End(b(r)) <= b(s).inside \/ End(b(s)) <= b(r).inside
         /\ a(r).count > 0 /\ a(s).count > 0 => End(a(r)) <= a(s).inside \/ End(a(s)) <= a(r).inside
    <2>1. SUFFICES ASSUME NEW r \in ranges, NEW s \in ranges, r # s
                   PROVE  /\ b(r).count > 0 /\ b(s).count > 0
                             => End(b(r)) <= b(s).inside \/ End(b(s)) <= b(r).inside
                          /\ a(r).count > 0 /\ a(s).count > 0
                             => End(a(r)) <= a(s).inside \/ End(a(s)) <= a(r).inside
        OBVIOUS
    <2>2. /\ b(r) \in MapLine /\ b(s) \in MapLine /\ a(r) \in MapLine /\ a(s) \in MapLine
          /\ o(r) \in Nat /\ o(s) \in Nat /\ r.count \in Nat /\ s.count \in Nat
        BY <1>3
    <2>3. ASSUME b(r).count > 0, b(s).count > 0
          PROVE  End(b(r)) <= b(s).inside \/ End(b(s)) <= b(r).inside
        <3>1. r.count > 0 /\ s.count > 0 /\ b(r).inside = o(r) /\ b(s).inside = o(s)
              /\ End(b(r)) <= o(r) + r.count /\ End(b(s)) <= o(s) + s.count
            BY <1>3, <2>3
        <3>2. o(r) + r.count <= o(s) \/ o(s) + s.count <= o(r)
            BY <1>5, <2>1, <3>1
        <3> QED BY <1>6, <2>2, <3>1, <3>2
    <2>4. ASSUME a(r).count > 0, a(s).count > 0
          PROVE  End(a(r)) <= a(s).inside \/ End(a(s)) <= a(r).inside
        <3>1. r.count > 0 /\ s.count > 0 /\ a(r).inside > o(r) /\ a(s).inside > o(s)
              /\ End(a(r)) = o(r) + r.count + 1 /\ End(a(s)) = o(s) + s.count + 1
            BY <1>3, <2>4
        <3>2. o(r) + r.count <= o(s) \/ o(s) + s.count <= o(r)
            BY <1>5, <2>1, <3>1
        <3>3. a(r).inside \in Nat /\ a(s).inside \in Nat
            BY <1>6, <2>2
        <3> QED BY <2>2, <3>1, <3>2, <3>3
    <2> QED BY <2>3, <2>4
<1>9. \A r, s \in ranges : b(r).count > 0 /\ a(s).count > 0 => End(b(r)) <= a(s).inside
    BY <1>3, <1>6
<1>10. \A r \in ranges :
          /\ b(r).count > 0 => End(b(r)) <= user.inside
          /\ a(r).count > 0 => End(user) <= a(r).inside
    BY <1>1, <1>3, <1>6
<1>11. ASSUME NEW m \in map, NEW n \in map, m # n
       PROVE  End(m) <= n.inside \/ End(n) <= m.inside
    <2>1. CASE m = user
        BY <1>2, <1>10, <1>11, <2>1
    <2>2. CASE n = user
        BY <1>2, <1>10, <1>11, <2>2
    <2>3. CASE \E r \in ranges : m = b(r) /\ b(r).count > 0
        BY <1>2, <1>8, <1>9, <1>11, <2>2, <2>3
    <2>4. CASE \E r \in ranges : m = a(r) /\ a(r).count > 0
        BY <1>2, <1>8, <1>9, <1>11, <2>2, <2>4
    <2> QED BY <1>2, <2>1, <2>3, <2>4
<1>12. \A m, n \in map : m = n \/ Span(m) \intersect Span(n) = {}
    BY <1>4, <1>7, <1>11
<1> QED BY <1>4, <1>12 DEF GoodMap, map

-----------------------------------------------------------------------------
(* The file that claudepod-entry makes of it.                              *)

LEMMA SubidFileGood ==
    ASSUME NEW map, GoodMap(map), Accepted(map)
    PROVE  GoodRanges(SubidFile(map)) /\ Delegated(map, SubidFile(map))
<1> DEFINE file == SubidFile(map)
           entry(m) == [start |-> Start(m), count |-> End(m) - Start(m)]
<1>1. \A m \in map : m.inside \in Nat /\ m.count \in Nat /\ End(m) \in Nat /\ End(m) <= MaxWord
    BY DEF GoodMap, MapLine, End, Accepted
<1>2. \A m \in map : Start(m) \in Nat /\ Start(m) >= m.inside /\ Start(m) > RUNTIME_UID
                      /\ \A id \in Int : id >= Start(m) <=> id >= m.inside /\ id > RUNTIME_UID
    BY <1>1, SubIdsAssumption DEF Start, Greatest, SUBID_DELEGATE_START
<1>3. \A r \in file : \E m \in map : r = entry(m) /\ Start(m) < End(m)
    BY DEF SubidFile
<1>4. \A m \in map : Start(m) < End(m) => entry(m) \in file
    BY DEF SubidFile
<1> HIDE DEF file
<1>5. \A m \in map : Start(m) < End(m) =>
         /\ entry(m) \in SubidRange
         /\ entry(m).start..(entry(m).start + entry(m).count - 1)
               = {id \in Span(m) : id > RUNTIME_UID}
    <2>1. SUFFICES ASSUME NEW m \in map, Start(m) < End(m)
                   PROVE  /\ entry(m) \in SubidRange
                          /\ entry(m).start..(entry(m).start + entry(m).count - 1)
                                = {id \in Span(m) : id > RUNTIME_UID}
        OBVIOUS
    <2>2. entry(m) \in SubidRange
        BY <1>1, <1>2, <2>1 DEF SubidRange
    <2>3. entry(m).start = Start(m) /\ entry(m).start + entry(m).count - 1 = End(m) - 1
        BY <1>1, <1>2
    <2>4. Start(m)..(End(m) - 1) = {id \in Span(m) : id > RUNTIME_UID}
        BY <1>1, <1>2 DEF Span
    <2> QED BY <2>2, <2>3, <2>4
<1>6. \A m \in map : ~(Start(m) < End(m)) => {id \in Span(m) : id > RUNTIME_UID} = {}
    BY <1>1, <1>2 DEF Span
<1>7. \A r \in file : \E m \in map : Ids({r}) = {id \in Span(m) : id > RUNTIME_UID} /\ r = entry(m)
    BY <1>3, <1>5, IdsOfOne
<1>8. file \subseteq SubidRange
    BY <1>3, <1>5
<1>9. Delegated(map, file)
    <2>1. \A id : id \in Ids(file) <=> \E r \in file : id \in Ids({r})
        BY IdsOfOne DEF Ids
    <2>2. \A id : id \in Inside(map) <=> \E m \in map : id \in Span(m)
        BY InsideSpans DEF GoodMap
    <2>3. \A m \in map : Start(m) < End(m) =>
             Ids({entry(m)}) = {id \in Span(m) : id > RUNTIME_UID} /\ entry(m) \in file
        BY <1>4, <1>5, IdsOfOne
    <2> HIDE DEF entry
    <2>4. \A id \in Ids(file) : id \in Inside(map) /\ id > RUNTIME_UID
        <3>1. SUFFICES ASSUME NEW id \in Ids(file)
                       PROVE  id \in Inside(map) /\ id > RUNTIME_UID
            OBVIOUS
        <3>2. PICK r \in file : id \in Ids({r})
            BY <2>1
        <3>3. PICK m \in map : Ids({r}) = {jd \in Span(m) : jd > RUNTIME_UID}
            BY <1>7
        <3> QED BY <2>2, <3>2, <3>3
    <2>5. \A id \in Inside(map) : id > RUNTIME_UID => id \in Ids(file)
        BY <1>6, <2>1, <2>2, <2>3
    <2> QED BY <2>4, <2>5 DEF Delegated
<1>10. IsFiniteSet(Ids(file))
    <2>1. \A id \in Ids(file) : id \in Nat /\ id <= MaxWord
        <3>1. \A id \in Inside(map) : \E m \in map : id \in Span(m)
            BY InsideSpans DEF GoodMap
        <3>2. \A m \in map : \A id \in Span(m) : id \in Nat /\ id <= MaxWord
            BY <1>1, SubIdsAssumption DEF Span
        <3> QED BY <1>9, <3>1, <3>2 DEF Delegated
    <2> QED BY <2>1, SubIdsAssumption, FS_BoundedSetOfNaturals
<1>11. \A r, s \in file : Apart(r, s)
    <2>1. SUFFICES ASSUME NEW r \in file, NEW s \in file, r # s
                   PROVE  Ids({r}) \intersect Ids({s}) = {}
        BY DEF Apart
    <2>2. PICK m \in map : Ids({r}) = {id \in Span(m) : id > RUNTIME_UID} /\ r = entry(m)
        BY <1>7
    <2>3. PICK n \in map : Ids({s}) = {id \in Span(n) : id > RUNTIME_UID} /\ s = entry(n)
        BY <1>7
    <2>4. m # n
        BY <2>1, <2>2, <2>3
    <2>5. Span(m) \intersect Span(n) = {}
        BY <2>4 DEF GoodMap
    <2> HIDE DEF entry
    <2> QED BY <2>2, <2>3, <2>5
<1> QED BY <1>8, <1>9, <1>10, <1>11 DEF GoodRanges, file

-----------------------------------------------------------------------------
LEMMA InitRanges ==
    ASSUME Init
    PROVE  \E r, s \in HostRanges :
              /\ \A x, y \in {r, s} : Apart(x, y)
              /\ subids = [d \in Depths |-> IF d = 0 THEN {r, s} ELSE {}]
<1>1. \E ranges \in {{r, s} : r \in HostRanges, s \in HostRanges} :
         /\ \A x, y \in ranges : Apart(x, y)
         /\ subids = [d \in Depths |-> IF d = 0 THEN ranges ELSE {}]
    BY DEF Init
<1> QED BY <1>1

LEMMA InitIInv == Init => IInv
<1> SUFFICES ASSUME Init PROVE IInv
    OBVIOUS
<1>1. PICK r \in HostRanges, s \in HostRanges :
         /\ \A x, y \in {r, s} : Apart(x, y)
         /\ subids = [d \in Depths |-> IF d = 0 THEN {r, s} ELSE {}]
    BY InitRanges
<1>2. \A x \in HostRanges : x \in SubidRange /\ Ids({x}) \subseteq HostIds
    <2>1. \A n \in 1..Cardinality(HostIds) : n \in Nat
        BY SubIdsAssumption, FS_CardinalityType
    <2> QED BY <2>1, SubIdsAssumption DEF HostRanges, SubidRange
<1>3. Ids({r, s}) \subseteq HostIds
    <2>1. Ids({r, s}) = Ids({r}) \union Ids({s})
        BY DEF Ids
    <2> QED BY <1>2, <2>1
<1>4. IsFiniteSet(Ids({r, s}))
    BY <1>3, SubIdsAssumption, FS_Subset
<1>5. GoodRanges({r, s})
    BY <1>1, <1>2, <1>4 DEF GoodRanges
<1>6. depth = 0 /\ 0 \in Depths /\ subids[0] = {r, s}
    BY <1>1, SubIdsAssumption DEF Init, Depths
<1>7. inner \in Nat
    BY SubIdsAssumption DEF Init
<1>8. DOMAIN idMap = Depths /\ DOMAIN subids = Depths
    BY <1>1 DEF Init
<1> QED BY <1>5, <1>6, <1>7, <1>8 DEF IInv

LEMMA NestIInv == ASSUME IInv, Nest PROVE IInv'
<1> DEFINE map == KeepId(subids[depth], User(depth))
<1>1. /\ depth < MaxDepth /\ Accepted(map) /\ depth' = depth + 1 /\ inner' = inner
      /\ idMap' = [idMap EXCEPT ![depth + 1] = map]
      /\ subids' = [subids EXCEPT ![depth + 1] = SubidFile(map)]
    BY DEF Nest
<1>2. depth \in Nat /\ depth + 1 \in Depths /\ depth' \in Depths
    BY <1>1, SubIdsAssumption DEF IInv, Depths
<1>3. GoodMap(map)
    <2>1. inner \in Nat /\ GoodRanges(subids[depth])
        BY <1>2 DEF IInv
    <2>2. User(depth) \in Nat
        BY <2>1, SubIdsAssumption DEF User
    <2> QED BY <2>1, <2>2, KeepIdGood
<1> HIDE DEF map
<1>4. GoodRanges(SubidFile(map)) /\ Delegated(map, SubidFile(map))
    BY <1>1, <1>3, SubidFileGood
<1>5. /\ subids'[depth + 1] = SubidFile(map) /\ idMap'[depth + 1] = map
      /\ \A d \in 0..depth : subids'[d] = subids[d] /\ idMap'[d] = idMap[d]
    BY <1>1, <1>2 DEF IInv
<1>6. \A d \in 0..depth' : d \in 0..depth \/ d = depth + 1
    BY <1>1, <1>2
<1>7. \A d \in 1..depth' : d \in 1..depth \/ d = depth + 1
    BY <1>1, <1>2
<1>8. \A d \in 0..depth' : GoodRanges(subids'[d])
    BY <1>4, <1>5, <1>6 DEF IInv
<1>9. \A d \in 1..depth' : Delegated(idMap'[d], subids'[d])
    <2>1. \A d \in 1..depth : d \in 0..depth
        BY <1>2
    <2> QED BY <1>4, <1>5, <1>7, <2>1 DEF IInv
<1>10. DOMAIN idMap' = Depths /\ DOMAIN subids' = Depths
    BY <1>1 DEF IInv
<1> QED BY <1>1, <1>2, <1>8, <1>9, <1>10 DEF IInv

-----------------------------------------------------------------------------
\* At every depth the entry's subid file delegates exactly the ids of the
\* container above the runtime user, and no id twice, whatever the host
\* delegated.
THEOREM SubIdsDelegated == Spec => []DelegatesAllAbove
<1>1. IInv /\ [Next]_vars => IInv'
    <2>1. ASSUME IInv, UNCHANGED vars PROVE IInv'
        BY <2>1 DEF IInv, vars
    <2> QED BY <2>1, NestIInv DEF Next
<1>2. IInv => DelegatesAllAbove
    <2>1. IInv => \A d \in 1..depth : d \in 0..depth
        BY DEF IInv, Depths
    <2> QED BY <2>1 DEF IInv, DelegatesAllAbove, Delegated, GoodRanges
<1> QED BY InitIInv, <1>1, <1>2, PTL DEF Spec

-----------------------------------------------------------------------------
(* Who an id is on the host.  Every level's map takes its user to the user *)
(* one level up and every other id to one that was delegated there, no two *)
(* to the same; so does the way down to the host, by induction over the    *)
(* level: what is found along it is a recursive function, and so is that   *)
(* function first shown to be what its definition says.                    *)

\* Induction over the naturals, for a set of them.
LEMMA NatBySets ==
    ASSUME NEW S, S \subseteq Nat, 0 \in S, \A n \in S : n + 1 \in S
    PROVE  S = Nat
<1> DEFINE T == Nat \ S
<1> SUFFICES ASSUME T # {} PROVE FALSE
    OBVIOUS
<1> HIDE DEF T
<1>1. T \subseteq Nat
    BY DEF T
<1>2. \E x \in T : \A y \in T : ~ (<<y, x>> \in OpToRel(<, Nat))
    BY <1>1, NatLessThanWellFounded, WFMin
<1>3. PICK x \in T : \A y \in T : ~ (y < x)
    BY <1>1, <1>2 DEF OpToRel
<1>4. x # 0 /\ x \in Nat
    BY DEF T
<1>5. x - 1 \in Nat /\ x - 1 < x /\ (x - 1) + 1 = x
    BY <1>4
<1>6. x - 1 \in S
    BY <1>3, <1>5 DEF T
<1> QED BY <1>5, <1>6 DEF T

\* OnHost's function is the one its definition describes.
LEMMA OnHostStep ==
    ASSUME NEW d \in Nat, NEW id
    PROVE  \E at : /\ at = [n \in 0..d |-> IF n = d THEN {id}
                                        ELSE UNION {Outside(idMap[n + 1], i) : i \in at[n + 1]}]
                   /\ OnHost(d, id) = at[0]
<1> DEFINE Up(f, n) == UNION {Outside(idMap[n + 1], i) : i \in f[n + 1]}
           Is(f, m) == f = [n \in m..d |-> IF n = d THEN {id} ELSE Up(f, n)]
           S == {k \in Nat : k <= d => \E f : Is(f, d - k)}
<1>1. 0 \in S
    <2> DEFINE f == [n \in d..d |-> {id}]
    <2>1. Is(f, d)
        OBVIOUS
    <2>2. d - 0 = d
        OBVIOUS
    <2> HIDE DEF f, Is
    <2> QED BY <2>1, <2>2
<1>2. ASSUME NEW k \in S PROVE k + 1 \in S
    <2>1. SUFFICES ASSUME k + 1 <= d PROVE \E f : Is(f, d - (k + 1))
        <3> HIDE DEF Is
        <3> QED BY <1>2
    <2> DEFINE m == d - (k + 1)
    <2>2. m \in Nat /\ m < d /\ m + 1 = d - k /\ k <= d
        BY <1>2, <2>1
    <2>3. PICK f : Is(f, m + 1)
        BY <1>2, <2>2
    <2> HIDE DEF m
    <2> DEFINE g == [n \in m..d |-> IF n = m THEN Up(f, m) ELSE f[n]]
    <2>4. \A n \in m..d : n # m => n \in (m + 1)..d
        BY <2>2
    <2>5. \A n \in (m + 1)..d : n \in m..d /\ n # m /\ g[n] = f[n]
        BY <2>2
    <2>6. \A n \in m..d : n # d => n + 1 \in (m + 1)..d
        BY <2>2
    <2>7. ASSUME NEW n \in m..d PROVE g[n] = IF n = d THEN {id} ELSE Up(g, n)
        <3>1. CASE n = m
            <4>1. g[n + 1] = f[n + 1] /\ g[n] = Up(f, m) /\ n # d
                BY <2>2, <2>5, <2>6, <3>1
            <4> QED BY <3>1, <4>1
        <3>2. CASE n # m
            <4>1. n \in (m + 1)..d /\ g[n] = f[n]
                BY <2>4, <2>5, <3>2
            <4>2. f[n] = IF n = d THEN {id} ELSE Up(f, n)
                BY <2>3, <4>1
            <4>3. n # d => g[n + 1] = f[n + 1]
                BY <2>5, <2>6
            <4> QED BY <4>1, <4>2, <4>3
        <3> QED BY <3>1, <3>2
    <2>8. Is(g, m)
        BY <2>7
    <2> QED BY <2>8 DEF m
<1>3. S = Nat
    <2> HIDE DEF S
    <2>1. S \subseteq Nat
        BY DEF S
    <2> QED BY <1>1, <1>2, <2>1, NatBySets
<1>4. \E f : Is(f, 0)
    <2>1. d - d = 0
        OBVIOUS
    <2> HIDE DEF Is
    <2> QED BY <1>3, <2>1
<1>5. OnHost(d, id) = (CHOOSE f : Is(f, 0))[0]
    BY DEF OnHost
<1>6. Is(CHOOSE f : Is(f, 0), 0)
    <2> HIDE DEF Is
    <2> QED BY <1>4
<1> QED BY <1>5, <1>6

\* The ids one level up that a line gives its own to.
OutsideSpan(m) == m.parent..(m.parent + m.count - 1)

\* What podman's map does with the ids: the user stays who it was, every other
\* id becomes one of those delegated, and no two the same.
Translates(map, ranges, in, user) ==
    /\ in \in Inside(map)
    /\ \A id \in Inside(map) :
          \E up : /\ Outside(map, id) = {up}
                  /\ IF id = in THEN up = user ELSE up \in Ids(ranges)
    /\ \A id, jd \in Inside(map) : id # jd => Outside(map, id) \intersect Outside(map, jd) = {}

LEMMA OutsideOfLine ==
    ASSUME NEW map, GoodMap(map), NEW m \in map, NEW id \in Span(m)
    PROVE  /\ Outside(map, id) = {m.parent + (id - m.inside)}
           /\ m.parent + (id - m.inside) \in OutsideSpan(m)
<1>1. \A n \in map : id \in n.inside..(End(n) - 1) <=> n = m
    BY DEF GoodMap, Span
<1>2. Outside(map, id) = {m.parent + (id - m.inside)}
    BY <1>1 DEF Outside
<1>3. m.inside \in Nat /\ m.parent \in Nat /\ m.count \in Nat /\ End(m) = m.inside + m.count
    BY DEF GoodMap, MapLine, End
<1>4. m.parent + (id - m.inside) \in OutsideSpan(m)
    BY <1>3 DEF OutsideSpan, Span
<1> QED BY <1>2, <1>4

\* A range's two lines share its ids.
LEMMA LinesOutside ==
    ASSUME inner \in Nat, NEW ranges, GoodRanges(ranges), NEW r \in ranges
    PROVE  LET b == BelowUser(ranges, r)
               a == AboveUser(ranges, r)
           IN  /\ OutsideSpan(b) \subseteq Ids({r}) /\ OutsideSpan(a) \subseteq Ids({r})
               /\ OutsideSpan(b) \intersect OutsideSpan(a) = {}
<1> DEFINE o == Offset(ranges, r)
           n == Least(r.count, Greatest(0, inner - o))
           b == BelowUser(ranges, r)
           a == AboveUser(ranges, r)
<1>1. o \in Nat
    BY OffsetNat
<1>2. r.start \in Nat /\ r.count \in Nat
    BY DEF GoodRanges, SubidRange
<1>3. b.parent = r.start /\ b.count = n /\ a.parent = r.start + n /\ a.count = r.count - n
    BY DEF BelowUser, AboveUser
<1> HIDE DEF o
<1>4. n \in Nat /\ n <= r.count
    BY <1>1, <1>2 DEF Least, Greatest
<1> HIDE DEF n, a, b
<1>5. OutsideSpan(b) = r.start..(r.start + n - 1)
    BY <1>3 DEF OutsideSpan
<1>6. OutsideSpan(a) = (r.start + n)..(r.start + r.count - 1)
    BY <1>2, <1>3, <1>4 DEF OutsideSpan
<1>7. Ids({r}) = r.start..(r.start + r.count - 1)
    BY IdsOfOne
<1>8. r.start..(r.start + n - 1) \subseteq Ids({r})
    BY <1>2, <1>4, <1>7
<1>9. (r.start + n)..(r.start + r.count - 1) \subseteq Ids({r})
    BY <1>2, <1>4, <1>7
<1>10. r.start..(r.start + n - 1) \intersect (r.start + n)..(r.start + r.count - 1) = {}
    BY <1>2, <1>4
<1> QED BY <1>5, <1>6, <1>8, <1>9, <1>10 DEF a, b

\* No two lines of podman's map give their ids to the same ones.
LEMMA KeepIdTranslates ==
    ASSUME inner \in Nat, NEW ranges, GoodRanges(ranges), NEW user \in Nat,
           user \notin Ids(ranges)
    PROVE  Translates(KeepId(ranges, user), ranges, inner, user)
<1> DEFINE own == [inside |-> inner, parent |-> user, count |-> 1]
           map == KeepId(ranges, user)
           b(r) == BelowUser(ranges, r)
           a(r) == AboveUser(ranges, r)
<1>1. /\ own \in MapLine /\ own.inside = inner /\ own.count > 0
      /\ Span(own) = inner..inner /\ OutsideSpan(own) = user..user
    BY DEF MapLine, Span, End, OutsideSpan
<1>2. \A m \in map : m = own \/ \E r \in ranges : m = b(r) \/ m = a(r)
    BY DEF KeepId
<1>3. own \in map
    BY <1>1 DEF KeepId
<1>4. \A r \in ranges :
         /\ OutsideSpan(b(r)) \subseteq Ids({r}) /\ OutsideSpan(a(r)) \subseteq Ids({r})
         /\ OutsideSpan(b(r)) \intersect OutsideSpan(a(r)) = {}
    BY LinesOutside
<1>5. GoodMap(map)
    BY KeepIdGood
<1> HIDE DEF own, map, a, b
<1>6. \A r \in ranges : Ids({r}) \subseteq Ids(ranges)
    BY DEF Ids
<1>7. \A m \in map : m # own => OutsideSpan(m) \subseteq Ids(ranges)
    BY <1>2, <1>4, <1>6
<1>8. \A r, s \in ranges : r # s => Ids({r}) \intersect Ids({s}) = {}
    BY DEF GoodRanges, Apart
<1>9. ASSUME NEW m \in map, NEW n \in map, m # n
      PROVE  OutsideSpan(m) \intersect OutsideSpan(n) = {}
    <2>1. CASE m = own \/ n = own
        BY <1>1, <1>7, <1>9, <2>1
    <2>2. CASE m # own /\ n # own
        <3>1. PICK r \in ranges : m = b(r) \/ m = a(r)
            BY <1>2, <2>2
        <3>2. PICK s \in ranges : n = b(s) \/ n = a(s)
            BY <1>2, <2>2
        <3>3. CASE r = s
            BY <1>4, <1>9, <3>1, <3>2, <3>3
        <3>4. CASE r # s
            <4>1. OutsideSpan(m) \subseteq Ids({r}) /\ OutsideSpan(n) \subseteq Ids({s})
                BY <1>4, <3>1, <3>2
            <4> QED BY <1>8, <3>4, <4>1
        <3> QED BY <3>3, <3>4
    <2> QED BY <2>1, <2>2
<1>10. \A id \in Inside(map) : \E m \in map : id \in Span(m)
    BY <1>5, InsideSpans DEF GoodMap
<1>11. inner \in Inside(map)
    <2>1. inner \in Span(own)
        BY <1>1
    <2> QED BY <1>3, <1>5, <2>1, InsideSpans DEF GoodMap
<1>12. ASSUME NEW id \in Inside(map)
       PROVE  \E up : /\ Outside(map, id) = {up}
                      /\ IF id = inner THEN up = user ELSE up \in Ids(ranges)
    <2>1. PICK m \in map : id \in Span(m)
        BY <1>10, <1>12
    <2> DEFINE up == m.parent + (id - m.inside)
    <2>2. Outside(map, id) = {up} /\ up \in OutsideSpan(m)
        BY <1>5, <2>1, OutsideOfLine
    <2> HIDE DEF up
    <2>3. CASE m = own
        <3>1. id = inner /\ up = user
            BY <1>1, <2>1, <2>2, <2>3
        <3> QED BY <2>2, <3>1
    <2>4. CASE m # own
        <3>1. Span(m) \intersect Span(own) = {}
            BY <1>3, <1>5, <2>4 DEF GoodMap
        <3>2. id # inner
            BY <1>1, <2>1, <3>1
        <3> QED BY <1>7, <2>2, <2>4, <3>2
    <2> QED BY <2>3, <2>4
<1>13. ASSUME NEW id \in Inside(map), NEW jd \in Inside(map), id # jd
       PROVE  Outside(map, id) \intersect Outside(map, jd) = {}
    <2>1. PICK m \in map : id \in Span(m)
        BY <1>10
    <2>2. PICK n \in map : jd \in Span(n)
        BY <1>10
    <2> DEFINE up == m.parent + (id - m.inside)
               vp == n.parent + (jd - n.inside)
    <2>3. Outside(map, id) = {up} /\ up \in OutsideSpan(m)
        BY <1>5, <2>1, OutsideOfLine
    <2>4. Outside(map, jd) = {vp} /\ vp \in OutsideSpan(n)
        BY <1>5, <2>2, OutsideOfLine
    <2>5. up # vp
        <3>1. CASE m = n
            BY <1>5, <1>13, <2>1, <2>2, <3>1 DEF GoodMap, MapLine, Span, End
        <3>2. CASE m # n
            BY <1>9, <2>3, <2>4, <3>2
        <3> QED BY <3>1, <3>2
    <2> HIDE DEF up, vp
    <2> QED BY <2>3, <2>4, <2>5
<1> QED BY <1>11, <1>12, <1>13 DEF Translates, map

\* What the host delegates leaves its user out, and every level translates.
TranslateInv ==
    /\ IInv
    /\ inner \in 0..RUNTIME_UID
    /\ HostId \notin Ids(subids[0])
    /\ \A d \in 1..depth : Translates(idMap[d], subids[d - 1], inner, User(d - 1))

LEMMA InitTranslates == Init => TranslateInv
<1> SUFFICES ASSUME Init PROVE TranslateInv
    OBVIOUS
<1>1. PICK r \in HostRanges, s \in HostRanges :
         subids = [d \in Depths |-> IF d = 0 THEN {r, s} ELSE {}]
    BY InitRanges
<1>2. \A x \in HostRanges : HostId \notin Ids({x})
    BY DEF HostRanges
<1>3. subids[0] = {r, s}
    BY <1>1, SubIdsAssumption DEF Depths
<1>4. Ids(subids[0]) = Ids({r}) \union Ids({s})
    BY <1>3 DEF Ids
<1>5. inner \in 0..RUNTIME_UID /\ depth = 0
    BY SubIdsAssumption DEF Init
<1> QED BY <1>2, <1>4, <1>5, InitIInv DEF TranslateInv

LEMMA NestTranslates == ASSUME TranslateInv, Nest PROVE TranslateInv'
<1> DEFINE map == KeepId(subids[depth], User(depth))
<1>1. /\ depth < MaxDepth /\ depth' = depth + 1 /\ inner' = inner
      /\ idMap' = [idMap EXCEPT ![depth + 1] = map]
      /\ subids' = [subids EXCEPT ![depth + 1] = SubidFile(map)]
    BY DEF Nest
<1>2. depth \in Nat /\ depth + 1 \in Depths /\ RUNTIME_UID \in Nat /\ HostId \in Nat
    BY <1>1, SubIdsAssumption DEF TranslateInv, IInv, Depths
<1>3. /\ idMap'[depth + 1] = map
      /\ \A d \in 0..depth : subids'[d] = subids[d] /\ idMap'[d] = idMap[d]
    BY <1>1, <1>2 DEF TranslateInv, IInv
<1>4. User(depth) \in Nat /\ User(depth) \notin Ids(subids[depth])
    <2>1. CASE depth = 0
        BY <1>2, <2>1 DEF User, TranslateInv
    <2>2. CASE depth # 0
        <3>1. depth \in 1..depth
            BY <1>2, <2>2
        <3>2. \A id \in Ids(subids[depth]) : id > RUNTIME_UID
            BY <3>1 DEF TranslateInv, IInv, Delegated
        <3>3. inner \in Nat /\ ~(inner > RUNTIME_UID)
            BY <1>2 DEF TranslateInv
        <3> QED BY <2>2, <3>2, <3>3 DEF User
    <2> QED BY <2>1, <2>2
<1>5. GoodRanges(subids[depth]) /\ inner \in Nat
    BY <1>2 DEF TranslateInv, IInv
<1>6. Translates(map, subids[depth], inner, User(depth))
    BY <1>4, <1>5, KeepIdTranslates
<1> HIDE DEF map
<1>7. \A d : User(d)' = User(d)
    BY <1>1 DEF User
<1>8. ASSUME NEW d \in 1..depth'
      PROVE  Translates(idMap'[d], subids'[d - 1], inner', User(d - 1)')
    <2>1. CASE d = depth + 1
        <3>1. d - 1 = depth /\ depth \in 0..depth
            BY <1>2, <2>1
        <3> QED BY <1>1, <1>3, <1>6, <1>7, <2>1, <3>1
    <2>2. CASE d # depth + 1
        <3>1. d \in 1..depth /\ d \in 0..depth /\ d - 1 \in 0..depth
            BY <1>1, <1>2, <2>2
        <3> QED BY <1>1, <1>3, <1>7, <3>1 DEF TranslateInv
    <2> QED BY <2>1, <2>2
<1>9. HostId \notin Ids(subids'[0])
    <2>1. 0 \in 0..depth
        BY <1>2
    <2> QED BY <1>3, <2>1 DEF TranslateInv
<1>10. IInv'
    BY NestIInv DEF TranslateInv
<1> QED BY <1>1, <1>8, <1>9, <1>10 DEF TranslateInv

\* One level down, an id is on the host what the one it stands for is.
LEMMA OnHostOneUp ==
    ASSUME NEW d \in Nat, NEW id, NEW up, Outside(idMap[d + 1], id) = {up}
    PROVE  OnHost(d + 1, id) = OnHost(d, up)
<1> DEFINE Up(f, n) == UNION {Outside(idMap[n + 1], i) : i \in f[n + 1]}
<1>1. PICK f : /\ f = [n \in 0..(d + 1) |-> IF n = d + 1 THEN {id} ELSE Up(f, n)]
               /\ OnHost(d + 1, id) = f[0]
    <2>1. d + 1 \in Nat
        OBVIOUS
    <2> HIDE DEF Up
    <2> QED BY <2>1, OnHostStep DEF Up
<1>2. PICK g : /\ g = [n \in 0..d |-> IF n = d THEN {up} ELSE Up(g, n)]
               /\ OnHost(d, up) = g[0]
    BY OnHostStep
<1> DEFINE S == {k \in Nat : k <= d => f[d - k] = g[d - k]}
<1>3. 0 \in S
    <2>0. d \in 0..(d + 1) /\ d # d + 1 /\ d + 1 \in 0..(d + 1) /\ d \in 0..d
        OBVIOUS
    <2>1. f[d] = Up(f, d) /\ f[d + 1] = {id} /\ g[d] = {up}
        <3> HIDE DEF Up
        <3> QED BY <1>1, <1>2, <2>0
    <2>2. Up(f, d) = {up}
        BY <2>1
    <2>3. d - 0 = d
        OBVIOUS
    <2>4. f[d] = g[d]
        BY <2>1, <2>2
    <2> QED BY <2>3, <2>4
<1>4. ASSUME NEW k \in S PROVE k + 1 \in S
    <2>1. SUFFICES ASSUME k + 1 <= d PROVE f[d - (k + 1)] = g[d - (k + 1)]
        BY <1>4
    <2> DEFINE m == d - (k + 1)
    <2>2. m \in 0..d /\ m \in 0..(d + 1) /\ m # d /\ m # d + 1 /\ m + 1 = d - k /\ k <= d
        BY <1>4, <2>1
    <2>3. f[m + 1] = g[m + 1]
        BY <1>4, <2>2
    <2> HIDE DEF m
    <2>4. f[m] = Up(f, m) /\ g[m] = Up(g, m)
        BY <1>1, <1>2, <2>2
    <2> QED BY <2>3, <2>4 DEF m
<1>5. S = Nat
    <2> HIDE DEF S
    <2>1. S \subseteq Nat
        BY DEF S
    <2> QED BY <1>3, <1>4, <2>1, NatBySets
<1>6. f[0] = g[0]
    <2>1. d - d = 0
        OBVIOUS
    <2>2. d \in S
        <3> HIDE DEF S
        <3> QED BY <1>5
    <2> QED BY <2>1, <2>2
<1> QED BY <1>1, <1>2, <1>6

LEMMA OnHostItself == ASSUME NEW id PROVE OnHost(0, id) = {id}
<1>1. PICK f : /\ f = [n \in 0..0 |-> IF n = 0 THEN {id}
                                      ELSE UNION {Outside(idMap[n + 1], i) : i \in f[n + 1]}]
               /\ OnHost(0, id) = f[0]
    BY OnHostStep
<1> QED BY <1>1

\* The ids of a level that someone may use.
Known(d) == IF d = 0 THEN {HostId} \union Ids(subids[0]) ELSE Inside(idMap[d])

ApartAt(d) ==
    /\ OnHost(d, User(d)) = {HostId}
    /\ \A id \in Known(d) \ {User(d)} : OnHost(d, id) # {} /\ OnHost(d, id) \subseteq Ids(subids[0])
    /\ \A id, jd \in Known(d) : id # jd => OnHost(d, id) \intersect OnHost(d, jd) = {}

LEMMA ApartAtAll ==
    ASSUME TranslateInv
    PROVE  \A d \in 0..depth : ApartAt(d)
<1> DEFINE S == {d \in Nat : d <= depth => ApartAt(d)}
<1>0. depth \in Nat
    BY SubIdsAssumption DEF TranslateInv, IInv, Depths
<1>1. 0 \in S
    <2>1. ApartAt(0)
        BY OnHostItself DEF ApartAt, Known, User
    <2> QED BY <2>1
<1>2. ASSUME NEW d \in S PROVE d + 1 \in S
    <2>1. SUFFICES ASSUME d + 1 <= depth PROVE ApartAt(d + 1)
        BY <1>2
    <2>2. ApartAt(d) /\ d \in Nat
        BY <1>0, <1>2, <2>1
    <2>3. Translates(idMap[d + 1], subids[d], inner, User(d))
        <3>1. d + 1 \in 1..depth /\ (d + 1) - 1 = d
            BY <1>0, <2>1, <2>2
        <3> QED BY <3>1 DEF TranslateInv
    <2>4. User(d + 1) = inner /\ Known(d + 1) = Inside(idMap[d + 1])
        BY <2>2 DEF User, Known
    <2>5. Ids(subids[d]) \subseteq Known(d) \ {User(d)} /\ User(d) \in Known(d)
        <3>1. CASE d = 0
            BY <3>1 DEF Known, User, TranslateInv
        <3>2. CASE d # 0
            <4>1. d \in 1..depth
                BY <1>0, <2>1, <2>2, <3>2
            <4>2. Ids(subids[d]) = {id \in Inside(idMap[d]) : id > RUNTIME_UID}
                BY <4>1 DEF TranslateInv, IInv, Delegated
            <4>3. ~(inner > RUNTIME_UID)
                BY SubIdsAssumption DEF TranslateInv
            <4>4. inner \in Inside(idMap[d])
                BY <4>1 DEF TranslateInv, Translates
            <4> QED BY <3>2, <4>2, <4>3, <4>4 DEF Known, User
        <3> QED BY <3>1, <3>2
    <2>6. ASSUME NEW id \in Inside(idMap[d + 1])
          PROVE  \E up \in Known(d) :
                    /\ Outside(idMap[d + 1], id) = {up}
                    /\ OnHost(d + 1, id) = OnHost(d, up)
                    /\ IF id = inner THEN up = User(d) ELSE up # User(d)
        <3>1. PICK up : /\ Outside(idMap[d + 1], id) = {up}
                        /\ IF id = inner THEN up = User(d) ELSE up \in Ids(subids[d])
            BY <2>3, <2>6 DEF Translates
        <3>2. OnHost(d + 1, id) = OnHost(d, up)
            BY <2>2, <3>1, OnHostOneUp
        <3> QED BY <2>5, <3>1, <3>2
    <2>7. OnHost(d + 1, inner) = {HostId}
        <3>1. inner \in Inside(idMap[d + 1])
            BY <2>3 DEF Translates
        <3> QED BY <2>2, <2>6, <3>1 DEF ApartAt
    <2>8. \A id \in Inside(idMap[d + 1]) \ {inner} :
             OnHost(d + 1, id) # {} /\ OnHost(d + 1, id) \subseteq Ids(subids[0])
        BY <2>2, <2>6 DEF ApartAt
    <2>9. ASSUME NEW id \in Inside(idMap[d + 1]), NEW jd \in Inside(idMap[d + 1]), id # jd
          PROVE  OnHost(d + 1, id) \intersect OnHost(d + 1, jd) = {}
        <3>1. PICK up \in Known(d) : Outside(idMap[d + 1], id) = {up} /\ OnHost(d + 1, id) = OnHost(d, up)
            BY <2>6
        <3>2. PICK vp \in Known(d) : Outside(idMap[d + 1], jd) = {vp} /\ OnHost(d + 1, jd) = OnHost(d, vp)
            BY <2>6
        <3>3. up # vp
            BY <2>3, <2>9, <3>1, <3>2 DEF Translates
        <3> QED BY <2>2, <3>1, <3>2, <3>3 DEF ApartAt
    <2> QED BY <2>4, <2>7, <2>8, <2>9 DEF ApartAt
<1>3. S = Nat
    <2> HIDE DEF S
    <2>1. S \subseteq Nat
        BY DEF S
    <2> QED BY <1>1, <1>2, <2>1, NatBySets
<1> QED BY <1>0, <1>3

-----------------------------------------------------------------------------
\* At every depth the user of a container is the invoking user on the host and
\* nobody else is: every other id is one the host delegated, and no two ids are
\* one there, whatever the host delegated and however deep the containers.
THEOREM SubIdsUserApart == Spec => []UserStaysApart
<1>1. TranslateInv /\ [Next]_vars => TranslateInv'
    <2>1. ASSUME TranslateInv, UNCHANGED vars PROVE TranslateInv'
        BY <2>1 DEF TranslateInv, IInv, User, vars
    <2> QED BY <2>1, NestTranslates DEF Next
<1>2. TranslateInv => UserStaysApart
    <2>1. TranslateInv => \A d \in 1..depth : d \in 0..depth /\ d # 0
        BY SubIdsAssumption DEF TranslateInv, IInv, Depths
    <2> QED BY <2>1, ApartAtAll DEF UserStaysApart, ApartAt, Known, User
<1> QED BY InitTranslates, <1>1, <1>2, PTL DEF Spec
=============================================================================
