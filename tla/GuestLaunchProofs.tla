------------------------- MODULE GuestLaunchProofs -------------------------
(***************************************************************************)
(* The proofs about GuestLaunch: for every home, every invocation and      *)
(* every environment of the host.                                          *)
(*                                                                         *)
(* A launch computes four things one after the other, the volumes, the     *)
(* variables, what podman makes on the way to the volumes and what the     *)
(* agent's shell reads, and the inductive invariant says at every phase    *)
(* what each of them is, as a function of the invocation.  The rest is     *)
(* about these functions:                                                  *)
(*                                                                         *)
(*   the project     the deepest volume over its path is the project's     *)
(*                   own or the one it lies in (ProjectInSrc);             *)
(*   the variables   the last flag of a name decides (EnvironmentIs), the  *)
(*                   list of names comes apart as it was joined            *)
(*                   (JoinNamesIs), and the shell reads from a quoted      *)
(*                   line the value that was quoted (QuotedRuns,           *)
(*                   SourcedLines);                                        *)
(*   the residue     a directory podman makes on the host lies in the      *)
(*                   deepest volume over it, one that was made as the      *)
(*                   user is the project's or lies above it (ResidueOf).   *)
(*                                                                         *)
(* Induction is over sets of naturals (NatBySets, from the well-founded    *)
(* order on them).  A recursive function over a sequence is known by its   *)
(* steps: a function with these steps exists (Iteration), so the one that  *)
(* the definition chooses has them.                                        *)
(***************************************************************************)
EXTENDS GuestLaunch, SequenceTheorems, WellFoundedInduction, TLAPS

-----------------------------------------------------------------------------
(* Induction and iteration.                                                *)

\* Induction over the naturals, for a set of them.
LEMMA NatBySets ==
    ASSUME NEW S, S \subseteq Nat, 0 \in S, \A n \in S : n + 1 \in S
    PROVE  S = Nat
<1> DEFINE T == Nat \ S
<1> SUFFICES ASSUME T # {} PROVE FALSE
    OBVIOUS
<1> HIDE DEF T
<1>1. T \subseteq Nat
    BY DEF T
<1>2. \E x \in T : \A y \in T : ~ (<<y, x>> \in OpToRel(<, Nat))
    BY <1>1, NatLessThanWellFounded, WFMin
<1>3. PICK x \in T : \A y \in T : ~ (y < x)
    BY <1>1, <1>2 DEF OpToRel
<1>4. x # 0 /\ x \in Nat
    BY DEF T
<1>5. x - 1 \in Nat /\ x - 1 < x /\ (x - 1) + 1 = x
    BY <1>4
<1>6. x - 1 \in S
    BY <1>3, <1>5 DEF T
<1> QED BY <1>5, <1>6 DEF T

\* The same, up to a bound.
LEMMA UpToBySets ==
    ASSUME NEW n \in Nat, NEW S, 0 \in S, \A i \in 0..n : i \in S /\ i + 1 <= n => i + 1 \in S
    PROVE  0..n \subseteq S
<1> DEFINE T == {i \in Nat : i <= n => i \in S}
<1>1. 0 \in T
    OBVIOUS
<1>2. \A i \in T : i + 1 \in T
    OBVIOUS
<1>3. T \subseteq Nat
    OBVIOUS
<1> HIDE DEF T
<1>4. T = Nat
    BY <1>1, <1>2, <1>3, NatBySets
<1> QED BY <1>4 DEF T

\* A function can be defined by what it is at 0 and by a step.
Iterates(n, D, c, G) ==
    \E f \in [0..n -> D] : f[0] = c /\ \A i \in 1..n : f[i] = G[<<f[i - 1], i>>]

LEMMA Iteration ==
    ASSUME NEW n \in Nat, NEW D, NEW c \in D, NEW G \in [D \X (1..n) -> D]
    PROVE  Iterates(n, D, c, G)
<1> DEFINE Is(f, k) == /\ f \in [0..k -> D]
                       /\ f[0] = c
                       /\ \A i \in 1..k : f[i] = G[<<f[i - 1], i>>]
           S == {k \in 0..n : \E f : Is(f, k)}
<1>1. 0 \in S
    <2> DEFINE f == [i \in 0..0 |-> c]
    <2>1. Is(f, 0)
        OBVIOUS
    <2> HIDE DEF f, Is
    <2>2. \E g : Is(g, 0)
        BY <2>1
    <2> QED BY <2>2
<1>2. ASSUME NEW k \in 0..n, k \in S, k + 1 <= n PROVE k + 1 \in S
    <2>1. PICK f : Is(f, k)
        BY <1>2
    <2> DEFINE g == [i \in 0..(k + 1) |-> IF i = k + 1 THEN G[<<f[k], k + 1>>] ELSE f[i]]
    <2>2. k + 1 \in 1..n /\ f[k] \in D
        BY <1>2, <2>1
    <2>3. G[<<f[k], k + 1>>] \in D
        BY <2>2
    <2>4. g \in [0..(k + 1) -> D]
        BY <2>1, <2>3
    <2>5. g[0] = c
        BY <2>1
    <2>6. ASSUME NEW i \in 1..(k + 1) PROVE g[i] = G[<<g[i - 1], i>>]
        <3>1. i \in 0..(k + 1) /\ i - 1 \in 0..(k + 1) /\ i - 1 # k + 1 /\ g[i - 1] = f[i - 1]
            OBVIOUS
        <3>2. CASE i = k + 1
            <4>1. i - 1 = k
                BY <3>2
            <4> QED BY <3>1, <3>2, <4>1
        <3>3. CASE i # k + 1
            <4>1. i \in 1..k /\ g[i] = f[i]
                BY <3>1, <3>3
            <4> QED BY <2>1, <3>1, <4>1
        <3> QED BY <3>2, <3>3
    <2> HIDE DEF g
    <2>7. Is(g, k + 1)
        BY <2>4, <2>5, <2>6
    <2> HIDE DEF Is
    <2>8. k + 1 \in 0..n
        BY <1>2
    <2> QED BY <2>7, <2>8
<1>3. n \in S
    <2> HIDE DEF S
    <2>1. 0..n \subseteq S
        BY <1>1, <1>2, UpToBySets
    <2> QED BY <2>1
<1> QED BY <1>3 DEF Iterates

-----------------------------------------------------------------------------
(* Paths.                                                                  *)

LEMMA PathType ==
    ASSUME NEW p \in Path
    PROVE  /\ Len(p) \in Nat
           /\ \A i \in 1..Len(p) : p[i] \in Names
           /\ p # <<>> => Len(p) >= 1
BY DEF Path

LEMMA PathsEqual ==
    ASSUME NEW p \in Path, NEW q \in Path, Len(p) = Len(q), \A i \in 1..Len(p) : p[i] = q[i]
    PROVE  p = q
BY SeqEqual DEF Path

LEMMA Joins ==
    ASSUME NEW p \in Path, NEW q \in Path
    PROVE  /\ p \o q \in Path /\ Len(p \o q) = Len(p) + Len(q)
           /\ \A i \in 1..Len(p) : (p \o q)[i] = p[i]
           /\ \A i \in 1..Len(q) : (p \o q)[Len(p) + i] = q[i]
<1>1. /\ p \o q \in Seq(Names) /\ Len(p \o q) = Len(p) + Len(q)
      /\ \A i \in 1..(Len(p) + Len(q)) :
            (p \o q)[i] = IF i <= Len(p) THEN p[i] ELSE q[i - Len(p)]
    BY ConcatProperties DEF Path
<1>2. Len(p) \in Nat /\ Len(q) \in Nat
    BY PathType
<1>3. ASSUME NEW i \in 1..Len(p) PROVE (p \o q)[i] = p[i]
    <2>1. i \in 1..(Len(p) + Len(q)) /\ i <= Len(p)
        BY <1>2
    <2> QED BY <1>1, <2>1
<1>4. ASSUME NEW i \in 1..Len(q) PROVE (p \o q)[Len(p) + i] = q[i]
    <2>1. Len(p) + i \in 1..(Len(p) + Len(q)) /\ ~(Len(p) + i <= Len(p)) /\ (Len(p) + i) - Len(p) = i
        BY <1>2
    <2> QED BY <1>1, <2>1
<1> QED BY <1>1, <1>3, <1>4 DEF Path

LEMMA Slice ==
    ASSUME NEW p \in Path, NEW a \in 0..Len(p), NEW b \in a..Len(p)
    PROVE  /\ SubSeq(p, a + 1, b) \in Path
           /\ Len(SubSeq(p, a + 1, b)) = b - a
           /\ \A i \in 1..(b - a) : SubSeq(p, a + 1, b)[i] = p[a + i]
<1>1. a + 1 \in Int /\ b \in Int /\ \A i \in (a + 1)..b : p[i] \in Names
    BY DEF Path
<1>2. /\ SubSeq(p, a + 1, b) \in Seq(Names)
      /\ Len(SubSeq(p, a + 1, b)) = IF a + 1 <= b THEN b - (a + 1) + 1 ELSE 0
      /\ \A i \in 1..(b - (a + 1) + 1) : SubSeq(p, a + 1, b)[i] = p[(a + 1) + i - 1]
    BY <1>1, SubSeqProperties
<1>3. (IF a + 1 <= b THEN b - (a + 1) + 1 ELSE 0) = b - a
    BY PathType
<1>4. b - (a + 1) + 1 = b - a /\ \A i \in Int : (a + 1) + i - 1 = a + i
    BY PathType
<1> QED BY <1>2, <1>3, <1>4 DEF Path

LEMMA PrefixAt ==
    ASSUME NEW p \in Path, NEW q \in Path
    PROVE  IsPrefix(p, q) <=> Len(p) <= Len(q) /\ \A i \in 1..Len(p) : p[i] = q[i]
<1>1. Len(p) \in Nat /\ Len(q) \in Nat
    BY PathType
<1>2. SubSeq(p, 1, Len(p)) = p
    BY SubSeqFull DEF Path
<1>3. ASSUME Len(p) <= Len(q)
      PROVE  SubSeq(q, 1, Len(p)) = p <=> \A i \in 1..Len(p) : p[i] = q[i]
    <2> DEFINE r == SubSeq(q, 1, Len(p))
    <2>1. 0 \in 0..Len(q) /\ Len(p) \in 0..Len(q) /\ 0 + 1 = 1 /\ Len(p) - 0 = Len(p)
          /\ \A i \in 1..Len(p) : 0 + i = i
        BY <1>1, <1>3
    <2>2. /\ SubSeq(q, 0 + 1, Len(p)) \in Path /\ Len(SubSeq(q, 0 + 1, Len(p))) = Len(p) - 0
          /\ \A i \in 1..(Len(p) - 0) : SubSeq(q, 0 + 1, Len(p))[i] = q[0 + i]
        BY <2>1, Slice
    <2>3. r \in Path /\ Len(r) = Len(p) /\ \A i \in 1..Len(p) : r[i] = q[i]
        BY <2>1, <2>2
    <2> HIDE DEF r
    <2>4. ASSUME \A i \in 1..Len(p) : p[i] = q[i] PROVE r = p
        BY <2>3, <2>4, PathsEqual
    <2>5. ASSUME r = p PROVE \A i \in 1..Len(p) : p[i] = q[i]
        BY <2>3, <2>5
    <2> QED BY <2>4, <2>5 DEF r
<1> QED BY <1>2, <1>3 DEF IsPrefix

LEMMA PrefixWhole ==
    ASSUME NEW p \in Path, NEW q \in Path, IsPrefix(p, q), Len(p) >= Len(q)
    PROVE  p = q
<1>1. Len(p) \in Nat /\ Len(q) \in Nat
    BY PathType
<1>2. Len(p) <= Len(q) /\ \A i \in 1..Len(p) : p[i] = q[i]
    BY PrefixAt
<1> QED BY <1>1, <1>2, PathsEqual

LEMMA StrictPrefixAt ==
    ASSUME NEW p \in Path, NEW q \in Path, IsStrictPrefix(p, q)
    PROVE  Len(p) < Len(q) /\ \A i \in 1..Len(p) : p[i] = q[i]
<1>1. Len(p) \in Nat /\ Len(q) \in Nat
    BY PathType
<1>2. IsPrefix(p, q) /\ p # q
    BY DEF IsStrictPrefix
<1>3. Len(p) <= Len(q) /\ \A i \in 1..Len(p) : p[i] = q[i]
    BY <1>2, PrefixAt
<1>4. Len(p) # Len(q)
    BY <1>2, <1>3, PathsEqual
<1> QED BY <1>1, <1>3, <1>4

\* What follows a prefix.
LEMMA RelAt ==
    ASSUME NEW p \in Path, NEW q \in Path, Len(p) <= Len(q)
    PROVE  /\ Rel(p, q) \in Path /\ Len(Rel(p, q)) = Len(q) - Len(p)
           /\ \A i \in 1..(Len(q) - Len(p)) : Rel(p, q)[i] = q[Len(p) + i]
<1>1. Len(p) \in 0..Len(q) /\ Len(q) \in Len(p)..Len(q)
    BY PathType
<1> QED BY <1>1, Slice DEF Rel

LEMMA RelJoins ==
    ASSUME NEW p \in Path, NEW q \in Path, IsPrefix(p, q)
    PROVE  p \o Rel(p, q) = q
<1> DEFINE r == Rel(p, q)
<1>1. Len(p) \in Nat /\ Len(q) \in Nat /\ Len(p) <= Len(q) /\ \A i \in 1..Len(p) : p[i] = q[i]
    BY PrefixAt, PathType
<1>2. r \in Path /\ Len(r) = Len(q) - Len(p) /\ \A i \in 1..(Len(q) - Len(p)) : r[i] = q[Len(p) + i]
    BY <1>1, RelAt
<1> HIDE DEF r
<1>3. /\ p \o r \in Path /\ Len(p \o r) = Len(p) + Len(r)
      /\ \A i \in 1..Len(p) : (p \o r)[i] = p[i]
      /\ \A i \in 1..Len(r) : (p \o r)[Len(p) + i] = r[i]
    BY <1>2, Joins
<1>4. Len(p \o r) = Len(q)
    BY <1>1, <1>2, <1>3
<1>5. ASSUME NEW i \in 1..Len(q) PROVE (p \o r)[i] = q[i]
    <2>1. CASE i <= Len(p)
        BY <1>1, <1>3, <2>1
    <2>2. CASE ~(i <= Len(p))
        <3>1. i - Len(p) \in 1..Len(r) /\ Len(p) + (i - Len(p)) = i /\ i - Len(p) \in 1..(Len(q) - Len(p))
            BY <1>1, <1>2, <2>2
        <3>2. (p \o r)[Len(p) + (i - Len(p))] = r[i - Len(p)] /\ r[i - Len(p)] = q[Len(p) + (i - Len(p))]
            BY <1>2, <1>3, <3>1
        <3> QED BY <3>1, <3>2
    <2> QED BY <2>1, <2>2
<1>6. p \o r = q
    BY <1>3, <1>4, <1>5, PathsEqual
<1> QED BY <1>6 DEF r

-----------------------------------------------------------------------------
(* Volumes.                                                                *)

VolumeType == [host : Path, guest : Path]

\* No two are mounted at one place.
Apart(vs) == \A v, w \in vs : v.guest = w.guest => v = w

LEMMA Pairs ==
    ASSUME NEW S, NEW s \in S, NEW t \in S
    PROVE  <<s, t>> \in Seq(S)
OBVIOUS

LEMMA Home2 ==
    /\ GuestHome \in Path /\ Len(GuestHome) = 2
    /\ GuestHome[1] = "home" /\ GuestHome[2] = Username
<1>1. Username \in Names
    BY LaunchAssumption
<1>2. "home" \in Names
    BY LaunchAssumption
<1>3. <<"home", Username>> \in Seq(Names)
    BY <1>1, <1>2, Pairs
<1> QED BY <1>3 DEF GuestHome, Path

LEMMA Appends ==
    ASSUME NEW p \in Path, NEW n \in Names
    PROVE  /\ Append(p, n) \in Path /\ Len(Append(p, n)) = Len(p) + 1
           /\ \A i \in 1..Len(p) : Append(p, n)[i] = p[i]
           /\ Append(p, n)[Len(p) + 1] = n
<1>1. Len(p) \in Nat
    BY PathType
<1>2. /\ Append(p, n) \in Seq(Names) /\ Len(Append(p, n)) = Len(p) + 1
      /\ \A i \in 1..Len(p) : Append(p, n)[i] = p[i]
      /\ Append(p, n)[Len(p) + 1] = n
    <2>1. p \in Seq(Names)
        BY DEF Path
    <2> QED BY <2>1, AppendProperties
<1> QED BY <1>2 DEF Path

\* Prefixes of one path are alike as far as the shorter one goes.
LEMMA PrefixesOfOne ==
    ASSUME NEW p \in Path, NEW q \in Path, NEW r \in Path,
           IsPrefix(p, r), IsPrefix(q, r), Len(p) <= Len(q)
    PROVE  IsPrefix(p, q)
<1>1. Len(p) \in Nat /\ Len(q) \in Nat /\ Len(r) \in Nat
    BY PathType
<1>2. /\ \A i \in 1..Len(p) : p[i] = r[i]
      /\ \A i \in 1..Len(q) : q[i] = r[i]
    BY PrefixAt
<1>3. \A i \in 1..Len(p) : p[i] = q[i]
    BY <1>1, <1>2
<1> QED BY <1>3, PrefixAt

\* What a path shows when one of the volumes on the way is the deepest.
LEMMA ShowsAt ==
    ASSUME NEW vs, vs \subseteq VolumeType, Apart(vs), NEW path \in Path,
           NEW v \in vs, IsPrefix(v.guest, path),
           \A w \in vs : IsPrefix(w.guest, path) => Len(w.guest) <= Len(v.guest)
    PROVE  Shows(vs, path) = v.host \o Rel(v.guest, path)
<1> DEFINE over == {w \in vs : IsPrefix(w.guest, path)}
           d == Deepest(over)
<1>1. v \in over /\ \A w \in over : Len(w.guest) <= Len(v.guest)
    OBVIOUS
<1>2. d \in over /\ \A w \in over : Len(w.guest) <= Len(d.guest)
    <2> HIDE DEF over
    <2> QED BY <1>1 DEF Deepest
<1>3. v.guest \in Path /\ d.guest \in Path /\ d \in vs /\ IsPrefix(d.guest, path)
    BY <1>2 DEF VolumeType
<1> HIDE DEF d
<1>4. Len(d.guest) = Len(v.guest)
    <2>1. Len(d.guest) <= Len(v.guest) /\ Len(v.guest) <= Len(d.guest)
        BY <1>1, <1>2
    <2>2. Len(v.guest) \in Nat /\ Len(d.guest) \in Nat
        BY <1>3, PathType
    <2> QED BY <2>1, <2>2
<1>5. IsPrefix(d.guest, v.guest) /\ IsPrefix(v.guest, d.guest)
    <2>2. Len(v.guest) \in Nat /\ Len(d.guest) \in Nat
        BY <1>3, PathType
    <2> QED BY <2>2, <1>3, <1>4, PrefixesOfOne
<1>6. d.guest = v.guest
    <2>1. Len(d.guest) >= Len(v.guest)
        BY <1>3, <1>4, PathType
    <2> QED BY <2>1, <1>3, <1>5, PrefixWhole
<1>7. d = v
    BY <1>3, <1>6 DEF Apart
<1>8. over # {}
    BY <1>1
<1>9. Shows(vs, path) = d.host \o Rel(d.guest, path)
    BY <1>8 DEF Shows, d
<1> QED BY <1>7, <1>9

-----------------------------------------------------------------------------
(* What an invocation makes.                                               *)

EnvType == [name : Names, value : Path]

LEMMA Fields ==
    ASSUME NEW a \in Invocations
    PROVE  /\ a.cwd \in Path /\ a.sandbox \in Path /\ a.extra \subseteq VolumeSpecs
           /\ a.env \in Seq(EnvType) /\ a.gpu \in BOOLEAN /\ a.mode \in {"shell", "claude", "codex"}
           /\ a.timezone \in Path
<1>1. a \in InvocationType
    BY LaunchAssumption
<1> QED BY <1>1 DEF InvocationType, EnvType

LEMMA Words ==
    /\ \A n \in {"home", "state", "src", "projects", "temp", "shell", "claude", "codex", "driver",
                  "1", "layers", "toplevel"} : n \in Names
    /\ OPENGL_DRIVER_ENV.name \in Names /\ PROJECT_ENV \in Names /\ MODE_ENV \in Names
    /\ NAMES_ENV \in Names /\ Username \in Names
    /\ VERBOSE_ENV \in Names /\ USB_ENV \in Names /\ TIMEZONE_ENV \in Names
    /\ STORE_LAYERS_ENV \in Names /\ USERNAME_ENV \in Names /\ TOPLEVEL_ENV \in Names
    /\ Quote \in Names /\ Backslash \in Names /\ Newline \in Names /\ "=" \in Names
BY LaunchAssumption

LEMMA Short ==
    ASSUME NEW n \in Names
    PROVE  <<n>> \in Path /\ Len(<<n>>) = 1 /\ <<n>>[1] = n
BY DEF Path

LEMMA HomeDirType ==
    ASSUME home \in Homes, NEW a \in Invocations
    PROVE  home \in Path /\ HomeDir(a) \in Path
<1>1. home \in Path
    BY LaunchAssumption
<1>2. <<"state", "home">> \in Path
    BY Words, Pairs DEF Path
<1>3. home \o <<"state", "home">> \in Path
    BY <1>1, <1>2, Joins
<1> QED BY <1>1, <1>3, Fields DEF HomeDir

LEMMA GuestProjectPathType ==
    ASSUME home \in Homes, NEW a \in Invocations, ~Nameless(a)
    PROVE  GuestProjectPath(a) \in Path
<1>1. home \in Path /\ a.cwd \in Path
    BY HomeDirType, Fields
<1>2. CASE UnderSrc(a)
    <2>1. IsPrefix(Append(home, "src"), a.cwd)
        BY <1>2 DEF UnderSrc
    <2>2. Append(home, "src") \in Path /\ Len(Append(home, "src")) = Len(home) + 1
        BY <1>1, Words, Appends
    <2>3. Len(home) + 1 <= Len(a.cwd)
        BY <1>1, <2>1, <2>2, PrefixAt
    <2>4. Len(home) <= Len(a.cwd)
        BY <1>1, <2>3, PathType
    <2>5. Rel(home, a.cwd) \in Path
        BY <1>1, <2>4, RelAt
    <2>6. GuestHome \o Rel(home, a.cwd) \in Path
        BY <2>5, Home2, Joins
    <2> QED BY <1>2, <2>6 DEF GuestProjectPath
<1>3. CASE ~UnderSrc(a) /\ OneToOne(a)
    BY <1>1, <1>3 DEF GuestProjectPath
<1>4. CASE ~UnderSrc(a) /\ ~OneToOne(a)
    <2>1. a.cwd # <<>>
        BY <1>4 DEF Nameless
    <2>2. Len(a.cwd) >= 1 /\ Len(a.cwd) \in Nat /\ \A i \in 1..Len(a.cwd) : a.cwd[i] \in Names
        BY <1>1, <2>1, PathType
    <2>3. Last(a.cwd) \in Names
        BY <2>2 DEF Last
    <2>4. "projects" \in Names
        BY Words
    <2>5. <<"projects", Last(a.cwd)>> \in Path
        BY <2>3, <2>4, Pairs DEF Path
    <2> QED BY <1>4, <2>5 DEF GuestProjectPath
<1> QED BY <1>2, <1>3, <1>4

LEMMA ExtraVolumesType ==
    ASSUME NEW a \in Invocations
    PROVE  ExtraVolumes(a) \subseteq VolumeType
<1> SUFFICES ASSUME NEW spec \in a.extra PROVE ExtraVolume(a, spec) \in VolumeType
    BY DEF ExtraVolumes
<1>1. a.cwd \in Path /\ spec.host \in Path /\ spec.guest \in Path
    BY Fields DEF VolumeSpecs
<1>2. a.cwd \o spec.host \in Path
    BY <1>1, Joins
<1> QED BY <1>1, <1>2 DEF ExtraVolume, Volume, VolumeType

LEMMA VolumeCases ==
    ASSUME NEW a, NEW v
    PROVE  v \in Volumes(a) <=>
             \/ v = Volume(HomeDir(a), GuestHome)
             \/ a.sandbox = NoDir /\ v = Volume(Append(home, "src"), Append(GuestHome, "src"))
             \/ NeedProjectShare(a) /\ v = Volume(a.cwd, GuestProjectPath(a))
             \/ v \in ExtraVolumes(a)
BY DEF Volumes

LEMMA VolumeFields ==
    ASSUME NEW h \in Path, NEW g \in Path
    PROVE  Volume(h, g) \in VolumeType /\ Volume(h, g).host = h /\ Volume(h, g).guest = g
BY DEF Volume, VolumeType

LEMMA VolumesType ==
    ASSUME home \in Homes, NEW a \in Invocations, ~Nameless(a)
    PROVE  Volumes(a) \subseteq VolumeType
<1>1. /\ HomeDir(a) \in Path /\ GuestHome \in Path /\ a.cwd \in Path /\ GuestProjectPath(a) \in Path
      /\ Append(home, "src") \in Path /\ Append(GuestHome, "src") \in Path
    BY HomeDirType, GuestProjectPathType, Home2, Words, Appends, Fields
<1> QED BY <1>1, ExtraVolumesType, VolumeCases, VolumeFields

-----------------------------------------------------------------------------
(* The project as the volumes show it.                                     *)

LEMMA PrefixSelf ==
    ASSUME NEW p \in Path
    PROVE  IsPrefix(p, p) /\ p \o Rel(p, p) = p
<1>1. IsPrefix(p, p)
    BY PrefixAt, PathType
<1> QED BY <1>1, RelJoins

LEMMA RelSelf ==
    ASSUME NEW p \in Path, NEW q \in Path
    PROVE  q \o Rel(p, p) = q
<1> DEFINE r == Rel(p, p)
<1>1. Len(p) \in Nat /\ Len(p) <= Len(p) /\ Len(p) - Len(p) = 0 /\ Len(q) \in Nat
    BY PathType
<1>2. r \in Path /\ Len(r) = 0
    BY <1>1, RelAt
<1> HIDE DEF r
<1>3. q \o r \in Path /\ Len(q \o r) = Len(q) + 0 /\ \A i \in 1..Len(q) : (q \o r)[i] = q[i]
    BY <1>2, Joins
<1>4. Len(q) + 0 = Len(q)
    BY <1>1
<1>5. q \o r = q
    BY <1>3, <1>4, PathsEqual
<1> QED BY <1>5 DEF r

LEMMA ProjectShared ==
    ASSUME home \in Homes, NEW a \in Invocations, ~Nameless(a), Apart(Volumes(a)),
           NeedProjectShare(a)
    PROVE  Shows(Volumes(a), GuestProjectPath(a)) = a.cwd
<1> DEFINE vs == Volumes(a)
           path == GuestProjectPath(a)
           v == Volume(a.cwd, path)
<1>1. path \in Path /\ a.cwd \in Path /\ vs \subseteq VolumeType
    BY GuestProjectPathType, Fields, VolumesType
<1>2. v \in vs
    BY VolumeCases
<1>3. v.host = a.cwd /\ v.guest = path
    BY <1>1, VolumeFields
<1> HIDE DEF vs, path, v
<1>4. ASSUME NEW w \in vs, IsPrefix(w.guest, path) PROVE Len(w.guest) <= Len(v.guest)
    <2>1. w.guest \in Path
        BY <1>1 DEF VolumeType
    <2> QED BY <1>1, <1>3, <1>4, <2>1, PrefixAt
<1>5. IsPrefix(v.guest, path)
    BY <1>1, <1>3, PrefixSelf
<1>6. Apart(vs)
    BY DEF vs
<1>7. Shows(vs, path) = v.host \o Rel(v.guest, path)
    BY <1>1, <1>2, <1>4, <1>5, <1>6, ShowsAt
<1>8. Shows(vs, path) = a.cwd \o Rel(path, path)
    BY <1>3, <1>7
<1>9. Shows(vs, path) = a.cwd
    BY <1>1, <1>8, RelSelf
<1> QED BY <1>9 DEF vs, path

\* In ~/src the project lies in the guest where it lies on the host.
LEMMA UnderSrcPath ==
    ASSUME home \in Homes, NEW a \in Invocations, UnderSrc(a)
    PROVE  LET top == Append(GuestHome, "src")
               path == GuestProjectPath(a)
           IN  /\ path \in Path /\ top \in Path /\ IsPrefix(top, path) /\ Len(top) = 3
               /\ Append(home, "src") \in Path
               /\ Append(home, "src") \o Rel(top, path) = a.cwd
<1> DEFINE top == Append(GuestHome, "src")
           path == GuestProjectPath(a)
           src == Append(home, "src")
           n == Len(home)
           r == Rel(home, a.cwd)
           s == Rel(top, path)
           m == Len(a.cwd)
<1>1. home \in Path /\ a.cwd \in Path /\ n \in Nat /\ m \in Nat
    BY HomeDirType, Fields, PathType
<1>2. /\ src \in Path /\ Len(src) = n + 1 /\ \A i \in 1..n : src[i] = home[i]
      /\ src[n + 1] = "src"
    BY <1>1, Words, Appends
<1>3. /\ top \in Path /\ Len(top) = 3 /\ top[3] = "src"
      /\ \A i \in 1..2 : top[i] = GuestHome[i]
    <2>1. /\ top \in Path /\ Len(top) = Len(GuestHome) + 1 /\ top[Len(GuestHome) + 1] = "src"
          /\ \A i \in 1..Len(GuestHome) : top[i] = GuestHome[i]
        BY Home2, Words, Appends
    <2>2. Len(GuestHome) = 2
        BY Home2
    <2> HIDE DEF top
    <2> QED BY <2>1, <2>2
<1>4. n + 1 <= m /\ \A i \in 1..(n + 1) : src[i] = a.cwd[i]
    <2>1. IsPrefix(src, a.cwd)
        BY DEF UnderSrc
    <2> HIDE DEF src, m, n
    <2>2. Len(src) <= Len(a.cwd) /\ \A i \in 1..Len(src) : src[i] = a.cwd[i]
        BY <1>1, <1>2, <2>1, PrefixAt
    <2> QED BY <1>2, <2>2 DEF m
<1>5. r \in Path /\ Len(r) = m - n /\ \A i \in 1..(m - n) : r[i] = a.cwd[n + i]
    <2>1. Len(home) <= Len(a.cwd)
        BY <1>1, <1>4
    <2>2. r \in Path /\ Len(r) = Len(a.cwd) - Len(home)
          /\ \A i \in 1..(Len(a.cwd) - Len(home)) : r[i] = a.cwd[Len(home) + i]
        BY <1>1, <2>1, RelAt
    <2> HIDE DEF r
    <2> QED BY <2>2
<1>6. path = GuestHome \o r
    BY DEF GuestProjectPath
<1> HIDE DEF path, src, top, n, m, r
<1>7. m - n \in Nat /\ m - n >= 1
    BY <1>1, <1>4
<1>8. /\ path \in Path /\ Len(path) = 2 + (m - n)
      /\ \A i \in 1..2 : path[i] = GuestHome[i]
      /\ \A i \in 1..(m - n) : path[2 + i] = r[i]
    <2>1. /\ path \in Path /\ Len(path) = Len(GuestHome) + Len(r)
          /\ \A i \in 1..Len(GuestHome) : path[i] = GuestHome[i]
          /\ \A i \in 1..Len(r) : path[Len(GuestHome) + i] = r[i]
        BY <1>5, <1>6, Home2, Joins
    <2> QED BY <1>5, <2>1, Home2
<1>9. IsPrefix(top, path)
    <2>1. Len(top) <= Len(path)
        BY <1>1, <1>3, <1>4, <1>8
    <2>2. path[3] = "src"
        <3>1. 1 \in 1..(m - n) /\ 2 + 1 = 3
            BY <1>1, <1>4
        <3>2. path[2 + 1] = r[1] /\ r[1] = a.cwd[n + 1]
            BY <1>5, <1>8, <3>1
        <3>3. a.cwd[n + 1] = "src"
            <4>1. n + 1 \in 1..(n + 1)
                BY <1>1
            <4> QED BY <1>2, <1>4, <4>1
        <3> QED BY <3>1, <3>2, <3>3
    <2>3. \A i \in 1..3 : top[i] = path[i]
        BY <1>3, <1>8, <2>2
    <2> QED BY <1>3, <1>8, <2>1, <2>3, PrefixAt
<1>10. /\ s \in Path /\ Len(s) = m - n - 1
      /\ \A i \in 1..(m - n - 1) : s[i] = a.cwd[n + 1 + i]
    <2>1. Len(top) <= Len(path) /\ Len(path) - Len(top) = m - n - 1
        BY <1>1, <1>3, <1>4, <1>8
    <2>2. /\ s \in Path /\ Len(s) = Len(path) - Len(top)
          /\ \A i \in 1..(Len(path) - Len(top)) : s[i] = path[Len(top) + i]
        BY <1>3, <1>8, <2>1, RelAt
    <2> HIDE DEF s
    <2>3. ASSUME NEW i \in 1..(m - n - 1) PROVE s[i] = a.cwd[n + 1 + i]
        <3>1. 3 + i = 2 + (1 + i) /\ 1 + i \in 1..(m - n) /\ n + (1 + i) = n + 1 + i
            BY <1>1
        <3>2. s[i] = path[3 + i] /\ path[2 + (1 + i)] = r[1 + i] /\ r[1 + i] = a.cwd[n + (1 + i)]
            BY <1>3, <1>5, <1>8, <2>1, <2>2, <3>1
        <3> QED BY <3>1, <3>2
    <2> QED BY <2>1, <2>2, <2>3
<1> HIDE DEF s
<1>11. src \o s = a.cwd
    <2> DEFINE t == src \o s
    <2>1. /\ t \in Path /\ Len(t) = (n + 1) + (m - n - 1)
          /\ \A i \in 1..(n + 1) : t[i] = src[i]
          /\ \A i \in 1..(m - n - 1) : t[(n + 1) + i] = s[i]
        <3>1. /\ t \in Path /\ Len(t) = Len(src) + Len(s)
              /\ \A i \in 1..Len(src) : t[i] = src[i]
              /\ \A i \in 1..Len(s) : t[Len(src) + i] = s[i]
            BY <1>2, <1>10, Joins
        <3> HIDE DEF t
        <3> QED BY <1>2, <1>10, <3>1
    <2> HIDE DEF t
    <2>2. Len(t) = Len(a.cwd)
        <3>1. (n + 1) + (m - n - 1) = m
            BY <1>1
        <3> QED BY <2>1, <3>1 DEF m
    <2>3. ASSUME NEW i \in 1..m PROVE t[i] = a.cwd[i]
        <3>1. CASE i <= n + 1
            BY <1>1, <1>4, <2>1, <3>1
        <3>2. CASE ~(i <= n + 1)
            <4>1. i - (n + 1) \in 1..(m - n - 1) /\ (n + 1) + (i - (n + 1)) = i
                BY <1>1, <3>2
            <4>2. t[(n + 1) + (i - (n + 1))] = s[i - (n + 1)]
                BY <2>1, <4>1
            <4>3. s[i - (n + 1)] = a.cwd[n + 1 + (i - (n + 1))]
                BY <1>10, <4>1
            <4> QED BY <4>1, <4>2, <4>3
        <3> QED BY <3>1, <3>2
    <2>4. t = a.cwd
        BY <1>1, <2>1, <2>2, <2>3, PathsEqual DEF m
    <2> QED BY <2>4 DEF t
<1> QED BY <1>2, <1>3, <1>8, <1>9, <1>11 DEF path, src, top, s

LEMMA ProjectInSrc ==
    ASSUME home \in Homes, NEW a \in Invocations, ~Nameless(a), Apart(Volumes(a)), UnderSrc(a),
           \A v \in ExtraVolumes(a) :
              ~ (/\ IsStrictPrefix(Append(GuestHome, "src"), v.guest)
                 /\ IsPrefix(v.guest, GuestProjectPath(a)))
    PROVE  Shows(Volumes(a), GuestProjectPath(a)) = a.cwd
<1> DEFINE vs == Volumes(a)
           path == GuestProjectPath(a)
           top == Append(GuestHome, "src")
           src == Append(home, "src")
           v == Volume(src, top)
<1>1. /\ path \in Path /\ top \in Path /\ IsPrefix(top, path) /\ Len(top) = 3
      /\ src \in Path /\ src \o Rel(top, path) = a.cwd
    BY UnderSrcPath
<1>2. vs \subseteq VolumeType
    BY VolumesType
<1>3. v \in vs
    BY VolumeCases DEF UnderSrc
<1>4. v.host = src /\ v.guest = top
    <2> HIDE DEF top, src
    <2> QED BY <1>1, VolumeFields
<1>5. ASSUME NEW w \in vs, IsPrefix(w.guest, path) PROVE Len(w.guest) <= Len(top)
    <2>1. w.guest \in Path /\ Len(w.guest) \in Nat
        BY <1>2, PathType DEF VolumeType
    <2>2. CASE w = Volume(HomeDir(a), GuestHome)
        <3>1. w.guest = GuestHome
            BY <2>2, HomeDirType, Home2, VolumeFields
        <3> QED BY <3>1, <1>1, Home2
    <2>3. CASE w = v
        <3>1. w.guest = top
            BY <1>4, <2>3
        <3> QED BY <1>1, <3>1
    <2>4. CASE w \in ExtraVolumes(a)
        <3> SUFFICES ASSUME ~(Len(w.guest) <= Len(top)) PROVE FALSE
            OBVIOUS
        <3>1. Len(top) <= Len(w.guest) /\ w.guest # top
            BY <1>1, <2>1
        <3>2. IsPrefix(top, w.guest)
            BY <1>1, <1>5, <2>1, <3>1, PrefixesOfOne
        <3>3. IsStrictPrefix(top, w.guest)
            BY <3>1, <3>2 DEF IsStrictPrefix
        <3> QED BY <1>5, <2>4, <3>3
    <2> QED BY <2>2, <2>3, <2>4, VolumeCases DEF NeedProjectShare
<1> HIDE DEF vs, path, v, top, src
<1>6. Apart(vs)
    BY DEF vs
<1>7. Shows(vs, path) = v.host \o Rel(v.guest, path)
    BY <1>1, <1>2, <1>3, <1>5, <1>4, <1>6, ShowsAt
<1>8. Shows(vs, path) = a.cwd
    BY <1>1, <1>4, <1>7
<1> QED BY <1>8 DEF vs, path

-----------------------------------------------------------------------------
(* The environment that flags make.                                        *)

EnvMaps == UNION {[X -> Path] : X \in SUBSET Names}

LEMMA NoVariables == <<>> \in EnvMaps /\ DOMAIN <<>> = {}
<1>1. <<>> \in [{} -> Path]
    OBVIOUS
<1>2. {} \in SUBSET Names
    OBVIOUS
<1> QED BY <1>1, <1>2 DEF EnvMaps

LEMMA EnvMapsAre ==
    ASSUME NEW f
    PROVE  f \in EnvMaps <=> f \in [DOMAIN f -> Path] /\ DOMAIN f \subseteq Names
BY DEF EnvMaps

LEMMA AssignType ==
    ASSUME NEW f \in EnvMaps, NEW n \in Names, NEW value \in Path
    PROVE  /\ Assign(f, n, value) \in EnvMaps
           /\ DOMAIN Assign(f, n, value) = DOMAIN f \union {n}
           /\ Assign(f, n, value)[n] = value
           /\ \A x \in DOMAIN f \ {n} : Assign(f, n, value)[x] = f[x]
<1> DEFINE X == DOMAIN f \union {n}
           g == Assign(f, n, value)
<1>1. f \in [DOMAIN f -> Path] /\ DOMAIN f \subseteq Names
    BY EnvMapsAre
<1>2. g = [x \in X |-> IF x = n THEN value ELSE f[x]]
    BY DEF Assign
<1>3. \A x \in X : (IF x = n THEN value ELSE f[x]) \in Path
    BY <1>1
<1>4. g \in [X -> Path] /\ X \subseteq Names
    BY <1>1, <1>2, <1>3
<1>5. g \in EnvMaps
    BY <1>4 DEF EnvMaps
<1> QED BY <1>2, <1>5

\* A flag that says something of its name.
Tells(flag) == flag.value # Inherit \/ flag.name \in DOMAIN HostEnv

ValueOf(flag) == IF flag.value = Inherit THEN HostEnv[flag.name] ELSE flag.value

LEMMA WithFlagIs ==
    ASSUME NEW f \in EnvMaps, NEW flag \in EnvType
    PROVE  /\ WithFlag(f, flag) \in EnvMaps
           /\ Tells(flag) => ValueOf(flag) \in Path /\ WithFlag(f, flag) = Assign(f, flag.name, ValueOf(flag))
           /\ ~Tells(flag) => WithFlag(f, flag) = f
<1>1. flag.name \in Names /\ flag.value \in Path
    BY DEF EnvType
<1>2. CASE flag.value # Inherit
    BY <1>1, <1>2, AssignType DEF WithFlag, Tells, ValueOf
<1>3. CASE flag.value = Inherit /\ flag.name \in DOMAIN HostEnv
    <2>1. HostEnv[flag.name] \in Path
        BY <1>3, LaunchAssumption
    <2> QED BY <1>1, <1>3, <2>1, AssignType DEF WithFlag, Tells, ValueOf
<1>4. CASE flag.value = Inherit /\ flag.name \notin DOMAIN HostEnv
    BY <1>4 DEF WithFlag, Tells
<1> QED BY <1>2, <1>3, <1>4

EnvSteps(fs, f) ==
    /\ f \in [0..Len(fs) -> EnvMaps]
    /\ f[0] = <<>>
    /\ \A i \in 1..Len(fs) : f[i] = WithFlag(f[i - 1], fs[i])
    /\ Environment(fs) = f[Len(fs)]

LEMMA EnvironmentSteps ==
    ASSUME NEW fs \in Seq(EnvType)
    PROVE  \E f : EnvSteps(fs, f)
<1> DEFINE n == Len(fs)
           G == [x \in EnvMaps \X (1..n) |-> WithFlag(x[1], fs[x[2]])]
           Is(f) == f = [i \in 0..n |-> IF i = 0 THEN <<>> ELSE WithFlag(f[i - 1], fs[i])]
<1>1. n \in Nat /\ \A i \in 1..n : fs[i] \in EnvType
    OBVIOUS
<1> HIDE DEF n
<1>2. \A e \in EnvMaps, i \in 1..n : WithFlag(e, fs[i]) \in EnvMaps
    BY <1>1, WithFlagIs
<1>3. G \in [EnvMaps \X (1..n) -> EnvMaps]
    BY <1>2
<1>4. \A e \in EnvMaps, i \in 1..n : G[<<e, i>>] = WithFlag(e, fs[i])
    OBVIOUS
<1> HIDE DEF G
<1>5. \E f : Is(f)
    <2>1. Iterates(n, EnvMaps, <<>>, G)
        BY <1>1, <1>3, NoVariables, Iteration
    <2>2. PICK f \in [0..n -> EnvMaps] : f[0] = <<>> /\ \A i \in 1..n : f[i] = G[<<f[i - 1], i>>]
        BY <2>1 DEF Iterates
    <2>3. \A i \in 1..n : f[i - 1] \in EnvMaps
        BY <1>1
    <2>4. \A i \in 1..n : f[i] = WithFlag(f[i - 1], fs[i])
        BY <1>4, <2>2, <2>3
    <2>5. ASSUME NEW i \in 0..n PROVE f[i] = IF i = 0 THEN <<>> ELSE WithFlag(f[i - 1], fs[i])
        <3>1. CASE i = 0
            BY <2>2, <3>1
        <3>2. CASE i # 0
            <4>1. i \in 1..n
                BY <1>1, <3>2
            <4> QED BY <2>4, <3>2, <4>1
        <3> QED BY <3>1, <3>2
    <2>6. f = [i \in 0..n |-> IF i = 0 THEN <<>> ELSE WithFlag(f[i - 1], fs[i])]
        BY <2>5
    <2> QED BY <2>6
<1> DEFINE after == CHOOSE f : Is(f)
<1>6. Environment(fs) = after[n]
    BY DEF Environment, n
<1>7. Is(after)
    <2> HIDE DEF Is
    <2> QED BY <1>5
<1> HIDE DEF after
<1>8. after[0] = <<>>
    <2>1. 0 \in 0..n
        BY <1>1
    <2> QED BY <1>7, <2>1
<1>9. \A i \in 1..n : after[i] = WithFlag(after[i - 1], fs[i])
    <2> TAKE i \in 1..n
    <2>1. i \in 0..n /\ i # 0
        BY <1>1
    <2> QED BY <1>7, <2>1
<1>10. \A i \in 0..n : after[i] \in EnvMaps
    <2> DEFINE S == {j \in Nat : after[j] \in EnvMaps}
    <2>1. 0 \in S
        BY <1>8, NoVariables
    <2>2. ASSUME NEW j \in 0..n, j \in S, j + 1 <= n PROVE j + 1 \in S
        <3>1. j + 1 \in 1..n /\ (j + 1) - 1 = j /\ j + 1 \in Nat /\ after[j] \in EnvMaps
            BY <1>1, <2>2
        <3> QED BY <1>2, <1>9, <3>1
    <2> HIDE DEF S
    <2>3. 0..n \subseteq S
        BY <1>1, <2>1, <2>2, UpToBySets
    <2> QED BY <2>3 DEF S
<1>11. after \in [0..n -> EnvMaps]
    BY <1>7, <1>10
<1>12. EnvSteps(fs, after)
    BY <1>6, <1>8, <1>9, <1>11 DEF EnvSteps, n
<1> QED BY <1>12

Made(fs, e, k) ==
    /\ \A n \in Names : n \in DOMAIN e <=> \E i \in 1..k : fs[i].name = n /\ Tells(fs[i])
    /\ \A i \in 1..k :
          /\ Tells(fs[i])
          /\ \A j \in (i + 1)..k : Tells(fs[j]) => fs[j].name # fs[i].name
          => e[fs[i].name] = ValueOf(fs[i])

LEMMA MadeStep ==
    ASSUME NEW fs \in Seq(EnvType), NEW k \in Nat, k + 1 <= Len(fs),
           NEW e \in EnvMaps, Made(fs, e, k)
    PROVE  Made(fs, WithFlag(e, fs[k + 1]), k + 1)
<1> DEFINE flag == fs[k + 1]
           g == WithFlag(e, flag)
           top == k + 1
<1>1. /\ \A i \in 1..top : fs[i] \in EnvType /\ fs[i].name \in Names
      /\ top \in 1..top /\ 1..top = 1..k \union {top} /\ top \notin 1..k
    <2>1. \A i \in 1..Len(fs) : fs[i] \in EnvType
        OBVIOUS
    <2>2. Len(fs) \in Nat /\ 1..top \subseteq 1..Len(fs)
        OBVIOUS
    <2> QED BY <2>1, <2>2 DEF EnvType
<1>2. flag \in EnvType /\ flag.name \in Names
    BY <1>1
<1>3. ASSUME NEW i \in 1..k
      PROVE  top \in (i + 1)..top /\ (i + 1)..k \subseteq (i + 1)..top
    OBVIOUS
<1>4. (top + 1)..top = {}
    OBVIOUS
<1> HIDE DEF top
<1>5. CASE Tells(flag)
    <2> DEFINE value == ValueOf(flag)
    <2>1. value \in Path /\ g = Assign(e, flag.name, value)
        BY <1>2, <1>5, WithFlagIs
    <2> HIDE DEF value, g
    <2>2. /\ DOMAIN g = DOMAIN e \union {flag.name} /\ g[flag.name] = value
          /\ \A x \in DOMAIN e \ {flag.name} : g[x] = e[x]
        <3> DEFINE m == flag.name
                   h == Assign(e, m, value)
        <3>1. m \in Names
            BY <1>2
        <3> HIDE DEF m
        <3>2. /\ DOMAIN h = DOMAIN e \union {m} /\ h[m] = value
              /\ \A x \in DOMAIN e \ {m} : h[x] = e[x]
            BY DEF Assign
        <3> HIDE DEF h
        <3>3. g = h
            BY <2>1 DEF h, m
        <3> QED BY <3>2, <3>3 DEF m
    <2>3. ASSUME NEW n \in Names
          PROVE  n \in DOMAIN g <=> \E i \in 1..top : fs[i].name = n /\ Tells(fs[i])
        <3>1. n \in DOMAIN e <=> \E i \in 1..k : fs[i].name = n /\ Tells(fs[i])
            BY DEF Made
        <3>2. n \in DOMAIN g <=> n \in DOMAIN e \/ n = flag.name
            BY <2>2
        <3> QED BY <1>1, <1>5, <3>1, <3>2 DEF top
    <2>4. ASSUME NEW i \in 1..top, Tells(fs[i]),
                 \A j \in (i + 1)..top : Tells(fs[j]) => fs[j].name # fs[i].name
          PROVE  g[fs[i].name] = ValueOf(fs[i])
        <3>1. CASE i = top
            <4>1. fs[i] = flag
                BY <3>1 DEF top
            <4> QED BY <2>2, <4>1 DEF value
        <3>2. CASE i \in 1..k
            <4>1. fs[top].name # fs[i].name
                BY <1>3, <1>5, <2>4, <3>2 DEF top
            <4>2. e[fs[i].name] = ValueOf(fs[i])
                BY <1>3, <2>4, <3>2 DEF Made
            <4>3. fs[i].name \in DOMAIN e
                BY <1>1, <2>4, <3>2 DEF Made
            <4> QED BY <2>2, <4>1, <4>2, <4>3 DEF top
        <3> QED BY <1>1, <3>1, <3>2
    <2> QED BY <2>3, <2>4 DEF Made, g, top
<1>6. CASE ~Tells(flag)
    <2>1. g = e
        BY <1>2, <1>6, WithFlagIs
    <2> HIDE DEF g
    <2>2. ASSUME NEW n \in Names
          PROVE  n \in DOMAIN g <=> \E i \in 1..top : fs[i].name = n /\ Tells(fs[i])
        <3>1. n \in DOMAIN e <=> \E i \in 1..k : fs[i].name = n /\ Tells(fs[i])
            BY DEF Made
        <3> QED BY <1>1, <1>6, <2>1, <3>1 DEF top
    <2>3. ASSUME NEW i \in 1..top, Tells(fs[i]),
                 \A j \in (i + 1)..top : Tells(fs[j]) => fs[j].name # fs[i].name
          PROVE  g[fs[i].name] = ValueOf(fs[i])
        <3>1. i \in 1..k
            BY <1>1, <1>6, <2>3 DEF top
        <3> QED BY <1>3, <2>1, <2>3, <3>1 DEF Made
    <2> QED BY <2>2, <2>3 DEF Made, g, top
<1> QED BY <1>5, <1>6

LEMMA EnvironmentIs ==
    ASSUME NEW fs \in Seq(EnvType)
    PROVE  Environment(fs) \in EnvMaps /\ Made(fs, Environment(fs), Len(fs))
<1> DEFINE n == Len(fs)
<1>1. n \in Nat
    OBVIOUS
<1>2. PICK f : EnvSteps(fs, f)
    BY EnvironmentSteps
<1>3. /\ \A i \in 0..n : f[i] \in EnvMaps
      /\ f[0] = <<>> /\ \A i \in 1..n : f[i] = WithFlag(f[i - 1], fs[i])
      /\ Environment(fs) = f[n]
    BY <1>2 DEF EnvSteps
<1> HIDE DEF n
<1> DEFINE S == {k \in Nat : Made(fs, f[k], k)}
<1>4. 0 \in S
    <2>1. \A i \in 1..0 : FALSE
        OBVIOUS
    <2>2. Made(fs, <<>>, 0)
        BY <2>1, NoVariables DEF Made
    <2> QED BY <1>3, <2>2
<1>5. ASSUME NEW k \in 0..n, k \in S, k + 1 <= n PROVE k + 1 \in S
    <2>1. k \in Nat /\ k + 1 \in Nat /\ k + 1 \in 1..n /\ (k + 1) - 1 = k
        BY <1>1, <1>5
    <2>2. f[k] \in EnvMaps /\ f[k + 1] = WithFlag(f[k], fs[k + 1])
        BY <1>3, <2>1
    <2>3. Made(fs, f[k + 1], k + 1)
        BY <1>5, <2>1, <2>2, MadeStep DEF n
    <2> QED BY <2>1, <2>3
<1> HIDE DEF S
<1>6. n \in S
    <2>1. 0..n \subseteq S
        BY <1>1, <1>4, <1>5, UpToBySets
    <2> QED BY <1>1, <2>1
<1>7. f[n] \in EnvMaps
    BY <1>1, <1>3
<1> QED BY <1>3, <1>6, <1>7 DEF S, n

-----------------------------------------------------------------------------
(* The flags of a launch.                                                  *)

LEMMA JoinsOf ==
    ASSUME NEW S, NEW p \in Seq(S), NEW q \in Seq(S)
    PROVE  /\ p \o q \in Seq(S) /\ Len(p \o q) = Len(p) + Len(q)
           /\ \A i \in 1..Len(p) : (p \o q)[i] = p[i]
           /\ \A i \in 1..Len(q) : (p \o q)[Len(p) + i] = q[i]
<1>1. /\ p \o q \in Seq(S) /\ Len(p \o q) = Len(p) + Len(q)
      /\ \A i \in 1..(Len(p) + Len(q)) :
            (p \o q)[i] = IF i <= Len(p) THEN p[i] ELSE q[i - Len(p)]
    BY ConcatProperties
<1>2. Len(p) \in Nat /\ Len(q) \in Nat
    OBVIOUS
<1>3. ASSUME NEW i \in 1..Len(p) PROVE (p \o q)[i] = p[i]
    <2>1. i \in 1..(Len(p) + Len(q)) /\ i <= Len(p)
        BY <1>2
    <2> QED BY <1>1, <2>1
<1>4. ASSUME NEW i \in 1..Len(q) PROVE (p \o q)[Len(p) + i] = q[i]
    <2>1. Len(p) + i \in 1..(Len(p) + Len(q)) /\ ~(Len(p) + i <= Len(p)) /\ (Len(p) + i) - Len(p) = i
        BY <1>2
    <2> QED BY <1>1, <2>1
<1> QED BY <1>1, <1>3, <1>4

LEMMA EnvSpecsType ==
    ASSUME NEW a \in Invocations
    PROVE  EnvSpecs(a) \in Seq(EnvType) /\ Len(EnvSpecs(a)) \in Nat
<1>1. a.env \in Seq(EnvType)
    BY Fields
<1>2. <<"driver">> \in Path
    BY Words, Short
<1>3. OPENGL_DRIVER_ENV \in EnvType
    BY <1>2, Words DEF OPENGL_DRIVER_ENV, EnvType
<1>4. <<OPENGL_DRIVER_ENV>> \in Seq(EnvType)
    BY <1>3
<1>5. <<OPENGL_DRIVER_ENV>> \o a.env \in Seq(EnvType)
    BY <1>1, <1>4, JoinsOf
<1> QED BY <1>1, <1>5 DEF EnvSpecs

\* The list of names, and how it is read.
LEMMA JoinNamesIs ==
    ASSUME NEW specs \in Seq(EnvType), Len(specs) # 0
    PROVE  /\ JoinNames(specs) \in Path
           /\ Len(JoinNames(specs)) = 2 * Len(specs) - 1
           /\ \A i \in 1..Len(specs) : JoinNames(specs)[2 * i - 1] = specs[i].name
<1> DEFINE m == Len(specs)
           J == JoinNames(specs)
<1>1. m \in Nat /\ m >= 1 /\ \A i \in 1..m : specs[i].name \in Names
    <2>1. m \in Nat /\ \A i \in 1..m : specs[i] \in EnvType
        OBVIOUS
    <2>2. m # 0
        OBVIOUS
    <2> HIDE DEF m
    <2> QED BY <2>1, <2>2 DEF EnvType
<1>2. J = [k \in 1..(2 * m - 1) |-> IF k % 2 = 1 THEN specs[(k + 1) \div 2].name ELSE Newline]
    BY DEF JoinNames
<1> HIDE DEF J, m
<1>3. ASSUME NEW k \in 1..(2 * m - 1), k % 2 = 1 PROVE (k + 1) \div 2 \in 1..m
    BY <1>1, <1>3
<1>4. \A k \in 1..(2 * m - 1) : (IF k % 2 = 1 THEN specs[(k + 1) \div 2].name ELSE Newline) \in Names
    BY <1>1, <1>3, Words
<1>5. 2 * m - 1 \in Nat
    BY <1>1
<1>6. J \in [1..(2 * m - 1) -> Names]
    BY <1>2, <1>4
<1>7. J \in Seq(Names) /\ Len(J) = 2 * m - 1
    BY <1>5, <1>6
<1>8. ASSUME NEW i \in 1..m PROVE J[2 * i - 1] = specs[i].name
    <2>1. 2 * i - 1 \in 1..(2 * m - 1) /\ (2 * i - 1) % 2 = 1 /\ ((2 * i - 1) + 1) \div 2 = i
        BY <1>1
    <2> QED BY <1>2, <2>1
<1> QED BY <1>7, <1>8 DEF J, m, Path

LEMMA ProjectPathSays ==
    ASSUME home \in Homes, NEW a \in Invocations, ~Nameless(a)
    PROVE  GuestProjectPath(a) # Inherit /\ GuestProjectPath(a) # <<>>
<1> DEFINE path == GuestProjectPath(a)
<1>1. home \in Path /\ a.cwd \in Path /\ Len(home) \in Nat /\ Len(a.cwd) \in Nat
    BY HomeDirType, Fields, PathType
<1>2. Len(Inherit) = 2 /\ Inherit[1] = "no" /\ Inherit[2] = "value"
    BY DEF Inherit
<1>3. CASE UnderSrc(a)
    <2>1. IsPrefix(Append(GuestHome, "src"), path) /\ path \in Path /\ Append(GuestHome, "src") \in Path
          /\ Len(Append(GuestHome, "src")) = 3
        BY <1>3, UnderSrcPath
    <2>2. Len(path) >= 3
        BY <2>1, PrefixAt, PathType
    <2> HIDE DEF path
    <2>3. path # Inherit
        <3> SUFFICES ASSUME path = Inherit PROVE FALSE
            OBVIOUS
        <3>1. Len(path) = 2
            BY <1>2
        <3> QED BY <2>2, <3>1
    <2>4. path # <<>>
        <3> SUFFICES ASSUME path = <<>> PROVE FALSE
            OBVIOUS
        <3>1. Len(path) = 0
            OBVIOUS
        <3> QED BY <2>2, <3>1
    <2> QED BY <2>3, <2>4 DEF path
<1>4. CASE ~UnderSrc(a) /\ OneToOne(a)
    <2>1. PICK root \in {"projects", "temp"} : IsPrefix(Append(home, root), a.cwd)
        BY <1>4 DEF OneToOne
    <2>2. root \in Names
        BY Words
    <2>3. Append(home, root) \in Path /\ Len(Append(home, root)) = Len(home) + 1
          /\ Append(home, root)[Len(home) + 1] = root
        BY <1>1, <2>2, Appends
    <2>4. Len(home) + 1 <= Len(a.cwd) /\ a.cwd[Len(home) + 1] = root
        <3> DEFINE p == Append(home, root)
        <3>1. Len(home) + 1 \in 1..(Len(home) + 1)
            BY <1>1
        <3> HIDE DEF p
        <3>2. Len(p) <= Len(a.cwd) /\ \A i \in 1..Len(p) : p[i] = a.cwd[i]
            BY <1>1, <2>1, <2>3, PrefixAt DEF p
        <3>3. Len(p) = Len(home) + 1 /\ p[Len(home) + 1] = root
            BY <2>3 DEF p
        <3> QED BY <3>1, <3>2, <3>3
    <2>5. ASSUME a.cwd = Inherit PROVE FALSE
        <3>1. Len(a.cwd) = 2 /\ a.cwd[1] = "no" /\ a.cwd[2] = "value"
            BY <1>2, <2>5
        <3> DEFINE n == Len(home)
                   c == a.cwd
                   l == Len(c)
        <3>2. n \in Nat /\ n + 1 <= l /\ l = 2 /\ c[n + 1] = root /\ c[1] = "no" /\ c[2] = "value"
            BY <1>1, <2>4, <3>1
        <3> HIDE DEF n, c, l
        <3>3. n + 1 = 1 \/ n + 1 = 2
            BY <3>2
        <3>4. c[n + 1] = "no" \/ c[n + 1] = "value"
            BY <3>2, <3>3
        <3> QED BY <3>2, <3>4
    <2>6. a.cwd # <<>>
        BY <1>1, <2>4
    <2> QED BY <1>4, <2>5, <2>6 DEF GuestProjectPath
<1>5. CASE ~UnderSrc(a) /\ ~OneToOne(a)
    <2>1. path = <<"projects", Last(a.cwd)>>
        BY <1>5 DEF GuestProjectPath
    <2>2. path[1] = "projects" /\ Len(path) = 2
        BY <2>1
    <2> HIDE DEF path
    <2>3. path # Inherit /\ path # <<>>
        BY <1>2, <2>2
    <2> QED BY <2>3 DEF path
<1> QED BY <1>3, <1>4, <1>5

\* Flags of which none is the list of names.
OwnPart(fs) == fs \in Seq(EnvType) /\ \A i \in 1..Len(fs) : fs[i].name # NAMES_ENV

LEMMA OwnOne ==
    ASSUME NEW condition \in BOOLEAN, NEW name \in Names, NEW value \in Path, name # NAMES_ENV
    PROVE  OwnPart(When(condition, EnvArg(name, value)))
<1> DEFINE flag == EnvArg(name, value)
<1>1. flag \in EnvType /\ flag.name # NAMES_ENV
    BY DEF EnvArg, EnvType
<1> HIDE DEF flag
<1>2. OwnPart(<<flag>>)
    BY <1>1 DEF OwnPart
<1>3. OwnPart(<<>>)
    BY EmptySeq DEF OwnPart
<1>4. When(condition, flag) = IF condition THEN <<flag>> ELSE <<>>
    BY DEF When
<1> QED BY <1>2, <1>3, <1>4 DEF flag

LEMMA OwnJoin ==
    ASSUME NEW fs, OwnPart(fs), NEW gs, OwnPart(gs)
    PROVE  OwnPart(fs \o gs)
<1>1. fs \in Seq(EnvType) /\ gs \in Seq(EnvType) /\ Len(fs) \in Nat /\ Len(gs) \in Nat
    BY DEF OwnPart
<1>2. /\ fs \o gs \in Seq(EnvType) /\ Len(fs \o gs) = Len(fs) + Len(gs)
      /\ \A i \in 1..Len(fs) : (fs \o gs)[i] = fs[i]
      /\ \A i \in 1..Len(gs) : (fs \o gs)[Len(fs) + i] = gs[i]
    BY <1>1, JoinsOf
<1>3. ASSUME NEW i \in 1..Len(fs \o gs) PROVE (fs \o gs)[i].name # NAMES_ENV
    <2>1. CASE i \in 1..Len(fs)
        BY <1>2, <2>1 DEF OwnPart
    <2>2. CASE i \notin 1..Len(fs)
        <3>1. i - Len(fs) \in 1..Len(gs) /\ Len(fs) + (i - Len(fs)) = i
            BY <1>1, <1>2, <2>2
        <3>2. (fs \o gs)[i] = gs[i - Len(fs)]
            BY <1>2, <3>1
        <3> QED BY <3>1, <3>2 DEF OwnPart
    <2> QED BY <2>1, <2>2
<1> QED BY <1>2, <1>3 DEF OwnPart

\* The launcher's own flags end with the project path and the mode.
LEMMA OwnFlagsAre ==
    ASSUME home \in Homes, NEW a \in Invocations, ~Nameless(a)
    PROVE  /\ OwnPart(OwnFlags(a)) /\ Len(OwnFlags(a)) \in Nat \ {0, 1}
           /\ OwnFlags(a)[Len(OwnFlags(a)) - 1] = EnvArg(PROJECT_ENV, GuestProjectPath(a))
           /\ OwnFlags(a)[Len(OwnFlags(a))] = EnvArg(MODE_ENV, <<a.mode>>)
<1> DEFINE verbose == When(a.verbose, EnvArg(VERBOSE_ENV, <<"1">>))
           usb == When(a.usb, EnvArg(USB_ENV, <<"1">>))
           timezone == When(a.timezone # NoDir, EnvArg(TIMEZONE_ENV, a.timezone))
           layers == EnvArg(STORE_LAYERS_ENV, <<"layers">>)
           username == EnvArg(USERNAME_ENV, <<Username>>)
           toplevel == EnvArg(TOPLEVEL_ENV, <<"toplevel">>)
           project == EnvArg(PROJECT_ENV, GuestProjectPath(a))
           mode == EnvArg(MODE_ENV, <<a.mode>>)
           options == verbose \o usb \o timezone
           always == <<layers, username, toplevel, project, mode>>
           own == options \o always
<1>1. OwnFlags(a) = own
    BY DEF OwnFlags
<1>2. /\ VERBOSE_ENV # NAMES_ENV /\ USB_ENV # NAMES_ENV /\ TIMEZONE_ENV # NAMES_ENV
      /\ STORE_LAYERS_ENV # NAMES_ENV /\ USERNAME_ENV # NAMES_ENV /\ TOPLEVEL_ENV # NAMES_ENV
      /\ PROJECT_ENV # NAMES_ENV /\ MODE_ENV # NAMES_ENV
    BY DEF VERBOSE_ENV, USB_ENV, TIMEZONE_ENV, STORE_LAYERS_ENV, USERNAME_ENV, TOPLEVEL_ENV,
           PROJECT_ENV, MODE_ENV, NAMES_ENV
<1>3. /\ <<"1">> \in Path /\ <<"layers">> \in Path /\ <<"toplevel">> \in Path
      /\ <<Username>> \in Path /\ <<a.mode>> \in Path
      /\ a.timezone \in Path /\ GuestProjectPath(a) \in Path
    <2>1. a.mode \in Names
        BY Fields, Words
    <2>2. a.timezone \in Path /\ GuestProjectPath(a) \in Path
        BY Fields, GuestProjectPathType
    <2> QED BY <2>1, <2>2, Words, Short
<1>4. OwnPart(verbose) /\ OwnPart(usb) /\ OwnPart(timezone)
    <2>1. a.verbose \in BOOLEAN /\ a.usb \in BOOLEAN
        BY LaunchAssumption DEF InvocationType
    <2>2. OwnPart(verbose)
        BY <1>2, <1>3, <2>1, OwnOne, Words
    <2>3. OwnPart(usb)
        BY <1>2, <1>3, <2>1, OwnOne, Words
    <2>4. (a.timezone # NoDir) \in BOOLEAN
        OBVIOUS
    <2>5. OwnPart(timezone)
        BY <1>2, <1>3, <2>4, OwnOne, Words
    <2> QED BY <2>2, <2>3, <2>5
<1>5. /\ layers \in EnvType /\ username \in EnvType /\ toplevel \in EnvType
      /\ project \in EnvType /\ mode \in EnvType
    BY <1>3, Words DEF EnvArg, EnvType
<1>6. /\ layers.name # NAMES_ENV /\ username.name # NAMES_ENV /\ toplevel.name # NAMES_ENV
      /\ project.name # NAMES_ENV /\ mode.name # NAMES_ENV
    BY <1>2 DEF EnvArg
<1> HIDE DEF verbose, usb, timezone, layers, username, toplevel, project, mode
<1>7. always \in Seq(EnvType) /\ Len(always) = 5 /\ always[4] = project /\ always[5] = mode
    BY <1>5
<1>8. OwnPart(always)
    <2>1. \A i \in 1..5 : always[i].name # NAMES_ENV
        BY <1>6
    <2> HIDE DEF always
    <2> QED BY <1>7, <2>1 DEF OwnPart
<1>9. OwnPart(options)
    BY <1>4, OwnJoin
<1> HIDE DEF always, options
<1>10. OwnPart(own)
    BY <1>8, <1>9, OwnJoin
<1>11. options \in Seq(EnvType) /\ Len(options) \in Nat
    BY <1>9 DEF OwnPart
<1>12. /\ Len(own) = Len(options) + Len(always)
       /\ \A i \in 1..Len(always) : own[Len(options) + i] = always[i]
    <2>1. options \in Seq(EnvType) /\ always \in Seq(EnvType)
        BY <1>7, <1>11
    <2> QED BY <2>1, JoinsOf
<1> HIDE DEF own
<1>13. Len(own) = Len(options) + 5 /\ own[Len(options) + 4] = project /\ own[Len(options) + 5] = mode
    BY <1>7, <1>12
<1>14. Len(own) \in Nat \ {0, 1} /\ Len(own) - 1 = Len(options) + 4
    BY <1>11, <1>13
<1> QED BY <1>1, <1>10, <1>13, <1>14 DEF project, mode

LEMMA ListedIs ==
    ASSUME NEW a \in Invocations
    PROVE  /\ Listed(a) \in Seq(EnvType)
           /\ EnvSpecs(a) = <<>> => Listed(a) = <<>>
           /\ EnvSpecs(a) # <<>> => Listed(a) = <<EnvArg(NAMES_ENV, JoinNames(EnvSpecs(a)))>>
<1> DEFINE specs == EnvSpecs(a)
           names == EnvArg(NAMES_ENV, JoinNames(EnvSpecs(a)))
<1>1. Listed(a) = IF specs # <<>> THEN <<names>> ELSE <<>>
    BY DEF Listed, When
<1>2. ASSUME specs # <<>> PROVE names \in EnvType
    <2>1. specs \in Seq(EnvType) /\ Len(specs) # 0
        BY <1>2, EnvSpecsType, EmptySeq
    <2>2. JoinNames(specs) \in Path
        BY <2>1, JoinNamesIs
    <2> QED BY <2>2, Words DEF EnvArg, EnvType
<1> HIDE DEF names
<1>3. CASE specs = <<>>
    BY <1>1, <1>3, EmptySeq
<1>4. CASE specs # <<>>
    BY <1>1, <1>2, <1>4 DEF names
<1> QED BY <1>3, <1>4

LEMMA SpecNames ==
    ASSUME NEW a \in Invocations, ~BadEnv(a), NEW i \in 1..Len(EnvSpecs(a))
    PROVE  /\ EnvSpecs(a)[i] \in EnvType
           /\ EnvSpecs(a)[i].name \in Names
           /\ EnvSpecs(a)[i].name \notin BadNames \union {NAMES_ENV}
<1>1. EnvSpecs(a) \in Seq(EnvType)
    BY EnvSpecsType
<1>2. EnvSpecs(a)[i] \in EnvType
    BY <1>1
<1>3. EnvSpecs(a)[i].name \in Names
    BY <1>2 DEF EnvType
<1>4. a.env \in Seq(EnvType) /\ Len(a.env) \in Nat
      /\ \A j \in 1..Len(a.env) : a.env[j].name \notin BadNames \union {NAMES_ENV}
    BY Fields DEF BadEnv
<1>5. EnvSpecs(a)[i].name \notin BadNames \union {NAMES_ENV}
    <2>1. CASE ~a.gpu
        BY <1>4, <2>1 DEF EnvSpecs
    <2>2. CASE a.gpu
        <3> DEFINE gl == <<OPENGL_DRIVER_ENV>>
                   specs == gl \o a.env
        <3>1. EnvSpecs(a) = specs
            BY <2>2 DEF EnvSpecs
        <3>2. OPENGL_DRIVER_ENV.name = "LD_LIBRARY_PATH"
            BY DEF OPENGL_DRIVER_ENV
        <3>3. "LD_LIBRARY_PATH" \notin BadNames \union {NAMES_ENV}
            BY DEF BadNames, NAMES_ENV, Quote, Backslash, Newline
        <3>4. OPENGL_DRIVER_ENV \in EnvType
            <4>1. <<"driver">> \in Path
                BY Words, Short
            <4> QED BY <4>1, Words DEF OPENGL_DRIVER_ENV, EnvType
        <3>5. gl \in Seq(EnvType) /\ Len(gl) = 1 /\ gl[1] = OPENGL_DRIVER_ENV
            BY <3>4
        <3> HIDE DEF gl
        <3>6. /\ Len(specs) = 1 + Len(a.env) /\ specs[1] = OPENGL_DRIVER_ENV
              /\ \A j \in 1..Len(a.env) : specs[1 + j] = a.env[j]
            <4>1. /\ Len(specs) = Len(gl) + Len(a.env)
                  /\ \A j \in 1..Len(gl) : specs[j] = gl[j]
                  /\ \A j \in 1..Len(a.env) : specs[Len(gl) + j] = a.env[j]
                <5>1. gl \in Seq(EnvType) /\ a.env \in Seq(EnvType)
                    BY <1>4, <3>5
                <5> QED BY <5>1, JoinsOf
            <4> HIDE DEF specs
            <4>2. 1 \in 1..Len(gl)
                BY <3>5
            <4> QED BY <3>5, <4>1, <4>2
        <3> HIDE DEF specs
        <3>7. CASE i = 1
            BY <3>1, <3>2, <3>3, <3>6, <3>7
        <3>8. CASE i # 1
            <4>1. i - 1 \in 1..Len(a.env) /\ 1 + (i - 1) = i
                BY <1>4, <3>1, <3>6, <3>8
            <4>2. specs[i] = a.env[i - 1]
                BY <3>6, <4>1
            <4> QED BY <1>4, <3>1, <4>1, <4>2
        <3> QED BY <3>7, <3>8
    <2> QED BY <2>1, <2>2
<1> QED BY <1>2, <1>3, <1>5

\* Some flag says something of a name; the last one that does says so.
TellsOf(fs, n) == \E i \in 1..Len(fs) : fs[i].name = n /\ Tells(fs[i])

LastTells(fs, i) ==
    /\ i \in 1..Len(fs) /\ Tells(fs[i])
    /\ \A j \in (i + 1)..Len(fs) : Tells(fs[j]) => fs[j].name # fs[i].name

Gives(fs, n, value) == \E i : LastTells(fs, i) /\ fs[i].name = n /\ ValueOf(fs[i]) = value

LEMMA EnvironmentGives ==
    ASSUME NEW fs \in Seq(EnvType), NEW n \in Names
    PROVE  /\ n \in DOMAIN Environment(fs) <=> TellsOf(fs, n)
           /\ \A value : Gives(fs, n, value) => n \in DOMAIN Environment(fs) /\ Environment(fs)[n] = value
<1> DEFINE E == Environment(fs)
<1>1. Made(fs, E, Len(fs))
    BY EnvironmentIs
<1> HIDE DEF E
<1>2. n \in DOMAIN E <=> TellsOf(fs, n)
    BY <1>1 DEF Made, TellsOf
<1>3. ASSUME NEW value, Gives(fs, n, value) PROVE n \in DOMAIN E /\ E[n] = value
    <2>1. PICK i : LastTells(fs, i) /\ fs[i].name = n /\ ValueOf(fs[i]) = value
        BY <1>3 DEF Gives
    <2>2. TellsOf(fs, n)
        BY <2>1 DEF LastTells, TellsOf
    <2>3. E[fs[i].name] = ValueOf(fs[i])
        BY <1>1, <2>1 DEF Made, LastTells
    <2> QED BY <1>2, <2>1, <2>2, <2>3
<1> QED BY <1>2, <1>3 DEF E

LEMMA JoinTells ==
    ASSUME NEW fs \in Seq(EnvType), NEW gs \in Seq(EnvType), NEW n
    PROVE  /\ TellsOf(fs \o gs, n) <=> TellsOf(fs, n) \/ TellsOf(gs, n)
           /\ \A value : Gives(gs, n, value) => Gives(fs \o gs, n, value)
           /\ \A value : Gives(fs, n, value) /\ ~TellsOf(gs, n) => Gives(fs \o gs, n, value)
<1> DEFINE hs == fs \o gs
           k == Len(fs)
           l == Len(gs)
<1>1. k \in Nat /\ l \in Nat
    OBVIOUS
<1>2. /\ Len(hs) = k + l
      /\ \A i \in 1..k : hs[i] = fs[i]
      /\ \A i \in 1..l : hs[k + i] = gs[i]
    BY JoinsOf
<1> HIDE DEF hs
<1>3. ASSUME NEW i \in 1..Len(hs)
      PROVE  i \in 1..k \/ (i - k \in 1..l /\ hs[i] = gs[i - k])
    <2>1. CASE i > k
        <3>1. i - k \in 1..l /\ k + (i - k) = i
            BY <1>1, <1>2, <2>1 DEF k, l
        <3> QED BY <1>2, <3>1
    <2>2. CASE ~(i > k)
        BY <1>1, <2>2
    <2> QED BY <2>1, <2>2
<1>4. TellsOf(hs, n) <=> TellsOf(fs, n) \/ TellsOf(gs, n)
    <2>1. ASSUME TellsOf(hs, n) PROVE TellsOf(fs, n) \/ TellsOf(gs, n)
        BY <1>2, <1>3, <2>1 DEF TellsOf
    <2>2. ASSUME TellsOf(fs, n) PROVE TellsOf(hs, n)
        <3>1. 1..k \subseteq 1..Len(hs)
            BY <1>1, <1>2
        <3> QED BY <1>2, <2>2, <3>1 DEF TellsOf
    <2>3. ASSUME TellsOf(gs, n) PROVE TellsOf(hs, n)
        <3>1. PICK i \in 1..l : gs[i].name = n /\ Tells(gs[i])
            BY <2>3 DEF TellsOf
        <3>2. k + i \in 1..Len(hs) /\ hs[k + i] = gs[i]
            BY <1>1, <1>2
        <3> QED BY <3>1, <3>2 DEF TellsOf
    <2> QED BY <2>1, <2>2, <2>3
<1>5. ASSUME NEW value, Gives(gs, n, value) PROVE Gives(hs, n, value)
    <2>1. PICK i : LastTells(gs, i) /\ gs[i].name = n /\ ValueOf(gs[i]) = value
        BY <1>5 DEF Gives
    <2>2. i \in 1..l /\ Tells(gs[i]) /\ \A j \in (i + 1)..l : Tells(gs[j]) => gs[j].name # gs[i].name
        BY <2>1 DEF LastTells
    <2>3. k + i \in 1..Len(hs) /\ hs[k + i] = gs[i]
        BY <1>1, <1>2, <2>2
    <2>4. ASSUME NEW j \in ((k + i) + 1)..Len(hs), Tells(hs[j]) PROVE hs[j].name # hs[k + i].name
        <3>1. j \in 1..Len(hs) /\ ~(j \in 1..k)
            BY <1>1, <1>2, <2>2
        <3>2. j - k \in 1..l /\ hs[j] = gs[j - k]
            BY <1>3, <3>1
        <3>3. j - k \in (i + 1)..l
            BY <1>1, <2>2, <3>2
        <3> QED BY <2>2, <2>3, <2>4, <3>2, <3>3
    <2>5. LastTells(hs, k + i)
        BY <2>2, <2>3, <2>4 DEF LastTells
    <2> QED BY <2>1, <2>3, <2>5 DEF Gives
<1>6. ASSUME NEW value, Gives(fs, n, value), ~TellsOf(gs, n) PROVE Gives(hs, n, value)
    <2>1. PICK i : LastTells(fs, i) /\ fs[i].name = n /\ ValueOf(fs[i]) = value
        BY <1>6 DEF Gives
    <2>2. i \in 1..k /\ Tells(fs[i]) /\ \A j \in (i + 1)..k : Tells(fs[j]) => fs[j].name # fs[i].name
        BY <2>1 DEF LastTells
    <2>3. i \in 1..Len(hs) /\ hs[i] = fs[i]
        BY <1>1, <1>2, <2>2
    <2>4. ASSUME NEW j \in (i + 1)..Len(hs), Tells(hs[j]) PROVE hs[j].name # hs[i].name
        <3>1. j \in 1..Len(hs)
            BY <1>1, <1>2, <2>2
        <3>2. CASE j \in 1..k
            <4>1. j \in (i + 1)..k
                BY <1>1, <2>2, <3>2
            <4> QED BY <1>2, <2>2, <2>3, <2>4, <3>2, <4>1
        <3>3. CASE j \notin 1..k
            <4>1. j - k \in 1..l /\ hs[j] = gs[j - k]
                BY <1>3, <3>1, <3>3
            <4> QED BY <1>6, <2>1, <2>3, <2>4, <4>1 DEF TellsOf
        <3> QED BY <3>2, <3>3
    <2>5. LastTells(hs, i)
        BY <2>2, <2>3, <2>4 DEF LastTells
    <2> QED BY <2>1, <2>3, <2>5 DEF Gives
<1> QED BY <1>4, <1>5, <1>6 DEF hs

\* What the environment of the entry says.
LEMMA FlagsSay ==
    ASSUME home \in Homes, NEW a \in Invocations, ~Nameless(a), ~BadEnv(a)
    PROVE  LET E == Environment(Flags(a))
               specs == EnvSpecs(a)
               own == OwnFlags(a)
           IN  /\ E \in EnvMaps
               /\ E[PROJECT_ENV] = GuestProjectPath(a)
               /\ specs = <<>> => NAMES_ENV \notin DOMAIN E
               /\ specs # <<>> => NAMES_ENV \in DOMAIN E /\ E[NAMES_ENV] = JoinNames(specs)
               /\ \A n \in Names \ {NAMES_ENV} :
                     /\ n \in DOMAIN E <=> TellsOf(specs, n) \/ TellsOf(own, n)
                     /\ \A value : Gives(own, n, value) => E[n] = value
                     /\ \A value : Gives(specs, n, value) /\ ~TellsOf(own, n) => E[n] = value
<1> DEFINE specs == EnvSpecs(a)
           listed == Listed(a)
           own == OwnFlags(a)
           first == specs \o listed
           fs == first \o own
           E == Environment(fs)
           names == EnvArg(NAMES_ENV, JoinNames(EnvSpecs(a)))
           project == EnvArg(PROJECT_ENV, GuestProjectPath(a))
           mode == EnvArg(MODE_ENV, <<a.mode>>)
<1>1. Flags(a) = fs
    BY DEF Flags
<1>2. specs \in Seq(EnvType) /\ Len(specs) \in Nat
    BY EnvSpecsType
<1>3. listed \in Seq(EnvType) /\ (specs = <<>> => listed = <<>>) /\ (specs # <<>> => listed = <<names>>)
    BY ListedIs
<1>4. /\ OwnPart(own) /\ Len(own) \in Nat \ {0, 1}
      /\ own[Len(own) - 1] = project /\ own[Len(own)] = mode
    BY OwnFlagsAre
<1>5. own \in Seq(EnvType) /\ ~TellsOf(own, NAMES_ENV)
    BY <1>4 DEF OwnPart, TellsOf
<1>6. ~TellsOf(specs, NAMES_ENV)
    BY SpecNames DEF TellsOf
<1>7. /\ project.name = PROJECT_ENV /\ mode.name = MODE_ENV /\ names.name = NAMES_ENV
      /\ project.value = GuestProjectPath(a) /\ names.value = JoinNames(specs)
      /\ PROJECT_ENV # MODE_ENV
    BY DEF EnvArg, PROJECT_ENV, MODE_ENV
<1>8. Tells(project) /\ ValueOf(project) = GuestProjectPath(a)
    BY <1>7, ProjectPathSays DEF Tells, ValueOf
<1>9. ASSUME specs # <<>> PROVE Tells(names) /\ ValueOf(names) = JoinNames(specs)
    <2> DEFINE m == Len(specs)
    <2>1. m \in Nat /\ m # 0 /\ Len(JoinNames(specs)) = 2 * m - 1
        BY <1>2, <1>9, EmptySeq, JoinNamesIs
    <2>2. JoinNames(specs) # Inherit
        <3> SUFFICES ASSUME JoinNames(specs) = Inherit PROVE FALSE
            OBVIOUS
        <3>1. Len(Inherit) = 2
            BY DEF Inherit
        <3>2. 2 * m - 1 = 2
            BY <2>1, <3>1
        <3> HIDE DEF m
        <3> QED BY <2>1, <3>2
    <2> QED BY <1>7, <2>2 DEF Tells, ValueOf
<1> HIDE DEF specs, listed, own, names, project, mode
<1>10. first \in Seq(EnvType) /\ fs \in Seq(EnvType)
    <2>1. first \in Seq(EnvType)
        BY <1>2, <1>3, JoinsOf
    <2> HIDE DEF first
    <2> QED BY <1>5, <2>1, JoinsOf
<1>11. ASSUME NEW n
       PROVE  /\ TellsOf(first, n) <=> TellsOf(specs, n) \/ TellsOf(listed, n)
              /\ \A value : Gives(listed, n, value) => Gives(first, n, value)
              /\ \A value : Gives(specs, n, value) /\ ~TellsOf(listed, n) => Gives(first, n, value)
    BY <1>2, <1>3, JoinTells
<1> HIDE DEF first
<1>12. ASSUME NEW n
       PROVE  /\ TellsOf(fs, n) <=> TellsOf(first, n) \/ TellsOf(own, n)
              /\ \A value : Gives(own, n, value) => Gives(fs, n, value)
              /\ \A value : Gives(first, n, value) /\ ~TellsOf(own, n) => Gives(fs, n, value)
    BY <1>5, <1>10, JoinTells
<1> HIDE DEF fs
<1>13. E \in EnvMaps
    BY <1>10, EnvironmentIs
<1>14. ASSUME NEW n \in Names
       PROVE  /\ n \in DOMAIN E <=> TellsOf(fs, n)
              /\ \A value : Gives(fs, n, value) => n \in DOMAIN E /\ E[n] = value
    BY <1>10, EnvironmentGives
<1> HIDE DEF E
<1>15. E[PROJECT_ENV] = GuestProjectPath(a)
    <2> DEFINE r == Len(own)
    <2>1. r \in Nat \ {0, 1} /\ own[r - 1] = project /\ own[r] = mode
        BY <1>4
    <2> HIDE DEF r
    <2>2. r - 1 \in 1..r /\ \A j \in ((r - 1) + 1)..r : j = r
        BY <2>1
    <2>3. LastTells(own, r - 1)
        <3>1. r - 1 \in 1..Len(own)
            BY <2>2 DEF r
        <3>2. \A j \in ((r - 1) + 1)..Len(own) : own[j].name # own[r - 1].name
            BY <1>7, <2>1, <2>2 DEF r
        <3> QED BY <1>8, <2>1, <3>1, <3>2 DEF LastTells
    <2>4. Gives(own, PROJECT_ENV, GuestProjectPath(a))
        BY <1>7, <1>8, <2>1, <2>3 DEF Gives
    <2> QED BY <1>12, <1>14, <2>4, Words
<1>16. ASSUME specs = <<>> PROVE NAMES_ENV \notin DOMAIN E
    <2>1. ~TellsOf(<<>>, NAMES_ENV)
        BY DEF TellsOf
    <2>2. ~TellsOf(fs, NAMES_ENV)
        BY <1>3, <1>5, <1>6, <1>11, <1>12, <1>16, <2>1
    <2> QED BY <1>14, <2>2, Words
<1>17. ASSUME specs # <<>> PROVE NAMES_ENV \in DOMAIN E /\ E[NAMES_ENV] = JoinNames(specs)
    <2>1. listed = <<names>> /\ Tells(names) /\ ValueOf(names) = JoinNames(specs)
        BY <1>3, <1>9, <1>17
    <2>2. Len(<<names>>) = 1 /\ <<names>>[1] = names /\ 1 \in 1..1 /\ \A j \in (1 + 1)..1 : FALSE
        OBVIOUS
    <2>3. LastTells(<<names>>, 1)
        BY <2>1, <2>2 DEF LastTells
    <2>4. Gives(listed, NAMES_ENV, JoinNames(specs))
        BY <1>7, <2>1, <2>2, <2>3 DEF Gives
    <2>5. Gives(fs, NAMES_ENV, JoinNames(specs))
        BY <1>5, <1>11, <1>12, <2>4
    <2> QED BY <1>14, <2>5, Words
<1>18. ASSUME NEW n \in Names \ {NAMES_ENV}
       PROVE  /\ n \in DOMAIN E <=> TellsOf(specs, n) \/ TellsOf(own, n)
              /\ \A value : Gives(own, n, value) => E[n] = value
              /\ \A value : Gives(specs, n, value) /\ ~TellsOf(own, n) => E[n] = value
    <2>1. ~TellsOf(listed, n)
        <3>1. CASE specs = <<>>
            BY <1>3, <3>1 DEF TellsOf
        <3>2. CASE specs # <<>>
            <4>1. listed = <<names>> /\ Len(<<names>>) = 1 /\ <<names>>[1] = names
                BY <1>3, <3>2
            <4>2. \A i \in 1..1 : i = 1
                OBVIOUS
            <4> QED BY <1>7, <4>1, <4>2 DEF TellsOf
        <3> QED BY <3>1, <3>2
    <2> QED BY <1>11, <1>12, <1>14, <2>1
<1> QED BY <1>1, <1>13, <1>15, <1>16, <1>17, <1>18 DEF E, specs, own

-----------------------------------------------------------------------------
(* Sequences of sequences.                                                 *)

FlatSteps(seqs, g) ==
    /\ g \in [0..Len(seqs) -> Path]
    /\ g[0] = <<>>
    /\ \A i \in 1..Len(seqs) : g[i] = g[i - 1] \o seqs[i]
    /\ FlattenSeq(seqs) = g[Len(seqs)]

LEMMA EmptyPath ==
    /\ <<>> \in Path /\ Len(<<>>) = 0
    /\ \A p \in Path : <<>> \o p = p /\ p \o <<>> = p
    /\ \A p \in Path : Len(p) = 0 => p = <<>>
BY EmptySeq, ConcatEmptySeq DEF Path

LEMMA FlattenSteps ==
    ASSUME NEW seqs \in Seq(Path)
    PROVE  \E g : FlatSteps(seqs, g)
<1> DEFINE n == Len(seqs)
           G == [x \in Path \X (1..n) |-> x[1] \o seqs[x[2]]]
<1>1. n \in Nat /\ \A i \in 1..n : seqs[i] \in Path
    OBVIOUS
<1>2. Len(seqs) = n
    OBVIOUS
<1> HIDE DEF n
<1>3. \A p \in Path, i \in 1..n : p \o seqs[i] \in Path
    BY <1>1, Joins
<1>4. G \in [Path \X (1..n) -> Path]
    BY <1>3
<1>5. \A p \in Path, i \in 1..n : G[<<p, i>>] = p \o seqs[i]
    OBVIOUS
<1> HIDE DEF G
<1>6. PICK g \in [0..n -> Path] : g[0] = <<>> /\ \A i \in 1..n : g[i] = G[<<g[i - 1], i>>]
    <2>1. Iterates(n, Path, <<>>, G)
        BY <1>1, <1>4, EmptyPath, Iteration
    <2> QED BY <2>1 DEF Iterates
<1>7. ASSUME NEW i \in 1..n PROVE g[i] = g[i - 1] \o seqs[i]
    <2>1. i - 1 \in 0..n
        BY <1>1
    <2>2. g[i - 1] \in Path
        BY <2>1
    <2> QED BY <1>5, <1>6, <2>2
<1>8. FlattenSeq(seqs) = g[n]
    <2>1. CASE n = 0
        <3>1. FlattenSeq(seqs) = seqs
            BY <1>2, <2>1 DEF FlattenSeq
        <3>2. seqs = <<>>
            BY <1>2, <2>1, EmptySeq
        <3> QED BY <1>6, <2>1, <3>1, <3>2
    <2>2. CASE n # 0
        <3> DEFINE Is(f) == f = [i \in 1..n |-> IF i = 1 THEN seqs[i] ELSE f[i - 1] \o seqs[i]]
                   flat == CHOOSE f : Is(f)
                   h == [i \in 1..n |-> g[i]]
        <3>1. FlattenSeq(seqs) = flat[n]
            BY <1>2, <2>2 DEF FlattenSeq
        <3>2. Is(h)
            <4>1. ASSUME NEW i \in 1..n
                  PROVE  h[i] = IF i = 1 THEN seqs[i] ELSE h[i - 1] \o seqs[i]
                <5>1. CASE i = 1
                    <6>1. g[1] = g[0] \o seqs[1] /\ seqs[1] \in Path
                        <7>1. 1 - 1 = 0 /\ 1 \in 1..n
                            BY <5>1
                        <7> QED BY <1>1, <1>7, <7>1
                    <6>2. g[1] = seqs[1]
                        BY <1>6, <6>1, EmptyPath
                    <6> QED BY <5>1, <6>2
                <5>2. CASE i # 1
                    <6>1. i - 1 \in 1..n
                        BY <1>1, <5>2
                    <6>2. h[i] = g[i] /\ h[i - 1] = g[i - 1]
                        BY <6>1
                    <6> QED BY <1>7, <5>2, <6>2
                <5> QED BY <5>1, <5>2
            <4> HIDE DEF h
            <4>2. h = [i \in 1..n |-> h[i]]
                BY DEF h
            <4> QED BY <4>1, <4>2
        <3>3. Is(flat)
            <4>1. \E f : Is(f)
                BY <3>2
            <4> HIDE DEF Is
            <4> QED BY <4>1
        <3> HIDE DEF flat
        <3>4. \A i \in 1..n : flat[i] = IF i = 1 THEN seqs[i] ELSE flat[i - 1] \o seqs[i]
            BY <3>3
        <3> HIDE DEF h, Is
        <3> DEFINE S == {k \in Nat : k = 0 \/ flat[k] = g[k]}
        <3>5. 0 \in S
            OBVIOUS
        <3>6. ASSUME NEW k \in 0..n, k \in S, k + 1 <= n PROVE k + 1 \in S
            <4>1. k + 1 \in Nat /\ k + 1 \in 1..n /\ (k + 1) - 1 = k
                BY <1>1, <3>6
            <4>2. CASE k = 0
                <5>1. g[1] = g[0] \o seqs[1] /\ seqs[1] \in Path /\ flat[1] = seqs[1] /\ k + 1 = 1
                    <6>1. k + 1 = 1 /\ 1 - 1 = 0 /\ 1 \in 1..n
                        BY <4>1, <4>2
                    <6> QED BY <1>1, <1>7, <3>4, <6>1
                <5>2. g[1] = seqs[1]
                    BY <1>6, <5>1, EmptyPath
                <5> QED BY <4>1, <5>1, <5>2
            <4>3. CASE k # 0
                <5>1. k + 1 # 1 /\ flat[k] = g[k]
                    BY <3>6, <4>1, <4>3
                <5>2. flat[k + 1] = flat[k] \o seqs[k + 1] /\ g[k + 1] = g[k] \o seqs[k + 1]
                    BY <1>7, <3>4, <4>1, <5>1
                <5> QED BY <4>1, <5>1, <5>2
            <4> QED BY <4>2, <4>3
        <3> HIDE DEF S
        <3>7. 0..n \subseteq S
            BY <1>1, <3>5, <3>6, UpToBySets
        <3>8. n \in S
            BY <1>1, <3>7
        <3> QED BY <2>2, <3>1, <3>8 DEF S
    <2> QED BY <2>1, <2>2
<1>9. FlatSteps(seqs, g)
    BY <1>2, <1>6, <1>7, <1>8 DEF FlatSteps
<1> QED BY <1>9

-----------------------------------------------------------------------------
(* How the shell reads a file.                                             *)

ShellType == [vars : EnvMaps, name : Names \union {""}, word : Path,
              quoted : BOOLEAN, escaped : BOOLEAN]

\* Reading w leads from s to t.
Runs(s, w, t) ==
    \E f \in [0..Len(w) -> ShellType] :
        /\ f[0] = s /\ f[Len(w)] = t
        /\ \A i \in 1..Len(w) : f[i] = ShellReads(f[i - 1], w[i])

LEMMA RunsNothing ==
    ASSUME NEW s \in ShellType
    PROVE  Runs(s, <<>>, s)
<1> DEFINE f == [i \in 0..0 |-> s]
<1>1. f \in [0..0 -> ShellType] /\ f[0] = s
    OBVIOUS
<1>2. Len(<<>>) = 0 /\ \A i \in 1..0 : FALSE
    OBVIOUS
<1> HIDE DEF f
<1> QED BY <1>1, <1>2 DEF Runs

LEMMA RunsOne ==
    ASSUME NEW s \in ShellType, NEW c \in Names, NEW t \in ShellType, t = ShellReads(s, c)
    PROVE  Runs(s, <<c>>, t)
<1> DEFINE f == [i \in 0..1 |-> IF i = 0 THEN s ELSE t]
           w == <<c>>
<1>1. f \in [0..1 -> ShellType] /\ f[0] = s /\ f[1] = t
    OBVIOUS
<1>2. Len(w) = 1 /\ w[1] = c
    OBVIOUS
<1> HIDE DEF f, w
<1>3. ASSUME NEW i \in 1..1 PROVE f[i] = ShellReads(f[i - 1], w[i])
    <2>1. i = 1 /\ i - 1 = 0
        OBVIOUS
    <2> QED BY <1>1, <1>2, <2>1
<1>4. Runs(s, w, t)
    BY <1>1, <1>2, <1>3 DEF Runs
<1> QED BY <1>4 DEF w

LEMMA RunsJoin ==
    ASSUME NEW u \in Path, NEW v \in Path, NEW s, NEW t, NEW r, Runs(s, u, t), Runs(t, v, r)
    PROVE  Runs(s, u \o v, r)
<1> DEFINE n == Len(u)
           m == Len(v)
           w == u \o v
<1>1. n \in Nat /\ m \in Nat
    BY PathType
<1>2. PICK f \in [0..n -> ShellType] :
          f[0] = s /\ f[n] = t /\ \A i \in 1..n : f[i] = ShellReads(f[i - 1], u[i])
    BY DEF Runs
<1>3. PICK g \in [0..m -> ShellType] :
          g[0] = t /\ g[m] = r /\ \A i \in 1..m : g[i] = ShellReads(g[i - 1], v[i])
    BY DEF Runs
<1>4. /\ Len(w) = n + m
      /\ \A i \in 1..n : w[i] = u[i]
      /\ \A i \in 1..m : w[n + i] = v[i]
    BY Joins
<1> HIDE DEF n, m, w
<1> DEFINE h == [i \in 0..(n + m) |-> IF i <= n THEN f[i] ELSE g[i - n]]
<1>5. h \in [0..(n + m) -> ShellType]
    <2> SUFFICES ASSUME NEW i \in 0..(n + m) PROVE (IF i <= n THEN f[i] ELSE g[i - n]) \in ShellType
        OBVIOUS
    <2>1. CASE i <= n
        <3>1. i \in 0..n
            BY <1>1, <2>1
        <3> QED BY <2>1, <3>1
    <2>2. CASE ~(i <= n)
        <3>1. i - n \in 0..m
            BY <1>1, <2>2
        <3> QED BY <2>2, <3>1
    <2> QED BY <2>1, <2>2
<1>6. \A i \in 0..n : h[i] = f[i]
    BY <1>1
<1>7. \A i \in 0..m : h[n + i] = g[i]
    <2> TAKE i \in 0..m
    <2>1. CASE i = 0
        <3>1. n + i = n /\ n \in 0..n
            BY <1>1, <2>1
        <3> HIDE DEF h
        <3> QED BY <1>2, <1>3, <1>6, <2>1, <3>1
    <2>2. CASE i # 0
        <3>1. n + i \in 0..(n + m) /\ ~(n + i <= n) /\ (n + i) - n = i
            BY <1>1, <2>2
        <3> QED BY <3>1
    <2> QED BY <2>1, <2>2
<1> HIDE DEF h
<1>8. ASSUME NEW i \in 1..(n + m) PROVE h[i] = ShellReads(h[i - 1], w[i])
    <2>1. CASE i <= n
        <3>1. i \in 1..n /\ i \in 0..n /\ i - 1 \in 0..n
            BY <1>1, <2>1
        <3> QED BY <1>2, <1>4, <1>6, <3>1
    <2>2. CASE ~(i <= n)
        <3> DEFINE k == i - n
        <3>1. k \in 1..m /\ k \in 0..m /\ k - 1 \in 0..m /\ n + k = i /\ n + (k - 1) = i - 1
            BY <1>1, <2>2
        <3> HIDE DEF k
        <3>2. h[n + k] = g[k] /\ h[n + (k - 1)] = g[k - 1] /\ w[n + k] = v[k]
            BY <1>4, <1>7, <3>1
        <3>3. g[k] = ShellReads(g[k - 1], v[k])
            BY <1>3, <3>1
        <3> QED BY <3>1, <3>2, <3>3
    <2> QED BY <2>1, <2>2
<1>9. h[0] = s /\ h[n + m] = r
    <2>1. 0 \in 0..n /\ m \in 0..m
        BY <1>1
    <2> QED BY <1>2, <1>3, <1>6, <1>7, <2>1
<1>10. Runs(s, w, r)
    BY <1>4, <1>5, <1>8, <1>9 DEF Runs
<1> QED BY <1>10 DEF w

\* Through the parts of a file, one after the other.
LEMMA RunsParts ==
    ASSUME NEW seqs \in Seq(Path), NEW h \in [0..Len(seqs) -> ShellType],
           \A i \in 1..Len(seqs) : Runs(h[i - 1], seqs[i], h[i])
    PROVE  /\ FlattenSeq(seqs) \in Path
           /\ Runs(h[0], FlattenSeq(seqs), h[Len(seqs)])
<1> DEFINE n == Len(seqs)
<1>1. n \in Nat /\ \A i \in 1..n : seqs[i] \in Path
    OBVIOUS
<1>2. PICK g : FlatSteps(seqs, g)
    BY FlattenSteps
<1>3. /\ \A i \in 0..n : g[i] \in Path
      /\ g[0] = <<>> /\ FlattenSeq(seqs) = g[n]
      /\ \A i \in 1..n : g[i] = g[i - 1] \o seqs[i]
    BY <1>2 DEF FlatSteps
<1>4. \A i \in 0..n : h[i] \in ShellType
    OBVIOUS
<1>5. \A i \in 1..n : Runs(h[i - 1], seqs[i], h[i])
    OBVIOUS
<1> DEFINE S == {k \in Nat : Runs(h[0], g[k], h[k])}
<1> HIDE DEF n
<1>6. 0 \in S
    <2>1. 0 \in 0..n
        BY <1>1
    <2>2. h[0] \in ShellType
        BY <1>4, <2>1
    <2>3. Runs(h[0], <<>>, h[0])
        BY <2>2, RunsNothing
    <2> QED BY <1>3, <2>3
<1>7. ASSUME NEW k \in 0..n, k \in S, k + 1 <= n PROVE k + 1 \in S
    <2>1. k + 1 \in 1..n /\ (k + 1) - 1 = k /\ k + 1 \in Nat
        BY <1>1, <1>7
    <2>2. g[k] \in Path /\ seqs[k + 1] \in Path /\ g[k + 1] = g[k] \o seqs[k + 1]
        BY <1>1, <1>3, <2>1
    <2>3. Runs(h[0], g[k], h[k]) /\ Runs(h[k], seqs[k + 1], h[k + 1])
        BY <1>5, <1>7, <2>1
    <2>4. Runs(h[0], g[k + 1], h[k + 1])
        BY <2>2, <2>3, RunsJoin
    <2> QED BY <2>1, <2>4
<1> HIDE DEF S
<1>8. n \in S
    <2>1. 0..n \subseteq S
        BY <1>1, <1>6, <1>7, UpToBySets
    <2> QED BY <1>1, <2>1
<1>9. g[n] \in Path
    BY <1>1, <1>3
<1> QED BY <1>3, <1>8, <1>9 DEF S, n

LEMMA SourcedRuns ==
    ASSUME NEW file \in Path, NEW t, Runs(NothingRead, file, t)
    PROVE  Sourced(file) = t.vars
<1> DEFINE n == Len(file)
           Is(f) == f = [i \in 0..n |-> IF i = 0 THEN NothingRead ELSE ShellReads(f[i - 1], file[i])]
           after == CHOOSE f : Is(f)
<1>1. n \in Nat
    BY PathType
<1>2. PICK f \in [0..n -> ShellType] :
          f[0] = NothingRead /\ f[n] = t /\ \A i \in 1..n : f[i] = ShellReads(f[i - 1], file[i])
    BY DEF Runs
<1>3. Sourced(file) = after[n].vars
    BY DEF Sourced
<1> HIDE DEF n
<1>4. Is(f)
    <2>1. ASSUME NEW i \in 0..n
          PROVE  f[i] = IF i = 0 THEN NothingRead ELSE ShellReads(f[i - 1], file[i])
        <3>1. CASE i = 0
            BY <1>2, <3>1
        <3>2. CASE i # 0
            <4>1. i \in 1..n
                BY <1>1, <3>2
            <4> QED BY <1>2, <3>2, <4>1
        <3> QED BY <3>1, <3>2
    <2> QED BY <2>1
<1>5. Is(after)
    <2> HIDE DEF Is
    <2> QED BY <1>4
<1> HIDE DEF after
<1>6. after[0] = NothingRead
    <2>1. 0 \in 0..n
        BY <1>1
    <2> QED BY <1>5, <2>1
<1>7. ASSUME NEW i \in 1..n PROVE after[i] = ShellReads(after[i - 1], file[i])
    <2>1. i \in 0..n /\ i # 0
        BY <1>1
    <2> QED BY <1>5, <2>1
<1> HIDE DEF Is
<1> DEFINE S == {k \in Nat : after[k] = f[k]}
<1>8. 0 \in S
    BY <1>2, <1>6
<1>9. ASSUME NEW k \in 0..n, k \in S, k + 1 <= n PROVE k + 1 \in S
    <2>1. k + 1 \in 1..n /\ (k + 1) - 1 = k /\ k + 1 \in Nat /\ after[k] = f[k]
        BY <1>1, <1>9
    <2>2. after[k + 1] = f[k + 1]
        BY <1>2, <1>7, <2>1
    <2> QED BY <2>1, <2>2
<1> HIDE DEF S
<1>10. n \in S
    <2>1. 0..n \subseteq S
        BY <1>1, <1>8, <1>9, UpToBySets
    <2> QED BY <1>1, <2>1
<1> QED BY <1>2, <1>3, <1>10 DEF S

St(vs, n, w, q, e) == [vars |-> vs, name |-> n, word |-> w, quoted |-> q, escaped |-> e]

LEMMA StType ==
    ASSUME NEW vs \in EnvMaps, NEW n \in Names \union {""}, NEW w \in Path,
           NEW q \in BOOLEAN, NEW e \in BOOLEAN
    PROVE  St(vs, n, w, q, e) \in ShellType
BY DEF St, ShellType

LEMMA Characters ==
    /\ Quote # Backslash /\ Quote # Newline /\ Backslash # Newline
    /\ "=" # Quote /\ "=" # Backslash /\ "=" # Newline /\ "=" # ""
    /\ Quote \in BadNames /\ Backslash \in BadNames /\ Newline \in BadNames
    /\ "=" \in BadNames /\ "" \in BadNames
BY DEF Quote, Backslash, Newline, BadNames

LEMMA ReadsQuote ==
    ASSUME NEW vs, NEW n, NEW w, NEW q \in BOOLEAN
    PROVE  ShellReads(St(vs, n, w, q, FALSE), Quote) = St(vs, n, w, ~q, FALSE)
BY Characters DEF ShellReads, St

LEMMA ReadsEscape ==
    ASSUME NEW vs, NEW n, NEW w
    PROVE  ShellReads(St(vs, n, w, FALSE, FALSE), Backslash) = St(vs, n, w, FALSE, TRUE)
BY Characters DEF ShellReads, St

LEMMA ReadsEscaped ==
    ASSUME NEW vs, NEW n, NEW w, NEW c
    PROVE  ShellReads(St(vs, n, w, FALSE, TRUE), c) = St(vs, n, Append(w, c), FALSE, FALSE)
BY Characters DEF ShellReads, St

LEMMA ReadsNewline ==
    ASSUME NEW vs, NEW n, NEW w
    PROVE  ShellReads(St(vs, n, w, FALSE, FALSE), Newline)
              = St(Assign(vs, n, w), "", <<>>, FALSE, FALSE)
BY Characters DEF ShellReads, St

LEMMA ReadsName ==
    ASSUME NEW vs, NEW n, n \notin BadNames
    PROVE  ShellReads(St(vs, "", <<>>, FALSE, FALSE), n) = St(vs, n, <<>>, FALSE, FALSE)
BY Characters DEF ShellReads, St

LEMMA ReadsEquals ==
    ASSUME NEW vs, NEW n, n # ""
    PROVE  ShellReads(St(vs, n, <<>>, FALSE, FALSE), "=") = St(vs, n, <<>>, FALSE, FALSE)
BY Characters DEF ShellReads, St

LEMMA UpTo ==
    ASSUME NEW p \in Path
    PROVE  /\ SubSeq(p, 1, 0) = <<>> /\ SubSeq(p, 1, Len(p)) = p
           /\ \A i \in 0..Len(p) : SubSeq(p, 1, i) \in Path
           /\ \A i \in 1..Len(p) : SubSeq(p, 1, i) = Append(SubSeq(p, 1, i - 1), p[i])
<1> DEFINE n == Len(p)
<1>1. n \in Nat /\ \A i \in 1..n : p[i] \in Names
    BY PathType
<1>2. ASSUME NEW i \in 0..n
      PROVE  /\ SubSeq(p, 1, i) \in Path /\ Len(SubSeq(p, 1, i)) = i
             /\ \A j \in 1..i : SubSeq(p, 1, i)[j] = p[j]
    <2>1. 0 \in 0..Len(p) /\ i \in 0..Len(p) /\ 0 + 1 = 1 /\ i - 0 = i /\ \A j \in 1..i : 0 + j = j
        BY <1>1
    <2>2. /\ SubSeq(p, 0 + 1, i) \in Path /\ Len(SubSeq(p, 0 + 1, i)) = i - 0
          /\ \A j \in 1..(i - 0) : SubSeq(p, 0 + 1, i)[j] = p[0 + j]
        BY <2>1, Slice
    <2> QED BY <2>1, <2>2
<1>3. 0 \in 0..n /\ n \in 0..n
    BY <1>1
<1>4. SubSeq(p, 1, 0) = <<>>
    BY <1>2, <1>3, EmptyPath
<1>5. SubSeq(p, 1, n) = p
    BY <1>2, <1>3, PathsEqual
<1>6. ASSUME NEW i \in 1..n PROVE SubSeq(p, 1, i) = Append(SubSeq(p, 1, i - 1), p[i])
    <2> DEFINE k == i - 1
               q == SubSeq(p, 1, i)
               r == SubSeq(p, 1, k)
               s == Append(r, p[i])
    <2>1. k \in 0..n /\ i \in 0..n /\ k + 1 = i /\ i \in 1..i /\ 1..i = 1..k \union {i}
        BY <1>1
    <2>2. r \in Path /\ Len(r) = k /\ \A j \in 1..k : r[j] = p[j]
        BY <1>2, <2>1
    <2>3. q \in Path /\ Len(q) = i /\ \A j \in 1..i : q[j] = p[j]
        BY <1>2, <2>1
    <2>4. p[i] \in Names
        BY <1>1
    <2> HIDE DEF k, q, r
    <2>5. s \in Path /\ Len(s) = k + 1 /\ (\A j \in 1..k : s[j] = r[j]) /\ s[k + 1] = p[i]
        BY <2>2, <2>4, Appends
    <2> HIDE DEF s
    <2>6. \A j \in 1..i : q[j] = s[j]
        BY <2>1, <2>2, <2>3, <2>5
    <2>7. q = s
        BY <2>1, <2>3, <2>5, <2>6, PathsEqual
    <2> QED BY <2>7 DEF q, r, s, k
<1> QED BY <1>2, <1>4, <1>5, <1>6

LEMMA PairJoins ==
    ASSUME NEW a \in Names, NEW b \in Names
    PROVE  <<a>> \o <<b>> \in Path /\ <<a>> \o <<b>> = <<a, b>>
<1> DEFINE q == <<a>> \o <<b>>
           p == <<a, b>>
<1>1. <<a>> \in Path /\ Len(<<a>>) = 1 /\ <<a>>[1] = a /\ <<b>> \in Path /\ Len(<<b>>) = 1 /\ <<b>>[1] = b
    BY Short
<1>2. /\ q \in Path /\ Len(q) = Len(<<a>>) + Len(<<b>>)
      /\ \A i \in 1..Len(<<a>>) : q[i] = <<a>>[i]
      /\ \A i \in 1..Len(<<b>>) : q[Len(<<a>>) + i] = <<b>>[i]
    BY <1>1, Joins
<1>3. p \in Path /\ Len(p) = 2 /\ p[1] = a /\ p[2] = b
    BY Pairs DEF Path
<1> HIDE DEF q, p
<1>4. Len(q) = 2 /\ q[1] = a /\ q[2] = b
    BY <1>1, <1>2
<1>5. q = p
    BY <1>2, <1>3, <1>4, PathsEqual
<1> QED BY <1>2, <1>5 DEF q, p

LEMMA Tuple4 ==
    ASSUME NEW S, NEW a \in S, NEW b \in S, NEW c \in S, NEW d \in S
    PROVE  <<a, b, c, d>> \in Seq(S)
OBVIOUS

LEMMA Four ==
    ASSUME NEW a \in Names, NEW b \in Names, NEW c \in Names, NEW d \in Names
    PROVE  ((<<a>> \o <<b>>) \o <<c>>) \o <<d>> = <<a, b, c, d>>
<1> DEFINE q == <<a>> \o <<b>>
           r == q \o <<c>>
           s == r \o <<d>>
           p == <<a, b, c, d>>
<1>1. /\ <<c>> \in Path /\ Len(<<c>>) = 1 /\ <<c>>[1] = c
      /\ <<d>> \in Path /\ Len(<<d>>) = 1 /\ <<d>>[1] = d
    BY Short
<1>2. q \in Path /\ Len(q) = 2 /\ q[1] = a /\ q[2] = b
    <2>1. q \in Path /\ q = <<a, b>>
        BY PairJoins
    <2> HIDE DEF q
    <2> QED BY <2>1
<1> HIDE DEF q
<1>3. r \in Path /\ Len(r) = 3 /\ r[1] = a /\ r[2] = b /\ r[3] = c
    <2>1. /\ r \in Path /\ Len(r) = Len(q) + Len(<<c>>)
          /\ \A i \in 1..Len(q) : r[i] = q[i]
          /\ \A i \in 1..Len(<<c>>) : r[Len(q) + i] = <<c>>[i]
        BY <1>1, <1>2, Joins
    <2> HIDE DEF r
    <2> QED BY <1>1, <1>2, <2>1
<1> HIDE DEF r
<1>4. s \in Path /\ Len(s) = 4 /\ s[1] = a /\ s[2] = b /\ s[3] = c /\ s[4] = d
    <2>1. /\ s \in Path /\ Len(s) = Len(r) + Len(<<d>>)
          /\ \A i \in 1..Len(r) : s[i] = r[i]
          /\ \A i \in 1..Len(<<d>>) : s[Len(r) + i] = <<d>>[i]
        BY <1>1, <1>3, Joins
    <2> HIDE DEF s
    <2> QED BY <1>1, <1>3, <2>1
<1>5. p \in Path /\ Len(p) = 4 /\ p[1] = a /\ p[2] = b /\ p[3] = c /\ p[4] = d
    BY Tuple4 DEF Path
<1> HIDE DEF s, p
<1>6. s = p
    BY <1>4, <1>5, PathsEqual
<1> QED BY <1>6 DEF s, r, q, p

Cell(c) == IF c = Quote THEN <<Quote, Backslash, Quote, Quote>> ELSE <<c>>

\* One character within quotes.
LEMMA CellRuns ==
    ASSUME NEW vs \in EnvMaps, NEW n \in Names, NEW w \in Path, NEW c \in Names
    PROVE  /\ Cell(c) \in Path
           /\ Runs(St(vs, n, w, TRUE, FALSE), Cell(c), St(vs, n, Append(w, c), TRUE, FALSE))
<1> DEFINE x == Append(w, c)
           s0 == St(vs, n, w, TRUE, FALSE)
           s1 == St(vs, n, w, FALSE, FALSE)
           s2 == St(vs, n, w, FALSE, TRUE)
           s3 == St(vs, n, x, FALSE, FALSE)
           s4 == St(vs, n, x, TRUE, FALSE)
<1>1. x \in Path
    BY Appends
<1> HIDE DEF x
<1>2. s0 \in ShellType /\ s1 \in ShellType /\ s2 \in ShellType /\ s3 \in ShellType /\ s4 \in ShellType
    BY <1>1, StType
<1>3. CASE c = Quote
    <2>1. ShellReads(s0, Quote) = s1 /\ ShellReads(s3, Quote) = s4
        <3>1. ShellReads(s0, Quote) = St(vs, n, w, ~TRUE, FALSE)
            BY ReadsQuote
        <3>2. ShellReads(s3, Quote) = St(vs, n, x, ~FALSE, FALSE)
            BY ReadsQuote
        <3> QED BY <3>1, <3>2
    <2>2. ShellReads(s1, Backslash) = s2
        BY ReadsEscape
    <2>3. ShellReads(s2, Quote) = s3
        BY <1>3, ReadsEscaped DEF x
    <2> HIDE DEF s0, s1, s2, s3, s4
    <2>4. Quote \in Names /\ Backslash \in Names
        BY Words
    <2>5. /\ Runs(s0, <<Quote>>, s1) /\ Runs(s1, <<Backslash>>, s2)
          /\ Runs(s2, <<Quote>>, s3) /\ Runs(s3, <<Quote>>, s4)
        BY <1>2, <2>1, <2>2, <2>3, <2>4, RunsOne
    <2>6. <<Quote>> \in Path /\ <<Backslash>> \in Path
        BY <2>4, Short
    <2>7. /\ <<Quote>> \o <<Backslash>> \in Path
          /\ (<<Quote>> \o <<Backslash>>) \o <<Quote>> \in Path
          /\ ((<<Quote>> \o <<Backslash>>) \o <<Quote>>) \o <<Quote>> \in Path
        BY <2>6, Joins
    <2>8. Runs(s0, <<Quote>> \o <<Backslash>>, s2)
        BY <2>5, <2>6, RunsJoin
    <2>9. Runs(s0, (<<Quote>> \o <<Backslash>>) \o <<Quote>>, s3)
        BY <2>5, <2>6, <2>7, <2>8, RunsJoin
    <2>10. Runs(s0, ((<<Quote>> \o <<Backslash>>) \o <<Quote>>) \o <<Quote>>, s4)
        BY <2>5, <2>6, <2>7, <2>9, RunsJoin
    <2>11. ((<<Quote>> \o <<Backslash>>) \o <<Quote>>) \o <<Quote>> = Cell(c)
        <3>1. Cell(c) = <<Quote, Backslash, Quote, Quote>>
            BY <1>3 DEF Cell
        <3> QED BY <2>4, <3>1, Four
    <2> QED BY <2>7, <2>10, <2>11 DEF s0, s4, x
<1>4. CASE c # Quote
    <2>1. ShellReads(s0, c) = s4
        <3>1. ShellReads(St(vs, n, w, TRUE, FALSE), c) = St(vs, n, Append(w, c), TRUE, FALSE)
            BY <1>4, Characters DEF ShellReads, St
        <3> QED BY <3>1 DEF x
    <2> HIDE DEF s0, s4
    <2>2. Runs(s0, <<c>>, s4)
        BY <1>2, <2>1, RunsOne
    <2>3. Cell(c) = <<c>> /\ <<c>> \in Path
        BY <1>4, Short DEF Cell
    <2> QED BY <2>2, <2>3 DEF s0, s4, x
<1> QED BY <1>3, <1>4

\* A value in quotes is read as the value.
LEMMA QuotedRuns ==
    ASSUME NEW vs \in EnvMaps, NEW n \in Names, NEW value \in Path
    PROVE  /\ Quoted(value) \in Path
           /\ Runs(St(vs, n, <<>>, FALSE, FALSE), Quoted(value), St(vs, n, value, FALSE, FALSE))
<1> DEFINE m == Len(value)
           cells == [i \in 1..Len(value) |->
                        IF value[i] = Quote THEN <<Quote, Backslash, Quote, Quote>> ELSE <<value[i]>>]
           h == [i \in 0..m |-> St(vs, n, SubSeq(value, 1, i), TRUE, FALSE)]
           start == St(vs, n, <<>>, FALSE, FALSE)
           end == St(vs, n, value, FALSE, FALSE)
           open == St(vs, n, <<>>, TRUE, FALSE)
           closed == St(vs, n, value, TRUE, FALSE)
           mid == FlattenSeq(cells)
           q == <<Quote>>
<1>1. m \in Nat /\ \A i \in 1..m : value[i] \in Names
    BY PathType
<1>2. /\ SubSeq(value, 1, 0) = <<>> /\ SubSeq(value, 1, m) = value
      /\ \A i \in 0..m : SubSeq(value, 1, i) \in Path
      /\ \A i \in 1..m : SubSeq(value, 1, i) = Append(SubSeq(value, 1, i - 1), value[i])
    BY UpTo
<1>3. \A i \in 1..m : cells[i] = Cell(value[i])
    BY DEF Cell
<1>4. \A i \in 1..m : Cell(value[i]) \in Path
    BY <1>1, EmptyPath, NoVariables, CellRuns
<1>5. cells \in Seq(Path) /\ Len(cells) = m
    <2>1. cells = [i \in 1..m |-> Cell(value[i])]
        BY DEF Cell
    <2> HIDE DEF cells, m
    <2>2. cells \in [1..m -> Path]
        BY <1>4, <2>1
    <2> QED BY <1>1, <2>2
<1>6. /\ h \in [0..m -> ShellType]
      /\ \A i \in 0..m : h[i] = St(vs, n, SubSeq(value, 1, i), TRUE, FALSE)
    BY <1>2, StType
<1>7. Quoted(value) = (q \o mid) \o q
    BY DEF Quoted
<1> HIDE DEF cells, h, m
<1>8. ASSUME NEW i \in 1..m PROVE Runs(h[i - 1], cells[i], h[i])
    <2>1. i - 1 \in 0..m /\ i \in 0..m
        BY <1>1
    <2> DEFINE p == SubSeq(value, 1, i - 1)
               c == value[i]
    <2>2. p \in Path /\ c \in Names /\ SubSeq(value, 1, i) = Append(p, c)
        BY <1>1, <1>2, <2>1
    <2>3. h[i - 1] = St(vs, n, p, TRUE, FALSE)
        BY <1>6, <2>1
    <2>4. h[i] = St(vs, n, Append(p, c), TRUE, FALSE)
        BY <1>6, <2>1, <2>2
    <2>5. cells[i] = Cell(c)
        BY <1>3
    <2> HIDE DEF p, c
    <2>6. Runs(St(vs, n, p, TRUE, FALSE), Cell(c), St(vs, n, Append(p, c), TRUE, FALSE))
        BY <2>2, CellRuns
    <2> QED BY <2>3, <2>4, <2>5, <2>6
<1>9. mid \in Path /\ Runs(h[0], mid, h[m])
    BY <1>5, <1>6, <1>8, RunsParts
<1>10. h[0] = open /\ h[m] = closed
    <2>1. 0 \in 0..m /\ m \in 0..m
        BY <1>1
    <2> QED BY <1>2, <1>6, <2>1
<1>11. start \in ShellType /\ open \in ShellType /\ closed \in ShellType /\ end \in ShellType
    BY EmptyPath, StType
<1>12. ShellReads(start, Quote) = open /\ ShellReads(closed, Quote) = end
    <2>1. ShellReads(start, Quote) = St(vs, n, <<>>, ~FALSE, FALSE)
        BY ReadsQuote
    <2>2. ShellReads(closed, Quote) = St(vs, n, value, ~TRUE, FALSE)
        BY ReadsQuote
    <2> QED BY <2>1, <2>2
<1> HIDE DEF start, open, closed, end, mid
<1>13. Runs(start, q, open) /\ Runs(closed, q, end) /\ q \in Path
    BY <1>11, <1>12, Words, Short, RunsOne
<1> HIDE DEF q
<1>14. Runs(start, q \o mid, closed) /\ q \o mid \in Path
    BY <1>9, <1>10, <1>13, RunsJoin, Joins
<1>15. Runs(start, (q \o mid) \o q, end) /\ (q \o mid) \o q \in Path
    BY <1>13, <1>14, RunsJoin, Joins
<1> QED BY <1>7, <1>15 DEF start, end

\* What a line of the file adds to the variables.
Added(e, vs, n) == IF n \in DOMAIN e THEN Assign(vs, n, e[n]) ELSE vs

Between(vs) == St(vs, "", <<>>, FALSE, FALSE)

LEMMA AddedType ==
    ASSUME NEW e \in EnvMaps, NEW vs \in EnvMaps, NEW n \in Names
    PROVE  Added(e, vs, n) \in EnvMaps /\ (n \in DOMAIN e => e[n] \in Path)
<1>1. n \in DOMAIN e => e[n] \in Path
    BY EnvMapsAre
<1> QED BY <1>1, AssignType DEF Added

LEMMA LineRuns ==
    ASSUME env \in EnvMaps, NEW vs \in EnvMaps, NEW n \in Names, n \notin BadNames
    PROVE  /\ EnvLine(n) \in Path
           /\ Runs(Between(vs), EnvLine(n), Between(Added(env, vs, n)))
<1>1. CASE n \notin DOMAIN env
    <2>1. EnvLine(n) = <<>> /\ Added(env, vs, n) = vs
        BY <1>1 DEF EnvLine, Added
    <2>2. Between(vs) \in ShellType
        BY EmptyPath, StType DEF Between
    <2> QED BY <2>1, <2>2, EmptyPath, RunsNothing
<1>2. CASE n \in DOMAIN env
    <2> DEFINE value == env[n]
               new == Assign(vs, n, value)
               s0 == St(vs, "", <<>>, FALSE, FALSE)
               s1 == St(vs, n, <<>>, FALSE, FALSE)
               s2 == St(vs, n, value, FALSE, FALSE)
               s3 == St(new, "", <<>>, FALSE, FALSE)
               word == Quoted(value)
    <2>1. value \in Path /\ new \in EnvMaps
        BY <1>2, AddedType, AssignType
    <2>2. EnvLine(n) = (<<n, "=">> \o word) \o <<Newline>>
        BY <1>2 DEF EnvLine
    <2>3. Added(env, vs, n) = new
        BY <1>2 DEF Added
    <2> HIDE DEF value
    <2>4. word \in Path /\ Runs(s1, word, s2)
        BY <2>1, QuotedRuns
    <2>5. s0 \in ShellType /\ s1 \in ShellType /\ s2 \in ShellType /\ s3 \in ShellType
        BY <2>1, EmptyPath, StType
    <2>6. ShellReads(s0, n) = s1
        BY ReadsName
    <2>7. ShellReads(s1, "=") = s1
        <3>1. n # ""
            BY Characters
        <3> QED BY <3>1, ReadsEquals
    <2>8. ShellReads(s2, Newline) = s3
        BY ReadsNewline
    <2> HIDE DEF s0, s1, s2, s3, word, new
    <2>9. /\ Runs(s0, <<n>>, s1) /\ Runs(s1, <<"=">>, s1) /\ Runs(s2, <<Newline>>, s3)
          /\ <<n>> \in Path /\ <<"=">> \in Path /\ <<Newline>> \in Path
        BY <2>5, <2>6, <2>7, <2>8, RunsOne, Words, Short
    <2>10. Runs(s0, <<n>> \o <<"=">>, s1)
        BY <2>9, RunsJoin
    <2>11. <<n>> \o <<"=">> \in Path /\ <<n>> \o <<"=">> = <<n, "=">>
        BY Words, PairJoins
    <2> DEFINE head == <<n, "=">>
    <2>12. head \in Path /\ Runs(s0, head, s1)
        BY <2>10, <2>11
    <2> HIDE DEF head
    <2>13. head \o word \in Path /\ Runs(s0, head \o word, s2)
        BY <2>4, <2>12, Joins, RunsJoin
    <2>14. (head \o word) \o <<Newline>> \in Path /\ Runs(s0, (head \o word) \o <<Newline>>, s3)
        BY <2>9, <2>13, Joins, RunsJoin
    <2> QED BY <2>2, <2>3, <2>14 DEF Between, s0, s3, head
<1> QED BY <1>1, <1>2

ReadTo(names, e, vs, k) ==
    /\ \A n \in Names : n \in DOMAIN vs <=> n \in DOMAIN e /\ \E i \in 1..k : names[i] = n
    /\ \A n \in DOMAIN vs : vs[n] = e[n]

LEMMA ReadStep ==
    ASSUME NEW names \in Seq(Names), NEW k \in Nat, k + 1 <= Len(names),
           NEW e \in EnvMaps, NEW vs \in EnvMaps, ReadTo(names, e, vs, k)
    PROVE  ReadTo(names, e, Added(e, vs, names[k + 1]), k + 1)
<1> DEFINE x == names[k + 1]
           w == Added(e, vs, x)
           val == e[x]
<1>1. x \in Names
    <2>1. k + 1 \in 1..Len(names)
        OBVIOUS
    <2> QED BY <2>1
<1>2. 1..(k + 1) = 1..k \union {k + 1}
    OBVIOUS
<1>3. \A y \in Names : (\E i \in 1..(k + 1) : names[i] = y)
                          <=> (\E i \in 1..k : names[i] = y) \/ y = x
    BY <1>2
<1> HIDE DEF x
<1>4. CASE x \notin DOMAIN e
    <2>1. w = vs
        BY <1>4 DEF Added
    <2> HIDE DEF w
    <2>2. ReadTo(names, e, w, k + 1)
        BY <1>3, <1>4, <2>1 DEF ReadTo
    <2> QED BY <2>2 DEF w, x
<1>5. CASE x \in DOMAIN e
    <2>1. w = Assign(vs, x, val) /\ val \in Path
        BY <1>1, <1>5, AddedType DEF Added
    <2> HIDE DEF w, val
    <2>2. /\ DOMAIN w = DOMAIN vs \union {x} /\ w[x] = val
          /\ \A y \in DOMAIN vs \ {x} : w[y] = vs[y]
        <3> DEFINE z == Assign(vs, x, val)
        <3>1. /\ DOMAIN z = DOMAIN vs \union {x} /\ z[x] = val
              /\ \A y \in DOMAIN vs \ {x} : z[y] = vs[y]
            BY DEF Assign
        <3> HIDE DEF z
        <3>2. w = z
            BY <2>1 DEF z
        <3> QED BY <3>1, <3>2
    <2>3. \A y \in DOMAIN w : w[y] = e[y]
        BY <2>2 DEF ReadTo, val
    <2>4. ASSUME NEW y \in Names
          PROVE  y \in DOMAIN w <=> y \in DOMAIN e /\ \E i \in 1..(k + 1) : names[i] = y
        <3>1. y \in DOMAIN vs <=> y \in DOMAIN e /\ \E i \in 1..k : names[i] = y
            BY DEF ReadTo
        <3> QED BY <1>3, <1>5, <2>2, <3>1
    <2>5. ReadTo(names, e, w, k + 1)
        BY <2>3, <2>4 DEF ReadTo
    <2> QED BY <2>5 DEF w, x
<1> QED BY <1>4, <1>5

\* The file gives the shell the variables of the names that have one.
LEMMA SourcedLines ==
    ASSUME env \in EnvMaps, NEW names \in Seq(Names),
           \A i \in 1..Len(names) : names[i] \notin BadNames
    PROVE  LET vs == Sourced(FlattenSeq([i \in 1..Len(names) |-> EnvLine(names[i])]))
           IN  vs \in EnvMaps /\ ReadTo(names, env, vs, Len(names))
<1> DEFINE n == Len(names)
           lines == [i \in 1..Len(names) |-> EnvLine(names[i])]
           file == FlattenSeq(lines)
           G == [x \in EnvMaps \X (1..n) |-> Added(env, x[1], names[x[2]])]
<1>1. n \in Nat /\ \A i \in 1..n : names[i] \in Names /\ names[i] \notin BadNames
    OBVIOUS
<1>2. /\ \A i \in 1..n : lines[i] = EnvLine(names[i]) /\ lines[i] \in Path
      /\ lines \in Seq(Path) /\ Len(lines) = n
    <2>1. \A i \in 1..n : EnvLine(names[i]) \in Path
        BY <1>1, NoVariables, LineRuns
    <2>2. lines = [i \in 1..n |-> EnvLine(names[i])]
        OBVIOUS
    <2> HIDE DEF n, lines
    <2>3. lines \in [1..n -> Path]
        BY <2>1, <2>2
    <2>4. lines \in Seq(Path) /\ Len(lines) = n
        BY <1>1, <2>3
    <2> QED BY <2>1, <2>2, <2>4
<1>3. Len(names) = n
    OBVIOUS
<1> HIDE DEF n, lines
<1>4. \A vs \in EnvMaps, i \in 1..n : Added(env, vs, names[i]) \in EnvMaps
    BY <1>1, AddedType
<1>5. G \in [EnvMaps \X (1..n) -> EnvMaps]
    BY <1>4
<1>6. \A vs \in EnvMaps, i \in 1..n : G[<<vs, i>>] = Added(env, vs, names[i])
    OBVIOUS
<1> HIDE DEF G
<1>7. PICK v \in [0..n -> EnvMaps] : v[0] = <<>> /\ \A i \in 1..n : v[i] = G[<<v[i - 1], i>>]
    <2>1. Iterates(n, EnvMaps, <<>>, G)
        BY <1>1, <1>5, NoVariables, Iteration
    <2> QED BY <2>1 DEF Iterates
<1>8. ASSUME NEW i \in 1..n
      PROVE  v[i - 1] \in EnvMaps /\ v[i] = Added(env, v[i - 1], names[i])
    <2>1. i - 1 \in 0..n
        BY <1>1
    <2>2. v[i - 1] \in EnvMaps
        BY <2>1
    <2> QED BY <1>6, <1>7, <2>2
<1> DEFINE h == [i \in 0..n |-> Between(v[i])]
<1>9. \A i \in 0..n : h[i] = Between(v[i]) /\ h[i] \in ShellType
    BY EmptyPath, StType DEF Between
<1>10. h \in [0..n -> ShellType]
    BY <1>9
<1> HIDE DEF h
<1>11. ASSUME NEW i \in 1..n PROVE Runs(h[i - 1], lines[i], h[i])
    <2>1. i - 1 \in 0..n /\ i \in 0..n
        BY <1>1
    <2>2. h[i - 1] = Between(v[i - 1]) /\ h[i] = Between(Added(env, v[i - 1], names[i]))
        BY <1>8, <1>9, <2>1
    <2>3. names[i] \in Names /\ names[i] \notin BadNames /\ v[i - 1] \in EnvMaps
        BY <1>1, <1>8
    <2>4. Runs(Between(v[i - 1]), EnvLine(names[i]), Between(Added(env, v[i - 1], names[i])))
        BY <2>3, LineRuns
    <2>5. lines[i] = EnvLine(names[i])
        BY <1>2
    <2> QED BY <2>2, <2>4, <2>5
<1>12. file \in Path /\ Runs(h[0], file, h[n])
    BY <1>2, <1>10, <1>11, RunsParts
<1>13. h[0] = NothingRead /\ h[n].vars = v[n]
    <2>1. 0 \in 0..n /\ n \in 0..n
        BY <1>1
    <2>2. h[0] = Between(<<>>) /\ h[n] = Between(v[n])
        BY <1>7, <1>9, <2>1
    <2>3. Between(<<>>) = NothingRead
        BY DEF Between, St, NothingRead
    <2>4. \A u : Between(u).vars = u
        BY DEF Between, St
    <2> QED BY <2>2, <2>3, <2>4
<1> HIDE DEF file
<1>14. Sourced(file) = v[n]
    BY <1>12, <1>13, SourcedRuns
<1> DEFINE S == {k \in Nat : ReadTo(names, env, v[k], k)}
<1>15. 0 \in S
    <2>1. \A i \in 1..0 : FALSE
        OBVIOUS
    <2>2. ReadTo(names, env, <<>>, 0)
        BY <2>1, NoVariables DEF ReadTo
    <2> QED BY <1>7, <2>2
<1>16. ASSUME NEW k \in 0..n, k \in S, k + 1 <= n PROVE k + 1 \in S
    <2>1. k + 1 \in Nat /\ k + 1 \in 1..n /\ (k + 1) - 1 = k
        BY <1>1, <1>16
    <2>2. v[k] \in EnvMaps /\ v[k + 1] = Added(env, v[k], names[k + 1]) /\ ReadTo(names, env, v[k], k)
        BY <1>8, <1>16, <2>1
    <2>3. k \in Nat /\ k + 1 <= Len(names)
        BY <1>1, <1>3, <1>16
    <2>4. ReadTo(names, env, v[k + 1], k + 1)
        BY <2>2, <2>3, ReadStep
    <2> QED BY <2>1, <2>4
<1> HIDE DEF S
<1>17. n \in S
    <2>1. 0..n \subseteq S
        BY <1>1, <1>15, <1>16, UpToBySets
    <2> QED BY <1>1, <2>1
<1>18. v[n] \in EnvMaps
    BY <1>1
<1> QED BY <1>3, <1>14, <1>17, <1>18 DEF S, file, lines

-----------------------------------------------------------------------------
(* What podman makes on the way to a volume.                               *)

\* A set of naturals with a bound has a largest.
LEMMA Largest ==
    ASSUME NEW n \in Nat, NEW S, S \subseteq 0..n, S # {}
    PROVE  \E k \in S : \A j \in S : j <= k
<1> DEFINE T == {n - i : i \in S}
<1>1. T \subseteq Nat /\ T # {}
    <2>1. \A i \in 0..n : n - i \in Nat
        OBVIOUS
    <2>2. T # {}
        OBVIOUS
    <2> QED BY <2>1, <2>2
<1> HIDE DEF T
<1>2. \E x \in T : \A y \in T : ~ (<<y, x>> \in OpToRel(<, Nat))
    BY <1>1, NatLessThanWellFounded, WFMin
<1>3. PICK x \in T : \A y \in T : ~ (y < x)
    BY <1>1, <1>2 DEF OpToRel
<1>4. PICK k \in S : x = n - k
    BY DEF T
<1>5. ASSUME NEW j \in S PROVE j <= k
    <2>1. n - j \in T /\ j \in 0..n /\ k \in 0..n
        BY DEF T
    <2>2. ~(n - j < n - k)
        BY <1>3, <1>4, <2>1
    <2> QED BY <2>1, <2>2
<1> QED BY <1>5

LEMMA DeepestIs ==
    ASSUME NEW vs, vs \subseteq VolumeType, vs # {}, NEW n \in Nat,
           \A w \in vs : Len(w.guest) <= n
    PROVE  Deepest(vs) \in vs /\ \A w \in vs : Len(w.guest) <= Len(Deepest(vs).guest)
<1> DEFINE S == {Len(w.guest) : w \in vs}
<1>1. \A w \in vs : Len(w.guest) \in 0..n
    BY PathType DEF VolumeType
<1>2. S \subseteq 0..n /\ S # {}
    BY <1>1
<1>3. \E k \in S : \A j \in S : j <= k
    <2> HIDE DEF S
    <2> QED BY <1>2, Largest
<1>4. \E v \in vs : \A w \in vs : Len(w.guest) <= Len(v.guest)
    BY <1>3
<1> QED BY <1>4 DEF Deepest

\* The way to a volume leads through the deepest one over it.
LEMMA OnTheWayIs ==
    ASSUME volumes \subseteq VolumeType, NEW v \in volumes, OnTheWay(v) # {}
    PROVE  LET top == Deepest(Over(v))
               place == top.host \o Rel(top.guest, v.guest)
           IN  /\ Over(v) # {} /\ top \in volumes /\ IsStrictPrefix(top.guest, v.guest)
               /\ IsPrefix(HomeDir(args), place)
               /\ OnTheWay(v) = Below(HomeDir(args), place)
<1> DEFINE over == Over(v)
           top == Deepest(Over(v))
           shown == Shows(Over(v), v.guest)
<1>1. v.guest \in Path
    BY DEF VolumeType
<1>2. \A w \in over : w \in VolumeType /\ IsStrictPrefix(w.guest, v.guest) /\ w \in volumes
    BY DEF Over
<1>3. {w \in Over(v) : IsPrefix(w.guest, v.guest)} = Over(v)
    BY <1>2 DEF IsStrictPrefix
<1>4. over # {} /\ shown = top.host \o Rel(top.guest, v.guest)
    <2>1. shown # NoDir
        BY DEF OnTheWay
    <2> QED BY <1>3, <2>1 DEF Shows
<1>5. top \in over
    <2>1. \A w \in over : Len(w.guest) <= Len(v.guest)
        <3> TAKE w \in over
        <3>1. w.guest \in Path /\ IsStrictPrefix(w.guest, v.guest)
            BY <1>2 DEF VolumeType
        <3>2. Len(w.guest) < Len(v.guest) /\ Len(w.guest) \in Nat /\ Len(v.guest) \in Nat
            BY <1>1, <3>1, StrictPrefixAt, PathType
        <3> QED BY <3>2
    <2>2. Len(v.guest) \in Nat
        BY <1>1, PathType
    <2>3. over \subseteq VolumeType
        BY <1>2
    <2> QED BY <1>4, <2>1, <2>2, <2>3, DeepestIs
<1>6. IsPrefix(HomeDir(args), shown) /\ OnTheWay(v) = Below(HomeDir(args), shown)
    BY DEF OnTheWay
<1> QED BY <1>2, <1>4, <1>5, <1>6

\* A project that has a volume of its own lies neither on the way to the guest
\* home nor, unless in the guest home itself, on the way to ~/src.
LEMMA ProjectNotAbove ==
    ASSUME home \in Homes, NEW a \in Invocations, ~Nameless(a), NeedProjectShare(a),
           NEW q \in Path, Len(q) >= 2, \A i \in 1..2 : q[i] = GuestHome[i],
           IsPrefix(GuestProjectPath(a), q)
    PROVE  Len(GuestProjectPath(a)) >= 2
<1> DEFINE path == GuestProjectPath(a)
<1>1. path \in Path /\ path # <<>> /\ Len(path) \in Nat /\ Len(path) >= 1
    BY GuestProjectPathType, ProjectPathSays, PathType
<1>2. path[1] = "home"
    <2>1. Len(path) <= Len(q) /\ \A i \in 1..Len(path) : path[i] = q[i]
        BY <1>1, PrefixAt
    <2>2. 1 \in 1..Len(path)
        BY <1>1
    <2> HIDE DEF path
    <2>3. path[1] = q[1] /\ q[1] = GuestHome[1]
        BY <2>1, <2>2
    <2> QED BY <2>3, Home2
<1>3. CASE OneToOne(a)
    <2>1. path = a.cwd
        BY <1>3 DEF GuestProjectPath, NeedProjectShare
    <2>2. PICK root \in {"projects", "temp"} : IsPrefix(Append(home, root), a.cwd)
        BY <1>3 DEF OneToOne
    <2>3. root \in Names /\ home \in Path /\ Len(home) \in Nat
        BY Words, HomeDirType, PathType
    <2> DEFINE p == Append(home, root)
    <2>4. p \in Path /\ Len(p) = Len(home) + 1 /\ p[Len(home) + 1] = root
        BY <2>3, Appends
    <2> HIDE DEF p, path
    <2>5. Len(p) <= Len(path) /\ \A i \in 1..Len(p) : p[i] = path[i]
        BY <1>1, <2>1, <2>2, <2>4, PrefixAt DEF p
    <2>6. Len(home) + 1 \in 1..Len(p)
        BY <2>3, <2>4
    <2>7. path[Len(home) + 1] = root
        BY <2>4, <2>5, <2>6
    <2>8. Len(home) # 0
        BY <1>2, <2>7
    <2>9. Len(home) + 1 <= Len(path)
        BY <2>4, <2>5
    <2>10. Len(path) >= 2
        BY <1>1, <2>3, <2>8, <2>9
    <2> QED BY <2>10 DEF path
<1>4. CASE ~OneToOne(a)
    <2>1. path = <<"projects", Last(a.cwd)>>
        BY <1>4 DEF GuestProjectPath, NeedProjectShare
    <2>2. path[1] = "projects"
        BY <2>1
    <2> HIDE DEF path
    <2> QED BY <1>2, <2>2
<1> QED BY <1>3, <1>4

LEMMA JoinThree ==
    ASSUME NEW p \in Path, NEW x, NEW y, NEW z, <<x, y>> \in Path, <<z>> \in Path
    PROVE  (p \o <<x, y>>) \o <<z>> = p \o <<x, y, z>>
<1> DEFINE k == Len(p)
           two == <<x, y>>
           one == <<z>>
           three == <<x, y, z>>
           q == p \o two
<1>1. k \in Nat /\ Len(two) = 2 /\ Len(one) = 1 /\ Len(three) = 3
    BY PathType
<1>2. /\ two[1] = x /\ two[2] = y /\ one[1] = z
      /\ three[1] = x /\ three[2] = y /\ three[3] = z
    OBVIOUS
<1>3. two \in Path /\ one \in Path /\ three \in Path
    <2>1. x \in Names /\ y \in Names /\ z \in Names
        <3>1. \A i \in 1..Len(two) : two[i] \in Names
            BY PathType
        <3>2. \A i \in 1..Len(one) : one[i] \in Names
            BY PathType
        <3> HIDE DEF two, one
        <3>3. 1 \in 1..2 /\ 2 \in 1..2 /\ 1 \in 1..1
            OBVIOUS
        <3> QED BY <1>1, <1>2, <3>1, <3>2, <3>3
    <2> QED BY <2>1 DEF Path
<1> HIDE DEF two, one, three
<1>4. /\ q \in Path /\ Len(q) = k + 2
      /\ \A i \in 1..k : q[i] = p[i]
      /\ q[k + 1] = x /\ q[k + 2] = y
    <2>1. /\ q \in Path /\ Len(q) = Len(p) + Len(two)
          /\ \A i \in 1..Len(p) : q[i] = p[i]
          /\ \A i \in 1..Len(two) : q[Len(p) + i] = two[i]
        BY <1>3, Joins
    <2> HIDE DEF q
    <2> QED BY <1>1, <1>2, <2>1
<1> HIDE DEF q
<1>5. /\ q \o one \in Path /\ Len(q \o one) = k + 3
      /\ \A i \in 1..(k + 2) : (q \o one)[i] = q[i]
      /\ (q \o one)[k + 3] = z
    <2>1. /\ q \o one \in Path /\ Len(q \o one) = Len(q) + Len(one)
          /\ \A i \in 1..Len(q) : (q \o one)[i] = q[i]
          /\ \A i \in 1..Len(one) : (q \o one)[Len(q) + i] = one[i]
        BY <1>3, <1>4, Joins
    <2>2. (k + 2) + 1 = k + 3 /\ 1 \in 1..1
        BY <1>1
    <2> QED BY <1>1, <1>2, <1>4, <2>1, <2>2
<1>6. /\ p \o three \in Path /\ Len(p \o three) = k + 3
      /\ \A i \in 1..k : (p \o three)[i] = p[i]
      /\ (p \o three)[k + 1] = x /\ (p \o three)[k + 2] = y /\ (p \o three)[k + 3] = z
    <2>1. /\ p \o three \in Path /\ Len(p \o three) = Len(p) + Len(three)
          /\ \A i \in 1..Len(p) : (p \o three)[i] = p[i]
          /\ \A i \in 1..Len(three) : (p \o three)[Len(p) + i] = three[i]
        BY <1>3, Joins
    <2> QED BY <1>1, <1>2, <2>1
<1>7. ASSUME NEW i \in 1..(k + 3) PROVE (q \o one)[i] = (p \o three)[i]
    <2>1. i \in 1..k \/ i = k + 1 \/ i = k + 2 \/ i = k + 3
        BY <1>1
    <2>2. 1..k \subseteq 1..(k + 2) /\ k + 1 \in 1..(k + 2) /\ k + 2 \in 1..(k + 2)
        BY <1>1
    <2> QED BY <1>4, <1>5, <1>6, <2>1, <2>2
<1>8. q \o one = p \o three
    BY <1>5, <1>6, <1>7, PathsEqual
<1> QED BY <1>8 DEF q, two, one, three

LEMMA ResidueOf ==
    ASSUME home \in Homes, args \in Invocations, ~Nameless(args), volumes = Volumes(args),
           ~TwiceMounted, NEW v \in volumes, ~Explicit(v), NEW d \in OnTheWay(v)
    PROVE  d \in Mountpoint(args) \/ d = home \o <<"state", "home", "src">>
<1> DEFINE top == Deepest(Over(v))
           root == HomeDir(args)
           place == top.host \o Rel(top.guest, v.guest)
           src == Append(GuestHome, "src")
           path == GuestProjectPath(args)
           HomeVolume == Volume(root, GuestHome)
           SrcVolume == Volume(Append(home, "src"), src)
           ProjectVolume == Volume(args.cwd, path)
           tg == top.guest
           vg == v.guest
<1>1. volumes \subseteq VolumeType
    BY VolumesType
<1>2. /\ Over(v) # {} /\ top \in volumes /\ IsStrictPrefix(top.guest, v.guest)
      /\ IsPrefix(root, place) /\ OnTheWay(v) = Below(root, place)
    BY <1>1, OnTheWayIs
<1>3. v \notin ExtraVolumes(args) /\ top \notin ExtraVolumes(args)
    BY <1>2 DEF Explicit
<1>4. /\ root \in Path /\ home \in Path /\ path \in Path /\ args.cwd \in Path
      /\ Append(home, "src") \in Path /\ Len(Append(home, "src")) = Len(home) + 1
      /\ Append(home, "src")[Len(home) + 1] = "src"
    BY HomeDirType, GuestProjectPathType, Fields, Words, Appends
<1>5. /\ src \in Path /\ Len(src) = 3 /\ src[3] = "src" /\ \A i \in 1..2 : src[i] = GuestHome[i]
    <2>1. GuestHome \in Path /\ "src" \in Names
        BY Home2, Words
    <2>2. src \in Path /\ Len(src) = Len(GuestHome) + 1
        BY <2>1, Appends
    <2>3. src[Len(GuestHome) + 1] = "src"
        BY <2>1, Appends
    <2>4. \A i \in 1..Len(GuestHome) : src[i] = GuestHome[i]
        BY <2>1, Appends
    <2> HIDE DEF src
    <2> QED BY <2>2, <2>3, <2>4, Home2
<1>6. GuestHome \in Path /\ Len(GuestHome) = 2
    BY Home2
<1>7. /\ HomeVolume.host = root /\ HomeVolume.guest = GuestHome
      /\ SrcVolume.host = Append(home, "src") /\ SrcVolume.guest = src
      /\ ProjectVolume.host = args.cwd /\ ProjectVolume.guest = path
    <2> HIDE DEF root, path, src
    <2>1. HomeVolume.host = root /\ HomeVolume.guest = GuestHome
        BY <1>4, <1>6, VolumeFields
    <2>2. SrcVolume.host = Append(home, "src") /\ SrcVolume.guest = src
        BY <1>4, <1>5, VolumeFields
    <2>3. ProjectVolume.host = args.cwd /\ ProjectVolume.guest = path
        BY <1>4, VolumeFields
    <2> QED BY <2>1, <2>2, <2>3
<1>8. ASSUME NEW w \in volumes, w \notin ExtraVolumes(args)
      PROVE  \/ w = HomeVolume
             \/ args.sandbox = NoDir /\ w = SrcVolume
             \/ NeedProjectShare(args) /\ w = ProjectVolume
    BY <1>8, VolumeCases
<1>9. /\ vg \in Path /\ tg \in Path
      /\ Len(tg) \in Nat /\ Len(vg) \in Nat /\ Len(tg) < Len(vg)
      /\ IsPrefix(tg, vg)
    <2>1. vg \in Path /\ tg \in Path
        BY <1>1, <1>2 DEF VolumeType
    <2>2. IsPrefix(tg, vg)
        BY <1>2 DEF IsStrictPrefix
    <2>3. IsStrictPrefix(tg, vg)
        BY <1>2
    <2> HIDE DEF tg, vg
    <2> QED BY <2>1, <2>2, <2>3, StrictPrefixAt, PathType
<1>10. HomeVolume \in volumes
    BY VolumeCases
<1>11. \A w \in volumes : w.guest = GuestHome => w = HomeVolume
    BY <1>7, <1>10 DEF TwiceMounted
<1> HIDE DEF HomeVolume, SrcVolume, ProjectVolume
<1>17. /\ v = HomeVolume => vg = GuestHome
       /\ v = SrcVolume => vg = src
       /\ v = ProjectVolume => vg = path
       /\ top = HomeVolume => tg = GuestHome
       /\ top = SrcVolume => tg = src
       /\ top = ProjectVolume => tg = path
    BY <1>7
<1>18. place = top.host \o Rel(tg, vg)
    OBVIOUS
<1>19. top.guest = tg /\ v.guest = vg
    OBVIOUS
<1> HIDE DEF top, src, path, tg, vg, place
\* The project's volume lies over none of the launcher's other volumes.
<1>12. ASSUME NeedProjectShare(args), top = ProjectVolume, top # HomeVolume, v = HomeVolume \/ v = SrcVolume
       PROVE  FALSE
    <2>1. Len(vg) >= 2 /\ \A i \in 1..2 : vg[i] = GuestHome[i]
        <3>1. CASE v = HomeVolume
            <4>1. vg = GuestHome
                BY <1>17, <3>1
            <4>2. Len(vg) = 2
                BY <1>6, <4>1
            <4>3. \A i \in 1..2 : vg[i] = GuestHome[i]
                BY <4>1
            <4> QED BY <4>2, <4>3
        <3>2. CASE v = SrcVolume
            <4>1. vg = src
                BY <1>17, <3>2
            <4>2. Len(vg) = 3 /\ \A i \in 1..2 : vg[i] = GuestHome[i]
                BY <1>5, <4>1
            <4> QED BY <4>2
        <3> QED BY <1>12, <3>1, <3>2
    <2>2. IsPrefix(path, vg) /\ tg = path
        BY <1>9, <1>12, <1>17
    <2>3. Len(path) >= 2
        BY <1>9, <1>12, <2>1, <2>2, ProjectNotAbove DEF path
    <2>4. Len(path) < Len(vg) /\ Len(path) \in Nat
        BY <1>9, <2>2
    <2>5. CASE v = HomeVolume
        <3>1. Len(vg) = 2
            BY <1>6, <1>17, <2>5
        <3> QED BY <2>3, <2>4, <3>1
    <2>6. CASE v = SrcVolume
        <3>1. Len(vg) = 3
            <4>1. vg = src
                BY <1>17, <2>6
            <4> QED BY <1>5, <4>1
        <3>2. Len(path) = 2
            <4> DEFINE m == Len(path)
            <4>1. m \in Nat /\ m >= 2 /\ m < 3
                BY <2>3, <2>4, <3>1
            <4> HIDE DEF m
            <4>2. m = 2
                BY <4>1
            <4> QED BY <4>2 DEF m
        <3>3. \A i \in 1..Len(path) : path[i] = vg[i]
            BY <1>4, <1>9, <2>2, PrefixAt
        <3>4. path = GuestHome
            <4>1. \A i \in 1..Len(path) : path[i] = GuestHome[i]
                BY <2>1, <3>2, <3>3
            <4> QED BY <1>4, <1>6, <3>2, <4>1, PathsEqual
        <3> QED BY <1>2, <1>7, <1>11, <1>12, <3>4
    <2> QED BY <1>12, <2>5, <2>6
<1>13. d \in Below(root, place)
    BY <1>2
<1>14. CASE v = HomeVolume
    <2>1. Len(tg) < 2 /\ Len(tg) \in Nat
        BY <1>6, <1>9, <1>14, <1>17
    <2>2. tg # GuestHome
        <3> SUFFICES ASSUME tg = GuestHome PROVE FALSE
            OBVIOUS
        <3> QED BY <1>6, <2>1
    <2>3. Len(src) = 3
        BY <1>5
    <2>4. tg # src
        <3> SUFFICES ASSUME tg = src PROVE FALSE
            OBVIOUS
        <3> QED BY <2>1, <2>3
    <2>5. top # HomeVolume /\ top # SrcVolume
        BY <1>17, <2>2, <2>4
    <2>6. NeedProjectShare(args) /\ top = ProjectVolume
        BY <1>2, <1>3, <1>8, <2>5
    <2> QED BY <1>12, <1>14, <2>5, <2>6
<1>15. CASE args.sandbox = NoDir /\ v = SrcVolume
    <2>1. vg = src
        BY <1>15, <1>17
    <2>2. top # SrcVolume
        BY <1>9, <1>17, <2>1
    <2>3. top = HomeVolume
        BY <1>2, <1>3, <1>8, <1>12, <1>15, <2>2
    <2>4. place = root \o Rel(GuestHome, src)
        BY <1>7, <1>17, <1>18, <2>1, <2>3
    <2> DEFINE r == Rel(GuestHome, src)
               n == Len(root)
               p == root \o r
    <2>5. r \in Path /\ Len(r) = 1 /\ r[1] = "src"
        <3>1. Len(GuestHome) <= Len(src) /\ Len(src) - Len(GuestHome) = 1
            BY <1>5, <1>6
        <3>2. /\ r \in Path /\ Len(r) = Len(src) - Len(GuestHome)
              /\ \A i \in 1..(Len(src) - Len(GuestHome)) : r[i] = src[Len(GuestHome) + i]
            BY <1>5, <1>6, <3>1, RelAt
        <3> HIDE DEF r
        <3>3. r[1] = src[2 + 1]
            BY <1>6, <3>1, <3>2
        <3> QED BY <1>5, <3>1, <3>2, <3>3
    <2> HIDE DEF r
    <2>6. n \in Nat /\ p \in Path /\ Len(p) = n + 1 /\ p[n + 1] = "src"
        <3>1. /\ p \in Path /\ Len(p) = Len(root) + Len(r)
              /\ \A i \in 1..Len(r) : p[Len(root) + i] = r[i]
            BY <1>4, <2>5, Joins
        <3> HIDE DEF p, root
        <3> QED BY <1>4, <2>5, <3>1, PathType
    <2> HIDE DEF p
    <2>7. \E m \in (n + 1)..(n + 1) : d = SubSeq(p, 1, m)
        BY <1>13, <2>4, <2>6 DEF Below, r, p
    <2>8. d = p
        <3>1. d = SubSeq(p, 1, n + 1)
            BY <2>6, <2>7
        <3> QED BY <2>6, <3>1, UpTo
    <2>9. p = home \o <<"state", "home", "src">>
        <3>1. root = home \o <<"state", "home">>
            BY <1>15 DEF HomeDir
        <3>2. r = <<"src">>
            <4> DEFINE one == <<"src">>
            <4>1. one \in Path /\ Len(one) = 1 /\ one[1] = "src"
                BY Short, Words
            <4>2. \A i \in 1..1 : i = 1
                OBVIOUS
            <4> HIDE DEF one
            <4>3. r = one
                BY <2>5, <4>1, <4>2, PathsEqual
            <4> QED BY <4>3 DEF one
        <3>3. home \in Path /\ <<"state", "home">> \in Path /\ <<"src">> \in Path
            BY <1>4, Words, Pairs, Short DEF Path
        <3>4. (home \o <<"state", "home">>) \o <<"src">> = home \o <<"state", "home", "src">>
            BY <3>3, JoinThree
        <3> QED BY <3>1, <3>2, <3>4 DEF p
    <2> QED BY <2>8, <2>9
<1>16. CASE NeedProjectShare(args) /\ v = ProjectVolume
    <2>1. vg = path
        BY <1>16, <1>17
    <2>2. top # ProjectVolume
        BY <1>9, <1>17, <2>1
    <2>3. CASE top = HomeVolume
        <3>1. place = root \o Rel(GuestHome, path) /\ IsPrefix(GuestHome, path)
            BY <1>7, <1>9, <1>17, <1>18, <2>1, <2>3
        <3>2. Mountpoint(args) = Below(root, root \o Rel(GuestHome, path))
            BY <1>16, <3>1 DEF Mountpoint, path
        <3> QED BY <1>13, <3>1, <3>2
    <2>4. CASE args.sandbox = NoDir /\ top = SrcVolume
        <3> DEFINE s == Append(home, "src")
                   r == Rel(src, path)
                   n == Len(home)
                   two == <<"state", "home">>
        <3>1. place = s \o r
            BY <1>7, <1>17, <1>18, <2>1, <2>4
        <3>2. r \in Path
            <4>1. Len(src) <= Len(path)
                BY <1>9, <1>17, <2>1, <2>4
            <4> QED BY <1>4, <1>5, <4>1, RelAt
        <3> HIDE DEF r
        <3>3. /\ s \o r \in Path /\ \A i \in 1..Len(s) : (s \o r)[i] = s[i]
            BY <1>4, <3>2, Joins
        <3>4. s \in Path /\ Len(s) = n + 1 /\ s[n + 1] = "src" /\ n \in Nat
            BY <1>4, PathType
        <3>5. root = home \o two
            BY <2>4 DEF HomeDir
        <3>6. two \in Path /\ Len(two) = 2 /\ two[1] = "state"
            BY Words, Pairs DEF Path
        <3> HIDE DEF s, root, two
        <3>7. Len(root) = n + 2 /\ root[n + 1] = "state"
            <4>1. Len(root) = Len(home) + Len(two) /\ \A i \in 1..Len(two) : root[Len(home) + i] = two[i]
                <5>1. /\ Len(home \o two) = Len(home) + Len(two)
                      /\ \A i \in 1..Len(two) : (home \o two)[Len(home) + i] = two[i]
                    BY <1>4, <3>6, Joins
                <5> QED BY <3>5, <5>1
            <4>3. Len(home) = n
                OBVIOUS
            <4>2. 1 \in 1..Len(two)
                BY <3>6
            <4> HIDE DEF n
            <4> QED BY <3>6, <4>1, <4>2, <4>3
        <3>8. \A i \in 1..Len(root) : root[i] = (s \o r)[i]
            BY <1>2, <1>4, <3>1, <3>3, PrefixAt
        <3>9. n + 1 \in 1..Len(root) /\ n + 1 \in 1..Len(s)
            BY <3>4, <3>7
        <3>10. "state" = "src"
            BY <3>3, <3>4, <3>7, <3>8, <3>9
        <3> QED BY <3>10
    <2> QED BY <1>2, <1>3, <1>8, <2>2, <2>3, <2>4
<1> QED BY <1>3, <1>8, <1>14, <1>15, <1>16

-----------------------------------------------------------------------------
(* The inductive invariant: what has been computed so far is what the      *)
(* invocation makes of it, phase by phase.                                 *)

\* What the entry writes for the shell to source.
EnvFile == FlattenSeq([i \in 1..Len(AgentEnvNames) |-> EnvLine(AgentEnvNames[i])])

NamesFit == \A i \in 1..Len(AgentEnvNames) : AgentEnvNames[i] \notin BadNames

Launched ==
    phase # "idle" =>
        /\ args \in Invocations /\ ~BadEnv(args) /\ ~Nameless(args)
        /\ volumes = Volumes(args) /\ flags = Flags(args)
        /\ Mountpoint(args) \subseteq userDirs \union rootDirs

Created ==
    phase \in {"created", "entered", "serving"} =>
        ~TwiceMounted /\ env = Environment(flags)

Entered ==
    phase \in {"entered", "serving"} =>
        NamesFit /\ run.project = env[PROJECT_ENV] /\ run.env = EnvFile

Serving ==
    IF phase = "serving"
    THEN \E login \in Logins : agent.env = LoggedIn(Exported(Sourced(run.env)), login)
    ELSE agent = NoAgent

IInv ==
    /\ home \in Homes
    /\ Launched /\ Created /\ Entered /\ Serving
    /\ ResidueOnlyAskedFor

LEMMA InitOK == Init => IInv
<1> SUFFICES ASSUME Init PROVE IInv
    OBVIOUS
<1>1. home \in Homes /\ phase = "idle" /\ agent = NoAgent /\ rootDirs = {}
    BY DEF Init
<1> QED BY <1>1 DEF IInv, Launched, Created, Entered, Serving, ResidueOnlyAskedFor

\* What an invocation makes of the home directory stays the same.
LEMMA Unmoved ==
    ASSUME home' = home, NEW a, args' = a
    PROVE  /\ Volumes(args)' = Volumes(a) /\ Flags(args)' = Flags(a)
           /\ Mountpoint(args)' = Mountpoint(a)
           /\ BadEnv(args)' = BadEnv(a) /\ Nameless(args)' = Nameless(a)
<1>1. HomeDir(args)' = HomeDir(a)
    BY DEF HomeDir
<1>2. UnderSrc(args)' = UnderSrc(a) /\ OneToOne(args)' = OneToOne(a)
    BY DEF UnderSrc, OneToOne
<1>3. GuestProjectPath(args)' = GuestProjectPath(a)
    BY <1>2 DEF GuestProjectPath
<1>4. NeedProjectShare(args)' = NeedProjectShare(a)
    BY <1>2 DEF NeedProjectShare
<1>5. Nameless(args)' = Nameless(a)
    BY <1>2 DEF Nameless
<1>6. Mountpoint(args)' = Mountpoint(a)
    BY <1>1, <1>3, <1>4 DEF Mountpoint
<1>7. Volumes(args)' = Volumes(a)
    BY <1>1, <1>3, <1>4 DEF Volumes
<1>8. Flags(args)' = Flags(a)
    <2>1. OwnFlags(args)' = OwnFlags(a)
        BY <1>3 DEF OwnFlags
    <2> QED BY <2>1 DEF Flags
<1>9. BadEnv(args)' = BadEnv(a)
    OBVIOUS
<1> QED BY <1>5, <1>6, <1>7, <1>8, <1>9

LEMMA UnmovedFile ==
    ASSUME env' = env
    PROVE  EnvFile' = EnvFile /\ NamesFit' = NamesFit
<1>1. AgentEnvNames' = AgentEnvNames
    BY DEF AgentEnvNames
<1>2. \A n : EnvLine(n)' = EnvLine(n)
    BY DEF EnvLine
<1>3. EnvFile' = EnvFile
    BY <1>1, <1>2 DEF EnvFile
<1>4. NamesFit' = NamesFit
    BY <1>1 DEF NamesFit
<1> QED BY <1>3, <1>4

LEMMA LaunchOK ==
    ASSUME IInv, NEW a \in Invocations, Launch(a)
    PROVE  IInv'
<1>1. /\ phase = "idle" /\ phase' = "launched" /\ home' = home /\ args' = a
      /\ ~BadEnv(a) /\ ~Nameless(a)
      /\ userDirs' = userDirs \union (Mountpoint(a) \ rootDirs)
      /\ volumes' = Volumes(a) /\ flags' = Flags(a)
      /\ env' = env /\ run' = run /\ agent' = agent /\ rootDirs' = rootDirs /\ asked' = asked
    BY DEF Launch
<1>2. Launched'
    <2>1. /\ Volumes(args)' = Volumes(a) /\ Flags(args)' = Flags(a)
          /\ Mountpoint(args)' = Mountpoint(a)
          /\ BadEnv(args)' = BadEnv(a) /\ Nameless(args)' = Nameless(a)
        BY <1>1, Unmoved
    <2>2. Mountpoint(a) \subseteq userDirs' \union rootDirs'
        BY <1>1
    <2> QED BY <1>1, <2>1, <2>2 DEF Launched
<1>3. Created' /\ Entered'
    BY <1>1 DEF Created, Entered
<1>4. Serving'
    BY <1>1 DEF IInv, Serving
<1>5. ResidueOnlyAskedFor'
    BY <1>1 DEF IInv, ResidueOnlyAskedFor
<1>6. home' \in Homes
    BY <1>1 DEF IInv
<1> QED BY <1>2, <1>3, <1>4, <1>5, <1>6 DEF IInv

\* Steps that leave the launch as it is.
LEMMA LaunchedKept ==
    ASSUME Launched, home' = home, args' = args, volumes' = volumes, flags' = flags,
           phase # "idle",
           userDirs \subseteq userDirs', rootDirs \subseteq rootDirs'
    PROVE  Launched'
<1>1. /\ Volumes(args)' = Volumes(args) /\ Flags(args)' = Flags(args)
      /\ Mountpoint(args)' = Mountpoint(args)
      /\ BadEnv(args)' = BadEnv(args) /\ Nameless(args)' = Nameless(args)
    BY Unmoved
<1> QED BY <1>1 DEF Launched

LEMMA PodmanRunOK ==
    ASSUME IInv, PodmanRun
    PROVE  IInv'
<1>1. /\ phase = "launched" /\ phase' = "created" /\ ~TwiceMounted
      /\ env' = Environment(flags)
      /\ rootDirs' = rootDirs \union ((UNION {OnTheWay(v) : v \in volumes}) \ userDirs)
      /\ asked' = asked \union UNION {OnTheWay(v) : v \in {w \in volumes : Explicit(w)}}
      /\ home' = home /\ args' = args /\ volumes' = volumes /\ flags' = flags
      /\ run' = run /\ agent' = agent /\ userDirs' = userDirs
    BY DEF PodmanRun
<1>8. \A d \in rootDirs' :
          d \in rootDirs \/ (d \notin userDirs /\ \E v \in volumes : d \in OnTheWay(v))
    <2>1. rootDirs' = rootDirs \union ((UNION {OnTheWay(v) : v \in volumes}) \ userDirs)
        BY DEF PodmanRun
    <2> QED BY <2>1
<1>2. Launched'
    BY <1>1, LaunchedKept DEF IInv
<1>3. Created'
    <2>1. TwiceMounted' <=> TwiceMounted
        BY <1>1 DEF TwiceMounted
    <2> QED BY <1>1, <2>1 DEF Created
<1>4. Entered'
    BY <1>1 DEF Entered
<1>5. Serving'
    BY <1>1 DEF IInv, Serving
<1>6. home' \in Homes
    BY <1>1 DEF IInv
<1>7. ResidueOnlyAskedFor'
    <2> SUFFICES ASSUME NEW d \in rootDirs' PROVE d \in asked' \/ d = home' \o <<"state", "home", "src">>
        BY DEF ResidueOnlyAskedFor
    <2>1. CASE d \in rootDirs
        BY <1>1, <2>1 DEF IInv, ResidueOnlyAskedFor
    <2>2. CASE d \notin rootDirs
        <3>1. d \notin userDirs /\ \E v \in volumes : d \in OnTheWay(v)
            BY <1>8, <2>2
        <3>2. PICK v \in volumes : d \in OnTheWay(v)
            BY <3>1
        <3>3. CASE Explicit(v)
            BY <1>1, <3>2, <3>3
        <3>4. CASE ~Explicit(v)
            <4>1. /\ home \in Homes /\ args \in Invocations /\ ~Nameless(args)
                  /\ volumes = Volumes(args) /\ Mountpoint(args) \subseteq userDirs \union rootDirs
                BY <1>1 DEF IInv, Launched
            <4>2. d \in Mountpoint(args) \/ d = home \o <<"state", "home", "src">>
                BY <1>1, <3>2, <3>4, <4>1, ResidueOf
            <4> QED BY <1>1, <2>2, <3>1, <4>1, <4>2
        <3> QED BY <3>3, <3>4
    <2> QED BY <2>1, <2>2
<1> QED BY <1>2, <1>3, <1>4, <1>5, <1>6, <1>7 DEF IInv

LEMMA WriteRuntimeConfigOK ==
    ASSUME IInv, WriteRuntimeConfig
    PROVE  IInv'
<1>1. /\ phase = "created" /\ phase' = "entered" /\ NamesFit
      /\ run'.project = env[PROJECT_ENV] /\ run'.env = EnvFile
      /\ home' = home /\ args' = args /\ volumes' = volumes /\ flags' = flags
      /\ env' = env /\ agent' = agent
      /\ userDirs' = userDirs /\ rootDirs' = rootDirs /\ asked' = asked
    BY DEF WriteRuntimeConfig, NamesFit, EnvFile, dirs
<1>2. Launched'
    BY <1>1, LaunchedKept DEF IInv
<1>3. Created'
    <2>1. TwiceMounted' <=> TwiceMounted
        BY <1>1 DEF TwiceMounted
    <2> QED BY <1>1, <2>1 DEF IInv, Created
<1>4. Entered'
    <2>1. EnvFile' = EnvFile /\ NamesFit' = NamesFit
        BY <1>1, UnmovedFile
    <2> QED BY <1>1, <2>1 DEF Entered
<1>5. Serving'
    BY <1>1 DEF IInv, Serving
<1>6. home' \in Homes /\ ResidueOnlyAskedFor'
    BY <1>1 DEF IInv, ResidueOnlyAskedFor
<1> QED BY <1>2, <1>3, <1>4, <1>5, <1>6 DEF IInv

LEMMA StartAgentOK ==
    ASSUME IInv, StartAgent
    PROVE  IInv'
<1>1. /\ phase = "entered" /\ phase' = "serving"
      /\ \E login \in Logins : agent'.env = LoggedIn(Exported(Sourced(run.env)), login)
      /\ home' = home /\ args' = args /\ volumes' = volumes /\ flags' = flags
      /\ env' = env /\ run' = run
      /\ userDirs' = userDirs /\ rootDirs' = rootDirs /\ asked' = asked
    BY DEF StartAgent, dirs
<1>2. Launched'
    BY <1>1, LaunchedKept DEF IInv
<1>3. Created'
    <2>1. TwiceMounted' <=> TwiceMounted
        BY <1>1 DEF TwiceMounted
    <2> QED BY <1>1, <2>1 DEF IInv, Created
<1>4. Entered'
    <2>1. EnvFile' = EnvFile /\ NamesFit' = NamesFit
        BY <1>1, UnmovedFile
    <2> QED BY <1>1, <2>1 DEF IInv, Entered
<1>5. Serving'
    <2>1. \A login : LoggedIn(Exported(Sourced(run.env)), login)' = LoggedIn(Exported(Sourced(run.env)), login')
        BY <1>1
    <2> QED BY <1>1, <2>1 DEF Serving
<1>6. home' \in Homes /\ ResidueOnlyAskedFor'
    BY <1>1 DEF IInv, ResidueOnlyAskedFor
<1> QED BY <1>2, <1>3, <1>4, <1>5, <1>6 DEF IInv

LEMMA NextOK == IInv /\ [Next]_vars => IInv'
<1> SUFFICES ASSUME IInv, [Next]_vars PROVE IInv'
    OBVIOUS
<1>1. CASE \E a \in Invocations : Launch(a)
    BY <1>1, LaunchOK
<1>2. CASE \E a \in Invocations : LaunchFails(a)
    <2>1. /\ phase = "idle" /\ phase' = phase /\ home' = home /\ agent' = agent
          /\ rootDirs' = rootDirs /\ asked' = asked
        BY <1>2 DEF LaunchFails, launch
    <2> QED BY <2>1 DEF IInv, Launched, Created, Entered, Serving, ResidueOnlyAskedFor
<1>3. CASE PodmanRun
    BY <1>3, PodmanRunOK
<1>4. CASE WriteRuntimeConfig
    BY <1>4, WriteRuntimeConfigOK
<1>5. CASE StartAgent
    BY <1>5, StartAgentOK
<1>6. CASE End
    <2>1. /\ phase' = "idle" /\ home' = home /\ agent' = NoAgent
          /\ rootDirs' = rootDirs /\ asked' = asked
        BY <1>6 DEF End, dirs
    <2> QED BY <2>1 DEF IInv, Launched, Created, Entered, Serving, ResidueOnlyAskedFor
<1>7. CASE UNCHANGED vars
    <2>1. /\ phase' = phase /\ home' = home /\ args' = args /\ volumes' = volumes /\ flags' = flags
          /\ env' = env /\ run' = run /\ agent' = agent
          /\ userDirs' = userDirs /\ rootDirs' = rootDirs /\ asked' = asked
        BY <1>7 DEF vars, launch, dirs
    <2>2. Launched'
        <3>1. CASE phase = "idle"
            BY <2>1, <3>1 DEF Launched
        <3>2. CASE phase # "idle"
            BY <2>1, <3>2, LaunchedKept DEF IInv
        <3> QED BY <3>1, <3>2
    <2>3. Created'
        <3>1. TwiceMounted' <=> TwiceMounted
            BY <2>1 DEF TwiceMounted
        <3> QED BY <2>1, <3>1 DEF IInv, Created
    <2>4. Entered'
        <3>1. EnvFile' = EnvFile /\ NamesFit' = NamesFit
            BY <2>1, UnmovedFile
        <3> QED BY <2>1, <3>1 DEF IInv, Entered
    <2>5. Serving'
        BY <2>1 DEF IInv, Serving
    <2>6. home' \in Homes /\ ResidueOnlyAskedFor'
        BY <2>1 DEF IInv, ResidueOnlyAskedFor
    <2> QED BY <2>2, <2>3, <2>4, <2>5, <2>6 DEF IInv
<1>8. CASE \E a \in Invocations : Refuse(a)
    BY <1>7, <1>8 DEF Refuse
<1> QED BY <1>1, <1>2, <1>3, <1>4, <1>5, <1>6, <1>7, <1>8 DEF Next

-----------------------------------------------------------------------------
(* The theorems.                                                           *)

\* In every reachable state, what has been computed of a launch is what its
\* invocation makes of it: volumes, flags and mountpoint in claudepod-start,
\* the environment in podman, the files in claudepod-entry, the shell's
\* variables in the guest's service.
THEOREM LaunchInvariant == Spec => []IInv
<1>1. Init => IInv
    BY InitOK
<1>2. IInv /\ [Next]_vars => IInv'
    BY NextOK
<1> QED BY <1>1, <1>2, PTL DEF Spec

\* A launch over any history leaves to the root of a container nothing but
\* the mountpoint of ~/src and what explicit volumes have to do with.
THEOREM LaunchResidue == Spec => []ResidueOnlyAskedFor
<1>1. IInv => ResidueOnlyAskedFor
    BY DEF IInv
<1> QED BY <1>1, LaunchInvariant, PTL

\* The guest finds the current directory of the launcher under the project
\* path it is told.
THEOREM LaunchProject == Spec => []ProjectReachesGuest
<1>1. ASSUME IInv PROVE ProjectReachesGuest
    <2> SUFFICES ASSUME phase \in {"entered", "serving"}, ~(UnderSrc(args) /\ Hidden(run.project))
                 PROVE  Shows(volumes, run.project) = args.cwd
        BY DEF ProjectReachesGuest
    <2>1. /\ home \in Homes /\ args \in Invocations /\ ~BadEnv(args) /\ ~Nameless(args)
          /\ volumes = Volumes(args) /\ flags = Flags(args)
          /\ ~TwiceMounted /\ env = Environment(flags) /\ run.project = env[PROJECT_ENV]
        BY <1>1 DEF IInv, Launched, Created, Entered
    <2>2. run.project = GuestProjectPath(args)
        BY <2>1, FlagsSay
    <2>3. Apart(Volumes(args))
        BY <2>1 DEF Apart, TwiceMounted
    <2>4. CASE NeedProjectShare(args)
        BY <2>1, <2>2, <2>3, <2>4, ProjectShared
    <2>5. CASE UnderSrc(args)
        <3>1. \A v \in ExtraVolumes(args) :
                 ~ (/\ IsStrictPrefix(Append(GuestHome, "src"), v.guest)
                    /\ IsPrefix(v.guest, GuestProjectPath(args)))
            BY <2>2, <2>5 DEF Hidden
        <3> QED BY <2>1, <2>2, <2>3, <2>5, <3>1, ProjectInSrc
    <2> QED BY <2>4, <2>5 DEF NeedProjectShare
<1> QED BY <1>1, LaunchInvariant, PTL

\* The entry reads the names that the launcher listed.
LEMMA NamesRead ==
    ASSUME home \in Homes, NEW a \in Invocations, ~Nameless(a), ~BadEnv(a),
           env = Environment(Flags(a))
    PROVE  /\ AgentEnvNames \in Seq(Names) /\ Len(AgentEnvNames) = Len(EnvSpecs(a))
           /\ \A i \in 1..Len(EnvSpecs(a)) : AgentEnvNames[i] = EnvSpecs(a)[i].name
<1> DEFINE specs == EnvSpecs(a)
           m == Len(EnvSpecs(a))
           J == JoinNames(EnvSpecs(a))
<1>1. specs \in Seq(EnvType) /\ m \in Nat
    BY EnvSpecsType
<1>2. CASE specs = <<>>
    <2>1. NAMES_ENV \notin DOMAIN env
        BY <1>2, FlagsSay
    <2>2. AgentEnvNames = <<>>
        BY <2>1 DEF AgentEnvNames
    <2>3. m = 0
        BY <1>2
    <2> HIDE DEF m, specs
    <2>4. AgentEnvNames \in Seq(Names) /\ Len(AgentEnvNames) = m
        BY <2>2, <2>3, EmptyPath DEF Path
    <2>5. \A i \in 1..m : FALSE
        BY <2>3
    <2> QED BY <2>4, <2>5 DEF m
<1>3. CASE specs # <<>>
    <2>1. m # 0 /\ m >= 1
        BY <1>1, <1>3, EmptySeq
    <2>2. NAMES_ENV \in DOMAIN env /\ env[NAMES_ENV] = J
        BY <1>3, FlagsSay
    <2>3. J \in Path /\ Len(J) = 2 * m - 1 /\ \A i \in 1..m : J[2 * i - 1] = specs[i].name
        BY <1>1, <2>1, JoinNamesIs
    <2>4. \A i \in 1..m : specs[i].name \in Names
        BY SpecNames
    <2> HIDE DEF J, m, specs
    <2>5. (Len(J) + 1) \div 2 = m /\ J # <<>>
        <3>1. 2 * m - 1 >= 1 /\ ((2 * m - 1) + 1) \div 2 = m
            BY <1>1, <2>1
        <3> QED BY <2>3, <3>1, EmptyPath
    <2>6. AgentEnvNames = [i \in 1..m |-> J[2 * i - 1]]
        BY <2>2, <2>5 DEF AgentEnvNames
    <2>7. AgentEnvNames = [i \in 1..m |-> specs[i].name]
        BY <2>3, <2>6
    <2>8. AgentEnvNames \in [1..m -> Names]
        BY <2>4, <2>7
    <2>9. AgentEnvNames \in Seq(Names) /\ Len(AgentEnvNames) = m
        BY <1>1, <2>7, <2>8
    <2> QED BY <2>7, <2>9 DEF m, specs
<1> QED BY <1>2, <1>3

\* The last of a list of flags that says something of a name, in two words.
LEMMA SaysGives ==
    ASSUME NEW fs \in Seq(EnvType), NEW n
    PROVE  /\ Says(fs, n) # {} <=> TellsOf(fs, n)
           /\ Says(fs, n) # {} => Gives(fs, n, LastSaid(fs, n))
<1> DEFINE S == Says(fs, n)
           m == Len(fs)
           i == CHOOSE k \in S : \A j \in S : j <= k
<1>1. S = {k \in 1..m : fs[k].name = n /\ Tells(fs[k])}
    BY DEF Says, Tells
<1>2. m \in Nat
    OBVIOUS
<1>3. LastSaid(fs, n) = IF fs[i].value = Inherit THEN HostEnv[n] ELSE fs[i].value
    BY DEF LastSaid
<1> HIDE DEF S, m
<1>4. S # {} <=> TellsOf(fs, n)
    BY <1>1 DEF TellsOf, m
<1>5. ASSUME S # {} PROVE Gives(fs, n, LastSaid(fs, n))
    <2>1. S \subseteq 0..m
        BY <1>1, <1>2
    <2>2. \E k \in S : \A j \in S : j <= k
        BY <1>2, <1>5, <2>1, Largest
    <2>3. i \in S /\ \A j \in S : j <= i
        BY <2>2
    <2> HIDE DEF i
    <2>4. i \in 1..m /\ fs[i].name = n /\ Tells(fs[i])
        BY <1>1, <2>3
    <2>5. ASSUME NEW j \in (i + 1)..m, Tells(fs[j]) PROVE fs[j].name # n
        <3>1. j \in 1..m /\ ~(j <= i)
            BY <1>2, <2>4
        <3> QED BY <1>1, <2>3, <2>5, <3>1
    <2>6. LastTells(fs, i)
        BY <2>4, <2>5 DEF LastTells, m
    <2>7. ValueOf(fs[i]) = LastSaid(fs, n)
        BY <1>3, <2>4 DEF ValueOf
    <2> QED BY <2>4, <2>6, <2>7 DEF Gives
<1> QED BY <1>4, <1>5 DEF S

\* What a login shell leaves alone is there as the script exported it.
LEMMA LoggedInKeeps ==
    ASSUME NEW environment, NEW login \in Logins
    PROVE  /\ DOMAIN LoggedIn(environment, login) \ LoginNames = DOMAIN environment \ LoginNames
           /\ \A n \in DOMAIN environment \ LoginNames : LoggedIn(environment, login)[n] = environment[n]
<1>1. DOMAIN login.set \subseteq LoginNames /\ login.unset \subseteq LoginNames
    BY DEF LoginNames
<1> QED BY <1>1 DEF LoggedIn

\* Beyond what a login shell may do, the agent has the environment of the
\* service and the variables that were selected, each with the value of the
\* user's last flag, or of the launcher's own.
THEOREM LaunchEnvironment == Spec => []EnvReachesAgent
<1>1. ASSUME IInv PROVE EnvReachesAgent
    <2> DEFINE asks == IF args.gpu THEN <<OPENGL_DRIVER_ENV>> \o args.env ELSE args.env
               own == OwnFlags(args)
               told == {n \in {asks[i].name : i \in 1..Len(asks)} \ {"COMMAND"} :
                           Says(asks, n) \union Says(own, n) # {}}
               kept == DOMAIN agent.env \ LoginNames
               Expected(n) == IF n \notin told THEN ServiceEnv[n]
                              ELSE IF Says(own, n) # {} THEN LastSaid(own, n)
                              ELSE LastSaid(asks, n)
    <2> SUFFICES ASSUME agent # NoAgent
                 PROVE  /\ kept = (told \union DOMAIN ServiceEnv) \ LoginNames
                        /\ \A n \in kept : agent.env[n] = Expected(n)
        BY DEF EnvReachesAgent
    <2> DEFINE vs == Sourced(run.env)
               ex == Exported(vs)
    <2>1. phase = "serving" /\ \E login \in Logins : agent.env = LoggedIn(ex, login)
        BY <1>1 DEF IInv, Serving
    <2>2. /\ home \in Homes /\ args \in Invocations /\ ~BadEnv(args) /\ ~Nameless(args)
          /\ env = Environment(Flags(args)) /\ NamesFit /\ run.env = EnvFile
        BY <1>1, <2>1 DEF IInv, Launched, Created, Entered
    <2>3. asks = EnvSpecs(args)
        BY DEF EnvSpecs
    <2>4. asks \in Seq(EnvType) /\ own \in Seq(EnvType)
        BY <2>2, <2>3, EnvSpecsType, OwnFlagsAre DEF OwnPart
    <2>5. \A i \in 1..Len(asks) : asks[i].name \in Names \ {NAMES_ENV}
        BY <2>2, <2>3, SpecNames
    <2>6. /\ AgentEnvNames \in Seq(Names) /\ Len(AgentEnvNames) = Len(asks)
          /\ \A i \in 1..Len(asks) : AgentEnvNames[i] = asks[i].name
        BY <2>2, <2>3, NamesRead
    <2>7. /\ env \in EnvMaps
          /\ \A n \in Names \ {NAMES_ENV} :
                /\ n \in DOMAIN env <=> TellsOf(asks, n) \/ TellsOf(own, n)
                /\ \A value : Gives(own, n, value) => env[n] = value
                /\ \A value : Gives(asks, n, value) /\ ~TellsOf(own, n) => env[n] = value
        BY <2>2, <2>3, FlagsSay
    <2>8. ASSUME NEW n
          PROVE  /\ n \in told <=> /\ \E i \in 1..Len(asks) : asks[i].name = n
                                   /\ n # "COMMAND"
                                   /\ TellsOf(asks, n) \/ TellsOf(own, n)
                 /\ Says(own, n) # {} <=> TellsOf(own, n)
                 /\ Says(own, n) # {} => Gives(own, n, LastSaid(own, n))
                 /\ Says(asks, n) # {} => Gives(asks, n, LastSaid(asks, n))
        <3> HIDE DEF asks, own
        <3>1. /\ Says(own, n) # {} <=> TellsOf(own, n)
              /\ Says(own, n) # {} => Gives(own, n, LastSaid(own, n))
            BY <2>4, SaysGives
        <3>2. /\ Says(asks, n) # {} <=> TellsOf(asks, n)
              /\ Says(asks, n) # {} => Gives(asks, n, LastSaid(asks, n))
            BY <2>4, SaysGives
        <3> QED BY <3>1, <3>2
    <2>9. \A n : Says(asks, n) # {} <=> TellsOf(asks, n)
        <3> HIDE DEF asks
        <3> QED BY <2>4, SaysGives
    <2> HIDE DEF asks, own, told
    <2>10. vs \in EnvMaps /\ ReadTo(AgentEnvNames, env, vs, Len(asks))
        <3>1. \A i \in 1..Len(AgentEnvNames) : AgentEnvNames[i] \notin BadNames
            BY <2>2 DEF NamesFit
        <3>2. vs = Sourced(FlattenSeq([i \in 1..Len(AgentEnvNames) |-> EnvLine(AgentEnvNames[i])]))
            BY <2>2 DEF EnvFile
        <3> QED BY <2>6, <2>7, <3>1, <3>2, SourcedLines
    <2> HIDE DEF vs
    <2>11. DOMAIN vs \ {"COMMAND"} = told
        <3>1. DOMAIN vs \subseteq Names
            BY <2>10, EnvMapsAre
        <3>2. \A n \in Names : n \in DOMAIN vs <=> n \in DOMAIN env /\ \E i \in 1..Len(asks) : asks[i].name = n
            BY <2>6, <2>10 DEF ReadTo
        <3>3. ASSUME NEW n, n \in told PROVE n \in Names \ {NAMES_ENV}
            BY <2>5, <2>8, <3>3
        <3>4. ASSUME NEW n, n \in DOMAIN vs PROVE n \in Names \ {NAMES_ENV}
            BY <2>5, <3>1, <3>2, <3>4
        <3> QED BY <2>7, <2>8, <3>2, <3>3, <3>4
    <2>12. ASSUME NEW n \in told PROVE vs[n] = Expected(n)
        <3>1. n \in Names \ {NAMES_ENV} /\ vs[n] = env[n]
            BY <2>5, <2>8, <2>10, <2>11 DEF ReadTo
        <3>2. CASE Says(own, n) # {}
            BY <2>7, <2>8, <3>1, <3>2
        <3>3. CASE Says(own, n) = {}
            <4>1. Says(asks, n) # {} /\ ~TellsOf(own, n)
                BY <2>8, <2>9, <3>3
            <4>2. env[n] = LastSaid(asks, n)
                BY <2>7, <2>8, <3>1, <4>1
            <4> QED BY <3>1, <3>3, <4>2
        <3> QED BY <3>2, <3>3
    <2>13. DOMAIN ex = DOMAIN ServiceEnv \union told
        BY <2>11 DEF Exported
    <2>14. ASSUME NEW n \in DOMAIN ex PROVE ex[n] = Expected(n)
        <3>1. ex[n] = IF n \in DOMAIN vs THEN vs[n] ELSE ServiceEnv[n]
            BY <2>11, <2>13 DEF Exported, ShellValue
        <3>2. CASE n \in told
            BY <2>11, <2>12, <3>1, <3>2
        <3>3. CASE n \notin told
            <4>1. n # "COMMAND"
                BY <2>13, <3>3, LaunchAssumption
            <4>2. n \notin DOMAIN vs
                BY <2>11, <3>3, <4>1
            <4> QED BY <3>1, <3>3, <4>2
        <3> QED BY <3>2, <3>3
    <2> HIDE DEF Expected, ex
    <2>15. PICK login \in Logins : agent.env = LoggedIn(ex, login)
        BY <2>1
    <2>16. kept = DOMAIN ex \ LoginNames /\ \A n \in kept : agent.env[n] = ex[n]
        BY <2>15, LoggedInKeeps
    <2> QED BY <2>13, <2>14, <2>16
<1> QED BY <1>1, LaunchInvariant, PTL
====
