-------------------------- MODULE NestedStoresProofs --------------------------
(***************************************************************************)
(* Proofs about nested launches, for any number of containers at any       *)
(* depth, any store paths and any contents.                                *)
(***************************************************************************)
EXTENDS NestedStores, TLAPS

\* One plain directory per layer, as podman binds them.
Singles(layers) == [i \in 1..Len(layers) |-> <<layers[i]>>]

\* The levels a stack is made of: each one runs and was launched from the next.
Chain(l) ==
    /\ store[l] \in Seq(Levels) /\ store[l] # <<>>
    /\ store[l][1] = l
    /\ \A j \in 1..Len(store[l]) : Running(store[l][j]) /\ store[l][j] <= l
    /\ \A j \in 1..(Len(store[l]) - 1) :
          store[l][j] \in Pods /\ parent[store[l][j]] = store[l][j + 1]

\* What a container was given by the launcher of its parent.
Handed(c) ==
    /\ parent[c] < c /\ Running(parent[c])
    /\ binds[c] = Singles(store[parent[c]])
    /\ layersEnv[c] = Join(ChildLayers(store[parent[c]]))
    /\ pod[c] = "created" => store[c] = store[parent[c]]

\* What a level leaves for the launchers in it.
Left(l) ==
    layersFile[l] =
        IF l = Host THEN <<>>
        ELSE Append(Join(<<UpperDir>> \o ChildLayers(store[parent[l]])), Newline)

MountsTypeOK ==
    /\ pod \in [Levels -> {"none", "created", "mounted", "running", "gone"}]
    /\ parent \in [Levels -> Levels]
    /\ binds \in [Levels -> Seq(Seq(Levels))]
    /\ layersEnv \in [Levels -> Seq(Symbols)]
    /\ layersFile \in [Levels -> Seq(Symbols)]
    /\ store \in [Levels -> Seq(Levels)]
    /\ pod[Host] = "running" /\ store[Host] = <<Host>>

\* The invariant of the mounts: it speaks of raw files and variables only, so
\* that a step of another container leaves it alone.
MountsInv ==
    /\ MountsTypeOK
    /\ \A l \in Levels : Running(l) => Chain(l) /\ Left(l)
    /\ \A c \in Pods : Live(c) => Handed(c)
    /\ StackIsInherited

\* A level that shows a valid path shows it from the first layer that knows
\* the path, and every level down to that layer has registered the same.
WitnessAt(l, x, i) ==
    /\ files[store[l][i]][x] \in {db[l][x], Whiteout}
    /\ \A j \in 1..i : db[store[l][j]][x] = db[l][x]
    /\ \A j \in 1..(i - 1) : files[store[l][j]][x] = None

Witnessed(l, x) == \E i \in 1..Len(store[l]) : WitnessAt(l, x, i)

FilesTypeOK ==
    /\ files \in [Levels -> [Paths -> Contents \union {None, Whiteout}]]
    /\ db \in [Levels -> [Paths -> Contents \union {None}]]

\* The invariant of files and databases.
FilesInv ==
    /\ FilesTypeOK
    /\ \A l \in Levels, x \in Paths :
          /\ ~Running(l) => db[l][x] = None
          /\ l # Host /\ files[l][x] \in Contents => db[l][x] = files[l][x]
          /\ Running(l) /\ db[l][x] # None => Witnessed(l, x)

IInv == MountsInv /\ FilesInv

-----------------------------------------------------------------------------
(* The encoding.                                                           *)

\* A list that holds no separator survives its encoding.
LEMMA JoinParse ==
    ASSUME NEW dirs \in Seq(Symbols), dirs # <<>>,
           \A i \in 1..Len(dirs) : dirs[i] # Colon
    PROVE  /\ Join(dirs) \in Seq(Symbols) /\ Join(dirs) # <<>>
           /\ Accepted(Join(dirs))
           /\ Parse(Join(dirs)) = dirs
<1> DEFINE n == Len(dirs)
           s == Join(dirs)
<1>1. n \in Nat \ {0}
    OBVIOUS
<1>2. s = [k \in 1..(2 * n - 1) |-> IF k % 2 = 1 THEN dirs[(k + 1) \div 2] ELSE Colon]
    BY DEF Join
<1>3. \A k \in 1..(2 * n - 1) : k % 2 = 1 => (k + 1) \div 2 \in 1..n
    BY <1>1
<1>4. s \in Seq(Symbols) /\ Len(s) = 2 * n - 1
    <2>1. \A k \in 1..(2 * n - 1) : s[k] \in Symbols
        <3> SUFFICES ASSUME NEW k \in 1..(2 * n - 1) PROVE s[k] \in Symbols
            OBVIOUS
        <3>1. CASE k % 2 = 1
            BY <1>2, <1>3, <3>1
        <3>2. CASE k % 2 # 1
            <4>1. s[k] = Colon
                BY <1>2, <3>2
            <4>2. Colon \in Symbols
                BY DEF Colon, Symbols
            <4> QED BY <4>1, <4>2
        <3> QED BY <3>1, <3>2
    <2>2. 2 * n - 1 \in Nat
        BY <1>1
    <2> HIDE DEF s, n
    <2> QED BY <1>2, <2>1, <2>2
<1>5. Accepted(s)
    <2>1. (2 * n - 1) % 2 = 1
        BY <1>1
    <2>2. \A k \in 1..(2 * n - 1) : s[k] = Colon <=> k % 2 = 0
        <3> SUFFICES ASSUME NEW k \in 1..(2 * n - 1) PROVE s[k] = Colon <=> k % 2 = 0
            OBVIOUS
        <3>1. CASE k % 2 = 1
            BY <1>2, <1>3, <3>1
        <3>2. CASE k % 2 = 0
            BY <1>2, <3>2
        <3> QED BY <3>1, <3>2
    <2> QED BY <1>4, <2>1, <2>2 DEF Accepted
<1>6. Parse(s) = dirs
    <2>1. (Len(s) + 1) \div 2 = n
        BY <1>1, <1>4
    <2>2. \A i \in 1..n : s[2 * i - 1] = dirs[i]
        <3> SUFFICES ASSUME NEW i \in 1..n PROVE s[2 * i - 1] = dirs[i]
            OBVIOUS
        <3>1. 2 * i - 1 \in 1..(2 * n - 1) /\ (2 * i - 1) % 2 = 1 /\ (2 * i) \div 2 = i
            BY <1>1
        <3> QED BY <1>2, <3>1
    <2>3. Parse(s) = [i \in 1..n |-> s[2 * i - 1]]
        BY <2>1 DEF Parse
    <2>4. dirs = [i \in 1..n |-> dirs[i]]
        OBVIOUS
    <2> QED BY <2>2, <2>3, <2>4
<1> QED BY <1>1, <1>4, <1>5, <1>6

\* The newline at the end of a file goes, and nothing else.
LEMMA TrimNewline ==
    ASSUME NEW s \in Seq(Symbols)
    PROVE  Trim(Append(s, Newline)) = s
<1>1. Newline \in Symbols
    BY DEF Newline, Symbols
<1>2. Append(s, Newline) \in Seq(Symbols) /\ Len(Append(s, Newline)) = Len(s) + 1
    BY <1>1
<1>3. SubSeq(Append(s, Newline), 1, Len(s)) = s
    BY <1>1
<1>4. Append(s, Newline)[Len(s) + 1] = Newline /\ (Len(s) + 1) - 1 = Len(s)
    BY <1>1
<1> DEFINE raw == Append(s, Newline)
<1>5. raw # <<>> /\ raw[Len(raw)] = Newline /\ SubSeq(raw, 1, Len(raw) - 1) = s
    BY <1>2, <1>3, <1>4, Len(s) \in Nat
<1> HIDE DEF raw
<1>6. Trim(raw) = s
    BY <1>5 DEF Trim
<1> QED BY <1>6 DEF raw

\* The short names of a stack: a list of that length without separators.
LEMMA ShortNames ==
    ASSUME NEW layers, Len(layers) \in Nat
    PROVE  /\ ChildLayers(layers) \in Seq(Symbols)
           /\ Len(ChildLayers(layers)) = Len(layers)
           /\ \A i \in 1..Len(layers) :
                 ChildLayers(layers)[i] = LayerDir(i - 1) /\ LayerDir(i - 1) # Colon
<1>1. \A i \in 1..Len(layers) : LayerDir(i - 1) \in Symbols /\ LayerDir(i - 1) # Colon
    BY DEF LayerDir, Symbols, Colon
<1> QED BY <1>1 DEF ChildLayers

-----------------------------------------------------------------------------
(* What a level leaves is what a launch in it finds.                       *)

\* The names under which a container has what its launcher bound.
LEMMA NamesResolve ==
    ASSUME MountsInv, NEW c \in Pods, Live(c),
           NEW i \in 1..Len(store[parent[c]])
    PROVE  Resolve(c, LayerDir(i - 1)) = <<store[parent[c]][i]>>
<1>1. binds[c] = Singles(store[parent[c]])
    BY DEF MountsInv, Handed
<1>2. LayerDir(i - 1) # StoreDir /\ LayerDir(i - 1) # UpperDir /\ LayerDir(i - 1)[2] + 1 = i
    BY DEF LayerDir, StoreDir, UpperDir
<1>3. i \in DOMAIN binds[c] /\ binds[c][i] = <<store[parent[c]][i]>>
    BY <1>1 DEF Singles
<1> QED BY <1>2, <1>3 DEF Resolve

LEMMA LaunchFinds ==
    ASSUME MountsInv, NEW p \in Levels, Running(p)
    PROVE  /\ Parsable(p)
           /\ Len(ParentLayers(p)) = Len(store[p])
           /\ Binds(p, ParentLayers(p)) = Singles(store[p])
<1>0. Left(p)
    BY DEF MountsInv
<1>1. CASE p = Host
    <2>1. layersFile[p] = <<>> /\ store[p] = <<Host>>
        BY <1>0, <1>1 DEF Left, MountsInv, MountsTypeOK
    <2>2. ParentLayers(p) = <<StoreDir>> /\ Resolve(p, StoreDir) = <<Host>>
        BY <2>1 DEF ParentLayers, Resolve
    <2> QED BY <2>1, <2>2 DEF Parsable, Binds, Singles
<1>2. CASE p # Host
    <2> DEFINE q == parent[p]
               L == <<UpperDir>> \o ChildLayers(store[q])
    <2>1. p \in Pods /\ Live(p) /\ pod[p] = "running"
        BY <1>2 DEF Levels, Live, Running
    <2>2. q \in Levels /\ store[q] \in Seq(Levels) /\ store[p] = <<p>> \o store[q]
        BY <2>1 DEF MountsInv, MountsTypeOK, StackIsInherited
    <2>3. Len(store[q]) \in Nat /\ Len(store[p]) = Len(store[q]) + 1
        BY <2>1, <2>2 DEF Levels
    <2>4. /\ L \in Seq(Symbols) /\ L # <<>> /\ Len(L) = Len(store[q]) + 1
          /\ L[1] = UpperDir
          /\ \A i \in 1..Len(store[q]) : L[i + 1] = LayerDir(i - 1)
          /\ \A i \in 1..Len(L) : L[i] # Colon
        <3>1. UpperDir \in Symbols /\ UpperDir # Colon
            BY DEF UpperDir, Symbols, Colon
        <3>2. ChildLayers(store[q]) \in Seq(Symbols) /\ Len(ChildLayers(store[q])) = Len(store[q])
            BY <2>3, ShortNames
        <3>3. L \in Seq(Symbols) /\ Len(L) = Len(store[q]) + 1 /\ L[1] = UpperDir
            BY <3>1, <3>2
        <3>4. \A i \in 1..Len(store[q]) : L[i + 1] = ChildLayers(store[q])[i]
            BY <3>1, <3>2, <2>3
        <3>5. \A i \in 1..Len(store[q]) : L[i + 1] = LayerDir(i - 1) /\ L[i + 1] # Colon
            BY <3>4, <2>3, ShortNames
        <3>6. \A i \in 1..Len(L) : L[i] # Colon
            <4> SUFFICES ASSUME NEW i \in 1..Len(L) PROVE L[i] # Colon
                OBVIOUS
            <4>1. i = 1 \/ (i - 1 \in 1..Len(store[q]) /\ (i - 1) + 1 = i)
                BY <3>3, <2>3
            <4> HIDE DEF L
            <4> QED BY <4>1, <3>1, <3>3, <3>5
        <3> QED BY <2>3, <3>3, <3>5, <3>6
    <2>5. layersFile[p] = Append(Join(L), Newline)
        BY <1>0, <1>2 DEF Left
    <2> HIDE DEF L
    <2>6. Join(L) \in Seq(Symbols) /\ Accepted(Join(L)) /\ Parse(Join(L)) = L
        BY <2>4, JoinParse
    <2>7. Trim(layersFile[p]) = Join(L) /\ layersFile[p] # <<>>
        <3>1. Newline \in Symbols
            BY DEF Newline, Symbols
        <3>2. Len(Append(Join(L), Newline)) = Len(Join(L)) + 1 /\ Len(Join(L)) \in Nat
            BY <2>6, <3>1
        <3>3. Trim(layersFile[p]) = Join(L)
            BY <2>5, <2>6, TrimNewline
        <3>4. Append(Join(L), Newline) # <<>>
            BY <3>2
        <3> QED BY <2>5, <3>3, <3>4
    <2>8. ParentLayers(p) = L /\ Parsable(p)
        BY <2>6, <2>7 DEF ParentLayers, Parsable
    <2>9. \A i \in 1..Len(L) : Resolve(p, L[i]) = <<store[p][i]>>
        <3> SUFFICES ASSUME NEW i \in 1..Len(L) PROVE Resolve(p, L[i]) = <<store[p][i]>>
            OBVIOUS
        <3>1. CASE i = 1
            <4>1. UpperDir # StoreDir
                BY DEF UpperDir, StoreDir
            <4>2. Resolve(p, UpperDir) = <<p>> /\ store[p][1] = p
                BY <4>1, <2>2 DEF Resolve
            <4> QED BY <3>1, <4>2, <2>4
        <3>2. CASE i # 1
            <4> DEFINE k == i - 1
            <4>1. k \in 1..Len(store[q]) /\ i = k + 1
                BY <3>2, <2>3, <2>4
            <4>2. L[i] = LayerDir(k - 1)
                BY <4>1, <2>4
            <4>3. Resolve(p, LayerDir(k - 1)) = <<store[q][k]>>
                BY <2>1, <4>1, NamesResolve
            <4>4. store[p][i] = store[q][k]
                BY <2>1, <2>2, <2>3, <4>1
            <4> QED BY <4>2, <4>3, <4>4
        <3> QED BY <3>1, <3>2
    <2> QED BY <2>3, <2>4, <2>8, <2>9 DEF Binds, Singles
<1> QED BY <1>1, <1>2

\* The entry can mount what it was given, and gets its parent's stack below
\* its own layer.
LEMMA EntryMounts ==
    ASSUME MountsInv, NEW c \in Pods, Live(c)
    PROVE  /\ Mountable(c)
           /\ LowerLayers(c) = ChildLayers(store[parent[c]])
           /\ <<c>> \o [i \in 1..Len(LowerLayers(c)) |-> Resolve(c, LowerLayers(c)[i])[1]]
                = <<c>> \o store[parent[c]]
<1> DEFINE q == parent[c]
           S == store[q]
<1>1. Live(c) /\ Handed(c)
    BY DEF MountsInv
<1>2. q \in Levels /\ q < c /\ Running(q) /\ S \in Seq(Levels) /\ S # <<>> /\ Chain(q)
    BY <1>1 DEF Handed, MountsInv, MountsTypeOK, Levels, Chain
<1>3. Len(S) \in Nat \ {0}
    BY <1>2
<1>4. /\ ChildLayers(S) \in Seq(Symbols) /\ Len(ChildLayers(S)) = Len(S)
      /\ \A i \in 1..Len(S) : ChildLayers(S)[i] = LayerDir(i - 1) /\ LayerDir(i - 1) # Colon
    BY <1>3, ShortNames
<1>5. layersEnv[c] = Join(ChildLayers(S))
    BY <1>1 DEF Handed
<1> DEFINE L == ChildLayers(S)
<1>6. L \in Seq(Symbols) /\ L # <<>> /\ \A i \in 1..Len(L) : L[i] # Colon
    BY <1>3, <1>4
<1> HIDE DEF L
<1>7. Accepted(Join(L)) /\ Parse(Join(L)) = L
    BY <1>6, JoinParse
<1>8. LowerLayers(c) = L /\ Accepted(layersEnv[c])
    BY <1>5, <1>7 DEF LowerLayers, L
<1>9. \A i \in 1..Len(L) : Resolve(c, L[i]) = <<S[i]>>
    BY <1>1, <1>4, NamesResolve DEF L
<1>10. \A i \in 1..Len(S) : S[i] \in Levels /\ S[i] # c
    BY <1>2 DEF Chain, Levels, Pods
<1>11. Len(L) = Len(S)
    BY <1>4 DEF L
<1> HIDE DEF S, q
<1>12. Mountable(c)
    <2>1. \A i \in 1..Len(L) : Len(Resolve(c, L[i])) = 1 /\ Resolve(c, L[i]) # <<c>>
        BY <1>9, <1>10, <1>11
    <2> QED BY <1>8, <2>1 DEF Mountable
<1>13. [i \in 1..Len(L) |-> Resolve(c, L[i])[1]] = S
    <2>1. \A i \in 1..Len(S) : Resolve(c, L[i])[1] = S[i]
        BY <1>9, <1>11
    <2>2. S = [i \in 1..Len(S) |-> S[i]]
        BY <1>2
    <2> QED BY <2>1, <2>2, <1>11
<1> QED BY <1>8, <1>12, <1>13 DEF L, S, q

\* A stack stays while the levels in it run on and keep their parents.
LEMMA ChainStays ==
    ASSUME NEW l \in Levels, Chain(l), store'[l] = store[l],
           \A j \in 1..Len(store[l]) :
              Running(store[l][j])' /\ parent'[store[l][j]] = parent[store[l][j]]
    PROVE  Chain(l)'
BY DEF Chain

LEMMA MountsInit == Init => MountsInv
<1> SUFFICES ASSUME Init PROVE MountsInv
    OBVIOUS
<1>1. MountsTypeOK
    <2>1. /\ \A S : <<>> \in Seq(S)
          /\ Host \in Levels /\ <<Host>> \in Seq(Levels)
        BY DEF Levels
    <2>2. pod \in [Levels -> {"none", "created", "mounted", "running", "gone"}]
        BY DEF Init
    <2>3. store \in [Levels -> Seq(Levels)]
        BY <2>1 DEF Init
    <2>4. parent \in [Levels -> Levels] /\ binds \in [Levels -> Seq(Seq(Levels))]
        BY <2>1 DEF Init
    <2>5. layersEnv \in [Levels -> Seq(Symbols)] /\ layersFile \in [Levels -> Seq(Symbols)]
        BY <2>1 DEF Init
    <2>6. pod[Host] = "running" /\ store[Host] = <<Host>>
        BY <2>1 DEF Init
    <2> QED BY <2>2, <2>3, <2>4, <2>5, <2>6 DEF MountsTypeOK
<1>2. \A l \in Levels : Running(l) => l = Host
    BY DEF Init, Running
<1>3. Chain(Host) /\ Left(Host)
    BY DEF Init, Chain, Left, Running, Levels, Host
<1>4. \A c \in Pods : pod[c] = "none"
    BY DEF Init, Pods, Levels, Host
<1> QED BY <1>1, <1>2, <1>3, <1>4 DEF MountsInv, Live, StackIsInherited

LEMMA LaunchMounts ==
    ASSUME MountsInv, NEW c \in Pods, NEW p \in Levels, Launch(c, p)
    PROVE  MountsInv'
<1> DEFINE layers == ParentLayers(p)
<1>1. /\ pod[c] = "none" /\ p < c /\ Running(p)
      /\ pod' = [pod EXCEPT ![c] = "created"]
      /\ parent' = [parent EXCEPT ![c] = p]
      /\ binds' = [binds EXCEPT ![c] = Binds(p, layers)]
      /\ layersEnv' = [layersEnv EXCEPT ![c] = Join(ChildLayers(layers))]
      /\ store' = [store EXCEPT ![c] = store[p]]
      /\ layersFile' = layersFile
    BY DEF Launch
<1>2. Len(layers) = Len(store[p]) /\ Binds(p, layers) = Singles(store[p]) /\ Chain(p)
    BY <1>1, LaunchFinds DEF MountsInv
<1>3. MountsTypeOK /\ c \in Levels /\ c # Host /\ p # c
    BY <1>1 DEF MountsInv, Levels, Pods, Host
<1>4. Len(store[p]) \in Nat \ {0} /\ store[p] \in Seq(Levels)
    BY <1>2 DEF Chain
<1>5. ChildLayers(layers) = ChildLayers(store[p])
    BY <1>2 DEF ChildLayers
<1> HIDE DEF layers
<1>6. MountsTypeOK'
    <2>1. Singles(store[p]) \in Seq(Seq(Levels))
        <3>1. \A i \in 1..Len(store[p]) : <<store[p][i]>> \in Seq(Levels)
            BY <1>4
        <3> QED BY <1>4, <3>1 DEF Singles
    <2>2. Join(ChildLayers(store[p])) \in Seq(Symbols)
        <3>1. /\ ChildLayers(store[p]) \in Seq(Symbols) /\ Len(ChildLayers(store[p])) = Len(store[p])
              /\ \A i \in 1..Len(store[p]) : ChildLayers(store[p])[i] # Colon
            BY <1>4, ShortNames
        <3>2. ChildLayers(store[p]) # <<>>
            BY <1>4, <3>1
        <3> QED BY <3>1, <3>2, JoinParse
    <2>3. pod' \in [Levels -> {"none", "created", "mounted", "running", "gone"}]
        BY <1>1, <1>3 DEF MountsTypeOK
    <2>4. parent' \in [Levels -> Levels]
        BY <1>1, <1>3 DEF MountsTypeOK
    <2>5. binds' \in [Levels -> Seq(Seq(Levels))]
        BY <1>1, <1>2, <1>3, <2>1 DEF MountsTypeOK
    <2>6. layersEnv' \in [Levels -> Seq(Symbols)]
        BY <1>1, <1>3, <1>5, <2>2 DEF MountsTypeOK
    <2>7. store' \in [Levels -> Seq(Levels)]
        BY <1>1, <1>3, <1>4 DEF MountsTypeOK
    <2>8. pod'[Host] = "running" /\ store'[Host] = <<Host>> /\ Host \in Levels
        BY <1>1, <1>3 DEF MountsTypeOK, Levels
    <2> QED BY <1>1, <1>3, <2>3, <2>4, <2>5, <2>6, <2>7, <2>8 DEF MountsTypeOK
<1>7. \A l \in Levels : Running(l)' <=> Running(l)
    BY <1>1, <1>3 DEF Running, MountsTypeOK
<1>8. \A l \in Levels : Running(l) => l # c /\ store'[l] = store[l] /\ parent'[l] = parent[l]
    BY <1>1, <1>3 DEF Running, MountsTypeOK
<1>9. \A l \in Levels : Running(l)' => Chain(l)' /\ Left(l)'
    <2> SUFFICES ASSUME NEW l \in Levels, Running(l) PROVE Chain(l)' /\ Left(l)'
        BY <1>7
    <2>1. Chain(l) /\ Left(l) /\ \A j \in 1..Len(store[l]) : store[l][j] \in Levels /\ Running(store[l][j])
        BY DEF MountsInv, Chain
    <2>2. Chain(l)'
        BY <1>7, <1>8, <2>1, ChainStays
    <2>3. l # Host => Running(parent[l]) /\ parent[l] \in Levels
        BY <1>3 DEF MountsInv, MountsTypeOK, Handed, Live, Running, Levels
    <2>4. Left(l)'
        BY <1>1, <1>8, <2>1, <2>3 DEF Left
    <2> QED BY <2>2, <2>4
<1>10. \A d \in Pods : Live(d)' => Handed(d)'
    <2> SUFFICES ASSUME NEW d \in Pods, Live(d)' PROVE Handed(d)'
        OBVIOUS
    <2>1. CASE d = c
        <3>1. parent'[c] = p /\ store'[p] = store[p] /\ store'[c] = store[p] /\ Running(p)'
            BY <1>1, <1>3, <1>7 DEF MountsTypeOK
        <3>2. binds'[c] = Singles(store[p]) /\ layersEnv'[c] = Join(ChildLayers(store[p]))
            BY <1>1, <1>2, <1>3, <1>5 DEF MountsTypeOK
        <3> QED BY <1>1, <2>1, <3>1, <3>2 DEF Handed, Singles, ChildLayers
    <2>2. CASE d # c
        <3>1. d \in Levels /\ Live(d) /\ Handed(d) /\ pod'[d] = pod[d]
            BY <1>1, <1>3, <2>2 DEF Live, MountsInv, MountsTypeOK, Levels
        <3>2. parent'[d] = parent[d] /\ binds'[d] = binds[d] /\ layersEnv'[d] = layersEnv[d] /\ store'[d] = store[d]
            BY <1>1, <1>3, <2>2, <3>1 DEF MountsTypeOK
        <3>3. Running(parent[d]) /\ parent[d] \in Levels
            BY <1>3, <3>1 DEF Handed, MountsTypeOK
        <3>4. store'[parent[d]] = store[parent[d]] /\ pod'[parent[d]] = "running"
            BY <1>7, <1>8, <3>3 DEF Running
        <3> QED BY <3>1, <3>2, <3>4 DEF Handed, Singles, ChildLayers, Running
    <2> QED BY <2>1, <2>2
<1>11. StackIsInherited'
    <2> SUFFICES ASSUME NEW d \in Pods, pod'[d] \in {"mounted", "running"}
                 PROVE  store'[d] = <<d>> \o store'[parent'[d]]
        BY DEF StackIsInherited
    <2>1. d \in Levels /\ d # c /\ pod'[d] = pod[d]
        BY <1>1, <1>3 DEF MountsTypeOK, Levels
    <2>2. Handed(d) /\ parent[d] \in Levels
        BY <1>3, <2>1 DEF MountsInv, MountsTypeOK, Live
    <2>3. store'[d] = store[d] /\ parent'[d] = parent[d] /\ store'[parent[d]] = store[parent[d]]
        BY <1>1, <1>3, <1>8, <2>1, <2>2 DEF Handed, MountsTypeOK
    <2> QED BY <2>1, <2>3 DEF MountsInv, StackIsInherited
<1> QED BY <1>6, <1>9, <1>10, <1>11 DEF MountsInv

\* Who is in a stack runs, and is no container that is only being set up.
LEMMA StackRuns ==
    ASSUME MountsInv, NEW l \in Levels, Running(l)
    PROVE  /\ Chain(l) /\ Left(l)
           /\ \A j \in 1..Len(store[l]) : store[l][j] \in Levels /\ Running(store[l][j])
           /\ l # Host => /\ l \in Pods /\ Handed(l)
                          /\ parent[l] \in Levels /\ Running(parent[l])
                          /\ store[l] = <<l>> \o store[parent[l]]
<1>1. Chain(l) /\ Left(l)
    BY DEF MountsInv
<1>2. \A j \in 1..Len(store[l]) : store[l][j] \in Levels /\ Running(store[l][j])
    BY <1>1 DEF Chain
<1>3. l # Host => l \in Pods /\ Live(l) /\ pod[l] = "running"
    BY DEF Levels, Live, Running
<1>4. l # Host => Handed(l) /\ store[l] = <<l>> \o store[parent[l]]
    BY <1>3 DEF MountsInv, StackIsInherited
<1>5. parent[l] \in Levels
    BY DEF MountsInv, MountsTypeOK
<1>6. l # Host => Running(parent[l])
    BY <1>4 DEF Handed
<1> QED BY <1>1, <1>2, <1>3, <1>4, <1>5, <1>6

LEMMA SetupMounts ==
    ASSUME MountsInv, NEW c \in Pods, SetupStoreOverlay(c)
    PROVE  MountsInv'
<1> DEFINE S == store[parent[c]]
<1>1. /\ pod[c] = "created" /\ pod' = [pod EXCEPT ![c] = "mounted"]
      /\ UNCHANGED <<parent, binds, layersEnv, layersFile>>
    BY DEF SetupStoreOverlay
<1>2. Live(c) /\ Handed(c) /\ MountsTypeOK /\ c \in Levels /\ c # Host
    BY <1>1 DEF MountsInv, Live, Levels, Pods, Host
<1>3. store' = [store EXCEPT ![c] = <<c>> \o S]
    BY <1>2, EntryMounts DEF SetupStoreOverlay
<1>4. parent[c] \in Levels /\ parent[c] # c /\ S \in Seq(Levels)
    BY <1>1, <1>2 DEF Handed, MountsTypeOK, Running
<1>5. \A l \in Levels : Running(l) <=> pod'[l] = "running"
    BY <1>1, <1>2 DEF Running, MountsTypeOK
<1>6. \A l \in Levels : Running(l) => l # c /\ store'[l] = store[l]
    BY <1>1, <1>2, <1>3 DEF Running, MountsTypeOK
<1>7. MountsTypeOK'
    <2>1. pod' \in [Levels -> {"none", "created", "mounted", "running", "gone"}]
        BY <1>1, <1>2 DEF MountsTypeOK
    <2>2. store' \in [Levels -> Seq(Levels)]
        <3>1. <<c>> \o S \in Seq(Levels)
            BY <1>2, <1>4
        <3> HIDE DEF S
        <3> QED BY <1>2, <1>3, <3>1 DEF MountsTypeOK
    <2>3. pod'[Host] = "running" /\ store'[Host] = <<Host>>
        BY <1>1, <1>2, <1>3 DEF MountsTypeOK, Levels
    <2> QED BY <1>1, <1>2, <2>1, <2>2, <2>3 DEF MountsTypeOK
<1>8. \A l \in Levels : Running(l)' => Chain(l)' /\ Left(l)'
    <2> SUFFICES ASSUME NEW l \in Levels, Running(l) PROVE Chain(l)' /\ Left(l)'
        BY <1>5 DEF Running
    <2>1. Chain(l)'
        <3>1. /\ Chain(l) /\ store'[l] = store[l]
              /\ \A j \in 1..Len(store[l]) : store[l][j] \in Levels /\ Running(store[l][j])
            BY <1>6, StackRuns
        <3>2. \A j \in 1..Len(store[l]) : Running(store[l][j])' /\ parent'[store[l][j]] = parent[store[l][j]]
            BY <1>1, <1>5, <3>1 DEF Running
        <3> QED BY <3>1, <3>2, ChainStays
    <2>2. Left(l)'
        BY <1>1, <1>6, StackRuns DEF Left
    <2> QED BY <2>1, <2>2
<1>9. \A d \in Pods : Live(d)' => Handed(d)'
    <2> SUFFICES ASSUME NEW d \in Pods, Live(d)' PROVE Handed(d)'
        OBVIOUS
    <2>1. d \in Levels /\ Live(d) /\ (pod'[d] = "created" => d # c /\ pod[d] = "created")
        BY <1>1, <1>2 DEF Live, MountsTypeOK, Levels
    <2>2. Handed(d) /\ parent[d] \in Levels
        BY <1>2, <2>1 DEF MountsInv, MountsTypeOK
    <2>3. store'[parent[d]] = store[parent[d]] /\ pod'[parent[d]] = "running"
        BY <1>5, <1>6, <2>2 DEF Handed
    <2>4. d # c => store'[d] = store[d]
        BY <1>2, <1>3, <2>1 DEF MountsTypeOK
    <2> QED BY <1>1, <2>1, <2>2, <2>3, <2>4 DEF Handed, Singles, ChildLayers, Running
<1>10. StackIsInherited'
    <2> SUFFICES ASSUME NEW d \in Pods, pod'[d] \in {"mounted", "running"}
                 PROVE  store'[d] = <<d>> \o store'[parent[d]]
        BY <1>1 DEF StackIsInherited
    <2>1. CASE d = c
        <3>1. store'[parent[c]] = S
            BY <1>3, <1>4, <1>2 DEF MountsTypeOK
        <3> QED BY <1>2, <1>3, <2>1, <3>1 DEF MountsTypeOK
    <2>2. CASE d # c
        <3>1. d \in Levels /\ pod[d] = pod'[d] /\ Live(d)
            BY <1>1, <1>2, <2>2 DEF MountsTypeOK, Levels, Live
        <3>2. Handed(d) /\ parent[d] \in Levels
            BY <1>2, <3>1 DEF MountsInv, MountsTypeOK
        <3>3. store'[parent[d]] = store[parent[d]] /\ store'[d] = store[d]
            BY <1>2, <1>3, <1>6, <2>2, <3>1, <3>2 DEF Handed, MountsTypeOK
        <3> QED BY <3>1, <3>3 DEF MountsInv, StackIsInherited
    <2> QED BY <2>1, <2>2
<1> QED BY <1>7, <1>8, <1>9, <1>10 DEF MountsInv

LEMMA RuntimeConfigMounts ==
    ASSUME MountsInv, NEW c \in Pods, WriteRuntimeConfig(c)
    PROVE  MountsInv'
<1> DEFINE S == store[parent[c]]
           left == Append(Join(<<UpperDir>> \o ChildLayers(S)), Newline)
<1>1. /\ pod[c] = "mounted" /\ pod' = [pod EXCEPT ![c] = "running"]
      /\ UNCHANGED <<parent, binds, layersEnv, store>>
    BY DEF WriteRuntimeConfig
<1>2. Live(c) /\ Handed(c) /\ MountsTypeOK /\ c \in Levels /\ c # Host
    BY <1>1 DEF MountsInv, Live, Levels, Pods, Host
<1>3. layersFile' = [layersFile EXCEPT ![c] = left]
    BY <1>2, EntryMounts DEF WriteRuntimeConfig, DescendantLayers
<1>4. parent[c] \in Levels /\ Running(parent[c]) /\ parent[c] < c /\ Chain(parent[c])
    BY <1>2 DEF Handed, MountsTypeOK, MountsInv
<1>5. store[c] = <<c>> \o S
    BY <1>1 DEF MountsInv, StackIsInherited
<1>6. Len(S) \in Nat /\ S \in Seq(Levels)
    BY <1>4 DEF Chain
<1>7. left \in Seq(Symbols)
    <2> DEFINE L == <<UpperDir>> \o ChildLayers(S)
    <2>1. UpperDir \in Symbols /\ UpperDir # Colon /\ Newline \in Symbols
        BY DEF UpperDir, Symbols, Colon, Newline
    <2>2. /\ ChildLayers(S) \in Seq(Symbols)
          /\ \A i \in 1..Len(ChildLayers(S)) : ChildLayers(S)[i] # Colon
        BY <1>6, ShortNames
    <2>3. L \in Seq(Symbols) /\ L # <<>> /\ \A i \in 1..Len(L) : L[i] # Colon
        BY <2>1, <2>2
    <2> HIDE DEF L
    <2>4. Join(L) \in Seq(Symbols)
        BY <2>3, JoinParse
    <2> QED BY <2>1, <2>4 DEF L
<1>8. MountsTypeOK'
    <2>1. pod' \in [Levels -> {"none", "created", "mounted", "running", "gone"}]
        BY <1>1, <1>2 DEF MountsTypeOK
    <2>2. layersFile' \in [Levels -> Seq(Symbols)]
        BY <1>2, <1>3, <1>7 DEF MountsTypeOK
    <2> QED BY <1>1, <1>2, <2>1, <2>2 DEF MountsTypeOK, Levels
<1>9. \A l \in Levels : l # c => pod'[l] = pod[l] /\ layersFile'[l] = layersFile[l]
    BY <1>1, <1>2, <1>3 DEF MountsTypeOK
<1>10. \A l \in Levels : Running(l) => pod'[l] = "running"
    BY <1>1, <1>2 DEF Running, MountsTypeOK
<1>11. \A l \in Levels : Running(l)' => Chain(l)' /\ Left(l)'
    <2> SUFFICES ASSUME NEW l \in Levels, Running(l)' PROVE Chain(l)' /\ Left(l)'
        OBVIOUS
    <2>1. CASE l = c
        <3>1. layersFile'[c] = left /\ pod'[c] = "running"
            BY <1>1, <1>2, <1>3 DEF MountsTypeOK
        <3>2. Left(c)'
            BY <1>1, <1>2, <3>1 DEF Left, ChildLayers
        <3>3. /\ Len(store[c]) = Len(S) + 1 /\ store[c] \in Seq(Levels) /\ store[c] # <<>>
              /\ store[c][1] = c
              /\ \A j \in 2..Len(store[c]) : j - 1 \in 1..Len(S) /\ store[c][j] = S[j - 1]
            BY <1>2, <1>5, <1>6
        <3>4. \A j \in 1..Len(S) : S[j] \in Levels /\ pod'[S[j]] = "running" /\ S[j] <= c
            <4>1. \A j \in 1..Len(S) : S[j] \in Levels /\ Running(S[j]) /\ S[j] <= parent[c]
                BY <1>4, <1>6 DEF Chain
            <4>2. \A k \in Levels : k \in Int
                BY DEF Levels, Pods, Host
            <4> HIDE DEF S
            <4> QED BY <1>2, <1>4, <1>10, <4>1, <4>2
        <3>5. \A j \in 1..Len(store[c]) : pod'[store[c][j]] = "running" /\ store[c][j] <= c
            <4> SUFFICES ASSUME NEW j \in 1..Len(store[c])
                         PROVE  pod'[store[c][j]] = "running" /\ store[c][j] <= c
                OBVIOUS
            <4> HIDE DEF S
            <4>1. j = 1 \/ (j - 1 \in 1..Len(S) /\ store[c][j] = S[j - 1])
                BY <1>6, <3>3
            <4> QED BY <3>1, <3>3, <3>4, <4>1 DEF Pods
        <3>6. \A j \in 1..(Len(store[c]) - 1) :
                 store[c][j] \in Pods /\ parent[store[c][j]] = store[c][j + 1]
            <4> SUFFICES ASSUME NEW j \in 1..(Len(store[c]) - 1)
                         PROVE  store[c][j] \in Pods /\ parent[store[c][j]] = store[c][j + 1]
                OBVIOUS
            <4>1. CASE j = 1
                BY <1>4, <1>6, <3>3, <4>1 DEF Chain
            <4>2. CASE j # 1
                <5> HIDE DEF S
                <5>1. /\ j \in 2..Len(store[c]) /\ j + 1 \in 2..Len(store[c])
                      /\ (j + 1) - 1 = j /\ (j - 1) + 1 = j /\ j - 1 \in 1..(Len(S) - 1)
                    BY <1>6, <3>3, <4>2
                <5>2. store[c][j] = S[j - 1] /\ store[c][j + 1] = S[j]
                    BY <3>3, <5>1
                <5>3. S[j - 1] \in Pods /\ parent[S[j - 1]] = S[(j - 1) + 1]
                    BY <1>4, <5>1 DEF Chain, S
                <5> QED BY <5>1, <5>2, <5>3
            <4> QED BY <4>1, <4>2
        <3>7. Chain(c)'
            BY <1>1, <3>3, <3>5, <3>6 DEF Chain, Running
        <3> QED BY <2>1, <3>2, <3>7
    <2>2. CASE l # c
        <3>1. Running(l)
            BY <1>9, <2>2 DEF Running
        <3>2. Chain(l)'
            BY <1>1, <1>10, <3>1, StackRuns, ChainStays DEF Running
        <3>3. Left(l)'
            BY <1>1, <1>9, <2>2, <3>1, StackRuns DEF Left
        <3> QED BY <3>2, <3>3
    <2> QED BY <2>1, <2>2
<1>12. \A d \in Pods : Live(d)' => Handed(d)'
    <2> SUFFICES ASSUME NEW d \in Pods, Live(d)' PROVE Handed(d)'
        OBVIOUS
    <2>1. d \in Levels /\ Live(d) /\ (pod'[d] = "created" => pod[d] = "created")
        BY <1>1, <1>2 DEF Live, MountsTypeOK, Levels
    <2>2. Handed(d) /\ parent[d] \in Levels
        BY <1>2, <2>1 DEF MountsInv, MountsTypeOK
    <2>3. pod'[parent[d]] = "running"
        BY <1>10, <2>2 DEF Handed
    <2> QED BY <1>1, <2>1, <2>2, <2>3 DEF Handed, Singles, ChildLayers, Running
<1>13. StackIsInherited'
    <2> SUFFICES ASSUME NEW d \in Pods, pod'[d] \in {"mounted", "running"}
                 PROVE  store[d] = <<d>> \o store[parent[d]]
        BY <1>1 DEF StackIsInherited
    <2>1. pod[d] \in {"mounted", "running"}
        BY <1>1, <1>2 DEF MountsTypeOK, Levels
    <2> QED BY <2>1 DEF MountsInv, StackIsInherited
<1> QED BY <1>8, <1>11, <1>12, <1>13 DEF MountsInv

\* Above a level in a stack lies a container that was launched from it.
LEMMA ChildAbove ==
    ASSUME MountsInv, NEW l \in Levels, Running(l),
           NEW j \in 1..Len(store[l]), j # 1
    PROVE  /\ j - 1 \in 1..Len(store[l])
           /\ store[l][j - 1] \in Pods
           /\ parent[store[l][j - 1]] = store[l][j]
           /\ Running(store[l][j - 1])
<1>0. Chain(l)
    BY StackRuns
<1>1. Chain(l) /\ Len(store[l]) \in Nat
    BY <1>0 DEF Chain
<1>2. j - 1 \in 1..(Len(store[l]) - 1) /\ j - 1 \in 1..Len(store[l]) /\ (j - 1) + 1 = j
    BY <1>1
<1> QED BY <1>1, <1>2 DEF Chain

\* A container that is the parent of none is in no other's stack.
LEMMA ChildlessStandsAlone ==
    ASSUME MountsInv, NEW c \in Pods, \A d \in Pods : parent[d] = c => ~Live(d),
           NEW l \in Levels, Running(l), l # c
    PROVE  \A j \in 1..Len(store[l]) : store[l][j] # c
<1> SUFFICES ASSUME NEW j \in 1..Len(store[l]), store[l][j] = c PROVE FALSE
    OBVIOUS
<1>0. Chain(l)
    BY StackRuns
<1>1. j # 1
    BY <1>0 DEF Chain
<1>2. /\ store[l][j - 1] \in Pods /\ Running(store[l][j - 1])
      /\ parent[store[l][j - 1]] = c
    BY <1>1, ChildAbove
<1> QED BY <1>2 DEF Live, Running

LEMMA StopMounts ==
    ASSUME MountsInv, NEW c \in Pods, Stop(c)
    PROVE  MountsInv'
<1>1. /\ Live(c) /\ parent' = parent
      /\ \A d \in Pods : parent[d] = c => ~Live(d)
      /\ pod' = [pod EXCEPT ![c] = "gone"]
      /\ binds' = [binds EXCEPT ![c] = <<>>]
      /\ layersEnv' = [layersEnv EXCEPT ![c] = <<>>]
      /\ layersFile' = [layersFile EXCEPT ![c] = <<>>]
      /\ store' = [store EXCEPT ![c] = <<>>]
    BY DEF Stop
<1>2. MountsTypeOK /\ c \in Levels /\ c # Host
    BY DEF MountsInv, Levels, Pods, Host
<1>3. \A l \in Levels : l # c =>
         /\ pod'[l] = pod[l] /\ binds'[l] = binds[l] /\ layersEnv'[l] = layersEnv[l]
         /\ layersFile'[l] = layersFile[l] /\ store'[l] = store[l]
    BY <1>1, <1>2 DEF MountsTypeOK
<1>4. pod'[c] = "gone"
    BY <1>1, <1>2 DEF MountsTypeOK
<1>5. MountsTypeOK'
    <2>1. \A S : <<>> \in Seq(S)
        OBVIOUS
    <2>2. pod' \in [Levels -> {"none", "created", "mounted", "running", "gone"}]
        BY <1>1, <1>2 DEF MountsTypeOK
    <2>3. binds' \in [Levels -> Seq(Seq(Levels))] /\ store' \in [Levels -> Seq(Levels)]
        BY <1>1, <1>2, <2>1 DEF MountsTypeOK
    <2>4. layersEnv' \in [Levels -> Seq(Symbols)] /\ layersFile' \in [Levels -> Seq(Symbols)]
        BY <1>1, <1>2, <2>1 DEF MountsTypeOK
    <2>5. pod'[Host] = "running" /\ store'[Host] = <<Host>>
        BY <1>2, <1>3 DEF MountsTypeOK, Levels
    <2> QED BY <1>1, <1>2, <2>2, <2>3, <2>4, <2>5 DEF MountsTypeOK
<1>6. \A d \in Pods : Live(d)' => d # c /\ Live(d) /\ d \in Levels /\ Handed(d)
                                  /\ parent[d] \in Levels /\ parent[d] # c
    BY <1>1, <1>2, <1>3, <1>4 DEF Live, Levels, MountsInv, MountsTypeOK
<1>7. \A l \in Levels : Running(l)' => Chain(l)' /\ Left(l)'
    <2> SUFFICES ASSUME NEW l \in Levels, Running(l)' PROVE Chain(l)' /\ Left(l)'
        OBVIOUS
    <2>1. l # c /\ Running(l) /\ store'[l] = store[l]
        BY <1>3, <1>4 DEF Running
    <2>2. /\ Chain(l) /\ Left(l)
          /\ \A j \in 1..Len(store[l]) : store[l][j] \in Levels /\ Running(store[l][j])
        BY <2>1, StackRuns
    <2>3. \A j \in 1..Len(store[l]) : store[l][j] # c
        BY <1>1, <2>1, ChildlessStandsAlone
    <2>4. Chain(l)'
        BY <1>1, <1>3, <2>1, <2>2, <2>3, ChainStays DEF Running
    <2>5. l # Host => parent[l] \in Levels /\ parent[l] # c
        <3>1. l # Host => l \in Pods /\ Live(l)'
            BY DEF Levels, Live, Running
        <3> QED BY <1>6, <3>1
    <2>6. Left(l)'
        BY <1>1, <1>3, <2>1, <2>2, <2>5 DEF Left
    <2> QED BY <2>4, <2>6
<1>8. \A d \in Pods : Live(d)' => Handed(d)'
    <2> SUFFICES ASSUME NEW d \in Pods, Live(d)' PROVE Handed(d)'
        OBVIOUS
    <2>1. d # c /\ d \in Levels /\ Handed(d) /\ parent[d] \in Levels /\ parent[d] # c
        BY <1>6
    <2>2. /\ pod'[d] = pod[d] /\ binds'[d] = binds[d] /\ layersEnv'[d] = layersEnv[d]
          /\ store'[d] = store[d]
          /\ pod'[parent[d]] = pod[parent[d]] /\ store'[parent[d]] = store[parent[d]]
        BY <1>3, <2>1
    <2> QED BY <1>1, <2>1, <2>2 DEF Handed, Singles, ChildLayers, Running
<1>9. StackIsInherited'
    <2> SUFFICES ASSUME NEW d \in Pods, pod'[d] \in {"mounted", "running"}
                 PROVE  store'[d] = <<d>> \o store'[parent[d]]
        BY <1>1 DEF StackIsInherited
    <2>1. Live(d)'
        BY DEF Live
    <2>2. d # c /\ d \in Levels /\ parent[d] \in Levels /\ parent[d] # c
        BY <1>6, <2>1
    <2>3. pod[d] = pod'[d] /\ store'[d] = store[d] /\ store'[parent[d]] = store[parent[d]]
        BY <1>3, <2>2
    <2> QED BY <2>3 DEF MountsInv, StackIsInherited
<1> QED BY <1>5, <1>7, <1>8, <1>9 DEF MountsInv

LEMMA MountsNext ==
    ASSUME MountsInv, [Next]_vars
    PROVE  MountsInv'
<1>1. CASE UNCHANGED mounts
    <2>1. /\ pod' = pod /\ parent' = parent /\ binds' = binds /\ store' = store
          /\ layersEnv' = layersEnv /\ layersFile' = layersFile
        BY <1>1 DEF mounts
    <2>2. MountsTypeOK' /\ StackIsInherited'
        BY <2>1 DEF MountsInv, MountsTypeOK, StackIsInherited
    <2>3. \A l \in Levels : Running(l)' => Chain(l)'
        BY <2>1 DEF MountsInv, Running, Chain
    <2>4. \A l \in Levels : Running(l)' => Left(l)'
        BY <2>1 DEF MountsInv, Running, Left, ChildLayers
    <2>5. \A c \in Pods : Live(c)' => Handed(c)'
        BY <2>1 DEF MountsInv, Live, Handed, Running, Singles, ChildLayers
    <2> QED BY <2>2, <2>3, <2>4, <2>5 DEF MountsInv
<1>2. CASE \E c \in Pods : PodStep(c)
    <2>1. PICK c \in Pods : PodStep(c)
        BY <1>2
    <2>2. CASE \E x \in Paths : Sync(c, x) \/ \E v \in Contents : Fill(c, x, v)
        BY <1>1, <2>2 DEF Sync, Fill
    <2> QED BY <2>1, <2>2, LaunchMounts, SetupMounts, RuntimeConfigMounts, StopMounts DEF PodStep
<1>3. CASE \E l \in Levels : NixStep(l)
    BY <1>1, <1>3 DEF NixStep, Collect, Build
<1>4. CASE \E x \in Paths, v \in Contents : Plant(x, v)
    BY <1>1, <1>4 DEF Plant
<1>5. CASE UNCHANGED vars
    BY <1>1, <1>5 DEF vars
<1> QED BY <1>2, <1>3, <1>4, <1>5 DEF Next

-----------------------------------------------------------------------------
(* Files and databases.                                                    *)

\* A witness stays when nothing changes at or above it.
LEMMA WitnessStays ==
    ASSUME NEW l \in Levels, NEW x \in Paths, Chain(l), store'[l] = store[l],
           NEW i \in 1..Len(store[l]), WitnessAt(l, x, i),
           \A j \in 1..i : /\ db'[store[l][j]][x] = db[store[l][j]][x]
                           /\ files'[store[l][j]][x] = files[store[l][j]][x]
    PROVE  Witnessed(l, x)'
<1>1. i \in Nat /\ i >= 1 /\ store[l][1] = l /\ 1 \in 1..i /\ i \in 1..i
    BY DEF Chain
<1>2. db'[l][x] = db[l][x]
    BY <1>1
<1>3. \A j \in 1..(i - 1) : j \in 1..i
    BY <1>1
<1>4. WitnessAt(l, x, i)'
    BY <1>1, <1>2, <1>3 DEF WitnessAt
<1> QED BY <1>4 DEF Witnessed

\* A step that changes only levels where the path is not valid spares every
\* witness for it.
LEMMA InvalidOnlySpares ==
    ASSUME MountsInv, FilesInv, NEW l \in Levels, NEW x \in Paths,
           Running(l), db[l][x] # None, store'[l] = store[l],
           \A k \in Levels : db[k][x] # None =>
               db'[k][x] = db[k][x] /\ files'[k][x] = files[k][x]
    PROVE  Witnessed(l, x)'
<1>1. PICK i \in 1..Len(store[l]) : WitnessAt(l, x, i)
    BY DEF FilesInv, Witnessed
<1>2. Chain(l) /\ \A j \in 1..Len(store[l]) : store[l][j] \in Levels
    BY StackRuns
<1>3. \A j \in 1..i : j \in 1..Len(store[l]) /\ db[store[l][j]][x] # None
    BY <1>1, <1>2 DEF WitnessAt, Chain
<1> QED BY <1>1, <1>2, <1>3, WitnessStays

\* What FilesInv says of one level and one path.
Settled(l, x) ==
    /\ ~Running(l) => db[l][x] = None
    /\ l # Host /\ files[l][x] \in Contents => db[l][x] = files[l][x]
    /\ Running(l) /\ db[l][x] # None => Witnessed(l, x)

LEMMA FilesInit == Init => FilesInv
BY ContentsAssumption DEF Init, FilesInv, FilesTypeOK

\* Launching and setting up touch no file and no database.
LEMMA SetupFiles ==
    ASSUME MountsInv, FilesInv, NEW c \in Pods,
           \/ \E p \in Levels : Launch(c, p)
           \/ SetupStoreOverlay(c) \/ WriteRuntimeConfig(c)
    PROVE  FilesInv'
<1>1. MountsTypeOK /\ c \in Levels
    BY DEF MountsInv, Levels
<1>2. /\ files' = files /\ db' = db
      /\ \A l \in Levels : Running(l) => Running(l)' /\ store'[l] = store[l]
      /\ \A l \in Levels : Running(l)' => Running(l) \/ (l = c /\ ~Running(c))
    <2>1. CASE \E p \in Levels : Launch(c, p)
        BY <1>1, <2>1 DEF Launch, MountsTypeOK, Running
    <2>2. CASE SetupStoreOverlay(c)
        BY <1>1, <2>2 DEF SetupStoreOverlay, MountsTypeOK, Running
    <2>3. CASE WriteRuntimeConfig(c)
        BY <1>1, <2>3 DEF WriteRuntimeConfig, MountsTypeOK, Running
    <2> QED BY <2>1, <2>2, <2>3
<1>3. ASSUME NEW l \in Levels, NEW x \in Paths PROVE Settled(l, x)'
    <2>1. CASE Running(l)
        <3>1. db[l][x] # None => Witnessed(l, x)'
            BY <1>2, <2>1, InvalidOnlySpares
        <3> QED BY <1>2, <2>1, <3>1 DEF FilesInv, Settled
    <2>2. CASE ~Running(l)
        BY <1>2, <2>2 DEF FilesInv, Settled
    <2> QED BY <2>1, <2>2
<1> QED BY <1>2, <1>3 DEF FilesInv, FilesTypeOK, Settled

LEMMA StopFiles ==
    ASSUME MountsInv, FilesInv, NEW c \in Pods, Stop(c)
    PROVE  FilesInv'
<1>1. MountsTypeOK /\ FilesTypeOK /\ c \in Levels
    BY DEF MountsInv, FilesInv, Levels
<1>2. /\ files' = [files EXCEPT ![c] = [x \in Paths |-> None]]
      /\ db' = [db EXCEPT ![c] = [x \in Paths |-> None]]
      /\ \A l \in Levels : l # c => /\ Running(l)' <=> Running(l)
                                    /\ store'[l] = store[l]
                                    /\ files'[l] = files[l] /\ db'[l] = db[l]
      /\ ~Running(c)'
    BY <1>1 DEF Stop, MountsTypeOK, FilesTypeOK, Running
<1>3. \A x \in Paths : files'[c][x] = None /\ db'[c][x] = None
    BY <1>1, <1>2 DEF FilesTypeOK
<1>4. FilesTypeOK'
    BY <1>1, <1>2 DEF FilesTypeOK
<1>5. ASSUME NEW l \in Levels, NEW x \in Paths PROVE Settled(l, x)'
    <2>1. CASE l = c
        BY <1>2, <1>3, <2>1, ContentsAssumption DEF Settled
    <2>2. CASE l # c /\ Running(l) /\ db[l][x] # None
        <3>1. PICK i \in 1..Len(store[l]) : WitnessAt(l, x, i)
            BY <2>2 DEF FilesInv, Witnessed
        <3>2. Chain(l) /\ \A j \in 1..Len(store[l]) : store[l][j] \in Levels
            BY <2>2, StackRuns
        <3>3. \A d \in Pods : parent[d] = c => ~Live(d)
            BY DEF Stop
        <3>4. \A j \in 1..i : j \in 1..Len(store[l]) /\ store[l][j] # c
            BY <2>2, <3>2, <3>3, ChildlessStandsAlone DEF Chain
        <3>5. Witnessed(l, x)'
            BY <1>2, <2>2, <3>1, <3>2, <3>4, WitnessStays
        <3> QED BY <1>2, <2>2, <3>5 DEF FilesInv, Settled
    <2>3. CASE l # c /\ ~(Running(l) /\ db[l][x] # None)
        BY <1>2, <2>3 DEF FilesInv, Settled
    <2> QED BY <2>1, <2>2, <2>3
<1> QED BY <1>4, <1>5 DEF FilesInv, Settled

\* What a step of Nix leaves to show: it changes one path, x.
LEMMA NixFiles ==
    ASSUME MountsInv, FilesInv, NEW x \in Paths, FilesTypeOK', UNCHANGED mounts,
           \A l \in Levels, y \in Paths : y # x =>
               files'[l][y] = files[l][y] /\ db'[l][y] = db[l][y],
           \A l \in Levels : Settled(l, x)'
    PROVE  FilesInv'
<1>1. \A l \in Levels : (Running(l)' <=> Running(l)) /\ store'[l] = store[l]
    BY DEF mounts, Running
<1>2. ASSUME NEW l \in Levels, NEW y \in Paths PROVE Settled(l, y)'
    <2>1. CASE y = x
        BY <2>1
    <2>2. CASE y # x /\ Running(l) /\ db[l][y] # None
        <3>1. Witnessed(l, y)'
            BY <1>1, <2>2, InvalidOnlySpares
        <3> QED BY <1>1, <2>2, <3>1 DEF FilesInv, Settled
    <2>3. CASE y # x /\ ~(Running(l) /\ db[l][y] # None)
        BY <1>1, <2>3 DEF FilesInv, Settled
    <2> QED BY <2>1, <2>2, <2>3
<1> QED BY <1>2 DEF FilesInv, Settled

\* The own layer of a container holds no content it has not registered.
LEMMA OwnLayer ==
    ASSUME FilesInv, NEW c \in Pods, NEW x \in Paths, db[c][x] = None
    PROVE  files[c][x] \in {None, Whiteout}
BY ContentsAssumption DEF FilesInv, FilesTypeOK, Levels, Pods, Host

LEMMA SyncFiles ==
    ASSUME MountsInv, FilesInv, NEW c \in Pods, NEW x \in Paths, Sync(c, x)
    PROVE  FilesInv'
<1> DEFINE p == parent[c]
<1>1. MountsTypeOK /\ FilesTypeOK /\ c \in Levels /\ c # Host
    BY DEF MountsInv, FilesInv, Levels, Pods, Host
<1>2. /\ Running(c) /\ db[c][x] = None /\ db[p][x] # None
      /\ db' = [db EXCEPT ![c][x] = db[p][x]]
      /\ files' = files /\ UNCHANGED mounts
    BY DEF Sync
<1>3. Chain(c) /\ Handed(c) /\ p \in Levels /\ Running(p) /\ Chain(p) /\ store[c] = <<c>> \o store[p]
    BY <1>1, <1>2, StackRuns
<1>4. FilesTypeOK'
    BY <1>1, <1>2, <1>3 DEF FilesTypeOK
<1>5. \A l \in Levels, y \in Paths : (l # c \/ y # x) => db'[l][y] = db[l][y]
    BY <1>1, <1>2 DEF FilesTypeOK
<1>6. db'[c][x] = db[p][x]
    BY <1>1, <1>2 DEF FilesTypeOK
<1>7. \A l \in Levels : (Running(l)' <=> Running(l)) /\ store'[l] = store[l]
    BY <1>2 DEF mounts, Running
<1>8. Witnessed(c, x)'
    <2>1. files[c][x] \in {None, Whiteout}
        BY <1>2, OwnLayer
    <2>2. Len(store[c]) \in Nat \ {0} /\ store[c][1] = c
        BY <1>3 DEF Chain
    <2>3. CASE files[c][x] = Whiteout
        <3>1. WitnessAt(c, x, 1)'
            BY <1>2, <1>7, <1>1, <2>2, <2>3 DEF WitnessAt
        <3> QED BY <1>7, <1>1, <2>2, <3>1 DEF Witnessed
    <2>4. CASE files[c][x] = None
        <3>1. PICK i \in 1..Len(store[p]) : WitnessAt(p, x, i)
            BY <1>2, <1>3 DEF FilesInv, Witnessed
        <3>2. /\ Len(store[p]) \in Nat /\ Len(store[c]) = Len(store[p]) + 1
              /\ \A j \in 2..Len(store[c]) : j - 1 \in 1..Len(store[p]) /\ store[c][j] = store[p][j - 1]
            BY <1>1, <1>3 DEF Chain
        <3>3. i + 1 \in 2..Len(store[c]) /\ (i + 1) - 1 = i
            BY <3>1, <3>2
        <3>4. \A j \in 1..i : db'[store[p][j]][x] = db[p][x]
            <4> SUFFICES ASSUME NEW j \in 1..i PROVE db'[store[p][j]][x] = db[p][x]
                OBVIOUS
            <4> HIDE DEF p
            <4>0. \A k \in 1..Len(store[p]) : store[p][k] \in Levels
                BY <1>3, StackRuns
            <4>1. j \in 1..Len(store[p])
                BY <3>2
            <4>2. db[store[p][j]][x] = db[p][x]
                BY <3>1 DEF WitnessAt
            <4> QED BY <1>5, <1>6, <4>0, <4>1, <4>2
        <3>5. \A j \in 1..(i + 1) : db'[store[c][j]][x] = db'[c][x]
            <4> SUFFICES ASSUME NEW j \in 1..(i + 1) PROVE db'[store[c][j]][x] = db'[c][x]
                OBVIOUS
            <4>1. j = 1 \/ (j \in 2..Len(store[c]) /\ j - 1 \in 1..i)
                BY <3>2, <3>3
            <4> QED BY <1>6, <2>2, <3>2, <3>4, <4>1
        <3>6. \A j \in 1..i : files[store[c][j]][x] = None
            <4> SUFFICES ASSUME NEW j \in 1..i PROVE files[store[c][j]][x] = None
                OBVIOUS
            <4>1. j = 1 \/ (j \in 2..Len(store[c]) /\ j - 1 \in 1..(i - 1))
                BY <3>2, <3>3
            <4> QED BY <2>2, <2>4, <3>1, <3>2, <4>1 DEF WitnessAt
        <3>7. files[store[c][i + 1]][x] \in {db'[c][x], Whiteout}
            BY <1>6, <3>1, <3>2, <3>3 DEF WitnessAt
        <3>8. WitnessAt(c, x, i + 1)'
            BY <1>1, <1>2, <1>7, <3>3, <3>5, <3>6, <3>7 DEF WitnessAt
        <3>9. i + 1 \in 1..Len(store[c])
            BY <3>2, <3>3
        <3> QED BY <1>1, <1>7, <3>8, <3>9 DEF Witnessed
    <2> QED BY <2>1, <2>3, <2>4
<1>9. ASSUME NEW l \in Levels PROVE Settled(l, x)'
    <2>1. CASE l = c
        BY <1>2, <1>7, <1>8, <2>1, OwnLayer, ContentsAssumption DEF Settled
    <2>2. CASE l # c /\ Running(l) /\ db[l][x] # None
        <3>1. Witnessed(l, x)'
            BY <1>2, <1>5, <1>7, <2>2, InvalidOnlySpares
        <3> QED BY <1>2, <1>5, <1>7, <2>2, <3>1 DEF FilesInv, Settled
    <2>3. CASE l # c /\ ~(Running(l) /\ db[l][x] # None)
        BY <1>2, <1>5, <1>7, <2>3 DEF FilesInv, Settled
    <2> QED BY <2>1, <2>2, <2>3
<1>10. \A l \in Levels, y \in Paths : y # x =>
          files'[l][y] = files[l][y] /\ db'[l][y] = db[l][y]
    BY <1>2, <1>5
<1> QED BY <1>2, <1>4, <1>9, <1>10, NixFiles

LEMMA FillFiles ==
    ASSUME MountsInv, FilesInv, NEW c \in Pods, NEW x \in Paths, NEW v \in Contents,
           Fill(c, x, v)
    PROVE  FilesInv'
<1>1. MountsTypeOK /\ FilesTypeOK /\ c \in Levels /\ c # Host /\ Host \in Levels
    BY DEF MountsInv, FilesInv, Levels, Pods, Host
<1>2. /\ Running(c) /\ parent[c] = Host /\ db[c][x] = None /\ db[Host][x] = None
      /\ files' = [files EXCEPT ![Host][x] = v]
      /\ db' = [db EXCEPT ![Host][x] = v, ![c][x] = v]
      /\ UNCHANGED mounts
    BY DEF Fill
<1>3. FilesTypeOK'
    BY <1>1, <1>2 DEF FilesTypeOK
<1>4. \A l \in Levels, y \in Paths :
         /\ (l # c /\ l # Host) \/ y # x => db'[l][y] = db[l][y]
         /\ l # Host \/ y # x => files'[l][y] = files[l][y]
    BY <1>1, <1>2 DEF FilesTypeOK
<1>5. db'[c][x] = v /\ db'[Host][x] = v /\ files'[Host][x] = v
    BY <1>1, <1>2 DEF FilesTypeOK
<1>6. \A l \in Levels : (Running(l)' <=> Running(l)) /\ store'[l] = store[l]
    BY <1>2 DEF mounts, Running
<1>7. /\ Len(store[c]) = 2 /\ store[c][1] = c /\ store[c][2] = Host
      /\ store[Host] = <<Host>>
    <2>1. store[c] = <<c>> \o store[parent[c]]
        BY <1>1, <1>2, StackRuns
    <2>2. store[Host] = <<Host>>
        BY <1>1 DEF MountsTypeOK
    <2> QED BY <1>1, <1>2, <2>1, <2>2
<1>8. Witnessed(c, x)'
    <2>1. files'[c][x] \in {None, Whiteout}
        BY <1>1, <1>2, <1>4, OwnLayer
    <2>2. CASE files'[c][x] = Whiteout
        <3>1. WitnessAt(c, x, 1)'
            BY <1>1, <1>6, <1>7, <2>2 DEF WitnessAt
        <3> QED BY <1>1, <1>6, <1>7, <3>1 DEF Witnessed
    <2>3. CASE files'[c][x] = None
        <3>1. Len(store'[c]) = 2 /\ store'[c][1] = c /\ store'[c][2] = Host
            BY <1>1, <1>6, <1>7
        <3>2. \A j \in 1..2 : db'[store'[c][j]][x] = v
            <4>1. \A j \in 1..2 : store'[c][j] = c \/ store'[c][j] = Host
                BY <3>1
            <4> QED BY <1>5, <4>1
        <3>3. \A j \in 1..(2 - 1) : files'[store'[c][j]][x] = None
            BY <2>3, <3>1
        <3>4. files'[store'[c][2]][x] = v
            BY <1>5, <3>1
        <3>5. WitnessAt(c, x, 2)'
            BY <1>5, <3>2, <3>3, <3>4 DEF WitnessAt
        <3>6. 2 \in 1..Len(store'[c])
            BY <3>1
        <3> QED BY <3>5, <3>6 DEF Witnessed
    <2> QED BY <2>1, <2>2, <2>3
<1>9. Witnessed(Host, x)'
    <2>1. store'[Host] = <<Host>>
        BY <1>1, <1>6, <1>7
    <2>2. WitnessAt(Host, x, 1)'
        BY <1>5, <2>1 DEF WitnessAt
    <2> QED BY <2>1, <2>2 DEF Witnessed
<1>10. ASSUME NEW l \in Levels PROVE Settled(l, x)'
    <2>1. CASE l = c
        <3>1. files'[c][x] \notin Contents
            BY <1>1, <1>2, <1>4, OwnLayer, ContentsAssumption
        <3> QED BY <1>2, <1>6, <1>8, <2>1, <3>1 DEF Settled
    <2>2. CASE l = Host
        <3>1. Running(Host)
            BY <1>1 DEF MountsTypeOK, Running
        <3> QED BY <1>6, <1>9, <1>1, <2>2, <3>1 DEF Settled
    <2>3. CASE l # c /\ l # Host /\ Running(l) /\ db[l][x] # None
        <3>0. \A k \in Levels : db[k][x] # None =>
                 db'[k][x] = db[k][x] /\ files'[k][x] = files[k][x]
            BY <1>2, <1>4
        <3>1. Witnessed(l, x)'
            BY <1>6, <2>3, <3>0, InvalidOnlySpares
        <3> QED BY <1>4, <1>6, <2>3, <3>1 DEF FilesInv, Settled
    <2>4. CASE l # c /\ l # Host /\ ~(Running(l) /\ db[l][x] # None)
        BY <1>4, <1>6, <2>4 DEF FilesInv, Settled
    <2> QED BY <2>1, <2>2, <2>3, <2>4
<1> QED BY <1>2, <1>3, <1>4, <1>10, NixFiles

LEMMA BuildFiles ==
    ASSUME MountsInv, FilesInv, NEW l \in Levels, NEW x \in Paths, NEW v \in Contents,
           Build(l, x, v)
    PROVE  FilesInv'
<1>1. MountsTypeOK /\ FilesTypeOK
    BY DEF MountsInv, FilesInv
<1>2. /\ Running(l) /\ db[l][x] = None
      /\ files' = [files EXCEPT ![l][x] = v]
      /\ db' = [db EXCEPT ![l][x] = v]
      /\ UNCHANGED mounts
    BY DEF Build
<1>3. FilesTypeOK'
    BY <1>1, <1>2 DEF FilesTypeOK
<1>4. \A k \in Levels, y \in Paths :
         k # l \/ y # x => db'[k][y] = db[k][y] /\ files'[k][y] = files[k][y]
    BY <1>1, <1>2 DEF FilesTypeOK
<1>5. db'[l][x] = v /\ files'[l][x] = v
    BY <1>1, <1>2 DEF FilesTypeOK
<1>6. \A k \in Levels : (Running(k)' <=> Running(k)) /\ store'[k] = store[k]
    BY <1>2 DEF mounts, Running
<1>7. Witnessed(l, x)'
    <2>1. Len(store[l]) \in Nat \ {0} /\ store[l][1] = l
        <3>1. Chain(l)
            BY <1>2, StackRuns
        <3> QED BY <3>1 DEF Chain
    <2>2. WitnessAt(l, x, 1)'
        BY <1>5, <1>6, <2>1 DEF WitnessAt
    <2> QED BY <1>6, <2>1, <2>2 DEF Witnessed
<1>8. ASSUME NEW k \in Levels PROVE Settled(k, x)'
    <2>1. CASE k = l
        BY <1>2, <1>5, <1>6, <1>7, <2>1 DEF Settled
    <2>2. CASE k # l /\ Running(k) /\ db[k][x] # None
        <3>1. Witnessed(k, x)'
            BY <1>2, <1>4, <1>6, <2>2, InvalidOnlySpares
        <3> QED BY <1>4, <1>6, <2>2, <3>1 DEF FilesInv, Settled
    <2>3. CASE k # l /\ ~(Running(k) /\ db[k][x] # None)
        BY <1>4, <1>6, <2>3 DEF FilesInv, Settled
    <2> QED BY <2>1, <2>2, <2>3
<1> QED BY <1>2, <1>3, <1>4, <1>8, NixFiles

LEMMA PlantFiles ==
    ASSUME MountsInv, FilesInv, NEW x \in Paths, NEW v \in Contents, Plant(x, v)
    PROVE  FilesInv'
<1>1. FilesTypeOK /\ Host \in Levels
    BY DEF FilesInv, Levels
<1>2. db[Host][x] = None /\ files' = [files EXCEPT ![Host][x] = v] /\ db' = db /\ UNCHANGED mounts
    BY DEF Plant
<1>3. FilesTypeOK'
    BY <1>1, <1>2 DEF FilesTypeOK
<1>4. \A l \in Levels, y \in Paths : l # Host \/ y # x => files'[l][y] = files[l][y]
    BY <1>1, <1>2 DEF FilesTypeOK
<1>5. \A l \in Levels : (Running(l)' <=> Running(l)) /\ store'[l] = store[l]
    BY <1>2 DEF mounts, Running
<1>6. ASSUME NEW l \in Levels PROVE Settled(l, x)'
    <2>1. CASE Running(l) /\ db[l][x] # None
        <3>1. Witnessed(l, x)'
            BY <1>2, <1>4, <1>5, <2>1, InvalidOnlySpares
        <3>2. l # Host
            BY <1>2, <2>1
        <3> QED BY <1>2, <1>4, <1>5, <2>1, <3>1, <3>2 DEF FilesInv, Settled
    <2>2. CASE ~(Running(l) /\ db[l][x] # None)
        BY <1>2, <1>4, <1>5, <2>2 DEF FilesInv, Settled
    <2> QED BY <2>1, <2>2
<1> QED BY <1>2, <1>3, <1>4, <1>6, NixFiles

LEMMA CollectFiles ==
    ASSUME MountsInv, FilesInv, NEW l \in Levels, NEW x \in Paths, Collect(l, x)
    PROVE  FilesInv'
<1>1. MountsTypeOK /\ FilesTypeOK
    BY DEF MountsInv, FilesInv
<1> DEFINE rest(f) == IF f \notin Contents THEN f
                      ELSE IF \/ l = Host
                              \/ ValidBelow(l, x)
                              \/ \A a \in Ancestors(l) : files[a][x] \notin Contents
                           THEN None ELSE Whiteout
<1>2. /\ Running(l) /\ db[l][x] # None /\ Collectable(l, x)
      /\ db' = [db EXCEPT ![l][x] = None]
      /\ files' = [files EXCEPT ![l][x] = rest(files[l][x])]
      /\ UNCHANGED mounts
    BY DEF Collect
<1>3. rest(files[l][x]) \in {None, Whiteout}
    BY <1>1, ContentsAssumption DEF FilesTypeOK
<1> HIDE DEF rest
<1>4. FilesTypeOK'
    BY <1>1, <1>2, <1>3 DEF FilesTypeOK
<1>5. \A k \in Levels, y \in Paths :
         k # l \/ y # x => db'[k][y] = db[k][y] /\ files'[k][y] = files[k][y]
    BY <1>1, <1>2 DEF FilesTypeOK
<1>6. db'[l][x] = None /\ files'[l][x] \in {None, Whiteout}
    BY <1>1, <1>2, <1>3 DEF FilesTypeOK
<1>7. \A k \in Levels : (Running(k)' <=> Running(k)) /\ store'[k] = store[k]
    BY <1>2 DEF mounts, Running
<1>8. ASSUME NEW k \in Levels PROVE Settled(k, x)'
    <2>1. CASE k = l
        BY <1>6, <2>1, ContentsAssumption DEF Settled
    <2>2. CASE k # l /\ Running(k) /\ db[k][x] # None
        <3>1. PICK i \in 1..Len(store[k]) : WitnessAt(k, x, i)
            BY <2>2 DEF FilesInv, Witnessed
        <3>2. Chain(k) /\ \A j \in 1..Len(store[k]) : store[k][j] \in Levels
            BY <2>2, StackRuns
        <3>3. Len(store[k]) \in Nat /\ store[k][1] = k
            BY <3>2 DEF Chain
        <3>4. \A j \in 1..i : store[k][j] # l
            <4> SUFFICES ASSUME NEW j \in 1..i, store[k][j] = l PROVE FALSE
                OBVIOUS
            <4>1. j # 1 /\ j \in 1..Len(store[k]) /\ j - 1 \in 1..i
                BY <2>2, <3>3
            <4>2. /\ store[k][j - 1] \in Pods /\ Running(store[k][j - 1])
                  /\ parent[store[k][j - 1]] = l
                BY <2>2, <4>1, ChildAbove
            <4>3. db[store[k][j - 1]][x] # None
                BY <2>2, <3>1, <4>1 DEF WitnessAt
            <4> QED BY <1>2, <4>2, <4>3 DEF Collectable, Live, Running
        <3>5. Witnessed(k, x)'
            <4>1. \A j \in 1..i : /\ db'[store[k][j]][x] = db[store[k][j]][x]
                                  /\ files'[store[k][j]][x] = files[store[k][j]][x]
                BY <1>5, <3>2, <3>3, <3>4
            <4> QED BY <1>7, <3>1, <3>2, <4>1, WitnessStays
        <3> QED BY <1>5, <1>7, <2>2, <3>5 DEF FilesInv, Settled
    <2>3. CASE k # l /\ ~(Running(k) /\ db[k][x] # None)
        BY <1>5, <1>7, <2>3 DEF FilesInv, Settled
    <2> QED BY <2>1, <2>2, <2>3
<1> QED BY <1>2, <1>4, <1>5, <1>8, NixFiles

LEMMA FilesNext ==
    ASSUME MountsInv, FilesInv, [Next]_vars
    PROVE  FilesInv'
<1>1. CASE \E c \in Pods : PodStep(c)
    BY <1>1, SetupFiles, StopFiles, SyncFiles, FillFiles DEF PodStep
<1>2. CASE \E l \in Levels : NixStep(l)
    BY <1>2, BuildFiles, CollectFiles DEF NixStep
<1>3. CASE \E x \in Paths, v \in Contents : Plant(x, v)
    BY <1>3, PlantFiles
<1>4. CASE UNCHANGED vars
    BY <1>4 DEF vars, mounts, FilesInv, FilesTypeOK, Running, Witnessed, WitnessAt
<1> QED BY <1>1, <1>2, <1>3, <1>4 DEF Next

-----------------------------------------------------------------------------
(* The theorems.                                                           *)

\* The inductive invariant of the mounts and of what is in them.
THEOREM NestedInvariant == Spec => []IInv
<1>1. Init => IInv
    BY MountsInit, FilesInit DEF IInv
<1>2. IInv /\ [Next]_vars => IInv'
    BY MountsNext, FilesNext DEF IInv
<1> QED BY <1>1, <1>2, PTL DEF Spec

\* Every variable has its type, and a container that lives has a parent that
\* runs: nothing is launched from a level that is not up.
THEOREM NestedTypeOK == Spec => []TypeOK
<1>1. IInv => TypeOK
    <2> SUFFICES ASSUME IInv PROVE TypeOK
        OBVIOUS
    <2>1. MountsTypeOK /\ FilesTypeOK
        BY DEF IInv, MountsInv, FilesInv
    <2>2. \A c \in Pods : Live(c) => Running(parent[c]) /\ store[c] # <<>>
        <3> SUFFICES ASSUME NEW c \in Pods, Live(c)
                     PROVE  Running(parent[c]) /\ store[c] # <<>>
            OBVIOUS
        <3>1. Handed(c) /\ parent[c] \in Levels /\ c \in Levels
            BY <2>1 DEF IInv, MountsInv, MountsTypeOK, Levels
        <3>2. Running(parent[c]) /\ Chain(parent[c])
            BY <3>1 DEF IInv, MountsInv, Handed
        <3>3. CASE pod[c] = "created"
            BY <3>1, <3>2, <3>3 DEF Handed, Chain
        <3>4. CASE pod[c] # "created"
            <4>1. store[c] = <<c>> \o store[parent[c]] /\ store[parent[c]] \in Seq(Levels)
                BY <3>1, <3>2, <3>4 DEF Live, IInv, MountsInv, StackIsInherited, Chain
            <4> QED BY <3>1, <3>2, <4>1
        <3> QED BY <3>2, <3>3, <3>4
    <2> QED BY <2>1, <2>2 DEF TypeOK, MountsTypeOK, FilesTypeOK
<1> QED BY <1>1, NestedInvariant, PTL

\* However deep the nesting, the entry can mount what it is given and the
\* launcher can read what the entry left.
THEOREM NestedMountNeverFails == Spec => []MountNeverFails
<1>1. IInv => MountNeverFails
    BY EntryMounts, LaunchFinds DEF IInv, MountNeverFails, Live
<1> QED BY <1>1, NestedInvariant, PTL

\* A container has its parent's stack below its own layer, however often the
\* layers have been renamed.
THEOREM NestedStackIsInherited == Spec => []StackIsInherited
<1>1. IInv => StackIsInherited
    BY DEF IInv, MountsInv
<1> QED BY <1>1, NestedInvariant, PTL

\* The files that a level shows of a path are those its database describes.
THEOREM NestedValidMatchesFiles == Spec => []ValidMatchesFiles
<1>1. IInv => ValidMatchesFiles
    <2> SUFFICES ASSUME IInv, NEW l \in Levels, NEW x \in Paths, Running(l), db[l][x] # None
                 PROVE  View(l, x) \in {db[l][x], Whiteout}
        BY DEF ValidMatchesFiles
    <2>1. PICK i \in 1..Len(store[l]) : WitnessAt(l, x, i)
        BY DEF IInv, FilesInv, Witnessed
    <2> DEFINE knows == {k \in 1..Len(store[l]) : files[store[l][k]][x] # None}
    <2>2. Len(store[l]) \in Nat
        <3>1. Chain(l)
            BY DEF IInv, MountsInv
        <3> QED BY <3>1 DEF Chain
    <2>3. i \in knows /\ \A k \in knows : i <= k
        BY <2>1, <2>2 DEF WitnessAt, None, Whiteout
    <2> HIDE DEF knows
    <2>4. \A k \in knows : k \in Nat
        BY <2>2 DEF knows
    <2>5. (CHOOSE k \in knows : \A j \in knows : k <= j) = i
        <3> DEFINE m == CHOOSE k \in knows : \A j \in knows : k <= j
        <3>1. m \in knows /\ \A j \in knows : m <= j
            BY <2>3, Zenon
        <3> HIDE DEF m
        <3>2. m = i
            BY <2>3, <2>4, <3>1
        <3> QED BY <3>2 DEF m
    <2>6. View(l, x) = files[store[l][i]][x]
        BY <2>3, <2>5 DEF View, knows
    <2> QED BY <2>1, <2>6 DEF WitnessAt
<1> QED BY <1>1, NestedInvariant, PTL
=============================================================================
