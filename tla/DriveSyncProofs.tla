-------------------------- MODULE DriveSyncProofs --------------------------
(***************************************************************************)
(* Proofs about DriveSync for any number of devices, items, folders, files *)
(* and failures, with one run at a time on each device.                    *)
(***************************************************************************)
EXTENDS DriveSync, FiniteSetTheorems, SequenceTheorems, TLAPS

\* A device runs one synchronisation or restoration at a time.
OneRun == \A r, s \in Runs : Home[r] = Home[s] => r = s

-----------------------------------------------------------------------------
(* The least and the greatest element of a finite set of numbers, from the *)
(* well-foundedness of inclusion between finite sets.                      *)

LEMMA Greatest ==
  ASSUME NEW S \in SUBSET Nat, IsFiniteSet(S), S # {}
  PROVE  Last(S) \in S
<1> DEFINE From(m) == {s \in S : s >= m}
           T == {From(m) : m \in S}
<1>1. IsWellFoundedOn(StrictSubsetOrdering(S), FiniteSubsetsOf(S))
  BY FS_StrictSubsetOrderingWellFounded
<1>2. IsWellFoundedOn(StrictSubsetOrdering(S), SUBSET S)
  BY <1>1, FS_FiniteSubsetsOfFinite
<1>3. T \subseteq SUBSET S /\ T # {}
  <2>1. \A m \in S : From(m) \in SUBSET S /\ From(m) \in T
    OBVIOUS
  <2> QED
    BY <2>1
<1>4. PICK F \in T : \A G \in T : <<G, F>> \notin StrictSubsetOrdering(S)
  <2> HIDE DEF T
  <2> QED
    BY <1>2, <1>3, WFMin
<1>5. PICK m \in S : F = From(m)
  BY <1>4
<1>6. ASSUME NEW n \in S, ~(n <= m) PROVE FALSE
  <2>1. From(n) \in T /\ From(n) \in SUBSET S /\ From(m) \in SUBSET S
    OBVIOUS
  <2>2. n \in Nat /\ m \in Nat /\ \A s \in S : s \in Nat
    OBVIOUS
  <2>3. m \in From(m) /\ m \notin From(n) /\ m < n
    BY <1>6, <2>2
  <2>a. ASSUME NEW s \in S, s >= n PROVE s >= m
    BY <2>2, <2>3, <2>a
  <2>b. From(n) \subseteq From(m)
    BY <2>a
  <2>4. <<From(n), F>> \in StrictSubsetOrdering(S)
    BY <1>5, <2>1, <2>3, <2>b DEF StrictSubsetOrdering
  <2> QED
    BY <1>4, <2>1, <2>4
<1>7. \A n \in S : n <= m
  BY <1>6
<1> QED
  BY <1>7 DEF Last

LEMMA Least ==
  ASSUME NEW S \in SUBSET Nat, IsFiniteSet(S), S # {}
  PROVE  First(S) \in S
<1> DEFINE UpTo(m) == {s \in S : s <= m}
           T == {UpTo(m) : m \in S}
<1>1. IsWellFoundedOn(StrictSubsetOrdering(S), FiniteSubsetsOf(S))
  BY FS_StrictSubsetOrderingWellFounded
<1>2. IsWellFoundedOn(StrictSubsetOrdering(S), SUBSET S)
  BY <1>1, FS_FiniteSubsetsOfFinite
<1>3. T \subseteq SUBSET S /\ T # {}
  <2>1. \A m \in S : UpTo(m) \in SUBSET S /\ UpTo(m) \in T
    OBVIOUS
  <2> QED
    BY <2>1
<1>4. PICK F \in T : \A G \in T : <<G, F>> \notin StrictSubsetOrdering(S)
  <2> HIDE DEF T
  <2> QED
    BY <1>2, <1>3, WFMin
<1>5. PICK m \in S : F = UpTo(m)
  BY <1>4
<1>6. ASSUME NEW n \in S, ~(m <= n) PROVE FALSE
  <2>1. UpTo(n) \in T /\ UpTo(n) \in SUBSET S /\ UpTo(m) \in SUBSET S
    OBVIOUS
  <2>2. n \in Nat /\ m \in Nat /\ \A s \in S : s \in Nat
    OBVIOUS
  <2>3. m \in UpTo(m) /\ m \notin UpTo(n) /\ n < m
    BY <1>6, <2>2
  <2>a. ASSUME NEW s \in S, s <= n PROVE s <= m
    BY <2>2, <2>3, <2>a
  <2>b. UpTo(n) \subseteq UpTo(m)
    BY <2>a
  <2>4. <<UpTo(n), F>> \in StrictSubsetOrdering(S)
    BY <1>5, <2>1, <2>3, <2>b DEF StrictSubsetOrdering
  <2> QED
    BY <1>4, <2>1, <2>4
<1>7. \A n \in S : m <= n
  BY <1>6
<1> QED
  BY <1>7 DEF First

\* What is chosen of a listing that is not empty is one of its files.
LEMMA ListedChosen ==
  ASSUME NEW f, NEW n \in Nat, NEW name, Listed(f, n, name) # {}
  PROVE  /\ First(Listed(f, n, name)) \in Listed(f, n, name)
         /\ Last(Listed(f, n, name)) \in Listed(f, n, name)
         /\ Listed(f, n, name) \subseteq 1 .. n
<1>1. Listed(f, n, name) \subseteq 1 .. n
  BY DEF Listed
<1>2. IsFiniteSet(1 .. n)
  BY FS_Interval
<1>3. IsFiniteSet(Listed(f, n, name)) /\ Listed(f, n, name) \in SUBSET Nat
  BY <1>1, <1>2, FS_Subset
<1> QED
  BY <1>1, <1>3, Greatest, Least

-----------------------------------------------------------------------------
(* What holds whatever the properties: the links of a device name files,   *)
(* a run works on the state of its device, a restoration on files that are *)
(* there.                                                                  *)

Pushing   == {"check", "find", "create", "items", "put", "upload", "index", "uploadIndex"}
Begun     == {"items", "put", "upload", "index", "uploadIndex"}
Restoring == {"ask", "write", "link"}

IsFile(k, name) == k \in 1 .. Len(drive) /\ drive[k].name = name

\* The links of a state name files of their items.
LinksIn(s, files) ==
  /\ \A i \in Items : s.items[i].node # 0 =>
       s.items[i].node \in 1 .. Len(files) /\ files[s.items[i].node].name = i
  /\ s.index # 0 => s.index \in 1 .. Len(files) /\ files[s.index].name = "index"

LinksOk(s) == LinksIn(s, drive)

LinksInv == \A d \in Devices : LinksOk(state[d])

FilesInv ==
  \A k \in 1 .. Len(drive) :
    drive[k].name \in Items => drive[k].now \in drive[k].kept /\ 0 \notin drive[k].kept

PushOk(q, s) ==
  q.at \in Pushing =>
    /\ q.mem = s
    /\ q.at \in Begun \cup {"check"} => q.mem.folder # None
    /\ \A i \in q.todo : q.cat[i] # 0
    /\ q.at \in {"put", "upload"} => q.item # None /\ q.data[q.item] # 0 /\ q.cat[q.item] # 0
    /\ q.at = "put" => q.mem.items[q.item].node # 0
    /\ q.at = "index" => q.mem.index # 0

RestoreOk(q) ==
  q.at \in Restoring =>
    /\ q.folder # None /\ q.seen <= Len(drive)
    /\ Listed(q.folder, q.seen, "index") # {}
    /\ q.at # "ask" => /\ \A i \in q.todo \cup q.old : Listed(q.folder, q.seen, i) # {}
                       /\ \A i \in q.todo : q.data[i] # 0 /\ Saved(i, q.data[i])

RunsInv == \A r \in Runs : PushOk(run[r], state[Home[r]]) /\ RestoreOk(run[r])

TypeInv == TypeOK /\ LinksInv /\ FilesInv /\ RunsInv

\* No file is removed, renamed or moved, and the server keeps its versions.
Grows ==
  /\ Len(drive) <= Len(drive')
  /\ \A k \in 1 .. Len(drive) : /\ drive'[k].name = drive[k].name
                                /\ drive'[k].folder = drive[k].folder
                                /\ drive[k].kept \subseteq drive'[k].kept

-----------------------------------------------------------------------------
(* Types of the records, and of what the actions make of them.             *)

LEMMA Homes == \A r \in Runs : Home[r] \in Devices
BY DriveSyncAssumption

LEMMA Numbers ==
  /\ 0 \in Stamp /\ Stamp \subseteq Nat /\ 0 \in 0 .. MaxNodes
  /\ MaxNodes \in Nat /\ MaxEdits \in Nat /\ Nothing \in Catalog
BY DriveSyncAssumption DEF Stamp, Nothing, Catalog

LEMMA LinkType ==
  ASSUME NEW n \in 0 .. MaxNodes, NEW c \in Stamp
  PROVE  [node |-> n, sig |-> c] \in Link
BY DEF Link

LEMMA StateFields ==
  ASSUME NEW s \in SyncState
  PROVE  /\ s.folder \in Folders \cup {None} /\ s.items \in [Items -> Link]
         /\ \A i \in Items : s.items[i].node \in 0 .. MaxNodes /\ s.items[i].sig \in Stamp
         /\ s.index \in 0 .. MaxNodes
BY DEF SyncState, Link

LEMMA EmptyState ==
  /\ emptyState \in SyncState /\ emptyState.folder = None /\ emptyState.index = 0
  /\ \A i \in Items : emptyState.items[i] = NoLink /\ emptyState.items[i].node = 0
<1>1. NoLink \in Link
  BY Numbers, LinkType DEF NoLink
<1> QED
  BY <1>1, Numbers DEF emptyState, SyncState, NoLink

LEMMA WithReady ==
  ASSUME NEW s \in SyncState, NEW b \in BOOLEAN, NEW f \in Folders \cup {None}
  PROVE  /\ [s EXCEPT !.ready = b] \in SyncState
         /\ [s EXCEPT !.ready = b].items = s.items
         /\ [s EXCEPT !.ready = b].index = s.index
         /\ [s EXCEPT !.ready = b, !.folder = f] \in SyncState
         /\ [s EXCEPT !.ready = b, !.folder = f].items = s.items
         /\ [s EXCEPT !.ready = b, !.folder = f].index = s.index
BY DEF SyncState

LEMMA WithFolder ==
  ASSUME NEW s \in SyncState, NEW f \in Folders \cup {None}
  PROVE  /\ [s EXCEPT !.folder = f] \in SyncState
         /\ [s EXCEPT !.folder = f].folder = f
         /\ [s EXCEPT !.folder = f].items = s.items
         /\ [s EXCEPT !.folder = f].index = s.index
BY DEF SyncState

LEMMA WithLink ==
  ASSUME NEW s \in SyncState, NEW i \in Items, NEW l \in Link
  PROVE  /\ [s EXCEPT !.items[i] = l] \in SyncState
         /\ [s EXCEPT !.items[i] = l].items[i] = l
         /\ \A j \in Items : j # i => [s EXCEPT !.items[i] = l].items[j] = s.items[j]
         /\ [s EXCEPT !.items[i] = l].index = s.index
         /\ [s EXCEPT !.items[i] = l].folder = s.folder
BY DEF SyncState

LEMMA IndexType == NoIndex \in Index /\ NoIndex.deleted = {} /\ NoIndex.items = Nothing
BY Numbers DEF NoIndex, Index

LEMMA IdleType ==
  /\ Idle \in Run /\ Idle.at = "idle" /\ Idle.cat = Nothing /\ Idle.mem = emptyState
  /\ Idle.todo = {} /\ Idle.item = None /\ Idle.data = Nothing /\ Idle.list = NoIndex
  /\ Idle.folder = None /\ Idle.seen = 0 /\ Idle.old = {}
BY EmptyState, IndexType, Numbers DEF Idle, Run

LEMMA RunFields ==
  ASSUME NEW q \in Run
  PROVE  /\ q.cat \in Catalog /\ q.mem \in SyncState /\ q.todo \subseteq Items
         /\ q.item \in Items \cup {None} /\ q.data \in Catalog /\ q.list \in Index
         /\ q.folder \in Folders \cup {None} /\ q.seen \in 0 .. MaxNodes /\ q.old \subseteq Items
BY DEF Run

\* A step of a run, and of the state of its device.
LEMMA GoStep ==
  ASSUME run \in [Runs -> Run], NEW r \in Runs, NEW q \in Run, run' = [run EXCEPT ![r] = q]
  PROVE  /\ run' \in [Runs -> Run] /\ run'[r] = q
         /\ \A t \in Runs : t # r => run'[t] = run[t]
OBVIOUS

LEMMA SetStep ==
  ASSUME state \in [Devices -> SyncState], NEW d \in Devices, NEW s \in SyncState,
         state' = [state EXCEPT ![d] = s]
  PROVE  /\ state' \in [Devices -> SyncState] /\ state'[d] = s
         /\ \A e \in Devices : e # d => state'[e] = state[e]
OBVIOUS

-----------------------------------------------------------------------------
(* The Drive: files are added, and get new versions.                       *)

DriveOk == drive \in Seq(Node) /\ Len(drive) <= MaxNodes

LEMMA NodeFields ==
  ASSUME DriveOk, NEW k \in 1 .. Len(drive)
  PROVE  /\ Len(drive) \in Nat /\ k \in 0 .. MaxNodes /\ k # 0
         /\ drive[k] \in Node /\ drive[k].name \in Items \cup {"index"}
         /\ drive[k].folder \in Folders /\ drive[k].now \in Stamp
         /\ drive[k].kept \in SUBSET Stamp /\ drive[k].list \in Index
<1>1. drive[k] \in Node /\ Len(drive) \in Nat /\ k \in Nat /\ k <= MaxNodes /\ MaxNodes \in Nat
  BY Numbers DEF DriveOk
<1> QED
  BY <1>1 DEF Node

LEMMA DriveStays ==
  ASSUME DriveOk, UNCHANGED drive
  PROVE  DriveOk' /\ Grows /\ (FilesInv => FilesInv')
<1>1. Len(drive) \in Nat
  BY DEF DriveOk
<1> QED
  BY <1>1 DEF DriveOk, Grows, FilesInv

LEMMA DriveAdds ==
  ASSUME DriveOk, Len(drive) < MaxNodes, NEW n \in Node, drive' = Append(drive, n),
         n.name \in Items => n.now \in n.kept /\ 0 \notin n.kept
  PROVE  /\ DriveOk' /\ Grows /\ (FilesInv => FilesInv')
         /\ Len(drive') = Len(drive) + 1 /\ drive'[Len(drive) + 1] = n
         /\ Len(drive') \in 1 .. Len(drive') /\ Len(drive') \in 0 .. MaxNodes
         /\ \A k \in 1 .. Len(drive) : drive'[k] = drive[k]
<1>1. Len(drive) \in Nat /\ MaxNodes \in Nat
  BY Numbers DEF DriveOk
<1>2. /\ drive' \in Seq(Node) /\ Len(drive') = Len(drive) + 1 /\ drive'[Len(drive) + 1] = n
      /\ \A k \in 1 .. Len(drive) : drive'[k] = drive[k]
  BY DEF DriveOk
<1>3. \A k \in 1 .. Len(drive') : k \in 1 .. Len(drive) \/ k = Len(drive) + 1
  BY <1>1, <1>2
<1>4. DriveOk' /\ Grows
  BY <1>1, <1>2 DEF DriveOk, Grows
<1>5. ASSUME FilesInv PROVE FilesInv'
  BY <1>2, <1>3, <1>5 DEF FilesInv
<1> QED
  BY <1>1, <1>2, <1>4, <1>5

LEMMA DriveChanges ==
  ASSUME DriveOk, NEW k \in 1 .. Len(drive), NEW n \in Node, drive' = [drive EXCEPT ![k] = n],
         n.name = drive[k].name, n.folder = drive[k].folder, drive[k].kept \subseteq n.kept,
         n.name \in Items => n.now \in n.kept /\ 0 \notin n.kept
  PROVE  /\ DriveOk' /\ Grows /\ (FilesInv => FilesInv')
         /\ Len(drive') = Len(drive) /\ drive'[k] = n
         /\ \A j \in 1 .. Len(drive) : j # k => drive'[j] = drive[j]
<1>1. Len(drive) \in Nat
  BY DEF DriveOk
<1>2. /\ drive' \in Seq(Node) /\ Len(drive') = Len(drive)
      /\ \A j \in 1 .. Len(drive) : drive'[j] = IF j = k THEN n ELSE drive[j]
  BY ExceptSeq DEF DriveOk
<1>3. DriveOk' /\ Grows
  BY <1>1, <1>2 DEF DriveOk, Grows
<1>4. ASSUME FilesInv PROVE FilesInv'
  BY <1>2, <1>4 DEF FilesInv
<1> QED
  BY <1>2, <1>3, <1>4

PutsVersion(n, c) == drive' = [drive EXCEPT ![n].now = c, ![n].kept = @ \cup {c}]
PutsList(n, l)    == drive' = [drive EXCEPT ![n].list = l]

\* A new version of a file of an item, ...
LEMMA NewVersion ==
  ASSUME DriveOk, FilesInv, NEW k \in 1 .. Len(drive), NEW c \in Stamp \ {0},
         PutsVersion(k, c)
  PROVE  /\ DriveOk' /\ Grows /\ FilesInv' /\ Len(drive') = Len(drive)
         /\ \A j \in 1 .. Len(drive) : j # k => drive'[j] = drive[j]
         /\ drive'[k].name = drive[k].name /\ drive'[k].kept = drive[k].kept \cup {c}
         /\ drive'[k].now = c /\ drive'[k].list = drive[k].list
<1> DEFINE n == [drive[k] EXCEPT !.now = c, !.kept = @ \cup {c}]
<1>1. drive[k] \in Node
  BY NodeFields
<1>2. /\ n \in Node /\ n.name = drive[k].name /\ n.folder = drive[k].folder /\ n.now = c
      /\ n.kept = drive[k].kept \cup {c} /\ n.list = drive[k].list
  BY <1>1 DEF Node
<1>3. drive' = [drive EXCEPT ![k] = n]
  BY <1>1 DEF DriveOk, Node, PutsVersion, PutsList
<1>4. n.name \in Items => n.now \in n.kept /\ 0 \notin n.kept
  BY <1>2 DEF FilesInv
<1> HIDE DEF n
<1>5. drive[k].kept \subseteq n.kept
  BY <1>2
<1>6. /\ DriveOk' /\ Grows /\ FilesInv' /\ Len(drive') = Len(drive) /\ drive'[k] = n
      /\ \A j \in 1 .. Len(drive) : j # k => drive'[j] = drive[j]
  BY <1>2, <1>3, <1>4, <1>5, DriveChanges
<1> QED
  BY <1>2, <1>6

\* ... and of an index.
LEMMA NewList ==
  ASSUME DriveOk, FilesInv, NEW k \in 1 .. Len(drive), NEW l \in Index,
         PutsList(k, l)
  PROVE  /\ DriveOk' /\ Grows /\ FilesInv' /\ Len(drive') = Len(drive)
         /\ \A j \in 1 .. Len(drive) : j # k => drive'[j] = drive[j]
         /\ drive'[k].name = drive[k].name /\ drive'[k].kept = drive[k].kept
         /\ drive'[k].now = drive[k].now /\ drive'[k].list = l
<1> DEFINE n == [drive[k] EXCEPT !.list = l]
<1>1. drive[k] \in Node
  BY NodeFields
<1>2. /\ n \in Node /\ n.name = drive[k].name /\ n.folder = drive[k].folder
      /\ n.now = drive[k].now /\ n.kept = drive[k].kept /\ n.list = l
  BY <1>1 DEF Node
<1>3. drive' = [drive EXCEPT ![k] = n]
  BY <1>1 DEF DriveOk, Node, PutsVersion, PutsList
<1>4. n.name \in Items => n.now \in n.kept /\ 0 \notin n.kept
  BY <1>2 DEF FilesInv
<1> HIDE DEF n
<1>5. drive[k].kept \subseteq n.kept
  BY <1>2
<1>6. /\ DriveOk' /\ Grows /\ FilesInv' /\ Len(drive') = Len(drive) /\ drive'[k] = n
      /\ \A j \in 1 .. Len(drive) : j # k => drive'[j] = drive[j]
  BY <1>2, <1>3, <1>4, <1>5, DriveChanges
<1> QED
  BY <1>2, <1>6

\* What was true of the files stays true.
LEMMA FilesStay ==
  ASSUME DriveOk, DriveOk', Grows
  PROVE  /\ Len(drive) \in Nat /\ Len(drive') \in Nat /\ Len(drive) <= Len(drive')
         /\ \A k, name : IsFile(k, name) => IsFile(k, name)'
         /\ \A i, b : Saved(i, b) => Saved(i, b)'
         /\ \A f, name : \A n \in 0 .. Len(drive) : Listed(f, n, name)' = Listed(f, n, name)
<1>1. Len(drive) \in Nat /\ Len(drive') \in Nat /\ Len(drive) <= Len(drive')
  BY DEF DriveOk, Grows
<1>2. \A n \in 0 .. Len(drive) : \A k \in 1 .. n :
        k \in 1 .. Len(drive) /\ k \in 1 .. Len(drive')
  BY <1>1
<1>3. \A k \in 1 .. Len(drive) : k \in 1 .. Len(drive')
  BY <1>1
<1>4. \A f, name : \A n \in 0 .. Len(drive) : Listed(f, n, name)' = Listed(f, n, name)
  BY <1>2 DEF Listed, Grows
<1>5. \A k, name : IsFile(k, name) => IsFile(k, name)'
  BY <1>3 DEF IsFile, Grows
<1>6. \A i, b : Saved(i, b) => Saved(i, b)'
  BY <1>3 DEF Saved, Grows
<1> QED
  BY <1>1, <1>4, <1>5, <1>6

LEMMA LinksStay ==
  ASSUME DriveOk, DriveOk', Grows, NEW s, LinksOk(s)
  PROVE  LinksIn(s, drive')
<1>1. \A k, name : IsFile(k, name) => k \in 1 .. Len(drive') /\ drive'[k].name = name
  BY FilesStay DEF IsFile
<1> QED
  BY <1>1 DEF LinksOk, LinksIn, IsFile

\* A step of the run r: of itself, of the state of its device, of the Drive.
LEMMA RunStep ==
  ASSUME OneRun, TypeInv, NEW r \in Runs, DriveOk', Grows, FilesInv',
         run' \in [Runs -> Run], \A t \in Runs : t # r => run'[t] = run[t],
         state' \in [Devices -> SyncState],
         \A d \in Devices : d # Home[r] => state'[d] = state[d],
         LinksOk(state[Home[r]])', PushOk(run'[r], state'[Home[r]]), RestoreOk(run[r])'
  PROVE  LinksInv' /\ FilesInv' /\ RunsInv'
<1>0. DriveOk /\ \A t \in Runs : run[t] \in Run
  BY DEF TypeInv, TypeOK, DriveOk
<1>1. ASSUME NEW d \in Devices PROVE LinksOk(state[d])'
  <2>1. CASE d = Home[r]
    BY <2>1
  <2>2. CASE d # Home[r]
    <3>1. state[d] \in SyncState /\ LinksOk(state[d]) /\ state'[d] = state[d]
      BY <2>2 DEF TypeInv, TypeOK, LinksInv
    <3>2. \A k, name : IsFile(k, name) => IsFile(k, name)'
      BY <1>0, FilesStay
    <3> QED
      BY <3>1, <3>2 DEF LinksOk, LinksIn, IsFile
  <2> QED
    BY <2>1, <2>2
<1>2. ASSUME NEW t \in Runs
      PROVE  PushOk(run[t], state[Home[t]])' /\ RestoreOk(run[t])'
  <2>1. CASE t = r
    BY <2>1
  <2>2. CASE t # r
    <3>1. Home[t] # Home[r] /\ Home[t] \in Devices /\ run[t] \in Run
      BY <1>0, <2>2, Homes DEF OneRun
    <3>2. /\ run'[t] = run[t] /\ state'[Home[t]] = state[Home[t]]
          /\ PushOk(run[t], state[Home[t]]) /\ RestoreOk(run[t])
      BY <2>2, <3>1 DEF TypeInv, RunsInv
    <3>3. RestoreOk(run[t])'
      <4> DEFINE q == run[t]
      <4>1. q.seen \in Nat /\ RestoreOk(q) /\ run'[t] = q
        BY <3>1, <3>2, RunFields, Numbers
      <4> HIDE DEF q
      <4>2. q.seen <= Len(drive) => q.seen <= Len(drive') /\ q.seen \in 0 .. Len(drive)
        BY <1>0, <4>1, FilesStay
      <4>3. /\ \A i, b : Saved(i, b) => Saved(i, b)'
            /\ \A f, name : \A n \in 0 .. Len(drive) : Listed(f, n, name)' = Listed(f, n, name)
        BY <1>0, FilesStay
      <4> QED
        BY <4>1, <4>2, <4>3 DEF RestoreOk
    <3> QED
      BY <3>2, <3>3
  <2> QED
    BY <2>1, <2>2
<1> QED
  BY <1>1, <1>2 DEF LinksInv, RunsInv

\* A run that ends.
LEMMA IdleOk ==
  ASSUME NEW s \in SyncState
  PROVE  PushOk(Idle, s) /\ RestoreOk(Idle)
BY IdleType DEF PushOk, RestoreOk, Pushing, Restoring

LEMMA InitType == Init => TypeInv
<1> SUFFICES ASSUME Init PROVE TypeInv
  OBVIOUS
<1>1. TypeOK
  <2>1. NoItem \in [bytes : Stamp, stamp : Stamp]
    BY Numbers DEF NoItem
  <2>2. drive \in Seq(Node) /\ Len(drive) <= MaxNodes
    BY Numbers DEF Init
  <2>3. clock \in Stamp /\ faults \in 0 .. MaxFaults /\ turns \in 0 .. MaxTurns
    BY Numbers, DriveSyncAssumption DEF Init
  <2> QED
    BY <2>1, <2>2, <2>3, EmptyState, IdleType DEF Init, TypeOK, Past
<1>2. LinksInv /\ FilesInv
  BY EmptyState DEF Init, LinksInv, LinksOk, LinksIn, IsFile, FilesInv
<1>3. RunsInv
  BY IdleType, Homes DEF Init, RunsInv, PushOk, RestoreOk, Pushing, Restoring
<1> QED
  BY <1>1, <1>2, <1>3 DEF TypeInv

-----------------------------------------------------------------------------
(* The steps of a push.                                                    *)

RestOk ==
  /\ disk \in [Devices -> [Items -> [bytes : Stamp, stamp : Stamp]]]
  /\ folders \in [Folders -> {"none", "live", "lost"}]
  /\ clock \in Stamp /\ faults \in 0 .. MaxFaults /\ turns \in 0 .. MaxTurns
  /\ past \in Past

LEMMA Parts ==
  ASSUME TypeInv, NEW r \in Runs
  PROVE  /\ RestOk /\ DriveOk /\ FilesInv
         /\ state \in [Devices -> SyncState] /\ run \in [Runs -> Run]
         /\ run[r] \in Run /\ Home[r] \in Devices /\ state[Home[r]] \in SyncState
         /\ LinksOk(state[Home[r]]) /\ PushOk(run[r], state[Home[r]]) /\ RestoreOk(run[r])
<1>1. Home[r] \in Devices
  BY Homes
<1> QED
  BY <1>1 DEF TypeInv, TypeOK, RestOk, DriveOk, LinksInv, RunsInv

LEMMA RestStays ==
  ASSUME RestOk, UNCHANGED <<disk, folders, clock, past>>,
         UNCHANGED faults \/ Fail, UNCHANGED turns \/ Turn
  PROVE  RestOk'
<1>1. faults' \in 0 .. MaxFaults
  BY DriveSyncAssumption DEF RestOk, Fail
<1>2. turns' \in 0 .. MaxTurns
  BY DriveSyncAssumption DEF RestOk, Turn
<1> QED
  BY <1>1, <1>2 DEF RestOk

\* A run steps, its device and the Drive being left alone, ...
LEMMA GoesType ==
  ASSUME OneRun, TypeInv, NEW r \in Runs, NEW q \in Run, Go(r, q), UNCHANGED <<state, drive>>,
         RestOk', PushOk(q, state[Home[r]]), RestoreOk(q)
  PROVE  TypeInv'
<1>1. /\ DriveOk /\ FilesInv /\ state \in [Devices -> SyncState] /\ run \in [Runs -> Run]
      /\ LinksOk(state[Home[r]]) /\ Home[r] \in Devices /\ state[Home[r]] \in SyncState
  BY Parts
<1>2. DriveOk' /\ Grows /\ FilesInv'
  BY <1>1, DriveStays
<1>3. run' \in [Runs -> Run] /\ run'[r] = q /\ \A t \in Runs : t # r => run'[t] = run[t]
  BY <1>1, GoStep DEF Go
<1>4. LinksOk(state[Home[r]])'
  BY <1>1 DEF LinksOk, LinksIn, IsFile
<1>5. PushOk(run'[r], state'[Home[r]])
  BY <1>3
<1>6. RestoreOk(run[r])'
  BY <1>3 DEF RestoreOk, Listed, Saved
<1>7. state' \in [Devices -> SyncState] /\ \A d \in Devices : d # Home[r] => state'[d] = state[d]
  BY <1>1
<1>8. LinksInv' /\ FilesInv' /\ RunsInv'
  BY <1>2, <1>3, <1>4, <1>5, <1>6, <1>7, RunStep
<1> QED
  BY <1>2, <1>3, <1>7, <1>8 DEF TypeInv, TypeOK, RestOk, DriveOk

\* ... or with the state of its device, ...
LEMMA SetsType ==
  ASSUME OneRun, TypeInv, NEW r \in Runs, NEW q \in Run, Go(r, q),
         NEW s \in SyncState, Set(Home[r], s), UNCHANGED drive,
         RestOk', LinksOk(s), PushOk(q, s), RestoreOk(q)
  PROVE  TypeInv'
<1>1. /\ DriveOk /\ FilesInv /\ state \in [Devices -> SyncState] /\ run \in [Runs -> Run]
      /\ Home[r] \in Devices
  BY Parts
<1>2. DriveOk' /\ Grows /\ FilesInv'
  BY <1>1, DriveStays
<1>3. run' \in [Runs -> Run] /\ run'[r] = q /\ \A t \in Runs : t # r => run'[t] = run[t]
  BY <1>1, GoStep DEF Go
<1>7. /\ state' \in [Devices -> SyncState] /\ state'[Home[r]] = s
      /\ \A d \in Devices : d # Home[r] => state'[d] = state[d]
  BY <1>1, SetStep DEF Set
<1>4. LinksOk(state[Home[r]])'
  BY <1>7 DEF LinksOk, LinksIn, IsFile
<1>5. PushOk(run'[r], state'[Home[r]])
  BY <1>3, <1>7
<1>6. RestoreOk(run[r])'
  BY <1>3 DEF RestoreOk, Listed, Saved
<1>8. LinksInv' /\ FilesInv' /\ RunsInv'
  BY <1>2, <1>3, <1>4, <1>5, <1>6, <1>7, RunStep
<1> QED
  BY <1>2, <1>3, <1>7, <1>8 DEF TypeInv, TypeOK, RestOk, DriveOk

\* ... or with both, a push being no restoration.
LEMMA SendsType ==
  ASSUME OneRun, TypeInv, NEW r \in Runs, NEW q \in Run, Go(r, q), q.at \notin Restoring,
         NEW s \in SyncState, state' = [state EXCEPT ![Home[r]] = s],
         DriveOk', Grows, FilesInv', RestOk', LinksIn(s, drive'), PushOk(q, s)
  PROVE  TypeInv'
<1>1. /\ state \in [Devices -> SyncState] /\ run \in [Runs -> Run] /\ Home[r] \in Devices
  BY Parts
<1>3. run' \in [Runs -> Run] /\ run'[r] = q /\ \A t \in Runs : t # r => run'[t] = run[t]
  BY <1>1, GoStep DEF Go
<1>7. /\ state' \in [Devices -> SyncState] /\ state'[Home[r]] = s
      /\ \A d \in Devices : d # Home[r] => state'[d] = state[d]
  BY <1>1, SetStep DEF Set
<1>4. LinksOk(state[Home[r]])'
  BY <1>7 DEF LinksOk, LinksIn, IsFile
<1>5. PushOk(run'[r], state'[Home[r]])
  BY <1>3, <1>7
<1>6. RestoreOk(run[r])'
  BY <1>3 DEF RestoreOk
<1>8. LinksInv' /\ FilesInv' /\ RunsInv'
  BY <1>3, <1>4, <1>5, <1>6, <1>7, RunStep
<1> QED
  BY <1>3, <1>7, <1>8 DEF TypeInv, TypeOK, RestOk, DriveOk

\* The states of a push that is under way, read together.
LEMMA PushFields ==
  ASSUME TypeInv, NEW r \in Runs, run[r].at \in Pushing
  PROVE  /\ run[r].mem = state[Home[r]]
         /\ run[r].at \in Begun \cup {"check"} => run[r].mem.folder # None
         /\ \A i \in run[r].todo : run[r].cat[i] # 0
         /\ run[r].at \in {"put", "upload"} =>
              run[r].item \in Items /\ Content(r) \in Stamp \ {0} /\ run[r].cat[run[r].item] \in Stamp \ {0}
         /\ run[r].at = "put" =>
              /\ IsFile(run[r].mem.items[run[r].item].node, run[r].item)
              /\ run[r].mem.items[run[r].item].node \in 0 .. MaxNodes
         /\ run[r].at = "index" => IsFile(run[r].mem.index, "index")
<1>1. /\ PushOk(run[r], state[Home[r]]) /\ run[r] \in Run /\ LinksOk(state[Home[r]])
  BY Parts
<1>2. /\ run[r].mem = state[Home[r]]
      /\ run[r].at \in Begun \cup {"check"} => run[r].mem.folder # None
      /\ \A i \in run[r].todo : run[r].cat[i] # 0
      /\ run[r].at = "index" => run[r].mem.index # 0
  BY <1>1 DEF PushOk
<1>3. ASSUME run[r].at \in {"put", "upload"}
      PROVE  /\ run[r].item \in Items /\ Content(r) \in Stamp \ {0}
             /\ run[r].cat[run[r].item] \in Stamp \ {0}
  <2>1. run[r].item # None /\ run[r].data[run[r].item] # 0 /\ run[r].cat[run[r].item] # 0
    BY <1>1, <1>3 DEF PushOk
  <2>2. run[r].item \in Items /\ run[r].data \in Catalog /\ run[r].cat \in Catalog
    BY <1>1, <2>1, RunFields
  <2> QED
    BY <2>1, <2>2 DEF Catalog, Content
<1>4. ASSUME run[r].at = "put"
      PROVE  /\ IsFile(run[r].mem.items[run[r].item].node, run[r].item)
             /\ run[r].mem.items[run[r].item].node \in 0 .. MaxNodes
  <2>1. run[r].item \in Items /\ run[r].mem.items[run[r].item].node # 0
    BY <1>1, <1>3, <1>4 DEF PushOk, Pushing
  <2>2. run[r].mem \in SyncState
    BY <1>1, RunFields
  <2> QED
    BY <1>1, <1>2, <2>1, <2>2, StateFields DEF LinksOk, LinksIn, IsFile
<1> QED
  BY <1>1, <1>2, <1>3, <1>4 DEF LinksOk, LinksIn, IsFile

LEMMA StartType ==
  ASSUME OneRun, TypeInv, NEW r \in Runs, Start(r)
  PROVE  TypeInv'
<1> DEFINE s == state[Home[r]]
           t == [s EXCEPT !.ready = FALSE]
           q == [Idle EXCEPT !.at = IF s.folder = None THEN "find" ELSE "check",
                             !.cat = catalogOf(Home[r]), !.mem = s]
<1>1. /\ RestOk /\ LinksOk(s) /\ PushOk(run[r], s) /\ RestoreOk(run[r])
      /\ run[r] \in Run /\ Home[r] \in Devices /\ s \in SyncState
  BY Parts
<1>2. RestOk' /\ run[r].at = "idle" /\ UNCHANGED drive
  BY <1>1, RestStays DEF Start, At
<1>3. CASE Held(Home[r]) = {} /\ \E i \in Items : s.items[i] # NoLink
  <2>1. Set(Home[r], t) /\ UNCHANGED run
    BY <1>3 DEF Start
  <2>2. t \in SyncState /\ t.items = s.items /\ t.index = s.index
    BY <1>1, WithReady
  <2>3. Go(r, run[r])
    BY <2>1, Parts DEF Go
  <2> HIDE DEF t
  <2>4. LinksOk(t) /\ PushOk(run[r], t)
    BY <1>1, <1>2, <2>2 DEF LinksOk, LinksIn, IsFile, PushOk, Pushing
  <2> QED
    BY <1>1, <1>2, <2>1, <2>2, <2>3, <2>4, SetsType
<1>4. CASE ~(Held(Home[r]) = {} /\ \E i \in Items : s.items[i] # NoLink)
  <2>1. Go(r, q) /\ UNCHANGED state
    BY <1>4 DEF Start
  <2>2. catalogOf(Home[r]) \in Catalog
    BY <1>1 DEF RestOk, catalogOf, Catalog
  <2>3. /\ q \in Run /\ q.mem = s /\ q.at \in {"find", "check"} /\ q.todo = {}
        /\ q.at = "check" => s.folder # None
    BY <1>1, <2>2, IdleType DEF Run
  <2> HIDE DEF q
  <2>4. PushOk(q, s) /\ RestoreOk(q)
    BY <2>3 DEF PushOk, RestoreOk, Pushing, Begun, Restoring
  <2> QED
    BY <1>2, <2>1, <2>3, <2>4, GoesType
<1> QED
  BY <1>3, <1>4

\* Begin, from what the run has read.
LEMMA BeginType ==
  ASSUME OneRun, TypeInv, NEW r \in Runs, run[r].at \in Pushing, NEW f \in Folders,
         Begin(r, f), RestOk', UNCHANGED drive
  PROVE  TypeInv'
<1> DEFINE s == [run[r].mem EXCEPT !.folder = f]
           todo == {i \in Items : run[r].cat[i] # 0 /\ s.items[i].sig # run[r].cat[i]}
           q == [run[r] EXCEPT !.at = "items", !.mem = s, !.todo = todo]
<1>1. /\ run[r] \in Run /\ run[r].mem = state[Home[r]] /\ LinksOk(state[Home[r]])
      /\ run[r].mem \in SyncState
  BY Parts, PushFields
<1>2. /\ s \in SyncState /\ s.folder = f /\ s.items = run[r].mem.items /\ s.index = run[r].mem.index
  BY <1>1, WithFolder
<1>3. Set(Home[r], s) /\ Go(r, q)
  BY DEF Begin
<1>4. /\ q \in Run /\ q.at = "items" /\ q.mem = s /\ q.todo = todo /\ q.cat = run[r].cat
  BY <1>1, <1>2 DEF Run
<1>5. LinksOk(s) /\ f # None
  BY <1>1, <1>2, DriveSyncAssumption DEF LinksOk, LinksIn, IsFile
<1>6. \A i \in q.todo : q.cat[i] # 0
  BY <1>4
<1> HIDE DEF q, s
<1>7. PushOk(q, s) /\ RestoreOk(q)
  BY <1>2, <1>4, <1>5, <1>6 DEF PushOk, RestoreOk, Restoring
<1> QED
  BY <1>2, <1>3, <1>4, <1>5, <1>7, SetsType

LEMMA CheckType ==
  ASSUME OneRun, TypeInv, NEW r \in Runs, Check(r)
  PROVE  TypeInv'
<1>1. RestOk' /\ run[r].at = "check" /\ run[r].at \in Pushing /\ UNCHANGED drive
  BY Parts, RestStays DEF Check, At, Pushing
<1>2. CASE Begin(r, run[r].mem.folder)
  <2>1. run[r].mem.folder \in Folders
    BY <1>1, Parts, PushFields, RunFields, StateFields
  <2> QED
    BY <1>1, <1>2, <2>1, BeginType
<1>3. CASE Set(Home[r], emptyState) /\ Go(r, Idle)
  <2>1. LinksOk(emptyState)
    BY EmptyState DEF LinksOk, LinksIn, IsFile
  <2> QED
    BY <1>1, <1>3, <2>1, EmptyState, IdleType, IdleOk, SetsType
<1> QED
  BY <1>2, <1>3 DEF Check

LEMMA FindFolderType ==
  ASSUME OneRun, TypeInv, NEW r \in Runs, FindFolder(r)
  PROVE  TypeInv'
<1>1. RestOk' /\ run[r].at = "find" /\ run[r].at \in Pushing /\ UNCHANGED drive
  BY Parts, RestStays DEF FindFolder, At, Pushing
<1>2. ASSUME NEW f \in Folders, Begin(r, f) PROVE TypeInv'
  BY <1>1, <1>2, BeginType
<1>3. CASE Go(r, [run[r] EXCEPT !.at = "create"]) /\ UNCHANGED state
  <2> DEFINE q == [run[r] EXCEPT !.at = "create"]
  <2>1. /\ q \in Run /\ q.at = "create" /\ q.mem = run[r].mem /\ q.todo = run[r].todo
        /\ q.cat = run[r].cat
    BY Parts DEF Run
  <2>2. run[r].mem = state[Home[r]] /\ \A i \in run[r].todo : run[r].cat[i] # 0
    BY <1>1, PushFields
  <2> HIDE DEF q
  <2>3. PushOk(q, state[Home[r]]) /\ RestoreOk(q)
    BY <2>1, <2>2 DEF PushOk, RestoreOk, Pushing, Begun, Restoring
  <2> QED
    BY <1>1, <1>3, <2>1, <2>3, GoesType DEF q
<1> QED
  BY <1>2, <1>3 DEF FindFolder

LEMMA CreateFolderType ==
  ASSUME OneRun, TypeInv, NEW r \in Runs, CreateFolder(r)
  PROVE  TypeInv'
<1>1. PICK f \in Folders : folders' = [folders EXCEPT ![f] = "live"] /\ Begin(r, f)
  BY DEF CreateFolder
<1>2. /\ run[r].at \in Pushing /\ UNCHANGED <<disk, drive, clock, faults, turns, past>>
  BY DEF CreateFolder, At, Pushing
<1>3. RestOk'
  BY <1>1, <1>2, Parts DEF RestOk
<1> QED
  BY <1>1, <1>2, <1>3, BeginType

LEMMA ReadItemType ==
  ASSUME OneRun, TypeInv, NEW r \in Runs, NEW i \in Items, ReadItem(r, i)
  PROVE  TypeInv'
<1> DEFINE q == run[r]
           b == disk[Home[r]][i].bytes
           skip == [q EXCEPT !.todo = @ \ {i}]
           read == [q EXCEPT !.at = IF q.mem.items[i].node = 0 THEN "upload" ELSE "put",
                             !.item = i, !.todo = @ \ {i}, !.data[i] = b]
<1>1. /\ RestOk' /\ q.at = "items" /\ q.at \in Pushing /\ q.at \in Begun /\ i \in q.todo
      /\ UNCHANGED <<drive, state>>
  BY Parts, RestStays DEF ReadItem, At, Pushing, Begun
<1>2. /\ q \in Run /\ q.mem = state[Home[r]] /\ q.mem.folder # None
      /\ \A j \in q.todo : q.cat[j] # 0
  BY <1>1, Parts, PushFields
<1>3. b \in Stamp
  BY Parts DEF RestOk
<1>4. CASE b = 0
  <2>1. Go(r, skip)
    BY <1>4 DEF ReadItem
  <2>2. /\ skip \in Run /\ skip.at = q.at /\ skip.mem = q.mem /\ skip.cat = q.cat
        /\ skip.todo \subseteq q.todo
    BY <1>2 DEF Run
  <2> HIDE DEF skip
  <2>3. PushOk(skip, state[Home[r]]) /\ RestoreOk(skip)
    BY <1>1, <1>2, <2>2 DEF PushOk, RestoreOk, Restoring
  <2> QED
    BY <1>1, <2>1, <2>2, <2>3, GoesType
<1>5. CASE b # 0
  <2>1. Go(r, read)
    BY <1>5 DEF ReadItem
  <2>2. q.data \in [Items -> Stamp]
    BY <1>2, RunFields DEF Catalog
  <2>3. /\ read \in Run /\ read.mem = q.mem /\ read.cat = q.cat
        /\ read.todo \subseteq q.todo /\ read.item = i /\ read.data[i] = b
        /\ read.at = IF q.mem.items[i].node = 0 THEN "upload" ELSE "put"
    BY <1>2, <1>3, <2>2 DEF Run, Catalog
  <2> HIDE DEF read
  <2>4. PushOk(read, state[Home[r]]) /\ RestoreOk(read)
    BY <1>1, <1>2, <1>5, <2>3, DriveSyncAssumption DEF PushOk, RestoreOk, Restoring
  <2> QED
    BY <1>1, <2>1, <2>3, <2>4, GoesType
<1> QED
  BY <1>4, <1>5

\* What is recorded of a file that was sent.
LEMMA SentType ==
  ASSUME OneRun, TypeInv, NEW r \in Runs, run[r].at \in {"put", "upload"},
         NEW n \in 0 .. MaxNodes, NEW i \in Items, i = run[r].item, Sent(r, n),
         n \in 1 .. Len(drive'), drive'[n].name = i,
         DriveOk', Grows, FilesInv', RestOk'
  PROVE  TypeInv'
<1> DEFINE s == state[Home[r]]
           l == [node |-> n, sig |-> run[r].cat[i]]
           t == [s EXCEPT !.items[i] = l]
           q == [run[r] EXCEPT !.at = "items", !.mem = t, !.item = None, !.data = Nothing]
<1>1. /\ run[r] \in Run /\ s \in SyncState /\ LinksOk(s) /\ run[r].mem = s
      /\ run[r].at \in Pushing /\ run[r].at \in Begun
      /\ run[r].cat[i] \in Stamp /\ s.folder # None
      /\ \A j \in run[r].todo : run[r].cat[j] # 0
  BY Parts, PushFields DEF Pushing, Begun
<1>2. l \in Link /\ l.node = n
  BY <1>1, LinkType
<1>3. state' = [state EXCEPT ![Home[r]] = t] /\ Go(r, q)
  BY DEF Sent, Set
<1>4. /\ t \in SyncState /\ t.items[i] = l /\ t.index = s.index /\ t.folder = s.folder
      /\ \A j \in Items : j # i => t.items[j] = s.items[j]
  <2> HIDE DEF l
  <2> QED
    BY <1>1, <1>2, WithLink
<1> HIDE DEF l, t
<1>5. /\ q \in Run /\ q.at = "items" /\ q.mem = t /\ q.cat = run[r].cat
      /\ q.todo = run[r].todo
  BY <1>1, <1>4, Numbers DEF Run
<1> HIDE DEF q
<1>6. LinksIn(t, drive')
  <2>1. \A k, name : IsFile(k, name) => k \in 1 .. Len(drive') /\ drive'[k].name = name
    BY Parts, FilesStay DEF IsFile
  <2>2. /\ \A j \in Items : s.items[j].node # 0 => IsFile(s.items[j].node, j)
        /\ s.index # 0 => IsFile(s.index, "index")
    BY <1>1 DEF LinksOk, LinksIn, IsFile
  <2> HIDE DEF s
  <2>3. ASSUME NEW j \in Items, t.items[j].node # 0
        PROVE  t.items[j].node \in 1 .. Len(drive') /\ drive'[t.items[j].node].name = j
    <3>1. CASE j = i
      BY <1>2, <1>4, <3>1
    <3>2. CASE j # i
      BY <1>4, <2>1, <2>2, <2>3, <3>2
    <3> QED
      BY <3>1, <3>2
  <2>4. t.index # 0 => t.index \in 1 .. Len(drive') /\ drive'[t.index].name = "index"
    BY <1>4, <2>1, <2>2
  <2> QED
    BY <2>3, <2>4 DEF LinksIn
<1>7. PushOk(q, t) /\ q.at \notin Restoring
  BY <1>1, <1>4, <1>5 DEF PushOk, Restoring
<1> QED
  BY <1>3, <1>4, <1>5, <1>6, <1>7, SendsType

\* A failure: the file may have been stored or not, the state is left alone.
LEMMA FailsType ==
  ASSUME OneRun, TypeInv, NEW r \in Runs, NEW q \in Run, Go(r, q), q.at \notin Restoring,
         UNCHANGED state, DriveOk', Grows, FilesInv', RestOk', PushOk(q, state[Home[r]])
  PROVE  TypeInv'
<1>1. /\ state \in [Devices -> SyncState] /\ Home[r] \in Devices /\ DriveOk
      /\ state[Home[r]] \in SyncState /\ LinksOk(state[Home[r]])
  BY Parts
<1>2. state' = [state EXCEPT ![Home[r]] = state[Home[r]]]
  BY <1>1
<1>3. LinksIn(state[Home[r]], drive')
  BY <1>1, LinksStay
<1> QED
  BY <1>1, <1>2, <1>3, SendsType

\* The file that UpdateItem writes.
LEMMA UpdatesDrive ==
  ASSUME TypeInv, NEW r \in Runs, run[r].at = "put", NEW n, n = run[r].mem.items[run[r].item].node,
         PutsVersion(n, Content(r))
  PROVE  /\ n \in 1 .. Len(drive) /\ n \in 0 .. MaxNodes /\ run[r].item \in Items
         /\ drive[n].name = run[r].item
         /\ DriveOk' /\ Grows /\ FilesInv' /\ Len(drive') = Len(drive)
         /\ \A j \in 1 .. Len(drive) : j # n => drive'[j] = drive[j]
         /\ drive'[n].name = drive[n].name /\ drive'[n].kept = drive[n].kept \cup {Content(r)}
         /\ drive'[n].now = Content(r) /\ drive'[n].list = drive[n].list
<1>1. /\ n \in 1 .. Len(drive) /\ n \in 0 .. MaxNodes /\ run[r].item \in Items
      /\ drive[n].name = run[r].item /\ Content(r) \in Stamp \ {0}
  BY PushFields DEF Pushing, IsFile
<1>2. DriveOk /\ FilesInv
  BY Parts
<1> QED
  BY <1>1, <1>2, NewVersion

\* The file that UploadItem adds.
LEMMA UploadsDrive ==
  ASSUME TypeInv, NEW r \in Runs, run[r].at = "upload", Len(drive) < MaxNodes,
         drive' = Append(drive, NewFile(r))
  PROVE  /\ run[r].item \in Items /\ NewFile(r) \in Node
         /\ DriveOk' /\ Grows /\ FilesInv'
         /\ Len(drive') = Len(drive) + 1 /\ drive'[Len(drive) + 1] = NewFile(r)
         /\ Len(drive') \in 1 .. Len(drive') /\ Len(drive') \in 0 .. MaxNodes
         /\ \A k \in 1 .. Len(drive) : drive'[k] = drive[k]
         /\ drive'[Len(drive')].name = run[r].item
<1>1. run[r].item \in Items /\ Content(r) \in Stamp \ {0} /\ run[r].mem.folder # None
  BY PushFields DEF Pushing, Begun
<1>2. run[r].mem.folder \in Folders
  BY <1>1, Parts, RunFields, StateFields
<1>3. /\ NewFile(r) \in Node /\ NewFile(r).name = run[r].item
      /\ NewFile(r).now \in NewFile(r).kept /\ 0 \notin NewFile(r).kept
  BY <1>1, <1>2, IndexType DEF NewFile, Node
<1>4. DriveOk /\ FilesInv
  BY Parts
<1>5. /\ DriveOk' /\ Grows /\ FilesInv'
      /\ Len(drive') = Len(drive) + 1 /\ drive'[Len(drive) + 1] = NewFile(r)
      /\ Len(drive') \in 1 .. Len(drive') /\ Len(drive') \in 0 .. MaxNodes
      /\ \A k \in 1 .. Len(drive) : drive'[k] = drive[k]
  BY <1>3, <1>4, DriveAdds
<1> QED
  BY <1>1, <1>3, <1>5

LEMMA UpdateItemType ==
  ASSUME OneRun, TypeInv, NEW r \in Runs, UpdateItem(r)
  PROVE  TypeInv'
<1>1. PICK n : n = run[r].mem.items[run[r].item].node
  OBVIOUS
<1>2. /\ RestOk' /\ run[r].at = "put" /\ Sent(r, n)
      /\ PutsVersion(n, Content(r))
  BY <1>1, Parts, RestStays DEF UpdateItem, At, PutsVersion
<1>3. /\ n \in 1 .. Len(drive) /\ n \in 0 .. MaxNodes /\ run[r].item \in Items
      /\ DriveOk' /\ Grows /\ FilesInv' /\ Len(drive') = Len(drive)
      /\ drive'[n].name = run[r].item
  BY <1>1, <1>2, UpdatesDrive
<1> QED
  BY <1>2, <1>3, SentType

LEMMA UploadItemType ==
  ASSUME OneRun, TypeInv, NEW r \in Runs, UploadItem(r)
  PROVE  TypeInv'
<1>1. /\ RestOk' /\ run[r].at = "upload" /\ Sent(r, Len(drive'))
      /\ Len(drive) < MaxNodes /\ drive' = Append(drive, NewFile(r))
  BY Parts, RestStays DEF UploadItem, At
<1>2. /\ run[r].item \in Items /\ DriveOk' /\ Grows /\ FilesInv'
      /\ Len(drive') \in 1 .. Len(drive') /\ Len(drive') \in 0 .. MaxNodes
      /\ drive'[Len(drive')].name = run[r].item
  BY <1>1, UploadsDrive
<1> QED
  BY <1>1, <1>2, SentType

LEMMA UpdateItemFailsType ==
  ASSUME OneRun, TypeInv, NEW r \in Runs, UpdateItemFails(r)
  PROVE  TypeInv'
<1> DEFINE q == [run[r] EXCEPT !.at = "upload"]
<1>1. PICK n : n = run[r].mem.items[run[r].item].node
  OBVIOUS
<1>2. /\ RestOk' /\ run[r].at = "put" /\ Go(r, q) /\ UNCHANGED state
      /\ \/ PutsVersion(n, Content(r))
         \/ UNCHANGED drive
  BY <1>1, Parts, RestStays DEF UpdateItemFails, At, PutsVersion
<1>3. DriveOk' /\ Grows /\ FilesInv'
  <2>1. CASE UNCHANGED drive
    BY <2>1, Parts, DriveStays
  <2>2. CASE PutsVersion(n, Content(r))
    BY <1>1, <1>2, <2>2, UpdatesDrive
  <2> QED
    BY <1>2, <2>1, <2>2
<1>4. /\ q \in Run /\ q.at = "upload" /\ q.mem = run[r].mem /\ q.cat = run[r].cat
      /\ q.todo = run[r].todo /\ q.item = run[r].item /\ q.data = run[r].data
  BY Parts DEF Run
<1>5. PushOk(run[r], state[Home[r]])
  BY Parts
<1> HIDE DEF q
<1>6. PushOk(q, state[Home[r]]) /\ q.at \notin Restoring
  BY <1>2, <1>4, <1>5 DEF PushOk, Pushing, Begun, Restoring
<1> QED
  BY <1>2, <1>3, <1>4, <1>6, FailsType

LEMMA UploadItemFailsType ==
  ASSUME OneRun, TypeInv, NEW r \in Runs, UploadItemFails(r)
  PROVE  TypeInv'
<1> DEFINE q == [run[r] EXCEPT !.at = "items", !.item = None, !.data = Nothing]
<1>2. /\ RestOk' /\ run[r].at = "upload" /\ Go(r, q) /\ UNCHANGED state
      /\ \/ Len(drive) < MaxNodes /\ drive' = Append(drive, NewFile(r))
         \/ UNCHANGED drive
  BY Parts, RestStays DEF UploadItemFails, At
<1>3. DriveOk' /\ Grows /\ FilesInv'
  <2>1. CASE UNCHANGED drive
    BY <2>1, Parts, DriveStays
  <2>2. CASE Len(drive) < MaxNodes /\ drive' = Append(drive, NewFile(r))
    BY <1>2, <2>2, UploadsDrive
  <2> QED
    BY <1>2, <2>1, <2>2
<1>4. /\ q \in Run /\ q.at = "items" /\ q.mem = run[r].mem /\ q.cat = run[r].cat
      /\ q.todo = run[r].todo
  BY Parts, Numbers DEF Run
<1>5. PushOk(run[r], state[Home[r]])
  BY Parts
<1> HIDE DEF q
<1>6. PushOk(q, state[Home[r]]) /\ q.at \notin Restoring
  BY <1>2, <1>4, <1>5 DEF PushOk, Pushing, Begun, Restoring
<1> QED
  BY <1>2, <1>3, <1>4, <1>6, FailsType

LEMMA MergeType ==
  ASSUME NEW cat \in Catalog, NEW gone \in SUBSET Items, NEW l \in Index
  PROVE  mergeIndex(cat, gone, l) \in Index /\ mergeIndex(cat, gone, l).deleted \subseteq l.deleted \cup gone
BY Numbers DEF mergeIndex, Index, Catalog

\* The index of the Drive, as ReadIndex finds it.
Remote(s) == IF s.index = 0 THEN NoIndex ELSE drive[s.index].list

LEMMA RemoteType ==
  ASSUME TypeInv, NEW r \in Runs
  PROVE  /\ Remote(state[Home[r]]) \in Index
         /\ \/ Remote(state[Home[r]]) = NoIndex
            \/ \E k \in 1 .. Len(drive) : Remote(state[Home[r]]) = drive[k].list
<1>1. DriveOk /\ LinksOk(state[Home[r]])
  BY Parts
<1>2. CASE state[Home[r]].index = 0
  BY <1>2, IndexType DEF Remote
<1>3. CASE state[Home[r]].index # 0
  <2>1. state[Home[r]].index \in 1 .. Len(drive)
    BY <1>1, <1>3 DEF LinksOk, LinksIn
  <2> QED
    BY <1>1, <1>3, <2>1, NodeFields DEF Remote
<1> QED
  BY <1>2, <1>3

localDeleted(s, cat) == {i \in Items : s.items[i] # NoLink /\ cat[i] = 0}

LEMMA ReadIndexType ==
  ASSUME OneRun, TypeInv, NEW r \in Runs, ReadIndex(r)
  PROVE  TypeInv'
<1> DEFINE s == state[Home[r]]
           list == mergeIndex(run[r].cat, localDeleted(s, run[r].cat), Remote(s))
           q == [run[r] EXCEPT !.at = IF s.index = 0 THEN "uploadIndex" ELSE "index",
                               !.list = list]
<1>1. /\ RestOk' /\ run[r].at = "items" /\ run[r].at \in Pushing /\ UNCHANGED <<state, drive>>
      /\ Go(r, Idle) \/ Go(r, q)
  BY Parts, RestStays DEF ReadIndex, At, Pushing, Remote, localDeleted
<1>2. CASE Go(r, Idle)
  BY <1>1, <1>2, Parts, IdleType, IdleOk, GoesType
<1>3. CASE Go(r, q)
  <2>1. /\ run[r] \in Run /\ run[r].cat \in Catalog /\ Remote(s) \in Index
        /\ localDeleted(s, run[r].cat) \in SUBSET Items
    BY Parts, RunFields, RemoteType DEF localDeleted
  <2>2. list \in Index
    BY <2>1, MergeType
  <2> HIDE DEF list
  <2>3. /\ q \in Run /\ q.at = (IF s.index = 0 THEN "uploadIndex" ELSE "index")
        /\ q.mem = run[r].mem /\ q.cat = run[r].cat /\ q.todo = run[r].todo
    BY <2>1, <2>2 DEF Run
  <2>4. PushOk(run[r], s)
    BY Parts
  <2> HIDE DEF q
  <2>5. PushOk(q, s) /\ RestoreOk(q)
    BY <1>1, <2>3, <2>4 DEF PushOk, RestoreOk, Pushing, Begun, Restoring
  <2> QED
    BY <1>1, <1>3, <2>3, <2>5, GoesType
<1> QED
  BY <1>1, <1>2, <1>3

\* The index a run writes over, or creates.
LEMMA PutsIndex ==
  ASSUME TypeInv, NEW r \in Runs, run[r].at = "index", NEW n, n = state[Home[r]].index,
         PutsList(n, run[r].list)
  PROVE  /\ n \in 1 .. Len(drive) /\ n \in 0 .. MaxNodes /\ drive[n].name = "index"
         /\ DriveOk' /\ Grows /\ FilesInv' /\ Len(drive') = Len(drive)
         /\ \A j \in 1 .. Len(drive) : j # n => drive'[j] = drive[j]
         /\ drive'[n].name = drive[n].name /\ drive'[n].kept = drive[n].kept
         /\ drive'[n].now = drive[n].now /\ drive'[n].list = run[r].list
<1>1. n \in 1 .. Len(drive) /\ drive[n].name = "index"
  BY PushFields DEF Pushing, IsFile
<1>2. DriveOk /\ FilesInv /\ run[r].list \in Index /\ n \in 0 .. MaxNodes
  BY Parts, RunFields, StateFields
<1> QED
  BY <1>1, <1>2, NewList

LEMMA UploadsIndex ==
  ASSUME TypeInv, NEW r \in Runs, run[r].at = "uploadIndex", Len(drive) < MaxNodes,
         drive' = Append(drive, NewIndex(r))
  PROVE  /\ NewIndex(r).list = run[r].list /\ NewIndex(r).now = 0 /\ NewIndex(r).name = "index"
         /\ DriveOk' /\ Grows /\ FilesInv'
         /\ Len(drive') = Len(drive) + 1 /\ drive'[Len(drive) + 1] = NewIndex(r)
         /\ Len(drive') \in 1 .. Len(drive') /\ Len(drive') \in 0 .. MaxNodes
         /\ \A k \in 1 .. Len(drive) : drive'[k] = drive[k]
         /\ drive'[Len(drive')].name = "index"
<1>1. run[r].mem.folder # None
  BY PushFields DEF Pushing, Begun
<1>2. run[r].mem.folder \in Folders /\ run[r].list \in Index
  BY <1>1, Parts, RunFields, StateFields
<1>3. /\ NewIndex(r) \in Node /\ NewIndex(r).name = "index" /\ NewIndex(r).list = run[r].list
      /\ NewIndex(r).now = 0 /\ "index" \notin Items
  BY <1>2, Numbers, DriveSyncAssumption DEF NewIndex, Node
<1>4. DriveOk /\ FilesInv
  BY Parts
<1>5. /\ DriveOk' /\ Grows /\ FilesInv'
      /\ Len(drive') = Len(drive) + 1 /\ drive'[Len(drive) + 1] = NewIndex(r)
      /\ Len(drive') \in 1 .. Len(drive') /\ Len(drive') \in 0 .. MaxNodes
      /\ \A k \in 1 .. Len(drive) : drive'[k] = drive[k]
  BY <1>3, <1>4, DriveAdds
<1> QED
  BY <1>3, <1>5

LEMMA IndexedType ==
  ASSUME OneRun, TypeInv, NEW r \in Runs, NEW n \in 0 .. MaxNodes, Indexed(r, n), Go(r, Idle),
         n \in 1 .. Len(drive'), drive'[n].name = "index", DriveOk', Grows, FilesInv', RestOk'
  PROVE  TypeInv'
<1> DEFINE s == state[Home[r]]
           t == [s EXCEPT !.index = n, !.indexed = run[r].cat]
<1>1. DriveOk /\ s \in SyncState /\ LinksOk(s) /\ run[r].cat \in Catalog \cup {None}
  BY Parts, RunFields
<1>2. t \in SyncState /\ t.items = s.items /\ t.index = n
  <2> DEFINE cat == run[r].cat
  <2>1. s \in SyncState /\ cat \in Catalog \cup {None}
    BY <1>1
  <2>2. t = [s EXCEPT !.index = n, !.indexed = cat]
    OBVIOUS
  <2> HIDE DEF s, cat, t
  <2> QED
    BY <2>1, <2>2 DEF SyncState
<1>3. state' = [state EXCEPT ![Home[r]] = t]
  BY DEF Indexed, Set
<1> HIDE DEF t
<1>4. LinksIn(t, drive')
  <2>1. LinksIn(s, drive')
    BY <1>1, LinksStay
  <2> QED
    BY <1>2, <2>1 DEF LinksIn
<1> QED
  BY <1>2, <1>3, <1>4, IdleType, IdleOk, SendsType DEF Restoring

LEMMA PutIndexType ==
  ASSUME OneRun, TypeInv, NEW r \in Runs, PutIndex(r)
  PROVE  TypeInv'
<1>1. PICK n : n = state[Home[r]].index
  OBVIOUS
<1>2. /\ RestOk' /\ run[r].at = "index" /\ Indexed(r, n) /\ Go(r, Idle)
      /\ PutsList(n, run[r].list)
  BY <1>1, Parts, RestStays DEF PutIndex, At, PutsList
<1>3. /\ n \in 1 .. Len(drive') /\ n \in 0 .. MaxNodes /\ drive'[n].name = "index"
      /\ DriveOk' /\ Grows /\ FilesInv'
  BY <1>1, <1>2, PutsIndex
<1> QED
  BY <1>2, <1>3, IndexedType

LEMMA UploadIndexType ==
  ASSUME OneRun, TypeInv, NEW r \in Runs, UploadIndex(r)
  PROVE  TypeInv'
<1>1. /\ RestOk' /\ run[r].at = "uploadIndex" /\ Indexed(r, Len(drive')) /\ Go(r, Idle)
      /\ Len(drive) < MaxNodes /\ drive' = Append(drive, NewIndex(r))
  BY Parts, RestStays DEF UploadIndex, At
<1>2. /\ DriveOk' /\ Grows /\ FilesInv'
      /\ Len(drive') \in 1 .. Len(drive') /\ Len(drive') \in 0 .. MaxNodes
      /\ drive'[Len(drive')].name = "index"
  BY <1>1, UploadsIndex
<1> QED
  BY <1>1, <1>2, IndexedType

LEMMA PutIndexFailsType ==
  ASSUME OneRun, TypeInv, NEW r \in Runs, PutIndexFails(r)
  PROVE  TypeInv'
<1> DEFINE q == [run[r] EXCEPT !.at = "uploadIndex"]
<1>1. PICK n : n = state[Home[r]].index
  OBVIOUS
<1>2. /\ RestOk' /\ run[r].at = "index" /\ Go(r, q) /\ UNCHANGED state
      /\ \/ PutsList(n, run[r].list)
         \/ UNCHANGED drive
  BY <1>1, Parts, RestStays DEF PutIndexFails, At, PutsList
<1>3. DriveOk' /\ Grows /\ FilesInv'
  <2>1. CASE UNCHANGED drive
    BY <2>1, Parts, DriveStays
  <2>2. CASE PutsList(n, run[r].list)
    BY <1>1, <1>2, <2>2, PutsIndex
  <2> QED
    BY <1>2, <2>1, <2>2
<1>4. /\ q \in Run /\ q.at = "uploadIndex" /\ q.mem = run[r].mem /\ q.cat = run[r].cat
      /\ q.todo = run[r].todo
  BY Parts DEF Run
<1>5. PushOk(run[r], state[Home[r]])
  BY Parts
<1> HIDE DEF q
<1>6. PushOk(q, state[Home[r]]) /\ q.at \notin Restoring
  BY <1>2, <1>4, <1>5 DEF PushOk, Pushing, Begun, Restoring
<1> QED
  BY <1>2, <1>3, <1>4, <1>6, FailsType

-----------------------------------------------------------------------------
(* The steps of a restoration, and the others.                             *)

LEMMA CloseType ==
  ASSUME OneRun, TypeInv, NEW r \in Runs, Close(r)
  PROVE  TypeInv'
<1>1. RestOk' /\ UNCHANGED <<state, drive>> /\ Go(r, Idle)
  BY Parts, RestStays DEF Close
<1> QED
  BY <1>1, Parts, IdleType, IdleOk, GoesType

\* A listing that is not empty, of the files there are.
LEMMA ListedFile ==
  ASSUME DriveOk, NEW f, NEW n \in Nat, n <= Len(drive), NEW name, Listed(f, n, name) # {}
  PROVE  /\ First(Listed(f, n, name)) \in 1 .. Len(drive)
         /\ Last(Listed(f, n, name)) \in 1 .. Len(drive)
         /\ First(Listed(f, n, name)) \in 0 .. MaxNodes /\ Last(Listed(f, n, name)) \in 0 .. MaxNodes
         /\ drive[First(Listed(f, n, name))].name = name
         /\ drive[Last(Listed(f, n, name))].name = name
<1>1. /\ First(Listed(f, n, name)) \in Listed(f, n, name)
      /\ Last(Listed(f, n, name)) \in Listed(f, n, name)
  BY ListedChosen
<1>2. Len(drive) \in Nat /\ \A k \in 1 .. n : k \in 1 .. Len(drive)
  BY DEF DriveOk
<1> QED
  BY <1>1, <1>2, NodeFields DEF Listed

LEMMA ProbeType ==
  ASSUME OneRun, TypeInv, NEW r \in Runs, Probe(r)
  PROVE  TypeInv'
<1> DEFINE s == state[Home[r]]
           candidates == IF s.folder # None /\ Live(s.folder) THEN {s.folder}
                         ELSE {f \in Folders : Live(f)}
<1>1. /\ RestOk' /\ run[r].at = "idle" /\ UNCHANGED drive
      /\ DriveOk /\ s \in SyncState /\ LinksOk(s) /\ run[r] \in Run
  BY Parts, RestStays DEF Probe, At
<1>2. candidates \subseteq Folders
  BY <1>1, StateFields
<1>3. ASSUME NEW f \in candidates, Listed(f, Len(drive), "index") # {}, UNCHANGED state,
             Go(r, [Idle EXCEPT !.at = "ask", !.folder = f, !.seen = Len(drive),
                      !.list = drive[First(Listed(f, Len(drive), "index"))].list])
      PROVE  TypeInv'
  <2> DEFINE l == drive[First(Listed(f, Len(drive), "index"))].list
             q == [Idle EXCEPT !.at = "ask", !.folder = f, !.seen = Len(drive), !.list = l]
  <2>1. f \in Folders /\ f # None /\ Len(drive) \in Nat /\ Len(drive) \in 0 .. MaxNodes
    BY <1>1, <1>2, DriveSyncAssumption DEF DriveOk
  <2>2. l \in Index
    BY <1>1, <1>3, <2>1, ListedFile, NodeFields
  <2>3. Go(r, q)
    BY <1>3
  <2> HIDE DEF l, candidates
  <2>4. q \in Run /\ q.at = "ask" /\ q.folder = f /\ q.seen = Len(drive)
    BY <2>1, <2>2, IdleType DEF Run
  <2> HIDE DEF q
  <2>5. PushOk(q, s) /\ RestoreOk(q)
    BY <1>3, <2>1, <2>4 DEF PushOk, RestoreOk, Pushing
  <2> QED
    BY <1>1, <1>3, <2>3, <2>4, <2>5, GoesType
<1>4. ASSUME NEW f \in Folders \cup {None}, Set(Home[r], [s EXCEPT !.ready = TRUE, !.folder = f]),
             UNCHANGED run
      PROVE  TypeInv'
  <2> DEFINE t == [s EXCEPT !.ready = TRUE, !.folder = f]
  <2>1. t \in SyncState /\ t.items = s.items /\ t.index = s.index
    BY <1>1, WithReady
  <2>2. Set(Home[r], t) /\ Go(r, run[r])
    BY <1>4, Parts DEF Go
  <2> HIDE DEF t
  <2>3. LinksOk(t) /\ PushOk(run[r], t) /\ RestoreOk(run[r])
    BY <1>1, <2>1 DEF LinksOk, LinksIn, PushOk, RestoreOk, Pushing, Restoring
  <2> QED
    BY <1>1, <2>1, <2>2, <2>3, SetsType
<1>5. \/ \E f \in candidates :
           /\ Listed(f, Len(drive), "index") # {} /\ UNCHANGED state
           /\ Go(r, [Idle EXCEPT !.at = "ask", !.folder = f, !.seen = Len(drive),
                       !.list = drive[First(Listed(f, Len(drive), "index"))].list])
      \/ \E f \in (IF candidates = {} THEN {s.folder} ELSE candidates) :
           Set(Home[r], [s EXCEPT !.ready = TRUE, !.folder = f]) /\ UNCHANGED run
  BY DEF Probe
<1>6. (IF candidates = {} THEN {s.folder} ELSE candidates) \subseteq Folders \cup {None}
  BY <1>1, <1>2, StateFields
<1> HIDE DEF candidates
<1> QED
  BY <1>3, <1>4, <1>5, <1>6

LEMMA StartFreshType ==
  ASSUME OneRun, TypeInv, NEW r \in Runs, startFresh(r)
  PROVE  TypeInv'
<1> DEFINE s == state[Home[r]]
           t == [s EXCEPT !.ready = TRUE, !.folder = run[r].folder]
<1>1. /\ RestOk' /\ UNCHANGED drive /\ s \in SyncState /\ LinksOk(s)
      /\ run[r].folder \in Folders \cup {None}
  BY Parts, RestStays, RunFields DEF startFresh
<1>2. t \in SyncState /\ t.items = s.items /\ t.index = s.index
  BY <1>1, WithReady
<1>3. Set(Home[r], t) /\ Go(r, Idle)
  BY DEF startFresh
<1> HIDE DEF t
<1>4. LinksOk(t)
  BY <1>1, <1>2 DEF LinksOk, LinksIn
<1> QED
  BY <1>1, <1>2, <1>3, <1>4, IdleType, IdleOk, SetsType

\* The files of the items that are found.
LEMMA FoundFile ==
  ASSUME DriveOk, FilesInv, NEW f, NEW n \in Nat, n <= Len(drive), NEW i \in Items,
         Listed(f, n, i) # {}
  PROVE  /\ FileOf(f, n, i) \in 1 .. Len(drive) /\ FileOf(f, n, i) \in 0 .. MaxNodes
         /\ drive[FileOf(f, n, i)].name = i
         /\ drive[FileOf(f, n, i)].now \in Stamp \ {0} /\ Saved(i, drive[FileOf(f, n, i)].now)
<1>1. /\ FileOf(f, n, i) \in 1 .. Len(drive) /\ FileOf(f, n, i) \in 0 .. MaxNodes
      /\ drive[FileOf(f, n, i)].name = i
  BY ListedFile DEF FileOf
<1>2. /\ drive[FileOf(f, n, i)].now \in drive[FileOf(f, n, i)].kept
      /\ drive[FileOf(f, n, i)].now # 0 /\ drive[FileOf(f, n, i)].now \in Stamp
  BY <1>1, NodeFields DEF FilesInv
<1> QED
  BY <1>1, <1>2 DEF Saved

LEMMA ChooseType ==
  ASSUME OneRun, TypeInv, NEW r \in Runs, NEW choice, Choose(r, choice)
  PROVE  TypeInv'
<1> DEFINE q == run[r]
           here == Held(Home[r])
           found == Found(q.folder, q.seen, q.list)
           todo == IF choice = "replace" THEN found ELSE found \ here
           old == IF choice = "skip" THEN found \cap here ELSE {}
           data == [i \in Items |-> IF i \in todo THEN drive[FileOf(q.folder, q.seen, i)].now ELSE 0]
           t == [q EXCEPT !.at = "write", !.todo = todo, !.old = old, !.data = data]
<1>1. /\ RestOk' /\ q.at = "ask" /\ UNCHANGED <<state, drive>> /\ Go(r, t)
      /\ DriveOk /\ FilesInv /\ q \in Run /\ RestoreOk(q)
  BY Parts, RestStays DEF Choose, At
<1>2. /\ q.folder # None /\ q.seen <= Len(drive) /\ q.seen \in Nat
      /\ Listed(q.folder, q.seen, "index") # {}
  BY <1>1, RunFields, Numbers DEF RestoreOk, Restoring
<1>3. found \subseteq Items /\ \A i \in found : Listed(q.folder, q.seen, i) # {}
  BY DEF Found, Orphans
<1> HIDE DEF found
<1>4. todo \subseteq found /\ old \subseteq found
  OBVIOUS
<1>5. \A i \in todo : data[i] \in Stamp \ {0} /\ Saved(i, data[i])
  BY <1>1, <1>2, <1>3, <1>4, FoundFile
<1>6. data \in Catalog
  BY <1>3, <1>4, <1>5, Numbers DEF Catalog
<1> HIDE DEF data, todo, old
<1>7. /\ t \in Run /\ t.at = "write" /\ t.todo = todo /\ t.old = old /\ t.data = data
      /\ t.folder = q.folder /\ t.seen = q.seen
  BY <1>1, <1>3, <1>4, <1>6 DEF Run
<1> HIDE DEF t
<1>8. PushOk(t, state[Home[r]]) /\ RestoreOk(t)
  BY <1>2, <1>3, <1>4, <1>5, <1>7 DEF PushOk, RestoreOk, Pushing
<1> QED
  BY <1>1, <1>7, <1>8, GoesType

LEMMA StampType ==
  ASSUME NEW q \in Run, NEW i \in Items
  PROVE  StampOf(q, i) \in Stamp /\ (q.data[i] # 0 => StampOf(q, i) # 0)
<1>1. q.list \in Index /\ q.data \in Catalog
  BY RunFields
<1> QED
  BY <1>1 DEF StampOf, Index, Catalog

LEMMA WriteItemsType ==
  ASSUME OneRun, TypeInv, NEW r \in Runs, WriteItems(r)
  PROVE  TypeInv'
<1> DEFINE q == run[r]
           t == [q EXCEPT !.at = "link"]
           d == Home[r]
<1>1. PICK bad \in SUBSET q.todo :
        /\ IF bad = {} THEN UNCHANGED faults ELSE Fail
        /\ disk' = [disk EXCEPT ![d] = [i \in Items |->
             IF i \in q.todo \ bad THEN [bytes |-> q.data[i], stamp |-> StampOf(q, i)] ELSE @[i]]]
        /\ past' = [past EXCEPT !.lost = @ \cup (bad \ Held(d)),
                                !.unwritten[d] = (@ \ q.todo) \cup (bad \cap Held(d))]
  BY DEF WriteItems
<1>2. /\ q.at = "write" /\ Go(r, t) /\ UNCHANGED <<state, folders, drive, clock, turns>>
      /\ q \in Run /\ RestoreOk(q) /\ RestOk /\ d \in Devices /\ q.data \in Catalog
      /\ q.todo \subseteq Items
  BY Parts, RunFields DEF WriteItems, At
<1>3. RestOk'
  <2> DEFINE new == [i \in Items |-> IF i \in q.todo \ bad
                                      THEN [bytes |-> q.data[i], stamp |-> StampOf(q, i)]
                                      ELSE disk[d][i]]
  <2>1. \A i \in Items : [bytes |-> q.data[i], stamp |-> StampOf(q, i)] \in [bytes : Stamp, stamp : Stamp]
    BY <1>2, StampType DEF Catalog
  <2>2. disk[d] \in [Items -> [bytes : Stamp, stamp : Stamp]]
    BY <1>2 DEF RestOk
  <2>3. new \in [Items -> [bytes : Stamp, stamp : Stamp]]
    BY <2>1, <2>2
  <2>4. disk' = [disk EXCEPT ![d] = new]
    BY <1>1
  <2> HIDE DEF new
  <2>5. disk' \in [Devices -> [Items -> [bytes : Stamp, stamp : Stamp]]]
    BY <1>2, <2>3, <2>4 DEF RestOk
  <2>6. past' \in Past
    <3>1. bad \subseteq Items
      BY <1>2
    <3> QED
      BY <1>1, <1>2, <3>1 DEF RestOk, Past
  <2>7. faults' \in 0 .. MaxFaults
    BY <1>1, <1>2, DriveSyncAssumption DEF RestOk, Fail
  <2> QED
    BY <1>2, <2>5, <2>6, <2>7 DEF RestOk
<1>4. /\ t \in Run /\ t.at = "link" /\ t.todo = q.todo /\ t.old = q.old /\ t.data = q.data
      /\ t.folder = q.folder /\ t.seen = q.seen
  BY <1>2 DEF Run
<1> HIDE DEF t
<1>5. PushOk(t, state[d]) /\ RestoreOk(t)
  BY <1>2, <1>4 DEF PushOk, RestoreOk, Pushing, Restoring
<1> QED
  BY <1>2, <1>3, <1>4, <1>5, GoesType

\* What LinkItems makes of the state.
Relinked(q, s) ==
  [i \in Items |-> IF i \in q.todo \cup q.old
                   THEN [node |-> FileOf(q.folder, q.seen, i),
                         sig |-> IF i \in q.todo THEN StampOf(q, i) ELSE 0]
                   ELSE s.items[i]]

LEMMA LinksItems ==
  ASSUME TypeInv, NEW r \in Runs, LinkItems(r)
  PROVE  \E t \in SyncState :
           /\ Set(Home[r], t) /\ t.items = Relinked(run[r], state[Home[r]]) /\ LinksOk(t)
           /\ \A i \in run[r].todo \cup run[r].old : t.items[i].node # 0
           /\ run[r].at = "link" /\ RestOk' /\ Go(r, Idle) /\ UNCHANGED <<disk, drive, past, clock>>
<1> DEFINE q == run[r]
           s == state[Home[r]]
           n == Last(Listed(q.folder, q.seen, "index"))
           links == Relinked(q, s)
           t == [s EXCEPT !.ready = TRUE, !.folder = q.folder, !.items = links,
                          !.index = n, !.indexed = None]
<1>1. /\ RestOk' /\ q.at = "link" /\ UNCHANGED <<disk, drive, past, clock>> /\ Go(r, Idle)
      /\ DriveOk /\ FilesInv /\ q \in Run /\ RestoreOk(q) /\ s \in SyncState /\ LinksOk(s)
  BY Parts, RestStays DEF LinkItems, At
<1>2. Set(Home[r], t)
  BY DEF LinkItems, Relinked
<1>3. /\ q.folder \in Folders \cup {None} /\ q.seen <= Len(drive) /\ q.seen \in Nat
      /\ Listed(q.folder, q.seen, "index") # {}
      /\ q.todo \subseteq Items /\ q.old \subseteq Items
      /\ \A i \in q.todo \cup q.old : Listed(q.folder, q.seen, i) # {}
  BY <1>1, RunFields, Numbers DEF RestoreOk, Restoring
<1>4. n \in 1 .. Len(drive) /\ n \in 0 .. MaxNodes /\ drive[n].name = "index"
  BY <1>1, <1>3, ListedFile
<1>5. \A i \in q.todo \cup q.old :
        /\ FileOf(q.folder, q.seen, i) \in 1 .. Len(drive)
        /\ FileOf(q.folder, q.seen, i) \in 0 .. MaxNodes /\ FileOf(q.folder, q.seen, i) # 0
        /\ drive[FileOf(q.folder, q.seen, i)].name = i
  BY <1>1, <1>3, FoundFile, NodeFields
<1>6. \A i \in Items : StampOf(q, i) \in Stamp /\ 0 \in Stamp
  BY <1>1, StampType, Numbers
<1>7. s.items \in [Items -> Link]
  BY <1>1, StateFields
<1>8. links \in [Items -> Link]
  BY <1>5, <1>6, <1>7, LinkType DEF Relinked
<1>9. /\ \A i \in q.todo \cup q.old : links[i].node = FileOf(q.folder, q.seen, i)
      /\ \A i \in Items : i \notin q.todo \cup q.old => links[i] = s.items[i]
  BY <1>3 DEF Relinked
<1> HIDE DEF n, links
<1>10. t \in SyncState /\ t.items = links /\ t.index = n
  BY <1>1, <1>3, <1>4, <1>8 DEF SyncState
<1> HIDE DEF t
<1>11. LinksOk(t)
  <2>1. ASSUME NEW i \in Items, t.items[i].node # 0
        PROVE  t.items[i].node \in 1 .. Len(drive) /\ drive[t.items[i].node].name = i
    <3>1. CASE i \in q.todo \cup q.old
      BY <1>5, <1>9, <1>10, <3>1
    <3>2. CASE i \notin q.todo \cup q.old
      BY <1>1, <1>9, <1>10, <2>1, <3>2 DEF LinksOk, LinksIn
    <3> QED
      BY <3>1, <3>2
  <2> QED
    BY <1>4, <1>10, <2>1 DEF LinksOk, LinksIn
<1>12. \A i \in q.todo \cup q.old : t.items[i].node # 0
  BY <1>5, <1>9, <1>10
<1> QED
  BY <1>1, <1>2, <1>10, <1>11, <1>12 DEF links

LEMMA LinkItemsType ==
  ASSUME OneRun, TypeInv, NEW r \in Runs, LinkItems(r)
  PROVE  TypeInv'
<1>1. PICK t \in SyncState :
        Set(Home[r], t) /\ LinksOk(t) /\ RestOk' /\ Go(r, Idle) /\ UNCHANGED drive
  BY LinksItems
<1> QED
  BY <1>1, IdleType, IdleOk, SetsType

\* What neither a run nor the Drive takes part in.
LEMMA AsideType ==
  ASSUME TypeInv, RestOk', UNCHANGED <<state, drive, run>>
  PROVE  TypeInv'
<1>1. LinksInv' /\ FilesInv'
  BY DEF TypeInv, LinksInv, LinksOk, LinksIn, FilesInv
<1>2. RunsInv'
  BY DEF TypeInv, RunsInv, RestoreOk, Listed, Saved
<1> QED
  BY <1>1, <1>2 DEF TypeInv, TypeOK, RestOk

LEMMA EditType ==
  ASSUME TypeInv, NEW d \in Devices, NEW i \in Items, Edit(d, i)
  PROVE  TypeInv' /\ clock' = clock + 1 /\ clock' \in Stamp
<1>1. RestOk
  BY DEF TypeInv, TypeOK, RestOk
<1>2. clock' \in Stamp
  BY <1>1, DriveSyncAssumption DEF Edit, RestOk, Stamp
<1>3. [bytes |-> clock', stamp |-> clock'] \in [bytes : Stamp, stamp : Stamp]
  BY <1>2
<1>4. disk' = [disk EXCEPT ![d][i] = [bytes |-> clock', stamp |-> clock']]
  BY DEF Edit
<1>5. disk' \in [Devices -> [Items -> [bytes : Stamp, stamp : Stamp]]]
  BY <1>1, <1>3, <1>4 DEF RestOk
<1>6. past' \in Past
  BY <1>1 DEF RestOk, Edit, Past
<1>7. RestOk'
  BY <1>1, <1>2, <1>5, <1>6 DEF RestOk, Edit
<1> QED
  BY <1>2, <1>7, AsideType DEF Edit

LEMMA EraseItemType ==
  ASSUME TypeInv, NEW d \in Devices, NEW i \in Items, EraseItem(d, i)
  PROVE  TypeInv'
<1>1. RestOk
  BY DEF TypeInv, TypeOK, RestOk
<1>2. NoItem \in [bytes : Stamp, stamp : Stamp]
  BY Numbers DEF NoItem
<1>3. disk' \in [Devices -> [Items -> [bytes : Stamp, stamp : Stamp]]]
  BY <1>1, <1>2 DEF RestOk, EraseItem
<1>4. past' \in Past
  BY <1>1 DEF RestOk, EraseItem, Past
<1>5. RestOk'
  BY <1>1, <1>3, <1>4 DEF RestOk, EraseItem
<1> QED
  BY <1>5, AsideType DEF EraseItem

LEMMA LoseFolderType ==
  ASSUME TypeInv, NEW f \in Folders, LoseFolder(f)
  PROVE  TypeInv'
<1>1. RestOk
  BY DEF TypeInv, TypeOK, RestOk
<1>2. RestOk'
  BY <1>1, DriveSyncAssumption DEF LoseFolder, RestOk
<1> QED
  BY <1>2, AsideType DEF LoseFolder

LEMMA WipeType ==
  ASSUME TypeInv, NEW d \in Devices, Wipe(d)
  PROVE  TypeInv'
<1>1. RestOk /\ state \in [Devices -> SyncState] /\ run \in [Runs -> Run]
  BY DEF TypeInv, TypeOK, RestOk
<1>2. disk' \in [Devices -> [Items -> [bytes : Stamp, stamp : Stamp]]]
  <2>1. [i \in Items |-> NoItem] \in [Items -> [bytes : Stamp, stamp : Stamp]]
    BY Numbers DEF NoItem
  <2> QED
    BY <1>1, <2>1 DEF Wipe, RestOk
<1>3. past' \in Past
  <2>1. Held(d) \subseteq Items
    BY DEF Held
  <2> QED
    BY <1>1, <2>1 DEF Wipe, RestOk, Past
<1>4. RestOk'
  BY <1>1, <1>2, <1>3, DriveSyncAssumption DEF Wipe, RestOk
<1>5. CASE UNCHANGED <<state, run>>
  BY <1>4, <1>5, AsideType DEF Wipe
<1>6. CASE /\ state' = [state EXCEPT ![d] = emptyState]
           /\ run' = [r \in Runs |-> IF Home[r] = d THEN Idle ELSE run[r]]
  <2>1. state' \in [Devices -> SyncState] /\ run' \in [Runs -> Run] /\ UNCHANGED drive
    BY <1>1, <1>6, EmptyState, IdleType DEF Wipe
  <2>2. LinksInv' /\ FilesInv'
    <3>1. ASSUME NEW e \in Devices PROVE LinksIn(state'[e], drive)
      <4>1. state'[e] = IF e = d THEN emptyState ELSE state[e]
        BY <1>1, <1>6
      <4>2. LinksIn(emptyState, drive) /\ LinksIn(state[e], drive)
        BY EmptyState DEF TypeInv, LinksInv, LinksOk, LinksIn
      <4> QED
        BY <4>1, <4>2
    <3> QED
      BY <2>1, <3>1 DEF TypeInv, LinksInv, LinksOk, LinksIn, FilesInv
  <2>3. RunsInv'
    <3>1. ASSUME NEW r \in Runs
          PROVE  PushOk(run[r], state[Home[r]])' /\ RestoreOk(run[r])'
      <4>1. CASE Home[r] = d
        <5>1. run'[r] = Idle
          BY <1>6, <4>1
        <5> QED
          BY <5>1, IdleType DEF PushOk, RestoreOk, Pushing, Restoring
      <4>2. CASE Home[r] # d
        <5>1. run'[r] = run[r] /\ state'[Home[r]] = state[Home[r]]
          BY <1>1, <1>6, <4>2, Homes
        <5>2. PushOk(run[r], state[Home[r]]) /\ RestoreOk(run[r])
          BY DEF TypeInv, RunsInv
        <5> QED
          BY <2>1, <5>1, <5>2 DEF RestoreOk, Listed, Saved
      <4> QED
        BY <4>1, <4>2
    <3> QED
      BY <3>1 DEF RunsInv
  <2> QED
    BY <1>4, <2>1, <2>2, <2>3 DEF TypeInv, TypeOK, RestOk, Wipe
<1> QED
  BY <1>5, <1>6 DEF Wipe

LEMMA TypeNext ==
  ASSUME OneRun, TypeInv, [Next]_vars
  PROVE  TypeInv'
<1>1. CASE UNCHANGED vars
  <2>1. RestOk'
    BY <1>1 DEF vars, TypeInv, TypeOK, RestOk
  <2> QED
    BY <1>1, <2>1, AsideType DEF vars
<1>2. ASSUME NEW d \in Devices, User(d) PROVE TypeInv'
  BY <1>2, WipeType, EditType, EraseItemType DEF User
<1>3. ASSUME NEW f \in Folders, LoseFolder(f) PROVE TypeInv'
  BY <1>3, LoseFolderType
<1>4. ASSUME NEW r \in Runs, Push(r) PROVE TypeInv'
  BY <1>4, StartType, CheckType, FindFolderType, CreateFolderType, ReadItemType, UpdateItemType,
     UploadItemType, ReadIndexType, PutIndexType, UploadIndexType DEF Push
<1>5. ASSUME NEW r \in Runs, Reconcile(r) PROVE TypeInv'
  BY <1>5, ProbeType, StartFreshType, ChooseType, WriteItemsType, LinkItemsType DEF Reconcile
<1>6. ASSUME NEW r \in Runs, Failure(r) PROVE TypeInv'
  BY <1>6, UpdateItemFailsType, UploadItemFailsType, PutIndexFailsType, CloseType DEF Failure
<1> QED
  BY <1>1, <1>2, <1>3, <1>4, <1>5, <1>6 DEF Next

\* With one run at a time on each device, however the runs, the user and the failures
\* interleave, every link names a file of its item, and no run works on a state that is
\* not the one of its device: syncOnce, restoreIncremental.
THEOREM TypeCorrect == ASSUME OneRun PROVE Spec => []TypeOK
<1>1. Init => TypeInv
  BY InitType
<1>2. TypeInv /\ [Next]_vars => TypeInv'
  BY TypeNext
<1>3. TypeInv => TypeOK
  BY DEF TypeInv
<1> QED
  BY <1>1, <1>2, <1>3, PTL DEF Spec

-----------------------------------------------------------------------------
(* What may be taken for a deletion: only what the user erased, or a device *)
(* lost.  It is what every list of deletions holds, in the indexes of the   *)
(* Drive and in the runs.                                                   *)

Gone == past.erased \cup past.lost

\* An item that is linked and not there has gone.
KnownState(d) ==
  \A i \in Items : state[d].items[i] # NoLink /\ disk[d][i].stamp = 0 => i \in Gone

KnownRun(r) ==
  LET q == run[r]  d == Home[r]
  IN  /\ q.at \in Pushing => \A i \in Items :
           /\ q.cat[i] = 0 /\ state[d].items[i] # NoLink => i \in Gone
           /\ q.cat[i] # 0 /\ disk[d][i].stamp = 0 => i \in Gone
      /\ q.at \in {"write", "link"} => \A i \in q.old : disk[d][i].stamp # 0 \/ i \in Gone
      /\ q.at = "link" => \A i \in q.todo : disk[d][i].stamp # 0 \/ i \in Gone
      /\ q.list.deleted \subseteq Gone

KnownFiles == \A k \in 1 .. Len(drive) : drive[k].list.deleted \subseteq Gone

KnownInv == /\ \A d \in Devices : KnownState(d)
            /\ \A r \in Runs : KnownRun(r)
            /\ KnownFiles

LEMMA InitKnown == Init => KnownInv
<1> SUFFICES ASSUME Init PROVE KnownInv
  OBVIOUS
<1>1. ASSUME NEW d \in Devices PROVE KnownState(d)
  BY EmptyState DEF Init, KnownState
<1>2. ASSUME NEW r \in Runs PROVE KnownRun(r)
  BY IdleType, IndexType DEF Init, KnownRun, Pushing
<1>3. KnownFiles
  BY DEF Init, KnownFiles
<1> QED
  BY <1>1, <1>2, <1>3 DEF KnownInv

\* A step of the run r.
LEMMA KnownStep ==
  ASSUME OneRun, TypeInv, KnownInv, NEW r \in Runs, Gone \subseteq Gone',
         \A t \in Runs : t # r => run'[t] = run[t],
         \A d \in Devices : d # Home[r] => state'[d] = state[d] /\ disk'[d] = disk[d],
         KnownState(Home[r])', KnownRun(r)', KnownFiles'
  PROVE  KnownInv'
<1>1. ASSUME NEW d \in Devices PROVE KnownState(d)'
  <2>1. CASE d = Home[r]
    BY <2>1
  <2>2. CASE d # Home[r]
    BY <2>2 DEF KnownInv, KnownState
  <2> QED
    BY <2>1, <2>2
<1>2. ASSUME NEW t \in Runs PROVE KnownRun(t)'
  <2>1. CASE t = r
    BY <2>1
  <2>2. CASE t # r
    <3>1. Home[t] # Home[r] /\ Home[t] \in Devices
      BY <2>2, Homes DEF OneRun
    <3>2. /\ run'[t] = run[t] /\ state'[Home[t]] = state[Home[t]] /\ disk'[Home[t]] = disk[Home[t]]
          /\ KnownRun(t)
      BY <2>2, <3>1 DEF KnownInv
    <3> QED
      BY <3>2 DEF KnownRun
  <2> QED
    BY <2>1, <2>2
<1> QED
  BY <1>1, <1>2 DEF KnownInv

\* A step of the run r, which may set its state and change the Drive.
LEMMA KnownSets ==
  ASSUME OneRun, TypeInv, KnownInv, NEW r \in Runs, NEW q \in Run, Go(r, q),
         NEW s \in SyncState, state' = [state EXCEPT ![Home[r]] = s], UNCHANGED <<disk, past>>,
         \A i \in Items : s.items[i] # NoLink /\ disk[Home[r]][i].stamp = 0 => i \in Gone,
         q.at \in Pushing => \A i \in Items :
           /\ q.cat[i] = 0 /\ s.items[i] # NoLink => i \in Gone
           /\ q.cat[i] # 0 /\ disk[Home[r]][i].stamp = 0 => i \in Gone,
         q.at = "write" => \A i \in q.old : disk[Home[r]][i].stamp # 0,
         q.at # "link", q.list.deleted \subseteq Gone, KnownFiles'
  PROVE  KnownInv'
<1>1. /\ state \in [Devices -> SyncState] /\ run \in [Runs -> Run] /\ Home[r] \in Devices
  BY Parts
<1>2. run'[r] = q /\ \A t \in Runs : t # r => run'[t] = run[t]
  BY <1>1, GoStep DEF Go
<1>3. state'[Home[r]] = s /\ \A d \in Devices : d # Home[r] => state'[d] = state[d]
  BY <1>1, SetStep
<1>4. Gone' = Gone
  BY DEF Gone
<1>5. KnownState(Home[r])'
  BY <1>3, <1>4 DEF KnownState
<1>6. KnownRun(r)'
  BY <1>2, <1>3, <1>4 DEF KnownRun
<1> QED
  BY <1>2, <1>3, <1>4, <1>5, <1>6, KnownStep

LEMMA FilesKnown ==
  ASSUME KnownInv, UNCHANGED <<drive, past>>
  PROVE  KnownFiles'
BY DEF KnownInv, KnownFiles, Gone

\* The same, the state being left alone.
LEMMA KnownGoes ==
  ASSUME OneRun, TypeInv, KnownInv, NEW r \in Runs, NEW q \in Run, Go(r, q),
         UNCHANGED <<state, disk, past>>,
         q.at \in Pushing => run[r].at \in Pushing /\ q.cat = run[r].cat,
         q.at = "write" => \A i \in q.old : disk[Home[r]][i].stamp # 0,
         q.at # "link", q.list.deleted \subseteq Gone, KnownFiles'
  PROVE  KnownInv'
<1>1. /\ state \in [Devices -> SyncState] /\ Home[r] \in Devices /\ state[Home[r]] \in SyncState
  BY Parts
<1>2. state' = [state EXCEPT ![Home[r]] = state[Home[r]]]
  BY <1>1
<1>3. /\ \A i \in Items : state[Home[r]].items[i] # NoLink /\ disk[Home[r]][i].stamp = 0 => i \in Gone
      /\ q.at \in Pushing => \A i \in Items :
           /\ q.cat[i] = 0 /\ state[Home[r]].items[i] # NoLink => i \in Gone
           /\ q.cat[i] # 0 /\ disk[Home[r]][i].stamp = 0 => i \in Gone
  BY <1>1 DEF KnownInv, KnownState, KnownRun
<1> QED
  BY <1>1, <1>2, <1>3, KnownSets

LEMMA KnownParts ==
  ASSUME KnownInv, NEW r \in Runs
  PROVE  /\ KnownRun(r) /\ KnownFiles /\ run[r].list.deleted \subseteq Gone
         /\ \A i \in Items :
              state[Home[r]].items[i] # NoLink /\ disk[Home[r]][i].stamp = 0 => i \in Gone
         /\ run[r].at \in Pushing => \A i \in Items :
              /\ run[r].cat[i] = 0 /\ state[Home[r]].items[i] # NoLink => i \in Gone
              /\ run[r].cat[i] # 0 /\ disk[Home[r]][i].stamp = 0 => i \in Gone
BY Homes DEF KnownInv, KnownState, KnownRun

LEMMA StartKnown ==
  ASSUME OneRun, TypeInv, KnownInv, NEW r \in Runs, Start(r)
  PROVE  KnownInv'
<1> DEFINE s == state[Home[r]]
           t == [s EXCEPT !.ready = FALSE]
           q == [Idle EXCEPT !.at = IF s.folder = None THEN "find" ELSE "check",
                             !.cat = catalogOf(Home[r]), !.mem = s]
<1>1. /\ run[r] \in Run /\ Home[r] \in Devices /\ s \in SyncState /\ run[r].at = "idle" /\ RestOk
      /\ state \in [Devices -> SyncState] /\ UNCHANGED <<drive, disk, past>>
  BY Parts DEF Start, At
<1>2. KnownFiles'
  BY <1>1, FilesKnown
<1>3. /\ \A i \in Items : s.items[i] # NoLink /\ disk[Home[r]][i].stamp = 0 => i \in Gone
      /\ run[r].list.deleted \subseteq Gone
  BY KnownParts
<1>4. CASE Held(Home[r]) = {} /\ \E i \in Items : s.items[i] # NoLink
  <2>1. Set(Home[r], t) /\ UNCHANGED run
    BY <1>4 DEF Start
  <2>2. t \in SyncState /\ t.items = s.items
    BY <1>1, WithReady
  <2>3. Go(r, run[r])
    BY <2>1, Parts DEF Go
  <2> HIDE DEF t
  <2>4. /\ \A i \in Items : t.items[i] # NoLink /\ disk[Home[r]][i].stamp = 0 => i \in Gone
        /\ state' = [state EXCEPT ![Home[r]] = t] /\ run[r].at \notin Pushing
        /\ run[r].at # "write" /\ run[r].at # "link"
    BY <1>1, <1>3, <2>1, <2>2 DEF Set, Pushing
  <2> QED
    BY <1>1, <1>2, <1>3, <2>2, <2>3, <2>4, KnownSets
<1>5. CASE ~(Held(Home[r]) = {} /\ \E i \in Items : s.items[i] # NoLink)
  <2>1. Go(r, q) /\ UNCHANGED state
    BY <1>5 DEF Start
  <2>2. catalogOf(Home[r]) \in Catalog /\ \A i \in Items : catalogOf(Home[r])[i] = disk[Home[r]][i].stamp
    BY <1>1 DEF RestOk, catalogOf, Catalog
  <2>3. /\ q \in Run /\ q.at \in {"find", "check"} /\ q.cat = catalogOf(Home[r])
        /\ q.list.deleted = {}
    BY <1>1, <2>2, IdleType, IndexType DEF Run
  <2>4. state' = [state EXCEPT ![Home[r]] = s]
    BY <1>1, <2>1
  <2> HIDE DEF q
  <2>5. /\ \A i \in Items : /\ q.cat[i] = 0 /\ s.items[i] # NoLink => i \in Gone
                            /\ q.cat[i] # 0 /\ disk[Home[r]][i].stamp = 0 => i \in Gone
        /\ q.list.deleted \subseteq Gone /\ q.at # "write" /\ q.at # "link"
    BY <1>3, <2>2, <2>3
  <2>6. Go(r, q)
    BY <2>1
  <2> HIDE DEF s, t
  <2> QED
    BY <1>1, <1>2, <1>3, <2>3, <2>4, <2>5, <2>6, KnownSets
<1> QED
  BY <1>4, <1>5

LEMMA BeginKnown ==
  ASSUME OneRun, TypeInv, KnownInv, NEW r \in Runs, run[r].at \in Pushing, NEW f \in Folders,
         Begin(r, f), UNCHANGED <<disk, drive, past>>
  PROVE  KnownInv'
<1> DEFINE s == [run[r].mem EXCEPT !.folder = f]
           todo == {i \in Items : run[r].cat[i] # 0 /\ s.items[i].sig # run[r].cat[i]}
           q == [run[r] EXCEPT !.at = "items", !.mem = s, !.todo = todo]
<1>1. run[r] \in Run /\ run[r].mem = state[Home[r]] /\ run[r].mem \in SyncState
  BY Parts, PushFields
<1>2. s \in SyncState /\ s.items = state[Home[r]].items
  BY <1>1, WithFolder
<1>3. state' = [state EXCEPT ![Home[r]] = s] /\ Go(r, q)
  BY DEF Begin, Set
<1>4. q \in Run /\ q.at = "items" /\ q.cat = run[r].cat /\ q.list = run[r].list
  BY <1>1, <1>2 DEF Run
<1>5. KnownFiles'
  BY FilesKnown
<1> HIDE DEF q, s
<1>6. /\ \A i \in Items : s.items[i] # NoLink /\ disk[Home[r]][i].stamp = 0 => i \in Gone
      /\ \A i \in Items : /\ q.cat[i] = 0 /\ s.items[i] # NoLink => i \in Gone
                          /\ q.cat[i] # 0 /\ disk[Home[r]][i].stamp = 0 => i \in Gone
      /\ q.list.deleted \subseteq Gone
  BY <1>2, <1>4, KnownParts
<1> QED
  BY <1>2, <1>3, <1>4, <1>5, <1>6, KnownSets

LEMMA FolderKnown ==
  ASSUME OneRun, TypeInv, KnownInv, NEW r \in Runs, Check(r) \/ FindFolder(r) \/ CreateFolder(r)
  PROVE  KnownInv'
<1>1. run[r].at \in Pushing /\ UNCHANGED <<disk, drive, past>>
  BY DEF Check, FindFolder, CreateFolder, At, Pushing
<1>2. ASSUME NEW f \in Folders, Begin(r, f) PROVE KnownInv'
  BY <1>1, <1>2, BeginKnown
<1>3. CASE Check(r)
  <2>1. CASE Begin(r, run[r].mem.folder)
    <3>1. run[r].mem.folder \in Folders
      BY <1>3, <1>1, Parts, PushFields, RunFields, StateFields DEF Check, At
    <3> QED
      BY <1>2, <2>1, <3>1
  <2>2. CASE Set(Home[r], emptyState) /\ Go(r, Idle)
    BY <1>1, <2>2, FilesKnown, EmptyState, IdleType, IndexType, KnownSets DEF Set, Pushing
  <2> QED
    BY <1>3, <2>1, <2>2 DEF Check
<1>4. CASE FindFolder(r)
  <2>1. CASE Go(r, [run[r] EXCEPT !.at = "create"]) /\ UNCHANGED state
    <3> DEFINE q == [run[r] EXCEPT !.at = "create"]
    <3>1. q \in Run /\ q.at = "create" /\ q.cat = run[r].cat /\ q.list = run[r].list
      BY Parts DEF Run
    <3> HIDE DEF q
    <3> QED
      BY <1>1, <2>1, <3>1, FilesKnown, KnownParts, KnownGoes DEF q
  <2> QED
    BY <1>2, <1>4, <2>1 DEF FindFolder
<1>5. CASE CreateFolder(r)
  BY <1>2, <1>5 DEF CreateFolder
<1> QED
  BY <1>3, <1>4, <1>5

LEMMA ReadItemKnown ==
  ASSUME OneRun, TypeInv, KnownInv, NEW r \in Runs, NEW i \in Items, ReadItem(r, i)
  PROVE  KnownInv'
<1> DEFINE q == run[r]
           b == disk[Home[r]][i].bytes
           skip == [q EXCEPT !.todo = @ \ {i}]
           read == [q EXCEPT !.at = IF q.mem.items[i].node = 0 THEN "upload" ELSE "put",
                             !.item = i, !.todo = @ \ {i}, !.data[i] = b]
<1>1. /\ q \in Run /\ q.data \in [Items -> Stamp] /\ b \in Stamp
      /\ q.at = "items" /\ q.at \in Pushing /\ UNCHANGED <<state, disk, drive, past>>
  BY Parts, RunFields DEF RestOk, Catalog, ReadItem, At, Pushing
<1>2. /\ skip \in Run /\ skip.at = q.at /\ skip.cat = q.cat /\ skip.list = q.list
  BY <1>1 DEF Run
<1>3. /\ read \in Run /\ read.cat = q.cat /\ read.list = q.list /\ read.at \in {"upload", "put"}
  BY <1>1 DEF Run, Catalog
<1>4. Go(r, skip) \/ Go(r, read)
  BY DEF ReadItem
<1> HIDE DEF skip, read
<1> QED
  BY <1>1, <1>2, <1>3, <1>4, FilesKnown, KnownParts, KnownGoes

LEMMA SentKnown ==
  ASSUME OneRun, TypeInv, KnownInv, NEW r \in Runs, run[r].at \in {"put", "upload"},
         NEW n \in 0 .. MaxNodes, Sent(r, n), UNCHANGED <<disk, past>>, KnownFiles'
  PROVE  KnownInv'
<1> DEFINE s == state[Home[r]]
           i == run[r].item
           l == [node |-> n, sig |-> run[r].cat[i]]
           t == [s EXCEPT !.items[i] = l]
           q == [run[r] EXCEPT !.at = "items", !.mem = t, !.item = None, !.data = Nothing]
<1>1. /\ run[r] \in Run /\ s \in SyncState /\ run[r].at \in Pushing /\ i \in Items
      /\ run[r].cat[i] \in Stamp \ {0}
  BY Parts, PushFields DEF Pushing
<1>2. l \in Link
  BY <1>1, LinkType
<1>3. state' = [state EXCEPT ![Home[r]] = t] /\ Go(r, q)
  BY DEF Sent, Set
<1>4. /\ t \in SyncState /\ \A j \in Items : j # i => t.items[j] = s.items[j]
  <2> HIDE DEF l
  <2> QED
    BY <1>1, <1>2, WithLink
<1> HIDE DEF t
<1>5. /\ q \in Run /\ q.at = "items" /\ q.cat = run[r].cat /\ q.list = run[r].list
  BY <1>1, <1>4, Numbers DEF Run
<1> HIDE DEF q
<1>6. /\ \A j \in Items : t.items[j] # NoLink /\ disk[Home[r]][j].stamp = 0 => j \in Gone
      /\ \A j \in Items : /\ q.cat[j] = 0 /\ t.items[j] # NoLink => j \in Gone
                          /\ q.cat[j] # 0 /\ disk[Home[r]][j].stamp = 0 => j \in Gone
      /\ q.list.deleted \subseteq Gone
  BY <1>1, <1>4, <1>5, KnownParts
<1> QED
  BY <1>3, <1>4, <1>5, <1>6, KnownSets

\* A file that is added, or changed, without a list of deletions.
LEMMA FilesKnownPut ==
  ASSUME KnownInv, UNCHANGED past, Len(drive') = Len(drive), NEW n \in 1 .. Len(drive),
         \A j \in 1 .. Len(drive) : j # n => drive'[j] = drive[j],
         drive'[n].list.deleted \subseteq Gone
  PROVE  KnownFiles'
<1>1. \A j \in 1 .. Len(drive') : drive'[j].list.deleted \subseteq Gone
  BY DEF KnownInv, KnownFiles
<1> QED
  BY <1>1 DEF KnownFiles, Gone

LEMMA FilesKnownAdd ==
  ASSUME DriveOk, KnownInv, UNCHANGED past, NEW n, n.list.deleted \subseteq Gone,
         Len(drive') = Len(drive) + 1, drive'[Len(drive) + 1] = n,
         \A k \in 1 .. Len(drive) : drive'[k] = drive[k]
  PROVE  KnownFiles'
<1>1. \A k \in 1 .. Len(drive') : k \in 1 .. Len(drive) \/ k = Len(drive) + 1
  BY DEF DriveOk
<1> QED
  BY <1>1 DEF KnownInv, KnownFiles, Gone

LEMMA UpdateItemKnown ==
  ASSUME OneRun, TypeInv, KnownInv, NEW r \in Runs, UpdateItem(r)
  PROVE  KnownInv'
<1>1. PICK n : n = run[r].mem.items[run[r].item].node
  OBVIOUS
<1>2. /\ run[r].at = "put" /\ Sent(r, n) /\ UNCHANGED <<disk, past>>
      /\ PutsVersion(n, Content(r))
  BY <1>1 DEF UpdateItem, At, PutsVersion
<1>3. /\ n \in 1 .. Len(drive) /\ n \in 0 .. MaxNodes /\ Len(drive') = Len(drive)
      /\ \A j \in 1 .. Len(drive) : j # n => drive'[j] = drive[j]
      /\ drive'[n].list = drive[n].list
  <2>1. run[r].at = "put" /\ PutsVersion(n, Content(r))
    BY <1>2
  <2> QED
    BY <1>1, <2>1, UpdatesDrive
<1>4. drive'[n].list.deleted \subseteq Gone /\ UNCHANGED past
  <2>1. drive'[n].list.deleted \subseteq Gone
    BY <1>3 DEF KnownInv, KnownFiles
  <2>2. UNCHANGED past
    BY <1>2
  <2> QED
    BY <2>1, <2>2
<1>5. KnownFiles'
  BY <1>3, <1>4, FilesKnownPut
<1> QED
  BY <1>2, <1>3, <1>5, SentKnown

LEMMA UploadItemKnown ==
  ASSUME OneRun, TypeInv, KnownInv, NEW r \in Runs, UploadItem(r)
  PROVE  KnownInv'
<1>1. /\ run[r].at = "upload" /\ Sent(r, Len(drive')) /\ UNCHANGED <<disk, past>>
      /\ Len(drive) < MaxNodes /\ drive' = Append(drive, NewFile(r))
  BY DEF UploadItem, At
<1>2. /\ Len(drive') \in 0 .. MaxNodes /\ DriveOk
      /\ Len(drive') = Len(drive) + 1 /\ drive'[Len(drive) + 1] = NewFile(r)
      /\ \A k \in 1 .. Len(drive) : drive'[k] = drive[k]
  BY <1>1, UploadsDrive, Parts
<1>3. NewFile(r).list.deleted = {}
  BY IndexType DEF NewFile
<1>4. KnownFiles'
  BY <1>1, <1>2, <1>3, FilesKnownAdd
<1> QED
  BY <1>1, <1>2, <1>4, SentKnown

LEMMA UpdateItemFailsKnown ==
  ASSUME OneRun, TypeInv, KnownInv, NEW r \in Runs, UpdateItemFails(r)
  PROVE  KnownInv'
<1> DEFINE q == [run[r] EXCEPT !.at = "upload"]
<1>1. PICK n : n = run[r].mem.items[run[r].item].node
  OBVIOUS
<1>2. /\ run[r].at = "put" /\ Go(r, q) /\ UNCHANGED <<state, disk, past>>
      /\ \/ PutsVersion(n, Content(r))
         \/ UNCHANGED drive
  BY <1>1 DEF UpdateItemFails, At, PutsVersion
<1>3. KnownFiles'
  <2>1. UNCHANGED past
    BY <1>2
  <2> HIDE DEF q
  <2>2. CASE UNCHANGED drive
    BY <2>1, <2>2, FilesKnown
  <2>3. CASE PutsVersion(n, Content(r))
    <3>1. /\ n \in 1 .. Len(drive) /\ Len(drive') = Len(drive)
          /\ \A j \in 1 .. Len(drive) : j # n => drive'[j] = drive[j]
          /\ drive'[n].list = drive[n].list
      BY <1>1, <1>2, <2>3, UpdatesDrive
    <3>2. drive'[n].list.deleted \subseteq Gone
      BY <3>1 DEF KnownInv, KnownFiles
    <3> QED
      BY <2>1, <3>1, <3>2, FilesKnownPut
  <2> QED
    BY <1>2, <2>2, <2>3
<1>4. q \in Run /\ q.at = "upload" /\ q.cat = run[r].cat /\ q.list = run[r].list
  BY Parts DEF Run
<1>5. run[r].at \in Pushing /\ q.list.deleted \subseteq Gone
  BY <1>2, <1>4, KnownParts DEF Pushing
<1> HIDE DEF q
<1> QED
  BY <1>2, <1>3, <1>4, <1>5, KnownGoes

LEMMA UploadItemFailsKnown ==
  ASSUME OneRun, TypeInv, KnownInv, NEW r \in Runs, UploadItemFails(r)
  PROVE  KnownInv'
<1> DEFINE q == [run[r] EXCEPT !.at = "items", !.item = None, !.data = Nothing]
<1>2. /\ run[r].at = "upload" /\ Go(r, q) /\ UNCHANGED <<state, disk, past>>
      /\ \/ Len(drive) < MaxNodes /\ drive' = Append(drive, NewFile(r))
         \/ UNCHANGED drive
  BY DEF UploadItemFails, At
<1>3. KnownFiles'
  <2>1. CASE UNCHANGED drive
    BY <1>2, <2>1, FilesKnown
  <2>2. CASE Len(drive) < MaxNodes /\ drive' = Append(drive, NewFile(r))
    <3>1. /\ Len(drive') = Len(drive) + 1 /\ drive'[Len(drive) + 1] = NewFile(r) /\ DriveOk
          /\ \A k \in 1 .. Len(drive) : drive'[k] = drive[k]
      BY <1>2, <2>2, UploadsDrive, Parts
    <3>2. NewFile(r).list.deleted = {}
      BY IndexType DEF NewFile
    <3> QED
      BY <1>2, <3>1, <3>2, FilesKnownAdd
  <2> QED
    BY <1>2, <2>1, <2>2
<1>4. q \in Run /\ q.at = "items" /\ q.cat = run[r].cat /\ q.list = run[r].list
  BY Parts, Numbers DEF Run
<1>5. run[r].at \in Pushing /\ q.list.deleted \subseteq Gone
  BY <1>2, <1>4, KnownParts DEF Pushing
<1> HIDE DEF q
<1> QED
  BY <1>2, <1>3, <1>4, <1>5, KnownGoes

\* What is not in the catalogue and was linked has gone: the merged list has nothing else.
LEMMA ReadIndexKnown ==
  ASSUME OneRun, TypeInv, KnownInv, NEW r \in Runs, ReadIndex(r)
  PROVE  KnownInv'
<1> DEFINE s == state[Home[r]]
           list == mergeIndex(run[r].cat, localDeleted(s, run[r].cat), Remote(s))
           q == [run[r] EXCEPT !.at = IF s.index = 0 THEN "uploadIndex" ELSE "index",
                               !.list = list]
<1>1. /\ run[r].at \in Pushing /\ UNCHANGED <<state, disk, drive, past>>
      /\ Go(r, Idle) \/ Go(r, q)
  BY DEF ReadIndex, At, Pushing, Remote, localDeleted
<1>2. KnownFiles'
  BY <1>1, FilesKnown
<1>3. CASE Go(r, Idle)
  BY <1>1, <1>2, <1>3, IdleType, IndexType, KnownGoes DEF Pushing
<1>4. CASE Go(r, q)
  <2>1. /\ run[r] \in Run /\ run[r].cat \in Catalog /\ Remote(s) \in Index
        /\ localDeleted(s, run[r].cat) \in SUBSET Items
    BY Parts, RunFields, RemoteType DEF localDeleted
  <2>2. localDeleted(s, run[r].cat) \subseteq Gone
    BY <1>1, KnownParts DEF localDeleted
  <2>3. Remote(s).deleted \subseteq Gone
    BY RemoteType, IndexType DEF KnownInv, KnownFiles
  <2>4. list \in Index /\ list.deleted \subseteq Gone
    BY <2>1, <2>2, <2>3, MergeType
  <2> HIDE DEF list
  <2>5. /\ q \in Run /\ q.at \in {"uploadIndex", "index"} /\ q.cat = run[r].cat /\ q.list = list
    BY <2>1, <2>4 DEF Run
  <2> HIDE DEF q
  <2> QED
    BY <1>1, <1>2, <1>4, <2>4, <2>5, KnownGoes
<1> QED
  BY <1>1, <1>3, <1>4

LEMMA IndexedKnown ==
  ASSUME OneRun, TypeInv, KnownInv, NEW r \in Runs, NEW n \in 0 .. MaxNodes, Indexed(r, n),
         Go(r, Idle), UNCHANGED <<disk, past>>, KnownFiles'
  PROVE  KnownInv'
<1> DEFINE s == state[Home[r]]
           cat == run[r].cat
           t == [s EXCEPT !.index = n, !.indexed = cat]
<1>1. s \in SyncState /\ cat \in Catalog \cup {None}
  BY Parts, RunFields
<1>2. state' = [state EXCEPT ![Home[r]] = t]
  BY DEF Indexed, Set
<1>3. t \in SyncState /\ t.items = s.items
  <2> HIDE DEF s, cat
  <2> QED
    BY <1>1 DEF SyncState
<1> HIDE DEF t
<1>4. /\ \A i \in Items : t.items[i] # NoLink /\ disk[Home[r]][i].stamp = 0 => i \in Gone
      /\ Idle \in Run /\ Idle.at \notin Pushing /\ Idle.at # "write" /\ Idle.at # "link"
      /\ Idle.list.deleted \subseteq Gone
  BY <1>3, KnownParts, IdleType, IndexType DEF Pushing
<1> QED
  BY <1>2, <1>3, <1>4, KnownSets

LEMMA PutIndexKnown ==
  ASSUME OneRun, TypeInv, KnownInv, NEW r \in Runs, PutIndex(r)
  PROVE  KnownInv'
<1>1. PICK n : n = state[Home[r]].index
  OBVIOUS
<1>2. run[r].at = "index" /\ PutsList(n, run[r].list)
  BY <1>1 DEF PutIndex, At, PutsList
<1>3. UNCHANGED <<disk, past>> /\ UNCHANGED past /\ Indexed(r, n) /\ Go(r, Idle)
  BY <1>1 DEF PutIndex
<1>4. /\ n \in 1 .. Len(drive) /\ n \in 0 .. MaxNodes /\ Len(drive') = Len(drive)
      /\ \A j \in 1 .. Len(drive) : j # n => drive'[j] = drive[j]
      /\ drive'[n].list = run[r].list
  BY <1>1, <1>2, PutsIndex
<1>5. drive'[n].list.deleted \subseteq Gone
  BY <1>4, KnownParts
<1>6. KnownFiles'
  <2>1. UNCHANGED past
    BY <1>3
  <2> QED
    BY <1>4, <1>5, <2>1, FilesKnownPut
<1> QED
  BY <1>3, <1>4, <1>6, IndexedKnown

LEMMA UploadIndexKnown ==
  ASSUME OneRun, TypeInv, KnownInv, NEW r \in Runs, UploadIndex(r)
  PROVE  KnownInv'
<1>1. /\ run[r].at = "uploadIndex" /\ Len(drive) < MaxNodes /\ drive' = Append(drive, NewIndex(r))
  BY DEF UploadIndex, At
<1>2. UNCHANGED <<disk, past>> /\ UNCHANGED past /\ Indexed(r, Len(drive')) /\ Go(r, Idle)
  BY DEF UploadIndex
<1>3. /\ Len(drive') \in 0 .. MaxNodes /\ DriveOk /\ NewIndex(r).list = run[r].list
      /\ Len(drive') = Len(drive) + 1 /\ drive'[Len(drive) + 1] = NewIndex(r)
      /\ \A k \in 1 .. Len(drive) : drive'[k] = drive[k]
  BY <1>1, UploadsIndex, Parts
<1>4. NewIndex(r).list.deleted \subseteq Gone
  BY <1>3, KnownParts
<1>5. KnownFiles'
  <2>1. UNCHANGED past
    BY <1>2
  <2> QED
    BY <1>3, <1>4, <2>1, FilesKnownAdd
<1> QED
  BY <1>2, <1>3, <1>5, IndexedKnown

LEMMA PutIndexFailsKnown ==
  ASSUME OneRun, TypeInv, KnownInv, NEW r \in Runs, PutIndexFails(r)
  PROVE  KnownInv'
<1> DEFINE q == [run[r] EXCEPT !.at = "uploadIndex"]
<1>1. PICK n : n = state[Home[r]].index
  OBVIOUS
<1>2. run[r].at = "index" /\ (PutsList(n, run[r].list) \/ UNCHANGED drive)
  BY <1>1 DEF PutIndexFails, At, PutsList
<1>3. Go(r, q) /\ UNCHANGED <<state, disk, past>> /\ UNCHANGED past
  BY DEF PutIndexFails
<1>4. KnownFiles'
  <2>1. UNCHANGED past
    BY <1>3
  <2> HIDE DEF q
  <2>2. CASE UNCHANGED drive
    BY <2>1, <2>2, FilesKnown
  <2>3. CASE PutsList(n, run[r].list)
    <3>1. /\ n \in 1 .. Len(drive) /\ Len(drive') = Len(drive)
          /\ \A j \in 1 .. Len(drive) : j # n => drive'[j] = drive[j]
          /\ drive'[n].list = run[r].list
      BY <1>1, <1>2, <2>3, PutsIndex
    <3>2. drive'[n].list.deleted \subseteq Gone
      BY <3>1, KnownParts
    <3> QED
      BY <2>1, <3>1, <3>2, FilesKnownPut
  <2> QED
    BY <1>2, <2>2, <2>3
<1>5. q \in Run /\ q.at = "uploadIndex" /\ q.cat = run[r].cat /\ q.list = run[r].list
  BY Parts DEF Run
<1>6. run[r].at \in Pushing /\ q.list.deleted \subseteq Gone
  BY <1>2, <1>5, KnownParts DEF Pushing
<1> HIDE DEF q
<1> QED
  BY <1>3, <1>4, <1>5, <1>6, KnownGoes

LEMMA CloseKnown ==
  ASSUME OneRun, TypeInv, KnownInv, NEW r \in Runs, Close(r)
  PROVE  KnownInv'
<1>1. UNCHANGED <<state, disk, past>> /\ UNCHANGED <<drive, past>> /\ Go(r, Idle)
  BY DEF Close
<1>2. KnownFiles'
  BY <1>1, FilesKnown
<1> QED
  BY <1>1, <1>2, IdleType, IndexType, KnownGoes DEF Pushing

LEMMA ProbeKnown ==
  ASSUME OneRun, TypeInv, KnownInv, NEW r \in Runs, Probe(r)
  PROVE  KnownInv'
<1> DEFINE s == state[Home[r]]
           candidates == IF s.folder # None /\ Live(s.folder) THEN {s.folder}
                         ELSE {f \in Folders : Live(f)}
<1>1. /\ run[r].at = "idle" /\ UNCHANGED <<disk, past>> /\ UNCHANGED <<drive, past>>
      /\ DriveOk /\ s \in SyncState /\ run[r] \in Run
  BY Parts DEF Probe, At
<1>2. candidates \subseteq Folders
  BY <1>1, StateFields
<1>0. KnownFiles'
  BY <1>1, FilesKnown
<1>3. ASSUME NEW f \in candidates, Listed(f, Len(drive), "index") # {}, UNCHANGED state,
             Go(r, [Idle EXCEPT !.at = "ask", !.folder = f, !.seen = Len(drive),
                      !.list = drive[First(Listed(f, Len(drive), "index"))].list])
      PROVE  KnownInv'
  <2> DEFINE k == First(Listed(f, Len(drive), "index"))
             l == drive[k].list
             q == [Idle EXCEPT !.at = "ask", !.folder = f, !.seen = Len(drive), !.list = l]
  <2>1. f \in Folders /\ Len(drive) \in 0 .. MaxNodes /\ Len(drive) \in Nat
    BY <1>1, <1>2 DEF DriveOk
  <2>2. k \in 1 .. Len(drive)
    BY <1>1, <1>3, <2>1, ListedFile
  <2> HIDE DEF k
  <2>3. l \in Index /\ l.deleted \subseteq Gone
    BY <1>1, <2>2, NodeFields DEF KnownInv, KnownFiles
  <2>4. Go(r, q)
    BY <1>3 DEF k
  <2> HIDE DEF l, candidates
  <2>5. q \in Run /\ q.at = "ask" /\ q.list = l
    BY <2>1, <2>3, IdleType DEF Run
  <2>6. UNCHANGED <<state, disk, past>> /\ q.list.deleted \subseteq Gone /\ q.at \notin Pushing
    BY <1>1, <1>3, <2>3, <2>5 DEF Pushing
  <2> HIDE DEF q
  <2> QED
    BY <1>0, <2>4, <2>5, <2>6, KnownGoes
<1>4. ASSUME NEW f \in Folders \cup {None}, Set(Home[r], [s EXCEPT !.ready = TRUE, !.folder = f]),
             UNCHANGED run
      PROVE  KnownInv'
  <2> DEFINE t == [s EXCEPT !.ready = TRUE, !.folder = f]
  <2>1. t \in SyncState /\ t.items = s.items
    BY <1>1, WithReady
  <2>2. state' = [state EXCEPT ![Home[r]] = t] /\ Go(r, run[r])
    BY <1>4, Parts DEF Go, Set
  <2> HIDE DEF t
  <2>3. /\ \A i \in Items : t.items[i] # NoLink /\ disk[Home[r]][i].stamp = 0 => i \in Gone
        /\ run[r].at \notin Pushing /\ run[r].at # "write" /\ run[r].at # "link"
        /\ run[r].list.deleted \subseteq Gone
    BY <1>1, <2>1, KnownParts DEF Pushing
  <2> QED
    BY <1>0, <1>1, <2>1, <2>2, <2>3, KnownSets
<1>5. \/ \E f \in candidates :
           /\ Listed(f, Len(drive), "index") # {} /\ UNCHANGED state
           /\ Go(r, [Idle EXCEPT !.at = "ask", !.folder = f, !.seen = Len(drive),
                       !.list = drive[First(Listed(f, Len(drive), "index"))].list])
      \/ \E f \in (IF candidates = {} THEN {s.folder} ELSE candidates) :
           Set(Home[r], [s EXCEPT !.ready = TRUE, !.folder = f]) /\ UNCHANGED run
  BY DEF Probe
<1>6. (IF candidates = {} THEN {s.folder} ELSE candidates) \subseteq Folders \cup {None}
  BY <1>1, <1>2, StateFields
<1> HIDE DEF candidates
<1> QED
  BY <1>3, <1>4, <1>5, <1>6

LEMMA StartFreshKnown ==
  ASSUME OneRun, TypeInv, KnownInv, NEW r \in Runs, startFresh(r)
  PROVE  KnownInv'
<1> DEFINE s == state[Home[r]]
           t == [s EXCEPT !.ready = TRUE, !.folder = run[r].folder]
<1>1. /\ UNCHANGED <<disk, past>> /\ UNCHANGED <<drive, past>> /\ s \in SyncState
      /\ run[r].folder \in Folders \cup {None}
  BY Parts, RunFields DEF startFresh
<1>0. KnownFiles'
  BY <1>1, FilesKnown
<1>2. t \in SyncState /\ t.items = s.items
  BY <1>1, WithReady
<1>3. state' = [state EXCEPT ![Home[r]] = t] /\ Go(r, Idle)
  BY DEF startFresh, Set
<1> HIDE DEF t
<1>4. /\ \A i \in Items : t.items[i] # NoLink /\ disk[Home[r]][i].stamp = 0 => i \in Gone
      /\ Idle \in Run /\ Idle.at \notin Pushing /\ Idle.at # "write" /\ Idle.at # "link"
      /\ Idle.list.deleted \subseteq Gone
  BY <1>2, KnownParts, IdleType, IndexType DEF Pushing
<1> QED
  BY <1>0, <1>1, <1>2, <1>3, <1>4, KnownSets

LEMMA ChooseKnown ==
  ASSUME OneRun, TypeInv, KnownInv, NEW r \in Runs, NEW choice, Choose(r, choice)
  PROVE  KnownInv'
<1> DEFINE q == run[r]
           here == Held(Home[r])
           found == Found(q.folder, q.seen, q.list)
           todo == IF choice = "replace" THEN found ELSE found \ here
           old == IF choice = "skip" THEN found \cap here ELSE {}
           data == [i \in Items |-> IF i \in todo THEN drive[FileOf(q.folder, q.seen, i)].now ELSE 0]
           t == [q EXCEPT !.at = "write", !.todo = todo, !.old = old, !.data = data]
<1>1. /\ run[r].at = "ask" /\ UNCHANGED <<state, disk, past>> /\ UNCHANGED <<drive, past>>
      /\ Go(r, t)
  BY DEF Choose, At
<1>2. run' \in [Runs -> Run] /\ run[r] \in Run /\ run \in [Runs -> Run] /\ Home[r] \in Devices
  BY Parts, ChooseType DEF TypeInv, TypeOK
<1>3. t \in Run
  BY <1>1, <1>2 DEF Go
<1>4. old \subseteq here
  OBVIOUS
<1>5. t.at = "write" /\ t.old = old /\ t.list = q.list
  BY <1>2 DEF Run
<1>6. KnownFiles'
  BY <1>1, FilesKnown
<1>7. /\ \A i \in t.old : disk[Home[r]][i].stamp # 0
      /\ t.list.deleted \subseteq Gone /\ t.at \notin Pushing
  BY <1>4, <1>5, KnownParts DEF Held, Pushing
<1> HIDE DEF t
<1> QED
  BY <1>1, <1>3, <1>5, <1>6, <1>7, KnownGoes

\* What WriteItems does.
LEMMA WritesItems ==
  ASSUME TypeInv, NEW r \in Runs, WriteItems(r)
  PROVE  \E bad \in SUBSET run[r].todo :
           /\ \A i \in Items : disk'[Home[r]][i] =
                IF i \in run[r].todo \ bad
                THEN [bytes |-> run[r].data[i], stamp |-> StampOf(run[r], i)]
                ELSE disk[Home[r]][i]
           /\ \A d \in Devices : d # Home[r] => disk'[d] = disk[d]
           /\ past'.erased = past.erased
           /\ past'.lost = past.lost \cup (bad \ Held(Home[r]))
           /\ past'.unwritten[Home[r]] =
                (past.unwritten[Home[r]] \ run[r].todo) \cup (bad \cap Held(Home[r]))
           /\ \A d \in Devices : d # Home[r] => past'.unwritten[d] = past.unwritten[d]
           /\ UNCHANGED <<state, drive, clock>> /\ run[r].at = "write"
           /\ run'[r].at = "link" /\ run'[r].todo = run[r].todo /\ run'[r].old = run[r].old
           /\ run'[r].data = run[r].data /\ run'[r].list = run[r].list /\ run'[r].cat = run[r].cat
           /\ \A i \in Items : StampOf(run'[r], i) = StampOf(run[r], i)
           /\ \A t \in Runs : t # r => run'[t] = run[t]
<1> DEFINE q == run[r]
           d == Home[r]
           t == [q EXCEPT !.at = "link"]
<1>1. PICK bad \in SUBSET q.todo :
        /\ disk' = [disk EXCEPT ![d] = [i \in Items |->
             IF i \in q.todo \ bad THEN [bytes |-> q.data[i], stamp |-> StampOf(q, i)] ELSE @[i]]]
        /\ past' = [past EXCEPT !.lost = @ \cup (bad \ Held(d)),
                                !.unwritten[d] = (@ \ q.todo) \cup (bad \cap Held(d))]
  BY DEF WriteItems
<1>2. /\ q.at = "write" /\ Go(r, t) /\ UNCHANGED <<state, drive, clock>>
      /\ q \in Run /\ RestOk /\ d \in Devices /\ run \in [Runs -> Run]
  BY Parts DEF WriteItems, At
<1>3. /\ t \in Run /\ t.at = "link" /\ t.todo = q.todo /\ t.old = q.old /\ t.data = q.data
      /\ t.list = q.list /\ t.cat = q.cat
  BY <1>2 DEF Run
<1> HIDE DEF t
<1>4. run'[r] = t /\ \A u \in Runs : u # r => run'[u] = run[u]
  BY <1>2, <1>3, GoStep DEF Go
<1>5. \A i \in Items : StampOf(t, i) = StampOf(q, i)
  BY <1>3 DEF StampOf
<1>6. /\ \A i \in Items : disk'[d][i] =
           IF i \in q.todo \ bad THEN [bytes |-> q.data[i], stamp |-> StampOf(q, i)]
           ELSE disk[d][i]
      /\ \A e \in Devices : e # d => disk'[e] = disk[e]
  BY <1>1, <1>2 DEF RestOk
<1>7. /\ past'.erased = past.erased /\ past'.lost = past.lost \cup (bad \ Held(d))
      /\ past'.unwritten[d] = (past.unwritten[d] \ q.todo) \cup (bad \cap Held(d))
      /\ \A e \in Devices : e # d => past'.unwritten[e] = past.unwritten[e]
  <2> DEFINE gone == bad \ Held(d)
             kept == bad \cap Held(d)
  <2>1. past' = [past EXCEPT !.lost = @ \cup gone, !.unwritten[d] = (@ \ q.todo) \cup kept]
    BY <1>1
  <2>2. past \in Past
    BY <1>2 DEF RestOk
  <2> HIDE DEF gone, kept, q
  <2>3. /\ past'.erased = past.erased /\ past'.lost = past.lost \cup gone
        /\ past'.unwritten = [past.unwritten EXCEPT ![d] = (@ \ q.todo) \cup kept]
        /\ past.unwritten \in [Devices -> SUBSET Items]
    BY <2>1, <2>2 DEF Past
  <2>4. /\ past'.unwritten[d] = (past.unwritten[d] \ q.todo) \cup kept
        /\ \A e \in Devices : e # d => past'.unwritten[e] = past.unwritten[e]
    BY <1>2, <2>3
  <2> QED
    BY <2>3, <2>4 DEF gone, kept
<1>8. \A i \in Items : StampOf(run'[r], i) = StampOf(q, i)
  BY <1>4, <1>5
<1>9. /\ run'[r].at = "link" /\ run'[r].todo = q.todo /\ run'[r].old = q.old
      /\ run'[r].data = q.data /\ run'[r].list = q.list /\ run'[r].cat = q.cat
  BY <1>3, <1>4
<1> QED
  BY <1>2, <1>4, <1>6, <1>7, <1>8, <1>9

LEMMA WriteItemsKnown ==
  ASSUME OneRun, TypeInv, KnownInv, NEW r \in Runs, WriteItems(r)
  PROVE  KnownInv'
<1> DEFINE d == Home[r]
<1>1. PICK bad \in SUBSET run[r].todo :
        /\ \A i \in Items : disk'[d][i] =
             IF i \in run[r].todo \ bad
             THEN [bytes |-> run[r].data[i], stamp |-> StampOf(run[r], i)]
             ELSE disk[d][i]
        /\ \A e \in Devices : e # d => disk'[e] = disk[e]
        /\ past'.erased = past.erased /\ past'.lost = past.lost \cup (bad \ Held(d))
        /\ UNCHANGED <<state, drive>> /\ run[r].at = "write"
        /\ run'[r].at = "link" /\ run'[r].todo = run[r].todo /\ run'[r].old = run[r].old
        /\ run'[r].list = run[r].list
        /\ \A t \in Runs : t # r => run'[t] = run[t]
  BY WritesItems
<1>2. /\ run[r] \in Run /\ RestoreOk(run[r]) /\ run[r].todo \subseteq Items
      /\ run[r].old \subseteq Items
  BY Parts, RunFields
<1>3. \A i \in run[r].todo : StampOf(run[r], i) # 0
  BY <1>1, <1>2, StampType DEF RestoreOk, Restoring
<1>4. Gone \subseteq Gone' /\ \A i \in bad : disk[d][i].stamp = 0 => i \in Gone'
  BY <1>1 DEF Gone, Held
<1>5. ASSUME NEW i \in Items, disk'[d][i].stamp = 0
      PROVE  disk[d][i].stamp = 0 /\ i \notin run[r].todo \ bad
  <2>1. CASE i \in run[r].todo \ bad
    <3>1. disk'[d][i] = [bytes |-> run[r].data[i], stamp |-> StampOf(run[r], i)]
      BY <1>1, <2>1
    <3>2. disk'[d][i].stamp = StampOf(run[r], i)
      BY <3>1
    <3> QED
      BY <1>3, <1>5, <2>1, <3>2
  <2>2. CASE i \notin run[r].todo \ bad
    BY <1>1, <1>5, <2>2
  <2> QED
    BY <2>1, <2>2
<1>6. KnownState(d)'
  BY <1>1, <1>4, <1>5, KnownParts DEF KnownState
<1>7. KnownRun(r)'
  <2>1. ASSUME NEW i \in run[r].old PROVE disk'[d][i].stamp # 0 \/ i \in Gone'
    <3>1. disk[d][i].stamp # 0 \/ i \in Gone
      BY <1>1, <2>1, KnownParts DEF KnownRun
    <3> QED
      BY <1>2, <1>4, <1>5, <2>1, <3>1
  <2>2. ASSUME NEW i \in run[r].todo PROVE disk'[d][i].stamp # 0 \/ i \in Gone'
    BY <1>2, <1>4, <1>5, <2>2
  <2>3. run[r].list.deleted \subseteq Gone'
    BY <1>4, KnownParts
  <2> QED
    BY <1>1, <2>1, <2>2, <2>3 DEF KnownRun, Pushing
<1>8. KnownFiles'
  BY <1>1, <1>4 DEF KnownInv, KnownFiles
<1> QED
  BY <1>1, <1>4, <1>6, <1>7, <1>8, KnownStep

LEMMA LinkItemsKnown ==
  ASSUME OneRun, TypeInv, KnownInv, NEW r \in Runs, LinkItems(r)
  PROVE  KnownInv'
<1> DEFINE s == state[Home[r]]
<1>1. PICK t \in SyncState :
        /\ Set(Home[r], t) /\ t.items = Relinked(run[r], s)
        /\ run[r].at = "link" /\ Go(r, Idle) /\ UNCHANGED <<disk, drive, past, clock>>
  BY LinksItems
<1>2. KnownFiles'
  BY <1>1, FilesKnown
<1>3. ASSUME NEW i \in Items, t.items[i] # NoLink, disk[Home[r]][i].stamp = 0
      PROVE  i \in Gone
  <2>1. CASE i \in run[r].todo \cup run[r].old
    BY <1>1, <1>3, <2>1, KnownParts DEF KnownRun
  <2>2. CASE i \notin run[r].todo \cup run[r].old
    <3>1. t.items[i] = s.items[i]
      BY <1>1, <2>2 DEF Relinked
    <3> QED
      BY <1>3, <3>1, KnownParts
  <2> QED
    BY <2>1, <2>2
<1>4. /\ Idle \in Run /\ Idle.at \notin Pushing /\ Idle.at # "write" /\ Idle.at # "link"
      /\ Idle.list.deleted \subseteq Gone
      /\ state' = [state EXCEPT ![Home[r]] = t] /\ UNCHANGED <<disk, past>>
  BY <1>1, IdleType, IndexType DEF Pushing, Set
<1> QED
  BY <1>1, <1>2, <1>3, <1>4, KnownSets

\* What neither a run nor the Drive takes part in: what is no longer there has gone.
LEMMA KnownAside ==
  ASSUME TypeInv, KnownInv, UNCHANGED <<state, drive, run>>, Gone \subseteq Gone',
         \A d \in Devices : \A i \in Items :
           disk'[d][i].stamp = 0 => disk[d][i].stamp = 0 \/ i \in Gone'
  PROVE  KnownInv'
<1>1. ASSUME NEW d \in Devices PROVE KnownState(d)'
  BY DEF KnownInv, KnownState
<1>2. ASSUME NEW r \in Runs PROVE KnownRun(r)'
  <2> DEFINE d == Home[r]
             q == run[r]
  <2>1. KnownRun(r) /\ d \in Devices /\ run'[r] = q /\ state'[d] = state[d]
    BY Homes DEF KnownInv
  <2>2. ASSUME NEW i \in Items, q.at \in Pushing
        PROVE  /\ q.cat[i] = 0 /\ state[d].items[i] # NoLink => i \in Gone'
               /\ q.cat[i] # 0 /\ disk'[d][i].stamp = 0 => i \in Gone'
    BY <2>1, <2>2 DEF KnownRun
  <2>3. ASSUME NEW i \in Items, disk[d][i].stamp # 0 \/ i \in Gone
        PROVE  disk'[d][i].stamp # 0 \/ i \in Gone'
    BY <2>1, <2>3
  <2>4. q.todo \subseteq Items /\ q.old \subseteq Items
    BY Parts, RunFields
  <2>5. q.at \in {"write", "link"} => \A i \in q.old : disk'[d][i].stamp # 0 \/ i \in Gone'
    BY <2>1, <2>3, <2>4 DEF KnownRun
  <2>6. q.at = "link" => \A i \in q.todo : disk'[d][i].stamp # 0 \/ i \in Gone'
    BY <2>1, <2>3, <2>4 DEF KnownRun
  <2>7. q.list.deleted \subseteq Gone'
    BY <2>1 DEF KnownRun
  <2> QED
    BY <2>1, <2>2, <2>5, <2>6, <2>7 DEF KnownRun
<1>3. KnownFiles'
  BY DEF KnownInv, KnownFiles
<1> QED
  BY <1>1, <1>2, <1>3 DEF KnownInv

LEMMA UserKnown ==
  ASSUME OneRun, TypeInv, KnownInv, NEW d \in Devices, User(d)
  PROVE  KnownInv'
<1>1. RestOk /\ state \in [Devices -> SyncState] /\ run \in [Runs -> Run]
  BY DEF TypeInv, TypeOK, RestOk
<1>2. ASSUME NEW i \in Items, Edit(d, i) PROVE KnownInv'
  <2>1. clock' # 0 /\ UNCHANGED <<state, drive, run>>
    BY <1>1, <1>2, Numbers DEF Edit, RestOk
  <2>2. disk' = [disk EXCEPT ![d][i] = [bytes |-> clock', stamp |-> clock']]
    BY <1>2 DEF Edit
  <2>3. \A e \in Devices : \A j \in Items :
          disk'[e][j] = disk[e][j] \/ disk'[e][j] = [bytes |-> clock', stamp |-> clock']
    BY <1>1, <2>2 DEF RestOk
  <2>4. \A e \in Devices : \A j \in Items : disk'[e][j].stamp = 0 => disk[e][j].stamp = 0
    BY <2>1, <2>3
  <2>5. Gone' = Gone
    BY <1>1, <1>2 DEF Edit, Gone, RestOk
  <2> QED
    BY <2>1, <2>4, <2>5, KnownAside
<1>3. ASSUME NEW i \in Items, EraseItem(d, i) PROVE KnownInv'
  <2>1. UNCHANGED <<state, drive, run>> /\ disk' = [disk EXCEPT ![d][i] = NoItem]
    BY <1>3 DEF EraseItem
  <2>2. \A e \in Devices : \A j \in Items : disk'[e][j] = disk[e][j] \/ j = i
    BY <1>1, <2>1 DEF RestOk
  <2>3. Gone \subseteq Gone' /\ i \in Gone'
    BY <1>1, <1>3 DEF EraseItem, Gone, RestOk
  <2> QED
    BY <2>1, <2>2, <2>3, KnownAside
<1>4. CASE Wipe(d)
  <2>1. /\ UNCHANGED drive /\ disk' = [disk EXCEPT ![d] = [i \in Items |-> NoItem]]
        /\ \/ /\ state' = [state EXCEPT ![d] = emptyState]
              /\ run' = [r \in Runs |-> IF Home[r] = d THEN Idle ELSE run[r]]
              /\ UNCHANGED past
           \/ past' = [past EXCEPT !.lost = @ \cup Held(d)] /\ UNCHANGED <<state, run>>
    BY <1>4 DEF Wipe
  <2>2. \A e \in Devices : e # d => disk'[e] = disk[e]
    BY <1>1, <2>1 DEF RestOk
  <2>3. CASE past' = [past EXCEPT !.lost = @ \cup Held(d)] /\ UNCHANGED <<state, run>>
    <3>1. Gone \subseteq Gone' /\ Held(d) \subseteq Gone'
      <4>1. past'.erased = past.erased /\ past'.lost = past.lost \cup Held(d)
        BY <1>1, <2>3 DEF RestOk
      <4> QED
        BY <4>1 DEF Gone
    <3>2. ASSUME NEW e \in Devices, NEW i \in Items, disk'[e][i].stamp = 0
          PROVE  disk[e][i].stamp = 0 \/ i \in Gone'
      <4>1. CASE e = d
        BY <3>1, <4>1 DEF Held
      <4>2. CASE e # d
        BY <2>2, <3>2, <4>2
      <4> QED
        BY <4>1, <4>2
    <3> QED
      BY <2>1, <2>3, <3>1, <3>2, KnownAside
  <2>4. CASE /\ state' = [state EXCEPT ![d] = emptyState]
             /\ run' = [r \in Runs |-> IF Home[r] = d THEN Idle ELSE run[r]]
             /\ UNCHANGED past
    <3>1. Gone' = Gone
      BY <2>4 DEF Gone
    <3>2. ASSUME NEW e \in Devices PROVE KnownState(e)'
      <4>1. CASE e = d
        <5>1. \A i \in Items : state'[e].items[i] = NoLink
          BY <1>1, <2>4, <4>1, EmptyState
        <5> QED
          BY <5>1 DEF KnownState
      <4>2. CASE e # d
        <5>1. state'[e] = state[e] /\ disk'[e] = disk[e]
          BY <1>1, <2>2, <2>4, <4>2
        <5> QED
          BY <3>1, <5>1 DEF KnownInv, KnownState
      <4> QED
        BY <4>1, <4>2
    <3>3. ASSUME NEW r \in Runs PROVE KnownRun(r)'
      <4>1. CASE Home[r] = d
        <5>1. run'[r] = Idle
          BY <2>4, <4>1
        <5> QED
          BY <5>1, IdleType, IndexType DEF KnownRun, Pushing
      <4>2. CASE Home[r] # d
        <5>1. /\ run'[r] = run[r] /\ state'[Home[r]] = state[Home[r]]
              /\ disk'[Home[r]] = disk[Home[r]]
          BY <1>1, <2>2, <2>4, <4>2, Homes
        <5> QED
          BY <3>1, <5>1 DEF KnownInv, KnownRun
      <4> QED
        BY <4>1, <4>2
    <3>4. KnownFiles'
      BY <2>1, <3>1 DEF KnownInv, KnownFiles
    <3> QED
      BY <3>2, <3>3, <3>4 DEF KnownInv
  <2> QED
    BY <2>1, <2>3, <2>4
<1> QED
  BY <1>2, <1>3, <1>4 DEF User

LEMMA KnownNext ==
  ASSUME OneRun, TypeInv, KnownInv, [Next]_vars
  PROVE  KnownInv'
<1>1. CASE UNCHANGED vars
  BY <1>1, KnownAside DEF vars, Gone
<1>2. ASSUME NEW d \in Devices, User(d) PROVE KnownInv'
  BY <1>2, UserKnown
<1>3. ASSUME NEW f \in Folders, LoseFolder(f) PROVE KnownInv'
  BY <1>3, KnownAside DEF LoseFolder, Gone
<1>4. ASSUME NEW r \in Runs, Push(r) PROVE KnownInv'
  BY <1>4, StartKnown, FolderKnown, ReadItemKnown, UpdateItemKnown,
     UploadItemKnown, ReadIndexKnown, PutIndexKnown, UploadIndexKnown DEF Push
<1>5. ASSUME NEW r \in Runs, Reconcile(r) PROVE KnownInv'
  BY <1>5, ProbeKnown, StartFreshKnown, ChooseKnown, WriteItemsKnown, LinkItemsKnown DEF Reconcile
<1>6. ASSUME NEW r \in Runs, Failure(r) PROVE KnownInv'
  BY <1>6, UpdateItemFailsKnown, UploadItemFailsKnown, PutIndexFailsKnown, CloseKnown DEF Failure
<1> QED
  BY <1>1, <1>2, <1>3, <1>4, <1>5, <1>6 DEF Next

\* The index that a new device reads hides a file only if it lists its item as deleted.
LEMMA ForgottenGone ==
  ASSUME TypeInv, KnownInv
  PROVE  NotForgottenUnlessLost
<1> SUFFICES ASSUME NEW f \in Folders PROVE Forgotten(f) \subseteq past.erased \cup past.lost
  BY DEF NotForgottenUnlessLost
<1> DEFINE n == Len(drive)
           index == Listed(f, n, "index")
           list == drive[First(index)].list
<1>1. DriveOk /\ n \in Nat
  BY DEF TypeInv, TypeOK, DriveOk
<1>2. CASE index = {}
  BY <1>2 DEF Forgotten
<1>3. CASE index # {}
  <2>1. First(index) \in 1 .. Len(drive)
    BY <1>1, <1>3, ListedFile
  <2>2. list.deleted \subseteq Gone
    BY <2>1 DEF KnownInv, KnownFiles
  <2>3. Forgotten(f) = {i \in Items : Listed(f, n, i) # {}} \ Found(f, n, list)
    BY <1>3 DEF Forgotten
  <2> HIDE DEF list
  <2>4. ASSUME NEW i \in Items, Listed(f, n, i) # {}, i \notin Found(f, n, list)
        PROVE  i \in list.deleted
    BY <2>4 DEF Found, Orphans
  <2> QED
    BY <2>2, <2>3, <2>4 DEF Gone
<1> QED
  BY <1>2, <1>3

\* However the devices write over each other's index, with no compare-and-set, and whatever
\* fails, a new device is offered every item that has a file, unless the user erased it or a
\* device lost it and took that for a deletion: syncOnce, mergeIndex, orphanItems.
THEOREM NotForgottenCorrect == ASSUME OneRun PROVE Spec => []NotForgottenUnlessLost
<1>1. Init => TypeInv /\ KnownInv
  BY InitType, InitKnown
<1>2. TypeInv /\ KnownInv /\ [Next]_vars => (TypeInv /\ KnownInv)'
  BY TypeNext, KnownNext
<1>3. TypeInv /\ KnownInv => NotForgottenUnlessLost
  BY ForgottenGone
<1> QED
  BY <1>1, <1>2, <1>3, PTL DEF Spec

-----------------------------------------------------------------------------
(* What a device takes for sent was sent, but for what a restoration could *)
(* not write over.  Any other content that no file has is the last edit of *)
(* its item, it is not the one that is linked, and no run is about to link *)
(* it without sending it.  The edits being numbered by the clock, a new    *)
(* one is nowhere else.                                                    *)

Unsaved(d, i) ==
  disk[d][i].stamp # 0 /\ ~Saved(i, disk[d][i].bytes) /\ i \notin past.unwritten[d]

Linked(s, i, c) == s.items[i].node # 0 /\ s.items[i].sig = c

\* What a run does with the content c of i: it sends it, and does not link it otherwise.
Sends(q, i, c) ==
  /\ q.at \in {"put", "upload"} /\ q.item = i /\ q.cat[i] = c => q.data[i] = c
  /\ q.at = "link" /\ i \in q.todo => StampOf(q, i) # c

UnsavedInv ==
  \A d \in Devices : \A i \in Items : Unsaved(d, i) =>
    /\ disk[d][i].bytes = disk[d][i].stamp
    /\ ~Linked(state[d], i, disk[d][i].stamp)
    /\ \A r \in Runs : Home[r] = d => Sends(run[r], i, disk[d][i].stamp)

\* Nothing is newer than the clock.
OldState(s) == \A i \in Items : s.items[i].sig <= clock

OldRun(q) == \A i \in Items : q.cat[i] <= clock /\ q.data[i] <= clock /\ q.list.items[i] <= clock

OldDisk(d) == \A i \in Items : disk[d][i].stamp <= clock /\ disk[d][i].bytes <= clock

OldFiles ==
  \A k \in 1 .. Len(drive) : drive[k].now <= clock /\ \A i \in Items : drive[k].list.items[i] <= clock

ClockInv == /\ \A d \in Devices : OldDisk(d) /\ OldState(state[d])
            /\ \A r \in Runs : OldRun(run[r])
            /\ OldFiles

SavedInv == ClockInv /\ UnsavedInv

LEMMA OldThings ==
  ASSUME TypeInv
  PROVE  /\ clock \in Nat /\ 0 <= clock /\ OldRun(Idle) /\ OldState(emptyState)
         /\ \A i \in Items : NoIndex.items[i] = 0
<1>1. clock \in Nat /\ 0 <= clock
  BY Numbers DEF TypeInv, TypeOK
<1>2. \A i \in Items : Nothing[i] = 0
  BY DEF Nothing
<1> QED
  BY <1>1, <1>2, IdleType, IndexType, EmptyState DEF OldRun, OldState, NoLink

LEMMA InitSaved == Init => SavedInv
<1> SUFFICES ASSUME Init PROVE SavedInv
  OBVIOUS
<1>1. TypeInv /\ clock = 0 /\ Len(drive) = 0
  BY InitType DEF Init
<1>2. ASSUME NEW d \in Devices PROVE OldDisk(d) /\ OldState(state[d])
  BY <1>1, OldThings DEF Init, OldDisk, NoItem
<1>3. ASSUME NEW r \in Runs PROVE OldRun(run[r])
  BY <1>1, OldThings DEF Init
<1>4. OldFiles
  BY <1>1 DEF OldFiles
<1>5. UnsavedInv
  BY DEF Init, UnsavedInv, Unsaved, NoItem
<1> QED
  BY <1>2, <1>3, <1>4, <1>5 DEF SavedInv, ClockInv

LEMMA UnsavedStays ==
  ASSUME DriveOk, DriveOk', Grows, NEW d \in Devices, UNCHANGED <<disk, past>>,
         NEW i \in Items, Unsaved(d, i)'
  PROVE  Unsaved(d, i)
<1>1. \A b : Saved(i, b) => \E k \in 1 .. Len(drive') : drive'[k].name = i /\ b \in drive'[k].kept
  BY FilesStay DEF Saved
<1> QED
  BY <1>1 DEF Unsaved, Saved

\* A step of the run r, which may set its state and change the Drive.
LEMMA SavedSets ==
  ASSUME OneRun, TypeInv, SavedInv, NEW r \in Runs, NEW q \in Run, Go(r, q),
         NEW s \in SyncState, state' = [state EXCEPT ![Home[r]] = s], UNCHANGED <<disk, clock, past>>,
         DriveOk', Grows, OldFiles', OldRun(q), OldState(s),
         \A i \in Items : Unsaved(Home[r], i)' /\ Unsaved(Home[r], i) =>
           ~Linked(s, i, disk[Home[r]][i].stamp) /\ Sends(q, i, disk[Home[r]][i].stamp)
  PROVE  SavedInv'
<1>1. /\ state \in [Devices -> SyncState] /\ run \in [Runs -> Run] /\ Home[r] \in Devices
      /\ DriveOk
  BY Parts
<1>2. run'[r] = q /\ \A t \in Runs : t # r => run'[t] = run[t]
  BY <1>1, GoStep DEF Go
<1>3. state'[Home[r]] = s /\ \A d \in Devices : d # Home[r] => state'[d] = state[d]
  BY <1>1, SetStep
<1>4. ASSUME NEW d \in Devices PROVE (OldDisk(d) /\ OldState(state[d]))'
  <2>1. OldDisk(d)'
    BY DEF SavedInv, ClockInv, OldDisk
  <2>2. CASE d = Home[r]
    BY <1>3, <2>1, <2>2 DEF OldState
  <2>3. CASE d # Home[r]
    BY <1>3, <2>1, <2>3 DEF SavedInv, ClockInv, OldState
  <2> QED
    BY <2>2, <2>3
<1>5. ASSUME NEW t \in Runs PROVE OldRun(run[t])'
  <2>1. CASE t = r
    BY <1>2, <2>1 DEF OldRun
  <2>2. CASE t # r
    BY <1>2, <2>2 DEF SavedInv, ClockInv, OldRun
  <2> QED
    BY <2>1, <2>2
<1>6. ASSUME NEW d \in Devices, NEW i \in Items, Unsaved(d, i)'
      PROVE  /\ disk[d][i].bytes = disk[d][i].stamp
             /\ ~Linked(state'[d], i, disk[d][i].stamp)
             /\ \A t \in Runs : Home[t] = d => Sends(run'[t], i, disk[d][i].stamp)
  <2>1. Unsaved(d, i)
    BY <1>1, <1>6, UnsavedStays
  <2>2. /\ disk[d][i].bytes = disk[d][i].stamp /\ ~Linked(state[d], i, disk[d][i].stamp)
        /\ \A t \in Runs : Home[t] = d => Sends(run[t], i, disk[d][i].stamp)
    BY <2>1 DEF SavedInv, UnsavedInv
  <2>3. CASE d = Home[r]
    <3>1. \A t \in Runs : Home[t] = d => t = r
      BY <2>3 DEF OneRun
    <3>2. ~Linked(s, i, disk[d][i].stamp) /\ Sends(q, i, disk[d][i].stamp)
      BY <1>6, <2>1, <2>3
    <3> QED
      BY <1>2, <1>3, <2>2, <2>3, <3>1, <3>2
  <2>4. CASE d # Home[r]
    BY <1>2, <1>3, <2>2, <2>4
  <2> QED
    BY <2>3, <2>4
<1>7. UnsavedInv'
  <2>1. UNCHANGED disk
    OBVIOUS
  <2> QED
    BY <1>6, <2>1 DEF UnsavedInv, Linked, Sends, StampOf
<1> QED
  BY <1>4, <1>5, <1>7 DEF SavedInv, ClockInv

LEMMA SavedParts ==
  ASSUME TypeInv, SavedInv, NEW r \in Runs
  PROVE  /\ OldRun(run[r]) /\ OldState(state[Home[r]]) /\ OldDisk(Home[r]) /\ OldFiles
         /\ \A i \in Items : Unsaved(Home[r], i) =>
              /\ disk[Home[r]][i].bytes = disk[Home[r]][i].stamp
              /\ ~Linked(state[Home[r]], i, disk[Home[r]][i].stamp)
              /\ Sends(run[r], i, disk[Home[r]][i].stamp)
BY Homes DEF SavedInv, ClockInv, UnsavedInv

LEMMA OldFilesStay ==
  ASSUME SavedInv, UNCHANGED <<drive, clock>>
  PROVE  OldFiles'
BY DEF SavedInv, ClockInv, OldFiles

\* The same, the links of the state being left alone.
LEMMA SavedGoes ==
  ASSUME OneRun, TypeInv, SavedInv, NEW r \in Runs, NEW q \in Run, Go(r, q),
         NEW s \in SyncState, state' = [state EXCEPT ![Home[r]] = s],
         s.items = state[Home[r]].items, UNCHANGED <<disk, clock, past>>,
         DriveOk', Grows, OldFiles', OldRun(q),
         q.at \in {"put", "upload", "link"} =>
           \A i \in Items : Unsaved(Home[r], i) => Sends(q, i, disk[Home[r]][i].stamp)
  PROVE  SavedInv'
<1>1. \A i \in Items : Unsaved(Home[r], i) =>
        ~Linked(s, i, disk[Home[r]][i].stamp) /\ Sends(q, i, disk[Home[r]][i].stamp)
  BY SavedParts DEF Linked, Sends
<1>2. OldState(s)
  BY SavedParts DEF OldState
<1> QED
  BY <1>1, <1>2, SavedSets

\* The same, of the run alone.
LEMMA SavedGoesAlone ==
  ASSUME OneRun, TypeInv, SavedInv, NEW r \in Runs, NEW q \in Run, Go(r, q),
         UNCHANGED state, UNCHANGED drive, UNCHANGED <<disk, clock, past>>, OldRun(q),
         q.at \in {"put", "upload", "link"} =>
           \A i \in Items : Unsaved(Home[r], i) => Sends(q, i, disk[Home[r]][i].stamp)
  PROVE  SavedInv'
<1>1. /\ state \in [Devices -> SyncState] /\ Home[r] \in Devices /\ state[Home[r]] \in SyncState
      /\ DriveOk
  BY Parts
<1>2. state' = [state EXCEPT ![Home[r]] = state[Home[r]]]
  BY <1>1
<1>3. DriveOk' /\ Grows /\ OldFiles'
  BY <1>1, DriveStays, OldFilesStay
<1> QED
  BY <1>1, <1>2, <1>3, SavedGoes

LEMMA StartSaved ==
  ASSUME OneRun, TypeInv, SavedInv, NEW r \in Runs, Start(r)
  PROVE  SavedInv'
<1> DEFINE s == state[Home[r]]
           t == [s EXCEPT !.ready = FALSE]
           q == [Idle EXCEPT !.at = IF s.folder = None THEN "find" ELSE "check",
                             !.cat = catalogOf(Home[r]), !.mem = s]
<1>1. /\ run[r] \in Run /\ Home[r] \in Devices /\ s \in SyncState /\ run[r].at = "idle" /\ RestOk
      /\ state \in [Devices -> SyncState] /\ UNCHANGED <<disk, clock, past>> /\ UNCHANGED drive /\ DriveOk
  BY Parts DEF Start, At
<1>2. DriveOk' /\ Grows /\ OldFiles'
  BY <1>1, DriveStays, OldFilesStay
<1>3. CASE Held(Home[r]) = {} /\ \E i \in Items : s.items[i] # NoLink
  <2>1. Set(Home[r], t) /\ UNCHANGED run
    BY <1>3 DEF Start
  <2>2. t \in SyncState /\ t.items = s.items
    BY <1>1, WithReady
  <2>3. Go(r, run[r])
    BY <2>1, Parts DEF Go
  <2>4. state' = [state EXCEPT ![Home[r]] = t]
    BY <2>1 DEF Set
  <2> HIDE DEF t
  <2> QED
    BY <1>1, <1>2, <2>2, <2>3, <2>4, SavedParts, SavedGoes
<1>4. CASE ~(Held(Home[r]) = {} /\ \E i \in Items : s.items[i] # NoLink)
  <2>1. Go(r, q) /\ UNCHANGED state
    BY <1>4 DEF Start
  <2>2. catalogOf(Home[r]) \in Catalog /\ \A i \in Items : catalogOf(Home[r])[i] = disk[Home[r]][i].stamp
    BY <1>1 DEF RestOk, catalogOf, Catalog
  <2>3. /\ q \in Run /\ q.at \in {"find", "check"} /\ q.cat = catalogOf(Home[r])
        /\ q.data = Idle.data /\ q.list = Idle.list
    BY <1>1, <2>2, IdleType DEF Run
  <2> HIDE DEF q
  <2>4. OldRun(q)
    BY <2>2, <2>3, SavedParts, OldThings DEF OldRun, OldDisk
  <2> QED
    BY <1>1, <2>1, <2>3, <2>4, SavedGoesAlone
<1> QED
  BY <1>3, <1>4

LEMMA BeginSaved ==
  ASSUME OneRun, TypeInv, SavedInv, NEW r \in Runs, run[r].at \in Pushing, NEW f \in Folders,
         Begin(r, f), UNCHANGED <<disk, clock, past>>, UNCHANGED drive
  PROVE  SavedInv'
<1> DEFINE s == [run[r].mem EXCEPT !.folder = f]
           todo == {i \in Items : run[r].cat[i] # 0 /\ s.items[i].sig # run[r].cat[i]}
           q == [run[r] EXCEPT !.at = "items", !.mem = s, !.todo = todo]
<1>1. run[r] \in Run /\ run[r].mem = state[Home[r]] /\ run[r].mem \in SyncState /\ DriveOk
  BY Parts, PushFields
<1>2. s \in SyncState /\ s.items = state[Home[r]].items
  BY <1>1, WithFolder
<1>3. state' = [state EXCEPT ![Home[r]] = s] /\ Go(r, q)
  BY DEF Begin, Set
<1>4. q \in Run /\ q.at = "items" /\ q.cat = run[r].cat /\ q.list = run[r].list /\ q.data = run[r].data
  BY <1>1, <1>2 DEF Run
<1>5. DriveOk' /\ Grows /\ OldFiles'
  BY <1>1, DriveStays, OldFilesStay
<1> HIDE DEF q, s
<1>6. OldRun(q)
  BY <1>4, SavedParts DEF OldRun
<1> QED
  BY <1>2, <1>3, <1>4, <1>5, <1>6, SavedGoes

LEMMA FolderSaved ==
  ASSUME OneRun, TypeInv, SavedInv, NEW r \in Runs, Check(r) \/ FindFolder(r) \/ CreateFolder(r)
  PROVE  SavedInv'
<1>1. run[r].at \in Pushing /\ UNCHANGED <<disk, clock, past>> /\ UNCHANGED drive
  BY DEF Check, FindFolder, CreateFolder, At, Pushing
<1>2. ASSUME NEW f \in Folders, Begin(r, f) PROVE SavedInv'
  BY <1>1, <1>2, BeginSaved
<1>3. CASE Check(r)
  <2>1. CASE Begin(r, run[r].mem.folder)
    <3>1. run[r].mem.folder \in Folders
      BY <1>3, <1>1, Parts, PushFields, RunFields, StateFields DEF Check, At
    <3> QED
      BY <1>2, <2>1, <3>1
  <2>2. CASE Set(Home[r], emptyState) /\ Go(r, Idle)
    <3>1. DriveOk' /\ Grows /\ OldFiles'
      BY <1>1, Parts, DriveStays, OldFilesStay
    <3>2. \A i \in Items : \A c : ~Linked(emptyState, i, c) /\ Sends(Idle, i, c)
      BY EmptyState, IdleType DEF Linked, Sends
    <3>3. state' = [state EXCEPT ![Home[r]] = emptyState] /\ Go(r, Idle)
      BY <2>2 DEF Set
    <3> QED
      BY <1>1, <3>1, <3>2, <3>3, EmptyState, IdleType, OldThings, SavedSets
  <2> QED
    BY <1>3, <2>1, <2>2 DEF Check
<1>4. CASE FindFolder(r)
  <2>1. CASE Go(r, [run[r] EXCEPT !.at = "create"]) /\ UNCHANGED state
    <3> DEFINE q == [run[r] EXCEPT !.at = "create"]
    <3>1. /\ q \in Run /\ q.at = "create" /\ q.cat = run[r].cat /\ q.list = run[r].list
          /\ q.data = run[r].data
      BY Parts DEF Run
    <3>2. Go(r, q)
      BY <2>1
    <3> HIDE DEF q
    <3>3. OldRun(q)
      BY <3>1, SavedParts DEF OldRun
    <3> QED
      BY <1>1, <2>1, <3>1, <3>2, <3>3, SavedGoesAlone
  <2> QED
    BY <1>2, <1>4, <2>1 DEF FindFolder
<1>5. CASE CreateFolder(r)
  BY <1>2, <1>5 DEF CreateFolder
<1> QED
  BY <1>3, <1>4, <1>5

\* The content is read after the catalogue: when no file has it, it is the one of the stamp.
LEMMA ReadItemSaved ==
  ASSUME OneRun, TypeInv, SavedInv, NEW r \in Runs, NEW i \in Items, ReadItem(r, i)
  PROVE  SavedInv'
<1> DEFINE q == run[r]
           b == disk[Home[r]][i].bytes
           skip == [q EXCEPT !.todo = @ \ {i}]
           read == [q EXCEPT !.at = IF q.mem.items[i].node = 0 THEN "upload" ELSE "put",
                             !.item = i, !.todo = @ \ {i}, !.data[i] = b]
<1>1. /\ q \in Run /\ q.data \in [Items -> Stamp] /\ b \in Stamp
      /\ q.at = "items" /\ UNCHANGED state /\ UNCHANGED drive /\ UNCHANGED <<disk, clock, past>>
  BY Parts, RunFields DEF RestOk, Catalog, ReadItem, At
<1>2. /\ skip \in Run /\ skip.at = q.at /\ skip.cat = q.cat /\ skip.list = q.list
      /\ skip.data = q.data
  BY <1>1 DEF Run
<1>3. /\ read \in Run /\ read.cat = q.cat /\ read.list = q.list /\ read.at \in {"upload", "put"}
      /\ read.item = i /\ read.data[i] = b
      /\ \A j \in Items : j # i => read.data[j] = q.data[j]
  BY <1>1 DEF Run, Catalog
<1>4. Go(r, skip) \/ Go(r, read)
  BY DEF ReadItem
<1>5. b <= clock
  BY SavedParts DEF OldDisk
<1> HIDE DEF skip, read, b
<1>6. OldRun(skip) /\ OldRun(read)
  BY <1>2, <1>3, <1>5, SavedParts DEF OldRun
<1>7. \A j \in Items : Unsaved(Home[r], j) => Sends(read, j, disk[Home[r]][j].stamp)
  BY <1>3, SavedParts DEF Sends, b
<1> QED
  BY <1>1, <1>2, <1>3, <1>4, <1>6, <1>7, SavedGoesAlone

\* What is recorded as sent is what was sent, or an older content than the one of the disk.
LEMMA SentSaved ==
  ASSUME OneRun, TypeInv, SavedInv, NEW r \in Runs, run[r].at \in {"put", "upload"},
         NEW n \in 0 .. MaxNodes, NEW i \in Items, i = run[r].item, Sent(r, n),
         UNCHANGED <<disk, clock, past>>, DriveOk', Grows, OldFiles',
         \E k \in 1 .. Len(drive') : drive'[k].name = run[r].item /\ Content(r) \in drive'[k].kept
  PROVE  SavedInv'
<1> DEFINE s == state[Home[r]]
           c == run[r].cat[i]
           l == [node |-> n, sig |-> c]
           t == [s EXCEPT !.items[i] = l]
           q == [run[r] EXCEPT !.at = "items", !.mem = t, !.item = None, !.data = Nothing]
<1>1. /\ run[r] \in Run /\ s \in SyncState /\ run[r].at \in Pushing
      /\ c \in Stamp \ {0}
  BY Parts, PushFields DEF Pushing
<1>2. l \in Link /\ l.sig = c
  BY <1>1, LinkType
<1>3. state' = [state EXCEPT ![Home[r]] = t] /\ Go(r, q)
  BY DEF Sent, Set
<1>4. t \in SyncState /\ t.items[i] = l /\ \A j \in Items : j # i => t.items[j] = s.items[j]
  <2> HIDE DEF l, c, s
  <2> QED
    BY <1>1, <1>2, WithLink
<1> HIDE DEF t, l
<1>5. /\ q \in Run /\ q.at = "items" /\ q.cat = run[r].cat /\ q.list = run[r].list
      /\ q.data = Nothing
  BY <1>1, <1>4, Numbers DEF Run
<1> HIDE DEF q
<1>6. OldRun(q) /\ OldState(t)
  <2>1. c <= clock /\ \A j \in Items : Nothing[j] <= clock
    BY <1>1, SavedParts, OldThings DEF OldRun, Nothing
  <2> QED
    BY <1>2, <1>4, <1>5, <2>1, SavedParts DEF OldRun, OldState
<1>7. ASSUME NEW j \in Items, Unsaved(Home[r], j)', Unsaved(Home[r], j)
      PROVE  ~Linked(t, j, disk[Home[r]][j].stamp) /\ Sends(q, j, disk[Home[r]][j].stamp)
  <2>1. Sends(q, j, disk[Home[r]][j].stamp)
    BY <1>5 DEF Sends
  <2>2. CASE j # i
    BY <1>4, <1>7, <2>1, <2>2, SavedParts DEF Linked
  <2>3. CASE j = i
    <3>1. SUFFICES ASSUME c = disk[Home[r]][i].stamp PROVE FALSE
      BY <1>2, <1>4, <2>1, <2>3 DEF Linked
    <3>2. run[r].data[i] = disk[Home[r]][i].bytes
      BY <1>7, <2>3, <3>1, SavedParts DEF Sends
    <3>3. UNCHANGED disk
      OBVIOUS
    <3> QED
      BY <1>7, <2>3, <3>2, <3>3 DEF Unsaved, Saved, Content
  <2> QED
    BY <2>2, <2>3
<1> QED
  BY <1>3, <1>4, <1>5, <1>6, <1>7, SavedSets

\* A file that is added or changed, of contents that are old.
LEMMA OldFilesPut ==
  ASSUME SavedInv, UNCHANGED clock, Len(drive') = Len(drive), NEW n \in 1 .. Len(drive),
         \A j \in 1 .. Len(drive) : j # n => drive'[j] = drive[j],
         drive'[n].now <= clock, \A i \in Items : drive'[n].list.items[i] <= clock
  PROVE  OldFiles'
<1>1. \A j \in 1 .. Len(drive') :
        drive'[j].now <= clock /\ \A i \in Items : drive'[j].list.items[i] <= clock
  BY DEF SavedInv, ClockInv, OldFiles
<1> QED
  BY <1>1 DEF OldFiles

LEMMA OldFilesAdd ==
  ASSUME DriveOk, SavedInv, UNCHANGED clock, NEW n, n.now <= clock,
         \A i \in Items : n.list.items[i] <= clock,
         Len(drive') = Len(drive) + 1, drive'[Len(drive) + 1] = n,
         \A k \in 1 .. Len(drive) : drive'[k] = drive[k]
  PROVE  OldFiles'
<1>1. \A k \in 1 .. Len(drive') : k \in 1 .. Len(drive) \/ k = Len(drive) + 1
  BY DEF DriveOk
<1> QED
  BY <1>1 DEF SavedInv, ClockInv, OldFiles

LEMMA OldContent ==
  ASSUME TypeInv, SavedInv, NEW r \in Runs, run[r].at \in {"put", "upload"}
  PROVE  Content(r) <= clock /\ run[r].item \in Items
BY PushFields, SavedParts DEF OldRun, Content, Pushing

\* The Drive after UpdateItem, or after UploadItem.
LEMMA UpdatesFile ==
  ASSUME TypeInv, SavedInv, NEW r \in Runs, run[r].at = "put", NEW n,
         n = run[r].mem.items[run[r].item].node, PutsVersion(n, Content(r)), clock' = clock
  PROVE  /\ DriveOk' /\ Grows /\ OldFiles' /\ n \in 0 .. MaxNodes
         /\ \E k \in 1 .. Len(drive') : drive'[k].name = run[r].item /\ Content(r) \in drive'[k].kept
<1>1. n \in 1 .. Len(drive) /\ n \in 0 .. MaxNodes
  BY UpdatesDrive
<1>2. DriveOk' /\ Grows /\ Len(drive') = Len(drive)
  BY UpdatesDrive
<1>3. \A j \in 1 .. Len(drive) : j # n => drive'[j] = drive[j]
  BY UpdatesDrive
<1>4. drive[n].name = run[r].item /\ drive'[n].name = drive[n].name
  BY UpdatesDrive
<1>5. drive'[n].now = Content(r) /\ drive'[n].list = drive[n].list
  BY UpdatesDrive
<1>6. drive'[n].kept = drive[n].kept \cup {Content(r)}
  BY UpdatesDrive
<1>7. Content(r) <= clock /\ \A i \in Items : drive[n].list.items[i] <= clock
  BY <1>1, OldContent, SavedParts DEF OldFiles
<1>8. drive'[n].now <= clock /\ \A i \in Items : drive'[n].list.items[i] <= clock
  BY <1>5, <1>7
<1>9. OldFiles'
  BY <1>1, <1>2, <1>3, <1>8, OldFilesPut
<1> QED
  BY <1>1, <1>2, <1>4, <1>6, <1>9

LEMMA UploadsFile ==
  ASSUME TypeInv, SavedInv, NEW r \in Runs, run[r].at = "upload", Len(drive) < MaxNodes,
         drive' = Append(drive, NewFile(r)), UNCHANGED clock
  PROVE  /\ DriveOk' /\ Grows /\ OldFiles' /\ Len(drive') \in 0 .. MaxNodes
         /\ \E k \in 1 .. Len(drive') : drive'[k].name = run[r].item /\ Content(r) \in drive'[k].kept
<1>1. /\ DriveOk' /\ Grows
      /\ Len(drive') = Len(drive) + 1 /\ drive'[Len(drive) + 1] = NewFile(r)
      /\ Len(drive') \in 1 .. Len(drive') /\ Len(drive') \in 0 .. MaxNodes
      /\ \A k \in 1 .. Len(drive) : drive'[k] = drive[k]
      /\ drive'[Len(drive')].name = run[r].item
  BY UploadsDrive
<1>2. /\ NewFile(r).now = Content(r) /\ NewFile(r).kept = {Content(r)}
      /\ NewFile(r).list = NoIndex
  BY DEF NewFile
<1>3. NewFile(r).now <= clock /\ \A i \in Items : NewFile(r).list.items[i] <= clock
  BY <1>2, OldContent, OldThings
<1>4. OldFiles'
  BY <1>1, <1>3, OldFilesAdd, Parts
<1>5. Content(r) \in drive'[Len(drive')].kept
  BY <1>1, <1>2
<1> QED
  BY <1>1, <1>4, <1>5

LEMMA UpdateItemSaved ==
  ASSUME OneRun, TypeInv, SavedInv, NEW r \in Runs, UpdateItem(r)
  PROVE  SavedInv'
<1>1. PICK n : n = run[r].mem.items[run[r].item].node
  OBVIOUS
<1>2. run[r].at = "put" /\ PutsVersion(n, Content(r))
  BY <1>1 DEF UpdateItem, At, PutsVersion
<1>3. Sent(r, n) /\ UNCHANGED <<disk, clock, past>>
  BY <1>1 DEF UpdateItem
<1>4. clock' = clock
  BY <1>3
<1>5. /\ DriveOk' /\ Grows /\ OldFiles' /\ n \in 0 .. MaxNodes
      /\ \E k \in 1 .. Len(drive') : drive'[k].name = run[r].item /\ Content(r) \in drive'[k].kept
  BY <1>1, <1>2, <1>4, UpdatesFile
<1>6. PICK i \in Items : i = run[r].item
  BY <1>2, OldContent
<1> QED
  BY <1>2, <1>3, <1>5, <1>6, SentSaved

LEMMA UploadItemSaved ==
  ASSUME OneRun, TypeInv, SavedInv, NEW r \in Runs, UploadItem(r)
  PROVE  SavedInv'
<1>1. /\ run[r].at = "upload" /\ Len(drive) < MaxNodes /\ drive' = Append(drive, NewFile(r))
      /\ clock' = clock
  BY DEF UploadItem, At
<1>2. Sent(r, Len(drive')) /\ UNCHANGED <<disk, clock, past>>
  BY DEF UploadItem
<1>3. /\ DriveOk' /\ Grows /\ OldFiles' /\ Len(drive') \in 0 .. MaxNodes
      /\ \E k \in 1 .. Len(drive') : drive'[k].name = run[r].item /\ Content(r) \in drive'[k].kept
  BY <1>1, UploadsFile
<1>4. PICK i \in Items : i = run[r].item
  BY <1>1, OldContent
<1> QED
  BY <1>1, <1>2, <1>3, <1>4, SentSaved

LEMMA UpdateItemFailsSaved ==
  ASSUME OneRun, TypeInv, SavedInv, NEW r \in Runs, UpdateItemFails(r)
  PROVE  SavedInv'
<1> DEFINE q == [run[r] EXCEPT !.at = "upload"]
<1>1. PICK n : n = run[r].mem.items[run[r].item].node
  OBVIOUS
<1>2. run[r].at = "put" /\ (PutsVersion(n, Content(r)) \/ UNCHANGED drive)
  BY <1>1 DEF UpdateItemFails, At, PutsVersion
<1>3. Go(r, q) /\ UNCHANGED state /\ UNCHANGED <<disk, clock, past>>
  BY DEF UpdateItemFails
<1>4. DriveOk' /\ Grows /\ OldFiles'
  <2>1. clock' = clock
    BY <1>3
  <2> HIDE DEF q
  <2>2. CASE UNCHANGED drive
    BY <2>1, <2>2, Parts, DriveStays, OldFilesStay
  <2>3. CASE PutsVersion(n, Content(r))
    BY <1>1, <1>2, <2>1, <2>3, UpdatesFile
  <2> QED
    BY <1>2, <2>2, <2>3
<1>5. /\ q \in Run /\ q.at = "upload" /\ q.cat = run[r].cat /\ q.list = run[r].list
      /\ q.data = run[r].data /\ q.item = run[r].item
  BY Parts DEF Run
<1> HIDE DEF q
<1>6. OldRun(q)
  BY <1>5, SavedParts DEF OldRun
<1>7. \A i \in Items : Unsaved(Home[r], i) => Sends(q, i, disk[Home[r]][i].stamp)
  BY <1>2, <1>5, SavedParts DEF Sends
<1>8. state' = [state EXCEPT ![Home[r]] = state[Home[r]]] /\ state[Home[r]] \in SyncState
  BY <1>3, Parts
<1> QED
  BY <1>3, <1>4, <1>5, <1>6, <1>7, <1>8, SavedGoes

LEMMA UploadItemFailsSaved ==
  ASSUME OneRun, TypeInv, SavedInv, NEW r \in Runs, UploadItemFails(r)
  PROVE  SavedInv'
<1> DEFINE q == [run[r] EXCEPT !.at = "items", !.item = None, !.data = Nothing]
<1>1. /\ run[r].at = "upload"
      /\ \/ Len(drive) < MaxNodes /\ drive' = Append(drive, NewFile(r))
         \/ UNCHANGED drive
  BY DEF UploadItemFails, At
<1>2. Go(r, q) /\ UNCHANGED state /\ UNCHANGED <<disk, clock, past>>
  BY DEF UploadItemFails
<1>3. DriveOk' /\ Grows /\ OldFiles'
  <2>1. clock' = clock
    BY <1>2
  <2> HIDE DEF q
  <2>2. CASE UNCHANGED drive
    BY <2>1, <2>2, Parts, DriveStays, OldFilesStay
  <2>3. CASE Len(drive) < MaxNodes /\ drive' = Append(drive, NewFile(r))
    BY <1>1, <2>1, <2>3, UploadsFile
  <2> QED
    BY <1>1, <2>2, <2>3
<1>4. q \in Run /\ q.at = "items" /\ q.cat = run[r].cat /\ q.list = run[r].list /\ q.data = Nothing
  BY Parts, Numbers DEF Run
<1> HIDE DEF q
<1>5. OldRun(q)
  BY <1>4, SavedParts, OldThings DEF OldRun, Nothing
<1>6. state' = [state EXCEPT ![Home[r]] = state[Home[r]]] /\ state[Home[r]] \in SyncState
  BY <1>2, Parts
<1> QED
  BY <1>2, <1>3, <1>4, <1>5, <1>6, SavedGoes

LEMMA MergeOld ==
  ASSUME NEW cat \in Catalog, NEW gone \in SUBSET Items, NEW l \in Index, NEW i \in Items
  PROVE  mergeIndex(cat, gone, l).items[i] \in {cat[i], 0, l.items[i]}
BY DEF mergeIndex

LEMMA ReadIndexSaved ==
  ASSUME OneRun, TypeInv, SavedInv, NEW r \in Runs, ReadIndex(r)
  PROVE  SavedInv'
<1> DEFINE s == state[Home[r]]
           list == mergeIndex(run[r].cat, localDeleted(s, run[r].cat), Remote(s))
           q == [run[r] EXCEPT !.at = IF s.index = 0 THEN "uploadIndex" ELSE "index",
                               !.list = list]
<1>1. UNCHANGED state /\ UNCHANGED drive /\ UNCHANGED <<disk, clock, past>>
  BY DEF ReadIndex
<1>2. Go(r, Idle) \/ Go(r, q)
  BY DEF ReadIndex, Remote, localDeleted
<1>3. CASE Go(r, Idle)
  BY <1>1, <1>3, IdleType, OldThings, SavedGoesAlone
<1>4. CASE Go(r, q)
  <2>1. /\ run[r] \in Run /\ run[r].cat \in Catalog /\ Remote(s) \in Index
        /\ localDeleted(s, run[r].cat) \in SUBSET Items
    BY Parts, RunFields, RemoteType DEF localDeleted
  <2>2. \A i \in Items : Remote(s).items[i] <= clock /\ run[r].cat[i] <= clock /\ 0 <= clock
    BY RemoteType, OldThings, SavedParts DEF OldFiles, OldRun
  <2>3. \A i \in Items : list.items[i] \in {run[r].cat[i], 0, Remote(s).items[i]}
    BY <2>1, MergeOld
  <2>4. list \in Index
    BY <2>1, MergeType
  <2> HIDE DEF list
  <2>5. \A i \in Items : list.items[i] <= clock
    BY <2>2, <2>3
  <2>6. /\ q \in Run /\ q.at \in {"uploadIndex", "index"} /\ q.cat = run[r].cat /\ q.list = list
        /\ q.data = run[r].data
    BY <2>1, <2>4 DEF Run
  <2> HIDE DEF q
  <2>7. OldRun(q)
    BY <2>5, <2>6, SavedParts DEF OldRun
  <2> QED
    BY <1>1, <1>4, <2>6, <2>7, SavedGoesAlone
<1> QED
  BY <1>2, <1>3, <1>4

LEMMA IndexedSaved ==
  ASSUME OneRun, TypeInv, SavedInv, NEW r \in Runs, NEW n \in 0 .. MaxNodes, Indexed(r, n),
         Go(r, Idle), UNCHANGED <<disk, clock, past>>, DriveOk', Grows, OldFiles'
  PROVE  SavedInv'
<1> DEFINE s == state[Home[r]]
           cat == run[r].cat
           t == [s EXCEPT !.index = n, !.indexed = cat]
<1>1. s \in SyncState /\ cat \in Catalog \cup {None}
  BY Parts, RunFields
<1>2. state' = [state EXCEPT ![Home[r]] = t]
  BY DEF Indexed, Set
<1>3. t \in SyncState /\ t.items = s.items
  <2> HIDE DEF s, cat
  <2> QED
    BY <1>1 DEF SyncState
<1> HIDE DEF t
<1> QED
  BY <1>2, <1>3, IdleType, OldThings, SavedGoes

LEMMA PutsIndexFile ==
  ASSUME TypeInv, SavedInv, NEW r \in Runs, run[r].at = "index", NEW n, n = state[Home[r]].index,
         PutsList(n, run[r].list), clock' = clock
  PROVE  DriveOk' /\ Grows /\ OldFiles' /\ n \in 0 .. MaxNodes
<1>1. n \in 1 .. Len(drive) /\ n \in 0 .. MaxNodes
  BY PutsIndex
<1>2. DriveOk' /\ Grows /\ Len(drive') = Len(drive)
  BY PutsIndex
<1>3. \A j \in 1 .. Len(drive) : j # n => drive'[j] = drive[j]
  BY PutsIndex
<1>4. drive'[n].now = drive[n].now /\ drive'[n].list = run[r].list
  BY PutsIndex
<1>5. drive'[n].now <= clock /\ \A i \in Items : drive'[n].list.items[i] <= clock
  BY <1>1, <1>4, SavedParts DEF OldFiles, OldRun
<1>6. OldFiles'
  BY <1>1, <1>2, <1>3, <1>5, OldFilesPut
<1> QED
  BY <1>1, <1>2, <1>6

LEMMA PutIndexSaved ==
  ASSUME OneRun, TypeInv, SavedInv, NEW r \in Runs, PutIndex(r)
  PROVE  SavedInv'
<1>1. PICK n : n = state[Home[r]].index
  OBVIOUS
<1>2. run[r].at = "index" /\ PutsList(n, run[r].list)
  BY <1>1 DEF PutIndex, At, PutsList
<1>3. UNCHANGED <<disk, clock, past>> /\ clock' = clock /\ Indexed(r, n) /\ Go(r, Idle)
  BY <1>1 DEF PutIndex
<1>4. DriveOk' /\ Grows /\ OldFiles' /\ n \in 0 .. MaxNodes
  <2>1. clock' = clock
    BY <1>3
  <2> QED
    BY <1>1, <1>2, <2>1, PutsIndexFile
<1> QED
  BY <1>3, <1>4, IndexedSaved

LEMMA UploadIndexSaved ==
  ASSUME OneRun, TypeInv, SavedInv, NEW r \in Runs, UploadIndex(r)
  PROVE  SavedInv'
<1>1. /\ run[r].at = "uploadIndex" /\ Len(drive) < MaxNodes /\ drive' = Append(drive, NewIndex(r))
      /\ clock' = clock
  BY DEF UploadIndex, At
<1>2. UNCHANGED <<disk, clock, past>> /\ Indexed(r, Len(drive')) /\ Go(r, Idle)
  BY DEF UploadIndex
<1>3. /\ Len(drive') \in 0 .. MaxNodes /\ DriveOk' /\ Grows
      /\ NewIndex(r).list = run[r].list /\ NewIndex(r).now = 0
      /\ Len(drive') = Len(drive) + 1 /\ drive'[Len(drive) + 1] = NewIndex(r)
      /\ \A k \in 1 .. Len(drive) : drive'[k] = drive[k]
  BY <1>1, UploadsIndex
<1>4. NewIndex(r).now <= clock /\ \A i \in Items : NewIndex(r).list.items[i] <= clock
  BY <1>3, OldThings, SavedParts DEF OldRun
<1>5. OldFiles'
  BY <1>1, <1>3, <1>4, Parts, OldFilesAdd
<1> QED
  BY <1>2, <1>3, <1>5, IndexedSaved

LEMMA PutIndexFailsSaved ==
  ASSUME OneRun, TypeInv, SavedInv, NEW r \in Runs, PutIndexFails(r)
  PROVE  SavedInv'
<1> DEFINE q == [run[r] EXCEPT !.at = "uploadIndex"]
<1>1. PICK n : n = state[Home[r]].index
  OBVIOUS
<1>2. run[r].at = "index" /\ (PutsList(n, run[r].list) \/ UNCHANGED drive)
  BY <1>1 DEF PutIndexFails, At, PutsList
<1>3. Go(r, q) /\ UNCHANGED state /\ UNCHANGED <<disk, clock, past>>
  BY DEF PutIndexFails
<1>4. DriveOk' /\ Grows /\ OldFiles'
  <2>1. clock' = clock
    BY <1>3
  <2> HIDE DEF q
  <2>2. CASE UNCHANGED drive
    BY <2>1, <2>2, Parts, DriveStays, OldFilesStay
  <2>3. CASE PutsList(n, run[r].list)
    BY <1>1, <1>2, <2>1, <2>3, PutsIndexFile
  <2> QED
    BY <1>2, <2>2, <2>3
<1>5. /\ q \in Run /\ q.at = "uploadIndex" /\ q.cat = run[r].cat /\ q.list = run[r].list
      /\ q.data = run[r].data
  BY Parts DEF Run
<1> HIDE DEF q
<1>6. OldRun(q)
  BY <1>5, SavedParts DEF OldRun
<1>7. state' = [state EXCEPT ![Home[r]] = state[Home[r]]] /\ state[Home[r]] \in SyncState
  BY <1>3, Parts
<1> QED
  BY <1>3, <1>4, <1>5, <1>6, <1>7, SavedGoes

LEMMA CloseSaved ==
  ASSUME OneRun, TypeInv, SavedInv, NEW r \in Runs, Close(r)
  PROVE  SavedInv'
<1>1. UNCHANGED state /\ UNCHANGED drive /\ UNCHANGED <<disk, clock, past>> /\ Go(r, Idle)
  BY DEF Close
<1> QED
  BY <1>1, IdleType, OldThings, SavedGoesAlone

LEMMA ProbeSaved ==
  ASSUME OneRun, TypeInv, SavedInv, NEW r \in Runs, Probe(r)
  PROVE  SavedInv'
<1> DEFINE s == state[Home[r]]
           candidates == IF s.folder # None /\ Live(s.folder) THEN {s.folder}
                         ELSE {f \in Folders : Live(f)}
<1>1. /\ run[r].at = "idle" /\ UNCHANGED drive /\ UNCHANGED <<disk, clock, past>>
      /\ DriveOk /\ s \in SyncState /\ run[r] \in Run
  BY Parts DEF Probe, At
<1>2. candidates \subseteq Folders
  BY <1>1, StateFields
<1>0. DriveOk' /\ Grows /\ OldFiles'
  BY <1>1, DriveStays, OldFilesStay
<1>3. ASSUME NEW f \in candidates, Listed(f, Len(drive), "index") # {}, UNCHANGED state,
             Go(r, [Idle EXCEPT !.at = "ask", !.folder = f, !.seen = Len(drive),
                      !.list = drive[First(Listed(f, Len(drive), "index"))].list])
      PROVE  SavedInv'
  <2> DEFINE k == First(Listed(f, Len(drive), "index"))
             l == drive[k].list
             q == [Idle EXCEPT !.at = "ask", !.folder = f, !.seen = Len(drive), !.list = l]
  <2>1. f \in Folders /\ Len(drive) \in 0 .. MaxNodes /\ Len(drive) \in Nat
    BY <1>1, <1>2 DEF DriveOk
  <2>2. k \in 1 .. Len(drive)
    BY <1>1, <1>3, <2>1, ListedFile
  <2> HIDE DEF k
  <2>3. l \in Index /\ \A i \in Items : l.items[i] <= clock
    BY <1>1, <2>2, NodeFields, SavedParts DEF OldFiles
  <2>4. Go(r, q)
    BY <1>3 DEF k
  <2> HIDE DEF l, candidates
  <2>5. q \in Run /\ q.at = "ask" /\ q.list = l /\ q.cat = Idle.cat /\ q.data = Idle.data
    BY <2>1, <2>3, IdleType DEF Run
  <2> HIDE DEF q
  <2>6. OldRun(q)
    BY <2>3, <2>5, OldThings DEF OldRun
  <2> QED
    BY <1>1, <1>3, <2>4, <2>5, <2>6, SavedGoesAlone
<1>4. ASSUME NEW f \in Folders \cup {None}, Set(Home[r], [s EXCEPT !.ready = TRUE, !.folder = f]),
             UNCHANGED run
      PROVE  SavedInv'
  <2> DEFINE t == [s EXCEPT !.ready = TRUE, !.folder = f]
  <2>1. t \in SyncState /\ t.items = s.items
    BY <1>1, WithReady
  <2>2. state' = [state EXCEPT ![Home[r]] = t] /\ Go(r, run[r])
    BY <1>4, Parts DEF Go, Set
  <2> HIDE DEF t
  <2> QED
    BY <1>0, <1>1, <2>1, <2>2, SavedParts, SavedGoes
<1>5. \/ \E f \in candidates :
           /\ Listed(f, Len(drive), "index") # {} /\ UNCHANGED state
           /\ Go(r, [Idle EXCEPT !.at = "ask", !.folder = f, !.seen = Len(drive),
                       !.list = drive[First(Listed(f, Len(drive), "index"))].list])
      \/ \E f \in (IF candidates = {} THEN {s.folder} ELSE candidates) :
           Set(Home[r], [s EXCEPT !.ready = TRUE, !.folder = f]) /\ UNCHANGED run
  BY DEF Probe
<1>6. (IF candidates = {} THEN {s.folder} ELSE candidates) \subseteq Folders \cup {None}
  BY <1>1, <1>2, StateFields
<1> HIDE DEF candidates
<1> QED
  BY <1>3, <1>4, <1>5, <1>6

LEMMA StartFreshSaved ==
  ASSUME OneRun, TypeInv, SavedInv, NEW r \in Runs, startFresh(r)
  PROVE  SavedInv'
<1> DEFINE s == state[Home[r]]
           t == [s EXCEPT !.ready = TRUE, !.folder = run[r].folder]
<1>1. /\ UNCHANGED <<disk, clock, past>> /\ UNCHANGED drive /\ s \in SyncState
      /\ run[r].folder \in Folders \cup {None}
  BY Parts, RunFields DEF startFresh
<1>2. DriveOk' /\ Grows /\ OldFiles'
  BY <1>1, Parts, DriveStays, OldFilesStay
<1>3. t \in SyncState /\ t.items = s.items
  BY <1>1, WithReady
<1>4. state' = [state EXCEPT ![Home[r]] = t] /\ Go(r, Idle)
  BY DEF startFresh, Set
<1> HIDE DEF t
<1> QED
  BY <1>1, <1>2, <1>3, <1>4, IdleType, OldThings, SavedGoes

LEMMA ChooseSaved ==
  ASSUME OneRun, TypeInv, SavedInv, NEW r \in Runs, NEW choice, Choose(r, choice)
  PROVE  SavedInv'
<1> DEFINE q == run[r]
           here == Held(Home[r])
           found == Found(q.folder, q.seen, q.list)
           todo == IF choice = "replace" THEN found ELSE found \ here
           old == IF choice = "skip" THEN found \cap here ELSE {}
           data == [i \in Items |-> IF i \in todo THEN drive[FileOf(q.folder, q.seen, i)].now ELSE 0]
           t == [q EXCEPT !.at = "write", !.todo = todo, !.old = old, !.data = data]
<1>1. /\ run[r].at = "ask" /\ UNCHANGED state /\ UNCHANGED drive /\ UNCHANGED <<disk, clock, past>>
      /\ Go(r, t)
  BY DEF Choose, At
<1>2. /\ run' \in [Runs -> Run] /\ q \in Run /\ run \in [Runs -> Run] /\ Home[r] \in Devices
      /\ DriveOk /\ FilesInv /\ RestoreOk(q)
  BY Parts, ChooseType DEF TypeInv, TypeOK
<1>3. t \in Run
  BY <1>1, <1>2 DEF Go
<1>4. t.at = "write" /\ t.cat = q.cat /\ t.list = q.list /\ t.data = data
  BY <1>2 DEF Run
<1>5. q.seen <= Len(drive) /\ q.seen \in Nat
  BY <1>1, <1>2, RunFields, Numbers DEF RestoreOk, Restoring
<1>6. \A i \in todo : i \in Items /\ Listed(q.folder, q.seen, i) # {}
  BY DEF Found, Orphans
<1> HIDE DEF todo
<1>7. \A i \in todo : FileOf(q.folder, q.seen, i) \in 1 .. Len(drive)
  BY <1>2, <1>5, <1>6, FoundFile
<1>8. \A i \in Items : data[i] <= clock
  BY <1>7, SavedParts, OldThings DEF OldFiles
<1> HIDE DEF t, data
<1>9. OldRun(t)
  BY <1>4, <1>8, SavedParts DEF OldRun
<1> QED
  BY <1>1, <1>3, <1>4, <1>9, SavedGoesAlone

\* What a restoration writes, a file has; what it was to write over and could not, which it
\* will link as if it had, is remembered.
LEMMA WriteItemsSaved ==
  ASSUME OneRun, TypeInv, SavedInv, NEW r \in Runs, WriteItems(r)
  PROVE  SavedInv'
<1> DEFINE d == Home[r]
<1>1. PICK bad \in SUBSET run[r].todo :
        /\ \A i \in Items : disk'[d][i] =
             IF i \in run[r].todo \ bad
             THEN [bytes |-> run[r].data[i], stamp |-> StampOf(run[r], i)]
             ELSE disk[d][i]
        /\ \A e \in Devices : e # d => disk'[e] = disk[e]
        /\ past'.unwritten[d] = (past.unwritten[d] \ run[r].todo) \cup (bad \cap Held(d))
        /\ \A e \in Devices : e # d => past'.unwritten[e] = past.unwritten[e]
        /\ UNCHANGED <<state, drive, clock>> /\ run[r].at = "write"
        /\ run'[r].at = "link" /\ run'[r].todo = run[r].todo
        /\ run'[r].data = run[r].data /\ run'[r].list = run[r].list /\ run'[r].cat = run[r].cat
        /\ \A i \in Items : StampOf(run'[r], i) = StampOf(run[r], i)
        /\ \A t \in Runs : t # r => run'[t] = run[t]
  BY WritesItems
<1>2. /\ run[r] \in Run /\ run[r].todo \subseteq Items /\ d \in Devices
      /\ \A i \in run[r].todo : Saved(i, run[r].data[i])
  BY <1>1, Parts, RunFields DEF RestoreOk, Restoring
<1>3. \A i \in Items : run[r].data[i] <= clock /\ StampOf(run[r], i) <= clock
  BY SavedParts DEF OldRun, StampOf
<1>4. OldDisk(d)'
  <2>1. ASSUME NEW i \in Items PROVE disk'[d][i].stamp <= clock /\ disk'[d][i].bytes <= clock
    <3>1. CASE i \in run[r].todo \ bad
      <4>1. disk'[d][i] = [bytes |-> run[r].data[i], stamp |-> StampOf(run[r], i)]
        BY <1>1, <3>1
      <4>2. disk'[d][i].bytes = run[r].data[i] /\ disk'[d][i].stamp = StampOf(run[r], i)
        BY <4>1
      <4> QED
        BY <1>3, <4>2
    <3>2. CASE i \notin run[r].todo \ bad
      <4>1. disk'[d][i] = disk[d][i]
        BY <1>1, <3>2
      <4> QED
        BY <4>1, SavedParts DEF OldDisk
    <3> QED
      BY <3>1, <3>2
  <2> QED
    BY <1>1, <2>1 DEF OldDisk
<1>5. ClockInv'
  <2>1. ASSUME NEW e \in Devices PROVE (OldDisk(e) /\ OldState(state[e]))'
    <3>1. OldState(state[e])'
      BY <1>1, <2>1 DEF SavedInv, ClockInv, OldState
    <3>2. CASE e # d
      BY <1>1, <2>1, <3>1, <3>2 DEF SavedInv, ClockInv, OldDisk
    <3> QED
      BY <1>4, <3>1, <3>2
  <2>2. ASSUME NEW t \in Runs PROVE OldRun(run[t])'
    <3>1. OldRun(run[t])
      BY DEF SavedInv, ClockInv
    <3>2. CASE t = r
      BY <1>1, <3>1, <3>2 DEF OldRun
    <3>3. CASE t # r
      BY <1>1, <3>1, <3>3 DEF OldRun
    <3> QED
      BY <3>2, <3>3
  <2>3. OldFiles'
    BY <1>1, OldFilesStay
  <2> QED
    BY <2>1, <2>2, <2>3 DEF ClockInv
<1>6. ASSUME NEW i \in Items, disk'[d][i].stamp # 0, ~Saved(i, disk'[d][i].bytes),
             i \notin past'.unwritten[d]
      PROVE  /\ i \notin run[r].todo /\ disk'[d][i] = disk[d][i]
             /\ i \notin past.unwritten[d]
  <2>1. CASE i \in run[r].todo \ bad
    <3>1. disk'[d][i] = [bytes |-> run[r].data[i], stamp |-> StampOf(run[r], i)]
      BY <1>1, <2>1
    <3>2. disk'[d][i].bytes = run[r].data[i]
      BY <3>1
    <3> QED
      BY <1>2, <1>6, <2>1, <3>2
  <2>2. CASE i \in bad
    <3>1. disk'[d][i] = disk[d][i]
      BY <1>1, <2>2
    <3>2. i \in bad \cap Held(d)
      BY <1>6, <2>2, <3>1 DEF Held
    <3> QED
      BY <1>1, <1>6, <3>2
  <2>3. CASE i \notin run[r].todo
    BY <1>1, <1>6, <2>3
  <2> QED
    BY <2>1, <2>2, <2>3
<1>7. ASSUME NEW e \in Devices, NEW i \in Items,
             disk'[e][i].stamp # 0, ~Saved(i, disk'[e][i].bytes), i \notin past'.unwritten[e]
      PROVE  /\ disk'[e][i].bytes = disk'[e][i].stamp
             /\ ~Linked(state[e], i, disk'[e][i].stamp)
             /\ \A t \in Runs : Home[t] = e => Sends(run'[t], i, disk'[e][i].stamp)
  <2>1. disk'[e][i] = disk[e][i] /\ i \notin past.unwritten[e]
    BY <1>1, <1>6, <1>7
  <2>2. /\ disk[e][i].bytes = disk[e][i].stamp
        /\ ~Linked(state[e], i, disk[e][i].stamp)
        /\ \A t \in Runs : Home[t] = e => Sends(run[t], i, disk[e][i].stamp)
    BY <1>7, <2>1 DEF SavedInv, UnsavedInv, Unsaved
  <2>3. ASSUME NEW t \in Runs, Home[t] = e PROVE Sends(run'[t], i, disk'[e][i].stamp)
    <3>1. CASE t = r
      <4>1. i \notin run[r].todo
        BY <1>6, <1>7, <2>3, <3>1
      <4> QED
        BY <1>1, <3>1, <4>1 DEF Sends
    <3>2. CASE t # r
      BY <1>1, <2>1, <2>2, <2>3, <3>2
    <3> QED
      BY <3>1, <3>2
  <2> QED
    BY <2>1, <2>2, <2>3
<1>8. UnsavedInv'
  <2>1. \A i, b : Saved(i, b)' <=> Saved(i, b)
    BY <1>1 DEF Saved
  <2>2. ASSUME NEW e \in Devices, NEW i \in Items, Unsaved(e, i)'
        PROVE  /\ disk'[e][i].stamp # 0 /\ ~Saved(i, disk'[e][i].bytes)
               /\ i \notin past'.unwritten[e]
    BY <1>1, <2>2 DEF Unsaved, Saved
  <2> QED
    BY <1>1, <1>7, <2>2 DEF UnsavedInv, Linked, Sends, StampOf
<1> QED
  BY <1>5, <1>8 DEF SavedInv

LEMMA LinkItemsSaved ==
  ASSUME OneRun, TypeInv, SavedInv, NEW r \in Runs, LinkItems(r)
  PROVE  SavedInv'
<1> DEFINE s == state[Home[r]]
<1>1. PICK t \in SyncState :
        /\ Set(Home[r], t) /\ t.items = Relinked(run[r], s)
        /\ run[r].at = "link" /\ Go(r, Idle) /\ UNCHANGED <<disk, drive, past, clock>>
  BY LinksItems
<1>2. DriveOk' /\ Grows /\ OldFiles'
  BY <1>1, Parts, DriveStays, OldFilesStay
<1>3. \A i \in Items : StampOf(run[r], i) <= clock /\ 0 <= clock
  BY SavedParts, OldThings DEF OldRun, StampOf
<1>4. ASSUME NEW i \in Items
      PROVE  \/ i \in run[r].todo /\ t.items[i].sig = StampOf(run[r], i)
             \/ i \notin run[r].todo /\ t.items[i].sig = 0
             \/ i \notin run[r].todo /\ t.items[i] = s.items[i]
  BY <1>1 DEF Relinked
<1>5. OldState(t)
  BY <1>3, <1>4, SavedParts DEF OldState
<1>6. ASSUME NEW i \in Items, Unsaved(Home[r], i)
      PROVE  ~Linked(t, i, disk[Home[r]][i].stamp) /\ Sends(Idle, i, disk[Home[r]][i].stamp)
  <2>1. /\ ~Linked(s, i, disk[Home[r]][i].stamp) /\ Sends(run[r], i, disk[Home[r]][i].stamp)
        /\ disk[Home[r]][i].stamp # 0
    BY <1>6, SavedParts DEF Unsaved
  <2>2. Sends(Idle, i, disk[Home[r]][i].stamp)
    BY IdleType DEF Sends
  <2>3. ~Linked(t, i, disk[Home[r]][i].stamp)
    BY <1>1, <1>4, <2>1 DEF Linked, Sends
  <2> QED
    BY <2>2, <2>3
<1>7. /\ state' = [state EXCEPT ![Home[r]] = t] /\ Go(r, Idle) /\ UNCHANGED <<disk, clock, past>>
  BY <1>1 DEF Set
<1> QED
  BY <1>2, <1>5, <1>6, <1>7, IdleType, OldThings, SavedSets

\* The user edits, which no link and no run can know of, or takes items away.
LEMMA SavedAside ==
  ASSUME TypeInv, SavedInv, UNCHANGED <<state, drive, run>>, clock' \in Nat, clock <= clock',
         \A d \in Devices : \A i \in Items :
           \/ disk'[d][i] = disk[d][i] /\ (i \in past.unwritten[d] => i \in past'.unwritten[d])
           \/ disk'[d][i] = NoItem
           \/ disk'[d][i] = [bytes |-> clock', stamp |-> clock'] /\ clock < clock'
  PROVE  SavedInv'
<1>1. /\ clock \in Nat /\ RestOk /\ \A r \in Runs : run[r] \in Run
      /\ \A d \in Devices : state[d] \in SyncState
      /\ DriveOk
  BY OldThings DEF TypeInv, TypeOK, RestOk, DriveOk
<1>2. \A n \in Nat : n <= clock => n <= clock'
  BY <1>1
<1>3. ASSUME NEW d \in Devices PROVE (OldDisk(d) /\ OldState(state[d]))'
  <2>1. ASSUME NEW i \in Items PROVE disk'[d][i].stamp <= clock' /\ disk'[d][i].bytes <= clock'
    <3>1. /\ disk[d][i].stamp <= clock /\ disk[d][i].bytes <= clock
          /\ disk[d][i].stamp \in Nat /\ disk[d][i].bytes \in Nat
      BY <1>1, Numbers DEF SavedInv, ClockInv, OldDisk, RestOk
    <3> QED
      BY <1>2, <3>1 DEF NoItem
  <2>2. ASSUME NEW i \in Items PROVE state[d].items[i].sig <= clock'
    BY <1>1, <1>2, StateFields, Numbers DEF SavedInv, ClockInv, OldState
  <2> QED
    BY <2>1, <2>2 DEF OldDisk, OldState
<1>4. ASSUME NEW r \in Runs PROVE OldRun(run[r])'
  <2>1. /\ run[r].cat \in Catalog /\ run[r].data \in Catalog /\ run[r].list \in Index
        /\ OldRun(run[r])
    BY <1>1, RunFields DEF SavedInv, ClockInv
  <2>2. \A i \in Items : /\ run[r].cat[i] \in Nat /\ run[r].data[i] \in Nat
                         /\ run[r].list.items[i] \in Nat
    BY <2>1, Numbers DEF Catalog, Index
  <2> QED
    BY <1>2, <2>1, <2>2 DEF OldRun
<1>5. OldFiles'
  <2>1. ASSUME NEW k \in 1 .. Len(drive)
        PROVE  drive[k].now <= clock' /\ \A i \in Items : drive[k].list.items[i] <= clock'
    <3>1. drive[k].now \in Nat /\ \A i \in Items : drive[k].list.items[i] \in Nat
      BY <1>1, NodeFields, Numbers DEF Index, Catalog
    <3> QED
      BY <1>2, <3>1 DEF SavedInv, ClockInv, OldFiles
  <2> QED
    BY <2>1 DEF OldFiles
<1>6. ASSUME NEW d \in Devices, NEW i \in Items,
             disk'[d][i].stamp # 0, ~Saved(i, disk'[d][i].bytes), i \notin past'.unwritten[d]
      PROVE  /\ disk'[d][i].bytes = disk'[d][i].stamp
             /\ ~Linked(state[d], i, disk'[d][i].stamp)
             /\ \A r \in Runs : Home[r] = d => Sends(run[r], i, disk'[d][i].stamp)
  <2>1. CASE disk'[d][i] = disk[d][i] /\ (i \in past.unwritten[d] => i \in past'.unwritten[d])
    BY <1>6, <2>1 DEF SavedInv, UnsavedInv, Unsaved
  <2>2. CASE disk'[d][i] = NoItem
    BY <1>6, <2>2 DEF NoItem
  <2>3. CASE disk'[d][i] = [bytes |-> clock', stamp |-> clock'] /\ clock < clock'
    <3>1. disk'[d][i].bytes = clock' /\ disk'[d][i].stamp = clock'
      BY <2>3
    <3>2. ~Linked(state[d], i, clock')
      <4>1. state[d].items[i].sig <= clock /\ state[d].items[i].sig \in Nat
        BY <1>1, StateFields, Numbers DEF SavedInv, ClockInv, OldState
      <4> QED
        BY <1>1, <2>3, <4>1 DEF Linked
    <3>3. ASSUME NEW r \in Runs PROVE Sends(run[r], i, clock')
      <4>1. run[r].cat[i] <= clock /\ StampOf(run[r], i) <= clock
        BY DEF SavedInv, ClockInv, OldRun, StampOf
      <4>2. run[r].cat[i] \in Nat /\ StampOf(run[r], i) \in Nat
        BY <1>1, RunFields, StampType, Numbers DEF Catalog
      <4> QED
        BY <1>1, <2>3, <4>1, <4>2 DEF Sends
    <3> QED
      BY <3>1, <3>2, <3>3
  <2> QED
    BY <2>1, <2>2, <2>3
<1>7. UnsavedInv'
  <2>1. ASSUME NEW d \in Devices, NEW i \in Items, Unsaved(d, i)'
        PROVE  /\ disk'[d][i].stamp # 0 /\ ~Saved(i, disk'[d][i].bytes)
               /\ i \notin past'.unwritten[d]
    BY <2>1 DEF Unsaved, Saved
  <2> QED
    BY <1>6, <2>1 DEF UnsavedInv, Linked, Sends, StampOf
<1> QED
  BY <1>3, <1>4, <1>5, <1>7 DEF SavedInv, ClockInv

LEMMA UserSaved ==
  ASSUME OneRun, TypeInv, SavedInv, NEW d \in Devices, User(d)
  PROVE  SavedInv'
<1>1. /\ RestOk /\ state \in [Devices -> SyncState] /\ run \in [Runs -> Run] /\ DriveOk
      /\ clock \in Nat /\ clock <= clock
  BY OldThings DEF TypeInv, TypeOK, RestOk, DriveOk
<1>2. ASSUME NEW i \in Items, Edit(d, i) PROVE SavedInv'
  <2>1. UNCHANGED <<state, drive, run>> /\ clock' = clock + 1
    BY <1>2 DEF Edit
  <2>2. disk' = [disk EXCEPT ![d][i] = [bytes |-> clock', stamp |-> clock']]
    BY <1>2 DEF Edit
  <2>3. \A e \in Devices : \A j \in Items :
          \/ disk'[e][j] = disk[e][j] /\ ~(e = d /\ j = i)
          \/ disk'[e][j] = [bytes |-> clock', stamp |-> clock']
    BY <1>1, <2>2 DEF RestOk
  <2>5. \A e \in Devices : \A j \in Items :
          ~(e = d /\ j = i) => (j \in past.unwritten[e] => j \in past'.unwritten[e])
    BY <1>1, <1>2 DEF RestOk, Edit, Past
  <2>4. clock' \in Nat /\ clock < clock' /\ clock <= clock'
    BY <1>1, <2>1
  <2> QED
    BY <2>1, <2>3, <2>4, <2>5, SavedAside
<1>3. ASSUME NEW i \in Items, EraseItem(d, i) PROVE SavedInv'
  <2>1. UNCHANGED <<state, drive, run>> /\ clock' = clock
    BY <1>3 DEF EraseItem
  <2>2. disk' = [disk EXCEPT ![d][i] = NoItem]
    BY <1>3 DEF EraseItem
  <2>3. \A e \in Devices : \A j \in Items : disk'[e][j] = disk[e][j] \/ disk'[e][j] = NoItem
    BY <1>1, <2>2 DEF RestOk
  <2>4. past'.unwritten = past.unwritten
    BY <1>1, <1>3 DEF RestOk, EraseItem, Past
  <2> QED
    BY <1>1, <2>1, <2>3, <2>4, SavedAside
<1>4. CASE Wipe(d)
  <2>1. UNCHANGED drive /\ clock' = clock /\ disk' = [disk EXCEPT ![d] = [i \in Items |-> NoItem]]
    BY <1>4 DEF Wipe
  <2>2. /\ \A e \in Devices : e # d => disk'[e] = disk[e]
        /\ \A i \in Items : disk'[d][i] = NoItem
    BY <1>1, <2>1 DEF RestOk
  <2>6. past'.unwritten = past.unwritten
    BY <1>1, <1>4 DEF RestOk, Wipe, Past
  <2>3. CASE UNCHANGED <<state, run>>
    BY <1>1, <2>1, <2>2, <2>3, <2>6, SavedAside
  <2>4. CASE /\ state' = [state EXCEPT ![d] = emptyState]
             /\ run' = [r \in Runs |-> IF Home[r] = d THEN Idle ELSE run[r]]
    <3>1. /\ state'[d] = emptyState /\ \A e \in Devices : e # d => state'[e] = state[e]
          /\ \A r \in Runs : Home[r] = d => run'[r] = Idle
          /\ \A r \in Runs : Home[r] # d => run'[r] = run[r]
      BY <1>1, <2>4
    <3>2. ClockInv'
      <4>1. ASSUME NEW e \in Devices PROVE (OldDisk(e) /\ OldState(state[e]))'
        <5>1. CASE e = d
          BY <2>1, <2>2, <3>1, <5>1, OldThings DEF OldDisk, OldState, NoItem
        <5>2. CASE e # d
          BY <2>1, <2>2, <3>1, <5>2 DEF SavedInv, ClockInv, OldDisk, OldState
        <5> QED
          BY <5>1, <5>2
      <4>2. ASSUME NEW r \in Runs PROVE OldRun(run[r])'
        BY <2>1, <3>1, OldThings DEF SavedInv, ClockInv, OldRun
      <4>3. OldFiles'
        BY <2>1, OldFilesStay
      <4> QED
        BY <4>1, <4>2, <4>3 DEF ClockInv
    <3>3. ASSUME NEW e \in Devices, NEW i \in Items, Unsaved(e, i)'
          PROVE  /\ disk'[e][i].bytes = disk'[e][i].stamp
                 /\ ~Linked(state'[e], i, disk'[e][i].stamp)
                 /\ \A r \in Runs : Home[r] = e => Sends(run'[r], i, disk'[e][i].stamp)
      <4>1. e # d
        BY <2>2, <3>3 DEF Unsaved, NoItem
      <4>2. Unsaved(e, i)
        BY <2>1, <2>2, <2>6, <3>3, <4>1 DEF Unsaved, Saved
      <4> QED
        BY <2>2, <3>1, <4>1, <4>2 DEF SavedInv, UnsavedInv
    <3>4. UnsavedInv'
      BY <3>3 DEF UnsavedInv, Linked, Sends, StampOf
    <3> QED
      BY <3>2, <3>4 DEF SavedInv
  <2>5. UNCHANGED <<state, run>> \/ /\ state' = [state EXCEPT ![d] = emptyState]
                                    /\ run' = [r \in Runs |-> IF Home[r] = d THEN Idle ELSE run[r]]
    BY <1>4 DEF Wipe
  <2> QED
    BY <2>3, <2>4, <2>5
<1> QED
  BY <1>2, <1>3, <1>4 DEF User

LEMMA SavedNext ==
  ASSUME OneRun, TypeInv, SavedInv, [Next]_vars
  PROVE  SavedInv'
<1>0. clock \in Nat
  BY OldThings
<1>1. CASE UNCHANGED vars
  <2>1. /\ UNCHANGED <<state, drive, run>> /\ clock' \in Nat /\ clock <= clock'
        /\ UNCHANGED <<disk, past>>
    BY <1>0, <1>1 DEF vars
  <2> QED
    BY <2>1, SavedAside
<1>2. ASSUME NEW d \in Devices, User(d) PROVE SavedInv'
  BY <1>2, UserSaved
<1>3. ASSUME NEW f \in Folders, LoseFolder(f) PROVE SavedInv'
  <2>1. /\ UNCHANGED <<state, drive, run>> /\ clock' \in Nat /\ clock <= clock'
        /\ UNCHANGED <<disk, past>>
    BY <1>0, <1>3 DEF LoseFolder
  <2> QED
    BY <2>1, SavedAside
<1>4. ASSUME NEW r \in Runs, Push(r) PROVE SavedInv'
  BY <1>4, StartSaved, FolderSaved, ReadItemSaved, UpdateItemSaved,
     UploadItemSaved, ReadIndexSaved, PutIndexSaved, UploadIndexSaved DEF Push
<1>5. ASSUME NEW r \in Runs, Reconcile(r) PROVE SavedInv'
  BY <1>1, <1>5, ProbeSaved, StartFreshSaved, ChooseSaved, WriteItemsSaved, LinkItemsSaved DEF Reconcile
<1>6. ASSUME NEW r \in Runs, Failure(r) PROVE SavedInv'
  BY <1>6, UpdateItemFailsSaved, UploadItemFailsSaved, PutIndexFailsSaved, CloseSaved DEF Failure
<1> QED
  BY <1>1, <1>2, <1>3, <1>4, <1>5, <1>6 DEF Next

\* Whatever is edited while it is read and sent, however the uploads fail, an item that is
\* linked under its present stamp has a file with its present content, unless a restoration
\* was to replace this content and did not write: Sent records the stamp of the catalogue
\* that was read before the content (syncOnce), restoreIncremental that of what it
\* downloaded.
THEOREM SavedCorrect == ASSUME OneRun PROVE Spec => []SavedUnlessUnwritten
<1>1. Init => TypeInv /\ SavedInv
  BY InitType, InitSaved
<1>2. TypeInv /\ SavedInv /\ [Next]_vars => (TypeInv /\ SavedInv)'
  BY TypeNext, SavedNext
<1>3. TypeInv /\ SavedInv => SavedUnlessUnwritten
  BY DEF SavedUnlessUnwritten, TakenForSent, SavedInv, UnsavedInv, Unsaved, Linked
<1> QED
  BY <1>1, <1>2, <1>3, PTL DEF Spec

=============================================================================
