------------------------------ MODULE DriveSync ------------------------------
(***************************************************************************)
(* The backup of a local workspace to the account's Drive: the engine      *)
(* (drive-sync.ts), its controller (sync-controller.ts) and its access to  *)
(* the Drive (sync-remote.ts).                                             *)
(*                                                                         *)
(* Several devices of one account push to one folder: a file for each      *)
(* item, and an index of the items that is read, merged and written back   *)
(* with no compare-and-set.  Beside its items a device keeps links to the  *)
(* files it has sent.  A device without them is reconciled before it       *)
(* pushes: what the folder holds is restored, or set aside by the user.    *)
(***************************************************************************)
EXTENDS Naturals, Sequences

CONSTANTS Devices,    \* browsers of the account
          Runs, Home, \* runs of the engine or restorations, and where they run
          Items, Folders,
          MaxEdits, MaxNodes, MaxFaults, MaxTurns,   \* bounds
          None

ASSUME DriveSyncAssumption ==
  /\ Home \in [Runs -> Devices]
  /\ None \notin Folders /\ None \notin Items /\ "index" \notin Items
  /\ MaxEdits \in Nat /\ MaxNodes \in Nat /\ MaxFaults \in Nat
  /\ MaxTurns \in Nat

VARIABLES disk,     \* the items of each device: their content, and their stamp in its catalogue
          state,    \* SyncState, in the localStorage of each device
          folders,  \* backup folders: not yet there, live, lost (in the trash, or shared)
          drive,    \* the files, in the order of their creation
          run,      \* what each run is at
          clock, faults, turns,   \* edits made, failures, runs begun so far
          past      \* history: items ever created, erased by the user, lost otherwise; on
                    \* each device, those that a restoration was to replace and did not write

vars == <<disk, state, folders, drive, run, clock, faults, turns, past>>

Stamp   == 0 .. MaxEdits          \* a content, or modifiedAt|size; 0 when there is none
Catalog == [Items -> Stamp]
Nothing == [i \in Items |-> 0]

NoLink == [node |-> 0, sig |-> 0]
Link   == [node : 0 .. MaxNodes, sig : Stamp]

emptyState == [ready |-> FALSE, folder |-> None, items |-> [i \in Items |-> NoLink],
               index |-> 0, indexed |-> None]
SyncState  == [ready : BOOLEAN, folder : Folders \cup {None}, items : [Items -> Link],
               index : 0 .. MaxNodes,   \* the index this device writes to, 0 for none
               indexed : Catalog \cup {None}]   \* the catalogue it was last written for

NoIndex == [items |-> Nothing, deleted |-> {}]
Index   == [items : Catalog, deleted : SUBSET Items]

\* A file: its content, and all the contents it ever had (the server keeps the
\* versions); for an index, its list.
Node == [name : Items \cup {"index"}, folder : Folders,
         now : Stamp, kept : SUBSET Stamp, list : Index]

Idle == [at |-> "idle", cat |-> Nothing, mem |-> emptyState, todo |-> {}, item |-> None,
         data |-> Nothing, list |-> NoIndex, folder |-> None, seen |-> 0, old |-> {}]

Run == [at : {"idle", "check", "find", "create", "items", "put", "upload", "index",
              "uploadIndex", "ask", "write", "link"},
        cat : Catalog, mem : SyncState,     \* catalogue and state, as they were read
        todo : SUBSET Items, item : Items \cup {None}, data : Catalog, list : Index,
        folder : Folders \cup {None}, seen : 0 .. MaxNodes,   \* the folder listed, and how far
        old : SUBSET Items]                 \* what a restoration keeps as it is

Past == [born : SUBSET Items, erased : SUBSET Items, lost : SUBSET Items,
         unwritten : [Devices -> SUBSET Items]]

TypeOK ==
  /\ disk \in [Devices -> [Items -> [bytes : Stamp, stamp : Stamp]]]
  /\ state \in [Devices -> SyncState]
  /\ folders \in [Folders -> {"none", "live", "lost"}]
  /\ drive \in Seq(Node) /\ Len(drive) <= MaxNodes
  /\ run \in [Runs -> Run]
  /\ clock \in Stamp /\ faults \in 0 .. MaxFaults /\ turns \in 0 .. MaxTurns
  /\ past \in Past

NoItem == [bytes |-> 0, stamp |-> 0]

Init ==
  /\ disk = [d \in Devices |-> [i \in Items |-> NoItem]]
  /\ state = [d \in Devices |-> emptyState]
  /\ folders = [f \in Folders |-> "none"]
  /\ drive = <<>>
  /\ run = [r \in Runs |-> Idle]
  /\ clock = 0 /\ faults = 0 /\ turns = 0
  /\ past = [born |-> {}, erased |-> {}, lost |-> {}, unwritten |-> [d \in Devices |-> {}]]

-----------------------------------------------------------------------------
(* The folder, as a listing of it up to its n-th file shows it.            *)

catalogOf(d) == [i \in Items |-> disk[d][i].stamp]
Held(d)      == {i \in Items : disk[d][i].stamp # 0}

Listed(f, n, name) == {k \in 1 .. n : drive[k].folder = f /\ drive[k].name = name}
Live(f)            == folders[f] = "live"

\* The listing is in the order of creation: of several indexes the first one is
\* read, of several files of an item the last one.
First(S) == CHOOSE k \in S : \A j \in S : k <= j
Last(S)  == CHOOSE k \in S : \A j \in S : j <= k

FileOf(f, n, i) == Last(Listed(f, n, i))

\* Mutant of Orphans: files that the index does not list are left alone.
OrphansIgnored(f, n, list) == {}

\* probeRemote: the items of the index that have a file, and the files of which
\* the index knows nothing, not even a deletion (orphanItems).
Orphans(f, n, list) == {i \in Items \ list.deleted : list.items[i] = 0 /\ Listed(f, n, i) # {}}
Found(f, n, list)   == {i \in Items : list.items[i] # 0 /\ Listed(f, n, i) # {}}
                         \cup Orphans(f, n, list)

\* mergeIndex: the local catalogue, and what the other index has that is
\* neither here nor deleted on either side.
mergeIndex(cat, localDeleted, remote) ==
  LET deleted == {i \in remote.deleted \cup localDeleted : cat[i] = 0}
  IN  [items   |-> [i \in Items |-> IF cat[i] # 0 THEN cat[i]
                                    ELSE IF i \in deleted THEN 0 ELSE remote.items[i]],
       deleted |-> deleted]

-----------------------------------------------------------------------------
(* The user.                                                               *)

\* An item is created or changed: its content, then its catalogue entry.
Edit(d, i) ==
  /\ clock < MaxEdits /\ (disk[d][i].stamp # 0 \/ i \notin past.born)
  /\ clock' = clock + 1
  /\ disk' = [disk EXCEPT ![d][i] = [bytes |-> clock', stamp |-> clock']]
  /\ past' = [past EXCEPT !.born = @ \cup {i}, !.unwritten[d] = @ \ {i}]
  /\ UNCHANGED <<state, folders, drive, run, faults, turns>>

\* deleteForever, emptyTrash.
EraseItem(d, i) ==
  /\ disk[d][i].stamp # 0
  /\ disk' = [disk EXCEPT ![d][i] = NoItem]
  /\ past' = [past EXCEPT !.erased = @ \cup {i}]
  /\ UNCHANGED <<state, folders, drive, run, clock, faults, turns>>

\* The data of a device are gone: with its links, and the page is loaded again
\* (wipeLocalWorkspaceData, a new browser), or without them (resetVault).
Wipe(d) ==
  /\ faults < MaxFaults /\ faults' = faults + 1
  /\ disk' = [disk EXCEPT ![d] = [i \in Items |-> NoItem]]
  /\ \/ /\ state' = [state EXCEPT ![d] = emptyState]
        /\ run' = [r \in Runs |-> IF Home[r] = d THEN Idle ELSE run[r]]
        /\ UNCHANGED past
     \/ past' = [past EXCEPT !.lost = @ \cup Held(d)] /\ UNCHANGED <<state, run>>
  /\ UNCHANGED <<folders, drive, clock, turns>>

\* The backup folder is put in the trash, or shared.
LoseFolder(f) ==
  /\ faults < MaxFaults /\ faults' = faults + 1
  /\ Live(f) /\ folders' = [folders EXCEPT ![f] = "lost"]
  /\ UNCHANGED <<disk, state, drive, run, clock, turns, past>>

-----------------------------------------------------------------------------
(* Pushing: syncOnce.                                                      *)

At(r, step) == run[r].at = step
Go(r, q)    == run' = [run EXCEPT ![r] = q]
Set(d, s)   == state' = [state EXCEPT ![d] = s]
Turn        == turns < MaxTurns /\ turns' = turns + 1
Fail        == faults < MaxFaults /\ faults' = faults + 1

\* A timer fires, or the user asks.  An empty workspace that has sent items before is not
\* pushed: it has to be reconciled again.
Start(r) ==
  LET d == Home[r]  s == state[d]
  IN  /\ At(r, "idle") /\ s.ready /\ Turn
      /\ IF Held(d) = {} /\ \E i \in Items : s.items[i] # NoLink
         THEN Set(d, [s EXCEPT !.ready = FALSE]) /\ UNCHANGED run
         ELSE /\ Go(r, [Idle EXCEPT !.at = IF s.folder = None THEN "find" ELSE "check",
                                    !.cat = catalogOf(d), !.mem = s])
              /\ UNCHANGED state
      /\ UNCHANGED <<disk, folders, drive, clock, faults, past>>

\* Mutant of Begin: the folder is not kept in the state.
BeginForgetful(r, f) ==
  LET q == run[r]
  IN  /\ Set(Home[r], q.mem)
      /\ Go(r, [q EXCEPT !.at = "items",
                         !.todo = {i \in Items : q.cat[i] # 0 /\ q.mem.items[i].sig # q.cat[i]}])

\* Sends what changed since the state that was read, which is written back.
Begin(r, f) ==
  LET q == run[r]  s == [q.mem EXCEPT !.folder = f]
  IN  /\ Set(Home[r], s)
      /\ Go(r, [q EXCEPT !.at = "items", !.mem = s,
                         !.todo = {i \in Items : q.cat[i] # 0 /\ s.items[i].sig # q.cat[i]}])

\* checkFolder: a folder that is no longer safe is forgotten with every link,
\* unless it was verified a few minutes ago.
Check(r) ==
  /\ At(r, "check")
  /\ \/ Begin(r, run[r].mem.folder)
     \/ /\ ~Live(run[r].mem.folder)
        /\ Set(Home[r], emptyState) /\ Go(r, Idle)
  /\ UNCHANGED <<disk, folders, drive, clock, faults, turns, past>>

\* ensureFolder: one that is there, ...
FindFolder(r) ==
  /\ At(r, "find")
  /\ IF \E f \in Folders : Live(f)
     THEN \E f \in Folders : Live(f) /\ Begin(r, f)
     ELSE Go(r, [run[r] EXCEPT !.at = "create"]) /\ UNCHANGED state
  /\ UNCHANGED <<disk, folders, drive, clock, faults, turns, past>>

\* ... or a new one.
CreateFolder(r) ==
  /\ At(r, "create")
  /\ \E f \in Folders : /\ folders[f] = "none"
                        /\ folders' = [folders EXCEPT ![f] = "live"]
                        /\ Begin(r, f)
  /\ UNCHANGED <<disk, drive, clock, faults, turns, past>>

\* The content of an item, as it is now; nothing to send if it has gone.
ReadItem(r, i) ==
  LET q == run[r]  bytes == disk[Home[r]][i].bytes
  IN  /\ At(r, "items") /\ i \in q.todo
      /\ Go(r, IF bytes = 0 THEN [q EXCEPT !.todo = @ \ {i}]
               ELSE [q EXCEPT !.at = IF q.mem.items[i].node = 0 THEN "upload" ELSE "put",
                              !.item = i, !.todo = @ \ {i}, !.data[i] = bytes])
      /\ UNCHANGED <<disk, state, folders, drive, clock, faults, turns, past>>

\* Mutant of Sent: the link is recorded under the stamp of the moment.
SentNow(r, node) ==
  LET q == run[r]
      s == [state[Home[r]] EXCEPT !.items[q.item] =
              [node |-> node, sig |-> disk[Home[r]][q.item].stamp]]
  IN  /\ Set(Home[r], s)
      /\ Go(r, [q EXCEPT !.at = "items", !.mem = s, !.item = None, !.data = Nothing])

\* The link is recorded under the stamp of the catalogue that was read, not
\* under that of the moment.
Sent(r, node) ==
  LET q == run[r]
      s == [state[Home[r]] EXCEPT !.items[q.item] = [node |-> node, sig |-> q.cat[q.item]]]
  IN  /\ Set(Home[r], s)
      /\ Go(r, [q EXCEPT !.at = "items", !.mem = s, !.item = None, !.data = Nothing])

Content(r) == run[r].data[run[r].item]

NewFile(r) == [name |-> run[r].item, folder |-> run[r].mem.folder, now |-> Content(r),
               kept |-> {Content(r)}, list |-> NoIndex]

\* A new version of the linked file, ...
UpdateItem(r) ==
  LET n == run[r].mem.items[run[r].item].node
  IN  /\ At(r, "put")
      /\ drive' = [drive EXCEPT ![n].now = Content(r), ![n].kept = @ \cup {Content(r)}]
      /\ Sent(r, n)
      /\ UNCHANGED <<disk, folders, clock, faults, turns, past>>

\* ... or, whatever the failure, stored or not, ...
UpdateItemFails(r) ==
  LET n == run[r].mem.items[run[r].item].node
  IN  /\ At(r, "put") /\ Fail
      /\ \/ drive' = [drive EXCEPT ![n].now = Content(r), ![n].kept = @ \cup {Content(r)}]
         \/ UNCHANGED drive
      /\ Go(r, [run[r] EXCEPT !.at = "upload"])
      /\ UNCHANGED <<disk, state, folders, clock, turns, past>>

\* ... a new file.
UploadItem(r) ==
  /\ At(r, "upload") /\ Len(drive) < MaxNodes
  /\ drive' = Append(drive, NewFile(r))
  /\ Sent(r, Len(drive'))
  /\ UNCHANGED <<disk, folders, clock, faults, turns, past>>

\* The item is reported and the others go on.
UploadItemFails(r) ==
  /\ At(r, "upload") /\ Fail
  /\ \/ Len(drive) < MaxNodes /\ drive' = Append(drive, NewFile(r))
     \/ UNCHANGED drive
  /\ Go(r, [run[r] EXCEPT !.at = "items", !.item = None, !.data = Nothing])
  /\ UNCHANGED <<disk, state, folders, clock, turns, past>>

\* The index, unless it was written for this catalogue: the one in the Drive is
\* read and merged.  An item that is linked and not in the catalogue counts as
\* deleted here.
ReadIndex(r) ==
  LET q == run[r]  s == state[Home[r]]
      localDeleted == {i \in Items : s.items[i] # NoLink /\ q.cat[i] = 0}
      remote == IF s.index = 0 THEN NoIndex ELSE drive[s.index].list
  IN  /\ At(r, "items") /\ q.todo = {}
      /\ IF s.index # 0 /\ s.indexed = q.cat
         THEN Go(r, Idle)
         ELSE Go(r, [q EXCEPT !.at = IF s.index = 0 THEN "uploadIndex" ELSE "index",
                              !.list = mergeIndex(q.cat, localDeleted, remote)])
      /\ UNCHANGED <<disk, state, folders, drive, clock, faults, turns, past>>

Indexed(r, node) ==
  Set(Home[r], [state[Home[r]] EXCEPT !.index = node, !.indexed = run[r].cat])

NewIndex(r) == [name |-> "index", folder |-> run[r].mem.folder, now |-> 0, kept |-> {},
                list |-> run[r].list]

\* putPiece: the known index is overwritten, ...
PutIndex(r) ==
  LET n == state[Home[r]].index
  IN  /\ At(r, "index")
      /\ drive' = [drive EXCEPT ![n].list = run[r].list]
      /\ Indexed(r, n) /\ Go(r, Idle)
      /\ UNCHANGED <<disk, folders, clock, faults, turns, past>>

PutIndexFails(r) ==
  LET n == state[Home[r]].index
  IN  /\ At(r, "index") /\ Fail
      /\ \/ drive' = [drive EXCEPT ![n].list = run[r].list]
         \/ UNCHANGED drive
      /\ Go(r, [run[r] EXCEPT !.at = "uploadIndex"])
      /\ UNCHANGED <<disk, state, folders, clock, turns, past>>

\* ... or a new one is created.
UploadIndex(r) ==
  /\ At(r, "uploadIndex") /\ Len(drive) < MaxNodes
  /\ drive' = Append(drive, NewIndex(r))
  /\ Indexed(r, Len(drive')) /\ Go(r, Idle)
  /\ UNCHANGED <<disk, folders, clock, faults, turns, past>>

-----------------------------------------------------------------------------
(* Reconciling: probeRemote, restoreIncremental, startFresh.               *)

\* The folder is looked for, the known one first, and listed; its index is read,
\* and the user is asked.  Without an index there is nothing to restore: the
\* device may push.
Probe(r) ==
  LET d == Home[r]  s == state[d]
      candidates == IF s.folder # None /\ Live(s.folder) THEN {s.folder}
                    ELSE {f \in Folders : Live(f)}
      index(f) == Listed(f, Len(drive), "index")
  IN  /\ At(r, "idle") /\ Turn
      /\ \/ \E f \in candidates :
              /\ index(f) # {}
              /\ Go(r, [Idle EXCEPT !.at = "ask", !.folder = f, !.seen = Len(drive),
                                    !.list = drive[First(index(f))].list])
              /\ UNCHANGED state
         \/ /\ ~s.ready /\ \A f \in candidates : index(f) = {}
            /\ \E f \in IF candidates = {} THEN {s.folder} ELSE candidates :
                 Set(d, [s EXCEPT !.ready = TRUE, !.folder = f])
            /\ UNCHANGED run
      /\ UNCHANGED <<disk, folders, drive, clock, faults, past>>

\* « Start afresh ».
startFresh(r) ==
  /\ At(r, "ask")
  /\ Set(Home[r], [state[Home[r]] EXCEPT !.ready = TRUE, !.folder = run[r].folder])
  /\ Go(r, Idle)
  /\ UNCHANGED <<disk, folders, drive, clock, faults, turns, past>>

\* planBackupRestore: what is not here is added; what is here is replaced, kept,
\* or kept beside a copy (which is an item like another).  The contents are
\* downloaded, ...
Choose(r, choice) ==
  LET q == run[r]  here == Held(Home[r])
      found == Found(q.folder, q.seen, q.list)
      todo  == IF choice = "replace" THEN found ELSE found \ here
  IN  /\ At(r, "ask")
      /\ Go(r, [q EXCEPT !.at = "write", !.todo = todo,
                         !.old = IF choice = "skip" THEN found \cap here ELSE {},
                         !.data = [i \in Items |-> IF i \in todo
                                                   THEN drive[FileOf(q.folder, q.seen, i)].now ELSE 0]])
      /\ UNCHANGED <<disk, state, folders, drive, clock, faults, turns, past>>

\* The date of an item that the index does not list is that of its file.
StampOf(q, i) == IF q.list.items[i] # 0 THEN q.list.items[i] ELSE q.data[i]

\* ... written, an item that fails being passed over, ...
WriteItems(r) ==
  LET q == run[r]  d == Home[r]
  IN  /\ At(r, "write")
      /\ \E bad \in SUBSET q.todo :
           /\ IF bad = {} THEN UNCHANGED faults ELSE Fail
           /\ disk' = [disk EXCEPT ![d] = [i \in Items |->
                IF i \in q.todo \ bad THEN [bytes |-> q.data[i], stamp |-> StampOf(q, i)] ELSE @[i]]]
           /\ past' = [past EXCEPT !.lost = @ \cup (bad \ Held(d)),
                                   !.unwritten[d] = (@ \ q.todo) \cup (bad \cap Held(d))]
      /\ Go(r, [q EXCEPT !.at = "link"])
      /\ UNCHANGED <<state, folders, drive, clock, turns>>

\* ... and linked, all of them.  Of several indexes the last one is linked.
LinkItems(r) ==
  LET q == run[r]  s == state[Home[r]]
  IN  /\ At(r, "link")
      /\ Set(Home[r], [s EXCEPT
           !.ready = TRUE, !.folder = q.folder,
           !.items = [i \in Items |->
             IF i \in q.todo \cup q.old
             THEN [node |-> FileOf(q.folder, q.seen, i), sig |-> IF i \in q.todo THEN StampOf(q, i) ELSE 0]
             ELSE @[i]],
           !.index = Last(Listed(q.folder, q.seen, "index")), !.indexed = None])
      /\ Go(r, Idle)
      /\ UNCHANGED <<disk, folders, drive, clock, faults, turns, past>>

\* The run fails, or the tab is closed: the next one starts with what the device
\* has kept.
Close(r) ==
  /\ ~At(r, "idle") /\ Go(r, Idle)
  /\ UNCHANGED <<disk, state, folders, drive, clock, faults, turns, past>>

-----------------------------------------------------------------------------

Push(r) == \/ Start(r) \/ Check(r) \/ FindFolder(r) \/ CreateFolder(r)
           \/ (\E i \in Items : ReadItem(r, i)) \/ UpdateItem(r) \/ UploadItem(r)
           \/ ReadIndex(r) \/ PutIndex(r) \/ UploadIndex(r)

Reconcile(r) == \/ Probe(r) \/ startFresh(r)
                \/ (\E choice \in {"both", "replace", "skip"} : Choose(r, choice))
                \/ WriteItems(r) \/ LinkItems(r)

Failure(r) == UpdateItemFails(r) \/ UploadItemFails(r) \/ PutIndexFails(r) \/ Close(r)

User(d) == Wipe(d) \/ \E i \in Items : Edit(d, i) \/ EraseItem(d, i)

Next == \/ \E d \in Devices : User(d)
        \/ \E f \in Folders : LoseFolder(f)
        \/ \E r \in Runs : Push(r) \/ Reconcile(r) \/ Failure(r)

Spec == Init /\ [][Next]_vars

-----------------------------------------------------------------------------
(* Properties.                                                             *)

\* The device takes what it holds under i for sent.
TakenForSent(d, i) ==
  LET link == state[d].items[i]
  IN  disk[d][i].stamp # 0 /\ link.node # 0 /\ link.sig = disk[d][i].stamp

\* A file of the item has, or had, this content.
Saved(i, b) == \E k \in 1 .. Len(drive) : drive[k].name = i /\ b \in drive[k].kept

\* What a device takes for sent was sent: a file of the item has, or had, the
\* content that is on the device, however the item was edited while it was read
\* and sent, or while it was restored.
SavedKept ==
  \A d \in Devices : \A i \in Items : TakenForSent(d, i) => Saved(i, disk[d][i].bytes)

\* The same, but for a content that a restoration was to replace and could not write over,
\* until it is edited or written (restoreIncremental passes the failure over, and links).
SavedUnlessUnwritten ==
  \A d \in Devices : \A i \in Items \ past.unwritten[d] :
    TakenForSent(d, i) => Saved(i, disk[d][i].bytes)

\* The items with a file in a folder that a new device would not be offered.
Forgotten(f) ==
  LET n == Len(drive)  index == Listed(f, n, "index")
  IN  IF index = {} THEN {}
      ELSE {i \in Items : Listed(f, n, i) # {}} \ Found(f, n, drive[First(index)].list)

\* Whichever devices write over each other's index, a new device is offered
\* every item that was sent, unless somebody erased it, or a device lost it
\* and took that for a deletion.
NotForgottenUnlessLost == \A f \in Folders : Forgotten(f) \subseteq past.erased \cup past.lost

\* « An empty local workspace (data wiped, vault reset) must never become the
\* version of the Drive »: only what the user erased is forgotten.
NotForgotten == \A f \in Folders : Forgotten(f) \subseteq past.erased
=============================================================================
