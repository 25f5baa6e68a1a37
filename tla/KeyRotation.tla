---------------------------- MODULE KeyRotation ----------------------------
(***************************************************************************)
(* Rotation of the content key of one file node of the Drive: the client   *)
(* procedure of web-studio/src/drive-cloud/rotate.ts against the server's  *)
(* handlers in server/src/routes/nodes.ts and versions.ts.                 *)
(*                                                                         *)
(* A content key (CEK) is named by the epoch at which it was installed, so *)
(* key k was the node's key while node.epoch = k.  A blob is abstracted to *)
(* the key its bytes are encrypted under.  The server never sees a key: it *)
(* only stamps each version row with an epoch, and the difference between  *)
(* the stamp and the real key of the bytes is what this module is about.   *)
(***************************************************************************)
EXTENDS Naturals

CONSTANTS
    Managers,       \* clients allowed to rotate (node.acl.manage, node.share.manage)
    Writers,        \* clients allowed to upload (node.edit)
    LegacyWriters,  \* writers sending no base headers (LEGACY_CLIENT_COMPAT)
    Restorers,      \* clients allowed to restore a version (node.version.restore)
    Impatient,      \* managers that may leave a request behind, still in flight
    LegacyManagers, \* managers whose rotation names no expectedEpoch (nodes.ts:518)
    Outdated,       \* clients whose share row may carry a replaced key (shares.ts:274)
    Refs,           \* references of blobs in the object store
    Vers,           \* identifiers of version rows
    None,           \* SQL NULL, JavaScript null
    MaxEpoch,       \* bound on the number of rotations
    MaxFaults       \* bound on server crashes

VARIABLES
    node,      \* the row of table nodes
    rows,      \* the rows of table node_versions, None where there is none yet
    blob,      \* object store: the key each stored blob is encrypted under, 0 if none
    puts,      \* PUT /nodes/:id/versions/:versionId/content requests being served
    mgr,       \* each manager's run of rotateNode or repairInterruptedRotation
    upload,    \* each writer's PUT /nodes/:id/content being served, or None
    restore,   \* each restorer's POST .../restore being served, or None
    faults     \* server crashes so far

vars == <<node, rows, blob, puts, mgr, upload, restore, faults>>

Epochs == 1..MaxEpoch
Keys   == 0..MaxEpoch         \* 0: no key

\* base is a history field: the version the uploader had opened.
Row == [stamp : Epochs, ref : Refs, base : Vers \cup {None}]

\* skipped is a history field: a manager of Outdated or LegacyManagers has
\* rotated with another key than the one the rotation replaced.
Node == [epoch : Epochs, slot : Keys, rotationRequired : BOOLEAN,
         current : Vers \cup {None}, ref : Refs \cup {None}, skipped : BOOLEAN]

\* old is the replaced blob once the transaction has committed, None before.
\* awaited is FALSE once the client has stopped waiting for the answer.
Put == [by : Managers, ver : Vers, ref : Refs, old : Refs \cup {None},
        awaited : BOOLEAN]

Upload == [ref : Refs, epoch : Epochs, base : Vers \cup {None}]

Restore == [ver : Vers, ref : Refs]

\* epoch, slot: the DriveEntry snapshot the run works from.  key: the node key
\* unwrapped from the manager's own share row.  to: the key blobs are being
\* re-encrypted to.  at: the version whose PUT is awaited.  done: the
\* epoch of the last rotation this client was told is complete.
Manager == [pc : {"idle", "opened", "catchUp", "swap", "relist", "reencrypt"},
            goal : {"repair", "rotate"},
            epoch : Epochs, slot : Keys, key : Epochs, to : Epochs,
            todo : SUBSET Vers, at : Vers \cup {None},
            failed : BOOLEAN, done : Keys]

ASSUME KeyRotationAssumption ==
    /\ LegacyWriters \subseteq Writers
    /\ Impatient \subseteq Managers
    /\ LegacyManagers \subseteq Managers
    /\ Outdated \subseteq Managers \cup Writers
    /\ None \notin Refs /\ None \notin Vers /\ None \notin Row
    /\ None \notin Upload /\ None \notin Restore
    /\ MaxEpoch \in Nat \ {0}
    /\ MaxFaults \in Nat

TypeOK ==
    /\ node \in Node
    /\ rows \in [Vers -> Row \cup {None}]
    /\ blob \in [Refs -> Keys]
    /\ puts \subseteq Put
    /\ mgr \in [Managers -> Manager]
    /\ upload \in [Writers -> Upload \cup {None}]
    /\ restore \in [Restorers -> Restore \cup {None}]
    /\ faults \in 0..MaxFaults

Exists(v)  == rows[v] # None
Listed     == {v \in Vers : Exists(v)}
KeyOf(v)   == blob[rows[v].ref]
Stale(e)   == {v \in Listed : rows[v].stamp < e}

-----------------------------------------------------------------------------
\* A reference is a fresh random name (storage().newKey()): never one that
\* anything still mentions.
Mentioned ==
    {node.ref}
    \cup {rows[v].ref : v \in Listed}
    \cup {p.ref : p \in puts} \cup {p.old : p \in puts}
    \cup {upload[w].ref : w \in {x \in Writers : upload[x] # None}}
    \cup {restore[x].ref : x \in {y \in Restorers : restore[y] # None}}

Fresh(r) == blob[r] = 0 /\ r \notin Mentioned

Init ==
    /\ node = [epoch |-> 1, slot |-> 0, rotationRequired |-> FALSE,
               current |-> None, ref |-> None, skipped |-> FALSE]
    /\ rows = [v \in Vers |-> None]
    /\ blob = [r \in Refs |-> 0]
    /\ puts = {}
    /\ mgr = [m \in Managers |->
                [pc |-> "idle", goal |-> "repair", epoch |-> 1, slot |-> 0, key |-> 1, to |-> 1,
                 todo |-> {}, at |-> None, failed |-> FALSE, done |-> 0]]
    /\ upload = [w \in Writers |-> None]
    /\ restore = [x \in Restorers |-> None]
    /\ faults = 0

-----------------------------------------------------------------------------
(* The manager's client.                                                   *)

\* The keys a client may find in its share row: the current one, or any older
\* one when the row was posted under it after it had been replaced.
KeysHeld(c) == IF c \in Outdated THEN 1..node.epoch ELSE {node.epoch}

Idle(m) == mgr' = [mgr EXCEPT ![m] = [@ EXCEPT !.pc = "idle", !.todo = {}, !.at = None]]

\* The client takes a snapshot of the entry: getNode, or a folder listing.  A
\* node marked for rotation is rotated even when the user only opens the file;
\* without a previous-key slot there is nothing to repair.
Open(m, goal, k) ==
    /\ mgr[m].pc = "idle"
    /\ k \in KeysHeld(m)
    /\ goal = "rotate" => node.epoch < MaxEpoch
    /\ LET g == IF node.rotationRequired THEN "rotate" ELSE goal IN
       /\ g = "repair" => node.slot # 0
       /\ mgr' = [mgr EXCEPT ![m] =
            [@ EXCEPT !.pc = IF node.slot = 0 THEN "swap" ELSE "opened",
                      !.goal = g, !.epoch = node.epoch, !.slot = node.slot,
                      !.key = k, !.to = k, !.failed = FALSE]]
    /\ UNCHANGED <<node, rows, blob, puts, upload, restore, faults>>

\* catchUpStaleVersions lists the versions whose stamp lags the snapshot; when
\* there are some, the slot must open, and only the snapshot's own key opens it.
ListStale(m) ==
    /\ mgr[m].pc = "opened"
    /\ IF Stale(mgr[m].epoch) # {} /\ mgr[m].key # mgr[m].epoch
       THEN Idle(m)
       ELSE mgr' = [mgr EXCEPT ![m] = [@ EXCEPT !.pc = "catchUp", !.todo = Stale(mgr[m].epoch)]]
    /\ UNCHANGED <<node, rows, blob, puts, upload, restore, faults>>

\* The one key the current pass can read blobs with: the previous key while
\* catching up, the manager's own key after the swap.
SourceKey(m) == IF mgr[m].pc = "catchUp" THEN mgr[m].slot ELSE mgr[m].key

\* One iteration of either loop: read the blob, re-encrypt it, send the PUT;
\* the server streams the body to a new blob before its transaction.
Reencrypt(m, v, r) ==
    /\ mgr[m].pc \in {"catchUp", "reencrypt"} /\ mgr[m].at = None
    /\ v \in mgr[m].todo
    /\ KeyOf(v) = SourceKey(m)
    /\ Fresh(r)
    /\ blob' = [blob EXCEPT ![r] = mgr[m].to]
    /\ puts' = puts \cup {[by |-> m, ver |-> v, ref |-> r, old |-> None, awaited |-> TRUE]}
    /\ mgr' = [mgr EXCEPT ![m] = [@ EXCEPT !.at = v, !.todo = mgr[m].todo \ {v}]]
    /\ UNCHANGED <<node, rows, upload, restore, faults>>

\* The same iteration when the bytes cannot be fetched or decrypted: the loop
\* counts the failure and goes on with the next version.
SkipVersion(m, v) ==
    /\ mgr[m].pc \in {"catchUp", "reencrypt"} /\ mgr[m].at = None
    /\ v \in mgr[m].todo
    /\ mgr' = [mgr EXCEPT ![m] = [@ EXCEPT !.todo = mgr[m].todo \ {v}, !.failed = TRUE]]
    /\ UNCHANGED <<node, rows, blob, puts, upload, restore, faults>>

\* Mutant of EndCatchUp: rotates although a version was left behind.
EndCatchUpRegardless(m) ==
    /\ mgr[m].pc = "catchUp" /\ mgr[m].todo = {} /\ mgr[m].at = None
    /\ IF mgr[m].goal = "rotate" THEN mgr' = [mgr EXCEPT ![m] = [@ EXCEPT !.pc = "swap"]] ELSE Idle(m)
    /\ UNCHANGED <<node, rows, blob, puts, upload, restore, faults>>

\* End of catchUpStaleVersions: a repair stops there; a rotation goes on only
\* when no version is left behind.
EndCatchUp(m) ==
    /\ mgr[m].pc = "catchUp" /\ mgr[m].todo = {} /\ mgr[m].at = None
    /\ IF mgr[m].goal = "rotate" /\ ~mgr[m].failed
       THEN mgr' = [mgr EXCEPT ![m] = [@ EXCEPT !.pc = "swap"]]
       ELSE Idle(m)
    /\ UNCHANGED <<node, rows, blob, puts, upload, restore, faults>>

\* The rotation as the server applies it: a new key, the manager's own key in
\* the slot.  The answer may be lost, and the client then stops.
Rotated(m, answered) ==
    /\ mgr[m].pc = "swap"
    /\ node.epoch < MaxEpoch
    /\ node' = [node EXCEPT !.epoch = @ + 1, !.slot = mgr[m].key, !.rotationRequired = FALSE,
         !.skipped = @ \/ (m \in Outdated \cup LegacyManagers /\ mgr[m].key # node.epoch)]
    /\ IF answered
       THEN mgr' = [mgr EXCEPT ![m] = [@ EXCEPT !.pc = "relist", !.to = node'.epoch]]
       ELSE Idle(m)
    /\ UNCHANGED <<rows, blob, puts, upload, restore, faults>>

\* Mutant of Swap: expectedEpoch is not compared.
SwapUnchecked(m, answered) == Rotated(m, answered)

\* POST /nodes/:id/rotate: refused when the request names an epoch that is no
\* longer the node's.
Swap(m, answered) ==
    /\ m \notin LegacyManagers => node.epoch = mgr[m].epoch
    /\ Rotated(m, answered)

SwapConflict(m) ==
    /\ mgr[m].pc = "swap" /\ m \notin LegacyManagers
    /\ node.epoch # mgr[m].epoch
    /\ Idle(m)
    /\ UNCHANGED <<node, rows, blob, puts, upload, restore, faults>>

\* Step 4 of rotateNode: list again, keep every version behind the new epoch.
Relist(m) ==
    /\ mgr[m].pc = "relist"
    /\ mgr' = [mgr EXCEPT ![m] = [@ EXCEPT !.pc = "reencrypt", !.todo = Stale(mgr[m].to)]]
    /\ UNCHANGED <<node, rows, blob, puts, upload, restore, faults>>

\* Mutant of EndRotation: a failed version is not reported.
EndRotationSilent(m) ==
    /\ mgr[m].pc = "reencrypt" /\ mgr[m].todo = {} /\ mgr[m].at = None
    /\ mgr' = [mgr EXCEPT ![m] = [@ EXCEPT !.pc = "idle", !.done = mgr[m].to]]
    /\ UNCHANGED <<node, rows, blob, puts, upload, restore, faults>>

\* rotateNode returns: ok unless some version failed.
EndRotation(m) ==
    /\ mgr[m].pc = "reencrypt" /\ mgr[m].todo = {} /\ mgr[m].at = None
    /\ mgr' = [mgr EXCEPT ![m] =
                [@ EXCEPT !.pc = "idle", !.done = IF mgr[m].failed THEN mgr[m].done ELSE mgr[m].to]]
    /\ UNCHANGED <<node, rows, blob, puts, upload, restore, faults>>

\* The tab is closed, or the answer of a listing never comes.
Abandon(m) ==
    /\ mgr[m].pc # "idle" /\ mgr[m].at = None
    /\ Idle(m)
    /\ UNCHANGED <<node, rows, blob, puts, upload, restore, faults>>

\* The client stops waiting for a PUT the server is still serving (connection
\* lost, tab closed): it goes on as after a failure, or stops for good.
GiveUp(m, stop) ==
    /\ m \in Impatient
    /\ mgr[m].at # None
    /\ puts' = {IF p.by = m THEN [p EXCEPT !.awaited = FALSE] ELSE p : p \in puts}
    /\ IF stop THEN Idle(m)
       ELSE mgr' = [mgr EXCEPT ![m] = [@ EXCEPT !.at = None, !.failed = TRUE]]
    /\ UNCHANGED <<node, rows, blob, upload, restore, faults>>

-----------------------------------------------------------------------------
(* The server's PUT /nodes/:id/versions/:versionId/content.                *)

\* The client resumes its loop with the answer, if it still waits for it.
Answer(p, ok) ==
    mgr' = IF p.awaited
           THEN [mgr EXCEPT ![p.by] = [@ EXCEPT !.at = None, !.failed = mgr[p.by].failed \/ ~ok]]
           ELSE mgr

\* Replacement(p, stamp, serve, old): the transaction with the stamp it writes,
\* whether the node follows, and the blob it will remove.
Replacement(p, stamp, serve, old) ==
    /\ p.old = None
    /\ rows[p.ver].stamp < node.epoch
    /\ rows' = [rows EXCEPT ![p.ver] = [@ EXCEPT !.stamp = stamp, !.ref = p.ref]]
    /\ node' = IF serve THEN [node EXCEPT !.ref = p.ref] ELSE node
    /\ puts' = (puts \ {p}) \cup {[p EXCEPT !.old = old]}
    /\ UNCHANGED <<blob, mgr, upload, restore, faults>>

\* Mutants of PutCommit: the stamp runs one ahead, the stamp is forgotten, the
\* node does not follow, the blobs to keep and to remove are swapped.
PutCommitAhead(p) == Replacement(p, node.epoch + 1, node.current = p.ver, rows[p.ver].ref)
PutCommitUnstamped(p) == Replacement(p, rows[p.ver].stamp, node.current = p.ver, rows[p.ver].ref)
PutCommitAside(p) == Replacement(p, node.epoch, FALSE, rows[p.ver].ref)
PutCommitSwapped(p) == Replacement(p, node.epoch, node.current = p.ver, p.ref)

\* The transaction, under the locks of the node and of the version: the row
\* takes the new blob and the node's epoch as it is NOW, and so does the node
\* when this version is its current one.
PutCommit(p) == Replacement(p, node.epoch, node.current = p.ver, rows[p.ver].ref)

\* Mutant of PutRefuse: the refused client gets no answer.
PutRefuseMute(p) ==
    /\ p.old = None
    /\ blob' = [blob EXCEPT ![p.ref] = 0]
    /\ puts' = puts \ {p}
    /\ UNCHANGED <<node, rows, mgr, upload, restore, faults>>

\* 409 when the version is not behind the node, quota or disk refusals: the new
\* blob is removed.
PutRefuse(p) ==
    /\ p.old = None
    /\ blob' = [blob EXCEPT ![p.ref] = 0]
    /\ puts' = puts \ {p}
    /\ Answer(p, FALSE)
    /\ UNCHANGED <<node, rows, upload, restore, faults>>

\* After the commit the replaced blob is removed and the client answered.
PutFinish(p) ==
    /\ p.old # None
    /\ blob' = [blob EXCEPT ![p.old] = 0]
    /\ puts' = puts \ {p}
    /\ Answer(p, TRUE)
    /\ UNCHANGED <<node, rows, upload, restore, faults>>

\* The server dies while serving the request: its blobs stay as they are.
PutCrash(p) ==
    /\ faults < MaxFaults
    /\ faults' = faults + 1
    /\ puts' = puts \ {p}
    /\ Answer(p, FALSE)
    /\ UNCHANGED <<node, rows, blob, upload, restore>>

-----------------------------------------------------------------------------
(* PUT /nodes/:id/content.                                                 *)

\* saveNewVersion re-reads the node, encrypts under the key of its share row and
\* sends the epoch it was told and the version it started from; the body is
\* stored before the transaction.
BeginUpload(w, r, k) ==
    /\ upload[w] = None
    /\ k \in KeysHeld(w)
    /\ \E v \in Vers : ~Exists(v)
    /\ Fresh(r)
    /\ blob' = [blob EXCEPT ![r] = k]
    /\ upload' = [upload EXCEPT ![w] =
                    [ref |-> r, epoch |-> node.epoch, base |-> node.current]]
    /\ UNCHANGED <<node, rows, puts, mgr, restore, faults>>

\* Mutants of BaseAccepted: the base version, or the pending rotation, is ignored.
BaseAcceptedAnyVersion(w) ==
    ~node.rotationRequired /\ (w \notin LegacyWriters => upload[w].epoch = node.epoch)
BaseAcceptedAnytime(w) ==
    w \notin LegacyWriters => upload[w].base = node.current /\ upload[w].epoch = node.epoch

\* assertContentBase: no write while a rotation is due; the base must be the
\* current version under the current epoch, unless the client is a legacy one.
BaseAccepted(w) ==
    /\ ~node.rotationRequired
    /\ w \notin LegacyWriters =>
         upload[w].base = node.current /\ upload[w].epoch = node.epoch

CommitUpload(w, v) ==
    /\ upload[w] # None
    /\ ~Exists(v)
    /\ BaseAccepted(w)
    /\ rows' = [rows EXCEPT ![v] = [stamp |-> node.epoch, ref |-> upload[w].ref,
                                    base |-> upload[w].base]]
    /\ node' = [node EXCEPT !.current = v, !.ref = upload[w].ref]
    /\ upload' = [upload EXCEPT ![w] = None]
    /\ UNCHANGED <<blob, puts, mgr, restore, faults>>

\* Any refusal (base, quota, disk): the blob is removed.
RefuseUpload(w) ==
    /\ upload[w] # None
    /\ blob' = [blob EXCEPT ![upload[w].ref] = 0]
    /\ upload' = [upload EXCEPT ![w] = None]
    /\ UNCHANGED <<node, rows, puts, mgr, restore, faults>>

-----------------------------------------------------------------------------
(* POST .../versions/:versionId/restore reads the version outside the      *)
(* transaction that writes the node.                                       *)

RestoreRead(x, v) ==
    /\ restore[x] = None
    /\ Exists(v)
    /\ restore' = [restore EXCEPT ![x] = [ver |-> v, ref |-> rows[v].ref]]
    /\ UNCHANGED <<node, rows, blob, puts, mgr, upload, faults>>

RestoreWrite(x) ==
    /\ restore[x] # None
    /\ node' = [node EXCEPT !.current = restore[x].ver, !.ref = restore[x].ref]
    /\ restore' = [restore EXCEPT ![x] = None]
    /\ UNCHANGED <<rows, blob, puts, mgr, upload, faults>>

\* A revocation elsewhere (group, membership) imposes a rotation of this node.
RequireRotation ==
    /\ ~node.rotationRequired
    /\ node.epoch < MaxEpoch
    /\ node' = [node EXCEPT !.rotationRequired = TRUE]
    /\ UNCHANGED <<rows, blob, puts, mgr, upload, restore, faults>>

-----------------------------------------------------------------------------
ManagerStep(m) ==
    \/ ListStale(m) \/ EndCatchUp(m) \/ SwapConflict(m) \/ Relist(m) \/ EndRotation(m)
    \/ \E answered \in BOOLEAN : Swap(m, answered)
    \/ \E v \in Vers : SkipVersion(m, v) \/ \E r \in Refs : Reencrypt(m, v, r)

PutStep(p) == PutCommit(p) \/ PutRefuse(p) \/ PutFinish(p)

Next ==
    \/ \E m \in Managers :
         \/ \E goal \in {"repair", "rotate"}, k \in Epochs : Open(m, goal, k)
         \/ ManagerStep(m)
         \/ Abandon(m)
         \/ \E stop \in BOOLEAN : GiveUp(m, stop)
    \/ \E p \in puts : PutStep(p) \/ PutCrash(p)
    \/ \E w \in Writers :
         \/ \E r \in Refs, k \in Epochs : BeginUpload(w, r, k)
         \/ \E v \in Vers : CommitUpload(w, v)
         \/ RefuseUpload(w)
    \/ \E x \in Restorers : RestoreWrite(x) \/ \E v \in Vers : RestoreRead(x, v)
    \/ RequireRotation

Spec == Init /\ [][Next]_vars

\* A client runs its procedure to the end and the server serves what it has
\* received; nobody has to open, upload, restore or revoke anything.
Fairness ==
    /\ \A m \in Managers : WF_vars(ManagerStep(m))
    /\ \A m \in Managers : WF_vars(\E p \in puts : p.by = m /\ PutStep(p))

FairSpec == Spec /\ Fairness

-----------------------------------------------------------------------------
(* Properties.                                                             *)

\* Every version stays readable by a holder of the current key: its bytes are
\* under the current key or under the previous one, kept in the slot.
\* rotate.ts:310-316: "so no version ever ends up more than one epoch behind
\* the prev-key slot".
VersionsRecoverable ==
    \A v \in Listed : KeyOf(v) \in {node.epoch, node.slot}

\* The stored blob of a version row is never removed, whatever overlaps: each
\* replacement removes only the blob it has itself replaced (versions.ts:112-171).
VersionBlobsExist == \A v \in Listed : KeyOf(v) # 0

\* The node serves the bytes of its current version: what a download returns
\* is what the history shows as current (versions.ts:157-164, nodes.ts:707-712).
NodeServesCurrentVersion ==
    IF node.current = None THEN node.ref = None
    ELSE node.ref = rows[node.current].ref

\* Bytes are never under a key newer than the epoch their row is stamped with,
\* and no stamp runs ahead of the node: a reader that picks a key by the stamp
\* errs at most towards an older key.
StampsNeverLag ==
    \A v \in Listed : KeyOf(v) <= rows[v].stamp /\ rows[v].stamp <= node.epoch

\* A rotation reported complete left nothing under an older key, for as long as
\* its epoch lasts (rotate.ts:363-401).
CompleteMeansReencrypted ==
    \A m \in Managers : mgr[m].done = node.epoch => \A v \in Listed : KeyOf(v) = node.epoch

\* No lost update: two uploads are never accepted over the same version, so no
\* version replaces one its author had not opened (content-preconditions.ts:65-76).
NoForkedHistory ==
    \A u, v \in Listed : u # v => rows[u].base # rows[v].base

\* A new version is written under the key of the moment, and never while a
\* revocation still waits for its rotation: the revoked key opens nothing new.
NewContentUnderLiveKey ==
    [][\A v \in Vers : ~Exists(v) /\ Exists(v)' =>
          KeyOf(v)' = node.epoch /\ ~node.rotationRequired]_vars

\* However many managers rotate, from snapshots of any age, with requests left
\* behind, crashes and failed versions: a version whose bytes are under the key
\* of its stamp stays readable, until a manager whose own key is a replaced one,
\* or who names no epoch, has put it in the slot (nodes.ts:548-552,
\* rotate.ts:309-325).
StampedRecoverable ==
    node.skipped \/ \A v \in Listed :
        KeyOf(v) = rows[v].stamp => KeyOf(v) \in {node.epoch, node.slot}

\* With one manager whose requests are answered, the protocol keeps the promise
\* of RotationPromise: in particular no rotation starts over a lagging version.
Promise == INSTANCE RotationPromise WITH
    epoch <- node.epoch, versions <- Listed,
    lagging <- {v \in Listed : KeyOf(v) # node.epoch}, frozen <- node.rotationRequired

KeepsPromise == Promise!PSpec

\* Every run of a client ends: each PUT it waits for is answered, refused ones
\* and crashed ones included.
RunsEnd == \A m \in Managers : mgr[m].pc # "idle" ~> mgr[m].pc = "idle"
=============================================================================
