------------------------------ MODULE NodeTree ------------------------------
(***************************************************************************)
(* The tree of files and folders of an organisation, the versions of its   *)
(* files, and the blobs that the storage keeps for them.                   *)
(*                                                                         *)
(* A row names its parent, and PostgreSQL removes a row with everything    *)
(* below it.  Blobs are not rows: a request writes or erases them outside  *)
(* the transaction, before it or after it.  Requests run concurrently and  *)
(* the server may stop between any two of their steps.                     *)
(***************************************************************************)
EXTENDS Naturals

CONSTANTS Nodes,      \* the rows that may come to exist
          Files,      \* those that have a content
          Blobs,      \* the keys the storage may draw
          Requests,   \* the requests, and sweeps, that may be under way
          Root, None, Unborn, Deleted

ASSUME NodeTreeAssumption ==
  /\ Files \subseteq Nodes
  /\ {Root, Unborn, Deleted} \cap Nodes = {}
  /\ Root # Unborn /\ Root # Deleted /\ Unborn # Deleted
  /\ None \notin Blobs /\ None \notin Nodes

VARIABLES parent,     \* nodes.parent_id, or Root
          trashed,    \* the nodes with a trashed_at
          versions,   \* node_versions.content_ref of each node
          current,    \* nodes.content_ref
          stored,     \* the blobs in the storage
          drawn,      \* the keys drawn so far
          req,        \* what each request is at
          past        \* history: moves overlapped, nodes that left a purge or a
                      \* retirement under way, blobs something left behind

vars == <<parent, trashed, versions, current, stored, drawn, req, past>>
rows == <<parent, trashed, versions, current>>

Exists == {n \in Nodes : parent[n] \in Nodes \cup {Root}}

\* A request is used once: from idle to done.
Idle == [do |-> "idle", node |-> None, to |-> None, fresh |-> FALSE, todo |-> {}, refs |-> {}]
Done == [Idle EXCEPT !.do = "done"]

Request == [do : {"idle", "done", "move", "put", "back", "purge", "cascade", "retire", "erase"},
            node : Nodes \cup {None}, to : Nodes \cup {Root, None},
            fresh : BOOLEAN,          \* no move since its check
            todo : SUBSET Nodes,      \* what remains to purge
            refs : SUBSET Blobs]      \* the blobs it has to record or to erase

TypeOK ==
  /\ parent \in [Nodes -> Nodes \cup {Root, Unborn, Deleted}]
  /\ trashed \subseteq Nodes
  /\ versions \in [Nodes -> SUBSET Blobs] /\ current \in [Nodes -> Blobs \cup {None}]
  /\ stored \subseteq drawn /\ drawn \subseteq Blobs
  /\ req \in [Requests -> Request]
  /\ past \in [crossed : BOOLEAN, escaped : SUBSET Nodes, orphaned : SUBSET Blobs]

Init ==
  /\ parent = [n \in Nodes |-> Unborn] /\ trashed = {}
  /\ versions = [n \in Nodes |-> {}] /\ current = [n \in Nodes |-> None]
  /\ stored = {} /\ drawn = {}
  /\ req = [r \in Requests |-> Idle]
  /\ past = [crossed |-> FALSE, escaped |-> {}, orphaned |-> {}]

-----------------------------------------------------------------------------
(* What the recursive queries compute.                                     *)

\* S holds the children of its members.
Closed(S) == \A n \in Nodes : parent[n] \in S => n \in S

\* m and everything below it.
Below(m) == {n \in Nodes : \A S \in SUBSET Nodes : m \in S /\ Closed(S) => n \in S}

\* The blobs that the rows of n name.
RefsOf(n) == versions[n] \cup (IF current[n] = None THEN {} ELSE {current[n]})
RefsIn(S) == UNION {RefsOf(n) : n \in S}

\* Mutant of SubtreeBlobRefs: the blobs of the node, not of what is below it.
SubtreeBlobRefsAlone(m) == RefsIn({m} \cap Exists)

\* subtreeBlobRefs: nothing when the row is gone.
SubtreeBlobRefs(m) == IF m \in Exists THEN RefsIn(Below(m)) ELSE {}

\* The nodes below one whose blobs are listed and whose row is not yet deleted.
BeingPurged == UNION {Below(req[r].node) : r \in {q \in Requests : req[q].do = "cascade"}}

At(r, step)  == req[r].do = step
Begin(r, q)  == req' = [req EXCEPT ![r] = q]
End(r)       == req' = [req EXCEPT ![r] = Done]

-----------------------------------------------------------------------------
(* Creating, moving, trashing.                                             *)

\* POST /nodes: the parent must exist when the row is inserted.
Create(n, p) ==
  /\ parent[n] = Unborn /\ p \in Exists \cup {Root}
  /\ parent' = [parent EXCEPT ![n] = p]
  /\ UNCHANGED <<trashed, versions, current, stored, drawn, req, past>>

\* Mutant of CheckMove: only the node itself is refused as a target.
CheckMoveNotItself(r, n, p) ==
  /\ At(r, "idle") /\ n \in Exists
  /\ p \in (Exists \cup {Root}) \ {n}
  /\ Begin(r, [Idle EXCEPT !.do = "move", !.node = n, !.to = p, !.fresh = TRUE])
  /\ UNCHANGED <<rows, stored, drawn, past>>

\* PATCH /nodes/:id first checks that the target exists, is another node and
\* is not below the node, ...
CheckMove(r, n, p) ==
  /\ At(r, "idle") /\ n \in Exists
  /\ p \in Exists \cup {Root} /\ p \notin Below(n)
  /\ Begin(r, [Idle EXCEPT !.do = "move", !.node = n, !.to = p, !.fresh = TRUE])
  /\ UNCHANGED <<rows, stored, drawn, past>>

\* ... then updates the row in a transaction.
Move(r) ==
  /\ At(r, "move")
  /\ LET n == req[r].node  p == req[r].to  sub == Below(n)
     IN  /\ n \in Exists /\ p \in Exists \cup {Root}
         /\ parent' = [parent EXCEPT ![n] = p]
         /\ past' = [past EXCEPT
              !.crossed  = @ \/ ~req[r].fresh,
              !.escaped  = @ \cup (IF n \in BeingPurged THEN sub ELSE {}),
              !.orphaned = @ \cup (IF p \in BeingPurged THEN RefsIn(sub) ELSE {})]
  /\ req' = [q \in Requests |-> IF q = r THEN Done ELSE [req[q] EXCEPT !.fresh = FALSE]]
  /\ UNCHANGED <<trashed, versions, current, stored, drawn>>

\* The node or the target has gone, or the node waits for a key rotation.
RefuseMove(r) ==
  /\ At(r, "move") /\ End(r)
  /\ UNCHANGED <<rows, stored, drawn, past>>

Trash(n) ==
  /\ n \in Exists \ trashed /\ trashed' = trashed \cup {n}
  /\ UNCHANGED <<parent, versions, current, stored, drawn, req, past>>

Restore(n) ==
  /\ n \in trashed /\ trashed' = trashed \ {n}
  /\ UNCHANGED <<parent, versions, current, stored, drawn, req, past>>

-----------------------------------------------------------------------------
(* Contents: the blob first, the rows after.                               *)

\* Mutant of PutBlob: a key is not remembered as drawn.
PutBlobUndrawn(r, n, b) ==
  /\ At(r, "idle") /\ n \in Exists \cap Files /\ b \in Blobs \ drawn
  /\ stored' = stored \cup {b}
  /\ Begin(r, [Idle EXCEPT !.do = "put", !.node = n, !.refs = {b}])
  /\ UNCHANGED <<rows, drawn, past>>

PutBlob(r, n, b) ==
  /\ At(r, "idle") /\ n \in Exists \cap Files /\ b \in Blobs \ drawn
  /\ stored' = stored \cup {b} /\ drawn' = drawn \cup {b}
  /\ Begin(r, [Idle EXCEPT !.do = "put", !.node = n, !.refs = {b}])
  /\ UNCHANGED <<rows, past>>

\* The version is recorded and becomes the content.
PutCommit(r) ==
  /\ At(r, "put") /\ req[r].node \in Exists
  /\ LET n == req[r].node
     IN  \E b \in req[r].refs :
           /\ versions' = [versions EXCEPT ![n] = @ \cup {b}]
           /\ current'  = [current EXCEPT ![n] = b]
           /\ past' = [past EXCEPT !.orphaned = @ \cup (IF n \in BeingPurged THEN {b} ELSE {})]
  /\ End(r)
  /\ UNCHANGED <<parent, trashed, stored, drawn>>

\* The transaction is refused, or the row has gone: the blob is erased.
PutRefuse(r) ==
  /\ At(r, "put")
  /\ Begin(r, [req[r] EXCEPT !.do = "erase", !.node = None])
  /\ UNCHANGED <<rows, stored, drawn, past>>

\* POST /versions/:versionId/restore reads the version, ...
ReadVersion(r, n, b) ==
  /\ At(r, "idle") /\ n \in Exists /\ b \in versions[n]
  /\ Begin(r, [Idle EXCEPT !.do = "back", !.node = n, !.refs = {b}])
  /\ UNCHANGED <<rows, stored, drawn, past>>

\* ... then makes it the content: the foreign key asks that it still exists.
RestoreVersion(r) ==
  /\ At(r, "back") /\ req[r].node \in Exists
  /\ LET n == req[r].node
     IN  \E b \in req[r].refs :
           /\ b \in versions[n]
           /\ current' = [current EXCEPT ![n] = b]
           /\ past' = [past EXCEPT !.escaped = @ \cup
                (IF \E q \in Requests : At(q, "retire") /\ b \in req[q].refs THEN {n} ELSE {})]
  /\ End(r)
  /\ UNCHANGED <<parent, trashed, versions, stored, drawn>>

RefuseVersion(r) ==
  /\ At(r, "back") /\ req[r].refs \cap versions[req[r].node] = {} /\ End(r)
  /\ UNCHANGED <<rows, stored, drawn, past>>

-----------------------------------------------------------------------------
(* Erasing: the rows first, the blobs after.                               *)

\* DELETE /nodes/:id/purge has checked that a node is in the trash; a sweep has
\* listed those that were there for long.
SelectTrash(r, S) ==
  /\ At(r, "idle") /\ S # {} /\ S \subseteq trashed
  /\ Begin(r, [Idle EXCEPT !.do = "purge", !.todo = S])
  /\ UNCHANGED <<rows, stored, drawn, past>>

\* The blobs of the next one are listed, ...
ListBlobs(r, m) ==
  /\ At(r, "purge") /\ m \in req[r].todo
  /\ Begin(r, [req[r] EXCEPT !.do = "cascade", !.node = m, !.todo = @ \ {m},
                             !.refs = SubtreeBlobRefs(m)])
  /\ UNCHANGED <<rows, stored, drawn, past>>

\* ... its row is deleted, with all that is below it, ...
Cascade(r) ==
  /\ At(r, "cascade")
  /\ LET dead == IF req[r].node \in Exists THEN Below(req[r].node) ELSE {}
     IN  /\ parent'   = [n \in Nodes |-> IF n \in dead THEN Deleted ELSE parent[n]]
         /\ trashed'  = trashed \ dead
         /\ versions' = [n \in Nodes |-> IF n \in dead THEN {} ELSE versions[n]]
         /\ current'  = [n \in Nodes |-> IF n \in dead THEN None ELSE current[n]]
  /\ Begin(r, [req[r] EXCEPT !.do = "erase", !.node = None])
  /\ UNCHANGED <<stored, drawn, past>>

\* ... and the blobs are erased one by one; a failure is passed over.
Erase(r, b) ==
  /\ At(r, "erase") /\ b \in req[r].refs
  /\ \/ stored' = stored \ {b} /\ UNCHANGED past
     \/ past' = [past EXCEPT !.orphaned = @ \cup {b}] /\ UNCHANGED stored
  /\ Begin(r, [req[r] EXCEPT !.refs = @ \ {b}])
  /\ UNCHANGED <<rows, drawn>>

EraseDone(r) ==
  /\ At(r, "erase") /\ req[r].refs = {}
  /\ Begin(r, IF req[r].todo = {} THEN Done ELSE [req[r] EXCEPT !.do = "purge"])
  /\ UNCHANGED <<rows, stored, drawn, past>>

\* Mutant of SelectOld: the version being served is old enough too.
SelectOldAny(r, S) ==
  /\ At(r, "idle") /\ S # {}
  /\ S \subseteq UNION {versions[n] : n \in Nodes}
  /\ Begin(r, [Idle EXCEPT !.do = "retire", !.refs = S])
  /\ UNCHANGED <<rows, stored, drawn, past>>

\* purgeOldVersions is one statement, but what it deletes is what its
\* subquery saw when it began.
SelectOld(r, S) ==
  /\ At(r, "idle") /\ S # {}
  /\ S \subseteq UNION {versions[n] \ {current[n]} : n \in Nodes}
  /\ Begin(r, [Idle EXCEPT !.do = "retire", !.refs = S])
  /\ UNCHANGED <<rows, stored, drawn, past>>

Retire(r) ==
  /\ At(r, "retire")
  /\ versions' = [n \in Nodes |-> versions[n] \ req[r].refs]
  /\ Begin(r, [req[r] EXCEPT !.do = "erase",
                             !.refs = @ \cap UNION {versions[n] : n \in Nodes}])
  /\ UNCHANGED <<parent, trashed, current, stored, drawn, past>>

\* The server stops: no request goes on, transactions are rolled back.
Crash ==
  /\ \E r \in Requests : req[r].do \notin {"idle", "done"}
  /\ past' = [past EXCEPT !.orphaned = @ \cup UNION {req[r].refs :
                r \in {q \in Requests : req[q].do \in {"put", "erase"}}}]
  /\ req' = [r \in Requests |-> IF At(r, "idle") THEN Idle ELSE Done]
  /\ UNCHANGED <<rows, stored, drawn>>

-----------------------------------------------------------------------------

Step(r) == \/ Move(r) \/ RefuseMove(r) \/ PutCommit(r) \/ PutRefuse(r)
           \/ RestoreVersion(r) \/ RefuseVersion(r)
           \/ (\E m \in Nodes : ListBlobs(r, m)) \/ Cascade(r) \/ Retire(r)
           \/ (\E b \in Blobs : Erase(r, b)) \/ EraseDone(r)

Arrive(r) == \/ \E n \in Nodes, p \in Nodes \cup {Root} : CheckMove(r, n, p)
             \/ \E n \in Nodes, b \in Blobs : PutBlob(r, n, b) \/ ReadVersion(r, n, b)
             \/ \E S \in SUBSET Nodes : SelectTrash(r, S)
             \/ \E S \in SUBSET Blobs : SelectOld(r, S)

Next == \/ \E n \in Nodes, p \in Nodes \cup {Root} : Create(n, p)
        \/ \E n \in Nodes : Trash(n) \/ Restore(n)
        \/ \E r \in Requests : Step(r) \/ Arrive(r)
        \/ Crash

Spec == Init /\ [][Next]_vars

\* A request that is under way goes on, until it ends or the server stops.
LiveSpec == Spec /\ \A r \in Requests : WF_vars(Step(r))

-----------------------------------------------------------------------------
(* Properties.                                                             *)

\* A parent is a row (the foreign key, and the cascade).
ParentsExist == \A n \in Exists : parent[n] \in Exists \cup {Root}

\* No folder is below itself: in every set of nodes, one has its parent
\* elsewhere.
Forest == \A S \in SUBSET Exists : S # {} => \E n \in S : parent[n] \notin S

\* The check of a move (« no loop in the tree ») protects the tree as long as
\* no other move is committed between this check and the update: whatever is
\* created, trashed or purged in between does not matter.
ForestUnlessCrossed == Forest \/ past.crossed

\* A row never names an erased blob, unless its node left, by a move, a
\* subtree whose blobs were already listed for a purge, or was given back a
\* version that a sweep was retiring.
NoBrokenReference == \A n \in Exists \ past.escaped : RefsOf(n) \subseteq stored

\* A blob that no row names is held by a request, which will record or erase
\* it, unless it was left behind: by a crash, a failure of the storage, or a
\* content that came into a subtree whose blobs were already listed.
NoOrphan ==
  \A b \in stored \ past.orphaned :
    b \in RefsIn(Exists) \/ \E r \in Requests : req[r].do \in {"put", "erase"} /\ b \in req[r].refs

\* What a purge or a retirement has taken out of the rows is erased in the end,
\* or counted as left behind; what it only listed may still be named by a row.
Taken(r, b) == req[r].do \in {"cascade", "retire", "erase"} /\ b \in req[r].refs
Erased      == \A r \in Requests, b \in Blobs :
                 Taken(r, b) ~> b \notin stored \/ b \in past.orphaned \cup RefsIn(Exists)

\* « A node must first be in the trash »: what is deleted for good is below a
\* node in the trash.
OnlyTrashPurged ==
  [][\A n \in Exists : parent'[n] = Deleted => \E m \in trashed : n \in Below(m)]_vars

\* « Never a broken reference. »
References == \A n \in Exists : RefsOf(n) \subseteq stored
=============================================================================
