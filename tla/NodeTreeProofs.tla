--------------------------- MODULE NodeTreeProofs ---------------------------
(***************************************************************************)
(* Proofs about NodeTree: its types, the parents that exist, and the tree  *)
(* that a move checked against it does not bend into a loop.               *)
(*                                                                         *)
(* The argument for a move of n under p: were there, after it, a set S of  *)
(* nodes all of whose parents are in S, then S less what is below n would  *)
(* have been such a set before it, and p, which is not below n, is in it.  *)
(*                                                                         *)
(* The argument for the blobs is one of ownership: a stored blob belongs   *)
(* to one row, or to one request that will record or erase it.             *)
(***************************************************************************)
EXTENDS NodeTree, TLAPS

USE NodeTreeAssumption

(* What a request that is about to move a node has checked still holds while *)
(* no other move is committed.                                               *)
MovesChecked ==
  \A r \in Requests : At(r, "move") =>
    /\ req[r].node \in Nodes
    /\ req[r].to \in Nodes => parent[req[r].to] # Unborn
    /\ req[r].fresh => req[r].to \notin Below(req[r].node)

TreeInv == TypeOK /\ ParentsExist /\ MovesChecked

-----------------------------------------------------------------------------
(* Types.                                                                  *)

LEMMA InitType == Init => TypeOK
BY DEF Init, TypeOK, Request, Idle

LEMMA RequestType ==
  ASSUME TypeOK, NEW r \in Requests, NEW q \in Request, Begin(r, q)
  PROVE  req' \in [Requests -> Request]
BY DEF TypeOK, Begin

LEMMA DoneType == Idle \in Request /\ Done \in Request
BY DEF Idle, Done, Request

\* A recursive query yields nodes, a list of references yields blobs.
LEMMA QueryType ==
  ASSUME TypeOK
  PROVE  /\ \A m : Below(m) \subseteq Nodes
         /\ \A n \in Nodes : RefsOf(n) \subseteq Blobs
         /\ \A S \in SUBSET Nodes : RefsIn(S) \subseteq Blobs
         /\ \A m : SubtreeBlobRefs(m) \subseteq Blobs
BY DEF TypeOK, Below, RefsOf, RefsIn, SubtreeBlobRefs

\* Every step keeps the types.
LEMMA TypeStep == TypeOK /\ [Next]_vars => TypeOK'
<1> SUFFICES ASSUME TypeOK, [Next]_vars PROVE TypeOK'
  OBVIOUS
<1>t. /\ \A m : Below(m) \subseteq Nodes
      /\ \A n \in Nodes : RefsOf(n) \subseteq Blobs
      /\ \A S \in SUBSET Nodes : RefsIn(S) \subseteq Blobs
      /\ \A m : SubtreeBlobRefs(m) \subseteq Blobs
  BY QueryType
<1>d. Idle \in Request /\ Done \in Request
  BY DoneType
<1>1. ASSUME NEW n \in Nodes, NEW p \in Nodes \cup {Root}, Create(n, p) PROVE TypeOK'
  BY <1>1 DEF Create, TypeOK
<1>2. ASSUME NEW n \in Nodes, Trash(n) \/ Restore(n) PROVE TypeOK'
  BY <1>2 DEF Trash, Restore, TypeOK
<1>3. ASSUME Crash PROVE TypeOK'
  <2>1. req' \in [Requests -> Request]
    BY <1>3, <1>d DEF Crash, TypeOK
  <2>2. UNION {req[r].refs : r \in {q \in Requests : req[q].do \in {"put", "erase"}}} \subseteq Blobs
    BY DEF TypeOK, Request
  <2>3. past' \in [crossed : BOOLEAN, escaped : SUBSET Nodes, orphaned : SUBSET Blobs]
    BY <1>3, <2>2 DEF Crash, TypeOK
  <2> QED BY <1>3, <2>1, <2>3 DEF Crash, TypeOK, rows
<1>4. ASSUME NEW r \in Requests, Arrive(r) PROVE TypeOK'
  <2>1. ASSUME NEW n \in Nodes, NEW p \in Nodes \cup {Root}, CheckMove(r, n, p) PROVE TypeOK'
    <3>1. [Idle EXCEPT !.do = "move", !.node = n, !.to = p, !.fresh = TRUE] \in Request
      BY DEF Idle, Request
    <3>2. req' \in [Requests -> Request]
      BY <2>1, <3>1, RequestType DEF CheckMove
    <3> QED BY <2>1, <3>2 DEF CheckMove, TypeOK, rows
  <2>2. ASSUME NEW n \in Nodes, NEW b \in Blobs, PutBlob(r, n, b) PROVE TypeOK'
    <3>1. [Idle EXCEPT !.do = "put", !.node = n, !.refs = {b}] \in Request
      BY DEF Idle, Request
    <3>2. req' \in [Requests -> Request]
      BY <2>2, <3>1, RequestType DEF PutBlob
    <3> QED BY <2>2, <3>2 DEF PutBlob, TypeOK, rows
  <2>3. ASSUME NEW n \in Nodes, NEW b \in Blobs, ReadVersion(r, n, b) PROVE TypeOK'
    <3>1. [Idle EXCEPT !.do = "back", !.node = n, !.refs = {b}] \in Request
      BY DEF Idle, Request
    <3>2. req' \in [Requests -> Request]
      BY <2>3, <3>1, RequestType DEF ReadVersion
    <3> QED BY <2>3, <3>2 DEF ReadVersion, TypeOK, rows
  <2>4. ASSUME NEW S \in SUBSET Nodes, SelectTrash(r, S) PROVE TypeOK'
    <3>1. [Idle EXCEPT !.do = "purge", !.todo = S] \in Request
      BY DEF Idle, Request
    <3>2. req' \in [Requests -> Request]
      BY <2>4, <3>1, RequestType DEF SelectTrash
    <3> QED BY <2>4, <3>2 DEF SelectTrash, TypeOK, rows
  <2>5. ASSUME NEW S \in SUBSET Blobs, SelectOld(r, S) PROVE TypeOK'
    <3>1. [Idle EXCEPT !.do = "retire", !.refs = S] \in Request
      BY DEF Idle, Request
    <3>2. req' \in [Requests -> Request]
      BY <2>5, <3>1, RequestType DEF SelectOld
    <3> QED BY <2>5, <3>2 DEF SelectOld, TypeOK, rows
  <2> QED BY <1>4, <2>1, <2>2, <2>3, <2>4, <2>5 DEF Arrive
<1>5. ASSUME NEW r \in Requests, Step(r) PROVE TypeOK'
  <2>r. req[r] \in Request
    BY DEF TypeOK
  <2>1. ASSUME Move(r) PROVE TypeOK'
    <3>1. req' \in [Requests -> Request]
      BY <2>1, <1>d, ZenonT(60) DEF Move, TypeOK, Request
    <3>2. past' \in [crossed : BOOLEAN, escaped : SUBSET Nodes, orphaned : SUBSET Blobs]
      BY <2>1, <1>t DEF Move, TypeOK
    <3>3. parent' \in [Nodes -> Nodes \cup {Root, Unborn, Deleted}]
      BY <2>1 DEF Move, TypeOK, Exists
    <3> QED BY <2>1, <3>1, <3>2, <3>3 DEF Move, TypeOK
  <2>2. ASSUME RefuseMove(r) \/ RefuseVersion(r) PROVE TypeOK'
    <3>1. Begin(r, Done)
      BY <2>2 DEF RefuseMove, RefuseVersion, End, Begin
    <3> QED BY <2>2, <3>1, <1>d, RequestType DEF RefuseMove, RefuseVersion, TypeOK, rows
  <2>3. ASSUME PutCommit(r) PROVE TypeOK'
    <3>1. Begin(r, Done)
      BY <2>3 DEF PutCommit, End, Begin
    <3>2. PICK b \in req[r].refs :
            /\ versions' = [versions EXCEPT ![req[r].node] = @ \cup {b}]
            /\ current'  = [current EXCEPT ![req[r].node] = b]
            /\ past' = [past EXCEPT !.orphaned = @ \cup (IF req[r].node \in BeingPurged THEN {b} ELSE {})]
      BY <2>3 DEF PutCommit
    <3>3. b \in Blobs
      BY <2>r DEF Request
    <3>4. past' \in [crossed : BOOLEAN, escaped : SUBSET Nodes, orphaned : SUBSET Blobs]
      BY <3>2, <3>3 DEF TypeOK
    <3> QED BY <2>3, <3>1, <3>2, <3>3, <3>4, <1>d, RequestType, ZenonT(60) DEF PutCommit, TypeOK
  <2>4. ASSUME PutRefuse(r) PROVE TypeOK'
    <3>1. [req[r] EXCEPT !.do = "erase", !.node = None] \in Request
      BY <2>r DEF Request
    <3> QED BY <2>4, <3>1, RequestType DEF PutRefuse, TypeOK, rows
  <2>5. ASSUME RestoreVersion(r) PROVE TypeOK'
    <3>1. Begin(r, Done)
      BY <2>5 DEF RestoreVersion, End, Begin
    <3>2. PICK b \in req[r].refs :
            /\ current'  = [current EXCEPT ![req[r].node] = b]
            /\ b \in versions[req[r].node]
            /\ past' = [past EXCEPT !.escaped = @ \cup
                 (IF \E q \in Requests : At(q, "retire") /\ b \in req[q].refs THEN {req[r].node} ELSE {})]
      BY <2>5 DEF RestoreVersion
    <3>3. b \in Blobs
      BY <2>r DEF Request
    <3>4. past' \in [crossed : BOOLEAN, escaped : SUBSET Nodes, orphaned : SUBSET Blobs]
      BY <3>2, <2>5 DEF TypeOK, RestoreVersion, Exists
    <3> QED BY <2>5, <3>1, <3>2, <3>3, <3>4, <1>d, RequestType DEF RestoreVersion, TypeOK
  <2>6. ASSUME NEW m \in Nodes, ListBlobs(r, m) PROVE TypeOK'
    <3>1. [req[r] EXCEPT !.do = "cascade", !.node = m, !.todo = @ \ {m},
                         !.refs = SubtreeBlobRefs(m)] \in Request
      BY <2>r, <1>t DEF Request
    <3> QED BY <2>6, <3>1, RequestType DEF ListBlobs, TypeOK, rows
  <2>7. ASSUME Cascade(r) PROVE TypeOK'
    <3>1. [req[r] EXCEPT !.do = "erase", !.node = None] \in Request
      BY <2>r DEF Request
    <3>2. req' \in [Requests -> Request]
      BY <2>7, <3>1, RequestType DEF Cascade
    <3> QED BY <2>7, <3>2 DEF Cascade, TypeOK
  <2>8. ASSUME Retire(r) PROVE TypeOK'
    <3>1. [req[r] EXCEPT !.do = "erase", !.refs = @ \cap UNION {versions[n] : n \in Nodes}] \in Request
      BY <2>r DEF Request
    <3>2. req' \in [Requests -> Request]
      BY <2>8, <3>1, RequestType DEF Retire
    <3> QED BY <2>8, <3>2 DEF Retire, TypeOK
  <2>9. ASSUME NEW b \in Blobs, Erase(r, b) PROVE TypeOK'
    <3>1. [req[r] EXCEPT !.refs = @ \ {b}] \in Request
      BY <2>r DEF Request
    <3>2. req' \in [Requests -> Request]
      BY <2>9, <3>1, RequestType DEF Erase
    <3>3. past' \in [crossed : BOOLEAN, escaped : SUBSET Nodes, orphaned : SUBSET Blobs]
      BY <2>9 DEF Erase, TypeOK
    <3> QED BY <2>9, <3>2, <3>3 DEF Erase, TypeOK, rows
  <2>10. ASSUME EraseDone(r) PROVE TypeOK'
    <3>1. [req[r] EXCEPT !.do = "purge"] \in Request
      BY <2>r DEF Request
    <3>2. req' \in [Requests -> Request]
      BY <2>10, <3>1, <1>d, RequestType DEF EraseDone
    <3> QED BY <2>10, <3>2 DEF EraseDone, TypeOK, rows
  <2> QED
    BY <1>5, <2>1, <2>2, <2>3, <2>4, <2>5, <2>6, <2>7, <2>8, <2>9, <2>10 DEF Step
<1>6. CASE UNCHANGED vars
  BY <1>6 DEF vars, rows, TypeOK
<1> QED
  BY <1>1, <1>2, <1>3, <1>4, <1>5, <1>6 DEF Next

\* The variables keep their types.
THEOREM TypeCorrect == Spec => []TypeOK
<1>1. Init => TypeOK
  BY InitType
<1>2. TypeOK /\ [Next]_vars => TypeOK'
  BY TypeStep
<1> QED BY <1>1, <1>2, PTL DEF Spec

-----------------------------------------------------------------------------
(* The tree.                                                               *)

\* Out of what is below m: some closed set that holds m does not hold p.
LEMMA NotBelow ==
  ASSUME NEW m \in Nodes, NEW p \in Nodes, p \notin Below(m)
  PROVE  \E S \in SUBSET Nodes : m \in S /\ Closed(S) /\ p \notin S
BY DEF Below

\* A node is below itself, and the children of what is below it too.
LEMMA BelowClosed ==
  ASSUME NEW m \in Nodes
  PROVE  m \in Below(m) /\ Closed(Below(m))
BY DEF Below, Closed

\* A step that leaves the tree as it is leaves what is said of it.
LEMMA SameTree ==
  ASSUME TreeInv, TypeOK', UNCHANGED parent,
         \A r \in Requests : At(r, "move")' => At(r, "move") /\ req'[r] = req[r]
  PROVE  MovesChecked' /\ ParentsExist' /\ (Forest => Forest')
<1>1. Exists' = Exists /\ \A m : Below(m)' = Below(m)
  BY DEF Exists, Below, Closed
<1>2. ParentsExist' /\ (Forest => Forest')
  BY <1>1 DEF TreeInv, ParentsExist, Forest
<1>3. MovesChecked'
  BY <1>1 DEF TreeInv, MovesChecked
<1> QED BY <1>2, <1>3

\* A new node has no children: it is below what its parent is below, and
\* closes no loop.
LEMMA CreateTree ==
  ASSUME TreeInv, TypeOK', NEW n \in Nodes, NEW p \in Nodes \cup {Root}, Create(n, p)
  PROVE  MovesChecked' /\ ParentsExist' /\ (Forest => Forest')
<1>1. /\ parent[n] = Unborn /\ p \in Exists \cup {Root} /\ req' = req
      /\ parent' = [parent EXCEPT ![n] = p] /\ n \notin Exists
      /\ parent \in [Nodes -> Nodes \cup {Root, Unborn, Deleted}]
  BY DEF Create, Exists, TreeInv, TypeOK
<1>2. Exists' = Exists \cup {n}
  BY <1>1 DEF Exists
<1>3. \A m \in Nodes : parent[m] # n
  BY <1>1 DEF TreeInv, ParentsExist, Exists
<1>4. ParentsExist'
  BY <1>1, <1>2 DEF TreeInv, ParentsExist
<1>5. ASSUME NEW m \in Nodes, NEW q, q \notin Below(m), q # n PROVE q \notin Below(m)'
  <2>1. CASE q \in Nodes
    <3>1. PICK S \in SUBSET Nodes : m \in S /\ Closed(S) /\ q \notin S
      BY <1>5, <2>1, NotBelow
    <3>2. Closed(S \cup {n})'
      BY <3>1, <1>1, <1>3 DEF Closed
    <3>3. S \cup {n} \in SUBSET Nodes /\ m \in S \cup {n} /\ q \notin S \cup {n}
      BY <3>1, <1>5
    <3> QED BY <3>2, <3>3 DEF Below
  <2> QED BY <2>1 DEF Below
<1>6. MovesChecked'
  <2> SUFFICES ASSUME NEW r \in Requests, At(r, "move")'
               PROVE  /\ req[r].node \in Nodes
                      /\ req[r].to \in Nodes => parent'[req[r].to] # Unborn
                      /\ req[r].fresh => req[r].to \notin Below(req[r].node)'
    BY <1>1 DEF MovesChecked
  <2>1. At(r, "move")
    BY <1>1 DEF At
  <2>2. /\ req[r].node \in Nodes
        /\ req[r].to \in Nodes => parent[req[r].to] # Unborn
        /\ req[r].fresh => req[r].to \notin Below(req[r].node)
    BY <2>1 DEF TreeInv, MovesChecked
  <2>3. req[r].to # n
    BY <2>2, <1>1
  <2> QED BY <1>1, <1>5, <2>2, <2>3
<1>7. ASSUME Forest PROVE Forest'
  <2> SUFFICES ASSUME NEW S \in SUBSET (Exists'), S # {}, \A m \in S : parent'[m] \in S
               PROVE  FALSE
    BY DEF Forest
  <2>1. \A m \in S \ {n} : parent[m] \in S \ {n} /\ m \in Exists
    <3> SUFFICES ASSUME NEW m \in S \ {n}
                 PROVE  parent[m] \in S \ {n} /\ m \in Exists
      OBVIOUS
    <3>1. m \in Exists /\ m \in Nodes
      BY <1>2 DEF Exists
    <3>2. parent'[m] = parent[m]
      BY <3>1, <1>1
    <3> QED BY <3>1, <3>2, <1>3
  <2>2. S \ {n} = {}
    BY <1>7, <2>1 DEF Forest
  <2>3. parent'[n] = p /\ n \in S
    BY <1>1, <2>2
  <2> QED BY <2>2, <2>3, <1>1 DEF Exists
<1> QED BY <1>4, <1>6, <1>7

\* A deleted row takes what is below it along: nobody's parent is missing, and
\* what is left is under what it was under.
LEMMA CascadeTree ==
  ASSUME TreeInv, TypeOK', NEW r \in Requests, Cascade(r)
  PROVE  MovesChecked' /\ ParentsExist' /\ (Forest => Forest')
<1> DEFINE dead == IF req[r].node \in Exists THEN Below(req[r].node) ELSE {}
<1>1. /\ parent' = [n \in Nodes |-> IF n \in dead THEN Deleted ELSE parent[n]]
      /\ parent \in [Nodes -> Nodes \cup {Root, Unborn, Deleted}]
  BY DEF Cascade, TreeInv, TypeOK
<1>2. dead \subseteq Nodes /\ Closed(dead)
  <2>1. CASE req[r].node \in Exists
    BY <2>1, BelowClosed DEF Exists, Below
  <2> QED BY <2>1, <1>1 DEF Closed
<1> HIDE DEF dead
<1>3. Exists' = Exists \ dead /\ \A m \in Exists' : parent'[m] = parent[m] /\ parent[m] \notin dead
  BY <1>1, <1>2 DEF Exists, Closed
<1>4. ParentsExist'
  BY <1>3 DEF TreeInv, ParentsExist
<1>5. Forest => Forest'
  BY <1>3 DEF Forest
<1>6. ASSUME NEW m \in Nodes, NEW q, q \notin Below(m) PROVE q \notin Below(m)'
  <2>1. CASE q \in Nodes
    <3>1. PICK S \in SUBSET Nodes : m \in S /\ Closed(S) /\ q \notin S
      BY <1>6, <2>1, NotBelow
    <3>2. Closed(S)'
      BY <3>1, <1>1 DEF Closed
    <3> QED BY <3>1, <3>2 DEF Below
  <2> QED BY <2>1 DEF Below
<1>7. \A q \in Requests : At(q, "move")' => At(q, "move") /\ req'[q] = req[q]
  BY DEF Cascade, Begin, At, TreeInv, TypeOK, Request
<1>8. MovesChecked'
  <2> SUFFICES ASSUME NEW q \in Requests, At(q, "move")'
               PROVE  /\ req[q].node \in Nodes
                      /\ req[q].to \in Nodes => parent'[req[q].to] # Unborn
                      /\ req[q].fresh => req[q].to \notin Below(req[q].node)'
    BY <1>7 DEF MovesChecked
  <2>1. /\ req[q].node \in Nodes
        /\ req[q].to \in Nodes => parent[req[q].to] # Unborn
        /\ req[q].fresh => req[q].to \notin Below(req[q].node)
    BY <1>7 DEF TreeInv, MovesChecked
  <2> QED BY <1>1, <1>6, <1>7, <2>1
<1> QED BY <1>4, <1>5, <1>8

\* A move whose check still holds keeps the forest; one whose check is stale is
\* counted.  It makes the check of every other move stale.
LEMMA MoveTree ==
  ASSUME TreeInv, TypeOK', ForestUnlessCrossed, NEW r \in Requests, Move(r)
  PROVE  MovesChecked' /\ ParentsExist' /\ ForestUnlessCrossed'
<1> DEFINE n == req[r].node
           p == req[r].to
<1>1. /\ At(r, "move") /\ n \in Exists /\ p \in Exists \cup {Root}
      /\ parent' = [parent EXCEPT ![n] = p]
      /\ past'.crossed = (past.crossed \/ ~req[r].fresh)
      /\ req' = [q \in Requests |-> IF q = r THEN Done ELSE [req[q] EXCEPT !.fresh = FALSE]]
      /\ parent \in [Nodes -> Nodes \cup {Root, Unborn, Deleted}]
      /\ req \in [Requests -> Request] /\ Exists \subseteq Nodes
  BY DEF Move, TreeInv, TypeOK, Exists
<1>2. req[r].fresh => p \notin Below(n)
  BY <1>1 DEF TreeInv, MovesChecked
<1> HIDE DEF n, p
<1>3. Exists' = Exists
  BY <1>1 DEF Exists
<1>4. ParentsExist'
  BY <1>1, <1>3 DEF TreeInv, ParentsExist
<1>5. MovesChecked'
  <2> SUFFICES ASSUME NEW q \in Requests, At(q, "move")'
               PROVE  /\ req'[q].node \in Nodes
                      /\ req'[q].to \in Nodes => parent'[req'[q].to] # Unborn
                      /\ ~req'[q].fresh
    BY DEF MovesChecked
  <2>1. q # r
    BY <1>1 DEF At, Done, Idle
  <2>2. req'[q] = [req[q] EXCEPT !.fresh = FALSE] /\ req[q] \in Request
    BY <1>1, <2>1
  <2>3. /\ req'[q].do = req[q].do /\ req'[q].node = req[q].node
        /\ req'[q].to = req[q].to /\ req'[q].fresh = FALSE
    BY <2>2 DEF Request
  <2>4. At(q, "move")
    BY <2>3 DEF At
  <2>5. req[q].node \in Nodes /\ (req[q].to \in Nodes => parent[req[q].to] # Unborn)
    BY <2>4 DEF TreeInv, MovesChecked
  <2> QED BY <2>3, <2>5, <1>1 DEF Exists
<1>6. ForestUnlessCrossed'
  <2> SUFFICES ASSUME ~past.crossed, req[r].fresh PROVE Forest'
    BY <1>1 DEF ForestUnlessCrossed
  <2>1. Forest /\ p \notin Below(n) /\ n \in Below(n) /\ Closed(Below(n))
    BY <1>1, <1>2, BelowClosed DEF ForestUnlessCrossed
  <2> SUFFICES ASSUME NEW S \in SUBSET Exists, S # {}, \A m \in S : parent'[m] \in S
               PROVE  FALSE
    BY <1>3 DEF Forest
  <2>2. CASE n \notin S
    <3>1. \A m \in S : parent[m] \in S
      BY <1>1, <2>2
    <3> QED BY <2>1, <3>1 DEF Forest
  <2>3. CASE n \in S
    <3> DEFINE T == S \ Below(n)
    <3>1. p \in T
      BY <1>1, <2>1, <2>3
    <3>2. \A m \in T : m # n /\ parent[m] \in S
      BY <1>1, <2>1
    <3>3. \A m \in T : parent[m] \in T
      BY <3>2, <2>1, <1>1 DEF Closed
    <3>4. T \in SUBSET Exists /\ T # {}
      BY <3>1
    <3> QED BY <2>1, <3>3, <3>4 DEF Forest
  <2> QED BY <2>2, <2>3
<1> QED BY <1>4, <1>5, <1>6

\* A move that is checked holds what it has checked.
LEMMA CheckTree ==
  ASSUME TreeInv, TypeOK', NEW r \in Requests, NEW n \in Nodes, NEW p \in Nodes \cup {Root},
         CheckMove(r, n, p)
  PROVE  MovesChecked' /\ ParentsExist' /\ (Forest => Forest')
<1>1. /\ req' = [req EXCEPT ![r] = [Idle EXCEPT !.do = "move", !.node = n, !.to = p, !.fresh = TRUE]]
      /\ parent' = parent /\ p \in Exists \cup {Root} /\ p \notin Below(n)
      /\ req \in [Requests -> Request]
  BY DEF CheckMove, Begin, rows, TreeInv, TypeOK
<1>2. Exists' = Exists /\ \A m : Below(m)' = Below(m)
  BY <1>1 DEF Exists, Below, Closed
<1>3. ParentsExist' /\ (Forest => Forest')
  BY <1>1, <1>2 DEF TreeInv, ParentsExist, Forest
<1>4. MovesChecked'
  <2> SUFFICES ASSUME NEW q \in Requests, At(q, "move")'
               PROVE  /\ req'[q].node \in Nodes
                      /\ req'[q].to \in Nodes => parent[req'[q].to] # Unborn
                      /\ req'[q].fresh => req'[q].to \notin Below(req'[q].node)
    BY <1>1, <1>2 DEF MovesChecked
  <2>1. CASE q = r
    <3>1. req'[r].node = n /\ req'[r].to = p
      BY <1>1 DEF Idle
    <3> QED BY <2>1, <3>1, <1>1 DEF Exists
  <2>2. CASE q # r
    <3>1. req'[q] = req[q] /\ At(q, "move")
      BY <2>2, <1>1 DEF At
    <3> QED BY <3>1 DEF TreeInv, MovesChecked
  <2> QED BY <2>1, <2>2
<1> QED BY <1>3, <1>4

\* The other steps leave the tree, and begin no move.
LEMMA OtherSteps ==
  ASSUME TypeOK, NEW r \in Requests,
         \/ \E n \in Nodes, b \in Blobs : PutBlob(r, n, b) \/ ReadVersion(r, n, b)
         \/ \E S \in SUBSET Nodes : SelectTrash(r, S)
         \/ \E S \in SUBSET Blobs : SelectOld(r, S)
         \/ RefuseMove(r) \/ PutCommit(r) \/ PutRefuse(r) \/ RestoreVersion(r) \/ RefuseVersion(r)
         \/ \E m \in Nodes : ListBlobs(r, m)
         \/ \E b \in Blobs : Erase(r, b)
         \/ EraseDone(r) \/ Retire(r)
  PROVE  UNCHANGED parent /\ \A q \in Requests : At(q, "move")' => At(q, "move") /\ req'[q] = req[q]
<1>1. req \in [Requests -> Request] /\ req[r] \in Request
  BY DEF TypeOK
<1> SUFFICES /\ UNCHANGED parent
             /\ req'[r].do # "move"
             /\ \A q \in Requests \ {r} : req'[q] = req[q]
  BY DEF At
<1>2. ASSUME NEW n \in Nodes, NEW b \in Blobs, PutBlob(r, n, b) PROVE req'[r].do = "put"
  BY <1>1, <1>2 DEF PutBlob, Begin, Idle
<1>3. ASSUME NEW n \in Nodes, NEW b \in Blobs, ReadVersion(r, n, b) PROVE req'[r].do = "back"
  BY <1>1, <1>3 DEF ReadVersion, Begin, Idle
<1>4. ASSUME NEW S \in SUBSET Nodes, SelectTrash(r, S) PROVE req'[r].do = "purge"
  BY <1>1, <1>4 DEF SelectTrash, Begin, Idle
<1>5. ASSUME NEW S \in SUBSET Blobs, SelectOld(r, S) PROVE req'[r].do = "retire"
  BY <1>1, <1>5 DEF SelectOld, Begin, Idle
<1>6. ASSUME RefuseMove(r) \/ PutCommit(r) \/ RestoreVersion(r) \/ RefuseVersion(r)
      PROVE  req'[r].do = "done"
  BY <1>1, <1>6 DEF RefuseMove, PutCommit, RestoreVersion, RefuseVersion, End, Done, Idle
<1>7. ASSUME PutRefuse(r) \/ Retire(r) PROVE req'[r].do = "erase"
  <2>1. CASE PutRefuse(r)
    BY <1>1, <2>1 DEF PutRefuse, Begin, Request
  <2>2. CASE Retire(r)
    <3>1. \A S : [req[r] EXCEPT !.do = "erase", !.refs = S].do = "erase"
      BY <1>1 DEF Request
    <3>2. req'[r] = [req[r] EXCEPT !.do = "erase", !.refs = @ \cap UNION {versions[n] : n \in Nodes}]
      BY <1>1, <2>2 DEF Retire, Begin
    <3> QED BY <3>1, <3>2
  <2> QED BY <1>7, <2>1, <2>2
<1>8. ASSUME NEW m \in Nodes, ListBlobs(r, m) PROVE req'[r].do = "cascade"
  BY <1>1, <1>8 DEF ListBlobs, Begin, Request
<1>9. ASSUME NEW b \in Blobs, Erase(r, b) PROVE req'[r].do = "erase"
  BY <1>1, <1>9 DEF Erase, Begin, Request, At
<1>10. ASSUME EraseDone(r) PROVE req'[r].do \in {"done", "purge"}
  BY <1>1, <1>10 DEF EraseDone, Begin, Request, Done, Idle
<1>11. req'[r].do # "move"
  BY <1>2, <1>3, <1>4, <1>5, <1>6, <1>7, <1>8, <1>9, <1>10
<1>12. UNCHANGED parent
  BY DEF PutBlob, ReadVersion, SelectTrash, SelectOld, RefuseMove, PutCommit, RestoreVersion,
         RefuseVersion, PutRefuse, Retire, ListBlobs, Erase, EraseDone, rows
<1>13. \E q : req' = [req EXCEPT ![r] = q]
  <2>1. CASE \/ \E n \in Nodes, b \in Blobs : PutBlob(r, n, b) \/ ReadVersion(r, n, b)
             \/ \E S \in SUBSET Nodes : SelectTrash(r, S)
             \/ \E S \in SUBSET Blobs : SelectOld(r, S)
    <3>1. \E q : Begin(r, q)
      BY <2>1 DEF PutBlob, ReadVersion, SelectTrash, SelectOld
    <3> QED BY <3>1 DEF Begin
  <2>2. CASE RefuseMove(r) \/ PutCommit(r) \/ RestoreVersion(r) \/ RefuseVersion(r)
    BY <2>2 DEF RefuseMove, PutCommit, RestoreVersion, RefuseVersion, End
  <2>3. CASE PutRefuse(r) \/ Retire(r) \/ EraseDone(r)
    BY <2>3 DEF PutRefuse, Retire, EraseDone, Begin
  <2>4. CASE (\E m \in Nodes : ListBlobs(r, m)) \/ (\E b \in Blobs : Erase(r, b))
    BY <2>4 DEF ListBlobs, Erase, Begin
  <2> QED BY <2>1, <2>2, <2>3, <2>4
<1>14. \A q \in Requests \ {r} : req'[q] = req[q]
  BY <1>1, <1>13
<1> QED BY <1>11, <1>12, <1>14

\* The invariant behind ForestUnlessCrossed.
LEMMA TreeStep == TreeInv /\ ForestUnlessCrossed /\ [Next]_vars => (TreeInv /\ ForestUnlessCrossed)'
<1> SUFFICES ASSUME TreeInv, ForestUnlessCrossed, [Next]_vars
             PROVE  MovesChecked' /\ ParentsExist' /\ ForestUnlessCrossed'
  BY TypeStep DEF TreeInv
<1>1. TypeOK'
  BY TypeStep DEF TreeInv
<1>2. past.crossed => past'.crossed
  BY ZenonT(60) DEF Next, vars, Step, Arrive, TreeInv, TypeOK, Create, Trash, Restore, Crash, CheckMove, Move,
         RefuseMove, PutBlob, PutCommit, PutRefuse, ReadVersion, RestoreVersion, RefuseVersion,
         SelectTrash, ListBlobs, Cascade, Erase, EraseDone, SelectOld, Retire
<1>3. ASSUME NEW r \in Requests, Move(r) PROVE MovesChecked' /\ ParentsExist' /\ ForestUnlessCrossed'
  BY <1>1, <1>3, MoveTree
<1>4. SUFFICES \/ MovesChecked' /\ ParentsExist' /\ (Forest => Forest')
               \/ \E r \in Requests : Move(r)
  BY <1>2, <1>3 DEF ForestUnlessCrossed
<1>5. ASSUME UNCHANGED parent, \A q \in Requests : At(q, "move")' => At(q, "move") /\ req'[q] = req[q]
      PROVE  MovesChecked' /\ ParentsExist' /\ (Forest => Forest')
  BY <1>1, <1>5, SameTree
<1>6. CASE UNCHANGED vars
  BY <1>5, <1>6 DEF vars, rows, At
<1>7. CASE \E n \in Nodes, p \in Nodes \cup {Root} : Create(n, p)
  BY <1>1, <1>7, CreateTree
<1>8. CASE (\E n \in Nodes : Trash(n) \/ Restore(n)) \/ Crash
  BY <1>5, <1>8 DEF Trash, Restore, Crash, rows, At, Done, Idle
<1>9. CASE \E r \in Requests : Step(r)
  <2> PICK r \in Requests : Step(r)
    BY <1>9
  <2>1. CASE Cascade(r)
    BY <1>1, <2>1, CascadeTree
  <2> QED BY <1>5, <2>1, OtherSteps DEF Step, TreeInv
<1>10. CASE \E r \in Requests : Arrive(r)
  <2> PICK r \in Requests : Arrive(r)
    BY <1>10
  <2>1. CASE \E n \in Nodes, p \in Nodes \cup {Root} : CheckMove(r, n, p)
    BY <1>1, <2>1, CheckTree
  <2> QED BY <1>5, <2>1, OtherSteps DEF Arrive, TreeInv
<1> QED BY <1>6, <1>7, <1>8, <1>9, <1>10 DEF Next

LEMMA InitTree == Init => TreeInv /\ ForestUnlessCrossed
<1> SUFFICES ASSUME Init PROVE TreeInv /\ ForestUnlessCrossed
  OBVIOUS
<1>1. Exists = {}
  BY DEF Init, Exists
<1>2. ParentsExist /\ Forest
  BY <1>1 DEF ParentsExist, Forest
<1>3. MovesChecked
  BY DEF Init, MovesChecked, At, Idle
<1> QED BY <1>2, <1>3, InitType DEF TreeInv, ForestUnlessCrossed

\* The tree has no loop as long as no move is committed that was checked
\* before another one; and no row has lost its parent.
THEOREM TreeSound == Spec => [](ParentsExist /\ ForestUnlessCrossed)
<1>1. Init => TreeInv /\ ForestUnlessCrossed
  BY InitTree
<1>2. (TreeInv /\ ForestUnlessCrossed) /\ [Next]_vars => (TreeInv /\ ForestUnlessCrossed)'
  BY TreeStep
<1>3. TreeInv /\ ForestUnlessCrossed => ParentsExist /\ ForestUnlessCrossed
  BY DEF TreeInv
<1> QED BY <1>1, <1>2, <1>3, PTL DEF Spec

-----------------------------------------------------------------------------
(* The rows and the storage: what a row names is stored, what is stored is *)
(* named.  A request holds blobs that it has written and not yet recorded, *)
(* has listed and not yet deleted, or has taken out of the rows.           *)

\* Rows that are not there name nothing; two rows never name the same blob; what
\* they name was drawn.
RowsOwn ==
  /\ \A n \in Nodes \ Exists : RefsOf(n) = {}
  /\ \A m, n \in Nodes : m # n => RefsOf(m) \cap RefsOf(n) = {}
  /\ \A n \in Nodes : RefsOf(n) \subseteq drawn
  /\ \A n \in trashed : parent[n] # Unborn

\* A content that is being recorded is one stored blob, which nobody else knows.
PutOwns ==
  \A r \in Requests : At(r, "put") =>
    \E b \in stored : /\ req[r].refs = {b}
                      /\ \A n \in Nodes : b \notin RefsOf(n)
                      /\ \A q \in Requests \ {r} : b \notin req[q].refs

Kept(n) == n \in Exists \ past.escaped
Listed(r, m) == At(r, "cascade") /\ req[r].node = m

\* What is listed is named below the node to delete; what is taken out is named
\* nowhere; what is about to be is not a current content.
ErasuresOwn ==
  \A r \in Requests, n \in Nodes, b \in Blobs : b \in req[r].refs /\ Kept(n) =>
    /\ \A m \in Nodes : Listed(r, m) /\ b \in RefsOf(n) => m \in Exists /\ n \in Below(m)
    /\ At(r, "erase") => b \notin RefsOf(n)
    /\ At(r, "retire") => b # current[n]

\* A request works on blobs that were drawn and on nodes that were created.
RequestsOwn ==
  \A r \in Requests :
    /\ req[r].refs \subseteq drawn
    /\ \A n \in req[r].todo : parent[n] # Unborn
    /\ At(r, "cascade") => req[r].node \in Nodes /\ parent[req[r].node] # Unborn

BlobInv ==
  /\ TypeOK /\ ParentsExist
  /\ RowsOwn /\ PutOwns /\ ErasuresOwn /\ RequestsOwn
  /\ NoBrokenReference

\* The versions below a node that is about to be deleted are listed, or came too
\* late to be.
ListsCover ==
  \A r \in Requests, m \in Exists : Listed(r, m) =>
    \A n \in Below(m) : versions[n] \subseteq req[r].refs \cup past.orphaned

\* NoOrphan, without the help of the current contents.
NoOrphanVersion ==
  \A b \in stored \ past.orphaned :
    \/ \E n \in Exists : b \in versions[n]
    \/ \E r \in Requests : req[r].do \in {"put", "erase"} /\ b \in req[r].refs

OrphanInv == BlobInv /\ ListsCover /\ NoOrphanVersion

-----------------------------------------------------------------------------
(* What is below a node, before and after.                                 *)

LEMMA BelowLeast ==
  ASSUME NEW m \in Nodes, NEW S \in SUBSET Nodes, m \in S, Closed(S)
  PROVE  Below(m) \subseteq S
BY DEF Below

\* A node below another one has its parent there.
LEMMA BelowParent ==
  ASSUME NEW m \in Nodes, NEW n \in Below(m), n # m
  PROVE  parent[n] \in Below(m)
<1> SUFFICES ASSUME parent[n] \notin Below(m) PROVE FALSE
  OBVIOUS
<1>1. m \in Below(m) /\ Closed(Below(m)) /\ Below(m) \subseteq Nodes
  BY BelowClosed DEF Below
<1>2. Closed(Below(m) \ {n})
  BY <1>1 DEF Closed
<1>3. Below(m) \subseteq Below(m) \ {n}
  BY <1>1, <1>2, BelowLeast
<1> QED BY <1>3

\* A move of n under p takes from below m at most what is below n, and brings at
\* most that.
LEMMA MoveBelow ==
  ASSUME TypeOK, NEW n \in Nodes, NEW p, parent' = [parent EXCEPT ![n] = p],
         NEW m \in Nodes
  PROVE  /\ Below(m) \subseteq Below(m)' \cup (IF n \in Below(m) THEN Below(n) ELSE {})
         /\ Below(m)' \subseteq Below(m) \cup (IF p \in Below(m) THEN Below(n) ELSE {})
<1>1. /\ m \in Below(m) /\ Closed(Below(m)) /\ Below(m) \subseteq Nodes
      /\ n \in Below(n) /\ Closed(Below(n)) /\ Below(n) \subseteq Nodes
  BY BelowClosed DEF Below
<1>2. parent \in [Nodes -> Nodes \cup {Root, Unborn, Deleted}]
  BY DEF TypeOK
<1>3. \A k \in Nodes : k # n => parent'[k] = parent[k]
  BY <1>2
<1>4. parent'[n] = p
  BY <1>2
<1>5. ASSUME NEW S \in SUBSET Nodes, m \in S, \A k \in Nodes : parent'[k] \in S => k \in S
      PROVE  Below(m) \subseteq S \cup (IF n \in Below(m) THEN Below(n) ELSE {})
  <2> DEFINE D == IF n \in Below(m) THEN Below(n) ELSE {}
             T == S \cup D \cup (Nodes \ Below(m))
  <2>1. Closed(T)
    <3> SUFFICES ASSUME NEW k \in Nodes, parent[k] \in T, k \in Below(m), k \notin D, k \notin S
                 PROVE  FALSE
      BY DEF Closed
    <3>1. parent[k] \in Below(m)
      BY <1>5, BelowParent
    <3>2. parent[k] \notin D
      BY <1>1 DEF Closed
    <3>3. parent[k] \in S
      BY <3>1, <3>2
    <3>4. k # n
      BY <1>1
    <3> QED BY <1>3, <1>5, <3>3, <3>4
  <2>2. T \in SUBSET Nodes /\ m \in T
    BY <1>1, <1>5
  <2>3. Below(m) \subseteq T
    BY <2>1, <2>2, BelowLeast
  <2> QED BY <2>3
<1>6. Below(m)' \subseteq Below(m) \cup (IF p \in Below(m) THEN Below(n) ELSE {})
  <2> DEFINE T == Below(m) \cup (IF p \in Below(m) THEN Below(n) ELSE {})
  <2>1. \A k \in Nodes : parent'[k] \in T => k \in T
    BY <1>1, <1>3, <1>4 DEF Closed
  <2>2. T \in SUBSET Nodes /\ m \in T
    BY <1>1
  <2> HIDE DEF T
  <2>3. Below(m)' \subseteq T
    BY <2>1, <2>2 DEF Below, Closed
  <2> QED BY <2>3 DEF T
<1> DEFINE D == IF n \in Below(m) THEN Below(n) ELSE {}
<1>7. ASSUME NEW k \in Below(m), k \notin D PROVE k \in Below(m)'
  <2>1. \A S \in SUBSET Nodes : m \in S /\ Closed(S)' => k \in S
    BY <1>5, <1>7 DEF Closed
  <2>2. k \in Nodes
    BY <1>1
  <2> QED BY <2>1, <2>2 DEF Below, Closed
<1> QED BY <1>6, <1>7

\* A new node is below what its parent is below, and nothing else changes.
LEMMA CreateBelow ==
  ASSUME TypeOK, ParentsExist, NEW n \in Nodes, NEW p, parent[n] = Unborn,
         parent' = [parent EXCEPT ![n] = p], NEW m \in Nodes
  PROVE  Below(m) \subseteq Below(m)' /\ Below(m)' \subseteq Below(m) \cup {n}
<1>1. m \in Below(m) /\ Closed(Below(m)) /\ Below(m) \subseteq Nodes
  BY BelowClosed DEF Below
<1>2. parent \in [Nodes -> Nodes \cup {Root, Unborn, Deleted}]
  BY DEF TypeOK
<1>3. \A k \in Nodes : k # n => parent'[k] = parent[k]
  BY <1>2
<1>4. \A k \in Nodes : parent[k] # n
  BY <1>2 DEF ParentsExist, Exists
<1>5. ASSUME NEW S \in SUBSET Nodes, \A k \in Nodes : parent'[k] \in S => k \in S
      PROVE  Closed(S)
  BY <1>3, <1>5 DEF Closed
<1>6. Below(m) \subseteq Below(m)'
  BY <1>5 DEF Below, Closed
<1> DEFINE T == Below(m) \cup {n}
<1>7. \A k \in Nodes : parent'[k] \in T => k \in T
  BY <1>1, <1>3, <1>4 DEF Closed
<1>8. T \in SUBSET Nodes /\ m \in T
  BY <1>1
<1> HIDE DEF T
<1>9. Below(m)' \subseteq T
  BY <1>7, <1>8 DEF Below, Closed
<1> QED BY <1>6, <1>9 DEF T

\* Rows that go take what is below them along: the others are below what they were
\* below.
LEMMA CascadeBelow ==
  ASSUME TypeOK, NEW dead \in SUBSET Nodes, Closed(dead),
         parent' = [n \in Nodes |-> IF n \in dead THEN Deleted ELSE parent[n]], NEW m \in Nodes
  PROVE  Below(m) \subseteq Below(m)' \cup dead /\ Below(m)' \subseteq Below(m)
<1>1. m \in Below(m) /\ Closed(Below(m)) /\ Below(m) \subseteq Nodes
  BY BelowClosed DEF Below
<1>2. \A k \in Nodes : parent'[k] \in Nodes => parent'[k] = parent[k]
  OBVIOUS
<1>3. \A k \in Nodes : parent'[k] \in Below(m) => k \in Below(m)
  BY <1>1, <1>2 DEF Closed
<1> DEFINE T == Below(m)
<1>4. T \in SUBSET Nodes /\ m \in T /\ \A k \in Nodes : parent'[k] \in T => k \in T
  BY <1>1, <1>3
<1> HIDE DEF T
<1>5. Below(m)' \subseteq T
  BY <1>4 DEF Below, Closed
<1>6. ASSUME NEW k \in Below(m), k \notin dead PROVE k \in Below(m)'
  <2>1. ASSUME NEW S \in SUBSET Nodes, m \in S, \A j \in Nodes : parent'[j] \in S => j \in S
        PROVE  k \in S
    <3>1. Closed(S \cup dead)
      BY <2>1 DEF Closed
    <3>2. Below(m) \subseteq S \cup dead
      BY <2>1, <3>1, BelowLeast
    <3> QED BY <1>6, <3>2
  <2>2. k \in Nodes
    BY <1>1
  <2> QED BY <2>1, <2>2 DEF Below, Closed
<1> QED BY <1>5, <1>6 DEF T

-----------------------------------------------------------------------------
(* Steps of a request that touch neither the rows nor the storage.         *)

Others(r) == \A q \in Requests \ {r} : req'[q] = req[q]

\* What such a step owes to the invariants.
Quiet(r) ==
  /\ UNCHANGED <<rows, stored, drawn, past>> /\ Others(r)
  /\ req'[r].do # "put"
  /\ \A b \in req'[r].refs : b \in req[r].refs \/ \E n \in Nodes : b \in RefsOf(n)
  /\ \A n \in req'[r].todo : parent[n] # Unborn
  /\ req'[r].do = "cascade" => req'[r].node \in Nodes /\ parent[req'[r].node] # Unborn
  /\ \A n \in Nodes, b \in Blobs : b \in req'[r].refs /\ Kept(n) =>
       /\ \A m \in Nodes : Listed(r, m)' /\ b \in RefsOf(n) => m \in Exists /\ n \in Below(m)
       /\ req'[r].do = "erase" => b \notin RefsOf(n)
       /\ req'[r].do = "retire" => b # current[n]
  /\ \A m \in Exists : Listed(r, m)' => \A n \in Below(m) : versions[n] \subseteq req'[r].refs
  /\ req[r].do \in {"put", "erase"} =>
       req[r].refs = {} \/ (req'[r].do = "erase" /\ req'[r].refs = req[r].refs)

LEMMA SameRows ==
  ASSUME UNCHANGED rows
  PROVE  /\ Exists' = Exists
         /\ \A n : RefsOf(n)' = RefsOf(n)
         /\ \A m : Below(m)' = Below(m)
         /\ UNCHANGED <<parent, trashed, versions, current>>
BY DEF rows, Exists, RefsOf, Below, Closed

\* A new state of one request.
LEMMA NewRequest ==
  ASSUME TypeOK, NEW r \in Requests, NEW k \in Request, Begin(r, k)
  PROVE  Others(r) /\ req'[r] = k
BY DEF TypeOK, Begin, Others

LEMMA QuietBlobs ==
  ASSUME BlobInv, TypeOK', NEW r \in Requests, Quiet(r)
  PROVE  BlobInv'
<1>1. /\ Exists' = Exists
      /\ \A n : RefsOf(n)' = RefsOf(n)
      /\ \A m : Below(m)' = Below(m)
      /\ UNCHANGED <<parent, trashed, versions, current, stored, drawn, past>>
      /\ \A q \in Requests \ {r} : req'[q] = req[q]
  BY SameRows DEF Quiet, Others
<1>2. ParentsExist' /\ RowsOwn' /\ NoBrokenReference'
  BY <1>1 DEF BlobInv, ParentsExist, RowsOwn, NoBrokenReference
<1>3. PutOwns'
  <2> SUFFICES ASSUME NEW p \in Requests, req'[p].do = "put"
               PROVE  \E b \in stored : /\ req'[p].refs = {b}
                                        /\ \A n \in Nodes : b \notin RefsOf(n)
                                        /\ \A q \in Requests \ {p} : b \notin req'[q].refs
    BY <1>1 DEF PutOwns, At
  <2>1. p # r /\ req'[p] = req[p]
    BY <1>1 DEF Quiet
  <2>2. PICK b \in stored : /\ req[p].refs = {b}
                            /\ \A n \in Nodes : b \notin RefsOf(n)
                            /\ \A q \in Requests \ {p} : b \notin req[q].refs
    BY <2>1 DEF BlobInv, PutOwns, At
  <2>3. b \notin req'[r].refs
    BY <2>1, <2>2 DEF Quiet
  <2> QED BY <1>1, <2>1, <2>2, <2>3
<1>4. ErasuresOwn'
  <2> SUFFICES ASSUME NEW p \in Requests, NEW n \in Nodes, NEW b \in Blobs,
                      b \in req'[p].refs, Kept(n)
               PROVE  /\ \A m \in Nodes : Listed(p, m)' /\ b \in RefsOf(n) =>
                           m \in Exists /\ n \in Below(m)
                      /\ req'[p].do = "erase" => b \notin RefsOf(n)
                      /\ req'[p].do = "retire" => b # current[n]
    BY <1>1 DEF ErasuresOwn, At, Kept
  <2>1. CASE p = r
    BY <2>1 DEF Quiet
  <2>2. CASE p # r
    BY <1>1, <2>2 DEF BlobInv, ErasuresOwn, At, Listed
  <2> QED BY <2>1, <2>2
<1>5. RequestsOwn'
  <2>1. \A n \in Nodes : RefsOf(n) \subseteq drawn
    BY DEF BlobInv, RowsOwn
  <2>2. req'[r].refs \subseteq drawn
    BY <2>1 DEF BlobInv, RequestsOwn, Quiet
  <2> QED BY <1>1, <2>2 DEF BlobInv, RequestsOwn, Quiet, At
<1> QED BY <1>2, <1>3, <1>4, <1>5 DEF BlobInv

LEMMA QuietOrphans ==
  ASSUME OrphanInv, NEW r \in Requests, Quiet(r)
  PROVE  ListsCover' /\ NoOrphanVersion'
<1>1. /\ Exists' = Exists
      /\ \A m : Below(m)' = Below(m)
      /\ UNCHANGED <<parent, trashed, versions, current, stored, drawn, past>>
      /\ \A q \in Requests \ {r} : req'[q] = req[q]
  BY SameRows DEF Quiet, Others
<1>2. ListsCover'
  <2> SUFFICES ASSUME NEW p \in Requests, NEW m \in Exists, Listed(p, m)', NEW n \in Below(m)
               PROVE  versions[n] \subseteq req'[p].refs \cup past.orphaned
    BY <1>1 DEF ListsCover
  <2>1. CASE p = r
    BY <2>1 DEF Quiet
  <2>2. CASE p # r
    BY <1>1, <2>2 DEF OrphanInv, ListsCover, Listed, At
  <2> QED BY <2>1, <2>2
<1>3. NoOrphanVersion'
  <2> SUFFICES ASSUME NEW b \in stored \ past.orphaned,
                      NEW p \in Requests, req[p].do \in {"put", "erase"}, b \in req[p].refs
               PROVE  \E q \in Requests : req'[q].do \in {"put", "erase"} /\ b \in req'[q].refs
    BY <1>1 DEF OrphanInv, NoOrphanVersion
  <2>1. CASE p = r
    BY <2>1 DEF Quiet
  <2>2. CASE p # r
    BY <1>1, <2>2
  <2> QED BY <2>1, <2>2
<1> QED BY <1>2, <1>3

LEMMA RefusalsQuiet ==
  ASSUME BlobInv, NEW r \in Requests,
         RefuseMove(r) \/ RefuseVersion(r) \/ PutRefuse(r) \/ EraseDone(r)
  PROVE  Quiet(r)
<1>0. TypeOK /\ req[r] \in Request /\ Done \in Request
  BY DoneType DEF BlobInv, TypeOK
<1>1. CASE RefuseMove(r) \/ RefuseVersion(r)
  <2>1. Others(r) /\ req'[r] = Done
    BY <1>0, <1>1, NewRequest DEF RefuseMove, RefuseVersion, End, Begin
  <2>2. req'[r].do = "done" /\ req'[r].refs = {} /\ req'[r].todo = {}
    BY <2>1 DEF Done, Idle
  <2>3. req[r].do \notin {"put", "erase"} /\ UNCHANGED <<rows, stored, drawn, past>>
    BY <1>1 DEF RefuseMove, RefuseVersion, At
  <2> QED BY <2>1, <2>2, <2>3 DEF Quiet, Listed, At
<1>2. CASE PutRefuse(r)
  <2> DEFINE k == [req[r] EXCEPT !.do = "erase", !.node = None]
  <2>1. k \in Request /\ k.do = "erase" /\ k.refs = req[r].refs /\ k.todo = req[r].todo
    BY <1>0 DEF Request
  <2>2. Begin(r, k)
    BY <1>2 DEF PutRefuse
  <2> HIDE DEF k
  <2>3. Others(r) /\ req'[r] = k
    BY <1>0, <2>1, <2>2, NewRequest
  <2>4. \A n \in Nodes, b \in req[r].refs : b \notin RefsOf(n)
    BY <1>2 DEF BlobInv, PutOwns, PutRefuse
  <2>5. \A n \in req[r].todo : parent[n] # Unborn
    BY DEF BlobInv, RequestsOwn
  <2>6. UNCHANGED <<rows, stored, drawn, past>>
    BY <1>2 DEF PutRefuse
  <2> QED BY <2>1, <2>3, <2>4, <2>5, <2>6 DEF Quiet, Listed, At
<1>3. CASE EraseDone(r)
  <2> DEFINE k == IF req[r].todo = {} THEN Done ELSE [req[r] EXCEPT !.do = "purge"]
  <2>0. req[r].refs = {} /\ UNCHANGED <<rows, stored, drawn, past>>
    BY <1>3 DEF EraseDone
  <2>1. /\ k \in Request /\ k.do \in {"purge", "done"} /\ k.refs = {}
        /\ k.todo \subseteq req[r].todo
    BY <1>0, <2>0 DEF Request, Done, Idle
  <2>2. Begin(r, k)
    BY <1>3 DEF EraseDone
  <2> HIDE DEF k
  <2>3. Others(r) /\ req'[r] = k
    BY <1>0, <2>1, <2>2, NewRequest
  <2>4. \A n \in req[r].todo : parent[n] # Unborn
    BY DEF BlobInv, RequestsOwn
  <2> QED BY <2>0, <2>1, <2>3, <2>4 DEF Quiet, Listed, At
<1> QED BY <1>1, <1>2, <1>3

LEMMA BeginningsQuiet ==
  ASSUME BlobInv, NEW r \in Requests,
         \/ \E n \in Nodes, p \in Nodes \cup {Root} : CheckMove(r, n, p)
         \/ \E n \in Nodes, b \in Blobs : ReadVersion(r, n, b)
         \/ \E S \in SUBSET Nodes : SelectTrash(r, S)
         \/ \E S \in SUBSET Blobs : SelectOld(r, S)
  PROVE  Quiet(r)
<1>0. TypeOK /\ req[r] \in Request /\ Idle \in Request
  BY DoneType DEF BlobInv, TypeOK
<1>1. ASSUME NEW n \in Nodes, NEW p \in Nodes \cup {Root}, CheckMove(r, n, p) PROVE Quiet(r)
  <2> DEFINE k == [Idle EXCEPT !.do = "move", !.node = n, !.to = p, !.fresh = TRUE]
  <2>1. k \in Request /\ k.do = "move" /\ k.refs = {} /\ k.todo = {}
    BY DEF Idle, Request
  <2>2. Begin(r, k) /\ req[r].do = "idle" /\ UNCHANGED <<rows, stored, drawn, past>>
    BY <1>1 DEF CheckMove, At
  <2> HIDE DEF k
  <2>3. Others(r) /\ req'[r] = k
    BY <1>0, <2>1, <2>2, NewRequest
  <2> QED BY <2>1, <2>2, <2>3 DEF Quiet, Listed, At
<1>2. ASSUME NEW n \in Nodes, NEW b \in Blobs, ReadVersion(r, n, b) PROVE Quiet(r)
  <2> DEFINE k == [Idle EXCEPT !.do = "back", !.node = n, !.refs = {b}]
  <2>1. k \in Request /\ k.do = "back" /\ k.refs = {b} /\ k.todo = {}
    BY DEF Idle, Request
  <2>2. Begin(r, k) /\ req[r].do = "idle" /\ UNCHANGED <<rows, stored, drawn, past>> /\ b \in versions[n]
    BY <1>2 DEF ReadVersion, At
  <2> HIDE DEF k
  <2>3. Others(r) /\ req'[r] = k
    BY <1>0, <2>1, <2>2, NewRequest
  <2>4. b \in RefsOf(n)
    BY <2>2 DEF RefsOf
  <2> QED BY <2>1, <2>2, <2>3, <2>4 DEF Quiet, Listed, At
<1>3. ASSUME NEW S \in SUBSET Nodes, SelectTrash(r, S) PROVE Quiet(r)
  <2> DEFINE k == [Idle EXCEPT !.do = "purge", !.todo = S]
  <2>1. k \in Request /\ k.do = "purge" /\ k.refs = {} /\ k.todo = S
    BY DEF Idle, Request
  <2>2. Begin(r, k) /\ req[r].do = "idle" /\ UNCHANGED <<rows, stored, drawn, past>> /\ S \subseteq trashed
    BY <1>3 DEF SelectTrash, At
  <2> HIDE DEF k
  <2>3. Others(r) /\ req'[r] = k
    BY <1>0, <2>1, <2>2, NewRequest
  <2>4. \A n \in S : parent[n] # Unborn
    BY <2>2 DEF BlobInv, RowsOwn
  <2> QED BY <2>1, <2>2, <2>3, <2>4 DEF Quiet, Listed, At
<1>4. ASSUME NEW S \in SUBSET Blobs, SelectOld(r, S) PROVE Quiet(r)
  <2> DEFINE k == [Idle EXCEPT !.do = "retire", !.refs = S]
  <2>1. k \in Request /\ k.do = "retire" /\ k.refs = S /\ k.todo = {}
    BY DEF Idle, Request
  <2>2. /\ Begin(r, k) /\ req[r].do = "idle" /\ UNCHANGED <<rows, stored, drawn, past>>
        /\ \A b \in S : \E n \in Nodes : b \in versions[n] /\ b # current[n]
    BY <1>4 DEF SelectOld, At
  <2> HIDE DEF k
  <2>3. Others(r) /\ req'[r] = k
    BY <1>0, <2>1, <2>2, NewRequest
  <2>4. \A b \in S : \E n \in Nodes : b \in RefsOf(n)
    BY <2>2 DEF RefsOf
  <2>5. \A n \in Nodes, b \in S : b # current[n]
    <3> SUFFICES ASSUME NEW n \in Nodes, NEW b \in S, b = current[n] PROVE FALSE
      OBVIOUS
    <3>1. PICK m \in Nodes : b \in versions[m] /\ b # current[m]
      BY <2>2
    <3>2. b \in RefsOf(m) /\ b \in RefsOf(n) /\ m # n
      BY <3>1 DEF RefsOf
    <3> QED BY <3>2 DEF BlobInv, RowsOwn
  <2> QED BY <2>1, <2>2, <2>3, <2>4, <2>5 DEF Quiet, Listed, At
<1> QED BY <1>1, <1>2, <1>3, <1>4

LEMMA ListBlobsQuiet ==
  ASSUME BlobInv, NEW r \in Requests, NEW m \in Nodes, ListBlobs(r, m)
  PROVE  Quiet(r)
<1> DEFINE k == [req[r] EXCEPT !.do = "cascade", !.node = m, !.todo = @ \ {m},
                               !.refs = SubtreeBlobRefs(m)]
<1>0. TypeOK /\ req[r] \in Request /\ Below(m) \subseteq Nodes /\ SubtreeBlobRefs(m) \subseteq Blobs
  BY QueryType DEF BlobInv, TypeOK
<1>1. /\ k \in Request /\ k.do = "cascade" /\ k.node = m /\ k.todo = req[r].todo \ {m}
      /\ k.refs = SubtreeBlobRefs(m)
  BY <1>0 DEF Request
<1>2. /\ Begin(r, k) /\ req[r].do = "purge" /\ m \in req[r].todo
      /\ UNCHANGED <<rows, stored, drawn, past>>
  BY DEF ListBlobs, At
<1> HIDE DEF k
<1>3. Others(r) /\ req'[r] = k
  BY <1>0, <1>1, <1>2, NewRequest
<1>4. \A n \in req[r].todo : parent[n] # Unborn
  BY DEF BlobInv, RequestsOwn
<1>5. \A b \in SubtreeBlobRefs(m) : m \in Exists /\ \E n \in Below(m) : b \in RefsOf(n)
  BY DEF SubtreeBlobRefs, RefsIn
<1>6. \A n \in Nodes, b \in SubtreeBlobRefs(m) : b \in RefsOf(n) => m \in Exists /\ n \in Below(m)
  BY <1>0, <1>5 DEF BlobInv, RowsOwn
<1>7. m \in Exists => \A n \in Below(m) : versions[n] \subseteq SubtreeBlobRefs(m)
  BY DEF SubtreeBlobRefs, RefsIn, RefsOf
<1> QED BY <1>0, <1>1, <1>2, <1>3, <1>4, <1>5, <1>6, <1>7 DEF Quiet, Listed, At

-----------------------------------------------------------------------------
(* Steps that change the tree.                                             *)

\* The trash is only a mark.
LEMMA MarkBlobs ==
  ASSUME OrphanInv, TypeOK', NEW n \in Nodes, Trash(n) \/ Restore(n)
  PROVE  OrphanInv'
<1>1. /\ Exists' = Exists
      /\ \A m : RefsOf(m)' = RefsOf(m)
      /\ \A m : Below(m)' = Below(m)
      /\ UNCHANGED <<parent, versions, current, stored, drawn, past, req>>
  BY DEF Trash, Restore, Exists, RefsOf, Below, Closed
<1>2. \A m \in Exists : parent[m] # Unborn
  BY DEF Exists
<1>3. \A m \in trashed' : m \in trashed \/ m \in Exists
  BY DEF Trash, Restore
<1>4. ParentsExist' /\ RowsOwn' /\ NoBrokenReference'
  BY <1>1, <1>2, <1>3 DEF OrphanInv, BlobInv, ParentsExist, RowsOwn, NoBrokenReference
<1>5. PutOwns' /\ ErasuresOwn' /\ RequestsOwn'
  BY <1>1 DEF OrphanInv, BlobInv, PutOwns, ErasuresOwn, RequestsOwn, At, Kept, Listed
<1>6. ListsCover' /\ NoOrphanVersion'
  BY <1>1 DEF OrphanInv, ListsCover, NoOrphanVersion, Listed, At
<1> QED BY <1>4, <1>5, <1>6 DEF OrphanInv, BlobInv

\* A new row names nothing.
LEMMA CreateBlobs ==
  ASSUME OrphanInv, TypeOK', ParentsExist', NEW n \in Nodes, NEW p \in Nodes \cup {Root},
         Create(n, p)
  PROVE  OrphanInv'
<1>0. TypeOK /\ ParentsExist /\ RowsOwn /\ PutOwns /\ ErasuresOwn /\ RequestsOwn
      /\ NoBrokenReference
  BY DEF OrphanInv, BlobInv
<1>1. /\ parent[n] = Unborn /\ p \in Exists \cup {Root} /\ parent' = [parent EXCEPT ![n] = p]
      /\ UNCHANGED <<trashed, versions, current, stored, drawn, past, req>>
      /\ n \notin Exists /\ parent \in [Nodes -> Nodes \cup {Root, Unborn, Deleted}]
  BY <1>0 DEF Create, Exists, TypeOK
<1>2. Exists' = Exists \cup {n} /\ \A m : RefsOf(m)' = RefsOf(m)
  BY <1>1 DEF Exists, RefsOf
<1>3. RefsOf(n) = {} /\ versions[n] = {}
  BY <1>0, <1>1 DEF RowsOwn, RefsOf
<1>4. \A m \in Nodes : /\ Below(m) \subseteq Below(m)'
                       /\ Below(m)' \subseteq Below(m) \cup {n}
  BY <1>0, <1>1, CreateBelow
<1>5. \A m \in Nodes : parent[m] # Unborn => m # n /\ parent'[m] # Unborn
  BY <1>1
<1>6. \A m \in Nodes : Kept(m)' => Kept(m) \/ m = n
  BY <1>1, <1>2 DEF Kept
<1>7. \A r \in Requests : req[r] \in Request
  BY <1>0 DEF TypeOK
<1>8. RowsOwn' /\ NoBrokenReference'
  BY <1>0, <1>1, <1>2, <1>3, <1>5 DEF RowsOwn, NoBrokenReference, TypeOK
<1>9. PutOwns'
  BY <1>0, <1>1, <1>2 DEF PutOwns, At
<1>10. RequestsOwn'
  BY <1>0, <1>1, <1>5, <1>7 DEF RequestsOwn, At, Request
<1>11. ErasuresOwn'
  <2> SUFFICES ASSUME NEW r \in Requests, NEW m \in Nodes, NEW b \in Blobs, b \in req[r].refs, Kept(m)'
               PROVE  /\ \A k \in Nodes : Listed(r, k) /\ b \in RefsOf(m) =>
                           k \in Exists' /\ m \in Below(k)'
                      /\ At(r, "erase") => b \notin RefsOf(m)
                      /\ At(r, "retire") => b # current[m]
    BY <1>1, <1>2 DEF ErasuresOwn, Listed, At
  <2>1. CASE m = n
    <3>1. b \notin RefsOf(n) /\ (b = current[n] => b \in RefsOf(n))
      BY <1>3 DEF RefsOf
    <3> QED BY <2>1, <3>1
  <2>2. CASE m # n
    <3>1. Kept(m)
      BY <1>6, <2>2
    <3> QED BY <1>0, <1>2, <1>4, <3>1 DEF ErasuresOwn
  <2> QED BY <2>1, <2>2
<1>12. ListsCover'
  <2> SUFFICES ASSUME NEW r \in Requests, NEW k \in Exists', Listed(r, k), NEW m \in Below(k)'
               PROVE  versions[m] \subseteq req[r].refs \cup past.orphaned
    BY <1>1 DEF ListsCover, Listed, At
  <2>1. k \in Nodes /\ k \in Exists
    BY <1>0, <1>1, <1>2 DEF RequestsOwn, Listed
  <2>2. m \in Below(k) \/ m = n
    BY <1>4, <2>1
  <2> QED BY <1>3, <2>1, <2>2 DEF OrphanInv, ListsCover
<1>13. NoOrphanVersion'
  BY <1>1, <1>2 DEF OrphanInv, NoOrphanVersion
<1> QED BY <1>8, <1>9, <1>10, <1>11, <1>12, <1>13 DEF OrphanInv, BlobInv

\* What a move takes out of a subtree that is listed has escaped, what it brings
\* into one is left behind.
LEMMA MoveBlobs ==
  ASSUME OrphanInv, TypeOK', ParentsExist', NEW r \in Requests, Move(r)
  PROVE  OrphanInv'
<1> DEFINE n == req[r].node
           p == req[r].to
<1>0. TypeOK /\ ParentsExist /\ RowsOwn /\ PutOwns /\ ErasuresOwn /\ RequestsOwn
      /\ NoBrokenReference /\ \A q \in Requests : req[q] \in Request
  BY DEF OrphanInv, BlobInv, TypeOK
<1>1. /\ At(r, "move") /\ n \in Exists /\ p \in Exists \cup {Root}
      /\ parent' = [parent EXCEPT ![n] = p]
      /\ past'.escaped = past.escaped \cup (IF n \in BeingPurged THEN Below(n) ELSE {})
      /\ past'.orphaned = past.orphaned \cup (IF p \in BeingPurged THEN RefsIn(Below(n)) ELSE {})
      /\ req' = [q \in Requests |-> IF q = r THEN Done ELSE [req[q] EXCEPT !.fresh = FALSE]]
      /\ UNCHANGED <<trashed, versions, current, stored, drawn>>
      /\ parent \in [Nodes -> Nodes \cup {Root, Unborn, Deleted}]
      /\ Exists \subseteq Nodes
  BY <1>0 DEF Move, TypeOK, Exists
<1> HIDE DEF n, p
<1>2. Exists' = Exists /\ \A m : RefsOf(m)' = RefsOf(m)
  BY <1>1 DEF Exists, RefsOf
<1>3. req'[r].do = "done" /\ req'[r].refs = {} /\ req'[r].todo = {}
  BY <1>1 DEF Done, Idle
<1>4. \A q \in Requests \ {r} :
        /\ req'[q].do = req[q].do /\ req'[q].node = req[q].node
        /\ req'[q].todo = req[q].todo /\ req'[q].refs = req[q].refs
  BY <1>0, <1>1 DEF Request
<1>5. \A m \in Nodes : parent[m] # Unborn => parent'[m] # Unborn
  BY <1>1 DEF Exists
<1>6. \A m \in Nodes : Kept(m)' => Kept(m)
  BY <1>1, <1>2 DEF Kept
<1>7. \A m \in Nodes :
        /\ Below(m) \subseteq Below(m)' \cup (IF n \in Below(m) THEN Below(n) ELSE {})
        /\ Below(m)' \subseteq Below(m) \cup (IF p \in Below(m) THEN Below(n) ELSE {})
  BY <1>0, <1>1, MoveBelow
<1>8. RowsOwn' /\ NoBrokenReference'
  <2>1. \A m \in trashed : parent'[m] # Unborn
    BY <1>0, <1>5 DEF RowsOwn, TypeOK
  <2>2. RowsOwn'
    BY <1>0, <1>1, <1>2, <2>1 DEF RowsOwn
  <2>3. NoBrokenReference'
    BY <1>0, <1>1, <1>2 DEF NoBrokenReference
  <2> QED BY <2>2, <2>3
<1>9. PutOwns'
  <2> SUFFICES ASSUME NEW s \in Requests, req'[s].do = "put"
               PROVE  \E b \in stored : /\ req'[s].refs = {b}
                                        /\ \A m \in Nodes : b \notin RefsOf(m)
                                        /\ \A q \in Requests \ {s} : b \notin req'[q].refs
    BY <1>1, <1>2 DEF PutOwns, At
  <2>1. s # r /\ req[s].do = "put" /\ req'[s].refs = req[s].refs
    BY <1>3, <1>4
  <2>2. PICK b \in stored : /\ req[s].refs = {b}
                            /\ \A m \in Nodes : b \notin RefsOf(m)
                            /\ \A q \in Requests \ {s} : b \notin req[q].refs
    BY <1>0, <2>1 DEF PutOwns, At
  <2> QED BY <1>3, <1>4, <2>1, <2>2
<1>10. RequestsOwn'
  <2> SUFFICES ASSUME NEW q \in Requests
               PROVE  /\ req'[q].refs \subseteq drawn
                      /\ \A m \in req'[q].todo : parent'[m] # Unborn
                      /\ req'[q].do = "cascade" =>
                           req'[q].node \in Nodes /\ parent'[req'[q].node] # Unborn
    BY <1>1 DEF RequestsOwn, At
  <2>1. CASE q = r
    BY <1>3, <2>1
  <2>2. CASE q # r
    <3>1. req[q].todo \subseteq Nodes
      BY <1>0 DEF Request
    <3> QED BY <1>0, <1>4, <1>5, <2>2, <3>1 DEF RequestsOwn, At
  <2> QED BY <2>1, <2>2
<1>11. ErasuresOwn'
  <2> SUFFICES ASSUME NEW q \in Requests, NEW m \in Nodes, NEW b \in Blobs, b \in req'[q].refs, Kept(m)'
               PROVE  /\ \A k \in Nodes : Listed(q, k)' /\ b \in RefsOf(m) =>
                           k \in Exists /\ m \in Below(k)'
                      /\ req'[q].do = "erase" => b \notin RefsOf(m)
                      /\ req'[q].do = "retire" => b # current[m]
    BY <1>1, <1>2 DEF ErasuresOwn, At
  <2>1. q # r /\ b \in req[q].refs /\ Kept(m)
    BY <1>3, <1>4, <1>6
  <2>2. /\ \A k \in Nodes : Listed(q, k) /\ b \in RefsOf(m) => k \in Exists /\ m \in Below(k)
        /\ req[q].do = "erase" => b \notin RefsOf(m)
        /\ req[q].do = "retire" => b # current[m]
    BY <1>0, <2>1 DEF ErasuresOwn, At
  <2>3. ASSUME NEW k \in Nodes, Listed(q, k)', b \in RefsOf(m)
        PROVE  k \in Exists /\ m \in Below(k)'
    <3>1. Listed(q, k)
      BY <1>4, <2>1, <2>3 DEF Listed, At
    <3>2. k \in Exists /\ m \in Below(k)
      BY <2>2, <2>3, <3>1
    <3>3. n \in Below(k) => n \in BeingPurged
      BY <3>1 DEF BeingPurged, Listed, At
    <3>4. n \in Below(k) => m \notin Below(n)
      BY <1>1, <2>1, <3>3 DEF Kept
    <3> QED BY <1>7, <3>2, <3>4
  <2> QED BY <1>4, <2>1, <2>2, <2>3
<1>12. ListsCover'
  <2> SUFFICES ASSUME NEW q \in Requests, NEW k \in Exists, Listed(q, k)', NEW m \in Below(k)'
               PROVE  versions[m] \subseteq req'[q].refs \cup past'.orphaned
    BY <1>1, <1>2 DEF ListsCover
  <2>1. q # r /\ Listed(q, k) /\ req'[q].refs = req[q].refs /\ k \in Nodes
    BY <1>1, <1>3, <1>4 DEF Listed, At
  <2>2. CASE m \in Below(k)
    BY <1>1, <2>1, <2>2 DEF OrphanInv, ListsCover
  <2>3. CASE m \notin Below(k)
    <3>1. p \in Below(k) /\ m \in Below(n)
      BY <1>7, <2>1, <2>3
    <3>2. p \in BeingPurged
      BY <2>1, <3>1 DEF BeingPurged, Listed, At
    <3>3. versions[m] \subseteq RefsIn(Below(n))
      BY <3>1 DEF RefsIn, RefsOf
    <3> QED BY <1>1, <3>2, <3>3
  <2> QED BY <2>2, <2>3
<1>13. NoOrphanVersion'
  <2> SUFFICES ASSUME NEW b \in stored \ past'.orphaned, \A m \in Exists : b \notin versions[m]
               PROVE  \E q \in Requests : req'[q].do \in {"put", "erase"} /\ b \in req'[q].refs
    BY <1>1, <1>2 DEF NoOrphanVersion
  <2>1. PICK q \in Requests : req[q].do \in {"put", "erase"} /\ b \in req[q].refs
    BY <1>1 DEF OrphanInv, NoOrphanVersion
  <2>2. q # r
    BY <1>1, <2>1 DEF At
  <2> QED BY <1>4, <2>1, <2>2
<1> QED BY <1>8, <1>9, <1>10, <1>11, <1>12, <1>13 DEF OrphanInv, BlobInv

\* Rows go with all that is below them: what was listed and not moved away is
\* named no more.
LEMMA CascadeBlobs ==
  ASSUME OrphanInv, TypeOK', ParentsExist', NEW r \in Requests, Cascade(r)
  PROVE  OrphanInv'
<1> DEFINE dead == IF req[r].node \in Exists THEN Below(req[r].node) ELSE {}
           k == [req[r] EXCEPT !.do = "erase", !.node = None]
<1>0. TypeOK /\ ParentsExist /\ RowsOwn /\ PutOwns /\ ErasuresOwn /\ RequestsOwn
      /\ NoBrokenReference /\ \A q \in Requests : req[q] \in Request
  BY DEF OrphanInv, BlobInv, TypeOK
<1>1. /\ req[r].do = "cascade" /\ Begin(r, k)
      /\ parent'   = [n \in Nodes |-> IF n \in dead THEN Deleted ELSE parent[n]]
      /\ trashed'  = trashed \ dead
      /\ versions' = [n \in Nodes |-> IF n \in dead THEN {} ELSE versions[n]]
      /\ current'  = [n \in Nodes |-> IF n \in dead THEN None ELSE current[n]]
      /\ UNCHANGED <<stored, drawn, past>>
      /\ parent \in [Nodes -> Nodes \cup {Root, Unborn, Deleted}]
  BY <1>0 DEF Cascade, At, TypeOK
<1>2. /\ k \in Request /\ k.do = "erase" /\ k.refs = req[r].refs /\ k.todo = req[r].todo
  BY <1>0 DEF Request
<1>3. dead \subseteq Nodes /\ Closed(dead)
  <2>1. CASE req[r].node \in Exists
    BY <2>1, BelowClosed DEF Exists, Below
  <2> QED BY <2>1, <1>1 DEF Closed
<1>4. /\ req[r].node \in Exists => dead = Below(req[r].node)
      /\ req[r].node \notin Exists => dead = {}
  OBVIOUS
<1> HIDE DEF dead, k
<1>5. (\A q \in Requests \ {r} : req'[q] = req[q]) /\ req'[r] = k
  BY <1>0, <1>1, <1>2, NewRequest DEF Others
<1>6. Exists' = Exists \ dead
  BY <1>1, <1>3 DEF Exists
<1>7. \A n \in Nodes : RefsOf(n)' = IF n \in dead THEN {} ELSE RefsOf(n)
  BY <1>1 DEF RefsOf
<1>8. \A m \in Nodes : Below(m) \subseteq Below(m)' \cup dead /\ Below(m)' \subseteq Below(m)
  BY <1>0, <1>1, <1>3, CascadeBelow
<1>9. \A m \in Nodes : parent[m] # Unborn => parent'[m] # Unborn
  BY <1>1
<1>10. \A m \in Nodes : Kept(m)' => Kept(m) /\ m \notin dead
  BY <1>1, <1>6 DEF Kept
<1>11. RowsOwn'
  <2>1. \A m \in trashed' : parent'[m] # Unborn
    BY <1>0, <1>1, <1>9 DEF RowsOwn, TypeOK
  <2>2. \A m \in Nodes \ Exists' : RefsOf(m)' = {}
    BY <1>0, <1>6, <1>7 DEF RowsOwn
  <2>3. \A m, n \in Nodes : m # n => RefsOf(m)' \cap RefsOf(n)' = {}
    BY <1>0, <1>7 DEF RowsOwn
  <2>4. \A m \in Nodes : RefsOf(m)' \subseteq drawn'
    BY <1>0, <1>1, <1>7 DEF RowsOwn
  <2> QED BY <2>1, <2>2, <2>3, <2>4 DEF RowsOwn
<1>12. NoBrokenReference'
  <2> SUFFICES ASSUME NEW m \in Exists' \ past'.escaped PROVE RefsOf(m)' \subseteq stored'
    BY DEF NoBrokenReference
  <2>1. m \in Exists \ past.escaped /\ m \in Nodes /\ m \notin dead
    BY <1>1, <1>6 DEF Exists
  <2> QED BY <1>0, <1>1, <1>7, <2>1 DEF NoBrokenReference
<1>13. PutOwns'
  <2> SUFFICES ASSUME NEW s \in Requests, req'[s].do = "put"
               PROVE  \E b \in stored : /\ req'[s].refs = {b}
                                        /\ \A m \in Nodes : b \notin RefsOf(m)'
                                        /\ \A q \in Requests \ {s} : b \notin req'[q].refs
    BY <1>1 DEF PutOwns, At
  <2>1. s # r /\ req'[s] = req[s]
    BY <1>2, <1>5
  <2>2. PICK b \in stored : /\ req[s].refs = {b}
                            /\ \A m \in Nodes : b \notin RefsOf(m)
                            /\ \A q \in Requests \ {s} : b \notin req[q].refs
    BY <1>0, <2>1 DEF PutOwns, At
  <2>3. \A q \in Requests \ {s} : b \notin req'[q].refs
    BY <1>2, <1>5, <2>2
  <2> QED BY <1>7, <2>1, <2>2, <2>3
<1>14. RequestsOwn'
  <2> SUFFICES ASSUME NEW q \in Requests
               PROVE  /\ req'[q].refs \subseteq drawn
                      /\ \A m \in req'[q].todo : parent'[m] # Unborn
                      /\ req'[q].do = "cascade" =>
                           req'[q].node \in Nodes /\ parent'[req'[q].node] # Unborn
    BY <1>1 DEF RequestsOwn, At
  <2>1. req'[q].refs = req[q].refs /\ req'[q].todo = req[q].todo /\ req[q].todo \subseteq Nodes
    BY <1>0, <1>2, <1>5 DEF Request
  <2>2. req'[q].do = "cascade" => req'[q] = req[q]
    BY <1>2, <1>5
  <2> QED BY <1>0, <1>9, <2>1, <2>2 DEF RequestsOwn, At
<1>15. ErasuresOwn'
  <2> SUFFICES ASSUME NEW q \in Requests, NEW m \in Nodes, NEW b \in Blobs, b \in req'[q].refs, Kept(m)'
               PROVE  /\ \A i \in Nodes : Listed(q, i)' /\ b \in RefsOf(m)' =>
                           i \in Exists' /\ m \in Below(i)'
                      /\ req'[q].do = "erase" => b \notin RefsOf(m)'
                      /\ req'[q].do = "retire" => b # current'[m]
    BY DEF ErasuresOwn, At
  <2>1. Kept(m) /\ m \notin dead /\ RefsOf(m)' = RefsOf(m) /\ current'[m] = current[m]
    BY <1>1, <1>7, <1>10
  <2>2. CASE q = r
    <3>1. req[r].node \in Nodes /\ Listed(r, req[r].node)
      BY <1>0, <1>1 DEF RequestsOwn, Listed, At
    <3>2. b \in RefsOf(m) => req[r].node \in Exists /\ m \in Below(req[r].node)
      BY <1>0, <1>2, <1>5, <2>1, <2>2, <3>1 DEF ErasuresOwn
    <3>3. b \notin RefsOf(m)
      BY <1>4, <2>1, <3>2
    <3> QED BY <1>2, <1>5, <2>1, <2>2, <3>3 DEF Listed, At
  <2>3. CASE q # r
    <3>1. req'[q] = req[q]
      BY <1>5, <2>3
    <3>2. /\ \A i \in Nodes : Listed(q, i) /\ b \in RefsOf(m) => i \in Exists /\ m \in Below(i)
          /\ req[q].do = "erase" => b \notin RefsOf(m)
          /\ req[q].do = "retire" => b # current[m]
      BY <1>0, <2>1, <3>1 DEF ErasuresOwn, At
    <3>3. ASSUME NEW i \in Nodes, Listed(q, i)', b \in RefsOf(m)
          PROVE  i \in Exists' /\ m \in Below(i)'
      <4>1. i \in Exists /\ m \in Below(i)
        BY <3>1, <3>2, <3>3 DEF Listed, At
      <4>2. m \in Below(i)'
        BY <1>8, <2>1, <4>1
      <4>3. ASSUME i \in dead PROVE FALSE
        <5>1. Below(i) \subseteq dead
          BY <1>3, <4>3, BelowLeast
        <5> QED BY <2>1, <4>1, <5>1
      <4> QED BY <1>6, <4>1, <4>2, <4>3
    <3> QED BY <2>1, <3>1, <3>2, <3>3
  <2> QED BY <2>2, <2>3
<1>16. ListsCover'
  <2> SUFFICES ASSUME NEW q \in Requests, NEW i \in Exists', Listed(q, i)', NEW m \in Below(i)'
               PROVE  versions'[m] \subseteq req'[q].refs \cup past.orphaned
    BY <1>1 DEF ListsCover
  <2>1. req'[q] = req[q] /\ Listed(q, i) /\ i \in Exists /\ i \in Nodes
    BY <1>2, <1>5, <1>6 DEF Exists, Listed, At
  <2>2. m \in Below(i) /\ m \in Nodes
    BY <1>8, <2>1 DEF Below
  <2>3. versions[m] \subseteq req[q].refs \cup past.orphaned
    BY <2>1, <2>2 DEF OrphanInv, ListsCover
  <2> QED BY <1>1, <2>1, <2>2, <2>3
<1>17. NoOrphanVersion'
  <2> SUFFICES ASSUME NEW b \in stored \ past.orphaned, \A m \in Exists' : b \notin versions'[m]
               PROVE  \E q \in Requests : req'[q].do \in {"put", "erase"} /\ b \in req'[q].refs
    BY <1>1 DEF NoOrphanVersion
  <2>1. CASE \E q \in Requests : req[q].do \in {"put", "erase"} /\ b \in req[q].refs
    BY <1>1, <1>5, <2>1
  <2>2. CASE \E m \in Exists : b \in versions[m]
    <3> PICK m \in Exists : b \in versions[m]
      BY <2>2
    <3>1. m \in Nodes /\ m \in dead
      BY <1>1, <1>6 DEF Exists
    <3>2. b \in req[r].refs
      BY <1>1, <1>4, <3>1 DEF OrphanInv, ListsCover, Listed, At
    <3> QED BY <1>2, <1>5, <3>2
  <2> QED BY <2>1, <2>2 DEF OrphanInv, NoOrphanVersion
<1> QED BY <1>11, <1>12, <1>13, <1>14, <1>15, <1>16, <1>17 DEF OrphanInv, BlobInv

-----------------------------------------------------------------------------
(* Steps that change the contents or the storage.                          *)

\* A fresh blob is known to nobody.
LEMMA PutBlobBlobs ==
  ASSUME OrphanInv, TypeOK', NEW r \in Requests, NEW n \in Nodes, NEW b \in Blobs, PutBlob(r, n, b)
  PROVE  OrphanInv'
<1> DEFINE k == [Idle EXCEPT !.do = "put", !.node = n, !.refs = {b}]
<1>0. TypeOK /\ ParentsExist /\ RowsOwn /\ PutOwns /\ ErasuresOwn /\ RequestsOwn
      /\ NoBrokenReference
  BY DEF OrphanInv, BlobInv
<1>1. /\ req[r].do = "idle" /\ b \notin drawn /\ stored' = stored \cup {b} /\ drawn' = drawn \cup {b}
      /\ Begin(r, k) /\ UNCHANGED <<rows, past>>
  BY DEF PutBlob, At
<1>2. k \in Request /\ k.do = "put" /\ k.refs = {b} /\ k.todo = {}
  BY DEF Idle, Request
<1> HIDE DEF k
<1>3. (\A q \in Requests \ {r} : req'[q] = req[q]) /\ req'[r] = k
  BY <1>0, <1>1, <1>2, NewRequest DEF Others
<1>4. /\ Exists' = Exists
      /\ \A m : RefsOf(m)' = RefsOf(m)
      /\ \A m : Below(m)' = Below(m)
      /\ UNCHANGED <<parent, trashed, versions, current, past>>
  BY <1>1, SameRows
<1>5. (\A m \in Nodes : b \notin RefsOf(m)) /\ \A q \in Requests : b \notin req[q].refs
  BY <1>0, <1>1 DEF RowsOwn, RequestsOwn
<1>6. ParentsExist' /\ RowsOwn' /\ NoBrokenReference'
  BY <1>0, <1>1, <1>4 DEF ParentsExist, RowsOwn, NoBrokenReference
<1>7. PutOwns'
  <2> SUFFICES ASSUME NEW p \in Requests, req'[p].do = "put"
               PROVE  \E c \in stored' : /\ req'[p].refs = {c}
                                         /\ \A m \in Nodes : c \notin RefsOf(m)
                                         /\ \A q \in Requests \ {p} : c \notin req'[q].refs
    BY <1>4 DEF PutOwns, At
  <2>1. CASE p = r
    BY <1>1, <1>2, <1>3, <1>5, <2>1
  <2>2. CASE p # r
    <3>1. PICK c \in stored : /\ req[p].refs = {c}
                              /\ \A m \in Nodes : c \notin RefsOf(m)
                              /\ \A q \in Requests \ {p} : c \notin req[q].refs
      BY <1>0, <1>3, <2>2 DEF PutOwns, At
    <3>2. c # b
      BY <1>5, <3>1
    <3> QED BY <1>1, <1>2, <1>3, <2>2, <3>1, <3>2
  <2> QED BY <2>1, <2>2
<1>8. ErasuresOwn'
  <2> SUFFICES ASSUME NEW q \in Requests, NEW m \in Nodes, NEW c \in Blobs, c \in req'[q].refs, Kept(m)
               PROVE  /\ \A i \in Nodes : Listed(q, i)' /\ c \in RefsOf(m) => i \in Exists /\ m \in Below(i)
                      /\ req'[q].do = "erase" => c \notin RefsOf(m)
                      /\ req'[q].do = "retire" => c # current[m]
    BY <1>4 DEF ErasuresOwn, At, Kept
  <2>1. CASE q = r
    BY <1>2, <1>3, <2>1 DEF Listed, At
  <2>2. CASE q # r
    BY <1>0, <1>3, <2>2 DEF ErasuresOwn, Listed, At
  <2> QED BY <2>1, <2>2
<1>9. RequestsOwn'
  <2>1. \A q \in Requests : req'[q].do = "cascade" => req'[q] = req[q]
    BY <1>2, <1>3
  <2> QED BY <1>0, <1>1, <1>2, <1>3, <1>4, <2>1 DEF RequestsOwn, At
<1>10. ListsCover'
  <2>1. \A q \in Requests, i \in Exists : Listed(q, i)' => Listed(q, i) /\ req'[q] = req[q]
    BY <1>2, <1>3 DEF Listed, At
  <2> QED BY <1>4, <2>1 DEF OrphanInv, ListsCover
<1>11. NoOrphanVersion'
  <2> SUFFICES ASSUME NEW c \in stored' \ past.orphaned
               PROVE  \/ \E m \in Exists : c \in versions[m]
                      \/ \E q \in Requests : req'[q].do \in {"put", "erase"} /\ c \in req'[q].refs
    BY <1>4 DEF NoOrphanVersion
  <2>1. CASE c = b
    BY <1>2, <1>3, <2>1
  <2>2. CASE c \in stored
    BY <1>1, <1>3, <2>2 DEF OrphanInv, NoOrphanVersion
  <2> QED BY <1>1, <2>1, <2>2
<1> QED BY <1>6, <1>7, <1>8, <1>9, <1>10, <1>11 DEF OrphanInv, BlobInv

\* The recorded blob was known to its request only.
LEMMA PutCommitBlobs ==
  ASSUME OrphanInv, TypeOK', NEW r \in Requests, PutCommit(r)
  PROVE  OrphanInv'
<1> DEFINE n == req[r].node
<1>0. TypeOK /\ ParentsExist /\ RowsOwn /\ PutOwns /\ ErasuresOwn /\ RequestsOwn
      /\ NoBrokenReference
  BY DEF OrphanInv, BlobInv
<1>1. PICK b \in stored : /\ req[r].refs = {b}
                          /\ \A m \in Nodes : b \notin RefsOf(m)
                          /\ \A q \in Requests \ {r} : b \notin req[q].refs
  BY <1>0 DEF PutCommit, PutOwns
<1>2. /\ req[r].do = "put" /\ n \in Exists /\ n \in Nodes
      /\ versions' = [versions EXCEPT ![n] = @ \cup {b}]
      /\ current' = [current EXCEPT ![n] = b]
      /\ past'.escaped = past.escaped
      /\ past'.orphaned = past.orphaned \cup (IF n \in BeingPurged THEN {b} ELSE {})
      /\ Begin(r, Done) /\ UNCHANGED <<parent, trashed, stored, drawn>>
  BY <1>0, <1>1 DEF PutCommit, At, End, Begin, Exists, TypeOK
<1> HIDE DEF n
<1>3. (\A q \in Requests \ {r} : req'[q] = req[q]) /\ req'[r] = Done
  BY <1>0, <1>2, DoneType, NewRequest DEF Others
<1>4. Done.do = "done" /\ Done.refs = {} /\ Done.todo = {}
  BY DEF Done, Idle
<1>5. Exists' = Exists /\ (\A m : Below(m)' = Below(m)) /\ \A m \in Nodes : Kept(m)' = Kept(m)
  BY <1>2 DEF Exists, Below, Closed, Kept
<1>6. b \in drawn /\ b \in Blobs /\ b # None
  BY <1>0, <1>1 DEF TypeOK
<1>7. \A m \in Nodes : /\ m # n => RefsOf(m)' = RefsOf(m) /\ versions'[m] = versions[m]
                                   /\ current'[m] = current[m]
                       /\ RefsOf(m)' \subseteq RefsOf(m) \cup {b}
  BY <1>0, <1>2 DEF RefsOf, TypeOK
<1>8. /\ versions'[n] = versions[n] \cup {b} /\ current'[n] = b
      /\ \A m \in Exists : versions[m] \subseteq versions'[m]
  BY <1>0, <1>2 DEF TypeOK
<1>9. RowsOwn'
  <2>1. \A m \in Nodes \ Exists : RefsOf(m)' = {}
    BY <1>0, <1>2, <1>7 DEF RowsOwn
  <2>2. \A i, m \in Nodes : i # m => RefsOf(i)' \cap RefsOf(m)' = {}
    BY <1>0, <1>1, <1>7 DEF RowsOwn
  <2>3. \A m \in Nodes : RefsOf(m)' \subseteq drawn
    BY <1>0, <1>6, <1>7 DEF RowsOwn
  <2> QED BY <1>0, <1>2, <1>5, <2>1, <2>2, <2>3 DEF RowsOwn
<1>10. NoBrokenReference' /\ ParentsExist'
  <2>1. \A m \in Exists \ past.escaped : RefsOf(m)' \subseteq stored
    BY <1>0, <1>1, <1>7 DEF NoBrokenReference, Exists
  <2> QED BY <1>0, <1>2, <1>5, <2>1 DEF NoBrokenReference, ParentsExist
<1>11. PutOwns'
  <2> SUFFICES ASSUME NEW p \in Requests, req'[p].do = "put"
               PROVE  \E c \in stored : /\ req'[p].refs = {c}
                                        /\ \A m \in Nodes : c \notin RefsOf(m)'
                                        /\ \A q \in Requests \ {p} : c \notin req'[q].refs
    BY <1>2 DEF PutOwns, At
  <2>1. p # r /\ req'[p] = req[p]
    BY <1>3, <1>4
  <2>2. PICK c \in stored : /\ req[p].refs = {c}
                            /\ \A m \in Nodes : c \notin RefsOf(m)
                            /\ \A q \in Requests \ {p} : c \notin req[q].refs
    BY <1>0, <2>1 DEF PutOwns, At
  <2>3. c # b
    BY <1>1, <2>1, <2>2
  <2> QED BY <1>3, <1>4, <1>7, <2>1, <2>2, <2>3
<1>12. ErasuresOwn'
  <2> SUFFICES ASSUME NEW q \in Requests, NEW m \in Nodes, NEW c \in Blobs, c \in req'[q].refs, Kept(m)
               PROVE  /\ \A i \in Nodes : Listed(q, i)' /\ c \in RefsOf(m)' => i \in Exists /\ m \in Below(i)
                      /\ req'[q].do = "erase" => c \notin RefsOf(m)'
                      /\ req'[q].do = "retire" => c # current'[m]
    BY <1>5 DEF ErasuresOwn, At
  <2>1. q # r /\ req'[q] = req[q] /\ c \in req[q].refs
    BY <1>3, <1>4
  <2>2. c # b
    BY <1>1, <2>1
  <2>3. (c \in RefsOf(m)' => c \in RefsOf(m)) /\ (c = current'[m] => c = current[m])
    BY <1>7, <1>8, <2>2
  <2> QED BY <1>0, <2>1, <2>3 DEF ErasuresOwn, Listed, At
<1>13. RequestsOwn'
  BY <1>0, <1>2, <1>3, <1>4 DEF RequestsOwn, At
<1>14. ListsCover'
  <2> SUFFICES ASSUME NEW q \in Requests, NEW i \in Exists, Listed(q, i)', NEW m \in Below(i)
               PROVE  versions'[m] \subseteq req'[q].refs \cup past'.orphaned
    BY <1>5 DEF ListsCover
  <2>1. req'[q] = req[q] /\ Listed(q, i)
    BY <1>3, <1>4 DEF Listed, At
  <2>2. versions[m] \subseteq req[q].refs \cup past.orphaned
    BY <2>1 DEF OrphanInv, ListsCover
  <2>3. m \in Nodes
    BY DEF Below
  <2>4. m = n => n \in BeingPurged
    BY <2>1 DEF BeingPurged, Listed, At
  <2> QED BY <1>2, <1>7, <1>8, <2>1, <2>2, <2>3, <2>4
<1>15. NoOrphanVersion'
  <2> SUFFICES ASSUME NEW c \in stored \ past'.orphaned, \A m \in Exists : c \notin versions'[m]
               PROVE  \E q \in Requests : req'[q].do \in {"put", "erase"} /\ c \in req'[q].refs
    BY <1>2, <1>5 DEF NoOrphanVersion
  <2>1. c # b
    BY <1>2, <1>8
  <2>2. PICK q \in Requests : req[q].do \in {"put", "erase"} /\ c \in req[q].refs
    BY <1>2, <1>8 DEF OrphanInv, NoOrphanVersion
  <2>3. q # r
    BY <1>1, <2>1, <2>2
  <2> QED BY <1>3, <2>2, <2>3
<1> QED BY <1>9, <1>10, <1>11, <1>12, <1>13, <1>14, <1>15 DEF OrphanInv, BlobInv

\* A version that is given back was named already.
LEMMA RestoreVersionBlobs ==
  ASSUME OrphanInv, TypeOK', NEW r \in Requests, RestoreVersion(r)
  PROVE  OrphanInv'
<1> DEFINE n == req[r].node
<1>0. TypeOK /\ ParentsExist /\ RowsOwn /\ PutOwns /\ ErasuresOwn /\ RequestsOwn
      /\ NoBrokenReference
  BY DEF OrphanInv, BlobInv
<1>1. PICK b \in req[r].refs :
        /\ b \in versions[n] /\ current' = [current EXCEPT ![n] = b]
        /\ past' = [past EXCEPT !.escaped = @ \cup
             (IF \E q \in Requests : At(q, "retire") /\ b \in req[q].refs THEN {n} ELSE {})]
  BY DEF RestoreVersion
<1>2. /\ req[r].do = "back" /\ n \in Exists /\ n \in Nodes
      /\ past'.escaped = past.escaped \cup
             (IF \E q \in Requests : At(q, "retire") /\ b \in req[q].refs THEN {n} ELSE {})
      /\ past'.orphaned = past.orphaned
      /\ Begin(r, Done) /\ UNCHANGED <<parent, trashed, versions, stored, drawn>>
  BY <1>0, <1>1 DEF RestoreVersion, At, End, Begin, Exists, TypeOK
<1> HIDE DEF n
<1>3. (\A q \in Requests \ {r} : req'[q] = req[q]) /\ req'[r] = Done
  BY <1>0, <1>2, DoneType, NewRequest DEF Others
<1>4. Done.do = "done" /\ Done.refs = {} /\ Done.todo = {}
  BY DEF Done, Idle
<1>5. Exists' = Exists /\ (\A m : Below(m)' = Below(m)) /\ \A m \in Nodes : Kept(m)' => Kept(m)
  BY <1>2 DEF Exists, Below, Closed, Kept
<1>6. \A m \in Nodes : /\ m # n => current'[m] = current[m]
                       /\ RefsOf(m)' \subseteq RefsOf(m)
  BY <1>0, <1>1, <1>2 DEF RefsOf, TypeOK
<1>7. current'[n] = b
  BY <1>0, <1>1, <1>2 DEF TypeOK
<1>8. RowsOwn'
  <2>1. \A m \in Nodes \ Exists : RefsOf(m)' = {}
    BY <1>0, <1>6 DEF RowsOwn
  <2>2. \A i, m \in Nodes : i # m => RefsOf(i)' \cap RefsOf(m)' = {}
    BY <1>0, <1>6 DEF RowsOwn
  <2>3. \A m \in Nodes : RefsOf(m)' \subseteq drawn
    BY <1>0, <1>6 DEF RowsOwn
  <2> QED BY <1>0, <1>2, <1>5, <2>1, <2>2, <2>3 DEF RowsOwn
<1>9. NoBrokenReference' /\ ParentsExist'
  <2>1. \A m \in Exists \ past'.escaped : RefsOf(m)' \subseteq stored
    BY <1>0, <1>2, <1>6 DEF NoBrokenReference, Exists
  <2> QED BY <1>0, <1>2, <1>5, <2>1 DEF NoBrokenReference, ParentsExist
<1>10. PutOwns'
  <2> SUFFICES ASSUME NEW p \in Requests, req'[p].do = "put"
               PROVE  \E c \in stored : /\ req'[p].refs = {c}
                                        /\ \A m \in Nodes : c \notin RefsOf(m)'
                                        /\ \A q \in Requests \ {p} : c \notin req'[q].refs
    BY <1>2 DEF PutOwns, At
  <2>1. p # r /\ req'[p] = req[p]
    BY <1>3, <1>4
  <2>2. PICK c \in stored : /\ req[p].refs = {c}
                            /\ \A m \in Nodes : c \notin RefsOf(m)
                            /\ \A q \in Requests \ {p} : c \notin req[q].refs
    BY <1>0, <2>1 DEF PutOwns, At
  <2> QED BY <1>3, <1>4, <1>6, <2>1, <2>2
<1>11. ErasuresOwn'
  <2> SUFFICES ASSUME NEW q \in Requests, NEW m \in Nodes, NEW c \in Blobs, c \in req'[q].refs, Kept(m)'
               PROVE  /\ \A i \in Nodes : Listed(q, i)' /\ c \in RefsOf(m)' => i \in Exists /\ m \in Below(i)
                      /\ req'[q].do = "erase" => c \notin RefsOf(m)'
                      /\ req'[q].do = "retire" => c # current'[m]
    BY <1>5 DEF ErasuresOwn, At
  <2>1. q # r /\ req'[q] = req[q] /\ c \in req[q].refs /\ Kept(m)
    BY <1>3, <1>4, <1>5
  <2>2. c \in RefsOf(m)' => c \in RefsOf(m)
    BY <1>6
  <2>3. ASSUME req[q].do = "retire" PROVE c # current'[m]
    <3>1. m = n => c # b
      BY <1>2, <2>1, <2>3 DEF Kept, At
    <3> QED BY <1>0, <1>6, <1>7, <2>1, <2>3, <3>1 DEF ErasuresOwn, At
  <2> QED BY <1>0, <2>1, <2>2, <2>3 DEF ErasuresOwn, Listed, At
<1>12. RequestsOwn'
  BY <1>0, <1>2, <1>3, <1>4 DEF RequestsOwn, At
<1>13. ListsCover'
  <2>1. \A q \in Requests, i \in Exists : Listed(q, i)' => Listed(q, i) /\ req'[q] = req[q]
    BY <1>3, <1>4 DEF Listed, At
  <2> QED BY <1>2, <1>5, <2>1 DEF OrphanInv, ListsCover
<1>14. NoOrphanVersion'
  <2>1. \A q \in Requests : req[q].do \in {"put", "erase"} => req'[q] = req[q]
    BY <1>2, <1>3
  <2> QED BY <1>2, <1>5, <2>1 DEF OrphanInv, NoOrphanVersion
<1> QED BY <1>8, <1>9, <1>10, <1>11, <1>12, <1>13, <1>14 DEF OrphanInv, BlobInv

\* What is erased was named nowhere, or only by a node that escaped.
LEMMA EraseBlobs ==
  ASSUME OrphanInv, TypeOK', NEW r \in Requests, NEW b \in Blobs, Erase(r, b)
  PROVE  OrphanInv'
<1> DEFINE k == [req[r] EXCEPT !.refs = @ \ {b}]
<1>0. TypeOK /\ ParentsExist /\ RowsOwn /\ PutOwns /\ ErasuresOwn /\ RequestsOwn
      /\ NoBrokenReference /\ req[r] \in Request
  BY DEF OrphanInv, BlobInv, TypeOK
<1>1. /\ req[r].do = "erase" /\ b \in req[r].refs /\ Begin(r, k) /\ UNCHANGED <<rows, drawn>>
      /\ stored \ {b} \subseteq stored' /\ stored' \subseteq stored
      /\ past'.escaped = past.escaped
      /\ past.orphaned \subseteq past'.orphaned
      /\ b \in stored' => b \in past'.orphaned
  BY <1>0 DEF Erase, At, TypeOK
<1>2. k \in Request /\ k.do = "erase" /\ k.refs = req[r].refs \ {b} /\ k.todo = req[r].todo
  BY <1>0, <1>1 DEF Request
<1> HIDE DEF k
<1>3. (\A q \in Requests \ {r} : req'[q] = req[q]) /\ req'[r] = k
  BY <1>0, <1>1, <1>2, NewRequest DEF Others
<1>4. /\ Exists' = Exists
      /\ \A m : RefsOf(m)' = RefsOf(m)
      /\ \A m : Below(m)' = Below(m)
      /\ UNCHANGED <<parent, trashed, versions, current, drawn>>
      /\ \A m : Kept(m)' = Kept(m)
  BY <1>1, SameRows DEF Kept
<1>5. ParentsExist' /\ RowsOwn'
  BY <1>0, <1>4 DEF ParentsExist, RowsOwn
<1>6. NoBrokenReference'
  <2>1. \A m \in Exists \ past.escaped : b \notin RefsOf(m)
    BY <1>0, <1>1 DEF ErasuresOwn, At, Kept, Exists
  <2> QED BY <1>0, <1>1, <1>4, <2>1 DEF NoBrokenReference
<1>7. PutOwns'
  <2> SUFFICES ASSUME NEW p \in Requests, req'[p].do = "put"
               PROVE  \E c \in stored' : /\ req'[p].refs = {c}
                                         /\ \A m \in Nodes : c \notin RefsOf(m)
                                         /\ \A q \in Requests \ {p} : c \notin req'[q].refs
    BY <1>4 DEF PutOwns, At
  <2>1. p # r /\ req'[p] = req[p]
    BY <1>2, <1>3
  <2>2. PICK c \in stored : /\ req[p].refs = {c}
                            /\ \A m \in Nodes : c \notin RefsOf(m)
                            /\ \A q \in Requests \ {p} : c \notin req[q].refs
    BY <1>0, <2>1 DEF PutOwns, At
  <2>3. c # b
    BY <1>1, <2>1, <2>2
  <2> QED BY <1>1, <1>2, <1>3, <2>1, <2>2, <2>3
<1>8. ErasuresOwn'
  <2> SUFFICES ASSUME NEW q \in Requests, NEW m \in Nodes, NEW c \in Blobs, c \in req'[q].refs, Kept(m)
               PROVE  /\ \A i \in Nodes : Listed(q, i)' /\ c \in RefsOf(m) => i \in Exists /\ m \in Below(i)
                      /\ req'[q].do = "erase" => c \notin RefsOf(m)
                      /\ req'[q].do = "retire" => c # current[m]
    BY <1>4 DEF ErasuresOwn, At
  <2>1. c \in req[q].refs /\ req'[q].do = req[q].do /\ (Listed(q, c)' => q # r)
    BY <1>1, <1>2, <1>3 DEF Listed, At
  <2>2. \A i \in Nodes : Listed(q, i)' => Listed(q, i)
    BY <1>2, <1>3 DEF Listed, At
  <2> QED BY <1>0, <2>1, <2>2 DEF ErasuresOwn, At
<1>9. RequestsOwn'
  <2>1. \A q \in Requests : req'[q].do = "cascade" => req'[q] = req[q]
    BY <1>2, <1>3
  <2>2. \A q \in Requests : req'[q].refs \subseteq req[q].refs /\ req'[q].todo = req[q].todo
    BY <1>2, <1>3
  <2> QED BY <1>0, <1>4, <2>1, <2>2 DEF RequestsOwn, At
<1>10. ListsCover'
  <2>1. \A q \in Requests, i \in Exists : Listed(q, i)' => Listed(q, i) /\ req'[q] = req[q]
    BY <1>2, <1>3 DEF Listed, At
  <2>2. past.orphaned \subseteq past'.orphaned
    BY <1>1
  <2> QED BY <1>4, <2>1, <2>2 DEF OrphanInv, ListsCover
<1>11. NoOrphanVersion'
  <2> SUFFICES ASSUME NEW c \in stored' \ past'.orphaned, \A m \in Exists : c \notin versions[m]
               PROVE  \E q \in Requests : req'[q].do \in {"put", "erase"} /\ c \in req'[q].refs
    BY <1>4 DEF NoOrphanVersion
  <2>1. c # b /\ c \in stored \ past.orphaned
    BY <1>1
  <2>2. PICK q \in Requests : req[q].do \in {"put", "erase"} /\ c \in req[q].refs
    BY <2>1 DEF OrphanInv, NoOrphanVersion
  <2> QED BY <1>2, <1>3, <2>1, <2>2
<1> QED BY <1>5, <1>6, <1>7, <1>8, <1>9, <1>10, <1>11 DEF OrphanInv, BlobInv

\* Versions that are retired are in the hands of the sweep.
LEMMA RetireBlobs ==
  ASSUME OrphanInv, TypeOK', NEW r \in Requests, Retire(r)
  PROVE  OrphanInv'
<1> DEFINE taken == req[r].refs \cap UNION {versions[n] : n \in Nodes}
           k == [req[r] EXCEPT !.do = "erase", !.refs = taken]
<1>0. TypeOK /\ ParentsExist /\ RowsOwn /\ PutOwns /\ ErasuresOwn /\ RequestsOwn
      /\ NoBrokenReference /\ req[r] \in Request
  BY DEF OrphanInv, BlobInv, TypeOK
<1>1. /\ req[r].do = "retire" /\ Begin(r, k)
      /\ versions' = [n \in Nodes |-> versions[n] \ req[r].refs]
      /\ UNCHANGED <<parent, trashed, current, stored, drawn, past>>
  BY DEF Retire, At
<1>2. k \in Request /\ k.do = "erase" /\ k.refs = taken /\ k.todo = req[r].todo
  BY <1>0 DEF Request
<1>3. taken \subseteq req[r].refs /\ \A n \in Nodes : versions[n] \cap req[r].refs \subseteq taken
  OBVIOUS
<1> HIDE DEF k, taken
<1>4. (\A q \in Requests \ {r} : req'[q] = req[q]) /\ req'[r] = k
  BY <1>0, <1>1, <1>2, NewRequest DEF Others
<1>5. Exists' = Exists /\ (\A m : Below(m)' = Below(m)) /\ \A m : Kept(m)' = Kept(m)
  BY <1>1 DEF Exists, Below, Closed, Kept
<1>6. \A m \in Nodes : RefsOf(m)' \subseteq RefsOf(m)
  BY <1>0, <1>1 DEF RefsOf
<1>7. RowsOwn'
  <2>1. \A m \in Nodes \ Exists : RefsOf(m)' = {}
    BY <1>0, <1>6 DEF RowsOwn
  <2>2. \A i, m \in Nodes : i # m => RefsOf(i)' \cap RefsOf(m)' = {}
    BY <1>0, <1>6 DEF RowsOwn
  <2>3. \A m \in Nodes : RefsOf(m)' \subseteq drawn
    BY <1>0, <1>6 DEF RowsOwn
  <2> QED BY <1>0, <1>1, <1>5, <2>1, <2>2, <2>3 DEF RowsOwn
<1>8. NoBrokenReference' /\ ParentsExist'
  <2>1. \A m \in Exists \ past.escaped : RefsOf(m)' \subseteq stored
    BY <1>0, <1>6 DEF NoBrokenReference, Exists
  <2> QED BY <1>0, <1>1, <1>5, <2>1 DEF NoBrokenReference, ParentsExist
<1>9. PutOwns'
  <2> SUFFICES ASSUME NEW p \in Requests, req'[p].do = "put"
               PROVE  \E c \in stored : /\ req'[p].refs = {c}
                                        /\ \A m \in Nodes : c \notin RefsOf(m)'
                                        /\ \A q \in Requests \ {p} : c \notin req'[q].refs
    BY <1>1 DEF PutOwns, At
  <2>1. p # r /\ req'[p] = req[p]
    BY <1>2, <1>4
  <2>2. PICK c \in stored : /\ req[p].refs = {c}
                            /\ \A m \in Nodes : c \notin RefsOf(m)
                            /\ \A q \in Requests \ {p} : c \notin req[q].refs
    BY <1>0, <2>1 DEF PutOwns, At
  <2> QED BY <1>2, <1>3, <1>4, <1>6, <2>1, <2>2
<1>10. ErasuresOwn'
  <2> SUFFICES ASSUME NEW q \in Requests, NEW m \in Nodes, NEW c \in Blobs, c \in req'[q].refs, Kept(m)
               PROVE  /\ \A i \in Nodes : Listed(q, i)' /\ c \in RefsOf(m)' => i \in Exists /\ m \in Below(i)
                      /\ req'[q].do = "erase" => c \notin RefsOf(m)'
                      /\ req'[q].do = "retire" => c # current'[m]
    BY <1>5 DEF ErasuresOwn, At
  <2>1. CASE q = r
    <3>1. c \in req[r].refs /\ c # current[m]
      BY <1>0, <1>1, <1>2, <1>3, <1>4, <2>1 DEF ErasuresOwn, At
    <3>2. c \notin RefsOf(m)'
      BY <1>0, <1>1, <3>1 DEF RefsOf
    <3> QED BY <1>2, <1>4, <2>1, <3>2 DEF Listed, At
  <2>2. CASE q # r
    <3>1. req'[q] = req[q]
      BY <1>4, <2>2
    <3> QED BY <1>0, <1>1, <1>6, <3>1 DEF ErasuresOwn, Listed, At
  <2> QED BY <2>1, <2>2
<1>11. RequestsOwn'
  <2>1. \A q \in Requests : req'[q].do = "cascade" => req'[q] = req[q]
    BY <1>2, <1>4
  <2>2. \A q \in Requests : req'[q].refs \subseteq req[q].refs /\ req'[q].todo = req[q].todo
    BY <1>2, <1>3, <1>4
  <2> QED BY <1>0, <1>1, <2>1, <2>2 DEF RequestsOwn, At
<1>12. ListsCover'
  <2> SUFFICES ASSUME NEW q \in Requests, NEW i \in Exists, Listed(q, i)', NEW m \in Below(i)
               PROVE  versions'[m] \subseteq req'[q].refs \cup past.orphaned
    BY <1>1, <1>5 DEF ListsCover
  <2>1. Listed(q, i) /\ req'[q] = req[q] /\ m \in Nodes
    BY <1>2, <1>4 DEF Listed, At, Below
  <2>2. versions[m] \subseteq req[q].refs \cup past.orphaned
    BY <2>1 DEF OrphanInv, ListsCover
  <2> QED BY <1>1, <2>1, <2>2
<1>13. NoOrphanVersion'
  <2> SUFFICES ASSUME NEW c \in stored \ past.orphaned, \A m \in Exists : c \notin versions'[m]
               PROVE  \E q \in Requests : req'[q].do \in {"put", "erase"} /\ c \in req'[q].refs
    BY <1>1, <1>5 DEF NoOrphanVersion
  <2>1. CASE \E q \in Requests : req[q].do \in {"put", "erase"} /\ c \in req[q].refs
    BY <1>1, <1>4, <2>1
  <2>2. CASE \E m \in Exists : c \in versions[m]
    <3> PICK m \in Exists : c \in versions[m]
      BY <2>2
    <3>1. c \in req[r].refs /\ m \in Nodes
      BY <1>1 DEF Exists
    <3> QED BY <1>2, <1>3, <1>4, <3>1
  <2> QED BY <2>1, <2>2 DEF OrphanInv, NoOrphanVersion
<1> QED BY <1>7, <1>8, <1>9, <1>10, <1>11, <1>12, <1>13 DEF OrphanInv, BlobInv

\* A crash leaves behind what the requests had in hand.
LEMMA CrashBlobs ==
  ASSUME OrphanInv, TypeOK', Crash
  PROVE  OrphanInv'
<1> DEFINE left == UNION {req[r].refs : r \in {q \in Requests : req[q].do \in {"put", "erase"}}}
<1>0. TypeOK /\ ParentsExist /\ RowsOwn /\ PutOwns /\ ErasuresOwn /\ RequestsOwn
      /\ NoBrokenReference
  BY DEF OrphanInv, BlobInv
<1>1. /\ UNCHANGED <<rows, stored, drawn>>
      /\ past'.escaped = past.escaped /\ past'.orphaned = past.orphaned \cup left
      /\ \A r \in Requests : req'[r] \in {Idle, Done}
  BY <1>0 DEF Crash, TypeOK
<1>2. \A q \in Requests : req[q].do \in {"put", "erase"} => req[q].refs \subseteq left
  OBVIOUS
<1> HIDE DEF left
<1>3. /\ Exists' = Exists
      /\ \A m : RefsOf(m)' = RefsOf(m)
      /\ UNCHANGED <<parent, trashed, versions, current, stored, drawn>>
  BY <1>1, SameRows
<1>4. \A r \in Requests : req'[r].do \in {"idle", "done"} /\ req'[r].refs = {} /\ req'[r].todo = {}
  BY <1>1 DEF Done, Idle
<1>5. ParentsExist' /\ RowsOwn' /\ NoBrokenReference'
  BY <1>0, <1>1, <1>3 DEF ParentsExist, RowsOwn, NoBrokenReference
<1>6. PutOwns' /\ ErasuresOwn' /\ RequestsOwn' /\ ListsCover'
  BY <1>4 DEF PutOwns, ErasuresOwn, RequestsOwn, ListsCover, Listed, At
<1>7. NoOrphanVersion'
  BY <1>1, <1>2, <1>3 DEF OrphanInv, NoOrphanVersion
<1> QED BY <1>5, <1>6, <1>7 DEF OrphanInv, BlobInv

-----------------------------------------------------------------------------
(* The invariant, and what follows from it.                                *)

LEMMA BlobsInit == Init => OrphanInv
<1> SUFFICES ASSUME Init PROVE OrphanInv
  OBVIOUS
<1>1. Exists = {} /\ \A n \in Nodes : RefsOf(n) = {}
  BY DEF Init, Exists, RefsOf
<1>2. \A r \in Requests : req[r].do = "idle" /\ req[r].refs = {} /\ req[r].todo = {}
  BY DEF Init, Idle
<1>3. ParentsExist /\ RowsOwn /\ NoBrokenReference
  BY <1>1 DEF Init, ParentsExist, RowsOwn, NoBrokenReference
<1>4. PutOwns /\ ErasuresOwn /\ RequestsOwn /\ ListsCover
  BY <1>2 DEF PutOwns, ErasuresOwn, RequestsOwn, ListsCover, Listed, At
<1>5. NoOrphanVersion
  BY DEF Init, NoOrphanVersion
<1> QED BY <1>3, <1>4, <1>5, InitType DEF OrphanInv, BlobInv

LEMMA QuietStep ==
  ASSUME OrphanInv, TypeOK', NEW r \in Requests, Quiet(r)
  PROVE  OrphanInv'
BY QuietBlobs, QuietOrphans DEF OrphanInv

LEMMA BlobsStep == TreeInv /\ ForestUnlessCrossed /\ OrphanInv /\ [Next]_vars => OrphanInv'
<1> SUFFICES ASSUME TreeInv, ForestUnlessCrossed, OrphanInv, [Next]_vars PROVE OrphanInv'
  OBVIOUS
<1>0. BlobInv /\ TypeOK' /\ ParentsExist'
  BY TreeStep DEF TreeInv, OrphanInv
<1>1. CASE UNCHANGED vars
  <2>1. /\ Exists' = Exists
        /\ \A m : RefsOf(m)' = RefsOf(m)
        /\ \A m : Below(m)' = Below(m)
        /\ UNCHANGED <<parent, trashed, versions, current, stored, drawn, req, past>>
    BY <1>1, SameRows DEF vars, rows
  <2>2. RowsOwn' /\ NoBrokenReference' /\ RequestsOwn' /\ NoOrphanVersion'
    BY <2>1 DEF OrphanInv, BlobInv, RowsOwn, NoBrokenReference, RequestsOwn, NoOrphanVersion, At
  <2>3. PutOwns' /\ ErasuresOwn' /\ ListsCover'
    BY <2>1 DEF OrphanInv, BlobInv, PutOwns, ErasuresOwn, ListsCover, Kept, Listed, At
  <2> QED BY <1>0, <2>2, <2>3 DEF OrphanInv, BlobInv
<1>2. CASE \E n \in Nodes, p \in Nodes \cup {Root} : Create(n, p)
  BY <1>0, <1>2, CreateBlobs
<1>3. CASE \E n \in Nodes : Trash(n) \/ Restore(n)
  BY <1>0, <1>3, MarkBlobs
<1>4. CASE Crash
  BY <1>0, <1>4, CrashBlobs
<1>5. ASSUME NEW r \in Requests, Step(r) PROVE OrphanInv'
  <2>1. CASE RefuseMove(r) \/ RefuseVersion(r) \/ PutRefuse(r) \/ EraseDone(r)
    BY <1>0, <2>1, RefusalsQuiet, QuietStep
  <2>2. CASE \E m \in Nodes : ListBlobs(r, m)
    BY <1>0, <2>2, ListBlobsQuiet, QuietStep
  <2>3. CASE Move(r) \/ Cascade(r)
    BY <1>0, <2>3, MoveBlobs, CascadeBlobs
  <2>4. CASE PutCommit(r) \/ RestoreVersion(r) \/ Retire(r)
    BY <1>0, <2>4, PutCommitBlobs, RestoreVersionBlobs, RetireBlobs
  <2>5. CASE \E b \in Blobs : Erase(r, b)
    BY <1>0, <2>5, EraseBlobs
  <2> QED BY <1>5, <2>1, <2>2, <2>3, <2>4, <2>5 DEF Step
<1>6. ASSUME NEW r \in Requests, Arrive(r) PROVE OrphanInv'
  <2>1. CASE \E n \in Nodes, b \in Blobs : PutBlob(r, n, b)
    BY <1>0, <2>1, PutBlobBlobs
  <2>2. CASE ~\E n \in Nodes, b \in Blobs : PutBlob(r, n, b)
    <3>1. Quiet(r)
      BY <1>0, <1>6, <2>2, BeginningsQuiet DEF Arrive
    <3> QED BY <1>0, <3>1, QuietStep
  <2> QED BY <2>1, <2>2
<1> QED BY <1>1, <1>2, <1>3, <1>4, <1>5, <1>6 DEF Next

LEMMA BlobsInvariant == Spec => []OrphanInv
<1>1. Init => TreeInv /\ ForestUnlessCrossed /\ OrphanInv
  BY InitTree, BlobsInit
<1>2. (TreeInv /\ ForestUnlessCrossed /\ OrphanInv) /\ [Next]_vars
        => (TreeInv /\ ForestUnlessCrossed /\ OrphanInv)'
  BY TreeStep, BlobsStep
<1> QED BY <1>1, <1>2, PTL DEF Spec

\* A row names blobs that are stored, unless its node left a subtree under purge by
\* a move or was given back a version under retirement (blob-gc.ts, nodes.ts,
\* versions.ts): however uploads, moves, purges, sweeps and crashes interleave.
THEOREM ReferencesCorrect == Spec => []NoBrokenReference
<1>1. OrphanInv => NoBrokenReference
  BY DEF OrphanInv, BlobInv
<1> QED BY <1>1, BlobsInvariant, PTL

\* A stored blob that no row names is in the hands of a request that will record or
\* erase it, unless it was counted as left behind.
THEOREM OrphansCorrect == Spec => []NoOrphan
<1>1. OrphanInv => NoOrphan
  <2> SUFFICES ASSUME OrphanInv, NEW b \in stored \ past.orphaned,
                      NEW n \in Exists, b \in versions[n]
               PROVE  b \in RefsIn(Exists)
    BY DEF OrphanInv, NoOrphanVersion, NoOrphan
  <2> QED BY DEF RefsIn, RefsOf
<1> QED BY <1>1, BlobsInvariant, PTL
=============================================================================
