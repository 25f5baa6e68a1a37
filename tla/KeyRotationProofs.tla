------------------------- MODULE KeyRotationProofs -------------------------
(***************************************************************************)
(* Proofs about KeyRotation for every number of managers, writers,         *)
(* restorers, versions and blobs, with any overlap of their requests.      *)
(***************************************************************************)
EXTENDS KeyRotation, TLAPS

\* What a request is about exists: a PUT targets a version row, and a manager
\* only has rows on its list.  Rows are never deleted while the node lives.
TargetsExist ==
    /\ \A p \in puts : Exists(p.ver)
    /\ \A m \in Managers : \A v \in mgr[m].todo : Exists(v)

TypeInv == TypeOK /\ TargetsExist

LEMMA TypeInit == Init => TypeInv
  BY KeyRotationAssumption DEF Init, TypeInv, TypeOK, TargetsExist, Node, Epochs, Keys,
     Manager, Listed, Exists

-----------------------------------------------------------------------------
(* The records of the managers.                                            *)

LEMMA IdleType ==
  ASSUME NEW m \in Managers, mgr \in [Managers -> Manager], Idle(m)
  PROVE  mgr' \in [Managers -> Manager]
<1>1. [mgr[m] EXCEPT !.pc = "idle", !.todo = {}, !.at = None] \in Manager
  BY DEF Manager
<1> QED
  BY <1>1 DEF Idle

\* A client finds the current key, or an older one, in its share row.
LEMMA KeyHeld ==
  ASSUME TypeInv, NEW c, NEW key \in KeysHeld(c)
  PROVE  key \in Epochs /\ key <= node.epoch /\ (c \notin Outdated => key = node.epoch)
BY KeyRotationAssumption DEF TypeInv, TypeOK, Node, Epochs, KeysHeld

LEMMA AnswerType ==
  ASSUME NEW p \in Put, NEW ok \in BOOLEAN, mgr \in [Managers -> Manager], Answer(p, ok)
  PROVE  mgr' \in [Managers -> Manager]
<1>1. p.by \in Managers
  BY DEF Put
<1>2. [mgr[p.by] EXCEPT !.at = None, !.failed = mgr[p.by].failed \/ ~ok] \in Manager
  BY <1>1, ZenonT(60) DEF Manager
<1> QED
  BY <1>1, <1>2 DEF Answer

\* One case per action that writes mgr.
LEMMA ManagerType == TypeInv /\ [Next]_vars => mgr' \in [Managers -> Manager]
<1> SUFFICES ASSUME TypeInv, [Next]_vars PROVE mgr' \in [Managers -> Manager]
  OBVIOUS
<1>0. mgr \in [Managers -> Manager] /\ node \in Node /\ puts \subseteq Put
  BY DEF TypeInv, TypeOK
<1>a. \A m \in Managers : mgr[m] \in Manager
  BY <1>0
<1>1. ASSUME NEW m \in Managers, NEW goal \in {"repair", "rotate"}, NEW key \in Epochs, Open(m, goal, key)
      PROVE mgr' \in [Managers -> Manager]
  <2>1. PICK g \in {"repair", "rotate"} : mgr' = [mgr EXCEPT ![m] =
            [@ EXCEPT !.pc = IF node.slot = 0 THEN "swap" ELSE "opened",
                      !.goal = g, !.epoch = node.epoch, !.slot = node.slot,
                      !.key = key, !.to = key, !.failed = FALSE]]
    BY <1>1 DEF Open
  <2>2. [mgr[m] EXCEPT !.pc = IF node.slot = 0 THEN "swap" ELSE "opened",
                       !.goal = g, !.epoch = node.epoch, !.slot = node.slot,
                       !.key = key, !.to = key, !.failed = FALSE] \in Manager
    BY <1>0, <1>a, ZenonT(60) DEF Manager, Node
  <2> QED
    BY <1>0, <2>1, <2>2
<1>2. ASSUME NEW m \in Managers, ListStale(m) PROVE mgr' \in [Managers -> Manager]
  <2>1. [mgr[m] EXCEPT !.pc = "catchUp", !.todo = Stale(mgr[m].epoch)] \in Manager
    BY <1>a DEF Manager, Stale, Listed
  <2> QED
    BY <1>0, <1>2, <2>1, IdleType DEF ListStale
<1>3. ASSUME NEW m \in Managers, EndCatchUp(m) PROVE mgr' \in [Managers -> Manager]
  <2>1. [mgr[m] EXCEPT !.pc = "swap"] \in Manager
    BY <1>a DEF Manager
  <2> QED
    BY <1>0, <1>3, <2>1, IdleType DEF EndCatchUp
<1>4. ASSUME NEW m \in Managers, SwapConflict(m) PROVE mgr' \in [Managers -> Manager]
  BY <1>0, <1>4, IdleType DEF SwapConflict
<1>5. ASSUME NEW m \in Managers, Relist(m) PROVE mgr' \in [Managers -> Manager]
  <2>1. [mgr[m] EXCEPT !.pc = "reencrypt", !.todo = Stale(mgr[m].to)] \in Manager
    BY <1>a DEF Manager, Stale, Listed
  <2> QED
    BY <1>0, <1>5, <2>1 DEF Relist
<1>6. ASSUME NEW m \in Managers, EndRotation(m) PROVE mgr' \in [Managers -> Manager]
  <2> DEFINE d == IF mgr[m].failed THEN mgr[m].done ELSE mgr[m].to
  <2>1. d \in Keys
    BY <1>a, KeyRotationAssumption DEF Manager, Epochs, Keys
  <2>2. mgr' = [mgr EXCEPT ![m] = [@ EXCEPT !.pc = "idle", !.done = d]]
    BY <1>6 DEF EndRotation
  <2> HIDE DEF d
  <2>3. [mgr[m] EXCEPT !.pc = "idle", !.done = d] \in Manager
    BY <1>a, <2>1 DEF Manager
  <2> QED
    BY <1>0, <2>2, <2>3
<1>7. ASSUME NEW m \in Managers, NEW answered \in BOOLEAN, Swap(m, answered)
      PROVE mgr' \in [Managers -> Manager]
  <2>1. node'.epoch \in Epochs
    BY <1>0, <1>7, KeyRotationAssumption DEF Swap, Rotated, Node, Epochs
  <2>2. [mgr[m] EXCEPT !.pc = "relist", !.to = node'.epoch] \in Manager
    BY <1>a, <2>1 DEF Manager
  <2> QED
    BY <1>0, <1>7, <2>2, IdleType DEF Swap, Rotated
<1>8. ASSUME NEW m \in Managers, NEW v \in Vers, SkipVersion(m, v)
      PROVE mgr' \in [Managers -> Manager]
  <2>1. [mgr[m] EXCEPT !.todo = mgr[m].todo \ {v}, !.failed = TRUE] \in Manager
    BY <1>a DEF Manager
  <2> QED
    BY <1>0, <1>8, <2>1 DEF SkipVersion
<1>9. ASSUME NEW m \in Managers, NEW v \in Vers, NEW r \in Refs, Reencrypt(m, v, r)
      PROVE mgr' \in [Managers -> Manager]
  <2>1. [mgr[m] EXCEPT !.at = v, !.todo = mgr[m].todo \ {v}] \in Manager
    BY <1>a DEF Manager
  <2> QED
    BY <1>0, <1>9, <2>1 DEF Reencrypt
<1>10. ASSUME NEW m \in Managers, Abandon(m) PROVE mgr' \in [Managers -> Manager]
  BY <1>0, <1>10, IdleType DEF Abandon
<1>11. ASSUME NEW m \in Managers, NEW stop \in BOOLEAN, GiveUp(m, stop)
       PROVE mgr' \in [Managers -> Manager]
  <2>1. [mgr[m] EXCEPT !.at = None, !.failed = TRUE] \in Manager
    BY <1>a DEF Manager
  <2> QED
    BY <1>0, <1>11, <2>1, IdleType DEF GiveUp
<1>12. ASSUME NEW p \in puts, PutStep(p) \/ PutCrash(p) PROVE mgr' \in [Managers -> Manager]
  BY <1>0, <1>12, AnswerType
  DEF PutStep, PutCommit, Replacement, PutRefuse, PutFinish, PutCrash
<1>13. CASE UNCHANGED mgr
  BY <1>0, <1>13
<1> QED
  BY <1>1, <1>2, <1>3, <1>4, <1>5, <1>6, <1>7, <1>8, <1>9, <1>10, <1>11, <1>12, <1>13
  DEF Next, ManagerStep, BeginUpload, CommitUpload, RefuseUpload, RestoreRead, RestoreWrite,
      RequireRotation, vars

-----------------------------------------------------------------------------
(* Type correctness.                                                       *)

LEMMA TypeStep == TypeInv /\ [Next]_vars => TypeOK'
<1> SUFFICES ASSUME TypeInv, [Next]_vars PROVE TypeOK'
  OBVIOUS
<1>m. mgr' \in [Managers -> Manager]
  BY ManagerType
<1> USE KeyRotationAssumption DEF TypeInv, TypeOK, Epochs, Keys
<1>1. ASSUME NEW m \in Managers, NEW goal \in {"repair", "rotate"}, NEW key \in Epochs, Open(m, goal, key)
      PROVE TypeOK'
  BY <1>m, <1>1 DEF Open
<1>2. ASSUME NEW m \in Managers,
             ListStale(m) \/ EndCatchUp(m) \/ SwapConflict(m) \/ Relist(m)
               \/ EndRotation(m) \/ Abandon(m)
      PROVE TypeOK'
  BY <1>m, <1>2 DEF ListStale, EndCatchUp, SwapConflict, Relist, EndRotation, Abandon
<1>3. ASSUME NEW m \in Managers, NEW answered \in BOOLEAN, Swap(m, answered) PROVE TypeOK'
  <2>1. mgr[m] \in Manager /\ mgr[m].key \in Keys /\ node.epoch + 1 \in Epochs
    BY <1>3 DEF Swap, Rotated, Node, Manager
  <2>2. PICK s \in BOOLEAN :
          node' = [node EXCEPT !.epoch = node.epoch + 1, !.slot = mgr[m].key,
                               !.rotationRequired = FALSE, !.skipped = s]
    <3> DEFINE s == node.skipped \/ (m \in Outdated \cup LegacyManagers /\ mgr[m].key # node.epoch)
    <3>1. s \in BOOLEAN
      BY DEF Node
    <3> HIDE DEF s
    <3> QED
      BY <1>3, <3>1 DEF Swap, Rotated, s
  <2>3. node' \in Node
    BY <2>1, <2>2 DEF Node
  <2> QED
    BY <1>m, <1>3, <2>3 DEF Swap, Rotated
<1>4. ASSUME NEW m \in Managers, NEW v \in Vers, SkipVersion(m, v) PROVE TypeOK'
  BY <1>m, <1>4 DEF SkipVersion
<1>5. ASSUME NEW m \in Managers, NEW v \in Vers, NEW r \in Refs, Reencrypt(m, v, r)
      PROVE TypeOK'
  <2>1. [by |-> m, ver |-> v, ref |-> r, old |-> None, awaited |-> TRUE] \in Put
    BY DEF Put
  <2>2. blob' \in [Refs -> Keys]
    BY <1>5 DEF Reencrypt, Manager
  <2> QED
    BY <1>m, <1>5, <2>1, <2>2 DEF Reencrypt
<1>6. ASSUME NEW m \in Managers, NEW stop \in BOOLEAN, GiveUp(m, stop) PROVE TypeOK'
  <2>1. \A p \in puts : [p EXCEPT !.awaited = FALSE] \in Put
    BY ZenonT(60) DEF Put
  <2>2. puts' \subseteq Put
    BY <1>6, <2>1 DEF GiveUp
  <2> QED
    BY <1>m, <1>6, <2>2 DEF GiveUp
<1>7. ASSUME NEW p \in puts, PutCommit(p) PROVE TypeOK'
  <2>1. p \in Put /\ rows[p.ver] \in Row
    BY <1>7 DEF Put, TargetsExist, Exists
  <2>2. rows' \in [Vers -> Row \cup {None}]
    BY <1>7, <2>1 DEF PutCommit, Replacement, Put, Row, Node
  <2>3. node' \in Node
    BY <1>7, <2>1 DEF PutCommit, Replacement, Put, Node
  <2>4. puts' \subseteq Put
    BY <1>7, <2>1 DEF PutCommit, Replacement, Put, Row
  <2> QED
    BY <1>m, <1>7, <2>2, <2>3, <2>4 DEF PutCommit, Replacement
<1>8. ASSUME NEW p \in puts, PutRefuse(p) \/ PutFinish(p) PROVE TypeOK'
  <2>1. \A r \in Refs : [blob EXCEPT ![r] = 0] \in [Refs -> Keys]
    OBVIOUS
  <2>2. blob' \in [Refs -> Keys]
    <3>1. CASE PutRefuse(p)
      BY <3>1, <2>1 DEF PutRefuse, Put
    <3>2. CASE PutFinish(p)
      BY <3>2, <2>1 DEF PutFinish, Put
    <3> QED
      BY <1>8, <3>1, <3>2
  <2> QED
    BY <1>m, <1>8, <2>2 DEF PutRefuse, PutFinish
<1>9. ASSUME NEW p \in puts, PutCrash(p) PROVE TypeOK'
  BY <1>m, <1>9 DEF PutCrash
<1>10. ASSUME NEW w \in Writers, NEW r \in Refs, NEW key \in Epochs, BeginUpload(w, r, key) PROVE TypeOK'
  <2>1. [ref |-> r, epoch |-> node.epoch, base |-> node.current] \in Upload
    BY DEF Upload, Node
  <2>2. blob' \in [Refs -> Keys]
    BY <1>10 DEF BeginUpload, Node
  <2> QED
    BY <1>m, <1>10, <2>1, <2>2 DEF BeginUpload
<1>11. ASSUME NEW w \in Writers, NEW v \in Vers, CommitUpload(w, v) PROVE TypeOK'
  <2>1. upload[w] \in Upload
    BY <1>11 DEF CommitUpload
  <2>2. rows' \in [Vers -> Row \cup {None}]
    BY <1>11, <2>1 DEF CommitUpload, Upload, Row, Node
  <2>3. node' \in Node
    BY <1>11, <2>1 DEF CommitUpload, Upload, Node
  <2> QED
    BY <1>m, <1>11, <2>2, <2>3 DEF CommitUpload
<1>12. ASSUME NEW w \in Writers, RefuseUpload(w) PROVE TypeOK'
  BY <1>m, <1>12 DEF RefuseUpload, Upload
<1>13. ASSUME NEW x \in Restorers, NEW v \in Vers, RestoreRead(x, v) PROVE TypeOK'
  <2>1. [ver |-> v, ref |-> rows[v].ref] \in Restore
    BY <1>13 DEF RestoreRead, Exists, Row, Restore
  <2> QED
    BY <1>m, <1>13, <2>1 DEF RestoreRead
<1>14. ASSUME NEW x \in Restorers, RestoreWrite(x) PROVE TypeOK'
  <2>1. node' \in Node
    BY <1>14 DEF RestoreWrite, Node, Restore
  <2> QED
    BY <1>m, <1>14, <2>1 DEF RestoreWrite
<1>15. CASE RequireRotation
  BY <1>m, <1>15 DEF RequireRotation, Node
<1>16. CASE UNCHANGED vars
  BY <1>16 DEF vars
<1> QED
  BY <1>1, <1>2, <1>3, <1>4, <1>5, <1>6, <1>7, <1>8, <1>9, <1>10, <1>11, <1>12, <1>13,
     <1>14, <1>15, <1>16
  DEF Next, ManagerStep, PutStep

\* A row, once there, stays there.
LEMMA RowsStay == TypeInv /\ [Next]_vars => \A v \in Vers : Exists(v) => Exists(v)'
<1> SUFFICES ASSUME TypeInv, [Next]_vars, NEW v \in Vers, Exists(v) PROVE Exists(v)'
  OBVIOUS
<1>1. ASSUME NEW p \in puts, PutCommit(p) PROVE Exists(v)'
  <2>1. p.ver \in Vers /\ rows[p.ver] \in Row
    BY DEF TypeInv, TypeOK, TargetsExist, Exists, Put
  <2>2. [rows[p.ver] EXCEPT !.stamp = node.epoch, !.ref = p.ref] \in Row
    BY <2>1 DEF TypeInv, TypeOK, Put, Row, Node
  <2> QED
    BY <1>1, <2>1, <2>2, KeyRotationAssumption DEF PutCommit, Replacement, Exists, TypeInv, TypeOK
<1>2. ASSUME NEW w \in Writers, NEW u \in Vers, CommitUpload(w, u) PROVE Exists(v)'
  BY <1>2 DEF CommitUpload, Exists, TypeInv, TypeOK
<1>3. CASE UNCHANGED rows
  BY <1>3 DEF Exists
<1> QED
  BY <1>1, <1>2, <1>3, ZenonT(60)
  DEF Next, ManagerStep, PutStep, Open, ListStale, EndCatchUp, SwapConflict, Relist,
      EndRotation, Swap, Rotated, SkipVersion, Reencrypt, Abandon, GiveUp, PutRefuse, PutFinish,
      PutCrash, BeginUpload, RefuseUpload, RestoreRead, RestoreWrite, RequireRotation, vars

\* Requests keep targeting rows that exist.
LEMMA TargetsStep == TypeInv /\ [Next]_vars => TargetsExist'
<1> SUFFICES ASSUME TypeInv, [Next]_vars PROVE TargetsExist'
  OBVIOUS
<1>0. \A v \in Vers : Exists(v) => Exists(v)'
  BY RowsStay
<1>1. ASSUME NEW p \in puts' PROVE Exists(p.ver)'
  <2>1. (\E q \in puts : q.ver = p.ver) \/ (p.ver \in Vers /\ Exists(p.ver))
    <3>1. CASE puts' \subseteq puts
      BY <3>1
    <3>2. ASSUME NEW m \in Managers, NEW v \in Vers, NEW r \in Refs, Reencrypt(m, v, r)
          PROVE \/ \E q \in puts : q.ver = p.ver
                \/ p.ver \in Vers /\ Exists(p.ver)
      BY <3>2 DEF Reencrypt, TypeInv, TargetsExist
    <3>3. ASSUME NEW m \in Managers, NEW stop \in BOOLEAN, GiveUp(m, stop)
          PROVE \E q \in puts : q.ver = p.ver
      BY <3>3 DEF GiveUp, TypeInv, TypeOK, Put
    <3>4. ASSUME NEW q \in puts, PutCommit(q) PROVE \E o \in puts : o.ver = p.ver
      BY <3>4 DEF PutCommit, Replacement, TypeInv, TypeOK, Put
    <3> QED
      BY <3>1, <3>2, <3>3, <3>4
      DEF Next, ManagerStep, PutStep, Open, ListStale, EndCatchUp, SwapConflict, Relist,
          EndRotation, Swap, Rotated, SkipVersion, Abandon, PutRefuse, PutFinish, PutCrash,
          BeginUpload, CommitUpload, RefuseUpload, RestoreRead, RestoreWrite,
          RequireRotation, vars
  <2>2. \A q \in puts : q.ver \in Vers /\ Exists(q.ver)
    BY DEF TypeInv, TypeOK, TargetsExist, Put
  <2> QED
    BY <1>0, <2>1, <2>2
<1>2. ASSUME NEW m \in Managers, NEW v \in mgr'[m].todo PROVE Exists(v)'
  <2>1. v \in Listed \/ v \in mgr[m].todo
    <3>0. mgr \in [Managers -> Manager] /\ mgr' \in [Managers -> Manager] /\ puts \subseteq Put
      BY ManagerType DEF TypeInv, TypeOK
    <3>1. CASE UNCHANGED mgr
      BY <3>1
    <3>a. \A n \in Managers : mgr[n] \in Manager
      BY <3>0
    <3>i. ASSUME NEW n \in Managers, Idle(n) PROVE v \in mgr[m].todo
      BY <3>0, <3>a, <3>i DEF Idle, Manager
    <3>2. ASSUME NEW n \in Managers, NEW goal \in {"repair", "rotate"}, NEW key \in Epochs, Open(n, goal, key)
          PROVE v \in mgr[m].todo
      BY <3>0, <3>a, <3>2 DEF Open, Manager
    <3>3. ASSUME NEW n \in Managers, ListStale(n) \/ Relist(n)
          PROVE v \in Listed \/ v \in mgr[m].todo
      <4>0. CASE Idle(n)
        BY <3>i, <4>0
      <4> DEFINE L(e, at) == [mgr[n] EXCEPT !.pc = at, !.todo = Stale(e)]
      <4> SUFFICES ASSUME ~Idle(n) PROVE v \in Listed \/ v \in mgr[m].todo
        BY <4>0
      <4>1. PICK e, at : mgr' = [mgr EXCEPT ![n] = L(e, at)]
        BY <3>3 DEF ListStale, Relist
      <4>2. L(e, at).todo \subseteq Listed
        BY <3>a DEF Manager, Stale
      <4> HIDE DEF L
      <4> QED
        BY <3>0, <4>1, <4>2
    <3>4. ASSUME NEW n \in Managers, EndCatchUp(n) \/ SwapConflict(n) \/ Abandon(n)
          PROVE v \in mgr[m].todo
      BY <3>0, <3>a, <3>i, <3>4 DEF EndCatchUp, SwapConflict, Abandon, Manager
    <3>5. ASSUME NEW n \in Managers, EndRotation(n) PROVE v \in mgr[m].todo
      <4> DEFINE d == IF mgr[n].failed THEN mgr[n].done ELSE mgr[n].to
      <4>1. mgr' = [mgr EXCEPT ![n] = [@ EXCEPT !.pc = "idle", !.done = d]]
        BY <3>5 DEF EndRotation
      <4> HIDE DEF d
      <4> QED
        BY <3>0, <3>a, <4>1 DEF Manager
    <3>6. ASSUME NEW n \in Managers, NEW answered \in BOOLEAN, Swap(n, answered)
          PROVE v \in mgr[m].todo
      <4>1. CASE Idle(n)
        BY <3>i, <4>1
      <4>2. ASSUME NEW e, mgr' = [mgr EXCEPT ![n] = [@ EXCEPT !.pc = "relist", !.to = e]]
            PROVE v \in mgr[m].todo
        BY <3>0, <3>a, <4>2 DEF Manager
      <4> QED
        BY <3>6, <4>1, <4>2 DEF Swap, Rotated
    <3>7. ASSUME NEW n \in Managers, NEW u \in Vers,
                 SkipVersion(n, u) \/ \E r \in Refs : Reencrypt(n, u, r)
          PROVE v \in mgr[m].todo
      <4>1. mgr'[n].todo = mgr[n].todo \ {u}
        <5>1. CASE SkipVersion(n, u)
          BY <3>0, <3>a, <5>1 DEF SkipVersion, Manager
        <5>2. ASSUME NEW r \in Refs, Reencrypt(n, u, r) PROVE mgr'[n].todo = mgr[n].todo \ {u}
          BY <3>0, <3>a, <5>2 DEF Reencrypt, Manager
        <5> QED
          BY <3>7, <5>1, <5>2
      <4>2. m # n => mgr'[m] = mgr[m]
        BY <3>0, <3>7 DEF SkipVersion, Reencrypt
      <4> QED
        BY <4>1, <4>2
    <3>8. ASSUME NEW n \in Managers, NEW stop \in BOOLEAN, GiveUp(n, stop)
          PROVE v \in mgr[m].todo
      <4>1. CASE Idle(n)
        BY <3>i, <4>1
      <4>2. CASE mgr' = [mgr EXCEPT ![n] = [@ EXCEPT !.at = None, !.failed = TRUE]]
        BY <3>0, <3>a, <4>2 DEF Manager
      <4> QED
        BY <3>8, <4>1, <4>2 DEF GiveUp
    <3>9. ASSUME NEW q \in puts, PutStep(q) \/ PutCrash(q) PROVE v \in mgr[m].todo
      <4>1. q.by \in Managers
        BY <3>0 DEF Put
      <4>2. CASE UNCHANGED mgr
        BY <4>2
      <4>3. ASSUME NEW f, mgr' = [mgr EXCEPT ![q.by] = [@ EXCEPT !.at = None, !.failed = f]]
            PROVE v \in mgr[m].todo
        BY <3>0, <3>a, <4>1, <4>3 DEF Manager
      <4> QED
        BY <3>9, <4>2, <4>3
        DEF PutStep, PutCommit, Replacement, PutRefuse, PutFinish, PutCrash, Answer
    <3> QED
      BY <3>1, <3>2, <3>3, <3>4, <3>5, <3>6, <3>7, <3>8, <3>9
      DEF Next, ManagerStep, BeginUpload, CommitUpload, RefuseUpload, RestoreRead, RestoreWrite,
          RequireRotation, vars
  <2>2. v \in Vers /\ Exists(v)
    BY <2>1 DEF TypeInv, TypeOK, TargetsExist, Listed, Manager
  <2> QED
    BY <1>0, <2>2
<1> QED
  BY <1>1, <1>2 DEF TargetsExist

LEMMA TypeInvariant == Spec => []TypeInv
<1>1. TypeInv /\ [Next]_vars => TypeInv'
  BY TypeStep, TargetsStep DEF TypeInv
<1> QED
  BY <1>1, TypeInit, PTL DEF Spec

\* Type correctness of the node, its versions, the object store and every
\* request being served (nodes.ts, versions.ts, rotate.ts).
THEOREM TypeCorrect == Spec => []TypeOK
<1>1. TypeInv => TypeOK
  BY DEF TypeInv
<1> QED
  BY <1>1, TypeInvariant, PTL

-----------------------------------------------------------------------------
(* The safety of KeyRotation under any overlap of requests: stamps never   *)
(* lag behind the bytes, no version ever loses its blob, and none whose    *)
(* stamp is true is ever skipped by the slot.                              *)

LEMMA EpochStep ==
  ASSUME TypeInv, [Next]_vars
  PROVE  node'.epoch = node.epoch \/ node'.epoch = node.epoch + 1
<1>0. node \in Node
  BY DEF TypeInv, TypeOK
<1>1. ASSUME NEW m \in Managers, NEW answered \in BOOLEAN, Swap(m, answered)
      PROVE node'.epoch = node.epoch + 1
  BY <1>0, <1>1 DEF Swap, Rotated, Node
<1>2. ASSUME NEW p \in puts, PutCommit(p) PROVE node'.epoch = node.epoch
  BY <1>0, <1>2 DEF PutCommit, Replacement, Node
<1>3. ASSUME NEW w \in Writers, NEW v \in Vers, CommitUpload(w, v) PROVE node'.epoch = node.epoch
  BY <1>0, <1>3 DEF CommitUpload, Node
<1>4. ASSUME NEW x \in Restorers, RestoreWrite(x) PROVE node'.epoch = node.epoch
  BY <1>0, <1>4 DEF RestoreWrite, Node
<1>5. CASE RequireRotation
  BY <1>0, <1>5 DEF RequireRotation, Node
<1>6. CASE UNCHANGED node
  BY <1>6
<1> QED
  BY <1>1, <1>2, <1>3, <1>4, <1>5, <1>6, ZenonT(60)
  DEF Next, ManagerStep, PutStep, Open, ListStale, EndCatchUp, SwapConflict, Relist,
      EndRotation, SkipVersion, Reencrypt, Abandon, GiveUp, PutRefuse, PutFinish, PutCrash,
      BeginUpload, RefuseUpload, RestoreRead, vars

\* What a rotation does to the node: the next epoch, the manager's key in the slot.
LEMMA SwapNode ==
  ASSUME TypeInv, NEW m \in Managers, NEW answered \in BOOLEAN, Swap(m, answered)
  PROVE  /\ node'.epoch = node.epoch + 1 /\ node'.slot = mgr[m].key
         /\ node'.rotationRequired = FALSE /\ node'.current = node.current
         /\ node'.ref = node.ref
         /\ node.skipped => node'.skipped
         /\ m \in Outdated \cup LegacyManagers /\ mgr[m].key # node.epoch => node'.skipped
<1> DEFINE s == node.skipped \/ (m \in Outdated \cup LegacyManagers /\ mgr[m].key # node.epoch)
<1>1. node' = [node EXCEPT !.epoch = node.epoch + 1, !.slot = mgr[m].key,
                           !.rotationRequired = FALSE, !.skipped = s]
  BY DEF Swap, Rotated
<1>2. node \in Node /\ (s = TRUE \/ s = FALSE)
  BY DEF TypeInv, TypeOK, Node
<1>3. node'.skipped = s
  <2> HIDE DEF s
  <2> QED
    BY <1>1, <1>2 DEF Node
<1>4. /\ node'.epoch = node.epoch + 1 /\ node'.slot = mgr[m].key
      /\ node'.rotationRequired = FALSE /\ node'.current = node.current
      /\ node'.ref = node.ref
  <2> HIDE DEF s
  <2> QED
    BY <1>1, <1>2 DEF Node
<1> QED
  BY <1>3, <1>4

\* The epoch a manager was told and the key it holds only change when it opens
\* the file again.
LEMMA RunTold ==
  ASSUME TypeInv, [Next]_vars, NEW m \in Managers
  PROVE  \/ mgr'[m].key = mgr[m].key /\ mgr'[m].epoch = mgr[m].epoch
         \/ /\ mgr'[m].epoch = node.epoch /\ mgr'[m].key \in Epochs
            /\ mgr'[m].key <= node.epoch /\ UNCHANGED node
            /\ m \notin Outdated => mgr'[m].key = node.epoch
<1> DEFINE Told == mgr'[m].key = mgr[m].key /\ mgr'[m].epoch = mgr[m].epoch
<1>0. mgr \in [Managers -> Manager] /\ puts \subseteq Put /\ \A n \in Managers : mgr[n] \in Manager
  BY DEF TypeInv, TypeOK
<1>1. ASSUME NEW n \in Managers, NEW goal \in {"repair", "rotate"}, NEW key \in Epochs,
             Open(n, goal, key)
      PROVE \/ Told
            \/ mgr'[m].epoch = node.epoch /\ mgr'[m].key = key /\ n = m
  BY <1>0, <1>1 DEF Open, Manager
<1>2. ASSUME NEW n \in Managers, Idle(n) PROVE Told
  BY <1>0, <1>2 DEF Idle, Manager
<1>3. ASSUME NEW n \in Managers, NEW answered \in BOOLEAN, Swap(n, answered) PROVE Told
  <2>1. ASSUME NEW e, mgr' = [mgr EXCEPT ![n] = [@ EXCEPT !.pc = "relist", !.to = e]] PROVE Told
    BY <1>0, <2>1 DEF Manager
  <2> QED
    BY <1>2, <1>3, <2>1 DEF Swap, Rotated
<1>4. ASSUME NEW n \in Managers, ListStale(n) \/ Relist(n) PROVE Told
  <2>1. ASSUME NEW at, NEW l, mgr' = [mgr EXCEPT ![n] = [@ EXCEPT !.pc = at, !.todo = l]]
        PROVE  Told
    BY <1>0, <2>1 DEF Manager
  <2> QED
    BY <1>2, <1>4, <2>1 DEF ListStale, Relist
<1>5. ASSUME NEW n \in Managers, EndCatchUp(n) PROVE Told
  BY <1>0, <1>2, <1>5 DEF EndCatchUp, Manager
<1>6. ASSUME NEW n \in Managers, EndRotation(n) PROVE Told
  BY <1>0, <1>6 DEF EndRotation, Manager
<1>7. ASSUME NEW n \in Managers, NEW v \in Vers, SkipVersion(n, v) PROVE Told
  BY <1>0, <1>7 DEF SkipVersion, Manager
<1>8. ASSUME NEW n \in Managers, NEW v \in Vers, NEW r \in Refs, Reencrypt(n, v, r) PROVE Told
  BY <1>0, <1>8 DEF Reencrypt, Manager
<1>9. ASSUME NEW n \in Managers, NEW stop \in BOOLEAN, GiveUp(n, stop) PROVE Told
  <2>1. CASE mgr' = [mgr EXCEPT ![n] = [@ EXCEPT !.at = None, !.failed = TRUE]]
    BY <1>0, <2>1 DEF Manager
  <2> QED
    BY <1>2, <1>9, <2>1 DEF GiveUp
<1>10. ASSUME NEW p \in puts, PutStep(p) \/ PutCrash(p) PROVE Told
  <2>1. p.by \in Managers
    BY <1>0 DEF Put
  <2>2. ASSUME NEW f, mgr' = [mgr EXCEPT ![p.by] = [@ EXCEPT !.at = None, !.failed = f]]
        PROVE Told
    BY <1>0, <2>1, <2>2 DEF Manager
  <2> QED
    BY <1>10, <2>2
    DEF PutStep, PutCommit, Replacement, PutRefuse, PutFinish, PutCrash, Answer
<1>11. UNCHANGED mgr => Told
  OBVIOUS
<1>12. Told \/ \E goal \in {"repair", "rotate"}, key \in Epochs, n \in Managers : Open(n, goal, key)
  BY <1>2, <1>3, <1>4, <1>5, <1>6, <1>7, <1>8, <1>9, <1>10, <1>11
  DEF Next, ManagerStep, SwapConflict, Abandon, BeginUpload, CommitUpload, RefuseUpload,
      RestoreRead, RestoreWrite, RequireRotation, vars
<1>13. ASSUME NEW n \in Managers, NEW goal \in {"repair", "rotate"}, NEW key \in Epochs,
              Open(n, goal, key)
       PROVE  /\ key \in Epochs /\ key <= node.epoch /\ UNCHANGED node
              /\ n \notin Outdated => key = node.epoch
  BY <1>13, KeyHeld DEF Open
<1> HIDE DEF Told
<1> QED
  BY <1>1, <1>12, <1>13 DEF Told

-----------------------------------------------------------------------------
(* Keys only ever lag: no blob, and no manager, is ahead of the node.      *)

KeysBehind ==
    /\ \A r \in Refs : blob[r] <= node.epoch
    /\ \A m \in Managers : mgr[m].to <= node.epoch

LagInv == KeysBehind /\ StampsNeverLag

LEMMA BlobKeys ==
  ASSUME TypeInv, LagInv, [Next]_vars
  PROVE  \A r \in Refs : blob'[r] <= node'.epoch
<1>0. /\ node \in Node /\ mgr \in [Managers -> Manager] /\ blob \in [Refs -> Keys]
      /\ puts \subseteq Put /\ node.epoch \in Nat /\ node'.epoch \in Nat
      /\ node.epoch <= node'.epoch
  BY EpochStep, KeyRotationAssumption DEF TypeInv, TypeOK, Node, Epochs
<1>b. \A r \in Refs : blob[r] \in Nat /\ blob[r] <= node.epoch
  BY <1>0 DEF LagInv, KeysBehind, Keys
<1>1. ASSUME NEW m \in Managers, NEW v \in Vers, NEW r \in Refs, Reencrypt(m, v, r)
      PROVE \A s \in Refs : blob'[s] <= node.epoch
  BY <1>0, <1>b, <1>1 DEF Reencrypt, LagInv, KeysBehind
<1>2. ASSUME NEW w \in Writers, NEW r \in Refs, NEW key \in Epochs, BeginUpload(w, r, key)
      PROVE \A s \in Refs : blob'[s] <= node.epoch
  BY <1>0, <1>b, <1>2, KeyHeld DEF BeginUpload
<1>3. ASSUME NEW r, blob' = [blob EXCEPT ![r] = 0] PROVE \A s \in Refs : blob'[s] <= node.epoch
  BY <1>0, <1>b, <1>3
<1>4. UNCHANGED blob => \A s \in Refs : blob'[s] <= node.epoch
  BY <1>b
<1>5. \A s \in Refs : blob'[s] <= node.epoch /\ blob'[s] \in Nat
  <2>1. \A s \in Refs : blob'[s] <= node.epoch
    BY <1>1, <1>2, <1>3, <1>4
    DEF Next, ManagerStep, PutStep, Open, ListStale, EndCatchUp, SwapConflict, Relist,
        EndRotation, Swap, Rotated, SkipVersion, Abandon, GiveUp, PutCommit, Replacement, PutRefuse,
        PutFinish, PutCrash, CommitUpload, RefuseUpload, RestoreRead, RestoreWrite,
        RequireRotation, vars
  <2>2. \A s \in Refs : blob'[s] \in Nat
    BY TypeStep DEF TypeOK, Keys
  <2> QED
    BY <2>1, <2>2
<1> QED
  BY <1>0, <1>5

LEMMA ManagersBehind ==
  ASSUME TypeInv, LagInv, [Next]_vars
  PROVE  \A m \in Managers : mgr'[m].to <= node'.epoch
<1>0. /\ node \in Node /\ mgr \in [Managers -> Manager] /\ puts \subseteq Put
      /\ node.epoch \in Nat /\ node'.epoch \in Nat /\ node.epoch <= node'.epoch
  BY EpochStep, KeyRotationAssumption DEF TypeInv, TypeOK, Node, Epochs
<1>a. \A m \in Managers : mgr[m] \in Manager /\ mgr[m].to <= node.epoch /\ mgr[m].to \in Nat
  BY <1>0 DEF LagInv, KeysBehind, Manager, Epochs
<1> SUFFICES ASSUME NEW m \in Managers PROVE mgr'[m].to <= node'.epoch
  OBVIOUS
<1>b. mgr'[m].to = mgr[m].to => mgr'[m].to <= node'.epoch
  BY <1>0, <1>a
<1>1. ASSUME NEW n \in Managers, NEW goal \in {"repair", "rotate"}, NEW key \in Epochs, Open(n, goal, key)
      PROVE mgr'[m].to = mgr[m].to \/ (mgr'[m].to \in Nat /\ mgr'[m].to <= node.epoch)
  <2>1. key \in Nat /\ key <= node.epoch
    BY <1>1, KeyHeld DEF Open, Epochs
  <2> QED
    BY <1>0, <1>a, <1>1, <2>1 DEF Open, Manager
<1>2. ASSUME NEW n \in Managers, Idle(n) PROVE mgr'[m].to = mgr[m].to
  BY <1>0, <1>a, <1>2 DEF Idle, Manager
<1>3. ASSUME NEW n \in Managers, NEW answered \in BOOLEAN, Swap(n, answered)
      PROVE mgr'[m].to = mgr[m].to \/ mgr'[m].to = node'.epoch
  <2>1. ASSUME mgr' = [mgr EXCEPT ![n] = [@ EXCEPT !.pc = "relist", !.to = node'.epoch]]
        PROVE  mgr'[m].to = mgr[m].to \/ mgr'[m].to = node'.epoch
    BY <1>0, <1>a, <2>1 DEF Manager
  <2> QED
    BY <1>2, <1>3, <2>1 DEF Swap, Rotated
<1>4. ASSUME NEW n \in Managers, ListStale(n) \/ Relist(n) PROVE mgr'[m].to = mgr[m].to
  <2>1. ASSUME NEW at, NEW l, mgr' = [mgr EXCEPT ![n] = [@ EXCEPT !.pc = at, !.todo = l]]
        PROVE  mgr'[m].to = mgr[m].to
    BY <1>0, <1>a, <2>1 DEF Manager
  <2> QED
    BY <1>2, <1>4, <2>1 DEF ListStale, Relist
<1>5. ASSUME NEW n \in Managers, EndCatchUp(n) PROVE mgr'[m].to = mgr[m].to
  BY <1>0, <1>a, <1>2, <1>5 DEF EndCatchUp, Manager
<1>6. ASSUME NEW n \in Managers, EndRotation(n) PROVE mgr'[m].to = mgr[m].to
  BY <1>0, <1>a, <1>6 DEF EndRotation, Manager
<1>7. ASSUME NEW n \in Managers, NEW v \in Vers, SkipVersion(n, v) PROVE mgr'[m].to = mgr[m].to
  BY <1>0, <1>a, <1>7 DEF SkipVersion, Manager
<1>8. ASSUME NEW n \in Managers, NEW v \in Vers, NEW r \in Refs, Reencrypt(n, v, r)
      PROVE mgr'[m].to = mgr[m].to
  BY <1>0, <1>a, <1>8 DEF Reencrypt, Manager
<1>9. ASSUME NEW n \in Managers, NEW stop \in BOOLEAN, GiveUp(n, stop)
      PROVE mgr'[m].to = mgr[m].to
  <2>1. CASE mgr' = [mgr EXCEPT ![n] = [@ EXCEPT !.at = None, !.failed = TRUE]]
    BY <1>0, <1>a, <2>1 DEF Manager
  <2> QED
    BY <1>2, <1>9, <2>1 DEF GiveUp
<1>10. ASSUME NEW p \in puts, PutStep(p) \/ PutCrash(p) PROVE mgr'[m].to = mgr[m].to
  <2>1. p.by \in Managers
    BY <1>0 DEF Put
  <2>2. ASSUME NEW f, mgr' = [mgr EXCEPT ![p.by] = [@ EXCEPT !.at = None, !.failed = f]]
        PROVE mgr'[m].to = mgr[m].to
    BY <1>0, <1>a, <2>1, <2>2 DEF Manager
  <2> QED
    BY <1>10, <2>2
    DEF PutStep, PutCommit, Replacement, PutRefuse, PutFinish, PutCrash, Answer
<1>11. UNCHANGED mgr => mgr'[m].to = mgr[m].to
  OBVIOUS
<1>12. \/ mgr'[m].to = mgr[m].to \/ (mgr'[m].to \in Nat /\ mgr'[m].to <= node.epoch)
       \/ mgr'[m].to = node'.epoch
  BY <1>1, <1>2, <1>3, <1>4, <1>5, <1>6, <1>7, <1>8, <1>9, <1>10, <1>11
  DEF Next, ManagerStep, SwapConflict, Abandon, BeginUpload, CommitUpload, RefuseUpload,
      RestoreRead, RestoreWrite, RequireRotation, vars
<1> QED
  BY <1>0, <1>b, <1>12

\* A fresh reference is mentioned by nothing.
LEMMA FreshFacts ==
  ASSUME NEW r, Fresh(r)
  PROVE  /\ blob[r] = 0
         /\ \A v \in Listed : rows[v].ref # r
         /\ \A p \in puts : p.ref # r /\ p.old # r
         /\ \A w \in Writers : upload[w] # None => upload[w].ref # r
  BY DEF Fresh, Mentioned

LEMMA StampsStep ==
  ASSUME TypeInv, LagInv, [Next]_vars
  PROVE  StampsNeverLag'
<1>0. /\ node \in Node /\ node.epoch \in Nat /\ node'.epoch \in Nat /\ node.epoch <= node'.epoch
      /\ rows \in [Vers -> Row \cup {None}] /\ blob \in [Refs -> Keys] /\ puts \subseteq Put
      /\ upload \in [Writers -> Upload \cup {None}]
  BY EpochStep, KeyRotationAssumption DEF TypeInv, TypeOK, Node, Epochs
<1>a. \A v \in Listed : /\ rows[v] \in Row /\ rows[v].ref \in Refs
                        /\ rows[v].stamp \in Nat /\ KeyOf(v) \in Nat
                        /\ KeyOf(v) <= rows[v].stamp /\ rows[v].stamp <= node.epoch
  BY <1>0 DEF Listed, Exists, Row, Epochs, Keys, KeyOf, LagInv, StampsNeverLag
<1>b. \A r \in Refs : blob[r] \in Nat /\ blob[r] <= node.epoch
  BY <1>0 DEF LagInv, KeysBehind, Keys
<1> DEFINE Fine(v) == blob'[rows'[v].ref] <= rows'[v].stamp /\ rows'[v].stamp <= node'.epoch
<1>1. ASSUME UNCHANGED rows, NEW r, NEW k, blob' = [blob EXCEPT ![r] = k],
             k = 0 \/ \A v \in Listed : rows[v].ref # r
      PROVE \A v \in Listed' : Fine(v)
  <2>1. \A v \in Listed : blob'[rows[v].ref] = KeyOf(v) \/ blob'[rows[v].ref] = 0
    BY <1>0, <1>a, <1>1 DEF KeyOf
  <2>2. Listed' = Listed
    BY <1>1 DEF Listed, Exists
  <2> QED
    BY <1>0, <1>a, <1>1, <2>1, <2>2
<1>2. ASSUME UNCHANGED <<rows, blob>> PROVE \A v \in Listed' : Fine(v)
  BY <1>0, <1>a, <1>2 DEF Listed, Exists, KeyOf
<1>3. ASSUME NEW p \in puts, PutCommit(p) PROVE \A v \in Listed' : Fine(v)
  <2>1. p.ver \in Listed /\ p.ref \in Refs
    BY <1>0 DEF TypeInv, TargetsExist, Put, Listed
  <2>2. rows' = [rows EXCEPT ![p.ver] = [rows[p.ver] EXCEPT !.stamp = node.epoch, !.ref = p.ref]]
        /\ UNCHANGED blob
    BY <1>3 DEF PutCommit, Replacement
  <2>3. rows'[p.ver].stamp = node.epoch /\ rows'[p.ver].ref = p.ref
    BY <1>0, <1>a, <2>1, <2>2 DEF Row, Listed
  <2>4. Fine(p.ver)
    BY <1>0, <1>b, <2>1, <2>2, <2>3
  <2>5. \A v \in Listed' : v # p.ver => v \in Listed /\ rows'[v] = rows[v]
    BY <1>0, <2>2 DEF Listed, Exists
  <2> QED
    BY <1>0, <1>a, <2>2, <2>4, <2>5 DEF KeyOf
<1>4. ASSUME NEW w \in Writers, NEW u \in Vers, CommitUpload(w, u)
      PROVE \A v \in Listed' : Fine(v)
  <2>1. upload[w].ref \in Refs
    BY <1>0, <1>4 DEF CommitUpload, Upload
  <2>2. rows'[u].stamp = node.epoch /\ rows'[u].ref = upload[w].ref /\ UNCHANGED blob
    BY <1>0, <1>4 DEF CommitUpload
  <2>3. Fine(u)
    BY <1>0, <1>b, <2>1, <2>2
  <2>4. \A v \in Listed' : v # u => v \in Listed /\ rows'[v] = rows[v]
    BY <1>0, <1>4 DEF CommitUpload, Listed, Exists
  <2> QED
    BY <1>0, <1>a, <2>2, <2>3, <2>4 DEF KeyOf
<1>5. ASSUME NEW m \in Managers, NEW v \in Vers, NEW r \in Refs, Reencrypt(m, v, r)
      PROVE \A u \in Listed' : Fine(u)
  BY <1>1, <1>5, FreshFacts DEF Reencrypt
<1>6. ASSUME NEW w \in Writers, NEW r \in Refs, NEW key \in Epochs, BeginUpload(w, r, key)
      PROVE \A u \in Listed' : Fine(u)
  BY <1>1, <1>6, FreshFacts DEF BeginUpload
<1>7. ASSUME NEW p \in puts, PutRefuse(p) \/ PutFinish(p) PROVE \A u \in Listed' : Fine(u)
  BY <1>1, <1>7 DEF PutRefuse, PutFinish
<1>8. ASSUME NEW w \in Writers, RefuseUpload(w) PROVE \A u \in Listed' : Fine(u)
  BY <1>1, <1>8 DEF RefuseUpload
<1>9. \A v \in Listed' : Fine(v)
  BY <1>2, <1>3, <1>4, <1>5, <1>6, <1>7, <1>8
  DEF Next, ManagerStep, PutStep, Open, ListStale, EndCatchUp, SwapConflict, Relist,
      EndRotation, Swap, Rotated, SkipVersion, Abandon, GiveUp, PutCrash, RestoreRead, RestoreWrite,
      RequireRotation, vars
<1> QED
  BY <1>9 DEF StampsNeverLag, KeyOf

LEMMA LagInvariant == Spec => []LagInv
<1>1. Init => LagInv
  BY KeyRotationAssumption
  DEF Init, LagInv, KeysBehind, StampsNeverLag, Listed, Exists
<1>2. TypeInv /\ LagInv /\ [Next]_vars => LagInv'
  BY BlobKeys, ManagersBehind, StampsStep DEF LagInv, KeysBehind
<1> QED
  BY <1>1, <1>2, TypeInvariant, PTL DEF Spec

\* No reader that picks a key by a version's stamp is sent to a newer key than
\* its bytes, and no stamp is ahead of the node, under any overlap of
\* rotations, uploads, restores and lost answers (versions.ts:128-164).
THEOREM StampsCorrect == Spec => []StampsNeverLag
<1>1. LagInv => StampsNeverLag
  BY DEF LagInv
<1> QED
  BY <1>1, LagInvariant, PTL

-----------------------------------------------------------------------------
(* No version loses its blob.  Removing a blob is safe because whoever     *)
(* removes it is the only one to mention it: a row, a request not yet      *)
(* committed and an upload each own the blob they mention.                 *)

RowRef(r) == \E v \in Listed : rows[v].ref = r

RowsApart == \A u, v \in Listed : u # v => rows[u].ref # rows[v].ref

\* A request owns its new blob until it commits, the replaced one afterwards.
PutsOwn ==
    \A p \in puts : IF p.old = None THEN blob[p.ref] # 0 /\ ~RowRef(p.ref) ELSE ~RowRef(p.old)

PutsApart ==
    \A p, q \in puts : /\ p # q => p.ref # q.ref
                       /\ p.old = None => q.old # p.ref

UploadsOwn ==
    \A w \in Writers : upload[w] # None =>
        /\ blob[upload[w].ref] # 0
        /\ ~RowRef(upload[w].ref)
        /\ \A p \in puts : p.ref # upload[w].ref /\ p.old # upload[w].ref

UploadsApart ==
    \A w, x \in Writers : w # x /\ upload[w] # None /\ upload[x] # None =>
        upload[w].ref # upload[x].ref

BlobInv ==
    VersionBlobsExist /\ RowsApart /\ PutsOwn /\ PutsApart /\ UploadsOwn /\ UploadsApart

\* The part of the types these proofs use.
LEMMA Shapes ==
  ASSUME TypeInv
  PROVE  /\ blob \in [Refs -> Keys] /\ rows \in [Vers -> Row \cup {None}]
         /\ upload \in [Writers -> Upload \cup {None}]
         /\ \A p \in puts : /\ p \in Put /\ p.ref \in Refs /\ p.ver \in Listed
                            /\ p.old \in Refs \cup {None}
         /\ \A v \in Listed : rows[v] \in Row /\ rows[v].ref \in Refs
         /\ \A w \in Writers : upload[w] # None => upload[w].ref \in Refs
         /\ None \notin Refs /\ 0 \in Keys
  BY KeyRotationAssumption
  DEF TypeInv, TypeOK, TargetsExist, Listed, Exists, Put, Row, Upload, Keys

\* Steps that touch none of the four variables.
LEMMA BlobFrame == BlobInv /\ UNCHANGED <<rows, blob, puts, upload>> => BlobInv'
  BY DEF BlobInv, VersionBlobsExist, RowsApart, PutsOwn, PutsApart, UploadsOwn, UploadsApart,
         RowRef, Listed, Exists, KeyOf

LEMMA BlobReencrypt ==
  ASSUME TypeInv, BlobInv, NEW m \in Managers, NEW v \in Vers, NEW r \in Refs, Reencrypt(m, v, r)
  PROVE  BlobInv'
<1> DEFINE n == [by |-> m, ver |-> v, ref |-> r, old |-> None, awaited |-> TRUE]
<1>1. /\ blob' = [blob EXCEPT ![r] = mgr[m].to] /\ puts' = puts \cup {n}
      /\ UNCHANGED <<rows, upload>> /\ n.ref = r /\ n.old = None
  BY DEF Reencrypt
<1>2. mgr[m].to # 0
  BY KeyRotationAssumption DEF TypeInv, TypeOK, Manager, Epochs
<1>3. /\ \A u \in Listed : rows[u].ref # r
      /\ \A p \in puts : p.ref # r /\ p.old # r
      /\ \A w \in Writers : upload[w] # None => upload[w].ref # r
  BY FreshFacts DEF Reencrypt
<1>4. /\ blob \in [Refs -> Keys] /\ blob'[r] = mgr[m].to /\ Listed' = Listed
      /\ \A s \in Refs : s # r => blob'[s] = blob[s]
  BY <1>1, Shapes DEF Listed, Exists
<1> HIDE DEF n
<1>5. VersionBlobsExist'
  BY <1>1, <1>3, <1>4, Shapes DEF BlobInv, VersionBlobsExist, KeyOf
<1>6. RowsApart' /\ UploadsApart'
  BY <1>1, <1>4 DEF BlobInv, RowsApart, UploadsApart
<1>7. \A s : RowRef(s)' <=> RowRef(s)
  BY <1>1, <1>4 DEF RowRef
<1>8. PutsOwn'
  <2>1. blob'[n.ref] # 0 /\ ~RowRef(n.ref)
    BY <1>1, <1>2, <1>3, <1>4 DEF RowRef
  <2>2. \A p \in puts : IF p.old = None THEN blob'[p.ref] # 0 /\ ~RowRef(p.ref) ELSE ~RowRef(p.old)
    BY <1>3, <1>4, Shapes DEF BlobInv, PutsOwn
  <2> QED
    BY <1>1, <1>7, <2>1, <2>2 DEF PutsOwn
<1>9. PutsApart'
  BY <1>1, <1>3, Shapes DEF BlobInv, PutsApart
<1>10. UploadsOwn'
  BY <1>1, <1>3, <1>4, <1>7, Shapes DEF BlobInv, UploadsOwn
<1> QED
  BY <1>5, <1>6, <1>8, <1>9, <1>10 DEF BlobInv

LEMMA BlobGiveUp ==
  ASSUME TypeInv, BlobInv, NEW m \in Managers, NEW stop \in BOOLEAN, GiveUp(m, stop)
  PROVE  BlobInv'
<1>1. /\ puts' = {IF p.by = m THEN [p EXCEPT !.awaited = FALSE] ELSE p : p \in puts}
      /\ UNCHANGED <<rows, blob, upload>>
  BY DEF GiveUp
<1> DEFINE g(p) == IF p.by = m THEN [p EXCEPT !.awaited = FALSE] ELSE p
<1>2. \A p \in puts : g(p).ref = p.ref /\ g(p).old = p.old
  BY Shapes DEF Put
<1>3. \A q \in puts' : \E p \in puts : q = g(p) /\ q.ref = p.ref /\ q.old = p.old
  BY <1>1, <1>2
<1> HIDE DEF g
<1>4. Listed' = Listed /\ \A s : RowRef(s)' <=> RowRef(s)
  BY <1>1 DEF Listed, Exists, RowRef
<1>5. VersionBlobsExist' /\ RowsApart' /\ UploadsApart'
  BY <1>1, <1>4 DEF BlobInv, VersionBlobsExist, RowsApart, UploadsApart, KeyOf
<1>6. PutsOwn'
  BY <1>1, <1>3, <1>4 DEF BlobInv, PutsOwn
<1>7. PutsApart'
  BY <1>3 DEF BlobInv, PutsApart
<1>8. UploadsOwn'
  BY <1>1, <1>3, <1>4 DEF BlobInv, UploadsOwn
<1> QED
  BY <1>5, <1>6, <1>7, <1>8 DEF BlobInv

LEMMA BlobPutCommit ==
  ASSUME TypeInv, BlobInv, NEW p \in puts, PutCommit(p)
  PROVE  BlobInv'
<1>r. PICK r0 : r0 = rows[p.ver].ref
  OBVIOUS
<1>n. PICK n : n = [p EXCEPT !.old = r0]
  OBVIOUS
<1>1. /\ p.old = None /\ puts' = (puts \ {p}) \cup {n} /\ UNCHANGED <<blob, upload>>
      /\ rows' = [rows EXCEPT ![p.ver] = [rows[p.ver] EXCEPT !.stamp = node.epoch, !.ref = p.ref]]
  BY <1>r, <1>n DEF PutCommit, Replacement
<1>2. p.ver \in Listed /\ p.ver \in Vers /\ r0 \in Refs /\ r0 # None /\ p.ref \in Refs
  BY <1>r, Shapes DEF Listed
<1>3. n.ref = p.ref /\ n.old = r0
  BY <1>n, Shapes DEF Put
<1>4. rows'[p.ver].ref = p.ref /\ \A v \in Vers : v # p.ver => rows'[v] = rows[v]
  BY <1>1, <1>2, Shapes DEF Row
<1>5. Listed' \subseteq Listed
  BY <1>2, <1>4 DEF Listed, Exists
<1>6. blob[p.ref] # 0 /\ ~RowRef(p.ref) /\ RowRef(r0) /\ r0 # p.ref
  BY <1>r, <1>1, <1>2 DEF BlobInv, PutsOwn, RowRef
<1>7. \A s : RowRef(s)' => s = p.ref \/ (s # r0 /\ RowRef(s))
  <2> SUFFICES ASSUME NEW s, RowRef(s)' PROVE s = p.ref \/ (s # r0 /\ RowRef(s))
    OBVIOUS
  <2>1. PICK v \in Listed' : rows'[v].ref = s
    BY DEF RowRef
  <2>2. CASE v = p.ver
    BY <1>4, <2>1, <2>2
  <2>3. CASE v # p.ver
    BY <1>r, <1>2, <1>4, <1>5, <2>1, <2>3 DEF BlobInv, RowsApart, RowRef, Listed
  <2> QED
    BY <2>2, <2>3
<1>8. VersionBlobsExist'
  BY <1>1, <1>4, <1>5, <1>6 DEF BlobInv, VersionBlobsExist, KeyOf, Listed
<1>9. RowsApart'
  BY <1>4, <1>5, <1>6 DEF BlobInv, RowsApart, RowRef, Listed
<1>10. PutsOwn'
  <2>1. ~RowRef(n.old)' /\ n.old # None
    BY <1>2, <1>3, <1>6, <1>7
  <2>2. ASSUME NEW q \in puts, q # p
        PROVE IF q.old = None THEN blob[q.ref] # 0 /\ ~RowRef(q.ref)' ELSE ~RowRef(q.old)'
    <3>1. q.ref # p.ref /\ q.old # p.ref
      BY <1>1, <2>2 DEF BlobInv, PutsApart
    <3> QED
      BY <1>7, <3>1 DEF BlobInv, PutsOwn
  <2> QED
    BY <1>1, <2>1, <2>2 DEF PutsOwn
<1>11. PutsApart'
  <2>1. \A q \in puts : q # p => q.ref # p.ref
    BY DEF BlobInv, PutsApart
  <2>2. \A q \in puts : q.old = None => q.ref # r0
    BY <1>6 DEF BlobInv, PutsOwn
  <2> QED
    BY <1>1, <1>2, <1>3, <2>1, <2>2 DEF BlobInv, PutsApart
<1>12. UploadsOwn'
  BY <1>1, <1>3, <1>6, <1>7 DEF BlobInv, UploadsOwn
<1>13. UploadsApart'
  BY <1>1 DEF BlobInv, UploadsApart
<1> QED
  BY <1>8, <1>9, <1>10, <1>11, <1>12, <1>13 DEF BlobInv

\* A request ends; the blob it owned, if any, is removed.
LEMMA BlobPutEnd ==
  ASSUME TypeInv, BlobInv, NEW p \in puts, PutRefuse(p) \/ PutFinish(p) \/ PutCrash(p)
  PROVE  BlobInv'
<1>1. PICK r \in Refs : /\ r = IF p.old = None THEN p.ref ELSE p.old
  BY Shapes
<1>2. /\ blob' = [blob EXCEPT ![r] = 0] \/ blob' = blob
      /\ puts' = puts \ {p} /\ UNCHANGED <<rows, upload>>
  BY <1>1 DEF PutRefuse, PutFinish, PutCrash
<1>3. ~RowRef(r)
  BY <1>1 DEF BlobInv, PutsOwn
<1>4. \A q \in puts : q # p /\ q.old = None => q.ref # r
  BY <1>1 DEF BlobInv, PutsApart
<1>5. \A w \in Writers : upload[w] # None => upload[w].ref # r
  BY <1>1 DEF BlobInv, UploadsOwn
<1>6. Listed' = Listed /\ \A s : RowRef(s)' <=> RowRef(s)
  BY <1>2 DEF Listed, Exists, RowRef
<1>7. \A s \in Refs : s # r => blob'[s] = blob[s]
  BY <1>2, Shapes
<1>8. VersionBlobsExist'
  BY <1>2, <1>3, <1>6, <1>7, Shapes DEF BlobInv, VersionBlobsExist, KeyOf, RowRef
<1>9. RowsApart' /\ UploadsApart'
  BY <1>2, <1>6 DEF BlobInv, RowsApart, UploadsApart
<1>10. PutsOwn'
  BY <1>2, <1>4, <1>6, <1>7, Shapes DEF BlobInv, PutsOwn
<1>11. PutsApart'
  BY <1>2 DEF BlobInv, PutsApart
<1>12. UploadsOwn'
  BY <1>2, <1>5, <1>6, <1>7, Shapes DEF BlobInv, UploadsOwn
<1> QED
  BY <1>8, <1>9, <1>10, <1>11, <1>12 DEF BlobInv

LEMMA BlobBeginUpload ==
  ASSUME TypeInv, BlobInv, NEW w \in Writers, NEW r \in Refs, NEW key \in Epochs, BeginUpload(w, r, key)
  PROVE  BlobInv'
<1> DEFINE u == [ref |-> r, epoch |-> node.epoch, base |-> node.current]
<1>1. /\ blob' = [blob EXCEPT ![r] = key] /\ upload' = [upload EXCEPT ![w] = u]
      /\ UNCHANGED <<rows, puts>> /\ u.ref = r
  BY DEF BeginUpload
<1> HIDE DEF u
<1>2. key # 0
  BY KeyRotationAssumption DEF Epochs
<1>3. /\ \A v \in Listed : rows[v].ref # r
      /\ \A p \in puts : p.ref # r /\ p.old # r
      /\ \A x \in Writers : upload[x] # None => upload[x].ref # r
  BY FreshFacts DEF BeginUpload
<1>4. /\ blob'[r] = key /\ \A s \in Refs : s # r => blob'[s] = blob[s]
      /\ upload'[w] = u /\ \A x \in Writers : x # w => upload'[x] = upload[x]
  BY <1>1, Shapes
<1>5. Listed' = Listed /\ \A s : RowRef(s)' <=> RowRef(s)
  BY <1>1 DEF Listed, Exists, RowRef
<1>6. VersionBlobsExist'
  BY <1>1, <1>3, <1>4, <1>5, Shapes DEF BlobInv, VersionBlobsExist, KeyOf
<1>7. RowsApart' /\ PutsApart'
  BY <1>1, <1>5 DEF BlobInv, RowsApart, PutsApart
<1>8. PutsOwn'
  BY <1>1, <1>3, <1>4, <1>5, Shapes DEF BlobInv, PutsOwn
<1>9. UploadsOwn'
  <2>1. blob'[u.ref] # 0 /\ ~RowRef(u.ref) /\ \A p \in puts : p.ref # u.ref /\ p.old # u.ref
    BY <1>1, <1>2, <1>3, <1>4 DEF RowRef
  <2>2. \A x \in Writers : x # w /\ upload[x] # None => blob'[upload[x].ref] # 0
    BY <1>3, <1>4, Shapes DEF BlobInv, UploadsOwn
  <2> QED
    BY <1>1, <1>4, <1>5, <2>1, <2>2 DEF BlobInv, UploadsOwn
<1>10. UploadsApart'
  BY <1>1, <1>3, <1>4 DEF BlobInv, UploadsApart
<1> QED
  BY <1>6, <1>7, <1>8, <1>9, <1>10 DEF BlobInv

LEMMA BlobCommitUpload ==
  ASSUME TypeInv, BlobInv, NEW w \in Writers, NEW v \in Vers, CommitUpload(w, v)
  PROVE  BlobInv'
<1>1. /\ ~Exists(v) /\ upload[w] # None /\ upload' = [upload EXCEPT ![w] = None]
      /\ rows' = [rows EXCEPT ![v] = [stamp |-> node.epoch, ref |-> upload[w].ref,
                                      base |-> upload[w].base]]
      /\ UNCHANGED <<blob, puts>>
  BY DEF CommitUpload
<1>2. /\ rows'[v].ref = upload[w].ref /\ \A u \in Vers : u # v => rows'[u] = rows[u]
      /\ upload'[w] = None /\ \A x \in Writers : x # w => upload'[x] = upload[x]
  BY <1>1, Shapes
<1>3. Listed' \subseteq Listed \cup {v}
  BY <1>2 DEF Listed, Exists
<1>4. v \notin Listed
  BY <1>1 DEF Listed
<1>5. /\ blob[upload[w].ref] # 0 /\ ~RowRef(upload[w].ref)
      /\ \A p \in puts : p.ref # upload[w].ref /\ p.old # upload[w].ref
  BY <1>1 DEF BlobInv, UploadsOwn
<1>6. \A s : RowRef(s)' => s = upload[w].ref \/ RowRef(s)
  BY <1>2, <1>3 DEF RowRef, Listed
<1>7. VersionBlobsExist'
  BY <1>1, <1>2, <1>3, <1>5 DEF BlobInv, VersionBlobsExist, KeyOf, Listed
<1>8. RowsApart'
  BY <1>2, <1>3, <1>5 DEF BlobInv, RowsApart, RowRef, Listed
<1>9. PutsOwn' /\ PutsApart'
  BY <1>1, <1>5, <1>6 DEF BlobInv, PutsOwn, PutsApart
<1>10. UploadsOwn'
  BY <1>1, <1>2, <1>6 DEF BlobInv, UploadsOwn, UploadsApart
<1>11. UploadsApart'
  BY <1>2 DEF BlobInv, UploadsApart
<1> QED
  BY <1>7, <1>8, <1>9, <1>10, <1>11 DEF BlobInv

LEMMA BlobRefuseUpload ==
  ASSUME TypeInv, BlobInv, NEW w \in Writers, RefuseUpload(w)
  PROVE  BlobInv'
<1> DEFINE r == upload[w].ref
<1>1. /\ upload[w] # None /\ blob' = [blob EXCEPT ![r] = 0]
      /\ upload' = [upload EXCEPT ![w] = None] /\ UNCHANGED <<rows, puts>>
  BY DEF RefuseUpload
<1>2. /\ upload'[w] = None /\ \A x \in Writers : x # w => upload'[x] = upload[x]
      /\ \A s \in Refs : s # r => blob'[s] = blob[s]
  BY <1>1, Shapes
<1>3. ~RowRef(r) /\ \A p \in puts : p.ref # r /\ p.old # r
  BY <1>1 DEF BlobInv, UploadsOwn
<1>4. \A x \in Writers : x # w /\ upload[x] # None => upload[x].ref # r
  BY <1>1 DEF BlobInv, UploadsApart
<1> HIDE DEF r
<1>5. Listed' = Listed /\ \A s : RowRef(s)' <=> RowRef(s)
  BY <1>1 DEF Listed, Exists, RowRef
<1>6. VersionBlobsExist'
  BY <1>1, <1>2, <1>3, <1>5, Shapes DEF BlobInv, VersionBlobsExist, KeyOf, RowRef
<1>7. RowsApart' /\ PutsApart'
  BY <1>1, <1>5 DEF BlobInv, RowsApart, PutsApart
<1>8. PutsOwn'
  BY <1>1, <1>2, <1>3, <1>5, Shapes DEF BlobInv, PutsOwn
<1>9. UploadsOwn'
  BY <1>1, <1>2, <1>4, <1>5, Shapes DEF BlobInv, UploadsOwn
<1>10. UploadsApart'
  BY <1>2 DEF BlobInv, UploadsApart
<1> QED
  BY <1>6, <1>7, <1>8, <1>9, <1>10 DEF BlobInv

LEMMA BlobInvariant == Spec => []BlobInv
<1>1. Init => BlobInv
  BY DEF Init, BlobInv, VersionBlobsExist, RowsApart, PutsOwn, PutsApart, UploadsOwn,
         UploadsApart, Listed, Exists
<1>2. TypeInv /\ BlobInv /\ [Next]_vars => BlobInv'
  BY BlobFrame, BlobReencrypt, BlobGiveUp, BlobPutCommit, BlobPutEnd, BlobBeginUpload,
     BlobCommitUpload, BlobRefuseUpload
  DEF Next, ManagerStep, PutStep, Open, ListStale, EndCatchUp, SwapConflict, Relist,
      EndRotation, Swap, Rotated, SkipVersion, Abandon, RestoreRead, RestoreWrite, RequireRotation, vars
<1> QED
  BY <1>1, <1>2, TypeInvariant, PTL DEF Spec

\* The bytes of a version are never removed, whatever replacements, refusals,
\* lost answers, crashes and uploads overlap (versions.ts:112-171).
THEOREM BlobsCorrect == Spec => []VersionBlobsExist
<1>1. BlobInv => VersionBlobsExist
  BY DEF BlobInv
<1> QED
  BY <1>1, BlobInvariant, PTL

-----------------------------------------------------------------------------
(* What the precondition of an upload (content-preconditions.ts) gives     *)
(* when every writer sends it: new content is under the live key, and two  *)
(* uploads never replace the same version.                                 *)

\* A body being uploaded is under the key of the epoch its headers announce,
\* unless its writer's share row is outdated.
UploadKeys ==
    \A w \in Writers \ Outdated : upload[w] # None => blob[upload[w].ref] = upload[w].epoch

\* Whoever writes or removes a blob owns it, and so leaves the uploads alone.
LEMMA UploadKeysStep ==
  ASSUME TypeInv, BlobInv, UploadKeys, [Next]_vars
  PROVE  UploadKeys'
<1>1. ASSUME NEW r \in Refs, NEW k,
             blob' = [blob EXCEPT ![r] = k], UNCHANGED upload,
             \A w \in Writers : upload[w] # None => upload[w].ref # r
      PROVE UploadKeys'
  BY <1>1, Shapes DEF UploadKeys
<1>2. ASSUME NEW m \in Managers, NEW v \in Vers, NEW r \in Refs, Reencrypt(m, v, r)
      PROVE UploadKeys'
  BY <1>1, <1>2, FreshFacts DEF Reencrypt
<1>3. ASSUME NEW p \in puts, PutRefuse(p) PROVE UploadKeys'
  <2>1. p.ref \in Refs /\ \A w \in Writers : upload[w] # None => upload[w].ref # p.ref
    BY Shapes DEF BlobInv, UploadsOwn
  <2> QED
    BY <1>1, <1>3, <2>1 DEF PutRefuse
<1>4. ASSUME NEW p \in puts, PutFinish(p) PROVE UploadKeys'
  <2>1. p.old \in Refs /\ \A w \in Writers : upload[w] # None => upload[w].ref # p.old
    BY <1>4, Shapes DEF BlobInv, UploadsOwn, PutFinish
  <2> QED
    BY <1>1, <1>4, <2>1 DEF PutFinish
<1>5. ASSUME NEW w \in Writers, NEW r \in Refs, NEW key \in Epochs, BeginUpload(w, r, key) PROVE UploadKeys'
  <2> DEFINE u == [ref |-> r, epoch |-> node.epoch, base |-> node.current]
  <2>1. /\ blob' = [blob EXCEPT ![r] = key] /\ upload' = [upload EXCEPT ![w] = u]
        /\ u.ref = r /\ u.epoch = node.epoch /\ (w \notin Outdated => key = node.epoch)
    BY <1>5, KeyHeld DEF BeginUpload
  <2> HIDE DEF u
  <2>2. \A x \in Writers : upload[x] # None => upload[x].ref # r
    BY <1>5, FreshFacts DEF BeginUpload
  <2> QED
    BY <2>1, <2>2, Shapes DEF UploadKeys
<1>6. ASSUME NEW w \in Writers, upload' = [upload EXCEPT ![w] = None], UNCHANGED blob
      PROVE UploadKeys'
  BY <1>6, Shapes DEF UploadKeys
<1>7. ASSUME NEW w \in Writers, RefuseUpload(w) PROVE UploadKeys'
  <2>1. \A x \in Writers : x # w /\ upload[x] # None => upload[x].ref # upload[w].ref
    BY <1>7 DEF BlobInv, UploadsApart, RefuseUpload
  <2> QED
    BY <1>7, <2>1, Shapes DEF UploadKeys, RefuseUpload
<1>8. CASE UNCHANGED <<blob, upload>>
  BY <1>8 DEF UploadKeys
<1> QED
  BY <1>2, <1>3, <1>4, <1>5, <1>6, <1>7, <1>8
  DEF Next, ManagerStep, PutStep, Open, ListStale, EndCatchUp, SwapConflict, Relist, EndRotation,
      Swap, Rotated, SkipVersion, Abandon, GiveUp, PutCommit, Replacement, PutCrash, CommitUpload,
      RestoreRead, RestoreWrite, RequireRotation, vars

LEMMA NewRows ==
  ASSUME TypeInv, [Next]_vars, NEW v \in Vers, ~Exists(v), Exists(v)'
  PROVE  \E w \in Writers : CommitUpload(w, v)
<1>1. ASSUME NEW p \in puts, PutCommit(p) PROVE FALSE
  <2>1. v # p.ver
    BY Shapes DEF Listed
  <2> QED
    BY <1>1, <2>1, Shapes DEF PutCommit, Replacement, Exists
<1>2. ASSUME NEW w \in Writers, NEW u \in Vers, CommitUpload(w, u) PROVE u = v
  BY <1>2, Shapes DEF CommitUpload, Exists
<1>3. CASE UNCHANGED rows
  BY <1>3 DEF Exists
<1> QED
  BY <1>1, <1>2, <1>3, ZenonT(60)
  DEF Next, ManagerStep, PutStep, Open, ListStale, EndCatchUp, SwapConflict, Relist, EndRotation,
      Swap, Rotated, SkipVersion, Reencrypt, Abandon, GiveUp, PutRefuse, PutFinish, PutCrash, BeginUpload,
      RefuseUpload, RestoreRead, RestoreWrite, RequireRotation, vars

\* Without legacy clients or writers whose share row is outdated, a new version is
\* under the key of the moment and never written while a rotation is due, however
\* many managers rotate meanwhile (content-preconditions.ts:40-76, nodes.ts:667-713).
THEOREM NewContentCorrect ==
  ASSUME LegacyWriters = {}, Outdated \cap Writers = {}
  PROVE  Spec => NewContentUnderLiveKey
<1>1. Init => UploadKeys
  BY DEF Init, UploadKeys
<1>2. ASSUME TypeInv, UploadKeys, [Next]_vars, NEW v \in Vers, ~Exists(v), Exists(v)'
      PROVE  KeyOf(v)' = node.epoch /\ ~node.rotationRequired
  <2>1. PICK w \in Writers : CommitUpload(w, v)
    BY <1>2, NewRows
  <2>2. /\ upload[w] # None /\ upload[w].epoch = node.epoch /\ ~node.rotationRequired
    BY <2>1 DEF CommitUpload, BaseAccepted
  <2>3. KeyOf(v)' = blob[upload[w].ref]
    <3>1. /\ rows' = [rows EXCEPT ![v] = [stamp |-> node.epoch, ref |-> upload[w].ref,
                                         base |-> upload[w].base]]
          /\ UNCHANGED blob
      BY <2>1 DEF CommitUpload
    <3>2. rows'[v].ref = upload[w].ref
      BY <3>1, <1>2, Shapes
    <3> QED
      BY <3>1, <3>2 DEF KeyOf
  <2> QED
    BY <1>2, <2>2, <2>3 DEF UploadKeys
<1>3. TypeInv /\ UploadKeys /\ [Next]_vars =>
        [\A v \in Vers : ~Exists(v) /\ Exists(v)' =>
            KeyOf(v)' = node.epoch /\ ~node.rotationRequired]_vars
  BY <1>2
<1>4. TypeInv /\ BlobInv /\ UploadKeys /\ [Next]_vars => UploadKeys'
  BY UploadKeysStep
<1> QED
  BY <1>1, <1>3, <1>4, TypeInvariant, BlobInvariant, PTL DEF Spec, NewContentUnderLiveKey

-----------------------------------------------------------------------------
(* The history of versions is a chain: each upload is based on the version *)
(* that is current, and none was based on that one before.                 *)

Chain ==
    /\ NoForkedHistory
    /\ node.current \in Listed \cup {None}
    /\ \A v \in Listed : rows[v].base \in Listed \cup {None} /\ rows[v].base # node.current

LEMMA ChainCommit ==
  ASSUME TypeInv, Chain, NEW w \in Writers, NEW v \in Vers, CommitUpload(w, v),
         upload[w].base = node.current
  PROVE  Chain'
<1>1. /\ v \notin Listed /\ v # None /\ node'.current = v
      /\ rows'[v].base = node.current /\ rows'[v] # None
      /\ \A u \in Vers : u # v => rows'[u] = rows[u]
  BY KeyRotationAssumption, Shapes
  DEF CommitUpload, Exists, Listed, TypeInv, TypeOK, Node, Row
<1>2. Listed' = Listed \cup {v}
  BY <1>1 DEF Listed, Exists
<1>3. NoForkedHistory'
  BY <1>1, <1>2 DEF Chain, NoForkedHistory, Listed
<1>4. \A u \in Listed' : rows'[u].base \in Listed' \cup {None} /\ rows'[u].base # node'.current
  BY <1>1, <1>2 DEF Chain, Listed
<1> QED
  BY <1>1, <1>2, <1>3, <1>4 DEF Chain

LEMMA ChainPut ==
  ASSUME TypeInv, Chain, NEW p \in puts, PutCommit(p)
  PROVE  Chain'
<1>1. node'.current = node.current
  BY DEF PutCommit, Replacement, TypeInv, TypeOK, Node
<1>2. \A v \in Listed : rows'[v].base = rows[v].base
  BY Shapes DEF PutCommit, Replacement, Listed, Row
<1>3. Listed' = Listed
  <2> DEFINE row == [rows[p.ver] EXCEPT !.stamp = node.epoch, !.ref = p.ref]
  <2>0. row \in Row
    BY Shapes, ZenonT(60) DEF Row, TypeInv, TypeOK, Node
  <2> HIDE DEF row
  <2>1. p.ver \in Listed /\ rows'[p.ver] # None
    <3>1. rows' = [rows EXCEPT ![p.ver] = row]
      BY DEF PutCommit, Replacement, row
    <3> QED
      BY <2>0, <3>1, KeyRotationAssumption, Shapes DEF Listed
  <2>2. \A v \in Vers : v # p.ver => rows'[v] = rows[v]
    BY Shapes DEF PutCommit, Replacement
  <2> QED
    BY <2>1, <2>2 DEF Listed, Exists
<1> QED
  BY <1>1, <1>2, <1>3 DEF Chain, NoForkedHistory

\* No lost update, for any number of managers and writers, as long as every writer
\* sends its base and no version is restored (a restored version may rightly be
\* continued twice).  content-preconditions.ts:65-76.
THEOREM HistoryCorrect ==
  ASSUME LegacyWriters = {}, Restorers = {}
  PROVE  Spec => []NoForkedHistory
<1>1. Init => Chain
  BY DEF Init, Chain, NoForkedHistory, Listed, Exists
<1>2. ASSUME TypeInv, Chain, [Next]_vars PROVE Chain'
  <2>1. ASSUME NEW w \in Writers, NEW v \in Vers, CommitUpload(w, v) PROVE Chain'
    BY <1>2, <2>1, ChainCommit DEF CommitUpload, BaseAccepted
  <2>2. ASSUME NEW p \in puts, PutCommit(p) PROVE Chain'
    BY <1>2, <2>2, ChainPut
  <2>3. ASSUME UNCHANGED rows, node'.current = node.current PROVE Chain'
    BY <1>2, <2>3 DEF Chain, NoForkedHistory, Listed, Exists
  <2>4. ASSUME NEW m \in Managers, NEW answered \in BOOLEAN, Swap(m, answered) PROVE Chain'
    BY <1>2, <2>3, <2>4, SwapNode DEF Swap, Rotated
  <2>5. CASE RequireRotation
    BY <1>2, <2>3, <2>5 DEF RequireRotation, TypeInv, TypeOK, Node
  <2>6. CASE UNCHANGED <<node, rows>>
    BY <2>3, <2>6
  <2> QED
    BY <1>2, <2>1, <2>2, <2>4, <2>5, <2>6, ZenonT(60)
    DEF Next, ManagerStep, PutStep, Open, ListStale, EndCatchUp, SwapConflict, Relist,
        EndRotation, SkipVersion, Reencrypt, Abandon, GiveUp, PutRefuse, PutFinish, PutCrash,
        BeginUpload, RefuseUpload, vars
<1>3. Chain => NoForkedHistory
  BY DEF Chain
<1> QED
  BY <1>1, <1>2, <1>3, TypeInvariant, PTL DEF Spec

-----------------------------------------------------------------------------
(* What key rotation gives.  With one comparison more, between the key of  *)
(* the bytes that a request sends and the key of the node at its commit,   *)
(* the protocol implements RotationPromise whatever overlaps: any number   *)
(* of managers, patient or not, of writers that send their base or not, of *)
(* restores and of server crashes.  PUT /versions/:id/content and a legacy *)
(* upload do not compare: KeyRotation_overlap.cfg, KeyRotation_legacy.cfg. *)
(* The managers are up to date: each rotates with the key of the epoch it  *)
(* was told, and names that epoch (else KeyRotation_outdated.cfg).         *)
(* One manager who waits for the answers of its requests, and writers who  *)
(* send their base, need no such comparison.                               *)

\* Each content that is committed is under the key of the moment.
WritesCurrent == \A v \in Vers : rows'[v] # rows[v] => blob'[rows'[v].ref] = node.epoch

\* No share row carries a replaced key, and every rotation names its epoch.
UpToDate == Outdated = {} /\ LegacyManagers = {}

\* Each manager's key is that of the epoch it was told.
KeysTold == \A m \in Managers : mgr[m].key = mgr[m].epoch

OneManager ==
    /\ \A m, n \in Managers : m = n
    /\ Impatient = {} /\ LegacyWriters = {} /\ UpToDate

\* Whether the row of a version is behind the node's epoch.
Behind(v) == rows[v].stamp # node.epoch

\* The stamp of a row names the key of its bytes, which is the current one or
\* the one in the slot.
StampsTrue ==
    /\ node.epoch = node.slot + 1
    /\ \A v \in Listed : KeyOf(v) = rows[v].stamp /\ rows[v].stamp \in {node.epoch, node.slot}

\* A request that its manager waits for is the only one of that manager; once it is
\* committed its version is level, unless another manager has rotated since.
PutsFine ==
    \A p \in puts : p.awaited =>
        /\ mgr[p.by].at = p.ver
        /\ mgr[p.by].pc \in {"catchUp", "reencrypt"}
        /\ p.old # None /\ mgr[p.by].to = node.epoch => ~Behind(p.ver)
        /\ \A q \in puts : q.awaited /\ q.by = p.by => q = p

\* What a manager's run k may rely on, as long as nobody else has rotated: its list covers
\* every version behind unless it counted a failure, and neither a swap nor a rotation
\* reported complete leaves one behind.
RunFine(k) ==
    /\ k.pc \in {"opened", "catchUp", "swap"} => k.epoch <= node.epoch /\ k.to = k.epoch
    /\ k.pc \in {"relist", "reencrypt"} => k.to <= node.epoch
    /\ k.pc \in {"catchUp", "reencrypt"} /\ k.to = node.epoch =>
         k.failed \/ \A v \in Listed : Behind(v) => v \in k.todo \/ v = k.at
    /\ k.pc = "swap" /\ k.epoch = node.epoch => \A v \in Listed : ~Behind(v)
    /\ k.done <= node.epoch
    /\ k.done = node.epoch => \A v \in Listed : ~Behind(v)

PromiseInv == StampsTrue /\ PutsFine /\ \A m \in Managers : RunFine(mgr[m])

-----------------------------------------------------------------------------
(* What a step does to the versions and to their bytes.                    *)

Kept(v) == rows'[v] = rows[v] /\ blob'[rows'[v].ref] = blob[rows[v].ref]

AllKept == Listed' = Listed /\ \A v \in Listed : Kept(v)

LEMMA BlobKept ==
  ASSUME TypeInv, NEW r, NEW k, UNCHANGED rows, blob' = [blob EXCEPT ![r] = k], ~RowRef(r)
  PROVE  AllKept
<1>1. \A v \in Listed : rows[v].ref \in Refs /\ rows[v].ref # r
  BY Shapes DEF RowRef
<1> QED
  BY <1>1, Shapes DEF AllKept, Kept, Listed, Exists

\* Only a committed replacement and a committed upload touch the versions.
LEMMA VersionsKept ==
  ASSUME TypeInv, BlobInv, [Next]_vars
  PROVE  \/ AllKept
         \/ \E p \in puts : PutCommit(p)
         \/ \E w \in Writers, v \in Vers : CommitUpload(w, v)
<1>1. ASSUME NEW m \in Managers, NEW v \in Vers, NEW r \in Refs, Reencrypt(m, v, r) PROVE AllKept
  <2>1. ~RowRef(r)
    BY <1>1, FreshFacts DEF Reencrypt, RowRef
  <2> QED
    BY <1>1, <2>1, BlobKept DEF Reencrypt
<1>2. ASSUME NEW p \in puts, PutRefuse(p) PROVE AllKept
  <2>1. ~RowRef(p.ref)
    BY <1>2 DEF BlobInv, PutsOwn, PutRefuse
  <2> QED
    BY <1>2, <2>1, BlobKept DEF PutRefuse
<1>3. ASSUME NEW p \in puts, PutFinish(p) PROVE AllKept
  <2>1. ~RowRef(p.old)
    BY <1>3 DEF BlobInv, PutsOwn, PutFinish
  <2> QED
    BY <1>3, <2>1, BlobKept DEF PutFinish
<1>4. ASSUME NEW w \in Writers, NEW r \in Refs, NEW key \in Epochs, BeginUpload(w, r, key) PROVE AllKept
  <2>1. ~RowRef(r)
    BY <1>4, FreshFacts DEF BeginUpload, RowRef
  <2> QED
    BY <1>4, <2>1, BlobKept DEF BeginUpload
<1>5. ASSUME NEW w \in Writers, RefuseUpload(w) PROVE AllKept
  <2>1. ~RowRef(upload[w].ref)
    BY <1>5 DEF BlobInv, UploadsOwn, RefuseUpload
  <2> QED
    BY <1>5, <2>1, BlobKept DEF RefuseUpload
<1>6. UNCHANGED <<rows, blob>> => AllKept
  BY DEF AllKept, Kept, Listed, Exists
<1> QED
  BY <1>1, <1>2, <1>3, <1>4, <1>5, <1>6, ZenonT(60)
  DEF Next, ManagerStep, PutStep, Open, ListStale, EndCatchUp, SwapConflict, Relist,
      EndRotation, Swap, Rotated, SkipVersion, Abandon, GiveUp, PutCrash, RestoreRead, RestoreWrite,
      RequireRotation, vars

\* A committed replacement levels its version and leaves the others alone.
LEMMA ReplacedVersion ==
  ASSUME TypeInv, NEW p \in puts, PutCommit(p)
  PROVE  /\ Listed' = Listed /\ p.ver \in Listed
         /\ \A v \in Listed : v # p.ver => Kept(v)
         /\ rows'[p.ver].stamp = node.epoch /\ blob'[rows'[p.ver].ref] = blob[p.ref]
         /\ node'.epoch = node.epoch /\ node'.slot = node.slot
         /\ rows[p.ver].stamp < node.epoch
<1> DEFINE row == [rows[p.ver] EXCEPT !.stamp = node.epoch, !.ref = p.ref]
<1>1. /\ rows' = [rows EXCEPT ![p.ver] = row] /\ UNCHANGED blob /\ p.old = None
      /\ rows[p.ver].stamp < node.epoch
      /\ node' = IF node.current = p.ver THEN [node EXCEPT !.ref = p.ref] ELSE node
  BY DEF PutCommit, Replacement
<1>2. row \in Row /\ row.stamp = node.epoch /\ row.ref = p.ref
  BY Shapes, ZenonT(60) DEF Row, TypeInv, TypeOK, Node
<1> HIDE DEF row
<1>3. p.ver \in Vers /\ p.ver \in Listed /\ rows'[p.ver] = row /\ row # None
  BY <1>1, <1>2, KeyRotationAssumption, Shapes DEF Listed
<1>4. \A v \in Vers : v # p.ver => rows'[v] = rows[v]
  BY <1>1, Shapes
<1>5. Listed' = Listed
  BY <1>3, <1>4 DEF Listed, Exists
<1>6. node'.epoch = node.epoch /\ node'.slot = node.slot
  BY <1>1 DEF TypeInv, TypeOK, Node
<1> QED
  BY <1>1, <1>2, <1>3, <1>4, <1>5, <1>6 DEF Kept, Listed

\* A committed upload adds a version, stamped with the key of the moment.
LEMMA UploadedVersion ==
  ASSUME TypeInv, NEW w \in Writers, NEW v \in Vers, CommitUpload(w, v)
  PROVE  /\ Listed' = Listed \cup {v} /\ v \notin Listed
         /\ \A u \in Listed : Kept(u)
         /\ rows'[v] # rows[v] /\ rows'[v].stamp = node.epoch
         /\ node'.epoch = node.epoch /\ node'.slot = node.slot
         /\ UNCHANGED blob /\ rows'[v].ref = upload[w].ref
<1> DEFINE row == [stamp |-> node.epoch, ref |-> upload[w].ref, base |-> upload[w].base]
<1>1. /\ ~Exists(v) /\ upload[w] # None
      /\ rows' = [rows EXCEPT ![v] = row]
      /\ node' = [node EXCEPT !.current = v, !.ref = upload[w].ref]
      /\ UNCHANGED blob
  BY DEF CommitUpload
<1>2. row \in Row /\ row.stamp = node.epoch /\ row.ref = upload[w].ref
  BY <1>1 DEF TypeInv, TypeOK, Node, Row, Upload
<1> HIDE DEF row
<1>3. rows'[v] = row /\ row # None /\ \A u \in Vers : u # v => rows'[u] = rows[u]
  BY <1>1, <1>2, KeyRotationAssumption, Shapes
<1>4. Listed' = Listed \cup {v} /\ v \notin Listed /\ rows'[v] # rows[v]
  BY <1>1, <1>3 DEF Listed, Exists
<1>5. \A u \in Listed : Kept(u)
  BY <1>1, <1>3, <1>4 DEF Kept, Listed
<1>6. node'.epoch = node.epoch /\ node'.slot = node.slot
  BY <1>1 DEF TypeInv, TypeOK, Node
<1> QED
  BY <1>1, <1>2, <1>3, <1>4, <1>5, <1>6

-----------------------------------------------------------------------------
(* The invariant, step by step.                                            *)

\* The types of the manager's run and of the node's numbers.
LEMMA RunTypes ==
  ASSUME TypeInv
  PROVE  /\ mgr \in [Managers -> Manager] /\ \A m \in Managers : mgr[m] \in Manager
         /\ node.epoch \in Nat /\ node.slot \in Nat /\ node.epoch > 0
         /\ \A p \in puts : p \in Put /\ p.by \in Managers /\ p.ver \in Vers /\ p.ver # None
         /\ \A v \in Listed : rows[v].stamp \in Nat /\ rows[v].stamp > 0
         /\ \A m \in Managers : mgr[m].done \in Nat /\ mgr[m].to \in Nat /\ mgr[m].epoch \in Nat
  BY KeyRotationAssumption
  DEF TypeInv, TypeOK, Node, Put, Row, Manager, Epochs, Keys, Listed, Exists

\* While a manager waits for nothing, none of its requests is awaited.
LEMMA NothingAwaited ==
  ASSUME TypeInv, PutsFine, NEW m \in Managers,
         mgr[m].at = None \/ mgr[m].pc \notin {"catchUp", "reencrypt"}
  PROVE  \A p \in puts : p.awaited => p.by # m
BY RunTypes DEF PutsFine

\* A step of a client alone, which waits for nothing: its run is now k.
LEMMA ClientStep ==
  ASSUME TypeInv, PromiseInv, NEW m \in Managers, NEW k,
         \A p \in puts : p.awaited => p.by # m,
         mgr' = [mgr EXCEPT ![m] = k], RunFine(k), UNCHANGED <<node, rows, blob>>,
         \A p \in puts' : p.awaited => p \in puts
  PROVE  PromiseInv'
<1>1. Listed' = Listed /\ \A v \in Vers : Behind(v)' <=> Behind(v)
  BY DEF Listed, Exists, Behind
<1>2. StampsTrue'
  BY <1>1 DEF PromiseInv, StampsTrue, KeyOf
<1>3. mgr'[m] = k /\ \A n \in Managers : n # m => mgr'[n] = mgr[n]
  BY RunTypes
<1>4. PutsFine'
  BY <1>1, <1>3, RunTypes DEF PromiseInv, PutsFine
<1>5. ASSUME NEW n \in Managers PROVE RunFine(mgr[n])'
  <2>1. RunFine(mgr'[n])
    BY <1>3 DEF PromiseInv
  <2> QED
    BY <1>1, <2>1 DEF RunFine, Listed
<1> QED
  BY <1>2, <1>4, <1>5 DEF PromiseInv

LEMMA PromiseClient ==
  ASSUME UpToDate, TypeInv, PromiseInv, NEW m \in Managers,
         \/ \E goal \in {"repair", "rotate"}, key \in Epochs : Open(m, goal, key)
         \/ ListStale(m) \/ EndCatchUp(m) \/ SwapConflict(m) \/ Relist(m) \/ EndRotation(m)
         \/ Abandon(m) \/ \E v \in Vers : SkipVersion(m, v)
  PROVE  PromiseInv'
<1>0. /\ mgr[m] \in Manager /\ RunFine(mgr[m]) /\ StampsTrue
      /\ mgr[m].at = None \/ mgr[m].pc \notin {"catchUp", "reencrypt"}
           => \A p \in puts : p.awaited => p.by # m
  BY RunTypes, NothingAwaited DEF PromiseInv
<1>i. ASSUME Idle(m), mgr[m].at = None \/ mgr[m].pc \notin {"catchUp", "reencrypt"},
             UNCHANGED <<node, rows, blob>>, UNCHANGED puts
      PROVE  PromiseInv'
  <2> DEFINE k == [mgr[m] EXCEPT !.pc = "idle", !.todo = {}, !.at = None]
  <2>1. k.pc = "idle" /\ k.done = mgr[m].done
    BY <1>0 DEF Manager
  <2>2. mgr' = [mgr EXCEPT ![m] = k]
    BY <1>i DEF Idle
  <2> HIDE DEF k
  <2>3. RunFine(k)
    BY <1>0, <2>1 DEF RunFine
  <2> QED
    BY <1>0, <1>i, <2>2, <2>3, ClientStep
<1>1. ASSUME NEW goal \in {"repair", "rotate"}, NEW key \in Epochs, Open(m, goal, key) PROVE PromiseInv'
  <2>1. PICK g \in {"repair", "rotate"} : mgr' = [mgr EXCEPT ![m] =
            [@ EXCEPT !.pc = IF node.slot = 0 THEN "swap" ELSE "opened",
                      !.goal = g, !.epoch = node.epoch, !.slot = node.slot,
                      !.key = key, !.to = key, !.failed = FALSE]]
    BY <1>1 DEF Open
  <2> DEFINE k == [mgr[m] EXCEPT !.pc = IF node.slot = 0 THEN "swap" ELSE "opened",
                      !.goal = g, !.epoch = node.epoch, !.slot = node.slot,
                      !.key = key, !.to = key, !.failed = FALSE]
  <2>a. key = node.epoch
    BY <1>1, KeyHeld DEF Open, UpToDate
  <2>2. /\ k.pc = (IF node.slot = 0 THEN "swap" ELSE "opened") /\ k.epoch = node.epoch
        /\ k.to = node.epoch /\ k.done = mgr[m].done
    BY <1>0, <2>a DEF Manager
  <2>3. mgr' = [mgr EXCEPT ![m] = k] /\ UNCHANGED <<node, rows, blob>> /\ UNCHANGED puts
    BY <1>1, <2>1 DEF Open
  <2> HIDE DEF k
  <2>4. node.slot = 0 => \A v \in Listed : ~Behind(v)
    BY <1>0, RunTypes DEF StampsTrue, Behind
  <2>5. RunFine(k)
    BY <1>0, <2>2, <2>4, RunTypes DEF RunFine
  <2>6. \A p \in puts : p.awaited => p.by # m
    BY <1>0, <1>1 DEF Open
  <2> QED
    BY <2>3, <2>5, <2>6, ClientStep
<1>2. ASSUME ListStale(m) \/ Relist(m), ~Idle(m) PROVE PromiseInv'
  <2>1. PICK pc \in {"catchUp", "reencrypt"} :
          /\ mgr' = [mgr EXCEPT ![m] = [@ EXCEPT !.pc = pc, !.todo = Stale(mgr[m].to)]]
          /\ mgr[m].pc = IF pc = "catchUp" THEN "opened" ELSE "relist"
    BY <1>0, <1>2 DEF ListStale, Relist, RunFine
  <2> DEFINE k == [mgr[m] EXCEPT !.pc = pc, !.todo = Stale(mgr[m].to)]
  <2>2. /\ k.pc = pc /\ k.todo = Stale(mgr[m].to) /\ k.epoch = mgr[m].epoch
        /\ k.to = mgr[m].to /\ k.done = mgr[m].done
    BY <1>0 DEF Manager
  <2>3. mgr' = [mgr EXCEPT ![m] = k] /\ UNCHANGED <<node, rows, blob>> /\ UNCHANGED puts
    BY <1>2, <2>1 DEF ListStale, Relist
  <2> HIDE DEF k
  <2>4. \A v \in Listed : Behind(v) => v \in Stale(node.epoch)
    BY <1>0, RunTypes DEF StampsTrue, Behind, Stale
  <2>5. /\ pc = "catchUp" => mgr[m].epoch <= node.epoch /\ mgr[m].to = mgr[m].epoch
        /\ pc = "reencrypt" => mgr[m].to <= node.epoch
    BY <1>0, <2>1 DEF RunFine
  <2>6. RunFine(k)
    BY <1>0, <2>2, <2>4, <2>5 DEF RunFine
  <2>7. \A p \in puts : p.awaited => p.by # m
    BY <1>0, <1>2 DEF ListStale, Relist
  <2> QED
    BY <2>3, <2>6, <2>7, ClientStep
<1>2a. ASSUME ListStale(m), Idle(m) PROVE PromiseInv'
  BY <1>i, <1>2a DEF ListStale
<1>2b. Relist(m) => ~Idle(m)
  <2>1. ASSUME Relist(m), Idle(m) PROVE FALSE
    <3>1. mgr'[m].pc = "reencrypt"
      <4>1. mgr'[m] = [mgr[m] EXCEPT !.pc = "reencrypt", !.todo = Stale(mgr[m].to)]
        BY <2>1, RunTypes DEF Relist
      <4> QED
        BY <1>0, <4>1 DEF Manager
    <3>2. mgr'[m].pc = "idle"
      BY <1>0, <2>1, RunTypes DEF Idle, Manager
    <3> QED
      BY <3>1, <3>2
  <2> QED
    BY <2>1
<1>3. ASSUME EndCatchUp(m) PROVE PromiseInv'
  <2>1. CASE Idle(m)
    BY <1>i, <1>3, <2>1 DEF EndCatchUp
  <2>2. CASE mgr' = [mgr EXCEPT ![m] = [@ EXCEPT !.pc = "swap"]] /\ ~mgr[m].failed
    <3> DEFINE k == [mgr[m] EXCEPT !.pc = "swap"]
    <3>1. k.pc = "swap" /\ k.epoch = mgr[m].epoch /\ k.to = mgr[m].to /\ k.done = mgr[m].done
      BY <1>0 DEF Manager
    <3>2. mgr' = [mgr EXCEPT ![m] = k] /\ UNCHANGED <<node, rows, blob>> /\ UNCHANGED puts
      BY <1>3, <2>2 DEF EndCatchUp
    <3> HIDE DEF k
    <3>3. RunFine(k)
      BY <1>0, <1>3, <2>2, <3>1, KeyRotationAssumption DEF RunFine, EndCatchUp, Listed
    <3> QED
      BY <1>0, <1>3, <3>2, <3>3, ClientStep DEF EndCatchUp
  <2> QED
    BY <1>3, <2>1, <2>2 DEF EndCatchUp
<1>4. ASSUME SwapConflict(m) \/ Abandon(m) PROVE PromiseInv'
  BY <1>i, <1>4 DEF SwapConflict, Abandon
<1>5. ASSUME EndRotation(m) PROVE PromiseInv'
  <2> DEFINE d == IF mgr[m].failed THEN mgr[m].done ELSE mgr[m].to
             k == [mgr[m] EXCEPT !.pc = "idle", !.done = d]
  <2>1. k.pc = "idle" /\ k.done = d
    BY <1>0 DEF Manager
  <2>2. mgr' = [mgr EXCEPT ![m] = k] /\ UNCHANGED <<node, rows, blob>> /\ UNCHANGED puts
    BY <1>5 DEF EndRotation
  <2>3. d <= node.epoch /\ (d = node.epoch => \A v \in Listed : ~Behind(v))
    BY <1>0, <1>5, RunTypes, KeyRotationAssumption DEF RunFine, EndRotation, Listed
  <2> HIDE DEF k, d
  <2>4. RunFine(k)
    BY <2>1, <2>3 DEF RunFine
  <2> QED
    BY <1>0, <1>5, <2>2, <2>4, ClientStep DEF EndRotation
<1>6. ASSUME NEW v \in Vers, SkipVersion(m, v) PROVE PromiseInv'
  <2> DEFINE k == [mgr[m] EXCEPT !.todo = mgr[m].todo \ {v}, !.failed = TRUE]
  <2>1. /\ k.pc = mgr[m].pc /\ k.epoch = mgr[m].epoch /\ k.failed
        /\ k.to = mgr[m].to /\ k.done = mgr[m].done
    BY <1>0 DEF Manager
  <2>2. mgr' = [mgr EXCEPT ![m] = k] /\ UNCHANGED <<node, rows, blob>> /\ UNCHANGED puts
    BY <1>6 DEF SkipVersion
  <2> HIDE DEF k
  <2>3. RunFine(k)
    BY <1>0, <2>1 DEF RunFine
  <2> QED
    BY <1>0, <1>6, <2>2, <2>3, ClientStep DEF SkipVersion
<1> QED
  BY <1>1, <1>2, <1>2a, <1>2b, <1>3, <1>4, <1>5, <1>6

\* A manager that waits no longer counts a failure or stops; its request goes on.
LEMMA PromiseGiveUp ==
  ASSUME TypeInv, PromiseInv, NEW m \in Managers, NEW stop \in BOOLEAN, GiveUp(m, stop)
  PROVE  PromiseInv'
<1>1. /\ UNCHANGED <<node, rows, blob>>
      /\ puts' = {IF p.by = m THEN [p EXCEPT !.awaited = FALSE] ELSE p : p \in puts}
  BY DEF GiveUp
<1>2. mgr[m] \in Manager /\ RunFine(mgr[m]) /\ \A p \in puts : p \in Put
  BY RunTypes DEF PromiseInv
<1>3. PICK k : /\ mgr' = [mgr EXCEPT ![m] = k] /\ k.done = mgr[m].done
               /\ \/ k.pc = "idle"
                  \/ /\ k.pc = mgr[m].pc /\ k.epoch = mgr[m].epoch /\ k.to = mgr[m].to
                     /\ k.failed
  <2>1. CASE stop
    <3> DEFINE k == [mgr[m] EXCEPT !.pc = "idle", !.todo = {}, !.at = None]
    <3>1. k.pc = "idle" /\ k.done = mgr[m].done /\ mgr' = [mgr EXCEPT ![m] = k]
      BY <1>2, <2>1 DEF GiveUp, Idle, Manager
    <3> QED
      BY <3>1
  <2>2. CASE ~stop
    <3> DEFINE k == [mgr[m] EXCEPT !.at = None, !.failed = TRUE]
    <3>1. /\ k.pc = mgr[m].pc /\ k.epoch = mgr[m].epoch /\ k.to = mgr[m].to /\ k.failed
          /\ k.done = mgr[m].done
      BY <1>2 DEF Manager
    <3>2. mgr' = [mgr EXCEPT ![m] = k]
      BY <2>2 DEF GiveUp
    <3> QED
      BY <3>1, <3>2
  <2> QED
    BY <2>1, <2>2
<1>4. RunFine(k)
  BY <1>2, <1>3 DEF RunFine
<1>5. mgr'[m] = k /\ \A n \in Managers : n # m => mgr'[n] = mgr[n]
  BY <1>3, RunTypes
<1>6. \A p \in puts' : p.awaited => p \in puts /\ p.by # m
  BY <1>1, <1>2 DEF Put
<1>7. Listed' = Listed /\ \A v \in Vers : Behind(v)' <=> Behind(v)
  BY <1>1 DEF Listed, Exists, Behind
<1>8. StampsTrue'
  BY <1>1, <1>7 DEF PromiseInv, StampsTrue, KeyOf
<1>9. PutsFine'
  BY <1>1, <1>5, <1>6, <1>7, RunTypes DEF PromiseInv, PutsFine
<1>10. ASSUME NEW n \in Managers PROVE RunFine(mgr[n])'
  <2>1. RunFine(mgr'[n])
    BY <1>4, <1>5 DEF PromiseInv
  <2> QED
    BY <1>1, <1>7, <2>1 DEF RunFine, Listed
<1> QED
  BY <1>8, <1>9, <1>10 DEF PromiseInv

\* POST /rotate installs the next key: every version is level, so each falls
\* exactly one behind; the runs of the other managers are overtaken.
LEMMA PromiseSwap ==
  ASSUME UpToDate, KeysTold, TypeInv, PromiseInv, NEW m \in Managers,
         NEW answered \in BOOLEAN, Swap(m, answered)
  PROVE  PromiseInv'
<1>1. /\ mgr[m].pc = "swap" /\ mgr[m].epoch = node.epoch /\ UNCHANGED <<rows, blob, puts>>
      /\ mgr[m].key = node.epoch
  BY DEF Swap, Rotated, UpToDate, KeysTold
<1>2. node'.epoch = node.epoch + 1 /\ node'.slot = node.epoch /\ node.epoch \in Nat
  BY <1>1, SwapNode, RunTypes
<1>3. /\ \A p \in puts : p.awaited => p.by # m
      /\ RunFine(mgr[m]) /\ mgr[m] \in Manager /\ StampsTrue
  BY <1>1, NothingAwaited, RunTypes DEF PromiseInv
<1>4. Listed' = Listed /\ \A v \in Listed : rows[v].stamp = node.epoch
  BY <1>1, <1>3 DEF RunFine, Behind, Listed, Exists
<1>5. StampsTrue'
  BY <1>1, <1>2, <1>3, <1>4 DEF StampsTrue, KeyOf
<1>6. PICK k : /\ mgr' = [mgr EXCEPT ![m] = k] /\ k.done = mgr[m].done
               /\ k.pc = "idle" \/ (k.pc = "relist" /\ k.to = node'.epoch)
  <2>1. CASE answered
    <3> DEFINE k == [mgr[m] EXCEPT !.pc = "relist", !.to = node'.epoch]
    <3>1. k.pc = "relist" /\ k.to = node'.epoch /\ k.done = mgr[m].done
      BY <1>3 DEF Manager
    <3>2. mgr' = [mgr EXCEPT ![m] = k]
      BY <2>1 DEF Swap, Rotated
    <3> QED
      BY <3>1, <3>2
  <2>2. CASE ~answered
    <3> DEFINE k == [mgr[m] EXCEPT !.pc = "idle", !.todo = {}, !.at = None]
    <3>1. k.pc = "idle" /\ k.done = mgr[m].done
      BY <1>3 DEF Manager
    <3>2. mgr' = [mgr EXCEPT ![m] = k]
      BY <2>2 DEF Swap, Rotated, Idle
    <3> QED
      BY <3>1, <3>2
  <2> QED
    BY <2>1, <2>2
<1>7. mgr'[m] = k /\ \A n \in Managers : n # m => mgr'[n] = mgr[n]
  BY <1>6, RunTypes
<1>8. \A n \in Managers : mgr[n].done < node'.epoch
  BY <1>2, RunTypes DEF PromiseInv, RunFine
<1>9. PutsFine'
  <2>1. ASSUME NEW p \in puts, p.awaited PROVE mgr'[p.by] = mgr[p.by] /\ mgr[p.by].to # node'.epoch
    <3>1. p.by \in Managers /\ mgr'[p.by] = mgr[p.by] /\ mgr[p.by].pc \in {"catchUp", "reencrypt"}
      BY <1>3, <1>7, <2>1, RunTypes DEF PromiseInv, PutsFine
    <3> QED
      BY <1>2, <3>1, RunTypes DEF PromiseInv, RunFine
  <2> QED
    BY <1>1, <2>1 DEF PromiseInv, PutsFine
<1>10. ASSUME NEW n \in Managers PROVE RunFine(mgr[n])'
  <2>1. CASE n = m
    BY <1>2, <1>6, <1>7, <1>8, <2>1, RunTypes DEF RunFine
  <2>2. CASE n # m
    <3>1. RunFine(mgr[n]) /\ mgr'[n] = mgr[n]
      BY <1>7, <2>2 DEF PromiseInv
    <3>2. /\ mgr[n].to \in Nat /\ mgr[n].epoch \in Nat /\ mgr[n].done \in Nat
          /\ mgr[n].done < node'.epoch
      BY <1>8, RunTypes
    <3> QED
      BY <1>2, <3>1, <3>2 DEF RunFine
  <2> QED
    BY <2>1, <2>2
<1> QED
  BY <1>5, <1>9, <1>10 DEF PromiseInv

\* A version whose bytes are sent again leaves the list and is waited for.
LEMMA PromiseReencrypt ==
  ASSUME TypeInv, BlobInv, PromiseInv, NEW m \in Managers, NEW v \in Vers,
         NEW r \in Refs, Reencrypt(m, v, r)
  PROVE  PromiseInv'
<1> DEFINE n == [by |-> m, ver |-> v, ref |-> r, old |-> None, awaited |-> TRUE]
           k == [mgr[m] EXCEPT !.at = v, !.todo = mgr[m].todo \ {v}]
<1>1. /\ mgr[m].pc \in {"catchUp", "reencrypt"} /\ mgr[m].at = None
      /\ blob' = [blob EXCEPT ![r] = mgr[m].to] /\ puts' = puts \cup {n}
      /\ mgr' = [mgr EXCEPT ![m] = k] /\ UNCHANGED <<node, rows>> /\ Fresh(r)
  BY DEF Reencrypt
<1>2. /\ n.by = m /\ n.ver = v /\ n.ref = r /\ n.old = None /\ n.awaited
      /\ k.pc = mgr[m].pc /\ k.at = v /\ k.todo = mgr[m].todo \ {v} /\ k.to = mgr[m].to
      /\ k.epoch = mgr[m].epoch /\ k.failed = mgr[m].failed /\ k.done = mgr[m].done
  BY RunTypes DEF Manager
<1> HIDE DEF n, k
<1>3. (\A p \in puts : p.awaited => p.by # m) /\ RunFine(mgr[m]) /\ StampsTrue
  BY <1>1, NothingAwaited DEF PromiseInv
<1>4. AllKept
  <2>1. ~RowRef(r)
    BY <1>1, FreshFacts DEF RowRef
  <2> QED
    BY <1>1, <2>1, BlobKept
<1>5. Listed' = Listed /\ \A u \in Vers : Behind(u)' <=> Behind(u)
  BY <1>1 DEF Listed, Exists, Behind
<1>6. StampsTrue'
  BY <1>1, <1>3, <1>4 DEF StampsTrue, AllKept, Kept, KeyOf
<1>7. mgr'[m] = k /\ \A o \in Managers : o # m => mgr'[o] = mgr[o]
  BY <1>1, RunTypes
<1>8. PutsFine'
  <2>1. ASSUME NEW p \in puts', p.awaited
        PROVE  /\ mgr'[p.by].at = p.ver
               /\ mgr'[p.by].pc \in {"catchUp", "reencrypt"}
               /\ p.old # None /\ mgr'[p.by].to = node.epoch => ~Behind(p.ver)
               /\ \A q \in puts' : q.awaited /\ q.by = p.by => q = p
    <3>1. CASE p = n
      BY <1>1, <1>2, <1>3, <1>7, <3>1
    <3>2. CASE p # n
      BY <1>1, <1>2, <1>3, <1>7, <2>1, <3>2, RunTypes DEF PromiseInv, PutsFine
    <3> QED
      BY <3>1, <3>2
  <2> QED
    BY <1>1, <1>5, <2>1 DEF PutsFine, Behind
<1>9. RunFine(k)
  <2>1. mgr[m].to = node.epoch => mgr[m].failed \/ \A u \in Listed : Behind(u) => u \in mgr[m].todo
    BY <1>1, <1>3, KeyRotationAssumption DEF RunFine, Listed
  <2>2. k.to = node.epoch => k.failed \/ \A u \in Listed : Behind(u) => u \in k.todo \/ u = k.at
    BY <1>2, <2>1
  <2> QED
    BY <1>1, <1>2, <1>3, <2>2 DEF RunFine
<1>10. ASSUME NEW o \in Managers PROVE RunFine(mgr[o])'
  <2>1. RunFine(mgr'[o])
    BY <1>7, <1>9 DEF PromiseInv
  <2> QED
    BY <1>1, <1>5, <2>1 DEF RunFine, Listed
<1> QED
  BY <1>6, <1>8, <1>10 DEF PromiseInv

\* Steps that no manager and none of its requests takes.
LEMMA PromiseOthers ==
  ASSUME TypeInv, PromiseInv, AllKept, node'.epoch = node.epoch, node'.slot = node.slot,
         UNCHANGED <<mgr, puts>>
  PROVE  PromiseInv'
<1>1. Listed' = Listed /\ \A v \in Listed : Behind(v)' <=> Behind(v)
  BY DEF AllKept, Kept, Behind
<1>2. StampsTrue'
  BY DEF PromiseInv, StampsTrue, AllKept, Kept, KeyOf
<1>3. \A p \in puts : p.ver \in Listed
  BY Shapes
<1>4. PutsFine'
  BY <1>1, <1>3 DEF PromiseInv, PutsFine
<1>5. ASSUME NEW m \in Managers PROVE RunFine(mgr[m])'
  BY <1>1 DEF PromiseInv, RunFine
<1> QED
  BY <1>2, <1>4, <1>5 DEF PromiseInv

LEMMA PromiseUpload ==
  ASSUME TypeInv, PromiseInv, WritesCurrent, NEW w \in Writers, NEW v \in Vers,
         CommitUpload(w, v)
  PROVE  PromiseInv'
<1>1. /\ Listed' = Listed \cup {v} /\ v \notin Listed
      /\ \A u \in Listed : Kept(u)
      /\ rows'[v].stamp = node.epoch /\ blob'[rows'[v].ref] = node.epoch
      /\ node'.epoch = node.epoch /\ node'.slot = node.slot
  BY UploadedVersion DEF WritesCurrent
<1>2. UNCHANGED <<mgr, puts, blob>>
  BY DEF CommitUpload
<1>3. ~Behind(v)' /\ \A u \in Listed : Behind(u)' <=> Behind(u)
  BY <1>1 DEF Kept, Behind
<1>4. StampsTrue'
  BY <1>1 DEF PromiseInv, StampsTrue, Kept, KeyOf
<1>5. PutsFine'
  BY <1>1, <1>2, <1>3, Shapes DEF PromiseInv, PutsFine
<1>6. ASSUME NEW m \in Managers PROVE RunFine(mgr[m])'
  BY <1>1, <1>2, <1>3 DEF PromiseInv, RunFine
<1> QED
  BY <1>4, <1>5, <1>6 DEF PromiseInv

\* The transaction stamps the version with the epoch its new bytes are under.
LEMMA PromiseCommit ==
  ASSUME TypeInv, PromiseInv, WritesCurrent, NEW p \in puts, PutCommit(p)
  PROVE  PromiseInv'
<1>1. /\ Listed' = Listed /\ p.ver \in Listed
      /\ \A v \in Listed : v # p.ver => Kept(v)
      /\ rows'[p.ver].stamp = node.epoch /\ rows'[p.ver] # rows[p.ver]
      /\ node'.epoch = node.epoch /\ node'.slot = node.slot
  BY ReplacedVersion, RunTypes
<1> DEFINE n == [p EXCEPT !.old = rows[p.ver].ref]
<1>2. /\ p.old = None /\ UNCHANGED <<mgr, blob>> /\ puts' = (puts \ {p}) \cup {n}
  BY DEF PutCommit, Replacement
<1>3. n.by = p.by /\ n.ver = p.ver /\ n.awaited = p.awaited /\ n.old # None
  <2>1. rows[p.ver].ref \in Refs
    BY Shapes
  <2> QED
    BY <2>1, Shapes DEF Put
<1> HIDE DEF n
<1>4. blob'[rows'[p.ver].ref] = node.epoch
  BY <1>1 DEF WritesCurrent, Listed
<1>5. ~Behind(p.ver)' /\ \A v \in Listed : Behind(v)' => Behind(v)
  BY <1>1 DEF Kept, Behind
<1>6. StampsTrue'
  BY <1>1, <1>4 DEF PromiseInv, StampsTrue, Kept, KeyOf
<1>7. PutsFine'
  <2>1. ASSUME NEW q \in puts', q.awaited
        PROVE  /\ mgr[q.by].at = q.ver
               /\ mgr[q.by].pc \in {"catchUp", "reencrypt"}
               /\ q.old # None /\ mgr[q.by].to = node.epoch => ~Behind(q.ver)'
               /\ \A o \in puts' : o.awaited /\ o.by = q.by => o = q
    <3>1. CASE q = n
      BY <1>2, <1>3, <1>5, <2>1, <3>1 DEF PromiseInv, PutsFine
    <3>2. CASE q # n
      <4>1. q \in puts /\ q # p /\ q.ver \in Listed
        BY <1>2, <2>1, <3>2, Shapes
      <4> QED
        BY <1>2, <1>3, <1>5, <2>1, <4>1 DEF PromiseInv, PutsFine
    <3> QED
      BY <3>1, <3>2
  <2> QED
    BY <1>1, <1>2, <2>1 DEF PutsFine
<1>8. ASSUME NEW m \in Managers PROVE RunFine(mgr[m])'
  BY <1>1, <1>2, <1>5 DEF PromiseInv, RunFine
<1> QED
  BY <1>6, <1>7, <1>8 DEF PromiseInv

\* The end of a request, and the bytes of no version with it.
LEMMA PutEnds ==
  ASSUME TypeInv, BlobInv, NEW p \in puts, PutRefuse(p) \/ PutFinish(p) \/ PutCrash(p)
  PROVE  \E ok \in BOOLEAN :
           /\ Answer(p, ok) /\ (ok => p.old # None)
           /\ puts' = puts \ {p} /\ UNCHANGED <<node, rows>> /\ AllKept
<1>1. CASE PutRefuse(p)
  <2>1. ~RowRef(p.ref)
    BY <1>1 DEF BlobInv, PutsOwn, PutRefuse
  <2>2. AllKept
    BY <1>1, <2>1, BlobKept DEF PutRefuse
  <2> QED
    BY <1>1, <2>2 DEF PutRefuse
<1>2. CASE PutFinish(p)
  <2>1. ~RowRef(p.old)
    BY <1>2 DEF BlobInv, PutsOwn, PutFinish
  <2>2. AllKept
    BY <1>2, <2>1, BlobKept DEF PutFinish
  <2> QED
    BY <1>2, <2>2 DEF PutFinish
<1>3. CASE PutCrash(p)
  BY <1>3 DEF PutCrash, AllKept, Kept, Listed, Exists
<1> QED
  BY <1>1, <1>2, <1>3

\* Whatever the answer, the version is level, its failure is counted, or another manager
\* has rotated.
LEMMA PromiseAnswer ==
  ASSUME TypeInv, BlobInv, PromiseInv, NEW p \in puts,
         PutRefuse(p) \/ PutFinish(p) \/ PutCrash(p)
  PROVE  PromiseInv'
<1>1. PICK ok \in BOOLEAN :
        /\ Answer(p, ok) /\ (ok => p.old # None)
        /\ puts' = puts \ {p} /\ UNCHANGED <<node, rows>> /\ AllKept
  BY PutEnds
<1>2. CASE ~p.awaited
  <2>1. UNCHANGED mgr
    BY <1>1, <1>2 DEF Answer
  <2>2. Listed' = Listed /\ \A v \in Listed : Behind(v)' <=> Behind(v)
    BY <1>1 DEF AllKept, Behind
  <2>3. StampsTrue'
    BY <1>1 DEF PromiseInv, StampsTrue, AllKept, Kept, KeyOf
  <2>4. PutsFine'
    BY <1>1, <2>1, <2>2, Shapes DEF PromiseInv, PutsFine
  <2>5. ASSUME NEW m \in Managers PROVE RunFine(mgr[m])'
    BY <1>1, <2>1, <2>2 DEF PromiseInv, RunFine
  <2> QED
    BY <2>3, <2>4, <2>5 DEF PromiseInv
<1>3. CASE p.awaited
  <2>1. /\ p.by \in Managers /\ mgr[p.by].at = p.ver
        /\ p.old # None /\ mgr[p.by].to = node.epoch => ~Behind(p.ver)
        /\ \A q \in puts' : q.awaited => q.by # p.by
        /\ RunFine(mgr[p.by]) /\ mgr[p.by] \in Manager
    BY <1>1, <1>3, RunTypes DEF PromiseInv, PutsFine
  <2> DEFINE k == [mgr[p.by] EXCEPT !.at = None, !.failed = mgr[p.by].failed \/ ~ok]
  <2>2. mgr' = [mgr EXCEPT ![p.by] = k]
    BY <1>1, <1>3 DEF Answer
  <2>3. /\ k.pc = mgr[p.by].pc /\ k.epoch = mgr[p.by].epoch
        /\ k.to = mgr[p.by].to /\ k.done = mgr[p.by].done /\ k.todo = mgr[p.by].todo
    BY <2>1 DEF Manager
  <2>4. k.failed <=> mgr[p.by].failed \/ ~ok
    BY <2>1, ZenonT(60) DEF Manager
  <2> HIDE DEF k
  <2>5. mgr'[p.by] = k /\ \A n \in Managers : n # p.by => mgr'[n] = mgr[n]
    BY <2>1, <2>2, RunTypes
  <2>6. Listed' = Listed /\ \A v \in Vers : Behind(v)' <=> Behind(v)
    BY <1>1 DEF AllKept, Behind
  <2>7. StampsTrue'
    BY <1>1 DEF PromiseInv, StampsTrue, AllKept, Kept, KeyOf
  <2>8. PutsFine'
    BY <1>1, <2>1, <2>5, <2>6, RunTypes DEF PromiseInv, PutsFine
  <2>9. RunFine(k)
    <3>1. k.pc \in {"catchUp", "reencrypt"} /\ k.to = node.epoch =>
            k.failed \/ \A v \in Listed : Behind(v) => v \in k.todo \/ v = k.at
      BY <1>1, <2>1, <2>3, <2>4 DEF RunFine
    <3> QED
      BY <2>1, <2>3, <3>1 DEF RunFine
  <2>10. ASSUME NEW n \in Managers PROVE RunFine(mgr[n])'
    <3>1. RunFine(mgr'[n])
      BY <2>5, <2>9 DEF PromiseInv
    <3> QED
      BY <1>1, <2>6, <3>1 DEF RunFine, Listed
  <2> QED
    BY <2>7, <2>8, <2>10 DEF PromiseInv
<1> QED
  BY <1>2, <1>3

LEMMA PromiseStep ==
  ASSUME UpToDate, KeysTold, TypeInv, BlobInv, PromiseInv, [Next]_vars, [WritesCurrent]_vars
  PROVE  PromiseInv'
<1>1. ASSUME NEW w \in Writers, NEW r \in Refs, NEW key \in Epochs, BeginUpload(w, r, key) PROVE PromiseInv'
  <2>1. AllKept
    <3>1. ~RowRef(r)
      BY <1>1, FreshFacts DEF BeginUpload, RowRef
    <3> QED
      BY <1>1, <3>1, BlobKept DEF BeginUpload
  <2> QED
    BY <1>1, <2>1, PromiseOthers DEF BeginUpload
<1>2. ASSUME NEW w \in Writers, RefuseUpload(w) PROVE PromiseInv'
  <2>1. ~RowRef(upload[w].ref)
    BY <1>2 DEF BlobInv, UploadsOwn, RefuseUpload
  <2>2. AllKept
    BY <1>2, <2>1, BlobKept DEF RefuseUpload
  <2> QED
    BY <1>2, <2>2, PromiseOthers DEF RefuseUpload
<1>3. ASSUME UNCHANGED <<rows, blob, puts, mgr>>, node'.epoch = node.epoch, node'.slot = node.slot
      PROVE  PromiseInv'
  <2>1. AllKept
    BY <1>3 DEF AllKept, Kept, Listed, Exists
  <2> QED
    BY <1>3, <2>1, PromiseOthers
<1>4. ASSUME NEW x \in Restorers, RestoreWrite(x) PROVE PromiseInv'
  BY <1>3, <1>4 DEF RestoreWrite, TypeInv, TypeOK, Node
<1>5. ASSUME NEW x \in Restorers, NEW v \in Vers, RestoreRead(x, v) PROVE PromiseInv'
  BY <1>3, <1>5 DEF RestoreRead
<1>6. CASE RequireRotation
  BY <1>3, <1>6 DEF RequireRotation, TypeInv, TypeOK, Node
<1>7. CASE UNCHANGED vars
  BY <1>3, <1>7 DEF vars
<1>8. ASSUME NEW w \in Writers, NEW v \in Vers, CommitUpload(w, v) PROVE PromiseInv'
  <2>1. WritesCurrent
    BY <1>8, UploadedVersion DEF vars
  <2> QED
    BY <1>8, <2>1, PromiseUpload
<1>9. ASSUME NEW p \in puts, PutCommit(p) PROVE PromiseInv'
  <2>1. rows'[p.ver] # rows[p.ver]
    BY <1>9, ReplacedVersion, RunTypes
  <2>2. WritesCurrent
    BY <2>1 DEF vars
  <2> QED
    BY <1>9, <2>2, PromiseCommit
<1> QED
  BY <1>1, <1>2, <1>4, <1>5, <1>6, <1>7, <1>8, <1>9, PromiseClient, PromiseGiveUp, PromiseSwap,
     PromiseReencrypt, PromiseAnswer
  DEF Next, ManagerStep, PutStep

LEMMA PromiseInit == Init => PromiseInv
  BY KeyRotationAssumption
  DEF Init, PromiseInv, StampsTrue, PutsFine, RunFine, Listed, Exists

LEMMA PromiseInvariant ==
  ASSUME UpToDate
  PROVE  Spec /\ [][WritesCurrent]_vars => [](TypeInv /\ KeysTold /\ BlobInv /\ PromiseInv)
<1>1. TypeInv /\ KeysTold /\ BlobInv /\ PromiseInv /\ [Next]_vars /\ [WritesCurrent]_vars
        => PromiseInv'
  BY PromiseStep
<1>2. Init => KeysTold
  <2> SUFFICES ASSUME Init, NEW m \in Managers PROVE mgr[m].key = mgr[m].epoch
    BY DEF KeysTold
  <2> QED
    BY DEF Init
<1>3. ASSUME TypeInv, KeysTold, [Next]_vars PROVE KeysTold'
  <2> SUFFICES ASSUME NEW m \in Managers PROVE mgr'[m].key = mgr'[m].epoch
    BY DEF KeysTold
  <2> QED
    BY <1>3, RunTold DEF KeysTold, UpToDate
<1>4. TypeInv /\ KeysTold /\ [Next]_vars => KeysTold'
  BY <1>3
<1> QED
  BY <1>1, <1>2, <1>4, PromiseInit, TypeInvariant, BlobInvariant, PTL DEF Spec

\* As long as each commit is under the key of the moment, every version stays readable with
\* the current key and the one in the slot (rotate.ts:310-316), whatever overlaps.
THEOREM RecoverableIfCurrent ==
  ASSUME UpToDate
  PROVE  Spec /\ [][WritesCurrent]_vars => []VersionsRecoverable
<1>1. PromiseInv => VersionsRecoverable
  BY DEF PromiseInv, StampsTrue, VersionsRecoverable
<1> QED
  BY <1>1, PromiseInvariant, PTL

\* As long as each commit is under the key of the moment, a rotation reported complete left
\* nothing under an older key, for as long as its epoch lasts (rotate.ts:363-401).
THEOREM CompleteIfCurrent ==
  ASSUME UpToDate
  PROVE  Spec /\ [][WritesCurrent]_vars => []CompleteMeansReencrypted
<1>1. PromiseInv => CompleteMeansReencrypted
  BY DEF PromiseInv, StampsTrue, RunFine, Behind, CompleteMeansReencrypted
<1> QED
  BY <1>1, PromiseInvariant, PTL

-----------------------------------------------------------------------------
(* Each step of the protocol is a step of RotationPromise, or leaves what  *)
(* it is about unchanged.                                                  *)

Lagging == {v \in Listed : KeyOf(v) # node.epoch}

LEMMA LaggingKept ==
  ASSUME AllKept, node'.epoch = node.epoch
  PROVE  Lagging' = Lagging
  BY DEF AllKept, Kept, Lagging, KeyOf

LEMMA PromiseRefined ==
  ASSUME UpToDate, KeysTold, TypeInv, BlobInv, PromiseInv, [Next]_vars, [WritesCurrent]_vars
  PROVE  [Promise!PNext]_(Promise!pvars)
<1> DEFINE Same == /\ node'.epoch = node.epoch /\ Listed' = Listed /\ Lagging' = Lagging
                   /\ node'.rotationRequired = node.rotationRequired
<1>s. Same => [Promise!PNext]_(Promise!pvars)
  BY DEF Promise!pvars, Lagging
<1>1. ASSUME NEW m \in Managers, NEW answered \in BOOLEAN, Swap(m, answered)
      PROVE  Promise!RotateKey
  <2>1. mgr[m].pc = "swap" /\ UNCHANGED <<rows, blob>> /\ mgr[m].epoch = node.epoch
    BY <1>1 DEF Swap, Rotated, UpToDate
  <2>2. node'.epoch = node.epoch + 1 /\ node'.rotationRequired = FALSE
    BY <1>1, SwapNode
  <2>3. \A v \in Listed : KeyOf(v) = node.epoch
    BY <2>1 DEF PromiseInv, RunFine, StampsTrue, Behind
  <2>4. Listed' = Listed /\ \A v \in Listed : KeyOf(v)' = node.epoch
    BY <2>1, <2>3 DEF Listed, Exists, KeyOf
  <2>5. Lagging = {} /\ Lagging' = Listed
    BY <2>2, <2>3, <2>4, RunTypes DEF Lagging
  <2> QED
    BY <2>2, <2>4, <2>5 DEF Promise!RotateKey, Lagging
<1>2. ASSUME NEW w \in Writers, NEW v \in Vers, CommitUpload(w, v) PROVE Promise!AddVersion
  <2>1. /\ Listed' = Listed \cup {v} /\ v \notin Listed
        /\ \A u \in Listed : Kept(u)
        /\ blob'[rows'[v].ref] = node.epoch /\ node'.epoch = node.epoch
    BY <1>2, UploadedVersion DEF WritesCurrent, vars
  <2>2. ~node.rotationRequired /\ node'.rotationRequired = node.rotationRequired
    BY <1>2 DEF CommitUpload, BaseAccepted, TypeInv, TypeOK, Node
  <2>3. Lagging' = Lagging
    BY <2>1 DEF Lagging, Kept, KeyOf
  <2> QED
    BY <2>1, <2>2, <2>3 DEF Promise!AddVersion, Lagging
<1>3. ASSUME NEW p \in puts, PutCommit(p) PROVE Promise!Relevel
  <2>1. /\ Listed' = Listed /\ p.ver \in Listed
        /\ \A u \in Listed : u # p.ver => Kept(u)
        /\ rows'[p.ver].stamp = node.epoch /\ node'.epoch = node.epoch
        /\ rows[p.ver].stamp < node.epoch
    BY <1>3, ReplacedVersion
  <2>2. blob'[rows'[p.ver].ref] = node.epoch
    BY <2>1, RunTypes DEF WritesCurrent, Listed, vars
  <2>3. p.ver \in Lagging
    BY <2>1, RunTypes DEF PromiseInv, StampsTrue, Lagging
  <2>4. Lagging' = Lagging \ {p.ver}
    BY <2>1, <2>2 DEF Lagging, Kept, KeyOf
  <2>5. node'.rotationRequired = node.rotationRequired
    BY <1>3 DEF PutCommit, Replacement, TypeInv, TypeOK, Node
  <2> QED
    BY <2>1, <2>3, <2>4, <2>5 DEF Promise!Relevel, Lagging
<1>4. CASE RequireRotation
  <2>1. /\ UNCHANGED <<rows, blob>> /\ ~node.rotationRequired
        /\ node'.rotationRequired = TRUE /\ node'.epoch = node.epoch
    BY <1>4 DEF RequireRotation, TypeInv, TypeOK, Node
  <2>2. Listed' = Listed /\ Lagging' = Lagging
    BY <2>1 DEF Listed, Exists, Lagging, KeyOf
  <2> QED
    BY <2>1, <2>2 DEF Promise!PNext, Promise!Freeze, Lagging
<1>5. ASSUME NEW x \in Restorers, RestoreWrite(x) PROVE Same
  <2>1. UNCHANGED <<rows, blob>> /\ node'.epoch = node.epoch
        /\ node'.rotationRequired = node.rotationRequired
    BY <1>5 DEF RestoreWrite, TypeInv, TypeOK, Node
  <2> QED
    BY <2>1 DEF Listed, Exists, Lagging, KeyOf
<1>6. ASSUME UNCHANGED node, AllKept PROVE Same
  BY <1>6, LaggingKept DEF AllKept
<1>7. \/ UNCHANGED node
      \/ \E m \in Managers, answered \in BOOLEAN : Swap(m, answered)
      \/ \E w \in Writers, v \in Vers : CommitUpload(w, v)
      \/ \E p \in puts : PutCommit(p)
      \/ \E x \in Restorers : RestoreWrite(x)
      \/ RequireRotation
  BY ZenonT(60)
  DEF Next, ManagerStep, PutStep, Open, ListStale, EndCatchUp, SwapConflict, Relist, EndRotation,
      SkipVersion, Reencrypt, Abandon, GiveUp, PutRefuse, PutFinish, PutCrash, BeginUpload,
      RefuseUpload, RestoreRead, vars
<1> HIDE DEF Same
<1> QED
  BY <1>s, <1>1, <1>2, <1>3, <1>4, <1>5, <1>6, <1>7, VersionsKept DEF Promise!PNext

\* As long as each commit is under the key of the moment, the rotation of one file by any
\* number of managers, with its crashes, refusals, uploads and restores, implements
\* RotationPromise: no rotation starts over a lagging version, and a frozen file takes no
\* version (rotate.ts:242-401).
THEOREM PromiseIfCurrent ==
  ASSUME UpToDate
  PROVE  Spec /\ [][WritesCurrent]_vars => KeepsPromise
<1>1. Init => Promise!PInit
  BY DEF Init, Promise!PInit, Listed, Exists
<1>2. TypeInv /\ KeysTold /\ BlobInv /\ PromiseInv /\ [Next]_vars /\ [WritesCurrent]_vars
        => [Promise!PNext]_(Promise!pvars)
  BY PromiseRefined
<1> QED
  BY <1>1, <1>2, PromiseInvariant, PTL DEF Spec, KeepsPromise, Promise!PSpec

-----------------------------------------------------------------------------
(* One manager, whose requests are answered, and writers who send their    *)
(* base: nothing rotates while a request is under way, so that each commit *)
(* is under the key of the moment, although nothing compares it.           *)

\* The one request in flight is the one its manager waits for; its new blob is
\* under the current key, which the manager's run works under.
OnePut ==
    /\ \A p, q \in puts : p = q
    /\ \A p \in puts :
         /\ p.awaited
         /\ mgr[p.by].at = p.ver
         /\ mgr[p.by].pc \in {"catchUp", "reencrypt"}
         /\ p.old = None => blob[p.ref] = node.epoch

RunCurrent(k) == k.pc \in {"opened", "catchUp", "relist", "reencrypt"} => k.to = node.epoch

OneInv == OnePut /\ \A m \in Managers : RunCurrent(mgr[m])

\* While the manager waits for nothing, nothing is in flight.
LEMMA NothingInFlight ==
  ASSUME OneManager, TypeInv, OnePut, NEW m \in Managers,
         mgr[m].at = None \/ mgr[m].pc \notin {"catchUp", "reencrypt"}
  PROVE  puts = {}
<1>1. \A p \in puts : p.by = m /\ p.ver # None
  BY RunTypes DEF OneManager
<1> QED
  BY <1>1 DEF OnePut

\* A step of the client alone: its run is now k.
LEMMA OneClient ==
  ASSUME OneManager, TypeInv, OneInv, NEW m \in Managers, NEW k,
         puts = {}, mgr' = [mgr EXCEPT ![m] = k], UNCHANGED puts,
         k.pc \in {"opened", "catchUp", "relist", "reencrypt"} => k.to = node'.epoch
  PROVE  OneInv'
<1>1. \A n \in Managers : mgr'[n] = k
  BY RunTypes DEF OneManager
<1> QED
  BY <1>1 DEF OneInv, OnePut, RunCurrent

LEMMA OneManagerStep ==
  ASSUME OneManager, TypeInv, OneInv, NEW m \in Managers,
         \/ \E goal \in {"repair", "rotate"}, key \in Epochs : Open(m, goal, key)
         \/ \E answered \in BOOLEAN : Swap(m, answered)
         \/ ListStale(m) \/ EndCatchUp(m) \/ SwapConflict(m) \/ Relist(m) \/ EndRotation(m)
         \/ Abandon(m) \/ \E v \in Vers : SkipVersion(m, v)
  PROVE  OneInv'
<1>0. mgr[m] \in Manager /\ RunCurrent(mgr[m])
  BY RunTypes DEF OneInv
<1>1. mgr[m].at = None \/ mgr[m].pc \notin {"catchUp", "reencrypt"}
  BY DEF Open, Swap, Rotated, ListStale, EndCatchUp, SwapConflict, Relist, EndRotation, Abandon, SkipVersion
<1>2. puts = {} /\ UNCHANGED puts
  BY <1>1, NothingInFlight DEF OneInv, Open, Swap, Rotated, ListStale, EndCatchUp, SwapConflict, Relist,
     EndRotation, Abandon, SkipVersion
<1>i. ASSUME Idle(m) PROVE OneInv'
  <2> DEFINE k == [mgr[m] EXCEPT !.pc = "idle", !.todo = {}, !.at = None]
  <2>1. k.pc = "idle" /\ mgr' = [mgr EXCEPT ![m] = k]
    BY <1>0, <1>i DEF Idle, Manager
  <2> HIDE DEF k
  <2> QED
    BY <1>2, <2>1, OneClient
<1>3. ASSUME NEW goal \in {"repair", "rotate"}, NEW key \in Epochs, Open(m, goal, key) PROVE OneInv'
  <2>a. key = node.epoch
    BY <1>3, KeyHeld DEF Open, OneManager, UpToDate
  <2>1. PICK g, pc : mgr' = [mgr EXCEPT ![m] =
            [@ EXCEPT !.pc = pc, !.goal = g, !.epoch = node.epoch, !.slot = node.slot,
                      !.key = key, !.to = key, !.failed = FALSE]]
    BY <1>3 DEF Open
  <2> DEFINE k == [mgr[m] EXCEPT !.pc = pc, !.goal = g, !.epoch = node.epoch,
                      !.slot = node.slot, !.key = key, !.to = key, !.failed = FALSE]
  <2>2. k.to = node.epoch /\ mgr' = [mgr EXCEPT ![m] = k] /\ UNCHANGED node
    BY <1>0, <1>3, <2>a, <2>1 DEF Manager, Open
  <2> HIDE DEF k
  <2> QED
    BY <1>2, <2>2, OneClient
<1>4. ASSUME NEW answered \in BOOLEAN, Swap(m, answered) PROVE OneInv'
  <2>1. CASE answered
    <3> DEFINE k == [mgr[m] EXCEPT !.pc = "relist", !.to = node'.epoch]
    <3>1. k.to = node'.epoch
      BY <1>0 DEF Manager
    <3>2. mgr' = [mgr EXCEPT ![m] = k]
      BY <1>4, <2>1 DEF Swap, Rotated
    <3> HIDE DEF k
    <3> QED
      BY <1>2, <3>1, <3>2, OneClient
  <2>2. CASE ~answered
    BY <1>i, <1>4, <2>2 DEF Swap, Rotated
  <2> QED
    BY <2>1, <2>2
<1>5. ASSUME ListStale(m) \/ Relist(m), ~Idle(m) PROVE OneInv'
  <2>1. PICK pc, todo : mgr' = [mgr EXCEPT ![m] = [@ EXCEPT !.pc = pc, !.todo = todo]]
    BY <1>5 DEF ListStale, Relist
  <2> DEFINE k == [mgr[m] EXCEPT !.pc = pc, !.todo = todo]
  <2>2. k.to = mgr[m].to /\ mgr[m].to = node.epoch /\ UNCHANGED node
    BY <1>0, <1>5 DEF Manager, ListStale, Relist, RunCurrent
  <2>3. mgr' = [mgr EXCEPT ![m] = k]
    BY <2>1
  <2> HIDE DEF k
  <2> QED
    BY <1>2, <2>2, <2>3, OneClient
<1>6. ASSUME EndCatchUp(m) PROVE OneInv'
  <2>1. CASE Idle(m)
    BY <1>i, <2>1
  <2>2. CASE mgr' = [mgr EXCEPT ![m] = [@ EXCEPT !.pc = "swap"]]
    <3> DEFINE k == [mgr[m] EXCEPT !.pc = "swap"]
    <3>1. k.pc = "swap" /\ mgr' = [mgr EXCEPT ![m] = k]
      BY <1>0, <2>2 DEF Manager
    <3> HIDE DEF k
    <3> QED
      BY <1>2, <3>1, OneClient
  <2> QED
    BY <1>6, <2>1, <2>2 DEF EndCatchUp
<1>7. ASSUME SwapConflict(m) \/ Abandon(m) PROVE OneInv'
  BY <1>i, <1>7 DEF SwapConflict, Abandon
<1>8. ASSUME EndRotation(m) PROVE OneInv'
  <2>1. PICK d : mgr' = [mgr EXCEPT ![m] = [@ EXCEPT !.pc = "idle", !.done = d]]
    BY <1>8 DEF EndRotation
  <2> DEFINE k == [mgr[m] EXCEPT !.pc = "idle", !.done = d]
  <2>2. k.pc = "idle" /\ mgr' = [mgr EXCEPT ![m] = k]
    BY <1>0, <2>1 DEF Manager
  <2> HIDE DEF k
  <2> QED
    BY <1>2, <2>2, OneClient
<1>9. ASSUME NEW v \in Vers, SkipVersion(m, v) PROVE OneInv'
  <2> DEFINE k == [mgr[m] EXCEPT !.todo = mgr[m].todo \ {v}, !.failed = TRUE]
  <2>1. k.pc = mgr[m].pc /\ k.to = mgr[m].to /\ mgr' = [mgr EXCEPT ![m] = k] /\ UNCHANGED node
    BY <1>0, <1>9 DEF Manager, SkipVersion
  <2> HIDE DEF k
  <2> QED
    BY <1>0, <1>2, <2>1, OneClient DEF RunCurrent
<1> QED
  BY <1>i, <1>3, <1>4, <1>5, <1>6, <1>7, <1>8, <1>9

LEMMA OneReencrypt ==
  ASSUME OneManager, TypeInv, OneInv, NEW m \in Managers, NEW v \in Vers,
         NEW r \in Refs, Reencrypt(m, v, r)
  PROVE  OneInv'
<1> DEFINE n == [by |-> m, ver |-> v, ref |-> r, old |-> None, awaited |-> TRUE]
           k == [mgr[m] EXCEPT !.at = v, !.todo = mgr[m].todo \ {v}]
<1>1. /\ mgr[m].pc \in {"catchUp", "reencrypt"} /\ mgr[m].at = None
      /\ blob' = [blob EXCEPT ![r] = mgr[m].to] /\ puts' = puts \cup {n}
      /\ mgr' = [mgr EXCEPT ![m] = k] /\ UNCHANGED node
  BY DEF Reencrypt
<1>2. /\ n.by = m /\ n.ver = v /\ n.ref = r /\ n.awaited
      /\ k.pc = mgr[m].pc /\ k.at = v /\ k.to = mgr[m].to
  BY RunTypes DEF Manager
<1> HIDE DEF n, k
<1>3. puts = {} /\ mgr[m].to = node.epoch
  BY <1>1, NothingInFlight DEF OneInv, RunCurrent
<1>4. \A o \in Managers : mgr'[o] = k /\ mgr'[m] = k
  BY <1>1, RunTypes DEF OneManager
<1>5. blob'[r] = node.epoch
  BY <1>1, <1>3, Shapes
<1> QED
  BY <1>1, <1>2, <1>3, <1>4, <1>5 DEF OneInv, OnePut, RunCurrent

LEMMA OneCommit ==
  ASSUME TypeInv, OneInv, NEW p \in puts, PutCommit(p)
  PROVE  OneInv'
<1> DEFINE n == [p EXCEPT !.old = rows[p.ver].ref]
<1>1. UNCHANGED <<mgr, blob>> /\ puts' = (puts \ {p}) \cup {n} /\ node'.epoch = node.epoch
  BY ReplacedVersion DEF PutCommit, Replacement
<1>2. n.by = p.by /\ n.ver = p.ver /\ n.awaited = p.awaited /\ n.old # None
  <2>1. rows[p.ver].ref \in Refs
    BY Shapes
  <2> QED
    BY <2>1, Shapes DEF Put
<1> HIDE DEF n
<1>3. puts' = {n}
  BY <1>1 DEF OneInv, OnePut
<1> QED
  BY <1>1, <1>2, <1>3 DEF OneInv, OnePut, RunCurrent

LEMMA OneAnswer ==
  ASSUME OneManager, TypeInv, BlobInv, OneInv, NEW p \in puts,
         PutRefuse(p) \/ PutFinish(p) \/ PutCrash(p)
  PROVE  OneInv'
<1>1. PICK ok \in BOOLEAN : Answer(p, ok) /\ puts' = puts \ {p} /\ UNCHANGED node
  BY PutEnds
<1>2. p.awaited /\ p.by \in Managers /\ puts' = {} /\ mgr[p.by] \in Manager
  BY <1>1, RunTypes DEF OneInv, OnePut
<1> DEFINE k == [mgr[p.by] EXCEPT !.at = None, !.failed = mgr[p.by].failed \/ ~ok]
<1>3. mgr' = [mgr EXCEPT ![p.by] = k] /\ k.pc = mgr[p.by].pc /\ k.to = mgr[p.by].to
  BY <1>1, <1>2 DEF Answer, Manager
<1> HIDE DEF k
<1>4. \A n \in Managers : mgr'[n] = k
  BY <1>2, <1>3, RunTypes DEF OneManager
<1> QED
  BY <1>1, <1>2, <1>3, <1>4 DEF OneInv, OnePut, RunCurrent

LEMMA OneStep ==
  ASSUME OneManager, TypeInv, BlobInv, OneInv, [Next]_vars
  PROVE  OneInv'
<1>1. ASSUME UNCHANGED <<puts, mgr>>, node'.epoch = node.epoch,
             \A p \in puts : blob'[p.ref] = blob[p.ref]
      PROVE  OneInv'
  BY <1>1 DEF OneInv, OnePut, RunCurrent
<1>2. ASSUME NEW w \in Writers, NEW r \in Refs, NEW key \in Epochs, BeginUpload(w, r, key) PROVE OneInv'
  <2>1. \A p \in puts : blob'[p.ref] = blob[p.ref]
    BY <1>2, FreshFacts, Shapes DEF BeginUpload
  <2> QED
    BY <1>1, <1>2, <2>1 DEF BeginUpload
<1>3. ASSUME NEW w \in Writers, RefuseUpload(w) PROVE OneInv'
  <2>1. \A p \in puts : p.ref # upload[w].ref
    BY <1>3 DEF BlobInv, UploadsOwn, RefuseUpload
  <2>2. \A p \in puts : blob'[p.ref] = blob[p.ref]
    BY <1>3, <2>1, Shapes DEF RefuseUpload
  <2> QED
    BY <1>1, <1>3, <2>2 DEF RefuseUpload
<1>4. ASSUME NEW w \in Writers, NEW v \in Vers, CommitUpload(w, v) PROVE OneInv'
  BY <1>1, <1>4, UploadedVersion DEF CommitUpload
<1>5. ASSUME NEW x \in Restorers, RestoreWrite(x) PROVE OneInv'
  BY <1>1, <1>5 DEF RestoreWrite, TypeInv, TypeOK, Node
<1>6. ASSUME NEW x \in Restorers, NEW v \in Vers, RestoreRead(x, v) PROVE OneInv'
  BY <1>1, <1>6 DEF RestoreRead
<1>7. CASE RequireRotation
  BY <1>1, <1>7 DEF RequireRotation, TypeInv, TypeOK, Node
<1>8. CASE UNCHANGED vars
  BY <1>1, <1>8 DEF vars
<1>9. ASSUME NEW m \in Managers, NEW stop \in BOOLEAN, GiveUp(m, stop) PROVE OneInv'
  BY <1>9 DEF GiveUp, OneManager
<1> QED
  BY <1>2, <1>3, <1>4, <1>5, <1>6, <1>7, <1>8, <1>9, OneManagerStep, OneReencrypt, OneCommit,
     OneAnswer
  DEF Next, ManagerStep, PutStep

LEMMA OneWritesCurrent ==
  ASSUME OneManager, TypeInv, BlobInv, UploadKeys, OneInv, [Next]_vars
  PROVE  WritesCurrent
<1>1. CASE AllKept
  <2>1. ASSUME NEW v \in Vers PROVE rows'[v] = rows[v]
    <3>1. CASE v \in Listed
      BY <1>1, <3>1 DEF AllKept, Kept
    <3>2. CASE v \notin Listed
      BY <1>1, <3>2 DEF AllKept, Listed, Exists
    <3> QED
      BY <3>1, <3>2
  <2> QED
    BY <2>1 DEF WritesCurrent
<1>2. ASSUME NEW p \in puts, PutCommit(p) PROVE WritesCurrent
  <2>1. \A v \in Vers : v # p.ver => rows'[v] = rows[v]
    BY <1>2, Shapes DEF PutCommit, Replacement
  <2>2. blob'[rows'[p.ver].ref] = node.epoch
    BY <1>2, ReplacedVersion DEF OneInv, OnePut, PutCommit, Replacement
  <2> QED
    BY <2>1, <2>2 DEF WritesCurrent
<1>3. ASSUME NEW w \in Writers, NEW v \in Vers, CommitUpload(w, v) PROVE WritesCurrent
  <2>1. \A u \in Vers : u # v => rows'[u] = rows[u]
    BY <1>3, Shapes DEF CommitUpload
  <2>2. upload[w] # None /\ upload[w].epoch = node.epoch
    BY <1>3 DEF CommitUpload, BaseAccepted, OneManager
  <2>a. w \in Writers \ Outdated
    BY DEF OneManager, UpToDate
  <2>3. blob'[rows'[v].ref] = node.epoch
    BY <1>3, <2>a, <2>2, UploadedVersion DEF UploadKeys
  <2> QED
    BY <2>1, <2>3 DEF WritesCurrent
<1> QED
  BY <1>1, <1>2, <1>3, VersionsKept

\* One manager whose requests are answered, and writers who send their base, never commit a
\* content under another key than the one of the moment.
LEMMA OneManagerCurrent ==
  ASSUME OneManager
  PROVE  Spec => [][WritesCurrent]_vars
<1>1. Init => UploadKeys /\ OneInv
  BY DEF Init, UploadKeys, OneInv, OnePut, RunCurrent
<1>2. TypeInv /\ BlobInv /\ UploadKeys /\ [Next]_vars => UploadKeys'
  BY UploadKeysStep
<1>3. TypeInv /\ BlobInv /\ OneInv /\ [Next]_vars => OneInv'
  BY OneStep
<1>4. TypeInv /\ BlobInv /\ UploadKeys /\ OneInv /\ [Next]_vars => [WritesCurrent]_vars
  BY OneWritesCurrent
<1> QED
  BY <1>1, <1>2, <1>3, <1>4, TypeInvariant, BlobInvariant, PTL DEF Spec

\* Every version stays readable with the current key and the one in the slot
\* (rotate.ts:310-316), for one manager whose requests are answered.
THEOREM RecoverableCorrect ==
  ASSUME OneManager
  PROVE  Spec => []VersionsRecoverable
BY OneManagerCurrent, RecoverableIfCurrent, PTL DEF OneManager

\* A rotation reported complete left nothing under an older key, for as long as
\* its epoch lasts (rotate.ts:363-401), for one manager whose requests are answered.
THEOREM CompleteCorrect ==
  ASSUME OneManager
  PROVE  Spec => []CompleteMeansReencrypted
BY OneManagerCurrent, CompleteIfCurrent, PTL DEF OneManager

\* The rotation of one file by one manager, with its crashes, refusals, uploads
\* and restores, implements RotationPromise: no rotation starts over a lagging
\* version, and a frozen file takes no version (rotate.ts:242-401).
THEOREM PromiseKept ==
  ASSUME OneManager
  PROVE  Spec => KeepsPromise
BY OneManagerCurrent, PromiseIfCurrent, PTL DEF OneManager

-----------------------------------------------------------------------------
(* No rotation skips a version whose stamp is true, for any number of      *)
(* managers at once, impatient or not: whoever reaches the swap has seen   *)
(* every version at the epoch it was told, stamps only grow, and the epoch *)
(* is compared under the lock of the node.                                 *)

\* A request that is awaited is its manager's only one, and once committed its
\* version is at the epoch the manager was told.
AwaitFine ==
    \A p \in puts : p.awaited =>
        /\ mgr[p.by].at = p.ver
        /\ mgr[p.by].pc \in {"catchUp", "reencrypt"}
        /\ p.old # None => rows[p.ver].stamp >= mgr[p.by].epoch
        /\ \A q \in puts : q.awaited /\ q.by = p.by => q = p

\* The list of a catch-up covers what lags, unless it counted a failure; a run
\* that goes on to the swap left nothing behind.
RunLevels(k) ==
    /\ k.pc = "catchUp" =>
         k.failed \/ \A v \in Listed : rows[v].stamp >= k.epoch \/ v \in k.todo \/ v = k.at
    /\ k.pc = "swap" => \A v \in Listed : rows[v].stamp >= k.epoch

\* What each manager holds: never a key newer than the epoch it was told.
HeldFine(m) ==
    /\ mgr[m].key <= mgr[m].epoch /\ mgr[m].epoch <= node.epoch
    /\ m \notin Outdated => mgr[m].key = mgr[m].epoch

\* Every stamp names the current key or the one in the slot.
StampsLevel ==
    /\ node.slot = 0 => node.epoch = 1
    /\ node.skipped \/ \A v \in Listed : rows[v].stamp \in {node.epoch, node.slot}

RunsLevel == AwaitFine /\ \A m \in Managers : RunLevels(mgr[m])

SkipInv == StampsLevel /\ RunsLevel /\ \A m \in Managers : HeldFine(m)

\* Stamps only grow, and a new version is stamped with the epoch of the moment.
LEMMA StampsGrow ==
  ASSUME TypeInv, BlobInv, [Next]_vars
  PROVE  /\ Listed \subseteq Listed'
         /\ \A v \in Listed : rows'[v].stamp \in Nat /\ rows'[v].stamp >= rows[v].stamp
         /\ \A v \in Listed' : (rows'[v] = rows[v] /\ v \in Listed) \/ rows'[v].stamp = node.epoch
<1>1. CASE AllKept
  BY <1>1, RunTypes DEF AllKept, Kept
<1>2. ASSUME NEW p \in puts, PutCommit(p)
      PROVE  /\ Listed \subseteq Listed'
             /\ \A v \in Listed : rows'[v].stamp \in Nat /\ rows'[v].stamp >= rows[v].stamp
             /\ \A v \in Listed' : (rows'[v] = rows[v] /\ v \in Listed) \/ rows'[v].stamp = node.epoch
  BY <1>2, ReplacedVersion, RunTypes DEF Kept
<1>3. ASSUME NEW w \in Writers, NEW u \in Vers, CommitUpload(w, u)
      PROVE  /\ Listed \subseteq Listed'
             /\ \A v \in Listed : rows'[v].stamp \in Nat /\ rows'[v].stamp >= rows[v].stamp
             /\ \A v \in Listed' : (rows'[v] = rows[v] /\ v \in Listed) \/ rows'[v].stamp = node.epoch
  BY <1>3, UploadedVersion, RunTypes DEF Kept
<1> QED
  BY <1>1, <1>2, <1>3, VersionsKept

\* Only a rotation moves the epoch and the slot.
LEMMA NodeStep ==
  ASSUME TypeInv, [Next]_vars
  PROVE  \/ /\ node'.epoch = node.epoch /\ node'.slot = node.slot
            /\ node'.skipped = node.skipped
         \/ \E m \in Managers, answered \in BOOLEAN : Swap(m, answered)
<1> DEFINE Same == /\ node'.epoch = node.epoch /\ node'.slot = node.slot
                   /\ node'.skipped = node.skipped
<1>0. node \in Node
  BY DEF TypeInv, TypeOK
<1>1. ASSUME NEW p \in puts, PutCommit(p) PROVE Same
  BY <1>0, <1>1 DEF PutCommit, Replacement, Node
<1>2. ASSUME NEW w \in Writers, NEW v \in Vers, CommitUpload(w, v) PROVE Same
  BY <1>0, <1>2 DEF CommitUpload, Node
<1>3. ASSUME NEW x \in Restorers, RestoreWrite(x) PROVE Same
  BY <1>0, <1>3 DEF RestoreWrite, Node
<1>4. CASE RequireRotation
  BY <1>0, <1>4 DEF RequireRotation, Node
<1>5. CASE UNCHANGED node
  BY <1>5
<1> HIDE DEF Same
<1>6. \/ UNCHANGED node
      \/ \E m \in Managers, answered \in BOOLEAN : Swap(m, answered)
      \/ \E w \in Writers, v \in Vers : CommitUpload(w, v)
      \/ \E p \in puts : PutCommit(p)
      \/ \E x \in Restorers : RestoreWrite(x)
      \/ RequireRotation
  BY ZenonT(60)
  DEF Next, ManagerStep, PutStep, Open, ListStale, EndCatchUp, SwapConflict, Relist,
      EndRotation, SkipVersion, Reencrypt, Abandon, GiveUp, PutRefuse, PutFinish, PutCrash,
      BeginUpload, RefuseUpload, RestoreRead, vars
<1> QED
  BY <1>1, <1>2, <1>3, <1>4, <1>5, <1>6 DEF Same

\* A manager that reaches the swap with the live key has every version at it.
LEMMA SwapLevel ==
  ASSUME TypeInv, LagInv, SkipInv, NEW m \in Managers, NEW answered \in BOOLEAN,
         Swap(m, answered), ~node'.skipped
  PROVE  mgr[m].key = node.epoch /\ \A v \in Listed : rows[v].stamp = node.epoch
<1>1. /\ mgr[m].pc = "swap" /\ mgr[m].key \in Nat /\ mgr[m].epoch \in Nat /\ node.epoch \in Nat
      /\ m \notin LegacyManagers => node.epoch = mgr[m].epoch
  BY RunTypes DEF Swap, Rotated, Manager, Epochs
<1>2. mgr[m].key = node.epoch
  <2>1. CASE m \in Outdated \cup LegacyManagers
    BY <2>1, SwapNode
  <2>2. CASE m \notin Outdated \cup LegacyManagers
    BY <1>1, <2>2 DEF SkipInv, HeldFine
  <2> QED
    BY <2>1, <2>2
<1>3. mgr[m].epoch = node.epoch
  BY <1>1, <1>2 DEF SkipInv, HeldFine
<1>4. \A v \in Listed : rows[v].stamp >= node.epoch
  BY <1>1, <1>3 DEF SkipInv, RunsLevel, RunLevels
<1>5. \A v \in Listed : rows[v].stamp \in Nat /\ rows[v].stamp <= node.epoch
  BY RunTypes DEF LagInv, StampsNeverLag
<1> QED
  BY <1>1, <1>2, <1>4, <1>5

LEMMA StampsLevelStep ==
  ASSUME TypeInv, BlobInv, LagInv, SkipInv, [Next]_vars
  PROVE  StampsLevel'
<1>1. ASSUME node'.epoch = node.epoch, node'.slot = node.slot, node'.skipped = node.skipped
      PROVE  StampsLevel'
  BY <1>1, StampsGrow DEF SkipInv, StampsLevel
<1>2. ASSUME NEW m \in Managers, NEW answered \in BOOLEAN, Swap(m, answered) PROVE StampsLevel'
  <2>1. node'.slot = mgr[m].key /\ mgr[m].key \in Nat /\ mgr[m].key > 0
    <3>1. mgr[m].key \in Epochs
      BY RunTypes DEF Manager
    <3>2. node'.slot = mgr[m].key
      BY <1>2, SwapNode
    <3>3. mgr[m].key \in Nat /\ mgr[m].key > 0
      BY <3>1, KeyRotationAssumption DEF Epochs
    <3> QED
      BY <3>2, <3>3
  <2>2. Listed' = Listed /\ UNCHANGED rows
    BY <1>2 DEF Swap, Rotated, Listed, Exists
  <2>3. node'.skipped \/ \A v \in Listed : rows[v].stamp = node'.slot
    BY <1>2, <2>1, SwapLevel
  <2> QED
    BY <2>1, <2>2, <2>3 DEF StampsLevel
<1> QED
  BY <1>1, <1>2, NodeStep

LEMMA HeldStep ==
  ASSUME TypeInv, SkipInv, [Next]_vars, NEW m \in Managers
  PROVE  HeldFine(m)'
<1>1. /\ mgr[m].key \in Nat /\ mgr[m].epoch \in Nat /\ node.epoch \in Nat
      /\ node'.epoch \in Nat /\ node.epoch <= node'.epoch /\ HeldFine(m)
      /\ \A key \in Epochs : key \in Nat
  BY RunTypes, EpochStep DEF Manager, Epochs, SkipInv
<1> QED
  BY <1>1, RunTold DEF HeldFine

\* A step that leaves the runs and the requests alone.
LEMMA LevelsOthers ==
  ASSUME TypeInv, BlobInv, SkipInv, [Next]_vars, UNCHANGED <<mgr, puts>>
  PROVE  RunsLevel'
<1>1. /\ \A m \in Managers : mgr[m].epoch \in Nat /\ mgr[m].epoch <= node.epoch
      /\ node.epoch \in Nat /\ \A v \in Listed : rows[v].stamp \in Nat
  BY RunTypes DEF SkipInv, HeldFine
<1>2. AwaitFine'
  BY <1>1, StampsGrow, Shapes, RunTypes DEF SkipInv, RunsLevel, AwaitFine
<1>3. ASSUME NEW m \in Managers PROVE RunLevels(mgr[m])'
  BY <1>1, StampsGrow DEF SkipInv, RunsLevel, RunLevels
<1> QED
  BY <1>2, <1>3 DEF RunsLevel

\* A step of a client alone, which waits for nothing: its run is now k.
LEMMA LevelsClient ==
  ASSUME TypeInv, SkipInv, NEW m \in Managers, NEW k,
         mgr' = [mgr EXCEPT ![m] = k], RunLevels(k), UNCHANGED rows,
         \A p \in puts' : p.awaited => p \in puts /\ p.by # m
  PROVE  RunsLevel'
<1>1. Listed' = Listed
  BY DEF Listed, Exists
<1>2. mgr'[m] = k /\ \A n \in Managers : n # m => mgr'[n] = mgr[n]
  BY RunTypes
<1>3. AwaitFine'
  BY <1>2, RunTypes DEF SkipInv, RunsLevel, AwaitFine
<1>4. ASSUME NEW n \in Managers PROVE RunLevels(mgr[n])'
  <2>1. RunLevels(mgr'[n])
    BY <1>2 DEF SkipInv, RunsLevel
  <2> QED
    BY <1>1, <2>1 DEF RunLevels
<1> QED
  BY <1>3, <1>4 DEF RunsLevel

\* While a manager waits for nothing, none of its requests is awaited.
LEMMA NoneAwaited ==
  ASSUME TypeInv, SkipInv, NEW m \in Managers,
         mgr[m].at = None \/ mgr[m].pc \notin {"catchUp", "reencrypt"}
  PROVE  \A p \in puts : p.awaited => p.by # m
BY RunTypes DEF SkipInv, RunsLevel, AwaitFine

LEMMA LevelsManager ==
  ASSUME TypeInv, SkipInv, NEW m \in Managers,
         \/ \E goal \in {"repair", "rotate"}, key \in Epochs : Open(m, goal, key)
         \/ \E answered \in BOOLEAN : Swap(m, answered)
         \/ ListStale(m) \/ EndCatchUp(m) \/ SwapConflict(m) \/ Relist(m) \/ EndRotation(m)
         \/ Abandon(m) \/ \E v \in Vers : SkipVersion(m, v)
  PROVE  RunsLevel'
<1>0. /\ mgr[m] \in Manager /\ RunLevels(mgr[m]) /\ node.epoch \in Nat /\ mgr[m].epoch \in Nat
      /\ \A v \in Listed : rows[v].stamp \in Nat /\ rows[v].stamp > 0
  BY RunTypes DEF SkipInv, RunsLevel
<1>1. mgr[m].at = None \/ mgr[m].pc \notin {"catchUp", "reencrypt"}
  BY DEF Open, Swap, Rotated, ListStale, EndCatchUp, SwapConflict, Relist, EndRotation, Abandon,
         SkipVersion
<1>2. UNCHANGED <<rows, puts>>
  BY DEF Open, Swap, Rotated, ListStale, EndCatchUp, SwapConflict, Relist, EndRotation, Abandon,
         SkipVersion
<1>k. ASSUME NEW k, mgr' = [mgr EXCEPT ![m] = k], RunLevels(k) PROVE RunsLevel'
  BY <1>1, <1>2, <1>k, NoneAwaited, LevelsClient
<1>p. ASSUME NEW k, mgr' = [mgr EXCEPT ![m] = k], k.pc \notin {"catchUp", "swap"} PROVE RunsLevel'
  BY <1>k, <1>p DEF RunLevels
<1>i. ASSUME Idle(m) PROVE RunsLevel'
  <2> DEFINE k == [mgr[m] EXCEPT !.pc = "idle", !.todo = {}, !.at = None]
  <2>1. k.pc = "idle" /\ mgr' = [mgr EXCEPT ![m] = k]
    BY <1>0, <1>i DEF Idle, Manager
  <2> HIDE DEF k
  <2> QED
    BY <1>p, <2>1
<1>3. ASSUME NEW goal \in {"repair", "rotate"}, NEW key \in Epochs, Open(m, goal, key)
      PROVE  RunsLevel'
  <2>1. PICK g : mgr' = [mgr EXCEPT ![m] =
            [@ EXCEPT !.pc = IF node.slot = 0 THEN "swap" ELSE "opened",
                      !.goal = g, !.epoch = node.epoch, !.slot = node.slot,
                      !.key = key, !.to = key, !.failed = FALSE]]
    BY <1>3 DEF Open
  <2> DEFINE k == [mgr[m] EXCEPT !.pc = IF node.slot = 0 THEN "swap" ELSE "opened",
                      !.goal = g, !.epoch = node.epoch, !.slot = node.slot,
                      !.key = key, !.to = key, !.failed = FALSE]
  <2>2. /\ k.pc = (IF node.slot = 0 THEN "swap" ELSE "opened") /\ k.epoch = node.epoch
        /\ mgr' = [mgr EXCEPT ![m] = k]
    BY <1>0, <2>1 DEF Manager
  <2> HIDE DEF k
  <2>3. node.slot = 0 => \A v \in Listed : rows[v].stamp >= node.epoch
    BY <1>0 DEF SkipInv, StampsLevel
  <2>4. RunLevels(k)
    BY <2>2, <2>3 DEF RunLevels
  <2> QED
    BY <1>k, <2>2, <2>4
<1>4. ASSUME NEW answered \in BOOLEAN, Swap(m, answered) PROVE RunsLevel'
  <2>1. CASE answered
    <3> DEFINE k == [mgr[m] EXCEPT !.pc = "relist", !.to = node'.epoch]
    <3>1. k.pc = "relist" /\ mgr' = [mgr EXCEPT ![m] = k]
      BY <1>0, <1>4, <2>1 DEF Swap, Rotated, Manager
    <3> HIDE DEF k
    <3> QED
      BY <1>p, <3>1
  <2>2. CASE ~answered
    BY <1>i, <1>4, <2>2 DEF Swap, Rotated
  <2> QED
    BY <2>1, <2>2
<1>5. ASSUME ListStale(m) PROVE RunsLevel'
  <2> SUFFICES ASSUME ~Idle(m) PROVE RunsLevel'
    BY <1>i
  <2> DEFINE k == [mgr[m] EXCEPT !.pc = "catchUp", !.todo = Stale(mgr[m].epoch)]
  <2>1. /\ k.pc = "catchUp" /\ k.todo = Stale(mgr[m].epoch) /\ k.epoch = mgr[m].epoch
    BY <1>0 DEF Manager
  <2>2. mgr' = [mgr EXCEPT ![m] = k]
    BY <1>5 DEF ListStale
  <2> HIDE DEF k
  <2>3. \A v \in Listed : rows[v].stamp >= k.epoch \/ v \in k.todo
    BY <1>0, <2>1 DEF Stale
  <2> QED
    BY <1>k, <2>1, <2>2, <2>3 DEF RunLevels
<1>6. ASSUME EndCatchUp(m) PROVE RunsLevel'
  <2> SUFFICES ASSUME ~Idle(m) PROVE RunsLevel'
    BY <1>i
  <2> DEFINE k == [mgr[m] EXCEPT !.pc = "swap"]
  <2>1. /\ k.pc = "swap" /\ k.epoch = mgr[m].epoch
        /\ mgr[m].pc = "catchUp" /\ mgr[m].todo = {} /\ mgr[m].at = None /\ ~mgr[m].failed
        /\ mgr' = [mgr EXCEPT ![m] = k]
    BY <1>0, <1>6 DEF EndCatchUp, Manager
  <2> HIDE DEF k
  <2>2. RunLevels(k)
    BY <1>0, <2>1, KeyRotationAssumption DEF RunLevels, Listed
  <2> QED
    BY <1>k, <2>1, <2>2
<1>7. ASSUME Relist(m) PROVE RunsLevel'
  <2> DEFINE k == [mgr[m] EXCEPT !.pc = "reencrypt", !.todo = Stale(mgr[m].to)]
  <2>1. k.pc = "reencrypt" /\ mgr' = [mgr EXCEPT ![m] = k]
    BY <1>0, <1>7 DEF Relist, Manager
  <2> HIDE DEF k
  <2> QED
    BY <1>p, <2>1
<1>8. ASSUME EndRotation(m) PROVE RunsLevel'
  <2>1. PICK d : mgr' = [mgr EXCEPT ![m] = [@ EXCEPT !.pc = "idle", !.done = d]]
    BY <1>8 DEF EndRotation
  <2> DEFINE k == [mgr[m] EXCEPT !.pc = "idle", !.done = d]
  <2>2. k.pc = "idle" /\ mgr' = [mgr EXCEPT ![m] = k]
    BY <1>0, <2>1 DEF Manager
  <2> HIDE DEF k
  <2> QED
    BY <1>p, <2>2
<1>9. ASSUME NEW v \in Vers, SkipVersion(m, v) PROVE RunsLevel'
  <2> DEFINE k == [mgr[m] EXCEPT !.todo = mgr[m].todo \ {v}, !.failed = TRUE]
  <2>1. k.pc \in {"catchUp", "reencrypt"} /\ k.failed /\ mgr' = [mgr EXCEPT ![m] = k]
    BY <1>0, <1>9 DEF Manager, SkipVersion
  <2> HIDE DEF k
  <2> QED
    BY <1>k, <2>1 DEF RunLevels
<1>10. ASSUME SwapConflict(m) \/ Abandon(m) PROVE RunsLevel'
  BY <1>i, <1>10 DEF SwapConflict, Abandon
<1> QED
  BY <1>3, <1>4, <1>5, <1>6, <1>7, <1>8, <1>9, <1>10

LEMMA LevelsGiveUp ==
  ASSUME TypeInv, SkipInv, NEW m \in Managers, NEW stop \in BOOLEAN, GiveUp(m, stop)
  PROVE  RunsLevel'
<1>1. /\ UNCHANGED rows
      /\ puts' = {IF p.by = m THEN [p EXCEPT !.awaited = FALSE] ELSE p : p \in puts}
  BY DEF GiveUp
<1>2. mgr[m] \in Manager /\ \A p \in puts : p \in Put
  BY RunTypes
<1>3. PICK k : /\ mgr' = [mgr EXCEPT ![m] = k]
               /\ k.pc = "idle" \/ (k.pc = mgr[m].pc /\ k.epoch = mgr[m].epoch /\ k.failed)
  <2>1. CASE stop
    <3> DEFINE k == [mgr[m] EXCEPT !.pc = "idle", !.todo = {}, !.at = None]
    <3>1. k.pc = "idle" /\ mgr' = [mgr EXCEPT ![m] = k]
      BY <1>2, <2>1 DEF GiveUp, Idle, Manager
    <3> QED
      BY <3>1
  <2>2. CASE ~stop
    <3> DEFINE k == [mgr[m] EXCEPT !.at = None, !.failed = TRUE]
    <3>1. k.pc = mgr[m].pc /\ k.epoch = mgr[m].epoch /\ k.failed /\ mgr' = [mgr EXCEPT ![m] = k]
      BY <1>2, <2>2 DEF GiveUp, Manager
    <3> QED
      BY <3>1
  <2> QED
    BY <2>1, <2>2
<1>4. RunLevels(k)
  BY <1>3 DEF SkipInv, RunsLevel, RunLevels
<1>5. \A p \in puts' : p.awaited => p \in puts /\ p.by # m
  BY <1>1, <1>2 DEF Put
<1> QED
  BY <1>1, <1>3, <1>4, <1>5, LevelsClient

LEMMA LevelsReencrypt ==
  ASSUME TypeInv, SkipInv, NEW m \in Managers, NEW v \in Vers, NEW r \in Refs, Reencrypt(m, v, r)
  PROVE  RunsLevel'
<1> DEFINE n == [by |-> m, ver |-> v, ref |-> r, old |-> None, awaited |-> TRUE]
           k == [mgr[m] EXCEPT !.at = v, !.todo = mgr[m].todo \ {v}]
<1>1. /\ mgr[m].pc \in {"catchUp", "reencrypt"} /\ mgr[m].at = None
      /\ puts' = puts \cup {n} /\ mgr' = [mgr EXCEPT ![m] = k] /\ UNCHANGED rows
  BY DEF Reencrypt
<1>2. /\ n.by = m /\ n.ver = v /\ n.old = None /\ n.awaited
      /\ k.pc = mgr[m].pc /\ k.at = v /\ k.todo = mgr[m].todo \ {v}
      /\ k.epoch = mgr[m].epoch /\ k.failed = mgr[m].failed
  BY RunTypes DEF Manager
<1> HIDE DEF n, k
<1>3. (\A p \in puts : p.awaited => p.by # m) /\ RunLevels(mgr[m])
  BY <1>1, NoneAwaited DEF SkipInv, RunsLevel
<1>4. Listed' = Listed
  BY <1>1 DEF Listed, Exists
<1>5. mgr'[m] = k /\ \A o \in Managers : o # m => mgr'[o] = mgr[o]
  BY <1>1, RunTypes
<1>6. AwaitFine'
  <2>1. ASSUME NEW p \in puts', p.awaited
        PROVE  /\ mgr'[p.by].at = p.ver
               /\ mgr'[p.by].pc \in {"catchUp", "reencrypt"}
               /\ p.old # None => rows[p.ver].stamp >= mgr'[p.by].epoch
               /\ \A q \in puts' : q.awaited /\ q.by = p.by => q = p
    <3>1. CASE p = n
      BY <1>1, <1>2, <1>3, <1>5, <3>1
    <3>2. CASE p # n
      BY <1>1, <1>2, <1>3, <1>5, <2>1, <3>2, RunTypes DEF SkipInv, RunsLevel, AwaitFine
    <3> QED
      BY <3>1, <3>2
  <2> QED
    BY <1>1, <2>1 DEF AwaitFine
<1>7. RunLevels(k)
  BY <1>1, <1>2, <1>3, KeyRotationAssumption DEF RunLevels, Listed
<1>8. ASSUME NEW o \in Managers PROVE RunLevels(mgr[o])'
  <2>1. RunLevels(mgr'[o])
    BY <1>5, <1>7 DEF SkipInv, RunsLevel
  <2> QED
    BY <1>1, <1>4, <2>1 DEF RunLevels
<1> QED
  BY <1>6, <1>8 DEF RunsLevel

LEMMA LevelsCommit ==
  ASSUME TypeInv, BlobInv, SkipInv, [Next]_vars, NEW p \in puts, PutCommit(p)
  PROVE  RunsLevel'
<1>1. /\ Listed' = Listed /\ p.ver \in Listed /\ rows'[p.ver].stamp = node.epoch
      /\ \A v \in Listed : rows'[v].stamp \in Nat /\ rows'[v].stamp >= rows[v].stamp
  BY ReplacedVersion, StampsGrow
<1> DEFINE n == [p EXCEPT !.old = rows[p.ver].ref]
<1>2. UNCHANGED mgr /\ puts' = (puts \ {p}) \cup {n}
  BY DEF PutCommit, Replacement
<1>3. n.by = p.by /\ n.ver = p.ver /\ n.awaited = p.awaited
  BY Shapes DEF Put
<1> HIDE DEF n
<1>4. /\ \A m \in Managers : mgr[m].epoch \in Nat /\ mgr[m].epoch <= node.epoch
      /\ node.epoch \in Nat /\ \A v \in Listed : rows[v].stamp \in Nat
  BY RunTypes DEF SkipInv, HeldFine
<1>5. AwaitFine'
  <2>1. ASSUME NEW q \in puts', q.awaited
        PROVE  /\ mgr[q.by].at = q.ver
               /\ mgr[q.by].pc \in {"catchUp", "reencrypt"}
               /\ q.old # None => rows'[q.ver].stamp >= mgr[q.by].epoch
               /\ \A o \in puts' : o.awaited /\ o.by = q.by => o = q
    <3>1. CASE q = n
      BY <1>1, <1>2, <1>3, <1>4, <2>1, <3>1, RunTypes DEF SkipInv, RunsLevel, AwaitFine
    <3>2. CASE q # n
      <4>1. q \in puts /\ q # p /\ q.ver \in Listed /\ q.by \in Managers
        BY <1>2, <2>1, <3>2, Shapes, RunTypes
      <4> QED
        BY <1>1, <1>2, <1>3, <1>4, <2>1, <4>1 DEF SkipInv, RunsLevel, AwaitFine
    <3> QED
      BY <3>1, <3>2
  <2> QED
    BY <1>2, <2>1 DEF AwaitFine
<1>6. ASSUME NEW m \in Managers PROVE RunLevels(mgr[m])'
  BY <1>1, <1>2, <1>4 DEF SkipInv, RunsLevel, RunLevels
<1> QED
  BY <1>5, <1>6 DEF RunsLevel

LEMMA LevelsAnswer ==
  ASSUME TypeInv, BlobInv, SkipInv, NEW p \in puts, PutRefuse(p) \/ PutFinish(p) \/ PutCrash(p)
  PROVE  RunsLevel'
<1>1. PICK ok \in BOOLEAN :
        /\ Answer(p, ok) /\ (ok => p.old # None)
        /\ puts' = puts \ {p} /\ UNCHANGED rows
  BY PutEnds
<1>2. Listed' = Listed
  BY <1>1 DEF Listed, Exists
<1>3. CASE ~p.awaited
  <2>1. UNCHANGED mgr
    BY <1>1, <1>3 DEF Answer
  <2>2. AwaitFine'
    BY <1>1, <2>1 DEF SkipInv, RunsLevel, AwaitFine
  <2>3. ASSUME NEW m \in Managers PROVE RunLevels(mgr[m])'
    BY <1>1, <1>2, <2>1 DEF SkipInv, RunsLevel, RunLevels
  <2> QED
    BY <2>2, <2>3 DEF RunsLevel
<1>4. CASE p.awaited
  <2>1. /\ p.by \in Managers /\ mgr[p.by].at = p.ver
        /\ p.old # None => rows[p.ver].stamp >= mgr[p.by].epoch
        /\ \A q \in puts' : q.awaited => q \in puts /\ q.by # p.by
        /\ RunLevels(mgr[p.by]) /\ mgr[p.by] \in Manager /\ mgr[p.by].pc # "swap"
    BY <1>1, <1>4, RunTypes DEF SkipInv, RunsLevel, AwaitFine
  <2> DEFINE k == [mgr[p.by] EXCEPT !.at = None, !.failed = mgr[p.by].failed \/ ~ok]
  <2>2. mgr' = [mgr EXCEPT ![p.by] = k]
    BY <1>1, <1>4 DEF Answer
  <2>3. k.pc = mgr[p.by].pc /\ k.epoch = mgr[p.by].epoch /\ k.todo = mgr[p.by].todo
    BY <2>1 DEF Manager
  <2>4. k.failed <=> mgr[p.by].failed \/ ~ok
    BY <2>1, ZenonT(60) DEF Manager
  <2> HIDE DEF k
  <2>5. RunLevels(k)
    BY <1>1, <2>1, <2>3, <2>4 DEF RunLevels
  <2> QED
    BY <1>1, <2>1, <2>2, <2>5, LevelsClient
<1> QED
  BY <1>3, <1>4

LEMMA RunsLevelStep ==
  ASSUME TypeInv, BlobInv, SkipInv, [Next]_vars
  PROVE  RunsLevel'
<1>1. CASE UNCHANGED <<mgr, puts>>
  BY <1>1, LevelsOthers
<1>2. \/ UNCHANGED <<mgr, puts>>
      \/ \E m \in Managers :
           \/ \E goal \in {"repair", "rotate"}, key \in Epochs : Open(m, goal, key)
           \/ \E answered \in BOOLEAN : Swap(m, answered)
           \/ ListStale(m) \/ EndCatchUp(m) \/ SwapConflict(m) \/ Relist(m) \/ EndRotation(m)
           \/ Abandon(m) \/ \E v \in Vers : SkipVersion(m, v)
      \/ \E m \in Managers, stop \in BOOLEAN : GiveUp(m, stop)
      \/ \E m \in Managers, v \in Vers, r \in Refs : Reencrypt(m, v, r)
      \/ \E p \in puts : PutCommit(p)
      \/ \E p \in puts : PutRefuse(p) \/ PutFinish(p) \/ PutCrash(p)
  BY ZenonT(60)
  DEF Next, ManagerStep, PutStep, BeginUpload, CommitUpload, RefuseUpload, RestoreRead,
      RestoreWrite, RequireRotation, vars
<1> QED
  BY <1>1, <1>2, LevelsManager, LevelsGiveUp, LevelsReencrypt, LevelsCommit, LevelsAnswer

\* A version whose bytes are under the key of its stamp stays readable with the
\* current key and the slot, whatever managers, impatient or not, rotate at once,
\* until one of an older client or with an outdated row has put a replaced key
\* in the slot (nodes.ts:548-552, rotate.ts:309-325).
THEOREM StampedCorrect == Spec => []StampedRecoverable
<1>1. Init => SkipInv
  BY DEF Init, SkipInv, StampsLevel, RunsLevel, AwaitFine, RunLevels, HeldFine, Listed, Exists
<1>2. TypeInv /\ BlobInv /\ LagInv /\ SkipInv /\ [Next]_vars => SkipInv'
  BY StampsLevelStep, RunsLevelStep, HeldStep DEF SkipInv
<1>3. SkipInv => StampedRecoverable
  BY DEF SkipInv, StampsLevel, StampedRecoverable
<1> QED
  BY <1>1, <1>2, <1>3, TypeInvariant, BlobInvariant, LagInvariant, PTL DEF Spec

-----------------------------------------------------------------------------
(* What a download returns, whoever rotates and uploads.                   *)

\* The node serves the bytes of its current version however many managers,
\* writers and crashes there are, as long as no version is restored
\* (versions.ts:157-164, nodes.ts:707-712).
THEOREM ServesCorrect ==
  ASSUME Restorers = {}
  PROVE  Spec => []NodeServesCurrentVersion
<1>1. Init => NodeServesCurrentVersion
  BY DEF Init, NodeServesCurrentVersion
<1>2. ASSUME TypeInv, NodeServesCurrentVersion, [Next]_vars PROVE NodeServesCurrentVersion'
  <2>0. node \in Node /\ rows \in [Vers -> Row \cup {None}] /\ None \notin Vers
    BY <1>2, KeyRotationAssumption DEF TypeInv, TypeOK
  <2>1. ASSUME UNCHANGED rows, node'.current = node.current, node'.ref = node.ref
        PROVE  NodeServesCurrentVersion'
    BY <1>2, <2>1 DEF NodeServesCurrentVersion
  <2>2. ASSUME NEW p \in puts, PutCommit(p) PROVE NodeServesCurrentVersion'
    <3>1. p.ver \in Vers /\ rows[p.ver] \in Row
      BY <1>2, Shapes DEF Listed
    <3>2. /\ rows' = [rows EXCEPT ![p.ver] = [rows[p.ver] EXCEPT !.stamp = node.epoch, !.ref = p.ref]]
          /\ node' = IF node.current = p.ver THEN [node EXCEPT !.ref = p.ref] ELSE node
      BY <2>2 DEF PutCommit, Replacement
    <3>3. /\ rows'[p.ver].ref = p.ref
          /\ \A v \in Vers : v # p.ver => rows'[v] = rows[v]
      BY <2>0, <3>1, <3>2 DEF Row
    <3>4. node'.current = node.current
      BY <2>0, <3>2 DEF Node
    <3>5. CASE node.current = p.ver
      <4>1. node'.ref = p.ref
        BY <2>0, <3>2, <3>5 DEF Node
      <4> QED
        BY <2>0, <3>1, <3>3, <3>4, <3>5, <4>1 DEF NodeServesCurrentVersion
    <3>6. CASE node.current # p.ver
      BY <1>2, <2>0, <3>2, <3>3, <3>6 DEF NodeServesCurrentVersion, Node
    <3> QED
      BY <3>5, <3>6
  <2>3. ASSUME NEW w \in Writers, NEW v \in Vers, CommitUpload(w, v) PROVE NodeServesCurrentVersion'
    <3>1. node'.current = v /\ node'.ref = upload[w].ref /\ rows'[v].ref = upload[w].ref
      BY <2>0, <2>3 DEF CommitUpload, Node
    <3> QED
      BY <2>0, <3>1 DEF NodeServesCurrentVersion
  <2>4. ASSUME NEW m \in Managers, NEW answered \in BOOLEAN, Swap(m, answered)
        PROVE NodeServesCurrentVersion'
    BY <1>2, <2>1, <2>4, SwapNode DEF Swap, Rotated
  <2>5. CASE RequireRotation
    BY <2>0, <2>1, <2>5 DEF RequireRotation, Node
  <2>6. CASE UNCHANGED <<node, rows>>
    BY <2>1, <2>6
  <2> QED
    BY <1>2, <2>2, <2>3, <2>4, <2>5, <2>6, ZenonT(60)
    DEF Next, ManagerStep, PutStep, Open, ListStale, EndCatchUp, SwapConflict, Relist,
        EndRotation, SkipVersion, Reencrypt, Abandon, GiveUp, PutRefuse, PutFinish, PutCrash,
        BeginUpload, RefuseUpload, vars
<1> QED
  BY <1>1, <1>2, TypeInvariant, PTL DEF Spec
=============================================================================
