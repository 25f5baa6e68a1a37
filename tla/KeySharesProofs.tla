-------------------------- MODULE KeySharesProofs --------------------------
(***************************************************************************)
(* Proofs about KeyShares for any users, nodes and number of requests: the *)
(* types, and that wrapped keys can always be opened.                      *)
(***************************************************************************)
EXTENDS KeyShares, TLAPS

\* A request about the team was prepared while there was one, and a deleted team
\* has no row left.
Requested ==
    \A u \in Users : req[u] # None =>
        /\ req[u].kind = "share" /\ req[u].to = Team => req[u].gen # 0
        /\ req[u].kind = "rotate" /\ Team \in req[u].principals => req[u].teamGen # 0

TeamGone == team.gen = 0 => \A n \in Nodes : share[n][Team] = None

OpenInv == RowsOpenUnlessOvertaken /\ TeamGone

Inv == TypeOK /\ Requested /\ OpenInv

LEMMA Numbers == 1 \in Epochs /\ 1 \in Gens /\ Epochs \subseteq Nat /\ Gens \subseteq Nat
                 /\ Gens \subseteq 0..MaxGen /\ 0 \in 0..MaxGen /\ 0 \in 0..MaxRequests
                 /\ None \notin Row /\ None \notin Request
                 /\ Team \notin Users /\ Org \notin Users /\ Team # Org
  BY KeySharesAssumption DEF Epochs, Gens

LEMMA Requests ==
  ASSUME TypeOK, NEW u \in Users, req[u] # None
  PROVE  /\ req[u].kind = "share"  => req[u] \in ShareRequest
         /\ req[u].kind = "grant"  => req[u] \in GrantRequest
         /\ req[u].kind = "rotate" => req[u] \in RotateRequest
         /\ req[u].kind = "member" => req[u] \in MemberRequest
         /\ req[u].kind = "team"   => req[u] \in TeamRequest
         /\ req[u].kind = "org"    => req[u] \in OrgRequest
  BY DEF TypeOK, Request, ShareRequest, GrantRequest, RotateRequest, MemberRequest, TeamRequest,
         OrgRequest

\* A row under the present key, or one that a client naming no key had wrapped to
\* a replaced one.
OpensWith(row, gen) == row.to = gen \/ row.overtaken

LEMMA SealedRow ==
  ASSUME NEW key \in Epochs, NEW gen \in Gens
  PROVE  Sealed(key, gen) \in Row /\ OpensWith(Sealed(key, gen), gen)
  BY DEF Sealed, Row, OpensWith

LEMMA WrappedRow ==
  ASSUME NEW u \in Users, NEW key \in Epochs, NEW gen \in Gens, NEW now, u \in Legacy \/ gen = now
  PROVE  Wrapped(u, key, gen, now) \in Row /\ OpensWith(Wrapped(u, key, gen, now), now)
<1>1. (u \in Legacy /\ gen # now) \in BOOLEAN
  OBVIOUS
<1> DEFINE late == u \in Legacy /\ gen # now
<1>2. late \in BOOLEAN /\ (gen = now \/ late = TRUE)
  OBVIOUS
<1>3. Wrapped(u, key, gen, now) = [key |-> key, to |-> gen, overtaken |-> late]
  BY DEF Wrapped
<1> HIDE DEF late
<1> QED
  BY <1>2, <1>3 DEF Row, OpensWith

\* RowsOpenUnlessOvertaken with its definitions expanded.
LEMMA Open ==
  RowsOpenUnlessOvertaken <=>
    /\ \A u \in Users : team.wrapped[u] # 0 => team.wrapped[u] = team.gen
    /\ \A n \in Nodes : share[n][Team] # None => OpensWith(share[n][Team], team.gen)
    /\ \A n \in Nodes : share[n][Org] # None => OpensWith(share[n][Org], org.gen)
  BY DEF OpensWith, RowsOpenUnlessOvertaken, Members, HeldBy, Has

LEMMA OpenFrame ==
  ASSUME OpenInv, UNCHANGED <<share, team, org>>
  PROVE  OpenInv'
  BY DEF OpenInv, RowsOpenUnlessOvertaken, TeamGone, Members, HeldBy, Has

-----------------------------------------------------------------------------
(* Requests.                                                               *)

LEMMA PrepareInv ==
  ASSUME Inv, NEW u \in Users, NEW r \in Request, Prepare(u, r),
         r.kind = "share" /\ r.to = Team => r.gen # 0,
         r.kind = "rotate" /\ Team \in r.principals => r.teamGen # 0
  PROVE  Inv'
<1>1. /\ UNCHANGED <<node, share, team, org, granted, unshared, knows>>
      /\ sent < MaxRequests /\ sent' = sent + 1 /\ req' = [req EXCEPT ![u] = r]
  BY DEF Prepare, server, rights
<1>2. sent' \in 0..MaxRequests /\ req' \in [Users -> Request \cup {None}]
  BY <1>1, KeySharesAssumption DEF Inv, TypeOK
<1>3. TypeOK'
  BY <1>1, <1>2 DEF Inv, TypeOK
<1>4. Requested'
  BY <1>1 DEF Inv, TypeOK, Requested
<1>5. OpenInv'
  BY <1>1, OpenFrame DEF Inv
<1> QED
  BY <1>3, <1>4, <1>5 DEF Inv

LEMMA ServeReq ==
  ASSUME Inv, NEW u \in Users, req' = [req EXCEPT ![u] = None]
  PROVE  req' \in [Users -> Request \cup {None}] /\ Requested'
  BY DEF Inv, TypeOK, Requested

LEMMA RememberType ==
  ASSUME TypeOK, Remember
  PROVE  knows' \in [Nodes -> SUBSET Users]
  BY DEF TypeOK, Remember

LEMMA FailInv ==
  ASSUME Inv, NEW u \in Users, Fail(u)
  PROVE  Inv'
<1>1. req' = [req EXCEPT ![u] = None]
      /\ UNCHANGED <<node, share, team, org, sent, granted, unshared, knows>>
  BY DEF Fail, server, rights
<1>2. TypeOK' /\ Requested'
  BY <1>1, ServeReq DEF Inv, TypeOK
<1> QED
  BY <1>1, <1>2, OpenFrame DEF Inv

-----------------------------------------------------------------------------
(* Rows.                                                                   *)

\* One row is written, or deleted.
LEMMA RowWritten ==
  ASSUME TypeOK, NEW n \in Nodes, NEW p \in Principals, NEW row \in Row \cup {None},
         share' = [share EXCEPT ![n][p] = row]
  PROVE  /\ share' \in [Nodes -> [Principals -> Row \cup {None}]]
         /\ \A m \in Nodes, q \in Principals :
              share'[m][q] = IF m = n /\ q = p THEN row ELSE share[m][q]
  BY DEF TypeOK

\* A row of the team or of the organisation that is written is under its present
\* key; the other rows are those of users.
LEMMA GrantOpen ==
  ASSUME OpenInv, TypeOK, NEW n \in Nodes, NEW p \in Principals, NEW row \in Row \cup {None},
         share' = [share EXCEPT ![n][p] = row], UNCHANGED <<team, org>>,
         p = Team => row = None \/ (OpensWith(row, team.gen) /\ team.gen # 0),
         p = Org => row = None \/ OpensWith(row, org.gen)
  PROVE  OpenInv'
<1>1. Team \in Principals /\ Org \in Principals
  BY DEF Principals
<1>2. \A m \in Nodes, q \in Principals :
              share'[m][q] = IF m = n /\ q = p THEN row ELSE share[m][q]
  BY RowWritten
<1>3. \A m \in Nodes : share'[m][Team] # None => OpensWith(share'[m][Team], team'.gen)
  BY <1>1, <1>2 DEF OpenInv, RowsOpenUnlessOvertaken, HeldBy, Has, OpensWith
<1>4. \A m \in Nodes : share'[m][Org] # None => OpensWith(share'[m][Org], org'.gen)
  BY <1>1, <1>2 DEF OpenInv, RowsOpenUnlessOvertaken, HeldBy, Has, OpensWith
<1>5. RowsOpenUnlessOvertaken'
  BY <1>3, <1>4 DEF OpenInv, RowsOpenUnlessOvertaken, HeldBy, Has, Members, OpensWith
<1>6. TeamGone'
  BY <1>1, <1>2 DEF OpenInv, TeamGone
<1> QED
  BY <1>5, <1>6 DEF OpenInv

-----------------------------------------------------------------------------
(* The server's handlers.                                                  *)

LEMMA GrantType ==
  ASSUME TypeOK, NEW n \in Nodes, NEW p \in Principals, NEW row \in Row \cup {None}, Grant(n, p, row)
  PROVE  share' = [share EXCEPT ![n][p] = row] /\ granted' \in [Nodes -> SUBSET Principals]
  BY DEF TypeOK, Grant

LEMMA PostShareInv ==
  ASSUME Inv, NEW u \in Users, PostShare(u)
  PROVE  Inv'
<1> DEFINE r   == req[u]
           row == IF r.to = Team THEN Wrapped(u, r.key, r.gen, team.gen) ELSE Sealed(r.key, 1)
<1>0. /\ r # None /\ r.kind = "share" /\ req' = [req EXCEPT ![u] = None]
      /\ r.to = Team => FreshTeam(u, r.gen)
      /\ Grant(r.node, r.to, row)
      /\ UNCHANGED <<node, team, org, sent, unshared>> /\ Remember
  BY DEF PostShare, Serve
<1>1. r \in ShareRequest
  BY <1>0, Requests DEF Inv
<1>2. r.node \in Nodes /\ r.to \in Users \cup {Team} /\ r.key \in Epochs /\ r.gen \in 0..MaxGen
  BY <1>1 DEF ShareRequest
<1>3. r.to = Team => r.gen # 0 /\ team.gen # 0 /\ (u \in Legacy \/ team.gen = r.gen)
  BY <1>0 DEF Inv, Requested, FreshTeam
<1>4. r.to \in Principals /\ r.to # Org
  BY <1>2, Numbers DEF Principals
<1>5. row \in Row /\ (r.to = Team => OpensWith(row, team.gen))
  <2>1. r.to = Team => r.gen \in Gens
    BY <1>2, <1>3, KeySharesAssumption DEF Gens
  <2> QED
    BY <1>2, <1>3, <2>1, Numbers, SealedRow, WrappedRow
<1> HIDE DEF r, row
<1>6. share' = [share EXCEPT ![r.node][r.to] = row] /\ granted' \in [Nodes -> SUBSET Principals]
  BY <1>0, <1>2, <1>4, <1>5, GrantType DEF Inv
<1>7. share' \in [Nodes -> [Principals -> Row \cup {None}]]
  BY <1>2, <1>4, <1>5, <1>6, RowWritten DEF Inv
<1>9. OpenInv'
  <2>1. r.to = Team => row = None \/ (OpensWith(row, team.gen) /\ team.gen # 0)
    BY <1>3, <1>5
  <2> QED
    BY <1>0, <1>2, <1>4, <1>5, <1>6, <2>1, GrantOpen DEF Inv
<1>10. req' \in [Users -> Request \cup {None}] /\ Requested'
  BY <1>0, ServeReq
<1>11. knows' \in [Nodes -> SUBSET Users]
  BY <1>0, RememberType DEF Inv
<1>12. TypeOK'
  BY <1>0, <1>6, <1>7, <1>10, <1>11 DEF Inv, TypeOK
<1> QED
  BY <1>9, <1>10, <1>12 DEF Inv

LEMMA PostGrantInv ==
  ASSUME Inv, NEW u \in Users, PostGrant(u)
  PROVE  Inv'
<1> DEFINE r   == req[u]
           row == Sealed(r.key, 1)
<1>0. /\ r # None /\ r.kind = "grant" /\ req' = [req EXCEPT ![u] = None]
      /\ Grant(r.node, r.to, row)
      /\ UNCHANGED <<node, team, org, sent, unshared>> /\ Remember
  BY DEF PostGrant, Serve
<1>1. r \in GrantRequest
  BY <1>0, Requests DEF Inv
<1>2. r.node \in Nodes /\ r.to \in Principals /\ r.to # Team /\ r.to # Org /\ row \in Row
  BY <1>1, Numbers, SealedRow DEF GrantRequest, Principals
<1> HIDE DEF r, row
<1>3. share' = [share EXCEPT ![r.node][r.to] = row] /\ granted' \in [Nodes -> SUBSET Principals]
  BY <1>0, <1>2, GrantType DEF Inv
<1>4. share' \in [Nodes -> [Principals -> Row \cup {None}]]
  BY <1>2, <1>3, RowWritten DEF Inv
<1>5. OpenInv'
  BY <1>0, <1>2, <1>3, GrantOpen DEF Inv
<1>6. req' \in [Users -> Request \cup {None}] /\ Requested'
  BY <1>0, ServeReq
<1>7. knows' \in [Nodes -> SUBSET Users]
  BY <1>0, RememberType DEF Inv
<1>8. TypeOK'
  BY <1>0, <1>3, <1>4, <1>6, <1>7 DEF Inv, TypeOK
<1> QED
  BY <1>5, <1>6, <1>8 DEF Inv

LEMMA RevokeInv ==
  ASSUME Inv, NEW n \in Nodes, NEW p \in Principals, Revoke(n, p)
  PROVE  Inv'
<1>0. /\ share' = [share EXCEPT ![n][p] = None]
      /\ granted' = [granted EXCEPT ![n] = granted[n] \ {p}]
      /\ unshared' = [unshared EXCEPT ![n] = unshared[n] \cup
                        (IF p = Team THEN Members ELSE {p} \cap Users)]
      /\ UNCHANGED <<node, team, org, req, sent>> /\ Remember
  BY DEF Revoke
<1>1. share' \in [Nodes -> [Principals -> Row \cup {None}]]
  BY <1>0, RowWritten DEF Inv
<1>2. granted' \in [Nodes -> SUBSET Principals] /\ unshared' \in [Nodes -> SUBSET Users]
  BY <1>0 DEF Inv, TypeOK, Members
<1>3. OpenInv'
  BY <1>0, GrantOpen DEF Inv
<1>4. knows' \in [Nodes -> SUBSET Users]
  BY <1>0, RememberType DEF Inv
<1>5. TypeOK'
  BY <1>0, <1>1, <1>2, <1>4 DEF Inv, TypeOK
<1>6. Requested'
  BY <1>0 DEF Inv, Requested
<1> QED
  BY <1>3, <1>5, <1>6 DEF Inv

\* A rotation writes the rows of one node, for the keys the server has.
LEMMA PostRotateInv ==
  ASSUME Inv, NEW u \in Users, PostRotate(u)
  PROVE  Inv'
<1> DEFINE r == req[u]
           epoch == node[r.node].epoch + 1
           row(p) == CASE p = Team -> Wrapped(u, epoch, r.teamGen, team.gen)
                       [] p = Org  -> Wrapped(u, epoch, r.orgGen, org.gen)
                       [] OTHER    -> Sealed(epoch, 1)
           rows == [p \in Principals |-> IF p \in r.principals THEN row(p) ELSE None]
<1>0. /\ r # None /\ r.kind = "rotate" /\ req' = [req EXCEPT ![u] = None]
      /\ FreshKeys(u, r) /\ epoch <= MaxEpoch
      /\ node' = [node EXCEPT ![r.node].epoch = epoch,
                              ![r.node].rotationRequired = FALSE]
      /\ share' = [share EXCEPT ![r.node] = rows]
      /\ unshared' = [unshared EXCEPT ![r.node] = {}]
      /\ UNCHANGED <<team, org, sent, granted>> /\ Remember
  BY DEF PostRotate, Serve
<1>1. r \in RotateRequest
  BY <1>0, Requests DEF Inv
<1>2. /\ r.node \in Nodes /\ r.epoch \in Epochs /\ r.principals \subseteq Principals
      /\ r.teamGen \in 0..MaxGen /\ r.orgGen \in Gens
  BY <1>1 DEF RotateRequest
<1>3. Team \in r.principals =>
         r.teamGen # 0 /\ team.gen # 0 /\ (u \in Legacy \/ r.teamGen = team.gen)
  BY <1>0 DEF Inv, Requested, FreshKeys, FreshTeam
<1>4. Org \in r.principals => u \in Legacy \/ r.orgGen = org.gen
  BY <1>0 DEF FreshKeys
<1>5. node[r.node] \in Node
  BY <1>2 DEF Inv, TypeOK
<1>6. epoch \in Epochs
  BY <1>0, <1>5, KeySharesAssumption DEF Node, Epochs
<1>7. Team \in r.principals => r.teamGen \in Gens
  BY <1>2, <1>3, KeySharesAssumption DEF Gens
<1> HIDE DEF epoch
<1>8. \A p \in r.principals :
        /\ row(p) \in Row
        /\ p = Team => OpensWith(row(p), team.gen)
        /\ p = Org => OpensWith(row(p), org.gen)
  <2> SUFFICES ASSUME NEW p \in r.principals
               PROVE  /\ row(p) \in Row
                      /\ p = Team => OpensWith(row(p), team.gen)
                      /\ p = Org => OpensWith(row(p), org.gen)
    OBVIOUS
  <2>1. CASE p = Team
    <3>1. row(p) = Wrapped(u, epoch, r.teamGen, team.gen) /\ p # Org
      BY <2>1, Numbers
    <3> QED
      BY <1>3, <1>6, <1>7, <2>1, <3>1, WrappedRow
  <2>2. CASE p = Org
    <3>1. row(p) = Wrapped(u, epoch, r.orgGen, org.gen) /\ p # Team
      BY <2>2, Numbers
    <3> QED
      BY <1>2, <1>4, <1>6, <2>2, <3>1, WrappedRow
  <2>3. CASE p # Team /\ p # Org
    <3>1. row(p) = Sealed(epoch, 1)
      BY <2>3
    <3> QED
      BY <1>6, <2>3, <3>1, Numbers, SealedRow
  <2> QED
    BY <2>1, <2>2, <2>3
<1> HIDE DEF row
<1>9. /\ rows \in [Principals -> Row \cup {None}]
      /\ rows[Team] # None => OpensWith(rows[Team], team.gen) /\ team.gen # 0
      /\ rows[Org] # None => OpensWith(rows[Org], org.gen)
  BY <1>3, <1>8, Numbers DEF Principals
<1> HIDE DEF r, rows
<1>10. share' \in [Nodes -> [Principals -> Row \cup {None}]]
  BY <1>0, <1>2, <1>9 DEF Inv, TypeOK
<1>11. \A m \in Nodes : share'[m] = IF m = r.node THEN rows ELSE share[m]
  BY <1>0, <1>2 DEF Inv, TypeOK
<1>12. node' \in [Nodes -> Node]
  <2>2. [node[r.node] EXCEPT !.epoch = epoch, !.rotationRequired = FALSE] \in Node
    BY <1>5, <1>6 DEF Node
  <2>3. node' = [node EXCEPT ![r.node] = [node[r.node] EXCEPT !.epoch = epoch,
                                                              !.rotationRequired = FALSE]]
    BY <1>0, <1>2 DEF Inv, TypeOK
  <2> QED
    BY <2>2, <2>3, <1>2 DEF Inv, TypeOK
<1>13. OpenInv'
  BY <1>0, <1>9, <1>11 DEF Inv, OpenInv, OpensWith, RowsOpenUnlessOvertaken, TeamGone, Members, HeldBy, Has
<1>14. req' \in [Users -> Request \cup {None}] /\ Requested'
  BY <1>0, ServeReq
<1>15. knows' \in [Nodes -> SUBSET Users]
  BY <1>0, RememberType DEF Inv
<1>16. TypeOK'
  BY <1>0, <1>2, <1>10, <1>12, <1>14, <1>15 DEF Inv, TypeOK
<1> QED
  BY <1>13, <1>14, <1>16 DEF Inv

LEMMA PostMemberInv ==
  ASSUME Inv, NEW u \in Users, PostMember(u)
  PROVE  Inv'
<1> DEFINE r == req[u]
<1>0. /\ r # None /\ r.kind = "member" /\ req' = [req EXCEPT ![u] = None]
      /\ u \notin Legacy /\ FreshTeam(u, r.gen)
      /\ team' = [team EXCEPT !.wrapped[r.to] = r.gen]
      /\ UNCHANGED <<node, share, org, sent, granted, unshared>> /\ Remember
  BY DEF PostMember, ServeNew, Serve, rights
<1>1. r \in MemberRequest
  BY <1>0, Requests DEF Inv
<1>2. r.to \in Users /\ r.gen \in 0..MaxGen /\ r.gen = team.gen
  BY <1>0, <1>1, Numbers DEF MemberRequest, FreshTeam
<1> HIDE DEF r
<1>3. /\ team' \in TeamRow /\ team'.gen = team.gen
      /\ \A v \in Users : team'.wrapped[v] = IF v = r.to THEN r.gen ELSE team.wrapped[v]
  BY <1>0, <1>2 DEF Inv, TypeOK, TeamRow
<1>4. OpenInv'
  BY <1>0, <1>2, <1>3 DEF Inv, OpenInv, RowsOpenUnlessOvertaken, TeamGone, Members, HeldBy, Has
<1>5. req' \in [Users -> Request \cup {None}] /\ Requested'
  BY <1>0, ServeReq
<1>6. knows' \in [Nodes -> SUBSET Users]
  BY <1>0, RememberType DEF Inv
<1>7. TypeOK'
  BY <1>0, <1>3, <1>5, <1>6 DEF Inv, TypeOK
<1> QED
  BY <1>4, <1>5, <1>7 DEF Inv

LEMMA FreezeType ==
  ASSUME TypeOK, NEW S, Freeze(S)
  PROVE  node' \in [Nodes -> Node]
<1>1. ASSUME NEW n \in Nodes
      PROVE [node[n] EXCEPT !.rotationRequired = node[n].rotationRequired \/ n \in S] \in Node
  <2>1. \A b \in BOOLEAN : [node[n] EXCEPT !.rotationRequired = b] \in Node
    BY ZenonT(60) DEF TypeOK, Node
  <2>2. (node[n].rotationRequired \/ n \in S) \in BOOLEAN
    OBVIOUS
  <2> QED
    BY <2>1, <2>2, Zenon
<1> QED
  BY <1>1 DEF Freeze

\* The new generation is in every row of the team and with every member left.
LEMMA PostTeamInv ==
  ASSUME Inv, NEW u \in Users, PostTeam(u)
  PROVE  Inv'
<1> DEFINE r    == req[u]
           rows == [n \in DOMAIN r.keys |-> Sealed(r.keys[n][1], r.gen + 1)]
<1>0. /\ r # None /\ r.kind = "team" /\ req' = [req EXCEPT ![u] = None]
      /\ team.gen = r.gen /\ r.gen < MaxGen
      /\ DOMAIN r.keys = HeldBy(Team)
      /\ team' = [gen |-> r.gen + 1, rotationRequired |-> FALSE,
                  wrapped |-> [v \in Users |-> IF v \in r.members THEN r.gen + 1 ELSE 0]]
      /\ share' = [n \in Nodes |-> IF n \in DOMAIN r.keys
                      THEN [share[n] EXCEPT ![Team] = Sealed(r.keys[n][1], r.gen + 1)]
                      ELSE share[n]]
      /\ Freeze(HeldBy(Team))
      /\ UNCHANGED <<org, sent, granted, unshared>> /\ Remember
  BY DEF PostTeam, ServeNew, Serve, Covers, rights
<1>1. r \in TeamRequest
  BY <1>0, Requests DEF Inv
<1>2. /\ r.gen \in Gens /\ DOMAIN r.keys \in SUBSET Nodes
      /\ \A n \in DOMAIN r.keys : r.keys[n][1] \in Epochs
  <2>1. r.gen \in Gens /\ r.keys \in UNION {[S -> Epochs \X Epochs] : S \in SUBSET Nodes}
    BY <1>1 DEF TeamRequest
  <2>2. PICK S \in SUBSET Nodes : r.keys \in [S -> Epochs \X Epochs]
    BY <2>1
  <2> QED
    BY <2>1, <2>2
<1>3. r.gen + 1 \in Gens /\ r.gen + 1 \in 0..MaxGen /\ r.gen + 1 # 0
  BY <1>0, <1>2, KeySharesAssumption DEF Gens
<1>4. rows \in [DOMAIN r.keys -> Row \cup {None}]
  BY <1>2, <1>3, SealedRow
<1>5. share' = [n \in Nodes |-> IF n \in DOMAIN r.keys
                   THEN [share[n] EXCEPT ![Team] = rows[n]] ELSE share[n]]
  BY <1>0
<1>6. \A n \in DOMAIN r.keys : OpensWith(rows[n], r.gen + 1)
  BY <1>2, <1>3, SealedRow
<1>7. team' \in TeamRow
  BY <1>0, <1>3, Numbers DEF TeamRow
<1>8. team'.gen = r.gen + 1 /\ \A v \in Users : team'.wrapped[v] \in {0, r.gen + 1}
  BY <1>0
<1> HIDE DEF r, rows
<1>9. Team \in Principals /\ Org \in Principals /\ Team # Org
  BY Numbers DEF Principals
<1>10. /\ share' \in [Nodes -> [Principals -> Row \cup {None}]]
       /\ \A m \in Nodes, q \in Principals :
            share'[m][q] = IF q = Team /\ m \in DOMAIN r.keys THEN rows[m] ELSE share[m][q]
  BY <1>2, <1>4, <1>5, <1>9 DEF Inv, TypeOK
<1>11. \A m \in Nodes : m \in DOMAIN r.keys <=> share[m][Team] # None
  BY <1>0 DEF HeldBy, Has
<1>12. OpenInv'
  <2>1. \A m \in Nodes : share'[m][Team] # None => OpensWith(share'[m][Team], team'.gen)
    BY <1>6, <1>8, <1>9, <1>10, <1>11
  <2>2. \A m \in Nodes : share'[m][Org] # None => OpensWith(share'[m][Org], org'.gen)
    BY <1>0, <1>9, <1>10 DEF Inv, OpenInv, OpensWith, RowsOpenUnlessOvertaken, HeldBy, Has
  <2>3. \A v \in Users : team'.wrapped[v] # 0 => team'.wrapped[v] = team'.gen
    BY <1>8
  <2>4. RowsOpenUnlessOvertaken' /\ TeamGone'
    BY <1>3, <1>8, <2>1, <2>2, <2>3 DEF OpensWith, RowsOpenUnlessOvertaken, Members, HeldBy, Has, TeamGone
  <2> QED
    BY <2>4 DEF OpenInv
<1>13. node' \in [Nodes -> Node]
  BY <1>0, FreezeType DEF Inv
<1>14. req' \in [Users -> Request \cup {None}] /\ Requested'
  BY <1>0, ServeReq
<1>15. knows' \in [Nodes -> SUBSET Users]
  BY <1>0, RememberType DEF Inv
<1>16. TypeOK'
  BY <1>0, <1>7, <1>10, <1>13, <1>14, <1>15 DEF Inv, TypeOK
<1> QED
  BY <1>12, <1>14, <1>16 DEF Inv

LEMMA DeleteTeamInv ==
  ASSUME Inv, DeleteTeam
  PROVE  Inv'
<1> DEFINE rows == [n \in Nodes |-> None]
<1>0. /\ Freeze(HeldBy(Team))
      /\ team' = [gen |-> 0, rotationRequired |-> FALSE, wrapped |-> [u \in Users |-> 0]]
      /\ share' = [n \in Nodes |-> IF n \in Nodes THEN [share[n] EXCEPT ![Team] = rows[n]]
                                   ELSE share[n]]
      /\ granted' = [n \in Nodes |-> granted[n] \ {Team}]
      /\ UNCHANGED <<org, req, sent, unshared>> /\ Remember
  BY DEF DeleteTeam
<1>1. rows \in [Nodes -> Row \cup {None}] /\ \A n \in Nodes : rows[n] = None
  OBVIOUS
<1>2. Team \in Principals /\ Org \in Principals /\ Team # Org
  BY Numbers DEF Principals
<1> HIDE DEF rows
<1>3. /\ share' \in [Nodes -> [Principals -> Row \cup {None}]]
      /\ \A m \in Nodes, q \in Principals :
           share'[m][q] = IF q = Team /\ m \in Nodes THEN rows[m] ELSE share[m][q]
  BY <1>0, <1>1, <1>2 DEF Inv, TypeOK
<1>4. team' \in TeamRow
  BY <1>0, Numbers DEF TeamRow
<1>5. node' \in [Nodes -> Node]
  BY <1>0, FreezeType DEF Inv
<1>6. OpenInv'
  BY <1>0, <1>1, <1>2, <1>3 DEF Inv, OpenInv, RowsOpenUnlessOvertaken, TeamGone, Members, HeldBy, Has
<1>7. knows' \in [Nodes -> SUBSET Users]
  BY <1>0, RememberType DEF Inv
<1>8. granted' \in [Nodes -> SUBSET Principals]
  BY <1>0 DEF Inv, TypeOK
<1>9. TypeOK'
  BY <1>0, <1>3, <1>4, <1>5, <1>7, <1>8 DEF Inv, TypeOK
<1>10. Requested'
  BY <1>0 DEF Inv, Requested
<1> QED
  BY <1>6, <1>9, <1>10 DEF Inv

LEMMA RemoveFromOrgInv ==
  ASSUME Inv, NEW v \in Users, RemoveFromOrg(v)
  PROVE  Inv'
<1> DEFINE rows == [n \in Nodes |-> None]
<1>0. /\ v \in org.members
      /\ org' = [org EXCEPT !.members = org.members \ {v}]
      /\ team' = [team EXCEPT !.rotationRequired = team.rotationRequired \/ v \in Members,
                              !.wrapped[v] = 0]
      /\ share' = [n \in Nodes |-> IF n \in Nodes THEN [share[n] EXCEPT ![v] = rows[n]]
                                   ELSE share[n]]
      /\ granted' = [n \in Nodes |-> granted[n] \ {v}]
      /\ UNCHANGED <<req, sent, unshared>> /\ Remember
  BY DEF RemoveFromOrg
<1>1. rows \in [Nodes -> Row \cup {None}] /\ \A n \in Nodes : rows[n] = None
  OBVIOUS
<1>2. v \in Principals /\ Team \in Principals /\ Org \in Principals /\ v # Team /\ v # Org
  BY Numbers DEF Principals
<1> HIDE DEF rows
<1>3. /\ share' \in [Nodes -> [Principals -> Row \cup {None}]]
      /\ \A m \in Nodes, q \in Principals :
           share'[m][q] = IF q = v /\ m \in Nodes THEN rows[m] ELSE share[m][q]
  BY <1>0, <1>1, <1>2 DEF Inv, TypeOK
<1>4. team' \in TeamRow /\ team'.gen = team.gen
      /\ \A u \in Users : team'.wrapped[u] = IF u = v THEN 0 ELSE team.wrapped[u]
  <2>1. (team.rotationRequired \/ v \in Members) \in BOOLEAN
    OBVIOUS
  <2>2. \A b \in BOOLEAN : [team EXCEPT !.rotationRequired = b, !.wrapped[v] = 0] \in TeamRow
    BY Numbers DEF Inv, TypeOK, TeamRow
  <2>3. team' \in TeamRow
    BY <1>0, <2>1, <2>2, Zenon
  <2> QED
    BY <1>0, <2>3 DEF Inv, TypeOK, TeamRow
<1>5. node' \in [Nodes -> Node]
  <2>1. PICK exposed : node' = [n \in Nodes |->
                    [node[n] EXCEPT !.rotationRequired = node[n].rotationRequired \/ n \in exposed,
                                    !.owner = IF node[n].owner = v THEN Owner ELSE node[n].owner]]
    BY DEF RemoveFromOrg, Heir
  <2>2. ASSUME NEW n \in Nodes
        PROVE [node[n] EXCEPT !.rotationRequired = node[n].rotationRequired \/ n \in exposed,
                              !.owner = IF node[n].owner = v THEN Owner ELSE node[n].owner] \in Node
    <3>1. \A b \in BOOLEAN, o \in Users :
            [node[n] EXCEPT !.rotationRequired = b, !.owner = o] \in Node
      BY ZenonT(60) DEF Inv, TypeOK, Node
    <3>2. (node[n].rotationRequired \/ n \in exposed) \in BOOLEAN
      OBVIOUS
    <3>3. (IF node[n].owner = v THEN Owner ELSE node[n].owner) \in Users
      BY KeySharesAssumption DEF Inv, TypeOK, Node
    <3> QED
      BY <3>1, <3>2, <3>3, Zenon
  <2> QED
    BY <2>1, <2>2
<1>6. OpenInv'
  <2>1. org'.gen = org.gen
    BY <1>0 DEF Inv, TypeOK
  <2> QED
    BY <1>1, <1>2, <1>3, <1>4, <2>1
       DEF Inv, OpenInv, RowsOpenUnlessOvertaken, TeamGone, Members, HeldBy, Has
<1>7. knows' \in [Nodes -> SUBSET Users]
  BY <1>0, RememberType DEF Inv
<1>8. granted' \in [Nodes -> SUBSET Principals] /\ org' \in [gen : Gens, members : SUBSET Users]
  BY <1>0 DEF Inv, TypeOK
<1>9. TypeOK'
  BY <1>0, <1>3, <1>4, <1>5, <1>7, <1>8 DEF Inv, TypeOK
<1>10. Requested'
  BY <1>0 DEF Inv, Requested
<1> QED
  BY <1>6, <1>9, <1>10 DEF Inv

LEMMA PostOrgInv ==
  ASSUME Inv, NEW u \in Users, PostOrg(u)
  PROVE  Inv'
<1> DEFINE r    == req[u]
           rows == [n \in DOMAIN r.keys |-> Sealed(r.keys[n], r.gen + 1)]
<1>0. /\ r # None /\ r.kind = "org" /\ req' = [req EXCEPT ![u] = None]
      /\ org.gen = r.gen /\ r.gen < MaxGen
      /\ DOMAIN r.keys = HeldBy(Org)
      /\ org' = [org EXCEPT !.gen = org.gen + 1]
      /\ share' = [n \in Nodes |-> IF n \in DOMAIN r.keys
                      THEN [share[n] EXCEPT ![Org] = Sealed(r.keys[n], r.gen + 1)]
                      ELSE share[n]]
      /\ UNCHANGED <<node, team, sent, granted, unshared>> /\ Remember
  BY DEF PostOrg, ServeNew, Serve, rights
<1>1. r \in OrgRequest
  BY <1>0, Requests DEF Inv
<1>2. /\ r.gen \in Gens /\ DOMAIN r.keys \in SUBSET Nodes
      /\ \A n \in DOMAIN r.keys : r.keys[n] \in Epochs
  <2>1. r.gen \in Gens /\ r.keys \in UNION {[S -> Epochs] : S \in SUBSET Nodes}
    BY <1>1 DEF OrgRequest
  <2>2. PICK S \in SUBSET Nodes : r.keys \in [S -> Epochs]
    BY <2>1
  <2> QED
    BY <2>1, <2>2
<1>3. r.gen + 1 \in Gens
  BY <1>0, <1>2, KeySharesAssumption DEF Gens
<1>4. /\ rows \in [DOMAIN r.keys -> Row \cup {None}]
      /\ \A n \in DOMAIN r.keys : OpensWith(rows[n], r.gen + 1)
  BY <1>2, <1>3, SealedRow
<1>5. share' = [n \in Nodes |-> IF n \in DOMAIN r.keys
                   THEN [share[n] EXCEPT ![Org] = rows[n]] ELSE share[n]]
  BY <1>0
<1>6. org' \in [gen : Gens, members : SUBSET Users] /\ org'.gen = r.gen + 1
  BY <1>0, <1>3 DEF Inv, TypeOK
<1> HIDE DEF r, rows
<1>7. Team \in Principals /\ Org \in Principals /\ Team # Org
  BY Numbers DEF Principals
<1>8. /\ share' \in [Nodes -> [Principals -> Row \cup {None}]]
      /\ \A m \in Nodes, q \in Principals :
           share'[m][q] = IF q = Org /\ m \in DOMAIN r.keys THEN rows[m] ELSE share[m][q]
  BY <1>2, <1>4, <1>5, <1>7 DEF Inv, TypeOK
<1>9. \A m \in Nodes : m \in DOMAIN r.keys <=> share[m][Org] # None
  BY <1>0 DEF HeldBy, Has
<1>10. OpenInv'
  <2>1. \A m \in Nodes : share'[m][Org] # None => OpensWith(share'[m][Org], org'.gen)
    BY <1>4, <1>6, <1>7, <1>8, <1>9
  <2>2. /\ \A m \in Nodes : share'[m][Team] = share[m][Team]
        /\ team' = team
    BY <1>0, <1>7, <1>8
  <2> QED
    BY <2>1, <2>2 DEF Inv, OpenInv, OpensWith, RowsOpenUnlessOvertaken, TeamGone, Members, HeldBy, Has
<1>11. req' \in [Users -> Request \cup {None}] /\ Requested'
  BY <1>0, ServeReq
<1>12. knows' \in [Nodes -> SUBSET Users]
  BY <1>0, RememberType DEF Inv
<1>13. TypeOK'
  BY <1>0, <1>6, <1>8, <1>11, <1>12 DEF Inv, TypeOK
<1> QED
  BY <1>10, <1>11, <1>13 DEF Inv

-----------------------------------------------------------------------------
(* The clients' requests are well formed.                                  *)

LEMMA RowTypes ==
  ASSUME TypeOK, NEW n \in Nodes, NEW p \in Principals, Has(n, p)
  PROVE  share[n][p].key \in Epochs /\ share[n][p].to \in Gens
  BY DEF TypeOK, Has, Row

LEMMA MemberGens ==
  ASSUME TypeOK, NEW g \in 0..MaxGen, g # 0
  PROVE  g \in Gens
  BY KeySharesAssumption DEF Gens

LEMMA PrepareShareInv ==
  ASSUME Inv, NEW u \in Users, NEW n \in Nodes, NEW p \in Principals, PrepareShare(u, n, p)
  PROVE  Inv'
<1> DEFINE r == [kind |-> "share", node |-> n, to |-> p, key |-> MyRow(u, n).key, gen |-> team.gen]
<1>1. p \in Users \cup {Team} /\ (p = Team => team.gen # 0) /\ Prepare(u, r)
  BY Numbers DEF PrepareShare, Inv, TypeOK
<1>2. MyRow(u, n) \in Row
  BY DEF PrepareShare, Opens, MyRow, Inv, TypeOK, Principals
<1>3. team.gen \in 0..MaxGen
  BY DEF Inv, TypeOK, TeamRow
<1>4. MyRow(u, n).key \in Epochs
  BY <1>2 DEF Row
<1>5. r \in ShareRequest
  BY <1>1, <1>3, <1>4 DEF ShareRequest
<1>6. r \in Request /\ r.kind = "share" /\ (r.to = Team => r.gen # 0)
  BY <1>1, <1>5 DEF Request
<1> HIDE DEF r
<1> QED
  BY <1>1, <1>6, PrepareInv

LEMMA PrepareGrantInv ==
  ASSUME Inv, NEW n \in Nodes, NEW v \in Users, PrepareGrant(n, v)
  PROVE  Inv'
<1> DEFINE r == [kind |-> "grant", node |-> n, to |-> v, key |-> share[n][Org].key]
<1>1. share[n][Org].key \in Epochs
  BY RowTypes DEF PrepareGrant, Inv, Principals
<1>2. r \in Request /\ r.kind = "grant"
  BY <1>1 DEF GrantRequest, Request
<1>3. Prepare(Owner, r) /\ Owner \in Users
  BY KeySharesAssumption DEF PrepareGrant
<1> HIDE DEF r
<1> QED
  BY <1>2, <1>3, PrepareInv

LEMMA PrepareRotateInv ==
  ASSUME Inv, NEW u \in Users, NEW n \in Nodes, PrepareRotate(u, n)
  PROVE  Inv'
<1> DEFINE r == [kind |-> "rotate", node |-> n, epoch |-> node[n].epoch,
                 principals |-> {p \in Principals : Has(n, p)},
                 teamGen |-> team.gen, orgGen |-> org.gen]
<1>1. node[n].epoch \in Epochs /\ team.gen \in 0..MaxGen /\ org.gen \in Gens
  BY DEF Inv, TypeOK, Node, TeamRow
<1>2. r \in RotateRequest
  BY <1>1 DEF RotateRequest
<1>3. Has(n, Team) => team.gen # 0
  BY DEF Inv, OpenInv, TeamGone, Has
<1>4. r \in Request /\ r.kind = "rotate" /\ (Team \in r.principals => r.teamGen # 0)
  BY <1>2, <1>3 DEF Request
<1>5. Prepare(u, r)
  BY DEF PrepareRotate
<1> HIDE DEF r
<1> QED
  BY <1>4, <1>5, PrepareInv

LEMMA PrepareMemberInv ==
  ASSUME Inv, NEW u \in Users, NEW v \in Users, PrepareMember(u, v)
  PROVE  Inv'
<1> DEFINE r == [kind |-> "member", to |-> v, gen |-> team.wrapped[u]]
<1>1. team.wrapped[u] \in Gens
  BY MemberGens DEF PrepareMember, Members, Inv, TypeOK, TeamRow
<1>2. r \in Request /\ r.kind = "member"
  BY <1>1 DEF MemberRequest, Request
<1>3. Prepare(u, r)
  BY DEF PrepareMember
<1> HIDE DEF r
<1> QED
  BY <1>2, <1>3, PrepareInv

LEMMA PrepareTeamInv ==
  ASSUME Inv, NEW u \in Users, NEW removed \in Users \cup {None}, PrepareTeam(u, removed)
  PROVE  Inv'
<1> DEFINE keys == [n \in HeldBy(Team) |-> <<share[n][Team].key, node[n].epoch>>]
           r    == [kind |-> "team", gen |-> team.gen, removed |-> removed,
                    members |-> Members \ {removed}, keys |-> keys]
<1>1. team.gen \in Gens
  BY MemberGens DEF PrepareTeam, Inv, TypeOK, TeamRow
<1>2. ASSUME NEW n \in HeldBy(Team)
      PROVE <<share[n][Team].key, node[n].epoch>> \in Epochs \X Epochs
  BY <1>2, RowTypes DEF HeldBy, Inv, TypeOK, Node, Principals
<1>3. keys \in [HeldBy(Team) -> Epochs \X Epochs] /\ HeldBy(Team) \in SUBSET Nodes
  BY <1>2 DEF HeldBy
<1> HIDE DEF keys
<1>4. keys \in UNION {[S -> Epochs \X Epochs] : S \in SUBSET Nodes}
  BY <1>3
<1>5. Members \ {removed} \in SUBSET Users
  BY DEF Members
<1>6. r \in Request /\ r.kind = "team"
  BY <1>1, <1>4, <1>5 DEF TeamRequest, Request
<1>7. Prepare(u, r)
  BY DEF PrepareTeam, keys
<1> HIDE DEF r
<1> QED
  BY <1>6, <1>7, PrepareInv

LEMMA PrepareOrgInv ==
  ASSUME Inv, PrepareOrg
  PROVE  Inv'
<1> DEFINE keys == [n \in HeldBy(Org) |-> share[n][Org].key]
           r    == [kind |-> "org", gen |-> org.gen, keys |-> keys]
<1>1. org.gen \in Gens
  BY DEF Inv, TypeOK
<1>2. keys \in [HeldBy(Org) -> Epochs] /\ HeldBy(Org) \in SUBSET Nodes
  BY RowTypes DEF HeldBy, Inv, Principals
<1> HIDE DEF keys
<1>3. keys \in UNION {[S -> Epochs] : S \in SUBSET Nodes}
  BY <1>2
<1>4. r \in Request /\ r.kind = "org"
  BY <1>1, <1>3 DEF OrgRequest, Request
<1>5. Prepare(Owner, r) /\ Owner \in Users
  BY KeySharesAssumption DEF PrepareOrg, keys
<1> HIDE DEF r
<1> QED
  BY <1>4, <1>5, PrepareInv

-----------------------------------------------------------------------------
(* The specification.                                                      *)

LEMMA InitInv == Init => Inv
<1> SUFFICES ASSUME Init PROVE Inv
  OBVIOUS
<1>1. Sealed(1, 1) \in Row /\ Sealed(1, 1).to = 1
  BY Numbers, SealedRow DEF Sealed
<1>2. granted \in [Nodes -> SUBSET Principals]
  <2>1. PICK S \in SUBSET Nodes :
          granted = [n \in Nodes |-> {node[n].owner, Org} \cup (IF n \in S THEN {Team} ELSE {})]
    BY DEF Init
  <2>2. \A n \in Nodes : node[n].owner \in Users
    BY DEF Init
  <2> QED
    BY <2>1, <2>2 DEF Principals
<1>3. /\ share \in [Nodes -> [Principals -> Row \cup {None}]]
      /\ \A n \in Nodes, p \in Principals : share[n][p] # None => share[n][p].to = 1
  BY <1>1 DEF Init
<1>4. team \in TeamRow /\ team.gen = 1 /\ \A u \in Users : team.wrapped[u] \in {0, 1}
  BY Numbers DEF Init, TeamRow
<1>5. org \in [gen : Gens, members : SUBSET Users] /\ org.gen = 1
  BY Numbers DEF Init
<1>6. node \in [Nodes -> Node]
  BY Numbers DEF Init, Node
<1>7. /\ req \in [Users -> Request \cup {None}] /\ sent \in 0..MaxRequests
      /\ unshared \in [Nodes -> SUBSET Users] /\ knows \in [Nodes -> SUBSET Users]
      /\ Requested
  BY Numbers DEF Init, Requested
<1>8. TypeOK
  BY <1>2, <1>3, <1>4, <1>5, <1>6, <1>7 DEF TypeOK
<1>9. OpenInv
  BY <1>3, <1>4, <1>5 DEF OpenInv, RowsOpenUnlessOvertaken, TeamGone, Members, HeldBy, Has, Principals
<1> QED
  BY <1>7, <1>8, <1>9 DEF Inv

LEMMA NextInv == Inv /\ [Next]_vars => Inv'
<1> SUFFICES ASSUME Inv, [Next]_vars PROVE Inv'
  OBVIOUS
<1>1. CASE PrepareOrg
  BY <1>1, PrepareOrgInv
<1>2. CASE DeleteTeam
  BY <1>2, DeleteTeamInv
<1>3. CASE \E n \in Nodes, v \in Users : PrepareGrant(n, v)
  BY <1>3, PrepareGrantInv
<1>4. CASE \E n \in Nodes, p \in Principals : Revoke(n, p)
  BY <1>4, RevokeInv
<1>5. CASE \E v \in Users : RemoveFromOrg(v)
  BY <1>5, RemoveFromOrgInv
<1>6. ASSUME NEW u \in Users, Fail(u) PROVE Inv'
  BY <1>6, FailInv
<1>7. ASSUME NEW u \in Users, PostShare(u) \/ PostGrant(u) \/ PostRotate(u) PROVE Inv'
  BY <1>7, PostShareInv, PostGrantInv, PostRotateInv
<1>8. ASSUME NEW u \in Users, PostMember(u) \/ PostTeam(u) \/ PostOrg(u) PROVE Inv'
  BY <1>8, PostMemberInv, PostTeamInv, PostOrgInv
<1>9. ASSUME NEW u \in Users, \E v \in Users : PrepareMember(u, v) PROVE Inv'
  BY <1>9, PrepareMemberInv
<1>10. ASSUME NEW u \in Users, \E removed \in Users \cup {None} : PrepareTeam(u, removed) PROVE Inv'
  BY <1>10, PrepareTeamInv
<1>11. ASSUME NEW u \in Users, NEW n \in Nodes,
              PrepareRotate(u, n) \/ \E p \in Principals : PrepareShare(u, n, p)
       PROVE Inv'
  BY <1>11, PrepareRotateInv, PrepareShareInv
<1>12. CASE UNCHANGED vars
  <2>1. UNCHANGED <<node, share, team, org, req, sent, granted, unshared, knows>>
    BY <1>12 DEF vars, server, rights
  <2>2. TypeOK'
    BY <2>1 DEF Inv, TypeOK
  <2>3. Requested'
    BY <2>1 DEF Inv, Requested
  <2>4. OpenInv'
    BY <2>1, OpenFrame DEF Inv
  <2> QED
    BY <2>2, <2>3, <2>4 DEF Inv
<1> QED
  BY <1>1, <1>2, <1>3, <1>4, <1>5, <1>6, <1>7, <1>8, <1>9, <1>10, <1>11, <1>12 DEF Next

LEMMA InvAlways == Spec => []Inv
  BY InitInv, NextInv, PTL DEF Spec

\* Every row, request and history stays within its type: in particular no handler
\* stores a share, a team or an organisation key of a generation that never was.
THEOREM SharesTypeCorrect == Spec => []TypeOK
<1>1. Inv => TypeOK
  BY DEF Inv
<1> QED
  BY InvAlways, <1>1, PTL

\* However sharing, joining and the rotations of the three kinds of key interleave,
\* a stored row of the team or the organisation is wrapped to the key pair its
\* holders have now, unless a client of the previous version, which names no key,
\* had wrapped it to one that was replaced by the time it was written
\* (key-share-policy.ts:37-60, group-rotation.ts:63-80, orgs.ts:911-925).
THEOREM RowsOpenCorrect == Spec => []RowsOpenUnlessOvertaken
<1>1. Inv => RowsOpenUnlessOvertaken
  BY DEF Inv, OpenInv
<1> QED
  BY InvAlways, <1>1, PTL

-----------------------------------------------------------------------------
(* Proof that a node stays frozen while someone who has lost every right   *)
(* to it, other than by a deleted share, may still hold its key.           *)

Covered(u, n) == Entitled(u, n) \/ node[n].rotationRequired

\* What a step must do for each user and node: unless the epoch changes, or a share
\* is deleted, a right is only lost by freezing the node.
Kept ==
    \A n \in Nodes, u \in Users :
        node'[n].epoch = node[n].epoch /\ u \notin unshared'[n] =>
            u \notin unshared[n] /\ (Covered(u, n) => Covered(u, n)')

\* Whoever comes to know a key can open a row, and so has a right to the node.
LEMMA KnowersCovered ==
  ASSUME TypeOK, FrozenWhileExposed, Kept, Remember
  PROVE  FrozenWhileExposed'
<1>1. knows' \in [Nodes -> SUBSET Users]
  BY RememberType
<1> SUFFICES ASSUME NEW n \in Nodes, NEW u \in Users, u \in knows'[n], u \notin unshared'[n]
             PROVE  Covered(u, n)'
  BY <1>1 DEF FrozenWhileExposed, Covered
<1>2. CASE OpensCurrent(u, n)'
  <2>1. Opens(u, n)' => Entitled(u, n)'
    BY DEF Opens, MyRow, Entitled, Has
  <2> QED
    BY <1>2, <2>1 DEF OpensCurrent, Covered
<1>3. CASE node'[n].epoch = node[n].epoch /\ u \in knows[n]
  BY <1>3 DEF FrozenWhileExposed, Kept, Covered
<1> QED
  BY <1>2, <1>3 DEF Remember

\* A row is added or rewrapped: nobody loses a right.
LEMMA WrittenKept ==
  ASSUME TypeOK, NEW n \in Nodes, NEW p \in Principals, NEW row \in Row,
         share' = [share EXCEPT ![n][p] = row], UNCHANGED <<node, team, unshared>>
  PROVE  Kept
<1>1. \A m \in Nodes, q \in Principals : Has(m, q) => Has(m, q)'
  BY RowWritten, Numbers DEF Has
<1>2. \A m \in Nodes, u \in Users : Entitled(u, m) => Entitled(u, m)'
  BY <1>1 DEF Entitled, Members, Principals
<1> QED
  BY <1>2 DEF Kept, Covered

-----------------------------------------------------------------------------
(* One lemma per handler.                                                  *)

LEMMA PostShareKept ==
  ASSUME Inv, NEW u \in Users, PostShare(u)
  PROVE  Kept /\ Remember
<1> DEFINE r   == req[u]
           row == IF r.to = Team THEN Wrapped(u, r.key, r.gen, team.gen) ELSE Sealed(r.key, 1)
<1>0. /\ r # None /\ r.kind = "share" /\ (r.to = Team => FreshTeam(u, r.gen))
      /\ Grant(r.node, r.to, row) /\ UNCHANGED <<node, team, unshared>> /\ Remember
  BY DEF PostShare, Serve
<1>1. r \in ShareRequest
  BY <1>0, Requests DEF Inv
<1>2. r.node \in Nodes /\ r.to \in Principals /\ r.key \in Epochs /\ r.gen \in 0..MaxGen
  BY <1>1 DEF ShareRequest, Principals
<1>3. r.to = Team => r.gen # 0
  BY <1>0 DEF Inv, Requested
<1>4. row \in Row
  <2>1. r.to = Team => r.gen \in Gens
    BY <1>2, <1>3, KeySharesAssumption DEF Gens
  <2> QED
    BY <1>0, <1>2, <2>1, Numbers, SealedRow, WrappedRow DEF FreshTeam
<1> HIDE DEF r, row
<1> QED
  BY <1>0, <1>2, <1>4, WrittenKept DEF Grant, Inv

LEMMA PostGrantKept ==
  ASSUME Inv, NEW u \in Users, PostGrant(u)
  PROVE  Kept /\ Remember
<1> DEFINE r   == req[u]
           row == Sealed(r.key, 1)
<1>0. /\ r # None /\ r.kind = "grant"
      /\ Grant(r.node, r.to, row) /\ UNCHANGED <<node, team, unshared>> /\ Remember
  BY DEF PostGrant, Serve
<1>1. r \in GrantRequest
  BY <1>0, Requests DEF Inv
<1>2. r.node \in Nodes /\ r.to \in Principals /\ row \in Row
  BY <1>1, Numbers, SealedRow DEF GrantRequest, Principals
<1> HIDE DEF r, row
<1> QED
  BY <1>0, <1>2, WrittenKept DEF Grant, Inv

\* The rows of the node rotated may be fewer, but its epoch is another.
LEMMA PostRotateKept ==
  ASSUME Inv, NEW u \in Users, PostRotate(u)
  PROVE  Kept /\ Remember
<1> DEFINE m == req[u].node
<1>0. /\ req[u] # None /\ req[u].kind = "rotate" /\ UNCHANGED team /\ Remember
      /\ node' = [node EXCEPT ![m].epoch = node[m].epoch + 1, ![m].rotationRequired = FALSE]
      /\ unshared' = [unshared EXCEPT ![m] = {}]
  BY DEF PostRotate, Serve
<1>1. PICK rows : share' = [share EXCEPT ![m] = rows]
  BY DEF PostRotate
<1>2. m \in Nodes
  BY <1>0, Requests DEF Inv, RotateRequest
<1> HIDE DEF m
<1>3. node'[m].epoch # node[m].epoch
  <2>1. node[m].epoch \in Nat
    BY <1>2, Numbers DEF Inv, TypeOK, Node
  <2>2. node'[m].epoch = node[m].epoch + 1
    BY <1>0, <1>2 DEF Inv, TypeOK, Node
  <2> QED
    BY <2>1, <2>2
<1>4. ASSUME NEW n \in Nodes, n # m, NEW v \in Users
      PROVE unshared'[n] = unshared[n] /\ (Covered(v, n) => Covered(v, n)')
  <2>1. node'[n] = node[n] /\ share'[n] = share[n] /\ unshared'[n] = unshared[n]
    BY <1>0, <1>1, <1>4 DEF Inv, TypeOK
  <2> QED
    BY <1>0, <2>1 DEF Covered, Entitled, Has, Members
<1> QED
  BY <1>0, <1>3, <1>4 DEF Kept

\* Whom the deleted share served is recorded as unshared.
LEMMA RevokeKept ==
  ASSUME Inv, NEW n \in Nodes, NEW p \in Principals, Revoke(n, p)
  PROVE  Kept /\ Remember
<1>0. /\ share' = [share EXCEPT ![n][p] = None]
      /\ unshared' = [unshared EXCEPT ![n] = unshared[n] \cup
                        (IF p = Team THEN Members ELSE {p} \cap Users)]
      /\ UNCHANGED <<node, team>> /\ Remember
  BY DEF Revoke
<1>1. \A m \in Nodes, q \in Principals : Has(m, q)' <=> Has(m, q) /\ ~(m = n /\ q = p)
  BY <1>0, RowWritten DEF Inv, Has
<1>2. ASSUME NEW m \in Nodes, NEW u \in Users, u \notin unshared'[m]
      PROVE  u \notin unshared[m] /\ (Covered(u, m) => Covered(u, m)')
  <2>1. u \notin unshared[m] /\ (m = n => u # p /\ (p = Team => u \notin Members))
    BY <1>0, <1>2, Numbers DEF Inv, TypeOK
  <2>2. Entitled(u, m) => Entitled(u, m)'
    BY <1>0, <1>1, <2>1 DEF Entitled, Members, Principals
  <2> QED
    BY <1>0, <2>1, <2>2 DEF Covered
<1> QED
  BY <1>0, <1>2 DEF Kept

\* Whoever joins gains rights.
LEMMA PostMemberKept ==
  ASSUME Inv, NEW u \in Users, PostMember(u)
  PROVE  Kept /\ Remember
<1> DEFINE r == req[u]
<1>0. /\ r # None /\ r.kind = "member"
      /\ team' = [team EXCEPT !.wrapped[r.to] = r.gen]
      /\ UNCHANGED <<node, share, unshared>> /\ Remember
  BY DEF PostMember, ServeNew, Serve, rights
<1>1. r.to \in Users /\ r.gen # 0
  BY <1>0, Requests DEF Inv, MemberRequest, Gens
<1> HIDE DEF r
<1>2. \A v \in Users : team.wrapped[v] # 0 => team'.wrapped[v] # 0
  BY <1>0, <1>1 DEF Inv, TypeOK, TeamRow
<1>3. \A n \in Nodes, v \in Users : Entitled(v, n) => Entitled(v, n)'
  BY <1>0, <1>2 DEF Entitled, Members, Has
<1> QED
  BY <1>0, <1>3 DEF Kept, Covered

\* A frozen node stays so, and its epoch is left alone.
LEMMA FrozenBy ==
  ASSUME TypeOK, NEW S, Freeze(S), NEW n \in Nodes
  PROVE  /\ node'[n].epoch = node[n].epoch
         /\ node[n].rotationRequired \/ n \in S => node'[n].rotationRequired
<1>1. node'[n] = [node[n] EXCEPT !.rotationRequired = node[n].rotationRequired \/ n \in S]
  BY DEF Freeze
<1>2. node[n] \in Node
  BY DEF TypeOK
<1> QED
  BY <1>1, <1>2 DEF Node

\* The nodes of the team are frozen; on the others nobody had a right through it.
LEMMA TeamFrozen ==
  ASSUME Inv, Freeze(HeldBy(Team)), UNCHANGED unshared,
         \A m \in Nodes, q \in Users : share'[m][q] = share[m][q]
  PROVE  Kept
<1>1. ASSUME NEW n \in Nodes, NEW u \in Users, Covered(u, n) PROVE Covered(u, n)'
  <2>1. CASE node[n].rotationRequired \/ Has(n, Team)
    BY <2>1, FrozenBy DEF Inv, HeldBy, Covered
  <2>2. CASE Has(n, u)
    BY <2>2 DEF Covered, Entitled, Has
  <2> QED
    BY <1>1, <2>1, <2>2 DEF Covered, Entitled
<1> QED
  BY <1>1 DEF Kept

LEMMA PostTeamKept ==
  ASSUME Inv, NEW u \in Users, PostTeam(u)
  PROVE  Kept /\ Remember
<1> DEFINE r == req[u]
<1>0. /\ share' = [n \in Nodes |-> IF n \in DOMAIN r.keys
                      THEN [share[n] EXCEPT ![Team] = Sealed(r.keys[n][1], r.gen + 1)]
                      ELSE share[n]]
      /\ Freeze(HeldBy(Team)) /\ UNCHANGED unshared /\ Remember
  BY DEF PostTeam, rights
<1>1. \A m \in Nodes, q \in Users : share'[m][q] = share[m][q]
  BY <1>0, Numbers DEF Inv, TypeOK, Principals
<1> QED
  BY <1>0, <1>1, TeamFrozen

LEMMA DeleteTeamKept ==
  ASSUME Inv, DeleteTeam
  PROVE  Kept /\ Remember
<1>0. /\ share' = [n \in Nodes |-> [share[n] EXCEPT ![Team] = None]]
      /\ Freeze(HeldBy(Team)) /\ UNCHANGED unshared /\ Remember
  BY DEF DeleteTeam
<1>1. \A m \in Nodes, q \in Users : share'[m][q] = share[m][q]
  BY <1>0, Numbers DEF Inv, TypeOK, Principals
<1> QED
  BY <1>0, <1>1, TeamFrozen

\* Every node the member could open is frozen before his rights go.
LEMMA RemoveFromOrgKept ==
  ASSUME Inv, NEW v \in Users, RemoveFromOrg(v)
  PROVE  Kept /\ Remember
<1>0. /\ team' = [team EXCEPT !.rotationRequired = team.rotationRequired \/ v \in Members,
                              !.wrapped[v] = 0]
      /\ node' = [n \in Nodes |->
                    [node[n] EXCEPT
                       !.rotationRequired = node[n].rotationRequired \/ n \in Exposed(v),
                       !.owner = IF node[n].owner = v THEN Owner ELSE node[n].owner]]
      /\ share' = [n \in Nodes |-> [share[n] EXCEPT ![v] = None]]
      /\ UNCHANGED unshared /\ Remember
  BY DEF RemoveFromOrg, Heir
<1>1. ASSUME NEW n \in Nodes
      PROVE  /\ node'[n].epoch = node[n].epoch
             /\ node[n].rotationRequired \/ n \in Exposed(v) => node'[n].rotationRequired
  <2>1. node'[n] = [node[n] EXCEPT
                       !.rotationRequired = node[n].rotationRequired \/ n \in Exposed(v),
                       !.owner = IF node[n].owner = v THEN Owner ELSE node[n].owner]
    BY <1>0
  <2>2. node[n] \in Node
    BY DEF Inv, TypeOK
  <2> QED
    BY <2>1, <2>2 DEF Node
<1>2. ASSUME NEW n \in Nodes, NEW u \in Users, Covered(u, n) PROVE Covered(u, n)'
  <2>1. CASE node[n].rotationRequired
    BY <1>1, <2>1 DEF Covered
  <2>2. CASE Entitled(u, n) /\ u = v
    BY <1>1, <2>2 DEF Exposed, Covered
  <2>3. CASE Entitled(u, n) /\ u # v
    <3>1. share'[n][u] = share[n][u] /\ share'[n][Team] = share[n][Team]
      BY <1>0, <2>3, Numbers, ZenonT(60) DEF Inv, TypeOK, Principals
    <3>2. team'.wrapped[u] = team.wrapped[u]
      BY <1>0, <2>3 DEF Inv, TypeOK, TeamRow
    <3> QED
      BY <2>3, <3>1, <3>2 DEF Covered, Entitled, Has, Members
  <2> QED
    BY <1>2, <2>1, <2>2, <2>3 DEF Covered
<1> QED
  BY <1>0, <1>2 DEF Kept

LEMMA PostOrgKept ==
  ASSUME Inv, NEW u \in Users, PostOrg(u)
  PROVE  Kept /\ Remember
<1> DEFINE r == req[u]
<1>0. /\ share' = [n \in Nodes |-> IF n \in DOMAIN r.keys
                      THEN [share[n] EXCEPT ![Org] = Sealed(r.keys[n], r.gen + 1)]
                      ELSE share[n]]
      /\ UNCHANGED <<node, team, unshared>> /\ Remember
  BY DEF PostOrg, rights
<1>1. \A m \in Nodes, q \in Users \cup {Team} : share'[m][q] = share[m][q]
  BY <1>0, Numbers DEF Inv, TypeOK, Principals
<1>2. \A m \in Nodes, v \in Users : Entitled(v, m) => Entitled(v, m)'
  BY <1>0, <1>1 DEF Entitled, Members, Has
<1> QED
  BY <1>0, <1>2 DEF Kept, Covered

-----------------------------------------------------------------------------
(* The specification.                                                      *)

LEMMA FrozenInit == Init => FrozenWhileExposed
  BY DEF Init, FrozenWhileExposed

LEMMA FrozenFrame ==
  ASSUME FrozenWhileExposed, UNCHANGED <<node, share, team, unshared, knows>>
  PROVE  FrozenWhileExposed'
  BY DEF FrozenWhileExposed, Entitled, Members, Has

LEMMA PreparedFrame ==
  ASSUME NEW u, NEW r, Prepare(u, r)
  PROVE  UNCHANGED <<node, share, team, unshared, knows>>
  BY DEF Prepare, server, rights

LEMMA FrozenNext == Inv /\ FrozenWhileExposed /\ [Next]_vars => FrozenWhileExposed'
<1> SUFFICES ASSUME Inv, FrozenWhileExposed, [Next]_vars PROVE FrozenWhileExposed'
  OBVIOUS
<1>1. CASE Kept /\ Remember
  BY <1>1, KnowersCovered DEF Inv
<1>2. CASE UNCHANGED <<node, share, team, unshared, knows>>
  BY <1>2, FrozenFrame
<1>3. DeleteTeam => Kept /\ Remember
  BY DeleteTeamKept
<1>4. ASSUME NEW n \in Nodes, NEW p \in Principals, Revoke(n, p) PROVE Kept /\ Remember
  BY <1>4, RevokeKept
<1>5. ASSUME NEW v \in Users, RemoveFromOrg(v) PROVE Kept /\ Remember
  BY <1>5, RemoveFromOrgKept
<1>6. ASSUME NEW u \in Users,
             PostShare(u) \/ PostGrant(u) \/ PostRotate(u)
             \/ PostMember(u) \/ PostTeam(u) \/ PostOrg(u)
      PROVE  Kept /\ Remember
  BY <1>6, PostShareKept, PostGrantKept, PostRotateKept, PostMemberKept, PostTeamKept, PostOrgKept
<1>7. ASSUME NEW n, NEW v, PrepareGrant(n, v)
      PROVE  UNCHANGED <<node, share, team, unshared, knows>>
  BY <1>7, PreparedFrame DEF PrepareGrant
<1>8. ASSUME NEW u \in Users, NEW v, NEW n, NEW p,
             PrepareMember(u, v) \/ PrepareTeam(u, v) \/ PrepareRotate(u, n) \/ PrepareShare(u, n, p)
      PROVE  UNCHANGED <<node, share, team, unshared, knows>>
  BY <1>8, PreparedFrame DEF PrepareMember, PrepareTeam, PrepareRotate, PrepareShare
<1>9. ASSUME NEW u \in Users, Fail(u) PROVE UNCHANGED <<node, share, team, unshared, knows>>
  BY <1>9 DEF Fail, server, rights
<1>10. PrepareOrg => UNCHANGED <<node, share, team, unshared, knows>>
  BY PreparedFrame DEF PrepareOrg
<1>11. UNCHANGED vars => UNCHANGED <<node, share, team, unshared, knows>>
  BY DEF vars, server, rights
<1> QED
  BY <1>1, <1>2, <1>3, <1>4, <1>5, <1>6, <1>7, <1>8, <1>9, <1>10, <1>11 DEF Next

\* Whoever may still open a node's key, having lost every right to it other than by a
\* deleted share, finds the node frozen until its key has changed: for any users,
\* nodes and requests in flight (orgs.ts:413, group-rotation.ts:42).
THEOREM FrozenCorrect == Spec => []FrozenWhileExposed
  BY InvAlways, FrozenInit, FrozenNext, PTL DEF Spec
=============================================================================
