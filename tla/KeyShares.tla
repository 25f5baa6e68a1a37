----------------------------- MODULE KeyShares -----------------------------
(***************************************************************************)
(* Who holds which content key (CEK).  A row of node_keys is a CEK wrapped *)
(* by some client to a user, a team or the organisation.  Sharing, recovery *)
(* grants and the rotations of node, team and organisation keys are each   *)
(* prepared by a client from a listing (drive-cloud/ops.ts, rotate.ts,     *)
(* recovery.ts) and applied by one transaction of the server, which cannot *)
(* look into an envelope (server/src/routes/{shares,groups,orgs,nodes}.ts, *)
(* lib/group-rotation.ts, lib/key-share-policy.ts).                        *)
(*                                                                         *)
(* One organisation, one team, a flat set of nodes.  A CEK is named by the *)
(* epoch that installed it, a key pair by its generation.                  *)
(***************************************************************************)
EXTENDS Naturals

CONSTANTS
    Users,
    Owner,          \* the owner of the organisation, who holds its recovery key
    Legacy,         \* users of a client of the previous version (config.ts:121)
    Nodes,
    Team, Org,      \* the other principals
    None,
    MaxEpoch,       \* bound: node rotations
    MaxGen,         \* bound: team and organisation key rotations
    MaxRequests     \* bound: requests prepared

VARIABLES
    node,       \* rows of nodes
    share,      \* rows of node_keys, None where there is none
    team,       \* row of groups and rows of group_members
    org,        \* row of organizations and rows of memberships
    req,        \* the request each user's client has prepared and not seen answered
    sent,       \* how many requests were prepared, to bound them
    granted,    \* history: principals given a share and not deprived of it since
    unshared,   \* history: users whose share was deleted since the last rotation
    knows       \* history: users who have been able to open the current CEK

server == <<node, share, team, org>>
rights == <<granted, unshared>>
vars   == <<server, req, sent, rights, knows>>

Principals == Users \cup {Team, Org}
Epochs == 1..MaxEpoch
Gens   == 1..MaxGen

Node == [epoch : Epochs, rotationRequired : BOOLEAN, owner : Users]

\* to: the generation of the public key it is wrapped to; a user's never changes.
\* overtaken is a history field: a client that names no key had wrapped it to a
\* key which was already replaced when the row was written.
Row == [key : Epochs, to : Gens, overtaken : BOOLEAN]

\* gen is 0 once the team is deleted.  wrapped: the generation of the team's
\* private key each member has been given, 0 for the others.
TeamRow == [gen : 0..MaxGen, rotationRequired : BOOLEAN, wrapped : [Users -> 0..MaxGen]]

ShareRequest  == [kind : {"share"}, node : Nodes, to : Users \cup {Team}, key : Epochs,
                  gen : 0..MaxGen]
GrantRequest  == [kind : {"grant"}, node : Nodes, to : Users, key : Epochs]
RotateRequest == [kind : {"rotate"}, node : Nodes, epoch : Epochs,
                  principals : SUBSET Principals, teamGen : 0..MaxGen, orgGen : Gens]
MemberRequest == [kind : {"member"}, to : Users, gen : Gens]

\* keys: for each node, the CEK and the node's epoch as listed.
TeamRequest   == [kind : {"team"}, gen : Gens, removed : Users \cup {None},
                  members : SUBSET Users, keys : UNION {[S -> Epochs \X Epochs] : S \in SUBSET Nodes}]
OrgRequest    == [kind : {"org"}, gen : Gens, keys : UNION {[S -> Epochs] : S \in SUBSET Nodes}]

Request == ShareRequest \cup GrantRequest \cup RotateRequest \cup MemberRequest
           \cup TeamRequest \cup OrgRequest

ASSUME KeySharesAssumption ==
    /\ Owner \in Users /\ Legacy \subseteq Users
    /\ Team \notin Users /\ Org \notin Users /\ Team # Org
    /\ None \notin Users /\ None \notin Row /\ None \notin Request
    /\ MaxEpoch \in Nat \ {0} /\ MaxGen \in Nat \ {0} /\ MaxRequests \in Nat

TypeOK ==
    /\ node \in [Nodes -> Node]
    /\ share \in [Nodes -> [Principals -> Row \cup {None}]]
    /\ team \in TeamRow
    /\ org \in [gen : Gens, members : SUBSET Users]
    /\ req \in [Users -> Request \cup {None}] /\ sent \in 0..MaxRequests
    /\ granted \in [Nodes -> SUBSET Principals]
    /\ unshared \in [Nodes -> SUBSET Users]
    /\ knows \in [Nodes -> SUBSET Users]

Has(n, p)  == share[n][p] # None
Members    == {u \in Users : team.wrapped[u] # 0}
HeldBy(p)  == {n \in Nodes : Has(n, p)}
Entitled(u, n) == Has(n, u) \/ (u \in Members /\ Has(n, Team))

\* A row under a key that the server compared, or that is never replaced.
Sealed(key, gen) == [key |-> key, to |-> gen, overtaken |-> FALSE]

\* Each node has a share for its owner and one for the organisation (POST /nodes);
\* some may have been shared with the team since.
Init ==
    /\ node \in [Nodes -> [epoch : {1}, rotationRequired : {FALSE}, owner : Users]]
    /\ \E M \in SUBSET Users \ {{}} :
         team = [gen |-> 1, rotationRequired |-> FALSE,
                 wrapped |-> [u \in Users |-> IF u \in M THEN 1 ELSE 0]]
    /\ \E S \in SUBSET Nodes :
         granted = [n \in Nodes |-> {node[n].owner, Org} \cup (IF n \in S THEN {Team} ELSE {})]
    /\ share = [n \in Nodes |-> [p \in Principals |->
                    IF p \in granted[n] THEN Sealed(1, 1) ELSE None]]
    /\ org = [gen |-> 1, members |-> Users]
    /\ req = [u \in Users |-> None] /\ sent = 0
    /\ unshared = [n \in Nodes |-> {}]
    /\ knows = [n \in Nodes |-> {u \in Users : Entitled(u, n)}]

-----------------------------------------------------------------------------
(* Clients.  Permissions are read before a handler's transaction, so what  *)
(* counts is what they were when the request was prepared.                 *)

\* resolveNodeAccess; every role is taken to allow everything.
Access(u, n) ==
    u \in org.members /\ (Entitled(u, n) \/ node[n].owner = u \/ u = Owner)

\* myKeyShare: the user's own row first, else his team's.
MyRow(u, n) == IF Has(n, u) \/ u \notin Members THEN share[n][u] ELSE share[n][Team]

Opens(u, n) ==
    MyRow(u, n) # None /\ (Has(n, u) \/ MyRow(u, n).to = team.wrapped[u])

Prepare(u, r) ==
    /\ req[u] = None /\ u \in org.members
    /\ sent < MaxRequests /\ sent' = sent + 1
    /\ req' = [req EXCEPT ![u] = r]
    /\ UNCHANGED <<server, rights, knows>>

\* shareNode: the key the listing gave, wrapped to the principal.
PrepareShare(u, n, p) ==
    /\ Access(u, n) /\ Opens(u, n)
    /\ p # u /\ (p \in org.members \/ (p = Team /\ team.gen # 0))
    /\ Prepare(u, [kind |-> "share", node |-> n, to |-> p, key |-> MyRow(u, n).key,
                   gen |-> team.gen])

\* restoreNodeAccess.
PrepareGrant(n, v) ==
    /\ Has(n, Org) /\ share[n][Org].to = org.gen /\ v \in org.members
    /\ Prepare(Owner, [kind |-> "grant", node |-> n, to |-> v, key |-> share[n][Org].key])

\* rotateNode: a new CEK for everyone listed.  The listings it makes are one
\* step, for the server compares the epochs and keys they gave with its own.
PrepareRotate(u, n) ==
    /\ Access(u, n) /\ Opens(u, n) /\ Has(n, node[n].owner)
    /\ Prepare(u, [kind |-> "rotate", node |-> n, epoch |-> node[n].epoch,
                   principals |-> {p \in Principals : Has(n, p)},
                   teamGen |-> team.gen, orgGen |-> org.gen])

\* addTeamMember.
PrepareMember(u, v) ==
    /\ u \in Members /\ v \in org.members \ Members
    /\ Prepare(u, [kind |-> "member", to |-> v, gen |-> team.wrapped[u]])

\* rotateTeamKey, for its own sake or to remove a member.
PrepareTeam(u, removed) ==
    /\ team.wrapped[u] # 0 /\ team.wrapped[u] = team.gen
    /\ removed \in Members \cup {None} /\ Members # {removed}
    /\ \A n \in HeldBy(Team) : share[n][Team].to = team.gen
    /\ Prepare(u, [kind |-> "team", gen |-> team.gen, removed |-> removed,
                   members |-> Members \ {removed},
                   keys |-> [n \in HeldBy(Team) |-> <<share[n][Team].key, node[n].epoch>>]])

\* rotateOrgKey.
PrepareOrg ==
    /\ \A n \in HeldBy(Org) : share[n][Org].to = org.gen
    /\ Prepare(Owner, [kind |-> "org", gen |-> org.gen,
                       keys |-> [n \in HeldBy(Org) |-> share[n][Org].key]])

\* Refused, or never sent.
Fail(u) ==
    /\ req[u] # None
    /\ req' = [req EXCEPT ![u] = None]
    /\ UNCHANGED <<server, sent, rights, knows>>

-----------------------------------------------------------------------------
(* The server.                                                             *)

\* A user of the organisation who can open a row with the current CEK knows it.
OpensCurrent(u, n) == u \in org.members /\ Opens(u, n) /\ MyRow(u, n).key = node[n].epoch

Remember ==
    knows' = [n \in Nodes |->
        (IF node'[n].epoch = node[n].epoch THEN knows[n] ELSE {})
        \cup {u \in Users : OpensCurrent(u, n)'}]

Serve(u, kind) == req[u] # None /\ req[u].kind = kind /\ req' = [req EXCEPT ![u] = None]

\* requireNewClientBody: the previous client cannot produce these requests.
ServeNew(u, kind) == u \notin Legacy /\ Serve(u, kind)

\* assertFreshPrincipalKeys, on what the request was prepared with; a client of
\* the previous version names no key, and any team that is there will do.
FreshTeam(u, gen) ==
    /\ IF u \in Legacy THEN team.gen # 0 ELSE team.gen = gen
    /\ ~team.rotationRequired

\* The row that the client of u has wrapped to generation gen of a key that is
\* at generation now.
Wrapped(u, key, gen, now) ==
    [key |-> key, to |-> gen, overtaken |-> u \in Legacy /\ gen # now]

Grant(n, p, row) ==
    /\ share' = [share EXCEPT ![n][p] = row]
    /\ granted' = [granted EXCEPT ![n] = @ \cup {p}]

\* POST /nodes/:id/shares, inserting or updating; the owner's row is protected.
PostShare(u) ==
    LET r == req[u] IN
    /\ Serve(u, "share")
    /\ r.to = Team => FreshTeam(u, r.gen)
    /\ ~(r.to = node[r.node].owner /\ Has(r.node, r.to))
    /\ Grant(r.node, r.to, IF r.to = Team THEN Wrapped(u, r.key, r.gen, team.gen)
                                         ELSE Sealed(r.key, 1))
    /\ UNCHANGED <<node, team, org, sent, unshared>>
    /\ Remember

\* POST /orgs/:orgId/recovery/grant.
PostGrant(u) ==
    /\ Serve(u, "grant")
    /\ Grant(req[u].node, req[u].to, Sealed(req[u].key, 1))
    /\ UNCHANGED <<node, team, org, sent, unshared>>
    /\ Remember

FreshKeys(u, r) ==
    /\ Team \in r.principals => FreshTeam(u, r.teamGen)
    /\ Org \in r.principals => org.gen = r.orgGen \/ u \in Legacy

\* expectedEpoch is optional, and compared when it is there.
ExpectedEpoch(u, r) == u \in Legacy \/ node[r.node].epoch = r.epoch

\* POST /nodes/:id/rotate: the rows become those of the request.
PostRotate(u) ==
    LET r == req[u]
        n == r.node
        epoch == node[n].epoch + 1
        row(p) == CASE p = Team -> Wrapped(u, epoch, r.teamGen, team.gen)
                    [] p = Org  -> Wrapped(u, epoch, r.orgGen, org.gen)
                    [] OTHER    -> Sealed(epoch, 1)
    IN
    /\ Serve(u, "rotate")
    /\ FreshKeys(u, r)
    /\ ExpectedEpoch(u, r) /\ epoch <= MaxEpoch
    /\ Has(n, Org) => Org \in r.principals
    /\ node' = [node EXCEPT ![n].epoch = epoch, ![n].rotationRequired = FALSE]
    /\ share' = [share EXCEPT ![n] = [p \in Principals |->
                    IF p \in r.principals THEN row(p) ELSE None]]
    /\ unshared' = [unshared EXCEPT ![n] = {}]
    /\ UNCHANGED <<team, org, sent, granted>>
    /\ Remember

\* DELETE /nodes/:id/shares/:shareId.
Revoke(n, p) ==
    /\ Has(n, p) /\ p # node[n].owner
    /\ share' = [share EXCEPT ![n][p] = None]
    /\ granted' = [granted EXCEPT ![n] = @ \ {p}]
    /\ unshared' = [unshared EXCEPT ![n] = @ \cup
                        (IF p = Team THEN Members ELSE {p} \cap Users)]
    /\ UNCHANGED <<node, team, org, req, sent>>
    /\ Remember

\* POST /orgs/:orgId/groups/:groupId/members.
PostMember(u) ==
    /\ ServeNew(u, "member")
    /\ FreshTeam(u, req[u].gen)
    /\ team' = [team EXCEPT !.wrapped[req[u].to] = req[u].gen]
    /\ UNCHANGED <<node, share, org, sent, rights>>
    /\ Remember

\* markRequiredNodeRotations.
Freeze(S) ==
    node' = [n \in Nodes |-> [node[n] EXCEPT !.rotationRequired = @ \/ n \in S]]

\* Mutant of Covers: the nodes of the team are not compared.
CoversMembers(r) ==
    /\ (r.removed = None \/ r.removed \in Members) /\ Members \ {r.removed} = r.members

\* The request is about the team as it is: its members, its nodes, their epochs.
Covers(r) ==
    /\ (r.removed = None \/ r.removed \in Members) /\ Members \ {r.removed} = r.members
    /\ DOMAIN r.keys = HeldBy(Team)
    /\ \A n \in DOMAIN r.keys : r.keys[n][2] = node[n].epoch

\* applyGroupKeyRotation, for POST .../rotate and DELETE .../members/:userId.
PostTeam(u) ==
    LET r == req[u] IN
    /\ ServeNew(u, "team")
    /\ team.gen = r.gen /\ r.gen < MaxGen
    /\ u \in Members \/ u = Owner
    /\ Covers(r)
    /\ team' = [gen |-> r.gen + 1, rotationRequired |-> FALSE,
                wrapped |-> [v \in Users |-> IF v \in r.members THEN r.gen + 1 ELSE 0]]
    /\ share' = [n \in Nodes |-> IF n \in DOMAIN r.keys
                    THEN [share[n] EXCEPT ![Team] = Sealed(r.keys[n][1], r.gen + 1)]
                    ELSE share[n]]
    /\ Freeze(HeldBy(Team))
    /\ UNCHANGED <<org, sent, rights>>
    /\ Remember

\* DELETE /orgs/:orgId/groups/:groupId.
DeleteTeam ==
    /\ team.gen # 0
    /\ Freeze(HeldBy(Team))
    /\ team' = [gen |-> 0, rotationRequired |-> FALSE, wrapped |-> [u \in Users |-> 0]]
    /\ share' = [n \in Nodes |-> [share[n] EXCEPT ![Team] = None]]
    /\ granted' = [n \in Nodes |-> granted[n] \ {Team}]
    /\ UNCHANGED <<org, req, sent, unshared>>
    /\ Remember

\* Mutant of Exposed: read once the member has left his teams and lost his rows.
ExposedAfterwards(v) == {n \in Nodes : node[n].owner = v}

\* The nodes whose key a member could open.
Exposed(v) == {n \in Nodes : node[n].owner = v \/ Entitled(v, n)}

\* Mutant of Heir: what the member owned is left to nobody.
HeirNobody(v, n) == IF node[n].owner = v THEN None ELSE node[n].owner

\* What the member owned becomes the organisation owner's.
Heir(v, n) == IF node[n].owner = v THEN Owner ELSE node[n].owner

\* DELETE /orgs/:orgId/members/:userId.  Only the owner holds the recovery key
\* here, so it is never the one that leaves.
RemoveFromOrg(v) ==
    /\ v \in org.members \ {Owner}
    /\ org' = [org EXCEPT !.members = @ \ {v}]
    /\ team' = [team EXCEPT !.rotationRequired = @ \/ v \in Members, !.wrapped[v] = 0]
    /\ LET exposed == Exposed(v) IN
       node' = [n \in Nodes |->
                    [node[n] EXCEPT !.rotationRequired = @ \/ n \in exposed,
                                    !.owner = Heir(v, n)]]
    /\ share' = [n \in Nodes |-> [share[n] EXCEPT ![v] = None]]
    /\ granted' = [n \in Nodes |-> granted[n] \ {v}]
    /\ UNCHANGED <<req, sent, unshared>>
    /\ Remember

\* applyOrgKeyRotation.
PostOrg(u) ==
    LET r == req[u] IN
    /\ ServeNew(u, "org")
    /\ org.gen = r.gen /\ r.gen < MaxGen
    /\ DOMAIN r.keys = HeldBy(Org)
    /\ org' = [org EXCEPT !.gen = @ + 1]
    /\ share' = [n \in Nodes |-> IF n \in DOMAIN r.keys
                    THEN [share[n] EXCEPT ![Org] = Sealed(r.keys[n], r.gen + 1)]
                    ELSE share[n]]
    /\ UNCHANGED <<node, team, sent, rights>>
    /\ Remember

-----------------------------------------------------------------------------
Next ==
    \/ PrepareOrg \/ DeleteTeam
    \/ \E n \in Nodes, v \in Users : PrepareGrant(n, v)
    \/ \E n \in Nodes, p \in Principals : Revoke(n, p)
    \/ \E v \in Users : RemoveFromOrg(v)
    \/ \E u \in Users :
         \/ Fail(u)
         \/ PostShare(u) \/ PostGrant(u) \/ PostRotate(u)
         \/ PostMember(u) \/ PostTeam(u) \/ PostOrg(u)
         \/ \E v \in Users : PrepareMember(u, v)
         \/ \E removed \in Users \cup {None} : PrepareTeam(u, removed)
         \/ \E n \in Nodes : PrepareRotate(u, n) \/ \E p \in Principals : PrepareShare(u, n, p)

Spec == Init /\ [][Next]_vars

-----------------------------------------------------------------------------
(* Properties.                                                             *)

\* Wrapped keys open: a team's rows are under its current key, which each of its
\* members holds, and the organisation's under its current key, however sharing,
\* joining and rotations interleave, but for what a client that names no key had
\* wrapped to one already replaced (key-share-policy.ts:37-60, group-rotation.ts:63-80,
\* orgs.ts:911-925).
RowsOpenUnlessOvertaken ==
    /\ \A u \in Members : team.wrapped[u] = team.gen
    /\ \A n \in HeldBy(Team) : share[n][Team].to = team.gen \/ share[n][Team].overtaken
    /\ \A n \in HeldBy(Org) : share[n][Org].to = org.gen \/ share[n][Org].overtaken

\* Every row of the team and of the organisation can be opened (key-share-policy.ts:9:
\* "a rotation sees every share committed under its key").
RowsOpen ==
    /\ \A n \in HeldBy(Team) : share[n][Team].to = team.gen
    /\ \A n \in HeldBy(Org) : share[n][Org].to = org.gen

\* Whoever knows a node's current key without any right to it left has lost it by
\* a deleted share not yet followed by its rotation; otherwise, a team or the
\* organisation was left, and the node is frozen until the key has changed
\* (orgs.ts:413, group-rotation.ts:42).
FrozenWhileExposed ==
    \A n \in Nodes : \A u \in knows[n] \ unshared[n] :
        Entitled(u, n) \/ node[n].rotationRequired

\* Every row carries the CEK that is the node's (key-share-policy.ts:9: "a
\* rotation sees every share committed under its key").
RowsCarryCurrentKey ==
    \A n \in Nodes, p \in Principals : Has(n, p) => share[n][p].key = node[n].epoch

\* No user and no team has a row it was not given, or was deprived of (rotate.ts:285-287:
\* "current principals only", 443-446).
RevokedStaysOut ==
    \A n \in Nodes, p \in Users \cup {Team} : Has(n, p) => p \in granted[n]
=============================================================================
