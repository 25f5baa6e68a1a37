------------------------------ MODULE Sessions ------------------------------
(***************************************************************************)
(* The sessions of one account: the rows the server keeps, the browser     *)
(* tabs that share one pair of tokens, and the calls between them.         *)
(*                                                                         *)
(* A session's refresh token is replaced at each refresh, so the pairs of  *)
(* tokens are numbered: [s, k, iat] is what the k-th rotation of session s *)
(* gave out, with an access token issued at epoch iat.  A refresh is a     *)
(* chain of separate statements on the server; a tab keeps a lock shared   *)
(* by the tabs of the browser from the moment it reads the storage until   *)
(* it has stored the answer.  A call whose tab stopped waiting goes on at  *)
(* the server (its tab is None).  An access token expires at any time, so  *)
(* one that is accepted may also be refused.                               *)
(***************************************************************************)
EXTENDS Naturals, Sequences, FiniteSets

CONSTANTS Tabs,         \* the tabs of one browser
          None,
          History,      \* replaced refresh tokens a session remembers
          MaxSessions, MaxRefresh,  \* bounds: sessions opened, rotations of one
          MaxEpoch,     \* bound: changes of the account's token epoch
          MaxLost,      \* bound: connections cut, tabs reloaded
          MaxOthers,    \* bound: requests to end the other sessions
          MaxEvents     \* bound: expiries, suspensions, resets, revocations

ASSUME SessionsAssumption ==
  /\ History \in Nat \ {0}
  /\ MaxRefresh \in Nat \ {0}
  /\ {MaxSessions, MaxEpoch, MaxLost, MaxOthers, MaxEvents} \subseteq Nat
  /\ None \notin Tabs /\ None \notin [s : Nat, k : Nat, iat : Nat]

VARIABLES account,   \* the row of users: is it active, and its token epoch
          session,   \* the rows of sessions, in the order they were inserted
          calls,     \* the calls on their way, at the server, or answered
          storage,   \* the pair saved in localStorage, shared by the tabs
          mem,       \* the pair each tab holds
          gone,      \* the tabs told that the storage was emptied, and not yet reset
          job,       \* what each tab's one refresh is at
          past       \* history: sessions a tab gave up a call of, whose pair the
                     \* browser dropped, ended for reuse, given an access token
                     \* by a refresh that overlapped a revocation; bounds used

vars   == <<account, session, calls, storage, mem, gone, job, past>>
server == <<account, session>>
tabs   == <<storage, mem, gone, job>>

Ids   == 1..MaxSessions
Epoch == 0..MaxEpoch
Pair  == [s : Ids, k : 0..MaxRefresh, iat : Epoch]
Row   == [cur : 0..MaxRefresh, state : {"live", "expired", "revoked"}, born : Epoch]
Call  == [tab : Tabs \cup {None},
          kind : {"refresh", "login", "logout", "password", "others", "owner"},
          pc : {"cas", "reuse", "user", "verify", "auth", "reauth", "bump", "revoke",
                "insert", "refused", "waiting", "answer"},
          p : Pair \cup {None},      \* the pair it presents
          hdr : Pair \cup {None},    \* the pair its x-refresh-token comes from
          out : Pair \cup {None},    \* the pair it gives out
          seen : Epoch]              \* the epoch when it was admitted, or matched

TypeOK ==
  /\ account \in [active : BOOLEAN, epoch : Epoch]
  /\ session \in Seq(Row) /\ Len(session) <= MaxSessions
  /\ calls \subseteq Call
  /\ storage \in Pair \cup {None} /\ mem \in [Tabs -> Pair \cup {None}]
  /\ gone \subseteq Tabs /\ job \in [Tabs -> {"idle", "wait", "refresh"}]
  /\ past \in [lost : SUBSET Ids, left : SUBSET Ids, reused : SUBSET Ids,
               slipped : SUBSET Ids, cut : 0..MaxLost, others : 0..MaxOthers,
               events : 0..MaxEvents]

Init ==
  /\ account = [active |-> TRUE, epoch |-> 0]
  /\ session = <<>> /\ calls = {}
  /\ storage = None /\ mem = [t \in Tabs |-> None]
  /\ gone = {} /\ job = [t \in Tabs |-> "idle"]
  /\ past = [lost |-> {}, left |-> {}, reused |-> {}, slipped |-> {}, cut |-> 0,
              others |-> 0, events |-> 0]

-----------------------------------------------------------------------------
(* What both sides compute.                                                *)

Live(s) == session[s].state = "live"

\* The list of replaced hashes keeps the last History of them.
Superseded(p) == p.k < session[p.s].cur /\ p.k + History >= session[p.s].cur

\* Mutant of Accepted: the epoch is not looked at.
AcceptedWhileActive(p) == account.active

\* authenticate: the account is active and the token is not older than its epoch.
Accepted(p) == account.active /\ p.iat >= account.epoch

\* readTokens: a tab that was reset reads nothing.
ReadTokens(t) == IF mem[t] = None THEN None ELSE storage

NewCall(t, kind, pc, p) ==
  [tab |-> t, kind |-> kind, pc |-> pc, p |-> p, hdr |-> IF kind = "others" THEN p ELSE None,
   out |-> None, seen |-> account.epoch]

Send(c)     == calls' = calls \cup {c}
Move(c, pc) == calls' = (calls \ {c}) \cup {[c EXCEPT !.pc = pc]}

\* Mutant of Of: the rank instead of the session.
OfRank(p) == IF p = None THEN {} ELSE {p.k}

Of(p) == IF p = None THEN {} ELSE {p.s}

\* The server answers c with the pair out, or with None: an error, or a plain
\* success.  Nobody hears the answer of a call whose tab is gone.
Answered(c, out) ==
  (calls \ {c}) \cup (IF c.tab = None THEN {} ELSE {[c EXCEPT !.pc = "answer", !.out = out]})
Unheard(c, out) == IF c.tab = None THEN Of(out) ELSE {}

\* The session of the pair that c gives out, or may give out.
Giving(c) == IF c.kind = "refresh" THEN Of(c.p) ELSE Of(c.out)

Revoked(S) == [s \in DOMAIN session |-> IF s \in S THEN [session[s] EXCEPT !.state = "revoked"]
                                        ELSE session[s]]
Unrevoked  == {s \in DOMAIN session : session[s].state # "revoked"}

\* Bounds: what the calls on their way will still add is counted.
Opening     == {c \in calls : c.kind \in {"login", "password"} /\ c.pc # "answer"}
ToBump      == {c \in calls : c.kind \in {"password", "owner"} /\ c.pc \notin {"revoke", "insert", "answer"}}
MayOpen     == Len(session) + Cardinality(Opening) < MaxSessions
MayCut      == account.epoch + Cardinality(ToBump) < MaxEpoch
MayRefresh(t) == Live(mem[t].s) => mem[t].k < MaxRefresh

\* Some call has moved the epoch and not yet revoked the sessions; the epoch
\* that the rows of sessions have caught up with (history).
Cutting  == \E c \in calls : c.kind \in {"password", "owner"} /\ c.pc = "revoke"
Enforced == IF Cutting THEN account.epoch - 1 ELSE account.epoch

-----------------------------------------------------------------------------
(* The server: one action per statement of a route.                        *)

\* The compare-and-swap of a refresh.
Cas(c) ==
  /\ c.pc = "cas"
  /\ IF Live(c.p.s) /\ session[c.p.s].cur = c.p.k
       THEN /\ session' = [session EXCEPT ![c.p.s].cur = @ + 1]
            /\ calls' = (calls \ {c}) \cup {[c EXCEPT !.pc = "user", !.seen = Enforced]}
       ELSE UNCHANGED session /\ Move(c, "reuse")
  /\ UNCHANGED <<account, past, tabs>>

\* It matched no session: a replaced token that comes back ends its session.
Reuse(c) ==
  /\ c.pc = "reuse"
  /\ LET hit == IF Superseded(c.p) THEN {c.p.s} \cap Unrevoked ELSE {}
     IN  /\ session' = Revoked(hit) /\ calls' = Answered(c, None)
         /\ past' = [past EXCEPT !.reused = @ \cup hit]
  /\ UNCHANGED <<account, tabs>>

\* It matched: the account must still be active for the tokens to be given.
CheckUser(c) ==
  /\ c.pc = "user"
  /\ IF account.active
       THEN LET out == [s |-> c.p.s, k |-> c.p.k + 1, iat |-> account.epoch]
            IN  /\ calls' = Answered(c, out) /\ UNCHANGED session
                /\ past' = [past EXCEPT !.slipped = @ \cup
                              (IF Cutting \/ c.seen < account.epoch THEN {c.p.s} ELSE {})]
       ELSE session' = Revoked({c.p.s}) /\ calls' = Answered(c, None) /\ UNCHANGED past
  /\ UNCHANGED <<account, tabs>>

\* A login is checked against the account, ...
Verify(c) ==
  /\ c.pc = "verify"
  /\ calls' = IF account.active
                THEN (calls \ {c}) \cup {[c EXCEPT !.pc = "insert", !.seen = account.epoch]}
                ELSE Answered(c, None)
  /\ UNCHANGED <<server, past, tabs>>

\* ... then issueSession makes an access token and inserts the row.
Insert(c) ==
  /\ c.pc = "insert"
  /\ \E iat \in c.seen..account.epoch :
       LET out == [s |-> Len(session) + 1, k |-> 0, iat |-> iat]
       IN  /\ session' = Append(session, [cur |-> 0, state |-> "live", born |-> account.epoch])
           /\ calls' = Answered(c, out)
           /\ past' = [past EXCEPT !.lost = @ \cup Unheard(c, out)]
  /\ UNCHANGED <<account, tabs>>

\* A logout ends the session whose current token is the one presented.
ServeLogout(c) ==
  /\ c.kind = "logout" /\ c.pc = "revoke"
  /\ session' = Revoked({s \in {c.p.s} : session[s].cur = c.p.k})
  /\ calls' = Answered(c, None)
  /\ UNCHANGED <<account, past, tabs>>

\* authenticate lets a call in; it may refuse any, as the token may have expired.
Admit(c) ==
  /\ c.pc \in {"auth", "reauth"} /\ Accepted(c.p)
  /\ calls' = (calls \ {c}) \cup
       {[c EXCEPT !.pc = IF c.kind = "password" THEN "bump" ELSE "revoke", !.seen = account.epoch]}
  /\ UNCHANGED <<server, past, tabs>>

Refuse(c) ==
  /\ c.pc \in {"auth", "reauth"}
  /\ IF c.pc = "reauth" THEN calls' = Answered(c, None)
     ELSE IF c.tab = None THEN calls' = calls \ {c}
     ELSE Move(c, "refused")
  /\ UNCHANGED <<server, past, tabs>>

\* « Disconnect my other devices »: every session whose current token is not
\* the one in the header.
RevokeOthers(c) ==
  /\ c.kind = "others" /\ c.pc = "revoke"
  /\ session' = Revoked({s \in Unrevoked : s # c.hdr.s \/ session[s].cur # c.hdr.k})
  /\ calls' = Answered(c, None)
  /\ UNCHANGED <<account, past, tabs>>

\* A password change, or the owner's revocation, moves the epoch first ...
Bump(c) ==
  /\ c.pc = "bump"
  /\ account' = [account EXCEPT !.epoch = @ + 1]
  /\ calls' = (calls \ {c}) \cup {[c EXCEPT !.pc = "revoke", !.seen = account.epoch + 1]}
  /\ UNCHANGED <<session, past, tabs>>

\* ... then revokes every session; a password change opens a new one.
RevokeAll(c) ==
  /\ c.kind \in {"password", "owner"} /\ c.pc = "revoke"
  /\ session' = Revoked(Unrevoked)
  /\ IF c.kind = "password" THEN Move(c, "insert") ELSE calls' = calls \ {c}
  /\ UNCHANGED <<account, past, tabs>>

\* Events that come from elsewhere are counted.
Event == past.events < MaxEvents /\ past' = [past EXCEPT !.events = @ + 1]

OwnerRevokes ==
  /\ MayCut /\ Event
  /\ Send(NewCall(None, "owner", "bump", None))
  /\ UNCHANGED <<server, tabs>>

\* A reset moves the epoch and revokes the sessions in one transaction.
Reset ==
  /\ MayCut /\ Event /\ account.active
  /\ account' = [account EXCEPT !.epoch = @ + 1]
  /\ session' = Revoked(Unrevoked)
  /\ UNCHANGED <<calls, tabs>>

Suspend ==
  /\ Event /\ account.active /\ account' = [account EXCEPT !.active = FALSE]
  /\ session' = Revoked(Unrevoked)
  /\ UNCHANGED <<calls, tabs>>

Reactivate ==
  /\ ~account.active /\ account' = [account EXCEPT !.active = TRUE]
  /\ UNCHANGED <<session, calls, past, tabs>>

\* A session reaches its age limit.
Expire(s) ==
  /\ Event /\ Live(s) /\ session' = [session EXCEPT ![s].state = "expired"]
  /\ UNCHANGED <<account, calls, tabs>>

-----------------------------------------------------------------------------
(* The tabs.                                                               *)

Mine(t)    == {c \in calls : c.tab = t}
Busy(t)    == \E c \in Mine(t) : c.kind # "refresh"
Waiting(t) == {c \in Mine(t) : c.pc = "waiting"}

\* Emptying the storage tells every other tab.
Emptied(t) == IF storage = None THEN gone ELSE gone \cup (Tabs \ {t})

\* tryRefresh answers ok to the call that waits for it: it is sent again, with
\* the access token of now and the headers it had.
Settled(t, C, ok, new) ==
  (C \ Waiting(t)) \cup
  (IF ok THEN {[w EXCEPT !.pc = "reauth", !.p = new] : w \in Waiting(t)} ELSE {})

\* A call of the page is refused: the tab asks for the lock.
Reject(t) ==
  /\ mem[t] # None /\ job[t] = "idle"
  /\ MayRefresh(t)
  /\ job' = [job EXCEPT ![t] = "wait"]
  /\ UNCHANGED <<server, calls, past, storage, mem, gone>>

\* An operation of the user is refused: it waits for the refresh of the tab.
Refused(t, c) ==
  /\ c.tab = t /\ c.pc = "refused"
  /\ IF mem[t] = None
       THEN calls' = calls \ {c} /\ UNCHANGED job
       ELSE /\ MayRefresh(t)
            /\ Move(c, "waiting")
            /\ job' = [job EXCEPT ![t] = IF @ = "idle" THEN "wait" ELSE @]
  /\ UNCHANGED <<server, past, storage, mem, gone>>

\* Mutant of Acquire: without the lock.
AcquireUnlocked(t) ==
  /\ job[t] = "wait"
  /\ LET latest == ReadTokens(t)
     IN  IF latest # None /\ latest = mem[t]
           THEN /\ job' = [job EXCEPT ![t] = "refresh"] /\ UNCHANGED mem
                /\ Send(NewCall(t, "refresh", "cas", latest))
           ELSE /\ job' = [job EXCEPT ![t] = "idle"]
                /\ mem' = IF latest = None THEN mem ELSE [mem EXCEPT ![t] = latest]
                /\ calls' = Settled(t, calls, latest # None, latest)
  /\ UNCHANGED <<server, past, storage, gone>>

\* With the lock, the tab reads the storage: nothing there, another tab's newer
\* pair, or its own pair, which it then presents.
Acquire(t) ==
  /\ job[t] = "wait" /\ \A u \in Tabs : job[u] # "refresh"
  /\ LET latest == ReadTokens(t)
     IN  IF latest # None /\ latest = mem[t]
           THEN /\ job' = [job EXCEPT ![t] = "refresh"] /\ UNCHANGED mem
                /\ Send(NewCall(t, "refresh", "cas", latest))
           ELSE /\ job' = [job EXCEPT ![t] = "idle"]
                /\ mem' = IF latest = None THEN mem ELSE [mem EXCEPT ![t] = latest]
                /\ calls' = Settled(t, calls, latest # None, latest)
  /\ UNCHANGED <<server, past, storage, gone>>

\* Mutants of EndRefresh: the new pair is not saved; the storage is not read
\* again; a refusal is taken for an outage.
EndRefreshUnsaved(t, c) ==
  /\ c.tab = t /\ c.kind = "refresh" /\ c.pc = "answer"
  /\ LET same == mem[t] = c.p /\ ReadTokens(t) = c.p
     IN  /\ IF same
              THEN /\ mem' = [mem EXCEPT ![t] = c.out] /\ storage' = IF c.out = None THEN None ELSE storage
                   /\ gone' = IF c.out = None THEN Emptied(t) ELSE gone
                   /\ UNCHANGED past
              ELSE /\ UNCHANGED <<mem, storage, gone>>
                   /\ past' = [past EXCEPT !.left = @ \cup Of(c.out)]
         /\ calls' = Settled(t, calls \ {c}, same /\ c.out # None, c.out)
  /\ job' = [job EXCEPT ![t] = "idle"]
  /\ UNCHANGED server

EndRefreshRegardless(t, c) ==
  /\ c.tab = t /\ c.kind = "refresh" /\ c.pc = "answer"
  /\ LET same == mem[t] = c.p
     IN  /\ IF same
              THEN /\ mem' = [mem EXCEPT ![t] = c.out] /\ storage' = c.out
                   /\ gone' = IF c.out = None THEN Emptied(t) ELSE gone
                   /\ UNCHANGED past
              ELSE /\ UNCHANGED <<mem, storage, gone>>
                   /\ past' = [past EXCEPT !.left = @ \cup Of(c.out)]
         /\ calls' = Settled(t, calls \ {c}, same /\ c.out # None, c.out)
  /\ job' = [job EXCEPT ![t] = "idle"]
  /\ UNCHANGED server

EndRefreshPatiently(t, c) ==
  /\ c.tab = t /\ c.kind = "refresh" /\ c.pc = "answer"
  /\ LET same == mem[t] = c.p /\ ReadTokens(t) = c.p /\ c.out # None
     IN  /\ IF same
              THEN /\ mem' = [mem EXCEPT ![t] = c.out] /\ storage' = c.out
                   /\ gone' = IF c.out = None THEN Emptied(t) ELSE gone
                   /\ UNCHANGED past
              ELSE /\ UNCHANGED <<mem, storage, gone>>
                   /\ past' = [past EXCEPT !.left = @ \cup Of(c.out)]
         /\ calls' = Settled(t, calls \ {c}, same /\ c.out # None, c.out)
  /\ job' = [job EXCEPT ![t] = "idle"]
  /\ UNCHANGED server

\* The answer is for the pair that was presented: after a logout or another
\* login, it is dropped.
EndRefresh(t, c) ==
  /\ c.tab = t /\ c.kind = "refresh" /\ c.pc = "answer"
  /\ LET same == mem[t] = c.p /\ ReadTokens(t) = c.p
     IN  /\ IF same
              THEN /\ mem' = [mem EXCEPT ![t] = c.out] /\ storage' = c.out
                   /\ gone' = IF c.out = None THEN Emptied(t) ELSE gone
                   /\ UNCHANGED past
              ELSE /\ UNCHANGED <<mem, storage, gone>>
                   /\ past' = [past EXCEPT !.left = @ \cup Of(c.out)]
         /\ calls' = Settled(t, calls \ {c}, same /\ c.out # None, c.out)
  /\ job' = [job EXCEPT ![t] = "idle"]
  /\ UNCHANGED server

Login(t) ==
  /\ mem[t] = None /\ ~Busy(t) /\ MayOpen
  /\ Send(NewCall(t, "login", "verify", None))
  /\ UNCHANGED <<server, past, tabs>>

ChangePassword(t) ==
  /\ mem[t] # None /\ ~Busy(t) /\ MayOpen /\ MayCut
  /\ Send(NewCall(t, "password", "auth", mem[t]))
  /\ UNCHANGED <<server, past, tabs>>

DisconnectOthers(t) ==
  /\ mem[t] # None /\ ~Busy(t) /\ past.others < MaxOthers
  /\ Send(NewCall(t, "others", "auth", mem[t]))
  /\ past' = [past EXCEPT !.others = @ + 1]
  /\ UNCHANGED <<server, tabs>>

Logout(t) ==
  /\ mem[t] # None /\ ~Busy(t)
  /\ Send(NewCall(t, "logout", "revoke", mem[t]))
  /\ UNCHANGED <<server, past, tabs>>

\* The answer of a login, of a password change (a new pair or an error), of
\* « my other devices ».
EndCall(t, c) ==
  /\ c.tab = t /\ c.kind \in {"login", "password", "others"} /\ c.pc = "answer"
  /\ calls' = calls \ {c}
  /\ IF c.out = None THEN UNCHANGED <<mem, storage, past>>
     ELSE /\ mem' = [mem EXCEPT ![t] = c.out] /\ storage' = c.out
          /\ past' = [past EXCEPT !.left = @ \cup Of(storage)]
  /\ UNCHANGED <<server, gone, job>>

\* The tab forgets its pair and empties the storage.
Forget(t) == mem' = [mem EXCEPT ![t] = None] /\ storage' = None

EndLogout(t, c) ==
  /\ c.tab = t /\ c.kind = "logout" /\ c.pc = "answer"
  /\ Forget(t) /\ gone' = Emptied(t) /\ calls' = calls \ {c}
  /\ past' = [past EXCEPT !.left = @ \cup Of(storage)]
  /\ UNCHANGED <<server, job>>

\* Mutant of HandleGone: the tab keeps its tokens.
HandleGoneVisibly(t) ==
  /\ t \in gone /\ gone' = gone \ {t}
  /\ UNCHANGED <<server, calls, job, past, mem, storage>>

\* The handler of the storage event resets the tab, and the storage with it.
HandleGone(t) ==
  /\ t \in gone /\ Forget(t) /\ gone' = Emptied(t) \ {t}
  /\ past' = [past EXCEPT !.left = @ \cup Of(storage)]
  /\ UNCHANGED <<server, calls, job>>

\* The connection of a call breaks: the request may still reach the server, and
\* the answer is lost.  A logout then ends all the same in the tab.
Cut(t, c) ==
  /\ past.cut < MaxLost
  /\ c.tab = t /\ c.pc \notin {"refused", "waiting"}
  /\ \E arrived \in BOOLEAN :
       LET rest == IF arrived /\ c.pc # "answer" THEN {[c EXCEPT !.tab = None]} ELSE {}
       IN  /\ arrived \/ c.pc \in {"cas", "verify", "auth", "reauth", "answer"}
                      \/ c.kind = "logout"
           /\ calls' = Settled(t, (calls \ {c}) \cup rest, FALSE, None)
  /\ past' = [past EXCEPT !.cut = @ + 1, !.lost = @ \cup Giving(c),
                          !.left = @ \cup (IF c.kind = "logout" THEN Of(storage) ELSE {})]
  /\ job' = IF c.kind = "refresh" THEN [job EXCEPT ![t] = "idle"] ELSE job
  /\ IF c.kind = "logout" THEN Forget(t) /\ gone' = Emptied(t) ELSE UNCHANGED <<mem, storage, gone>>
  /\ UNCHANGED server

\* The tab is loaded again: it reads the storage; nobody waits for its calls.
Reload(t) ==
  /\ past.cut < MaxLost
  /\ mem' = [mem EXCEPT ![t] = storage] /\ gone' = gone \ {t} /\ job' = [job EXCEPT ![t] = "idle"]
  /\ calls' = (calls \ Mine(t)) \cup
       {[c EXCEPT !.tab = None] : c \in {d \in Mine(t) : d.pc \notin {"answer", "refused", "waiting"}}}
  /\ past' = [past EXCEPT !.cut = @ + 1, !.lost = @ \cup UNION {Giving(c) : c \in Mine(t)}]
  /\ UNCHANGED <<server, storage>>

-----------------------------------------------------------------------------

Statement(c) == \/ Cas(c) \/ Reuse(c) \/ CheckUser(c) \/ Verify(c) \/ Insert(c)
                \/ ServeLogout(c) \/ Admit(c) \/ Refuse(c) \/ RevokeOthers(c)
                \/ Bump(c) \/ RevokeAll(c)

Tab(t) == \/ Reject(t) \/ Acquire(t) \/ HandleGone(t)
          \/ Login(t) \/ ChangePassword(t) \/ DisconnectOthers(t) \/ Logout(t) \/ Reload(t)

Page(c) == \E t \in Tabs : Refused(t, c) \/ EndRefresh(t, c) \/ EndCall(t, c) \/ EndLogout(t, c)

Next == \/ \E c \in calls : Statement(c) \/ Page(c) \/ \E t \in Tabs : Cut(t, c)
        \/ \E t \in Tabs : Tab(t)
        \/ OwnerRevokes \/ Reset \/ Suspend \/ Reactivate
        \/ \E s \in DOMAIN session : Expire(s)

Spec == Init /\ [][Next]_vars

\* The server answers each call that reaches it and the page handles the
\* answer, whatever other calls do.  Access tokens run out, so a page that is
\* used is refused in the end; the browser grants a lock in the order it was
\* asked for.
Progress(t, refreshes) ==
  \E c \in Mine(t) : (c.kind = "refresh") = refreshes /\ (Statement(c) \/ Page(c))

LiveSpec ==
  /\ Spec
  /\ \A t \in Tabs : /\ \A b \in BOOLEAN : WF_vars(Progress(t, b))
                     /\ WF_vars(Reject(t)) /\ SF_vars(Acquire(t)) /\ WF_vars(HandleGone(t))

-----------------------------------------------------------------------------
(* Properties.                                                             *)

\* The detection of a replayed token (auth.ts, /refresh) never ends a session
\* whose tabs merely refreshed together: only one of which a tab gave up a
\* refresh, its connection cut.  The lock, and the reading of the storage under it,
\* are what this rests on.
NoFalseAlarm == past.reused \subseteq past.lost

\* The current refresh token of a live session is in the storage, or on its way
\* there, unless its answer was lost or the browser dropped it at a logout or
\* another login: a refresh never loses a session by itself, and a refusal
\* empties the storage only of a dead one.
Coming(s) == \E c \in calls : \/ c.pc = "user" /\ c.p.s = s
                              \/ c.out # None /\ c.out.s = s /\ c.out.k = session[s].cur
TokenKept ==
  \A s \in DOMAIN session :
    \/ ~Live(s) \/ s \in past.lost \cup past.left \/ Coming(s)
    \/ storage # None /\ storage.s = s /\ storage.k = session[s].cur

\* A tab that still holds a pair while the storage is empty has been told so
\* and will reset itself: no tab goes on alone with the tokens of an account
\* another tab has left (session.tsx, onStorage).
NoZombieTab == storage = None => \A t \in Tabs : mem[t] # None => t \in gone

\* After a password change, a reset or a revocation by the owner, the access
\* tokens still accepted are of sessions opened since; the only others are
\* those of a refresh that overlapped the revocation.
EpochEndsAccess ==
  \A t \in Tabs : mem[t] # None /\ Accepted(mem[t]) /\ ~Cutting =>
    session[mem[t].s].born = account.epoch \/ mem[t].s \in past.slipped

\* The storage, once emptied, is filled again by a new login or a password
\* change only: a refresh under way while another tab logs out does not bring
\* the session back.
NoResurrection ==
  [][storage = None /\ storage' # None =>
       \E c \in calls : c.kind \in {"login", "password"} /\ c.pc = "answer" /\ c.out = storage']_vars

\* A tab whose session has ended does not keep it for ever: its next refusals
\* lead it to another session, or to none.
Dead(t) == mem[t] # None /\ session[mem[t].s].state # "live"
DeadTabEnds == \A t \in Tabs : Dead(t) ~> ~Dead(t)

\* « Revoke every OTHER session » leaves alone the session it is asked from.
OthersSparesCaller ==
  [][\A c \in calls : RevokeOthers(c) /\ Live(c.hdr.s) => Live(c.hdr.s)']_vars

\* « POST /logout revokes the session. »
LogoutEndsSession ==
  [][\A c \in calls : ServeLogout(c) => ~Live(c.p.s)']_vars
=============================================================================
