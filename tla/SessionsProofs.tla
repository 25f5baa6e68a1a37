--------------------------- MODULE SessionsProofs ---------------------------
(***************************************************************************)
(* Proofs about Sessions: the form of its states, and what holds of the    *)
(* tabs and of the storage they share.                                     *)
(*                                                                         *)
(* The bounds of the model count the calls on their way, which says        *)
(* nothing about the code; the form proved first leaves them out, and what *)
(* follows from it does not depend on them.  The bounds come last.         *)
(***************************************************************************)
EXTENDS Sessions, Integers, FiniteSetTheorems, SequenceTheorems, TLAPS

USE SessionsAssumption

AnyPair == [s : Nat, k : Nat, iat : Nat]
AnyRow  == [cur : Nat, state : {"live", "expired", "revoked"}, born : Nat]
Stages  == {"cas", "reuse", "user", "verify", "auth", "reauth", "bump", "revoke",
            "insert", "refused", "waiting", "answer"}
AnyCall == [tab : Tabs \cup {None},
            kind : {"refresh", "login", "logout", "password", "others", "owner"},
            pc : Stages,
            p : AnyPair \cup {None}, hdr : AnyPair \cup {None}, out : AnyPair \cup {None},
            seen : Int]

(* Type correctness without the bounds. *)
AccountForm == account \in [active : BOOLEAN, epoch : Nat]
SessionForm == session \in Seq(AnyRow)
TabsForm    == /\ storage \in AnyPair \cup {None} /\ mem \in [Tabs -> AnyPair \cup {None}]
               /\ gone \subseteq Tabs /\ job \in [Tabs -> {"idle", "wait", "refresh"}]
PastForm    == past \in [lost : SUBSET Nat, left : SUBSET Nat, reused : SUBSET Nat,
                         slipped : SUBSET Nat, cut : Nat, others : Nat, events : Nat]

(* What a call is at goes with what it is, and only a call that has ended, *)
(* of those that give a pair out, has one; a refresh gives out a pair of   *)
(* the session it was asked for.                                           *)
WellMade(c) ==
  /\ c.pc \in {"cas", "reuse", "user"} => c.kind = "refresh"
  /\ c.kind = "refresh" => c.p # None /\ c.pc \in {"cas", "reuse", "user", "answer"}
  /\ c.kind = "logout" => c.p # None /\ c.pc \in {"revoke", "answer"}
  /\ c.pc \in {"verify", "insert"} => c.kind \in {"login", "password"}
  /\ c.pc = "bump" => c.kind \in {"password", "owner"}
  /\ c.pc \in {"auth", "reauth", "refused", "waiting"} =>
       c.p # None /\ c.kind \in {"password", "others"}
  /\ c.out # None => c.pc = "answer" /\ c.kind \in {"refresh", "login", "password"}
  /\ c.kind = "refresh" /\ c.out # None => c.out.s = c.p.s
  /\ c.kind # "refresh" => c.seen \in Nat

(* A pair is of one of the n sessions that were opened. *)
Known(p, n) == \/ p = None
               \/ p \in AnyPair /\ p.s \in 1..n

Good(c, n) == c \in AnyCall /\ WellMade(c) /\ Known(c.p, n) /\ Known(c.out, n)

Sound ==
  /\ AccountForm /\ SessionForm /\ TabsForm /\ PastForm
  /\ Known(storage, Len(session)) /\ \A t \in Tabs : Known(mem[t], Len(session))
  /\ \A c \in calls : Good(c, Len(session))

-----------------------------------------------------------------------------
(* What the operators yield.                                               *)

\* A call that is sent.
LEMMA SentCall ==
  ASSUME AccountForm, NEW t \in Tabs \cup {None},
         NEW kind \in {"refresh", "login", "logout", "password", "others", "owner"},
         NEW pc \in {"cas", "verify", "auth", "bump", "revoke"},
         NEW p \in AnyPair \cup {None}
  PROVE  NewCall(t, kind, pc, p) \in AnyCall
BY DEF AccountForm, AnyCall, Stages, NewCall

\* Revoking sessions changes nothing else about them.
LEMMA RevokedForm ==
  ASSUME SessionForm, NEW S
  PROVE  /\ Revoked(S) \in Seq(AnyRow) /\ Len(Revoked(S)) = Len(session)
         /\ \A s \in 1..Len(session) :
              /\ Revoked(S)[s].cur = session[s].cur /\ Revoked(S)[s].born = session[s].born
              /\ Revoked(S)[s].state = IF s \in S THEN "revoked" ELSE session[s].state
<1>1. Len(session) \in Nat /\ DOMAIN session = 1..Len(session)
      /\ \A s \in 1..Len(session) : session[s] \in AnyRow
  BY LenProperties, ElementOfSeq DEF SessionForm
<1>2. Revoked(S) \in [1..Len(session) -> AnyRow]
  BY <1>1 DEF Revoked, AnyRow
<1>3. Revoked(S) \in Seq(AnyRow)
  BY <1>1, <1>2
<1>4. Len(Revoked(S)) = Len(session)
  BY <1>1, <1>2, <1>3, LenProperties
<1> QED BY <1>1, <1>3, <1>4 DEF Revoked, AnyRow

\* The calls of C that wait for the refresh of a tab go on, or are dropped.
LEMMA SettledForm ==
  ASSUME Sound, NEW t \in Tabs, NEW C \in SUBSET calls, NEW ok \in BOOLEAN,
         NEW new, ok => new \in AnyPair /\ Known(new, Len(session))
  PROVE  /\ \A c \in Settled(t, C, ok, new) : Good(c, Len(session))
         /\ \A c \in Settled(t, C, ok, new) :
              \/ c \in C
              \/ ok /\ c.kind # "refresh" /\ c.out = None
<1>1. \A w \in Waiting(t) : w \in calls /\ Good(w, Len(session)) /\ w.pc = "waiting"
  BY DEF Waiting, Mine, Sound
<1>2. ASSUME ok, NEW w \in Waiting(t)
      PROVE  /\ Good([w EXCEPT !.pc = "reauth", !.p = new], Len(session))
             /\ [w EXCEPT !.pc = "reauth", !.p = new].kind # "refresh"
             /\ [w EXCEPT !.pc = "reauth", !.p = new].out = None
  <2> DEFINE d == [w EXCEPT !.pc = "reauth", !.p = new]
  <2>1. w \in AnyCall /\ WellMade(w) /\ w.pc = "waiting" /\ Known(w.out, Len(session))
    BY <1>1 DEF Good
  <2>2. d \in AnyCall /\ d.pc = "reauth" /\ d.p = new /\ d.kind = w.kind /\ d.out = w.out
        /\ d.seen = w.seen
    BY <2>1, <1>2 DEF AnyCall, Stages
  <2>3. WellMade(d)
    BY <2>1, <2>2, <1>2 DEF WellMade, AnyPair
  <2> HIDE DEF d
  <2>4. Good(d, Len(session)) /\ d.kind # "refresh" /\ d.out = None
    BY <2>1, <2>2, <2>3, <1>2 DEF Good, WellMade
  <2> QED BY <2>4 DEF d
<1> QED BY <1>1, <1>2 DEF Settled, Sound

-----------------------------------------------------------------------------
(* Every step keeps states sound.                                          *)

LEMMA InitSound == Init => Sound
<1> SUFFICES ASSUME Init PROVE Sound
  OBVIOUS
<1>1. SessionForm
  BY DEF Init, SessionForm
<1> QED BY <1>1 DEF Init, Sound, AccountForm, TabsForm, PastForm, Known

LEMMA SessionFacts ==
  ASSUME Sound
  PROVE  /\ Len(session) \in Nat /\ DOMAIN session = 1..Len(session)
         /\ \A s \in 1..Len(session) : session[s] \in AnyRow
BY LenProperties, ElementOfSeq DEF Sound, SessionForm

LEMMA EpochForm == Sound => account.epoch \in Nat /\ account.epoch + 1 \in Nat
BY DEF Sound, AccountForm

LEMMA MoreKnown ==
  ASSUME NEW m \in Nat, NEW n \in Nat, m <= n
  PROVE  (\A p : Known(p, m) => Known(p, n)) /\ (\A c : Good(c, m) => Good(c, n))
BY DEF Known, Good

\* It is enough to look at the calls that a step adds, ...
LEMMA SoundByCalls ==
  ASSUME Sound, AccountForm', SessionForm', TabsForm', PastForm',
         Len(session') >= Len(session),
         Known(storage', Len(session')), \A t \in Tabs : Known(mem'[t], Len(session')),
         \A c \in calls' : c \in calls \/ Good(c, Len(session'))
  PROVE  Sound'
<1>1. Len(session) \in Nat /\ Len(session') \in Nat
  BY LenProperties DEF Sound, SessionForm
<1>2. \A c : Good(c, Len(session)) => Good(c, Len(session'))
  BY <1>1, MoreKnown
<1>3. \A c \in calls' : Good(c, Len(session'))
  BY <1>2 DEF Sound
<1> QED BY <1>3 DEF Sound

\* ... and less than that when the sessions keep their number, and the tabs what
\* they have.
LEMMA SoundByStatement ==
  ASSUME Sound, AccountForm', SessionForm', PastForm', UNCHANGED tabs,
         Len(session') = Len(session),
         \A c \in calls' : c \in calls \/ Good(c, Len(session))
  PROVE  Sound'
BY SoundByCalls, SessionFacts DEF Sound, tabs, TabsForm

\* A call that goes on keeps the rest.
Advanced(c, d, pc) == /\ d \in AnyCall /\ d.pc = pc
                      /\ d.tab = c.tab /\ d.kind = c.kind /\ d.p = c.p /\ d.out = c.out

LEMMA Advances ==
  ASSUME NEW c \in AnyCall,
         NEW pc \in Stages
  PROVE  Advanced(c, [c EXCEPT !.pc = pc], pc) /\ [c EXCEPT !.pc = pc].seen = c.seen
BY DEF Advanced, AnyCall

LEMMA AdvancesAt ==
  ASSUME NEW c \in AnyCall, NEW n \in Int,
         NEW pc \in Stages
  PROVE  /\ Advanced(c, [c EXCEPT !.pc = pc, !.seen = n], pc)
         /\ [c EXCEPT !.pc = pc, !.seen = n].seen = n
BY DEF Advanced, AnyCall

\* The answer to a call, with a pair or without.
LEMMA Answers ==
  ASSUME Sound, NEW c \in calls, NEW n \in Nat, Len(session) <= n,
         NEW out, Known(out, n),
         out # None => /\ c.kind \in {"refresh", "login", "password"}
                       /\ c.kind = "refresh" => out.s = c.p.s
  PROVE  \A d \in Answered(c, out) :
           \/ d \in calls \ {c}
           \/ /\ Good(d, n) /\ d.tab = c.tab /\ c.tab # None
              /\ d.kind = c.kind /\ d.p = c.p /\ d.pc = "answer" /\ d.out = out
<1> DEFINE d == [c EXCEPT !.pc = "answer", !.out = out]
<1>1. c \in AnyCall /\ WellMade(c) /\ Known(c.p, n)
  BY SessionFacts, MoreKnown DEF Sound, Good
<1>2. /\ d \in AnyCall /\ d.pc = "answer" /\ d.out = out /\ d.tab = c.tab
      /\ d.kind = c.kind /\ d.p = c.p /\ d.seen = c.seen
  BY <1>1 DEF AnyCall, Stages, Known
<1> HIDE DEF d
<1>3. WellMade(d)
  BY <1>1, <1>2 DEF WellMade
<1>4. Good(d, n)
  BY <1>1, <1>2, <1>3 DEF Good
<1> QED BY <1>2, <1>4 DEF Answered, d

-----------------------------------------------------------------------------
(* The statements of the server.                                           *)

LEMMA CasSound ==
  ASSUME Sound, NEW c \in calls, Cas(c)
  PROVE  Sound'
<1>1. c \in AnyCall /\ WellMade(c) /\ Good(c, Len(session)) /\ c.kind = "refresh" /\ c.out = None
  BY DEF Sound, Good, Cas, WellMade
<1>2. c.p \in AnyPair /\ c.p.s \in 1..Len(session)
  BY <1>1 DEF Good, Known, WellMade
<1>3. Enforced \in Int
  BY DEF Sound, AccountForm, Enforced, Cutting
<1>4. AccountForm' /\ PastForm' /\ UNCHANGED tabs
  BY DEF Cas, Sound, AccountForm, PastForm
<1>5. CASE Live(c.p.s) /\ session[c.p.s].cur = c.p.k
  <2> DEFINE d == [c EXCEPT !.pc = "user", !.seen = Enforced]
  <2>1. [session[c.p.s] EXCEPT !.cur = @ + 1] \in AnyRow
    <3> PICK old : old = session[c.p.s]
      OBVIOUS
    <3>0. old \in AnyRow
      BY <1>2, SessionFacts
    <3>1. old \in AnyRow /\ old.cur + 1 \in Nat
      BY <3>0 DEF AnyRow
    <3>2. [old EXCEPT !.cur = @ + 1] \in AnyRow
      BY <3>1 DEF AnyRow
    <3> QED BY <3>2
  <2>2. session' = [session EXCEPT ![c.p.s] = [session[c.p.s] EXCEPT !.cur = @ + 1]]
        /\ calls' = (calls \ {c}) \cup {d}
    BY <1>5 DEF Cas
  <2>3. SessionForm' /\ Len(session') = Len(session)
    BY <1>2, <2>1, <2>2, ExceptSeq DEF Sound, SessionForm
  <2>4. Advanced(c, d, "user")
    BY <1>1, <1>3, AdvancesAt DEF Stages
  <2> HIDE DEF d
  <2>5. Good(d, Len(session))
    BY <1>1, <2>4 DEF Good, WellMade, Advanced
  <2> QED BY <1>4, <2>2, <2>3, <2>5, SoundByStatement
<1>6. CASE ~(Live(c.p.s) /\ session[c.p.s].cur = c.p.k)
  <2> DEFINE d == [c EXCEPT !.pc = "reuse"]
  <2>1. session' = session /\ calls' = (calls \ {c}) \cup {d}
    BY <1>6 DEF Cas, Move
  <2>2. SessionForm'
    BY <2>1 DEF Sound, SessionForm
  <2>3. Advanced(c, d, "reuse")
    BY <1>1, <1>3, Advances DEF Stages
  <2> HIDE DEF d
  <2>4. Good(d, Len(session))
    BY <1>1, <2>3 DEF Good, WellMade, Advanced
  <2> QED BY <1>4, <2>1, <2>2, <2>4, SoundByStatement
<1> QED BY <1>5, <1>6

LEMMA ReuseSound ==
  ASSUME Sound, NEW c \in calls, Reuse(c)
  PROVE  Sound'
<1> DEFINE hit == IF Superseded(c.p) THEN {c.p.s} \cap Unrevoked ELSE {}
<1>1. session' = Revoked(hit) /\ calls' = Answered(c, None)
      /\ past' = [past EXCEPT !.reused = @ \cup hit]
  BY DEF Reuse
<1>2. hit \subseteq Nat
  BY SessionFacts DEF Unrevoked
<1> HIDE DEF hit
<1>3. SessionForm' /\ Len(session') = Len(session)
  BY <1>1, RevokedForm DEF Sound, SessionForm
<1>4. PastForm'
  BY <1>1, <1>2 DEF Sound, PastForm
<1>5. AccountForm' /\ UNCHANGED tabs
  BY DEF Reuse, Sound, AccountForm
<1>6. \A d \in calls' : d \in calls \/ Good(d, Len(session))
  BY <1>1, Answers, SessionFacts DEF Known
<1> QED BY <1>3, <1>4, <1>5, <1>6, SoundByStatement

LEMMA CheckUserSound ==
  ASSUME Sound, NEW c \in calls, CheckUser(c)
  PROVE  Sound'
<1>1. Good(c, Len(session)) /\ c.kind = "refresh" /\ c.p \in AnyPair /\ c.p.s \in 1..Len(session)
  BY DEF Sound, Good, WellMade, Known, CheckUser
<1>2. AccountForm' /\ UNCHANGED tabs
  BY DEF CheckUser, Sound, AccountForm
<1>3. CASE account.active
  <2> DEFINE out == [s |-> c.p.s, k |-> c.p.k + 1, iat |-> account.epoch]
  <2>1. Known(out, Len(session)) /\ out # None /\ out.s = c.p.s
    BY <1>1 DEF Sound, AccountForm, Known, AnyPair
  <2>2. calls' = Answered(c, out) /\ UNCHANGED session
    BY <1>3 DEF CheckUser
  <2>3. PastForm'
    <3> DEFINE S == IF Cutting \/ c.seen < account.epoch THEN {c.p.s} ELSE {}
    <3>1. S \subseteq Nat
      BY <1>1 DEF AnyPair
    <3>2. past' = [past EXCEPT !.slipped = @ \cup S]
      BY <1>3 DEF CheckUser
    <3> QED BY <3>1, <3>2 DEF Sound, PastForm
  <2> HIDE DEF out
  <2>4. \A d \in calls' : d \in calls \/ Good(d, Len(session))
    BY <1>1, <2>1, <2>2, Answers, SessionFacts
  <2> QED BY <1>2, <2>2, <2>3, <2>4, SoundByStatement DEF Sound, SessionForm
<1>4. CASE ~account.active
  <2>1. session' = Revoked({c.p.s}) /\ calls' = Answered(c, None) /\ UNCHANGED past
    BY <1>4 DEF CheckUser
  <2>2. SessionForm' /\ Len(session') = Len(session)
    BY <2>1, RevokedForm DEF Sound, SessionForm
  <2>3. \A d \in calls' : d \in calls \/ Good(d, Len(session))
    BY <2>1, Answers, SessionFacts DEF Known
  <2> QED BY <1>2, <2>1, <2>2, <2>3, SoundByStatement DEF Sound, PastForm
<1> QED BY <1>3, <1>4

LEMMA VerifySound ==
  ASSUME Sound, NEW c \in calls, Verify(c)
  PROVE  Sound'
<1> DEFINE now == account.epoch
           d   == [c EXCEPT !.pc = "insert", !.seen = now]
<1>1. c \in AnyCall /\ WellMade(c) /\ Good(c, Len(session)) /\ c.pc = "verify"
  BY DEF Sound, Good, Verify
<1>2. calls' = (calls \ {c}) \cup {d} \/ calls' = Answered(c, None)
  BY DEF Verify
<1>e. now \in Nat /\ now \in Int
  BY EpochForm
<1> HIDE DEF now
<1>3. Advanced(c, d, "insert") /\ d.seen \in Nat
  BY <1>1, <1>e, AdvancesAt DEF AnyCall, Stages
<1> HIDE DEF d
<1>4. Good(d, Len(session))
  BY <1>1, <1>3 DEF Good, WellMade, Advanced
<1>5. \A e \in calls' : e \in calls \/ Good(e, Len(session))
  BY <1>2, <1>4, Answers, SessionFacts DEF Known
<1> QED BY <1>5, SoundByStatement DEF Verify, server, Sound, AccountForm, SessionForm, PastForm

\* A session more.
LEMMA InsertSound ==
  ASSUME Sound, NEW c \in calls, Insert(c)
  PROVE  Sound'
<1> DEFINE row == [cur |-> 0, state |-> "live", born |-> account.epoch]
<1>1. c.kind \in {"login", "password"} /\ c.seen \in Nat /\ account.epoch \in Nat
  BY DEF Sound, Good, WellMade, Insert, AccountForm
<1>2. PICK iat \in c.seen..account.epoch :
        LET out == [s |-> Len(session) + 1, k |-> 0, iat |-> iat]
        IN  /\ session' = Append(session, row)
            /\ calls' = Answered(c, out)
            /\ past' = [past EXCEPT !.lost = @ \cup Unheard(c, out)]
  BY DEF Insert
<1> DEFINE out == [s |-> Len(session) + 1, k |-> 0, iat |-> iat]
<1>3. session' = Append(session, row) /\ row \in AnyRow
  BY <1>1, <1>2 DEF AnyRow
<1> HIDE DEF row
<1>4. SessionForm' /\ Len(session') = Len(session) + 1 /\ Len(session) \in Nat
  BY <1>3, SessionFacts DEF Sound, SessionForm
<1>5. Known(out, Len(session')) /\ out # None /\ Of(out) \subseteq Nat
  BY <1>1, <1>4 DEF Known, AnyPair, Of
<1>6. calls' = Answered(c, out) /\ past' = [past EXCEPT !.lost = @ \cup Unheard(c, out)]
  BY <1>2
<1> HIDE DEF out
<1>7. PastForm'
  BY <1>5, <1>6 DEF Sound, PastForm, Unheard
<1>8. \A d \in calls' : d \in calls \/ Good(d, Len(session'))
  BY <1>1, <1>4, <1>5, <1>6, Answers
<1>9. Known(storage', Len(session')) /\ \A t \in Tabs : Known(mem'[t], Len(session'))
  <2>1. \A p : Known(p, Len(session)) => Known(p, Len(session'))
    BY <1>4, MoreKnown
  <2> QED BY <2>1 DEF Insert, tabs, Sound
<1> QED BY <1>4, <1>7, <1>8, <1>9, SoundByCalls DEF Insert, tabs, Sound, AccountForm, TabsForm

\* Those that end sessions.
LEMMA RevokingSound ==
  ASSUME Sound, NEW c \in calls, ServeLogout(c) \/ RevokeOthers(c) \/ RevokeAll(c)
  PROVE  Sound'
<1>1. c \in AnyCall /\ WellMade(c) /\ Good(c, Len(session)) /\ UNCHANGED <<account, past, tabs>>
  BY DEF Sound, Good, ServeLogout, RevokeOthers, RevokeAll
<1>2. PICK S : session' = Revoked(S)
  BY DEF ServeLogout, RevokeOthers, RevokeAll
<1>3. SessionForm' /\ Len(session') = Len(session)
  BY <1>2, RevokedForm DEF Sound, SessionForm
<1> DEFINE d == [c EXCEPT !.pc = "insert"]
<1>4. \/ calls' = Answered(c, None) \/ calls' = calls \ {c}
      \/ c.kind = "password" /\ c.pc = "revoke" /\ calls' = (calls \ {c}) \cup {d}
  BY DEF ServeLogout, RevokeOthers, RevokeAll, Move
<1>5. Advanced(c, d, "insert") /\ d.seen = c.seen
  BY <1>1, Advances DEF Stages
<1> HIDE DEF d
<1>6. c.kind = "password" /\ c.pc = "revoke" => Good(d, Len(session))
  BY <1>1, <1>5 DEF Good, WellMade, Advanced
<1>7. \A e \in calls' : e \in calls \/ Good(e, Len(session))
  BY <1>4, <1>6, Answers, SessionFacts DEF Known
<1> QED BY <1>1, <1>3, <1>7, SoundByStatement DEF Sound, AccountForm, PastForm

LEMMA AdmitSound ==
  ASSUME Sound, NEW c \in calls, Admit(c) \/ Refuse(c)
  PROVE  Sound'
<1> DEFINE pc  == IF c.kind = "password" THEN "bump" ELSE "revoke"
           now == account.epoch
           d   == [c EXCEPT !.pc = pc, !.seen = now]
           e   == [c EXCEPT !.pc = "refused"]
<1>1. c \in AnyCall /\ WellMade(c) /\ Good(c, Len(session)) /\ c.pc \in {"auth", "reauth"}
  BY DEF Sound, Good, Admit, Refuse
<1>2. \/ calls' = (calls \ {c}) \cup {d} \/ calls' = (calls \ {c}) \cup {e}
      \/ calls' = Answered(c, None) \/ calls' = calls \ {c}
  BY DEF Admit, Refuse, Move
<1>p. /\ now \in Nat /\ now \in Int /\ pc \in {"bump", "revoke"} /\ pc \in Stages
      /\ pc = "bump" => c.kind = "password"
  BY EpochForm DEF Stages
<1> HIDE DEF now, pc
<1>3. Advanced(c, d, pc) /\ d.seen \in Nat 
  BY <1>1, <1>p, AdvancesAt DEF AnyCall
<1>4. Advanced(c, e, "refused") /\ e.seen = c.seen
  BY <1>1, Advances DEF Stages
<1> HIDE DEF d, e
<1>5. Good(d, Len(session)) /\ Good(e, Len(session))
  BY <1>1, <1>p, <1>3, <1>4 DEF Good, WellMade, Advanced
<1>6. \A f \in calls' : f \in calls \/ Good(f, Len(session))
  BY <1>2, <1>5, Answers, SessionFacts DEF Known
<1> QED BY <1>6, SoundByStatement
        DEF Admit, Refuse, server, Sound, AccountForm, SessionForm, PastForm

LEMMA BumpSound ==
  ASSUME Sound, NEW c \in calls, Bump(c)
  PROVE  Sound'
<1> DEFINE now == account.epoch + 1
           d   == [c EXCEPT !.pc = "revoke", !.seen = now]
<1>1. c \in AnyCall /\ WellMade(c) /\ Good(c, Len(session)) /\ c.pc = "bump"
  BY DEF Sound, Good, Bump
<1>2. calls' = (calls \ {c}) \cup {d}
  BY DEF Bump
<1>e. now \in Nat /\ now \in Int
  BY EpochForm
<1> HIDE DEF now
<1>3. Advanced(c, d, "revoke") /\ d.seen \in Nat
  BY <1>1, <1>e, AdvancesAt DEF AnyCall, Stages
<1> HIDE DEF d
<1>4. Good(d, Len(session))
  BY <1>1, <1>3 DEF Good, WellMade, Advanced
<1>5. AccountForm' /\ SessionForm' /\ PastForm'
  <2>1. account' = [account EXCEPT !.epoch = now] /\ UNCHANGED <<session, past>>
    BY DEF Bump, now
  <2>2. AccountForm'
    BY <1>e, <2>1 DEF Sound, AccountForm
  <2> QED
    BY <2>1, <2>2 DEF Sound, SessionForm, PastForm
<1> QED BY <1>2, <1>4, <1>5, SoundByStatement DEF Bump

\* What comes from elsewhere.
LEMMA ElsewhereSound ==
  ASSUME Sound, OwnerRevokes \/ Reset \/ Suspend \/ Reactivate \/ \E s \in DOMAIN session : Expire(s)
  PROVE  Sound'
<1>1. AccountForm' /\ PastForm' /\ UNCHANGED tabs
  <2>1. past' = past \/ Event
    BY DEF OwnerRevokes, Reset, Suspend, Reactivate, Expire
  <2>2. ASSUME past' = [past EXCEPT !.events = past.events + 1] PROVE PastForm'
    <3>1. past.events + 1 \in Nat
      BY DEF Sound, PastForm
    <3> QED BY <2>2, <3>1 DEF Sound, PastForm
  <2>3. PastForm'
    BY <2>1, <2>2 DEF Event, Sound, PastForm
  <2> QED BY <2>3, EpochForm DEF OwnerRevokes, Reset, Suspend, Reactivate, Expire, Event, server, tabs, Sound,
         AccountForm
<1>2. SessionForm' /\ Len(session') = Len(session)
  <2>1. ASSUME NEW s \in DOMAIN session, Expire(s)
        PROVE  SessionForm' /\ Len(session') = Len(session)
    <3>1. s \in 1..Len(session) /\ [session[s] EXCEPT !.state = "expired"] \in AnyRow
      BY SessionFacts DEF AnyRow
    <3>2. session' = [session EXCEPT ![s] = [session[s] EXCEPT !.state = "expired"]]
      BY <2>1 DEF Expire
    <3> QED BY <3>1, <3>2, ExceptSeq DEF Sound, SessionForm
  <2>2. CASE Reset \/ Suspend
    BY <2>2, RevokedForm DEF Reset, Suspend, Sound, SessionForm
  <2>3. CASE OwnerRevokes \/ Reactivate
    BY <2>3 DEF OwnerRevokes, Reactivate, server, Sound, SessionForm
  <2> QED BY <2>1, <2>2, <2>3
<1>3. calls' = calls \/ calls' = calls \cup {NewCall(None, "owner", "bump", None)}
  BY DEF OwnerRevokes, Reset, Suspend, Reactivate, Expire, Send
<1>4. Good(NewCall(None, "owner", "bump", None), Len(session))
  <2> DEFINE d == NewCall(None, "owner", "bump", None)
  <2>1. d \in AnyCall
    BY SentCall DEF Sound
  <2>2. d.kind = "owner" /\ d.pc = "bump" /\ d.p = None /\ d.out = None /\ d.seen \in Nat
    BY DEF NewCall, Sound, AccountForm
  <2> QED BY <2>1, <2>2 DEF Good, WellMade, Known
<1> QED BY <1>1, <1>2, <1>3, <1>4, SoundByStatement

-----------------------------------------------------------------------------
(* The steps of the tabs.                                                  *)

\* A tab that sends a call.
LEMMA GoodSent ==
  ASSUME Sound, NEW t \in Tabs, NEW p, Known(p, Len(session)),
         NEW kind, NEW pc,
         \/ kind = "refresh" /\ pc = "cas" /\ p # None
         \/ kind = "login" /\ pc = "verify"
         \/ kind \in {"password", "others"} /\ pc = "auth" /\ p # None
         \/ kind = "logout" /\ pc = "revoke" /\ p # None
  PROVE  LET d == NewCall(t, kind, pc, p)
         IN  /\ Good(d, Len(session)) /\ d.tab = t /\ d.kind = kind /\ d.pc = pc /\ d.p = p
             /\ d.out = None
<1> DEFINE d == NewCall(t, kind, pc, p)
<1>1. d \in AnyCall
  BY SentCall DEF Sound, Known
<1>2. d.tab = t /\ d.kind = kind /\ d.pc = pc /\ d.p = p /\ d.out = None /\ d.seen \in Nat
  BY EpochForm DEF NewCall
<1> HIDE DEF d
<1>3. Good(d, Len(session))
  BY <1>1, <1>2 DEF Good, WellMade, Known
<1> QED BY <1>2, <1>3 DEF d

LEMMA SendingSound ==
  ASSUME Sound, NEW t \in Tabs,
         Login(t) \/ ChangePassword(t) \/ DisconnectOthers(t) \/ Logout(t)
  PROVE  Sound'
<1>1. Known(mem[t], Len(session)) /\ Known(None, Len(session))
  BY DEF Sound, Known
<1>2. AccountForm' /\ SessionForm' /\ PastForm' /\ UNCHANGED tabs /\ session' = session
  BY SMTT(30) DEF Login, ChangePassword, DisconnectOthers, Logout, server, tabs, Sound,
         AccountForm, SessionForm, PastForm
<1>3. \A d \in calls' : d \in calls \/ Good(d, Len(session))
  BY <1>1, GoodSent DEF Login, ChangePassword, DisconnectOthers, Logout, Send
<1> QED BY <1>2, <1>3, SoundByStatement

\* It is enough to look at what the tabs have and at the calls, when the server
\* does nothing.
LEMMA SoundByTabs ==
  ASSUME Sound, UNCHANGED server, TabsForm', PastForm',
         Known(storage', Len(session)), \A t \in Tabs : Known(mem'[t], Len(session)),
         \A c \in calls' : c \in calls \/ Good(c, Len(session))
  PROVE  Sound'
<1>1. AccountForm' /\ SessionForm' /\ session' = session
  BY DEF server, Sound, AccountForm, SessionForm
<1> QED BY <1>1, SoundByCalls, SessionFacts

LEMMA RejectSound ==
  ASSUME Sound, NEW t \in Tabs, Reject(t)
  PROVE  Sound'
BY SoundByTabs DEF Reject, Sound, TabsForm, PastForm

LEMMA RefusedSound ==
  ASSUME Sound, NEW t \in Tabs, NEW c \in calls, Refused(t, c)
  PROVE  Sound'
<1> DEFINE d == [c EXCEPT !.pc = "waiting"]
<1>1. c \in AnyCall /\ WellMade(c) /\ Good(c, Len(session)) /\ c.pc = "refused"
  BY DEF Sound, Good, Refused
<1>2. calls' = calls \ {c} \/ calls' = (calls \ {c}) \cup {d}
  BY DEF Refused, Move
<1>3. Advanced(c, d, "waiting") /\ d.seen = c.seen
  BY <1>1, Advances DEF Stages
<1> HIDE DEF d
<1>4. Good(d, Len(session))
  BY <1>1, <1>3 DEF Good, WellMade, Advanced
<1>5. TabsForm' /\ PastForm'
  BY DEF Refused, Sound, TabsForm, PastForm
<1> QED BY <1>2, <1>4, <1>5, SoundByTabs DEF Refused, Sound

LEMMA AcquireSound ==
  ASSUME Sound, NEW t \in Tabs, Acquire(t)
  PROVE  Sound'
<1> DEFINE latest == ReadTokens(t)
           d      == NewCall(t, "refresh", "cas", latest)
           after  == Settled(t, calls, latest # None, latest)
<1>1. Known(latest, Len(session)) /\ latest \in AnyPair \cup {None}
  BY DEF ReadTokens, Sound, Known
<1>2. \/ calls' = calls \cup {d} /\ latest # None
      \/ calls' = after
  BY DEF Acquire, Send
<1>3. UNCHANGED <<server, past, storage, gone>>
      /\ mem' \in {mem, [mem EXCEPT ![t] = latest]}
      /\ job' \in {[job EXCEPT ![t] = "refresh"], [job EXCEPT ![t] = "idle"]}
  BY DEF Acquire
<1> HIDE DEF latest
<1>4. latest # None => Good(d, Len(session))
  BY <1>1, GoodSent
<1>5. \A c \in after : Good(c, Len(session))
  BY <1>1, SettledForm DEF Known
<1> HIDE DEF d, after
<1>6. \A c \in calls' : c \in calls \/ Good(c, Len(session))
  BY <1>2, <1>4, <1>5
<1>7. TabsForm' /\ PastForm' /\ Known(storage', Len(session))
      /\ \A u \in Tabs : Known(mem'[u], Len(session))
  BY <1>1, <1>3 DEF Sound, TabsForm, PastForm
<1> QED BY <1>3, <1>6, <1>7, SoundByTabs

\* What a refresh leaves.
LEMMA EndRefreshSound ==
  ASSUME Sound, NEW t \in Tabs, NEW c \in calls, EndRefresh(t, c)
  PROVE  Sound'
<1> DEFINE same  == mem[t] = c.p /\ ReadTokens(t) = c.p
           after == Settled(t, calls \ {c}, same /\ c.out # None, c.out)
<1>1. c \in AnyCall /\ Known(c.out, Len(session)) /\ Of(c.out) \subseteq Nat
  BY DEF Sound, Good, Known, Of, AnyPair
<1>2. calls' = after /\ UNCHANGED server /\ job' = [job EXCEPT ![t] = "idle"]
  BY DEF EndRefresh
<1>3. \A d \in calls' : Good(d, Len(session))
  BY <1>1, <1>2, SettledForm DEF Known
<1>4. PastForm'
  BY <1>1 DEF EndRefresh, Sound, PastForm
<1>5. gone' \subseteq Tabs
  BY DEF EndRefresh, Emptied, Sound, TabsForm
<1>6. \/ mem' = [mem EXCEPT ![t] = c.out] /\ storage' = c.out
      \/ mem' = mem /\ storage' = storage
  BY DEF EndRefresh
<1>7. TabsForm' /\ Known(storage', Len(session)) /\ \A u \in Tabs : Known(mem'[u], Len(session))
  BY <1>1, <1>2, <1>5, <1>6 DEF Sound, TabsForm, Known
<1> QED BY <1>2, <1>3, <1>4, <1>7, SoundByTabs

LEMMA EndCallSound ==
  ASSUME Sound, NEW t \in Tabs, NEW c \in calls, EndCall(t, c)
  PROVE  Sound'
<1>1. Known(c.out, Len(session)) /\ Of(storage) \subseteq Nat
  BY DEF Sound, Good, Known, Of, AnyPair
<1>2. PastForm'
  BY <1>1 DEF EndCall, Sound, PastForm
<1>3. TabsForm' /\ Known(storage', Len(session)) /\ \A u \in Tabs : Known(mem'[u], Len(session))
  BY <1>1 DEF EndCall, Sound, TabsForm, Known
<1> QED BY <1>2, <1>3, SoundByTabs DEF EndCall

\* Forgetting the pair.
LEMMA ForgettingSound ==
  ASSUME Sound, NEW t \in Tabs,
         HandleGone(t) \/ \E c \in calls : EndLogout(t, c)
  PROVE  Sound'
<1>1. Of(storage) \subseteq Nat
  BY DEF Sound, Known, Of, AnyPair
<1>2. PastForm'
  BY <1>1 DEF HandleGone, EndLogout, Sound, PastForm
<1>3. TabsForm' /\ Known(storage', Len(session)) /\ \A u \in Tabs : Known(mem'[u], Len(session))
  BY DEF HandleGone, EndLogout, Forget, Emptied, Sound, TabsForm, Known
<1> QED BY <1>2, <1>3, SoundByTabs DEF HandleGone, EndLogout

\* A call whose tab is gone.
LEMMA GoodUnheard ==
  ASSUME Sound, NEW c \in calls
  PROVE  LET d == [c EXCEPT !.tab = None]
         IN  /\ Good(d, Len(session)) /\ d.tab = None
             /\ d.kind = c.kind /\ d.pc = c.pc /\ d.p = c.p /\ d.out = c.out
<1> DEFINE d == [c EXCEPT !.tab = None]
<1>1. c \in AnyCall /\ WellMade(c) /\ Good(c, Len(session))
  BY DEF Sound, Good
<1>2. /\ d \in AnyCall /\ d.tab = None /\ d.seen = c.seen
      /\ d.kind = c.kind /\ d.pc = c.pc /\ d.p = c.p /\ d.out = c.out
  BY <1>1 DEF AnyCall
<1> HIDE DEF d
<1>3. Good(d, Len(session))
  BY <1>1, <1>2 DEF Good, WellMade
<1> QED BY <1>2, <1>3 DEF d

LEMMA GivingForm == \A c \in calls : Sound => Giving(c) \subseteq Nat
BY DEF Sound, Good, Known, Giving, Of, AnyPair

LEMMA CutSound ==
  ASSUME Sound, NEW t \in Tabs, NEW c \in calls, Cut(t, c)
  PROVE  Sound'
<1> DEFINE d == [c EXCEPT !.tab = None]
<1>1. Good(d, Len(session))
  BY GoodUnheard
<1>2. calls' \subseteq calls \cup {d}
  BY DEF Cut, Settled
<1>3. Giving(c) \subseteq Nat /\ Of(storage) \subseteq Nat
  BY GivingForm DEF Sound, Known, Of, AnyPair
<1> HIDE DEF d
<1>4. PastForm'
  <2> DEFINE S == IF c.kind = "logout" THEN Of(storage) ELSE {}
  <2>1. S \subseteq Nat
    BY <1>3
  <2>2. past' = [past EXCEPT !.cut = @ + 1, !.lost = @ \cup Giving(c), !.left = @ \cup S]
    BY DEF Cut
  <2> HIDE DEF S
  <2>3. past.cut \in Nat /\ past.lost \cup Giving(c) \in SUBSET Nat
        /\ past.left \cup S \in SUBSET Nat
    BY <1>3, <2>1 DEF Sound, PastForm
  <2>4. past.cut + 1 \in Nat
    BY <2>3
  <2> QED BY <2>2, <2>3, <2>4 DEF Sound, PastForm
<1>5. TabsForm' /\ Known(storage', Len(session)) /\ \A u \in Tabs : Known(mem'[u], Len(session))
  BY DEF Cut, Forget, Emptied, Sound, TabsForm, Known
<1> QED BY <1>1, <1>2, <1>4, <1>5, SoundByTabs DEF Cut

LEMMA ReloadSound ==
  ASSUME Sound, NEW t \in Tabs, Reload(t)
  PROVE  Sound'
<1>1. \A c \in calls' : c \in calls \/ \E d \in calls : c = [d EXCEPT !.tab = None]
  BY DEF Reload, Mine
<1>2. \A c \in calls' : c \in calls \/ Good(c, Len(session))
  BY <1>1, GoodUnheard
<1>3. PastForm'
  <2> DEFINE S == UNION {Giving(c) : c \in Mine(t)}
  <2>1. S \subseteq Nat
    BY GivingForm DEF Mine
  <2>2. past' = [past EXCEPT !.cut = @ + 1, !.lost = @ \cup S]
    BY DEF Reload
  <2> HIDE DEF S
  <2>3. past.cut \in Nat /\ past.lost \cup S \in SUBSET Nat
    BY <2>1 DEF Sound, PastForm
  <2>4. past.cut + 1 \in Nat
    BY <2>3
  <2> QED BY <2>2, <2>3, <2>4 DEF Sound, PastForm
<1>4. TabsForm' /\ Known(storage', Len(session)) /\ \A u \in Tabs : Known(mem'[u], Len(session))
  BY DEF Reload, Sound, TabsForm
<1> QED BY <1>2, <1>3, <1>4, SoundByTabs DEF Reload

LEMMA SoundStep == Sound /\ [Next]_vars => Sound'
<1> SUFFICES ASSUME Sound, [Next]_vars PROVE Sound'
  OBVIOUS
<1>1. CASE \E c \in calls : Statement(c)
  <2> PICK c \in calls : Statement(c)
    BY <1>1
  <2> QED BY CasSound, ReuseSound, CheckUserSound, VerifySound, InsertSound, RevokingSound,
             AdmitSound, BumpSound DEF Statement
<1>2. CASE \E c \in calls : Page(c) \/ \E t \in Tabs : Cut(t, c)
  BY <1>2, RefusedSound, EndRefreshSound, EndCallSound, ForgettingSound, CutSound DEF Page
<1>3. CASE \E t \in Tabs : Tab(t)
  BY <1>3, RejectSound, AcquireSound, ForgettingSound, SendingSound, ReloadSound DEF Tab
<1>4. CASE OwnerRevokes \/ Reset \/ Suspend \/ Reactivate \/ \E s \in DOMAIN session : Expire(s)
  BY <1>4, ElsewhereSound
<1>5. CASE UNCHANGED vars
  BY <1>5 DEF vars, Sound, AccountForm, SessionForm, TabsForm, PastForm
<1> QED BY <1>1, <1>2, <1>3, <1>4, <1>5 DEF Next

\* The states of Sessions are sound: the types of TypeOK, but for the bounds,
\* and what goes with them.
THEOREM AlwaysSound == Spec => []Sound
BY InitSound, SoundStep, PTL DEF Spec

-----------------------------------------------------------------------------
(* The storage and the tabs.                                               *)

\* NoZombieTab: whoever empties the storage tells the other tabs, and nobody
\* takes up a pair while it is empty.
LEMMA ZombieStep == Sound /\ NoZombieTab /\ [Next]_vars => NoZombieTab'
<1> SUFFICES ASSUME Sound, NoZombieTab, [Next]_vars, storage' = None,
                    NEW u \in Tabs, mem'[u] # None
             PROVE  u \in gone'
  BY DEF NoZombieTab
<1>t. mem \in [Tabs -> AnyPair \cup {None}]
  BY DEF Sound, TabsForm
<1>1. CASE \E c \in calls : Statement(c)
  BY <1>1 DEF Statement, Cas, Reuse, CheckUser, Verify, Insert, ServeLogout, Admit, Refuse,
              RevokeOthers, Bump, RevokeAll, tabs, NoZombieTab
<1>2. CASE \E c \in calls, t \in Tabs : Refused(t, c) \/ Cut(t, c) \/ EndLogout(t, c) \/ EndCall(t, c)
  BY <1>2, <1>t DEF Refused, Cut, EndLogout, EndCall, Forget, Emptied, NoZombieTab
<1>3. CASE \E c \in calls, t \in Tabs : EndRefresh(t, c)
  BY <1>3, <1>t DEF EndRefresh, Emptied, ReadTokens, NoZombieTab
<1>4. CASE \E t \in Tabs : Tab(t)
  BY <1>4, <1>t DEF Tab, Reject, Acquire, HandleGone, Login, ChangePassword, DisconnectOthers,
              Logout, Reload, ReadTokens, Forget, Emptied, tabs, NoZombieTab
<1>5. CASE OwnerRevokes \/ Reset \/ Suspend \/ Reactivate \/ \E s \in DOMAIN session : Expire(s)
  BY <1>5 DEF OwnerRevokes, Reset, Suspend, Reactivate, Expire, tabs, NoZombieTab
<1>6. CASE UNCHANGED vars
  BY <1>6 DEF vars, NoZombieTab
<1> QED BY <1>1, <1>2, <1>3, <1>4, <1>5, <1>6 DEF Next, Page

\* No tab goes on alone with the tokens of an account that another has left:
\* NoZombieTab holds, for any tabs and any bounds.
THEOREM NoTabForgotten == Spec => []NoZombieTab
<1>1. Init => NoZombieTab
  BY DEF Init, NoZombieTab
<1> QED BY <1>1, ZombieStep, AlwaysSound, PTL DEF Spec

\* NoResurrection: the answer of a refresh is stored over the pair it was for,
\* hence not into an empty storage.
LEMMA ResurrectionStep ==
  Sound /\ [Next]_vars =>
    (storage = None /\ storage' # None =>
       \E c \in calls : c.kind \in {"login", "password"} /\ c.pc = "answer" /\ c.out = storage')
<1> SUFFICES ASSUME Sound, Next, storage = None, storage' # None
             PROVE  \E c \in calls : c.kind \in {"login", "password"} /\ c.pc = "answer"
                                     /\ c.out = storage'
  BY DEF vars
<1>w. \A c \in calls : WellMade(c)
  BY DEF Sound, Good
<1>1. CASE \E c \in calls, t \in Tabs : EndCall(t, c)
  BY <1>1, <1>w DEF EndCall, WellMade
<1>2. ASSUME NEW c \in calls, NEW t \in Tabs, EndRefresh(t, c) PROVE FALSE
  BY <1>2, <1>w DEF EndRefresh, ReadTokens, WellMade
<1>3. CASE \E c \in calls, t \in Tabs : Refused(t, c) \/ Cut(t, c) \/ EndLogout(t, c)
  BY <1>3 DEF Refused, Cut, EndLogout, Forget
<1>4. CASE \E c \in calls : Statement(c)
  BY <1>4 DEF Statement, Cas, Reuse, CheckUser, Verify, Insert, ServeLogout, Admit, Refuse,
              RevokeOthers, Bump, RevokeAll, tabs
<1>5. CASE \E t \in Tabs : Tab(t)
  BY <1>5 DEF Tab, Reject, Acquire, HandleGone, Login, ChangePassword, DisconnectOthers,
              Logout, Reload, Forget, tabs
<1>6. CASE OwnerRevokes \/ Reset \/ Suspend \/ Reactivate \/ \E s \in DOMAIN session : Expire(s)
  BY <1>6 DEF OwnerRevokes, Reset, Suspend, Reactivate, Expire, tabs
<1> QED BY <1>1, <1>2, <1>3, <1>4, <1>5, <1>6 DEF Next, Page

\* A refresh under way while another tab logs out does not bring the session
\* back: NoResurrection holds, for any tabs and any bounds.
THEOREM LogoutStays == Spec => NoResurrection
BY AlwaysSound, ResurrectionStep, PTL DEF Spec, NoResurrection

-----------------------------------------------------------------------------
(* The epoch of the account.                                               *)

(* A pair whose access token is of the epoch is of a session opened since, *)
(* or was given by a refresh that overlapped the revocation.               *)
Recent(p) ==
  p # None => /\ p.iat <= account.epoch
              /\ \/ p.iat # account.epoch \/ p.s \in past.slipped
                 \/ session[p.s].born = account.epoch

(* So is what a refresh that matched since will give. *)
Matched(c) == c.seen <= account.epoch
              /\ (c.seen = account.epoch => session[c.p.s].born = account.epoch)

Current(c)  == Recent(c.out) /\ (c.pc = "user" => Matched(c))
LiveRecent  == ~Cutting => \A s \in 1..Len(session) : Live(s) => session[s].born = account.epoch
EpochInv    == /\ Recent(storage) /\ (\A t \in Tabs : Recent(mem[t]))
               /\ (\A c \in calls : Current(c)) /\ LiveRecent

Cuts(c) == c.kind \in {"password", "owner"} /\ c.pc = "revoke"

\* What a step within an epoch must show.
LEMMA EpochCarried ==
  ASSUME Sound, EpochInv, LiveRecent',
         account'.epoch = account.epoch, past.slipped \subseteq past'.slipped,
         \A s \in 1..Len(session) : session'[s].born = session[s].born,
         \A d \in calls' : \/ d \in calls \/ Current(d)'
                           \/ \E c \in calls : /\ d.pc = c.pc /\ d.seen = c.seen
                                               /\ d.p = c.p /\ d.out = c.out,
         storage' \in {storage, None} \cup {c.out : c \in calls},
         \A t \in Tabs : mem'[t] \in {mem[t], storage, None} \cup {c.out : c \in calls}
  PROVE  EpochInv'
<1>1. ASSUME NEW p, Known(p, Len(session)), Recent(p)
      PROVE  p = None \/ /\ p.iat <= account'.epoch
                         /\ \/ p.iat # account'.epoch \/ p.s \in past'.slipped
                            \/ session'[p.s].born = account'.epoch
  BY <1>1 DEF Recent, Known
<1>2. \A c \in calls : /\ Known(c.out, Len(session)) /\ Recent(c.out)
                       /\ c.pc = "user" => Matched(c) /\ c.p.s \in 1..Len(session)
  BY DEF Sound, Good, WellMade, Known, EpochInv, Current
<1>3. Recent(storage)'
  BY <1>1, <1>2 DEF Recent, EpochInv, Sound
<1>4. \A t \in Tabs : Recent(mem[t])'
  <2> SUFFICES ASSUME NEW t \in Tabs PROVE Recent(mem[t])'
    OBVIOUS
  <2>1. mem'[t] \in {mem[t], storage, None} \cup {c.out : c \in calls}
    OBVIOUS
  <2> QED BY <1>1, <1>2, <2>1, SMTT(30) DEF Recent, EpochInv, Sound
<1>5. \A d \in calls' : Current(d)'
  <2> SUFFICES ASSUME NEW d \in calls', NEW c \in calls,
                      d.pc = c.pc, d.seen = c.seen, d.p = c.p, d.out = c.out
               PROVE  Current(d)'
    OBVIOUS
  <2>1. Recent(d.out)'
    BY <1>1, <1>2 DEF Recent
  <2>2. d.pc = "user" => Matched(d)'
    BY <1>2 DEF Matched
  <2> QED BY <2>1, <2>2 DEF Current
<1> QED BY <1>3, <1>4, <1>5 DEF EpochInv

LEMMA LiveCarried ==
  ASSUME Sound, EpochInv, account'.epoch = account.epoch, Len(session') = Len(session),
         \A s \in 1..Len(session) :
           session'[s].born = session[s].born /\ (Live(s)' => Live(s)),
         \A c \in calls : Cuts(c) => \E d \in calls' : Cuts(d)
  PROVE  LiveRecent'
<1>1. Cutting => Cutting'
  BY DEF Cutting, Cuts
<1> QED BY <1>1 DEF EpochInv, LiveRecent

LEMMA RevokingBorn ==
  ASSUME Sound, NEW S, session' = Revoked(S)
  PROVE  /\ Len(session') = Len(session)
         /\ \A s \in 1..Len(session) :
              session'[s].born = session[s].born /\ (Live(s)' => Live(s))
BY RevokedForm DEF Sound, Live

\* What is given out to c alone is of matter.
LEMMA AnswerCurrent ==
  ASSUME Sound, NEW c \in calls, NEW out, Known(out, Len(session)),
         out # None => c.kind = "refresh" /\ out.s = c.p.s,
         calls' = Answered(c, out), Recent(out)'
  PROVE  \A d \in calls' : d \in calls \/ Current(d)'
<1>1. \A d \in calls' : d \in calls \/ (d.pc = "answer" /\ d.out = out)
  BY Answers, SessionFacts
<1> QED BY <1>1 DEF Current, Recent

LEMMA StatementEpoch ==
  ASSUME Sound, EpochInv, NEW c \in calls,
         \/ Reuse(c) \/ CheckUser(c) \/ Verify(c) \/ ServeLogout(c)
         \/ Admit(c) \/ Refuse(c) \/ RevokeOthers(c)
  PROVE  EpochInv'
<1>1. c \in AnyCall /\ WellMade(c) /\ c.out = None /\ account.epoch \in Nat /\ ~Cuts(c)
  BY EpochForm DEF Sound, Good, WellMade, Cuts, Reuse, CheckUser, Verify, ServeLogout, Admit,
                   Refuse, RevokeOthers
<1>2. UNCHANGED <<account, tabs>>
  BY DEF Reuse, CheckUser, Verify, ServeLogout, Admit, Refuse, RevokeOthers, server
<1>3. past.slipped \subseteq past'.slipped
  BY DEF Reuse, CheckUser, Verify, ServeLogout, Admit, Refuse, RevokeOthers, Sound, PastForm
<1>4. session' = session \/ \E S : session' = Revoked(S)
  BY DEF Reuse, CheckUser, Verify, ServeLogout, Admit, Refuse, RevokeOthers, server
<1>5. /\ Len(session') = Len(session)
      /\ \A s \in 1..Len(session) :
           session'[s].born = session[s].born /\ (Live(s)' => Live(s))
  BY <1>4, RevokingBorn DEF Live
<1>6. calls \ {c} \subseteq calls'
  BY DEF Reuse, CheckUser, Verify, ServeLogout, Admit, Refuse, RevokeOthers, Answered, Move
<1>7. \A d \in calls' : d \in calls \/ Current(d)'
  <2>1. CASE calls' = Answered(c, None)
    BY <2>1, AnswerCurrent DEF Known, Recent
  <2>2. ASSUME NEW pc \in Stages \ {"user"}, NEW n \in Int,
               calls' = (calls \ {c}) \cup {[c EXCEPT !.pc = pc, !.seen = n]}
        PROVE  \A d \in calls' : d \in calls \/ Current(d)'
    <3>1. [c EXCEPT !.pc = pc, !.seen = n].pc # "user" /\ [c EXCEPT !.pc = pc, !.seen = n].out = None
      BY <1>1 DEF AnyCall
    <3> QED BY <2>2, <3>1 DEF Current, Recent
  <2>3. CASE CheckUser(c) /\ account.active
    <3> PICK out : out = [s |-> c.p.s, k |-> c.p.k + 1, iat |-> account.epoch]
      OBVIOUS
    <3>1. /\ calls' = Answered(c, out) /\ session' = session
          /\ past' = [past EXCEPT !.slipped = @ \cup
                        (IF Cutting \/ c.seen < account.epoch THEN {c.p.s} ELSE {})]
      BY <2>3 DEF CheckUser
    <3>2. /\ c.kind = "refresh" /\ c.p \in AnyPair /\ c.p.s \in 1..Len(session)
          /\ c.seen \in Int /\ Matched(c)
      BY <1>1, <2>3 DEF Sound, Good, WellMade, Known, CheckUser, EpochInv, Current, AnyCall
    <3>3. out \in AnyPair /\ Known(out, Len(session)) /\ out.s = c.p.s /\ out.iat = account.epoch
      BY <1>1, <3>2 DEF Known, AnyPair
    <3>4. c.seen = account.epoch \/ c.p.s \in past'.slipped
      BY <1>1, <3>1, <3>2 DEF Matched, Sound, PastForm
    <3>5. Recent(out)'
      BY <1>1, <1>2, <3>1, <3>2, <3>3, <3>4 DEF Recent, Matched
    <3> QED BY <3>1, <3>2, <3>3, <3>5, AnswerCurrent
  <2>4. CASE Verify(c) \/ Admit(c)
    <3> PICK now : now = account.epoch
      OBVIOUS
    <3>1. now \in Int
      BY <1>1
    <3>2. CASE Verify(c) /\ account.active
      BY <3>1, <3>2, <2>2 DEF Verify, Stages
    <3>3. CASE Verify(c) /\ ~account.active
      BY <3>3, <2>1 DEF Verify
    <3>4. CASE Admit(c) /\ c.kind = "password"
      BY <3>1, <3>4, <2>2 DEF Admit, Stages
    <3>5. CASE Admit(c) /\ c.kind # "password"
      BY <3>1, <3>5, <2>2 DEF Admit, Stages
    <3> QED BY <2>4, <3>2, <3>3, <3>4, <3>5
  <2>5. CASE Refuse(c)
    <3>1. \/ calls' = Answered(c, None) \/ calls' = calls \ {c}
          \/ calls' = (calls \ {c}) \cup {[c EXCEPT !.pc = "refused"]}
      BY <2>5 DEF Refuse, Move
    <3>2. CASE calls' = (calls \ {c}) \cup {[c EXCEPT !.pc = "refused"]}
      <4>1. [c EXCEPT !.pc = "refused"].pc = "refused" /\ [c EXCEPT !.pc = "refused"].out = None
        BY <1>1 DEF AnyCall
      <4> QED BY <3>2, <4>1 DEF Current, Recent
    <3> QED BY <3>1, <3>2, <2>1
  <2>6. CASE Reuse(c) \/ ServeLogout(c) \/ RevokeOthers(c) \/ (CheckUser(c) /\ ~account.active)
    BY <2>6, <2>1 DEF Reuse, ServeLogout, RevokeOthers, CheckUser
  <2> QED BY <2>3, <2>4, <2>5, <2>6
<1>8. LiveRecent'
  BY <1>1, <1>2, <1>5, <1>6, LiveCarried
<1> QED BY <1>2, <1>3, <1>5, <1>7, <1>8, EpochCarried DEF tabs

LEMMA CasEpoch ==
  ASSUME Sound, EpochInv, NEW c \in calls, Cas(c)
  PROVE  EpochInv'
<1>1. /\ c \in AnyCall /\ c.out = None /\ ~Cuts(c) /\ account.epoch \in Nat
      /\ c.p \in AnyPair /\ c.p.s \in 1..Len(session) /\ session[c.p.s] \in AnyRow
  <2>1. c.p \in AnyPair /\ c.p.s \in 1..Len(session)
    BY DEF Sound, Good, WellMade, Known, Cas
  <2>2. c \in AnyCall /\ c.out = None /\ ~Cuts(c)
    BY DEF Sound, Good, WellMade, Cas, Cuts
  <2> QED BY <2>1, <2>2, SessionFacts, EpochForm
<1>2. UNCHANGED <<account, past, tabs>> /\ calls \ {c} \subseteq calls'
  BY DEF Cas, Move
<1>3. CASE Live(c.p.s) /\ session[c.p.s].cur = c.p.k
  <2> PICK d : d = [c EXCEPT !.pc = "user", !.seen = Enforced]
    OBVIOUS
  <2>1. calls' = (calls \ {c}) \cup {d}
        /\ session' = [session EXCEPT ![c.p.s] = [session[c.p.s] EXCEPT !.cur = @ + 1]]
    BY <1>3 DEF Cas
  <2>2. d.out = None /\ d.p = c.p /\ d.seen = Enforced
    BY <1>1 DEF AnyCall
  <2>3. /\ [session[c.p.s] EXCEPT !.cur = @ + 1] \in AnyRow
        /\ [session[c.p.s] EXCEPT !.cur = @ + 1].born = session[c.p.s].born
        /\ [session[c.p.s] EXCEPT !.cur = @ + 1].state = session[c.p.s].state
    <3> PICK old : old = session[c.p.s]
      OBVIOUS
    <3>1. old \in AnyRow /\ old.cur + 1 \in Nat
      BY <1>1 DEF AnyRow
    <3>2. /\ [old EXCEPT !.cur = @ + 1] \in AnyRow
          /\ [old EXCEPT !.cur = @ + 1].born = old.born
          /\ [old EXCEPT !.cur = @ + 1].state = old.state
      BY <3>1 DEF AnyRow
    <3> QED BY <3>2
  <2>4. /\ Len(session') = Len(session)
        /\ \A s \in 1..Len(session) :
             session'[s].born = session[s].born /\ session'[s].state = session[s].state
    BY <1>1, <2>1, <2>3, ExceptSeq DEF Sound, SessionForm
  <2>5. Matched(d)'
    BY <1>1, <1>2, <1>3, <2>2, <2>4 DEF Matched, Enforced, EpochInv, LiveRecent
  <2>6. Current(d)'
    BY <2>2, <2>5 DEF Current, Recent
  <2>7. LiveRecent'
    BY <1>1, <1>2, <2>4, LiveCarried DEF Live
  <2> QED BY <1>2, <2>1, <2>4, <2>6, <2>7, EpochCarried DEF tabs
<1>4. CASE ~(Live(c.p.s) /\ session[c.p.s].cur = c.p.k)
  <2> PICK d : d = [c EXCEPT !.pc = "reuse"]
    OBVIOUS
  <2>1. calls' = (calls \ {c}) \cup {d} /\ session' = session
    BY <1>4 DEF Cas, Move
  <2>2. d.out = None /\ d.pc = "reuse"
    BY <1>1 DEF AnyCall
  <2>3. Current(d)'
    BY <2>2 DEF Current, Recent
  <2>4. LiveRecent'
    BY <1>1, <1>2, <2>1, LiveCarried DEF Live
  <2> QED BY <1>2, <2>1, <2>3, <2>4, EpochCarried DEF tabs
<1> QED BY <1>3, <1>4

\* A session more, of the epoch that the account has by then.
LEMMA InsertEpoch ==
  ASSUME Sound, EpochInv, NEW c \in calls, Insert(c)
  PROVE  EpochInv'
<1> PICK n : n = Len(session)
  OBVIOUS
<1>1. /\ c \in AnyCall /\ WellMade(c) /\ c.seen \in Nat /\ account.epoch \in Nat /\ ~Cuts(c)
      /\ n \in Nat
  BY SessionFacts, EpochForm DEF Sound, Good, WellMade, Insert, Cuts
<1> PICK row : row = [cur |-> 0, state |-> "live", born |-> account.epoch]
  OBVIOUS
<1>2. PICK iat \in c.seen..account.epoch :
        LET out == [s |-> n + 1, k |-> 0, iat |-> iat]
        IN  /\ session' = Append(session, row)
            /\ calls' = Answered(c, out)
            /\ past' = [past EXCEPT !.lost = @ \cup Unheard(c, out)]
  BY DEF Insert
<1> PICK out : out = [s |-> n + 1, k |-> 0, iat |-> iat]
  OBVIOUS
<1>3. /\ session' = Append(session, row) /\ row.born = account.epoch /\ row \in AnyRow
      /\ calls' = Answered(c, out) /\ past' = [past EXCEPT !.lost = @ \cup Unheard(c, out)]
      /\ UNCHANGED <<account, tabs>>
  BY <1>1, <1>2 DEF Insert, AnyRow
<1>4. /\ Len(session') = n + 1 /\ session'[n + 1].born = account.epoch
      /\ \A s \in 1..n : session'[s] = session[s]
  BY <1>1, <1>3, SessionFacts DEF Sound, SessionForm
<1>5. past'.slipped = past.slipped
  BY <1>3 DEF Sound, PastForm
<1>6. Recent(out)'
  BY <1>1, <1>3, <1>4 DEF Recent
<1>7. \A d \in calls' : d \in calls \/ Current(d)'
  <2> PICK d : d = [c EXCEPT !.pc = "answer", !.out = out]
    OBVIOUS
  <2>1. d.pc = "answer" /\ d.out = out
    BY <1>1 DEF AnyCall
  <2>2. Current(d)'
    BY <1>6, <2>1 DEF Current, Recent
  <2> QED BY <1>3, <2>2 DEF Answered
<1>8. LiveRecent'
  <2>1. Cutting => Cutting'
    BY <1>1, <1>3 DEF Cutting, Cuts, Answered
  <2>2. \A s \in 1..(n + 1) : s \in 1..n \/ s = n + 1
    BY <1>1
  <2> QED BY <1>3, <1>4, <2>1, <2>2 DEF EpochInv, LiveRecent, Live
<1> QED BY <1>3, <1>4, <1>5, <1>7, <1>8, EpochCarried DEF tabs

\* Revoking every session leaves none alive; ...
LEMMA NoneAlive ==
  ASSUME Sound, session' = Revoked(Unrevoked)
  PROVE  LiveRecent'
<1>1. \A s \in 1..Len(session) : ~Live(s)' /\ s \in DOMAIN session
  BY RevokedForm, SessionFacts DEF Sound, Unrevoked, Live
<1>2. Len(session') = Len(session)
  BY RevokedForm DEF Sound
<1> QED BY <1>1, <1>2 DEF LiveRecent

LEMMA RevokeAllEpoch ==
  ASSUME Sound, EpochInv, NEW c \in calls, RevokeAll(c)
  PROVE  EpochInv'
<1> PICK d : d = [c EXCEPT !.pc = "insert"]
  OBVIOUS
<1>1. c \in AnyCall /\ c.out = None /\ UNCHANGED <<account, past, tabs>>
  BY DEF Sound, Good, WellMade, RevokeAll
<1>2. d.pc = "insert" /\ d.out = None
  BY <1>1 DEF AnyCall
<1>3. Current(d)'
  BY <1>2 DEF Current, Recent
<1>4. \A e \in calls' : e \in calls \/ e = d
  BY DEF RevokeAll, Move
<1>5. session' = Revoked(Unrevoked)
  BY DEF RevokeAll
<1>6. LiveRecent' /\ \A s \in 1..Len(session) : session'[s].born = session[s].born
  BY <1>5, NoneAlive, RevokingBorn
<1> QED BY <1>1, <1>3, <1>4, <1>6, EpochCarried DEF tabs

\* ... and a new epoch leaves no token current.
LEMMA NewEpoch ==
  ASSUME Sound, EpochInv, account'.epoch = account.epoch + 1, UNCHANGED tabs, LiveRecent',
         \A d \in calls' : d \in calls \/ (d.out = None /\ d.pc # "user")
  PROVE  EpochInv'
<1>1. account.epoch \in Nat
  BY EpochForm
<1>2. ASSUME NEW p, Known(p, Len(session)), Recent(p)
      PROVE  p = None \/ (p.iat <= account'.epoch /\ p.iat # account'.epoch)
  BY <1>1, <1>2 DEF Recent, Known, AnyPair
<1>3. Recent(storage)' /\ \A t \in Tabs : Recent(mem[t])'
  BY <1>2 DEF Sound, EpochInv, Recent, tabs
<1>4. \A d \in calls' : Current(d)'
  <2>1. ASSUME NEW d \in calls PROVE Current(d)'
    <3>1. /\ Known(d.out, Len(session)) /\ Recent(d.out) /\ d.seen \in Int
          /\ d.pc = "user" => d.seen <= account.epoch
      BY DEF Sound, Good, AnyCall, EpochInv, Current, Matched
    <3>2. d.pc = "user" => d.seen <= account'.epoch /\ d.seen # account'.epoch
      BY <1>1, <3>1
    <3> QED BY <1>2, <3>1, <3>2 DEF Current, Recent, Matched
  <2>2. ASSUME NEW d, d.out = None, d.pc # "user" PROVE Current(d)'
    BY <2>2 DEF Current, Recent
  <2> QED BY <2>1, <2>2
<1> QED BY <1>3, <1>4 DEF EpochInv

LEMMA BumpEpoch ==
  ASSUME Sound, EpochInv, NEW c \in calls, Bump(c)
  PROVE  EpochInv'
<1> PICK d : d = [c EXCEPT !.pc = "revoke", !.seen = account.epoch + 1]
  OBVIOUS
<1>1. c \in AnyCall /\ c.out = None /\ c.kind \in {"password", "owner"}
  BY DEF Sound, Good, WellMade, AnyCall, Bump
<1>2. d.pc = "revoke" /\ d.out = None /\ d.kind = c.kind
  BY <1>1 DEF AnyCall
<1>3. calls' = (calls \ {c}) \cup {d} /\ UNCHANGED tabs
  BY DEF Bump
<1>4. account'.epoch = account.epoch + 1
  BY DEF Bump, Sound, AccountForm
<1>5. LiveRecent'
  BY <1>1, <1>2, <1>3 DEF LiveRecent, Cutting
<1> QED BY <1>2, <1>3, <1>4, <1>5, NewEpoch

LEMMA ElsewhereEpoch ==
  ASSUME Sound, EpochInv,
         OwnerRevokes \/ Reset \/ Suspend \/ Reactivate \/ \E s \in DOMAIN session : Expire(s)
  PROVE  EpochInv'
<1> PICK d : d = NewCall(None, "owner", "bump", None)
  OBVIOUS
<1>1. d.pc = "bump" /\ d.out = None
  BY DEF NewCall
<1>2. Current(d)'
  BY <1>1 DEF Current, Recent
<1>3. UNCHANGED tabs /\ past.slipped \subseteq past'.slipped
      /\ calls \subseteq calls' /\ \A e \in calls' : e \in calls \/ e = d
  BY DEF OwnerRevokes, Reset, Suspend, Reactivate, Expire, Event, Send, tabs, Sound, PastForm
<1>4. CASE Reset
  <2>1. account'.epoch = account.epoch + 1 /\ session' = Revoked(Unrevoked) /\ calls' = calls
    BY <1>4 DEF Reset, Sound, AccountForm
  <2> QED BY <1>3, <2>1, NoneAlive, NewEpoch
<1>5. CASE ~Reset
  <2>1. account'.epoch = account.epoch
    BY <1>5 DEF OwnerRevokes, Suspend, Reactivate, Expire, server, Sound, AccountForm
  <2>2. /\ Len(session') = Len(session)
        /\ \A s \in 1..Len(session) :
             session'[s].born = session[s].born /\ (Live(s)' => Live(s))
    <3>1. ASSUME NEW s \in DOMAIN session, Expire(s)
          PROVE  /\ Len(session') = Len(session)
                 /\ \A u \in 1..Len(session) :
                      session'[u].born = session[u].born /\ (Live(u)' => Live(u))
      <4>1. s \in 1..Len(session) /\ session[s] \in AnyRow
        BY SessionFacts
      <4>2. /\ [session[s] EXCEPT !.state = "expired"] \in AnyRow
            /\ [session[s] EXCEPT !.state = "expired"].born = session[s].born
            /\ [session[s] EXCEPT !.state = "expired"].state = "expired"
        BY <4>1 DEF AnyRow
      <4>3. session' = [session EXCEPT ![s] = [session[s] EXCEPT !.state = "expired"]]
        BY <3>1 DEF Expire
      <4>4. /\ Len(session') = Len(session)
            /\ \A u \in 1..Len(session) :
                 session'[u] = IF u = s THEN [session[s] EXCEPT !.state = "expired"] ELSE session[u]
        BY <4>1, <4>2, <4>3, ExceptSeq DEF Sound, SessionForm
      <4> QED BY <4>1, <4>2, <4>4 DEF Live
    <3>2. CASE Suspend
      BY <3>2, RevokingBorn DEF Suspend
    <3>3. CASE OwnerRevokes \/ Reactivate
      BY <3>3 DEF OwnerRevokes, Reactivate, server, Live
    <3> QED BY <1>5, <3>1, <3>2, <3>3
  <2>3. LiveRecent'
    BY <1>3, <2>1, <2>2, LiveCarried
  <2> QED BY <1>2, <1>3, <2>1, <2>2, <2>3, EpochCarried DEF tabs
<1> QED BY <1>4, <1>5

\* A tab takes what the storage or an answer has.
LEMMA TabEpoch ==
  ASSUME Sound, EpochInv, UNCHANGED server, past'.slipped = past.slipped,
         \A d \in calls' : \/ d \in calls
                           \/ d.out = None /\ d.pc # "user"
                           \/ \E c \in calls : /\ d.pc = c.pc /\ d.seen = c.seen
                                               /\ d.p = c.p /\ d.out = c.out,
         \A c \in calls : Cuts(c) => \E d \in calls' : Cuts(d),
         storage' \in {storage, None} \cup {c.out : c \in calls},
         \A t \in Tabs : mem'[t] \in {mem[t], storage, None} \cup {c.out : c \in calls}
  PROVE  EpochInv'
<1>1. UNCHANGED <<account, session>>
  BY DEF server
<1>2. LiveRecent'
  BY <1>1, LiveCarried DEF Live
<1>3. \A d \in calls' : d.out = None /\ d.pc # "user" => Current(d)'
  BY DEF Current, Recent
<1> QED BY <1>1, <1>2, <1>3, EpochCarried

LEMMA SendingEpoch ==
  ASSUME Sound, EpochInv, NEW t \in Tabs,
         \/ Reject(t) \/ Login(t) \/ ChangePassword(t) \/ DisconnectOthers(t) \/ Logout(t)
         \/ HandleGone(t) \/ \E c \in calls : EndCall(t, c) \/ EndLogout(t, c)
  PROVE  EpochInv'
<1>1. mem \in [Tabs -> AnyPair \cup {None}] /\ \A c \in calls : WellMade(c)
  BY DEF Sound, TabsForm, Good
<1>2. UNCHANGED server /\ past'.slipped = past.slipped
  BY DEF Reject, Login, ChangePassword, DisconnectOthers, Logout, HandleGone, EndCall, EndLogout,
         Sound, PastForm
<1>3. \A d \in calls' : d \in calls \/ (d.out = None /\ d.pc # "user")
  BY DEF Reject, Login, ChangePassword, DisconnectOthers, Logout, HandleGone, EndCall, EndLogout,
         Send, NewCall
<1>4. \A c \in calls : Cuts(c) => c \in calls'
  BY DEF Reject, Login, ChangePassword, DisconnectOthers, Logout, HandleGone, EndCall, EndLogout,
         Send, Cuts
<1>5. storage' \in {storage, None} \cup {c.out : c \in calls}
      /\ \A u \in Tabs : mem'[u] \in {mem[u], storage, None} \cup {c.out : c \in calls}
  BY <1>1 DEF Reject, Login, ChangePassword, DisconnectOthers, Logout, HandleGone, EndCall,
              EndLogout, Forget, tabs
<1> QED BY <1>2, <1>3, <1>4, <1>5, TabEpoch

\* The calls that wait do not matter here either.
LEMMA SettledEpoch ==
  ASSUME Sound, NEW t \in Tabs, NEW C, NEW ok, NEW new
  PROVE  /\ \A d \in C : Cuts(d) => d \in Settled(t, C, ok, new)
         /\ \A d \in Settled(t, C, ok, new) : d \in C \/ (d.out = None /\ d.pc # "user")
<1>1. \A w \in Waiting(t) : w \in AnyCall /\ w.out = None /\ ~Cuts(w)
  BY DEF Waiting, Mine, Sound, Good, WellMade, Cuts
<1>2. ASSUME NEW w \in Waiting(t)
      PROVE  /\ [w EXCEPT !.pc = "reauth", !.p = new].out = None
             /\ [w EXCEPT !.pc = "reauth", !.p = new].pc # "user"
  BY <1>1 DEF AnyCall
<1> QED BY <1>1, <1>2 DEF Settled

LEMMA RefreshEpoch ==
  ASSUME Sound, EpochInv, NEW t \in Tabs,
         Acquire(t) \/ \E c \in calls : Refused(t, c) \/ EndRefresh(t, c)
  PROVE  EpochInv'
<1>1. mem \in [Tabs -> AnyPair \cup {None}] /\ \A c \in calls : c \in AnyCall /\ WellMade(c)
  BY DEF Sound, TabsForm, Good
<1>2. UNCHANGED server /\ past'.slipped = past.slipped
  BY DEF Acquire, Refused, EndRefresh, Sound, PastForm
<1>3. storage' \in {storage, None} \cup {c.out : c \in calls}
      /\ \A u \in Tabs : mem'[u] \in {mem[u], storage, None} \cup {c.out : c \in calls}
  BY <1>1 DEF Acquire, Refused, EndRefresh, ReadTokens
<1>4. /\ \A d \in calls' : d \in calls \/ (d.out = None /\ d.pc # "user")
      /\ \A c \in calls : Cuts(c) => c \in calls'
  <2>1. ASSUME NEW c \in calls, Refused(t, c)
        PROVE  /\ \A d \in calls' : d \in calls \/ (d.out = None /\ d.pc # "user")
               /\ \A d \in calls : Cuts(d) => d \in calls'
    <3>1. /\ c.pc = "refused" /\ c.out = None
          /\ [c EXCEPT !.pc = "waiting"].pc = "waiting" /\ [c EXCEPT !.pc = "waiting"].out = None
      BY <1>1, <2>1 DEF Refused, WellMade, AnyCall
    <3> QED BY <2>1, <3>1 DEF Refused, Move, Cuts
  <2>2. ASSUME NEW c \in calls, EndRefresh(t, c)
        PROVE  /\ \A d \in calls' : d \in calls \/ (d.out = None /\ d.pc # "user")
               /\ \A d \in calls : Cuts(d) => d \in calls'
    <3>1. PICK ok \in BOOLEAN : calls' = Settled(t, calls \ {c}, ok, c.out)
      BY <2>2 DEF EndRefresh
    <3>2. ~Cuts(c)
      BY <2>2 DEF EndRefresh, Cuts
    <3> QED BY <3>1, <3>2, SettledEpoch
  <2>3. ASSUME Acquire(t)
        PROVE  /\ \A d \in calls' : d \in calls \/ (d.out = None /\ d.pc # "user")
               /\ \A d \in calls : Cuts(d) => d \in calls'
    <3>1. PICK latest : latest = ReadTokens(t)
      OBVIOUS
    <3>2. \/ calls' = calls \cup {NewCall(t, "refresh", "cas", latest)}
          \/ calls' = Settled(t, calls, latest # None, latest)
      BY <2>3, <3>1 DEF Acquire, Send
    <3>3. NewCall(t, "refresh", "cas", latest).out = None
          /\ NewCall(t, "refresh", "cas", latest).pc # "user"
      BY DEF NewCall
    <3> QED BY <3>2, <3>3, SettledEpoch
  <2> QED BY <2>1, <2>2, <2>3
<1> QED BY <1>2, <1>3, <1>4, TabEpoch

LEMMA LeavingEpoch ==
  ASSUME Sound, EpochInv, NEW t \in Tabs,
         Reload(t) \/ \E c \in calls : Cut(t, c)
  PROVE  EpochInv'
<1>1. mem \in [Tabs -> AnyPair \cup {None}] /\ \A c \in calls : c \in AnyCall
  BY DEF Sound, TabsForm, Good
<1>2. UNCHANGED server /\ past'.slipped = past.slipped
  BY DEF Reload, Cut, Sound, PastForm
<1>3. storage' \in {storage, None} \cup {c.out : c \in calls}
      /\ \A u \in Tabs : mem'[u] \in {mem[u], storage, None} \cup {c.out : c \in calls}
  BY <1>1 DEF Reload, Cut, Forget
<1> DEFINE Twin(d, c) == /\ d.pc = c.pc /\ d.seen = c.seen /\ d.p = c.p /\ d.out = c.out
                         /\ d.kind = c.kind
<1>4. \A c \in calls : Twin([c EXCEPT !.tab = None], c)
  BY <1>1 DEF AnyCall
<1> HIDE DEF Twin
<1>5. /\ \A d \in calls' : \/ d \in calls \/ (d.out = None /\ d.pc # "user")
                           \/ \E c \in calls : Twin(d, c)
      /\ \A c \in calls : Cuts(c) => \E d \in calls' : d = c \/ Twin(d, c)
  <2>1. CASE Reload(t)
    <3>1. calls' = (calls \ Mine(t)) \cup
            {[c EXCEPT !.tab = None] : c \in {d \in Mine(t) : d.pc \notin {"answer", "refused", "waiting"}}}
      BY <2>1 DEF Reload
    <3> QED BY <1>4, <3>1 DEF Mine, Cuts
  <2>2. ASSUME NEW c \in calls, Cut(t, c)
        PROVE  /\ \A d \in calls' : \/ d \in calls \/ (d.out = None /\ d.pc # "user")
                                    \/ \E e \in calls : Twin(d, e)
               /\ \A e \in calls : Cuts(e) => \E d \in calls' : d = e \/ Twin(d, e)
    <3> PICK d : d = [c EXCEPT !.tab = None]
      OBVIOUS
    <3>1. PICK rest : /\ rest = {d} \/ (rest = {} /\ ~Cuts(c))
                      /\ calls' = Settled(t, (calls \ {c}) \cup rest, FALSE, None)
      BY <2>2 DEF Cut, Cuts
    <3>2. Twin(d, c)
      BY <1>4
    <3>3. Cuts(c) => Cuts(d)
      BY <3>2 DEF Twin, Cuts
    <3>4. /\ \A e \in (calls \ {c}) \cup rest : Cuts(e) => e \in calls'
          /\ \A e \in calls' : e \in (calls \ {c}) \cup rest \/ (e.out = None /\ e.pc # "user")
      BY <3>1, SettledEpoch, ZenonT(60)
    <3>5. \A e \in calls' : e \in calls \/ e = d \/ (e.out = None /\ e.pc # "user")
      BY <3>1, <3>4
    <3>6. \A e \in calls : Cuts(e) => e \in calls' \/ (e = c /\ d \in calls')
      BY <3>1, <3>3, <3>4
    <3> QED BY <3>2, <3>5, <3>6
  <2> QED BY <2>1, <2>2
<1> QED BY <1>2, <1>3, <1>5, TabEpoch DEF Twin, Cuts

LEMMA EpochStep == Sound /\ EpochInv /\ [Next]_vars => EpochInv'
<1> SUFFICES ASSUME Sound, EpochInv, [Next]_vars PROVE EpochInv'
  OBVIOUS
<1>1. CASE \E c \in calls : Statement(c)
  <2> PICK c \in calls : Statement(c)
    BY <1>1
  <2> QED BY StatementEpoch, CasEpoch, InsertEpoch, RevokeAllEpoch, BumpEpoch DEF Statement
<1>2. CASE \E c \in calls : Page(c) \/ \E t \in Tabs : Cut(t, c)
  BY <1>2, RefreshEpoch, SendingEpoch, LeavingEpoch DEF Page
<1>3. CASE \E t \in Tabs : Tab(t)
  BY <1>3, RefreshEpoch, SendingEpoch, LeavingEpoch DEF Tab
<1>4. CASE OwnerRevokes \/ Reset \/ Suspend \/ Reactivate \/ \E s \in DOMAIN session : Expire(s)
  BY <1>4, ElsewhereEpoch
<1>5. CASE UNCHANGED vars
  BY <1>5, TabEpoch DEF vars, server
<1> QED BY <1>1, <1>2, <1>3, <1>4, <1>5 DEF Next

\* After a revocation the access tokens still accepted are of sessions opened
\* since, or of a refresh that overlapped it: EpochEndsAccess holds, for any
\* tabs and any bounds.
THEOREM NoOlderToken == Spec => []EpochEndsAccess
<1>1. Init => EpochInv
  BY DEF Init, EpochInv, Recent, LiveRecent
<1>2. Sound /\ EpochInv => EpochEndsAccess
  <2> SUFFICES ASSUME Sound, EpochInv, NEW t \in Tabs, mem[t] # None, Accepted(mem[t])
               PROVE  session[mem[t].s].born = account.epoch \/ mem[t].s \in past.slipped
    BY DEF EpochEndsAccess
  <2>1. mem[t] \in AnyPair /\ account.epoch \in Nat
    BY EpochForm DEF Sound, Known
  <2> QED BY <2>1 DEF EpochInv, Recent, Accepted, AnyPair
<1> QED BY <1>1, <1>2, EpochStep, AlwaysSound, PTL DEF Spec
-----------------------------------------------------------------------------
(* Refreshing raises no false alarm (NoFalseAlarm) and loses no token       *)
(* (TokenKept).  The lock is taken to read the storage and kept until the   *)
(* answer is stored, so of the refreshes under way one at most still has    *)
(* its tab; the sessions of the others were given up.  The pair in the      *)
(* storage is therefore the current one of its session, or the one that     *)
(* this refresh presented, and what a refresh presents is current when it   *)
(* is served.                                                               *)

Refreshing == {c \in calls : c.kind = "refresh"}

(* The other calls that bring a pair back: logins and password changes. *)
Offered == {c \in calls : c.kind # "refresh" /\ c.out # None}

OneRefresh == \A c, d \in Refreshing : c.tab # None /\ d.tab # None => c = d
Locked     == \A c \in Refreshing : c.tab # None => job[c.tab] = "refresh"
GivenUp    == \A c \in Refreshing : c.tab = None => c.p.s \in past.lost

(* What a refresh presents is current until it is served, and then it gives *)
(* out what is.  Only one of a session that has ended is refused.           *)
Fresh(c) ==
  LET s == c.p.s  cur == session[s].cur
  IN  /\ c.pc \in {"cas", "reuse"} => c.p.k = cur
      /\ c.pc = "reuse" => ~Live(s)
      /\ c.pc = "user" => cur = c.p.k + 1
      /\ c.pc = "answer" /\ c.out = None => ~Live(s)
      /\ c.out # None => c.out.k = cur

AllFresh == \A c \in Refreshing : c.p.s \notin past.lost => Fresh(c)

StorageCurrent ==
  storage # None /\ storage.s \notin past.lost =>
    \/ storage.k = session[storage.s].cur
    \/ \E c \in Refreshing : c.p = storage

(* The tab that refreshes, and the storage, keep the pair that it presented, *)
(* as long as the storage has one of the same session.                       *)
HeldStill ==
  \A c \in Refreshing :
    c.tab # None /\ storage # None /\ storage.s = c.p.s => storage = c.p /\ mem[c.tab] = c.p

(* Nobody else knows the session that a login or a password change opened. *)
NewOffer ==
  \A c \in Offered :
    /\ c.out.k = 0 /\ session[c.out.s].cur = 0
    /\ \A d \in Refreshing : d.p.s # c.out.s
    /\ \A d \in Offered : d.out.s = c.out.s => d = c
    /\ storage # None => storage.s # c.out.s

TokenInv == /\ Sound
            /\ OneRefresh /\ Locked /\ GivenUp /\ AllFresh /\ StorageCurrent /\ HeldStill
            /\ NewOffer /\ NoFalseAlarm /\ TokenKept

LEMMA InitTokens == Init => TokenInv
<1> SUFFICES ASSUME Init PROVE TokenInv
  OBVIOUS
<1>1. Refreshing = {} /\ Offered = {} /\ storage = None /\ DOMAIN session = {} /\ past.reused = {}
  BY DEF Init, Refreshing, Offered
<1> QED BY <1>1, InitSound
        DEF TokenInv, OneRefresh, Locked, GivenUp, AllFresh, StorageCurrent, HeldStill, NewOffer,
            NoFalseAlarm, TokenKept

-----------------------------------------------------------------------------
(* Facts about the calls that matter.                                      *)

LEMMA RefreshFacts ==
  ASSUME Sound, NEW c \in Refreshing
  PROVE  /\ c \in calls /\ c.kind = "refresh" /\ c.tab \in Tabs \cup {None}
         /\ c.p \in AnyPair /\ c.p # None /\ c.p.s \in 1..Len(session)
         /\ c.pc \in {"cas", "reuse", "user", "answer"}
         /\ c.out # None => c.pc = "answer" /\ c.out \in AnyPair /\ c.out.s = c.p.s
BY DEF Sound, Good, WellMade, Known, Refreshing, AnyCall

LEMMA OfferFacts ==
  ASSUME Sound, NEW c \in Offered
  PROVE  /\ c \in calls /\ c.kind \in {"login", "password"} /\ c.pc = "answer"
         /\ c.out \in AnyPair /\ c.out.s \in 1..Len(session)
BY DEF Sound, Good, WellMade, Known, Offered, AnyCall

LEMMA CurForm ==
  ASSUME Sound, NEW s \in 1..Len(session)
  PROVE  session[s].cur \in Nat /\ s \in DOMAIN session /\ s \in Nat
BY SessionFacts DEF AnyRow

\* A pair comes back with one of these calls.
ComingBy(c, s) ==
  \/ c.pc = "user" /\ c.p.s = s
  \/ c.out # None /\ c.out.s = s /\ c.out.k = session[s].cur

LEMMA ComingFacts ==
  ASSUME Sound, NEW s
  PROVE  Coming(s) <=> \E c \in Refreshing \cup Offered : ComingBy(c, s)
BY DEF Coming, ComingBy, Refreshing, Offered, Sound, Good, WellMade

Kept(s) ==
  \/ ~Live(s) \/ s \in past.lost \cup past.left
  \/ \E c \in Refreshing \cup Offered : ComingBy(c, s)
  \/ storage # None /\ storage.s = s /\ storage.k = session[s].cur

LEMMA KeptFacts ==
  ASSUME Sound
  PROVE  TokenKept <=> \A s \in 1..Len(session) : Kept(s)
BY ComingFacts, SessionFacts DEF TokenKept, Kept

LEMMA KeptNext ==
  ASSUME Sound', \A s \in 1..Len(session') : Kept(s)'
  PROVE  TokenKept'
<1>1. DOMAIN session' = 1..Len(session')
  BY LenProperties DEF Sound, SessionForm
<1> QED BY <1>1 DEF Kept, ComingBy, TokenKept, Coming, Refreshing, Offered

-----------------------------------------------------------------------------
(* Steps that do not touch the tokens.                                     *)

Quiet ==
  /\ Refreshing' = Refreshing /\ Offered' = Offered /\ UNCHANGED storage
  /\ past'.lost = past.lost /\ past'.left = past.left /\ past'.reused = past.reused
  /\ Len(session') = Len(session)
  /\ \A s \in 1..Len(session) : session'[s].cur = session[s].cur /\ (Live(s)' => Live(s))
  /\ \A t \in Tabs : job[t] = "refresh" => job'[t] = "refresh" /\ mem'[t] = mem[t]

LEMMA QuietStep == TokenInv /\ Sound' /\ Quiet => TokenInv'
<1> SUFFICES ASSUME TokenInv, Sound', Quiet PROVE TokenInv'
  OBVIOUS
<1>1. Sound /\ \A c \in Refreshing : c.p.s \in 1..Len(session) /\ c.tab \in Tabs \cup {None}
  BY RefreshFacts DEF TokenInv
<1>2. \A c \in Offered : c.out.s \in 1..Len(session)
  BY <1>1, OfferFacts
<1>3. OneRefresh' /\ Locked' /\ GivenUp' /\ HeldStill' /\ NoFalseAlarm'
  BY <1>1 DEF TokenInv, Quiet, OneRefresh, Locked, GivenUp, HeldStill, NoFalseAlarm
<1>4. AllFresh'
  BY <1>1 DEF TokenInv, Quiet, AllFresh, Fresh
<1>5. StorageCurrent'
  BY <1>1 DEF TokenInv, Quiet, StorageCurrent, Sound, Known
<1>6. NewOffer'
  BY <1>2 DEF TokenInv, Quiet, NewOffer
<1>7. TokenKept'
  <2>1. \A s \in 1..Len(session) : Kept(s) => Kept(s)'
    BY DEF Quiet, Kept, ComingBy
  <2> QED BY <1>1, <2>1, KeptFacts, KeptNext DEF TokenInv, Quiet
<1> QED BY <1>3, <1>4, <1>5, <1>6, <1>7 DEF TokenInv

\* Calls of another kind, which give nothing out, may come and go.
Minor(c) == c.kind # "refresh" /\ c.out = None

LEMMA MinorCalls ==
  ASSUME \A c \in calls \ calls' : Minor(c), \A c \in calls' \ calls : Minor(c)
  PROVE  Refreshing' = Refreshing /\ Offered' = Offered
BY DEF Minor, Refreshing, Offered

\* Revoking sessions leaves them the token they had.
LEMMA RevokingKeeps ==
  ASSUME Sound, NEW S, session' = Revoked(S)
  PROVE  /\ Len(session') = Len(session)
         /\ \A s \in 1..Len(session) : session'[s].cur = session[s].cur /\ (Live(s)' => Live(s))
BY RevokedForm DEF Sound, Live

\* A call that goes on, or is answered, is still the same call.
Same(c, d, pc) == d.pc = pc /\ d.kind = c.kind /\ d.tab = c.tab /\ d.p = c.p

LEMMA Continues ==
  ASSUME NEW c \in AnyCall, NEW pc
  PROVE  Same(c, [c EXCEPT !.pc = pc], pc) /\ [c EXCEPT !.pc = pc].out = c.out
BY DEF AnyCall, Same

LEMMA ContinuesAt ==
  ASSUME NEW c \in AnyCall, NEW pc, NEW n
  PROVE  /\ Same(c, [c EXCEPT !.pc = pc, !.seen = n], pc)
         /\ [c EXCEPT !.pc = pc, !.seen = n].out = c.out
BY DEF AnyCall, Same

LEMMA IsAnswered ==
  ASSUME NEW c \in AnyCall, NEW out
  PROVE  \A d \in Answered(c, out) :
           \/ d \in calls \ {c}
           \/ c.tab # None /\ Same(c, d, "answer") /\ d.out = out
BY DEF AnyCall, Same, Answered

LEMMA QuietStatement ==
  ASSUME TokenInv, Sound', NEW c \in calls,
         \/ Verify(c) \/ ServeLogout(c) \/ Admit(c) \/ Refuse(c) \/ RevokeOthers(c)
         \/ Bump(c) \/ RevokeAll(c)
  PROVE  TokenInv'
<1>1. Sound /\ c \in AnyCall /\ WellMade(c)
  BY DEF TokenInv, Sound, Good
<1>2. Minor(c)
  BY <1>1 DEF Verify, ServeLogout, Admit, Refuse, RevokeOthers, Bump, RevokeAll, Minor, WellMade
<1>3. UNCHANGED <<past, tabs>>
  BY DEF Verify, ServeLogout, Admit, Refuse, RevokeOthers, Bump, RevokeAll
<1>4. session' = session \/ \E S : session' = Revoked(S)
  BY DEF Verify, ServeLogout, Admit, Refuse, RevokeOthers, Bump, RevokeAll, server
<1>5. \A d \in calls' : d \in calls \/ (d.kind = c.kind /\ d.out = None)
  <2> DEFINE Follows(d) == d.kind = c.kind /\ d.out = None
  <2>1. CASE Verify(c)
    <3>1. Follows([c EXCEPT !.pc = "insert", !.seen = account.epoch])
      BY <1>1, <1>2, ContinuesAt DEF Same, Minor
    <3>2. \A d \in Answered(c, None) : d \in calls \/ Follows(d)
      BY <1>1, IsAnswered DEF Same
    <3> QED BY <2>1, <3>1, <3>2 DEF Verify
  <2>2. CASE Admit(c)
    <3> DEFINE pc == IF c.kind = "password" THEN "bump" ELSE "revoke"
    <3>1. Follows([c EXCEPT !.pc = pc, !.seen = account.epoch])
      BY <1>1, <1>2, ContinuesAt DEF Same, Minor
    <3> QED BY <2>2, <3>1 DEF Admit
  <2>3. CASE Bump(c)
    <3>1. Follows([c EXCEPT !.pc = "revoke", !.seen = account.epoch + 1])
      BY <1>1, <1>2, ContinuesAt DEF Same, Minor
    <3> QED BY <2>3, <3>1 DEF Bump
  <2>4. CASE ServeLogout(c) \/ RevokeOthers(c) \/ Refuse(c) \/ RevokeAll(c)
    <3>1. Follows([c EXCEPT !.pc = "refused"]) /\ Follows([c EXCEPT !.pc = "insert"])
      BY <1>1, <1>2, Continues DEF Same, Minor
    <3>2. \A d \in Answered(c, None) : d \in calls \/ Follows(d)
      BY <1>1, IsAnswered DEF Same
    <3> HIDE DEF Follows
    <3>3. \A d \in calls' : d \in calls \/ Follows(d)
      BY <2>4, <3>1, <3>2 DEF ServeLogout, RevokeOthers, Refuse, RevokeAll, Move
    <3> QED BY <3>3 DEF Follows
  <2> QED BY <2>1, <2>2, <2>3, <2>4
<1>6. \A d \in calls \ calls' : d = c
  BY DEF Verify, ServeLogout, Admit, Refuse, RevokeOthers, Bump, RevokeAll, Move, Answered
<1>7. Refreshing' = Refreshing /\ Offered' = Offered
  BY <1>2, <1>5, <1>6, MinorCalls DEF Minor
<1>8. /\ Len(session') = Len(session)
      /\ \A s \in 1..Len(session) : session'[s].cur = session[s].cur /\ (Live(s)' => Live(s))
  BY <1>1, <1>4, RevokingKeeps DEF Live
<1> QED BY <1>3, <1>7, <1>8, QuietStep DEF Quiet, tabs

LEMMA QuietElsewhere ==
  ASSUME TokenInv, Sound',
         OwnerRevokes \/ Reset \/ Suspend \/ Reactivate \/ \E s \in DOMAIN session : Expire(s)
  PROVE  TokenInv'
<1>1. Sound
  BY DEF TokenInv
<1>2. UNCHANGED tabs /\ past'.lost = past.lost /\ past'.left = past.left /\ past'.reused = past.reused
  BY <1>1 DEF OwnerRevokes, Reset, Suspend, Reactivate, Expire, Event, tabs, Sound, PastForm
<1>3. calls' = calls \/ calls' = calls \cup {NewCall(None, "owner", "bump", None)}
  BY DEF OwnerRevokes, Reset, Suspend, Reactivate, Expire, Send
<1>4. Minor(NewCall(None, "owner", "bump", None))
  BY DEF Minor, NewCall
<1>5. Refreshing' = Refreshing /\ Offered' = Offered
  BY <1>3, <1>4, MinorCalls
<1>6. /\ Len(session') = Len(session)
      /\ \A s \in 1..Len(session) : session'[s].cur = session[s].cur /\ (Live(s)' => Live(s))
  <2>1. ASSUME NEW s \in DOMAIN session, Expire(s)
        PROVE  /\ Len(session') = Len(session)
               /\ \A u \in 1..Len(session) :
                    session'[u].cur = session[u].cur /\ (Live(u)' => Live(u))
    <3>1. s \in 1..Len(session) /\ session[s] \in AnyRow
          /\ [session[s] EXCEPT !.state = "expired"] \in AnyRow
      BY <1>1, SessionFacts DEF AnyRow
    <3>2. session' = [session EXCEPT ![s] = [session[s] EXCEPT !.state = "expired"]]
      BY <2>1 DEF Expire
    <3>3. /\ Len(session') = Len(session)
          /\ \A u \in 1..Len(session) :
               session'[u] = IF u = s THEN [session[s] EXCEPT !.state = "expired"] ELSE session[u]
      BY <1>1, <3>1, <3>2, ExceptSeq DEF Sound, SessionForm
    <3> QED BY <3>1, <3>3 DEF Live, AnyRow
  <2>2. CASE Reset \/ Suspend
    BY <1>1, <2>2, RevokingKeeps DEF Reset, Suspend
  <2>3. CASE OwnerRevokes \/ Reactivate
    BY <2>3 DEF OwnerRevokes, Reactivate, server, Live
  <2> QED BY <2>1, <2>2, <2>3
<1> QED BY <1>2, <1>5, <1>6, QuietStep DEF Quiet, tabs

LEMMA QuietTab ==
  ASSUME TokenInv, Sound', NEW t \in Tabs,
         \/ Reject(t) \/ Login(t) \/ ChangePassword(t) \/ DisconnectOthers(t) \/ Logout(t)
         \/ \E c \in calls : Refused(t, c)
  PROVE  TokenInv'
<1>1. Sound /\ job \in [Tabs -> {"idle", "wait", "refresh"}] /\ \A c \in calls : c \in AnyCall /\ WellMade(c)
  BY DEF TokenInv, Sound, TabsForm, Good
<1>2. UNCHANGED <<server, storage, mem>>
  BY DEF Reject, Login, ChangePassword, DisconnectOthers, Logout, Refused, tabs
<1>3. past'.lost = past.lost /\ past'.left = past.left /\ past'.reused = past.reused
  BY <1>1 DEF Reject, Login, ChangePassword, DisconnectOthers, Logout, Refused, Sound, PastForm
<1>4. \A u \in Tabs : job[u] = "refresh" => job'[u] = "refresh"
  BY <1>1 DEF Reject, Login, ChangePassword, DisconnectOthers, Logout, Refused, tabs
<1>5. Refreshing' = Refreshing /\ Offered' = Offered
  <2>1. CASE \E c \in calls : Refused(t, c)
    <3> PICK c \in calls : Refused(t, c)
      BY <2>1
    <3>1. Minor(c)
      BY <1>1 DEF Refused, WellMade, Minor
    <3> DEFINE d == [c EXCEPT !.pc = "waiting"]
    <3>2. Minor(d)
      BY <1>1, <3>1, Continues DEF Minor, Same
    <3>3. calls' \subseteq (calls \ {c}) \cup {d} /\ calls \ {c} \subseteq calls'
      BY DEF Refused, Move
    <3> HIDE DEF d
    <3> QED BY <3>1, <3>2, <3>3, MinorCalls
  <2>2. CASE Reject(t) \/ Login(t) \/ ChangePassword(t) \/ DisconnectOthers(t) \/ Logout(t)
    <3>1. \A d \in calls' : d \in calls \/ Minor(d)
      BY <2>2 DEF Reject, Login, ChangePassword, DisconnectOthers, Logout, Send, NewCall, Minor
    <3>2. calls \subseteq calls'
      BY <2>2 DEF Reject, Login, ChangePassword, DisconnectOthers, Logout, Send
    <3> QED BY <3>1, <3>2, MinorCalls
  <2> QED BY <2>1, <2>2
<1> QED BY <1>2, <1>3, <1>4, <1>5, QuietStep DEF Quiet, server, Live

-----------------------------------------------------------------------------
(* A refresh at the server.                                                *)

\* What a refresh of a session that was not given up has come to is all that the
\* step of the server must show.
LEMMA ServedStep ==
  ASSUME TokenInv, Sound', NEW c \in Refreshing, NEW d,
         d.tab = c.tab, d.p = c.p,
         Refreshing \ {c} \subseteq Refreshing', Refreshing' \subseteq (Refreshing \ {c}) \cup {d},
         c.tab # None => d \in Refreshing',
         Offered' = Offered, UNCHANGED tabs, past'.lost = past.lost, past'.left = past.left,
         Len(session') = Len(session),
         \A s \in 1..Len(session) :
           s # c.p.s => session'[s].cur = session[s].cur /\ (Live(s)' => Live(s)),
         past'.reused \subseteq past.lost,
         c.p.s \notin past.lost => Fresh(d)' /\ (~Live(c.p.s)' \/ ComingBy(d, c.p.s)')
  PROVE  TokenInv'
<1>1. /\ Sound /\ c.p \in AnyPair
      /\ \A e \in Refreshing : /\ e.p.s \in 1..Len(session)
                               /\ e.out # None => e.out.s = e.p.s
  BY RefreshFacts DEF TokenInv
<1>2. \A e \in Offered : e.out.s \in 1..Len(session) /\ e.out.s # c.p.s /\ e.pc = "answer"
  BY <1>1, OfferFacts DEF TokenInv, NewOffer
<1>3. c.p.s \notin past.lost => /\ c.tab # None
                                /\ \A e \in Refreshing : e.p.s = c.p.s => e = c
  BY DEF TokenInv, OneRefresh, GivenUp
<1>4. OneRefresh' /\ Locked' /\ GivenUp' /\ HeldStill' /\ NoFalseAlarm'
  BY DEF TokenInv, OneRefresh, Locked, GivenUp, HeldStill, NoFalseAlarm, tabs
<1>5. AllFresh'
  <2> SUFFICES ASSUME NEW e \in Refreshing', e.p.s \notin past.lost PROVE Fresh(e)'
    BY DEF AllFresh
  <2>1. CASE e.p.s = c.p.s
    <3>1. e = d
      BY <2>1, <1>3
    <3> QED BY <2>1, <3>1
  <2>2. CASE e.p.s # c.p.s
    <3>1. e \in Refreshing /\ Fresh(e)
      BY <2>2 DEF TokenInv, AllFresh
    <3> QED BY <1>1, <2>2, <3>1 DEF Fresh
  <2> QED BY <2>1, <2>2
<1>6. StorageCurrent'
  <2> SUFFICES ASSUME storage # None, storage.s \notin past.lost
               PROVE  \/ storage.k = session'[storage.s].cur
                      \/ \E e \in Refreshing' : e.p = storage
    BY DEF StorageCurrent, tabs
  <2>1. storage.s \in 1..Len(session)
    BY <1>1 DEF Sound, Known
  <2>2. CASE storage.s = c.p.s
    BY <2>2, <1>3 DEF TokenInv, HeldStill
  <2>3. CASE storage.s # c.p.s
    BY <2>1, <2>3 DEF TokenInv, StorageCurrent
  <2> QED BY <2>2, <2>3
<1>7. NewOffer'
  BY <1>2 DEF TokenInv, NewOffer, tabs
<1>8. TokenKept'
  <2> SUFFICES ASSUME NEW s \in 1..Len(session) PROVE Kept(s)'
    BY KeptNext
  <2>1. Kept(s)
    BY <1>1, KeptFacts DEF TokenInv
  <2>2. CASE s = c.p.s
    BY <2>2, <1>3 DEF Kept
  <2>3. CASE s # c.p.s
    <3>1. ~ComingBy(c, s)
      BY <1>1, <2>3 DEF ComingBy
    <3>2. \A e : ComingBy(e, s) => ComingBy(e, s)'
      BY <2>3 DEF ComingBy
    <3> QED BY <2>1, <2>3, <3>1, <3>2 DEF Kept, tabs
  <2> QED BY <2>2, <2>3
<1> QED BY <1>4, <1>5, <1>6, <1>7, <1>8 DEF TokenInv

LEMMA SwapCalls ==
  ASSUME NEW c \in Refreshing, NEW d, d.kind = "refresh",
         calls \ {c} \subseteq calls', calls' \subseteq (calls \ {c}) \cup {d}
  PROVE  /\ Offered' = Offered
         /\ Refreshing \ {c} \subseteq Refreshing' /\ Refreshing' \subseteq (Refreshing \ {c}) \cup {d}
         /\ d \in calls' => d \in Refreshing'
BY DEF Refreshing, Offered

\* What a refresh finds when its session was not given up.
LEMMA FreshFacts ==
  ASSUME TokenInv, NEW c \in Refreshing, c.p.s \notin past.lost
  PROVE  Fresh(c) /\ c.tab # None
BY DEF TokenInv, AllFresh, GivenUp

LEMMA CasTokens ==
  ASSUME TokenInv, Sound', NEW c \in calls, Cas(c)
  PROVE  TokenInv'
<1>1. Sound /\ c \in AnyCall /\ c \in Refreshing /\ c.pc = "cas" /\ c.out = None
  BY DEF TokenInv, Sound, Good, WellMade, Cas, Refreshing
<1>2. c.p \in AnyPair /\ c.p.s \in 1..Len(session) /\ session[c.p.s] \in AnyRow
  BY <1>1, RefreshFacts, SessionFacts
<1>3. UNCHANGED <<account, past, tabs>> /\ past.reused \subseteq past.lost
  BY DEF Cas, TokenInv, NoFalseAlarm
<1>4. CASE Live(c.p.s) /\ session[c.p.s].cur = c.p.k
  <2> PICK d : d = [c EXCEPT !.pc = "user", !.seen = Enforced]
    OBVIOUS
  <2>1. Same(c, d, "user") /\ d.out = None
    BY <1>1, ContinuesAt
  <2>2. calls' = (calls \ {c}) \cup {d}
    BY <1>4 DEF Cas
  <2>3. [session[c.p.s] EXCEPT !.cur = @ + 1].cur = c.p.k + 1
        /\ [session[c.p.s] EXCEPT !.cur = @ + 1] \in AnyRow
    <3> PICK old : old = session[c.p.s]
      OBVIOUS
    <3>1. old \in AnyRow /\ old.cur = c.p.k
      BY <1>2, <1>4
    <3>2. old.cur + 1 \in Nat
      BY <3>1 DEF AnyRow
    <3>3. [old EXCEPT !.cur = @ + 1] \in AnyRow /\ [old EXCEPT !.cur = @ + 1].cur = old.cur + 1
      BY <3>1, <3>2 DEF AnyRow
    <3> QED BY <3>1, <3>3
  <2>4. session' = [session EXCEPT ![c.p.s] = [session[c.p.s] EXCEPT !.cur = @ + 1]]
    BY <1>4 DEF Cas
  <2>5. /\ Len(session') = Len(session)
        /\ \A s \in 1..Len(session) : s # c.p.s => session'[s] = session[s]
        /\ session'[c.p.s].cur = c.p.k + 1
    BY <1>1, <1>2, <2>3, <2>4, ExceptSeq DEF Sound, SessionForm
  <2>6. Fresh(d)' /\ ComingBy(d, c.p.s)'
    BY <2>1, <2>5 DEF Same, Fresh, ComingBy
  <2>7. /\ Offered' = Offered /\ d \in Refreshing'
        /\ Refreshing \ {c} \subseteq Refreshing' /\ Refreshing' \subseteq (Refreshing \ {c}) \cup {d}
    BY <1>1, <2>1, <2>2, SwapCalls DEF Same, Refreshing
  <2> QED BY <1>1, <1>3, <2>1, <2>5, <2>6, <2>7, ServedStep DEF Same, Live
<1>5. CASE ~(Live(c.p.s) /\ session[c.p.s].cur = c.p.k)
  <2> PICK d : d = [c EXCEPT !.pc = "reuse"]
    OBVIOUS
  <2>1. Same(c, d, "reuse") /\ d.out = None
    BY <1>1, Continues
  <2>2. calls' = (calls \ {c}) \cup {d} /\ session' = session
    BY <1>5 DEF Cas, Move
  <2>3. c.p.s \notin past.lost => Fresh(d)' /\ ~Live(c.p.s)'
    <3> SUFFICES ASSUME c.p.s \notin past.lost PROVE Fresh(d)' /\ ~Live(c.p.s)'
      OBVIOUS
    <3>1. c.p.k = session[c.p.s].cur /\ ~Live(c.p.s)
      BY <1>1, <1>5, FreshFacts DEF Fresh
    <3> QED BY <2>1, <2>2, <3>1 DEF Same, Fresh, Live
  <2>4. /\ Offered' = Offered /\ d \in Refreshing'
        /\ Refreshing \ {c} \subseteq Refreshing' /\ Refreshing' \subseteq (Refreshing \ {c}) \cup {d}
    BY <1>1, <2>1, <2>2, SwapCalls DEF Same, Refreshing
  <2> QED BY <1>1, <1>3, <2>1, <2>2, <2>3, <2>4, ServedStep DEF Same, Live
<1> QED BY <1>4, <1>5

\* The calls after a refresh is answered.
AnswerIs(c, d, out) ==
  /\ Same(c, d, "answer") /\ d.out = out
  /\ Offered' = Offered /\ (c.tab # None => d \in Refreshing')
  /\ Refreshing \ {c} \subseteq Refreshing' /\ Refreshing' \subseteq (Refreshing \ {c}) \cup {d}

LEMMA AnsweredRefresh ==
  ASSUME NEW c \in Refreshing, c \in AnyCall, NEW out, calls' = Answered(c, out)
  PROVE  \E d : AnswerIs(c, d, out)
<1> PICK d : d = [c EXCEPT !.pc = "answer", !.out = out]
  OBVIOUS
<1>1. Same(c, d, "answer") /\ d.out = out
  BY DEF AnyCall, Same
<1>2. d.kind = "refresh"
  BY <1>1 DEF Same, Refreshing
<1>3. calls \ {c} \subseteq calls' /\ calls' \subseteq (calls \ {c}) \cup {d}
      /\ (c.tab # None => d \in calls')
  BY DEF Answered
<1>4. AnswerIs(c, d, out)
  BY <1>1, <1>2, <1>3 DEF AnswerIs, Refreshing, Offered
<1> QED BY <1>4

LEMMA ReuseTokens ==
  ASSUME TokenInv, Sound', NEW c \in calls, Reuse(c)
  PROVE  TokenInv'
<1> DEFINE hit == IF Superseded(c.p) THEN {c.p.s} \cap Unrevoked ELSE {}
<1>1. Sound /\ c \in AnyCall /\ c \in Refreshing /\ c.pc = "reuse"
  BY DEF TokenInv, Sound, Good, WellMade, Reuse, Refreshing
<1>2. c.p \in AnyPair /\ c.p.s \in 1..Len(session) /\ session[c.p.s] \in AnyRow
  BY <1>1, RefreshFacts, SessionFacts
<1>3. session' = Revoked(hit) /\ calls' = Answered(c, None)
      /\ past' = [past EXCEPT !.reused = @ \cup hit] /\ UNCHANGED <<account, tabs>>
  BY DEF Reuse
<1>4. hit \subseteq past.lost
  <2>1. c.p.s \notin past.lost => c.p.k = session[c.p.s].cur
    BY <1>1, FreshFacts DEF Fresh
  <2>2. c.p.k \in Nat
    BY <1>2 DEF AnyPair
  <2> QED BY <2>1, <2>2 DEF Superseded
<1> HIDE DEF hit
<1>5. past'.lost = past.lost /\ past'.left = past.left /\ past'.reused \subseteq past.lost
  BY <1>1, <1>3, <1>4 DEF Sound, PastForm, TokenInv, NoFalseAlarm
<1>6. /\ Len(session') = Len(session)
      /\ \A s \in 1..Len(session) : session'[s].cur = session[s].cur /\ (Live(s)' => Live(s))
  BY <1>1, <1>3, RevokingKeeps
<1>7. PICK d : AnswerIs(c, d, None)
  BY <1>1, <1>3, AnsweredRefresh
<1>8. c.p.s \notin past.lost => Fresh(d)' /\ ~Live(c.p.s)'
  <2>1. c.p.s \notin past.lost => ~Live(c.p.s)'
    BY <1>1, <1>2, <1>6, FreshFacts DEF Fresh
  <2> QED BY <1>7, <2>1 DEF AnswerIs, Same, Fresh
<1> QED BY <1>1, <1>3, <1>5, <1>6, <1>7, <1>8, ServedStep DEF AnswerIs, Same

LEMMA CheckUserTokens ==
  ASSUME TokenInv, Sound', NEW c \in calls, CheckUser(c)
  PROVE  TokenInv'
<1>1. Sound /\ c \in AnyCall /\ c \in Refreshing /\ c.pc = "user"
  BY DEF TokenInv, Sound, Good, WellMade, CheckUser, Refreshing
<1>2. c.p \in AnyPair /\ c.p.s \in 1..Len(session) /\ session[c.p.s] \in AnyRow
  BY <1>1, RefreshFacts, SessionFacts
<1>3. UNCHANGED <<account, tabs>> /\ past'.lost = past.lost /\ past'.left = past.left
      /\ past'.reused \subseteq past.lost
  BY <1>1 DEF CheckUser, Sound, PastForm, TokenInv, NoFalseAlarm
<1>4. CASE account.active
  <2> PICK out : out = [s |-> c.p.s, k |-> c.p.k + 1, iat |-> account.epoch]
    OBVIOUS
  <2>1. calls' = Answered(c, out) /\ session' = session
    BY <1>4 DEF CheckUser
  <2>2. PICK d : AnswerIs(c, d, out)
    BY <1>1, <2>1, AnsweredRefresh
  <2>3. out # None /\ out.s = c.p.s /\ out.k = c.p.k + 1
    BY <1>1, <1>2, EpochForm DEF AnyPair
  <2>4. c.p.s \notin past.lost => Fresh(d)' /\ ComingBy(d, c.p.s)'
    <3>1. c.p.s \notin past.lost => session'[c.p.s].cur = c.p.k + 1
      BY <1>1, <2>1, FreshFacts DEF Fresh
    <3> QED BY <2>2, <2>3, <3>1 DEF AnswerIs, Same, Fresh, ComingBy
  <2> QED BY <1>1, <1>3, <2>1, <2>2, <2>4, ServedStep DEF AnswerIs, Same, Live
<1>5. CASE ~account.active
  <2>1. calls' = Answered(c, None) /\ session' = Revoked({c.p.s})
    BY <1>5 DEF CheckUser
  <2>2. PICK d : AnswerIs(c, d, None)
    BY <1>1, <2>1, AnsweredRefresh
  <2>3. /\ Len(session') = Len(session) /\ ~Live(c.p.s)'
        /\ \A s \in 1..Len(session) : session'[s].cur = session[s].cur /\ (Live(s)' => Live(s))
    BY <1>1, <1>2, <2>1, RevokingKeeps, RevokedForm DEF Sound, Live
  <2>4. Fresh(d)'
    BY <2>2, <2>3 DEF AnswerIs, Same, Fresh
  <2> QED BY <1>1, <1>3, <2>2, <2>3, <2>4, ServedStep DEF AnswerIs, Same
<1> QED BY <1>4, <1>5

-----------------------------------------------------------------------------
(* A session more.                                                         *)

LEMMA InsertTokens ==
  ASSUME TokenInv, Sound', NEW c \in calls, Insert(c)
  PROVE  TokenInv'
<1> DEFINE n == Len(session)
<1>1. Sound /\ c \in AnyCall /\ WellMade(c) /\ Minor(c)
  BY DEF TokenInv, Sound, Good, WellMade, Insert, Minor
<1>2. PICK iat \in c.seen..account.epoch :
        LET out == [s |-> n + 1, k |-> 0, iat |-> iat]
        IN  /\ session' = Append(session, [cur |-> 0, state |-> "live", born |-> account.epoch])
            /\ calls' = Answered(c, out)
            /\ past' = [past EXCEPT !.lost = @ \cup Unheard(c, out)]
  BY DEF Insert
<1> PICK out : out = [s |-> n + 1, k |-> 0, iat |-> iat]
  OBVIOUS
<1> PICK row : row = [cur |-> 0, state |-> "live", born |-> account.epoch]
  OBVIOUS
<1>3. /\ n \in Nat /\ out.s = n + 1 /\ out.k = 0 /\ out # None
      /\ session' = Append(session, row) /\ row.cur = 0 /\ row \in AnyRow
      /\ calls' = Answered(c, out) /\ past' = [past EXCEPT !.lost = @ \cup Unheard(c, out)]
      /\ UNCHANGED tabs
  <2>1. n \in Nat /\ account.epoch \in Nat /\ c.seen \in Nat
    BY <1>1, SessionFacts, EpochForm DEF WellMade, Insert
  <2>2. n + 1 \in Nat /\ iat \in Nat
    BY <2>1
  <2>3. out \in AnyPair /\ row \in AnyRow
    BY <2>1, <2>2 DEF AnyPair, AnyRow
  <2>4. out # None
    BY <2>3 DEF AnyPair
  <2>5. /\ session' = Append(session, row) /\ calls' = Answered(c, out)
        /\ past' = [past EXCEPT !.lost = @ \cup Unheard(c, out)]
    BY <1>2
  <2>6. UNCHANGED tabs
    BY DEF Insert
  <2> QED BY <2>1, <2>3, <2>4, <2>5, <2>6
<1>4. /\ Len(session') = n + 1 /\ session'[n + 1].cur = 0
      /\ \A s \in 1..n : session'[s] = session[s]
  BY <1>1, <1>3, SessionFacts DEF Sound, SessionForm
<1>5. /\ past'.left = past.left /\ past'.reused = past.reused
      /\ past'.lost = past.lost \cup (IF c.tab = None THEN {n + 1} ELSE {})
  BY <1>1, <1>3 DEF Sound, PastForm, Unheard, Of
<1>6. /\ Refreshing' = Refreshing /\ Offered \subseteq Offered'
      /\ \A d \in Offered' : d \in Offered \/ (c.tab # None /\ d.out = out)
      /\ \A d, e \in Offered' : d \notin Offered /\ e \notin Offered => d = e
      /\ c.tab # None => \E d \in Offered' : d.out = out
  <2> PICK d : d = [c EXCEPT !.pc = "answer", !.out = out]
    OBVIOUS
  <2>1. d.kind = c.kind /\ d.out = out
    BY <1>1 DEF AnyCall
  <2>2. calls' = (calls \ {c}) \cup (IF c.tab = None THEN {} ELSE {d})
    BY <1>3 DEF Answered
  <2> QED BY <1>1, <1>3, <2>1, <2>2 DEF Minor, Refreshing, Offered
<1>7. /\ \A d \in Refreshing : d.p.s \in 1..n
      /\ \A d \in Offered : d.out.s \in 1..n
      /\ storage # None => storage.s \in 1..n
  BY <1>1, RefreshFacts, OfferFacts DEF Sound, Known
<1> HIDE DEF n
<1>8. OneRefresh' /\ Locked' /\ GivenUp' /\ HeldStill' /\ NoFalseAlarm'
  BY <1>3, <1>5, <1>6 DEF TokenInv, OneRefresh, Locked, GivenUp, HeldStill, NoFalseAlarm, tabs
<1>9. AllFresh'
  BY <1>4, <1>5, <1>6, <1>7 DEF TokenInv, AllFresh, Fresh, Live
<1>10. StorageCurrent'
  BY <1>3, <1>4, <1>5, <1>6, <1>7 DEF TokenInv, StorageCurrent, tabs
<1>11. NewOffer'
  <2> SUFFICES ASSUME NEW d \in Offered'
               PROVE  /\ d.out.k = 0 /\ session'[d.out.s].cur = 0
                      /\ \A e \in Refreshing : e.p.s # d.out.s
                      /\ \A e \in Offered' : e.out.s = d.out.s => e = d
                      /\ storage # None => storage.s # d.out.s
    BY <1>3, <1>6 DEF NewOffer, tabs
  <2>1. \A s \in 1..n : s # n + 1
    BY <1>3
  <2>2. CASE d \in Offered
    BY <1>3, <1>4, <1>6, <1>7, <2>1, <2>2 DEF TokenInv, NewOffer
  <2>3. CASE d \notin Offered
    BY <1>3, <1>4, <1>6, <1>7, <2>1, <2>3
  <2> QED BY <2>2, <2>3
<1>12. TokenKept'
  <2> SUFFICES ASSUME NEW s \in 1..(n + 1) PROVE Kept(s)'
    BY <1>4, KeptNext
  <2>1. CASE s \in 1..n
    <3>1. Kept(s)
      BY <1>1, <2>1, KeptFacts DEF TokenInv, n
    <3>2. session'[s] = session[s]
      BY <1>4, <2>1
    <3> QED BY <1>3, <1>5, <1>6, <3>1, <3>2 DEF Kept, ComingBy, Live, tabs
  <2>2. CASE s = n + 1
    <3>1. c.tab = None => s \in past'.lost
      BY <1>5, <2>2
    <3>2. c.tab # None => \E d \in Offered' : ComingBy(d, s)'
      BY <1>3, <1>4, <1>6, <2>2 DEF ComingBy
    <3> QED BY <3>1, <3>2 DEF Kept
  <2> QED BY <1>3, <2>1, <2>2
<1> QED BY <1>8, <1>9, <1>10, <1>11, <1>12 DEF TokenInv

-----------------------------------------------------------------------------
(* The steps of the tabs that touch the tokens.                            *)

\* The calls that wait, and what becomes of them, are of no matter here.
LEMMA SettledMinor ==
  ASSUME Sound, NEW t \in Tabs, NEW C, NEW ok, NEW new
  PROVE  /\ \A d \in C \ Settled(t, C, ok, new) : Minor(d) /\ d \in calls
         /\ \A d \in Settled(t, C, ok, new) : d \in C \/ Minor(d)
<1>1. \A w \in Waiting(t) : w \in calls /\ w \in AnyCall /\ Minor(w)
  BY DEF Waiting, Mine, Sound, Good, WellMade, Minor
<1>2. ASSUME NEW w \in Waiting(t) PROVE Minor([w EXCEPT !.pc = "reauth", !.p = new])
  BY <1>1 DEF AnyCall, Minor
<1> QED BY <1>1, <1>2 DEF Settled

LEMMA AcquireTokens ==
  ASSUME TokenInv, Sound', NEW t \in Tabs, Acquire(t)
  PROVE  TokenInv'
<1>1. Sound /\ mem \in [Tabs -> AnyPair \cup {None}] /\ job \in [Tabs -> {"idle", "wait", "refresh"}]
  BY DEF TokenInv, Sound, TabsForm
<1>2. UNCHANGED <<server, past, storage, gone>> /\ job[t] = "wait"
      /\ \A c \in Refreshing : c.tab = None
  <2>1. \A c \in Refreshing : c.tab \in Tabs \cup {None}
    BY <1>1, RefreshFacts
  <2> QED BY <2>1 DEF Acquire, TokenInv, Locked
<1>3. CASE ReadTokens(t) # None /\ ReadTokens(t) = mem[t]
  <2> PICK d : d = NewCall(t, "refresh", "cas", storage)
    OBVIOUS
  <2>1. /\ storage # None /\ mem[t] = storage /\ calls' = calls \cup {d}
        /\ job' = [job EXCEPT ![t] = "refresh"] /\ mem' = mem
    BY <1>3 DEF Acquire, ReadTokens, Send
  <2>2. d.tab = t /\ d.kind = "refresh" /\ d.pc = "cas" /\ d.p = storage /\ d.out = None
    BY DEF NewCall
  <2>3. Refreshing' = Refreshing \cup {d} /\ Offered' = Offered
    BY <2>1, <2>2 DEF Refreshing, Offered
  <2>4. storage.s \notin past.lost => storage.k = session[storage.s].cur
    BY <1>2, <2>1 DEF TokenInv, StorageCurrent, GivenUp
  <2>5. OneRefresh' /\ Locked' /\ GivenUp' /\ HeldStill' /\ NoFalseAlarm'
    BY <1>1, <1>2, <2>1, <2>2, <2>3
       DEF TokenInv, OneRefresh, Locked, GivenUp, HeldStill, NoFalseAlarm
  <2>6. AllFresh'
    <3>1. storage.s \notin past.lost => Fresh(d)'
      BY <1>2, <2>2, <2>4 DEF Fresh, server
    <3> QED BY <1>2, <2>2, <2>3, <3>1 DEF TokenInv, AllFresh, Fresh, Live, server
  <2>7. StorageCurrent'
    BY <1>2, <2>3 DEF TokenInv, StorageCurrent, server
  <2>8. NewOffer'
    BY <1>2, <2>1, <2>2, <2>3 DEF TokenInv, NewOffer, server
  <2>9. TokenKept'
    <3>1. \A s \in 1..Len(session) : Kept(s) => Kept(s)'
      BY <1>2, <2>3 DEF Kept, ComingBy, Live, server
    <3> QED BY <1>1, <1>2, <3>1, KeptFacts, KeptNext DEF TokenInv, server
  <2> QED BY <2>5, <2>6, <2>7, <2>8, <2>9 DEF TokenInv
<1>4. CASE ~(ReadTokens(t) # None /\ ReadTokens(t) = mem[t])
  <2> PICK latest : latest = ReadTokens(t)
    OBVIOUS
  <2>1. /\ job' = [job EXCEPT ![t] = "idle"] /\ mem' \in {mem, [mem EXCEPT ![t] = latest]}
        /\ calls' = Settled(t, calls, latest # None, latest)
    BY <1>4 DEF Acquire
  <2>2. Refreshing' = Refreshing /\ Offered' = Offered
    BY <1>1, <2>1, SettledMinor, MinorCalls
  <2>3. \A u \in Tabs : job[u] = "refresh" => job'[u] = "refresh" /\ mem'[u] = mem[u]
    BY <1>1, <1>2, <2>1
  <2> QED BY <1>2, <2>2, <2>3, QuietStep DEF Quiet, server, Live
<1> QED BY <1>3, <1>4

LEMMA EndRefreshTokens ==
  ASSUME TokenInv, Sound', NEW t \in Tabs, NEW c \in calls, EndRefresh(t, c)
  PROVE  TokenInv'
<1> DEFINE same == mem[t] = c.p /\ ReadTokens(t) = c.p
<1>1. /\ Sound /\ c \in Refreshing /\ c.tab = t /\ c.tab # None /\ c.pc = "answer"
      /\ mem \in [Tabs -> AnyPair \cup {None}] /\ job \in [Tabs -> {"idle", "wait", "refresh"}]
  BY DEF TokenInv, Sound, TabsForm, EndRefresh, Refreshing
<1>2. /\ c.p # None /\ c.p.s \in 1..Len(session) /\ (c.out # None => c.out.s = c.p.s)
  BY <1>1, RefreshFacts
<1>3. /\ UNCHANGED server /\ past'.lost = past.lost /\ past'.reused = past.reused
      /\ past.left \subseteq past'.left
  BY <1>1 DEF EndRefresh, Sound, PastForm
<1>4. Refreshing' = Refreshing \ {c} /\ Offered' = Offered
  <2>1. calls' = Settled(t, calls \ {c}, same /\ c.out # None, c.out)
    BY DEF EndRefresh
  <2>2. /\ \A d \in (calls \ {c}) \ calls' : Minor(d)
        /\ \A d \in calls' : d \in calls \ {c} \/ Minor(d)
    BY <1>1, <2>1, SettledMinor
  <2> QED BY <1>1, <2>2 DEF Minor, Refreshing, Offered
<1>5. \A d \in Refreshing' : d.tab = None
  BY <1>1, <1>4 DEF TokenInv, OneRefresh
<1>6. c.p.s \notin past.lost => Fresh(c)
  BY <1>1, FreshFacts
<1>7. OneRefresh' /\ Locked' /\ GivenUp' /\ HeldStill' /\ NoFalseAlarm'
  BY <1>3, <1>4, <1>5 DEF TokenInv, OneRefresh, Locked, GivenUp, HeldStill, NoFalseAlarm
<1>8. AllFresh'
  BY <1>3, <1>4 DEF TokenInv, AllFresh, Fresh, Live, server
<1>9. CASE same
  <2>1. storage' = c.out /\ storage = c.p
    BY <1>2, <1>9 DEF EndRefresh, ReadTokens
  <2>2. StorageCurrent'
    BY <1>2, <1>3, <1>6, <2>1 DEF StorageCurrent, Fresh, server
  <2>3. NewOffer'
    BY <1>1, <1>2, <1>3, <1>4, <2>1 DEF TokenInv, NewOffer, server
  <2>4. TokenKept'
    <3> SUFFICES ASSUME NEW s \in 1..Len(session) PROVE Kept(s)'
      BY <1>3, KeptNext DEF server
    <3>1. Kept(s)
      BY <1>1, KeptFacts DEF TokenInv
    <3>2. CASE s = c.p.s
      <4>1. c.p.s \notin past.lost => ~Live(s) \/ (c.out # None /\ c.out.k = session[s].cur)
        BY <1>1, <1>6, <3>2 DEF Fresh
      <4> QED BY <1>2, <1>3, <2>1, <3>2, <4>1 DEF Kept, Live, server
    <3>3. CASE s # c.p.s
      <4>1. ~ComingBy(c, s)
        BY <1>1, <1>2, <3>3 DEF ComingBy
      <4>2. \A d : ComingBy(d, s) => ComingBy(d, s)'
        BY <1>3 DEF ComingBy, server
      <4> QED BY <1>3, <1>4, <2>1, <3>1, <3>3, <4>1, <4>2 DEF Kept, Live, server
    <3> QED BY <3>2, <3>3
  <2> QED BY <1>7, <1>8, <2>2, <2>3, <2>4 DEF TokenInv
<1>10. CASE ~same
  <2>1. storage' = storage /\ past'.left = past.left \cup Of(c.out)
    BY <1>1, <1>10 DEF EndRefresh, Sound, PastForm
  <2>2. storage # c.p
    BY <1>1, <1>2, <1>10 DEF TokenInv, HeldStill, ReadTokens
  <2>3. StorageCurrent'
    BY <1>3, <1>4, <2>1, <2>2 DEF TokenInv, StorageCurrent, server
  <2>4. NewOffer'
    BY <1>3, <1>4, <2>1 DEF TokenInv, NewOffer, server
  <2>5. TokenKept'
    <3> SUFFICES ASSUME NEW s \in 1..Len(session) PROVE Kept(s)'
      BY <1>3, KeptNext DEF server
    <3>1. Kept(s)
      BY <1>1, KeptFacts DEF TokenInv
    <3>2. ComingBy(c, s) => s \in past'.left
      BY <1>1, <2>1 DEF ComingBy, Of
    <3>3. \A d : ComingBy(d, s) => ComingBy(d, s)'
      BY <1>3 DEF ComingBy, server
    <3> QED BY <1>3, <1>4, <2>1, <3>1, <3>2, <3>3 DEF Kept, Live, server
  <2> QED BY <1>7, <1>8, <2>3, <2>4, <2>5 DEF TokenInv
<1> QED BY <1>9, <1>10

\* The pair of a login or of a password change takes the place of the one that
\* the browser had.
LEMMA EndCallTokens ==
  ASSUME TokenInv, Sound', NEW t \in Tabs, NEW c \in calls, EndCall(t, c)
  PROVE  TokenInv'
<1>1. /\ Sound /\ c.kind # "refresh" /\ calls' = calls \ {c} /\ UNCHANGED <<server, gone, job>>
      /\ \A d \in Offered : d.out.s \in 1..Len(session) /\ d.pc = "answer"
  BY OfferFacts DEF TokenInv, EndCall
<1>2. CASE c.out = None
  <2>1. UNCHANGED <<mem, storage, past>>
    BY <1>2 DEF EndCall
  <2>2. Refreshing' = Refreshing /\ Offered' = Offered
    BY <1>1, <1>2, MinorCalls DEF Minor
  <2> QED BY <1>1, <2>1, <2>2, QuietStep DEF Quiet, server, Live
<1>3. CASE c.out # None
  <2>1. c \in Offered /\ Refreshing' = Refreshing /\ Offered' = Offered \ {c}
    BY <1>1, <1>3 DEF Refreshing, Offered
  <2>2. /\ storage' = c.out /\ past'.lost = past.lost /\ past'.reused = past.reused
        /\ past'.left = past.left \cup Of(storage)
    BY <1>1, <1>3 DEF EndCall, Sound, PastForm
  <2>3. /\ c.out.k = 0 /\ session[c.out.s].cur = 0
        /\ \A d \in Refreshing : d.p.s # c.out.s
    BY <2>1 DEF TokenInv, NewOffer
  <2>4. OneRefresh' /\ Locked' /\ GivenUp' /\ HeldStill' /\ NoFalseAlarm'
    BY <1>1, <2>1, <2>2, <2>3
       DEF TokenInv, OneRefresh, Locked, GivenUp, HeldStill, NoFalseAlarm
  <2>5. AllFresh'
    BY <1>1, <2>1, <2>2 DEF TokenInv, AllFresh, Fresh, Live, server
  <2>6. StorageCurrent'
    BY <1>1, <2>2, <2>3 DEF StorageCurrent, server
  <2>7. NewOffer'
    BY <1>1, <2>1, <2>2 DEF TokenInv, NewOffer, server
  <2>8. TokenKept'
    <3> SUFFICES ASSUME NEW s \in 1..Len(session) PROVE Kept(s)'
      BY <1>1, KeptNext DEF server
    <3>1. Kept(s)
      BY <1>1, KeptFacts DEF TokenInv
    <3>2. ComingBy(c, s) => storage' # None /\ storage'.s = s /\ storage'.k = session[s].cur
      BY <1>1, <1>3, <2>1, <2>2 DEF ComingBy
    <3>3. \A d : ComingBy(d, s) => ComingBy(d, s)'
      BY <1>1 DEF ComingBy, server
    <3>4. storage # None /\ storage.s = s => s \in past'.left
      BY <2>2 DEF Of
    <3> QED BY <1>1, <2>1, <2>2, <3>1, <3>2, <3>3, <3>4 DEF Kept, Live, server
  <2> QED BY <2>4, <2>5, <2>6, <2>7, <2>8 DEF TokenInv
<1> QED BY <1>2, <1>3

\* The storage is emptied.
LEMMA ForgetStep ==
  ASSUME TokenInv, Sound', storage' = None, Refreshing' = Refreshing, Offered' = Offered,
         UNCHANGED server, UNCHANGED job, past'.lost = past.lost, past'.reused = past.reused,
         past'.left = past.left \cup Of(storage)
  PROVE  TokenInv'
<1>1. Sound
  BY DEF TokenInv
<1>2. OneRefresh' /\ Locked' /\ GivenUp' /\ HeldStill' /\ NoFalseAlarm' /\ StorageCurrent'
  BY DEF TokenInv, OneRefresh, Locked, GivenUp, HeldStill, NoFalseAlarm, StorageCurrent
<1>3. AllFresh' /\ NewOffer'
  BY DEF TokenInv, AllFresh, Fresh, Live, NewOffer, server
<1>4. TokenKept'
  <2> SUFFICES ASSUME NEW s \in 1..Len(session) PROVE Kept(s)'
    BY KeptNext DEF server
  <2>1. Kept(s)
    BY <1>1, KeptFacts DEF TokenInv
  <2>2. \A d : ComingBy(d, s) => ComingBy(d, s)'
    BY DEF ComingBy, server
  <2>3. storage # None /\ storage.s = s => s \in past'.left
    BY DEF Of
  <2> QED BY <2>1, <2>2, <2>3 DEF Kept, Live, server
<1> QED BY <1>2, <1>3, <1>4 DEF TokenInv

LEMMA ForgettingTokens ==
  ASSUME TokenInv, Sound', NEW t \in Tabs,
         HandleGone(t) \/ \E c \in calls : EndLogout(t, c)
  PROVE  TokenInv'
<1>1. Sound /\ \A c \in calls : WellMade(c)
  BY DEF TokenInv, Sound, Good
<1>2. calls' = calls \/ \E c \in calls : Minor(c) /\ calls' = calls \ {c}
  BY <1>1 DEF HandleGone, EndLogout, WellMade, Minor
<1>3. Refreshing' = Refreshing /\ Offered' = Offered
  BY <1>2, MinorCalls
<1>4. /\ past'.lost = past.lost /\ past'.reused = past.reused
      /\ past'.left = past.left \cup Of(storage)
  BY <1>1 DEF HandleGone, EndLogout, Sound, PastForm
<1> QED BY <1>3, <1>4, ForgetStep DEF HandleGone, EndLogout, Forget

\* Calls that bring a pair back are given up: their sessions are lost.
LEMMA GiveUpStep ==
  ASSUME TokenInv, Sound', NEW G \in SUBSET calls,
         UNCHANGED server, UNCHANGED storage,
         past'.left = past.left, past'.reused = past.reused, past.lost \subseteq past'.lost,
         \A c \in G : Giving(c) \subseteq past'.lost,
         Refreshing \ G \subseteq Refreshing', Offered' = Offered \ G,
         \A d \in Refreshing' :
           \/ d \in Refreshing \ G
           \/ d.tab = None /\ \E c \in G \cap Refreshing : d.p = c.p,
         \A c \in Refreshing \ G :
           c.tab # None => job'[c.tab] = job[c.tab] /\ mem'[c.tab] = mem[c.tab]
  PROVE  TokenInv'
<1>1. Sound
  BY DEF TokenInv
<1>2. \A c \in Refreshing : c.p # None /\ (c.out # None => c.out.s = c.p.s)
  BY <1>1, RefreshFacts
<1>3. \A c \in Offered : c.pc = "answer"
  BY <1>1, OfferFacts
<1>4. \A c \in Refreshing \cap G : c.p.s \in past'.lost
  BY <1>2 DEF Giving, Of, Refreshing
<1>5. \A c \in Offered \cap G : c.out.s \in past'.lost
  BY DEF Giving, Of, Offered
<1>6. OneRefresh' /\ Locked' /\ HeldStill' /\ NoFalseAlarm'
  BY DEF TokenInv, OneRefresh, Locked, HeldStill, NoFalseAlarm
<1>7. GivenUp'
  BY <1>4 DEF TokenInv, GivenUp
<1>8. AllFresh'
  <2> SUFFICES ASSUME NEW d \in Refreshing', d.p.s \notin past'.lost PROVE Fresh(d)'
    BY DEF AllFresh
  <2>1. d \in Refreshing /\ d.p.s \notin past.lost
    BY <1>4
  <2>2. Fresh(d)
    BY <2>1 DEF TokenInv, AllFresh
  <2> QED BY <2>2 DEF Fresh, Live, server
<1>9. StorageCurrent'
  BY <1>4 DEF TokenInv, StorageCurrent, server
<1>10. NewOffer'
  BY DEF TokenInv, NewOffer, server
<1>11. TokenKept'
  <2> SUFFICES ASSUME NEW s \in 1..Len(session) PROVE Kept(s)'
    BY KeptNext DEF server
  <2>1. Kept(s)
    BY <1>1, KeptFacts DEF TokenInv
  <2>2. \A c \in (Refreshing \cup Offered) \cap G : ComingBy(c, s) => s \in past'.lost
    BY <1>2, <1>3, <1>4, <1>5 DEF ComingBy
  <2>3. \A d : ComingBy(d, s) => ComingBy(d, s)'
    BY DEF ComingBy, server
  <2> QED BY <2>1, <2>2, <2>3 DEF Kept, Live, server
<1> QED BY <1>6, <1>7, <1>8, <1>9, <1>10, <1>11 DEF TokenInv

LEMMA CutTokens ==
  ASSUME TokenInv, Sound', NEW t \in Tabs, NEW c \in calls, Cut(t, c)
  PROVE  TokenInv'
<1>1. Sound /\ c \in AnyCall /\ WellMade(c) /\ c.tab = t /\ c.tab # None
      /\ job \in [Tabs -> {"idle", "wait", "refresh"}]
  BY DEF TokenInv, Sound, Good, TabsForm, Cut
<1> PICK d : d = [c EXCEPT !.tab = None]
  OBVIOUS
<1>2. d.tab = None /\ d.kind = c.kind /\ d.p = c.p /\ d.out = c.out
  BY <1>1 DEF AnyCall
<1>3. PICK rest : /\ rest = {} \/ (rest = {d} /\ c.pc # "answer")
                  /\ calls' = Settled(t, (calls \ {c}) \cup rest, FALSE, None)
  BY DEF Cut
<1>4. /\ \A e \in ((calls \ {c}) \cup rest) \ calls' : Minor(e)
      /\ \A e \in calls' : e \in (calls \ {c}) \cup rest \/ Minor(e)
  BY <1>1, <1>3, SettledMinor
<1>5. /\ UNCHANGED server /\ past'.reused = past.reused /\ past'.lost = past.lost \cup Giving(c)
      /\ past'.left = past.left \cup (IF c.kind = "logout" THEN Of(storage) ELSE {})
  BY <1>1 DEF Cut, Sound, PastForm
<1>6. CASE c.kind = "refresh"
  <2>1. /\ UNCHANGED <<mem, storage, gone>> /\ past'.left = past.left
    BY <1>5, <1>6 DEF Cut
  <2>2. /\ c \in Refreshing /\ Offered' = Offered \ {c}
        /\ Refreshing \ {c} \subseteq Refreshing'
        /\ \A e \in Refreshing' : e \in Refreshing \ {c} \/ (e.tab = None /\ e.p = c.p)
    BY <1>2, <1>3, <1>4, <1>6 DEF Refreshing, Offered, Minor
  <2>3. \A e \in Refreshing \ {c} : e.tab = None
    BY <1>1, <2>2 DEF TokenInv, OneRefresh
  <2> PICK G : G = {c}
    OBVIOUS
  <2>4. /\ G \in SUBSET calls /\ past.lost \subseteq past'.lost
        /\ \A e \in G : Giving(e) \subseteq past'.lost
        /\ Offered' = Offered \ G /\ Refreshing \ G \subseteq Refreshing'
        /\ \A e \in Refreshing' :
             \/ e \in Refreshing \ G
             \/ e.tab = None /\ \E f \in G \cap Refreshing : e.p = f.p
        /\ \A e \in Refreshing \ G :
             e.tab # None => job'[e.tab] = job[e.tab] /\ mem'[e.tab] = mem[e.tab]
    BY <1>5, <2>2, <2>3
  <2> QED BY <1>5, <2>1, <2>4, GiveUpStep
<1>7. CASE c.kind # "refresh" /\ c.out # None
  <2>1. c.pc = "answer" /\ c.kind # "logout"
    BY <1>1, <1>7 DEF WellMade
  <2>2. UNCHANGED <<job, mem, storage, gone>> /\ past'.left = past.left
    BY <1>5, <1>7, <2>1 DEF Cut
  <2>3. Refreshing' = Refreshing /\ Offered' = Offered \ {c} /\ c \notin Refreshing
    BY <1>3, <1>4, <1>7, <2>1 DEF Refreshing, Offered, Minor
  <2> PICK G : G = {c}
    OBVIOUS
  <2>4. /\ G \in SUBSET calls /\ past.lost \subseteq past'.lost
        /\ \A e \in G : Giving(e) \subseteq past'.lost
        /\ Offered' = Offered \ G /\ Refreshing \ G \subseteq Refreshing'
        /\ \A e \in Refreshing' : e \in Refreshing \ G
        /\ \A e \in Refreshing \ G :
             e.tab # None => job'[e.tab] = job[e.tab] /\ mem'[e.tab] = mem[e.tab]
    BY <1>5, <2>2, <2>3
  <2> QED BY <1>5, <2>2, <2>4, GiveUpStep
<1>8. CASE c.kind # "refresh" /\ c.out = None
  <2>1. Minor(c) /\ Minor(d)
    BY <1>2, <1>8 DEF Minor
  <2>2. Refreshing' = Refreshing /\ Offered' = Offered
    BY <1>3, <1>4, <2>1, MinorCalls
  <2>3. past'.lost = past.lost /\ job' = job
    BY <1>5, <1>8 DEF Giving, Of, Cut
  <2>4. CASE c.kind = "logout"
    BY <1>5, <2>2, <2>3, <2>4, ForgetStep DEF Cut, Forget
  <2>5. CASE c.kind # "logout"
    BY <1>5, <2>2, <2>3, <2>5, QuietStep DEF Cut, Quiet, server, Live
  <2> QED BY <2>4, <2>5
<1> QED BY <1>6, <1>7, <1>8

LEMMA ReloadTokens ==
  ASSUME TokenInv, Sound', NEW t \in Tabs, Reload(t)
  PROVE  TokenInv'
<1> DEFINE G    == Mine(t)
           Sent == {d \in G : d.pc \notin {"answer", "refused", "waiting"}}
<1>1. /\ Sound /\ G \in SUBSET calls /\ t # None
      /\ \A c \in calls : c \in AnyCall /\ WellMade(c) /\ (c \in G <=> c.tab = t)
      /\ mem \in [Tabs -> AnyPair \cup {None}] /\ job \in [Tabs -> {"idle", "wait", "refresh"}]
  BY DEF TokenInv, Sound, Good, TabsForm, Mine
<1>2. calls' = (calls \ G) \cup {[c EXCEPT !.tab = None] : c \in Sent}
  BY DEF Reload
<1>3. ASSUME NEW c \in calls
      PROVE  LET d == [c EXCEPT !.tab = None]
             IN  d.tab = None /\ d.kind = c.kind /\ d.p = c.p /\ d.out = c.out
  BY <1>1 DEF AnyCall
<1>4. \A c \in Sent : c \in G /\ c \in calls /\ (c.out = None)
  BY <1>1 DEF WellMade
<1>5. /\ UNCHANGED server /\ UNCHANGED storage /\ past'.reused = past.reused
      /\ past'.left = past.left /\ past'.lost = past.lost \cup UNION {Giving(c) : c \in G}
      /\ mem' = [mem EXCEPT ![t] = storage] /\ job' = [job EXCEPT ![t] = "idle"]
  BY <1>1 DEF Reload, Sound, PastForm
<1> HIDE DEF G, Sent
<1>6. \A d \in calls' : \/ d \in calls \ G
                        \/ /\ d.tab = None /\ d.out = None
                           /\ \E c \in G : c \in calls /\ d.kind = c.kind /\ d.p = c.p
  BY <1>2, <1>3, <1>4, ZenonT(60)
<1>7. /\ Offered' = Offered \ G /\ Refreshing \ G \subseteq Refreshing'
      /\ \A d \in Refreshing' :
           \/ d \in Refreshing \ G
           \/ d.tab = None /\ \E c \in G \cap Refreshing : d.p = c.p
  BY <1>2, <1>6 DEF Refreshing, Offered
<1>8. \A c \in Refreshing \ G :
        c.tab # None => job'[c.tab] = job[c.tab] /\ mem'[c.tab] = mem[c.tab]
  <2>1. \A c \in Refreshing \ G : c.tab # t /\ c.tab \in Tabs \cup {None}
    BY <1>1, RefreshFacts
  <2> QED BY <1>1, <1>5, <2>1
<1>9. past.lost \subseteq past'.lost /\ \A c \in G : Giving(c) \subseteq past'.lost
  BY <1>5
<1> QED BY <1>1, <1>5, <1>7, <1>8, <1>9, GiveUpStep

-----------------------------------------------------------------------------

LEMMA TokenStep == TokenInv /\ Sound' /\ [Next]_vars => TokenInv'
<1> SUFFICES ASSUME TokenInv, Sound', [Next]_vars PROVE TokenInv'
  OBVIOUS
<1>1. CASE \E c \in calls : Statement(c)
  <2> PICK c \in calls : Statement(c)
    BY <1>1
  <2> QED BY CasTokens, ReuseTokens, CheckUserTokens, InsertTokens, QuietStatement DEF Statement
<1>2. CASE \E c \in calls : Page(c) \/ \E t \in Tabs : Cut(t, c)
  BY <1>2, QuietTab, EndRefreshTokens, EndCallTokens, ForgettingTokens, CutTokens DEF Page
<1>3. CASE \E t \in Tabs : Tab(t)
  BY <1>3, QuietTab, AcquireTokens, ForgettingTokens, ReloadTokens DEF Tab
<1>4. CASE OwnerRevokes \/ Reset \/ Suspend \/ Reactivate \/ \E s \in DOMAIN session : Expire(s)
  BY <1>4, QuietElsewhere
<1>5. CASE UNCHANGED vars
  BY <1>5, QuietStep DEF vars, Quiet, Refreshing, Offered, Live
<1> QED BY <1>1, <1>2, <1>3, <1>4, <1>5 DEF Next

LEMMA AlwaysTokenInv == Spec => []TokenInv
BY InitTokens, TokenStep, AlwaysSound, PTL DEF Spec

\* Tabs that refresh together are never taken for a thief: NoFalseAlarm holds,
\* for any tabs and any bounds.
THEOREM TogetherIsNoTheft == Spec => []NoFalseAlarm
BY AlwaysTokenInv, PTL DEF TokenInv

\* A refresh never loses a session by itself: TokenKept holds, for any tabs and
\* any bounds.
THEOREM NoSessionLost == Spec => []TokenKept
BY AlwaysTokenInv, PTL DEF TokenInv

-----------------------------------------------------------------------------
(* The bounds of the model.                                                *)
(*                                                                         *)
(* A guard counts what the calls on their way will still add; that the     *)
(* bounds hold is that nothing is added twice, and that whatever presents  *)
(* a pair may still replace it.                                            *)

Narrow   == Pair \cup {None}
Opens(c) == c.kind \in {"login", "password"} /\ c.pc # "answer"
Bumps(c) == c.kind \in {"password", "owner"} /\ c.pc \notin {"revoke", "insert", "answer"}

\* What a call holds; a refresh that matched, or may still match, has a rank left.
Fits(c) ==
  /\ c.p \in Narrow /\ c.hdr \in Narrow /\ c.out \in Narrow /\ c.seen \in Epoch
  /\ c.pc = "user" => c.p.k < MaxRefresh
  /\ c.pc = "cas" => (Live(c.p.s) => c.p.k < MaxRefresh)
  /\ c.kind \in {"login", "password"} /\ c.out # None => c.out.k = 0
  /\ c.kind \in {"password", "owner"} /\ c.pc = "revoke" => account.epoch >= 1

RowsNarrow  == \A s \in 1..Len(session) : session[s].cur <= MaxRefresh /\ session[s].born <= MaxEpoch
CallsNarrow == \A c \in calls : Fits(c)
TabsNarrow  == /\ storage \in Narrow
               /\ \A t \in Tabs : /\ mem[t] \in Narrow
                                  /\ job[t] = "wait" /\ mem[t] # None => MayRefresh(t)
PastNarrow  == /\ past.lost \subseteq Ids /\ past.left \subseteq Ids
               /\ past.reused \subseteq Ids /\ past.slipped \subseteq Ids
               /\ past.cut <= MaxLost /\ past.others <= MaxOthers /\ past.events <= MaxEvents

\* What was opened and what will be; the epoch and the revocations under way.
Counted == /\ IsFiniteSet(calls)
           /\ Len(session) + Cardinality(Opening) <= MaxSessions
           /\ account.epoch + Cardinality(ToBump) <= MaxEpoch

Bounded == RowsNarrow /\ CallsNarrow /\ TabsNarrow /\ PastNarrow /\ Counted

LEMMA BoundedType == Sound /\ Bounded => TypeOK
<1> SUFFICES ASSUME Sound, Bounded PROVE TypeOK
  OBVIOUS
<1>1. /\ Len(session) \in Nat /\ account.epoch \in Nat
      /\ IsFiniteSet(Opening) /\ IsFiniteSet(ToBump)
      /\ Cardinality(Opening) \in Nat /\ Cardinality(ToBump) \in Nat
  BY SessionFacts, EpochForm, FS_Subset, FS_CardinalityType DEF Bounded, Counted, Opening, ToBump
<1>2. Len(session) <= MaxSessions /\ account.epoch \in Epoch
  BY <1>1 DEF Bounded, Counted, Epoch
<1>3. account \in [active : BOOLEAN, epoch : Epoch]
  BY <1>2 DEF Sound, AccountForm
<1>4. session \in Seq(Row)
  <2>1. \A s \in 1..Len(session) : session[s] \in Row
    BY SessionFacts DEF Bounded, RowsNarrow, AnyRow, Row, Epoch
  <2>2. session \in [1..Len(session) -> Row]
    BY <2>1, SessionFacts, LenProperties DEF Sound, SessionForm
  <2> QED BY <1>1, <2>2
<1>5. calls \subseteq Call
  <2> SUFFICES ASSUME NEW c \in calls PROVE c \in Call
    OBVIOUS
  <2>1. c \in AnyCall /\ Fits(c)
    BY DEF Sound, Good, Bounded, CallsNarrow
  <2> QED BY <2>1 DEF AnyCall, Stages, Fits, Narrow, Call
<1>6. storage \in Narrow /\ mem \in [Tabs -> Narrow] /\ gone \subseteq Tabs
      /\ job \in [Tabs -> {"idle", "wait", "refresh"}]
  BY DEF Sound, TabsForm, Bounded, TabsNarrow
<1>7. past \in [lost : SUBSET Ids, left : SUBSET Ids, reused : SUBSET Ids,
                slipped : SUBSET Ids, cut : 0..MaxLost, others : 0..MaxOthers,
                events : 0..MaxEvents]
  BY DEF Sound, PastForm, Bounded, PastNarrow
<1> QED BY <1>2, <1>3, <1>4, <1>5, <1>6, <1>7 DEF TypeOK, Narrow

LEMMA InitBounded == Init => Bounded
<1> SUFFICES ASSUME Init PROVE Bounded
  OBVIOUS
<1>1. Len(session) = 0 /\ calls = {} /\ Opening = {} /\ ToBump = {} /\ account.epoch = 0
  BY DEF Init, Opening, ToBump
<1>2. Counted
  BY <1>1, FS_EmptySet DEF Counted
<1> QED BY <1>1, <1>2 DEF Init, Bounded, RowsNarrow, CallsNarrow, TabsNarrow, PastNarrow, Narrow

-----------------------------------------------------------------------------
(* Counting calls.                                                         *)

\* What a function yields on a finite set is no more than the set.
LEMMA Onto ==
  ASSUME NEW S, IsFiniteSet(S), NEW f, NEW T, T \subseteq {f[x] : x \in S}
  PROVE  IsFiniteSet(T) /\ Cardinality(T) <= Cardinality(S)
<1> DEFINE U == {f[x] : x \in S}
           g == [x \in S |-> f[x]]
<1>1. g \in Surjection(S, U)
  BY DEF Surjection
<1> HIDE DEF g
<1>2. IsFiniteSet(U) /\ Cardinality(U) <= Cardinality(S)
  BY <1>1, FS_Surjection
<1>3. T \in SUBSET U
  OBVIOUS
<1> HIDE DEF U
<1>4. IsFiniteSet(T) /\ Cardinality(T) <= Cardinality(U)
  BY <1>2, <1>3, FS_Subset
<1>5. Cardinality(T) \in Nat /\ Cardinality(U) \in Nat /\ Cardinality(S) \in Nat
  BY <1>2, <1>4, FS_CardinalityType
<1> QED BY <1>2, <1>4, <1>5

\* What a call has become asks for no more.
NoMore(c, d) == (Opens(d) => Opens(c)) /\ (Bumps(d) => Bumps(c))

LEMMA CountForm ==
  ASSUME IsFiniteSet(calls)
  PROVE  /\ Opening = {c \in calls : Opens(c)} /\ ToBump = {c \in calls : Bumps(c)}
         /\ IsFiniteSet(Opening) /\ Cardinality(Opening) \in Nat
         /\ IsFiniteSet(ToBump) /\ Cardinality(ToBump) \in Nat
<1>1. Opening = {c \in calls : Opens(c)} /\ ToBump = {c \in calls : Bumps(c)}
  BY DEF Opening, ToBump, Opens, Bumps
<1>2. Opening \in SUBSET calls /\ ToBump \in SUBSET calls
  BY <1>1
<1> QED BY <1>1, <1>2, FS_Subset, FS_CardinalityType

LEMMA CarriedCount ==
  ASSUME IsFiniteSet(calls), NEW f, calls' \subseteq {f[c] : c \in calls},
         \A c \in calls : NoMore(c, f[c])
  PROVE  /\ IsFiniteSet(calls')
         /\ Cardinality(Opening') <= Cardinality(Opening) /\ Cardinality(Opening') \in Nat
         /\ Cardinality(ToBump') <= Cardinality(ToBump) /\ Cardinality(ToBump') \in Nat
<1>1. IsFiniteSet(calls')
  BY Onto
<1>2. Opening' = {c \in calls' : Opens(c)} /\ ToBump' = {c \in calls' : Bumps(c)}
  BY DEF Opening, ToBump, Opens, Bumps
<1>3. Opening' \subseteq {f[c] : c \in Opening} /\ ToBump' \subseteq {f[c] : c \in ToBump}
  BY <1>2, CountForm DEF NoMore
<1>4. /\ IsFiniteSet(Opening') /\ Cardinality(Opening') <= Cardinality(Opening)
      /\ IsFiniteSet(ToBump') /\ Cardinality(ToBump') <= Cardinality(ToBump)
  BY <1>3, CountForm, Onto
<1> QED BY <1>1, <1>4, FS_CardinalityType

\* One call has become d, or has ended; nothing else in what the bounds count.
LEMMA OneCount ==
  ASSUME IsFiniteSet(calls), NEW c \in calls, NEW d, NoMore(c, d),
         calls' \subseteq (calls \ {c}) \cup {d}
  PROVE  /\ IsFiniteSet(calls')
         /\ Cardinality(Opening') <= Cardinality(Opening) /\ Cardinality(Opening') \in Nat
         /\ Cardinality(ToBump') <= Cardinality(ToBump) /\ Cardinality(ToBump') \in Nat
<1> DEFINE f == [x \in calls |-> IF x = c THEN d ELSE x]
<1>1. calls' \subseteq {f[x] : x \in calls}
  <2> SUFFICES ASSUME NEW y \in calls' PROVE \E x \in calls : y = f[x]
    OBVIOUS
  <2>1. CASE y \in calls \ {c}
    <3>1. f[y] = y
      BY <2>1
    <3> QED BY <2>1, <3>1
  <2>2. CASE y = d
    <3>1. f[c] = d
      OBVIOUS
    <3> QED BY <2>2, <3>1
  <2> QED BY <2>1, <2>2
<1>2. \A x \in calls : NoMore(x, f[x])
  BY DEF NoMore
<1> HIDE DEF f
<1> QED BY <1>1, <1>2, CarriedCount

\* One call less to be counted in S.
LEMMA OneLess ==
  ASSUME NEW S, IsFiniteSet(S), NEW c \in S, NEW T, T \subseteq S \ {c}
  PROVE  IsFiniteSet(T) /\ Cardinality(T) + 1 <= Cardinality(S)
<1>1. IsFiniteSet(S \ {c}) /\ Cardinality(S \ {c}) = Cardinality(S) - 1
  BY FS_RemoveElement
<1>2. T \in SUBSET (S \ {c})
  OBVIOUS
<1>3. IsFiniteSet(T) /\ Cardinality(T) <= Cardinality(S \ {c})
  BY <1>1, <1>2, FS_Subset
<1>4. Cardinality(T) \in Nat /\ Cardinality(S) \in Nat
  BY <1>3, FS_CardinalityType
<1> QED BY <1>1, <1>3, <1>4

\* One call more.
LEMMA OneMore ==
  ASSUME IsFiniteSet(calls), NEW d, calls' = calls \cup {d}
  PROVE  /\ IsFiniteSet(calls')
         /\ Cardinality(Opening') \in Nat /\ Cardinality(ToBump') \in Nat
         /\ Cardinality(Opening') <= Cardinality(Opening) + (IF Opens(d) THEN 1 ELSE 0)
         /\ Cardinality(ToBump') <= Cardinality(ToBump) + (IF Bumps(d) THEN 1 ELSE 0)
<1>1. IsFiniteSet(calls')
  BY FS_AddElement
<1>2. Opening' = {c \in calls' : Opens(c)} /\ ToBump' = {c \in calls' : Bumps(c)}
  BY DEF Opening, ToBump, Opens, Bumps
<1>3. Opening' = (IF Opens(d) THEN Opening \cup {d} ELSE Opening)
  BY <1>2, CountForm
<1>4. ToBump' = (IF Bumps(d) THEN ToBump \cup {d} ELSE ToBump)
  BY <1>2, CountForm
<1>5. \A S : IsFiniteSet(S) =>
        /\ IsFiniteSet(S \cup {d}) /\ Cardinality(S \cup {d}) \in Nat
        /\ Cardinality(S) \in Nat /\ Cardinality(S \cup {d}) <= Cardinality(S) + 1
  <2> TAKE S
  <2> HAVE IsFiniteSet(S)
  <2>1. /\ IsFiniteSet(S \cup {d})
        /\ Cardinality(S \cup {d}) = IF d \in S THEN Cardinality(S) ELSE Cardinality(S) + 1
    BY FS_AddElement
  <2>2. Cardinality(S) \in Nat
    BY FS_CardinalityType
  <2> QED BY <2>1, <2>2
<1> QED BY <1>1, <1>3, <1>4, <1>5, CountForm

-----------------------------------------------------------------------------
(* The bounds of what a step leaves alone.                                 *)

\* No session comes back to life.
NoneRevived == \A s \in 1..Len(session) : Live(s)' => Live(s)

LEMMA FitsCarried ==
  ASSUME Sound, NEW c \in calls, Fits(c), NoneRevived,
         account'.epoch \in Nat, account'.epoch >= account.epoch
  PROVE  Fits(c)'
<1>1. c.pc = "cas" => c.p.s \in 1..Len(session)
  BY DEF Sound, Good, WellMade, Known
<1>2. account.epoch \in Nat
  BY EpochForm
<1>3. account.epoch >= 1 => account'.epoch >= 1
  BY <1>2
<1> QED BY <1>1, <1>3 DEF Fits, NoneRevived

LEMMA TabsCarried ==
  ASSUME Sound, TabsNarrow, UNCHANGED tabs, NoneRevived
  PROVE  TabsNarrow'
<1>1. \A t \in Tabs : mem[t] # None => mem[t].s \in 1..Len(session)
  BY DEF Sound, Known
<1> QED BY <1>1 DEF TabsNarrow, NoneRevived, MayRefresh, tabs

LEMMA RowsRevoked ==
  ASSUME Sound, RowsNarrow, NEW S, session' = Revoked(S)
  PROVE  RowsNarrow' /\ NoneRevived /\ Len(session') = Len(session)
BY RevokedForm DEF Sound, RowsNarrow, NoneRevived, Live

LEMMA RowsUnchanged ==
  ASSUME RowsNarrow, session' = session
  PROVE  RowsNarrow' /\ NoneRevived /\ Len(session') = Len(session)
BY DEF RowsNarrow, NoneRevived, Live

\* A call c has become d, or has ended.
LEMMA OneBounded ==
  ASSUME Sound, Bounded, NEW c \in calls, NEW d, calls' \subseteq (calls \ {c}) \cup {d},
         NoMore(c, d), Fits(d)', account' = account, RowsNarrow', NoneRevived,
         Len(session') = Len(session), TabsNarrow', PastNarrow'
  PROVE  Bounded'
<1>1. account.epoch \in Nat /\ Len(session) \in Nat /\ Cardinality(Opening) \in Nat
      /\ Cardinality(ToBump) \in Nat
  BY SessionFacts, EpochForm, CountForm DEF Bounded, Counted
<1>2. /\ IsFiniteSet(calls')
      /\ Cardinality(Opening') <= Cardinality(Opening) /\ Cardinality(Opening') \in Nat
      /\ Cardinality(ToBump') <= Cardinality(ToBump) /\ Cardinality(ToBump') \in Nat
  BY OneCount DEF Bounded, Counted
<1>3. Counted'
  BY <1>1, <1>2 DEF Bounded, Counted
<1>4. CallsNarrow'
  BY <1>1, FitsCarried DEF Bounded, CallsNarrow
<1> QED BY <1>3, <1>4 DEF Bounded

-----------------------------------------------------------------------------
(* The statements of the server.                                           *)

\* What c has become: the same call elsewhere, with a pair given out or none.
Goes(c, d, pc) == d.pc = pc /\ d.kind = c.kind /\ d.p = c.p /\ d.hdr = c.hdr

LEMMA GoesOn ==
  ASSUME NEW c \in AnyCall, NEW pc
  PROVE  LET d == [c EXCEPT !.pc = pc]
         IN  Goes(c, d, pc) /\ d.out = c.out /\ d.seen = c.seen
BY DEF AnyCall, Goes

LEMMA GoesOnAt ==
  ASSUME NEW c \in AnyCall, NEW pc \in Stages, NEW n \in Epoch
  PROVE  LET d == [c EXCEPT !.pc = pc, !.seen = n]
         IN  Goes(c, d, pc) /\ d.out = c.out /\ d.seen = n
BY DEF AnyCall, Goes

LEMMA GoesAnswered ==
  ASSUME NEW c \in AnyCall, NEW out
  PROVE  \E d : /\ Goes(c, d, "answer") /\ d.out = out /\ d.seen = c.seen
                /\ Answered(c, out) \subseteq (calls \ {c}) \cup {d}
<1> DEFINE d == [c EXCEPT !.pc = "answer", !.out = out]
<1>1. Goes(c, d, "answer") /\ d.out = out /\ d.seen = c.seen
  BY DEF AnyCall, Goes
<1>2. Answered(c, out) \subseteq (calls \ {c}) \cup {d}
  BY DEF Answered
<1> HIDE DEF d
<1> QED BY <1>1, <1>2

\* The answer to a call.
LEMMA AnswerBounded ==
  ASSUME Sound, Bounded, NEW c \in calls, NEW out \in Narrow, calls' = Answered(c, out),
         c.kind \in {"login", "password"} /\ out # None => out.k = 0,
         account' = account, RowsNarrow', NoneRevived,
         Len(session') = Len(session), TabsNarrow', PastNarrow'
  PROVE  Bounded'
<1>1. c \in AnyCall /\ Fits(c)
  BY DEF Sound, Good, Bounded, CallsNarrow
<1>2. PICK d : /\ Goes(c, d, "answer") /\ d.out = out /\ d.seen = c.seen
               /\ calls' \subseteq (calls \ {c}) \cup {d}
  BY <1>1, GoesAnswered
<1>3. NoMore(c, d) /\ Fits(d)'
  BY <1>1, <1>2 DEF Goes, NoMore, Opens, Bumps, Fits
<1> QED BY <1>2, <1>3, OneBounded

LEMMA EpochBounds ==
  ASSUME Sound, Bounded
  PROVE  account.epoch \in Epoch /\ Enforced \in Epoch /\ Len(session) <= MaxSessions
<1>1. /\ Len(session) \in Nat /\ account.epoch \in Nat
      /\ Cardinality(Opening) \in Nat /\ Cardinality(ToBump) \in Nat
  BY SessionFacts, EpochForm, CountForm DEF Bounded, Counted
<1>2. account.epoch \in Epoch /\ Len(session) <= MaxSessions
  BY <1>1 DEF Bounded, Counted, Epoch
<1>3. Cutting => account.epoch >= 1
  BY DEF Cutting, Bounded, CallsNarrow, Fits
<1> QED BY <1>1, <1>2, <1>3 DEF Enforced, Epoch

LEMMA CasBounded ==
  ASSUME Sound, Bounded, NEW c \in calls, Cas(c)
  PROVE  Bounded'
<1>1. c \in AnyCall /\ Fits(c) /\ c.kind = "refresh" /\ c.pc = "cas" /\ c.p \in Pair
      /\ c.p.s \in 1..Len(session) /\ c.out = None
  BY DEF Sound, Good, WellMade, Known, Bounded, CallsNarrow, Fits, Narrow, Cas
<1>2. account' = account /\ UNCHANGED tabs /\ PastNarrow'
  BY DEF Cas, Bounded, PastNarrow
<1>3. CASE Live(c.p.s) /\ session[c.p.s].cur = c.p.k
  <2> PICK now : now = Enforced
    OBVIOUS
  <2> DEFINE d == [c EXCEPT !.pc = "user", !.seen = now]
  <2>1. session' = [session EXCEPT ![c.p.s].cur = @ + 1] /\ calls' = (calls \ {c}) \cup {d}
    BY <1>3 DEF Cas
  <2>2. now \in Epoch
    BY EpochBounds
  <2>3. Goes(c, d, "user") /\ d.out = c.out /\ d.seen = now
    BY <1>1, <2>2 DEF AnyCall, Goes, Stages
  <2> HIDE DEF d
  <2>4. c.p.k < MaxRefresh
    BY <1>1, <1>3 DEF Fits
  <2>5. NoMore(c, d) /\ Fits(d)'
    BY <1>1, <2>2, <2>3, <2>4 DEF Goes, NoMore, Opens, Bumps, Fits
  <2>6. RowsNarrow' /\ NoneRevived /\ Len(session') = Len(session)
    <3>1. /\ DOMAIN session = 1..Len(session) /\ Len(session) \in Nat
          /\ \A s \in 1..Len(session) : session[s] \in AnyRow
      BY SessionFacts
    <3>2. Len(session') = Len(session) /\ session' \in Seq(AnyRow)
      <4>1. Sound'
        BY CasSound
      <4>2. DOMAIN session' = 1..Len(session)
        BY <2>1, <3>1
      <4> QED BY <3>1, <4>1, <4>2, LenProperties DEF Sound, SessionForm
    <3>3. \A s \in 1..Len(session) :
            /\ session'[s].born = session[s].born /\ session'[s].state = session[s].state
            /\ session'[s].cur = IF s = c.p.s THEN c.p.k + 1 ELSE session[s].cur
      BY <1>1, <1>3, <2>1, <3>1 DEF AnyRow
    <3>4. c.p.k + 1 <= MaxRefresh
      BY <1>1, <2>4 DEF Pair
    <3> QED BY <3>2, <3>3, <3>4 DEF Bounded, RowsNarrow, NoneRevived, Live
  <2> QED BY <1>2, <2>1, <2>5, <2>6, OneBounded, TabsCarried DEF Bounded
<1>4. CASE ~(Live(c.p.s) /\ session[c.p.s].cur = c.p.k)
  <2> DEFINE d == [c EXCEPT !.pc = "reuse"]
  <2>1. session' = session /\ calls' = (calls \ {c}) \cup {d}
    BY <1>4 DEF Cas, Move
  <2>2. Goes(c, d, "reuse") /\ d.out = c.out /\ d.seen = c.seen
    BY <1>1, GoesOn
  <2> HIDE DEF d
  <2>3. NoMore(c, d) /\ Fits(d)'
    BY <1>1, <2>2 DEF Goes, NoMore, Opens, Bumps, Fits
  <2> QED BY <1>2, <2>1, <2>3, RowsUnchanged, OneBounded, TabsCarried DEF Bounded
<1> QED BY <1>3, <1>4

LEMMA ReuseBounded ==
  ASSUME Sound, Bounded, NEW c \in calls, Reuse(c)
  PROVE  Bounded'
<1> DEFINE hit == IF Superseded(c.p) THEN {c.p.s} \cap Unrevoked ELSE {}
<1>1. session' = Revoked(hit) /\ calls' = Answered(c, None)
      /\ past' = [past EXCEPT !.reused = @ \cup hit]
  BY DEF Reuse
<1>2. hit \subseteq Ids
  BY SessionFacts, EpochBounds DEF Unrevoked, Ids
<1> HIDE DEF hit
<1>3. PastNarrow'
  BY <1>1, <1>2 DEF Sound, PastForm, Bounded, PastNarrow
<1>4. RowsNarrow' /\ NoneRevived /\ Len(session') = Len(session)
  BY <1>1, RowsRevoked DEF Bounded
<1>5. account' = account /\ UNCHANGED tabs /\ c.kind = "refresh" /\ None \in Narrow
  BY DEF Reuse, Sound, Good, WellMade, Narrow
<1> QED BY <1>1, <1>3, <1>4, <1>5, AnswerBounded, TabsCarried DEF Bounded

LEMMA CheckUserBounded ==
  ASSUME Sound, Bounded, NEW c \in calls, CheckUser(c)
  PROVE  Bounded'
<1>1. c.kind = "refresh" /\ c.p \in Pair /\ c.p.s \in 1..Len(session) /\ c.p.k < MaxRefresh
  BY DEF Sound, Good, WellMade, Known, CheckUser, Bounded, CallsNarrow, Fits, Narrow
<1>2. account' = account /\ UNCHANGED tabs
  BY DEF CheckUser
<1>3. CASE account.active
  <2> DEFINE out == [s |-> c.p.s, k |-> c.p.k + 1, iat |-> account.epoch]
             S   == IF Cutting \/ c.seen < account.epoch THEN {c.p.s} ELSE {}
  <2>1. out \in Pair
    BY <1>1, EpochBounds DEF Pair, Ids
  <2>2. calls' = Answered(c, out) /\ session' = session /\ past' = [past EXCEPT !.slipped = @ \cup S]
    BY <1>3 DEF CheckUser
  <2>3. S \subseteq Ids
    BY <1>1 DEF Pair
  <2> HIDE DEF out, S
  <2>4. PastNarrow'
    BY <2>2, <2>3 DEF Sound, PastForm, Bounded, PastNarrow
  <2> QED BY <1>1, <1>2, <2>1, <2>2, <2>4, RowsUnchanged, AnswerBounded, TabsCarried
          DEF Bounded, Narrow
<1>4. CASE ~account.active
  <2>1. session' = Revoked({c.p.s}) /\ calls' = Answered(c, None) /\ UNCHANGED past
    BY <1>4 DEF CheckUser
  <2>2. PastNarrow'
    BY <2>1 DEF Bounded, PastNarrow
  <2>3. RowsNarrow' /\ NoneRevived /\ Len(session') = Len(session) /\ None \in Narrow
    BY <2>1, RowsRevoked DEF Bounded, Narrow
  <2> QED BY <1>1, <1>2, <2>1, <2>2, <2>3, AnswerBounded, TabsCarried DEF Bounded
<1> QED BY <1>3, <1>4

\* Those that let a call in, or refuse it.
LEMMA AdmitBounded ==
  ASSUME Sound, Bounded, NEW c \in calls, Verify(c) \/ Admit(c) \/ Refuse(c)
  PROVE  Bounded'
<1>1. /\ c \in AnyCall /\ Fits(c) /\ c.pc \in {"verify", "auth", "reauth"} /\ c.out = None
      /\ c.kind \in {"login", "password", "others"} /\ (c.pc = "verify" => c.kind # "others")
      /\ (c.pc \in {"auth", "reauth"} => c.kind # "login")
  BY DEF Sound, Good, WellMade, Bounded, CallsNarrow, Verify, Admit, Refuse
<1>2. /\ account' = account /\ UNCHANGED tabs /\ PastNarrow'
      /\ RowsNarrow' /\ NoneRevived /\ Len(session') = Len(session)
  BY RowsUnchanged DEF Verify, Admit, Refuse, server, Bounded, PastNarrow
<1>3. TabsNarrow'
  BY <1>2, TabsCarried DEF Bounded
<1> PICK now : now = account.epoch
  OBVIOUS
<1>e. now \in Epoch
  BY EpochBounds
<1>4. CASE calls' = Answered(c, None)
  BY <1>2, <1>3, <1>4, AnswerBounded DEF Narrow
<1>5. CASE calls' = calls \ {c}
  <2>1. NoMore(c, c) /\ Fits(c)' /\ calls' \subseteq (calls \ {c}) \cup {c}
    BY <1>1, <1>2, <1>5, FitsCarried, EpochForm DEF NoMore
  <2> QED BY <1>2, <1>3, <2>1, OneBounded
<1>6. CASE Verify(c) /\ account.active
  <2> DEFINE d == [c EXCEPT !.pc = "insert", !.seen = now]
  <2>1. calls' = (calls \ {c}) \cup {d}
    BY <1>6 DEF Verify
  <2>2. Goes(c, d, "insert") /\ d.out = c.out /\ d.seen = now
    BY <1>1 DEF AnyCall, Goes
  <2> HIDE DEF d
  <2>3. NoMore(c, d) /\ Fits(d)'
    BY <1>1, <1>e, <1>6, <2>2 DEF Goes, NoMore, Opens, Bumps, Fits, Verify
  <2> QED BY <1>2, <1>3, <2>1, <2>3, OneBounded
<1>7. CASE Admit(c)
  <2> DEFINE pc == IF c.kind = "password" THEN "bump" ELSE "revoke"
             d  == [c EXCEPT !.pc = pc, !.seen = now]
  <2>1. calls' = (calls \ {c}) \cup {d}
    BY <1>7 DEF Admit
  <2>2. /\ d.kind = c.kind /\ d.p = c.p /\ d.hdr = c.hdr /\ d.out = c.out /\ d.seen = now
        /\ d.pc = pc
    BY <1>1 DEF AnyCall
  <2> HIDE DEF d
  <2>3. NoMore(c, d) /\ Fits(d)'
    BY <1>1, <1>e, <1>7, <2>2 DEF NoMore, Opens, Bumps, Fits, Admit
  <2> QED BY <1>2, <1>3, <2>1, <2>3, OneBounded
<1>8. CASE Refuse(c) /\ Move(c, "refused")
  <2> DEFINE d == [c EXCEPT !.pc = "refused"]
  <2>1. calls' = (calls \ {c}) \cup {d}
    BY <1>8 DEF Move
  <2>2. Goes(c, d, "refused") /\ d.out = c.out /\ d.seen = c.seen
    BY <1>1, GoesOn
  <2> HIDE DEF d
  <2>3. NoMore(c, d) /\ Fits(d)'
    BY <1>1, <2>2 DEF Goes, NoMore, Opens, Bumps, Fits
  <2> QED BY <1>2, <1>3, <2>1, <2>3, OneBounded
<1> QED BY <1>4, <1>5, <1>6, <1>7, <1>8 DEF Verify, Refuse

\* Those that end sessions.
LEMMA RevokingBounded ==
  ASSUME Sound, Bounded, NEW c \in calls, ServeLogout(c) \/ RevokeOthers(c) \/ RevokeAll(c)
  PROVE  Bounded'
<1>1. c \in AnyCall /\ Fits(c) /\ c.pc = "revoke" /\ c.out = None
  BY DEF Sound, Good, WellMade, Bounded, CallsNarrow, ServeLogout, RevokeOthers, RevokeAll
<1>2. account' = account /\ UNCHANGED tabs /\ PastNarrow'
  BY DEF ServeLogout, RevokeOthers, RevokeAll, Bounded, PastNarrow
<1>3. PICK S : session' = Revoked(S)
  BY DEF ServeLogout, RevokeOthers, RevokeAll
<1>4. RowsNarrow' /\ NoneRevived /\ Len(session') = Len(session) /\ TabsNarrow'
  BY <1>2, <1>3, RowsRevoked, TabsCarried DEF Bounded
<1>5. CASE calls' = Answered(c, None)
  BY <1>2, <1>4, <1>5, AnswerBounded DEF Narrow
<1>6. CASE calls' = calls \ {c}
  <2>1. NoMore(c, c) /\ Fits(c)' /\ calls' \subseteq (calls \ {c}) \cup {c}
    BY <1>1, <1>2, <1>4, <1>6, FitsCarried, EpochForm DEF NoMore
  <2> QED BY <1>2, <1>4, <2>1, OneBounded
<1>7. CASE Move(c, "insert")
  <2> DEFINE d == [c EXCEPT !.pc = "insert"]
  <2>1. calls' = (calls \ {c}) \cup {d}
    BY <1>7 DEF Move
  <2>2. Goes(c, d, "insert") /\ d.out = c.out /\ d.seen = c.seen
    BY <1>1, GoesOn
  <2> HIDE DEF d
  <2>3. NoMore(c, d) /\ Fits(d)'
    BY <1>1, <2>2 DEF Goes, NoMore, Opens, Bumps, Fits
  <2> QED BY <1>2, <1>4, <2>1, <2>3, OneBounded
<1> QED BY <1>5, <1>6, <1>7 DEF ServeLogout, RevokeOthers, RevokeAll

\* The row that a call on its way was to add.
LEMMA InsertBounded ==
  ASSUME Sound, Bounded, NEW c \in calls, Insert(c)
  PROVE  Bounded'
<1>1. /\ c \in AnyCall /\ Fits(c) /\ c.kind \in {"login", "password"} /\ c.pc = "insert"
      /\ account.epoch \in Epoch
  BY EpochBounds DEF Sound, Good, WellMade, Bounded, CallsNarrow, Insert
<1>2. PICK out, row :
        /\ \E iat \in c.seen..account.epoch : out = [s |-> Len(session) + 1, k |-> 0, iat |-> iat]
        /\ row = [cur |-> 0, state |-> "live", born |-> account.epoch]
        /\ session' = Append(session, row) /\ calls' = Answered(c, out)
        /\ past' = [past EXCEPT !.lost = @ \cup Unheard(c, out)]
  BY DEF Insert
<1>3. account' = account /\ UNCHANGED tabs
  BY DEF Insert
<1>4. PICK d : /\ Goes(c, d, "answer") /\ d.out = out /\ d.seen = c.seen
               /\ calls' \subseteq (calls \ {c}) \cup {d}
  BY <1>1, <1>2, GoesAnswered
<1>5. /\ Len(session) \in Nat /\ account.epoch \in Nat
      /\ IsFiniteSet(calls) /\ IsFiniteSet(Opening)
      /\ Cardinality(Opening) \in Nat /\ Cardinality(ToBump) \in Nat
  BY SessionFacts, EpochForm, CountForm DEF Bounded, Counted
<1>6. ~Opens(d) /\ ~Bumps(d) /\ c \in Opening
  BY <1>1, <1>4 DEF Goes, Opens, Bumps, Opening
<1>7. /\ IsFiniteSet(calls') /\ Cardinality(Opening') \in Nat /\ Cardinality(ToBump') \in Nat
      /\ Cardinality(ToBump') <= Cardinality(ToBump)
  BY <1>4, <1>5, <1>6, OneCount DEF NoMore
<1>8. Cardinality(Opening') + 1 <= Cardinality(Opening)
  <2>1. Opening' \subseteq Opening \ {c}
    BY <1>4, <1>6 DEF Opening, Opens
  <2> QED BY <1>5, <1>6, <2>1, OneLess
<1>9. /\ Len(session') = Len(session) + 1
      /\ \A s \in 1..Len(session) : session'[s] = session[s]
      /\ session'[Len(session) + 1] = row
  BY <1>2, <1>5, AppendProperties DEF Sound, SessionForm, AnyRow
<1>10. Counted' /\ Len(session) + 1 <= MaxSessions
  BY <1>3, <1>5, <1>7, <1>8, <1>9 DEF Bounded, Counted
<1>11. out \in Pair /\ out.k = 0
  BY <1>1, <1>2, <1>5, <1>10 DEF Pair, Ids, Epoch, Fits
<1>12. RowsNarrow' /\ NoneRevived
  BY <1>1, <1>2, <1>5, <1>9 DEF Bounded, RowsNarrow, NoneRevived, Live, Epoch
<1>13. CallsNarrow'
  <2>1. Fits(d)'
    BY <1>1, <1>4, <1>11 DEF Goes, Fits, Narrow
  <2>2. \A e \in calls : Fits(e)'
    BY <1>3, <1>5, <1>12, FitsCarried DEF Bounded, CallsNarrow
  <2> QED BY <1>4, <2>1, <2>2 DEF CallsNarrow
<1>14. PastNarrow'
  <2>1. Unheard(c, out) \subseteq Ids
    BY <1>11 DEF Unheard, Of, Pair
  <2> QED BY <1>2, <2>1 DEF Sound, PastForm, Bounded, PastNarrow
<1> QED BY <1>3, <1>10, <1>12, <1>13, <1>14, TabsCarried DEF Bounded

\* The epoch that a call on its way was to move.
LEMMA BumpBounded ==
  ASSUME Sound, Bounded, NEW c \in calls, Bump(c)
  PROVE  Bounded'
<1>1. /\ c \in AnyCall /\ Fits(c) /\ c.kind \in {"password", "owner"} /\ c.pc = "bump" /\ c.out = None
      /\ account.epoch \in Epoch
  BY EpochBounds DEF Sound, Good, WellMade, Bounded, CallsNarrow, Bump
<1> PICK now : now = account.epoch + 1
  OBVIOUS
<1> DEFINE d == [c EXCEPT !.pc = "revoke", !.seen = now]
<1>2. calls' = (calls \ {c}) \cup {d} /\ session' = session /\ UNCHANGED tabs /\ past' = past
  BY DEF Bump
<1>3. account'.epoch = now
  BY DEF Bump, Sound, AccountForm
<1>4. Goes(c, d, "revoke") /\ d.out = c.out /\ d.seen = now
  BY <1>1 DEF AnyCall, Goes
<1> HIDE DEF d
<1>5. /\ Len(session) \in Nat /\ account.epoch \in Nat
      /\ IsFiniteSet(calls) /\ IsFiniteSet(ToBump)
      /\ Cardinality(Opening) \in Nat /\ Cardinality(ToBump) \in Nat
  BY SessionFacts, EpochForm, CountForm DEF Bounded, Counted
<1>6. ~Bumps(d) /\ NoMore(c, d) /\ c \in ToBump
  BY <1>1, <1>4 DEF Goes, NoMore, Opens, Bumps, ToBump
<1>7. /\ IsFiniteSet(calls') /\ Cardinality(Opening') \in Nat /\ Cardinality(ToBump') \in Nat
      /\ Cardinality(Opening') <= Cardinality(Opening)
  BY <1>2, <1>5, <1>6, OneCount
<1>8. Cardinality(ToBump') + 1 <= Cardinality(ToBump)
  <2>1. ToBump' \subseteq ToBump \ {c}
    BY <1>2, <1>6 DEF ToBump, Bumps
  <2> QED BY <1>5, <1>6, <2>1, OneLess
<1>9. RowsNarrow' /\ NoneRevived /\ Len(session') = Len(session)
  BY <1>2, RowsUnchanged DEF Bounded
<1>10. Counted' /\ now <= MaxEpoch /\ now \in Nat
  BY <1>3, <1>5, <1>7, <1>8, <1>9 DEF Bounded, Counted
<1>11. CallsNarrow'
  <2>1. Fits(d)'
    BY <1>1, <1>3, <1>4, <1>5, <1>10 DEF Goes, Fits, Epoch
  <2>2. \A e \in calls : Fits(e)'
    BY <1>3, <1>5, <1>9, FitsCarried DEF Bounded, CallsNarrow
  <2> QED BY <1>2, <2>1, <2>2 DEF CallsNarrow
<1>12. PastNarrow'
  BY <1>2 DEF Bounded, PastNarrow
<1> QED BY <1>2, <1>9, <1>10, <1>11, <1>12, TabsCarried DEF Bounded

-----------------------------------------------------------------------------
(* What comes from elsewhere, and the steps of the tabs.                   *)

\* No call is sent or answered.
LEMMA QuietBounded ==
  ASSUME Sound, Bounded, calls' = calls,
         account'.epoch \in Nat, account'.epoch >= account.epoch,
         account'.epoch + Cardinality(ToBump) <= MaxEpoch,
         RowsNarrow', NoneRevived, Len(session') = Len(session), TabsNarrow', PastNarrow'
  PROVE  Bounded'
<1>1. Counted'
  BY DEF Bounded, Counted, Opening, ToBump
<1>2. CallsNarrow'
  BY FitsCarried DEF Bounded, CallsNarrow
<1> QED BY <1>1, <1>2 DEF Bounded

\* A call is sent, when the bounds leave room for it.
LEMMA SendBounded ==
  ASSUME Sound, Bounded, UNCHANGED server, NEW d, calls' = calls \cup {d}, Fits(d)',
         Opens(d) => MayOpen, Bumps(d) => MayCut, TabsNarrow', PastNarrow'
  PROVE  Bounded'
<1>1. /\ Len(session) \in Nat /\ account.epoch \in Nat /\ IsFiniteSet(calls)
      /\ Cardinality(Opening) \in Nat /\ Cardinality(ToBump) \in Nat
  BY SessionFacts, EpochForm, CountForm DEF Bounded, Counted
<1>2. account' = account /\ RowsNarrow' /\ NoneRevived /\ Len(session') = Len(session)
  BY RowsUnchanged DEF server, Bounded
<1>3. /\ IsFiniteSet(calls')
      /\ Cardinality(Opening') \in Nat /\ Cardinality(ToBump') \in Nat
      /\ Cardinality(Opening') <= Cardinality(Opening) + (IF Opens(d) THEN 1 ELSE 0)
      /\ Cardinality(ToBump') <= Cardinality(ToBump) + (IF Bumps(d) THEN 1 ELSE 0)
  BY <1>1, OneMore
<1>4. Counted'
  <2>1. Len(session) + Cardinality(Opening') <= MaxSessions
    BY <1>1, <1>3 DEF Bounded, Counted, MayOpen
  <2>2. account.epoch + Cardinality(ToBump') <= MaxEpoch
    BY <1>1, <1>3 DEF Bounded, Counted, MayCut
  <2> QED BY <1>2, <1>3, <2>1, <2>2 DEF Counted
<1>5. CallsNarrow'
  BY <1>1, <1>2, FitsCarried DEF Bounded, CallsNarrow
<1> QED BY <1>2, <1>4, <1>5 DEF Bounded

LEMMA ElsewhereBounded ==
  ASSUME Sound, Bounded,
         OwnerRevokes \/ Reset \/ Suspend \/ Reactivate \/ \E s \in DOMAIN session : Expire(s)
  PROVE  Bounded'
<1>1. /\ account.epoch \in Nat /\ Cardinality(ToBump) \in Nat
      /\ account.epoch + Cardinality(ToBump) <= MaxEpoch
  BY EpochForm, CountForm DEF Bounded, Counted
<1>2. PastNarrow'
  <2>1. past' = past \/ (past.events < MaxEvents /\ past' = [past EXCEPT !.events = @ + 1])
    BY DEF OwnerRevokes, Reset, Suspend, Reactivate, Expire, Event
  <2> QED BY <2>1 DEF Sound, PastForm, Bounded, PastNarrow
<1>3. CASE OwnerRevokes
  <2> PICK d : d = NewCall(None, "owner", "bump", None)
    OBVIOUS
  <2>1. /\ calls' = calls \cup {d} /\ UNCHANGED server /\ UNCHANGED tabs /\ MayCut
    BY <1>3 DEF OwnerRevokes, Send
  <2>2. ~Opens(d) /\ Fits(d)'
    <3>1. None \in Narrow
      BY DEF Narrow
    <3>2. d.kind = "owner" /\ d.pc = "bump" /\ d.p = None /\ d.out = None /\ d.hdr = None
          /\ d.seen \in Epoch
      BY EpochBounds DEF NewCall
    <3> QED BY <3>1, <3>2 DEF Opens, Fits
  <2>3. TabsNarrow'
    BY <2>1, TabsCarried, RowsUnchanged DEF server, Bounded
  <2> QED BY <1>2, <2>1, <2>2, <2>3, SendBounded
<1>4. CASE Reset \/ Suspend
  <2>1. /\ calls' = calls /\ UNCHANGED tabs /\ session' = Revoked(Unrevoked)
        /\ account'.epoch = account.epoch \/ (account'.epoch = account.epoch + 1 /\ MayCut)
    BY <1>4 DEF Reset, Suspend, Sound, AccountForm
  <2>2. RowsNarrow' /\ NoneRevived /\ Len(session') = Len(session)
    BY <2>1, RowsRevoked DEF Bounded
  <2>3. /\ account'.epoch \in Nat /\ account'.epoch >= account.epoch
        /\ account'.epoch + Cardinality(ToBump) <= MaxEpoch
    BY <1>1, <2>1 DEF MayCut
  <2>4. TabsNarrow'
    BY <2>1, <2>2, TabsCarried DEF Bounded
  <2> QED BY <1>2, <2>1, <2>2, <2>3, <2>4, QuietBounded
<1>5. CASE Reactivate
  <2>1. calls' = calls /\ UNCHANGED tabs /\ session' = session /\ account'.epoch = account.epoch
    BY <1>5 DEF Reactivate, Sound, AccountForm
  <2>2. RowsNarrow' /\ NoneRevived /\ Len(session') = Len(session) /\ TabsNarrow'
    BY <2>1, RowsUnchanged, TabsCarried DEF Bounded
  <2> QED BY <1>1, <1>2, <2>1, <2>2, QuietBounded
<1>6. ASSUME NEW s \in DOMAIN session, Expire(s) PROVE Bounded'
  <2>1. /\ calls' = calls /\ UNCHANGED tabs /\ account' = account
        /\ session' = [session EXCEPT ![s].state = "expired"]
    BY <1>6 DEF Expire
  <2>2. RowsNarrow' /\ NoneRevived /\ Len(session') = Len(session)
    <3>1. /\ Len(session) \in Nat /\ DOMAIN session = 1..Len(session)
          /\ \A r \in 1..Len(session) : session[r] \in AnyRow
      BY SessionFacts
    <3>2. Len(session') = Len(session)
      <4>1. Sound'
        BY <1>6, ElsewhereSound
      <4>2. DOMAIN session' = 1..Len(session)
        BY <2>1, <3>1
      <4> QED BY <3>1, <4>1, <4>2, LenProperties DEF Sound, SessionForm
    <3>3. \A r \in 1..Len(session) :
            /\ session'[r].born = session[r].born /\ session'[r].cur = session[r].cur
            /\ session'[r].state = session[r].state \/ session'[r].state = "expired"
      BY <2>1, <3>1 DEF AnyRow
    <3> QED BY <3>2, <3>3 DEF Bounded, RowsNarrow, NoneRevived, Live
  <2>3. TabsNarrow'
    BY <2>1, <2>2, TabsCarried DEF Bounded
  <2> QED BY <1>1, <1>2, <2>1, <2>2, <2>3, QuietBounded
<1> QED BY <1>3, <1>4, <1>5, <1>6

LEMMA SendingBounded ==
  ASSUME Sound, Bounded, NEW t \in Tabs,
         Login(t) \/ ChangePassword(t) \/ DisconnectOthers(t) \/ Logout(t)
  PROVE  Bounded'
<1>1. UNCHANGED server /\ UNCHANGED tabs /\ mem[t] \in Narrow /\ None \in Narrow
  BY DEF Login, ChangePassword, DisconnectOthers, Logout, Bounded, TabsNarrow, Narrow
<1>2. TabsNarrow'
  BY <1>1, TabsCarried, RowsUnchanged DEF server, Bounded
<1>3. PastNarrow'
  BY DEF Login, ChangePassword, DisconnectOthers, Logout, Sound, PastForm, Bounded, PastNarrow
<1>4. PICK d :
        /\ calls' = calls \cup {d}
        /\ \/ d = NewCall(t, "login", "verify", None) /\ MayOpen
           \/ d = NewCall(t, "password", "auth", mem[t]) /\ MayOpen /\ MayCut
           \/ d = NewCall(t, "others", "auth", mem[t])
           \/ d = NewCall(t, "logout", "revoke", mem[t])
  BY DEF Login, ChangePassword, DisconnectOthers, Logout, Send
<1>5. /\ d.p \in Narrow /\ d.hdr \in Narrow /\ d.out = None /\ d.seen \in Epoch
      /\ \/ d.kind = "login" /\ d.pc = "verify" /\ MayOpen
         \/ d.kind = "password" /\ d.pc = "auth" /\ MayOpen /\ MayCut
         \/ d.kind = "others" /\ d.pc = "auth"
         \/ d.kind = "logout" /\ d.pc = "revoke"
  BY <1>1, <1>4, EpochBounds DEF NewCall
<1>6. Fits(d)' /\ (Opens(d) => MayOpen) /\ (Bumps(d) => MayCut)
  BY <1>5 DEF Fits, Opens, Bumps, Narrow
<1> QED BY <1>1, <1>2, <1>3, <1>4, <1>6, SendBounded

\* The calls of C that wait for the refresh of a tab go on, or are dropped.
LEMMA SettledBounded ==
  ASSUME Sound, Bounded, NEW t \in Tabs, NEW C \in SUBSET calls, NEW ok \in BOOLEAN,
         NEW new, ok => new \in Narrow, UNCHANGED server, calls' = Settled(t, C, ok, new)
  PROVE  Counted' /\ CallsNarrow' /\ RowsNarrow' /\ NoneRevived
<1>1. /\ Len(session) \in Nat /\ account.epoch \in Nat /\ IsFiniteSet(calls)
      /\ Cardinality(Opening) \in Nat /\ Cardinality(ToBump) \in Nat
  BY SessionFacts, EpochForm, CountForm DEF Bounded, Counted
<1>2. account' = account /\ RowsNarrow' /\ NoneRevived /\ Len(session') = Len(session)
  BY RowsUnchanged DEF server, Bounded
<1> PICK W : W = Waiting(t)
  OBVIOUS
<1> DEFINE f == [w \in calls |-> IF w \in W THEN [w EXCEPT !.pc = "reauth", !.p = new] ELSE w]
<1>3. \A w \in W : /\ w \in calls /\ w \in AnyCall /\ w.pc = "waiting"
                   /\ w.kind \in {"password", "others"} /\ w.out = None /\ Fits(w)
  BY DEF Waiting, Mine, Sound, Good, WellMade, Bounded, CallsNarrow
<1>4. ASSUME NEW w \in W
      PROVE  LET d == [w EXCEPT !.pc = "reauth", !.p = new]
             IN  /\ d.kind = w.kind /\ d.pc = "reauth" /\ d.p = new /\ d.hdr = w.hdr
                 /\ d.out = w.out /\ d.seen = w.seen
  BY <1>3 DEF AnyCall
<1>5. /\ calls' \subseteq {f[w] : w \in calls}
      /\ \A d \in calls' : d \in calls \/ (ok /\ \E w \in W : d = [w EXCEPT !.pc = "reauth", !.p = new])
  BY <1>3 DEF Settled
<1>6. \A w \in calls : NoMore(w, f[w])
  <2> TAKE w \in calls
  <2>1. CASE w \in W
    <3>1. f[w].kind = w.kind /\ f[w].pc = "reauth"
      BY <1>4, <2>1
    <3> QED BY <1>3, <2>1, <3>1 DEF NoMore, Opens, Bumps
  <2>2. CASE w \notin W
    BY <2>2 DEF NoMore
  <2> QED BY <2>1, <2>2
<1> HIDE DEF f
<1>7. /\ IsFiniteSet(calls')
      /\ Cardinality(Opening') <= Cardinality(Opening) /\ Cardinality(Opening') \in Nat
      /\ Cardinality(ToBump') <= Cardinality(ToBump) /\ Cardinality(ToBump') \in Nat
  BY <1>1, <1>5, <1>6, CarriedCount
<1>8. Counted'
  BY <1>1, <1>2, <1>7 DEF Bounded, Counted
<1>9. CallsNarrow'
  <2> SUFFICES ASSUME NEW d \in calls' PROVE Fits(d)'
    BY DEF CallsNarrow
  <2>1. CASE d \in calls
    BY <1>1, <1>2, <2>1, FitsCarried DEF Bounded, CallsNarrow
  <2>2. ASSUME ok, NEW w \in W, d = [w EXCEPT !.pc = "reauth", !.p = new] PROVE Fits(d)'
    <3>1. /\ d.kind = w.kind /\ d.pc = "reauth" /\ d.p = new /\ d.hdr = w.hdr
          /\ d.out = w.out /\ d.seen = w.seen
      BY <1>4, <2>2
    <3> QED BY <1>3, <2>2, <3>1 DEF Fits
  <2> QED BY <1>5, <2>1, <2>2
<1> QED BY <1>2, <1>8, <1>9

LEMMA RefusedBounded ==
  ASSUME Sound, Bounded, NEW t \in Tabs, NEW c \in calls, Refused(t, c)
  PROVE  Bounded'
<1>1. c \in AnyCall /\ Fits(c) /\ c.pc = "refused"
  BY DEF Sound, Good, Bounded, CallsNarrow, Refused
<1>2. /\ account' = account /\ RowsNarrow' /\ NoneRevived /\ Len(session') = Len(session)
      /\ PastNarrow'
  BY RowsUnchanged DEF Refused, server, Bounded, PastNarrow
<1>3. TabsNarrow'
  BY DEF Refused, server, Sound, TabsForm, Bounded, TabsNarrow, MayRefresh, Live
<1>4. CASE calls' = calls \ {c}
  <2>1. NoMore(c, c) /\ Fits(c)' /\ calls' \subseteq (calls \ {c}) \cup {c}
    BY <1>1, <1>2, <1>4, FitsCarried, EpochForm DEF NoMore
  <2> QED BY <1>2, <1>3, <2>1, OneBounded
<1>5. CASE Move(c, "waiting")
  <2> DEFINE d == [c EXCEPT !.pc = "waiting"]
  <2>1. calls' = (calls \ {c}) \cup {d}
    BY <1>5 DEF Move
  <2>2. Goes(c, d, "waiting") /\ d.out = c.out /\ d.seen = c.seen
    BY <1>1, GoesOn
  <2> HIDE DEF d
  <2>3. NoMore(c, d) /\ Fits(d)'
    BY <1>1, <2>2 DEF Goes, NoMore, Opens, Bumps, Fits
  <2> QED BY <1>2, <1>3, <2>1, <2>3, OneBounded
<1> QED BY <1>4, <1>5 DEF Refused

\* What is presented may still be replaced.
LEMMA AcquireBounded ==
  ASSUME Sound, Bounded, NEW t \in Tabs, Acquire(t)
  PROVE  Bounded'
<1> PICK latest : latest = ReadTokens(t)
  OBVIOUS
<1>1. /\ latest \in Narrow /\ job[t] = "wait" /\ UNCHANGED server /\ PastNarrow'
      /\ storage' = storage
      /\ mem' \in {mem, [mem EXCEPT ![t] = latest]}
      /\ job' \in {[job EXCEPT ![t] = "refresh"], [job EXCEPT ![t] = "idle"]}
  BY DEF Acquire, ReadTokens, Bounded, TabsNarrow, PastNarrow, Narrow
<1>2. TabsNarrow'
  BY <1>1 DEF Sound, TabsForm, Bounded, TabsNarrow, MayRefresh, Live, server
<1>3. CASE latest # None /\ latest = mem[t]
  <2> PICK d : d = NewCall(t, "refresh", "cas", latest)
    OBVIOUS
  <2>1. calls' = calls \cup {d}
    BY <1>3 DEF Acquire, Send
  <2>2. d.kind = "refresh" /\ d.pc = "cas" /\ d.p = latest /\ d.hdr = None /\ d.out = None
        /\ d.seen \in Epoch
    BY EpochBounds DEF NewCall
  <2>3. Live(latest.s) => latest.k < MaxRefresh
    BY <1>1, <1>3 DEF Bounded, TabsNarrow, MayRefresh
  <2>4. Fits(d)' /\ ~Opens(d) /\ ~Bumps(d)
    BY <1>1, <2>2, <2>3 DEF Fits, Opens, Bumps, Narrow, Live, server
  <2> QED BY <1>1, <1>2, <2>1, <2>4, SendBounded
<1>4. CASE ~(latest # None /\ latest = mem[t])
  <2>1. calls' = Settled(t, calls, latest # None, latest)
    BY <1>4 DEF Acquire
  <2> QED BY <1>1, <1>2, <2>1, SettledBounded DEF Bounded
<1> QED BY <1>3, <1>4

LEMMA RejectBounded ==
  ASSUME Sound, Bounded, NEW t \in Tabs, Reject(t)
  PROVE  Bounded'
<1>1. /\ account.epoch \in Nat /\ account.epoch + Cardinality(ToBump) <= MaxEpoch
  BY EpochForm DEF Bounded, Counted
<1>2. /\ calls' = calls /\ account' = account /\ PastNarrow'
      /\ RowsNarrow' /\ NoneRevived /\ Len(session') = Len(session)
  BY RowsUnchanged DEF Reject, server, Bounded, PastNarrow
<1>3. TabsNarrow'
  BY DEF Reject, server, Sound, TabsForm, Bounded, TabsNarrow, MayRefresh, Live
<1> QED BY <1>1, <1>2, <1>3, QuietBounded

LEMMA EndRefreshBounded ==
  ASSUME Sound, Bounded, NEW t \in Tabs, NEW c \in calls, EndRefresh(t, c)
  PROVE  Bounded'
<1> PICK ok, out : ok = (mem[t] = c.p /\ ReadTokens(t) = c.p /\ c.out # None) /\ out = c.out
  OBVIOUS
<1>1. out \in Narrow /\ Of(out) \subseteq Ids /\ ok \in BOOLEAN
  BY DEF Bounded, CallsNarrow, Fits, Narrow, Pair, Of
<1>2. calls' = Settled(t, calls \ {c}, ok, out) /\ UNCHANGED server /\ job' = [job EXCEPT ![t] = "idle"]
  BY DEF EndRefresh
<1>3. Counted' /\ CallsNarrow' /\ RowsNarrow'
  BY <1>1, <1>2, SettledBounded
<1>4. \/ mem' = [mem EXCEPT ![t] = out] /\ storage' = out
      \/ mem' = mem /\ storage' = storage
  BY DEF EndRefresh
<1>5. TabsNarrow'
  BY <1>1, <1>2, <1>4 DEF Sound, TabsForm, Bounded, TabsNarrow, MayRefresh, Live, server
<1>6. past' = past \/ past' = [past EXCEPT !.left = @ \cup Of(out)]
  BY DEF EndRefresh
<1>7. PastNarrow'
  BY <1>1, <1>6 DEF Sound, PastForm, Bounded, PastNarrow
<1> QED BY <1>3, <1>5, <1>7 DEF Bounded

\* A call that has ended, and what the tabs make of it.
LEMMA EndedBounded ==
  ASSUME Sound, Bounded, NEW c \in calls, calls' \subseteq calls, c \notin calls',
         UNCHANGED server, TabsNarrow', PastNarrow'
  PROVE  Bounded'
<1>1. /\ account' = account /\ RowsNarrow' /\ NoneRevived /\ Len(session') = Len(session)
  BY RowsUnchanged DEF server, Bounded
<1>2. NoMore(c, c) /\ Fits(c)' /\ calls' \subseteq (calls \ {c}) \cup {c}
  BY <1>1, FitsCarried, EpochForm DEF NoMore, Bounded, CallsNarrow
<1> QED BY <1>1, <1>2, OneBounded

LEMMA EndCallBounded ==
  ASSUME Sound, Bounded, NEW t \in Tabs, NEW c \in calls, EndCall(t, c)
  PROVE  Bounded'
<1>1. /\ c.out \in Narrow /\ Of(storage) \subseteq Ids /\ UNCHANGED server
      /\ calls' = calls \ {c} /\ job' = job
  BY DEF EndCall, Bounded, CallsNarrow, Fits, TabsNarrow, Narrow, Pair, Of
<1>2. PastNarrow'
  BY <1>1 DEF EndCall, Sound, PastForm, Bounded, PastNarrow
<1>3. TabsNarrow'
  <2>1. CASE c.out = None
    BY <1>1, <2>1 DEF EndCall, server, Bounded, TabsNarrow, MayRefresh, Live
  <2>2. CASE c.out # None
    <3>1. c.kind \in {"login", "password"} /\ c.out.k = 0
      BY <2>2 DEF EndCall, Sound, Good, WellMade, Bounded, CallsNarrow, Fits
    <3>2. mem' = [mem EXCEPT ![t] = c.out] /\ storage' = c.out /\ session' = session
      BY <2>2 DEF EndCall, server
    <3>3. 0 < MaxRefresh
      OBVIOUS
    <3>4. ASSUME NEW u \in Tabs
          PROVE  mem'[u] \in Narrow /\ (job'[u] = "wait" /\ mem'[u] # None => MayRefresh(u)')
      <4>1. CASE u = t
        <5>1. mem'[u] = c.out
          BY <3>2, <4>1 DEF Sound, TabsForm
        <5> QED BY <1>1, <3>1, <3>3, <5>1 DEF MayRefresh
      <4>2. CASE u # t
        <5>1. mem'[u] = mem[u]
          BY <3>2, <4>2 DEF Sound, TabsForm
        <5> QED BY <1>1, <3>2, <5>1 DEF Bounded, TabsNarrow, MayRefresh, Live
      <4> QED BY <4>1, <4>2
    <3> QED BY <1>1, <3>2, <3>4 DEF TabsNarrow
  <2> QED BY <2>1, <2>2
<1> QED BY <1>1, <1>2, <1>3, EndedBounded

\* The pair is forgotten, and the storage emptied.
LEMMA ForgetNarrow ==
  ASSUME Sound, Bounded, NEW t \in Tabs, Forget(t), UNCHANGED server,
         job' = job \/ job' = [job EXCEPT ![t] = "idle"]
  PROVE  TabsNarrow'
BY DEF Forget, server, Sound, TabsForm, Bounded, TabsNarrow, MayRefresh, Live, Narrow

LEMMA ForgettingBounded ==
  ASSUME Sound, Bounded, NEW t \in Tabs,
         HandleGone(t) \/ \E c \in calls : EndLogout(t, c)
  PROVE  Bounded'
<1>1. Of(storage) \subseteq Ids /\ UNCHANGED server
  BY DEF HandleGone, EndLogout, Bounded, TabsNarrow, Narrow, Pair, Of
<1>2. PastNarrow'
  BY <1>1 DEF HandleGone, EndLogout, Sound, PastForm, Bounded, PastNarrow
<1>3. TabsNarrow'
  BY <1>1, ForgetNarrow DEF HandleGone, EndLogout
<1>4. CASE HandleGone(t)
  <2>1. /\ calls' = calls /\ account' = account
        /\ RowsNarrow' /\ NoneRevived /\ Len(session') = Len(session)
    BY <1>4, RowsUnchanged DEF HandleGone, server, Bounded
  <2>2. account.epoch \in Nat /\ account.epoch + Cardinality(ToBump) <= MaxEpoch
    BY EpochForm DEF Bounded, Counted
  <2> QED BY <1>2, <1>3, <2>1, <2>2, QuietBounded
<1>5. CASE \E c \in calls : EndLogout(t, c)
  BY <1>1, <1>2, <1>3, <1>5, EndedBounded DEF EndLogout
<1> QED BY <1>4, <1>5

LEMMA GivingNarrow == \A c \in calls : Bounded => Giving(c) \subseteq Ids
BY DEF Bounded, CallsNarrow, Fits, Narrow, Pair, Giving, Of

LEMMA CutBounded ==
  ASSUME Sound, Bounded, NEW t \in Tabs, NEW c \in calls, Cut(t, c)
  PROVE  Bounded'
<1>1. /\ c \in AnyCall /\ Fits(c) /\ Giving(c) \subseteq Ids /\ Of(storage) \subseteq Ids
      /\ UNCHANGED server /\ past.cut < MaxLost
  BY GivingNarrow DEF Sound, Good, Bounded, CallsNarrow, TabsNarrow, Narrow, Pair, Of, Cut
<1> PICK d : d = [c EXCEPT !.tab = None]
  OBVIOUS
<1>2. Goes(c, d, c.pc) /\ d.out = c.out /\ d.seen = c.seen
  BY <1>1 DEF AnyCall, Goes
<1>3. calls' \subseteq (calls \ {c}) \cup {d}
  BY DEF Cut, Settled
<1>4. /\ account' = account /\ RowsNarrow' /\ NoneRevived /\ Len(session') = Len(session)
  BY <1>1, RowsUnchanged DEF server, Bounded
<1>5. NoMore(c, d) /\ Fits(d)'
  <2>1. Fits(c)'
    BY <1>1, <1>4, FitsCarried, EpochForm
  <2> QED BY <1>2, <2>1 DEF Goes, NoMore, Opens, Bumps, Fits
<1>6. PastNarrow'
  <2> PICK L : L = (IF c.kind = "logout" THEN Of(storage) ELSE {})
    OBVIOUS
  <2>1. past' = [past EXCEPT !.cut = @ + 1, !.lost = @ \cup Giving(c), !.left = @ \cup L]
    BY DEF Cut
  <2>2. /\ past'.cut = past.cut + 1 /\ past'.lost = past.lost \cup Giving(c)
        /\ past'.left = past.left \cup L /\ past'.reused = past.reused
        /\ past'.slipped = past.slipped /\ past'.others = past.others
        /\ past'.events = past.events /\ past.cut \in Nat
    BY <2>1 DEF Sound, PastForm
  <2> QED BY <1>1, <2>2 DEF Bounded, PastNarrow
<1>7. TabsNarrow'
  <2>1. CASE c.kind = "logout"
    BY <1>1, <2>1, ForgetNarrow DEF Cut
  <2>2. CASE c.kind # "logout"
    BY <1>1, <2>2 DEF Cut, server, Sound, TabsForm, Bounded, TabsNarrow, MayRefresh, Live
  <2> QED BY <2>1, <2>2
<1> QED BY <1>3, <1>4, <1>5, <1>6, <1>7, OneBounded

LEMMA ReloadBounded ==
  ASSUME Sound, Bounded, NEW t \in Tabs, Reload(t)
  PROVE  Bounded'
<1>1. /\ Len(session) \in Nat /\ account.epoch \in Nat /\ IsFiniteSet(calls)
      /\ Cardinality(Opening) \in Nat /\ Cardinality(ToBump) \in Nat
  BY SessionFacts, EpochForm, CountForm DEF Bounded, Counted
<1>2. /\ UNCHANGED server /\ account' = account
      /\ RowsNarrow' /\ NoneRevived /\ Len(session') = Len(session)
  BY RowsUnchanged DEF Reload, server, Bounded
<1> PICK M : M = Mine(t)
  OBVIOUS
<1> DEFINE f == [c \in calls |-> IF c \in M THEN [c EXCEPT !.tab = None] ELSE c]
<1>3. \A c \in calls : c \in AnyCall /\ Fits(c)
  BY DEF Sound, Good, Bounded, CallsNarrow
<1>4. ASSUME NEW c \in calls
      PROVE  LET d == [c EXCEPT !.tab = None]
             IN  Goes(c, d, c.pc) /\ d.out = c.out /\ d.seen = c.seen
  BY <1>3 DEF AnyCall, Goes
<1>5. /\ calls' \subseteq {f[c] : c \in calls}
      /\ \A d \in calls' : d \in calls \/ \E c \in calls : d = [c EXCEPT !.tab = None]
  BY DEF Reload, Mine
<1>6. \A c \in calls : NoMore(c, f[c])
  <2> TAKE c \in calls
  <2>1. f[c].kind = c.kind /\ f[c].pc = c.pc
    BY <1>4 DEF Goes
  <2> QED BY <2>1 DEF NoMore, Opens, Bumps
<1> HIDE DEF f
<1>7. /\ IsFiniteSet(calls')
      /\ Cardinality(Opening') <= Cardinality(Opening) /\ Cardinality(Opening') \in Nat
      /\ Cardinality(ToBump') <= Cardinality(ToBump) /\ Cardinality(ToBump') \in Nat
  BY <1>1, <1>5, <1>6, CarriedCount
<1>8. Counted'
  BY <1>1, <1>2, <1>7 DEF Bounded, Counted
<1>9. CallsNarrow'
  <2> SUFFICES ASSUME NEW d \in calls' PROVE Fits(d)'
    BY DEF CallsNarrow
  <2>0. \A c \in calls : Fits(c)'
    BY <1>1, <1>2, <1>3, FitsCarried
  <2>1. ASSUME NEW c \in calls, d = [c EXCEPT !.tab = None] PROVE Fits(d)'
    <3>1. Goes(c, d, c.pc) /\ d.out = c.out /\ d.seen = c.seen
      BY <1>4, <2>1
    <3> QED BY <2>0, <3>1 DEF Goes, Fits
  <2> QED BY <1>5, <2>0, <2>1
<1>10. PastNarrow'
  <2> PICK G : G = UNION {Giving(c) : c \in Mine(t)}
    OBVIOUS
  <2>1. G \subseteq Ids
    BY GivingNarrow DEF Mine
  <2>2. past' = [past EXCEPT !.cut = @ + 1, !.lost = @ \cup G] /\ past.cut < MaxLost
    BY DEF Reload
  <2> QED BY <2>1, <2>2 DEF Sound, PastForm, Bounded, PastNarrow
<1>11. TabsNarrow'
  BY DEF Reload, server, Sound, TabsForm, Bounded, TabsNarrow, MayRefresh, Live
<1> QED BY <1>2, <1>8, <1>9, <1>10, <1>11 DEF Bounded

-----------------------------------------------------------------------------

LEMMA BoundedStep == Sound /\ Bounded /\ [Next]_vars => Bounded'
<1> SUFFICES ASSUME Sound, Bounded, [Next]_vars PROVE Bounded'
  OBVIOUS
<1>1. CASE \E c \in calls : Statement(c)
  <2> PICK c \in calls : Statement(c)
    BY <1>1
  <2> QED BY CasBounded, ReuseBounded, CheckUserBounded, AdmitBounded, InsertBounded,
             RevokingBounded, BumpBounded DEF Statement
<1>2. CASE \E c \in calls : Page(c) \/ \E t \in Tabs : Cut(t, c)
  BY <1>2, RefusedBounded, EndRefreshBounded, EndCallBounded, ForgettingBounded, CutBounded DEF Page
<1>3. CASE \E t \in Tabs : Tab(t)
  BY <1>3, RejectBounded, AcquireBounded, ForgettingBounded, SendingBounded, ReloadBounded DEF Tab
<1>4. CASE OwnerRevokes \/ Reset \/ Suspend \/ Reactivate \/ \E s \in DOMAIN session : Expire(s)
  BY <1>4, ElsewhereBounded
<1>5. CASE UNCHANGED vars
  <2>1. /\ account.epoch \in Nat /\ account.epoch + Cardinality(ToBump) <= MaxEpoch
    BY EpochForm DEF Bounded, Counted
  <2>2. /\ calls' = calls /\ account' = account /\ PastNarrow'
        /\ RowsNarrow' /\ NoneRevived /\ Len(session') = Len(session)
    BY <1>5, RowsUnchanged DEF vars, Bounded, PastNarrow
  <2>3. TabsNarrow'
    BY <1>5, <2>2, TabsCarried DEF vars, tabs, Bounded
  <2> QED BY <2>1, <2>2, <2>3, QuietBounded
<1> QED BY <1>1, <1>2, <1>3, <1>4, <1>5 DEF Next

\* TypeOK with its bounds, for any tabs: what a guard lets in is what the calls on
\* their way will add, nobody adds it twice, and a pair that is presented always has
\* a rank left.
THEOREM BoundsKept == Spec => []TypeOK
<1>1. Spec => []Bounded
  BY InitBounded, BoundedStep, AlwaysSound, PTL DEF Spec
<1> QED BY <1>1, BoundedType, AlwaysSound, PTL
=============================================================================
