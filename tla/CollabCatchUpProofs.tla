------------------------ MODULE CollabCatchUpProofs ------------------------
(***************************************************************************)
(* Proofs about CollabCatchUp for a log of any length, pages of any size   *)
(* and any number of broken sockets.                                       *)
(***************************************************************************)
EXTENDS CollabCatchUp, FiniteSetTheorems, SequenceTheorems, TLAPS

\* What a catch-up holds is in the log.
RunsFromLog == \A g \in Gens : run[g].rows \subseteq rows /\ run[g].batch \subseteq rows

TypeInv == TypeOK /\ RunsFromLog

\* A catch-up in the state of r will still bring the row.
Due(r, s) ==
  \/ s \in r.batch
  \/ r.state = "sent" /\ s > r.since
  \/ r.state \in {"read", "replay"} /\ (s \in r.rows \/ (r.more /\ s > r.upTo))

\* The current connection catches up in two of its phases; until somebody else moves its
\* cursor, a row that is neither in the editor nor in the inbox is still to come.
CoverInv ==
  /\ run[gen].state # "none" <=> phase \in {"resync", "catchUp"}
  /\ phase = "open" /\ ~lapped => Missed = {}
  /\ phase = "catchUp" /\ ~lapped => \A s \in Missed : Due(run[gen], s)

Inv == TypeInv /\ CoverInv

-----------------------------------------------------------------------------
(* The least and the greatest element of a finite set of numbers, from the *)
(* well-foundedness of inclusion between finite sets.                      *)

LEMMA Greatest ==
  ASSUME NEW S \in SUBSET Nat, IsFiniteSet(S), S # {}
  PROVE  Max(S) \in S /\ \A n \in S : n <= Max(S)
<1> DEFINE From(m) == {s \in S : s >= m}
           T == {From(m) : m \in S}
<1>1. IsWellFoundedOn(StrictSubsetOrdering(S), FiniteSubsetsOf(S))
  BY FS_StrictSubsetOrderingWellFounded
<1>2. IsWellFoundedOn(StrictSubsetOrdering(S), SUBSET S)
  BY <1>1, FS_FiniteSubsetsOfFinite
<1>3. T \subseteq SUBSET S /\ T # {}
  <2>1. \A m \in S : From(m) \in SUBSET S /\ From(m) \in T
    OBVIOUS
  <2> QED
    BY <2>1
<1>4. PICK F \in T : \A G \in T : <<G, F>> \notin StrictSubsetOrdering(S)
  <2> HIDE DEF T
  <2> QED
    BY <1>2, <1>3, WFMin
<1>5. PICK m \in S : F = From(m)
  BY <1>4
<1>6. ASSUME NEW n \in S, ~(n <= m) PROVE FALSE
  <2>1. From(n) \in T /\ From(n) \in SUBSET S /\ From(m) \in SUBSET S
    OBVIOUS
  <2>2. n \in Nat /\ m \in Nat /\ \A s \in S : s \in Nat
    OBVIOUS
  <2>3. m \in From(m) /\ m \notin From(n) /\ m < n
    BY <1>6, <2>2
  <2>a. ASSUME NEW s \in S, s >= n PROVE s >= m
    BY <2>2, <2>3, <2>a
  <2>b. From(n) \subseteq From(m)
    BY <2>a
  <2>4. <<From(n), F>> \in StrictSubsetOrdering(S)
    BY <1>5, <2>1, <2>3, <2>b DEF StrictSubsetOrdering
  <2> QED
    BY <1>4, <2>1, <2>4
<1>7. \A n \in S : m >= n
  BY <1>6
<1>8. Max(S) \in S /\ \A n \in S : Max(S) >= n
  BY <1>7 DEF Max
<1> QED
  BY <1>8

LEMMA Least ==
  ASSUME NEW S \in SUBSET Nat, IsFiniteSet(S), S # {}
  PROVE  Min(S) \in S /\ \A n \in S : Min(S) <= n
<1> DEFINE UpTo(m) == {s \in S : s <= m}
           T == {UpTo(m) : m \in S}
<1>1. IsWellFoundedOn(StrictSubsetOrdering(S), FiniteSubsetsOf(S))
  BY FS_StrictSubsetOrderingWellFounded
<1>2. IsWellFoundedOn(StrictSubsetOrdering(S), SUBSET S)
  BY <1>1, FS_FiniteSubsetsOfFinite
<1>3. T \subseteq SUBSET S /\ T # {}
  <2>1. \A m \in S : UpTo(m) \in SUBSET S /\ UpTo(m) \in T
    OBVIOUS
  <2> QED
    BY <2>1
<1>4. PICK F \in T : \A G \in T : <<G, F>> \notin StrictSubsetOrdering(S)
  <2> HIDE DEF T
  <2> QED
    BY <1>2, <1>3, WFMin
<1>5. PICK m \in S : F = UpTo(m)
  BY <1>4
<1>6. ASSUME NEW n \in S, ~(m <= n) PROVE FALSE
  <2>1. UpTo(n) \in T /\ UpTo(n) \in SUBSET S /\ UpTo(m) \in SUBSET S
    OBVIOUS
  <2>2. n \in Nat /\ m \in Nat /\ \A s \in S : s \in Nat
    OBVIOUS
  <2>3. m \in UpTo(m) /\ m \notin UpTo(n) /\ n < m
    BY <1>6, <2>2
  <2>a. ASSUME NEW s \in S, s <= n PROVE s <= m
    BY <2>2, <2>3, <2>a
  <2>b. UpTo(n) \subseteq UpTo(m)
    BY <2>a
  <2>4. <<UpTo(n), F>> \in StrictSubsetOrdering(S)
    BY <1>5, <2>1, <2>3, <2>b DEF StrictSubsetOrdering
  <2> QED
    BY <1>4, <2>1, <2>4
<1>7. \A n \in S : m <= n
  BY <1>6
<1> QED
  BY <1>7 DEF Min

\* A set of sequence numbers is a finite set of numbers.
LEMMA SeqsFinite ==
  ASSUME NEW S \in SUBSET Seqs
  PROVE  S \in SUBSET Nat /\ IsFiniteSet(S)
<1>1. MaxSeq \in Nat /\ S \in SUBSET Nat /\ \A s \in S : s <= MaxSeq
  BY CatchUpAssumption DEF Seqs
<1> QED
  BY <1>1, FS_BoundedSetOfNaturals

-----------------------------------------------------------------------------
(* A page of the log.                                                      *)

\* The rows after the cursor, and the page: the first PageSize of them.
After(since) == {s \in rows : s > since}
Page(since) ==
  {s \in After(since) : Cardinality({t \in After(since) : t <= s}) <= PageSize}

\* A page has no hole, and is empty only when there is no row after the cursor.
LEMMA PageHasNoHole ==
  ASSUME rows \in SUBSET Seqs, NEW since \in Nat
  PROVE  /\ Page(since) \in SUBSET Seqs /\ Page(since) \subseteq After(since)
         /\ Page(since) = {} => After(since) = {}
         /\ Page(since) # {} =>
              /\ Max(Page(since)) \in Seqs
              /\ \A s \in After(since) : s <= Max(Page(since)) => s \in Page(since)
<1> DEFINE A == After(since)
           Below(s) == {t \in A : t <= s}
<1>1. A \in SUBSET Seqs /\ A \in SUBSET Nat
  BY SeqsFinite DEF After
<1>2. Page(since) = {s \in A : Cardinality(Below(s)) <= PageSize}
  BY DEF Page
<1>3. \A s \in A : IsFiniteSet(Below(s)) /\ Cardinality(Below(s)) \in Nat
  <2> TAKE s \in A
  <2>1. Below(s) \in SUBSET Seqs
    BY <1>1
  <2> QED
    BY <2>1, SeqsFinite, FS_CardinalityType
<1>4. ASSUME A # {} PROVE Page(since) # {}
  <2>1. IsFiniteSet(A)
    BY <1>1, SeqsFinite
  <2>2. Min(A) \in A /\ \A n \in A : Min(A) <= n
    BY <1>1, <1>4, <2>1, Least
  <2> DEFINE m == Min(A)
  <2> HIDE DEF m
  <2>3. m \in A /\ \A n \in A : m <= n
    BY <2>2 DEF m
  <2>4. Below(m) = {m}
    BY <1>1, <2>3
  <2>5. Cardinality(Below(m)) = 1
    BY <2>4, FS_Singleton
  <2> QED
    BY <1>2, <2>3, <2>5, CatchUpAssumption
<1>5. ASSUME Page(since) # {}
      PROVE  /\ Max(Page(since)) \in Seqs
             /\ \A s \in A : s <= Max(Page(since)) => s \in Page(since)
  <2> DEFINE m == Max(Page(since))
  <2>1. Page(since) \in SUBSET Seqs
    BY <1>1, <1>2
  <2>2. m \in Page(since)
    BY <1>5, <2>1, SeqsFinite, Greatest
  <2> HIDE DEF m
  <2>3. ASSUME NEW s \in A, s <= m PROVE s \in Page(since)
    <3>1. m \in A /\ Cardinality(Below(m)) <= PageSize
      BY <1>2, <2>2
    <3>2. Below(s) \in SUBSET Below(m)
      BY <1>1, <2>3, <3>1
    <3>3. Cardinality(Below(s)) <= Cardinality(Below(m))
      BY <1>3, <3>1, <3>2, FS_Subset
    <3>4. Cardinality(Below(s)) \in Nat /\ Cardinality(Below(m)) \in Nat /\ PageSize \in Nat
      BY <1>3, <2>3, <3>1, CatchUpAssumption
    <3>5. Cardinality(Below(s)) <= PageSize
      BY <3>1, <3>3, <3>4
    <3> QED
      BY <1>2, <2>3, <3>5
  <2> QED
    BY <2>1, <2>2, <2>3 DEF m
<1> QED
  BY <1>1, <1>2, <1>4, <1>5

-----------------------------------------------------------------------------
(* What the invariant gives to every step, and what a step does to a run.  *)

InBox == {inbox[i] : i \in 1..Len(inbox)}

LEMMA Facts ==
  ASSUME TypeInv
  PROVE  /\ taken \in 0..MaxSeq /\ rows \subseteq 1..taken /\ rows \in SUBSET Seqs
         /\ MaxSeq \in Nat /\ gen \in Gens /\ gen \in Nat /\ Gens \subseteq Nat
         /\ lastSeq \in {0} \cup rows /\ lastSeq \in 0..MaxSeq /\ run \in [Gens -> Run]
         /\ \A g \in Gens : run[g] \in Run
         /\ integrated \subseteq rows /\ inbox \in Seq(rows) /\ InBox \subseteq rows
<1>1. /\ taken \in 0..MaxSeq /\ rows \subseteq 1..taken /\ gen \in Gens /\ lastSeq \in {0} \cup rows
      /\ run \in [Gens -> Run] /\ integrated \subseteq rows /\ inbox \in Seq(rows)
  BY DEF TypeInv, TypeOK
<1>2. MaxSeq \in Nat /\ Gens \subseteq Nat
  BY CatchUpAssumption DEF Gens
<1>3. \A s \in rows : s \in Nat /\ 1 <= s /\ s <= MaxSeq
  BY <1>1, <1>2
<1>4. rows \in SUBSET Seqs /\ lastSeq \in 0..MaxSeq
  BY <1>1, <1>2, <1>3 DEF Seqs
<1>5. InBox \subseteq rows
  BY <1>1, ElementOfSeq DEF InBox
<1> QED
  BY <1>1, <1>2, <1>4, <1>5

LEMMA MissedIs ==
  /\ Missed = rows \ (integrated \cup InBox)
  /\ Missed' = rows' \ (integrated' \cup InBox')
BY DEF Missed, InBox

LEMMA BoxAppend ==
  ASSUME NEW S, inbox \in Seq(S), NEW s \in S, inbox' = Append(inbox, s)
  PROVE  InBox' = InBox \cup {s} /\ inbox' \in Seq(S)
<1>1. /\ Len(inbox) \in Nat /\ Len(inbox') = Len(inbox) + 1 /\ inbox' \in Seq(S)
      /\ \A i \in 1..Len(inbox) : inbox'[i] = inbox[i]
      /\ inbox'[Len(inbox) + 1] = s
  OBVIOUS
<1>2. 1..(Len(inbox) + 1) = 1..Len(inbox) \cup {Len(inbox) + 1}
  BY <1>1
<1>3. InBox' = {inbox'[i] : i \in 1..(Len(inbox) + 1)}
  BY <1>1 DEF InBox
<1> QED
  BY <1>1, <1>2, <1>3 DEF InBox

LEMMA BoxTail ==
  ASSUME NEW S, inbox \in Seq(S), inbox # <<>>, inbox' = Tail(inbox)
  PROVE  /\ InBox \subseteq InBox' \cup {Head(inbox)} /\ inbox' \in Seq(S)
         /\ Head(inbox) \in S
<1>1. /\ Head(inbox) = inbox[1] /\ Head(inbox) \in S /\ inbox' \in Seq(S) /\ Len(inbox) \in Nat
      /\ Len(inbox') = Len(inbox) - 1
      /\ \A i \in 1..Len(inbox') : inbox'[i] = inbox[i + 1]
  BY HeadTailProperties
<1>2. ASSUME NEW i \in 1..Len(inbox), i # 1 PROVE inbox[i] \in InBox'
  <2>1. i - 1 \in 1..Len(inbox') /\ (i - 1) + 1 = i
    BY <1>1, <1>2
  <2>2. inbox'[i - 1] = inbox[i]
    BY <1>1, <2>1
  <2> QED
    BY <2>1, <2>2 DEF InBox
<1> QED
  BY <1>1, <1>2 DEF InBox

\* Only the runs of connections that were made are under way.
Reaches(g, k) == /\ run' \in [Gens -> Run] /\ run'[g] = k
                 /\ \A h \in Gens : h # g => run'[h] = run[h]

LEMMA RunStep ==
  ASSUME TypeInv, NEW g \in Gens, NEW k \in Run, run' = [run EXCEPT ![g] = k],
         g = gen \/ run[g].state # "none"
  PROVE  Reaches(g, k) /\ \A h \in Gens : h > gen => run'[h] = Idle
<1>1. Reaches(g, k)
  BY Facts DEF Reaches
<1>2. ~(g > gen)
  <2>1. g > gen => run[g] = Idle
    BY DEF TypeInv, TypeOK
  <2> QED
    BY <2>1, Facts DEF Idle
<1>3. \A h \in Gens : h > gen => run[h] = Idle
  BY DEF TypeInv, TypeOK
<1> QED
  BY <1>1, <1>2, <1>3 DEF Reaches

LEMMA IdleIs == Idle \in Run /\ Idle.state = "none" /\ Idle.rows = {} /\ Idle.batch = {}
BY CatchUpAssumption DEF Idle, Run

LEMMA AskIs ==
  ASSUME NEW r \in Run, NEW since \in 0..MaxSeq
  PROVE  /\ Ask(r, since) \in Run /\ Ask(r, since).state = "sent"
         /\ Ask(r, since).since = since /\ Ask(r, since).rows = {}
         /\ Ask(r, since).batch = r.batch
BY DEF Ask, Run

\* The types are kept by a step that changes the run of one connection to k, or none.
LEMMA TypesKept ==
  ASSUME TypeInv, taken' \in 0..MaxSeq, rows' \subseteq 1..taken', rows \subseteq rows',
         gen' \in Gens, phase' \in Phases, lastSeq' \in {0} \cup rows', lapped' \in BOOLEAN,
         integrated' \subseteq rows', inbox' \in Seq(rows'), gen' >= gen,
         \/ run' = run
         \/ \E g \in Gens, k \in Run :
              /\ run' = [run EXCEPT ![g] = k]
              /\ g = gen \/ run[g].state # "none"
              /\ k.rows \subseteq rows' /\ k.batch \subseteq rows'
  PROVE  TypeInv'
<1>1. \A h \in Gens : run[h].rows \subseteq rows' /\ run[h].batch \subseteq rows'
  BY DEF TypeInv, RunsFromLog
<1>2. \A h \in Gens : h > gen' => h > gen
  BY Facts
<1>3. CASE run' = run
  BY <1>1, <1>2, <1>3, Facts DEF TypeInv, TypeOK, RunsFromLog
<1>4. ASSUME NEW g \in Gens, NEW k \in Run, run' = [run EXCEPT ![g] = k],
             g = gen \/ run[g].state # "none",
             k.rows \subseteq rows', k.batch \subseteq rows'
      PROVE  TypeInv'
  <2>1. Reaches(g, k) /\ \A h \in Gens : h > gen => run'[h] = Idle
    BY <1>4, RunStep
  <2>2. RunsFromLog'
    BY <1>1, <1>4, <2>1 DEF RunsFromLog, Reaches
  <2> QED
    BY <1>2, <2>1, <2>2 DEF TypeInv, TypeOK, Reaches
<1> QED
  BY <1>3, <1>4

\* What is missed does not grow, and what is missed is still due.
LEMMA CoverKept ==
  ASSUME Inv, gen' = gen, phase' = phase, lapped => lapped',
         run'[gen].state # "none" <=> run[gen].state # "none",
         phase \in {"catchUp", "open"} => Missed' \subseteq Missed,
         phase = "catchUp" /\ ~lapped' => \A s \in Missed' : Due(run[gen], s) => Due(run'[gen], s)
  PROVE  CoverInv'
<1> DEFINE k == run'[gen]
<1>1. k = (run[gen])'
  OBVIOUS
<1>2. /\ k.state # "none" <=> phase' \in {"resync", "catchUp"}
      /\ phase' = "open" /\ ~lapped' => Missed' = {}
      /\ phase' = "catchUp" /\ ~lapped' => \A s \in Missed' : Due(k, s)
  BY DEF Inv, CoverInv
<1> HIDE DEF k
<1> QED
  BY <1>1, <1>2 DEF CoverInv, Due

\* The usual case: the log and the connection stay.
LEMMA RunKept ==
  ASSUME TypeInv, UNCHANGED <<taken, rows, gen>>, phase' \in Phases, lastSeq' \in {0} \cup rows,
         integrated' \subseteq rows, inbox' \in Seq(rows), lapped' \in BOOLEAN,
         NEW g \in Gens, NEW k \in Run, run' = [run EXCEPT ![g] = k],
         g = gen \/ run[g].state # "none", k.rows \subseteq rows, k.batch \subseteq rows
  PROVE  TypeInv'
<1>1. /\ taken' \in 0..MaxSeq /\ rows' \subseteq 1..taken' /\ rows \subseteq rows'
      /\ gen' \in Gens /\ gen' >= gen /\ rows' = rows
  BY Facts
<1> QED
  BY <1>1, TypesKept

-----------------------------------------------------------------------------
(* The steps of the relay.                                                 *)

LEMMA TakeStep == ASSUME Inv, Take PROVE Inv'
<1>0. TypeInv
  BY DEF Inv
<1>1. taken' \in 0..MaxSeq /\ rows' \subseteq 1..taken'
  BY <1>0, Facts DEF Take
<1>2. TypeInv'
  BY <1>0, <1>1, Facts, TypesKept DEF Take, log, TypeInv, TypeOK
<1>3. Missed' = Missed
  BY MissedIs DEF Take, InBox
<1>4. CoverInv'
  BY <1>3, CoverKept DEF Take
<1> QED
  BY <1>2, <1>4 DEF Inv

LEMMA CommitStep == ASSUME Inv, NEW s \in Seqs, Commit(s) PROVE Inv'
<1>0. TypeInv
  BY DEF Inv
<1>1. s \in 1..taken /\ rows' = rows \cup {s} /\ rows' \subseteq 1..taken
  BY <1>0, Facts DEF Commit, Seqs
<1>2. inbox \in Seq(rows')
  BY <1>0, <1>1, Facts, SeqMonotonic
<1>3. inbox' \in Seq(rows') /\ InBox' = IF InRoom THEN InBox \cup {s} ELSE InBox
  BY <1>1, <1>2, BoxAppend DEF Commit, InBox
<1>4. TypeInv'
  BY <1>0, <1>1, <1>3, Facts, TypesKept DEF Commit, TypeInv, TypeOK
<1>5. phase \in {"catchUp", "open"} => Missed' \subseteq Missed
  BY <1>1, <1>3, MissedIs DEF InRoom, Commit
<1>6. CoverInv'
  BY <1>5, CoverKept DEF Commit
<1> QED
  BY <1>4, <1>6 DEF Inv

LEMMA ReadPageStep == ASSUME Inv, NEW g \in Gens, ReadPage(g) PROVE Inv'
<1> DEFINE since == run[g].since
           first == Page(since)
           top == IF first = {} THEN run[g].upTo ELSE Max(first)
           k == [run[g] EXCEPT !.state = "read", !.rows = first, !.more = (first # After(since)),
                               !.upTo = top]
<1>0. TypeInv /\ run[g] \in Run /\ run[g].state = "sent" /\ since \in Nat /\ rows \in SUBSET Seqs
  <2>1. TypeInv /\ run[g].state = "sent"
    BY DEF Inv, ReadPage
  <2>2. run[g] \in Run /\ rows \in SUBSET Seqs /\ MaxSeq \in Nat
    BY <2>1, Facts
  <2> QED
    BY <2>1, <2>2 DEF Run
<1>1. /\ first \in SUBSET Seqs /\ first \subseteq After(since)
      /\ first = {} => After(since) = {}
      /\ first # {} => /\ top \in Seqs
                       /\ \A s \in After(since) : s <= top => s \in first
  BY <1>0, PageHasNoHole
<1>a. run' = [run EXCEPT ![g].state = "read", ![g].rows = first,
                       ![g].more = (first # After(since)), ![g].upTo = top]
  BY DEF ReadPage, After, Page
<1> DEFINE more == first # After(since)
<1>3. top \in 0..MaxSeq
  BY <1>0, <1>1, CatchUpAssumption DEF Run, Seqs
<1> HIDE DEF top, first
<1>2. run' = [run EXCEPT ![g] = k]
  BY <1>a
<1>4. /\ k \in Run /\ k.state = "read" /\ k.rows = first /\ k.more = more /\ k.upTo = top
      /\ k.batch = run[g].batch
  BY <1>0, <1>1, <1>3 DEF Run
<1> HIDE DEF k
<1>5. Reaches(g, k)
  BY <1>0, <1>2, <1>4, RunStep
<1>6. k.rows \subseteq rows /\ k.batch \subseteq rows
  BY <1>0, <1>1, <1>4 DEF TypeInv, RunsFromLog, After
<1>7. UNCHANGED <<taken, rows, gen, phase, lastSeq, integrated, inbox, lapped>>
  BY DEF ReadPage, log
<1>8. TypeInv'
  <2>1. /\ phase' \in Phases /\ lastSeq' \in {0} \cup rows /\ integrated' \subseteq rows
        /\ inbox' \in Seq(rows) /\ lapped' \in BOOLEAN
    BY <1>0, <1>7 DEF TypeInv, TypeOK
  <2> QED
    BY <1>0, <1>2, <1>4, <1>6, <1>7, <2>1, RunKept
<1>9. Missed' = Missed
  BY <1>7, MissedIs DEF InBox
<1>10. ASSUME NEW s \in rows, Due(run[g], s) PROVE Due(k, s)
  <2>1. CASE s \in run[g].batch
    BY <1>4, <2>1 DEF Due
  <2>2. CASE s > since
    <3>1. s \in After(since) /\ s \in Nat
      BY <1>0, <2>2 DEF After, Seqs
    <3>2. CASE s \in first
      BY <1>4, <3>2 DEF Due
    <3>3. CASE s \notin first
      <4>1. first # {} /\ more /\ top \in Nat /\ ~(s <= top)
        BY <1>1, <3>1, <3>3 DEF Seqs
      <4>2. k.more
        BY <1>4, <4>1, Zenon
      <4> QED
        BY <1>4, <3>1, <4>1, <4>2 DEF Due
    <3> QED
      BY <3>2, <3>3
  <2> QED
    BY <1>0, <1>10, <2>1, <2>2 DEF Due
<1>11. run'[gen].state # "none" <=> run[gen].state # "none"
  BY <1>0, <1>4, <1>5, Facts DEF Reaches
<1>12. ASSUME NEW s \in Missed', Due(run[gen], s) PROVE Due(run'[gen], s)
  <2>1. s \in rows /\ gen \in Gens
    BY <1>0, <1>9, <1>12, MissedIs, Facts
  <2> QED
    BY <1>5, <1>10, <1>12, <2>1 DEF Reaches
<1>13. CoverInv'
  BY <1>7, <1>9, <1>11, <1>12, CoverKept
<1> QED
  BY <1>8, <1>13 DEF Inv

-----------------------------------------------------------------------------
(* The steps of a catch-up.                                                *)

LEMMA AheadIs ==
  ASSUME TypeInv, NEW s \in rows
  PROVE  Ahead(s) \in {0} \cup rows
BY Facts DEF Ahead

LEMMA ReconnectStep == ASSUME Inv, Reconnect PROVE Inv'
<1> DEFINE k == Ask(Idle, lastSeq)
<1>0. TypeInv /\ gen \in Gens /\ lastSeq \in 0..MaxSeq
  BY Facts DEF Inv
<1>1. k \in Run /\ k.state = "sent" /\ k.rows = {} /\ k.batch = {}
  BY <1>0, AskIs, IdleIs
<1>2. run' = [run EXCEPT ![gen] = k] /\ phase' = "resync"
      /\ UNCHANGED <<taken, rows, gen, lastSeq, integrated, inbox, lapped>>
  BY DEF Reconnect, log
<1> HIDE DEF k
<1>3. Reaches(gen, k)
  BY <1>0, <1>1, <1>2, RunStep
<1>4. TypeInv'
  <2>1. /\ phase' \in Phases /\ lastSeq' \in {0} \cup rows /\ integrated' \subseteq rows
        /\ inbox' \in Seq(rows) /\ lapped' \in BOOLEAN
    BY <1>0, <1>2 DEF TypeInv, TypeOK, Phases
  <2>2. k.rows \subseteq rows /\ k.batch \subseteq rows
    BY <1>1
  <2> QED
    BY <1>0, <1>1, <1>2, <2>1, <2>2, RunKept
<1>5. CoverInv'
  BY <1>1, <1>2, <1>3 DEF CoverInv, Reaches
<1> QED
  BY <1>4, <1>5 DEF Inv

LEMMA ReceiveStep == ASSUME Inv, NEW g \in Gens, Receive(g) PROVE Inv'
<1> DEFINE k == [run[g] EXCEPT !.state = "replay", !.before = lastSeq]
<1>0. TypeInv /\ run[g] \in Run /\ run[g].state = "read" /\ lastSeq \in 0..MaxSeq
  BY Facts DEF Inv, Receive
<1>1. /\ k \in Run /\ k.state = "replay" /\ k.rows = run[g].rows /\ k.batch = run[g].batch
      /\ k.more = run[g].more /\ k.upTo = run[g].upTo
  BY <1>0 DEF Run
<1>2. run' = [run EXCEPT ![g] = k]
      /\ UNCHANGED <<taken, rows, gen, phase, lastSeq, integrated, inbox, lapped>>
  BY DEF Receive, log
<1> HIDE DEF k
<1>3. Reaches(g, k)
  BY <1>0, <1>1, <1>2, RunStep
<1>4. TypeInv'
  <2>1. /\ phase' \in Phases /\ lastSeq' \in {0} \cup rows /\ integrated' \subseteq rows
        /\ inbox' \in Seq(rows) /\ lapped' \in BOOLEAN
    BY <1>0, <1>2 DEF TypeInv, TypeOK
  <2>2. k.rows \subseteq rows /\ k.batch \subseteq rows
    BY <1>0, <1>1 DEF TypeInv, RunsFromLog
  <2> QED
    BY <1>0, <1>1, <1>2, <2>1, <2>2, RunKept
<1>5. Missed' = Missed
  BY <1>2, MissedIs DEF InBox
<1>6. \A s : Due(run[g], s) => Due(k, s)
  BY <1>0, <1>1 DEF Due
<1>7. /\ run'[gen].state # "none" <=> run[gen].state # "none"
      /\ \A s : Due(run[gen], s) => Due(run'[gen], s)
  BY <1>0, <1>1, <1>3, <1>6, Facts DEF Reaches
<1>8. CoverInv'
  BY <1>2, <1>5, <1>7, CoverKept
<1> QED
  BY <1>4, <1>8 DEF Inv

LEMMA ReplayRowStep ==
  ASSUME Inv, NEW g \in Gens, NEW readable \in BOOLEAN, ReplayRow(g, readable)
  PROVE  Inv'
<1> DEFINE s == Min(run[g].rows)
           b == IF readable THEN run[g].batch \cup {s} ELSE run[g].batch
           k == [run[g] EXCEPT !.rows = run[g].rows \ {s}, !.batch = b]
<1>0. TypeInv /\ run[g] \in Run /\ run[g].state = "replay" /\ run[g].rows # {}
      /\ run[g].rows \in SUBSET Seqs /\ run[g].rows \subseteq rows /\ run[g].batch \subseteq rows
      /\ run[g].batch \in SUBSET Seqs
  <2>1. TypeInv /\ run[g].state = "replay" /\ run[g].rows # {}
    BY DEF Inv, ReplayRow
  <2> QED
    BY <2>1, Facts DEF TypeInv, RunsFromLog, Run
<1>1. s \in run[g].rows
  BY <1>0, SeqsFinite, Least
<1>2. run' = [run EXCEPT ![g] = k] /\ lastSeq' = Ahead(s)
      /\ UNCHANGED <<taken, rows, gen, phase, integrated, inbox, lapped>>
  <2>1. run' = [run EXCEPT ![g].rows = run[g].rows \ {s}, ![g].batch = b]
    BY DEF ReplayRow
  <2> HIDE DEF s, b
  <2>2. run' = [run EXCEPT ![g] = k]
    BY <2>1
  <2> QED
    BY <2>2 DEF ReplayRow, log, s
<1>3. /\ b \in SUBSET Seqs /\ b \subseteq rows /\ run[g].batch \subseteq b
      /\ readable => s \in b
  BY <1>0, <1>1
<1> HIDE DEF s, b
<1>4. /\ k \in Run /\ k.state = "replay" /\ k.rows = run[g].rows \ {s} /\ k.batch = b
      /\ k.more = run[g].more /\ k.upTo = run[g].upTo
  BY <1>0, <1>3 DEF Run
<1> HIDE DEF k
<1>5. Reaches(g, k)
  BY <1>0, <1>2, <1>4, RunStep
<1>6. TypeInv'
  <2>1. /\ phase' \in Phases /\ lastSeq' \in {0} \cup rows /\ integrated' \subseteq rows
        /\ inbox' \in Seq(rows) /\ lapped' \in BOOLEAN
    BY <1>0, <1>1, <1>2, AheadIs DEF TypeInv, TypeOK
  <2>2. k.rows \subseteq rows /\ k.batch \subseteq rows
    BY <1>0, <1>3, <1>4
  <2> QED
    BY <1>0, <1>2, <1>4, <2>1, <2>2, RunKept
<1>7. Missed' = Missed
  BY <1>2, MissedIs DEF InBox
<1>8. readable => \A t : Due(run[g], t) => Due(k, t)
  BY <1>0, <1>3, <1>4 DEF Due
<1>9. g = gen /\ phase = "catchUp" => readable
  BY <1>0, Facts DEF ReplayRow
<1>10. /\ run'[gen].state # "none" <=> run[gen].state # "none"
       /\ phase = "catchUp" => \A t : Due(run[gen], t) => Due(run'[gen], t)
  BY <1>0, <1>4, <1>5, <1>8, <1>9, Facts DEF Reaches
<1>11. CoverInv'
  BY <1>2, <1>7, <1>10, CoverKept
<1> QED
  BY <1>6, <1>11 DEF Inv

\* The next page starts where this one ends, unless somebody else moved the cursor.
LEMMA NextPageStep == ASSUME Inv, NEW g \in Gens, NextPage(g) PROVE Inv'
<1> DEFINE k == Ask(run[g], lastSeq)
<1>0. TypeInv /\ run[g] \in Run /\ run[g].state = "replay" /\ run[g].rows = {}
      /\ lastSeq \in 0..MaxSeq /\ gen \in Gens
  BY Facts DEF Inv, NextPage
<1>1. /\ k \in Run /\ k.state = "sent" /\ k.rows = {} /\ k.batch = run[g].batch /\ k.since = lastSeq
  BY <1>0, AskIs
<1>2. run' = [run EXCEPT ![g] = k]
      /\ UNCHANGED <<taken, rows, gen, phase, lastSeq, integrated, inbox>>
      /\ lapped' = (lapped \/ (g = gen /\ lastSeq # run[g].upTo))
  BY DEF NextPage, log
<1> HIDE DEF k
<1>3. Reaches(g, k)
  BY <1>0, <1>1, <1>2, RunStep
<1>l. lapped \in BOOLEAN
  BY <1>0 DEF TypeInv, TypeOK
<1>4. TypeInv'
  <2>1. /\ phase' \in Phases /\ lastSeq' \in {0} \cup rows /\ integrated' \subseteq rows
        /\ inbox' \in Seq(rows) /\ lapped' \in BOOLEAN
    BY <1>0, <1>2 DEF TypeInv, TypeOK
  <2>2. k.rows \subseteq rows /\ k.batch \subseteq rows
    BY <1>0, <1>1 DEF TypeInv, RunsFromLog
  <2> QED
    BY <1>0, <1>1, <1>2, <2>1, <2>2, RunKept
<1>5. Missed' = Missed
  BY <1>2, MissedIs DEF InBox
<1>6. lastSeq = run[g].upTo => \A s : Due(run[g], s) => Due(k, s)
  BY <1>0, <1>1 DEF Due
<1>7. /\ run'[gen].state # "none" <=> run[gen].state # "none"
      /\ ~lapped' => \A s : Due(run[gen], s) => Due(run'[gen], s)
  BY <1>0, <1>1, <1>2, <1>3, <1>6, <1>l DEF Reaches
<1>8. lapped => lapped'
  BY <1>2
<1>9. CoverInv'
  BY <1>2, <1>5, <1>7, <1>8, CoverKept
<1> QED
  BY <1>4, <1>9 DEF Inv

\* The batch is handed over at the end, which is the last page unless somebody else moved
\* the cursor.
LEMMA EndCatchUpStep == ASSUME Inv, NEW g \in Gens, EndCatchUp(g) PROVE Inv'
<1>0. TypeInv /\ run[g] \in Run /\ run[g].state = "replay" /\ run[g].rows = {}
      /\ gen \in Gens /\ gen \in Nat /\ g \in Nat /\ CoverInv /\ lapped \in BOOLEAN
  BY Facts DEF Inv, EndCatchUp, TypeInv, TypeOK
<1>1. run' = [run EXCEPT ![g] = Idle] /\ integrated' = integrated \cup run[g].batch
      /\ UNCHANGED <<taken, rows, gen, lastSeq, inbox>>
      /\ phase' = (IF g < gen THEN phase ELSE IF phase = "resync" THEN "connecting" ELSE "open")
      /\ lapped' = (lapped \/ (g = gen /\ run[g].more))
  BY DEF EndCatchUp, log
<1>2. Reaches(g, Idle)
  BY <1>0, <1>1, IdleIs, RunStep
<1>3. TypeInv'
  <2>1. /\ phase' \in Phases /\ lastSeq' \in {0} \cup rows /\ integrated' \subseteq rows
        /\ inbox' \in Seq(rows) /\ lapped' \in BOOLEAN
    BY <1>0, <1>1 DEF TypeInv, TypeOK, Phases, RunsFromLog
  <2> QED
    BY <1>0, <1>1, <2>1, IdleIs, RunKept
<1>4. Missed' \subseteq Missed /\ \A s \in Missed' : s \notin run[g].batch
  BY <1>1, MissedIs DEF InBox
<1>5. g <= gen
  BY <1>0 DEF TypeInv, TypeOK, Idle
<1>6. CASE g # gen
  <2>1. phase' = phase /\ run'[gen] = run[gen] /\ lapped' = lapped
    BY <1>0, <1>1, <1>2, <1>5, <1>6 DEF Reaches
  <2> QED
    BY <1>1, <1>3, <1>4, <2>1, CoverKept DEF Inv
<1>7. CASE g = gen
  <2>1. phase \in {"resync", "catchUp"}
    BY <1>0, <1>7 DEF CoverInv
  <2>2. phase' = (IF phase = "resync" THEN "connecting" ELSE "open") /\ run'[gen].state = "none"
    BY <1>0, <1>1, <1>2, <1>7, IdleIs DEF Reaches
  <2>3. ASSUME phase = "catchUp", ~lapped' PROVE Missed' = {}
    <3>1. ~lapped /\ ~run[g].more
      BY <1>0, <1>1, <1>7, <2>3
    <3>2. \A s \in Missed : Due(run[g], s)
      BY <1>0, <1>7, <2>3, <3>1 DEF CoverInv
    <3>3. \A s \in Missed : s \in run[g].batch
      BY <1>0, <3>1, <3>2 DEF Due
    <3> QED
      BY <1>4, <3>3
  <2>4. CoverInv'
    BY <1>1, <2>1, <2>2, <2>3 DEF CoverInv
  <2> QED
    BY <1>3, <2>4 DEF Inv
<1> QED
  BY <1>6, <1>7

-----------------------------------------------------------------------------
(* The steps of the socket.                                                *)

LEMMA JoinStep == ASSUME Inv, Join PROVE Inv'
<1>0. TypeInv /\ run' = run /\ phase' = "rekey" /\ phase = "connecting"
      /\ UNCHANGED <<taken, rows, gen, lastSeq, integrated, inbox, lapped>>
  BY DEF Inv, Join, log
<1>1. TypeInv'
  BY <1>0 DEF TypeInv, TypeOK, RunsFromLog, Phases
<1>2. CoverInv'
  BY <1>0 DEF Inv, CoverInv
<1> QED
  BY <1>1, <1>2 DEF Inv

\* The replay starts over: every row is due.
LEMMA RenewedStep == ASSUME Inv, Renewed PROVE Inv'
<1> DEFINE k == Ask(Idle, 0)
<1>0. TypeInv /\ gen \in Gens /\ 0 \in 0..MaxSeq /\ rows \in SUBSET Seqs
  BY Facts, CatchUpAssumption DEF Inv
<1>1. k \in Run /\ k.state = "sent" /\ k.rows = {} /\ k.batch = {} /\ k.since = 0
  BY <1>0, AskIs, IdleIs
<1>2. run' = [run EXCEPT ![gen] = k] /\ phase' = "catchUp" /\ lastSeq' = 0 /\ lapped' = FALSE
      /\ UNCHANGED <<taken, rows, gen, integrated, inbox>>
  BY DEF Renewed, log
<1> HIDE DEF k
<1>3. Reaches(gen, k)
  BY <1>0, <1>1, <1>2, RunStep
<1>4. TypeInv'
  <2>1. /\ phase' \in Phases /\ lastSeq' \in {0} \cup rows /\ integrated' \subseteq rows
        /\ inbox' \in Seq(rows) /\ lapped' \in BOOLEAN
    BY <1>0, <1>2 DEF TypeInv, TypeOK, Phases
  <2>2. k.rows \subseteq rows /\ k.batch \subseteq rows
    BY <1>1
  <2> QED
    BY <1>0, <1>1, <1>2, <2>1, <2>2, RunKept
<1>5. \A s \in rows : Due(k, s)
  BY <1>0, <1>1, CatchUpAssumption DEF Due, Seqs
<1>6. \A s \in Missed' : Due(run'[gen], s)
  BY <1>0, <1>2, <1>3, <1>5, MissedIs DEF Reaches
<1>7. CoverInv'
  <2>1. run'[gen] = (run[gen])' /\ run'[gen].state # "none"
    BY <1>0, <1>1, <1>2, <1>3 DEF Reaches
  <2>2. \A s \in Missed' : Due(run[gen], s)'
    BY <1>2, <1>6 DEF Due
  <2> QED
    BY <1>2, <2>1, <2>2 DEF CoverInv
<1> QED
  BY <1>4, <1>7 DEF Inv

\* A live update that cannot be read is one that the replay to come will bring.
LEMMA LiveStep == ASSUME Inv, NEW readable \in BOOLEAN, Live(readable) PROVE Inv'
<1>a. TypeInv /\ inbox \in Seq(rows) /\ inbox # <<>> /\ inbox' = Tail(inbox)
  BY Facts DEF Inv, Live
<1>b. UNCHANGED <<taken, rows, gen, phase, run, lapped>>
  BY DEF Live, log
<1>1. /\ InBox \subseteq InBox' \cup {Head(inbox)} /\ inbox' \in Seq(rows) /\ Head(inbox) \in rows
  BY <1>a, BoxTail
<1>2. integrated' = (IF readable THEN integrated \cup {Head(inbox)} ELSE integrated)
      /\ lastSeq' = Ahead(Head(inbox))
  BY DEF Live
<1>3. TypeInv'
  <2>1. lastSeq' \in {0} \cup rows /\ integrated' \subseteq rows
    BY <1>a, <1>1, <1>2, AheadIs DEF TypeInv, TypeOK
  <2> QED
    BY <1>a, <1>b, <1>1, <2>1 DEF TypeInv, TypeOK, RunsFromLog
<1>4. phase \in {"catchUp", "open"} => Missed' \subseteq Missed
  BY <1>b, <1>1, <1>2, MissedIs DEF Live
<1>5. CoverInv'
  BY <1>b, <1>4, CoverKept
<1> QED
  BY <1>3, <1>5 DEF Inv

LEMMA BreakStep == ASSUME Inv, Break PROVE Inv'
<1>0. TypeInv /\ gen' = gen + 1 /\ phase' = "closed" /\ inbox' = <<>> /\ gen < MaxFaults
      /\ UNCHANGED <<taken, rows, lastSeq, run, integrated, lapped>>
  BY DEF Inv, Break, log
<1>1. gen \in Gens /\ gen' \in Gens /\ gen \in Nat /\ gen' >= gen /\ gen' > gen
  BY <1>0, Facts, CatchUpAssumption DEF Gens
<1>2. inbox' \in Seq(rows')
  BY <1>0
<1>3. TypeInv'
  <2>1. \A h \in Gens : h > gen' => h > gen
    BY <1>0, <1>1, Facts
  <2> QED
    BY <1>0, <1>1, <1>2, <2>1 DEF TypeInv, TypeOK, RunsFromLog, Phases
<1>4. run'[gen'] = Idle
  BY <1>0, <1>1 DEF TypeInv, TypeOK
<1>5. CoverInv'
  BY <1>0, <1>4, IdleIs DEF CoverInv
<1> QED
  BY <1>3, <1>5 DEF Inv

LEMMA FailResyncStep == ASSUME Inv, FailResync PROVE Inv'
<1>0. TypeInv /\ gen \in Gens /\ run' = [run EXCEPT ![gen] = Idle] /\ phase' = "connecting"
      /\ UNCHANGED <<taken, rows, gen, lastSeq, integrated, inbox, lapped>>
  BY Facts DEF Inv, FailResync, log
<1>1. Reaches(gen, Idle)
  BY <1>0, IdleIs, RunStep
<1>2. TypeInv'
  <2>1. /\ phase' \in Phases /\ lastSeq' \in {0} \cup rows /\ integrated' \subseteq rows
        /\ inbox' \in Seq(rows) /\ lapped' \in BOOLEAN
    BY <1>0 DEF TypeInv, TypeOK, Phases
  <2> QED
    BY <1>0, <2>1, IdleIs, RunKept
<1>3. CoverInv'
  BY <1>0, <1>1, IdleIs DEF CoverInv, Reaches
<1> QED
  BY <1>2, <1>3 DEF Inv

-----------------------------------------------------------------------------
(* The theorems.                                                           *)

LEMMA InvInit == Init => Inv
<1> SUFFICES ASSUME Init PROVE Inv
  OBVIOUS
<1>1. TypeOK
  <2>1. taken \in 0..MaxSeq /\ rows \subseteq 1..taken /\ gen \in Gens /\ phase \in Phases
    BY CatchUpAssumption DEF Init, Phases, Gens
  <2>2. run \in [Gens -> Run] /\ \A g \in Gens : run[g] = Idle
    BY IdleIs DEF Init
  <2>3. inbox \in Seq(rows) /\ lastSeq \in {0} \cup rows /\ integrated \subseteq rows
        /\ lapped \in BOOLEAN
    BY EmptySeq DEF Init
  <2> QED
    BY <2>1, <2>2, <2>3 DEF TypeOK
<1>2. RunsFromLog
  BY IdleIs DEF Init, RunsFromLog
<1>3. CoverInv
  BY CatchUpAssumption, IdleIs DEF Init, CoverInv, Gens
<1> QED
  BY <1>1, <1>2, <1>3 DEF Inv, TypeInv

LEMMA InvStep == Inv /\ [Next]_vars => Inv'
<1> SUFFICES ASSUME Inv, [Next]_vars PROVE Inv'
  OBVIOUS
<1>1. CASE UNCHANGED vars
  <2>1. UNCHANGED <<taken, rows, gen, phase, lastSeq, run, integrated, inbox, lapped>>
    BY <1>1 DEF vars
  <2>2. TypeInv'
    BY <2>1 DEF Inv, TypeInv, TypeOK, RunsFromLog
  <2>3. CoverInv'
    BY <2>1 DEF Inv, CoverInv, Missed, Due
  <2> QED
    BY <2>2, <2>3 DEF Inv
<1> QED
  BY <1>1, TakeStep, CommitStep, ReadPageStep, ReconnectStep, JoinStep, RenewedStep, LiveStep,
     ReceiveStep, NextPageStep, EndCatchUpStep, ReplayRowStep, BreakStep, FailResyncStep
     DEF Next, ChannelStep

LEMMA Invariant == Spec => []Inv
  BY InvInit, InvStep, PTL DEF Spec

\* The cursor and the editor never run ahead of the log, and what a catch-up holds is of
\* the log (collab.ts:95-125).
THEOREM TypeCorrect == Spec => []TypeOK
<1>1. Inv => TypeOK
  BY DEF Inv, TypeInv
<1> QED
  BY <1>1, Invariant, PTL

\* A channel that has finished its catch-up misses no committed row, unless somebody else
\* moved its cursor between two of its own pages: rows that commit late, updates that came
\* under a key not yet renewed and catch-ups left behind by broken sockets lose nothing
\* (collab.ts:95-125, 200-260), for a log of any length and pages of any size.
THEOREM NoGapCorrect == Spec => []NoGapUnlessLapped
<1>1. Inv => NoGapUnlessLapped
  BY DEF Inv, CoverInv, NoGapUnlessLapped
<1> QED
  BY <1>1, Invariant, PTL
=============================================================================
