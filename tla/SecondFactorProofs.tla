------------------------- MODULE SecondFactorProofs -------------------------
(***************************************************************************)
(* Proofs about SecondFactor for any number of requests at once, of        *)
(* enrolments, of codes in a batch and of attempts before the lock, with   *)
(* requests that die after any of their statements.                        *)
(***************************************************************************)
EXTENDS SecondFactor, TLAPS

\* What the place of a request says of it: who makes codes, who has matched a TOTP
\* code, and which statements each kind of request reaches.
Shape ==
  \A r \in Requests : call[r] # None =>
    /\ call[r].kind \in {"enable", "regenerate"} <=> call[r].batch # None
    /\ call[r].pc = "consume" => call[r].code # None
    /\ call[r].pc \in {"check", "consume", "reset", "off"} => call[r].kind # "enable"
    /\ call[r].pc = "off" => call[r].kind = "disable"
    /\ call[r].pc = "delete" => call[r].kind # "login"
    /\ call[r].pc \in {"insert", "on", "answer"} => call[r].batch # None
    /\ call[r].pc = "on" => call[r].kind = "enable"
    /\ call[r].pc \notin {"insert", "on", "answer"} => call[r].next = 1

TypeInv == TypeOK /\ Shape

-----------------------------------------------------------------------------
(* What a statement does to the requests.                                  *)

Places == {"check", "consume", "reset", "off", "delete", "insert", "on", "answer"}

Others(r) == \A q \in Requests : q # r => call'[q] = call[q]

\* The request is at another place; nothing else about it has changed.
Moved(r, pc) ==
  /\ call' \in [Requests -> Call \cup {None}] /\ call'[r] # None /\ Others(r)
  /\ call'[r].pc = pc /\ call'[r].kind = call[r].kind /\ call'[r].batch = call[r].batch
  /\ call'[r].next = call[r].next /\ call'[r].code = call[r].code

Ended(r) == call' \in [Requests -> Call \cup {None}] /\ call'[r] = None /\ Others(r)

LEMMA CallTypes ==
  ASSUME TypeOK
  PROVE  /\ call \in [Requests -> Call \cup {None}]
         /\ \A r \in Requests : call[r] # None => call[r] \in Call
         /\ None \notin Call
  BY SecondFactorAssumption DEF TypeOK

LEMMA Moves ==
  ASSUME TypeOK, NEW r \in Requests, call[r] # None, NEW pc \in Places, Goto(r, pc)
  PROVE  Moved(r, pc)
<1> DEFINE k == [call[r] EXCEPT !.pc = pc]
<1>1. /\ k \in Call /\ k.pc = pc /\ k.kind = call[r].kind /\ k.batch = call[r].batch
      /\ k.next = call[r].next /\ k.code = call[r].code
  BY CallTypes DEF Call, Places
<1>2. call' = [call EXCEPT ![r] = k]
  BY DEF Goto
<1> HIDE DEF k
<1> QED
  BY <1>1, <1>2, CallTypes DEF Moved, Others

LEMMA Ends ==
  ASSUME TypeOK, NEW r \in Requests, End(r)
  PROVE  Ended(r)
  BY CallTypes DEF End, Ended, Others

\* A request that begins is the newest, and so is its batch if it makes one.
LEMMA Begins ==
  ASSUME TypeOK, NEW r \in Requests, NEW kind \in {"enable", "disable", "regenerate", "login"},
         NEW pc \in Places, Begin(r, kind, pc)
  PROVE  /\ call[r] = None /\ call' \in [Requests -> Call \cup {None}] /\ call'[r] # None
         /\ Others(r) /\ call'[r].kind = kind /\ call'[r].pc = pc /\ call'[r].next = 1
         /\ call'[r].code = None
         /\ IF kind \in {"enable", "regenerate"}
              THEN /\ call'[r].batch = past.batches + 1 /\ past.batches + 1 \in Batch
                   /\ past'.batches = past.batches + 1
              ELSE call'[r].batch = None /\ past'.batches = past.batches
<1> DEFINE b == IF kind \in {"enable", "regenerate"} THEN past.batches + 1 ELSE None
           k == [kind |-> kind, pc |-> pc, code |-> None, next |-> 1, batch |-> b]
<1>1. /\ call[r] = None /\ call' = [call EXCEPT ![r] = k]
      /\ kind \in {"enable", "regenerate"} => past.batches + 1 \in Batch
      /\ past'.batches = IF kind \in {"enable", "regenerate"} THEN past.batches + 1 ELSE past.batches
  BY DEF Begin, TypeOK
<1>2. 1 \in 1..BatchSize /\ b \in Batch \cup {None}
  BY <1>1, SecondFactorAssumption
<1>3. /\ k \in Call /\ k.kind = kind /\ k.pc = pc /\ k.code = None /\ k.next = 1 /\ k.batch = b
  BY <1>2 DEF Call, Places
<1> HIDE DEF k
<1> QED
  BY <1>1, <1>3, CallTypes DEF Others

-----------------------------------------------------------------------------
(* Type correctness.                                                       *)

User == [enabled : BOOLEAN, secret : Secret \cup {None}, pending : Secret \cup {None},
         last : Step \cup {None}, failed : 0..MaxFailures]
Past == [secrets : 0..MaxSecrets, confirmed : SUBSET Secret,
         batches : 0..MaxBatches, shown : SUBSET Batch,
         accepted : SUBSET (Totp \cup Backup), replayed : SUBSET (Totp \cup Backup),
         crossed : BOOLEAN, halfway : BOOLEAN]

LEMMA TypeParts ==
  TypeOK <=> /\ user \in User /\ codes \subseteq Backup /\ clock \in Step
             /\ call \in [Requests -> Call \cup {None}] /\ past \in Past
  BY DEF TypeOK, User, Past

\* Beginning leaves a typed history behind.
LEMMA BeginPast ==
  ASSUME TypeOK, NEW r \in Requests, NEW kind \in {"enable", "disable", "regenerate", "login"},
         NEW pc \in Places, Begin(r, kind, pc), kind = "enable" => user.pending # None
  PROVE  /\ past' \in Past
         /\ past'.shown = past.shown /\ past'.accepted = past.accepted
         /\ past'.replayed = past.replayed /\ past'.halfway = past.halfway
         /\ past'.crossed = (IF kind = "login" THEN past.crossed ELSE Crossed)
         /\ past'.confirmed = IF kind = "enable" THEN past.confirmed \cup {user.pending}
                              ELSE past.confirmed
<1> DEFINE x == IF kind = "login" THEN past.crossed ELSE Crossed
           n == IF kind \in {"enable", "regenerate"} THEN past.batches + 1 ELSE past.batches
           y == IF kind = "enable" THEN past.confirmed \cup {user.pending} ELSE past.confirmed
<1>1. past' = [past EXCEPT !.crossed = x, !.batches = n, !.confirmed = y]
  BY DEF Begin
<1>2. past \in Past /\ user \in User
  BY TypeParts
<1>3. x \in BOOLEAN
  BY <1>2 DEF Past, Crossed
<1>4. n \in 0..MaxBatches
  <2>1. past.batches \in 0..MaxBatches
    BY <1>2 DEF Past
  <2>2. kind \in {"enable", "regenerate"} => past.batches + 1 \in Batch
    BY DEF Begin
  <2> QED
    BY <2>1, <2>2, SecondFactorAssumption DEF Batch
<1>5. y \in SUBSET Secret
  BY <1>2 DEF Past, User
<1> HIDE DEF x, n, y
<1>6. /\ past' \in Past /\ past'.shown = past.shown /\ past'.accepted = past.accepted
      /\ past'.replayed = past.replayed /\ past'.halfway = past.halfway
      /\ past'.crossed = x /\ past'.confirmed = y
  BY <1>1, <1>2, <1>3, <1>4, <1>5 DEF Past
<1> QED
  BY <1>6 DEF x, y

\* Accepting a code writes it down and goes on to reset the counter.
LEMMA Accepts ==
  ASSUME TypeOK, NEW r \in Requests, NEW c \in Totp \cup Backup, call[r] # None, Accept(r, c)
  PROVE  /\ Moved(r, "reset") /\ past' \in Past
         /\ past'.accepted = past.accepted \cup {c}
         /\ past'.replayed = past.replayed \cup ({c} \cap past.accepted)
         /\ past'.shown = past.shown /\ past'.batches = past.batches
         /\ past'.halfway = past.halfway /\ past'.crossed = past.crossed
         /\ past'.confirmed = past.confirmed
<1>1. Moved(r, "reset")
  BY Moves DEF Accept, Places
<1>2. past \in Past
  BY TypeParts
<1>3. past' = [past EXCEPT !.accepted = past.accepted \cup {c},
                           !.replayed = past.replayed \cup ({c} \cap past.accepted)]
  BY DEF Accept
<1>4. /\ past.accepted \cup {c} \in SUBSET (Totp \cup Backup)
      /\ past.replayed \cup ({c} \cap past.accepted) \in SUBSET (Totp \cup Backup)
  BY <1>2 DEF Past
<1> QED
  BY <1>1, <1>2, <1>3, <1>4 DEF Past

LEMMA TypeInit == Init => TypeInv
<1> SUFFICES ASSUME Init PROVE TypeInv
  OBVIOUS
<1>1. user \in User /\ past \in Past
  BY SecondFactorAssumption DEF Init, User, Past
<1>2. clock \in Step
  BY SecondFactorAssumption DEF Init, Step
<1> QED
  BY <1>1, <1>2, TypeParts DEF Init, TypeInv, Shape

LEMMA TypeStep == TypeInv /\ [Next]_vars => TypeInv'
<1> SUFFICES ASSUME TypeInv, [Next]_vars PROVE TypeInv'
  OBVIOUS
<1>0. /\ TypeOK /\ Shape /\ user \in User /\ past \in Past /\ codes \subseteq Backup
      /\ clock \in Step
      /\ call \in [Requests -> Call \cup {None}]
      /\ \A r \in Requests : call[r] # None => call[r] \in Call
  BY TypeParts, CallTypes DEF TypeInv
<1>t. ASSUME user' \in User, past' \in Past, codes' \subseteq Backup, clock' \in Step,
             call' \in [Requests -> Call \cup {None}]
      PROVE  TypeOK'
  BY <1>t DEF TypeOK, User, Past
<1>s. ASSUME NEW r \in Requests, Others(r), call'[r] = None PROVE Shape'
  BY <1>0, <1>s DEF Shape, Others
<1>1. ASSUME Setup PROVE TypeInv'
  <2>1. user' = [user EXCEPT !.pending = past.secrets + 1] /\ past.secrets + 1 \in Secret
    BY <1>0, <1>1, SecondFactorAssumption DEF Setup, Past, Secret
  <2>2. user' \in User
    BY <1>0, <2>1 DEF User
  <2>3. past' = [past EXCEPT !.secrets = past.secrets + 1, !.crossed = Crossed]
    BY <1>1 DEF Setup
  <2>4. Crossed \in BOOLEAN
    BY <1>0 DEF Past, Crossed
  <2>5. past.secrets + 1 \in 0..MaxSecrets
    BY <2>1, SecondFactorAssumption DEF Secret
  <2>6. past' \in Past
    BY <1>0, <2>3, <2>4, <2>5 DEF Past
  <2> QED
    BY <1>0, <1>1, <1>t, <2>2, <2>6 DEF Setup, TypeInv, Shape
<1>2. ASSUME ResetOwnerAccess PROVE TypeInv'
  <2>1. user' \in User
    BY <1>0, <1>2 DEF ResetOwnerAccess, User
  <2>2. Crossed \in BOOLEAN
    BY <1>0 DEF Past, Crossed
  <2>3. past' \in Past
    BY <1>0, <1>2, <2>2 DEF ResetOwnerAccess, Past
  <2> QED
    BY <1>0, <1>2, <1>t, <2>1, <2>3 DEF ResetOwnerAccess, TypeInv, Shape
<1>3. ASSUME Tick \/ LockEnds PROVE TypeInv'
  <2>1. clock' \in Step
    BY <1>0, <1>3, SecondFactorAssumption DEF Tick, LockEnds, Step
  <2>2. user' \in User
    BY <1>0, <1>3, SecondFactorAssumption DEF Tick, LockEnds, User
  <2> QED
    BY <1>0, <1>3, <1>t, <2>1, <2>2 DEF Tick, LockEnds, TypeInv, Shape
<1>b. ASSUME NEW r \in Requests, NEW kind \in {"enable", "disable", "regenerate", "login"},
             NEW pc \in {"check", "delete"}, Begin(r, kind, pc),
             kind = "enable" => user.pending # None /\ pc = "delete",
             pc = "delete" => kind = "enable",
             user' \in User, UNCHANGED <<codes, clock>>
      PROVE  TypeInv'
  <2>1. /\ call[r] = None /\ call' \in [Requests -> Call \cup {None}] /\ call'[r] # None
        /\ Others(r) /\ call'[r].kind = kind /\ call'[r].pc = pc /\ call'[r].next = 1
        /\ call'[r].code = None
        /\ IF kind \in {"enable", "regenerate"}
             THEN call'[r].batch = past.batches + 1 /\ past.batches + 1 \in Batch
             ELSE call'[r].batch = None
    BY <1>0, <1>b, Begins DEF Places
  <2>2. past' \in Past
    BY <1>0, <1>b, BeginPast DEF Places
  <2>3. Shape'
    BY <1>0, <1>b, <2>1, SecondFactorAssumption DEF Shape, Others
  <2> QED
    BY <1>0, <1>b, <1>t, <2>1, <2>2, <2>3 DEF TypeInv
<1>4. ASSUME NEW r \in Requests, ReadPending(r) PROVE TypeInv'
  BY <1>0, <1>4, <1>b DEF ReadPending
<1>5. ASSUME NEW r \in Requests, ReserveAttempt(r) PROVE TypeInv'
  <2>1. user' \in User
    BY <1>0, <1>5, SecondFactorAssumption DEF ReserveAttempt, Locked, User
  <2>2. PICK kind \in {"disable", "regenerate", "login"} : Begin(r, kind, "check")
    BY <1>5 DEF ReserveAttempt
  <2> QED
    BY <1>5, <1>b, <2>1, <2>2 DEF ReserveAttempt
<1>6. ASSUME NEW r \in Requests, CheckTotp(r) PROVE TypeInv'
  <2>1. PICK c \in Totp : call' = [call EXCEPT ![r].pc = "consume", ![r].code = c]
    BY <1>6 DEF CheckTotp
  <2> DEFINE k == [call[r] EXCEPT !.pc = "consume", !.code = c]
  <2>2. /\ k \in Call /\ k.pc = "consume" /\ k.code = c /\ k.kind = call[r].kind
        /\ k.batch = call[r].batch /\ k.next = call[r].next
    BY <1>0, <1>6 DEF CheckTotp, At, Call
  <2>3. call' = [call EXCEPT ![r] = k]
    BY <2>1
  <2> HIDE DEF k
  <2>4. call' \in [Requests -> Call \cup {None}] /\ call'[r] = k /\ Others(r) /\ c # None
    BY <1>0, <2>2, <2>3, SecondFactorAssumption DEF Others
  <2>5. /\ call[r] # None /\ call[r].pc = "check"
        /\ call[r].kind \in {"enable", "regenerate"} <=> call[r].batch # None
        /\ call[r].kind # "enable" /\ call[r].next = 1
    BY <1>0, <1>6 DEF CheckTotp, At, Shape
  <2>6. /\ k # None => /\ k.kind \in {"enable", "regenerate"} <=> k.batch # None
                      /\ k.code # None /\ k.kind # "enable" /\ k.next = 1
        /\ k.pc = "consume"
    BY <2>2, <2>4, <2>5
  <2>7. Shape'
    BY <1>0, <2>4, <2>6 DEF Shape, Others
  <2> QED
    BY <1>0, <1>6, <1>t, <2>4, <2>7 DEF CheckTotp, TypeInv
<1>7. ASSUME NEW r \in Requests, Consume(r) PROVE TypeInv'
  <2>1. call[r] # None /\ call[r].pc = "consume" /\ call[r].code \in Totp
    BY <1>0, <1>7 DEF Consume, At, Shape, Call
  <2>2. CASE End(r) /\ UNCHANGED <<user, past>>
    BY <1>0, <1>7, <1>s, <1>t, <2>2, Ends DEF Ended, Consume, TypeInv
  <2>3. CASE user' = [user EXCEPT !.last = call[r].code.t] /\ Accept(r, call[r].code)
    <3>1. call[r].code.t \in Step
      BY <2>1 DEF Totp
    <3>2. user' \in User
      BY <1>0, <2>3, <3>1 DEF User
    <3>3. Moved(r, "reset") /\ past' \in Past
      BY <1>0, <2>1, <2>3, Accepts
    <3>4. Shape'
      BY <1>0, <2>1, <3>3 DEF Shape, Moved, Others
    <3> QED
      BY <1>0, <1>7, <1>t, <3>2, <3>3, <3>4 DEF Consume, Moved, TypeInv
  <2> QED
    BY <1>7, <2>2, <2>3 DEF Consume
<1>8. ASSUME NEW r \in Requests, BurnBackup(r) PROVE TypeInv'
  <2>1. PICK c \in codes : codes' = codes \ {c} /\ Accept(r, c)
    BY <1>8 DEF BurnBackup
  <2>2. call[r] # None /\ call[r].pc = "check" /\ UNCHANGED <<user, clock>>
    BY <1>8 DEF BurnBackup, At
  <2>3. Moved(r, "reset") /\ past' \in Past
    BY <1>0, <2>1, <2>2, Accepts
  <2>4. Shape'
    BY <1>0, <2>2, <2>3 DEF Shape, Moved, Others
  <2> QED
    BY <1>0, <1>t, <2>1, <2>2, <2>3, <2>4 DEF Moved, TypeInv
<1>9. ASSUME NEW r \in Requests, RefuseCode(r) PROVE TypeInv'
  BY <1>0, <1>9, <1>s, <1>t, Ends DEF Ended, RefuseCode, TypeInv
<1>10. ASSUME NEW r \in Requests, ResetAttempts(r) PROVE TypeInv'
  <2>1. call[r] # None /\ call[r].pc = "reset" /\ UNCHANGED <<codes, clock, past>>
    BY <1>10 DEF ResetAttempts, At
  <2>2. user' \in User
    BY <1>0, <1>10, SecondFactorAssumption DEF ResetAttempts, User
  <2>3. call[r].kind \in {"login", "disable", "regenerate"}
    BY <1>0, <2>1 DEF Shape, Call
  <2>4. \/ End(r)
        \/ call[r].kind = "disable" /\ Goto(r, "off")
        \/ call[r].kind = "regenerate" /\ Goto(r, "delete")
    BY <1>10, <2>3 DEF ResetAttempts
  <2>5. \/ Ended(r)
        \/ call[r].kind = "disable" /\ Moved(r, "off")
        \/ call[r].kind = "regenerate" /\ Moved(r, "delete")
    <3>1. {"off", "delete"} \subseteq Places
      BY DEF Places
    <3>2. Goto(r, "off") => Moved(r, "off")
      BY <1>0, <2>1, <3>1, Moves
    <3>3. Goto(r, "delete") => Moved(r, "delete")
      BY <1>0, <2>1, <3>1, Moves
    <3>4. End(r) => Ended(r)
      BY <1>0, Ends
    <3> QED
      BY <2>4, <3>2, <3>3, <3>4
  <2>6. Shape'
    BY <1>0, <1>s, <2>1, <2>5 DEF Shape, Moved, Ended, Others
  <2> QED
    BY <1>0, <1>t, <2>1, <2>2, <2>5, <2>6 DEF Moved, Ended, TypeInv
<1>11. ASSUME NEW r \in Requests, Off(r) PROVE TypeInv'
  <2>1. user' \in User
    BY <1>0, <1>11 DEF Off, User
  <2>2. Moved(r, "delete") /\ call[r] # None /\ call[r].pc = "off"
    BY <1>0, <1>11, Moves DEF Off, At, Places
  <2>3. Shape'
    BY <1>0, <2>2 DEF Shape, Moved, Others
  <2> QED
    BY <1>0, <1>11, <1>t, <2>1, <2>2, <2>3 DEF Off, Moved, TypeInv
<1>12. ASSUME NEW r \in Requests, DeleteCodes(r) PROVE TypeInv'
  <2>1. call[r] # None /\ call[r].pc = "delete" /\ codes' = {} /\ UNCHANGED <<user, clock, past>>
    BY <1>12 DEF DeleteCodes, At
  <2>2. Ended(r) \/ (Moved(r, "insert") /\ call[r].kind # "disable")
    BY <1>0, <1>12, <2>1, Ends, Moves DEF DeleteCodes, Places
  <2>3. Shape'
    BY <1>0, <1>s, <2>1, <2>2 DEF Shape, Moved, Ended, Others, Call
  <2> QED
    BY <1>0, <1>t, <2>1, <2>2, <2>3 DEF Moved, Ended, TypeInv
<1>13. ASSUME NEW r \in Requests, InsertCode(r) PROVE TypeInv'
  <2>1. call[r] # None /\ call[r].pc = "insert" /\ UNCHANGED <<user, clock, past>>
        /\ call[r].next \in 1..BatchSize /\ call[r].batch \in Batch
    BY <1>0, <1>13 DEF InsertCode, At, Shape, Call
  <2>2. codes' \subseteq Backup
    BY <1>0, <1>13, <2>1 DEF InsertCode, Backup
  <2>3. CASE call[r].next < BatchSize /\ call' = [call EXCEPT ![r].next = call[r].next + 1]
    <3> DEFINE k == [call[r] EXCEPT !.next = call[r].next + 1]
    <3>0. call[r].next + 1 \in 1..BatchSize
      BY <2>1, <2>3, SecondFactorAssumption
    <3>1. k \in Call /\ k.pc = call[r].pc /\ k.kind = call[r].kind /\ k.batch = call[r].batch
      BY <1>0, <2>1, <3>0 DEF Call
    <3>2. call' = [call EXCEPT ![r] = k]
      BY <2>3
    <3> HIDE DEF k
    <3>3. call' \in [Requests -> Call \cup {None}] /\ call'[r] = k /\ Others(r)
      BY <1>0, <3>1, <3>2 DEF Others
    <3>4. Shape'
      BY <1>0, <2>1, <3>1, <3>3 DEF Shape, Others
    <3> QED
      BY <1>0, <1>t, <2>1, <2>2, <3>3, <3>4 DEF TypeInv
  <2>4. CASE \/ call[r].kind = "enable" /\ Goto(r, "on")
             \/ call[r].kind # "enable" /\ Goto(r, "answer")
    <3>1. \/ call[r].kind = "enable" /\ Moved(r, "on")
          \/ call[r].kind # "enable" /\ Moved(r, "answer")
      BY <1>0, <2>1, <2>4, Moves DEF Places
    <3>2. Shape'
      BY <1>0, <2>1, <3>1 DEF Shape, Moved, Others
    <3> QED
      BY <1>0, <1>t, <2>1, <2>2, <3>1, <3>2 DEF Moved, TypeInv
  <2> QED
    BY <1>13, <2>3, <2>4 DEF InsertCode
<1>14. ASSUME NEW r \in Requests, On(r) PROVE TypeInv'
  <2>1. user' \in User
    BY <1>0, <1>14 DEF On, User
  <2>2. Moved(r, "answer") /\ call[r] # None /\ call[r].pc = "on"
    BY <1>0, <1>14, Moves DEF On, At, Places
  <2>3. Shape'
    BY <1>0, <2>2 DEF Shape, Moved, Others
  <2> QED
    BY <1>0, <1>14, <1>t, <2>1, <2>2, <2>3 DEF On, Moved, TypeInv
<1>15. ASSUME NEW r \in Requests, Answer(r) PROVE TypeInv'
  <2>1. Ended(r) /\ call[r].batch \in Batch
    BY <1>0, <1>15, Ends DEF Answer, At, Shape, Call
  <2>2. past' \in Past
    BY <1>0, <1>15, <2>1 DEF Answer, Past
  <2> QED
    BY <1>0, <1>15, <1>s, <1>t, <2>1, <2>2 DEF Answer, Ended, TypeInv
<1>16. ASSUME NEW r \in Requests, Die(r) PROVE TypeInv'
  <2>1. Ended(r)
    BY <1>0, <1>16, Ends DEF Die
  <2>2. past' \in Past
    <3>1. (past.halfway \/ call[r].pc \in {"insert", "on", "answer"}) \in BOOLEAN
      BY <1>0 DEF Past
    <3> QED
      BY <1>0, <1>16, <3>1, ZenonT(60) DEF Die, Past
  <2> QED
    BY <1>0, <1>16, <1>s, <1>t, <2>1, <2>2 DEF Die, Ended, TypeInv
<1>17. CASE UNCHANGED vars
  BY <1>0, <1>17, <1>t DEF vars, TypeInv, Shape
<1> QED
  BY <1>1, <1>2, <1>3, <1>4, <1>5, <1>6, <1>7, <1>8, <1>9, <1>10, <1>11, <1>12, <1>13, <1>14,
     <1>15, <1>16, <1>17 DEF Next

LEMMA TypeInvariant == Spec => []TypeInv
  BY TypeInit, TypeStep, PTL DEF Spec

\* Type correctness of the columns, the backup codes and the requests
\* (second-factor.ts, totp.ts, auth.ts:555-643).
THEOREM TypeCorrect == Spec => []TypeOK
<1>1. TypeInv => TypeOK
  BY DEF TypeInv
<1> QED
  BY <1>1, TypeInvariant, PTL

-----------------------------------------------------------------------------
(* Batches: a batch of codes is made by one request, and shown once.       *)

Makes(r) == call[r] # None /\ call[r].batch # None

BatchInv ==
  /\ \A b \in past.shown : b <= past.batches
  /\ \A r \in Requests : Makes(r) =>
       call[r].batch <= past.batches /\ call[r].batch \notin past.shown
  /\ \A r, q \in Requests : Makes(r) /\ Makes(q) /\ call[r].batch = call[q].batch => r = q

\* What is accepted is of a step that is consumed, or of a batch that was shown and no
\* longer in force.
OnceInv ==
  /\ past.replayed = {}
  /\ \A c \in past.accepted \cap Totp : user.last # None /\ c.t <= user.last
  /\ \A c \in past.accepted \cap Backup : c.b \in past.shown
  /\ codes \cap past.accepted = {}

LEMMA CodesDiffer == Totp \cap Backup = {}
<1> SUFFICES ASSUME NEW c \in Totp, c \in Backup PROVE FALSE
  OBVIOUS
<1>1. DOMAIN c = {"s", "t"}
  BY DEF Totp
<1>2. DOMAIN c = {"b", "i"}
  BY DEF Backup
<1> QED
  BY <1>1, <1>2

\* A TOTP code is noted: nothing else about the request changes.
LEMMA Notes ==
  ASSUME TypeInv, NEW r \in Requests, CheckTotp(r)
  PROVE  Moved(r, "consume") \/ (call'[r] # None /\ Others(r) /\ call'[r].pc = "consume"
           /\ call'[r].kind = call[r].kind /\ call'[r].batch = call[r].batch)
<1>1. PICK c \in Totp : call' = [call EXCEPT ![r].pc = "consume", ![r].code = c]
  BY DEF CheckTotp
<1> DEFINE k == [call[r] EXCEPT !.pc = "consume", !.code = c]
<1>2. call[r] # None /\ call \in [Requests -> Call \cup {None}] /\ call[r] \in Call
  BY CallTypes DEF CheckTotp, At, TypeInv
<1>3. k \in Call /\ k.pc = "consume" /\ k.kind = call[r].kind /\ k.batch = call[r].batch
  BY <1>2 DEF Call
<1>4. call' = [call EXCEPT ![r] = k]
  BY <1>1
<1> HIDE DEF k
<1>5. call'[r] = k /\ Others(r) /\ k # None
  BY <1>2, <1>3, <1>4, CallTypes DEF Others, TypeInv
<1> QED
  BY <1>3, <1>5

\* A code of the batch is inserted, and the request goes on with the next one or is
\* done with them.
LEMMA Inserts ==
  ASSUME TypeInv, NEW r \in Requests, InsertCode(r)
  PROVE  /\ call[r] # None /\ call[r].pc = "insert" /\ call[r].kind # "login"
         /\ call[r].next \in 1..BatchSize /\ call[r].batch \in Batch
         /\ call'[r] # None /\ Others(r) /\ call'[r].kind = call[r].kind
         /\ call'[r].batch = call[r].batch
         /\ \/ call[r].next < BatchSize /\ call'[r].pc = "insert" /\ call'[r].next = call[r].next + 1
            \/ call[r].next = BatchSize /\ call'[r].pc = "on" /\ call[r].kind = "enable"
            \/ call[r].next = BatchSize /\ call'[r].pc = "answer" /\ call[r].kind # "enable"
<1>1. /\ call[r] # None /\ call[r].pc = "insert" /\ call[r] \in Call /\ TypeOK
      /\ call \in [Requests -> Call \cup {None}]
  BY CallTypes DEF InsertCode, At, TypeInv
<1>2. call[r].next \in 1..BatchSize /\ call[r].batch \in Batch /\ call[r].kind # "login"
  BY <1>1 DEF TypeInv, Shape, Call
<1>3. CASE call[r].next < BatchSize
  <2> DEFINE k == [call[r] EXCEPT !.next = call[r].next + 1]
  <2>0. call[r].next + 1 \in 1..BatchSize
    BY <1>2, <1>3, SecondFactorAssumption
  <2>1. /\ k \in Call /\ k.pc = "insert" /\ k.kind = call[r].kind /\ k.batch = call[r].batch
        /\ k.next = call[r].next + 1
    BY <1>1, <2>0 DEF Call
  <2>2. call' = [call EXCEPT ![r] = k]
    BY <1>3 DEF InsertCode
  <2> HIDE DEF k
  <2>3. call'[r] = k /\ Others(r) /\ k # None
    BY <1>1, <2>1, <2>2, CallTypes DEF Others
  <2> QED
    BY <1>1, <1>2, <1>3, <2>1, <2>3
<1>4. CASE ~(call[r].next < BatchSize)
  <2>1. call[r].next = BatchSize
    BY <1>2, <1>4, SecondFactorAssumption
  <2>2. /\ call[r].kind = "enable" => Goto(r, "on")
        /\ call[r].kind # "enable" => Goto(r, "answer")
    BY <1>4 DEF InsertCode
  <2>3. {"on", "answer"} \subseteq Places
    BY DEF Places
  <2>4. /\ call[r].kind = "enable" => Moved(r, "on")
        /\ call[r].kind # "enable" => Moved(r, "answer")
    BY <1>1, <2>2, <2>3, Moves
  <2> QED
    BY <1>1, <1>2, <2>1, <2>4 DEF Moved
<1> QED
  BY <1>3, <1>4

\* Every step but a beginning and an answer leaves the batches as they are.
LEMMA BatchesStay ==
  ASSUME TypeInv, BatchInv, UNCHANGED <<past.batches, past.shown>>, NEW r \in Requests, Others(r),
         call'[r] # None => call[r] # None /\ call'[r].batch = call[r].batch
  PROVE  BatchInv'
<1>1. \A q \in Requests : Makes(q)' => Makes(q) /\ call'[q].batch = call[q].batch
  BY DEF Makes, Others
<1> QED
  BY <1>1 DEF BatchInv

\* A beginning makes at most one batch, newer than the others.
LEMMA BatchBegins ==
  ASSUME TypeInv, BatchInv, NEW r \in Requests,
         NEW kind \in {"enable", "disable", "regenerate", "login"}, NEW pc \in {"check", "delete"},
         Begin(r, kind, pc), kind = "enable" => user.pending # None
  PROVE  BatchInv'
<1>0. TypeOK /\ pc \in Places
  BY DEF TypeInv, Places
<1>1. /\ call[r] = None /\ call'[r] # None /\ Others(r)
      /\ IF kind \in {"enable", "regenerate"}
           THEN call'[r].batch = past.batches + 1 /\ past'.batches = past.batches + 1
           ELSE call'[r].batch = None /\ past'.batches = past.batches
  BY <1>0, Begins
<1>2. past'.shown = past.shown
  BY <1>0, BeginPast
<1>3. past.batches \in Nat /\ \A b \in past.shown : b \in Nat
  BY <1>0, SecondFactorAssumption DEF TypeOK, Batch
<1>4. \A q \in Requests : Makes(q) => call[q].batch \in Nat
  BY <1>0, CallTypes, SecondFactorAssumption DEF Makes, Call, Batch
<1>5. CASE kind \in {"enable", "regenerate"}
  <2>1. \A q \in Requests : Makes(q)' /\ q # r => Makes(q) /\ call'[q] = call[q]
    BY <1>1 DEF Makes, Others
  <2>2. \A q \in Requests : Makes(q) =>
          call[q].batch <= past.batches /\ call[q].batch # past.batches + 1
    BY <1>3, <1>4 DEF BatchInv
  <2>3. ASSUME NEW b \in past.shown PROVE b <= past.batches + 1 /\ b # past.batches + 1
    <3>1. b \in Nat /\ b <= past.batches
      BY <1>3 DEF BatchInv
    <3> QED
      BY <1>3, <3>1
  <2>4. call'[r].batch = past.batches + 1 /\ past'.batches = past.batches + 1
    BY <1>1, <1>5
  <2>5. ASSUME NEW q \in Requests, Makes(q)'
        PROVE  call'[q].batch <= past'.batches /\ call'[q].batch \notin past'.shown
    <3>1. CASE q = r
      BY <1>2, <1>3, <2>3, <2>4, <3>1
    <3>2. CASE q # r
      <4>1. Makes(q) /\ call'[q] = call[q]
        BY <2>1, <2>5, <3>2
      <4>2. /\ call[q].batch \in Nat /\ call[q].batch <= past.batches
            /\ call[q].batch \notin past.shown
        BY <1>4, <4>1 DEF BatchInv
      <4> QED
        BY <1>2, <1>3, <2>4, <4>1, <4>2
    <3> QED
      BY <3>1, <3>2
  <2>6. ASSUME NEW p \in Requests, NEW q \in Requests, Makes(p)', Makes(q)',
               call'[p].batch = call'[q].batch
        PROVE  p = q
    <3>1. CASE p = r
      BY <2>1, <2>2, <2>4, <2>6, <3>1
    <3>2. CASE q = r
      BY <2>1, <2>2, <2>4, <2>6, <3>2
    <3>3. CASE p # r /\ q # r
      <4>1. Makes(p) /\ Makes(q) /\ call[p].batch = call[q].batch
        BY <2>1, <2>6, <3>3
      <4> QED
        BY <4>1 DEF BatchInv
    <3> QED
      BY <3>1, <3>2, <3>3
  <2> QED
    BY <1>2, <2>3, <2>4, <2>5, <2>6 DEF BatchInv
<1>6. CASE kind \notin {"enable", "regenerate"}
  <2>1. \A q \in Requests : Makes(q)' => Makes(q) /\ call'[q].batch = call[q].batch
    BY <1>1, <1>6 DEF Makes, Others
  <2> QED
    BY <1>1, <1>2, <1>6, <2>1 DEF BatchInv
<1> QED
  BY <1>5, <1>6

LEMMA BatchAnswers ==
  ASSUME TypeInv, BatchInv, NEW r \in Requests, Answer(r)
  PROVE  /\ BatchInv' /\ Makes(r) /\ Ended(r) /\ UNCHANGED <<user, codes, clock>>
         /\ past'.shown = past.shown \cup {call[r].batch} /\ past'.batches = past.batches
         /\ past'.accepted = past.accepted /\ past'.replayed = past.replayed
         /\ past'.confirmed = past.confirmed /\ past'.crossed = past.crossed
         /\ past'.halfway = FALSE /\ call[r].batch \in Batch
<1>1. Ended(r) /\ Makes(r) /\ call[r].batch \in Batch
  BY Ends, CallTypes DEF Answer, At, TypeInv, Shape, Makes, Call
<1>2. /\ past'.shown = past.shown \cup {call[r].batch} /\ past'.batches = past.batches
      /\ past'.accepted = past.accepted /\ past'.replayed = past.replayed
      /\ past'.confirmed = past.confirmed /\ past'.crossed = past.crossed
      /\ past'.halfway = FALSE
  BY DEF Answer, TypeInv, TypeOK
<1>3. \A q \in Requests : Makes(q)' => Makes(q) /\ q # r /\ call'[q] = call[q]
  BY <1>1 DEF Ended, Makes, Others
<1>4. BatchInv'
  BY <1>1, <1>2, <1>3 DEF BatchInv
<1> QED
  BY <1>1, <1>2, <1>4 DEF Answer

-----------------------------------------------------------------------------
(* A code is accepted once.                                                *)

\* Nothing is accepted, no code comes into force, the last step stays.
LEMMA NothingAccepted ==
  ASSUME OnceInv, past'.accepted = past.accepted, past'.replayed = past.replayed,
         past.shown \subseteq past'.shown, codes' \subseteq codes, user'.last = user.last
  PROVE  OnceInv'
<1>1. \A c \in codes' : c \notin past.accepted
  BY DEF OnceInv
<1> QED
  BY <1>1 DEF OnceInv

LEMMA OnceStep == TypeInv /\ BatchInv /\ OnceInv /\ [Next]_vars => (BatchInv /\ OnceInv)'
<1> SUFFICES ASSUME TypeInv, BatchInv, OnceInv, [Next]_vars PROVE BatchInv' /\ OnceInv'
  OBVIOUS
<1>0. /\ TypeOK /\ user \in User /\ past \in Past /\ codes \subseteq Backup
      /\ \A r \in Requests : call[r] # None => call[r] \in Call
  BY TypeParts, CallTypes DEF TypeInv
<1>1. CASE Setup \/ ResetOwnerAccess \/ Tick \/ LockEnds \/ UNCHANGED vars
  <2>1. /\ past'.batches = past.batches /\ past'.shown = past.shown
        /\ past'.accepted = past.accepted /\ past'.replayed = past.replayed
    BY <1>0, <1>1 DEF Setup, ResetOwnerAccess, Tick, LockEnds, vars, Past
  <2>2. codes' \subseteq codes /\ call' = call
    BY <1>1 DEF Setup, ResetOwnerAccess, Tick, LockEnds, vars
  <2>3. user'.last = user.last
    BY <1>0, <1>1 DEF Setup, ResetOwnerAccess, Tick, LockEnds, vars, User
  <2>4. BatchInv'
    BY <2>1, <2>2 DEF BatchInv, Makes
  <2> QED
    BY <2>1, <2>2, <2>3, <2>4, NothingAccepted
<1>2. ASSUME NEW r \in Requests, NEW kind \in {"enable", "disable", "regenerate", "login"},
             NEW pc \in {"check", "delete"}, Begin(r, kind, pc),
             kind = "enable" => user.pending # None, codes' = codes, user'.last = user.last
      PROVE  BatchInv' /\ OnceInv'
  <2>1. pc \in Places
    BY DEF Places
  <2>2. past'.accepted = past.accepted /\ past'.replayed = past.replayed /\ past'.shown = past.shown
    BY <1>0, <1>2, <2>1, BeginPast
  <2> QED
    BY <1>2, <2>2, BatchBegins, NothingAccepted
<1>3. ASSUME NEW r \in Requests, ReadPending(r) PROVE BatchInv' /\ OnceInv'
  BY <1>2, <1>3 DEF ReadPending
<1>4. ASSUME NEW r \in Requests, ReserveAttempt(r) PROVE BatchInv' /\ OnceInv'
  <2>1. PICK kind \in {"disable", "regenerate", "login"} : Begin(r, kind, "check")
    BY <1>4 DEF ReserveAttempt
  <2>2. codes' = codes /\ user'.last = user.last
    BY <1>0, <1>4 DEF ReserveAttempt, User
  <2> QED
    BY <1>2, <2>1, <2>2
<1>5. ASSUME NEW r \in Requests, Others(r),
             call'[r] # None => call[r] # None /\ call'[r].batch = call[r].batch,
             UNCHANGED <<past.batches, past.shown, past.accepted, past.replayed>>,
             codes' \subseteq codes, user'.last = user.last
      PROVE  BatchInv' /\ OnceInv'
  BY <1>5, BatchesStay, NothingAccepted
<1>6. ASSUME NEW r \in Requests, CheckTotp(r) PROVE BatchInv' /\ OnceInv'
  <2>1. /\ call[r] # None /\ call'[r] # None /\ Others(r) /\ call'[r].batch = call[r].batch
        /\ UNCHANGED <<user, codes, past>>
    BY <1>6, Notes DEF Moved, CheckTotp, At
  <2> QED
    BY <1>5, <2>1
<1>7. ASSUME NEW r \in Requests, RefuseCode(r) \/ Die(r) PROVE BatchInv' /\ OnceInv'
  <2>1. Ended(r) /\ UNCHANGED <<user, codes>>
    BY <1>0, <1>7, Ends DEF RefuseCode, Die
  <2>2. UNCHANGED <<past.batches, past.shown, past.accepted, past.replayed>>
    BY <1>0, <1>7 DEF RefuseCode, Die, Past
  <2> QED
    BY <1>5, <2>1, <2>2 DEF Ended
<1>8. ASSUME NEW r \in Requests, ResetAttempts(r) \/ Off(r) \/ DeleteCodes(r) \/ On(r)
      PROVE  BatchInv' /\ OnceInv'
  <2>1. call[r] # None /\ codes' \subseteq codes /\ past' = past
    BY <1>8 DEF ResetAttempts, Off, DeleteCodes, On, At
  <2>2. user'.last = user.last
    BY <1>0, <1>8 DEF ResetAttempts, Off, DeleteCodes, On, User
  <2>3. End(r) \/ \E pc \in Places : Goto(r, pc)
    <3>1. CASE ResetAttempts(r)
      <4>1. call[r].kind \in {"login", "disable", "regenerate"}
        BY <1>0, <3>1 DEF ResetAttempts, At, TypeInv, Shape, Call
      <4> QED
        BY <3>1, <4>1 DEF ResetAttempts, Places
    <3> QED
      BY <1>8, <3>1 DEF Off, DeleteCodes, On, Places
  <2>4. Ended(r) \/ \E pc \in Places : Moved(r, pc)
    BY <1>0, <2>1, <2>3, Ends, Moves
  <2> QED
    BY <1>5, <2>1, <2>2, <2>4 DEF Ended, Moved
<1>9. ASSUME NEW r \in Requests, Consume(r) PROVE BatchInv' /\ OnceInv'
  <2>1. call[r] # None /\ call[r].code \in Totp /\ codes' = codes
    BY <1>0, <1>9 DEF Consume, At, TypeInv, Shape, Call
  <2>2. CASE End(r) /\ UNCHANGED <<user, past>>
    BY <1>0, <1>5, <2>1, <2>2, Ends DEF Ended
  <2>3. CASE /\ user.last = None \/ user.last < call[r].code.t
             /\ user' = [user EXCEPT !.last = call[r].code.t] /\ Accept(r, call[r].code)
    <3> DEFINE c == call[r].code
    <3>1. c \in Totp /\ c.t \in Step /\ c.t \in Nat /\ c.t # None /\ c \notin Backup
      BY <2>1, CodesDiffer, SecondFactorAssumption DEF Totp, Step
    <3>2. user'.last = c.t
      BY <1>0, <2>3 DEF User
    <3> HIDE DEF c
    <3>3. c \notin past.accepted
      <4>1. c \in past.accepted => user.last # None /\ c.t <= user.last
        BY <3>1 DEF OnceInv
      <4>2. user.last # None => user.last \in Nat
        BY <1>0, SecondFactorAssumption DEF User, Step
      <4> QED
        BY <2>3, <3>1, <4>1, <4>2 DEF c
    <3>4. /\ Moved(r, "reset") /\ past'.accepted = past.accepted \cup {c}
          /\ past'.replayed = past.replayed \cup ({c} \cap past.accepted)
          /\ past'.shown = past.shown /\ past'.batches = past.batches
      BY <1>0, <2>1, <2>3, <3>1, Accepts DEF c
    <3>5. past'.replayed = {}
      BY <3>3, <3>4 DEF OnceInv
    <3>6. ASSUME NEW d \in past'.accepted, d \in Totp PROVE user'.last # None /\ d.t <= user'.last
      <4>1. CASE d = c
        BY <3>1, <3>2, <4>1
      <4>2. CASE d \in past.accepted
        <5>1. user.last # None /\ d.t <= user.last /\ user.last < c.t
          BY <2>3, <3>6, <4>2 DEF OnceInv, c
        <5>2. user.last \in Nat /\ d.t \in Nat
          BY <1>0, <3>6, <5>1, SecondFactorAssumption DEF User, Totp, Step
        <5> QED
          BY <3>1, <3>2, <5>1, <5>2
      <4> QED
        BY <3>4, <4>1, <4>2
    <3>7. \A d \in past'.accepted \cap Backup : d.b \in past'.shown
      BY <3>1, <3>4 DEF OnceInv
    <3>8. codes' \cap past'.accepted = {}
      BY <1>0, <2>1, <3>1, <3>4 DEF OnceInv
    <3>9. OnceInv'
      BY <3>5, <3>6, <3>7, <3>8 DEF OnceInv
    <3> QED
      BY <2>1, <3>4, <3>9, BatchesStay DEF Moved
  <2> QED
    BY <1>9, <2>2, <2>3 DEF Consume
<1>10. ASSUME NEW r \in Requests, BurnBackup(r) PROVE BatchInv' /\ OnceInv'
  <2>1. PICK c \in codes : c.b \in past.shown /\ codes' = codes \ {c} /\ Accept(r, c)
    BY <1>10 DEF BurnBackup
  <2>2. call[r] # None /\ user' = user /\ c \in Backup /\ c \notin Totp /\ c \notin past.accepted
    BY <1>0, <1>10, CodesDiffer DEF BurnBackup, At, OnceInv
  <2>3. /\ Moved(r, "reset") /\ past'.accepted = past.accepted \cup {c}
        /\ past'.replayed = past.replayed \cup ({c} \cap past.accepted)
        /\ past'.shown = past.shown /\ past'.batches = past.batches
    BY <1>0, <2>1, <2>2, Accepts
  <2>4. OnceInv'
    BY <2>1, <2>2, <2>3 DEF OnceInv
  <2> QED
    BY <2>2, <2>3, <2>4, BatchesStay DEF Moved
<1>11. ASSUME NEW r \in Requests, InsertCode(r) PROVE BatchInv' /\ OnceInv'
  <2>1. /\ call[r] # None /\ Others(r) /\ call'[r].batch = call[r].batch
        /\ call[r].next \in 1..BatchSize /\ call[r].batch \in Batch
    BY <1>11, Inserts
  <2>2. UNCHANGED <<user, past>> /\ codes' = codes \cup {[b |-> call[r].batch, i |-> call[r].next]}
    BY <1>11 DEF InsertCode
  <2>3. BatchInv'
    BY <2>1, <2>2, BatchesStay
  <2> DEFINE c == [b |-> call[r].batch, i |-> call[r].next]
  <2>4. c \in Backup /\ c.b = call[r].batch
    BY <2>1 DEF Backup
  <2>5. call[r].batch \notin past.shown
    BY <2>1, SecondFactorAssumption DEF BatchInv, Makes
  <2> HIDE DEF c
  <2>6. c \notin past.accepted
    BY <2>4, <2>5 DEF OnceInv
  <2>7. codes' = codes \cup {c}
    BY <2>2 DEF c
  <2>8. OnceInv'
    BY <2>2, <2>6, <2>7 DEF OnceInv
  <2> QED
    BY <2>3, <2>8
<1>12. ASSUME NEW r \in Requests, Answer(r) PROVE BatchInv' /\ OnceInv'
  BY <1>12, BatchAnswers, NothingAccepted
<1> QED
  BY <1>1, <1>3, <1>4, <1>6, <1>7, <1>8, <1>9, <1>10, <1>11, <1>12 DEF Next

LEMMA OnceInvariant == Spec => [](TypeInv /\ BatchInv /\ OnceInv)
<1>1. Init => TypeInv /\ BatchInv /\ OnceInv
  <2>1. Init => BatchInv /\ OnceInv
    BY DEF Init, BatchInv, OnceInv, Makes
  <2> QED
    BY <2>1, TypeInit
<1>2. (TypeInv /\ BatchInv /\ OnceInv) /\ [Next]_vars => (TypeInv /\ BatchInv /\ OnceInv)'
  BY TypeStep, OnceStep
<1> QED
  BY <1>1, <1>2, PTL DEF Spec

\* verifySecondFactor accepts a code at most once, for any number of requests together,
\* of enrolments and of batches (second-factor.ts, totp.ts).
THEOREM OnceCorrect == Spec => []AcceptedOnce
<1>1. OnceInv => AcceptedOnce
  BY DEF OnceInv, AcceptedOnce
<1> QED
  BY <1>1, OnceInvariant, PTL

-----------------------------------------------------------------------------
(* Enrolments that do not overlap.                                         *)

\* The codes in force are those last shown, less the used ones.
Whole == codes = {c \in Backup : c.b = Max(past.shown)} \ past.accepted

Making(r) == call[r].pc \in {"insert", "on", "answer"}

\* What the change under way has done so far.
Stage(r) ==
  /\ call[r].batch # None => call[r].batch = past.batches
  /\ call[r].kind = "enable" /\ call[r].pc \in {"delete", "insert", "on"} =>
       ~user.enabled /\ user.pending \in past.confirmed
  /\ call[r].kind = "disable" /\ call[r].pc = "delete" => ~user.enabled
  /\ call[r].pc = "insert" =>
       codes = {c \in Backup : c.b = call[r].batch /\ c.i < call[r].next}
  /\ call[r].pc \in {"on", "answer"} => codes = {c \in Backup : c.b = call[r].batch}

\* As long as no two changes of the enrolment overlapped, there is at most one under
\* way, which is at its stage.
OrderInv == ~past.crossed =>
  /\ \A r, q \in Changing : r = q
  /\ \A r \in Changing : Stage(r)
  /\ user.enabled => user.secret \in past.confirmed
  /\ user.enabled /\ ~past.halfway /\ (\A r \in Changing : ~Making(r)) => Whole

FullInv == TypeInv /\ BatchInv /\ OnceInv /\ OrderInv

\* The columns of the factor, and what the history tells of changes.
Factor == <<user.enabled, user.secret, user.pending>>
Changes == <<past.crossed, past.batches, past.confirmed>>

\* A request that makes codes changes the enrolment.
LEMMA MakersChange ==
  ASSUME TypeInv, NEW r \in Requests, call[r] # None, Making(r)
  PROVE  r \in Changing /\ call[r].batch \in Batch
BY CallTypes DEF TypeInv, Shape, Changing, Making, Call

\* A request that makes no codes, and does not touch the factor, goes on or ends.
LEMMA AsideStep ==
  ASSUME FullInv, UNCHANGED Factor, UNCHANGED Changes, UNCHANGED past.halfway,
         Whole => Whole', codes' = codes \/ \A q \in Changing : ~Making(q),
         NEW r \in Requests, Others(r), call[r] # None, ~Making(r),
         call'[r] # None =>
           /\ call'[r].kind = call[r].kind /\ call'[r].batch = call[r].batch
           /\ call'[r].pc \in {"check", "consume", "reset", "off", "delete"}
           /\ call'[r].pc = "delete" => call[r].kind \notin {"enable", "disable"}
  PROVE  OrderInv'
<1> SUFFICES ASSUME ~past.crossed
             PROVE  /\ \A p, q \in Changing' : p = q
                    /\ \A q \in Changing' : Stage(q)'
                    /\ user'.enabled => user'.secret \in past'.confirmed
                    /\ user'.enabled /\ ~past'.halfway /\ (\A q \in Changing' : ~Making(q)') => Whole'
  BY DEF OrderInv, Changes
<1>1. /\ \A p, q \in Changing : p = q
      /\ \A q \in Changing : Stage(q)
      /\ user.enabled => user.secret \in past.confirmed
      /\ user.enabled /\ ~past.halfway /\ (\A q \in Changing : ~Making(q)) => Whole
  BY DEF FullInv, OrderInv
<1>2. /\ user'.enabled = user.enabled /\ user'.secret = user.secret /\ user'.pending = user.pending
      /\ past'.batches = past.batches /\ past'.confirmed = past.confirmed
      /\ past'.halfway = past.halfway
  BY DEF Factor, Changes
<1>3. \A q \in Changing' : q \in Changing
  BY DEF Changing, Others
<1>4. \A q \in Changing : q # r => q \in Changing' /\ Making(q)' = Making(q)
  BY DEF Changing, Others, Making
<1>5. \A q \in Changing : ~Making(q)' => ~Making(q)
  BY <1>4
<1>6. ASSUME NEW q \in Changing' PROVE Stage(q)'
  <2>0. q \in Changing /\ q \in Requests /\ Stage(q)
    BY <1>1, <1>3, <1>6 DEF Changing
  <2>1. CASE q = r
    <3>1. call'[r] # None
      BY <1>6, <2>1 DEF Changing
    <3>2. /\ call'[r].kind = call[r].kind /\ call'[r].batch = call[r].batch
          /\ call'[r].pc \in {"check", "consume", "reset", "off", "delete"}
          /\ call'[r].pc = "delete" => call[r].kind \notin {"enable", "disable"}
      BY <3>1
    <3> QED
      BY <1>2, <2>0, <2>1, <3>2 DEF Stage
  <2>2. CASE q # r
    <3>1. call'[q] = call[q]
      BY <2>0, <2>2 DEF Others
    <3>2. Making(q) => codes' = codes
      BY <2>0
    <3> QED
      BY <1>2, <2>0, <3>1, <3>2 DEF Stage, Making
  <2> QED
    BY <2>1, <2>2
<1>7. (\A q \in Changing' : ~Making(q)') => \A q \in Changing : ~Making(q)
  BY <1>4
<1> QED
  BY <1>1, <1>2, <1>3, <1>6, <1>7

\* With no change under way, one begins.
LEMMA BeginStep ==
  ASSUME FullInv, NEW r \in Requests, NEW kind \in {"enable", "disable", "regenerate", "login"},
         NEW pc \in {"check", "delete"}, Begin(r, kind, pc),
         kind = "enable" => user.pending # None /\ ~user.enabled, pc = "delete" => kind = "enable",
         UNCHANGED Factor, codes' = codes
  PROVE  OrderInv'
<1>0. TypeOK /\ pc \in Places
  BY DEF FullInv, TypeInv, Places
<1>1. /\ call[r] = None /\ call'[r] # None /\ Others(r) /\ call'[r].kind = kind /\ call'[r].pc = pc
      /\ IF kind \in {"enable", "regenerate"}
           THEN call'[r].batch = past.batches + 1 /\ past'.batches = past.batches + 1
           ELSE call'[r].batch = None /\ past'.batches = past.batches
  BY <1>0, Begins
<1>2. /\ past'.shown = past.shown /\ past'.accepted = past.accepted /\ past'.halfway = past.halfway
      /\ past'.crossed = (IF kind = "login" THEN past.crossed ELSE Crossed)
      /\ past'.confirmed = IF kind = "enable" THEN past.confirmed \cup {user.pending}
                           ELSE past.confirmed
  BY <1>0, BeginPast
<1>3. user'.enabled = user.enabled /\ user'.secret = user.secret /\ user'.pending = user.pending
  BY DEF Factor
<1>4. Whole' = Whole
  BY <1>2 DEF Whole
<1> SUFFICES ASSUME ~past'.crossed
             PROVE  /\ \A p, q \in Changing' : p = q
                    /\ \A q \in Changing' : Stage(q)'
                    /\ user'.enabled => user'.secret \in past'.confirmed
                    /\ user'.enabled /\ ~past'.halfway /\ (\A q \in Changing' : ~Making(q)') => Whole'
  BY DEF OrderInv
<1>5. ~past.crossed /\ (kind # "login" => Changing = {})
  BY <1>2 DEF Crossed
<1>6. /\ \A p, q \in Changing : p = q
      /\ \A q \in Changing : Stage(q)
      /\ user.enabled => user.secret \in past.confirmed
      /\ user.enabled /\ ~past.halfway /\ (\A q \in Changing : ~Making(q)) => Whole
  BY <1>5 DEF FullInv, OrderInv
<1>7. CASE kind = "login"
  <2>1. Changing' = Changing /\ \A q \in Changing : call'[q] = call[q]
    BY <1>1, <1>7 DEF Changing, Others
  <2>2. past'.batches = past.batches /\ past'.confirmed = past.confirmed
    BY <1>1, <1>2, <1>7
  <2>3. \A q \in Changing : Stage(q)' /\ Making(q)' = Making(q)
    BY <1>3, <1>6, <2>1, <2>2 DEF Stage, Making
  <2> QED
    BY <1>2, <1>3, <1>4, <1>6, <2>1, <2>2, <2>3
<1>8. CASE kind # "login"
  <2>1. Changing' = {r} /\ Changing = {}
    BY <1>1, <1>5, <1>8 DEF Changing, Others
  <2>2. ~Making(r)'
    BY <1>1 DEF Making
  <2>3. call'[r].batch # None => call'[r].batch = past'.batches
    BY <1>1
  <2>4. kind = "enable" => ~user'.enabled /\ user'.pending \in past'.confirmed
    BY <1>2, <1>3
  <2>5. Stage(r)'
    BY <1>1, <2>2, <2>3, <2>4 DEF Stage, Making
  <2>6. user'.enabled => user'.secret \in past'.confirmed
    BY <1>2, <1>3, <1>6
  <2> QED
    BY <1>2, <1>3, <1>4, <1>6, <2>1, <2>5, <2>6
<1> QED
  BY <1>7, <1>8

\* The only change under way goes on or ends.
LEMMA ChangeStep ==
  ASSUME FullInv, NEW r \in Changing, Others(r), past'.crossed = past.crossed,
         ~past.crossed =>
           /\ call'[r] # None => Stage(r)'
           /\ user'.enabled => user'.secret \in past'.confirmed
           /\ user'.enabled /\ ~past'.halfway /\ (r \in Changing' => ~Making(r)') => Whole'
  PROVE  OrderInv'
<1> SUFFICES ASSUME ~past.crossed
             PROVE  /\ \A p, q \in Changing' : p = q
                    /\ \A q \in Changing' : Stage(q)'
                    /\ user'.enabled => user'.secret \in past'.confirmed
                    /\ user'.enabled /\ ~past'.halfway /\ (\A q \in Changing' : ~Making(q)') => Whole'
  BY DEF OrderInv
<1>1. \A q \in Changing : q = r
  BY DEF FullInv, OrderInv
<1>2. \A q \in Changing' : q = r
  BY <1>1 DEF Changing, Others
<1>3. r \in Changing' => call'[r] # None
  BY DEF Changing
<1> QED
  BY <1>2, <1>3

\* What is known of the change under way when none has overlapped.
LEMMA ChangeAlone ==
  ASSUME FullInv, NEW r \in Changing, ~past.crossed
  PROVE  /\ Stage(r) /\ \A q \in Changing : q = r
         /\ user.enabled => user.secret \in past.confirmed
         /\ user.enabled /\ ~past.halfway /\ ~Making(r) => Whole
BY DEF FullInv, OrderInv

\* Disabling clears the secrets.
LEMMA OffStep ==
  ASSUME FullInv, NEW r \in Requests, Off(r)
  PROVE  OrderInv'
<1>1. /\ TypeOK /\ call[r] # None /\ call[r].pc = "off" /\ call[r].kind = "disable"
      /\ call[r].batch = None /\ UNCHANGED past
  BY CallTypes DEF FullInv, TypeInv, Shape, Off, At
<1>2. Moved(r, "delete")
  BY <1>1, Moves DEF Off, Places
<1>3. ~user'.enabled
  BY <1>1 DEF Off, TypeOK
<1>4. r \in Changing
  BY <1>1 DEF Changing
<1>5. Stage(r)'
  BY <1>1, <1>2, <1>3 DEF Stage, Moved
<1> QED
  BY <1>1, <1>2, <1>3, <1>4, <1>5, ChangeStep DEF Moved

\* The codes of the former enrolment go.
LEMMA DeleteStep ==
  ASSUME FullInv, NEW r \in Requests, DeleteCodes(r)
  PROVE  OrderInv'
<1>1. /\ TypeOK /\ call[r] # None /\ call[r].pc = "delete" /\ call[r].kind # "login"
      /\ call[r].next = 1 /\ codes' = {} /\ UNCHANGED <<user, past>>
  BY DEF FullInv, TypeInv, Shape, DeleteCodes, At
<1>2. r \in Changing
  BY <1>1 DEF Changing
<1>3. CASE call[r].kind = "disable"
  <2>1. Ended(r)
    BY <1>1, <1>3, Ends DEF DeleteCodes
  <2>2. ~past.crossed => ~user'.enabled
    BY <1>1, <1>2, <1>3, ChangeAlone DEF Stage
  <2> QED
    BY <1>1, <1>2, <2>1, <2>2, ChangeStep DEF Ended
<1>4. CASE call[r].kind # "disable"
  <2>1. Moved(r, "insert")
    BY <1>1, <1>4, Moves DEF DeleteCodes, Places
  <2>2. {c \in Backup : c.b = call[r].batch /\ c.i < 1} = {}
    BY SecondFactorAssumption DEF Backup
  <2>3. ~past.crossed => Stage(r)' /\ Making(r)'
    BY <1>1, <1>2, <2>1, <2>2, ChangeAlone DEF Stage, Moved, Making
  <2>4. ~past.crossed => (user'.enabled => user'.secret \in past'.confirmed)
    BY <1>1, <1>2, ChangeAlone
  <2>5. r \in Changing'
    BY <1>1, <2>1 DEF Changing, Moved
  <2> QED
    BY <1>1, <1>2, <2>1, <2>3, <2>4, <2>5, ChangeStep DEF Moved
<1> QED
  BY <1>3, <1>4

\* One more code of the batch.
LEMMA InsertStep ==
  ASSUME FullInv, NEW r \in Requests, InsertCode(r)
  PROVE  OrderInv'
<1>1. /\ call[r] # None /\ call[r].pc = "insert" /\ call[r].kind # "login"
      /\ call[r].next \in 1..BatchSize /\ call[r].batch \in Batch
      /\ call'[r] # None /\ Others(r) /\ call'[r].kind = call[r].kind
      /\ call'[r].batch = call[r].batch
      /\ \/ call[r].next < BatchSize /\ call'[r].pc = "insert" /\ call'[r].next = call[r].next + 1
         \/ call[r].next = BatchSize /\ call'[r].pc = "on" /\ call[r].kind = "enable"
         \/ call[r].next = BatchSize /\ call'[r].pc = "answer" /\ call[r].kind # "enable"
  BY Inserts DEF FullInv
<1>2. /\ UNCHANGED <<user, past>>
      /\ codes' = codes \cup {[b |-> call[r].batch, i |-> call[r].next]}
  BY DEF InsertCode
<1>3. r \in Changing /\ r \in Changing' /\ Making(r)'
  BY <1>1 DEF Changing, Making
<1>4. ASSUME ~past.crossed PROVE Stage(r)'
  <2> DEFINE b == call[r].batch
             n == call[r].next
  <2>1. Stage(r) /\ codes = {c \in Backup : c.b = b /\ c.i < n}
    BY <1>1, <1>3, <1>4, ChangeAlone DEF Stage
  <2>2. n \in Nat /\ BatchSize \in Nat /\ n \in 1..BatchSize /\ b \in Batch
    BY <1>1, SecondFactorAssumption
  <2> HIDE DEF b, n
  <2>3. codes' = {c \in Backup : c.b = b /\ c.i < n + 1}
    <3>1. [b |-> b, i |-> n] \in Backup
      BY <2>2 DEF Backup
    <3>2. ASSUME NEW c \in Backup, c.b = b, c.i < n + 1, ~(c.i < n) PROVE c = [b |-> b, i |-> n]
      BY <2>2, <3>2 DEF Backup
    <3>3. codes' = codes \cup {[b |-> b, i |-> n]}
      BY <1>2 DEF b, n
    <3>4. ASSUME NEW c \in codes' PROVE c \in Backup /\ c.b = b /\ c.i < n + 1
      <4>1. CASE c = [b |-> b, i |-> n]
        BY <2>2, <3>1, <4>1
      <4>2. CASE c \in codes
        <5>1. c \in Backup /\ c.b = b /\ c.i < n
          BY <2>1, <4>2
        <5>2. c.i \in Nat
          BY <5>1 DEF Backup
        <5> QED
          BY <2>2, <5>1, <5>2
      <4> QED
        BY <3>3, <3>4, <4>1, <4>2
    <3>5. ASSUME NEW c \in Backup, c.b = b, c.i < n + 1 PROVE c \in codes'
      BY <2>1, <3>2, <3>3, <3>5
    <3> QED
      BY <3>4, <3>5
  <2>4. n = BatchSize => codes' = {c \in Backup : c.b = b}
    <3>1. n = BatchSize => \A c \in Backup : c.i < n + 1
      BY <2>2 DEF Backup
    <3> QED
      BY <2>3, <3>1
  <2>5. /\ call'[r].batch = b /\ call'[r].kind = call[r].kind
        /\ \/ call'[r].pc = "insert" /\ call'[r].next = n + 1
           \/ call'[r].pc = "on" /\ n = BatchSize
           \/ call'[r].pc = "answer" /\ n = BatchSize /\ call[r].kind # "enable"
    BY <1>1 DEF b, n
  <2> QED
    BY <1>1, <1>2, <2>1, <2>3, <2>4, <2>5 DEF Stage, b
<1>5. ~past.crossed => (user'.enabled => user'.secret \in past'.confirmed)
  BY <1>2, <1>3, ChangeAlone
<1> QED
  BY <1>1, <1>2, <1>3, <1>4, <1>5, ChangeStep

\* The pending secret comes into force: a code has confirmed it, since no other change
\* has replaced it.
LEMMA OnSettles ==
  ASSUME FullInv, NEW r \in Requests, On(r)
  PROVE  OrderInv'
<1>1. /\ TypeOK /\ call[r] # None /\ call[r].pc = "on" /\ call[r].kind = "enable"
      /\ UNCHANGED <<codes, past>>
  BY DEF FullInv, TypeInv, Shape, On, At
<1>2. Moved(r, "answer")
  BY <1>1, Moves DEF On, Places
<1>3. user'.secret = user.pending
  BY <1>1 DEF On, TypeOK
<1>4. r \in Changing /\ r \in Changing' /\ Making(r)'
  BY <1>1, <1>2 DEF Changing, Making, Moved
<1>5. ASSUME ~past.crossed PROVE Stage(r)' /\ user'.secret \in past'.confirmed
  BY <1>1, <1>2, <1>3, <1>4, <1>5, ChangeAlone DEF Stage, Moved
<1> QED
  BY <1>1, <1>2, <1>4, <1>5, ChangeStep DEF Moved

\* The batch that is shown is the newest, whole, and nothing of it was accepted.
LEMMA AnswerSettles ==
  ASSUME FullInv, NEW r \in Requests, Answer(r)
  PROVE  OrderInv'
<1> DEFINE b == call[r].batch
<1>1. /\ TypeInv /\ BatchInv /\ OnceInv /\ call[r] # None /\ call[r].pc = "answer"
  BY DEF FullInv, Answer, At
<1>2. /\ Makes(r) /\ Ended(r) /\ UNCHANGED <<user, codes, clock>>
      /\ past'.shown = past.shown \cup {b} /\ past'.accepted = past.accepted
      /\ past'.confirmed = past.confirmed /\ past'.crossed = past.crossed /\ b \in Batch
  BY <1>1, BatchAnswers
<1>3. r \in Changing
  BY <1>1, MakersChange DEF Making
<1>4. b \notin past.shown /\ \A s \in past.shown : s <= past.batches
  BY <1>1, <1>2 DEF BatchInv
<1>5. ASSUME ~past.crossed PROVE Whole'
  <2>1. b = past.batches /\ codes = {c \in Backup : c.b = b}
    BY <1>1, <1>2, <1>3, <1>5, ChangeAlone, SecondFactorAssumption DEF Stage
  <2>2. b \in Nat /\ \A s \in past.shown : s \in Nat /\ s <= b
    BY <1>1, <1>2, <1>4, <2>1 DEF TypeInv, TypeOK, Batch
  <2> HIDE DEF b
  <2>3. \A m \in past.shown \cup {b} : (\A s \in past.shown \cup {b} : m >= s) => m = b
    BY <2>2
  <2>4. \A s \in past.shown \cup {b} : b >= s
    BY <2>2
  <2>5. Max(past.shown \cup {b}) = b
    BY <2>3, <2>4 DEF Max
  <2>6. \A c \in past.accepted \cap Backup : c.b # b
    BY <1>1, <1>4 DEF OnceInv
  <2>7. codes = {c \in Backup : c.b = b} \ past.accepted
    BY <2>1, <2>6
  <2> QED
    BY <1>2, <2>5, <2>7 DEF Whole
<1>6. ~past.crossed => (user'.enabled => user'.secret \in past'.confirmed)
  BY <1>2, <1>3, ChangeAlone
<1> HIDE DEF b
<1> QED
  BY <1>2, <1>3, <1>5, <1>6, ChangeStep DEF Ended

\* A request dies: halfway, if it was making codes.
LEMMA DieStep ==
  ASSUME FullInv, NEW r \in Requests, Die(r)
  PROVE  OrderInv'
<1>1. TypeInv /\ past \in Past /\ call[r] # None /\ UNCHANGED <<user, codes>>
  BY TypeParts DEF FullInv, TypeInv, Die
<1>2. Ended(r)
  BY <1>1, Ends DEF Die, TypeInv
<1>3. UNCHANGED Changes
  BY <1>1 DEF Die, Changes, Past
<1>4. past'.halfway = (past.halfway \/ Making(r)) /\ past'.accepted = past.accepted
      /\ past'.shown = past.shown
  BY <1>1 DEF Die, Past, Making
<1>5. CASE ~Making(r)
  <2>1. past'.halfway = past.halfway
    <3>1. past.halfway \in BOOLEAN
      BY <1>1 DEF Past
    <3> QED
      BY <1>4, <1>5, <3>1
  <2>2. Whole' = Whole
    BY <1>1, <1>4 DEF Whole
  <2>3. UNCHANGED Factor
    BY <1>1 DEF Factor
  <2> QED
    BY <1>1, <1>2, <1>3, <1>5, <2>1, <2>2, <2>3, AsideStep DEF Ended
<1>6. CASE Making(r)
  <2>1. r \in Changing
    BY <1>1, <1>6, MakersChange
  <2>2. past'.halfway
    BY <1>4, <1>6
  <2>3. past'.crossed = past.crossed /\ past'.confirmed = past.confirmed
    BY <1>3 DEF Changes
  <2>4. ~past.crossed => (user'.enabled => user'.secret \in past'.confirmed)
    BY <1>1, <2>1, <2>3, ChangeAlone
  <2> QED
    BY <1>2, <2>1, <2>2, <2>3, <2>4, ChangeStep DEF Ended
<1> QED
  BY <1>5, <1>6

\* A code that was shown is not one of a batch in the making: nobody makes one.
LEMMA BurnStep ==
  ASSUME FullInv, NEW r \in Requests, BurnBackup(r)
  PROVE  OrderInv'
<1>0. /\ TypeInv /\ TypeOK /\ BatchInv /\ codes \subseteq Backup /\ UNCHANGED user
      /\ call[r] # None /\ call[r].pc = "check"
  BY DEF FullInv, TypeInv, TypeOK, BurnBackup, At
<1>1. PICK c \in codes : c.b \in past.shown /\ codes' = codes \ {c} /\ Accept(r, c)
  BY DEF BurnBackup
<1>2. /\ Moved(r, "reset") /\ past'.accepted = past.accepted \cup {c}
      /\ past'.shown = past.shown /\ past'.batches = past.batches
      /\ past'.halfway = past.halfway /\ past'.crossed = past.crossed
      /\ past'.confirmed = past.confirmed
  BY <1>0, <1>1, Accepts
<1>3. CASE past.crossed
  BY <1>2, <1>3 DEF OrderInv
<1>4. CASE ~past.crossed
  <2>1. ASSUME NEW q \in Changing, Making(q) PROVE FALSE
    <3>1. q \in Requests /\ call[q] # None
      BY <2>1 DEF Changing
    <3>2. Stage(q) /\ call[q].batch \in Batch
      BY <1>0, <1>4, <2>1, <3>1, ChangeAlone, MakersChange
    <3>3. c.b = call[q].batch
      BY <1>1, <2>1, <3>2 DEF Stage, Making
    <3>4. call[q].batch \notin past.shown
      BY <1>0, <3>1, <3>2, SecondFactorAssumption DEF BatchInv, Makes
    <3> QED
      BY <1>1, <3>3, <3>4
  <2>2. Whole => Whole'
    BY <1>1, <1>2 DEF Whole
  <2>3. UNCHANGED Factor /\ UNCHANGED Changes
    BY <1>0, <1>2 DEF Factor, Changes
  <2>4. ~Making(r)
    BY <1>0 DEF Making
  <2> QED
    BY <1>0, <1>2, <2>1, <2>2, <2>3, <2>4, AsideStep DEF Moved
<1> QED
  BY <1>3, <1>4

\* A TOTP code is noted, consumed or refused, and the counter is reset.
LEMMA VerifyStep ==
  ASSUME FullInv, NEW r \in Requests,
         CheckTotp(r) \/ Consume(r) \/ RefuseCode(r) \/ ResetAttempts(r)
  PROVE  OrderInv'
<1>0. /\ TypeInv /\ TypeOK /\ user \in User /\ codes' = codes
      /\ call[r] # None /\ call[r] \in Call /\ call[r].pc \in {"check", "consume", "reset"}
  BY TypeParts, CallTypes DEF FullInv, TypeInv, CheckTotp, Consume, RefuseCode, ResetAttempts, At
<1>1. ~Making(r)
  BY <1>0 DEF Making
<1>2. UNCHANGED Factor
  BY <1>0 DEF Factor, CheckTotp, Consume, RefuseCode, ResetAttempts, User, Accept
<1>3. ASSUME UNCHANGED past,
             Ended(r) \/ (/\ call'[r] # None /\ Others(r) /\ call'[r].kind = call[r].kind
                          /\ call'[r].batch = call[r].batch
                          /\ call'[r].pc \in {"consume", "off", "delete"}
                          /\ call'[r].pc = "delete" => call[r].kind = "regenerate")
      PROVE  OrderInv'
  <2>1. Whole' = Whole
    BY <1>0, <1>3 DEF Whole
  <2>2. UNCHANGED Changes /\ UNCHANGED past.halfway
    BY <1>3 DEF Changes
  <2> QED
    BY <1>0, <1>1, <1>2, <1>3, <2>1, <2>2, AsideStep DEF Ended
<1>4. CASE CheckTotp(r)
  BY <1>0, <1>3, <1>4, Notes DEF Moved, CheckTotp
<1>5. CASE RefuseCode(r)
  BY <1>0, <1>3, <1>5, Ends DEF RefuseCode
<1>6. CASE ResetAttempts(r)
  <2>1. call[r].kind \in {"login", "disable", "regenerate"} /\ UNCHANGED past
    BY <1>0, <1>6 DEF ResetAttempts, At, TypeInv, Shape, Call
  <2>2. \/ End(r)
        \/ Goto(r, "off")
        \/ call[r].kind = "regenerate" /\ Goto(r, "delete")
    BY <1>6, <2>1 DEF ResetAttempts
  <2>3. \/ Ended(r)
        \/ Moved(r, "off")
        \/ call[r].kind = "regenerate" /\ Moved(r, "delete")
    BY <1>0, <2>2, Ends, Moves DEF Places
  <2> QED
    BY <1>3, <2>1, <2>3 DEF Moved
<1>7. CASE Consume(r)
  <2>1. call[r].code \in Totp /\ call[r].code \notin Backup
    BY <1>0, <1>7, CodesDiffer DEF Consume, At, TypeInv, Shape, Call
  <2>2. CASE End(r) /\ UNCHANGED past
    BY <1>0, <1>3, <2>2, Ends
  <2>3. CASE Accept(r, call[r].code)
    <3>1. /\ Moved(r, "reset") /\ past'.accepted = past.accepted \cup {call[r].code}
          /\ past'.shown = past.shown /\ past'.batches = past.batches
          /\ past'.halfway = past.halfway /\ past'.crossed = past.crossed
          /\ past'.confirmed = past.confirmed
      BY <1>0, <2>1, <2>3, Accepts
    <3>2. Whole => Whole'
      BY <1>0, <2>1, <3>1 DEF Whole
    <3>3. UNCHANGED Changes
      BY <3>1 DEF Changes
    <3> QED
      BY <1>0, <1>1, <1>2, <3>1, <3>2, <3>3, AsideStep DEF Moved
  <2> QED
    BY <1>7, <2>2, <2>3 DEF Consume
<1> QED
  BY <1>0, <1>4, <1>5, <1>6, <1>7

LEMMA OrderStep == FullInv /\ [Next]_vars => OrderInv'
<1> SUFFICES ASSUME FullInv, [Next]_vars PROVE OrderInv'
  OBVIOUS
<1>0. TypeInv /\ TypeOK /\ user \in User /\ past \in Past
  BY TypeParts DEF FullInv, TypeInv
<1>1. CASE Setup \/ ResetOwnerAccess
  <2>1. /\ past'.crossed = Crossed /\ past'.confirmed = past.confirmed
        /\ past'.shown = past.shown /\ past'.accepted = past.accepted
        /\ past'.halfway = past.halfway /\ call' = call
    BY <1>0, <1>1 DEF Setup, ResetOwnerAccess, Past
  <2>2. SUFFICES ASSUME ~past.crossed, Changing = {} PROVE OrderInv'
    BY <2>1 DEF Crossed, OrderInv
  <2>3. Changing' = {}
    BY <2>1, <2>2 DEF Changing
  <2>4. CASE ResetOwnerAccess
    <3>1. ~user'.enabled
      BY <1>0, <2>4 DEF ResetOwnerAccess, User
    <3> QED
      BY <2>3, <3>1 DEF OrderInv
  <2>5. CASE Setup
    <3>1. user'.enabled = user.enabled /\ user'.secret = user.secret /\ codes' = codes
      BY <1>0, <2>5 DEF Setup, User
    <3>2. Whole' = Whole
      BY <2>1, <3>1 DEF Whole
    <3>3. /\ user.enabled => user.secret \in past.confirmed
          /\ user.enabled /\ ~past.halfway => Whole
      BY <2>2 DEF FullInv, OrderInv
    <3> QED
      BY <2>1, <2>3, <3>1, <3>2, <3>3 DEF OrderInv
  <2> QED
    BY <1>1, <2>4, <2>5
<1>2. CASE Tick \/ LockEnds \/ UNCHANGED vars
  <2>1. /\ UNCHANGED <<codes, call, past>> /\ user'.enabled = user.enabled
        /\ user'.secret = user.secret /\ user'.pending = user.pending
    BY <1>0, <1>2 DEF Tick, LockEnds, vars, User
  <2>2. Whole' = Whole /\ Changing' = Changing
    BY <2>1 DEF Whole, Changing
  <2>3. \A q \in Changing : Stage(q)' = Stage(q) /\ Making(q)' = Making(q)
    BY <2>1 DEF Stage, Making
  <2>4. OrderInv
    BY DEF FullInv
  <2> QED
    BY <2>1, <2>2, <2>3, <2>4 DEF OrderInv
<1>3. ASSUME NEW r \in Requests, ReadPending(r) PROVE OrderInv'
  <2>1. /\ Begin(r, "enable", "delete") /\ user.pending # None /\ ~user.enabled
        /\ UNCHANGED Factor /\ codes' = codes
    BY <1>3 DEF ReadPending, Factor
  <2> QED
    BY <2>1, BeginStep
<1>4. ASSUME NEW r \in Requests, ReserveAttempt(r) PROVE OrderInv'
  <2>1. PICK kind \in {"disable", "regenerate", "login"} : Begin(r, kind, "check")
    BY <1>4 DEF ReserveAttempt
  <2>2. UNCHANGED Factor /\ codes' = codes
    BY <1>0, <1>4 DEF ReserveAttempt, Factor, User
  <2> QED
    BY <2>1, <2>2, BeginStep
<1> QED
  BY <1>1, <1>2, <1>3, <1>4, VerifyStep, BurnStep, OffStep, DeleteStep, InsertStep, OnSettles,
     AnswerSettles, DieStep DEF Next

LEMMA FullInvariant == Spec => []FullInv
<1>1. Init => FullInv
  <2>1. Init => BatchInv /\ OnceInv /\ OrderInv
    BY DEF Init, BatchInv, OnceInv, Makes, OrderInv, Changing
  <2> QED
    BY <2>1, TypeInit DEF FullInv
<1>2. FullInv /\ [Next]_vars => FullInv'
  BY TypeStep, OnceStep, OrderStep DEF FullInv
<1> QED
  BY <1>1, <1>2, PTL DEF Spec

\* As long as no two changes of the enrolment overlapped, an enabled factor has a secret
\* that a code has confirmed; and unless the last batch died on its way, the codes in
\* force are those last shown, less the used ones (totp.ts, second-factor.ts), for any
\* number of requests that verify a code meanwhile or die.
THEOREM EnrolmentCorrect == Spec => []EnrolmentWhole
<1>1. FullInv => EnrolmentWhole
  BY DEF FullInv, OrderInv, EnrolmentWhole, Whole
<1> QED
  BY <1>1, FullInvariant, PTL
=============================================================================
