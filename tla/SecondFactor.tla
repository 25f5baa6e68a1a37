---------------------------- MODULE SecondFactor ----------------------------
(***************************************************************************)
(* The second factor of one account: a TOTP secret, backup codes, and the  *)
(* lock after too many attempts.                                           *)
(*                                                                         *)
(* Each request is a chain of separate statements, none in a transaction:  *)
(* requests interleave, and one that dies leaves what it has written.      *)
(* Secrets and batches of backup codes are numbered in the order they are  *)
(* made; the TOTP code [s, t] is that of secret s at time step t, and the  *)
(* backup code [b, i] is the i-th of batch b.  A "login" is any request    *)
(* that only verifies a code: login, re-authentication, owner's portal.    *)
(***************************************************************************)
EXTENDS Naturals, FiniteSetsExt

CONSTANTS Requests,     \* slots for the requests under way
          None,
          BatchSize,    \* backup codes of a batch
          MaxFailures,  \* attempts before the lock
          MaxSecrets, MaxBatches, MaxStep  \* bounds: enrolments, batches, time

VARIABLES user,    \* the mfa_* columns of the row of users
          codes,   \* the rows of mfa_backup_codes not used
          call,    \* what each slot is at
          clock,   \* the time step
          past     \* history: secrets made, and confirmed by a code; batches made,
                   \* and answered; codes accepted, and accepted again; whether
                   \* two changes of the enrolment overlapped, or the codes of
                   \* the last one died on their way

vars == <<user, codes, call, clock, past>>

Secret == 1..MaxSecrets
Batch  == 1..MaxBatches
Step   == 0..MaxStep
Totp   == [s : Secret, t : Step]
Backup == [b : Batch, i : 1..BatchSize]
Call   == [kind : {"enable", "disable", "regenerate", "login"},
           pc : {"check", "consume", "reset", "off", "delete", "insert", "on", "answer"},
           code : Totp \cup {None},    \* the TOTP code that matched
           batch : Batch \cup {None},  \* the backup codes it makes
           next : 1..BatchSize]        \* the one to insert

ASSUME SecondFactorAssumption ==
  /\ {BatchSize, MaxFailures} \subseteq Nat \ {0}
  /\ {MaxSecrets, MaxBatches, MaxStep} \subseteq Nat
  /\ None \notin Secret \cup Batch \cup Step \cup Totp \cup Call

TypeOK ==
  /\ user \in [enabled : BOOLEAN, secret : Secret \cup {None}, pending : Secret \cup {None},
               last : Step \cup {None}, failed : 0..MaxFailures]
  /\ codes \subseteq Backup /\ clock \in Step
  /\ call \in [Requests -> Call \cup {None}]
  /\ past \in [secrets : 0..MaxSecrets, confirmed : SUBSET Secret,
               batches : 0..MaxBatches, shown : SUBSET Batch,
               accepted : SUBSET (Totp \cup Backup), replayed : SUBSET (Totp \cup Backup),
               crossed : BOOLEAN, halfway : BOOLEAN]

Init ==
  /\ user = [enabled |-> FALSE, secret |-> None, pending |-> None, last |-> None,
             failed |-> 0]
  /\ codes = {} /\ call = [r \in Requests |-> None] /\ clock = 0
  /\ past = [secrets |-> 0, confirmed |-> {}, batches |-> 0, shown |-> {},
             accepted |-> {}, replayed |-> {}, crossed |-> FALSE,
             halfway |-> FALSE]

-----------------------------------------------------------------------------

At(r, pc)    == call[r] # None /\ call[r].pc = pc
Goto(r, pc)  == call' = [call EXCEPT ![r].pc = pc]
End(r)       == call' = [call EXCEPT ![r] = None]

\* The requests that change the enrolment, and history of their overlaps.
Changing     == {r \in Requests : call[r] # None /\ call[r].kind # "login"}
Crossed      == past.crossed \/ Changing # {}

\* mfa_locked_until is in the future.
Locked == user.failed = MaxFailures

\* matchTotpStep tolerates a clock one step off.
Matches(code, s) == code.s = s /\ code.t <= clock + 1 /\ clock <= code.t + 1

\* The code is accepted, and the request goes on to reset the counter.
Accept(r, code) ==
  /\ Goto(r, "reset")
  /\ past' = [past EXCEPT !.accepted = @ \cup {code},
                          !.replayed = @ \cup ({code} \cap past.accepted)]

\* A request begins; enabling and regenerating will make a batch of codes.
Begin(r, kind, pc) ==
  LET makes == kind \in {"enable", "regenerate"}
      b     == past.batches + 1
  IN  /\ call[r] = None /\ (makes => b \in Batch)
      /\ call' = [call EXCEPT ![r] = [kind |-> kind, pc |-> pc, code |-> None, next |-> 1,
                                      batch |-> IF makes THEN b ELSE None]]
      /\ past' = [past EXCEPT !.crossed = IF kind = "login" THEN @ ELSE Crossed,
                              !.batches = IF makes THEN b ELSE @,
                              !.confirmed = IF kind = "enable" THEN @ \cup {user.pending} ELSE @]

-----------------------------------------------------------------------------
(* The statements, in the order of the routes.                             *)

\* A secret is made and waits for its confirmation.
Setup ==
  /\ past.secrets < MaxSecrets
  /\ user' = [user EXCEPT !.pending = past.secrets + 1]
  /\ past' = [past EXCEPT !.secrets = @ + 1, !.crossed = Crossed]
  /\ UNCHANGED <<codes, call, clock>>

\* The pending secret is read, and a code of it confirms it.
ReadPending(r) ==
  /\ ~user.enabled /\ user.pending # None
  /\ Begin(r, "enable", "delete")
  /\ UNCHANGED <<user, codes, clock>>

\* Mutant of ReserveAttempt: it goes on counting under the lock.
ReserveAttemptAlways(r) ==
  /\ \E kind \in {"disable", "regenerate", "login"} : Begin(r, kind, "check")
  /\ user' = [user EXCEPT !.failed = @ + 1]
  /\ UNCHANGED <<codes, clock>>

\* An attempt is counted before its code is looked at, in one statement; the
\* one that reaches the limit locks the account for those that follow, which
\* are refused.
ReserveAttempt(r) ==
  /\ ~Locked
  /\ \E kind \in {"disable", "regenerate", "login"} : Begin(r, kind, "check")
  /\ user' = [user EXCEPT !.failed = @ + 1]
  /\ UNCHANGED <<codes, clock>>

\* A code of the secret in force is noted; its step is consumed next.
CheckTotp(r) ==
  /\ At(r, "check") /\ user.enabled
  /\ \E c \in Totp : Matches(c, user.secret) /\ call' = [call EXCEPT ![r].pc = "consume", ![r].code = c]
  /\ UNCHANGED <<user, codes, clock, past>>

\* Mutant of Consume: no memory of the last step.
ConsumeAny(r) ==
  /\ At(r, "consume")
  /\ user' = [user EXCEPT !.last = call[r].code.t] /\ Accept(r, call[r].code)
  /\ UNCHANGED <<codes, clock>>

\* One statement compares the step with the last one consumed and replaces it.
Consume(r) ==
  /\ At(r, "consume")
  /\ LET c == call[r].code
     IN  IF user.last = None \/ user.last < c.t
           THEN user' = [user EXCEPT !.last = c.t] /\ Accept(r, c)
           ELSE End(r) /\ UNCHANGED <<user, past>>
  /\ UNCHANGED <<codes, clock>>

\* A backup code that was shown is found unused and burned in one statement.
BurnBackup(r) ==
  /\ At(r, "check")
  /\ \E c \in codes : /\ c.b \in past.shown
                      /\ codes' = codes \ {c} /\ Accept(r, c)
  /\ UNCHANGED <<user, clock>>

\* Any other code is refused; the attempt stays counted.
RefuseCode(r) ==
  /\ At(r, "check") /\ End(r)
  /\ UNCHANGED <<user, codes, clock, past>>

ResetAttempts(r) ==
  /\ At(r, "reset")
  /\ user' = [user EXCEPT !.failed = 0]
  /\ CASE call[r].kind = "login"      -> End(r)
       [] call[r].kind = "disable"    -> Goto(r, "off")
       [] call[r].kind = "regenerate" -> Goto(r, "delete")
  /\ UNCHANGED <<codes, clock, past>>

\* Disabling clears both secrets, then deletes the codes.
Off(r) ==
  /\ At(r, "off") /\ Goto(r, "delete")
  /\ user' = [user EXCEPT !.enabled = FALSE, !.secret = None, !.pending = None]
  /\ UNCHANGED <<codes, clock, past>>

\* Mutant of DeleteCodes: enabling takes the table for empty.
DeleteCodesIfNeeded(r) ==
  /\ At(r, "delete")
  /\ codes' = IF call[r].kind = "enable" THEN codes ELSE {}
  /\ IF call[r].kind = "disable" THEN End(r) ELSE Goto(r, "insert")
  /\ UNCHANGED <<user, clock, past>>

DeleteCodes(r) ==
  /\ At(r, "delete") /\ codes' = {}
  /\ IF call[r].kind = "disable" THEN End(r) ELSE Goto(r, "insert")
  /\ UNCHANGED <<user, clock, past>>

\* One statement for each code of the batch.
InsertCode(r) ==
  /\ At(r, "insert")
  /\ LET i == call[r].next
     IN  /\ codes' = codes \cup {[b |-> call[r].batch, i |-> i]}
         /\ IF i < BatchSize THEN call' = [call EXCEPT ![r].next = i + 1]
            ELSE Goto(r, IF call[r].kind = "enable" THEN "on" ELSE "answer")
  /\ UNCHANGED <<user, clock, past>>

\* Whatever secret is pending now comes into force.
On(r) ==
  /\ At(r, "on") /\ Goto(r, "answer")
  /\ user' = [user EXCEPT !.enabled = TRUE, !.secret = user.pending, !.pending = None]
  /\ UNCHANGED <<codes, clock, past>>

\* The answer shows the batch to the user.
Answer(r) ==
  /\ At(r, "answer") /\ End(r)
  /\ past' = [past EXCEPT !.shown = @ \cup {call[r].batch}, !.halfway = FALSE]
  /\ UNCHANGED <<user, codes, clock>>

\* The server stops, a statement fails, or the answer is lost.
Die(r) ==
  /\ call[r] # None /\ End(r)
  /\ past' = [past EXCEPT !.halfway = @ \/ call[r].pc \in {"insert", "on", "answer"}]
  /\ UNCHANGED <<user, codes, clock>>

\* An owner who lost the factor: the command line removes it in a transaction.
ResetOwnerAccess ==
  /\ codes' = {}
  /\ user' = [user EXCEPT !.enabled = FALSE, !.secret = None, !.pending = None]
  /\ past' = [past EXCEPT !.crossed = Crossed]
  /\ UNCHANGED <<call, clock>>

Tick == clock < MaxStep /\ clock' = clock + 1 /\ UNCHANGED <<user, codes, call, past>>

\* mfa_locked_until has come: the next attempt will count as the first.
LockEnds ==
  /\ Locked /\ user' = [user EXCEPT !.failed = 0]
  /\ UNCHANGED <<codes, call, clock, past>>

Next ==
  \/ Setup \/ ResetOwnerAccess \/ Tick \/ LockEnds
  \/ \E r \in Requests :
       \/ ReadPending(r) \/ ReserveAttempt(r) \/ CheckTotp(r) \/ Consume(r)
       \/ BurnBackup(r) \/ RefuseCode(r) \/ ResetAttempts(r) \/ Off(r) \/ DeleteCodes(r)
       \/ InsertCode(r) \/ On(r) \/ Answer(r) \/ Die(r)

Spec == Init /\ [][Next]_vars

-----------------------------------------------------------------------------
(* Properties.                                                             *)

\* verifySecondFactor accepts a code at most once, whatever requests present it
\* together and whatever is enabled, disabled or regenerated meanwhile: a TOTP
\* step or a backup code is taken by one conditional statement.
AcceptedOnce == past.replayed = {}

\* As long as no two changes of the enrolment overlapped, an enabled factor has
\* a secret that a code has confirmed, wherever a request died; and unless the
\* last batch of codes died on its way (the next one makes up for it), the
\* codes in force are those last shown, less the used ones, and no code of an
\* earlier enrolment.
EnrolmentWhole ==
  user.enabled /\ ~past.crossed =>
    /\ user.secret \in past.confirmed
    /\ Changing = {} /\ ~past.halfway =>
         codes = {c \in Backup : c.b = Max(past.shown)} \ past.accepted

\* « Enable: confirm the pending secret with a first valid code »: the secret in
\* force is one that a code has confirmed.
SecretConfirmed == user.enabled => user.secret \in past.confirmed
=============================================================================
