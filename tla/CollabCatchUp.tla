--------------------------- MODULE CollabCatchUp ---------------------------
(***************************************************************************)
(* The receiving side of a co-editing channel (web-studio/src/drive-cloud/ *)
(* collab.ts): the log is replayed page by page while live updates arrive  *)
(* on the socket, and both move the same cursor lastSeq.  CollabLog has    *)
(* the sending side; here the log only grows (a compaction evicts the room *)
(* and every channel starts over).                                         *)
(***************************************************************************)
EXTENDS Naturals, Sequences, FiniteSetsExt

CONSTANTS
    PageSize,   \* COLLAB_PAGE_SIZE
    MaxSeq,     \* bound: rows of the log
    MaxFaults   \* bound: broken sockets

VARIABLES
    taken,      \* the sequence behind collab_updates.id: numbers given out
    rows,       \* numbers of the committed rows
    gen,        \* the channel's connections so far; each has one catch-up at a time
    phase,      \* where the current connection is, see Phases
    lastSeq,    \* the channel's cursor, shared by its catch-ups and the live updates
    run,        \* the catch-up of each connection: an earlier one may still be going
    integrated, \* rows the editor has
    inbox,      \* live updates on the socket, in order
    lapped      \* history: someone else moved the cursor past a page of the catch-up

vars == <<taken, rows, gen, phase, lastSeq, run, integrated, inbox, lapped>>
log == <<taken, rows>>

Seqs == 1..MaxSeq
Gens == 0..MaxFaults

\* No socket; catchUp of connect or reconnect; open; ready received and key being
\* renewed; catchUp of the ready handler; ready handler finished.
Phases == {"closed", "resync", "connecting", "rekey", "catchUp", "open"}
InRoom == phase \in {"rekey", "catchUp", "open"}

\* state: no catch-up, request sent, page read by the server, page being replayed.
\* upTo is a history field: the last row of the page.
Run == [state : {"none", "sent", "read", "replay"}, since : 0..MaxSeq, before : 0..MaxSeq,
        rows : SUBSET Seqs, upTo : 0..MaxSeq, more : BOOLEAN, batch : SUBSET Seqs]
Idle == [state |-> "none", since |-> 0, before |-> 0, rows |-> {}, upTo |-> 0, more |-> FALSE,
         batch |-> {}]
Ask(r, since) == [r EXCEPT !.state = "sent", !.since = since, !.rows = {}]

ASSUME CatchUpAssumption == PageSize \in Nat \ {0} /\ MaxSeq \in Nat /\ MaxFaults \in Nat

\* The type of the variables; the cursor and the editor never run ahead of the log.
TypeOK ==
    /\ taken \in 0..MaxSeq /\ rows \subseteq 1..taken
    /\ gen \in Gens /\ phase \in Phases
    /\ lastSeq \in {0} \cup rows
    /\ run \in [Gens -> Run] /\ \A g \in Gens : g > gen => run[g] = Idle
    /\ integrated \subseteq rows /\ inbox \in Seq(rows)
    /\ lapped \in BOOLEAN

Init ==
    /\ taken = 0 /\ rows = {} /\ gen = 0 /\ phase = "closed" /\ lastSeq = 0
    /\ run = [g \in Gens |-> Idle] /\ integrated = {} /\ inbox = <<>>
    /\ lapped = FALSE

Ahead(s) == IF s > lastSeq THEN s ELSE lastSeq

-----------------------------------------------------------------------------
(* The relay: an INSERT takes its number, then commits and is broadcast.   *)

Take ==
    /\ taken < MaxSeq
    /\ taken' = taken + 1
    /\ UNCHANGED <<rows, gen, phase, lastSeq, run, integrated, inbox, lapped>>

Commit(s) ==
    /\ s <= taken /\ s \notin rows
    /\ rows' = rows \cup {s}
    /\ inbox' = IF InRoom THEN Append(inbox, s) ELSE inbox
    /\ UNCHANGED <<taken, gen, phase, lastSeq, run, integrated, lapped>>

\* GET /api/collab/:nodeId/updates?since.
ReadPage(g) ==
    /\ run[g].state = "sent"
    /\ LET after == {s \in rows : s > run[g].since}
           first == {s \in after : Cardinality({t \in after : t <= s}) <= PageSize}
       IN run' = [run EXCEPT ![g].state = "read", ![g].rows = first, ![g].more = first # after,
                             ![g].upTo = IF first = {} THEN @ ELSE Max(first)]
    /\ UNCHANGED <<log, gen, phase, lastSeq, integrated, inbox, lapped>>

-----------------------------------------------------------------------------
(* The channel: a catch-up.                                                *)

\* connect, reconnect: the backlog first, from where the cursor is.
Reconnect ==
    /\ phase = "closed"
    /\ phase' = "resync"
    /\ run' = [run EXCEPT ![gen] = Ask(Idle, lastSeq)]
    /\ UNCHANGED <<log, gen, lastSeq, integrated, inbox, lapped>>

Receive(g) ==
    /\ run[g].state = "read"
    /\ run' = [run EXCEPT ![g].state = "replay", ![g].before = lastSeq]
    /\ UNCHANGED <<log, gen, phase, lastSeq, integrated, inbox, lapped>>

\* One entry: it moves the cursor whether or not it can be read.  The key may be
\* stale until the ready handler has renewed it.
ReplayRow(g, readable) ==
    /\ run[g].state = "replay" /\ run[g].rows # {}
    /\ ~readable => g < gen \/ phase = "resync"
    /\ LET s == Min(run[g].rows) IN
       /\ lastSeq' = Ahead(s)
       /\ run' = [run EXCEPT ![g].rows = @ \ {s},
                             ![g].batch = IF readable THEN @ \cup {s} ELSE @]
    /\ UNCHANGED <<log, gen, phase, integrated, inbox, lapped>>

\* The page is replayed: ask for the next one, or stop at the last one or when
\* the cursor did not move.  Only the end hands the batch to the editor.
NextPage(g) ==
    /\ run[g].state = "replay" /\ run[g].rows = {}
    /\ run[g].more /\ lastSeq # run[g].before
    /\ run' = [run EXCEPT ![g] = Ask(@, lastSeq)]
    /\ lapped' = (lapped \/ (g = gen /\ lastSeq # run[g].upTo))
    /\ UNCHANGED <<log, gen, phase, lastSeq, integrated, inbox>>

\* The last page, or a page that did not move the cursor, ends it.
EndCatchUp(g) ==
    /\ run[g].state = "replay" /\ run[g].rows = {}
    /\ ~run[g].more \/ lastSeq = run[g].before
    /\ integrated' = integrated \cup run[g].batch
    /\ run' = [run EXCEPT ![g] = Idle]
    /\ phase' = IF g < gen THEN phase ELSE IF phase = "resync" THEN "connecting" ELSE "open"
    /\ lapped' = (lapped \/ (g = gen /\ run[g].more))
    /\ UNCHANGED <<log, gen, lastSeq, inbox>>

-----------------------------------------------------------------------------
(* The channel: its socket.                                                *)

\* The relay puts the socket in the room and says ready.
Join ==
    /\ phase = "connecting"
    /\ phase' = "rekey"
    /\ UNCHANGED <<log, gen, lastSeq, run, integrated, inbox, lapped>>

\* Mutant of Renewed: the replay starts where the cursor is.
RenewedInPlace ==
    /\ phase = "rekey"
    /\ phase' = "catchUp"
    /\ run' = [run EXCEPT ![gen] = Ask(Idle, lastSeq)]
    /\ lapped' = FALSE
    /\ UNCHANGED <<log, gen, lastSeq, integrated, inbox>>

\* The key is renewed and the whole log replayed.
Renewed ==
    /\ phase = "rekey"
    /\ phase' = "catchUp"
    /\ lastSeq' = 0
    /\ run' = [run EXCEPT ![gen] = Ask(Idle, 0)]
    /\ lapped' = FALSE
    /\ UNCHANGED <<log, gen, integrated, inbox>>

\* Mutant of Live: the cursor counts messages.
LiveCounted(readable) ==
    /\ inbox # <<>>
    /\ ~readable => phase = "rekey"
    /\ inbox' = Tail(inbox)
    /\ lastSeq' = lastSeq + 1
    /\ integrated' = IF readable THEN integrated \cup {Head(inbox)} ELSE integrated
    /\ UNCHANGED <<log, gen, phase, run, lapped>>

\* A live update moves the cursor; one under a key not yet renewed is ignored.
Live(readable) ==
    /\ inbox # <<>>
    /\ ~readable => phase = "rekey"
    /\ inbox' = Tail(inbox)
    /\ lastSeq' = Ahead(Head(inbox))
    /\ integrated' = IF readable THEN integrated \cup {Head(inbox)} ELSE integrated
    /\ UNCHANGED <<log, gen, phase, run, lapped>>

\* The socket closes (or the ready handler's catch-up fails and closes it); that
\* catch-up, if it did not fail, goes on.
Break ==
    /\ phase \in {"connecting", "rekey", "catchUp", "open"} /\ gen < MaxFaults
    /\ gen' = gen + 1 /\ phase' = "closed" /\ inbox' = <<>>
    /\ UNCHANGED <<log, lastSeq, run, integrated, lapped>>

\* A request of reconnect's catch-up fails: the socket is opened all the same.
\* (The first connect rejects instead, and there is no channel.)
FailResync ==
    /\ phase = "resync" /\ gen > 0 /\ run[gen].state \in {"sent", "read"}
    /\ phase' = "connecting"
    /\ run' = [run EXCEPT ![gen] = Idle]
    /\ UNCHANGED <<log, gen, lastSeq, integrated, inbox, lapped>>

ChannelStep ==
    \/ Reconnect \/ Join \/ Renewed
    \/ \E readable \in BOOLEAN : Live(readable)
    \/ \E g \in Gens : \/ Receive(g) \/ NextPage(g) \/ EndCatchUp(g)
                       \/ \E readable \in BOOLEAN : ReplayRow(g, readable)

Next ==
    \/ Take \/ \E s \in Seqs : Commit(s)
    \/ \E g \in Gens : ReadPage(g)
    \/ ChannelStep \/ Break \/ FailResync

Spec == Init /\ [][Next]_vars

\* Requests are answered and the client works on what it receives; nothing makes
\* the writers write or a connection fail.
FairSpec == Spec /\ WF_vars(\E g \in Gens : ReadPage(g)) /\ WF_vars(ChannelStep)

-----------------------------------------------------------------------------
(* Properties.                                                             *)

Missed == rows \ (integrated \cup {inbox[i] : i \in 1..Len(inbox)})

\* A channel that has finished its catch-up misses nothing: each committed row
\* is in the editor or in its inbox (collab.ts:105-114).
NoGap == phase = "open" => Missed = {}

\* It misses nothing unless its cursor was moved between two of its own pages.
NoGapUnlessLapped == phase = "open" /\ ~lapped => Missed = {}

\* Under the same condition, every committed row reaches the editor.
Converges == \A s \in Seqs : s \in rows ~> (s \in integrated \/ lapped)
=============================================================================
