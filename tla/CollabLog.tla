----------------------------- MODULE CollabLog -----------------------------
(***************************************************************************)
(* The encrypted co-editing log of one document.  Co-authors send their    *)
(* edits through EncryptedCollabChannel (web-studio/src/drive-cloud/       *)
(* collab.ts); the relay (server/src/collab/relay.ts) appends each one to  *)
(* collab_updates and acknowledges it; a manager who rotates the node's    *)
(* key, or repairs an interrupted rotation, replaces the log by a snapshot *)
(* (drive-cloud/rotate.ts).  Keys are named by epochs, as in KeyRotation.  *)
(***************************************************************************)
EXTENDS Naturals, FiniteSets

CONSTANTS
    Clients,         \* channels of co-authors, one editor tab each
    Managers,        \* clients allowed to rotate and compact (node.acl.manage)
    Flaky,           \* managers whose compaction may fail or be answered in vain
    Slow,            \* clients whose awaited calls may outlive the socket they were for
    Closers,         \* clients that may close the document
    Edits,           \* local edits, each made once
    MaxInserts,      \* INSERT statements the database runs at once
    MaxEpoch, MaxSeq, MaxSockets, \* bounds: rotations, log rows, sockets per client
    MaxFaults, MaxRevocations     \* bounds: broken sockets or inserts, revocations

VARIABLES
    node,        \* the row of table nodes
    log,         \* committed rows of collab_updates
    nextSeq,     \* the sequence behind collab_updates.id
    inserts,     \* INSERT statements that hold a number and have not committed
    peers,       \* the relay's end of each socket
    frames,      \* updates sent by clients and not yet handled by the relay
    answers,     \* acks and errors not yet received by clients
    chan,        \* each client's EncryptedCollabChannel
    encrypting,  \* calls of sendNow awaiting encryptContent
    handlers,    \* calls of onMessage handling "ready"
    comp,        \* each manager's rotation or repair, from the key swap on
    made,        \* history: the edits made so far
    faults, revocations,
    unfinished   \* history: see Left

server == <<node, log, nextSeq, inserts>>
tasks  == <<encrypting, handlers>>
wire   == <<frames, answers>>
counts == <<faults, revocations, unfinished>>
vars   == <<server, peers, wire, chan, tasks, comp, made, counts>>

Epochs  == 1..MaxEpoch
Keys    == 0..MaxEpoch
Sockets == 1..MaxSockets

Node == [epoch : Epochs, slot : Keys, rotationRequired : BOOLEAN]

\* A row: the key its ciphertext is under and the edits the ciphertext carries.
Entry == [seq : 1..MaxSeq, key : Epochs, edits : SUBSET Edits]

\* state: admission checks done, in the room, kicked or told to close.
Peer == [client : Clients, sock : Sockets, epoch : Epochs, canWrite : BOOLEAN,
         state : {"checked", "joined", "out"}]

Frame  == [client : Clients, sock : Sockets, edit : Edits, key : Epochs]
Insert == [seq : 1..MaxSeq, frame : Frame]
Answer == [client : Clients, sock : Sockets, edit : Edits, ok : BOOLEAN]

\* step: getNode asked, answered with key, key adopted and backlog being read.
Handler == [client : Clients, sock : Sockets, canWrite : BOOLEAN, key : Keys,
            step : {"asked", "answered", "catchUp"}]

\* phase: rekeyAndReconnect under way; waiting to reconnect; socket open; close()
\* called, waiting for inflight; closed.
Channel == [phase : {"rekey", "offline", "online", "closing", "closed"},
            sock : 0..MaxSockets, ready : BOOLEAN, key : Epochs,
            outbox : SUBSET Edits, unacknowledged : SUBSET Edits]

Compaction == [pc : {"idle", "read", "compact"}, to : Epochs, keys : SUBSET Epochs,
               upToSeq : 0..MaxSeq, edits : SUBSET Edits]

ASSUME CollabLogAssumption ==
    /\ Flaky \subseteq Managers
    /\ Slow \subseteq Clients /\ Closers \subseteq Clients
    /\ MaxInserts \in Nat \ {0} /\ MaxEpoch \in Nat \ {0}
    /\ MaxSeq \in Nat /\ MaxSockets \in Nat /\ MaxFaults \in Nat /\ MaxRevocations \in Nat

TypeOK ==
    /\ node \in Node
    /\ log \subseteq Entry
    /\ nextSeq \in 1..MaxSeq + 1
    /\ inserts \subseteq Insert
    /\ peers \subseteq Peer
    /\ frames \subseteq Frame
    /\ answers \subseteq Answer
    /\ chan \in [Clients -> Channel]
    /\ encrypting \subseteq Frame
    /\ handlers \subseteq Handler
    /\ comp \in [Managers -> Compaction]
    /\ made \subseteq Edits
    /\ faults \in 0..MaxFaults
    /\ revocations \in 0..MaxRevocations
    /\ unfinished \subseteq Epochs

Init ==
    /\ node = [epoch |-> 1, slot |-> 0, rotationRequired |-> FALSE]
    /\ log = {} /\ nextSeq = 1 /\ inserts = {}
    /\ peers = {} /\ frames = {} /\ answers = {}
    /\ chan = [c \in Clients |-> [phase |-> "offline", sock |-> 0, ready |-> FALSE, key |-> 1,
                                  outbox |-> {}, unacknowledged |-> {}]]
    /\ encrypting = {} /\ handlers = {}
    /\ comp = [m \in Managers |-> [pc |-> "idle", to |-> 1, keys |-> {}, upToSeq |-> 0,
                                   edits |-> {}]]
    /\ made = {} /\ faults = 0 /\ revocations = 0 /\ unfinished = {}

Logged     == UNION {l.edits : l \in log}
Carried    == {f.edit : f \in frames} \cup {i.frame.edit : i \in inserts}
Held(c)    == IF chan[c].phase = "closed" THEN {}
              ELSE chan[c].outbox \cup chan[c].unacknowledged
                   \cup {t.edit : t \in {x \in encrypting : x.client = c}}
AllHeld    == UNION {Held(c) : c \in Clients}
Listening(c, s) == chan[c].phase \in {"online", "closing"} /\ chan[c].sock = s

-----------------------------------------------------------------------------
(* The channel, sending side.                                              *)

\* sendNow before its await: encrypt under the key and for the socket of the
\* moment, or keep the edit for the next connection.
Sending(c, E) == {[client |-> c, sock |-> chan[c].sock, edit |-> e, key |-> chan[c].key] : e \in E}

Edit(c, e) ==
    /\ chan[c].phase \notin {"closing", "closed"}
    /\ e \notin made
    /\ made' = made \cup {e}
    /\ IF chan[c].ready
       THEN encrypting' = encrypting \cup Sending(c, {e}) /\ UNCHANGED chan
       ELSE chan' = [chan EXCEPT ![c].outbox = @ \cup {e}] /\ UNCHANGED encrypting
    /\ UNCHANGED <<server, peers, wire, handlers, comp, counts>>

\* sendNow after its await: sent if nothing changed meanwhile (socket, key,
\* admission), else kept.
Encrypted(t) ==
    /\ encrypting' = encrypting \ {t}
    /\ IF chan[t.client].ready /\ Listening(t.client, t.sock) /\ chan[t.client].key = t.key
       THEN /\ chan' = [chan EXCEPT ![t.client].unacknowledged = @ \cup {t.edit}]
            /\ frames' = frames \cup {t}
       ELSE /\ chan' = [chan EXCEPT ![t.client].outbox = @ \cup {t.edit}]
            /\ UNCHANGED frames
    /\ UNCHANGED <<server, peers, answers, handlers, comp, made, counts>>

Received(a) ==
    /\ a.ok
    /\ answers' = answers \ {a}
    /\ chan' = IF Listening(a.client, a.sock)
               THEN [chan EXCEPT ![a.client].unacknowledged = @ \ {a.edit}] ELSE chan
    /\ UNCHANGED <<server, peers, frames, tasks, comp, made, counts>>

\* onclose: what was sent and not acknowledged goes back to the outbox, unless
\* the user closed the document.
Disconnect(c, next, kept) ==
    /\ chan' = [chan EXCEPT ![c].phase = IF chan[c].phase = "closing" THEN "closed" ELSE next,
                            ![c].ready = FALSE,
                            ![c].outbox = IF chan[c].phase = "closing" THEN @ ELSE @ \cup kept,
                            ![c].unacknowledged = IF chan[c].phase = "closing" THEN @ ELSE {}]
    /\ answers' = {a \in answers : a.client # c}

\* Mutant of Kicked: unacknowledged edits are forgotten.
KickedForgetful(p) ==
    /\ p.state = "out" /\ Listening(p.client, p.sock)
    /\ Disconnect(p.client, "rekey", {})
    /\ UNCHANGED <<server, peers, frames, tasks, comp, made, counts>>

\* Code 4001, from kickRoom or after a refused insert: the key must be renewed.
Kicked(p) ==
    /\ p.state = "out" /\ Listening(p.client, p.sock)
    /\ Disconnect(p.client, "rekey", chan[p.client].unacknowledged)
    /\ UNCHANGED <<server, peers, frames, tasks, comp, made, counts>>

\* An error answer: the client closes the socket (code 4000) and reconnects.
Refused(a) ==
    /\ ~a.ok /\ Listening(a.client, a.sock)
    /\ Disconnect(a.client, "offline", chan[a.client].unacknowledged)
    /\ UNCHANGED <<server, peers, frames, tasks, comp, made, counts>>

\* The network breaks, or the ready handler could not renew the key (4001).
Break(c, next) ==
    /\ faults < MaxFaults
    /\ chan[c].phase \in {"online", "closing"}
    /\ next = "rekey" => \E h \in handlers : h.client = c /\ h.sock = chan[c].sock
    /\ faults' = faults + 1
    /\ Disconnect(c, next, chan[c].unacknowledged)
    /\ UNCHANGED <<server, peers, frames, tasks, comp, made, revocations, unfinished>>

\* rekeyAndReconnect.  Its request and its assignment are one step: the key is
\* renewed again by the ready handler before anything is sent.
Rekey(c) ==
    /\ chan[c].phase = "rekey"
    /\ chan' = [chan EXCEPT ![c].phase = "offline", ![c].key = node.epoch]
    /\ UNCHANGED <<server, peers, wire, tasks, comp, made, counts>>

\* reconnect, after its timer: what was awaited for the old socket has come by
\* then, unless the client is slow.
Connect(c) ==
    /\ chan[c].phase = "offline" /\ chan[c].sock < MaxSockets
    /\ c \notin Slow => \A t \in encrypting \cup handlers : t.client # c
    /\ chan' = [chan EXCEPT ![c].phase = "online", ![c].sock = @ + 1, ![c].ready = FALSE]
    /\ UNCHANGED <<server, peers, wire, tasks, comp, made, counts>>

\* close(): no further edit; the socket closes once inflight has settled.
Close(c) ==
    /\ c \in Closers
    /\ chan[c].phase \notin {"closing", "closed"}
    /\ chan' = [chan EXCEPT ![c].phase = IF @ = "online" THEN "closing" ELSE "closed"]
    /\ UNCHANGED <<server, peers, wire, tasks, comp, made, counts>>

CloseSocket(c) ==
    /\ chan[c].phase = "closing"
    /\ \A t \in encrypting : t.client # c
    /\ Disconnect(c, "closed", {})
    /\ UNCHANGED <<server, peers, frames, tasks, comp, made, counts>>

-----------------------------------------------------------------------------
(* Admission.                                                              *)

\* The relay reads the access and the key state of the node, then, after its
\* awaits, puts the socket in the room and says ready.
Admit(c) ==
    /\ chan[c].phase \in {"online", "closing"}
    /\ \A p \in peers : ~(p.client = c /\ p.sock = chan[c].sock)
    /\ peers' = peers \cup {[client |-> c, sock |-> chan[c].sock, epoch |-> node.epoch,
                             canWrite |-> ~node.rotationRequired, state |-> "checked"]}
    /\ UNCHANGED <<server, wire, chan, tasks, comp, made, counts>>

Join(p) ==
    /\ p.state = "checked" /\ Listening(p.client, p.sock)
    /\ peers' = (peers \ {p}) \cup {[p EXCEPT !.state = "joined"]}
    /\ handlers' = handlers \cup {[client |-> p.client, sock |-> p.sock, canWrite |-> p.canWrite,
                                   key |-> 0, step |-> "asked"]}
    /\ UNCHANGED <<server, wire, chan, encrypting, comp, made, counts>>

\* The relay notices that a socket is gone: what it had not read of it is lost.
PeerGone(p) ==
    /\ ~Listening(p.client, p.sock)
    /\ peers' = peers \ {p}
    /\ frames' = {f \in frames : ~(f.client = p.client /\ f.sock = p.sock)}
    /\ UNCHANGED <<server, answers, chan, tasks, comp, made, counts>>

KeyRead(h) ==
    /\ h.step = "asked"
    /\ handlers' = (handlers \ {h}) \cup {[h EXCEPT !.key = node.epoch, !.step = "answered"]}
    /\ UNCHANGED <<server, peers, wire, chan, encrypting, comp, made, counts>>

\* nodeKey is assigned before the handler looks at the socket it was for.
KeyAdopted(h) ==
    /\ h.step = "answered"
    /\ chan' = [chan EXCEPT ![h.client].key = h.key]
    /\ handlers' = (handlers \ {h}) \cup {[h EXCEPT !.step = "catchUp"]}
    /\ UNCHANGED <<server, peers, wire, encrypting, comp, made, counts>>

\* The end of the ready handler: back to work, or nothing when the socket is no
\* longer the channel's.
Ready(h) ==
    /\ h.step = "catchUp"
    /\ handlers' = handlers \ {h}
    /\ IF Listening(h.client, h.sock) /\ chan[h.client].phase = "online"
       THEN /\ chan' = [chan EXCEPT ![h.client].ready = h.canWrite,
                                    ![h.client].outbox = IF h.canWrite THEN {} ELSE @]
            /\ encrypting' = encrypting \cup
                 (IF h.canWrite THEN Sending(h.client, chan[h.client].outbox) ELSE {})
       ELSE UNCHANGED <<chan, encrypting>>
    /\ UNCHANGED <<server, peers, wire, comp, made, counts>>

-----------------------------------------------------------------------------
(* The relay: an update frame.                                             *)

Current(p) == node.epoch = p.epoch /\ ~node.rotationRequired

StartInsert(f, ok) ==
    /\ ok
    /\ Cardinality(inserts) < MaxInserts /\ nextSeq <= MaxSeq
    /\ inserts' = inserts \cup {[seq |-> nextSeq, frame |-> f]}
    /\ nextSeq' = nextSeq + 1
    /\ frames' = frames \ {f}
    /\ UNCHANGED <<node, log, peers, answers, chan, tasks, comp, made, counts>>

\* Mutant of BeginInsert: the epoch of the admission is not compared.
BeginInsertAnyEpoch(f, p) == StartInsert(f, p.canWrite /\ ~node.rotationRequired)

\* The INSERT takes its number under a share lock of the node, which must still
\* have the epoch the socket was admitted with.
BeginInsert(f, p) == StartInsert(f, p.canWrite /\ Current(p))

\* Mutant of RefuseFrame: nobody tells the client.
RefuseFrameSilently(f, p) ==
    /\ ~Current(p)
    /\ frames' = frames \ {f}
    /\ UNCHANGED <<server, peers, answers, chan, tasks, comp, made, counts>>

\* No row: the client is told key_rotation_required and the socket closed.
RefuseFrame(f, p) ==
    /\ ~Current(p)
    /\ frames' = frames \ {f}
    /\ peers' = (peers \ {p}) \cup {[p EXCEPT !.state = "out"]}
    /\ UNCHANGED <<server, answers, chan, tasks, comp, made, counts>>

\* An answer is sent if the socket is still there.
Reply(f, ok) ==
    answers' = answers \cup
        {[client |-> p.client, sock |-> p.sock, edit |-> f.edit, ok |-> ok] :
            p \in {q \in peers : q.client = f.client /\ q.sock = f.sock /\ q.state = "joined"
                                 /\ Listening(q.client, q.sock)}}

CommitInsert(i) ==
    /\ inserts' = inserts \ {i}
    /\ log' = log \cup {[seq |-> i.seq, key |-> i.frame.key, edits |-> {i.frame.edit}]}
    /\ Reply(i.frame, TRUE)
    /\ UNCHANGED <<node, nextSeq, peers, frames, chan, tasks, comp, made, counts>>

\* The database refuses: persist_failed.
FailInsert(i) ==
    /\ faults < MaxFaults
    /\ faults' = faults + 1
    /\ inserts' = inserts \ {i}
    /\ Reply(i.frame, FALSE)
    /\ UNCHANGED <<node, log, nextSeq, peers, frames, chan, tasks, comp, made, revocations, unfinished>>

-----------------------------------------------------------------------------
(* Revocation, rotation, compaction.                                       *)

Kick == peers' = {IF p.state = "joined" THEN [p EXCEPT !.state = "out"] ELSE p : p \in peers}

\* markRequiredNodeRotations, which waits for the share locks, then kickRoom.
RequireRotation ==
    /\ revocations < MaxRevocations /\ ~node.rotationRequired /\ node.epoch < MaxEpoch
    /\ inserts = {}
    /\ revocations' = revocations + 1
    /\ node' = [node EXCEPT !.rotationRequired = TRUE]
    /\ Kick
    /\ UNCHANGED <<log, nextSeq, inserts, wire, chan, tasks, comp, made, faults, unfinished>>

\* Mutants of KnownKeys: an empty slot is used, the slot is left out.
KnownKeysAnySlot == {node.epoch + 1, node.epoch, node.slot}
KnownKeysNoSlot == {node.epoch + 1, node.epoch}

\* The keys rotateNode reads the log with: the new one, the old one and the one
\* before, if the slot has it.
KnownKeys == {node.epoch + 1, node.epoch, node.slot} \ {0}

\* The key swap of rotateNode, under the lock of the node, and kickRoom.
Rotate(m) ==
    /\ comp[m].pc = "idle" /\ node.epoch < MaxEpoch
    /\ inserts = {}
    /\ node' = [epoch |-> node.epoch + 1, slot |-> node.epoch, rotationRequired |-> FALSE]
    /\ comp' = [comp EXCEPT ![m] = [pc |-> "read", to |-> node.epoch + 1, upToSeq |-> 0,
                    edits |-> {}, keys |-> KnownKeys]]
    /\ Kick
    /\ UNCHANGED <<log, nextSeq, inserts, wire, chan, tasks, made, counts>>

\* repairInterruptedRotation, when the file is opened: the current key and the slot's.
Repair(m) ==
    /\ comp[m].pc = "idle" /\ node.slot # 0 /\ ~node.rotationRequired
    /\ comp' = [comp EXCEPT ![m] = [pc |-> "read", to |-> node.epoch, upToSeq |-> 0,
                    edits |-> {}, keys |-> {node.epoch, node.slot}]]
    /\ UNCHANGED <<server, peers, wire, chan, tasks, made, counts>>

Readable(m) == {l \in log : l.key \in comp[m].keys}

\* The entries before the first unreadable one.
Prefix(m) == {l \in Readable(m) : \A b \in log \ Readable(m) : l.seq < b.seq}

\* The rotations that left rows under older keys, once m leaves the log with these
\* rows; none any more when all of them are under the key m works for.
Left(m, rows) == IF \A l \in rows : l.key = comp[m].to THEN {} ELSE unfinished \cup {comp[m].to}

\* compactCollabLog reads the whole log and integrates what it can read.
ReadLog(m) ==
    /\ comp[m].pc = "read"
    /\ comp' = [comp EXCEPT ![m] =
         IF Prefix(m) = {} \/ \A l \in Readable(m) : l.key = comp[m].to
         THEN [@ EXCEPT !.pc = "idle"]
         ELSE [@ EXCEPT !.pc = "compact",
                        !.upToSeq = CHOOSE s \in {l.seq : l \in Prefix(m)} :
                                        \A l \in Prefix(m) : l.seq <= s,
                        !.edits = UNION {l.edits : l \in Readable(m)}]]
    /\ unfinished' = IF comp'[m].pc = "idle" THEN Left(m, log) ELSE unfinished
    /\ UNCHANGED <<server, peers, wire, chan, tasks, made, faults, revocations>>

\* The snapshot replaces the rows it stands for.
Replace(m, answered, gone) ==
    /\ comp[m].pc = "compact" /\ nextSeq <= MaxSeq
    /\ ~answered => m \in Flaky
    /\ log' = {l \in log : ~gone[l]}
              \cup {[seq |-> nextSeq, key |-> comp[m].to, edits |-> comp[m].edits]}
    /\ nextSeq' = nextSeq + 1
    /\ comp' = [comp EXCEPT ![m].pc = IF answered THEN "idle" ELSE "compact"]
    /\ unfinished' = Left(m, log')
    /\ Kick
    /\ UNCHANGED <<node, inserts, wire, chan, tasks, made, faults, revocations>>

\* Mutant of Compact: the whole log is replaced.
CompactAll(m, answered) == Replace(m, answered, [l \in log |-> TRUE])

\* POST /api/collab/:nodeId/compact, then kickRoom.  Without an answer the client
\* posts again.
Compact(m, answered) == Replace(m, answered, [l \in log |-> l.seq <= comp[m].upToSeq])

\* The reading failed, or every attempt did, or the tab was closed.
AbandonCompaction(m) ==
    /\ m \in Flaky /\ comp[m].pc # "idle"
    /\ comp' = [comp EXCEPT ![m].pc = "idle"]
    /\ unfinished' = Left(m, log)
    /\ UNCHANGED <<server, peers, wire, chan, tasks, made, faults, revocations>>

-----------------------------------------------------------------------------
ClientStep(c) ==
    \/ Rekey(c) \/ Connect(c) \/ CloseSocket(c) \/ Admit(c)
    \/ \E t \in encrypting : t.client = c /\ Encrypted(t)
    \/ \E a \in answers : a.client = c /\ (Received(a) \/ Refused(a))
    \/ \E p \in peers : p.client = c /\ (Kicked(p) \/ Join(p))
    \/ \E h \in handlers : h.client = c /\ (KeyRead(h) \/ KeyAdopted(h) \/ Ready(h))

RelayStep ==
    \/ \E f \in frames, p \in peers :
         /\ f.client = p.client /\ f.sock = p.sock
         /\ BeginInsert(f, p) \/ RefuseFrame(f, p)
    \/ \E i \in inserts : CommitInsert(i)

Next ==
    \/ \E c \in Clients :
         \/ ClientStep(c)
         \/ \E e \in Edits : Edit(c, e)
         \/ \E next \in {"offline", "rekey"} : Break(c, next)
         \/ Close(c)
    \/ RelayStep
    \/ \E p \in peers : PeerGone(p)
    \/ \E i \in inserts : FailInsert(i)
    \/ RequireRotation
    \/ \E m \in Managers :
         \/ Rotate(m) \/ Repair(m) \/ ReadLog(m) \/ AbandonCompaction(m)
         \/ \E answered \in BOOLEAN : Compact(m, answered)

Spec == Init /\ [][Next]_vars

\* Clients, relay and database go on working, and a rotation once begun is
\* carried through by its client; nobody has to edit, rotate or revoke.
Fairness ==
    /\ \A c \in Clients : WF_vars(ClientStep(c))
    /\ WF_vars(RelayStep)
    /\ \A m \in Managers : WF_vars(ReadLog(m)) /\ WF_vars(Compact(m, TRUE))

FairSpec == Spec /\ Fairness

-----------------------------------------------------------------------------
(* Properties.                                                             *)

\* No edit is lost while its author's document is open: it is held by the
\* author's channel, on its way, or in the log, through kicks, broken sockets,
\* refusals, rotations and compactions (rotate.ts:25-26, collab.ts:352-357).
NoEditLost == made \subseteq Logged \cup AllHeld \cup Carried

\* Whoever holds the current key can read the whole log, with the slot's help
\* (rotate.ts:14-20).
LogReadable == \A l \in log : l.key \in {node.epoch, node.slot}

\* A rotation that stops before its compaction leaves a log that the key of the node
\* and the slot still read, and the next one reads all of it with the three keys it
\* knows (rotate.ts:14-20, 387-391): only two rotations in a row that both leave rows
\* behind put one out of reach.
LogRecoverable ==
    \/ \E k \in unfinished : k + 1 \in unfinished
    \/ \A l \in log :
         \/ l.key \in {node.epoch, node.slot}
         \/ \E m \in Managers : comp[m].pc # "idle" /\ l.key \in comp[m].keys

\* An edit enters the log under the key the node has at that moment
\* (collab.ts:385-411, relay.ts:571-583).
WrittenUnderLiveKey == \A i \in inserts : i.frame.key = node.epoch

\* The log keeps the promise of EditsPromise: what is durable stays durable,
\* and a pending edit stays pending until it is durable.
Promise == INSTANCE EditsPromise WITH durable <- Logged, pending <- AllHeld \ Logged

KeepsEdits == Promise!PSpec

\* Every edit eventually reaches the log, unless a revocation is still waiting
\* for its rotation or the document is closed first.
EditsReachLog ==
    \A e \in Edits : e \in made ~>
        (e \in Logged \/ node.rotationRequired \/ \E c \in Clients : chan[c].phase = "closed")
=============================================================================
