-------------------------- MODULE CollabLogProofs --------------------------
(***************************************************************************)
(* Proofs about CollabLog for any number of co-authors, managers, edits,   *)
(* sockets and rotations.                                                  *)
(***************************************************************************)
EXTENDS CollabLog, FiniteSetTheorems, TLAPS

-----------------------------------------------------------------------------
(* The greatest element of a finite set of numbers, from the               *)
(* well-foundedness of inclusion between finite sets.                      *)

LEMMA Greatest ==
  ASSUME NEW S \in SUBSET Nat, IsFiniteSet(S), S # {}
  PROVE  \E m \in S : \A n \in S : n <= m
<1> DEFINE From(m) == {s \in S : s >= m}
           T == {From(m) : m \in S}
<1>1. IsWellFoundedOn(StrictSubsetOrdering(S), FiniteSubsetsOf(S))
  BY FS_StrictSubsetOrderingWellFounded
<1>2. IsWellFoundedOn(StrictSubsetOrdering(S), SUBSET S)
  BY <1>1, FS_FiniteSubsetsOfFinite
<1>3. T \subseteq SUBSET S /\ T # {}
  <2>1. \A m \in S : From(m) \in SUBSET S /\ From(m) \in T
    OBVIOUS
  <2> QED
    BY <2>1
<1>4. PICK F \in T : \A G \in T : <<G, F>> \notin StrictSubsetOrdering(S)
  <2> HIDE DEF T
  <2> QED
    BY <1>2, <1>3, WFMin
<1>5. PICK m \in S : F = From(m)
  BY <1>4
<1>6. ASSUME NEW n \in S, ~(n <= m) PROVE FALSE
  <2>1. From(n) \in T /\ From(n) \in SUBSET S /\ From(m) \in SUBSET S
    OBVIOUS
  <2>2. n \in Nat /\ m \in Nat /\ \A s \in S : s \in Nat
    OBVIOUS
  <2>3. m \in From(m) /\ m \notin From(n) /\ m < n
    BY <1>6, <2>2
  <2>a. ASSUME NEW s \in S, s >= n PROVE s >= m
    BY <2>2, <2>3, <2>a
  <2>b. From(n) \subseteq From(m)
    BY <2>a
  <2>4. <<From(n), F>> \in StrictSubsetOrdering(S)
    BY <1>5, <2>1, <2>3, <2>b DEF StrictSubsetOrdering
  <2> QED
    BY <1>4, <2>1, <2>4
<1> QED
  BY <1>6

-----------------------------------------------------------------------------
(* Types.                                                                  *)

On(c) == chan[c].phase \in {"online", "closing"}

\* A channel that is ready has a socket, and a key that was read is a key.
HasSocket == \A c \in Clients : (chan[c].ready => On(c)) /\ (On(c) => chan[c].sock # 0)
KeysRead == \A h \in handlers : h.step = "answered" => h.key # 0

TypeInv == TypeOK /\ HasSocket /\ KeysRead

LEMMA InitType == Init => TypeInv
<1> SUFFICES ASSUME Init PROVE TypeInv
  OBVIOUS
<1> USE CollabLogAssumption
<1>1. node \in Node /\ chan \in [Clients -> Channel] /\ comp \in [Managers -> Compaction]
  BY DEF Init, Node, Channel, Compaction, Epochs, Keys
<1> QED
  BY <1>1 DEF Init, TypeInv, TypeOK, HasSocket, KeysRead, On

\* What is sent under the key and for the socket of a ready channel is a frame.
LEMMA SendingType ==
  ASSUME TypeInv, NEW c \in Clients, chan[c].sock # 0, NEW E \in SUBSET Edits
  PROVE  Sending(c, E) \subseteq Frame
<1>1. chan[c] \in Channel
  BY DEF TypeInv, TypeOK
<1>2. chan[c].sock \in Sockets /\ chan[c].key \in Epochs
  BY <1>1, CollabLogAssumption DEF Channel, Sockets
<1> QED
  BY <1>2 DEF Sending, Frame

\* A step that disconnects keeps the types of the channels and the answers.
LEMMA DisconnectType ==
  ASSUME TypeInv, NEW c \in Clients, NEW next \in {"rekey", "offline", "closed"},
         NEW kept \in SUBSET Edits, Disconnect(c, next, kept)
  PROVE  /\ chan' \in [Clients -> Channel] /\ answers' \subseteq Answer
         /\ HasSocket'
<1>1. chan[c] \in Channel /\ chan \in [Clients -> Channel] /\ answers \subseteq Answer
  BY DEF TypeInv, TypeOK
<1>2. PICK k \in Channel :
        /\ chan' = [chan EXCEPT ![c] = k]
        /\ k.phase \in {"rekey", "offline", "closed"} /\ ~k.ready
  <2> DEFINE k == [chan[c] EXCEPT !.phase = IF chan[c].phase = "closing" THEN "closed" ELSE next,
                      !.ready = FALSE,
                      !.outbox = IF chan[c].phase = "closing" THEN @ ELSE @ \cup kept,
                      !.unacknowledged = IF chan[c].phase = "closing" THEN @ ELSE {}]
  <2>1. chan' = [chan EXCEPT ![c] = k]
    BY DEF Disconnect
  <2>2. k \in Channel
    BY <1>1 DEF Channel
  <2>3. k.phase \in {"rekey", "offline", "closed"} /\ k.ready = FALSE
    BY <1>1 DEF Channel
  <2> QED
    BY <2>1, <2>2, <2>3
<1>3. chan' \in [Clients -> Channel]
  BY <1>1, <1>2
<1>4. \A d \in Clients : IF d = c THEN chan'[d] = k ELSE chan'[d] = chan[d]
  BY <1>1, <1>2
<1>5. HasSocket'
  <2> SUFFICES ASSUME NEW d \in Clients
               PROVE  (chan'[d].ready => On(d)') /\ (On(d)' => chan'[d].sock # 0)
    BY DEF HasSocket, On
  <2>1. CASE d = c
    BY <2>1, <1>2, <1>4 DEF On
  <2>2. CASE d # c
    BY <2>2, <1>4 DEF On, HasSocket, TypeInv
  <2> QED
    BY <2>1, <2>2
<1> QED
  BY <1>1, <1>3, <1>5 DEF Disconnect

\* A step that leaves keys, sockets and phases alone, or a channel at most busier.
LEMMA ChannelType ==
  ASSUME TypeInv, NEW c \in Clients, NEW k \in Channel,
         k.ready => k.phase \in {"online", "closing"},
         k.phase \in {"online", "closing"} => k.sock # 0,
         chan' = [chan EXCEPT ![c] = k]
  PROVE  chan' \in [Clients -> Channel] /\ HasSocket'
<1>1. chan \in [Clients -> Channel]
  BY DEF TypeInv, TypeOK
<1>3. chan' \in [Clients -> Channel]
  BY <1>1
<1>4. \A d \in Clients : IF d = c THEN chan'[d] = k ELSE chan'[d] = chan[d]
  BY <1>1
<1>5. HasSocket'
  <2> SUFFICES ASSUME NEW d \in Clients
               PROVE  (chan'[d].ready => On(d)') /\ (On(d)' => chan'[d].sock # 0)
    BY DEF HasSocket, On
  <2>1. CASE d = c
    BY <2>1, <1>4 DEF On
  <2>2. CASE d # c
    BY <2>2, <1>4 DEF On, HasSocket, TypeInv
  <2> QED
    BY <2>1, <2>2
<1> QED
  BY <1>3, <1>5

\* One channel changes, the rest of the state at most gets smaller.
LEMMA SendingSideType ==
  ASSUME TypeInv, NEW c \in Clients,
         \/ \E e \in Edits : Edit(c, e)
         \/ \E t \in encrypting : t.client = c /\ Encrypted(t)
         \/ \E a \in answers : a.client = c /\ (Received(a) \/ Refused(a))
         \/ \E p \in peers : p.client = c /\ Kicked(p)
         \/ \E next \in {"offline", "rekey"} : Break(c, next)
         \/ CloseSocket(c)
  PROVE  TypeInv'
<1> USE CollabLogAssumption
<1>0. chan[c] \in Channel /\ chan \in [Clients -> Channel] /\ TypeOK
      /\ (chan[c].ready => On(c)) /\ (On(c) => chan[c].sock # 0)
  BY DEF TypeInv, TypeOK, HasSocket
<1>1. CASE \E e \in Edits : Edit(c, e)
  <2>1. PICK e \in Edits : Edit(c, e)
    BY <1>1
  <2>2. CASE chan[c].ready
    <3>1. Sending(c, {e}) \subseteq Frame
      BY <1>0, <2>2, SendingType
    <3> QED
      BY <2>1, <2>2, <3>1 DEF Edit, TypeInv, TypeOK, HasSocket, KeysRead, On, server, wire, counts
  <2>3. CASE ~chan[c].ready
    <3> DEFINE k == [chan[c] EXCEPT !.outbox = @ \cup {e}]
    <3>1. k \in Channel /\ k.ready = chan[c].ready /\ k.phase = chan[c].phase /\ k.sock = chan[c].sock
      BY <1>0 DEF Channel
    <3>2. chan' = [chan EXCEPT ![c] = k]
      BY <2>1, <2>3 DEF Edit
    <3>3. chan' \in [Clients -> Channel] /\ HasSocket'
      <4> HIDE DEF k
      <4> QED
        BY <1>0, <3>1, <3>2, ChannelType DEF On
    <3> QED
      BY <2>1, <2>3, <3>3 DEF Edit, TypeInv, TypeOK, KeysRead, server, wire, counts
  <2> QED
    BY <2>2, <2>3
<1>2. CASE \E t \in encrypting : t.client = c /\ Encrypted(t)
  <2>1. PICK t \in encrypting : t.client = c /\ Encrypted(t)
    BY <1>2
  <2>2. t \in Frame /\ t.edit \in Edits
    BY <1>0 DEF TypeOK, Frame
  <2>3. PICK k \in Channel : chan' = [chan EXCEPT ![c] = k] /\ k.ready = chan[c].ready
                             /\ k.phase = chan[c].phase /\ k.sock = chan[c].sock
    <3>1. CASE chan' = [chan EXCEPT ![t.client].unacknowledged = @ \cup {t.edit}]
      <4> DEFINE k == [chan[c] EXCEPT !.unacknowledged = @ \cup {t.edit}]
      <4>1. k \in Channel /\ k.ready = chan[c].ready /\ k.phase = chan[c].phase /\ k.sock = chan[c].sock
        BY <1>0, <2>2 DEF Channel
      <4>2. chan' = [chan EXCEPT ![c] = k]
        BY <2>1, <3>1
      <4> QED
        BY <4>1, <4>2
    <3>2. CASE chan' = [chan EXCEPT ![t.client].outbox = @ \cup {t.edit}]
      <4> DEFINE k == [chan[c] EXCEPT !.outbox = @ \cup {t.edit}]
      <4>1. k \in Channel /\ k.ready = chan[c].ready /\ k.phase = chan[c].phase /\ k.sock = chan[c].sock
        BY <1>0, <2>2 DEF Channel
      <4>2. chan' = [chan EXCEPT ![c] = k]
        BY <2>1, <3>2
      <4> QED
        BY <4>1, <4>2
    <3> QED
      BY <2>1, <3>1, <3>2 DEF Encrypted
  <2>4. chan' \in [Clients -> Channel] /\ HasSocket'
    BY <1>0, <2>3, ChannelType DEF On
  <2>5. frames' \subseteq Frame
    BY <1>0, <2>1, <2>2 DEF Encrypted, TypeOK
  <2> QED
    BY <1>0, <2>1, <2>4, <2>5 DEF Encrypted, TypeInv, TypeOK, KeysRead, server, counts
<1>3. CASE \E a \in answers : a.client = c /\ Received(a)
  <2>1. PICK a \in answers : a.client = c /\ Received(a)
    BY <1>3
  <2> DEFINE k == [chan[c] EXCEPT !.unacknowledged = @ \ {a.edit}]
  <2>2. k \in Channel /\ k.ready = chan[c].ready /\ k.phase = chan[c].phase /\ k.sock = chan[c].sock
    BY <1>0 DEF Channel
  <2>3. chan' = [chan EXCEPT ![c] = k] \/ chan' = chan
    BY <2>1 DEF Received
  <2>4. chan' \in [Clients -> Channel] /\ HasSocket'
    <3>1. CASE chan' = chan
      BY <1>0, <3>1 DEF TypeInv, HasSocket, On
    <3>2. CASE chan' = [chan EXCEPT ![c] = k]
      <4> HIDE DEF k
      <4> QED
        BY <1>0, <2>2, <3>2, ChannelType DEF On
    <3> QED
      BY <2>3, <3>1, <3>2
  <2> HIDE DEF k
  <2> QED
    BY <1>0, <2>1, <2>4 DEF Received, TypeInv, TypeOK, KeysRead, server, tasks, counts
<1>4. CASE \E a \in answers : a.client = c /\ Refused(a)
  <2>1. PICK a \in answers : a.client = c /\ Refused(a)
    BY <1>4
  <2>2. chan' \in [Clients -> Channel] /\ answers' \subseteq Answer /\ HasSocket'
    BY <1>0, <2>1, DisconnectType DEF Refused, Channel
  <2> QED
    BY <1>0, <2>1, <2>2 DEF Refused, TypeInv, TypeOK, KeysRead, server, tasks, counts
<1>5. CASE \E p \in peers : p.client = c /\ Kicked(p)
  <2>1. PICK p \in peers : p.client = c /\ Kicked(p)
    BY <1>5
  <2>2. chan' \in [Clients -> Channel] /\ answers' \subseteq Answer /\ HasSocket'
    BY <1>0, <2>1, DisconnectType DEF Kicked, Channel
  <2> QED
    BY <1>0, <2>1, <2>2 DEF Kicked, TypeInv, TypeOK, KeysRead, server, tasks, counts
<1>6. CASE \E next \in {"offline", "rekey"} : Break(c, next)
  <2>1. PICK next \in {"offline", "rekey"} : Break(c, next)
    BY <1>6
  <2>2. chan' \in [Clients -> Channel] /\ answers' \subseteq Answer /\ HasSocket'
    BY <1>0, <2>1, DisconnectType DEF Break, Channel
  <2>3. faults' \in 0..MaxFaults
    BY <1>0, <2>1 DEF Break, TypeOK
  <2> QED
    BY <1>0, <2>1, <2>2, <2>3 DEF Break, TypeInv, TypeOK, KeysRead, server, tasks
<1>7. CASE CloseSocket(c)
  <2>2. chan' \in [Clients -> Channel] /\ answers' \subseteq Answer /\ HasSocket'
    BY <1>0, <1>7, DisconnectType DEF CloseSocket
  <2> QED
    BY <1>0, <1>7, <2>2 DEF CloseSocket, TypeInv, TypeOK, KeysRead, server, tasks, counts
<1> QED
  BY <1>1, <1>2, <1>3, <1>4, <1>5, <1>6, <1>7

LEMMA AdmissionType ==
  ASSUME TypeInv, NEW c \in Clients,
         \/ Rekey(c) \/ Connect(c) \/ Close(c) \/ Admit(c)
         \/ \E p \in peers : p.client = c /\ (Join(p) \/ PeerGone(p))
         \/ \E h \in handlers : h.client = c /\ (KeyRead(h) \/ KeyAdopted(h) \/ Ready(h))
  PROVE  TypeInv'
<1> USE CollabLogAssumption
<1>0. /\ chan[c] \in Channel /\ chan \in [Clients -> Channel] /\ TypeOK
      /\ chan[c].ready => On(c)
      /\ On(c) => chan[c].sock # 0
      /\ node \in Node /\ node.epoch \in Epochs /\ node.epoch \in Keys /\ node.epoch # 0
  BY DEF TypeInv, TypeOK, HasSocket, Node, Epochs, Keys
<1>1. CASE Rekey(c)
  <2> DEFINE k == [chan[c] EXCEPT !.phase = "offline", !.key = node.epoch]
  <2>1. k \in Channel /\ ~k.ready /\ k.phase = "offline"
    BY <1>0, <1>1 DEF Channel, Rekey, On
  <2>2. chan' = [chan EXCEPT ![c] = k]
    BY <1>1 DEF Rekey
  <2>3. chan' \in [Clients -> Channel] /\ HasSocket'
    <3> HIDE DEF k
    <3> QED
      BY <1>0, <2>1, <2>2, ChannelType
  <2> QED
    BY <1>0, <1>1, <2>3 DEF Rekey, TypeInv, TypeOK, KeysRead, server, wire, tasks, counts
<1>2. CASE Connect(c)
  <2> DEFINE k == [chan[c] EXCEPT !.phase = "online", !.sock = @ + 1, !.ready = FALSE]
  <2>1. k \in Channel /\ ~k.ready /\ k.sock # 0
    BY <1>0, <1>2 DEF Channel, Connect
  <2>2. chan' = [chan EXCEPT ![c] = k]
    BY <1>2 DEF Connect
  <2>3. chan' \in [Clients -> Channel] /\ HasSocket'
    <3> HIDE DEF k
    <3> QED
      BY <1>0, <2>1, <2>2, ChannelType
  <2> QED
    BY <1>0, <1>2, <2>3 DEF Connect, TypeInv, TypeOK, KeysRead, server, wire, tasks, counts
<1>3. CASE Close(c)
  <2> DEFINE k == [chan[c] EXCEPT !.phase = IF @ = "online" THEN "closing" ELSE "closed"]
  <2>1. k \in Channel /\ k.ready = chan[c].ready /\ k.sock = chan[c].sock
        /\ k.phase = IF chan[c].phase = "online" THEN "closing" ELSE "closed"
    BY <1>0 DEF Channel
  <2>2. chan' = [chan EXCEPT ![c] = k] /\ chan[c].phase \notin {"closing", "closed"}
    BY <1>3 DEF Close
  <2>3. chan' \in [Clients -> Channel] /\ HasSocket'
    <3> HIDE DEF k
    <3>1. k.ready => k.phase \in {"online", "closing"}
      BY <1>0, <2>1, <2>2 DEF On
    <3>2. k.phase \in {"online", "closing"} => k.sock # 0
      BY <1>0, <2>1, <2>2 DEF On
    <3> QED
      BY <1>0, <2>1, <2>2, <3>1, <3>2, ChannelType
  <2> QED
    BY <1>0, <1>3, <2>3 DEF Close, TypeInv, TypeOK, KeysRead, server, wire, tasks, counts
<1>4. CASE Admit(c)
  <2>1. chan[c].sock \in Sockets
    BY <1>0, <1>4 DEF Admit, On, Channel, Sockets
  <2>2. \A w \in BOOLEAN : [client |-> c, sock |-> chan[c].sock, epoch |-> node.epoch,
                           canWrite |-> w, state |-> "checked"] \in Peer
    BY <1>0, <2>1 DEF Peer
  <2>a. (~node.rotationRequired) \in BOOLEAN
    OBVIOUS
  <2>b. [client |-> c, sock |-> chan[c].sock, epoch |-> node.epoch,
         canWrite |-> ~node.rotationRequired, state |-> "checked"] \in Peer
    BY <2>2, <2>a, Zenon
  <2>3. peers' \subseteq Peer
    <3>1. peers \subseteq Peer
      BY <1>0 DEF TypeOK
    <3> QED
      BY <1>4, <2>b, <3>1, Zenon DEF Admit
  <2> QED
    BY <1>0, <1>4, <2>3 DEF Admit, TypeInv, TypeOK, KeysRead, HasSocket, On, server, wire, tasks, counts
<1>5. CASE \E p \in peers : p.client = c /\ Join(p)
  <2>1. PICK p \in peers : p.client = c /\ Join(p)
    BY <1>5
  <2>2. p \in Peer
    BY <1>0 DEF TypeOK
  <2>3. peers' \subseteq Peer
    BY <1>0, <2>1, <2>2 DEF Join, Peer, TypeOK
  <2>4. handlers' \subseteq Handler /\ KeysRead'
    BY <1>0, <2>1, <2>2 DEF Join, Peer, Handler, TypeOK, Keys, KeysRead, TypeInv
  <2> QED
    BY <1>0, <2>1, <2>3, <2>4 DEF Join, TypeInv, TypeOK, HasSocket, On, server, wire, counts
<1>6. CASE \E p \in peers : p.client = c /\ PeerGone(p)
  BY <1>0, <1>6 DEF PeerGone, TypeInv, TypeOK, KeysRead, HasSocket, On, server, tasks, counts
<1>7. CASE \E h \in handlers : h.client = c /\ KeyRead(h)
  <2>1. PICK h \in handlers : h.client = c /\ KeyRead(h)
    BY <1>7
  <2>2. h \in Handler
    BY <1>0 DEF TypeOK
  <2>4. handlers' \subseteq Handler /\ KeysRead'
    BY <1>0, <2>1, <2>2 DEF KeyRead, Handler, TypeOK, KeysRead, TypeInv
  <2> QED
    BY <1>0, <2>1, <2>4 DEF KeyRead, TypeInv, TypeOK, HasSocket, On, server, wire, counts
<1>8. CASE \E h \in handlers : h.client = c /\ KeyAdopted(h)
  <2>1. PICK h \in handlers : h.client = c /\ KeyAdopted(h)
    BY <1>8
  <2>2. h \in Handler /\ h.key \in Epochs
    BY <1>0, <2>1 DEF TypeOK, TypeInv, KeysRead, KeyAdopted, Handler, Keys, Epochs
  <2>4. handlers' \subseteq Handler /\ KeysRead'
    BY <1>0, <2>1, <2>2 DEF KeyAdopted, Handler, TypeOK, KeysRead, TypeInv
  <2> DEFINE k == [chan[c] EXCEPT !.key = h.key]
  <2>5. k \in Channel /\ k.ready = chan[c].ready /\ k.phase = chan[c].phase /\ k.sock = chan[c].sock
    BY <1>0, <2>2 DEF Channel
  <2>6. chan' = [chan EXCEPT ![c] = k]
    BY <2>1 DEF KeyAdopted
  <2>7. chan' \in [Clients -> Channel] /\ HasSocket'
    <3> HIDE DEF k
    <3> QED
      BY <1>0, <2>5, <2>6, ChannelType DEF On
  <2> HIDE DEF k
  <2> QED
    BY <1>0, <2>1, <2>4, <2>7 DEF KeyAdopted, TypeInv, TypeOK, server, wire, counts
<1>9. CASE \E h \in handlers : h.client = c /\ Ready(h)
  <2>1. PICK h \in handlers : h.client = c /\ Ready(h)
    BY <1>9
  <2>2. h \in Handler /\ h.canWrite \in BOOLEAN
    BY <1>0 DEF TypeOK, Handler
  <2>3. handlers' \subseteq Handler /\ KeysRead'
    BY <1>0, <2>1 DEF Ready, TypeOK, KeysRead, TypeInv
  <2>4. CASE Listening(c, h.sock) /\ chan[c].phase = "online"
    <3> DEFINE k == [chan[c] EXCEPT !.ready = h.canWrite, !.outbox = IF h.canWrite THEN {} ELSE @]
    <3>1. k \in Channel /\ k.phase = chan[c].phase /\ k.sock = chan[c].sock
      BY <1>0, <2>2 DEF Channel
    <3>2. chan' = [chan EXCEPT ![c] = k]
      BY <2>1, <2>4 DEF Ready
    <3>3. chan' \in [Clients -> Channel] /\ HasSocket'
      <4> HIDE DEF k
      <4> QED
        BY <1>0, <2>4, <3>1, <3>2, ChannelType DEF On
    <3>4. chan[c].sock # 0 /\ chan[c].outbox \in SUBSET Edits
      BY <1>0, <2>4 DEF On, Channel
    <3>5. Sending(c, chan[c].outbox) \subseteq Frame
      BY <3>4, SendingType
    <3>6. encrypting' \subseteq encrypting \cup Sending(c, chan[c].outbox)
      BY <2>1, <2>4 DEF Ready
    <3>7. encrypting' \subseteq Frame
      BY <1>0, <3>5, <3>6 DEF TypeOK
    <3> HIDE DEF k
    <3> QED
      BY <1>0, <2>1, <2>3, <3>3, <3>7 DEF Ready, TypeInv, TypeOK, server, wire, counts
  <2>5. CASE ~(Listening(c, h.sock) /\ chan[c].phase = "online")
    BY <1>0, <2>1, <2>3, <2>5 DEF Ready, TypeInv, TypeOK, HasSocket, On, server, wire, counts
  <2> QED
    BY <2>4, <2>5
<1> QED
  BY <1>1, <1>2, <1>3, <1>4, <1>5, <1>6, <1>7, <1>8, <1>9

\* Kicking the room keeps the types of the peers.
LEMMA KickType ==
  ASSUME TypeInv, Kick
  PROVE  peers' \subseteq Peer
<1>1. \A p \in peers : p \in Peer
  BY DEF TypeInv, TypeOK
<1>2. \A p \in Peer : [p EXCEPT !.state = "out"] \in Peer
  BY DEF Peer
<1> QED
  BY <1>1, <1>2 DEF Kick

LEMMA RelayType ==
  ASSUME TypeInv,
         \/ \E f \in frames, p \in peers : BeginInsert(f, p) \/ RefuseFrame(f, p)
         \/ \E i \in inserts : CommitInsert(i) \/ FailInsert(i)
  PROVE  TypeInv'
<1> USE CollabLogAssumption
<1>0. TypeOK
  BY DEF TypeInv
<1>1. CASE \E f \in frames, p \in peers : BeginInsert(f, p)
  <2>1. PICK f \in frames, p \in peers : BeginInsert(f, p)
    BY <1>1
  <2>2. f \in Frame /\ nextSeq \in 1..MaxSeq
    BY <1>0, <2>1 DEF TypeOK, BeginInsert, StartInsert
  <2>3. inserts' \subseteq Insert /\ nextSeq' \in 1..MaxSeq + 1 /\ frames' \subseteq Frame
    BY <1>0, <2>1, <2>2 DEF TypeOK, BeginInsert, StartInsert, Insert
  <2> QED
    BY <1>0, <2>1, <2>3 DEF BeginInsert, StartInsert, TypeInv, TypeOK, KeysRead, HasSocket, On, tasks, counts
<1>2. CASE \E f \in frames, p \in peers : RefuseFrame(f, p)
  <2>1. PICK f \in frames, p \in peers : RefuseFrame(f, p)
    BY <1>2
  <2>2. peers' \subseteq Peer
    BY <1>0, <2>1 DEF TypeOK, RefuseFrame, Peer
  <2> QED
    BY <1>0, <2>1, <2>2 DEF RefuseFrame, TypeInv, TypeOK, KeysRead, HasSocket, On, server, tasks, counts
<1>3. ASSUME NEW i \in inserts, NEW ok \in BOOLEAN, Reply(i.frame, ok) PROVE answers' \subseteq Answer
  <2>1. i.frame.edit \in Edits
    BY <1>0 DEF TypeOK, Insert, Frame
  <2>2. \A p \in peers : p.client \in Clients /\ p.sock \in Sockets
    BY <1>0 DEF TypeOK, Peer
  <2> QED
    BY <1>0, <1>3, <2>1, <2>2 DEF Reply, Answer, TypeOK
<1>4. CASE \E i \in inserts : CommitInsert(i)
  <2>1. PICK i \in inserts : CommitInsert(i)
    BY <1>4
  <2>2. i \in Insert /\ i.frame \in Frame
    BY <1>0 DEF TypeOK, Insert
  <2>3. log' \subseteq Entry
    BY <1>0, <2>1, <2>2 DEF TypeOK, CommitInsert, Insert, Frame, Entry
  <2>4. answers' \subseteq Answer
    BY <1>3, <2>1 DEF CommitInsert
  <2> QED
    BY <1>0, <2>1, <2>3, <2>4 DEF CommitInsert, TypeInv, TypeOK, KeysRead, HasSocket, On, tasks, counts
<1>5. CASE \E i \in inserts : FailInsert(i)
  <2>1. PICK i \in inserts : FailInsert(i)
    BY <1>5
  <2>2. Reply(i.frame, FALSE)
    BY <2>1 DEF FailInsert
  <2>3. answers' \subseteq Answer
    BY <1>3, <2>2
  <2>4. faults' \in 0..MaxFaults
    BY <1>0, <2>1 DEF FailInsert, TypeOK
  <2> QED
    BY <1>0, <2>1, <2>3, <2>4 DEF FailInsert, TypeInv, TypeOK, KeysRead, HasSocket, On, tasks
<1> QED
  BY <1>1, <1>2, <1>4, <1>5

\* What a compaction may replace is the log up to the last entry before the first
\* unreadable one.
LEMMA LastOfPrefix ==
  ASSUME TypeInv, NEW m \in Managers, Prefix(m) # {},
         NEW last, last = CHOOSE s \in {l.seq : l \in Prefix(m)} : \A l \in Prefix(m) : l.seq <= s
  PROVE  /\ last \in 1..MaxSeq /\ \E l \in Prefix(m) : l.seq = last
         /\ \A l \in Prefix(m) : l.seq <= last
<1> DEFINE S == {l.seq : l \in Prefix(m)}
<1>1. S \subseteq 1..MaxSeq /\ S # {}
  BY DEF Prefix, Readable, TypeInv, TypeOK, Entry
<1>2. MaxSeq \in Nat /\ IsFiniteSet(1..MaxSeq)
  BY CollabLogAssumption, FS_Interval
<1>3. S \in SUBSET Nat /\ IsFiniteSet(S)
  <2>1. S \in SUBSET Nat
    BY <1>1, <1>2
  <2>2. IsFiniteSet(S)
    BY <1>1, <1>2, FS_Subset
  <2> QED
    BY <2>1, <2>2
<1>4. \E s \in S : \A n \in S : n <= s
  <2> HIDE DEF S
  <2> QED
    BY <1>1, <1>3, Greatest
<1>5. \E s \in S : \A l \in Prefix(m) : l.seq <= s
  BY <1>4
<1>6. last \in S /\ \A l \in Prefix(m) : l.seq <= last
  BY <1>5
<1> QED
  BY <1>1, <1>6

LEMMA ManagerType ==
  ASSUME TypeInv,
         \/ RequireRotation
         \/ \E m \in Managers : \/ Rotate(m) \/ Repair(m) \/ ReadLog(m) \/ AbandonCompaction(m)
                                \/ \E answered \in BOOLEAN : Compact(m, answered)
  PROVE  TypeInv'
<1> USE CollabLogAssumption
<1>0. /\ TypeOK /\ comp \in [Managers -> Compaction] /\ node \in Node
      /\ node.epoch \in 1..MaxEpoch /\ node.slot \in 0..MaxEpoch
  BY DEF TypeInv, TypeOK, Node, Epochs, Keys
<1>1. CASE RequireRotation
  <2>1. peers' \subseteq Peer
    BY <1>1, KickType DEF RequireRotation
  <2>a. node' \in Node
    BY <1>0, <1>1 DEF RequireRotation, Node
  <2>2. revocations' \in 0..MaxRevocations
    BY <1>0, <1>1 DEF RequireRotation, TypeOK
  <2> QED
    BY <1>0, <1>1, <2>1, <2>2, <2>a DEF RequireRotation, TypeInv, TypeOK, KeysRead, HasSocket, On, wire, tasks
<1>2. ASSUME NEW m \in Managers, Rotate(m) PROVE TypeInv'
  <2>1. peers' \subseteq Peer
    BY <1>2, KickType DEF Rotate
  <2>2. node.epoch + 1 \in 1..MaxEpoch /\ node.epoch \in 0..MaxEpoch
    BY <1>0, <1>2 DEF Rotate
  <2>3. node' \in Node
    BY <1>2, <2>2 DEF Rotate, Node, Epochs, Keys
  <2>4. KnownKeys \subseteq Epochs
    BY <1>0, <2>2 DEF KnownKeys, Epochs
  <2>5. comp' \in [Managers -> Compaction]
    BY <1>0, <1>2, <2>2, <2>4 DEF Rotate, Compaction, Epochs
  <2> QED
    BY <1>0, <1>2, <2>1, <2>3, <2>5 DEF Rotate, TypeInv, TypeOK, KeysRead, HasSocket, On, wire, tasks, counts
<1>3. ASSUME NEW m \in Managers, Repair(m) PROVE TypeInv'
  <2>1. {node.epoch, node.slot} \subseteq Epochs
    BY <1>0, <1>3 DEF Repair, Epochs
  <2>2. comp' \in [Managers -> Compaction]
    BY <1>0, <1>3, <2>1 DEF Repair, Compaction, Epochs
  <2> QED
    BY <1>0, <1>3, <2>2 DEF Repair, TypeInv, TypeOK, KeysRead, HasSocket, On, server, wire, tasks, counts
<1>4. ASSUME NEW m \in Managers, ReadLog(m) PROVE TypeInv'
  <2>0. comp[m] \in Compaction
    BY <1>0
  <2>3. unfinished' \subseteq Epochs
    BY <1>4, <2>0 DEF ReadLog, Left, Compaction, TypeInv, TypeOK
  <2>1. CASE comp' = [comp EXCEPT ![m] = [@ EXCEPT !.pc = "idle"]]
    <3>1. [comp[m] EXCEPT !.pc = "idle"] \in Compaction
      BY <2>0 DEF Compaction
    <3>2. comp' \in [Managers -> Compaction]
      BY <1>0, <2>1, <3>1
    <3> QED
      BY <1>0, <1>4, <2>3, <3>2 DEF ReadLog, TypeInv, TypeOK, KeysRead, HasSocket, On, server, wire, tasks, counts
  <2>2. CASE Prefix(m) # {} /\ ~\A l \in Readable(m) : l.key = comp[m].to
    <3> DEFINE last == CHOOSE s \in {l.seq : l \in Prefix(m)} : \A l \in Prefix(m) : l.seq <= s
               kept == UNION {l.edits : l \in Readable(m)}
    <3>1. last \in 1..MaxSeq
      BY <2>2, LastOfPrefix
    <3>2. kept \subseteq Edits
      BY <1>0 DEF Readable, TypeOK, Entry
    <3>3. comp' = [comp EXCEPT ![m] = [comp[m] EXCEPT !.pc = "compact", !.upToSeq = last, !.edits = kept]]
      BY <1>4, <2>2 DEF ReadLog
    <3> HIDE DEF last, kept
    <3>a. last \in 0..MaxSeq
      BY <3>1
    <3>4. [comp[m] EXCEPT !.pc = "compact", !.upToSeq = last, !.edits = kept] \in Compaction
      BY <2>0, <3>2, <3>a DEF Compaction
    <3>5. comp' \in [Managers -> Compaction]
      BY <1>0, <3>3, <3>4
    <3> QED
      BY <1>0, <1>4, <2>3, <3>5 DEF ReadLog, TypeInv, TypeOK, KeysRead, HasSocket, On, server, wire, tasks, counts
  <2> QED
    BY <1>4, <2>1, <2>2 DEF ReadLog
<1>5. ASSUME NEW m \in Managers, AbandonCompaction(m) PROVE TypeInv'
  <2>1. [comp[m] EXCEPT !.pc = "idle"] \in Compaction
    BY <1>0 DEF Compaction
  <2>2. comp' \in [Managers -> Compaction]
    BY <1>0, <1>5, <2>1 DEF AbandonCompaction
  <2>3. unfinished' \subseteq Epochs
    BY <1>0, <1>5 DEF AbandonCompaction, Left, Compaction, TypeInv, TypeOK
  <2> QED
    BY <1>0, <1>5, <2>2, <2>3 DEF AbandonCompaction, TypeInv, TypeOK, KeysRead, HasSocket, On, server, wire, tasks, counts
<1>6. ASSUME NEW m \in Managers, NEW answered \in BOOLEAN, Compact(m, answered) PROVE TypeInv'
  <2>0. comp[m] \in Compaction
    BY <1>0
  <2>1. peers' \subseteq Peer
    BY <1>6, KickType DEF Compact, Replace
  <2>2. \A q \in {"idle", "compact"} : [comp[m] EXCEPT !.pc = q] \in Compaction
    BY <2>0 DEF Compaction
  <2>3. comp' \in [Managers -> Compaction]
    BY <1>0, <1>6, <2>2 DEF Compact, Replace
  <2>4. nextSeq \in 1..MaxSeq /\ nextSeq' = nextSeq + 1
    BY <1>0, <1>6 DEF Compact, Replace, TypeOK
  <2>5. [seq |-> nextSeq, key |-> comp[m].to, edits |-> comp[m].edits] \in Entry
    BY <2>0, <2>4 DEF Compaction, Entry
  <2>6. log' \subseteq log \cup {[seq |-> nextSeq, key |-> comp[m].to, edits |-> comp[m].edits]}
    BY <1>6 DEF Compact, Replace
  <2>7. log' \subseteq Entry /\ nextSeq' \in 1..MaxSeq + 1
    BY <1>0, <2>4, <2>5, <2>6 DEF TypeOK
  <2>8. unfinished' \subseteq Epochs
    BY <1>6, <2>0 DEF Compact, Replace, Left, Compaction, TypeInv, TypeOK
  <2> QED
    BY <1>0, <1>6, <2>1, <2>3, <2>7, <2>8 DEF Compact, Replace, TypeInv, TypeOK, KeysRead, HasSocket, On, wire, tasks, counts
<1> QED
  BY <1>1, <1>2, <1>3, <1>4, <1>5, <1>6

LEMMA TypeStep == TypeInv /\ [Next]_vars => TypeInv'
<1> SUFFICES ASSUME TypeInv, [Next]_vars PROVE TypeInv'
  OBVIOUS
<1>1. CASE UNCHANGED vars
  BY <1>1 DEF vars, server, tasks, wire, counts, TypeInv, TypeOK, HasSocket, KeysRead, On
<1>2. ASSUME NEW c \in Clients,
             \/ ClientStep(c) \/ (\E e \in Edits : Edit(c, e))
             \/ (\E next \in {"offline", "rekey"} : Break(c, next)) \/ Close(c)
      PROVE  TypeInv'
  BY <1>2, SendingSideType, AdmissionType DEF ClientStep
<1>3. CASE RelayStep \/ \E i \in inserts : FailInsert(i)
  BY <1>3, RelayType DEF RelayStep
<1>4. ASSUME NEW p \in peers, PeerGone(p) PROVE TypeInv'
  <2>1. p.client \in Clients
    BY DEF TypeInv, TypeOK, Peer
  <2> QED
    BY <1>4, <2>1, AdmissionType
<1>5. CASE \/ RequireRotation
           \/ \E m \in Managers : \/ Rotate(m) \/ Repair(m) \/ ReadLog(m) \/ AbandonCompaction(m)
                                  \/ \E answered \in BOOLEAN : Compact(m, answered)
  BY <1>5, ManagerType
<1> QED
  BY <1>1, <1>2, <1>3, <1>4, <1>5 DEF Next

\* Every variable has its type: relay and channels never name a socket, a key or a number that
\* does not exist (collab.ts, relay.ts, rotate.ts).
THEOREM TypeCorrect == Spec => []TypeOK
<1>1. TypeInv => TypeOK
  BY DEF TypeInv
<1> QED
  BY <1>1, InitType, TypeStep, PTL DEF Spec

-----------------------------------------------------------------------------
(* What is written under the live key.  The epoch a socket was admitted    *)
(* with is never newer than the key of a frame it carries.                 *)

Of(x, c, s) == x.client = c /\ x.sock = s
Has(c, s)   == \E p \in peers : Of(p, c, s)

\* A socket has one end at the relay.
OnePeer == \A p, q \in peers : p.client = q.client /\ p.sock = q.sock => p = q

\* Nobody is ahead of the node, and no peer ahead of its client's socket.
Ages ==
  /\ \A p \in peers : p.epoch <= node.epoch /\ p.sock <= chan[p.client].sock
  /\ \A c \in Clients : chan[c].key <= node.epoch

\* A ready channel is in the room, with a key at least as new as its admission.
ReadyInv == \A c \in Clients : chan[c].ready =>
  /\ On(c) /\ Has(c, chan[c].sock)
  /\ \A h \in handlers : h.client # c
  /\ \A p \in peers : Of(p, c, chan[c].sock) => p.epoch <= chan[c].key /\ p.state # "checked"

\* A ready handler is for the channel's socket, and reads the key after the admission.
HandlerInv ==
  /\ \A h, k \in handlers : h.client = k.client => h = k
  /\ \A h \in handlers :
       /\ h.sock = chan[h.client].sock /\ h.key <= node.epoch
       /\ On(h.client) => Has(h.client, h.sock)
       /\ \A p \in peers : Of(p, h.client, h.sock) =>
            /\ p.state # "checked"
            /\ h.step = "answered" => p.epoch <= h.key
            /\ h.step = "catchUp" => p.epoch <= chan[h.client].key

FrameInv == \A f \in frames :
  /\ Has(f.client, f.sock) /\ f.key <= node.epoch
  /\ \A p \in peers : Of(p, f.client, f.sock) => p.epoch <= f.key

LiveInv == OnePeer /\ Ages /\ ReadyInv /\ HandlerInv /\ FrameInv /\ WrittenUnderLiveKey

LEMMA InitLive == Init => LiveInv
  BY DEF Init, LiveInv, OnePeer, Ages, ReadyInv, HandlerInv, FrameInv, WrittenUnderLiveKey, Has, On

\* peers' are the peers with other states.
SamePeers ==
  /\ \A q \in peers' : \E p \in peers :
        /\ p.client = q.client /\ p.sock = q.sock /\ p.epoch = q.epoch
        /\ q.state = "checked" => p.state = "checked"
  /\ \A p \in peers : \E q \in peers' :
        p.client = q.client /\ p.sock = q.sock /\ p.epoch = q.epoch
  /\ OnePeer'

\* No channel gets busier, none changes its socket, and keys are at most renewed.
SameChannels == \A c \in Clients :
  /\ chan'[c].sock = chan[c].sock
  /\ chan'[c].ready => chan[c].ready /\ On(c)'
  /\ On(c)' => On(c)
  /\ chan[c].key <= chan'[c].key /\ chan'[c].key <= node'.epoch

\* Such steps leave the invariant alone.
LEMMA QuietStep ==
  ASSUME TypeInv, TypeInv', LiveInv, SamePeers, SameChannels,
         handlers' = handlers, frames' \subseteq frames,
         node.epoch <= node'.epoch,
         \A i \in inserts' : i.frame.key = node'.epoch
  PROVE  LiveInv'
<1>0. /\ \A p \in peers : p.client \in Clients /\ p.epoch \in Nat /\ p.sock \in Nat
      /\ \A p \in peers' : p.client \in Clients /\ p.epoch \in Nat /\ p.sock \in Nat
      /\ \A c \in Clients : chan[c].key \in Nat /\ chan'[c].key \in Nat
      /\ \A h \in handlers : h.client \in Clients /\ h.key \in Nat
      /\ \A f \in frames : f.key \in Nat
      /\ node.epoch \in Nat /\ node'.epoch \in Nat
  BY CollabLogAssumption
  DEF TypeInv, TypeOK, Peer, Channel, Handler, Frame, Node, Epochs, Keys, Sockets
<1>1. \A c, s : Has(c, s) <=> Has(c, s)'
  <2> SUFFICES ASSUME NEW c, NEW s
               PROVE  (\E p \in peers : p.client = c /\ p.sock = s)
                      <=> (\E p \in peers' : p.client = c /\ p.sock = s)
    BY DEF Has, Of
  <2> QED
    BY DEF SamePeers
<1>2. \A q \in peers' : \E p \in peers :
         /\ p.client = q.client /\ p.sock = q.sock /\ p.epoch = q.epoch
         /\ q.state = "checked" => p.state = "checked"
  BY DEF SamePeers
<1>3. Ages'
  <2>1. ASSUME NEW q \in peers' PROVE q.epoch <= node'.epoch /\ q.sock <= chan'[q.client].sock
    <3>1. PICK p \in peers : p.client = q.client /\ p.sock = q.sock /\ p.epoch = q.epoch
      BY <1>2
    <3>2. p.epoch <= node.epoch /\ p.sock <= chan[p.client].sock
      BY DEF LiveInv, Ages
    <3>3. q.client \in Clients /\ chan'[q.client].sock = chan[q.client].sock
      BY <1>0 DEF SameChannels
    <3> QED
      BY <1>0, <3>1, <3>2, <3>3
  <2> QED
    BY <2>1 DEF SameChannels, Ages
<1>4. ReadyInv'
  <2> SUFFICES ASSUME NEW c \in Clients, chan'[c].ready
               PROVE  /\ On(c)' /\ Has(c, chan[c].sock)'
                      /\ \A h \in handlers' : h.client # c
                      /\ \A q \in peers' : Of(q, c, chan'[c].sock) =>
                                              q.epoch <= chan'[c].key /\ q.state # "checked"
    BY DEF ReadyInv, Of, Has
  <2>1. /\ chan'[c].sock = chan[c].sock /\ chan[c].ready /\ On(c)'
        /\ chan[c].key <= chan'[c].key
    BY DEF SameChannels
  <2>2. /\ Has(c, chan[c].sock) /\ \A h \in handlers : h.client # c
        /\ \A p \in peers : Of(p, c, chan[c].sock) => p.epoch <= chan[c].key /\ p.state # "checked"
    BY <2>1 DEF LiveInv, ReadyInv
  <2>3. Has(c, chan[c].sock)'
    BY <2>1, <2>2 DEF Has, Of, SamePeers
  <2>4. ASSUME NEW q \in peers', Of(q, c, chan'[c].sock)
        PROVE  q.epoch <= chan'[c].key /\ q.state # "checked"
    BY <1>0, <1>2, <2>1, <2>2, <2>4 DEF Of
  <2> QED
    BY <2>1, <2>2, <2>3, <2>4
<1>5. HandlerInv'
  <2>1. \A h, k \in handlers' : h.client = k.client => h = k
    BY DEF LiveInv, HandlerInv
  <2>2. ASSUME NEW h \in handlers'
        PROVE  /\ h.sock = chan'[h.client].sock /\ h.key <= node'.epoch
               /\ On(h.client)' => Has(h.client, h.sock)'
               /\ \A q \in peers' : Of(q, h.client, h.sock) =>
                    /\ q.state # "checked"
                    /\ h.step = "answered" => q.epoch <= h.key
                    /\ h.step = "catchUp" => q.epoch <= chan'[h.client].key
    <3>1. /\ h \in handlers /\ h.client \in Clients /\ h.key \in Nat
      BY <1>0, <2>2
    <3>2. /\ h.sock = chan[h.client].sock /\ h.key <= node.epoch
          /\ On(h.client) => Has(h.client, h.sock)
          /\ \A p \in peers : Of(p, h.client, h.sock) =>
               /\ p.state # "checked"
               /\ h.step = "answered" => p.epoch <= h.key
               /\ h.step = "catchUp" => p.epoch <= chan[h.client].key
      BY <3>1 DEF LiveInv, HandlerInv
    <3>3. /\ chan'[h.client].sock = chan[h.client].sock
          /\ On(h.client)' => On(h.client)
          /\ chan[h.client].key <= chan'[h.client].key
      BY <3>1 DEF SameChannels
    <3>4. h.sock = chan'[h.client].sock /\ h.key <= node'.epoch
      BY <1>0, <3>1, <3>2, <3>3
    <3>5. On(h.client)' => Has(h.client, h.sock)'
      BY <1>1, <3>2, <3>3
    <3>6. ASSUME NEW q \in peers', Of(q, h.client, h.sock)
          PROVE  /\ q.state # "checked"
                 /\ h.step = "answered" => q.epoch <= h.key
                 /\ h.step = "catchUp" => q.epoch <= chan'[h.client].key
      BY <1>0, <1>2, <3>1, <3>2, <3>3, <3>6 DEF Of
    <3> QED
      BY <3>4, <3>5, <3>6
  <2> QED
    BY <2>1, <2>2 DEF HandlerInv
<1>6. FrameInv'
  <2> SUFFICES ASSUME NEW f \in frames'
               PROVE  /\ Has(f.client, f.sock)' /\ f.key <= node'.epoch
                      /\ \A q \in peers' : Of(q, f.client, f.sock) => q.epoch <= f.key
    BY DEF FrameInv
  <2>1. /\ f \in frames /\ Has(f.client, f.sock) /\ f.key <= node.epoch
        /\ \A p \in peers : Of(p, f.client, f.sock) => p.epoch <= f.key
    BY DEF LiveInv, FrameInv
  <2> QED
    BY <1>0, <1>1, <1>2, <2>1 DEF Of
<1> QED
  BY <1>3, <1>4, <1>5, <1>6 DEF LiveInv, WrittenUnderLiveKey, SamePeers

\* The three ways in which steps leave the peers the same.
LEMMA PeersSame ==
  ASSUME TypeInv, LiveInv,
         \/ peers' = peers
         \/ Kick
         \/ \E p \in peers : peers' = (peers \ {p}) \cup {[p EXCEPT !.state = "out"]}
  PROVE  SamePeers
<1>0. \A p \in peers : /\ [p EXCEPT !.state = "out"].client = p.client
                       /\ [p EXCEPT !.state = "out"].sock = p.sock
                       /\ [p EXCEPT !.state = "out"].epoch = p.epoch
                       /\ [p EXCEPT !.state = "out"].state = "out"
  BY DEF TypeInv, TypeOK, Peer
<1>1. OnePeer
  BY DEF LiveInv
<1>2. CASE peers' = peers
  BY <1>1, <1>2 DEF SamePeers, OnePeer
<1>3. CASE Kick
  <2> DEFINE K(p) == IF p.state = "joined" THEN [p EXCEPT !.state = "out"] ELSE p
  <2>1. peers' = {K(p) : p \in peers}
    BY <1>3 DEF Kick
  <2>2. \A p \in peers : /\ K(p).client = p.client /\ K(p).sock = p.sock /\ K(p).epoch = p.epoch
                         /\ K(p).state = "checked" => p.state = "checked"
    BY <1>0
  <2> HIDE DEF K
  <2>3. OnePeer'
    BY <1>1, <2>1, <2>2 DEF OnePeer
  <2> QED
    BY <2>1, <2>2, <2>3 DEF SamePeers
<1>4. CASE \E p \in peers : peers' = (peers \ {p}) \cup {[p EXCEPT !.state = "out"]}
  <2>1. PICK p \in peers : peers' = (peers \ {p}) \cup {[p EXCEPT !.state = "out"]}
    BY <1>4
  <2> DEFINE o == [p EXCEPT !.state = "out"]
  <2>2. o.client = p.client /\ o.sock = p.sock /\ o.epoch = p.epoch /\ o.state = "out"
    BY <1>0
  <2>3. peers' = (peers \ {p}) \cup {o}
    BY <2>1
  <2> HIDE DEF o
  <2>4. OnePeer'
    BY <1>1, <2>2, <2>3 DEF OnePeer
  <2> QED
    BY <2>2, <2>3, <2>4 DEF SamePeers
<1> QED
  BY <1>2, <1>3, <1>4

LEMMA ChannelsSame ==
  ASSUME TypeInv, TypeInv', LiveInv, node.epoch <= node'.epoch,
         \/ chan' = chan
         \/ \E c \in Clients : /\ \A d \in Clients : d # c => chan'[d] = chan[d]
                               /\ chan'[c].sock = chan[c].sock
                               /\ chan'[c].ready => chan[c].ready
                               /\ On(c)' => On(c)
                               /\ chan[c].key <= chan'[c].key /\ chan'[c].key <= node.epoch
  PROVE  SameChannels
<1>0. /\ \A c \in Clients : chan[c].key \in Nat /\ chan'[c].key \in Nat /\ chan[c].key <= node.epoch
      /\ \A c \in Clients : chan'[c].ready => On(c)'
      /\ node.epoch \in Nat /\ node'.epoch \in Nat
  BY CollabLogAssumption DEF TypeInv, TypeOK, HasSocket, Channel, Node, Epochs, LiveInv, Ages
<1>1. CASE chan' = chan
  BY <1>0, <1>1 DEF SameChannels, On
<1>2. CASE \E c \in Clients : /\ \A d \in Clients : d # c => chan'[d] = chan[d]
                              /\ chan'[c].sock = chan[c].sock
                              /\ chan'[c].ready => chan[c].ready
                              /\ On(c)' => On(c)
                              /\ chan[c].key <= chan'[c].key /\ chan'[c].key <= node.epoch
  <2>1. PICK c \in Clients : /\ \A d \in Clients : d # c => chan'[d] = chan[d]
                             /\ chan'[c].sock = chan[c].sock
                             /\ chan'[c].ready => chan[c].ready
                             /\ On(c)' => On(c)
                             /\ chan[c].key <= chan'[c].key /\ chan'[c].key <= node.epoch
    BY <1>2
  <2> SUFFICES ASSUME NEW d \in Clients
               PROVE  /\ chan'[d].sock = chan[d].sock
                      /\ chan'[d].ready => chan[d].ready /\ On(d)'
                      /\ On(d)' => On(d)
                      /\ chan[d].key <= chan'[d].key /\ chan'[d].key <= node'.epoch
    BY DEF SameChannels
  <2>2. CASE d = c
    BY <1>0, <2>1, <2>2
  <2>3. CASE d # c
    BY <1>0, <2>1, <2>3 DEF On
  <2> QED
    BY <2>2, <2>3
<1> QED
  BY <1>1, <1>2

\* Steps after which every channel, peer and handler is where it was, or further away.
LEMMA QuietSteps ==
  ASSUME TypeInv, TypeInv', LiveInv, NEW c \in Clients,
         \/ \E e \in Edits : Edit(c, e)
         \/ \E a \in answers : a.client = c /\ (Received(a) \/ Refused(a))
         \/ \E p \in peers : p.client = c /\ Kicked(p)
         \/ \E next \in {"offline", "rekey"} : Break(c, next)
         \/ CloseSocket(c) \/ Rekey(c) \/ Close(c)
  PROVE  LiveInv'
<1>0. /\ chan[c] \in Channel /\ chan \in [Clients -> Channel] /\ chan' \in [Clients -> Channel]
      /\ node.epoch \in Nat /\ chan[c].key \in Nat /\ chan[c].key <= node.epoch
      /\ chan[c].ready => On(c)
      /\ chan[c].ready \in BOOLEAN
  BY CollabLogAssumption
  DEF TypeInv, TypeOK, HasSocket, Channel, Node, Epochs, LiveInv, Ages
<1>1. /\ node' = node /\ inserts' = inserts /\ peers' = peers /\ handlers' = handlers
      /\ frames' = frames
  BY DEF Edit, Received, Refused, Kicked, Break, CloseSocket, Rekey, Close,
         server, wire, tasks
<1>2. SamePeers
  BY <1>1, PeersSame
<1>3. ASSUME NEW next \in {"rekey", "offline", "closed"}, NEW kept, Disconnect(c, next, kept)
      PROVE  /\ \A d \in Clients : d # c => chan'[d] = chan[d]
             /\ chan'[c].sock = chan[c].sock /\ ~chan'[c].ready /\ ~On(c)'
             /\ chan'[c].key = chan[c].key
  BY <1>0, <1>3 DEF Disconnect, On, Channel
<1>4. SameChannels
  <2>1. CASE chan' = chan
    BY <1>0, <1>1, <2>1, ChannelsSame
  <2>2. CASE \E next \in {"rekey", "offline", "closed"} : \E kept : Disconnect(c, next, kept)
    <3>1. /\ \A d \in Clients : d # c => chan'[d] = chan[d]
          /\ chan'[c].sock = chan[c].sock /\ ~chan'[c].ready /\ ~On(c)'
          /\ chan'[c].key = chan[c].key
      BY <1>3, <2>2
    <3> QED
      BY <1>0, <1>1, <3>1, ChannelsSame
  <2>3. CASE Rekey(c)
    <3>1. /\ \A d \in Clients : d # c => chan'[d] = chan[d]
          /\ chan'[c].sock = chan[c].sock /\ chan'[c].ready = chan[c].ready /\ ~On(c)'
          /\ chan'[c].key = node.epoch
      BY <1>0, <2>3 DEF Rekey, On, Channel
    <3> QED
      BY <1>0, <1>1, <3>1, ChannelsSame
  <2>4. CASE Close(c)
    <3>1. /\ \A d \in Clients : d # c => chan'[d] = chan[d]
          /\ chan'[c].sock = chan[c].sock /\ chan'[c].ready = chan[c].ready
          /\ chan'[c].key = chan[c].key
          /\ chan'[c].phase = IF chan[c].phase = "online" THEN "closing" ELSE "closed"
      BY <1>0, <2>4 DEF Close, Channel
    <3>2. On(c)' => On(c)
      BY <3>1 DEF On
    <3> QED
      BY <1>0, <1>1, <3>1, <3>2, ChannelsSame
  <2>5. CASE \E e \in Edits : chan' = [chan EXCEPT ![c].outbox = @ \cup {e}]
    <3>1. /\ \A d \in Clients : d # c => chan'[d] = chan[d]
          /\ chan'[c].sock = chan[c].sock /\ chan'[c].ready = chan[c].ready
          /\ chan'[c].key = chan[c].key /\ chan'[c].phase = chan[c].phase
      BY <1>0, <2>5 DEF Channel
    <3> QED
      BY <1>0, <1>1, <3>1, ChannelsSame DEF On
  <2>6. CASE \E e : chan' = [chan EXCEPT ![c].unacknowledged = @ \ {e}]
    <3>1. /\ \A d \in Clients : d # c => chan'[d] = chan[d]
          /\ chan'[c].sock = chan[c].sock /\ chan'[c].ready = chan[c].ready
          /\ chan'[c].key = chan[c].key /\ chan'[c].phase = chan[c].phase
      BY <1>0, <2>6 DEF Channel
    <3> QED
      BY <1>0, <1>1, <3>1, ChannelsSame DEF On
  <2>a. ASSUME NEW e \in Edits, Edit(c, e) PROVE SameChannels
    BY <2>a, <2>1, <2>5 DEF Edit
  <2>b. ASSUME NEW a \in answers, a.client = c, Received(a) PROVE SameChannels
    BY <2>b, <2>1, <2>6 DEF Received
  <2>c. ASSUME NEW a \in answers, a.client = c, Refused(a) PROVE SameChannels
    BY <2>c, <2>2 DEF Refused
  <2>d. ASSUME NEW p \in peers, p.client = c, Kicked(p) PROVE SameChannels
    BY <2>d, <2>2 DEF Kicked
  <2>e. ASSUME NEW next \in {"offline", "rekey"}, Break(c, next) PROVE SameChannels
    BY <2>e, <2>2 DEF Break
  <2>f. CASE CloseSocket(c)
    BY <2>f, <2>2 DEF CloseSocket
  <2> QED
    BY <2>a, <2>b, <2>c, <2>d, <2>e, <2>f, <2>3, <2>4
<1> QED
  BY <1>0, <1>1, <1>2, <1>4, QuietStep DEF LiveInv, WrittenUnderLiveKey

\* The relay compares the epoch of the admission with the node's, so the frame it starts to
\* insert is under the live key; a rotation waits for the inserts.
LEMMA ServerSteps ==
  ASSUME TypeInv, TypeInv', LiveInv,
         \/ RelayStep
         \/ \E i \in inserts : FailInsert(i)
         \/ RequireRotation
         \/ \E m \in Managers : \/ Rotate(m) \/ Repair(m) \/ ReadLog(m) \/ AbandonCompaction(m)
                                \/ \E answered \in BOOLEAN : Compact(m, answered)
  PROVE  LiveInv'
<1>0. /\ node.epoch \in Nat /\ node \in Node
      /\ \A f \in frames : f.key \in Nat
      /\ \A p \in peers : p.epoch \in Nat
  BY CollabLogAssumption DEF TypeInv, TypeOK, Node, Frame, Peer, Epochs
<1>1. CASE \E f \in frames, p \in peers : f.client = p.client /\ f.sock = p.sock /\ BeginInsert(f, p)
  <2>1. PICK f \in frames, p \in peers : f.client = p.client /\ f.sock = p.sock /\ BeginInsert(f, p)
    BY <1>1
  <2>2. f.key <= node.epoch /\ p.epoch <= f.key
    BY <2>1 DEF LiveInv, FrameInv, Of
  <2>3. f.key = node.epoch
    BY <1>0, <2>1, <2>2 DEF BeginInsert, StartInsert, Current
  <2>4. /\ inserts' = inserts \cup {[seq |-> nextSeq, frame |-> f]} /\ frames' \subseteq frames
        /\ UNCHANGED <<node, peers, chan, handlers>>
    BY <2>1 DEF BeginInsert, StartInsert, tasks
  <2>5. \A i \in inserts' : i.frame.key = node'.epoch
    BY <2>3, <2>4 DEF LiveInv, WrittenUnderLiveKey
  <2> QED
    BY <1>0, <2>4, <2>5, PeersSame, ChannelsSame, QuietStep
<1>2. CASE \E f \in frames, p \in peers : RefuseFrame(f, p)
  <2>1. PICK f \in frames, p \in peers : RefuseFrame(f, p)
    BY <1>2
  <2>2. /\ frames' \subseteq frames /\ UNCHANGED <<node, inserts, chan, handlers>>
        /\ peers' = (peers \ {p}) \cup {[p EXCEPT !.state = "out"]}
    BY <2>1 DEF RefuseFrame, server, tasks
  <2>3. SamePeers
    BY <2>2, PeersSame
  <2> QED
    BY <1>0, <2>2, <2>3, ChannelsSame, QuietStep DEF LiveInv, WrittenUnderLiveKey
<1>3. CASE \E i \in inserts : CommitInsert(i) \/ FailInsert(i)
  <2>1. /\ inserts' \subseteq inserts /\ UNCHANGED <<node, peers, frames, chan, handlers>>
    BY <1>3 DEF CommitInsert, FailInsert, tasks
  <2> QED
    BY <1>0, <2>1, PeersSame, ChannelsSame, QuietStep DEF LiveInv, WrittenUnderLiveKey
<1>4. CASE RequireRotation
  <2>1. node'.epoch = node.epoch
    BY <1>0, <1>4 DEF RequireRotation, Node
  <2>2. Kick /\ UNCHANGED <<inserts, frames, chan, handlers>>
    BY <1>4 DEF RequireRotation, wire, tasks
  <2>3. SamePeers
    BY <2>2, PeersSame
  <2> QED
    BY <1>0, <2>1, <2>2, <2>3, ChannelsSame, QuietStep DEF LiveInv, WrittenUnderLiveKey
<1>5. ASSUME NEW m \in Managers, Rotate(m) PROVE LiveInv'
  <2>1. node'.epoch = node.epoch + 1 /\ inserts = {}
    BY <1>5 DEF Rotate
  <2>2. Kick /\ UNCHANGED <<inserts, frames, chan, handlers>>
    BY <1>5 DEF Rotate, wire, tasks
  <2>3. SamePeers
    BY <2>2, PeersSame
  <2>4. node.epoch <= node'.epoch
    BY <1>0, <2>1
  <2> QED
    BY <2>1, <2>2, <2>3, <2>4, ChannelsSame, QuietStep
<1>6. ASSUME NEW m \in Managers,
             \/ Repair(m) \/ ReadLog(m) \/ AbandonCompaction(m)
             \/ \E answered \in BOOLEAN : Compact(m, answered)
      PROVE  LiveInv'
  <2>1. peers' = peers \/ Kick
    BY <1>6 DEF Repair, ReadLog, AbandonCompaction, Compact, Replace
  <2>2. UNCHANGED <<node, inserts, frames, chan, handlers>>
    BY <1>6 DEF Repair, ReadLog, AbandonCompaction, Compact, Replace, server, wire, tasks
  <2>3. SamePeers
    BY <2>1, PeersSame
  <2> QED
    BY <1>0, <2>2, <2>3, ChannelsSame, QuietStep DEF LiveInv, WrittenUnderLiveKey
<1> QED
  BY <1>1, <1>2, <1>3, <1>4, <1>5, <1>6 DEF RelayStep

\* An edit is sent under the key and for the socket the channel has after the encryption.
LEMMA EncryptedLive ==
  ASSUME TypeInv, TypeInv', LiveInv, NEW t \in encrypting, Encrypted(t)
  PROVE  LiveInv'
<1>0. /\ t.client \in Clients /\ t \in Frame /\ chan \in [Clients -> Channel]
      /\ chan[t.client] \in Channel
      /\ node.epoch \in Nat /\ \A c \in Clients : chan[c].key <= node.epoch /\ chan[c].key \in Nat
  BY CollabLogAssumption DEF TypeInv, TypeOK, Frame, Node, Epochs, LiveInv, Ages, Channel
<1>1. UNCHANGED <<node, inserts, peers, handlers>>
  BY DEF Encrypted, server
<1>2. /\ \A d \in Clients : d # t.client => chan'[d] = chan[d]
      /\ chan'[t.client].sock = chan[t.client].sock /\ chan'[t.client].ready = chan[t.client].ready
      /\ chan'[t.client].key = chan[t.client].key /\ chan'[t.client].phase = chan[t.client].phase
  BY <1>0 DEF Encrypted, Channel
<1>3. SamePeers /\ SameChannels
  BY <1>0, <1>1, <1>2, PeersSame, ChannelsSame DEF On
<1>4. CASE frames' = frames
  BY <1>0, <1>1, <1>3, <1>4, QuietStep DEF LiveInv, WrittenUnderLiveKey
<1>5. CASE /\ chan[t.client].ready /\ Listening(t.client, t.sock) /\ chan[t.client].key = t.key
           /\ frames' = frames \cup {t}
  <2>1. chan[t.client].sock = t.sock
    BY <1>5 DEF Listening
  <2>2. /\ Has(t.client, t.sock) /\ t.key <= node.epoch
        /\ \A p \in peers : Of(p, t.client, t.sock) => p.epoch <= t.key
    BY <1>0, <1>5, <2>1 DEF LiveInv, ReadyInv
  <2>3. FrameInv'
    BY <1>1, <1>5, <2>2 DEF LiveInv, FrameInv, Has, Of
  <2>4. OnePeer' /\ WrittenUnderLiveKey'
    BY <1>1 DEF LiveInv, OnePeer, WrittenUnderLiveKey
  <2>5. Ages'
    <3>1. \A p \in peers : p.client \in Clients
      BY DEF TypeInv, TypeOK, Peer
    <3>2. \A c \in Clients : chan'[c].key = chan[c].key /\ chan'[c].sock = chan[c].sock
      BY <1>2
    <3> QED
      BY <1>1, <3>1, <3>2 DEF LiveInv, Ages
  <2>6. ReadyInv'
    <3>1. \A c \in Clients : /\ chan'[c].key = chan[c].key /\ chan'[c].sock = chan[c].sock
                             /\ chan'[c].ready = chan[c].ready /\ chan'[c].phase = chan[c].phase
      BY <1>2
    <3> QED
      BY <1>1, <3>1 DEF LiveInv, ReadyInv, Has, Of, On
  <2>7. HandlerInv'
    <3>1. \A c \in Clients : /\ chan'[c].key = chan[c].key /\ chan'[c].sock = chan[c].sock
                             /\ chan'[c].phase = chan[c].phase
      BY <1>2
    <3>2. \A h \in handlers : h.client \in Clients
      BY DEF TypeInv, TypeOK, Handler
    <3> QED
      BY <1>1, <3>1, <3>2 DEF LiveInv, HandlerInv, Has, Of, On
  <2> QED
    BY <2>3, <2>4, <2>5, <2>6, <2>7 DEF LiveInv
<1> QED
  BY <1>4, <1>5 DEF Encrypted

\* A client that is not slow has no handler left when it opens its next socket.
LEMMA ConnectLive ==
  ASSUME TypeInv, TypeInv', LiveInv, NEW c \in Clients, c \notin Slow, Connect(c)
  PROVE  LiveInv'
<1>0. /\ chan[c] \in Channel /\ chan \in [Clients -> Channel] /\ chan[c].sock \in Nat
      /\ \A p \in peers : p.client \in Clients /\ p.sock \in Nat
      /\ \A h \in handlers : h.client \in Clients
  BY CollabLogAssumption DEF TypeInv, TypeOK, Channel, Peer, Handler, Sockets
<1>1. UNCHANGED <<node, inserts, peers, frames, handlers>>
  BY DEF Connect, server, wire, tasks
<1>2. /\ \A d \in Clients : d # c => chan'[d] = chan[d]
      /\ chan'[c].sock = chan[c].sock + 1 /\ ~chan'[c].ready /\ chan'[c].key = chan[c].key
  BY <1>0 DEF Connect, Channel
<1>3. \A h \in handlers : h.client # c
  BY DEF Connect
<1>4. OnePeer' /\ WrittenUnderLiveKey' /\ FrameInv'
  BY <1>1 DEF LiveInv, OnePeer, WrittenUnderLiveKey, FrameInv, Has, Of
<1>5. Ages'
  <2>1. \A p \in peers : p.sock <= chan'[p.client].sock
    <3>1. ASSUME NEW p \in peers PROVE p.sock <= chan'[p.client].sock
      <4>1. p.sock <= chan[p.client].sock
        BY DEF LiveInv, Ages
      <4>2. CASE p.client = c
        BY <1>0, <1>2, <4>1, <4>2
      <4>3. CASE p.client # c
        BY <1>0, <1>2, <4>1, <4>3
      <4> QED
        BY <4>2, <4>3
    <3> QED
      BY <3>1
  <2>2. \A d \in Clients : chan'[d].key = chan[d].key
    BY <1>2
  <2> QED
    BY <1>1, <2>1, <2>2 DEF LiveInv, Ages
<1>6. ReadyInv'
  <2> SUFFICES ASSUME NEW d \in Clients, chan'[d].ready
               PROVE  chan'[d] = chan[d]
    BY <1>1 DEF LiveInv, ReadyInv, Has, Of, On
  <2> QED
    BY <1>2
<1>7. HandlerInv'
  <2>1. \A h \in handlers : chan'[h.client] = chan[h.client]
    BY <1>0, <1>2, <1>3
  <2> QED
    BY <1>1, <2>1 DEF LiveInv, HandlerInv, Has, Of, On
<1> QED
  BY <1>4, <1>5, <1>6, <1>7 DEF LiveInv

\* A socket is admitted with the epoch of the moment, before anything is known of it.
LEMMA AdmitLive ==
  ASSUME TypeInv, TypeInv', LiveInv, NEW c \in Clients, Admit(c)
  PROVE  LiveInv'
<1> DEFINE new == [client |-> c, sock |-> chan[c].sock, epoch |-> node.epoch,
                   canWrite |-> ~node.rotationRequired, state |-> "checked"]
<1>0. /\ chan[c].sock \in Nat /\ node.epoch \in Nat
      /\ \A h \in handlers : h.client \in Clients
  BY CollabLogAssumption DEF TypeInv, TypeOK, Channel, Handler, Node, Epochs
<1>1. /\ UNCHANGED <<node, inserts, chan, frames, handlers>> /\ peers' = peers \cup {new}
      /\ On(c) /\ \A p \in peers : ~Of(p, c, chan[c].sock)
  BY DEF Admit, server, wire, tasks, On, Of
<1>2. new.client = c /\ new.sock = chan[c].sock /\ new.epoch = node.epoch
  OBVIOUS
<1> HIDE DEF new
<1>3. ~Has(c, chan[c].sock) /\ \A d, s : Of(new, d, s) <=> d = c /\ s = chan[c].sock
  BY <1>1, <1>2 DEF Has, Of
<1>4. \A d, s : Has(d, s) => Has(d, s)'
  <2> SUFFICES ASSUME NEW d, NEW s, \E p \in peers : Of(p, d, s)
               PROVE  \E p \in peers' : Of(p, d, s)
    BY DEF Has, Of
  <2> QED
    BY <1>1
<1>5. OnePeer' /\ WrittenUnderLiveKey'
  BY <1>1, <1>2 DEF LiveInv, OnePeer, WrittenUnderLiveKey, Of
<1>6. Ages'
  BY <1>0, <1>1, <1>2 DEF LiveInv, Ages
<1>7. ReadyInv'
  <2> SUFFICES ASSUME NEW d \in Clients, chan[d].ready
               PROVE  /\ On(d)' /\ Has(d, chan[d].sock)' /\ \A h \in handlers : h.client # d
                      /\ \A p \in peers' : Of(p, d, chan[d].sock) =>
                           p.epoch <= chan[d].key /\ p.state # "checked"
    BY <1>1 DEF ReadyInv, Of
  <2>1. /\ On(d) /\ Has(d, chan[d].sock) /\ \A h \in handlers : h.client # d
        /\ \A p \in peers : Of(p, d, chan[d].sock) => p.epoch <= chan[d].key /\ p.state # "checked"
    BY DEF LiveInv, ReadyInv
  <2>2. d # c
    BY <1>3, <2>1
  <2>3. On(d)' /\ Has(d, chan[d].sock)'
    BY <1>1, <2>1 DEF On, Has, Of
  <2> QED
    BY <1>1, <1>3, <2>1, <2>2, <2>3
<1>8. HandlerInv'
  <2>1. \A h \in handlers : On(h.client) => h.client # c
    BY <1>0, <1>3 DEF LiveInv, HandlerInv
  <2>2. \A h \in handlers : ~Of(new, h.client, h.sock)
    BY <1>1, <1>3, <2>1
  <2>3. ASSUME NEW h \in handlers'
        PROVE  /\ h.sock = chan'[h.client].sock /\ h.key <= node'.epoch
               /\ On(h.client)' => Has(h.client, h.sock)'
               /\ \A q \in peers' : Of(q, h.client, h.sock) =>
                    /\ q.state # "checked"
                    /\ h.step = "answered" => q.epoch <= h.key
                    /\ h.step = "catchUp" => q.epoch <= chan'[h.client].key
    <3>1. /\ h.sock = chan[h.client].sock /\ h.key <= node.epoch
          /\ On(h.client) => Has(h.client, h.sock)
          /\ \A p \in peers : Of(p, h.client, h.sock) =>
               /\ p.state # "checked"
               /\ h.step = "answered" => p.epoch <= h.key
               /\ h.step = "catchUp" => p.epoch <= chan[h.client].key
      BY <1>1 DEF LiveInv, HandlerInv
    <3>2. On(h.client)' => Has(h.client, h.sock)'
      BY <1>1, <1>4, <3>1 DEF On
    <3> QED
      BY <1>1, <2>2, <3>1, <3>2
  <2> QED
    BY <1>1, <2>3 DEF LiveInv, HandlerInv
<1>9. FrameInv'
  <2> SUFFICES ASSUME NEW f \in frames
               PROVE  /\ Has(f.client, f.sock)' /\ f.key <= node.epoch
                      /\ \A q \in peers' : Of(q, f.client, f.sock) => q.epoch <= f.key
    BY <1>1 DEF FrameInv
  <2>1. /\ Has(f.client, f.sock) /\ f.key <= node.epoch
        /\ \A p \in peers : Of(p, f.client, f.sock) => p.epoch <= f.key
    BY DEF LiveInv, FrameInv
  <2>2. ~Of(new, f.client, f.sock)
    BY <1>3, <2>1
  <2> QED
    BY <1>1, <1>4, <2>1, <2>2
<1> QED
  BY <1>5, <1>6, <1>7, <1>8, <1>9 DEF LiveInv

\* "ready" is said to a socket for which the client has no handler yet.
LEMMA JoinLive ==
  ASSUME TypeInv, TypeInv', LiveInv, NEW p \in peers, Join(p)
  PROVE  LiveInv'
<1> DEFINE q == [p EXCEPT !.state = "joined"]
           h == [client |-> p.client, sock |-> p.sock, canWrite |-> p.canWrite,
                 key |-> 0, step |-> "asked"]
<1>0. /\ p.client \in Clients /\ p.epoch \in Nat /\ node.epoch \in Nat /\ p \in Peer
      /\ \A k \in handlers : k.client \in Clients
  BY CollabLogAssumption DEF TypeInv, TypeOK, Peer, Handler, Node, Epochs
<1>1. /\ UNCHANGED <<node, inserts, chan, frames>>
      /\ peers' = (peers \ {p}) \cup {q} /\ handlers' = handlers \cup {h}
      /\ p.state = "checked" /\ On(p.client) /\ chan[p.client].sock = p.sock
  BY DEF Join, server, wire, Listening, On
<1>2. /\ q.client = p.client /\ q.sock = p.sock /\ q.epoch = p.epoch /\ q.state = "joined"
      /\ h.client = p.client /\ h.sock = p.sock /\ h.key = 0 /\ h.step = "asked"
  BY <1>0 DEF Peer
<1> HIDE DEF q, h
<1>3. \A r \in peers : Of(r, p.client, p.sock) => r = p
  BY DEF LiveInv, OnePeer, Of
<1>4. \A d, s : Has(d, s) => Has(d, s)'
  <2> SUFFICES ASSUME NEW d, NEW s, \E r \in peers : Of(r, d, s)
               PROVE  \E r \in peers' : Of(r, d, s)
    BY DEF Has, Of
  <2>1. PICK r \in peers : Of(r, d, s)
    OBVIOUS
  <2>2. CASE r = p
    BY <1>1, <1>2, <2>1, <2>2 DEF Of
  <2>3. CASE r # p
    BY <1>1, <2>1, <2>3
  <2> QED
    BY <2>2, <2>3
<1>5. \A k \in handlers : k.client # p.client
  <2> SUFFICES ASSUME NEW k \in handlers, k.client = p.client PROVE FALSE
    OBVIOUS
  <2>1. /\ k.sock = chan[k.client].sock
        /\ \A r \in peers : Of(r, k.client, k.sock) => r.state # "checked"
    BY DEF LiveInv, HandlerInv
  <2> QED
    BY <1>1, <2>1 DEF Of
<1>6. ~chan[p.client].ready
  BY <1>0, <1>1 DEF LiveInv, ReadyInv, Of
<1>7. OnePeer' /\ WrittenUnderLiveKey'
  BY <1>1, <1>2 DEF LiveInv, OnePeer, WrittenUnderLiveKey
<1>8. Ages'
  BY <1>1, <1>2 DEF LiveInv, Ages
<1>9. ReadyInv'
  <2> SUFFICES ASSUME NEW d \in Clients, chan[d].ready
               PROVE  /\ On(d)' /\ Has(d, chan[d].sock)' /\ \A k \in handlers' : k.client # d
                      /\ \A r \in peers' : Of(r, d, chan[d].sock) =>
                           r.epoch <= chan[d].key /\ r.state # "checked"
    BY <1>1 DEF ReadyInv, Of
  <2>1. /\ On(d) /\ Has(d, chan[d].sock) /\ \A k \in handlers : k.client # d
        /\ \A r \in peers : Of(r, d, chan[d].sock) => r.epoch <= chan[d].key /\ r.state # "checked"
    BY DEF LiveInv, ReadyInv
  <2>2. d # p.client
    BY <1>6
  <2>3. On(d)' /\ Has(d, chan[d].sock)'
    <3>1. \E r \in peers' : Of(r, d, chan[d].sock)
      BY <1>1, <2>1, <2>2 DEF Has, Of
    <3> QED
      BY <1>1, <2>1, <3>1 DEF On, Has, Of
  <2> QED
    BY <1>1, <1>2, <2>1, <2>2, <2>3 DEF Of
<1>10. HandlerInv'
  <2>1. \A k, l \in handlers' : k.client = l.client => k = l
    BY <1>1, <1>2, <1>5 DEF LiveInv, HandlerInv
  <2>2. ASSUME NEW k \in handlers'
        PROVE  /\ k.sock = chan'[k.client].sock /\ k.key <= node'.epoch
               /\ On(k.client)' => Has(k.client, k.sock)'
               /\ \A r \in peers' : Of(r, k.client, k.sock) =>
                    /\ r.state # "checked"
                    /\ k.step = "answered" => r.epoch <= k.key
                    /\ k.step = "catchUp" => r.epoch <= chan'[k.client].key
    <3>1. CASE k \in handlers
      <4>1. /\ k.sock = chan[k.client].sock /\ k.key <= node.epoch
            /\ On(k.client) => Has(k.client, k.sock)
            /\ \A r \in peers : Of(r, k.client, k.sock) =>
                 /\ r.state # "checked"
                 /\ k.step = "answered" => r.epoch <= k.key
                 /\ k.step = "catchUp" => r.epoch <= chan[k.client].key
        BY <3>1 DEF LiveInv, HandlerInv
      <4>2. On(k.client)' => Has(k.client, k.sock)'
        BY <1>1, <1>4, <4>1 DEF On
      <4>3. \A r \in peers' : Of(r, k.client, k.sock) => r \in peers
        BY <1>1, <1>2, <1>5, <3>1 DEF Of
      <4> QED
        BY <1>1, <4>1, <4>2, <4>3
    <3>2. CASE k = h
      <4>1. Has(k.client, k.sock)'
        <5>1. \E r \in peers' : Of(r, k.client, k.sock)
          BY <1>1, <1>2, <3>2 DEF Of
        <5> QED
          BY <5>1 DEF Has, Of
      <4>2. \A r \in peers' : Of(r, k.client, k.sock) => r = q
        BY <1>1, <1>2, <1>3, <3>2 DEF Of
      <4> QED
        BY <1>0, <1>1, <1>2, <3>2, <4>1, <4>2
    <3> QED
      BY <1>1, <3>1, <3>2
  <2> QED
    BY <2>1, <2>2 DEF HandlerInv
<1>11. FrameInv'
  <2> SUFFICES ASSUME NEW f \in frames
               PROVE  /\ Has(f.client, f.sock)' /\ f.key <= node.epoch
                      /\ \A r \in peers' : Of(r, f.client, f.sock) => r.epoch <= f.key
    BY <1>1 DEF FrameInv
  <2>1. /\ Has(f.client, f.sock) /\ f.key <= node.epoch
        /\ \A r \in peers : Of(r, f.client, f.sock) => r.epoch <= f.key
    BY DEF LiveInv, FrameInv
  <2> QED
    BY <1>1, <1>2, <1>4, <2>1 DEF Of
<1> QED
  BY <1>7, <1>8, <1>9, <1>10, <1>11 DEF LiveInv

\* With a socket goes what the relay had not read of it.
LEMMA PeerGoneLive ==
  ASSUME TypeInv, TypeInv', LiveInv, NEW p \in peers, PeerGone(p)
  PROVE  LiveInv'
<1>1. /\ UNCHANGED <<node, inserts, chan, handlers>> /\ peers' = peers \ {p}
      /\ frames' = {f \in frames : ~(f.client = p.client /\ f.sock = p.sock)}
      /\ ~(On(p.client) /\ chan[p.client].sock = p.sock)
  BY DEF PeerGone, server, tasks, Listening, On
<1>2. \A d, s : Has(d, s) /\ ~(d = p.client /\ s = p.sock) => Has(d, s)'
  <2> SUFFICES ASSUME NEW d, NEW s, \E r \in peers : Of(r, d, s), ~(d = p.client /\ s = p.sock)
               PROVE  \E r \in peers' : Of(r, d, s)
    BY DEF Has, Of
  <2> QED
    BY <1>1 DEF Of
<1>3. OnePeer' /\ WrittenUnderLiveKey'
  BY <1>1 DEF LiveInv, OnePeer, WrittenUnderLiveKey
<1>4. Ages'
  BY <1>1 DEF LiveInv, Ages
<1>5. ReadyInv'
  <2> SUFFICES ASSUME NEW d \in Clients, chan[d].ready
               PROVE  /\ On(d)' /\ Has(d, chan[d].sock)' /\ \A k \in handlers : k.client # d
                      /\ \A r \in peers' : Of(r, d, chan[d].sock) =>
                           r.epoch <= chan[d].key /\ r.state # "checked"
    BY <1>1 DEF ReadyInv, Of
  <2>1. /\ On(d) /\ Has(d, chan[d].sock) /\ \A k \in handlers : k.client # d
        /\ \A r \in peers : Of(r, d, chan[d].sock) => r.epoch <= chan[d].key /\ r.state # "checked"
    BY DEF LiveInv, ReadyInv
  <2>2. On(d)'
    BY <1>1, <2>1 DEF On
  <2>3. Has(d, chan[d].sock)'
    <3>1. \E r \in peers' : Of(r, d, chan[d].sock)
      BY <1>1, <2>1 DEF Has, Of
    <3> QED
      BY <1>1, <3>1 DEF Has, Of
  <2> QED
    BY <1>1, <2>1, <2>2, <2>3
<1>6. HandlerInv'
  <2>1. ASSUME NEW k \in handlers, On(k.client)' PROVE Has(k.client, k.sock)'
    <3>1. k.sock = chan[k.client].sock /\ On(k.client) /\ Has(k.client, k.sock)
      BY <1>1, <2>1 DEF LiveInv, HandlerInv, On
    <3> QED
      BY <1>1, <1>2, <3>1
  <2> QED
    BY <1>1, <2>1 DEF LiveInv, HandlerInv, Of
<1>7. FrameInv'
  <2>1. ASSUME NEW f \in frames' PROVE Has(f.client, f.sock)'
    <3>1. f \in frames /\ ~(f.client = p.client /\ f.sock = p.sock)
      BY <1>1
    <3>2. Has(f.client, f.sock)
      BY <3>1 DEF LiveInv, FrameInv
    <3> QED
      BY <1>2, <3>1, <3>2
  <2> QED
    BY <1>1, <2>1 DEF LiveInv, FrameInv, Of
<1> QED
  BY <1>3, <1>4, <1>5, <1>6, <1>7 DEF LiveInv

\* The key a handler reads is at least as new as the admission it follows.
LEMMA KeyReadLive ==
  ASSUME TypeInv, TypeInv', LiveInv, NEW h \in handlers, KeyRead(h)
  PROVE  LiveInv'
<1> DEFINE g == [h EXCEPT !.key = node.epoch, !.step = "answered"]
<1>0. h \in Handler /\ h.client \in Clients /\ node.epoch \in Nat
  BY CollabLogAssumption DEF TypeInv, TypeOK, Handler, Node, Epochs
<1>1. /\ UNCHANGED <<node, inserts, peers, chan, frames>>
      /\ handlers' = (handlers \ {h}) \cup {g}
  BY DEF KeyRead, server, wire
<1>2. g.client = h.client /\ g.sock = h.sock /\ g.key = node.epoch /\ g.step = "answered"
  BY <1>0 DEF Handler
<1> HIDE DEF g
<1>3. OnePeer' /\ WrittenUnderLiveKey' /\ FrameInv' /\ Ages'
  BY <1>1 DEF LiveInv, OnePeer, WrittenUnderLiveKey, FrameInv, Ages, Has, Of
<1>4. ReadyInv'
  BY <1>1, <1>2 DEF LiveInv, ReadyInv, Has, Of, On
<1>5. HandlerInv'
  <2>1. \A k, l \in handlers' : k.client = l.client => k = l
    BY <1>1, <1>2 DEF LiveInv, HandlerInv
  <2>2. ASSUME NEW k \in handlers'
        PROVE  /\ k.sock = chan[k.client].sock /\ k.key <= node.epoch
               /\ On(k.client) => Has(k.client, k.sock)
               /\ \A r \in peers : Of(r, k.client, k.sock) =>
                    /\ r.state # "checked"
                    /\ k.step = "answered" => r.epoch <= k.key
                    /\ k.step = "catchUp" => r.epoch <= chan[k.client].key
    <3>1. CASE k \in handlers
      BY <3>1 DEF LiveInv, HandlerInv
    <3>2. CASE k = g
      BY <1>0, <1>2, <3>2 DEF LiveInv, HandlerInv, Ages
    <3> QED
      BY <1>1, <3>1, <3>2
  <2> QED
    BY <1>1, <2>1, <2>2 DEF HandlerInv, Has, Of, On
<1> QED
  BY <1>3, <1>4, <1>5 DEF LiveInv

LEMMA KeyAdoptedLive ==
  ASSUME TypeInv, TypeInv', LiveInv, NEW h \in handlers, KeyAdopted(h)
  PROVE  LiveInv'
<1> DEFINE g == [h EXCEPT !.step = "catchUp"]
<1>0. /\ h \in Handler /\ h.client \in Clients /\ node.epoch \in Nat
      /\ \A c \in Clients : chan[c] \in Channel /\ chan \in [Clients -> Channel]
      /\ \A k \in handlers : k.client \in Clients
      /\ \A p \in peers : p.client \in Clients
  BY CollabLogAssumption DEF TypeInv, TypeOK, Handler, Node, Epochs, Peer
<1>1. /\ UNCHANGED <<node, inserts, peers, frames>>
      /\ chan' = [chan EXCEPT ![h.client].key = h.key]
      /\ handlers' = (handlers \ {h}) \cup {g} /\ h.step = "answered"
  BY DEF KeyAdopted, server, wire
<1>2. g.client = h.client /\ g.sock = h.sock /\ g.key = h.key /\ g.step = "catchUp"
  BY <1>0 DEF Handler
<1>3. /\ \A d \in Clients : d # h.client => chan'[d] = chan[d]
      /\ \A d \in Clients : /\ chan'[d].sock = chan[d].sock /\ chan'[d].ready = chan[d].ready
                            /\ chan'[d].phase = chan[d].phase
      /\ chan'[h.client].key = h.key
  BY <1>0, <1>1 DEF Channel
<1> HIDE DEF g
<1>4. OnePeer' /\ WrittenUnderLiveKey' /\ FrameInv'
  BY <1>1 DEF LiveInv, OnePeer, WrittenUnderLiveKey, FrameInv, Has, Of
<1>5. Ages'
  <2>1. h.key <= node.epoch
    BY DEF LiveInv, HandlerInv
  <2>2. \A d \in Clients : chan'[d].key <= node.epoch
    BY <1>0, <1>3, <2>1 DEF LiveInv, Ages
  <2> QED
    BY <1>0, <1>1, <1>3, <2>2 DEF LiveInv, Ages
<1>6. ~chan[h.client].ready
  BY <1>0 DEF LiveInv, ReadyInv
<1>7. ReadyInv'
  <2> SUFFICES ASSUME NEW d \in Clients, chan'[d].ready
               PROVE  /\ chan'[d] = chan[d] /\ d # h.client
    BY <1>1, <1>2 DEF LiveInv, ReadyInv, Has, Of, On
  <2> QED
    BY <1>0, <1>3, <1>6
<1>8. HandlerInv'
  <2>1. \A k, l \in handlers' : k.client = l.client => k = l
    BY <1>1, <1>2 DEF LiveInv, HandlerInv
  <2>2. ASSUME NEW k \in handlers'
        PROVE  /\ k.sock = chan'[k.client].sock /\ k.key <= node.epoch
               /\ On(k.client)' => Has(k.client, k.sock)
               /\ \A r \in peers : Of(r, k.client, k.sock) =>
                    /\ r.state # "checked"
                    /\ k.step = "answered" => r.epoch <= k.key
                    /\ k.step = "catchUp" => r.epoch <= chan'[k.client].key
    <3>1. CASE k \in handlers /\ k # h
      <4>1. k.client # h.client /\ k.client \in Clients
        BY <1>0, <3>1 DEF LiveInv, HandlerInv
      <4>2. chan'[k.client] = chan[k.client]
        BY <1>3, <4>1
      <4> QED
        BY <3>1, <4>2 DEF LiveInv, HandlerInv, On
    <3>2. CASE k = g
      <4>1. /\ h.sock = chan[h.client].sock /\ h.key <= node.epoch
            /\ On(h.client) => Has(h.client, h.sock)
            /\ \A r \in peers : Of(r, h.client, h.sock) => r.state # "checked" /\ r.epoch <= h.key
        BY <1>1 DEF LiveInv, HandlerInv
      <4> QED
        BY <1>0, <1>2, <1>3, <3>2, <4>1 DEF On
    <3> QED
      BY <1>1, <3>1, <3>2
  <2> QED
    BY <1>1, <2>1, <2>2 DEF HandlerInv, Has, Of
<1> QED
  BY <1>4, <1>5, <1>7, <1>8 DEF LiveInv

\* A channel becomes ready under a key its handler read after the admission.
LEMMA ReadyLive ==
  ASSUME TypeInv, TypeInv', LiveInv, NEW h \in handlers, Ready(h)
  PROVE  LiveInv'
<1>0. /\ h.client \in Clients /\ chan \in [Clients -> Channel] /\ chan[h.client] \in Channel
      /\ \A k \in handlers : k.client \in Clients
      /\ \A p \in peers : p.client \in Clients
  BY DEF TypeInv, TypeOK, Handler, Peer
<1>1. /\ UNCHANGED <<node, inserts, peers, frames>> /\ handlers' = handlers \ {h}
      /\ h.step = "catchUp"
  BY DEF Ready, server, wire
<1>2. /\ \A d \in Clients : d # h.client => chan'[d] = chan[d]
      /\ \A d \in Clients : /\ chan'[d].sock = chan[d].sock /\ chan'[d].key = chan[d].key
                            /\ chan'[d].phase = chan[d].phase
      /\ chan'[h.client].ready => chan[h.client].ready
            \/ (Listening(h.client, h.sock) /\ chan[h.client].phase = "online")
  BY <1>0 DEF Ready, Channel
<1>3. OnePeer' /\ WrittenUnderLiveKey' /\ FrameInv'
  BY <1>1 DEF LiveInv, OnePeer, WrittenUnderLiveKey, FrameInv, Has, Of
<1>4. Ages'
  BY <1>0, <1>1, <1>2 DEF LiveInv, Ages
<1>5. HandlerInv'
  BY <1>0, <1>1, <1>2 DEF LiveInv, HandlerInv, Has, Of, On
<1>6. ReadyInv'
  <2> SUFFICES ASSUME NEW d \in Clients, chan'[d].ready
               PROVE  /\ On(d) /\ Has(d, chan[d].sock)
                      /\ \A k \in handlers' : k.client # d
                      /\ \A p \in peers : Of(p, d, chan[d].sock) =>
                           p.epoch <= chan[d].key /\ p.state # "checked"
    BY <1>1, <1>2 DEF ReadyInv, Has, Of, On
  <2>1. CASE chan[d].ready
    BY <1>1, <2>1 DEF LiveInv, ReadyInv
  <2>2. CASE ~chan[d].ready
    <3>1. d = h.client /\ On(d) /\ chan[d].sock = h.sock
      BY <1>2, <2>2 DEF Listening, On
    <3>2. /\ Has(d, h.sock)
          /\ \A p \in peers : Of(p, d, h.sock) => p.epoch <= chan[d].key /\ p.state # "checked"
      BY <1>1, <3>1 DEF LiveInv, HandlerInv
    <3>3. \A k \in handlers' : k.client # d
      BY <1>1, <3>1 DEF LiveInv, HandlerInv
    <3> QED
      BY <3>1, <3>2, <3>3
  <2> QED
    BY <2>1, <2>2
<1> QED
  BY <1>3, <1>4, <1>5, <1>6 DEF LiveInv

\* No client is so slow that what it awaited for one socket arrives for the next.
Prompt == Slow = {}

LEMMA LiveStep == Prompt /\ TypeInv /\ LiveInv /\ [Next]_vars => LiveInv'
<1> SUFFICES ASSUME Prompt, TypeInv, LiveInv, [Next]_vars PROVE LiveInv'
  OBVIOUS
<1>0. TypeInv'
  BY TypeStep
<1>1. CASE UNCHANGED vars
  BY <1>1 DEF vars, server, tasks, wire, counts, LiveInv, OnePeer, Ages, ReadyInv, HandlerInv,
              FrameInv, WrittenUnderLiveKey, Has, Of, On
<1>2. ASSUME NEW c \in Clients,
             \/ ClientStep(c) \/ (\E e \in Edits : Edit(c, e))
             \/ (\E next \in {"offline", "rekey"} : Break(c, next)) \/ Close(c)
      PROVE  LiveInv'
  <2>1. c \notin Slow
    BY DEF Prompt
  <2>2. CASE ClientStep(c)
    BY <1>0, <2>1, <2>2, QuietSteps, EncryptedLive, ConnectLive, AdmitLive, JoinLive, KeyReadLive,
       KeyAdoptedLive, ReadyLive DEF ClientStep
  <2> QED
    BY <1>0, <1>2, <2>2, QuietSteps
<1>3. CASE \E p \in peers : PeerGone(p)
  BY <1>0, <1>3, PeerGoneLive
<1>4. CASE \/ RelayStep
           \/ \E i \in inserts : FailInsert(i)
           \/ RequireRotation
           \/ \E m \in Managers : \/ Rotate(m) \/ Repair(m) \/ ReadLog(m) \/ AbandonCompaction(m)
                                  \/ \E answered \in BOOLEAN : Compact(m, answered)
  BY <1>0, <1>4, ServerSteps
<1> QED
  BY <1>1, <1>2, <1>3, <1>4 DEF Next

\* What the relay writes is under the key the node has at that moment: the epoch it compares is
\* that of the admission, and the channel never sends under an older key (collab.ts:385-411,
\* relay.ts:571-583), as long as no client's awaited call outlives its socket.
THEOREM LiveKeyCorrect == ASSUME Prompt PROVE Spec => []WrittenUnderLiveKey
<1>1. Init => TypeInv /\ LiveInv
  BY InitType, InitLive
<1>2. TypeInv /\ LiveInv /\ [Next]_vars => TypeInv' /\ LiveInv'
  BY TypeStep, LiveStep
<1>3. LiveInv => WrittenUnderLiveKey
  BY DEF LiveInv
<1> QED
  BY <1>1, <1>2, <1>3, PTL DEF Spec

-----------------------------------------------------------------------------
(* Rotations and compactions, one manager at a time.                       *)

OneManager == \A m, n \in Managers : m = n

\* A manager at work works for the key of the node and has both keys of the node.
RunInv ==
  /\ node.slot < node.epoch
  /\ \A m \in Managers : comp[m].pc # "idle" =>
       comp[m].to = node.epoch /\ {node.epoch, node.slot} \ {0} \subseteq comp[m].keys
  /\ \A l \in log : l.key <= node.epoch

LEMMA InitRun == Init => RunInv
  BY DEF Init, RunInv

\* The steps that touch the server's part of the state or a compaction.
LEMMA StepKinds ==
  ASSUME [Next]_vars
  PROVE  \/ UNCHANGED <<node, log, nextSeq, inserts, comp, unfinished>>
         \/ \E f \in frames, p \in peers :
              f.client = p.client /\ f.sock = p.sock /\ BeginInsert(f, p)
         \/ \E i \in inserts : CommitInsert(i) \/ FailInsert(i)
         \/ RequireRotation
         \/ \E m \in Managers : \/ Rotate(m) \/ Repair(m) \/ ReadLog(m) \/ AbandonCompaction(m)
                                \/ \E answered \in BOOLEAN : Compact(m, answered)
<1>1. CASE UNCHANGED vars
  BY <1>1 DEF vars, server, counts
<1>2. ASSUME NEW c \in Clients, ClientStep(c) PROVE UNCHANGED <<node, log, nextSeq, inserts, comp, unfinished>>
  BY <1>2 DEF ClientStep, Rekey, Connect, CloseSocket, Admit, Encrypted, Received, Refused, Kicked,
              Join, KeyRead, KeyAdopted, Ready, server, counts
<1>3. ASSUME NEW c \in Clients,
             \/ \E e \in Edits : Edit(c, e)
             \/ \E next \in {"offline", "rekey"} : Break(c, next)
             \/ Close(c)
      PROVE  UNCHANGED <<node, log, nextSeq, inserts, comp, unfinished>>
  BY <1>3 DEF Edit, Break, Close, server, counts
<1>4. ASSUME NEW p \in peers, PeerGone(p) PROVE UNCHANGED <<node, log, nextSeq, inserts, comp, unfinished>>
  BY <1>4 DEF PeerGone, server, counts
<1>5. ASSUME NEW f \in frames, NEW p \in peers, RefuseFrame(f, p)
      PROVE  UNCHANGED <<node, log, nextSeq, inserts, comp, unfinished>>
  BY <1>5 DEF RefuseFrame, server, counts
<1> QED
  BY <1>1, <1>2, <1>3, <1>4, <1>5 DEF Next, RelayStep

LEMMA RunStep == OneManager /\ TypeInv /\ LiveInv /\ RunInv /\ [Next]_vars => RunInv'
<1> SUFFICES ASSUME OneManager, TypeInv, LiveInv, RunInv, [Next]_vars PROVE RunInv'
  OBVIOUS
<1>0. /\ node \in Node /\ node.epoch \in Nat /\ node.slot \in Nat /\ node.epoch # 0
      /\ comp \in [Managers -> Compaction] /\ \A m \in Managers : comp[m] \in Compaction
      /\ \A l \in log : l.key \in Nat
  BY CollabLogAssumption DEF TypeInv, TypeOK, Node, Epochs, Keys, Entry
<1>1. CASE UNCHANGED <<node, log, nextSeq, inserts, comp>>
  BY <1>1 DEF RunInv
<1>2. CASE \E f \in frames, p \in peers : BeginInsert(f, p)
  BY <1>2 DEF RunInv, BeginInsert, StartInsert
<1>3. ASSUME NEW i \in inserts, CommitInsert(i) PROVE RunInv'
  <2>1. i.frame.key = node.epoch
    BY DEF LiveInv, WrittenUnderLiveKey
  <2> QED
    BY <1>0, <1>3, <2>1 DEF RunInv, CommitInsert
<1>4. ASSUME NEW i \in inserts, FailInsert(i) PROVE RunInv'
  BY <1>4 DEF RunInv, FailInsert
<1>5. CASE RequireRotation
  <2>1. node'.epoch = node.epoch /\ node'.slot = node.slot /\ UNCHANGED <<log, comp>>
    BY <1>0, <1>5 DEF RequireRotation, Node
  <2> QED
    BY <2>1 DEF RunInv
<1>6. ASSUME NEW m \in Managers, Rotate(m) PROVE RunInv'
  <2>1. /\ node'.epoch = node.epoch + 1 /\ node'.slot = node.epoch /\ log' = log
        /\ comp'[m].to = node.epoch + 1 /\ comp'[m].keys = KnownKeys
    BY <1>0, <1>6 DEF Rotate
  <2>2. {node.epoch + 1, node.epoch} \ {0} \subseteq KnownKeys
    BY DEF KnownKeys
  <2>3. \A n \in Managers : n = m
    BY DEF OneManager
  <2>4. \A l \in log' : l.key <= node'.epoch
    BY <1>0, <2>1 DEF RunInv
  <2>5. node'.slot < node'.epoch
    BY <1>0, <2>1
  <2> QED
    BY <2>1, <2>2, <2>3, <2>4, <2>5 DEF RunInv
<1>7. ASSUME NEW m \in Managers, Repair(m) PROVE RunInv'
  <2>1. /\ UNCHANGED <<node, log>> /\ comp'[m].to = node.epoch
        /\ comp'[m].keys = {node.epoch, node.slot}
        /\ \A n \in Managers : n # m => comp'[n] = comp[n]
    BY <1>0, <1>7 DEF Repair, server
  <2> QED
    BY <2>1 DEF RunInv
<1>8. ASSUME NEW m \in Managers, ReadLog(m) \/ AbandonCompaction(m) PROVE RunInv'
  <2>1. /\ UNCHANGED <<node, log>> /\ comp[m].pc # "idle"
        /\ comp'[m].to = comp[m].to /\ comp'[m].keys = comp[m].keys
        /\ \A n \in Managers : n # m => comp'[n] = comp[n]
    <3>1. CASE ReadLog(m)
      BY <1>0, <3>1 DEF ReadLog, server, Compaction
    <3>2. CASE AbandonCompaction(m)
      BY <1>0, <3>2 DEF AbandonCompaction, server, Compaction
    <3> QED
      BY <1>8, <3>1, <3>2
  <2> QED
    BY <2>1 DEF RunInv
<1>9. ASSUME NEW m \in Managers, NEW answered \in BOOLEAN, Compact(m, answered) PROVE RunInv'
  <2>1. /\ node' = node /\ comp[m].pc = "compact"
        /\ comp'[m].to = comp[m].to /\ comp'[m].keys = comp[m].keys
        /\ \A n \in Managers : n # m => comp'[n] = comp[n]
    BY <1>0, <1>9 DEF Compact, Replace, Compaction
  <2>2. comp[m].to = node.epoch
    BY <2>1 DEF RunInv
  <2>3. \A l \in log' : l \in log \/ l.key = node.epoch
    BY <1>9, <2>2 DEF Compact, Replace
  <2> QED
    BY <1>0, <2>1, <2>3 DEF RunInv
<1> QED
  BY <1>1, <1>2, <1>3, <1>4, <1>5, <1>6, <1>7, <1>8, <1>9, StepKinds

\* Two rotations in a row left rows under older keys.
Twice == \E k \in unfinished : k + 1 \in unfinished

AllIdle == \A m \in Managers : comp[m].pc = "idle"

\* What the key of the node and the slot read at rest, what the keys of the compaction under way
\* read meanwhile, and which rotation left the rows that only the latter read.
Behind ==
  /\ \A l \in log : \/ l.key \in {node.epoch, node.slot}
                    \/ \E m \in Managers : comp[m].pc # "idle" /\ l.key \in comp[m].keys
  /\ AllIdle => \A l \in log : l.key # node.epoch => node.epoch \in unfinished
  /\ ~AllIdle => \A l \in log : l.key \notin {node.epoch, node.slot} => node.slot \in unfinished
  /\ \A m \in Managers : comp[m].pc = "compact" =>
       \A l \in log : l.key # node.epoch => l.seq <= comp[m].upToSeq

ReadInv ==
  /\ node.epoch = node.slot + 1
  /\ Twice \/ Behind

LEMMA ReadStep ==
  OneManager /\ TypeInv /\ LiveInv /\ RunInv /\ ReadInv /\ [Next]_vars => ReadInv'
<1> SUFFICES ASSUME OneManager, TypeInv, LiveInv, RunInv, ReadInv, [Next]_vars
             PROVE  ReadInv'
  OBVIOUS
<1>0. /\ node \in Node /\ node.epoch \in Nat /\ node.slot \in Nat /\ node.epoch # 0
      /\ comp \in [Managers -> Compaction] /\ \A m \in Managers : comp[m] \in Compaction
      /\ \A l \in log : l.key \in Nat /\ l.key # 0 /\ l.seq \in Nat
      /\ unfinished \subseteq Nat /\ 0 \notin unfinished
  BY CollabLogAssumption DEF TypeInv, TypeOK, Node, Epochs, Keys, Entry
\* Steps that leave the node, the compactions and the history alone and add rows under the key
\* of the node.
<1>a. ASSUME UNCHANGED <<node.epoch, node.slot, comp, unfinished>>,
             \A l \in log' : l \in log \/ l.key = node.epoch
      PROVE  ReadInv'
  <2>1. Twice' = Twice /\ AllIdle' = AllIdle
    BY <1>a DEF Twice, AllIdle
  <2>2. CASE Behind
    <3>1. Behind'
      BY <1>a, <2>1, <2>2 DEF Behind
    <3> QED
      BY <1>a, <3>1 DEF ReadInv
  <2> QED
    BY <1>a, <2>1, <2>2 DEF ReadInv
<1>1. CASE UNCHANGED <<node, log, nextSeq, inserts, comp, unfinished>>
  BY <1>a, <1>1
<1>2. CASE \E f \in frames, p \in peers : BeginInsert(f, p)
  BY <1>a, <1>2 DEF BeginInsert, StartInsert, counts
<1>3. ASSUME NEW i \in inserts, CommitInsert(i) PROVE ReadInv'
  <2>1. i.frame.key = node.epoch
    BY DEF LiveInv, WrittenUnderLiveKey
  <2> QED
    BY <1>a, <1>3, <2>1 DEF CommitInsert, counts
<1>4. ASSUME NEW i \in inserts, FailInsert(i) PROVE ReadInv'
  BY <1>a, <1>4 DEF FailInsert
<1>5. CASE RequireRotation
  <2>1. node'.epoch = node.epoch /\ node'.slot = node.slot /\ UNCHANGED <<log, comp, unfinished>>
    BY <1>0, <1>5 DEF RequireRotation, Node
  <2> QED
    BY <1>a, <2>1
<1>6. ASSUME NEW m \in Managers, Rotate(m) PROVE ReadInv'
  <2>1. /\ node'.epoch = node.epoch + 1 /\ node'.slot = node.epoch
        /\ UNCHANGED <<log, unfinished>>
        /\ comp[m].pc = "idle" /\ comp'[m].pc = "read"
        /\ comp'[m].keys = {node.epoch + 1, node.epoch, node.slot} \ {0}
    BY <1>0, <1>6 DEF Rotate, KnownKeys, counts
  <2>2. \A n \in Managers : n = m
    BY DEF OneManager
  <2>3. AllIdle /\ ~AllIdle' /\ Twice' = Twice
    BY <2>1, <2>2 DEF AllIdle, Twice
  <2>4. CASE Behind
    <3>1. \A l \in log : l.key \in {node.epoch, node.slot}
      BY <2>3, <2>4 DEF Behind, AllIdle
    <3>2. \A l \in log : l.key # node.epoch => node.epoch \in unfinished
      BY <2>3, <2>4 DEF Behind
    <3>3. \A l \in log : l.key \in comp'[m].keys
      BY <1>0, <2>1, <3>1
    <3>4. \A n \in Managers : comp'[n].pc # "compact"
      BY <2>1, <2>2
    <3>5. Behind'
      BY <2>1, <2>3, <3>2, <3>3, <3>4 DEF Behind
    <3> QED
      BY <2>1, <3>5 DEF ReadInv
  <2> QED
    BY <2>1, <2>3, <2>4 DEF ReadInv
<1>7. ASSUME NEW m \in Managers, Repair(m) PROVE ReadInv'
  <2>1. /\ UNCHANGED <<node, log, unfinished>> /\ comp[m].pc = "idle" /\ comp'[m].pc = "read"
        /\ \A n \in Managers : n = m
    BY <1>0, <1>7 DEF Repair, server, counts, OneManager
  <2>2. AllIdle /\ ~AllIdle' /\ Twice' = Twice
    BY <2>1 DEF AllIdle, Twice
  <2>3. CASE Behind
    <3>1. \A l \in log : l.key \in {node.epoch, node.slot}
      BY <2>2, <2>3 DEF Behind, AllIdle
    <3>2. Behind'
      BY <2>1, <2>2, <3>1 DEF Behind
    <3> QED
      BY <2>1, <3>2 DEF ReadInv
  <2> QED
    BY <2>1, <2>2, <2>3 DEF ReadInv
\* Leaving the log: with every row under the key of the node, or with one more rotation that
\* left rows behind.
<1>b. ASSUME NEW m \in Managers, comp[m].pc # "idle", comp' \in [Managers -> Compaction],
             node' = node, AllIdle', unfinished' = Left(m, log), log' = log
      PROVE  ReadInv'
  <2>1. comp[m].to = node.epoch /\ \A n \in Managers : n = m
    BY <1>b DEF RunInv, OneManager
  <2>2. CASE \A l \in log : l.key = node.epoch
    <3>1. Behind'
      BY <1>b, <2>2 DEF Behind, AllIdle
    <3> QED
      BY <1>b, <3>1 DEF ReadInv
  <2>3. CASE ~\A l \in log : l.key = node.epoch
    <3>1. unfinished' = unfinished \cup {node.epoch}
      BY <1>b, <2>1, <2>3 DEF Left
    <3>2. CASE Twice
      BY <1>b, <3>1, <3>2 DEF Twice, ReadInv
    <3>3. CASE Behind /\ \A l \in log : l.key \in {node.epoch, node.slot}
      <4>1. \A n \in Managers : comp'[n].pc # "compact"
        BY <1>b DEF AllIdle
      <4>2. Behind'
        BY <1>b, <3>1, <3>3, <4>1 DEF Behind
      <4> QED
        BY <1>b, <4>2 DEF ReadInv
    <3>4. CASE Behind /\ ~\A l \in log : l.key \in {node.epoch, node.slot}
      <4>1. node.slot \in unfinished
        BY <1>b, <3>4 DEF Behind, AllIdle
      <4>2. Twice'
        BY <3>1, <4>1 DEF ReadInv, Twice
      <4> QED
        BY <1>b, <4>2 DEF ReadInv
    <3> QED
      BY <3>2, <3>3, <3>4 DEF ReadInv
  <2> QED
    BY <2>2, <2>3
<1>8. ASSUME NEW m \in Managers, ReadLog(m) PROVE ReadInv'
  <2>0. UNCHANGED <<node, log>> /\ comp[m].pc = "read" /\ \A n \in Managers : n = m
    BY <1>8 DEF ReadLog, server, OneManager
  <2>1. comp[m].to = node.epoch /\ {node.epoch, node.slot} \ {0} \subseteq comp[m].keys
    BY <2>0 DEF RunInv
  <2>2. CASE Prefix(m) = {} \/ \A l \in Readable(m) : l.key = comp[m].to
    <3>1. comp' = [comp EXCEPT ![m] = [comp[m] EXCEPT !.pc = "idle"]]
      BY <1>8, <2>2 DEF ReadLog
    <3>2. comp'[m].pc = "idle" /\ comp' \in [Managers -> Compaction]
      BY <1>0, <3>1 DEF Compaction
    <3>3. unfinished' = Left(m, log) /\ AllIdle'
      BY <1>8, <2>0, <3>2 DEF ReadLog, AllIdle
    <3> QED
      BY <1>b, <2>0, <3>2, <3>3
  <2>3. CASE ~(Prefix(m) = {} \/ \A l \in Readable(m) : l.key = comp[m].to)
    <3> DEFINE last == CHOOSE s \in {l.seq : l \in Prefix(m)} : \A l \in Prefix(m) : l.seq <= s
               kept == UNION {l.edits : l \in Readable(m)}
    <3>1. \A l \in Prefix(m) : l.seq <= last
      BY <2>3, LastOfPrefix
    <3>2. comp' = [comp EXCEPT ![m] = [comp[m] EXCEPT !.pc = "compact", !.upToSeq = last, !.edits = kept]]
      BY <1>8, <2>3 DEF ReadLog
    <3> HIDE DEF last, kept
    <3>3. /\ comp'[m].pc = "compact" /\ comp'[m].upToSeq = last
          /\ comp'[m].keys = comp[m].keys
      BY <1>0, <3>2 DEF Compaction
    <3>4. unfinished' = unfinished /\ ~AllIdle /\ ~AllIdle' /\ Twice' = Twice
      BY <1>8, <2>0, <3>3 DEF ReadLog, AllIdle, Twice
    <3>5. CASE Behind
      <4>1. Readable(m) = log
        BY <1>0, <2>0, <2>1, <3>5 DEF Readable, Behind
      <4>2. Prefix(m) = log
        BY <4>1 DEF Prefix
      <4>3. \A l \in log : l.key \in comp'[m].keys /\ l.seq <= comp'[m].upToSeq
        BY <3>1, <3>3, <4>1, <4>2 DEF Readable
      <4>4. Behind'
        BY <2>0, <3>3, <3>4, <3>5, <4>3 DEF Behind
      <4> QED
        BY <2>0, <4>4 DEF ReadInv
    <3> QED
      BY <2>0, <3>4, <3>5 DEF ReadInv
  <2> QED
    BY <2>2, <2>3
<1>9. ASSUME NEW m \in Managers, AbandonCompaction(m) PROVE ReadInv'
  <2>1. comp' = [comp EXCEPT ![m] = [comp[m] EXCEPT !.pc = "idle"]]
    BY <1>9 DEF AbandonCompaction
  <2>2. comp'[m].pc = "idle" /\ comp' \in [Managers -> Compaction]
    BY <1>0, <2>1 DEF Compaction
  <2>3. AllIdle'
    BY <2>2 DEF AllIdle, OneManager
  <2> QED
    BY <1>9, <1>b, <2>2, <2>3 DEF AbandonCompaction, server
<1>10. ASSUME NEW m \in Managers, NEW answered \in BOOLEAN, Compact(m, answered) PROVE ReadInv'
  <2>1. /\ node' = node /\ comp[m].pc = "compact" /\ comp[m].to = node.epoch
        /\ log' = {l \in log : ~(l.seq <= comp[m].upToSeq)}
                  \cup {[seq |-> nextSeq, key |-> comp[m].to, edits |-> comp[m].edits]}
        /\ unfinished' = Left(m, log')
    BY <1>0, <1>10 DEF Compact, Replace, RunInv
  <2>2. CASE \A l \in log' : l.key = node.epoch
    <3>1. Behind'
      BY <2>1, <2>2 DEF Behind, AllIdle
    <3> QED
      BY <2>1, <3>1 DEF ReadInv
  <2>3. CASE ~\A l \in log' : l.key = node.epoch
    <3>1. Twice
      BY <2>1, <2>3 DEF ReadInv, Behind
    <3>2. unfinished \subseteq unfinished'
      BY <2>1, <2>3 DEF Left
    <3> QED
      BY <2>1, <3>1, <3>2 DEF ReadInv, Twice
  <2> QED
    BY <2>2, <2>3
<1> QED
  BY <1>1, <1>2, <1>3, <1>4, <1>5, <1>6, <1>7, <1>8, <1>9, <1>10, StepKinds

\* However often the one manager's compactions fail or are repeated, the log can be read again
\* with the keys at hand (rotate.ts:14-20, 387-391), unless two rotations in a row left rows behind.
THEOREM RecoverableCorrect ==
  ASSUME Prompt, OneManager
  PROVE  Spec => []LogRecoverable
<1>1. Init => TypeInv /\ LiveInv /\ RunInv /\ ReadInv
  <2>1. Init => ReadInv
    BY DEF Init, ReadInv, Behind, AllIdle
  <2> QED
    BY <2>1, InitType, InitLive, InitRun
<1>2. TypeInv /\ LiveInv /\ RunInv /\ ReadInv /\ [Next]_vars
      => TypeInv' /\ LiveInv' /\ RunInv' /\ ReadInv'
  BY TypeStep, LiveStep, RunStep, ReadStep
<1>3. ReadInv => LogRecoverable
  BY DEF ReadInv, Twice, Behind, LogRecoverable
<1> QED
  BY <1>1, <1>2, <1>3, PTL DEF Spec

-----------------------------------------------------------------------------
(* What a compaction may remove.  Inserts run one at a time and one        *)
(* manager rotates: an insert whose number a snapshot overtook is above    *)
(* what the next compaction replaces.                                      *)

OneInsert == inserts = {} \/ \E i \in inserts : inserts = {i}

Numbers ==
  /\ OneInsert
  /\ \A l \in log : l.seq < nextSeq
  /\ \A i \in inserts : i.seq < nextSeq /\ \A l \in log : l.seq # i.seq
  /\ \A l, k \in log : l.seq = k.seq => l = k
  /\ \A l \in log : l.key # node.epoch => \A i \in inserts : l.seq < i.seq

\* A row that no key of the node opens.
Hidden(l) == l.key # node.epoch /\ l.key # node.slot

\* An insert may be followed by a snapshot only if the rows before it keep the next compaction
\* away from it.
Overtaken == \A i \in inserts : (\E l \in log : l.seq > i.seq) =>
  /\ \/ \E b \in log : Hidden(b) /\ b.seq < i.seq
     \/ \A l \in log : l.key # node.slot
  /\ \A m \in Managers : comp[m].pc = "read" => comp[m].keys \subseteq {node.epoch, node.slot}

\* A compaction that has read the log carries every edit of the rows it will remove.
Stands == \A m \in Managers : comp[m].pc = "compact" =>
  /\ comp[m].edits \subseteq Logged
  /\ \A l \in log : l.seq <= comp[m].upToSeq => l.edits \subseteq comp[m].edits
  /\ \A i \in inserts : i.seq > comp[m].upToSeq
  /\ nextSeq > comp[m].upToSeq
  /\ \A l \in log : l.key = node.slot /\ l.seq > comp[m].upToSeq =>
       \E b \in log : Hidden(b) /\ b.seq < l.seq /\ b.seq > comp[m].upToSeq

LogInv == Numbers /\ Overtaken /\ Stands

\* Members of the log, of the inserts and of the compactions have numbers for numbers.
LEMMA Counted ==
  ASSUME TypeInv
  PROVE  /\ \A l \in log : l.seq \in Nat /\ l.key \in Nat /\ l.key # 0
         /\ \A i \in inserts : i.seq \in Nat /\ i.frame \in Frame /\ i.frame.key \in Nat
         /\ nextSeq \in Nat /\ node \in Node /\ node.epoch \in Nat /\ node.slot \in Nat
         /\ node.epoch # 0
         /\ comp \in [Managers -> Compaction]
         /\ \A m \in Managers : comp[m] \in Compaction /\ comp[m].upToSeq \in Nat
  BY CollabLogAssumption DEF TypeInv, TypeOK, Node, Epochs, Keys, Entry, Insert, Frame, Compaction

LEMMA NumbersStep ==
  ASSUME MaxInserts = 1, TypeInv, LiveInv, RunInv, Numbers, [Next]_vars
  PROVE  Numbers'
<1>0. /\ \A l \in log : l.seq \in Nat
      /\ \A i \in inserts : i.seq \in Nat
      /\ nextSeq \in Nat /\ node.epoch \in Nat
  BY Counted
<1>1. CASE UNCHANGED <<node, log, nextSeq, inserts, comp>>
  BY <1>1 DEF Numbers, OneInsert
<1>2. ASSUME NEW f \in frames, NEW p \in peers, BeginInsert(f, p) PROVE Numbers'
  <2>1. inserts = {}
    <3>1. Cardinality(inserts) < 1
      BY <1>2 DEF BeginInsert, StartInsert
    <3>2. \A i : Cardinality({i}) = 1
      BY FS_Singleton
    <3>3. ASSUME NEW i, inserts = {i} PROVE FALSE
      <4>1. Cardinality(inserts) = 1
        BY <3>2, <3>3, Zenon
      <4> QED
        BY <3>1, <4>1, SMT
    <3>4. OneInsert
      BY DEF Numbers
    <3> QED
      BY <3>3, <3>4, Zenon DEF OneInsert
  <2> DEFINE i == [seq |-> nextSeq, frame |-> f]
  <2>2. inserts' = {i} /\ i.seq = nextSeq /\ nextSeq' = nextSeq + 1 /\ UNCHANGED <<node, log>>
    BY <1>2, <2>1 DEF BeginInsert, StartInsert
  <2> HIDE DEF i
  <2> QED
    BY <1>0, <2>2 DEF Numbers, OneInsert
<1>3. ASSUME NEW i \in inserts, CommitInsert(i) PROVE Numbers'
  <2> DEFINE n == [seq |-> i.seq, key |-> i.frame.key, edits |-> {i.frame.edit}]
  <2>1. /\ inserts' = {} /\ UNCHANGED <<node, nextSeq>> /\ log' = log \cup {n} /\ n.seq = i.seq
    BY <1>3 DEF CommitInsert, Numbers, OneInsert
  <2> HIDE DEF n
  <2> QED
    BY <1>0, <2>1 DEF Numbers, OneInsert
<1>4. ASSUME NEW i \in inserts, FailInsert(i) PROVE Numbers'
  <2>1. inserts' = {} /\ UNCHANGED <<node, nextSeq, log>>
    BY <1>4 DEF FailInsert, Numbers, OneInsert
  <2> QED
    BY <2>1 DEF Numbers, OneInsert
<1>5. CASE RequireRotation
  <2>1. node'.epoch = node.epoch /\ UNCHANGED <<log, nextSeq, inserts>>
    BY <1>5, Counted DEF RequireRotation, Node
  <2> QED
    BY <2>1 DEF Numbers, OneInsert
<1>6. ASSUME NEW m \in Managers, Rotate(m) PROVE Numbers'
  BY <1>6 DEF Rotate, Numbers, OneInsert
<1>7. ASSUME NEW m \in Managers, Repair(m) \/ ReadLog(m) \/ AbandonCompaction(m) PROVE Numbers'
  BY <1>7 DEF Repair, ReadLog, AbandonCompaction, server, Numbers, OneInsert
<1>8. ASSUME NEW m \in Managers, NEW answered \in BOOLEAN, Compact(m, answered) PROVE Numbers'
  <2> DEFINE n == [seq |-> nextSeq, key |-> comp[m].to, edits |-> comp[m].edits]
  <2>1. /\ UNCHANGED <<node, inserts>> /\ nextSeq' = nextSeq + 1
        /\ log' = {l \in log : ~(l.seq <= comp[m].upToSeq)} \cup {n}
        /\ comp[m].pc = "compact"
    BY <1>8 DEF Compact, Replace
  <2>2. n.seq = nextSeq /\ n.key = node.epoch
    BY <2>1 DEF RunInv
  <2> HIDE DEF n
  <2>3. \A l \in log' : l \in log \/ l = n
    BY <2>1
  <2> QED
    BY <1>0, <2>1, <2>2, <2>3 DEF Numbers, OneInsert
<1> QED
  BY <1>1, <1>2, <1>3, <1>4, <1>5, <1>6, <1>7, <1>8, StepKinds

\* What the log carries after a commit, and after a compaction.
LEMMA LoggedByCommit ==
  ASSUME NEW i \in inserts, CommitInsert(i)
  PROVE  Logged' = Logged \cup {i.frame.edit}
<1> DEFINE n == [seq |-> i.seq, key |-> i.frame.key, edits |-> {i.frame.edit}]
<1>1. log' = log \cup {n} /\ n.edits = {i.frame.edit}
  BY DEF CommitInsert
<1> HIDE DEF n
<1> QED
  BY <1>1 DEF Logged

LEMMA LoggedByCompact ==
  ASSUME Stands, NEW m \in Managers, NEW answered \in BOOLEAN, Compact(m, answered)
  PROVE  Logged' = Logged
<1>1. /\ comp[m].pc = "compact"
      /\ log' = {l \in log : ~(l.seq <= comp[m].upToSeq)}
                \cup {[seq |-> nextSeq, key |-> comp[m].to, edits |-> comp[m].edits]}
  BY DEF Compact, Replace
<1>2. /\ comp[m].edits \subseteq Logged
      /\ \A l \in log : l.seq <= comp[m].upToSeq => l.edits \subseteq comp[m].edits
  BY <1>1 DEF Stands
<1>3. ASSUME NEW e \in Logged' PROVE e \in Logged
  <2>1. PICK l \in log' : e \in l.edits
    BY DEF Logged
  <2>2. l \in log \/ l.edits = comp[m].edits
    BY <1>1
  <2> QED
    BY <1>2, <2>1, <2>2 DEF Logged
<1>4. ASSUME NEW e \in Logged PROVE e \in Logged'
  <2>1. PICK l \in log : e \in l.edits
    BY DEF Logged
  <2>2. CASE l.seq <= comp[m].upToSeq
    <3> DEFINE n == [seq |-> nextSeq, key |-> comp[m].to, edits |-> comp[m].edits]
    <3>1. n \in log' /\ e \in n.edits
      BY <1>1, <1>2, <2>1, <2>2
    <3> QED
      BY <3>1 DEF Logged
  <2>3. CASE ~(l.seq <= comp[m].upToSeq)
    BY <1>1, <2>1, <2>3 DEF Logged
  <2> QED
    BY <2>2, <2>3
<1> QED
  BY <1>3, <1>4

\* Reading the log: every row up to the last one of the prefix has been read, every insert is
\* above it, and a row of the slot's key above it stands behind a row nobody can read.
LEMMA ReadStands ==
  ASSUME TypeInv, RunInv, Numbers, Overtaken, NEW m \in Managers, comp[m].pc = "read",
         Prefix(m) # {}, \E l \in Readable(m) : l.key # comp[m].to,
         NEW last, last = CHOOSE s \in {l.seq : l \in Prefix(m)} : \A l \in Prefix(m) : l.seq <= s
  PROVE  /\ \A l \in log : l.seq <= last => l \in Readable(m)
         /\ \A i \in inserts : i.seq > last
         /\ nextSeq > last
         /\ \A l \in log : l.key = node.slot /\ l.seq > last =>
              \E b \in log : Hidden(b) /\ b.seq < l.seq /\ b.seq > last
<1>0. /\ \A l \in log : l.seq \in Nat /\ l.key # 0
      /\ \A i \in inserts : i.seq \in Nat
      /\ nextSeq \in Nat /\ node.epoch # 0
      /\ comp[m].to = node.epoch /\ {node.epoch, node.slot} \ {0} \subseteq comp[m].keys
  BY Counted DEF RunInv
<1>1. /\ \A l \in Prefix(m) : l.seq <= last
      /\ \E l \in Prefix(m) : l.seq = last
  BY LastOfPrefix
<1>2. PICK top \in Prefix(m) : top.seq = last
  BY <1>1
<1>3. /\ top \in log /\ last \in Nat
      /\ \A b \in log \ Readable(m) : last < b.seq
      /\ Readable(m) \subseteq log /\ \A l \in log : l \in Readable(m) <=> l.key \in comp[m].keys
  BY <1>0, <1>2 DEF Prefix, Readable
<1>4. ASSUME NEW l \in log, l.seq <= last PROVE l \in Readable(m)
  <2>1. l \notin Readable(m) => last < l.seq
    BY <1>3
  <2>2. ~(last < l.seq)
    BY <1>0, <1>3, <1>4
  <2> QED
    BY <2>1, <2>2
<1>5. nextSeq > last
  BY <1>0, <1>2, <1>3 DEF Numbers
<1>6. ASSUME NEW i \in inserts PROVE i.seq > last
  <2>1. top.seq # i.seq
    BY <1>3 DEF Numbers
  <2>2. CASE ~\E l \in log : l.seq > i.seq
    BY <1>0, <1>2, <1>3, <2>1, <2>2
  <2>3. CASE \E l \in log : l.seq > i.seq
    <3>1. comp[m].keys \subseteq {node.epoch, node.slot}
      BY <2>3 DEF Overtaken
    <3>2. CASE \E b \in log : Hidden(b) /\ b.seq < i.seq
      <4>1. PICK b \in log : Hidden(b) /\ b.seq < i.seq
        BY <3>2
      <4>2. b \notin Readable(m)
        BY <1>3, <3>1, <4>1 DEF Hidden
      <4>3. last < b.seq
        BY <1>3, <4>1, <4>2
      <4> QED
        BY <1>0, <1>3, <4>1, <4>3
    <3>3. CASE \A l \in log : l.key # node.slot
      <4>1. \A l \in Readable(m) : l.key = node.epoch
        BY <1>3, <3>1, <3>3
      <4> QED
        BY <1>0, <4>1
    <3> QED
      BY <2>3, <3>2, <3>3 DEF Overtaken
  <2> QED
    BY <2>2, <2>3
<1>7. ASSUME NEW l \in log, l.key = node.slot, l.seq > last
      PROVE  \E b \in log : Hidden(b) /\ b.seq < l.seq /\ b.seq > last
  <2>1. l \in Readable(m)
    BY <1>0, <1>3, <1>7
  <2>2. l \notin Prefix(m)
    BY <1>0, <1>1, <1>3, <1>7
  <2>3. PICK b \in log \ Readable(m) : ~(l.seq < b.seq)
    BY <2>1, <2>2 DEF Prefix
  <2>4. b.seq # l.seq /\ b.key # 0
    BY <1>0, <2>1, <2>3 DEF Numbers
  <2>5. Hidden(b)
    BY <1>0, <1>3, <2>3, <2>4 DEF Hidden
  <2>6. b.seq > last
    BY <1>0, <1>3, <2>3
  <2>7. b.seq < l.seq
    BY <1>0, <2>3, <2>4
  <2> QED
    BY <2>5, <2>6, <2>7
<1> QED
  BY <1>4, <1>5, <1>6, <1>7

LEMMA LogStep ==
  ASSUME MaxInserts = 1, OneManager, TypeInv, LiveInv, RunInv, LogInv, [Next]_vars
  PROVE  LogInv'
<1>0. /\ \A l \in log : l.seq \in Nat /\ l.key # 0
      /\ \A i \in inserts : i.seq \in Nat
      /\ nextSeq \in Nat /\ node.epoch \in Nat /\ node.slot \in Nat /\ node.slot # node.epoch
      /\ node \in Node /\ comp \in [Managers -> Compaction]
      /\ \A m \in Managers : comp[m] \in Compaction /\ comp[m].upToSeq \in Nat
  BY Counted DEF RunInv
<1>1. Numbers'
  BY NumbersStep DEF LogInv
<1>2. CASE UNCHANGED <<node, log, nextSeq, inserts, comp>>
  BY <1>1, <1>2 DEF LogInv, Overtaken, Stands, Logged, Hidden
<1>3. ASSUME NEW f \in frames, NEW p \in peers, BeginInsert(f, p) PROVE LogInv'
  <2> DEFINE i == [seq |-> nextSeq, frame |-> f]
  <2>1. /\ inserts' = inserts \cup {i} /\ i.seq = nextSeq /\ nextSeq' = nextSeq + 1
        /\ UNCHANGED <<node, log, comp>>
    BY <1>3 DEF BeginInsert, StartInsert
  <2> HIDE DEF i
  <2>2. \A l \in log : ~(l.seq > nextSeq)
    BY <1>0 DEF LogInv, Numbers
  <2>3. Overtaken'
    BY <2>1, <2>2 DEF LogInv, Overtaken, Hidden
  <2>4. Stands'
    BY <1>0, <2>1 DEF LogInv, Stands, Logged, Hidden
  <2> QED
    BY <1>1, <2>3, <2>4 DEF LogInv
<1>4. ASSUME NEW i \in inserts, CommitInsert(i) PROVE LogInv'
  <2> DEFINE n == [seq |-> i.seq, key |-> i.frame.key, edits |-> {i.frame.edit}]
  <2>1. /\ inserts' = inserts \ {i} /\ log' = log \cup {n} /\ n.seq = i.seq /\ n.key = i.frame.key
        /\ UNCHANGED <<node, comp, nextSeq>>
    BY <1>4 DEF CommitInsert
  <2> HIDE DEF n
  <2>2. inserts' = {} /\ n.key = node.epoch
    BY <2>1 DEF LogInv, Numbers, OneInsert, LiveInv, WrittenUnderLiveKey
  <2>3. Logged \subseteq Logged'
    BY <1>4, LoggedByCommit
  <2>4. ASSUME NEW m \in Managers, comp'[m].pc = "compact"
        PROVE  /\ comp'[m].edits \subseteq Logged'
               /\ \A l \in log' : l.seq <= comp'[m].upToSeq => l.edits \subseteq comp'[m].edits
               /\ nextSeq' > comp'[m].upToSeq
               /\ \A l \in log' : l.key = node.slot /\ l.seq > comp'[m].upToSeq =>
                    \E b \in log' : Hidden(b)' /\ b.seq < l.seq /\ b.seq > comp'[m].upToSeq
    <3>1. /\ comp'[m] = comp[m] /\ comp[m].pc = "compact"
      BY <2>1, <2>4
    <3>2. /\ comp[m].edits \subseteq Logged
          /\ \A l \in log : l.seq <= comp[m].upToSeq => l.edits \subseteq comp[m].edits
          /\ i.seq > comp[m].upToSeq
          /\ nextSeq > comp[m].upToSeq
          /\ \A l \in log : l.key = node.slot /\ l.seq > comp[m].upToSeq =>
               \E b \in log : Hidden(b) /\ b.seq < l.seq /\ b.seq > comp[m].upToSeq
      BY <3>1 DEF LogInv, Stands
    <3>3. \A l \in log' : l.seq <= comp[m].upToSeq => l.edits \subseteq comp[m].edits
      BY <1>0, <2>1, <3>2
    <3>4. \A l \in log' : l.key = node.slot /\ l.seq > comp[m].upToSeq =>
            \E b \in log : Hidden(b) /\ b.seq < l.seq /\ b.seq > comp[m].upToSeq
      BY <1>0, <2>1, <2>2, <3>2
    <3>5. \A l \in log' : l.key = node.slot /\ l.seq > comp[m].upToSeq =>
            \E b \in log' : Hidden(b)' /\ b.seq < l.seq /\ b.seq > comp[m].upToSeq
      BY <2>1, <3>4 DEF Hidden
    <3> QED
      BY <2>1, <2>3, <3>1, <3>2, <3>3, <3>5
  <2>5. Stands'
    BY <2>1, <2>2, <2>4 DEF Stands
  <2>6. Overtaken'
    BY <2>2 DEF Overtaken
  <2> QED
    BY <1>1, <2>5, <2>6 DEF LogInv
<1>5. ASSUME NEW i \in inserts, FailInsert(i) PROVE LogInv'
  <2>1. inserts' \subseteq inserts /\ UNCHANGED <<node, log, comp, nextSeq>>
    BY <1>5 DEF FailInsert
  <2> QED
    BY <1>1, <2>1 DEF LogInv, Overtaken, Stands, Logged, Hidden
<1>6. CASE RequireRotation
  <2>1. node'.epoch = node.epoch /\ node'.slot = node.slot /\ UNCHANGED <<log, inserts, comp, nextSeq>>
    BY <1>0, <1>6 DEF RequireRotation, Node
  <2> QED
    BY <1>1, <2>1 DEF LogInv, Overtaken, Stands, Logged, Hidden
<1>7. ASSUME NEW m \in Managers, Rotate(m) PROVE LogInv'
  <2>1. inserts' = {} /\ comp'[m].pc = "read"
    BY <1>0, <1>7 DEF Rotate
  <2>2. \A n \in Managers : n = m
    BY DEF OneManager
  <2> QED
    BY <1>1, <2>1, <2>2 DEF LogInv, Overtaken, Stands
<1>8. ASSUME NEW m \in Managers, Repair(m) PROVE LogInv'
  <2>1. /\ comp'[m].pc = "read" /\ comp'[m].keys = {node.epoch, node.slot}
        /\ UNCHANGED <<node, log, inserts, nextSeq>>
    BY <1>0, <1>8 DEF Repair, server
  <2>2. \A n \in Managers : n = m
    BY DEF OneManager
  <2> QED
    BY <1>1, <2>1, <2>2 DEF LogInv, Overtaken, Stands, Hidden
<1>9. ASSUME NEW m \in Managers, ReadLog(m) PROVE LogInv'
  <2>0. UNCHANGED <<node, log, inserts, nextSeq>> /\ comp[m].pc = "read" /\ \A n \in Managers : n = m
    BY <1>9 DEF ReadLog, server, OneManager
  <2>1. CASE comp' = [comp EXCEPT ![m] = [@ EXCEPT !.pc = "idle"]]
    <3>1. comp'[m].pc = "idle"
      BY <1>0, <2>1 DEF Compaction
    <3> QED
      BY <1>1, <2>0, <3>1 DEF LogInv, Overtaken, Stands, Hidden
  <2>2. CASE Prefix(m) # {} /\ ~\A l \in Readable(m) : l.key = comp[m].to
    <3> DEFINE last == CHOOSE s \in {l.seq : l \in Prefix(m)} : \A l \in Prefix(m) : l.seq <= s
               kept == UNION {l.edits : l \in Readable(m)}
    <3>1. comp' = [comp EXCEPT ![m] = [comp[m] EXCEPT !.pc = "compact", !.upToSeq = last, !.edits = kept]]
      BY <1>9, <2>2 DEF ReadLog
    <3>2. /\ \A l \in log : l.seq <= last => l \in Readable(m)
          /\ \A i \in inserts : i.seq > last
          /\ nextSeq > last
          /\ \A l \in log : l.key = node.slot /\ l.seq > last =>
               \E b \in log : Hidden(b) /\ b.seq < l.seq /\ b.seq > last
      BY <2>0, <2>2, ReadStands DEF LogInv
    <3>3. /\ kept \subseteq Logged
          /\ \A l \in Readable(m) : l.edits \subseteq kept
      BY DEF Readable, Logged
    <3> HIDE DEF last, kept
    <3>4. comp'[m].pc = "compact" /\ comp'[m].upToSeq = last /\ comp'[m].edits = kept
      BY <1>0, <3>1 DEF Compaction
    <3>5. Stands'
      BY <2>0, <3>2, <3>3, <3>4 DEF Stands, Logged, Hidden
    <3>6. Overtaken'
      BY <2>0, <3>4 DEF LogInv, Overtaken, Hidden
    <3> QED
      BY <1>1, <3>5, <3>6 DEF LogInv
  <2> QED
    BY <1>9, <2>1, <2>2 DEF ReadLog
<1>10. ASSUME NEW m \in Managers, AbandonCompaction(m) PROVE LogInv'
  <2>1. comp'[m].pc = "idle" /\ UNCHANGED <<node, log, inserts, nextSeq>>
    BY <1>0, <1>10 DEF AbandonCompaction, server, Compaction
  <2>2. \A n \in Managers : n = m
    BY DEF OneManager
  <2> QED
    BY <1>1, <2>1, <2>2 DEF LogInv, Overtaken, Stands, Hidden
<1>11. ASSUME NEW m \in Managers, NEW answered \in BOOLEAN, Compact(m, answered) PROVE LogInv'
  <2> DEFINE n == [seq |-> nextSeq, key |-> comp[m].to, edits |-> comp[m].edits]
             last == comp[m].upToSeq
  <2>1. /\ UNCHANGED <<node, inserts>> /\ nextSeq' = nextSeq + 1
        /\ log' = {l \in log : ~(l.seq <= last)} \cup {n}
        /\ comp[m].pc = "compact" /\ n.seq = nextSeq /\ n.edits = comp[m].edits
        /\ comp'[m].pc \in {"idle", "compact"} /\ comp'[m].edits = comp[m].edits
        /\ comp'[m].upToSeq = last
    BY <1>0, <1>11 DEF Compact, Replace, Compaction
  <2>2. n.key = node.epoch /\ \A o \in Managers : o = m
    BY <2>1 DEF RunInv, OneManager
  <2>3. /\ comp[m].edits \subseteq Logged
        /\ \A i \in inserts : i.seq > last
        /\ nextSeq > last
        /\ \A l \in log : l.key = node.slot /\ l.seq > last =>
             \E b \in log : Hidden(b) /\ b.seq < l.seq /\ b.seq > last
    BY <2>1 DEF LogInv, Stands
  <2>4. Logged' = Logged
    BY <1>11, LoggedByCompact DEF LogInv
  <2>5. last \in Nat
    BY <1>0
  <2> HIDE DEF n, last
  <2>6. \A l \in log' : l = n \/ (l \in log /\ l.seq > last)
    BY <1>0, <2>1, <2>5
  <2>7. \A l \in log' : l.key = node.slot /\ l.seq > last =>
          \E b \in log' : Hidden(b) /\ b.seq < l.seq /\ b.seq > last
    <3>1. ASSUME NEW l \in log', l.key = node.slot, l.seq > last
          PROVE  \E b \in log' : Hidden(b) /\ b.seq < l.seq /\ b.seq > last
      <4>1. l \in log
        BY <1>0, <2>2, <2>6, <3>1
      <4>2. PICK b \in log : Hidden(b) /\ b.seq < l.seq /\ b.seq > last
        BY <2>3, <3>1, <4>1
      <4>3. b \in log'
        BY <1>0, <2>1, <2>5, <4>2
      <4> QED
        BY <4>2, <4>3
    <3> QED
      BY <3>1
  <2>8. Stands'
    <3>1. \A l \in log' : l.seq <= last => l.edits \subseteq comp[m].edits
      BY <1>0, <2>1, <2>3, <2>5, <2>6
    <3>2. nextSeq' > last
      BY <1>0, <2>1, <2>3, <2>5
    <3> QED
      BY <2>1, <2>2, <2>3, <2>4, <2>7, <3>1, <3>2 DEF Stands, Hidden
  <2>9. Overtaken'
    <3>1. ASSUME NEW i \in inserts
          PROVE  \/ \E b \in log' : Hidden(b) /\ b.seq < i.seq
                 \/ \A l \in log' : l.key # node.slot
      <4>1. ASSUME NEW l \in log', l.key = node.slot
            PROVE  \E b \in log' : Hidden(b) /\ b.seq < i.seq
        <5>1. l \in log /\ l.seq > last /\ l.key # node.epoch
          BY <1>0, <2>2, <2>6, <4>1
        <5>2. l.seq < i.seq
          BY <5>1 DEF LogInv, Numbers
        <5>3. PICK b \in log' : Hidden(b) /\ b.seq < l.seq /\ b.seq > last
          BY <2>7, <4>1, <5>1
        <5>4. b.seq \in Nat
          BY <1>0, <2>1, <2>6, <5>3
        <5> QED
          BY <1>0, <5>1, <5>2, <5>3, <5>4
      <4> QED
        BY <4>1
    <3>2. comp'[m].pc # "read"
      BY <2>1
    <3> QED
      BY <2>1, <2>2, <3>1, <3>2 DEF Overtaken, Hidden
  <2> QED
    BY <1>1, <2>8, <2>9 DEF LogInv
<1> QED
  BY <1>2, <1>3, <1>4, <1>5, <1>6, <1>7, <1>8, <1>9, <1>10, <1>11, StepKinds

-----------------------------------------------------------------------------
(* Edits.                                                                  *)

AllOpen == \A c \in Clients : chan[c].phase \notin {"closing", "closed"}

\* Every edit is in the log or held by its author's channel, and the channel forgets one only
\* for an acknowledgement that is true.
EditsInv ==
  /\ AllOpen
  /\ \A a \in answers : a.ok => a.edit \in Logged
  /\ Logged \subseteq made /\ AllHeld \subseteq made /\ Carried \subseteq made
  /\ made \subseteq Logged \cup AllHeld

\* What a channel that is not closed holds, edit by edit.
LEMMA HeldIs ==
  ASSUME TypeInv, TypeInv', AllOpen, AllOpen'
  PROVE  /\ \A e : e \in AllHeld <=>
              \/ \E c \in Clients : e \in chan[c].outbox \/ e \in chan[c].unacknowledged
              \/ \E t \in encrypting : t.edit = e
         /\ \A e : e \in AllHeld' <=>
              \/ \E c \in Clients : e \in chan'[c].outbox \/ e \in chan'[c].unacknowledged
              \/ \E t \in encrypting' : t.edit = e
<1>1. /\ \A t \in encrypting : t.client \in Clients
      /\ \A t \in encrypting' : t.client \in Clients
      /\ \A c \in Clients : chan[c].phase # "closed" /\ chan'[c].phase # "closed"
  BY DEF TypeInv, TypeOK, Frame, AllOpen
<1>2. \A c \in Clients : \A e : e \in Held(c) <=>
        \/ e \in chan[c].outbox \/ e \in chan[c].unacknowledged
        \/ \E t \in encrypting : t.client = c /\ t.edit = e
  <2> SUFFICES ASSUME NEW c \in Clients, NEW e
               PROVE  e \in Held(c) <=>
                        \/ e \in chan[c].outbox \/ e \in chan[c].unacknowledged
                        \/ \E t \in encrypting : t.client = c /\ t.edit = e
    OBVIOUS
  <2>1. Held(c) = chan[c].outbox \cup chan[c].unacknowledged
                  \cup {t.edit : t \in {x \in encrypting : x.client = c}}
    BY <1>1 DEF Held
  <2> QED
    BY <2>1
<1>3. \A c \in Clients : \A e : e \in Held(c)' <=>
        \/ e \in chan'[c].outbox \/ e \in chan'[c].unacknowledged
        \/ \E t \in encrypting' : t.client = c /\ t.edit = e
  <2> SUFFICES ASSUME NEW c \in Clients, NEW e
               PROVE  e \in Held(c)' <=>
                        \/ e \in chan'[c].outbox \/ e \in chan'[c].unacknowledged
                        \/ \E t \in encrypting' : t.client = c /\ t.edit = e
    OBVIOUS
  <2>1. Held(c)' = chan'[c].outbox \cup chan'[c].unacknowledged
                   \cup {t.edit : t \in {x \in encrypting' : x.client = c}}
    BY <1>1 DEF Held
  <2> QED
    BY <2>1
<1>4. \A e : e \in AllHeld <=> \E c \in Clients : e \in Held(c)
  BY DEF AllHeld
<1>5. \A e : e \in AllHeld' <=> \E c \in Clients : e \in Held(c)'
  BY DEF AllHeld
<1>6. \A e : e \in AllHeld <=>
        \/ \E c \in Clients : e \in chan[c].outbox \/ e \in chan[c].unacknowledged
        \/ \E t \in encrypting : t.edit = e
  BY <1>1, <1>2, <1>4
<1>7. \A e : e \in AllHeld' <=>
        \/ \E c \in Clients : e \in chan'[c].outbox \/ e \in chan'[c].unacknowledged
        \/ \E t \in encrypting' : t.edit = e
  BY <1>1, <1>3, <1>5
<1> QED
  BY <1>6, <1>7

LEMMA OpenStep ==
  ASSUME Closers = {}, TypeInv, AllOpen, [Next]_vars
  PROVE  AllOpen'
<1>0. chan \in [Clients -> Channel] /\ \A c \in Clients : chan[c] \in Channel
  BY DEF TypeInv, TypeOK
<1>2. ASSUME NEW c \in Clients, NEW next \in {"rekey", "offline"}, NEW kept, Disconnect(c, next, kept)
      PROVE  AllOpen'
  <2>1. chan'[c].phase = next /\ \A d \in Clients : d # c => chan'[d] = chan[d]
    BY <1>0, <1>2 DEF Disconnect, AllOpen, Channel
  <2> QED
    BY <2>1 DEF AllOpen
<1>3. ASSUME NEW c \in Clients, ClientStep(c) PROVE AllOpen'
  <2>1. CASE Rekey(c)
    BY <1>0, <2>1 DEF Rekey, AllOpen, Channel
  <2>2. CASE Connect(c)
    BY <1>0, <2>2 DEF Connect, AllOpen, Channel
  <2>3. CASE CloseSocket(c)
    BY <2>3 DEF CloseSocket, AllOpen
  <2>4. CASE Admit(c)
    BY <2>4 DEF Admit, AllOpen
  <2>5. ASSUME NEW t \in encrypting, t.client = c, Encrypted(t) PROVE AllOpen'
    <3>1. chan'[c].phase = chan[c].phase /\ \A d \in Clients : d # c => chan'[d] = chan[d]
      BY <1>0, <2>5 DEF Encrypted, Channel
    <3> QED
      BY <3>1 DEF AllOpen
  <2>6. ASSUME NEW a \in answers, a.client = c, Received(a) PROVE AllOpen'
    <3>1. chan'[c].phase = chan[c].phase /\ \A d \in Clients : d # c => chan'[d] = chan[d]
      BY <1>0, <2>6 DEF Received, Channel
    <3> QED
      BY <3>1 DEF AllOpen
  <2>7. ASSUME NEW a \in answers, a.client = c, Refused(a) PROVE AllOpen'
    BY <1>2, <2>7 DEF Refused
  <2>8. ASSUME NEW p \in peers, p.client = c, Kicked(p) PROVE AllOpen'
    BY <1>2, <2>8 DEF Kicked
  <2>9. ASSUME NEW p \in peers, p.client = c, Join(p) PROVE AllOpen'
    BY <2>9 DEF Join, AllOpen
  <2>10. ASSUME NEW h \in handlers, h.client = c, KeyRead(h) PROVE AllOpen'
    BY <2>10 DEF KeyRead, AllOpen
  <2>11. ASSUME NEW h \in handlers, h.client = c, KeyAdopted(h) PROVE AllOpen'
    <3>1. chan'[c].phase = chan[c].phase /\ \A d \in Clients : d # c => chan'[d] = chan[d]
      BY <1>0, <2>11 DEF KeyAdopted, Channel
    <3> QED
      BY <3>1 DEF AllOpen
  <2>12. ASSUME NEW h \in handlers, h.client = c, Ready(h) PROVE AllOpen'
    <3>1. chan'[c].phase = chan[c].phase /\ \A d \in Clients : d # c => chan'[d] = chan[d]
      BY <1>0, <2>12 DEF Ready, Channel
    <3> QED
      BY <3>1 DEF AllOpen
  <2> QED
    BY <1>3, <2>1, <2>2, <2>3, <2>4, <2>5, <2>6, <2>7, <2>8, <2>9, <2>10, <2>11, <2>12 DEF ClientStep
<1>4. ASSUME NEW c \in Clients, NEW e \in Edits, Edit(c, e) PROVE AllOpen'
  <2>1. chan'[c].phase = chan[c].phase /\ \A d \in Clients : d # c => chan'[d] = chan[d]
    BY <1>0, <1>4 DEF Edit, Channel
  <2> QED
    BY <2>1 DEF AllOpen
<1>5. ASSUME NEW c \in Clients, NEW next \in {"offline", "rekey"}, Break(c, next) PROVE AllOpen'
  BY <1>2, <1>5 DEF Break
<1>6. ASSUME NEW c \in Clients, Close(c) PROVE FALSE
  BY <1>6 DEF Close
<1>7. CASE \/ UNCHANGED vars
           \/ RelayStep
           \/ \E p \in peers : PeerGone(p)
           \/ \E i \in inserts : FailInsert(i)
           \/ RequireRotation
           \/ \E m \in Managers : \/ Rotate(m) \/ Repair(m) \/ ReadLog(m) \/ AbandonCompaction(m)
                                  \/ \E answered \in BOOLEAN : Compact(m, answered)
  <2>1. chan' = chan
    BY <1>7 DEF vars, RelayStep, BeginInsert, StartInsert, RefuseFrame, CommitInsert, PeerGone,
                FailInsert, RequireRotation, Rotate, Repair, ReadLog, AbandonCompaction, Compact,
                Replace
  <2> QED
    BY <2>1 DEF AllOpen
<1> QED
  BY <1>3, <1>4, <1>5, <1>6, <1>7 DEF Next

LEMMA SendingEdits ==
  ASSUME NEW c, NEW E
  PROVE  \A e : (\E u \in Sending(c, E) : u.edit = e) <=> e \in E
<1>1. ASSUME NEW u \in Sending(c, E) PROVE u.edit \in E
  BY DEF Sending
<1>2. ASSUME NEW e \in E PROVE \E u \in Sending(c, E) : u.edit = e
  <2> DEFINE u == [client |-> c, sock |-> chan[c].sock, edit |-> e, key |-> chan[c].key]
  <2>1. u \in Sending(c, E) /\ u.edit = e
    BY DEF Sending
  <2> QED
    BY <2>1
<1> QED
  BY <1>1, <1>2

\* Between the outbox, the encryption and the wire nothing of what a channel holds gets lost.
LEMMA HeldKept ==
  ASSUME TypeInv, TypeInv', AllOpen, AllOpen', NEW c \in Clients,
         \/ Rekey(c) \/ Connect(c)
         \/ \E t \in encrypting : t.client = c /\ Encrypted(t)
         \/ \E a \in answers : a.client = c /\ Refused(a)
         \/ \E p \in peers : p.client = c /\ Kicked(p)
         \/ \E next \in {"offline", "rekey"} : Break(c, next)
         \/ \E h \in handlers : h.client = c /\ (KeyAdopted(h) \/ Ready(h))
  PROVE  AllHeld' = AllHeld
<1>0. /\ chan[c] \in Channel /\ chan \in [Clients -> Channel]
      /\ chan[c].phase # "closing"
  BY DEF TypeInv, TypeOK, AllOpen
<1>1. ASSUME \A d \in Clients : d # c => chan'[d] = chan[d],
             \A e : (\/ e \in chan'[c].outbox \/ e \in chan'[c].unacknowledged
                     \/ \E t \in encrypting' : t.edit = e)
                    <=> (\/ e \in chan[c].outbox \/ e \in chan[c].unacknowledged
                         \/ \E t \in encrypting : t.edit = e)
      PROVE  AllHeld' = AllHeld
  <2>1. ASSUME NEW e PROVE e \in AllHeld <=> e \in AllHeld'
    <3>1. e \in AllHeld <=>
              \/ \E d \in Clients : e \in chan[d].outbox \/ e \in chan[d].unacknowledged
              \/ \E t \in encrypting : t.edit = e
      BY HeldIs
    <3>2. e \in AllHeld' <=>
              \/ \E d \in Clients : e \in chan'[d].outbox \/ e \in chan'[d].unacknowledged
              \/ \E t \in encrypting' : t.edit = e
      BY HeldIs
    <3> QED
      BY <1>1, <3>1, <3>2
  <2> QED
    BY <2>1
<1>2. CASE Rekey(c) \/ Connect(c) \/ \E h \in handlers : h.client = c /\ KeyAdopted(h)
  <2>1. /\ \A d \in Clients : d # c => chan'[d] = chan[d]
        /\ chan'[c].outbox = chan[c].outbox /\ chan'[c].unacknowledged = chan[c].unacknowledged
        /\ encrypting' = encrypting
    <3>1. CASE Rekey(c)
      BY <1>0, <3>1 DEF Rekey, Channel, tasks
    <3>2. CASE Connect(c)
      BY <1>0, <3>2 DEF Connect, Channel, tasks
    <3>3. CASE \E h \in handlers : h.client = c /\ KeyAdopted(h)
      BY <1>0, <3>3 DEF KeyAdopted, Channel
    <3> QED
      BY <1>2, <3>1, <3>2, <3>3
  <2> QED
    BY <1>1, <2>1
<1>3. ASSUME NEW t \in encrypting, t.client = c, Encrypted(t) PROVE AllHeld' = AllHeld
  <2>1. /\ \A d \in Clients : d # c => chan'[d] = chan[d]
        /\ encrypting' = encrypting \ {t}
        /\ \/ /\ chan'[c].outbox = chan[c].outbox \cup {t.edit}
              /\ chan'[c].unacknowledged = chan[c].unacknowledged
           \/ /\ chan'[c].outbox = chan[c].outbox
              /\ chan'[c].unacknowledged = chan[c].unacknowledged \cup {t.edit}
    BY <1>0, <1>3 DEF Encrypted, Channel
  <2>2. \A e : (\/ e \in chan'[c].outbox \/ e \in chan'[c].unacknowledged
                \/ \E u \in encrypting' : u.edit = e)
               <=> (\/ e \in chan[c].outbox \/ e \in chan[c].unacknowledged
                    \/ \E u \in encrypting : u.edit = e)
    BY <2>1
  <2> QED
    BY <1>1, <2>1, <2>2
<1>4. ASSUME NEW next, Disconnect(c, next, chan[c].unacknowledged), encrypting' = encrypting
      PROVE  AllHeld' = AllHeld
  <2>1. /\ \A d \in Clients : d # c => chan'[d] = chan[d]
        /\ chan'[c].outbox = chan[c].outbox \cup chan[c].unacknowledged
        /\ chan'[c].unacknowledged = {}
    BY <1>0, <1>4 DEF Disconnect, Channel
  <2> QED
    BY <1>1, <1>4, <2>1
<1>5. ASSUME NEW h \in handlers, h.client = c, Ready(h) PROVE AllHeld' = AllHeld
  <2>1. CASE UNCHANGED <<chan, encrypting>>
    BY <1>1, <2>1
  <2>2. CASE Listening(c, h.sock) /\ chan[c].phase = "online" /\ h.canWrite
    <3>1. /\ \A d \in Clients : d # c => chan'[d] = chan[d]
          /\ chan'[c].outbox = {} /\ chan'[c].unacknowledged = chan[c].unacknowledged
          /\ encrypting' = encrypting \cup Sending(c, chan[c].outbox)
      BY <1>0, <1>5, <2>2 DEF Ready, Channel
    <3>2. \A e : (\E u \in Sending(c, chan[c].outbox) : u.edit = e) <=> e \in chan[c].outbox
      BY SendingEdits
    <3>3. \A e : (\/ e \in chan'[c].outbox \/ e \in chan'[c].unacknowledged
                  \/ \E u \in encrypting' : u.edit = e)
                 <=> (\/ e \in chan[c].outbox \/ e \in chan[c].unacknowledged
                      \/ \E u \in encrypting : u.edit = e)
      BY <3>1, <3>2
    <3> QED
      BY <1>1, <3>1, <3>3
  <2>3. CASE Listening(c, h.sock) /\ chan[c].phase = "online" /\ ~h.canWrite
    <3>1. /\ \A d \in Clients : d # c => chan'[d] = chan[d]
          /\ chan'[c].outbox = chan[c].outbox /\ chan'[c].unacknowledged = chan[c].unacknowledged
          /\ encrypting' = encrypting
      <4> DEFINE k == [chan[c] EXCEPT !.ready = h.canWrite, !.outbox = IF h.canWrite THEN {} ELSE @]
      <4>1. /\ chan' = [chan EXCEPT ![c] = k]
            /\ encrypting' = encrypting \cup (IF h.canWrite THEN Sending(c, chan[c].outbox) ELSE {})
        BY <1>5, <2>3 DEF Ready
      <4>2. k.outbox = chan[c].outbox /\ k.unacknowledged = chan[c].unacknowledged
        BY <1>0, <2>3 DEF Channel
      <4>3. encrypting' = encrypting
        BY <2>3, <4>1
      <4> HIDE DEF k
      <4> QED
        BY <1>0, <4>1, <4>2, <4>3
    <3> QED
      BY <1>1, <3>1
  <2> QED
    BY <1>5, <2>1, <2>2, <2>3 DEF Ready
<1>6. ASSUME NEW a \in answers, a.client = c, Refused(a) PROVE AllHeld' = AllHeld
  BY <1>4, <1>6 DEF Refused, tasks
<1>7. ASSUME NEW p \in peers, p.client = c, Kicked(p) PROVE AllHeld' = AllHeld
  BY <1>4, <1>7 DEF Kicked, tasks
<1>8. ASSUME NEW next \in {"offline", "rekey"}, Break(c, next) PROVE AllHeld' = AllHeld
  BY <1>4, <1>8 DEF Break, tasks
<1> QED
  BY <1>2, <1>3, <1>5, <1>6, <1>7, <1>8

\* An edit is held from the moment it is made; an acknowledgement lets one go.
LEMMA HeldMade ==
  ASSUME TypeInv, TypeInv', AllOpen, AllOpen', NEW c \in Clients, NEW e \in Edits, Edit(c, e)
  PROVE  AllHeld' = AllHeld \cup {e}
<1>0. chan[c] \in Channel /\ chan \in [Clients -> Channel]
  BY DEF TypeInv, TypeOK
<1>1. /\ \A d \in Clients : d # c => chan'[d] = chan[d]
      /\ chan'[c].unacknowledged = chan[c].unacknowledged
      /\ \/ /\ chan'[c].outbox = chan[c].outbox
            /\ encrypting' = encrypting \cup Sending(c, {e})
         \/ /\ chan'[c].outbox = chan[c].outbox \cup {e}
            /\ encrypting' = encrypting
  <2>1. CASE chan[c].ready
    BY <2>1 DEF Edit
  <2>2. CASE ~chan[c].ready
    BY <1>0, <2>2 DEF Edit, Channel
  <2> QED
    BY <2>1, <2>2
<1>2. \A d : (\E u \in Sending(c, {e}) : u.edit = d) <=> d = e
  <2>1. \A d : (\E u \in Sending(c, {e}) : u.edit = d) <=> d \in {e}
    BY SendingEdits
  <2> QED
    BY <2>1
<1>3. ASSUME NEW d PROVE d \in AllHeld' <=> d \in AllHeld \/ d = e
  <2>1. d \in AllHeld <=>
          \/ \E b \in Clients : d \in chan[b].outbox \/ d \in chan[b].unacknowledged
          \/ \E t \in encrypting : t.edit = d
    BY HeldIs
  <2>2. d \in AllHeld' <=>
          \/ \E b \in Clients : d \in chan'[b].outbox \/ d \in chan'[b].unacknowledged
          \/ \E t \in encrypting' : t.edit = d
    BY HeldIs
  <2> QED
    BY <1>1, <1>2, <2>1, <2>2
<1> QED
  BY <1>3

LEMMA HeldReceived ==
  ASSUME TypeInv, TypeInv', AllOpen, AllOpen', NEW a \in answers, Received(a)
  PROVE  AllHeld' \subseteq AllHeld /\ AllHeld \subseteq AllHeld' \cup {a.edit}
<1>0. chan[a.client] \in Channel /\ chan \in [Clients -> Channel] /\ a.client \in Clients
  BY DEF TypeInv, TypeOK, Answer
<1>1. /\ \A d \in Clients : d # a.client => chan'[d] = chan[d]
      /\ chan'[a.client].outbox = chan[a.client].outbox
      /\ \/ chan'[a.client].unacknowledged = chan[a.client].unacknowledged
         \/ chan'[a.client].unacknowledged = chan[a.client].unacknowledged \ {a.edit}
      /\ encrypting' = encrypting
  BY <1>0 DEF Received, Channel, tasks
<1>2. ASSUME NEW d
      PROVE  (d \in AllHeld' => d \in AllHeld) /\ (d \in AllHeld => d \in AllHeld' \/ d = a.edit)
  <2>1. d \in AllHeld <=>
          \/ \E b \in Clients : d \in chan[b].outbox \/ d \in chan[b].unacknowledged
          \/ \E t \in encrypting : t.edit = d
    BY HeldIs
  <2>2. d \in AllHeld' <=>
          \/ \E b \in Clients : d \in chan'[b].outbox \/ d \in chan'[b].unacknowledged
          \/ \E t \in encrypting' : t.edit = d
    BY HeldIs
  <2> QED
    BY <1>0, <1>1, <2>1, <2>2
<1> QED
  BY <1>2

LEMMA EditsKept ==
  ASSUME EditsInv, AllOpen', made' = made, AllHeld' = AllHeld,
         Logged \subseteq Logged', Logged' \subseteq Logged \cup Carried,
         Carried' \subseteq Carried \cup AllHeld,
         \A a \in answers' : a \in answers \/ ~a.ok \/ a.edit \in Logged'
  PROVE  EditsInv'
<1>1. \A a \in answers' : a.ok => a.edit \in Logged'
  BY DEF EditsInv
<1> QED
  BY <1>1 DEF EditsInv

\* What a step does to the edits: nothing, a new one, or one more in the log.
Untouched == made' = made /\ Logged' = Logged
Added     == Logged' = Logged /\ \E e \in Edits : e \notin made /\ made' = made \cup {e}
Stored    == made' = made /\ \E e \in made : Logged' = Logged \cup {e}

LEMMA ClientEdits ==
  ASSUME TypeInv, TypeInv', EditsInv, AllOpen', NEW c \in Clients, ClientStep(c)
  PROVE  EditsInv' /\ Untouched
<1>0. AllOpen
  BY DEF EditsInv
<1>1. UNCHANGED <<log, inserts, made>>
  BY DEF ClientStep, Rekey, Connect, CloseSocket, Admit, Encrypted, Received, Refused, Kicked,
         Join, KeyRead, KeyAdopted, Ready, server
<1>2. Logged' = Logged /\ Untouched
  BY <1>1 DEF Logged, Untouched
<1>3. \A c2, next, kept : Disconnect(c2, next, kept) => answers' \subseteq answers
  BY DEF Disconnect
<1>4. CASE \/ Rekey(c) \/ Connect(c)
           \/ \E a \in answers : a.client = c /\ Refused(a)
           \/ \E p \in peers : p.client = c /\ Kicked(p)
           \/ \E h \in handlers : h.client = c /\ (KeyAdopted(h) \/ Ready(h))
  <2>1. AllHeld' = AllHeld
    BY <1>0, <1>4, HeldKept
  <2>2. frames' = frames /\ answers' \subseteq answers
    BY <1>3, <1>4 DEF Rekey, Connect, Refused, Kicked, KeyAdopted, Ready, wire
  <2>3. Carried' = Carried
    BY <1>1, <2>2 DEF Carried
  <2> QED
    BY <1>1, <1>2, <2>1, <2>2, <2>3, EditsKept
<1>5. ASSUME NEW t \in encrypting, t.client = c, Encrypted(t) PROVE EditsInv'
  <2>1. AllHeld' = AllHeld
    BY <1>0, <1>5, HeldKept
  <2>2. frames' \subseteq frames \cup {t} /\ answers' = answers
    BY <1>5 DEF Encrypted
  <2>3. t.edit \in AllHeld
    BY <1>0, HeldIs
  <2>4. Carried' \subseteq Carried \cup AllHeld
    BY <1>1, <2>2, <2>3 DEF Carried
  <2> QED
    BY <1>1, <1>2, <2>1, <2>2, <2>4, EditsKept
<1>6. ASSUME NEW a \in answers, Received(a) PROVE EditsInv'
  <2>1. AllHeld' \subseteq AllHeld /\ AllHeld \subseteq AllHeld' \cup {a.edit}
    BY <1>0, <1>6, HeldReceived
  <2>2. a.edit \in Logged /\ answers' \subseteq answers /\ frames' = frames
    BY <1>6 DEF Received, EditsInv
  <2>3. Carried' = Carried
    BY <1>1, <2>2 DEF Carried
  <2>4. made' \subseteq Logged' \cup AllHeld'
    BY <1>1, <1>2, <2>1, <2>2 DEF EditsInv
  <2> QED
    BY <1>1, <1>2, <2>1, <2>2, <2>3, <2>4 DEF EditsInv
<1>7. CASE CloseSocket(c)
  BY <1>0, <1>7 DEF CloseSocket, AllOpen
<1>8. CASE \/ Admit(c)
           \/ \E p \in peers : p.client = c /\ Join(p)
           \/ \E h \in handlers : h.client = c /\ KeyRead(h)
  <2>1. UNCHANGED <<chan, encrypting, frames, answers>>
    BY <1>8 DEF Admit, Join, KeyRead, tasks, wire
  <2>2. AllHeld' = AllHeld /\ Carried' = Carried
    BY <1>1, <2>1 DEF AllHeld, Held, Carried
  <2> QED
    BY <1>1, <1>2, <2>1, <2>2, EditsKept
<1> QED
  BY <1>2, <1>4, <1>5, <1>6, <1>7, <1>8 DEF ClientStep

LEMMA UserEdits ==
  ASSUME TypeInv, TypeInv', EditsInv, AllOpen', NEW c \in Clients,
         \/ \E e \in Edits : Edit(c, e)
         \/ \E next \in {"offline", "rekey"} : Break(c, next)
  PROVE  EditsInv' /\ (Untouched \/ Added)
<1>0. AllOpen
  BY DEF EditsInv
<1>1. ASSUME NEW e \in Edits, Edit(c, e) PROVE EditsInv' /\ Added
  <2>1. AllHeld' = AllHeld \cup {e}
    BY <1>0, <1>1, HeldMade
  <2>2. UNCHANGED <<log, inserts, frames, answers>> /\ e \notin made /\ made' = made \cup {e}
    BY <1>1 DEF Edit, server, wire
  <2>3. Logged' = Logged /\ Carried' = Carried
    BY <2>2 DEF Logged, Carried
  <2> QED
    BY <2>1, <2>2, <2>3 DEF EditsInv, Added
<1>2. ASSUME NEW next \in {"offline", "rekey"}, Break(c, next) PROVE EditsInv' /\ Untouched
  <2>1. AllHeld' = AllHeld
    BY <1>0, <1>2, HeldKept
  <2>2. UNCHANGED <<log, inserts, frames, made>> /\ answers' \subseteq answers
    BY <1>2 DEF Break, Disconnect, server
  <2>3. Logged' = Logged /\ Carried' = Carried
    BY <2>2 DEF Logged, Carried
  <2> QED
    BY <2>1, <2>2, <2>3, EditsKept DEF Untouched
<1> QED
  BY <1>1, <1>2

\* A compaction deletes no row whose edits neither its snapshot nor another row carries.
Carries == \A m \in Managers, answered \in BOOLEAN : Compact(m, answered) => Logged \subseteq Logged'

\* A snapshot carries edits that are in the log.
SnapshotLogged == \A m \in Managers : comp[m].pc = "compact" => comp[m].edits \subseteq Logged

LEMMA ServerEdits ==
  ASSUME TypeInv, TypeInv', SnapshotLogged, EditsInv, AllOpen', Carries,
         \/ UNCHANGED vars
         \/ RelayStep
         \/ \E p \in peers : PeerGone(p)
         \/ \E i \in inserts : FailInsert(i)
         \/ RequireRotation
         \/ \E m \in Managers : \/ Rotate(m) \/ Repair(m) \/ ReadLog(m) \/ AbandonCompaction(m)
                                \/ \E answered \in BOOLEAN : Compact(m, answered)
  PROVE  EditsInv' /\ (Untouched \/ Stored)
<1>0. UNCHANGED <<chan, encrypting, made>>
  BY DEF vars, RelayStep, BeginInsert, StartInsert, RefuseFrame, CommitInsert, PeerGone,
         FailInsert, RequireRotation, Rotate, Repair, ReadLog, AbandonCompaction, Compact,
         Replace, tasks
<1>1. AllHeld' = AllHeld
  BY <1>0 DEF AllHeld, Held
<1>2. CASE \/ UNCHANGED vars
           \/ \E f \in frames, p \in peers : RefuseFrame(f, p)
           \/ \E p \in peers : PeerGone(p)
           \/ RequireRotation
           \/ \E m \in Managers : Rotate(m) \/ Repair(m) \/ ReadLog(m) \/ AbandonCompaction(m)
  <2>1. UNCHANGED <<log, inserts, answers>> /\ frames' \subseteq frames
    BY <1>2 DEF vars, RefuseFrame, PeerGone, RequireRotation, Rotate, Repair, ReadLog,
                AbandonCompaction, server, wire
  <2>2. Logged' = Logged /\ Carried' \subseteq Carried
    BY <2>1 DEF Logged, Carried
  <2> QED
    BY <1>0, <1>1, <2>1, <2>2, EditsKept DEF Untouched
<1>3. ASSUME NEW m \in Managers, NEW answered \in BOOLEAN, Compact(m, answered)
      PROVE  EditsInv' /\ Untouched
  <2>1. UNCHANGED <<inserts, answers, frames>>
    BY <1>3 DEF Compact, Replace, wire
  <2>2. Logged' = Logged
    <3>1. /\ comp[m].edits \subseteq Logged
          /\ log' \subseteq log \cup {[seq |-> nextSeq, key |-> comp[m].to, edits |-> comp[m].edits]}
      BY <1>3 DEF Compact, Replace, SnapshotLogged
    <3>2. \A l \in log' : l.edits \subseteq Logged
      BY <3>1 DEF Logged
    <3>3. Logged' \subseteq Logged
      BY <3>2 DEF Logged
    <3> QED
      BY <1>3, <3>3 DEF Carries
  <2>3. Carried' = Carried
    BY <2>1 DEF Carried
  <2> QED
    BY <1>0, <1>1, <2>1, <2>2, <2>3, EditsKept DEF Untouched
<1>4. ASSUME NEW f \in frames, NEW p \in peers, BeginInsert(f, p) PROVE EditsInv' /\ Untouched
  <2> DEFINE i == [seq |-> nextSeq, frame |-> f]
  <2>1. /\ UNCHANGED <<log, answers>> /\ frames' = frames \ {f}
        /\ inserts' = inserts \cup {i} /\ i.frame = f
    BY <1>4 DEF BeginInsert, StartInsert
  <2> HIDE DEF i
  <2>2. Logged' = Logged /\ Carried' \subseteq Carried
    BY <2>1 DEF Logged, Carried
  <2> QED
    BY <1>0, <1>1, <2>1, <2>2, EditsKept DEF Untouched
<1>5. ASSUME NEW f, NEW ok, Reply(f, ok)
      PROVE  \A a \in answers' : a \in answers \/ (a.ok = ok /\ a.edit = f.edit)
  BY <1>5 DEF Reply
<1>6. ASSUME NEW i \in inserts, CommitInsert(i) PROVE EditsInv' /\ Stored
  <2>1. /\ inserts' \subseteq inserts /\ frames' = frames /\ Reply(i.frame, TRUE)
    BY <1>6 DEF CommitInsert
  <2>2. Logged' = Logged \cup {i.frame.edit}
    BY <1>6, LoggedByCommit
  <2>3. Carried' \subseteq Carried /\ i.frame.edit \in Carried
    BY <2>1 DEF Carried
  <2>4. \A a \in answers' : a \in answers \/ a.edit \in Logged'
    BY <1>5, <2>1, <2>2
  <2>5. EditsInv'
    BY <1>0, <1>1, <2>2, <2>3, <2>4, EditsKept
  <2>6. i.frame.edit \in made
    BY <2>3 DEF EditsInv
  <2> QED
    BY <1>0, <2>2, <2>5, <2>6 DEF Stored
<1>7. ASSUME NEW i \in inserts, FailInsert(i) PROVE EditsInv' /\ Untouched
  <2>1. /\ inserts' \subseteq inserts /\ frames' = frames /\ log' = log /\ Reply(i.frame, FALSE)
    BY <1>7 DEF FailInsert
  <2>2. Logged' = Logged /\ Carried' \subseteq Carried
    BY <2>1 DEF Logged, Carried
  <2>3. \A a \in answers' : a \in answers \/ a.ok = FALSE
    BY <1>5, <2>1
  <2> QED
    BY <1>0, <1>1, <2>2, <2>3, EditsKept DEF Untouched
<1> QED
  BY <1>2, <1>3, <1>4, <1>6, <1>7 DEF RelayStep

\* What the edits need, without any condition on inserts, managers or slow calls.
KeptInv == TypeInv /\ EditsInv /\ SnapshotLogged

LEMMA InitKept == Init => KeptInv
<1> SUFFICES ASSUME Init PROVE KeptInv
  OBVIOUS
<1>1. AllHeld = {} /\ Logged = {} /\ Carried = {}
  BY DEF Init, AllHeld, Held, Logged, Carried
<1>2. EditsInv /\ SnapshotLogged
  BY <1>1 DEF Init, EditsInv, AllOpen, SnapshotLogged
<1> QED
  BY <1>2, InitType DEF KeptInv

\* A snapshot is made of rows of the log, and what is in the log stays there.
LEMMA SnapshotStep ==
  ASSUME TypeInv, SnapshotLogged, Logged \subseteq Logged', [Next]_vars
  PROVE  SnapshotLogged'
<1>0. comp \in [Managers -> Compaction]
  BY DEF TypeInv, TypeOK
<1>1. ASSUME NEW m \in Managers, comp'[m].pc = "compact"
      PROVE  comp'[m].edits \subseteq Logged
  <2>1. CASE comp' = comp
    BY <1>1, <2>1 DEF SnapshotLogged
  <2>2. ASSUME NEW n \in Managers, ReadLog(n) PROVE comp'[m].edits \subseteq Logged
    <3>1. UNION {l.edits : l \in Readable(n)} \subseteq Logged
      BY DEF Readable, Logged
    <3>2. CASE n = m
      <4>1. comp'[m].edits = UNION {l.edits : l \in Readable(m)}
        BY <1>0, <1>1, <2>2, <3>2 DEF ReadLog
      <4> QED
        BY <3>1, <3>2, <4>1
    <3>3. CASE n # m
      <4>1. comp'[m] = comp[m]
        BY <1>0, <2>2, <3>3 DEF ReadLog
      <4> QED
        BY <1>1, <4>1 DEF SnapshotLogged
    <3> QED
      BY <3>2, <3>3
  <2>3. ASSUME NEW n \in Managers,
               \/ Rotate(n) \/ Repair(n) \/ AbandonCompaction(n)
               \/ \E answered \in BOOLEAN : Compact(n, answered)
        PROVE  comp'[m].edits \subseteq Logged
    <3>1. comp'[m].pc = "compact" => comp[m].pc = "compact" /\ comp'[m].edits = comp[m].edits
      <4>1. CASE n = m
        BY <1>0, <2>3, <4>1 DEF Rotate, Repair, AbandonCompaction, Compact, Replace, Compaction
      <4>2. CASE n # m
        <5>1. comp'[m] = comp[m]
          BY <1>0, <2>3, <4>2 DEF Rotate, Repair, AbandonCompaction, Compact, Replace
        <5> QED
          BY <5>1
      <4> QED
        BY <4>1, <4>2
    <3> QED
      BY <1>1, <3>1 DEF SnapshotLogged
  <2>4. CASE \/ \E f \in frames, p \in peers : BeginInsert(f, p)
             \/ \E i \in inserts : CommitInsert(i) \/ FailInsert(i)
             \/ RequireRotation
    BY <2>1, <2>4 DEF BeginInsert, StartInsert, CommitInsert, FailInsert, RequireRotation
  <2> QED
    BY <2>1, <2>2, <2>3, <2>4, StepKinds
<1> QED
  BY <1>1 DEF SnapshotLogged

\* A step of a document nobody closes, whose compactions carry what they delete.
LEMMA KeptStep ==
  ASSUME Closers = {}, KeptInv, [Next]_vars, [Carries]_vars
  PROVE  KeptInv' /\ (Untouched \/ Added \/ Stored)
<1>0. Carries
  <2>1. UNCHANGED vars => Logged' = Logged
    BY DEF vars, server, Logged
  <2> QED
    BY <2>1 DEF Carries
<1>1. TypeInv'
  BY TypeStep DEF KeptInv
<1>2. AllOpen'
  BY OpenStep DEF KeptInv, EditsInv
<1>3. EditsInv' /\ (Untouched \/ Added \/ Stored)
  <2>1. ASSUME NEW c \in Clients,
               \/ ClientStep(c) \/ (\E e \in Edits : Edit(c, e))
               \/ (\E next \in {"offline", "rekey"} : Break(c, next))
        PROVE  EditsInv' /\ (Untouched \/ Added \/ Stored)
    BY <1>1, <1>2, <2>1, ClientEdits, UserEdits DEF KeptInv
  <2>2. ASSUME NEW c \in Clients, Close(c) PROVE FALSE
    BY <2>2 DEF Close
  <2>3. CASE \/ UNCHANGED vars
             \/ RelayStep
             \/ \E p \in peers : PeerGone(p)
             \/ \E i \in inserts : FailInsert(i)
             \/ RequireRotation
             \/ \E m \in Managers : \/ Rotate(m) \/ Repair(m) \/ ReadLog(m) \/ AbandonCompaction(m)
                                    \/ \E answered \in BOOLEAN : Compact(m, answered)
    BY <1>0, <1>1, <1>2, <2>3, ServerEdits DEF KeptInv
  <2> QED
    BY <2>1, <2>2, <2>3 DEF Next
<1>4. Logged \subseteq Logged'
  BY <1>3 DEF Untouched, Added, Stored
<1>5. SnapshotLogged'
  BY <1>4, SnapshotStep DEF KeptInv
<1> QED
  BY <1>1, <1>3, <1>5 DEF KeptInv

LEMMA KeptInvariant == ASSUME Closers = {} PROVE Spec /\ [][Carries]_vars => []KeptInv
<1>1. KeptInv /\ [Next]_vars /\ [Carries]_vars => KeptInv'
  BY KeptStep
<1> QED
  BY <1>1, InitKept, PTL DEF Spec

\* While nobody closes the document, a compaction is the one step that can lose an edit: with any
\* number of inserts at once, managers, and calls that outlive their sockets, none is lost as long
\* as a compaction deletes only what its snapshot carries (collab.ts:352-357, relay.ts:571-600).
THEOREM EditsIfCarried == ASSUME Closers = {} PROVE Spec /\ [][Carries]_vars => []NoEditLost
<1>1. KeptInv => NoEditLost
  BY DEF KeptInv, EditsInv, NoEditLost
<1> QED
  BY <1>1, KeptInvariant, PTL

\* The pending edits of the promise are those made and not in the log.
LEMMA Pending ==
  ASSUME EditsInv, EditsInv'
  PROVE  /\ AllHeld \ Logged = made \ Logged /\ Logged \subseteq made
         /\ AllHeld' \ Logged' = made' \ Logged'
  BY DEF EditsInv

\* Each step of the log is a step of the promise, or none: an edit is made, or one that was
\* pending becomes durable; a compaction changes nothing.
LEMMA PromiseStep ==
  ASSUME Closers = {}, KeptInv, [Next]_vars, [Carries]_vars
  PROVE  [Promise!PNext]_(Promise!pvars)
<1>1. KeptInv' /\ (Untouched \/ Added \/ Stored)
  BY KeptStep
<1>2. /\ AllHeld \ Logged = made \ Logged /\ Logged \subseteq made
      /\ AllHeld' \ Logged' = made' \ Logged'
  BY <1>1, Pending DEF KeptInv
<1>3. CASE Untouched
  BY <1>2, <1>3 DEF Untouched, Promise!pvars
<1>4. CASE Added
  <2>1. PICK e \in Edits : e \notin made /\ made' = made \cup {e} /\ Logged' = Logged
    BY <1>4 DEF Added
  <2>2. /\ e \in AllHeld' \ Logged' /\ e \notin (AllHeld \ Logged) \cup Logged
        /\ AllHeld' \ Logged' = (AllHeld \ Logged) \cup {e}
    BY <1>2, <2>1
  <2>3. Promise!MakeEdit
    BY <2>1, <2>2 DEF Promise!MakeEdit
  <2> QED
    BY <2>3 DEF Promise!PNext
<1>5. CASE Stored
  <2>1. PICK e \in made : made' = made /\ Logged' = Logged \cup {e}
    BY <1>5 DEF Stored
  <2>2. CASE e \in Logged
    <3>1. Logged' = Logged /\ AllHeld' \ Logged' = AllHeld \ Logged
      BY <1>2, <2>1, <2>2
    <3> QED
      BY <3>1 DEF Promise!pvars
  <2>3. CASE e \notin Logged
    <3>1. /\ e \in AllHeld \ Logged
          /\ AllHeld' \ Logged' = (AllHeld \ Logged) \ {e}
      BY <1>2, <2>1, <2>3
    <3>2. Promise!Persist
      BY <2>1, <3>1 DEF Promise!Persist
    <3> QED
      BY <3>2 DEF Promise!PNext
  <2> QED
    BY <2>2, <2>3
<1> QED
  BY <1>1, <1>3, <1>4, <1>5

\* Under the same condition the log implements EditsPromise: what is durable stays durable,
\* and a pending edit stays pending until it is durable (collab.ts:352-411, relay.ts:571-600).
THEOREM PromiseIfCarried == ASSUME Closers = {} PROVE Spec /\ [][Carries]_vars => KeepsEdits
<1>1. Init => Promise!PInit
  BY DEF Init, Promise!PInit, AllHeld, Held, Logged
<1>2. KeptInv /\ [Next]_vars /\ [Carries]_vars => [Promise!PNext]_(Promise!pvars)
  BY PromiseStep
<1> QED
  BY <1>1, <1>2, KeptInvariant, PTL DEF Spec, KeepsEdits, Promise!PSpec

\* Conditions under which a compaction does carry what it deletes: statements that append to
\* the log run one at a time, one manager rotates and no call outlives its socket.  Nobody
\* closes the document.
Orderly == MaxInserts = 1 /\ OneManager /\ Prompt /\ Closers = {}

DurableInv == TypeInv /\ LiveInv /\ RunInv /\ LogInv

LEMMA InitDurable == Init => DurableInv
<1> SUFFICES ASSUME Init PROVE DurableInv
  OBVIOUS
<1>1. LogInv
  BY DEF Init, LogInv, Numbers, OneInsert, Overtaken, Stands
<1> QED
  BY <1>1, InitType, InitLive, InitRun DEF DurableInv

LEMMA OrderlyCarries == ASSUME Orderly PROVE Spec => [][Carries]_vars
<1>1. DurableInv /\ [Next]_vars => DurableInv'
  <2> SUFFICES ASSUME DurableInv, [Next]_vars PROVE DurableInv'
    OBVIOUS
  <2>1. TypeInv' /\ LiveInv' /\ RunInv'
    BY TypeStep, LiveStep, RunStep DEF Orderly, DurableInv
  <2>2. LogInv'
    BY LogStep DEF Orderly, DurableInv
  <2> QED
    BY <2>1, <2>2 DEF DurableInv
<1>2. DurableInv => Carries
  BY LoggedByCompact DEF DurableInv, LogInv, Carries
<1> QED
  BY <1>1, <1>2, InitDurable, PTL DEF Spec

\* No edit is lost: through kicks, broken sockets, refusals, failed inserts, rotations and
\* compactions that are retried or abandoned, it is held by its author's channel or in the log
\* (collab.ts:352-357, rotate.ts:25-26).
THEOREM EditsCorrect == ASSUME Orderly PROVE Spec => []NoEditLost
<1>1. Closers = {}
  BY DEF Orderly
<1> QED
  BY <1>1, OrderlyCarries, EditsIfCarried, PTL

\* The log implements EditsPromise, a compaction being a stutter (rotate.ts:149-186).
THEOREM EditsKeepPromise == ASSUME Orderly PROVE Spec => KeepsEdits
<1>1. Closers = {}
  BY DEF Orderly
<1> QED
  BY <1>1, OrderlyCarries, PromiseIfCarried, PTL
=============================================================================
