------------------------- MODULE NativeBridgeProofs -------------------------
(* Theorems about NativeBridge, for any processes and any bounds, and that *)
(* with one native host it implements RpcService.                          *)
EXTENDS NativeBridge, TLAPS

-----------------------------------------------------------------------------
(* Connections and calls are pairs.                                        *)

\* The components of a connection or of a call, and the pair they form.
LEMMA PairFacts ==
  /\ \A c \in Conn : c[1] \in Peers /\ c[2] \in 1..MaxConns /\ c = <<c[1], c[2]>>
  /\ \A a \in Call : a[1] \in Peers /\ a[2] \in 1..MaxCalls /\ a = <<a[1], a[2]>>
  /\ \A p \in Peers, k \in 1..MaxConns : <<p, k>> \in Conn
  /\ \A p \in Peers, n \in 1..MaxCalls : <<p, n>> \in Call
BY DEF Conn, Call

-----------------------------------------------------------------------------
(* Type correctness.                                                       *)

\* The host's termination leaves every table well typed.
LEMMA TerminateTypeOK ==
  ASSUME TypeOK, Terminate
  PROVE  /\ up' \in BOOLEAN /\ epoch' \in Nat /\ nextGlobalId' \in Nat \ {0}
         /\ pending' \subseteq [gid : Nat, call : Call]
         /\ registered' \in [Peers -> 0..MaxConns]
         /\ srv' \in [Conn -> {"none", "accepted", "serving", "closed"}]
         /\ toBroker' \in [Conn -> SUBSET (1..MaxCalls)]
         /\ running' \subseteq Request /\ replies' \subseteq Request
<1> USE DEF TypeOK, Terminate
<1>1. up' \in BOOLEAN /\ epoch' \in Nat /\ nextGlobalId' \in Nat \ {0}
  OBVIOUS
<1>2. pending' \subseteq [gid : Nat, call : Call] /\ replies' \subseteq Request
  OBVIOUS
<1>3. registered' \in [Peers -> 0..MaxConns]
  BY BoundsAssumption
<1>4. srv' \in [Conn -> {"none", "accepted", "serving", "closed"}]
  OBVIOUS
<1>5. toBroker' \in [Conn -> SUBSET (1..MaxCalls)]
  OBVIOUS
<1>6. running' \subseteq Request
  OBVIOUS
<1>7. QED
  BY <1>1, <1>2, <1>3, <1>4, <1>5, <1>6

LEMMA InitTypeOK == Init => TypeOK
<1> SUFFICES ASSUME Init PROVE TypeOK
  OBVIOUS
<1> USE BoundsAssumption DEF Init
<1>1. registered \in [Peers -> 0..MaxConns] /\ dials \in [Peers -> 0..MaxConns]
  OBVIOUS
<1>2. nextId \in [Peers -> 1..(MaxCalls + 1)]
  OBVIOUS
<1>3. writer \in [Call -> 0..MaxConns]
  OBVIOUS
<1>4. toBroker \in [Conn -> SUBSET (1..MaxCalls)] /\ toPeer \in [Conn -> SUBSET Result]
  OBVIOUS
<1>5. srv \in [Conn -> {"none", "accepted", "serving", "closed"}]
  OBVIOUS
<1>6. /\ link \in [Peers -> {"idle", "dialing", "up", "stopped"}]
      /\ method \in [Call -> Method]
      /\ outcome \in [Call -> {"none", "open", "answered", "failed"}]
  BY DEF Method
<1>7. up \in BOOLEAN
  OBVIOUS
<1>8. /\ epoch \in Nat /\ nextGlobalId \in Nat \ {0}
      /\ pending = {} /\ acked = {} /\ hungUp = {} /\ running = {}
      /\ replies = {} /\ unsent = {} /\ answers = {}
  OBVIOUS
<1>9. \A p \in Peers : link[p] \in {"dialing", "up"} => dials[p] # 0
  OBVIOUS
<1>10. QED
  BY <1>1, <1>2, <1>3, <1>4, <1>5, <1>6, <1>7, <1>8, <1>9 DEF TypeOK

\* Every step of the broker and of the extension keeps the types.
LEMMA BrokerTypeOK == ASSUME TypeOK, BrokerNext \/ ExtNext PROVE TypeOK'
<1> USE BoundsAssumption, PairFacts
<1>1. CASE BrokerStart
  BY <1>1 DEF TypeOK, BrokerStart, pipeVars, peerVars, callVars
<1>2. CASE BrokerExit
  BY <1>2, TerminateTypeOK DEF TypeOK, BrokerExit, peerVars, callVars
<1>3. ASSUME NEW c \in Conn, BrokerHello(c) PROVE TypeOK'
  <2>1. registered' \in [Peers -> 0..MaxConns]
    BY <1>3 DEF TypeOK, BrokerHello, Register
  <2>2. /\ srv' \in [Conn -> {"none", "accepted", "serving", "closed"}]
        /\ acked' \subseteq Conn
    BY <1>3 DEF TypeOK, BrokerHello
  <2>3. QED
    BY <1>3, <2>1, <2>2 DEF TypeOK, BrokerHello, peerVars, callVars
<1>4. ASSUME NEW c \in Conn, BrokerSeesHangUp(c) PROVE TypeOK'
  BY <1>4 DEF TypeOK, BrokerSeesHangUp, Cleanup, pipeVars, peerVars, callVars
<1>5. ASSUME NEW c \in Conn, NEW n \in toBroker[c], BrokerForward(c, n)
      PROVE  TypeOK'
  <2>1. n \in 1..MaxCalls /\ <<c[1], n>> \in Call
    BY <1>5 DEF TypeOK
  <2>2. /\ [gid |-> nextGlobalId, call |-> <<c[1], n>>] \in [gid : Nat, call : Call]
        /\ [gid |-> nextGlobalId, of |-> <<c[1], n>>, port |-> epoch] \in Request
    BY <2>1 DEF TypeOK, Request
  <2>3. /\ pending' \subseteq [gid : Nat, call : Call]
        /\ running' \subseteq Request
    BY <1>5, <2>2 DEF TypeOK, BrokerForward
  <2>4. nextGlobalId' \in Nat \ {0}
    BY <1>5 DEF TypeOK, BrokerForward, AllocateGlobalId
  <2>5. toBroker' \in [Conn -> SUBSET (1..MaxCalls)]
    BY <1>5 DEF TypeOK, BrokerForward
  <2>6. QED
    BY <1>5, <2>3, <2>4, <2>5 DEF TypeOK, BrokerForward, peerVars, callVars
<1>6. ASSUME NEW c \in Conn, NEW n \in toBroker[c], BrokerLocal(c, n)
      PROVE  TypeOK'
  <2>1. n \in 1..MaxCalls /\ <<c[1], n>> \in Call
    BY <1>6 DEF TypeOK
  <2>2. [id |-> n, of |-> <<c[1], n>>, port |-> epoch, via |-> epoch] \in Result
    BY <2>1 DEF TypeOK, Result
  <2>3. CASE c \notin hungUp
    <3>1. /\ toBroker' = [toBroker EXCEPT ![c] = @ \ {n}]
          /\ toPeer' = [toPeer EXCEPT ![c] = @ \cup {[id |-> n,
               of |-> <<c[1], n>>, port |-> epoch, via |-> epoch]}]
          /\ UNCHANGED <<pending, registered, srv>>
      BY <1>6, <2>3 DEF BrokerLocal
    <3>2. toPeer' \in [Conn -> SUBSET Result]
      BY <2>2, <3>1 DEF TypeOK
    <3>3. toBroker' \in [Conn -> SUBSET (1..MaxCalls)]
      BY <3>1 DEF TypeOK
    <3>4. QED
      BY <1>6, <3>1, <3>2, <3>3 DEF TypeOK, BrokerLocal, peerVars, callVars
  <2>4. CASE c \in hungUp
    <3>1. /\ Cleanup(c)
          /\ toBroker' = [toBroker EXCEPT ![c] = {}]
          /\ UNCHANGED toPeer
      BY <1>6, <2>4 DEF BrokerLocal
    <3>2. toBroker' \in [Conn -> SUBSET (1..MaxCalls)]
      BY <3>1 DEF TypeOK
    <3>3. QED
      BY <1>6, <3>1, <3>2
      DEF TypeOK, BrokerLocal, Cleanup, peerVars, callVars
  <2>5. QED
    BY <2>3, <2>4
<1>7. ASSUME NEW m \in replies, RelayDrop(m) PROVE TypeOK'
  BY <1>7 DEF TypeOK, RelayDrop, peerVars, callVars
<1>8. ASSUME NEW m \in replies, RelayResult(m) PROVE TypeOK'
  <2>1. PICK r \in pending :
          LET p == r.call[1]
              c == <<p, registered[p]>>
          IN /\ r.gid = m.gid
             /\ registered[p] # 0
             /\ \/ /\ Alive(c)
                   /\ replies' = replies \ {m}
                   /\ pending' = {s \in pending : s.gid # m.gid}
                   /\ toPeer' = [toPeer EXCEPT ![c] = @ \cup
                        {[id |-> r.call[2], of |-> m.of, port |-> m.port,
                          via |-> epoch]}]
                   /\ UNCHANGED <<up, epoch, nextGlobalId, registered, srv,
                                  toBroker, running>>
                \/ ~Alive(c) /\ Terminate /\ UNCHANGED toPeer
    BY <1>8 DEF RelayResult
  <2>2. /\ r.call \in Call /\ r.call[1] \in Peers /\ r.call[2] \in 1..MaxCalls
        /\ m \in Request
    BY DEF TypeOK
  <2>3. [id |-> r.call[2], of |-> m.of, port |-> m.port, via |-> epoch] \in Result
    BY <2>2 DEF TypeOK, Request, Result
  <2>4. <<r.call[1], registered[r.call[1]]>> \in Conn
    BY <2>1, <2>2 DEF TypeOK
  <2> DEFINE c == <<r.call[1], registered[r.call[1]]>>
             res == [id |-> r.call[2], of |-> m.of, port |-> m.port,
                     via |-> epoch]
  <2>5. toPeer' \in [Conn -> SUBSET Result]
    <3>1. toPeer' = toPeer \/ toPeer' = [toPeer EXCEPT ![c] = @ \cup {res}]
      BY <2>1
    <3>2. c \in Conn /\ res \in Result
      BY <2>3, <2>4
    <3>3. toPeer \in [Conn -> SUBSET Result]
      BY DEF TypeOK
    <3> HIDE DEF c, res
    <3>4. QED
      BY <3>1, <3>2, <3>3
  <2>6. QED
    BY <1>8, <2>1, <2>5, TerminateTypeOK
    DEF TypeOK, RelayResult, peerVars, callVars
<1>9. CASE ExtNext
  BY <1>9 DEF TypeOK, ExtNext, ExtReply, brokerVars, peerVars, callVars
<1> QED
  BY <1>1, <1>2, <1>3, <1>4, <1>5, <1>6, <1>7, <1>8, <1>9 DEF BrokerNext

\* Every step of a server process keeps the types.
LEMMA PeerTypeOK == ASSUME TypeOK, PeerNext \/ RpcNext PROVE TypeOK'
<1> USE BoundsAssumption, PairFacts
<1>1. ASSUME NEW p \in Peers, PeerDial(p) PROVE TypeOK'
  <2>1. dials[p] + 1 \in 1..MaxConns
    BY <1>1 DEF TypeOK, PeerDial
  <2>2. QED
    BY <1>1, <2>1 DEF TypeOK, PeerDial, pipeVars, callVars
<1>2. ASSUME NEW p \in Peers, PeerAck(p) PROVE TypeOK'
  BY <1>2 DEF TypeOK, PeerAck, brokerVars, pipeVars, callVars
<1>3. ASSUME NEW p \in Peers, PeerAckTimeout(p) \/ PeerDialFails(p)
      PROVE  TypeOK'
  <2>1. Current(p) \in Conn
    BY <1>3 DEF TypeOK, PeerAckTimeout, PeerDialFails, Current
  <2>2. \E x \in {"idle"} : link' = [link EXCEPT ![p] = x]
    BY <1>3 DEF PeerAckTimeout, PeerDialFails
  <2>3. /\ hungUp' = hungUp \cup {Current(p)}
        /\ UNCHANGED <<brokerVars, toBroker, acked, toPeer, running, replies, dials, callVars>>
    BY <1>3 DEF PeerAckTimeout, PeerDialFails
  <2>4. link' \in [Peers -> {"idle", "dialing", "up", "stopped"}] /\ hungUp' \subseteq Conn
    BY <2>1, <2>2, <2>3 DEF TypeOK
  <2>5. \A q \in Peers : link'[q] \in {"dialing", "up"} => dials'[q] # 0
    BY <2>2, <2>3 DEF TypeOK
  <2>6. QED
    BY <2>3, <2>4, <2>5, SMTT(60) DEF TypeOK, brokerVars, callVars
<1>4. ASSUME NEW p \in Peers, NEW next \in {"idle", "stopped"},
             Shutdown(p, next)
      PROVE  TypeOK'
  <2>1. dials[p] # 0 => Current(p) \in Conn
    BY DEF TypeOK, Current
  <2>2. QED
    BY <1>4, <2>1 DEF TypeOK, Shutdown, FailPending, brokerVars
<1>5. ASSUME NEW p \in Peers,
             PeerSeesEof(p) \/ PeerRejectsFrame(p) \/ PeerStop(p)
      PROVE  TypeOK'
  BY <1>4, <1>5 DEF PeerSeesEof, PeerRejectsFrame, PeerStop
<1>6. ASSUME NEW c \in Conn, NEW m \in toPeer[c], PeerReceive(c, m)
      PROVE  TypeOK'
  <2>1. m \in Result /\ <<c[1], m.id>> \in Call
    BY DEF TypeOK, Result
  <2>2. [call |-> <<c[1], m.id>>, of |-> m.of, port |-> m.port, via |-> m.via]
          \in [call : Call, of : Call, port : Nat, via : Nat]
    BY <2>1 DEF Result
  <2>3. QED
    BY <1>6, <2>1, <2>2, ZenonT(60) DEF TypeOK, PeerReceive, brokerVars
<1>7. ASSUME NEW p \in Peers, NEW m \in Method, RpcCall(p, m) PROVE TypeOK'
  <2>1. nextId[p] \in 1..MaxCalls /\ <<p, nextId[p]>> \in Call
    BY <1>7 DEF TypeOK, RpcCall
  <2>2. QED
    BY <1>7, <2>1 DEF TypeOK, RpcCall, brokerVars, pipeVars
<1>8. ASSUME NEW a \in Call, RpcSend(a) PROVE TypeOK'
  BY <1>8 DEF TypeOK, RpcSend, brokerVars
<1>9. ASSUME NEW a \in Call, RpcSendFails(a) \/ RpcTimeout(a) PROVE TypeOK'
  BY <1>9 DEF TypeOK, RpcSendFails, RpcTimeout, brokerVars, pipeVars
<1> QED
  BY <1>1, <1>2, <1>3, <1>5, <1>6, <1>7, <1>8, <1>9 DEF PeerNext, RpcNext

\* Every variable stays in the set its comment describes (TypeOK).
THEOREM TypeCorrect == Spec => []TypeOK
<1>1. TypeOK /\ UNCHANGED vars => TypeOK'
  BY DEF TypeOK, vars, brokerVars, pipeVars, peerVars, callVars
<1>2. TypeOK /\ [Next]_vars => TypeOK'
  BY <1>1, BrokerTypeOK, PeerTypeOK DEF Next
<1>3. QED
  BY InitTypeOK, <1>2, PTL DEF Spec

-----------------------------------------------------------------------------
(* What a call returns.  The broker drops and restarts, a process comes    *)
(* back under its peer id, and late replies arrive; the argument is that a *)
(* global id, within one host, only ever meant one call, so an entry of    *)
(* _pending and a reply that carry the same id are about the same call.    *)

\* Removing entries, requests and replies cannot break the invariant.
LEMMA ShrinkKeepsIds ==
  ASSUME TypeOK, IdTranslation,
         UNCHANGED <<epoch, nextGlobalId, answers>>,
         pending' \subseteq pending,
         (running' \cup replies') \subseteq (running \cup replies),
         DeliveriesMatch', DownIsEmpty'
  PROVE  IdTranslation'
<1>1. IdsAllocated' /\ EntriesMatch'
  BY DEF IdTranslation, IdsAllocated, EntriesMatch
<1>2. AnswersMatch'
  BY DEF IdTranslation, AnswersMatch
<1>3. QED
  BY <1>1, <1>2 DEF IdTranslation

LEMMA InitIds == Init => IdTranslation
BY DEF Init, IdTranslation, IdsAllocated, EntriesMatch, DeliveriesMatch,
       DownIsEmpty, AnswersMatch

\* Termination of the host empties what the ids were about.
LEMMA TerminateIds ==
  ASSUME TypeOK, IdTranslation, Terminate, UNCHANGED <<toPeer, answers>>
  PROVE  IdTranslation'
<1>1. DeliveriesMatch'
  BY DEF IdTranslation, DeliveriesMatch
<1>2. DownIsEmpty'
  BY DEF Terminate, DownIsEmpty
<1>3. QED
  BY <1>1, <1>2, ShrinkKeepsIds DEF Terminate

\* Every step of the broker and of the extension keeps the ids translated.
LEMMA BrokerIds ==
  ASSUME TypeOK, IdTranslation, BrokerNext \/ ExtNext PROVE IdTranslation'
<1> USE PairFacts
<1>1. CASE BrokerStart
  <2>1. pending = {} /\ \A c \in Conn : srv[c] \in {"none", "closed"}
    BY <1>1 DEF IdTranslation, DownIsEmpty, BrokerStart
  <2>2. IdsAllocated' /\ EntriesMatch'
    <3>1. \A x \in running \cup replies : x.port \in Nat /\ x.port <= epoch
      BY DEF TypeOK, Request, IdTranslation, IdsAllocated
    <3>2. epoch' = epoch + 1 /\ epoch \in Nat /\ pending' = {}
          /\ running' = running /\ replies' = replies
      BY <1>1, <2>1 DEF BrokerStart, pipeVars, TypeOK
    <3>3. QED
      BY <3>1, <3>2 DEF IdsAllocated, EntriesMatch
  <2>3. DeliveriesMatch' /\ AnswersMatch'
    BY <1>1 DEF IdTranslation, BrokerStart, pipeVars, peerVars, callVars,
                DeliveriesMatch, AnswersMatch
  <2>4. DownIsEmpty'
    BY <1>1 DEF BrokerStart, DownIsEmpty
  <2>5. QED
    BY <2>2, <2>3, <2>4 DEF IdTranslation
<1>2. CASE BrokerExit
  BY <1>2, TerminateIds DEF BrokerExit, peerVars, callVars
<1>3. ASSUME NEW c \in Conn, BrokerHello(c) PROVE IdTranslation'
  <2>1. up
    BY <1>3 DEF BrokerHello, IdTranslation, DownIsEmpty
  <2>2. DeliveriesMatch' /\ DownIsEmpty'
    BY <1>3, <2>1 DEF BrokerHello, IdTranslation, DeliveriesMatch, DownIsEmpty
  <2>3. QED
    BY <1>3, <2>2, ShrinkKeepsIds DEF BrokerHello, peerVars, callVars
<1>4. ASSUME NEW c \in Conn, BrokerSeesHangUp(c) PROVE IdTranslation'
  <2>1. up
    BY <1>4 DEF BrokerSeesHangUp, IdTranslation, DownIsEmpty
  <2>2. DeliveriesMatch' /\ DownIsEmpty' /\ pending' \subseteq pending
    BY <1>4, <2>1 DEF BrokerSeesHangUp, Cleanup, pipeVars, IdTranslation,
                      DeliveriesMatch, DownIsEmpty
  <2>3. QED
    BY <1>4, <2>2, ShrinkKeepsIds
    DEF BrokerSeesHangUp, pipeVars, peerVars, callVars
<1>5. ASSUME NEW c \in Conn, NEW n \in toBroker[c], BrokerForward(c, n)
      PROVE  IdTranslation'
  <2> DEFINE g == nextGlobalId
             a == <<c[1], n>>
             e == [gid |-> g, call |-> a]
             x == [gid |-> g, of |-> a, port |-> epoch]
  <2>1. /\ pending' = pending \cup {e} /\ running' = running \cup {x}
        /\ replies' = replies /\ nextGlobalId' = g + 1 /\ epoch' = epoch
        /\ up' = up /\ srv' = srv /\ toPeer' = toPeer /\ answers' = answers
    BY <1>5 DEF BrokerForward, AllocateGlobalId, peerVars, callVars
  <2>2. e.gid = g /\ e.call = a /\ x.gid = g /\ x.of = a /\ x.port = epoch
    OBVIOUS
  <2>3. /\ g \in Nat /\ epoch \in Nat
        /\ \A r \in pending : r.gid \in Nat /\ r.gid < g
        /\ \A y \in running \cup replies :
             /\ y.gid \in Nat /\ y.port \in Nat /\ y.port <= epoch
             /\ y.port = epoch => y.gid < g
    BY DEF TypeOK, Request, IdTranslation, IdsAllocated
  <2> HIDE DEF e, x, a, g
  <2>4. IdsAllocated'
    BY <2>1, <2>2, <2>3 DEF IdsAllocated
  <2>5. EntriesMatch'
    BY <2>1, <2>2, <2>3 DEF EntriesMatch, IdTranslation
  <2>6. DownIsEmpty'
    BY <1>5, <2>1 DEF BrokerForward, IdTranslation, DownIsEmpty
  <2>7. DeliveriesMatch' /\ AnswersMatch'
    BY <2>1 DEF IdTranslation, DeliveriesMatch, AnswersMatch
  <2>8. QED
    BY <2>4, <2>5, <2>6, <2>7 DEF IdTranslation
<1>6. ASSUME NEW c \in Conn, NEW n \in toBroker[c], BrokerLocal(c, n)
      PROVE  IdTranslation'
  <2>1. up
    BY <1>6 DEF BrokerLocal, IdTranslation, DownIsEmpty
  <2>2. pending' \subseteq pending
    BY <1>6 DEF BrokerLocal, Cleanup
  <2>3. DeliveriesMatch'
    <3>1. \/ toPeer' = toPeer
          \/ toPeer' = [toPeer EXCEPT ![c] = @ \cup {[id |-> n,
               of |-> <<c[1], n>>, port |-> epoch, via |-> epoch]}]
      BY <1>6 DEF BrokerLocal
    <3>2. QED
      BY <3>1, SMTT(60) DEF TypeOK, IdTranslation, DeliveriesMatch
  <2>4. DownIsEmpty'
    BY <1>6, <2>1 DEF BrokerLocal, DownIsEmpty
  <2>5. QED
    BY <1>6, <2>2, <2>3, <2>4, ShrinkKeepsIds
    DEF BrokerLocal, peerVars, callVars
<1>7. ASSUME NEW m \in replies, RelayDrop(m) PROVE IdTranslation'
  <2>1. DeliveriesMatch' /\ DownIsEmpty'
    BY <1>7 DEF RelayDrop, IdTranslation, DeliveriesMatch, DownIsEmpty
  <2>2. QED
    BY <1>7, <2>1, ShrinkKeepsIds DEF RelayDrop, peerVars, callVars
<1>8. ASSUME NEW m \in replies, RelayResult(m) PROVE IdTranslation'
  <2> DEFINE Res(r) == [id |-> r.call[2], of |-> m.of, port |-> m.port,
                        via |-> epoch]
             To(r)  == <<r.call[1], registered[r.call[1]]>>
  <2>1. PICK r \in pending :
          /\ r.gid = m.gid
          /\ \/ /\ replies' = replies \ {m}
                /\ pending' = {s \in pending : s.gid # m.gid}
                /\ toPeer' = [toPeer EXCEPT ![To(r)] = @ \cup {Res(r)}]
                /\ UNCHANGED <<up, epoch, nextGlobalId, registered, srv,
                               toBroker, running>>
             \/ Terminate /\ UNCHANGED toPeer
    BY <1>8 DEF RelayResult
  <2>2. UNCHANGED answers
    BY <1>8 DEF RelayResult, peerVars, callVars
  <2>3. CASE Terminate /\ UNCHANGED toPeer
    BY <2>2, <2>3, TerminateIds
  <2>4. CASE /\ replies' = replies \ {m}
             /\ pending' = {s \in pending : s.gid # m.gid}
             /\ toPeer' = [toPeer EXCEPT ![To(r)] = @ \cup {Res(r)}]
             /\ UNCHANGED <<up, epoch, nextGlobalId, registered, srv,
                            toBroker, running>>
    <3>1. m.port = epoch => m.of = r.call
      BY <2>1 DEF IdTranslation, EntriesMatch
    <3>2. r.call = <<r.call[1], r.call[2]>>
      BY DEF TypeOK
    <3>3. /\ Res(r).port = Res(r).via => Res(r).of = <<To(r)[1], Res(r).id>>
      BY <3>1, <3>2
    <3> HIDE DEF Res, To
    <3>4. DeliveriesMatch'
      BY <2>4, <3>3 DEF TypeOK, IdTranslation, DeliveriesMatch
    <3>5. DownIsEmpty'
      BY <2>4 DEF IdTranslation, DownIsEmpty
    <3>6. QED
      BY <2>2, <2>4, <3>4, <3>5, ShrinkKeepsIds
  <2>5. QED
    BY <2>1, <2>3, <2>4
<1>9. CASE ExtNext
  <2>1. PICK x \in running : ExtReply(x)
    BY <1>9 DEF ExtNext
  <2>2. DeliveriesMatch' /\ DownIsEmpty'
    BY <2>1 DEF ExtReply, brokerVars, IdTranslation, DeliveriesMatch,
                DownIsEmpty
  <2>3. QED
    BY <2>1, <2>2, ShrinkKeepsIds DEF ExtReply, brokerVars, peerVars, callVars
<1> QED
  BY <1>1, <1>2, <1>3, <1>4, <1>5, <1>6, <1>7, <1>8, <1>9 DEF BrokerNext

\* Every step of a server process keeps the ids translated.
LEMMA PeerIds ==
  ASSUME TypeOK, IdTranslation, PeerNext \/ RpcNext PROVE IdTranslation'
<1> USE PairFacts
<1>1. ASSUME NEW p \in Peers, PeerDial(p) PROVE IdTranslation'
  <2>1. DeliveriesMatch' /\ DownIsEmpty'
    BY <1>1 DEF PeerDial, pipeVars, IdTranslation, DeliveriesMatch, DownIsEmpty
  <2>2. QED
    BY <1>1, <2>1, ShrinkKeepsIds DEF PeerDial, pipeVars, callVars
<1>2. ASSUME UNCHANGED <<up, epoch, nextGlobalId, pending, srv, running,
                         replies, toPeer, answers>>
      PROVE  IdTranslation'
  <2>1. DeliveriesMatch' /\ DownIsEmpty'
    BY <1>2 DEF IdTranslation, DeliveriesMatch, DownIsEmpty
  <2>2. QED
    BY <1>2, <2>1, ShrinkKeepsIds
<1>3. ASSUME NEW p \in Peers,
             \/ PeerAck(p) \/ PeerAckTimeout(p) \/ PeerDialFails(p)
             \/ PeerSeesEof(p) \/ PeerRejectsFrame(p) \/ PeerStop(p)
      PROVE  IdTranslation'
  BY <1>2, <1>3 DEF PeerAck, PeerAckTimeout, PeerDialFails, PeerSeesEof,
                    PeerRejectsFrame, PeerStop, Shutdown, brokerVars,
                    pipeVars, callVars
<1>4. ASSUME NEW c \in Conn, NEW m \in toPeer[c], PeerReceive(c, m)
      PROVE  IdTranslation'
  <2> DEFINE res == [call |-> <<c[1], m.id>>, of |-> m.of, port |-> m.port,
                     via |-> m.via]
  <2>1. /\ toPeer' = [toPeer EXCEPT ![c] = @ \ {m}]
        /\ answers' = answers \/ answers' = answers \cup {res}
        /\ UNCHANGED <<up, epoch, nextGlobalId, pending, srv, running, replies>>
    BY <1>4 DEF PeerReceive, brokerVars
  <2>2. res.port = res.via => res.of = res.call
    BY DEF IdTranslation, DeliveriesMatch
  <2> HIDE DEF res
  <2>3. AnswersMatch'
    BY <2>1, <2>2 DEF IdTranslation, AnswersMatch
  <2>4. DeliveriesMatch'
    BY <2>1 DEF TypeOK, IdTranslation, DeliveriesMatch
  <2>5. IdsAllocated' /\ EntriesMatch' /\ DownIsEmpty'
    BY <2>1 DEF IdTranslation, IdsAllocated, EntriesMatch, DownIsEmpty
  <2>6. QED
    BY <2>3, <2>4, <2>5 DEF IdTranslation
<1>5. ASSUME NEW p \in Peers, NEW m \in Method, RpcCall(p, m)
      PROVE  IdTranslation'
  BY <1>2, <1>5 DEF RpcCall, brokerVars, pipeVars
<1>6. ASSUME NEW a \in Call, RpcSend(a) \/ RpcSendFails(a) \/ RpcTimeout(a)
      PROVE  IdTranslation'
  BY <1>2, <1>6 DEF RpcSend, RpcSendFails, RpcTimeout, brokerVars, pipeVars
<1> QED
  BY <1>1, <1>3, <1>4, <1>5, <1>6 DEF PeerNext, RpcNext

\* The id translation is consistent in every reachable state (IdTranslation).
THEOREM TranslationCorrect == Spec => []IdTranslation
<1>1. TypeOK /\ IdTranslation /\ UNCHANGED vars => IdTranslation'
  BY DEF IdTranslation, IdsAllocated, EntriesMatch, DeliveriesMatch,
         DownIsEmpty, AnswersMatch, vars, brokerVars, pipeVars, peerVars,
         callVars
<1>2. TypeOK /\ IdTranslation /\ [Next]_vars => IdTranslation'
  BY <1>1, BrokerIds, PeerIds DEF Next
<1>3. QED
  BY InitIds, <1>2, TypeCorrect, PTL DEF Spec

\* A call that returns a result the extension sent on the port it was asked
\* on returns its own result (AnswersMatch).
THEOREM AnswersCorrect == Spec => []AnswersMatch
<1>1. IdTranslation => AnswersMatch
  BY DEF IdTranslation
<1>2. QED
  BY <1>1, TranslationCorrect, PTL

-----------------------------------------------------------------------------
(* The tables of the broker and the connections they speak of.             *)

\* Connections are opened, and attended to, in the order of their numbers.
ServedInOrder ==
  /\ \A c \in Conn : srv[c] # "none" => c[2] <= dials[c[1]]
  /\ \A p \in Peers : \A j, k \in 1..MaxConns :
       srv[<<p, k>>] = "serving" /\ j < k => srv[<<p, j>>] # "accepted"

TablesInv == PendingIsOwned /\ ServedInOrder /\ NewestIsRegistered

LEMMA TablesUnchanged ==
  ASSUME TablesInv, UNCHANGED <<registered, srv, dials>>,
         pending' \subseteq pending
  PROVE  TablesInv'
BY DEF TablesInv, PendingIsOwned, ServedInOrder, NewestIsRegistered

LEMMA TerminateTables ==
  ASSUME TypeOK, TablesInv, Terminate, UNCHANGED dials PROVE TablesInv'
<1>1. /\ pending' = {} /\ \A p \in Peers : registered'[p] = 0
      /\ \A c \in Conn : /\ srv'[c] \in {"none", "closed"}
                         /\ srv[c] = "none" => srv'[c] = "none"
  BY DEF Terminate
<1>2. QED
  BY <1>1, PairFacts
  DEF TablesInv, PendingIsOwned, ServedInOrder, NewestIsRegistered

LEMMA CleanupTables ==
  ASSUME TypeOK, TablesInv, UNCHANGED dials, NEW c \in Conn, Cleanup(c),
         srv[c] = "serving"
  PROVE  TablesInv'
<1> USE PairFacts
<1>1. /\ \A d \in Conn : srv'[d] = IF d = c THEN "closed" ELSE srv[d]
      /\ \A p \in Peers : registered'[p] = IF p = c[1] THEN 0 ELSE registered[p]
  BY DEF Cleanup, TypeOK
<1>2. PendingIsOwned'
  <2> SUFFICES ASSUME NEW r \in pending'
               PROVE  \E k \in 1..MaxConns : srv'[<<r.call[1], k>>] = "serving"
    BY DEF PendingIsOwned
  <2>1. r \in pending /\ r.call[1] # c[1] /\ r.call[1] \in Peers
    BY DEF Cleanup, TypeOK
  <2>2. PICK k \in 1..MaxConns : srv[<<r.call[1], k>>] = "serving"
    BY <2>1 DEF TablesInv, PendingIsOwned
  <2>3. srv'[<<r.call[1], k>>] = "serving"
    BY <1>1, <2>1, <2>2
  <2>4. QED
    BY <2>3
<1>3. ServedInOrder' /\ NewestIsRegistered'
  BY <1>1 DEF TablesInv, ServedInOrder, NewestIsRegistered
<1>4. QED
  BY <1>2, <1>3 DEF TablesInv

LEMMA HelloTables ==
  ASSUME TypeOK, TablesInv, NEW c \in Conn, BrokerHello(c) PROVE TablesInv'
<1> USE PairFacts
<1>1. /\ srv[c] = "accepted"
      /\ \A k \in 1..(c[2] - 1) : srv[<<c[1], k>>] # "accepted"
      /\ UNCHANGED <<pending, dials>>
  BY DEF BrokerHello, peerVars
<1>2. /\ srv'[c] \in {"serving", "closed"}
      /\ \A d \in Conn : d # c => srv'[d] = srv[d]
      /\ \A p \in Peers : registered'[p] = IF p = c[1] THEN c[2] ELSE registered[p]
  BY DEF BrokerHello, Register, TypeOK
<1>3. PendingIsOwned'
  <2> SUFFICES ASSUME NEW r \in pending
               PROVE  \E k \in 1..MaxConns : srv'[<<r.call[1], k>>] = "serving"
    BY <1>1 DEF PendingIsOwned
  <2>1. PICK k \in 1..MaxConns : srv[<<r.call[1], k>>] = "serving"
    BY DEF TablesInv, PendingIsOwned
  <2>2. <<r.call[1], k>> # c /\ <<r.call[1], k>> \in Conn
    BY <1>1, <2>1 DEF TypeOK
  <2>3. QED
    BY <1>2, <2>1, <2>2
<1>4. ServedInOrder'
  <2>1. \A d \in Conn : srv'[d] # "none" => d[2] <= dials'[d[1]]
    BY <1>1, <1>2 DEF TablesInv, ServedInOrder
  <2>2. ASSUME NEW p \in Peers, NEW j \in 1..MaxConns, NEW k \in 1..MaxConns,
               srv'[<<p, k>>] = "serving", j < k
        PROVE  srv'[<<p, j>>] # "accepted"
    <3>1. CASE <<p, k>> = c
      <4>1. j \in 1..(c[2] - 1) /\ c[1] = p
        BY <2>2, <3>1
      <4>2. <<p, j>> # c
        BY <2>2, <3>1
      <4>3. QED
        BY <1>1, <1>2, <4>1, <4>2
    <3>2. CASE <<p, k>> # c
      BY <1>2, <2>2, <3>2 DEF TablesInv, ServedInOrder
    <3>3. QED
      BY <3>1, <3>2
  <2>3. QED
    BY <2>1, <2>2 DEF ServedInOrder
<1>5. NewestIsRegistered'
  <2> SUFFICES ASSUME NEW p \in Peers, NEW k \in 1..MaxConns,
                      registered'[p] # 0, srv'[<<p, k>>] = "serving"
               PROVE  k <= registered'[p]
    BY DEF NewestIsRegistered
  <2>1. CASE p # c[1]
    BY <1>2, <2>1 DEF TablesInv, NewestIsRegistered
  <2>2. CASE p = c[1] /\ k > c[2]
    <3>1. srv[<<p, k>>] = "serving"
      BY <1>2, <2>2
    <3>2. srv[<<p, c[2]>>] # "accepted"
      BY <2>2, <3>1 DEF TablesInv, ServedInOrder
    <3>3. QED
      BY <1>1, <2>2, <3>2
  <2>3. QED
    BY <1>2, <2>1, <2>2
<1>6. QED
  BY <1>3, <1>4, <1>5 DEF TablesInv

LEMMA TablesStep == ASSUME TypeOK, TablesInv, [Next]_vars PROVE TablesInv'
<1> USE PairFacts
<1>1. CASE BrokerStart \/ ExtNext \/ RpcNext
  BY <1>1, TablesUnchanged
  DEF BrokerStart, ExtNext, ExtReply, RpcNext, RpcCall, RpcSend, RpcSendFails,
      RpcTimeout, brokerVars, peerVars
<1>2. CASE BrokerExit
  BY <1>2, TerminateTables DEF BrokerExit, peerVars
<1>3. ASSUME NEW c \in Conn, BrokerHello(c) PROVE TablesInv'
  BY <1>3, HelloTables
<1>4. ASSUME NEW c \in Conn, BrokerSeesHangUp(c) PROVE TablesInv'
  BY <1>4, CleanupTables DEF BrokerSeesHangUp, peerVars
<1>5. ASSUME NEW c \in Conn, NEW n \in toBroker[c], BrokerForward(c, n)
      PROVE  TablesInv'
  <2> DEFINE e == [gid |-> nextGlobalId, call |-> <<c[1], n>>]
  <2>1. /\ pending' = pending \cup {e} /\ srv[c] = "serving"
        /\ UNCHANGED <<registered, srv, dials>>
    BY <1>5 DEF BrokerForward, peerVars
  <2>2. e.call[1] = c[1] /\ srv[<<c[1], c[2]>>] = "serving"
    BY <2>1
  <2> HIDE DEF e
  <2>3. PendingIsOwned'
    BY <2>1, <2>2 DEF TablesInv, PendingIsOwned
  <2>4. QED
    BY <2>1, <2>3 DEF TablesInv, ServedInOrder, NewestIsRegistered
<1>6. ASSUME NEW c \in Conn, NEW n \in toBroker[c], BrokerLocal(c, n)
      PROVE  TablesInv'
  <2>1. srv[c] = "serving" /\ UNCHANGED dials
    BY <1>6 DEF BrokerLocal, peerVars
  <2>2. Cleanup(c) \/ UNCHANGED <<pending, registered, srv>>
    BY <1>6 DEF BrokerLocal
  <2>3. QED
    BY <2>1, <2>2, CleanupTables, TablesUnchanged
<1>7. ASSUME NEW m \in replies, RelayDrop(m) \/ RelayResult(m)
      PROVE  TablesInv'
  <2>1. UNCHANGED dials
    BY <1>7 DEF RelayDrop, RelayResult, peerVars
  <2>2. \/ Terminate
        \/ UNCHANGED <<registered, srv>> /\ pending' \subseteq pending
    BY <1>7 DEF RelayDrop, RelayResult
  <2>3. QED
    BY <2>1, <2>2, TerminateTables, TablesUnchanged
<1>8. ASSUME NEW p \in Peers, PeerDial(p) PROVE TablesInv'
  <2> DEFINE c == <<p, dials[p] + 1>>
  <2>1. /\ c \in Conn /\ dials[p] \in Nat
        /\ dials' = [dials EXCEPT ![p] = @ + 1]
        /\ srv' = [srv EXCEPT ![c] = "accepted"]
        /\ UNCHANGED <<pending, registered>>
    BY <1>8, BoundsAssumption DEF PeerDial, TypeOK
  <2>2. srv[c] = "none"
    BY <2>1 DEF TablesInv, ServedInOrder, TypeOK
  <2>3. PendingIsOwned' /\ NewestIsRegistered'
    BY <2>1, <2>2 DEF TablesInv, PendingIsOwned, NewestIsRegistered, TypeOK
  <2>4. ServedInOrder'
    <3>1. \A d \in Conn : srv'[d] # "none" => d[2] <= dials'[d[1]]
      BY <2>1 DEF TablesInv, ServedInOrder, TypeOK
    <3>2. ASSUME NEW q \in Peers, NEW j \in 1..MaxConns, NEW k \in 1..MaxConns,
                 srv'[<<q, k>>] = "serving", j < k
          PROVE  srv'[<<q, j>>] # "accepted"
      <4>1. srv[<<q, k>>] = "serving" /\ <<q, k>> \in Conn
        BY <2>1, <3>2 DEF TypeOK
      <4>2. k <= dials[q]
        BY <4>1 DEF TablesInv, ServedInOrder
      <4>3. <<q, j>> # c
        BY <3>2, <4>2 DEF TypeOK
      <4>4. QED
        BY <2>1, <3>2, <4>1, <4>3 DEF TablesInv, ServedInOrder, TypeOK
    <3>3. QED
      BY <3>1, <3>2 DEF ServedInOrder
  <2>5. QED
    BY <2>3, <2>4 DEF TablesInv
<1>9. ASSUME NEW p \in Peers,
             \/ PeerAck(p) \/ PeerAckTimeout(p) \/ PeerDialFails(p)
             \/ PeerSeesEof(p) \/ PeerRejectsFrame(p) \/ PeerStop(p)
      PROVE  TablesInv'
  BY <1>9, TablesUnchanged
  DEF PeerAck, PeerAckTimeout, PeerDialFails, PeerSeesEof, PeerRejectsFrame,
      PeerStop, Shutdown, brokerVars
<1>10. ASSUME NEW c \in Conn, NEW m \in toPeer[c], PeerReceive(c, m)
       PROVE  TablesInv'
  BY <1>10, TablesUnchanged DEF PeerReceive, brokerVars
<1>11. CASE UNCHANGED vars
  BY <1>11, TablesUnchanged DEF vars, brokerVars, peerVars
<1> QED
  BY <1>1, <1>2, <1>3, <1>4, <1>5, <1>6, <1>7, <1>8, <1>9, <1>10, <1>11
  DEF Next, BrokerNext, PeerNext

LEMMA TablesHold == Spec => []TablesInv
<1>1. Init => TablesInv
  BY PairFacts
  DEF Init, TablesInv, PendingIsOwned, ServedInOrder, NewestIsRegistered
<1>2. QED
  BY <1>1, TablesStep, TypeCorrect, PTL DEF Spec

\* Nothing stays in _pending for a process none of whose connections is
\* served (PendingIsOwned).
THEOREM PendingOwned == Spec => []PendingIsOwned
<1>1. TablesInv => PendingIsOwned
  BY DEF TablesInv
<1>2. QED
  BY <1>1, TablesHold, PTL

\* A record never names a connection older than one being served
\* (NewestIsRegistered).
THEOREM NewestRegistered == Spec => []NewestIsRegistered
<1>1. TablesInv => NewestIsRegistered
  BY DEF TablesInv
<1>2. QED
  BY <1>1, TablesHold, PTL

-----------------------------------------------------------------------------
(* Which hosts the ports in messages are, and which calls have begun.      *)

\* Requests, replies and results name hosts that the browser has started.
HostNumbers ==
  /\ epoch <= MaxBrokers /\ (up => epoch >= 1)
  /\ \A x \in running \cup replies : x.port >= 1
  /\ \A c \in Conn : \A m \in toPeer[c] :
       m.port \in 1..MaxBrokers /\ m.via \in 1..MaxBrokers

\* The numbers from nextId on have not been used.
NotBegun ==
  \A a \in Call : a[2] >= nextId[a[1]] => outcome[a] = "none"

SInv == TypeOK /\ IdTranslation

LEMMA TypesAndIds == Spec => []SInv
BY TypeCorrect, TranslationCorrect, PTL DEF SInv

LEMMA HostNumbersStep ==
  ASSUME SInv, HostNumbers, [Next]_vars PROVE HostNumbers'
<1> USE PairFacts, BoundsAssumption
<1>1. /\ epoch \in Nat /\ epoch <= MaxBrokers /\ MaxBrokers \in Nat
      /\ \A x \in running \cup replies : x.port \in 1..MaxBrokers
  BY DEF SInv, TypeOK, Request, IdTranslation, IdsAllocated, HostNumbers
<1>2. ASSUME UNCHANGED epoch, up' => up,
             (running' \cup replies') \subseteq (running \cup replies),
             \A c \in Conn : toPeer'[c] \subseteq toPeer[c]
      PROVE  HostNumbers'
  BY <1>2 DEF HostNumbers
<1>grow. ASSUME NEW c \in Conn, NEW x, x.port \in 1..MaxBrokers,
              x.via \in 1..MaxBrokers,
              toPeer' = [toPeer EXCEPT ![c] = @ \cup {x}],
              UNCHANGED <<epoch, up>>,
              (running' \cup replies') \subseteq (running \cup replies)
       PROVE  HostNumbers'
  <2>1. \A d \in Conn : toPeer'[d] \subseteq toPeer[d] \cup {x}
    BY <1>grow DEF SInv, TypeOK
  <2>2. \A d \in Conn : \A m \in toPeer'[d] :
          m.port \in 1..MaxBrokers /\ m.via \in 1..MaxBrokers
    BY <1>grow, <2>1 DEF HostNumbers
  <2>3. QED
    BY <1>grow, <2>2 DEF HostNumbers
<1>3. ASSUME Terminate, UNCHANGED toPeer PROVE HostNumbers'
  BY <1>3, <1>2 DEF Terminate
<1>4. CASE BrokerStart
  BY <1>1, <1>4 DEF BrokerStart, pipeVars, HostNumbers
<1>5. CASE BrokerExit
  BY <1>3, <1>5 DEF BrokerExit
<1>6. ASSUME NEW c \in Conn, BrokerHello(c) \/ BrokerSeesHangUp(c)
      PROVE  HostNumbers'
  BY <1>2, <1>6 DEF BrokerHello, BrokerSeesHangUp, pipeVars
<1>7. ASSUME NEW c \in Conn, srv[c] = "serving" PROVE up /\ epoch \in 1..MaxBrokers
  BY <1>1, <1>7 DEF SInv, IdTranslation, DownIsEmpty, HostNumbers
<1>8. ASSUME NEW c \in Conn, NEW n \in toBroker[c], BrokerForward(c, n)
      PROVE  HostNumbers'
  BY <1>1, <1>7, <1>8 DEF BrokerForward, HostNumbers
<1>9. ASSUME NEW c \in Conn, NEW n \in toBroker[c], BrokerLocal(c, n)
      PROVE  HostNumbers'
  <2> DEFINE res == [id |-> n, of |-> <<c[1], n>>, port |-> epoch,
                     via |-> epoch]
  <2>1. toPeer' = toPeer \/ toPeer' = [toPeer EXCEPT ![c] = @ \cup {res}]
    BY <1>9 DEF BrokerLocal
  <2>2. epoch \in 1..MaxBrokers /\ UNCHANGED <<up, epoch, running, replies>>
    BY <1>7, <1>9 DEF BrokerLocal
  <2>3. res.port \in 1..MaxBrokers /\ res.via \in 1..MaxBrokers
    BY <2>2
  <2> HIDE DEF res
  <2>4. QED
    BY <1>2, <1>grow, <2>1, <2>2, <2>3
<1>10. ASSUME NEW m \in replies, RelayDrop(m) PROVE HostNumbers'
  BY <1>2, <1>10 DEF RelayDrop
<1>11. ASSUME NEW m \in replies, RelayResult(m) PROVE HostNumbers'
  <2> DEFINE Res(r) == [id |-> r.call[2], of |-> m.of, port |-> m.port,
                        via |-> epoch]
             To(r)  == <<r.call[1], registered[r.call[1]]>>
  <2>1. PICK r \in pending :
          \/ /\ replies' = replies \ {m}
             /\ toPeer' = [toPeer EXCEPT ![To(r)] = @ \cup {Res(r)}]
             /\ UNCHANGED <<up, epoch, running>>
          \/ Terminate /\ UNCHANGED toPeer
    BY <1>11 DEF RelayResult
  <2>2. epoch \in 1..MaxBrokers
    <3>1. up
      BY DEF SInv, IdTranslation, DownIsEmpty
    <3>2. QED
      BY <1>1, <3>1 DEF HostNumbers
  <2>3. Res(r).port \in 1..MaxBrokers /\ Res(r).via \in 1..MaxBrokers
    BY <1>1, <2>2
  <2> HIDE DEF Res, To
  <2>4. CASE Terminate /\ UNCHANGED toPeer
    BY <1>3, <2>4
  <2>5. CASE /\ replies' = replies \ {m}
             /\ toPeer' = [toPeer EXCEPT ![To(r)] = @ \cup {Res(r)}]
             /\ UNCHANGED <<up, epoch, running>>
    <3>1. CASE To(r) \in Conn
      BY <1>grow, <2>3, <2>5, <3>1
    <3>2. CASE To(r) \notin Conn
      BY <1>2, <2>5, <3>2 DEF SInv, TypeOK
    <3>3. QED
      BY <3>1, <3>2
  <2>6. QED
    BY <2>1, <2>4, <2>5
<1>12. CASE ExtNext
  <2>1. PICK x \in running : ExtReply(x)
    BY <1>12 DEF ExtNext
  <2>2. QED
    BY <1>2, <2>1 DEF ExtReply, brokerVars
<1>13. ASSUME NEW p \in Peers, PeerDial(p) \/ PeerAck(p) PROVE HostNumbers'
  BY <1>2, <1>13 DEF PeerDial, PeerAck, brokerVars, pipeVars
<1>14. ASSUME NEW p \in Peers,
              \/ PeerAckTimeout(p) \/ PeerDialFails(p)
              \/ PeerSeesEof(p) \/ PeerRejectsFrame(p) \/ PeerStop(p)
       PROVE  HostNumbers'
  BY <1>2, <1>14 DEF PeerAckTimeout, PeerDialFails, PeerSeesEof,
       PeerRejectsFrame, PeerStop, Shutdown, brokerVars
<1>15. ASSUME NEW c \in Conn, NEW m \in toPeer[c], PeerReceive(c, m)
       PROVE  HostNumbers'
  BY <1>2, <1>15 DEF PeerReceive, brokerVars, SInv, TypeOK
<1>16. CASE RpcNext
  BY <1>2, <1>16 DEF RpcNext, RpcCall, RpcSend, RpcSendFails, RpcTimeout,
                     brokerVars, pipeVars
<1>17. CASE UNCHANGED vars
  BY <1>2, <1>17 DEF vars, brokerVars, pipeVars
<1> QED
  BY <1>4, <1>5, <1>6, <1>8, <1>9, <1>10, <1>11, <1>12, <1>13, <1>14, <1>15,
     <1>16, <1>17
  DEF Next, BrokerNext, PeerNext

\* Whatever the bounds, the hosts named in messages are among those started.
LEMMA HostNumbersHold == Spec => []HostNumbers
<1>1. Init => HostNumbers
  BY BoundsAssumption DEF Init, HostNumbers
<1>2. QED
  BY <1>1, HostNumbersStep, TypesAndIds, PTL DEF Spec

LEMMA NotBegunStep == ASSUME SInv, NotBegun, [Next]_vars PROVE NotBegun'
<1> USE PairFacts
<1>1. ASSUME UNCHANGED <<nextId, outcome>> PROVE NotBegun'
  BY <1>1 DEF NotBegun
<1>2. ASSUME UNCHANGED nextId,
             \A a \in Call : outcome[a] = "none" => outcome'[a] = "none"
      PROVE  NotBegun'
  BY <1>2 DEF NotBegun
<1>3. CASE BrokerNext \/ ExtNext
  BY <1>1, <1>3 DEF BrokerNext, ExtNext, BrokerStart, BrokerExit, BrokerHello,
       BrokerSeesHangUp, BrokerForward, BrokerLocal, RelayDrop, RelayResult,
       ExtReply, peerVars, callVars
<1>4. ASSUME NEW p \in Peers,
             \/ PeerDial(p) \/ PeerAck(p) \/ PeerAckTimeout(p)
             \/ PeerDialFails(p)
      PROVE  NotBegun'
  BY <1>1, <1>4 DEF PeerDial, PeerAck, PeerAckTimeout, PeerDialFails, callVars
<1>5. ASSUME NEW p \in Peers,
             PeerSeesEof(p) \/ PeerRejectsFrame(p) \/ PeerStop(p)
      PROVE  NotBegun'
  BY <1>2, <1>5 DEF PeerSeesEof, PeerRejectsFrame, PeerStop, Shutdown,
                    FailPending
<1>6. ASSUME NEW c \in Conn, NEW m \in toPeer[c], PeerReceive(c, m)
      PROVE  NotBegun'
  BY <1>2, <1>6 DEF PeerReceive, SInv, TypeOK
<1>7. ASSUME NEW p \in Peers, NEW m \in Method, RpcCall(p, m)
      PROVE  NotBegun'
  <2> DEFINE b == <<p, nextId[p]>>
  <2>1. /\ nextId' = [nextId EXCEPT ![p] = @ + 1]
        /\ outcome' = [outcome EXCEPT ![b] = "open"]
    BY <1>7 DEF RpcCall
  <2>2. ASSUME NEW a \in Call, a[2] >= nextId'[a[1]] PROVE outcome'[a] = "none"
    <3>1. nextId \in [Peers -> Nat] /\ a[1] \in Peers /\ a[2] \in Nat
      BY BoundsAssumption DEF SInv, TypeOK
    <3>2. a # b /\ a[2] >= nextId[a[1]]
      BY <2>1, <2>2, <3>1
    <3>3. QED
      BY <2>1, <3>2 DEF NotBegun, SInv, TypeOK
  <2>3. QED
    BY <2>2 DEF NotBegun
<1>8. ASSUME NEW a \in Call, RpcSend(a) \/ RpcSendFails(a) \/ RpcTimeout(a)
      PROVE  NotBegun'
  BY <1>1, <1>2, <1>8 DEF RpcSend, RpcSendFails, RpcTimeout, SInv, TypeOK
<1>9. CASE UNCHANGED vars
  BY <1>1, <1>9 DEF vars, peerVars, callVars
<1> QED
  BY <1>3, <1>4, <1>5, <1>6, <1>7, <1>8, <1>9 DEF Next, PeerNext, RpcNext

LEMMA NotBegunHolds == Spec => []NotBegun
<1>1. Init => NotBegun
  BY DEF Init, NotBegun
<1>2. QED
  BY <1>1, NotBegunStep, TypesAndIds, PTL DEF Spec

-----------------------------------------------------------------------------
(* The refinement.                                                         *)

RefInv == SInv /\ HostNumbers /\ NotBegun

LEMMA RefInvHolds == Spec => []RefInv
BY TypesAndIds, HostNumbersHold, NotBegunHolds, PTL DEF RefInv

svcAnswers == {[call |-> a.call, of |-> a.of] : a \in answers}

\* Every step of the bridge is a step of the service, or none, while only one
\* native host can be started.
LEMMA ServiceStep ==
  ASSUME MaxBrokers = 1, RefInv, [Next]_vars
  PROVE  [Service!Next]_<<outcome, svcAnswers>>
<1> USE PairFacts DEF svcAnswers
<1>1. ASSUME UNCHANGED <<outcome, answers>>
      PROVE  UNCHANGED <<outcome, svcAnswers>>
  BY <1>1
<1>2. ASSUME NEW S \in SUBSET Call, \A a \in S : outcome[a] = "open",
             outcome' = [a \in Call |-> IF a \in S THEN "failed" ELSE outcome[a]],
             UNCHANGED answers
      PROVE  Service!Next
  BY <1>2 DEF Service!Next, Service!Fail
<1>3. CASE BrokerNext \/ ExtNext
  BY <1>1, <1>3 DEF BrokerNext, ExtNext, BrokerStart, BrokerExit, BrokerHello,
       BrokerSeesHangUp, BrokerForward, BrokerLocal, RelayDrop, RelayResult,
       ExtReply, peerVars, callVars
<1>4. ASSUME NEW p \in Peers,
             \/ PeerDial(p) \/ PeerAck(p) \/ PeerAckTimeout(p)
             \/ PeerDialFails(p)
      PROVE  UNCHANGED <<outcome, svcAnswers>>
  BY <1>1, <1>4 DEF PeerDial, PeerAck, PeerAckTimeout, PeerDialFails, callVars
<1>5. ASSUME NEW p \in Peers,
             PeerSeesEof(p) \/ PeerRejectsFrame(p) \/ PeerStop(p)
      PROVE  Service!Next
  <2> DEFINE S == {a \in Call : a[1] = p /\ outcome[a] = "open"}
  <2>1. /\ outcome' = [a \in Call |-> IF a[1] = p /\ outcome[a] = "open"
                                     THEN "failed" ELSE outcome[a]]
        /\ UNCHANGED answers
    BY <1>5 DEF PeerSeesEof, PeerRejectsFrame, PeerStop, Shutdown, FailPending
  <2>2. outcome' = [a \in Call |-> IF a \in S THEN "failed" ELSE outcome[a]]
    BY <2>1
  <2>3. QED
    BY <1>2, <2>1, <2>2
<1>6. ASSUME NEW c \in Conn, NEW m \in toPeer[c], PeerReceive(c, m)
      PROVE  [Service!Next]_<<outcome, svcAnswers>>
  <2> DEFINE a == <<c[1], m.id>>
             res == [call |-> a, of |-> m.of, port |-> m.port, via |-> m.via]
  <2>1. CASE outcome[a] # "open"
    BY <1>1, <1>6, <2>1 DEF PeerReceive
  <2>2. CASE outcome[a] = "open"
    <3>1. /\ outcome' = [outcome EXCEPT ![a] = "answered"]
          /\ answers' = answers \cup {res}
      BY <1>6, <2>2 DEF PeerReceive
    <3>2. m \in Result /\ a \in Call
      BY DEF RefInv, SInv, TypeOK, Result
    <3>3. m.port = 1 /\ m.via = 1
      BY DEF RefInv, HostNumbers
    <3>4. m.of = a
      BY <3>3 DEF RefInv, SInv, IdTranslation, DeliveriesMatch
    <3>5. res.call = a /\ res.of = a
      BY <3>4
    <3>6. svcAnswers' = svcAnswers \cup {[call |-> a, of |-> a]}
      <4> HIDE DEF res, a
      <4>1. QED
        BY <3>1, <3>5
    <3>7. Service!Answer(a)
      BY <2>2, <3>1, <3>6 DEF Service!Answer
    <3>8. QED
      BY <3>2, <3>7 DEF Service!Next
  <2>3. QED
    BY <2>1, <2>2
<1>7. ASSUME NEW p \in Peers, NEW m \in Method, RpcCall(p, m)
      PROVE  Service!Next
  <2> DEFINE b == <<p, nextId[p]>>
  <2>1. b \in Call
    BY <1>7 DEF RpcCall, RefInv, SInv, TypeOK
  <2>2. outcome[b] = "none"
    <3>1. b[2] >= nextId[b[1]]
      BY BoundsAssumption DEF RefInv, SInv, TypeOK
    <3>2. QED
      BY <2>1, <3>1 DEF RefInv, NotBegun
  <2>3. outcome' = [outcome EXCEPT ![b] = "open"] /\ UNCHANGED answers
    BY <1>7 DEF RpcCall
  <2>4. QED
    BY <2>1, <2>2, <2>3 DEF Service!Next, Service!Begin
<1>8. ASSUME NEW a \in Call, RpcSend(a)
      PROVE  UNCHANGED <<outcome, svcAnswers>>
  BY <1>1, <1>8 DEF RpcSend
<1>9. ASSUME NEW a \in Call, RpcSendFails(a) \/ RpcTimeout(a)
      PROVE  [Service!Next]_<<outcome, svcAnswers>>
  <2>1. /\ UNCHANGED answers
        /\ \/ UNCHANGED outcome
           \/ /\ outcome[a] = "open"
              /\ outcome' = [outcome EXCEPT ![a] = "failed"]
    BY <1>9 DEF RpcSendFails, RpcTimeout, RefInv, SInv, TypeOK
  <2>2. CASE UNCHANGED outcome
    BY <1>1, <2>1, <2>2
  <2>3. CASE /\ outcome[a] = "open"
             /\ outcome' = [outcome EXCEPT ![a] = "failed"]
    <3>1. outcome' = [b \in Call |-> IF b \in {a} THEN "failed" ELSE outcome[b]]
      BY <2>3 DEF RefInv, SInv, TypeOK
    <3>2. QED
      BY <1>2, <2>1, <2>3, <3>1
  <2>4. QED
    BY <2>1, <2>2, <2>3
<1>10. CASE UNCHANGED vars
  BY <1>1, <1>10 DEF vars, peerVars, callVars
<1> QED
  BY <1>3, <1>4, <1>5, <1>6, <1>7, <1>8, <1>9, <1>10
  DEF Next, PeerNext, RpcNext

\* While the browser starts one native host only, what callers see is the
\* service: each call fails, or returns its own result, once
\* (ImplementsService).
THEOREM ServiceImplemented ==
  ASSUME MaxBrokers = 1 PROVE Spec => ImplementsService
<1>1. Init => Service!Init
  BY DEF Init, Service!Init
<1>2. RefInv /\ [Next]_vars => [Service!Next]_<<outcome, svcAnswers>>
  BY ServiceStep
<1>3. QED
  BY <1>1, <1>2, RefInvHolds, PTL
  DEF Spec, ImplementsService, Service!Spec, svcAnswers
=============================================================================
