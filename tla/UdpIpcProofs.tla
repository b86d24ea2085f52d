----------------------------- MODULE UdpIpcProofs -----------------------------
(***************************************************************************)
(* Theorems about the two sides of the UDP IPC.                            *)
(*                                                                         *)
(* UdpIpcClient, for every set of ports, descriptors and servers and every *)
(* size of the table: types, and SocketsAccounted.  The invariant adds to  *)
(* it that a call works on the socket of the slot its port is found in.    *)
(*                                                                         *)
(* UdpIpcServer, for every set of ports and threads and every size of the  *)
(* table: types, no port in two slots, and no index -1 while the ports fit *)
(* in the table.                                                           *)
(***************************************************************************)
EXTENDS UdpIpcClient, UdpIpcServer, WellFoundedInduction, FiniteSetTheorems, TLAPS

Less == {ss \in Nat \X Nat : ss[1] < ss[2]}

(* A set of numbers that is not empty has a least one.                     *)
LEMMA LeastNat == ASSUME NEW S \in SUBSET Nat, S # {}
                  PROVE  \E m \in S : \A n \in S : m <= n
<1>1. IsWellFoundedOn(Less, Nat)
  BY NatLessThanWellFounded DEF OpToRel, Less
<1>2. PICK m \in S : \A n \in S : ~(<<n, m>> \in Less)
  BY <1>1, WFMin
<1>3. ASSUME NEW n \in S PROVE m <= n
  <2>1. m \in Nat /\ n \in Nat
    OBVIOUS
  <2>2. n < m => <<n, m>> \in Less
    BY <2>1 DEF Less
  <2> QED BY <2>1, <2>2, <1>2
<1> QED BY <1>3

(* First, with which _get_sock_idx looks for a slot, finds one.            *)
LEMMA FirstIn == ASSUME NEW S \in SUBSET Slot, S # {}
                 PROVE  First(S) \in S
<1>1. S \in SUBSET Nat
  BY MaxSockAssumption DEF Slot
<1>2. \E m \in S : \A n \in S : m <= n
  BY <1>1, LeastNat
<1> QED BY <1>2 DEF First

Mine(p) == {s \in Slot : sock_mgr[s] = p}
Free == {s \in Slot : sock_mgr[s] = 0}

(* _get_sock_idx answers a slot of the table, and the same one again when  *)
(* it has written the port there.                                          *)
LEMMA SockIdxSlot == ASSUME NEW p PROVE SockIdx(p) \in Slot
<1>1. 0 \in Slot
  BY MaxSockAssumption DEF Slot
<1>2. Mine(p) # {} => First(Mine(p)) \in Slot
  BY FirstIn DEF Mine
<1>3. Free # {} => First(Free) \in Slot
  BY FirstIn DEF Free
<1> QED BY <1>1, <1>2, <1>3 DEF SockIdx, Mine, Free

LEMMA SockIdxStays ==
  ASSUME NEW p \in Port, sock_mgr \in [Slot -> Port \cup {0}], sock_mgr' = Claimed(p)
  PROVE  /\ SockIdx(p)' = SockIdx(p)
         /\ sock_mgr' \in [Slot -> Port \cup {0}]
<1> DEFINE i == SockIdx(p)
<1>1. i \in Slot
  BY SockIdxSlot
<1>2. p # 0 /\ p \in Nat
  BY PortAssumption
<1>3. sock_mgr' \in [Slot -> Port \cup {0}]
  BY <1>1 DEF Claimed
<1>4. CASE sock_mgr[i] # 0
  BY <1>4 DEF Claimed, SockIdx
<1>5. CASE sock_mgr[i] = 0
  <2>1. sock_mgr' = [sock_mgr EXCEPT ![i] = p]
    BY <1>5 DEF Claimed
  <2>2. Mine(p) = {}
    <3>1. SUFFICES ASSUME Mine(p) # {} PROVE FALSE
      OBVIOUS
    <3>2. i = First(Mine(p)) /\ First(Mine(p)) \in Mine(p)
      BY <3>1, FirstIn DEF SockIdx, Mine
    <3> QED BY <3>2, <1>5, <1>2 DEF Mine
  <2>3. {s \in Slot : sock_mgr'[s] = p} = {i}
    BY <2>1, <2>2, <1>1 DEF Mine
  <2>4. i \in {i} /\ {i} # {} /\ {i} \in SUBSET Slot
    BY <1>1
  <2>5. First({i}) = i
    BY <2>4, FirstIn
  <2> HIDE DEF i
  <2>6. SockIdx(p)' = First({i})
    BY <2>3, <2>4 DEF SockIdx
  <2> QED BY <2>5, <2>6, <1>3 DEF i
<1> QED BY <1>3, <1>4, <1>5

-----------------------------------------------------------------------------
(* The call works on the socket of the slot its port is found in.          *)
Call == [at : {"idle", "send", "recv"}, fn : {"send", "send_recv", None},
         port : Port \cup {0}, wait : Wait \cup {Forever}, fd : Fd \cup {0}]

Types == /\ sock_mgr \in [Slot -> Port \cup {0}]
         /\ g_sock \in [Slot -> Fd \cup {0, -1}]
         /\ rcvtimeo \in [Fd -> Wait \cup {Forever}]
         /\ open \in SUBSET Fd
         /\ call \in Call

OwnSocket == call.at # "idle" => /\ call.port \in Port /\ call.fd \in Fd
                                 /\ g_sock[SockIdx(call.port)] = call.fd

IInv == Types /\ OwnSocket /\ SocketsAccounted

USE DEF Forever

LEMMA Numbers == 0 \notin Fd /\ -1 \notin Fd /\ 0 \notin Port /\ \A d \in Fd : d \in Nat /\ d > 0
  BY PortAssumption

LEMMA InitInv == Init => IInv
<1> SUFFICES ASSUME Init PROVE IInv
  OBVIOUS
<1>1. Types
  BY DEF Init, Types, Call, Idle
<1>2. OwnSocket
  BY DEF Init, OwnSocket, Idle
<1>3. SocketsAccounted
  <2>1. \A s \in Slot : g_sock[s] = 0
    BY DEF Init
  <2>2. open = {}
    BY DEF Init
  <2> QED BY <2>1, <2>2 DEF SocketsAccounted
<1> QED BY <1>1, <1>2, <1>3 DEF IInv

(* Every open socket is a slot's, so a call's is.                          *)
LEMMA CallOpen == ASSUME IInv, call.at # "idle" PROVE call.fd \in open
<1>1. SockIdx(call.port) \in Slot
  BY SockIdxSlot
<1> QED BY <1>1, Numbers DEF IInv, OwnSocket, SocketsAccounted

LEMMA ReuseInv == ASSUME IInv, NEW f \in {"send", "send_recv"}, NEW p \in Port, NEW w \in Wait \cup {Forever},
                         Reuse(f, p, w)
                  PROVE  IInv'
<1> DEFINE i == SockIdx(p)
<1>1. i \in Slot /\ sock_mgr' = Claimed(p) /\ UNCHANGED <<g_sock, rcvtimeo, open>>
  BY SockIdxSlot DEF Reuse
<1>2. SockIdx(p)' = i /\ sock_mgr' \in [Slot -> Port \cup {0}]
  BY <1>1, SockIdxStays DEF IInv, Types
<1>3. g_sock[i] \in Fd
  BY <1>1 DEF IInv, Types, Reuse
<1> HIDE DEF i
<1>4. call' = InCall("send", f, p, w, g_sock[i])
  BY DEF Reuse, i
<1>5. call'.at = "send" /\ call'.port = p /\ call'.fd = g_sock[i] /\ call' \in Call
  BY <1>3, <1>4 DEF InCall, Call
<1>6. OwnSocket'
  BY <1>1, <1>2, <1>3, <1>5 DEF OwnSocket
<1>7. Types' /\ SocketsAccounted'
  BY <1>1, <1>2, <1>5 DEF IInv, Types, SocketsAccounted
<1> QED BY <1>6, <1>7 DEF IInv

LEMMA CreateInv == ASSUME IInv, NEW f \in {"send", "send_recv"}, NEW p \in Port, NEW w \in Wait \cup {Forever},
                          Create(f, p, w)
                   PROVE  IInv'
<1> DEFINE i == SockIdx(p)
<1>1. i \in Slot /\ sock_mgr' = Claimed(p) /\ g_sock[i] <= 0
  BY SockIdxSlot DEF Create
<1>2. SockIdx(p)' = i /\ sock_mgr' \in [Slot -> Port \cup {0}]
  BY <1>1, SockIdxStays DEF IInv, Types
<1> HIDE DEF i
<1>3. PICK d \in Fd \ open : /\ open' = open \cup {d}
                             /\ rcvtimeo' = [rcvtimeo EXCEPT ![d] = w]
                             /\ g_sock' = [g_sock EXCEPT ![i] = d]
                             /\ call' = InCall("send", f, p, w, d)
  BY DEF Create, i
<1>4. call'.at = "send" /\ call'.port = p /\ call'.fd = d /\ call' \in Call
  BY <1>3 DEF InCall, Call
<1>5. Types'
  BY <1>1, <1>2, <1>3, <1>4 DEF IInv, Types
<1>6. OwnSocket'
  BY <1>1, <1>2, <1>3, <1>4 DEF OwnSocket, IInv, Types
<1>7. SocketsAccounted'
  <2>1. g_sock[i] \in {0, -1}
    BY <1>1, Numbers DEF IInv, Types
  <2>2. \A s \in Slot : g_sock'[s] = IF s = i THEN d ELSE g_sock[s]
    BY <1>3 DEF IInv, Types
  <2>3. \A s \in Slot : g_sock[s] # d
    BY <1>3, Numbers DEF IInv, SocketsAccounted
  <2>4. open' = {g_sock'[s] : s \in Slot} \ {0, -1}
    BY <1>1, <1>3, <2>1, <2>2, Numbers DEF IInv, SocketsAccounted
  <2>5. \A s, t \in Slot : g_sock'[s] > 0 /\ g_sock'[s] = g_sock'[t] => s = t
    BY <2>2, <2>3 DEF IInv, SocketsAccounted
  <2> QED BY <2>4, <2>5 DEF SocketsAccounted
<1> QED BY <1>5, <1>6, <1>7 DEF IInv

LEMMA CreateFailsInv == ASSUME IInv, NEW p \in Port, CreateFails(p) PROVE IInv'
<1> DEFINE i == SockIdx(p)
<1>1. /\ i \in Slot /\ sock_mgr' = Claimed(p) /\ g_sock[i] <= 0 /\ call.at = "idle"
      /\ g_sock' = [g_sock EXCEPT ![i] = -1] /\ UNCHANGED <<rcvtimeo, open, call>>
  BY SockIdxSlot DEF CreateFails
<1>2. sock_mgr' \in [Slot -> Port \cup {0}]
  BY <1>1, SockIdxStays DEF IInv, Types
<1> HIDE DEF i
<1>3. Types' /\ OwnSocket'
  BY <1>1, <1>2 DEF IInv, Types, OwnSocket
<1>4. SocketsAccounted'
  <2>1. g_sock[i] \in {0, -1}
    BY <1>1, Numbers DEF IInv, Types
  <2>2. \A s \in Slot : g_sock'[s] = IF s = i THEN -1 ELSE g_sock[s]
    BY <1>1 DEF IInv, Types
  <2>3. open' = {g_sock'[s] : s \in Slot} \ {0, -1}
    BY <1>1, <2>1, <2>2 DEF IInv, SocketsAccounted
  <2>4. \A s, t \in Slot : g_sock'[s] > 0 /\ g_sock'[s] = g_sock'[t] => s = t
    BY <2>2 DEF IInv, SocketsAccounted
  <2> QED BY <2>3, <2>4 DEF SocketsAccounted
<1> QED BY <1>3, <1>4 DEF IInv

(* A failed send closes the call's descriptor, and the slot that had it is *)
(* the one that is marked.                                                 *)
LEMMA SendFailsInv == ASSUME IInv, SendFails PROVE IInv'
<1> DEFINE i == SockIdx(call.port)  d == call.fd
<1>1. /\ i \in Slot /\ open' = open \ {d} /\ g_sock' = [g_sock EXCEPT ![i] = -1]
      /\ rcvtimeo' = [rcvtimeo EXCEPT ![d] = Forever] /\ call' = Idle /\ sock_mgr' = sock_mgr
  BY SockIdxSlot DEF SendFails
<1>2. d \in Fd /\ g_sock[i] = d
  BY DEF IInv, OwnSocket, SendFails
<1> HIDE DEF i, d
<1>3. Types' /\ OwnSocket'
  BY <1>1, <1>2 DEF IInv, Types, OwnSocket, Idle, Call
<1>4. SocketsAccounted'
  <2>1. \A s \in Slot : g_sock'[s] = IF s = i THEN -1 ELSE g_sock[s]
    BY <1>1 DEF IInv, Types
  <2>2. \A s \in Slot : g_sock[s] = d => s = i
    BY <1>1, <1>2, Numbers DEF IInv, SocketsAccounted
  <2>3. open' = {g_sock'[s] : s \in Slot} \ {0, -1}
    BY <1>1, <1>2, <2>1, <2>2, Numbers DEF IInv, SocketsAccounted
  <2>4. \A s, t \in Slot : g_sock'[s] > 0 /\ g_sock'[s] = g_sock'[t] => s = t
    BY <2>1 DEF IInv, SocketsAccounted
  <2> QED BY <2>3, <2>4 DEF SocketsAccounted
<1> QED BY <1>3, <1>4 DEF IInv

(* The other steps keep the sockets; a call goes on or ends.               *)
LEMMA OtherInv == ASSUME IInv, \/ Send \/ Recv \/ RecvTimeout \/ UNCHANGED vars
                                \/ \E d \in Fd, v \in Server : Serve(d, v)
                  PROVE  IInv'
<1>1. UNCHANGED sockets
  BY DEF Send, Recv, RecvTimeout, Serve, vars, sockets
<1>2. \/ call' = Idle
      \/ call' = call
      \/ call.at = "send" /\ call' = InCall("recv", call.fn, call.port, call.wait, call.fd)
  BY DEF Send, Recv, RecvTimeout, Serve, vars
<1>3. SocketsAccounted'
  BY <1>1 DEF IInv, SocketsAccounted, sockets
<1>4. call' \in Call /\ (call'.at # "idle" => call.at # "idle" /\ call'.port = call.port /\ call'.fd = call.fd)
  <2>1. CASE call' = Idle
    BY <2>1 DEF Idle, Call
  <2>2. CASE call' = call
    BY <2>2 DEF IInv, Types
  <2>3. CASE call.at = "send" /\ call' = InCall("recv", call.fn, call.port, call.wait, call.fd)
    BY <2>3 DEF InCall, Call, IInv, Types
  <2> QED BY <1>2, <2>1, <2>2, <2>3
<1>5. Types' /\ OwnSocket'
  <2>1. \A q \in Port : SockIdx(q)' = SockIdx(q)
    BY <1>1 DEF SockIdx, sockets
  <2>2. Types'
    BY <1>1, <1>4 DEF IInv, Types, sockets
  <2>3. SUFFICES ASSUME call'.at # "idle" PROVE OwnSocket'
    BY <2>2 DEF OwnSocket
  <2>4. PICK q \in Port : q = call.port /\ q = call'.port
    BY <1>4, <2>3 DEF IInv, OwnSocket
  <2>5. g_sock[SockIdx(q)] = call'.fd /\ call'.fd \in Fd
    BY <1>4, <2>3, <2>4 DEF IInv, OwnSocket
  <2>6. g_sock'[SockIdx(q)'] = call'.fd
    BY <2>1, <2>5, <1>1 DEF sockets
  <2> QED BY <2>4, <2>5, <2>6 DEF OwnSocket
<1> QED BY <1>3, <1>5 DEF IInv

LEMMA NextInv == IInv /\ [Next]_vars => IInv'
<1> SUFFICES ASSUME IInv, [Next]_vars PROVE IInv'
  OBVIOUS
<1>1. ASSUME NEW f \in {"send", "send_recv"}, NEW p \in Port, NEW w \in Wait \cup {Forever}, Begin(f, p, w)
      PROVE  IInv'
  BY <1>1, ReuseInv, CreateInv DEF Begin
<1>2. ASSUME NEW p \in Port, CallSend(p) PROVE IInv'
  BY <1>1, <1>2 DEF CallSend
<1>3. ASSUME NEW p \in Port, NEW w \in Wait, CallSendRecv(p, w) PROVE IInv'
  BY <1>1, <1>3 DEF CallSendRecv
<1>4. ASSUME NEW p \in Port, CreateFails(p) PROVE IInv'
  BY <1>4, CreateFailsInv
<1>5. CASE SendFails
  BY <1>5, SendFailsInv
<1>6. CASE Send \/ Recv \/ RecvTimeout \/ UNCHANGED vars \/ \E d \in Fd, v \in Server : Serve(d, v)
  BY <1>6, OtherInv
<1> QED BY <1>2, <1>3, <1>4, <1>5, <1>6 DEF Next, Step

(* The strengthened invariant holds in every state of every instance.      *)
THEOREM Invariant == Spec => []IInv
<1> QED BY InitInv, NextInv, PTL DEF Spec

(* Types: in particular a call in progress has an open socket.             *)
THEOREM TypeCorrect == Spec => []TypeOK
<1>1. IInv => TypeOK
  <2> SUFFICES ASSUME IInv PROVE TypeOK
    OBVIOUS
  <2>1. call.at # "idle" => call.port \in Port /\ call.fd \in open
    BY CallOpen DEF IInv, OwnSocket
  <2> QED BY <2>1 DEF IInv, Types, TypeOK, Call
<1> QED BY Invariant, <1>1, PTL

(* Whatever fails, is lost or comes late, no descriptor is leaked, used    *)
(* after its close or kept by two slots.                                   *)
THEOREM NoSocketLost == Spec => []SocketsAccounted
<1>1. IInv => SocketsAccounted
  BY DEF IInv
<1> QED BY Invariant, <1>1, PTL

-----------------------------------------------------------------------------
(* For AnswerFromAskedPort: a port has one slot, and whatever waits at the *)
(* socket of a slot is of the port of that slot.                           *)
AllFrom(p, q) == \A k \in 1..Len(q) : q[k] = p

QueueTypes == inbox \in [Fd -> Seq(Port)] /\ backlog \in [Fd \X Server -> Seq(Port)]

OneSlotEach == \A s, t \in Slot : sock_mgr[s] # 0 /\ sock_mgr[s] = sock_mgr[t] => s = t

OfItsPort == \A s \in Slot : g_sock[s] > 0 =>
  /\ sock_mgr[s] # 0
  /\ AllFrom(sock_mgr[s], inbox[g_sock[s]])
  /\ \A v \in Server : AllFrom(sock_mgr[s], backlog[<<g_sock[s], v>>])

ClosedIsEmpty == \A d \in Fd \ open : inbox[d] = <<>> /\ \A v \in Server : backlog[<<d, v>>] = <<>>

CallsPort == call.at # "idle" => sock_mgr[SockIdx(call.port)] = call.port

AInv == QueueTypes /\ OneSlotEach /\ OfItsPort /\ ClosedIsEmpty /\ CallsPort

(* Put drops what there is no room for and adds at the end.                *)
LEMMA PutFrom == ASSUME NEW p \in Port, NEW q \in Seq(Port), AllFrom(p, q)
                 PROVE  Put(q, p) \in Seq(Port) /\ AllFrom(p, Put(q, p))
BY DEF Put, AllFrom

LEMMA TailFrom == ASSUME NEW p \in Port, NEW q \in Seq(Port), q # <<>>, AllFrom(p, q)
                  PROVE  Tail(q) \in Seq(Port) /\ AllFrom(p, Tail(q)) /\ Head(q) = p
BY DEF AllFrom

(* While there are no more ports than slots a search finds the slot of the *)
(* port or a free one: a table full of other ports would need more ports.  *)
LEMMA SlotOfPort ==
  ASSUME IsFiniteSet(Port), Cardinality(Port) <= MaxSock, Types, OneSlotEach,
         NEW p \in Port, sock_mgr' = Claimed(p)
  PROVE  /\ sock_mgr'[SockIdx(p)] = p
         /\ \A s \in Slot : sock_mgr[s] # 0 => sock_mgr'[s] = sock_mgr[s]
         /\ OneSlotEach'
<1> DEFINE i == SockIdx(p)
<1>1. i \in Slot /\ p # 0
  BY SockIdxSlot, Numbers
<1>2. CASE Mine(p) # {}
  <2>1. i \in Mine(p)
    BY <1>2, FirstIn DEF SockIdx, Mine
  <2>2. sock_mgr[i] = p /\ sock_mgr' = sock_mgr
    BY <2>1, <1>1 DEF Mine, Claimed
  <2> QED BY <2>2 DEF OneSlotEach
<1>3. CASE Mine(p) = {} /\ Free # {}
  <2>1. i \in Free
    BY <1>3, FirstIn DEF SockIdx, Mine, Free
  <2>2. sock_mgr' = [sock_mgr EXCEPT ![i] = p] /\ sock_mgr[i] = 0
    BY <2>1 DEF Free, Claimed
  <2> HIDE DEF i
  <2>3. \A s \in Slot : sock_mgr'[s] = IF s = i THEN p ELSE sock_mgr[s]
    BY <2>2, <1>1 DEF Types
  <2>4. \A s \in Slot : sock_mgr[s] # p
    BY <1>3 DEF Mine
  <2>5. OneSlotEach'
    BY <2>3, <2>4 DEF OneSlotEach
  <2> QED BY <1>1, <2>2, <2>3, <2>5 DEF i
<1>4. CASE Mine(p) = {} /\ Free = {}
  <2>1. \A s \in Slot : sock_mgr[s] # p /\ sock_mgr[s] # 0
    BY <1>4 DEF Mine, Free
  <2>2. sock_mgr \in [Slot -> Port]
    BY <2>1 DEF Types
  <2>3. sock_mgr \in Injection(Slot, Port)
    BY <2>1, <2>2 DEF OneSlotEach, Injection, IsInjective
  <2>4. sock_mgr \notin Surjection(Slot, Port)
    BY <2>1 DEF Surjection
  <2>5. Cardinality(Slot) <= Cardinality(Port) /\ Cardinality(Slot) # Cardinality(Port)
    BY <2>3, <2>4, FS_Injection
  <2>6. Cardinality(Slot) = MaxSock
    BY FS_Interval, MaxSockAssumption DEF Slot
  <2>7. Cardinality(Port) \in Nat
    BY FS_CardinalityType
  <2> QED BY <2>5, <2>6, <2>7, MaxSockAssumption
<1> QED BY <1>2, <1>3, <1>4

LEMMA InitAsked == Init => AInv
<1> SUFFICES ASSUME Init PROVE AInv
  OBVIOUS
<1>1. QueueTypes /\ ClosedIsEmpty
  BY DEF Init, QueueTypes, ClosedIsEmpty
<1>2. OneSlotEach /\ OfItsPort /\ CallsPort
  BY DEF Init, OneSlotEach, OfItsPort, CallsPort, Idle
<1> QED BY <1>1, <1>2 DEF AInv

(* A call begins on the slot it has found; the queues stay.                *)
LEMMA ReuseAsked ==
  ASSUME IsFiniteSet(Port), Cardinality(Port) <= MaxSock, IInv, AInv,
         NEW f \in {"send", "send_recv"}, NEW p \in Port, NEW w \in Wait \cup {Forever}, Reuse(f, p, w)
  PROVE  AInv'
<1>1. sock_mgr' = Claimed(p) /\ UNCHANGED <<g_sock, open, inbox, backlog>>
  BY DEF Reuse, network
<1>2. /\ sock_mgr'[SockIdx(p)] = p
      /\ \A s \in Slot : sock_mgr[s] # 0 => sock_mgr'[s] = sock_mgr[s]
      /\ OneSlotEach'
  BY <1>1, SlotOfPort DEF IInv, AInv
<1>3. SockIdx(p)' = SockIdx(p)
  BY <1>1, SockIdxStays DEF IInv, Types
<1>4. call'.port = p
  BY DEF Reuse, InCall
<1>5. OfItsPort'
  BY <1>1, <1>2 DEF AInv, OfItsPort
<1>6. CallsPort'
  BY <1>2, <1>3, <1>4 DEF CallsPort
<1>7. QueueTypes' /\ ClosedIsEmpty'
  BY <1>1 DEF AInv, QueueTypes, ClosedIsEmpty
<1> QED BY <1>2, <1>5, <1>6, <1>7 DEF AInv

(* A new socket has nothing in it, or a slot is marked closed.             *)
LEMMA NewAsked ==
  ASSUME IsFiniteSet(Port), Cardinality(Port) <= MaxSock, IInv, AInv, NEW p \in Port,
         sock_mgr' = Claimed(p), NEW d, d = -1 \/ d \in Fd \ open, UNCHANGED network,
         g_sock' = [g_sock EXCEPT ![SockIdx(p)] = d], open' = open \cup ({d} \ {-1}),
         call'.at # "idle" => call'.port = p
  PROVE  AInv'
<1> DEFINE i == SockIdx(p)
<1>1. i \in Slot
  BY SockIdxSlot
<1>2. /\ sock_mgr'[i] = p
      /\ \A s \in Slot : sock_mgr[s] # 0 => sock_mgr'[s] = sock_mgr[s]
      /\ OneSlotEach'
  BY SlotOfPort DEF IInv, AInv
<1>3. SockIdx(p)' = i
  BY SockIdxStays DEF IInv, Types
<1> HIDE DEF i
<1>4. \A s \in Slot : g_sock'[s] = IF s = i THEN d ELSE g_sock[s]
  BY DEF IInv, Types, i
<1>5. d > 0 => inbox[d] = <<>> /\ \A v \in Server : backlog[<<d, v>>] = <<>>
  BY DEF AInv, ClosedIsEmpty
<1>6. inbox' = inbox /\ backlog' = backlog
  BY DEF network
<1>7. OfItsPort'
  <2> SUFFICES ASSUME NEW s \in Slot, g_sock'[s] > 0
               PROVE  /\ sock_mgr'[s] # 0
                      /\ AllFrom(sock_mgr'[s], inbox[g_sock'[s]])
                      /\ \A v \in Server : AllFrom(sock_mgr'[s], backlog[<<g_sock'[s], v>>])
    BY <1>6 DEF OfItsPort
  <2>1. CASE s = i
    <3>1. AllFrom(p, <<>>)
      BY DEF AllFrom
    <3> QED BY <2>1, <3>1, <1>1, <1>2, <1>4, <1>5, Numbers
  <2>2. CASE s # i
    BY <2>2, <1>2, <1>4 DEF AInv, OfItsPort
  <2> QED BY <2>1, <2>2
<1>8. CallsPort'
  BY <1>2, <1>3 DEF CallsPort, i
<1>9. QueueTypes' /\ ClosedIsEmpty'
  BY <1>6 DEF AInv, QueueTypes, ClosedIsEmpty
<1> QED BY <1>2, <1>7, <1>8, <1>9 DEF AInv

(* What is sent and answered on the socket of a slot is of its port.       *)
LEMMA KeepsPort ==
  ASSUME IInv, AInv, UNCHANGED sockets, call'.at # "idle" => call.at # "idle" /\ call'.port = call.port,
         QueueTypes',
         \A d \in open, p \in Port :
           /\ AllFrom(p, inbox[d]) /\ (\A v \in Server : AllFrom(p, backlog[<<d, v>>]))
           /\ (call.at # "idle" /\ call.fd = d => call.port = p)
           => AllFrom(p, inbox'[d]) /\ \A v \in Server : AllFrom(p, backlog'[<<d, v>>]),
         \A d \in Fd \ open : inbox'[d] = inbox[d] /\ \A v \in Server : backlog'[<<d, v>>] = backlog[<<d, v>>]
  PROVE  AInv'
<1>1. sock_mgr' = sock_mgr /\ g_sock' = g_sock /\ open' = open
  BY DEF sockets
<1>2. OfItsPort'
  <2> SUFFICES ASSUME NEW s \in Slot, g_sock[s] > 0
               PROVE  /\ sock_mgr[s] # 0
                      /\ AllFrom(sock_mgr[s], inbox'[g_sock[s]])
                      /\ \A v \in Server : AllFrom(sock_mgr[s], backlog'[<<g_sock[s], v>>])
    BY <1>1 DEF OfItsPort
  <2>1. g_sock[s] \in open
    BY Numbers DEF IInv, SocketsAccounted
  <2>2. sock_mgr[s] \in Port /\ AllFrom(sock_mgr[s], inbox[g_sock[s]])
        /\ \A v \in Server : AllFrom(sock_mgr[s], backlog[<<g_sock[s], v>>])
    BY DEF IInv, Types, AInv, OfItsPort
  <2>3. call.at # "idle" /\ call.fd = g_sock[s] => call.port = sock_mgr[s]
    <3> SUFFICES ASSUME call.at # "idle", call.fd = g_sock[s] PROVE call.port = sock_mgr[s]
      OBVIOUS
    <3>1. SockIdx(call.port) \in Slot /\ g_sock[SockIdx(call.port)] = g_sock[s]
      BY SockIdxSlot DEF IInv, OwnSocket
    <3>2. SockIdx(call.port) = s
      BY <3>1 DEF IInv, SocketsAccounted
    <3> QED BY <3>2 DEF AInv, CallsPort
  <2> QED BY <2>1, <2>2, <2>3, Numbers
<1>3. OneSlotEach' /\ ClosedIsEmpty'
  BY <1>1 DEF AInv, OneSlotEach, ClosedIsEmpty
<1>4. CallsPort'
  <2> SUFFICES ASSUME call'.at # "idle" PROVE (sock_mgr[SockIdx(call.port)] = call.port)'
    BY DEF CallsPort
  <2>1. PICK q \in Port : q = call.port /\ q = call'.port
    BY DEF IInv, OwnSocket
  <2>2. SockIdx(q)' = SockIdx(q)
    BY <1>1 DEF SockIdx
  <2>3. sock_mgr[SockIdx(q)] = q
    BY <2>1 DEF AInv, CallsPort
  <2> QED BY <2>1, <2>2, <2>3, <1>1
<1> QED BY <1>2, <1>3, <1>4 DEF AInv

LEMMA SendAsked == ASSUME IInv, AInv, Send PROVE AInv'
<1> DEFINE p == call.port  fd == call.fd
<1>1. p \in Port /\ fd \in open /\ fd \in Fd
  BY CallOpen DEF Send, IInv, OwnSocket
<1>2. /\ UNCHANGED sockets /\ inbox' = inbox /\ call.at = "send"
      /\ backlog' = [x \in Fd \X Server |-> IF x[1] = fd THEN Put(backlog[x], p) ELSE backlog[x]]
      /\ call' = Idle \/ call' = InCall("recv", call.fn, p, call.wait, fd)
  BY DEF Send
<1>3. call'.at # "idle" => call.at # "idle" /\ call'.port = call.port
  BY <1>2 DEF Idle, InCall
<1> HIDE DEF p, fd
<1>4. SUFFICES /\ QueueTypes'
               /\ \A d \in open, q \in Port :
                    /\ AllFrom(q, inbox[d]) /\ (\A v \in Server : AllFrom(q, backlog[<<d, v>>]))
                    /\ (call.at # "idle" /\ call.fd = d => call.port = q)
                    => AllFrom(q, inbox'[d]) /\ \A v \in Server : AllFrom(q, backlog'[<<d, v>>])
               /\ \A d \in Fd \ open : \A v \in Server : backlog'[<<d, v>>] = backlog[<<d, v>>]
  BY <1>2, <1>3, KeepsPort
<1>5. \A d \in Fd, v \in Server : backlog'[<<d, v>>] = IF d = fd THEN Put(backlog[<<d, v>>], p) ELSE backlog[<<d, v>>]
  BY <1>2
<1>6. QueueTypes'
  <2>1. \A x \in Fd \X Server : backlog[x] \in Seq(Port) /\ Put(backlog[x], p) \in Seq(Port)
    BY <1>1 DEF AInv, QueueTypes, Put
  <2> QED BY <1>2, <2>1 DEF AInv, QueueTypes
<1>7. ASSUME NEW q \in Port, NEW v \in Server, AllFrom(q, backlog[<<fd, v>>]), p = q
      PROVE  AllFrom(q, backlog'[<<fd, v>>])
  <2>1. backlog[<<fd, v>>] \in Seq(Port)
    BY <1>1 DEF AInv, QueueTypes
  <2> QED BY <1>1, <1>5, <1>7, <2>1, PutFrom
<1>8. open \in SUBSET Fd
  BY DEF IInv, Types
<1> QED BY <1>1, <1>2, <1>5, <1>6, <1>7, <1>8 DEF p, fd

LEMMA RecvAsked == ASSUME IInv, AInv, Recv \/ RecvTimeout \/ UNCHANGED vars PROVE AInv'
<1>1. UNCHANGED sockets /\ backlog' = backlog
  BY DEF Recv, RecvTimeout, vars, network
<1>2. call'.at # "idle" => call.at # "idle" /\ call'.port = call.port
  BY DEF Recv, RecvTimeout, vars, Idle
<1>3. CASE inbox' = inbox
  <2>1. QueueTypes'
    BY <1>1, <1>3 DEF AInv, QueueTypes
  <2> QED BY <1>1, <1>2, <1>3, <2>1, KeepsPort
<1>4. CASE Recv
  <2>1. call.fd \in open /\ call.fd \in Fd /\ open \in SUBSET Fd
    BY <1>4, CallOpen DEF Recv, IInv, Types
  <2>2. inbox' = [inbox EXCEPT ![call.fd] = Tail(@)] /\ inbox[call.fd] # <<>>
    BY <1>4 DEF Recv
  <2>3. inbox \in [Fd -> Seq(Port)]
    BY DEF AInv, QueueTypes
  <2>4. QueueTypes'
    BY <1>1, <2>1, <2>2, <2>3 DEF AInv, QueueTypes
  <2>5. ASSUME NEW d \in open, NEW p \in Port, AllFrom(p, inbox[d]) PROVE AllFrom(p, inbox'[d])
    BY <2>1, <2>2, <2>3, <2>5, TailFrom
  <2> QED BY <1>1, <1>2, <2>1, <2>2, <2>3, <2>4, <2>5, KeepsPort
<1> QED BY <1>3, <1>4 DEF RecvTimeout, vars, network

(* A server answers a request of an open socket with the request's port.   *)
LEMMA ServeAsked == ASSUME IInv, AInv, NEW d \in Fd, NEW v \in Server, Serve(d, v) PROVE AInv'
<1> DEFINE b == backlog[<<d, v>>]
<1>1. /\ UNCHANGED sockets /\ call' = call /\ b # <<>>
      /\ backlog' = [x \in Fd \X Server |-> IF x = <<d, v>> THEN Tail(backlog[x]) ELSE backlog[x]]
      /\ inbox' = [inbox EXCEPT ![d] = Put(@, Head(b))] \/ inbox' = inbox
  BY DEF Serve
<1>2. d \in open /\ open \in SUBSET Fd
  BY <1>1 DEF AInv, ClosedIsEmpty, IInv, Types
<1>3. inbox \in [Fd -> Seq(Port)] /\ backlog \in [Fd \X Server -> Seq(Port)] /\ b \in Seq(Port)
  BY DEF AInv, QueueTypes
<1> HIDE DEF b
<1>4. /\ \A e \in Fd, u \in Server : backlog'[<<e, u>>] = IF e = d /\ u = v THEN Tail(b) ELSE backlog[<<e, u>>]
      /\ \A e \in Fd : inbox'[e] = inbox[e] \/ (e = d /\ inbox'[e] = Put(inbox[e], Head(b)))
  BY <1>1, <1>3 DEF b
<1>5. Head(b) \in Port /\ Tail(b) \in Seq(Port)
  BY <1>1, <1>3
<1>6. QueueTypes'
  <2>1. backlog' \in [Fd \X Server -> Seq(Port)]
    BY <1>1, <1>3, <1>5 DEF b
  <2>2. Put(inbox[d], Head(b)) \in Seq(Port)
    BY <1>3, <1>5 DEF Put
  <2>3. inbox' \in [Fd -> Seq(Port)]
    BY <1>1, <1>3, <2>2
  <2> QED BY <2>1, <2>3 DEF QueueTypes
<1>7. ASSUME NEW e \in open, NEW p \in Port, AllFrom(p, inbox[e]), \A u \in Server : AllFrom(p, backlog[<<e, u>>])
      PROVE  AllFrom(p, inbox'[e]) /\ \A u \in Server : AllFrom(p, backlog'[<<e, u>>])
  <2>1. CASE e # d
    BY <1>2, <1>4, <1>7, <2>1
  <2>2. CASE e = d
    <3>1. AllFrom(p, Tail(b)) /\ Head(b) = p
      BY <1>1, <1>3, <1>7, <2>2, TailFrom DEF b
    <3>2. inbox[d] \in Seq(Port)
      BY <1>3
    <3>3. AllFrom(p, Put(inbox[d], p))
      BY <1>7, <2>2, <3>2, PutFrom
    <3> QED BY <1>2, <1>4, <1>7, <2>2, <3>1, <3>3
  <2> QED BY <2>1, <2>2
<1>8. \A e \in Fd \ open : inbox'[e] = inbox[e] /\ \A u \in Server : backlog'[<<e, u>>] = backlog[<<e, u>>]
  BY <1>2, <1>4
<1> QED BY <1>1, <1>6, <1>7, <1>8, KeepsPort

(* A failed send closes the socket, and what was in it is lost.            *)
LEMMA SendFailsAsked == ASSUME IInv, AInv, SendFails PROVE AInv'
<1> DEFINE i == SockIdx(call.port)  fd == call.fd
<1>1. /\ i \in Slot /\ open' = open \ {fd} /\ g_sock' = [g_sock EXCEPT ![i] = -1]
      /\ inbox' = [inbox EXCEPT ![fd] = <<>>] /\ call' = Idle /\ sock_mgr' = sock_mgr
      /\ backlog' = [x \in Fd \X Server |-> IF x[1] = fd THEN <<>> ELSE backlog[x]]
  BY SockIdxSlot DEF SendFails
<1>2. fd \in Fd /\ g_sock[i] = fd
  BY DEF IInv, OwnSocket, SendFails
<1> HIDE DEF i, fd
<1>3. inbox \in [Fd -> Seq(Port)] /\ backlog \in [Fd \X Server -> Seq(Port)]
  BY DEF AInv, QueueTypes
<1>4. \A e \in Fd : /\ inbox'[e] = IF e = fd THEN <<>> ELSE inbox[e]
                    /\ \A v \in Server : backlog'[<<e, v>>] = IF e = fd THEN <<>> ELSE backlog[<<e, v>>]
  BY <1>1, <1>3
<1>5. QueueTypes'
  BY <1>1, <1>2, <1>3 DEF QueueTypes
<1>6. ClosedIsEmpty'
  BY <1>1, <1>2, <1>4 DEF AInv, ClosedIsEmpty
<1>7. OneSlotEach' /\ CallsPort'
  BY <1>1 DEF AInv, OneSlotEach, CallsPort, Idle
<1>8. OfItsPort'
  <2> SUFFICES ASSUME NEW s \in Slot, g_sock'[s] > 0
               PROVE  /\ sock_mgr[s] # 0
                      /\ AllFrom(sock_mgr[s], inbox'[g_sock'[s]])
                      /\ \A v \in Server : AllFrom(sock_mgr[s], backlog'[<<g_sock'[s], v>>])
    BY <1>1 DEF OfItsPort
  <2>1. s # i /\ g_sock'[s] = g_sock[s]
    BY <1>1 DEF IInv, Types
  <2>2. g_sock[s] \in Fd /\ g_sock[s] # fd
    BY <1>1, <1>2, <2>1, Numbers DEF IInv, Types, SocketsAccounted
  <2> QED BY <1>4, <2>1, <2>2 DEF AInv, OfItsPort
<1> QED BY <1>5, <1>6, <1>7, <1>8 DEF AInv

LEMMA NextAsked ==
  ASSUME IsFiniteSet(Port), Cardinality(Port) <= MaxSock, IInv, AInv, [Next]_vars PROVE AInv'
<1>1. ASSUME NEW p \in Port, NEW f \in {"send", "send_recv"}, NEW w \in Wait \cup {Forever}, Create(f, p, w)
      PROVE  AInv'
  <2>1. PICK d \in Fd \ open : /\ open' = open \cup {d}
                               /\ g_sock' = [g_sock EXCEPT ![SockIdx(p)] = d]
                               /\ call' = InCall("send", f, p, w, d)
    BY <1>1 DEF Create
  <2>2. open' = open \cup ({d} \ {-1}) /\ call'.port = p
    BY <2>1, Numbers DEF InCall
  <2>3. sock_mgr' = Claimed(p) /\ UNCHANGED network
    BY <1>1 DEF Create
  <2> QED BY <2>1, <2>2, <2>3, NewAsked
<1>2. ASSUME NEW p \in Port, CreateFails(p) PROVE AInv'
  <2>1. /\ g_sock' = [g_sock EXCEPT ![SockIdx(p)] = -1] /\ sock_mgr' = Claimed(p)
        /\ UNCHANGED network /\ open' = open \cup ({-1} \ {-1}) /\ call'.at = "idle"
    BY <1>2 DEF CreateFails, network
  <2> QED BY <2>1, NewAsked
<1>3. ASSUME NEW p \in Port, CallSend(p) \/ \E w \in Wait : CallSendRecv(p, w) PROVE AInv'
  BY <1>1, <1>3, ReuseAsked DEF CallSend, CallSendRecv, Begin
<1> QED BY <1>2, <1>3, SendAsked, SendFailsAsked, RecvAsked, ServeAsked DEF Next, Step

(* AnswerFromAskedPort of the run, for any finite set of ports: however    *)
(* late an answer comes and whichever server sent it, it is of the port    *)
(* that was asked, while there are no more ports than slots.               *)
THEOREM AnswersOfPort == ASSUME IsFiniteSet(Port) PROVE Spec => []AnswerFromAskedPort
<1>1. CASE Cardinality(Port) <= MaxSock
  <2>1. IInv /\ AInv /\ [Next]_vars => AInv'
    BY <1>1, NextAsked
  <2>2. IInv /\ AInv => AnswerFromAskedPort
    <3> SUFFICES ASSUME IInv, AInv, call.at = "recv", inbox[call.fd] # <<>>
                 PROVE  Head(inbox[call.fd]) = call.port
      BY DEF AnswerFromAskedPort
    <3>1. call.port \in Port /\ call.fd \in Fd /\ g_sock[SockIdx(call.port)] = call.fd
      BY DEF IInv, OwnSocket
    <3>2. AllFrom(call.port, inbox[call.fd]) /\ inbox[call.fd] \in Seq(Port)
      BY <3>1, SockIdxSlot, Numbers DEF AInv, OfItsPort, CallsPort, QueueTypes
    <3> QED BY <3>1, <3>2, TailFrom
  <2> QED BY <2>1, <2>2, InitAsked, Invariant, PTL DEF Spec
<1>2. CASE ~(Cardinality(Port) <= MaxSock)
  <2>1. AnswerFromAskedPort
    BY <1>2 DEF AnswerFromAskedPort
  <2> QED BY <2>1, PTL
<1> QED BY <1>1, <1>2

-----------------------------------------------------------------------------
(* The table of message loops of a process that serves, UdpIpcServer: for  *)
(* any ports and threads and any size of the table.                        *)

MainRecord == [at : MainLabels, port : PortOrNone, idx : Int]

LoopTypes == /\ init_flag \in {0, 1}
             /\ port_num \in [LoopSlot -> PortOrNone]
             /\ thread_run \in [LoopSlot -> {0, 1}]
             /\ arg_port \in [LoopSlot -> PortOrNone]
             /\ arg_index \in [LoopSlot -> LoopSlot]
             /\ arg_proc \in [LoopSlot -> PortOrNone]
             /\ main \in MainRecord
             /\ main.at # "overrun" => main.idx \in LoopSlot
             /\ pc \in [Loop -> LoopLabels]
             /\ slot \in [Loop -> LoopSlot]
             /\ port \in [Loop -> PortOrNone]
             /\ index \in [Loop -> LoopSlot]
             /\ proc \in [Loop -> PortOrNone]

LoopIInv == LoopTypes /\ UniquePort

LEMMA SlotInt == 0 \in LoopSlot /\ LoopSlot \subseteq Int /\ -1 \notin LoopSlot /\ LoopSlot \in SUBSET Nat
BY MaxLoopAssumption DEF LoopSlot

LEMMA LoopFirstIn == ASSUME NEW S \in SUBSET LoopSlot, S # {}
                     PROVE  FirstOf(S) \in S
<1>1. \E m \in S : \A n \in S : m <= n
  BY SlotInt, LeastNat
<1> QED BY <1>1 DEF FirstOf

(* What _get_thread_idx answers: a slot that has the port; else, when no   *)
(* slot has it, a free one; else, when none is free either, -1.            *)
LEMMA GetIdxCases ==
  ASSUME NEW p
  PROVE  \/ GetIdx(p) \in LoopSlot /\ port_num[GetIdx(p)] = p
         \/ /\ GetIdx(p) \in LoopSlot /\ port_num[GetIdx(p)] = NoPort
            /\ \A s \in LoopSlot : port_num[s] # p
         \/ /\ GetIdx(p) = -1
            /\ \A s \in LoopSlot : port_num[s] # p /\ port_num[s] # NoPort
<1> DEFINE mine == {s \in LoopSlot : port_num[s] = p}
           free == {s \in LoopSlot : port_num[s] = NoPort}
<1>1. GetIdx(p) = IF mine # {} THEN FirstOf(mine) ELSE IF free # {} THEN FirstOf(free) ELSE -1
  BY DEF GetIdx
<1>2. mine # {} => FirstOf(mine) \in mine
  BY LoopFirstIn
<1>3. free # {} => FirstOf(free) \in free
  BY LoopFirstIn
<1> QED BY <1>1, <1>2, <1>3

LEMMA TakenUnique ==
  ASSUME NEW p \in Served, port_num \in [LoopSlot -> PortOrNone], UniquePort
  PROVE  /\ Taken(p) \in [LoopSlot -> PortOrNone]
         /\ \A s, t \in LoopSlot : Taken(p)[s] # NoPort /\ Taken(p)[s] = Taken(p)[t] => s = t
<1> DEFINE i == GetIdx(p)
<1> HIDE DEF i
<1>1. Taken(p) = [s \in LoopSlot |-> IF s = i THEN p ELSE port_num[s]]
  BY DEF Taken, i
<1>2. \A s \in LoopSlot : i \in LoopSlot /\ port_num[s] = p => s = i
  BY GetIdxCases, ServedAssumption DEF UniquePort, i
<1>3. Taken(p) \in [LoopSlot -> PortOrNone]
  BY <1>1 DEF PortOrNone
<1>4. ASSUME NEW s \in LoopSlot, NEW t \in LoopSlot, Taken(p)[s] # NoPort, Taken(p)[s] = Taken(p)[t]
      PROVE  s = t
  BY <1>1, <1>2, <1>4 DEF UniquePort
<1> QED BY <1>3, <1>4

LEMMA LoopInitInv == LoopInit => LoopIInv
<1> SUFFICES ASSUME LoopInit PROVE LoopIInv
  OBVIOUS
<1>1. main \in MainRecord /\ main.idx \in LoopSlot
  BY SlotInt DEF LoopInit, MainIdle, MainRecord, MainLabels, PortOrNone
<1>2. LoopTypes
  BY <1>1, SlotInt DEF LoopInit, LoopTypes, Zeroed, PortOrNone, LoopLabels
<1>3. UniquePort
  BY DEF LoopInit, Zeroed, UniquePort
<1> QED BY <1>2, <1>3 DEF LoopIInv

(* The main thread goes on to another place of the same call.              *)
LEMMA MainTyped == ASSUME LoopTypes, NEW l \in MainLabels, main.at # "overrun", MainGoes(l)
                   PROVE  main' \in MainRecord /\ main'.idx \in LoopSlot
BY DEF LoopTypes, MainGoes, Doing, MainRecord

LEMMA IdleTyped == MainIdle \in MainRecord /\ MainIdle.idx \in LoopSlot
BY SlotInt DEF MainIdle, MainRecord, MainLabels, PortOrNone

(* A start or an end takes the slot it has found; the first start wipes it *)
(* again with the rest of the table.                                       *)
LEMMA GetIdxInv == ASSUME LoopIInv, NEW p \in Served, StartGetIdx(p) \/ EndGetIdx(p)
                   PROVE  LoopIInv'
<1> DEFINE to(l) == Doing(IF GetIdx(p) \in LoopSlot THEN l ELSE "overrun", p, GetIdx(p))
<1>1. GetIdx(p) \in Int
  <2>1. GetIdx(p) \in LoopSlot \/ GetIdx(p) = -1
    BY GetIdxCases
  <2>2. \A x \in LoopSlot \cup {-1} : x \in Int
    BY MaxLoopAssumption DEF LoopSlot
  <2> QED BY <2>1, <2>2
<1>2. main' \in MainRecord /\ (main'.at # "overrun" => main'.idx \in LoopSlot)
  <2>1. \E l \in {"start_port", "end_num"} : main' = to(l)
    BY DEF StartGetIdx, EndGetIdx
  <2>2. \A l \in {"start_port", "end_num"} : to(l) \in MainRecord /\ (to(l).at # "overrun" => to(l).idx \in LoopSlot)
    BY <1>1 DEF Doing, MainRecord, MainLabels, PortOrNone
  <2> HIDE DEF to
  <2> QED BY <2>1, <2>2
<1>3. /\ port_num' \in [LoopSlot -> PortOrNone]
      /\ UniquePort'
  <2>1. CASE port_num' = Taken(p)
    BY <2>1, TakenUnique DEF LoopIInv, LoopTypes, UniquePort
  <2>2. CASE port_num' = Zeroed(NoPort)
    BY <2>2 DEF Zeroed, PortOrNone, UniquePort
  <2> QED BY <2>1, <2>2 DEF StartGetIdx, EndGetIdx
<1>4. /\ thread_run' \in [LoopSlot -> {0, 1}]
      /\ arg_port' \in [LoopSlot -> PortOrNone]
      /\ arg_index' \in [LoopSlot -> LoopSlot]
      /\ arg_proc' \in [LoopSlot -> PortOrNone]
      /\ init_flag' \in {0, 1}
  BY SlotInt DEF LoopIInv, LoopTypes, StartGetIdx, EndGetIdx, Zeroed, PortOrNone, args
<1>5. UNCHANGED <<pc, slot, port, index, proc>>
  BY DEF StartGetIdx, EndGetIdx, copy
<1> QED BY <1>2, <1>3, <1>4, <1>5 DEF LoopIInv, LoopTypes

(* The steps of a start after it has its slot.                             *)
LEMMA StartInv == ASSUME LoopIInv, StartPort \/ StartProc \/ StartIndex \/ StartRun
                  PROVE  LoopIInv'
<1>1. main' \in MainRecord /\ main'.idx \in LoopSlot
  BY MainTyped DEF LoopIInv, StartPort, StartProc, StartIndex, StartRun, MainAt, MainLabels
<1>2. main.idx \in LoopSlot /\ main.port \in PortOrNone
  BY DEF LoopIInv, LoopTypes, MainRecord, StartPort, StartProc, StartIndex, StartRun, MainAt
<1>3. UNCHANGED <<init_flag, port_num, pc, slot, port, index, proc>>
  BY DEF StartPort, StartProc, StartIndex, StartRun, copy, args
<1>4. /\ thread_run' \in [LoopSlot -> {0, 1}]
      /\ arg_port' \in [LoopSlot -> PortOrNone]
      /\ arg_index' \in [LoopSlot -> LoopSlot]
      /\ arg_proc' \in [LoopSlot -> PortOrNone]
  BY <1>2 DEF LoopIInv, LoopTypes, StartPort, StartProc, StartIndex, StartRun, args
<1> QED BY <1>1, <1>3, <1>4 DEF LoopIInv, LoopTypes, UniquePort

(* The end of a start: the thread is made, or it is not.                   *)
LEMMA LoopCreateInv == ASSUME LoopIInv, (\E l \in Loop : StartCreate(l)) \/ StartCreateFails
                       PROVE  LoopIInv'
<1>1. main' = MainIdle /\ UNCHANGED <<table, port, index, proc>>
  BY DEF StartCreate, StartCreateFails, copy
<1>2. pc' \in [Loop -> LoopLabels] /\ slot' \in [Loop -> LoopSlot]
  BY DEF LoopIInv, LoopTypes, StartCreate, StartCreateFails, MainAt, LoopLabels, copy
<1> QED BY <1>1, <1>2, IdleTyped DEF LoopIInv, LoopTypes, UniquePort, table, args

(* The end of a server wipes its slot.                                     *)
LEMMA EndInv == ASSUME LoopIInv, EndNum \/ EndRun \/ EndPort \/ EndIndex \/ EndProc
                PROVE  LoopIInv'
<1>1. main' \in MainRecord /\ main'.idx \in LoopSlot
  BY MainTyped, IdleTyped DEF LoopIInv, EndNum, EndRun, EndPort, EndIndex, EndProc, MainAt, MainLabels
<1>2. UNCHANGED <<init_flag, pc, slot, port, index, proc>>
  BY DEF EndNum, EndRun, EndPort, EndIndex, EndProc, copy, args
<1>3. /\ thread_run' \in [LoopSlot -> {0, 1}]
      /\ arg_port' \in [LoopSlot -> PortOrNone]
      /\ arg_index' \in [LoopSlot -> LoopSlot]
      /\ arg_proc' \in [LoopSlot -> PortOrNone]
  BY SlotInt DEF LoopIInv, LoopTypes, EndNum, EndRun, EndPort, EndIndex, EndProc, args, PortOrNone
<1>4. port_num' \in [LoopSlot -> PortOrNone] /\ UniquePort'
  <2>1. CASE port_num' = [port_num EXCEPT ![main.idx] = NoPort]
    BY <2>1 DEF LoopIInv, LoopTypes, UniquePort, PortOrNone
  <2>2. CASE port_num' = port_num
    BY <2>2 DEF LoopIInv, LoopTypes, UniquePort
  <2> QED BY <2>1, <2>2 DEF EndNum, EndRun, EndPort, EndIndex, EndProc
<1> QED BY <1>1, <1>2, <1>3, <1>4 DEF LoopIInv, LoopTypes

(* The steps of a loop but the one that kills the process.                 *)
LEMMA LoopInv == ASSUME LoopIInv, NEW l \in Loop, LoopStep(l), ~RecvKills(l)
                 PROVE  LoopIInv'
<1>1. UNCHANGED <<table, main>>
  BY DEF LoopStep, CopyPort, CopyIndex, CopyProc, BindFails, Ends, Check, CheckStops, LoopRecv
<1>2. pc' \in [Loop -> LoopLabels]
  BY DEF LoopStep, CopyPort, CopyIndex, CopyProc, BindFails, Ends, Check, CheckStops, LoopRecv,
         LoopGoes, LoopLabels, LoopIInv, LoopTypes
<1>3. slot' \in [Loop -> LoopSlot]
  BY SlotInt DEF LoopStep, CopyPort, CopyIndex, CopyProc, BindFails, Ends, Check, CheckStops, LoopRecv,
                 LoopIInv, LoopTypes, copy
<1>4. port' \in [Loop -> PortOrNone] /\ proc' \in [Loop -> PortOrNone]
  BY DEF LoopStep, CopyPort, CopyIndex, CopyProc, BindFails, Ends, Check, CheckStops, LoopRecv,
         LoopIInv, LoopTypes, copy, PortOrNone
<1>5. index' \in [Loop -> LoopSlot]
  BY SlotInt DEF LoopStep, CopyPort, CopyIndex, CopyProc, BindFails, Ends, Check, CheckStops, LoopRecv,
                 LoopIInv, LoopTypes, copy
<1> QED BY <1>1, <1>2, <1>3, <1>4, <1>5 DEF LoopIInv, LoopTypes, UniquePort, table, args

(* A process that is killed starts again with nothing.                     *)
LEMMA KillInv == ASSUME NEW l \in Loop, RecvKills(l)
                 PROVE  LoopIInv'
<1>1. LoopTypes'
  BY IdleTyped, SlotInt DEF RecvKills, Zeroed, LoopTypes, PortOrNone, LoopLabels
<1>2. UniquePort'
  BY DEF RecvKills, Zeroed, UniquePort
<1> QED BY <1>1, <1>2 DEF LoopIInv

LEMMA LoopNextInv == LoopIInv /\ [LoopNext]_loopVars => LoopIInv'
<1> SUFFICES ASSUME LoopIInv, [LoopNext]_loopVars PROVE LoopIInv'
  OBVIOUS
<1>1. CASE \E p \in Served : StartGetIdx(p) \/ EndGetIdx(p)
  BY <1>1, GetIdxInv
<1>2. CASE MainStep
  BY <1>2, StartInv, LoopCreateInv, EndInv DEF MainStep
<1>3. CASE \E l \in Loop : LoopStep(l)
  BY <1>3, LoopInv, KillInv
<1>4. CASE UNCHANGED loopVars
  BY <1>4 DEF loopVars, table, args, copy, LoopIInv, LoopTypes, UniquePort
<1> QED BY <1>1, <1>2, <1>3, <1>4 DEF LoopNext

(* The inductive invariant, for any constants.                             *)
THEOREM LoopInvariant == LoopSpec => []LoopIInv
<1> QED BY LoopInitInv, LoopNextInv, PTL DEF LoopSpec

(* TypeOK of the run: the table and the loops have their types, and every  *)
(* index a start, an end or a thread uses is a slot of the table.          *)
THEOREM LoopTypeCorrect == LoopSpec => []LoopTypeOK
<1>1. LoopIInv => LoopTypeOK
  BY DEF LoopIInv, LoopTypes, LoopTypeOK, MainRecord
<1> QED BY <1>1, LoopInvariant, PTL

(* UniquePort of the run: _get_thread_idx never gives a port two slots.    *)
THEOREM OneSlotPerPort == LoopSpec => []UniquePort
<1>1. LoopIInv => UniquePort
  BY DEF LoopIInv
<1> QED BY <1>1, LoopInvariant, PTL

-----------------------------------------------------------------------------
(* When neither the port nor a free slot is found, the table is full of    *)
(* other ports, so there are more ports than slots.                        *)
LEMMA FullTable == ASSUME IsFiniteSet(Served), LoopIInv, NEW p \in Served, GetIdx(p) = -1
                   PROVE  Cardinality(Served) > MaxLoop
<1>1. \A s \in LoopSlot : port_num[s] # p /\ port_num[s] # NoPort
  BY GetIdxCases, SlotInt
<1>2. port_num \in Injection(LoopSlot, Served)
  BY <1>1 DEF LoopIInv, LoopTypes, UniquePort, PortOrNone, Injection, IsInjective
<1>3. port_num \notin Surjection(LoopSlot, Served)
  BY <1>1 DEF Surjection
<1>4. Cardinality(LoopSlot) <= Cardinality(Served) /\ Cardinality(LoopSlot) # Cardinality(Served)
  BY <1>2, <1>3, FS_Injection
<1>5. Cardinality(LoopSlot) = MaxLoop
  BY FS_Interval, MaxLoopAssumption DEF LoopSlot
<1>6. Cardinality(Served) \in Nat
  BY FS_CardinalityType
<1> QED BY <1>4, <1>5, <1>6, MaxLoopAssumption

(* Only the search for a slot can lead to an overrun.                      *)
LEMMA OverrunFromGetIdx ==
  ASSUME LoopIInv, [LoopNext]_loopVars, main.at # "overrun", main'.at = "overrun"
  PROVE  \E p \in Served : GetIdx(p) = -1
<1>1. CASE \E p \in Served : StartGetIdx(p) \/ EndGetIdx(p)
  <2>1. PICK p \in Served : StartGetIdx(p) \/ EndGetIdx(p)
    BY <1>1
  <2>2. GetIdx(p) \notin LoopSlot
    BY <2>1 DEF StartGetIdx, EndGetIdx, Doing
  <2> QED BY <2>2, GetIdxCases
<1>2. CASE MainStep
  BY <1>2 DEF MainStep, StartPort, StartProc, StartIndex, StartRun, StartCreate, StartCreateFails,
              EndNum, EndRun, EndPort, EndIndex, EndProc, MainGoes, Doing, MainIdle
<1>3. CASE \E l \in Loop : LoopStep(l)
  BY <1>3 DEF LoopStep, CopyPort, CopyIndex, CopyProc, BindFails, Ends, Check, CheckStops, LoopRecv,
              RecvKills, MainIdle
<1>4. CASE UNCHANGED loopVars
  BY <1>4 DEF loopVars
<1> QED BY <1>1, <1>2, <1>3, <1>4 DEF LoopNext

(* NoOverrun of the run, for any finite set of ports: while it is no       *)
(* larger than the table, start and end never use -1 as an index.          *)
THEOREM IndexInTable == ASSUME IsFiniteSet(Served) PROVE LoopSpec => []NoOverrun
<1>1. LoopInit => NoOverrun
  BY DEF LoopInit, MainIdle, NoOverrun
<1>2. LoopIInv /\ NoOverrun /\ [LoopNext]_loopVars => NoOverrun'
  <2> SUFFICES ASSUME LoopIInv, NoOverrun, [LoopNext]_loopVars, Cardinality(Served) <= MaxLoop PROVE main'.at # "overrun"
    BY DEF NoOverrun
  <2>1. main.at # "overrun"
    BY DEF NoOverrun
  <2>2. \A p \in Served : GetIdx(p) # -1
    BY FullTable, FS_CardinalityType, MaxLoopAssumption
  <2> QED BY <2>1, <2>2, OverrunFromGetIdx
<1> QED BY <1>1, <1>2, LoopInvariant, PTL DEF LoopSpec
=============================================================================
