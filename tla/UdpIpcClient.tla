----------------------------- MODULE UdpIpcClient -----------------------------
(***************************************************************************)
(* mdsapi/src/udp_ipc_clnt.c (with REUSE_CLNT_SOCK, as built): one process *)
(* that sends datagrams to ports and waits for answers on sockets it keeps *)
(* and uses again.  Around it, the message loops of udp_ipc_server.c in    *)
(* other processes, each of which may answer every request it receives,    *)
(* and a network that loses datagrams in both directions and delivers late.*)
(***************************************************************************)
EXTENDS Integers, FiniteSets, Sequences

CONSTANTS Port,      (* the ports the process sends to                       *)
          MaxSock,   (* MAX_REUSE_SOCK_CNT                                   *)
          Fd,        (* the descriptors socket() can return                  *)
          Server,    (* the loops that receive on every port                 *)
          Wait,      (* the time_out values send_recv is called with         *)
          Buffer,    (* datagrams a receive buffer holds; more are dropped   *)
          None

ASSUME MaxSockAssumption == MaxSock \in Nat \ {0}
ASSUME PortAssumption == Port \subseteq Nat \ {0} /\ Fd \subseteq Nat \ {0}
ASSUME WaitAssumption == Wait \subseteq Nat \ {0} /\ Buffer \in Nat \ {0}

VARIABLES sock_mgr,   (* g_sock_mgr: the port of each slot, 0 if free        *)
          g_sock,     (* the descriptor of each slot: 0 at first, -1 closed  *)
          rcvtimeo,   (* SO_RCVTIMEO of each descriptor                      *)
          open,       (* the descriptors that are open                       *)
          inbox,      (* the answers each socket holds: the ports they are from *)
          backlog,    (* the requests of each socket a server has still to handle *)
          call        (* the call in progress                                *)

sockets == <<sock_mgr, g_sock, rcvtimeo, open>>
network == <<inbox, backlog>>
vars == <<sockets, network, call>>

Slot == 0..(MaxSock - 1)
Forever == 0
Idle == [at |-> "idle", fn |-> None, port |-> 0, wait |-> 0, fd |-> 0]
InCall(l, f, p, w, d) == [at |-> l, fn |-> f, port |-> p, wait |-> w, fd |-> d]

Init == /\ sock_mgr = [s \in Slot |-> 0]
        /\ g_sock = [s \in Slot |-> 0]
        /\ rcvtimeo = [d \in Fd |-> Forever]
        /\ open = {}
        /\ inbox = [d \in Fd |-> <<>>]
        /\ backlog = [x \in Fd \X Server |-> <<>>]
        /\ call = Idle

(* _get_sock_idx: the slot of the port, else the first free one, else 0.   *)
First(S) == CHOOSE s \in S : \A t \in S : s <= t

(* Mutant: a port that has no slot shares the first one.                   *)
SockIdxNoClaim(p) == LET mine == {s \in Slot : sock_mgr[s] = p}
                     IN  IF mine # {} THEN First(mine) ELSE 0

SockIdx(p) == LET mine == {s \in Slot : sock_mgr[s] = p}
                  free == {s \in Slot : sock_mgr[s] = 0}
              IN  IF mine # {} THEN First(mine) ELSE IF free # {} THEN First(free) ELSE 0

Claimed(p) == IF sock_mgr[SockIdx(p)] = 0 THEN [sock_mgr EXCEPT ![SockIdx(p)] = p] ELSE sock_mgr

(* Mutant: the descriptor of a slot that was never opened is used.         *)
ReuseZero(f, p, w) == /\ call.at = "idle"
                      /\ g_sock[SockIdx(p)] >= 0
                      /\ call' = InCall("send", f, p, w, g_sock[SockIdx(p)])
                      /\ sock_mgr' = Claimed(p)
                      /\ UNCHANGED <<g_sock, rcvtimeo, open, network>>

(* Both functions begin with _init_ipc_sock, which returns the socket of   *)
(* the slot, with the timeout it was made with, or makes a new one.        *)
Reuse(f, p, w) == /\ call.at = "idle"
                  /\ g_sock[SockIdx(p)] > 0
                  /\ call' = InCall("send", f, p, w, g_sock[SockIdx(p)])
                  /\ sock_mgr' = Claimed(p)
                  /\ UNCHANGED <<g_sock, rcvtimeo, open, network>>

Create(f, p, w) == /\ call.at = "idle"
                   /\ g_sock[SockIdx(p)] <= 0
                   /\ \E d \in Fd \ open :
                        /\ open' = open \cup {d}
                        /\ rcvtimeo' = [rcvtimeo EXCEPT ![d] = w]
                        /\ g_sock' = [g_sock EXCEPT ![SockIdx(p)] = d]
                        /\ call' = InCall("send", f, p, w, d)
                   /\ sock_mgr' = Claimed(p)
                   /\ UNCHANGED <<network>>

(* socket() fails: the call closes the slot and gives up.                  *)
CreateFails(p) == /\ call.at = "idle"
                  /\ g_sock[SockIdx(p)] <= 0
                  /\ g_sock' = [g_sock EXCEPT ![SockIdx(p)] = -1]
                  /\ sock_mgr' = Claimed(p)
                  /\ UNCHANGED <<rcvtimeo, open, network, call>>

Begin(f, p, w) == Reuse(f, p, w) \/ Create(f, p, w)

CallSend(p) == Begin("send", p, Forever)
CallSendRecv(p, w) == Begin("send_recv", p, w)

Put(q, x) == IF Len(q) < Buffer THEN Append(q, x) ELSE q

(* sendto puts a request before every server of the port.                  *)
Send == /\ call.at = "send"
        /\ backlog' = [x \in Fd \X Server |->
                         IF x[1] = call.fd THEN Put(backlog[x], call.port) ELSE backlog[x]]
        /\ call' = IF call.fn = "send" THEN Idle
                   ELSE InCall("recv", call.fn, call.port, call.wait, call.fd)
        /\ UNCHANGED <<sockets, inbox>>

(* Mutant: the error path closes the socket and keeps its number.          *)
SendFailsKeepsFd == /\ call.at = "send"
                    /\ open' = open \ {call.fd}
                    /\ rcvtimeo' = [rcvtimeo EXCEPT ![call.fd] = Forever]
                    /\ inbox' = [inbox EXCEPT ![call.fd] = <<>>]
                    /\ backlog' = [x \in Fd \X Server |-> IF x[1] = call.fd THEN <<>> ELSE backlog[x]]
                    /\ call' = Idle
                    /\ UNCHANGED <<sock_mgr, g_sock>>

(* sendto fails: _close_ipc_sock.  What is sent to a closed socket is lost.*)
SendFails == /\ call.at = "send"
             /\ open' = open \ {call.fd}
             /\ g_sock' = [g_sock EXCEPT ![SockIdx(call.port)] = -1]
             /\ rcvtimeo' = [rcvtimeo EXCEPT ![call.fd] = Forever]
             /\ inbox' = [inbox EXCEPT ![call.fd] = <<>>]
             /\ backlog' = [x \in Fd \X Server |-> IF x[1] = call.fd THEN <<>> ELSE backlog[x]]
             /\ call' = Idle
             /\ UNCHANGED sock_mgr

(* recvfrom returns the oldest datagram of the socket, whatever it answers.*)
Recv == /\ call.at = "recv"
        /\ inbox[call.fd] # <<>>
        /\ inbox' = [inbox EXCEPT ![call.fd] = Tail(@)]
        /\ call' = Idle
        /\ UNCHANGED <<sockets, backlog>>

(* Mutant: an empty socket is read again when its timeout has passed.      *)
RecvAgain == /\ call.at = "recv"
             /\ inbox[call.fd] = <<>>
             /\ rcvtimeo[call.fd] # Forever
             /\ UNCHANGED vars

RecvTimeout == /\ call.at = "recv"
               /\ inbox[call.fd] = <<>>
               /\ rcvtimeo[call.fd] # Forever
               /\ call' = Idle
               /\ UNCHANGED <<sockets, network>>

-----------------------------------------------------------------------------
(* A server handles one request: it answers the socket the request came    *)
(* from, or does not, or the request or the answer is lost.                *)
Serve(d, v) == /\ backlog[<<d, v>>] # <<>>
               /\ backlog' = [x \in Fd \X Server |-> IF x = <<d, v>> THEN Tail(backlog[x]) ELSE backlog[x]]
               /\ \/ inbox' = [inbox EXCEPT ![d] = Put(@, Head(backlog[<<d, v>>]))]
                  \/ UNCHANGED inbox
               /\ UNCHANGED <<sockets, call>>

Step == Send \/ SendFails \/ Recv \/ RecvTimeout

Next == \/ \E p \in Port : CallSend(p) \/ CreateFails(p) \/ \E w \in Wait : CallSendRecv(p, w)
        \/ Step
        \/ \E d \in Fd, v \in Server : Serve(d, v)

Spec == Init /\ [][Next]_vars

(* The process keeps running and the receive timeout expires; servers and  *)
(* network owe nothing.                                                    *)
FairSpec == Spec /\ WF_vars(Step)
-----------------------------------------------------------------------------
(* Type correctness of the slots, the sockets and the call.                *)
TypeOK == /\ sock_mgr \in [Slot -> Port \cup {0}]
          /\ g_sock \in [Slot -> Fd \cup {0, -1}]
          /\ rcvtimeo \in [Fd -> Wait \cup {Forever}]
          /\ open \in SUBSET Fd
          /\ call.at \in {"idle", "send", "recv"}
          /\ call.at # "idle" => call.port \in Port /\ call.fd \in open

(* Through failed sends, closed and reopened sockets, every open socket is *)
(* the socket of exactly one slot and every descriptor a slot keeps is     *)
(* open: none leaks, and none is used after close has given its number     *)
(* back.                                                                   *)
SocketsAccounted ==
  /\ open = {g_sock[s] : s \in Slot} \ {0, -1}
  /\ \A s, t \in Slot : g_sock[s] > 0 /\ g_sock[s] = g_sock[t] => s = t

(* An answer that send_recv returns, however late it came and whichever    *)
(* server sent it, comes from the port that was asked: as long as the      *)
(* process uses no more ports than there are slots, sockets are not shared.*)
AnswerFromAskedPort ==
  Cardinality(Port) <= MaxSock =>
    (call.at = "recv" /\ inbox[call.fd] # <<>> => Head(inbox[call.fd]) = call.port)

(* send_recv on a socket that was made for send_recv returns, whatever the *)
(* servers do and the network loses.                                       *)
TimedWaitEnds == (call.at = "recv" /\ rcvtimeo[call.fd] # Forever) ~> call.at = "idle"
=============================================================================
