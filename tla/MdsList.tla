------------------------------- MODULE MdsList -------------------------------
(***************************************************************************)
(* mdsapi/src/mds_list.c: the mutex-protected singly linked list, at the   *)
(* granularity of its pointer writes.  mds_api_list_get_num reads the      *)
(* counter without the mutex, so it can run between any two of them.       *)
(***************************************************************************)
EXTENDS Integers, Sequences

CONSTANTS Thread,   (* the threads that call the list                      *)
          Node,     (* the addresses malloc can return for a list node     *)
          Data,     (* the data pointers the callers own                   *)
          NULL      (* the null pointer                                    *)

ASSUME NullAssumption == /\ NULL \notin Node
                         /\ NULL \notin Data
                         /\ NULL \notin Thread
                         /\ NULL \notin Int

VARIABLES head, tail, num, mutex,   (* struct mds_listInstance              *)
          next, data,               (* struct mds_dataList, by address      *)
          alloc,                    (* the node addresses now allocated     *)
          pc, node, op,             (* each thread's place, new_list or     *)
                                    (* free_list, and arguments and result  *)
          owner,                    (* who answers for each data pointer    *)
          chain,                    (* history: the nodes linked from head  *)
          queue                     (* history: the data, as of the last    *)
                                    (* write of num                         *)

inst == <<head, tail, num, mutex>>
heap == <<next, data, alloc>>
history == <<chain, queue>>
vars == <<inst, heap, pc, node, op, owner, history>>

InCall(c, d) == [call |-> c, datum |-> d, ret |-> NULL]
Idle == InCall("none", NULL)
Calls == {"none", "add", "pop", "del_all", "get_num"}

AddHeld == {"add_fill", "add_link", "add_tail", "add_num"}
PopHeld == {"pop_check", "pop_free", "pop_tail", "pop_num"}
DelHeld == {"del_loop", "del_unlink", "del_num"}
Held == AddHeld \cup PopHeld \cup DelHeld \cup {"unlock"}
Free == {"idle", "add_alloc", "add_lock", "pop_lock", "del_lock", "get_num", "return"}

Init == /\ head = NULL /\ tail = NULL /\ num = 0 /\ mutex = NULL
        /\ next = [n \in Node |-> NULL]
        /\ data = [n \in Node |-> NULL]
        /\ alloc = {}
        /\ pc = [t \in Thread |-> "idle"]
        /\ node = [t \in Thread |-> NULL]
        /\ op = [t \in Thread |-> Idle]
        /\ owner = [d \in Data |-> "caller"]
        /\ chain = <<>>
        /\ queue = <<>>

Goto(t, l) == pc' = [pc EXCEPT ![t] = l]
At(t, l) == pc[t] = l

-----------------------------------------------------------------------------
(* The callers.  A data pointer is passed to add by at most one call at a  *)
(* time, and again only after pop has given it back or, once del_all has   *)
(* freed it, malloc has returned it for new data.                          *)

CallAdd(t) == /\ At(t, "idle")
              /\ \E d \in Data :
                   /\ owner[d] \in {"caller", "freed"}
                   /\ owner' = [owner EXCEPT ![d] = "list"]
                   /\ op' = [op EXCEPT ![t] = InCall("add", d)]
              /\ Goto(t, "add_alloc")
              /\ UNCHANGED <<inst, heap, node, history>>

CallOther(t) == /\ At(t, "idle")
                /\ \E c \in {"pop", "del_all", "get_num"} :
                     /\ op' = [op EXCEPT ![t] = InCall(c, NULL)]
                     /\ Goto(t, CASE c = "pop" -> "pop_lock"
                                  [] c = "del_all" -> "del_lock"
                                  [] OTHER -> "get_num")
                /\ UNCHANGED <<inst, heap, node, owner, history>>

Return(t) == /\ At(t, "return")
             /\ op' = [op EXCEPT ![t] = Idle]
             /\ node' = [node EXCEPT ![t] = NULL]
             /\ owner' = IF op[t].datum \in Data /\ (op[t].call = "add") = (op[t].ret = -1)
                         THEN [owner EXCEPT ![op[t].datum] = "caller"]
                         ELSE owner
             /\ Goto(t, "idle")
             /\ UNCHANGED <<inst, heap, history>>

-----------------------------------------------------------------------------
(* mds_api_list_add *)

AddAlloc(t) == /\ At(t, "add_alloc")
               /\ \/ /\ \E n \in Node \ alloc :
                          /\ alloc' = alloc \cup {n}
                          /\ node' = [node EXCEPT ![t] = n]
                     /\ Goto(t, "add_lock")
                     /\ UNCHANGED op
                  \/ /\ op' = [op EXCEPT ![t].ret = -1]
                     /\ Goto(t, "return")
                     /\ UNCHANGED <<alloc, node>>
               /\ UNCHANGED <<inst, next, data, owner, history>>

(* Mutant of Lock: the wait for the mutex is dropped. *)
LockWithoutWaiting(t, from, to) ==
    /\ At(t, from)
    /\ mutex' = t
    /\ Goto(t, to)
    /\ UNCHANGED <<head, tail, num, heap, node, op, owner, history>>

Lock(t, from, to) == /\ At(t, from)
                     /\ mutex = NULL
                     /\ mutex' = t
                     /\ Goto(t, to)
                     /\ UNCHANGED <<head, tail, num, heap, node, op, owner, history>>

AddLock(t) == Lock(t, "add_lock", "add_fill")

AddFill(t) == /\ At(t, "add_fill")
              /\ data' = [data EXCEPT ![node[t]] = op[t].datum]
              /\ next' = [next EXCEPT ![node[t]] = NULL]
              /\ Goto(t, "add_link")
              /\ UNCHANGED <<inst, alloc, node, op, owner, history>>

(* Mutant of AddLink: the new node goes in front of the list. *)
AddLinkInFront(t) ==
    /\ At(t, "add_link")
    /\ next' = [next EXCEPT ![node[t]] = head]
    /\ head' = node[t]
    /\ chain' = <<node[t]>> \o chain
    /\ Goto(t, "add_tail")
    /\ UNCHANGED <<tail, num, mutex, data, alloc, node, op, owner, queue>>

AddLink(t) == /\ At(t, "add_link")
              /\ IF head = NULL
                 THEN head' = node[t] /\ UNCHANGED next
                 ELSE next' = [next EXCEPT ![tail] = node[t]] /\ UNCHANGED head
              /\ chain' = Append(chain, node[t])
              /\ Goto(t, "add_tail")
              /\ UNCHANGED <<tail, num, mutex, data, alloc, node, op, owner, queue>>

AddTail(t) == /\ At(t, "add_tail")
              /\ tail' = node[t]
              /\ Goto(t, "add_num")
              /\ UNCHANGED <<head, num, mutex, heap, node, op, owner, history>>

(* Mutant of AddNum: the counter is forgotten. *)
AddNumForgotten(t) ==
    /\ At(t, "add_num")
    /\ queue' = Append(queue, op[t].datum)
    /\ op' = [op EXCEPT ![t].ret = 0]
    /\ Goto(t, "unlock")
    /\ UNCHANGED <<inst, heap, node, owner, chain>>

AddNum(t) == /\ At(t, "add_num")
             /\ num' = num + 1
             /\ queue' = Append(queue, op[t].datum)
             /\ op' = [op EXCEPT ![t].ret = 0]
             /\ Goto(t, "unlock")
             /\ UNCHANGED <<head, tail, mutex, heap, node, owner, chain>>

Unlock(t) == /\ At(t, "unlock")
             /\ mutex' = NULL
             /\ Goto(t, "return")
             /\ UNCHANGED <<head, tail, num, heap, node, op, owner, history>>

-----------------------------------------------------------------------------
(* mds_api_list_pop *)

PopLock(t) == Lock(t, "pop_lock", "pop_check")

(* Mutant of PopEmpty: the early return keeps the mutex. *)
PopEmptyKeepsMutex(t) ==
    /\ At(t, "pop_check")
    /\ head = NULL
    /\ op' = [op EXCEPT ![t].ret = -1]
    /\ Goto(t, "return")
    /\ UNCHANGED <<inst, heap, node, owner, history>>

PopEmpty(t) == /\ At(t, "pop_check")
               /\ head = NULL
               /\ op' = [op EXCEPT ![t].ret = -1]
               /\ Goto(t, "unlock")
               /\ UNCHANGED <<inst, heap, node, owner, history>>

(* Mutant of PopTake: the first node is taken and head still points to it. *)
PopTakeKeepsHead(t) ==
    /\ At(t, "pop_check")
    /\ head # NULL
    /\ op' = [op EXCEPT ![t].datum = data[head]]
    /\ node' = [node EXCEPT ![t] = head]
    /\ owner' = [owner EXCEPT ![data[head]] = "popped"]
    /\ Goto(t, "pop_free")
    /\ UNCHANGED <<inst, heap, history>>

PopTake(t) == /\ At(t, "pop_check")
              /\ head # NULL
              /\ op' = [op EXCEPT ![t].datum = data[head]]
              /\ node' = [node EXCEPT ![t] = head]
              /\ head' = next[head]
              /\ owner' = [owner EXCEPT ![data[head]] = "popped"]
              /\ chain' = Tail(chain)
              /\ Goto(t, "pop_free")
              /\ UNCHANGED <<tail, num, mutex, heap, queue>>

PopFree(t) == /\ At(t, "pop_free")
              /\ alloc' = alloc \ {node[t]}
              /\ Goto(t, "pop_tail")
              /\ UNCHANGED <<inst, next, data, node, op, owner, history>>

(* Mutant of PopTail: taking the last node leaves tail behind. *)
PopTailStale(t) ==
    /\ At(t, "pop_tail")
    /\ Goto(t, "pop_num")
    /\ UNCHANGED <<inst, heap, node, op, owner, history>>

PopTail(t) == /\ At(t, "pop_tail")
              /\ tail' = IF head = NULL THEN NULL ELSE tail
              /\ Goto(t, "pop_num")
              /\ UNCHANGED <<head, num, mutex, heap, node, op, owner, history>>

PopNum(t) == /\ At(t, "pop_num")
             /\ num' = num - 1
             /\ queue' = Tail(queue)
             /\ op' = [op EXCEPT ![t].ret = 0]
             /\ Goto(t, "unlock")
             /\ UNCHANGED <<head, tail, mutex, heap, node, owner, chain>>

-----------------------------------------------------------------------------
(* mds_api_list_del_all, which also frees the data, and                    *)
(* mds_api_list_get_num, which takes no lock                               *)

DelLock(t) == Lock(t, "del_lock", "del_loop")

DelData(t) == /\ At(t, "del_loop")
              /\ head # NULL
              /\ node' = [node EXCEPT ![t] = head]
              /\ owner' = [owner EXCEPT ![data[head]] = "freed"]
              /\ Goto(t, "del_unlink")
              /\ UNCHANGED <<inst, heap, op, history>>

DelNode(t) == /\ At(t, "del_unlink")
              /\ head' = next[head]
              /\ alloc' = alloc \ {node[t]}
              /\ chain' = Tail(chain)
              /\ Goto(t, "del_loop")
              /\ UNCHANGED <<tail, num, mutex, next, data, node, op, owner, queue>>

DelTail(t) == /\ At(t, "del_loop")
              /\ head = NULL
              /\ tail' = NULL
              /\ Goto(t, "del_num")
              /\ UNCHANGED <<head, num, mutex, heap, node, op, owner, history>>

DelNum(t) == /\ At(t, "del_num")
             /\ num' = 0
             /\ queue' = <<>>
             /\ op' = [op EXCEPT ![t].ret = 0]
             /\ Goto(t, "unlock")
             /\ UNCHANGED <<head, tail, mutex, heap, node, owner, chain>>

GetNum(t) == /\ At(t, "get_num")
             /\ op' = [op EXCEPT ![t].ret = num]
             /\ Goto(t, "return")
             /\ UNCHANGED <<inst, heap, node, owner, history>>

-----------------------------------------------------------------------------
AddStep(t) == AddAlloc(t) \/ AddLock(t) \/ AddFill(t) \/ AddLink(t) \/ AddTail(t) \/ AddNum(t)
PopStep(t) == PopLock(t) \/ PopEmpty(t) \/ PopTake(t) \/ PopFree(t) \/ PopTail(t) \/ PopNum(t)
DelStep(t) == DelLock(t) \/ DelData(t) \/ DelNode(t) \/ DelTail(t) \/ DelNum(t)
Step(t) == AddStep(t) \/ PopStep(t) \/ DelStep(t) \/ GetNum(t) \/ Unlock(t) \/ Return(t)

Next == \E t \in Thread : CallAdd(t) \/ CallOther(t) \/ Step(t)

Spec == Init /\ [][Next]_vars

(* A thread inside a call keeps running; none has to make another call.    *)
(* The mutex is not fair, so a thread may wait at a lock for ever.         *)
FairSpec == Spec /\ \A t \in Thread : WF_vars(Step(t))

-----------------------------------------------------------------------------
(* Type correctness of the list instance, the heap and the callers.        *)
TypeOK == /\ head \in Node \cup {NULL}
          /\ tail \in Node \cup {NULL}
          /\ num \in Nat
          /\ mutex \in Thread \cup {NULL}
          /\ next \in [Node -> Node \cup {NULL}]
          /\ data \in [Node -> Data \cup {NULL}]
          /\ alloc \in SUBSET Node
          /\ pc \in [Thread -> Held \cup Free]
          /\ node \in [Thread -> Node \cup {NULL}]
          /\ op \in [Thread -> [call : Calls, datum : Data \cup {NULL}, ret : Int \cup {NULL}]]
          /\ owner \in [Data -> {"caller", "list", "popped", "freed"}]
          /\ chain \in Seq(Node)
          /\ queue \in Seq(Data)

(* Every address the list code is about to follow is an allocated node:    *)
(* the node an add has in hand and the tail it links it behind, the head a *)
(* pop or del_all takes.  Both pop and del_all free the node tail points   *)
(* to before they clear tail; only the mutex keeps an add from using it.   *)
NoDanglingAccess ==
  \A t \in Thread :
    /\ At(t, "add_link") => node[t] \in alloc /\ (head # NULL => tail \in alloc)
    /\ At(t, "add_tail") => node[t] \in alloc
    /\ (pc[t] \in {"pop_check", "del_loop"} /\ head # NULL) => head \in alloc
    /\ (pc[t] \in {"pop_free", "del_unlink"}) => node[t] \in alloc

(* While nobody is inside the list, following head gives exactly the data  *)
(* that was added and not yet taken, oldest first, tail is the last node   *)
(* and num their count: what mds_api_list_add, _pop and _del_all leave     *)
(* behind is what the next caller expects to find.                         *)
QuietListIsQueue ==
  mutex = NULL =>
    /\ num = Len(queue)
    /\ Len(chain) = Len(queue)
    /\ \A i \in 1..Len(chain) : /\ data[chain[i]] = queue[i]
                                /\ next[chain[i]] = IF i = Len(chain) THEN NULL ELSE chain[i + 1]
    /\ head = IF chain = <<>> THEN NULL ELSE chain[1]
    /\ tail = IF chain = <<>> THEN NULL ELSE chain[Len(chain)]

(* A data pointer is freed by del_all only while the list owns it: one     *)
(* that pop has taken out, or that was freed before, is never freed.       *)
NoDoubleFree == \A t \in Thread : (At(t, "del_loop") /\ head # NULL) => owner[data[head]] = "list"

(* The list implements the atomic queue: every call, get_num included,     *)
(* appears to take effect at once, at its write or read of num.            *)
Done(t) == op[t].ret # NULL
AbstractOp(t) == [op[t] EXCEPT !.datum = IF op[t].call = "pop" /\ ~Done(t) THEN NULL ELSE @]
AOp == [t \in Thread |-> AbstractOp(t)]
Queue == INSTANCE MdsQueue WITH op <- AOp
ImplementsQueue == Queue!Spec

(* Whoever is inside the list comes out again: the loop of del_all ends    *)
(* and no path forgets to unlock.                                          *)
MutexIsReleased == \A t \in Thread : mutex = t ~> mutex # t
=============================================================================
