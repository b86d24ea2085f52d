---------------------------- MODULE MdsListProofs ----------------------------
(***************************************************************************)
(* Proofs about MdsList for every set of threads, addresses and data: the  *)
(* inductive invariant, the safety properties that follow from it, that    *)
(* every step of the pointer program is a step of the queue, and who owns  *)
(* the data.                                                               *)
(***************************************************************************)
EXTENDS MdsList, TLAPS

(* Where the thread inside the list is; "unlock" also when there is none,  *)
(* since the list is whole again by then.                                  *)
Phase == IF mutex = NULL THEN "unlock" ELSE pc[mutex]

Whole == {"unlock", "add_fill", "add_link", "pop_check"}

(* Holding the mutex and being between lock and unlock are the same.       *)
MutexInv == \A t \in Thread : pc[t] \in Held <=> mutex = t

(* A thread's place agrees with the call it is in, and the call has its    *)
(* result exactly from the write of num on.                                *)
CallInv ==
  \A t \in Thread :
    /\ pc[t] = "idle" <=> op[t].call = "none"
    /\ pc[t] \in {"add_alloc", "add_lock"} \cup AddHeld => op[t].call = "add"
    /\ pc[t] \in {"pop_lock"} \cup PopHeld => op[t].call = "pop"
    /\ pc[t] \in {"del_lock"} \cup DelHeld => op[t].call = "del_all"
    /\ pc[t] = "get_num" => op[t].call = "get_num"
    /\ pc[t] \in {"unlock", "return"} <=> op[t].ret # NULL
    /\ pc[t] \in {"idle", "pop_lock", "pop_check"} => op[t].datum = NULL
    /\ op[t].call = "add" => op[t].datum \in Data
    /\ op[t].call \notin {"add", "pop"} => op[t].datum = NULL

Linked == {chain[i] : i \in 1..Len(chain)}
InHand(t) == pc[t] \in {"add_lock", "add_fill", "add_link", "pop_free"}

(* A node that one thread is about to link or free is allocated, is not    *)
(* reachable from head, and no other thread has it.                        *)
HandInv ==
  \A t \in Thread :
    /\ InHand(t) => /\ node[t] \in alloc
                    /\ node[t] \notin Linked
                    /\ \A u \in Thread : InHand(u) /\ u # t => node[u] # node[t]
    /\ pc[t] = "add_link" => next[node[t]] = NULL /\ data[node[t]] = op[t].datum
    /\ pc[t] = "del_unlink" => node[t] = head /\ head # NULL

(* The nodes reachable from head are allocated, distinct and in the order  *)
(* of chain.                                                               *)
ShapeInv ==
  /\ head = IF chain = <<>> THEN NULL ELSE chain[1]
  /\ \A i \in 1..Len(chain) : chain[i] \in alloc
  /\ \A i \in 1..Len(chain) : next[chain[i]] = IF i = Len(chain) THEN NULL ELSE chain[i + 1]
  /\ \A i, j \in 1..Len(chain) : chain[i] = chain[j] => i = j

(* How the linked nodes and tail relate to the queue, by phase.            *)
ContentInv ==
  /\ num = Len(queue)
  /\ Phase \in Whole =>
       /\ Len(chain) = Len(queue)
       /\ \A i \in 1..Len(chain) : data[chain[i]] = queue[i]
       /\ tail = IF chain = <<>> THEN NULL ELSE chain[Len(chain)]
  /\ Phase \in {"add_tail", "add_num"} =>
       /\ Len(chain) = Len(queue) + 1
       /\ \A i \in 1..Len(queue) : data[chain[i]] = queue[i]
       /\ chain[Len(chain)] = node[mutex]
       /\ data[node[mutex]] = op[mutex].datum
  /\ Phase = "add_num" => tail = node[mutex]
  /\ Phase \in {"pop_free", "pop_tail", "pop_num"} =>
       /\ Len(queue) = Len(chain) + 1
       /\ op[mutex].datum = queue[1]
       /\ \A i \in 1..Len(chain) : data[chain[i]] = queue[i + 1]
       /\ chain # <<>> => tail = chain[Len(chain)]
  /\ Phase = "pop_num" => (chain = <<>> => tail = NULL)
  /\ Phase = "del_num" => chain = <<>> /\ tail = NULL

IInv == TypeOK /\ MutexInv /\ CallInv /\ HandInv /\ ShapeInv /\ ContentInv
-----------------------------------------------------------------------------
(* IInv is preserved by every step. *)
LEMMA InitInv == Init => IInv
  BY NullAssumption DEF Init, IInv, TypeOK, MutexInv, CallInv, HandInv, ShapeInv, ContentInv,
     Idle, InCall, Calls, Held, Free, AddHeld, PopHeld, DelHeld, Phase, Whole, Linked, InHand

LEMMA CallAddInv ==
  ASSUME IInv, NEW t \in Thread, CallAdd(t) PROVE IInv'
<1> USE NullAssumption DEF IInv
<1>1. TypeOK'
  <2>1. PICK d \in Data : /\ owner' = [owner EXCEPT ![d] = "list"]
                          /\ op' = [op EXCEPT ![t] = InCall("add", d)]
    BY DEF CallAdd
  <2>3. op' \in [Thread -> [call : Calls, datum : Data \cup {NULL}, ret : Int \cup {NULL}]]
    BY <2>1 DEF TypeOK, Calls, InCall
  <2>4. owner' \in [Data -> {"caller", "list", "popped", "freed"}]
    BY <2>1 DEF TypeOK
  <2>5. QED
    BY <2>3, <2>4 DEF CallAdd, TypeOK, Goto, Held, Free, inst, heap, history
<1>2. MutexInv'
  BY DEF CallAdd, TypeOK, MutexInv, Goto, At, Held, Free, AddHeld, PopHeld, DelHeld, inst, heap, history
<1>3. CallInv'
  BY DEF CallAdd, TypeOK, MutexInv, CallInv, Goto, At, Idle, InCall, Calls, Held, Free, AddHeld, PopHeld, DelHeld, inst, heap, history
<1>4. HandInv'
  BY DEF CallAdd, TypeOK, MutexInv, CallInv, HandInv, ShapeInv, InHand, Linked, Goto, At, Held, Free, AddHeld, PopHeld, DelHeld, inst, heap, history
<1>5. ShapeInv'
  BY DEF CallAdd, TypeOK, MutexInv, HandInv, ShapeInv, InHand, Linked, Goto, At, Held, Free, AddHeld, PopHeld, DelHeld, inst, heap, history
<1>6. ContentInv'
  BY DEF CallAdd, TypeOK, MutexInv, CallInv, HandInv, ShapeInv, ContentInv, InHand, Linked, Phase, Whole, Goto, At, Held, Free, AddHeld, PopHeld, DelHeld, inst, heap, history
<1>7. QED
  BY <1>1, <1>2, <1>3, <1>4, <1>5, <1>6

LEMMA CallOtherInv ==
  ASSUME IInv, NEW t \in Thread, CallOther(t) PROVE IInv'
<1> USE NullAssumption DEF IInv
<1>1. TypeOK'
  BY DEF CallOther, TypeOK, MutexInv, CallInv, HandInv, ShapeInv, ContentInv, Goto, At, Idle, InCall, Calls, Held, Free, AddHeld, PopHeld, DelHeld, inst, heap, history, Phase
<1>2. MutexInv'
  BY DEF CallOther, TypeOK, MutexInv, Goto, At, Held, Free, AddHeld, PopHeld, DelHeld, inst, heap, history
<1>3. CallInv'
  BY DEF CallOther, TypeOK, MutexInv, CallInv, Goto, At, Idle, InCall, Calls, Held, Free, AddHeld, PopHeld, DelHeld, inst, heap, history
<1>4. HandInv'
  BY DEF CallOther, TypeOK, MutexInv, CallInv, HandInv, ShapeInv, InHand, Linked, Goto, At, Held, Free, AddHeld, PopHeld, DelHeld, inst, heap, history
<1>5. ShapeInv'
  BY DEF CallOther, TypeOK, MutexInv, HandInv, ShapeInv, InHand, Linked, Goto, At, Held, Free, AddHeld, PopHeld, DelHeld, inst, heap, history
<1>6. ContentInv'
  BY DEF CallOther, TypeOK, MutexInv, CallInv, HandInv, ShapeInv, ContentInv, InHand, Linked, Phase, Whole, Goto, At, Held, Free, AddHeld, PopHeld, DelHeld, inst, heap, history
<1>7. QED
  BY <1>1, <1>2, <1>3, <1>4, <1>5, <1>6

LEMMA ReturnInv ==
  ASSUME IInv, NEW t \in Thread, Return(t) PROVE IInv'
<1> USE NullAssumption DEF IInv
<1>1. TypeOK'
  BY DEF Return, TypeOK, MutexInv, CallInv, HandInv, ShapeInv, ContentInv, Goto, At, Idle, InCall, Calls, Held, Free, AddHeld, PopHeld, DelHeld, inst, heap, history, Phase
<1>2. MutexInv'
  BY DEF Return, TypeOK, MutexInv, Goto, At, Held, Free, AddHeld, PopHeld, DelHeld, inst, heap, history
<1>3. CallInv'
  BY DEF Return, TypeOK, MutexInv, CallInv, Goto, At, Idle, InCall, Calls, Held, Free, AddHeld, PopHeld, DelHeld, inst, heap, history
<1>4. HandInv'
  BY DEF Return, TypeOK, MutexInv, CallInv, HandInv, ShapeInv, InHand, Linked, Goto, At, Held, Free, AddHeld, PopHeld, DelHeld, inst, heap, history
<1>5. ShapeInv'
  BY DEF Return, TypeOK, MutexInv, HandInv, ShapeInv, InHand, Linked, Goto, At, Held, Free, AddHeld, PopHeld, DelHeld, inst, heap, history
<1>6. ContentInv'
  BY DEF Return, TypeOK, MutexInv, CallInv, HandInv, ShapeInv, ContentInv, InHand, Linked, Phase, Whole, Goto, At, Held, Free, AddHeld, PopHeld, DelHeld, inst, heap, history
<1>7. QED
  BY <1>1, <1>2, <1>3, <1>4, <1>5, <1>6

LEMMA AddAllocInv ==
  ASSUME IInv, NEW t \in Thread, AddAlloc(t) PROVE IInv'
<1> USE NullAssumption DEF IInv
<1>1. TypeOK'
  <2>1. CASE op' = op /\ pc' = [pc EXCEPT ![t] = "add_lock"]
    BY <2>1 DEF AddAlloc, TypeOK, Free, inst, history
  <2>2. CASE op' = [op EXCEPT ![t].ret = -1] /\ pc' = [pc EXCEPT ![t] = "return"] /\ UNCHANGED <<alloc, node>>
    <3>1. op' \in [Thread -> [call : Calls, datum : Data \cup {NULL}, ret : Int \cup {NULL}]]
      BY <2>2 DEF TypeOK
    <3>2. QED
      BY <2>2, <3>1 DEF AddAlloc, TypeOK, Free, inst, history
  <2>3. QED
    BY <2>1, <2>2 DEF AddAlloc, Goto
<1>2. MutexInv'
  BY DEF AddAlloc, TypeOK, MutexInv, Goto, At, Held, Free, AddHeld, PopHeld, DelHeld, inst, heap, history
<1>3. CallInv'
  <2>1. CASE op' = op /\ pc' = [pc EXCEPT ![t] = "add_lock"]
    BY <2>1 DEF AddAlloc, TypeOK, CallInv, At, AddHeld, PopHeld, DelHeld
  <2>2. CASE op' = [op EXCEPT ![t].ret = -1] /\ pc' = [pc EXCEPT ![t] = "return"]
    BY <2>2 DEF AddAlloc, TypeOK, CallInv, At, AddHeld, PopHeld, DelHeld
  <2>3. QED
    BY <2>1, <2>2 DEF AddAlloc, Goto
<1>4. HandInv'
  <2>2. Linked' = Linked /\ Linked \subseteq alloc
    BY DEF AddAlloc, Linked, ShapeInv, inst, history
  <2>3. CASE \E n \in Node \ alloc : /\ alloc' = alloc \cup {n} /\ node' = [node EXCEPT ![t] = n]
                                    /\ pc' = [pc EXCEPT ![t] = "add_lock"] /\ op' = op
    <3>1. PICK n \in Node \ alloc : alloc' = alloc \cup {n} /\ node' = [node EXCEPT ![t] = n]
      BY <2>3
    <3>2. /\ node'[t] = n /\ pc'[t] = "add_lock"
          /\ \A u \in Thread : u # t => node'[u] = node[u] /\ pc'[u] = pc[u]
      BY <2>3, <3>1 DEF TypeOK
    <3>3. \A u \in Thread : u # t /\ InHand(u)' => InHand(u) /\ node[u] # n
      BY <3>1, <3>2 DEF HandInv, InHand
    <3>4. UNCHANGED <<next, data, head, op>>
      BY <2>3 DEF AddAlloc, inst
    <3>5. QED
      BY <2>2, <3>1, <3>2, <3>3, <3>4 DEF HandInv, InHand
  <2>4. CASE alloc' = alloc /\ node' = node /\ pc' = [pc EXCEPT ![t] = "return"] /\ op' = [op EXCEPT ![t].ret = -1]
    <3>1. /\ pc'[t] = "return"
          /\ \A u \in Thread : u # t => op'[u] = op[u] /\ pc'[u] = pc[u]
      BY <2>4 DEF TypeOK
    <3>2. UNCHANGED <<next, data, head>>
      BY DEF AddAlloc, inst
    <3>3. QED
      BY <2>2, <2>4, <3>1, <3>2 DEF HandInv, InHand
  <2>5. QED
    BY <2>3, <2>4 DEF AddAlloc, Goto
<1>5. ShapeInv'
  BY DEF AddAlloc, TypeOK, MutexInv, HandInv, ShapeInv, InHand, Linked, Goto, At, Held, Free, AddHeld, PopHeld, DelHeld, inst, heap, history
<1>6. ContentInv'
  BY DEF AddAlloc, TypeOK, MutexInv, CallInv, HandInv, ShapeInv, ContentInv, InHand, Linked, Phase, Whole, Goto, At, Held, Free, AddHeld, PopHeld, DelHeld, inst, heap, history
<1>7. QED
  BY <1>1, <1>2, <1>3, <1>4, <1>5, <1>6

LEMMA AddLockInv ==
  ASSUME IInv, NEW t \in Thread, AddLock(t) PROVE IInv'
<1> USE NullAssumption DEF IInv
<1>1. TypeOK'
  BY DEF AddLock, Lock, TypeOK, MutexInv, CallInv, HandInv, ShapeInv, ContentInv, Goto, At, Idle, InCall, Calls, Held, Free, AddHeld, PopHeld, DelHeld, inst, heap, history, Phase
<1>2. MutexInv'
  BY DEF AddLock, Lock, TypeOK, MutexInv, Goto, At, Held, Free, AddHeld, PopHeld, DelHeld, inst, heap, history
<1>3. CallInv'
  BY DEF AddLock, Lock, TypeOK, MutexInv, CallInv, Goto, At, Idle, InCall, Calls, Held, Free, AddHeld, PopHeld, DelHeld, inst, heap, history
<1>4. HandInv'
  BY DEF AddLock, Lock, TypeOK, MutexInv, CallInv, HandInv, ShapeInv, InHand, Linked, Goto, At, Held, Free, AddHeld, PopHeld, DelHeld, inst, heap, history
<1>5. ShapeInv'
  BY DEF AddLock, Lock, TypeOK, MutexInv, HandInv, ShapeInv, InHand, Linked, Goto, At, Held, Free, AddHeld, PopHeld, DelHeld, inst, heap, history
<1>6. ContentInv'
  BY DEF AddLock, Lock, TypeOK, MutexInv, CallInv, HandInv, ShapeInv, ContentInv, InHand, Linked, Phase, Whole, Goto, At, Held, Free, AddHeld, PopHeld, DelHeld, inst, heap, history
<1>7. QED
  BY <1>1, <1>2, <1>3, <1>4, <1>5, <1>6

LEMMA AddFillInv ==
  ASSUME IInv, NEW t \in Thread, AddFill(t) PROVE IInv'
<1> USE NullAssumption DEF IInv
<1>1. TypeOK'
  BY DEF AddFill, TypeOK, MutexInv, CallInv, HandInv, ShapeInv, ContentInv, Goto, At, Idle, InCall, Calls, Held, Free, AddHeld, PopHeld, DelHeld, inst, heap, history, Phase
<1>2. MutexInv'
  BY DEF AddFill, TypeOK, MutexInv, Goto, At, Held, Free, AddHeld, PopHeld, DelHeld, inst, heap, history
<1>3. CallInv'
  BY DEF AddFill, TypeOK, MutexInv, CallInv, Goto, At, Idle, InCall, Calls, Held, Free, AddHeld, PopHeld, DelHeld, inst, heap, history
<1>4. HandInv'
  BY DEF AddFill, TypeOK, MutexInv, CallInv, HandInv, ShapeInv, InHand, Linked, Goto, At, Held, Free, AddHeld, PopHeld, DelHeld, inst, heap, history
<1>5. ShapeInv'
  BY DEF AddFill, TypeOK, MutexInv, HandInv, ShapeInv, InHand, Linked, Goto, At, Held, Free, AddHeld, PopHeld, DelHeld, inst, heap, history
<1>6. ContentInv'
  BY DEF AddFill, TypeOK, MutexInv, CallInv, HandInv, ShapeInv, ContentInv, InHand, Linked, Phase, Whole, Goto, At, Held, Free, AddHeld, PopHeld, DelHeld, inst, heap, history
<1>7. QED
  BY <1>1, <1>2, <1>3, <1>4, <1>5, <1>6

LEMMA AddLinkInv ==
  ASSUME IInv, NEW t \in Thread, AddLink(t) PROVE IInv'
<1> USE NullAssumption DEF IInv
<1>1. TypeOK'
  <2>1. chain' \in Seq(Node)
    BY DEF AddLink, TypeOK, HandInv, InHand, At
  <2>2. head' \in Node \cup {NULL} /\ next' \in [Node -> Node \cup {NULL}]
    BY DEF AddLink, TypeOK, HandInv, InHand, At
  <2>3. QED
    BY <2>1, <2>2 DEF AddLink, TypeOK, Goto, Held, AddHeld
<1>2. MutexInv'
  BY DEF AddLink, TypeOK, MutexInv, Goto, At, Held, Free, AddHeld, PopHeld, DelHeld, inst, heap, history
<1>3. CallInv'
  BY DEF AddLink, TypeOK, MutexInv, CallInv, Goto, At, Idle, InCall, Calls, Held, Free, AddHeld, PopHeld, DelHeld, inst, heap, history
<1>4. HandInv'
  BY DEF AddLink, TypeOK, MutexInv, CallInv, HandInv, ShapeInv, InHand, Linked, Goto, At, Held, Free, AddHeld, PopHeld, DelHeld, inst, heap, history
<1>5. ShapeInv'
  <2> DEFINE n == node[t]  k == Len(chain)
  <2>1. /\ pc[t] = "add_link" /\ mutex = t /\ Phase = "add_link" /\ k \in Nat
        /\ n \in alloc /\ n \in Node /\ n \notin Linked /\ next[n] = NULL
    BY DEF AddLink, At, TypeOK, MutexInv, HandInv, InHand, Phase, Held, AddHeld
  <2>2. /\ chain' = Append(chain, n) /\ Len(chain') = k + 1 /\ chain'[k + 1] = n /\ chain' # <<>>
        /\ \A i \in 1..k : chain'[i] = chain[i] /\ chain[i] # n
    BY <2>1 DEF AddLink, TypeOK, Linked
  <2>3. tail = IF chain = <<>> THEN NULL ELSE chain[k]
    BY <2>1 DEF ContentInv, Whole
  <2>4. CASE chain = <<>>
    BY <2>1, <2>2, <2>4 DEF AddLink, ShapeInv
  <2>5. CASE chain # <<>>
    <3>1. head = chain[1] /\ head # NULL /\ tail = chain[k] /\ k >= 1
      BY <2>3, <2>5 DEF ShapeInv, TypeOK
    <3>2. head' = head /\ next' = [next EXCEPT ![chain[k]] = n] /\ alloc' = alloc
      BY <3>1 DEF AddLink
    <3>3. \A i \in 1..k : chain[i] \in Node
      BY DEF TypeOK
    <3>4. \A i \in 1..k : next'[chain[i]] = IF i = k THEN n ELSE chain[i + 1]
      BY <3>1, <3>2, <3>3 DEF ShapeInv, TypeOK
    <3>5. next'[n] = NULL
      BY <2>1, <2>2, <3>1, <3>2 DEF TypeOK
    <3>6. \A i \in 1..(k + 1) : next'[chain'[i]] = IF i = k + 1 THEN NULL ELSE chain'[i + 1]
      BY <2>2, <3>4, <3>5, <3>1
    <3>7. \A i, j \in 1..(k + 1) : chain'[i] = chain'[j] => i = j
      BY <2>2 DEF ShapeInv
    <3>8. \A i \in 1..(k + 1) : chain'[i] \in alloc'
      BY <2>1, <2>2, <3>2 DEF ShapeInv
    <3>9. QED
      BY <2>2, <3>1, <3>2, <3>6, <3>7, <3>8 DEF ShapeInv
  <2>6. QED
    BY <2>4, <2>5
<1>6. ContentInv'
  BY DEF AddLink, TypeOK, MutexInv, CallInv, HandInv, ShapeInv, ContentInv, InHand, Linked, Phase, Whole, Goto, At, Held, Free, AddHeld, PopHeld, DelHeld, inst, heap, history
<1>7. QED
  BY <1>1, <1>2, <1>3, <1>4, <1>5, <1>6

LEMMA AddTailInv ==
  ASSUME IInv, NEW t \in Thread, AddTail(t) PROVE IInv'
<1> USE NullAssumption DEF IInv
<1>1. TypeOK'
  BY DEF AddTail, TypeOK, MutexInv, CallInv, HandInv, ShapeInv, ContentInv, Goto, At, Idle, InCall, Calls, Held, Free, AddHeld, PopHeld, DelHeld, inst, heap, history, Phase
<1>2. MutexInv'
  BY DEF AddTail, TypeOK, MutexInv, Goto, At, Held, Free, AddHeld, PopHeld, DelHeld, inst, heap, history
<1>3. CallInv'
  BY DEF AddTail, TypeOK, MutexInv, CallInv, Goto, At, Idle, InCall, Calls, Held, Free, AddHeld, PopHeld, DelHeld, inst, heap, history
<1>4. HandInv'
  BY DEF AddTail, TypeOK, MutexInv, CallInv, HandInv, ShapeInv, InHand, Linked, Goto, At, Held, Free, AddHeld, PopHeld, DelHeld, inst, heap, history
<1>5. ShapeInv'
  BY DEF AddTail, TypeOK, MutexInv, HandInv, ShapeInv, InHand, Linked, Goto, At, Held, Free, AddHeld, PopHeld, DelHeld, inst, heap, history
<1>6. ContentInv'
  BY DEF AddTail, TypeOK, MutexInv, CallInv, HandInv, ShapeInv, ContentInv, InHand, Linked, Phase, Whole, Goto, At, Held, Free, AddHeld, PopHeld, DelHeld, inst, heap, history
<1>7. QED
  BY <1>1, <1>2, <1>3, <1>4, <1>5, <1>6

LEMMA AddNumInv ==
  ASSUME IInv, NEW t \in Thread, AddNum(t) PROVE IInv'
<1> USE NullAssumption DEF IInv
<1>1. TypeOK'
  BY DEF AddNum, TypeOK, MutexInv, CallInv, HandInv, ShapeInv, ContentInv, Goto, At, Idle, InCall, Calls, Held, Free, AddHeld, PopHeld, DelHeld, inst, heap, history, Phase
<1>2. MutexInv'
  BY DEF AddNum, TypeOK, MutexInv, Goto, At, Held, Free, AddHeld, PopHeld, DelHeld, inst, heap, history
<1>3. CallInv'
  BY DEF AddNum, TypeOK, MutexInv, CallInv, Goto, At, Idle, InCall, Calls, Held, Free, AddHeld, PopHeld, DelHeld, inst, heap, history
<1>4. HandInv'
  BY DEF AddNum, TypeOK, MutexInv, CallInv, HandInv, ShapeInv, InHand, Linked, Goto, At, Held, Free, AddHeld, PopHeld, DelHeld, inst, heap, history
<1>5. ShapeInv'
  BY DEF AddNum, TypeOK, MutexInv, HandInv, ShapeInv, InHand, Linked, Goto, At, Held, Free, AddHeld, PopHeld, DelHeld, inst, heap, history
<1>6. ContentInv'
  BY DEF AddNum, TypeOK, MutexInv, CallInv, HandInv, ShapeInv, ContentInv, InHand, Linked, Phase, Whole, Goto, At, Held, Free, AddHeld, PopHeld, DelHeld, inst, heap, history
<1>7. QED
  BY <1>1, <1>2, <1>3, <1>4, <1>5, <1>6

LEMMA UnlockInv ==
  ASSUME IInv, NEW t \in Thread, Unlock(t) PROVE IInv'
<1> USE NullAssumption DEF IInv
<1>1. TypeOK'
  BY DEF Unlock, TypeOK, MutexInv, CallInv, HandInv, ShapeInv, ContentInv, Goto, At, Idle, InCall, Calls, Held, Free, AddHeld, PopHeld, DelHeld, inst, heap, history, Phase
<1>2. MutexInv'
  BY DEF Unlock, TypeOK, MutexInv, Goto, At, Held, Free, AddHeld, PopHeld, DelHeld, inst, heap, history
<1>3. CallInv'
  BY DEF Unlock, TypeOK, MutexInv, CallInv, Goto, At, Idle, InCall, Calls, Held, Free, AddHeld, PopHeld, DelHeld, inst, heap, history
<1>4. HandInv'
  BY DEF Unlock, TypeOK, MutexInv, CallInv, HandInv, ShapeInv, InHand, Linked, Goto, At, Held, Free, AddHeld, PopHeld, DelHeld, inst, heap, history
<1>5. ShapeInv'
  BY DEF Unlock, TypeOK, MutexInv, HandInv, ShapeInv, InHand, Linked, Goto, At, Held, Free, AddHeld, PopHeld, DelHeld, inst, heap, history
<1>6. ContentInv'
  BY DEF Unlock, TypeOK, MutexInv, CallInv, HandInv, ShapeInv, ContentInv, InHand, Linked, Phase, Whole, Goto, At, Held, Free, AddHeld, PopHeld, DelHeld, inst, heap, history
<1>7. QED
  BY <1>1, <1>2, <1>3, <1>4, <1>5, <1>6

LEMMA PopLockInv ==
  ASSUME IInv, NEW t \in Thread, PopLock(t) PROVE IInv'
<1> USE NullAssumption DEF IInv
<1>1. TypeOK'
  BY DEF PopLock, Lock, TypeOK, MutexInv, CallInv, HandInv, ShapeInv, ContentInv, Goto, At, Idle, InCall, Calls, Held, Free, AddHeld, PopHeld, DelHeld, inst, heap, history, Phase
<1>2. MutexInv'
  BY DEF PopLock, Lock, TypeOK, MutexInv, Goto, At, Held, Free, AddHeld, PopHeld, DelHeld, inst, heap, history
<1>3. CallInv'
  BY DEF PopLock, Lock, TypeOK, MutexInv, CallInv, Goto, At, Idle, InCall, Calls, Held, Free, AddHeld, PopHeld, DelHeld, inst, heap, history
<1>4. HandInv'
  BY DEF PopLock, Lock, TypeOK, MutexInv, CallInv, HandInv, ShapeInv, InHand, Linked, Goto, At, Held, Free, AddHeld, PopHeld, DelHeld, inst, heap, history
<1>5. ShapeInv'
  BY DEF PopLock, Lock, TypeOK, MutexInv, HandInv, ShapeInv, InHand, Linked, Goto, At, Held, Free, AddHeld, PopHeld, DelHeld, inst, heap, history
<1>6. ContentInv'
  BY DEF PopLock, Lock, TypeOK, MutexInv, CallInv, HandInv, ShapeInv, ContentInv, InHand, Linked, Phase, Whole, Goto, At, Held, Free, AddHeld, PopHeld, DelHeld, inst, heap, history
<1>7. QED
  BY <1>1, <1>2, <1>3, <1>4, <1>5, <1>6

LEMMA PopEmptyInv ==
  ASSUME IInv, NEW t \in Thread, PopEmpty(t) PROVE IInv'
<1> USE NullAssumption DEF IInv
<1>1. TypeOK'
  BY DEF PopEmpty, TypeOK, MutexInv, CallInv, HandInv, ShapeInv, ContentInv, Goto, At, Idle, InCall, Calls, Held, Free, AddHeld, PopHeld, DelHeld, inst, heap, history, Phase
<1>2. MutexInv'
  BY DEF PopEmpty, TypeOK, MutexInv, Goto, At, Held, Free, AddHeld, PopHeld, DelHeld, inst, heap, history
<1>3. CallInv'
  BY DEF PopEmpty, TypeOK, MutexInv, CallInv, Goto, At, Idle, InCall, Calls, Held, Free, AddHeld, PopHeld, DelHeld, inst, heap, history
<1>4. HandInv'
  BY DEF PopEmpty, TypeOK, MutexInv, CallInv, HandInv, ShapeInv, InHand, Linked, Goto, At, Held, Free, AddHeld, PopHeld, DelHeld, inst, heap, history
<1>5. ShapeInv'
  BY DEF PopEmpty, TypeOK, MutexInv, HandInv, ShapeInv, InHand, Linked, Goto, At, Held, Free, AddHeld, PopHeld, DelHeld, inst, heap, history
<1>6. ContentInv'
  BY DEF PopEmpty, TypeOK, MutexInv, CallInv, HandInv, ShapeInv, ContentInv, InHand, Linked, Phase, Whole, Goto, At, Held, Free, AddHeld, PopHeld, DelHeld, inst, heap, history
<1>7. QED
  BY <1>1, <1>2, <1>3, <1>4, <1>5, <1>6

LEMMA PopTakeInv ==
  ASSUME IInv, NEW t \in Thread, PopTake(t) PROVE IInv'
<1> USE NullAssumption DEF IInv
<1>1. TypeOK'
  <2>1. /\ chain \in Seq(Node) /\ chain # <<>> /\ Len(chain) \in Nat /\ Len(chain) >= 1
        /\ head = chain[1] /\ head \in Node /\ chain' = Tail(chain) /\ head' = next[head]
        /\ UNCHANGED <<next, data>>
    BY DEF PopTake, TypeOK, ShapeInv, HandInv, At, heap
  <2>2. /\ chain' \in Seq(Node) /\ Len(chain') = Len(chain) - 1
        /\ \A i \in 1..Len(chain') : chain'[i] = chain[i + 1]
    BY <2>1
  <2>3. op' \in [Thread -> [call : Calls, datum : Data \cup {NULL}, ret : Int \cup {NULL}]]
    <3>1. data[head] \in Data \cup {NULL}
      BY <2>1 DEF TypeOK
    <3>2. QED
      BY <3>1, SMTT(60) DEF PopTake, TypeOK
  <2>4. owner' \in [Data -> {"caller", "list", "popped", "freed"}]
    BY DEF PopTake, TypeOK
  <2>5. node' \in [Thread -> Node \cup {NULL}] /\ head' \in Node \cup {NULL}
    BY <2>1 DEF PopTake, TypeOK
  <2>6. QED
    BY <2>2, <2>3, <2>4, <2>5 DEF PopTake, TypeOK, Goto, Held, PopHeld, heap
<1>2. MutexInv'
  BY DEF PopTake, TypeOK, MutexInv, Goto, At, Held, Free, AddHeld, PopHeld, DelHeld, inst, heap, history
<1>3. CallInv'
  BY DEF PopTake, TypeOK, MutexInv, CallInv, Goto, At, Idle, InCall, Calls, Held, Free, AddHeld, PopHeld, DelHeld, inst, heap, history
<1>4. HandInv'
  <2>1. /\ chain \in Seq(Node) /\ chain # <<>> /\ Len(chain) \in Nat /\ Len(chain) >= 1
        /\ head = chain[1] /\ head \in Node /\ chain' = Tail(chain) /\ head' = next[head]
        /\ UNCHANGED <<next, data>>
    BY DEF PopTake, TypeOK, ShapeInv, HandInv, At, heap
  <2>2. /\ chain' \in Seq(Node) /\ Len(chain') = Len(chain) - 1
        /\ \A i \in 1..Len(chain') : chain'[i] = chain[i + 1]
    BY <2>1
  <2>3. head \in alloc /\ \A i \in 1..Len(chain') : chain'[i] # head
    <3>1. 1 \in 1..Len(chain) /\ \A i \in 1..Len(chain') : i + 1 \in 1..Len(chain) /\ i + 1 # 1
      BY <2>1, <2>2
    <3>2. \A i \in 1..Len(chain') : chain'[i] = chain[i + 1] /\ chain[i + 1] # chain[1]
      BY <2>2, <3>1 DEF ShapeInv
    <3>3. QED
      BY <2>1, <3>1, <3>2 DEF ShapeInv
  <2>4. Linked' \subseteq Linked /\ head \in Linked /\ head \notin Linked'
    BY <2>1, <2>2, <2>3 DEF Linked
  <2>5. /\ node' = [node EXCEPT ![t] = head] /\ pc' = [pc EXCEPT ![t] = "pop_free"] /\ alloc' = alloc
        /\ op' = [op EXCEPT ![t].datum = data[head]] /\ pc[t] = "pop_check" /\ mutex = t
    BY DEF PopTake, Goto, At, heap, MutexInv, Held, PopHeld
  <2>6. \A u \in Thread : u # t => /\ pc'[u] = pc[u] /\ node'[u] = node[u] /\ op'[u] = op[u]
                                   /\ pc[u] \notin {"del_unlink", "add_link", "pop_free"}
    BY <2>5 DEF TypeOK, MutexInv, Held, AddHeld, PopHeld, DelHeld
  <2>7. pc'[t] = "pop_free" /\ node'[t] = head
    BY <2>5 DEF TypeOK
  <2>8. \A u \in Thread : u # t /\ InHand(u)' => InHand(u) /\ node[u] # head
    BY <2>4, <2>6 DEF HandInv, InHand
  <2>9. QED
    BY <2>1, <2>3, <2>4, <2>5, <2>6, <2>7, <2>8 DEF HandInv, InHand
<1>5. ShapeInv'
  <2>1. /\ chain \in Seq(Node) /\ chain # <<>> /\ Len(chain) \in Nat /\ Len(chain) >= 1
        /\ head = chain[1] /\ head \in Node /\ chain' = Tail(chain) /\ head' = next[head]
        /\ UNCHANGED <<next, data>>
    BY DEF PopTake, TypeOK, ShapeInv, HandInv, At, heap
  <2>2. /\ chain' \in Seq(Node) /\ Len(chain') = Len(chain) - 1
        /\ \A i \in 1..Len(chain') : chain'[i] = chain[i + 1]
    BY <2>1
  <2>3. /\ \A i \in 1..Len(chain') : chain'[i] \in alloc'
        /\ \A i \in 1..Len(chain') : next'[chain'[i]] = IF i = Len(chain') THEN NULL ELSE chain'[i + 1]
        /\ \A i, j \in 1..Len(chain') : chain'[i] = chain'[j] => i = j
    BY <2>1, <2>2 DEF ShapeInv, PopTake, heap
  <2>4. head' = IF chain' = <<>> THEN NULL ELSE chain'[1]
    <3>1. next[chain[1]] = IF Len(chain) = 1 THEN NULL ELSE chain[2]
      <4>1. 1 \in 1..Len(chain) /\ 1 + 1 = 2 /\ (1 = Len(chain) <=> Len(chain) = 1)
        BY <2>1
      <4>2. next[chain[1]] = IF 1 = Len(chain) THEN NULL ELSE chain[1 + 1]
        BY <4>1 DEF ShapeInv
      <4>3. QED
        BY <4>1, <4>2
    <3>2. CASE Len(chain) = 1
      <4>1. chain' = <<>>
        BY <2>1, <2>2, <3>2
      <4>2. QED
        BY <2>1, <3>1, <3>2, <4>1
    <3>3. CASE Len(chain) # 1
      <4>1. chain' # <<>> /\ chain'[1] = chain[2]
        <5>1. Len(chain') >= 1 /\ 1 \in 1..Len(chain') /\ 1 + 1 = 2
          BY <2>1, <2>2, <3>3
        <5>2. QED
          BY <2>2, <5>1
      <4>2. QED
        BY <2>1, <3>1, <3>3, <4>1
    <3>4. QED
      BY <3>2, <3>3
  <2>5. QED
    BY <2>3, <2>4 DEF ShapeInv
<1>6. ContentInv'
  <2>1. /\ chain \in Seq(Node) /\ chain # <<>> /\ Len(chain) \in Nat /\ Len(chain) >= 1
        /\ head = chain[1] /\ head \in Node /\ chain' = Tail(chain) /\ head' = next[head]
        /\ UNCHANGED <<next, data>>
    BY DEF PopTake, TypeOK, ShapeInv, HandInv, At, heap
  <2>2. /\ chain' \in Seq(Node) /\ Len(chain') = Len(chain) - 1
        /\ \A i \in 1..Len(chain') : chain'[i] = chain[i + 1]
    BY <2>1
  <2>3. Phase = "pop_check" /\ mutex = t /\ mutex' = t /\ Phase' = "pop_free"
    BY NullAssumption DEF PopTake, At, Goto, MutexInv, Held, PopHeld, TypeOK, Phase
  <2>4. /\ Len(chain) = Len(queue)
        /\ \A i \in 1..Len(chain) : data[chain[i]] = queue[i]
        /\ tail = chain[Len(chain)]
    BY <2>1, <2>3 DEF ContentInv, Whole
  <2>5. op'[mutex'].datum = queue[1]
    BY <2>1, <2>3, <2>4 DEF PopTake, TypeOK
  <2>6. \A i \in 1..Len(chain') : data[chain'[i]] = queue[i + 1]
    BY <2>1, <2>2, <2>4
  <2>7. chain' # <<>> => tail = chain'[Len(chain')]
    BY <2>1, <2>2, <2>4
  <2>8. queue' = queue /\ num' = num /\ tail' = tail
    BY DEF PopTake
  <2>9. QED
    BY <2>1, <2>2, <2>3, <2>4, <2>5, <2>6, <2>7, <2>8 DEF ContentInv, Whole
<1>7. QED
  BY <1>1, <1>2, <1>3, <1>4, <1>5, <1>6

LEMMA PopFreeInv ==
  ASSUME IInv, NEW t \in Thread, PopFree(t) PROVE IInv'
<1> USE NullAssumption DEF IInv
<1>1. TypeOK'
  BY DEF PopFree, TypeOK, MutexInv, CallInv, HandInv, ShapeInv, ContentInv, Goto, At, Idle, InCall, Calls, Held, Free, AddHeld, PopHeld, DelHeld, inst, heap, history, Phase
<1>2. MutexInv'
  BY DEF PopFree, TypeOK, MutexInv, Goto, At, Held, Free, AddHeld, PopHeld, DelHeld, inst, heap, history
<1>3. CallInv'
  BY DEF PopFree, TypeOK, MutexInv, CallInv, Goto, At, Idle, InCall, Calls, Held, Free, AddHeld, PopHeld, DelHeld, inst, heap, history
<1>4. HandInv'
  BY DEF PopFree, TypeOK, MutexInv, CallInv, HandInv, ShapeInv, InHand, Linked, Goto, At, Held, Free, AddHeld, PopHeld, DelHeld, inst, heap, history
<1>5. ShapeInv'
  BY DEF PopFree, TypeOK, MutexInv, HandInv, ShapeInv, InHand, Linked, Goto, At, Held, Free, AddHeld, PopHeld, DelHeld, inst, heap, history
<1>6. ContentInv'
  BY DEF PopFree, TypeOK, MutexInv, CallInv, HandInv, ShapeInv, ContentInv, InHand, Linked, Phase, Whole, Goto, At, Held, Free, AddHeld, PopHeld, DelHeld, inst, heap, history
<1>7. QED
  BY <1>1, <1>2, <1>3, <1>4, <1>5, <1>6

LEMMA PopTailInv ==
  ASSUME IInv, NEW t \in Thread, PopTail(t) PROVE IInv'
<1> USE NullAssumption DEF IInv
<1>1. TypeOK'
  BY DEF PopTail, TypeOK, MutexInv, CallInv, HandInv, ShapeInv, ContentInv, Goto, At, Idle, InCall, Calls, Held, Free, AddHeld, PopHeld, DelHeld, inst, heap, history, Phase
<1>2. MutexInv'
  BY DEF PopTail, TypeOK, MutexInv, Goto, At, Held, Free, AddHeld, PopHeld, DelHeld, inst, heap, history
<1>3. CallInv'
  BY DEF PopTail, TypeOK, MutexInv, CallInv, Goto, At, Idle, InCall, Calls, Held, Free, AddHeld, PopHeld, DelHeld, inst, heap, history
<1>4. HandInv'
  BY DEF PopTail, TypeOK, MutexInv, CallInv, HandInv, ShapeInv, InHand, Linked, Goto, At, Held, Free, AddHeld, PopHeld, DelHeld, inst, heap, history
<1>5. ShapeInv'
  BY DEF PopTail, TypeOK, MutexInv, HandInv, ShapeInv, InHand, Linked, Goto, At, Held, Free, AddHeld, PopHeld, DelHeld, inst, heap, history
<1>6. ContentInv'
  BY DEF PopTail, TypeOK, MutexInv, CallInv, HandInv, ShapeInv, ContentInv, InHand, Linked, Phase, Whole, Goto, At, Held, Free, AddHeld, PopHeld, DelHeld, inst, heap, history
<1>7. QED
  BY <1>1, <1>2, <1>3, <1>4, <1>5, <1>6

LEMMA PopNumInv ==
  ASSUME IInv, NEW t \in Thread, PopNum(t) PROVE IInv'
<1> USE NullAssumption DEF IInv
<1>1. TypeOK'
  BY DEF PopNum, TypeOK, MutexInv, CallInv, HandInv, ShapeInv, ContentInv, Goto, At, Idle, InCall, Calls, Held, Free, AddHeld, PopHeld, DelHeld, inst, heap, history, Phase
<1>2. MutexInv'
  BY DEF PopNum, TypeOK, MutexInv, Goto, At, Held, Free, AddHeld, PopHeld, DelHeld, inst, heap, history
<1>3. CallInv'
  BY DEF PopNum, TypeOK, MutexInv, CallInv, Goto, At, Idle, InCall, Calls, Held, Free, AddHeld, PopHeld, DelHeld, inst, heap, history
<1>4. HandInv'
  BY DEF PopNum, TypeOK, MutexInv, CallInv, HandInv, ShapeInv, InHand, Linked, Goto, At, Held, Free, AddHeld, PopHeld, DelHeld, inst, heap, history
<1>5. ShapeInv'
  BY DEF PopNum, TypeOK, MutexInv, HandInv, ShapeInv, InHand, Linked, Goto, At, Held, Free, AddHeld, PopHeld, DelHeld, inst, heap, history
<1>6. ContentInv'
  BY DEF PopNum, TypeOK, MutexInv, CallInv, HandInv, ShapeInv, ContentInv, InHand, Linked, Phase, Whole, Goto, At, Held, Free, AddHeld, PopHeld, DelHeld, inst, heap, history
<1>7. QED
  BY <1>1, <1>2, <1>3, <1>4, <1>5, <1>6

LEMMA DelLockInv ==
  ASSUME IInv, NEW t \in Thread, DelLock(t) PROVE IInv'
<1> USE NullAssumption DEF IInv
<1>1. TypeOK'
  BY DEF DelLock, Lock, TypeOK, MutexInv, CallInv, HandInv, ShapeInv, ContentInv, Goto, At, Idle, InCall, Calls, Held, Free, AddHeld, PopHeld, DelHeld, inst, heap, history, Phase
<1>2. MutexInv'
  BY DEF DelLock, Lock, TypeOK, MutexInv, Goto, At, Held, Free, AddHeld, PopHeld, DelHeld, inst, heap, history
<1>3. CallInv'
  BY DEF DelLock, Lock, TypeOK, MutexInv, CallInv, Goto, At, Idle, InCall, Calls, Held, Free, AddHeld, PopHeld, DelHeld, inst, heap, history
<1>4. HandInv'
  BY DEF DelLock, Lock, TypeOK, MutexInv, CallInv, HandInv, ShapeInv, InHand, Linked, Goto, At, Held, Free, AddHeld, PopHeld, DelHeld, inst, heap, history
<1>5. ShapeInv'
  BY DEF DelLock, Lock, TypeOK, MutexInv, HandInv, ShapeInv, InHand, Linked, Goto, At, Held, Free, AddHeld, PopHeld, DelHeld, inst, heap, history
<1>6. ContentInv'
  BY DEF DelLock, Lock, TypeOK, MutexInv, CallInv, HandInv, ShapeInv, ContentInv, InHand, Linked, Phase, Whole, Goto, At, Held, Free, AddHeld, PopHeld, DelHeld, inst, heap, history
<1>7. QED
  BY <1>1, <1>2, <1>3, <1>4, <1>5, <1>6

LEMMA DelDataInv ==
  ASSUME IInv, NEW t \in Thread, DelData(t) PROVE IInv'
<1> USE NullAssumption DEF IInv
<1>1. TypeOK'
  BY DEF DelData, TypeOK, MutexInv, CallInv, HandInv, ShapeInv, ContentInv, Goto, At, Idle, InCall, Calls, Held, Free, AddHeld, PopHeld, DelHeld, inst, heap, history, Phase
<1>2. MutexInv'
  BY DEF DelData, TypeOK, MutexInv, Goto, At, Held, Free, AddHeld, PopHeld, DelHeld, inst, heap, history
<1>3. CallInv'
  BY DEF DelData, TypeOK, MutexInv, CallInv, Goto, At, Idle, InCall, Calls, Held, Free, AddHeld, PopHeld, DelHeld, inst, heap, history
<1>4. HandInv'
  BY DEF DelData, TypeOK, MutexInv, CallInv, HandInv, ShapeInv, InHand, Linked, Goto, At, Held, Free, AddHeld, PopHeld, DelHeld, inst, heap, history
<1>5. ShapeInv'
  BY DEF DelData, TypeOK, MutexInv, HandInv, ShapeInv, InHand, Linked, Goto, At, Held, Free, AddHeld, PopHeld, DelHeld, inst, heap, history
<1>6. ContentInv'
  BY DEF DelData, TypeOK, MutexInv, CallInv, HandInv, ShapeInv, ContentInv, InHand, Linked, Phase, Whole, Goto, At, Held, Free, AddHeld, PopHeld, DelHeld, inst, heap, history
<1>7. QED
  BY <1>1, <1>2, <1>3, <1>4, <1>5, <1>6

LEMMA DelNodeInv ==
  ASSUME IInv, NEW t \in Thread, DelNode(t) PROVE IInv'
<1> USE NullAssumption DEF IInv
<1>1. TypeOK'
  BY DEF DelNode, TypeOK, MutexInv, CallInv, HandInv, ShapeInv, ContentInv, Goto, At, Idle, InCall, Calls, Held, Free, AddHeld, PopHeld, DelHeld, inst, heap, history, Phase
<1>2. MutexInv'
  BY DEF DelNode, TypeOK, MutexInv, Goto, At, Held, Free, AddHeld, PopHeld, DelHeld, inst, heap, history
<1>3. CallInv'
  BY DEF DelNode, TypeOK, MutexInv, CallInv, Goto, At, Idle, InCall, Calls, Held, Free, AddHeld, PopHeld, DelHeld, inst, heap, history
<1>4. HandInv'
  <2>1. /\ chain \in Seq(Node) /\ chain # <<>> /\ Len(chain) >= 1 /\ chain' = Tail(chain)
        /\ node[t] = chain[1] /\ mutex = t /\ alloc' = alloc \ {node[t]}
        /\ UNCHANGED <<next, data, op, node>>
    BY DEF DelNode, TypeOK, ShapeInv, HandInv, MutexInv, At, Held, DelHeld, heap
  <2>2. node[t] \in Linked /\ Linked' \subseteq Linked
    <3>1. Len(chain') = Len(chain) - 1 /\ \A i \in 1..Len(chain') : chain'[i] = chain[i + 1]
      BY <2>1
    <3>2. QED
      BY <2>1, <3>1 DEF Linked
  <2>3. pc'[t] = "del_loop" /\ \A u \in Thread : u # t => pc'[u] = pc[u] /\ pc[u] # "del_unlink"
    BY <2>1 DEF DelNode, Goto, TypeOK, MutexInv, Held, DelHeld
  <2>4. QED
    BY <2>1, <2>2, <2>3 DEF HandInv, InHand
<1>5. ShapeInv'
  <2>1. /\ chain \in Seq(Node) /\ chain # <<>> /\ Len(chain) \in Nat /\ Len(chain) >= 1
        /\ head = chain[1] /\ head \in Node /\ chain' = Tail(chain) /\ head' = next[head]
        /\ UNCHANGED <<next, data>>
    BY DEF DelNode, TypeOK, ShapeInv, HandInv, At, heap
  <2>2. /\ chain' \in Seq(Node) /\ Len(chain') = Len(chain) - 1
        /\ \A i \in 1..Len(chain') : chain'[i] = chain[i + 1]
    BY <2>1
  <2>3. /\ \A i \in 1..Len(chain') : chain'[i] \in alloc'
        /\ \A i \in 1..Len(chain') : next'[chain'[i]] = IF i = Len(chain') THEN NULL ELSE chain'[i + 1]
        /\ \A i, j \in 1..Len(chain') : chain'[i] = chain'[j] => i = j
    <3>1. alloc' = alloc \ {chain[1]}
      BY <2>1 DEF DelNode, HandInv, At
    <3>2. 1 \in 1..Len(chain) /\ \A i \in 1..Len(chain') : i + 1 \in 1..Len(chain) /\ i + 1 # 1
      BY <2>1, <2>2
    <3>3. \A i \in 1..Len(chain') : chain'[i] # chain[1]
      BY <2>2, <3>2 DEF ShapeInv
    <3>4. \A i \in 1..Len(chain') : chain'[i] \in alloc'
      BY <2>2, <3>1, <3>2, <3>3 DEF ShapeInv
    <3>5. ASSUME NEW i \in 1..Len(chain')
          PROVE  next'[chain'[i]] = IF i = Len(chain') THEN NULL ELSE chain'[i + 1]
      <4>1. i + 1 \in 1..Len(chain) /\ (i + 1 = Len(chain) <=> i = Len(chain'))
        BY <2>1, <2>2
      <4>2. next[chain[i + 1]] = IF i + 1 = Len(chain) THEN NULL ELSE chain[(i + 1) + 1]
        BY <4>1 DEF ShapeInv
      <4>3. i # Len(chain') => chain'[i + 1] = chain[(i + 1) + 1]
        BY <2>2
      <4>4. QED
        BY <2>1, <2>2, <4>1, <4>2, <4>3
    <3>6. ASSUME NEW i \in 1..Len(chain'), NEW j \in 1..Len(chain'), chain'[i] = chain'[j]
          PROVE  i = j
      <4>1. i + 1 \in 1..Len(chain) /\ j + 1 \in 1..Len(chain) /\ chain[i + 1] = chain[j + 1]
        BY <2>1, <2>2, <3>6
      <4>2. i + 1 = j + 1
        BY <4>1 DEF ShapeInv
      <4>3. QED
        BY <4>2
    <3>7. QED
      BY <3>4, <3>5, <3>6
  <2>4. head' = IF chain' = <<>> THEN NULL ELSE chain'[1]
    <3>1. next[chain[1]] = IF Len(chain) = 1 THEN NULL ELSE chain[2]
      <4>1. 1 \in 1..Len(chain) /\ 1 + 1 = 2 /\ (1 = Len(chain) <=> Len(chain) = 1)
        BY <2>1
      <4>2. next[chain[1]] = IF 1 = Len(chain) THEN NULL ELSE chain[1 + 1]
        BY <4>1 DEF ShapeInv
      <4>3. QED
        BY <4>1, <4>2
    <3>2. CASE Len(chain) = 1
      <4>1. chain' = <<>>
        BY <2>1, <2>2, <3>2
      <4>2. QED
        BY <2>1, <3>1, <3>2, <4>1
    <3>3. CASE Len(chain) # 1
      <4>1. chain' # <<>> /\ chain'[1] = chain[2]
        <5>1. Len(chain') >= 1 /\ 1 \in 1..Len(chain') /\ 1 + 1 = 2
          BY <2>1, <2>2, <3>3
        <5>2. QED
          BY <2>2, <5>1
      <4>2. QED
        BY <2>1, <3>1, <3>3, <4>1
    <3>4. QED
      BY <3>2, <3>3
  <2>5. QED
    BY <2>3, <2>4 DEF ShapeInv
<1>6. ContentInv'
  BY DEF DelNode, TypeOK, MutexInv, CallInv, HandInv, ShapeInv, ContentInv, InHand, Linked, Phase, Whole, Goto, At, Held, Free, AddHeld, PopHeld, DelHeld, inst, heap, history
<1>7. QED
  BY <1>1, <1>2, <1>3, <1>4, <1>5, <1>6

LEMMA DelTailInv ==
  ASSUME IInv, NEW t \in Thread, DelTail(t) PROVE IInv'
<1> USE NullAssumption DEF IInv
<1>1. TypeOK'
  BY DEF DelTail, TypeOK, MutexInv, CallInv, HandInv, ShapeInv, ContentInv, Goto, At, Idle, InCall, Calls, Held, Free, AddHeld, PopHeld, DelHeld, inst, heap, history, Phase
<1>2. MutexInv'
  BY DEF DelTail, TypeOK, MutexInv, Goto, At, Held, Free, AddHeld, PopHeld, DelHeld, inst, heap, history
<1>3. CallInv'
  BY DEF DelTail, TypeOK, MutexInv, CallInv, Goto, At, Idle, InCall, Calls, Held, Free, AddHeld, PopHeld, DelHeld, inst, heap, history
<1>4. HandInv'
  BY DEF DelTail, TypeOK, MutexInv, CallInv, HandInv, ShapeInv, InHand, Linked, Goto, At, Held, Free, AddHeld, PopHeld, DelHeld, inst, heap, history
<1>5. ShapeInv'
  BY DEF DelTail, TypeOK, MutexInv, HandInv, ShapeInv, InHand, Linked, Goto, At, Held, Free, AddHeld, PopHeld, DelHeld, inst, heap, history
<1>6. ContentInv'
  BY DEF DelTail, TypeOK, MutexInv, CallInv, HandInv, ShapeInv, ContentInv, InHand, Linked, Phase, Whole, Goto, At, Held, Free, AddHeld, PopHeld, DelHeld, inst, heap, history
<1>7. QED
  BY <1>1, <1>2, <1>3, <1>4, <1>5, <1>6

LEMMA DelNumInv ==
  ASSUME IInv, NEW t \in Thread, DelNum(t) PROVE IInv'
<1> USE NullAssumption DEF IInv
<1>1. TypeOK'
  BY DEF DelNum, TypeOK, MutexInv, CallInv, HandInv, ShapeInv, ContentInv, Goto, At, Idle, InCall, Calls, Held, Free, AddHeld, PopHeld, DelHeld, inst, heap, history, Phase
<1>2. MutexInv'
  BY DEF DelNum, TypeOK, MutexInv, Goto, At, Held, Free, AddHeld, PopHeld, DelHeld, inst, heap, history
<1>3. CallInv'
  BY DEF DelNum, TypeOK, MutexInv, CallInv, Goto, At, Idle, InCall, Calls, Held, Free, AddHeld, PopHeld, DelHeld, inst, heap, history
<1>4. HandInv'
  BY DEF DelNum, TypeOK, MutexInv, CallInv, HandInv, ShapeInv, InHand, Linked, Goto, At, Held, Free, AddHeld, PopHeld, DelHeld, inst, heap, history
<1>5. ShapeInv'
  BY DEF DelNum, TypeOK, MutexInv, HandInv, ShapeInv, InHand, Linked, Goto, At, Held, Free, AddHeld, PopHeld, DelHeld, inst, heap, history
<1>6. ContentInv'
  BY DEF DelNum, TypeOK, MutexInv, CallInv, HandInv, ShapeInv, ContentInv, InHand, Linked, Phase, Whole, Goto, At, Held, Free, AddHeld, PopHeld, DelHeld, inst, heap, history
<1>7. QED
  BY <1>1, <1>2, <1>3, <1>4, <1>5, <1>6

LEMMA GetNumInv ==
  ASSUME IInv, NEW t \in Thread, GetNum(t) PROVE IInv'
<1> USE NullAssumption DEF IInv
<1>1. TypeOK'
  BY DEF GetNum, TypeOK, MutexInv, CallInv, HandInv, ShapeInv, ContentInv, Goto, At, Idle, InCall, Calls, Held, Free, AddHeld, PopHeld, DelHeld, inst, heap, history, Phase
<1>2. MutexInv'
  BY DEF GetNum, TypeOK, MutexInv, Goto, At, Held, Free, AddHeld, PopHeld, DelHeld, inst, heap, history
<1>3. CallInv'
  BY DEF GetNum, TypeOK, MutexInv, CallInv, Goto, At, Idle, InCall, Calls, Held, Free, AddHeld, PopHeld, DelHeld, inst, heap, history
<1>4. HandInv'
  BY DEF GetNum, TypeOK, MutexInv, CallInv, HandInv, ShapeInv, InHand, Linked, Goto, At, Held, Free, AddHeld, PopHeld, DelHeld, inst, heap, history
<1>5. ShapeInv'
  BY DEF GetNum, TypeOK, MutexInv, HandInv, ShapeInv, InHand, Linked, Goto, At, Held, Free, AddHeld, PopHeld, DelHeld, inst, heap, history
<1>6. ContentInv'
  BY DEF GetNum, TypeOK, MutexInv, CallInv, HandInv, ShapeInv, ContentInv, InHand, Linked, Phase, Whole, Goto, At, Held, Free, AddHeld, PopHeld, DelHeld, inst, heap, history
<1>7. QED
  BY <1>1, <1>2, <1>3, <1>4, <1>5, <1>6

LEMMA StutterInv == IInv /\ UNCHANGED vars => IInv'
  BY DEF IInv, vars, inst, heap, history, TypeOK, MutexInv, CallInv, HandInv, ShapeInv, ContentInv,
     Phase, Linked, InHand

LEMMA NextInv == IInv /\ [Next]_vars => IInv'
  BY StutterInv, CallAddInv, CallOtherInv, ReturnInv, AddAllocInv, AddLockInv, AddFillInv, AddLinkInv, AddTailInv,
      AddNumInv, UnlockInv, PopLockInv, PopEmptyInv, PopTakeInv, PopFreeInv, PopTailInv, PopNumInv, DelLockInv,
      DelDataInv, DelNodeInv, DelTailInv, DelNumInv, GetNumInv
  DEF Next, Step, AddStep, PopStep, DelStep

-----------------------------------------------------------------------------
(* The theorems. *)

(* IInv holds in every reachable state, whatever the threads do.           *)
THEOREM Invariant == Spec => []IInv
  BY InitInv, NextInv, PTL DEF Spec

(* The fields of the list, the heap and the callers keep their types.      *)
THEOREM TypeCorrect == Spec => []TypeOK
<1>1. IInv => TypeOK
  BY DEF IInv
<1>2. QED
  BY <1>1, Invariant, PTL

(* add, pop and del_all only follow addresses that are allocated.          *)
THEOREM NoDangling == Spec => []NoDanglingAccess
<1>1. IInv => NoDanglingAccess
  <2> SUFFICES ASSUME IInv, NEW t \in Thread
               PROVE  /\ At(t, "add_link") => node[t] \in alloc /\ (head # NULL => tail \in alloc)
                      /\ At(t, "add_tail") => node[t] \in alloc
                      /\ (pc[t] \in {"pop_check", "del_loop"} /\ head # NULL) => head \in alloc
                      /\ (pc[t] \in {"pop_free", "del_unlink"}) => node[t] \in alloc
    BY DEF NoDanglingAccess
  <2>1. chain # <<>> => Len(chain) \in Nat /\ Len(chain) >= 1 /\ 1 \in 1..Len(chain) /\ Len(chain) \in 1..Len(chain)
    BY DEF IInv, TypeOK
  <2>2. head # NULL => chain # <<>> /\ head \in alloc
    BY <2>1 DEF IInv, ShapeInv
  <2>3. pc[t] \in Held => mutex = t /\ Phase = pc[t]
    BY NullAssumption DEF IInv, MutexInv, Phase
  <2>4. CASE At(t, "add_link")
    BY <2>1, <2>2, <2>3, <2>4 DEF IInv, HandInv, InHand, ShapeInv, ContentInv, Whole, At, Held, AddHeld
  <2>5. CASE At(t, "add_tail")
    <3>1. Len(chain) = Len(queue) + 1 /\ chain[Len(chain)] = node[t]
      BY <2>3, <2>5 DEF IInv, ContentInv, At, Held, AddHeld
    <3>2. chain # <<>>
      BY <3>1 DEF IInv, TypeOK
    <3>3. QED
      BY <2>1, <2>5, <3>1, <3>2 DEF IInv, ShapeInv, At
  <2>6. CASE pc[t] \notin {"add_link", "add_tail"}
    BY <2>2, <2>6 DEF IInv, HandInv, InHand, At
  <2>7. QED
    BY <2>4, <2>5, <2>6 DEF At
<1>2. QED
  BY <1>1, Invariant, PTL

(* With nobody inside, the pointers hold the queue and num counts it.      *)
THEOREM QuietList == Spec => []QuietListIsQueue
<1>1. IInv => QuietListIsQueue
  BY DEF IInv, ContentInv, ShapeInv, QuietListIsQueue, Phase, Whole
<1>2. QED
  BY <1>1, Invariant, PTL

-----------------------------------------------------------------------------
(* The list implements the queue: the write of num, or get_num's read of   *)
(* it, is the instant at which a call takes effect.                        *)
LEMMA AbstractInit == Init => Queue!Init
  BY DEF Init, Queue!Init, AOp, AbstractOp, Idle, InCall, Queue!Idle, Queue!InCall, Done

(* A step that leaves queue and every call as they were is a stutter.      *)
LEMMA AbstractStutter == ASSUME UNCHANGED <<queue, op>> PROVE UNCHANGED <<queue, AOp>>
  BY DEF AOp, AbstractOp, Done

LEMMA AbstractOpOfCall ==
  ASSUME TypeOK, NEW t \in Thread
  PROVE  /\ AbstractOp(t).call = op[t].call
         /\ AbstractOp(t).ret = op[t].ret
         /\ AbstractOp(t).datum = IF op[t].call = "pop" /\ op[t].ret = NULL THEN NULL ELSE op[t].datum
         /\ AbstractOp(t) = [call |-> op[t].call, ret |-> op[t].ret, datum |-> AbstractOp(t).datum]
  BY DEF TypeOK, AbstractOp, Done

(* When one thread's call record changes, only its abstract call changes.  *)
LEMMA AbstractOneCall ==
  ASSUME TypeOK, NEW t \in Thread, NEW x, op' = [op EXCEPT ![t] = x]
  PROVE  /\ AOp' = [AOp EXCEPT ![t] = AbstractOp(t)']
         /\ op'[t] = x
<1>1. \A u \in Thread : u # t => op'[u] = op[u]
  BY DEF TypeOK
<1>2. op'[t] = x
  BY DEF TypeOK
<1>3. \A u \in Thread : u # t => AbstractOp(u)' = AbstractOp(u)
  BY <1>1 DEF AbstractOp, Done
<1>4. QED
  BY <1>2, <1>3 DEF AOp

LEMMA CallRefines ==
  ASSUME IInv, NEW t \in Thread, CallAdd(t) \/ CallOther(t)
  PROVE  Queue!Call(t)
<1>1. PICK c \in Calls \ {"none"}, d \in Data \cup {NULL} :
        /\ op' = [op EXCEPT ![t] = InCall(c, d)]
        /\ c = "add" <=> d \in Data
  BY NullAssumption DEF CallAdd, CallOther, Calls
<1>2. op[t] = Idle /\ AbstractOp(t) = Idle
  <2>1. op[t].call = "none" /\ op[t].ret = NULL /\ op[t].datum = NULL
    BY NullAssumption DEF IInv, CallInv, CallAdd, CallOther, At
  <2>2. op[t] = [call |-> op[t].call, datum |-> op[t].datum, ret |-> op[t].ret]
    BY DEF IInv, TypeOK
  <2>3. QED
    BY <2>1, <2>2 DEF Idle, InCall, AbstractOp, Done
<1>3. AOp' = [AOp EXCEPT ![t] = AbstractOp(t)'] /\ op'[t] = InCall(c, d)
  BY <1>1, AbstractOneCall DEF IInv
<1>4. AbstractOp(t)' = InCall(c, d)
  BY <1>1, <1>3, NullAssumption DEF AbstractOp, Done, InCall
<1>5. AOp[t] = Queue!Idle /\ queue' = queue
  BY <1>2 DEF AOp, Idle, InCall, Queue!Idle, Queue!InCall, CallAdd, CallOther, history
<1>6. CASE c = "add"
  BY <1>1, <1>3, <1>4, <1>5, <1>6 DEF Queue!Call, Queue!InCall, InCall, AOp
<1>7. CASE c # "add"
  <2>1. d = NULL
    BY <1>1, <1>7
  <2>2. QED
    BY <1>3, <1>4, <1>5, <1>7, <2>1 DEF Queue!Call, Queue!InCall, InCall, AOp, Queue!Calls, Calls
<1>8. QED
  BY <1>6, <1>7

LEMMA ReturnRefines ==
  ASSUME IInv, NEW t \in Thread, Return(t) PROVE Queue!Return(t)
<1>1. op[t].ret # NULL /\ AOp[t].ret # NULL
  BY AbstractOpOfCall DEF IInv, CallInv, Return, At, AOp
<1>2. op' = [op EXCEPT ![t] = Idle] /\ queue' = queue
  BY DEF Return, history
<1>3. AOp' = [AOp EXCEPT ![t] = AbstractOp(t)'] /\ op'[t] = Idle
  BY <1>2, AbstractOneCall DEF IInv
<1>4. AbstractOp(t)' = Queue!Idle
  BY <1>3 DEF AbstractOp, Done, Idle, InCall, Queue!Idle, Queue!InCall
<1>5. QED
  BY <1>1, <1>2, <1>3, <1>4 DEF Queue!Return, AOp

(* A step that gives a pending call its result r answers the abstract      *)
(* call, and a pop's datum appears with the result.                        *)
LEMMA AnswerRefines ==
  ASSUME IInv, NEW t \in Thread, NEW r, r # NULL, op[t].ret = NULL,
         op'[t] = [call |-> op[t].call, datum |-> op[t].datum, ret |-> r],
         \A u \in Thread : u # t => op'[u] = op[u]
  PROVE  /\ AOp[t].call = op[t].call
         /\ AOp[t].ret = NULL
         /\ op[t].call = "add" => AOp[t].datum = op[t].datum
         /\ AOp' = [AOp EXCEPT ![t] = [call |-> AOp[t].call, datum |-> op[t].datum, ret |-> r]]
<1>1. /\ AOp[t].call = op[t].call
      /\ AOp[t].ret = NULL
      /\ op[t].call = "add" => AOp[t].datum = op[t].datum
  BY AbstractOpOfCall DEF IInv, AOp
<1>2. AbstractOp(t)' = [call |-> op[t].call, datum |-> op[t].datum, ret |-> r]
  BY DEF AbstractOp, Done
<1>3. \A u \in Thread : u # t => AbstractOp(u)' = AbstractOp(u)
  BY DEF AbstractOp, Done
<1>4. QED
  BY <1>1, <1>2, <1>3 DEF AOp

LEMMA ResultRefines ==
  ASSUME IInv, NEW t \in Thread,
         AddNum(t) \/ PopEmpty(t) \/ PopNum(t) \/ DelNum(t) \/ GetNum(t)
  PROVE  Queue!Add(t) \/ Queue!PopEmpty(t) \/ Queue!Pop(t) \/ Queue!DelAll(t) \/ Queue!GetNum(t)
<1>1. op[t].ret = NULL
  BY DEF IInv, CallInv, AddNum, PopEmpty, PopNum, DelNum, GetNum, At
<1>2. pc[t] \in Held => mutex = t /\ Phase = pc[t]
  BY NullAssumption DEF IInv, MutexInv, Phase
<1>3. CASE AddNum(t)
  <2>1. op[t].call = "add" /\ op' = [op EXCEPT ![t].ret = 0] /\ queue' = Append(queue, op[t].datum)
    BY <1>3 DEF AddNum, At, IInv, CallInv, AddHeld
  <2>2. /\ AOp[t].call = "add" /\ AOp[t].ret = NULL /\ AOp[t].datum = op[t].datum
        /\ AOp' = [AOp EXCEPT ![t] = [call |-> AOp[t].call, datum |-> op[t].datum, ret |-> 0]]
    <3>1. /\ op'[t] = [call |-> op[t].call, datum |-> op[t].datum, ret |-> 0]
          /\ \A u \in Thread : u # t => op'[u] = op[u]
      BY <2>1 DEF IInv, TypeOK
    <3>2. 0 # NULL
      BY NullAssumption
    <3>3. QED
      BY <1>1, <2>1, <3>1, <3>2, AnswerRefines
  <2>3. Queue!Add(t)
    BY <2>1, <2>2 DEF Queue!Add, Queue!Pending, Queue!Answer
  <2>4. QED
    BY <2>3
<1>4. CASE PopEmpty(t)
  <2>1. /\ op[t].call = "pop" /\ op[t].datum = NULL
        /\ op' = [op EXCEPT ![t].ret = -1] /\ queue' = queue /\ chain = <<>>
    BY <1>4, NullAssumption DEF PopEmpty, At, IInv, CallInv, PopHeld, ShapeInv, TypeOK, history
  <2>2. queue = <<>>
    BY <1>2, <1>4, <2>1 DEF PopEmpty, At, Held, PopHeld, IInv, ContentInv, Whole, TypeOK
  <2>3. /\ AOp[t].call = "pop" /\ AOp[t].ret = NULL
        /\ AOp' = [AOp EXCEPT ![t] = [call |-> AOp[t].call, datum |-> NULL, ret |-> -1]]
    <3>1. /\ op'[t] = [call |-> op[t].call, datum |-> op[t].datum, ret |-> -1]
          /\ \A u \in Thread : u # t => op'[u] = op[u]
      BY <2>1 DEF IInv, TypeOK
    <3>2. -1 # NULL
      BY NullAssumption
    <3>3. QED
      BY <1>1, <2>1, <3>1, <3>2, AnswerRefines
  <2>4. Queue!PopEmpty(t)
    BY <2>1, <2>2, <2>3 DEF Queue!PopEmpty, Queue!Pending, Queue!Answer
  <2>5. QED
    BY <2>4
<1>5. CASE PopNum(t)
  <2>1. op[t].call = "pop" /\ op' = [op EXCEPT ![t].ret = 0] /\ queue' = Tail(queue)
    BY <1>5 DEF PopNum, At, IInv, CallInv, PopHeld
  <2>2. queue # <<>> /\ op[t].datum = Head(queue)
    BY <1>2, <1>5 DEF PopNum, At, Held, PopHeld, IInv, ContentInv, TypeOK
  <2>3. /\ AOp[t].call = "pop" /\ AOp[t].ret = NULL
        /\ AOp' = [AOp EXCEPT ![t] = [call |-> AOp[t].call, datum |-> op[t].datum, ret |-> 0]]
    <3>1. /\ op'[t] = [call |-> op[t].call, datum |-> op[t].datum, ret |-> 0]
          /\ \A u \in Thread : u # t => op'[u] = op[u]
      BY <2>1 DEF IInv, TypeOK
    <3>2. 0 # NULL
      BY NullAssumption
    <3>3. QED
      BY <1>1, <2>1, <3>1, <3>2, AnswerRefines
  <2>4. Queue!Pop(t)
    BY <2>1, <2>2, <2>3 DEF Queue!Pop, Queue!Pending, Queue!Answer
  <2>5. QED
    BY <2>4
<1>6. CASE DelNum(t)
  <2>1. op[t].call = "del_all" /\ op[t].datum = NULL /\ op' = [op EXCEPT ![t].ret = 0] /\ queue' = <<>>
    BY <1>6 DEF DelNum, At, IInv, CallInv, DelHeld
  <2>2. /\ AOp[t].call = "del_all" /\ AOp[t].ret = NULL
        /\ AOp' = [AOp EXCEPT ![t] = [call |-> AOp[t].call, datum |-> NULL, ret |-> 0]]
    <3>1. /\ op'[t] = [call |-> op[t].call, datum |-> op[t].datum, ret |-> 0]
          /\ \A u \in Thread : u # t => op'[u] = op[u]
      BY <2>1 DEF IInv, TypeOK
    <3>2. 0 # NULL
      BY NullAssumption
    <3>3. QED
      BY <1>1, <2>1, <3>1, <3>2, AnswerRefines
  <2>3. Queue!DelAll(t)
    BY <2>1, <2>2 DEF Queue!DelAll, Queue!Pending, Queue!Answer
  <2>4. QED
    BY <2>3
<1>7. CASE GetNum(t)
  <2>1. op[t].call = "get_num" /\ op[t].datum = NULL /\ op' = [op EXCEPT ![t].ret = Len(queue)] /\ queue' = queue /\ Len(queue) \in Int
    BY <1>7 DEF GetNum, At, IInv, CallInv, ContentInv, TypeOK, history
  <2>2. /\ AOp[t].call = "get_num" /\ AOp[t].ret = NULL
        /\ AOp' = [AOp EXCEPT ![t] = [call |-> AOp[t].call, datum |-> NULL, ret |-> Len(queue)]]
    <3>1. /\ op'[t] = [call |-> op[t].call, datum |-> op[t].datum, ret |-> Len(queue)]
          /\ \A u \in Thread : u # t => op'[u] = op[u]
      BY <2>1 DEF IInv, TypeOK
    <3>2. Len(queue) # NULL
      BY <2>1, NullAssumption
    <3>3. QED
      BY <1>1, <2>1, <3>1, <3>2, AnswerRefines
  <2>3. Queue!GetNum(t)
    BY <2>1, <2>2 DEF Queue!GetNum, Queue!Pending, Queue!Answer
  <2>4. QED
    BY <2>3
<1>8. QED
  BY <1>3, <1>4, <1>5, <1>6, <1>7

LEMMA AddAllocRefines ==
  ASSUME IInv, NEW t \in Thread, AddAlloc(t)
  PROVE  Queue!AddFails(t) \/ UNCHANGED <<queue, op>>
<1>1. op[t].ret = NULL /\ op[t].call = "add" /\ queue' = queue
  BY DEF IInv, CallInv, AddAlloc, At, history
<1>2. CASE op' = [op EXCEPT ![t].ret = -1]
  <2>1. /\ AOp[t].call = "add" /\ AOp[t].ret = NULL /\ AOp[t].datum = op[t].datum
        /\ AOp' = [AOp EXCEPT ![t] = [call |-> AOp[t].call, datum |-> op[t].datum, ret |-> -1]]
    <3>1. /\ op'[t] = [call |-> op[t].call, datum |-> op[t].datum, ret |-> -1]
          /\ \A u \in Thread : u # t => op'[u] = op[u]
      BY <1>2 DEF IInv, TypeOK
    <3>2. -1 # NULL
      BY NullAssumption
    <3>3. QED
      BY <1>1, <1>2, <3>1, <3>2, AnswerRefines
  <2>2. Queue!AddFails(t)
    BY <1>1, <2>1 DEF Queue!AddFails, Queue!Pending, Queue!Answer
  <2>3. QED
    BY <2>2
<1>3. QED
  BY <1>1, <1>2 DEF AddAlloc

(* PopTake fills in the datum of a call whose result is not out yet.       *)
LEMMA PopTakeRefines ==
  ASSUME IInv, NEW t \in Thread, PopTake(t) PROVE UNCHANGED <<queue, AOp>>
<1>1. op[t].call = "pop" /\ op[t].ret = NULL /\ op' = [op EXCEPT ![t].datum = data[head]] /\ queue' = queue
  BY DEF IInv, CallInv, PopTake, At, PopHeld
<1>2. \A u \in Thread : /\ op'[u].call = op[u].call /\ op'[u].ret = op[u].ret
                        /\ u # t => op'[u] = op[u]
  BY <1>1 DEF IInv, TypeOK
<1>3. AbstractOp(t)' = AbstractOp(t)
  <2>1. op'[t] = [op[t] EXCEPT !.datum = data[head]] /\ op[t] = [call |-> op[t].call, datum |-> op[t].datum, ret |-> op[t].ret]
    BY <1>1 DEF IInv, TypeOK
  <2>2. QED
    BY <1>1, <1>2, <2>1 DEF AbstractOp, Done
<1>4. \A u \in Thread : AbstractOp(u)' = AbstractOp(u)
  BY <1>2, <1>3 DEF AbstractOp, Done
<1>5. QED
  BY <1>1, <1>4 DEF AOp

LEMMA StepRefines == IInv /\ [Next]_vars => [Queue!Next]_<<queue, AOp>>
<1> SUFFICES ASSUME IInv, [Next]_vars PROVE [Queue!Next]_<<queue, AOp>>
  OBVIOUS
<1>1. CASE UNCHANGED vars
  BY <1>1, AbstractStutter DEF vars, history
<1>2. ASSUME NEW t \in Thread, CallAdd(t) \/ CallOther(t) \/ Return(t) PROVE Queue!Next
  BY <1>2, CallRefines, ReturnRefines DEF Queue!Next
<1>3. ASSUME NEW t \in Thread, AddNum(t) \/ PopEmpty(t) \/ PopNum(t) \/ DelNum(t) \/ GetNum(t) PROVE Queue!Next
  BY <1>3, ResultRefines DEF Queue!Next
<1>4. ASSUME NEW t \in Thread, AddAlloc(t) PROVE [Queue!Next]_<<queue, AOp>>
  BY <1>4, AddAllocRefines, AbstractStutter DEF Queue!Next
<1>5. ASSUME NEW t \in Thread, PopTake(t) PROVE UNCHANGED <<queue, AOp>>
  BY <1>5, PopTakeRefines
<1>6. ASSUME NEW t \in Thread,
             \/ AddLock(t) \/ AddFill(t) \/ AddLink(t) \/ AddTail(t) \/ Unlock(t) \/ PopLock(t)
             \/ PopFree(t) \/ PopTail(t) \/ DelLock(t) \/ DelData(t) \/ DelNode(t) \/ DelTail(t)
      PROVE  UNCHANGED <<queue, AOp>>
  <2>1. UNCHANGED <<queue, op>>
    BY <1>6 DEF AddLock, AddFill, AddLink, AddTail, Unlock, PopLock, PopFree, PopTail, DelLock,
       DelData, DelNode, DelTail, Lock, history
  <2>2. QED
    BY <2>1, AbstractStutter
<1>7. QED
  BY <1>1, <1>2, <1>3, <1>4, <1>5, <1>6 DEF Next, Step, AddStep, PopStep, DelStep

(* Every run of the pointer program is a run of the atomic queue.          *)
THEOREM ListImplementsQueue == Spec => ImplementsQueue
<1>1. IInv /\ [Next]_vars => [Queue!Next]_Queue!vars
  BY StepRefines DEF Queue!vars, AOp
<1>2. QED
  BY <1>1, AbstractInit, Invariant, PTL DEF Spec, Queue!Spec, ImplementsQueue

-----------------------------------------------------------------------------
(* NoDoubleFree: what del_all frees is the list's, never a datum that pop  *)
(* has given away or that has been freed before.                           *)

(* del_all has freed the datum of the first node, but not yet the node.    *)
Freeing == \E t \in Thread : pc[t] = "del_unlink"
Kept(i) == ~(i = 1 /\ Freeing)

(* A call of add that has not linked its datum, or never will.             *)
Brings(t) == /\ op[t].call = "add"
             /\ pc[t] \in {"add_alloc", "add_lock", "add_fill", "add_link"} \/ op[t].ret = -1

(* A call of pop that has taken a datum.                                   *)
Takes(t) == op[t].call = "pop" /\ op[t].datum # NULL

LinkedOwned == \A i \in 1..Len(chain) : /\ data[chain[i]] \in Data
                                        /\ Kept(i) => owner[data[chain[i]]] = "list"

LinkedDistinct == \A i, j \in 1..Len(chain) : data[chain[i]] = data[chain[j]] => i = j

BroughtOwned == \A t \in Thread : Brings(t) =>
  /\ op[t].datum \in Data /\ owner[op[t].datum] = "list"
  /\ \A i \in 1..Len(chain) : Kept(i) => data[chain[i]] # op[t].datum

BroughtDistinct == \A t, u \in Thread : Brings(t) /\ Brings(u) /\ op[t].datum = op[u].datum => t = u

TakenOwned == \A t \in Thread : Takes(t) => op[t].datum \in Data /\ owner[op[t].datum] = "popped"

TakenDistinct == \A t, u \in Thread : Takes(t) /\ Takes(u) /\ op[t].datum = op[u].datum => t = u

(* Every datum the list has is its own, linked once or brought by one add; *)
(* every one a pop has taken is that pop's.                                *)
OwnInv == /\ LinkedOwned /\ LinkedDistinct /\ BroughtOwned
          /\ BroughtDistinct /\ TakenOwned /\ TakenDistinct

-----------------------------------------------------------------------------
LEMMA InitOwn == Init => OwnInv
  BY DEF Init, OwnInv, LinkedOwned, LinkedDistinct, BroughtOwned, BroughtDistinct, TakenOwned, TakenDistinct,
     Brings, Takes, Idle, InCall

(* Who holds the mutex elsewhere knows that nobody is freeing.             *)
LEMMA NotFreeing == ASSUME IInv, NEW t \in Thread, pc[t] \in Held \ {"del_unlink"} PROVE ~Freeing
  BY DEF IInv, MutexInv, Freeing, Held, DelHeld

LEMMA FreeingSame ==
  ASSUME TypeOK, NEW t \in Thread, NEW l, Goto(t, l), pc[t] # "del_unlink", l # "del_unlink"
  PROVE  Freeing' = Freeing
<1>1. \A u \in Thread : pc'[u] = IF u = t THEN l ELSE pc[u]
  BY DEF Goto, TypeOK
<1> QED BY <1>1 DEF Freeing

(* Steps that move no datum: the linked data stay, and no call brings or   *)
(* takes one it did not.                                                   *)
LEMMA NoDatumMoves ==
  ASSUME OwnInv, owner' = owner, chain' = chain, Freeing' = Freeing,
         \A i \in 1..Len(chain) : data'[chain[i]] = data[chain[i]],
         \A u \in Thread : /\ Brings(u)' => Brings(u) /\ op'[u].datum = op[u].datum
                           /\ Takes(u)' => Takes(u) /\ op'[u].datum = op[u].datum
  PROVE  OwnInv'
<1>1. \A i : Kept(i)' = Kept(i)
  BY DEF Kept
<1>2. LinkedOwned' /\ LinkedDistinct'
  BY <1>1 DEF OwnInv, LinkedOwned, LinkedDistinct
<1>3. BroughtOwned'
  BY <1>1 DEF OwnInv, BroughtOwned
<1>4. BroughtDistinct' /\ TakenOwned' /\ TakenDistinct'
  BY DEF OwnInv, BroughtDistinct, TakenOwned, TakenDistinct
<1> QED BY <1>2, <1>3, <1>4 DEF OwnInv

(* A step of one thread that leaves the data where they are.               *)
LEMMA QuietStep ==
  ASSUME IInv, OwnInv, NEW t \in Thread, NEW l, Goto(t, l), pc[t] # "del_unlink", l # "del_unlink",
         owner' = owner, chain' = chain,
         \A i \in 1..Len(chain) : data'[chain[i]] = data[chain[i]],
         \A u \in Thread \ {t} : op'[u] = op[u],
         Brings(t)' => Brings(t) /\ op'[t].datum = op[t].datum,
         Takes(t)' => Takes(t) /\ op'[t].datum = op[t].datum
  PROVE  OwnInv'
<1>1. Freeing' = Freeing
  BY FreeingSame DEF IInv
<1>2. \A u \in Thread \ {t} : pc'[u] = pc[u]
  BY DEF Goto, IInv, TypeOK
<1>3. \A u \in Thread : /\ Brings(u)' => Brings(u) /\ op'[u].datum = op[u].datum
                        /\ Takes(u)' => Takes(u) /\ op'[u].datum = op[u].datum
  BY <1>2 DEF Brings, Takes
<1> QED BY <1>1, <1>3, NoDatumMoves

(* The steps whose call keeps its datum and its answer.                    *)
LEMMA WalkOwn ==
  ASSUME IInv, OwnInv, NEW t \in Thread,
         \/ AddLock(t) \/ AddFill(t) \/ AddTail(t) \/ Unlock(t)
         \/ PopLock(t) \/ PopFree(t) \/ PopTail(t) \/ DelLock(t) \/ DelTail(t)
  PROVE  OwnInv'
<1>1. /\ owner' = owner /\ chain' = chain /\ op' = op
      /\ \A i \in 1..Len(chain) : data'[chain[i]] = data[chain[i]]
  <2>1. CASE AddFill(t)
    <3>1. \A i \in 1..Len(chain) : chain[i] # node[t]
      BY <2>1 DEF AddFill, At, IInv, HandInv, InHand, Linked
    <3>2. \A i \in 1..Len(chain) : chain[i] \in Node
      BY DEF IInv, TypeOK
    <3> QED BY <2>1, <3>1, <3>2 DEF AddFill, history, IInv, TypeOK
  <2>2. CASE ~AddFill(t)
    BY <2>2 DEF AddLock, AddTail, Unlock, PopLock, PopFree, PopTail, DelLock, DelTail, Lock, history, heap
  <2> QED BY <2>1, <2>2
<1>2. PICK l : Goto(t, l) /\ pc[t] # "del_unlink" /\ l # "del_unlink" /\ (Brings(t)' => Brings(t))
  <2>1. ASSUME NEW l, Goto(t, l) PROVE pc'[t] = l
    BY <2>1 DEF Goto, IInv, TypeOK
  <2>2. CASE AddLock(t) \/ AddFill(t)
    BY <1>1, <2>1, <2>2 DEF AddLock, AddFill, Lock, At, Brings
  <2>3. CASE AddTail(t) \/ Unlock(t)
    BY <1>1, <2>1, <2>3 DEF AddTail, Unlock, At, Brings
  <2>4. CASE PopLock(t) \/ PopFree(t) \/ PopTail(t)
    BY <1>1, <2>1, <2>4 DEF PopLock, PopFree, PopTail, Lock, At, Brings
  <2>5. CASE DelLock(t) \/ DelTail(t)
    BY <1>1, <2>1, <2>5 DEF DelLock, DelTail, Lock, At, Brings
  <2> QED BY <2>2, <2>3, <2>4, <2>5
<1>3. Takes(t)' => Takes(t)
  BY <1>1 DEF Takes
<1> QED BY <1>1, <1>2, <1>3, QuietStep

(* The steps that write the answer of a call, and the call itself.         *)
LEMMA AnswerOwn ==
  ASSUME IInv, OwnInv, NEW t \in Thread,
         \/ AddAlloc(t) \/ AddNum(t) \/ PopEmpty(t) \/ PopNum(t) \/ DelNum(t) \/ GetNum(t)
         \/ CallOther(t)
  PROVE  OwnInv'
<1>1. /\ owner' = owner /\ chain' = chain /\ data' = data
      /\ \A u \in Thread \ {t} : op'[u] = op[u]
  BY DEF AddAlloc, AddNum, PopEmpty, PopNum, DelNum, GetNum, CallOther, history, heap, inst, IInv, TypeOK
<1>2. CASE AddAlloc(t)
  <2>1. op[t].call = "add" /\ Brings(t)
    BY <1>2 DEF AddAlloc, At, IInv, CallInv, Brings
  <2>2. op'[t].datum = op[t].datum /\ op'[t].call = op[t].call
    BY <1>2 DEF AddAlloc, IInv, TypeOK
  <2>3. \E l : Goto(t, l) /\ pc[t] # "del_unlink" /\ l # "del_unlink"
    BY <1>2 DEF AddAlloc, At
  <2> QED BY <1>1, <2>1, <2>2, <2>3, QuietStep DEF Takes
<1>3. CASE AddNum(t) \/ PopEmpty(t) \/ PopNum(t) \/ DelNum(t) \/ GetNum(t)
  <2>1. /\ op'[t].datum = op[t].datum /\ op'[t].call = op[t].call
        /\ (op[t].call = "add" => op'[t].ret = 0)
    BY <1>3 DEF AddNum, PopEmpty, PopNum, DelNum, GetNum, At, IInv, TypeOK, CallInv, AddHeld, PopHeld, DelHeld
  <2>2. PICK l \in {"unlock", "return"} : Goto(t, l) /\ pc[t] # "del_unlink"
    BY <1>3 DEF AddNum, PopEmpty, PopNum, DelNum, GetNum, At
  <2>3. pc'[t] = l
    BY <2>2 DEF Goto, IInv, TypeOK
  <2>4. ~Brings(t)'
    BY <2>1, <2>3 DEF Brings
  <2> QED BY <1>1, <2>1, <2>2, <2>4, QuietStep DEF Takes
<1>4. CASE CallOther(t)
  <2>1. PICK c \in {"pop", "del_all", "get_num"} :
          /\ op' = [op EXCEPT ![t] = InCall(c, NULL)]
          /\ Goto(t, CASE c = "pop" -> "pop_lock" [] c = "del_all" -> "del_lock" [] OTHER -> "get_num")
    BY <1>4 DEF CallOther
  <2>2. ~Brings(t)' /\ ~Takes(t)'
    BY <2>1 DEF InCall, Brings, Takes, IInv, TypeOK
  <2>3. \E l : Goto(t, l) /\ pc[t] # "del_unlink" /\ l # "del_unlink"
    BY <1>4, <2>1 DEF CallOther, At
  <2> QED BY <1>1, <2>2, <2>3, QuietStep
<1> QED BY <1>2, <1>3, <1>4

(* What is brought was the caller's, or is fresh from malloc: no one's.    *)
LEMMA CallAddOwn == ASSUME IInv, OwnInv, NEW t \in Thread, CallAdd(t) PROVE OwnInv'
<1>1. PICK d \in Data : /\ owner[d] \in {"caller", "freed"}
                        /\ owner' = [owner EXCEPT ![d] = "list"]
                        /\ op' = [op EXCEPT ![t] = InCall("add", d)]
  BY DEF CallAdd
<1>2. chain' = chain /\ data' = data /\ Goto(t, "add_alloc") /\ At(t, "idle")
  BY DEF CallAdd, history, heap
<1>3. Freeing' = Freeing
  BY <1>2, FreeingSame DEF At, IInv
<1>4. \A i : Kept(i)' = Kept(i)
  BY <1>3 DEF Kept
<1>5. \A u \in Thread : op'[u] = (IF u = t THEN InCall("add", d) ELSE op[u]) /\ (u # t => pc'[u] = pc[u])
  BY <1>1, <1>2 DEF Goto, IInv, TypeOK
<1>6. op'[t].datum = d /\ ~Takes(t)'
  BY <1>5 DEF InCall, Takes
<1>7. \A u \in Thread \ {t} : Brings(u)' = Brings(u) /\ Takes(u)' = Takes(u) /\ op'[u].datum = op[u].datum
  BY <1>5 DEF Brings, Takes
<1>8. \A e \in Data : owner'[e] = IF e = d THEN "list" ELSE owner[e]
  BY <1>1 DEF IInv, TypeOK
<1>9. LinkedOwned' /\ LinkedDistinct'
  BY <1>2, <1>4, <1>8 DEF OwnInv, LinkedOwned, LinkedDistinct
<1>10. BroughtOwned'
  BY <1>1, <1>2, <1>4, <1>6, <1>7, <1>8 DEF OwnInv, BroughtOwned, LinkedOwned
<1>11. BroughtDistinct'
  BY <1>1, <1>6, <1>7 DEF OwnInv, BroughtDistinct, BroughtOwned
<1>12. TakenOwned' /\ TakenDistinct'
  BY <1>1, <1>6, <1>7, <1>8 DEF OwnInv, TakenOwned, TakenDistinct
<1> QED BY <1>9, <1>10, <1>11, <1>12 DEF OwnInv

(* What a call gives back to its caller is in no other hand.               *)
LEMMA ReturnOwn == ASSUME IInv, OwnInv, NEW t \in Thread, Return(t) PROVE OwnInv'
<1>1. chain' = chain /\ data' = data /\ Goto(t, "idle") /\ At(t, "return") /\ op' = [op EXCEPT ![t] = Idle]
  BY DEF Return, history, heap
<1>2. \A u \in Thread : op'[u] = (IF u = t THEN Idle ELSE op[u]) /\ (u # t => pc'[u] = pc[u])
  BY <1>1 DEF Goto, IInv, TypeOK
<1>3. ~Brings(t)' /\ ~Takes(t)'
  BY <1>2 DEF Idle, InCall, Brings, Takes
<1>4. \A u \in Thread \ {t} : Brings(u)' = Brings(u) /\ Takes(u)' = Takes(u) /\ op'[u].datum = op[u].datum
  BY <1>2 DEF Brings, Takes
<1>5. Freeing' = Freeing
  BY <1>1, FreeingSame DEF At, IInv
<1>6. CASE owner' = owner
  BY <1>1, <1>3, <1>4, <1>5, <1>6, NoDatumMoves
<1>7. CASE owner' # owner
  <2> DEFINE d == op[t].datum
  <2>1. d \in Data /\ (op[t].call = "add") = (op[t].ret = -1) /\ owner' = [owner EXCEPT ![d] = "caller"]
    BY <1>7 DEF Return
  <2>2. Brings(t) \/ Takes(t)
    <3>1. op[t].call = "add" => Brings(t)
      BY <2>1 DEF Brings
    <3>2. op[t].call # "add" => op[t].call = "pop"
      BY <2>1, NullAssumption DEF IInv, CallInv
    <3> QED BY <3>1, <3>2, <2>1, NullAssumption DEF Takes
  <2>3. \A e \in Data : owner'[e] = IF e = d THEN "caller" ELSE owner[e]
    BY <2>1 DEF IInv, TypeOK
  <2> HIDE DEF d
  <2>4. \A u \in Thread \ {t} : Brings(u) \/ Takes(u) => op[u].datum # d
    BY <2>2 DEF d, OwnInv, BroughtOwned, BroughtDistinct, TakenOwned, TakenDistinct
  <2>5. \A i \in 1..Len(chain) : Kept(i) => data[chain[i]] # d
    BY <2>2 DEF d, OwnInv, BroughtOwned, TakenOwned, LinkedOwned
  <2>6. \A i : Kept(i)' = Kept(i)
    BY <1>5 DEF Kept
  <2>7. LinkedOwned' /\ LinkedDistinct'
    BY <1>1, <2>3, <2>5, <2>6 DEF OwnInv, LinkedOwned, LinkedDistinct
  <2>8. BroughtOwned' /\ BroughtDistinct'
    BY <1>1, <1>3, <1>4, <2>3, <2>4, <2>6 DEF OwnInv, BroughtOwned, BroughtDistinct
  <2>9. TakenOwned' /\ TakenDistinct'
    BY <1>3, <1>4, <2>3, <2>4 DEF OwnInv, TakenOwned, TakenDistinct
  <2> QED BY <2>7, <2>8, <2>9 DEF OwnInv
<1> QED BY <1>6, <1>7

(* The datum an add has brought becomes the last of the linked ones.       *)
LEMMA AddLinkOwn == ASSUME IInv, OwnInv, NEW t \in Thread, AddLink(t) PROVE OwnInv'
<1> DEFINE d == op[t].datum
<1>1. /\ chain' = Append(chain, node[t]) /\ data' = data /\ op' = op /\ owner' = owner
      /\ Goto(t, "add_tail") /\ pc[t] = "add_link"
  BY DEF AddLink, At
<1>2. ~Freeing /\ ~Freeing'
  <2>1. ~Freeing
    BY <1>1, NotFreeing DEF Held, AddHeld
  <2> QED BY <1>1, <2>1, FreeingSame DEF IInv
<1>3. \A i : Kept(i) /\ Kept(i)'
  BY <1>2 DEF Kept
<1>4. data[node[t]] = d /\ Brings(t) /\ node[t] \in Node
  BY <1>1, NullAssumption DEF IInv, HandInv, CallInv, InHand, Brings, TypeOK, AddHeld
<1>5. pc'[t] = "add_tail" /\ \A u \in Thread \ {t} : pc'[u] = pc[u]
  BY <1>1 DEF Goto, IInv, TypeOK
<1>6. ~Brings(t)' /\ \A u \in Thread \ {t} : Brings(u)' = Brings(u)
  BY <1>1, <1>5, NullAssumption DEF Brings, IInv, CallInv
<1>7. /\ Len(chain') = Len(chain) + 1 /\ Len(chain) \in Nat
      /\ \A i \in 1..Len(chain) : chain'[i] = chain[i]
      /\ chain'[Len(chain) + 1] = node[t]
  BY <1>1, <1>4 DEF IInv, TypeOK
<1>8. d \in Data /\ owner[d] = "list" /\ \A i \in 1..Len(chain) : data[chain[i]] # d
  BY <1>3, <1>4 DEF OwnInv, BroughtOwned
<1> HIDE DEF d
<1>9. \A i \in 1..Len(chain') : \/ i \in 1..Len(chain) /\ data'[chain'[i]] = data[chain[i]]
                                \/ i = Len(chain) + 1 /\ data'[chain'[i]] = d
  BY <1>1, <1>4, <1>7
<1>10. LinkedOwned' /\ LinkedDistinct'
  <2>1. LinkedOwned'
    BY <1>1, <1>3, <1>8, <1>9 DEF OwnInv, LinkedOwned
  <2>2. LinkedDistinct'
    BY <1>8, <1>9 DEF OwnInv, LinkedDistinct
  <2> QED BY <2>1, <2>2
<1>11. \A u \in Thread \ {t} : Brings(u) => op[u].datum # d
  BY <1>4 DEF OwnInv, BroughtDistinct, d
<1>12. BroughtOwned' /\ BroughtDistinct'
  <2>1. ASSUME NEW u \in Thread, Brings(u)' PROVE u # t /\ Brings(u)
    BY <1>6, <2>1
  <2>2. BroughtOwned'
    BY <1>1, <1>3, <1>9, <1>11, <2>1 DEF OwnInv, BroughtOwned
  <2>3. BroughtDistinct'
    BY <1>1, <2>1 DEF OwnInv, BroughtDistinct
  <2> QED BY <2>2, <2>3
<1>13. TakenOwned' /\ TakenDistinct'
  BY <1>1 DEF OwnInv, TakenOwned, TakenDistinct, Takes
<1> QED BY <1>10, <1>12, <1>13 DEF OwnInv

(* The list at a pop or del_all that finds a first node.                   *)
LEMMA FirstLinked == ASSUME IInv, head # NULL
                     PROVE  chain # <<>> /\ Len(chain) \in Nat /\ 1 \in 1..Len(chain) /\ head = chain[1]
<1>1. chain # <<>> /\ head = chain[1]
  BY DEF IInv, ShapeInv
<1> QED BY <1>1 DEF IInv, TypeOK

(* pop takes the datum of the first node away from the list.               *)
LEMMA PopTakeOwn == ASSUME IInv, OwnInv, NEW t \in Thread, PopTake(t) PROVE OwnInv'
<1> DEFINE d == data[head]
<1>1. /\ chain' = Tail(chain) /\ data' = data /\ head # NULL /\ pc[t] = "pop_check" /\ Goto(t, "pop_free")
      /\ owner' = [owner EXCEPT ![d] = "popped"] /\ op' = [op EXCEPT ![t].datum = d]
  BY DEF PopTake, At, heap
<1>2. ~Freeing /\ ~Freeing'
  <2>1. ~Freeing
    BY <1>1, NotFreeing DEF Held, PopHeld
  <2> QED BY <1>1, <2>1, FreeingSame DEF IInv
<1>3. \A i : Kept(i) /\ Kept(i)'
  BY <1>2 DEF Kept
<1>4. d = data[chain[1]] /\ d \in Data /\ owner[d] = "list"
  BY <1>1, <1>3, FirstLinked DEF OwnInv, LinkedOwned
<1>5. /\ Len(chain') = Len(chain) - 1
      /\ \A i \in 1..Len(chain') : chain'[i] = chain[i + 1] /\ i + 1 \in 1..Len(chain)
  BY <1>1, FirstLinked DEF IInv, TypeOK
<1> HIDE DEF d
<1>6. ASSUME NEW i \in 1..Len(chain') PROVE data[chain[i + 1]] # d
  <2>1. 1 \in 1..Len(chain) /\ i + 1 \in 1..Len(chain) /\ i + 1 # 1
    BY <1>1, <1>5, FirstLinked
  <2> QED BY <1>4, <2>1 DEF OwnInv, LinkedDistinct
<1>7. \A e \in Data : owner'[e] = IF e = d THEN "popped" ELSE owner[e]
  BY <1>1 DEF IInv, TypeOK
<1>8. op'[t].datum = d /\ \A u \in Thread \ {t} : op'[u] = op[u] /\ pc'[u] = pc[u]
  BY <1>1 DEF IInv, TypeOK, Goto
<1>9. op'[t].call = "pop" /\ op[t].call = "pop" /\ ~Brings(t)'
  BY <1>1 DEF IInv, TypeOK, CallInv, PopHeld, Brings
<1>10. \A u \in Thread : Brings(u)' => u # t /\ Brings(u) /\ op'[u].datum = op[u].datum
  BY <1>8, <1>9 DEF Brings
<1>11. \A u \in Thread \ {t} : Takes(u)' = Takes(u) /\ op'[u].datum = op[u].datum
  BY <1>8 DEF Takes
<1>12. LinkedOwned' /\ LinkedDistinct'
  <2>1. LinkedOwned'
    BY <1>1, <1>3, <1>5, <1>6, <1>7 DEF OwnInv, LinkedOwned
  <2>2. ASSUME NEW i \in 1..Len(chain'), NEW j \in 1..Len(chain'), data'[chain'[i]] = data'[chain'[j]]
        PROVE  i = j
    <3>1. i + 1 = j + 1
      BY <1>1, <1>5, <2>2 DEF OwnInv, LinkedDistinct
    <3> QED BY <3>1
  <2> QED BY <2>1, <2>2 DEF LinkedDistinct
<1>13. BroughtOwned' /\ BroughtDistinct'
  <2>1. \A u \in Thread : Brings(u) => op[u].datum # d
    BY <1>1, <1>3, <1>4, FirstLinked DEF OwnInv, BroughtOwned
  <2>2. BroughtOwned'
    <3> SUFFICES ASSUME NEW u \in Thread, Brings(u)'
                 PROVE  /\ op'[u].datum \in Data /\ owner'[op'[u].datum] = "list"
                        /\ \A i \in 1..Len(chain') : data'[chain'[i]] # op'[u].datum
      BY DEF BroughtOwned
    <3>1. Brings(u) /\ op'[u].datum = op[u].datum /\ op[u].datum # d
      BY <1>10, <2>1
    <3> QED BY <1>1, <1>3, <1>5, <1>7, <3>1 DEF OwnInv, BroughtOwned
  <2> QED BY <1>10, <2>2 DEF OwnInv, BroughtDistinct
<1>14. TakenOwned' /\ TakenDistinct'
  <2>1. \A u \in Thread : Takes(u) => op[u].datum # d
    BY <1>4 DEF OwnInv, TakenOwned
  <2>2. TakenOwned'
    BY <1>4, <1>7, <1>8, <1>11, <2>1 DEF OwnInv, TakenOwned
  <2> QED BY <1>8, <1>11, <2>1, <2>2 DEF OwnInv, TakenDistinct
<1> QED BY <1>12, <1>13, <1>14 DEF OwnInv

(* del_all frees the datum of the first node, which is the list's.         *)
LEMMA DelDataOwn == ASSUME IInv, OwnInv, NEW t \in Thread, DelData(t) PROVE OwnInv'
<1> DEFINE d == data[head]
<1>1. /\ chain' = chain /\ data' = data /\ op' = op /\ head # NULL /\ pc[t] = "del_loop" /\ Goto(t, "del_unlink")
      /\ owner' = [owner EXCEPT ![d] = "freed"]
  BY DEF DelData, At, heap, history
<1>2. ~Freeing
  BY <1>1, NotFreeing DEF Held, DelHeld
<1>3. pc'[t] = "del_unlink" /\ \A u \in Thread \ {t} : pc'[u] = pc[u]
  BY <1>1 DEF IInv, TypeOK, Goto
<1>4. (\A i : Kept(i)) /\ \A i \in 1..Len(chain) : Kept(i)' => i # 1
  BY <1>2, <1>3 DEF Kept, Freeing
<1>5. d = data[chain[1]] /\ d \in Data /\ owner[d] = "list" /\ 1 \in 1..Len(chain)
  BY <1>1, <1>4, FirstLinked DEF OwnInv, LinkedOwned
<1> HIDE DEF d
<1>6. \A i \in 1..Len(chain) : i # 1 => data[chain[i]] # d
  BY <1>5 DEF OwnInv, LinkedDistinct
<1>7. \A e \in Data : owner'[e] = IF e = d THEN "freed" ELSE owner[e]
  BY <1>1 DEF IInv, TypeOK
<1>8. \A u \in Thread : Brings(u)' => Brings(u)
  BY <1>1, <1>3 DEF Brings
<1>9. LinkedOwned' /\ LinkedDistinct'
  BY <1>1, <1>4, <1>6, <1>7 DEF OwnInv, LinkedOwned, LinkedDistinct
<1>10. BroughtOwned' /\ BroughtDistinct'
  BY <1>1, <1>4, <1>5, <1>7, <1>8 DEF OwnInv, BroughtOwned, BroughtDistinct
<1>11. TakenOwned' /\ TakenDistinct'
  BY <1>1, <1>5, <1>7 DEF OwnInv, TakenOwned, TakenDistinct, Takes
<1> QED BY <1>9, <1>10, <1>11 DEF OwnInv

(* The node goes after its datum; by then the datum may be linked again.   *)
LEMMA DelNodeOwn == ASSUME IInv, OwnInv, NEW t \in Thread, DelNode(t) PROVE OwnInv'
<1>1. /\ chain' = Tail(chain) /\ data' = data /\ op' = op /\ owner' = owner
      /\ pc[t] = "del_unlink" /\ Goto(t, "del_loop")
  BY DEF DelNode, At
<1>2. head # NULL
  BY <1>1 DEF IInv, HandInv
<1>3. \A u \in Thread : u # t => pc[u] # "del_unlink"
  BY <1>1 DEF IInv, MutexInv, Held, DelHeld
<1>4. pc'[t] = "del_loop" /\ \A u \in Thread \ {t} : pc'[u] = pc[u]
  BY <1>1 DEF IInv, TypeOK, Goto
<1>5. ~Freeing' /\ Freeing
  BY <1>1, <1>3, <1>4 DEF Freeing
<1>6. /\ Len(chain') = Len(chain) - 1
      /\ \A i \in 1..Len(chain') : chain'[i] = chain[i + 1] /\ i + 1 \in 1..Len(chain) /\ i + 1 # 1
  BY <1>1, <1>2, FirstLinked DEF IInv, TypeOK
<1>7. \A i \in 1..Len(chain') : Kept(i + 1)
  BY <1>6 DEF Kept
<1>8. \A u \in Thread : Brings(u)' => Brings(u)
  BY <1>1, <1>4 DEF Brings
<1>9. LinkedOwned' /\ LinkedDistinct'
  <2>1. LinkedOwned'
    BY <1>1, <1>6, <1>7 DEF OwnInv, LinkedOwned
  <2>2. ASSUME NEW i \in 1..Len(chain'), NEW j \in 1..Len(chain'), data'[chain'[i]] = data'[chain'[j]]
        PROVE  i = j
    <3>1. i + 1 = j + 1
      BY <1>1, <1>6, <2>2 DEF OwnInv, LinkedDistinct
    <3> QED BY <3>1
  <2> QED BY <2>1, <2>2 DEF LinkedDistinct
<1>10. BroughtOwned' /\ BroughtDistinct'
  <2>1. BroughtOwned'
    <3> SUFFICES ASSUME NEW u \in Thread, Brings(u)'
                 PROVE  /\ op'[u].datum \in Data /\ owner'[op'[u].datum] = "list"
                        /\ \A i \in 1..Len(chain') : data'[chain'[i]] # op'[u].datum
      BY DEF BroughtOwned
    <3>1. Brings(u)
      BY <1>8
    <3> QED BY <1>1, <1>6, <1>7, <3>1 DEF OwnInv, BroughtOwned
  <2> QED BY <1>1, <1>8, <2>1 DEF OwnInv, BroughtDistinct
<1>11. TakenOwned' /\ TakenDistinct'
  BY <1>1 DEF OwnInv, TakenOwned, TakenDistinct, Takes
<1> QED BY <1>9, <1>10, <1>11 DEF OwnInv

LEMMA StutterOwn == ASSUME OwnInv, UNCHANGED vars PROVE OwnInv'
<1>1. UNCHANGED <<owner, chain, data, op, pc>>
  BY DEF vars, heap, history
<1>2. Freeing' = Freeing /\ \A u : Brings(u)' = Brings(u) /\ Takes(u)' = Takes(u)
  BY <1>1 DEF Freeing, Brings, Takes
<1> QED BY <1>1, <1>2, NoDatumMoves

LEMMA NextOwn == IInv /\ OwnInv /\ [Next]_vars => OwnInv'
  BY WalkOwn, AnswerOwn, CallAddOwn, ReturnOwn, AddLinkOwn, PopTakeOwn, DelDataOwn, DelNodeOwn, StutterOwn
  DEF Next, Step, AddStep, PopStep, DelStep

(* NoDoubleFree of the run: del_all frees a datum only while it is the     *)
(* list's.                                                                 *)
THEOREM FreesItsOwn == Spec => []NoDoubleFree
<1>1. IInv /\ OwnInv => NoDoubleFree
  <2> SUFFICES ASSUME IInv, OwnInv, NEW t \in Thread, pc[t] = "del_loop", head # NULL
               PROVE  owner[data[head]] = "list"
    BY DEF NoDoubleFree, At
  <2>1. Kept(1)
    BY NotFreeing DEF Kept, Held, DelHeld
  <2> QED BY <2>1, FirstLinked DEF OwnInv, LinkedOwned
<1> QED BY <1>1, InitOwn, NextOwn, Invariant, PTL DEF Spec
=============================================================================
