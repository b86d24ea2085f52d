------------------------------ MODULE MdsQueue ------------------------------
(***************************************************************************)
(* What mdsapi/src/mds_list.c promises to the threads that share one list: *)
(* an atomic FIFO queue.  A call is made (Call), takes effect at one       *)
(* instant (Add, Pop, DelAll, GetNum) and returns (Return).  MdsList is    *)
(* the pointer-level program that implements this module.                  *)
(***************************************************************************)
EXTENDS Integers, Sequences

CONSTANTS Thread,   (* the threads that call the list            *)
          Data,     (* the data pointers handed to the list      *)
          NULL      (* the null pointer, and "no result yet"     *)

VARIABLES queue,    (* the data the list holds, oldest first     *)
          op        (* op[t]: the call thread t is in            *)

vars == <<queue, op>>

(* A call has a name, the datum it passes in or gets out, and its return   *)
(* value once it has taken effect.                                         *)
InCall(c, d) == [call |-> c, datum |-> d, ret |-> NULL]
Idle == InCall("none", NULL)
Calls == {"none", "add", "pop", "del_all", "get_num"}
Op == [call : Calls, datum : Data \cup {NULL}, ret : Int \cup {NULL}]

Init == /\ queue = <<>>
        /\ op = [t \in Thread |-> Idle]

Pending(t, c) == op[t].call = c /\ op[t].ret = NULL

(* Call t takes effect: it hands out datum d and will return r.            *)
Answer(t, d, r) == op' = [op EXCEPT ![t] = [call |-> op[t].call, datum |-> d, ret |-> r]]

Call(t) == /\ op[t] = Idle
           /\ \/ \E d \in Data : op' = [op EXCEPT ![t] = InCall("add", d)]
              \/ \E c \in Calls \ {"none", "add"} : op' = [op EXCEPT ![t] = InCall(c, NULL)]
           /\ UNCHANGED queue

Return(t) == /\ op[t].ret # NULL
             /\ op' = [op EXCEPT ![t] = Idle]
             /\ UNCHANGED queue

Add(t) == /\ Pending(t, "add")
          /\ queue' = Append(queue, op[t].datum)
          /\ Answer(t, op[t].datum, 0)

(* An allocation failure is the only way an add leaves the queue as it was. *)
AddFails(t) == /\ Pending(t, "add")
               /\ Answer(t, op[t].datum, -1)
               /\ UNCHANGED queue

Pop(t) == /\ Pending(t, "pop")
          /\ queue # <<>>
          /\ queue' = Tail(queue)
          /\ Answer(t, Head(queue), 0)

PopEmpty(t) == /\ Pending(t, "pop")
               /\ queue = <<>>
               /\ Answer(t, NULL, -1)
               /\ UNCHANGED queue

DelAll(t) == /\ Pending(t, "del_all")
             /\ queue' = <<>>
             /\ Answer(t, NULL, 0)

GetNum(t) == /\ Pending(t, "get_num")
             /\ Answer(t, NULL, Len(queue))
             /\ UNCHANGED queue

Next == \E t \in Thread : \/ Call(t) \/ Return(t)
                          \/ Add(t) \/ AddFails(t)
                          \/ Pop(t) \/ PopEmpty(t)
                          \/ DelAll(t) \/ GetNum(t)

Spec == Init /\ [][Next]_vars
=============================================================================
