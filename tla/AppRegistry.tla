----------------------------- MODULE AppRegistry -----------------------------
(***************************************************************************)
(* What mdsapi/src/mds_shm.c promises to its callers as long as one call   *)
(* runs at a time: a table of at most Size applications and their data.    *)
(* PerAppShm is the shared-memory program that implements this module.     *)
(***************************************************************************)
EXTENDS Integers, FiniteSets

CONSTANTS App,      (* the application names                   *)
          Value,    (* the payloads an application can publish *)
          Size,     (* PER_APP_MAX_CNT                         *)
          None      (* no value                                *)

VARIABLES table,    (* table[a]: the payload of a, or None     *)
          op        (* op[a]: the call application a is in     *)

vars == <<table, op>>

Idle == [call |-> "none", key |-> None, value |-> None, ret |-> None]
Asked(c, k, v) == [call |-> c, key |-> k, value |-> v, ret |-> None]
Stored == {a \in App : table[a] # None}

Init == /\ table = [a \in App |-> None]
        /\ op = [a \in App |-> Idle]

Answer(a, v, r) == op' = [op EXCEPT ![a] = [call |-> op[a].call, key |-> op[a].key, value |-> v, ret |-> r]]
Pending(a, c) == op[a].call = c /\ op[a].ret = None

Call(a) == /\ op[a] = Idle
           /\ \/ \E v \in Value : op' = [op EXCEPT ![a] = Asked("set", a, v)]
              \/ \E k \in App : op' = [op EXCEPT ![a] = Asked("get", k, None)]
              \/ op' = [op EXCEPT ![a] = Asked("get_all", None, None)]
           /\ UNCHANGED table

Return(a) == /\ op[a].ret # None
             /\ op' = [op EXCEPT ![a] = Idle]
             /\ UNCHANGED table

Set(a) == /\ Pending(a, "set")
          /\ a \in Stored \/ Cardinality(Stored) < Size
          /\ table' = [table EXCEPT ![a] = op[a].value]
          /\ Answer(a, op[a].value, 1)

(* A set that finds the table full stores nothing and returns TRUE too.    *)
SetWhenFull(a) == /\ Pending(a, "set")
                  /\ a \notin Stored
                  /\ Cardinality(Stored) >= Size
                  /\ Answer(a, op[a].value, 1)
                  /\ UNCHANGED table

Get(a) == /\ Pending(a, "get")
          /\ op[a].key \in Stored
          /\ Answer(a, <<op[a].key, table[op[a].key]>>, 1)
          /\ UNCHANGED table

GetUnknown(a) == /\ Pending(a, "get")
                 /\ op[a].key \notin Stored
                 /\ Answer(a, None, 0)
                 /\ UNCHANGED table

GetAll(a) == /\ Pending(a, "get_all")
             /\ Answer(a, {<<k, table[k]>> : k \in Stored}, Cardinality(Stored))
             /\ UNCHANGED table

Next == \E a \in App : \/ Call(a) \/ Return(a)
                       \/ Set(a) \/ SetWhenFull(a)
                       \/ Get(a) \/ GetUnknown(a) \/ GetAll(a)

Spec == Init /\ [][Next]_vars
=============================================================================
