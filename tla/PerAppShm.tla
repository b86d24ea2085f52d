------------------------------ MODULE PerAppShm ------------------------------
(***************************************************************************)
(* The per-application half of mdsapi/src/mds_shm.c: a table in System V   *)
(* shared memory that every application writes without a lock.  Each read  *)
(* or write of a field of the segment is a step, so the calls of different *)
(* applications interleave between any two of them.                        *)
(*                                                                         *)
(* strcpy on a slot's name is a begin and an end step.  In between, and    *)
(* for good when two applications copy different names into the same slot  *)
(* at once, the slot can hold bytes of both: Torn, which equals no name.   *)
(* One process runs under each application name.  The datagram a set       *)
(* broadcasts last is part of the step that answers; nobody here reads it. *)
(***************************************************************************)
EXTENDS Integers, FiniteSets, Sequences

CONSTANTS App,      (* the application names                                *)
          Value,    (* the payloads an application can publish              *)
          Size,     (* PER_APP_MAX_CNT                                      *)
          None,     (* no value: zeroed memory, and "no result yet"         *)
          Null,     (* empty_app_name, the string "null"                    *)
          Torn,     (* bytes of two names                                   *)
          Junk,     (* an app_id the caller left in its struct              *)
          Serial,   (* TRUE: callers agree to run one call at a time        *)
          MayCrash  (* TRUE: a process can be killed inside a call          *)

ASSUME SizeAssumption == Size \in Nat \ {0}
ASSUME NameAssumption == {None, Null, Torn} \cap App = {} /\ None \notin {Null, Torn} /\ Null # Torn
ASSUME ValueAssumption == None \notin Value \cup Nat
ASSUME ModeAssumption == Serial \in BOOLEAN /\ MayCrash \in BOOLEAN

VARIABLES init_flag, app_name, app_id, data,   (* the segment                *)
          pc, i, op,      (* each caller's place, loop index, call and result *)
          out,            (* the entries get_all has copied so far           *)
          clash           (* clash[p]: another app's strcpy met p's          *)

segment == <<init_flag, app_name, app_id, data>>
vars == <<segment, pc, i, op, out, clash>>

Slot == 1..Size
Idle == [call |-> "none", key |-> None, value |-> None, ret |-> None]
Asked(c, k, v) == [call |-> c, key |-> k, value |-> v, ret |-> None]

(* A fresh segment is all zeroes.                                          *)
Init == /\ init_flag = 0
        /\ app_name = [s \in Slot |-> None]
        /\ app_id = [s \in Slot |-> None]
        /\ data = [s \in Slot |-> None]
        /\ pc = [p \in App |-> "idle"]
        /\ i = [p \in App |-> 1]
        /\ op = [p \in App |-> Idle]
        /\ out = [p \in App |-> <<>>]
        /\ clash = [p \in App |-> FALSE]

At(p, l) == pc[p] = l
Goto(p, l) == pc' = [pc EXCEPT ![p] = l]
GotoSlot(p, l, s) == Goto(p, l) /\ i' = [i EXCEPT ![p] = s]
Here(p) == i[p]
Past(p) == i[p] > Size
Answer(p, v, r) == op' = [op EXCEPT ![p].value = v, ![p].ret = r]

Copying == {"init_end", "name_end"}
Copied(p) == IF At(p, "init_end") THEN Null ELSE p

(* strcpy(app_name[s], v): copying a string over itself changes no byte.   *)
CopyBegin(p, s, v) ==
  LET others == {q \in App \ {p} : pc[q] \in Copying /\ Here(q) = s /\ Copied(q) # v}
  IN  /\ app_name' = [app_name EXCEPT ![s] = IF @ = v THEN v ELSE Torn]
      /\ clash' = [q \in App |-> IF q = p THEN others # {} ELSE clash[q] \/ q \in others]

CopyEnd(p, s, v) ==
  /\ \E result \in IF clash[p] THEN {v, Torn, app_name[s]} ELSE {v} :
       app_name' = [app_name EXCEPT ![s] = result]
  /\ clash' = [clash EXCEPT ![p] = FALSE]

-----------------------------------------------------------------------------
(* Every call starts with _app_shm_per_app_init.                           *)

FirstLabel(c) == IF c = "get_all" THEN "all" ELSE "find"

(* Mutant: the flag is set before the slots are initialised.               *)
EnterFlagFirst(p, o) ==
  /\ At(p, "idle")
  /\ Serial => \A q \in App : At(q, "idle")
  /\ op' = [op EXCEPT ![p] = o]
  /\ init_flag' = 1
  /\ GotoSlot(p, IF init_flag = 0 THEN "init_zero" ELSE FirstLabel(o.call), 1)
  /\ UNCHANGED <<app_name, app_id, data, out, clash>>

Enter(p, o) == /\ At(p, "idle")
               /\ Serial => \A q \in App : At(q, "idle")
               /\ op' = [op EXCEPT ![p] = o]
               /\ GotoSlot(p, IF init_flag = 0 THEN "init_zero" ELSE FirstLabel(o.call), 1)
               /\ UNCHANGED <<segment, out, clash>>

CallSet(p) == \E v \in Value : Enter(p, Asked("set", p, v))
CallGet(p) == \E k \in App : Enter(p, Asked("get", k, None))
CallGetAll(p) == Enter(p, Asked("get_all", None, None))

InitZero(p) == /\ At(p, "init_zero")
               /\ ~Past(p)
               /\ app_id' = [app_id EXCEPT ![Here(p)] = None]
               /\ data' = [data EXCEPT ![Here(p)] = None]
               /\ Goto(p, "init_begin")
               /\ UNCHANGED <<init_flag, app_name, i, op, out, clash>>

InitBegin(p) == /\ At(p, "init_begin")
                /\ CopyBegin(p, Here(p), Null)
                /\ Goto(p, "init_end")
                /\ UNCHANGED <<init_flag, app_id, data, i, op, out>>

InitEnd(p) == /\ At(p, "init_end")
              /\ CopyEnd(p, Here(p), Null)
              /\ GotoSlot(p, "init_zero", Here(p) + 1)
              /\ UNCHANGED <<init_flag, app_id, data, op, out>>

InitDone(p) == /\ At(p, "init_zero")
               /\ Past(p)
               /\ init_flag' = 1
               /\ GotoSlot(p, FirstLabel(op[p].call), 1)
               /\ UNCHANGED <<app_name, app_id, data, op, out, clash>>

-----------------------------------------------------------------------------
(* The search for the caller's key, common to set and get.                 *)

(* Mutant: a free slot ends the search, as if the table had no holes.      *)
FindStopsAtNull(p) ==
  /\ At(p, "find")
  /\ ~Past(p)
  /\ IF app_name[Here(p)] = op[p].key
     THEN Goto(p, IF op[p].call = "set" THEN "found_id" ELSE "get_mark") /\ UNCHANGED i
     ELSE GotoSlot(p, "find", IF app_name[Here(p)] = Null THEN Size + 1 ELSE Here(p) + 1)
  /\ UNCHANGED <<segment, op, out, clash>>

(* Mutant: the last slot is not searched.                                  *)
FindSkipsLast(p) ==
  /\ At(p, "find")
  /\ ~Past(p)
  /\ IF app_name[Here(p)] = op[p].key /\ Here(p) # Size
     THEN Goto(p, IF op[p].call = "set" THEN "found_id" ELSE "get_mark") /\ UNCHANGED i
     ELSE GotoSlot(p, "find", Here(p) + 1)
  /\ UNCHANGED <<segment, op, out, clash>>

Find(p) == /\ At(p, "find")
           /\ ~Past(p)
           /\ IF app_name[Here(p)] = op[p].key
              THEN Goto(p, IF op[p].call = "set" THEN "found_id" ELSE "get_mark") /\ UNCHANGED i
              ELSE GotoSlot(p, "find", Here(p) + 1)
           /\ UNCHANGED <<segment, op, out, clash>>

FindFails(p) == /\ At(p, "find")
                /\ Past(p)
                /\ IF op[p].call = "set"
                   THEN GotoSlot(p, "scan", 1) /\ UNCHANGED op
                   ELSE Goto(p, "return") /\ Answer(p, None, 0) /\ UNCHANGED i
                /\ UNCHANGED <<segment, out, clash>>

(* app_shm_set_per_app_data: overwrite the slot that was found; or claim   *)
(* the first slot named "null"; or give up and return TRUE all the same.   *)

PutId(p, from, to) == /\ At(p, from)
                      /\ \E x \in {p, Junk} : app_id' = [app_id EXCEPT ![Here(p)] = x]
                      /\ Goto(p, to)
                      /\ UNCHANGED <<init_flag, app_name, data, i, op, out, clash>>

FoundId(p) == PutId(p, "found_id", "found_data")

FoundData(p) == /\ At(p, "found_data")
                /\ data' = [data EXCEPT ![Here(p)] = op[p].value]
                /\ Answer(p, op[p].value, 1)
                /\ Goto(p, "return")
                /\ UNCHANGED <<init_flag, app_name, app_id, i, out, clash>>

(* Mutant: the last slot is taken without a look at its name.              *)
ScanTakesLast(p) == /\ At(p, "scan")
                    /\ ~Past(p)
                    /\ IF app_name[Here(p)] = Null \/ Here(p) = Size
                       THEN Goto(p, "new_id") /\ UNCHANGED i
                       ELSE GotoSlot(p, "scan", Here(p) + 1)
                    /\ UNCHANGED <<segment, op, out, clash>>

Scan(p) == /\ At(p, "scan")
           /\ ~Past(p)
           /\ IF app_name[Here(p)] = Null
              THEN Goto(p, "new_id") /\ UNCHANGED i
              ELSE GotoSlot(p, "scan", Here(p) + 1)
           /\ UNCHANGED <<segment, op, out, clash>>

ScanFails(p) == /\ At(p, "scan")
                /\ Past(p)
                /\ Answer(p, op[p].value, 1)
                /\ Goto(p, "return")
                /\ UNCHANGED <<segment, i, out, clash>>

NewId(p) == PutId(p, "new_id", "new_data")

(* Mutant: a new slot keeps the data of its last owner.                    *)
NewDataForgotten(p) == /\ At(p, "new_data")
                       /\ Goto(p, "name_begin")
                       /\ UNCHANGED <<segment, i, op, out, clash>>

NewData(p) == /\ At(p, "new_data")
              /\ data' = [data EXCEPT ![Here(p)] = op[p].value]
              /\ Goto(p, "name_begin")
              /\ UNCHANGED <<init_flag, app_name, app_id, i, op, out, clash>>

NameBegin(p) == /\ At(p, "name_begin")
                /\ CopyBegin(p, Here(p), p)
                /\ Goto(p, "name_end")
                /\ UNCHANGED <<init_flag, app_id, data, i, op, out>>

NameEnd(p) == /\ At(p, "name_end")
              /\ CopyEnd(p, Here(p), p)
              /\ Answer(p, op[p].value, 1)
              /\ Goto(p, "name_id")
              /\ UNCHANGED <<init_flag, app_id, data, i, out>>

NameId(p) == /\ At(p, "name_id")
             /\ app_id' = [app_id EXCEPT ![Here(p)] = p]
             /\ Goto(p, "return")
             /\ UNCHANGED <<init_flag, app_name, data, i, op, out, clash>>

-----------------------------------------------------------------------------
(* app_shm_get_per_app_data writes the name it looked for into the slot's  *)
(* app_id, in the shared segment, before it copies the slot out.           *)

GetMark(p) == /\ At(p, "get_mark")
              /\ app_id' = [app_id EXCEPT ![Here(p)] = op[p].key]
              /\ Goto(p, "get_id")
              /\ UNCHANGED <<init_flag, app_name, data, i, op, out, clash>>

(* memcpy out of the slot: its first field, then the rest.                 *)
ReadId(p, from, to) == /\ At(p, from)
                       /\ op' = [op EXCEPT ![p].value = app_id[Here(p)]]
                       /\ Goto(p, to)
                       /\ UNCHANGED <<segment, i, out, clash>>

GetId(p) == ReadId(p, "get_id", "get_data")

GetData(p) == /\ At(p, "get_data")
              /\ Answer(p, <<op[p].value, data[Here(p)]>>, 1)
              /\ Goto(p, "return")
              /\ UNCHANGED <<segment, i, out, clash>>

(* app_shm_get_per_app_data_all copies out every slot not named "null".    *)

AllNext(p) == /\ At(p, "all")
              /\ ~Past(p)
              /\ IF app_name[Here(p)] # Null
                 THEN Goto(p, "all_mark") /\ UNCHANGED i
                 ELSE GotoSlot(p, "all", Here(p) + 1)
              /\ UNCHANGED <<segment, op, out, clash>>

AllMark(p) == /\ At(p, "all_mark")
              /\ app_id' = [app_id EXCEPT ![Here(p)] = app_name[Here(p)]]
              /\ Goto(p, "all_id")
              /\ UNCHANGED <<init_flag, app_name, data, i, op, out, clash>>

AllId(p) == ReadId(p, "all_id", "all_data")

AllData(p) == /\ At(p, "all_data")
              /\ out' = [out EXCEPT ![p] = Append(@, <<op[p].value, data[Here(p)]>>)]
              /\ op' = [op EXCEPT ![p].value = None]
              /\ GotoSlot(p, "all", Here(p) + 1)
              /\ UNCHANGED <<segment, clash>>

AllDone(p) == /\ At(p, "all")
              /\ Past(p)
              /\ Answer(p, {out[p][k] : k \in 1..Len(out[p])}, Len(out[p]))
              /\ Goto(p, "return")
              /\ UNCHANGED <<segment, i, out, clash>>

-----------------------------------------------------------------------------
Leave(p) == /\ GotoSlot(p, "idle", 1)
            /\ op' = [op EXCEPT ![p] = Idle]
            /\ out' = [out EXCEPT ![p] = <<>>]
            /\ UNCHANGED segment

Return(p) == At(p, "return") /\ Leave(p) /\ UNCHANGED clash

(* The process dies and is started again: the segment stays as it is.      *)
Crash(p) == /\ MayCrash
            /\ pc[p] \notin {"idle", "return"}
            /\ Leave(p)
            /\ clash' = [clash EXCEPT ![p] = FALSE]

InitStep(p) == InitZero(p) \/ InitBegin(p) \/ InitEnd(p) \/ InitDone(p)
SetStep(p) == \/ FoundId(p) \/ FoundData(p) \/ Scan(p) \/ ScanFails(p)
              \/ NewId(p) \/ NewData(p) \/ NameBegin(p) \/ NameEnd(p) \/ NameId(p)
GetStep(p) == GetMark(p) \/ GetId(p) \/ GetData(p)
AllStep(p) == AllNext(p) \/ AllMark(p) \/ AllId(p) \/ AllData(p) \/ AllDone(p)
Step(p) == InitStep(p) \/ Find(p) \/ FindFails(p) \/ SetStep(p) \/ GetStep(p) \/ AllStep(p) \/ Return(p)

Next == \E p \in App : CallSet(p) \/ CallGet(p) \/ CallGetAll(p) \/ Step(p) \/ Crash(p)

Spec == Init /\ [][Next]_vars

-----------------------------------------------------------------------------
InInit(p) == pc[p] \in {"init_zero", "init_begin", "init_end"}
Claims(p, s) == pc[p] \in {"new_id", "new_data", "name_begin", "name_end"} /\ Here(p) = s

(* However the unlocked searches, claims, late initialisers and crashes    *)
(* interleave, no application name is ever in two slots: the first slot    *)
(* app_shm_get_per_app_data finds is the only one there is.                *)
UniqueName == \A s, t \in Slot : app_name[s] \in App /\ app_name[s] = app_name[t] => s = t

(* Once init_flag is set no slot still holds the zeroed name of a fresh    *)
(* segment, which no caller would ever claim.                              *)
NoRawSlot == init_flag = 1 => \A s \in Slot : app_name[s] # None

(* The caller that goes on to claim a slot has no other already, whatever  *)
(* late initialisers have written over the slots since it searched them.   *)
ClaimsOnlyIfAbsent ==
  \A p \in App, s \in Slot : Claims(p, s) => \A t \in Slot : app_name[t] = p => t = s

(* An application is settled when its name is in a slot that nobody has    *)
(* taken for free, and nobody is initialising the table.                   *)
Settled(a) == /\ init_flag = 1 /\ \A p \in App : ~InInit(p)
              /\ \E s \in Slot : app_name[s] = a /\ \A p \in App : ~Claims(p, s)

LooksUp(p, a) == op[p].call = "get" /\ op[p].key = a

(* It stays so, through kills and restarts and whatever others search for, *)
(* claim or publish, and from when the lookups that began before have      *)
(* ended every app_shm_get_per_app_data of it finds it.                    *)
SettledIsFound ==
  \A a \in App :
    [](Settled(a) /\ (\A p \in App : ~LooksUp(p, a)) =>
         [](Settled(a) /\ \A p \in App : LooksUp(p, a) => op[p].ret # 0))

(* Callers that take turns see an atomic table of Size applications.       *)
SlotOf(a) == CHOOSE s \in Slot : app_name[s] = a
Table == [a \in App |-> IF \E s \in Slot : app_name[s] = a THEN data[SlotOf(a)] ELSE None]
VisibleOp == [p \in App |-> IF op[p].call # "set" /\ op[p].ret = None
                            THEN [op[p] EXCEPT !.value = None]
                            ELSE op[p]]
Registry == INSTANCE AppRegistry WITH table <- Table, op <- VisibleOp
ImplementsRegistry == Registry!Spec
=============================================================================
