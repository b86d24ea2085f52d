----------------------------- MODULE UdpIpcServer -----------------------------
(***************************************************************************)
(* mdsapi/src/udp_ipc_server.c: the table of message loops of one process. *)
(* The application's main thread starts and ends servers; each start makes *)
(* a thread that copies its argument out of the table, binds its socket    *)
(* and receives until the flag of its slot is zero.  No lock protects the  *)
(* table, so every read and write of a field is a step.                    *)
(*                                                                         *)
(* Slots count from 0, as in C: a slot that was wiped holds index 0.  The  *)
(* handler an application gives for port p is written p.                   *)
(***************************************************************************)
EXTENDS Integers, FiniteSets

CONSTANTS Served,   (* the ports the application serves                      *)
          MaxLoop,  (* MAX_MSG_LOOP_CNT                                      *)
          Loop,     (* the threads that can exist at one time                *)
          NoPort,   (* zeroed port or handler                                *)
          MayFail   (* TRUE: pthread_create and bind can fail                *)

ASSUME MaxLoopAssumption == MaxLoop \in Nat \ {0}
ASSUME ServedAssumption == NoPort \notin Served /\ MayFail \in BOOLEAN

VARIABLES init_flag, port_num, thread_run,  (* g_mgr_msg_loop, by slot       *)
          arg_port, arg_index, arg_proc,    (* loop_arg, by slot             *)
          main,                             (* what the main thread is doing *)
          pc, slot, port, index, proc       (* each loop and its loop_arg    *)

args == <<arg_port, arg_index, arg_proc>>
table == <<init_flag, port_num, thread_run, args>>
copy == <<slot, port, index, proc>>
loopVars == <<table, main, pc, copy>>

LoopSlot == 0..(MaxLoop - 1)
Zeroed(v) == [s \in LoopSlot |-> v]
MainIdle == [at |-> "idle", port |-> NoPort, idx |-> 0]
Doing(l, p, i) == [at |-> l, port |-> p, idx |-> i]

LoopInit == /\ init_flag = 0
            /\ port_num = Zeroed(NoPort)
            /\ thread_run = Zeroed(0)
            /\ arg_port = Zeroed(NoPort)
            /\ arg_index = Zeroed(0)
            /\ arg_proc = Zeroed(NoPort)
            /\ main = MainIdle
            /\ pc = [l \in Loop |-> "none"]
            /\ slot = [l \in Loop |-> 0]
            /\ port = [l \in Loop |-> NoPort]
            /\ index = [l \in Loop |-> 0]
            /\ proc = [l \in Loop |-> NoPort]

-----------------------------------------------------------------------------
(* _get_thread_idx: the slot of the port, else the first free one, which   *)
(* it takes, else -1.                                                      *)

FirstOf(S) == CHOOSE s \in S : \A t \in S : s <= t

(* Mutant: the search for a slot that already has the port is left out.    *)
AlwaysNewIdx(p) ==
  LET free == {s \in LoopSlot : port_num[s] = NoPort}
  IN  IF free # {} THEN FirstOf(free) ELSE -1

GetIdx(p) == LET mine == {s \in LoopSlot : port_num[s] = p}
                 free == {s \in LoopSlot : port_num[s] = NoPort}
             IN  IF mine # {} THEN FirstOf(mine) ELSE IF free # {} THEN FirstOf(free) ELSE -1

Taken(p) == [port_num EXCEPT ![GetIdx(p)] = p]

MainAt(l) == main.at = l
MainGoes(l) == main' = Doing(l, main.port, main.idx)

(* udp_ipc_server_start.  The first one ever zeroes the whole table after  *)
(* it has taken its slot.                                                  *)
StartGetIdx(p) ==
  /\ MainAt("idle")
  /\ main' = Doing(IF GetIdx(p) \in LoopSlot THEN "start_port" ELSE "overrun", p, GetIdx(p))
  /\ IF init_flag = 0
     THEN /\ port_num' = Zeroed(NoPort)
          /\ thread_run' = Zeroed(0)
          /\ arg_port' = Zeroed(NoPort)
          /\ arg_index' = Zeroed(0)
          /\ arg_proc' = Zeroed(NoPort)
     ELSE port_num' = Taken(p) /\ UNCHANGED <<thread_run, args>>
  /\ init_flag' = 1
  /\ UNCHANGED <<pc, copy>>

StartPort == /\ MainAt("start_port")
             /\ arg_port' = [arg_port EXCEPT ![main.idx] = main.port]
             /\ MainGoes("start_proc")
             /\ UNCHANGED <<init_flag, port_num, thread_run, arg_index, arg_proc, pc, copy>>

StartProc == /\ MainAt("start_proc")
             /\ arg_proc' = [arg_proc EXCEPT ![main.idx] = main.port]
             /\ MainGoes("start_index")
             /\ UNCHANGED <<init_flag, port_num, thread_run, arg_port, arg_index, pc, copy>>

StartIndex == /\ MainAt("start_index")
              /\ arg_index' = [arg_index EXCEPT ![main.idx] = main.idx]
              /\ MainGoes("start_run")
              /\ UNCHANGED <<init_flag, port_num, thread_run, arg_port, arg_proc, pc, copy>>

StartRun == /\ MainAt("start_run")
            /\ thread_run' = [thread_run EXCEPT ![main.idx] = 1]
            /\ MainGoes("start_create")
            /\ UNCHANGED <<init_flag, port_num, args, pc, copy>>

StartCreate(l) == /\ MainAt("start_create")
                  /\ pc[l] = "none"
                  /\ pc' = [pc EXCEPT ![l] = "copy_port"]
                  /\ slot' = [slot EXCEPT ![l] = main.idx]
                  /\ main' = MainIdle
                  /\ UNCHANGED <<table, port, index, proc>>

StartCreateFails == /\ MainAt("start_create")
                    /\ MayFail \/ \A l \in Loop : pc[l] # "none"
                    /\ main' = MainIdle
                    /\ UNCHANGED <<table, pc, copy>>

(* udp_ipc_server_end: memset of the slot, field by field.                 *)
EndGetIdx(p) == /\ MainAt("idle")
                /\ main' = Doing(IF GetIdx(p) \in LoopSlot THEN "end_num" ELSE "overrun", p, GetIdx(p))
                /\ port_num' = Taken(p)
                /\ UNCHANGED <<init_flag, thread_run, args, pc, copy>>

EndNum == /\ MainAt("end_num")
          /\ port_num' = [port_num EXCEPT ![main.idx] = NoPort]
          /\ MainGoes("end_run")
          /\ UNCHANGED <<init_flag, thread_run, args, pc, copy>>

EndRun == /\ MainAt("end_run")
          /\ thread_run' = [thread_run EXCEPT ![main.idx] = 0]
          /\ MainGoes("end_port")
          /\ UNCHANGED <<init_flag, port_num, args, pc, copy>>

EndPort == /\ MainAt("end_port")
           /\ arg_port' = [arg_port EXCEPT ![main.idx] = NoPort]
           /\ MainGoes("end_index")
           /\ UNCHANGED <<init_flag, port_num, thread_run, arg_index, arg_proc, pc, copy>>

(* Mutant: an index is wiped to -1.                                        *)
EndIndexMinusOne == /\ MainAt("end_index")
                    /\ arg_index' = [arg_index EXCEPT ![main.idx] = -1]
                    /\ MainGoes("end_proc")
                    /\ UNCHANGED <<init_flag, port_num, thread_run, arg_port, arg_proc, pc, copy>>

EndIndex == /\ MainAt("end_index")
            /\ arg_index' = [arg_index EXCEPT ![main.idx] = 0]
            /\ MainGoes("end_proc")
            /\ UNCHANGED <<init_flag, port_num, thread_run, arg_port, arg_proc, pc, copy>>

EndProc == /\ MainAt("end_proc")
           /\ arg_proc' = [arg_proc EXCEPT ![main.idx] = NoPort]
           /\ main' = MainIdle
           /\ UNCHANGED <<init_flag, port_num, thread_run, arg_port, arg_index, pc, copy>>

-----------------------------------------------------------------------------
(* _svr_msg_loop: the thread copies its argument, field by field.          *)

LoopGoes(l, from, to) == pc[l] = from /\ pc' = [pc EXCEPT ![l] = to]

CopyPort(l) == /\ LoopGoes(l, "copy_port", "copy_index")
               /\ port' = [port EXCEPT ![l] = arg_port[slot[l]]]
               /\ UNCHANGED <<table, main, slot, index, proc>>

CopyIndex(l) == /\ LoopGoes(l, "copy_index", "copy_proc")
                /\ index' = [index EXCEPT ![l] = arg_index[slot[l]]]
                /\ UNCHANGED <<table, main, slot, port, proc>>

(* bind follows; slot is not used again, and reset.                        *)
CopyProc(l) == /\ LoopGoes(l, "copy_proc", "check")
               /\ proc' = [proc EXCEPT ![l] = arg_proc[slot[l]]]
               /\ slot' = [slot EXCEPT ![l] = 0]
               /\ UNCHANGED <<table, main, port, index>>

(* A thread that ends leaves nothing behind but the table.                 *)
Ends(l) == /\ pc' = [pc EXCEPT ![l] = "none"]
           /\ slot' = [slot EXCEPT ![l] = 0]
           /\ port' = [port EXCEPT ![l] = NoPort]
           /\ index' = [index EXCEPT ![l] = 0]
           /\ proc' = [proc EXCEPT ![l] = NoPort]
           /\ UNCHANGED <<table, main>>

BindFails(l) == MayFail /\ pc[l] = "copy_proc" /\ Ends(l)

Check(l) == /\ LoopGoes(l, "check", "recv")
            /\ thread_run[index[l]] = 1
            /\ UNCHANGED <<table, main, copy>>

CheckStops(l) == pc[l] = "check" /\ thread_run[index[l]] = 0 /\ Ends(l)

(* Mutant: the loop reads its flag only before its first datagram.         *)
RecvForEver(l) == /\ LoopGoes(l, "recv", "recv")
                  /\ proc[l] # NoPort
                  /\ UNCHANGED <<table, main, copy>>

(* recvfrom ends with a datagram or after ten seconds, and either way the  *)
(* handler is called; a null handler kills the process, which is started   *)
(* again.                                                                  *)
LoopRecv(l) == /\ LoopGoes(l, "recv", "check")
               /\ proc[l] # NoPort
               /\ UNCHANGED <<table, main, copy>>

RecvKills(l) == /\ pc[l] = "recv"
                /\ proc[l] = NoPort
                /\ init_flag' = 0
                /\ port_num' = Zeroed(NoPort)
                /\ thread_run' = Zeroed(0)
                /\ arg_port' = Zeroed(NoPort)
                /\ arg_index' = Zeroed(0)
                /\ arg_proc' = Zeroed(NoPort)
                /\ main' = MainIdle
                /\ pc' = [m \in Loop |-> "none"]
                /\ slot' = [m \in Loop |-> 0]
                /\ port' = [m \in Loop |-> NoPort]
                /\ index' = [m \in Loop |-> 0]
                /\ proc' = [m \in Loop |-> NoPort]

-----------------------------------------------------------------------------
MainStep == \/ StartPort \/ StartProc \/ StartIndex \/ StartRun
            \/ (\E l \in Loop : StartCreate(l)) \/ StartCreateFails
            \/ EndNum \/ EndRun \/ EndPort \/ EndIndex \/ EndProc
LoopStep(l) == \/ CopyPort(l) \/ CopyIndex(l) \/ CopyProc(l) \/ BindFails(l)
               \/ Check(l) \/ CheckStops(l) \/ LoopRecv(l) \/ RecvKills(l)

LoopNext == \/ \E p \in Served : StartGetIdx(p) \/ EndGetIdx(p)
            \/ MainStep
            \/ \E l \in Loop : LoopStep(l)

LoopSpec == LoopInit /\ [][LoopNext]_loopVars

(* Threads are scheduled and recvfrom has a timeout: a loop keeps going.   *)
FairLoops == LoopSpec /\ WF_loopVars(MainStep) /\ \A l \in Loop : WF_loopVars(LoopStep(l))

-----------------------------------------------------------------------------
MainLabels == {"idle", "overrun", "start_port", "start_proc", "start_index", "start_run",
               "start_create", "end_num", "end_run", "end_port", "end_index", "end_proc"}
LoopLabels == {"none", "copy_port", "copy_index", "copy_proc", "check", "recv"}
PortOrNone == Served \cup {NoPort}

(* Type correctness of the table and of the loops; every index a thread    *)
(* uses, also one copied from a slot that was being wiped, is a slot.      *)
LoopTypeOK == /\ init_flag \in {0, 1}
              /\ port_num \in [LoopSlot -> PortOrNone]
              /\ thread_run \in [LoopSlot -> {0, 1}]
              /\ arg_port \in [LoopSlot -> PortOrNone]
              /\ arg_index \in [LoopSlot -> LoopSlot]
              /\ arg_proc \in [LoopSlot -> PortOrNone]
              /\ main.at \in MainLabels /\ main.port \in PortOrNone
              /\ main.at # "overrun" => main.idx \in LoopSlot
              /\ pc \in [Loop -> LoopLabels]
              /\ slot \in [Loop -> LoopSlot]
              /\ port \in [Loop -> PortOrNone]
              /\ index \in [Loop -> LoopSlot]
              /\ proc \in [Loop -> PortOrNone]

(* No port is ever in two slots, so ending a server clears the only slot   *)
(* that can be found under its port.                                       *)
UniquePort == \A s, t \in LoopSlot : port_num[s] # NoPort /\ port_num[s] = port_num[t] => s = t

(* An application that uses no more ports than there are slots never makes *)
(* _get_thread_idx answer -1, which start and end would use as an index:   *)
(* whatever the order of starts and ends, one for an unknown port gives    *)
(* back the slot it took.                                                  *)
NoOverrun == Cardinality(Served) <= MaxLoop => main.at # "overrun"

(* A flag that stays zero stops every loop that looks at it, also one      *)
(* whose thread was created before the flag was cleared and runs late.     *)
LoopsOn(s) == {l \in Loop : pc[l] \in {"check", "recv"} /\ index[l] = s}
StoppedLoopEnds == \A s \in LoopSlot : <>[](thread_run[s] = 0) => <>[](LoopsOn(s) = {})

=============================================================================
