------------------------------- MODULE Launcher -------------------------------
(***************************************************************************)
(* The monitor mon: start_service of mon/mon.c, prog_start and check_prog  *)
(* of mon/launcher.c, with the functions of mdsapi they call: proc_find    *)
(* and system_fork of process.c, poweroff_and_log of power.c.  It starts   *)
(* the programs of its ini file, then looks for them in /proc, starts      *)
(* again those that are gone, and switches the power off when a zombie     *)
(* stays or too few processes of a program are left.                       *)
(*                                                                         *)
(* The programs run, die, leave zombies and make processes of their own    *)
(* name at any time.  A scan of /proc is one step.                         *)
(***************************************************************************)
EXTENDS Integers

CONSTANTS N,            (* prg_cnt                                           *)
          NumThread,    (* num_thread of each program                        *)
          Deamon,       (* the programs with make_deamon = yes               *)
          Checked,      (* the programs with check_process = yes             *)
          Present,      (* the programs whose file exists                    *)
          ForkRetry,    (* run_retry                                         *)
          ChkCnt,       (* chkcnt, 10 in the code                            *)
          ZombieMax,    (* 5 in the code                                     *)
          Tries,        (* DEFAULT_CHK_PROC_CNT                              *)
          MaxProc,      (* bound on the processes of one name                *)
          MaxCut        (* bound on the scans cut short between complete ones *)

Prog == 1..N

ASSUME CountAssumption == /\ N \in Nat \ {0} /\ ForkRetry \in Nat
                          /\ {ChkCnt, ZombieMax, Tries, MaxProc} \subseteq Nat \ {0}
                          /\ MaxCut \in Nat
ASSUME ProgAssumption == /\ Deamon \subseteq Prog /\ Checked \subseteq Prog /\ Present \subseteq Prog
                         /\ NumThread \in [Prog -> Nat]

VARIABLES at, i,            (* where mon is, and the program it is dealing with *)
          ntry,             (* attempts to read the ini file                  *)
          f_tmp, ret,       (* prog_start's retry counter and last result     *)
          chkcnt, tries,    (* polls left in check_prog and in proc_find      *)
          zombiecnt, found_fail_apps, cur_num_thread,
          run,              (* run[p]: processes of that name that are alive  *)
          zombie,           (* zombie[p]: mon has a dead child p to wait for  *)
          stray,            (* stray[p]: a zombie p has another parent        *)
          cuts,             (* scans cut short since a complete one           *)
          restart           (* g_restart_flag, cleared when it has been read  *)

polling == <<chkcnt, tries, zombiecnt, found_fail_apps, cur_num_thread>>
starting == <<ntry, f_tmp, ret>>
world == <<run, zombie, stray>>
vars == <<at, i, polling, starting, world, restart, cuts>>

Zero == [p \in Prog |-> 0]
Nowhere == [p \in Prog |-> FALSE]

(* With -restart the programs are running already and are not started.     *)
Init == /\ at = "ini" /\ i = 1
        /\ ntry = 0 /\ f_tmp = ForkRetry /\ ret = 0
        /\ chkcnt = 0 /\ tries = 0 /\ zombiecnt = 0 /\ found_fail_apps = 0
        /\ cur_num_thread = Zero
        /\ restart \in BOOLEAN
        /\ run = [p \in Prog |-> IF restart /\ p \in Checked THEN 1 ELSE 0]
        /\ zombie = Nowhere /\ stray = Nowhere /\ cuts = 0

Goto(l, k) == at' = l /\ i' = k

-----------------------------------------------------------------------------
(* start_service: three attempts to read the ini file.                     *)

ReadIni == /\ at = "ini"
           /\ Goto(IF restart THEN "round" ELSE "start", 1)
           /\ ntry' = 0 /\ restart' = FALSE
           /\ UNCHANGED <<polling, f_tmp, ret, world, cuts>>

ReadIniFails == /\ at = "ini"
                /\ ntry' = ntry + 1
                /\ Goto(IF ntry + 1 >= 3 THEN "exit" ELSE "ini", 1)
                /\ UNCHANGED <<polling, f_tmp, ret, world, restart, cuts>>

(* mds_api_system_fork: a deamon is left alone and the result is whatever  *)
(* was in status; for any other program mon waits until it ends.           *)
More(p) == IF run[p] < MaxProc THEN run[p] + 1 ELSE run[p]

Forks(from, wait, next) ==
  /\ at = from
  /\ i \in Present
  /\ run' = [run EXCEPT ![i] = More(i)]
  /\ at' = IF i \in Deamon THEN next ELSE wait
  /\ UNCHANGED <<i, polling, ntry, f_tmp, zombie, stray, restart, cuts>>

StartFork == /\ Forks("start", "start_wait", "started")
             /\ ret' \in IF i \in Deamon THEN {0, -1} ELSE {0}

StartForkFails == /\ at = "start"
                  /\ i \in Present
                  /\ ret' = -1
                  /\ Goto("started", i)
                  /\ UNCHANGED <<polling, ntry, f_tmp, world, restart, cuts>>

StartMissing == /\ at = "start"
                /\ i \notin Present
                /\ ret' = 0
                /\ Goto("started", i)
                /\ UNCHANGED <<polling, ntry, f_tmp, world, restart, cuts>>

(* while((ret == -1) && (f_tmp--)); if(!f_tmp) exit(1).  When every attempt *)
(* has failed the last f_tmp-- leaves -1, and mon goes on; when the last   *)
(* one works f_tmp is 0, and mon exits.                                    *)
NextProgram == /\ IF i < N THEN Goto("start", i + 1) ELSE Goto("round", 1)
               /\ f_tmp' = ForkRetry /\ ret' = 0

StartAgain == /\ at = "started"
              /\ ret = -1 /\ f_tmp # 0
              /\ f_tmp' = f_tmp - 1
              /\ Goto("start", i)
              /\ UNCHANGED <<polling, ntry, ret, world, restart, cuts>>

StartNext == /\ at = "started"
             /\ (ret = -1) = (f_tmp = 0)
             /\ NextProgram
             /\ UNCHANGED <<polling, ntry, world, restart, cuts>>

StartExit == /\ at = "started"
             /\ ret # -1 /\ f_tmp = 0
             /\ Goto("exit", i)
             /\ UNCHANGED <<polling, starting, world, restart, cuts>>

-----------------------------------------------------------------------------
(* check_prog: a round looks for each checked program in turn.             *)

Round == /\ at = "round"
         /\ found_fail_apps' = 0
         /\ Goto("look", 1)
         /\ UNCHANGED <<chkcnt, tries, zombiecnt, cur_num_thread, starting, world, restart, cuts>>

LookSkip == /\ at = "look"
            /\ i \in Prog \ Checked
            /\ Goto("look", i + 1)
            /\ UNCHANGED <<polling, starting, world, restart, cuts>>

LookFor(polls, fail) == /\ at = "look"
                        /\ i \in Checked
                        /\ zombiecnt' = 0
                        /\ chkcnt' = polls
                        /\ found_fail_apps' = fail
                        /\ Goto("poll", i)
                        /\ UNCHANGED <<tries, cur_num_thread, starting, world, restart, cuts>>

(* Mutants: each program forgets that the one before it was not found, or  *)
(* gets one poll less.                                                     *)
LookForgets == LookFor(ChkCnt, 0)
LookOnceLess == LookFor(ChkCnt - 1, found_fail_apps)

Look == LookFor(ChkCnt, found_fail_apps)

Poll == /\ at = "poll"
        /\ chkcnt > 0
        /\ chkcnt' = chkcnt - 1
        /\ tries' = Tries
        /\ cur_num_thread' = [cur_num_thread EXCEPT ![i] = 0]
        /\ Goto("find", i)
        /\ UNCHANGED <<zombiecnt, found_fail_apps, starting, world, restart, cuts>>

PollGivesUp == /\ at = "poll"
               /\ chkcnt = 0
               /\ Goto("refork", i)
               /\ UNCHANGED <<polling, starting, world, restart, cuts>>

(* Each attempt of mds_api_proc_find scans /proc.  A zombie ends the scan, *)
(* and is waited for if it is mon's child; a process that ends while its   *)
(* stat is read cuts the scan short, and the program counts as not found.  *)
Found == /\ at = "find"
         /\ run[i] > 0 /\ ~zombie[i] /\ ~stray[i]
         /\ cuts' = 0
         /\ cur_num_thread' = [cur_num_thread EXCEPT ![i] = run[i]]
         /\ Goto("look", i + 1)
         /\ UNCHANGED <<chkcnt, tries, zombiecnt, found_fail_apps, starting, world, restart>>

TryAgain == /\ at' = at /\ i' = i
            /\ tries' = tries - 1
            /\ UNCHANGED <<chkcnt, zombiecnt, found_fail_apps, cur_num_thread>>

Missed == /\ IF tries > 1 THEN TryAgain
             ELSE /\ found_fail_apps' = 1
                  /\ Goto("poll", i)
                  /\ UNCHANGED <<chkcnt, tries, zombiecnt, cur_num_thread>>
          /\ UNCHANGED <<starting, world, restart>>

NotFound == /\ at = "find"
            /\ run[i] = 0 /\ ~zombie[i] /\ ~stray[i]
            /\ cuts' = 0
            /\ Missed

CutShort == /\ at = "find"
            /\ cuts < MaxCut
            /\ cuts' = cuts + 1
            /\ Missed

FoundAnyZombie(counted, max) ==
  /\ at = "find"
  /\ zombie[i] \/ stray[i]
  /\ zombie' \in {zombie, [zombie EXCEPT ![i] = FALSE]}
  /\ zombie[i] /\ ~stray[i] => ~zombie'[i]
  /\ IF tries > 1 THEN TryAgain
     ELSE /\ found_fail_apps' = 1
          /\ zombiecnt' = zombiecnt + counted
          /\ chkcnt' = ChkCnt
          /\ Goto(IF zombiecnt + counted >= max THEN "off_zombie" ELSE "poll", i)
          /\ UNCHANGED <<tries, cur_num_thread>>
  /\ UNCHANGED <<starting, run, stray, restart, cuts>>

(* Mutant: zombies are not counted.                                        *)
FoundZombieUncounted == FoundAnyZombie(0, ZombieMax)

FoundZombie == FoundAnyZombie(1, ZombieMax)

(* A program that was not found is started again; the result is not used.  *)
Refork == Forks("refork", "refork_wait", "reforked") /\ UNCHANGED ret

ReforkFails == /\ at = "refork"
               /\ Goto("look", i + 1)
               /\ UNCHANGED <<polling, starting, world, restart, cuts>>

Reforked == /\ at = "reforked"
            /\ Goto("look", i + 1)
            /\ UNCHANGED <<polling, starting, world, restart, cuts>>

(* When every program was found, those that count their processes must     *)
(* have enough of them, unless /tmp/.nomon exists.  It may at any time, so *)
(* a round may always end well.                                            *)
Short(p) == p \in Checked /\ NumThread[p] # 0 /\ cur_num_thread[p] < NumThread[p]

EndOfRound == /\ at = "look"
              /\ i > N
              /\ Goto("round", 1)
              /\ UNCHANGED <<polling, starting, world, restart, cuts>>

TooFew == /\ at = "look"
          /\ i > N
          /\ found_fail_apps = 0
          /\ \E p \in Prog : Short(p) /\ Goto("off_threads", p)
          /\ UNCHANGED <<polling, starting, world, restart, cuts>>

-----------------------------------------------------------------------------
(* The programs mon looks for and the processes around them.               *)

Waiting == at \in {"start_wait", "refork_wait"}

(* The program mon waits for ends: mon reaps it and goes on.               *)
WaitedEnds == /\ Waiting
              /\ run' = [run EXCEPT ![i] = @ - 1]
              /\ at' = IF at = "start_wait" THEN "started" ELSE "reforked"
              /\ UNCHANGED <<i, polling, starting, zombie, stray, restart, cuts>>

(* Another process of that name ends: a child of init is gone, one of mon  *)
(* stays as a zombie, one of any other process may stay as a zombie.       *)
Dies(p) == /\ run[p] > (IF Waiting /\ i = p THEN 1 ELSE 0)
           /\ run' = [run EXCEPT ![p] = @ - 1]
           /\ \/ UNCHANGED <<zombie, stray>>
              \/ zombie' = [zombie EXCEPT ![p] = TRUE] /\ UNCHANGED stray
              \/ stray' = [stray EXCEPT ![p] = TRUE] /\ UNCHANGED zombie
           /\ UNCHANGED <<at, i, polling, starting, restart, cuts>>

Spawns(p) == /\ run[p] > 0 /\ run[p] < MaxProc
             /\ run' = [run EXCEPT ![p] = @ + 1]
             /\ UNCHANGED <<at, i, polling, starting, zombie, stray, restart, cuts>>

StrayReaped(p) == /\ stray[p]
                  /\ stray' = [stray EXCEPT ![p] = FALSE]
                  /\ UNCHANGED <<at, i, polling, starting, run, zombie, restart, cuts>>

-----------------------------------------------------------------------------
StartStep == \/ ReadIni \/ ReadIniFails \/ StartFork \/ StartForkFails \/ StartMissing
             \/ StartAgain \/ StartNext \/ StartExit
CheckStep == \/ Round \/ LookSkip \/ Look \/ Poll \/ PollGivesUp \/ Found \/ NotFound \/ CutShort
             \/ FoundZombie \/ Refork \/ ReforkFails \/ Reforked \/ EndOfRound \/ TooFew
MonStep == StartStep \/ CheckStep
World(p) == Dies(p) \/ Spawns(p) \/ StrayReaped(p)

Next == MonStep \/ WaitedEnds \/ \E p \in Checked : World(p)

Spec == Init /\ [][Next]_vars

(* mon is scheduled, a program it waits for ends, and fork does not fail   *)
(* every time.                                                             *)
FairSpec == Spec /\ WF_vars(MonStep) /\ WF_vars(WaitedEnds) /\ \A p \in Checked : SF_vars(i = p /\ Refork)

-----------------------------------------------------------------------------
(* check_prog never starts a second instance: as long as fewer scans are   *)
(* cut short between two complete ones than there are polls before it      *)
(* gives a program up (MaxCut < ChkCnt), it starts one again only if no    *)
(* process of that name is alive, although zombies hide the living too.    *)
ReforkOnlyDead == [][at = "refork" /\ at' # "look" => run[i] = 0]_vars

(* The power is switched off for want of processes only when the program   *)
(* was found in this very round, and with too few: one that was not found  *)
(* is started again instead, and nobody is judged by a count of 0.         *)
ShortWasFound == at = "off_threads" => cur_num_thread[i] \in 1..(NumThread[i] - 1)

(* A checked program that is dead comes back, unless mon stops before:     *)
(* whatever zombies it leaves and however the others behave.               *)
Stopped == at \in {"off_zombie", "off_threads", "exit"}
DeadComesBack == \A p \in Checked \cap Present : run[p] = 0 ~> (run[p] > 0 \/ Stopped)
=============================================================================
