---------------------------- MODULE LauncherProofs ----------------------------
(***************************************************************************)
(* What mon never does, for any programs, counts and bounds: it starts no  *)
(* second instance of a program that is alive, as long as fewer scans are  *)
(* cut short in a row than it polls; and it switches the power off for     *)
(* want of processes only because of a program it has just found.          *)
(***************************************************************************)
EXTENDS Launcher, TLAPS

Place == {"ini", "exit", "start", "start_wait", "started", "round", "look", "poll", "find",
          "refork", "refork_wait", "reforked", "off_zombie", "off_threads"}

Types == /\ at \in Place /\ i \in Nat \ {0}
         /\ chkcnt \in 0..ChkCnt /\ found_fail_apps \in {0, 1}
         /\ cur_num_thread \in [Prog -> Nat] /\ run \in [Prog -> Nat]
         /\ cuts \in 0..MaxCut

(* The program mon deals with is one of the ini file.                      *)
Dealing == /\ at \in {"start", "start_wait", "started"} => i \in Prog
           /\ at \in {"poll", "find", "refork", "refork_wait", "reforked"} => i \in Checked

(* The process mon waits for is alive.                                     *)
Waited == Waiting => run[i] > 0

(* Polls that end without a zombie and without a complete scan have each   *)
(* had a scan cut short; so when mon gives the program up it is dead, if   *)
(* so many scans cannot be.                                                *)
Polled == ChkCnt - chkcnt
DeadOrCut == MaxCut < ChkCnt =>
               /\ at = "poll" => run[i] = 0 \/ cuts >= Polled
               /\ at = "find" => run[i] = 0 \/ cuts + 1 >= Polled
               /\ at = "refork" => run[i] = 0

(* While nothing has been missed in this round, every program that has     *)
(* been looked for was found with a process at least.                      *)
NothingMissed == found_fail_apps = 0
Counted == /\ at = "poll" => chkcnt = ChkCnt \/ ~NothingMissed
           /\ at \in {"refork", "refork_wait", "reforked"} => ~NothingMissed
           /\ at \in {"look", "poll", "find"} /\ NothingMissed =>
                \A p \in Checked : p < i => cur_num_thread[p] > 0

IInv == Types /\ Dealing /\ Waited /\ DeadOrCut /\ Counted /\ ShortWasFound

-----------------------------------------------------------------------------
LEMMA Constants ==
  /\ N \in Nat \ {0} /\ ChkCnt \in Nat \ {0} /\ MaxProc \in Nat \ {0} /\ MaxCut \in Nat
  /\ Prog = 1..N /\ Checked \subseteq Prog /\ NumThread \in [Prog -> Nat]
BY CountAssumption, ProgAssumption DEF Prog

LEMMA InitInv == Init => IInv
BY Constants DEF Init, IInv, Types, Place, Dealing, Waited, Waiting, Counted, ShortWasFound, DeadOrCut, Zero

(* start_service.                                                          *)
LEMMA StartKeeps == ASSUME IInv, StartStep PROVE IInv'
<1>1. UNCHANGED <<chkcnt, found_fail_apps, cur_num_thread, cuts>>
  BY DEF StartStep, ReadIni, ReadIniFails, StartFork, Forks, StartForkFails, StartMissing,
     StartAgain, StartNext, StartExit, polling
<1>2. /\ at \in {"ini", "start", "started"}
      /\ at' \in {"ini", "exit", "start", "start_wait", "started", "round"}
      /\ i' \in Nat \ {0} /\ (at' \in {"start", "start_wait", "started"} => i' \in Prog)
  <2>1. CASE ReadIni \/ ReadIniFails
    BY <2>1, Constants DEF ReadIni, ReadIniFails, Goto
  <2>2. CASE StartFork \/ StartForkFails \/ StartMissing \/ StartAgain \/ StartExit
    BY <2>2 DEF StartFork, Forks, StartForkFails, StartMissing, StartAgain, StartExit, Goto, IInv,
       Types, Dealing
  <2>3. CASE StartNext
    BY <2>3, Constants DEF StartNext, NextProgram, Goto, IInv, Types, Dealing
  <2> QED BY <2>1, <2>2, <2>3 DEF StartStep
<1>3. run' \in [Prog -> Nat] /\ (at' = "start_wait" => run'[i'] > 0)
  <2>1. CASE StartFork
    <3>1. i' = i /\ i \in Prog /\ run \in [Prog -> Nat] /\ run' = [run EXCEPT ![i] = More(i)]
      BY <2>1 DEF StartFork, Forks, IInv, Types, Dealing
    <3>2. More(i) \in Nat /\ More(i) > 0
      BY <3>1, Constants DEF More
    <3> QED BY <3>1, <3>2
  <2>2. CASE ~StartFork
    BY <2>2 DEF StartStep, ReadIni, ReadIniFails, StartForkFails, StartMissing, StartAgain,
       StartNext, NextProgram, StartExit, Goto, world, IInv, Types
  <2> QED BY <2>1, <2>2
<1>4. Types'
  BY <1>1, <1>2, <1>3 DEF IInv, Types, Place
<1> QED BY <1>2, <1>3, <1>4 DEF IInv, Dealing, Waited, Waiting, Counted, ShortWasFound, DeadOrCut

(* check_prog between two programs.                                        *)
LEMMA RoundKeeps ==
  ASSUME IInv, Round \/ LookSkip \/ Look \/ Reforked \/ ReforkFails \/ EndOfRound \/ TooFew
  PROVE  IInv'
<1>1. UNCHANGED <<cur_num_thread, run, cuts>>
  BY DEF Round, LookSkip, Look, LookFor, Reforked, ReforkFails, EndOfRound, TooFew, polling, world
<1>2. Types /\ Dealing /\ DeadOrCut /\ Counted /\ i + 1 \in Nat \ {0} /\ cuts \in Nat
  BY Constants DEF IInv, Types
<1>3. CASE Round
  <2>1. at' = "look" /\ i' = 1 /\ chkcnt' = chkcnt /\ found_fail_apps' = 0
    BY <1>3 DEF Round, Goto
  <2>2. \A p \in Checked : ~(p < 1)
    BY Constants
  <2> QED BY <1>1, <1>2, <2>1, <2>2 DEF IInv, Types, Place, Dealing, Waited, Waiting, Counted,
     ShortWasFound, DeadOrCut
<1>4. CASE LookSkip \/ Reforked \/ ReforkFails
  <2>1. /\ at' = "look" /\ i' = i + 1 /\ UNCHANGED <<chkcnt, found_fail_apps>>
        /\ (at = "look" /\ i \notin Checked) \/ ~NothingMissed
    BY <1>2, <1>4 DEF LookSkip, Reforked, ReforkFails, Goto, polling, Counted
  <2>2. \A p \in Checked : p < i + 1 => p < i \/ p = i
    BY <1>2, Constants DEF Types
  <2>3. Counted'
    BY <1>1, <1>2, <2>1, <2>2 DEF Counted, NothingMissed
  <2> QED BY <1>1, <1>2, <2>1, <2>3 DEF IInv, Types, Place, Dealing, Waited, Waiting, ShortWasFound, DeadOrCut
<1>5. CASE Look
  <2>1. /\ at = "look" /\ at' = "poll" /\ i' = i /\ i \in Checked
        /\ chkcnt' = ChkCnt /\ found_fail_apps' = found_fail_apps
    BY <1>5 DEF Look, LookFor, Goto
  <2>2. ChkCnt - ChkCnt = 0 /\ ChkCnt \in 0..ChkCnt
    BY Constants
  <2>3. Counted'
    BY <1>1, <1>2, <2>1 DEF Counted, NothingMissed
  <2>4. DeadOrCut'
    BY <1>1, <1>2, <2>1, <2>2 DEF DeadOrCut, Polled
  <2> QED BY <1>1, <1>2, <2>1, <2>2, <2>3, <2>4 DEF IInv, Types, Place, Dealing, Waited, Waiting, ShortWasFound
<1>6. CASE EndOfRound
  <2>1. at' = "round" /\ i' = 1 /\ UNCHANGED <<chkcnt, found_fail_apps>>
    BY <1>6 DEF EndOfRound, Goto, polling
  <2> QED BY <1>1, <1>2, <2>1 DEF IInv, Types, Place, Dealing, Waited, Waiting, Counted,
     ShortWasFound, DeadOrCut
<1>7. CASE TooFew
  <2>1. /\ at = "look" /\ i > N /\ NothingMissed /\ UNCHANGED <<chkcnt, found_fail_apps>>
        /\ at' = "off_threads" /\ i' \in Prog /\ Short(i')
    BY <1>7 DEF TooFew, Goto, polling, NothingMissed
  <2>2. i' \in Checked /\ cur_num_thread[i'] < NumThread[i'] /\ i' < i
    BY <1>2, <2>1, Constants DEF Short, Types
  <2>3. cur_num_thread[i'] > 0
    BY <1>2, <2>1, <2>2 DEF Counted
  <2>4. cur_num_thread[i'] \in 1..(NumThread[i'] - 1)
    BY <1>2, <2>1, <2>2, <2>3, Constants DEF Types
  <2>5. i' \in Nat \ {0}
    BY <2>1, Constants
  <2> QED BY <1>1, <1>2, <2>1, <2>4, <2>5
          DEF IInv, Types, Place, Dealing, Waited, Waiting, Counted, ShortWasFound, DeadOrCut
<1> QED BY <1>3, <1>4, <1>5, <1>6, <1>7

(* A poll of /proc.                                                        *)
LEMMA PollKeeps ==
  ASSUME IInv, Poll \/ PollGivesUp \/ Found \/ NotFound \/ CutShort \/ FoundZombie
  PROVE  IInv'
<1>1. run' = run
  BY DEF Poll, PollGivesUp, Found, NotFound, CutShort, Missed, FoundZombie, FoundAnyZombie, world
<1>2. /\ Types /\ Dealing /\ DeadOrCut /\ Counted /\ i \in Checked /\ i \in Prog /\ i + 1 \in Nat \ {0}
      /\ cuts \in 0..MaxCut /\ MaxCut \in Nat /\ ChkCnt \in Nat \ {0} /\ chkcnt \in 0..ChkCnt
  BY Constants, SMTT(60) DEF IInv, Types, Dealing, Poll, PollGivesUp, Found, NotFound, CutShort, FoundZombie,
     FoundAnyZombie
<1>3. CASE Poll
  <2>1. /\ at = "poll" /\ at' = "find" /\ i' = i /\ chkcnt > 0 /\ chkcnt' = chkcnt - 1
        /\ cur_num_thread' = [cur_num_thread EXCEPT ![i] = 0] /\ UNCHANGED <<found_fail_apps, cuts>>
    BY <1>3 DEF Poll, Goto
  <2>2. chkcnt' \in 0..ChkCnt /\ cuts + 1 \in Nat /\ ChkCnt - chkcnt' = ChkCnt - chkcnt + 1
    BY <1>2, <2>1
  <2>3. Types'
    BY <1>1, <1>2, <2>1, <2>2 DEF Types, Place
  <2>4. DeadOrCut'
    BY <1>1, <1>2, <2>1, <2>2 DEF DeadOrCut, Polled
  <2>5. \A p \in Checked : p < i => p # i
    <3>1. i \in Int /\ ~(i < i)
      BY <1>2 DEF Types
    <3> QED BY <3>1
  <2>6. Counted'
    BY <1>2, <2>1, <2>5, Constants DEF Counted, NothingMissed, Types
  <2> QED BY <1>2, <2>1, <2>3, <2>4, <2>6 DEF IInv, Dealing, Waited, Waiting, ShortWasFound
<1>4. CASE PollGivesUp
  <2>1. /\ at = "poll" /\ at' = "refork" /\ i' = i /\ chkcnt = 0
        /\ UNCHANGED <<chkcnt, found_fail_apps, cur_num_thread, cuts>>
    BY <1>4 DEF PollGivesUp, Goto, polling
  <2>2. MaxCut < ChkCnt => run[i] = 0
    BY <1>2, <2>1 DEF DeadOrCut, Polled
  <2>3. Counted'
    BY <1>2, <2>1 DEF Counted, NothingMissed
  <2> QED BY <1>1, <1>2, <2>1, <2>2, <2>3 DEF IInv, Types, Place, Dealing, Waited, Waiting,
     ShortWasFound, DeadOrCut
<1>5. CASE Found
  <2>1. /\ at = "find" /\ at' = "look" /\ i' = i + 1 /\ run[i] > 0 /\ cuts' = 0
        /\ cur_num_thread' = [cur_num_thread EXCEPT ![i] = run[i]] /\ UNCHANGED <<chkcnt, found_fail_apps>>
    BY <1>5 DEF Found, Goto
  <2>2. \A p \in Checked : p < i + 1 => p < i \/ p = i
    BY <1>2, Constants
  <2>3. Counted'
    BY <1>2, <2>1, <2>2, Constants DEF Counted, NothingMissed, Types
  <2>4. Types'
    BY <1>1, <1>2, <2>1 DEF Types, Place
  <2> QED BY <2>1, <2>3, <2>4 DEF IInv, Dealing, Waited, Waiting, ShortWasFound, DeadOrCut
<1>6. CASE NotFound \/ CutShort
  <2>1. /\ at = "find" /\ i' = i /\ UNCHANGED <<chkcnt, cur_num_thread>>
        /\ \/ at' = "find" /\ found_fail_apps' = found_fail_apps
           \/ at' = "poll" /\ found_fail_apps' = 1
    BY <1>6 DEF NotFound, CutShort, Missed, TryAgain, Goto
  <2>2. (run[i] = 0 /\ cuts' = 0) \/ (cuts < MaxCut /\ cuts' = cuts + 1)
    BY <1>6 DEF NotFound, CutShort
  <2>3. cuts' \in 0..MaxCut /\ (run[i] = 0 \/ cuts' = cuts + 1)
    BY <1>2, <2>2
  <2>4. Types'
    BY <1>1, <1>2, <2>1, <2>3 DEF Types, Place
  <2>5. DeadOrCut'
    <3> SUFFICES ASSUME MaxCut < ChkCnt PROVE DeadOrCut'
      BY DEF DeadOrCut
    <3>1. run[i] = 0 \/ cuts' >= ChkCnt - chkcnt
      BY <1>2, <2>1, <2>3 DEF DeadOrCut, Polled
    <3>2. run[i] = 0 \/ cuts' + 1 >= ChkCnt - chkcnt
      <4>1. \A x, y \in Int : x >= y => x + 1 >= y
        OBVIOUS
      <4>2. cuts' \in Int /\ ChkCnt - chkcnt \in Int
        BY <1>2, <2>3
      <4> QED BY <3>1, <4>1, <4>2
    <3> QED BY <1>1, <2>1, <3>1, <3>2 DEF DeadOrCut, Polled
  <2>6. Counted'
    BY <1>2, <2>1 DEF Counted, NothingMissed
  <2> QED BY <1>2, <2>1, <2>4, <2>5, <2>6 DEF IInv, Dealing, Waited, Waiting, ShortWasFound
<1>7. CASE FoundZombie
  <2>1. /\ at = "find" /\ i' = i /\ UNCHANGED <<cur_num_thread, cuts>>
        /\ \/ at' = "find" /\ UNCHANGED <<found_fail_apps, chkcnt>>
           \/ at' \in {"poll", "off_zombie"} /\ found_fail_apps' = 1 /\ chkcnt' = ChkCnt
    BY <1>7 DEF FoundZombie, FoundAnyZombie, TryAgain, Goto
  <2>2. ChkCnt - ChkCnt = 0 /\ ChkCnt \in 0..ChkCnt
    BY <1>2
  <2>3. Types'
    BY <1>1, <1>2, <2>1, <2>2 DEF Types, Place
  <2>4. DeadOrCut'
    BY <1>1, <1>2, <2>1, <2>2 DEF DeadOrCut, Polled
  <2>5. Counted'
    BY <1>2, <2>1 DEF Counted, NothingMissed
  <2> QED BY <1>2, <2>1, <2>3, <2>4, <2>5 DEF IInv, Dealing, Waited, Waiting, ShortWasFound
<1> QED BY <1>3, <1>4, <1>5, <1>6, <1>7

(* A fork, and the processes that come and go.                             *)
LEMMA WorldKeeps ==
  ASSUME IInv, Refork \/ WaitedEnds \/ \E p \in Checked : World(p)
  PROVE  IInv'
<1>1. /\ i' = i /\ UNCHANGED <<chkcnt, found_fail_apps, cur_num_thread, cuts>>
  BY DEF Refork, Forks, WaitedEnds, World, Dies, Spawns, StrayReaped, polling
<1>2. Types /\ Dealing /\ Waited /\ DeadOrCut /\ Counted /\ ShortWasFound /\ run \in [Prog -> Nat] /\ Checked \subseteq Prog
  BY Constants DEF IInv, Types
<1>3. CASE Refork
  <2>1. /\ at = "refork" /\ at' \in {"refork_wait", "reforked"} /\ i \in Prog /\ run' = [run EXCEPT ![i] = More(i)]
    BY <1>2, <1>3 DEF Refork, Forks, Dealing
  <2>2. More(i) \in Nat /\ More(i) > 0
    BY <1>2, <2>1, Constants, SMTT(60) DEF More
  <2>3. run' \in [Prog -> Nat] /\ run'[i] > 0
    BY <1>2, <2>1, <2>2
  <2>4. Types'
    BY <1>1, <1>2, <2>1, <2>3 DEF Types, Place
  <2> QED BY <1>1, <1>2, <2>1, <2>3, <2>4 DEF IInv, Dealing, Waited, Waiting, Counted,
     NothingMissed, ShortWasFound, DeadOrCut
<1>4. CASE WaitedEnds
  <2>1. /\ at \in {"start_wait", "refork_wait"} /\ i \in Prog /\ run[i] > 0 /\ run' = [run EXCEPT ![i] = run[i] - 1]
        /\ at' = IF at = "start_wait" THEN "started" ELSE "reforked"
    BY <1>2, <1>4 DEF WaitedEnds, Waiting, Waited, Dealing
  <2>2. run[i] - 1 \in Nat
    BY <1>2, <2>1
  <2>3. run' \in [Prog -> Nat]
    BY <1>2, <2>1, <2>2
  <2>4. Types'
    BY <1>1, <1>2, <2>1, <2>3 DEF Types, Place
  <2> QED BY <1>1, <1>2, <2>1, <2>4 DEF IInv, Dealing, Waited, Waiting, Counted, NothingMissed,
     ShortWasFound, DeadOrCut
<1>5. CASE \E p \in Checked : World(p)
  <2>1. PICK p \in Checked : World(p)
    BY <1>5
  <2>2. at' = at
    BY <2>1 DEF World, Dies, Spawns, StrayReaped
  <2>3. \/ run' = run
        \/ run[p] > (IF Waiting /\ i = p THEN 1 ELSE 0) /\ run' = [run EXCEPT ![p] = run[p] - 1]
        \/ run[p] > 0 /\ run' = [run EXCEPT ![p] = run[p] + 1]
    BY <2>1 DEF World, Dies, Spawns, StrayReaped
  <2>4. run' \in [Prog -> Nat] /\ (\A q \in Prog : run[q] = 0 => run'[q] = 0) /\ (Waiting => run'[i] > 0)
    <3>1. p \in Prog /\ run[p] \in Nat /\ (Waiting => i \in Prog /\ run[i] > 0)
      BY <1>2, <2>1 DEF Waiting, Waited, Dealing
    <3>2. CASE run' = run
      BY <1>2, <3>1, <3>2
    <3>3. CASE run[p] > (IF Waiting /\ i = p THEN 1 ELSE 0) /\ run' = [run EXCEPT ![p] = run[p] - 1]
      <4>1. run[p] - 1 \in Nat /\ run[p] > 0 /\ (Waiting /\ i = p => run[p] - 1 > 0)
        BY <3>1, <3>3
      <4> QED BY <1>2, <3>1, <3>3, <4>1
    <3>4. CASE run[p] > 0 /\ run' = [run EXCEPT ![p] = run[p] + 1]
      <4>1. run[p] + 1 \in Nat /\ run[p] + 1 > 0 /\ run[p] # 0
        BY <3>1, <3>4
      <4> QED BY <1>2, <3>1, <3>4, <4>1
    <3> QED BY <2>3, <3>2, <3>3, <3>4
  <2>5. Types'
    BY <1>1, <1>2, <2>2, <2>4 DEF Types
  <2>6. DeadOrCut'
    BY <1>1, <1>2, <2>2, <2>4 DEF DeadOrCut, Polled, Dealing
  <2> QED BY <1>1, <1>2, <2>2, <2>4, <2>5, <2>6 DEF IInv, Dealing, Waited, Waiting, Counted,
     NothingMissed, ShortWasFound
<1> QED BY <1>3, <1>4, <1>5

LEMMA StutterKeeps == ASSUME IInv, UNCHANGED vars PROVE IInv'
BY DEF IInv, Types, Dealing, Waited, Waiting, Counted, NothingMissed, ShortWasFound, DeadOrCut,
   Polled, vars, polling, world

LEMMA NextInv == IInv /\ [Next]_vars => IInv'
BY StartKeeps, RoundKeeps, PollKeeps, WorldKeeps, StutterKeeps DEF Next, MonStep, CheckStep

-----------------------------------------------------------------------------
(* The strengthened invariant: the types, mon inside its tables, the       *)
(* process it waits for alive, and ShortWasFound.                          *)
THEOREM Invariant == Spec => []IInv
<1> QED BY InitInv, NextInv, PTL DEF Spec

(* ShortWasFound of the run: the power is switched off for a program that  *)
(* was found in this round and has too few processes, never for a count of *)
(* 0 left over from one that was not found.                                *)
THEOREM OffForTheFound == Spec => []ShortWasFound
<1>1. IInv => ShortWasFound
  BY DEF IInv
<1> QED BY <1>1, Invariant, PTL

(* ReforkOnlyDead of the run: with at most MaxCut scans cut short in a     *)
(* row, fewer than the polls of a program, mon starts again only what is   *)
(* dead.                                                                   *)
THEOREM NoSecondInstance == ASSUME MaxCut < ChkCnt PROVE Spec => ReforkOnlyDead
<1> DEFINE OnlyDead == at = "refork" /\ at' # "look" => run[i] = 0
<1>1. IInv /\ [Next]_vars => [OnlyDead]_vars
  BY DEF IInv, DeadOrCut
<1> QED BY <1>1, Invariant, PTL DEF Spec, ReforkOnlyDead
=============================================================================
