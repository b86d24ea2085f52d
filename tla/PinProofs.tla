------------------------------ MODULE PinProofs ------------------------------
(***************************************************************************)
(* What holds of the pins and the LEDs.  The GPIO events, GpioEvt, for any *)
(* pins, lists and table size: the thread stays inside its tables although *)
(* every start rewrites them under it; and while the table is that of the  *)
(* first start, no edge of an armed pin is lost and a pin watched for both *)
(* edges is reported only when its level is not the one the application    *)
(* knows.  The LEDs, Led, for any number of applications and any delays:   *)
(* AgreedIsShown.                                                          *)
(***************************************************************************)
EXTENDS GpioEvt, Led, TLAPS

Label == {"none", "open", "edge", "fd", "set", "poll", "scan", "compare", "event", "store"}
Asking == [gpio_num : Pin, gpio_val : Level, evt_type : Edge]
InUse == [gpio_num : Pin, evt_type : Edge]

MgrTypes == /\ gpio_info \in [Slot -> InUse \cup {Cleared}]
            /\ gpio_last_val \in [Slot -> Level]
            /\ gpio_mgr_cnt \in 0..MaxWatch
CallerTypes == app \in Nat /\ request \in Requests \cup {<< >>} /\ starts \in Nat
ThreadTypes == /\ at \in Label /\ i \in Nat \ {0}
               /\ gpio_fd \in [Slot -> Fd] /\ nfds \in 0..MaxWatch /\ revents \in SUBSET Slot
               /\ cur \in Level
PinTypes == /\ asked \in SUBSET Pin /\ exported \in SUBSET Pin /\ armed \in SUBSET Pin
            /\ level \in [Pin -> Level] /\ ready \in SUBSET Slot /\ told \in [Pin -> Level]
Types == MgrTypes /\ CallerTypes /\ ThreadTypes /\ PinTypes

(* A start has counted the rows it has copied.                             *)
Filling == /\ app # 0 => app <= Len(request) + 1 /\ gpio_mgr_cnt = app - 1
           /\ half => app # 0 /\ app <= Len(request)

(* The row the thread works on is one of the table, whatever a start has   *)
(* made of the count since the thread compared its index with it.          *)
Inside == at \in {"edge", "fd", "compare", "event", "store"} => i <= MaxWatch

(* The first start has the table to itself until its thread runs.          *)
Alone == /\ starts = 0 => app = 0 /\ at = "none"
         /\ starts = 1 => (app = 0 <=> at # "none")

(* Until the thread polls, it has read no descriptor.                      *)
Unread == at \in {"none", "open", "edge", "fd"} => \A k \in Slot : gpio_fd[k] \in Pin => k \in ready

(* Then what it knows of an armed pin is the level, or there is an edge to *)
(* read; what it has just read is on its way into the table.               *)
Known(k) == IF at \in {"compare", "event", "store"} /\ i = k THEN cur ELSE gpio_last_val[k]
UpToDate == starts <= 1 => \A k \in Slot : gpio_fd[k] \in armed => k \in ready \/ Known(k) = level[gpio_fd[k]]

Polling == starts <= 1 /\ at = "poll" => nfds = gpio_mgr_cnt

IInv == Types /\ Filling /\ Inside /\ Alone /\ Unread /\ UpToDate /\ Polling

-----------------------------------------------------------------------------
LEMMA RequestIs ==
  ASSUME Types
  PROVE  /\ request \in Seq(Asking) /\ Len(request) \in Nat /\ Len(request) <= MaxWatch
         /\ DOMAIN request = 1..Len(request)
<1>1. MaxWatch \in Nat \ {0} /\ Requests \subseteq Seq(Asking) /\ \A r \in Requests : Len(r) <= MaxWatch
  BY RequestAssumption DEF Asking
<1>2. request \in Requests \/ request = << >>
  BY DEF Types, CallerTypes
<1>3. request \in Seq(Asking) /\ Len(request) <= MaxWatch
  <2>1. CASE request \in Requests
    BY <1>1, <2>1
  <2>2. CASE request = << >>
    BY <1>1, <2>2
  <2> QED BY <1>2, <2>1, <2>2
<1>4. Len(request) \in Nat /\ DOMAIN request = 1..Len(request)
  BY <1>3
<1> QED BY <1>3, <1>4

LEMMA InitInv == Init => IInv
<1> SUFFICES ASSUME Init PROVE IInv
  OBVIOUS
<1>1. MaxWatch \in Nat \ {0}
  BY RequestAssumption
<1>2. Types
  BY <1>1 DEF Init, Types, MgrTypes, CallerTypes, ThreadTypes, PinTypes, Label, Level, Fd
<1>3. Unread /\ UpToDate
  <2>1. \A k \in Slot : gpio_fd[k] \notin Pin
    BY MarkAssumption DEF Init
  <2> QED BY <2>1, <1>2 DEF Unread, UpToDate, Types, PinTypes
<1> QED BY <1>2, <1>3 DEF Init, IInv, Filling, Inside, Alone, Polling

(* A start at work: it is the first one, or no longer matters.             *)
LEMMA StartKeeps == ASSUME IInv, Start PROVE IInv'
<1>1. MaxWatch \in Nat \ {0} /\ Requests \subseteq Seq(Asking) /\ \A r \in Requests : Len(r) \in Nat /\ Len(r) <= MaxWatch
  <2>1. MaxWatch \in Nat \ {0} /\ Requests \subseteq Seq(Asking) /\ \A r \in Requests : Len(r) <= MaxWatch
    BY RequestAssumption DEF Asking
  <2> QED BY <2>1
<1>2. Types /\ Filling /\ Inside /\ Alone /\ Unread /\ UpToDate /\ Polling
  BY DEF IInv
<1>3. CASE \E r \in Requests : StartClear(r)
  <2>1. PICK r \in Requests : StartClear(r)
    BY <1>3
  <2>2. Len(r) \in Nat /\ 1 <= Len(r) + 1
    BY <1>1
  <2>3. /\ gpio_info' = [k \in Slot |-> Cleared] /\ gpio_last_val' = [k \in Slot |-> 0] /\ gpio_mgr_cnt' = 0
        /\ app = 0 /\ request' = r /\ app' = 1 /\ starts' = starts + 1 /\ half' = half
        /\ UNCHANGED <<at, i, gpio_fd, nfds, revents, cur, asked, exported, armed, level, ready, told>>
    BY <2>1 DEF StartClear, Forget, polled, pins, sysfs
  <2>4. Types'
    BY <1>1, <1>2, <2>3 DEF Types, MgrTypes, CallerTypes, ThreadTypes, PinTypes, Level
  <2>5. Filling' /\ Inside' /\ Unread'
    BY <1>2, <2>2, <2>3 DEF Filling, Inside, Unread
  <2>6. starts' = 1 => starts = 0 /\ at = "none"
    BY <1>2, <2>3 DEF Alone, Types, CallerTypes
  <2>7. starts' # 0 /\ (starts' <= 1 => starts' = 1)
    BY <1>2, <2>3 DEF Types, CallerTypes
  <2>8. Alone' /\ Polling'
    BY <2>3, <2>6, <2>7 DEF Alone, Polling
  <2>9. UpToDate'
    BY <1>2, <2>3, <2>6, <2>7 DEF UpToDate, Unread, Types, PinTypes
  <2> QED BY <2>4, <2>5, <2>8, <2>9 DEF IInv
<1>4. app # 0 /\ starts <= 1 => at = "none"
  BY <1>2 DEF Alone, Types, CallerTypes
<1>5. CASE CopyRow
  <2>1. app \in 1..Len(request) /\ request[app] \in Asking /\ app \in Slot
    BY <1>1, <1>2, <1>5, RequestIs DEF CopyRow, Slot
  <2> DEFINE n == request[app].gpio_num  t == request[app].evt_type  v == request[app].gpio_val
  <2>2. n \in Pin /\ t \in Edge /\ v \in Level
    BY <2>1 DEF Asking
  <2>3. /\ gpio_info' = [gpio_info EXCEPT ![app] = [gpio_num |-> n, evt_type |-> t]]
        /\ told' = [told EXCEPT ![n] = v] /\ half'
        /\ UNCHANGED <<gpio_last_val, gpio_mgr_cnt, app, request, starts, at, i, gpio_fd, nfds, revents,
                       cur, asked, exported, armed, level, ready>>
    BY <1>5 DEF CopyRow, polled, pins, sysfs
  <2> HIDE DEF n, t, v
  <2>4. [gpio_num |-> n, evt_type |-> t] \in InUse
    BY <2>2 DEF InUse
  <2>5. gpio_info' \in [Slot -> InUse \cup {Cleared}] /\ told' \in [Pin -> Level]
    BY <1>2, <2>2, <2>3, <2>4 DEF Types, MgrTypes, PinTypes
  <2>6. Types'
    BY <1>2, <2>3, <2>5 DEF Types, MgrTypes, CallerTypes, ThreadTypes, PinTypes
  <2>7. Filling' /\ Inside' /\ Alone' /\ Unread' /\ Polling'
    BY <1>2, <2>1, <2>3 DEF Filling, Inside, Alone, Unread, Polling
  <2>8. UpToDate'
    BY <1>2, <2>3 DEF UpToDate, Known
  <2> QED BY <2>6, <2>7, <2>8 DEF IInv
<1>6. CASE CountRow
  <2>1. app \in 1..Len(request) /\ request[app] \in Asking /\ app \in Slot
    BY <1>1, <1>2, <1>6, RequestIs DEF CountRow, Slot
  <2> DEFINE v == request[app].gpio_val
  <2>2. v \in Level
    BY <2>1 DEF Asking
  <2>3. /\ gpio_last_val' = [gpio_last_val EXCEPT ![app] = v] /\ gpio_mgr_cnt' = gpio_mgr_cnt + 1
        /\ app' = app + 1 /\ ~half'
        /\ UNCHANGED <<gpio_info, request, starts, at, i, gpio_fd, nfds, revents, cur, asked, exported, armed,
                       level, ready, told>>
    BY <1>6 DEF CountRow, polled, pins, sysfs
  <2> HIDE DEF v
  <2>4. gpio_mgr_cnt' = app /\ app' # 0 /\ app' \in Nat /\ app <= MaxWatch /\ app' <= Len(request) + 1
    <3>1. app \in 1..Len(request) /\ Len(request) \in Nat /\ Len(request) <= MaxWatch /\ MaxWatch \in Nat
      BY <1>1, <1>2, <2>1, RequestIs
    <3>2. app # 0 /\ gpio_mgr_cnt = app - 1
      BY <1>2, <3>1 DEF Filling
    <3> QED BY <2>3, <3>1, <3>2
  <2>5. gpio_last_val' \in [Slot -> Level] /\ gpio_mgr_cnt' \in 0..MaxWatch
    BY <1>1, <1>2, <2>1, <2>2, <2>3, <2>4 DEF Types, MgrTypes, Slot
  <2>6. Types'
    BY <1>2, <2>3, <2>4, <2>5 DEF Types, MgrTypes, CallerTypes, ThreadTypes, PinTypes
  <2>7. app # 0 /\ app' - 1 = app
    BY <2>1, <2>3
  <2>8. Filling' /\ Inside' /\ Alone' /\ Unread' /\ Polling'
    BY <1>2, <1>4, <2>3, <2>4, <2>7 DEF Filling, Inside, Alone, Unread, Polling
  <2>9. UpToDate'
    BY <1>2, <1>4, <2>3, <2>7 DEF UpToDate, Unread, Types, PinTypes
  <2> QED BY <2>6, <2>8, <2>9 DEF IInv
<1>7. CASE StartThread
  <2>1. /\ app # 0 /\ app' = 0 /\ at' = (IF at = "none" THEN "open" ELSE at) /\ half' = half
        /\ UNCHANGED <<gpio_info, gpio_last_val, gpio_mgr_cnt, request, starts, i, gpio_fd, nfds, revents, cur,
                       asked, exported, armed, level, ready, told>>
    BY <1>2, <1>7, RequestIs DEF StartThread, mgr, polled, pins, sysfs
  <2>2. ~half
    BY <1>2, <1>7, RequestIs DEF StartThread, Filling
  <2>3. Types'
    BY <1>2, <2>1 DEF Types, MgrTypes, CallerTypes, ThreadTypes, PinTypes, Label
  <2>4. Filling' /\ Inside' /\ Alone' /\ Unread' /\ Polling'
    BY <1>2, <1>4, <2>1, <2>2 DEF Filling, Inside, Alone, Unread, Polling
  <2>5. UpToDate'
    BY <1>2, <1>4, <2>1 DEF UpToDate, Unread, Types, PinTypes
  <2> QED BY <2>3, <2>4, <2>5 DEF IInv
<1> QED BY <1>3, <1>5, <1>6, <1>7 DEF Start

-----------------------------------------------------------------------------
LEMMA ExportIs ==
  ASSUME Types, NEW p \in Pin \cup {NoPin}, export_chk_gpio_num(p)
  PROVE  /\ asked' \in SUBSET Pin /\ exported' \in SUBSET Pin
         /\ p \in Pin
BY MarkAssumption DEF export_chk_gpio_num, Types, PinTypes

LEMMA RowIs == ASSUME Types, i \in Slot
               PROVE  /\ gpio_info[i].gpio_num \in Pin \cup {NoPin} /\ gpio_info[i].evt_type \in Edge
                      /\ gpio_info[i] = Cleared \/ gpio_info[i].gpio_num \in Pin
<1>1. gpio_info[i] \in InUse \/ gpio_info[i] = Cleared
  BY DEF Types, MgrTypes
<1> QED BY <1>1 DEF InUse, Cleared, Edge

(* The thread opens the pins.                                              *)
LEMMA OpenKeeps == ASSUME IInv, OpenPin \/ OpenDone PROVE IInv'
<1>1. Types /\ Filling /\ Inside /\ Alone /\ Unread /\ UpToDate /\ Polling /\ MaxWatch \in Nat
  BY RequestAssumption DEF IInv
<1>2. CASE SetDirection
  <2>1. /\ at = "open" /\ at' = "edge" /\ i <= gpio_mgr_cnt
        /\ UNCHANGED <<gpio_info, gpio_last_val, gpio_mgr_cnt, app, half, request, starts, i, gpio_fd, nfds, revents,
                       cur, armed, level, ready, told>>
    BY <1>2 DEF SetDirection, Opening, mgr, caller
  <2>2. i \in Slot
    BY <1>1, <2>1 DEF Types, MgrTypes, ThreadTypes, Slot
  <2>3. asked' \in SUBSET Pin /\ exported' \in SUBSET Pin
    BY <1>1, <1>2, <2>2, ExportIs, RowIs DEF SetDirection, Types, PinTypes
  <2>4. Types'
    BY <1>1, <2>1, <2>3 DEF Types, MgrTypes, CallerTypes, ThreadTypes, PinTypes, Label
  <2>5. Filling' /\ Inside' /\ Alone' /\ Unread' /\ Polling'
    BY <1>1, <2>1, <2>2 DEF Filling, Inside, Alone, Unread, Polling, Slot
  <2>6. UpToDate'
    BY <1>1, <2>1 DEF UpToDate, Known
  <2> QED BY <2>4, <2>5, <2>6 DEF IInv
<1>3. CASE SetEdge
  <2>1. /\ at = "edge" /\ at' = "fd"
        /\ UNCHANGED <<gpio_info, gpio_last_val, gpio_mgr_cnt, app, half, request, starts, i, gpio_fd, nfds, revents,
                       cur, level, ready, told>>
    BY <1>3 DEF SetEdge, Opening, mgr, caller
  <2>2. i \in Slot
    BY <1>1, <2>1 DEF Types, ThreadTypes, Inside, Slot
  <2>3. asked' \in SUBSET Pin /\ exported' \in SUBSET Pin /\ armed' \in SUBSET Pin
    <3> DEFINE p == gpio_info[i].gpio_num
    <3>1. p \in Pin \cup {NoPin}
      BY <1>1, <2>2, RowIs
    <3>2. \/ export_chk_gpio_num(p) /\ armed' = IF p \in exported' THEN armed \cup {p} ELSE armed
          \/ UNCHANGED <<asked, exported, armed>>
      BY <1>3 DEF SetEdge, sysfs
    <3> HIDE DEF p
    <3>3. CASE export_chk_gpio_num(p) /\ armed' = IF p \in exported' THEN armed \cup {p} ELSE armed
      <4>1. asked' \in SUBSET Pin /\ exported' \in SUBSET Pin /\ p \in Pin
        BY <1>1, <3>1, <3>3, ExportIs
      <4> QED BY <1>1, <3>3, <4>1 DEF Types, PinTypes
    <3>4. CASE UNCHANGED <<asked, exported, armed>>
      BY <1>1, <3>4 DEF Types, PinTypes
    <3> QED BY <3>2, <3>3, <3>4
  <2>4. Types'
    BY <1>1, <2>1, <2>3 DEF Types, MgrTypes, CallerTypes, ThreadTypes, PinTypes, Label
  <2>5. Filling' /\ Inside' /\ Alone' /\ Unread' /\ Polling'
    BY <1>1, <2>1 DEF Filling, Inside, Alone, Unread, Polling
  <2>6. UpToDate'
    BY <1>1, <2>1, <2>3 DEF UpToDate, Unread
  <2> QED BY <2>4, <2>5, <2>6 DEF IInv
<1>4. CASE GetFd
  <2>1. /\ at = "fd" /\ at' = "open" /\ i' = i + 1
        /\ UNCHANGED <<gpio_info, gpio_last_val, gpio_mgr_cnt, app, half, request, starts, nfds, revents,
                       cur, armed, level, told>>
    BY <1>4 DEF GetFd, Opening, mgr, caller
  <2>2. i \in Slot
    BY <1>1, <2>1 DEF Types, ThreadTypes, Inside, Slot
  <2> DEFINE p == gpio_info[i].gpio_num
  <2>3. p \in Pin \cup {NoPin}
    BY <1>1, <2>2, RowIs
  <2>4. asked' \in SUBSET Pin /\ exported' \in SUBSET Pin
    <3>1. export_chk_gpio_num(p) \/ UNCHANGED <<asked, exported>>
      BY <1>4 DEF GetFd
    <3> HIDE DEF p
    <3> QED BY <1>1, <2>3, <3>1, ExportIs DEF Types, PinTypes
  <2>5. PICK fd \in {p, NoFd} \ {NoPin} : /\ gpio_fd' = [gpio_fd EXCEPT ![i] = fd]
                                          /\ ready' = IF fd = NoFd THEN ready ELSE ready \cup {i}
    BY <1>4 DEF GetFd
  <2>6. fd \in Pin \cup {NoFd}
    BY <2>3, <2>5
  <2> HIDE DEF p
  <2>7. gpio_fd' \in [Slot -> Fd] /\ ready' \in SUBSET Slot /\ i' \in Nat \ {0}
    BY <1>1, <2>1, <2>2, <2>5, <2>6 DEF Types, ThreadTypes, PinTypes, Fd
  <2>8. Types'
    BY <1>1, <2>1, <2>4, <2>7 DEF Types, MgrTypes, CallerTypes, ThreadTypes, PinTypes, Label
  <2>9. Unread'
    <3>1. ready \subseteq ready' /\ (fd \in Pin => i \in ready')
      BY <2>5, MarkAssumption
    <3>2. \A k \in Slot : gpio_fd'[k] = IF k = i THEN fd ELSE gpio_fd[k]
      BY <1>1, <2>5 DEF Types, ThreadTypes
    <3> QED BY <1>1, <2>1, <3>1, <3>2 DEF Unread
  <2>10. Filling' /\ Inside' /\ Alone' /\ Polling'
    BY <1>1, <2>1 DEF Filling, Inside, Alone, Polling
  <2>11. UpToDate'
    BY <1>1, <2>1, <2>9 DEF UpToDate, Unread, Types, PinTypes
  <2> QED BY <2>8, <2>9, <2>10, <2>11 DEF IInv
<1>5. CASE OpenDone
  <2>1. /\ at = "open" /\ at' = "set" /\ asked' = {} /\ exported' = {}
        /\ UNCHANGED <<gpio_info, gpio_last_val, gpio_mgr_cnt, app, half, request, starts, i, gpio_fd, nfds, revents,
                       cur, armed, level, ready, told>>
    BY <1>5 DEF OpenDone, mgr, caller, polled
  <2>2. Types'
    BY <1>1, <2>1 DEF Types, MgrTypes, CallerTypes, ThreadTypes, PinTypes, Label
  <2>3. Filling' /\ Inside' /\ Alone' /\ Unread' /\ Polling'
    BY <1>1, <2>1 DEF Filling, Inside, Alone, Unread, Polling
  <2>4. UpToDate'
    BY <1>1, <2>1 DEF UpToDate, Known
  <2> QED BY <2>2, <2>3, <2>4 DEF IInv
<1> QED BY <1>2, <1>3, <1>4, <1>5 DEF OpenPin

(* The thread between two rows: only its place and index move, and what    *)
(* poll is given and answers.                                              *)
LEMMA PollKeeps ==
  ASSUME IInv, SetFds \/ PollAnswers \/ PollEmpty \/ SkipRow \/ ScanDone \/ Compare \/ Report
  PROVE  IInv'
<1>1. Types /\ Filling /\ Inside /\ Alone /\ Unread /\ UpToDate /\ Polling /\ MaxWatch \in Nat
  BY RequestAssumption DEF IInv
<1>2. UNCHANGED <<gpio_info, gpio_last_val, gpio_mgr_cnt, app, half, request, starts, gpio_fd, cur,
                  asked, exported, armed, level, ready>>
  BY DEF SetFds, PollAnswers, PollEmpty, SkipRow, ScanDone, Compare, Report, mgr, caller, polled, pins, sysfs
<1>3. \/ at = "set" /\ at' = "poll" /\ nfds' = gpio_mgr_cnt /\ i' = i
      \/ at = "poll" /\ at' = "scan" /\ i' = 1 /\ nfds' = nfds
      \/ at \in {"poll", "scan"} /\ at' = "set" /\ i' = i /\ nfds' = nfds
      \/ at = "scan" /\ at' = "scan" /\ i' = i + 1 /\ nfds' = nfds
      \/ at = "compare" /\ at' = "scan" /\ i' = i + 1 /\ nfds' = nfds /\ gpio_last_val[i] = cur
      \/ at = "compare" /\ at' \in {"event", "store"} /\ i' = i /\ nfds' = nfds
      \/ at = "event" /\ at' = "store" /\ i' = i /\ nfds' = nfds
  BY DEF SetFds, PollAnswers, PollEmpty, SkipRow, ScanDone, Compare, Report, NextRow, polled
<1>4. revents' \in SUBSET Slot
  <2>1. CASE PollAnswers
    <3>1. ReadyFds \cup RawFds \subseteq Slot
      BY <1>1 DEF ReadyFds, RawFds, Types, ThreadTypes, Slot
    <3> QED BY <2>1, <3>1 DEF PollAnswers
  <2>2. CASE ~PollAnswers
    BY <1>1, <2>2 DEF SetFds, PollEmpty, SkipRow, ScanDone, Compare, Report, polled, Types, ThreadTypes
  <2> QED BY <2>1, <2>2
<1>5. told' \in [Pin -> Level]
  <2>1. CASE Report
    BY <1>1, <2>1 DEF Report, Types, PinTypes, ThreadTypes
  <2>2. CASE ~Report
    BY <1>1, <2>2 DEF SetFds, PollAnswers, PollEmpty, SkipRow, ScanDone, Compare, Types, PinTypes
  <2> QED BY <2>1, <2>2
<1>6. at' \in Label /\ i' \in Nat \ {0} /\ nfds' \in 0..MaxWatch
  BY <1>1, <1>3 DEF Types, ThreadTypes, MgrTypes, Label
<1>7. Types'
  BY <1>1, <1>2, <1>4, <1>5, <1>6 DEF Types, MgrTypes, CallerTypes, ThreadTypes, PinTypes
<1>8. Filling' /\ Inside' /\ Alone' /\ Unread' /\ Polling'
  BY <1>1, <1>2, <1>3 DEF Filling, Inside, Alone, Unread, Polling
<1>9. UpToDate'
  <2>1. \A k \in Slot : Known(k)' = Known(k)
    BY <1>2, <1>3 DEF Known
  <2> QED BY <1>1, <1>2, <2>1 DEF UpToDate
<1> QED BY <1>7, <1>8, <1>9 DEF IInv

(* A read takes the edge off the descriptor and the level with it.         *)
LEMMA ReadKeeps == ASSUME IInv, ReadPin \/ ReadRaw PROVE IInv'
<1>1. Types /\ Filling /\ Inside /\ Alone /\ Unread /\ UpToDate /\ Polling /\ MaxWatch \in Nat
  BY RequestAssumption DEF IInv
<1>2. /\ at = "scan" /\ at' = "compare" /\ i <= gpio_mgr_cnt
      /\ UNCHANGED <<gpio_info, gpio_last_val, gpio_mgr_cnt, app, half, request, starts, i, gpio_fd, nfds, revents,
                     asked, exported, armed, level, told>>
  BY DEF ReadPin, ReadRaw, mgr, caller, polled, pins, sysfs
<1>3. i \in Slot
  BY <1>1, <1>2 DEF Types, MgrTypes, ThreadTypes, Slot
<1>4. \/ gpio_fd[i] \in Pin /\ cur' = level[gpio_fd[i]] /\ ready' = ready \ {i}
      \/ gpio_fd[i] \notin Pin /\ cur' \in Level /\ ready' = ready
  BY MarkAssumption DEF ReadPin, ReadRaw, Polled, pins
<1>5. Types'
  <2>1. cur' \in Level /\ ready' \in SUBSET Slot
    BY <1>1, <1>4 DEF Types, PinTypes
  <2> QED BY <1>1, <1>2, <2>1 DEF Types, MgrTypes, CallerTypes, ThreadTypes, PinTypes, Label
<1>6. Filling' /\ Inside' /\ Alone' /\ Unread' /\ Polling'
  BY <1>1, <1>2, <1>3 DEF Filling, Inside, Alone, Unread, Polling, Slot
<1>7. UpToDate'
  <2> SUFFICES ASSUME starts <= 1, NEW k \in Slot, gpio_fd[k] \in armed
               PROVE  k \in ready' \/ Known(k)' = level[gpio_fd[k]]
    BY <1>2 DEF UpToDate
  <2>1. CASE k = i
    BY <1>1, <1>2, <1>4, <2>1 DEF Known, Types, PinTypes
  <2>2. CASE k # i
    BY <1>1, <1>2, <1>4, <2>2 DEF Known, UpToDate
  <2> QED BY <2>1, <2>2
<1> QED BY <1>5, <1>6, <1>7 DEF IInv

LEMMA StoreKeeps == ASSUME IInv, Store PROVE IInv'
<1>1. Types /\ Filling /\ Inside /\ Alone /\ Unread /\ UpToDate /\ Polling /\ MaxWatch \in Nat
  BY RequestAssumption DEF IInv
<1>2. /\ at = "store" /\ at' = "scan" /\ i' = i + 1 /\ gpio_last_val' = [gpio_last_val EXCEPT ![i] = cur]
      /\ UNCHANGED <<gpio_info, gpio_mgr_cnt, app, half, request, starts, gpio_fd, nfds, revents, cur,
                     asked, exported, armed, level, ready, told>>
  BY DEF Store, NextRow, caller, polled, pins, sysfs
<1>3. Types'
  <2>1. gpio_last_val \in [Slot -> Level] /\ cur \in Level
    BY <1>1 DEF Types, MgrTypes, ThreadTypes
  <2>2. gpio_last_val' \in [Slot -> Level]
    BY <1>2, <2>1
  <2>3. i' \in Nat \ {0}
    BY <1>1, <1>2 DEF Types, ThreadTypes
  <2> QED BY <1>1, <1>2, <2>2, <2>3 DEF Types, MgrTypes, CallerTypes, ThreadTypes, PinTypes, Label
<1>4. Filling' /\ Inside' /\ Alone' /\ Unread' /\ Polling'
  BY <1>1, <1>2 DEF Filling, Inside, Alone, Unread, Polling
<1>5. \A k \in Slot : Known(k)' = Known(k)
  BY <1>1, <1>2 DEF Known, Types, MgrTypes
<1> QED BY <1>1, <1>2, <1>3, <1>4, <1>5 DEF IInv, UpToDate

(* A pin moves: an armed one that is open is ready to be read.             *)
LEMMA PinKeeps == ASSUME IInv, NEW p \in Pin, Exported(p) \/ Flip(p) PROVE IInv'
<1>1. Types /\ Filling /\ Inside /\ Alone /\ Unread /\ UpToDate /\ Polling
  BY DEF IInv
<1>2. UNCHANGED <<gpio_info, gpio_last_val, gpio_mgr_cnt, app, half, request, starts, at, i, gpio_fd, nfds, revents,
                  cur, asked, armed, told>>
  BY DEF Exported, Flip, mgr, caller, polled, sysfs
<1>3. exported' \in SUBSET Pin
  BY <1>1 DEF Exported, Flip, sysfs, Types, PinTypes
<1>4. /\ level' \in [Pin -> Level] /\ ready \subseteq ready' /\ ready' \subseteq Slot
      /\ \A k \in Slot : gpio_fd[k] \in armed => k \in ready' \/ level'[gpio_fd[k]] = level[gpio_fd[k]]
  <2>1. CASE Exported(p)
    BY <1>1, <2>1 DEF Exported, Types, PinTypes
  <2>2. CASE Flip(p)
    <3>1. level' = [level EXCEPT ![p] = 1 - level[p]] /\ ready' = ready \cup {k \in Slot : gpio_fd[k] = p /\ p \in armed}
      BY <2>2 DEF Flip
    <3>2. 1 - level[p] \in Level
      BY <1>1 DEF Types, PinTypes, Level
    <3> QED BY <1>1, <3>1, <3>2 DEF Types, PinTypes
  <2> QED BY <2>1, <2>2
<1>5. Types'
  BY <1>1, <1>2, <1>3, <1>4 DEF Types, MgrTypes, CallerTypes, ThreadTypes, PinTypes
<1>6. Filling' /\ Inside' /\ Alone' /\ Unread' /\ Polling'
  BY <1>1, <1>2, <1>4 DEF Filling, Inside, Alone, Unread, Polling
<1>7. UpToDate'
  BY <1>1, <1>2, <1>4 DEF UpToDate, Known
<1> QED BY <1>5, <1>6, <1>7 DEF IInv

LEMMA NextInv == IInv /\ [Next]_vars => IInv'
<1>1. ASSUME IInv, UNCHANGED vars PROVE IInv'
  BY <1>1 DEF IInv, Types, MgrTypes, CallerTypes, ThreadTypes, PinTypes, Filling, Inside, Alone, Unread,
     UpToDate,
              Known, Polling, vars, mgr, caller, polled, pins, sysfs
<1>2. ASSUME IInv, Next PROVE IInv'
  <2>1. CASE Start
    BY <1>2, <2>1, StartKeeps
  <2>2. CASE Thread
    BY <1>2, <2>2, OpenKeeps, PollKeeps, ReadKeeps, StoreKeeps DEF Thread
  <2>3. CASE \E p \in Pin : Exported(p) \/ Flip(p)
    BY <1>2, <2>3, PinKeeps
  <2> QED BY <1>2, <2>1, <2>2, <2>3 DEF Next
<1> QED BY <1>1, <1>2

-----------------------------------------------------------------------------
(* The types, and the thread inside its tables: through any number of      *)
(* starts that clear and refill them, no index and no count leaves them.   *)
THEOREM Invariant == Spec => []IInv
<1> QED BY InitInv, NextInv, PTL DEF Spec

(* NoEdgeLost of the run: a thread that waits in poll knows the level of   *)
(* every pin it has armed and opened, or the poll will end.                *)
THEOREM EveryEdgeSeen == Spec => []NoEdgeLost
<1>1. IInv => NoEdgeLost
  <2> SUFFICES ASSUME IInv, starts = 1, at = "poll", NEW k \in 1..gpio_mgr_cnt, gpio_fd[k] \in armed
               PROVE  gpio_last_val[k] = level[gpio_fd[k]] \/ k \in ReadyFds
    BY DEF NoEdgeLost
  <2>1. Types /\ UpToDate /\ Polling /\ MaxWatch \in Nat
    BY RequestAssumption DEF IInv
  <2>2. k \in Slot /\ nfds = gpio_mgr_cnt
    BY <2>1 DEF Types, MgrTypes, Polling, Slot
  <2>3. k \in ready \/ gpio_last_val[k] = level[gpio_fd[k]]
    BY <2>1, <2>2 DEF UpToDate, Known
  <2> QED BY <2>1, <2>2, <2>3 DEF ReadyFds, Types, PinTypes
<1> QED BY <1>1, Invariant, PTL

-----------------------------------------------------------------------------
(* Lists that watch no pin twice: of two rows for one pin the second would *)
(* report what the first has just told.                                    *)
PinsDiffer == \A r \in Requests : \A j, k \in 1..Len(r) : r[j].gpio_num = r[k].gpio_num => j = k

(* A start has copied the rows up to its own.                              *)
Copied == app # 0 =>
  \A k \in Slot : IF k < app \/ (half /\ k = app)
                  THEN k <= Len(request) /\ gpio_info[k].gpio_num = request[k].gpio_num
                  ELSE gpio_info[k] = Cleared
RowsDiffer == \A j, k \in Slot : gpio_info[j].gpio_num \in Pin /\ gpio_info[j].gpio_num = gpio_info[k].gpio_num => j = k

(* The application knows of a pin what its row will say when the thread    *)
(* and the start have finished with it.                                    *)
Due(k) == IF at = "store" /\ k = i THEN cur
          ELSE IF half /\ k = app THEN request[k].gpio_val ELSE gpio_last_val[k]
Told == starts <= 1 => \A k \in Slot : gpio_info[k].evt_type = "both" => told[gpio_info[k].gpio_num] = Due(k)
Changed == starts <= 1 /\ at = "event" => gpio_last_val[i] # cur

NInv == IInv /\ Copied /\ RowsDiffer /\ Told /\ Changed

LEMMA RowOf == ASSUME Types, NEW k \in Slot
               PROVE  /\ gpio_info[k] = Cleared \/ (gpio_info[k].gpio_num \in Pin /\ gpio_info[k].evt_type \in Edge)
                      /\ gpio_info[k].evt_type = "both" => gpio_info[k].gpio_num \in Pin
                      /\ gpio_info[k] = Cleared => gpio_info[k].gpio_num \notin Pin
<1>1. gpio_info[k] \in InUse \/ gpio_info[k] = Cleared
  BY DEF Types, MgrTypes
<1> QED BY <1>1, MarkAssumption DEF InUse, Cleared

LEMMA NewsInit == Init => NInv
<1> SUFFICES ASSUME Init PROVE NInv
  OBVIOUS
<1>1. IInv
  BY InitInv
<1>2. \A k \in Slot : gpio_info[k] = Cleared /\ gpio_info[k].evt_type # "both" /\ gpio_info[k].gpio_num \notin Pin
  BY MarkAssumption DEF Init, Cleared
<1> QED BY <1>1, <1>2 DEF NInv, Copied, RowsDiffer, Told, Changed, Init

LEMMA NewsStart == ASSUME PinsDiffer, NInv, IInv', Start PROVE NInv'
<1>1. /\ Types /\ Filling /\ Alone /\ Copied /\ RowsDiffer /\ Told /\ Changed
      /\ app # 0 /\ starts <= 1 => at = "none"
  BY DEF NInv, IInv, Alone, Types, CallerTypes
<1>2. CASE \E r \in Requests : StartClear(r)
  <2>1. PICK r \in Requests : StartClear(r)
    BY <1>2
  <2>2. /\ gpio_info' = [k \in Slot |-> Cleared]
        /\ app = 0 /\ app' = 1 /\ starts' = starts + 1 /\ half' = half /\ at' = at
    BY <2>1 DEF StartClear, Forget
  <2>3. \A k \in Slot : gpio_info'[k] = Cleared /\ gpio_info'[k].evt_type # "both" /\ gpio_info'[k].gpio_num \notin Pin
    BY <2>2, MarkAssumption DEF Cleared
  <2>4. ~half
    BY <1>1, <2>2 DEF Filling
  <2>5. \A k \in Slot : ~(k < 1)
    BY DEF Slot
  <2>6. Copied'
    BY <2>2, <2>3, <2>4, <2>5 DEF Copied
  <2>7. starts' <= 1 => at = "none"
    BY <1>1, <2>2 DEF Types, CallerTypes, Alone
  <2> QED BY <2>2, <2>3, <2>6, <2>7 DEF NInv, RowsDiffer, Told, Changed
<1>3. CASE CopyRow
  <2>1. app \in 1..Len(request) /\ request[app] \in Asking /\ app \in Slot /\ ~half
    BY <1>1, <1>3, RequestIs, RequestAssumption DEF CopyRow, Slot
  <2> DEFINE n == request[app].gpio_num  t == request[app].evt_type  v == request[app].gpio_val
  <2>2. n \in Pin
    BY <2>1 DEF Asking
  <2>3. /\ gpio_info' = [gpio_info EXCEPT ![app] = [gpio_num |-> n, evt_type |-> t]]
        /\ told' = [told EXCEPT ![n] = v] /\ half'
        /\ UNCHANGED <<gpio_last_val, app, request, starts, at, i, cur>>
    BY <1>3 DEF CopyRow, polled
  <2>4. n = request[app].gpio_num /\ v = request[app].gpio_val
    OBVIOUS
  <2> HIDE DEF n, t, v
  <2>5. /\ gpio_info'[app].gpio_num = n
        /\ \A k \in Slot \ {app} : gpio_info'[k] = gpio_info[k]
    BY <1>1, <2>1, <2>3 DEF Types, MgrTypes
  <2>6. \A k \in Slot : k < app => k # app
    BY <2>1 DEF Slot
  <2>7. Copied'
    BY <1>1, <2>1, <2>3, <2>4, <2>5, <2>6 DEF Copied
  <2>8. RowsDiffer'
    <3> SUFFICES ASSUME NEW j \in Slot, NEW k \in Slot, gpio_info'[j].gpio_num \in Pin,
                        gpio_info'[j].gpio_num = gpio_info'[k].gpio_num
                 PROVE  j = k
      BY DEF RowsDiffer
    <3>1. ASSUME NEW l \in Slot, gpio_info'[l].gpio_num \in Pin
          PROVE  l \in 1..Len(request) /\ gpio_info'[l].gpio_num = request[l].gpio_num
      <4>1. gpio_info'[l] # Cleared
        BY <3>1, MarkAssumption DEF Cleared
      <4>2. l <= Len(request') /\ gpio_info'[l].gpio_num = request'[l].gpio_num
        BY <2>1, <2>3, <2>7, <4>1 DEF Copied
      <4> QED BY <1>1, <2>3, <4>2, RequestIs DEF Slot
    <3>2. j \in 1..Len(request) /\ k \in 1..Len(request) /\ request[j].gpio_num = request[k].gpio_num
      BY <3>1
    <3>3. request \in Requests
      <4>1. request # << >>
        BY <2>1
      <4> QED BY <1>1, <4>1 DEF Types, CallerTypes
    <3> QED BY <3>2, <3>3 DEF PinsDiffer
  <2>9. Told'
    <3> SUFFICES ASSUME starts <= 1, NEW k \in Slot, gpio_info'[k].evt_type = "both"
                 PROVE  told'[gpio_info'[k].gpio_num] = Due(k)'
      BY <2>3 DEF Told
    <3>1. at = "none"
      BY <1>1, <2>1
    <3>2. CASE k = app
      BY <1>1, <2>2, <2>3, <2>4, <2>5, <3>1, <3>2 DEF Due, Types, PinTypes
    <3>3. CASE k # app
      <4>1. gpio_info'[k] = gpio_info[k] /\ gpio_info[k].gpio_num \in Pin
        BY <1>1, <2>5, <3>3, RowOf
      <4>2. gpio_info[k].gpio_num # n
        BY <2>1, <2>5, <2>8, <3>3, <4>1 DEF RowsDiffer
      <4>3. told'[gpio_info[k].gpio_num] = told[gpio_info[k].gpio_num]
        BY <1>1, <2>3, <4>1, <4>2 DEF Types, PinTypes
      <4> QED BY <1>1, <2>1, <2>3, <3>1, <3>3, <4>1, <4>3 DEF Told, Due
    <3> QED BY <3>2, <3>3
  <2>10. Changed'
    BY <1>1, <2>1, <2>3 DEF Changed
  <2> QED BY <2>7, <2>8, <2>9, <2>10 DEF NInv
<1>4. CASE CountRow
  <2>1. app \in 1..Len(request) /\ app \in Slot /\ half
    BY <1>1, <1>4, RequestIs, RequestAssumption DEF CountRow, Slot
  <2>2. /\ gpio_last_val' = [gpio_last_val EXCEPT ![app] = request[app].gpio_val]
        /\ app' = app + 1 /\ ~half'
        /\ UNCHANGED <<gpio_info, request, starts, at, i, cur, told>>
    BY <1>4 DEF CountRow, polled, pins
  <2>3. \A k \in Slot : k < app + 1 <=> k < app \/ k = app
    BY <2>1 DEF Slot
  <2>4. Copied'
    BY <1>1, <2>1, <2>2, <2>3 DEF Copied
  <2>5. Told'
    <3> SUFFICES ASSUME starts <= 1, NEW k \in Slot, gpio_info[k].evt_type = "both" PROVE Due(k)' = Due(k)
      BY <1>1, <2>2 DEF Told
    <3>1. at = "none"
      BY <1>1, <2>1
    <3> QED BY <1>1, <2>1, <2>2, <3>1 DEF Due, Types, MgrTypes
  <2>6. Changed' /\ RowsDiffer'
    BY <1>1, <2>1, <2>2 DEF Changed, RowsDiffer
  <2> QED BY <2>4, <2>5, <2>6 DEF NInv
<1>5. CASE StartThread
  <2>1. /\ app # 0 /\ app' = 0 /\ at' = (IF at = "none" THEN "open" ELSE at) /\ ~half /\ half' = half
        /\ UNCHANGED <<gpio_info, gpio_last_val, request, starts, i, cur, told>>
    BY <1>1, <1>5, RequestIs DEF StartThread, Filling, mgr, polled, pins
  <2>2. Copied' /\ RowsDiffer'
    BY <1>1, <2>1 DEF Copied, RowsDiffer
  <2>3. Told' /\ Changed'
    BY <1>1, <2>1 DEF Told, Due, Changed
  <2> QED BY <2>2, <2>3 DEF NInv
<1> QED BY <1>2, <1>3, <1>4, <1>5 DEF Start

(* The thread reports and remembers.                                       *)
LEMMA NewsThread == ASSUME NInv, IInv', Thread PROVE NInv'
<1>1. Types /\ Filling /\ Inside /\ Alone /\ Copied /\ RowsDiffer /\ Told /\ Changed
  BY DEF NInv, IInv
<1>2. UNCHANGED <<gpio_info, app, half, request, starts>>
  BY DEF Thread, OpenPin, SetDirection, SetEdge, GetFd, Opening, OpenDone, SetFds, PollAnswers, PollEmpty,
     ReadPin,
         ReadRaw, SkipRow, ScanDone, Compare, Report, Store, mgr, caller
<1>3. Copied' /\ RowsDiffer'
  BY <1>1, <1>2 DEF Copied, RowsDiffer
<1>4. starts <= 1 => app = 0 /\ ~half
  <2>1. at # "none"
    BY DEF Thread, OpenPin, SetDirection, SetEdge, GetFd, Opening, OpenDone, SetFds, PollAnswers,
       PollEmpty, ReadPin,
           ReadRaw, SkipRow, ScanDone, Compare, Report, Store
  <2>2. starts <= 1 => starts = 0 \/ starts = 1
    BY <1>1 DEF Types, CallerTypes
  <2> QED BY <1>1, <2>1, <2>2 DEF Alone, Filling
<1>5. CASE OpenPin \/ OpenDone \/ SetFds \/ PollAnswers \/ PollEmpty \/ ReadPin \/ ReadRaw \/ SkipRow \/ ScanDone
  <2>1. at \notin {"event", "store"} /\ at' \notin {"event", "store"} /\ UNCHANGED <<gpio_last_val, told>>
    BY <1>5 DEF OpenPin, SetDirection, SetEdge, GetFd, Opening, OpenDone, SetFds, PollAnswers, PollEmpty,
       ReadPin,
                ReadRaw, SkipRow, ScanDone, NextRow, mgr
  <2>2. Told' /\ Changed'
    BY <1>1, <1>2, <2>1 DEF Told, Due, Changed
  <2> QED BY <1>3, <2>2 DEF NInv
<1>6. CASE Compare
  <2>1. /\ at = "compare" /\ UNCHANGED <<gpio_last_val, told, cur>> /\ i \in Slot
        /\ \/ at' = "scan"
           \/ i' = i /\ at' = "event" /\ gpio_last_val[i] # cur
           \/ i' = i /\ at' = "store" /\ gpio_info[i].evt_type # "both"
    BY <1>1, <1>6, RequestAssumption DEF Compare, NextRow, Asked, mgr, polled, pins, Inside, Types,
       ThreadTypes, Slot
  <2>2. Told' /\ Changed'
    BY <1>1, <1>2, <1>4, <2>1 DEF Told, Due, Changed
  <2> QED BY <1>3, <2>2 DEF NInv
<1>7. CASE Report
  <2>1. /\ at = "event" /\ at' = "store" /\ UNCHANGED <<gpio_last_val, cur, i>> /\ i \in Slot
        /\ told' = [p \in Pin |-> IF p = gpio_info[i].gpio_num THEN cur ELSE told[p]]
    BY <1>1, <1>7, RequestAssumption DEF Report, mgr, polled, Inside, Types, ThreadTypes, Slot
  <2>2. Told'
    <3> SUFFICES ASSUME starts <= 1, NEW k \in Slot, gpio_info[k].evt_type = "both"
                 PROVE  told'[gpio_info[k].gpio_num] = Due(k)'
      BY <1>2 DEF Told
    <3>1. gpio_info[k].gpio_num \in Pin
      BY <1>1, RowOf
    <3>2. CASE k = i
      BY <2>1, <3>1, <3>2 DEF Due
    <3>3. CASE k # i
      <4>1. gpio_info[k].gpio_num # gpio_info[i].gpio_num
        BY <1>1, <2>1, <3>1, <3>3 DEF RowsDiffer
      <4>2. told'[gpio_info[k].gpio_num] = told[gpio_info[k].gpio_num]
        BY <2>1, <3>1, <4>1
      <4>3. Due(k)' = Due(k)
        BY <1>2, <1>4, <2>1, <3>3 DEF Due
      <4> QED BY <1>1, <4>2, <4>3 DEF Told
    <3> QED BY <3>2, <3>3
  <2> QED BY <1>3, <2>1, <2>2 DEF NInv, Changed
<1>8. CASE Store
  <2>1. /\ at = "store" /\ at' = "scan" /\ gpio_last_val' = [gpio_last_val EXCEPT ![i] = cur]
        /\ UNCHANGED <<cur, told>>
    BY <1>8 DEF Store, NextRow, polled, pins
  <2>2. \A k \in Slot : starts <= 1 => Due(k)' = Due(k)
    BY <1>1, <1>2, <1>4, <2>1 DEF Due, Types, MgrTypes
  <2>3. Told' /\ Changed'
    BY <1>1, <1>2, <2>1, <2>2 DEF Told, Changed
  <2> QED BY <1>3, <2>3 DEF NInv
<1> QED BY <1>5, <1>6, <1>7, <1>8 DEF Thread

LEMMA NewsNext == ASSUME PinsDiffer PROVE NInv /\ [Next]_vars => NInv'
<1>1. ASSUME NInv, [Next]_vars PROVE NInv'
  <2>1. IInv'
    BY <1>1, NextInv DEF NInv
  <2>2. CASE Start
    BY <1>1, <2>1, <2>2, NewsStart
  <2>3. CASE Thread
    BY <1>1, <2>1, <2>3, NewsThread
  <2>4. CASE (\E p \in Pin : Exported(p) \/ Flip(p)) \/ UNCHANGED vars
    <3>1. UNCHANGED <<gpio_info, gpio_last_val, app, half, request, starts, at, i, cur, told>>
      BY <2>4 DEF Exported, Flip, vars, mgr, caller, polled
    <3>2. Copied' /\ RowsDiffer' /\ Told' /\ Changed'
      BY <1>1, <3>1 DEF NInv, Copied, RowsDiffer, Told, Due, Changed
    <3> QED BY <2>1, <3>2 DEF NInv
  <2> QED BY <1>1, <2>2, <2>3, <2>4 DEF Next
<1> QED BY <1>1

(* ReportIsNews of the run: a pin watched for both edges is reported only  *)
(* when its level is another than the application knows, for lists that    *)
(* watch no pin twice.                                                     *)
THEOREM EveryReportIsNews == ASSUME PinsDiffer PROVE Spec => []ReportIsNews
<1>1. NInv => ReportIsNews
  <2> SUFFICES ASSUME NInv, starts = 1, at = "event", gpio_info[i].evt_type = "both"
               PROVE  told[gpio_info[i].gpio_num] # cur
    BY DEF ReportIsNews
  <2>1. i \in Slot
    BY RequestAssumption DEF NInv, IInv, Inside, Types, ThreadTypes, Slot
  <2>2. app = 0 /\ ~half
    BY DEF NInv, IInv, Alone, Filling
  <2> QED BY <2>1, <2>2 DEF NInv, Told, Due, Changed
<1>2. NInv /\ [Next]_vars => NInv'
  BY NewsNext
<1> QED BY <1>1, <1>2, NewsInit, PTL DEF Spec

-----------------------------------------------------------------------------
(* The LEDs, Led.  The invariant looks at each LED of the pair on its own. *)
(* For a look that all overlapping calls have asked for, the writes a call *)
(* has left only take away what they give back later (Fits), and what the  *)
(* LED still lacks of the look is written by somebody's remaining writes   *)
(* (OnTrack).                                                              *)

(* The writes there are.                                                   *)

TriggerNone(d) == Put(d, "trigger", "none")
TriggerTimer(d) == Put(d, "trigger", "timer")
DelayOn(d, x) == Put(d, "delay_on", x)
DelayOff(d, y) == Put(d, "delay_off", y)
Bright(d, v) == Put(d, "brightness", v)

File == {TriggerNone(d) : d \in Diode} \cup {TriggerTimer(d) : d \in Diode}
        \cup {DelayOn(d, x) : d \in Diode, x \in Delay} \cup {DelayOff(d, y) : d \in Diode, y \in Delay}
        \cup {Bright(d, v) : d \in Diode, v \in {0, 255}}

(* What one LED of a look can be: off, on, or blinking.                    *)
Out == [blink |-> FALSE, lit |-> FALSE]
On == [blink |-> FALSE, lit |-> TRUE]
Flash(x, y) == [delay_on |-> x, delay_off |-> y, blink |-> TRUE]
Target == {Out, On} \cup {Flash(x, y) : x \in Delay, y \in Delay}

(* w is among the writes s; after v comes w; those of d are in S.          *)
Has(s, w) == \E j \in 1..Len(s) : s[j] = w
Follows(s, v, w) == \A j \in 1..Len(s) : s[j] = v => \E k \in 1..Len(s) : k > j /\ s[k] = w
Only(s, d, S) == \A j \in 1..Len(s) : s[j].diode = d => s[j] \in S

(* The writes of a call that asks for t on d, as far as they are left: it  *)
(* never takes away what it does not give back.                            *)
Fits(s, d, t) ==
  /\ t = Out => Only(s, d, {TriggerNone(d), Bright(d, 0)})
  /\ t = On => /\ Only(s, d, {TriggerNone(d), Bright(d, 255)})
               /\ Follows(s, TriggerNone(d), Bright(d, 255))
  /\ \A x, y \in Delay : t = Flash(x, y) =>
       /\ Only(s, d, {TriggerNone(d), TriggerTimer(d), DelayOn(d, x), DelayOff(d, y), Bright(d, 255)})
       /\ Follows(s, TriggerNone(d), TriggerTimer(d))
       /\ Follows(s, TriggerTimer(d), DelayOn(d, x)) /\ Follows(s, TriggerTimer(d), DelayOff(d, y))

(* All that is needed is among them.                                       *)
Gives(s, d, t) ==
  /\ t = Out => Has(s, Bright(d, 0))
  /\ t = On => Has(s, TriggerNone(d)) /\ Has(s, Bright(d, 255))
  /\ \A x, y \in Delay : t = Flash(x, y) => Has(s, TriggerTimer(d)) /\ Has(s, DelayOn(d, x)) /\ Has(s, DelayOff(d, y))

-----------------------------------------------------------------------------
LEMMA SeqHas ==
  ASSUME NEW s \in Seq(File), NEW t \in Seq(File)
  PROVE  /\ s \o t \in Seq(File)
         /\ \A w : Has(s \o t, w) <=> Has(s, w) \/ Has(t, w)
         /\ \A v, w : Follows(t, v, w) /\ (Follows(s, v, w) \/ Has(t, w)) => Follows(s \o t, v, w)
         /\ \A d, S : Only(s, d, S) /\ Only(t, d, S) => Only(s \o t, d, S)
<1> DEFINE m == Len(s)  n == Len(t)  u == s \o t
<1>1. u \in Seq(File) /\ m \in Nat /\ n \in Nat /\ Len(u) = m + n
  OBVIOUS
<1>2. /\ \A j \in 1..m : j \in 1..(m + n) /\ u[j] = s[j]
      /\ \A j \in 1..n : m + j \in 1..(m + n) /\ u[m + j] = t[j]
  OBVIOUS
<1>3. ASSUME NEW j \in 1..(m + n) PROVE j \in 1..m \/ \E k \in 1..n : j = m + k
  <2>1. j \in 1..m \/ (j - m \in 1..n /\ j = m + (j - m))
    BY <1>1
  <2> QED BY <2>1
<1> HIDE DEF m, n, u
<1>4. \A w : Has(u, w) <=> Has(s, w) \/ Has(t, w)
  <2> SUFFICES ASSUME NEW w PROVE Has(u, w) <=> Has(s, w) \/ Has(t, w)
    OBVIOUS
  <2>1. ASSUME Has(u, w) PROVE Has(s, w) \/ Has(t, w)
    <3>1. PICK j \in 1..(m + n) : u[j] = w
      BY <1>1, <2>1 DEF Has
    <3> QED BY <1>2, <1>3, <3>1 DEF Has, m, n
  <2>2. ASSUME Has(s, w) \/ Has(t, w) PROVE Has(u, w)
    BY <1>1, <1>2, <2>2 DEF Has, m, n
  <2> QED BY <2>1, <2>2
<1>5. ASSUME NEW v, NEW w, Follows(t, v, w), Follows(s, v, w) \/ Has(t, w) PROVE Follows(u, v, w)
  <2> SUFFICES ASSUME NEW j \in 1..(m + n), u[j] = v PROVE \E k \in 1..(m + n) : k > j /\ u[k] = w
    BY <1>1 DEF Follows
  <2>1. CASE j \in 1..m
    <3>1. s[j] = v
      BY <1>2, <2>1
    <3>2. CASE Has(t, w)
      <4>1. PICK k \in 1..n : t[k] = w
        BY <3>2 DEF Has, n
      <4>2. m + k \in 1..(m + n) /\ u[m + k] = w /\ m + k > j
        BY <1>1, <1>2, <2>1, <4>1
      <4> QED BY <4>2
    <3>3. CASE Follows(s, v, w)
      <4>1. PICK k \in 1..m : k > j /\ s[k] = w
        BY <2>1, <3>1, <3>3 DEF Follows, m
      <4> QED BY <1>2, <4>1
    <3> QED BY <1>5, <3>2, <3>3
  <2>2. CASE \E l \in 1..n : j = m + l
    <3>1. PICK l \in 1..n : j = m + l
      BY <2>2
    <3>2. t[l] = v
      BY <1>2, <3>1
    <3>3. PICK k \in 1..n : k > l /\ t[k] = w
      BY <1>5, <3>2 DEF Follows, n
    <3>4. m + k \in 1..(m + n) /\ u[m + k] = w /\ m + k > j
      BY <1>1, <1>2, <3>1, <3>3
    <3> QED BY <3>4
  <2> QED BY <1>3, <2>1, <2>2
<1>6. ASSUME NEW d, NEW S, Only(s, d, S), Only(t, d, S) PROVE Only(u, d, S)
  <2> SUFFICES ASSUME NEW j \in 1..(m + n), u[j].diode = d PROVE u[j] \in S
    BY <1>1 DEF Only
  <2>1. CASE j \in 1..m
    BY <1>2, <1>6, <2>1 DEF Only, m
  <2>2. CASE \E l \in 1..n : j = m + l
    BY <1>2, <1>6, <2>2 DEF Only, n
  <2> QED BY <1>3, <2>1, <2>2
<1> QED BY <1>1, <1>4, <1>5, <1>6 DEF u

LEMMA OneHas ==
  ASSUME NEW u \in File
  PROVE  /\ <<u>> \in Seq(File)
         /\ \A w : Has(<<u>>, w) <=> w = u
         /\ \A v, w : u # v => Follows(<<u>>, v, w)
         /\ \A d, S : (u.diode = d => u \in S) => Only(<<u>>, d, S)
<1>1. <<u>> \in Seq(File) /\ Len(<<u>>) = 1 /\ <<u>>[1] = u /\ \A j \in 1..1 : j = 1
  OBVIOUS
<1>2. \A j \in 1..Len(<<u>>) : <<u>>[j] = u
  BY <1>1
<1>3. 1 \in 1..Len(<<u>>)
  BY <1>1
<1> QED BY <1>1, <1>2, <1>3 DEF Has, Follows, Only

LEMMA NoneHas == /\ << >> \in Seq(File) /\ \A w : ~Has(<< >>, w)
                 /\ \A d, t : Fits(<< >>, d, t)
<1>1. << >> \in Seq(File) /\ \A j \in 1..Len(<< >>) : FALSE
  OBVIOUS
<1>2. (\A v, w : Follows(<< >>, v, w)) /\ (\A d, S : Only(<< >>, d, S))
  BY <1>1 DEF Follows, Only
<1> QED BY <1>1, <1>2 DEF Has, Fits

(* A write is taken off the front.                                         *)
LEMMA TailHas ==
  ASSUME NEW s \in Seq(File), s # << >>
  PROVE  /\ Head(s) \in File /\ Tail(s) \in Seq(File)
         /\ \A w : Has(s, w) <=> Head(s) = w \/ Has(Tail(s), w)
         /\ \A v, w : Follows(s, v, w) => Follows(Tail(s), v, w) /\ (Head(s) = v => Has(Tail(s), w))
         /\ \A d, S : Only(s, d, S) => Only(Tail(s), d, S) /\ (Head(s).diode = d => Head(s) \in S)
<1> DEFINE n == Len(s)  u == Tail(s)  h == Head(s)
<1>1. h \in File /\ u \in Seq(File) /\ n \in Nat /\ n >= 1 /\ Len(u) = n - 1 /\ h = s[1] /\ 1 \in 1..n
  OBVIOUS
<1>2. \A j \in 1..(n - 1) : u[j] = s[j + 1] /\ j + 1 \in 1..n
  OBVIOUS
<1>3. ASSUME NEW j \in 1..n, j # 1 PROVE \E k \in 1..(n - 1) : j = k + 1
  <2>1. j - 1 \in 1..(n - 1) /\ j = (j - 1) + 1
    BY <1>1, <1>3
  <2> QED BY <2>1
<1> HIDE DEF n, u, h
<1>4. \A w : Has(s, w) <=> h = w \/ Has(u, w)
  <2> SUFFICES ASSUME NEW w PROVE Has(s, w) <=> h = w \/ Has(u, w)
    OBVIOUS
  <2>1. ASSUME Has(s, w) PROVE h = w \/ Has(u, w)
    <3>1. PICK j \in 1..n : s[j] = w
      BY <2>1 DEF Has, n
    <3> QED BY <1>1, <1>2, <1>3, <3>1, ZenonT(60) DEF Has
  <2>2. ASSUME h = w \/ Has(u, w) PROVE Has(s, w)
    BY <1>1, <1>2, <2>2 DEF Has, n
  <2> QED BY <2>1, <2>2
<1>5. ASSUME NEW v, NEW w, Follows(s, v, w) PROVE Follows(u, v, w) /\ (h = v => Has(u, w))
  <2>1. ASSUME NEW j \in 1..n, s[j] = v PROVE \E k \in 1..(n - 1) : k + 1 > j /\ u[k] = w
    <3>1. PICK k \in 1..n : k > j /\ s[k] = w
      BY <1>5, <2>1 DEF Follows, n
    <3>2. k # 1
      BY <1>1, <3>1
    <3> QED BY <1>2, <1>3, <3>1, <3>2
  <2>2. Follows(u, v, w)
    <3> SUFFICES ASSUME NEW j \in 1..(n - 1), u[j] = v PROVE \E k \in 1..(n - 1) : k > j /\ u[k] = w
      BY <1>1 DEF Follows
    <3>1. PICK k \in 1..(n - 1) : k + 1 > j + 1 /\ u[k] = w
      BY <1>2, <2>1
    <3>2. k > j
      BY <1>1, <3>1
    <3> QED BY <3>1, <3>2
  <2>3. h = v => Has(u, w)
    BY <1>1, <2>1 DEF Has
  <2> QED BY <2>2, <2>3
<1>6. ASSUME NEW d, NEW S, Only(s, d, S) PROVE Only(u, d, S) /\ (h.diode = d => h \in S)
  BY <1>1, <1>2, <1>6 DEF Only, n
<1> QED BY <1>1, <1>4, <1>5, <1>6 DEF u, h
-----------------------------------------------------------------------------
LEMMA PutIs ==
  /\ \A d, f, v : Put(d, f, v).diode = d /\ Put(d, f, v).file = f /\ Put(d, f, v).value = v
  /\ \A d, e, f, g, v, w : Put(d, f, v) = Put(e, g, w) => d = e /\ f = g /\ v = w
<1>1. \A d, f, v : Put(d, f, v).diode = d /\ Put(d, f, v).file = f /\ Put(d, f, v).value = v
  BY DEF Put
<1>2. ASSUME NEW d, NEW e, NEW f, NEW g, NEW v, NEW w, Put(d, f, v) = Put(e, g, w) PROVE d = e /\ f = g /\ v = w
  <2>1. /\ Put(d, f, v).diode = d /\ Put(d, f, v).file = f /\ Put(d, f, v).value = v
        /\ Put(e, g, w).diode = e /\ Put(e, g, w).file = g /\ Put(e, g, w).value = w
    BY <1>1
  <2> QED BY <1>2, <2>1
<1> QED BY <1>1, <1>2

LEMMA Targets ==
  /\ Out # On /\ (\A x, y : Flash(x, y) # Out /\ Flash(x, y) # On)
  /\ \A x, y, u, v : Flash(x, y) = Flash(u, v) => x = u /\ y = v
<1>1. Out.lit = FALSE /\ On.lit = TRUE /\ Out.blink = FALSE /\ On.blink = FALSE
  BY DEF Out, On
<1>2. \A x, y : Flash(x, y).blink = TRUE /\ Flash(x, y).delay_on = x /\ Flash(x, y).delay_off = y
  BY DEF Flash
<1>3. ASSUME NEW x, NEW y, NEW u, NEW v, Flash(x, y) = Flash(u, v) PROVE x = u /\ y = v
  <2>1. /\ Flash(x, y).delay_on = x /\ Flash(x, y).delay_off = y
        /\ Flash(u, v).delay_on = u /\ Flash(u, v).delay_off = v
    BY <1>2
  <2> QED BY <1>3, <2>1
<1>4. ASSUME NEW x, NEW y PROVE Flash(x, y) # Out /\ Flash(x, y) # On
  BY <1>1, <1>2
<1>5. Out # On
  BY <1>1
<1> QED BY <1>3, <1>4, <1>5

Serves(s, d, t) == Fits(s, d, t) /\ Gives(s, d, t)

LEMMA ServesOut ==
  ASSUME NEW s, NEW d, Only(s, d, {TriggerNone(d), Bright(d, 0)}), Has(s, Bright(d, 0))
  PROVE  Serves(s, d, Out)
BY Targets DEF Serves, Fits, Gives

LEMMA ServesOn ==
  ASSUME NEW s, NEW d, Only(s, d, {TriggerNone(d), Bright(d, 255)}),
         Follows(s, TriggerNone(d), Bright(d, 255)), Has(s, TriggerNone(d)), Has(s, Bright(d, 255))
  PROVE  Serves(s, d, On)
BY Targets DEF Serves, Fits, Gives

LEMMA ServesFlash ==
  ASSUME NEW s, NEW d, NEW x \in Delay, NEW y \in Delay,
         Only(s, d, {TriggerNone(d), TriggerTimer(d), DelayOn(d, x), DelayOff(d, y), Bright(d, 255)}),
         Follows(s, TriggerNone(d), TriggerTimer(d)),
         Follows(s, TriggerTimer(d), DelayOn(d, x)), Follows(s, TriggerTimer(d), DelayOff(d, y)),
         Has(s, TriggerTimer(d)), Has(s, DelayOn(d, x)), Has(s, DelayOff(d, y))
  PROVE  Serves(s, d, Flash(x, y))
<1>1. Fits(s, d, Flash(x, y))
  <2> SUFFICES ASSUME NEW u \in Delay, NEW v \in Delay, Flash(x, y) = Flash(u, v)
               PROVE  /\ Only(s, d, {TriggerNone(d), TriggerTimer(d), DelayOn(d, u), DelayOff(d, v), Bright(d, 255)})
                      /\ Follows(s, TriggerNone(d), TriggerTimer(d))
                      /\ Follows(s, TriggerTimer(d), DelayOn(d, u)) /\ Follows(s, TriggerTimer(d), DelayOff(d, v))
    BY Targets DEF Fits
  <2>1. u = x /\ v = y
    BY Targets
  <2> QED BY <2>1
<1>2. Gives(s, d, Flash(x, y))
  <2> SUFFICES ASSUME NEW u \in Delay, NEW v \in Delay, Flash(x, y) = Flash(u, v)
               PROVE  Has(s, TriggerTimer(d)) /\ Has(s, DelayOn(d, u)) /\ Has(s, DelayOff(d, v))
    BY Targets DEF Gives
  <2>1. u = x /\ v = y
    BY Targets
  <2> QED BY <2>1
<1> QED BY <1>1, <1>2 DEF Serves

-----------------------------------------------------------------------------
(* The pieces the calls are made of.                                       *)
LEMMA Files == \A d \in Diode : /\ TriggerNone(d) \in File /\ TriggerTimer(d) \in File
                                /\ Bright(d, 0) \in File /\ Bright(d, 255) \in File
                                /\ \A x \in Delay : DelayOn(d, x) \in File /\ DelayOff(d, x) \in File
BY DEF File

LEMMA DiodeIs == /\ Diode = {"red", "green"} /\ "red" \in Diode /\ "green" \in Diode
                 /\ Lit("red") = {"red"} /\ Lit("green") = {"green"} /\ Lit("yellow") = Diode /\ Lit("off") = {}
                 /\ \A c \in Color, d \in Diode : Brightness(d, c) = IF d \in Lit(c) THEN 255 ELSE 0
BY DEF Diode, Lit, Brightness, Color

(* ClearBoth and SetBoth.                                                  *)
LEMMA PairIs ==
  ASSUME NEW u \in File, NEW v \in File
  PROVE  /\ <<u>> \o <<v>> \in Seq(File)
         /\ Has(<<u>> \o <<v>>, u) /\ Has(<<u>> \o <<v>>, v)
         /\ \A x, y : x # u /\ x # v => Follows(<<u>> \o <<v>>, x, y)
         /\ \A d, S : (u.diode = d => u \in S) /\ (v.diode = d => v \in S) => Only(<<u>> \o <<v>>, d, S)
<1> DEFINE s == <<u>>  t == <<v>>
<1>1. s \in Seq(File) /\ t \in Seq(File)
  BY OneHas
<1>2. /\ Has(s, u) /\ Has(t, v)
      /\ \A x, y : (u # x => Follows(s, x, y)) /\ (v # x => Follows(t, x, y))
      /\ \A d, S : ((u.diode = d => u \in S) => Only(s, d, S)) /\ ((v.diode = d => v \in S) => Only(t, d, S))
  BY OneHas
<1> HIDE DEF s, t
<1>3. /\ s \o t \in Seq(File) /\ Has(s \o t, u) /\ Has(s \o t, v)
      /\ \A x, y : x # u /\ x # v => Follows(s \o t, x, y)
      /\ \A d, S : (u.diode = d => u \in S) /\ (v.diode = d => v \in S) => Only(s \o t, d, S)
  BY <1>1, <1>2, SeqHas
<1> QED BY <1>3 DEF s, t

LEMMA ClearIs ==
  /\ ClearBoth \in Seq(File)
  /\ \A d \in Diode : Has(ClearBoth, TriggerNone(d))
  /\ \A d \in Diode : \A S : TriggerNone(d) \in S => Only(ClearBoth, d, S)
<1> DEFINE u == TriggerNone("green")  v == TriggerNone("red")
<1>1. u \in File /\ v \in File /\ ClearBoth = <<u>> \o <<v>>
  BY Files, DiodeIs DEF ClearBoth, _led_set_trigger, TriggerNone
<1>2. u.diode = "green" /\ v.diode = "red"
  BY PutIs DEF TriggerNone
<1> HIDE DEF u, v
<1>3. /\ ClearBoth \in Seq(File) /\ Has(ClearBoth, u) /\ Has(ClearBoth, v)
      /\ \A d, S : (u.diode = d => u \in S) /\ (v.diode = d => v \in S) => Only(ClearBoth, d, S)
  BY <1>1, PairIs
<1>4. \A d \in Diode : (d = "green" /\ TriggerNone(d) = u) \/ (d = "red" /\ TriggerNone(d) = v)
  BY DiodeIs DEF u, v
<1>5. "green" # "red"
  OBVIOUS
<1> QED BY <1>2, <1>3, <1>4, <1>5

LEMMA SetIs ==
  ASSUME NEW c \in Color
  PROVE  /\ SetBoth(c) \in Seq(File)
         /\ \A d \in Diode : Has(SetBoth(c), Bright(d, Brightness(d, c)))
         /\ \A d \in Diode : \A y : /\ Follows(SetBoth(c), TriggerNone(d), y)
                                    /\ Follows(SetBoth(c), TriggerTimer(d), y)
         /\ \A d \in Diode : \A S : Bright(d, Brightness(d, c)) \in S => Only(SetBoth(c), d, S)
<1> DEFINE u == Bright("green", Brightness("green", c))  v == Bright("red", Brightness("red", c))
<1>1. u \in File /\ v \in File /\ SetBoth(c) = <<u>> \o <<v>>
  <2>1. Brightness("green", c) \in {0, 255} /\ Brightness("red", c) \in {0, 255}
    BY DEF Brightness
  <2> QED BY <2>1, DiodeIs DEF File, SetBoth, _led_set_brightness, Bright
<1>2. u.diode = "green" /\ v.diode = "red"
  BY PutIs DEF Bright
<1>3. \A d : TriggerNone(d) # u /\ TriggerNone(d) # v /\ TriggerTimer(d) # u /\ TriggerTimer(d) # v
  <2>1. "trigger" # "brightness"
    OBVIOUS
  <2> QED BY <2>1, PutIs DEF TriggerNone, TriggerTimer, Bright
<1> HIDE DEF u, v
<1>4. /\ SetBoth(c) \in Seq(File) /\ Has(SetBoth(c), u) /\ Has(SetBoth(c), v)
      /\ \A x, y : x # u /\ x # v => Follows(SetBoth(c), x, y)
      /\ \A d, S : (u.diode = d => u \in S) /\ (v.diode = d => v \in S) => Only(SetBoth(c), d, S)
  BY <1>1, PairIs
<1>5. \A d \in Diode : (d = "green" /\ Bright(d, Brightness(d, c)) = u) \/ (d = "red" /\ Bright(d, Brightness(d, c)) = v)
  BY DiodeIs DEF u, v
<1>6. "green" # "red"
  OBVIOUS
<1> QED BY <1>2, <1>3, <1>4, <1>5, <1>6

LEMMA TimerIs ==
  ASSUME NEW e \in Diode, NEW x \in Delay, NEW y \in Delay
  PROVE  LET s == _led_trigger_timer(e, x, y)
         IN  /\ s \in Seq(File)
             /\ Has(s, TriggerTimer(e)) /\ Has(s, DelayOn(e, x)) /\ Has(s, DelayOff(e, y))
             /\ Follows(s, TriggerTimer(e), DelayOn(e, x)) /\ Follows(s, TriggerTimer(e), DelayOff(e, y))
             /\ \A d, w : Follows(s, TriggerNone(d), w)
             /\ \A d, w : d # e => Follows(s, TriggerTimer(d), w)
             /\ \A S : {TriggerTimer(e), DelayOn(e, x), DelayOff(e, y)} \subseteq S => Only(s, e, S)
             /\ \A d, S : d # e => Only(s, d, S)
<1> DEFINE a == TriggerTimer(e)  b == DelayOn(e, x)  f == DelayOff(e, y)  s == <<a, b, f>>
<1>0. s = _led_trigger_timer(e, x, y)
  BY DEF _led_trigger_timer, TriggerTimer, DelayOn, DelayOff
<1>1. a \in File /\ b \in File /\ f \in File
  BY Files
<1>2. a.diode = e /\ b.diode = e /\ f.diode = e
  BY PutIs DEF TriggerTimer, DelayOn, DelayOff
<1>3. "trigger" # "delay_on" /\ "trigger" # "delay_off" /\ "none" # "timer"
  OBVIOUS
<1>4. /\ a # b /\ a # f
      /\ \A d : TriggerNone(d) # a /\ TriggerNone(d) # b /\ TriggerNone(d) # f
      /\ \A d : TriggerTimer(d) # b /\ TriggerTimer(d) # f /\ (d # e => TriggerTimer(d) # a)
  BY <1>3, PutIs DEF TriggerNone, TriggerTimer, DelayOn, DelayOff
<1>5. a = TriggerTimer(e) /\ b = DelayOn(e, x) /\ f = DelayOff(e, y)
  OBVIOUS
<1> HIDE DEF a, b, f
<1>6. s \in Seq(File) /\ Len(s) = 3 /\ s[1] = a /\ s[2] = b /\ s[3] = f
  BY <1>1
<1> HIDE DEF s
<1>7. 1 \in 1..Len(s) /\ 2 \in 1..Len(s) /\ 3 \in 1..Len(s) /\ \A j \in 1..Len(s) : j = 1 \/ j = 2 \/ j = 3
  BY <1>6
<1>8. Has(s, a) /\ Has(s, b) /\ Has(s, f)
  BY <1>6, <1>7 DEF Has
<1>9. Follows(s, a, b) /\ Follows(s, a, f)
  <2>1. \A j \in 1..Len(s) : s[j] = a => j = 1
    BY <1>4, <1>6, <1>7
  <2>2. 2 > 1 /\ 3 > 1
    OBVIOUS
  <2> QED BY <1>6, <1>7, <2>1, <2>2 DEF Follows
<1>10. \A v, w : v # a /\ v # b /\ v # f => Follows(s, v, w)
  BY <1>6, <1>7 DEF Follows
<1>11. /\ \A S : {a, b, f} \subseteq S => Only(s, e, S)
       /\ \A d, S : d # e => Only(s, d, S)
  BY <1>2, <1>6, <1>7 DEF Only
<1> QED BY <1>0, <1>4, <1>5, <1>6, <1>8, <1>9, <1>10, <1>11

-----------------------------------------------------------------------------
(* Every call writes what its caller asks for.                             *)
LEMMA SteadyServes ==
  ASSUME NEW c \in Color
  PROVE  /\ mds_api_led_on(c) \in Seq(File)
         /\ \A d \in Diode : Serves(mds_api_led_on(c), d, IF d \in Lit(c) THEN On ELSE Out)
<1> DEFINE s == ClearBoth  t == SetBoth(c)
<1>1. s \in Seq(File) /\ t \in Seq(File) /\ mds_api_led_on(c) = s \o t
  BY ClearIs, SetIs DEF mds_api_led_on
<1>2. /\ \A d \in Diode : Has(s, TriggerNone(d)) /\ Has(t, Bright(d, Brightness(d, c)))
      /\ \A d \in Diode : \A y : Follows(t, TriggerNone(d), y)
      /\ \A d \in Diode : \A S : (TriggerNone(d) \in S => Only(s, d, S)) /\ (Bright(d, Brightness(d, c)) \in S => Only(t, d, S))
  BY ClearIs, SetIs
<1> HIDE DEF s, t
<1>3. s \o t \in Seq(File)
  BY <1>1, SeqHas
<1>4. ASSUME NEW d \in Diode PROVE Serves(s \o t, d, IF d \in Lit(c) THEN On ELSE Out)
  <2>1. Has(s \o t, TriggerNone(d)) /\ Has(s \o t, Bright(d, Brightness(d, c)))
    BY <1>1, <1>2, SeqHas
  <2>2. Follows(s \o t, TriggerNone(d), Bright(d, Brightness(d, c)))
    BY <1>1, <1>2, SeqHas
  <2>3. Only(s \o t, d, {TriggerNone(d), Bright(d, Brightness(d, c))})
    <3>1. /\ TriggerNone(d) \in {TriggerNone(d), Bright(d, Brightness(d, c))}
          /\ Bright(d, Brightness(d, c)) \in {TriggerNone(d), Bright(d, Brightness(d, c))}
      OBVIOUS
    <3>2. Only(s, d, {TriggerNone(d), Bright(d, Brightness(d, c))}) /\ Only(t, d, {TriggerNone(d), Bright(d, Brightness(d, c))})
      BY <1>2, <3>1
    <3> QED BY <1>1, <3>2, SeqHas
  <2>4. CASE d \in Lit(c)
    <3>1. Brightness(d, c) = 255
      BY <2>4, DiodeIs
    <3> QED BY <2>1, <2>2, <2>3, <2>4, <3>1, ServesOn
  <2>5. CASE d \notin Lit(c)
    <3>1. Brightness(d, c) = 0
      BY <2>5, DiodeIs
    <3> QED BY <2>1, <2>3, <2>5, <3>1, ServesOut
  <2> QED BY <2>4, <2>5
<1> QED BY <1>1, <1>3, <1>4

(* A timer set among other writes, before the brightness of its LED.       *)
LEMMA TimerServes ==
  ASSUME NEW d \in Diode, NEW x \in Delay, NEW y \in Delay, NEW c \in Color, d \in Lit(c),
         NEW s \in Seq(File),
         Has(s, TriggerTimer(d)), Has(s, DelayOn(d, x)), Has(s, DelayOff(d, y)),
         Follows(s, TriggerNone(d), TriggerTimer(d)),
         Follows(s, TriggerTimer(d), DelayOn(d, x)), Follows(s, TriggerTimer(d), DelayOff(d, y)),
         Only(s, d, {TriggerNone(d), TriggerTimer(d), DelayOn(d, x), DelayOff(d, y), Bright(d, 255)})
  PROVE  Serves(s \o SetBoth(c), d, Flash(x, y))
<1> DEFINE t == SetBoth(c)  S == {TriggerNone(d), TriggerTimer(d), DelayOn(d, x), DelayOff(d, y), Bright(d, 255)}
<1>1. t \in Seq(File) /\ \A w : Follows(t, TriggerNone(d), w) /\ Follows(t, TriggerTimer(d), w)
  BY SetIs
<1>2. Only(t, d, S)
  <2>1. Bright(d, Brightness(d, c)) \in S
    BY DiodeIs
  <2> QED BY <2>1, SetIs
<1> HIDE DEF t
<1>3. /\ Has(s \o t, TriggerTimer(d)) /\ Has(s \o t, DelayOn(d, x)) /\ Has(s \o t, DelayOff(d, y))
      /\ Follows(s \o t, TriggerNone(d), TriggerTimer(d))
      /\ Follows(s \o t, TriggerTimer(d), DelayOn(d, x)) /\ Follows(s \o t, TriggerTimer(d), DelayOff(d, y))
      /\ Only(s \o t, d, S)
  BY <1>1, <1>2, SeqHas
<1>4. Serves(s \o t, d, Flash(x, y))
  BY <1>3, ServesFlash
<1> QED BY <1>4 DEF t

(* The other LED is left off.                                              *)
LEMMA OffServes ==
  ASSUME NEW d \in Diode, NEW c \in Color, d \notin Lit(c), NEW s \in Seq(File),
         Only(s, d, {TriggerNone(d), Bright(d, 0)})
  PROVE  Serves(s \o SetBoth(c), d, Out)
<1> DEFINE t == SetBoth(c)  S == {TriggerNone(d), Bright(d, 0)}
<1>1. Brightness(d, c) = 0
  BY DiodeIs
<1>2. t \in Seq(File) /\ Has(t, Bright(d, 0)) /\ Only(t, d, S)
  <2>1. Bright(d, Brightness(d, c)) \in S
    BY <1>1
  <2> QED BY <1>1, <2>1, SetIs
<1> HIDE DEF t
<1>3. Has(s \o t, Bright(d, 0)) /\ Only(s \o t, d, S)
  BY <1>2, SeqHas
<1>4. Serves(s \o t, d, Out)
  BY <1>3, ServesOut
<1> QED BY <1>4 DEF t

LEMMA BlinkRedServes ==
  ASSUME NEW x \in Delay, NEW y \in Delay
  PROVE  /\ BlinkRed(x, y) \in Seq(File)
         /\ Serves(BlinkRed(x, y), "red", Flash(x, y)) /\ Serves(BlinkRed(x, y), "green", Out)
<1>1. PICK e \in Diode : e = IF name = "pwr" THEN "red" ELSE "green"
  BY DiodeIs
<1> DEFINE u == TriggerNone(e)  s == <<u>>  t == _led_trigger_timer("red", x, y)
           S == {TriggerNone("red"), TriggerTimer("red"), DelayOn("red", x), DelayOff("red", y), Bright("red", 255)}
           R == {TriggerNone("green"), Bright("green", 0)}
<1>2. BlinkRed(x, y) = (s \o t) \o SetBoth("red")
  BY <1>1 DEF BlinkRed, _led_set_trigger, TriggerNone
<1>3. u \in File /\ s \in Seq(File) /\ t \in Seq(File) /\ SetBoth("red") \in Seq(File)
  <2>1. u \in File /\ "red" \in Color
    BY Files DEF Color
  <2> QED BY <2>1, DiodeIs, OneHas, TimerIs, SetIs
<1>4. /\ Has(t, TriggerTimer("red")) /\ Has(t, DelayOn("red", x)) /\ Has(t, DelayOff("red", y))
      /\ Follows(t, TriggerTimer("red"), DelayOn("red", x)) /\ Follows(t, TriggerTimer("red"), DelayOff("red", y))
      /\ Follows(t, TriggerNone("red"), TriggerTimer("red"))
  BY DiodeIs, TimerIs
<1>5. Only(t, "red", S) /\ Only(t, "green", R)
  <2>1. "green" # "red" /\ {TriggerTimer("red"), DelayOn("red", x), DelayOff("red", y)} \subseteq S
    OBVIOUS
  <2> HIDE DEF S, R
  <2> QED BY <2>1, DiodeIs, TimerIs
<1>6. Only(s, "red", S) /\ Only(s, "green", R)
  <2>1. u.diode = e
    BY PutIs DEF TriggerNone
  <2>2. (e = "red" => u \in S) /\ (e = "green" => u \in R)
    OBVIOUS
  <2> HIDE DEF S, R, u
  <2> QED BY <1>3, <2>1, <2>2, OneHas
<1> HIDE DEF s, t, S, R
<1>7. /\ s \o t \in Seq(File)
      /\ Has(s \o t, TriggerTimer("red")) /\ Has(s \o t, DelayOn("red", x)) /\ Has(s \o t, DelayOff("red", y))
      /\ Follows(s \o t, TriggerTimer("red"), DelayOn("red", x)) /\ Follows(s \o t, TriggerTimer("red"), DelayOff("red", y))
      /\ Follows(s \o t, TriggerNone("red"), TriggerTimer("red"))
      /\ Only(s \o t, "red", S) /\ Only(s \o t, "green", R)
  BY <1>3, <1>4, <1>5, <1>6, SeqHas
<1>8. "red" \in Color /\ "green" \notin Lit("red") /\ "red" \in Lit("red")
  BY DiodeIs DEF Color
<1>9. (s \o t) \o SetBoth("red") \in Seq(File)
  BY <1>3, <1>7, SeqHas
<1>10. Serves((s \o t) \o SetBoth("red"), "red", Flash(x, y))
  BY <1>7, <1>8, DiodeIs, TimerServes DEF S
<1>11. Serves((s \o t) \o SetBoth("red"), "green", Out)
  BY <1>7, <1>8, DiodeIs, OffServes DEF R
<1> QED BY <1>2, <1>9, <1>10, <1>11

BlinkGreen(x, y) == _led_trigger_timer("green", x, y) \o _led_set_trigger("red", "none") \o SetBoth("green")

LEMMA BlinkGreenServes ==
  ASSUME NEW x \in Delay, NEW y \in Delay
  PROVE  /\ BlinkGreen(x, y) \in Seq(File)
         /\ Serves(BlinkGreen(x, y), "green", Flash(x, y)) /\ Serves(BlinkGreen(x, y), "red", Out)
<1> DEFINE u == TriggerNone("red")  s == <<u>>  t == _led_trigger_timer("green", x, y)
           S == {TriggerNone("green"), TriggerTimer("green"), DelayOn("green", x), DelayOff("green", y),
                 Bright("green", 255)}
           R == {TriggerNone("red"), Bright("red", 0)}
<1>1. "green" # "red" /\ "none" # "timer"
  OBVIOUS
<1>2. BlinkGreen(x, y) = (t \o s) \o SetBoth("green")
  BY DEF BlinkGreen, _led_set_trigger, TriggerNone
<1>3. u \in File /\ s \in Seq(File) /\ t \in Seq(File) /\ SetBoth("green") \in Seq(File)
  <2>1. u \in File /\ "green" \in Color
    BY Files, DiodeIs DEF Color
  <2> QED BY <2>1, DiodeIs, OneHas, TimerIs, SetIs
<1>4. /\ Has(t, TriggerTimer("green")) /\ Has(t, DelayOn("green", x)) /\ Has(t, DelayOff("green", y))
      /\ Follows(t, TriggerTimer("green"), DelayOn("green", x)) /\ Follows(t, TriggerTimer("green"), DelayOff("green", y))
      /\ Follows(t, TriggerNone("green"), TriggerTimer("green"))
  BY DiodeIs, TimerIs
<1>5. Only(t, "green", S) /\ Only(t, "red", R)
  <2>1. {TriggerTimer("green"), DelayOn("green", x), DelayOff("green", y)} \subseteq S
    OBVIOUS
  <2> HIDE DEF S, R
  <2> QED BY <1>1, <2>1, DiodeIs, TimerIs
<1>6. /\ Only(s, "green", S) /\ Only(s, "red", R)
      /\ \A w : Follows(s, TriggerTimer("green"), w) /\ Follows(s, TriggerNone("green"), w)
  <2>1. u.diode = "red" /\ u # TriggerTimer("green") /\ u # TriggerNone("green")
    BY <1>1, PutIs DEF TriggerNone, TriggerTimer
  <2>2. u \in R
    OBVIOUS
  <2> HIDE DEF S, R, u
  <2> QED BY <1>1, <1>3, <2>1, <2>2, OneHas
<1> HIDE DEF s, t, S, R
<1>7. /\ t \o s \in Seq(File)
      /\ Has(t \o s, TriggerTimer("green")) /\ Has(t \o s, DelayOn("green", x)) /\ Has(t \o s, DelayOff("green", y))
      /\ Follows(t \o s, TriggerTimer("green"), DelayOn("green", x))
      /\ Follows(t \o s, TriggerTimer("green"), DelayOff("green", y))
      /\ Follows(t \o s, TriggerNone("green"), TriggerTimer("green"))
      /\ Only(t \o s, "green", S) /\ Only(t \o s, "red", R)
  BY <1>3, <1>4, <1>5, <1>6, SeqHas
<1>8. "green" \in Color /\ "red" \notin Lit("green") /\ "green" \in Lit("green")
  BY <1>1, DiodeIs DEF Color
<1>9. (t \o s) \o SetBoth("green") \in Seq(File)
  BY <1>3, <1>7, SeqHas
<1>10. Serves((t \o s) \o SetBoth("green"), "green", Flash(x, y))
  BY <1>7, <1>8, DiodeIs, TimerServes DEF S
<1>11. Serves((t \o s) \o SetBoth("green"), "red", Out)
  BY <1>7, <1>8, DiodeIs, OffServes DEF R
<1> QED BY <1>2, <1>9, <1>10, <1>11

BlinkYellow(x, y) == _led_trigger_timer("green", x, y) \o _led_trigger_timer("red", x, y) \o SetBoth("yellow")

LEMMA BlinkYellowServes ==
  ASSUME NEW x \in Delay, NEW y \in Delay
  PROVE  /\ BlinkYellow(x, y) \in Seq(File)
         /\ \A d \in Diode : Serves(BlinkYellow(x, y), d, Flash(x, y))
<1> DEFINE s == _led_trigger_timer("green", x, y)  t == _led_trigger_timer("red", x, y)
<1>1. "green" # "red" /\ "yellow" \in Color
  BY DEF Color
<1>2. BlinkYellow(x, y) = (s \o t) \o SetBoth("yellow")
  BY DEF BlinkYellow
<1>3. s \in Seq(File) /\ t \in Seq(File) /\ SetBoth("yellow") \in Seq(File)
  BY <1>1, DiodeIs, TimerIs, SetIs
<1>4. /\ Has(s, TriggerTimer("green")) /\ Has(s, DelayOn("green", x)) /\ Has(s, DelayOff("green", y))
      /\ Follows(s, TriggerTimer("green"), DelayOn("green", x)) /\ Follows(s, TriggerTimer("green"), DelayOff("green", y))
      /\ Follows(s, TriggerNone("green"), TriggerTimer("green"))
      /\ \A w : Follows(s, TriggerTimer("red"), w) /\ Follows(s, TriggerNone("red"), w)
      /\ \A S : Only(s, "red", S)
  BY <1>1, DiodeIs, TimerIs
<1>5. /\ Has(t, TriggerTimer("red")) /\ Has(t, DelayOn("red", x)) /\ Has(t, DelayOff("red", y))
      /\ Follows(t, TriggerTimer("red"), DelayOn("red", x)) /\ Follows(t, TriggerTimer("red"), DelayOff("red", y))
      /\ Follows(t, TriggerNone("red"), TriggerTimer("red"))
      /\ \A w : Follows(t, TriggerTimer("green"), w) /\ Follows(t, TriggerNone("green"), w)
      /\ \A S : Only(t, "green", S)
  BY <1>1, DiodeIs, TimerIs
<1>6. /\ \A S : {TriggerTimer("green"), DelayOn("green", x), DelayOff("green", y)} \subseteq S => Only(s, "green", S)
      /\ \A S : {TriggerTimer("red"), DelayOn("red", x), DelayOff("red", y)} \subseteq S => Only(t, "red", S)
  BY DiodeIs, TimerIs
<1> HIDE DEF s, t
<1>7. s \o t \in Seq(File) /\ (s \o t) \o SetBoth("yellow") \in Seq(File)
  <2>1. s \o t \in Seq(File)
    BY <1>3, SeqHas
  <2> QED BY <1>3, <2>1, SeqHas
<1>8. Serves((s \o t) \o SetBoth("yellow"), "green", Flash(x, y))
  <2> DEFINE S == {TriggerNone("green"), TriggerTimer("green"), DelayOn("green", x), DelayOff("green", y),
                   Bright("green", 255)}
  <2>1. Only(s, "green", S) /\ Only(t, "green", S)
    BY <1>5, <1>6
  <2> HIDE DEF S
  <2>2. /\ Has(s \o t, TriggerTimer("green")) /\ Has(s \o t, DelayOn("green", x)) /\ Has(s \o t, DelayOff("green", y))
        /\ Follows(s \o t, TriggerTimer("green"), DelayOn("green", x))
        /\ Follows(s \o t, TriggerTimer("green"), DelayOff("green", y))
        /\ Follows(s \o t, TriggerNone("green"), TriggerTimer("green")) /\ Only(s \o t, "green", S)
    BY <1>3, <1>4, <1>5, <2>1, SeqHas
  <2>3. "green" \in Lit("yellow")
    BY DiodeIs
  <2> QED BY <1>1, <1>7, <2>2, <2>3, DiodeIs, TimerServes DEF S
<1>9. Serves((s \o t) \o SetBoth("yellow"), "red", Flash(x, y))
  <2> DEFINE S == {TriggerNone("red"), TriggerTimer("red"), DelayOn("red", x), DelayOff("red", y), Bright("red", 255)}
  <2>1. Only(s, "red", S) /\ Only(t, "red", S)
    BY <1>4, <1>6
  <2> HIDE DEF S
  <2>2. /\ Has(s \o t, TriggerTimer("red")) /\ Has(s \o t, DelayOn("red", x)) /\ Has(s \o t, DelayOff("red", y))
        /\ Follows(s \o t, TriggerTimer("red"), DelayOn("red", x))
        /\ Follows(s \o t, TriggerTimer("red"), DelayOff("red", y))
        /\ Follows(s \o t, TriggerNone("red"), TriggerTimer("red")) /\ Only(s \o t, "red", S)
    BY <1>3, <1>4, <1>5, <2>1, SeqHas
  <2>3. "red" \in Lit("yellow")
    BY DiodeIs
  <2> QED BY <1>1, <1>7, <2>2, <2>3, DiodeIs, TimerServes DEF S
<1> QED BY <1>2, <1>7, <1>8, <1>9, DiodeIs

LEMMA BlinkServes ==
  ASSUME NEW c \in Color, NEW x \in Delay, NEW y \in Delay
  PROVE  /\ mds_api_led_blink(c, x, y) \in Seq(File)
         /\ \A d \in Diode : Serves(mds_api_led_blink(c, x, y), d, IF d \in Lit(c) THEN Flash(x, y) ELSE Out)
<1>1. "red" # "green" /\ "red" # "yellow" /\ "red" # "off" /\ "green" # "yellow" /\ "green" # "off" /\ "yellow" # "off"
  OBVIOUS
<1>2. CASE c = "red"
  <2>1. mds_api_led_blink(c, x, y) = BlinkRed(x, y)
    BY <1>2 DEF mds_api_led_blink
  <2> QED BY <1>1, <1>2, <2>1, DiodeIs, BlinkRedServes
<1>3. CASE c = "green"
  <2>1. mds_api_led_blink(c, x, y) = BlinkGreen(x, y)
    BY <1>1, <1>3 DEF mds_api_led_blink, BlinkGreen
  <2> QED BY <1>1, <1>3, <2>1, DiodeIs, BlinkGreenServes
<1>4. CASE c = "yellow"
  <2>1. mds_api_led_blink(c, x, y) = BlinkYellow(x, y)
    BY <1>1, <1>4 DEF mds_api_led_blink, BlinkYellow
  <2> QED BY <1>1, <1>4, <2>1, DiodeIs, BlinkYellowServes
<1>5. CASE c = "off"
  <2>1. mds_api_led_blink(c, x, y) = mds_api_led_on(c)
    BY <1>1, <1>5 DEF mds_api_led_blink, mds_api_led_off, mds_api_led_on
  <2>2. c \in Color /\ \A d \in Diode : d \notin Lit(c)
    BY <1>5, DiodeIs DEF Color
  <2> QED BY <2>1, <2>2, SteadyServes
<1> QED BY <1>2, <1>3, <1>4, <1>5 DEF Color

-----------------------------------------------------------------------------
(* The LED is what is asked for, but for what is still to be written.      *)
Lamp == [trigger : {"none", "timer"}, delay_on : Delay \cup {Default}, delay_off : Delay \cup {Default},
         bright : BOOLEAN]

Pending(w) == \E a \in App : Has(todo[a], w)

OnTrack(d, t) ==
  /\ t = Out => (led[d].trigger # "timer" /\ led[d].bright = FALSE) \/ Pending(Bright(d, 0))
  /\ t = On => /\ led[d].trigger # "timer" \/ Pending(TriggerNone(d))
               /\ (led[d].trigger # "timer" /\ led[d].bright = TRUE) \/ Pending(Bright(d, 255))
  /\ \A x, y \in Delay : t = Flash(x, y) =>
       /\ led[d].trigger = "timer" \/ Pending(TriggerTimer(d))
       /\ (led[d].trigger = "timer" /\ led[d].delay_on = x) \/ Pending(DelayOn(d, x))
       /\ (led[d].trigger = "timer" /\ led[d].delay_off = y) \/ Pending(DelayOff(d, y))

TypeOK == /\ led \in [Diode -> Lamp]
          /\ todo \in [App -> Seq(File)]
          /\ \A a \in App : a \notin busy => todo[a] = << >>
          /\ \A look \in agreed, d \in Diode : look[d] \in Target
          /\ \A look \in agreed : look = [d \in Diode |-> look[d]]
AgreedFits == \A look \in agreed, d \in Diode, a \in App : Fits(todo[a], d, look[d])
AgreedOnTrack == \A look \in agreed, d \in Diode : OnTrack(d, look[d])

LedIInv == TypeOK /\ AgreedFits /\ AgreedOnTrack

LEMMA HasFollows ==
  ASSUME NEW s, NEW v, NEW w, Has(s, v), Follows(s, v, w)
  PROVE  Has(s, w)
BY DEF Has, Follows

(* What a write does to an LED.                                            *)
LEMMA EffectNone ==
  ASSUME NEW l \in Lamp, NEW d
  PROVE  /\ Effect(l, TriggerNone(d)) \in Lamp /\ Effect(l, TriggerNone(d)).trigger # "timer"
         /\ l.trigger # "timer" => Effect(l, TriggerNone(d)) = l
<1>1. Put(d, "trigger", "none").file = "trigger" /\ Put(d, "trigger", "none").value = "none"
  BY PutIs
<1>2. Effect(l, TriggerNone(d)) = IF l.trigger = "timer" THEN Dark ELSE l
  BY <1>1 DEF Effect, TriggerNone
<1>3. Dark \in Lamp /\ Dark.trigger # "timer"
  BY DEF Dark, Lamp
<1> QED BY <1>2, <1>3

LEMMA EffectTimer ==
  ASSUME NEW l \in Lamp, NEW d
  PROVE  Effect(l, TriggerTimer(d)) \in Lamp /\ Effect(l, TriggerTimer(d)).trigger = "timer"
<1>1. Put(d, "trigger", "timer").file = "trigger" /\ Put(d, "trigger", "timer").value = "timer"
  BY PutIs
<1>2. Effect(l, TriggerTimer(d)) = Timer
  BY <1>1 DEF Effect, TriggerTimer
<1>3. Timer \in Lamp /\ Timer.trigger = "timer"
  BY DEF Timer, Lamp
<1> QED BY <1>2, <1>3

LEMMA EffectDelayOn ==
  ASSUME NEW l \in Lamp, NEW d, NEW x \in Delay
  PROVE  LET k == Effect(l, DelayOn(d, x))
         IN  k \in Lamp /\ k.trigger = l.trigger /\ k.delay_off = l.delay_off /\ (l.trigger = "timer" => k.delay_on = x)
<1>1. Put(d, "delay_on", x).file = "delay_on" /\ Put(d, "delay_on", x).value = x
  BY PutIs
<1>2. Effect(l, DelayOn(d, x)) = IF l.trigger = "timer" THEN [l EXCEPT !.delay_on = x] ELSE l
  BY <1>1 DEF Effect, DelayOn
<1>3. LET k == [l EXCEPT !.delay_on = x]
      IN  k \in Lamp /\ k.trigger = l.trigger /\ k.delay_off = l.delay_off /\ k.delay_on = x
  BY DEF Lamp
<1> QED BY <1>2, <1>3

LEMMA EffectDelayOff ==
  ASSUME NEW l \in Lamp, NEW d, NEW y \in Delay
  PROVE  LET k == Effect(l, DelayOff(d, y))
         IN  k \in Lamp /\ k.trigger = l.trigger /\ k.delay_on = l.delay_on /\ (l.trigger = "timer" => k.delay_off = y)
<1>1. Put(d, "delay_off", y).file = "delay_off" /\ Put(d, "delay_off", y).value = y
  BY PutIs
<1>2. Effect(l, DelayOff(d, y)) = IF l.trigger = "timer" THEN [l EXCEPT !.delay_off = y] ELSE l
  BY <1>1 DEF Effect, DelayOff
<1>3. LET k == [l EXCEPT !.delay_off = y]
      IN  k \in Lamp /\ k.trigger = l.trigger /\ k.delay_on = l.delay_on /\ k.delay_off = y
  BY DEF Lamp
<1> QED BY <1>2, <1>3

LEMMA EffectDark == ASSUME NEW l, NEW d PROVE Effect(l, Bright(d, 0)) = Dark
<1>1. Put(d, "brightness", 0).file = "brightness" /\ Put(d, "brightness", 0).value = 0
  BY PutIs
<1> QED BY <1>1 DEF Effect, Bright

LEMMA EffectLit ==
  ASSUME NEW l \in Lamp, NEW d
  PROVE  /\ Effect(l, Bright(d, 255)) \in Lamp
         /\ Effect(l, Bright(d, 255)).trigger = l.trigger
         /\ Effect(l, Bright(d, 255)).delay_on = l.delay_on
         /\ Effect(l, Bright(d, 255)).delay_off = l.delay_off
<1>1. Put(d, "brightness", 255).file = "brightness" /\ Put(d, "brightness", 255).value = 255
  BY PutIs
<1>2. Effect(l, Bright(d, 255)) = [l EXCEPT !.bright = TRUE]
  BY <1>1 DEF Effect, Bright
<1> DEFINE k == [l EXCEPT !.bright = TRUE]
<1>3. k \in Lamp /\ k.trigger = l.trigger /\ k.delay_on = l.delay_on /\ k.delay_off = l.delay_off
  BY DEF Lamp
<1>4. Effect(l, Bright(d, 255)) = k
  BY <1>2
<1> HIDE DEF k
<1> QED BY <1>3, <1>4

LEMMA EffectBright == ASSUME NEW l \in Lamp, NEW d PROVE Effect(l, Bright(d, 255)).bright = TRUE
<1>1. Put(d, "brightness", 255).file = "brightness" /\ Put(d, "brightness", 255).value = 255
  BY PutIs
<1>2. Effect(l, Bright(d, 255)) = [l EXCEPT !.bright = TRUE]
  BY <1>1 DEF Effect, Bright
<1>3. [l EXCEPT !.bright = TRUE].bright = TRUE
  BY DEF Lamp
<1> QED BY <1>2, <1>3

LEMMA EffectType == ASSUME NEW l \in Lamp, NEW w \in File PROVE Effect(l, w) \in Lamp
<1>1. \A d : /\ Effect(l, TriggerNone(d)) \in Lamp /\ Effect(l, TriggerTimer(d)) \in Lamp
            /\ Effect(l, Bright(d, 0)) \in Lamp /\ Effect(l, Bright(d, 255)) \in Lamp
  <2> SUFFICES ASSUME NEW d
               PROVE  /\ Effect(l, TriggerNone(d)) \in Lamp /\ Effect(l, TriggerTimer(d)) \in Lamp
                      /\ Effect(l, Bright(d, 0)) \in Lamp /\ Effect(l, Bright(d, 255)) \in Lamp
    OBVIOUS
  <2>1. Effect(l, TriggerNone(d)) \in Lamp
    BY EffectNone
  <2>2. Effect(l, TriggerTimer(d)) \in Lamp
    BY EffectTimer
  <2>3. Effect(l, Bright(d, 0)) \in Lamp
    <3>1. Effect(l, Bright(d, 0)) = Dark
      BY EffectDark
    <3>2. Dark \in Lamp
      BY DEF Dark, Lamp
    <3> QED BY <3>1, <3>2
  <2>4. Effect(l, Bright(d, 255)) \in Lamp
    BY EffectLit
  <2> QED BY <2>1, <2>2, <2>3, <2>4
<1>2. \A d : \A x \in Delay : Effect(l, DelayOn(d, x)) \in Lamp /\ Effect(l, DelayOff(d, x)) \in Lamp
  BY EffectDelayOn, EffectDelayOff
<1>3. CASE \E d \in Diode : w = TriggerNone(d) \/ w = TriggerTimer(d) \/ w = Bright(d, 0) \/ w = Bright(d, 255)
  BY <1>1, <1>3
<1>4. CASE \E d \in Diode, x \in Delay : w = DelayOn(d, x) \/ w = DelayOff(d, x)
  BY <1>2, <1>4
<1> QED BY <1>3, <1>4 DEF File

(* The kinds of writes are apart.                                          *)
LEMMA Apart ==
  ASSUME NEW d
  PROVE  /\ \A v : TriggerNone(d) # Bright(d, v) /\ TriggerTimer(d) # Bright(d, v)
         /\ TriggerNone(d) # TriggerTimer(d)
         /\ \A x : TriggerNone(d) # DelayOn(d, x) /\ TriggerNone(d) # DelayOff(d, x)
                   /\ TriggerTimer(d) # DelayOn(d, x) /\ TriggerTimer(d) # DelayOff(d, x)
         /\ \A x, y : DelayOn(d, x) # DelayOff(d, y) /\ DelayOn(d, x) # Bright(d, y) /\ DelayOff(d, x) # Bright(d, y)
         /\ Bright(d, 0) # Bright(d, 255)
<1>1. /\ "trigger" # "brightness" /\ "trigger" # "delay_on" /\ "trigger" # "delay_off" /\ "none" # "timer"
      /\ "delay_on" # "delay_off" /\ "delay_on" # "brightness" /\ "delay_off" # "brightness" /\ 0 # 255
  OBVIOUS
<1> QED BY <1>1, PutIs DEF TriggerNone, TriggerTimer, DelayOn, DelayOff, Bright

LEMMA DiodeOf == \A d : /\ TriggerNone(d).diode = d /\ TriggerTimer(d).diode = d
                        /\ \A x : DelayOn(d, x).diode = d /\ DelayOff(d, x).diode = d /\ Bright(d, x).diode = d
BY PutIs DEF TriggerNone, TriggerTimer, DelayOn, DelayOff, Bright

LEMMA FileDiode == ASSUME NEW w \in File PROVE w.diode \in Diode
BY DiodeOf DEF File

-----------------------------------------------------------------------------
LEMMA LedInitIInv == LedInit => LedIInv
<1> SUFFICES ASSUME LedInit PROVE LedIInv
  OBVIOUS
<1>1. Dark \in Lamp
  BY DEF Dark, Lamp
<1> QED BY <1>1, NoneHas DEF LedInit, LedIInv, TypeOK, AgreedFits, AgreedOnTrack

(* A call that serves its look.                                            *)
LEMMA CallKeeps ==
  ASSUME LedIInv, NEW a \in App, NEW look, NEW s \in Seq(File), Call(a, look, s),
         look = [d \in Diode |-> look[d]], \A d \in Diode : look[d] \in Target /\ Serves(s, d, look[d])
  PROVE  LedIInv'
<1>1. /\ led' = led /\ todo' = [todo EXCEPT ![a] = s] /\ todo'[a] = s
      /\ \A b \in App : b # a => todo'[b] = todo[b]
      /\ todo' \in [App -> Seq(File)]
      /\ busy' = busy \cup {a} /\ agreed' \subseteq {look}
      /\ Quiet \/ agreed' \subseteq agreed
  BY DEF Call, LedIInv, TypeOK
<1>2. TypeOK'
  BY <1>1 DEF LedIInv, TypeOK
<1>3. AgreedFits'
  <2> SUFFICES ASSUME NEW d \in Diode, NEW b \in App, look \in agreed' PROVE Fits(todo'[b], d, look[d])
    BY <1>1 DEF AgreedFits
  <2>1. CASE b = a
    BY <1>1, <2>1 DEF Serves
  <2>2. CASE b # a /\ Quiet
    <3>1. todo'[b] = << >>
      BY <1>1, <2>2 DEF Quiet, LedIInv, TypeOK
    <3> QED BY <3>1, NoneHas
  <2>3. CASE b # a /\ ~Quiet
    BY <1>1, <2>3 DEF LedIInv, AgreedFits
  <2> QED BY <2>1, <2>2, <2>3
<1>4. AgreedOnTrack'
  <2> SUFFICES ASSUME NEW d \in Diode PROVE OnTrack(d, look[d])'
    BY <1>1 DEF AgreedOnTrack
  <2>1. Gives(s, d, look[d])
    BY DEF Serves
  <2>2. \A w : Has(s, w) => Pending(w)'
    BY <1>1 DEF Pending
  <2>3. /\ look[d] = Out => Pending(Bright(d, 0))'
        /\ look[d] = On => Pending(TriggerNone(d))' /\ Pending(Bright(d, 255))'
        /\ \A x, y \in Delay : look[d] = Flash(x, y) =>
             Pending(TriggerTimer(d))' /\ Pending(DelayOn(d, x))' /\ Pending(DelayOff(d, y))'
    BY <2>1, <2>2 DEF Gives
  <2>4. \A w : Pending(w)' <=> \E b \in App : Has(todo'[b], w)
    BY DEF Pending
  <2> QED BY <2>3 DEF OnTrack
<1> QED BY <1>2, <1>3, <1>4 DEF LedIInv

LEMMA LedOnKeeps == ASSUME LedIInv, NEW a \in App, LedOn(a) PROVE LedIInv'
<1>1. PICK c \in Color : Call(a, Steady(c), mds_api_led_on(c))
  BY DEF LedOn
<1>2. Steady(c) = [d \in Diode |-> Steady(c)[d]]
  BY DEF Steady
<1>3. ASSUME NEW d \in Diode PROVE Steady(c)[d] = (IF d \in Lit(c) THEN On ELSE Out)
  <2>0. Steady(c)[d] = [blink |-> FALSE, lit |-> d \in Lit(c)]
    BY DEF Steady
  <2>1. CASE d \in Lit(c)
    <3>1. (d \in Lit(c)) = TRUE
      BY <2>1
    <3>2. Steady(c)[d] = On
      BY ONLY <2>0, <3>1 DEF On
    <3> QED BY <2>1, <3>2
  <2>2. CASE d \notin Lit(c)
    <3>1. (d \in Lit(c)) = FALSE
      BY <2>2
    <3>2. Steady(c)[d] = Out
      BY ONLY <2>0, <3>1 DEF Out
    <3> QED BY <2>2, <3>2
  <2> QED BY <2>1, <2>2
<1>4. mds_api_led_on(c) \in Seq(File) /\ \A d \in Diode : Serves(mds_api_led_on(c), d, Steady(c)[d])
  BY <1>3, SteadyServes
<1>5. \A d \in Diode : Steady(c)[d] \in Target
  BY <1>3 DEF Target
<1> HIDE DEF Steady
<1> QED BY <1>1, <1>2, <1>4, <1>5, CallKeeps

LEMMA LedOffKeeps == ASSUME LedIInv, NEW a \in App, LedOff(a) PROVE LedIInv'
<1>1. "off" \in Color /\ mds_api_led_off = mds_api_led_on("off")
  BY DEF Color, mds_api_led_off, mds_api_led_on
<1>2. LedOn(a)
  BY <1>1 DEF LedOff, LedOn
<1> QED BY <1>2, LedOnKeeps

LEMMA LedBlinkKeeps == ASSUME LedIInv, NEW a \in App, LedBlink(a) PROVE LedIInv'
<1>1. PICK c \in Color, x \in Delay, y \in Delay : Call(a, Blinking(c, x, y), mds_api_led_blink(c, x, y))
  BY DEF LedBlink
<1> DEFINE look == Blinking(c, x, y)
<1>2. look = [d \in Diode |-> look[d]] /\ \A d \in Diode : look[d] = IF d \in Lit(c) THEN Flash(x, y) ELSE Out
  BY DEF Blinking, Flash, Out
<1>3. \A d \in Diode : look[d] \in Target
  BY <1>2 DEF Target
<1>4. mds_api_led_blink(c, x, y) \in Seq(File) /\ \A d \in Diode : Serves(mds_api_led_blink(c, x, y), d, look[d])
  BY <1>2, BlinkServes
<1> HIDE DEF look
<1>5. Call(a, look, mds_api_led_blink(c, x, y))
  BY <1>1 DEF look
<1> QED BY <1>2, <1>3, <1>4, <1>5, CallKeeps

LEMMA FitsTail ==
  ASSUME NEW s \in Seq(File), s # << >>, NEW d, NEW t, Fits(s, d, t)
  PROVE  Fits(Tail(s), d, t)
<1>1. /\ \A v, w : Follows(s, v, w) => Follows(Tail(s), v, w)
      /\ \A e, S : Only(s, e, S) => Only(Tail(s), e, S)
  BY TailHas
<1> HIDE DEF Follows, Only
<1> QED BY <1>1 DEF Fits

LEMMA WriteKeeps == ASSUME LedIInv, NEW a \in App, Write(a) PROVE LedIInv'
<1> DEFINE s == todo[a]  w == Head(todo[a])
<1>1. s \in Seq(File) /\ s # << >> /\ w \in File /\ w.diode \in Diode /\ Tail(s) \in Seq(File)
  BY TailHas, FileDiode DEF Write, LedIInv, TypeOK
<1>2. /\ busy' = busy /\ agreed' = agreed
      /\ led' = [led EXCEPT ![w.diode] = Effect(led[w.diode], w)]
      /\ todo' = [todo EXCEPT ![a] = Tail(s)]
  BY DEF Write
<1>3. /\ led \in [Diode -> Lamp] /\ todo \in [App -> Seq(File)]
      /\ \A d \in Diode : led[d] \in Lamp
      /\ \A b \in App : todo[b] \in Seq(File)
  BY DEF LedIInv, TypeOK
<1>4. /\ led'[w.diode] = Effect(led[w.diode], w)
      /\ \A d \in Diode : d # w.diode => led'[d] = led[d]
  BY <1>1, <1>2, <1>3
<1>5. todo'[a] = Tail(s) /\ \A b \in App : b # a => todo'[b] = todo[b]
  BY <1>2, <1>3
<1> HIDE DEF s
<1>6. /\ \A v : Has(s, v) <=> w = v \/ Has(Tail(s), v)
      /\ \A u, v : Follows(s, u, v) => (w = u => Has(Tail(s), v))
      /\ \A d, S : Only(s, d, S) => (w.diode = d => w \in S)
  BY <1>1, TailHas DEF s
<1> HIDE DEF w
<1>7. TypeOK'
  <2>1. Effect(led[w.diode], w) \in Lamp
    BY <1>1, <1>3, EffectType
  <2>2. led' \in [Diode -> Lamp]
    BY <1>1, <1>2, <1>3, <2>1
  <2>3. todo' \in [App -> Seq(File)]
    BY <1>1, <1>2, <1>3
  <2>4. \A b \in App : b \notin busy' => todo'[b] = << >>
    BY <1>1, <1>2, <1>5 DEF LedIInv, TypeOK, s
  <2> QED BY <1>2, <2>2, <2>3, <2>4 DEF LedIInv, TypeOK
<1>8. AgreedFits'
  <2> SUFFICES ASSUME NEW look \in agreed, NEW d \in Diode, NEW b \in App PROVE Fits(todo'[b], d, look[d])
    BY <1>2 DEF AgreedFits
  <2>1. Fits(todo[b], d, look[d])
    BY DEF LedIInv, AgreedFits
  <2>2. CASE b = a
    BY <1>1, <1>5, <2>1, <2>2, FitsTail DEF s
  <2>3. CASE b # a
    BY <1>5, <2>1, <2>3
  <2> QED BY <2>2, <2>3
<1>9. \A v : Pending(v)' <=> \E b \in App : Has(todo'[b], v)
  BY DEF Pending
<1>10. ASSUME NEW v, Pending(v), v # w PROVE Pending(v)'
  <2>1. PICK b \in App : Has(todo[b], v)
    BY <1>10 DEF Pending
  <2>2. Has(todo'[b], v)
    BY <1>5, <1>6, <1>10, <2>1 DEF s
  <2> QED BY <1>9, <2>2
<1>11. ASSUME NEW u, NEW v, \A b \in App : Follows(todo'[b], u, v), Pending(u)' PROVE Pending(v)'
  <2>1. PICK b \in App : Has(todo'[b], u)
    BY <1>9, <1>11
  <2>2. Has(todo'[b], v)
    BY <1>11, <2>1, HasFollows
  <2> QED BY <1>9, <2>2
<1>12. ASSUME NEW v, Follows(s, w, v) PROVE Pending(v)'
  BY <1>5, <1>6, <1>9, <1>12
<1>13. AgreedOnTrack'
  <2> SUFFICES ASSUME NEW look \in agreed, NEW d \in Diode PROVE OnTrack(d, look[d])'
    BY <1>2 DEF AgreedOnTrack
  <2>1. OnTrack(d, look[d]) /\ look[d] \in Target
    BY DEF LedIInv, AgreedOnTrack, TypeOK
  <2>2. Fits(s, d, look[d]) /\ \A b \in App : Fits(todo'[b], d, look[d])
    BY <1>2, <1>8 DEF LedIInv, AgreedFits, s
  <2>3. CASE w.diode # d
    <3>1. \A x : TriggerNone(d) # w /\ TriggerTimer(d) # w /\ DelayOn(d, x) # w /\ DelayOff(d, x) # w /\ Bright(d, x) # w
      BY <2>3, DiodeOf
    <3>2. led'[d] = led[d]
      BY <1>4, <2>3
    <3>3. /\ Pending(TriggerNone(d)) => Pending(TriggerNone(d))'
          /\ Pending(TriggerTimer(d)) => Pending(TriggerTimer(d))'
          /\ \A x : /\ Pending(DelayOn(d, x)) => Pending(DelayOn(d, x))'
                    /\ Pending(DelayOff(d, x)) => Pending(DelayOff(d, x))'
                    /\ Pending(Bright(d, x)) => Pending(Bright(d, x))'
      BY <1>10, <3>1
    <3> QED BY <2>1, <3>2, <3>3 DEF OnTrack
  <2>4. CASE w.diode = d /\ look[d] = Out
    <3>1. w \in {TriggerNone(d), Bright(d, 0)}
      BY <1>6, <2>2, <2>4 DEF Fits
    <3>2. led'[d] = Effect(led[d], w) /\ led[d] \in Lamp
      BY <1>3, <1>4, <2>4
    <3>3. (led[d].trigger # "timer" /\ led[d].bright = FALSE) \/ Pending(Bright(d, 0))
      BY <2>1, <2>4 DEF OnTrack
    <3>4. (led'[d].trigger # "timer" /\ led'[d].bright = FALSE) \/ Pending(Bright(d, 0))'
      <4>1. CASE w = TriggerNone(d)
        <5>1. w # Bright(d, 0)
          BY <4>1, Apart
        <5> QED BY <1>10, <3>2, <3>3, <4>1, <5>1, EffectNone
      <4>2. CASE w = Bright(d, 0)
        <5>1. led'[d] = Dark
          BY <3>2, <4>2, EffectDark
        <5> QED BY <5>1 DEF Dark
      <4> QED BY <3>1, <4>1, <4>2
    <3> QED BY <2>4, <3>4, Targets DEF OnTrack
  <2>5. CASE w.diode = d /\ look[d] = On
    <3>1. w \in {TriggerNone(d), Bright(d, 255)} /\ Follows(s, TriggerNone(d), Bright(d, 255))
      BY <1>6, <2>2, <2>5 DEF Fits
    <3>2. led'[d] = Effect(led[d], w) /\ led[d] \in Lamp
      BY <1>3, <1>4, <2>5
    <3>3. /\ led[d].trigger # "timer" \/ Pending(TriggerNone(d))
          /\ (led[d].trigger # "timer" /\ led[d].bright = TRUE) \/ Pending(Bright(d, 255))
      BY <2>1, <2>5 DEF OnTrack
    <3>4. \A b \in App : Follows(todo'[b], TriggerNone(d), Bright(d, 255))
      BY <2>2, <2>5 DEF Fits
    <3>5. /\ led'[d].trigger # "timer" \/ Pending(TriggerNone(d))'
          /\ (led'[d].trigger # "timer" /\ led'[d].bright = TRUE) \/ Pending(Bright(d, 255))'
      <4>1. CASE w = TriggerNone(d)
        <5>1. Pending(Bright(d, 255))'
          BY <1>12, <3>1, <4>1
        <5> QED BY <3>2, <4>1, <5>1, EffectNone
      <4>2. CASE w = Bright(d, 255)
        <5>0. led'[d].trigger = led[d].trigger
          BY <3>2, <4>2, EffectLit
        <5>1. led'[d].bright = TRUE
          BY <3>2, <4>2, EffectBright
        <5>2. Pending(TriggerNone(d)) => Pending(TriggerNone(d))'
          BY <1>10, <4>2, Apart
        <5>3. Pending(TriggerNone(d))' => Pending(Bright(d, 255))'
          BY <1>11, <3>4
        <5> QED BY <3>3, <5>0, <5>1, <5>2, <5>3
      <4> QED BY <3>1, <4>1, <4>2
    <3> QED BY <2>5, <3>5, Targets DEF OnTrack
  <2>6. ASSUME w.diode = d, NEW x \in Delay, NEW y \in Delay, look[d] = Flash(x, y)
        PROVE  OnTrack(d, look[d])'
    <3>1. /\ w \in {TriggerNone(d), TriggerTimer(d), DelayOn(d, x), DelayOff(d, y), Bright(d, 255)}
          /\ Follows(s, TriggerNone(d), TriggerTimer(d))
          /\ Follows(s, TriggerTimer(d), DelayOn(d, x)) /\ Follows(s, TriggerTimer(d), DelayOff(d, y))
      <4> DEFINE S == {TriggerNone(d), TriggerTimer(d), DelayOn(d, x), DelayOff(d, y), Bright(d, 255)}
      <4>1. /\ Only(s, d, S) /\ Follows(s, TriggerNone(d), TriggerTimer(d))
            /\ Follows(s, TriggerTimer(d), DelayOn(d, x)) /\ Follows(s, TriggerTimer(d), DelayOff(d, y))
        BY <2>2, <2>6, SMTT(60) DEF Fits
      <4> HIDE DEF S
      <4>2. w \in S
        BY <1>6, <2>6, <4>1
      <4> QED BY <4>1, <4>2 DEF S
    <3>2. led'[d] = Effect(led[d], w) /\ led[d] \in Lamp
      BY <1>3, <1>4, <2>6
    <3>3. /\ led[d].trigger = "timer" \/ Pending(TriggerTimer(d))
          /\ (led[d].trigger = "timer" /\ led[d].delay_on = x) \/ Pending(DelayOn(d, x))
          /\ (led[d].trigger = "timer" /\ led[d].delay_off = y) \/ Pending(DelayOff(d, y))
      BY <2>1, <2>6 DEF OnTrack
    <3>4. \A b \in App : /\ Follows(todo'[b], TriggerTimer(d), DelayOn(d, x))
                         /\ Follows(todo'[b], TriggerTimer(d), DelayOff(d, y))
      BY <2>2, <2>6, ZenonT(60) DEF Fits
    <3>5. Pending(TriggerTimer(d))' => Pending(DelayOn(d, x))' /\ Pending(DelayOff(d, y))'
      BY <1>11, <3>4
    <3>6. /\ led'[d].trigger = "timer" \/ Pending(TriggerTimer(d))'
          /\ (led'[d].trigger = "timer" /\ led'[d].delay_on = x) \/ Pending(DelayOn(d, x))'
          /\ (led'[d].trigger = "timer" /\ led'[d].delay_off = y) \/ Pending(DelayOff(d, y))'
      <4>1. CASE w = TriggerNone(d)
        <5>1. Pending(TriggerTimer(d))'
          BY <1>12, <3>1, <4>1
        <5> QED BY <3>5, <5>1
      <4>2. CASE w = TriggerTimer(d)
        <5>1. Pending(DelayOn(d, x))' /\ Pending(DelayOff(d, y))'
          BY <1>12, <3>1, <4>2
        <5> QED BY <3>2, <4>2, <5>1, EffectTimer
      <4>3. CASE w = DelayOn(d, x)
        <5>1. /\ led'[d].trigger = led[d].trigger /\ led'[d].delay_off = led[d].delay_off
              /\ led[d].trigger = "timer" => led'[d].delay_on = x
          BY <3>2, <4>3, EffectDelayOn
        <5>2. /\ Pending(TriggerTimer(d)) => Pending(TriggerTimer(d))'
              /\ Pending(DelayOff(d, y)) => Pending(DelayOff(d, y))'
          BY <1>10, <4>3, Apart
        <5> QED BY <3>3, <3>5, <5>1, <5>2
      <4>4. CASE w = DelayOff(d, y)
        <5>1. /\ led'[d].trigger = led[d].trigger /\ led'[d].delay_on = led[d].delay_on
              /\ led[d].trigger = "timer" => led'[d].delay_off = y
          BY <3>2, <4>4, EffectDelayOff
        <5>2. /\ Pending(TriggerTimer(d)) => Pending(TriggerTimer(d))'
              /\ Pending(DelayOn(d, x)) => Pending(DelayOn(d, x))'
          BY <1>10, <4>4, Apart
        <5> QED BY <3>3, <3>5, <5>1, <5>2
      <4>5. CASE w = Bright(d, 255)
        <5>1. led'[d].trigger = led[d].trigger /\ led'[d].delay_on = led[d].delay_on /\ led'[d].delay_off = led[d].delay_off
          BY <3>2, <4>5, EffectLit
        <5>2. /\ Pending(TriggerTimer(d)) => Pending(TriggerTimer(d))'
              /\ Pending(DelayOn(d, x)) => Pending(DelayOn(d, x))'
              /\ Pending(DelayOff(d, y)) => Pending(DelayOff(d, y))'
          BY <1>10, <4>5, Apart
        <5> QED BY <3>3, <5>1, <5>2
      <4> QED BY <3>1, <4>1, <4>2, <4>3, <4>4, <4>5
    <3>7. \A u, v \in Delay : look[d] = Flash(u, v) => u = x /\ v = y
      BY <2>6, Targets
    <3> QED BY <2>6, <3>6, <3>7, Targets DEF OnTrack
  <2>7. w.diode # d \/ look[d] = Out \/ look[d] = On \/ \E x, y \in Delay : look[d] = Flash(x, y)
    BY <2>1 DEF Target
  <2> QED BY <2>3, <2>4, <2>5, <2>6, <2>7
<1> QED BY <1>7, <1>8, <1>13 DEF LedIInv

LEMMA ReturnKeeps == ASSUME LedIInv, NEW a \in App, Return(a) PROVE LedIInv'
<1>1. /\ led' = led /\ todo' = todo /\ agreed' = agreed /\ busy' = busy \ {a} /\ todo[a] = << >>
      /\ \A v : Pending(v)' <=> Pending(v)
  BY DEF Return, Pending
<1>2. \A b \in App : b \notin busy' => todo[b] = << >>
  BY <1>1 DEF LedIInv, TypeOK
<1>3. TypeOK' /\ AgreedFits'
  BY <1>1, <1>2 DEF LedIInv, TypeOK, AgreedFits
<1>4. AgreedOnTrack'
  BY <1>1 DEF LedIInv, AgreedOnTrack, OnTrack
<1> QED BY <1>3, <1>4 DEF LedIInv

LEMMA KilledKeeps == ASSUME LedIInv, NEW a \in App, Killed(a) PROVE LedIInv'
<1>1. /\ led' = led /\ agreed' = {} /\ busy' = busy \ {a} /\ todo' = [todo EXCEPT ![a] = << >>]
  BY DEF Killed
<1>2. TypeOK'
  BY <1>1, NoneHas DEF LedIInv, TypeOK
<1> QED BY <1>1, <1>2 DEF LedIInv, AgreedFits, AgreedOnTrack

(* Every call that overlaps no other wish only writes what the common wish *)
(* wants, and nothing it takes away stays away.                            *)
THEOREM LedInvariant == LedSpec => []LedIInv
<1>1. LedIInv /\ [LedNext]_ledVars => LedIInv'
  <2> SUFFICES ASSUME LedIInv, [LedNext]_ledVars PROVE LedIInv'
    OBVIOUS
  <2>1. CASE UNCHANGED ledVars
    <3>1. led' = led /\ todo' = todo /\ agreed' = agreed /\ busy' = busy /\ \A v : Pending(v)' <=> Pending(v)
      BY <2>1 DEF ledVars, Pending
    <3>2. AgreedOnTrack'
      BY <3>1 DEF LedIInv, AgreedOnTrack, OnTrack
    <3> QED BY <3>1, <3>2 DEF LedIInv, TypeOK, AgreedFits
  <2>2. CASE LedNext
    BY <2>2, LedOnKeeps, LedOffKeeps, LedBlinkKeeps, WriteKeeps, ReturnKeeps, KilledKeeps DEF LedNext
  <2> QED BY <2>1, <2>2
<1> QED BY <1>1, LedInitIInv, PTL DEF LedSpec

(* Whoever calls, whoever was killed before and however the writes mix: a  *)
(* pair all callers agree on shows what they agreed on.                    *)
THEOREM AgreedLook == LedSpec => []AgreedIsShown
<1>1. LedIInv => AgreedIsShown
  <2> SUFFICES ASSUME LedIInv, busy = {}, NEW look \in agreed PROVE Shown = look
    BY DEF AgreedIsShown, Quiet
  <2>1. \A v : ~Pending(v)
    BY NoneHas DEF Pending, LedIInv, TypeOK
  <2>2. ASSUME NEW d \in Diode PROVE Seen(led[d]) = look[d]
    <3>1. OnTrack(d, look[d]) /\ look[d] \in Target
      BY DEF LedIInv, AgreedOnTrack, TypeOK
    <3>2. CASE look[d] = Out
      <4>1. led[d].trigger # "timer" /\ led[d].bright = FALSE
        BY <2>1, <3>1, <3>2 DEF OnTrack
      <4> QED BY <3>2, <4>1 DEF Seen, Out
    <3>3. CASE look[d] = On
      <4>1. led[d].trigger # "timer" /\ led[d].bright = TRUE
        BY <2>1, <3>1, <3>3 DEF OnTrack
      <4> QED BY <3>3, <4>1 DEF Seen, On
    <3>4. ASSUME NEW x \in Delay, NEW y \in Delay, look[d] = Flash(x, y) PROVE Seen(led[d]) = look[d]
      <4>1. led[d].trigger = "timer" /\ led[d].delay_on = x /\ led[d].delay_off = y
        BY <2>1, <3>1, <3>4 DEF OnTrack
      <4> QED BY <3>4, <4>1 DEF Seen, Flash
    <3> QED BY <3>1, <3>2, <3>3, <3>4 DEF Target
  <2>3. look = [d \in Diode |-> look[d]]
    BY DEF LedIInv, TypeOK
  <2>4. Shown = [d \in Diode |-> look[d]]
    BY <2>2 DEF Shown
  <2> QED BY <2>3, <2>4
<1> QED BY <1>1, LedInvariant, PTL
=============================================================================
