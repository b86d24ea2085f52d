-------------------------------- MODULE GpioEvt --------------------------------
(***************************************************************************)
(* GPIO events of mdsapi/src/gpio_evt.c.  An application hands             *)
(* mds_api_gpio_evt_start a list of pins, the level it believes each has   *)
(* and the edge it wants to hear of; a thread polls the pins and calls the *)
(* application back.  A later start rewrites gpio_mgr while the thread     *)
(* runs: nothing locks it, and the descriptors are opened only once.       *)
(*                                                                         *)
(* The pins and sysfs are external; gpio.c exports a pin and sets its      *)
(* edges.  A descriptor that has never been read is ready; one that has    *)
(* been read is ready after the next edge, if the edges of the pin are set. *)
(***************************************************************************)
EXTENDS Integers, Sequences

CONSTANTS Pin,
          NoPin,        (* gpio_num of a row that memset has cleared         *)
          NoFd, RawFd,  (* a pin that could not be opened; a cell of gpio_fd
                           the thread has never written                      *)
          MaxWatch,     (* GPIO_EVT_MAX_CNT                                  *)
          Requests,     (* the lists given to mds_api_gpio_evt_start         *)
          MaxStart      (* bound on the calls of mds_api_gpio_evt_start      *)

Level == {0, 1}
Edge == {"none", "rising", "falling", "both"}
Row == [gpio_num : Pin \cup {NoPin}, evt_type : Edge]
Fd == Pin \cup {NoFd, RawFd}
Slot == 1..MaxWatch

ASSUME RequestAssumption ==
    /\ MaxWatch \in Nat \ {0} /\ MaxStart \in Nat
    /\ Requests \subseteq Seq([gpio_num : Pin, gpio_val : Level, evt_type : Edge])
    /\ \A r \in Requests : Len(r) <= MaxWatch
ASSUME MarkAssumption == NoPin \notin Pin /\ NoFd \notin Pin /\ RawFd \notin Pin /\ NoFd # RawFd

VARIABLES gpio_info, gpio_last_val, gpio_mgr_cnt,    (* gpio_mgr             *)
          app, half,                (* the row a start is at, 0 outside; has
                                       its gpio_info been copied             *)
          request, starts,          (* the list of the start; starts so far  *)
          at, i,                    (* the thread: its place and its index   *)
          gpio_fd, nfds, revents,   (* descriptors; what poll was given, and
                                       what it answered                      *)
          first,                    (* timeout = 0                           *)
          cur,                      (* cur_gpio_val                          *)
          asked, exported,          (* the pins echo has been started for;
                                       those that are in sysfs               *)
          armed,                    (* the pins whose edges are set          *)
          level,                    (* the level of each pin                 *)
          ready,                    (* the descriptors with an unread edge   *)
          told                      (* what the application knows of a pin   *)

mgr == <<gpio_info, gpio_last_val, gpio_mgr_cnt>>
caller == <<app, half, request, starts>>
polled == <<gpio_fd, nfds, revents, first, cur>>
sysfs == <<asked, exported, armed>>
pins == <<sysfs, level, ready>>
vars == <<mgr, caller, at, i, polled, pins, told>>

Cleared == [gpio_num |-> NoPin, evt_type |-> "none"]

Init == /\ gpio_info = [k \in Slot |-> Cleared] /\ gpio_last_val = [k \in Slot |-> 0]
        /\ gpio_mgr_cnt = 0
        /\ app = 0 /\ half = FALSE /\ request = << >> /\ starts = 0
        /\ at = "none" /\ i = 1
        /\ gpio_fd = [k \in Slot |-> RawFd] /\ nfds = 0 /\ revents = {}
        /\ first = TRUE /\ cur = 0
        /\ asked = {} /\ exported \in SUBSET Pin /\ armed = {}
        /\ level \in [Pin -> Level] /\ ready = {} /\ told \in [Pin -> Level]

-----------------------------------------------------------------------------
(* mds_api_gpio_evt_start                                                  *)

(* memset of gpio_mgr. *)
Forget == /\ gpio_info' = [k \in Slot |-> Cleared]
          /\ gpio_last_val' = [k \in Slot |-> 0]
          /\ gpio_mgr_cnt' = 0

StartClear(r) == /\ app = 0 /\ starts < MaxStart
                 /\ request' = r /\ app' = 1 /\ starts' = starts + 1
                 /\ Forget
                 /\ UNCHANGED <<half, at, i, polled, pins, told>>

CopyRow == /\ app \in DOMAIN request /\ ~half
           /\ LET r == request[app]
              IN /\ gpio_info' = [gpio_info EXCEPT ![app] =
                                    [gpio_num |-> r.gpio_num, evt_type |-> r.evt_type]]
                 /\ told' = [told EXCEPT ![r.gpio_num] = r.gpio_val]
           /\ half' = TRUE
           /\ UNCHANGED <<gpio_last_val, gpio_mgr_cnt, app, request, starts, at, i, polled, pins>>

CountRow == /\ app \in DOMAIN request /\ half
            /\ gpio_last_val' = [gpio_last_val EXCEPT ![app] = request[app].gpio_val]
            /\ gpio_mgr_cnt' = gpio_mgr_cnt + 1
            /\ app' = app + 1 /\ half' = FALSE
            /\ UNCHANGED <<gpio_info, request, starts, at, i, polled, pins, told>>

(* _start_gpio_monintor_thread makes one thread, however often it is called. *)
StartThread == /\ app = Len(request) + 1
               /\ app' = 0
               /\ at' = IF at = "none" THEN "open" ELSE at
               /\ UNCHANGED <<mgr, half, request, starts, i, polled, pins, told>>

Start == (\E r \in Requests : StartClear(r)) \/ CopyRow \/ CountRow \/ StartThread

-----------------------------------------------------------------------------
(* _gpio_procfs_read_thread                                                *)

Opening(step, next) == /\ at = step /\ at' = next
                       /\ UNCHANGED <<mgr, caller, nfds, revents, first, cur, level, told>>

(* export_chk_gpio_num looks for the pin, starts an echo in the background *)
(* when it is not there, and looks once more before it sleeps a second.    *)
export_chk_gpio_num(p) ==
  IF p \in exported THEN UNCHANGED <<asked, exported>>
  ELSE /\ p # NoPin
       /\ asked' = asked \cup {p}
       /\ exported' \in {exported, exported \cup {p}}

(* The three calls of the thread for each pin, whose results it ignores    *)
(* but for the descriptor.  A row cleared in the meantime has no pin.      *)
SetDirection == /\ Opening("open", "edge") /\ i <= gpio_mgr_cnt
                /\ export_chk_gpio_num(gpio_info[i].gpio_num) \/ (gpio_info[i].gpio_num = NoPin /\ UNCHANGED <<asked, exported>>)
                /\ UNCHANGED <<i, gpio_fd, armed, ready>>

SetEdge == /\ Opening("edge", "fd")
           /\ LET p == gpio_info[i].gpio_num IN
              \/ /\ export_chk_gpio_num(p)
                 /\ armed' = IF p \in exported' THEN armed \cup {p} ELSE armed
              \/ p = NoPin /\ UNCHANGED sysfs
           /\ UNCHANGED <<i, gpio_fd, ready>>

GetFd == /\ Opening("fd", "open")
         /\ LET p == gpio_info[i].gpio_num IN
            /\ export_chk_gpio_num(p) \/ (p = NoPin /\ UNCHANGED <<asked, exported>>)
            /\ \E fd \in {p, NoFd} \ {NoPin} :
                 /\ fd = p => p \in exported'
                 /\ gpio_fd' = [gpio_fd EXCEPT ![i] = fd]
                 /\ ready' = IF fd = NoFd THEN ready ELSE ready \cup {i}
         /\ i' = i + 1
         /\ UNCHANGED armed

OpenPin == SetDirection \/ SetEdge \/ GetFd

(* The pins are never exported again, so who is in sysfs is forgotten.     *)
OpenDone == /\ at = "open" /\ i > gpio_mgr_cnt
            /\ at' = "set"
            /\ asked' = {} /\ exported' = {}
            /\ UNCHANGED <<mgr, caller, i, polled, armed, level, ready, told>>

(* The descriptors of the rows there are now go to poll, the others are -1. *)
SetFds == /\ at = "set"
          /\ nfds' = gpio_mgr_cnt
          /\ at' = "poll"
          /\ UNCHANGED <<mgr, caller, i, gpio_fd, revents, first, cur, pins, told>>

ReadyFds == {k \in 1..nfds : gpio_fd[k] \in Pin /\ k \in ready}
RawFds == {k \in 1..nfds : gpio_fd[k] = RawFd}

(* poll with rc > 0.  A cell never written holds any number: it may be     *)
(* an open file, or one poll answers POLLNVAL for.                         *)
PollAnswers == /\ at = "poll" /\ ReadyFds \cup RawFds # {}
               /\ \E raw \in SUBSET RawFds : revents' = ReadyFds \cup raw
               /\ at' = "scan" /\ i' = 1
               /\ UNCHANGED <<mgr, caller, gpio_fd, nfds, first, cur, pins, told>>

(* poll with rc <= 0: 30 s have passed, or a signal; the first one does    *)
(* not wait.                                                               *)
PollEmpty == /\ at = "poll" /\ (first => ReadyFds = {})
             /\ first' = FALSE /\ at' = "set"
             /\ UNCHANGED <<mgr, caller, i, gpio_fd, nfds, revents, cur, pins, told>>

Looked == i \in revents \/ first
Polled == IF i <= nfds THEN gpio_fd[i] ELSE NoFd

NextRow == i' = i + 1 /\ at' = "scan"

ReadPin == /\ at = "scan" /\ i <= gpio_mgr_cnt /\ Looked /\ Polled \in Pin
           /\ cur' = level[Polled]
           /\ ready' = ready \ {i}
           /\ at' = "compare"
           /\ UNCHANGED <<mgr, caller, i, gpio_fd, nfds, revents, first, sysfs, level, told>>

ReadRaw == /\ at = "scan" /\ i <= gpio_mgr_cnt /\ Looked /\ Polled = RawFd
           /\ cur' \in Level
           /\ at' = "compare"
           /\ UNCHANGED <<mgr, caller, i, gpio_fd, nfds, revents, first, pins, told>>

(* No event for the row, or nothing could be read.                         *)
SkipRow == /\ at = "scan" /\ i <= gpio_mgr_cnt /\ (Looked => Polled \notin Pin)
           /\ NextRow
           /\ UNCHANGED <<mgr, caller, polled, pins, told>>

ScanDone == /\ at = "scan" /\ i > gpio_mgr_cnt
            /\ first' = FALSE /\ at' = "set"
            /\ UNCHANGED <<mgr, caller, i, gpio_fd, nfds, revents, cur, pins, told>>

EdgeNow == IF cur = 1 THEN "rising" ELSE "falling"
Asked == gpio_info[i].evt_type \in {EdgeNow, "both"}

(* Mutant: an edge nobody asked for is not remembered. *)
CompareAskedOnly == /\ at = "compare"
                    /\ IF gpio_last_val[i] = cur \/ ~Asked THEN NextRow
                       ELSE i' = i /\ at' = "event"
                    /\ UNCHANGED <<mgr, caller, polled, pins, told>>

Compare == /\ at = "compare"
           /\ IF gpio_last_val[i] = cur THEN NextRow
              ELSE i' = i /\ at' = IF Asked THEN "event" ELSE "store"
           /\ UNCHANGED <<mgr, caller, polled, pins, told>>

(* The event is built from the row as it is now, and the application hears of it. *)
Report == /\ at = "event"
          /\ told' = [p \in Pin |-> IF p = gpio_info[i].gpio_num THEN cur ELSE told[p]]
          /\ at' = "store"
          /\ UNCHANGED <<mgr, caller, i, polled, pins>>

(* Mutant: one event ends the scan. *)
StoreAndPoll == /\ at = "store"
                /\ gpio_last_val' = [gpio_last_val EXCEPT ![i] = cur]
                /\ at' = "set" /\ first' = FALSE
                /\ UNCHANGED <<gpio_info, gpio_mgr_cnt, caller, i, gpio_fd, nfds, revents, cur,
                               pins, told>>

(* Mutant: the level is not remembered. *)
StoreNothing == /\ at = "store"
                /\ NextRow
                /\ UNCHANGED <<mgr, caller, polled, pins, told>>

Store == /\ at = "store"
         /\ gpio_last_val' = [gpio_last_val EXCEPT ![i] = cur]
         /\ NextRow
         /\ UNCHANGED <<gpio_info, gpio_mgr_cnt, caller, polled, pins, told>>

Thread == \/ OpenPin \/ OpenDone \/ SetFds \/ PollAnswers \/ PollEmpty
          \/ ReadPin \/ ReadRaw \/ SkipRow \/ ScanDone \/ Compare \/ Report \/ Store

(* The echo that was started for a pin has done its work.                  *)
Exported(p) == /\ p \in asked \ exported
               /\ exported' = exported \cup {p}
               /\ UNCHANGED <<mgr, caller, at, i, polled, asked, armed, level, ready, told>>

(* A pin changes its level; every descriptor opened for it becomes ready   *)
(* if its edges are set.                                                   *)
Flip(p) == /\ level' = [level EXCEPT ![p] = 1 - @]
           /\ ready' = ready \cup {k \in Slot : gpio_fd[k] = p /\ p \in armed}
           /\ UNCHANGED <<mgr, caller, at, i, polled, sysfs, told>>

Next == Start \/ Thread \/ \E p \in Pin : Exported(p) \/ Flip(p)

Spec == Init /\ [][Next]_vars

(* The thread is scheduled, and signals do not end every poll.             *)
FairSpec == Spec /\ WF_vars(Thread) /\ SF_vars(PollAnswers)

-----------------------------------------------------------------------------
(* As long as the table is that of the first start, an event is news: a    *)
(* pin watched for both edges is never reported twice with one level (two  *)
(* rows for one pin would each report it; no list of the runs has them).   *)
ReportIsNews ==
    starts = 1 /\ at = "event" /\ gpio_info[i].evt_type = "both"
        => told[gpio_info[i].gpio_num] # cur

(* With that table no edge is lost: when the thread waits in poll, the     *)
(* level it remembers of a pin it could export in time for its edges and   *)
(* open is the pin's, or the descriptor is ready and the poll will end.  A *)
(* level that differs from the one the application has given is an edge.   *)
NoEdgeLost ==
    starts = 1 /\ at = "poll" =>
        \A k \in 1..gpio_mgr_cnt :
            gpio_fd[k] \in armed => gpio_last_val[k] = level[gpio_fd[k]] \/ k \in ReadyFds

(* The application hears of every lasting change: a pin watched for both   *)
(* edges whose level is not the one the application knows is reported, or  *)
(* goes back, unless the table is given up by another start.               *)
Watches(p) == /\ starts = 1 /\ p \in armed
              /\ \E k \in 1..gpio_mgr_cnt : /\ gpio_info[k] = [gpio_num |-> p, evt_type |-> "both"]
                                            /\ gpio_fd[k] = p
ChangeIsTold == \A p \in Pin : (Watches(p) /\ told[p] # level[p])
                                    ~> (told[p] = level[p] \/ starts > 1)
=============================================================================
