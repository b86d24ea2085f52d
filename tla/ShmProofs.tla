------------------------------- MODULE ShmProofs -------------------------------
(***************************************************************************)
(* Theorems about the two halves of mds_shm.c.                             *)
(*                                                                         *)
(* PerAppShm, for any number of applications, slots and values, crashes or *)
(* not: no name is in two slots, who claims a slot has no other, an        *)
(* initialised table has no raw slot, and a settled application stays so   *)
(* and is found by every lookup.  Then callers that take turns: the module *)
(* implements AppRegistry, step by step, under its refinement mapping.     *)
(*                                                                         *)
(* GlobalShm: a server that has handled its notices has the block as it    *)
(* is, whatever calls overlap, fail or are killed, unless the last change  *)
(* was never told to it.                                                   *)
(***************************************************************************)
EXTENDS PerAppShm, GlobalShm, FiniteSetTheorems, TLAPS

Name == App \cup {None, Null, Torn}

Label == {"idle", "init_zero", "init_begin", "init_end", "find", "found_id", "found_data", "scan",
          "new_id", "new_data", "name_begin", "name_end", "name_id", "get_mark", "get_id", "get_data",
          "all", "all_mark", "all_id", "all_data", "return"}

Types == /\ init_flag \in {0, 1}
         /\ app_name \in [Slot -> Name]
         /\ pc \in [App -> Label]
         /\ i \in [App -> Nat \ {0}]
         /\ DOMAIN op = App

(* A caller of set looks for its own name.                                 *)
OwnKey(p) == InInit(p) \/ At(p, "find") => (op[p].call = "set" => op[p].key = p)

(* The slots it has searched do not have it, nor does any slot later on    *)
(* but the one it claims: nobody else writes that name.                    *)
Absent(p) == \A s \in Slot :
  /\ At(p, "find") /\ op[p].call = "set" /\ s < i[p] => app_name[s] # p
  /\ pc[p] \in {"scan", "new_id", "new_data", "name_begin"} => app_name[s] # p
  /\ At(p, "name_end") /\ s # i[p] => app_name[s] # p

(* The slots an initialiser has passed have a name.                        *)
Named(p) == InInit(p) => \A s \in Slot : s < i[p] \/ (At(p, "init_end") /\ s = i[p]) => app_name[s] # None

IInv == /\ Types /\ UniqueName /\ NoRawSlot
        /\ \A p \in App : OwnKey(p) /\ Absent(p) /\ Named(p)

-----------------------------------------------------------------------------
LEMMA InitInv == Init => IInv
<1> SUFFICES ASSUME Init PROVE IInv
  OBVIOUS
<1>1. Types
  <2>1. pc \in [App -> Label] /\ DOMAIN op = App
    BY DEF Init, Label
  <2> QED BY <2>1 DEF Init, Types, Name
<1>2. UniqueName /\ NoRawSlot
  BY NameAssumption DEF Init, UniqueName, NoRawSlot
<1>3. \A p \in App : OwnKey(p) /\ Absent(p) /\ Named(p)
  BY DEF Init, OwnKey, Absent, Named, InInit, At
<1> QED BY <1>1, <1>2, <1>3 DEF IInv

(* What a step of p can do to the names and to the others.                 *)
Wrote(p, s) == pc[p] \in {"name_begin", "name_end"} /\ s = i[p] /\ app_name'[s] = p
Wiped(p, s) == pc[p] \in {"init_begin", "init_end"} /\ s = i[p] /\ app_name'[s] = Null
Mixed(p, s) == pc[p] \in {"init_begin", "init_end", "name_begin", "name_end"} /\ s = i[p] /\ app_name'[s] = Torn

OthersStay(p) == \A q \in App \ {p} : pc'[q] = pc[q] /\ i'[q] = i[q] /\ op'[q] = op[q]
NamesMove(p) == \A s \in Slot : app_name'[s] = app_name[s] \/ Wrote(p, s) \/ Wiped(p, s) \/ Mixed(p, s)

LEMMA CopyBeginName ==
  ASSUME Types, NEW p \in App, NEW v \in Name, CopyBegin(p, i[p], v)
  PROVE  /\ app_name' \in [Slot -> Name]
         /\ \A s \in Slot : app_name'[s] = app_name[s] \/ (s = i[p] /\ app_name'[s] = Torn)
         /\ i[p] \in Slot => app_name'[i[p]] \in {v, Torn}
BY DEF CopyBegin, Types, Name

LEMMA CopyEndName ==
  ASSUME Types, NEW p \in App, NEW v \in Name, CopyEnd(p, i[p], v)
  PROVE  /\ app_name' \in [Slot -> Name]
         /\ \A s \in Slot : app_name'[s] = app_name[s] \/ (s = i[p] /\ app_name'[s] \in {v, Torn})
<1>1. PICK r \in IF clash[p] THEN {v, Torn, app_name[i[p]]} ELSE {v} : app_name' = [app_name EXCEPT ![i[p]] = r]
  BY DEF CopyEnd
<1>2. i[p] \in Slot => r \in Name
  BY <1>1 DEF Types, Name
<1> QED BY <1>1, <1>2 DEF Types

(* The types, and what a step can touch, step by step.                     *)
LEMMA EnterMoves == ASSUME Types, NEW p \in App, NEW o, Enter(p, o)
                    PROVE  Types' /\ OthersStay(p) /\ NamesMove(p)
<1>1. /\ op' = [op EXCEPT ![p] = o] /\ i' = [i EXCEPT ![p] = 1] /\ app_name' = app_name /\ init_flag' = init_flag
      /\ pc' = [pc EXCEPT ![p] = IF init_flag = 0 THEN "init_zero" ELSE FirstLabel(o.call)]
  BY DEF Enter, Goto, GotoSlot, segment
<1>2. pc' \in [App -> Label]
  BY <1>1 DEF Types, FirstLabel, Label
<1>3. OthersStay(p)
  BY <1>1 DEF Types, OthersStay
<1> QED BY <1>1, <1>2, <1>3 DEF Types, NamesMove

(* A step of one caller, as far as its place, loop index and call go.      *)
LEMMA OneCaller ==
  ASSUME Types, NEW p \in App, NEW l \in Label, Goto(p, l),
         i' = i \/ \E k \in Nat \ {0} : i' = [i EXCEPT ![p] = k],
         DOMAIN op' = App, \A q \in App \ {p} : op'[q] = op[q],
         init_flag' \in {0, 1}, app_name' \in [Slot -> Name]
  PROVE  Types' /\ OthersStay(p)
BY DEF Types, Goto, OthersStay

LEMMA AnswerOthers == ASSUME Types, NEW p \in App, NEW v, NEW r, Answer(p, v, r)
                      PROVE  DOMAIN op' = App /\ \A q \in App \ {p} : op'[q] = op[q]
BY DEF Answer, Types

LEMMA ValueOthers == ASSUME Types, NEW p \in App, NEW v, op' = [op EXCEPT ![p].value = v]
                     PROVE  DOMAIN op' = App /\ \A q \in App \ {p} : op'[q] = op[q]
BY DEF Types

(* The steps that go on to another place and answer nothing.               *)
LEMMA WalkMoves ==
  ASSUME Types, NEW p \in App,
         \/ InitZero(p) \/ InitDone(p) \/ Find(p) \/ FoundId(p) \/ Scan(p) \/ NewId(p) \/ NewData(p) \/ NameId(p)
         \/ GetMark(p) \/ AllNext(p) \/ AllMark(p)
  PROVE  Types' /\ OthersStay(p) /\ NamesMove(p)
<1>1. app_name' = app_name /\ op' = op /\ init_flag' \in {0, 1}
  BY DEF InitZero, InitDone, Find, FoundId, Scan, NewId, NewData, NameId, GetMark, AllNext, AllMark, PutId,
         segment, Types
<1>2. i[p] + 1 \in Nat \ {0} /\ 1 \in Nat \ {0}
  BY DEF Types
<1>3. (i' = i \/ \E k \in Nat \ {0} : i' = [i EXCEPT ![p] = k]) /\ \E l \in Label : Goto(p, l)
  <2>1. CASE InitZero(p) \/ InitDone(p)
    BY <2>1, <1>2 DEF InitZero, InitDone, GotoSlot, FirstLabel, Label
  <2>2. CASE Find(p) \/ Scan(p) \/ AllNext(p)
    <3>1. PICK l \in {"found_id", "get_mark", "find", "new_id", "scan", "all_mark", "all"} : Goto(p, l)
      BY <2>2 DEF Find, Scan, AllNext, GotoSlot
    <3>2. i' = i \/ i' = [i EXCEPT ![p] = i[p] + 1]
      BY <2>2 DEF Find, Scan, AllNext, GotoSlot, Here
    <3> QED BY <3>1, <3>2, <1>2 DEF Label
  <2>3. CASE FoundId(p) \/ NewId(p) \/ NewData(p) \/ NameId(p) \/ GetMark(p) \/ AllMark(p)
    BY <2>3 DEF FoundId, NewId, NewData, NameId, GetMark, AllMark, PutId, Label
  <2> QED BY <2>1, <2>2, <2>3
<1> QED BY <1>1, <1>3, OneCaller DEF Types, NamesMove

(* The steps that write the call's value or answer, or leave it.           *)
LEMMA AnswerMoves ==
  ASSUME Types, NEW p \in App,
         \/ FindFails(p) \/ FoundData(p) \/ ScanFails(p) \/ GetId(p) \/ GetData(p)
         \/ AllId(p) \/ AllData(p) \/ AllDone(p) \/ Return(p) \/ Crash(p)
  PROVE  Types' /\ OthersStay(p) /\ NamesMove(p)
<1>1. app_name' = app_name /\ init_flag' \in {0, 1}
  BY DEF FindFails, FoundData, ScanFails, GetId, GetData, AllId, AllData, AllDone, Return, Crash, Leave, ReadId,
         segment, Types
<1>2. DOMAIN op' = App /\ \A q \in App \ {p} : op'[q] = op[q]
  <2>1. CASE \E v, r : Answer(p, v, r)
    BY <2>1, AnswerOthers
  <2>2. CASE \E v : op' = [op EXCEPT ![p].value = v]
    BY <2>2, ValueOthers
  <2>3. CASE op' = op \/ op' = [op EXCEPT ![p] = Idle]
    BY <2>3 DEF Types
  <2> QED BY <2>1, <2>2, <2>3 DEF FindFails, FoundData, ScanFails, GetId, GetData, AllId, AllData, AllDone,
                                  Return, Crash, Leave, ReadId
<1>3. i[p] + 1 \in Nat \ {0} /\ 1 \in Nat \ {0}
  BY DEF Types
<1>4. (i' = i \/ \E k \in Nat \ {0} : i' = [i EXCEPT ![p] = k]) /\ \E l \in Label : Goto(p, l)
  <2>1. CASE FindFails(p)
    BY <2>1, <1>3 DEF FindFails, GotoSlot, Label
  <2>2. CASE FoundData(p) \/ ScanFails(p) \/ GetId(p) \/ GetData(p) \/ AllId(p) \/ AllDone(p)
    BY <2>2 DEF FoundData, ScanFails, GetId, GetData, AllId, AllDone, ReadId, Label
  <2>3. CASE AllData(p) \/ Return(p) \/ Crash(p)
    BY <2>3, <1>3 DEF AllData, Return, Crash, Leave, GotoSlot, Here, Label
  <2> QED BY <2>1, <2>2, <2>3
<1> QED BY <1>1, <1>2, <1>4, OneCaller DEF Types, NamesMove

(* The four steps of strcpy.                                               *)
LEMMA CopyMoves ==
  ASSUME Types, NEW p \in App, InitBegin(p) \/ InitEnd(p) \/ NameBegin(p) \/ NameEnd(p)
  PROVE  Types' /\ OthersStay(p) /\ NamesMove(p)
<1>1. Null \in Name /\ p \in Name
  BY DEF Name
<1>2. app_name' \in [Slot -> Name] /\ NamesMove(p)
  <2>1. CASE InitBegin(p) \/ NameBegin(p)
    BY <2>1, <1>1, CopyBeginName DEF InitBegin, NameBegin, NamesMove, Mixed, At, Here
  <2>2. CASE InitEnd(p)
    BY <2>2, <1>1, CopyEndName DEF InitEnd, NamesMove, Mixed, Wiped, At, Here
  <2>3. CASE NameEnd(p)
    BY <2>3, <1>1, CopyEndName DEF NameEnd, NamesMove, Mixed, Wrote, At, Here
  <2> QED BY <2>1, <2>2, <2>3
<1>3. DOMAIN op' = App /\ \A q \in App \ {p} : op'[q] = op[q]
  <2>1. CASE NameEnd(p)
    BY <2>1, AnswerOthers DEF NameEnd
  <2> QED BY <2>1 DEF InitBegin, InitEnd, NameBegin, Types
<1>4. i[p] + 1 \in Nat \ {0}
  BY DEF Types
<1>5. (i' = i \/ \E k \in Nat \ {0} : i' = [i EXCEPT ![p] = k]) /\ \E l \in Label : Goto(p, l)
  BY <1>4 DEF InitBegin, InitEnd, NameBegin, NameEnd, GotoSlot, Here, Label
<1>6. init_flag' \in {0, 1}
  BY DEF InitBegin, InitEnd, NameBegin, NameEnd, Types
<1> QED BY <1>2, <1>3, <1>5, <1>6, OneCaller

(* Every step is one caller's.                                             *)
LEMMA StepMoves ==
  ASSUME Types, NEW p \in App, CallSet(p) \/ CallGet(p) \/ CallGetAll(p) \/ Step(p) \/ Crash(p)
  PROVE  Types' /\ OthersStay(p) /\ NamesMove(p)
BY EnterMoves, WalkMoves, AnswerMoves, CopyMoves
   DEF CallSet, CallGet, CallGetAll, Step, InitStep, SetStep, GetStep, AllStep

-----------------------------------------------------------------------------
(* No step of p gives a slot the name of another, or none.                 *)
LEMMA NoOtherName ==
  ASSUME NEW p \in App, NEW s \in Slot, NamesMove(p)
  PROVE  /\ app_name'[s] = None => app_name[s] = None
         /\ \A q \in App \ {p} : app_name'[s] = q => app_name[s] = q
         /\ app_name'[s] = p => app_name[s] = p \/ (pc[p] \in {"name_begin", "name_end"} /\ s = i[p])
BY NameAssumption DEF NamesMove, Wrote, Wiped, Mixed

LEMMA OthersKeep ==
  ASSUME IInv, NEW p \in App, OthersStay(p), NamesMove(p), NEW q \in App \ {p}
  PROVE  OwnKey(q)' /\ Absent(q)' /\ Named(q)'
<1>1. pc'[q] = pc[q] /\ i'[q] = i[q] /\ op'[q] = op[q]
  BY DEF OthersStay
<1>2. OwnKey(q)'
  BY <1>1 DEF IInv, OwnKey, InInit, At
<1>3. Absent(q)'
  BY <1>1, NoOtherName DEF IInv, Absent, At
<1>4. Named(q)'
  BY <1>1, NoOtherName DEF IInv, Named, InInit, At
<1> QED BY <1>2, <1>3, <1>4

LEMMA GotoIs == ASSUME Types, NEW p \in App, NEW l, Goto(p, l) PROVE pc'[p] = l
BY DEF Goto, Types

LEMMA GotoSlotIs == ASSUME Types, NEW p \in App, NEW l, NEW k, GotoSlot(p, l, k) PROVE pc'[p] = l /\ i'[p] = k
BY DEF GotoSlot, Goto, Types

(* A call begins: nothing is searched or initialised yet.                  *)
LEMMA EnterKeeps ==
  ASSUME IInv, NEW p \in App, NEW o, Enter(p, o), o.call = "set" => o.key = p
  PROVE  OwnKey(p)' /\ Absent(p)' /\ Named(p)'
<1>1. pc'[p] \in {"init_zero", "find", "all"} /\ i'[p] = 1
  BY GotoSlotIs DEF IInv, Enter, FirstLabel
<1>2. op'[p] = o
  BY DEF IInv, Types, Enter
<1>3. \A s \in Slot : ~(s < 1)
  BY DEF Slot
<1> QED BY <1>1, <1>2, <1>3 DEF OwnKey, Absent, Named, InInit, At

LEMMA InitKeeps ==
  ASSUME IInv, NEW p \in App, InitStep(p), NamesMove(p)
  PROVE  OwnKey(p)' /\ Absent(p)' /\ Named(p)'
<1>1. op' = op /\ InInit(p) /\ i[p] \in Nat
  BY DEF InitStep, InitZero, InitBegin, InitEnd, InitDone, InInit, At, IInv, Types
<1>2. OwnKey(p)'
  BY <1>1 DEF IInv, OwnKey, InInit, At
<1>3. CASE InitZero(p)
  <2>1. pc'[p] = "init_begin" /\ i' = i /\ pc[p] = "init_zero" /\ app_name' = app_name
    BY <1>3, GotoIs DEF IInv, InitZero, At
  <2> QED BY <1>2, <2>1 DEF IInv, Absent, Named, InInit, At
<1>4. CASE InitBegin(p)
  <2>1. pc'[p] = "init_end" /\ i' = i /\ pc[p] = "init_begin"
    BY <1>4, GotoIs DEF IInv, InitBegin, At
  <2>2. i[p] \in Slot => app_name'[i[p]] # None
    BY <1>4, CopyBeginName, NameAssumption DEF IInv, InitBegin, Here, Name
  <2>3. Named(p)'
    BY <2>1, <2>2, NoOtherName DEF IInv, Named, InInit, At
  <2> QED BY <1>2, <2>1, <2>3 DEF Absent, At
<1>5. CASE InitEnd(p)
  <2>1. pc'[p] = "init_zero" /\ i'[p] = i[p] + 1 /\ pc[p] = "init_end"
    BY <1>5, GotoSlotIs DEF IInv, InitEnd, At, Here
  <2>2. \A s \in Slot : s < i[p] + 1 => s < i[p] \/ s = i[p]
    BY <1>1 DEF Slot
  <2>3. Named(p)'
    BY <2>1, <2>2, NoOtherName DEF IInv, Named, InInit, At
  <2> QED BY <1>2, <2>1, <2>3 DEF Absent, At
<1>6. CASE InitDone(p)
  <2>1. pc'[p] \in {"find", "all"} /\ i'[p] = 1
    BY <1>6, GotoSlotIs DEF IInv, InitDone, FirstLabel
  <2>2. \A s \in Slot : ~(s < 1)
    BY DEF Slot
  <2> QED BY <1>2, <2>1, <2>2 DEF Absent, Named, InInit, At
<1> QED BY <1>3, <1>4, <1>5, <1>6 DEF InitStep

(* The search of a set, up to the claim.                                   *)
LEMMA SearchKeeps ==
  ASSUME IInv, NEW p \in App, NamesMove(p),
         Find(p) \/ FindFails(p) \/ Scan(p) \/ NewId(p) \/ NewData(p) \/ NameBegin(p)
  PROVE  OwnKey(p)' /\ Absent(p)' /\ Named(p)'
<1>0. Types
  BY DEF IInv
<1>1. CASE Find(p)
  <2>1. pc[p] = "find" /\ app_name' = app_name /\ op' = op /\ i[p] \in Nat
    BY <1>1, <1>0 DEF Find, At, segment, Types
  <2>2. \/ pc'[p] \in {"found_id", "get_mark"}
        \/ pc'[p] = "find" /\ i'[p] = i[p] + 1 /\ app_name[i[p]] # op[p].key
    BY <1>0, <1>1, GotoIs, GotoSlotIs DEF Find, Here
  <2>3. \A s \in Slot : s < i[p] + 1 => s < i[p] \/ s = i[p]
    BY <2>1 DEF Slot
  <2>4. Absent(p)'
    BY <2>1, <2>2, <2>3 DEF IInv, Absent, OwnKey, At
  <2> QED BY <2>1, <2>2, <2>4 DEF IInv, OwnKey, Named, InInit, At
<1>2. CASE FindFails(p)
  <2>1. pc[p] = "find" /\ app_name' = app_name /\ i[p] > Size
    BY <1>2 DEF FindFails, At, segment, Past
  <2>2. (pc'[p] = "scan" /\ op[p].call = "set") \/ pc'[p] = "return"
    BY <1>0, <1>2, GotoIs, GotoSlotIs DEF FindFails
  <2>3. \A s \in Slot : s < i[p]
    BY <2>1, <1>0, SizeAssumption DEF Slot, Types
  <2> QED BY <2>1, <2>2, <2>3 DEF IInv, OwnKey, Absent, Named, InInit, At
<1>3. CASE Scan(p) \/ NewId(p) \/ NewData(p)
  <2>1. pc[p] \in {"scan", "new_id", "new_data"} /\ app_name' = app_name
    BY <1>3 DEF Scan, NewId, NewData, PutId, At, segment
  <2>2. pc'[p] \in {"scan", "new_id", "new_data", "name_begin"}
    BY <1>0, <1>3, GotoIs, GotoSlotIs DEF Scan, NewId, NewData, PutId
  <2> QED BY <2>1, <2>2 DEF IInv, OwnKey, Absent, Named, InInit, At
<1>4. CASE NameBegin(p)
  <2>1. pc[p] = "name_begin" /\ pc'[p] = "name_end" /\ i' = i
    BY <1>0, <1>4, GotoIs DEF NameBegin, At
  <2>2. \A s \in Slot : s # i[p] => app_name'[s] # p
    BY <2>1, NoOtherName DEF IInv, Absent
  <2> QED BY <2>1, <2>2 DEF OwnKey, Absent, Named, InInit, At
<1> QED BY <1>1, <1>2, <1>3, <1>4

(* After the search nothing is promised any more.                          *)
LEMMA RestKeeps ==
  ASSUME IInv, NEW p \in App,
         \/ FoundId(p) \/ FoundData(p) \/ ScanFails(p) \/ NameEnd(p) \/ NameId(p)
         \/ GetStep(p) \/ AllStep(p) \/ Return(p) \/ Crash(p)
  PROVE  OwnKey(p)' /\ Absent(p)' /\ Named(p)'
<1>1. Types
  BY DEF IInv
<1>2. pc'[p] \in {"idle", "found_data", "name_id", "get_id", "get_data", "all", "all_mark", "all_id", "all_data", "return"}
  BY <1>1, GotoIs, GotoSlotIs
  DEF FoundId, FoundData, ScanFails, NameEnd, NameId, GetStep, GetMark, GetId, GetData, AllStep, AllNext,
      AllMark, AllId, AllData, AllDone, Return, Crash, Leave, PutId, ReadId
<1> QED BY <1>2 DEF OwnKey, Absent, Named, InInit, At

LEMMA StepInv ==
  ASSUME IInv, NEW p \in App, CallSet(p) \/ CallGet(p) \/ CallGetAll(p) \/ Step(p) \/ Crash(p)
  PROVE  IInv'
<1>1. Types' /\ OthersStay(p) /\ NamesMove(p)
  BY StepMoves DEF IInv
<1>2. OwnKey(p)' /\ Absent(p)' /\ Named(p)'
  <2>1. CASE CallSet(p)
    BY <2>1, EnterKeeps DEF CallSet, Asked
  <2>2. CASE CallGet(p) \/ CallGetAll(p)
    BY <2>2, EnterKeeps DEF CallGet, CallGetAll, Asked
  <2>3. CASE Step(p) \/ Crash(p)
    BY <1>1, <2>3, InitKeeps, SearchKeeps, RestKeeps DEF Step, SetStep
  <2> QED BY <2>1, <2>2, <2>3
<1>3. \A q \in App : OwnKey(q)' /\ Absent(q)' /\ Named(q)'
  BY <1>1, <1>2, OthersKeep
<1>4. UniqueName'
  <2> SUFFICES ASSUME NEW s \in Slot, NEW t \in Slot, app_name'[s] \in App, app_name'[s] = app_name'[t]
               PROVE  s = t
    BY DEF UniqueName
  <2>1. CASE app_name'[s] # p
    <3>1. PICK q \in App \ {p} : app_name'[s] = q
      BY <2>1
    <3>2. app_name[s] = q /\ app_name[t] = q
      BY <1>1, <3>1, NoOtherName
    <3> QED BY <3>2 DEF IInv, UniqueName
  <2>2. CASE app_name'[s] = p /\ pc[p] \in {"name_begin", "name_end"}
    <3>1. \A r \in Slot : app_name[r] = p => r = i[p]
      BY <2>2 DEF IInv, Absent, At
    <3>2. \A r \in Slot : app_name'[r] = p => r = i[p]
      BY <1>1, <3>1, NoOtherName
    <3> QED BY <2>2, <3>2
  <2>3. CASE app_name'[s] = p /\ pc[p] \notin {"name_begin", "name_end"}
    <3>1. app_name[s] = p /\ app_name[t] = p
      BY <1>1, <2>3, NoOtherName
    <3> QED BY <3>1 DEF IInv, UniqueName
  <2> QED BY <2>1, <2>2, <2>3
<1>5. NoRawSlot'
  <2> SUFFICES ASSUME init_flag' = 1, NEW s \in Slot PROVE app_name[s] # None
    BY <1>1, NoOtherName DEF NoRawSlot
  <2>1. CASE init_flag = 1
    BY <2>1 DEF IInv, NoRawSlot
  <2>2. CASE InitDone(p)
    <3>1. pc[p] = "init_zero" /\ s < i[p]
      BY <2>2, SizeAssumption DEF InitDone, At, Past, Slot, IInv, Types
    <3> QED BY <3>1 DEF IInv, Named, InInit
  <2>3. CASE ~InitDone(p) /\ init_flag # 1
    BY <2>3 DEF CallSet, CallGet, CallGetAll, Enter, Step, InitStep, InitZero, InitBegin, InitEnd,
                Find, FindFails, SetStep, FoundId, FoundData, Scan, ScanFails, NewId, NewData, NameBegin,
                NameEnd, NameId, PutId, GetStep, GetMark, GetId, GetData, ReadId, AllStep, AllNext, AllMark,
                AllId, AllData, AllDone, Return, Crash, Leave, segment
  <2> QED BY <2>1, <2>2, <2>3
<1> QED BY <1>1, <1>3, <1>4, <1>5 DEF IInv

LEMMA StutterInv == ASSUME IInv, UNCHANGED vars PROVE IInv'
<1>1. UNCHANGED <<init_flag, app_name, pc, i, op>>
  BY DEF vars, segment
<1>2. Types' /\ UniqueName' /\ NoRawSlot'
  BY <1>1 DEF IInv, Types, UniqueName, NoRawSlot
<1>3. \A p \in App : OwnKey(p)' /\ Absent(p)' /\ Named(p)'
  BY <1>1 DEF IInv, OwnKey, Absent, Named, InInit, At
<1> QED BY <1>2, <1>3 DEF IInv

LEMMA NextInv == IInv /\ [Next]_vars => IInv'
  BY StepInv, StutterInv DEF Next

-----------------------------------------------------------------------------
(* The strengthened invariant holds in every state of every instance.      *)
THEOREM Invariant == Spec => []IInv
<1> QED BY InitInv, NextInv, PTL DEF Spec

(* UniqueName of the runs: no interleaving of unlocked searches, claims,   *)
(* initialisations and crashes gives an application two slots.             *)
THEOREM NameOnce == Spec => []UniqueName
<1>1. IInv => UniqueName
  BY DEF IInv
<1> QED BY <1>1, Invariant, PTL

(* NoRawSlot of the run: once the flag is set, every slot has been named.  *)
THEOREM EverySlotNamed == Spec => []NoRawSlot
<1>1. IInv => NoRawSlot
  BY DEF IInv
<1> QED BY <1>1, Invariant, PTL

(* ClaimsOnlyIfAbsent of the run: nobody claims a second slot.             *)
THEOREM OneClaim == Spec => []ClaimsOnlyIfAbsent
<1>1. IInv => ClaimsOnlyIfAbsent
  BY DEF IInv, Absent, ClaimsOnlyIfAbsent, Claims, Here, At
<1> QED BY <1>1, Invariant, PTL

(* A settled application keeps its slot, and no step gives its name to     *)
(* another one: whoever might do so is initialising or claims that slot.   *)
LEMMA SettledKeepsSlot ==
  ASSUME IInv, NEW p \in App, CallSet(p) \/ CallGet(p) \/ CallGetAll(p) \/ Step(p) \/ Crash(p),
         NEW a \in App, Settled(a)
  PROVE  Settled(a)' /\ \A s \in Slot : app_name'[s] = a => app_name[s] = a
<1>1. Types /\ Types' /\ OthersStay(p) /\ NamesMove(p)
  BY StepMoves DEF IInv
<1>2. PICK t \in Slot : app_name[t] = a /\ \A q \in App : ~Claims(q, t)
  BY DEF Settled
<1>3. init_flag = 1 /\ \A q \in App : ~InInit(q)
  BY DEF Settled
<1>4. \A s \in Slot : app_name'[s] = a => app_name[s] = a
  <2> SUFFICES ASSUME NEW s \in Slot, app_name'[s] = a, app_name[s] # a PROVE FALSE
    OBVIOUS
  <2>1. a = p /\ pc[p] \in {"name_begin", "name_end"} /\ s = i[p]
    BY <1>1, NoOtherName
  <2>2. t = s
    BY <1>2, <2>1 DEF IInv, Absent, At
  <2> QED BY <1>2, <2>1, <2>2 DEF Claims, Here
<1>5. app_name'[t] = a
  BY <1>1, <1>2, <1>3 DEF NamesMove, Wrote, Wiped, Mixed, InInit, Claims, Here
<1>6. init_flag' = 1 /\ ~InInit(p)' /\ ~Claims(p, t)'
  <2>1. CASE CallSet(p) \/ CallGet(p) \/ CallGetAll(p)
    <3>1. init_flag' = init_flag /\ \E c \in {"set", "get", "get_all"} : pc'[p] = FirstLabel(c)
      BY <1>1, <1>3, <2>1, GotoSlotIs DEF CallSet, CallGet, CallGetAll, Enter, Asked, segment
    <3> QED BY <1>3, <3>1 DEF FirstLabel, InInit, Claims
  <2>2. CASE Scan(p)
    <3>1. init_flag' = init_flag /\ pc'[p] \in {"scan", "new_id"} /\ (pc'[p] = "new_id" => i' = i /\ app_name[i[p]] = Null)
      BY <1>1, <2>2, GotoIs, GotoSlotIs DEF Scan, segment, Here
    <3> QED BY <1>2, <1>3, <3>1, NameAssumption DEF InInit, Claims, Here
  <2>3. CASE NewId(p) \/ NewData(p) \/ NameBegin(p)
    <3>1. /\ init_flag' = init_flag /\ i' = i
          /\ pc[p] \in {"new_id", "new_data", "name_begin"} /\ pc'[p] \in {"new_data", "name_begin", "name_end"}
      BY <1>1, <2>3, GotoIs DEF NewId, NewData, NameBegin, PutId, At
    <3> QED BY <1>2, <1>3, <3>1 DEF InInit, Claims, Here
  <2>4. CASE Find(p) \/ FindFails(p) \/ FoundId(p) \/ FoundData(p) \/ ScanFails(p) \/ NameEnd(p) \/ NameId(p)
    <3>1. init_flag' = init_flag /\ pc'[p] \in {"find", "found_id", "get_mark", "scan", "return", "found_data", "name_id"}
      BY <1>1, <2>4, GotoIs, GotoSlotIs DEF Find, FindFails, FoundId, FoundData, ScanFails, NameEnd, NameId, PutId, segment
    <3> QED BY <1>3, <3>1 DEF InInit, Claims
  <2>5. CASE GetStep(p) \/ AllStep(p) \/ Return(p) \/ Crash(p)
    <3>1. /\ init_flag' = init_flag
          /\ pc'[p] \in {"idle", "get_id", "get_data", "all", "all_mark", "all_id", "all_data", "return"}
      BY <1>1, <2>5, GotoIs, GotoSlotIs
      DEF GetStep, GetMark, GetId, GetData, AllStep, AllNext, AllMark, AllId, AllData, AllDone, Return, Crash, Leave,
          ReadId, segment
    <3> QED BY <1>3, <3>1 DEF InInit, Claims
  <2>6. ~InitStep(p)
    BY <1>3 DEF InitStep, InitZero, InitBegin, InitEnd, InitDone, InInit, At
  <2> QED BY <2>1, <2>2, <2>3, <2>4, <2>5, <2>6 DEF Step, SetStep
<1>7. \A q \in App : ~InInit(q)' /\ ~Claims(q, t)'
  <2> SUFFICES ASSUME NEW q \in App \ {p} PROVE ~InInit(q)' /\ ~Claims(q, t)'
    BY <1>6
  <2>1. pc'[q] = pc[q] /\ i'[q] = i[q]
    BY <1>1 DEF OthersStay
  <2> QED BY <1>2, <1>3, <2>1 DEF InInit, Claims, Here
<1>8. Settled(a)'
  BY <1>5, <1>6, <1>7 DEF Settled
<1> QED BY <1>4, <1>8

-----------------------------------------------------------------------------
(* A caller's op is a record of the four fields, whatever it has answered. *)
IsOp(o) == o = [call |-> o.call, key |-> o.key, value |-> o.value, ret |-> o.ret]

LEMMA AnswerIs ==
  ASSUME Types, NEW p \in App, IsOp(op[p]), NEW v, NEW r, Answer(p, v, r)
  PROVE  /\ op'[p] = [call |-> op[p].call, key |-> op[p].key, value |-> v, ret |-> r]
         /\ \A q \in App \ {p} : op'[q] = op[q]
<1> DEFINE c == op[p].call  k == op[p].key  w == op[p].value  x == op[p].ret
<1>1. op[p] = [call |-> c, key |-> k, value |-> w, ret |-> x]
  BY DEF IsOp
<1>2. op'[p] = [[op[p] EXCEPT !.value = v] EXCEPT !.ret = r]
  BY DEF Answer, Types
<1> HIDE DEF c, k, w, x
<1>3. [op[p] EXCEPT !.value = v] = [call |-> c, key |-> k, value |-> v, ret |-> x]
  BY <1>1
<1>4. op'[p] = [call |-> c, key |-> k, value |-> v, ret |-> r]
  BY <1>2, <1>3
<1>5. \A q \in App \ {p} : op'[q] = op[q]
  BY AnswerOthers
<1> QED BY <1>4, <1>5 DEF c, k

LEMMA ValueIs ==
  ASSUME Types, NEW p \in App, IsOp(op[p]), NEW v, op' = [op EXCEPT ![p].value = v]
  PROVE  /\ op'[p] = [call |-> op[p].call, key |-> op[p].key, value |-> v, ret |-> op[p].ret]
         /\ \A q \in App \ {p} : op'[q] = op[q]
<1> DEFINE c == op[p].call  k == op[p].key  w == op[p].value  x == op[p].ret
<1>1. op[p] = [call |-> c, key |-> k, value |-> w, ret |-> x]
  BY DEF IsOp
<1>2. op'[p] = [op[p] EXCEPT !.value = v]
  BY DEF Types
<1> HIDE DEF c, k, w, x
<1>3. [op[p] EXCEPT !.value = v] = [call |-> c, key |-> k, value |-> v, ret |-> x]
  BY <1>1
<1>4. op'[p] = [call |-> c, key |-> k, value |-> v, ret |-> x]
  BY <1>2, <1>3
<1>5. \A q \in App \ {p} : op'[q] = op[q]
  BY ValueOthers
<1> QED BY <1>4, <1>5 DEF c, k, x

Ops == \A p \in App : IsOp(op[p])

(* The steps that write their caller's value or answer, and no other.      *)
LEMMA OpMoves ==
  ASSUME Types, NEW p \in App, IsOp(op[p]), Step(p)
  PROVE  \/ op'[p] = Idle
         \/ /\ IsOp(op'[p]) /\ op'[p].call = op[p].call /\ op'[p].key = op[p].key
            /\ op'[p].ret = op[p].ret \/ FindFails(p) \/ op'[p].ret = 1 \/ AllDone(p)
<1>1. CASE InitStep(p) \/ Find(p) \/ FoundId(p) \/ Scan(p) \/ NewId(p) \/ NewData(p) \/ NameBegin(p) \/ NameId(p)
           \/ GetMark(p) \/ AllNext(p) \/ AllMark(p)
  <2>1. op' = op
    BY <1>1 DEF InitStep, InitZero, InitBegin, InitEnd, InitDone, Find, FoundId, Scan, NewId, NewData, NameBegin, NameId,
                GetMark, AllNext, AllMark, PutId
  <2> QED BY <2>1
<1>2. CASE FoundData(p) \/ ScanFails(p) \/ NameEnd(p) \/ GetData(p)
  <2>1. PICK v : Answer(p, v, 1)
    BY <1>2 DEF FoundData, ScanFails, NameEnd, GetData
  <2>2. op'[p] = [call |-> op[p].call, key |-> op[p].key, value |-> v, ret |-> 1]
    BY <2>1, AnswerIs
  <2> QED BY <2>2 DEF IsOp
<1>3. CASE FindFails(p)
  <2>1. CASE op' = op
    BY <2>1
  <2>2. CASE Answer(p, None, 0)
    <3>1. op'[p] = [call |-> op[p].call, key |-> op[p].key, value |-> None, ret |-> 0]
      BY <2>2, AnswerIs
    <3> QED BY <1>3, <3>1 DEF IsOp
  <2> QED BY <1>3, <2>1, <2>2 DEF FindFails
<1>4. CASE AllDone(p)
  <2>1. PICK v, r : Answer(p, v, r)
    BY <1>4 DEF AllDone
  <2>2. op'[p] = [call |-> op[p].call, key |-> op[p].key, value |-> v, ret |-> r]
    BY <2>1, AnswerIs
  <2> QED BY <1>4, <2>2 DEF IsOp
<1>5. CASE GetId(p) \/ AllId(p) \/ AllData(p)
  <2>1. PICK v : op' = [op EXCEPT ![p].value = v]
    BY <1>5 DEF GetId, AllId, AllData, ReadId
  <2>2. op'[p] = [call |-> op[p].call, key |-> op[p].key, value |-> v, ret |-> op[p].ret]
    BY <2>1, ValueIs
  <2> QED BY <2>2 DEF IsOp
<1>6. CASE Return(p)
  BY <1>6 DEF Return, Leave, Types
<1> QED BY <1>1, <1>2, <1>3, <1>4, <1>5, <1>6 DEF Step, SetStep, GetStep, AllStep

LEMMA OpsAreCalls == Spec => []Ops
<1>1. Init => Ops
  BY DEF Init, Ops, IsOp, Idle
<1>2. IInv /\ Ops /\ [Next]_vars => Ops'
  <2> SUFFICES ASSUME IInv, Ops, [Next]_vars PROVE Ops'
    OBVIOUS
  <2>1. CASE UNCHANGED vars
    BY <2>1 DEF vars, Ops
  <2>2. CASE Next
    <3>1. PICK p \in App : CallSet(p) \/ CallGet(p) \/ CallGetAll(p) \/ Step(p) \/ Crash(p)
      BY <2>2 DEF Next
    <3>2. \A q \in App \ {p} : op'[q] = op[q]
      BY <3>1, StepMoves DEF IInv, OthersStay
    <3>3. IsOp(op'[p])
      <4>1. CASE CallSet(p) \/ CallGet(p) \/ CallGetAll(p)
        <5>1. PICK c, k, v : op' = [op EXCEPT ![p] = Asked(c, k, v)]
          BY <4>1 DEF CallSet, CallGet, CallGetAll, Enter
        <5> QED BY <5>1 DEF IInv, Types, Asked, IsOp
      <4>2. CASE Step(p)
        <5>1. Types /\ IsOp(op[p])
          BY DEF IInv, Ops
        <5>2. IsOp(Idle)
          BY DEF Idle, IsOp
        <5>3. op'[p] = Idle \/ IsOp(op'[p])
          BY <4>2, <5>1, OpMoves
        <5> QED BY <5>2, <5>3
      <4>3. CASE Crash(p)
        BY <4>3 DEF Crash, Leave, IInv, Types, Idle, IsOp
      <4> QED BY <3>1, <4>1, <4>2, <4>3
    <3> QED BY <3>2, <3>3 DEF Ops
  <2> QED BY <2>1, <2>2
<1> QED BY <1>1, <1>2, Invariant, PTL DEF Spec

AllPlace == {"all", "all_mark", "all_id", "all_data"}

(* A lookup of a under way will find it: it is not at the loop of get_all, *)
(* has not failed, and has not passed the slot.                            *)
WillFind(p, a) == LooksUp(p, a) => /\ pc[p] \notin AllPlace
                                   /\ op[p].ret # 0
                                   /\ At(p, "find") => \A s \in Slot : s < i[p] => app_name[s] # a

LEMMA LookupKeeps ==
  ASSUME IInv, Ops, NEW p \in App, CallSet(p) \/ CallGet(p) \/ CallGetAll(p) \/ Step(p) \/ Crash(p),
         NEW a \in App, Settled(a), WillFind(p, a)
  PROVE  WillFind(p, a)'
<1>1. Types /\ Types' /\ OthersStay(p) /\ NamesMove(p)
  BY StepMoves DEF IInv
<1>2. \A s \in Slot : app_name'[s] = a => app_name[s] = a
  BY SettledKeepsSlot
<1>3. init_flag = 1 /\ ~InInit(p) /\ \E s \in Slot : app_name[s] = a
  BY DEF Settled
<1>4. CASE CallSet(p) \/ CallGetAll(p) \/ Return(p) \/ Crash(p)
  <2>1. op'[p].call # "get"
    BY <1>1, <1>4 DEF CallSet, CallGetAll, Enter, Asked, Return, Crash, Leave, Idle, Types
  <2> QED BY <2>1 DEF WillFind, LooksUp
<1>5. CASE CallGet(p)
  <2>1. pc'[p] = "find" /\ i'[p] = 1 /\ op'[p].ret = None
    BY <1>1, <1>3, <1>5, GotoSlotIs DEF CallGet, Enter, Asked, FirstLabel, Types
  <2>2. None # 0 /\ \A s \in Slot : ~(s < 1)
    BY ValueAssumption DEF Slot
  <2> QED BY <2>1, <2>2 DEF WillFind, At, AllPlace
<1>6. CASE Find(p)
  <2>1. pc[p] = "find" /\ op' = op /\ app_name' = app_name /\ i[p] \in Nat
    BY <1>1, <1>6 DEF Find, At, segment, Types
  <2>2. \/ pc'[p] \in {"found_id", "get_mark"}
        \/ pc'[p] = "find" /\ i'[p] = i[p] + 1 /\ app_name[i[p]] # op[p].key
    BY <1>1, <1>6, GotoIs, GotoSlotIs DEF Find, Here
  <2>3. \A s \in Slot : s < i[p] + 1 => s < i[p] \/ s = i[p]
    BY <2>1 DEF Slot
  <2> QED BY <2>1, <2>2, <2>3 DEF WillFind, LooksUp, At, AllPlace
<1>7. CASE FindFails(p)
  <2>1. pc[p] = "find" /\ \A s \in Slot : s < i[p]
    BY <1>1, <1>7, SizeAssumption DEF FindFails, At, Past, Here, Slot, Types
  <2>2. ~LooksUp(p, a)
    BY <1>3, <2>1 DEF WillFind, At
  <2>3. op'[p] = Idle \/ (op'[p].call = op[p].call /\ op'[p].key = op[p].key)
    BY <1>1, <1>7, OpMoves DEF Ops, Step
  <2> QED BY <2>2, <2>3 DEF WillFind, LooksUp, Idle
<1>8. CASE SetStep(p) \/ GetStep(p)
  <2>1. pc'[p] \notin AllPlace /\ pc'[p] # "find"
    BY <1>1, <1>8, GotoIs, GotoSlotIs
    DEF SetStep, GetStep, FoundId, FoundData, Scan, ScanFails, NewId, NewData, NameBegin, NameEnd, NameId, PutId,
        GetMark, GetId, GetData, ReadId, AllPlace
  <2>2. pc[p] \notin AllPlace /\ ~FindFails(p) /\ ~AllDone(p)
    BY <1>8 DEF SetStep, GetStep, FoundId, FoundData, Scan, ScanFails, NewId, NewData, NameBegin, NameEnd, NameId, PutId,
                GetMark, GetId, GetData, ReadId, FindFails, AllDone, At, AllPlace
  <2>3. \/ op'[p] = Idle
        \/ op'[p].call = op[p].call /\ op'[p].key = op[p].key /\ (op'[p].ret = op[p].ret \/ op'[p].ret = 1)
    BY <1>1, <1>8, <2>2, OpMoves DEF Ops, Step
  <2> QED BY <2>1, <2>2, <2>3 DEF WillFind, LooksUp, Idle, At
<1>9. CASE AllStep(p)
  <2>1. pc[p] \in AllPlace
    BY <1>9 DEF AllStep, AllNext, AllMark, AllId, AllData, AllDone, ReadId, At, AllPlace
  <2>2. op'[p] = Idle \/ (op'[p].call = op[p].call /\ op'[p].key = op[p].key)
    BY <1>1, <1>9, OpMoves DEF Ops, Step
  <2> QED BY <2>1, <2>2 DEF WillFind, LooksUp, Idle
<1>10. ~InitStep(p)
  BY <1>3 DEF InitStep, InitZero, InitBegin, InitEnd, InitDone, InInit, At
<1> QED BY <1>4, <1>5, <1>6, <1>7, <1>8, <1>9, <1>10 DEF Step

(* What is kept: a is settled, and the lookups of it will find it.         *)
Sure(a) == Settled(a) /\ \A p \in App : WillFind(p, a)

LEMMA SureStays == ASSUME NEW a \in App PROVE IInv /\ Ops /\ Sure(a) /\ [Next]_vars => Sure(a)'
<1> SUFFICES ASSUME IInv, Ops, Sure(a), [Next]_vars PROVE Sure(a)'
  OBVIOUS
<1>1. CASE UNCHANGED vars
  BY <1>1 DEF vars, segment, Sure, Settled, WillFind, LooksUp, InInit, Claims, Here, At
<1>2. CASE Next
  <2>1. PICK p \in App : CallSet(p) \/ CallGet(p) \/ CallGetAll(p) \/ Step(p) \/ Crash(p)
    BY <1>2 DEF Next
  <2>2. Settled(a)' /\ \A s \in Slot : app_name'[s] = a => app_name[s] = a
    BY <2>1, SettledKeepsSlot DEF Sure
  <2>3. WillFind(p, a)'
    BY <2>1, LookupKeeps DEF Sure
  <2>4. OthersStay(p)
    BY <2>1, StepMoves DEF IInv
  <2>5. ASSUME NEW q \in App \ {p} PROVE WillFind(q, a)'
    <3>1. pc'[q] = pc[q] /\ i'[q] = i[q] /\ op'[q] = op[q] /\ WillFind(q, a)
      BY <2>4 DEF OthersStay, Sure
    <3> QED BY <2>2, <3>1 DEF WillFind, LooksUp, At
  <2> QED BY <2>2, <2>3, <2>5 DEF Sure
<1> QED BY <1>1, <1>2

(* SettledIsFound of the run: a settled application stays settled, and     *)
(* every lookup that begins from then on finds it.                         *)
THEOREM SettledFound == Spec => SettledIsFound
<1>1. ASSUME NEW a \in App
      PROVE  Spec => [](Settled(a) /\ (\A p \in App : ~LooksUp(p, a)) =>
                          [](Settled(a) /\ \A p \in App : LooksUp(p, a) => op[p].ret # 0))
  <2>1. Settled(a) /\ (\A p \in App : ~LooksUp(p, a)) => Sure(a)
    BY DEF Sure, WillFind
  <2>2. Sure(a) => Settled(a) /\ \A p \in App : LooksUp(p, a) => op[p].ret # 0
    BY DEF Sure, WillFind
  <2>3. IInv /\ Ops /\ Sure(a) /\ [Next]_vars => Sure(a)'
    BY SureStays
  <2> QED BY <2>1, <2>2, <2>3, Invariant, OpsAreCalls, PTL DEF Spec
<1> QED BY <1>1 DEF SettledIsFound

-----------------------------------------------------------------------------
(* Callers that take turns: at most one of them is in a call, nobody has   *)
(* met its strcpy, and the others have nothing under way.                  *)
Lone == \A p, q \in App : pc[p] # "idle" /\ pc[q] # "idle" => p = q

Rest(p) == /\ pc[p] = "idle" => op[p] = Idle
           /\ pc[p] = "idle" \/ InInit(p) => out[p] = <<>>
           /\ ~clash[p]

SetPlace == {"found_id", "found_data", "scan", "new_id", "new_data", "name_begin", "name_end", "name_id"}
GetPlace == {"get_mark", "get_id", "get_data"}

(* The call goes with the place, and has its result from the answer on.    *)
Calls(p) ==
  /\ IsOp(op[p])
  /\ pc[p] # "idle" => op[p].call \in {"set", "get", "get_all"}
  /\ op[p].call = "set" => op[p].key = p /\ op[p].value \in Value
  /\ op[p].call = "get" => op[p].key \in App
  /\ pc[p] \in SetPlace => op[p].call = "set"
  /\ pc[p] \in GetPlace => op[p].call = "get"
  /\ pc[p] \in AllPlace => op[p].call = "get_all"
  /\ pc[p] = "find" => op[p].call # "get_all"
  /\ pc[p] \in {"name_id", "return"} => op[p].ret \in Nat
  /\ pc[p] \notin {"name_id", "return"} => op[p].ret = None

(* The slots of applications, those that get_all has passed, and what it   *)
(* copies of them.                                                         *)
NamedSlots(nm) == {s \in Slot : nm[s] \in App}
Passed(p) == {s \in NamedSlots(app_name) : s < i[p]}
Entry(s) == <<app_name[s], data[s]>>

(* What the caller has found and done so far.                              *)
Place(p) ==
  /\ pc[p] \notin {"idle", "init_zero", "find", "scan", "all", "return"} => i[p] \in Slot
  /\ pc[p] \in {"found_id", "found_data"} \cup GetPlace => app_name[i[p]] = op[p].key
  /\ pc[p] = "find" => \A s \in Slot : s < i[p] => app_name[s] # op[p].key
  /\ pc[p] = "scan" => \A s \in Slot : s < i[p] => app_name[s] # Null
  /\ pc[p] \in {"new_id", "new_data", "name_begin"} => app_name[i[p]] = Null
  /\ pc[p] \in {"name_begin", "name_end"} => data[i[p]] = op[p].value
  /\ pc[p] = "name_end" => app_name[i[p]] = Torn
  /\ pc[p] = "get_id" => app_id[i[p]] = op[p].key
  /\ pc[p] = "get_data" => op[p].value = op[p].key
  /\ pc[p] \in AllPlace \ {"all"} => app_name[i[p]] \in App
  /\ pc[p] = "all_id" => app_id[i[p]] = app_name[i[p]]
  /\ pc[p] = "all_data" => op[p].value = app_name[i[p]]

Copies(p) ==
  pc[p] \in AllPlace =>
    /\ out[p] \in Seq(App \X Value)
    /\ Len(out[p]) = Cardinality(Passed(p))
    /\ {out[p][k] : k \in 1..Len(out[p])} = {Entry(s) : s \in Passed(p)}

Ids == DOMAIN app_id = Slot /\ DOMAIN data = Slot /\ DOMAIN out = App

(* The table between calls: who has a slot has data, no slot is torn but   *)
(* the one a strcpy is in, and nobody has a slot before it is initialised. *)
Memory ==
  /\ \A s \in Slot : app_name[s] \in App => data[s] \in Value
  /\ \A s \in Slot : app_name[s] = Torn => \E p \in App : pc[p] \in {"init_end", "name_end"} /\ i[p] = s
  /\ init_flag = 0 => \A s \in Slot : app_name[s] \notin App
  /\ init_flag = 0 => \A p \in App : pc[p] = "idle" \/ InInit(p)
  /\ init_flag = 1 => \A p \in App : ~InInit(p)

SInv == IInv /\ Ids /\ Lone /\ Memory /\ \A p \in App : Rest(p) /\ Calls(p) /\ Place(p) /\ Copies(p)

-----------------------------------------------------------------------------
(* The table as a function of the names and data of the slots.             *)

TableOf(nm, dt) == [a \in App |-> IF \E s \in Slot : nm[s] = a THEN dt[CHOOSE s \in Slot : nm[s] = a] ELSE None]
Distinct(nm) == \A s, t \in Slot : nm[s] \in App /\ nm[s] = nm[t] => s = t

LEMMA TableIs == Table = TableOf(app_name, data) /\ Table' = TableOf(app_name', data')
BY DEF Table, TableOf, SlotOf

LEMMA TableAt ==
  ASSUME NEW nm, NEW dt, Distinct(nm), NEW a \in App
  PROVE  /\ \A s \in Slot : nm[s] = a => TableOf(nm, dt)[a] = dt[s]
         /\ (\A s \in Slot : nm[s] # a) => TableOf(nm, dt)[a] = None
<1>1. ASSUME NEW s \in Slot, nm[s] = a PROVE TableOf(nm, dt)[a] = dt[s]
  <2>1. (CHOOSE t \in Slot : nm[t] = a) \in Slot /\ nm[CHOOSE t \in Slot : nm[t] = a] = a
    BY <1>1
  <2>2. (CHOOSE t \in Slot : nm[t] = a) = s
    BY <1>1, <2>1 DEF Distinct
  <2> QED BY <1>1, <2>2 DEF TableOf
<1>2. (\A s \in Slot : nm[s] # a) => TableOf(nm, dt)[a] = None
  BY DEF TableOf
<1> QED BY <1>1, <1>2

(* A step that touches no slot of an application leaves the table alone.   *)
LEMMA TableSame ==
  ASSUME NEW nm, NEW dt, NEW nm2, NEW dt2, Distinct(nm), Distinct(nm2),
         \A s \in Slot : nm[s] \in App \/ nm2[s] \in App => nm2[s] = nm[s] /\ dt2[s] = dt[s]
  PROVE  TableOf(nm2, dt2) = TableOf(nm, dt)
<1>1. ASSUME NEW a \in App PROVE TableOf(nm2, dt2)[a] = TableOf(nm, dt)[a]
  <2>1. CASE \E s \in Slot : nm[s] = a
    <3>1. PICK s \in Slot : nm[s] = a
      BY <2>1
    <3>2. nm2[s] = a /\ dt2[s] = dt[s]
      BY <3>1
    <3> QED BY <3>1, <3>2, TableAt
  <2>2. CASE \A s \in Slot : nm[s] # a
    <3>1. \A s \in Slot : nm2[s] # a
      BY <2>2
    <3> QED BY <2>2, <3>1, TableAt
  <2> QED BY <2>1, <2>2
<1> QED BY <1>1 DEF TableOf

(* One that gives a slot to an application, or writes its data.            *)
LEMMA TablePut ==
  ASSUME NEW nm, NEW dt, NEW nm2, NEW dt2, Distinct(nm), Distinct(nm2), NEW s \in Slot, NEW a \in App,
         nm2[s] = a, nm[s] = a \/ nm[s] \notin App,
         \A t \in Slot \ {s} : nm2[t] = nm[t] /\ dt2[t] = dt[t]
  PROVE  TableOf(nm2, dt2) = [TableOf(nm, dt) EXCEPT ![a] = dt2[s]]
<1>1. TableOf(nm2, dt2)[a] = dt2[s]
  BY TableAt
<1>2. ASSUME NEW b \in App, b # a PROVE TableOf(nm2, dt2)[b] = TableOf(nm, dt)[b]
  <2>1. CASE \E t \in Slot : nm[t] = b
    <3>1. PICK t \in Slot : nm[t] = b
      BY <2>1
    <3>2. t # s /\ nm2[t] = b /\ dt2[t] = dt[t]
      BY <1>2, <3>1
    <3> QED BY <3>1, <3>2, TableAt
  <2>2. CASE \A t \in Slot : nm[t] # b
    <3>1. \A t \in Slot : nm2[t] # b
      BY <1>2, <2>2
    <3> QED BY <2>2, <3>1, TableAt
  <2> QED BY <2>1, <2>2
<1>3. /\ TableOf(nm2, dt2) = [b \in App |-> TableOf(nm2, dt2)[b]]
      /\ TableOf(nm, dt) = [b \in App |-> TableOf(nm, dt)[b]]
  BY DEF TableOf
<1> QED BY <1>1, <1>2, <1>3

LEMMA SlotSubset ==
  ASSUME NEW S \in SUBSET Slot
  PROVE  /\ IsFiniteSet(S) /\ Cardinality(S) \in Nat /\ Cardinality(S) <= Size
         /\ Cardinality(S) = Size <=> S = Slot
<1>1. Size \in Nat /\ Size > 0
  BY SizeAssumption
<1>2. IsFiniteSet(Slot) /\ Cardinality(Slot) = Size
  <2>1. IsFiniteSet(1..Size) /\ Cardinality(1..Size) = IF 1 > Size THEN 0 ELSE Size - 1 + 1
    BY <1>1, FS_Interval
  <2> QED BY <1>1, <2>1 DEF Slot
<1>3. IsFiniteSet(S) /\ Cardinality(S) <= Cardinality(Slot) /\ (Cardinality(Slot) = Cardinality(S) => Slot = S)
  BY <1>2, FS_Subset
<1>4. Cardinality(S) \in Nat
  BY <1>3, FS_CardinalityType
<1> QED BY <1>2, <1>3, <1>4

(* The applications stored are as many as the slots that have their names. *)
LEMMA StoredCount ==
  ASSUME NEW nm, NEW dt, Distinct(nm), \A s \in Slot : nm[s] \in App => dt[s] \in Value
  PROVE  LET stored == {a \in App : TableOf(nm, dt)[a] # None}
         IN  /\ stored = {nm[s] : s \in NamedSlots(nm)}
             /\ Cardinality(stored) = Cardinality(NamedSlots(nm))
<1> DEFINE stored == {a \in App : TableOf(nm, dt)[a] # None}
           f == [s \in NamedSlots(nm) |-> nm[s]]
<1>1. ASSUME NEW a \in App PROVE a \in stored <=> \E s \in Slot : nm[s] = a
  <2>1. CASE \E s \in Slot : nm[s] = a
    <3>1. PICK s \in Slot : nm[s] = a
      BY <2>1
    <3>2. TableOf(nm, dt)[a] = dt[s] /\ dt[s] \in Value
      BY <3>1, TableAt
    <3> QED BY <3>1, <3>2, ValueAssumption
  <2>2. CASE \A s \in Slot : nm[s] # a
    BY <2>2, TableAt
  <2> QED BY <2>1, <2>2
<1>2. stored = {nm[s] : s \in NamedSlots(nm)}
  BY <1>1 DEF NamedSlots
<1>3. f \in Surjection(NamedSlots(nm), stored) /\ f \in Injection(NamedSlots(nm), stored)
  <2>1. f \in [NamedSlots(nm) -> stored]
    BY <1>2
  <2>2. \A a \in stored : \E s \in NamedSlots(nm) : f[s] = a
    BY <1>2
  <2>3. \A s, t \in NamedSlots(nm) : f[s] = f[t] => s = t
    BY DEF Distinct, NamedSlots
  <2> HIDE DEF f, stored
  <2> QED BY <2>1, <2>2, <2>3 DEF Surjection, Injection, IsInjective
<1>4. IsFiniteSet(NamedSlots(nm))
  <2>1. NamedSlots(nm) \in SUBSET Slot
    BY DEF NamedSlots
  <2> QED BY <2>1, SlotSubset
<1>5. Cardinality(stored) = Cardinality(NamedSlots(nm))
  <2> HIDE DEF f, stored
  <2> QED BY <1>3, <1>4, FS_Surjection
<1> QED BY <1>2, <1>5

-----------------------------------------------------------------------------
(* The calls as the registry sees them.                                    *)

Vis(o) == IF o.call # "set" /\ o.ret = None THEN [o EXCEPT !.value = None] ELSE o

LEMMA VisIs == VisibleOp = [q \in App |-> Vis(op[q])] /\ VisibleOp' = [q \in App |-> Vis(op'[q])]
BY DEF VisibleOp, Vis

LEMMA VisOf ==
  ASSUME NEW o, IsOp(o)
  PROVE  Vis(o) = IF o.call # "set" /\ o.ret = None
                  THEN [call |-> o.call, key |-> o.key, value |-> None, ret |-> None]
                  ELSE [call |-> o.call, key |-> o.key, value |-> o.value, ret |-> o.ret]
<1> DEFINE c == o.call  k == o.key  v == o.value  r == o.ret
<1>1. o = [call |-> c, key |-> k, value |-> v, ret |-> r]
  BY DEF IsOp
<1> HIDE DEF c, k, v, r
<1>2. [o EXCEPT !.value = None] = [call |-> c, key |-> k, value |-> None, ret |-> r]
  BY <1>1
<1> QED BY <1>1, <1>2 DEF Vis, c, k, v, r

-----------------------------------------------------------------------------
(* The steps of a caller whose turn it is.                                 *)

LEMMA OthersIdle ==
  ASSUME SInv, NEW p \in App, pc[p] # "idle"
  PROVE  \A q \in App \ {p} : pc[q] = "idle"
BY DEF SInv, Lone

LEMMA NotTorn ==
  ASSUME SInv, NEW p \in App, \A q \in App \ {p} : pc[q] = "idle", pc[p] \notin {"init_end", "name_end"}
  PROVE  \A s \in Slot : app_name[s] # Torn
BY DEF SInv, Memory

LEMMA FlagSet ==
  ASSUME SInv, NEW p \in App, pc[p] # "idle", ~InInit(p)
  PROVE  init_flag = 1
BY DEF SInv, Memory, IInv, Types

(* What has to be looked at in a step of p.                                *)
LEMMA OneSteps ==
  ASSUME SInv, IInv', Ids', NEW p \in App, OthersStay(p),
         \A q \in App \ {p} : pc[q] = "idle" /\ out'[q] = out[q],
         \A q \in App : ~clash'[q], Memory',
         pc'[p] = "idle" => op'[p] = Idle,
         pc'[p] = "idle" \/ InInit(p)' => out'[p] = <<>>,
         Calls(p)', Place(p)', Copies(p)'
  PROVE  SInv'
<1>1. \A q \in App \ {p} : pc'[q] = "idle" /\ op'[q] = Idle /\ out'[q] = <<>>
  BY DEF OthersStay, SInv, Rest
<1>2. Lone'
  BY <1>1 DEF Lone
<1>3. IsOp(Idle) /\ Idle.call = "none" /\ Idle.ret = None
  BY DEF IsOp, Idle
<1>4. \A q \in App : Rest(q)'
  BY <1>1 DEF Rest, InInit
<1>5. ASSUME NEW q \in App \ {p} PROVE Calls(q)' /\ Place(q)' /\ Copies(q)'
  <2>1. Calls(q)'
    BY <1>1, <1>3 DEF Calls, SetPlace, GetPlace, AllPlace
  <2>2. Place(q)' /\ Copies(q)'
    BY <1>1 DEF Place, Copies, SetPlace, GetPlace, AllPlace
  <2> QED BY <2>1, <2>2
<1> QED BY <1>2, <1>4, <1>5 DEF SInv

LEMMA MemoryStays ==
  ASSUME SInv, NEW p \in App, pc[p] \notin {"idle", "name_end"}, ~InInit(p), OthersStay(p),
         ~InInit(p)', app_name' = app_name, init_flag' = init_flag,
         \A s \in Slot : app_name[s] \in App => data'[s] \in Value
  PROVE  Memory'
<1>1. \A q \in App \ {p} : pc[q] = "idle" /\ pc'[q] = "idle"
  BY OthersIdle DEF OthersStay
<1>2. init_flag = 1 /\ \A s \in Slot : app_name[s] # Torn
  BY <1>1, FlagSet, NotTorn DEF InInit
<1> QED BY <1>1, <1>2 DEF Memory, InInit

LEMMA TableStays ==
  ASSUME SInv, IInv',
         \A s \in Slot : app_name[s] \in App \/ app_name'[s] \in App => app_name'[s] = app_name[s] /\ data'[s] = data[s]
  PROVE  Table' = Table
<1>1. Distinct(app_name) /\ Distinct(app_name')
  BY DEF SInv, IInv, UniqueName, Distinct
<1> QED BY <1>1, TableSame, TableIs

LEMMA OpStays ==
  ASSUME NEW p \in App, \A q \in App \ {p} : op'[q] = op[q], Vis(op'[p]) = Vis(op[p])
  PROVE  VisibleOp' = VisibleOp
BY VisIs

(* A call the registry has not answered yet.                               *)
LEMMA Asks ==
  ASSUME SInv, NEW p \in App, op[p].ret = None
  PROVE  /\ VisibleOp[p].call = op[p].call /\ VisibleOp[p].key = op[p].key /\ VisibleOp[p].ret = None
         /\ op[p].call = "set" => VisibleOp[p].value = op[p].value
<1>1. IsOp(op[p]) /\ VisibleOp[p] = Vis(op[p])
  BY VisIs DEF SInv, Calls
<1> QED BY <1>1, VisOf

(* Its answer.                                                             *)
LEMMA Answers ==
  ASSUME SInv, NEW p \in App, op[p].ret = None, NEW v, NEW r \in Nat, Answer(p, v, r)
  PROVE  /\ Registry!Answer(p, v, r)
         /\ IsOp(op'[p]) /\ op'[p].call = op[p].call /\ op'[p].key = op[p].key /\ op'[p].value = v /\ op'[p].ret = r
         /\ \A q \in App \ {p} : op'[q] = op[q]
<1>1. Types /\ IsOp(op[p])
  BY DEF SInv, IInv, Calls
<1>2. /\ op'[p] = [call |-> op[p].call, key |-> op[p].key, value |-> v, ret |-> r]
      /\ \A q \in App \ {p} : op'[q] = op[q]
  BY <1>1, AnswerIs
<1>3. /\ op'[p].call = op[p].call /\ op'[p].key = op[p].key /\ op'[p].value = v /\ op'[p].ret = r
      /\ IsOp(op'[p])
  BY <1>2 DEF IsOp
<1>4. r # None
  BY ValueAssumption
<1>5. Vis(op'[p]) = op'[p]
  BY <1>3, <1>4 DEF Vis
<1>6. VisibleOp' = [VisibleOp EXCEPT ![p] = op'[p]]
  BY <1>2, <1>5, VisIs
<1>7. op'[p] = [call |-> VisibleOp[p].call, key |-> VisibleOp[p].key, value |-> v, ret |-> r]
  BY <1>2, Asks
<1> QED BY <1>2, <1>3, <1>6, <1>7 DEF Registry!Answer

(* A step that looks, or writes app_id only: the registry does nothing.    *)
LEMMA Walks ==
  ASSUME SInv, IInv', Ids', NEW p \in App, pc[p] \notin {"idle", "name_end"}, ~InInit(p), OthersStay(p),
         pc'[p] # "idle", ~InInit(p)',
         app_name' = app_name, data' = data, init_flag' = init_flag, op' = op, clash' = clash, out' = out,
         Calls(p)', Place(p)', Copies(p)'
  PROVE  SInv' /\ Table' = Table /\ VisibleOp' = VisibleOp
<1>1. Memory'
  BY MemoryStays DEF SInv, Memory
<1>2. \A q \in App \ {p} : pc[q] = "idle" /\ out'[q] = out[q]
  BY OthersIdle
<1>3. \A q \in App : ~clash'[q]
  BY DEF SInv, Rest
<1>4. SInv'
  BY <1>1, <1>2, <1>3, OneSteps
<1>5. Table' = Table
  BY TableStays
<1>6. VisibleOp' = VisibleOp
  BY VisIs
<1> QED BY <1>4, <1>5, <1>6

LEMMA CallsStay ==
  ASSUME SInv, NEW p \in App, pc[p] # "idle", op' = op,
         pc'[p] \in SetPlace => op[p].call = "set",
         pc'[p] \in GetPlace => op[p].call = "get",
         pc'[p] \in AllPlace => op[p].call = "get_all",
         pc'[p] = "find" => op[p].call # "get_all",
         pc'[p] \in {"name_id", "return"} <=> pc[p] \in {"name_id", "return"}
  PROVE  Calls(p)'
BY DEF SInv, Calls

LEMMA CopiesStay ==
  ASSUME SInv, NEW p \in App, app_name' = app_name, data' = data, out' = out, Passed(p)' = Passed(p), pc[p] \in AllPlace
  PROVE  Copies(p)'
<1>1. \A s : Entry(s)' = Entry(s)
  BY DEF Entry
<1>2. /\ out[p] \in Seq(App \X Value) /\ Len(out[p]) = Cardinality(Passed(p))
      /\ {out[p][k] : k \in 1..Len(out[p])} = {Entry(s) : s \in Passed(p)}
  BY DEF SInv, Copies
<1>3. {Entry(s) : s \in Passed(p)}' = {Entry(s) : s \in Passed(p)}
  BY <1>1
<1> QED BY <1>2, <1>3 DEF Copies

LEMMA PassedStays == ASSUME NEW p \in App, app_name' = app_name, i' = i PROVE Passed(p)' = Passed(p)
BY DEF Passed, NamedSlots

LEMMA IdsStay ==
  ASSUME Ids, NEW p \in App, CallSet(p) \/ CallGet(p) \/ CallGetAll(p) \/ Step(p) \/ Crash(p)
  PROVE  Ids'
BY DEF Ids, CallSet, CallGet, CallGetAll, Enter, Step, InitStep, InitZero, InitBegin, InitEnd, InitDone,
       Find, FindFails, SetStep, FoundId, FoundData, Scan, ScanFails, NewId, NewData, NameBegin,
       NameEnd, NameId, PutId, GetStep, GetMark, GetId, GetData, ReadId, AllStep, AllNext, AllMark,
       AllId, AllData, AllDone, Return, Crash, Leave, segment

(* What has to be shown of a step: the invariant, and a step of the        *)
(* registry or none.                                                       *)
Good == SInv' /\ (Registry!Next \/ (Table' = Table /\ VisibleOp' = VisibleOp))

LEMMA Known ==
  ASSUME SInv, NEW p \in App
  PROVE  /\ IInv /\ Types /\ Calls(p) /\ Place(p) /\ Copies(p) /\ Rest(p) /\ Memory
         /\ i[p] \in Nat \ {0}
         /\ i[p] \in Slot <=> i[p] <= Size
BY SizeAssumption DEF SInv, IInv, Types, Slot

LEMMA FindGood == ASSUME SInv, IInv', Ids', NEW p \in App, OthersStay(p), Find(p) PROVE Good
<1>1. /\ pc[p] = "find" /\ i[p] \in Slot /\ op[p].call \in {"set", "get"}
      /\ \A s \in Slot : s < i[p] => app_name[s] # op[p].key
  BY Known, SizeAssumption DEF Find, At, Past, Here, Calls, Place
<1>2. /\ app_name' = app_name /\ data' = data /\ init_flag' = init_flag /\ op' = op /\ clash' = clash /\ out' = out
  BY DEF Find, segment
<1>3. \/ /\ app_name[i[p]] = op[p].key /\ i' = i
         /\ pc'[p] = IF op[p].call = "set" THEN "found_id" ELSE "get_mark"
      \/ app_name[i[p]] # op[p].key /\ pc'[p] = "find" /\ i'[p] = i[p] + 1
  BY Known, GotoIs, GotoSlotIs DEF Find, Here
<1>4. \A s \in Slot : s < i[p] + 1 => s < i[p] \/ s = i[p]
  BY <1>1 DEF Slot
<1>5. Calls(p)' /\ Copies(p)'
  BY <1>1, <1>2, <1>3, CallsStay DEF SetPlace, GetPlace, AllPlace, Copies
<1>6. Place(p)'
  BY <1>1, <1>2, <1>3, <1>4 DEF Place, GetPlace, AllPlace
<1> QED BY <1>1, <1>2, <1>3, <1>5, <1>6, Walks DEF Good, InInit

LEMMA ScanGood == ASSUME SInv, IInv', Ids', NEW p \in App, OthersStay(p), Scan(p) PROVE Good
<1>1. /\ pc[p] = "scan" /\ i[p] \in Slot /\ op[p].call = "set"
      /\ \A s \in Slot : s < i[p] => app_name[s] # Null
  BY Known, SizeAssumption DEF Scan, At, Past, Here, Calls, Place, SetPlace
<1>2. /\ app_name' = app_name /\ data' = data /\ init_flag' = init_flag /\ op' = op /\ clash' = clash /\ out' = out
  BY DEF Scan, segment
<1>3. \/ app_name[i[p]] = Null /\ i' = i /\ pc'[p] = "new_id"
      \/ app_name[i[p]] # Null /\ pc'[p] = "scan" /\ i'[p] = i[p] + 1
  BY Known, GotoIs, GotoSlotIs DEF Scan, Here
<1>4. \A s \in Slot : s < i[p] + 1 => s < i[p] \/ s = i[p]
  BY <1>1 DEF Slot
<1>5. Calls(p)' /\ Copies(p)'
  BY <1>1, <1>2, <1>3, CallsStay DEF SetPlace, GetPlace, AllPlace, Copies
<1>6. Place(p)'
  BY <1>1, <1>2, <1>3, <1>4 DEF Place, GetPlace, AllPlace
<1> QED BY <1>1, <1>2, <1>3, <1>5, <1>6, Walks DEF Good, InInit

(* The writes of app_id that the registry does not see.                    *)
LEMMA SetIdGood ==
  ASSUME SInv, IInv', Ids', NEW p \in App, OthersStay(p), FoundId(p) \/ NewId(p) \/ NameId(p)
  PROVE  Good
<1>1. /\ pc[p] \in {"found_id", "new_id", "name_id"} /\ i[p] \in Slot /\ op[p].call = "set"
      /\ pc'[p] = IF pc[p] = "found_id" THEN "found_data" ELSE IF pc[p] = "new_id" THEN "new_data" ELSE "return"
  BY Known, GotoIs DEF FoundId, NewId, NameId, PutId, At, Calls, Place, SetPlace
<1>2. /\ app_name' = app_name /\ data' = data /\ init_flag' = init_flag /\ op' = op /\ clash' = clash /\ out' = out
      /\ i' = i
  BY DEF FoundId, NewId, NameId, PutId
<1>3. Calls(p)' /\ Copies(p)'
  BY <1>1, <1>2, CallsStay DEF SetPlace, GetPlace, AllPlace, Copies
<1>4. Place(p)'
  BY <1>1, <1>2, Known DEF Place, GetPlace, AllPlace
<1> QED BY <1>1, <1>2, <1>3, <1>4, Walks DEF Good, InInit

LEMMA MarkGood == ASSUME SInv, IInv', Ids', NEW p \in App, OthersStay(p), GetMark(p) \/ AllMark(p) PROVE Good
<1>1. /\ pc[p] \in {"get_mark", "all_mark"} /\ i[p] \in Slot
      /\ op[p].call = IF pc[p] = "get_mark" THEN "get" ELSE "get_all"
      /\ pc'[p] = IF pc[p] = "get_mark" THEN "get_id" ELSE "all_id"
  BY Known, GotoIs DEF GetMark, AllMark, At, Calls, Place, GetPlace, AllPlace
<1>2. /\ app_name' = app_name /\ data' = data /\ init_flag' = init_flag /\ op' = op /\ clash' = clash /\ out' = out
      /\ i' = i
  BY DEF GetMark, AllMark
<1>3. app_id'[i[p]] = IF pc[p] = "get_mark" THEN op[p].key ELSE app_name[i[p]]
  BY <1>1, Known DEF GetMark, AllMark, At, Here, SInv, Ids
<1>4. Calls(p)' /\ Copies(p)'
  BY <1>1, <1>2, CallsStay, CopiesStay, PassedStays DEF SetPlace, GetPlace, AllPlace, Copies
<1>5. Place(p)'
  BY <1>1, <1>2, <1>3, Known DEF Place, GetPlace, AllPlace
<1> QED BY <1>1, <1>2, <1>4, <1>5, Walks DEF Good, InInit

LEMMA AllNextGood == ASSUME SInv, IInv', Ids', NEW p \in App, OthersStay(p), AllNext(p) PROVE Good
<1>1. pc[p] = "all" /\ i[p] \in Slot /\ op[p].call = "get_all"
  BY Known, SizeAssumption DEF AllNext, At, Past, Here, Calls, AllPlace
<1>2. /\ app_name' = app_name /\ data' = data /\ init_flag' = init_flag /\ op' = op /\ clash' = clash /\ out' = out
  BY DEF AllNext, segment
<1>3. \/ app_name[i[p]] # Null /\ i' = i /\ pc'[p] = "all_mark"
      \/ app_name[i[p]] = Null /\ pc'[p] = "all" /\ i'[p] = i[p] + 1
  BY Known, GotoIs, GotoSlotIs DEF AllNext, Here
<1>4. Calls(p)'
  BY <1>1, <1>2, <1>3, CallsStay DEF SetPlace, GetPlace, AllPlace
<1>5. app_name[i[p]] # Null => app_name[i[p]] \in App
  <2>1. init_flag = 1 /\ app_name[i[p]] # None /\ app_name[i[p]] \in Name
    BY <1>1, FlagSet DEF InInit, SInv, IInv, NoRawSlot, Types
  <2>2. app_name[i[p]] # Torn
    BY <1>1, OthersIdle, NotTorn
  <2> QED BY <2>1, <2>2 DEF Name
<1>6. Place(p)'
  BY <1>1, <1>2, <1>3, <1>5 DEF Place, GetPlace, AllPlace
<1>7. Passed(p)' = Passed(p)
  <2>1. CASE i' = i
    BY <1>2, <2>1, PassedStays
  <2>2. CASE app_name[i[p]] = Null /\ i'[p] = i[p] + 1
    <3>1. \A s \in Slot : app_name[s] \in App => (s < i[p] + 1 <=> s < i[p])
      BY <1>1, <2>2, NameAssumption DEF Slot
    <3> QED BY <1>2, <2>2, <3>1 DEF Passed, NamedSlots
  <2> QED BY <1>3, <2>1, <2>2
<1>8. Copies(p)'
  BY <1>1, <1>2, <1>7, CopiesStay DEF AllPlace
<1> QED BY <1>1, <1>2, <1>3, <1>4, <1>6, <1>8, Walks DEF Good, InInit

(* memcpy of the first field: a value the registry does not show yet.      *)
LEMMA ReadIdGood == ASSUME SInv, IInv', Ids', NEW p \in App, OthersStay(p), GetId(p) \/ AllId(p) PROVE Good
<1>1. /\ pc[p] \in {"get_id", "all_id"} /\ i[p] \in Slot
      /\ op[p].call = IF pc[p] = "get_id" THEN "get" ELSE "get_all"
      /\ pc'[p] = IF pc[p] = "get_id" THEN "get_data" ELSE "all_data"
      /\ op[p].ret = None
  BY Known, GotoIs DEF GetId, AllId, ReadId, At, Calls, Place, GetPlace, AllPlace
<1>2. /\ app_name' = app_name /\ data' = data /\ init_flag' = init_flag /\ clash' = clash /\ out' = out /\ i' = i
  BY DEF GetId, AllId, ReadId, segment
<1>3. /\ op'[p] = [call |-> op[p].call, key |-> op[p].key, value |-> app_id[i[p]], ret |-> op[p].ret]
      /\ \A q \in App \ {p} : op'[q] = op[q]
  BY Known, ValueIs DEF GetId, AllId, ReadId, Here, Calls
<1>4. /\ op'[p].call = op[p].call /\ op'[p].key = op[p].key /\ op'[p].value = app_id[i[p]] /\ op'[p].ret = None
      /\ IsOp(op'[p])
  BY <1>1, <1>3 DEF IsOp
<1>5. Calls(p)'
  BY <1>1, <1>4, Known DEF Calls, SetPlace, GetPlace, AllPlace
<1>6. Place(p)'
  BY <1>1, <1>2, <1>4, Known DEF Place, GetPlace, AllPlace
<1>7. Copies(p)'
  BY <1>1, <1>2, CopiesStay, PassedStays DEF AllPlace, Copies
<1>8. Memory'
  BY <1>1, <1>2, MemoryStays DEF InInit, SInv, Memory
<1>9. SInv'
  BY <1>1, <1>2, <1>5, <1>6, <1>7, <1>8, OthersIdle, OneSteps DEF SInv, Rest, InInit
<1>10. Vis(op'[p]) = Vis(op[p])
  BY <1>1, <1>4, Known, VisOf DEF Calls
<1> QED BY <1>2, <1>3, <1>9, <1>10, OpStays, TableStays DEF Good

(* A set or get that has failed to find its key.                           *)
LEMMA FindFailsGood == ASSUME SInv, IInv', Ids', NEW p \in App, OthersStay(p), FindFails(p) PROVE Good
<1>1. /\ pc[p] = "find" /\ op[p].call \in {"set", "get"} /\ op[p].ret = None
      /\ \A s \in Slot : app_name[s] # op[p].key
  <2>1. i[p] > Size
    BY DEF FindFails, Past, Here
  <2>2. \A s \in Slot : s < i[p]
    BY <2>1, Known, SizeAssumption DEF Slot
  <2> QED BY <2>2, Known DEF FindFails, At, Calls, Place
<1>2. /\ app_name' = app_name /\ data' = data /\ init_flag' = init_flag /\ clash' = clash /\ out' = out
  BY DEF FindFails, segment
<1>3. CASE op[p].call = "set"
  <2>1. op' = op /\ pc'[p] = "scan" /\ i'[p] = 1
    BY <1>3, Known, GotoSlotIs DEF FindFails
  <2>2. Calls(p)' /\ Copies(p)'
    BY <1>1, <1>3, <2>1, CallsStay DEF SetPlace, GetPlace, AllPlace, Copies
  <2>3. \A s \in Slot : ~(s < 1)
    BY DEF Slot
  <2>4. Place(p)'
    BY <2>1, <2>3 DEF Place, GetPlace, AllPlace
  <2> QED BY <1>1, <1>2, <2>1, <2>2, <2>4, Walks DEF Good, InInit
<1>4. CASE op[p].call = "get"
  <2>1. Answer(p, None, 0) /\ pc'[p] = "return"
    BY <1>4, Known, GotoIs DEF FindFails
  <2>2. /\ Registry!Answer(p, None, 0)
        /\ IsOp(op'[p]) /\ op'[p].call = op[p].call /\ op'[p].key = op[p].key /\ op'[p].ret = 0
    BY <1>1, <2>1, Answers
  <2>3. Calls(p)' /\ Place(p)' /\ Copies(p)'
    BY <1>4, <2>1, <2>2, Known DEF Calls, Place, Copies, SetPlace, GetPlace, AllPlace
  <2>4. Memory'
    BY <1>1, <1>2, <2>1, MemoryStays DEF InInit, SInv, Memory
  <2>5. SInv'
    BY <1>1, <1>2, <2>1, <2>3, <2>4, OthersIdle, OneSteps DEF SInv, Rest, InInit
  <2>6. Table' = Table
    BY <1>2, TableStays
  <2>7. op[p].key \in App /\ Table[op[p].key] = None
    <3>1. op[p].key \in App
      BY <1>4, Known DEF Calls
    <3>2. Distinct(app_name)
      BY DEF SInv, IInv, UniqueName, Distinct
    <3> QED BY <1>1, <3>1, <3>2, TableAt, TableIs
  <2>8. Registry!GetUnknown(p)
    BY <1>1, <1>4, <2>2, <2>6, <2>7, Asks DEF Registry!GetUnknown, Registry!Pending, Registry!Stored
  <2> QED BY <2>5, <2>8 DEF Good, Registry!Next
<1> QED BY <1>1, <1>3, <1>4

(* A step that answers and leaves the names alone.                         *)
LEMMA Returns ==
  ASSUME SInv, IInv', Ids', NEW p \in App, pc[p] \notin {"idle", "name_end"}, ~InInit(p), OthersStay(p),
         pc'[p] = "return", app_name' = app_name, init_flag' = init_flag, clash' = clash, out' = out,
         \A s \in Slot : app_name[s] \in App => data'[s] \in Value,
         NEW v, NEW r \in Nat, op[p].ret = None, op[p].call = "set" => v \in Value, Answer(p, v, r)
  PROVE  SInv' /\ Registry!Answer(p, v, r)
<1>1. /\ Registry!Answer(p, v, r)
      /\ IsOp(op'[p]) /\ op'[p].call = op[p].call /\ op'[p].key = op[p].key /\ op'[p].value = v /\ op'[p].ret = r
  BY Answers
<1>2. Calls(p)' /\ Place(p)' /\ Copies(p)'
  BY <1>1, Known DEF Calls, Place, Copies, SetPlace, GetPlace, AllPlace
<1>3. Memory'
  BY MemoryStays DEF InInit
<1> QED BY <1>1, <1>2, <1>3, OthersIdle, OneSteps DEF SInv, Rest, InInit

(* The registry counts as this module does.                                *)
LEMMA SameCount == \A S : Registry!Cardinality(S) = Cardinality(S)
BY DEF Registry!Cardinality, Cardinality

LEMMA DistinctNames == ASSUME SInv, IInv' PROVE Distinct(app_name) /\ Distinct(app_name')
BY DEF SInv, IInv, UniqueName, Distinct

LEMMA FoundDataGood == ASSUME SInv, IInv', Ids', NEW p \in App, OthersStay(p), FoundData(p) PROVE Good
<1>1. /\ pc[p] = "found_data" /\ i[p] \in Slot /\ op[p].call = "set" /\ op[p].ret = None
      /\ app_name[i[p]] = p /\ op[p].value \in Value
  BY Known DEF FoundData, At, Calls, Place, SetPlace
<1>2. /\ app_name' = app_name /\ init_flag' = init_flag /\ clash' = clash /\ out' = out /\ pc'[p] = "return"
      /\ data' = [data EXCEPT ![i[p]] = op[p].value] /\ Answer(p, op[p].value, 1)
  BY Known, GotoIs DEF FoundData, Here
<1>3. data'[i[p]] = op[p].value /\ \A s \in Slot \ {i[p]} : data'[s] = data[s]
  BY <1>1, <1>2 DEF SInv, Ids
<1>4. \A s \in Slot : app_name[s] \in App => data'[s] \in Value
  BY <1>1, <1>3, Known DEF Memory
<1>5. SInv' /\ Registry!Answer(p, op[p].value, 1)
  BY <1>1, <1>2, <1>4, Returns DEF InInit
<1>6. TableOf(app_name', data') = [TableOf(app_name, data) EXCEPT ![p] = data'[i[p]]]
  <2>1. app_name'[i[p]] = p /\ app_name[i[p]] = p
    BY <1>1, <1>2
  <2>2. \A t \in Slot \ {i[p]} : app_name'[t] = app_name[t] /\ data'[t] = data[t]
    BY <1>2, <1>3
  <2>3. i[p] \in Slot
    BY <1>1
  <2> QED BY <2>1, <2>2, <2>3, TablePut, DistinctNames
<1>7. Table' = [Table EXCEPT ![p] = op[p].value]
  BY <1>3, <1>6, TableIs
<1>8. Table[p] # None
  <2>1. Table[p] = data[i[p]]
    BY <1>1, TableAt, TableIs, DistinctNames
  <2> QED BY <1>1, <2>1, Known, ValueAssumption DEF Memory
<1>9. Registry!Set(p)
  BY <1>1, <1>5, <1>7, <1>8, Asks DEF Registry!Set, Registry!Pending, Registry!Stored
<1> QED BY <1>5, <1>9 DEF Good, Registry!Next

(* A set that finds no free slot: every slot has an application's name.    *)
LEMMA ScanFailsGood == ASSUME SInv, IInv', Ids', NEW p \in App, OthersStay(p), ScanFails(p) PROVE Good
<1>1. /\ pc[p] = "scan" /\ op[p].call = "set" /\ op[p].ret = None /\ op[p].value \in Value
      /\ \A s \in Slot : app_name[s] # Null /\ app_name[s] # p
  <2>1. i[p] > Size
    BY DEF ScanFails, Past, Here
  <2>2. \A s \in Slot : s < i[p]
    BY <2>1, Known, SizeAssumption DEF Slot
  <2> QED BY <2>2, Known DEF ScanFails, At, Calls, Place, SetPlace, IInv, Absent
<1>2. /\ app_name' = app_name /\ init_flag' = init_flag /\ clash' = clash /\ out' = out /\ pc'[p] = "return"
      /\ data' = data /\ Answer(p, op[p].value, 1)
  BY Known, GotoIs DEF ScanFails, segment
<1>3. SInv' /\ Registry!Answer(p, op[p].value, 1)
  BY <1>1, <1>2, Known, Returns DEF InInit, Memory
<1>4. Table' = Table
  BY <1>2, TableStays
<1>5. \A s \in Slot : app_name[s] \in App
  <2> SUFFICES ASSUME NEW s \in Slot PROVE app_name[s] \in App
    OBVIOUS
  <2>1. init_flag = 1 /\ app_name[s] # None /\ app_name[s] \in Name
    BY <1>1, FlagSet DEF InInit, SInv, IInv, NoRawSlot, Types
  <2>2. app_name[s] # Torn
    BY <1>1, OthersIdle, NotTorn
  <2> QED BY <1>1, <2>1, <2>2 DEF Name
<1>6. NamedSlots(app_name) = Slot
  BY <1>5 DEF NamedSlots
<1>7. Registry!Stored = {a \in App : TableOf(app_name, data)[a] # None}
  BY TableIs DEF Registry!Stored
<1>8. Cardinality(Registry!Stored) = Size
  BY <1>6, <1>7, Known, DistinctNames, StoredCount, SlotSubset DEF Memory
<1>9. p \notin Registry!Stored
  BY <1>1, <1>7, TableAt, DistinctNames
<1>10. Registry!SetWhenFull(p)
  BY <1>1, <1>3, <1>4, <1>8, <1>9, Asks, SameCount, SizeAssumption DEF Registry!SetWhenFull, Registry!Pending
<1> QED BY <1>3, <1>10 DEF Good, Registry!Next

(* The data go into a slot nobody has a name in.                           *)
LEMMA NewDataGood == ASSUME SInv, IInv', Ids', NEW p \in App, OthersStay(p), NewData(p) PROVE Good
<1>1. /\ pc[p] = "new_data" /\ i[p] \in Slot /\ op[p].call = "set" /\ app_name[i[p]] = Null
      /\ pc'[p] = "name_begin"
  BY Known, GotoIs DEF NewData, At, Calls, Place, SetPlace
<1>2. /\ app_name' = app_name /\ init_flag' = init_flag /\ op' = op /\ clash' = clash /\ out' = out /\ i' = i
      /\ data' = [data EXCEPT ![i[p]] = op[p].value]
  BY DEF NewData, Here
<1>3. data'[i[p]] = op[p].value /\ \A s \in Slot : app_name[s] \in App => data'[s] = data[s]
  BY <1>1, <1>2, NameAssumption DEF SInv, Ids
<1>4. Calls(p)' /\ Copies(p)'
  BY <1>1, <1>2, CallsStay DEF SetPlace, GetPlace, AllPlace, Copies
<1>5. Place(p)'
  BY <1>1, <1>2, <1>3 DEF Place, GetPlace, AllPlace
<1>6. Memory'
  BY <1>1, <1>2, <1>3, Known, MemoryStays DEF InInit, Memory
<1>7. SInv'
  BY <1>1, <1>2, <1>4, <1>5, <1>6, OthersIdle, OneSteps DEF SInv, Rest, InInit
<1>8. Table' = Table /\ VisibleOp' = VisibleOp
  BY <1>2, <1>3, TableStays, VisIs
<1> QED BY <1>7, <1>8 DEF Good

(* strcpy with nobody else about: torn, then the name.                     *)
LEMMA LoneCopyBegin ==
  ASSUME SInv, NEW p \in App, pc[p] # "idle", i[p] \in Slot, NEW v \in Name, CopyBegin(p, i[p], v)
  PROVE  /\ app_name'[i[p]] = IF app_name[i[p]] = v THEN v ELSE Torn
         /\ \A s \in Slot \ {i[p]} : app_name'[s] = app_name[s]
         /\ \A q \in App : ~clash'[q]
<1> DEFINE others == {q \in App \ {p} : pc[q] \in Copying /\ Here(q) = i[p] /\ Copied(q) # v}
<1>1. others = {}
  BY OthersIdle DEF Copying
<1>2. clash' = [q \in App |-> IF q = p THEN others # {} ELSE clash[q] \/ q \in others]
  BY DEF CopyBegin
<1>3. \A q \in App : ~clash[q]
  BY DEF SInv, Rest
<1>4. \A q \in App : ~clash'[q]
  BY <1>1, <1>2, <1>3
<1> QED BY <1>4 DEF CopyBegin, SInv, IInv, Types

LEMMA LoneCopyEnd ==
  ASSUME SInv, NEW p \in App, i[p] \in Slot, NEW v \in Name, CopyEnd(p, i[p], v)
  PROVE  /\ app_name'[i[p]] = v
         /\ \A s \in Slot \ {i[p]} : app_name'[s] = app_name[s]
         /\ \A q \in App : ~clash'[q]
<1>1. \A q \in App : ~clash[q]
  BY DEF SInv, Rest
<1>2. app_name' = [app_name EXCEPT ![i[p]] = v] /\ clash' = [clash EXCEPT ![p] = FALSE]
  BY <1>1 DEF CopyEnd
<1>3. \A q \in App : ~clash'[q]
  BY <1>1, <1>2
<1> QED BY <1>2, <1>3 DEF SInv, IInv, Types

LEMMA NameBeginGood == ASSUME SInv, IInv', Ids', NEW p \in App, OthersStay(p), NameBegin(p) PROVE Good
<1>1. /\ pc[p] = "name_begin" /\ i[p] \in Slot /\ op[p].call = "set" /\ app_name[i[p]] = Null
      /\ data[i[p]] = op[p].value /\ pc'[p] = "name_end"
  BY Known, GotoIs DEF NameBegin, At, Calls, Place, SetPlace
<1>2. /\ data' = data /\ init_flag' = init_flag /\ op' = op /\ out' = out /\ i' = i
  BY DEF NameBegin
<1>3. /\ app_name'[i[p]] = Torn /\ \A s \in Slot \ {i[p]} : app_name'[s] = app_name[s]
      /\ \A q \in App : ~clash'[q]
  <2>1. p \in Name /\ Null # p
    BY NameAssumption DEF Name
  <2> QED BY <1>1, <2>1, LoneCopyBegin DEF NameBegin, Here
<1>4. Null \notin App /\ Torn \notin App
  BY NameAssumption
<1>5. Calls(p)' /\ Copies(p)'
  BY <1>1, <1>2, CallsStay DEF SetPlace, GetPlace, AllPlace, Copies
<1>6. Place(p)'
  BY <1>1, <1>2, <1>3 DEF Place, GetPlace, AllPlace
<1>7. Memory'
  <2>1. init_flag = 1
    BY <1>1, FlagSet DEF InInit
  <2>2. \A q \in App \ {p} : pc'[q] = "idle"
    BY <1>1, OthersIdle DEF OthersStay
  <2>3. \A s \in Slot : app_name[s] # Torn
    BY <1>1, OthersIdle, NotTorn
  <2>4. \A s \in Slot : app_name'[s] = Torn => s = i[p]
    BY <1>3, <2>3
  <2>5. \A s \in Slot : app_name'[s] \in App => data'[s] \in Value
    BY <1>2, <1>3, <1>4, Known DEF Memory
  <2> QED BY <1>1, <1>2, <2>1, <2>2, <2>4, <2>5 DEF Memory, InInit
<1>8. SInv'
  BY <1>1, <1>2, <1>3, <1>5, <1>6, <1>7, OthersIdle, OneSteps DEF InInit
<1>9. Table' = Table /\ VisibleOp' = VisibleOp
  BY <1>1, <1>2, <1>3, <1>4, TableStays, VisIs
<1> QED BY <1>8, <1>9 DEF Good

(* The end of the strcpy is the moment the set happens.                    *)
LEMMA NameEndGood == ASSUME SInv, IInv', Ids', NEW p \in App, OthersStay(p), NameEnd(p) PROVE Good
<1>1. /\ pc[p] = "name_end" /\ i[p] \in Slot /\ op[p].call = "set" /\ op[p].ret = None /\ app_name[i[p]] = Torn
      /\ data[i[p]] = op[p].value /\ op[p].value \in Value /\ pc'[p] = "name_id"
  BY Known, GotoIs DEF NameEnd, At, Calls, Place, SetPlace
<1>2. /\ data' = data /\ init_flag' = init_flag /\ out' = out /\ i' = i /\ Answer(p, op[p].value, 1)
  BY DEF NameEnd
<1>3. /\ app_name'[i[p]] = p /\ \A s \in Slot \ {i[p]} : app_name'[s] = app_name[s]
      /\ \A q \in App : ~clash'[q]
  <2>1. p \in Name
    BY DEF Name
  <2> QED BY <1>1, <2>1, LoneCopyEnd DEF NameEnd, Here
<1>4. Torn \notin App
  BY NameAssumption
<1>5. /\ Registry!Answer(p, op[p].value, 1)
      /\ IsOp(op'[p]) /\ op'[p].call = op[p].call /\ op'[p].key = op[p].key /\ op'[p].value = op[p].value
      /\ op'[p].ret = 1
  BY <1>1, <1>2, Answers
<1>6. Calls(p)' /\ Place(p)' /\ Copies(p)'
  BY <1>1, <1>2, <1>5, Known DEF Calls, Place, Copies, SetPlace, GetPlace, AllPlace
<1>7. Memory'
  <2>1. init_flag = 1
    BY <1>1, FlagSet DEF InInit
  <2>2. \A q \in App \ {p} : pc[q] = "idle" /\ pc'[q] = "idle"
    BY <1>1, OthersIdle DEF OthersStay
  <2>3. \A s \in Slot : app_name[s] = Torn => s = i[p]
    BY <2>2, Known DEF Memory
  <2>4. \A s \in Slot : app_name'[s] # Torn
    BY <1>3, <1>4, <2>3
  <2>5. \A s \in Slot : app_name'[s] \in App => data'[s] \in Value
    BY <1>1, <1>2, <1>3, Known DEF Memory
  <2> QED BY <1>1, <1>2, <2>1, <2>2, <2>4, <2>5 DEF Memory, InInit
<1>8. SInv'
  BY <1>1, <1>2, <1>3, <1>6, <1>7, OthersIdle, OneSteps DEF InInit
<1>9. TableOf(app_name', data') = [TableOf(app_name, data) EXCEPT ![p] = data'[i[p]]]
  BY <1>1, <1>2, <1>3, <1>4, TablePut, DistinctNames
<1>10. Table' = [Table EXCEPT ![p] = op[p].value]
  BY <1>1, <1>2, <1>9, TableIs
<1>11. Cardinality(Registry!Stored) < Size
  <2>1. i[p] \notin NamedSlots(app_name) /\ NamedSlots(app_name) \in SUBSET Slot
    BY <1>1, <1>4 DEF NamedSlots
  <2>2. Cardinality(NamedSlots(app_name)) < Size
    BY <1>1, <2>1, SlotSubset, SizeAssumption
  <2>3. Registry!Stored = {a \in App : TableOf(app_name, data)[a] # None}
    BY TableIs DEF Registry!Stored
  <2> QED BY <2>2, <2>3, Known, DistinctNames, StoredCount DEF Memory
<1>12. Registry!Set(p)
  BY <1>1, <1>5, <1>10, <1>11, Asks, SameCount DEF Registry!Set, Registry!Pending
<1> QED BY <1>8, <1>12 DEF Good, Registry!Next

LEMMA GetDataGood == ASSUME SInv, IInv', Ids', NEW p \in App, OthersStay(p), GetData(p) PROVE Good
<1>1. /\ pc[p] = "get_data" /\ i[p] \in Slot /\ op[p].call = "get" /\ op[p].ret = None /\ op[p].key \in App
      /\ app_name[i[p]] = op[p].key /\ op[p].value = op[p].key
  BY Known DEF GetData, At, Calls, Place, GetPlace
<1>2. /\ app_name' = app_name /\ init_flag' = init_flag /\ clash' = clash /\ out' = out /\ pc'[p] = "return"
      /\ data' = data /\ Answer(p, <<op[p].key, data[i[p]]>>, 1)
  BY <1>1, Known, GotoIs DEF GetData, segment, Here
<1>3. SInv' /\ Registry!Answer(p, <<op[p].key, data[i[p]]>>, 1)
  BY <1>1, <1>2, Known, Returns DEF InInit, Memory
<1>4. Table' = Table
  BY <1>2, TableStays
<1>5. Table[op[p].key] = data[i[p]] /\ data[i[p]] # None
  BY <1>1, Known, TableAt, TableIs, DistinctNames, ValueAssumption DEF Memory
<1>6. Registry!Get(p)
  BY <1>1, <1>3, <1>4, <1>5, Asks DEF Registry!Get, Registry!Pending, Registry!Stored
<1> QED BY <1>3, <1>6 DEF Good, Registry!Next

LEMMA AllDataGood == ASSUME SInv, IInv', Ids', NEW p \in App, OthersStay(p), AllData(p) PROVE Good
<1>1. /\ pc[p] = "all_data" /\ i[p] \in Slot /\ op[p].call = "get_all" /\ op[p].ret = None
      /\ app_name[i[p]] \in App /\ op[p].value = app_name[i[p]]
  BY Known DEF AllData, At, Calls, Place, AllPlace
<1>2. /\ app_name' = app_name /\ data' = data /\ init_flag' = init_flag /\ clash' = clash
      /\ pc'[p] = "all" /\ i'[p] = i[p] + 1
      /\ out' = [out EXCEPT ![p] = Append(out[p], Entry(i[p]))] /\ op' = [op EXCEPT ![p].value = None]
  BY <1>1, Known, GotoSlotIs DEF AllData, segment, Here, Entry
<1>3. /\ op'[p] = [call |-> op[p].call, key |-> op[p].key, value |-> None, ret |-> op[p].ret]
      /\ \A q \in App \ {p} : op'[q] = op[q]
  BY <1>2, Known, ValueIs DEF Calls
<1>4. op'[p].call = "get_all" /\ op'[p].key = op[p].key /\ op'[p].value = None /\ op'[p].ret = None /\ IsOp(op'[p])
  BY <1>1, <1>3 DEF IsOp
<1>5. Calls(p)' /\ Place(p)'
  BY <1>2, <1>4 DEF Calls, Place, SetPlace, GetPlace, AllPlace
<1>6. /\ out'[p] = Append(out[p], Entry(i[p])) /\ \A q \in App \ {p} : out'[q] = out[q]
  BY <1>2 DEF SInv, Ids
<1>7. Passed(p)' = Passed(p) \cup {i[p]} /\ i[p] \notin Passed(p)
  <2>1. \A s \in Slot : s < i[p] + 1 <=> s < i[p] \/ s = i[p]
    BY <1>1 DEF Slot
  <2>2. ~(i[p] < i[p])
    BY <1>1 DEF Slot
  <2> QED BY <1>1, <1>2, <2>1, <2>2 DEF Passed, NamedSlots
<1>8. /\ out[p] \in Seq(App \X Value) /\ Len(out[p]) = Cardinality(Passed(p))
      /\ {out[p][k] : k \in 1..Len(out[p])} = {Entry(s) : s \in Passed(p)}
  BY <1>1, Known DEF Copies, AllPlace
<1>9. Entry(i[p]) \in App \X Value
  BY <1>1, Known DEF Entry, Memory
<1>10. /\ out'[p] \in Seq(App \X Value) /\ Len(out'[p]) = Len(out[p]) + 1
       /\ {out'[p][k] : k \in 1..Len(out'[p])} = {out[p][k] : k \in 1..Len(out[p])} \cup {Entry(i[p])}
  <2> DEFINE e == Entry(i[p])  o == out[p]
  <2>1. o \in Seq(App \X Value) /\ e \in App \X Value /\ out'[p] = Append(o, e)
    BY <1>6, <1>8, <1>9
  <2> HIDE DEF e, o
  <2>2. /\ Append(o, e) \in Seq(App \X Value) /\ Len(Append(o, e)) = Len(o) + 1 /\ Len(o) \in Nat
        /\ Append(o, e)[Len(o) + 1] = e
        /\ \A k \in 1..Len(o) : Append(o, e)[k] = o[k]
    BY <2>1
  <2>3. \A k : k \in 1..(Len(o) + 1) <=> k \in 1..Len(o) \/ k = Len(o) + 1
    BY <2>2
  <2>4. {Append(o, e)[k] : k \in 1..(Len(o) + 1)} = {o[k] : k \in 1..Len(o)} \cup {e}
    BY <2>2, <2>3
  <2> QED BY <2>1, <2>2, <2>4 DEF e, o
<1>11. Cardinality(Passed(p)') = Cardinality(Passed(p)) + 1
  <2>1. IsFiniteSet(Passed(p))
    <3>1. Passed(p) \in SUBSET Slot
      BY DEF Passed, NamedSlots
    <3> QED BY <3>1, SlotSubset
  <2> QED BY <1>7, <2>1, FS_AddElement
<1>12. Copies(p)'
  <2>1. \A s : Entry(s)' = Entry(s)
    BY <1>2 DEF Entry
  <2>2. {Entry(s) : s \in Passed(p)}' = {Entry(s) : s \in Passed(p)} \cup {Entry(i[p])}
    BY <1>7, <2>1
  <2> QED BY <1>8, <1>10, <1>11, <2>2 DEF Copies
<1>13. Memory'
  BY <1>1, <1>2, Known, MemoryStays DEF InInit, Memory
<1>14. SInv'
  BY <1>1, <1>2, <1>5, <1>6, <1>12, <1>13, OthersIdle, OneSteps DEF SInv, Rest, InInit
<1>15. Vis(op'[p]) = Vis(op[p])
  BY <1>1, <1>3, <1>4, Known, VisOf DEF Calls
<1> QED BY <1>2, <1>3, <1>14, <1>15, OpStays, TableStays DEF Good

(* get_all has copied the entry of every application, each once.           *)
LEMMA AllDoneGood == ASSUME SInv, IInv', Ids', NEW p \in App, OthersStay(p), AllDone(p) PROVE Good
<1> DEFINE entries == {out[p][k] : k \in 1..Len(out[p])}
<1>1. pc[p] = "all" /\ op[p].call = "get_all" /\ op[p].ret = None
  BY Known DEF AllDone, At, Calls, AllPlace
<1>2. /\ app_name' = app_name /\ init_flag' = init_flag /\ clash' = clash /\ out' = out /\ pc'[p] = "return"
      /\ data' = data /\ Answer(p, entries, Len(out[p]))
  BY Known, GotoIs DEF AllDone, segment
<1>3. Passed(p) = NamedSlots(app_name)
  <2>1. i[p] > Size
    BY DEF AllDone, Past, Here
  <2>2. \A s \in Slot : s < i[p]
    BY <2>1, Known, SizeAssumption DEF Slot
  <2> QED BY <2>2 DEF Passed, NamedSlots
<1>4. /\ Len(out[p]) = Cardinality(NamedSlots(app_name)) /\ Len(out[p]) \in Nat
      /\ entries = {Entry(s) : s \in NamedSlots(app_name)}
  <2>1. /\ out[p] \in Seq(App \X Value) /\ Len(out[p]) = Cardinality(Passed(p))
        /\ entries = {Entry(s) : s \in Passed(p)}
    BY <1>1, Known DEF Copies, AllPlace
  <2> HIDE DEF entries
  <2>2. Len(out[p]) \in Nat
    BY <2>1
  <2> QED BY <1>3, <2>1, <2>2
<1>5. SInv' /\ Registry!Answer(p, entries, Len(out[p]))
  <2> HIDE DEF entries
  <2> QED BY <1>1, <1>2, <1>4, Known, Returns DEF InInit, Memory
<1>6. Table' = Table
  BY <1>2, TableStays
<1>7. /\ Registry!Stored = {app_name[s] : s \in NamedSlots(app_name)}
      /\ Cardinality(Registry!Stored) = Cardinality(NamedSlots(app_name))
  <2>1. Registry!Stored = {a \in App : TableOf(app_name, data)[a] # None}
    BY TableIs DEF Registry!Stored
  <2>2. Distinct(app_name) /\ \A s \in Slot : app_name[s] \in App => data[s] \in Value
    BY Known, DistinctNames DEF Memory
  <2>3. /\ {a \in App : TableOf(app_name, data)[a] # None} = {app_name[s] : s \in NamedSlots(app_name)}
        /\ Cardinality({a \in App : TableOf(app_name, data)[a] # None}) = Cardinality(NamedSlots(app_name))
    BY <2>2, StoredCount
  <2> QED BY <2>1, <2>3
<1>8. entries = {<<k, Table[k]>> : k \in Registry!Stored}
  <2>1. \A s \in NamedSlots(app_name) : Table[app_name[s]] = data[s]
    BY TableAt, TableIs, DistinctNames DEF NamedSlots
  <2>2. \A s \in NamedSlots(app_name) : Entry(s) = <<app_name[s], Table[app_name[s]]>>
    BY <2>1 DEF Entry
  <2> HIDE DEF entries
  <2> QED BY <1>4, <1>7, <2>2
<1>9. Registry!GetAll(p)
  <2> HIDE DEF entries
  <2> QED BY <1>1, <1>4, <1>5, <1>6, <1>7, <1>8, Asks, SameCount DEF Registry!GetAll, Registry!Pending
<1> QED BY <1>5, <1>9 DEF Good, Registry!Next

-----------------------------------------------------------------------------
(* Before the table is initialised it is empty, whatever is in its slots.  *)
LEMMA Initialising ==
  ASSUME SInv, NEW p \in App, InInit(p)
  PROVE  init_flag = 0 /\ (\A q \in App \ {p} : pc[q] = "idle") /\ (\A s \in Slot : app_name[s] \notin App) /\ out[p] = <<>>
<1>1. init_flag \in {0, 1}
  BY DEF SInv, IInv, Types
<1> QED BY <1>1, OthersIdle DEF SInv, Memory, Rest, InInit

(* Its three steps at a slot.                                              *)
LEMMA WipeGood ==
  ASSUME SInv, IInv', Ids', NEW p \in App, OthersStay(p), InInit(p),
         pc'[p] \in {"init_zero", "init_begin", "init_end"}, pc'[p] # "init_zero" => i'[p] \in Slot,
         init_flag' = init_flag, op' = op, out' = out, \A q \in App : ~clash'[q],
         \A s \in Slot : app_name'[s] \notin App /\ (app_name'[s] = Torn => pc'[p] = "init_end" /\ s = i'[p])
  PROVE  Good
<1>1. init_flag = 0 /\ (\A q \in App \ {p} : pc[q] = "idle" /\ pc'[q] = "idle") /\ out[p] = <<>> /\ pc[p] # "idle"
  BY Initialising DEF OthersStay, InInit
<1>2. Calls(p)' /\ Copies(p)'
  BY <1>1, CallsStay DEF SetPlace, GetPlace, AllPlace, Copies, InInit
<1>3. Place(p)'
  BY DEF Place, GetPlace, AllPlace
<1>4. Memory'
  BY <1>1 DEF Memory, InInit
<1>5. SInv'
  BY <1>1, <1>2, <1>3, <1>4, OneSteps
<1>6. \A s \in Slot : app_name[s] \notin App
  BY Initialising
<1> QED BY <1>5, <1>6, TableStays, VisIs DEF Good

LEMMA InitZeroGood == ASSUME SInv, IInv', Ids', NEW p \in App, OthersStay(p), InitZero(p) PROVE Good
<1>1. pc[p] = "init_zero" /\ i[p] \in Slot /\ pc'[p] = "init_begin" /\ i' = i
  BY Known, GotoIs, SizeAssumption DEF InitZero, At, Past, Here
<1>2. init_flag' = init_flag /\ op' = op /\ out' = out /\ clash' = clash /\ app_name' = app_name
  BY DEF InitZero
<1>3. \A s \in Slot : app_name[s] \notin App /\ app_name[s] # Torn
  BY <1>1, Initialising, NotTorn DEF InInit
<1>4. \A q \in App : ~clash'[q]
  BY <1>2 DEF SInv, Rest
<1> QED BY <1>1, <1>2, <1>3, <1>4, WipeGood DEF InInit

LEMMA InitBeginGood == ASSUME SInv, IInv', Ids', NEW p \in App, OthersStay(p), InitBegin(p) PROVE Good
<1>1. pc[p] = "init_begin" /\ i[p] \in Slot /\ pc'[p] = "init_end" /\ i' = i
  BY Known, GotoIs DEF InitBegin, At, Place, GetPlace, AllPlace
<1>2. init_flag' = init_flag /\ op' = op /\ out' = out
  BY DEF InitBegin
<1>3. /\ app_name'[i[p]] = IF app_name[i[p]] = Null THEN Null ELSE Torn
      /\ \A s \in Slot \ {i[p]} : app_name'[s] = app_name[s]
      /\ \A q \in App : ~clash'[q]
  <2>1. Null \in Name
    BY DEF Name
  <2> QED BY <1>1, <2>1, LoneCopyBegin DEF InitBegin, Here
<1>4. \A s \in Slot : app_name[s] \notin App /\ app_name[s] # Torn
  BY <1>1, Initialising, NotTorn DEF InInit
<1>5. Null \notin App /\ Torn \notin App
  BY NameAssumption
<1> QED BY <1>1, <1>2, <1>3, <1>4, <1>5, WipeGood DEF InInit

LEMMA InitEndGood == ASSUME SInv, IInv', Ids', NEW p \in App, OthersStay(p), InitEnd(p) PROVE Good
<1>1. pc[p] = "init_end" /\ i[p] \in Slot /\ pc'[p] = "init_zero"
  BY Known, GotoSlotIs DEF InitEnd, At, Place, GetPlace, AllPlace
<1>2. init_flag' = init_flag /\ op' = op /\ out' = out
  BY DEF InitEnd
<1>3. /\ app_name'[i[p]] = Null
      /\ \A s \in Slot \ {i[p]} : app_name'[s] = app_name[s]
      /\ \A q \in App : ~clash'[q]
  <2>1. Null \in Name
    BY DEF Name
  <2> QED BY <1>1, <2>1, LoneCopyEnd DEF InitEnd, Here
<1>4. (\A s \in Slot : app_name[s] \notin App) /\ \A q \in App \ {p} : pc[q] = "idle"
  BY <1>1, Initialising DEF InInit
<1>5. \A s \in Slot : app_name[s] = Torn => s = i[p]
  BY <1>4, Known DEF Memory
<1>6. Null \notin App /\ Torn # Null
  BY NameAssumption
<1> QED BY <1>1, <1>2, <1>3, <1>4, <1>5, <1>6, WipeGood DEF InInit

(* A search of the whole table begins.                                     *)
LEMMA FirstSlot ==
  ASSUME NEW p \in App, i'[p] = 1, out'[p] = <<>>, pc'[p] \in {"find", "all"}
  PROVE  Place(p)' /\ Copies(p)'
<1>1. \A s \in Slot : ~(s < 1)
  BY DEF Slot
<1>2. Place(p)'
  BY <1>1 DEF Place, GetPlace, AllPlace
<1>3. Passed(p)' = {}
  BY <1>1 DEF Passed, NamedSlots
<1>4. {Entry(s) : s \in Passed(p)}' = {}
  BY <1>3
<1>5. Cardinality(Passed(p)') = 0
  BY <1>3, FS_EmptySet
<1>6. out'[p] \in Seq(App \X Value) /\ Len(out'[p]) = 0 /\ {out'[p][k] : k \in 1..Len(out'[p])} = {}
  <2>1. 1..0 = {} /\ Len(<<>>) = 0 /\ <<>> \in Seq(App \X Value)
    OBVIOUS
  <2> QED BY <2>1
<1> QED BY <1>2, <1>4, <1>5, <1>6 DEF Copies

LEMMA InitDoneGood == ASSUME SInv, IInv', Ids', NEW p \in App, OthersStay(p), InitDone(p) PROVE Good
<1>1. /\ pc[p] = "init_zero" /\ i'[p] = 1 /\ pc'[p] = FirstLabel(op[p].call)
      /\ op[p].call \in {"set", "get", "get_all"}
  BY Known, GotoSlotIs DEF InitDone, At, Calls
<1>2. /\ app_name' = app_name /\ init_flag' = 1 /\ op' = op /\ clash' = clash /\ out' = out
  BY DEF InitDone
<1>3. pc'[p] = IF op[p].call = "get_all" THEN "all" ELSE "find"
  BY <1>1 DEF FirstLabel
<1>4. /\ \A q \in App \ {p} : pc[q] = "idle" /\ pc'[q] = "idle"
      /\ \A s \in Slot : app_name[s] \notin App /\ app_name[s] # Torn
      /\ out[p] = <<>>
  BY <1>1, Initialising, NotTorn DEF InInit, OthersStay
<1>5. Place(p)' /\ Copies(p)'
  BY <1>1, <1>2, <1>3, <1>4, FirstSlot
<1>6. Calls(p)'
  BY <1>1, <1>2, <1>3, CallsStay DEF SetPlace, GetPlace, AllPlace
<1>7. Memory'
  BY <1>2, <1>3, <1>4 DEF Memory, InInit
<1>8. SInv'
  BY <1>1, <1>2, <1>3, <1>4, <1>5, <1>6, <1>7, OneSteps DEF SInv, Rest
<1> QED BY <1>2, <1>4, <1>8, TableStays, VisIs DEF Good

-----------------------------------------------------------------------------
LEMMA IdleOp == IsOp(Idle) /\ Idle.call = "none" /\ Idle.ret = None /\ Vis(Idle) = Idle
<1>1. IsOp(Idle) /\ Idle.call = "none" /\ Idle.ret = None /\ Idle.key = None
  BY DEF IsOp, Idle
<1> QED BY <1>1, VisOf DEF Idle

LEMMA ReturnGood == ASSUME SInv, IInv', Ids', NEW p \in App, OthersStay(p), Return(p) PROVE Good
<1>1. pc[p] = "return" /\ op[p].ret \in Nat /\ pc'[p] = "idle"
  BY Known, GotoSlotIs DEF Return, Leave, At, Calls
<1>2. /\ app_name' = app_name /\ data' = data /\ init_flag' = init_flag /\ clash' = clash
      /\ op' = [op EXCEPT ![p] = Idle] /\ out' = [out EXCEPT ![p] = <<>>]
  BY DEF Return, Leave, segment
<1>3. /\ op'[p] = Idle /\ out'[p] = <<>>
      /\ \A q \in App \ {p} : op'[q] = op[q] /\ out'[q] = out[q]
  BY <1>2, Known DEF SInv, Ids, Types
<1>4. Calls(p)' /\ Place(p)' /\ Copies(p)'
  BY <1>1, <1>3, IdleOp DEF Calls, Place, Copies, SetPlace, GetPlace, AllPlace
<1>5. Memory'
  <2>1. init_flag = 1 /\ \A s \in Slot : app_name[s] # Torn
    BY <1>1, OthersIdle, FlagSet, NotTorn DEF InInit
  <2>2. \A q \in App : ~InInit(q)'
    BY <1>1, OthersIdle DEF InInit, OthersStay
  <2> QED BY <1>2, <2>1, <2>2, Known DEF Memory
<1>6. SInv'
  BY <1>1, <1>2, <1>3, <1>4, <1>5, OthersIdle, OneSteps DEF SInv, Rest
<1>7. Table' = Table
  BY <1>2, TableStays
<1>8. VisibleOp' = [VisibleOp EXCEPT ![p] = Idle]
  BY <1>3, VisIs, IdleOp
<1>9. VisibleOp[p].ret # None
  <2>1. op[p].ret # None
    BY <1>1, ValueAssumption
  <2>2. VisibleOp[p] = op[p]
    BY <2>1, VisIs DEF Vis
  <2> QED BY <2>1, <2>2
<1>10. Registry!Return(p)
  BY <1>7, <1>8, <1>9 DEF Registry!Return, Registry!Idle, Idle
<1> QED BY <1>6, <1>10 DEF Good, Registry!Next

(* A call begins, with no other under way.                                 *)
LEMMA EnterGood ==
  ASSUME SInv, IInv', Ids', NEW p \in App, OthersStay(p), Serial, NEW o, Enter(p, o),
         IsOp(o), o.ret = None, o.call \in {"set", "get", "get_all"},
         o.call = "set" => o.key = p /\ o.value \in Value, o.call = "get" => o.key \in App
  PROVE  SInv' /\ Table' = Table /\ VisibleOp[p] = Idle /\ VisibleOp' = [VisibleOp EXCEPT ![p] = Vis(o)]
<1>1. (\A q \in App : pc[q] = "idle") /\ op[p] = Idle /\ out[p] = <<>>
  BY Known DEF Enter, At, Rest
<1>2. /\ app_name' = app_name /\ data' = data /\ init_flag' = init_flag /\ clash' = clash /\ out' = out
      /\ i'[p] = 1 /\ pc'[p] = (IF init_flag = 0 THEN "init_zero" ELSE FirstLabel(o.call))
      /\ op' = [op EXCEPT ![p] = o]
  BY Known, GotoSlotIs DEF Enter, segment
<1>3. op'[p] = o /\ \A q \in App \ {p} : op'[q] = op[q]
  BY <1>2, Known DEF Types
<1>4. /\ init_flag \in {0, 1}
      /\ init_flag = 0 => pc'[p] = "init_zero"
      /\ init_flag = 1 => pc'[p] = IF o.call = "get_all" THEN "all" ELSE "find"
  BY <1>2, Known DEF FirstLabel, Types
<1>5. Calls(p)'
  BY <1>3, <1>4 DEF Calls, SetPlace, GetPlace, AllPlace
<1>6. Place(p)' /\ Copies(p)'
  <2>1. CASE init_flag = 0
    BY <1>4, <2>1 DEF Place, Copies, GetPlace, AllPlace
  <2>2. CASE init_flag = 1
    BY <1>1, <1>2, <1>4, <2>2, FirstSlot
  <2> QED BY <1>4, <2>1, <2>2
<1>7. Memory'
  <2>1. \A q \in App \ {p} : pc'[q] = "idle"
    BY <1>1 DEF OthersStay
  <2>2. \A s \in Slot : app_name[s] # Torn
    BY <1>1, NotTorn
  <2>3. init_flag = 1 => ~InInit(p)'
    BY <1>4 DEF InInit
  <2>4. init_flag = 0 => InInit(p)'
    BY <1>4 DEF InInit
  <2> QED BY <1>2, <2>1, <2>2, <2>3, <2>4, Known DEF Memory, InInit
<1>8. SInv'
  <2>1. pc'[p] # "idle"
    BY <1>4
  <2> QED BY <1>1, <1>2, <1>5, <1>6, <1>7, <2>1, OneSteps DEF SInv, Rest
<1>9. Table' = Table
  BY <1>2, TableStays
<1>10. VisibleOp[p] = Idle /\ VisibleOp' = [VisibleOp EXCEPT ![p] = Vis(o)]
  BY <1>1, <1>3, VisIs, IdleOp
<1> QED BY <1>8, <1>9, <1>10

LEMMA AskedIs ==
  ASSUME NEW c, NEW k, NEW v
  PROVE  /\ IsOp(Asked(c, k, v)) /\ Asked(c, k, v).call = c /\ Asked(c, k, v).key = k
         /\ Asked(c, k, v).value = v /\ Asked(c, k, v).ret = None
         /\ Registry!Asked(c, k, v) = Asked(c, k, v)
BY DEF IsOp, Asked, Registry!Asked

LEMMA CallGood ==
  ASSUME SInv, IInv', Ids', NEW p \in App, OthersStay(p), Serial, CallSet(p) \/ CallGet(p) \/ CallGetAll(p)
  PROVE  Good
<1>1. CASE CallSet(p)
  <2>1. PICK v \in Value : Enter(p, Asked("set", p, v))
    BY <1>1 DEF CallSet
  <2> DEFINE o == Asked("set", p, v)
  <2>2. IsOp(o) /\ o.ret = None /\ o.call = "set" /\ o.key = p /\ o.value \in Value
    BY AskedIs
  <2>3. Vis(o) = Registry!Asked("set", p, v)
    BY <2>2, AskedIs DEF Vis
  <2>4. Enter(p, o)
    BY <2>1
  <2> HIDE DEF o
  <2>5. SInv' /\ Table' = Table /\ VisibleOp[p] = Idle /\ VisibleOp' = [VisibleOp EXCEPT ![p] = Vis(o)]
    BY <2>2, <2>4, EnterGood
  <2> QED BY <2>3, <2>5 DEF Good, Registry!Next, Registry!Call, Registry!Idle, Idle
<1>2. CASE CallGet(p)
  <2>1. PICK k \in App : Enter(p, Asked("get", k, None))
    BY <1>2 DEF CallGet
  <2> DEFINE o == Asked("get", k, None)
  <2>2. IsOp(o) /\ o.ret = None /\ o.call = "get" /\ o.key = k /\ o.value = None
    BY AskedIs
  <2>3. Vis(o) = Registry!Asked("get", k, None)
    BY <2>2, VisOf DEF Asked, Registry!Asked
  <2>4. Enter(p, o)
    BY <2>1
  <2> HIDE DEF o
  <2>5. SInv' /\ Table' = Table /\ VisibleOp[p] = Idle /\ VisibleOp' = [VisibleOp EXCEPT ![p] = Vis(o)]
    BY <2>2, <2>4, EnterGood
  <2> QED BY <2>3, <2>5 DEF Good, Registry!Next, Registry!Call, Registry!Idle, Idle
<1>3. CASE CallGetAll(p)
  <2> DEFINE o == Asked("get_all", None, None)
  <2>2. IsOp(o) /\ o.ret = None /\ o.call = "get_all" /\ o.key = None /\ o.value = None
    BY AskedIs
  <2>3. Vis(o) = Registry!Asked("get_all", None, None)
    BY <2>2, VisOf DEF Asked, Registry!Asked
  <2>4. Enter(p, o)
    BY <1>3 DEF CallGetAll
  <2> HIDE DEF o
  <2>5. SInv' /\ Table' = Table /\ VisibleOp[p] = Idle /\ VisibleOp' = [VisibleOp EXCEPT ![p] = Vis(o)]
    BY <2>2, <2>4, EnterGood
  <2> QED BY <2>3, <2>5 DEF Good, Registry!Next, Registry!Call, Registry!Idle, Idle
<1> QED BY <1>1, <1>2, <1>3

-----------------------------------------------------------------------------
LEMMA InitTable == Init => SInv /\ Registry!Init
<1> SUFFICES ASSUME Init PROVE SInv /\ Registry!Init
  OBVIOUS
<1>1. IInv
  BY InitInv
<1>2. /\ init_flag = 0 /\ (\A s \in Slot : app_name[s] = None) /\ DOMAIN app_id = Slot /\ DOMAIN data = Slot
      /\ DOMAIN out = App
      /\ \A p \in App : pc[p] = "idle" /\ i[p] = 1 /\ op[p] = Idle /\ out[p] = <<>> /\ ~clash[p]
  BY DEF Init
<1>3. None \notin App /\ Torn # None
  BY NameAssumption
<1>4. Ids /\ Lone /\ Memory
  BY <1>2, <1>3 DEF Ids, Lone, Memory
<1>5. \A p \in App : Rest(p) /\ Calls(p) /\ Place(p) /\ Copies(p)
  BY <1>2, IdleOp DEF Rest, Calls, Place, Copies, SetPlace, GetPlace, AllPlace
<1>6. Table = [a \in App |-> None]
  BY <1>2, <1>3 DEF Table
<1>7. VisibleOp = [a \in App |-> Idle]
  <2>1. \A q \in App : Vis(op[q]) = Idle
    BY <1>2, IdleOp
  <2> QED BY <2>1, VisIs
<1> QED BY <1>1, <1>4, <1>5, <1>6, <1>7 DEF SInv, Registry!Init, Registry!Idle, Idle

LEMMA StepGood ==
  ASSUME SInv, Serial, ~MayCrash, NEW p \in App, CallSet(p) \/ CallGet(p) \/ CallGetAll(p) \/ Step(p) \/ Crash(p)
  PROVE  Good
<1>1. IInv' /\ Ids' /\ OthersStay(p)
  BY StepInv, StepMoves, IdsStay DEF SInv, IInv
<1>2. CASE CallSet(p) \/ CallGet(p) \/ CallGetAll(p)
  BY <1>1, <1>2, CallGood
<1>3. CASE InitStep(p)
  BY <1>1, <1>3, InitZeroGood, InitBeginGood, InitEndGood, InitDoneGood DEF InitStep
<1>4. CASE SetStep(p)
  BY <1>1, <1>4, SetIdGood, FoundDataGood, ScanGood, ScanFailsGood, NewDataGood, NameBeginGood, NameEndGood
     DEF SetStep
<1>5. CASE GetStep(p) \/ AllStep(p)
  BY <1>1, <1>5, MarkGood, ReadIdGood, GetDataGood, AllNextGood, AllDataGood, AllDoneGood DEF GetStep, AllStep
<1>6. CASE Find(p) \/ FindFails(p) \/ Return(p)
  BY <1>1, <1>6, FindGood, FindFailsGood, ReturnGood
<1> QED BY <1>2, <1>3, <1>4, <1>5, <1>6 DEF Step, Crash

LEMMA StutterTable ==
  ASSUME SInv, UNCHANGED vars
  PROVE  SInv' /\ Table' = Table /\ VisibleOp' = VisibleOp
<1>1. UNCHANGED <<init_flag, app_name, app_id, data, pc, i, op, out, clash>>
  BY DEF vars, segment
<1>2. IInv'
  BY StutterInv DEF SInv
<1>3. Ids' /\ Lone' /\ Memory'
  BY <1>1 DEF SInv, Ids, Lone, Memory, InInit
<1>4. \A p \in App : Rest(p)' /\ Calls(p)' /\ Place(p)'
  BY <1>1 DEF SInv, Rest, Calls, Place, InInit
<1>5. ASSUME NEW p \in App PROVE Copies(p)'
  <2>1. Passed(p)' = Passed(p) /\ \A s : Entry(s)' = Entry(s)
    BY <1>1 DEF Passed, NamedSlots, Entry
  <2>2. {Entry(s) : s \in Passed(p)}' = {Entry(s) : s \in Passed(p)}
    BY <2>1
  <2> QED BY <1>1, <2>1, <2>2 DEF SInv, Copies
<1>6. Table' = Table /\ VisibleOp' = VisibleOp
  BY <1>1, TableIs, VisIs
<1> QED BY <1>2, <1>3, <1>4, <1>5, <1>6 DEF SInv

LEMMA NextTable ==
  ASSUME Serial, ~MayCrash
  PROVE  SInv /\ [Next]_vars => SInv' /\ [Registry!Next]_(Registry!vars)
<1>1. ASSUME SInv, [Next]_vars PROVE Good
  <2>1. CASE Next
    BY <1>1, <2>1, StepGood DEF Next
  <2>2. CASE UNCHANGED vars
    BY <1>1, <2>2, StutterTable DEF Good
  <2> QED BY <1>1, <2>1, <2>2
<1> QED BY <1>1 DEF Good, Registry!vars

(* ImplementsRegistry of the serial run: as long as the callers take turns *)
(* and none is killed, every call of mds_shm.c is one atomic operation on  *)
(* a table of Size applications, whatever their number and their data.     *)
THEOREM TurnsAreAtomic == ASSUME Serial, ~MayCrash PROVE Spec => ImplementsRegistry
<1>1. Init => SInv /\ Registry!Init
  BY InitTable
<1>2. SInv /\ [Next]_vars => SInv' /\ [Registry!Next]_(Registry!vars)
  BY NextTable
<1> QED BY <1>1, <1>2, PTL DEF Spec, ImplementsRegistry, Registry!Spec

-----------------------------------------------------------------------------
(* The other half of mds_shm.c, GlobalShm: for any threads, words, values  *)
(* and size of the sockets.                                                *)

LEMMA GlobalInitTypes == GlobalInit => TypeOK
  BY RoomAssumption DEF GlobalInit, TypeOK, Thread, Block, ZeroBlock

(* No step leaves the types.                                               *)
LEMMA GlobalNextTypes == TypeOK /\ [GlobalNext]_globalVars => TypeOK'
<1> SUFFICES ASSUME TypeOK, [GlobalNext]_globalVars PROVE TypeOK'
  OBVIOUS
<1> USE DEF TypeOK
<1>1. ASSUME NEW s \in Setter, Set(s) PROVE TypeOK'
  <2>1. s \in Thread
    BY DEF Thread
  <2>2. CASE Call(s)
    <3>1. \A d \in [Word -> GlobalValue] : d \in Block
      BY DEF Block
    <3>2. QED
      BY <2>1, <2>2, <3>1 DEF Call
  <2>3. CASE SetWord(s)
    <3>1. PICK w \in left[s] : /\ block' = [block EXCEPT ![w] = given[s][w]]
                               /\ left' = [left EXCEPT ![s] = @ \ {w}]
      BY <2>3 DEF SetWord
    <3>2. w \in Word /\ given[s][w] \in GlobalValue \cup {Zero}
      BY <2>1, <3>1 DEF Block
    <3>3. block' \in Block
      BY <3>1, <3>2 DEF Block
    <3>4. left' \in [Thread -> SUBSET Word]
      BY <2>1, <3>1
    <3>5. QED
      BY <2>3, <3>3, <3>4 DEF SetWord
  <2>4. CASE Deliver(s)
    <3>1. PICK l \in rest[s] : /\ notices' = [notices EXCEPT ![l] = IF @ < Room THEN @ + 1 ELSE @]
                               /\ rest' = [rest EXCEPT ![s] = @ \ {l}]
                               /\ missed' = missed \ {l}
      BY <2>4 DEF Deliver
    <3>2. l \in Listener /\ notices[l] \in 0..Room
      BY <3>1
    <3>3. (IF notices[l] < Room THEN notices[l] + 1 ELSE notices[l]) \in 0..Room
      BY <3>2, RoomAssumption
    <3>4. notices' \in [Listener -> 0..Room]
      BY <3>1, <3>2, <3>3
    <3>5. QED
      BY <2>4, <3>1, <3>4 DEF Deliver
  <2>5. CASE SetReturns(s) \/ SendFails(s) \/ Kill(s)
    <3>1. ZeroBlock \in Block
      BY DEF ZeroBlock, Block
    <3>2. LeaveSet(s)
      BY <2>5 DEF SetReturns, SendFails, Kill
    <3>3. missed' \in SUBSET Listener
      BY <2>5 DEF SetReturns, SendFails, Kill
    <3>4. QED
      BY <2>1, <3>1, <3>2, <3>3 DEF LeaveSet
  <2>6. QED
    BY <1>1, <2>2, <2>3, <2>4, <2>5 DEF Set
<1>2. ASSUME NEW l \in Listener, Serve(l) PROVE TypeOK'
  <2>1. l \in Thread /\ notices[l] \in 0..Room
    BY DEF Thread
  <2>2. CASE Receive(l)
    <3>1. notices[l] - 1 \in 0..Room
      BY <2>1, <2>2, RoomAssumption DEF Receive
    <3>2. QED
      BY <2>1, <2>2, <3>1 DEF Receive
  <2>3. CASE GetWord(l)
    <3>1. PICK w \in left[l] : /\ copy' = [copy EXCEPT ![l] = [@ EXCEPT ![w] = block[w]]]
                               /\ left' = [left EXCEPT ![l] = @ \ {w}]
      BY <2>3 DEF GetWord
    <3>2. w \in Word
      BY <2>1, <3>1
    <3>3. [copy[l] EXCEPT ![w] = block[w]] \in Block
      BY <3>2 DEF Block
    <3>4. copy' \in [Listener -> Block]
      BY <3>1, <3>3
    <3>5. left' \in [Thread -> SUBSET Word]
      BY <2>1, <3>1
    <3>6. QED
      BY <2>3, <3>4, <3>5 DEF GetWord
  <2>4. CASE Handled(l)
    BY <2>1, <2>4 DEF Handled
  <2>5. QED
    BY <1>2, <2>2, <2>3, <2>4 DEF Serve
<1>3. CASE UNCHANGED globalVars
  BY <1>3 DEF globalVars
<1>4. QED
  BY <1>1, <1>2, <1>3 DEF GlobalNext

(* A thread that leaves its call has nothing left.                         *)
LEMMA GlobalNextIdle == TypeOK /\ IdleHasNothingLeft /\ [GlobalNext]_globalVars => IdleHasNothingLeft'
<1> SUFFICES ASSUME TypeOK, IdleHasNothingLeft, [GlobalNext]_globalVars,
                    NEW t \in Thread, at'[t] = "idle"
             PROVE  left'[t] = {} /\ (t \in Setter => rest'[t] = {})
  BY DEF IdleHasNothingLeft
<1> USE DEF TypeOK, IdleHasNothingLeft
<1>1. ASSUME NEW s \in Setter, Set(s) PROVE left'[t] = {} /\ (t \in Setter => rest'[t] = {})
  <2>1. s \in Thread
    BY DEF Thread
  <2>2. CASE t = s
    <3>1. CASE Call(s)
      BY <2>1, <2>2, <3>1 DEF Call
    <3>2. CASE SetWord(s)
      BY <2>2, <3>2 DEF SetWord
    <3>3. CASE Deliver(s)
      BY <2>2, <3>3 DEF Deliver
    <3>4. CASE LeaveSet(s)
      BY <2>1, <2>2, <3>4 DEF LeaveSet
    <3>5. QED
      BY <1>1, <3>1, <3>2, <3>3, <3>4 DEF Set, SetReturns, SendFails, Kill
  <2>3. CASE t # s
    <3>1. at'[t] = at[t] /\ left'[t] = left[t] /\ (t \in Setter => rest'[t] = rest[t])
      BY <1>1, <2>3 DEF Set, Call, SetWord, Deliver, SetReturns, SendFails, Kill, LeaveSet
    <3>2. QED
      BY <3>1
  <2>4. QED
    BY <2>2, <2>3
<1>2. ASSUME NEW l \in Listener, Serve(l) PROVE left'[t] = {} /\ (t \in Setter => rest'[t] = {})
  <2>1. l \in Thread /\ l \notin Setter
    BY ThreadAssumption DEF Thread
  <2>2. rest' = rest
    BY <1>2 DEF Serve, Receive, GetWord, Handled
  <2>3. CASE t = l
    BY <1>2, <2>1, <2>3 DEF Serve, Receive, GetWord, Handled
  <2>4. CASE t # l
    <3>1. at'[t] = at[t] /\ left'[t] = left[t]
      BY <1>2, <2>4 DEF Serve, Receive, GetWord, Handled
    <3>2. QED
      BY <2>2, <3>1
  <2>5. QED
    BY <2>3, <2>4
<1>3. CASE UNCHANGED globalVars
  BY <1>3 DEF globalVars
<1>4. QED
  BY <1>1, <1>2, <1>3 DEF GlobalNext

(* A setter that has still to copy has told nobody.                        *)
LEMMA GlobalNextTells == TypeOK /\ TellsAfterwards /\ [GlobalNext]_globalVars => TellsAfterwards'
<1> SUFFICES ASSUME TypeOK, TellsAfterwards, [GlobalNext]_globalVars,
                    NEW t \in Setter, left'[t] # {}
             PROVE  rest'[t] = Listener
  BY DEF TellsAfterwards
<1> USE DEF TypeOK, TellsAfterwards
<1>0. t \in Thread
  BY DEF Thread
<1>1. ASSUME NEW s \in Setter, Set(s) PROVE rest'[t] = Listener
  <2>1. CASE t = s
    <3>1. CASE Call(s)
      BY <2>1, <3>1 DEF Call
    <3>2. CASE SetWord(s)
      BY <1>0, <2>1, <3>2 DEF SetWord
    <3>3. CASE Deliver(s)
      BY <2>1, <3>3 DEF Deliver
    <3>4. CASE LeaveSet(s)
      BY <1>0, <2>1, <3>4 DEF LeaveSet
    <3>5. QED
      BY <1>1, <3>1, <3>2, <3>3, <3>4 DEF Set, SetReturns, SendFails, Kill
  <2>2. CASE t # s
    <3>1. left'[t] = left[t] /\ rest'[t] = rest[t]
      BY <1>0, <1>1, <2>2 DEF Set, Call, SetWord, Deliver, SetReturns, SendFails, Kill, LeaveSet
    <3>2. QED
      BY <3>1
  <2>3. QED
    BY <2>1, <2>2
<1>2. ASSUME NEW l \in Listener, Serve(l) PROVE rest'[t] = Listener
  <2>1. rest' = rest /\ left'[t] = left[t]
    BY <1>0, <1>2, ThreadAssumption DEF Serve, Receive, GetWord, Handled
  <2>2. QED
    BY <2>1
<1>3. CASE UNCHANGED globalVars
  BY <1>3 DEF globalVars
<1>4. QED
  BY <1>1, <1>2, <1>3 DEF GlobalNext

(* A step of a setter leaves every server up to date, to be told or among  *)
(* the missed.                                                             *)
LEMMA SetKeepsCurrent ==
  ASSUME TypeOK, ReadIsCurrent, TellsAfterwards, NEW s \in Setter, Set(s),
         NEW l \in Listener, l \notin missed'
  PROVE  ToBeTold(l)' \/ \A w \in Word \ left'[l] : copy'[l][w] = block'[w]
<1> USE DEF TypeOK
<1>1. s \in Thread /\ l \in Thread /\ l # s
  BY ThreadAssumption DEF Thread
<1>2. copy' = copy /\ left'[l] = left[l]
  BY <1>1 DEF Set, Call, SetWord, Deliver, SetReturns, SendFails, Kill, LeaveSet
<1>3. CASE Call(s)
  BY <1>3 DEF Call, ToBeTold
<1>4. CASE SetWord(s)
  <2>1. rest[s] = Listener /\ rest' = rest
    BY <1>4 DEF SetWord, TellsAfterwards
  <2>2. QED
    BY <2>1 DEF ToBeTold
<1>5. CASE Deliver(s)
  <2>1. PICK k \in rest[s] : /\ notices' = [notices EXCEPT ![k] = IF @ < Room THEN @ + 1 ELSE @]
                             /\ rest' = [rest EXCEPT ![s] = @ \ {k}]
                             /\ missed' = missed \ {k}
    BY <1>5 DEF Deliver
  <2>2. k \in Listener
    BY <2>1
  <2>3. CASE k = l
    <3>1. notices[l] \in 0..Room
      OBVIOUS
    <3>2. notices'[l] > 0
      BY <2>1, <2>3, <3>1, RoomAssumption
    <3>3. QED
      BY <3>2 DEF ToBeTold
  <2>4. CASE k # l
    <3>1. l \notin missed /\ notices'[l] = notices[l]
      BY <2>1, <2>4
    <3>2. \A q \in Setter : l \in rest[q] => l \in rest'[q]
      BY <2>1, <2>4
    <3>3. block' = block
      BY <1>5 DEF Deliver
    <3>4. QED
      BY <1>2, <3>1, <3>2, <3>3 DEF ReadIsCurrent, ToBeTold
  <2>5. QED
    BY <2>3, <2>4
<1>6. CASE SetReturns(s) \/ Kill(s)
  <2>1. LeaveSet(s) /\ l \notin missed /\ l \notin rest[s]
    BY <1>6 DEF SetReturns, Kill
  <2>2. \A q \in Setter : l \in rest[q] => l \in rest'[q]
    BY <2>1 DEF LeaveSet
  <2>3. notices' = notices /\ block' = block
    BY <2>1 DEF LeaveSet
  <2>4. QED
    BY <1>2, <2>1, <2>2, <2>3 DEF ReadIsCurrent, ToBeTold
<1>7. CASE SendFails(s)
  BY <1>7 DEF SendFails
<1>8. QED
  BY <1>3, <1>4, <1>5, <1>6, <1>7 DEF Set

(* A step of a server reads what is there, or starts again.                *)
LEMMA ServeKeepsCurrent ==
  ASSUME TypeOK, ReadIsCurrent, NEW k \in Listener, Serve(k),
         NEW l \in Listener, l \notin missed'
  PROVE  ToBeTold(l)' \/ \A w \in Word \ left'[l] : copy'[l][w] = block'[w]
<1> USE DEF TypeOK
<1>1. k \in Thread /\ l \in Thread
  BY DEF Thread
<1>2. missed' = missed /\ block' = block /\ rest' = rest
  BY DEF Serve, Receive, GetWord, Handled
<1>3. CASE k # l
  <2>1. notices'[l] = notices[l] /\ left'[l] = left[l] /\ copy'[l] = copy[l]
    BY <1>1, <1>3 DEF Serve, Receive, GetWord, Handled
  <2>2. QED
    BY <1>2, <2>1 DEF ReadIsCurrent, ToBeTold
<1>4. CASE k = l
  <2>1. CASE Receive(k)
    BY <1>1, <1>4, <2>1 DEF Receive
  <2>2. CASE GetWord(k)
    <3>1. PICK v \in left[l] : /\ copy' = [copy EXCEPT ![l] = [@ EXCEPT ![v] = block[v]]]
                               /\ left' = [left EXCEPT ![l] = @ \ {v}]
      BY <1>4, <2>2 DEF GetWord
    <3>2. notices' = notices
      BY <2>2 DEF GetWord
    <3>3. CASE ToBeTold(l)
      BY <1>2, <3>2, <3>3 DEF ToBeTold
    <3>4. CASE ~ToBeTold(l)
      <4>1. ASSUME NEW w \in Word \ left'[l] PROVE copy'[l][w] = block'[w]
        <5>1. copy[l] \in [Word -> GlobalValue \cup {Zero}]
          BY DEF Block
        <5>2. copy'[l] = [copy[l] EXCEPT ![v] = block[v]]
          BY <3>1
        <5>3. CASE w = v
          BY <1>2, <5>1, <5>2, <5>3
        <5>4. CASE w # v
          <6>1. w \in Word \ left[l]
            BY <1>1, <3>1, <4>1, <5>4
          <6>2. copy[l][w] = block[w]
            BY <1>2, <3>4, <6>1 DEF ReadIsCurrent
          <6>3. QED
            BY <1>2, <5>1, <5>2, <5>4, <6>2
        <5>5. QED
          BY <5>3, <5>4
      <4>2. QED
        BY <4>1
    <3>5. QED
      BY <3>3, <3>4
  <2>3. CASE Handled(k)
    BY <1>2, <2>3 DEF Handled, ReadIsCurrent, ToBeTold
  <2>4. QED
    BY <2>1, <2>2, <2>3 DEF Serve
<1>5. QED
  BY <1>3, <1>4

LEMMA GlobalNextCurrent == TypeOK /\ ReadIsCurrent /\ TellsAfterwards /\ [GlobalNext]_globalVars => ReadIsCurrent'
<1> SUFFICES ASSUME TypeOK, ReadIsCurrent, TellsAfterwards, [GlobalNext]_globalVars,
                    NEW l \in Listener, l \notin missed'
             PROVE  ToBeTold(l)' \/ \A w \in Word \ left'[l] : copy'[l][w] = block'[w]
  BY DEF ReadIsCurrent
<1>1. CASE \E s \in Setter : Set(s)
  BY <1>1, SetKeepsCurrent
<1>2. CASE \E k \in Listener : Serve(k)
  BY <1>2, ServeKeepsCurrent
<1>3. CASE UNCHANGED globalVars
  BY <1>3 DEF globalVars, ReadIsCurrent, ToBeTold
<1>4. QED
  BY <1>1, <1>2, <1>3 DEF GlobalNext

(* The inductive invariant holds in every reachable state.                 *)
THEOREM GlobalInvariant == GlobalSpec => []GlobalIInv
<1>1. GlobalInit => GlobalIInv
  <2>1. GlobalInit => ReadIsCurrent
    BY DEF GlobalInit, ReadIsCurrent, ZeroBlock, Thread
  <2>2. GlobalInit => IdleHasNothingLeft /\ TellsAfterwards
    BY DEF GlobalInit, IdleHasNothingLeft, TellsAfterwards, Thread
  <2>3. QED
    BY <2>1, <2>2, GlobalInitTypes DEF GlobalIInv
<1>2. GlobalIInv /\ [GlobalNext]_globalVars => GlobalIInv'
  BY GlobalNextTypes, GlobalNextIdle, GlobalNextTells, GlobalNextCurrent DEF GlobalIInv
<1>3. QED
  BY <1>1, <1>2, PTL DEF GlobalSpec

(* Whoever was told of the last change, by whichever call, has the block   *)
(* as it is in the segment when it has handled its notices: notices that   *)
(* were dropped or that stand for several calls do no harm.                *)
THEOREM UpToDate == GlobalSpec => []ListenersUpToDate
<1>1. GlobalIInv => ListenersUpToDate
  <2> SUFFICES ASSUME GlobalIInv, NEW l \in Listener \ missed, at[l] = "idle", ~ToBeTold(l)
               PROVE  copy[l] = block
    BY DEF ListenersUpToDate
  <2>1. left[l] = {}
    BY DEF GlobalIInv, IdleHasNothingLeft, Thread
  <2>2. \A w \in Word : copy[l][w] = block[w]
    BY <2>1 DEF GlobalIInv, ReadIsCurrent
  <2>3. copy[l] \in Block /\ block \in Block
    BY DEF GlobalIInv, TypeOK
  <2>4. QED
    BY <2>2, <2>3 DEF Block
<1>2. QED
  BY <1>1, GlobalInvariant, PTL
=============================================================================
