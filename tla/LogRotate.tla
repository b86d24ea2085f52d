------------------------------- MODULE LogRotate -------------------------------
(***************************************************************************)
(* mdsapi/src/file.c: mds_api_write_data_maxsize, which appends a record   *)
(* to a log and keeps only the last max_size bytes: it copies the log to a *)
(* .bak, truncates the log, copies back what may stay, adds the record and *)
(* removes the .bak.  mds_api_poweroff_and_log of any process uses it for  *)
(* one and the same file, with nothing to keep them apart.                 *)
(*                                                                         *)
(* A file is the sequence of its units; every system call is a step.  The  *)
(* log is never removed, the .bak is while others may have it open, so it  *)
(* is a number that stands for its i-node.                                 *)
(***************************************************************************)
EXTENDS Integers, Sequences, SequencesExt, FiniteSetsExt

CONSTANTS Writer,   (* the processes that write the log                      *)
          Hole,     (* what a hole in a file reads as                        *)
          NoLog,    (* the log before it was first written                   *)
          MaxSize,  (* max_size, in units                                    *)
          Chunk,    (* the units one read gets                               *)
          RecLens,  (* the lengths of records                                *)
          MaxLeft   (* bound: units on the disk at a kill beside a call        *)

ASSUME SizesAssumption == {MaxSize, Chunk} \cup RecLens \subseteq Nat \ {0}
ASSUME WriterAssumption == IsFiniteSet(Writer)

(* What a file is made of; the content of a file is never taken for none.  *)
Unit == {Hole} \cup (Writer \X Nat)
ASSUME NoLogAssumption == NoLog \notin Seq(Unit)

VARIABLES log,      (* the log                                               *)
          bak,      (* the i-node the name .bak leads to, or 0               *)
          ino,      (* the contents of the i-nodes                           *)
          where,    (* where each writer is                                  *)
          rec,      (* its record                                            *)
          fd,       (* the i-node it has open                                *)
          rpos,     (* how much it has read of its source                    *)
          wpos,     (* how much it has written of its target                 *)
          buf,      (* what it read last                                     *)
          tries,    (* the timeout of mds_api_check_exist_file               *)
          old,      (* the log as the last call found it                     *)
          calm      (* that call was alone and all its writes succeeded      *)

logFiles == <<log, bak, ino>>
local == <<rec, fd, rpos, wpos, buf, tries>>
lastCall == <<old, calm>>
logVars == <<logFiles, where, local, lastCall>>

Inode == 1..(Cardinality(Writer) + 1)
Content(c) == IF c = NoLog THEN <<>> ELSE c

(* write(2) of d at position p: a gap before it fills with zeroes.         *)
WriteAt(c, p, d) ==
  [k \in 1..Max({Len(c), p + Len(d)}) |->
     IF k \in (p + 1)..(p + Len(d)) THEN d[k - p] ELSE IF k <= Len(c) THEN c[k] ELSE Hole]

(* read(2) of a chunk at position p.                                       *)
ReadAt(c, p) == SubSeq(c, p + 1, Min({Len(c), p + Chunk}))

LogInit == /\ log = NoLog /\ bak = 0 /\ ino = [i \in Inode |-> <<>>]
           /\ where = [w \in Writer |-> "idle"] /\ rec = [w \in Writer |-> <<>>]
           /\ fd = [w \in Writer |-> 0] /\ rpos = [w \in Writer |-> 0]
           /\ wpos = [w \in Writer |-> 0] /\ buf = [w \in Writer |-> <<>>]
           /\ tries = [w \in Writer |-> 0] /\ old = <<>> /\ calm = TRUE

GoesTo(w, l) == where' = [where EXCEPT ![w] = l]
Open(w, i) == fd' = [fd EXCEPT ![w] = i]
ReadsFrom(w, p) == rpos' = [rpos EXCEPT ![w] = p]
Into(w, p) == wpos' = [wpos EXCEPT ![w] = p]
Busy(w) == where[w] # "idle"

(* An i-node without a name is gone with its last descriptor; the contents *)
(* of those that are gone are forgotten.                                   *)
Live(b, fds, c) == [i \in Inode |-> IF i = b \/ \E w \in Writer : fds[w] = i THEN c[i] ELSE <<>>]

Quit(w) == /\ GoesTo(w, "idle")
           /\ rec' = [rec EXCEPT ![w] = <<>>] /\ Open(w, 0) /\ ReadsFrom(w, 0) /\ Into(w, 0)
           /\ buf' = [buf EXCEPT ![w] = <<>>] /\ tries' = [tries EXCEPT ![w] = 0]
           /\ ino' = Live(bak, fd', ino)
           /\ UNCHANGED <<log, bak>>

-----------------------------------------------------------------------------
(* The call, and the three looks for the log a second apart.               *)

Begin(w) == /\ where[w] = "idle"
            /\ \E n \in RecLens : rec' = [rec EXCEPT ![w] = [k \in 1..n |-> <<w, k>>]]
            /\ tries' = [tries EXCEPT ![w] = 3]
            /\ GoesTo(w, "exists")
            /\ calm' = (\A v \in Writer : where[v] = "idle")
            /\ old' = IF calm' THEN Content(log) ELSE <<>>
            /\ UNCHANGED <<logFiles, fd, rpos, wpos, buf>>

NotThere(w) == /\ where[w] = "exists"
               /\ log = NoLog
               /\ tries' = [tries EXCEPT ![w] = @ - 1]
               /\ GoesTo(w, IF tries[w] = 1 THEN "new_open" ELSE "exists")
               /\ UNCHANGED <<logFiles, rec, fd, rpos, wpos, buf, lastCall>>

(* mds_api_write_data(filename, buff, data_len, 0).                        *)
NewOpen(w) == /\ where[w] = "new_open"
              /\ log' = <<>>
              /\ GoesTo(w, "new_write")
              /\ UNCHANGED <<bak, ino, local, lastCall>>

NewWrite(w) == /\ where[w] = "new_write"
               /\ log' = WriteAt(log, 0, rec[w])
               /\ GoesTo(w, "done")
               /\ UNCHANGED <<bak, ino, local, lastCall>>

-----------------------------------------------------------------------------
(* mds_api_cp(filename, tmp_file_name, 1), whose result is not looked at.  *)

(* The number of a new i-node means nothing, so it is the lowest.          *)
Unused(i) == \A w \in Writer : fd[w] # i

CopyOpen(w) == /\ where[w] = "exists"
               /\ log # NoLog
               /\ \E i \in Inode :
                    /\ IF bak = 0 THEN Unused(i) /\ (\A j \in 1..(i - 1) : ~Unused(j)) ELSE i = bak
                    /\ bak' = i
                    /\ ino' = [ino EXCEPT ![i] = <<>>]
                    /\ Open(w, i)
               /\ GoesTo(w, "cp_read")
               /\ UNCHANGED <<log, rec, rpos, wpos, buf, tries, lastCall>>

CopyRead(w) == /\ where[w] = "cp_read"
               /\ ReadAt(log, rpos[w]) # <<>>
               /\ buf' = [buf EXCEPT ![w] = ReadAt(log, rpos[w])]
               /\ ReadsFrom(w, rpos[w] + Len(buf'[w]))
               /\ GoesTo(w, "cp_write")
               /\ UNCHANGED <<logFiles, rec, fd, wpos, tries, lastCall>>

CopyWrite(w) == /\ where[w] = "cp_write"
                /\ ino' = [ino EXCEPT ![fd[w]] = WriteAt(@, wpos[w], buf[w])]
                /\ Into(w, wpos[w] + Len(buf[w]))
                /\ buf' = [buf EXCEPT ![w] = <<>>]
                /\ GoesTo(w, "cp_read")
                /\ UNCHANGED <<log, bak, rec, fd, rpos, tries, lastCall>>

CopyCloses(w) == /\ Open(w, 0) /\ ReadsFrom(w, 0) /\ Into(w, 0)
                 /\ buf' = [buf EXCEPT ![w] = <<>>]
                 /\ ino' = Live(bak, fd', ino)
                 /\ GoesTo(w, "bak_open")
                 /\ UNCHANGED <<log, bak, rec, tries>>

(* Mutant: a copy that finds the log cut short behind it starts over.      *)
CopyDoneOrOver(w) == /\ where[w] = "cp_read"
                     /\ ReadAt(log, rpos[w]) = <<>>
                     /\ IF rpos[w] > Len(log)
                        THEN ReadsFrom(w, 0) /\ Into(w, 0) /\ UNCHANGED <<logFiles, where, rec, fd, buf, tries>>
                        ELSE CopyCloses(w)
                     /\ UNCHANGED lastCall

CopyDone(w) == /\ where[w] = "cp_read"
               /\ ReadAt(log, rpos[w]) = <<>>
               /\ CopyCloses(w)
               /\ UNCHANGED lastCall

(* Bound: one failing write in a call, and none in calls that overlap.     *)
CopyFails(w) == /\ where[w] = "cp_write" \/ (where[w] = "exists" /\ log # NoLog)
                /\ calm
                /\ CopyCloses(w)
                /\ calm' = FALSE /\ old' = <<>>

-----------------------------------------------------------------------------
(* The rest of the call: copy back what may stay, and add the record.      *)

(* Mutant: the .bak is unlinked as soon as it is open.                     *)
BakOpenUnlinks(w) == /\ where[w] = "bak_open"
                     /\ bak # 0
                     /\ Open(w, bak)
                     /\ bak' = 0
                     /\ GoesTo(w, "log_open")
                     /\ UNCHANGED <<log, ino, rec, rpos, wpos, buf, tries, lastCall>>

BakOpen(w) == /\ where[w] = "bak_open"
              /\ bak # 0
              /\ Open(w, bak)
              /\ GoesTo(w, "log_open")
              /\ UNCHANGED <<logFiles, rec, rpos, wpos, buf, tries, lastCall>>

(* fclose(NULL) when the .bak is gone: the process ends here.              *)
BakGone(w) == /\ where[w] = "bak_open"
              /\ bak = 0
              /\ Quit(w)
              /\ UNCHANGED lastCall

(* fopen with "w+": the log is cut off, and this writer's position is its  *)
(* own, also when others write.                                            *)
LogOpen(w) == /\ where[w] = "log_open"
              /\ log' = <<>>
              /\ GoesTo(w, "measure")
              /\ UNCHANGED <<bak, ino, local, lastCall>>

(* Mutant: the record is not counted.                                      *)
StartOffsetOfFile(w) == Max({0, Len(ino[fd[w]]) - MaxSize})

StartOffset(w) == Max({0, Len(rec[w]) + Len(ino[fd[w]]) - MaxSize})

Measure(w) == /\ where[w] = "measure"
              /\ ReadsFrom(w, StartOffset(w))
              /\ GoesTo(w, "read")
              /\ UNCHANGED <<logFiles, rec, fd, wpos, buf, tries, lastCall>>

Read(w) == /\ where[w] = "read"
           /\ ReadAt(ino[fd[w]], rpos[w]) # <<>>
           /\ buf' = [buf EXCEPT ![w] = ReadAt(ino[fd[w]], rpos[w])]
           /\ ReadsFrom(w, rpos[w] + Len(buf'[w]))
           /\ GoesTo(w, "write")
           /\ UNCHANGED <<logFiles, rec, fd, wpos, tries, lastCall>>

LogWrite(w) == /\ where[w] = "write"
               /\ log' = WriteAt(log, wpos[w], buf[w])
               /\ Into(w, wpos[w] + Len(buf[w]))
               /\ buf' = [buf EXCEPT ![w] = <<>>]
               /\ GoesTo(w, "read")
               /\ UNCHANGED <<bak, ino, rec, fd, rpos, tries, lastCall>>

EndOfBak(w) == /\ where[w] = "read"
               /\ ReadAt(ino[fd[w]], rpos[w]) = <<>>
               /\ GoesTo(w, "append")
               /\ UNCHANGED <<logFiles, local, lastCall>>

Record(w) == /\ where[w] = "append"
             /\ log' = WriteAt(log, wpos[w], rec[w])
             /\ GoesTo(w, "unlink")
             /\ UNCHANGED <<bak, ino, local, lastCall>>

(* Nothing is written, on a full disk for one, and the call goes on.       *)
WriteFails(w) == /\ where[w] \in {"new_write", "write", "append"}
                 /\ calm
                 /\ GoesTo(w, CASE where[w] = "new_write" -> "done"
                                [] where[w] = "write" -> "read"
                                [] where[w] = "append" -> "unlink")
                 /\ buf' = [buf EXCEPT ![w] = <<>>]
                 /\ calm' = FALSE /\ old' = <<>>
                 /\ UNCHANGED <<logFiles, rec, fd, rpos, wpos, tries>>

Unlink(w) == /\ where[w] = "unlink"
             /\ bak' = 0
             /\ Open(w, 0)
             /\ ino' = Live(0, fd', ino)
             /\ GoesTo(w, "done")
             /\ UNCHANGED <<log, rec, rpos, wpos, buf, tries, lastCall>>

CallReturns(w) == /\ where[w] = "done"
                  /\ Quit(w)
                  /\ old' = (IF calm THEN Content(log) ELSE <<>>)
                  /\ UNCHANGED calm

(* Bound: beside a call that goes on a writer is killed only while the     *)
(* files are short; each such kill can make them longer by a log.          *)
OnDisk == Len(Content(log)) + (IF bak = 0 THEN 0 ELSE Len(ino[bak]))

KillWriter(w) == /\ Busy(w) /\ where[w] # "done"
                 /\ (\A v \in Writer \ {w} : ~Busy(v)) \/ OnDisk <= MaxLeft
                 /\ Quit(w)
                 /\ UNCHANGED lastCall

-----------------------------------------------------------------------------
Step(w) == \/ NotThere(w) \/ NewOpen(w) \/ NewWrite(w)
           \/ CopyOpen(w) \/ CopyRead(w) \/ CopyWrite(w) \/ CopyDone(w)
           \/ BakOpen(w) \/ BakGone(w) \/ LogOpen(w) \/ Measure(w) \/ Read(w) \/ LogWrite(w)
           \/ EndOfBak(w) \/ Record(w) \/ Unlink(w) \/ CallReturns(w)

LogNext == \E w \in Writer : Begin(w) \/ Step(w) \/ CopyFails(w) \/ WriteFails(w) \/ KillWriter(w)

LogSpec == LogInit /\ [][LogNext]_logVars /\ \A w \in Writer : WF_logVars(Step(w))

-----------------------------------------------------------------------------
(* What the log should be: the last MaxSize units with the record at the   *)
(* end, and a longer record is written whole.                              *)
Appended(c, r) ==
  LET keep == Max({0, MaxSize - Len(r)})
  IN  SubSeq(c, Max({1, Len(c) - keep + 1}), Len(c)) \o r

(* A call that nobody joined leaves the newest part of what it found, and  *)
(* its record after it, however many overlapping, killed or failing calls  *)
(* have spoiled the log, its length or the .bak before.                    *)
LoneCallAppends ==
  \A w \in Writer : (where[w] = "done" /\ calm) => log = Appended(old, rec[w])

(* The log is truncated before the rest of it is copied back; a call that  *)
(* is killed anywhere in this leaves the old log whole in one of the two   *)
(* files, for as long as no other call begins.                             *)
OldLogSurvives ==
  calm => \/ Content(log) = old
          \/ bak # 0 /\ ino[bak] = old
          \/ \E w \in Writer : where[w] \in {"unlink", "done"} /\ log = Appended(old, rec[w])

(* One call copies the log to the .bak while another copies the .bak to    *)
(* the log, so that each lengthens the file whose end the other waits for, *)
(* after whatever earlier ones left in both: every call ends all the same. *)
CallEnds == \A w \in Writer : Busy(w) ~> ~Busy(w)
=============================================================================
