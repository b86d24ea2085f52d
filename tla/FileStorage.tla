------------------------------ MODULE FileStorage ------------------------------
(***************************************************************************)
(* mdsapi/src/file.c: mds_api_storage_save_file and _load_file, which keep *)
(* a block of data with its CRC in a file and the block saved before it in *)
(* a .bak beside it.  A file is the sequence of its blocks: Blocks of data *)
(* and one for the CRC.                                                    *)
(*                                                                         *)
(* The process can be killed between any two blocks; the power can fail,   *)
(* and then what the kernel had not written back comes up truncated or     *)
(* with blocks of zeroes; opening and writing can fail.                    *)
(***************************************************************************)
EXTENDS Integers, Sequences

CONSTANTS Value,    (* what an application saves                             *)
          Blocks,   (* the data blocks of a value                            *)
          Zero,     (* a block of zeroes                                     *)
          Missing   (* the content of a file that does not exist             *)

ASSUME BlocksAssumption == Blocks \in Nat \ {0}
ASSUME ValueAssumption == Zero \notin Value /\ Missing \notin Value /\ Zero # Missing

(* A block of data; the CRC block of data that are not all zeroes.         *)
Datum == Value \cup {Zero}
CrcBlock == {<<d>> : d \in [1..Blocks -> Datum]}
(* No CRC is mistaken for data, nor the content of a file for no file.     *)
ASSUME CrcAssumption == CrcBlock \cap Datum = {} /\ Missing \notin Seq(Datum \cup CrcBlock)

VARIABLES disk,     (* the contents of "file" and of "bak"                   *)
          dirty,    (* dirty[f]: the kernel has not written f back           *)
          at, n,    (* where the call is, and how many blocks it has written *)
          call,     (* which call, the value it saves, its source for a copy *)
          retry,    (* _load_file's retry                                    *)
          err,      (* _load_file's err, then the answer of the call         *)
          got,      (* the data load returns                                 *)
          saved,    (* the values given to a save so far                     *)
          spoiled,  (* a save began on a damaged file, or a fault hit one    *)
          fault     (* something failed in this call                         *)

files == <<disk, dirty>>
ghosts == <<saved, spoiled, fault>>
vars == <<files, at, n, call, retry, err, got, ghosts>>

ERR_NONE == 0
ERR_FILE_NOT_EXIST == 1
ERR_FILE_OPEN == 2
ERR_FILE_READ == 4
ERR_DATA_CRC == 5

NoCall == [fn |-> "none", val |-> Zero, again |-> FALSE]
Data(v) == [b \in 1..Blocks |-> v]

(* mds_api_crc16_get starts from 0, so the CRC of zeroes is zero; two      *)
(* different blocks are taken to have different CRCs.                      *)
Crc(d) == IF \A b \in DOMAIN d : d[b] = Zero THEN Zero ELSE <<d>>
Image(v) == Append(Data(v), Crc(Data(v)))
DataOf(c) == SubSeq(c, 1, Blocks)
Whole(c) == c # Missing /\ Len(c) = Blocks + 1
Good(c) == Whole(c) /\ c[Blocks + 1] = Crc(DataOf(c))

Harmed(c) == c # Missing /\ ~Good(c)

Init == /\ disk = [f \in {"file", "bak"} |-> Missing]
        /\ dirty = [f \in {"file", "bak"} |-> FALSE]
        /\ at = "idle" /\ n = 0 /\ call = NoCall
        /\ retry = 0 /\ err = ERR_NONE /\ got = <<>>
        /\ saved = {} /\ spoiled = FALSE /\ fault = FALSE

Goto(l, k) == at' = l /\ n' = k
Finish(e) == Goto("done", 0) /\ err' = e
Write(f, c) == disk' = [disk EXCEPT ![f] = c] /\ dirty' = [dirty EXCEPT ![f] = TRUE]
Failing == fault' = TRUE /\ spoiled' = (spoiled \/ call.fn = "save") /\ UNCHANGED saved

-----------------------------------------------------------------------------
(* mds_api_cp(from, to, 1): for a save from "file" to "bak", for a load's  *)
(* _file_recovery the other way.  CpEnds is what the caller does next.     *)

From == IF call.fn = "save" THEN "file" ELSE "bak"
To == IF call.fn = "save" THEN "bak" ELSE "file"

(* save ignores the result.  load gives up if the copy failed, with the    *)
(* reason it had for recovering.                                           *)
CpEnds(ok) ==
  IF call.fn = "save" THEN Goto("save_open", 0) /\ UNCHANGED err
  ELSE IF ok THEN Goto("read", 0) /\ UNCHANGED err
  ELSE Finish(IF call.again THEN ERR_DATA_CRC ELSE ERR_FILE_NOT_EXIST)

CpOpen == /\ at = "cp_open"
          /\ disk[From] # Missing
          /\ Write(To, <<>>)
          /\ Goto("cp_copy", 0)
          /\ UNCHANGED <<call, retry, err, got, ghosts>>

CpNoSource == /\ at = "cp_open"
              /\ disk[From] = Missing
              /\ CpEnds(FALSE)
              /\ UNCHANGED <<files, call, retry, got, ghosts>>

CpOpenFails == /\ at = "cp_open"
               /\ CpEnds(FALSE)
               /\ Failing
               /\ UNCHANGED <<files, call, retry, got>>

CpCopy == /\ at = "cp_copy"
          /\ n < Len(disk[From])
          /\ Write(To, Append(disk[To], disk[From][n + 1]))
          /\ Goto("cp_copy", n + 1)
          /\ UNCHANGED <<call, retry, err, got, ghosts>>

(* A read, a write or the closing of the target fails.                     *)
CpCopyFails == /\ at = "cp_copy"
               /\ CpEnds(FALSE)
               /\ Failing
               /\ UNCHANGED <<files, call, retry, got>>

(* Mutant: the copy loop ends one block early.                             *)
CpDoneEarly == /\ at = "cp_copy"
               /\ n + 1 >= Len(disk[From])
               /\ CpEnds(TRUE)
               /\ UNCHANGED <<files, call, retry, got, ghosts>>

CpDone == /\ at = "cp_copy"
          /\ n = Len(disk[From])
          /\ CpEnds(TRUE)
          /\ UNCHANGED <<files, call, retry, got, ghosts>>

-----------------------------------------------------------------------------
(* mds_api_storage_save_file: back up the file, then write it anew.  The   *)
(* results of the writes are not looked at.                                *)

CallSave(v) == /\ at = "idle"
               /\ call' = [fn |-> "save", val |-> v, again |-> FALSE]
               /\ Goto(IF disk["file"] = Missing THEN "save_open" ELSE "cp_open", 0)
               /\ saved' = saved \cup {v}
               /\ spoiled' = (spoiled \/ Harmed(disk["file"]))
               /\ fault' = FALSE
               /\ UNCHANGED <<files, retry, err, got>>

SaveOpen == /\ at = "save_open"
            /\ Write("file", <<>>)
            /\ Goto("save_data", 0)
            /\ UNCHANGED <<call, retry, err, got, ghosts>>

SaveOpenFails == /\ at = "save_open"
                 /\ Finish(ERR_FILE_OPEN)
                 /\ Failing
                 /\ UNCHANGED <<files, call, retry, got>>

SaveData == /\ at = "save_data"
            /\ Write("file", Append(disk["file"], call.val))
            /\ Goto(IF n + 1 < Blocks THEN "save_data" ELSE "save_crc", n + 1)
            /\ UNCHANGED <<call, retry, err, got, ghosts>>

SaveDataFails == /\ at = "save_data"
                 /\ Goto("save_crc", n)
                 /\ Failing
                 /\ UNCHANGED <<files, call, retry, err, got>>

SaveCrc == /\ at = "save_crc"
           /\ Write("file", Append(disk["file"], Crc(Data(call.val))))
           /\ Finish(ERR_NONE)
           /\ UNCHANGED <<call, retry, got, ghosts>>

SaveCrcFails == /\ at = "save_crc"
                /\ Finish(ERR_NONE)
                /\ Failing
                /\ UNCHANGED <<files, call, retry, got>>

-----------------------------------------------------------------------------
(* mds_api_storage_load_file: recover a missing file from the backup, read *)
(* it, and when the CRC is wrong recover and read it once more.            *)

CallLoad == /\ at = "idle"
            /\ call' = [fn |-> "load", val |-> Zero, again |-> FALSE]
            /\ Goto(IF disk["file"] = Missing THEN "cp_open" ELSE "read", 0)
            /\ retry' = 0 /\ err' = ERR_NONE /\ got' = <<>>
            /\ fault' = FALSE
            /\ UNCHANGED <<files, saved, spoiled>>

(* _load_file: three attempts to open the file and read all of it.         *)
ReadOpenFails == /\ at = "read"
                 /\ retry < 3
                 /\ retry' = retry + 1
                 /\ err' = ERR_FILE_OPEN
                 /\ Failing
                 /\ UNCHANGED <<files, at, n, call, got>>

ReadShort == /\ at = "read"
             /\ retry < 3
             /\ ~Whole(disk["file"])
             /\ retry' = retry + 1
             /\ err' = ERR_FILE_READ
             /\ UNCHANGED <<files, at, n, call, got, ghosts>>

(* The third attempt counts as a failure even when it has read everything. *)
ReadWhole == /\ at = "read"
             /\ retry < 3
             /\ Whole(disk["file"])
             /\ retry' = retry + 1
             /\ Goto(IF retry + 1 >= 3 THEN "read_fail" ELSE "crc", 0)
             /\ UNCHANGED <<files, call, err, got, ghosts>>

(* Mutant: a file that cannot be read is recovered from the backup too.    *)
ReadFailRecovers == /\ at = "read_fail" \/ (at = "read" /\ retry >= 3)
                    /\ Goto("cp_open", 0)
                    /\ call' = [fn |-> "load", val |-> Zero, again |-> TRUE]
                    /\ retry' = 0 /\ err' = ERR_NONE
                    /\ UNCHANGED <<files, got, ghosts>>

ReadFail == /\ at = "read_fail" \/ (at = "read" /\ retry >= 3)
            /\ Finish(err)
            /\ UNCHANGED <<files, call, retry, got, ghosts>>

(* Mutant: the CRC is not compared.                                        *)
CrcRightAlways == /\ at = "crc"
                  /\ got' = DataOf(disk["file"])
                  /\ Finish(ERR_NONE)
                  /\ UNCHANGED <<files, call, retry, ghosts>>

CrcRight == /\ at = "crc"
            /\ Good(disk["file"])
            /\ got' = DataOf(disk["file"])
            /\ Finish(ERR_NONE)
            /\ UNCHANGED <<files, call, retry, ghosts>>

(* Mutant: a wrong CRC is answered at once.                                *)
CrcWrongGivesUp == /\ at = "crc"
                   /\ ~Good(disk["file"])
                   /\ Finish(ERR_DATA_CRC)
                   /\ UNCHANGED <<files, call, retry, got, ghosts>>

CrcWrong == /\ at = "crc"
            /\ ~Good(disk["file"])
            /\ IF call.again
               THEN Finish(ERR_DATA_CRC) /\ UNCHANGED <<call, retry>>
               ELSE /\ Goto("cp_open", 0)
                    /\ call' = [fn |-> "load", val |-> Zero, again |-> TRUE]
                    /\ retry' = 0 /\ err' = ERR_NONE
            /\ UNCHANGED <<files, got, ghosts>>

-----------------------------------------------------------------------------
Leave == /\ Goto("idle", 0)
         /\ call' = NoCall
         /\ retry' = 0 /\ err' = ERR_NONE /\ got' = <<>>
         /\ fault' = FALSE

Return == at = "done" /\ Leave /\ UNCHANGED <<files, saved, spoiled>>

Kill == at \notin {"idle", "done"} /\ Leave /\ UNCHANGED <<files, saved, spoiled>>

(* What a file can come up as when the power fails before it was written   *)
(* back: cut off anywhere, and some blocks of what is left zero.           *)
Damaged(c) ==
  IF c = Missing THEN {Missing}
  ELSE UNION {{[b \in 1..k |-> IF b \in Z THEN Zero ELSE c[b]] : Z \in SUBSET (1..k)} : k \in 0..Len(c)}

Comes(f) == IF dirty[f] THEN Damaged(disk[f]) \cup {Missing} ELSE {disk[f]}

PowerFails == /\ \E c \in Comes("file"), d \in Comes("bak") :
                   disk' = [f \in {"file", "bak"} |-> IF f = "file" THEN c ELSE d]
              /\ dirty' = [f \in {"file", "bak"} |-> FALSE]
              /\ spoiled' = (spoiled \/ disk' # disk)
              /\ Leave
              /\ UNCHANGED saved

WriteBack(f) == /\ dirty[f]
                /\ dirty' = [dirty EXCEPT ![f] = FALSE]
                /\ UNCHANGED <<disk, at, n, call, retry, err, got, ghosts>>

CpStep == CpOpen \/ CpNoSource \/ CpOpenFails \/ CpCopy \/ CpCopyFails \/ CpDone
SaveStep == SaveOpen \/ SaveOpenFails \/ SaveData \/ SaveDataFails \/ SaveCrc \/ SaveCrcFails
LoadStep == ReadOpenFails \/ ReadShort \/ ReadWhole \/ ReadFail \/ CrcRight \/ CrcWrong

Next == \/ \E v \in Value : CallSave(v)
        \/ CallLoad \/ CpStep \/ SaveStep \/ LoadStep \/ Return
        \/ Kill \/ PowerFails \/ \E f \in {"file", "bak"} : WriteBack(f)

Spec == Init /\ [][Next]_vars

-----------------------------------------------------------------------------
(* Wherever a save or a recovery is killed, one of the two files still     *)
(* holds a whole block with its CRC, as long as no save begins on a file   *)
(* that is damaged and neither a failed write nor the power has taken a    *)
(* part of one.                                                            *)
OneGoodCopy == (~spoiled /\ disk["bak"] # Missing) => Good(disk["file"]) \/ Good(disk["bak"])

(* What load answers without an error is what one save was given, never a  *)
(* mixture of two saves or half of one; or it is all zeroes, because the   *)
(* CRC of zeroes is zero and a file of zeroes passes the check.            *)
LoadOkIsSaved ==
  (at = "done" /\ call.fn = "load" /\ err = ERR_NONE) =>
    got \in {Data(v) : v \in saved \cup {Zero}}

(* load gives up on a file that is missing or has a wrong CRC only when    *)
(* the backup is no better.                                                *)
LoadRecovers ==
  (at = "done" /\ call.fn = "load" /\ ~fault /\ err \in {ERR_FILE_NOT_EXIST, ERR_DATA_CRC}) =>
    ~Good(disk["bak"])

(* load never replaces a good file by the older backup, also when it fails *)
(* to open the file for a while.                                           *)
LoadKeepsGoodFile ==
  [][(call.fn = "load" /\ Good(disk["file"]) /\ at' # "idle") => disk'["file"] = disk["file"]]_vars
=============================================================================
