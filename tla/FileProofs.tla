------------------------------ MODULE FileProofs ------------------------------
(***************************************************************************)
(* What the two users of the files keep.  The block storage, FileStorage,  *)
(* for any values and size of a block: a good copy through every kill,     *)
(* answers of load that one save was given, a recovery whenever the backup *)
(* allows it, and the file while it is good.  The log, LogRotate, for      *)
(* every finite set of writers and all sizes: LoneCallAppends and          *)
(* OldLogSurvives.                                                         *)
(***************************************************************************)
EXTENDS FileStorage, LogRotate, SequenceTheorems, FiniteSetTheorems, TLAPS

Block == Datum \cup CrcBlock
Name == {"file", "bak"}

(* The CRC is the last block written, and comes last of Blocks + 1 only    *)
(* for a value of S, unless a power failure has made zeroes of it.         *)
FileShape(c, S) ==
  \/ c = Missing
  \/ /\ c \in Seq(Block)
     /\ Len(c) <= Blocks + 1
     /\ \A b \in 1..Len(c) : b < Len(c) => c[b] \in Datum
     /\ Len(c) = Blocks + 1 => c[Blocks + 1] \in {Zero} \cup {<<Data(v)>> : v \in S}

LEMMA DataType == ASSUME NEW v \in Datum PROVE Data(v) \in [1..Blocks -> Datum]
BY DEF Data

(* The CRC of data that are not all zero is none of the data's blocks.     *)
LEMMA CrcOfData == ASSUME NEW v \in Value PROVE Crc(Data(v)) = <<Data(v)>> /\ Crc(Data(v)) \in CrcBlock
<1>1. 1 \in 1..Blocks /\ DOMAIN Data(v) = 1..Blocks /\ \A b \in 1..Blocks : Data(v)[b] = v
  BY BlocksAssumption DEF Data
<1>2. Crc(Data(v)) = <<Data(v)>>
  BY <1>1, ValueAssumption DEF Crc
<1> QED BY <1>2, DataType DEF CrcBlock, Datum

(* A file that is not full is not good, and one that is missing is not.    *)
LEMMA GoodIsFull == ASSUME NEW c, NEW S, FileShape(c, S), Good(c)
                    PROVE  c \in Seq(Block) /\ Len(c) = Blocks + 1 /\ c # Missing
BY DEF Good, Whole, FileShape

(* A good file holds the data of one value of S, or zeroes.                *)
LEMMA GoodIsSaved ==
  ASSUME NEW S \in SUBSET Value, NEW c, FileShape(c, S), Good(c)
  PROVE  DataOf(c) \in {Data(v) : v \in S \cup {Zero}}
<1>1. c \in Seq(Block) /\ Len(c) = Blocks + 1 /\ Blocks \in Nat
  BY GoodIsFull, BlocksAssumption
<1>2. DataOf(c) = [b \in 1..Blocks |-> c[b]]
  BY <1>1 DEF DataOf
<1>3. DataOf(c) \in [1..Blocks -> Datum]
  BY <1>1, <1>2, ValueAssumption, CrcAssumption DEF FileShape, Block
<1>4. c[Blocks + 1] = Crc(DataOf(c)) /\ c[Blocks + 1] \in {Zero} \cup {<<Data(v)>> : v \in S}
  <2>1. c[Blocks + 1] = Crc(DataOf(c))
    BY DEF Good
  <2>2. c[Blocks + 1] \in {Zero} \cup {<<Data(v)>> : v \in S}
    BY GoodIsFull DEF FileShape
  <2> QED BY <2>1, <2>2
<1>5. CASE \A b \in 1..Blocks : DataOf(c)[b] = Zero
  BY <1>3, <1>5 DEF Data
<1>6. CASE ~\A b \in 1..Blocks : DataOf(c)[b] = Zero
  <2>1. Crc(DataOf(c)) = <<DataOf(c)>> /\ <<DataOf(c)>> \in CrcBlock
    BY <1>3, <1>6 DEF Crc, CrcBlock
  <2>2. c[Blocks + 1] # Zero
    BY <1>4, <2>1, CrcAssumption DEF Datum
  <2>3. PICK v \in S : <<DataOf(c)>> = <<Data(v)>>
    BY <1>4, <2>1, <2>2
  <2>4. DataOf(c) = Data(v)
    BY <2>3
  <2> QED BY <2>4
<1> QED BY <1>5, <1>6

-----------------------------------------------------------------------------
(* The inductive invariant.                                                *)

SaveLabel == {"cp_open", "cp_copy", "save_open", "save_data", "save_crc", "done"}
LoadLabel == {"cp_open", "cp_copy", "read", "read_fail", "crc", "done"}
CallSet == [fn : {"none", "save", "load"}, val : Datum, again : BOOLEAN]

Types == /\ disk \in [Name -> Seq(Block) \cup {Missing}]
         /\ n \in Nat /\ retry \in Nat /\ err \in Nat
         /\ call \in CallSet
         /\ saved \in SUBSET Value
         /\ spoiled \in BOOLEAN /\ fault \in BOOLEAN

(* Where each call can be.                                                 *)
Labels == /\ call.fn = "none" => at = "idle"
          /\ call.fn = "save" => at \in SaveLabel /\ call.val \in saved
          /\ call.fn = "load" => at \in LoadLabel

Shapes == FileShape(disk["file"], saved) /\ FileShape(disk["bak"], saved)

(* What has been written so far by the copy, and by the save.              *)
Copied(from, to) == /\ from # Missing /\ to # Missing
                    /\ n <= Len(from)
                    /\ to = SubSeq(from, 1, n)

Written == /\ at = "save_data" => /\ disk["file"] \in Seq(Datum)
                                  /\ Len(disk["file"]) = n /\ n < Blocks
           /\ at = "save_crc" => /\ disk["file"] \in Seq(Datum)
                                 /\ Len(disk["file"]) <= Blocks
           /\ at = "cp_copy" => Copied(disk[From], disk[To])

(* A load copies only over a file that is not good; it reads the backup's  *)
(* copy in its second round; a read that failed has a reason.              *)
Loading ==
  call.fn = "load" =>
    /\ at = "cp_open" => ~Good(disk["file"])
    /\ (at \in {"read", "crc"} /\ call.again /\ ~fault) => disk["file"] = disk["bak"]
    /\ (at \in {"cp_open", "cp_copy", "read"} /\ retry > 0) => err \in {ERR_FILE_OPEN, ERR_FILE_READ}
    /\ at = "read_fail" => err \in {ERR_FILE_OPEN, ERR_FILE_READ}

BakKept == disk["bak"] # Missing => Good(disk["bak"])

(* Which of the two files is the good one.                                 *)
Keeping ==
  ~spoiled =>
    /\ disk["bak"] # Missing => Good(disk["file"]) \/ Good(disk["bak"])
    /\ (call.fn = "save" /\ at \in {"cp_open", "cp_copy"}) => Good(disk["file"])
    /\ at \in {"save_open", "save_data", "save_crc"} => BakKept
    /\ (call.fn = "load" /\ at \in {"cp_open", "cp_copy"}) => BakKept

Safe == Types /\ Labels /\ Shapes /\ Written

-----------------------------------------------------------------------------
(* How the content of a file keeps its shape.                              *)

LEMMA ShapeGrows ==
  ASSUME NEW c, NEW S, NEW T, S \subseteq T, FileShape(c, S)
  PROVE  FileShape(c, T)
<1>1. c # Missing => (Len(c) = Blocks + 1 => c[Blocks + 1] \in {Zero} \cup {<<Data(v)>> : v \in T})
  BY DEF FileShape
<1> QED BY <1>1 DEF FileShape

LEMMA PrefixShape ==
  ASSUME NEW c, NEW S, FileShape(c, S), c # Missing, NEW k \in 0..Len(c)
  PROVE  FileShape(SubSeq(c, 1, k), S) /\ SubSeq(c, 1, k) \in Seq(Block) /\ Len(SubSeq(c, 1, k)) = k
<1> DEFINE d == SubSeq(c, 1, k)
<1>1. c \in Seq(Block) /\ Len(c) <= Blocks + 1 /\ \A b \in 1..Len(c) : b < Len(c) => c[b] \in Datum
  BY DEF FileShape
<1>2. d \in Seq(Block) /\ Len(d) = k /\ \A b \in 1..k : d[b] = c[b]
  BY <1>1
<1>3. Len(c) = Blocks + 1 => c[Blocks + 1] \in {Zero} \cup {<<Data(v)>> : v \in S}
  BY DEF FileShape
<1>4. \A b \in 1..Len(d) : b < Len(d) => d[b] \in Datum
  BY <1>1, <1>2
<1>5. Len(d) = Blocks + 1 => d[Blocks + 1] = c[Blocks + 1] /\ Len(c) = Blocks + 1
  BY <1>1, <1>2, BlocksAssumption
<1>6. Len(d) = Blocks + 1 => d[Blocks + 1] \in {Zero} \cup {<<Data(v)>> : v \in S}
  BY <1>3, <1>5
<1>7. Len(d) <= Blocks + 1
  BY <1>1, <1>2, BlocksAssumption
<1> HIDE DEF d
<1>8. FileShape(d, S)
  BY <1>2, <1>4, <1>6, <1>7 DEF FileShape
<1> QED BY <1>2, <1>8 DEF d

LEMMA NextCopied ==
  ASSUME NEW c \in Seq(Block), NEW k \in Nat, k < Len(c)
  PROVE  Append(SubSeq(c, 1, k), c[k + 1]) = SubSeq(c, 1, k + 1)
OBVIOUS

LEMMA AllCopied == ASSUME NEW c \in Seq(Block) PROVE SubSeq(c, 1, Len(c)) = c
OBVIOUS

LEMMA DataShape ==
  ASSUME NEW c \in Seq(Datum), NEW S, Len(c) <= Blocks
  PROVE  FileShape(c, S) /\ c \in Seq(Block)
<1>1. c \in Seq(Block)
  BY DEF Block
<1>2. Len(c) \in Nat /\ \A b \in 1..Len(c) : c[b] \in Datum
  OBVIOUS
<1> QED BY <1>1, <1>2, BlocksAssumption DEF FileShape

LEMMA DataAppended ==
  ASSUME NEW c \in Seq(Datum), NEW v \in Datum
  PROVE  Append(c, v) \in Seq(Datum) /\ Len(Append(c, v)) = Len(c) + 1
OBVIOUS

LEMMA CrcAppended ==
  ASSUME NEW c \in Seq(Datum), NEW S \in SUBSET Value, NEW v \in S, Len(c) <= Blocks
  PROVE  FileShape(Append(c, Crc(Data(v))), S) /\ Append(c, Crc(Data(v))) \in Seq(Block)
<1> DEFINE x == Crc(Data(v))
           d == Append(c, x)
<1>1. x = <<Data(v)>> /\ x \in CrcBlock
  BY CrcOfData
<1>2. x \in Block /\ c \in Seq(Block)
  BY <1>1 DEF Block
<1> HIDE DEF x
<1>3. d \in Seq(Block) /\ Len(d) = Len(c) + 1 /\ d[Len(c) + 1] = x
  BY <1>2
<1>4. \A b \in 1..Len(d) : b < Len(d) => d[b] \in Datum
  BY <1>2
<1>5. x \in {<<Data(w)>> : w \in S}
  BY <1>1
<1>6. Len(d) <= Blocks + 1 /\ (Len(d) = Blocks + 1 => d[Blocks + 1] = x)
  BY <1>3, BlocksAssumption
<1> HIDE DEF d
<1>7. FileShape(d, S)
  BY <1>3, <1>4, <1>5, <1>6 DEF FileShape
<1> QED BY <1>3, <1>7 DEF d, x

(* What a power failure makes of a file.                                   *)
LEMMA DamagedShape ==
  ASSUME NEW c, NEW S, FileShape(c, S), NEW d \in Damaged(c)
  PROVE  FileShape(d, S) /\ d \in Seq(Block) \cup {Missing}
<1>1. CASE c = Missing
  BY <1>1 DEF Damaged, FileShape
<1>2. CASE c # Missing
  <2>1. c \in Seq(Block) /\ Len(c) <= Blocks + 1 /\ \A b \in 1..Len(c) : b < Len(c) => c[b] \in Datum
    BY <1>2 DEF FileShape
  <2>2. Len(c) = Blocks + 1 => c[Blocks + 1] \in {Zero} \cup {<<Data(v)>> : v \in S}
    BY <1>2 DEF FileShape
  <2>3. PICK k \in 0..Len(c) : d \in {[b \in 1..k |-> IF b \in Z THEN Zero ELSE c[b]] : Z \in SUBSET (1..k)}
    BY <1>2 DEF Damaged
  <2>4. PICK Z \in SUBSET (1..k) : d = [b \in 1..k |-> IF b \in Z THEN Zero ELSE c[b]]
    BY <2>3
  <2>5. Zero \in Datum /\ Zero \in Block
    BY DEF Datum, Block
  <2>6. \A b \in 1..k : d[b] = Zero \/ d[b] = c[b]
    BY <2>4
  <2>7. \A b \in 1..k : c[b] \in Block
    BY <2>1
  <2>8. d \in Seq(Block) /\ Len(d) = k
    BY <2>1, <2>4, <2>5, <2>7
  <2>9. \A b \in 1..Len(d) : b < Len(d) => d[b] \in Datum
    BY <2>1, <2>5, <2>6, <2>8
  <2>10. Len(d) = Blocks + 1 => d[Blocks + 1] \in {Zero} \cup {<<Data(v)>> : v \in S}
    <3>1. SUFFICES ASSUME k = Blocks + 1 PROVE d[Blocks + 1] \in {Zero} \cup {<<Data(v)>> : v \in S}
      BY <2>8
    <3>2. Len(c) = Blocks + 1 /\ Blocks + 1 \in 1..k
      BY <2>1, <3>1, BlocksAssumption
    <3>3. d[Blocks + 1] = Zero \/ d[Blocks + 1] = c[Blocks + 1]
      BY <2>6, <3>2
    <3> QED BY <2>2, <3>2, <3>3
  <2>11. Len(d) <= Blocks + 1
    BY <2>1, <2>8, BlocksAssumption
  <2> QED BY <2>8, <2>9, <2>10, <2>11 DEF FileShape
<1> QED BY <1>1, <1>2

-----------------------------------------------------------------------------
(* Safe is inductive.                                                      *)

LEMMA WriteFacts ==
  ASSUME Types, NEW f \in Name, NEW c \in Seq(Block), Write(f, c)
  PROVE  /\ disk'[f] = c
         /\ \A g \in Name : g # f => disk'[g] = disk[g]
         /\ disk' \in [Name -> Seq(Block) \cup {Missing}]
BY DEF Types, Write

LEMMA EmptyFile ==
  ASSUME NEW S
  PROVE  <<>> \in Seq(Datum) /\ <<>> \in Seq(Block) /\ Len(<<>>) = 0 /\ <<>> # Missing /\ FileShape(<<>>, S)
<1>1. <<>> \in Seq(Datum) /\ <<>> \in Seq(Block) /\ Len(<<>>) = 0
  OBVIOUS
<1>2. FileShape(<<>>, S)
  BY <1>1, BlocksAssumption DEF FileShape
<1>3. <<>> # Missing
  BY <1>1, CrcAssumption DEF Block
<1> QED BY <1>1, <1>2, <1>3

LEMMA NotMissing == ASSUME NEW c, NEW S, FileShape(c, S), c # Missing PROVE c \in Seq(Block)
BY DEF FileShape

LEMMA FilesKept ==
  ASSUME Shapes, UNCHANGED disk, saved \subseteq saved' PROVE Shapes'
BY ShapeGrows DEF Shapes

(* A step of a copy writes one more block of the source.                   *)
LEMMA SafeCopyStep ==
  ASSUME Safe, CpStep PROVE Safe'
<1> USE DEF Safe
<1>1. From \in Name /\ To \in Name /\ From # To /\ Name = {From, To}
  BY DEF From, To, Name
<1>2. FileShape(disk[From], saved) /\ FileShape(disk[To], saved)
  BY DEF Shapes, From, To
<1>3. at \in {"cp_open", "cp_copy"} /\ UNCHANGED <<call, saved>> /\ UNCHANGED <<From, To>>
  BY DEF CpStep, CpOpen, CpNoSource, CpOpenFails, CpCopy, CpCopyFails, CpDone, From, To, ghosts, Failing
<1>4. call.fn \in {"save", "load"}
  BY <1>3 DEF Labels, Types, CallSet
<1>5. ASSUME NEW c \in Seq(Block), FileShape(c, saved), Write(To, c), at' = "cp_copy", n' \in Nat,
             disk[From] # Missing, c # Missing, n' <= Len(disk[From]), c = SubSeq(disk[From], 1, n'),
             UNCHANGED <<retry, err, spoiled, fault>>
      PROVE  Safe'
  <2>1. disk'[To] = c /\ disk'[From] = disk[From] /\ disk' \in [Name -> Seq(Block) \cup {Missing}]
    BY <1>1, <1>5, WriteFacts
  <2>2. Types'
    BY <1>3, <1>5, <2>1 DEF Types
  <2>3. Labels'
    BY <1>3, <1>4, <1>5 DEF Labels, SaveLabel, LoadLabel
  <2>4. Shapes'
    BY <1>1, <1>2, <1>3, <1>5, <2>1 DEF Shapes, Name
  <2>5. Written'
    BY <1>3, <1>5, <2>1 DEF Written, Copied
  <2> QED BY <2>2, <2>3, <2>4, <2>5
<1>6. ASSUME NEW ok \in BOOLEAN, CpEnds(ok), UNCHANGED <<disk, retry>>, fault' \in BOOLEAN, spoiled' \in BOOLEAN
      PROVE  Safe'
  <2>1. Types'
    BY <1>3, <1>6 DEF Types, CpEnds, Goto, Finish, ERR_DATA_CRC, ERR_FILE_NOT_EXIST
  <2>2. Labels'
    BY <1>3, <1>4, <1>6 DEF Labels, SaveLabel, LoadLabel, CpEnds, Goto, Finish
  <2>3. Shapes'
    BY <1>3, <1>6, FilesKept
  <2>4. Written'
    BY <1>6 DEF Written, CpEnds, Goto, Finish
  <2> QED BY <2>1, <2>2, <2>3, <2>4
<1>7. CASE CpOpen
  <2>1. disk[From] \in Seq(Block) /\ disk[From] # Missing
    BY <1>2, <1>7, NotMissing DEF CpOpen
  <2>2. <<>> \in Seq(Block) /\ FileShape(<<>>, saved) /\ <<>> # Missing
    BY EmptyFile
  <2>3. <<>> = SubSeq(disk[From], 1, 0) /\ 0 <= Len(disk[From])
    BY <2>1
  <2>4. Write(To, <<>>) /\ at' = "cp_copy" /\ n' = 0 /\ UNCHANGED <<retry, err, spoiled, fault>>
    BY <1>7 DEF CpOpen, Goto, ghosts
  <2> QED BY <1>5, <2>1, <2>2, <2>3, <2>4
<1>8. CASE CpCopy
  <2> DEFINE c == Append(disk[To], disk[From][n + 1])
  <2>1. disk[From] \in Seq(Block) /\ disk[From] # Missing /\ n \in Nat /\ n < Len(disk[From])
        /\ disk[To] = SubSeq(disk[From], 1, n)
    BY <1>2, <1>8, NotMissing DEF CpCopy, Written, Copied, Types
  <2>2. c = SubSeq(disk[From], 1, n + 1) /\ n + 1 \in 0..Len(disk[From])
    BY <2>1, NextCopied
  <2>3. c \in Seq(Block) /\ FileShape(c, saved)
    BY <1>2, <2>1, <2>2, PrefixShape
  <2>4. c # Missing
    BY <2>3, CrcAssumption DEF Block
  <2>5. Write(To, c) /\ at' = "cp_copy" /\ n' = n + 1 /\ UNCHANGED <<retry, err, spoiled, fault>>
    BY <1>8 DEF CpCopy, Goto, ghosts
  <2> HIDE DEF c
  <2>6. n' \in Nat /\ n' <= Len(disk[From]) /\ c = SubSeq(disk[From], 1, n')
    BY <2>1, <2>2, <2>5
  <2> QED BY <1>5, <2>1, <2>3, <2>4, <2>5, <2>6
<1>9. CASE CpNoSource
  BY <1>6, <1>9 DEF CpNoSource, files, ghosts, Types
<1>10. CASE CpOpenFails
  <2>1. fault' \in BOOLEAN /\ spoiled' \in BOOLEAN
    BY <1>10 DEF CpOpenFails, Failing, Types
  <2> QED BY <1>6, <1>10, <2>1 DEF CpOpenFails, files
<1>11. CASE CpCopyFails
  <2>1. fault' \in BOOLEAN /\ spoiled' \in BOOLEAN
    BY <1>11 DEF CpCopyFails, Failing, Types
  <2> QED BY <1>6, <1>11, <2>1 DEF CpCopyFails, files
<1>12. CASE CpDone
  BY <1>6, <1>12 DEF CpDone, files, ghosts, Types
<1> QED BY <1>7, <1>8, <1>9, <1>10, <1>11, <1>12 DEF CpStep

(* A step of a save writes the data, then the CRC.                         *)
LEMMA SafeSaveStep ==
  ASSUME Safe, SaveStep PROVE Safe'
<1> USE DEF Safe
<1>1. at \in {"save_open", "save_data", "save_crc"} /\ UNCHANGED <<call, saved, retry>>
  BY DEF SaveStep, SaveOpen, SaveOpenFails, SaveData, SaveDataFails, SaveCrc, SaveCrcFails, ghosts, Failing
<1>2. call.fn = "save" /\ call.val \in saved /\ call.val \in Value /\ call.val \in Datum
  BY <1>1 DEF Labels, LoadLabel, Types, CallSet, Datum
<1>3. at' \in {"save_data", "save_crc", "done"} /\ err' \in Nat /\ n' \in Nat /\ fault' \in BOOLEAN /\ spoiled' \in BOOLEAN
  <2>1. n \in Nat /\ err \in Nat /\ fault \in BOOLEAN /\ spoiled \in BOOLEAN
    BY DEF Types
  <2>2. CASE SaveOpen
    BY <2>1, <2>2 DEF SaveOpen, Goto, ghosts
  <2>3. CASE SaveOpenFails
    BY <2>1, <2>3 DEF SaveOpenFails, Goto, Finish, Failing, ERR_FILE_OPEN
  <2>4. CASE SaveData
    BY <2>1, <2>4 DEF SaveData, Goto, ghosts
  <2>5. CASE SaveDataFails
    BY <2>1, <2>5 DEF SaveDataFails, Goto, Failing
  <2>6. CASE SaveCrc
    BY <2>1, <2>6 DEF SaveCrc, Goto, Finish, ghosts, ERR_NONE
  <2>7. CASE SaveCrcFails
    BY <2>1, <2>7 DEF SaveCrcFails, Goto, Finish, Failing, ERR_NONE
  <2> QED BY <2>2, <2>3, <2>4, <2>5, <2>6, <2>7 DEF SaveStep
<1>4. Labels'
  BY <1>1, <1>2, <1>3 DEF Labels, SaveLabel
<1>5. ASSUME UNCHANGED disk, Written' PROVE Safe'
  <2>1. Types'
    BY <1>1, <1>3, <1>5 DEF Types
  <2>2. Shapes'
    BY <1>1, <1>5, FilesKept
  <2> QED BY <1>4, <1>5, <2>1, <2>2
<1>6. ASSUME NEW c \in Seq(Block), FileShape(c, saved), Write("file", c),
             at' = "save_data" => c \in Seq(Datum) /\ Len(c) = n' /\ n' < Blocks,
             at' = "save_crc" => c \in Seq(Datum) /\ Len(c) <= Blocks
      PROVE  Safe'
  <2>1. disk'["file"] = c /\ disk'["bak"] = disk["bak"] /\ disk' \in [Name -> Seq(Block) \cup {Missing}]
    BY <1>6, WriteFacts DEF Name
  <2>2. Types'
    BY <1>1, <1>3, <2>1 DEF Types
  <2>3. Shapes'
    BY <1>1, <1>6, <2>1 DEF Shapes
  <2>4. Written'
    BY <1>3, <1>6, <2>1 DEF Written
  <2> QED BY <1>4, <2>2, <2>3, <2>4
<1>7. CASE SaveOpen
  <2>1. <<>> \in Seq(Datum) /\ <<>> \in Seq(Block) /\ FileShape(<<>>, saved) /\ Len(<<>>) = 0
    BY EmptyFile
  <2>2. Write("file", <<>>) /\ at' = "save_data" /\ n' = 0
    BY <1>7 DEF SaveOpen, Goto
  <2>3. Len(<<>>) = n' /\ n' < Blocks /\ at' # "save_crc"
    BY <2>1, <2>2, BlocksAssumption
  <2> QED BY <1>6, <2>1, <2>2, <2>3
<1>8. CASE SaveOpenFails
  <2>1. at' = "done" /\ UNCHANGED disk
    BY <1>8 DEF SaveOpenFails, Finish, Goto, files
  <2> QED BY <1>5, <2>1 DEF Written
<1>9. CASE SaveData
  <2> DEFINE c == Append(disk["file"], call.val)
  <2>1. disk["file"] \in Seq(Datum) /\ Len(disk["file"]) = n /\ n < Blocks /\ n \in Nat
    BY <1>9 DEF SaveData, Written, Types
  <2>2. c \in Seq(Datum) /\ Len(c) = n + 1
    BY <1>2, <2>1, DataAppended
  <2>3. Write("file", c) /\ n' = n + 1 /\ at' = IF n + 1 < Blocks THEN "save_data" ELSE "save_crc"
    BY <1>9 DEF SaveData, Goto
  <2> HIDE DEF c
  <2>4. Len(c) <= Blocks
    BY <2>1, <2>2, BlocksAssumption
  <2>5. c \in Seq(Block) /\ FileShape(c, saved)
    BY <2>2, <2>4, DataShape
  <2>6. at' = "save_data" => c \in Seq(Datum) /\ Len(c) = n' /\ n' < Blocks
    BY <2>2, <2>3
  <2> QED BY <1>6, <2>2, <2>3, <2>4, <2>5, <2>6
<1>10. CASE SaveDataFails
  <2>1. at' = "save_crc" /\ UNCHANGED disk /\ at = "save_data"
    BY <1>10 DEF SaveDataFails, Goto, files
  <2>2. disk["file"] \in Seq(Datum) /\ Len(disk["file"]) <= Blocks
    BY <2>1, BlocksAssumption DEF Written, Types
  <2> QED BY <1>5, <2>1, <2>2 DEF Written
<1>11. CASE SaveCrc
  <2> DEFINE c == Append(disk["file"], Crc(Data(call.val)))
  <2>1. disk["file"] \in Seq(Datum) /\ Len(disk["file"]) <= Blocks
    BY <1>11 DEF SaveCrc, Written
  <2>2. c \in Seq(Block) /\ FileShape(c, saved)
    BY <1>2, <2>1, CrcAppended DEF Types
  <2>3. Write("file", c) /\ at' = "done"
    BY <1>11 DEF SaveCrc, Finish, Goto
  <2> HIDE DEF c
  <2> QED BY <1>6, <2>2, <2>3
<1>12. CASE SaveCrcFails
  <2>1. at' = "done" /\ UNCHANGED disk
    BY <1>12 DEF SaveCrcFails, Finish, Goto, files
  <2> QED BY <1>5, <2>1 DEF Written
<1> QED BY <1>7, <1>8, <1>9, <1>10, <1>11, <1>12 DEF SaveStep

(* A step of a load outside the copy writes nothing.                       *)
LEMMA LoadSteps ==
  ASSUME Safe, LoadStep
  PROVE  /\ at \in {"read", "read_fail", "crc"} /\ call.fn = "load"
         /\ UNCHANGED <<disk, saved, spoiled>>
<1>1. at \in {"read", "read_fail", "crc"} /\ UNCHANGED <<disk, saved>>
  BY DEF LoadStep, ReadOpenFails, ReadShort, ReadWhole, ReadFail, CrcRight, CrcWrong, files, ghosts, Failing
<1>2. call.fn = "load"
  BY <1>1 DEF Safe, Labels, SaveLabel, Types, CallSet
<1>3. UNCHANGED spoiled
  BY <1>2 DEF LoadStep, ReadOpenFails, ReadShort, ReadWhole, ReadFail, CrcRight, CrcWrong, ghosts, Failing, Safe, Types
<1> QED BY <1>1, <1>2, <1>3

LEMMA SafeLoadStep == ASSUME Safe, LoadStep PROVE Safe'
<1>1. /\ at \in {"read", "read_fail", "crc"} /\ call.fn = "load"
      /\ UNCHANGED <<disk, saved, spoiled>>
  BY LoadSteps
<1>2. at' \in {"read", "read_fail", "crc", "done", "cp_open"} /\ call' \in CallSet /\ call'.fn = "load"
      /\ n' \in Nat /\ retry' \in Nat /\ err' \in Nat /\ fault' \in BOOLEAN
  <2>1. /\ n \in Nat /\ retry \in Nat /\ err \in Nat /\ fault \in BOOLEAN
        /\ call \in CallSet /\ Zero \in Datum
    BY DEF Safe, Types, Datum
  <2>2. CASE ReadOpenFails
    <3>1. fault' = TRUE
      BY <2>2 DEF ReadOpenFails, Failing
    <3>2. UNCHANGED <<at, n, call>> /\ retry' = retry + 1 /\ err' = 2
      BY <2>2 DEF ReadOpenFails, ERR_FILE_OPEN
    <3> QED BY <1>1, <2>1, <3>1, <3>2
  <2>3. CASE ReadShort
    BY <1>1, <2>1, <2>3 DEF ReadShort, ghosts, ERR_FILE_READ
  <2>4. CASE ReadWhole
    BY <1>1, <2>1, <2>4 DEF ReadWhole, Goto, ghosts
  <2>5. CASE ReadFail
    BY <1>1, <2>1, <2>5 DEF ReadFail, Finish, Goto, ghosts
  <2>6. CASE CrcRight
    BY <1>1, <2>1, <2>6 DEF CrcRight, Finish, Goto, ghosts, ERR_NONE
  <2>7. CASE CrcWrong
    <3>1. CASE call.again
      BY <1>1, <2>1, <2>7, <3>1 DEF CrcWrong, Finish, Goto, ghosts, ERR_DATA_CRC
    <3>2. CASE ~call.again
      <4>1. at' = "cp_open" /\ n' = 0 /\ retry' = 0 /\ err' = 0 /\ fault' = fault
        BY <2>7, <3>2 DEF CrcWrong, Goto, ghosts, ERR_NONE
      <4>2. call' = [fn |-> "load", val |-> Zero, again |-> TRUE]
        BY <2>7, <3>2 DEF CrcWrong
      <4>3. call' \in CallSet /\ call'.fn = "load"
        BY <2>1, <4>2 DEF CallSet
      <4> QED BY <2>1, <4>1, <4>3
    <3> QED BY <3>1, <3>2
  <2> QED BY <2>2, <2>3, <2>4, <2>5, <2>6, <2>7 DEF LoadStep
<1>3. Types'
  BY <1>1, <1>2 DEF Safe, Types
<1>4. Labels'
  BY <1>2 DEF Labels, LoadLabel
<1>5. Shapes'
  BY <1>1, FilesKept DEF Safe
<1>6. Written'
  BY <1>2 DEF Written
<1> QED BY <1>3, <1>4, <1>5, <1>6 DEF Safe

(* A call begins, returns, is killed or loses the power.                   *)
LEMMA IdleSafe ==
  ASSUME Types, Shapes', Leave, disk' \in [Name -> Seq(Block) \cup {Missing}],
         saved' = saved, spoiled' \in BOOLEAN
  PROVE  Safe'
<1>1. call' = NoCall /\ at' = "idle" /\ n' = 0 /\ retry' = 0 /\ err' = 0 /\ fault' = FALSE
  BY DEF Leave, Goto, ERR_NONE
<1>2. call' \in CallSet /\ call'.fn = "none"
  BY <1>1 DEF NoCall, CallSet, Datum
<1> QED BY <1>1, <1>2 DEF Safe, Types, Labels, Written

LEMMA SafeOtherStep ==
  ASSUME Safe,
         \/ \E v \in Value : CallSave(v)
         \/ CallLoad \/ Return \/ Kill \/ PowerFails
         \/ \E f \in Name : WriteBack(f)
         \/ UNCHANGED vars
  PROVE  Safe'
<1>1. ASSUME NEW v \in Value, CallSave(v) PROVE Safe'
  <2>1. at' \in {"save_open", "cp_open"} /\ n' = 0 /\ saved' = saved \cup {v} /\ fault' = FALSE
        /\ UNCHANGED <<disk, retry, err>>
    BY <1>1 DEF CallSave, Goto, files
  <2>2. call' \in CallSet /\ call'.fn = "save" /\ call'.val = v
    BY <1>1 DEF CallSave, CallSet, Datum
  <2>3. spoiled' \in BOOLEAN /\ saved' \in SUBSET Value
    BY <1>1, <2>1 DEF CallSave, Safe, Types
  <2>4. Types'
    BY <2>1, <2>2, <2>3 DEF Safe, Types
  <2>5. Labels'
    BY <2>1, <2>2 DEF Labels, SaveLabel
  <2>6. Shapes'
    BY <2>1, FilesKept DEF Safe
  <2>7. Written'
    BY <2>1 DEF Written
  <2> QED BY <2>4, <2>5, <2>6, <2>7 DEF Safe
<1>2. CASE CallLoad
  <2>1. at' \in {"read", "cp_open"} /\ n' = 0 /\ retry' = 0 /\ err' = 0 /\ fault' = FALSE
        /\ UNCHANGED <<disk, saved, spoiled>>
    BY <1>2 DEF CallLoad, Goto, files, ERR_NONE
  <2>2. call' \in CallSet /\ call'.fn = "load"
    BY <1>2 DEF CallLoad, CallSet, Datum
  <2>3. Types'
    BY <2>1, <2>2 DEF Safe, Types
  <2>4. Labels'
    BY <2>1, <2>2 DEF Labels, LoadLabel
  <2>5. Shapes'
    BY <2>1, FilesKept DEF Safe
  <2>6. Written'
    BY <2>1 DEF Written
  <2> QED BY <2>3, <2>4, <2>5, <2>6 DEF Safe
<1>3. CASE Return \/ Kill
  <2>1. Leave /\ UNCHANGED <<disk, saved, spoiled>>
    BY <1>3 DEF Return, Kill, files
  <2>2. Shapes'
    BY <2>1, FilesKept DEF Safe
  <2> QED BY <2>1, <2>2, IdleSafe DEF Safe, Types
<1>4. CASE PowerFails
  <2>1. PICK c \in Comes("file"), d \in Comes("bak") :
          disk' = [f \in Name |-> IF f = "file" THEN c ELSE d]
    BY <1>4 DEF PowerFails, Name
  <2>2. FileShape(c, saved) /\ c \in Seq(Block) \cup {Missing}
    BY <2>1, DamagedShape DEF Comes, Safe, Shapes, FileShape
  <2>3. FileShape(d, saved) /\ d \in Seq(Block) \cup {Missing}
    BY <2>1, DamagedShape DEF Comes, Safe, Shapes, FileShape
  <2>4. Leave /\ saved' = saved /\ spoiled' \in BOOLEAN
    BY <1>4 DEF PowerFails, Safe, Types
  <2>5. disk'["file"] = c /\ disk'["bak"] = d
    BY <2>1 DEF Name
  <2>6. Shapes'
    BY <2>2, <2>3, <2>4, <2>5 DEF Shapes
  <2> QED BY <2>1, <2>2, <2>3, <2>4, <2>6, IdleSafe DEF Safe
<1>5. CASE \/ \E f \in Name : WriteBack(f)
           \/ UNCHANGED vars
  <2>1. UNCHANGED <<disk, at, n, call, retry, err, ghosts>>
    BY <1>5 DEF WriteBack, vars, files
  <2> QED BY <2>1 DEF Safe, Types, Labels, Shapes, Written, Copied, From, To, ghosts
<1> QED BY <1>1, <1>2, <1>3, <1>4, <1>5

LEMMA SafeStep == ASSUME Safe, [Next]_vars PROVE Safe'
<1>1. \/ \E v \in Value : CallSave(v)
      \/ CallLoad \/ CpStep \/ SaveStep \/ LoadStep \/ Return
      \/ Kill \/ PowerFails
      \/ \E f \in Name : WriteBack(f)
      \/ UNCHANGED vars
  BY DEF Next, Name
<1> QED BY <1>1, SafeCopyStep, SafeSaveStep, SafeLoadStep, SafeOtherStep

-----------------------------------------------------------------------------
(* So is the rest of the invariant.                                        *)

Rest == Loading /\ Keeping /\ LoadOkIsSaved /\ LoadRecovers
FInv == Safe /\ Rest

LEMMA MissingIsBad == ~Good(Missing)
BY DEF Good, Whole

LEMMA RestCopyStep == ASSUME FInv, CpStep PROVE Rest'
<1> USE DEF FInv
<1>1. From \in Name /\ To \in Name /\ From # To
  BY DEF From, To, Name
<1>2. at \in {"cp_open", "cp_copy"} /\ UNCHANGED <<call, saved>> /\ call.fn \in {"save", "load"}
  <2>1. at \in {"cp_open", "cp_copy"} /\ UNCHANGED <<call, saved>>
    BY DEF CpStep, CpOpen, CpNoSource, CpOpenFails, CpCopy, CpCopyFails, CpDone, ghosts, Failing
  <2> QED BY <2>1 DEF Safe, Labels, Types, CallSet
<1>3. call.fn = "save" => From = "file" /\ To = "bak"
  BY DEF From, To
<1>4. call.fn = "load" => From = "bak" /\ To = "file"
  BY DEF From, To
<1>5. ASSUME at' = "cp_copy", disk[From] # Missing, disk'[From] = disk[From], UNCHANGED <<retry, err, spoiled>>
      PROVE  Rest'
  <2>1. Loading'
    BY <1>2, <1>5 DEF Rest, Loading
  <2>2. Keeping'
    <3>1. CASE call.fn = "save"
      BY <1>2, <1>3, <1>5, <3>1 DEF Rest, Keeping
    <3>2. CASE call.fn = "load"
      BY <1>2, <1>4, <1>5, <3>2 DEF Rest, Keeping, BakKept
    <3> QED BY <1>2, <3>1, <3>2
  <2>3. LoadOkIsSaved' /\ LoadRecovers'
    BY <1>5 DEF LoadOkIsSaved, LoadRecovers
  <2> QED BY <2>1, <2>2, <2>3 DEF Rest
<1>6. ASSUME CpEnds(FALSE), UNCHANGED <<disk, retry>>,
             call.fn = "save" => spoiled' \/ (~Good(disk["file"]) /\ spoiled' = spoiled),
             call.fn = "load" => spoiled' = spoiled /\ (fault' \/ ~Good(disk["bak"]))
      PROVE  Rest'
  <2>1. CASE call.fn = "save"
    <3>1. at' = "save_open" /\ call'.fn = "save"
      BY <1>2, <1>6, <2>1 DEF CpEnds, Goto
    <3>2. spoiled'
      BY <1>2, <1>6, <2>1 DEF Rest, Keeping
    <3> QED BY <3>1, <3>2 DEF Rest, Loading, Keeping, LoadOkIsSaved, LoadRecovers
  <2>2. CASE call.fn = "load"
    <3>1. at' = "done" /\ call'.fn = "load" /\ err' # ERR_NONE
      BY <1>2, <1>6, <2>2 DEF CpEnds, Finish, Goto, ERR_DATA_CRC, ERR_FILE_NOT_EXIST, ERR_NONE
    <3>2. Keeping'
      BY <1>6, <2>2, <3>1 DEF Rest, Keeping
    <3>3. LoadRecovers'
      BY <1>6, <2>2 DEF LoadRecovers
    <3> QED BY <3>1, <3>2, <3>3 DEF Rest, Loading, LoadOkIsSaved
  <2> QED BY <1>2, <2>1, <2>2
<1>7. CASE CpOpen
  <2>1. Write(To, <<>>) /\ disk[From] # Missing /\ at' = "cp_copy" /\ UNCHANGED <<retry, err, spoiled>>
    BY <1>7 DEF CpOpen, Goto, ghosts
  <2>2. disk'[From] = disk[From]
    BY <1>1, <2>1, WriteFacts, EmptyFile DEF Safe
  <2> QED BY <1>5, <2>1, <2>2
<1>8. CASE CpCopy
  <2>1. disk[From] # Missing
    BY <1>8 DEF CpCopy, Safe, Written, Copied
  <2>2. at' = "cp_copy" /\ UNCHANGED <<retry, err, spoiled>> /\ disk' = [disk EXCEPT ![To] = Append(disk[To], disk[From][n + 1])]
    BY <1>8 DEF CpCopy, Goto, ghosts, Write
  <2>3. disk'[From] = disk[From]
    BY <1>1, <2>2 DEF Safe, Types
  <2> QED BY <1>5, <2>1, <2>2, <2>3
<1>9. CASE CpNoSource
  <2>1. CpEnds(FALSE) /\ UNCHANGED <<disk, retry>> /\ spoiled' = spoiled /\ ~Good(disk[From])
    BY <1>9, MissingIsBad DEF CpNoSource, files, ghosts
  <2> QED BY <1>3, <1>4, <1>6, <2>1
<1>10. CASE CpOpenFails \/ CpCopyFails
  <2>1. CpEnds(FALSE) /\ UNCHANGED <<disk, retry>> /\ Failing
    BY <1>10 DEF CpOpenFails, CpCopyFails, files
  <2>2. call.fn = "save" => spoiled' \/ (~Good(disk["file"]) /\ spoiled' = spoiled)
    BY <2>1 DEF Failing
  <2>3. call.fn = "load" => spoiled' = spoiled /\ (fault' \/ ~Good(disk["bak"]))
    BY <2>1 DEF Failing, Safe, Types
  <2> QED BY <1>6, <2>1, <2>2, <2>3
<1>11. CASE CpDone
  <2>1. CpEnds(TRUE) /\ UNCHANGED <<disk, retry, spoiled, fault>> /\ at = "cp_copy" /\ n = Len(disk[From])
    BY <1>11 DEF CpDone, files, ghosts
  <2>2. disk[To] = SubSeq(disk[From], 1, n) /\ disk[From] # Missing
    BY <2>1 DEF Safe, Written, Copied
  <2>3. disk[From] \in Seq(Block)
    BY <1>1, <2>2 DEF Safe, Types
  <2>4. disk[To] = disk[From]
    BY <2>1, <2>2, <2>3, AllCopied
  <2>5. CASE call.fn = "save"
    <3>1. at' = "save_open" /\ call'.fn = "save"
      BY <1>2, <2>1, <2>5 DEF CpEnds, Goto
    <3>2. Keeping'
      BY <1>2, <1>3, <2>1, <2>4, <2>5, <3>1 DEF Rest, Keeping, BakKept
    <3> QED BY <3>1, <3>2 DEF Rest, Loading, LoadOkIsSaved, LoadRecovers
  <2>6. CASE call.fn = "load"
    <3>1. at' = "read" /\ call'.fn = "load" /\ err' = err
      BY <1>2, <2>1, <2>6 DEF CpEnds, Goto
    <3>2. Loading'
      BY <1>2, <1>4, <2>1, <2>4, <2>6, <3>1 DEF Rest, Loading
    <3>3. Keeping'
      BY <2>1, <3>1 DEF Rest, Keeping
    <3> QED BY <3>1, <3>2, <3>3 DEF Rest, LoadOkIsSaved, LoadRecovers
  <2> QED BY <1>2, <2>5, <2>6
<1> QED BY <1>7, <1>8, <1>9, <1>10, <1>11 DEF CpStep

LEMMA RestSaveStep == ASSUME FInv, SaveStep PROVE Rest'
<1> USE DEF FInv
<1>1. at \in {"save_open", "save_data", "save_crc"} /\ UNCHANGED call
  BY DEF SaveStep, SaveOpen, SaveOpenFails, SaveData, SaveDataFails, SaveCrc, SaveCrcFails, ghosts, Failing
<1>2. call'.fn = "save" /\ call.fn = "save"
  BY <1>1 DEF Safe, Labels, LoadLabel, Types, CallSet
<1>3. CASE SaveOpen \/ SaveData \/ SaveCrc
  <2>1. UNCHANGED spoiled /\ at' \in {"save_data", "save_crc", "done"}
    BY <1>3 DEF SaveOpen, SaveData, SaveCrc, Finish, Goto, ghosts
  <2>2. \E c : disk' = [disk EXCEPT !["file"] = c]
    BY <1>3 DEF SaveOpen, SaveData, SaveCrc, Write
  <2>3. disk'["bak"] = disk["bak"]
    BY <2>2 DEF Safe, Types, Name
  <2>4. Keeping'
    BY <1>1, <2>1, <2>3 DEF Rest, Keeping, BakKept
  <2> QED BY <1>2, <2>4 DEF Rest, Loading, LoadOkIsSaved, LoadRecovers
<1>4. CASE SaveOpenFails \/ SaveDataFails \/ SaveCrcFails
  <2>1. spoiled'
    BY <1>2, <1>4 DEF SaveOpenFails, SaveDataFails, SaveCrcFails, Failing
  <2> QED BY <1>2, <2>1 DEF Rest, Loading, Keeping, LoadOkIsSaved, LoadRecovers
<1> QED BY <1>3, <1>4 DEF SaveStep

LEMMA RestLoadStep == ASSUME FInv, LoadStep PROVE Rest'
<1> USE DEF FInv
<1>1. /\ at \in {"read", "read_fail", "crc"} /\ call.fn = "load"
      /\ UNCHANGED <<disk, saved, spoiled>>
  BY LoadSteps
<1>2. retry \in Nat /\ err \in Nat
  BY DEF Safe, Types
<1>3. at' \notin {"cp_open", "cp_copy", "save_open", "save_data", "save_crc"} => Keeping'
  BY <1>1 DEF Rest, Keeping
<1>4. at' # "done" => LoadOkIsSaved' /\ LoadRecovers'
  BY DEF LoadOkIsSaved, LoadRecovers
<1>5. CASE ReadOpenFails \/ ReadShort
  <2>1. at' = "read" /\ call' = call /\ err' \in {ERR_FILE_OPEN, ERR_FILE_READ} /\ at = "read"
    BY <1>5 DEF ReadOpenFails, ReadShort
  <2>2. fault' \/ fault' = fault
    BY <1>5 DEF ReadOpenFails, ReadShort, Failing, ghosts
  <2>3. Loading'
    BY <1>1, <2>1, <2>2 DEF Rest, Loading
  <2> QED BY <1>3, <1>4, <2>1, <2>3 DEF Rest
<1>6. CASE ReadWhole
  <2>1. at = "read" /\ retry < 3 /\ UNCHANGED <<call, err, fault>>
        /\ at' = IF retry + 1 >= 3 THEN "read_fail" ELSE "crc"
    BY <1>6 DEF ReadWhole, Goto, ghosts
  <2>2. at' = "read_fail" => retry > 0
    BY <1>2, <2>1
  <2>3. Loading'
    BY <1>1, <2>1, <2>2 DEF Rest, Loading
  <2> QED BY <1>3, <1>4, <2>1, <2>3 DEF Rest
<1>7. CASE ReadFail
  <2>1. at' = "done" /\ err' = err /\ call' = call /\ (at = "read_fail" \/ (at = "read" /\ retry > 0))
    BY <1>2, <1>7 DEF ReadFail, Finish, Goto
  <2>2. err \in {ERR_FILE_OPEN, ERR_FILE_READ}
    BY <1>1, <2>1 DEF Rest, Loading
  <2>3. LoadOkIsSaved' /\ LoadRecovers'
    BY <2>1, <2>2 DEF LoadOkIsSaved, LoadRecovers, ERR_NONE, ERR_FILE_OPEN, ERR_FILE_READ, ERR_DATA_CRC, ERR_FILE_NOT_EXIST
  <2> QED BY <1>3, <2>1, <2>3 DEF Rest, Loading
<1>8. CASE CrcRight
  <2>1. at' = "done" /\ err' = ERR_NONE /\ got' = DataOf(disk["file"]) /\ Good(disk["file"])
    BY <1>8 DEF CrcRight, Finish, Goto
  <2>2. got' \in {Data(v) : v \in saved \cup {Zero}}
    BY <2>1, GoodIsSaved DEF Safe, Shapes, Types
  <2>3. LoadOkIsSaved'
    BY <1>1, <2>2 DEF LoadOkIsSaved
  <2>4. LoadRecovers'
    BY <2>1 DEF LoadRecovers, ERR_NONE, ERR_DATA_CRC, ERR_FILE_NOT_EXIST
  <2> QED BY <1>3, <2>1, <2>3, <2>4 DEF Rest, Loading
<1>9. CASE CrcWrong
  <2>1. ~Good(disk["file"]) /\ at = "crc" /\ fault' = fault
    BY <1>9 DEF CrcWrong, ghosts
  <2>2. CASE call.again
    <3>1. at' = "done" /\ err' = ERR_DATA_CRC /\ call' = call
      BY <1>9, <2>2 DEF CrcWrong, Finish, Goto
    <3>2. ~fault => disk["file"] = disk["bak"]
      BY <1>1, <2>1, <2>2 DEF Rest, Loading
    <3>3. LoadRecovers'
      BY <1>1, <2>1, <3>2 DEF LoadRecovers
    <3>4. LoadOkIsSaved'
      BY <3>1 DEF LoadOkIsSaved, ERR_NONE, ERR_DATA_CRC
    <3> QED BY <1>3, <3>1, <3>3, <3>4 DEF Rest, Loading
  <2>3. CASE ~call.again
    <3>1. at' = "cp_open" /\ retry' = 0 /\ call' = [fn |-> "load", val |-> Zero, again |-> TRUE]
      BY <1>9, <2>3 DEF CrcWrong, Goto
    <3>2. call'.fn = "load"
      BY <3>1
    <3>3. Loading'
      BY <1>1, <2>1, <3>1 DEF Loading
    <3>4. Keeping'
      BY <1>1, <2>1, <3>1, <3>2 DEF Rest, Keeping, BakKept
    <3> QED BY <1>4, <3>1, <3>3, <3>4 DEF Rest
  <2> QED BY <2>2, <2>3
<1> QED BY <1>5, <1>6, <1>7, <1>8, <1>9 DEF LoadStep

LEMMA RestOtherStep ==
  ASSUME FInv,
         \/ \E v \in Value : CallSave(v)
         \/ CallLoad \/ Return \/ Kill \/ PowerFails
         \/ \E f \in Name : WriteBack(f)
         \/ UNCHANGED vars
  PROVE  Rest'
<1> USE DEF FInv
<1>1. ASSUME NEW v \in Value, CallSave(v) PROVE Rest'
  <2>1. UNCHANGED disk /\ at' = (IF disk["file"] = Missing THEN "save_open" ELSE "cp_open")
    BY <1>1 DEF CallSave, Goto, files
  <2>2. call'.fn = "save"
    BY <1>1 DEF CallSave
  <2>3. ~spoiled' => ~spoiled /\ ~Harmed(disk["file"])
    BY <1>1 DEF CallSave
  <2>4. Keeping'
    BY <2>1, <2>2, <2>3, MissingIsBad DEF Rest, Keeping, BakKept, Harmed
  <2> QED BY <2>2, <2>4 DEF Rest, Loading, LoadOkIsSaved, LoadRecovers
<1>2. CASE CallLoad
  <2>1. UNCHANGED <<disk, spoiled>> /\ at' = (IF disk["file"] = Missing THEN "cp_open" ELSE "read") /\ retry' = 0
    BY <1>2 DEF CallLoad, Goto, files
  <2>2. call'.fn = "load" /\ ~call'.again
    BY <1>2 DEF CallLoad
  <2>3. Keeping'
    BY <2>1, <2>2, MissingIsBad DEF Rest, Keeping, BakKept
  <2>4. Loading'
    BY <2>1, <2>2, MissingIsBad DEF Loading
  <2> QED BY <2>1, <2>3, <2>4 DEF Rest, LoadOkIsSaved, LoadRecovers
<1>3. CASE Return \/ Kill \/ PowerFails
  <2>1. at' = "idle" /\ call'.fn = "none"
    BY <1>3 DEF Return, Kill, PowerFails, Leave, Goto, NoCall
  <2>2. ~spoiled' => ~spoiled /\ disk' = disk
    BY <1>3 DEF Return, Kill, PowerFails, files
  <2>3. Keeping'
    BY <2>1, <2>2 DEF Rest, Keeping
  <2> QED BY <2>1, <2>3 DEF Rest, Loading, LoadOkIsSaved, LoadRecovers
<1>4. CASE \/ \E f \in Name : WriteBack(f)
           \/ UNCHANGED vars
  <2>1. UNCHANGED <<disk, at, call, retry, err, got, saved, spoiled, fault>>
    BY <1>4 DEF WriteBack, vars, files, ghosts
  <2> QED BY <2>1 DEF Rest, Loading, Keeping, BakKept, LoadOkIsSaved, LoadRecovers
<1> QED BY <1>1, <1>2, <1>3, <1>4

-----------------------------------------------------------------------------
(* The invariant holds.                                                    *)
THEOREM Invariant == Spec => []FInv
<1>1. Init => FInv
  <2> SUFFICES ASSUME Init PROVE FInv
    OBVIOUS
  <2>1. at = "idle" /\ n = 0 /\ retry = 0 /\ err = 0 /\ saved = {} /\ spoiled = FALSE /\ fault = FALSE
        /\ disk = [f \in Name |-> Missing]
    BY DEF Init, ERR_NONE, Name
  <2>2. call \in CallSet /\ call.fn = "none"
    BY DEF Init, NoCall, CallSet, Datum
  <2>3. disk["file"] = Missing /\ disk["bak"] = Missing
    BY <2>1 DEF Name
  <2>4. Types
    BY <2>1, <2>2 DEF Types
  <2>5. Shapes
    BY <2>3 DEF Shapes, FileShape
  <2>6. Labels /\ Written
    BY <2>1, <2>2 DEF Labels, Written
  <2>7. Rest
    BY <2>1, <2>2, <2>3 DEF Rest, Loading, Keeping, LoadOkIsSaved, LoadRecovers
  <2> QED BY <2>4, <2>5, <2>6, <2>7 DEF FInv, Safe
<1>2. FInv /\ [Next]_vars => FInv'
  <2> SUFFICES ASSUME FInv, [Next]_vars PROVE FInv'
    OBVIOUS
  <2>1. Safe'
    BY SafeStep DEF FInv
  <2>2. \/ \E v \in Value : CallSave(v)
        \/ CallLoad \/ CpStep \/ SaveStep \/ LoadStep \/ Return
        \/ Kill \/ PowerFails
        \/ \E f \in Name : WriteBack(f)
        \/ UNCHANGED vars
    BY DEF Next, Name
  <2>3. Rest'
    BY <2>2, RestCopyStep, RestSaveStep, RestLoadStep, RestOtherStep
  <2> QED BY <2>1, <2>3 DEF FInv
<1> QED BY <1>1, <1>2, PTL DEF Spec

(* Through every kill one of the two files holds a whole block and its CRC,*)
(* for any number and size of the values saved.                            *)
THEOREM KeepsOne == Spec => []OneGoodCopy
<1>1. FInv => OneGoodCopy
  BY DEF FInv, Rest, Keeping, OneGoodCopy
<1> QED BY <1>1, Invariant, PTL

(* A load that succeeds answers what one save was given, or zeroes.        *)
THEOREM AnswersSaved == Spec => []LoadOkIsSaved
<1>1. FInv => LoadOkIsSaved
  BY DEF FInv, Rest
<1> QED BY <1>1, Invariant, PTL

(* A load gives up only when the backup is no better.                      *)
THEOREM Recovers == Spec => []LoadRecovers
<1>1. FInv => LoadRecovers
  BY DEF FInv, Rest
<1> QED BY <1>1, Invariant, PTL

(* No step of a load but the loss of power writes a good file: it copies   *)
(* over one that is not, and a copy is not good before its last block.     *)
THEOREM KeepsGood == Spec => LoadKeepsGoodFile
<1>1. FInv /\ [Next]_vars => [(call.fn = "load" /\ Good(disk["file"]) /\ at' # "idle") => disk'["file"] = disk["file"]]_vars
  <2> SUFFICES ASSUME FInv, [Next]_vars, call.fn = "load", Good(disk["file"]), at' # "idle"
               PROVE  disk'["file"] = disk["file"]
    OBVIOUS
  <2> USE DEF FInv
  <2>1. From = "bak" /\ To = "file" /\ at \in LoadLabel
    BY DEF From, To, Safe, Labels
  <2>2. CASE CpOpen
    BY <2>1, <2>2 DEF CpOpen, Rest, Loading
  <2>3. CASE CpCopy
    <3>1. disk["file"] = SubSeq(disk["bak"], 1, n) /\ n < Len(disk["bak"]) /\ disk["bak"] # Missing /\ n \in Nat
      BY <2>1, <2>3 DEF CpCopy, Safe, Written, Copied, Types
    <3>2. FileShape(disk["bak"], saved) /\ n \in 0..Len(disk["bak"]) /\ Len(disk["bak"]) <= Blocks + 1
      BY <3>1 DEF Safe, Shapes, FileShape
    <3>3. Len(disk["file"]) = n
      BY <3>1, <3>2, PrefixShape
    <3>4. Len(disk["file"]) = Blocks + 1
      BY DEF Good, Whole
    <3> QED BY <3>1, <3>2, <3>3, <3>4, BlocksAssumption
  <2>4. CASE SaveStep
    BY <2>1, <2>4 DEF LoadLabel, SaveStep, SaveOpen, SaveOpenFails, SaveData, SaveDataFails, SaveCrc, SaveCrcFails
  <2>5. CASE (\E v \in Value : CallSave(v)) \/ CallLoad
    BY <2>1, <2>5 DEF LoadLabel, CallSave, CallLoad
  <2>6. CASE Return \/ Kill \/ PowerFails
    BY <2>6 DEF Return, Kill, PowerFails, Leave, Goto
  <2>7. CASE CpNoSource \/ CpOpenFails \/ CpCopyFails \/ CpDone
    BY <2>7 DEF CpNoSource, CpOpenFails, CpCopyFails, CpDone, files
  <2>8. CASE LoadStep
    BY <2>8, LoadSteps
  <2>9. CASE (\E f \in {"file", "bak"} : WriteBack(f)) \/ UNCHANGED vars
    BY <2>9 DEF WriteBack, vars, files
  <2> QED BY <2>2, <2>3, <2>4, <2>5, <2>6, <2>7, <2>8, <2>9 DEF Next, CpStep
<1> QED BY <1>1, Invariant, PTL DEF Spec, LoadKeepsGoodFile

-----------------------------------------------------------------------------
(* The log, LogRotate.  Its invariant says of a call that nobody joined    *)
(* how far it has come, between the two files, in copying the old log.     *)

Label == {"idle", "exists", "new_open", "new_write", "cp_read", "cp_write", "bak_open", "log_open",
          "measure", "read", "write", "append", "unlink", "done"}

LogTypes == /\ log \in Seq(Unit) \cup {NoLog}
            /\ bak \in Inode \cup {0}
            /\ ino \in [Inode -> Seq(Unit)]
            /\ where \in [Writer -> Label]
            /\ rec \in [Writer -> Seq(Unit)]
            /\ fd \in [Writer -> Inode \cup {0}]
            /\ rpos \in [Writer -> Nat]
            /\ wpos \in [Writer -> Nat]
            /\ buf \in [Writer -> Seq(Unit)]
            /\ old \in Seq(Unit)

(* Where a writer has a file open, where it has copied nothing yet, and    *)
(* where the log has been made.                                            *)
Opened(w) == where[w] \in {"cp_read", "cp_write", "log_open", "measure", "read", "write", "append", "unlink"}
                  => fd[w] \in Inode
Fresh(w) == where[w] \in {"idle", "exists", "new_open", "new_write", "bak_open", "log_open", "measure"}
                 => wpos[w] = 0 /\ rpos[w] = 0
Made(w) == where[w] \notin {"idle", "exists", "new_open"} => log # NoLog

Shape == LogTypes /\ \A w \in Writer : Opened(w) /\ Fresh(w) /\ Made(w)

(* The units of a file after the first m, up to the h-th.                  *)
Piece(c, m, h) == SubSeq(c, m + 1, h)

(* What a call leaves out of the old log.                                  *)
Skip(w) == Max({0, Len(rec[w]) + Len(old) - MaxSize})
BakIsOld == bak # 0 /\ ino[bak] = old

(* From the log to the .bak: the old log is in the log.                    *)
Saving(w) ==
  /\ where[w] = "exists" => Content(log) = old
  /\ where[w] = "new_open" => log = NoLog /\ old = <<>>
  /\ where[w] = "new_write" => log = <<>> /\ old = <<>>
  /\ where[w] \in {"cp_read", "cp_write", "bak_open", "log_open"} => log = old
  /\ where[w] \in {"cp_read", "cp_write"} => /\ bak # 0 /\ bak = fd[w]
                                             /\ wpos[w] <= rpos[w] /\ rpos[w] <= Len(old)
                                             /\ ino[bak] = Piece(old, 0, wpos[w])
  /\ where[w] = "cp_read" => wpos[w] = rpos[w]
  /\ where[w] = "cp_write" => buf[w] = Piece(old, wpos[w], rpos[w])

(* From the .bak to the log: the old log is in the .bak, and the log has   *)
(* its units from Skip on.                                                 *)
Restoring(w) ==
  /\ where[w] \in {"bak_open", "log_open", "measure", "read", "write", "append", "unlink"} => BakIsOld
  /\ where[w] \in {"log_open", "measure", "read", "write", "append", "unlink"} => fd[w] = bak
  /\ where[w] = "measure" => log = <<>>
  /\ where[w] = "read" => /\ rpos[w] = Skip(w) + wpos[w]
                          /\ wpos[w] = 0 \/ rpos[w] <= Len(old)
                          /\ log = Piece(old, Skip(w), rpos[w])
  /\ where[w] = "write" => /\ Skip(w) + wpos[w] <= rpos[w] /\ rpos[w] <= Len(old)
                           /\ log = Piece(old, Skip(w), Skip(w) + wpos[w])
                           /\ buf[w] = Piece(old, Skip(w) + wpos[w], rpos[w])
  /\ where[w] = "append" => log = Piece(old, Skip(w), Len(old)) /\ wpos[w] = Len(log)
  /\ where[w] \in {"unlink", "done"} => log = Appended(old, rec[w])

Alone == \A v, w \in Writer : Busy(v) /\ Busy(w) => v = w

(* A call that was killed has left the old log in one of the files.        *)
Left == (\A w \in Writer : ~Busy(w)) => Content(log) = old \/ BakIsOld

CalmInv == calm => Alone /\ Left /\ \A w \in Writer : Saving(w) /\ Restoring(w)

LogIInv == Shape /\ CalmInv

-----------------------------------------------------------------------------
(* The operators of the model.                                             *)

LEMMA MaxOfTwo == ASSUME NEW a \in Int, NEW b \in Int
                  PROVE  Max({a, b}) = IF a >= b THEN a ELSE b
BY DEF Max

LEMMA MinOfTwo == ASSUME NEW a \in Int, NEW b \in Int
                  PROVE  Min({a, b}) = IF a <= b THEN a ELSE b
BY DEF Min

LEMMA Sizes == /\ MaxSize \in Nat \ {0} /\ Chunk \in Nat \ {0} /\ RecLens \subseteq Nat \ {0}
               /\ Inode \subseteq Nat \ {0} /\ Hole \in Unit
<1>1. Cardinality(Writer) \in Nat
  BY WriterAssumption, FS_CardinalityType
<1> QED BY <1>1, SizesAssumption DEF Inode, Unit

LEMMA WriteAtType ==
  ASSUME NEW c \in Seq(Unit), NEW p \in Nat, NEW d \in Seq(Unit)
  PROVE  WriteAt(c, p, d) \in Seq(Unit)
<1> DEFINE h == Max({Len(c), p + Len(d)})
           e(k) == IF k \in (p + 1)..(p + Len(d)) THEN d[k - p] ELSE IF k <= Len(c) THEN c[k] ELSE Hole
<1>1. h \in Nat
  BY MaxOfTwo
<1>2. \A k \in 1..h : e(k) \in Unit
  <2> SUFFICES ASSUME NEW k \in 1..h PROVE e(k) \in Unit
    OBVIOUS
  <2>1. CASE k \in (p + 1)..(p + Len(d))
    <3>1. k - p \in 1..Len(d)
      BY <2>1
    <3> QED BY <2>1, <3>1, ElementOfSeq
  <2>2. CASE ~(k \in (p + 1)..(p + Len(d))) /\ k <= Len(c)
    <3>1. k \in 1..Len(c)
      BY <2>2, <1>1
    <3> QED BY <2>2, <3>1, ElementOfSeq
  <2>3. CASE ~(k \in (p + 1)..(p + Len(d))) /\ ~(k <= Len(c))
    BY <2>3, Sizes
  <2> QED BY <2>1, <2>2, <2>3
<1>3. [k \in 1..h |-> e(k)] \in Seq(Unit)
  <2> HIDE DEF h, e
  <2> QED BY <1>1, <1>2, IsASeq
<1> QED BY <1>3 DEF WriteAt

(* A write at the end of a file adds to it.                                *)
LEMMA WriteAtEnd ==
  ASSUME NEW c \in Seq(Unit), NEW d \in Seq(Unit)
  PROVE  WriteAt(c, Len(c), d) = c \o d
<1>1. Max({Len(c), Len(c) + Len(d)}) = Len(c) + Len(d)
  BY MaxOfTwo, LenProperties
<1>2. WriteAt(c, Len(c), d) \in Seq(Unit) /\ c \o d \in Seq(Unit)
  BY WriteAtType, ConcatProperties, LenProperties
<1>3. Len(WriteAt(c, Len(c), d)) = Len(c) + Len(d) /\ Len(c \o d) = Len(c) + Len(d)
  BY <1>1, ConcatProperties, LenProperties DEF WriteAt
<1>4. ASSUME NEW k \in 1..(Len(c) + Len(d)) PROVE WriteAt(c, Len(c), d)[k] = (c \o d)[k]
  BY <1>1, ConcatProperties, LenProperties DEF WriteAt
<1> QED BY <1>2, <1>3, <1>4, SeqEqual

(* Pieces of a file.                                                       *)
LEMMA PieceLen ==
  ASSUME NEW c \in Seq(Unit), NEW m \in Nat, NEW h \in Nat, h <= Len(c)
  PROVE  Piece(c, m, h) \in Seq(Unit) /\ Len(Piece(c, m, h)) = IF m <= h THEN h - m ELSE 0
<1>1. \A k \in (m + 1)..h : c[k] \in Unit
  BY ElementOfSeq, LenProperties
<1>2. /\ SubSeq(c, m + 1, h) \in Seq(Unit)
      /\ Len(SubSeq(c, m + 1, h)) = IF m + 1 <= h THEN h - (m + 1) + 1 ELSE 0
  BY <1>1, SubSeqProperties
<1> QED BY <1>2 DEF Piece

LEMMA NoPiece == ASSUME NEW c, NEW m \in Nat, NEW h \in Nat, h <= m
                 PROVE  Piece(c, m, h) = <<>>
BY SubSeqEmpty DEF Piece

LEMMA WholePiece == ASSUME NEW c \in Seq(Unit)
                    PROVE  Piece(c, 0, Len(c)) = c
BY SubSeqFull DEF Piece

LEMMA NextPiece ==
  ASSUME NEW c \in Seq(Unit), NEW m \in Nat, NEW k \in Nat, NEW h \in Nat, m <= k, k <= h, h <= Len(c)
  PROVE  Piece(c, m, k) \o Piece(c, k, h) = Piece(c, m, h)
<1>1. Len(c) \in Nat /\ m + 1 \in 1..(Len(c) + 1) /\ k \in (m + 1 - 1)..Len(c) /\ h \in k..Len(c)
  BY LenProperties
<1>2. SubSeq(c, m + 1, k) \o SubSeq(c, k + 1, h) = SubSeq(c, m + 1, h)
  BY <1>1, ConcatAdjacentSubSeq
<1> QED BY <1>2 DEF Piece

(* A read gets the next piece, and nothing only at the end of the file.    *)
LEMMA ReadAtPiece ==
  ASSUME NEW c \in Seq(Unit), NEW p \in Nat
  PROVE  /\ ReadAt(c, p) \in Seq(Unit)
         /\ ReadAt(c, p) = <<>> => p >= Len(c)
         /\ ReadAt(c, p) # <<>> => \E q \in Nat : /\ p < q /\ q <= Len(c)
                                                /\ ReadAt(c, p) = Piece(c, p, q)
                                                /\ Len(ReadAt(c, p)) = q - p
<1> DEFINE q == Min({Len(c), p + Chunk})
<1>1. Len(c) \in Nat /\ Chunk \in Nat /\ Chunk > 0
  BY Sizes, LenProperties
<1>2. q = IF Len(c) <= p + Chunk THEN Len(c) ELSE p + Chunk
  BY <1>1, MinOfTwo
<1>3. ReadAt(c, p) = Piece(c, p, q)
  BY DEF ReadAt, Piece
<1> HIDE DEF q
<1>4. q \in Nat /\ q <= Len(c) /\ (q <= p => p >= Len(c))
  BY <1>1, <1>2
<1>5. Piece(c, p, q) \in Seq(Unit) /\ Len(Piece(c, p, q)) = IF p <= q THEN q - p ELSE 0
  BY <1>4, PieceLen
<1>6. Piece(c, p, q) = <<>> => q <= p
  BY <1>4, <1>5
<1>7. q <= p => Piece(c, p, q) = <<>>
  BY <1>4, NoPiece
<1>8. Piece(c, p, q) # <<>> => p < q /\ Len(Piece(c, p, q)) = q - p
  BY <1>4, <1>5, <1>7
<1> QED BY <1>3, <1>4, <1>5, <1>6, <1>8

(* The old log from Skip on, and the record.                               *)
LEMMA AppendedSkip ==
  ASSUME NEW c \in Seq(Unit), NEW r \in Seq(Unit), NEW s, s = Max({0, Len(r) + Len(c) - MaxSize})
  PROVE  Appended(c, r) = Piece(c, s, Len(c)) \o r
<1> DEFINE keep == Max({0, MaxSize - Len(r)})
           m == Max({1, Len(c) - keep + 1})
<1>1. Len(c) \in Nat /\ Len(r) \in Nat /\ MaxSize \in Nat
  BY Sizes, LenProperties
<1>2. /\ s = IF 0 >= Len(r) + Len(c) - MaxSize THEN 0 ELSE Len(r) + Len(c) - MaxSize
      /\ keep = IF 0 >= MaxSize - Len(r) THEN 0 ELSE MaxSize - Len(r)
  BY <1>1, MaxOfTwo
<1>4. Appended(c, r) = SubSeq(c, m, Len(c)) \o r
  BY DEF Appended
<1> HIDE DEF keep
<1>3. m = IF 1 >= Len(c) - keep + 1 THEN 1 ELSE Len(c) - keep + 1
  <2>1. Len(c) - keep + 1 \in Int
    BY <1>1, <1>2
  <2> QED BY <2>1, MaxOfTwo
<1> HIDE DEF m
<1>5. m = s + 1 \/ (m > Len(c) /\ s + 1 > Len(c))
  <2> SUFFICES ASSUME NEW lc \in Nat, NEW lr \in Nat, NEW z \in Nat,
                      keep = IF 0 >= z - lr THEN 0 ELSE z - lr
               PROVE  LET mm == IF 1 >= lc - keep + 1 THEN 1 ELSE lc - keep + 1
                          ss == IF 0 >= lr + lc - z THEN 0 ELSE lr + lc - z
                      IN  mm = ss + 1 \/ (mm > lc /\ ss + 1 > lc)
    BY <1>1, <1>2, <1>3
  <2> QED OBVIOUS
<1>6. m \in Int /\ s + 1 \in Int
  BY <1>1, <1>2, <1>3
<1>7. SubSeq(c, m, Len(c)) = SubSeq(c, s + 1, Len(c))
  <2>1. CASE m = s + 1
    BY <2>1
  <2>2. CASE m > Len(c) /\ s + 1 > Len(c)
    <3>1. \A k \in Int : k > Len(c) => SubSeq(c, k, Len(c)) = <<>>
      BY <1>1, SubSeqEmpty
    <3> QED BY <2>2, <3>1, <1>6
  <2> QED BY <1>5, <2>1, <2>2
<1> QED BY <1>4, <1>7 DEF Piece

LEMMA LiveKeeps ==
  ASSUME NEW b, NEW fds, NEW c \in [Inode -> Seq(Unit)]
  PROVE  /\ Live(b, fds, c) \in [Inode -> Seq(Unit)]
         /\ b \in Inode => Live(b, fds, c)[b] = c[b]
BY EmptySeq DEF Live

-----------------------------------------------------------------------------
(* The shape of the state, step by step.                                   *)

LEMMA LogInitShape == LogInit => Shape
<1> SUFFICES ASSUME LogInit PROVE Shape
  OBVIOUS
<1>1. LogTypes
  BY EmptySeq DEF LogInit, LogTypes, Label
<1>2. \A w \in Writer : Opened(w) /\ Fresh(w) /\ Made(w)
  BY DEF LogInit, Opened, Fresh, Made
<1> QED BY <1>1, <1>2 DEF Shape

LEMMA Typed ==
  ASSUME LogTypes, NEW w \in Writer
  PROVE  /\ log # NoLog => log \in Seq(Unit)
         /\ Content(log) \in Seq(Unit) /\ <<>> \in Seq(Unit) /\ NoLog # <<>>
         /\ fd[w] \in Inode => ino[fd[w]] \in Seq(Unit)
         /\ rec[w] \in Seq(Unit) /\ buf[w] \in Seq(Unit)
         /\ rpos[w] \in Nat /\ wpos[w] \in Nat
         /\ Len(rec[w]) \in Nat /\ Len(buf[w]) \in Nat
<1>1. <<>> \in Seq(Unit) /\ NoLog \notin Seq(Unit)
  BY EmptySeq, NoLogAssumption
<1>2. rec[w] \in Seq(Unit) /\ buf[w] \in Seq(Unit)
  BY DEF LogTypes
<1>3. Len(rec[w]) \in Nat /\ Len(buf[w]) \in Nat
  BY <1>2, LenProperties
<1> QED BY <1>1, <1>2, <1>3 DEF LogTypes, Content

LEMMA ShapeFrom ==
  ASSUME Shape, NEW w \in Writer, NEW l \in Label, GoesTo(w, l), LogTypes',
         log # NoLog => log' # NoLog,
         \A v \in Writer \ {w} : fd'[v] = fd[v] /\ rpos'[v] = rpos[v] /\ wpos'[v] = wpos[v],
         l \in {"cp_read", "cp_write", "log_open", "measure", "read", "write", "append", "unlink"}
           => fd'[w] \in Inode,
         l \in {"idle", "exists", "new_open", "new_write", "bak_open", "log_open", "measure"}
           => wpos'[w] = 0 /\ rpos'[w] = 0,
         l \notin {"idle", "exists", "new_open"} => log' # NoLog
  PROVE  Shape'
<1>1. \A v \in Writer : where'[v] = IF v = w THEN l ELSE where[v]
  BY DEF GoesTo, Shape, LogTypes
<1>2. \A v \in Writer : (Opened(v) /\ Fresh(v) /\ Made(v))'
  <2> SUFFICES ASSUME NEW v \in Writer PROVE (Opened(v) /\ Fresh(v) /\ Made(v))'
    OBVIOUS
  <2>1. CASE v = w
    BY <1>1, <2>1 DEF Opened, Fresh, Made
  <2>2. CASE v # w
    BY <1>1, <2>2 DEF Shape, Opened, Fresh, Made
  <2> QED BY <2>1, <2>2
<1> QED BY <1>2 DEF Shape

LEMMA BeginShape == ASSUME Shape, NEW w \in Writer, Begin(w) PROVE Shape'
<1>1. PICK h \in RecLens : rec' = [rec EXCEPT ![w] = [k \in 1..h |-> <<w, k>>]]
  BY DEF Begin
<1>2. [k \in 1..h |-> <<w, k>>] \in Seq(Unit)
  BY Sizes, IsASeq DEF Unit
<1>3. LogTypes'
  <2>1. rec' \in [Writer -> Seq(Unit)]
    BY <1>1, <1>2 DEF Shape, LogTypes
  <2>2. old' \in Seq(Unit)
    BY Typed DEF Begin, Shape
  <2> QED BY <2>1, <2>2 DEF Begin, Shape, LogTypes, GoesTo, logFiles, Label
<1>4. GoesTo(w, "exists") /\ fd' = fd /\ rpos' = rpos /\ wpos' = wpos /\ log' = log
  BY DEF Begin, logFiles
<1>5. wpos[w] = 0 /\ rpos[w] = 0
  BY DEF Begin, Shape, Fresh
<1> QED BY <1>3, <1>4, <1>5, ShapeFrom DEF Label

LEMMA QuitShape ==
  ASSUME Shape, NEW w \in Writer, Quit(w), old' \in Seq(Unit)
  PROVE  Shape'
<1>1. Live(bak, fd', ino) \in [Inode -> Seq(Unit)] /\ <<>> \in Seq(Unit)
  BY LiveKeeps, Typed DEF Shape, LogTypes
<1>2. LogTypes'
  BY <1>1 DEF Quit, Shape, LogTypes, GoesTo, Open, ReadsFrom, Into, Label
<1>3. GoesTo(w, "idle") /\ log' = log
  BY DEF Quit
<1> QED BY <1>2, <1>3, ShapeFrom DEF Quit, Open, ReadsFrom, Into, Shape, LogTypes, Label

LEMMA CopyClosesShape ==
  ASSUME Shape, NEW w \in Writer, CopyCloses(w), log # NoLog, old' \in Seq(Unit)
  PROVE  Shape'
<1>1. Live(bak, fd', ino) \in [Inode -> Seq(Unit)] /\ <<>> \in Seq(Unit)
  BY LiveKeeps, Typed DEF Shape, LogTypes
<1>2. LogTypes'
  BY <1>1 DEF CopyCloses, Shape, LogTypes, GoesTo, Open, ReadsFrom, Into, Label
<1>3. GoesTo(w, "bak_open") /\ log' = log
  BY DEF CopyCloses
<1> QED BY <1>2, <1>3, ShapeFrom DEF CopyCloses, Open, ReadsFrom, Into, Shape, LogTypes, Label

LEMMA NotThereShape == ASSUME Shape, NEW w \in Writer, NotThere(w) PROVE Shape'
<1>1. PICK l \in {"new_open", "exists"} : GoesTo(w, l)
  BY DEF NotThere
<1>2. LogTypes'
  BY <1>1 DEF NotThere, Shape, LogTypes, GoesTo, logFiles, lastCall, Label
<1>3. wpos[w] = 0 /\ rpos[w] = 0 /\ log' = log /\ fd' = fd /\ rpos' = rpos /\ wpos' = wpos
  BY DEF NotThere, logFiles, Shape, Fresh
<1> QED BY <1>1, <1>2, <1>3, ShapeFrom DEF Label

LEMMA NewOpenShape == ASSUME Shape, NEW w \in Writer, NewOpen(w) PROVE Shape'
<1>1. log' \in Seq(Unit) /\ log' # NoLog
  BY Typed DEF NewOpen, Shape
<1>2. LogTypes'
  BY <1>1 DEF NewOpen, Shape, LogTypes, GoesTo, local, lastCall, Label
<1>3. wpos[w] = 0 /\ rpos[w] = 0 /\ fd' = fd /\ rpos' = rpos /\ wpos' = wpos /\ GoesTo(w, "new_write")
  BY DEF NewOpen, local, Shape, Fresh
<1> QED BY <1>1, <1>2, <1>3, ShapeFrom DEF Label

(* A write to the log or the .bak.                                         *)
LEMMA WriteTyped ==
  ASSUME Shape, NEW w \in Writer, NEW p \in Nat, NEW d \in Seq(Unit)
  PROVE  /\ log # NoLog => WriteAt(log, p, d) \in Seq(Unit) /\ WriteAt(log, p, d) # NoLog
         /\ fd[w] \in Inode => WriteAt(ino[fd[w]], p, d) \in Seq(Unit)
BY Typed, WriteAtType, NoLogAssumption DEF Shape

LEMMA NewWriteShape == ASSUME Shape, NEW w \in Writer, NewWrite(w) PROVE Shape'
<1>1. log # NoLog
  BY DEF NewWrite, Shape, Made
<1>2. log' \in Seq(Unit) /\ log' # NoLog
  BY <1>1, WriteTyped, Typed DEF NewWrite, Shape
<1>3. LogTypes'
  BY <1>2 DEF NewWrite, Shape, LogTypes, GoesTo, local, lastCall, Label
<1> QED BY <1>2, <1>3, ShapeFrom DEF NewWrite, local, Label

LEMMA CopyOpenShape == ASSUME Shape, NEW w \in Writer, CopyOpen(w) PROVE Shape'
<1>1. PICK i \in Inode : bak' = i /\ ino' = [ino EXCEPT ![i] = <<>>] /\ Open(w, i)
  BY DEF CopyOpen
<1>2. LogTypes'
  BY <1>1, Typed DEF CopyOpen, Shape, LogTypes, GoesTo, Open, lastCall, Label
<1>3. fd'[w] = i /\ \A v \in Writer \ {w} : fd'[v] = fd[v]
  BY <1>1 DEF Open, Shape, LogTypes
<1>4. GoesTo(w, "cp_read") /\ log' = log /\ log # NoLog /\ rpos' = rpos /\ wpos' = wpos
  BY DEF CopyOpen
<1> QED BY <1>2, <1>3, <1>4, ShapeFrom DEF Label

(* What a read gets, of the log or of the .bak, and the position after it. *)
LEMMA ReadTyped ==
  ASSUME Shape, NEW w \in Writer, NEW c \in Seq(Unit),
         buf' = [buf EXCEPT ![w] = ReadAt(c, rpos[w])], ReadsFrom(w, rpos[w] + Len(buf'[w]))
  PROVE  /\ buf' \in [Writer -> Seq(Unit)] /\ rpos' \in [Writer -> Nat]
         /\ \A v \in Writer \ {w} : rpos'[v] = rpos[v]
<1>1. ReadAt(c, rpos[w]) \in Seq(Unit)
  BY ReadAtPiece, Typed DEF Shape
<1>2. buf' \in [Writer -> Seq(Unit)] /\ buf'[w] = ReadAt(c, rpos[w])
  BY <1>1 DEF Shape, LogTypes
<1>3. rpos[w] + Len(buf'[w]) \in Nat
  BY <1>1, <1>2, Typed, LenProperties DEF Shape
<1> QED BY <1>2, <1>3 DEF ReadsFrom, Shape, LogTypes

LEMMA CopyReadShape == ASSUME Shape, NEW w \in Writer, CopyRead(w) PROVE Shape'
<1>1. log # NoLog /\ log \in Seq(Unit) /\ fd[w] \in Inode
  BY Typed DEF CopyRead, Shape, Made, Opened
<1>2. /\ buf' \in [Writer -> Seq(Unit)] /\ rpos' \in [Writer -> Nat]
      /\ \A v \in Writer \ {w} : rpos'[v] = rpos[v]
  BY <1>1, ReadTyped DEF CopyRead
<1>3. LogTypes'
  BY <1>2 DEF CopyRead, Shape, LogTypes, GoesTo, logFiles, lastCall, Label
<1>4. GoesTo(w, "cp_write") /\ log' = log /\ fd' = fd /\ wpos' = wpos
  BY DEF CopyRead, logFiles
<1> QED BY <1>1, <1>2, <1>3, <1>4, ShapeFrom DEF Label

LEMMA ReadShape == ASSUME Shape, NEW w \in Writer, Read(w) PROVE Shape'
<1>1. log # NoLog /\ fd[w] \in Inode /\ ino[fd[w]] \in Seq(Unit)
  BY Typed DEF Read, Shape, Made, Opened
<1>2. /\ buf' \in [Writer -> Seq(Unit)] /\ rpos' \in [Writer -> Nat]
      /\ \A v \in Writer \ {w} : rpos'[v] = rpos[v]
  BY <1>1, ReadTyped DEF Read
<1>3. LogTypes'
  BY <1>2 DEF Read, Shape, LogTypes, GoesTo, logFiles, lastCall, Label
<1>4. GoesTo(w, "write") /\ log' = log /\ fd' = fd /\ wpos' = wpos
  BY DEF Read, logFiles
<1> QED BY <1>1, <1>2, <1>3, <1>4, ShapeFrom DEF Label

LEMMA CopyWriteShape == ASSUME Shape, NEW w \in Writer, CopyWrite(w) PROVE Shape'
<1>1. log # NoLog /\ fd[w] \in Inode
  BY DEF CopyWrite, Shape, Made, Opened
<1>2. /\ wpos[w] \in Nat /\ buf[w] \in Seq(Unit) /\ wpos[w] + Len(buf[w]) \in Nat
      /\ ino[fd[w]] \in Seq(Unit)
  BY <1>1, Typed DEF Shape
<1>3. WriteAt(ino[fd[w]], wpos[w], buf[w]) \in Seq(Unit)
  BY <1>2, WriteAtType
<1>4. LogTypes'
  BY <1>1, <1>2, <1>3, Typed DEF CopyWrite, Shape, LogTypes, GoesTo, Into, lastCall, Label
<1>5. GoesTo(w, "cp_read") /\ log' = log /\ fd' = fd /\ rpos' = rpos
  BY DEF CopyWrite
<1>6. \A v \in Writer \ {w} : wpos'[v] = wpos[v]
  BY DEF CopyWrite, Into, Shape, LogTypes
<1> QED BY <1>1, <1>4, <1>5, <1>6, ShapeFrom DEF Label

LEMMA LogWriteShape == ASSUME Shape, NEW w \in Writer, LogWrite(w) PROVE Shape'
<1>1. log # NoLog /\ fd[w] \in Inode
  BY DEF LogWrite, Shape, Made, Opened
<1>2. log' \in Seq(Unit) /\ log' # NoLog /\ wpos[w] + Len(buf[w]) \in Nat
  BY <1>1, WriteTyped, Typed DEF LogWrite, Shape
<1>3. LogTypes'
  BY <1>2, Typed DEF LogWrite, Shape, LogTypes, GoesTo, Into, lastCall, Label
<1>4. GoesTo(w, "read") /\ fd' = fd /\ rpos' = rpos
  BY DEF LogWrite
<1>5. \A v \in Writer \ {w} : wpos'[v] = wpos[v]
  BY DEF LogWrite, Into, Shape, LogTypes
<1> QED BY <1>1, <1>2, <1>3, <1>4, <1>5, ShapeFrom DEF Label

LEMMA CopyDoneShape == ASSUME Shape, NEW w \in Writer, CopyDone(w) PROVE Shape'
BY CopyClosesShape DEF CopyDone, Shape, Made, LogTypes, lastCall

LEMMA CopyFailsShape == ASSUME Shape, NEW w \in Writer, CopyFails(w) PROVE Shape'
<1>1. log # NoLog /\ old' \in Seq(Unit)
  BY Typed DEF CopyFails, Shape, Made
<1> QED BY <1>1, CopyClosesShape DEF CopyFails

LEMMA BakOpenShape == ASSUME Shape, NEW w \in Writer, BakOpen(w) PROVE Shape'
<1>1. log # NoLog /\ wpos[w] = 0 /\ rpos[w] = 0 /\ bak \in Inode
  BY DEF BakOpen, Shape, Made, Fresh, LogTypes
<1>2. LogTypes'
  BY <1>1 DEF BakOpen, Shape, LogTypes, GoesTo, Open, logFiles, lastCall, Label
<1>3. GoesTo(w, "log_open") /\ log' = log /\ rpos' = rpos /\ wpos' = wpos
  BY DEF BakOpen, logFiles
<1>4. fd'[w] = bak /\ \A v \in Writer \ {w} : fd'[v] = fd[v]
  BY DEF BakOpen, Open, Shape, LogTypes
<1> QED BY <1>1, <1>2, <1>3, <1>4, ShapeFrom DEF Label

LEMMA EndsShape == ASSUME Shape, NEW w \in Writer, BakGone(w) \/ KillWriter(w) \/ CallReturns(w) PROVE Shape'
<1>1. Quit(w) /\ old' \in Seq(Unit)
  BY Typed DEF BakGone, KillWriter, CallReturns, Quit, lastCall, Shape, LogTypes
<1> QED BY <1>1, QuitShape

LEMMA LogOpenShape == ASSUME Shape, NEW w \in Writer, LogOpen(w) PROVE Shape'
<1>1. fd[w] \in Inode /\ wpos[w] = 0 /\ rpos[w] = 0 /\ log' \in Seq(Unit) /\ log' # NoLog
  BY Typed DEF LogOpen, Shape, Opened, Fresh
<1>2. LogTypes'
  BY <1>1 DEF LogOpen, Shape, LogTypes, GoesTo, local, lastCall, Label
<1> QED BY <1>1, <1>2, ShapeFrom DEF LogOpen, local, Label

LEMMA MeasureShape == ASSUME Shape, NEW w \in Writer, Measure(w) PROVE Shape'
<1>1. log # NoLog /\ fd[w] \in Inode /\ ino[fd[w]] \in Seq(Unit)
  BY Typed DEF Measure, Shape, Made, Opened
<1>2. StartOffset(w) \in Nat
  <2>1. Len(rec[w]) + Len(ino[fd[w]]) - MaxSize \in Int
    BY <1>1, Typed, Sizes, LenProperties DEF Shape
  <2> QED BY <2>1, MaxOfTwo DEF StartOffset
<1>3. LogTypes'
  BY <1>2 DEF Measure, Shape, LogTypes, GoesTo, ReadsFrom, logFiles, lastCall, Label
<1>4. \A v \in Writer \ {w} : rpos'[v] = rpos[v]
  BY DEF Measure, ReadsFrom, Shape, LogTypes
<1>5. GoesTo(w, "read") /\ log' = log /\ fd' = fd /\ wpos' = wpos
  BY DEF Measure, logFiles
<1> QED BY <1>1, <1>3, <1>4, <1>5, ShapeFrom DEF Label

LEMMA EndOfBakShape == ASSUME Shape, NEW w \in Writer, EndOfBak(w) PROVE Shape'
<1>1. log # NoLog /\ fd[w] \in Inode
  BY DEF EndOfBak, Shape, Made, Opened
<1>2. LogTypes'
  BY DEF EndOfBak, Shape, LogTypes, GoesTo, logFiles, local, lastCall, Label
<1> QED BY <1>1, <1>2, ShapeFrom DEF EndOfBak, logFiles, local, Label

LEMMA RecordShape == ASSUME Shape, NEW w \in Writer, Record(w) PROVE Shape'
<1>1. log # NoLog /\ fd[w] \in Inode
  BY DEF Record, Shape, Made, Opened
<1>2. log' \in Seq(Unit) /\ log' # NoLog
  BY <1>1, WriteTyped, Typed DEF Record, Shape
<1>3. LogTypes'
  BY <1>2 DEF Record, Shape, LogTypes, GoesTo, local, lastCall, Label
<1> QED BY <1>1, <1>2, <1>3, ShapeFrom DEF Record, local, Label

LEMMA WriteFailsShape == ASSUME Shape, NEW w \in Writer, WriteFails(w) PROVE Shape'
<1>1. log # NoLog /\ (where[w] \in {"write", "append"} => fd[w] \in Inode)
  BY DEF WriteFails, Shape, Made, Opened
<1>2. PICK l \in {"done", "read", "unlink"} : GoesTo(w, l) /\ (where[w] = "new_write" => l = "done")
                                         /\ (where[w] # "new_write" => where[w] \in {"write", "append"})
  BY DEF WriteFails
<1>3. LogTypes'
  BY <1>2, Typed DEF WriteFails, Shape, LogTypes, GoesTo, logFiles, Label
<1>4. where[w] = "new_write" \/ fd[w] \in Inode
  BY <1>1, <1>2
<1>5. l \in Label /\ log' = log /\ fd' = fd /\ rpos' = rpos /\ wpos' = wpos
  BY <1>2 DEF WriteFails, logFiles, Label
<1> QED BY <1>1, <1>2, <1>3, <1>4, <1>5, ShapeFrom

LEMMA UnlinkShape == ASSUME Shape, NEW w \in Writer, Unlink(w) PROVE Shape'
<1>1. log # NoLog
  BY DEF Unlink, Shape, Made
<1>2. ino' \in [Inode -> Seq(Unit)]
  BY LiveKeeps DEF Unlink, Shape, LogTypes
<1>3. LogTypes'
  BY <1>2 DEF Unlink, Shape, LogTypes, GoesTo, Open, lastCall, Label
<1>4. \A v \in Writer \ {w} : fd'[v] = fd[v]
  BY DEF Unlink, Open, Shape, LogTypes
<1> QED BY <1>1, <1>3, <1>4, ShapeFrom DEF Unlink, Label

LEMMA ShapeStep == Shape /\ [LogNext]_logVars => Shape'
<1> SUFFICES ASSUME Shape, [LogNext]_logVars PROVE Shape'
  OBVIOUS
<1>1. CASE LogNext
  <2>1. PICK w \in Writer : Begin(w) \/ Step(w) \/ CopyFails(w) \/ WriteFails(w) \/ KillWriter(w)
    BY <1>1 DEF LogNext
  <2> QED BY <2>1, BeginShape, CopyFailsShape, WriteFailsShape, NotThereShape, NewOpenShape, NewWriteShape,
             CopyOpenShape, CopyReadShape, CopyWriteShape, CopyDoneShape, BakOpenShape, EndsShape, LogOpenShape,
             MeasureShape, ReadShape, LogWriteShape, EndOfBakShape, RecordShape, UnlinkShape DEF Step
<1>2. CASE UNCHANGED logVars
  BY <1>2 DEF logVars, logFiles, local, lastCall, Shape, LogTypes, Opened, Fresh, Made
<1> QED BY <1>1, <1>2

-----------------------------------------------------------------------------
(* How far a call that nobody joined has come, step by step.               *)

LEMMA InitCalm == LogInit => CalmInv
BY DEF LogInit, CalmInv, Alone, Left, Saving, Restoring, Busy, Content

LEMMA OneMoves ==
  ASSUME Shape, CalmInv, calm, NEW w \in Writer, Busy(w), NEW l, GoesTo(w, l)
  PROVE  /\ Saving(w) /\ Restoring(w)
         /\ where'[w] = l /\ \A v \in Writer \ {w} : where'[v] = "idle"
BY DEF Shape, LogTypes, CalmInv, Alone, Busy, GoesTo

LEMMA GoesOn ==
  ASSUME Shape, CalmInv, calm, NEW w \in Writer, Busy(w), NEW l, GoesTo(w, l), l # "idle",
         (Saving(w) /\ Restoring(w))'
  PROVE  CalmInv'
<1>1. where'[w] = l /\ \A v \in Writer \ {w} : where'[v] = "idle"
  BY OneMoves
<1>2. Alone' /\ Left'
  BY <1>1 DEF Alone, Left, Busy
<1>3. \A v \in Writer : (Saving(v) /\ Restoring(v))'
  <2> SUFFICES ASSUME NEW v \in Writer, v # w PROVE (Saving(v) /\ Restoring(v))'
    OBVIOUS
  <2>1. where'[v] = "idle"
    BY <1>1
  <2> QED BY <2>1 DEF Saving, Restoring
<1> QED BY <1>2, <1>3 DEF CalmInv

LEMMA Stops ==
  ASSUME Shape, CalmInv, calm, NEW w \in Writer, Busy(w), GoesTo(w, "idle"), (Content(log) = old \/ BakIsOld)'
  PROVE  CalmInv'
<1>1. \A v \in Writer : where'[v] = "idle"
  BY OneMoves
<1>2. Alone' /\ Left'
  BY <1>1 DEF Alone, Left, Busy
<1>3. \A v \in Writer : (Saving(v) /\ Restoring(v))'
  BY <1>1 DEF Saving, Restoring
<1> QED BY <1>2, <1>3 DEF CalmInv

LEMMA BeginCalm == ASSUME Shape, CalmInv, NEW w \in Writer, Begin(w) PROVE CalmInv'
<1> SUFFICES ASSUME calm' PROVE (Alone /\ Left /\ \A v \in Writer : Saving(v) /\ Restoring(v))'
  BY DEF CalmInv
<1>1. \A v \in Writer : where[v] = "idle"
  BY DEF Begin
<1>2. old' = Content(log) /\ log' = log
  BY DEF Begin, logFiles
<1>3. \A v \in Writer : where'[v] = IF v = w THEN "exists" ELSE "idle"
  BY <1>1 DEF Begin, GoesTo, Shape, LogTypes
<1>4. Content(log)' = old'
  BY <1>2 DEF Content
<1> QED BY <1>3, <1>4 DEF Alone, Left, Busy, Saving, Restoring

LEMMA NotThereCalm == ASSUME Shape, CalmInv, calm, NEW w \in Writer, NotThere(w) PROVE CalmInv'
<1>1. PICK l \in {"new_open", "exists"} : GoesTo(w, l)
  BY DEF NotThere
<1>2. Saving(w) /\ where'[w] = l /\ Busy(w)
  BY <1>1, OneMoves DEF NotThere, Busy
<1>3. log' = NoLog /\ old' = old /\ old = <<>>
  BY <1>2 DEF NotThere, logFiles, lastCall, Saving, Content
<1>4. (Saving(w) /\ Restoring(w))'
  BY <1>2, <1>3 DEF Saving, Restoring, Content
<1> QED BY <1>1, <1>2, <1>4, GoesOn

LEMMA NewOpenCalm == ASSUME Shape, CalmInv, calm, NEW w \in Writer, NewOpen(w) PROVE CalmInv'
<1>1. Saving(w) /\ where'[w] = "new_write" /\ Busy(w) /\ GoesTo(w, "new_write")
  BY OneMoves DEF NewOpen, Busy
<1>2. (Saving(w) /\ Restoring(w))'
  BY <1>1 DEF NewOpen, lastCall, Saving, Restoring
<1> QED BY <1>1, <1>2, GoesOn

LEMMA NewWriteCalm == ASSUME Shape, CalmInv, calm, NEW w \in Writer, NewWrite(w) PROVE CalmInv'
<1>1. Saving(w) /\ where'[w] = "done" /\ Busy(w) /\ GoesTo(w, "done")
  BY OneMoves DEF NewWrite, Busy
<1>2. log = <<>> /\ old = <<>> /\ rec[w] \in Seq(Unit) /\ <<>> \in Seq(Unit)
  BY <1>1, Typed DEF NewWrite, Saving, Shape
<1>3. log' = <<>> \o rec[w]
  <2>1. WriteAt(<<>>, Len(<<>>), rec[w]) = <<>> \o rec[w]
    BY <1>2, WriteAtEnd
  <2> QED BY <1>2, <2>1 DEF NewWrite
<1>4. Appended(<<>>, rec[w]) = <<>> \o rec[w]
  <2>1. Appended(<<>>, rec[w]) = Piece(<<>>, Skip(w), Len(<<>>)) \o rec[w]
    BY <1>2, AppendedSkip DEF Skip
  <2>2. Skip(w) \in Nat
    BY <1>2, Sizes, MaxOfTwo, LenProperties DEF Skip
  <2>3. Piece(<<>>, Skip(w), Len(<<>>)) = <<>>
    BY <2>2, NoPiece
  <2> QED BY <2>1, <2>3
<1>5. old' = old /\ rec' = rec
  BY DEF NewWrite, lastCall, local
<1>6. (Saving(w) /\ Restoring(w))'
  BY <1>1, <1>2, <1>3, <1>4, <1>5 DEF Saving, Restoring, Appended
<1> QED BY <1>1, <1>6, GoesOn

LEMMA CopyOpenCalm == ASSUME Shape, CalmInv, calm, NEW w \in Writer, CopyOpen(w) PROVE CalmInv'
<1>1. Saving(w) /\ where'[w] = "cp_read" /\ Busy(w) /\ GoesTo(w, "cp_read")
  BY OneMoves DEF CopyOpen, Busy
<1>2. PICK i \in Inode : bak' = i /\ ino' = [ino EXCEPT ![i] = <<>>] /\ Open(w, i)
  BY DEF CopyOpen
<1>3. bak' = i /\ fd'[w] = i /\ ino'[i] = <<>> /\ i # 0
  BY <1>2, Sizes DEF Open, Shape, LogTypes
<1>4. wpos'[w] = 0 /\ rpos'[w] = 0 /\ old' = old /\ log' = log /\ log = old
  BY <1>1 DEF CopyOpen, lastCall, Shape, Fresh, Saving, Content
<1>5. Piece(old, 0, 0) = <<>> /\ 0 <= Len(old)
  BY NoPiece, LenProperties DEF Shape, LogTypes
<1>6. (Saving(w) /\ Restoring(w))'
  BY <1>1, <1>3, <1>4, <1>5 DEF Saving, Restoring
<1> QED BY <1>1, <1>6, GoesOn

LEMMA CopyReadCalm == ASSUME Shape, CalmInv, calm, NEW w \in Writer, CopyRead(w) PROVE CalmInv'
<1>1. Saving(w) /\ where'[w] = "cp_write" /\ Busy(w) /\ GoesTo(w, "cp_write")
  BY OneMoves DEF CopyRead, Busy
<1>2. /\ log = old /\ old \in Seq(Unit) /\ rpos[w] \in Nat /\ wpos[w] = rpos[w]
      /\ bak # 0 /\ bak = fd[w] /\ ino[bak] = Piece(old, 0, wpos[w])
  BY <1>1 DEF CopyRead, Shape, LogTypes, Saving
<1>3. PICK q \in Nat : /\ rpos[w] < q /\ q <= Len(old)
                      /\ ReadAt(old, rpos[w]) = Piece(old, rpos[w], q)
                      /\ Len(ReadAt(old, rpos[w])) = q - rpos[w]
  BY <1>2, ReadAtPiece DEF CopyRead
<1>4. buf'[w] = Piece(old, rpos[w], q) /\ rpos'[w] = q
  <2>1. buf'[w] = ReadAt(log, rpos[w])
    BY DEF CopyRead, Shape, LogTypes
  <2>2. rpos'[w] = rpos[w] + Len(buf'[w])
    BY DEF CopyRead, ReadsFrom, Shape, LogTypes
  <2> QED BY <1>2, <1>3, <2>1, <2>2
<1>5. log' = log /\ old' = old /\ bak' = bak /\ ino' = ino /\ fd' = fd /\ wpos' = wpos
  BY DEF CopyRead, logFiles, lastCall
<1>6. (Saving(w) /\ Restoring(w))'
  BY <1>1, <1>2, <1>3, <1>4, <1>5 DEF Saving, Restoring
<1> QED BY <1>1, <1>6, GoesOn

LEMMA CopyWriteCalm == ASSUME Shape, CalmInv, calm, NEW w \in Writer, CopyWrite(w) PROVE CalmInv'
<1>1. Saving(w) /\ where'[w] = "cp_read" /\ Busy(w) /\ GoesTo(w, "cp_read")
  BY OneMoves DEF CopyWrite, Busy
<1>2. /\ log = old /\ old \in Seq(Unit) /\ rpos[w] \in Nat /\ wpos[w] \in Nat
      /\ wpos[w] <= rpos[w] /\ rpos[w] <= Len(old)
      /\ bak # 0 /\ bak = fd[w] /\ bak \in Inode /\ ino[bak] = Piece(old, 0, wpos[w])
      /\ buf[w] = Piece(old, wpos[w], rpos[w])
  BY <1>1 DEF CopyWrite, Shape, LogTypes, Saving
<1>3. /\ Len(buf[w]) = rpos[w] - wpos[w] /\ buf[w] \in Seq(Unit)
      /\ Len(ino[bak]) = wpos[w] /\ ino[bak] \in Seq(Unit)
  <2>1. 0 \in Nat /\ 0 <= wpos[w] /\ wpos[w] <= Len(old)
    BY <1>2, LenProperties
  <2>2. Piece(old, 0, wpos[w]) \in Seq(Unit) /\ Len(Piece(old, 0, wpos[w])) = wpos[w] - 0
    BY <1>2, <2>1, PieceLen
  <2> QED BY <1>2, <2>2, PieceLen
<1>4. WriteAt(ino[bak], wpos[w], buf[w]) = ino[bak] \o buf[w]
  BY <1>3, WriteAtEnd
<1>5. Piece(old, 0, wpos[w]) \o Piece(old, wpos[w], rpos[w]) = Piece(old, 0, rpos[w])
  <2>1. 0 \in Nat /\ 0 <= wpos[w]
    BY <1>2
  <2> QED BY <1>2, <2>1, NextPiece
<1>6. wpos'[w] = rpos[w] /\ ino'[bak] = Piece(old, 0, rpos[w])
  <2>1. wpos'[w] = wpos[w] + Len(buf[w])
    BY DEF CopyWrite, Into, Shape, LogTypes
  <2>2. ino'[bak] = WriteAt(ino[bak], wpos[w], buf[w])
    BY <1>2 DEF CopyWrite, Shape, LogTypes
  <2> QED BY <1>2, <1>3, <1>4, <1>5, <2>1, <2>2
<1>7. log' = log /\ old' = old /\ bak' = bak /\ fd' = fd /\ rpos' = rpos
  BY DEF CopyWrite, lastCall
<1>8. (Saving(w) /\ Restoring(w))'
  BY <1>1, <1>2, <1>6, <1>7 DEF Saving, Restoring
<1> QED BY <1>1, <1>8, GoesOn

LEMMA CopyDoneCalm == ASSUME Shape, CalmInv, calm, NEW w \in Writer, CopyDone(w) PROVE CalmInv'
<1>1. Saving(w) /\ where'[w] = "bak_open" /\ Busy(w) /\ GoesTo(w, "bak_open")
  BY OneMoves DEF CopyDone, CopyCloses, Busy
<1>2. /\ log = old /\ old \in Seq(Unit) /\ rpos[w] \in Nat /\ wpos[w] = rpos[w] /\ rpos[w] <= Len(old)
      /\ bak # 0 /\ bak \in Inode /\ ino[bak] = Piece(old, 0, wpos[w])
  BY <1>1 DEF CopyDone, Shape, LogTypes, Saving
<1>3. rpos[w] >= Len(old)
  BY <1>2, ReadAtPiece DEF CopyDone
<1>4. ino[bak] = old
  <2>1. rpos[w] = Len(old)
    BY <1>2, <1>3, LenProperties
  <2> QED BY <1>2, <2>1, WholePiece
<1>5. ino'[bak] = ino[bak]
  BY <1>2, LiveKeeps DEF CopyDone, CopyCloses, Shape, LogTypes
<1>6. log' = log /\ old' = old /\ bak' = bak
  BY DEF CopyDone, CopyCloses, lastCall
<1>7. (Saving(w) /\ Restoring(w))'
  BY <1>1, <1>2, <1>4, <1>5, <1>6 DEF Saving, Restoring, BakIsOld
<1> QED BY <1>1, <1>7, GoesOn

LEMMA BakOpenCalm == ASSUME Shape, CalmInv, calm, NEW w \in Writer, BakOpen(w) PROVE CalmInv'
<1>1. Saving(w) /\ Restoring(w) /\ where'[w] = "log_open" /\ Busy(w) /\ GoesTo(w, "log_open")
  BY OneMoves DEF BakOpen, Busy
<1>2. log' = log /\ old' = old /\ bak' = bak /\ ino' = ino /\ fd'[w] = bak
  BY DEF BakOpen, Open, logFiles, lastCall, Shape, LogTypes
<1>3. (Saving(w) /\ Restoring(w))'
  BY <1>1, <1>2 DEF BakOpen, Saving, Restoring, BakIsOld
<1> QED BY <1>1, <1>3, GoesOn

(* The .bak cannot be gone: nobody else removes it.                        *)
LEMMA BakGoneCalm == ASSUME Shape, CalmInv, calm, NEW w \in Writer, BakGone(w) PROVE CalmInv'
<1>1. Busy(w) /\ GoesTo(w, "idle")
  BY DEF BakGone, Busy, Quit
<1>2. Restoring(w)
  BY <1>1, OneMoves
<1> QED BY <1>2 DEF BakGone, Restoring, BakIsOld

LEMMA LogOpenCalm == ASSUME Shape, CalmInv, calm, NEW w \in Writer, LogOpen(w) PROVE CalmInv'
<1>1. Restoring(w) /\ where'[w] = "measure" /\ Busy(w) /\ GoesTo(w, "measure")
  BY OneMoves DEF LogOpen, Busy
<1>2. log' = <<>> /\ old' = old /\ bak' = bak /\ ino' = ino /\ fd' = fd
  BY DEF LogOpen, local, lastCall
<1>3. (Saving(w) /\ Restoring(w))'
  BY <1>1, <1>2 DEF LogOpen, Saving, Restoring, BakIsOld
<1> QED BY <1>1, <1>3, GoesOn

LEMMA SkipNat ==
  ASSUME Shape, NEW w \in Writer
  PROVE  /\ Skip(w) \in Nat /\ old \in Seq(Unit) /\ Len(old) \in Nat
         /\ (rec' = rec /\ old' = old) => Skip(w)' = Skip(w)
<1>1. old \in Seq(Unit) /\ Len(old) \in Nat /\ Len(rec[w]) \in Nat /\ MaxSize \in Nat
  BY Typed, LenProperties, Sizes DEF Shape, LogTypes
<1>2. Skip(w) \in Nat
  BY <1>1, MaxOfTwo DEF Skip
<1> QED BY <1>1, <1>2 DEF Skip

LEMMA MeasureCalm == ASSUME Shape, CalmInv, calm, NEW w \in Writer, Measure(w) PROVE CalmInv'
<1>1. Restoring(w) /\ where'[w] = "read" /\ Busy(w) /\ GoesTo(w, "read")
  BY OneMoves DEF Measure, Busy
<1>2. log' = log /\ old' = old /\ rec' = rec /\ bak' = bak /\ ino' = ino /\ fd' = fd /\ wpos' = wpos
  BY DEF Measure, logFiles, lastCall
<1>3. ino[fd[w]] = old /\ log = <<>> /\ wpos[w] = 0
  BY <1>1 DEF Measure, Restoring, BakIsOld, Shape, Fresh
<1>4. rpos'[w] = Skip(w)
  BY <1>3 DEF Measure, ReadsFrom, StartOffset, Skip, Shape, LogTypes
<1>5. Skip(w) \in Nat /\ Skip(w)' = Skip(w)
  BY <1>2, SkipNat
<1>6. Piece(old, Skip(w), Skip(w)) = <<>>
  BY <1>5, NoPiece
<1>7. (Saving(w) /\ Restoring(w))'
  BY <1>1, <1>2, <1>3, <1>4, <1>5, <1>6 DEF Measure, Saving, Restoring, BakIsOld
<1> QED BY <1>1, <1>7, GoesOn

LEMMA ReadCalm == ASSUME Shape, CalmInv, calm, NEW w \in Writer, Read(w) PROVE CalmInv'
<1>1. Restoring(w) /\ where'[w] = "write" /\ Busy(w) /\ GoesTo(w, "write")
  BY OneMoves DEF Read, Busy
<1>2. log' = log /\ old' = old /\ rec' = rec /\ bak' = bak /\ ino' = ino /\ fd' = fd /\ wpos' = wpos
  BY DEF Read, logFiles, lastCall
<1>3. /\ ino[fd[w]] = old /\ rpos[w] \in Nat /\ wpos[w] \in Nat /\ rpos[w] = Skip(w) + wpos[w]
      /\ log = Piece(old, Skip(w), rpos[w])
  BY <1>1 DEF Read, Restoring, BakIsOld, Shape, LogTypes
<1>4. old \in Seq(Unit) /\ Skip(w) \in Nat /\ Skip(w)' = Skip(w)
  BY <1>2, SkipNat
<1>5. PICK q \in Nat : /\ rpos[w] < q /\ q <= Len(old)
                      /\ ReadAt(old, rpos[w]) = Piece(old, rpos[w], q)
                      /\ Len(ReadAt(old, rpos[w])) = q - rpos[w]
  BY <1>3, <1>4, ReadAtPiece DEF Read
<1>6. buf'[w] = Piece(old, rpos[w], q) /\ rpos'[w] = q
  <2>1. buf'[w] = ReadAt(ino[fd[w]], rpos[w])
    BY DEF Read, Shape, LogTypes
  <2>2. rpos'[w] = rpos[w] + Len(buf'[w])
    BY DEF Read, ReadsFrom, Shape, LogTypes
  <2> QED BY <1>3, <1>5, <2>1, <2>2
<1>7. Skip(w) + wpos[w] <= q
  BY <1>3, <1>4, <1>5
<1>8. (Saving(w) /\ Restoring(w))'
  BY <1>1, <1>2, <1>3, <1>4, <1>5, <1>6, <1>7 DEF Read, Saving, Restoring, BakIsOld
<1> QED BY <1>1, <1>8, GoesOn

LEMMA LogWriteCalm == ASSUME Shape, CalmInv, calm, NEW w \in Writer, LogWrite(w) PROVE CalmInv'
<1>1. Restoring(w) /\ where'[w] = "read" /\ Busy(w) /\ GoesTo(w, "read")
  BY OneMoves DEF LogWrite, Busy
<1>2. old' = old /\ rec' = rec /\ bak' = bak /\ ino' = ino /\ fd' = fd /\ rpos' = rpos
  BY DEF LogWrite, lastCall
<1>3. /\ rpos[w] \in Nat /\ wpos[w] \in Nat /\ Skip(w) + wpos[w] <= rpos[w] /\ rpos[w] <= Len(old)
      /\ log = Piece(old, Skip(w), Skip(w) + wpos[w])
      /\ buf[w] = Piece(old, Skip(w) + wpos[w], rpos[w])
  BY <1>1 DEF LogWrite, Restoring, Shape, LogTypes
<1>4. old \in Seq(Unit) /\ Len(old) \in Nat /\ Skip(w) \in Nat /\ Skip(w)' = Skip(w)
  BY <1>2, SkipNat
<1>5. PICK k \in Nat : k = Skip(w) + wpos[w]
  BY <1>3, <1>4
<1>6. k <= rpos[w] /\ k <= Len(old) /\ Skip(w) <= k /\ k - Skip(w) = wpos[w]
  BY <1>3, <1>4, <1>5
<1>7. log = Piece(old, Skip(w), k) /\ buf[w] = Piece(old, k, rpos[w])
  BY <1>3, <1>5
<1>8. /\ Len(log) = wpos[w] /\ log \in Seq(Unit)
      /\ Len(buf[w]) = rpos[w] - k /\ buf[w] \in Seq(Unit)
  BY <1>3, <1>4, <1>6, <1>7, PieceLen
<1>9. log' = log \o buf[w]
  BY <1>8, WriteAtEnd DEF LogWrite
<1>10. Piece(old, Skip(w), k) \o Piece(old, k, rpos[w]) = Piece(old, Skip(w), rpos[w])
  BY <1>3, <1>4, <1>6, NextPiece
<1>11. log' = Piece(old, Skip(w), rpos[w])
  BY <1>9, <1>10, <1>7
<1>12. wpos'[w] = wpos[w] + Len(buf[w])
  BY DEF LogWrite, Into, Shape, LogTypes
<1>13. rpos[w] = Skip(w) + wpos'[w]
  BY <1>3, <1>4, <1>5, <1>8, <1>12, SMTT(60)
<1>14. (Saving(w) /\ Restoring(w))'
  BY <1>1, <1>2, <1>3, <1>4, <1>11, <1>13 DEF LogWrite, Saving, Restoring, BakIsOld
<1> QED BY <1>1, <1>14, GoesOn

LEMMA EndOfBakCalm == ASSUME Shape, CalmInv, calm, NEW w \in Writer, EndOfBak(w) PROVE CalmInv'
<1>1. Restoring(w) /\ where'[w] = "append" /\ Busy(w) /\ GoesTo(w, "append")
  BY OneMoves DEF EndOfBak, Busy
<1>2. /\ log' = log /\ old' = old /\ rec' = rec /\ bak' = bak /\ ino' = ino /\ fd' = fd
      /\ rpos' = rpos /\ wpos' = wpos
  BY DEF EndOfBak, logFiles, local, lastCall
<1>3. /\ ino[fd[w]] = old /\ rpos[w] \in Nat /\ wpos[w] \in Nat /\ rpos[w] = Skip(w) + wpos[w]
      /\ wpos[w] = 0 \/ rpos[w] <= Len(old)
      /\ log = Piece(old, Skip(w), rpos[w])
  BY <1>1 DEF EndOfBak, Restoring, BakIsOld, Shape, LogTypes
<1>4. old \in Seq(Unit) /\ Len(old) \in Nat /\ Skip(w) \in Nat /\ Skip(w)' = Skip(w)
  BY <1>2, SkipNat
<1>5. rpos[w] >= Len(old)
  BY <1>3, <1>4, ReadAtPiece DEF EndOfBak
<1>6. log = Piece(old, Skip(w), Len(old)) /\ wpos[w] = Len(log)
  <2>1. CASE rpos[w] <= Len(old)
    <3>1. rpos[w] = Len(old) /\ Skip(w) <= Len(old) /\ Len(old) <= Len(old) /\ Len(old) - Skip(w) = wpos[w]
      BY <1>3, <1>4, <1>5, <2>1
    <3>2. Len(Piece(old, Skip(w), Len(old))) = Len(old) - Skip(w)
      BY <1>4, <3>1, PieceLen
    <3> QED BY <1>3, <3>1, <3>2
  <2>2. CASE rpos[w] > Len(old)
    <3>1. wpos[w] = 0 /\ rpos[w] = Skip(w) /\ Skip(w) + 1 > Len(old)
      BY <1>3, <1>4, <2>2
    <3>2. Piece(old, Skip(w), rpos[w]) = <<>>
      BY <1>3, <1>4, <3>1, NoPiece
    <3>3. Piece(old, Skip(w), Len(old)) = <<>>
      BY <1>4, <3>1, NoPiece
    <3> QED BY <1>3, <3>1, <3>2, <3>3, EmptySeq
  <2> QED BY <1>3, <1>4, <2>1, <2>2
<1>7. (Saving(w) /\ Restoring(w))'
  BY <1>1, <1>2, <1>4, <1>6 DEF EndOfBak, Saving, Restoring, BakIsOld
<1> QED BY <1>1, <1>7, GoesOn

LEMMA RecordCalm == ASSUME Shape, CalmInv, calm, NEW w \in Writer, Record(w) PROVE CalmInv'
<1>1. Restoring(w) /\ where'[w] = "unlink" /\ Busy(w) /\ GoesTo(w, "unlink")
  BY OneMoves DEF Record, Busy
<1>2. old' = old /\ rec' = rec /\ bak' = bak /\ ino' = ino /\ fd' = fd
  BY DEF Record, local, lastCall
<1>3. log = Piece(old, Skip(w), Len(old)) /\ wpos[w] = Len(log)
  BY <1>1 DEF Record, Restoring
<1>4. old \in Seq(Unit) /\ rec[w] \in Seq(Unit) /\ log \in Seq(Unit)
  BY SkipNat, Typed DEF Record, Shape, Made
<1>5. log' = log \o rec[w]
  BY <1>3, <1>4, WriteAtEnd DEF Record
<1>6. Appended(old, rec[w]) = Piece(old, Skip(w), Len(old)) \o rec[w]
  BY <1>4, AppendedSkip DEF Skip
<1>7. log' = Appended(old', rec'[w])
  BY <1>2, <1>3, <1>5, <1>6
<1>8. (Saving(w) /\ Restoring(w))'
  BY <1>1, <1>2, <1>7 DEF Record, Saving, Restoring, BakIsOld
<1> QED BY <1>1, <1>8, GoesOn

LEMMA UnlinkCalm == ASSUME Shape, CalmInv, calm, NEW w \in Writer, Unlink(w) PROVE CalmInv'
<1>1. Restoring(w) /\ where'[w] = "done" /\ Busy(w) /\ GoesTo(w, "done")
  BY OneMoves DEF Unlink, Busy
<1>2. old' = old /\ rec' = rec /\ log' = log
  BY DEF Unlink, lastCall
<1>3. (Saving(w) /\ Restoring(w))'
  BY <1>1, <1>2 DEF Unlink, Saving, Restoring
<1> QED BY <1>1, <1>3, GoesOn

LEMMA CallReturnsCalm == ASSUME Shape, CalmInv, calm, NEW w \in Writer, CallReturns(w) PROVE CalmInv'
<1>1. Busy(w) /\ GoesTo(w, "idle")
  BY DEF CallReturns, Busy, Quit
<1>2. old' = Content(log) /\ log' = log
  BY DEF CallReturns, Quit
<1>3. (Content(log) = old)'
  BY <1>2 DEF Content
<1> QED BY <1>1, <1>3, Stops

(* A call that is killed before it is done has the old log in a file.      *)
LEMMA KillWriterCalm == ASSUME Shape, CalmInv, calm, NEW w \in Writer, KillWriter(w) PROVE CalmInv'
<1>1. Saving(w) /\ Restoring(w) /\ Busy(w) /\ GoesTo(w, "idle")
  BY OneMoves DEF KillWriter, Quit
<1>2. log' = log /\ old' = old /\ bak' = bak /\ (bak \in Inode => ino'[bak] = ino[bak])
  BY LiveKeeps DEF KillWriter, Quit, lastCall, Shape, LogTypes
<1>3. NoLog \notin Seq(Unit) /\ old \in Seq(Unit) /\ where[w] \in Label \ {"idle", "done"}
  BY NoLogAssumption DEF KillWriter, Busy, Shape, LogTypes
<1>4. Content(log) = old \/ BakIsOld
  BY <1>1, <1>3 DEF Saving, Restoring, Content, Label
<1>5. (Content(log) = old \/ BakIsOld)'
  BY <1>2, <1>4 DEF Content, BakIsOld, Shape, LogTypes
<1> QED BY <1>1, <1>5, Stops

LEMMA CalmStep == Shape /\ CalmInv /\ [LogNext]_logVars => CalmInv'
<1> SUFFICES ASSUME Shape, CalmInv, [LogNext]_logVars PROVE CalmInv'
  OBVIOUS
<1>1. ASSUME NEW w \in Writer, Begin(w) \/ Step(w) \/ CopyFails(w) \/ WriteFails(w) \/ KillWriter(w)
      PROVE  CalmInv'
  <2>1. CASE Begin(w)
    BY <2>1, BeginCalm
  <2>2. CASE CopyFails(w) \/ WriteFails(w)
    BY <2>2 DEF CopyFails, WriteFails, CalmInv
  <2>3. CASE (Step(w) \/ KillWriter(w)) /\ calm
    BY <2>3, NotThereCalm, NewOpenCalm, NewWriteCalm, CopyOpenCalm, CopyReadCalm, CopyWriteCalm, CopyDoneCalm,
       BakOpenCalm, BakGoneCalm, LogOpenCalm, MeasureCalm, ReadCalm, LogWriteCalm, EndOfBakCalm, RecordCalm,
       UnlinkCalm, CallReturnsCalm, KillWriterCalm DEF Step
  <2>4. CASE (Step(w) \/ KillWriter(w)) /\ ~calm
    <3>1. calm' = calm
      BY <2>4 DEF Step, NotThere, NewOpen, NewWrite, CopyOpen, CopyRead, CopyWrite, CopyDone, BakOpen, BakGone, LogOpen,
                  Measure, Read, LogWrite, EndOfBak, Record, Unlink, CallReturns, KillWriter, lastCall
    <3> QED BY <2>4, <3>1 DEF CalmInv
  <2> QED BY <1>1, <2>1, <2>2, <2>3, <2>4
<1>2. CASE UNCHANGED logVars
  BY <1>2, ZenonT(60) DEF logVars, logFiles, local, lastCall, CalmInv, Alone, Left, Saving, Restoring, Busy, Content, BakIsOld, Skip
<1> QED BY <1>1, <1>2 DEF LogNext

(* The inductive invariant.                                                *)
THEOREM LogInvariant == LogSpec => []LogIInv
<1>1. LogInit => LogIInv
  BY LogInitShape, InitCalm DEF LogIInv
<1>2. LogIInv /\ [LogNext]_logVars => LogIInv'
  BY ShapeStep, CalmStep DEF LogIInv
<1> QED BY <1>1, <1>2, PTL DEF LogSpec

(* LoneCallAppends: a call that nobody joined leaves the newest part of    *)
(* the log it found and its record after it, whatever calls before it did. *)
THEOREM LoneCallKeeps == LogSpec => []LoneCallAppends
<1>1. LogIInv => LoneCallAppends
  BY DEF LogIInv, CalmInv, Restoring, LoneCallAppends
<1> QED BY <1>1, LogInvariant, PTL

(* OldLogSurvives: wherever such a call is killed, one of the two files    *)
(* has the old log, or the log has the record already.                     *)
THEOREM OldLogKept == LogSpec => []OldLogSurvives
<1>1. LogIInv => OldLogSurvives
  <2> SUFFICES ASSUME LogIInv, calm PROVE OldLogSurvives
    BY DEF OldLogSurvives
  <2>1. CASE \A w \in Writer : ~Busy(w)
    BY <2>1 DEF LogIInv, CalmInv, Left, BakIsOld, OldLogSurvives
  <2>2. ASSUME NEW w \in Writer, Busy(w) PROVE OldLogSurvives
    <3>1. Saving(w) /\ Restoring(w) /\ where[w] \in Label \ {"idle"}
      BY <2>2 DEF LogIInv, CalmInv, Shape, LogTypes, Busy
    <3>2. CASE where[w] \in {"exists", "new_open", "new_write", "cp_read", "cp_write"}
      <4>1. NoLog \notin Seq(Unit) /\ old \in Seq(Unit)
        BY NoLogAssumption DEF LogIInv, Shape, LogTypes
      <4> QED BY <3>1, <3>2, <4>1 DEF Saving, Content, OldLogSurvives
    <3>3. CASE where[w] \in {"bak_open", "log_open", "measure", "read", "write", "append"}
      BY <3>1, <3>3 DEF Restoring, BakIsOld, OldLogSurvives
    <3>4. CASE where[w] \in {"unlink", "done"}
      BY <3>1, <3>4 DEF Restoring, OldLogSurvives
    <3> QED BY <3>1, <3>2, <3>3, <3>4 DEF Label
  <2> QED BY <2>1, <2>2
<1> QED BY <1>1, LogInvariant, PTL
==============================================================================
