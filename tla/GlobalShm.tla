------------------------------- MODULE GlobalShm -------------------------------
(***************************************************************************)
(* The global block of mdsapi/src/mds_shm.c: app_shm_set_global_data       *)
(* copies the caller's block into the segment, with no lock, and then      *)
(* sends a notice to UDP_IPC_PORT__CHK_GLOBAL_MEM; an application that has *)
(* a server on that port (udp_ipc_server.c) copies the block out again     *)
(* with app_shm_get_global_data when a notice comes.                       *)
(*                                                                         *)
(* memcpy is a step per word, in any order.  A call that cannot attach the *)
(* segment answers MDS_SHM_FALSE and changes nothing.                      *)
(***************************************************************************)
EXTENDS Integers

CONSTANTS Setter,     (* the threads that set the block                      *)
          Listener,   (* the servers' threads                                *)
          Word,       (* the words of the block                              *)
          GlobalValue,(* what is set in a word                               *)
          Zero,       (* a word of the new segment                           *)
          Room        (* the notices the socket of a server has room for     *)

ASSUME RoomAssumption == Room \in Nat \ {0}
ASSUME ThreadAssumption == Setter \cap Listener = {}

VARIABLES block,      (* the shared block                                    *)
          at,         (* where each thread is                                *)
          left,       (* the words its memcpy has still to copy              *)
          given,      (* the block a setter was given                        *)
          rest,       (* the servers its notice has still to reach           *)
          notices,    (* how many are in the socket of a server              *)
          copy,       (* the block as the server's application has it        *)
          missed      (* ghost: the servers a change was not told to         *)

globalVars == <<block, at, left, given, rest, notices, copy, missed>>

Thread == Setter \cup Listener
Block == [Word -> GlobalValue \cup {Zero}]
ZeroBlock == [w \in Word |-> Zero]

GlobalInit == /\ block = ZeroBlock
              /\ at = [t \in Thread |-> "idle"]
              /\ left = [t \in Thread |-> {}]
              /\ given = [s \in Setter |-> ZeroBlock]
              /\ rest = [s \in Setter |-> {}]
              /\ notices = [l \in Listener |-> 0]
              /\ copy = [l \in Listener |-> ZeroBlock]
              /\ missed = {}

-----------------------------------------------------------------------------
(* app_shm_set_global_data                                                 *)

Call(s) == /\ at[s] = "idle"
           /\ \E d \in [Word -> GlobalValue] : given' = [given EXCEPT ![s] = d]
           /\ at' = [at EXCEPT ![s] = "memcpy"]
           /\ left' = [left EXCEPT ![s] = Word]
           /\ rest' = [rest EXCEPT ![s] = Listener]
           /\ UNCHANGED <<block, notices, copy, missed>>

SetWord(s) == /\ at[s] = "memcpy"
              /\ \E w \in left[s] : /\ block' = [block EXCEPT ![w] = given[s][w]]
                                    /\ left' = [left EXCEPT ![s] = @ \ {w}]
              /\ UNCHANGED <<at, given, rest, notices, copy, missed>>

(* Mutant: the notice goes out before the memcpy is through.               *)
DeliverEarly(s) == /\ at[s] = "memcpy"
                   /\ \E l \in rest[s] : /\ notices' = [notices EXCEPT ![l] = IF @ < Room THEN @ + 1 ELSE @]
                                         /\ rest' = [rest EXCEPT ![s] = @ \ {l}]
                                         /\ missed' = missed \ {l}
                   /\ UNCHANGED <<block, at, left, given, copy>>

(* The broadcast reaches one server after the other; a full socket drops it. *)
Deliver(s) == /\ at[s] = "memcpy" /\ left[s] = {}
              /\ \E l \in rest[s] : /\ notices' = [notices EXCEPT ![l] = IF @ < Room THEN @ + 1 ELSE @]
                                    /\ rest' = [rest EXCEPT ![s] = @ \ {l}]
                                    /\ missed' = missed \ {l}
              /\ UNCHANGED <<block, at, left, given, copy>>

LeaveSet(s) == /\ at' = [at EXCEPT ![s] = "idle"]
               /\ left' = [left EXCEPT ![s] = {}]
               /\ given' = [given EXCEPT ![s] = ZeroBlock]
               /\ rest' = [rest EXCEPT ![s] = {}]
               /\ UNCHANGED <<block, notices, copy>>

SetReturns(s) == /\ at[s] = "memcpy" /\ left[s] = {} /\ rest[s] = {}
                 /\ LeaveSet(s)
                 /\ UNCHANGED missed

(* No socket, or sendto fails: the caller is told MDS_SHM_TRUE.            *)
SendFails(s) == /\ at[s] = "memcpy" /\ left[s] = {} /\ rest[s] = Listener
                /\ LeaveSet(s)
                /\ missed' = Listener

(* The setting process is killed, perhaps in the middle of the block.      *)
Kill(s) == /\ at[s] = "memcpy"
           /\ LeaveSet(s)
           /\ missed' = missed \cup rest[s]

-----------------------------------------------------------------------------
(* A server, whose handler calls app_shm_get_global_data.                  *)

Receive(l) == /\ at[l] = "idle" /\ notices[l] > 0
              /\ notices' = [notices EXCEPT ![l] = @ - 1]
              /\ at' = [at EXCEPT ![l] = "memcpy"]
              /\ left' = [left EXCEPT ![l] = Word]
              /\ UNCHANGED <<block, given, rest, copy, missed>>

GetWord(l) == /\ at[l] = "memcpy"
              /\ \E w \in left[l] : /\ copy' = [copy EXCEPT ![l] = [@ EXCEPT ![w] = block[w]]]
                                    /\ left' = [left EXCEPT ![l] = @ \ {w}]
              /\ UNCHANGED <<block, at, given, rest, notices, missed>>

Handled(l) == /\ at[l] = "memcpy" /\ left[l] = {}
              /\ at' = [at EXCEPT ![l] = "idle"]
              /\ UNCHANGED <<block, left, given, rest, notices, copy, missed>>

-----------------------------------------------------------------------------
Set(s) == Call(s) \/ SetWord(s) \/ Deliver(s) \/ SetReturns(s) \/ SendFails(s) \/ Kill(s)
Serve(l) == Receive(l) \/ GetWord(l) \/ Handled(l)

GlobalNext == (\E s \in Setter : Set(s)) \/ (\E l \in Listener : Serve(l))

GlobalSpec == GlobalInit /\ [][GlobalNext]_globalVars

-----------------------------------------------------------------------------
TypeOK == /\ block \in Block
          /\ at \in [Thread -> {"idle", "memcpy"}]
          /\ left \in [Thread -> SUBSET Word]
          /\ given \in [Setter -> Block]
          /\ rest \in [Setter -> SUBSET Listener]
          /\ notices \in [Listener -> 0..Room]
          /\ copy \in [Listener -> Block]
          /\ missed \in SUBSET Listener

(* Some notice is on its way to l, or will be.                             *)
ToBeTold(l) == notices[l] > 0 \/ \E s \in Setter : l \in rest[s]

(* When nobody sets the block and l has handled its notices, it has the    *)
(* block as it is in the segment, also when calls have overlapped, when it *)
(* read half of a block, when notices were dropped because its socket was  *)
(* full, and when an earlier call failed to tell it or was killed, as long *)
(* as a later one told it.                                                 *)
ListenersUpToDate == \A l \in Listener \ missed :
  at[l] = "idle" /\ ~ToBeTold(l) => copy[l] = block

(* The inductive strengthening: what l has read of the block since its     *)
(* last notice is as it is in the segment, unless it will be told again.   *)
ReadIsCurrent == \A l \in Listener \ missed :
  ToBeTold(l) \/ \A w \in Word \ left[l] : copy[l][w] = block[w]

(* Who is not in a call has nothing left to copy or to tell.               *)
IdleHasNothingLeft == \A t \in Thread : at[t] = "idle" => left[t] = {} /\ (t \in Setter => rest[t] = {})

(* A setter tells nobody before its block is in the segment.               *)
TellsAfterwards == \A s \in Setter : left[s] # {} => rest[s] = Listener

GlobalIInv == TypeOK /\ ReadIsCurrent /\ IdleHasNothingLeft /\ TellsAfterwards
=============================================================================
