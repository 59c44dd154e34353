------------------------------ MODULE RWLockTest ------------------------------
(***************************************************************************)
(* The test program of part-2 (main.c): every thread runs thfunc, which     *)
(* ITERS times adds 5 to wr_ctr under the write lock and 5 to rd_ctr under   *)
(* the read lock; main joins the threads and prints both counters.          *)
(* "x += 5" on a shared variable is a load and a store.                     *)
(***************************************************************************)
EXTENDS RWLock

CONSTANT ITERS          \* rounds of each thread (1000000 in main.c)

ASSUME ItersAssumption == ITERS \in Nat \ {0}

VARIABLES wr_ctr, rd_ctr,       \* the shared counters
          ctr,                  \* thfunc's loop variable
          reg,                  \* the value a thread loaded for its "+= 5"
          stage                 \* the statement of thfunc a thread is at

tvars == <<value, pc, wr_ctr, rd_ctr, ctr, reg, stage>>

Stages == {"w_lock", "w_load", "w_store", "w_unlock",
           "r_lock", "r_load", "r_store", "r_unlock", "exit"}

-------------------------------------------------------------------------------
TInit ==
    /\ Init
    /\ wr_ctr = 0 /\ rd_ctr = 0
    /\ ctr = [t \in Threads |-> 0]
    /\ reg = [t \in Threads |-> 0]
    /\ stage = [t \in Threads |-> "w_lock"]

Goto(t, s) == stage' = [stage EXCEPT ![t] = s]

(* write_lock(&lock): as many steps as the lock's code takes *)
LockForWriting(t) ==
    /\ stage[t] = "w_lock"
    /\ CallWriteLock(t) \/ WriteTry(t) \/ WriteBackOff(t)
    /\ IF pc'[t] = "write" THEN Goto(t, "w_load") ELSE UNCHANGED stage
    /\ UNCHANGED <<wr_ctr, rd_ctr, ctr, reg>>

(* wr_ctr += 5; *)
LoadWr(t) ==
    /\ stage[t] = "w_load"
    /\ reg' = [reg EXCEPT ![t] = wr_ctr]
    /\ Goto(t, "w_store")
    /\ UNCHANGED <<vars, wr_ctr, rd_ctr, ctr>>

StoreWr(t) ==
    /\ stage[t] = "w_store"
    /\ wr_ctr' = reg[t] + 5
    /\ Goto(t, "w_unlock")
    /\ UNCHANGED <<vars, rd_ctr, ctr, reg>>

UnlockWriting(t) ==
    /\ stage[t] = "w_unlock"
    /\ WriteUnlock(t)
    /\ Goto(t, "r_lock")
    /\ UNCHANGED <<wr_ctr, rd_ctr, ctr, reg>>

LockForReading(t) ==
    /\ stage[t] = "r_lock"
    /\ CallReadLock(t) \/ ReadTry(t) \/ ReadBackOff(t)
    /\ IF pc'[t] = "read" THEN Goto(t, "r_load") ELSE UNCHANGED stage
    /\ UNCHANGED <<wr_ctr, rd_ctr, ctr, reg>>

(* rd_ctr += 5; *)
LoadRd(t) ==
    /\ stage[t] = "r_load"
    /\ reg' = [reg EXCEPT ![t] = rd_ctr]
    /\ Goto(t, "r_store")
    /\ UNCHANGED <<vars, wr_ctr, rd_ctr, ctr>>

StoreRd(t) ==
    /\ stage[t] = "r_store"
    /\ rd_ctr' = reg[t] + 5
    /\ Goto(t, "r_unlock")
    /\ UNCHANGED <<vars, wr_ctr, ctr, reg>>

\* Mutant: "<=" in the loop test
MutUnlockReading(t) ==
    /\ stage[t] = "r_unlock"
    /\ ReadUnlock(t)
    /\ ctr' = [ctr EXCEPT ![t] = @ + 1]
    /\ Goto(t, IF ctr[t] + 1 <= ITERS THEN "w_lock" ELSE "exit")
    /\ UNCHANGED <<wr_ctr, rd_ctr, reg>>

(* read_unlock(&lock), ++ctr and the loop test of thfunc *)
UnlockReading(t) ==
    /\ stage[t] = "r_unlock"
    /\ ReadUnlock(t)
    /\ ctr' = [ctr EXCEPT ![t] = @ + 1]
    /\ Goto(t, IF ctr[t] + 1 < ITERS THEN "w_lock" ELSE "exit")
    /\ UNCHANGED <<wr_ctr, rd_ctr, reg>>

AllExited == \A t \in Threads : stage[t] = "exit"

(* main has joined every thread and prints the counters *)
Joined == AllExited /\ UNCHANGED tvars

thfunc(t) ==
    \/ LockForWriting(t) \/ LoadWr(t) \/ StoreWr(t) \/ UnlockWriting(t)
    \/ LockForReading(t) \/ LoadRd(t) \/ StoreRd(t) \/ UnlockReading(t)

TNext == (\E t \in Threads : thfunc(t)) \/ Joined

TSpec == TInit /\ [][TNext]_tvars

-------------------------------------------------------------------------------
(***************************************************************************)
(* No update under the write lock is lost: when the threads are joined,     *)
(* wr_ctr has the value main.c:81 announces.  (rd_ctr, announced with the   *)
(* same value, is incremented by readers that share the lock: two of them   *)
(* can load the same value, and nothing is claimed of it.)                  *)
(***************************************************************************)
WrCtrExact == AllExited => wr_ctr = 5 * ITERS * Cardinality(Threads)
===============================================================================
