-------------------------------- MODULE RWLock --------------------------------
(***************************************************************************)
(* The "miser's" read-write lock of Assignment4/rwlock.c: the whole lock is *)
(* one 64-bit integer, changed only by atomic_add.  A writer takes          *)
(* Unlocked (0x1000000000000) off the value, a reader takes 1 off; a thread *)
(* that does not like the sign of the result gives back what it took and    *)
(* spins.  Between the taking and the giving back the value does not        *)
(* describe the holders of the lock, which is where the algorithm is        *)
(* delicate.                                                                *)
(*                                                                         *)
(* Every atomic_add is one action; the callers (any thread, any order of    *)
(* read and write requests) are the environment.                            *)
(***************************************************************************)
EXTENDS Integers, FiniteSets

CONSTANTS Threads,      \* the threads that share the lock
          Unlocked      \* 0x1000000000000, the value of a free lock

(***************************************************************************)
(* The encoding reserves the values below Unlocked for readers, so there    *)
(* must be fewer threads than that (the test program has at most 64).       *)
(***************************************************************************)
ASSUME ThreadsAssumption ==
    /\ IsFiniteSet(Threads)
    /\ Unlocked \in Nat
    /\ Cardinality(Threads) < Unlocked

VARIABLES value,        \* rwlock_t.value
          pc            \* where each thread stands in the lock's functions

vars == <<value, pc>>

Locations == {"idle",           \* outside the lock's functions, no lock held
              "wtry", "wback",  \* write_lock: before line 18 / before line 19
              "write",          \* holds the write lock
              "rtry", "rback",  \* read_lock: before line 33 / before line 34
              "read"}           \* holds a read lock

-------------------------------------------------------------------------------
(* The sign that atomic_add reads off the flags of its "lock add". *)
Sign(x) == IF x < 0 THEN -1 ELSE IF x = 0 THEN 0 ELSE 1

-------------------------------------------------------------------------------
(***************************************************************************)
(* Mutants: plausible slips in the lock's functions.                        *)
(***************************************************************************)
\* gives back twice what the failed attempt took
MutWriteBackOffTwice(t) ==
    /\ pc[t] = "wback"
    /\ value' = value + 2 * Unlocked
    /\ pc' = [pc EXCEPT ![t] = "wtry"]

\* forgets to give back what the failed attempt took
MutWriteBackOffKeeps(t) ==
    /\ pc[t] = "wback"
    /\ pc' = [pc EXCEPT ![t] = "wtry"]
    /\ UNCHANGED value

\* "== 0" instead of "== -1" in read_lock
MutReadTryZero(t) ==
    /\ pc[t] = "rtry"
    /\ value' = value - 1
    /\ pc' = [pc EXCEPT ![t] = IF Sign(value - 1) = 0 THEN "rback" ELSE "read"]

\* write_lock spins only on a positive result
MutWriteTryPositive(t) ==
    /\ pc[t] = "wtry"
    /\ value' = value - Unlocked
    /\ pc' = [pc EXCEPT ![t] = IF Sign(value - Unlocked) = 1 THEN "wback" ELSE "write"]

\* write_lock waits for a positive result
MutWriteTryNever(t) ==
    /\ pc[t] = "wtry"
    /\ value' = value - Unlocked
    /\ pc' = [pc EXCEPT ![t] = IF Sign(value - Unlocked) = 1 THEN "write" ELSE "wback"]

\* read_lock wants to be the only reader
MutReadTryAlone(t) ==
    /\ pc[t] = "rtry"
    /\ value' = value - 1
    /\ pc' = [pc EXCEPT ![t] = IF value = Unlocked THEN "read" ELSE "rback"]

-------------------------------------------------------------------------------
(* init_rwlock *)
Init ==
    /\ value = Unlocked
    /\ pc = [t \in Threads |-> "idle"]

CallWriteLock(t) ==
    /\ pc[t] = "idle"
    /\ pc' = [pc EXCEPT ![t] = "wtry"]
    /\ UNCHANGED value

CallReadLock(t) ==
    /\ pc[t] = "idle"
    /\ pc' = [pc EXCEPT ![t] = "rtry"]
    /\ UNCHANGED value

(* while( atomic_add(&lock->value, -0x1000000000000) ) *)
WriteTry(t) ==
    /\ pc[t] = "wtry"
    /\ value' = value - Unlocked
    /\ pc' = [pc EXCEPT ![t] = IF Sign(value - Unlocked) = 0 THEN "write" ELSE "wback"]

WriteBackOff(t) ==
    /\ pc[t] = "wback"
    /\ value' = value + Unlocked
    /\ pc' = [pc EXCEPT ![t] = "wtry"]

WriteUnlock(t) ==
    /\ pc[t] = "write"
    /\ value' = value + Unlocked
    /\ pc' = [pc EXCEPT ![t] = "idle"]

(* while( atomic_add(&lock->value, -1) == -1 ) *)
ReadTry(t) ==
    /\ pc[t] = "rtry"
    /\ value' = value - 1
    /\ pc' = [pc EXCEPT ![t] = IF Sign(value - 1) = -1 THEN "rback" ELSE "read"]

ReadBackOff(t) ==
    /\ pc[t] = "rback"
    /\ value' = value + 1
    /\ pc' = [pc EXCEPT ![t] = "rtry"]

ReadUnlock(t) ==
    /\ pc[t] = "read"
    /\ value' = value + 1
    /\ pc' = [pc EXCEPT ![t] = "idle"]

(* The steps of the lock's own code, and of the caller that releases it. *)
LockStep(t) ==
    \/ WriteTry(t) \/ WriteBackOff(t) \/ WriteUnlock(t)
    \/ ReadTry(t)  \/ ReadBackOff(t)  \/ ReadUnlock(t)

Next == \E t \in Threads : CallWriteLock(t) \/ CallReadLock(t) \/ LockStep(t)

Spec == Init /\ [][Next]_vars

(***************************************************************************)
(* A thread inside the lock's functions, or holding the lock, keeps running *)
(* (the threads are POSIX threads on a preemptive scheduler and the         *)
(* critical sections of the callers end); a thread outside need not call.   *)
(***************************************************************************)
FairSpec == Spec /\ \A t \in Threads : WF_vars(LockStep(t))

-------------------------------------------------------------------------------
(* Threads by what they have currently taken off the value. *)
Readers      == {t \in Threads : pc[t] = "read"}
Writers      == {t \in Threads : pc[t] = "write"}
TakenReads   == {t \in Threads : pc[t] \in {"read", "rback"}}
TakenWrites  == {t \in Threads : pc[t] \in {"write", "wback"}}

(***************************************************************************)
(* Type correctness.  The word stays within Cardinality(Threads) * 2^48 of  *)
(* zero, so with the 64 threads of main.c the 64-bit add of atomic_add      *)
(* never wraps around (common.h:17-38).                                     *)
(***************************************************************************)
TypeOK ==
    /\ value \in Unlocked - Cardinality(Threads) * Unlocked .. Unlocked
    /\ pc \in [Threads -> Locations]

(***************************************************************************)
(* A holder of the write lock excludes every other holder, although two     *)
(* failed attempts of others may be pending on the same word                *)
(* (write_lock and read_lock, rwlock.c:16-37).                              *)
(***************************************************************************)
MutualExclusion ==
    \A t \in Writers : Writers = {t} /\ Readers = {}

(***************************************************************************)
(* The word always decodes: it is Unlocked less what each thread has taken  *)
(* and not yet given back.  In particular, when no failed attempt is        *)
(* pending it has the values the assignment's table gives: Unlocked when    *)
(* free, 0 for a writer, Unlocked - n for n readers.  No path of            *)
(* rwlock.c:16-43 loses or repeats an add.                                  *)
(***************************************************************************)
ValueDecodes ==
    value = Unlocked - Cardinality(TakenReads) - Unlocked * Cardinality(TakenWrites)

(***************************************************************************)
(* The inductive strengthening of MutualExclusion and TypeOK.               *)
(***************************************************************************)
IInv ==
    /\ value \in Int
    /\ pc \in [Threads -> Locations]
    /\ ValueDecodes
    /\ MutualExclusion

(***************************************************************************)
(* The lock implements the abstract read-write lock: a thread enters at the *)
(* atomic_add that returns an acceptable sign and leaves at the one in the  *)
(* unlock function; back-offs are invisible (rwlock.c:10-43).               *)
(***************************************************************************)
Abs == INSTANCE AbstractRWLock WITH readers <- Readers, writers <- Writers

ImplementsAbstract == Abs!ASpec

(***************************************************************************)
(* A thread that runs alone gets its lock.  rwlock.c promises no more:      *)
(* under contention the two spin loops can keep each other from entering    *)
(* for ever (a pending writer turns readers away and the reverse).          *)
(***************************************************************************)
ObstructionFree ==
    \A t \in Threads :
        <>[](\A u \in Threads \ {t} : pc[u] = "idle")
            => (pc[t] \in {"wtry", "wback", "rtry", "rback"} ~> pc[t] \in {"read", "write"})

(***************************************************************************)
(* Readers do not hold each other up: once no thread is in write_lock or    *)
(* its critical section, every reader gets in (rwlock.c:31-37).             *)
(***************************************************************************)
ReadersNeverStarveReaders ==
    <>[](\A u \in Threads : pc[u] \notin {"wtry", "wback", "write"})
        => \A t \in Threads : pc[t] \in {"rtry", "rback"} ~> pc[t] = "read"
===============================================================================
