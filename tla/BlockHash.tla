------------------------------- MODULE BlockHash -------------------------------
(***************************************************************************)
(* Assignment 4, part 1: the threads running hashit (thread_func.c) hand    *)
(* themselves the blocks of a mapped file under one mutex and hash them     *)
(* outside it; main (part-1/main.c) creates and joins them and prints the   *)
(* hash of every block.                                                     *)
(*                                                                         *)
(* Pointers are offsets: dataptr from the start of the mapping (in bytes),  *)
(* optr from the start of hashes (in elements).  The file is the function   *)
(* Word from word index to contents; its size is any member of Sizes.       *)
(***************************************************************************)
EXTENDS Integers, FiniteSetsExt

CONSTANTS Threads,      \* the threads main asks for (1..32 of them)
          BLOCK_SIZE,   \* bytes hashed into one value
          WORD,         \* sizeof(unsigned long)
          ULongMod,     \* 2^64: unsigned long arithmetic is modulo this
          Sizes,        \* the sizes of file considered
          Word(_),      \* the contents of the i-th whole word of the file
          Unset,        \* a slot of hashes as malloc left it
          None          \* no thread

(***************************************************************************)
(* mmap refuses an empty file (main.c:62-67) and main a number of threads   *)
(* that is not positive (main.c:43-46).                                     *)
(***************************************************************************)
ASSUME SizesAssumption ==
    /\ BLOCK_SIZE \in Nat \ {0}
    /\ Sizes \subseteq Nat \ {0}

(***************************************************************************)
(* A block is a whole number of words (64 bytes of 8, common.h:6); a size   *)
(* fits unsigned long, and so does a word.                                  *)
(***************************************************************************)
ASSUME WordsAssumption ==
    /\ WORD \in Nat \ {0} /\ BLOCK_SIZE % WORD = 0
    /\ ULongMod \in Nat
    /\ \A s \in Sizes : /\ s < ULongMod
                        /\ \A w \in 0 .. s \div WORD - 1 : Word(w) \in 0 .. ULongMod - 1

ASSUME ThreadsAssumption == Threads # {} /\ None \notin Threads

VARIABLES size,         \* sbuf.st_size
          dataptr, optr,\* the next block, the next slot: shared
          hashes,       \* slot -> hash
          owner,        \* holder of the mutex
          pc,           \* where each thread is in hashit
          cptr, chash,  \* each thread's own block and slot
          main,         \* where main is
          printed       \* what main printed

vars == <<size, dataptr, optr, hashes, owner, pc, cptr, chash, main, printed>>

-------------------------------------------------------------------------------
(***************************************************************************)
(* calculate_and_store_hash: at most BLOCK_SIZE/WORD words from ptr, each   *)
(* only if the test of main.c:20 lets it.  That test compares a pointer     *)
(* difference with a sizeof, so it is made on unsigned values.              *)
(***************************************************************************)
\* Mutant: "<=" for "<", which drops the last whole word of the file
MutTooShort(ptr, endptr) == (endptr - ptr) % ULongMod <= WORD

TooShort(ptr, endptr) == (endptr - ptr) % ULongMod < WORD

calculate_and_store_hash(ptr, endptr) ==
    LET count == BLOCK_SIZE \div WORD
        at(left) == ptr + (count - left) * WORD
        hashval[left \in 0..count] ==
            IF left = 0 \/ TooShort(at(left), endptr)
            THEN 0
            ELSE (Word(at(left) \div WORD) + hashval[left - 1]) % ULongMod
    IN  hashval[count]

(* hash_count of main.c:69-71 *)
hash_count == size \div BLOCK_SIZE + (IF size % BLOCK_SIZE # 0 THEN 1 ELSE 0)

Slots == 0 .. hash_count - 1

-------------------------------------------------------------------------------
Goto(t, l) == pc' = [pc EXCEPT ![t] = l]

-------------------------------------------------------------------------------
(***************************************************************************)
(* Mutants: plausible slips in hashit.                                      *)
(***************************************************************************)
\* does not wait for the mutex
MutLock(t) ==
    /\ pc[t] = "lock"
    /\ owner' = t
    /\ Goto(t, "check")
    /\ UNCHANGED <<size, dataptr, optr, hashes, cptr, chash, main, printed>>

\* continue instead of break
MutNoMoreData(t) ==
    /\ pc[t] = "check" /\ dataptr >= size
    /\ owner' = None
    /\ Goto(t, "lock")
    /\ UNCHANGED <<size, dataptr, optr, hashes, cptr, chash, main, printed>>

\* takes the slot before the one optr points at
MutTakeSlot(t) ==
    /\ pc[t] = "slot"
    /\ chash' = [chash EXCEPT ![t] = optr - 1]
    /\ optr' = optr + 1
    /\ Goto(t, "unlock")
    /\ UNCHANGED <<size, dataptr, hashes, owner, cptr, main, printed>>

\* clears the slot, then adds to it
MutStoreHash(t) ==
    /\ pc[t] = "hash"
    /\ IF hashes[chash[t]] = Unset
       THEN hashes' = [hashes EXCEPT ![chash[t]] = 0] /\ UNCHANGED pc
       ELSE /\ hashes' = [hashes EXCEPT ![chash[t]] = calculate_and_store_hash(cptr[t], size)]
            /\ Goto(t, "lock")
    /\ UNCHANGED <<size, dataptr, optr, owner, cptr, chash, main, printed>>

-------------------------------------------------------------------------------
(* Lines 43-82 of main.c. *)
Init ==
    /\ size \in Sizes
    /\ dataptr = 0 /\ optr = 0
    /\ hashes = [i \in Slots |-> Unset]
    /\ owner = None
    /\ pc = [t \in Threads |-> "new"]
    /\ cptr = [t \in Threads |-> 0] /\ chash = [t \in Threads |-> 0]
    /\ main = "create"
    /\ printed = <<>>

Lock(t) ==
    /\ pc[t] = "lock" /\ owner = None
    /\ owner' = t
    /\ Goto(t, "check")
    /\ UNCHANGED <<size, dataptr, optr, hashes, cptr, chash, main, printed>>

(* dataptr >= endptr: unlock, break, pthread_exit *)
NoMoreData(t) ==
    /\ pc[t] = "check" /\ dataptr >= size
    /\ owner' = None
    /\ Goto(t, "exit")
    /\ UNCHANGED <<size, dataptr, optr, hashes, cptr, chash, main, printed>>

TakeBlock(t) ==
    /\ pc[t] = "check" /\ dataptr < size
    /\ cptr' = [cptr EXCEPT ![t] = dataptr]
    /\ dataptr' = dataptr + BLOCK_SIZE
    /\ Goto(t, "slot")
    /\ UNCHANGED <<size, optr, hashes, owner, chash, main, printed>>

TakeSlot(t) ==
    /\ pc[t] = "slot"
    /\ chash' = [chash EXCEPT ![t] = optr]
    /\ optr' = optr + 1
    /\ Goto(t, "unlock")
    /\ UNCHANGED <<size, dataptr, hashes, owner, cptr, main, printed>>

Unlock(t) ==
    /\ pc[t] = "unlock"
    /\ owner' = None
    /\ Goto(t, "hash")
    /\ UNCHANGED <<size, dataptr, optr, hashes, cptr, chash, main, printed>>

(* *chash = calculate_and_store_hash(cptr, endptr), outside the lock *)
StoreHash(t) ==
    /\ pc[t] = "hash"
    /\ hashes' = [hashes EXCEPT ![chash[t]] = calculate_and_store_hash(cptr[t], size)]
    /\ Goto(t, "lock")
    /\ UNCHANGED <<size, dataptr, optr, owner, cptr, chash, main, printed>>

hashit(t) == Lock(t) \/ NoMoreData(t) \/ TakeBlock(t) \/ TakeSlot(t) \/ Unlock(t) \/ StoreHash(t)

(* The creation loop of main: the new thread starts at its first lock. *)
Create(t) ==
    /\ main = "create" /\ pc[t] = "new"
    /\ Goto(t, "lock")
    /\ UNCHANGED <<size, dataptr, optr, hashes, owner, cptr, chash, main, printed>>

(* pthread_create fails: exit(-1) ends the process with nothing printed. *)
CreateFails ==
    /\ main = "create" /\ \E t \in Threads : pc[t] = "new"
    /\ main' = "failed"
    /\ pc' = [t \in Threads |-> "killed"]
    /\ UNCHANGED <<size, dataptr, optr, hashes, owner, cptr, chash, printed>>

Created ==
    /\ main = "create" /\ \A t \in Threads : pc[t] # "new"
    /\ main' = "join"
    /\ UNCHANGED <<size, dataptr, optr, hashes, owner, pc, cptr, chash, printed>>

(* Every pthread_join has returned: print, free, unmap, close. *)
Report ==
    /\ main = "join" /\ \A t \in Threads : pc[t] = "exit"
    /\ main' = "done"
    /\ printed' = hashes
    /\ UNCHANGED <<size, dataptr, optr, hashes, owner, pc, cptr, chash>>

Ended == main \in {"done", "failed"} /\ UNCHANGED vars

MainStep == (\E t \in Threads : Create(t)) \/ Created \/ Report

Next == (\E t \in Threads : hashit(t)) \/ MainStep \/ CreateFails \/ Ended

Spec == Init /\ [][Next]_vars

(***************************************************************************)
(* POSIX threads run; that a thread waiting for the mutex gets it is not    *)
(* promised (weak fairness of each thread only).                            *)
(***************************************************************************)
FairSpec == Spec /\ WF_vars(MainStep) /\ \A t \in Threads : WF_vars(hashit(t))

-------------------------------------------------------------------------------
TypeOK ==
    /\ size \in Sizes
    /\ dataptr \in Nat /\ optr \in Nat
    /\ owner \in Threads \cup {None}
    /\ pc \in [Threads -> {"new", "lock", "check", "slot", "unlock", "hash", "exit", "killed"}]
    /\ cptr \in [Threads -> Nat] /\ chash \in [Threads -> Nat]
    /\ main \in {"create", "join", "done", "failed"}

(* Threads that own a slot they have not written yet. *)
Hashing == {t \in Threads : pc[t] \in {"unlock", "hash"}}

(***************************************************************************)
(* The two shared pointers advance together: a thread about to hash has the *)
(* slot of its own block, a slot inside hashes, and nobody else has it.     *)
(* hashes is malloc'ed with hash_count elements (main.c:73), so a slot out  *)
(* of step is a store outside it.                                           *)
(***************************************************************************)
OwnSlot ==
    \A t \in Hashing :
        /\ chash[t] \in Slots
        /\ cptr[t] = chash[t] * BLOCK_SIZE
        /\ \A u \in Hashing : chash[u] = chash[t] => u = t

(***************************************************************************)
(* What main prints is the hash of every block and nothing else, in the     *)
(* order of the blocks, whatever the interleaving of the threads; the hash  *)
(* is the sum of the whole words of the file inside the block               *)
(* (main.c:15-26, 94-95).                                                   *)
(***************************************************************************)
WordsOf(i) == {w \in 0 .. size \div WORD - 1 :
                 w * WORD >= i * BLOCK_SIZE /\ (w + 1) * WORD <= (i + 1) * BLOCK_SIZE}

PrintedIsBlockHashes ==
    main = "done" =>
        printed = [i \in Slots |-> MapThenSumSet(Word, WordsOf(i)) % ULongMod]

(***************************************************************************)
(* A hash, once stored, is final: no thread stores to a slot twice, so main *)
(* cannot print a slot that is still to change (thread_func.c:30).          *)
(***************************************************************************)
StoredIsFinal ==
    [][\A i \in Slots : hashes[i] # Unset => hashes'[i] = hashes[i]]_vars

(***************************************************************************)
(* Unless a thread cannot be created, main gets to print: every thread      *)
(* finds the end of the data and releases the mutex on the way out          *)
(* (thread_func.c:17-20).                                                   *)
(***************************************************************************)
Finishes == <>(main \in {"done", "failed"})
===============================================================================
