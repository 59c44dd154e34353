---------------------------- MODULE BlockHashProofs ----------------------------
(***************************************************************************)
(* Proofs about BlockHash for any set of threads, any block size and any    *)
(* file: every thread hashes into the slot of its own block, a stored hash  *)
(* is final, and what main prints is the sum of the words of each block.    *)
(*                                                                         *)
(* OwnSlot alone is not inductive.  IInv adds what the mutex protects: who  *)
(* is inside it, that the shared pointers agree whenever nobody is between  *)
(* the two increments, and what every slot already handed out contains.     *)
(* That the loop of calculate_and_store_hash adds every word of the block   *)
(* once is shown by induction over the words, with NatSet: the induction    *)
(* principle stated for a set of naturals.                                  *)
(***************************************************************************)
EXTENDS BlockHash, FiniteSetTheorems, WellFoundedInduction, TLAPS

(* The hash of block i, as the code computes it. *)
H(i) == calculate_and_store_hash(i * BLOCK_SIZE, size)

InMutex == {"check", "slot", "unlock"}

Mutex == \A t \in Threads : pc[t] \in InMutex => owner = t

(* Between TakeBlock and TakeSlot the two pointers differ by one block. *)
Pointers ==
    /\ main # "failed" /\ (\A t \in Threads : pc[t] # "slot") => dataptr = optr * BLOCK_SIZE
    /\ \A t \in Threads : pc[t] = "slot" =>
          /\ cptr[t] = optr * BLOCK_SIZE
          /\ dataptr = optr * BLOCK_SIZE + BLOCK_SIZE
          /\ optr \in Slots

(* Every slot handed out is inside hashes. *)
HandedOut == \A i \in Nat : i < optr => i \in Slots

Owned ==
    \A t \in Hashing :
        /\ chash[t] < optr
        /\ cptr[t] = chash[t] * BLOCK_SIZE
        /\ hashes[chash[t]] = Unset
        /\ \A u \in Hashing : chash[u] = chash[t] => u = t

Contents ==
    /\ hashes = [i \in Slots |-> hashes[i]]
    /\ \A i \in Slots :
          /\ i >= optr => hashes[i] = Unset
          /\ i < optr /\ main # "failed" => (\E t \in Hashing : chash[t] = i) \/ hashes[i] = H(i)

Ends ==
    /\ main = "failed" => \A t \in Threads : pc[t] = "killed"
    /\ main # "failed" => \A t \in Threads : pc[t] # "killed"
    /\ \A t \in Threads : pc[t] = "exit" => dataptr >= size
    /\ main = "done" => \A t \in Threads : pc[t] = "exit"
    /\ main = "done" => printed = [i \in Slots |-> H(i)]

IInv == TypeOK /\ Mutex /\ Pointers /\ HandedOut /\ Owned /\ Contents /\ Ends

-------------------------------------------------------------------------------
(***************************************************************************)
(* hash_count of main.c:69-71 is the number of blocks that start inside the *)
(* file: the loop of hashit hands out exactly that many.                    *)
(***************************************************************************)
LEMMA SlotsAre ==
    ASSUME size \in Nat
    PROVE  \A i \in Nat : i \in Slots <=> i * BLOCK_SIZE < size
  <1> SUFFICES ASSUME NEW i \in Nat PROVE i \in Slots <=> i * BLOCK_SIZE < size
    OBVIOUS
  <1> DEFINE q == size \div BLOCK_SIZE
             r == size % BLOCK_SIZE
  <1>1. /\ BLOCK_SIZE \in Nat /\ BLOCK_SIZE > 0
        /\ q \in Nat /\ r \in Nat /\ r < BLOCK_SIZE /\ size = q * BLOCK_SIZE + r
    BY SizesAssumption
  <1>2. i \in Slots <=> IF r # 0 THEN i <= q ELSE i < q
    <2>1. Slots = 0 .. (q + (IF r # 0 THEN 1 ELSE 0)) - 1  BY DEF Slots, hash_count
    <2> HIDE DEF q, r
    <2> QED  BY <1>1, <2>1
  <1> HIDE DEF q, r
  <1>3. i <= q => i * BLOCK_SIZE <= q * BLOCK_SIZE  BY <1>1
  <1>4. i < q => i * BLOCK_SIZE + BLOCK_SIZE <= q * BLOCK_SIZE
    <2>1. i + 1 <= q => (i + 1) * BLOCK_SIZE <= q * BLOCK_SIZE  BY <1>1
    <2>2. (i + 1) * BLOCK_SIZE = i * BLOCK_SIZE + BLOCK_SIZE  BY <1>1
    <2> QED  BY <2>1, <2>2, <1>1
  <1>5. i >= q => i * BLOCK_SIZE >= q * BLOCK_SIZE  BY <1>1
  <1>6. i > q => i * BLOCK_SIZE >= q * BLOCK_SIZE + BLOCK_SIZE
    <2>1. i >= q + 1 => i * BLOCK_SIZE >= (q + 1) * BLOCK_SIZE  BY <1>1
    <2>2. (q + 1) * BLOCK_SIZE = q * BLOCK_SIZE + BLOCK_SIZE  BY <1>1
    <2> QED  BY <2>1, <2>2, <1>1
  <1>7. i * BLOCK_SIZE \in Nat /\ q * BLOCK_SIZE \in Nat  BY <1>1
  <1> QED  BY <1>1, <1>2, <1>3, <1>4, <1>5, <1>6, <1>7

(***************************************************************************)
(* The invariant holds when main has prepared the pointers.                 *)
(***************************************************************************)
LEMMA InitIInv == Init => IInv
  <1> SUFFICES ASSUME Init PROVE IInv  OBVIOUS
  <1> USE DEF Init
  <1>1. TypeOK  BY DEF TypeOK
  <1>2. Mutex /\ HandedOut /\ Ends  BY DEF Mutex, InMutex, HandedOut, Ends
  <1>3. Pointers  BY SizesAssumption DEF Pointers
  <1>4. Owned  BY DEF Owned, Hashing
  <1>5. Contents  BY DEF Contents, Slots
  <1> QED  BY <1>1, <1>2, <1>3, <1>4, <1>5 DEF IInv

(***************************************************************************)
(* Each step of a thread keeps it ...                                       *)
(***************************************************************************)
LEMMA ThreadStep ==
    ASSUME IInv, NEW t \in Threads, hashit(t)
    PROVE  IInv'
  <1> USE DEF IInv, Goto
  <1>0. /\ size \in Nat /\ optr \in Nat /\ dataptr \in Nat /\ BLOCK_SIZE \in Nat
        /\ pc \in [Threads -> {"new", "lock", "check", "slot", "unlock", "hash", "exit", "killed"}]
        /\ cptr \in [Threads -> Nat] /\ chash \in [Threads -> Nat]
    BY SizesAssumption DEF TypeOK
  <1>00. size' = size /\ main' = main /\ printed' = printed
    BY DEF hashit, Lock, NoMoreData, TakeBlock, TakeSlot, Unlock, StoreHash
  <1>s. Slots' = Slots /\ \A i : H(i)' = H(i)
    BY <1>00 DEF Slots, hash_count, H, calculate_and_store_hash, TooShort
  <1>m. main # "failed"
    BY DEF hashit, Lock, NoMoreData, TakeBlock, TakeSlot, Unlock, StoreHash, Ends
  <1>1. CASE Lock(t)
    <2> USE <1>1 DEF Lock
    <2>1. TypeOK'  BY DEF TypeOK
    <2>2. Mutex'  BY <1>0, ThreadsAssumption DEF Mutex, InMutex
    <2>3. Pointers'  BY <1>0, <1>s, <1>m DEF Pointers
    <2>4. HandedOut'  BY <1>s DEF HandedOut
    <2>5. Hashing' = Hashing  BY <1>0 DEF Hashing
    <2>6. Owned'  BY <2>5 DEF Owned
    <2>7. Contents'  BY <2>5, <1>s DEF Contents
    <2>8. Ends'  BY <1>0, <1>s DEF Ends
    <2> QED  BY <2>1, <2>2, <2>3, <2>4, <2>6, <2>7, <2>8
  <1>2. CASE NoMoreData(t)
    <2> USE <1>2 DEF NoMoreData
    <2>1. TypeOK'  BY DEF TypeOK
    <2>2. Mutex'  BY <1>0 DEF Mutex, InMutex
    <2>3. Pointers'  BY <1>0, <1>s, <1>m DEF Pointers
    <2>4. HandedOut'  BY <1>s DEF HandedOut
    <2>5. Hashing' = Hashing  BY <1>0 DEF Hashing
    <2>6. Owned'  BY <2>5 DEF Owned
    <2>7. Contents'  BY <2>5, <1>s DEF Contents
    <2>8. Ends'  BY <1>0, <1>s, <1>m DEF Ends
    <2> QED  BY <2>1, <2>2, <2>3, <2>4, <2>6, <2>7, <2>8
  <1>3. CASE TakeBlock(t)
    <2> USE <1>3 DEF TakeBlock
    <2>0. \A u \in Threads : pc[u] # "slot"
      BY <1>0 DEF Mutex, InMutex
    <2>1. TypeOK'  BY <1>0 DEF TypeOK
    <2>2. Mutex'  BY <1>0 DEF Mutex, InMutex
    <2>3. Pointers'
      <3>1. dataptr = optr * BLOCK_SIZE  BY <2>0, <1>m DEF Pointers
      <3>2. optr \in Slots  BY <1>0, <3>1, SlotsAre
      <3> QED  BY <1>0, <1>s, <2>0, <3>1, <3>2 DEF Pointers
    <2>4. HandedOut'  BY <1>s DEF HandedOut
    <2>5. Hashing' = Hashing  BY <1>0 DEF Hashing
    <2>6. Owned'  BY <1>0, <2>5 DEF Owned, Hashing
    <2>7. Contents'  BY <2>5, <1>s DEF Contents
    <2>8. Ends'  BY <1>0, <1>s, <1>m DEF Ends
    <2> QED  BY <2>1, <2>2, <2>3, <2>4, <2>6, <2>7, <2>8
  <1>4. CASE TakeSlot(t)
    <2> USE <1>4 DEF TakeSlot
    <2>0. \A u \in Threads \ {t} : pc[u] \notin InMutex
      BY <1>0 DEF Mutex, InMutex
    <2>1. TypeOK'  BY <1>0 DEF TypeOK
    <2>2. Mutex'  BY <1>0 DEF Mutex, InMutex
    <2>a. /\ optr \in Slots /\ cptr[t] = optr * BLOCK_SIZE
          /\ dataptr = optr * BLOCK_SIZE + BLOCK_SIZE
      BY DEF Pointers
    <2>3. Pointers'
      <3>1. (optr + 1) * BLOCK_SIZE = optr * BLOCK_SIZE + BLOCK_SIZE  BY <1>0
      <3> QED  BY <1>0, <1>s, <2>0, <2>a, <3>1 DEF Pointers, InMutex
    <2>4. HandedOut'  BY <1>0, <1>s, <2>a DEF HandedOut
    <2>5. Hashing' = Hashing \cup {t} /\ t \notin Hashing  BY <1>0 DEF Hashing
    <2>6. Owned'
      <3>1. hashes[optr] = Unset  BY <1>0, <2>a DEF Contents
      <3> QED  BY <1>0, <2>5, <2>a, <3>1 DEF Owned, Hashing
    <2>7. Contents'
      <3>1. hashes' = [i \in Slots' |-> hashes'[i]]  BY <1>s DEF Contents
      <3>2. ASSUME NEW i \in Slots
            PROVE  /\ i >= optr' => hashes'[i] = Unset
                   /\ i < optr' /\ main' # "failed" =>
                        (\E u \in Hashing' : chash'[u] = i) \/ hashes'[i] = H(i)
        <4>1. i \in Int  BY DEF Slots
        <4>2. \A u \in Hashing : chash'[u] = chash[u]  BY <2>5, <1>0 DEF Hashing
        <4>3. chash'[t] = optr  BY <1>0
        <4> QED  BY <1>0, <1>00, <2>5, <4>1, <4>2, <4>3 DEF Contents
      <3> QED  BY <1>s, <3>1, <3>2 DEF Contents
    <2>8. Ends'  BY <1>0, <1>s, <1>m DEF Ends
    <2> QED  BY <2>1, <2>2, <2>3, <2>4, <2>6, <2>7, <2>8
  <1>5. CASE Unlock(t)
    <2> USE <1>5 DEF Unlock
    <2>1. TypeOK'  BY DEF TypeOK
    <2>2. Mutex'  BY <1>0 DEF Mutex, InMutex
    <2>3. Pointers'  BY <1>0, <1>s, <1>m DEF Pointers
    <2>4. HandedOut'  BY <1>s DEF HandedOut
    <2>5. Hashing' = Hashing  BY <1>0 DEF Hashing
    <2>6. Owned'  BY <2>5 DEF Owned
    <2>7. Contents'  BY <2>5, <1>s DEF Contents
    <2>8. Ends'  BY <1>0, <1>s, <1>m DEF Ends
    <2> QED  BY <2>1, <2>2, <2>3, <2>4, <2>6, <2>7, <2>8
  <1>6. CASE StoreHash(t)
    <2> USE <1>6 DEF StoreHash
    <2>0. t \in Hashing /\ chash[t] \in Nat /\ chash[t] < optr /\ chash[t] \in Slots
      BY <1>0 DEF Hashing, Owned, HandedOut
    <2>1. TypeOK'  BY DEF TypeOK
    <2>2. Mutex'  BY <1>0 DEF Mutex, InMutex
    <2>3. Pointers'  BY <1>0, <1>s, <1>m DEF Pointers
    <2>4. HandedOut'  BY <1>s DEF HandedOut
    <2>5. Hashing' = Hashing \ {t}  BY <1>0 DEF Hashing
    <2>a. hashes' = [hashes EXCEPT ![chash[t]] = H(chash[t])]
      BY <2>0 DEF H, Owned
    <2>b. DOMAIN hashes = Slots  BY DEF Contents
    <2>6. Owned'  BY <1>0, <2>0, <2>5, <2>a, <2>b DEF Owned
    <2>7. Contents'
      <3>1. hashes' = [i \in Slots' |-> hashes'[i]]  BY <1>s, <2>a, <2>b
      <3>2. ASSUME NEW i \in Slots
            PROVE  /\ i >= optr' => hashes'[i] = Unset
                   /\ i < optr' /\ main' # "failed" =>
                        (\E u \in Hashing' : chash'[u] = i) \/ hashes'[i] = H(i)
        <4>1. CASE i = chash[t]
          BY <4>1, <1>0, <2>0, <2>a, <2>b
        <4>2. CASE i # chash[t]
          BY <4>2, <1>0, <1>00, <2>0, <2>5, <2>a, <2>b DEF Contents
        <4> QED  BY <4>1, <4>2
      <3> QED  BY <1>s, <3>1, <3>2 DEF Contents
    <2>8. Ends'  BY <1>0, <1>s, <1>m DEF Ends
    <2> QED  BY <2>1, <2>2, <2>3, <2>4, <2>6, <2>7, <2>8
  <1> QED  BY <1>1, <1>2, <1>3, <1>4, <1>5, <1>6 DEF hashit

(***************************************************************************)
(* ... and so does each step of main.  The one that prints finds every      *)
(* thread at its end, so all blocks have been handed out and stored.        *)
(***************************************************************************)
LEMMA MainKeeps ==
    ASSUME IInv, MainStep \/ CreateFails
    PROVE  IInv'
  <1> USE DEF IInv, Goto
  <1>0. /\ size \in Nat /\ optr \in Nat /\ dataptr \in Nat /\ BLOCK_SIZE \in Nat
        /\ pc \in [Threads -> {"new", "lock", "check", "slot", "unlock", "hash", "exit", "killed"}]
    BY SizesAssumption DEF TypeOK
  <1>1. /\ size' = size /\ optr' = optr /\ dataptr' = dataptr /\ hashes' = hashes
        /\ cptr' = cptr /\ chash' = chash /\ owner' = owner
    BY DEF MainStep, Create, Created, Report, CreateFails
  <1>s. Slots' = Slots /\ \A i : H(i)' = H(i)
    BY <1>1 DEF Slots, hash_count, H, calculate_and_store_hash, TooShort
  <1>2. HandedOut'  BY <1>1, <1>s DEF HandedOut
  <1>3. CASE CreateFails
    <2> USE <1>3 DEF CreateFails
    <2>1. TypeOK'  BY <1>0 DEF TypeOK
    <2>2. Mutex'  BY DEF Mutex, InMutex
    <2>3. Pointers'  BY DEF Pointers
    <2>4. Hashing' = {}  BY DEF Hashing
    <2>5. Owned' /\ Contents'  BY <1>1, <1>s, <2>4 DEF Owned, Contents
    <2>6. Ends'  BY DEF Ends
    <2> QED  BY <1>2, <2>1, <2>2, <2>3, <2>5, <2>6
  <1>4. ASSUME NEW t \in Threads, Create(t) PROVE IInv'
    <2> USE <1>4 DEF Create
    <2>1. TypeOK'  BY <1>0 DEF TypeOK
    <2>2. Mutex'  BY <1>0 DEF Mutex, InMutex
    <2>3. Pointers'  BY <1>0, <1>s DEF Pointers
    <2>4. Hashing' = Hashing  BY <1>0 DEF Hashing
    <2>5. Owned' /\ Contents'  BY <1>1, <1>s, <2>4 DEF Owned, Contents
    <2>6. Ends'  BY <1>0, <1>s DEF Ends
    <2> QED  BY <1>2, <2>1, <2>2, <2>3, <2>5, <2>6
  <1>5. CASE Created
    <2> USE <1>5 DEF Created
    <2>1. TypeOK'  BY <1>0 DEF TypeOK
    <2>2. Mutex'  BY DEF Mutex, InMutex
    <2>3. Pointers'  BY <1>s DEF Pointers
    <2>4. Hashing' = Hashing  BY DEF Hashing
    <2>5. Owned' /\ Contents'  BY <1>1, <1>s, <2>4 DEF Owned, Contents
    <2>6. Ends'  BY <1>s DEF Ends
    <2> QED  BY <1>2, <2>1, <2>2, <2>3, <2>5, <2>6
  <1>6. CASE Report
    <2> USE <1>6 DEF Report
    <2>1. TypeOK'  BY <1>0 DEF TypeOK
    <2>2. Mutex'  BY DEF Mutex, InMutex
    <2>3. Pointers'  BY <1>s DEF Pointers
    <2>4. Hashing' = Hashing /\ Hashing = {}  BY DEF Hashing
    <2>5. Owned' /\ Contents'  BY <1>1, <1>s, <2>4 DEF Owned, Contents
    <2>6. \A i \in Slots : i < optr
      <3>1. optr * BLOCK_SIZE >= size
        BY <1>0, ThreadsAssumption DEF Ends, Pointers
      <3>2. optr \notin Slots  BY <1>0, <3>1, SlotsAre
      <3>3. Slots = 0 .. hash_count - 1 /\ hash_count \in Int
        BY <1>0, SizesAssumption DEF Slots, hash_count
      <3> QED  BY <1>0, <3>2, <3>3
    <2>7. hashes = [i \in Slots |-> H(i)]
      <3>1. \A i \in Slots : hashes[i] = H(i)  BY <2>4, <2>6 DEF Contents
      <3> QED  BY <3>1 DEF Contents
    <2>8. Ends'  BY <1>s, <2>7 DEF Ends
    <2> QED  BY <1>2, <2>1, <2>2, <2>3, <2>5, <2>8
  <1> QED  BY <1>3, <1>4, <1>5, <1>6 DEF MainStep

(***************************************************************************)
(* The invariant holds throughout.                                          *)
(***************************************************************************)
THEOREM Invariance == Spec => []IInv
  <1>1. Init => IInv  BY InitIInv
  <1>2. IInv /\ [Next]_vars => IInv'
    <2> SUFFICES ASSUME IInv, [Next]_vars PROVE IInv'  OBVIOUS
    <2>1. CASE UNCHANGED vars
      <3>1. Slots' = Slots /\ Hashing' = Hashing /\ \A i : H(i)' = H(i)
        BY <2>1 DEF vars, Slots, Hashing, hash_count, H, calculate_and_store_hash, TooShort
      <3> QED  BY <2>1, <3>1 DEF vars, IInv, TypeOK, Mutex, Pointers, HandedOut, Owned,
                                 Contents, Ends
    <2>2. CASE Next
      BY <2>1, <2>2, ThreadStep, MainKeeps DEF Next, Ended
    <2> QED  BY <2>1, <2>2
  <1> QED  BY <1>1, <1>2, PTL DEF Spec

(***************************************************************************)
(* Type correctness of the pointers, slots and program counters.            *)
(***************************************************************************)
THEOREM Typing == Spec => []TypeOK
  BY Invariance, PTL DEF IInv

(***************************************************************************)
(* A thread stores only inside hashes, only the hash of its own block, and  *)
(* no two threads have the same slot (thread_func.c:22-30).                 *)
(***************************************************************************)
THEOREM OwnSlotAlways == Spec => []OwnSlot
  <1>1. IInv => OwnSlot
    <2> SUFFICES ASSUME IInv, NEW t \in Hashing PROVE chash[t] \in Slots
      BY DEF OwnSlot, IInv, Owned
    <2>1. chash[t] \in Nat /\ chash[t] < optr
      BY DEF IInv, TypeOK, Owned, Hashing
    <2> QED  BY <2>1 DEF IInv, HandedOut
  <1> QED  BY <1>1, Invariance, PTL

(***************************************************************************)
(* A stored hash never changes (thread_func.c:30).                          *)
(***************************************************************************)
THEOREM StoredStays == Spec => StoredIsFinal
  <1>1. IInv /\ [Next]_vars =>
          [\A i \in Slots : hashes[i] # Unset => hashes'[i] = hashes[i]]_vars
    <2> SUFFICES ASSUME IInv, Next, NEW i \in Slots, hashes[i] # Unset
                 PROVE  hashes'[i] = hashes[i]
      OBVIOUS
    <2>1. CASE \E t \in Threads : StoreHash(t)
      <3> PICK t \in Threads : StoreHash(t)  BY <2>1
      <3>1. i # chash[t]  BY DEF StoreHash, IInv, Owned, Hashing
      <3> QED  BY <3>1 DEF StoreHash, IInv, Contents
    <2>2. CASE ~ \E t \in Threads : StoreHash(t)
      BY <2>2 DEF Next, hashit, Lock, NoMoreData, TakeBlock, TakeSlot, Unlock,
                  MainStep, Create, Created, Report, CreateFails, Ended, vars
    <2> QED  BY <2>1, <2>2
  <1> QED  BY <1>1, Invariance, PTL DEF Spec, StoredIsFinal

-------------------------------------------------------------------------------
(***************************************************************************)
(* Sums.  The reference of PrintedIsBlockHashes is a fold over a set, which *)
(* takes the words in the order of CHOOSE; the code takes them from the     *)
(* lowest address.  The lemmas show that the fold is well defined and that  *)
(* any element may be taken first.  Induction is over the sets of numbers   *)
(* for which a claim holds (NatSet).                                        *)
(***************************************************************************)
LEMMA NatSet ==
    ASSUME NEW S \in SUBSET Nat, 0 \in S, \A n \in S : n + 1 \in S
    PROVE  S = Nat
  <1> SUFFICES ASSUME Nat \ S # {} PROVE FALSE  OBVIOUS
  <1>1. PICK x \in Nat \ S : \A y \in Nat \ S : ~(<<y, x>> \in OpToRel(<, Nat))
    BY WFMin, NatLessThanWellFounded
  <1>2. x # 0 /\ x - 1 \in Nat /\ x - 1 < x  OBVIOUS
  <1>3. <<x - 1, x>> \in OpToRel(<, Nat)  BY <1>2 DEF OpToRel
  <1>4. x - 1 \in S  BY <1>1, <1>2, <1>3
  <1> QED  BY <1>4

Pick(s) == CHOOSE x \in s : TRUE
Sums(g, T) == g = [s \in T |-> IF s = {} THEN 0 ELSE Word(Pick(s)) + g[s \ {Pick(s)}]]

LEMMA SumIs ==
    ASSUME NEW S
    PROVE  MapThenSumSet(Word, S) = (CHOOSE g : Sums(g, SUBSET S))[S]
  BY DEF MapThenSumSet, MapThenFoldSet, Sums, Pick

LEMMA Picked ==
    ASSUME NEW s, s # {}, IsFiniteSet(s)
    PROVE  /\ Pick(s) \in s
           /\ IsFiniteSet(s \ {Pick(s)})
           /\ Cardinality(s) \in Nat \ {0}
           /\ Cardinality(s \ {Pick(s)}) = Cardinality(s) - 1
  <1>1. Pick(s) \in s  BY DEF Pick
  <1>2. Cardinality(s) \in Nat /\ Cardinality(s) # 0  BY FS_CardinalityType, FS_EmptySet
  <1>3. IsFiniteSet(s \ {Pick(s)}) /\ Cardinality(s \ {Pick(s)}) = Cardinality(s) - 1
    BY <1>1, FS_RemoveElement
  <1> QED  BY <1>1, <1>2, <1>3

(* The sum over the subsets of a finite set is well defined ... *)
LEMMA SumsExist ==
    ASSUME NEW S, IsFiniteSet(S)
    PROVE  \E g : Sums(g, SUBSET S)
  <1> DEFINE Upto(n) == {s \in SUBSET S : Cardinality(s) <= n}
             Good == {n \in Nat : \E g : Sums(g, Upto(n))}
  <1>0. \A s \in SUBSET S : IsFiniteSet(s) /\ Cardinality(s) \in Nat
    BY FS_Subset, FS_CardinalityType
  <1>1. 0 \in Good
    <2>1. \A s \in Upto(0) : s = {}  BY <1>0, FS_EmptySet
    <2>2. Sums([s \in Upto(0) |-> 0], Upto(0))  BY <2>1 DEF Sums
    <2> QED  BY <2>2
  <1>2. ASSUME NEW n \in Good PROVE n + 1 \in Good
    <2> PICK g : Sums(g, Upto(n))  OBVIOUS
    <2> DEFINE SumIn(h, s) == IF s = {} THEN 0 ELSE Word(Pick(s)) + h[s \ {Pick(s)}]
               h0 == [s \in Upto(n + 1) |-> SumIn(g, s)]
    <2>0. \A s \in Upto(n) : g[s] = SumIn(g, s)  BY DEF Sums
    <2>1. \A s \in Upto(n + 1) : s # {} => s \ {Pick(s)} \in Upto(n) /\ s \ {Pick(s)} \in Upto(n + 1)
      <3> SUFFICES ASSUME NEW s \in Upto(n + 1), s # {}
                   PROVE  s \ {Pick(s)} \in Upto(n) /\ s \ {Pick(s)} \in Upto(n + 1)
        OBVIOUS
      <3>1. Cardinality(s \ {Pick(s)}) = Cardinality(s) - 1 /\ Cardinality(s) \in Nat
        BY <1>0, Picked
      <3> QED  BY <3>1
    <2>2. \A s \in Upto(n) : h0[s] = g[s]
      <3>1. \A s \in Upto(n) : s \in Upto(n + 1)  BY <1>0
      <3> QED  BY <3>1, <2>0
    <2>3. \A s \in Upto(n + 1) : SumIn(g, s) = SumIn(h0, s)
      <3> SUFFICES ASSUME NEW s \in Upto(n + 1), s # {} PROVE g[s \ {Pick(s)}] = h0[s \ {Pick(s)}]
        OBVIOUS
      <3> QED  BY <2>1, <2>2
    <2>4. h0 = [s \in Upto(n + 1) |-> SumIn(h0, s)]
      <3> HIDE DEF SumIn
      <3> QED  BY <2>3
    <2>5. Sums(h0, Upto(n + 1))
      <3> HIDE DEF h0, Upto
      <3> QED  BY <2>4 DEF Sums
    <2> HIDE DEF h0, Upto
    <2> QED  BY <2>5
  <1>3. Good = Nat
    <2> HIDE DEF Good
    <2>1. Good \in SUBSET Nat  BY DEF Good
    <2> QED  BY <1>1, <1>2, <2>1, NatSet
  <1>4. Upto(Cardinality(S)) = SUBSET S  BY <1>0, FS_Subset
  <1>5. Cardinality(S) \in Good  BY <1>0, <1>3
  <1> QED  BY <1>4, <1>5

(* ... and does not depend on the set the subsets are taken of. *)
LEMMA SumsAgree ==
    ASSUME NEW S, NEW T, NEW g, NEW h, Sums(g, SUBSET S), Sums(h, SUBSET T),
           NEW U \in SUBSET S, U \in SUBSET T, IsFiniteSet(U)
    PROVE  g[U] = h[U]
  <1> DEFINE Good == {n \in Nat : \A s \in SUBSET U : Cardinality(s) = n => g[s] = h[s]}
  <1>0. \A s \in SUBSET U : IsFiniteSet(s) /\ Cardinality(s) \in Nat
    BY FS_Subset, FS_CardinalityType
  <1>1. \A s \in SUBSET U : /\ g[s] = IF s = {} THEN 0 ELSE Word(Pick(s)) + g[s \ {Pick(s)}]
                            /\ h[s] = IF s = {} THEN 0 ELSE Word(Pick(s)) + h[s \ {Pick(s)}]
    <2>1. \A s \in SUBSET U : s \in SUBSET S /\ s \in SUBSET T  OBVIOUS
    <2> QED  BY <2>1 DEF Sums
  <1>2. 0 \in Good
    <2>1. \A s \in SUBSET U : Cardinality(s) = 0 => s = {}  BY <1>0, FS_EmptySet
    <2> QED  BY <1>1, <2>1
  <1>3. ASSUME NEW n \in Good PROVE n + 1 \in Good
    <2> SUFFICES ASSUME NEW s \in SUBSET U, Cardinality(s) = n + 1 PROVE g[s] = h[s]
      OBVIOUS
    <2>1. s # {}
      <3>1. n + 1 # 0  OBVIOUS
      <3> QED  BY <3>1, FS_EmptySet
    <2>2. s \ {Pick(s)} \in SUBSET U /\ Cardinality(s \ {Pick(s)}) = n
      BY <1>0, <2>1, Picked
    <2>3. g[s \ {Pick(s)}] = h[s \ {Pick(s)}]  BY <2>2
    <2> QED  BY <1>1, <2>1, <2>3
  <1>4. Good = Nat
    <2> HIDE DEF Good
    <2>1. Good \in SUBSET Nat  BY DEF Good
    <2> QED  BY <1>2, <1>3, <2>1, NatSet
  <1>5. Cardinality(U) \in Good  BY <1>0, <1>4
  <1> QED  BY <1>5

Sum(S) == MapThenSumSet(Word, S)

LEMMA SumStep ==
    ASSUME NEW S, IsFiniteSet(S)
    PROVE  Sum(S) = IF S = {} THEN 0 ELSE Word(Pick(S)) + Sum(S \ {Pick(S)})
  <1> DEFINE g(T) == CHOOSE f : Sums(f, SUBSET T)
  <1>1. ASSUME NEW T, IsFiniteSet(T) PROVE Sums(g(T), SUBSET T) /\ Sum(T) = g(T)[T]
    BY <1>1, SumsExist, SumIs DEF Sum
  <1> HIDE DEF g
  <1>2. g(S)[S] = IF S = {} THEN 0 ELSE Word(Pick(S)) + g(S)[S \ {Pick(S)}]
    BY <1>1 DEF Sums
  <1>3. IsFiniteSet(S \ {Pick(S)})  BY FS_Subset
  <1>4. g(S)[S \ {Pick(S)}] = g(S \ {Pick(S)})[S \ {Pick(S)}]
    <2> DEFINE R == S \ {Pick(S)}
    <2>1. R \in SUBSET S /\ R \in SUBSET R  OBVIOUS
    <2>2. Sums(g(S), SUBSET S) /\ Sums(g(R), SUBSET R)  BY <1>1, <1>3
    <2>3. IsFiniteSet(R)  BY <1>3
    <2> HIDE DEF R
    <2>4. g(S)[R] = g(R)[R]  BY <2>1, <2>2, <2>3, SumsAgree
    <2> QED  BY <2>4 DEF R
  <1> QED  BY <1>1, <1>2, <1>3, <1>4

LEMMA SumAny ==
    ASSUME NEW S, IsFiniteSet(S), \A x \in S : Word(x) \in Nat
    PROVE  Sum(S) \in Nat /\ \A x \in S : Sum(S) = Word(x) + Sum(S \ {x})
  <1> DEFINE Claim(s) == Sum(s) \in Nat /\ \A x \in s : Sum(s) = Word(x) + Sum(s \ {x})
             Good == {n \in Nat : \A s \in SUBSET S : Cardinality(s) <= n => Claim(s)}
  <1>0. \A s \in SUBSET S : IsFiniteSet(s) /\ Cardinality(s) \in Nat
    BY FS_Subset, FS_CardinalityType
  <1>1. 0 \in Good
    <2>1. \A s \in SUBSET S : Cardinality(s) <= 0 => s = {}  BY <1>0, FS_EmptySet
    <2>2. Claim({})
      <3>1. IsFiniteSet({})  BY FS_EmptySet
      <3>2. Sum({}) = 0  BY <3>1, SumStep
      <3> QED  BY <3>2
    <2> HIDE DEF Claim
    <2> QED  BY <2>1, <2>2
  <1>2. ASSUME NEW n \in Good PROVE n + 1 \in Good
    <2> SUFFICES ASSUME NEW s \in SUBSET S, Cardinality(s) = n + 1 PROVE Claim(s)
      BY <1>0
    <2> DEFINE c == Pick(s)
    <2>1. s # {}
      <3>1. n + 1 # 0  OBVIOUS
      <3> QED  BY <3>1, FS_EmptySet
    <2>2. c \in s /\ s \ {c} \in SUBSET S /\ Cardinality(s \ {c}) = n
      BY <1>0, <2>1, Picked
    <2>3. Sum(s) = Word(c) + Sum(s \ {c})  BY <1>0, <2>1, SumStep
    <2> HIDE DEF c
    <2>4. Claim(s \ {c})  BY <2>2
    <2>5. Word(c) \in Nat /\ Sum(s) \in Nat  BY <2>2, <2>3, <2>4
    <2>6. ASSUME NEW x \in s, x # c PROVE Sum(s) = Word(x) + Sum(s \ {x})
      <3>1. Sum(s \ {c}) = Word(x) + Sum((s \ {c}) \ {x})  BY <2>4, <2>6
      <3>2. s \ {x} \in SUBSET S /\ Cardinality(s \ {x}) = n
        <4>1. IsFiniteSet(s)  BY <1>0
        <4>2. Cardinality(s \ {x}) = Cardinality(s) - 1  BY <4>1, FS_RemoveElement
        <4> QED  BY <4>2
      <3>3. Claim(s \ {x})  BY <3>2
      <3>4. Sum(s \ {x}) = Word(c) + Sum((s \ {x}) \ {c})  BY <2>2, <2>6, <3>3
      <3>5. (s \ {x}) \ {c} = (s \ {c}) \ {x}  OBVIOUS
      <3>6. Cardinality((s \ {c}) \ {x}) = n - 1
        <4>1. IsFiniteSet(s \ {c}) /\ x \in s \ {c}  BY <1>0, <2>6
        <4>2. Cardinality((s \ {c}) \ {x}) = Cardinality(s \ {c}) - 1  BY <4>1, FS_RemoveElement
        <4> QED  BY <2>2, <4>2
      <3>7. Sum(s \ {c}) \in Nat /\ Word(x) \in Nat /\ Sum(s \ {x}) \in Nat  BY <2>4, <3>3
      <3>8. (s \ {x}) \ {c} \in SUBSET S  OBVIOUS
      <3>9. Sum((s \ {c}) \ {x}) \in Nat  BY <2>2, <3>5, <3>6, <3>8
      <3> QED  BY <2>3, <2>5, <3>1, <3>4, <3>5, <3>7, <3>9
    <2> QED  BY <2>3, <2>5, <2>6
  <1>3. Good = Nat
    <2> HIDE DEF Good
    <2>1. Good \in SUBSET Nat  BY DEF Good
    <2> QED  BY <1>1, <1>2, <2>1, NatSet
  <1>4. Cardinality(S) \in Good  BY <1>0, <1>3
  <1> QED  BY <1>4

-------------------------------------------------------------------------------
(* Division and remainder by a number that is not a constant. *)
LEMMA DivIs ==
    ASSUME NEW m \in Nat \ {0}, NEW q \in Int, NEW r \in Nat, r < m
    PROVE  (q * m + r) % m = r /\ (q * m + r) \div m = q
  <1> DEFINE a == q * m + r
  <1>1. a \in Int /\ a \div m \in Int /\ a % m \in 0 .. m - 1 /\ a = (a \div m) * m + (a % m)
    OBVIOUS
  <1> DEFINE p == a \div m
             s == a % m
  <1>2. (q - p) * m = s - r
    <2>1. (q - p) * m = q * m - p * m  BY <1>1
    <2> HIDE DEF p, s
    <2>2. q * m \in Int /\ p * m \in Int  BY <1>1 DEF p
    <2>3. q * m + r = p * m + s  BY <1>1 DEF p, s
    <2> QED  BY <2>1, <2>2, <2>3, <1>1 DEF s
  <1> HIDE DEF p, s
  <1>3. p \in Int /\ s \in 0 .. m - 1  BY <1>1 DEF p, s
  <1>4. q - p >= 1 => (q - p) * m >= m  BY <1>3
  <1>5. q - p <= -1 => (q - p) * m <= -m  BY <1>3
  <1>6. q = p  BY <1>2, <1>3, <1>4, <1>5
  <1>7. s = r  BY <1>2, <1>3, <1>6
  <1> QED  BY <1>6, <1>7 DEF p, s

LEMMA Division ==
    ASSUME NEW m \in Nat \ {0}, NEW b \in Nat
    PROVE  /\ b \div m \in Nat /\ b % m \in Nat /\ b % m < m
           /\ b = (b \div m) * m + (b % m)
  OBVIOUS

LEMMA ModSum ==
    ASSUME NEW m \in Nat \ {0}, NEW a \in Nat, NEW b \in Nat
    PROVE  (a + (b % m)) % m = (a + b) % m
  <1> DEFINE q == b \div m
             c == b % m
             p == (a + c) \div m
             r == (a + c) % m
  <1>1. q \in Nat /\ c \in Nat /\ b = q * m + c  BY Division
  <1> HIDE DEF q, c
  <1>2. p \in Nat /\ r \in Nat /\ r < m /\ a + c = p * m + r  BY <1>1, Division
  <1> HIDE DEF p, r
  <1>3. a + b = (p + q) * m + r
    <2>1. (p + q) * m = p * m + q * m  BY <1>1, <1>2
    <2>2. p * m \in Int /\ q * m \in Int  BY <1>1, <1>2
    <2> QED  BY <2>1, <2>2, <1>1, <1>2
  <1>4. ((p + q) * m + r) % m = r
    <2> DEFINE z == p + q
    <2>1. z \in Int  BY <1>1, <1>2
    <2> HIDE DEF z
    <2>2. (z * m + r) % m = r  BY <2>1, <1>2, DivIs
    <2> QED  BY <2>2 DEF z
  <1>5. (a + b) % m = r  BY <1>3, <1>4
  <1> QED  BY <1>5 DEF r, c

LEMMA TimesMonotone ==
    ASSUME NEW a \in Nat, NEW b \in Nat, NEW m \in Nat \ {0}
    PROVE  a <= b <=> a * m <= b * m
  <1>1. a <= b => a * m <= b * m  OBVIOUS
  <1>2. a >= b + 1 => a * m >= b * m + m
    <2>1. (b + 1) * m = b * m + m  OBVIOUS
    <2>2. a >= b + 1 => a * m >= (b + 1) * m  OBVIOUS
    <2> QED  BY <2>1, <2>2
  <1>3. a * m \in Nat /\ b * m \in Nat  OBVIOUS
  <1> QED  BY <1>1, <1>2, <1>3

-------------------------------------------------------------------------------
(***************************************************************************)
(* The loop of calculate_and_store_hash, as a function of the words left.   *)
(***************************************************************************)
Count == BLOCK_SIZE \div WORD
At(ptr, left) == ptr + (Count - left) * WORD
Loop(h, n, ptr, endptr) ==
    h = [left \in 0 .. n |->
            IF left = 0 \/ TooShort(At(ptr, left), endptr)
            THEN 0
            ELSE (Word(At(ptr, left) \div WORD) + h[left - 1]) % ULongMod]

LEMMA LoopExists ==
    ASSUME NEW n \in Nat, NEW ptr, NEW endptr
    PROVE  \E h : Loop(h, n, ptr, endptr)
  <1> DEFINE Good == {k \in Nat : \E h : Loop(h, k, ptr, endptr)}
  <1>1. 0 \in Good
    <2>1. Loop([left \in 0 .. 0 |-> 0], 0, ptr, endptr)  BY DEF Loop
    <2> QED  BY <2>1
  <1>2. ASSUME NEW k \in Good PROVE k + 1 \in Good
    <2> PICK h : Loop(h, k, ptr, endptr)  OBVIOUS
    <2> DEFINE Body(f, left) ==
                  IF left = 0 \/ TooShort(At(ptr, left), endptr)
                  THEN 0
                  ELSE (Word(At(ptr, left) \div WORD) + f[left - 1]) % ULongMod
               g == [left \in 0 .. k + 1 |-> Body(h, left)]
    <2>1. \A left \in 0 .. k : h[left] = Body(h, left)  BY DEF Loop
    <2>2. \A left \in 0 .. k : g[left] = h[left]  BY <2>1
    <2>3. \A left \in 0 .. k + 1 : Body(h, left) = Body(g, left)
      <3> SUFFICES ASSUME NEW left \in 0 .. k + 1, left # 0 PROVE h[left - 1] = g[left - 1]
        OBVIOUS
      <3>1. left - 1 \in 0 .. k  OBVIOUS
      <3> QED  BY <2>2, <3>1
    <2>4. g = [left \in 0 .. k + 1 |-> Body(g, left)]
      <3> HIDE DEF Body
      <3> QED  BY <2>3
    <2>5. Loop(g, k + 1, ptr, endptr)
      <3> HIDE DEF g
      <3> QED  BY <2>4 DEF Loop
    <2> HIDE DEF g
    <2> QED  BY <2>5
  <1>3. Good = Nat
    <2> HIDE DEF Good
    <2>1. Good \in SUBSET Nat  BY DEF Good
    <2> QED  BY <1>1, <1>2, <2>1, NatSet
  <1> QED  BY <1>3

(* The words of block i that the last n rounds of the loop may add. *)
Rest(i, n) == {w \in 0 .. size \div WORD - 1 : i * Count + Count - n <= w /\ w < i * Count + Count}

LEMMA RestSum ==
    ASSUME TypeOK, NEW i \in Nat, NEW n \in Nat
    PROVE  /\ IsFiniteSet(Rest(i, n)) /\ Sum(Rest(i, n)) \in Nat
           /\ \A w \in Rest(i, n) : /\ Word(w) \in Nat
                                   /\ Sum(Rest(i, n)) = Word(w) + Sum(Rest(i, n) \ {w})
  <1>1. size \in Sizes /\ size \in Nat  BY SizesAssumption DEF TypeOK
  <1>2. size \div WORD - 1 \in Int  BY <1>1, WordsAssumption
  <1>3. IsFiniteSet(0 .. size \div WORD - 1)  BY <1>2, FS_Interval
  <1>4. Rest(i, n) \subseteq 0 .. size \div WORD - 1  BY DEF Rest
  <1>5. IsFiniteSet(Rest(i, n))  BY <1>3, <1>4, FS_Subset
  <1>6. \A w \in Rest(i, n) : Word(w) \in Nat  BY <1>1, <1>4, WordsAssumption
  <1> QED  BY <1>5, <1>6, SumAny

(***************************************************************************)
(* One round: the words from k on, and the test of main.c:20.               *)
(***************************************************************************)
LEMMA Round ==
    ASSUME TypeOK, NEW i \in Nat, NEW n \in Nat, n < Count,
           At(i * BLOCK_SIZE, n + 1) <= size
    PROVE  LET at == At(i * BLOCK_SIZE, n + 1)
               k  == i * Count + Count - (n + 1)
           IN  /\ at \div WORD = k
               /\ TooShort(at, size) => Rest(i, n + 1) = {}
               /\ ~TooShort(at, size) => /\ At(i * BLOCK_SIZE, n) <= size
                                         /\ k \in Rest(i, n + 1)
                                         /\ Rest(i, n) = Rest(i, n + 1) \ {k}
  <1> DEFINE at == At(i * BLOCK_SIZE, n + 1)
             k  == i * Count + Count - (n + 1)
             N  == size \div WORD
  <1>0. /\ size \in Nat /\ size < ULongMod /\ WORD \in Nat \ {0} /\ BLOCK_SIZE \in Nat
        /\ ULongMod \in Nat
    BY SizesAssumption, WordsAssumption DEF TypeOK
  <1>1. Count \in Nat /\ BLOCK_SIZE = Count * WORD
    <2>1. BLOCK_SIZE % WORD = 0  BY WordsAssumption
    <2>2. BLOCK_SIZE \div WORD \in Nat /\ BLOCK_SIZE = (BLOCK_SIZE \div WORD) * WORD + (BLOCK_SIZE % WORD)
      BY <1>0, Division
    <2> QED  BY <1>0, <2>1, <2>2 DEF Count
  <1>2. k \in Nat
    <2>1. i * Count \in Nat  BY <1>1
    <2> QED  BY <1>1, <2>1
  <1>3. at = k * WORD /\ At(i * BLOCK_SIZE, n) = k * WORD + WORD
    <2>1. i * BLOCK_SIZE = (i * Count) * WORD  BY <1>0, <1>1
    <2>2. k * WORD = (i * Count) * WORD + (Count - (n + 1)) * WORD
      <3> DEFINE a == i * Count
      <3>1. a \in Nat  BY <1>1
      <3> HIDE DEF a
      <3>2. (a + Count - (n + 1)) * WORD = a * WORD + (Count - (n + 1)) * WORD  BY <1>0, <1>1, <3>1
      <3> QED  BY <3>2 DEF a
    <2>3. (Count - n) * WORD = (Count - (n + 1)) * WORD + WORD  BY <1>0, <1>1
    <2> HIDE DEF k
    <2>4. /\ i * BLOCK_SIZE \in Int /\ (i * Count) * WORD \in Int
          /\ (Count - (n + 1)) * WORD \in Int /\ k * WORD \in Int
      BY <1>0, <1>1, <1>2
    <2> QED  BY <1>0, <2>1, <2>2, <2>3, <2>4 DEF At
  <1>4. N \in Nat /\ N * WORD <= size /\ size < N * WORD + WORD
    <2>1. size % WORD < WORD /\ size % WORD \in Nat /\ N \in Nat /\ size = N * WORD + (size % WORD)
      BY <1>0, Division
    <2> HIDE DEF N
    <2>2. N * WORD \in Nat  BY <1>0, <2>1
    <2> QED  BY <1>0, <2>1, <2>2
  <1> HIDE DEF k, at, N
  <1>5. at \div WORD = k
    <2>1. (k * WORD + 0) \div WORD = k  BY <1>0, <1>2, DivIs
    <2> QED  BY <1>0, <1>2, <1>3, <2>1
  <1>6. TooShort(at, size) <=> size - at < WORD
    <2>1. at <= size /\ at \in Nat  BY <1>0, <1>2, <1>3 DEF at
    <2>2. size - at \in Nat /\ size - at < ULongMod  BY <1>0, <2>1
    <2>3. (size - at) % ULongMod = size - at
      <3> DEFINE d == size - at
      <3>1. d \in Nat /\ d < ULongMod  BY <2>2
      <3> HIDE DEF d
      <3>2. (0 * ULongMod + d) % ULongMod = d  BY <1>0, <3>1, DivIs
      <3>3. 0 * ULongMod + d = d  BY <1>0, <3>1
      <3> QED  BY <3>2, <3>3 DEF d
    <2> QED  BY <2>3 DEF TooShort
  <1>7. Rest(i, n + 1) = {w \in 0 .. N - 1 : k <= w /\ w < i * Count + Count}
    BY DEF Rest, k, N
  <1>8. Rest(i, n) = {w \in 0 .. N - 1 : k < w /\ w < i * Count + Count}
    <2>1. i * Count + Count - n = k + 1
      <3>1. i * Count \in Nat  BY <1>1
      <3> QED  BY <1>1, <3>1 DEF k
    <2>2. Rest(i, n) = {w \in 0 .. N - 1 : k + 1 <= w /\ w < i * Count + Count}
      BY <2>1 DEF Rest, N
    <2> QED  BY <1>2, <1>4, <2>2
  <1>9. CASE size - at < WORD
    <2>1. N <= k
      <3>1. N >= k + 1 => N * WORD >= (k + 1) * WORD  BY <1>0, <1>2, <1>4
      <3>2. (k + 1) * WORD = k * WORD + WORD  BY <1>0, <1>2
      <3>3. N * WORD \in Nat /\ k * WORD \in Nat  BY <1>0, <1>2, <1>4
      <3> QED  BY <1>0, <1>2, <1>3, <1>4, <1>9, <3>1, <3>2, <3>3
    <2>2. Rest(i, n + 1) = {}  BY <1>2, <1>4, <1>7, <2>1
    <2> QED  BY <1>5, <1>6, <1>9, <2>2 DEF at, k
  <1>10. CASE ~(size - at < WORD)
    <2>1. At(i * BLOCK_SIZE, n) <= size
      <3>1. k * WORD \in Nat  BY <1>0, <1>2
      <3> QED  BY <1>0, <1>3, <1>10, <3>1
    <2>2. k <= N - 1
      <3>1. k >= N => k * WORD >= N * WORD  BY <1>0, <1>2, <1>4
      <3>2. N * WORD \in Nat /\ k * WORD \in Nat  BY <1>0, <1>2, <1>4
      <3> QED  BY <1>0, <1>2, <1>3, <1>4, <1>10, <3>1, <3>2
    <2>3. k < i * Count + Count
      <3>1. i * Count \in Nat  BY <1>1
      <3> QED  BY <1>1, <3>1 DEF k
    <2>4. k \in Rest(i, n + 1)  BY <1>2, <1>4, <1>7, <2>2, <2>3
    <2>5. Rest(i, n) = Rest(i, n + 1) \ {k}  BY <1>2, <1>4, <1>7, <1>8
    <2> QED  BY <1>5, <1>6, <1>10, <2>1, <2>4, <2>5 DEF at, k
  <1> QED  BY <1>9, <1>10

(***************************************************************************)
(* The loop adds up the whole words of the file that are left in the block. *)
(***************************************************************************)
LEMMA LoopSums ==
    ASSUME TypeOK, NEW i \in Nat, NEW h, Loop(h, Count, i * BLOCK_SIZE, size)
    PROVE  \A n \in 0 .. Count :
               At(i * BLOCK_SIZE, n) <= size => h[n] = Sum(Rest(i, n)) % ULongMod
  <1> DEFINE Good == {n \in Nat : n <= Count =>
               (At(i * BLOCK_SIZE, n) <= size => h[n] = Sum(Rest(i, n)) % ULongMod)}
  <1>0. Count \in Nat /\ ULongMod \in Nat \ {0}
    <2>1. size \in Nat /\ size < ULongMod /\ ULongMod \in Nat  BY SizesAssumption, WordsAssumption DEF TypeOK
    <2>2. BLOCK_SIZE \div WORD \in Nat  BY SizesAssumption, WordsAssumption, Division
    <2> QED  BY <2>1, <2>2 DEF Count
  <1>1. \A left \in 0 .. Count : h[left] =
            IF left = 0 \/ TooShort(At(i * BLOCK_SIZE, left), size)
            THEN 0
            ELSE (Word(At(i * BLOCK_SIZE, left) \div WORD) + h[left - 1]) % ULongMod
    BY DEF Loop
  <1>z. Sum({}) % ULongMod = 0
    <2>1. IsFiniteSet({})  BY FS_EmptySet
    <2>2. Sum({}) = 0  BY <2>1, SumStep
    <2>3. (0 * ULongMod + 0) % ULongMod = 0  BY <1>0, DivIs
    <2>4. 0 * ULongMod + 0 = 0  BY <1>0
    <2> QED  BY <2>2, <2>3, <2>4
  <1>2. 0 \in Good
    <2>1. Rest(i, 0) = {}
      <3>1. i * Count \in Nat  BY <1>0
      <3> QED  BY <1>0, <3>1 DEF Rest
    <2>2. h[0] = 0  BY <1>0, <1>1
    <2> QED  BY <1>z, <2>1, <2>2
  <1>3. ASSUME NEW n \in Good PROVE n + 1 \in Good
    <2> DEFINE at == At(i * BLOCK_SIZE, n + 1)
               k  == i * Count + Count - (n + 1)
    <2> SUFFICES ASSUME n + 1 <= Count, at <= size
                 PROVE  h[n + 1] = Sum(Rest(i, n + 1)) % ULongMod
      OBVIOUS
    <2>0. n \in Nat /\ n < Count /\ n + 1 \in 0 .. Count /\ n + 1 # 0 /\ (n + 1) - 1 = n  BY <1>0
    <2>1. /\ at \div WORD = k
          /\ TooShort(at, size) => Rest(i, n + 1) = {}
          /\ ~TooShort(at, size) => /\ At(i * BLOCK_SIZE, n) <= size
                                    /\ k \in Rest(i, n + 1)
                                    /\ Rest(i, n) = Rest(i, n + 1) \ {k}
      BY <2>0, Round
    <2>2. h[n + 1] = IF TooShort(at, size) THEN 0 ELSE (Word(at \div WORD) + h[n]) % ULongMod
      BY <1>1, <2>0
    <2>3. n <= Count  BY <1>0, <2>0
    <2>4. At(i * BLOCK_SIZE, n) <= size => h[n] = Sum(Rest(i, n)) % ULongMod  BY <2>3
    <2> HIDE DEF at, k, Good
    <2>5. CASE TooShort(at, size)  BY <1>z, <2>1, <2>2, <2>5
    <2>6. CASE ~TooShort(at, size)
      <3>1. h[n + 1] = (Word(k) + (Sum(Rest(i, n)) % ULongMod)) % ULongMod
        BY <2>1, <2>2, <2>4, <2>6
      <3>2. n + 1 \in Nat  BY <2>0
      <3>3. /\ Word(k) \in Nat /\ Sum(Rest(i, n)) \in Nat
            /\ Sum(Rest(i, n + 1)) = Word(k) + Sum(Rest(i, n))
        <4>1. \A w \in Rest(i, n + 1) : /\ Word(w) \in Nat
                                        /\ Sum(Rest(i, n + 1)) = Word(w) + Sum(Rest(i, n + 1) \ {w})
          BY <3>2, RestSum
        <4>2. Sum(Rest(i, n)) \in Nat  BY <2>0, RestSum
        <4> QED  BY <2>1, <2>6, <4>1, <4>2
      <3> QED  BY <1>0, <3>1, <3>3, ModSum
    <2> QED  BY <2>5, <2>6
  <1>4. Good = Nat
    <2> HIDE DEF Good
    <2>1. Good \in SUBSET Nat  BY DEF Good
    <2> QED  BY <1>2, <1>3, <2>1, NatSet
  <1>5. \A n \in 0 .. Count : n \in Good /\ n <= Count  BY <1>0, <1>4
  <1> QED  BY <1>5

(***************************************************************************)
(* So the hash of a block is the sum of its whole words, in any order.      *)
(***************************************************************************)
LEMMA HashIsSum ==
    ASSUME TypeOK, NEW i \in Slots
    PROVE  H(i) = MapThenSumSet(Word, WordsOf(i)) % ULongMod
  <1>0. /\ size \in Nat /\ WORD \in Nat \ {0} /\ BLOCK_SIZE \in Nat
        /\ BLOCK_SIZE % WORD = 0 /\ size \div WORD \in Nat
    BY SizesAssumption, WordsAssumption, Division DEF TypeOK
  <1>1. Count \in Nat /\ BLOCK_SIZE = Count * WORD
    <2>1. BLOCK_SIZE \div WORD \in Nat /\ BLOCK_SIZE = (BLOCK_SIZE \div WORD) * WORD + (BLOCK_SIZE % WORD)
      BY <1>0, Division
    <2> QED  BY <1>0, <2>1 DEF Count
  <1>2. i \in Nat /\ i * BLOCK_SIZE < size
    <2>1. i \in Nat  BY DEF Slots
    <2> QED  BY <1>0, <2>1, SlotsAre
  <1> DEFINE h == CHOOSE f : Loop(f, Count, i * BLOCK_SIZE, size)
  <1>3. H(i) = h[Count]  BY DEF H, calculate_and_store_hash, Loop, At, Count
  <1>4. Loop(h, Count, i * BLOCK_SIZE, size)  BY <1>1, LoopExists
  <1> HIDE DEF h
  <1>5. At(i * BLOCK_SIZE, Count) = i * BLOCK_SIZE
    <2>1. (Count - Count) * WORD = 0  BY <1>0, <1>1
    <2>2. i * BLOCK_SIZE \in Nat  BY <1>0, <1>2
    <2> QED  BY <2>1, <2>2 DEF At
  <1>6. h[Count] = Sum(Rest(i, Count)) % ULongMod
    <2>1. At(i * BLOCK_SIZE, Count) <= size  BY <1>0, <1>2, <1>5
    <2> QED  BY <1>1, <1>2, <1>4, <2>1, LoopSums
  <1>7. Rest(i, Count) = WordsOf(i)
    <2>1. ASSUME NEW w \in Nat
          PROVE  /\ i * Count <= w <=> w * WORD >= i * BLOCK_SIZE
                 /\ w < i * Count + Count <=> (w + 1) * WORD <= (i + 1) * BLOCK_SIZE
      <3> DEFINE a == i * Count
                 b == (i + 1) * Count
      <3>1. a \in Nat /\ b \in Nat /\ b = i * Count + Count  BY <1>1, <1>2
      <3>2. i * BLOCK_SIZE = a * WORD /\ (i + 1) * BLOCK_SIZE = b * WORD  BY <1>0, <1>1, <1>2
      <3> HIDE DEF a, b
      <3>3. a <= w <=> a * WORD <= w * WORD  BY <1>0, <3>1, TimesMonotone
      <3>4. w + 1 <= b <=> (w + 1) * WORD <= b * WORD  BY <1>0, <3>1, TimesMonotone
      <3>5. w < b <=> w + 1 <= b  BY <3>1
      <3>6. w * WORD \in Nat /\ a * WORD \in Nat  BY <1>0, <3>1
      <3> QED  BY <3>1, <3>2, <3>3, <3>4, <3>5, <3>6 DEF a
    <2>2. i * Count + Count - Count = i * Count
      <3>1. i * Count \in Nat  BY <1>1, <1>2
      <3> QED  BY <1>1, <3>1
    <2>3. Rest(i, Count) = {w \in 0 .. size \div WORD - 1 : i * Count <= w /\ w < i * Count + Count}
      BY <2>2 DEF Rest
    <2>4. \A w \in 0 .. size \div WORD - 1 : w \in Nat  OBVIOUS
    <2> QED  BY <2>1, <2>3, <2>4 DEF WordsOf
  <1> QED  BY <1>3, <1>6, <1>7 DEF Sum

(***************************************************************************)
(* PrintedIsBlockHashes: when main prints, it prints one hash for every     *)
(* block of the file, in the order of the blocks, and each is the sum of    *)
(* the whole words of that block (main.c:15-26, 90-95), whichever thread    *)
(* hashed it and when.                                                      *)
(***************************************************************************)
THEOREM PrintedRight == Spec => []PrintedIsBlockHashes
  <1>1. IInv => PrintedIsBlockHashes
    <2> SUFFICES ASSUME IInv, main = "done"
                 PROVE  printed = [i \in Slots |-> MapThenSumSet(Word, WordsOf(i)) % ULongMod]
      BY DEF PrintedIsBlockHashes
    <2>1. printed = [i \in Slots |-> H(i)]  BY DEF IInv, Ends
    <2>2. \A i \in Slots : H(i) = MapThenSumSet(Word, WordsOf(i)) % ULongMod
      BY HashIsSum DEF IInv
    <2> QED  BY <2>1, <2>2
  <1> QED  BY <1>1, Invariance, PTL
===============================================================================
