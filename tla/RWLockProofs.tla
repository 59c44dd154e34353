----------------------------- MODULE RWLockProofs -----------------------------
(***************************************************************************)
(* Proofs about RWLock for any finite set of threads: its type invariant    *)
(* (so the 64-bit word never wraps), mutual exclusion, the decoding of the  *)
(* word, and that it implements AbstractRWLock; and about the program that  *)
(* tests it, RWLockTest.                                                    *)
(*                                                                         *)
(* Mutual exclusion is not inductive: that a thread sees the right sign     *)
(* tells it nothing unless the word counts what the others have taken.      *)
(* IInv adds that fact (ValueDecodes); the proof is then the arithmetic     *)
(* of the word, and the lemmas below are about how the counts change when   *)
(* one thread moves.                                                        *)
(***************************************************************************)
EXTENDS RWLockTest, FiniteSetTheorems, TLAPS

(* The threads that the assignment p of locations puts in L. *)
At(p, L) == {u \in Threads : p[u] \in L}

(***************************************************************************)
(* The sets counted are finite, and no larger than the set of threads.      *)
(***************************************************************************)
LEMMA AtFinite ==
    ASSUME NEW p, NEW L
    PROVE  /\ IsFiniteSet(At(p, L))
           /\ Cardinality(At(p, L)) \in Nat
           /\ Cardinality(Threads) \in Nat
           /\ Cardinality(At(p, L)) <= Cardinality(Threads)
  <1>1. At(p, L) \subseteq Threads  BY DEF At
  <1>2. IsFiniteSet(At(p, L)) /\ Cardinality(At(p, L)) <= Cardinality(Threads)
    BY <1>1, FS_Subset, ThreadsAssumption
  <1> QED  BY <1>2, FS_CardinalityType, ThreadsAssumption

(***************************************************************************)
(* A thread that moves into L raises the count by one ...                   *)
(***************************************************************************)
LEMMA MoveIn ==
    ASSUME NEW p \in [Threads -> Locations], NEW t \in Threads,
           NEW l \in Locations, NEW L, p[t] \notin L, l \in L
    PROVE  Cardinality(At([p EXCEPT ![t] = l], L)) = Cardinality(At(p, L)) + 1
  <1>1. At([p EXCEPT ![t] = l], L) = At(p, L) \cup {t}  BY DEF At
  <1>2. t \notin At(p, L)  BY DEF At
  <1> QED  BY <1>1, <1>2, AtFinite, FS_AddElement

(***************************************************************************)
(* ... one that leaves L lowers it ...                                      *)
(***************************************************************************)
LEMMA MoveOut ==
    ASSUME NEW p \in [Threads -> Locations], NEW t \in Threads,
           NEW l \in Locations, NEW L, p[t] \in L, l \notin L
    PROVE  Cardinality(At([p EXCEPT ![t] = l], L)) = Cardinality(At(p, L)) - 1
  <1>1. At([p EXCEPT ![t] = l], L) = At(p, L) \ {t}  BY DEF At
  <1>2. t \in At(p, L)  BY DEF At
  <1> QED  BY <1>1, <1>2, AtFinite, FS_RemoveElement

(***************************************************************************)
(* ... and one that stays on its side of L changes nothing.                 *)
(***************************************************************************)
LEMMA MoveWithin ==
    ASSUME NEW p \in [Threads -> Locations], NEW t \in Threads,
           NEW l \in Locations, NEW L, (p[t] \in L) <=> (l \in L)
    PROVE  At([p EXCEPT ![t] = l], L) = At(p, L)
  BY DEF At

RLocs == {"read", "rback"}
WLocs == {"write", "wback"}

(***************************************************************************)
(* The two counts of ValueDecodes, in the notation of the lemmas.           *)
(***************************************************************************)
LEMMA Counts ==
    /\ TakenReads = At(pc, RLocs) /\ TakenWrites = At(pc, WLocs)
    /\ TakenReads' = At(pc', RLocs) /\ TakenWrites' = At(pc', WLocs)
    /\ Cardinality(TakenReads) \in Nat /\ Cardinality(TakenWrites) \in Nat
    /\ IsFiniteSet(TakenReads) /\ IsFiniteSet(TakenWrites)
  <1>1. /\ TakenReads = At(pc, RLocs) /\ TakenWrites = At(pc, WLocs)
        /\ TakenReads' = At(pc', RLocs) /\ TakenWrites' = At(pc', WLocs)
    BY DEF TakenReads, TakenWrites, At, RLocs, WLocs
  <1> QED  BY <1>1, AtFinite

(***************************************************************************)
(* What a thread learns from the sign it sees.  A write_lock that sees the  *)
(* word free is alone; a read_lock that sees room for itself shares the     *)
(* lock with no writer, not even one that is backing off.                   *)
(***************************************************************************)
LEMMA SignTells ==
    ASSUME IInv
    PROVE  /\ value = Unlocked => TakenReads = {} /\ TakenWrites = {}
           /\ value >= 1 => TakenWrites = {}
  <1> DEFINE r == Cardinality(TakenReads)
             w == Cardinality(TakenWrites)
  <1>1. r \in Nat /\ w \in Nat /\ Unlocked \in Nat /\ Unlocked > 0
    <2>1. Cardinality(Threads) \in Nat  BY AtFinite
    <2> QED  BY <2>1, Counts, ThreadsAssumption
  <1>2. value = Unlocked - r - Unlocked * w  BY DEF IInv, ValueDecodes
  <1> HIDE DEF r, w
  <1>3. w # 0 => Unlocked * w >= Unlocked  BY <1>1
  <1>4. value = Unlocked => r = 0 /\ w = 0
    <2>1. Unlocked * w \in Nat  BY <1>1
    <2> QED  BY <1>1, <1>2, <1>3, <2>1
  <1>5. value >= 1 => w = 0
    <2>1. Unlocked * w \in Nat  BY <1>1
    <2> QED  BY <1>1, <1>2, <1>3, <2>1
  <1>6. (r = 0 => TakenReads = {}) /\ (w = 0 => TakenWrites = {})
    BY Counts, FS_EmptySet DEF r, w
  <1> QED  BY <1>4, <1>5, <1>6

(***************************************************************************)
(* The invariant holds of a lock just initialised ...                       *)
(***************************************************************************)
LEMMA InitIInv == Init => IInv
  <1> SUFFICES ASSUME Init PROVE IInv  OBVIOUS
  <1>1. TakenReads = {} /\ TakenWrites = {} /\ Writers = {}
    BY DEF Init, TakenReads, TakenWrites, Writers
  <1>2. Cardinality(TakenReads) = 0 /\ Cardinality(TakenWrites) = 0
    BY <1>1, FS_EmptySet
  <1>3. ValueDecodes  BY <1>2, ThreadsAssumption DEF ValueDecodes, Init
  <1> QED  BY <1>1, <1>3, ThreadsAssumption DEF IInv, Init, MutualExclusion, Locations

(***************************************************************************)
(* ... is kept by every atomic_add of every thread ...                      *)
(***************************************************************************)
LEMMA StepIInv ==
    ASSUME IInv, NEW t \in Threads,
           CallWriteLock(t) \/ CallReadLock(t) \/ LockStep(t)
    PROVE  IInv'
  <1> DEFINE r == Cardinality(TakenReads)
             w == Cardinality(TakenWrites)
  <1> USE DEF RLocs, WLocs
  <1>1. /\ pc \in [Threads -> Locations]
        /\ value \in Int /\ Unlocked \in Int
        /\ r \in Nat /\ w \in Nat
        /\ value = Unlocked - r - Unlocked * w
    BY Counts, ThreadsAssumption DEF IInv, ValueDecodes
  <1>2. \A l \in Locations :
          /\ pc[t] \notin RLocs /\ l \in RLocs =>
               Cardinality(At([pc EXCEPT ![t] = l], RLocs)) = r + 1
          /\ pc[t] \in RLocs /\ l \notin RLocs =>
               Cardinality(At([pc EXCEPT ![t] = l], RLocs)) = r - 1
          /\ (pc[t] \in RLocs <=> l \in RLocs) =>
               Cardinality(At([pc EXCEPT ![t] = l], RLocs)) = r
          /\ pc[t] \notin WLocs /\ l \in WLocs =>
               Cardinality(At([pc EXCEPT ![t] = l], WLocs)) = w + 1
          /\ pc[t] \in WLocs /\ l \notin WLocs =>
               Cardinality(At([pc EXCEPT ![t] = l], WLocs)) = w - 1
          /\ (pc[t] \in WLocs <=> l \in WLocs) =>
               Cardinality(At([pc EXCEPT ![t] = l], WLocs)) = w
    <2> HIDE DEF RLocs, WLocs
    <2> TAKE l \in Locations
    <2>1. r = Cardinality(At(pc, RLocs)) /\ w = Cardinality(At(pc, WLocs))  BY Counts
    <2>2. ASSUME pc[t] \notin RLocs, l \in RLocs
          PROVE  Cardinality(At([pc EXCEPT ![t] = l], RLocs)) = r + 1
      <3>1. pc \in [Threads -> Locations]  BY <1>1
      <3>2. Cardinality(At([pc EXCEPT ![t] = l], RLocs)) = Cardinality(At(pc, RLocs)) + 1
        BY <3>1, <2>2, MoveIn, Zenon
      <3> QED  BY <2>1, <3>2
    <2>3. ASSUME pc[t] \in RLocs, l \notin RLocs
          PROVE  Cardinality(At([pc EXCEPT ![t] = l], RLocs)) = r - 1
      <3>1. pc \in [Threads -> Locations]  BY <1>1
      <3>2. Cardinality(At([pc EXCEPT ![t] = l], RLocs)) = Cardinality(At(pc, RLocs)) - 1
        BY <3>1, <2>3, MoveOut, Zenon
      <3> QED  BY <2>1, <3>2
    <2>4. ASSUME pc[t] \in RLocs <=> l \in RLocs
          PROVE  Cardinality(At([pc EXCEPT ![t] = l], RLocs)) = r
      BY <1>1, <2>1, <2>4, MoveWithin
    <2>5. ASSUME pc[t] \notin WLocs, l \in WLocs
          PROVE  Cardinality(At([pc EXCEPT ![t] = l], WLocs)) = w + 1
      <3>1. pc \in [Threads -> Locations]  BY <1>1
      <3>2. Cardinality(At([pc EXCEPT ![t] = l], WLocs)) = Cardinality(At(pc, WLocs)) + 1
        BY <3>1, <2>5, MoveIn, Zenon
      <3> QED  BY <2>1, <3>2
    <2>6. ASSUME pc[t] \in WLocs, l \notin WLocs
          PROVE  Cardinality(At([pc EXCEPT ![t] = l], WLocs)) = w - 1
      <3>1. pc \in [Threads -> Locations]  BY <1>1
      <3>2. Cardinality(At([pc EXCEPT ![t] = l], WLocs)) = Cardinality(At(pc, WLocs)) - 1
        BY <3>1, <2>6, MoveOut, Zenon
      <3> QED  BY <2>1, <3>2
    <2>7. ASSUME pc[t] \in WLocs <=> l \in WLocs
          PROVE  Cardinality(At([pc EXCEPT ![t] = l], WLocs)) = w
      BY <1>1, <2>1, <2>7, MoveWithin
    <2> QED  BY <2>2, <2>3, <2>4, <2>5, <2>6, <2>7
  <1>3. /\ Cardinality(TakenReads') = Cardinality(At(pc', RLocs))
        /\ Cardinality(TakenWrites') = Cardinality(At(pc', WLocs))
    BY Counts
  <1>4. /\ Unlocked * (w + 1) = Unlocked * w + Unlocked
        /\ Unlocked * (w - 1) = Unlocked * w - Unlocked
        /\ Unlocked * w \in Int
    BY <1>1
  <1> DEFINE Moves(l, d) == /\ pc' = [pc EXCEPT ![t] = l]
                            /\ value' = value + d
  <1> HIDE DEF r, w
  <1>5. SUFFICES ASSUME NEW l \in Locations, NEW d \in Int, Moves(l, d),
                        \/ pc[t] = "idle"  /\ l \in {"wtry", "rtry"} /\ d = 0
                        \/ pc[t] = "wtry"  /\ l \in {"write", "wback"} /\ d = -Unlocked
                        \/ pc[t] = "wback" /\ l = "wtry"  /\ d = Unlocked
                        \/ pc[t] = "write" /\ l = "idle"  /\ d = Unlocked
                        \/ pc[t] = "rtry"  /\ l \in {"read", "rback"} /\ d = -1
                        \/ pc[t] = "rback" /\ l = "rtry"  /\ d = 1
                        \/ pc[t] = "read"  /\ l = "idle"  /\ d = 1,
                        l = "write" => value = Unlocked,
                        l = "read"  => value >= 1
                 PROVE  IInv'
    <2>1. CASE CallWriteLock(t)
      <3>1. Moves("wtry", 0)  BY <1>1, <2>1 DEF CallWriteLock
      <3> QED  BY <1>5, <3>1, <2>1 DEF CallWriteLock, Locations
    <2>2. CASE CallReadLock(t)
      <3>1. Moves("rtry", 0)  BY <1>1, <2>2 DEF CallReadLock
      <3> QED  BY <1>5, <3>1, <2>2 DEF CallReadLock, Locations
    <2>3. CASE WriteTry(t)
      <3>1. CASE value = Unlocked
        <4>0. Sign(value - Unlocked) = 0  BY <1>1, <3>1 DEF Sign
        <4>1. Moves("write", -Unlocked)
          <5>1. pc' = [pc EXCEPT ![t] = "write"]  BY <4>0, <2>3 DEF WriteTry
          <5>2. value' = value + (-Unlocked)  BY <1>1, <2>3 DEF WriteTry
          <5> QED  BY <5>1, <5>2
        <4> QED  BY <1>1, <1>5, <4>1, <2>3, <3>1 DEF WriteTry, Locations
      <3>2. CASE value # Unlocked
        <4>0. Sign(value - Unlocked) # 0  BY <1>1, <3>2 DEF Sign
        <4>1. Moves("wback", -Unlocked)
          <5>1. pc' = [pc EXCEPT ![t] = "wback"]  BY <4>0, <2>3 DEF WriteTry
          <5>2. value' = value + (-Unlocked)  BY <1>1, <2>3 DEF WriteTry
          <5> QED  BY <5>1, <5>2
        <4> QED  BY <1>1, <1>5, <4>1, <2>3 DEF WriteTry, Locations
      <3> QED  BY <3>1, <3>2
    <2>4. CASE WriteBackOff(t)
      <3>1. Moves("wtry", Unlocked)  BY <2>4 DEF WriteBackOff
      <3> QED  BY <1>1, <1>5, <3>1, <2>4 DEF WriteBackOff, Locations
    <2>5. CASE WriteUnlock(t)
      <3>1. Moves("idle", Unlocked)  BY <2>5 DEF WriteUnlock
      <3> QED  BY <1>1, <1>5, <3>1, <2>5 DEF WriteUnlock, Locations
    <2>6. CASE ReadTry(t)
      <3>1. CASE value >= 1
        <4>0. Sign(value - 1) # -1  BY <1>1, <3>1 DEF Sign
        <4>1. Moves("read", -1)
          <5>1. pc' = [pc EXCEPT ![t] = "read"]  BY <4>0, <2>6 DEF ReadTry
          <5>2. value' = value + (-1)  BY <1>1, <2>6 DEF ReadTry
          <5> QED  BY <5>1, <5>2
        <4> QED  BY <1>5, <4>1, <2>6, <3>1 DEF ReadTry, Locations
      <3>2. CASE ~(value >= 1)
        <4>0. Sign(value - 1) = -1  BY <1>1, <3>2 DEF Sign
        <4>1. Moves("rback", -1)
          <5>1. pc' = [pc EXCEPT ![t] = "rback"]  BY <4>0, <2>6 DEF ReadTry
          <5>2. value' = value + (-1)  BY <1>1, <2>6 DEF ReadTry
          <5> QED  BY <5>1, <5>2
        <4> QED  BY <1>5, <4>1, <2>6 DEF ReadTry, Locations
      <3> QED  BY <3>1, <3>2
    <2>7. CASE ReadBackOff(t)
      <3>1. Moves("rtry", 1)  BY <2>7 DEF ReadBackOff
      <3> QED  BY <1>5, <3>1, <2>7 DEF ReadBackOff, Locations
    <2>8. CASE ReadUnlock(t)
      <3>1. Moves("idle", 1)  BY <2>8 DEF ReadUnlock
      <3> QED  BY <1>5, <3>1, <2>8 DEF ReadUnlock, Locations
    <2> QED  BY <2>1, <2>2, <2>3, <2>4, <2>5, <2>6, <2>7, <2>8 DEF LockStep
  <1>6. value' \in Int /\ pc' \in [Threads -> Locations]  BY <1>1, <1>5
  <1>7. ValueDecodes'
    <2>1. value' = Unlocked - Cardinality(At(pc', RLocs))
                      - Unlocked * Cardinality(At(pc', WLocs))
      <3> DEFINE r2 == Cardinality(At(pc', RLocs))
                 w2 == Cardinality(At(pc', WLocs))
      <3>1. \/ r2 = r /\ w2 = w /\ d = 0
            \/ r2 = r /\ w2 = w + 1 /\ d = -Unlocked
            \/ r2 = r /\ w2 = w - 1 /\ d = Unlocked
            \/ r2 = r + 1 /\ w2 = w /\ d = -1
            \/ r2 = r - 1 /\ w2 = w /\ d = 1
        BY <1>2, <1>5
      <3> HIDE DEF r2, w2
      <3>2. value' = value + d  BY <1>5
      <3>3. value' = Unlocked - r2 - Unlocked * w2  BY <1>1, <1>4, <3>1, <3>2
      <3> QED  BY <3>3 DEF r2, w2
    <2> QED  BY <2>1, <1>3 DEF ValueDecodes
  <1>8. MutualExclusion'
    <2>1. CASE l = "write"
      <3>1. TakenReads = {} /\ TakenWrites = {}  BY <1>5, <2>1, SignTells
      <3> QED  BY <3>1, <2>1, <1>1, <1>5 DEF MutualExclusion, Readers, Writers,
                                         TakenReads, TakenWrites
    <2>2. CASE l = "read"
      <3>1. TakenWrites = {}  BY <1>5, <2>2, SignTells
      <3> QED  BY <3>1, <2>2, <1>1, <1>5 DEF MutualExclusion, Writers, TakenWrites
    <2>3. CASE l \notin {"read", "write"}
      BY <2>3, <1>1, <1>5 DEF MutualExclusion, Readers, Writers, IInv
    <2> QED  BY <2>1, <2>2, <2>3
  <1> QED  BY <1>6, <1>7, <1>8 DEF IInv

(***************************************************************************)
(* ... and so holds throughout.                                             *)
(***************************************************************************)
THEOREM Invariance == Spec => []IInv
  <1>1. Init => IInv  BY InitIInv
  <1>2. IInv /\ [Next]_vars => IInv'
    <2> SUFFICES ASSUME IInv, [Next]_vars PROVE IInv'  OBVIOUS
    <2>1. CASE Next  BY <2>1, StepIInv DEF Next
    <2>2. CASE UNCHANGED vars
      BY <2>2 DEF vars, IInv, ValueDecodes, MutualExclusion, Readers, Writers,
                  TakenReads, TakenWrites
    <2> QED  BY <2>1, <2>2
  <1> QED  BY <1>1, <1>2, PTL DEF Spec

(***************************************************************************)
(* A writer excludes every other holder, for any number of threads          *)
(* (write_lock and read_lock of rwlock.c).                                  *)
(***************************************************************************)
THEOREM Exclusion == Spec => []MutualExclusion
  BY Invariance, PTL DEF IInv

(***************************************************************************)
(* No add to the word is lost or repeated (rwlock.c:16-43).                 *)
(***************************************************************************)
THEOREM Decoding == Spec => []ValueDecodes
  BY Invariance, PTL DEF IInv

(***************************************************************************)
(* The word stays within Cardinality(Threads) * Unlocked of zero, so the    *)
(* 64-bit add of common.h never wraps with the threads main.c allows.       *)
(***************************************************************************)
THEOREM Typing == Spec => []TypeOK
  <1>1. IInv => TypeOK
    <2> SUFFICES ASSUME IInv PROVE TypeOK  OBVIOUS
    <2> DEFINE r == Cardinality(TakenReads)
               w == Cardinality(TakenWrites)
               n == Cardinality(Threads)
    <2>1. r \in Nat /\ w \in Nat /\ n \in Nat /\ Unlocked \in Nat /\ Unlocked >= 1
      BY Counts, AtFinite, ThreadsAssumption
    <2>2. r + w <= n
      <3>1. TakenReads \cap TakenWrites = {} /\ TakenReads \cup TakenWrites \subseteq Threads
        BY DEF TakenReads, TakenWrites
      <3>2. Cardinality(TakenReads \cup TakenWrites) = r + w
        <4>1. Cardinality(TakenReads \cap TakenWrites) = 0  BY <3>1, FS_EmptySet
        <4>2. Cardinality(TakenReads \cup TakenWrites)
                = r + w - Cardinality(TakenReads \cap TakenWrites)
          BY Counts, FS_Union
        <4> QED  BY <2>1, <4>1, <4>2
      <3>3. Cardinality(TakenReads \cup TakenWrites) <= n
        BY <3>1, FS_Subset, ThreadsAssumption
      <3> QED  BY <3>2, <3>3
    <2>3. value \in Int /\ value = Unlocked - r - Unlocked * w
      BY DEF IInv, ValueDecodes
    <2> HIDE DEF r, w, n
    <2>4. Unlocked * (r + w) <= n * Unlocked  BY <2>1, <2>2
    <2>5. Unlocked * (r + w) = Unlocked * r + Unlocked * w
          /\ r <= Unlocked * r /\ Unlocked * w \in Nat /\ n * Unlocked \in Nat
      BY <2>1
    <2>6. value \in Unlocked - n * Unlocked .. Unlocked
      BY <2>1, <2>3, <2>4, <2>5
    <2> QED  BY <2>6 DEF TypeOK, n, IInv
  <1> QED  BY <1>1, Invariance, PTL

(***************************************************************************)
(* rwlock.c implements the abstract read-write lock: a step that is not the *)
(* successful add of a lock function or the add of an unlock function is    *)
(* invisible to the holders.                                                *)
(***************************************************************************)
THEOREM Refinement == Spec => ImplementsAbstract
  <1>1. Init => Abs!AInit
    BY DEF Init, Abs!AInit, Readers, Writers
  <1>2. IInv /\ [Next]_vars => [Abs!ANext]_(Abs!avars)
    <2> SUFFICES ASSUME IInv, [Next]_vars PROVE [Abs!ANext]_(Abs!avars)  OBVIOUS
    <2> USE DEF Abs!ANext, Abs!avars
    <2>0. pc \in [Threads -> Locations] /\ value \in Int /\ Unlocked \in Int
      BY ThreadsAssumption DEF IInv
    <2>1. CASE UNCHANGED vars
      BY <2>1 DEF vars, Readers, Writers
    <2>2. ASSUME NEW t \in Threads,
                 CallWriteLock(t) \/ CallReadLock(t) \/ LockStep(t)
          PROVE  [Abs!ANext]_(Abs!avars)
      <3>1. CASE CallWriteLock(t) \/ CallReadLock(t) \/ WriteBackOff(t) \/ ReadBackOff(t)
        BY <2>0, <3>1 DEF CallWriteLock, CallReadLock, WriteBackOff, ReadBackOff,
                          Readers, Writers
      <3>2. CASE WriteTry(t) /\ value = Unlocked
        <4>1. Readers = {} /\ Writers = {}
          BY <3>2, SignTells DEF Readers, Writers, TakenReads, TakenWrites
        <4>2. Readers' = {} /\ Writers' = {t}
          BY <2>0, <3>2, <4>1 DEF WriteTry, Sign, Readers, Writers
        <4> QED  BY <4>1, <4>2 DEF Abs!AcquireWrite
      <3>3. CASE WriteTry(t) /\ value # Unlocked
        BY <2>0, <3>3 DEF WriteTry, Sign, Readers, Writers
      <3>4. CASE WriteUnlock(t)
        <4>1. Readers = {} /\ Writers = {t}
          BY <3>4 DEF WriteUnlock, IInv, MutualExclusion, Readers, Writers
        <4>2. Readers' = {} /\ Writers' = {}
          BY <2>0, <3>4, <4>1 DEF WriteUnlock, Readers, Writers
        <4> QED  BY <4>1, <4>2 DEF Abs!ReleaseWrite
      <3>5. CASE ReadTry(t) /\ value >= 1
        <4>1. Writers = {}
          BY <3>5, SignTells DEF Writers, TakenWrites
        <4>2. t \notin Readers /\ Readers' = Readers \cup {t} /\ Writers' = Writers
          BY <2>0, <3>5 DEF ReadTry, Sign, Readers, Writers
        <4> QED  BY <4>1, <4>2 DEF Abs!AcquireRead
      <3>6. CASE ReadTry(t) /\ ~(value >= 1)
        BY <2>0, <3>6 DEF ReadTry, Sign, Readers, Writers
      <3>7. CASE ReadUnlock(t)
        <4>1. t \in Readers /\ Readers' = Readers \ {t} /\ Writers' = Writers
          BY <2>0, <3>7 DEF ReadUnlock, Readers, Writers
        <4> QED  BY <4>1 DEF Abs!ReleaseRead
      <3> QED  BY <2>2, <3>1, <3>2, <3>3, <3>4, <3>5, <3>6, <3>7 DEF LockStep
    <2> QED  BY <2>1, <2>2 DEF Next
  <1> QED  BY <1>1, <1>2, Invariance, PTL DEF Spec, ImplementsAbstract, Abs!ASpec

-------------------------------------------------------------------------------
(***************************************************************************)
(* The test program, for any number of rounds: no "wr_ctr += 5" is lost.    *)
(*                                                                         *)
(* The value at the end is a sum over the threads.  It is counted as the    *)
(* set of rounds, pairs of a thread and a number, whose store to wr_ctr has *)
(* been made: a store adds one pair, and at the end all pairs are there.    *)
(***************************************************************************)
TTyped ==
    /\ wr_ctr \in Nat /\ rd_ctr \in Int /\ reg \in [Threads -> Int]
    /\ ctr \in [Threads -> 0 .. ITERS] /\ stage \in [Threads -> Stages]
    /\ \A t \in Threads : IF stage[t] = "exit" THEN ctr[t] = ITERS ELSE ctr[t] < ITERS

(* What the write lock gives: wr_ctr is the holder's alone. *)
Writing == {"w_load", "w_store", "w_unlock"}
Stored  == {"w_unlock", "r_lock", "r_load", "r_store", "r_unlock"}

Holds  == \A t \in Threads : stage[t] \in Writing => pc[t] = "write"
Loaded == \A t \in Threads : stage[t] = "w_store" => reg[t] = wr_ctr

(* The rounds of all threads, and those whose store has been made. *)
Rounds == Threads \X (0 .. ITERS - 1)
HasStored(t, k) == k < ctr[t] \/ (k = ctr[t] /\ stage[t] \in Stored)
Made   == {r \in Rounds : HasStored(r[1], r[2])}

TInv ==
    /\ IInv /\ TTyped /\ Holds /\ Loaded
    /\ wr_ctr = 5 * Cardinality(Made)

LEMMA MadeFinite ==
    ASSUME NEW S \in SUBSET Rounds
    PROVE  IsFiniteSet(S) /\ Cardinality(S) \in Nat
  <1>1. IsFiniteSet(0 .. ITERS - 1)  BY FS_Interval, ItersAssumption
  <1>2. IsFiniteSet(Rounds)  BY <1>1, FS_Product, ThreadsAssumption DEF Rounds
  <1> QED  BY <1>2, FS_Subset, FS_CardinalityType

LEMMA InitTInv == TInit => TInv
  <1> SUFFICES ASSUME TInit PROVE TInv  OBVIOUS
  <1>1. IInv  BY InitIInv DEF TInit
  <1>2. TTyped  BY ItersAssumption DEF TInit, TTyped, Stages
  <1>3. Holds /\ Loaded  BY DEF TInit, Holds, Loaded, Writing
  <1>4. Made = {}  BY DEF TInit, Made, HasStored, Rounds, Stored
  <1>5. wr_ctr = 5 * Cardinality(Made)  BY <1>4, FS_EmptySet DEF TInit
  <1> QED  BY <1>1, <1>2, <1>3, <1>5 DEF TInv

(* Only one thread is between the load of wr_ctr and the unlock. *)
LEMMA OneWrites ==
    ASSUME TInv, NEW t \in Threads, NEW u \in Threads, stage[t] \in Writing,
           stage[u] \in Writing
    PROVE  t = u
  BY DEF TInv, Holds, IInv, MutualExclusion, Writers

(* Steps that leave wr_ctr and the rounds made alone. *)
LEMMA QuietKeeps ==
    ASSUME TInv, NEW t \in Threads, IInv', TTyped', UNCHANGED <<wr_ctr, ctr>>,
           \A u \in Threads \ {t} : pc'[u] = pc[u] /\ stage'[u] = stage[u] /\ reg'[u] = reg[u],
           stage'[t] \in Writing => pc'[t] = "write",
           stage'[t] = "w_store" => reg'[t] = wr_ctr,
           stage[t] \in Stored <=> stage'[t] \in Stored
    PROVE  TInv'
  <1>1. Holds' /\ Loaded'  BY DEF TInv, Holds, Loaded
  <1>2. \A u \in Threads : stage[u] \in Stored <=> stage'[u] \in Stored  OBVIOUS
  <1>3. Made' = Made  BY <1>2 DEF Made, HasStored, Rounds
  <1> QED  BY <1>1, <1>3 DEF TInv

LEMMA LockMoves ==
    ASSUME IInv, NEW t \in Threads, CallWriteLock(t) \/ CallReadLock(t) \/ LockStep(t)
    PROVE  IInv' /\ \A u \in Threads \ {t} : pc'[u] = pc[u]
  <1>1. IInv'  BY StepIInv
  <1>2. \E l : pc' = [pc EXCEPT ![t] = l]
    BY DEF CallWriteLock, CallReadLock, LockStep, WriteTry, WriteBackOff, WriteUnlock,
           ReadTry, ReadBackOff, ReadUnlock
  <1> QED  BY <1>1, <1>2 DEF IInv

LEMMA LockForWritingKeeps ==
    ASSUME TInv, NEW t \in Threads, LockForWriting(t)
    PROVE  TInv'
  <1>1. IInv' /\ \A u \in Threads \ {t} : pc'[u] = pc[u]
    BY LockMoves DEF LockForWriting, TInv, LockStep
  <1>2. /\ stage[t] = "w_lock" /\ UNCHANGED <<wr_ctr, rd_ctr, ctr, reg>>
        /\ stage \in [Threads -> Stages]
        /\ stage' = [stage EXCEPT ![t] = IF pc'[t] = "write" THEN "w_load" ELSE "w_lock"]
    BY DEF LockForWriting, Goto, TInv, TTyped
  <1>3. TTyped'  BY <1>2 DEF TInv, TTyped, Stages
  <1> QED  BY <1>1, <1>2, <1>3, QuietKeeps DEF Writing, Stored

LEMMA LockForReadingKeeps ==
    ASSUME TInv, NEW t \in Threads, LockForReading(t)
    PROVE  TInv'
  <1>1. IInv' /\ \A u \in Threads \ {t} : pc'[u] = pc[u]
    BY LockMoves DEF LockForReading, TInv, LockStep
  <1>2. /\ stage[t] = "r_lock" /\ UNCHANGED <<wr_ctr, rd_ctr, ctr, reg>>
        /\ stage \in [Threads -> Stages]
        /\ stage' = [stage EXCEPT ![t] = IF pc'[t] = "read" THEN "r_load" ELSE "r_lock"]
    BY DEF LockForReading, Goto, TInv, TTyped
  <1>3. TTyped'  BY <1>2 DEF TInv, TTyped, Stages
  <1> QED  BY <1>1, <1>2, <1>3, QuietKeeps DEF Writing, Stored

(* The loads, the store to rd_ctr and the unlock of the write lock. *)
LEMMA LoadWrKeeps ==
    ASSUME TInv, NEW t \in Threads, LoadWr(t)
    PROVE  TInv'
  <1>1. /\ stage[t] = "w_load" /\ pc[t] = "write" /\ UNCHANGED <<value, pc, wr_ctr, rd_ctr, ctr>>
        /\ stage' = [stage EXCEPT ![t] = "w_store"] /\ reg' = [reg EXCEPT ![t] = wr_ctr]
    BY DEF LoadWr, Goto, vars, TInv, Holds, Writing
  <1>2. IInv'
    BY <1>1 DEF TInv, IInv, ValueDecodes, MutualExclusion, Readers, Writers, TakenReads,
                TakenWrites
  <1>3. TTyped'  BY <1>1 DEF TInv, TTyped, Stages
  <1>4. stage'[t] = "w_store" /\ reg'[t] = wr_ctr  BY <1>1 DEF TInv, TTyped
  <1>5. \A u \in Threads \ {t} : stage'[u] = stage[u] /\ reg'[u] = reg[u]
    BY <1>1 DEF TInv, TTyped
  <1> QED  BY <1>1, <1>2, <1>3, <1>4, <1>5, QuietKeeps DEF Writing, Stored

LEMMA UnlockWritingKeeps ==
    ASSUME TInv, NEW t \in Threads, UnlockWriting(t)
    PROVE  TInv'
  <1>1. IInv' /\ \A u \in Threads \ {t} : pc'[u] = pc[u]
    BY LockMoves DEF UnlockWriting, TInv, LockStep
  <1>2. /\ stage[t] = "w_unlock" /\ UNCHANGED <<wr_ctr, rd_ctr, ctr, reg>>
        /\ stage' = [stage EXCEPT ![t] = "r_lock"]
    BY DEF UnlockWriting, Goto
  <1>3. TTyped'  BY <1>2 DEF TInv, TTyped, Stages
  <1>4. stage'[t] = "r_lock" /\ \A u \in Threads \ {t} : stage'[u] = stage[u]
    BY <1>2 DEF TInv, TTyped
  <1> QED  BY <1>1, <1>2, <1>3, <1>4, QuietKeeps DEF Writing, Stored

LEMMA ReadingKeeps ==
    ASSUME TInv, NEW t \in Threads, LoadRd(t) \/ StoreRd(t)
    PROVE  TInv'
  <1>1. /\ stage[t] \in {"r_load", "r_store"} /\ UNCHANGED <<value, pc, wr_ctr, ctr>>
        /\ \E s \in {"r_store", "r_unlock"} : stage' = [stage EXCEPT ![t] = s]
    BY DEF LoadRd, StoreRd, Goto, vars
  <1>2. IInv'
    BY <1>1 DEF TInv, IInv, ValueDecodes, MutualExclusion, Readers, Writers, TakenReads,
                TakenWrites
  <1>3. rd_ctr' \in Int /\ reg' \in [Threads -> Int] /\ \A u \in Threads \ {t} : reg'[u] = reg[u]
    BY DEF LoadRd, StoreRd, TInv, TTyped
  <1>4. /\ stage' \in [Threads -> Stages] /\ stage'[t] \in {"r_store", "r_unlock"}
        /\ \A u \in Threads \ {t} : stage'[u] = stage[u]
    BY <1>1 DEF TInv, TTyped, Stages
  <1>5. TTyped'  BY <1>1, <1>3, <1>4 DEF TInv, TTyped
  <1> QED  BY <1>1, <1>2, <1>3, <1>4, <1>5, QuietKeeps DEF Writing, Stored

(* The store: reg still has the value of wr_ctr, so one round is added to both. *)
LEMMA StoreWrKeeps ==
    ASSUME TInv, NEW t \in Threads, StoreWr(t)
    PROVE  TInv'
  <1>1. /\ stage[t] = "w_store" /\ UNCHANGED <<value, pc, rd_ctr, ctr, reg>>
        /\ wr_ctr' = reg[t] + 5 /\ stage' = [stage EXCEPT ![t] = "w_unlock"]
    BY DEF StoreWr, Goto, vars
  <1>2. wr_ctr' = wr_ctr + 5  BY <1>1 DEF TInv, Loaded
  <1>3. IInv'
    BY <1>1 DEF TInv, IInv, ValueDecodes, MutualExclusion, Readers, Writers, TakenReads,
                TakenWrites
  <1>4. stage'[t] = "w_unlock" /\ \A u \in Threads \ {t} : stage'[u] = stage[u]
    BY <1>1 DEF TInv, TTyped
  <1>5. TTyped'  BY <1>1, <1>2 DEF TInv, TTyped, Stages
  <1>6. Holds'  BY <1>1, <1>4 DEF TInv, Holds, Writing
  <1>7. Loaded'
    <2>1. \A u \in Threads \ {t} : stage[u] # "w_store"  BY <1>1, OneWrites DEF Writing
    <2> QED  BY <1>4, <2>1 DEF Loaded
  <1>8. ctr[t] \in 0 .. ITERS - 1
    <2>1. ctr[t] \in 0 .. ITERS /\ ctr[t] < ITERS  BY <1>1 DEF TInv, TTyped
    <2> QED  BY <2>1, ItersAssumption
  <1>9. Made' = Made \cup {<<t, ctr[t]>>} /\ <<t, ctr[t]>> \notin Made
    <2>1. \A u \in Threads \ {t} : \A k : HasStored(u, k)' <=> HasStored(u, k)
      BY <1>1, <1>4 DEF HasStored
    <2>2. \A k \in 0 .. ITERS - 1 : HasStored(t, k)' <=> HasStored(t, k) \/ k = ctr[t]
      BY <1>1, <1>4, <1>8 DEF HasStored, Stored
    <2>3. ~ HasStored(t, ctr[t])  BY <1>1, <1>8 DEF HasStored, Stored
    <2> QED  BY <1>8, <2>1, <2>2, <2>3 DEF Made, Rounds
  <1>10. Cardinality(Made') = Cardinality(Made) + 1 /\ Cardinality(Made) \in Nat
    <2>1. Made \in SUBSET Rounds  BY DEF Made
    <2> QED  BY <1>9, <2>1, MadeFinite, FS_AddElement
  <1>11. wr_ctr' = 5 * Cardinality(Made')  BY <1>2, <1>10 DEF TInv
  <1> QED  BY <1>3, <1>5, <1>6, <1>7, <1>11 DEF TInv

(* The end of a round. *)
LEMMA UnlockReadingKeeps ==
    ASSUME TInv, NEW t \in Threads, UnlockReading(t)
    PROVE  TInv'
  <1>1. IInv' /\ \A u \in Threads \ {t} : pc'[u] = pc[u]
    BY LockMoves DEF UnlockReading, TInv, LockStep
  <1>2. /\ stage[t] = "r_unlock" /\ UNCHANGED <<wr_ctr, rd_ctr, reg>>
        /\ ctr' = [ctr EXCEPT ![t] = ctr[t] + 1]
        /\ stage' = [stage EXCEPT ![t] = IF ctr[t] + 1 < ITERS THEN "w_lock" ELSE "exit"]
    BY DEF UnlockReading, Goto
  <1>3. ctr[t] \in 0 .. ITERS /\ ctr[t] < ITERS /\ ITERS \in Nat
    BY <1>2, ItersAssumption DEF TInv, TTyped
  <1>4. /\ ctr'[t] = ctr[t] + 1 /\ stage'[t] = IF ctr[t] + 1 < ITERS THEN "w_lock" ELSE "exit"
        /\ \A u \in Threads \ {t} : ctr'[u] = ctr[u] /\ stage'[u] = stage[u]
        /\ ctr' \in [Threads -> 0 .. ITERS] /\ stage' \in [Threads -> Stages]
    BY <1>2, <1>3 DEF TInv, TTyped, Stages
  <1>5. TTyped'  BY <1>2, <1>3, <1>4 DEF TInv, TTyped
  <1>6. Holds' /\ Loaded'  BY <1>1, <1>2, <1>4 DEF TInv, Holds, Loaded, Writing
  <1>7. Made' = Made
    <2>1. \A u \in Threads \ {t} : \A k : HasStored(u, k)' <=> HasStored(u, k)
      BY <1>4 DEF HasStored
    <2>2. \A k \in 0 .. ITERS - 1 : HasStored(t, k)' <=> HasStored(t, k)
      BY <1>2, <1>3, <1>4 DEF HasStored, Stored
    <2> QED  BY <2>1, <2>2 DEF Made, Rounds
  <1> QED  BY <1>1, <1>2, <1>5, <1>6, <1>7 DEF TInv

LEMMA StepTInv == TInv /\ [TNext]_tvars => TInv'
  <1> SUFFICES ASSUME TInv, [TNext]_tvars PROVE TInv'  OBVIOUS
  <1>1. CASE UNCHANGED tvars
    <2>1. IInv'
      BY <1>1 DEF tvars, TInv, IInv, ValueDecodes, MutualExclusion, Readers, Writers,
                  TakenReads, TakenWrites
    <2>2. TTyped' /\ Holds' /\ Loaded'  BY <1>1 DEF tvars, TInv, TTyped, Holds, Loaded
    <2>3. Made' = Made  BY <1>1 DEF tvars, Made, HasStored, Rounds
    <2> QED  BY <1>1, <2>1, <2>2, <2>3 DEF tvars, TInv
  <1>2. ASSUME NEW t \in Threads, thfunc(t) PROVE TInv'
    BY <1>2, LockForWritingKeeps, LoadWrKeeps, StoreWrKeeps, UnlockWritingKeeps,
       LockForReadingKeeps, ReadingKeeps, UnlockReadingKeeps DEF thfunc
  <1> QED  BY <1>1, <1>2 DEF TNext, Joined

LEMMA TInvMeans == TInv => WrCtrExact
  <1> SUFFICES ASSUME TInv, AllExited PROVE wr_ctr = 5 * ITERS * Cardinality(Threads)
    BY DEF WrCtrExact
  <1> DEFINE n == Cardinality(Threads)
  <1>1. \A t \in Threads : ctr[t] = ITERS  BY DEF TInv, TTyped, AllExited
  <1>2. Made = Rounds  BY <1>1, ItersAssumption DEF Made, Rounds, HasStored
  <1>3. IsFiniteSet(0 .. ITERS - 1) /\ Cardinality(0 .. ITERS - 1) = ITERS
    <2>1. /\ IsFiniteSet(0 .. ITERS - 1)
          /\ Cardinality(0 .. ITERS - 1) = IF 0 > ITERS - 1 THEN 0 ELSE (ITERS - 1) - 0 + 1
      BY FS_Interval, ItersAssumption
    <2> QED  BY <2>1, ItersAssumption
  <1>4. Cardinality(Rounds) = n * ITERS
    BY <1>3, FS_Product, ThreadsAssumption DEF Rounds
  <1>5. n \in Nat /\ ITERS \in Nat
    BY FS_CardinalityType, ThreadsAssumption, ItersAssumption
  <1>6. wr_ctr = 5 * (n * ITERS)  BY <1>2, <1>4 DEF TInv
  <1> HIDE DEF n
  <1>7. 5 * (n * ITERS) = 5 * ITERS * n  BY <1>5
  <1> QED  BY <1>6, <1>7 DEF n

(***************************************************************************)
(* When main has joined the threads, wr_ctr has the value main.c:81         *)
(* announces, for any number of threads and rounds.                         *)
(***************************************************************************)
THEOREM NoUpdateLost == TSpec => []WrCtrExact
  BY InitTInv, StepTInv, TInvMeans, PTL DEF TSpec
===============================================================================
