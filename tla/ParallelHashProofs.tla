-------------------------- MODULE ParallelHashProofs --------------------------
(***************************************************************************)
(* Proofs about ParallelHash, for any number of threads, input and table.  *)
(* Five parts: the turns of operations on one key, the entries of the      *)
(* table, the counter of the table, the ranges of the variables, and, for  *)
(* inputs that leave an entry never used, what the operations return and   *)
(* what they leave in the table.                                           *)
(***************************************************************************)
EXTENDS ParallelHash, FiniteSetTheorems, WellFoundedInduction, TLAPS

(***************************************************************************)
(* Part 1: operations on one key run one at a time and in the order of     *)
(* the input.                                                              *)
(*                                                                         *)
(* SameKeyInOrder is not inductive.  IInv adds what being_processed says:  *)
(* an operation taken off the input is done, or being processed by exactly *)
(* one thread, which knows it (Turns, NoneTwice, NoneLost).  The functions *)
(* of the table matter only in that they end by recording an outcome.      *)
(***************************************************************************)
(* Where a thread is while it processes an operation. *)
Work == {"done", "scan_key", "scan_id", "scan_cmp", "get", "get_data",
         "insert", "walk", "walk2", "update", "ins_id", "ins_key", "ins_data", "ins_used",
         "del", "del_id", "del_key", "del_data", "del_used"}

Labels == Work \cup {"read", "wait", "woken", "exit", "aborted"}

Typed ==
    /\ Len(ops) \in Nat /\ curr \in Nat \ {0}
    /\ being \in [Threads -> Nat] /\ cur \in [Threads -> Nat]
    /\ pc \in [Threads -> Labels]

Turns ==
    \A t \in Threads :
        /\ being[t] < curr
        /\ pc[t] \in {"read", "exit"} => being[t] = 0
        /\ pc[t] \in Work \cup {"wait", "woken"} => being[t] = cur[t] /\ cur[t] # 0
        /\ pc[t] = "done" => cur[t] \in DOMAIN outcome

NoneTwice == \A t, u \in Threads : being[t] = being[u] /\ being[t] # 0 => t = u

NoneLost == \A j \in 1 .. curr - 1 : j \in DOMAIN outcome \/ \E t \in Threads : being[t] = j

IInv == Typed /\ Turns /\ NoneTwice /\ NoneLost /\ SameKeyInOrder

LEMMA ProcessingIsWork ==
    ASSUME Typed, NEW t \in Threads
    PROVE  Processing(t) <=> pc[t] \in Work
  BY DEF Typed, Processing, Labels, Work

LEMMA InitIInv == Init => IInv
  <1> SUFFICES ASSUME Init PROVE IInv  OBVIOUS
  <1>1. Typed  BY ParametersAssumption DEF Init, Typed, Labels
  <1>2. \A t \in Threads : pc[t] = "read" /\ being[t] = 0 /\ curr = 1  BY DEF Init
  <1>3. Turns  BY <1>2 DEF Turns, Work
  <1>4. NoneTwice /\ NoneLost  BY <1>2 DEF NoneTwice, NoneLost, Init
  <1>5. SameKeyInOrder  BY <1>2 DEF SameKeyInOrder, Processing
  <1> QED  BY <1>1, <1>3, <1>4, <1>5 DEF IInv

(***************************************************************************)
(* Thread t gets on with the operation it is processing, and may record its *)
(* outcome.                                                                 *)
(***************************************************************************)
Proceeds(t) ==
    /\ pc[t] \in Work \ {"done"}
    /\ UNCHANGED <<ops, curr, being, cur>>
    /\ \E l \in Work :
          /\ Goto(t, l)
          /\ DOMAIN outcome' = DOMAIN outcome \cup (IF l = "done" THEN {cur[t]} ELSE {})

LEMMA ProceedsKeeps ==
    ASSUME IInv, NEW t \in Threads, Proceeds(t)
    PROVE  IInv'
  <1> USE DEF IInv
  <1>1. PICK l \in Work :
            /\ Goto(t, l)
            /\ DOMAIN outcome' = DOMAIN outcome \cup (IF l = "done" THEN {cur[t]} ELSE {})
    BY DEF Proceeds
  <1>2. /\ pc' = [pc EXCEPT ![t] = l] /\ l \in Labels /\ pc \in [Threads -> Labels]
        /\ UNCHANGED <<ops, curr, being, cur>> /\ DOMAIN outcome \subseteq DOMAIN outcome'
    BY <1>1 DEF Goto, Proceeds, Typed, Labels
  <1>3. Typed'  BY <1>2 DEF Typed
  <1>4. Turns'
    <2> SUFFICES ASSUME NEW u \in Threads
                 PROVE  /\ being[u] < curr
                        /\ pc'[u] \in {"read", "exit"} => being[u] = 0
                        /\ pc'[u] \in Work \cup {"wait", "woken"} => being[u] = cur[u] /\ cur[u] # 0
                        /\ pc'[u] = "done" => cur[u] \in DOMAIN outcome'
      BY <1>2 DEF Turns
    <2>1. CASE u = t  BY <2>1, <1>1, <1>2 DEF Turns, Work, Proceeds
    <2>2. CASE u # t  BY <2>2, <1>2 DEF Turns
    <2> QED  BY <2>1, <2>2
  <1>5. NoneTwice' /\ NoneLost'  BY <1>2 DEF NoneTwice, NoneLost
  <1>6. SameKeyInOrder'
    <2>1. \A u \in Threads : Processing(u)' => Processing(u)
      <3> SUFFICES ASSUME NEW u \in Threads, Processing(u)' PROVE Processing(u)  OBVIOUS
      <3>1. CASE u = t  BY <3>1, ProcessingIsWork DEF Proceeds
      <3>2. CASE u # t  BY <3>2, <1>2 DEF Processing
      <3> QED  BY <3>1, <3>2
    <2>2. \A j : Finished(j) => Finished(j)'  BY <1>2 DEF Finished
    <2> QED  BY <2>1, <2>2, <1>2 DEF SameKeyInOrder, KeyOf
  <1> QED  BY <1>3, <1>4, <1>5, <1>6

(* Whatever Return does to the data, t is done and has an outcome. *)
LEMMA ReturnProceeds ==
    ASSUME NEW t \in Threads, pc[t] \in Work \ {"done"}, NEW ret, NEW data, Return(t, ret, data),
           UNCHANGED <<ops, curr, being, cur>>
    PROVE  Proceeds(t)
  <1>1. "done" \in Work /\ Goto(t, "done")  BY DEF Return, Work
  <1>2. DOMAIN outcome' = DOMAIN outcome \cup {cur[t]}  BY DEF Return
  <1> QED  BY <1>1, <1>2 DEF Proceeds

LEMMA GotoProceeds ==
    ASSUME NEW t \in Threads, pc[t] \in Work \ {"done"}, NEW l \in Work \ {"done"}, Goto(t, l),
           UNCHANGED <<ops, curr, being, cur, outcome>>
    PROVE  Proceeds(t)
  BY DEF Proceeds

(* One step per function of the table; the asserts of insert_update apart. *)
LEMMA ScanStep ==
    ASSUME NEW t \in Threads, ScanKey(t) \/ ScanId(t) \/ ScanCmp(t)
    PROVE  Proceeds(t)
  <1> USE GotoProceeds DEF input, shared
  <1>1. CASE ScanKey(t)  BY <1>1 DEF ScanKey, Work
  <1>2. CASE ScanId(t)  BY <1>2 DEF ScanId, AfterScan, Work
  <1>3. CASE ScanCmp(t)  BY <1>3 DEF ScanCmp, AfterScan, Work
  <1> QED  BY <1>1, <1>2, <1>3

LEMMA LookupStep ==
    ASSUME NEW t \in Threads, lookup(t)
    PROVE  Proceeds(t)
  <1> USE DEF input, shared
  <1>1. CASE GetMiss(t)  BY <1>1, ReturnProceeds DEF GetMiss, Work
  <1>2. CASE GetHit(t)  BY <1>2, GotoProceeds DEF GetHit, Work
  <1>3. CASE GetData(t)  BY <1>3, ReturnProceeds DEF GetData, Work
  <1> QED  BY <1>1, <1>2, <1>3 DEF lookup

LEMMA InsertStep ==
    ASSUME NEW t \in Threads, insert_update(t), ~InsertBegin(t)
    PROVE  Proceeds(t)
  <1> USE DEF input, shared
  <1>1. CASE Walk1(t)  BY <1>1, GotoProceeds DEF Walk1, MoveOn, StopHere, Work
  <1>2. CASE Walk2(t)  BY <1>2, GotoProceeds DEF Walk2, MoveOn, StopHere, Work
  <1>3. CASE Update(t)  BY <1>3, ReturnProceeds DEF Update, Work
  <1>4. CASE InsertId(t)  BY <1>4, GotoProceeds DEF InsertId, Work
  <1>5. CASE InsertKey(t)  BY <1>5, GotoProceeds DEF InsertKey, Work
  <1>6. CASE InsertData(t)  BY <1>6, GotoProceeds DEF InsertData, Work
  <1>7. CASE InsertUsed(t)  BY <1>7, ReturnProceeds DEF InsertUsed, Work
  <1> QED  BY <1>1, <1>2, <1>3, <1>4, <1>5, <1>6, <1>7 DEF insert_update

LEMMA PurgeStep ==
    ASSUME NEW t \in Threads, purge_key(t)
    PROVE  Proceeds(t)
  <1> USE DEF input, shared
  <1>1. CASE PurgeMiss(t)  BY <1>1, ReturnProceeds DEF PurgeMiss, Work
  <1>2. CASE PurgeHit(t)  BY <1>2, GotoProceeds DEF PurgeHit, Work
  <1>3. CASE PurgeId(t)  BY <1>3, GotoProceeds DEF PurgeId, Work
  <1>4. CASE PurgeKey(t)  BY <1>4, GotoProceeds DEF PurgeKey, Work
  <1>5. CASE PurgeData(t)  BY <1>5, GotoProceeds DEF PurgeData, Work
  <1>6. CASE PurgeUsed(t)  BY <1>6, ReturnProceeds DEF PurgeUsed, Work
  <1> QED  BY <1>1, <1>2, <1>3, <1>4, <1>5, <1>6 DEF purge_key

(* insert_update begins, or an assert ends the process. *)
LEMMA InsertBeginKeeps ==
    ASSUME IInv, NEW t \in Threads, InsertBegin(t)
    PROVE  IInv'
  <1> USE DEF input, shared
  <1>1. CASE used < TableSize
    <2>1. Proceeds(t)  BY <1>1, GotoProceeds DEF InsertBegin, Work
    <2> QED  BY <2>1, ProceedsKeeps
  <1>2. CASE ~(used < TableSize)
    <2>1. /\ pc' = [u \in Threads |-> "aborted"]
          /\ UNCHANGED <<ops, curr, being, cur, outcome>>
      BY <1>2 DEF InsertBegin
    <2>2. Typed'  BY <2>1 DEF IInv, Typed, Labels
    <2>3. Turns'  BY <2>1 DEF IInv, Turns, Work
    <2>4. NoneTwice' /\ NoneLost'  BY <2>1 DEF IInv, NoneTwice, NoneLost
    <2>5. SameKeyInOrder'  BY <2>1 DEF SameKeyInOrder, Processing
    <2> QED  BY <2>2, <2>3, <2>4, <2>5 DEF IInv
  <1> QED  BY <1>1, <1>2

-------------------------------------------------------------------------------
(***************************************************************************)
(* What an operation that need not wait finds: all earlier operations on    *)
(* its key are done, since each is done or some thread is processing it,    *)
(* and that thread would have made it wait.                                 *)
(***************************************************************************)
LEMMA EarlierFinished ==
    ASSUME Turns, NoneTwice, NoneLost, Typed, NEW t \in Threads, NEW i \in 1 .. curr,
           being[t] \in {0, i}, ~MustWait(t, i),
           NEW j \in 1 .. i - 1, ops[j].key = ops[i].key
    PROVE  Finished(j)
  <1>1. \A u \in Threads : being[u] # j
    <2> SUFFICES ASSUME NEW u \in Threads, being[u] = j PROVE FALSE  OBVIOUS
    <2>1. u # t  OBVIOUS
    <2> QED  BY <2>1 DEF MustWait
  <1>2. j \in DOMAIN outcome  BY <1>1 DEF NoneLost, Typed
  <1> QED  BY <1>1, <1>2 DEF Finished

(* A thread that does not process an operation goes to another place where it
   does not. *)
LEMMA IdleKeeps ==
    ASSUME IInv, NEW t \in Threads, NEW l,
           <<pc[t], l>> \in {<<"read", "exit">>, <<"wait", "woken">>, <<"woken", "wait">>},
           Goto(t, l), UNCHANGED <<ops, curr, being, cur, outcome>>
    PROVE  IInv'
  <1> USE DEF IInv
  <1>1. /\ pc' = [pc EXCEPT ![t] = l] /\ l \in {"exit", "wait", "woken"}
        /\ pc \in [Threads -> Labels]
    BY DEF Goto, Typed
  <1>2. Typed'  BY <1>1 DEF Typed, Labels
  <1>3. Turns'  BY <1>1 DEF Turns, Work
  <1>4. NoneTwice' /\ NoneLost'  BY DEF NoneTwice, NoneLost
  <1>5. \A u \in Threads : Processing(u)' => Processing(u)  BY <1>1 DEF Processing
  <1>6. SameKeyInOrder'  BY <1>5 DEF SameKeyInOrder, Finished, KeyOf
  <1> QED  BY <1>2, <1>3, <1>4, <1>6

(***************************************************************************)
(* A thread starts to process operation cur[t], which it has already        *)
(* entered in being_processed (in the same step, for ReadOp).               *)
(***************************************************************************)
LEMMA RecheckKeeps ==
    ASSUME IInv, NEW t \in Threads, Recheck(t)
    PROVE  IInv'
  <1> USE DEF IInv, input, shared
  <1>1. pc[t] = "woken" /\ being[t] = cur[t] /\ cur[t] \in 1 .. curr
    BY DEF Recheck, Turns, Typed, Work
  <1>2. CASE MustWait(t, cur[t])
    BY <1>1, <1>2, IdleKeeps DEF Recheck
  <1>3. CASE ~MustWait(t, cur[t])
    <2>1. PICK l \in {"insert", "scan_key"} : pc' = [pc EXCEPT ![t] = l]
      BY <1>3 DEF Recheck, Dispatch, Goto
    <2>2. UNCHANGED <<ops, curr, being, cur, outcome>> /\ pc \in [Threads -> Labels]
      BY DEF Recheck, Typed
    <2>3. Typed'  BY <2>1, <2>2 DEF Typed, Labels, Work
    <2>4. Turns'  BY <1>1, <2>1, <2>2 DEF Turns, Work
    <2>5. NoneTwice' /\ NoneLost'  BY <2>2 DEF NoneTwice, NoneLost
    <2>6. SameKeyInOrder'
      <3> SUFFICES ASSUME NEW u \in Threads, Processing(u)',
                          NEW j \in 1 .. cur[u] - 1, ops[j].key = ops[cur[u]].key
                   PROVE  Finished(j)
        BY <2>2 DEF SameKeyInOrder, KeyOf, Finished
      <3>1. CASE u = t  BY <3>1, <1>1, <1>3, EarlierFinished
      <3>2. CASE u # t
        <4>1. Processing(u)  BY <3>2, <2>1, <2>2 DEF Processing
        <4> QED  BY <4>1 DEF SameKeyInOrder, KeyOf
      <3> QED  BY <3>1, <3>2
    <2> QED  BY <2>3, <2>4, <2>5, <2>6
  <1> QED  BY <1>2, <1>3

LEMMA ReadOpKeeps ==
    ASSUME IInv, NEW t \in Threads, ReadOp(t)
    PROVE  IInv'
  <1> USE DEF IInv, input, shared
  <1>1. /\ pc[t] = "read" /\ being[t] = 0 /\ curr' = curr + 1
        /\ being' = [being EXCEPT ![t] = curr] /\ cur' = [cur EXCEPT ![t] = curr]
        /\ UNCHANGED <<ops, outcome>>
    BY DEF ReadOp, Turns
  <1>2. PICK l \in {"insert", "scan_key", "wait"} :
            pc' = [pc EXCEPT ![t] = l] /\ (l # "wait" => ~MustWait(t, curr))
    BY DEF ReadOp, Dispatch, Goto
  <1>3. /\ curr \in Nat \ {0} /\ pc \in [Threads -> Labels]
        /\ being \in [Threads -> Nat] /\ cur \in [Threads -> Nat]
    BY DEF Typed
  <1>4. Typed'  BY <1>1, <1>2, <1>3 DEF Typed, Labels, Work
  <1>5. Turns'
    <2> SUFFICES ASSUME NEW u \in Threads
                 PROVE  /\ being'[u] < curr + 1
                        /\ pc'[u] \in {"read", "exit"} => being'[u] = 0
                        /\ pc'[u] \in Work \cup {"wait", "woken"} => being'[u] = cur'[u] /\ cur'[u] # 0
                        /\ pc'[u] = "done" => cur'[u] \in DOMAIN outcome
      BY <1>1 DEF Turns
    <2>1. CASE u = t  BY <2>1, <1>1, <1>2, <1>3
    <2>2. CASE u # t
      <3>1. being'[u] = being[u] /\ cur'[u] = cur[u] /\ pc'[u] = pc[u] /\ being[u] \in Nat
        BY <2>2, <1>1, <1>2, <1>3
      <3> QED  BY <3>1, <1>3 DEF Turns
    <2> QED  BY <2>1, <2>2
  <1>6. NoneTwice'
    <2> SUFFICES ASSUME NEW u \in Threads, NEW v \in Threads, being'[u] = being'[v], being'[u] # 0
                 PROVE  u = v
      BY DEF NoneTwice
    <2> QED  BY <1>1, <1>3 DEF NoneTwice, Turns
  <1>7. NoneLost'
    <2> SUFFICES ASSUME NEW j \in 1 .. curr
                 PROVE  j \in DOMAIN outcome \/ \E u \in Threads : being'[u] = j
      BY <1>1, <1>3 DEF NoneLost
    <2>1. CASE j = curr  BY <2>1, <1>1, <1>3
    <2>2. CASE j # curr
      <3>1. j \in 1 .. curr - 1  BY <2>2, <1>3
      <3>2. \A u \in Threads : being[u] = j => being'[u] = j  BY <1>1, <1>3
      <3> QED  BY <3>1, <3>2 DEF NoneLost
    <2> QED  BY <2>1, <2>2
  <1>8. SameKeyInOrder'
    <2> SUFFICES ASSUME NEW u \in Threads, Processing(u)',
                        NEW j \in 1 .. cur'[u] - 1, ops[j].key = ops[cur'[u]].key
                 PROVE  Finished(j)'
      BY <1>1 DEF SameKeyInOrder, KeyOf
    <2>1. CASE u = t
      <3>1. l # "wait" /\ cur'[u] = curr  BY <2>1, <1>1, <1>2, <1>3 DEF Processing
      <3>2. Finished(j)  BY <3>1, <1>1, <1>2, <1>3, EarlierFinished
      <3>3. \A v \in Threads : being'[v] # j  BY <3>1, <3>2, <1>1, <1>3 DEF Finished
      <3> QED  BY <3>2, <3>3, <1>1 DEF Finished
    <2>2. CASE u # t
      <3>1. Processing(u) /\ cur'[u] = cur[u]  BY <2>2, <1>1, <1>2, <1>3 DEF Processing
      <3>2. Finished(j)  BY <3>1 DEF SameKeyInOrder, KeyOf
      <3>3. cur[u] < curr
        BY <3>1, <1>3, ProcessingIsWork DEF Turns
      <3>4. \A v \in Threads : being'[v] # j  BY <3>1, <3>2, <3>3, <1>1, <1>3 DEF Finished
      <3> QED  BY <3>2, <3>4, <1>1 DEF Finished
    <2> QED  BY <2>1, <2>2
  <1> QED  BY <1>4, <1>5, <1>6, <1>7, <1>8

LEMMA DoneOneKeeps ==
    ASSUME IInv, NEW t \in Threads, DoneOne(t)
    PROVE  IInv'
  <1> USE DEF IInv, shared
  <1>1. /\ pc[t] = "done" /\ being' = [being EXCEPT ![t] = 0]
        /\ pc' = [u \in Threads |-> IF u = t THEN "read"
                                    ELSE IF pc[u] = "wait" THEN "woken" ELSE pc[u]]
        /\ UNCHANGED <<ops, curr, cur, outcome>>
    BY DEF DoneOne
  <1>2. /\ curr \in Nat \ {0} /\ pc \in [Threads -> Labels] /\ being \in [Threads -> Nat]
    BY DEF Typed
  <1>3. Typed'  BY <1>1, <1>2 DEF Typed, Labels
  <1>4. Turns'
    <2> SUFFICES ASSUME NEW u \in Threads
                 PROVE  /\ being'[u] < curr
                        /\ pc'[u] \in {"read", "exit"} => being'[u] = 0
                        /\ pc'[u] \in Work \cup {"wait", "woken"} => being'[u] = cur[u] /\ cur[u] # 0
                        /\ pc'[u] = "done" => cur[u] \in DOMAIN outcome
      BY <1>1 DEF Turns
    <2>1. CASE u = t  BY <2>1, <1>1, <1>2 DEF Work
    <2>2. CASE u # t  BY <2>2, <1>1, <1>2 DEF Turns, Work
    <2> QED  BY <2>1, <2>2
  <1>5. NoneTwice'  BY <1>1, <1>2 DEF NoneTwice
  <1>6. NoneLost'
    <2> SUFFICES ASSUME NEW j \in 1 .. curr - 1, j \notin DOMAIN outcome
                 PROVE  \E u \in Threads : being'[u] = j
      BY <1>1 DEF NoneLost
    <2>1. PICK u \in Threads : being[u] = j  BY DEF NoneLost
    <2>2. u # t  BY <2>1, <1>1 DEF Turns, Work
    <2> QED  BY <2>1, <2>2, <1>1
  <1>7. SameKeyInOrder'
    <2>1. \A u \in Threads : Processing(u)' => Processing(u)
      BY <1>1, <1>2 DEF Processing
    <2>2. \A j \in Nat \ {0} : Finished(j) => Finished(j)'
      BY <1>1, <1>2 DEF Finished
    <2>3. cur \in [Threads -> Nat]  BY DEF Typed
    <2> QED  BY <2>1, <2>2, <2>3, <1>1 DEF SameKeyInOrder, KeyOf
  <1> QED  BY <1>3, <1>4, <1>5, <1>6, <1>7

-------------------------------------------------------------------------------
LEMMA StepIInv == IInv /\ [Next]_vars => IInv'
  <1> SUFFICES ASSUME IInv, [Next]_vars PROVE IInv'  OBVIOUS
  <1>1. CASE UNCHANGED vars
    <2> USE <1>1 DEF IInv, vars
    <2>1. Typed' /\ Turns'  BY DEF Typed, Turns
    <2>2. NoneTwice' /\ NoneLost'  BY DEF NoneTwice, NoneLost
    <2>3. SameKeyInOrder'  BY DEF SameKeyInOrder, Processing, Finished, KeyOf
    <2> QED  BY <2>1, <2>2, <2>3
  <1>2. ASSUME NEW t \in Threads, process(t) PROVE IInv'
    <2> USE <1>2
    <2>1. CASE ReadOp(t)  BY <2>1, ReadOpKeeps
    <2>2. CASE EndOfInput(t)  BY <2>2, IdleKeeps DEF EndOfInput, input, shared
    <2>3. CASE Recheck(t)  BY <2>3, RecheckKeeps
    <2>4. CASE ScanKey(t) \/ ScanId(t) \/ ScanCmp(t)  BY <2>4, ScanStep, ProceedsKeeps
    <2>5. CASE lookup(t)  BY <2>5, LookupStep, ProceedsKeeps
    <2>6. CASE insert_update(t)  BY <2>6, InsertStep, InsertBeginKeeps, ProceedsKeeps
    <2>7. CASE purge_key(t)  BY <2>7, PurgeStep, ProceedsKeeps
    <2>8. CASE DoneOne(t)  BY <2>8, DoneOneKeeps
    <2> QED  BY <2>1, <2>2, <2>3, <2>4, <2>5, <2>6, <2>7, <2>8 DEF process
  <1>3. ASSUME NEW t \in Threads, SpuriousWakeup(t) PROVE IInv'
    BY <1>3, IdleKeeps DEF SpuriousWakeup, input, shared
  <1> QED  BY <1>1, <1>2, <1>3 DEF Next, Ended

(***************************************************************************)
(* Operations on one key run one at a time and in the order of the input,   *)
(* for any number of threads, any input and any table (read_op,             *)
(* parallel_hash.c:67-74, and done_one).                                    *)
(***************************************************************************)
THEOREM KeyOrder == Spec => []SameKeyInOrder
  <1>1. IInv => SameKeyInOrder  BY DEF IInv
  <1> QED  BY InitIInv, StepIInv, <1>1, PTL DEF Spec
-------------------------------------------------------------------------------
(***************************************************************************)
(* Part 2: the entries of the table, for tables of any size.               *)
(***************************************************************************)
(***************************************************************************)
(* Arithmetic of the walks.                                                 *)
(***************************************************************************)
LEMMA NextSlot ==
    ASSUME NEW c \in Slots
    PROVE  (c + 1) % TableSize = IF c = TableSize - 1 THEN 0 ELSE c + 1
  <1> USE ParametersAssumption DEF Slots
  <1>1. CASE c = TableSize - 1
    <2>1. TableSize % TableSize = 0  OBVIOUS
    <2> QED  BY <1>1, <2>1
  <1>2. CASE c # TableSize - 1
    <2>1. c + 1 \in 0 .. TableSize - 1  BY <1>2
    <2> QED  BY <2>1, <1>2
  <1> QED  BY <1>1, <1>2

LEMMA NextInTable ==
    ASSUME NEW c \in Slots
    PROVE  (c + 1) % TableSize \in Slots
  <1>1. TableSize \in Nat \ {0}  BY ParametersAssumption
  <1>2. CASE c = TableSize - 1
    <2>1. (c + 1) % TableSize = 0  BY <1>2, NextSlot
    <2> QED  BY <1>1, <2>1 DEF Slots
  <1>3. CASE c # TableSize - 1
    <2>1. (c + 1) % TableSize = c + 1  BY <1>3, NextSlot
    <2> QED  BY <1>1, <1>3, <2>1 DEF Slots
  <1> QED  BY <1>2, <1>3

LEMMA HashInTable ==
    ASSUME NEW k \in Nat
    PROVE  hashfunc(k) \in Slots
  <1> USE ParametersAssumption
  <1>1. (k \div Half) + (k % Half) \in Nat  OBVIOUS
  <1>2. \A x \in Nat : x % TableSize \in 0 .. TableSize - 1  OBVIOUS
  <1> QED  BY <1>1, <1>2 DEF hashfunc, Slots

LEMMA LastSlotIs ==
    ASSUME NEW h \in Slots
    PROVE  (h - 1) % UIntMod = IF h = 0 THEN UIntMod - 1 ELSE h - 1
  <1> USE ParametersAssumption DEF Slots
  <1>1. CASE h = 0
    <2>1. (0 - 1) % UIntMod = UIntMod - 1  OBVIOUS
    <2> QED  BY <1>1, <2>1
  <1>2. CASE h # 0
    <2>1. h - 1 \in 0 .. UIntMod - 1  BY <1>2
    <2> QED  BY <2>1, <1>2
  <1> QED  BY <1>1, <1>2

-------------------------------------------------------------------------------
(***************************************************************************)
(* The inductive invariant of the table.                                    *)
(***************************************************************************)
TableTyped ==
    /\ \A i \in 1 .. Len(ops) : ops[i] \in Op
    /\ curr \in 1 .. Len(ops) + 1
    /\ table \in [Slots -> [id : Nat, key : Nat, data : Nat]]
    /\ elock \in [Slots -> Threads \cup {None}]
    /\ ctr \in [Threads -> Slots] /\ entry \in [Threads -> Slots]

(* Where a thread holds the lock of its entry. *)
Holding == {"update", "ins_id", "ins_key", "ins_data", "del_id", "del_key", "del_data"}

Locked == \A t \in Threads : pc[t] \in Holding => elock[entry[t]] = t

(* An entry that no walk of insert_update takes for one never used. *)
Taken(s) ==
    \/ table[s].key # 0 \/ table[s].id = Tomb
    \/ \E t \in Threads : pc[t] = "ins_key" /\ entry[t] = s

(* How far slot s is from the one the walks for key k start at. *)
Distance(k, s) == IF hashfunc(k) <= s THEN s - hashfunc(k) ELSE s - hashfunc(k) + TableSize

(* The slots a walk for k passes before it gets to s are taken. *)
Reachable(k, s) == \A r \in Slots : Distance(k, r) < Distance(k, s) => Taken(r)

Chains == \A s \in Slots : table[s].key # 0 => Reachable(table[s].key, s)

Absent(k) == \A s \in Slots : table[s].key # k

(* What a thread knows at each point of insert_update and purge_key. *)
Knows(t) ==
    /\ pc[t] = "insert" => ctr[t] = hashval(t) /\ entry[t] = hashval(t)
    /\ pc[t] = "walk" =>
          /\ entry[t] = ctr[t] /\ Reachable(KeyOf(t), ctr[t])
          /\ \A s \in Slots : table[s].key = KeyOf(t)
                => Distance(KeyOf(t), ctr[t]) <= Distance(KeyOf(t), s)
    /\ pc[t] = "walk2" => (\A s \in Slots : Taken(s)) /\ Absent(KeyOf(t))
    /\ pc[t] \in {"ins_id", "ins_key"} => Reachable(KeyOf(t), entry[t]) /\ Absent(KeyOf(t))
    /\ pc[t] \in {"update", "del_id", "del_key"} => table[entry[t]].key = KeyOf(t)
    /\ pc[t] = "del_key" => table[entry[t]].id = Tomb

(* When an assert has failed nothing more happens, and what the threads knew
   is of no use. *)
Aborted == \A t \in Threads : pc[t] = "aborted"

Running == Locked /\ Chains /\ (\A t \in Threads : Knows(t) /\ pc[t] # "aborted")

TInv == IInv /\ TableTyped /\ NoDuplicateKeys /\ (Aborted \/ Running)

-------------------------------------------------------------------------------
LEMMA InitTInv == Init => TInv
  <1> SUFFICES ASSUME Init PROVE TInv  OBVIOUS
  <1>1. IInv  BY InitIInv
  <1>2. \A s \in Slots : table[s] = [id |-> 0, key |-> 0, data |-> 0]  BY DEF Init
  <1>3. 0 \in Slots /\ Len(ops) \in Nat /\ \A i \in 1 .. Len(ops) : ops[i] \in Op
    BY ParametersAssumption DEF Init, Slots
  <1>4. TableTyped  BY <1>3 DEF Init, TableTyped
  <1>5. NoDuplicateKeys  BY <1>2 DEF NoDuplicateKeys
  <1>6. \A t \in Threads : pc[t] = "read"  BY DEF Init
  <1>7. Running  BY <1>2, <1>6 DEF Running, Locked, Holding, Chains, Knows
  <1> QED  BY <1>1, <1>4, <1>5, <1>7 DEF TInv

LEMMA KeysAre ==
    ASSUME TInv, NEW t \in Threads, pc[t] \in Work
    PROVE  cur[t] \in 1 .. Len(ops) /\ KeyOf(t) \in Nat \ {0} /\ hashval(t) \in Slots
  <1>1. cur[t] \in 1 .. Len(ops)
    BY DEF TInv, IInv, Typed, Turns, TableTyped
  <1>2. KeyOf(t) \in Nat \ {0}  BY <1>1 DEF TInv, TableTyped, KeyOf, Op
  <1> QED  BY <1>1, <1>2, HashInTable DEF hashval

(* Two threads never work on the same key. *)
LEMMA Exclusive ==
    ASSUME TInv, NEW t \in Threads, NEW u \in Threads \ {t}, pc[t] \in Work, pc[u] \in Work
    PROVE  KeyOf(t) # KeyOf(u)
  <1>1. \A x, y \in Threads : pc[x] \in Work /\ pc[y] \in Work /\ cur[x] < cur[y]
                              => KeyOf(x) # KeyOf(y)
    <2> SUFFICES ASSUME NEW x \in Threads, NEW y \in Threads, pc[x] \in Work, pc[y] \in Work,
                        cur[x] < cur[y], KeyOf(x) = KeyOf(y)
                 PROVE  FALSE
      OBVIOUS
    <2>1. cur[x] \in 1 .. cur[y] - 1  BY KeysAre
    <2>2. Finished(cur[x])  BY <2>1, ProcessingIsWork DEF TInv, IInv, SameKeyInOrder, KeyOf
    <2>3. being[x] = cur[x]  BY DEF TInv, IInv, Turns
    <2> QED  BY <2>2, <2>3 DEF Finished
  <1>2. cur[t] # cur[u]
    <2>1. being[t] = cur[t] /\ being[u] = cur[u] /\ cur[t] # 0  BY DEF TInv, IInv, Turns
    <2> QED  BY <2>1 DEF TInv, IInv, NoneTwice
  <1>3. cur[t] \in Nat /\ cur[u] \in Nat  BY KeysAre
  <1> QED  BY <1>1, <1>2, <1>3

-------------------------------------------------------------------------------
(***************************************************************************)
(* A step of thread t changes at most the entry it is at, whose lock nobody *)
(* else holds, and gives it a new key only where no walk can miss it.       *)
(***************************************************************************)
OthersSame(t) ==
    \A u \in Threads \ {t} :
        /\ pc'[u] = pc[u] \/ (pc[u] = "wait" /\ pc'[u] = "woken")
        /\ cur'[u] = cur[u] /\ ctr'[u] = ctr[u] /\ entry'[u] = entry[u]

ChangesEntry(t) ==
    /\ \A s \in Slots \ {entry[t]} : table'[s] = table[s] /\ elock'[s] = elock[s]
    /\ UNCHANGED <<table, elock>> \/ elock[entry[t]] \in {None, t}
    /\ \A s \in Slots : Taken(s) => Taken(s)'
    /\ table'[entry[t]].key # table[entry[t]].key =>
          \/ table'[entry[t]].key = 0
          \/ /\ pc[t] \in Work /\ table'[entry[t]].key = KeyOf(t)
             /\ Absent(KeyOf(t)) /\ Reachable(KeyOf(t), entry[t])

LEMMA OthersKnow ==
    ASSUME TInv, Running, NEW t \in Threads, OthersSame(t), UNCHANGED ops, ChangesEntry(t),
           NEW u \in Threads \ {t}
    PROVE  /\ pc'[u] \in Holding => elock'[entry'[u]] = u
           /\ Knows(u)' /\ pc'[u] # "aborted"
  <1>0. /\ cur'[u] = cur[u] /\ ctr'[u] = ctr[u] /\ entry'[u] = entry[u] /\ KeyOf(u)' = KeyOf(u)
        /\ hashval(u)' = hashval(u) /\ entry[u] \in Slots /\ entry[t] \in Slots
        /\ Knows(u) /\ pc[u] # "aborted" /\ (pc[u] \in Holding => elock[entry[u]] = u)
    BY DEF OthersSame, KeyOf, hashval, TInv, TableTyped, Running, Locked
  <1>1. CASE pc[u] \notin Work
    BY <1>0, <1>1 DEF OthersSame, Knows, Work, Holding
  <1>2. CASE pc[u] \in Work
    <2>1. pc'[u] = pc[u]  BY <1>2 DEF OthersSame, Work
    <2>2. pc[u] \in Holding => table'[entry[u]] = table[entry[u]] /\ elock'[entry[u]] = u
      <3> SUFFICES ASSUME pc[u] \in Holding
                   PROVE  table'[entry[u]] = table[entry[u]] /\ elock'[entry[u]] = u
        OBVIOUS
      <3>1. elock[entry[u]] = u /\ u # t /\ u # None  BY <1>0, ParametersAssumption
      <3>2. CASE UNCHANGED <<table, elock>>  BY <3>1, <3>2
      <3>3. CASE elock[entry[t]] \in {None, t}
        <4>1. entry[u] # entry[t]  BY <3>1, <3>3
        <4> QED  BY <4>1, <3>1, <1>0 DEF ChangesEntry
      <3> QED  BY <3>2, <3>3 DEF ChangesEntry
    <2>3. \A s \in Slots : table'[s].key = KeyOf(u) => table[s].key = KeyOf(u)
      <3> SUFFICES ASSUME NEW s \in Slots, table'[s].key = KeyOf(u), table[s].key # KeyOf(u)
                   PROVE  FALSE
        OBVIOUS
      <3>1. s = entry[t]  BY DEF ChangesEntry
      <3>2. KeyOf(u) # 0  BY <1>2, KeysAre
      <3>3. pc[t] \in Work /\ KeyOf(u) = KeyOf(t)  BY <3>1, <3>2 DEF ChangesEntry
      <3> QED  BY <3>3, <1>2, Exclusive
    <2>4. \A k : \A s \in Slots : Reachable(k, s) => Reachable(k, s)'
      BY DEF Reachable, ChangesEntry
    <2>5. Absent(KeyOf(u)) => Absent(KeyOf(u))'  BY <2>3, <1>0 DEF Absent
    <2>6. ctr[u] \in Slots  BY DEF TInv, TableTyped
    <2>7. Knows(u)'
      <3>1. (pc[u] = "insert" => ctr[u] = hashval(u) /\ entry[u] = hashval(u))'
        BY <1>0, <2>1 DEF Knows
      <3>2. (pc[u] = "walk" =>
                /\ entry[u] = ctr[u] /\ Reachable(KeyOf(u), ctr[u])
                /\ \A s \in Slots : table[s].key = KeyOf(u)
                       => Distance(KeyOf(u), ctr[u]) <= Distance(KeyOf(u), s))'
        BY <1>0, <2>1, <2>3, <2>4, <2>6 DEF Knows, Reachable, Distance
      <3>3. (pc[u] = "walk2" => (\A s \in Slots : Taken(s)) /\ Absent(KeyOf(u)))'
        BY <1>0, <2>1, <2>5 DEF Knows, ChangesEntry, Absent
      <3>4. (pc[u] \in {"ins_id", "ins_key"} => Reachable(KeyOf(u), entry[u]) /\ Absent(KeyOf(u)))'
        BY <1>0, <2>1, <2>4, <2>5 DEF Knows, Absent, Reachable, Distance
      <3>5. (pc[u] \in {"update", "del_id", "del_key"} => table[entry[u]].key = KeyOf(u))'
        BY <1>0, <2>1, <2>2 DEF Knows, Holding
      <3>6. (pc[u] = "del_key" => table[entry[u]].id = Tomb)'
        BY <1>0, <2>1, <2>2 DEF Knows, Holding
      <3> QED  BY <3>1, <3>2, <3>3, <3>4, <3>5, <3>6 DEF Knows
    <2> QED  BY <1>0, <2>1, <2>2, <2>7
  <1> QED  BY <1>1, <1>2

LEMMA StepKeeps ==
    ASSUME TInv, Running, IInv', NEW t \in Threads, OthersSame(t), UNCHANGED ops, TableTyped',
           ChangesEntry(t), pc'[t] \in Holding => elock'[entry'[t]] = t,
           Knows(t)', pc'[t] # "aborted"
    PROVE  TInv' /\ Running'
  <1>0. entry[t] \in Slots  BY DEF TInv, TableTyped
  <1>1. \A u \in Threads : /\ pc'[u] \in Holding => elock'[entry'[u]] = u
                           /\ Knows(u)' /\ pc'[u] # "aborted"
    BY OthersKnow
  <1>2. Locked'  BY <1>1 DEF Locked
  <1>3. \A s \in Slots : table'[s].key # table[s].key => s = entry[t]
    BY DEF ChangesEntry
  <1>4. Chains'
    <2> SUFFICES ASSUME NEW s \in Slots, table'[s].key # 0
                 PROVE  \A r \in Slots : Distance(table'[s].key, r) < Distance(table'[s].key, s)
                                          => Taken(r)'
      BY DEF Chains, Reachable, Distance, hashfunc
    <2>1. Reachable(table'[s].key, s)
      <3>1. CASE table'[s].key = table[s].key
        BY <3>1 DEF Running, Chains
      <3>2. CASE table'[s].key # table[s].key
        BY <3>2, <1>3 DEF ChangesEntry
      <3> QED  BY <3>1, <3>2
    <2> QED  BY <2>1 DEF Reachable, ChangesEntry
  <1>5. NoDuplicateKeys'
    <2> SUFFICES ASSUME NEW r \in Slots, NEW s \in Slots, table'[r].key # 0,
                        table'[r].key = table'[s].key, r # s
                 PROVE  FALSE
      BY DEF NoDuplicateKeys
    <2>1. table[r].key # table[s].key \/ table[r].key = 0  BY DEF TInv, NoDuplicateKeys
    <2>2. PICK x \in Slots, y \in Slots :
              x = entry[t] /\ y # x /\ table'[x].key # table[x].key /\ table'[x].key # 0
              /\ table'[y].key = table[y].key /\ table'[x].key = table'[y].key
      BY <2>1, <1>3
    <2> QED  BY <2>2 DEF ChangesEntry, Absent
  <1> QED  BY <1>1, <1>2, <1>4, <1>5 DEF TInv, Running

-------------------------------------------------------------------------------
LEMMA SameEntry ==
    ASSUME NEW t \in Threads, UNCHANGED <<table, elock>>, OthersSame(t), pc[t] # "ins_key"
    PROVE  ChangesEntry(t)
  <1>1. \A s \in Slots : Taken(s) => Taken(s)'  BY DEF Taken, OthersSame
  <1> QED  BY <1>1 DEF ChangesEntry

(* Steps that only move t along. *)
LEMMA QuietKeeps ==
    ASSUME TInv, Running, IInv', NEW t \in Threads, OthersSame(t),
           UNCHANGED <<ops, table, elock>>, TableTyped', pc[t] # "ins_key",
           pc'[t] \notin Holding \cup {"insert", "walk", "walk2", "aborted"}
    PROVE  TInv' /\ Running'
  <1>1. ChangesEntry(t)  BY SameEntry
  <1>2. Knows(t)'  BY DEF Knows, Holding
  <1> QED  BY <1>1, <1>2, StepKeeps

LEMMA GotoOthers ==
    ASSUME IInv, NEW t \in Threads, NEW l, Goto(t, l),
           \A u \in Threads \ {t} : cur'[u] = cur[u] /\ ctr'[u] = ctr[u] /\ entry'[u] = entry[u]
    PROVE  pc'[t] = l /\ OthersSame(t)
  BY DEF IInv, Typed, Goto, OthersSame

(* The functions of the table up to the point where they take a lock. *)
LEMMA ScanKeeps ==
    ASSUME TInv, Running, IInv', NEW t \in Threads,
           \/ ScanKey(t) \/ ScanId(t) \/ ScanCmp(t) \/ GetHit(t)
    PROVE  TInv' /\ Running'
  <1> USE DEF input, shared
  <1>1. UNCHANGED <<ops, curr, table, elock, cur>>
    BY DEF ScanKey, ScanId, ScanCmp, GetHit
  <1>2. PICK l \in {"scan_key", "scan_cmp", "scan_id", "get", "del", "get_data"} : Goto(t, l)
    BY DEF ScanKey, ScanId, ScanCmp, GetHit, AfterScan
  <1>3. \/ UNCHANGED <<ctr, entry>>
        \/ /\ ctr' = [ctr EXCEPT ![t] = (ctr[t] + 1) % TableSize]
           /\ entry' = [entry EXCEPT ![t] = (ctr[t] + 1) % TableSize]
    BY DEF ScanKey, ScanId, ScanCmp, GetHit
  <1>4. TableTyped'
    <2>1. ctr[t] \in Slots  BY DEF TInv, TableTyped
    <2>2. (ctr[t] + 1) % TableSize \in Slots  BY <2>1, NextInTable
    <2> QED  BY <1>1, <1>3, <2>2 DEF TInv, TableTyped
  <1>5. pc'[t] = l /\ OthersSame(t)  BY <1>1, <1>2, <1>3, GotoOthers DEF TInv, TableTyped
  <1>6. pc[t] # "ins_key"  BY DEF ScanKey, ScanId, ScanCmp, GetHit
  <1> QED  BY <1>1, <1>4, <1>5, <1>6, QuietKeeps DEF Holding

LEMMA ReturnKeeps ==
    ASSUME TInv, Running, IInv', NEW t \in Threads, NEW ret, NEW data, Return(t, ret, data),
           UNCHANGED <<ops, curr, table, elock, cur, ctr, entry>>, pc[t] # "ins_key"
    PROVE  TInv' /\ Running'
  <1>1. pc'[t] = "done" /\ OthersSame(t)  BY GotoOthers DEF TInv, Return
  <1>2. TableTyped'  BY DEF TInv, TableTyped
  <1> QED  BY <1>1, <1>2, QuietKeeps DEF Holding

(* read_op: t gets an operation, or the end of the input, or waits. *)
LEMMA StartKeeps ==
    ASSUME TInv, Running, IInv', NEW t \in Threads, ReadOp(t) \/ Recheck(t)
    PROVE  TInv' /\ Running'
  <1> USE DEF input, shared
  <1>1. /\ pc[t] \in {"read", "woken"} /\ UNCHANGED <<ops, table, elock>>
        /\ \/ Goto(t, "wait") /\ UNCHANGED <<ctr, entry>>
           \/ Dispatch(t, cur'[t])
        /\ \A u \in Threads \ {t} : cur'[u] = cur[u]
        /\ curr' \in 1 .. Len(ops) + 1
    BY DEF ReadOp, Recheck, TInv, TableTyped, IInv, Typed
  <1>2. pc[t] # "ins_key"  BY <1>1
  <1>3. CASE Goto(t, "wait") /\ UNCHANGED <<ctr, entry>>
    <2>1. pc'[t] = "wait" /\ OthersSame(t)  BY <1>1, <1>3, GotoOthers DEF TInv
    <2>2. TableTyped'  BY <1>1, <1>3 DEF TInv, TableTyped
    <2> QED  BY <1>1, <1>2, <2>1, <2>2, QuietKeeps DEF Holding
  <1>4. CASE Dispatch(t, cur'[t])
    <2>1. PICK l \in {"insert", "scan_key"} : Goto(t, l)  BY <1>4 DEF Dispatch
    <2>2. /\ ctr' = [ctr EXCEPT ![t] = hashfunc(ops[cur'[t]].key)]
          /\ entry' = [entry EXCEPT ![t] = hashfunc(ops[cur'[t]].key)]
      BY <1>4 DEF Dispatch
    <2>3. pc'[t] = l /\ OthersSame(t)
      BY <1>1, <2>1, <2>2, GotoOthers DEF TInv, TableTyped
    <2>4. hashfunc(ops[cur'[t]].key) \in Slots
      <3>1. cur'[t] \in 1 .. Len(ops)
        BY <1>1, <2>3 DEF IInv, Typed, Turns, Work
      <3> QED  BY <3>1, HashInTable DEF TInv, TableTyped, Op
    <2>5. TableTyped'  BY <1>1, <2>2, <2>4 DEF TInv, TableTyped
    <2>6. Knows(t)'
      BY <1>1, <2>2, <2>3, <2>4 DEF Knows, hashval, KeyOf, TInv, TableTyped
    <2>7. ChangesEntry(t)  BY <1>1, <1>2, <2>3, SameEntry
    <2> QED  BY <1>1, <2>3, <2>5, <2>6, <2>7, StepKeeps DEF Holding
  <1> QED  BY <1>1, <1>3, <1>4

-------------------------------------------------------------------------------
(* Distances along a walk. *)
LEMMA Distances ==
    ASSUME NEW k \in Nat, NEW c \in Slots
    PROVE  /\ Distance(k, c) \in 0 .. TableSize - 1
           /\ \A r \in Slots : Distance(k, r) = Distance(k, c) => r = c
           /\ (c + 1) % TableSize \in Slots
           /\ Distance(k, (c + 1) % TableSize) \in {0, Distance(k, c) + 1}
           /\ c = (hashfunc(k) - 1) % UIntMod => Distance(k, c) = TableSize - 1
  <1> DEFINE h == hashfunc(k)
  <1>1. h \in Slots  BY HashInTable
  <1>2. \A s : Distance(k, s) = IF h <= s THEN s - h ELSE s - h + TableSize  BY DEF Distance
  <1>3. (c + 1) % TableSize = IF c = TableSize - 1 THEN 0 ELSE c + 1  BY NextSlot
  <1>4. (h - 1) % UIntMod = IF h = 0 THEN UIntMod - 1 ELSE h - 1  BY <1>1, LastSlotIs
  <1> HIDE DEF h
  <1>5. /\ Distance(k, c) \in 0 .. TableSize - 1
        /\ \A r \in Slots : Distance(k, r) = Distance(k, c) => r = c
    BY <1>1, <1>2, ParametersAssumption DEF Slots
  <1>6. (c + 1) % TableSize \in Slots
    BY <1>3, ParametersAssumption DEF Slots
  <1>7. Distance(k, (c + 1) % TableSize) \in {0, Distance(k, c) + 1}
    <2>1. CASE c = TableSize - 1
      <3>1. (c + 1) % TableSize = 0  BY <2>1, <1>3
      <3> QED  BY <3>1, <2>1, <1>1, <1>2, ParametersAssumption DEF Slots
    <2>2. CASE c # TableSize - 1
      <3>1. (c + 1) % TableSize = c + 1  BY <2>2, <1>3
      <3> QED  BY <3>1, <2>2, <1>1, <1>2, ParametersAssumption DEF Slots
    <2> QED  BY <2>1, <2>2
  <1>8. c = (h - 1) % UIntMod => Distance(k, c) = TableSize - 1
    BY <1>1, <1>2, <1>4, ParametersAssumption DEF Slots
  <1> QED  BY <1>5, <1>6, <1>7, <1>8 DEF h

(* t stores to its entry, or takes or gives back its lock. *)
LEMMA EntryStep ==
    ASSUME TInv, NEW t \in Threads, OthersSame(t), NEW e, NEW x,
           table' = [table EXCEPT ![entry[t]] = e], elock' = [elock EXCEPT ![entry[t]] = x],
           elock[entry[t]] \in {None, t},
           \A s \in Slots : s = entry[t] /\ Taken(s) => Taken(s)',
           e.key # table[entry[t]].key =>
               \/ e.key = 0
               \/ /\ pc[t] \in Work /\ e.key = KeyOf(t)
                  /\ Absent(KeyOf(t)) /\ Reachable(KeyOf(t), entry[t])
    PROVE  ChangesEntry(t)
  <1>1. entry[t] \in Slots /\ table'[entry[t]] = e
        /\ \A s \in Slots \ {entry[t]} : table'[s] = table[s] /\ elock'[s] = elock[s]
    BY DEF TInv, TableTyped
  <1>2. ASSUME NEW s \in Slots \ {entry[t]}, Taken(s) PROVE Taken(s)'
    BY <1>1, <1>2 DEF Taken, OthersSame
  <1>3. \A s \in Slots : Taken(s) => Taken(s)'
    <2> SUFFICES ASSUME NEW s \in Slots, Taken(s) PROVE Taken(s)'  OBVIOUS
    <2> QED  BY <1>2
  <1> QED  BY <1>1, <1>3 DEF ChangesEntry

-------------------------------------------------------------------------------
(* The walks of insert_update. *)
LEMMA BeginKeeps ==
    ASSUME TInv, Running, IInv', NEW t \in Threads, InsertBegin(t)
    PROVE  TInv' /\ (Running' \/ Aborted')
  <1> USE DEF input, shared
  <1>1. pc[t] = "insert" /\ UNCHANGED <<ops, curr, table, elock, cur, ctr, entry>>
    BY DEF InsertBegin
  <1>2. TableTyped'  BY <1>1 DEF TInv, TableTyped
  <1>3. CASE used < TableSize
    <2>1. pc'[t] = "walk" /\ OthersSame(t)  BY <1>1, <1>3, GotoOthers DEF InsertBegin, TInv
    <2>2. ChangesEntry(t)  BY <1>1, <2>1, SameEntry
    <2>3. KeyOf(t) \in Nat /\ ctr[t] = hashval(t) /\ entry[t] = ctr[t]
      BY <1>1, KeysAre DEF Running, Knows, Work
    <2>4. Distance(KeyOf(t), ctr[t]) = 0
      BY <2>3, KeysAre, HashInTable DEF Distance, hashval, Slots
    <2>5. \A s \in Slots : 0 <= Distance(KeyOf(t), s)  BY <2>3, Distances DEF Slots
    <2>6. Reachable(KeyOf(t), ctr[t])'
      <3> SUFFICES ASSUME NEW r \in Slots, Distance(KeyOf(t), r) < Distance(KeyOf(t), ctr[t])
                   PROVE  FALSE
        BY <1>1 DEF Reachable, KeyOf, Distance, hashfunc
      <3>1. Distance(KeyOf(t), r) \in 0 .. TableSize - 1  BY <2>3, Distances
      <3> QED  BY <3>1, <2>4
    <2>7. Knows(t)'  BY <1>1, <2>1, <2>3, <2>4, <2>5, <2>6 DEF Knows, KeyOf
    <2> QED  BY <1>1, <1>2, <2>1, <2>2, <2>7, StepKeeps DEF Holding
  <1>4. CASE ~(used < TableSize)
    <2>1. Aborted'  BY <1>4 DEF InsertBegin, Aborted
    <2>2. NoDuplicateKeys'  BY <1>1 DEF TInv, NoDuplicateKeys
    <2> QED  BY <1>2, <2>1, <2>2 DEF TInv
  <1> QED  BY <1>3, <1>4

(* Nobody stores to an entry whose lock is free. *)
LEMMA FreeEntry ==
    ASSUME TInv, Running, NEW t \in Threads, elock[entry[t]] = None,
           table[entry[t]].key = 0, table[entry[t]].id # Tomb
    PROVE  ~Taken(entry[t])
  BY ParametersAssumption DEF Taken, Running, Locked, Holding

(* What a walk has seen when it stops at an entry with another key or none. *)
LEMMA WalkedPast ==
    ASSUME TInv, Running, NEW t \in Threads, pc[t] = "walk", elock[entry[t]] = None,
           table[entry[t]].key # KeyOf(t), ~Passes1(t)
    PROVE  Absent(KeyOf(t))
  <1> DEFINE k == KeyOf(t)
             c == ctr[t]
  <1>1. k \in Nat \ {0} /\ c \in Slots /\ entry[t] = c
    BY KeysAre DEF Running, Knows, TInv, TableTyped, Work
  <1>2. \A s \in Slots : table[s].key = k => Distance(k, c) <= Distance(k, s)
    BY DEF Running, Knows
  <1> SUFFICES ASSUME NEW s \in Slots, table[s].key = k PROVE FALSE  BY DEF Absent
  <1>3. s # c  BY <1>1
  <1>4. Distance(k, c) < Distance(k, s) /\ Distance(k, s) <= TableSize - 1
    <2>1. /\ Distance(k, c) \in 0 .. TableSize - 1 /\ Distance(k, s) \in 0 .. TableSize - 1
          /\ Distance(k, s) # Distance(k, c)
      BY <1>1, <1>3, Distances
    <2> QED  BY <2>1, <1>2
  <1>5. c # LastSlot(t)
    <2> SUFFICES ASSUME c = LastSlot(t) PROVE FALSE  OBVIOUS
    <2>1. Distance(k, c) = TableSize - 1  BY <1>1, Distances DEF LastSlot, hashval
    <2>2. Distance(k, s) \in 0 .. TableSize - 1  BY <1>1, Distances
    <2> QED  BY <2>1, <2>2, <1>4, ParametersAssumption
  <1>6. table[c].key = 0 /\ table[c].id # Tomb  BY <1>1, <1>5 DEF Passes1
  <1>7. Reachable(k, s)  BY <1>1 DEF Running, Chains
  <1>8. Taken(c)  BY <1>1, <1>4, <1>7 DEF Reachable
  <1> QED  BY <1>1, <1>6, <1>8, FreeEntry

(* ... and when the first walk gives way to the second. *)
LEMMA WalkedRound ==
    ASSUME TInv, Running, NEW t \in Threads, pc[t] = "walk", ctr[t] = LastSlot(t), Passes2(t)
    PROVE  Absent(KeyOf(t)) /\ \A s \in Slots : Taken(s)
  <1> DEFINE k == KeyOf(t)
             c == ctr[t]
  <1>1. k \in Nat \ {0} /\ c \in Slots /\ entry[t] = c
    BY KeysAre DEF Running, Knows, TInv, TableTyped, Work
  <1>2. Distance(k, c) = TableSize - 1  BY <1>1, Distances DEF LastSlot, hashval
  <1>3. \A s \in Slots : s # c => Distance(k, s) < Distance(k, c)
    <2> SUFFICES ASSUME NEW s \in Slots, s # c PROVE Distance(k, s) < Distance(k, c)  OBVIOUS
    <2>1. Distance(k, s) \in 0 .. TableSize - 1 /\ Distance(k, s) # Distance(k, c)
      BY <1>1, Distances
    <2> QED  BY <2>1, <1>2, ParametersAssumption
  <1>4. Reachable(k, c) /\ \A s \in Slots : table[s].key = k => Distance(k, c) <= Distance(k, s)
    BY <1>1 DEF Running, Knows
  <1>5. table[c].key # 0 /\ table[c].key # k  BY <1>1 DEF Passes2
  <1>6. \A s \in Slots : Taken(s)  BY <1>3, <1>4, <1>5 DEF Reachable, Taken
  <1>7. Absent(k)
    <2> SUFFICES ASSUME NEW s \in Slots, table[s].key = k PROVE FALSE  BY DEF Absent
    <2>1. s # c  BY <1>5
    <2>2. Distance(k, s) < Distance(k, c) /\ Distance(k, c) <= Distance(k, s)
      BY <2>1, <1>3, <1>4
    <2>3. Distance(k, s) \in Int /\ Distance(k, c) \in Int
      <3>1. \A r \in Slots : Distance(k, r) \in 0 .. TableSize - 1  BY <1>1, Distances
      <3> QED  BY <3>1, <1>1
    <2> QED  BY <2>2, <2>3
  <1> QED  BY <1>6, <1>7

(* The walk ends here: t takes the lock of the entry. *)
LEMMA StopKeeps ==
    ASSUME TInv, Running, IInv', NEW t \in Threads, pc[t] \in {"walk", "walk2"},
           elock[entry[t]] = None, StopHere(t), UNCHANGED <<ops, curr, table, cur>>,
           table[entry[t]].key # KeyOf(t) => Absent(KeyOf(t))
    PROVE  TInv' /\ Running'
  <1> DEFINE l == IF table[entry[t]].key = KeyOf(t) THEN "update" ELSE "ins_id"
  <1>1. /\ elock' = [elock EXCEPT ![entry[t]] = t] /\ Goto(t, l)
        /\ UNCHANGED <<ctr, entry>> /\ entry[t] \in Slots
    BY DEF StopHere, TInv, TableTyped
  <1>2. pc'[t] = l /\ OthersSame(t)  BY <1>1, GotoOthers DEF TInv
  <1>3. TableTyped'  BY <1>1 DEF TInv, TableTyped
  <1>4. ChangesEntry(t)
    <2>1. table' = [table EXCEPT ![entry[t]] = table[entry[t]]]  BY DEF TInv, TableTyped
    <2>2. \A s \in Slots : Taken(s) => Taken(s)'  BY <1>2 DEF Taken, OthersSame
    <2> QED  BY <1>1, <1>2, <2>1, <2>2, EntryStep
  <1>5. table[entry[t]].key # KeyOf(t) => Reachable(KeyOf(t), entry[t])
    <2>1. CASE pc[t] = "walk"  BY <2>1 DEF Running, Knows
    <2>2. CASE pc[t] = "walk2"  BY <2>2 DEF Running, Knows, Reachable
    <2> QED  BY <2>1, <2>2
  <1>6. table[entry[t]].key # KeyOf(t) => Reachable(KeyOf(t), entry[t])'
    BY <1>1, <1>4, <1>5 DEF ChangesEntry, Reachable, KeyOf, Distance, hashfunc
  <1>7. KeyOf(t)' = KeyOf(t)  BY DEF KeyOf
  <1>8. Knows(t)'  BY <1>1, <1>2, <1>6, <1>7 DEF Knows, Absent, Reachable
  <1>9. elock'[entry'[t]] = t /\ pc'[t] # "aborted"
    BY <1>1, <1>2 DEF TInv, TableTyped
  <1> QED  BY <1>2, <1>3, <1>4, <1>8, <1>9, StepKeeps

(* The walk goes on to the slot behind c. *)
LEMMA MoveKeeps ==
    ASSUME TInv, Running, IInv', NEW t \in Threads, pc[t] \in {"walk", "walk2"},
           NEW c \in Slots, NEW l \in {"walk", "walk2"}, MoveOn(t, c, l),
           UNCHANGED <<ops, curr, table, cur>>,
           l = "walk" => pc[t] = "walk" /\ c = ctr[t] /\ Passes1(t),
           l = "walk2" => Absent(KeyOf(t)) /\ \A s \in Slots : Taken(s)
    PROVE  TInv' /\ Running'
  <1> DEFINE k == KeyOf(t)
             d == (c + 1) % TableSize
  <1>1. /\ ctr' = [ctr EXCEPT ![t] = d] /\ entry' = [entry EXCEPT ![t] = d]
        /\ Goto(t, l) /\ UNCHANGED elock
    BY DEF MoveOn
  <1>2. k \in Nat \ {0} /\ KeyOf(t)' = k  BY KeysAre DEF Work, KeyOf
  <1>3. d \in Slots /\ Distance(k, d) \in {0, Distance(k, c) + 1}  BY <1>2, Distances
  <1>4. pc'[t] = l /\ OthersSame(t)  BY <1>1, GotoOthers DEF TInv, TableTyped
  <1>5. TableTyped'  BY <1>1, <1>3 DEF TInv, TableTyped
  <1>6. ChangesEntry(t)  BY <1>1, <1>4, SameEntry
  <1>7. ctr'[t] = d /\ entry'[t] = d  BY <1>1 DEF TInv, TableTyped
  <1>8. Knows(t)'
    <2>1. CASE l = "walk2"
      <3>1. \A s \in Slots : Taken(s)'  BY <2>1, <1>6 DEF ChangesEntry
      <3> QED  BY <2>1, <3>1, <1>2, <1>4 DEF Knows, Absent
    <2>2. CASE l = "walk"
      <3>1. /\ entry[t] = c /\ Reachable(k, c)
            /\ \A s \in Slots : table[s].key = k => Distance(k, c) <= Distance(k, s)
        BY <2>2 DEF Running, Knows
      <3>2. Taken(c) /\ table[c].key # k  BY <2>2, <3>1 DEF Passes1, Taken
      <3>3. /\ d \in Slots /\ Distance(k, d) \in {0, Distance(k, c) + 1}
            /\ \A s \in Slots : Distance(k, s) \in Nat
            /\ \A s \in Slots : Distance(k, s) = Distance(k, c) => s = c
        BY <1>2, <1>3, Distances
      <3> HIDE DEF k, d
      <3>4. ASSUME NEW r \in Slots, Distance(k, r) < Distance(k, d) PROVE Taken(r)
        <4>1. Distance(k, r) < Distance(k, c) \/ Distance(k, r) = Distance(k, c)
          BY <3>3, <3>4
        <4> QED  BY <4>1, <3>1, <3>2, <3>3 DEF Reachable
      <3>5. ASSUME NEW s \in Slots, table[s].key = k PROVE Distance(k, d) <= Distance(k, s)
        <4>1. Distance(k, c) # Distance(k, s) /\ Distance(k, c) <= Distance(k, s)
          BY <3>1, <3>2, <3>3, <3>5
        <4> QED  BY <4>1, <3>3
      <3>6. \A r \in Slots : Distance(k, r) < Distance(k, d) => Taken(r)'
        BY <3>4, <1>6 DEF ChangesEntry
      <3>7. Reachable(KeyOf(t), ctr[t])'
        BY <3>6, <1>2, <1>7 DEF Reachable, Distance, hashfunc
      <3>8. (\A s \in Slots : table[s].key = KeyOf(t)
                => Distance(KeyOf(t), ctr[t]) <= Distance(KeyOf(t), s))'
        BY <3>5, <1>2, <1>7 DEF Distance, hashfunc
      <3> QED  BY <2>2, <3>7, <3>8, <1>4, <1>7 DEF Knows
    <2> QED  BY <2>1, <2>2
  <1> QED  BY <1>4, <1>5, <1>6, <1>8, StepKeeps DEF Holding

LEMMA WalkKeeps ==
    ASSUME TInv, Running, IInv', NEW t \in Threads, Walk1(t) \/ Walk2(t)
    PROVE  TInv' /\ Running'
  <1> USE DEF input
  <1>0. /\ UNCHANGED <<ops, curr, table, cur>> /\ elock[entry[t]] = None
        /\ pc[t] \in {"walk", "walk2"} /\ ctr[t] \in Slots
    BY DEF Walk1, Walk2, TInv, TableTyped
  <1>1. CASE Walk1(t)
    <2>1. CASE Passes1(t)  BY <2>1, <1>0, <1>1, MoveKeeps DEF Walk1
    <2>2. CASE ~Passes1(t) /\ ctr[t] = LastSlot(t) /\ Passes2(t)
      <3>1. hashval(t) \in Slots  BY <1>0, KeysAre DEF Work
      <3> QED  BY <2>2, <3>1, <1>0, <1>1, MoveKeeps, WalkedRound DEF Walk1
    <2>3. CASE ~Passes1(t) /\ ~(ctr[t] = LastSlot(t) /\ Passes2(t))
      BY <2>3, <1>0, <1>1, StopKeeps, WalkedPast DEF Walk1
    <2> QED  BY <2>1, <2>2, <2>3
  <1>2. CASE Walk2(t)
    <2>1. pc[t] = "walk2" /\ Absent(KeyOf(t)) /\ \A s \in Slots : Taken(s)
      BY <1>2 DEF Walk2, Running, Knows
    <2> QED  BY <2>1, <1>0, <1>2, MoveKeeps, StopKeeps DEF Walk2
  <1> QED  BY <1>1, <1>2

-------------------------------------------------------------------------------
(* The stores under an entry's lock, and purge_key taking the lock. *)
LEMMA HeldTaken ==
    ASSUME TInv, Running, NEW t \in Threads, elock[entry[t]] \in {None, t}, pc[t] # "ins_key",
           Taken(entry[t])
    PROVE  table[entry[t]].key # 0 \/ table[entry[t]].id = Tomb
  BY ParametersAssumption DEF Taken, Running, Locked, Holding

(* t makes its entry e, leaves its lock to x and goes to l. *)
Stores(t, l, e, x) ==
    /\ Goto(t, l) /\ UNCHANGED <<ops, curr, cur, ctr, entry>>
    /\ e \in [id : Nat, key : Nat, data : Nat] /\ x \in {t, None}
    /\ table' = [table EXCEPT ![entry[t]] = e] /\ elock' = [elock EXCEPT ![entry[t]] = x]
    /\ elock[entry[t]] \in {None, t} /\ (l \in Holding => x = t)
    /\ l \notin {"insert", "walk", "walk2", "ins_id", "aborted"}
    /\ Taken(entry[t]) => e.key # 0 \/ e.id = Tomb \/ l = "ins_key"
    /\ e.key # table[entry[t]].key =>
          \/ e.key = 0
          \/ /\ pc[t] \in Work /\ e.key = KeyOf(t)
             /\ Absent(KeyOf(t)) /\ Reachable(KeyOf(t), entry[t])
    /\ l = "ins_key" => /\ Reachable(KeyOf(t), entry[t]) /\ Absent(KeyOf(t))
                        /\ e.key = table[entry[t]].key
    /\ l \in {"update", "del_id", "del_key"} => e.key = KeyOf(t)
    /\ l = "del_key" => e.id = Tomb

LEMMA StoreKeeps ==
    ASSUME TInv, Running, IInv', NEW t \in Threads, NEW l, NEW e, NEW x, Stores(t, l, e, x)
    PROVE  TInv' /\ Running'
  <1> USE DEF Stores
  <1>1. pc'[t] = l /\ OthersSame(t)  BY GotoOthers DEF TInv
  <1>2. /\ entry[t] \in Slots /\ table'[entry[t]] = e /\ elock'[entry[t]] = x
        /\ \A s \in Slots \ {entry[t]} : table'[s] = table[s]
    BY DEF TInv, TableTyped
  <1>3. TableTyped'  BY DEF TInv, TableTyped
  <1>4. \A s \in Slots : s = entry[t] /\ Taken(s) => Taken(s)'  BY <1>1, <1>2 DEF Taken
  <1>5. ChangesEntry(t)  BY <1>1, <1>4, EntryStep
  <1>6. KeyOf(t)' = KeyOf(t)  BY DEF KeyOf
  <1>7. l = "ins_key" => Absent(KeyOf(t))'  BY <1>2, <1>6 DEF Absent
  <1>8. l = "ins_key" => Reachable(KeyOf(t), entry[t])'
    BY <1>5, <1>6 DEF ChangesEntry, Reachable, Distance, hashfunc
  <1>9. Knows(t)'  BY <1>1, <1>2, <1>6, <1>7, <1>8 DEF Knows
  <1> QED  BY <1>1, <1>2, <1>3, <1>5, <1>9, StepKeeps

LEMMA InsertKeeps ==
    ASSUME TInv, Running, IInv', NEW t \in Threads,
           Update(t) \/ InsertId(t) \/ InsertKey(t) \/ InsertData(t)
    PROVE  TInv' /\ Running'
  <1> USE DEF input
  <1> DEFINE old == table[entry[t]]
  <1>1. /\ pc[t] \in {"update", "ins_id", "ins_key", "ins_data"} /\ elock[entry[t]] = t
        /\ UNCHANGED <<ops, curr, cur, ctr, entry>> /\ entry[t] \in Slots
        /\ old \in [id : Nat, key : Nat, data : Nat]
        /\ elock = [elock EXCEPT ![entry[t]] = t]
    BY DEF Update, InsertId, InsertKey, InsertData, Running, Locked, Holding, TInv, TableTyped
  <1>2. cur[t] \in Nat /\ KeyOf(t) \in Nat \ {0}  BY <1>1, KeysAre DEF Work
  <1>3. Knows(t)  BY DEF Running
  <1>4. CASE Update(t)
    <2> DEFINE e == [old EXCEPT !.id = cur[t], !.data = cur[t]]
    <2>1. e \in [id : Nat, key : Nat, data : Nat] /\ e.key = old.key /\ e.key = KeyOf(t)
      BY <1>1, <1>2, <1>3, <1>4 DEF Knows, Update
    <2>2. table' = [table EXCEPT ![entry[t]] = e]  BY <1>1, <1>4 DEF Update
    <2>3. Goto(t, "done") /\ elock' = [elock EXCEPT ![entry[t]] = None]
      BY <1>4 DEF Update, Return, Unlock
    <2>4. Stores(t, "done", e, None)
      BY <1>1, <1>2, <2>1, <2>2, <2>3 DEF Stores, Holding
    <2> QED  BY <2>4, StoreKeeps
  <1>5. CASE InsertId(t)
    <2> DEFINE e == [old EXCEPT !.id = cur[t]]
    <2>1. e \in [id : Nat, key : Nat, data : Nat] /\ e.key = old.key  BY <1>1, <1>2
    <2>2. table' = [table EXCEPT ![entry[t]] = e]  BY <1>1, <1>5 DEF InsertId
    <2>3. Goto(t, "ins_key") /\ elock' = [elock EXCEPT ![entry[t]] = t] /\ pc[t] = "ins_id"
      BY <1>1, <1>5 DEF InsertId
    <2>4. Reachable(KeyOf(t), entry[t]) /\ Absent(KeyOf(t))  BY <1>3, <2>3 DEF Knows
    <2>5. Stores(t, "ins_key", e, t)
      BY <1>1, <2>1, <2>2, <2>3, <2>4 DEF Stores, Holding
    <2> QED  BY <2>5, StoreKeeps
  <1>6. CASE InsertKey(t)
    <2> DEFINE e == [old EXCEPT !.key = KeyOf(t)]
    <2>1. e \in [id : Nat, key : Nat, data : Nat] /\ e.key = KeyOf(t)  BY <1>1, <1>2
    <2>2. table' = [table EXCEPT ![entry[t]] = e]  BY <1>1, <1>6 DEF InsertKey
    <2>3. Goto(t, "ins_data") /\ elock' = [elock EXCEPT ![entry[t]] = t] /\ pc[t] = "ins_key"
      BY <1>1, <1>6 DEF InsertKey
    <2>4. Reachable(KeyOf(t), entry[t]) /\ Absent(KeyOf(t)) /\ pc[t] \in Work
      BY <1>3, <2>3 DEF Knows, Work
    <2>5. Stores(t, "ins_data", e, t)
      BY <1>1, <1>2, <2>1, <2>2, <2>3, <2>4 DEF Stores, Holding
    <2> QED  BY <2>5, StoreKeeps
  <1>7. CASE InsertData(t)
    <2> DEFINE e == [old EXCEPT !.data = cur[t]]
    <2>1. e \in [id : Nat, key : Nat, data : Nat] /\ e.key = old.key /\ e.id = old.id
      BY <1>1, <1>2
    <2>2. table' = [table EXCEPT ![entry[t]] = e]  BY <1>1, <1>7 DEF InsertData
    <2>3. Goto(t, "ins_used") /\ elock' = [elock EXCEPT ![entry[t]] = None] /\ pc[t] = "ins_data"
      BY <1>7 DEF InsertData, Unlock
    <2>4. Taken(entry[t]) => e.key # 0 \/ e.id = Tomb  BY <1>1, <2>1, <2>3, HeldTaken
    <2>5. Stores(t, "ins_used", e, None)
      BY <1>1, <2>1, <2>2, <2>3, <2>4 DEF Stores, Holding
    <2> QED  BY <2>5, StoreKeeps
  <1> QED  BY <1>4, <1>5, <1>6, <1>7

LEMMA PurgeKeeps ==
    ASSUME TInv, Running, IInv', NEW t \in Threads,
           PurgeHit(t) \/ PurgeId(t) \/ PurgeKey(t) \/ PurgeData(t)
    PROVE  TInv' /\ Running'
  <1> USE DEF input
  <1> DEFINE old == table[entry[t]]
  <1>1. /\ pc[t] \in {"del", "del_id", "del_key", "del_data"} /\ elock[entry[t]] \in {None, t}
        /\ UNCHANGED <<ops, curr, cur, ctr, entry>> /\ entry[t] \in Slots
        /\ old \in [id : Nat, key : Nat, data : Nat]
        /\ (pc[t] # "del" => elock = [elock EXCEPT ![entry[t]] = t])
    BY DEF PurgeHit, PurgeId, PurgeKey, PurgeData, Running, Locked, Holding, TInv, TableTyped
  <1>2. KeyOf(t) \in Nat \ {0} /\ Tomb \in Nat
    BY <1>1, KeysAre, ParametersAssumption DEF Work, Tomb
  <1>3. Knows(t)  BY DEF Running
  <1>4. Taken(entry[t]) => old.key # 0 \/ old.id = Tomb  BY <1>1, HeldTaken
  <1>5. CASE PurgeHit(t)
    <2>1. table' = [table EXCEPT ![entry[t]] = old] /\ old.key = KeyOf(t)
          /\ Goto(t, "del_id") /\ elock' = [elock EXCEPT ![entry[t]] = t]
      BY <1>1, <1>5 DEF PurgeHit, TInv, TableTyped
    <2>2. Stores(t, "del_id", old, t)  BY <1>1, <1>2, <2>1 DEF Stores, Holding
    <2> QED  BY <2>2, StoreKeeps
  <1>6. CASE PurgeId(t)
    <2> DEFINE e == [old EXCEPT !.id = Tomb]
    <2>1. e \in [id : Nat, key : Nat, data : Nat] /\ e.key = KeyOf(t) /\ e.key = old.key
          /\ e.id = Tomb
      BY <1>1, <1>2, <1>3, <1>6 DEF Knows, PurgeId
    <2>2. table' = [table EXCEPT ![entry[t]] = e]  BY <1>1, <1>6 DEF PurgeId
    <2>3. Goto(t, "del_key") /\ elock' = [elock EXCEPT ![entry[t]] = t]
      BY <1>1, <1>6 DEF PurgeId
    <2>4. Stores(t, "del_key", e, t)  BY <1>1, <1>2, <2>1, <2>2, <2>3 DEF Stores, Holding
    <2> QED  BY <2>4, StoreKeeps
  <1>7. CASE PurgeKey(t)
    <2> DEFINE e == [old EXCEPT !.key = 0]
    <2>1. e \in [id : Nat, key : Nat, data : Nat] /\ e.key = 0 /\ e.id = Tomb
      BY <1>1, <1>3, <1>7 DEF Knows, PurgeKey
    <2>2. table' = [table EXCEPT ![entry[t]] = e]  BY <1>1, <1>7 DEF PurgeKey
    <2>3. Goto(t, "del_data") /\ elock' = [elock EXCEPT ![entry[t]] = t]
      BY <1>1, <1>7 DEF PurgeKey
    <2>4. Stores(t, "del_data", e, t)
      BY <1>1, <1>2, <2>1, <2>2, <2>3 DEF Stores, Holding
    <2> QED  BY <2>4, StoreKeeps
  <1>8. CASE PurgeData(t)
    <2> DEFINE e == [old EXCEPT !.data = 0]
    <2>1. e \in [id : Nat, key : Nat, data : Nat] /\ e.key = old.key /\ e.id = old.id
      BY <1>1
    <2>2. table' = [table EXCEPT ![entry[t]] = e]  BY <1>1, <1>8 DEF PurgeData
    <2>3. Goto(t, "del_used") /\ elock' = [elock EXCEPT ![entry[t]] = None]
      BY <1>8 DEF PurgeData, Unlock
    <2>4. Stores(t, "del_used", e, None)
      BY <1>1, <1>2, <1>4, <2>1, <2>2, <2>3 DEF Stores, Holding
    <2> QED  BY <2>4, StoreKeeps
  <1> QED  BY <1>5, <1>6, <1>7, <1>8

-------------------------------------------------------------------------------
(* The remaining steps, which leave the table alone. *)
LEMMA RestKeeps ==
    ASSUME TInv, Running, IInv', NEW t \in Threads,
           EndOfInput(t) \/ SpuriousWakeup(t) \/ DoneOne(t)
    PROVE  TInv' /\ Running'
  <1> USE DEF input, shared
  <1>1. /\ UNCHANGED <<ops, curr, table, elock, cur, ctr, entry>> /\ pc[t] # "ins_key"
        /\ pc'[t] \in {"exit", "woken", "read"} /\ OthersSame(t)
    BY DEF EndOfInput, SpuriousWakeup, DoneOne, Goto, OthersSame, TInv, IInv, Typed
  <1>2. TableTyped'  BY <1>1 DEF TInv, TableTyped
  <1> QED  BY <1>1, <1>2, QuietKeeps DEF Holding

LEMMA ReturnsKeep ==
    ASSUME TInv, Running, IInv', NEW t \in Threads,
           GetMiss(t) \/ GetData(t) \/ InsertUsed(t) \/ PurgeMiss(t) \/ PurgeUsed(t)
    PROVE  TInv' /\ Running'
  <1> USE DEF input, shared
  <1>1. /\ UNCHANGED <<ops, curr, table, elock, cur, ctr, entry>> /\ pc[t] # "ins_key"
        /\ \E ret, data : Return(t, ret, data)
    BY DEF GetMiss, GetData, InsertUsed, PurgeMiss, PurgeUsed
  <1> QED  BY <1>1, ReturnKeeps

LEMMA ThreadKeeps ==
    ASSUME TInv, Running, IInv', NEW t \in Threads, process(t) \/ SpuriousWakeup(t)
    PROVE  TInv' /\ (Running' \/ Aborted')
  <1>1. CASE InsertBegin(t)  BY <1>1, BeginKeeps
  <1>2. CASE ReadOp(t) \/ Recheck(t)  BY <1>2, StartKeeps
  <1>3. CASE ScanKey(t) \/ ScanId(t) \/ ScanCmp(t) \/ GetHit(t)  BY <1>3, ScanKeeps
  <1>4. CASE Walk1(t) \/ Walk2(t)  BY <1>4, WalkKeeps
  <1>5. CASE Update(t) \/ InsertId(t) \/ InsertKey(t) \/ InsertData(t)  BY <1>5, InsertKeeps
  <1>6. CASE PurgeHit(t) \/ PurgeId(t) \/ PurgeKey(t) \/ PurgeData(t)  BY <1>6, PurgeKeeps
  <1>7. CASE GetMiss(t) \/ GetData(t) \/ InsertUsed(t) \/ PurgeMiss(t) \/ PurgeUsed(t)
    BY <1>7, ReturnsKeep
  <1>8. CASE EndOfInput(t) \/ SpuriousWakeup(t) \/ DoneOne(t)  BY <1>8, RestKeeps
  <1> QED  BY <1>1, <1>2, <1>3, <1>4, <1>5, <1>6, <1>7, <1>8
           DEF process, lookup, insert_update, purge_key

(* When an assert has failed, no thread takes a step. *)
LEMMA AbortedStays ==
    ASSUME Aborted, [Next]_vars
    PROVE  UNCHANGED vars
  <1>1. ASSUME NEW t \in Threads PROVE ~process(t) /\ ~SpuriousWakeup(t)
    <2>1. pc[t] = "aborted"  BY DEF Aborted
    <2>2. ~(lookup(t) \/ insert_update(t) \/ purge_key(t))
      BY <2>1 DEF lookup, GetMiss, GetHit, GetData,
                  insert_update, InsertBegin, Walk1, Walk2, Update,
                  InsertId, InsertKey, InsertData, InsertUsed,
                  purge_key, PurgeMiss, PurgeHit, PurgeId, PurgeKey, PurgeData, PurgeUsed
    <2>3. ~(ReadOp(t) \/ EndOfInput(t) \/ Recheck(t) \/ SpuriousWakeup(t) \/ DoneOne(t))
      BY <2>1 DEF ReadOp, EndOfInput, Recheck, SpuriousWakeup, DoneOne
    <2>4. ~(ScanKey(t) \/ ScanId(t) \/ ScanCmp(t))  BY <2>1 DEF ScanKey, ScanId, ScanCmp
    <2> QED  BY <2>2, <2>3, <2>4 DEF process
  <1> QED  BY <1>1 DEF Next, Ended

LEMMA StutterKeeps ==
    ASSUME TInv, UNCHANGED vars
    PROVE  TInv' /\ (Running => Running')
  <1> USE DEF vars
  <1>1. IInv'  BY StepIInv DEF TInv
  <1>2. TableTyped' /\ NoDuplicateKeys'  BY DEF TInv, TableTyped, NoDuplicateKeys
  <1>3. Aborted => Aborted'  BY DEF Aborted
  <1>4. Running => Running'
    <2> SUFFICES ASSUME Running PROVE Running'  OBVIOUS
    <2>1. Locked'  BY DEF Running, Locked
    <2>2. \A s : Taken(s)' <=> Taken(s)  BY DEF Taken
    <2>3. \A k, s : Reachable(k, s)' <=> Reachable(k, s)  BY <2>2 DEF Reachable
    <2>4. Chains'  BY <2>2 DEF Running, Chains, Reachable, Distance, hashfunc
    <2>5. /\ \A t : KeyOf(t)' = KeyOf(t) /\ hashval(t)' = hashval(t)
          /\ \A k : Absent(k)' <=> Absent(k)
      BY DEF KeyOf, hashval, Absent
    <2>6. \A t \in Threads : Knows(t)' /\ pc'[t] # "aborted"
      BY <2>2, <2>3, <2>5 DEF Running, Knows
    <2> QED  BY <2>1, <2>4, <2>6 DEF Running
  <1> QED  BY <1>1, <1>2, <1>3, <1>4 DEF TInv

LEMMA StepTInv == TInv /\ [Next]_vars => TInv'
  <1> SUFFICES ASSUME TInv, [Next]_vars PROVE TInv'  OBVIOUS
  <1>1. IInv'  BY StepIInv DEF TInv
  <1>2. CASE UNCHANGED vars  BY <1>2, StutterKeeps
  <1>3. CASE ~UNCHANGED vars
    <2>1. Running  BY <1>3, AbortedStays DEF TInv
    <2>2. PICK t \in Threads : process(t) \/ SpuriousWakeup(t)  BY <1>3 DEF Next, Ended
    <2> QED  BY <1>1, <2>1, <2>2, ThreadKeeps
  <1> QED  BY <1>2, <1>3

(***************************************************************************)
(* No key is ever in two entries, for any number of threads, any input and  *)
(* any table, full ones included (insert_update, parallel_hash.c:109-140).  *)
(***************************************************************************)
THEOREM NoDuplicates == Spec => []NoDuplicateKeys
  <1>1. TInv => NoDuplicateKeys  BY DEF TInv
  <1> QED  BY InitTInv, StepTInv, <1>1, PTL DEF Spec
-------------------------------------------------------------------------------
(***************************************************************************)
(* Part 3: the 8-byte add to the 4-byte counter never reaches the table    *)
(* pointer behind it.                                                      *)
(*                                                                         *)
(* The counter must not be found at zero by a deletion.  Insertions count  *)
(* themselves late, and deletions too; Counts leaves the entries of the    *)
(* first out and adds the threads of the second.  It is an inequality: a   *)
(* table that is too full may lose entries, never gain any.                *)
(***************************************************************************)
LEMMA WordSplits ==
    ASSUME NEW a \in Nat, NEW m \in Nat \ {0}, NEW r \in 0 .. m - 1
    PROVE  (a * m + r) % m = r /\ (a * m + r) \div m = a
  OBVIOUS

(* An operation has an outcome only when it is done: each counts once. *)
Pending == (Work \ {"done"}) \cup {"wait", "woken"}

Fresh ==
    /\ ops \in Programs /\ DOMAIN outcome \subseteq 1 .. curr - 1
    /\ \A t \in Threads : pc[t] \in Pending => cur[t] \notin DOMAIN outcome

Uncounted == {t \in Threads : pc[t] \in {"ins_data", "ins_used"}}
Removing  == {t \in Threads : pc[t] \in {"del_data", "del_used"}}
Counted   == {s \in Slots : table[s].key # 0 /\ \A t \in Uncounted : KeyOf(t) # table[s].key}

Counts ==
    /\ used \in Nat /\ used <= Cardinality(DOMAIN outcome)
    /\ Cardinality(Counted) + Cardinality(Removing) <= used

CInv == TInv /\ Fresh /\ TablePointerIntact /\ (Aborted \/ Counts)

-------------------------------------------------------------------------------
LEMMA InitCInv == Init => CInv
  <1> SUFFICES ASSUME Init PROVE CInv  OBVIOUS
  <1>1. TInv  BY InitTInv
  <1>2. DOMAIN outcome = {}  BY DEF Init
  <1>3. Fresh /\ TablePointerIntact  BY <1>2 DEF Init, Fresh, TablePointerIntact
  <1>4. Counted = {} /\ Removing = {}
    BY DEF Init, Counted, Removing, Slots
  <1>5. Counts  BY <1>2, <1>4, FS_EmptySet DEF Init, Counts
  <1> QED  BY <1>1, <1>3, <1>5 DEF CInv

-------------------------------------------------------------------------------
LEMMA FreshProceeds ==
    ASSUME TInv, Fresh, NEW t \in Threads, Proceeds(t)
    PROVE  Fresh'
  <1>1. PICK l \in Work :
            /\ Goto(t, l)
            /\ DOMAIN outcome' = DOMAIN outcome \cup (IF l = "done" THEN {cur[t]} ELSE {})
    BY DEF Proceeds
  <1>2. /\ UNCHANGED <<ops, curr, being, cur>> /\ pc[t] \in Work \ {"done"}
        /\ pc' = [pc EXCEPT ![t] = l] /\ pc \in [Threads -> Labels]
    BY <1>1 DEF Proceeds, Goto, TInv, IInv, Typed
  <1>3. cur[t] \in 1 .. curr - 1
    BY <1>2 DEF TInv, IInv, Typed, Turns
  <1>4. ASSUME NEW u \in Threads, pc'[u] \in Pending PROVE cur[u] \notin DOMAIN outcome'
    <2>1. pc[u] \in Pending  BY <1>2, <1>4 DEF Pending
    <2>2. CASE u = t  BY <2>1, <2>2, <1>1, <1>2, <1>4 DEF Fresh, Pending
    <2>3. CASE u # t
      <3>1. being[u] = cur[u] /\ being[t] = cur[t] /\ cur[t] # 0
        BY <1>2, <2>1 DEF TInv, IInv, Turns, Pending
      <3>2. cur[u] # cur[t]  BY <2>3, <3>1 DEF TInv, IInv, NoneTwice
      <3> QED  BY <2>1, <3>2, <1>1 DEF Fresh
    <2> QED  BY <2>2, <2>3
  <1> QED  BY <1>1, <1>2, <1>3, <1>4 DEF Fresh

LEMMA FreshStarts ==
    ASSUME TInv, Fresh, NEW t \in Threads, ReadOp(t) \/ Recheck(t)
    PROVE  Fresh'
  <1> USE DEF input, shared
  <1>1. /\ UNCHANGED <<ops, outcome>> /\ curr \in Nat \ {0} /\ curr' \in {curr, curr + 1}
        /\ pc \in [Threads -> Labels] /\ cur \in [Threads -> Nat]
        /\ \E l \in {"insert", "scan_key", "wait"} : pc' = [pc EXCEPT ![t] = l]
    BY DEF ReadOp, Recheck, Dispatch, Goto, TInv, IInv, Typed
  <1>2. cur'[t] \notin DOMAIN outcome /\ \A u \in Threads \ {t} : cur'[u] = cur[u]
    BY <1>1 DEF ReadOp, Recheck, Fresh, Pending
  <1> QED  BY <1>1, <1>2 DEF Fresh

(* Steps that take nobody into an operation. *)
LEMMA FreshIdles ==
    ASSUME Fresh, UNCHANGED <<ops, curr, cur, outcome>>,
           \A u \in Threads : pc'[u] \in Pending => pc[u] \in Pending
    PROVE  Fresh'
  BY DEF Fresh

LEMMA StepFresh == TInv /\ Fresh /\ [Next]_vars => Fresh'
  <1> SUFFICES ASSUME TInv, Fresh, [Next]_vars PROVE Fresh'  OBVIOUS
  <1> USE DEF input, shared
  <1>1. CASE UNCHANGED vars  BY <1>1, FreshIdles DEF vars
  <1>2. ASSUME NEW t \in Threads, process(t) \/ SpuriousWakeup(t) PROVE Fresh'
    <2>1. pc \in [Threads -> Labels]  BY DEF TInv, IInv, Typed
    <2>2. CASE ReadOp(t) \/ Recheck(t)  BY <2>2, FreshStarts
    <2>3. CASE EndOfInput(t) \/ SpuriousWakeup(t) \/ DoneOne(t)
      <3>1. UNCHANGED <<ops, curr, cur, outcome>>
        BY <2>3 DEF EndOfInput, SpuriousWakeup, DoneOne
      <3>2. \A u \in Threads : pc'[u] \in Pending => pc[u] \in Pending
        BY <2>1, <2>3 DEF EndOfInput, SpuriousWakeup, DoneOne, Goto, Pending, Work
      <3> QED  BY <3>1, <3>2, FreshIdles
    <2>4. CASE InsertBegin(t)
      <3>1. /\ UNCHANGED <<ops, curr, cur, outcome>>
            /\ \A u \in Threads : pc'[u] \in Pending => pc[u] \in Pending
        BY <2>1, <2>4 DEF InsertBegin, Goto, Pending, Work
      <3> QED  BY <3>1, FreshIdles
    <2>5. CASE ScanKey(t) \/ ScanId(t) \/ ScanCmp(t)  BY <2>5, ScanStep, FreshProceeds
    <2>6. CASE lookup(t)  BY <2>6, LookupStep, FreshProceeds
    <2>7. CASE insert_update(t) /\ ~InsertBegin(t)  BY <2>7, InsertStep, FreshProceeds
    <2>8. CASE purge_key(t)  BY <2>8, PurgeStep, FreshProceeds
    <2> QED  BY <1>2, <2>2, <2>3, <2>4, <2>5, <2>6, <2>7, <2>8 DEF process
  <1> QED  BY <1>1, <1>2 DEF Next, Ended

-------------------------------------------------------------------------------
(* What is counted is finite. *)
LEMMA FiniteSlots == \A S \in SUBSET Slots : IsFiniteSet(S)
  <1>1. IsFiniteSet(Slots)  BY FS_Interval, ParametersAssumption DEF Slots
  <1> QED  BY <1>1, FS_Subset

LEMMA FiniteThreads == \A S \in SUBSET Threads : IsFiniteSet(S)
  BY FS_Subset, ParametersAssumption

LEMMA FiniteOutcome ==
    ASSUME NEW p \in Programs, NEW c \in 1 .. Len(p) + 1, NEW D \in SUBSET (1 .. c - 1)
    PROVE  IsFiniteSet(D) /\ Cardinality(D) < UIntMod - 1
  <1>1. c - 1 \in Nat /\ c - 1 <= Len(p) /\ Len(p) \in Nat  BY ParametersAssumption
  <1>2. Len(p) < UIntMod - 1  BY ParametersAssumption
  <1>3. IsFiniteSet(1 .. c - 1) /\ Cardinality(1 .. c - 1) = c - 1
    <2>1. \A n \in Nat : IsFiniteSet(1 .. n) /\ Cardinality(1 .. n) = n
      <3> SUFFICES ASSUME NEW n \in Nat PROVE IsFiniteSet(1 .. n) /\ Cardinality(1 .. n) = n
        OBVIOUS
      <3>1. IsFiniteSet(1 .. n) /\ Cardinality(1 .. n) = IF 1 > n THEN 0 ELSE n - 1 + 1
        BY FS_Interval
      <3> QED  BY <3>1
    <2> QED  BY <1>1, <2>1
  <1>4. IsFiniteSet(D) /\ Cardinality(D) <= c - 1 /\ Cardinality(D) \in Nat
    BY <1>3, FS_Subset, FS_CardinalityType
  <1> QED  BY <1>1, <1>2, <1>4, ParametersAssumption

(* The counter stays, and nothing more is to be counted. *)
LEMMA CountsStay ==
    ASSUME TInv, Fresh, TInv', Fresh', Counts, UNCHANGED used, Counted' \subseteq Counted,
           Removing' \subseteq Removing, DOMAIN outcome \subseteq DOMAIN outcome'
    PROVE  Counts'
  <1>1. IsFiniteSet(Counted) /\ IsFiniteSet(Removing)
    BY FiniteSlots, FiniteThreads DEF Counted, Removing
  <1>2. IsFiniteSet(DOMAIN outcome')
    BY FiniteOutcome DEF TInv, TableTyped, Fresh
  <1>3. /\ Cardinality(Counted') <= Cardinality(Counted)
        /\ Cardinality(Removing') <= Cardinality(Removing)
        /\ Cardinality(DOMAIN outcome) <= Cardinality(DOMAIN outcome')
        /\ Cardinality(Counted') \in Nat /\ Cardinality(Removing') \in Nat
        /\ Cardinality(Counted) \in Nat /\ Cardinality(Removing) \in Nat
        /\ Cardinality(DOMAIN outcome) \in Nat /\ Cardinality(DOMAIN outcome') \in Nat
    BY <1>1, <1>2, FS_Subset, FS_CardinalityType
  <1> QED  BY <1>3 DEF Counts

(***************************************************************************)
(* A step that stores no key and neither begins nor ends an insertion or a  *)
(* deletion.                                                                *)
(***************************************************************************)
LEMMA QuietCounts ==
    ASSUME TInv, Fresh, TInv', Fresh', Counts, UNCHANGED <<ops, used>>,
           \A s \in Slots : table'[s].key = table[s].key,
           \A u \in Threads : u \in Uncounted => u \in Uncounted' /\ cur'[u] = cur[u],
           Removing' \subseteq Removing, DOMAIN outcome \subseteq DOMAIN outcome'
    PROVE  Counts'
  <1>1. \A u \in Uncounted : u \in Uncounted' /\ KeyOf(u)' = KeyOf(u)
    BY DEF Uncounted, KeyOf
  <1>2. Counted' \subseteq Counted  BY <1>1 DEF Counted
  <1> QED  BY <1>2, CountsStay

LEMMA AddOne ==
    ASSUME low = TableLow, used \in Nat, NEW d \in {-1, 1}, used + d \in 0 .. UIntMod - 1,
           AtomicAddUsed(d)
    PROVE  used' = used + d /\ low' = low
  <1>1. low * UIntMod + used + d = low * UIntMod + (used + d)
    BY ParametersAssumption
  <1>2. UIntMod \in Nat \ {0} /\ low \in Nat  BY ParametersAssumption
  <1> QED  BY <1>1, <1>2, WordSplits DEF AtomicAddUsed

-------------------------------------------------------------------------------
(* The steps that begin an insertion or a deletion, or end one. *)
LEMMA InsertKeyCounts ==
    ASSUME TInv, Running, Fresh, TInv', Fresh', Counts, NEW t \in Threads, InsertKey(t)
    PROVE  Counts'
  <1> USE DEF input
  <1>1. /\ pc[t] = "ins_key" /\ pc' = [pc EXCEPT ![t] = "ins_data"] /\ pc \in [Threads -> Labels]
        /\ table' = [table EXCEPT ![entry[t]].key = KeyOf(t)]
        /\ UNCHANGED <<ops, cur, used, outcome>>
    BY DEF InsertKey, Goto, TInv, IInv, Typed
  <1>2. t \in Uncounted' /\ KeyOf(t)' = KeyOf(t)  BY <1>1 DEF Uncounted, KeyOf
  <1>3. \A u \in Uncounted : u \in Uncounted' /\ KeyOf(u)' = KeyOf(u)
    BY <1>1 DEF Uncounted, KeyOf
  <1>4. \A s \in Slots \ {entry[t]} : table'[s] = table[s]
    BY <1>1 DEF TInv, TableTyped
  <1>5. table'[entry[t]].key = KeyOf(t)
    BY <1>1 DEF TInv, TableTyped
  <1>6. Counted' \subseteq Counted  BY <1>2, <1>3, <1>4, <1>5 DEF Counted
  <1>7. Removing' \subseteq Removing  BY <1>1 DEF Removing
  <1> QED  BY <1>1, <1>6, <1>7, CountsStay

LEMMA InsertUsedCounts ==
    ASSUME TInv, Fresh, TInv', Fresh', Counts, TablePointerIntact,
           NEW t \in Threads, InsertUsed(t)
    PROVE  Counts' /\ TablePointerIntact'
  <1> USE DEF input
  <1>1. /\ pc[t] = "ins_used" /\ pc' = [pc EXCEPT ![t] = "done"] /\ pc \in [Threads -> Labels]
        /\ UNCHANGED <<ops, cur, table>> /\ DOMAIN outcome' = DOMAIN outcome \cup {cur[t]}
        /\ AtomicAddUsed(1)
    BY DEF InsertUsed, Goto, Return, TInv, IInv, Typed
  <1>2. cur[t] \notin DOMAIN outcome  BY <1>1 DEF Fresh, Pending, Work
  <1>3. /\ IsFiniteSet(DOMAIN outcome)
        /\ Cardinality(DOMAIN outcome') = Cardinality(DOMAIN outcome) + 1
        /\ Cardinality(DOMAIN outcome) < UIntMod - 1 /\ Cardinality(DOMAIN outcome) \in Nat
    BY <1>1, <1>2, FiniteOutcome, FS_AddElement, FS_CardinalityType DEF TInv, TableTyped, Fresh
  <1>4. used \in Nat /\ used + 1 \in 0 .. UIntMod - 1
    BY <1>3, ParametersAssumption DEF Counts
  <1>5. used' = used + 1 /\ low' = low  BY <1>1, <1>4, AddOne DEF TablePointerIntact
  <1>6. Cardinality(Counted') <= Cardinality(Counted) + 1
    <2>1. \A u \in Uncounted \ {t} : u \in Uncounted' /\ KeyOf(u)' = KeyOf(u)
      BY <1>1 DEF Uncounted, KeyOf
    <2>2. \A s \in Counted' : s \in Counted \/ (table[s].key = KeyOf(t) /\ table[s].key # 0)
      BY <1>1, <2>1 DEF Counted
    <2>3. \E x : Counted' \subseteq Counted \cup {x}
      <3>1. CASE \E x \in Slots : table[x].key = KeyOf(t) /\ table[x].key # 0
        <4>1. PICK x \in Slots : table[x].key = KeyOf(t) /\ table[x].key # 0  BY <3>1
        <4>2. Counted' \subseteq Counted \cup {x}
          BY <2>2, <4>1 DEF TInv, NoDuplicateKeys, Counted
        <4> QED  BY <4>2
      <3>2. CASE ~ \E x \in Slots : table[x].key = KeyOf(t) /\ table[x].key # 0
        <4>1. Counted' \subseteq Counted  BY <2>2, <3>2 DEF Counted
        <4> QED  BY <4>1
      <3> QED  BY <3>1, <3>2
    <2>4. PICK x : Counted' \subseteq Counted \cup {x}  BY <2>3
    <2>5. IsFiniteSet(Counted)  BY FiniteSlots DEF Counted
    <2>6. /\ IsFiniteSet(Counted \cup {x}) /\ Cardinality(Counted) \in Nat
          /\ Cardinality(Counted \cup {x}) <= Cardinality(Counted) + 1
      <3>1. Cardinality(Counted) \in Nat  BY <2>5, FS_CardinalityType
      <3>2. /\ IsFiniteSet(Counted \cup {x})
            /\ Cardinality(Counted \cup {x}) =
                 IF x \in Counted THEN Cardinality(Counted) ELSE Cardinality(Counted) + 1
        BY <2>5, FS_AddElement
      <3> QED  BY <3>1, <3>2
    <2>7. IsFiniteSet(Counted') /\ Cardinality(Counted') <= Cardinality(Counted \cup {x})
      BY <2>4, <2>6, FS_Subset
    <2> QED  BY <2>6, <2>7, FS_CardinalityType
  <1>7. Removing' = Removing  BY <1>1 DEF Removing
  <1>8. /\ IsFiniteSet(Counted') /\ IsFiniteSet(Counted) /\ IsFiniteSet(Removing)
    BY FiniteSlots, FiniteThreads DEF Counted, Removing
  <1>9. /\ Cardinality(Counted') \in Nat /\ Cardinality(Counted) \in Nat
        /\ Cardinality(Removing) \in Nat
    BY <1>8, FS_CardinalityType
  <1>10. Counts'  BY <1>3, <1>4, <1>5, <1>6, <1>7, <1>9 DEF Counts
  <1> QED  BY <1>5, <1>10 DEF TablePointerIntact

LEMMA PurgeKeyCounts ==
    ASSUME TInv, Running, Fresh, Counts, NEW t \in Threads, PurgeKey(t)
    PROVE  Counts'
  <1> USE DEF input
  <1>1. /\ pc[t] = "del_key" /\ pc' = [pc EXCEPT ![t] = "del_data"] /\ pc \in [Threads -> Labels]
        /\ table' = [table EXCEPT ![entry[t]].key = 0] /\ entry[t] \in Slots
        /\ UNCHANGED <<ops, cur, used, outcome>>
    BY DEF PurgeKey, Goto, TInv, IInv, Typed, TableTyped
  <1>2. table[entry[t]].key = KeyOf(t) /\ KeyOf(t) # 0
    BY <1>1, KeysAre DEF Running, Knows, Work
  <1>3. \A u \in Uncounted : u \in Uncounted' /\ KeyOf(u)' = KeyOf(u)
    BY <1>1 DEF Uncounted, KeyOf
  <1>4. \A u \in Uncounted : KeyOf(u) # KeyOf(t)
    BY <1>1, Exclusive DEF Uncounted, Work
  <1>5. entry[t] \in Counted  BY <1>1, <1>2, <1>4 DEF Counted
  <1>6. Counted' \subseteq Counted \ {entry[t]}
    <2>1. \A s \in Slots \ {entry[t]} : table'[s] = table[s]  BY <1>1 DEF TInv, TableTyped
    <2>2. table'[entry[t]].key = 0  BY <1>1 DEF TInv, TableTyped
    <2> QED  BY <1>3, <2>1, <2>2 DEF Counted
  <1>7. t \notin Removing /\ Removing' = Removing \cup {t}  BY <1>1 DEF Removing
  <1>8. IsFiniteSet(Counted) /\ IsFiniteSet(Removing)
    BY FiniteSlots, FiniteThreads DEF Counted, Removing
  <1>9. /\ Cardinality(Counted \ {entry[t]}) = Cardinality(Counted) - 1
        /\ IsFiniteSet(Counted \ {entry[t]})
    BY <1>5, <1>8, FS_RemoveElement
  <1>10. Cardinality(Removing') = Cardinality(Removing) + 1
    BY <1>7, <1>8, FS_AddElement
  <1>11. IsFiniteSet(Counted') /\ Cardinality(Counted') <= Cardinality(Counted \ {entry[t]})
    BY <1>6, <1>9, FS_Subset
  <1>12. /\ Cardinality(Counted) \in Nat /\ Cardinality(Counted') \in Nat
         /\ Cardinality(Removing) \in Nat
    BY <1>8, <1>11, FS_CardinalityType
  <1> QED  BY <1>1, <1>9, <1>10, <1>11, <1>12 DEF Counts

LEMMA PurgeUsedCounts ==
    ASSUME TInv, Fresh, TInv', Fresh', Counts, TablePointerIntact,
           NEW t \in Threads, PurgeUsed(t)
    PROVE  Counts' /\ TablePointerIntact'
  <1> USE DEF input
  <1>1. /\ pc[t] = "del_used" /\ pc' = [pc EXCEPT ![t] = "done"] /\ pc \in [Threads -> Labels]
        /\ UNCHANGED <<ops, cur, table>> /\ DOMAIN outcome' = DOMAIN outcome \cup {cur[t]}
        /\ AtomicAddUsed(-1)
    BY DEF PurgeUsed, Goto, Return, TInv, IInv, Typed
  <1>2. Counted' = Counted
    <2>1. Uncounted' = Uncounted  BY <1>1 DEF Uncounted
    <2>2. \A u \in Uncounted : KeyOf(u)' = KeyOf(u)  BY <1>1 DEF KeyOf
    <2> QED  BY <1>1, <2>1, <2>2 DEF Counted
  <1>3. t \in Removing /\ Removing' = Removing \ {t}  BY <1>1 DEF Removing
  <1>4. /\ IsFiniteSet(Counted) /\ IsFiniteSet(Removing)
        /\ IsFiniteSet(DOMAIN outcome) /\ IsFiniteSet(DOMAIN outcome')
        /\ Cardinality(DOMAIN outcome) < UIntMod - 1
    BY FiniteSlots, FiniteThreads, FiniteOutcome DEF Counted, Removing, TInv, TableTyped, Fresh
  <1>5. /\ Cardinality(Removing') = Cardinality(Removing) - 1
        /\ Cardinality(DOMAIN outcome) <= Cardinality(DOMAIN outcome')
    BY <1>1, <1>3, <1>4, FS_RemoveElement, FS_Subset
  <1>6. /\ Cardinality(Counted) \in Nat /\ Cardinality(Removing') \in Nat
        /\ Cardinality(Removing) \in Nat /\ Cardinality(DOMAIN outcome) \in Nat
        /\ Cardinality(DOMAIN outcome') \in Nat
    BY <1>3, <1>4, FS_CardinalityType, FS_RemoveElement
  <1>7. used \in Nat /\ used - 1 \in 0 .. UIntMod - 1
    BY <1>4, <1>5, <1>6, ParametersAssumption DEF Counts
  <1>8. used' = used - 1 /\ low' = low
    <2>1. used + (-1) = used - 1  BY <1>7
    <2> QED  BY <1>1, <1>7, <2>1, AddOne DEF TablePointerIntact
  <1>9. Counts'  BY <1>2, <1>5, <1>6, <1>7, <1>8 DEF Counts
  <1> QED  BY <1>8, <1>9 DEF TablePointerIntact

(* A step of t that goes from outside these four places to outside them, or stays
   in an insertion or deletion, and stores no key. *)
Quiet(t) ==
    /\ UNCHANGED <<ops, used, low>> /\ DOMAIN outcome \subseteq DOMAIN outcome'
    /\ \A s \in Slots : table'[s].key = table[s].key
    /\ \A u \in Threads : pc[u] \in {"ins_data", "ins_used"}
            => pc'[u] \in {"ins_data", "ins_used"} /\ cur'[u] = cur[u]
    /\ \A u \in Threads : pc'[u] \in {"del_data", "del_used"} => pc[u] \in {"del_data", "del_used"}

LEMMA QuietKeepsCounts ==
    ASSUME TInv, Fresh, TInv', Fresh', Counts, NEW t \in Threads, Quiet(t)
    PROVE  Counts'
  <1>1. \A u \in Threads : u \in Uncounted => u \in Uncounted' /\ cur'[u] = cur[u]
    BY DEF Quiet, Uncounted
  <1>2. Removing' \subseteq Removing  BY DEF Quiet, Removing
  <1> QED  BY <1>1, <1>2, QuietCounts DEF Quiet

LEMMA QuietSteps ==
    ASSUME TInv, NEW t \in Threads, process(t) \/ SpuriousWakeup(t),
           ~(InsertKey(t) \/ InsertUsed(t) \/ PurgeKey(t) \/ PurgeUsed(t)),
           ~(InsertBegin(t) /\ ~(used < TableSize))
    PROVE  Quiet(t)
  <1> USE DEF input, shared, Goto, Quiet
  <1>0. /\ pc \in [Threads -> Labels] /\ cur \in [Threads -> Nat]
        /\ table \in [Slots -> [id : Nat, key : Nat, data : Nat]] /\ entry[t] \in Slots
    BY DEF TInv, TableTyped, IInv, Typed
  <1>1. CASE ReadOp(t)  BY <1>0, <1>1 DEF ReadOp, Dispatch
  <1>2. CASE Recheck(t)  BY <1>0, <1>2 DEF Recheck, Dispatch
  <1>3. CASE EndOfInput(t) \/ SpuriousWakeup(t) \/ DoneOne(t)
    BY <1>0, <1>3 DEF EndOfInput, SpuriousWakeup, DoneOne
  <1>4. CASE ScanKey(t) \/ ScanId(t) \/ ScanCmp(t) \/ GetHit(t)
    BY <1>0, <1>4 DEF ScanKey, ScanId, ScanCmp, GetHit, AfterScan
  <1>5. CASE GetMiss(t) \/ GetData(t) \/ PurgeMiss(t)
    BY <1>0, <1>5 DEF GetMiss, GetData, PurgeMiss, Return
  <1>6. CASE InsertBegin(t) /\ used < TableSize
    BY <1>0, <1>6 DEF InsertBegin
  <1>7. CASE Walk1(t) \/ Walk2(t)  BY <1>0, <1>7 DEF Walk1, Walk2, MoveOn, StopHere
  <1>8. CASE Update(t)  BY <1>0, <1>8 DEF Update, Return
  <1>9. CASE InsertId(t) \/ InsertData(t)  BY <1>0, <1>9 DEF InsertId, InsertData
  <1>10. CASE PurgeHit(t) \/ PurgeId(t) \/ PurgeData(t)
    BY <1>0, <1>10 DEF PurgeHit, PurgeId, PurgeData
  <1> QED  BY <1>1, <1>2, <1>3, <1>4, <1>5, <1>6, <1>7, <1>8, <1>9, <1>10
           DEF process, lookup, insert_update, purge_key

LEMMA StepCInv == CInv /\ [Next]_vars => CInv'
  <1> SUFFICES ASSUME CInv, [Next]_vars PROVE CInv'  OBVIOUS
  <1>0. TInv /\ Fresh /\ TablePointerIntact /\ TInv' /\ Fresh'
    BY StepTInv, StepFresh DEF CInv
  <1>1. CASE UNCHANGED vars
    <2> USE <1>1 DEF vars
    <2>1. TablePointerIntact' /\ (Aborted => Aborted')
      BY <1>0 DEF TablePointerIntact, Aborted
    <2>2. Counts => Counts'
      <3> SUFFICES ASSUME Counts PROVE Counts'  OBVIOUS
      <3>1. Removing' \subseteq Removing  BY DEF Removing
      <3>2. \A u \in Threads : u \in Uncounted => u \in Uncounted' /\ cur'[u] = cur[u]
        BY DEF Uncounted
      <3> QED  BY <1>0, <3>1, <3>2, QuietCounts
    <2> QED  BY <1>0, <2>1, <2>2 DEF CInv
  <1>2. CASE ~UNCHANGED vars
    <2>1. Running /\ Counts  BY <1>2, AbortedStays DEF CInv, TInv
    <2>2. PICK t \in Threads : process(t) \/ SpuriousWakeup(t)  BY <1>2 DEF Next, Ended
    <2>3. CASE InsertKey(t)
      BY <1>0, <2>1, <2>3, InsertKeyCounts DEF CInv, InsertKey, TablePointerIntact
    <2>4. CASE InsertUsed(t)  BY <1>0, <2>1, <2>4, InsertUsedCounts DEF CInv
    <2>5. CASE PurgeKey(t)
      BY <1>0, <2>1, <2>5, PurgeKeyCounts DEF CInv, PurgeKey, TablePointerIntact
    <2>6. CASE PurgeUsed(t)  BY <1>0, <2>1, <2>6, PurgeUsedCounts DEF CInv
    <2>7. CASE InsertBegin(t) /\ ~(used < TableSize)
      BY <1>0, <2>7 DEF CInv, InsertBegin, Aborted, shared, TablePointerIntact
    <2>8. CASE /\ ~(InsertKey(t) \/ InsertUsed(t) \/ PurgeKey(t) \/ PurgeUsed(t))
               /\ ~(InsertBegin(t) /\ ~(used < TableSize))
      <3>1. Quiet(t)  BY <1>0, <2>2, <2>8, QuietSteps
      <3> QED  BY <1>0, <2>1, <3>1, QuietKeepsCounts DEF CInv, Quiet, TablePointerIntact
    <2> QED  BY <2>3, <2>4, <2>5, <2>6, <2>7, <2>8
  <1> QED  BY <1>1, <1>2

(***************************************************************************)
(* The 8-byte add to the 4-byte counter h->used never borrows from or       *)
(* carries into the table pointer behind it, for any number of threads, any *)
(* input of fewer than UIntMod - 1 operations and any table                 *)
(* (parallel_hash.c:144 and 167, common.h:34-38).                           *)
(***************************************************************************)
THEOREM PointerIntact == Spec => []TablePointerIntact
  <1>1. CInv => TablePointerIntact  BY DEF CInv
  <1> QED  BY InitCInv, StepCInv, <1>1, PTL DEF Spec

-------------------------------------------------------------------------------
(***************************************************************************)
(* Part 4: every variable stays in the range the program gives it.  The    *)
(* entries hold ids and data of operations of the input, keys that occur   *)
(* in it, or the mark of a deleted entry.                                  *)
(***************************************************************************)
EntryType == [id : {Tomb} \cup 0 .. Len(ops),
              key : {0} \cup {ops[i].key : i \in 1 .. Len(ops)},
              data : 0 .. Len(ops)]

Ranges ==
    /\ \A t \in Threads : cur[t] < curr
    /\ table \in [Slots -> EntryType]
    /\ used \in 0 .. UIntMod - 1

LEMMA InitRanges == Init => Ranges
  <1> SUFFICES ASSUME Init PROVE Ranges  OBVIOUS
  <1>1. Len(ops) \in Nat  BY ParametersAssumption DEF Init
  <1>2. [id |-> 0, key |-> 0, data |-> 0] \in EntryType  BY <1>1 DEF EntryType
  <1>3. table \in [Slots -> EntryType]  BY <1>2 DEF Init
  <1>4. used \in 0 .. UIntMod - 1  BY ParametersAssumption DEF Init
  <1> QED  BY <1>3, <1>4 DEF Init, Ranges

(* atomic_add leaves a 32-bit number in the counter, whatever it carries. *)
LEMMA AddInRange ==
    ASSUME low \in Nat, used \in Nat, NEW d \in {-1, 1}, AtomicAddUsed(d)
    PROVE  used' \in 0 .. UIntMod - 1
  <1>1. UIntMod \in Nat \ {0} /\ low * UIntMod + used + d \in Int  BY ParametersAssumption
  <1>2. \A w \in Int : \A m \in Nat \ {0} : w % m \in 0 .. m - 1  OBVIOUS
  <1> QED  BY <1>1, <1>2 DEF AtomicAddUsed

LEMMA StepRanges ==
    ASSUME CInv, Ranges, [Next]_vars
    PROVE  Ranges'
  <1> USE DEF input, shared
  <1>0. /\ Len(ops) \in Nat /\ curr \in Nat /\ curr <= Len(ops) + 1 /\ cur \in [Threads -> Nat]
        /\ low \in Nat /\ used \in Nat
        /\ table \in [Slots -> EntryType] /\ \A t \in Threads : cur[t] < curr
    BY ParametersAssumption
       DEF CInv, TInv, TableTyped, IInv, Typed, TablePointerIntact, Ranges
  <1>1. CASE UNCHANGED vars  BY <1>1 DEF Ranges, vars, EntryType
  <1>2. ASSUME NEW t \in Threads, process(t) \/ SpuriousWakeup(t) PROVE Ranges'
    <2> USE <1>2
    <2>0. ops' = ops /\ EntryType' = EntryType /\ used \in 0 .. UIntMod - 1
      BY DEF Ranges, EntryType, process, SpuriousWakeup, lookup, insert_update, purge_key,
             ReadOp, EndOfInput, Recheck, ScanKey, ScanId, ScanCmp, GetMiss, GetHit, GetData,
             InsertBegin, Walk1, Walk2, Update, InsertId, InsertKey, InsertData, InsertUsed,
             PurgeMiss, PurgeHit, PurgeId, PurgeKey, PurgeData, PurgeUsed, DoneOne
    <2>1. CASE ReadOp(t)
      <3>1. /\ UNCHANGED <<table, used>> /\ curr' = curr + 1 /\ cur' = [cur EXCEPT ![t] = curr]
        BY <2>1 DEF ReadOp
      <3>2. \A u \in Threads : cur'[u] < curr'  BY <1>0, <3>1
      <3> QED  BY <1>0, <2>0, <3>1, <3>2 DEF Ranges
    <2>2. CASE UNCHANGED <<curr, cur, table, used>>
      BY <1>0, <2>0, <2>2 DEF Ranges
    <2>3. CASE Update(t) \/ InsertId(t) \/ InsertKey(t) \/ InsertData(t)
               \/ PurgeId(t) \/ PurgeKey(t) \/ PurgeData(t)
      <3>1. UNCHANGED <<curr, cur, used>> /\ pc[t] \in Work
        BY <2>3 DEF Update, InsertId, InsertKey, InsertData, PurgeId, PurgeKey, PurgeData, Work
      <3>2. cur[t] \in 1 .. Len(ops) /\ KeyOf(t) \in {ops[i].key : i \in 1 .. Len(ops)}
        BY <3>1, KeysAre DEF CInv, KeyOf
      <3>3. table[entry[t]] \in EntryType  BY <1>0 DEF CInv, TInv, TableTyped
      <3>4. \E e \in EntryType : table' = [table EXCEPT ![entry[t]] = e]
        <4> DEFINE old == table[entry[t]]
        <4> DEFINE Ids == {Tomb} \cup 0 .. Len(ops)
                   KeysIn == {0} \cup {ops[i].key : i \in 1 .. Len(ops)}
                   Datas == 0 .. Len(ops)
        <4>2. /\ old \in [id : Ids, key : KeysIn, data : Datas]
              /\ EntryType = [id : Ids, key : KeysIn, data : Datas]
          BY <3>3 DEF EntryType
        <4>3. /\ cur[t] \in Ids /\ cur[t] \in Datas /\ Tomb \in Ids /\ 0 \in Datas
              /\ KeyOf(t) \in KeysIn /\ 0 \in KeysIn
          BY <1>0, <3>2
        <4>1. /\ [old EXCEPT !.id = cur[t], !.data = cur[t]] \in EntryType
              /\ [old EXCEPT !.id = cur[t]] \in EntryType
              /\ [old EXCEPT !.key = KeyOf(t)] \in EntryType
              /\ [old EXCEPT !.data = cur[t]] \in EntryType
              /\ [old EXCEPT !.id = Tomb] \in EntryType
              /\ [old EXCEPT !.key = 0] \in EntryType
              /\ [old EXCEPT !.data = 0] \in EntryType
          <5> HIDE DEF old, Ids, KeysIn, Datas
          <5> QED  BY <4>2, <4>3
        <4> QED  BY <1>0, <2>3, <4>1
                 DEF Update, InsertId, InsertKey, InsertData, PurgeId, PurgeKey, PurgeData
      <3> QED  BY <1>0, <2>0, <3>1, <3>4 DEF Ranges
    <2>4. CASE InsertUsed(t) \/ PurgeUsed(t)
      <3>1. UNCHANGED <<curr, cur, table>> /\ \E d \in {-1, 1} : AtomicAddUsed(d)
        BY <2>4 DEF InsertUsed, PurgeUsed
      <3> QED  BY <1>0, <2>0, <3>1, AddInRange DEF Ranges
    <2> QED
      BY <2>1, <2>2, <2>3, <2>4
      DEF process, SpuriousWakeup, lookup, insert_update, purge_key,
          EndOfInput, Recheck, ScanKey, ScanId, ScanCmp, GetMiss, GetHit, GetData,
          InsertBegin, Walk1, Walk2, PurgeMiss, PurgeHit, DoneOne
  <1> QED  BY <1>1, <1>2 DEF Next, Ended

(***************************************************************************)
(* The variables of parallel_hash.c stay in their ranges, for any number   *)
(* of threads, any input and any table: an entry never holds an id, a key  *)
(* or data that is not the input's (insert_update and purge_key,           *)
(* parallel_hash.c:130-142 and 161-165).                                   *)
(***************************************************************************)
THEOREM TypeCorrect == Spec => []TypeOK
  <1>1. CInv /\ Ranges => TypeOK
    <2> SUFFICES ASSUME CInv, Ranges PROVE TypeOK  OBVIOUS
    <2>1. /\ ops \in Programs /\ curr \in 1 .. Len(ops) + 1 /\ Len(ops) \in Nat
          /\ being \in [Threads -> Nat] /\ cur \in [Threads -> Nat]
          /\ \A t \in Threads : being[t] < curr /\ cur[t] < curr
      BY ParametersAssumption
         DEF CInv, TInv, IInv, Typed, Turns, TableTyped, Fresh, Ranges
    <2>2. \A t \in Threads : being[t] \in 0 .. Len(ops) /\ cur[t] \in 0 .. Len(ops)
      BY <2>1
    <2>3. being \in [Threads -> 0 .. Len(ops)] /\ cur \in [Threads -> 0 .. Len(ops)]
      BY <2>1, <2>2
    <2>4. /\ elock \in [Slots -> Threads \cup {None}] /\ low \in Nat
          /\ ctr \in [Threads -> Slots] /\ entry \in [Threads -> Slots]
      BY ParametersAssumption DEF CInv, TInv, TableTyped, TablePointerIntact
    <2>5. DOMAIN outcome \subseteq 1 .. Len(ops)  BY <2>1 DEF CInv, Fresh
    <2>6. pc \in [Threads -> Labels]  BY DEF CInv, TInv, IInv, Typed
    <2> QED  BY <2>1, <2>3, <2>4, <2>5, <2>6 DEF TypeOK, Ranges, EntryType, Labels, Work
  <1>2. Init => CInv /\ Ranges  BY InitCInv, InitRanges
  <1>3. CInv /\ Ranges /\ [Next]_vars => (CInv /\ Ranges)'  BY StepCInv, StepRanges
  <1> QED  BY <1>1, <1>2, <1>3, PTL DEF Spec

-------------------------------------------------------------------------------
(***************************************************************************)
(* Part 5: the table gives the results of a serial execution, as long as   *)
(* an entry of it is never used.                                           *)
(*                                                                         *)
(* No walk looks behind an entry never used, and insert_update reuses a    *)
(* deleted entry only when it finds no such entry (lines 119-127).  A GET  *)
(* beside such a reuse may miss its key.  The input cannot bring that      *)
(* about if it puts keys into the table afresh less often than there are   *)
(* entries, in whatever order the threads take them.                       *)
(*                                                                         *)
(* SInv says what the walks rely on: entries that were put to use stay so  *)
(* (Hard), those with a key are reached over such entries (HardChains),    *)
(* and between operations on a key the table holds what a serial execution *)
(* of the finished ones would have left (Contents).  Sees says what a      *)
(* thread knows of its own key while it works on it: nobody else touches   *)
(* that key, so no step of another thread makes it untrue.                 *)
(***************************************************************************)

(* The PUTs of p that find their key absent in a serial execution. *)
Insertions(p) ==
    {i \in 1 .. Len(p) :
        /\ p[i].type = "PUT"
        /\ \A j \in 1 .. i - 1 : p[j].key = p[i].key /\ p[j].type = "PUT"
              => \E k \in j + 1 .. i - 1 : p[k].key = p[i].key /\ p[k].type = "DEL"}

(* The inputs put keys into the table afresh less often than it has entries. *)
EntriesSuffice == \A p \in Programs : Cardinality(Insertions(p)) < TableSize

(* An entry with a key, or one that was deleted; the latter is a Grave. *)
Hard(s)  == table[s].key # 0 \/ table[s].id = Tomb
Grave(s) == table[s].key = 0 /\ table[s].id = Tomb

(* A walk for k passes hard entries only on its way to s. *)
HardTo(k, s) == \A r \in Slots : Distance(k, r) < Distance(k, s) => Hard(r)
HardChains == \A s \in Slots : table[s].key # 0 => HardTo(table[s].key, s)

(* A walk for k that has come to c has not passed k. *)
NotPassed(k, c) == \A s \in Slots : table[s].key = k => Distance(k, c) <= Distance(k, s)

(* The table holds of k what the first n operations leave. *)
Content(k, n) ==
    /\ Absent(k) <=> ~Present(k, n)
    /\ \A s \in Slots : table[s].key = k
          => table[s].id = LastWrite(k, n) /\ table[s].data = LastWrite(k, n)

(* Where a thread is in lookup, insert_update and purge_key; Before its
   operation takes effect. *)
Scanning == {"scan_key", "scan_id", "scan_cmp"}
Putting  == {"insert", "walk", "update", "ins_id", "ins_key", "ins_data", "ins_used"}
Deleting == {"del", "del_id", "del_key", "del_data", "del_used"}
Before   == Scanning \cup {"get", "get_data", "insert", "walk", "update", "ins_id", "ins_key",
                           "del", "del_id"}

(* A thread is in the function its operation asks for. *)
TypeFits(t) ==
    /\ pc[t] \in Putting => ops[cur[t]].type = "PUT"
    /\ pc[t] \in Scanning => ops[cur[t]].type \in {"GET", "DEL"}
    /\ pc[t] \in {"get", "get_data"} => ops[cur[t]].type = "GET"
    /\ pc[t] \in Deleting => ops[cur[t]].type = "DEL"

(* What t knows of its key. *)
Sees(t) ==
    /\ pc[t] \in Before => Content(KeyOf(t), cur[t] - 1)
    /\ pc[t] \in Scanning => entry[t] = ctr[t] /\ NotPassed(KeyOf(t), ctr[t])
    /\ pc[t] = "scan_id" => Grave(entry[t]) \/ Absent(KeyOf(t))
    /\ pc[t] \in {"get", "del"} => table[entry[t]].key = KeyOf(t) \/ Absent(KeyOf(t))
    /\ pc[t] = "get_data" => table[entry[t]].key = KeyOf(t)
    /\ pc[t] = "walk" => HardTo(KeyOf(t), ctr[t])
    /\ pc[t] \in {"ins_id", "ins_key"} => HardTo(KeyOf(t), entry[t]) /\ ~Hard(entry[t])
    /\ pc[t] \in {"ins_id", "ins_key", "ins_data", "ins_used"} => cur[t] \in Insertions(ops)
    /\ pc[t] \in {"ins_key", "ins_data"} => table[entry[t]].id = cur[t]
    /\ pc[t] = "ins_data" => table[entry[t]].key = KeyOf(t)
    /\ pc[t] = "ins_used" => Content(KeyOf(t), cur[t])
    /\ pc[t] \in Deleting \ {"del"} => Present(KeyOf(t), cur[t] - 1)
    /\ pc[t] \in {"del_data", "del_used"} => Absent(KeyOf(t))
    /\ pc[t] = "del_data" => table[entry[t]].key = 0

(* The second walk of insert_update is never needed. *)
AllSee == \A t \in Threads : pc[t] # "walk2" /\ TypeFits(t) /\ Sees(t)

Keys == Nat \ {0}
OpsOn(k) == {i \in 1 .. Len(ops) : ops[i].key = k}

(* Of the operations on k, the first n of the input are finished. *)
Upto(k, n) == \A i \in OpsOn(k) : i \in DOMAIN outcome <=> i <= n

(* No thread is within an operation on k. *)
Busy == Work \ {"done"}
QuietKey(k) == \A t \in Threads : pc[t] \in Busy => KeyOf(t) # k

Contents == \A k \in Keys : \A n \in 0 .. Len(ops) : Upto(k, n) /\ QuietKey(k) => Content(k, n)

(* Operations on one key finish in the order of the input. *)
InOrder == \A j \in DOMAIN outcome : \A i \in 1 .. j - 1 :
              ops[i].key = ops[j].key => i \in DOMAIN outcome

(* The insertions that have stored their key pay for the hard entries, and
   those that have counted themselves for the counter. *)
HardSlots == {s \in Slots : Hard(s)}
Inserted == {i \in Insertions(ops) :
               i \in DOMAIN outcome \/ \E t \in Uncounted : cur[t] = i}

HardCount == Cardinality(HardSlots) <= Cardinality(Inserted)
UsedCount == used <= Cardinality(Insertions(ops) \cap DOMAIN outcome)

(* The counter counts the entries with a key, but for those whose PUT has not
   counted itself, and the deletions that have not. *)
Exact == used = Cardinality(Counted) + Cardinality(Removing)
ExitEnd == \A t \in Threads : pc[t] = "exit" => curr = Len(ops) + 1

SInv == CInv /\ Running /\ HardChains /\ AllSee /\ Contents /\ InOrder /\ HardCount
        /\ UsedCount /\ Exact /\ ExitEnd /\ OutcomesSerial

-------------------------------------------------------------------------------
(* The last write to a key. *)
(* A bounded set of numbers has a greatest member. *)
LEMMA Greatest ==
    ASSUME NEW n \in Nat, NEW W \in SUBSET (1 .. n), W # {}
    PROVE  LET x == CHOOSE j \in W : \A k \in W : k <= j
           IN  x \in W /\ \A k \in W : k <= x
  <1> DEFINE D == {n - j : j \in W}
  <1>1. D \in SUBSET Nat /\ D # {}
    <2>1. \A j \in W : j \in Int /\ j <= n  OBVIOUS
    <2>2. \A j \in W : n - j \in Nat  BY <2>1
    <2> QED  BY <2>2
  <1>2. PICK d \in D : \A e \in D : ~(<<e, d>> \in OpToRel(<, Nat))
    <2> HIDE DEF D
    <2> QED  BY <1>1, WFMin, NatLessThanWellFounded
  <1>3. \A e \in D : d <= e
    <2>1. \A e \in Nat : e < d => <<e, d>> \in OpToRel(<, Nat)  BY <1>1 DEF OpToRel
    <2>2. \A e \in D : ~(e < d)  BY <1>1, <1>2, <2>1
    <2> QED  BY <1>1, <2>2
  <1>4. PICK x \in W : d = n - x  BY <1>2
  <1>5. \A k \in W : k <= x  BY <1>3, <1>4
  <1> QED  BY <1>4, <1>5

LEMMA LastWriteIs ==
    ASSUME NEW k, NEW n \in Nat
    PROVE  LET W == {j \in 1 .. n : ops[j].key = k /\ ops[j].type # "GET"}
           IN  IF W = {} THEN LastWrite(k, n) = 0
               ELSE LastWrite(k, n) \in W /\ \A j \in W : j <= LastWrite(k, n)
  <1> DEFINE W == {j \in 1 .. n : ops[j].key = k /\ ops[j].type # "GET"}
  <1>1. LastWrite(k, n) = IF W = {} THEN 0 ELSE CHOOSE j \in W : \A i \in W : i <= j
    BY DEF LastWrite
  <1>2. W \in SUBSET (1 .. n)  OBVIOUS
  <1> HIDE DEF W
  <1>3. W # {} => LastWrite(k, n) \in W /\ \A j \in W : j <= LastWrite(k, n)
    BY <1>1, <1>2, Greatest
  <1> QED  BY <1>1, <1>3 DEF W

(* GETs do not write. *)
LEMMA LastWriteSame ==
    ASSUME NEW k, NEW m \in Nat, NEW n \in Nat, m <= n,
           \A j \in m + 1 .. n : ops[j].key = k => ops[j].type = "GET"
    PROVE  LastWrite(k, n) = LastWrite(k, m) /\ (Present(k, n) <=> Present(k, m))
  <1> DEFINE Wn == {j \in 1 .. n : ops[j].key = k /\ ops[j].type # "GET"}
             Wm == {j \in 1 .. m : ops[j].key = k /\ ops[j].type # "GET"}
  <1>1. Wn = Wm
    <2>1. \A j \in 1 .. n : j \in 1 .. m \/ j \in m + 1 .. n  OBVIOUS
    <2>2. \A j \in 1 .. m : j \in 1 .. n  OBVIOUS
    <2>3. ASSUME NEW j \in 1 .. n, ops[j].key = k, ops[j].type # "GET" PROVE j \in 1 .. m
      BY <2>1, <2>3
    <2> QED  BY <2>2, <2>3
  <1>2. /\ LastWrite(k, n) = IF Wn = {} THEN 0 ELSE CHOOSE j \in Wn : \A i \in Wn : i <= j
        /\ LastWrite(k, m) = IF Wm = {} THEN 0 ELSE CHOOSE j \in Wm : \A i \in Wm : i <= j
    BY DEF LastWrite
  <1>3. LastWrite(k, n) = LastWrite(k, m)
    <2> HIDE DEF Wn, Wm
    <2> QED  BY <1>1, <1>2
  <1> QED  BY <1>3 DEF Present

LEMMA LastWriteNow ==
    ASSUME NEW i \in Nat \ {0}, ops[i].type # "GET"
    PROVE  /\ LastWrite(ops[i].key, i) = i
           /\ Present(ops[i].key, i) <=> ops[i].type = "PUT"
  <1> DEFINE k == ops[i].key
             W == {j \in 1 .. i : ops[j].key = k /\ ops[j].type # "GET"}
  <1>1. i \in W  OBVIOUS
  <1>2. LastWrite(k, i) \in W /\ \A j \in W : j <= LastWrite(k, i)
    BY <1>1, LastWriteIs
  <1>3. LastWrite(k, i) = i  BY <1>1, <1>2
  <1> QED  BY <1>3 DEF Present

(* A PUT of a key that is not there is an insertion. *)
LEMMA NewInsertion ==
    ASSUME TableTyped, NEW i \in 1 .. Len(ops), ops[i].type = "PUT",
           ~Present(ops[i].key, i - 1)
    PROVE  i \in Insertions(ops)
  <1> DEFINE k == ops[i].key
             W == {j \in 1 .. i - 1 : ops[j].key = k /\ ops[j].type # "GET"}
             m == LastWrite(k, i - 1)
  <1> SUFFICES ASSUME NEW j \in 1 .. i - 1, ops[j].key = k, ops[j].type = "PUT"
               PROVE  \E x \in j + 1 .. i - 1 : ops[x].key = k /\ ops[x].type = "DEL"
    BY DEF Insertions
  <1>1. i - 1 \in Nat /\ j \in W  OBVIOUS
  <1>2. m \in W /\ j <= m  BY <1>1, LastWriteIs
  <1>3. ops[m].type # "PUT" /\ m \in 1 .. Len(ops)  BY <1>2 DEF Present
  <1>4. ops[m].type = "DEL"  BY <1>2, <1>3 DEF TableTyped, Op
  <1>5. m # j /\ m \in j + 1 .. i - 1  BY <1>2, <1>3
  <1> QED  BY <1>2, <1>4, <1>5

-------------------------------------------------------------------------------
(* What a step of t does to the table, as the others see it. *)
Touches(t) ==
    /\ OthersSame(t) /\ UNCHANGED ops
    /\ \A s \in Slots :
          \/ table'[s] = table[s]
          \/ /\ s = entry[t] /\ pc[t] \in Holding
             /\ table[s].key \in {0, KeyOf(t)} /\ table'[s].key \in {0, KeyOf(t)}
    /\ \A s \in Slots : (Hard(s) => Hard(s)') /\ (Grave(s) => Grave(s)')
    /\ \A s \in Slots : table'[s].key \in {0, table[s].key} \/ HardTo(KeyOf(t), s)

LEMMA OthersStay ==
    ASSUME TInv, NEW t \in Threads, process(t) \/ SpuriousWakeup(t), used < TableSize
    PROVE  OthersSame(t) /\ UNCHANGED ops
  <1> USE DEF input, shared, Goto, OthersSame
  <1>0. /\ pc \in [Threads -> Labels] /\ cur \in [Threads -> Nat]
        /\ ctr \in [Threads -> Slots] /\ entry \in [Threads -> Slots]
    BY DEF TInv, TableTyped, IInv, Typed
  <1>1. CASE ReadOp(t) \/ Recheck(t)  BY <1>0, <1>1 DEF ReadOp, Recheck, Dispatch
  <1>2. CASE EndOfInput(t) \/ SpuriousWakeup(t) \/ DoneOne(t)
    BY <1>0, <1>2 DEF EndOfInput, SpuriousWakeup, DoneOne
  <1>3. CASE ScanKey(t) \/ ScanId(t) \/ ScanCmp(t) \/ GetHit(t)
    BY <1>0, <1>3 DEF ScanKey, ScanId, ScanCmp, GetHit, AfterScan
  <1>4. CASE GetMiss(t) \/ GetData(t) \/ PurgeMiss(t) \/ InsertUsed(t) \/ PurgeUsed(t)
    BY <1>0, <1>4 DEF GetMiss, GetData, PurgeMiss, InsertUsed, PurgeUsed, Return
  <1>5. CASE InsertBegin(t)  BY <1>0, <1>5 DEF InsertBegin
  <1>6. CASE Walk1(t) \/ Walk2(t)  BY <1>0, <1>6 DEF Walk1, Walk2, MoveOn, StopHere
  <1>7. CASE Update(t) \/ InsertId(t) \/ InsertKey(t) \/ InsertData(t)
    BY <1>0, <1>7 DEF Update, InsertId, InsertKey, InsertData, Return
  <1>8. CASE PurgeHit(t) \/ PurgeId(t) \/ PurgeKey(t) \/ PurgeData(t)
    BY <1>0, <1>8 DEF PurgeHit, PurgeId, PurgeKey, PurgeData
  <1> QED  BY <1>1, <1>2, <1>3, <1>4, <1>5, <1>6, <1>7, <1>8
           DEF process, lookup, insert_update, purge_key

(* t makes its entry, whose lock it holds, e. *)
LEMMA StoreTouches ==
    ASSUME TInv, NEW t \in Threads, OthersSame(t), UNCHANGED ops, pc[t] \in Holding, NEW e,
           table' = [table EXCEPT ![entry[t]] = e],
           table[entry[t]].key \in {0, KeyOf(t)}, e.key \in {0, KeyOf(t)},
           Hard(entry[t]) => e.key # 0 \/ e.id = Tomb,
           Grave(entry[t]) => e.key = 0 /\ e.id = Tomb,
           e.key \in {0, table[entry[t]].key} \/ HardTo(KeyOf(t), entry[t])
    PROVE  Touches(t)
  <1>1. entry[t] \in Slots /\ table'[entry[t]] = e
        /\ \A s \in Slots \ {entry[t]} : table'[s] = table[s]
    BY DEF TInv, TableTyped
  <1>2. ASSUME NEW s \in Slots PROVE (Hard(s) => Hard(s)') /\ (Grave(s) => Grave(s)')
    BY <1>1 DEF Hard, Grave
  <1> QED  BY <1>1, <1>2 DEF Touches

LEMMA LooksTouches ==
    ASSUME NEW t \in Threads, OthersSame(t), UNCHANGED <<ops, table>>
    PROVE  Touches(t)
  BY DEF Touches, Hard, Grave

(* What the thread that stores knows of its entry. *)
LEMMA HeldEntry ==
    ASSUME TInv, Running, NEW t \in Threads, Sees(t), pc[t] \in Holding
    PROVE  /\ pc[t] \in {"update", "ins_data", "del_id", "del_key"} => table[entry[t]].key = KeyOf(t)
           /\ pc[t] \in {"ins_id", "ins_key"} =>
                 ~Hard(entry[t]) /\ table[entry[t]].key = 0 /\ HardTo(KeyOf(t), entry[t])
           /\ pc[t] = "del_key" => table[entry[t]].id = Tomb
           /\ pc[t] = "del_data" => table[entry[t]].key = 0
           /\ cur[t] \in 1 .. Len(ops) /\ KeyOf(t) \in Nat \ {0} /\ entry[t] \in Slots
           /\ Len(ops) \in Nat
           /\ table[entry[t]] \in [id : Nat, key : Nat, data : Nat]
           /\ elock[entry[t]] = t
  <1>1. Knows(t)  BY DEF Running
  <1>2. pc[t] \in Work  BY DEF Holding, Work
  <1>3. entry[t] \in Slots /\ table[entry[t]] \in [id : Nat, key : Nat, data : Nat]
        /\ Len(ops) \in Nat
    BY DEF TInv, TableTyped, IInv, Typed
  <1> QED  BY <1>1, <1>2, <1>3, KeysAre DEF Knows, Sees, Hard, Running, Locked

LEMMA InsertTouches ==
    ASSUME TInv, Running, AllSee, NEW t \in Threads, OthersSame(t), UNCHANGED ops,
           Update(t) \/ InsertId(t) \/ InsertKey(t) \/ InsertData(t)
    PROVE  Touches(t)
  <1> DEFINE old == table[entry[t]]
  <1>1. pc[t] \in {"update", "ins_id", "ins_key", "ins_data"} /\ pc[t] \in Holding
    BY DEF Update, InsertId, InsertKey, InsertData, Holding
  <1>2. /\ pc[t] \in {"update", "ins_data"} => old.key = KeyOf(t)
        /\ pc[t] \in {"ins_id", "ins_key"} =>
              ~Hard(entry[t]) /\ old.key = 0 /\ HardTo(KeyOf(t), entry[t])
        /\ KeyOf(t) \in Nat \ {0} /\ cur[t] \in 1 .. Len(ops)
        /\ old \in [id : Nat, key : Nat, data : Nat]
    BY <1>1, HeldEntry DEF AllSee
  <1>3. table = [table EXCEPT ![entry[t]] = old]  BY DEF TInv, TableTyped
  <1>4. CASE Update(t)
    <2> DEFINE e == [old EXCEPT !.id = cur[t], !.data = cur[t]]
    <2>1. e.key = KeyOf(t) /\ pc[t] = "update"  BY <1>2, <1>4 DEF Update
    <2>2. table' = [table EXCEPT ![entry[t]] = e]  BY <1>4 DEF Update
    <2>3. ~Grave(entry[t])  BY <1>2, <2>1 DEF Grave
    <2> HIDE DEF e
    <2> QED  BY <1>1, <1>2, <2>1, <2>2, <2>3, StoreTouches
  <1>5. CASE InsertId(t)
    <2> DEFINE e == [old EXCEPT !.id = cur[t]]
    <2>1. e.key = 0 /\ pc[t] = "ins_id"  BY <1>2, <1>5 DEF InsertId
    <2>2. table' = [table EXCEPT ![entry[t]] = e]  BY <1>5 DEF InsertId
    <2>3. ~Grave(entry[t]) /\ ~Hard(entry[t])  BY <1>2, <2>1 DEF Grave, Hard
    <2> HIDE DEF e
    <2> QED  BY <1>1, <1>2, <2>1, <2>2, <2>3, StoreTouches
  <1>6. CASE InsertKey(t)
    <2> DEFINE e == [old EXCEPT !.key = KeyOf(t)]
    <2>1. e.key = KeyOf(t) /\ pc[t] = "ins_key"  BY <1>2, <1>6 DEF InsertKey
    <2>2. table' = [table EXCEPT ![entry[t]] = e]  BY <1>6 DEF InsertKey
    <2>3. ~Grave(entry[t]) /\ ~Hard(entry[t])  BY <1>2, <2>1 DEF Grave, Hard
    <2> HIDE DEF e
    <2> QED  BY <1>1, <1>2, <2>1, <2>2, <2>3, StoreTouches
  <1>7. CASE InsertData(t)
    <2> DEFINE e == [old EXCEPT !.data = cur[t]]
    <2>1. e.key = KeyOf(t) /\ pc[t] = "ins_data"  BY <1>2, <1>7 DEF InsertData
    <2>2. table' = [table EXCEPT ![entry[t]] = e]  BY <1>7 DEF InsertData
    <2>3. ~Grave(entry[t])  BY <1>2, <2>1 DEF Grave
    <2> HIDE DEF e
    <2> QED  BY <1>1, <1>2, <2>1, <2>2, <2>3, StoreTouches
  <1> QED  BY <1>4, <1>5, <1>6, <1>7

LEMMA PurgeTouches ==
    ASSUME TInv, Running, AllSee, NEW t \in Threads, OthersSame(t), UNCHANGED ops,
           PurgeId(t) \/ PurgeKey(t) \/ PurgeData(t)
    PROVE  Touches(t)
  <1> DEFINE old == table[entry[t]]
  <1>1. pc[t] \in {"del_id", "del_key", "del_data"} /\ pc[t] \in Holding
    BY DEF PurgeId, PurgeKey, PurgeData, Holding
  <1>2. /\ pc[t] \in {"del_id", "del_key"} => old.key = KeyOf(t)
        /\ pc[t] = "del_key" => old.id = Tomb
        /\ pc[t] = "del_data" => old.key = 0
        /\ KeyOf(t) \in Nat \ {0}
        /\ old \in [id : Nat, key : Nat, data : Nat]
    BY <1>1, HeldEntry DEF AllSee
  <1>3. CASE PurgeId(t)
    <2> DEFINE e == [old EXCEPT !.id = Tomb]
    <2>1. e.key = KeyOf(t) /\ old.key = KeyOf(t)  BY <1>2, <1>3 DEF PurgeId
    <2>2. table' = [table EXCEPT ![entry[t]] = e]  BY <1>3 DEF PurgeId
    <2>3. ~Grave(entry[t])  BY <1>2, <2>1 DEF Grave
    <2> HIDE DEF e
    <2> QED  BY <1>1, <1>2, <2>1, <2>2, <2>3, StoreTouches
  <1>4. CASE PurgeKey(t)
    <2> DEFINE e == [old EXCEPT !.key = 0]
    <2>1. e.key = 0 /\ e.id = Tomb /\ old.key = KeyOf(t)  BY <1>2, <1>4 DEF PurgeKey
    <2>2. table' = [table EXCEPT ![entry[t]] = e]  BY <1>4 DEF PurgeKey
    <2> HIDE DEF e
    <2> QED  BY <1>1, <1>2, <2>1, <2>2, StoreTouches
  <1>5. CASE PurgeData(t)
    <2> DEFINE e == [old EXCEPT !.data = 0]
    <2>1. e.key = 0 /\ old.key = 0 /\ e.id = old.id  BY <1>2, <1>5 DEF PurgeData
    <2>2. table' = [table EXCEPT ![entry[t]] = e]  BY <1>5 DEF PurgeData
    <2>3. Hard(entry[t]) => e.id = Tomb  BY <2>1 DEF Hard
    <2>4. Grave(entry[t]) => e.id = Tomb  BY <2>1 DEF Grave
    <2> HIDE DEF e
    <2> QED  BY <1>1, <1>2, <2>1, <2>2, <2>3, <2>4, StoreTouches
  <1> QED  BY <1>3, <1>4, <1>5

LEMMA StepTouches ==
    ASSUME TInv, Running, AllSee, NEW t \in Threads, process(t) \/ SpuriousWakeup(t),
           used < TableSize
    PROVE  Touches(t)
  <1>1. OthersSame(t) /\ UNCHANGED ops  BY OthersStay
  <1>2. CASE Update(t) \/ InsertId(t) \/ InsertKey(t) \/ InsertData(t)
    BY <1>1, <1>2, InsertTouches
  <1>3. CASE PurgeId(t) \/ PurgeKey(t) \/ PurgeData(t)
    BY <1>1, <1>3, PurgeTouches
  <1>4. CASE UNCHANGED table  BY <1>1, <1>4, LooksTouches
  <1> QED
    BY <1>2, <1>3, <1>4
    DEF process, lookup, insert_update, purge_key, shared, SpuriousWakeup,
        ReadOp, EndOfInput, Recheck, ScanKey, ScanId, ScanCmp, GetMiss, GetHit, GetData,
        InsertBegin, Walk1, Walk2, InsertUsed, PurgeMiss, PurgeHit, PurgeUsed, DoneOne

(* What follows for the entries with a key nobody but t has, or t has not. *)
LEMMA OtherKeys ==
    ASSUME NEW t \in Threads, Touches(t), NEW k \in Keys, pc[t] \in Work => KeyOf(t) # k
    PROVE  /\ \A s \in Slots : table[s].key = k \/ table'[s].key = k => table'[s] = table[s]
           /\ Absent(k)' <=> Absent(k)
           /\ \A n : Content(k, n)' <=> Content(k, n)
           /\ \A c : NotPassed(k, c) => NotPassed(k, c)'
           /\ \A c : HardTo(k, c) => HardTo(k, c)'
  <1>1. \A s \in Slots : table[s].key = k \/ table'[s].key = k => table'[s] = table[s]
    BY DEF Touches, Keys, Holding, Work
  <1>2. Absent(k)' <=> Absent(k)  BY <1>1 DEF Absent
  <1>3. ASSUME NEW n PROVE Content(k, n)' <=> Content(k, n)
    <2>1. LastWrite(k, n)' = LastWrite(k, n)  BY DEF Touches, LastWrite
    <2>2. Present(k, n)' <=> Present(k, n)  BY <2>1 DEF Touches, Present
    <2> QED  BY <1>1, <1>2, <2>1, <2>2 DEF Content
  <1>4. \A c : NotPassed(k, c) => NotPassed(k, c)'  BY <1>1 DEF NotPassed, Distance, hashfunc
  <1>5. \A c : HardTo(k, c) => HardTo(k, c)'
    BY DEF HardTo, Distance, hashfunc, Touches
  <1> QED  BY <1>1, <1>2, <1>3, <1>4, <1>5

(* What the other threads know survives a step of t, ...  *)
LEMMA OthersSee ==
    ASSUME TInv, Running, AllSee, NEW t \in Threads, Touches(t), NEW u \in Threads \ {t}
    PROVE  pc'[u] # "walk2" /\ TypeFits(u)' /\ Sees(u)'
  <1> DEFINE k == KeyOf(u)
  <1>0. /\ UNCHANGED ops /\ cur'[u] = cur[u] /\ ctr'[u] = ctr[u] /\ entry'[u] = entry[u]
        /\ pc'[u] = pc[u] \/ (pc[u] = "wait" /\ pc'[u] = "woken")
        /\ KeyOf(u)' = k /\ entry[u] \in Slots
        /\ pc[u] # "walk2" /\ TypeFits(u) /\ Sees(u)
    BY DEF Touches, OthersSame, KeyOf, AllSee, TInv, TableTyped
  <1>1. CASE pc[u] \notin Work
    BY <1>0, <1>1 DEF TypeFits, Sees, Work, Putting, Scanning, Deleting, Before
  <1>2. CASE pc[u] \in Work
    <2>1. pc'[u] = pc[u] /\ k \in Keys  BY <1>0, <1>2, KeysAre DEF Work, Keys
    <2>2. pc[t] \in Work => KeyOf(t) # k  BY <1>2, Exclusive
    <2>3. \A x : x = k =>
             /\ \A s \in Slots : table[s].key = x \/ table'[s].key = x => table'[s] = table[s]
             /\ Absent(x)' <=> Absent(x)
             /\ \A n : Content(x, n)' <=> Content(x, n)
             /\ \A c : NotPassed(x, c) => NotPassed(x, c)'
             /\ \A c : HardTo(x, c) => HardTo(x, c)'
      <3> SUFFICES ASSUME NEW x, x = k
                   PROVE  /\ \A s \in Slots : table[s].key = x \/ table'[s].key = x => table'[s] = table[s]
                          /\ Absent(x)' <=> Absent(x)
                          /\ \A n : Content(x, n)' <=> Content(x, n)
                          /\ \A c : NotPassed(x, c) => NotPassed(x, c)'
                          /\ \A c : HardTo(x, c) => HardTo(x, c)'
        OBVIOUS
      <3> QED  BY <2>1, <2>2, OtherKeys
    <2>4. pc[u] \in Holding => table'[entry[u]] = table[entry[u]]
      <3> SUFFICES ASSUME pc[u] \in Holding, pc[t] \in Holding, entry[u] = entry[t]
                   PROVE  FALSE
        BY <1>0 DEF Touches
      <3> QED  BY DEF Running, Locked
    <2>5. TypeFits(u)'  BY <1>0, <2>1 DEF TypeFits
    <2>6. \A n : Present(k, n)' <=> Present(k, n)
      BY <1>0 DEF Present, LastWrite
    <2>7. Hard(entry[u])' <=> (table'[entry[u]].key # 0 \/ table'[entry[u]].id = Tomb)
      BY <1>0 DEF Hard
    <2>8. Grave(entry[u]) => Grave(entry[u])'  BY <1>0 DEF Touches
    <2> HIDE DEF k
    <2>9. (pc[u] \in Before => Content(KeyOf(u), cur[u] - 1))'
      BY <1>0, <2>1, <2>3 DEF Sees, k
    <2>10. (pc[u] \in Scanning => entry[u] = ctr[u] /\ NotPassed(KeyOf(u), ctr[u]))'
      BY <1>0, <2>1, <2>3 DEF Sees, k
    <2>11. /\ (pc[u] = "scan_id" => Grave(entry[u]) \/ Absent(KeyOf(u)))'
           /\ (pc[u] \in {"get", "del"} => table[entry[u]].key = KeyOf(u) \/ Absent(KeyOf(u)))'
           /\ (pc[u] = "get_data" => table[entry[u]].key = KeyOf(u))'
      BY <1>0, <2>1, <2>3, <2>8 DEF Sees, k
    <2>12. (pc[u] = "walk" => HardTo(KeyOf(u), ctr[u]))'
      BY <1>0, <2>1, <2>3 DEF Sees, k
    <2>13. (pc[u] \in {"ins_id", "ins_key"} => HardTo(KeyOf(u), entry[u]) /\ ~Hard(entry[u]))'
      BY <1>0, <2>1, <2>3, <2>4, <2>7 DEF Sees, k, Hard, Holding
    <2>14. /\ (pc[u] \in {"ins_id", "ins_key", "ins_data", "ins_used"} => cur[u] \in Insertions(ops))'
           /\ (pc[u] \in {"ins_key", "ins_data"} => table[entry[u]].id = cur[u])'
           /\ (pc[u] = "ins_data" => table[entry[u]].key = KeyOf(u))'
      BY <1>0, <2>1, <2>4 DEF Sees, k, Holding
    <2>15. /\ (pc[u] = "ins_used" => Content(KeyOf(u), cur[u]))'
           /\ (pc[u] \in {"del_data", "del_used"} => Absent(KeyOf(u)))'
      BY <1>0, <2>1, <2>3 DEF Sees, k
    <2>16. /\ (pc[u] \in Deleting \ {"del"} => Present(KeyOf(u), cur[u] - 1))'
           /\ (pc[u] = "del_data" => table[entry[u]].key = 0)'
      BY <1>0, <2>1, <2>4, <2>6 DEF Sees, k, Holding
    <2>17. Sees(u)'
      BY <2>9, <2>10, <2>11, <2>12, <2>13, <2>14, <2>15, <2>16 DEF Sees
    <2> QED  BY <1>0, <2>1, <2>5, <2>17
  <1> QED  BY <1>1, <1>2

(* ... and so do the chains. *)
LEMMA HardChainsKept ==
    ASSUME TInv, HardChains, NEW t \in Threads, Touches(t)
    PROVE  HardChains'
  <1> SUFFICES ASSUME NEW s \in Slots, NEW k, k = table'[s].key, k # 0 PROVE HardTo(k, s)'
    BY DEF HardChains
  <1>1. HardTo(k, s)
    <2>1. CASE k = table[s].key  BY <2>1 DEF HardChains
    <2>2. CASE k # table[s].key
      <3>1. HardTo(KeyOf(t), s) /\ k = KeyOf(t)  BY <2>2 DEF Touches
      <3> QED  BY <3>1
    <2> QED  BY <2>1, <2>2
  <1> QED  BY <1>1 DEF HardTo, Distance, hashfunc, Touches

-------------------------------------------------------------------------------
(* While t works on a key, the operations on it before its own are finished, no
   other is, and no other thread works on it. *)
TurnRule ==
    TInv /\ Fresh /\ InOrder =>
        \A t \in Threads : pc[t] \in Busy =>
            /\ Upto(KeyOf(t), cur[t] - 1)
            /\ \A u \in Threads \ {t} : pc[u] \in Work => KeyOf(u) # KeyOf(t)

LEMMA TurnOf == TurnRule
  <1> SUFFICES ASSUME TInv, Fresh, InOrder, NEW t \in Threads, pc[t] \in Busy
               PROVE  /\ Upto(KeyOf(t), cur[t] - 1)
                      /\ \A u \in Threads \ {t} : pc[u] \in Work => KeyOf(u) # KeyOf(t)
    BY DEF TurnRule
  <1>1. pc[t] \in Work /\ cur[t] \in 1 .. Len(ops) /\ cur[t] \notin DOMAIN outcome
    BY KeysAre DEF Busy, Fresh, Pending
  <1>2. \A u \in Threads \ {t} : pc[u] \in Work => KeyOf(u) # KeyOf(t)
    BY <1>1, Exclusive
  <1>3. ASSUME NEW i \in OpsOn(KeyOf(t)) PROVE i \in DOMAIN outcome <=> i <= cur[t] - 1
    <2>1. i \in 1 .. Len(ops) /\ ops[i].key = KeyOf(t)  BY DEF OpsOn
    <2>2. CASE i < cur[t]
      <3>1. i \in 1 .. cur[t] - 1  BY <1>1, <2>1, <2>2
      <3>2. Finished(i)
        BY <1>1, <2>1, <3>1, ProcessingIsWork DEF TInv, IInv, SameKeyInOrder
      <3> QED  BY <3>1, <3>2 DEF Finished
    <2>3. CASE i = cur[t]  BY <1>1, <2>3
    <2>4. CASE i > cur[t]
      <3>1. cur[t] \in 1 .. i - 1 /\ ops[cur[t]].key = ops[i].key
        BY <1>1, <2>1, <2>4 DEF KeyOf
      <3>2. i \notin DOMAIN outcome  BY <1>1, <3>1 DEF InOrder
      <3> QED  BY <1>1, <2>1, <2>4, <3>2
    <2> QED  BY <1>1, <2>1, <2>2, <2>3, <2>4
  <1> QED  BY <1>2, <1>3 DEF Upto

(* A step of t: it is not in an operation, or goes on with it, or ends it. *)
Rests(t) == pc[t] \notin Busy /\ pc'[t] # "aborted" /\ UNCHANGED <<table, outcome>>
Works(t) == pc[t] \in Busy /\ pc'[t] \in Busy /\ UNCHANGED <<outcome, cur>>
Returns(t) ==
    /\ pc[t] \in Busy /\ pc'[t] = "done" /\ UNCHANGED cur
    /\ DOMAIN outcome' = DOMAIN outcome \cup {cur[t]}
    /\ \A i \in DOMAIN outcome : i # cur[t] => outcome'[i] = outcome[i]

LEMMA ReturnReturns ==
    ASSUME TInv, NEW t \in Threads, pc[t] \in Busy, NEW ret, NEW data, Return(t, ret, data),
           UNCHANGED cur
    PROVE  Returns(t) /\ outcome'[cur[t]] = [ret |-> ret, data |-> data]
  <1>1. pc'[t] = "done"  BY DEF Return, Goto, TInv, IInv, Typed
  <1> QED  BY <1>1 DEF Return, Returns

Finishes(t) ==
    \/ GetMiss(t) \/ GetData(t) \/ Update(t) \/ InsertUsed(t) \/ PurgeMiss(t) \/ PurgeUsed(t)

LEMMA StepKinds ==
    ASSUME TInv, NEW t \in Threads, process(t) \/ SpuriousWakeup(t), used < TableSize
    PROVE  Rests(t) \/ Works(t) \/ (Finishes(t) /\ Returns(t))
  <1> USE DEF input, shared
  <1>0. pc \in [Threads -> Labels]  BY DEF TInv, IInv, Typed
  <1>1. CASE ReadOp(t) \/ Recheck(t)  
    BY <1>0, <1>1 DEF ReadOp, Recheck, Dispatch, Goto, Rests, Busy, Work
  <1>2. CASE EndOfInput(t) \/ SpuriousWakeup(t) \/ DoneOne(t)
    BY <1>0, <1>2 DEF EndOfInput, SpuriousWakeup, DoneOne, Goto, Rests, Busy, Work
  <1>3. CASE ScanKey(t) \/ ScanId(t) \/ ScanCmp(t) \/ GetHit(t)
    BY <1>0, <1>3 DEF ScanKey, ScanId, ScanCmp, GetHit, AfterScan, Goto, Works, Busy, Work
  <1>4. CASE InsertBegin(t) \/ Walk1(t) \/ Walk2(t) \/ InsertId(t) \/ InsertKey(t) \/ InsertData(t)
    BY <1>0, <1>4 DEF InsertBegin, Walk1, Walk2, MoveOn, StopHere, InsertId, InsertKey, InsertData,
                      Goto, Works, Busy, Work
  <1>5. CASE PurgeHit(t) \/ PurgeId(t) \/ PurgeKey(t) \/ PurgeData(t)
    BY <1>0, <1>5 DEF PurgeHit, PurgeId, PurgeKey, PurgeData, Goto, Works, Busy, Work
  <1>6. CASE Finishes(t)
    <2>1. /\ pc[t] \in Busy /\ UNCHANGED cur /\ \E ret, data : Return(t, ret, data)
      BY <1>6 DEF Finishes, GetMiss, GetData, Update, InsertUsed, PurgeMiss, PurgeUsed, Busy, Work
    <2> QED  BY <1>6, <2>1, ReturnReturns
  <1> QED  BY <1>1, <1>2, <1>3, <1>4, <1>5, <1>6
           DEF process, lookup, insert_update, purge_key, Finishes

(* Only the return of an operation on k changes which of those are finished. *)
LEMMA InOrderKept ==
    ASSUME TInv, InOrder, NEW t \in Threads, UNCHANGED ops,
           Rests(t) \/ Works(t) \/ Returns(t)
    PROVE  InOrder'
  <1>1. CASE Rests(t) \/ Works(t)  BY <1>1 DEF Rests, Works, InOrder
  <1>2. CASE Returns(t)
    <2>1. pc[t] \in Work /\ DOMAIN outcome' = DOMAIN outcome \cup {cur[t]}
      BY <1>2 DEF Returns, Busy
    <2> SUFFICES ASSUME NEW j \in DOMAIN outcome', NEW i \in 1 .. j - 1, ops[i].key = ops[j].key
                 PROVE  i \in DOMAIN outcome'
      BY DEF InOrder
    <2>2. CASE j \in DOMAIN outcome  BY <2>1, <2>2 DEF InOrder
    <2>3. CASE j = cur[t]
      <3>1. Finished(i)
        BY <2>1, <2>3, ProcessingIsWork DEF TInv, IInv, SameKeyInOrder, KeyOf
      <3> QED  BY <2>1, <3>1 DEF Finished
    <2> QED  BY <2>1, <2>2, <2>3
  <1> QED  BY <1>1, <1>2

LEMMA ContentsKept ==
    ASSUME TInv, Fresh, InOrder, Contents, NEW t \in Threads, Touches(t),
           Rests(t) \/ Works(t) \/ Returns(t),
           Returns(t) => Content(KeyOf(t), cur[t])'
    PROVE  Contents'
  <1>0. UNCHANGED ops /\ OthersSame(t) /\ Len(ops) \in Nat
    BY DEF Touches, TInv, IInv, Typed
  <1>1. \A k, n : LastWrite(k, n)' = LastWrite(k, n) /\ (Present(k, n)' <=> Present(k, n))
    BY <1>0 DEF LastWrite, Present
  <1> SUFFICES ASSUME NEW k \in Keys, NEW n \in 0 .. Len(ops), Upto(k, n)', QuietKey(k)'
               PROVE  Content(k, n)'
    BY <1>0 DEF Contents
  <1>2. ASSUME NEW u \in Threads \ {t}, pc[u] \in Busy PROVE KeyOf(u) # k
    <2>1. pc'[u] = pc[u] /\ KeyOf(u)' = KeyOf(u)
      BY <1>0, <1>2 DEF OthersSame, KeyOf, Busy, Work
    <2> QED  BY <1>2, <2>1 DEF QuietKey, Busy
  <1>3. (pc[t] \in Busy => KeyOf(t) # k) => QuietKey(k)
    BY <1>2 DEF QuietKey, Busy
  <1>4. CASE Rests(t)
    <2>1. Upto(k, n) /\ QuietKey(k)  BY <1>0, <1>3, <1>4 DEF Rests, Upto, OpsOn
    <2>2. Content(k, n)  BY <2>1 DEF Contents
    <2> QED  BY <1>1, <1>4, <2>2 DEF Rests, Content, Absent
  <1>5. CASE Works(t) \/ (Returns(t) /\ KeyOf(t) # k)
    <2>1. KeyOf(t) # k
      <3>1. CASE Works(t)
        <4>1. KeyOf(t)' = KeyOf(t)  BY <1>0, <3>1 DEF Works, KeyOf
        <4> QED  BY <3>1, <4>1 DEF Works, QuietKey, Busy
      <3> QED  BY <1>5, <3>1
    <2>2. Upto(k, n)
      <3>1. \A i \in OpsOn(k) : i # cur[t]  BY <2>1 DEF OpsOn, KeyOf
      <3>2. \A i \in OpsOn(k) : i \in DOMAIN outcome' <=> i \in DOMAIN outcome
        BY <1>5, <3>1 DEF Works, Returns
      <3> QED  BY <1>0, <3>2 DEF Upto, OpsOn
    <2>3. Content(k, n)  BY <1>3, <2>1, <2>2 DEF Contents
    <2> QED  BY <2>1, <2>3, OtherKeys
  <1>6. CASE Returns(t) /\ KeyOf(t) = k
    <2>1. pc[t] \in Busy /\ pc[t] \in Work /\ DOMAIN outcome' = DOMAIN outcome \cup {cur[t]}
      BY <1>6 DEF Returns, Busy
    <2>2. cur[t] \in 1 .. Len(ops) /\ ops[cur[t]].key = k  BY <1>6, <2>1, KeysAre DEF KeyOf
    <2>3. \A i \in OpsOn(k) : i \in DOMAIN outcome <=> i <= cur[t] - 1
      BY <1>6, <2>1, TurnOf DEF TurnRule, Upto
    <2>4. \A i \in OpsOn(k) : i \in DOMAIN outcome' <=> i <= n
      BY <1>0 DEF Upto, OpsOn
    <2>5. cur[t] \in OpsOn(k)  BY <2>2 DEF OpsOn
    <2>6. cur[t] <= n  BY <2>1, <2>4, <2>5
    <2>7. ASSUME NEW j \in cur[t] + 1 .. n, ops[j].key = k PROVE FALSE
      <3>1. j \in OpsOn(k) /\ j # cur[t] /\ ~(j <= cur[t] - 1)  BY <1>0, <2>2, <2>7 DEF OpsOn
      <3> QED  BY <2>1, <2>3, <2>4, <2>7, <3>1
    <2>8. LastWrite(k, n) = LastWrite(k, cur[t]) /\ (Present(k, n) <=> Present(k, cur[t]))
      <3>1. cur[t] \in Nat /\ n \in Nat  BY <1>0, <2>2
      <3> QED  BY <2>6, <2>7, <3>1, LastWriteSame
    <2>9. KeyOf(t)' = k /\ cur'[t] = cur[t]  BY <1>0, <1>6 DEF Returns, KeyOf
    <2>10. Content(KeyOf(t), cur[t])'  BY <1>6
    <2> QED  BY <1>1, <2>8, <2>9, <2>10 DEF Content
  <1> QED  BY <1>4, <1>5, <1>6

-------------------------------------------------------------------------------
(* What t knows after its own step. *)
SeesNext(t) == pc'[t] # "walk2" /\ TypeFits(t)' /\ Sees(t)'

LEMMA SameTable ==
    ASSUME UNCHANGED <<ops, table>>
    PROVE  /\ \A k : Absent(k)' <=> Absent(k)
           /\ \A k, n : LastWrite(k, n)' = LastWrite(k, n)
           /\ \A k, n : Present(k, n)' <=> Present(k, n)
           /\ \A k, n : Content(k, n)' <=> Content(k, n)
           /\ \A k, c : NotPassed(k, c)' <=> NotPassed(k, c)
           /\ \A k, c : HardTo(k, c)' <=> HardTo(k, c)
           /\ \A s : (Hard(s)' <=> Hard(s)) /\ (Grave(s)' <=> Grave(s))
  <1>1. /\ \A k : Absent(k)' <=> Absent(k)
        /\ \A k, n : LastWrite(k, n)' = LastWrite(k, n)
        /\ \A s : (Hard(s)' <=> Hard(s)) /\ (Grave(s)' <=> Grave(s))
    BY DEF Absent, LastWrite, Hard, Grave
  <1>2. \A k, n : Present(k, n)' <=> Present(k, n)  BY <1>1 DEF Present
  <1>3. \A k, n : Content(k, n)' <=> Content(k, n)  BY <1>1, <1>2 DEF Content
  <1>4. /\ \A k, c : NotPassed(k, c)' <=> NotPassed(k, c)
        /\ \A k, c : HardTo(k, c)' <=> HardTo(k, c)
    BY <1>1 DEF NotPassed, HardTo, Distance, hashfunc
  <1> QED  BY <1>1, <1>2, <1>3, <1>4

LEMMA AtStart ==
    ASSUME NEW k \in Nat
    PROVE  /\ \A s \in Slots : Distance(k, hashfunc(k)) <= Distance(k, s)
           /\ \A s \in Slots : ~(Distance(k, s) < Distance(k, hashfunc(k)))
  <1>1. hashfunc(k) \in Slots  BY HashInTable
  <1>2. Distance(k, hashfunc(k)) = 0  BY <1>1, ParametersAssumption DEF Distance, Slots
  <1>3. \A s \in Slots : Distance(k, s) \in Nat  BY Distances
  <1> QED  BY <1>2, <1>3

(* An operation starts when all earlier ones on its key are finished. *)
LEMMA StartSees ==
    ASSUME TInv, Contents, TInv', Fresh', InOrder', NEW t \in Threads, OthersSame(t),
           ReadOp(t) \/ Recheck(t)
    PROVE  SeesNext(t)
  <1> USE DEF input, shared
  <1>1. /\ pc[t] \in {"read", "woken"} /\ UNCHANGED <<ops, table, outcome>>
        /\ \/ Goto(t, "wait")
           \/ Dispatch(t, cur'[t])
    BY DEF ReadOp, Recheck, TInv, IInv, Typed
  <1>2. pc \in [Threads -> Labels] /\ ctr \in [Threads -> Slots] /\ entry \in [Threads -> Slots]
    BY DEF TInv, TableTyped, IInv, Typed
  <1>3. CASE Goto(t, "wait")
    <2>1. pc'[t] = "wait"  BY <1>2, <1>3 DEF Goto
    <2> QED  BY <2>1 DEF SeesNext, TypeFits, Sees, Putting, Scanning, Deleting, Before
  <1>4. CASE Dispatch(t, cur'[t])
    <2>1. /\ pc'[t] = IF ops[cur'[t]].type = "PUT" THEN "insert" ELSE "scan_key"
          /\ ctr'[t] = hashfunc(ops[cur'[t]].key) /\ entry'[t] = hashfunc(ops[cur'[t]].key)
      BY <1>2, <1>4 DEF Dispatch, Goto
    <2>2. pc'[t] \in {"insert", "scan_key"} /\ pc'[t] \in Busy  BY <2>1 DEF Busy, Work
    <2>3. PICK k, i : k = KeyOf(t)' /\ i = cur'[t]  OBVIOUS
    <2>4. ops[i].key = k  BY <1>1, <2>3 DEF KeyOf
    <2>5. i \in 1 .. Len(ops)
      <3>1. /\ being'[t] = i /\ i # 0 /\ being'[t] < curr'
        BY <2>2, <2>3 DEF TInv, IInv, Turns, Busy
      <3>2. /\ being'[t] \in Nat /\ curr' \in 1 .. Len(ops) + 1 /\ Len(ops) \in Nat
        BY <1>1 DEF TInv, IInv, Typed, TableTyped
      <3> QED  BY <3>1, <3>2
    <2>6. k \in Keys /\ ops[i].type \in {"PUT", "GET", "DEL"}
      BY <2>4, <2>5 DEF TInv, TableTyped, Op, Keys
    <2>7. TurnRule'  BY TurnOf, PTL
    <2>8. /\ Upto(KeyOf(t), cur[t] - 1)'
          /\ \A u \in Threads \ {t} : pc'[u] \in Work => KeyOf(u)' # k
      BY <2>2, <2>3, <2>7 DEF TurnRule
    <2>9. QuietKey(k)
      <3> SUFFICES ASSUME NEW u \in Threads, pc[u] \in Busy PROVE KeyOf(u) # k
        BY DEF QuietKey, Busy
      <3>1. u # t  BY <1>1 DEF Busy, Work
      <3>2. pc'[u] = pc[u] /\ KeyOf(u)' = KeyOf(u)
        BY <1>1, <3>1 DEF OthersSame, KeyOf, Busy, Work
      <3> QED  BY <2>8, <3>1, <3>2 DEF Busy
    <2>10. Upto(k, i - 1)
      BY <1>1, <2>3, <2>8 DEF Upto, OpsOn
    <2>11. i - 1 \in 0 .. Len(ops)  BY <2>5
    <2>12. Content(k, i - 1)  BY <2>6, <2>9, <2>10, <2>11 DEF Contents
    <2>13. Content(k, i - 1)'  BY <1>1, <2>12, SameTable
    <2>14. NotPassed(k, hashfunc(k))'
      BY <2>6, AtStart DEF NotPassed, Distance, hashfunc, Keys
    <2>15. ctr'[t] = hashfunc(k) /\ entry'[t] = hashfunc(k)  BY <2>1, <2>3, <2>4
    <2>16. TypeFits(t)'
      BY <1>1, <2>1, <2>3, <2>6 DEF TypeFits, Putting, Scanning, Deleting
    <2>17. Sees(t)'
      BY <2>2, <2>3, <2>13, <2>14, <2>15 DEF Sees, Scanning, Deleting, Before
    <2> QED  BY <2>2, <2>16, <2>17 DEF SeesNext
  <1> QED  BY <1>1, <1>3, <1>4

(* The walk without locks of lookup and purge_key does not miss its key: it ends
   at an entry never used, and the key would lie before it. *)
LEMMA ScanSees ==
    ASSUME TInv, HardChains, AllSee, NEW t \in Threads,
           ScanKey(t) \/ ScanId(t) \/ ScanCmp(t) \/ GetHit(t)
    PROVE  SeesNext(t)
  <1> USE DEF input, shared
  <1> DEFINE k == KeyOf(t)
             c == ctr[t]
  <1>1. /\ pc[t] \in Scanning \cup {"get"} /\ UNCHANGED <<ops, table, cur>> /\ pc[t] \in Work
    BY DEF ScanKey, ScanId, ScanCmp, GetHit, Scanning, Work
  <1>2. /\ k \in Keys /\ k \in Nat /\ c \in Slots /\ KeyOf(t)' = k /\ Sees(t) /\ TypeFits(t)
        /\ pc \in [Threads -> Labels] /\ ctr \in [Threads -> Slots] /\ entry \in [Threads -> Slots]
    BY <1>1, KeysAre DEF Keys, KeyOf, AllSee, TInv, TableTyped, IInv, Typed
  <1>3. /\ Content(KeyOf(t), cur[t] - 1)'
        /\ \A x : Absent(x)' <=> Absent(x)
        /\ \A x, y : NotPassed(x, y)' <=> NotPassed(x, y)
        /\ \A x : Grave(x)' <=> Grave(x)
    BY <1>1, <1>2, SameTable DEF Sees, Before, Scanning
  <1>4. pc[t] \in Scanning => entry[t] = c /\ NotPassed(k, c)
    BY <1>2 DEF Sees
  <1>5. /\ \A s \in Slots : Distance(k, s) \in 0 .. TableSize - 1
        /\ \A s \in Slots : Distance(k, s) = Distance(k, c) => s = c
    BY <1>2, Distances
  <1>6. CASE ScanKey(t)
    <2>0. pc[t] = "scan_key" /\ UNCHANGED <<ctr, entry>> /\ entry[t] = c /\ NotPassed(k, c)
      BY <1>4, <1>6 DEF ScanKey, Scanning
    <2>1. CASE table[entry[t]].key # 0
      <3>1. pc'[t] = "scan_cmp"  BY <1>2, <1>6, <2>1 DEF ScanKey, Goto
      <3> QED  BY <1>1, <1>2, <1>3, <2>0, <3>1 DEF SeesNext, TypeFits, Sees, Scanning, Before, Deleting, Putting
    <2>2. CASE table[entry[t]].key = 0
      <3>1. pc'[t] = "scan_id"  BY <1>2, <1>6, <2>2 DEF ScanKey, Goto
      <3>2. Grave(c) \/ Absent(k)
        <4> SUFFICES ASSUME ~Grave(c), NEW s \in Slots, table[s].key = k PROVE FALSE
          BY DEF Absent
        <4>1. ~Hard(c) /\ s # c  BY <1>2, <2>0, <2>2 DEF Grave, Hard, Keys
        <4>2. Distance(k, c) < Distance(k, s)
          <5>1. Distance(k, c) <= Distance(k, s)  BY <2>0 DEF NotPassed
          <5>2. Distance(k, c) # Distance(k, s)  BY <1>5, <4>1
          <5>3. Distance(k, c) \in Int /\ Distance(k, s) \in Int  BY <1>2, <1>5
          <5> QED  BY <5>1, <5>2, <5>3
        <4>3. HardTo(k, s)  BY <1>2 DEF HardChains, Keys
        <4> QED  BY <1>2, <4>1, <4>2, <4>3 DEF HardTo
      <3> QED  BY <1>1, <1>2, <1>3, <2>0, <3>1, <3>2 DEF SeesNext, TypeFits, Sees, Scanning, Before, Deleting, Putting
    <2> QED  BY <2>1, <2>2
  <1>7. CASE ScanId(t)
    <2>0. pc[t] = "scan_id" /\ UNCHANGED <<ctr, entry>> /\ entry[t] = c /\ NotPassed(k, c)
      BY <1>4, <1>7 DEF ScanId, Scanning
    <2>1. CASE table[entry[t]].id = Tomb
      <3>1. pc'[t] = "scan_cmp"  BY <1>2, <1>7, <2>1 DEF ScanId, Goto
      <3> QED  BY <1>1, <1>2, <1>3, <2>0, <3>1 DEF SeesNext, TypeFits, Sees, Scanning, Before, Deleting, Putting
    <2>2. CASE table[entry[t]].id # Tomb
      <3>1. pc'[t] = AfterScan(t)  BY <1>2, <1>7, <2>2 DEF ScanId, Goto
      <3>2. Absent(k)  BY <1>2, <2>0, <2>2 DEF Sees, Grave
      <3> QED  BY <1>1, <1>2, <1>3, <2>0, <3>1, <3>2
               DEF AfterScan, SeesNext, TypeFits, Sees, Scanning, Before, Deleting, Putting
    <2> QED  BY <2>1, <2>2
  <1>8. CASE ScanCmp(t)
    <2>0. pc[t] = "scan_cmp" /\ entry[t] = c /\ NotPassed(k, c)
      BY <1>4, <1>8 DEF ScanCmp, Scanning
    <2>1. CASE table[entry[t]].key # k /\ c # LastSlot(t)
      <3> DEFINE d == (c + 1) % TableSize
      <3>1. pc'[t] = "scan_key" /\ ctr'[t] = d /\ entry'[t] = d
        BY <1>2, <1>8, <2>1 DEF ScanCmp, Goto
      <3>2. Distance(k, d) \in {0, Distance(k, c) + 1}  BY <1>2, Distances
      <3> HIDE DEF d
      <3>3. ASSUME NEW s \in Slots, table[s].key = k PROVE Distance(k, d) <= Distance(k, s)
        <4>1. Distance(k, c) <= Distance(k, s)  BY <2>0, <3>3 DEF NotPassed
        <4>2. Distance(k, c) # Distance(k, s)  BY <1>5, <2>0, <2>1, <3>3
        <4>3. Distance(k, c) \in Nat /\ Distance(k, s) \in Nat  BY <1>2, <1>5
        <4> QED  BY <3>2, <4>1, <4>2, <4>3
      <3>4. NotPassed(k, d)  BY <3>3 DEF NotPassed
      <3> QED  BY <1>1, <1>2, <1>3, <3>1, <3>4 DEF SeesNext, TypeFits, Sees, Scanning, Before, Deleting, Putting
    <2>2. CASE ~(table[entry[t]].key # k /\ c # LastSlot(t))
      <3>1. pc'[t] = AfterScan(t) /\ UNCHANGED <<ctr, entry>>
        BY <1>2, <1>8, <2>2 DEF ScanCmp, Goto
      <3>2. table[entry[t]].key = k \/ Absent(k)
        <4> SUFFICES ASSUME c = LastSlot(t), table[c].key # k, NEW s \in Slots, table[s].key = k
                     PROVE  FALSE
          BY <2>0, <2>2 DEF Absent
        <4>1. Distance(k, c) = TableSize - 1  BY <1>2, Distances DEF LastSlot, hashval
        <4>2. Distance(k, c) <= Distance(k, s)  BY <2>0 DEF NotPassed
        <4>3. Distance(k, s) \in 0 .. TableSize - 1 /\ TableSize \in Nat
          BY <1>5, ParametersAssumption
        <4>4. Distance(k, s) = Distance(k, c)  BY <4>1, <4>2, <4>3
        <4> QED  BY <1>5, <4>4
      <3> QED  BY <1>1, <1>2, <1>3, <2>0, <3>1, <3>2
               DEF AfterScan, SeesNext, TypeFits, Sees, Scanning, Before, Deleting, Putting
    <2> QED  BY <2>1, <2>2
  <1>9. CASE GetHit(t)
    <2>1. pc[t] = "get" /\ pc'[t] = "get_data" /\ table[entry[t]].key = k /\ UNCHANGED entry
      BY <1>2, <1>9 DEF GetHit, Goto
    <2> QED  BY <1>1, <1>2, <1>3, <2>1 DEF SeesNext, TypeFits, Sees, Scanning, Before, Deleting, Putting
  <1> QED  BY <1>6, <1>7, <1>8, <1>9

(* The first walk of insert_update has passed hard entries only, and not all
   entries are hard. *)
LEMMA BeginSees ==
    ASSUME TInv, Running, AllSee, NEW t \in Threads, InsertBegin(t), used < TableSize
    PROVE  SeesNext(t)
  <1> USE DEF input, shared
  <1>1. /\ pc[t] = "insert" /\ pc'[t] = "walk" /\ UNCHANGED <<ops, cur, table, ctr, entry>>
    BY DEF InsertBegin, Goto, TInv, IInv, Typed
  <1>2. KeyOf(t) \in Nat /\ KeyOf(t)' = KeyOf(t) /\ ctr[t] = hashfunc(KeyOf(t))
    BY <1>1, KeysAre DEF Work, KeyOf, Running, Knows, hashval
  <1>3. HardTo(KeyOf(t), ctr[t])  BY <1>2, AtStart DEF HardTo
  <1>4. HardTo(KeyOf(t), ctr[t])' /\ Content(KeyOf(t), cur[t] - 1)'
    BY <1>1, <1>2, <1>3, SameTable DEF AllSee, Sees, Before
  <1>5. TypeFits(t) /\ Sees(t)  BY DEF AllSee
  <1> QED  BY <1>1, <1>2, <1>4, <1>5 DEF SeesNext, TypeFits, Sees, Scanning, Before, Deleting, Putting

(* A walk that has come round over hard entries has seen the whole table. *)
LEMMA AllHard ==
    ASSUME NEW k \in Nat, NEW c \in Slots, Distance(k, c) = TableSize - 1, HardTo(k, c), Hard(c),
           NEW s \in Slots
    PROVE  Hard(s)
  <1>1. CASE s = c  BY <1>1
  <1>2. CASE s # c
    <2>1. /\ Distance(k, s) \in 0 .. TableSize - 1 /\ TableSize \in Nat
          /\ Distance(k, s) # Distance(k, c)
      BY <1>2, Distances, ParametersAssumption
    <2>2. Distance(k, s) < Distance(k, c)  BY <2>1
    <2> QED  BY <2>2 DEF HardTo
  <1> QED  BY <1>1, <1>2

LEMMA WalkSees ==
    ASSUME TInv, Running, AllSee, NEW t \in Threads, Walk1(t), \E s \in Slots : ~Hard(s)
    PROVE  SeesNext(t)
  <1> USE DEF input
  <1> DEFINE k == KeyOf(t)
             c == ctr[t]
  <1>1. /\ pc[t] = "walk" /\ UNCHANGED <<ops, table, cur>> /\ elock[entry[t]] = None
        /\ pc \in [Threads -> Labels] /\ ctr \in [Threads -> Slots] /\ entry \in [Threads -> Slots]
    BY DEF Walk1, TInv, TableTyped, IInv, Typed
  <1>2. /\ k \in Keys /\ k \in Nat /\ c \in Slots /\ KeyOf(t)' = k /\ cur[t] \in 1 .. Len(ops)
        /\ ops[cur[t]].type = "PUT" /\ entry[t] = c /\ HardTo(k, c) /\ Content(k, cur[t] - 1)
    BY <1>1, KeysAre DEF Work, Keys, KeyOf, AllSee, TypeFits, Sees, Putting, Before, Running, Knows
  <1>3. /\ Content(KeyOf(t), cur[t] - 1)'
        /\ \A x, y : HardTo(x, y)' <=> HardTo(x, y)
        /\ \A x : Hard(x)' <=> Hard(x)
    BY <1>1, <1>2, SameTable
  <1>4. /\ \A s \in Slots : Distance(k, s) \in 0 .. TableSize - 1
        /\ \A s \in Slots : Distance(k, s) = Distance(k, c) => s = c
        /\ c = LastSlot(t) => Distance(k, c) = TableSize - 1
    BY <1>2, Distances DEF LastSlot, hashval
  <1>5. c = LastSlot(t) => ~Hard(c)
    BY <1>2, <1>4, AllHard
  <1>6. CASE Passes1(t)
    <2> DEFINE d == (c + 1) % TableSize
    <2>1. pc'[t] = "walk" /\ ctr'[t] = d /\ entry'[t] = d
      BY <1>1, <1>6 DEF Walk1, MoveOn, Goto
    <2>2. Hard(c)  BY <1>2, <1>6 DEF Passes1, Hard
    <2>3. Distance(k, d) \in {0, Distance(k, c) + 1}  BY <1>2, Distances
    <2> HIDE DEF d
    <2>4. ASSUME NEW r \in Slots, Distance(k, r) < Distance(k, d) PROVE Hard(r)
      <3>1. Distance(k, r) \in Nat /\ Distance(k, c) \in Nat  BY <1>2, <1>4
      <3>2. Distance(k, r) < Distance(k, c) \/ Distance(k, r) = Distance(k, c)
        BY <2>3, <2>4, <3>1
      <3> QED  BY <1>2, <1>4, <2>2, <3>2 DEF HardTo
    <2>5. HardTo(k, d)  BY <2>4 DEF HardTo
    <2> QED  BY <1>1, <1>2, <1>3, <2>1, <2>5 DEF SeesNext, TypeFits, Sees, Scanning, Before, Deleting, Putting
  <1>7. CASE ~Passes1(t)
    <2>1. ~(c = LastSlot(t) /\ Passes2(t))  BY <1>2, <1>5 DEF Passes2, Hard
    <2>2. StopHere(t)  BY <1>7, <2>1 DEF Walk1
    <2>3. CASE table[entry[t]].key = k
      <3>1. pc'[t] = "update"  BY <1>1, <2>2, <2>3 DEF StopHere, Goto
      <3> QED  BY <1>1, <1>2, <1>3, <3>1 DEF SeesNext, TypeFits, Sees, Scanning, Before, Deleting, Putting
    <2>4. CASE table[entry[t]].key # k
      <3>1. pc'[t] = "ins_id" /\ UNCHANGED <<ctr, entry>>  BY <1>1, <2>2, <2>4 DEF StopHere, Goto
      <3>2. ~Hard(c)  BY <1>2, <1>5, <1>7, <2>4 DEF Passes1, Hard
      <3>3. Absent(k)  BY <1>1, <1>7, <2>4, WalkedPast
      <3>4. cur[t] \in Insertions(ops)
        <4>1. ~Present(ops[cur[t]].key, cur[t] - 1)  BY <1>2, <3>3 DEF Content, KeyOf
        <4> QED  BY <1>2, <4>1, NewInsertion DEF TInv
      <3> QED  BY <1>1, <1>2, <1>3, <3>1, <3>2, <3>4
               DEF SeesNext, TypeFits, Sees, Scanning, Before, Deleting, Putting
    <2> QED  BY <2>3, <2>4
  <1> QED  BY <1>6, <1>7

(* The key of t is in its entry alone, with this operation's id and data. *)
LEMMA NowThere ==
    ASSUME TInv, TInv', NEW t \in Threads, UNCHANGED <<ops, cur, entry>>, pc[t] \in Work,
           ops[cur[t]].type = "PUT", table'[entry[t]].key = KeyOf(t),
           table'[entry[t]].id = cur[t], table'[entry[t]].data = cur[t]
    PROVE  Content(KeyOf(t), cur[t])'
  <1>1. /\ KeyOf(t)' = KeyOf(t) /\ KeyOf(t) \in Keys /\ cur[t] \in 1 .. Len(ops)
        /\ entry[t] \in Slots
    BY KeysAre DEF KeyOf, Keys, TInv, TableTyped
  <1>2. LastWrite(KeyOf(t), cur[t]) = cur[t] /\ Present(KeyOf(t), cur[t])
    BY <1>1, LastWriteNow DEF KeyOf
  <1>3. /\ LastWrite(KeyOf(t), cur[t])' = cur[t] /\ Present(KeyOf(t), cur[t])'
    <2>1. LastWrite(KeyOf(t), cur[t])' = LastWrite(KeyOf(t), cur[t])
      BY <1>1 DEF LastWrite
    <2>2. Present(KeyOf(t), cur[t])' <=> Present(KeyOf(t), cur[t])
      BY <1>1, <2>1 DEF Present
    <2> QED  BY <1>2, <2>1, <2>2
  <1>4. \A s \in Slots : table'[s].key = KeyOf(t) => s = entry[t]
    BY <1>1 DEF TInv, NoDuplicateKeys, Keys
  <1>5. ~Absent(KeyOf(t))'  BY <1>1 DEF Absent
  <1> QED  BY <1>1, <1>3, <1>4, <1>5 DEF Content

(* The stores of insert_update, under the lock of the entry ... *)
LEMMA InsertSees ==
    ASSUME TInv, Running, Fresh, AllSee, TInv', NEW t \in Threads, Touches(t),
           InsertId(t) \/ InsertKey(t) \/ InsertData(t)
    PROVE  SeesNext(t)
  <1> USE DEF input
  <1> DEFINE k == KeyOf(t)
             x == entry[t]
  <1>1. /\ pc[t] \in {"ins_id", "ins_key", "ins_data"} /\ UNCHANGED <<ops, cur, ctr, entry>>
        /\ pc \in [Threads -> Labels] /\ table \in [Slots -> [id : Nat, key : Nat, data : Nat]]
        /\ pc[t] \in Work /\ pc[t] \in Holding
    BY DEF InsertId, InsertKey, InsertData, TInv, TableTyped, IInv, Typed, Work, Holding
  <1>2. /\ k \in Keys /\ k # 0 /\ KeyOf(t)' = k /\ cur[t] \in 1 .. Len(ops) /\ cur'[t] = cur[t]
        /\ ops[cur[t]].type = "PUT" /\ cur[t] \in Insertions(ops)
        /\ entry[t] \in Slots /\ Sees(t) /\ Knows(t)
    BY <1>1, KeysAre DEF Keys, KeyOf, AllSee, TypeFits, Sees, Putting, Running, TInv, TableTyped
  <1>3. pc'[t] \in Putting => TypeFits(t)'
    BY <1>1, <1>2 DEF TypeFits, Scanning, Deleting, Putting
  <1>4. CASE InsertId(t)
    <2>1. /\ pc[t] = "ins_id" /\ pc'[t] = "ins_key"
          /\ table'[x] = [table[x] EXCEPT !.id = cur[t]]
          /\ \A s \in Slots \ {x} : table'[s] = table[s]
      BY <1>1, <1>2, <1>4 DEF InsertId, Goto
    <2>2. table[x].key = 0 /\ HardTo(k, x)  BY <1>2, <2>1 DEF Sees, Hard
    <2>3. table'[x].key = 0 /\ table'[x].id = cur[t]  BY <1>1, <1>2, <2>1, <2>2
    <2>4. cur[t] # Tomb
      BY <1>2, ParametersAssumption DEF Fresh, Tomb
    <2>5. ~Hard(x)'  BY <1>1, <2>3, <2>4 DEF Hard
    <2>6. HardTo(k, x)'
      BY <1>1, <1>2, <2>2 DEF HardTo, Distance, hashfunc, Touches
    <2>8. \A y, m : y = k /\ m = cur[t] - 1 => Content(y, m)'
      <3> SUFFICES ASSUME NEW y, NEW m, y = k, m = cur[t] - 1 PROVE Content(y, m)'
        OBVIOUS
      <3>1. Content(y, m)  BY <1>2, <2>1 DEF Sees, Before
      <3>2. LastWrite(y, m)' = LastWrite(y, m)  BY <1>1 DEF LastWrite
      <3>3. Present(y, m)' <=> Present(y, m)  BY <1>1, <3>2 DEF Present
      <3>4. \A s \in Slots : table[s].key = y \/ table'[s].key = y => table'[s] = table[s]
        BY <1>2, <2>1, <2>2, <2>3
      <3>5. Absent(y)' <=> Absent(y)  BY <3>4 DEF Absent
      <3> QED  BY <3>1, <3>2, <3>3, <3>4, <3>5 DEF Content
    <2> HIDE DEF k, x
    <2>9. Sees(t)'
      BY <1>1, <1>2, <2>1, <2>3, <2>5, <2>6, <2>8 DEF k, x, Sees, Scanning, Before, Deleting
    <2> QED  BY <1>3, <2>1, <2>9 DEF SeesNext, Putting
  <1>5. CASE InsertKey(t)
    <2>1. /\ pc[t] = "ins_key" /\ pc'[t] = "ins_data"
          /\ table'[x] = [table[x] EXCEPT !.key = k]
      BY <1>1, <1>2, <1>5 DEF InsertKey, Goto
    <2>2. table[x].id = cur[t]  BY <1>2, <2>1 DEF Sees
    <2>3. table'[x].key = k /\ table'[x].id = cur[t]  BY <1>1, <1>2, <2>1, <2>2
    <2>4. Sees(t)'
      BY <1>1, <1>2, <2>1, <2>3 DEF Sees, Scanning, Before, Deleting
    <2> QED  BY <1>3, <2>1, <2>4 DEF SeesNext, Putting
  <1>6. CASE InsertData(t)
    <2>1. /\ pc[t] = "ins_data" /\ pc'[t] = "ins_used"
          /\ table'[x] = [table[x] EXCEPT !.data = cur[t]]
      BY <1>1, <1>2, <1>6 DEF InsertData, Goto
    <2>2. table[x].id = cur[t] /\ table[x].key = k  BY <1>2, <2>1 DEF Sees
    <2>3. table'[x].key = k /\ table'[x].id = cur[t] /\ table'[x].data = cur[t]
      BY <1>1, <1>2, <2>1, <2>2
    <2>4. Content(KeyOf(t), cur[t])'  BY <1>1, <1>2, <2>3, NowThere
    <2>5. Sees(t)'
      BY <1>1, <1>2, <2>1, <2>4 DEF Sees, Scanning, Before, Deleting
    <2> QED  BY <1>3, <2>1, <2>5 DEF SeesNext, Putting
  <1> QED  BY <1>4, <1>5, <1>6

(* ... and those of purge_key. *)
LEMMA PurgeSees ==
    ASSUME TInv, Running, AllSee, NEW t \in Threads,
           PurgeHit(t) \/ PurgeId(t) \/ PurgeKey(t) \/ PurgeData(t)
    PROVE  SeesNext(t)
  <1> USE DEF input
  <1> DEFINE k == KeyOf(t)
             x == entry[t]
  <1>1. /\ pc[t] \in {"del", "del_id", "del_key", "del_data"} /\ UNCHANGED <<ops, cur, ctr, entry>>
        /\ pc \in [Threads -> Labels] /\ table \in [Slots -> [id : Nat, key : Nat, data : Nat]]
        /\ pc[t] \in Work
    BY DEF PurgeHit, PurgeId, PurgeKey, PurgeData, TInv, TableTyped, IInv, Typed, Work
  <1>2. /\ k \in Keys /\ k # 0 /\ KeyOf(t)' = k /\ cur'[t] = cur[t]
        /\ ops[cur[t]].type = "DEL" /\ entry[t] \in Slots /\ Sees(t) /\ Knows(t)
    BY <1>1, KeysAre DEF Keys, KeyOf, AllSee, TypeFits, Deleting, Running, TInv, TableTyped
  <1>3. pc'[t] \in Deleting => TypeFits(t)'
    BY <1>1, <1>2 DEF TypeFits, Scanning, Deleting, Putting
  <1>4. Present(KeyOf(t), cur[t] - 1)' <=> Present(k, cur[t] - 1)
    BY <1>1, <1>2 DEF Present, LastWrite
  <1>5. CASE PurgeHit(t)
    <2>1. pc[t] = "del" /\ pc'[t] = "del_id" /\ table[x].key = k /\ UNCHANGED table
      BY <1>1, <1>5 DEF PurgeHit, Goto
    <2>2. Content(k, cur[t] - 1)  BY <1>2, <2>1 DEF Sees, Before
    <2>3. Present(k, cur[t] - 1)  BY <1>2, <2>1, <2>2 DEF Content, Absent
    <2>4. Content(KeyOf(t), cur[t] - 1)'  BY <1>1, <1>2, <2>1, <2>2, SameTable
    <2>5. Sees(t)'
      BY <1>1, <1>2, <1>4, <2>1, <2>3, <2>4 DEF Sees, Scanning, Before, Deleting
    <2> QED  BY <1>3, <2>1, <2>5 DEF SeesNext, Deleting
  <1>6. CASE PurgeId(t)
    <2>1. pc[t] = "del_id" /\ pc'[t] = "del_key"
      BY <1>1, <1>6 DEF PurgeId, Goto
    <2>2. Sees(t)'
      BY <1>1, <1>2, <1>4, <2>1 DEF Sees, Scanning, Before, Deleting
    <2> QED  BY <1>3, <2>1, <2>2 DEF SeesNext, Deleting
  <1>7. CASE PurgeKey(t)
    <2>1. /\ pc[t] = "del_key" /\ pc'[t] = "del_data"
          /\ table'[x] = [table[x] EXCEPT !.key = 0]
          /\ \A s \in Slots \ {x} : table'[s] = table[s]
      BY <1>1, <1>2, <1>7 DEF PurgeKey, Goto
    <2>2. table'[x].key = 0 /\ table[x].key = k  BY <1>1, <1>2, <2>1 DEF Knows
    <2>3. \A s \in Slots \ {x} : table[s].key # k
      BY <1>2, <2>2 DEF TInv, NoDuplicateKeys
    <2>4. Absent(KeyOf(t))'
      <3>1. \A s \in Slots : table'[s].key # k
        <4> SUFFICES ASSUME NEW s \in Slots PROVE table'[s].key # k  OBVIOUS
        <4>1. CASE s = x  BY <1>2, <2>2, <4>1
        <4>2. CASE s # x
          <5>1. table'[s] = table[s]  BY <2>1, <4>2
          <5> QED  BY <2>3, <4>2, <5>1
        <4> QED  BY <4>1, <4>2
      <3> QED  BY <1>2, <3>1 DEF Absent
    <2>5. Sees(t)'
      BY <1>1, <1>2, <1>4, <2>1, <2>2, <2>4 DEF Sees, Scanning, Before, Deleting
    <2> QED  BY <1>3, <2>1, <2>5 DEF SeesNext, Deleting
  <1>8. CASE PurgeData(t)
    <2>1. /\ pc[t] = "del_data" /\ pc'[t] = "del_used"
          /\ \A s \in Slots : table'[s].key = table[s].key
      BY <1>1, <1>2, <1>8 DEF PurgeData, Goto
    <2>2. Absent(KeyOf(t))'  BY <1>2, <2>1 DEF Sees, Absent
    <2>3. Sees(t)'
      BY <1>1, <1>2, <1>4, <2>1, <2>2 DEF Sees, Scanning, Before, Deleting
    <2> QED  BY <1>3, <2>1, <2>3 DEF SeesNext, Deleting
  <1> QED  BY <1>5, <1>6, <1>7, <1>8

-------------------------------------------------------------------------------
(* The table always has an entry to spare. *)
LEMMA FiniteInsertions ==
    ASSUME ops \in Programs
    PROVE  /\ \A S \in SUBSET Insertions(ops) : IsFiniteSet(S) /\ Cardinality(S) \in Nat
           /\ \A S \in SUBSET Insertions(ops) : Cardinality(S) <= Cardinality(Insertions(ops))
  <1>1. IsFiniteSet(1 .. Len(ops))  BY FS_Interval, ParametersAssumption
  <1>2. IsFiniteSet(Insertions(ops))  BY <1>1, FS_Subset DEF Insertions
  <1> QED  BY <1>2, FS_Subset, FS_CardinalityType

LEMMA SomeFree ==
    ASSUME EntriesSuffice, ops \in Programs, HardCount
    PROVE  \E s \in Slots : ~Hard(s)
  <1> SUFFICES ASSUME \A s \in Slots : Hard(s) PROVE FALSE  OBVIOUS
  <1>1. HardSlots = Slots  BY DEF HardSlots
  <1>2. Cardinality(Slots) = TableSize
    <2>1. TableSize - 1 \in Int /\ TableSize > 0 /\ TableSize \in Nat  BY ParametersAssumption
    <2>2. Cardinality(0 .. TableSize - 1) = IF 0 > TableSize - 1 THEN 0 ELSE TableSize - 1 - 0 + 1
      BY <2>1, FS_Interval
    <2> QED  BY <2>1, <2>2 DEF Slots
  <1>3. Inserted \subseteq Insertions(ops)  BY DEF Inserted
  <1>4. /\ Cardinality(Inserted) \in Nat /\ Cardinality(Insertions(ops)) \in Nat
        /\ Cardinality(Inserted) <= Cardinality(Insertions(ops))
    BY <1>3, FiniteInsertions
  <1>5. Cardinality(Insertions(ops)) < TableSize  BY DEF EntriesSuffice
  <1> QED  BY <1>1, <1>2, <1>4, <1>5, ParametersAssumption DEF HardCount

LEMMA UsedFits ==
    ASSUME EntriesSuffice, ops \in Programs, UsedCount, used \in Nat
    PROVE  used < TableSize
  <1> DEFINE D == Insertions(ops) \cap DOMAIN outcome
  <1>1. D \subseteq Insertions(ops)  OBVIOUS
  <1>2. /\ Cardinality(D) \in Nat /\ Cardinality(Insertions(ops)) \in Nat
        /\ Cardinality(D) <= Cardinality(Insertions(ops))
    BY <1>1, FiniteInsertions
  <1>3. Cardinality(Insertions(ops)) < TableSize  BY DEF EntriesSuffice
  <1>4. used <= Cardinality(D)  BY DEF UsedCount
  <1> QED  BY <1>2, <1>3, <1>4, ParametersAssumption

-------------------------------------------------------------------------------
(* What the functions return. *)
LEMMA GetReturns ==
    ASSUME TInv, AllSee, NEW t \in Threads, GetMiss(t) \/ GetData(t)
    PROVE  Content(KeyOf(t), cur[t])' /\ outcome'[cur[t]] = SerialOutcome(cur[t])
  <1> USE DEF input, shared
  <1>1. /\ pc[t] \in {"get", "get_data"} /\ UNCHANGED <<ops, cur, table>>
        /\ pc[t] \in Work /\ pc[t] \in Busy
    BY DEF GetMiss, GetData, Work, Busy
  <1>2. /\ cur[t] \in 1 .. Len(ops) /\ ops[cur[t]].type = "GET" /\ Content(KeyOf(t), cur[t] - 1)
        /\ KeyOf(t)' = KeyOf(t) /\ cur'[t] = cur[t] /\ Sees(t)
    BY <1>1, KeysAre DEF AllSee, TypeFits, Sees, Before, KeyOf
  <1>3. Content(KeyOf(t), cur[t])'
    <2>1. /\ LastWrite(KeyOf(t), cur[t]) = LastWrite(KeyOf(t), cur[t] - 1)
          /\ Present(KeyOf(t), cur[t]) <=> Present(KeyOf(t), cur[t] - 1)
      <3>1. /\ cur[t] - 1 \in Nat /\ cur[t] \in Nat /\ cur[t] - 1 <= cur[t]
            /\ \A j \in (cur[t] - 1) + 1 .. cur[t] : j = cur[t]
        BY <1>2
      <3> QED  BY <1>2, <3>1, LastWriteSame
    <2>2. Content(KeyOf(t), cur[t])  BY <1>2, <2>1 DEF Content
    <2> QED  BY <1>1, <1>2, <2>2, SameTable
  <1>4. CASE GetMiss(t)
    <2>1. Absent(KeyOf(t))  BY <1>2, <1>4 DEF GetMiss, Sees
    <2>2. ~Present(KeyOf(t), cur[t] - 1)  BY <1>2, <2>1 DEF Content
    <2>3. SerialOutcome(cur[t]) = [ret |-> -1, data |-> 0]
      BY <1>2, <2>2 DEF SerialOutcome, KeyOf
    <2>4. outcome'[cur[t]] = [ret |-> -1, data |-> 0]
      BY <1>1, <1>4, ReturnReturns DEF GetMiss
    <2> QED  BY <1>3, <2>3, <2>4
  <1>5. CASE GetData(t)
    <2>1. table[entry[t]].key = KeyOf(t) /\ entry[t] \in Slots
      BY <1>2, <1>5 DEF GetData, Sees, TInv, TableTyped
    <2>2. Present(KeyOf(t), cur[t] - 1)  BY <1>2, <2>1 DEF Content, Absent
    <2>3. SerialOutcome(cur[t]) = [ret |-> 0, data |-> LastWrite(KeyOf(t), cur[t] - 1)]
      BY <1>2, <2>2 DEF SerialOutcome, KeyOf
    <2>4. outcome'[cur[t]] = [ret |-> 0, data |-> table[entry[t]].data]
      BY <1>1, <1>5, ReturnReturns DEF GetData
    <2>5. table[entry[t]].data = LastWrite(KeyOf(t), cur[t] - 1)
      BY <1>2, <2>1 DEF Content
    <2> QED  BY <1>3, <2>3, <2>4, <2>5
  <1> QED  BY <1>4, <1>5

LEMMA PutReturns ==
    ASSUME TInv, Running, AllSee, TInv', NEW t \in Threads, Update(t) \/ InsertUsed(t)
    PROVE  Content(KeyOf(t), cur[t])' /\ outcome'[cur[t]] = SerialOutcome(cur[t])
  <1> USE DEF input, shared
  <1>1. /\ pc[t] \in {"update", "ins_used"} /\ UNCHANGED <<ops, cur, entry>>
        /\ pc[t] \in Work /\ pc[t] \in Busy /\ Return(t, 0, 0)
    BY DEF Update, InsertUsed, Work, Busy
  <1>2. /\ cur[t] \in 1 .. Len(ops) /\ ops[cur[t]].type = "PUT"
        /\ KeyOf(t)' = KeyOf(t) /\ cur'[t] = cur[t] /\ Sees(t) /\ entry[t] \in Slots
    BY <1>1, KeysAre DEF AllSee, TypeFits, Putting, KeyOf, TInv, TableTyped
  <1>3. SerialOutcome(cur[t]) = [ret |-> 0, data |-> 0]  BY <1>2 DEF SerialOutcome
  <1>4. outcome'[cur[t]] = [ret |-> 0, data |-> 0]  BY <1>1, ReturnReturns
  <1>5. CASE Update(t)
    <2>1. table[entry[t]].key = KeyOf(t)  BY <1>5 DEF Update, Running, Knows
    <2>2. /\ table \in [Slots -> [id : Nat, key : Nat, data : Nat]]
          /\ table' = [table EXCEPT ![entry[t]].id = cur[t], ![entry[t]].data = cur[t]]
      BY <1>5 DEF Update, TInv, TableTyped
    <2>3. /\ table'[entry[t]].key = KeyOf(t) /\ table'[entry[t]].id = cur[t]
          /\ table'[entry[t]].data = cur[t]
      BY <1>2, <2>1, <2>2
    <2>4. Content(KeyOf(t), cur[t])'  BY <1>1, <1>2, <2>3, NowThere
    <2> QED  BY <1>3, <1>4, <2>4
  <1>6. CASE InsertUsed(t)
    <2>1. Content(KeyOf(t), cur[t]) /\ UNCHANGED table  BY <1>2, <1>6 DEF InsertUsed, Sees
    <2>2. Content(KeyOf(t), cur[t])'  BY <1>1, <1>2, <2>1, SameTable
    <2> QED  BY <1>3, <1>4, <2>2
  <1> QED  BY <1>5, <1>6

LEMMA DelReturns ==
    ASSUME TInv, AllSee, NEW t \in Threads, PurgeMiss(t) \/ PurgeUsed(t)
    PROVE  Content(KeyOf(t), cur[t])' /\ outcome'[cur[t]] = SerialOutcome(cur[t])
  <1> USE DEF input, shared
  <1>1. /\ pc[t] \in {"del", "del_used"} /\ UNCHANGED <<ops, cur, table>>
        /\ pc[t] \in Work /\ pc[t] \in Busy
    BY DEF PurgeMiss, PurgeUsed, Work, Busy
  <1>2. /\ cur[t] \in 1 .. Len(ops) /\ ops[cur[t]].type = "DEL"
        /\ KeyOf(t)' = KeyOf(t) /\ cur'[t] = cur[t] /\ Sees(t)
    BY <1>1, KeysAre DEF AllSee, TypeFits, Deleting, KeyOf
  <1>3. Absent(KeyOf(t))  BY <1>1, <1>2 DEF PurgeMiss, PurgeUsed, Sees
  <1>4. Content(KeyOf(t), cur[t])'
    <2>1. ~Present(KeyOf(t), cur[t])
      <3>1. cur[t] \in Nat \ {0}  BY <1>2
      <3> QED  BY <1>2, <3>1, LastWriteNow DEF KeyOf
    <2>2. Content(KeyOf(t), cur[t])  BY <1>3, <2>1 DEF Content, Absent
    <2> QED  BY <1>1, <1>2, <2>2, SameTable
  <1>5. CASE PurgeMiss(t)
    <2>1. ~Present(KeyOf(t), cur[t] - 1)
      BY <1>2, <1>3, <1>5 DEF PurgeMiss, Sees, Before, Content
    <2>2. SerialOutcome(cur[t]) = [ret |-> -1, data |-> 0]
      BY <1>2, <2>1 DEF SerialOutcome, KeyOf
    <2>3. outcome'[cur[t]] = [ret |-> -1, data |-> 0]
      BY <1>1, <1>5, ReturnReturns DEF PurgeMiss
    <2> QED  BY <1>4, <2>2, <2>3
  <1>6. CASE PurgeUsed(t)
    <2>1. Present(KeyOf(t), cur[t] - 1)
      BY <1>2, <1>6 DEF PurgeUsed, Sees, Deleting
    <2>2. SerialOutcome(cur[t]) = [ret |-> 0, data |-> 0]
      BY <1>2, <2>1 DEF SerialOutcome, KeyOf
    <2>3. outcome'[cur[t]] = [ret |-> 0, data |-> 0]
      BY <1>1, <1>6, ReturnReturns DEF PurgeUsed
    <2> QED  BY <1>4, <2>2, <2>3
  <1> QED  BY <1>5, <1>6

-------------------------------------------------------------------------------
LEMMA FinishSees ==
    ASSUME TInv, Running, AllSee, TInv', NEW t \in Threads, Finishes(t)
    PROVE  Content(KeyOf(t), cur[t])' /\ outcome'[cur[t]] = SerialOutcome(cur[t])
  BY GetReturns, PutReturns, DelReturns DEF Finishes

LEMMA SeesKept ==
    ASSUME TInv, Running, Fresh, HardChains, AllSee, Contents, TInv', Fresh', InOrder',
           NEW t \in Threads, Touches(t), process(t) \/ SpuriousWakeup(t), used < TableSize,
           \E s \in Slots : ~Hard(s)
    PROVE  AllSee'
  <1>1. pc \in [Threads -> Labels]  BY DEF TInv, IInv, Typed
  <1>2. SeesNext(t)
    <2>1. CASE ReadOp(t) \/ Recheck(t)  BY <2>1, StartSees DEF Touches
    <2>2. CASE EndOfInput(t) \/ SpuriousWakeup(t) \/ DoneOne(t)
      <3>1. pc'[t] \in {"exit", "woken", "read"}
        BY <1>1, <2>2 DEF EndOfInput, SpuriousWakeup, DoneOne, Goto
      <3> QED  BY <3>1 DEF SeesNext, TypeFits, Sees, Putting, Scanning, Deleting, Before
    <2>3. CASE ScanKey(t) \/ ScanId(t) \/ ScanCmp(t) \/ GetHit(t)  BY <2>3, ScanSees
    <2>4. CASE InsertBegin(t)  BY <2>4, BeginSees
    <2>5. CASE Walk1(t)  BY <2>5, WalkSees
    <2>6. CASE Walk2(t)  BY <2>6 DEF Walk2, AllSee
    <2>7. CASE InsertId(t) \/ InsertKey(t) \/ InsertData(t)  BY <2>7, InsertSees
    <2>8. CASE PurgeHit(t) \/ PurgeId(t) \/ PurgeKey(t) \/ PurgeData(t)  BY <2>8, PurgeSees
    <2>9. CASE Finishes(t)
      <3>1. pc'[t] = "done"
        BY <1>1, <2>9 DEF Finishes, GetMiss, GetData, Update, InsertUsed, PurgeMiss, PurgeUsed,
                          Return, Goto
      <3> QED  BY <3>1 DEF SeesNext, TypeFits, Sees, Putting, Scanning, Deleting, Before
    <2> QED
      BY <2>1, <2>2, <2>3, <2>4, <2>5, <2>6, <2>7, <2>8, <2>9
      DEF process, lookup, insert_update, purge_key, Finishes
  <1>3. \A u \in Threads \ {t} : pc'[u] # "walk2" /\ TypeFits(u)' /\ Sees(u)'
    BY OthersSee
  <1> QED  BY <1>2, <1>3 DEF SeesNext, AllSee

LEMMA OutcomesKept ==
    ASSUME TInv, Running, AllSee, OutcomesSerial, TInv', NEW t \in Threads, UNCHANGED ops,
           Rests(t) \/ Works(t) \/ (Finishes(t) /\ Returns(t))
    PROVE  OutcomesSerial'
  <1>1. \A i : SerialOutcome(i)' = SerialOutcome(i)
    BY DEF SerialOutcome, Present, LastWrite
  <1>2. CASE Rests(t) \/ Works(t)  BY <1>1, <1>2 DEF Rests, Works, OutcomesSerial
  <1>3. CASE Finishes(t) /\ Returns(t)
    <2>1. outcome'[cur[t]] = SerialOutcome(cur[t])  BY <1>3, FinishSees
    <2> QED  BY <1>1, <1>3, <2>1 DEF Returns, OutcomesSerial
  <1> QED  BY <1>2, <1>3

-------------------------------------------------------------------------------
(* Each hard entry is an insertion's. *)
LEMMA InsertedKept ==
    ASSUME TInv, NEW t \in Threads, OthersSame(t), UNCHANGED ops,
           process(t) \/ SpuriousWakeup(t), Rests(t) \/ Works(t) \/ Returns(t)
    PROVE  Inserted \subseteq Inserted'
  <1> SUFFICES ASSUME NEW i \in Insertions(ops),
                      i \in DOMAIN outcome \/ \E u \in Uncounted : cur[u] = i
               PROVE  i \in DOMAIN outcome' \/ \E u \in Uncounted' : cur'[u] = i
    <2>1. Insertions(ops)' = Insertions(ops)  BY DEF Insertions
    <2> QED  BY <2>1 DEF Inserted
  <1>0. DOMAIN outcome \subseteq DOMAIN outcome'  BY DEF Rests, Works, Returns
  <1>1. CASE i \in DOMAIN outcome  BY <1>0, <1>1
  <1>2. CASE \E u \in Uncounted : cur[u] = i
    <2>1. PICK u \in Uncounted : cur[u] = i  BY <1>2
    <2>2. u \in Threads /\ pc[u] \in {"ins_data", "ins_used"}  BY <2>1 DEF Uncounted
    <2>3. CASE u # t
      <3>1. pc'[u] = pc[u] /\ cur'[u] = cur[u]  BY <2>2, <2>3 DEF OthersSame
      <3> QED  BY <2>1, <2>2, <3>1 DEF Uncounted
    <2>4. CASE u = t
      <3>1. CASE pc[t] = "ins_used"
        <4>1. InsertUsed(t)
          BY <3>1 DEF process, lookup, insert_update, purge_key, SpuriousWakeup,
             ReadOp, EndOfInput, Recheck, ScanKey, ScanId, ScanCmp, GetMiss, GetHit, GetData,
             InsertBegin, Walk1, Walk2, Update, InsertId, InsertKey, InsertData, InsertUsed,
             PurgeMiss, PurgeHit, PurgeId, PurgeKey, PurgeData, PurgeUsed, DoneOne
        <4>2. cur[t] \in DOMAIN outcome'  BY <4>1 DEF InsertUsed, Return
        <4> QED  BY <2>1, <2>4, <4>2
      <3>2. CASE pc[t] = "ins_data"
        <4>1. InsertData(t)
          BY <3>2 DEF process, lookup, insert_update, purge_key, SpuriousWakeup,
             ReadOp, EndOfInput, Recheck, ScanKey, ScanId, ScanCmp, GetMiss, GetHit, GetData,
             InsertBegin, Walk1, Walk2, Update, InsertId, InsertKey, InsertData, InsertUsed,
             PurgeMiss, PurgeHit, PurgeId, PurgeKey, PurgeData, PurgeUsed, DoneOne
        <4>2. pc'[t] = "ins_used" /\ cur'[t] = cur[t]
          BY <4>1 DEF InsertData, Goto, TInv, IInv, Typed
        <4> QED  BY <2>1, <2>4, <4>2 DEF Uncounted
      <3> QED  BY <2>2, <2>4, <3>1, <3>2
    <2> QED  BY <2>3, <2>4
  <1> QED  BY <1>1, <1>2

(* The store of a new key is the only step that makes an entry hard. *)
LEMMA OnlyKeyHardens ==
    ASSUME TInv, Running, Fresh, AllSee, NEW t \in Threads, process(t) \/ SpuriousWakeup(t),
           ~InsertKey(t), NEW s \in Slots, ~Hard(s)
    PROVE  ~Hard(s)'
  <1> USE DEF input, shared
  <1>0. /\ table \in [Slots -> [id : Nat, key : Nat, data : Nat]] /\ entry[t] \in Slots
    BY DEF TInv, TableTyped
  <1>1. CASE UNCHANGED table  BY <1>1 DEF Hard
  <1>2. CASE s # entry[t]
    <2>1. table'[s] = table[s]
      BY <1>0, <1>2
         DEF process, lookup, insert_update, purge_key, SpuriousWakeup,
             ReadOp, EndOfInput, Recheck, ScanKey, ScanId, ScanCmp, GetMiss, GetHit, GetData,
             InsertBegin, Walk1, Walk2, Update, InsertId, InsertKey, InsertData, InsertUsed,
             PurgeMiss, PurgeHit, PurgeId, PurgeKey, PurgeData, PurgeUsed, DoneOne
    <2> QED  BY <2>1 DEF Hard
  <1>3. CASE s = entry[t] /\ (Update(t) \/ InsertData(t) \/ PurgeId(t) \/ PurgeKey(t))
    <2>1. pc[t] \in {"update", "ins_data", "del_id", "del_key"} /\ pc[t] \in Holding
      BY <1>3 DEF Update, InsertData, PurgeId, PurgeKey, Holding
    <2>2. table[entry[t]].key = KeyOf(t) /\ KeyOf(t) \in Nat \ {0}
      BY <2>1, HeldEntry DEF AllSee
    <2> QED  BY <1>3, <2>2 DEF Hard
  <1>4. CASE s = entry[t] /\ InsertId(t)
    <2>1. table'[s] = [table[s] EXCEPT !.id = cur[t]]  BY <1>0, <1>4 DEF InsertId
    <2>2. table'[s].key = table[s].key /\ table'[s].id = cur[t]  BY <1>0, <2>1
    <2>3. cur[t] \in 1 .. Len(ops)  BY <1>4, KeysAre DEF InsertId, Work
    <2>4. cur[t] # Tomb  BY <2>3, ParametersAssumption DEF Fresh, Tomb
    <2> QED  BY <2>2, <2>4 DEF Hard
  <1>5. CASE s = entry[t] /\ PurgeData(t)
    <2>1. table'[s] = [table[s] EXCEPT !.data = 0]  BY <1>0, <1>5 DEF PurgeData
    <2>2. table'[s].key = table[s].key /\ table'[s].id = table[s].id  BY <1>0, <2>1
    <2> QED  BY <2>2 DEF Hard
  <1> QED
    BY <1>1, <1>2, <1>3, <1>4, <1>5
    DEF process, lookup, insert_update, purge_key, SpuriousWakeup,
        ReadOp, EndOfInput, Recheck, ScanKey, ScanId, ScanCmp, GetMiss, GetHit, GetData,
        InsertBegin, Walk1, Walk2, InsertUsed, PurgeMiss, PurgeHit, PurgeUsed, DoneOne

LEMMA HardCountKept ==
    ASSUME TInv, Running, Fresh, AllSee, HardCount, Fresh', NEW t \in Threads, OthersSame(t),
           UNCHANGED ops, process(t) \/ SpuriousWakeup(t), Rests(t) \/ Works(t) \/ Returns(t)
    PROVE  HardCount'
  <1>0. /\ Inserted \subseteq Inserted' /\ Inserted \subseteq Insertions(ops)
        /\ Inserted' \subseteq Insertions(ops) /\ HardSlots \subseteq Slots
        /\ HardSlots' \subseteq Slots
    BY InsertedKept DEF Inserted, HardSlots, Insertions
  <1>1. /\ IsFiniteSet(Inserted) /\ IsFiniteSet(Inserted') /\ IsFiniteSet(HardSlots)
        /\ IsFiniteSet(HardSlots')
    BY <1>0, FiniteSlots, FiniteInsertions DEF Fresh
  <1>2. /\ Cardinality(Inserted) \in Nat /\ Cardinality(Inserted') \in Nat
        /\ Cardinality(HardSlots) \in Nat /\ Cardinality(HardSlots') \in Nat
        /\ Cardinality(HardSlots) <= Cardinality(Inserted)
    BY <1>1, FS_CardinalityType DEF HardCount
  <1>3. CASE ~InsertKey(t)
    <2>1. HardSlots' \subseteq HardSlots  BY <1>3, OnlyKeyHardens DEF HardSlots
    <2>2. /\ Cardinality(HardSlots') <= Cardinality(HardSlots)
          /\ Cardinality(Inserted) <= Cardinality(Inserted')
      BY <1>0, <1>1, <2>1, FS_Subset
    <2> QED  BY <1>2, <2>2 DEF HardCount
  <1>4. CASE InsertKey(t)
    <2>1. /\ pc[t] = "ins_key" /\ pc'[t] = "ins_data" /\ cur'[t] = cur[t]
          /\ table' = [table EXCEPT ![entry[t]].key = KeyOf(t)]
      BY <1>4 DEF InsertKey, Goto, TInv, IInv, Typed, input
    <2>2. HardSlots' \subseteq HardSlots \cup {entry[t]}
      <3>1. \A s \in Slots \ {entry[t]} : table'[s] = table[s]
        BY <2>1 DEF TInv, TableTyped
      <3> QED  BY <3>1 DEF HardSlots, Hard
    <2>3. cur[t] \in Insertions(ops)  BY <2>1 DEF AllSee, Sees
    <2>4. cur[t] \in Inserted'  BY <2>1, <2>3 DEF Inserted, Uncounted, Insertions
    <2>5. cur[t] \notin Inserted
      <3>1. cur[t] \notin DOMAIN outcome  BY <2>1 DEF Fresh, Pending, Work
      <3>2. ASSUME NEW u \in Uncounted PROVE cur[u] # cur[t]
        <4>1. u \in Threads /\ pc[u] \in Work /\ pc[t] \in Work /\ u # t
          BY <2>1, <3>2 DEF Uncounted, Work
        <4>2. being[u] = cur[u] /\ being[t] = cur[t] /\ cur[t] # 0
          BY <4>1 DEF TInv, IInv, Turns
        <4> QED  BY <4>1, <4>2 DEF TInv, IInv, NoneTwice
      <3> QED  BY <3>1, <3>2 DEF Inserted
    <2>6. /\ Cardinality(Inserted \cup {cur[t]}) = Cardinality(Inserted) + 1
          /\ IsFiniteSet(HardSlots \cup {entry[t]})
          /\ Cardinality(HardSlots \cup {entry[t]}) <= Cardinality(HardSlots) + 1
      <3>1. Cardinality(Inserted \cup {cur[t]}) = Cardinality(Inserted) + 1
        BY <1>1, <2>5, FS_AddElement
      <3>2. /\ IsFiniteSet(HardSlots \cup {entry[t]})
            /\ Cardinality(HardSlots \cup {entry[t]})
                 = IF entry[t] \in HardSlots THEN Cardinality(HardSlots)
                                             ELSE Cardinality(HardSlots) + 1
        BY <1>1, FS_AddElement
      <3> QED  BY <1>2, <3>1, <3>2
    <2>7. Inserted \cup {cur[t]} \subseteq Inserted'  BY <1>0, <2>4
    <2>8. /\ Cardinality(Inserted \cup {cur[t]}) <= Cardinality(Inserted')
          /\ Cardinality(HardSlots') <= Cardinality(HardSlots \cup {entry[t]})
          /\ Cardinality(HardSlots \cup {entry[t]}) \in Nat
      BY <1>1, <2>2, <2>6, <2>7, FS_Subset, FS_CardinalityType
    <2> QED  BY <1>2, <2>6, <2>8 DEF HardCount
  <1> QED  BY <1>3, <1>4

-------------------------------------------------------------------------------
(* The counter is exact. *)
LEMMA ExactStays ==
    ASSUME Exact, UsedCount, Fresh, Fresh', UNCHANGED <<ops, used>>,
           Cardinality(Counted') + Cardinality(Removing') = Cardinality(Counted) + Cardinality(Removing),
           DOMAIN outcome \subseteq DOMAIN outcome', used \in Nat
    PROVE  Exact' /\ UsedCount'
  <1> DEFINE D == Insertions(ops) \cap DOMAIN outcome
             E == Insertions(ops) \cap DOMAIN outcome'
  <1>1. /\ IsFiniteSet(E) /\ Cardinality(D) \in Nat /\ Cardinality(E) \in Nat /\ D \subseteq E
    BY FiniteInsertions DEF Fresh
  <1>2. Cardinality(D) <= Cardinality(E)  BY <1>1, FS_Subset
  <1>3. used <= Cardinality(D)  BY DEF UsedCount
  <1>4. used <= Cardinality(E)  BY <1>1, <1>2, <1>3
  <1>5. UsedCount'  BY <1>4 DEF UsedCount, Insertions
  <1> QED  BY <1>5 DEF Exact

(* Of the two counts, one loses what the other gains. *)
LEMMA InsertKeyExact ==
    ASSUME TInv, Running, AllSee, NEW t \in Threads, InsertKey(t)
    PROVE  Counted' = Counted /\ Removing' = Removing
  <1> USE DEF input
  <1>1. /\ pc[t] = "ins_key" /\ pc' = [pc EXCEPT ![t] = "ins_data"] /\ pc \in [Threads -> Labels]
        /\ table' = [table EXCEPT ![entry[t]].key = KeyOf(t)]
        /\ table \in [Slots -> [id : Nat, key : Nat, data : Nat]] /\ entry[t] \in Slots
        /\ UNCHANGED <<ops, cur, used, outcome>>
    BY DEF InsertKey, Goto, TInv, IInv, Typed, TableTyped
  <1>2. Absent(KeyOf(t)) /\ KeyOf(t) # 0
    BY <1>1, KeysAre DEF Running, Knows, Work
  <1>3. Uncounted' = Uncounted \cup {t} /\ Removing' = Removing
    BY <1>1 DEF Uncounted, Removing
  <1>4. \A u : KeyOf(u)' = KeyOf(u)  BY <1>1 DEF KeyOf
  <1>5. /\ \A s \in Slots \ {entry[t]} : table'[s] = table[s] /\ table[s].key # KeyOf(t)
        /\ table'[entry[t]].key = KeyOf(t)
    BY <1>1, <1>2 DEF Absent
  <1>6. entry[t] \notin Counted'  BY <1>3, <1>4, <1>5 DEF Counted
  <1>7. entry[t] \notin Counted
    <2>1. table[entry[t]].key = 0  BY <1>1, HeldEntry DEF AllSee, Holding
    <2> QED  BY <2>1 DEF Counted
  <1>8. \A s \in Slots \ {entry[t]} : s \in Counted' <=> s \in Counted
    BY <1>3, <1>4, <1>5 DEF Counted
  <1>9. Counted \subseteq Slots /\ Counted' \subseteq Slots  BY DEF Counted
  <1> QED  BY <1>3, <1>6, <1>7, <1>8, <1>9

LEMMA PurgeKeyExact ==
    ASSUME TInv, Running, NEW t \in Threads, PurgeKey(t)
    PROVE  /\ entry[t] \in Counted /\ Counted' = Counted \ {entry[t]}
           /\ t \notin Removing /\ Removing' = Removing \cup {t}
  <1> USE DEF input
  <1>1. /\ pc[t] = "del_key" /\ pc' = [pc EXCEPT ![t] = "del_data"] /\ pc \in [Threads -> Labels]
        /\ table' = [table EXCEPT ![entry[t]].key = 0] /\ entry[t] \in Slots
        /\ table \in [Slots -> [id : Nat, key : Nat, data : Nat]] /\ UNCHANGED <<ops, cur>>
    BY DEF PurgeKey, Goto, TInv, IInv, Typed, TableTyped
  <1>2. table[entry[t]].key = KeyOf(t) /\ KeyOf(t) # 0
    BY <1>1, KeysAre DEF Running, Knows, Work
  <1>3. Uncounted' = Uncounted /\ \A u : KeyOf(u)' = KeyOf(u)
    BY <1>1 DEF Uncounted, KeyOf
  <1>4. \A u \in Uncounted : KeyOf(u) # KeyOf(t)
    BY <1>1, Exclusive DEF Uncounted, Work
  <1>5. entry[t] \in Counted  BY <1>1, <1>2, <1>4 DEF Counted
  <1>6. /\ \A s \in Slots \ {entry[t]} : table'[s] = table[s]
        /\ table'[entry[t]].key = 0
    BY <1>1
  <1>7. entry[t] \notin Counted'  BY <1>6 DEF Counted
  <1>8. \A s \in Slots \ {entry[t]} : s \in Counted' <=> s \in Counted
    BY <1>3, <1>6 DEF Counted
  <1>9. Counted \subseteq Slots /\ Counted' \subseteq Slots  BY DEF Counted
  <1>10. t \notin Removing /\ Removing' = Removing \cup {t}  BY <1>1 DEF Removing
  <1> QED  BY <1>5, <1>7, <1>8, <1>9, <1>10

LEMMA InsertUsedExact ==
    ASSUME TInv, AllSee, NEW t \in Threads, InsertUsed(t)
    PROVE  /\ \E x \in Slots : x \notin Counted /\ Counted' = Counted \cup {x}
           /\ Removing' = Removing
  <1> USE DEF input
  <1>1. /\ pc[t] = "ins_used" /\ pc' = [pc EXCEPT ![t] = "done"] /\ pc \in [Threads -> Labels]
        /\ UNCHANGED <<ops, cur, table>>
    BY DEF InsertUsed, Return, Goto, TInv, IInv, Typed
  <1>2. /\ cur[t] \in 1 .. Len(ops) /\ ops[cur[t]].type = "PUT" /\ Content(KeyOf(t), cur[t])
        /\ KeyOf(t) # 0 /\ pc[t] \in Work
    BY <1>1, KeysAre DEF AllSee, TypeFits, Sees, Putting, Work
  <1>3. Present(KeyOf(t), cur[t])
    <2>1. cur[t] \in Nat \ {0}  BY <1>2
    <2> QED  BY <1>2, <2>1, LastWriteNow DEF KeyOf
  <1>4. PICK x \in Slots : table[x].key = KeyOf(t)  BY <1>2, <1>3 DEF Content, Absent
  <1>5. /\ Uncounted' = Uncounted \ {t} /\ t \in Uncounted /\ Removing' = Removing
        /\ \A u : KeyOf(u)' = KeyOf(u)
    BY <1>1 DEF Uncounted, Removing, KeyOf
  <1>6. \A u \in Uncounted \ {t} : KeyOf(u) # KeyOf(t)
    BY <1>2, Exclusive DEF Uncounted, Work
  <1>7. x \notin Counted  BY <1>4, <1>5 DEF Counted
  <1>8. x \in Counted'  BY <1>1, <1>2, <1>4, <1>5, <1>6 DEF Counted
  <1>9. \A s \in Slots \ {x} : table[s].key # KeyOf(t)
    BY <1>2, <1>4 DEF TInv, NoDuplicateKeys
  <1>10. \A s \in Slots \ {x} : s \in Counted' <=> s \in Counted
    BY <1>1, <1>5, <1>9 DEF Counted
  <1>11. Counted \subseteq Slots /\ Counted' \subseteq Slots  BY DEF Counted
  <1> QED  BY <1>4, <1>5, <1>7, <1>8, <1>10, <1>11

LEMMA PurgeUsedExact ==
    ASSUME TInv, NEW t \in Threads, PurgeUsed(t)
    PROVE  Counted' = Counted /\ t \in Removing /\ Removing' = Removing \ {t}
  <1> USE DEF input
  <1>1. /\ pc[t] = "del_used" /\ pc' = [pc EXCEPT ![t] = "done"] /\ pc \in [Threads -> Labels]
        /\ UNCHANGED <<ops, cur, table>>
    BY DEF PurgeUsed, Return, Goto, TInv, IInv, Typed
  <1>2. Uncounted' = Uncounted /\ \A u \in Uncounted : KeyOf(u)' = KeyOf(u)
    BY <1>1 DEF Uncounted, KeyOf
  <1>3. Counted' = Counted  BY <1>1, <1>2 DEF Counted
  <1>4. t \in Removing /\ Removing' = Removing \ {t}  BY <1>1 DEF Removing
  <1> QED  BY <1>3, <1>4

(* The other steps leave both counts. *)
Stays(t) ==
    /\ UNCHANGED <<ops, used>> /\ \A s \in Slots : table'[s].key = table[s].key
    /\ \A l \in {{"ins_data", "ins_used"}, {"del_data", "del_used"}} :
          pc[t] \in l \/ pc'[t] \in l => pc[t] \in l /\ pc'[t] \in l /\ cur'[t] = cur[t]

LEMMA StaysCounts ==
    ASSUME NEW t \in Threads, OthersSame(t), Stays(t)
    PROVE  Counted' = Counted /\ Removing' = Removing
  <1> DEFINE I == {"ins_data", "ins_used"}
             R == {"del_data", "del_used"}
  <1>1. /\ pc[t] \in I \/ pc'[t] \in I => pc[t] \in I /\ pc'[t] \in I /\ cur'[t] = cur[t]
        /\ pc[t] \in R \/ pc'[t] \in R => pc[t] \in R /\ pc'[t] \in R
    BY DEF Stays
  <1>2. \A u \in Threads \ {t} :
            (pc'[u] \in I <=> pc[u] \in I) /\ (pc'[u] \in R <=> pc[u] \in R) /\ cur'[u] = cur[u]
    BY DEF OthersSame
  <1>3. Uncounted' = Uncounted /\ Removing' = Removing
    BY <1>1, <1>2 DEF Uncounted, Removing
  <1>4. \A u \in Uncounted : KeyOf(u)' = KeyOf(u)
    BY <1>1, <1>2 DEF Uncounted, KeyOf, Stays
  <1>5. Counted' = Counted  BY <1>3, <1>4 DEF Counted, Stays
  <1> QED  BY <1>3, <1>5

LEMMA StaySteps ==
    ASSUME TInv, NEW t \in Threads, process(t) \/ SpuriousWakeup(t), used < TableSize,
           ~(InsertKey(t) \/ InsertUsed(t) \/ PurgeKey(t) \/ PurgeUsed(t))
    PROVE  Stays(t)
  <1> USE DEF input, shared, Goto, Stays
  <1>0. /\ pc \in [Threads -> Labels] /\ cur \in [Threads -> Nat]
        /\ table \in [Slots -> [id : Nat, key : Nat, data : Nat]] /\ entry[t] \in Slots
    BY DEF TInv, TableTyped, IInv, Typed
  <1>1. CASE ReadOp(t) \/ Recheck(t)  BY <1>0, <1>1 DEF ReadOp, Recheck, Dispatch
  <1>2. CASE EndOfInput(t) \/ SpuriousWakeup(t) \/ DoneOne(t)
    BY <1>0, <1>2 DEF EndOfInput, SpuriousWakeup, DoneOne
  <1>3. CASE ScanKey(t) \/ ScanId(t) \/ ScanCmp(t) \/ GetHit(t)
    BY <1>0, <1>3 DEF ScanKey, ScanId, ScanCmp, GetHit, AfterScan
  <1>4. CASE GetMiss(t) \/ GetData(t) \/ PurgeMiss(t) \/ Update(t)
    BY <1>0, <1>4 DEF GetMiss, GetData, PurgeMiss, Update, Return
  <1>5. CASE InsertBegin(t)  BY <1>0, <1>5 DEF InsertBegin
  <1>6. CASE Walk1(t) \/ Walk2(t)  BY <1>0, <1>6 DEF Walk1, Walk2, MoveOn, StopHere
  <1>7. CASE InsertId(t) \/ InsertData(t)  BY <1>0, <1>7 DEF InsertId, InsertData
  <1>8. CASE PurgeHit(t) \/ PurgeId(t) \/ PurgeData(t)
    BY <1>0, <1>8 DEF PurgeHit, PurgeId, PurgeData
  <1> QED  BY <1>1, <1>2, <1>3, <1>4, <1>5, <1>6, <1>7, <1>8
           DEF process, lookup, insert_update, purge_key

LEMMA ExactKept ==
    ASSUME EntriesSuffice, CInv, Running, AllSee, Exact, UsedCount, TInv', Fresh', used \in Nat,
           NEW t \in Threads, process(t) \/ SpuriousWakeup(t), OthersSame(t), UNCHANGED ops,
           Rests(t) \/ Works(t) \/ Returns(t)
    PROVE  Exact' /\ UsedCount'
  <1>0. TInv /\ Fresh /\ low = TableLow /\ used < TableSize
    BY UsedFits DEF CInv, TablePointerIntact, Fresh
  <1>1. DOMAIN outcome \subseteq DOMAIN outcome'  BY DEF Rests, Works, Returns
  <1>2. /\ IsFiniteSet(Counted) /\ IsFiniteSet(Removing)
        /\ Cardinality(Counted) \in Nat /\ Cardinality(Removing) \in Nat
    <2>1. IsFiniteSet(Counted) /\ IsFiniteSet(Removing)
      BY FiniteSlots, FiniteThreads DEF Counted, Removing
    <2> QED  BY <2>1, FS_CardinalityType
  <1>3. CASE InsertKey(t)
    <2>1. Counted' = Counted /\ Removing' = Removing  BY <1>0, <1>3, InsertKeyExact
    <2> QED  BY <1>0, <1>1, <1>3, <2>1, ExactStays DEF InsertKey
  <1>4. CASE PurgeKey(t)
    <2>0. /\ entry[t] \in Counted /\ Counted' = Counted \ {entry[t]}
          /\ t \notin Removing /\ Removing' = Removing \cup {t}
      BY <1>0, <1>4, PurgeKeyExact
    <2>1. /\ Cardinality(Counted') = Cardinality(Counted) - 1
          /\ Cardinality(Removing') = Cardinality(Removing) + 1
      BY <1>2, <2>0, FS_RemoveElement, FS_AddElement
    <2>2. Cardinality(Counted') + Cardinality(Removing') = Cardinality(Counted) + Cardinality(Removing)
      BY <1>2, <2>1
    <2> QED  BY <1>0, <1>1, <1>4, <2>2, ExactStays DEF PurgeKey
  <1>5. CASE Stays(t)
    <2>1. Counted' = Counted /\ Removing' = Removing  BY <1>5, StaysCounts
    <2> QED  BY <1>0, <1>1, <1>5, <2>1, ExactStays DEF Stays
  <1> DEFINE D == Insertions(ops) \cap DOMAIN outcome
             E == Insertions(ops) \cap DOMAIN outcome'
  <1>6. /\ IsFiniteSet(D) /\ Cardinality(D) \in Nat /\ used <= Cardinality(D)
        /\ IsFiniteSet(E) /\ Cardinality(E) \in Nat
        /\ (UsedCount' <=> used' <= Cardinality(E))
    BY <1>0, FiniteInsertions DEF Fresh, UsedCount, Insertions
  <1>7. CASE InsertUsed(t)
    <2>1. /\ pc[t] = "ins_used" /\ AtomicAddUsed(1) /\ DOMAIN outcome' = DOMAIN outcome \cup {cur[t]}
      BY <1>7 DEF InsertUsed, Return
    <2>2. used' = used + 1
      <3>1. used + 1 \in 0 .. UIntMod - 1  BY <1>0, ParametersAssumption
      <3> QED  BY <1>0, <2>1, <3>1, AddOne
    <2>3. PICK x \in Slots : x \notin Counted /\ Counted' = Counted \cup {x}
      BY <1>0, <1>7, InsertUsedExact
    <2>4. Cardinality(Counted') = Cardinality(Counted) + 1 /\ Removing' = Removing
      BY <1>0, <1>2, <1>7, <2>3, InsertUsedExact, FS_AddElement
    <2>5. Exact'  BY <1>2, <2>2, <2>4 DEF Exact
    <2>6. cur[t] \in Insertions(ops) /\ cur[t] \notin DOMAIN outcome
      BY <1>0, <2>1 DEF AllSee, Sees, Fresh, Pending, Work
    <2>7. E = D \cup {cur[t]} /\ cur[t] \notin D  BY <2>1, <2>6
    <2> HIDE DEF D, E
    <2>8. Cardinality(E) = Cardinality(D) + 1  BY <1>6, <2>7, FS_AddElement
    <2> QED  BY <1>6, <2>2, <2>5, <2>8
  <1>8. CASE PurgeUsed(t)
    <2>1. AtomicAddUsed(-1) /\ Counted' = Counted /\ t \in Removing /\ Removing' = Removing \ {t}
      BY <1>0, <1>8, PurgeUsedExact DEF PurgeUsed
    <2>2. Cardinality(Removing') = Cardinality(Removing) - 1 /\ Cardinality(Removing') \in Nat
      <3>1. IsFiniteSet(Removing')  BY <1>2, <2>1, FS_Subset
      <3> QED  BY <1>2, <2>1, <3>1, FS_RemoveElement, FS_CardinalityType
    <2>3. used' = used - 1
      <3>1. used + (-1) \in 0 .. UIntMod - 1 /\ used + (-1) = used - 1
        BY <1>0, <1>2, <2>2, ParametersAssumption DEF Exact
      <3> QED  BY <1>0, <2>1, <3>1, AddOne
    <2>4. Exact'  BY <1>2, <2>1, <2>2, <2>3 DEF Exact
    <2>5. D \subseteq E  BY <1>1
    <2> HIDE DEF D, E
    <2>6. Cardinality(D) <= Cardinality(E)  BY <1>6, <2>5, FS_Subset
    <2> QED  BY <1>6, <2>3, <2>4, <2>6
  <1> QED  BY <1>0, <1>3, <1>4, <1>5, <1>7, <1>8, StaySteps

(* Threads end at the end of the input only. *)
LEMMA ExitKept ==
    ASSUME TInv, Running, ExitEnd, NEW t \in Threads, process(t) \/ SpuriousWakeup(t),
           OthersSame(t), UNCHANGED ops, used < TableSize
    PROVE  ExitEnd'
  <1> USE DEF input, shared
  <1>0. /\ pc \in [Threads -> Labels] /\ curr \in 1 .. Len(ops) + 1 /\ Len(ops) \in Nat
    BY DEF TInv, TableTyped, IInv, Typed
  <1>1. CASE ReadOp(t)
    <2>1. /\ curr # Len(ops) + 1 /\ pc'[t] # "exit"
      BY <1>0, <1>1 DEF ReadOp, Dispatch, Goto
    <2>2. \A u \in Threads : pc'[u] # "exit"
      BY <2>1 DEF OthersSame, ExitEnd
    <2> QED  BY <2>2 DEF ExitEnd
  <1>2. CASE EndOfInput(t)
    <2>1. curr = Len(ops) + 1 /\ UNCHANGED <<ops, curr>>  BY <1>0, <1>2 DEF EndOfInput
    <2> QED  BY <2>1 DEF ExitEnd
  <1>3. ASSUME UNCHANGED curr, pc'[t] # "exit" PROVE ExitEnd'
    BY <1>3 DEF OthersSame, ExitEnd
  <1>4. CASE Recheck(t) \/ SpuriousWakeup(t) \/ DoneOne(t)
    BY <1>0, <1>3, <1>4 DEF Recheck, Dispatch, Goto, SpuriousWakeup, DoneOne
  <1>5. CASE ~(ReadOp(t) \/ EndOfInput(t) \/ Recheck(t) \/ SpuriousWakeup(t) \/ DoneOne(t))
    <2>1. CASE InsertBegin(t)
      <3>1. UNCHANGED curr /\ pc'[t] # "exit"  BY <1>0, <2>1 DEF InsertBegin, Goto
      <3> QED  BY <1>3, <3>1
    <2>2. CASE ~InsertBegin(t)
      <3>1. Proceeds(t)
        BY <1>5, <2>2, ScanStep, LookupStep, InsertStep, PurgeStep DEF process
      <3>2. UNCHANGED curr /\ pc'[t] # "exit"
        BY <1>0, <3>1 DEF Proceeds, Goto, Work
      <3> QED  BY <1>3, <3>2
    <2> QED  BY <2>1, <2>2
  <1> QED  BY <1>1, <1>2, <1>4, <1>5

-------------------------------------------------------------------------------
LEMMA InitSInv == Init => SInv
  <1> SUFFICES ASSUME Init PROVE SInv  OBVIOUS
  <1>1. CInv  BY InitCInv
  <1>2. /\ \A s \in Slots : table[s] = [id |-> 0, key |-> 0, data |-> 0]
        /\ \A t \in Threads : pc[t] = "read"
        /\ DOMAIN outcome = {} /\ used = 0 /\ ops \in Programs
    BY DEF Init
  <1>3. Running  BY <1>1, <1>2, ParametersAssumption DEF CInv, TInv, Aborted
  <1>4. Tomb # 0 /\ Len(ops) \in Nat  BY <1>2, ParametersAssumption DEF Tomb
  <1>5. HardSlots = {} /\ Counted = {} /\ Removing = {}
    BY <1>2, <1>4 DEF HardSlots, Hard, Counted, Removing
  <1>6. HardChains  BY <1>2 DEF HardChains
  <1>7. AllSee
    BY <1>2 DEF AllSee, TypeFits, Sees, Putting, Scanning, Deleting, Before
  <1>8. Contents
    <2> SUFFICES ASSUME NEW k \in Keys, NEW n \in 0 .. Len(ops), Upto(k, n) PROVE Content(k, n)
      BY DEF Contents
    <2>1. Absent(k)  BY <1>2 DEF Absent, Keys
    <2>2. \A i \in OpsOn(k) : ~(i <= n)  BY <1>2 DEF Upto
    <2>3. ~Present(k, n)
      <3>1. LastWrite(k, n) # 0 => LastWrite(k, n) \in 1 .. n /\ ops[LastWrite(k, n)].key = k
        BY LastWriteIs
      <3>2. LastWrite(k, n) # 0 => LastWrite(k, n) \in OpsOn(k) /\ LastWrite(k, n) <= n
        BY <1>4, <3>1 DEF OpsOn
      <3> QED  BY <2>2, <3>2 DEF Present
    <2> QED  BY <2>1, <2>3 DEF Content, Absent
  <1>9. InOrder /\ OutcomesSerial  BY <1>2 DEF InOrder, OutcomesSerial
  <1>10. HardCount
    <2>1. Inserted \in SUBSET Insertions(ops)  BY DEF Inserted
    <2>2. Cardinality(Inserted) \in Nat  BY <1>2, <2>1, FiniteInsertions
    <2> QED  BY <1>5, <2>2, FS_EmptySet DEF HardCount
  <1>11. UsedCount /\ Exact
    <2>1. Insertions(ops) \cap DOMAIN outcome = {}  BY <1>2
    <2> QED  BY <1>2, <1>5, <2>1, FS_EmptySet DEF UsedCount, Exact
  <1>12. ExitEnd  BY <1>2 DEF ExitEnd
  <1> QED  BY <1>1, <1>3, <1>6, <1>7, <1>8, <1>9, <1>10, <1>11, <1>12 DEF SInv

LEMMA StillSInv ==
    ASSUME SInv, UNCHANGED vars
    PROVE  SInv'
  <1> USE DEF vars
  <1>1. CInv'  BY StepCInv DEF SInv
  <1>2. Running'
    <2>1. ~Aborted'  BY ParametersAssumption DEF SInv, Running, Aborted
    <2> QED  BY <1>1, <2>1 DEF CInv, TInv
  <1>3. /\ \A t : KeyOf(t)' = KeyOf(t)
        /\ \A i : SerialOutcome(i)' = SerialOutcome(i)
    BY DEF KeyOf, SerialOutcome, Present, LastWrite
  <1>4. HardChains'  BY SameTable DEF SInv, HardChains
  <1>5. AllSee'
    <2> SUFFICES ASSUME NEW t \in Threads PROVE TypeFits(t)' /\ Sees(t)'
      BY DEF SInv, AllSee
    <2>1. TypeFits(t) /\ Sees(t)  BY DEF SInv, AllSee
    <2>2. TypeFits(t)'  BY <2>1 DEF TypeFits
    <2>3. /\ KeyOf(t)' = KeyOf(t) /\ Insertions(ops)' = Insertions(ops)
      BY <1>3 DEF Insertions
    <2>4. Sees(t)'  BY <2>1, <2>3, SameTable DEF Sees
    <2> QED  BY <2>2, <2>4
  <1>6. Contents'
    <2>1. \A k, n : (Upto(k, n)' <=> Upto(k, n)) /\ (QuietKey(k)' <=> QuietKey(k))
      BY <1>3 DEF Upto, OpsOn, QuietKey
    <2> QED  BY <2>1, SameTable DEF SInv, Contents
  <1>7. InOrder' /\ OutcomesSerial' /\ ExitEnd'
    BY <1>3 DEF SInv, InOrder, OutcomesSerial, ExitEnd
  <1>8. HardCount'
    <2>1. HardSlots' = HardSlots  BY DEF HardSlots, Hard
    <2>2. Inserted' = Inserted  BY DEF Inserted, Uncounted, Insertions
    <2> QED  BY <2>1, <2>2 DEF SInv, HardCount
  <1>9. UsedCount' /\ Exact'
    <2>1. Counted' = Counted /\ Removing' = Removing
      BY <1>3 DEF Counted, Uncounted, Removing
    <2> QED  BY <2>1 DEF SInv, UsedCount, Exact, Insertions
  <1> QED  BY <1>1, <1>2, <1>4, <1>5, <1>6, <1>7, <1>8, <1>9 DEF SInv

(* In a step of t, while the table has an entry to spare. *)
LEMMA ThreadTouches ==
    ASSUME EntriesSuffice, SInv, NEW t \in Threads, process(t) \/ SpuriousWakeup(t)
    PROVE  /\ used \in Nat /\ used < TableSize
           /\ Touches(t) /\ (Rests(t) \/ Works(t) \/ (Finishes(t) /\ Returns(t)))
  <1>1. TInv /\ Running /\ AllSee /\ UsedCount /\ ops \in Programs
    BY DEF SInv, CInv, Fresh
  <1>2. used \in Nat
    <2>1. ~Aborted  BY <1>1, ParametersAssumption DEF Running, Aborted
    <2> QED  BY <2>1 DEF SInv, CInv, Counts
  <1>3. used < TableSize  BY <1>1, <1>2, UsedFits
  <1> QED  BY <1>1, <1>2, <1>3, StepTouches, StepKinds

LEMMA StepSInv ==
    ASSUME EntriesSuffice, SInv, [Next]_vars
    PROVE  SInv'
  <1>1. CASE UNCHANGED vars  BY <1>1, StillSInv
  <1>2. ASSUME NEW t \in Threads, process(t) \/ SpuriousWakeup(t) PROVE SInv'
    <2>1. CInv' /\ TInv' /\ Fresh'  BY StepCInv DEF SInv, CInv
    <2>2. /\ CInv /\ TInv /\ Running /\ Fresh /\ HardChains /\ AllSee /\ Contents /\ InOrder
          /\ HardCount /\ UsedCount /\ Exact /\ ExitEnd /\ OutcomesSerial
      BY DEF SInv, CInv
    <2>3. /\ used \in Nat /\ used < TableSize /\ Touches(t) /\ OthersSame(t) /\ UNCHANGED ops
          /\ Rests(t) \/ Works(t) \/ (Finishes(t) /\ Returns(t))
      BY <1>2, ThreadTouches DEF Touches
    <2>4. Running'
      <3>1. pc'[t] # "aborted"  BY <2>3 DEF Rests, Works, Returns, Busy, Work
      <3>2. ~Aborted'  BY <3>1 DEF Aborted
      <3> QED  BY <2>1, <3>2 DEF TInv
    <2>5. HardChains'  BY <2>2, <2>3, HardChainsKept
    <2>6. InOrder'  BY <2>2, <2>3, InOrderKept
    <2>7. AllSee'
      <3>1. \E s \in Slots : ~Hard(s)  BY <2>2, SomeFree DEF Fresh
      <3> QED  BY <1>2, <2>1, <2>2, <2>3, <2>6, <3>1, SeesKept
    <2>8. Contents'
      <3>1. Returns(t) => Content(KeyOf(t), cur[t])'
        <4> SUFFICES ASSUME Returns(t) PROVE Content(KeyOf(t), cur[t])'  OBVIOUS
        <4>1. Finishes(t)  BY <2>3 DEF Rests, Works, Returns, Busy
        <4> QED  BY <2>1, <2>2, <4>1, FinishSees
      <3> QED  BY <2>2, <2>3, <3>1, ContentsKept
    <2>9. HardCount'  BY <1>2, <2>1, <2>2, <2>3, HardCountKept
    <2>10. Exact' /\ UsedCount'  BY <1>2, <2>1, <2>2, <2>3, ExactKept
    <2>11. ExitEnd'  BY <1>2, <2>2, <2>3, ExitKept
    <2>12. OutcomesSerial'  BY <2>1, <2>2, <2>3, OutcomesKept
    <2> QED  BY <2>1, <2>4, <2>5, <2>6, <2>7, <2>8, <2>9, <2>10, <2>11, <2>12 DEF SInv
  <1> QED  BY <1>1, <1>2 DEF Next, Ended

(***************************************************************************)
(* Every operation returns what it would in a serial execution of the      *)
(* input, though lookups and deletions walk the table with no lock         *)
(* (parallel_hash.c:80-172): for any number of threads and any inputs that *)
(* leave an entry never used.                                              *)
(***************************************************************************)
THEOREM SerialOutcomes ==
    ASSUME EntriesSuffice
    PROVE  Spec => []OutcomesSerial
  <1>1. Init => SInv  BY InitSInv
  <1>2. SInv /\ [Next]_vars => SInv'  BY StepSInv
  <1>3. SInv => OutcomesSerial  BY DEF SInv
  <1> QED  BY <1>1, <1>2, <1>3, PTL DEF Spec

(***************************************************************************)
(* For such inputs the assert of dump_hash_table holds: when all threads   *)
(* are joined, h->used is the number of live entries (common.h:124).       *)
(***************************************************************************)
THEOREM CounterExact ==
    ASSUME EntriesSuffice
    PROVE  Spec => []DumpAssert
  <1>1. Init => SInv  BY InitSInv
  <1>2. SInv /\ [Next]_vars => SInv'  BY StepSInv
  <1>3. SInv => DumpAssert
    <2> SUFFICES ASSUME SInv, AllExited
                 PROVE  used = Cardinality({s \in Slots : table[s].key # 0})
      BY DEF DumpAssert
    <2>1. Uncounted = {} /\ Removing = {}  BY DEF AllExited, Uncounted, Removing
    <2>2. Counted = {s \in Slots : table[s].key # 0}  BY <2>1 DEF Counted
    <2>3. Cardinality(Counted) \in Nat
      BY FiniteSlots, FS_CardinalityType DEF Counted
    <2> QED  BY <2>1, <2>2, <2>3, FS_EmptySet DEF SInv, Exact
  <1> QED  BY <1>1, <1>2, <1>3, PTL DEF Spec

(***************************************************************************)
(* For such inputs no insertion lands on a live entry, as the commented-   *)
(* out assert of parallel_hash.c:136 said: an entry changes its key only   *)
(* by being deleted.                                                       *)
(***************************************************************************)
THEOREM LiveEntries ==
    ASSUME EntriesSuffice
    PROVE  Spec => LiveEntryKept
  <1>1. Init => SInv  BY InitSInv
  <1>2. SInv /\ [Next]_vars => SInv'  BY StepSInv
  <1>3. SInv /\ [Next]_vars =>
          [\A s \in Slots : table[s].key # 0 => table'[s].key \in {0, table[s].key}]_vars
    <2> SUFFICES ASSUME SInv, Next, NEW s \in Slots, table[s].key # 0
                 PROVE  table'[s].key \in {0, table[s].key}
      OBVIOUS
    <2>1. CASE Ended  BY <2>1 DEF Ended, vars
    <2>2. CASE \E t \in Threads : process(t) \/ SpuriousWakeup(t)
      <3>1. PICK t \in Threads : process(t) \/ SpuriousWakeup(t)  BY <2>2
      <3>2. Touches(t)  BY <3>1, ThreadTouches
      <3> QED  BY <3>2 DEF Touches
    <2> QED  BY <2>1, <2>2 DEF Next
  <1> QED  BY <1>1, <1>2, <1>3, PTL DEF Spec, LiveEntryKept

(***************************************************************************)
(* For such inputs main dumps the table a serial execution would leave:    *)
(* exactly the keys present, each with the data of its last PUT            *)
(* (main.c:113).                                                           *)
(***************************************************************************)
THEOREM SerialTable ==
    ASSUME EntriesSuffice
    PROVE  Spec => []FinalTableSerial
  <1>1. Init => SInv  BY InitSInv
  <1>2. SInv /\ [Next]_vars => SInv'  BY StepSInv
  <1>3. SInv => FinalTableSerial
    <2> DEFINE n == Len(ops)
               Found == {<<table[s].key, table[s].id, table[s].data>> :
                            s \in {r \in Slots : table[r].key # 0}}
               Left == {i \in 1 .. n : ops[i].type = "PUT" /\ LastWrite(ops[i].key, n) = i}
               Wanted == {<<ops[i].key, i, i>> : i \in Left}
    <2> SUFFICES ASSUME SInv, AllExited PROVE Found = Wanted
      BY DEF FinalTableSerial
    <2>1. /\ TInv /\ Contents /\ ExitEnd /\ n \in Nat /\ DOMAIN outcome \subseteq 1 .. curr - 1
          /\ \A s \in Slots : table[s].key \in Nat
      BY DEF SInv, CInv, TInv, IInv, Typed, Fresh, TableTyped
    <2>2. curr = n + 1
      BY <2>1, ParametersAssumption DEF AllExited, ExitEnd
    <2>3. \A j \in 1 .. n : j \in DOMAIN outcome
      <3> SUFFICES ASSUME NEW j \in 1 .. n PROVE j \in DOMAIN outcome  OBVIOUS
      <3>1. \A t \in Threads : being[t] = 0
        BY <2>1 DEF AllExited, TInv, IInv, Turns
      <3>2. j \in 1 .. curr - 1 /\ j # 0  BY <2>1, <2>2
      <3>3. NoneLost  BY <2>1 DEF TInv, IInv
      <3> QED  BY <3>1, <3>2, <3>3 DEF NoneLost
    <2>4. ASSUME NEW k \in Keys PROVE Content(k, n)
      <3>1. Upto(k, n)  BY <2>1, <2>3 DEF Upto, OpsOn
      <3>2. QuietKey(k)  BY DEF QuietKey, AllExited, Busy, Work
      <3> QED  BY <2>1, <3>1, <3>2 DEF Contents
    <2>5. ASSUME NEW s \in Slots, table[s].key # 0
          PROVE  <<table[s].key, table[s].id, table[s].data>> \in Wanted
      <3> DEFINE k == table[s].key
                 i == LastWrite(k, n)
      <3>1. k \in Keys /\ Content(k, n)  BY <2>1, <2>4, <2>5 DEF Keys
      <3>2. Present(k, n) /\ table[s].id = i /\ table[s].data = i
        BY <2>5, <3>1 DEF Content, Absent
      <3>3. i # 0 /\ ops[i].type = "PUT"  BY <3>2 DEF Present
      <3>4. i \in 1 .. n /\ ops[i].key = k  BY <2>1, <3>3, LastWriteIs
      <3>5. i \in Left  BY <3>3, <3>4
      <3> QED  BY <3>2, <3>4, <3>5
    <2>6. ASSUME NEW i \in Left PROVE <<ops[i].key, i, i>> \in Found
      <3>1. /\ i \in 1 .. n /\ ops[i].type = "PUT" /\ LastWrite(ops[i].key, n) = i
            /\ ops[i].key \in Keys
        BY <2>1 DEF TInv, TableTyped, Op, Keys
      <3>2. Present(ops[i].key, n) /\ Content(ops[i].key, n)  BY <2>4, <3>1 DEF Present
      <3>3. PICK s \in Slots : table[s].key = ops[i].key  BY <3>2 DEF Content, Absent
      <3>4. table[s].id = i /\ table[s].data = i  BY <3>1, <3>2, <3>3 DEF Content
      <3>5. table[s].key # 0  BY <3>1, <3>3 DEF Keys
      <3> QED  BY <3>3, <3>4, <3>5
    <2> QED  BY <2>5, <2>6
  <1> QED  BY <1>1, <1>2, <1>3, PTL DEF Spec
===============================================================================
