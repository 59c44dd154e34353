----------------------------- MODULE ParallelHash -----------------------------
(***************************************************************************)
(* Assignment 4, part 3: the parallel hash table (parallel_hash.c, with the *)
(* structures of part-3/common.h and the threads of part-3/main.c).         *)
(*                                                                         *)
(* Threads take operations (PUT, GET, DEL) off the input in order.  read_op *)
(* keeps an operation back while an earlier one on the same key is being    *)
(* processed; otherwise operations run concurrently.  PUT walks the table   *)
(* holding the lock of one entry at a time; GET and DEL walk it with no     *)
(* lock, and DEL locks only the entry it stops at.                          *)
(*                                                                         *)
(* Grain: the critical sections of in->lock are atomic (the conditional     *)
(* wait splits read_op in two), and so is a PUT's look at one entry, which  *)
(* it makes holding that entry's lock.  The unlocked reads of an entry, and *)
(* the stores to one, are separate steps in program order: the Makefile     *)
(* builds without optimisation and x86 keeps the order of stores and loads. *)
(* datalen travels with data.  data is the id of the PUT it comes from.     *)
(***************************************************************************)
EXTENDS Integers, Sequences, FiniteSets

CONSTANTS Threads,      \* the threads main creates
          Programs,     \* the input files: sequences of operations
          TableSize,    \* h->table_size
          Half,         \* 2^32: hashfunc adds the halves of a key
          UIntMod,      \* 2^32: unsigned arithmetic is modulo this
          TableLow,     \* the low word of the pointer h->table
          None          \* no thread

Op == [type : {"PUT", "GET", "DEL"}, key : Nat \ {0}]

(***************************************************************************)
(* Ids are consecutive from 1 (inputgen.c:149) and far from UIntMod - 1,    *)
(* which marks a deleted entry.  main asks for a thread at least (line 90).  *)
(***************************************************************************)
ASSUME ParametersAssumption ==
    /\ Programs \subseteq Seq(Op)
    /\ TableSize \in Nat \ {0} /\ Half \in Nat \ {0} /\ UIntMod \in Nat /\ TableLow \in Nat
    /\ TableSize < UIntMod
    /\ \A p \in Programs : Len(p) < UIntMod - 1
    /\ IsFiniteSet(Threads) /\ Threads # {} /\ None \notin Threads

VARIABLES ops,          \* the input file
          curr,         \* in->curr: the number of the next operation
          being,        \* in->being_processed: id per thread, 0 for NULL
          table,        \* h->table: slot -> id, key and data
          elock,        \* the lock of each entry: its holder
          used, low,    \* h->used, and the word that follows it in hash_t
          pc,           \* where each thread is
          cur,          \* the operation a thread is processing
          ctr, entry,   \* its local variables in the table's functions
          outcome       \* id -> return value (and data found) of done operations

vars == <<ops, curr, being, table, elock, used, low, pc, cur, ctr, entry, outcome>>

shared  == <<table, elock, used, low>>
input   == <<ops, curr, being>>

Slots == 0 .. TableSize - 1
Tomb  == UIntMod - 1                    \* (unsigned) -1

hashfunc(key) == ((key \div Half) + (key % Half)) % TableSize

KeyOf(t) == ops[cur[t]].key
hashval(t) == hashfunc(KeyOf(t))
LastSlot(t) == (hashval(t) - 1) % UIntMod       \* unsigned hashval - 1

Goto(t, l) == pc' = [pc EXCEPT ![t] = l]

-------------------------------------------------------------------------------
(***************************************************************************)
(* init_input_manager, init_hashtable and the creation of the threads.      *)
(***************************************************************************)
Init ==
    /\ ops \in Programs
    /\ curr = 1
    /\ being = [t \in Threads |-> 0]
    /\ table = [s \in Slots |-> [id |-> 0, key |-> 0, data |-> 0]]
    /\ elock = [s \in Slots |-> None]
    /\ used = 0 /\ low = TableLow
    /\ pc = [t \in Threads |-> "read"]
    /\ cur = [t \in Threads |-> 0]
    /\ ctr = [t \in Threads |-> 0] /\ entry = [t \in Threads |-> 0]
    /\ outcome = <<>>

-------------------------------------------------------------------------------
(***************************************************************************)
(* read_op and done_one: everything under in->lock.                         *)
(***************************************************************************)
\* Mutant: waits for later operations instead of earlier ones
MutMustWait(t, i) ==
    \E u \in Threads \ {t} :
        being[u] # 0 /\ ops[being[u]].key = ops[i].key /\ i < being[u]

(* line 70: another thread processes an earlier operation on the same key *)
MustWait(t, i) ==
    \E u \in Threads \ {t} :
        being[u] # 0 /\ ops[being[u]].key = ops[i].key /\ i > being[u]

(* process dispatches on op_type; each function starts at entry hashval. *)
Dispatch(t, i) ==
    /\ Goto(t, IF ops[i].type = "PUT" THEN "insert" ELSE "scan_key")
    /\ ctr' = [ctr EXCEPT ![t] = hashfunc(ops[i].key)]
    /\ entry' = [entry EXCEPT ![t] = hashfunc(ops[i].key)]

ReadOp(t) ==
    /\ pc[t] = "read" /\ curr <= Len(ops)
    /\ curr' = curr + 1
    /\ being' = [being EXCEPT ![t] = curr]
    /\ cur' = [cur EXCEPT ![t] = curr]
    /\ IF MustWait(t, curr)
       THEN Goto(t, "wait") /\ UNCHANGED <<ctr, entry>>
       ELSE Dispatch(t, curr)
    /\ UNCHANGED <<ops, shared, outcome>>

(* the end of the input: read_op returns -1 and the thread ends *)
EndOfInput(t) ==
    /\ pc[t] = "read" /\ curr > Len(ops)
    /\ Goto(t, "exit")
    /\ UNCHANGED <<input, shared, cur, ctr, entry, outcome>>

(* back from pthread_cond_wait: t = -1, look at all the threads again *)
Recheck(t) ==
    /\ pc[t] = "woken"
    /\ IF MustWait(t, cur[t])
       THEN Goto(t, "wait") /\ UNCHANGED <<ctr, entry>>
       ELSE Dispatch(t, cur[t])
    /\ UNCHANGED <<input, shared, cur, outcome>>

(* POSIX lets pthread_cond_wait return without a signal. *)
SpuriousWakeup(t) ==
    /\ pc[t] = "wait"
    /\ Goto(t, "woken")
    /\ UNCHANGED <<input, shared, cur, ctr, entry, outcome>>

\* Mutant: no broadcast
MutDoneOne(t) ==
    /\ pc[t] = "done"
    /\ being' = [being EXCEPT ![t] = 0]
    /\ Goto(t, "read")
    /\ UNCHANGED <<ops, curr, shared, cur, ctr, entry, outcome>>

(* done_one wakes every waiter; process then logs the operation *)
DoneOne(t) ==
    /\ pc[t] = "done"
    /\ being' = [being EXCEPT ![t] = 0]
    /\ pc' = [u \in Threads |-> IF u = t THEN "read"
                                ELSE IF pc[u] = "wait" THEN "woken" ELSE pc[u]]
    /\ UNCHANGED <<ops, curr, shared, cur, ctr, entry, outcome>>

(* The function returns ret (and, for GET, the data it found). *)
Return(t, ret, data) ==
    /\ outcome' = [i \in DOMAIN outcome \cup {cur[t]} |->
                     IF i = cur[t] THEN [ret |-> ret, data |-> data] ELSE outcome[i]]
    /\ Goto(t, "done")

-------------------------------------------------------------------------------
(***************************************************************************)
(* The unlocked walk of lookup (lines 86-89) and purge_key (155-158): three *)
(* reads of an entry, in the order of the loop's condition.                 *)
(***************************************************************************)
ScanKey(t) ==
    /\ pc[t] = "scan_key"
    /\ Goto(t, IF table[entry[t]].key # 0 THEN "scan_cmp" ELSE "scan_id")
    /\ UNCHANGED <<input, shared, cur, ctr, entry, outcome>>

AfterScan(t) == IF ops[cur[t]].type = "GET" THEN "get" ELSE "del"

\* Mutant: the walk stops at deleted entries
MutScanId(t) ==
    /\ pc[t] = "scan_id"
    /\ Goto(t, AfterScan(t))
    /\ UNCHANGED <<input, shared, cur, ctr, entry, outcome>>

ScanId(t) ==
    /\ pc[t] = "scan_id"
    /\ Goto(t, IF table[entry[t]].id = Tomb THEN "scan_cmp" ELSE AfterScan(t))
    /\ UNCHANGED <<input, shared, cur, ctr, entry, outcome>>

ScanCmp(t) ==
    /\ pc[t] = "scan_cmp"
    /\ IF table[entry[t]].key # KeyOf(t) /\ ctr[t] # LastSlot(t)
       THEN /\ ctr' = [ctr EXCEPT ![t] = (ctr[t] + 1) % TableSize]
            /\ entry' = [entry EXCEPT ![t] = (ctr[t] + 1) % TableSize]
            /\ Goto(t, "scan_key")
       ELSE Goto(t, AfterScan(t)) /\ UNCHANGED <<ctr, entry>>
    /\ UNCHANGED <<input, shared, cur, outcome>>

(* lookup, lines 90-95 *)
GetMiss(t) ==
    /\ pc[t] = "get" /\ table[entry[t]].key # KeyOf(t)
    /\ Return(t, -1, 0)
    /\ UNCHANGED <<input, shared, cur, ctr, entry>>

GetHit(t) ==
    /\ pc[t] = "get" /\ table[entry[t]].key = KeyOf(t)
    /\ Goto(t, "get_data")
    /\ UNCHANGED <<input, shared, cur, ctr, entry, outcome>>

GetData(t) ==
    /\ pc[t] = "get_data"
    /\ Return(t, 0, table[entry[t]].data)
    /\ UNCHANGED <<input, shared, cur, ctr, entry>>

lookup(t) == GetMiss(t) \/ GetHit(t) \/ GetData(t)

-------------------------------------------------------------------------------
(***************************************************************************)
(* atomic_add on h->used: an 8-byte add to a 4-byte field, so what it       *)
(* carries or borrows reaches the low word of h->table (common.h:34-38).    *)
(***************************************************************************)
AtomicAddUsed(d) ==
    LET word == low * UIntMod + used + d
    IN  used' = word % UIntMod /\ low' = word \div UIntMod

(* insert_update: the asserts of lines 104-105, which end the process *)
InsertBegin(t) ==
    /\ pc[t] = "insert"
    /\ IF used < TableSize THEN Goto(t, "walk")
                           ELSE pc' = [u \in Threads |-> "aborted"]
    /\ UNCHANGED <<input, shared, cur, ctr, entry, outcome>>

\* Mutant: the first walk stops at deleted entries, as in serial_hash.c
MutPasses1(t) ==
    LET e == table[entry[t]]
    IN  e.key # 0 /\ e.key # KeyOf(t) /\ ctr[t] # LastSlot(t)

\* Mutant: no second walk
MutPasses2(t) == FALSE

(* The conditions of the two loops, evaluated under the entry's lock. *)
Passes1(t) ==
    LET e == table[entry[t]]
    IN  (e.key # 0 \/ e.id = Tomb) /\ e.key # KeyOf(t) /\ ctr[t] # LastSlot(t)

Passes2(t) == table[entry[t]].key # 0 /\ table[entry[t]].key # KeyOf(t)

\* Mutant: the walk does not wrap around
MutMoveOn(t, c, l) ==
    /\ ctr' = [ctr EXCEPT ![t] = c + 1]
    /\ entry' = [entry EXCEPT ![t] = c + 1]
    /\ Goto(t, l)
    /\ UNCHANGED elock

(* ctr = (c + 1) % table_size, unlock this entry, go and lock the next *)
MoveOn(t, c, l) ==
    /\ ctr' = [ctr EXCEPT ![t] = (c + 1) % TableSize]
    /\ entry' = [entry EXCEPT ![t] = (c + 1) % TableSize]
    /\ Goto(t, l)
    /\ UNCHANGED elock

(* keep the lock: an update if the key is here, a fresh insertion if not *)
StopHere(t) ==
    /\ elock' = [elock EXCEPT ![entry[t]] = t]
    /\ Goto(t, IF table[entry[t]].key = KeyOf(t) THEN "update" ELSE "ins_id")
    /\ UNCHANGED <<ctr, entry>>

(***************************************************************************)
(* The first walk (109-115) passes deleted entries.  When it has come round *)
(* to hashval - 1, the second (119-127) starts, with ctr at hashval but     *)
(* entry still at hashval - 1, and stops at deleted entries too.            *)
(***************************************************************************)
Walk1(t) ==
    /\ pc[t] = "walk" /\ elock[entry[t]] = None
    /\ IF Passes1(t) THEN MoveOn(t, ctr[t], "walk")
       ELSE IF ctr[t] = LastSlot(t) /\ Passes2(t) THEN MoveOn(t, hashval(t), "walk2")
       ELSE StopHere(t)
    /\ UNCHANGED <<input, table, used, low, cur, outcome>>

Walk2(t) ==
    /\ pc[t] = "walk2" /\ elock[entry[t]] = None
    /\ IF Passes2(t) /\ ctr[t] # LastSlot(t) THEN MoveOn(t, ctr[t], "walk2")
       ELSE StopHere(t)
    /\ UNCHANGED <<input, table, used, low, cur, outcome>>

Unlock(t) == elock' = [elock EXCEPT ![entry[t]] = None]

\* Mutant: an update counts as a new entry
MutUpdateCounts(t) ==
    /\ pc[t] = "update"
    /\ table' = [table EXCEPT ![entry[t]].id = cur[t], ![entry[t]].data = cur[t]]
    /\ Unlock(t)
    /\ AtomicAddUsed(1)
    /\ Return(t, 0, 0)
    /\ UNCHANGED <<input, cur, ctr, entry>>

\* Mutant: an update leaves the old id
MutUpdateKeepsId(t) ==
    /\ pc[t] = "update"
    /\ table' = [table EXCEPT ![entry[t]].data = cur[t]]
    /\ Unlock(t)
    /\ Return(t, 0, 0)
    /\ UNCHANGED <<input, used, low, cur, ctr, entry>>

Update(t) ==
    /\ pc[t] = "update"
    /\ table' = [table EXCEPT ![entry[t]].id = cur[t], ![entry[t]].data = cur[t]]
    /\ Unlock(t)
    /\ Return(t, 0, 0)
    /\ UNCHANGED <<input, used, low, cur, ctr, entry>>

(* the fresh insertion: id, then key, then data *)
InsertId(t) ==
    /\ pc[t] = "ins_id"
    /\ table' = [table EXCEPT ![entry[t]].id = cur[t]]
    /\ Goto(t, "ins_key")
    /\ UNCHANGED <<input, elock, used, low, cur, ctr, entry, outcome>>

InsertKey(t) ==
    /\ pc[t] = "ins_key"
    /\ table' = [table EXCEPT ![entry[t]].key = KeyOf(t)]
    /\ Goto(t, "ins_data")
    /\ UNCHANGED <<input, elock, used, low, cur, ctr, entry, outcome>>

InsertData(t) ==
    /\ pc[t] = "ins_data"
    /\ table' = [table EXCEPT ![entry[t]].data = cur[t]]
    /\ Unlock(t)
    /\ Goto(t, "ins_used")
    /\ UNCHANGED <<input, used, low, cur, ctr, entry, outcome>>

InsertUsed(t) ==
    /\ pc[t] = "ins_used"
    /\ AtomicAddUsed(1)
    /\ Return(t, 0, 0)
    /\ UNCHANGED <<input, table, elock, cur, ctr, entry>>

insert_update(t) ==
    \/ InsertBegin(t) \/ Walk1(t) \/ Walk2(t) \/ Update(t)
    \/ InsertId(t) \/ InsertKey(t) \/ InsertData(t) \/ InsertUsed(t)

-------------------------------------------------------------------------------
\* Mutant: a deletion that finds nothing counts all the same
MutPurgeMiss(t) ==
    /\ pc[t] = "del" /\ elock[entry[t]] = None
    /\ table[entry[t]].key # KeyOf(t)
    /\ AtomicAddUsed(-1)
    /\ Return(t, -1, 0)
    /\ UNCHANGED <<input, table, elock, cur, ctr, entry>>

(* purge_key, after the walk: lock the entry and look at it again *)
PurgeMiss(t) ==
    /\ pc[t] = "del" /\ elock[entry[t]] = None
    /\ table[entry[t]].key # KeyOf(t)
    /\ Return(t, -1, 0)
    /\ UNCHANGED <<input, shared, cur, ctr, entry>>

PurgeHit(t) ==
    /\ pc[t] = "del" /\ elock[entry[t]] = None
    /\ table[entry[t]].key = KeyOf(t)
    /\ elock' = [elock EXCEPT ![entry[t]] = t]
    /\ Goto(t, "del_id")
    /\ UNCHANGED <<input, table, used, low, cur, ctr, entry, outcome>>

PurgeId(t) ==
    /\ pc[t] = "del_id"
    /\ table' = [table EXCEPT ![entry[t]].id = Tomb]
    /\ Goto(t, "del_key")
    /\ UNCHANGED <<input, elock, used, low, cur, ctr, entry, outcome>>

PurgeKey(t) ==
    /\ pc[t] = "del_key"
    /\ table' = [table EXCEPT ![entry[t]].key = 0]
    /\ Goto(t, "del_data")
    /\ UNCHANGED <<input, elock, used, low, cur, ctr, entry, outcome>>

PurgeData(t) ==
    /\ pc[t] = "del_data"
    /\ table' = [table EXCEPT ![entry[t]].data = 0]
    /\ Unlock(t)
    /\ Goto(t, "del_used")
    /\ UNCHANGED <<input, used, low, cur, ctr, entry, outcome>>

PurgeUsed(t) ==
    /\ pc[t] = "del_used"
    /\ AtomicAddUsed(-1)
    /\ Return(t, 0, 0)
    /\ UNCHANGED <<input, table, elock, cur, ctr, entry>>

purge_key(t) ==
    \/ PurgeMiss(t) \/ PurgeHit(t) \/ PurgeId(t)
    \/ PurgeKey(t) \/ PurgeData(t) \/ PurgeUsed(t)

-------------------------------------------------------------------------------
(* process *)
process(t) ==
    \/ ReadOp(t) \/ EndOfInput(t) \/ Recheck(t)
    \/ ScanKey(t) \/ ScanId(t) \/ ScanCmp(t)
    \/ lookup(t) \/ insert_update(t) \/ purge_key(t)
    \/ DoneOne(t)

AllExited == \A t \in Threads : pc[t] = "exit"

(* main has joined the threads and dumps the table, or an assert has failed *)
Ended == (\A t \in Threads : pc[t] \in {"exit", "aborted"}) /\ UNCHANGED vars

Next == (\E t \in Threads : process(t) \/ SpuriousWakeup(t)) \/ Ended

Spec == Init /\ [][Next]_vars

(***************************************************************************)
(* Every thread runs (POSIX threads on a preemptive scheduler).  A waiter   *)
(* may count on being woken by a broadcast, not on a spurious wakeup.       *)
(***************************************************************************)
FairSpec == Spec /\ \A t \in Threads : WF_vars(process(t))

-------------------------------------------------------------------------------
TypeOK ==
    /\ ops \in Programs /\ curr \in 1 .. Len(ops) + 1
    /\ being \in [Threads -> 0 .. Len(ops)] /\ cur \in [Threads -> 0 .. Len(ops)]
    /\ table \in [Slots -> [id : {Tomb} \cup 0 .. Len(ops),
                            key : {0} \cup {ops[i].key : i \in 1 .. Len(ops)},
                            data : 0 .. Len(ops)]]
    /\ elock \in [Slots -> Threads \cup {None}]
    /\ used \in 0 .. UIntMod - 1 /\ low \in Nat
    /\ pc \in [Threads -> {"read", "wait", "woken", "done", "exit", "aborted",
                           "scan_key", "scan_id", "scan_cmp", "get", "get_data",
                           "insert", "walk", "walk2", "update",
                           "ins_id", "ins_key", "ins_data", "ins_used",
                           "del", "del_id", "del_key", "del_data", "del_used"}]
    /\ ctr \in [Threads -> Slots] /\ entry \in [Threads -> Slots]
    /\ DOMAIN outcome \subseteq 1 .. Len(ops)

(* Between the return of read_op and the call of done_one. *)
Processing(t) == pc[t] \notin {"read", "wait", "woken", "exit", "aborted"}

Finished(i) == i \in DOMAIN outcome /\ \A t \in Threads : being[t] # i

(***************************************************************************)
(* Operations on one key run one at a time and in the order of the input,   *)
(* however the threads that read them are scheduled, put to sleep and woken *)
(* (read_op, parallel_hash.c:67-74, and done_one).                          *)
(***************************************************************************)
SameKeyInOrder ==
    \A t \in Threads : Processing(t) =>
        \A j \in 1 .. cur[t] - 1 : ops[j].key = KeyOf(t) => Finished(j)

(* The last PUT or DEL of a key among the first n operations; 0 if none. *)
LastWrite(key, n) ==
    LET W == {j \in 1 .. n : ops[j].key = key /\ ops[j].type # "GET"}
    IN  IF W = {} THEN 0 ELSE CHOOSE j \in W : \A k \in W : k <= j

Present(key, n) == LastWrite(key, n) # 0 /\ ops[LastWrite(key, n)].type = "PUT"

(* What operation i returns when the operations run one after another. *)
SerialOutcome(i) ==
    LET key == ops[i].key
        hit == Present(key, i - 1)
    IN  CASE ops[i].type = "PUT" -> [ret |-> 0, data |-> 0]
          [] ops[i].type = "DEL" -> [ret |-> IF hit THEN 0 ELSE -1, data |-> 0]
          [] ops[i].type = "GET" -> IF hit THEN [ret |-> 0, data |-> LastWrite(key, i - 1)]
                                           ELSE [ret |-> -1, data |-> 0]

(***************************************************************************)
(* Every operation returns what it would in a serial execution of the       *)
(* input, though lookups and deletions walk the table with no lock while    *)
(* other keys are inserted and deleted (parallel_hash.c:80-172).            *)
(***************************************************************************)
OutcomesSerial == \A i \in DOMAIN outcome : outcome[i] = SerialOutcome(i)

(***************************************************************************)
(* A key is never in two entries: insert_update looks behind deleted        *)
(* entries before it inserts (lines 109-115).                               *)
(***************************************************************************)
NoDuplicateKeys ==
    \A r, s \in Slots : table[r].key # 0 /\ table[r].key = table[s].key => r = s

(***************************************************************************)
(* No insertion lands on a live entry; a live entry changes its key only by *)
(* being deleted.  This is what the commented-out "assert(!entry->key)" of  *)
(* parallel_hash.c:136 said.                                                *)
(***************************************************************************)
LiveEntryKept ==
    [][\A s \in Slots : table[s].key # 0 => table'[s].key \in {0, table[s].key}]_vars

(***************************************************************************)
(* The 8-byte add to the 4-byte counter h->used never borrows from or       *)
(* carries into the table pointer behind it: a deletion never finds the     *)
(* counter at zero, although insertions count themselves only after they    *)
(* have released the entry (parallel_hash.c:142-144, 166-167).              *)
(***************************************************************************)
TablePointerIntact == low = TableLow

(***************************************************************************)
(* The assert of dump_hash_table (common.h:124): when all threads are       *)
(* joined, h->used is the number of live entries.                           *)
(***************************************************************************)
DumpAssert == AllExited => used = Cardinality({s \in Slots : table[s].key # 0})

(***************************************************************************)
(* What main dumps is the table a serial run would leave: exactly the keys  *)
(* present, each with the data of its last PUT (main.c:113).                *)
(***************************************************************************)
FinalTableSerial ==
    AllExited =>
        {<<table[s].key, table[s].id, table[s].data>> : s \in {r \in Slots : table[r].key # 0}}
          = {<<ops[i].key, i, i>> :
                i \in {j \in 1 .. Len(ops) : /\ ops[j].type = "PUT"
                                            /\ LastWrite(ops[j].key, Len(ops)) = j}}

(***************************************************************************)
(* The walk of t never ends: it looks for the end at an entry that does not *)
(* exist (hashval - 1 is unsigned, lines 86, 110 and 155), its key is in no *)
(* entry, and none looks as if it had never been used.                      *)
(***************************************************************************)
Endless(t) ==
    /\ pc[t] \in {"walk", "scan_key", "scan_id", "scan_cmp"} /\ LastSlot(t) \notin Slots
    /\ \A s \in Slots : /\ table[s].key # 0 \/ table[s].id = Tomb
                        /\ table[s].key # KeyOf(t)

(* t waits in read_op for such an operation. *)
BehindEndless(t) ==
    /\ pc[t] \in {"wait", "woken"}
    /\ \E u \in Threads : Endless(u) /\ KeyOf(u) = KeyOf(t)

(***************************************************************************)
(* The whole input is processed and every thread ends, but for a walk of a  *)
(* key that hashes to entry 0 in a table without an entry never used, and   *)
(* the operations on that key: no operation sleeps through the broadcast it *)
(* waits for, no other walk goes round for ever, no assert fails and no     *)
(* threads wait for each other's entry locks.                               *)
(***************************************************************************)
ProcessedUnlessEndless ==
    <>[](/\ \A t \in Threads : pc[t] = "exit" \/ Endless(t) \/ BehindEndless(t)
         /\ AllExited => DOMAIN outcome = 1 .. Len(ops))
===============================================================================
