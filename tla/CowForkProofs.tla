---------------------------- MODULE CowForkProofs ----------------------------
(***************************************************************************)
(* Proofs about CowFork, for any number of processes and pages: of the      *)
(* processes on one page table at most one runs, while every one that waits *)
(* has a child to wake it; who runs on a page table knows its pages; the    *)
(* reference counts of the frames are exact; no step changes what two page  *)
(* tables show; and the child of a cfork, or of a vfork, finds its parent's *)
(* pages, or its copy of the stack.                                         *)
(*                                                                         *)
(* OneRunsPerTable is not inductive: a new process must not get a page      *)
(* table that is in use.  IInv adds that the page table of every process    *)
(* has the number of a slot that has been used, and that free slots have    *)
(* none.                                                                    *)
(***************************************************************************)
EXTENDS CowFork, FiniteSetTheorems, WellFoundedInduction, TLAPS

ContextsOK == ctx \in [Procs -> Context]

TablesUsed ==
    \A q \in Procs :
        /\ ctx[q].state # "UNUSED" => ctx[q].pgd \in Procs /\ ctx[ctx[q].pgd].state # "UNUSED"
        /\ ctx[q].state = "UNUSED" => ctx[q].pgd = Null

IInv == ContextsOK /\ TablesUsed /\ OneRunsPerTable

LEMMA InitIInv == Init => IInv
  <1> SUFFICES ASSUME Init PROVE IInv  OBVIOUS
  <1> USE CowAssumption
  <1>0. 1 \in Procs  BY DEF Procs
  <1> DEFINE first == [Unused EXCEPT !.state = "READY", !.pgd = 1, !.stack = 1]
  <1>a. 0 \in 0 .. MaxData /\ 0 \in 0 .. MaxStack /\ 1 \in 0 .. MaxStack  OBVIOUS
  <1>b. Unused \in Context /\ Unused.state = "UNUSED" /\ Unused.pgd = Null
    BY <1>a DEF Unused, Context
  <1>c. first \in Context /\ first.state = "READY" /\ first.pgd = 1
    BY <1>0, <1>a, <1>b DEF Context
  <1>d. ctx = [q \in Procs |-> IF q = 1 THEN first ELSE Unused]
    BY DEF Init
  <1> HIDE DEF first
  <1>1. \A q \in Procs : ctx[q] = IF q = 1 THEN first ELSE Unused  BY <1>d
  <1>2. ContextsOK  BY <1>b, <1>c, <1>d DEF ContextsOK
  <1>3. TablesUsed  BY <1>0, <1>b, <1>c, <1>1 DEF TablesUsed
  <1>4. OneRunsPerTable  BY <1>b, <1>c, <1>1 DEF OneRunsPerTable, Ready
  <1> QED  BY <1>2, <1>3, <1>4 DEF IInv

(***************************************************************************)
(* A step that changes neither state nor ppid nor pgd of any process keeps  *)
(* the invariant.                                                           *)
(***************************************************************************)
LEMMA SameProcesses ==
    ASSUME IInv, ContextsOK',
           \A q \in Procs : /\ ctx'[q].state = ctx[q].state
                            /\ ctx'[q].ppid = ctx[q].ppid
                            /\ ctx'[q].pgd = ctx[q].pgd
    PROVE  IInv'
  <1>1. TablesUsed'  BY DEF IInv, TablesUsed
  <1>2. OneRunsPerTable'  BY DEF IInv, OneRunsPerTable, Ready
  <1> QED  BY <1>1, <1>2 DEF IInv

LEMMA ExpandKeeps ==
    ASSUME IInv, NEW p \in Procs, Expand(p)
    PROVE  IInv'
  <1>1. ctx' = [ctx EXCEPT ![p] = [ctx[p] EXCEPT !.data = ctx[p].data + 1]]
    BY DEF Expand
  <1>2. [ctx[p] EXCEPT !.data = ctx[p].data + 1] \in Context
    BY CowAssumption DEF IInv, ContextsOK, Context, Expand
  <1>3. ContextsOK'  BY <1>1, <1>2 DEF IInv, ContextsOK
  <1>4. ctx[p] \in Context  BY DEF IInv, ContextsOK
  <1>5. \A q \in Procs : /\ ctx'[q].state = ctx[q].state
                         /\ ctx'[q].ppid = ctx[q].ppid
                         /\ ctx'[q].pgd = ctx[q].pgd
    BY <1>1, <1>4 DEF IInv, ContextsOK, Context
  <1> QED  BY <1>3, <1>5, SameProcesses

LEMMA MapAreaKeeps ==
    ASSUME IInv, NEW p \in Procs, NEW i \in DOMAIN MmapRights, MapArea(p, i)
    PROVE  IInv'
  <1>1. ctx' = [ctx EXCEPT ![p] = [ctx[p] EXCEPT !.vm_area = ctx[p].vm_area \cup {i}]]
    BY DEF MapArea
  <1>2. [ctx[p] EXCEPT !.vm_area = ctx[p].vm_area \cup {i}] \in Context
    BY DEF IInv, ContextsOK, Context
  <1>3. ContextsOK'  BY <1>1, <1>2 DEF IInv, ContextsOK
  <1>4. ctx[p] \in Context  BY DEF IInv, ContextsOK
  <1>5. \A q \in Procs : /\ ctx'[q].state = ctx[q].state
                         /\ ctx'[q].ppid = ctx[q].ppid
                         /\ ctx'[q].pgd = ctx[q].pgd
    BY <1>1, <1>4 DEF IInv, ContextsOK, Context
  <1> QED  BY <1>3, <1>5, SameProcesses
(***************************************************************************)
(* A cfork child is alone on a page table no process has had.               *)
(***************************************************************************)
LEMMA CforkKeeps ==
    ASSUME IInv, NEW p \in Procs, NEW c \in Procs, cfork_copy_mm(p, c)
    PROVE  IInv'
  <1> DEFINE child == [ctx[p] EXCEPT !.ppid = p, !.pgd = c]
  <1>1. ctx' = [ctx EXCEPT ![c] = child] /\ Ready(p) /\ ctx[c].state = "UNUSED"
    BY DEF cfork_copy_mm, NextSlot
  <1>2. ctx[p] \in Context /\ ctx \in [Procs -> Context]  BY DEF IInv, ContextsOK
  <1>3. /\ child \in Context /\ child.state = "READY"
        /\ child.ppid = p /\ child.pgd = c
    BY <1>1, <1>2 DEF Context, Ready
  <1> HIDE DEF child
  <1>4. \A q \in Procs : ctx'[q] = IF q = c THEN child ELSE ctx[q]
    BY <1>1, <1>2
  <1>5. ContextsOK'  BY <1>1, <1>2, <1>3 DEF ContextsOK
  <1>6. \A q \in Procs : ctx[q].state # "UNUSED" => ctx[q].pgd # c
    BY <1>1 DEF IInv, TablesUsed
  <1>7. TablesUsed'  BY <1>1, <1>3, <1>4 DEF IInv, TablesUsed
  <1>8. OneRunsPerTable'
    <2>1. ASSUME NEW a \in Procs, NEW b \in Procs, Ready(a)', Ready(b)', ctx'[a].pgd = ctx'[b].pgd
          PROVE  a = b
      BY <1>3, <1>4, <1>6, <2>1 DEF IInv, OneRunsPerTable, Ready
    <2>2. ASSUME NEW a \in Procs, ctx'[a].state = "WAITING"
          PROVE  \E d \in Procs : ctx'[d].ppid = a /\ ctx'[d].pgd = ctx'[a].pgd
                                  /\ ctx'[d].state \in {"READY", "WAITING"}
      <3>1. a # c /\ ctx[a].state = "WAITING" /\ ctx'[a] = ctx[a]  BY <1>3, <1>4, <2>2
      <3>2. PICK d \in Procs : ctx[d].ppid = a /\ ctx[d].pgd = ctx[a].pgd
                                /\ ctx[d].state \in {"READY", "WAITING"}
        BY <3>1 DEF IInv, OneRunsPerTable
      <3>3. d # c /\ ctx'[d] = ctx[d]  BY <1>1, <1>4, <3>2
      <3> QED  BY <3>1, <3>2, <3>3
    <2> QED  BY <2>1, <2>2 DEF OneRunsPerTable
  <1> QED  BY <1>5, <1>7, <1>8 DEF IInv

(***************************************************************************)
(* A vfork child runs in the place of its parent, which waits for it.       *)
(***************************************************************************)
LEMMA VforkKeeps ==
    ASSUME IInv, NEW p \in Procs, NEW c \in Procs, vfork_copy_mm(p, c)
    PROVE  IInv'
  <1> DEFINE child == [ctx[p] EXCEPT !.ppid = p, !.stack = 2 * ctx[p].stack]
             waiting == [ctx[p] EXCEPT !.state = "WAITING"]
  <1>1. /\ ctx' = [ctx EXCEPT ![p].state = "WAITING", ![c] = child]
        /\ Ready(p) /\ ctx[c].state = "UNUSED" /\ 2 * ctx[p].stack <= MaxStack
    BY DEF vfork_copy_mm, Below, NextSlot
  <1>2. ctx[p] \in Context /\ ctx \in [Procs -> Context]  BY DEF IInv, ContextsOK
  <1>3. p # c  BY <1>1 DEF Ready
  <1>a. 2 * ctx[p].stack \in 0 .. MaxStack
    <2>1. ctx[p].stack \in Nat  BY <1>2 DEF Context
    <2> QED  BY <1>1, <2>1, CowAssumption
  <1>4. /\ child \in Context /\ child.state = "READY"
        /\ child.ppid = p /\ child.pgd = ctx[p].pgd
    BY <1>1, <1>2, <1>a DEF Context, Ready
  <1>5. /\ waiting \in Context /\ waiting.state = "WAITING"
        /\ waiting.ppid = ctx[p].ppid /\ waiting.pgd = ctx[p].pgd
    BY <1>2 DEF Context
  <1>6. ctx' = [ctx EXCEPT ![p] = waiting, ![c] = child]  BY <1>1
  <1> HIDE DEF child, waiting
  <1>7. /\ ctx'[c] = child /\ ctx'[p] = waiting
        /\ \A q \in Procs \ {p, c} : ctx'[q] = ctx[q]
    BY <1>2, <1>3, <1>6
  <1>8. ContextsOK'  BY <1>2, <1>4, <1>5, <1>6 DEF ContextsOK
  <1>9. TablesUsed'
    <2>1. \A q \in Procs : ctx[q].state # "UNUSED" => ctx'[q].state # "UNUSED"
      BY <1>1, <1>4, <1>5, <1>7
    <2>2. ctx[p].pgd \in Procs /\ ctx[ctx[p].pgd].state # "UNUSED"
      BY <1>1 DEF IInv, TablesUsed, Ready
    <2> SUFFICES ASSUME NEW q \in Procs
                 PROVE  /\ ctx'[q].state # "UNUSED"
                              => ctx'[q].pgd \in Procs /\ ctx'[ctx'[q].pgd].state # "UNUSED"
                        /\ ctx'[q].state = "UNUSED" => ctx'[q].pgd = Null
      BY DEF TablesUsed
    <2>3. CASE q \in {p, c}  BY <1>4, <1>5, <1>7, <2>1, <2>2, <2>3
    <2>4. CASE q \notin {p, c}  BY <1>7, <2>1, <2>4 DEF IInv, TablesUsed
    <2> QED  BY <2>3, <2>4
  <1>10. OneRunsPerTable'
    <2>1. ASSUME NEW a \in Procs, NEW b \in Procs, Ready(a)', Ready(b)', ctx'[a].pgd = ctx'[b].pgd
          PROVE  a = b
      <3>1. a # p /\ b # p  BY <1>5, <1>7, <2>1 DEF Ready
      <3> QED  BY <1>1, <1>4, <1>7, <2>1, <3>1 DEF IInv, OneRunsPerTable, Ready
    <2>2. ASSUME NEW a \in Procs, ctx'[a].state = "WAITING"
          PROVE  \E d \in Procs : ctx'[d].ppid = a /\ ctx'[d].pgd = ctx'[a].pgd
                                  /\ ctx'[d].state \in {"READY", "WAITING"}
      <3>1. CASE a = p  BY <1>4, <1>5, <1>7, <3>1
      <3>2. CASE a # p
        <4>1. a # c /\ ctx[a].state = "WAITING" /\ ctx'[a] = ctx[a]  BY <1>4, <1>7, <2>2, <3>2
        <4>2. PICK d \in Procs : ctx[d].ppid = a /\ ctx[d].pgd = ctx[a].pgd
                                  /\ ctx[d].state \in {"READY", "WAITING"}
          BY <4>1 DEF IInv, OneRunsPerTable
        <4>3. d # c  BY <1>1, <4>2
        <4> QED  BY <1>5, <1>7, <4>1, <4>2, <4>3
      <3> QED  BY <3>1, <3>2
    <2> QED  BY <2>1, <2>2 DEF OneRunsPerTable
  <1> QED  BY <1>8, <1>9, <1>10 DEF IInv

(***************************************************************************)
(* A process that exits wakes the parent that waits for it, and no other.   *)
(***************************************************************************)
LEMMA ExitKeeps ==
    ASSUME IInv, NEW p \in Procs, Exit(p)
    PROVE  IInv'
  <1> DEFINE exited == [ctx[p] EXCEPT !.state = "EXITED"]
  <1>1. /\ ctx' = [q \in Procs |-> IF q = p THEN exited
                     ELSE IF q \in VforkParents(p) THEN Resumed(p, q) ELSE ctx[q]]
        /\ Ready(p)
    BY DEF Exit
  <1>2. ctx[p] \in Context /\ \A q \in Procs : ctx[q] \in Context  BY DEF IInv, ContextsOK
  <1>3. /\ exited \in Context /\ exited.state = "EXITED"
        /\ exited.ppid = ctx[p].ppid /\ exited.pgd = ctx[p].pgd
    BY <1>2 DEF Context
  <1>4. \A q \in Procs : /\ Resumed(p, q) \in Context /\ Resumed(p, q).state = "READY"
                         /\ Resumed(p, q).ppid = ctx[q].ppid /\ Resumed(p, q).pgd = ctx[q].pgd
    BY <1>2 DEF Context, Resumed
  <1> HIDE DEF exited
  <1>5. \A q \in Procs : ctx'[q] \in Context  BY <1>1, <1>2, <1>3, <1>4
  <1>6. ContextsOK'  BY <1>1, <1>5 DEF ContextsOK
  <1>7. \A q \in Procs : ctx'[q].ppid = ctx[q].ppid /\ ctx'[q].pgd = ctx[q].pgd
    BY <1>1, <1>3, <1>4
  <1>8. \A q \in Procs : ctx[q].state # "UNUSED" <=> ctx'[q].state # "UNUSED"
    <2> SUFFICES ASSUME NEW q \in Procs
                 PROVE  ctx[q].state # "UNUSED" <=> ctx'[q].state # "UNUSED"
      OBVIOUS
    <2>1. CASE q = p  BY <1>1, <1>3, <2>1 DEF Ready
    <2>2. CASE q # p /\ q \in VforkParents(p)
      <3>1. ctx[q].pgd = ctx[p].pgd  BY <2>2 DEF VforkParents
      <3>2. ctx[p].pgd \in Procs /\ ctx[p].pgd # Null
        BY <1>1, CowAssumption DEF IInv, TablesUsed, Ready, Procs
      <3>3. ctx[q].state # "UNUSED"  BY <3>1, <3>2 DEF IInv, TablesUsed
      <3> QED  BY <1>1, <1>4, <2>2, <3>3
    <2>3. CASE q # p /\ q \notin VforkParents(p)  BY <1>1, <2>3
    <2> QED  BY <2>1, <2>2, <2>3
  <1>9. TablesUsed'  BY <1>7, <1>8 DEF IInv, TablesUsed
  <1>10. OneRunsPerTable'
    <2>1. ASSUME NEW a \in Procs, NEW b \in Procs, Ready(a)', Ready(b)', ctx'[a].pgd = ctx'[b].pgd
          PROVE  a = b
      <3>1. a # p /\ b # p  BY <1>1, <1>3, <2>1 DEF Ready
      <3>2. CASE a \in VforkParents(p)
        BY <1>1, <1>7, <2>1, <3>1, <3>2 DEF IInv, OneRunsPerTable, Ready, VforkParents
      <3>3. CASE b \in VforkParents(p)
        BY <1>1, <1>7, <2>1, <3>1, <3>3 DEF IInv, OneRunsPerTable, Ready, VforkParents
      <3>4. CASE a \notin VforkParents(p) /\ b \notin VforkParents(p)
        BY <1>1, <1>7, <2>1, <3>1, <3>4 DEF IInv, OneRunsPerTable, Ready
      <3> QED  BY <3>2, <3>3, <3>4
    <2>2. ASSUME NEW a \in Procs, ctx'[a].state = "WAITING"
          PROVE  \E d \in Procs : ctx'[d].ppid = a /\ ctx'[d].pgd = ctx'[a].pgd
                                  /\ ctx'[d].state \in {"READY", "WAITING"}
      <3>1. a # p /\ a \notin VforkParents(p) /\ ctx[a].state = "WAITING"
        BY <1>1, <1>3, <1>4, <2>2
      <3>2. PICK d \in Procs : ctx[d].ppid = a /\ ctx[d].pgd = ctx[a].pgd
                                /\ ctx[d].state \in {"READY", "WAITING"}
        BY <3>1 DEF IInv, OneRunsPerTable
      <3>3. d # p  BY <3>1, <3>2 DEF VforkParents
      <3>4. ctx'[d].state \in {"READY", "WAITING"}  BY <1>1, <1>4, <3>2, <3>3
      <3> QED  BY <1>7, <3>2, <3>4
    <2> QED  BY <2>1, <2>2 DEF OneRunsPerTable
  <1> QED  BY <1>6, <1>9, <1>10 DEF IInv

LEMMA NextIInv == IInv /\ [Next]_vars => IInv'
  <1> SUFFICES ASSUME IInv, [Next]_vars PROVE IInv'  OBVIOUS
  <1>1. CASE UNCHANGED ctx
    BY <1>1, SameProcesses DEF IInv, ContextsOK
  <1>2. ASSUME NEW p \in Procs, Expand(p) PROVE IInv'  BY <1>2, ExpandKeeps
  <1>3. ASSUME NEW p \in Procs, Exit(p) PROVE IInv'  BY <1>3, ExitKeeps
  <1>4. ASSUME NEW p \in Procs, NEW i \in DOMAIN MmapRights, MapArea(p, i) PROVE IInv'
    BY <1>4, MapAreaKeeps
  <1>5. ASSUME NEW p \in Procs, NEW pg \in Pages, Touch(p, pg) PROVE IInv'
    BY <1>1, <1>5 DEF Touch
  <1>6. ASSUME NEW p \in Procs, NEW pg \in Pages, handle_cow_fault(p, pg) PROVE IInv'
    BY <1>1, <1>6 DEF handle_cow_fault
  <1>7. ASSUME NEW p \in Procs, NEW pg \in Pages, NEW value \in Values, Store(p, pg, value) PROVE IInv'
    BY <1>1, <1>7 DEF Store
  <1>8. ASSUME NEW p \in Procs, NEW c \in Procs, cfork_copy_mm(p, c) PROVE IInv'
    BY <1>8, CforkKeeps
  <1>9. ASSUME NEW p \in Procs, NEW c \in Procs, vfork_copy_mm(p, c) PROVE IInv'
    BY <1>9, VforkKeeps
  <1>10. CASE Halted \/ UNCHANGED vars  BY <1>1, <1>10 DEF Halted, vars
  <1> QED  BY <1>2, <1>3, <1>4, <1>5, <1>6, <1>7, <1>8, <1>9, <1>10 DEF Next

(***************************************************************************)
(* For any number of processes and any tree of cforks and vforks: of the    *)
(* processes on one page table at most one runs, and one that waits has a   *)
(* child on its page table that has not exited and will wake it             *)
(* (cfork.c:104-106, 243-244).                                              *)
(***************************************************************************)
THEOREM OneRuns == Spec => []OneRunsPerTable
  <1>1. IInv => OneRunsPerTable  BY DEF IInv
  <1> QED  BY InitIInv, NextIInv, <1>1, PTL DEF Spec
-------------------------------------------------------------------------------
(***************************************************************************)
(* RunnerKnowsPages.  A page gets into a page table through the process     *)
(* that runs on it, so the invariant above is what keeps it true: nobody    *)
(* else runs there and would have to know the page too.                     *)
(***************************************************************************)
TablesShape == tables = [t \in Procs |-> [pg \in Pages |-> tables[t][pg]]]

PagesInv == IInv /\ TablesShape /\ RunnerKnowsPages

(***************************************************************************)
(* The pages outside the stack a process knows are settled by the end of    *)
(* its data segment and its areas.                                          *)
(***************************************************************************)
LEMMA KnownGrows ==
    ASSUME NEW p \in Procs, NEW q \in Procs, ctx[p] \in Context, ctx'[q] \in Context,
           ctx[p].data <= ctx'[q].data, ctx[p].vm_area \subseteq ctx'[q].vm_area
    PROVE  Known(p) \ StackPages \subseteq Known(q)'
  <1> SUFFICES ASSUME NEW pg \in Known(p) \ StackPages PROVE pg \in Known(q)'
    OBVIOUS
  <1>1. CASE pg \in DataPages /\ pg[2] <= ctx[p].data
    <2>1. pg[2] \in Int /\ ctx[p].data \in Int /\ ctx'[q].data \in Int
      BY <1>1, CowAssumption DEF DataPages, Context
    <2>2. pg[2] <= ctx'[q].data  BY <1>1, <2>1
    <2> QED  BY <1>1, <2>2 DEF Known
  <1>2. CASE pg \in MmapPages /\ pg[2] \in ctx[p].vm_area  BY <1>2 DEF Known
  <1> QED  BY <1>1, <1>2 DEF Known

(***************************************************************************)
(* A step after which everybody who runs knows what the process that ran on *)
(* the page table knew, and which changes entries outside the stack only in *)
(* the page table of a running process p, for pages p knows.                *)
(***************************************************************************)
LEMMA StepPages ==
    ASSUME PagesInv, IInv', TablesShape',
           \A q \in Procs : Ready(q)' =>
              \E r \in Procs : /\ Ready(r) /\ ctx[r].pgd = ctx'[q].pgd
                               /\ ctx[r].data <= ctx'[q].data
                               /\ ctx[r].vm_area \subseteq ctx'[q].vm_area,
           NEW p \in Procs, Ready(p),
           \A t \in Procs, pg \in Pages \ StackPages :
              tables'[t][pg] # tables[t][pg] => t = ctx[p].pgd /\ pg \in Known(p)
    PROVE  PagesInv'
  <1>1. ASSUME NEW q \in Procs, Ready(q)'
        PROVE  Present(ctx[q].pgd, Pages \ StackPages)' \subseteq Known(q)'
    <2>1. PICK r \in Procs : /\ Ready(r) /\ ctx[r].pgd = ctx'[q].pgd
                             /\ ctx[r].data <= ctx'[q].data
                             /\ ctx[r].vm_area \subseteq ctx'[q].vm_area
      BY <1>1
    <2>2. ctx[r] \in Context /\ ctx'[q] \in Context  BY DEF PagesInv, IInv, ContextsOK
    <2>3. Known(r) \ StackPages \subseteq Known(q)'  BY <2>1, <2>2, KnownGrows
    <2>4. ctx[r].pgd \in Procs  BY <2>1 DEF PagesInv, IInv, TablesUsed, Ready
    <2> SUFFICES ASSUME NEW pg \in Pages \ StackPages, tables'[ctx[r].pgd][pg] # Null
                 PROVE  pg \in Known(r)
      BY <2>1, <2>3 DEF Present, Pte
    <2>5. CASE tables'[ctx[r].pgd][pg] = tables[ctx[r].pgd][pg]
      BY <2>1, <2>5 DEF PagesInv, RunnerKnowsPages, Present, Pte
    <2>6. CASE tables'[ctx[r].pgd][pg] # tables[ctx[r].pgd][pg]
      <3>1. ctx[r].pgd = ctx[p].pgd /\ pg \in Known(p)  BY <2>4, <2>6
      <3>2. r = p  BY <2>1, <3>1 DEF PagesInv, IInv, OneRunsPerTable
      <3> QED  BY <3>1, <3>2
    <2> QED  BY <2>5, <2>6
  <1>2. RunnerKnowsPages'  BY <1>1 DEF RunnerKnowsPages
  <1> QED  BY <1>2 DEF PagesInv

LEMMA InitPages == Init => PagesInv
  <1> SUFFICES ASSUME Init PROVE PagesInv  OBVIOUS
  <1>1. TablesShape /\ \A t \in Procs, pg \in Pages \ StackPages : tables[t][pg] = Null
    BY CowAssumption DEF Init, TablesShape, StackPages
  <1>2. IInv  BY InitIInv
  <1>3. \A p \in Procs : Ready(p) => ctx[p].pgd \in Procs
    BY <1>2 DEF IInv, TablesUsed, Ready
  <1>4. RunnerKnowsPages  BY <1>1, <1>3 DEF RunnerKnowsPages, Present, Pte
  <1> QED  BY <1>1, <1>2, <1>4 DEF PagesInv

LEMMA ExpandPages ==
    ASSUME PagesInv, IInv', NEW p \in Procs, Expand(p)
    PROVE  PagesInv'
  <1>1. ctx' = [ctx EXCEPT ![p] = [ctx[p] EXCEPT !.data = ctx[p].data + 1]] /\ UNCHANGED tables
    BY DEF Expand
  <1>2. \A q \in Procs : ctx[q] \in Context  BY DEF PagesInv, IInv, ContextsOK
  <1>3. \A q \in Procs : /\ ctx'[q].state = ctx[q].state /\ ctx'[q].pgd = ctx[q].pgd
                         /\ ctx'[q].vm_area = ctx[q].vm_area /\ ctx[q].data <= ctx'[q].data
    BY <1>1, <1>2 DEF PagesInv, IInv, ContextsOK, Context
  <1>4. TablesShape' /\ Ready(p)  BY <1>1 DEF PagesInv, TablesShape, Expand
  <1> QED  BY <1>1, <1>3, <1>4, StepPages DEF Ready

LEMMA MapAreaPages ==
    ASSUME PagesInv, IInv', NEW p \in Procs, NEW i \in DOMAIN MmapRights, MapArea(p, i)
    PROVE  PagesInv'
  <1>1. /\ ctx' = [ctx EXCEPT ![p] = [ctx[p] EXCEPT !.vm_area = ctx[p].vm_area \cup {i}]]
        /\ UNCHANGED tables
    BY DEF MapArea
  <1>2. \A q \in Procs : ctx[q] \in Context  BY DEF PagesInv, IInv, ContextsOK
  <1>3. \A q \in Procs : /\ ctx'[q].state = ctx[q].state /\ ctx'[q].pgd = ctx[q].pgd
                         /\ ctx[q].vm_area \subseteq ctx'[q].vm_area /\ ctx[q].data <= ctx'[q].data
    BY <1>1, <1>2 DEF PagesInv, IInv, ContextsOK, Context
  <1>4. TablesShape' /\ Ready(p)  BY <1>1 DEF PagesInv, TablesShape, MapArea
  <1> QED  BY <1>1, <1>3, <1>4, StepPages DEF Ready

(***************************************************************************)
(* exit: a parent that wakes takes over what the child knew of their        *)
(* common page table.                                                       *)
(***************************************************************************)
LEMMA ExitPages ==
    ASSUME PagesInv, IInv', NEW p \in Procs, Exit(p)
    PROVE  PagesInv'
  <1>1. /\ ctx' = [q \in Procs |-> IF q = p THEN [ctx[p] EXCEPT !.state = "EXITED"]
                     ELSE IF q \in VforkParents(p) THEN Resumed(p, q) ELSE ctx[q]]
        /\ UNCHANGED tables /\ Ready(p)
    BY DEF Exit
  <1>2. \A q \in Procs : ctx[q] \in Context  BY DEF PagesInv, IInv, ContextsOK
  <1>3. ASSUME NEW q \in Procs, Ready(q)'
        PROVE  \E r \in Procs : /\ Ready(r) /\ ctx[r].pgd = ctx'[q].pgd
                                /\ ctx[r].data <= ctx'[q].data
                                /\ ctx[r].vm_area \subseteq ctx'[q].vm_area
    <2>1. q # p  BY <1>1, <1>2, <1>3 DEF Ready, Context
    <2>2. CASE q \in VforkParents(p)
      <3>1. /\ ctx'[q].data = ctx[p].data /\ ctx'[q].vm_area = ctx[p].vm_area
            /\ ctx'[q].pgd = ctx[p].pgd
        BY <1>1, <1>2, <2>1, <2>2 DEF Resumed, Context, VforkParents
      <3>2. ctx[p].data <= ctx[p].data  BY <1>2 DEF Context
      <3> QED  BY <1>1, <3>1, <3>2
    <2>3. CASE q \notin VforkParents(p)
      <3>1. ctx'[q] = ctx[q]  BY <1>1, <2>1, <2>3
      <3>2. ctx[q].data <= ctx[q].data  BY <1>2 DEF Context
      <3> QED  BY <1>3, <3>1, <3>2 DEF Ready
    <2> QED  BY <2>2, <2>3
  <1>4. TablesShape'  BY <1>1 DEF PagesInv, TablesShape
  <1> QED  BY <1>1, <1>3, <1>4, StepPages

(***************************************************************************)
(* The first access to a page, and the copy-on-write fault, change one      *)
(* entry.                                                                   *)
(***************************************************************************)
LEMMA EntryPages ==
    ASSUME PagesInv, IInv', NEW p \in Procs, NEW pg \in Known(p), NEW e, Ready(p), UNCHANGED ctx,
           tables' = [tables EXCEPT ![ctx[p].pgd][pg] = e]
    PROVE  PagesInv'
  <1>1. ctx[p].pgd \in Procs /\ pg \in Pages
    BY DEF PagesInv, IInv, TablesUsed, Ready, Known
  <1>2. \A t \in Procs : tables[t] = [x \in Pages |-> tables[t][x]]
    BY DEF PagesInv, TablesShape
  <1>3. tables' = [t \in Procs |-> [x \in Pages |->
                     IF t = ctx[p].pgd /\ x = pg THEN e ELSE tables[t][x]]]
    BY <1>1, <1>2 DEF PagesInv, TablesShape
  <1>4. TablesShape'  BY <1>3 DEF TablesShape
  <1>5. \A t \in Procs, x \in Pages : tables'[t][x] # tables[t][x] => t = ctx[p].pgd /\ x = pg
    BY <1>3
  <1>6. \A q \in Procs : Ready(q)' => /\ Ready(q) /\ ctx[q].pgd = ctx'[q].pgd
                                      /\ ctx[q].data <= ctx'[q].data
                                      /\ ctx[q].vm_area \subseteq ctx'[q].vm_area
    BY DEF PagesInv, IInv, ContextsOK, Context, Ready
  <1>7. \A t \in Procs, x \in Pages \ StackPages :
           tables'[t][x] # tables[t][x] => t = ctx[p].pgd /\ x \in Known(p)
    BY <1>5
  <1>8. \A q \in Procs : Ready(q)' =>
           \E r \in Procs : /\ Ready(r) /\ ctx[r].pgd = ctx'[q].pgd
                            /\ ctx[r].data <= ctx'[q].data
                            /\ ctx[r].vm_area \subseteq ctx'[q].vm_area
    BY <1>6
  <1> QED  BY <1>4, <1>7, <1>8, StepPages

(***************************************************************************)
(* vfork: the child knows what the parent knew.                             *)
(***************************************************************************)
LEMMA VforkPages ==
    ASSUME PagesInv, IInv', NEW p \in Procs, NEW c \in Procs, vfork_copy_mm(p, c)
    PROVE  PagesInv'
  <1> DEFINE child == [ctx[p] EXCEPT !.ppid = p, !.stack = 2 * ctx[p].stack]
             waiting == [ctx[p] EXCEPT !.state = "WAITING"]
             Above(pg) == <<"stack", pg[2] - ctx[p].stack>>
             below == {pg \in StackPages : Above(pg) \in Present(ctx[p].pgd, Known(p))}
             own == [pg \in Pages |-> IF pg \in below /\ Pte(ctx[p].pgd, pg) = Null
                                     THEN [frame |-> NewFrame(pg), w |-> TRUE]
                                     ELSE tables[ctx[p].pgd][pg]]
  <1>1. /\ ctx' = [ctx EXCEPT ![p].state = "WAITING", ![c] = child]
        /\ Ready(p) /\ ctx[c].state = "UNUSED"
    BY DEF vfork_copy_mm, Below, NextSlot
  <1>2. tables' = [tables EXCEPT ![ctx[p].pgd] = own]  BY DEF vfork_copy_mm, Below
  <1>3. \A pg \in Pages \ StackPages : own[pg] = tables[ctx[p].pgd][pg]  OBVIOUS
  <1>4. own = [pg \in Pages |-> own[pg]]  OBVIOUS
  <1>5. ctx[p] \in Context /\ ctx \in [Procs -> Context]  BY DEF PagesInv, IInv, ContextsOK
  <1>6. p # c  BY <1>1 DEF Ready
  <1>7. /\ child.pgd = ctx[p].pgd /\ child.data = ctx[p].data /\ child.vm_area = ctx[p].vm_area
        /\ waiting.state = "WAITING"
    BY <1>5 DEF Context
  <1>8. ctx' = [ctx EXCEPT ![p] = waiting, ![c] = child]  BY <1>1
  <1> HIDE DEF child, waiting, own
  <1>9. tables' = [t \in Procs |-> IF t = ctx[p].pgd THEN own ELSE tables[t]]
    BY <1>2 DEF PagesInv, TablesShape
  <1>10. TablesShape'
    <2>1. \A t \in Procs : tables'[t] = [pg \in Pages |-> tables'[t][pg]]
      BY <1>4, <1>9 DEF PagesInv, TablesShape
    <2> QED  BY <1>9, <2>1 DEF TablesShape
  <1>11. \A t \in Procs, pg \in Pages \ StackPages : tables'[t][pg] = tables[t][pg]
    BY <1>3, <1>9
  <1>12. ASSUME NEW q \in Procs, Ready(q)'
         PROVE  \E r \in Procs : /\ Ready(r) /\ ctx[r].pgd = ctx'[q].pgd
                                 /\ ctx[r].data <= ctx'[q].data
                                 /\ ctx[r].vm_area \subseteq ctx'[q].vm_area
    <2>1. q # p  BY <1>5, <1>6, <1>7, <1>8, <1>12 DEF Ready
    <2>2. CASE q = c
      <3>1. ctx[p].data <= ctx[p].data  BY <1>5 DEF Context
      <3>2. ctx'[q] = child  BY <1>5, <1>8, <2>2
      <3> QED  BY <1>1, <1>7, <3>1, <3>2
    <2>3. CASE q # c
      <3>1. ctx'[q] = ctx[q]  BY <1>5, <1>8, <2>1, <2>3
      <3>2. ctx[q].data <= ctx[q].data  BY <1>5 DEF Context
      <3> QED  BY <1>12, <3>1, <3>2 DEF Ready
    <2> QED  BY <2>2, <2>3
  <1> QED  BY <1>1, <1>10, <1>11, <1>12, StepPages

(***************************************************************************)
(* cfork: the child gets the entries of the pages the parent knows; the     *)
(* parent's table has the same pages as before.                             *)
(***************************************************************************)
LEMMA CforkPages ==
    ASSUME PagesInv, IInv', NEW p \in Procs, NEW c \in Procs, cfork_copy_mm(p, c)
    PROVE  PagesInv'
  <1> DEFINE child == [ctx[p] EXCEPT !.ppid = p, !.pgd = c]
             stack == Present(ctx[p].pgd, Known(p) \cap StackPages)
             copy == [pg \in Pages |->
                        IF pg \in Shared(p) THEN [tables[ctx[p].pgd][pg] EXCEPT !.w = FALSE]
                        ELSE IF pg \in stack THEN [frame |-> NewFrame(pg), w |-> TRUE]
                        ELSE Null]
             own == ReadOnlyIn(ctx[p].pgd, Shared(p))
  <1>1. ctx' = [ctx EXCEPT ![c] = child] /\ Ready(p) /\ ctx[c].state = "UNUSED"
    BY DEF cfork_copy_mm, NextSlot
  <1>2. tables' = [tables EXCEPT ![ctx[p].pgd] = own, ![c] = copy]  BY DEF cfork_copy_mm
  <1>3. ctx[p] \in Context /\ ctx \in [Procs -> Context]  BY DEF PagesInv, IInv, ContextsOK
  <1>4. child.pgd = c /\ child.data = ctx[p].data /\ child.vm_area = ctx[p].vm_area
    BY <1>3 DEF Context
  <1>5. \A q \in Procs : ctx[q].state # "UNUSED" => ctx[q].pgd \in Procs \ {c}
    BY <1>1 DEF PagesInv, IInv, TablesUsed
  <1>6. Shared(p) \subseteq Known(p) /\ \A pg \in Shared(p) : tables[ctx[p].pgd][pg] # Null
    BY DEF Shared, Present, Pte
  <1>7. \A pg \in Pages \ StackPages : copy[pg] # Null => pg \in Known(p)
    BY <1>6 DEF Present
  <1>8. \A pg \in Pages : own[pg] # Null => tables[ctx[p].pgd][pg] # Null
    BY <1>6 DEF ReadOnlyIn
  <1>9. copy = [pg \in Pages |-> copy[pg]] /\ own = [pg \in Pages |-> own[pg]]
    BY DEF ReadOnlyIn
  <1> HIDE DEF child, copy, own
  <1>10. tables' = [t \in Procs |-> IF t = c THEN copy ELSE IF t = ctx[p].pgd THEN own ELSE tables[t]]
    BY <1>2 DEF PagesInv, TablesShape
  <1>11. TablesShape'
    <2>1. \A t \in Procs : tables'[t] = [pg \in Pages |-> tables'[t][pg]]
      BY <1>9, <1>10 DEF PagesInv, TablesShape
    <2> QED  BY <1>10, <2>1 DEF TablesShape
  <1>12. ASSUME NEW q \in Procs, Ready(q)'
         PROVE  Present(ctx[q].pgd, Pages \ StackPages)' \subseteq Known(q)'
    <2>1. ctx'[q] \in Context  BY DEF IInv, ContextsOK
    <2>2. CASE q = c
      <3>1. ctx'[q] = child  BY <1>1, <1>3, <2>2
      <3>2. ctx[p].data <= ctx'[q].data /\ ctx[p].vm_area \subseteq ctx'[q].vm_area
        BY <1>3, <1>4, <3>1 DEF Context
      <3>3. Known(p) \ StackPages \subseteq Known(q)'  BY <1>3, <2>1, <3>2, KnownGrows
      <3>4. tables'[ctx'[q].pgd] = copy  BY <1>4, <1>10, <3>1
      <3> QED  BY <1>7, <3>3, <3>4 DEF Present, Pte
    <2>3. CASE q # c
      <3>1. ctx'[q] = ctx[q] /\ Ready(q)  BY <1>1, <1>3, <1>12, <2>3 DEF Ready
      <3>2. ctx[q].data <= ctx'[q].data /\ ctx[q].vm_area \subseteq ctx'[q].vm_area
        BY <1>3, <3>1 DEF Context
      <3>3. Known(q) \ StackPages \subseteq Known(q)'  BY <1>3, <2>1, <3>2, KnownGrows
      <3>4. ctx[q].pgd \in Procs \ {c}  BY <1>5, <3>1 DEF Ready
      <3>5. \A pg \in Pages : tables'[ctx[q].pgd][pg] # Null => tables[ctx[q].pgd][pg] # Null
        BY <1>8, <1>10, <3>4
      <3>6. Present(ctx[q].pgd, Pages \ StackPages) \subseteq Known(q) \ StackPages
        BY <3>1 DEF PagesInv, RunnerKnowsPages, Present
      <3> QED  BY <3>1, <3>3, <3>5, <3>6 DEF Present, Pte
    <2> QED  BY <2>2, <2>3
  <1>13. RunnerKnowsPages'  BY <1>12 DEF RunnerKnowsPages
  <1> QED  BY <1>11, <1>13 DEF PagesInv

LEMMA NextPages == PagesInv /\ IInv' /\ [Next]_vars => PagesInv'
  <1> SUFFICES ASSUME PagesInv, IInv', [Next]_vars PROVE PagesInv'  OBVIOUS
  <1>1. ASSUME NEW p \in Procs, Expand(p) PROVE PagesInv'  BY <1>1, ExpandPages
  <1>2. ASSUME NEW p \in Procs, Exit(p) PROVE PagesInv'  BY <1>2, ExitPages
  <1>3. ASSUME NEW p \in Procs, NEW i \in DOMAIN MmapRights, MapArea(p, i) PROVE PagesInv'
    BY <1>3, MapAreaPages
  <1>4. ASSUME NEW p \in Procs, NEW pg \in Pages, Touch(p, pg) PROVE PagesInv'
    BY <1>4, EntryPages DEF Touch
  <1>5. ASSUME NEW p \in Procs, NEW pg \in Pages, handle_cow_fault(p, pg) PROVE PagesInv'
    <2>1. Ready(p) /\ pg \in Known(p) /\ UNCHANGED ctx  BY <1>5 DEF handle_cow_fault
    <2>2. \E e : tables' = [tables EXCEPT ![ctx[p].pgd][pg] = e]
      BY <1>5 DEF handle_cow_fault
    <2> QED  BY <2>1, <2>2, EntryPages
  <1>6. ASSUME NEW p \in Procs, NEW c \in Procs, cfork_copy_mm(p, c) PROVE PagesInv'
    BY <1>6, CforkPages
  <1>7. ASSUME NEW p \in Procs, NEW c \in Procs, vfork_copy_mm(p, c) PROVE PagesInv'
    BY <1>7, VforkPages
  <1>8. CASE UNCHANGED <<ctx, tables>>
    BY <1>8 DEF PagesInv, TablesShape, RunnerKnowsPages, Present, Pte, Known, Ready
  <1>9. ASSUME NEW p \in Procs, NEW pg \in Pages, NEW value \in Values, Store(p, pg, value)
        PROVE  PagesInv'
    BY <1>8, <1>9 DEF Store
  <1>10. CASE Halted \/ UNCHANGED vars  BY <1>8, <1>10 DEF Halted, vars
  <1> QED  BY <1>1, <1>2, <1>3, <1>4, <1>5, <1>6, <1>7, <1>9, <1>10 DEF Next

(***************************************************************************)
(* Whoever runs on a page table knows every page of it outside the stack:   *)
(* what a vfork child has mapped, its parent knows when it runs again       *)
(* (cfork.c:245-246), through vforks of vforks and cforks in between.       *)
(***************************************************************************)
THEOREM KnowsPages == Spec => []RunnerKnowsPages
  <1>1. PagesInv => IInv /\ RunnerKnowsPages  BY DEF PagesInv
  <1>2. PagesInv /\ [Next]_vars => PagesInv'  BY <1>1, NextIInv, NextPages
  <1> QED  BY InitPages, <1>1, <1>2, PTL DEF Spec
-------------------------------------------------------------------------------
(***************************************************************************)
(* Reference counts.  The entries that point to a frame are those of the    *)
(* page tables that use it for its page, and PageOK says, page by page,     *)
(* what the counts of the frames of that page are, that an entry with the   *)
(* write bit is the only one of its frame, and that stack pages always      *)
(* have it: so a frame shared by two page tables is never one the hardware  *)
(* lets a process write.                                                    *)
(***************************************************************************)
Users(T, f) == {u \in Procs : T[u][f[1]] # Null /\ T[u][f[1]].frame = f}

PageEntries(pg) == [frame : {pg} \X Procs, w : BOOLEAN]

PageTyped(T, pg) ==
    \A t \in Procs : T[t][pg] # Null =>
        /\ T[t][pg] \in PageEntries(pg)
        /\ pg \in StackPages => T[t][pg].w

WritableAlone(T, pg) ==
    \A t, u \in Procs :
        (T[t][pg] # Null /\ T[u][pg] # Null /\ T[t][pg].w /\ T[u][pg].frame = T[t][pg].frame)
            => t = u

Counted(T, F, pg) ==
    \A f \in {pg} \X Procs : F[f].refcount = Cardinality(Users(T, f))

PageOK(T, F, pg) == PageTyped(T, pg) /\ WritableAlone(T, pg) /\ Counted(T, F, pg)

(* The other page tables keep their entries for the page, the other frames
   their counts. *)
OthersKeep(T, T2, pg, S) == \A u \in Procs \ S : T2[u][pg] = T[u][pg]
CountsKept(F, F2, pg, S) == \A f \in ({pg} \X Procs) \ S : F2[f].refcount = F[f].refcount

LEMMA EntryThere ==
    ASSUME NEW pg \in Pages, NEW e \in PageEntries(pg)
    PROVE  e # Null /\ e.frame \in {pg} \X Procs
  <1>1. e \in [frame : FrameIds, w : BOOLEAN]  BY DEF PageEntries, FrameIds
  <1> QED  BY <1>1, EntryAssumption DEF PageEntries

LEMMA UsersFinite ==
    ASSUME NEW T, NEW f
    PROVE  IsFiniteSet(Users(T, f)) /\ Cardinality(Users(T, f)) \in Nat
  <1>1. IsFiniteSet(Procs)  BY CowAssumption, FS_Interval DEF Procs
  <1> QED  BY <1>1, FS_Subset, FS_CardinalityType DEF Users

LEMMA LeastSlot ==
    ASSUME NEW I \in SUBSET Procs, I # {}
    PROVE  (CHOOSE i \in I : \A j \in I : i <= j) \in I
  <1>0. I \subseteq Nat  BY DEF Procs
  <1>1. \E x \in I : \A y \in I : ~ (<<y, x>> \in OpToRel(<, Nat))
    BY <1>0, WFMin, NatLessThanWellFounded
  <1>2. PICK x \in I : \A y \in I : ~ (<<y, x>> \in OpToRel(<, Nat))  BY <1>1
  <1>3. \A y \in I : x <= y
    <2> SUFFICES ASSUME NEW y \in I, y < x PROVE FALSE  BY <1>0
    <2>1. <<y, x>> \in OpToRel(<, Nat)  BY <1>0 DEF OpToRel
    <2> QED  BY <2>1, <1>2
  <1> QED  BY <1>3

(***************************************************************************)
(* There is a free frame for a page as long as one page table either has    *)
(* no entry for it or shares its frame: there are as many frames for the    *)
(* page as page tables, and a page table uses at most one of them.          *)
(***************************************************************************)
LEMMA NewFrameFree ==
    ASSUME NEW pg \in Pages, Counted(tables, frames, pg), NEW v \in Procs,
           \A i \in Procs : Users(tables, <<pg, i>>) # {v}
    PROVE  NewFrame(pg) \in {pg} \X Procs /\ frames[NewFrame(pg)].refcount = 0
  <1> DEFINE I == {i \in Procs : frames[<<pg, i>>].refcount = 0}
             g == [i \in Procs |-> CHOOSE u \in Users(tables, <<pg, i>>) : u # v]
  <1>1. I # {}
    <2> SUFFICES ASSUME I = {} PROVE FALSE  OBVIOUS
    <2>1. \A i \in Procs : \E u \in Users(tables, <<pg, i>>) : u # v
      <3> SUFFICES ASSUME NEW i \in Procs PROVE \E u \in Users(tables, <<pg, i>>) : u # v
        OBVIOUS
      <3>1. frames[<<pg, i>>].refcount = Cardinality(Users(tables, <<pg, i>>))
        BY DEF Counted
      <3>2. Users(tables, <<pg, i>>) # {}  BY <3>1, FS_EmptySet
      <3> QED  BY <3>2
    <2>2. \A i \in Procs : g[i] \in Users(tables, <<pg, i>>) /\ g[i] # v  BY <2>1
    <2> HIDE DEF g
    <2>3. \A i \in Procs : g[i] \in Procs \ {v} /\ tables[g[i]][pg].frame = <<pg, i>>
      BY <2>2 DEF Users
    <2>4. g \in [Procs -> Procs \ {v}]
      <3>1. g = [i \in Procs |-> g[i]]  BY DEF g
      <3> QED  BY <2>3, <3>1
    <2>5. IsFiniteSet(Procs) /\ Cardinality(Procs) \in Nat
      BY CowAssumption, FS_Interval, FS_CardinalityType DEF Procs
    <2>6. IsFiniteSet(Procs \ {v}) /\ Cardinality(Procs \ {v}) < Cardinality(Procs)
      <3>1. Cardinality(Procs \ {v}) = Cardinality(Procs) - 1  BY <2>5, FS_RemoveElement
      <3>2. IsFiniteSet(Procs \ {v})  BY <2>5, FS_RemoveElement
      <3> QED  BY <2>5, <3>1, <3>2
    <2>7. PICK x \in Procs, y \in Procs : x # y /\ g[x] = g[y]
      BY <2>4, <2>5, <2>6, FS_PigeonHole
    <2> QED  BY <2>3, <2>7
  <1>2. (CHOOSE i \in I : \A j \in I : i <= j) \in I  BY <1>1, LeastSlot
  <1>3. NewFrame(pg) = <<pg, CHOOSE i \in I : \A j \in I : i <= j>>  BY DEF NewFrame
  <1> HIDE DEF I
  <1>4. PICK i \in I : NewFrame(pg) = <<pg, i>>  BY <1>2, <1>3
  <1> QED  BY <1>4 DEF I

(***************************************************************************)
(* What an operation can do to a page: nothing,                             *)
(***************************************************************************)
LEMMA PageSame ==
    ASSUME NEW T, NEW F, NEW T2, NEW F2, NEW pg \in Pages, PageOK(T, F, pg),
           \A u \in Procs : T2[u][pg] = T[u][pg],
           \A f \in {pg} \X Procs : F2[f].refcount = F[f].refcount
    PROVE  PageOK(T2, F2, pg)
  <1>1. \A f \in {pg} \X Procs : Users(T2, f) = Users(T, f)  BY DEF Users
  <1>2. Counted(T2, F2, pg)  BY <1>1 DEF PageOK, Counted
  <1>3. PageTyped(T2, pg)  BY DEF PageOK, PageTyped
  <1>4. WritableAlone(T2, pg)  BY DEF PageOK, WritableAlone
  <1> QED  BY <1>2, <1>3, <1>4 DEF PageOK

(***************************************************************************)
(* fill an entry of a page table with a frame that was free,                *)
(***************************************************************************)
LEMMA PageFilled ==
    ASSUME NEW T, NEW F, NEW T2, NEW F2, NEW pg \in Pages, PageOK(T, F, pg),
           NEW t \in Procs, T[t][pg] = Null,
           NEW n \in {pg} \X Procs, F[n].refcount = 0, F2[n].refcount = 1,
           T2[t][pg] \in PageEntries(pg), T2[t][pg].frame = n,
           pg \in StackPages => T2[t][pg].w,
           OthersKeep(T, T2, pg, {t}),
           CountsKept(F, F2, pg, {n})
    PROVE  PageOK(T2, F2, pg)
  <1>0. T2[t][pg] # Null  BY EntryThere
  <1>1. Users(T, n) = {}
    <2>1. Cardinality(Users(T, n)) = 0  BY DEF PageOK, Counted, CountsKept
    <2> QED  BY <2>1, UsersFinite, FS_EmptySet
  <1>2. n[1] = pg /\ \A f \in {pg} \X Procs : f[1] = pg  OBVIOUS
  <1>3. \A u \in Procs : T[u][pg] # Null => T[u][pg].frame # n  BY <1>0, <1>1, <1>2 DEF Users, OthersKeep
  <1>4. Users(T2, n) = {t}  BY <1>0, <1>2, <1>3 DEF Users, OthersKeep
  <1>5. \A f \in ({pg} \X Procs) \ {n} : Users(T2, f) = Users(T, f)
    BY <1>0, <1>2 DEF Users, OthersKeep
  <1>6. Cardinality(Users(T2, n)) = 1
    <2>1. Cardinality({t}) = 1  BY FS_Singleton
    <2> QED  BY <1>4, <2>1
  <1>7. Counted(T2, F2, pg)  BY <1>5, <1>6 DEF PageOK, Counted, CountsKept
  <1>8. PageTyped(T2, pg)  BY <1>0, EntryThere DEF PageOK, PageTyped, OthersKeep
  <1>9. WritableAlone(T2, pg)  BY <1>0, <1>3 DEF PageOK, WritableAlone, OthersKeep
  <1> QED  BY <1>7, <1>8, <1>9 DEF PageOK

(***************************************************************************)
(* copy an entry without its write bit,                                     *)
(***************************************************************************)
LEMMA PageShared ==
    ASSUME NEW T, NEW F, NEW T2, NEW F2, NEW pg \in Pages \ StackPages, PageOK(T, F, pg),
           NEW t \in Procs, NEW c \in Procs, T[t][pg] # Null, T[c][pg] = Null,
           T2[t][pg] \in PageEntries(pg), T2[t][pg].frame = T[t][pg].frame, T2[t][pg].w = FALSE,
           T2[c][pg] \in PageEntries(pg), T2[c][pg].frame = T[t][pg].frame, T2[c][pg].w = FALSE,
           F2[T[t][pg].frame].refcount = F[T[t][pg].frame].refcount + 1,
           OthersKeep(T, T2, pg, {t, c}),
           CountsKept(F, F2, pg, {T[t][pg].frame})
    PROVE  PageOK(T2, F2, pg)
  <1>0. T2[t][pg] # Null /\ T2[c][pg] # Null  BY EntryThere
  <1> DEFINE n == T[t][pg].frame
  <1>1. n \in {pg} \X Procs  BY <1>0, EntryThere DEF PageOK, PageTyped, OthersKeep
  <1>2. n[1] = pg /\ \A f \in {pg} \X Procs : f[1] = pg  BY <1>1
  <1>3. Users(T2, n) = Users(T, n) \cup {c} /\ c \notin Users(T, n) /\ t \in Users(T, n)
    BY <1>0, <1>2 DEF Users, OthersKeep
  <1>4. \A f \in ({pg} \X Procs) \ {n} : Users(T2, f) = Users(T, f)
    BY <1>0, <1>2 DEF Users, OthersKeep
  <1>5. Cardinality(Users(T2, n)) = Cardinality(Users(T, n)) + 1
    BY <1>3, UsersFinite, FS_AddElement
  <1>6. Counted(T2, F2, pg)  BY <1>1, <1>4, <1>5 DEF PageOK, Counted, CountsKept
  <1>7. PageTyped(T2, pg)  BY <1>0, EntryThere DEF PageOK, PageTyped, OthersKeep
  <1>8. WritableAlone(T2, pg)  BY <1>0 DEF PageOK, WritableAlone, OthersKeep
  <1> QED  BY <1>6, <1>7, <1>8 DEF PageOK

(***************************************************************************)
(* replace the frame of a read-only entry by one that was free,             *)
(***************************************************************************)
LEMMA PageReplaced ==
    ASSUME NEW T, NEW F, NEW T2, NEW F2, NEW pg \in Pages, PageOK(T, F, pg),
           NEW t \in Procs, T[t][pg] # Null,
           NEW n \in {pg} \X Procs, F[n].refcount = 0, n # T[t][pg].frame,
           F2[n].refcount = 1,
           F2[T[t][pg].frame].refcount = F[T[t][pg].frame].refcount - 1,
           T2[t][pg] \in PageEntries(pg), T2[t][pg].frame = n, T2[t][pg].w = TRUE,
           OthersKeep(T, T2, pg, {t}),
           CountsKept(F, F2, pg, {n, T[t][pg].frame})
    PROVE  PageOK(T2, F2, pg)
  <1>0. T2[t][pg] # Null  BY EntryThere
  <1> DEFINE o == T[t][pg].frame
  <1>1. o \in {pg} \X Procs  BY <1>0, EntryThere DEF PageOK, PageTyped, OthersKeep
  <1>2. \A f \in {pg} \X Procs : f[1] = pg  OBVIOUS
  <1>3. Users(T, n) = {}
    <2>1. Cardinality(Users(T, n)) = 0  BY DEF PageOK, Counted, CountsKept
    <2> QED  BY <2>1, UsersFinite, FS_EmptySet
  <1>4. \A u \in Procs : T[u][pg] # Null => T[u][pg].frame # n  BY <1>0, <1>2, <1>3 DEF Users, OthersKeep
  <1>5. Users(T2, n) = {t}  BY <1>0, <1>2, <1>4 DEF Users, OthersKeep
  <1>6. Users(T2, o) = Users(T, o) \ {t} /\ t \in Users(T, o)
    <2>1. o[1] = pg  BY <1>1, <1>2
    <2>2. t \in Users(T, o)  BY <1>0, <2>1 DEF Users, OthersKeep
    <2>3. t \notin Users(T2, o)  BY <1>0, <2>1 DEF Users, OthersKeep
    <2>4. \A u \in Procs \ {t} : u \in Users(T2, o) <=> u \in Users(T, o)  BY <1>0, <2>1 DEF Users, OthersKeep
    <2>5. Users(T, o) \subseteq Procs /\ Users(T2, o) \subseteq Procs  BY <1>0 DEF Users, OthersKeep
    <2> QED  BY <2>2, <2>3, <2>4, <2>5
  <1>7. \A f \in ({pg} \X Procs) \ {n, o} : Users(T2, f) = Users(T, f)
    BY <1>0, <1>2 DEF Users, OthersKeep
  <1>8. Cardinality(Users(T2, n)) = 1
    <2>1. Cardinality({t}) = 1  BY FS_Singleton
    <2> QED  BY <1>5, <2>1
  <1>9. Cardinality(Users(T2, o)) = Cardinality(Users(T, o)) - 1
    <2>1. IsFiniteSet(Users(T, o))  BY UsersFinite
    <2>2. Cardinality(Users(T, o) \ {t}) = Cardinality(Users(T, o)) - 1
      BY <1>6, <2>1, FS_RemoveElement
    <2> QED  BY <1>6, <2>2
  <1>10. Counted(T2, F2, pg)  BY <1>1, <1>7, <1>8, <1>9 DEF PageOK, Counted, CountsKept
  <1>11. PageTyped(T2, pg)  BY <1>0, EntryThere DEF PageOK, PageTyped, OthersKeep
  <1>12. WritableAlone(T2, pg)  BY <1>0, <1>4 DEF PageOK, WritableAlone, OthersKeep
  <1> QED  BY <1>10, <1>11, <1>12 DEF PageOK

(***************************************************************************)
(* or give the write bit to the only entry of a frame.                      *)
(***************************************************************************)
LEMMA PageUnlocked ==
    ASSUME NEW T, NEW F, NEW T2, NEW pg \in Pages, PageOK(T, F, pg),
           NEW t \in Procs, T[t][pg] # Null, ~ (F[T[t][pg].frame].refcount > 1),
           T2[t][pg] \in PageEntries(pg), T2[t][pg].frame = T[t][pg].frame, T2[t][pg].w = TRUE,
           OthersKeep(T, T2, pg, {t})
    PROVE  PageOK(T2, F, pg)
  <1>0. T2[t][pg] # Null  BY EntryThere
  <1> DEFINE o == T[t][pg].frame
  <1>1. o \in {pg} \X Procs  BY <1>0, EntryThere DEF PageOK, PageTyped, OthersKeep
  <1>2. \A f \in {pg} \X Procs : f[1] = pg  OBVIOUS
  <1>3. \A f \in {pg} \X Procs : Users(T2, f) = Users(T, f)  BY <1>0, <1>2 DEF Users, OthersKeep
  <1>4. \A u \in Procs \ {t} : T[u][pg] # Null => T[u][pg].frame # o
    <2> SUFFICES ASSUME NEW u \in Procs \ {t}, T[u][pg] # Null, T[u][pg].frame = o PROVE FALSE
      OBVIOUS
    <2>1. {t, u} \in SUBSET Users(T, o)  BY <1>0, <1>1, <1>2 DEF Users, OthersKeep
    <2>2. Cardinality({t, u}) = 2
      <3>1. IsFiniteSet({t}) /\ Cardinality({t}) = 1  BY FS_Singleton
      <3>2. u \notin {t}  OBVIOUS
      <3>4. Cardinality({t} \cup {u}) = Cardinality({t}) + 1  BY <3>1, <3>2, FS_AddElement
      <3>3. {t} \cup {u} = {t, u}  OBVIOUS
      <3> QED  BY <3>1, <3>3, <3>4
    <2>3. 2 <= Cardinality(Users(T, o))  BY <2>1, <2>2, UsersFinite, FS_Subset
    <2>4. F[o].refcount = Cardinality(Users(T, o))  BY <1>1 DEF PageOK, Counted, CountsKept
    <2> QED  BY <2>3, <2>4, UsersFinite
  <1>5. Counted(T2, F, pg)  BY <1>3 DEF PageOK, Counted, CountsKept
  <1>6. PageTyped(T2, pg)  BY <1>0, EntryThere DEF PageOK, PageTyped, OthersKeep
  <1>7. WritableAlone(T2, pg)  BY <1>0, <1>4 DEF PageOK, WritableAlone, OthersKeep
  <1> QED  BY <1>5, <1>6, <1>7 DEF PageOK

-------------------------------------------------------------------------------
FramesTyped == frames \in [FrameIds -> [refcount : Nat, value : Values]]

PagesOK == \A pg \in Pages : PageOK(tables, frames, pg)

(* A slot that has not been used has an empty page table. *)
FreshTables == \A q \in Procs : ctx[q].state = "UNUSED" => \A pg \in Pages : tables[q][pg] = Null

FramesOK == FramesTyped /\ PagesOK /\ FreshTables

FramesInv == PagesInv /\ FramesOK

LEMMA InitFrames == Init => FramesOK
  <1> SUFFICES ASSUME Init PROVE FramesOK  OBVIOUS
  <1> DEFINE top == <<"stack", 1>>
             none == [u \in Procs |-> [x \in Pages |-> Null]]
             free == [f \in FrameIds |-> Free]
  <1>1. 1 \in Procs /\ top \in StackPages /\ top \in Pages
    BY CowAssumption DEF Procs, StackPages, Pages
  <1>2. PICK value \in Values : frames = [f \in FrameIds |-> IF f = <<top, 1>> THEN New(value) ELSE Free]
    BY DEF Init
  <1>3. \A t \in Procs, pg \in Pages : tables[t][pg] =
           IF t = 1 /\ pg = top THEN [frame |-> <<pg, 1>>, w |-> TRUE] ELSE Null
    BY DEF Init
  <1>4. FramesTyped  BY <1>2, CowAssumption DEF FramesTyped, New, Free
  <1>5. FreshTables
    <2>1. ctx[1].state = "READY"  BY <1>1 DEF Init, Unused
    <2>2. \A q \in Procs : ctx[q].state = "UNUSED" => q # 1  BY <2>1
    <2> QED  BY <1>3, <2>2 DEF FreshTables
  <1>6. ASSUME NEW pg \in Pages PROVE PageOK(none, free, pg)
    <2>1. \A f \in {pg} \X Procs : f[1] = pg /\ f \in FrameIds  BY <1>6 DEF FrameIds
    <2>2. \A f \in {pg} \X Procs : Users(none, f) = {}  BY <1>6, <2>1 DEF Users, OthersKeep
    <2>3. \A f \in {pg} \X Procs : free[f].refcount = 0  BY <2>1 DEF Free
    <2>4. Counted(none, free, pg)  BY <2>2, <2>3, FS_EmptySet DEF Counted
    <2> HIDE DEF none
    <2>5. \A u \in Procs : none[u][pg] = Null  BY <1>6 DEF none
    <2>6. PageTyped(none, pg)  BY <2>5 DEF PageTyped
    <2>7. WritableAlone(none, pg)  BY <2>5 DEF WritableAlone
    <2> QED  BY <2>4, <2>6, <2>7 DEF PageOK
  <1>7. ASSUME NEW pg \in Pages PROVE PageOK(tables, frames, pg)
    <2>1. \A f \in {pg} \X Procs : f \in FrameIds /\ (f = <<top, 1>> => pg = top)
      BY <1>7 DEF FrameIds
    <2>2. \A f \in {pg} \X Procs : /\ free[f].refcount = 0
                                     /\ frames[f].refcount = IF f = <<top, 1>> THEN 1 ELSE 0
      BY <1>2, <2>1 DEF Free, New
    <2>3. \A u \in Procs : none[u][pg] = Null  BY <1>7
    <2>4. CASE pg # top
      <3>1. \A u \in Procs : tables[u][pg] = none[u][pg]  BY <1>3, <2>3, <2>4
      <3>2. \A f \in {pg} \X Procs : frames[f].refcount = free[f].refcount
        BY <2>1, <2>2, <2>4
      <3> HIDE DEF none, free
      <3> QED  BY <1>6, <3>1, <3>2, PageSame
    <2>5. CASE pg = top
      <3>1. <<top, 1>> \in {pg} \X Procs  BY <1>1, <2>5
      <3>2. tables[1][pg] = [frame |-> <<top, 1>>, w |-> TRUE]  BY <1>1, <1>3, <2>5
      <3>4. /\ tables[1][pg] \in PageEntries(pg) /\ tables[1][pg].frame = <<top, 1>>
            /\ (pg \in StackPages => tables[1][pg].w)
        BY <3>1, <3>2 DEF PageEntries
      <3>5. OthersKeep(none, tables, pg, {1})  BY <1>3, <2>3, <2>5 DEF OthersKeep
      <3>6. frames[<<top, 1>>].refcount = 1 /\ free[<<top, 1>>].refcount = 0
        BY <2>2, <3>1
      <3>7. CountsKept(free, frames, pg, {<<top, 1>>})
        BY <2>2 DEF CountsKept
      <3>8. none[1][pg] = Null  BY <1>1, <2>3
      <3> HIDE DEF none, free
      <3> QED  BY <1>1, <1>6, <3>1, <3>4, <3>5, <3>6, <3>7, <3>8, PageFilled
    <2> QED  BY <2>4, <2>5
  <1> QED  BY <1>4, <1>5, <1>7 DEF FramesOK, PagesOK

LEMMA FramesOfPages ==
    /\ \A pg \in Pages : \A f \in {pg} \X Procs : f \in FrameIds /\ f[1] = pg
    /\ \A f \in FrameIds : f[1] \in Pages /\ f \in {f[1]} \X Procs
  BY DEF FrameIds

LEMMA FreeForAbsent ==
    ASSUME PagesOK, NEW pg \in Pages, NEW t \in Procs, tables[t][pg] = Null
    PROVE  NewFrame(pg) \in {pg} \X Procs /\ frames[NewFrame(pg)].refcount = 0
  <1>1. \A i \in Procs : t \notin Users(tables, <<pg, i>>)  BY DEF Users, OthersKeep
  <1>2. \A i \in Procs : Users(tables, <<pg, i>>) # {t}  BY <1>1
  <1> QED  BY <1>2, NewFrameFree DEF PagesOK, PageOK

LEMMA FreeForShared ==
    ASSUME PagesOK, NEW pg \in Pages, NEW t \in Procs, tables[t][pg] # Null,
           frames[tables[t][pg].frame].refcount > 1
    PROVE  NewFrame(pg) \in {pg} \X Procs /\ frames[NewFrame(pg)].refcount = 0
  <1>1. PICK i \in Procs : tables[t][pg].frame = <<pg, i>>
    BY EntryThere DEF PagesOK, PageOK, PageTyped
  <1>2. Cardinality(Users(tables, <<pg, i>>)) > 1  BY <1>1 DEF PagesOK, PageOK, Counted
  <1>3. Cardinality({t}) = 1  BY FS_Singleton
  <1>4. Users(tables, <<pg, i>>) # {t}  BY <1>2, <1>3
  <1>5. \A j \in Procs \ {i} : t \notin Users(tables, <<pg, j>>)  BY <1>1 DEF Users, OthersKeep
  <1>6. \A j \in Procs : Users(tables, <<pg, j>>) # {t}  BY <1>4, <1>5
  <1> QED  BY <1>6, NewFrameFree DEF PagesOK, PageOK

(***************************************************************************)
(* The first access to a page.                                              *)
(***************************************************************************)
LEMMA TouchFrames ==
    ASSUME FramesInv, NEW p \in Procs, NEW pg \in Pages, Touch(p, pg)
    PROVE  FramesOK'
  <1> DEFINE t == ctx[p].pgd
             n == NewFrame(pg)
             e == [frame |-> n, w |-> Writable(pg)]
  <1>1. /\ Ready(p) /\ tables[t][pg] = Null /\ UNCHANGED ctx
        /\ frames' = [frames EXCEPT ![n] = New(Blank)]
        /\ tables' = [tables EXCEPT ![t][pg] = e]
    BY DEF Touch, Pte
  <1>2. t \in Procs /\ ctx[t].state # "UNUSED"
    BY <1>1 DEF FramesInv, PagesInv, IInv, TablesUsed, Ready
  <1>3. n \in {pg} \X Procs /\ frames[n].refcount = 0
    BY <1>1, <1>2, FreeForAbsent DEF FramesInv, FramesOK
  <1>4. e \in PageEntries(pg) /\ e.frame = n /\ (pg \in StackPages => e.w)
    <2>1. Writable(pg) \in BOOLEAN  BY DEF Writable
    <2>2. pg \in StackPages => Writable(pg)  BY DEF Writable, StackPages, MmapPages
    <2> QED  BY <1>3, <2>1, <2>2 DEF PageEntries
  <1>5. New(Blank) \in [refcount : Nat, value : Values] /\ New(Blank).refcount = 1
    BY CowAssumption DEF New
  <1> HIDE DEF e, n
  <1>6. \A u \in Procs, x \in Pages : tables'[u][x] = IF u = t /\ x = pg THEN e ELSE tables[u][x]
    BY <1>1, <1>2 DEF FramesInv, PagesInv, TablesShape
  <1>7. \A f \in FrameIds : frames'[f] = IF f = n THEN New(Blank) ELSE frames[f]
    BY <1>1 DEF FramesInv, FramesOK, FramesTyped
  <1>8. FramesTyped'  BY <1>1, <1>5 DEF FramesInv, FramesOK, FramesTyped
  <1>9. FreshTables'  BY <1>1, <1>2, <1>6 DEF FramesInv, FramesOK, FreshTables
  <1>10. ASSUME NEW x \in Pages PROVE PageOK(tables', frames', x)
    <2>1. PageOK(tables, frames, x)  BY DEF FramesInv, FramesOK, PagesOK
    <2>2. CASE x = pg
      <3>1. frames'[n].refcount = 1
        BY <1>3, <1>5, <1>7, FramesOfPages
      <3>2. CountsKept(frames, frames', pg, {n})
        BY <1>7, FramesOfPages DEF CountsKept
      <3>3. tables'[t][pg] = e /\ \A u \in Procs \ {t} : tables'[u][pg] = tables[u][pg]
        BY <1>2, <1>6
      <3>4. /\ tables'[t][pg] \in PageEntries(pg) /\ tables'[t][pg].frame = n
            /\ (pg \in StackPages => tables'[t][pg].w)
        BY <1>4, <3>3
      <3>5. PageOK(tables, frames, pg)  BY <2>1, <2>2
      <3>6. tables[t][pg] = Null  BY <1>1
      <3> HIDE DEF t
      <3>7. OthersKeep(tables, tables', pg, {t})  BY <3>3 DEF OthersKeep
      <3>8. PageOK(tables', frames', pg)
        BY <1>2, <1>3, <3>1, <3>2, <3>4, <3>5, <3>6, <3>7, PageFilled
      <3> QED  BY <2>2, <3>8
    <2>3. CASE x # pg
      <3>1. n[1] = pg  BY <1>3, FramesOfPages
      <3>2. \A f \in {x} \X Procs : frames'[f].refcount = frames[f].refcount
        BY <1>7, <2>3, <3>1, FramesOfPages
      <3>3. \A u \in Procs : tables'[u][x] = tables[u][x]  BY <1>6, <2>3
      <3> QED  BY <2>1, <3>2, <3>3, PageSame
    <2> QED  BY <2>2, <2>3
  <1> QED  BY <1>8, <1>9, <1>10 DEF FramesOK, PagesOK

(***************************************************************************)
(* A store changes what a frame holds.                                      *)
(***************************************************************************)
LEMMA StoreFrames ==
    ASSUME FramesInv, NEW p \in Procs, NEW pg \in Pages, NEW value \in Values, Store(p, pg, value)
    PROVE  FramesOK'
  <1> DEFINE n == tables[ctx[p].pgd][pg].frame
  <1>1. Ready(p) /\ tables[ctx[p].pgd][pg] # Null /\ UNCHANGED <<ctx, tables>>
        /\ frames' = [frames EXCEPT ![n] = [frames[n] EXCEPT !.value = value]]
    BY DEF Store, Pte
  <1>2. ctx[p].pgd \in Procs  BY <1>1 DEF FramesInv, PagesInv, IInv, TablesUsed, Ready
  <1>3. n \in FrameIds
    <2>1. tables[ctx[p].pgd][pg] \in PageEntries(pg)
      BY <1>1, <1>2 DEF FramesInv, FramesOK, PagesOK, PageOK, PageTyped
    <2> QED  BY <2>1, FramesOfPages, EntryThere
  <1>4. frames[n] \in [refcount : Nat, value : Values]
    BY <1>3 DEF FramesInv, FramesOK, FramesTyped
  <1>5. /\ [frames[n] EXCEPT !.value = value] \in [refcount : Nat, value : Values]
        /\ [frames[n] EXCEPT !.value = value].refcount = frames[n].refcount
    BY <1>4
  <1> HIDE DEF n
  <1>6. FramesTyped'  BY <1>1, <1>5 DEF FramesInv, FramesOK, FramesTyped
  <1>7. \A f \in FrameIds : frames'[f].refcount = frames[f].refcount
    BY <1>1, <1>3, <1>5 DEF FramesInv, FramesOK, FramesTyped
  <1>8. ASSUME NEW x \in Pages PROVE PageOK(tables', frames', x)
    <2>1. PageOK(tables, frames, x)  BY DEF FramesInv, FramesOK, PagesOK
    <2>2. \A f \in {x} \X Procs : frames'[f].refcount = frames[f].refcount
      BY <1>7, FramesOfPages
    <2>3. \A u \in Procs : tables'[u][x] = tables[u][x]  BY <1>1
    <2> QED  BY <2>1, <2>2, <2>3, PageSame
  <1>9. FreshTables'  BY <1>1 DEF FramesInv, FramesOK, FreshTables
  <1> QED  BY <1>6, <1>8, <1>9 DEF FramesOK, PagesOK

(***************************************************************************)
(* The copy-on-write fault: with other sharers a frame of its own, alone    *)
(* the write bit.                                                           *)
(***************************************************************************)
LEMMA FaultFrames ==
    ASSUME FramesInv, NEW p \in Procs, NEW pg \in Pages, handle_cow_fault(p, pg)
    PROVE  FramesOK'
  <1> DEFINE t == ctx[p].pgd
             n == NewFrame(pg)
             o == tables[t][pg].frame
             e == IF frames[o].refcount > 1 THEN [frame |-> n, w |-> TRUE]
                  ELSE [tables[t][pg] EXCEPT !.w = TRUE]
  <1>1. Ready(p) /\ tables[t][pg] # Null /\ UNCHANGED ctx
    BY DEF handle_cow_fault, Pte
  <1>2. t \in Procs /\ ctx[t].state # "UNUSED"
    BY <1>1 DEF FramesInv, PagesInv, IInv, TablesUsed, Ready
  <1>3. o \in {pg} \X Procs /\ o \in FrameIds
    BY <1>1, <1>2, FramesOfPages, EntryThere DEF FramesInv, FramesOK, PagesOK, PageOK, PageTyped
  <1>4. frames[o].refcount \in Nat  BY <1>3 DEF FramesInv, FramesOK, FramesTyped
  <1>5. PageOK(tables, frames, pg)  BY DEF FramesInv, FramesOK, PagesOK
  <1>6. tables' = [tables EXCEPT ![t][pg] = e]
    BY DEF handle_cow_fault, Pte, FrameOf
  <1> HIDE DEF e
  <1>7. \A u \in Procs, x \in Pages : tables'[u][x] = IF u = t /\ x = pg THEN e ELSE tables[u][x]
    BY <1>2, <1>6 DEF FramesInv, PagesInv, TablesShape
  <1>8. FreshTables'  BY <1>1, <1>2, <1>7 DEF FramesInv, FramesOK, FreshTables
  <1>9. tables'[t][pg] = e /\ \A u \in Procs \ {t} : tables'[u][pg] = tables[u][pg]
    BY <1>2, <1>7
  <1>10. \A x \in Pages \ {pg} : \A u \in Procs : tables'[u][x] = tables[u][x]
    BY <1>7
  <1>11. CASE frames[o].refcount > 1
    <2>1. frames' = [frames EXCEPT ![o].refcount = @ - 1, ![n] = New(Blank)]
      BY <1>11 DEF handle_cow_fault, Pte, FrameOf
    <2>2. n \in {pg} \X Procs /\ frames[n].refcount = 0
      BY <1>1, <1>2, <1>11, FreeForShared DEF FramesInv, FramesOK
    <2>3. e \in PageEntries(pg) /\ e.frame = n /\ e.w = TRUE
      <3>1. e = [frame |-> n, w |-> TRUE]  BY <1>11 DEF e
      <3> QED  BY <2>2, <3>1 DEF PageEntries
    <2> HIDE DEF n
    <2>4. n # o /\ n \in FrameIds  BY <1>11, <2>2, FramesOfPages
    <2>5. frames \in [FrameIds -> [refcount : Nat, value : Values]]
      BY DEF FramesInv, FramesOK, FramesTyped
    <2> DEFINE less == [frames[o] EXCEPT !.refcount = frames[o].refcount - 1]
    <2>6. less \in [refcount : Nat, value : Values] /\ less.refcount = frames[o].refcount - 1
      <3>1. frames[o].refcount - 1 \in Nat  BY <1>4, <1>11
      <3>2. frames[o] \in [refcount : Nat, value : Values]  BY <1>3, <2>5
      <3> QED  BY <3>1, <3>2
    <2>7. New(Blank) \in [refcount : Nat, value : Values] /\ New(Blank).refcount = 1
      BY CowAssumption DEF New
    <2>8. frames' = [frames EXCEPT ![o] = less, ![n] = New(Blank)]  BY <2>1
    <2> HIDE DEF less
    <2>9. \A f \in FrameIds : frames'[f] = IF f = n THEN New(Blank) ELSE IF f = o THEN less ELSE frames[f]
      BY <2>5, <2>8
    <2>10. FramesTyped'  BY <2>5, <2>6, <2>7, <2>8 DEF FramesTyped
    <2>11. ASSUME NEW x \in Pages PROVE PageOK(tables', frames', x)
      <3>1. CASE x = pg
        <4>1. frames'[n].refcount = 1 /\ frames'[o].refcount = frames[o].refcount - 1
          BY <1>3, <2>4, <2>6, <2>7, <2>9
        <4>2. \A f \in ({pg} \X Procs) \ {n, o} : frames'[f].refcount = frames[f].refcount
          BY <2>9, FramesOfPages
        <4>3. /\ tables'[t][pg].frame = n /\ tables'[t][pg].w = TRUE /\ tables'[t][pg] \in PageEntries(pg)
              /\ OthersKeep(tables, tables', pg, {t})
          BY <1>9, <2>3 DEF OthersKeep
        <4>4. tables[t][pg] # Null  BY <1>1
        <4>5. frames'[tables[t][pg].frame].refcount = frames[tables[t][pg].frame].refcount - 1
          BY <4>1
        <4>6. CountsKept(frames, frames', pg, {n, tables[t][pg].frame})
          BY <4>2 DEF CountsKept
        <4>7. n # tables[t][pg].frame /\ frames'[n].refcount = 1  BY <2>4, <4>1
        <4> HIDE DEF t, o
        <4>8. PageOK(tables', frames', pg)
          BY <1>2, <1>5, <2>2, <4>3, <4>4, <4>5, <4>6, <4>7, PageReplaced
        <4> QED  BY <3>1, <4>8
      <3>2. CASE x # pg
        <4>1. n[1] = pg /\ o[1] = pg  BY <1>3, <2>2, FramesOfPages
        <4>2. \A f \in {x} \X Procs : frames'[f].refcount = frames[f].refcount
          BY <2>9, <3>2, <4>1, FramesOfPages
        <4>3. PageOK(tables, frames, x)  BY DEF FramesInv, FramesOK, PagesOK
        <4> QED  BY <1>10, <3>2, <4>2, <4>3, PageSame
      <3> QED  BY <3>1, <3>2
    <2> QED  BY <1>8, <2>10, <2>11 DEF FramesOK, PagesOK
  <1>12. CASE ~ (frames[o].refcount > 1)
    <2>1. UNCHANGED frames  BY <1>12 DEF handle_cow_fault, Pte, FrameOf
    <2>2. e \in PageEntries(pg) /\ e.frame = o /\ e.w = TRUE
      <3>1. tables[t][pg] \in PageEntries(pg)  BY <1>1, <1>2, <1>5 DEF PageOK, PageTyped
      <3> QED  BY <1>12, <3>1 DEF e, PageEntries
    <2>3. ASSUME NEW x \in Pages PROVE PageOK(tables', frames', x)
      <3>1. CASE x = pg
        <4>1. /\ tables'[t][pg].frame = tables[t][pg].frame /\ tables'[t][pg].w = TRUE
              /\ tables'[t][pg] \in PageEntries(pg)
              /\ OthersKeep(tables, tables', pg, {t})
          BY <1>9, <2>2 DEF OthersKeep
        <4>2. tables[t][pg] # Null  BY <1>1
        <4>3. ~ (frames[tables[t][pg].frame].refcount > 1)  BY <1>12
        <4> HIDE DEF t
        <4>4. PageOK(tables', frames, pg)
          BY <1>2, <1>5, <4>1, <4>2, <4>3, PageUnlocked
        <4> QED  BY <2>1, <3>1, <4>4
      <3>2. CASE x # pg
        <4>1. PageOK(tables, frames, x)  BY DEF FramesInv, FramesOK, PagesOK
        <4> QED  BY <1>10, <2>1, <3>2, <4>1, PageSame
      <3> QED  BY <3>1, <3>2
    <2>4. FramesTyped'  BY <2>1 DEF FramesInv, FramesOK, FramesTyped
    <2> QED  BY <1>8, <2>3, <2>4 DEF FramesOK, PagesOK
  <1> QED  BY <1>11, <1>12

(***************************************************************************)
(* cfork: every shared page has a user more, every stack page of the child  *)
(* a frame of its own.                                                      *)
(***************************************************************************)
LEMMA CforkFrames ==
    ASSUME FramesInv, NEW p \in Procs, NEW c \in Procs, cfork_copy_mm(p, c)
    PROVE  FramesOK'
  <1> DEFINE t == ctx[p].pgd
             stack == Present(t, Known(p) \cap StackPages)
             o(x) == tables[t][x].frame
             locked(x) == [tables[t][x] EXCEPT !.w = FALSE]
             fresh(x) == [frame |-> NewFrame(x), w |-> TRUE]
             child == [ctx[p] EXCEPT !.ppid = p, !.pgd = c]
             copy == [x \in Pages |-> IF x \in Shared(p) THEN locked(x)
                                     ELSE IF x \in stack THEN fresh(x) ELSE Null]
             own == [x \in Pages |-> IF x \in Shared(p) THEN locked(x) ELSE tables[t][x]]
  <1>1. /\ Ready(p) /\ ctx[c].state = "UNUSED" /\ ctx' = [ctx EXCEPT ![c] = child]
        /\ tables' = [tables EXCEPT ![t] = own, ![c] = copy]
        /\ frames' = [f \in FrameIds |->
              IF f[1] \in Shared(p) /\ f = o(f[1]) THEN [frames[f] EXCEPT !.refcount = @ + 1]
              ELSE IF f[1] \in stack /\ f = NewFrame(f[1]) THEN New(frames[o(f[1])].value)
              ELSE frames[f]]
    BY DEF cfork_copy_mm, NextSlot, ReadOnlyIn, Pte, FrameOf
  <1>2. t \in Procs /\ ctx[t].state # "UNUSED" /\ t # c
    BY <1>1 DEF FramesInv, PagesInv, IInv, TablesUsed, Ready
  <1>3. /\ Shared(p) \subseteq Pages \ StackPages /\ stack \subseteq Pages
        /\ Shared(p) \cap stack = {}
        /\ \A x \in Shared(p) \cup stack : tables[t][x] # Null
    BY DEF Shared, Present, Pte, Known
  <1>4. \A x \in Pages : tables[c][x] = Null
    BY <1>1 DEF FramesInv, FramesOK, FreshTables
  <1>5. \A x \in Shared(p) \cup stack : tables[t][x] \in PageEntries(x) /\ o(x) \in {x} \X Procs
    BY <1>2, <1>3, EntryThere DEF FramesInv, FramesOK, PagesOK, PageOK, PageTyped
  <1>6. \A x \in Shared(p) : /\ locked(x) \in PageEntries(x)
                             /\ locked(x).frame = o(x) /\ locked(x).w = FALSE
    <2> SUFFICES ASSUME NEW x \in Shared(p)
                 PROVE  /\ locked(x) \in PageEntries(x)
                        /\ locked(x).frame = o(x) /\ locked(x).w = FALSE
      OBVIOUS
    <2>1. tables[t][x] \in [frame : {x} \X Procs, w : BOOLEAN]  BY <1>5 DEF PageEntries
    <2>2. locked(x) \in [frame : {x} \X Procs, w : BOOLEAN]  BY <2>1
    <2>3. locked(x).frame = o(x) /\ locked(x).w = FALSE  BY <2>1
    <2> QED  BY <2>2, <2>3 DEF PageEntries
  <1>7. \A x \in stack : NewFrame(x) \in {x} \X Procs /\ frames[NewFrame(x)].refcount = 0
    BY <1>3, <1>4, FreeForAbsent DEF FramesInv, FramesOK
  <1>8. \A x \in stack : /\ fresh(x) \in PageEntries(x)
                         /\ fresh(x).frame = NewFrame(x) /\ fresh(x).w = TRUE
    BY <1>7 DEF PageEntries
  <1>9. child.state # "UNUSED"  BY <1>1 DEF Ready, FramesInv, PagesInv, IInv, ContextsOK, Context
  <1>10. ctx \in [Procs -> Context]  BY DEF FramesInv, PagesInv, IInv, ContextsOK
  <1>11. frames \in [FrameIds -> [refcount : Nat, value : Values]]
    BY DEF FramesInv, FramesOK, FramesTyped
  <1> HIDE DEF child, locked, fresh, stack
  <1>12. \A u \in Procs, x \in Pages : tables'[u][x] =
            IF u = t THEN IF x \in Shared(p) THEN locked(x) ELSE tables[t][x]
            ELSE IF u = c THEN IF x \in Shared(p) THEN locked(x) ELSE IF x \in stack THEN fresh(x) ELSE Null
            ELSE tables[u][x]
    BY <1>1, <1>2 DEF FramesInv, PagesInv, TablesShape
  <1>13. FreshTables'
    <2> SUFFICES ASSUME NEW q \in Procs, ctx'[q].state = "UNUSED", NEW x \in Pages
                 PROVE  tables'[q][x] = Null
      BY DEF FreshTables
    <2>1. q # c /\ ctx[q].state = "UNUSED"  BY <1>1, <1>9, <1>10
    <2>2. q # t  BY <1>2, <2>1
    <2> QED  BY <1>12, <2>1, <2>2 DEF FramesInv, FramesOK, FreshTables
  <1>14. FramesTyped'
    <2>1. ASSUME NEW f \in FrameIds PROVE frames'[f] \in [refcount : Nat, value : Values]
      <3>1. CASE f[1] \in Shared(p) /\ f = o(f[1])
        <4>1. frames'[f] = [frames[f] EXCEPT !.refcount = frames[f].refcount + 1]  BY <1>1, <3>1
        <4> QED  BY <1>11, <4>1
      <3>2. CASE ~ (f[1] \in Shared(p) /\ f = o(f[1])) /\ f[1] \in stack /\ f = NewFrame(f[1])
        <4>1. frames'[f] = New(frames[o(f[1])].value)  BY <1>1, <3>2
        <4>2. o(f[1]) \in FrameIds  BY <1>3, <1>5, <3>2, FramesOfPages
        <4> HIDE DEF o
        <4>3. frames[o(f[1])].value \in Values  BY <1>11, <4>2
        <4> QED  BY <4>1, <4>3 DEF New
      <3>3. CASE ~ (f[1] \in Shared(p) /\ f = o(f[1])) /\ ~ (f[1] \in stack /\ f = NewFrame(f[1]))
        <4>1. frames'[f] = frames[f]  BY <1>1, <3>3
        <4> QED  BY <1>11, <4>1
      <3> QED  BY <3>1, <3>2, <3>3
    <2>2. frames' = [f \in FrameIds |-> frames'[f]]  BY <1>1
    <2> QED  BY <2>1, <2>2 DEF FramesTyped
  <1>15. ASSUME NEW x \in Pages PROVE PageOK(tables', frames', x)
    <2>1. PageOK(tables, frames, x)  BY DEF FramesInv, FramesOK, PagesOK
    <2>2. \A f \in {x} \X Procs : f \in FrameIds /\ f[1] = x  BY FramesOfPages
    <2>3. OthersKeep(tables, tables', x, {t, c})  BY <1>12 DEF OthersKeep
    <2>4. CASE x \in Shared(p)
      <3>1. o(x) \in {x} \X Procs  BY <1>5, <2>4
      <3>2. \A f \in {x} \X Procs : frames'[f] =
               IF f = o(x) THEN [frames[f] EXCEPT !.refcount = @ + 1] ELSE frames[f]
        BY <1>1, <1>3, <2>2, <2>4
      <3>3. CountsKept(frames, frames', x, {tables[t][x].frame})
        BY <3>2 DEF CountsKept
      <3>4. frames'[tables[t][x].frame].refcount = frames[tables[t][x].frame].refcount + 1
        <4>1. frames[o(x)] \in [refcount : Nat, value : Values]  BY <1>11, <2>2, <3>1
        <4> QED  BY <3>1, <3>2, <4>1
      <3>5. tables[t][x] # Null /\ tables[c][x] = Null /\ x \in Pages \ StackPages
        BY <1>3, <1>4, <2>4
      <3>6. /\ tables'[t][x] \in PageEntries(x) /\ tables'[t][x].frame = tables[t][x].frame
            /\ tables'[t][x].w = FALSE
        BY <1>2, <1>6, <1>12, <2>4
      <3>7. /\ tables'[c][x] \in PageEntries(x) /\ tables'[c][x].frame = tables[t][x].frame
            /\ tables'[c][x].w = FALSE
        BY <1>2, <1>6, <1>12, <2>4
      <3> HIDE DEF t, o
      <3> QED  BY <1>2, <2>1, <2>3, <3>3, <3>4, <3>5, <3>6, <3>7, PageShared
    <2>5. CASE x \in stack
      <3>1. \A f \in {x} \X Procs : f # NewFrame(x) => frames'[f] = frames[f]
        BY <1>1, <1>3, <2>2, <2>5
      <3>2. frames'[NewFrame(x)] = New(frames[o(x)].value)
        BY <1>1, <1>3, <1>7, <2>2, <2>5
      <3>3. frames'[NewFrame(x)].refcount = 1  BY <3>2 DEF New
      <3>4. CountsKept(frames, frames', x, {NewFrame(x)})  BY <3>1 DEF CountsKept
      <3>5. tables'[c][x] = fresh(x) /\ tables'[t][x] = tables[t][x]  BY <1>2, <1>3, <1>12, <2>5
      <3>6. OthersKeep(tables, tables', x, {c})  BY <1>12, <2>3, <3>5 DEF OthersKeep
      <3>7. /\ tables'[c][x] \in PageEntries(x) /\ tables'[c][x].frame = NewFrame(x)
            /\ (x \in StackPages => tables'[c][x].w)
        BY <1>8, <2>5, <3>5
      <3>8. NewFrame(x) \in {x} \X Procs /\ frames[NewFrame(x)].refcount = 0  BY <1>7, <2>5
      <3>9. tables[c][x] = Null  BY <1>4
      <3> QED  BY <2>1, <3>3, <3>4, <3>6, <3>7, <3>8, <3>9, PageFilled
    <2>6. CASE x \notin Shared(p) /\ x \notin stack
      <3>1. \A f \in {x} \X Procs : frames'[f].refcount = frames[f].refcount
        BY <1>1, <2>2, <2>6
      <3>2. \A u \in Procs : tables'[u][x] = tables[u][x]  BY <1>4, <1>12, <2>6
      <3> QED  BY <2>1, <3>1, <3>2, PageSame
    <2> QED  BY <2>4, <2>5, <2>6
  <1> QED  BY <1>13, <1>14, <1>15 DEF FramesOK, PagesOK

(***************************************************************************)
(* vfork: the copies of the stack pages go to frames that are free, or to   *)
(* the frames that are there, which nobody shares.                          *)
(***************************************************************************)
LEMMA VforkFrames ==
    ASSUME FramesInv, NEW p \in Procs, NEW c \in Procs, vfork_copy_mm(p, c)
    PROVE  FramesOK'
  <1> DEFINE t == ctx[p].pgd
             Above(x) == <<"stack", x[2] - ctx[p].stack>>
             below == {x \in StackPages : Above(x) \in Present(t, Known(p))}
             target(x) == IF tables[t][x] = Null THEN NewFrame(x) ELSE tables[t][x].frame
             above(x) == frames[tables[t][Above(x)].frame].value
             fresh(x) == [frame |-> NewFrame(x), w |-> TRUE]
             child == [ctx[p] EXCEPT !.ppid = p, !.stack = 2 * ctx[p].stack]
             own == [x \in Pages |-> IF x \in below /\ tables[t][x] = Null THEN fresh(x)
                                    ELSE tables[t][x]]
  <1>1. /\ Ready(p) /\ ctx[c].state = "UNUSED"
        /\ ctx' = [ctx EXCEPT ![p].state = "WAITING", ![c] = child]
        /\ tables' = [tables EXCEPT ![t] = own]
        /\ frames' = [f \in FrameIds |->
              IF f[1] \in below /\ f = target(f[1])
              THEN [refcount |-> IF tables[t][f[1]] = Null THEN 1 ELSE frames[f].refcount,
                    value |-> above(f[1])]
              ELSE frames[f]]
    BY DEF vfork_copy_mm, Below, NextSlot, Pte, FrameOf
  <1>2. t \in Procs /\ ctx[t].state # "UNUSED"
    BY <1>1 DEF FramesInv, PagesInv, IInv, TablesUsed, Ready
  <1>3. below \subseteq Pages
    BY DEF Pages
  <1>4. \A x \in below : above(x) \in Values
    <2> SUFFICES ASSUME NEW x \in below PROVE above(x) \in Values  OBVIOUS
    <2>1. Above(x) \in Pages /\ tables[t][Above(x)] # Null  BY DEF Present, Pte, Known
    <2> DEFINE a == Above(x)
    <2> HIDE DEF a
    <2>2. a \in Pages /\ tables[t][a] # Null  BY <2>1 DEF a
    <2>3. tables[t][a] \in PageEntries(a)
      BY <1>2, <2>2 DEF FramesInv, FramesOK, PagesOK, PageOK, PageTyped
    <2>4. tables[t][a].frame \in FrameIds  BY <2>2, <2>3, EntryThere, FramesOfPages
    <2>5. frames[tables[t][a].frame].value \in Values
      BY <2>4 DEF FramesInv, FramesOK, FramesTyped
    <2> QED  BY <2>5 DEF a
  <1>5. \A x \in below : tables[t][x] = Null =>
           NewFrame(x) \in {x} \X Procs /\ frames[NewFrame(x)].refcount = 0
    BY <1>2, <1>3, FreeForAbsent DEF FramesInv, FramesOK
  <1>6. \A x \in below : tables[t][x] = Null =>
           /\ fresh(x) \in PageEntries(x)
           /\ fresh(x).frame = NewFrame(x) /\ fresh(x).w = TRUE
    BY <1>5 DEF PageEntries
  <1>7. child.state # "UNUSED"  BY <1>1 DEF Ready, FramesInv, PagesInv, IInv, ContextsOK, Context
  <1>8. ctx \in [Procs -> Context]  BY DEF FramesInv, PagesInv, IInv, ContextsOK
  <1>9. frames \in [FrameIds -> [refcount : Nat, value : Values]]
    BY DEF FramesInv, FramesOK, FramesTyped
  <1> HIDE DEF child, fresh, below, above
  <1>10. \A u \in Procs, x \in Pages : tables'[u][x] =
            IF u = t /\ x \in below /\ tables[t][x] = Null THEN fresh(x) ELSE tables[u][x]
    BY <1>1, <1>2 DEF FramesInv, PagesInv, TablesShape
  <1>11. FreshTables'
    <2> SUFFICES ASSUME NEW q \in Procs, ctx'[q].state = "UNUSED", NEW x \in Pages
                 PROVE  tables'[q][x] = Null
      BY DEF FreshTables
    <2> DEFINE waiting == [ctx[p] EXCEPT !.state = "WAITING"]
    <2>0. ctx' = [ctx EXCEPT ![p] = waiting, ![c] = child] /\ p # c  BY <1>1 DEF Ready
    <2>a. waiting.state = "WAITING"  BY <1>8 DEF Context
    <2> HIDE DEF waiting
    <2>1. q # c /\ q # p /\ ctx[q].state = "UNUSED"  BY <1>7, <1>8, <2>0, <2>a
    <2>2. q # t  BY <1>2, <2>1
    <2> QED  BY <1>10, <2>1, <2>2 DEF FramesInv, FramesOK, FreshTables
  <1>12. FramesTyped'
    <2>1. ASSUME NEW f \in FrameIds PROVE frames'[f] \in [refcount : Nat, value : Values]
      <3>1. CASE f[1] \in below /\ f = target(f[1])
        <4>1. frames'[f] = [refcount |-> IF tables[t][f[1]] = Null THEN 1 ELSE frames[f].refcount,
                            value |-> above(f[1])]
          BY <1>1, <3>1
        <4>2. frames[f].refcount \in Nat  BY <1>9
        <4> QED  BY <1>4, <3>1, <4>1, <4>2
      <3>2. CASE ~ (f[1] \in below /\ f = target(f[1]))
        <4>1. frames'[f] = frames[f]  BY <1>1, <3>2
        <4> QED  BY <1>9, <4>1
      <3> QED  BY <3>1, <3>2
    <2>2. frames' = [f \in FrameIds |-> frames'[f]]  BY <1>1
    <2> QED  BY <2>1, <2>2 DEF FramesTyped
  <1>13. ASSUME NEW x \in Pages PROVE PageOK(tables', frames', x)
    <2>1. PageOK(tables, frames, x)  BY DEF FramesInv, FramesOK, PagesOK
    <2>2. \A f \in {x} \X Procs : f \in FrameIds /\ f[1] = x  BY FramesOfPages
    <2>3. CASE x \in below /\ tables[t][x] = Null
      <3>1. target(x) = NewFrame(x)  BY <2>3
      <3>2. NewFrame(x) \in {x} \X Procs /\ frames[NewFrame(x)].refcount = 0  BY <1>5, <2>3
      <3>3. \A f \in {x} \X Procs : f # NewFrame(x) => frames'[f] = frames[f]
        BY <1>1, <2>2, <3>1
      <3>4. frames'[NewFrame(x)] = [refcount |-> 1, value |-> above(x)]
        BY <1>1, <2>2, <2>3, <3>1, <3>2
      <3>5. frames'[NewFrame(x)].refcount = 1  BY <3>4
      <3>6. CountsKept(frames, frames', x, {NewFrame(x)})  BY <3>3 DEF CountsKept
      <3>7. tables'[t][x] = fresh(x)  BY <1>2, <1>10, <2>3
      <3>8. OthersKeep(tables, tables', x, {t})  BY <1>10 DEF OthersKeep
      <3>9. /\ tables'[t][x] \in PageEntries(x) /\ tables'[t][x].frame = NewFrame(x)
            /\ (x \in StackPages => tables'[t][x].w)
        BY <1>6, <2>3, <3>7
      <3> HIDE DEF t
      <3> QED  BY <1>2, <2>1, <2>3, <3>2, <3>5, <3>6, <3>8, <3>9, PageFilled
    <2>4. CASE ~ (x \in below /\ tables[t][x] = Null)
      <3>1. \A u \in Procs : tables'[u][x] = tables[u][x]  BY <1>10, <2>4
      <3>2. ASSUME NEW f \in {x} \X Procs PROVE frames'[f].refcount = frames[f].refcount
        <4>1. f \in FrameIds /\ f[1] = x  BY <2>2
        <4>2. CASE x \in below /\ f = target(x)
          <5>1. frames'[f] = [refcount |-> frames[f].refcount, value |-> above(x)]
            BY <1>1, <2>4, <4>1, <4>2
          <5> QED  BY <5>1
        <4>3. CASE ~ (x \in below /\ f = target(x))  BY <1>1, <4>1, <4>3
        <4> QED  BY <4>2, <4>3
      <3> QED  BY <2>1, <3>1, <3>2, PageSame
    <2> QED  BY <2>3, <2>4
  <1> QED  BY <1>11, <1>12, <1>13 DEF FramesOK, PagesOK

LEMMA NextFrames == FramesInv /\ [Next]_vars => FramesOK'
  <1> SUFFICES ASSUME FramesInv, [Next]_vars PROVE FramesOK'  OBVIOUS
  <1>1. ASSUME UNCHANGED <<tables, frames>>,
               \A q \in Procs : ctx'[q].state = "UNUSED" => ctx[q].state = "UNUSED"
        PROVE  FramesOK'
    <2>1. FreshTables'  BY <1>1 DEF FramesInv, FramesOK, FreshTables
    <2>2. PagesOK'  BY <1>1 DEF FramesInv, FramesOK, PagesOK
    <2> QED  BY <1>1, <2>1, <2>2 DEF FramesInv, FramesOK, FramesTyped
  <1>2. ctx \in [Procs -> Context]  BY DEF FramesInv, PagesInv, IInv, ContextsOK
  <1>3. ASSUME NEW p \in Procs, Expand(p) PROVE FramesOK'
    <2>1. ctx' = [ctx EXCEPT ![p] = [ctx[p] EXCEPT !.data = ctx[p].data + 1]]
          /\ UNCHANGED <<tables, frames>>
      BY <1>3 DEF Expand
    <2>2. \A q \in Procs : ctx'[q].state = ctx[q].state  BY <1>2, <2>1 DEF Context
    <2> QED  BY <1>1, <2>1, <2>2
  <1>4. ASSUME NEW p \in Procs, NEW i \in DOMAIN MmapRights, MapArea(p, i) PROVE FramesOK'
    <2>1. ctx' = [ctx EXCEPT ![p] = [ctx[p] EXCEPT !.vm_area = ctx[p].vm_area \cup {i}]]
          /\ UNCHANGED <<tables, frames>>
      BY <1>4 DEF MapArea
    <2>2. \A q \in Procs : ctx'[q].state = ctx[q].state  BY <1>2, <2>1 DEF Context
    <2> QED  BY <1>1, <2>1, <2>2
  <1>5. ASSUME NEW p \in Procs, Exit(p) PROVE FramesOK'
    <2>1. /\ ctx' = [q \in Procs |-> IF q = p THEN [ctx[p] EXCEPT !.state = "EXITED"]
                       ELSE IF q \in VforkParents(p) THEN Resumed(p, q) ELSE ctx[q]]
          /\ UNCHANGED <<tables, frames>>
      BY <1>5 DEF Exit
    <2>2. [ctx[p] EXCEPT !.state = "EXITED"].state = "EXITED"  BY <1>2 DEF Context
    <2>3. \A q \in Procs : Resumed(p, q).state = "READY"  BY <1>2 DEF Context, Resumed
    <2>4. \A q \in Procs : ctx'[q].state = "UNUSED" => ctx[q].state = "UNUSED"
      BY <2>1, <2>2, <2>3
    <2> QED  BY <1>1, <2>1, <2>4
  <1>6. ASSUME NEW p \in Procs, NEW pg \in Pages, Touch(p, pg) PROVE FramesOK'
    BY <1>6, TouchFrames
  <1>7. ASSUME NEW p \in Procs, NEW pg \in Pages, handle_cow_fault(p, pg) PROVE FramesOK'
    BY <1>7, FaultFrames
  <1>8. ASSUME NEW p \in Procs, NEW pg \in Pages, NEW value \in Values, Store(p, pg, value)
        PROVE  FramesOK'
    BY <1>8, StoreFrames
  <1>9. ASSUME NEW p \in Procs, NEW c \in Procs, cfork_copy_mm(p, c) PROVE FramesOK'
    BY <1>9, CforkFrames
  <1>10. ASSUME NEW p \in Procs, NEW c \in Procs, vfork_copy_mm(p, c) PROVE FramesOK'
    BY <1>10, VforkFrames
  <1>11. CASE Halted \/ UNCHANGED vars  BY <1>1, <1>11 DEF Halted, vars
  <1> QED  BY <1>3, <1>4, <1>5, <1>6, <1>7, <1>8, <1>9, <1>10, <1>11 DEF Next

(***************************************************************************)
(* The page tables that use a frame, counted as the entries that point to   *)
(* it.                                                                      *)
(***************************************************************************)
LEMMA EntriesAreUsers ==
    ASSUME NEW f \in FrameIds, \A pg \in Pages : PageOK(tables, frames, pg)
    PROVE  Cardinality(EntriesOf(f)) = Cardinality(Users(tables, f))
  <1>1. f[1] \in Pages  BY FramesOfPages
  <1>2. \A t \in Procs, pg \in Pages : tables[t][pg] # Null =>
           tables[t][pg].frame \in {pg} \X Procs
    BY EntryThere DEF PageOK, PageTyped
  <1>3. \A t \in Procs, pg \in Pages : tables[t][pg] # Null /\ tables[t][pg].frame = f => pg = f[1]
    BY <1>2
  <1>4. EntriesOf(f) = Users(tables, f) \X {f[1]}
    BY <1>1, <1>3 DEF EntriesOf, Entries, Pte, Users
  <1>5. IsFiniteSet(Users(tables, f)) /\ Cardinality(Users(tables, f)) \in Nat  BY UsersFinite
  <1>6. IsFiniteSet({f[1]}) /\ Cardinality({f[1]}) = 1  BY FS_Singleton
  <1>7. Cardinality(EntriesOf(f)) = Cardinality(Users(tables, f)) * 1
    BY <1>4, <1>5, <1>6, FS_Product
  <1> QED  BY <1>5, <1>7

LEMMA FramesAlways == Spec => []FramesInv
  <1>1. Init => FramesInv  BY InitPages, InitFrames DEF FramesInv
  <1>2. FramesInv /\ [Next]_vars => FramesInv'
    BY NextIInv, NextPages, NextFrames DEF FramesInv, PagesInv
  <1> QED  BY <1>1, <1>2, PTL DEF Spec

(***************************************************************************)
(* For any number of processes and pages and any tree of cforks and vforks  *)
(* the reference count of a frame is the number of page table entries that  *)
(* point to it (cfork.c:48, 82, 184, 209).                                  *)
(***************************************************************************)
THEOREM RefCounts == Spec => []RefCountExact
  <1>1. FramesInv => RefCountExact
    <2> SUFFICES ASSUME FramesInv, NEW f \in FrameIds
                 PROVE  frames[f].refcount = Cardinality(EntriesOf(f))
      BY DEF RefCountExact
    <2>1. Cardinality(EntriesOf(f)) = Cardinality(Users(tables, f))
      BY EntriesAreUsers DEF FramesInv, FramesOK, PagesOK
    <2>2. frames[f].refcount = Cardinality(Users(tables, f))
      BY FramesOfPages DEF FramesInv, FramesOK, PagesOK, PageOK, Counted
    <2> QED  BY <2>1, <2>2
  <1> QED  BY FramesAlways, <1>1, PTL
-------------------------------------------------------------------------------
(***************************************************************************)
(* Separate memory spaces.  A step leaves what a page table shows when it   *)
(* leaves its frames and what they hold.                                    *)
(***************************************************************************)
Sees(u, x) == /\ tables[u][x] # Null <=> tables'[u][x] # Null
              /\ tables[u][x] # Null => /\ tables'[u][x].frame = tables[u][x].frame
                                       /\ frames'[tables[u][x].frame].value = frames[tables[u][x].frame].value

LEMMA SameSpace ==
    ASSUME NEW u \in Procs, \A x \in Pages : Sees(u, x)
    PROVE  Space(u)' = Space(u)
  <1>1. Present(u, Pages)' = Present(u, Pages)  BY DEF Present, Pte, Sees
  <1>2. \A x \in Present(u, Pages) : FrameOf(Pte(u, x))'.value = FrameOf(Pte(u, x)).value
    BY DEF Present, Pte, Sees, FrameOf
  <1> QED  BY <1>1, <1>2 DEF Space

(***************************************************************************)
(* Frames that are in use are not free, and are used for one page only.     *)
(***************************************************************************)
LEMMA InUse ==
    ASSUME FramesInv, NEW u \in Procs, NEW x \in Pages, tables[u][x] # Null
    PROVE  /\ tables[u][x].frame \in FrameIds /\ tables[u][x].frame[1] = x
           /\ frames[tables[u][x].frame].refcount # 0
  <1>1. tables[u][x] \in PageEntries(x)
    BY DEF FramesInv, FramesOK, PagesOK, PageOK, PageTyped
  <1>2. PICK f \in {x} \X Procs : tables[u][x].frame = f  BY <1>1, EntryThere
  <1>3. f \in FrameIds /\ f[1] = x  BY <1>2, FramesOfPages
  <1>4. u \in Users(tables, f)  BY <1>2, <1>3 DEF Users
  <1>5. Cardinality(Users(tables, f)) # 0  BY <1>4, UsersFinite, FS_EmptySet
  <1>6. frames[f].refcount = Cardinality(Users(tables, f))
    BY <1>3 DEF FramesInv, FramesOK, PagesOK, PageOK, Counted
  <1> QED  BY <1>2, <1>3, <1>5, <1>6

LEMMA TouchSeparate ==
    ASSUME FramesInv, NEW p \in Procs, NEW pg \in Pages, Touch(p, pg),
           NEW u \in Procs, u # ctx[p].pgd
    PROVE  Space(u)' = Space(u)
  <1> DEFINE t == ctx[p].pgd
             n == NewFrame(pg)
             e == [frame |-> n, w |-> Writable(pg)]
  <1>1. /\ Ready(p) /\ tables[t][pg] = Null
        /\ frames' = [frames EXCEPT ![n] = New(Blank)]
        /\ tables' = [tables EXCEPT ![t][pg] = e]
    BY DEF Touch, Pte
  <1>2. t \in Procs  BY <1>1 DEF FramesInv, PagesInv, IInv, TablesUsed, Ready
  <1>3. frames[n].refcount = 0
    BY <1>1, <1>2, FreeForAbsent DEF FramesInv, FramesOK
  <1> HIDE DEF e, n
  <1>4. \A x \in Pages : tables'[u][x] = tables[u][x]
    BY <1>1, <1>2 DEF FramesInv, PagesInv, TablesShape
  <1>5. \A f \in FrameIds : f # n => frames'[f] = frames[f]
    BY <1>1 DEF FramesInv, FramesOK, FramesTyped
  <1>6. \A x \in Pages : Sees(u, x)  BY <1>3, <1>4, <1>5, InUse DEF Sees
  <1> QED  BY <1>6, SameSpace

LEMMA StoreSeparate ==
    ASSUME FramesInv, NEW p \in Procs, NEW pg \in Pages, NEW value \in Values, Store(p, pg, value),
           NEW u \in Procs, u # ctx[p].pgd
    PROVE  Space(u)' = Space(u)
  <1> DEFINE t == ctx[p].pgd
             n == tables[t][pg].frame
  <1>1. /\ Ready(p) /\ tables[t][pg] # Null /\ tables[t][pg].w /\ UNCHANGED tables
        /\ frames' = [frames EXCEPT ![n].value = value]
    BY DEF Store, Pte
  <1>2. t \in Procs  BY <1>1 DEF FramesInv, PagesInv, IInv, TablesUsed, Ready
  <1>3. n[1] = pg  BY <1>1, <1>2, InUse
  <1>4. \A x \in Pages : tables[u][x] # Null => tables[u][x].frame # n
    <2> SUFFICES ASSUME NEW x \in Pages, tables[u][x] # Null, tables[u][x].frame = n PROVE FALSE
      OBVIOUS
    <2>1. x = pg  BY <1>3, InUse
    <2>2. WritableAlone(tables, pg)  BY DEF FramesInv, FramesOK, PagesOK, PageOK
    <2> QED  BY <1>1, <1>2, <2>1, <2>2 DEF WritableAlone
  <1> HIDE DEF n
  <1>5. \A f \in FrameIds : f # n => frames'[f] = frames[f]
    BY <1>1 DEF FramesInv, FramesOK, FramesTyped
  <1>6. \A x \in Pages : Sees(u, x)  BY <1>1, <1>4, <1>5, InUse DEF Sees
  <1> QED  BY <1>6, SameSpace

LEMMA FaultSeparate ==
    ASSUME FramesInv, NEW p \in Procs, NEW pg \in Pages, handle_cow_fault(p, pg),
           NEW u \in Procs, u # ctx[p].pgd
    PROVE  Space(u)' = Space(u)
  <1> DEFINE t == ctx[p].pgd
             n == NewFrame(pg)
             o == tables[t][pg].frame
  <1>1. Ready(p) /\ tables[t][pg] # Null  BY DEF handle_cow_fault, Pte
  <1>2. t \in Procs  BY <1>1 DEF FramesInv, PagesInv, IInv, TablesUsed, Ready
  <1>3. \E e : tables' = [tables EXCEPT ![t][pg] = e]
    BY DEF handle_cow_fault, Pte, FrameOf
  <1>4. \A x \in Pages : tables'[u][x] = tables[u][x]
    BY <1>2, <1>3 DEF FramesInv, PagesInv, TablesShape
  <1>5. frames \in [FrameIds -> [refcount : Nat, value : Values]]
    BY DEF FramesInv, FramesOK, FramesTyped
  <1>6. CASE frames[o].refcount > 1
    <2> DEFINE less == [frames[o] EXCEPT !.refcount = frames[o].refcount - 1]
    <2>1. frames' = [frames EXCEPT ![o] = less, ![n] = New(Blank)]
      BY <1>6 DEF handle_cow_fault, Pte, FrameOf
    <2>2. frames[n].refcount = 0
      BY <1>1, <1>2, <1>6, FreeForShared DEF FramesInv, FramesOK
    <2>3. o \in FrameIds  BY <1>1, <1>2, InUse
    <2>4. less.value = frames[o].value  BY <1>5, <2>3
    <2> HIDE DEF n, o, less
    <2>5. \A f \in FrameIds : f # n => frames'[f].value = frames[f].value
      BY <1>5, <2>1, <2>3, <2>4
    <2>6. \A x \in Pages : Sees(u, x)  BY <1>4, <2>2, <2>5, InUse DEF Sees
    <2> QED  BY <2>6, SameSpace
  <1>7. CASE ~ (frames[o].refcount > 1)
    <2>1. UNCHANGED frames  BY <1>7 DEF handle_cow_fault, Pte, FrameOf
    <2>2. \A x \in Pages : Sees(u, x)  BY <1>4, <2>1 DEF Sees
    <2> QED  BY <2>2, SameSpace
  <1> QED  BY <1>6, <1>7

(***************************************************************************)
(* cfork: everybody sees what they saw, and the child what its parent sees  *)
(* of the pages the parent knows.                                           *)
(***************************************************************************)
LEMMA CforkShows ==
    ASSUME FramesInv, NEW p \in Procs, NEW c \in Procs, cfork_copy_mm(p, c)
    PROVE  /\ ctx[p].pgd \in Procs \ {c} /\ ctx'[c].ppid = p
           /\ \A q \in Procs \ {c} : ctx'[q] = ctx[q]
           /\ \A u \in Procs \ {c}, x \in Pages : Sees(u, x)
           /\ Present(c, Pages)' = Present(ctx[p].pgd, Known(p))
           /\ \A x \in Present(ctx[p].pgd, Known(p)) :
                 FrameOf(Pte(c, x))'.value = FrameOf(Pte(ctx[p].pgd, x)).value
  <1> DEFINE t == ctx[p].pgd
             stack == Present(t, Known(p) \cap StackPages)
             o(x) == tables[t][x].frame
             locked(x) == [tables[t][x] EXCEPT !.w = FALSE]
             fresh(x) == [frame |-> NewFrame(x), w |-> TRUE]
             child == [ctx[p] EXCEPT !.ppid = p, !.pgd = c]
             copy == [x \in Pages |-> IF x \in Shared(p) THEN locked(x)
                                     ELSE IF x \in stack THEN fresh(x) ELSE Null]
             own == [x \in Pages |-> IF x \in Shared(p) THEN locked(x) ELSE tables[t][x]]
  <1>1. /\ Ready(p) /\ ctx[c].state = "UNUSED" /\ ctx' = [ctx EXCEPT ![c] = child]
        /\ tables' = [tables EXCEPT ![t] = own, ![c] = copy]
        /\ frames' = [f \in FrameIds |->
              IF f[1] \in Shared(p) /\ f = o(f[1]) THEN [frames[f] EXCEPT !.refcount = @ + 1]
              ELSE IF f[1] \in stack /\ f = NewFrame(f[1]) THEN New(frames[o(f[1])].value)
              ELSE frames[f]]
    BY DEF cfork_copy_mm, NextSlot, ReadOnlyIn, Pte, FrameOf
  <1>2. t \in Procs /\ t # c
    BY <1>1 DEF FramesInv, PagesInv, IInv, TablesUsed, Ready
  <1>3. /\ Shared(p) \subseteq Pages /\ stack \subseteq Pages /\ Shared(p) \cap stack = {}
        /\ \A x \in Shared(p) \cup stack : tables[t][x] # Null
        /\ Present(t, Known(p)) = Shared(p) \cup stack
    BY DEF Shared, Present, Pte, Known
  <1>4. \A x \in Pages : tables[c][x] = Null
    BY <1>1 DEF FramesInv, FramesOK, FreshTables
  <1>5. \A x \in Shared(p) \cup stack : tables[t][x] \in PageEntries(x)
    BY <1>2, <1>3 DEF FramesInv, FramesOK, PagesOK, PageOK, PageTyped
  <1>6. \A x \in Shared(p) : locked(x) # Null /\ locked(x).frame = o(x)
    <2> SUFFICES ASSUME NEW x \in Shared(p) PROVE locked(x) # Null /\ locked(x).frame = o(x)
      OBVIOUS
    <2>1. locked(x) \in PageEntries(x) /\ locked(x).frame = o(x)  BY <1>5 DEF PageEntries
    <2> QED  BY <1>3, <2>1, EntryThere
  <1>7. \A x \in stack : NewFrame(x) \in {x} \X Procs /\ frames[NewFrame(x)].refcount = 0
    BY <1>3, <1>4, FreeForAbsent DEF FramesInv, FramesOK
  <1>8. \A x \in stack : fresh(x) # Null /\ fresh(x).frame = NewFrame(x)
    <2> SUFFICES ASSUME NEW x \in stack PROVE fresh(x) # Null /\ fresh(x).frame = NewFrame(x)
      OBVIOUS
    <2>1. fresh(x) \in PageEntries(x)  BY <1>7 DEF PageEntries
    <2> QED  BY <1>3, <2>1, EntryThere
  <1>9. ctx \in [Procs -> Context]  BY DEF FramesInv, PagesInv, IInv, ContextsOK
  <1>10. child.ppid = p  BY <1>9 DEF Context
  <1>11. frames \in [FrameIds -> [refcount : Nat, value : Values]]
    BY DEF FramesInv, FramesOK, FramesTyped
  <1> HIDE DEF child, locked, fresh, stack
  <1>12. \A u \in Procs, x \in Pages : tables'[u][x] =
            IF u = t THEN IF x \in Shared(p) THEN locked(x) ELSE tables[t][x]
            ELSE IF u = c THEN IF x \in Shared(p) THEN locked(x) ELSE IF x \in stack THEN fresh(x) ELSE Null
            ELSE tables[u][x]
    BY <1>1, <1>2 DEF FramesInv, PagesInv, TablesShape
  <1>13. \A f \in FrameIds : frames[f].refcount # 0 => frames'[f].value = frames[f].value
    <2> SUFFICES ASSUME NEW f \in FrameIds, frames[f].refcount # 0
                 PROVE  frames'[f].value = frames[f].value
      OBVIOUS
    <2>1. ~ (f[1] \in stack /\ f = NewFrame(f[1]))  BY <1>7
    <2>2. CASE f[1] \in Shared(p) /\ f = o(f[1])
      <3>1. frames'[f] = [frames[f] EXCEPT !.refcount = frames[f].refcount + 1]  BY <1>1, <2>2
      <3> QED  BY <1>11, <3>1
    <2>3. CASE ~ (f[1] \in Shared(p) /\ f = o(f[1]))  BY <1>1, <2>1, <2>3
    <2> QED  BY <2>2, <2>3
  <1>14. ASSUME NEW u \in Procs \ {c}, NEW x \in Pages PROVE Sees(u, x)
    <2>1. (tables'[u][x] # Null <=> tables[u][x] # Null)
          /\ (tables[u][x] # Null => tables'[u][x].frame = tables[u][x].frame)
      BY <1>3, <1>6, <1>12
    <2> QED  BY <1>13, <2>1, InUse DEF Sees
  <1>15. \A x \in Pages : tables'[c][x] # Null <=> x \in Shared(p) \cup stack
    BY <1>2, <1>3, <1>6, <1>8, <1>12
  <1>16. Present(c, Pages)' = Present(t, Known(p))  BY <1>3, <1>15 DEF Present, Pte
  <1>17. ASSUME NEW x \in Present(t, Known(p))
         PROVE  FrameOf(Pte(c, x))'.value = FrameOf(Pte(t, x)).value
    <2>1. CASE x \in Shared(p)
      <3>1. tables'[c][x].frame = o(x)  BY <1>2, <1>3, <1>6, <1>12, <2>1
      <3>2. o(x) \in FrameIds /\ frames[o(x)].refcount # 0  BY <1>2, <1>3, <2>1, InUse
      <3>3. frames'[o(x)].value = frames[o(x)].value  BY <1>13, <3>2
      <3> QED  BY <3>1, <3>3 DEF FrameOf, Pte
    <2>2. CASE x \in stack
      <3>1. tables'[c][x].frame = NewFrame(x)  BY <1>2, <1>3, <1>8, <1>12, <2>2
      <3>2. NewFrame(x) \in FrameIds /\ NewFrame(x)[1] = x  BY <1>3, <1>7, <2>2, FramesOfPages
      <3>3. frames'[NewFrame(x)] = New(frames[o(x)].value)  BY <1>1, <1>3, <2>2, <3>2
      <3>4. frames'[NewFrame(x)].value = frames[o(x)].value  BY <3>3 DEF New
      <3> QED  BY <3>1, <3>4 DEF FrameOf, Pte
    <2> QED  BY <1>3, <2>1, <2>2
  <1>18. ctx'[c].ppid = p /\ \A q \in Procs \ {c} : ctx'[q] = ctx[q]
    BY <1>1, <1>9, <1>10
  <1> QED  BY <1>2, <1>14, <1>16, <1>17, <1>18

(***************************************************************************)
(* vfork changes what the common page table of parent and child shows: the  *)
(* stack pages it writes are pages nobody else has.                         *)
(***************************************************************************)
LEMMA VforkSeparate ==
    ASSUME FramesInv, NEW p \in Procs, NEW c \in Procs, vfork_copy_mm(p, c),
           NEW u \in Procs, u # ctx[p].pgd
    PROVE  Space(u)' = Space(u)
  <1> DEFINE t == ctx[p].pgd
             Above(x) == <<"stack", x[2] - ctx[p].stack>>
             below == {x \in StackPages : Above(x) \in Present(t, Known(p))}
             target(x) == IF tables[t][x] = Null THEN NewFrame(x) ELSE tables[t][x].frame
             above(x) == frames[tables[t][Above(x)].frame].value
             own == [x \in Pages |-> IF x \in below /\ tables[t][x] = Null
                                    THEN [frame |-> NewFrame(x), w |-> TRUE] ELSE tables[t][x]]
  <1>1. /\ Ready(p) /\ tables' = [tables EXCEPT ![t] = own]
        /\ frames' = [f \in FrameIds |->
              IF f[1] \in below /\ f = target(f[1])
              THEN [refcount |-> IF tables[t][f[1]] = Null THEN 1 ELSE frames[f].refcount,
                    value |-> above(f[1])]
              ELSE frames[f]]
    BY DEF vfork_copy_mm, Below, NextSlot, Pte, FrameOf
  <1>2. t \in Procs  BY <1>1 DEF FramesInv, PagesInv, IInv, TablesUsed, Ready
  <1>3. below \subseteq StackPages /\ StackPages \subseteq Pages  BY DEF Pages
  <1> HIDE DEF below, above, own
  <1>4. \A x \in Pages : tables'[u][x] = tables[u][x]
    BY <1>1, <1>2 DEF FramesInv, PagesInv, TablesShape
  <1>5. ASSUME NEW x \in Pages PROVE Sees(u, x)
    <2>1. CASE tables[u][x] = Null  BY <1>4, <2>1 DEF Sees
    <2>2. CASE tables[u][x] # Null
      <3> DEFINE f == tables[u][x].frame
      <3>1. f \in FrameIds /\ f[1] = x /\ frames[f].refcount # 0  BY <2>2, InUse
      <3>2. ~ (x \in below /\ f = target(x))
        <4> SUFFICES ASSUME x \in below, f = target(x) PROVE FALSE  OBVIOUS
        <4>1. CASE tables[t][x] = Null
          <5>1. frames[NewFrame(x)].refcount = 0
            BY <1>2, <4>1, FreeForAbsent DEF FramesInv, FramesOK
          <5> QED  BY <3>1, <4>1, <5>1
        <4>2. CASE tables[t][x] # Null
          <5>1. tables[t][x].w
            BY <1>2, <1>3, <4>2 DEF FramesInv, FramesOK, PagesOK, PageOK, PageTyped
          <5>2. WritableAlone(tables, x)  BY DEF FramesInv, FramesOK, PagesOK, PageOK
          <5> QED  BY <1>2, <2>2, <4>2, <5>1, <5>2 DEF WritableAlone
        <4> QED  BY <4>1, <4>2
      <3> HIDE DEF f
      <3>3. frames'[f] = frames[f]  BY <1>1, <3>1, <3>2
      <3> QED  BY <1>4, <3>3 DEF Sees, f
    <2> QED  BY <2>1, <2>2
  <1> QED  BY <1>5, SameSpace

LEMMA StepSeparate ==
    ASSUME FramesInv, [Next]_vars, NEW t \in Procs, NEW u \in Procs, t # u, Space(t)' # Space(t)
    PROVE  Space(u)' = Space(u)
  <1>1. \A q \in Procs : UNCHANGED <<tables, frames>> => Space(q)' = Space(q)
    <2> SUFFICES ASSUME NEW q \in Procs, UNCHANGED <<tables, frames>> PROVE Space(q)' = Space(q)
      OBVIOUS
    <2>1. \A x \in Pages : Sees(q, x)  BY DEF Sees
    <2> QED  BY <2>1, SameSpace
  <1>2. UNCHANGED <<tables, frames>> => Space(u)' = Space(u)  BY <1>1
  <1>3. ASSUME NEW p \in Procs, NEW pg \in Pages, Touch(p, pg) PROVE Space(u)' = Space(u)
    BY <1>3, TouchSeparate
  <1>4. ASSUME NEW p \in Procs, NEW pg \in Pages, handle_cow_fault(p, pg) PROVE Space(u)' = Space(u)
    BY <1>4, FaultSeparate
  <1>5. ASSUME NEW p \in Procs, NEW pg \in Pages, NEW value \in Values, Store(p, pg, value)
        PROVE  Space(u)' = Space(u)
    BY <1>5, StoreSeparate
  <1>6. ASSUME NEW p \in Procs, NEW c \in Procs, cfork_copy_mm(p, c) PROVE Space(u)' = Space(u)
    <2>1. \A q \in Procs \ {c} : Space(q)' = Space(q)  BY <1>6, CforkShows, SameSpace
    <2> QED  BY <2>1
  <1>7. ASSUME NEW p \in Procs, NEW c \in Procs, vfork_copy_mm(p, c) PROVE Space(u)' = Space(u)
    BY <1>7, VforkSeparate
  <1>8. ASSUME NEW p \in Procs, Expand(p) \/ Exit(p) PROVE Space(u)' = Space(u)
    BY <1>2, <1>8 DEF Expand, Exit
  <1>9. ASSUME NEW p \in Procs, NEW i \in DOMAIN MmapRights, MapArea(p, i) PROVE Space(u)' = Space(u)
    BY <1>2, <1>9 DEF MapArea
  <1>10. CASE Halted \/ UNCHANGED vars  BY <1>2, <1>10 DEF Halted, vars
  <1> QED  BY <1>3, <1>4, <1>5, <1>6, <1>7, <1>8, <1>9, <1>10 DEF Next

(***************************************************************************)
(* vfork leaves the pages the parent has and copies its stack below them,   *)
(* also into pages that are there already.                                  *)
(***************************************************************************)
LEMMA VforkShows ==
    ASSUME FramesInv, NEW p \in Procs, NEW c \in Procs, vfork_copy_mm(p, c),
           NEW t \in Procs, ctx[p].pgd = t
    PROVE  VforkChildSees(p, c, t)
  <1> DEFINE depth == ctx[p].stack
             Above(x) == <<"stack", x[2] - depth>>
             Copy(x) == <<"stack", x[2] + depth>>
             below == Below(p)
             target(x) == IF tables[t][x] = Null THEN NewFrame(x) ELSE tables[t][x].frame
             above(x) == frames[tables[t][Above(x)].frame].value
             own == [x \in Pages |-> IF x \in below /\ tables[t][x] = Null
                                    THEN [frame |-> NewFrame(x), w |-> TRUE] ELSE tables[t][x]]
             child == [ctx[p] EXCEPT !.ppid = p, !.stack = 2 * depth]
  <1>1. /\ Ready(p) /\ ctx[c].state = "UNUSED" /\ 2 * depth <= MaxStack
        /\ ctx' = [ctx EXCEPT ![p].state = "WAITING", ![c] = child]
        /\ tables' = [tables EXCEPT ![t] = own]
        /\ frames' = [f \in FrameIds |->
              IF f[1] \in below /\ f = target(f[1])
              THEN [refcount |-> IF tables[t][f[1]] = Null THEN 1 ELSE frames[f].refcount,
                    value |-> above(f[1])]
              ELSE frames[f]]
    BY DEF vfork_copy_mm, NextSlot, Pte, FrameOf
  <1>2. t \in Procs /\ depth \in 0 .. MaxStack /\ MaxStack \in Nat
    <2>1. ctx[p] \in Context  BY DEF FramesInv, PagesInv, IInv, ContextsOK
    <2> QED  BY <1>1, <2>1, CowAssumption DEF FramesInv, PagesInv, IInv, TablesUsed, Ready, Context
  <1>3. below \subseteq StackPages /\ StackPages \subseteq Pages  BY DEF Pages, Below
  <1>4. p # c /\ ctx'[c].stack = 2 * depth
    <2>1. ctx \in [Procs -> Context]  BY DEF FramesInv, PagesInv, IInv, ContextsOK
    <2>2. p # c  BY <1>1 DEF Ready
    <2>3. child.stack = 2 * depth  BY <2>1 DEF Context
    <2> HIDE DEF child
    <2>4. ctx'[c] = child  BY <1>1, <2>1, <2>2
    <2> QED  BY <2>2, <2>3, <2>4
  <1>5. ASSUME NEW x \in Present(t, Known(p))
        PROVE  x \in Pages /\ tables[t][x] # Null /\ x \notin below
               /\ (x \in StackPages => x[2] \in 1 .. depth /\ x = <<"stack", x[2]>>)
    <2>1. x \in Pages /\ tables[t][x] # Null  BY DEF Present, Known, Pte
    <2>2. ASSUME x \in StackPages PROVE x[2] \in 1 .. depth /\ x = <<"stack", x[2]>>
      BY <1>2, <2>2 DEF Present, Known, StackPages, DataPages, MmapPages
    <2>3. ASSUME x \in below PROVE FALSE
      <3>1. x \in StackPages /\ x[2] \in 1 .. depth  BY <1>3, <2>2, <2>3
      <3>2. Above(x) \in Known(p)  BY <2>3 DEF Below, Present
      <3>3. x[2] - depth >= 1
        BY <1>2, <3>1, <3>2 DEF Known, StackPages, DataPages, MmapPages
      <3> QED  BY <1>2, <3>1, <3>3
    <2> QED  BY <2>1, <2>2, <2>3
  <1>6. ASSUME NEW x \in below
        PROVE  /\ x \in Pages /\ target(x) \in FrameIds /\ target(x)[1] = x
               /\ tables'[t][x] # Null /\ tables'[t][x].frame = target(x)
    <2>1. x \in Pages  BY <1>3
    <2>2. tables'[t][x] = own[x]  BY <1>1, <1>2 DEF FramesInv, PagesInv, TablesShape
    <2>3. CASE tables[t][x] = Null
      <3>1. NewFrame(x) \in {x} \X Procs
        BY <1>2, <2>1, <2>3, FreeForAbsent DEF FramesInv, FramesOK
      <3>2. NewFrame(x) \in FrameIds /\ NewFrame(x)[1] = x  BY <2>1, <3>1, FramesOfPages
      <3>3. [frame |-> NewFrame(x), w |-> TRUE] # Null
        <4>1. [frame |-> NewFrame(x), w |-> TRUE] \in PageEntries(x)  BY <3>1 DEF PageEntries
        <4> QED  BY <2>1, <4>1, EntryThere
      <3> QED  BY <2>1, <2>2, <2>3, <3>2, <3>3
    <2>4. CASE tables[t][x] # Null
      <3>1. tables[t][x].frame \in FrameIds /\ tables[t][x].frame[1] = x
        BY <1>2, <2>1, <2>4, InUse
      <3> QED  BY <2>1, <2>2, <2>4, <3>1
    <2> QED  BY <2>3, <2>4
  <1> HIDE DEF target, above, own, below
  <1>7. ASSUME NEW x \in Present(t, Known(p))
        PROVE  /\ x \in Pages /\ tables'[t][x] = tables[t][x] /\ tables[t][x] # Null
               /\ frames'[tables[t][x].frame] = frames[tables[t][x].frame]
    <2>1. x \in Pages /\ tables[t][x] # Null /\ x \notin below  BY <1>5
    <2>2. own[x] = tables[t][x]  BY <2>1 DEF own
    <2>3. tables'[t][x] = own[x]  BY <1>1, <1>2 DEF FramesInv, PagesInv, TablesShape
    <2>4. tables[t][x].frame \in FrameIds /\ tables[t][x].frame[1] = x  BY <1>2, <2>1, InUse
    <2> QED  BY <1>1, <2>1, <2>2, <2>3, <2>4
  <1>8. ASSUME NEW x \in Present(t, Known(p))
        PROVE  /\ x \in Present(t, Pages)' /\ Space(t)'[x] = Space(t)[x]
               /\ Space(t)[x] = frames[tables[t][x].frame].value
    <2>1. x \in Present(t, Pages)' /\ x \in Present(t, Pages)  BY <1>7 DEF Present, Pte
    <2>2. Space(t)[x] = frames[tables[t][x].frame].value  BY <2>1 DEF Space, FrameOf, Pte
    <2>3. Space(t)'[x] = frames'[tables'[t][x].frame].value  BY <2>1 DEF Space, FrameOf, Pte
    <2> QED  BY <1>7, <2>1, <2>2, <2>3
  <1>9. ASSUME NEW x \in Present(t, Known(p)), x \in StackPages
        PROVE  /\ Copy(x) \in Present(t, Known(c))'
               /\ Space(t)'[Copy(x)] = Space(t)[x]
    <2> DEFINE y == Copy(x)
    <2>1. x[2] \in 1 .. depth /\ x = <<"stack", x[2]>>  BY <1>5, <1>9
    <2>2. y[2] = x[2] + depth /\ y[2] \in 1 .. 2 * depth /\ y[2] \in 1 .. MaxStack
      BY <1>1, <1>2, <2>1
    <2>3. y \in StackPages /\ y \in Pages  BY <2>2 DEF StackPages, Pages
    <2>4. Above(y) = x
      <3>1. y[2] - depth = x[2]  BY <1>2, <2>1, <2>2
      <3> QED  BY <2>1, <3>1
    <2> HIDE DEF y
    <2>5. y \in below  BY <2>3, <2>4 DEF below, Below
    <2>6. /\ target(y) \in FrameIds /\ target(y)[1] = y
          /\ tables'[t][y] # Null /\ tables'[t][y].frame = target(y)
      BY <1>6, <2>5
    <2>7. frames'[target(y)].value = above(y)  BY <1>1, <2>5, <2>6
    <2>8. above(y) = frames[tables[t][x].frame].value  BY <2>4 DEF above
    <2>9. y \in Known(c)'  BY <1>4, <2>2, <2>3 DEF Known
    <2>10. y \in Present(t, Known(c))' /\ y \in Present(t, Pages)'
      BY <2>3, <2>6, <2>9 DEF Present, Pte
    <2>11. Space(t)'[y] = frames'[tables'[t][y].frame].value  BY <2>10 DEF Space, FrameOf, Pte
    <2>12. Space(t)[x] = frames[tables[t][x].frame].value  BY <1>8
    <2>13. Space(t)'[y] = Space(t)[x]  BY <2>6, <2>7, <2>8, <2>11, <2>12
    <2> QED  BY <2>10, <2>13 DEF y
  <1> QED  BY <1>8, <1>9 DEF VforkChildSees

(***************************************************************************)
(* A process that appears is the child of the fork that made it.            *)
(***************************************************************************)
LEMMA StepChild ==
    ASSUME FramesInv, Next, NEW p \in Procs, NEW c \in Procs,
           ctx[c].state = "UNUSED", ctx'[c].state # "UNUSED", ctx'[c].ppid = p,
           NEW t \in Procs, ctx[p].pgd = t
    PROVE  IF ctx'[c].pgd = c THEN CforkChildSees(p, c, t) ELSE VforkChildSees(p, c, t)
  <1>1. ctx \in [Procs -> Context]  BY DEF FramesInv, PagesInv, IInv, ContextsOK
  <1>2. ~ UNCHANGED ctx  OBVIOUS
  <1>3. ASSUME NEW q \in Procs, Expand(q) \/ Exit(q) \/ \E i \in DOMAIN MmapRights : MapArea(q, i)
        PROVE  FALSE
    <2>1. Ready(q) /\ q # c  BY <1>3 DEF Expand, Exit, MapArea, Ready
    <2>2. CASE Expand(q) \/ \E i \in DOMAIN MmapRights : MapArea(q, i)
      BY <1>1, <2>1, <2>2 DEF Expand, MapArea
    <2>3. CASE Exit(q)
      <3>1. ctx'[c] = IF c \in VforkParents(q) THEN Resumed(q, c) ELSE ctx[c]
        BY <2>1, <2>3 DEF Exit
      <3>2. c \in VforkParents(q)  BY <3>1
      <3>3. ctx[q].pgd = ctx[c].pgd /\ ctx[c].pgd = Null /\ ctx[q].pgd # Null
        BY <1>1, <2>1, <3>2, CowAssumption
           DEF VforkParents, FramesInv, PagesInv, IInv, TablesUsed, Ready, Procs
      <3> QED  BY <3>3
    <2> QED  BY <1>3, <2>2, <2>3
  <1>4. PICK q \in Procs, d \in Procs : cfork_copy_mm(q, d) \/ vfork_copy_mm(q, d)
    BY <1>2, <1>3 DEF Next, Touch, handle_cow_fault, Store, Halted, vars
  <1>5. CASE cfork_copy_mm(q, d)
    <2> DEFINE child == [ctx[q] EXCEPT !.ppid = q, !.pgd = d]
    <2>1. ctx' = [ctx EXCEPT ![d] = child]  BY <1>5 DEF cfork_copy_mm
    <2>2. child.ppid = q /\ child.pgd = d  BY <1>1 DEF Context
    <2> HIDE DEF child
    <2>3. d = c /\ q = p /\ ctx'[c].pgd = c  BY <1>1, <2>1, <2>2
    <2>4. /\ Present(c, Pages)' = Present(t, Known(p))
          /\ \A x \in Present(t, Known(p)) : FrameOf(Pte(c, x))'.value = FrameOf(Pte(t, x)).value
      BY <1>5, <2>3, CforkShows
    <2>5. Present(t, Known(p)) \subseteq Present(t, Pages)  BY DEF Present, Known
    <2>6. \A x \in Present(t, Known(p)) : Space(t)[x] = FrameOf(Pte(t, x)).value
      BY <2>5 DEF Space
    <2>7. Space(c)' = [x \in Present(t, Known(p)) |-> Space(t)[x]]  BY <2>4, <2>6 DEF Space
    <2> QED  BY <2>3, <2>7 DEF CforkChildSees
  <1>6. CASE vfork_copy_mm(q, d)
    <2> DEFINE child == [ctx[q] EXCEPT !.ppid = q, !.stack = 2 * ctx[q].stack]
               waiting == [ctx[q] EXCEPT !.state = "WAITING"]
    <2>1. Ready(q) /\ ctx' = [ctx EXCEPT ![q] = waiting, ![d] = child]
      BY <1>6 DEF vfork_copy_mm
    <2>2. child.ppid = q /\ child.pgd = ctx[q].pgd /\ q # c  BY <1>1, <2>1 DEF Context, Ready
    <2> HIDE DEF child, waiting
    <2>3. d = c /\ q = p /\ ctx'[c].pgd = ctx[p].pgd  BY <1>1, <2>1, <2>2
    <2>4. ctx[p].pgd # c  BY <2>1, <2>3 DEF FramesInv, PagesInv, IInv, TablesUsed, Ready
    <2> QED  BY <1>6, <2>3, <2>4, VforkShows
  <1> QED  BY <1>4, <1>5, <1>6

(***************************************************************************)
(* "The child and the parent process run in separate memory spaces": no     *)
(* step of any process, for any number of processes and any tree of cforks  *)
(* and vforks, changes what two page tables show.                           *)
(***************************************************************************)
THEOREM Separate == Spec => SpacesSeparate
  <1>1. FramesInv /\ [Next]_vars =>
           [\A t, u \in Procs : t # u /\ Space(t)' # Space(t) => Space(u)' = Space(u)]_vars
    BY StepSeparate
  <1> QED  BY FramesAlways, <1>1, PTL DEF Spec, SpacesSeparate

(***************************************************************************)
(* The child of a cfork has every page its parent knows as the parent reads *)
(* it (cfork.c:35-90); the child of a vfork, on its parent's page table,    *)
(* has a copy of the parent's stack below it, and nothing of the parent's   *)
(* pages has changed (cfork.c:118-136).                                     *)
(***************************************************************************)
THEOREM ChildSees == Spec => ChildSeesParent
  <1>1. FramesInv /\ [Next]_vars =>
          [\A p, c, t \in Procs :
             ctx[c].state = "UNUSED" /\ ctx'[c].state # "UNUSED"
             /\ ctx'[c].ppid = p /\ ctx[p].pgd = t
               => IF ctx'[c].pgd = c THEN CforkChildSees(p, c, t) ELSE VforkChildSees(p, c, t)]_vars
    BY StepChild
  <1> QED  BY FramesAlways, <1>1, PTL DEF Spec, ChildSeesParent
===============================================================================
