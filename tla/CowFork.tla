------------------------------- MODULE CowFork -------------------------------
(***************************************************************************)
(* Assignment 3, cfork.c: cfork with copy-on-write, vfork, and the frames   *)
(* behind the page tables with their reference counts.                      *)
(*                                                                         *)
(* A system call or fault runs to completion and is an action; processes    *)
(* run in any order.  The parts of fork, exit and the page fault handler    *)
(* that are not in the repository are modelled from what these functions    *)
(* expect: the child's context starts as a copy of the parent's, and        *)
(* map_physical_page and install_ptable called with pfn 0 install a blank   *)
(* frame with reference count 1.  The page tables of processes that have    *)
(* exited are kept.  The pages of CODE and RODATA, which nobody writes, and *)
(* the entries copy_os_pts copies are left out.  Two accesses of the code   *)
(* to memory that is not a page of a process are left out as well: line 125 *)
(* reads through the null pointer get_user_pte returns for an absent page   *)
(* (taken to read 0), and lines 185, 189, 210 and 214 copy the page to the  *)
(* address pfn.                                                             *)
(***************************************************************************)
EXTENDS Integers, FiniteSets

CONSTANTS MaxProcs,         \* process slots
          MaxData,          \* pages of the DATA segment
          MmapRights,       \* page of the mmap area -> rights of the area it may get
          MaxStack,         \* pages of the STACK segment, counted from the top
          Values,           \* what a page can hold; a blank page holds Blank
          Stores,           \* the stores processes make, <<page, value>>: a bound
          Blank, Null

ASSUME CowAssumption ==
    /\ {MaxProcs, MaxData, MaxStack} \subseteq Nat \ {0}
    /\ \A i \in DOMAIN MmapRights : MmapRights[i] \subseteq {"R", "W"} /\ MmapRights[i] # {}
    /\ Blank \in Values
    /\ Null \notin 1 .. MaxProcs

VARIABLES ctx,      \* the contexts: state, ppid, pgd, vm_area and the segments' next_free
          tables,   \* the page tables: page -> frame and write bit, or Null
          frames    \* the frames: reference count, 0 for a free one, and contents

vars == <<ctx, tables, frames>>

Procs == 1 .. MaxProcs       \* a page table has the number of its first user

DataPages  == {"data"} \X (1 .. MaxData)
MmapPages  == {"mmap"} \X DOMAIN MmapRights
StackPages == {"stack"} \X (1 .. MaxStack)
Pages == DataPages \cup MmapPages \cup StackPages

(* Only entries for one page share a frame, so a page has frames of its own,
   one for each page table, and a new one is the first that is free. *)
FrameIds == Pages \X Procs

(* An entry that is there can be told from one that is not. *)
ASSUME EntryAssumption == Null \notin [frame : FrameIds, w : BOOLEAN]

Free == [refcount |-> 0, value |-> Blank]
New(value) == [refcount |-> 1, value |-> value]

NewFrame(pg) ==
    LET I == {i \in Procs : frames[<<pg, i>>].refcount = 0}
    IN  <<pg, CHOOSE i \in I : \A j \in I : i <= j>>

NoTable == [pg \in Pages |-> Null]
Unused  == [state |-> "UNUSED", ppid |-> Null, pgd |-> Null, vm_area |-> {}, data |-> 0, stack |-> 0]

(* One process, with something in the first page of its stack. *)
Init ==
    LET stack == <<"stack", 1>>
    IN  /\ ctx = [q \in Procs |-> IF q = 1
                    THEN [Unused EXCEPT !.state = "READY", !.pgd = 1, !.stack = 1]
                    ELSE Unused]
        /\ tables = [q \in Procs |-> [pg \in Pages |->
                        IF q = 1 /\ pg = stack THEN [frame |-> <<pg, 1>>, w |-> TRUE] ELSE Null]]
        /\ \E value \in Values \ {Blank} :
              frames = [f \in FrameIds |-> IF f = <<stack, 1>> THEN New(value) ELSE Free]

-------------------------------------------------------------------------------
Ready(p) == ctx[p].state = "READY"

(* The pages p has a segment or an area for. *)
Known(p) == {pg \in Pages :
    \/ pg \in DataPages /\ pg[2] <= ctx[p].data
    \/ pg \in MmapPages /\ pg[2] \in ctx[p].vm_area
    \/ pg \in StackPages /\ pg[2] <= ctx[p].stack}

Writable(pg) == pg \in MmapPages => "W" \in MmapRights[pg[2]]

Pte(t, pg) == tables[t][pg]
Present(t, S) == {pg \in S : Pte(t, pg) # Null}

FrameOf(pte) == frames[pte.frame]

(* The slot of a new process. *)
NextSlot(c) == c \in {q \in Procs : ctx[q].state = "UNUSED" /\ \A r \in 1 .. q - 1 : ctx[r].state # "UNUSED"}

(* expand and mmap: the process gets more pages, none of them there yet. *)
Expand(p) ==
    /\ Ready(p) /\ ctx[p].data < MaxData
    /\ ctx' = [ctx EXCEPT ![p].data = @ + 1]
    /\ UNCHANGED <<tables, frames>>

MapArea(p, i) ==
    /\ Ready(p) /\ i \notin ctx[p].vm_area
    /\ ctx' = [ctx EXCEPT ![p].vm_area = @ \cup {i}]
    /\ UNCHANGED <<tables, frames>>

(* The first access to a page installs a blank one. *)
Touch(p, pg) ==
    LET t == ctx[p].pgd
    IN  /\ Ready(p) /\ pg \in Known(p) /\ Pte(t, pg) = Null
        /\ frames' = [frames EXCEPT ![NewFrame(pg)] = New(Blank)]
        /\ tables' = [tables EXCEPT ![t][pg] = [frame |-> NewFrame(pg), w |-> Writable(pg)]]
        /\ UNCHANGED ctx

(* A store the hardware lets through. *)
Store(p, pg, value) ==
    LET pte == Pte(ctx[p].pgd, pg)
    IN  /\ Ready(p) /\ pg \in Known(p) /\ <<pg, value>> \in Stores
        /\ pte # Null /\ pte.w
        /\ frames' = [frames EXCEPT ![pte.frame].value = value]
        /\ UNCHANGED <<ctx, tables>>

-------------------------------------------------------------------------------
\* Mutant: the reference count stays
Muthandle_cow_fault(p, pg) ==
    LET t == ctx[p].pgd
        pte == Pte(t, pg)
    IN  /\ Ready(p) /\ pg \in Known(p) \ StackPages
        /\ pte # Null /\ ~pte.w /\ Writable(pg)
        /\ IF FrameOf(pte).refcount > 1
           THEN /\ frames' = [frames EXCEPT ![NewFrame(pg)] = New(Blank)]
                /\ tables' = [tables EXCEPT ![t][pg] = [frame |-> NewFrame(pg), w |-> TRUE]]
           ELSE /\ tables' = [tables EXCEPT ![t][pg].w = TRUE]
                /\ UNCHANGED frames
        /\ UNCHANGED ctx

(***************************************************************************)
(* A store to a page that is there but read only, where the segment or the  *)
(* area allows it: with other sharers the process gets a blank frame        *)
(* instead (line 186), alone it gets the write bit.                         *)
(***************************************************************************)
handle_cow_fault(p, pg) ==
    LET t == ctx[p].pgd
        pte == Pte(t, pg)
    IN  /\ Ready(p) /\ pg \in Known(p) \ StackPages
        /\ pte # Null /\ ~pte.w /\ Writable(pg)
        /\ IF FrameOf(pte).refcount > 1
           THEN /\ frames' = [frames EXCEPT ![pte.frame].refcount = @ - 1,
                                             ![NewFrame(pg)] = New(Blank)]
                /\ tables' = [tables EXCEPT ![t][pg] = [frame |-> NewFrame(pg), w |-> TRUE]]
           ELSE /\ tables' = [tables EXCEPT ![t][pg].w = TRUE]
                /\ UNCHANGED frames
        /\ UNCHANGED ctx

-------------------------------------------------------------------------------
\* Mutant: the parent keeps its write access
MutReadOnlyIn(t, shared) == tables[t]

(* The parent's page table with the write bits of the shared pages cleared. *)
ReadOnlyIn(t, shared) ==
    [pg \in Pages |-> IF pg \in shared THEN [tables[t][pg] EXCEPT !.w = FALSE] ELSE tables[t][pg]]

(* The pages cfork lets parent and child share: those of the data segment and
   of the areas that are there. *)
Shared(p) == Present(ctx[p].pgd, Known(p) \ StackPages)

(* cfork: the child shares data and mmap pages read only, and gets a copy of
   every stack page. *)
cfork_copy_mm(p, c) ==
    LET t == ctx[p].pgd
        shared == Shared(p)
        stack == Present(t, Known(p) \cap StackPages)
    IN  /\ Ready(p) /\ NextSlot(c)
        /\ ctx' = [ctx EXCEPT ![c] = [ctx[p] EXCEPT !.ppid = p, !.pgd = c]]
        /\ tables' = [tables EXCEPT ![t] = ReadOnlyIn(t, shared),
              ![c] = [pg \in Pages |->
                        IF pg \in shared THEN [tables[t][pg] EXCEPT !.w = FALSE]
                        ELSE IF pg \in stack THEN [frame |-> NewFrame(pg), w |-> TRUE]
                        ELSE Null]]
        /\ frames' = [f \in FrameIds |->
              IF f[1] \in shared /\ f = Pte(t, f[1]).frame THEN [frames[f] EXCEPT !.refcount = @ + 1]
              ELSE IF f[1] \in stack /\ f = NewFrame(f[1]) THEN New(FrameOf(Pte(t, f[1])).value)
              ELSE frames[f]]

\* Mutant: pages an earlier child has left are not copied again
MutBelow(p) ==
    {pg \in StackPages : /\ <<"stack", pg[2] - ctx[p].stack>> \in Present(ctx[p].pgd, Known(p))
                         /\ Pte(ctx[p].pgd, pg) = Null}

(* The stack pages below the parent's that its child gets copies in. *)
Below(p) ==
    {pg \in StackPages : <<"stack", pg[2] - ctx[p].stack>> \in Present(ctx[p].pgd, Known(p))}

(* vfork: the child runs on the parent's page table, on copies of the stack
   pages below the parent's stack; the parent waits. *)
vfork_copy_mm(p, c) ==
    LET t == ctx[p].pgd
        depth == ctx[p].stack
        Above(pg) == <<"stack", pg[2] - depth>>
        below == Below(p)
        FrameBelow(pg) == IF Pte(t, pg) = Null THEN NewFrame(pg) ELSE Pte(t, pg).frame
    IN  /\ Ready(p) /\ NextSlot(c) /\ 2 * depth <= MaxStack
        /\ ctx' = [ctx EXCEPT ![p].state = "WAITING",
                              ![c] = [ctx[p] EXCEPT !.ppid = p, !.stack = 2 * depth]]
        /\ tables' = [tables EXCEPT ![t] = [pg \in Pages |->
              IF pg \in below /\ Pte(t, pg) = Null THEN [frame |-> NewFrame(pg), w |-> TRUE]
              ELSE tables[t][pg]]]
        /\ frames' = [f \in FrameIds |->
              IF f[1] \in below /\ f = FrameBelow(f[1])
              THEN [refcount |-> IF Pte(t, f[1]) = Null THEN 1 ELSE frames[f].refcount,
                    value |-> FrameOf(Pte(t, Above(f[1]))).value]
              ELSE frames[f]]

\* Mutant: the parent keeps its own list of areas
MutResumed(p, parent) ==
    [ctx[parent] EXCEPT !.state = "READY", !.data = ctx[p].data]

(* What vfork_exit_handle does to the parent's context. *)
Resumed(p, parent) ==
    [ctx[parent] EXCEPT !.state = "READY", !.vm_area = ctx[p].vm_area, !.data = ctx[p].data]

\* Mutant: a parent is not found once it has a parent that waits for it
MutVforkParents(p) ==
    {q \in Procs : q = ctx[p].ppid /\ ctx[q].ppid = Null /\ ctx[q].pgd = ctx[p].pgd}

(* get_ctx_by_pid finds the parent if it is there and has the same pgd *)
VforkParents(p) ==
    {q \in Procs : q = ctx[p].ppid /\ ctx[q].state # "EXITED" /\ ctx[q].pgd = ctx[p].pgd}

(* exit, with vfork_exit_handle *)
Exit(p) ==
    /\ Ready(p)
    /\ ctx' = [q \in Procs |->
                 IF q = p THEN [ctx[p] EXCEPT !.state = "EXITED"]
                 ELSE IF q \in VforkParents(p) THEN Resumed(p, q) ELSE ctx[q]]
    /\ UNCHANGED <<tables, frames>>

(* No process runs any more. *)
Halted == (\A p \in Procs : ~Ready(p)) /\ UNCHANGED vars

Next ==
    \/ \E p \in Procs :
          \/ Expand(p) \/ Exit(p)
          \/ \E i \in DOMAIN MmapRights : MapArea(p, i)
          \/ \E pg \in Pages :
                \/ Touch(p, pg) \/ handle_cow_fault(p, pg)
                \/ \E value \in Values : Store(p, pg, value)
          \/ \E c \in Procs : cfork_copy_mm(p, c) \/ vfork_copy_mm(p, c)
    \/ Halted

(* Programs that do not run for ever: each process exits some time. *)
Spec == Init /\ [][Next]_vars /\ \A p \in Procs : WF_vars(Exit(p))

-------------------------------------------------------------------------------
Context == [state : {"UNUSED", "READY", "WAITING", "EXITED"},
            ppid : Procs \cup {Null}, pgd : Procs \cup {Null},
            vm_area : SUBSET DOMAIN MmapRights, data : 0 .. MaxData, stack : 0 .. MaxStack]

Entries == {x \in Procs \X Pages : Pte(x[1], x[2]) # Null}
EntriesOf(f) == {x \in Entries : Pte(x[1], x[2]).frame = f}

(***************************************************************************)
(* The reference count of a frame is the number of page table entries that  *)
(* point to it, through any tree of cforks and vforks and any order of the  *)
(* first writes (cfork.c:48, 82, 184, 209): so a fault copies exactly when  *)
(* somebody else still has the frame.                                       *)
(***************************************************************************)
RefCountExact == \A f \in FrameIds : frames[f].refcount = Cardinality(EntriesOf(f))

Space(t) == [pg \in Present(t, Pages) |-> FrameOf(Pte(t, pg)).value]

(***************************************************************************)
(* "The child and the parent process run in separate memory spaces"         *)
(* (assignment3.pdf, p. 9): a step changes what one page table shows, never *)
(* what two show, and the one that copies a page table changes neither.     *)
(***************************************************************************)
SpacesSeparate ==
    [][\A t, u \in Procs : t # u /\ Space(t)' # Space(t) => Space(u)' = Space(u)]_vars

(* A child c with a page table of its own shows what its parent p, on t, knows. *)
CforkChildSees(p, c, t) ==
    Space(c)' = [pg \in Present(t, Known(p)) |-> Space(t)[pg]]

(* A child c on the page table t of its parent p has the parent's stack pages
   again below them, and everything else is as the parent left it. *)
VforkChildSees(p, c, t) ==
    LET Copy(pg) == <<"stack", pg[2] + ctx[p].stack>>
    IN  \A pg \in Present(t, Known(p)) :
           /\ pg \in Present(t, Pages)' /\ Space(t)'[pg] = Space(t)[pg]
           /\ pg \in StackPages =>
                 /\ Copy(pg) \in Present(t, Known(c))'
                 /\ Space(t)'[Copy(pg)] = Space(t)[pg]

(***************************************************************************)
(* "At the time of cfork() both memory spaces have the same content", and   *)
(* the child of a vfork finds its own copy of the parent's stack, also in   *)
(* pages an earlier child has left there (cfork.c:35-90, 118-136).          *)
(***************************************************************************)
ChildSeesParent ==
    [][\A p, c, t \in Procs :
          ctx[c].state = "UNUSED" /\ ctx'[c].state # "UNUSED"
          /\ ctx'[c].ppid = p /\ ctx[p].pgd = t
             => IF ctx'[c].pgd = c THEN CforkChildSees(p, c, t) ELSE VforkChildSees(p, c, t)]_vars

(***************************************************************************)
(* vfork "suspends the calling thread until the child terminates" (p. 11):  *)
(* of the processes on one page table at most one runs, and one that waits  *)
(* has a child on its page table that has not exited, so no exit forgets it *)
(* (cfork.c:106, 243-244).                                                  *)
(***************************************************************************)
OneRunsPerTable ==
    /\ \A p, q \in Procs : Ready(p) /\ Ready(q) /\ ctx[p].pgd = ctx[q].pgd => p = q
    /\ \A p \in Procs : ctx[p].state = "WAITING" =>
          \E c \in Procs : ctx[c].ppid = p /\ ctx[c].pgd = ctx[p].pgd
                           /\ ctx[c].state \in {"READY", "WAITING"}

(***************************************************************************)
(* A process that runs knows every page of its page table outside the       *)
(* stack: what a vfork child has mapped and touched is handed to the parent *)
(* by its exit (cfork.c:245-246), and would otherwise be there without an   *)
(* area, beyond the reach of cfork and munmap.                              *)
(***************************************************************************)
RunnerKnowsPages ==
    \A p \in Procs : Ready(p) => Present(ctx[p].pgd, Pages \ StackPages) \subseteq Known(p)

(***************************************************************************)
(* A suspended parent runs again, if processes exit.                        *)
(***************************************************************************)
ParentResumes == \A p \in Procs : ctx[p].state = "WAITING" ~> Ready(p)

(***************************************************************************)
(* A "write performed by parent or child results in copying of the page"    *)
(* (p. 9): getting write access to a page leaves what the page holds.       *)
(***************************************************************************)
WriteAccessKeepsPage ==
    [][\A t \in Procs, pg \in Pages :
          Pte(t, pg) # Null /\ ~Pte(t, pg).w /\ Pte(t, pg)'.w => Space(t)'[pg] = Space(t)[pg]]_vars
===============================================================================
