------------------------------- MODULE FileTable -------------------------------
(***************************************************************************)
(* Assignment 2: the descriptor tables of gemOS (file.c, and create_pipe of *)
(* pipe.c).  A process has a table of MAX_OPEN_FILES pointers to file       *)
(* objects; fork, dup, dup2 and open_standard_IO share an object and count  *)
(* the sharing in ref_count; generic_close frees the object, and with the   *)
(* last end of a pipe the pipe.                                             *)
(*                                                                         *)
(* gemOS runs system calls to completion on one CPU, so a call is an        *)
(* action; the loop of do_file_exit takes one action per descriptor, with   *)
(* every other action held back.  Calls that only return an error change    *)
(* nothing and are left out.  The system call layer that finds the process, *)
(* copies the context on fork and clears the descriptor on close is not in  *)
(* the repository; it is modelled from what these functions expect of it.   *)
(* The contents of files and pipes are left out (module PipeBuffer).        *)
(***************************************************************************)
EXTENDS Integers, FiniteSets

CONSTANTS Procs,            \* process slots
          Files,            \* the pages file objects live on
          Pipes,            \* the pages pipe_info structures live on
          Names,            \* file names
          OpenFlags,        \* the flags open is called with
          CreateModes,      \* the modes it is called with
          MAX_OPEN_FILES,
          FirstFd,          \* 3: the searches start behind the standard descriptors
          Restraint,        \* see MayTake
          Null

ASSUME TableAssumption ==
    /\ MAX_OPEN_FILES \in Nat /\ FirstFd \in Nat /\ 0 < FirstFd /\ FirstFd < MAX_OPEN_FILES
    /\ OpenFlags \subseteq SUBSET {"R", "W", "C"} /\ CreateModes \subseteq SUBSET {"R", "W"}
    /\ Restraint \in {0, 1}
    /\ Null \notin Files \cup Pipes \cup Procs
    /\ IsFiniteSet(Procs) /\ Null \notin [proc : Procs, i : 0 .. MAX_OPEN_FILES]
    /\ Null \notin [ropen : BOOLEAN, wopen : BOOLEAN]

VARIABLES alive,        \* process slots in use
          files,        \* ctx->files of each process
          fobj,         \* the file objects
          pipes,        \* the pipes: which ends are open, or Null
          inodes,       \* name -> mode, for the files that exist
          exiting,      \* the do_file_exit in progress: process and index
          outside       \* the functions that stored a descriptor outside a table

vars == <<alive, files, fobj, pipes, inodes, exiting, outside>>

FDs   == 0 .. MAX_OPEN_FILES - 1
Modes == SUBSET {"R", "W", "C"}         \* O_READ, O_WRITE, O_CREAT

FreeObj == [type |-> "FREE", mode |-> {}, ref_count |-> 0, pipe |-> Null]

Init ==
    /\ \E p \in Procs : alive = {p}
    /\ files = [p \in Procs |-> [fd \in FDs |-> Null]]
    /\ fobj = [f \in Files |-> FreeObj]
    /\ pipes = [q \in Pipes |-> Null]
    /\ inodes = <<>>
    /\ exiting = Null
    /\ outside = {}

(* A live process makes a system call. *)
Calls(p) == p \in alive /\ exiting = Null

-------------------------------------------------------------------------------
(* Pages that os_page_alloc can hand out. *)
Unused == {f \in Files : fobj[f].type = "FREE"}

(* The descriptors the searches starting at "from" would take. *)
FreeFrom(p, from) == {fd \in FDs : fd >= from /\ files[p][fd] = Null}
First(S) == CHOOSE fd \in S : \A g \in S : fd <= g

(***************************************************************************)
(* With Restraint = 1, processes leave room in their tables: a call that    *)
(* takes n descriptors is made only when n are free from FirstFd up.        *)
(* Restraint = 0 lets them fill the table.                                  *)
(***************************************************************************)
MayTake(p, n) == Cardinality(FreeFrom(p, FirstFd)) >= n * Restraint

Install(p, fd, f) == files' = [files EXCEPT ![p][fd] = f]

-------------------------------------------------------------------------------
(***************************************************************************)
(* generic_close on object f: what it leaves of the objects and the pipes.  *)
(***************************************************************************)
Released(f, o) ==
    IF o[f].ref_count = 1 THEN [o EXCEPT ![f] = FreeObj]
                          ELSE [o EXCEPT ![f].ref_count = @ - 1]

(* The end of the pipe that goes when the last reference to f goes. *)
EndOf(f) == IF fobj[f].mode = {"R"} THEN "ropen" ELSE "wopen"

\* Mutant: shuts the end whenever a reference goes
MutPipesAfterClose(f) ==
    IF fobj[f].type = "PIPE"
    THEN LET q    == fobj[f].pipe
             left == [pipes[q] EXCEPT ![EndOf(f)] = FALSE]
         IN  [pipes EXCEPT ![q] = IF ~left.ropen /\ ~left.wopen THEN Null ELSE left]
    ELSE pipes

PipesAfterClose(f) ==
    IF fobj[f].type = "PIPE" /\ fobj[f].ref_count = 1
    THEN LET q    == fobj[f].pipe
             left == [pipes[q] EXCEPT ![EndOf(f)] = FALSE]
         IN  [pipes EXCEPT ![q] = IF ~left.ropen /\ ~left.wopen THEN Null ELSE left]
    ELSE pipes

generic_close(f) ==
    /\ fobj' = Released(f, fobj)
    /\ pipes' = PipesAfterClose(f)

(* close(fd): the system call layer calls fops->close and clears the entry. *)
Close(p, fd) ==
    /\ Calls(p) /\ files[p][fd] # Null
    /\ generic_close(files[p][fd])
    /\ Install(p, fd, Null)
    /\ UNCHANGED <<alive, inodes, exiting, outside>>

-------------------------------------------------------------------------------
(***************************************************************************)
(* open_standard_IO(ctx, type), type 0, 1 or 2 for STDIN, STDOUT, STDERR.   *)
(* The search of lines 73-75 has no bound: with a full table it reads on    *)
(* behind it and stores wherever it finds a zero.                           *)
(***************************************************************************)
OpenStandardIO(p, type) ==
    /\ Calls(p) /\ MayTake(p, 1)
    /\ LET f == files[p][type]
           room == FreeFrom(p, FirstFd)
       IN  \/ /\ f = Null
              /\ \E g \in Unused :
                    /\ fobj' = [fobj EXCEPT ![g] =
                                  [type |-> "STD", mode |-> IF type = 0 THEN {"R"} ELSE {"W"},
                                   ref_count |-> 1, pipe |-> Null]]
                    /\ Install(p, type, g)
              /\ UNCHANGED outside
           \/ /\ f # Null
              /\ fobj' = [fobj EXCEPT ![f].ref_count = @ + 1]
              /\ IF room # {}
                 THEN Install(p, First(room), f) /\ UNCHANGED outside
                 ELSE outside' = outside \cup {"open_standard_IO"} /\ UNCHANGED files
    /\ UNCHANGED <<alive, pipes, inodes, exiting>>

(* lookup_inode and create_inode are the file system's. *)
Exists(n) == n \in DOMAIN inodes

(* The test of lines 274-277, made only on a file that already existed. *)
Permitted(n, flags) == \A b \in {"R", "W"} : b \in flags => b \in inodes[n]

(* filep->mode, lines 284-287; "flags ^ O_CREAT" flips the bit *)
FileMode(n, flags, mode) ==
    IF Exists(n) THEN (flags \ {"C"}) \cup ({"C"} \ flags) ELSE mode

(***************************************************************************)
(* do_regular_file_open.  When no descriptor is free it returns -EOTHERS,   *)
(* but by then the file object is allocated and nobody frees it.            *)
(***************************************************************************)
RegularFileOpen(p, n, flags, mode) ==
    /\ Calls(p) /\ MayTake(p, 1) /\ flags # {}
    /\ IF Exists(n) THEN Permitted(n, flags) /\ UNCHANGED inodes
       ELSE /\ "C" \in flags
            /\ inodes' = [m \in DOMAIN inodes \cup {n} |-> IF m = n THEN mode ELSE inodes[m]]
    /\ \E f \in Unused :
          /\ fobj' = [fobj EXCEPT ![f] = [type |-> "REGULAR", mode |-> FileMode(n, flags, mode),
                                          ref_count |-> 1, pipe |-> Null]]
          /\ IF FreeFrom(p, FirstFd) # {} THEN Install(p, First(FreeFrom(p, FirstFd)), f)
                                    ELSE UNCHANGED files
    /\ UNCHANGED <<alive, pipes, exiting, outside>>

-------------------------------------------------------------------------------
(***************************************************************************)
(* create_pipe.  The second search starts behind the first descriptor       *)
(* without a test, so when that is the last one it reads the word behind    *)
(* the table and, if it is zero, stores the write end there.                *)
(* The returns for an allocation that fails (lines 135, 144 and 158, the    *)
(* last with the read end installed) are left out: alloc_pipe_info and      *)
(* alloc_file store through the page they are given before they could       *)
(* return NULL (pipe.c:14, file.c:29-30).                                   *)
(***************************************************************************)
CreatePipe(p) ==
    /\ Calls(p) /\ MayTake(p, 2)
    /\ FreeFrom(p, FirstFd) # {}
    /\ LET fd0 == First(FreeFrom(p, FirstFd))
           rest == FreeFrom(p, fd0 + 1)
       IN  /\ rest # {} \/ fd0 + 1 = MAX_OPEN_FILES
           /\ \E r, w \in Unused, q \in Pipes :
                 /\ r # w /\ pipes[q] = Null
                 /\ pipes' = [pipes EXCEPT ![q] = [ropen |-> TRUE, wopen |-> TRUE]]
                 /\ fobj' = [fobj EXCEPT
                       ![r] = [type |-> "PIPE", mode |-> {"R"}, ref_count |-> 1, pipe |-> q],
                       ![w] = [type |-> "PIPE", mode |-> {"W"}, ref_count |-> 1, pipe |-> q]]
                 /\ IF rest # {}
                    THEN /\ files' = [files EXCEPT ![p][fd0] = r, ![p][First(rest)] = w]
                         /\ UNCHANGED outside
                    ELSE Install(p, fd0, r) /\ outside' = outside \cup {"create_pipe"}
    /\ UNCHANGED <<alive, inodes, exiting>>

-------------------------------------------------------------------------------
fd_dup(p, oldfd) ==
    /\ Calls(p) /\ MayTake(p, 1)
    /\ files[p][oldfd] # Null /\ FreeFrom(p, 0) # {}
    /\ fobj' = [fobj EXCEPT ![files[p][oldfd]].ref_count = @ + 1]
    /\ Install(p, First(FreeFrom(p, 0)), files[p][oldfd])
    /\ UNCHANGED <<alive, pipes, inodes, exiting, outside>>

(* The reference is taken before the old file of newfd is closed, which is
   what makes dup2(fd, fd) harmless. *)
fd_dup2(p, oldfd, newfd) ==
    /\ Calls(p) /\ MayTake(p, 1)
    /\ files[p][oldfd] # Null
    /\ LET f == files[p][oldfd]
           g == files[p][newfd]
           taken == [fobj EXCEPT ![f].ref_count = @ + 1]
       IN  IF g = Null THEN fobj' = taken /\ UNCHANGED pipes
           ELSE /\ fobj' = Released(g, taken)
                /\ pipes' = IF f = g THEN pipes ELSE PipesAfterClose(g)
    /\ Install(p, newfd, files[p][oldfd])
    /\ UNCHANGED <<alive, inodes, exiting, outside>>

-------------------------------------------------------------------------------
(* Descriptors of process p that point at f. *)
FdsOf(p, f) == {fd \in FDs : files[p][fd] = f}

\* Mutant: fork does not call do_file_fork
MutFork(p, c) ==
    /\ Calls(p) /\ c \in Procs \ alive
    /\ alive' = alive \cup {c}
    /\ files' = [files EXCEPT ![c] = files[p]]
    /\ UNCHANGED <<fobj, pipes, inodes, exiting, outside>>

(* fork: the child's context is a copy, then do_file_fork(child) *)
Fork(p, c) ==
    /\ Calls(p) /\ c \in Procs \ alive
    /\ alive' = alive \cup {c}
    /\ files' = [files EXCEPT ![c] = files[p]]
    /\ fobj' = [f \in Files |-> [fobj[f] EXCEPT !.ref_count = @ + Cardinality(FdsOf(p, f))]]
    /\ UNCHANGED <<pipes, inodes, exiting, outside>>

(* exit calls do_file_exit(ctx) *)
BeginExit(p) ==
    /\ Calls(p)
    /\ exiting' = [proc |-> p, i |-> 0]
    /\ UNCHANGED <<alive, files, fobj, pipes, inodes, outside>>

(* One round of the loop. *)
ExitRound ==
    /\ exiting # Null /\ exiting.i < MAX_OPEN_FILES
    /\ LET f == files[exiting.proc][exiting.i]
       IN  IF f # Null THEN generic_close(f) ELSE UNCHANGED <<fobj, pipes>>
    /\ exiting' = [exiting EXCEPT !.i = @ + 1]
    /\ UNCHANGED <<alive, files, inodes, outside>>

(* The slot and its context are free to be overwritten by a fork. *)
EndExit ==
    /\ exiting # Null /\ exiting.i = MAX_OPEN_FILES
    /\ alive' = alive \ {exiting.proc}
    /\ files' = [files EXCEPT ![exiting.proc] = [fd \in FDs |-> Null]]
    /\ exiting' = Null
    /\ UNCHANGED <<fobj, pipes, inodes, outside>>

(* No process is left. *)
Halted == alive = {} /\ UNCHANGED vars

Next ==
    \/ \E p \in Procs :
          \/ \E type \in 0 .. FirstFd - 1 : OpenStandardIO(p, type)
          \/ \E n \in Names, flags \in OpenFlags, mode \in CreateModes :
                RegularFileOpen(p, n, flags, mode)
          \/ CreatePipe(p)
          \/ \E fd \in FDs : Close(p, fd) \/ fd_dup(p, fd)
          \/ \E oldfd, newfd \in FDs : fd_dup2(p, oldfd, newfd)
          \/ \E c \in Procs : Fork(p, c)
          \/ BeginExit(p)
    \/ ExitRound \/ EndExit
    \/ Halted

Spec == Init /\ [][Next]_vars

-------------------------------------------------------------------------------
(* The descriptors that count: those of live processes, less the ones an
   exit in progress has already closed. *)
Counted(p, fd) ==
    p \in alive /\ (exiting # Null => exiting.proc # p \/ fd >= exiting.i)

References(f) == {d \in Procs \X FDs : Counted(d[1], d[2]) /\ files[d[1]][d[2]] = f}

(***************************************************************************)
(* ref_count is the number of descriptors, in all processes, that share the *)
(* object, through any sequence of open, pipe, dup, dup2, fork, close and   *)
(* exit.  So an object is freed exactly with its last descriptor: no        *)
(* descriptor points at a freed page and no object is left without one      *)
(* (file.c:87-142, 311-368).                                                *)
(***************************************************************************)
RefCountExact ==
    \A f \in Files :
        /\ fobj[f].ref_count = Cardinality(References(f))
        /\ fobj[f].type = "FREE" <=> References(f) = {}

(***************************************************************************)
(* A pipe's open flags say whether a file object for that end exists        *)
(* anywhere, and the pipe lives as long as one does: an end shared by fork  *)
(* or dup is not shut by the first close, and no object is left with a      *)
(* freed pipe_info (generic_close, file.c:128-139).                         *)
(***************************************************************************)
PipeEndsAgree ==
    \A q \in Pipes :
        LET ends(m) == {f \in Files : fobj[f].pipe = q /\ fobj[f].mode = {m}}
        IN  IF pipes[q] = Null THEN ends("R") = {} /\ ends("W") = {}
            ELSE /\ pipes[q].ropen <=> ends("R") # {}
                 /\ pipes[q].wopen <=> ends("W") # {}
                 /\ pipes[q].ropen \/ pipes[q].wopen
===============================================================================
