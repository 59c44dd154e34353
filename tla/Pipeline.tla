------------------------------- MODULE Pipeline -------------------------------
(***************************************************************************)
(* Assignment 1, part 2: "@" runs grep | wc (task1), "$" runs               *)
(* grep | tee | cmd (task2).  The processes share descriptors by fork, and  *)
(* a pipe delivers end of file, or a broken pipe, only when the last copy   *)
(* of its other end is closed, by whichever process has it.                 *)
(*                                                                         *)
(* What a process does before it runs its program is a script of system     *)
(* calls, one step each.  Pipes and the programs grep, wc and cmd are       *)
(* external; bytes are counted, a pipe being first in, first out.           *)
(***************************************************************************)
EXTENDS Integers, Sequences

CONSTANTS MaxOutput,    \* bound on the bytes grep writes
          Capacity      \* bytes a pipe holds

ASSUME PipelineAssumption == MaxOutput \in Nat /\ Capacity \in Nat \ {0}

VARIABLES task,         \* argv[1]
          output,       \* how many bytes grep finds
          step, phase,  \* the next call of each process's script; what it does
          table,        \* descriptors of each process
          buf,          \* bytes in each pipe
          out, got,     \* bytes grep has written and cmd (or wc) has read
          fptr, file,   \* tee's file: whether it could be opened, bytes written
          ok            \* history: no call has failed and cmd has not left early

vars == <<task, output, step, phase, table, buf, out, got, fptr, file, ok>>

Procs == {"cmd", "tee", "grep"}         \* in task1, cmd is wc and there is no tee
Descs == {"stdin", "stdout", "fd[0]", "fd[1]", "fd1[0]", "fd1[1]"}
Pipes == {"fd", "fd1"}

R(q) == [pipe |-> q, end |-> "r"]
W(q) == [pipe |-> q, end |-> "w"]
Terminal == [pipe |-> "tty", end |-> "rw"]
Closed   == [pipe |-> "none", end |-> "none"]

-------------------------------------------------------------------------------
(* The calls of part2.c, process by process. *)
pipe(q)      == [call |-> "pipe", arg |-> q, to |-> ""]
fork(child)  == [call |-> "fork", arg |-> child, to |-> ""]
dup2(d, e)   == [call |-> "dup2", arg |-> d, to |-> e]
close(d)     == [call |-> "close", arg |-> d, to |-> ""]

task1_wc   == <<pipe("fd"), fork("grep"),
                dup2("fd[0]", "stdin"), close("fd[1]"), close("fd[0]")>>

task1_grep == <<dup2("fd[1]", "stdout"), close("fd[0]"), close("fd[1]")>>

\* Mutant: the parent keeps its copy of the write end
Mut_task2_cmd == <<pipe("fd"), fork("tee"), dup2("fd[0]", "stdin"), close("fd[0]")>>

task2_cmd  == <<pipe("fd"), fork("tee"),
                dup2("fd[0]", "stdin"), close("fd[0]"), close("fd[1]")>>

\* Mutant: tee's output is not redirected
Mut_task2_tee == <<pipe("fd1"), fork("grep"),
                   dup2("fd1[0]", "stdin"), close("fd1[0]"), close("fd1[1]")>>

task2_tee  == <<pipe("fd1"), fork("grep"),
                dup2("fd1[0]", "stdin"), dup2("fd[1]", "stdout"),
                close("fd1[0]"), close("fd1[1]")>>

task2_grep == <<dup2("fd1[1]", "stdout"), close("fd1[0]"), close("fd1[1]")>>

Script(p) ==
    CASE p = "cmd"  -> IF task = "@" THEN task1_wc ELSE task2_cmd
      [] p = "grep" -> IF task = "@" THEN task1_grep ELSE task2_grep
      [] p = "tee"  -> task2_tee

-------------------------------------------------------------------------------
Init ==
    /\ task \in {"@", "$"}
    /\ output \in 0 .. MaxOutput
    /\ step = [p \in Procs |-> 1]
    /\ phase = [p \in Procs |-> IF p = "cmd" THEN "setup" ELSE "none"]
    /\ table = [p \in Procs |-> [d \in Descs |->
                  IF p = "cmd" /\ d \in {"stdin", "stdout"} THEN Terminal ELSE Closed]]
    /\ buf = [q \in Pipes |-> 0]
    /\ out = 0 /\ got = 0
    /\ fptr = FALSE /\ file = 0
    /\ ok = TRUE

(* Some process still has this end. *)
IsOpen(e) == \E p \in Procs, d \in Descs : table[p][d] = e

Exits(p) ==
    /\ phase' = [phase EXCEPT ![p] = "exit"]
    /\ table' = [table EXCEPT ![p] = [d \in Descs |-> Closed]]

Now(p, call) ==
    /\ phase[p] = "setup" /\ step[p] <= Len(Script(p))
    /\ Script(p)[step[p]].call = call

Arg(p) == Script(p)[step[p]].arg

Advance(p) == step' = [step EXCEPT ![p] = @ + 1]

data == <<buf, out, got, fptr, file>>

(* pipe(fd) or pipe(fd1) *)
MakePipe(p) ==
    /\ Now(p, "pipe")
    /\ table' = [table EXCEPT ![p][IF Arg(p) = "fd" THEN "fd[0]" ELSE "fd1[0]"] = R(Arg(p)),
                              ![p][IF Arg(p) = "fd" THEN "fd[1]" ELSE "fd1[1]"] = W(Arg(p))]
    /\ Advance(p)
    /\ UNCHANGED <<task, output, phase, data, ok>>

(* The child starts with a copy of the descriptors, behind the fork. *)
Fork(p) ==
    /\ Now(p, "fork")
    /\ table' = [table EXCEPT ![Arg(p)] = table[p]]
    /\ phase' = [phase EXCEPT ![Arg(p)] = "setup"]
    /\ Advance(p)
    /\ UNCHANGED <<task, output, data, ok>>

(* perror and exit(-1) *)
PipeOrForkFails(p) ==
    /\ Now(p, "pipe") \/ Now(p, "fork")
    /\ Exits(p)
    /\ ok' = FALSE
    /\ UNCHANGED <<task, output, step, data>>

Dup2(p) ==
    /\ Now(p, "dup2")
    /\ table' = [table EXCEPT ![p][Script(p)[step[p]].to] = table[p][Arg(p)]]
    /\ Advance(p)
    /\ UNCHANGED <<task, output, phase, data, ok>>

Close(p) ==
    /\ Now(p, "close")
    /\ table' = [table EXCEPT ![p][Arg(p)] = Closed]
    /\ Advance(p)
    /\ UNCHANGED <<task, output, phase, data, ok>>

SetUp(p) == phase[p] = "setup" /\ step[p] > Len(Script(p))

(* exec of grep, wc and cmd keeps the descriptors. *)
Exec(p) ==
    /\ p # "tee" /\ SetUp(p)
    /\ phase' = [phase EXCEPT ![p] = "run"]
    /\ UNCHANGED <<task, output, step, table, data, ok>>

(* exit(1), exit(4), or the return from task1 to main *)
ExecFails(p) ==
    /\ p # "tee" /\ SetUp(p)
    /\ Exits(p)
    /\ ok' = FALSE
    /\ UNCHANGED <<task, output, step, data>>

-------------------------------------------------------------------------------
(* The pipe a process reads from, or writes to. *)
In(p)  == table[p]["stdin"].pipe
Out(p) == table[p]["stdout"].pipe

EndOfFile(p) == ~IsOpen(W(In(p))) /\ buf[In(p)] = 0

HasData(p) == In(p) \in Pipes /\ buf[In(p)] > 0

HasRoom(p) == IsOpen(R(Out(p))) /\ buf[Out(p)] < Capacity

(* tee opens its file without looking at the result. *)
TeeOpen ==
    /\ SetUp("tee")
    /\ phase' = [phase EXCEPT !["tee"] = "run"]
    /\ fptr' \in BOOLEAN
    /\ UNCHANGED <<task, output, step, table, buf, out, got, file, ok>>

(* while(read(0, &c, 1) > 0) *)
TeeRead ==
    /\ phase["tee"] = "run" /\ HasData("tee")
    /\ buf' = [buf EXCEPT ![In("tee")] = @ - 1]
    /\ phase' = [phase EXCEPT !["tee"] = "pass"]
    /\ UNCHANGED <<task, output, step, table, out, got, fptr, file, ok>>

TeePass ==
    /\ phase["tee"] = "pass" /\ HasRoom("tee")
    /\ buf' = [buf EXCEPT ![Out("tee")] = @ + 1]
    /\ phase' = [phase EXCEPT !["tee"] = "note"]
    /\ UNCHANGED <<task, output, step, table, out, got, fptr, file, ok>>

(* write(fptr, &c, 1) *)
TeeNote ==
    /\ phase["tee"] = "note"
    /\ file' = IF fptr THEN file + 1 ELSE file
    /\ phase' = [phase EXCEPT !["tee"] = "run"]
    /\ UNCHANGED <<task, output, step, table, buf, out, got, fptr, ok>>

TeeEnd ==
    /\ phase["tee"] = "run" /\ EndOfFile("tee")
    /\ Exits("tee")
    /\ UNCHANGED <<task, output, step, data, ok>>

-------------------------------------------------------------------------------
(* grep writes what it finds and ends. *)
GrepWrite ==
    /\ phase["grep"] = "run" /\ out < output /\ HasRoom("grep")
    /\ out' = out + 1
    /\ buf' = [buf EXCEPT ![Out("grep")] = @ + 1]
    /\ UNCHANGED <<task, output, step, phase, table, got, fptr, file, ok>>

GrepEnd ==
    /\ phase["grep"] = "run" /\ out = output
    /\ Exits("grep")
    /\ UNCHANGED <<task, output, step, data, ok>>

(* A write to a pipe that nobody can read: SIGPIPE *)
BrokenPipe(p) ==
    /\ \/ p = "grep" /\ phase[p] = "run" /\ out < output
       \/ p = "tee" /\ phase[p] = "pass"
    /\ ~IsOpen(R(Out(p)))
    /\ Exits(p)
    /\ UNCHANGED <<task, output, step, data, ok>>

(* wc, or a cmd that reads its input to the end *)
CmdRead ==
    /\ phase["cmd"] = "run" /\ HasData("cmd")
    /\ buf' = [buf EXCEPT ![In("cmd")] = @ - 1]
    /\ got' = got + 1
    /\ UNCHANGED <<task, output, step, phase, table, out, fptr, file, ok>>

CmdEnd ==
    /\ phase["cmd"] = "run" /\ EndOfFile("cmd")
    /\ Exits("cmd")
    /\ UNCHANGED <<task, output, step, data, ok>>

(* A cmd like head leaves before the end of its input. *)
CmdLeaves ==
    /\ phase["cmd"] = "run" /\ task = "$"
    /\ Exits("cmd")
    /\ ok' = FALSE
    /\ UNCHANGED <<task, output, step, data>>

-------------------------------------------------------------------------------
Call(p) == MakePipe(p) \/ Fork(p) \/ Dup2(p) \/ Close(p) \/ Exec(p) \/ BrokenPipe(p)

tee  == TeeOpen \/ TeeRead \/ TeePass \/ TeeNote \/ TeeEnd
grep == GrepWrite \/ GrepEnd
cmd  == CmdRead \/ CmdEnd

AllGone == \A p \in Procs : phase[p] \in {"none", "exit"}

(***************************************************************************)
(* cmd has left and tee waits for room in a pipe nobody reads: tee has kept *)
(* its own copy of fd[0], so the pipe is not broken either.                 *)
(***************************************************************************)
Abandoned == phase["cmd"] = "exit" /\ phase["tee"] = "pass" /\ buf["fd"] = Capacity

Idle == AllGone /\ UNCHANGED vars

(* grep too waits, or has ended: nothing moves any more. *)
Stuck ==
    /\ Abandoned
    /\ phase["grep"] = "exit" \/ (phase["grep"] = "run" /\ out < output /\ buf["fd1"] = Capacity)
    /\ UNCHANGED vars

Next ==
    \/ \E p \in Procs : Call(p) \/ PipeOrForkFails(p) \/ ExecFails(p)
    \/ tee \/ grep \/ cmd \/ CmdLeaves
    \/ Idle \/ Stuck

Spec == Init /\ [][Next]_vars

(***************************************************************************)
(* Processes are scheduled; nobody has to fail or to leave early.           *)
(***************************************************************************)
FairSpec ==
    /\ Spec
    /\ \A p \in Procs : WF_vars(Call(p))
    /\ WF_vars(tee) /\ WF_vars(grep) /\ WF_vars(cmd)

-------------------------------------------------------------------------------
(***************************************************************************)
(* When the foreground process ends, and no call has failed, it has read    *)
(* everything grep wrote and tee's file is complete: no end of file is seen *)
(* early, no writer meets a broken pipe, and nobody who waits for cmd finds *)
(* the file still growing (part2.c:54-76, 107-147).                         *)
(***************************************************************************)
CompleteWhenCmdEnds ==
    ok /\ phase["cmd"] = "exit" =>
        /\ got = output
        /\ task = "$" /\ fptr => file = output

(***************************************************************************)
(* Every process ends, whichever call fails, unless cmd leaves (or cannot   *)
(* be run) and more is left than the pipe to it holds: then tee, which has  *)
(* not closed fd[0], waits for ever (part2.c:115-131).                      *)
(***************************************************************************)
EndsUnlessAbandoned == <>[](AllGone \/ Abandoned)
===============================================================================
