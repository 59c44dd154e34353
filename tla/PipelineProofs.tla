----------------------------- MODULE PipelineProofs -----------------------------
(***************************************************************************)
(* Proofs about Pipeline, for any amount of output and any pipe size: when  *)
(* cmd (or wc) ends and nothing has failed, all that grep wrote has been    *)
(* read, and tee's file is complete.                                        *)
(*                                                                         *)
(* The end of file a reader sees says only that nobody has the other end.   *)
(* IInv adds which descriptors each process still has at each call of its   *)
(* script, so that a process that may still write is seen to hold a write   *)
(* end, and a process that still reads a read end; what has passed between  *)
(* them is then counted.                                                    *)
(***************************************************************************)
EXTENDS Pipeline, TLAPS

Ends == {Terminal, Closed} \cup {R(q) : q \in Pipes} \cup {W(q) : q \in Pipes}

Typed ==
    /\ task \in {"@", "$"} /\ output \in Nat
    /\ step \in [Procs -> Nat \ {0}]
    /\ phase \in [Procs -> {"none", "setup", "run", "pass", "note", "exit"}]
    /\ table \in [Procs -> [Descs -> Ends]]
    /\ buf \in [Pipes -> Nat]
    /\ out \in Nat /\ got \in Nat /\ file \in Nat
    /\ fptr \in BOOLEAN /\ ok \in BOOLEAN

(* The phases of each process, and who has been forked. *)
Alive(p) == phase[p] \notin {"none", "exit"}

Forked ==
    /\ phase["cmd"] \in {"setup", "run", "exit"}
    /\ phase["grep"] \in {"none", "setup", "run", "exit"}
    /\ phase["cmd"] # "setup" => step["cmd"] = 6
    /\ task = "@" => /\ phase["tee"] = "none"
                     /\ phase["grep"] = "none" <=> step["cmd"] <= 2
    /\ task = "$" => /\ phase["tee"] = "none" <=> step["cmd"] <= 2
                     /\ phase["grep"] = "none" <=> step["tee"] <= 2
                     /\ phase["tee"] \notin {"none", "setup"} => step["tee"] = 7
    /\ \A p \in Procs : phase[p] = "none" => step[p] = 1
    /\ phase["grep"] = "run" => step["grep"] = 4
    /\ step["cmd"] <= 6 /\ step["tee"] <= 7 /\ step["grep"] <= 4

(* What each process has at call k, as far as the end of a pipe needs it. *)
CmdHas(T, k) ==
    /\ k \in {2, 3} => T["fd[0]"] = R("fd")
    /\ k = 2 => T["fd[1]"] = W("fd")
    /\ k >= 4 => T["stdin"] = R("fd")

TeeHas(T, k) ==
    /\ T["fd[0]"] = R("fd") /\ T["fd[1]"] = W("fd")
    /\ k \in {2, 3} => T["fd1[0]"] = R("fd1")
    /\ k = 2 => T["fd1[1]"] = W("fd1")
    /\ k >= 4 => T["stdin"] = R("fd1")
    /\ k >= 5 => T["stdout"] = W("fd")

GrepHas(T, k) ==
    /\ k = 1 => T[IF task = "@" THEN "fd[1]" ELSE "fd1[1]"] = W(IF task = "@" THEN "fd" ELSE "fd1")
    /\ k >= 2 => T["stdout"] = W(IF task = "@" THEN "fd" ELSE "fd1")

Has ==
    /\ Alive("cmd")  => CmdHas(table["cmd"], step["cmd"])
    /\ Alive("tee")  => TeeHas(table["tee"], step["tee"])
    /\ Alive("grep") => GrepHas(table["grep"], step["grep"])

(* Nothing that grep wrote is lost, or comes twice, on its way. *)
Passed == buf["fd"] + got

Counts ==
    /\ out <= output
    /\ task = "@" => out = Passed
    /\ task = "$" => /\ out = buf["fd1"] + (IF phase["tee"] = "pass" THEN 1 ELSE 0) + Passed
                     /\ fptr => file + (IF phase["tee"] = "note" THEN 1 ELSE 0) = Passed
                     /\ phase["tee"] \in {"none", "setup"} => Passed = 0 /\ file = 0

(* A process ends behind the one it reads from, when it has read all. *)
InOrder ==
    /\ phase["grep"] = "exit" => out = output
    /\ task = "@" /\ phase["cmd"] = "exit" => phase["grep"] = "exit" /\ buf["fd"] = 0
    /\ task = "$" /\ phase["tee"] = "exit" => phase["grep"] = "exit" /\ buf["fd1"] = 0
    /\ task = "$" /\ phase["cmd"] = "exit" => phase["tee"] = "exit" /\ buf["fd"] = 0

Sound == Forked /\ Has /\ Counts /\ InOrder

IInv == Typed /\ (ok => Sound)

-------------------------------------------------------------------------------
(***************************************************************************)
(* The calls of each script, one by one (part2.c:42-75, 83-142).            *)
(***************************************************************************)
LEMMA Fields ==
    /\ \A q : pipe(q).call = "pipe" /\ pipe(q).arg = q
    /\ \A q : fork(q).call = "fork" /\ fork(q).arg = q
    /\ \A d, e : dup2(d, e).call = "dup2" /\ dup2(d, e).arg = d /\ dup2(d, e).to = e
    /\ \A d : close(d).call = "close" /\ close(d).arg = d
  BY DEF pipe, fork, dup2, close

LEMMA CmdCalls ==
    ASSUME Typed
    PROVE  /\ Now("cmd", "pipe") => step["cmd"] = 1 /\ Arg("cmd") = "fd"
           /\ Now("cmd", "fork") => step["cmd"] = 2 /\ Arg("cmd") = IF task = "@" THEN "grep" ELSE "tee"
           /\ Now("cmd", "dup2") => /\ step["cmd"] = 3 /\ Arg("cmd") = "fd[0]"
                                    /\ Script("cmd")[step["cmd"]].to = "stdin"
           /\ Now("cmd", "close") => step["cmd"] \in {4, 5} /\ Arg("cmd") \in {"fd[0]", "fd[1]"}
           /\ Len(Script("cmd")) = 5
  <1> DEFINE k == step["cmd"]
             c == Script("cmd")[k]
  <1>1. k \in Nat \ {0}  BY DEF Typed, Procs
  <1>2. CASE task = "@"
    <2>1. Script("cmd") = task1_wc  BY <1>2 DEF Script
    <2>2. Len(task1_wc) = 5  BY DEF task1_wc
    <2>3. /\ task1_wc[1] = pipe("fd") /\ task1_wc[2] = fork("grep")
          /\ task1_wc[3] = dup2("fd[0]", "stdin") /\ task1_wc[4] = close("fd[1]")
          /\ task1_wc[5] = close("fd[0]")
      BY DEF task1_wc
    <2>4. k <= 5 => k \in {1, 2, 3, 4, 5}  BY <1>1
    <2>5. ASSUME NEW x, Now("cmd", x)
          PROVE  /\ c.call = x /\ c.arg = Arg("cmd") /\ c.to = Script("cmd")[step["cmd"]].to
                 /\ \/ k = 1 /\ c = pipe("fd")
                    \/ k = 2 /\ c = fork("grep")
                    \/ k = 3 /\ c = dup2("fd[0]", "stdin")
                    \/ k = 4 /\ c = close("fd[1]")
                    \/ k = 5 /\ c = close("fd[0]")
      BY <1>1, <2>1, <2>2, <2>3, <2>4, <2>5 DEF Now, Arg
    <2> HIDE DEF c
    <2> DEFINE to == Script("cmd")[step["cmd"]].to
    <2> HIDE DEF to
    <2>6. ASSUME NEW x, Now("cmd", x)
          PROVE  \/ k = 1 /\ x = "pipe" /\ Arg("cmd") = "fd"
                 \/ k = 2 /\ x = "fork" /\ Arg("cmd") = "grep"
                 \/ k = 3 /\ x = "dup2" /\ Arg("cmd") = "fd[0]" /\ to = "stdin"
                 \/ k = 4 /\ x = "close" /\ Arg("cmd") = "fd[1]"
                 \/ k = 5 /\ x = "close" /\ Arg("cmd") = "fd[0]"
      BY <2>5, <2>6, Fields DEF to
    <2> QED  BY <1>2, <2>1, <2>2, <2>6 DEF to
  <1>3. CASE task = "$"
    <2>1. Script("cmd") = task2_cmd  BY <1>3 DEF Script
    <2>2. Len(task2_cmd) = 5  BY DEF task2_cmd
    <2>3. /\ task2_cmd[1] = pipe("fd") /\ task2_cmd[2] = fork("tee")
          /\ task2_cmd[3] = dup2("fd[0]", "stdin") /\ task2_cmd[4] = close("fd[0]")
          /\ task2_cmd[5] = close("fd[1]")
      BY DEF task2_cmd
    <2>4. k <= 5 => k \in {1, 2, 3, 4, 5}  BY <1>1
    <2>5. ASSUME NEW x, Now("cmd", x)
          PROVE  /\ c.call = x /\ c.arg = Arg("cmd") /\ c.to = Script("cmd")[step["cmd"]].to
                 /\ \/ k = 1 /\ c = pipe("fd")
                    \/ k = 2 /\ c = fork("tee")
                    \/ k = 3 /\ c = dup2("fd[0]", "stdin")
                    \/ k = 4 /\ c = close("fd[0]")
                    \/ k = 5 /\ c = close("fd[1]")
      BY <1>1, <2>1, <2>2, <2>3, <2>4, <2>5 DEF Now, Arg
    <2> HIDE DEF c
    <2> DEFINE to == Script("cmd")[step["cmd"]].to
    <2> HIDE DEF to
    <2>6. ASSUME NEW x, Now("cmd", x)
          PROVE  \/ k = 1 /\ x = "pipe" /\ Arg("cmd") = "fd"
                 \/ k = 2 /\ x = "fork" /\ Arg("cmd") = "tee"
                 \/ k = 3 /\ x = "dup2" /\ Arg("cmd") = "fd[0]" /\ to = "stdin"
                 \/ k = 4 /\ x = "close" /\ Arg("cmd") = "fd[0]"
                 \/ k = 5 /\ x = "close" /\ Arg("cmd") = "fd[1]"
      BY <2>5, <2>6, Fields DEF to
    <2> QED  BY <1>3, <2>1, <2>2, <2>6 DEF to
  <1> QED  BY <1>2, <1>3 DEF Typed

LEMMA TeeCalls ==
    ASSUME Typed
    PROVE  /\ Now("tee", "pipe") => step["tee"] = 1 /\ Arg("tee") = "fd1"
           /\ Now("tee", "fork") => step["tee"] = 2 /\ Arg("tee") = "grep"
           /\ Now("tee", "dup2") => \/ /\ step["tee"] = 3 /\ Arg("tee") = "fd1[0]"
                                       /\ Script("tee")[step["tee"]].to = "stdin"
                                    \/ /\ step["tee"] = 4 /\ Arg("tee") = "fd[1]"
                                       /\ Script("tee")[step["tee"]].to = "stdout"
           /\ Now("tee", "close") => step["tee"] \in {5, 6} /\ Arg("tee") \in {"fd1[0]", "fd1[1]"}
           /\ Len(Script("tee")) = 6
  <1> DEFINE k == step["tee"]
             c == Script("tee")[k]
  <1>1. k \in Nat \ {0}  BY DEF Typed, Procs
  <1>2. Script("tee") = task2_tee  BY DEF Script
  <1>3. Len(task2_tee) = 6  BY DEF task2_tee
  <1>4. /\ task2_tee[1] = pipe("fd1") /\ task2_tee[2] = fork("grep")
        /\ task2_tee[3] = dup2("fd1[0]", "stdin") /\ task2_tee[4] = dup2("fd[1]", "stdout")
        /\ task2_tee[5] = close("fd1[0]") /\ task2_tee[6] = close("fd1[1]")
    BY DEF task2_tee
  <1>5. k <= 6 => k \in {1, 2, 3, 4, 5, 6}  BY <1>1
  <1>6. ASSUME NEW x, Now("tee", x)
        PROVE  /\ c.call = x /\ c.arg = Arg("tee") /\ c.to = Script("tee")[step["tee"]].to
               /\ \/ k = 1 /\ c = pipe("fd1")
                  \/ k = 2 /\ c = fork("grep")
                  \/ k = 3 /\ c = dup2("fd1[0]", "stdin")
                  \/ k = 4 /\ c = dup2("fd[1]", "stdout")
                  \/ k = 5 /\ c = close("fd1[0]")
                  \/ k = 6 /\ c = close("fd1[1]")
    BY <1>1, <1>2, <1>3, <1>4, <1>5, <1>6 DEF Now, Arg
  <1> HIDE DEF c
  <1> DEFINE to == Script("tee")[step["tee"]].to
  <1> HIDE DEF to
  <1>7. ASSUME NEW x, Now("tee", x)
        PROVE  \/ k = 1 /\ x = "pipe" /\ Arg("tee") = "fd1"
               \/ k = 2 /\ x = "fork" /\ Arg("tee") = "grep"
               \/ k = 3 /\ x = "dup2" /\ Arg("tee") = "fd1[0]" /\ to = "stdin"
               \/ k = 4 /\ x = "dup2" /\ Arg("tee") = "fd[1]" /\ to = "stdout"
               \/ k = 5 /\ x = "close" /\ Arg("tee") = "fd1[0]"
               \/ k = 6 /\ x = "close" /\ Arg("tee") = "fd1[1]"
    BY <1>6, <1>7, Fields DEF to
  <1> QED  BY <1>2, <1>3, <1>7 DEF to

LEMMA GrepCalls ==
    ASSUME Typed
    PROVE  /\ ~Now("grep", "pipe") /\ ~Now("grep", "fork")
           /\ Now("grep", "dup2") => /\ step["grep"] = 1
                                     /\ Arg("grep") = IF task = "@" THEN "fd[1]" ELSE "fd1[1]"
                                     /\ Script("grep")[step["grep"]].to = "stdout"
           /\ Now("grep", "close") => /\ step["grep"] \in {2, 3}
                                      /\ Arg("grep") \in {"fd[0]", "fd[1]", "fd1[0]", "fd1[1]"}
           /\ Len(Script("grep")) = 3
  <1> DEFINE k == step["grep"]
             c == Script("grep")[k]
  <1>1. k \in Nat \ {0}  BY DEF Typed, Procs
  <1>2. CASE task = "@"
    <2>1. Script("grep") = task1_grep  BY <1>2 DEF Script
    <2>2. Len(task1_grep) = 3  BY DEF task1_grep
    <2>3. /\ task1_grep[1] = dup2("fd[1]", "stdout") /\ task1_grep[2] = close("fd[0]")
          /\ task1_grep[3] = close("fd[1]")
      BY DEF task1_grep
    <2>4. k <= 3 => k \in {1, 2, 3}  BY <1>1
    <2>5. ASSUME NEW x, Now("grep", x)
          PROVE  /\ c.call = x /\ c.arg = Arg("grep") /\ c.to = Script("grep")[step["grep"]].to
                 /\ \/ k = 1 /\ c = dup2("fd[1]", "stdout")
                    \/ k = 2 /\ c = close("fd[0]")
                    \/ k = 3 /\ c = close("fd[1]")
      BY <1>1, <2>1, <2>2, <2>3, <2>4, <2>5 DEF Now, Arg
    <2> HIDE DEF c
    <2> DEFINE to == Script("grep")[step["grep"]].to
    <2> HIDE DEF to
    <2>6. ASSUME NEW x, Now("grep", x)
          PROVE  \/ k = 1 /\ x = "dup2" /\ Arg("grep") = "fd[1]" /\ to = "stdout"
                 \/ k = 2 /\ x = "close" /\ Arg("grep") = "fd[0]"
                 \/ k = 3 /\ x = "close" /\ Arg("grep") = "fd[1]"
      BY <2>5, <2>6, Fields DEF to
    <2> QED  BY <1>2, <2>1, <2>2, <2>6 DEF to
  <1>3. CASE task = "$"
    <2>1. Script("grep") = task2_grep  BY <1>3 DEF Script
    <2>2. Len(task2_grep) = 3  BY DEF task2_grep
    <2>3. /\ task2_grep[1] = dup2("fd1[1]", "stdout") /\ task2_grep[2] = close("fd1[0]")
          /\ task2_grep[3] = close("fd1[1]")
      BY DEF task2_grep
    <2>4. k <= 3 => k \in {1, 2, 3}  BY <1>1
    <2>5. ASSUME NEW x, Now("grep", x)
          PROVE  /\ c.call = x /\ c.arg = Arg("grep") /\ c.to = Script("grep")[step["grep"]].to
                 /\ \/ k = 1 /\ c = dup2("fd1[1]", "stdout")
                    \/ k = 2 /\ c = close("fd1[0]")
                    \/ k = 3 /\ c = close("fd1[1]")
      BY <1>1, <2>1, <2>2, <2>3, <2>4, <2>5 DEF Now, Arg
    <2> HIDE DEF c
    <2> DEFINE to == Script("grep")[step["grep"]].to
    <2> HIDE DEF to
    <2>6. ASSUME NEW x, Now("grep", x)
          PROVE  \/ k = 1 /\ x = "dup2" /\ Arg("grep") = "fd1[1]" /\ to = "stdout"
                 \/ k = 2 /\ x = "close" /\ Arg("grep") = "fd1[0]"
                 \/ k = 3 /\ x = "close" /\ Arg("grep") = "fd1[1]"
      BY <2>5, <2>6, Fields DEF to
    <2> QED  BY <1>3, <2>1, <2>2, <2>6 DEF to
  <1> QED  BY <1>2, <1>3 DEF Typed

LEMMA NowIn ==
    ASSUME Typed, NEW p \in Procs
    PROVE  /\ Now(p, "pipe") => Arg(p) \in Pipes
           /\ Now(p, "dup2") => Arg(p) \in Descs
  BY CmdCalls, TeeCalls, GrepCalls DEF Procs, Pipes, Descs

-------------------------------------------------------------------------------
(***************************************************************************)
(* Types.                                                                   *)
(***************************************************************************)
LEMMA ExitsTyped ==
    ASSUME Typed, NEW p \in Procs, Exits(p)
    PROVE  /\ phase' \in [Procs -> {"none", "setup", "run", "pass", "note", "exit"}]
           /\ table' \in [Procs -> [Descs -> Ends]]
           /\ \A q \in Procs : phase'[q] = IF q = p THEN "exit" ELSE phase[q]
           /\ \A q \in Procs \ {p} : table'[q] = table[q]
  <1>1. [d \in Descs |-> Closed] \in [Descs -> Ends]  BY DEF Ends
  <1>2. [table EXCEPT ![p] = [d \in Descs |-> Closed]] \in [Procs -> [Descs -> Ends]]
    <2> DEFINE c == [d \in Descs |-> Closed]
    <2> HIDE DEF c
    <2>1. c \in [Descs -> Ends]  BY <1>1 DEF c
    <2>2. [table EXCEPT ![p] = c] \in [Procs -> [Descs -> Ends]]  BY <2>1 DEF Typed
    <2> QED  BY <2>2 DEF c
  <1>3. \A q \in Procs \ {p} : table'[q] = table[q]  BY DEF Exits, Typed
  <1> QED  BY <1>2, <1>3 DEF Exits, Typed

LEMMA Added ==
    ASSUME NEW b \in [Pipes -> Nat], NEW q
    PROVE  [b EXCEPT ![q] = @ + 1] \in [Pipes -> Nat]
  <1>1. CASE q \in Pipes
    <2>1. b[q] + 1 \in Nat  BY <1>1
    <2> QED  BY <2>1
  <1>2. CASE q \notin Pipes
    <2>1. [b EXCEPT ![q] = @ + 1] = b  BY <1>2
    <2> QED  BY <2>1
  <1> QED  BY <1>1, <1>2

LEMMA InitTyped == Init => Typed
  <1> SUFFICES ASSUME Init PROVE Typed  OBVIOUS
  <1>1. table \in [Procs -> [Descs -> Ends]]  BY DEF Init, Ends
  <1>2. output \in Nat  BY PipelineAssumption DEF Init
  <1>3. step \in [Procs -> Nat \ {0}] /\ buf \in [Pipes -> Nat]  BY DEF Init
  <1>4. phase \in [Procs -> {"none", "setup", "run", "pass", "note", "exit"}]  BY DEF Init
  <1> QED  BY <1>1, <1>2, <1>3, <1>4 DEF Init, Typed

LEMMA TypedStep ==
    ASSUME Typed, [Next]_vars
    PROVE  Typed'
  <1> USE DEF Typed, data
  <1>1. ASSUME NEW p \in Procs, MakePipe(p) PROVE Typed'
    <2>1. Arg(p) \in Pipes  BY <1>1, NowIn DEF MakePipe
    <2>2. R(Arg(p)) \in Ends /\ W(Arg(p)) \in Ends  BY <2>1 DEF Ends
    <2>3. table' \in [Procs -> [Descs -> Ends]]  BY <1>1, <2>2 DEF MakePipe
    <2>4. step' \in [Procs -> Nat \ {0}]  BY <1>1 DEF MakePipe, Advance
    <2> QED  BY <1>1, <2>3, <2>4 DEF MakePipe
  <1>2. ASSUME NEW p \in Procs, Fork(p) PROVE Typed'
    <2>1. table[p] \in [Descs -> Ends]  OBVIOUS
    <2>2. table' \in [Procs -> [Descs -> Ends]]  BY <1>2, <2>1 DEF Fork
    <2> QED  BY <1>2, <2>2 DEF Fork, Advance
  <1>3. ASSUME NEW p \in Procs, Dup2(p) PROVE Typed'
    <2>1. Arg(p) \in Descs  BY <1>3, NowIn DEF Dup2
    <2>2. table[p][Arg(p)] \in Ends  BY <2>1
    <2>3. table' \in [Procs -> [Descs -> Ends]]  BY <1>3, <2>2 DEF Dup2
    <2> QED  BY <1>3, <2>3 DEF Dup2, Advance
  <1>4. ASSUME NEW p \in Procs, Close(p) PROVE Typed'
    <2>1. Closed \in Ends  BY DEF Ends
    <2>2. table' \in [Procs -> [Descs -> Ends]]  BY <1>4, <2>1 DEF Close
    <2> QED  BY <1>4, <2>2 DEF Close, Advance
  <1>5. ASSUME NEW p \in Procs, PipeOrForkFails(p) \/ ExecFails(p) \/ BrokenPipe(p) PROVE Typed'
    <2>1. Exits(p)  BY <1>5 DEF PipeOrForkFails, ExecFails, BrokenPipe
    <2> QED  BY <1>5, <2>1, ExitsTyped DEF PipeOrForkFails, ExecFails, BrokenPipe
  <1>6. ASSUME NEW p \in Procs, Exec(p) PROVE Typed'  BY <1>6 DEF Exec
  <1>7. CASE TeeOpen  BY <1>7 DEF TeeOpen, Procs
  <1>8. CASE TeeRead  BY <1>8 DEF TeeRead, HasData, Procs
  <1>9. CASE TeePass  
    <2>1. buf' = [buf EXCEPT ![Out("tee")] = @ + 1]  BY <1>9 DEF TeePass
    <2>2. buf' \in [Pipes -> Nat]  BY <2>1, Added
    <2> QED  BY <1>9, <2>2 DEF TeePass, Procs
  <1>10. CASE TeeNote  BY <1>10 DEF TeeNote, Procs
  <1>11. CASE TeeEnd \/ GrepEnd \/ CmdEnd \/ CmdLeaves
    <2>1. PICK p \in Procs : Exits(p)  BY <1>11 DEF TeeEnd, GrepEnd, CmdEnd, CmdLeaves, Procs
    <2> QED  BY <1>11, <2>1, ExitsTyped DEF TeeEnd, GrepEnd, CmdEnd, CmdLeaves
  <1>12. CASE GrepWrite  
    <2>1. buf' = [buf EXCEPT ![Out("grep")] = @ + 1]  BY <1>12 DEF GrepWrite
    <2>2. buf' \in [Pipes -> Nat]  BY <2>1, Added
    <2> QED  BY <1>12, <2>2 DEF GrepWrite
  <1>13. CASE CmdRead  BY <1>13 DEF CmdRead, HasData
  <1>14. CASE UNCHANGED vars  BY <1>14 DEF vars
  <1> QED
    BY <1>1, <1>2, <1>3, <1>4, <1>5, <1>6, <1>7, <1>8, <1>9, <1>10, <1>11, <1>12, <1>13, <1>14
    DEF Next, Call, tee, grep, cmd, Idle, Stuck

-------------------------------------------------------------------------------
(***************************************************************************)
(* The calls before the programs run: only descriptors move.                *)
(***************************************************************************)
LEMMA QuietStep ==
    ASSUME Typed, Sound, UNCHANGED <<task, output, phase, data>>
    PROVE  Counts' /\ InOrder'
  BY DEF Sound, Counts, InOrder, Passed, data

LEMMA Steps ==
    ASSUME Typed, NEW p \in Procs, Advance(p)
    PROVE  \A q \in Procs : step'[q] = IF q = p THEN step[q] + 1 ELSE step[q]
  BY DEF Typed, Advance

LEMMA MakePipeStep ==
    ASSUME Typed, Sound, NEW p \in Procs, MakePipe(p)
    PROVE  Sound'
  <1>1. Counts' /\ InOrder'  BY QuietStep DEF MakePipe
  <1>2. \A q \in Procs : step'[q] = IF q = p THEN step[q] + 1 ELSE step[q]
    BY Steps DEF MakePipe
  <1>3. \A q \in Procs \ {p} : table'[q] = table[q]  BY DEF MakePipe, Typed
  <1>4. p \in {"cmd", "tee"}  BY GrepCalls DEF MakePipe, Procs
  <1>5. step[p] = 1 /\ Arg(p) = IF p = "cmd" THEN "fd" ELSE "fd1"
    BY <1>4, CmdCalls, TeeCalls DEF MakePipe
  <1>6. phase' = phase /\ task' = task /\ phase[p] = "setup"  BY DEF MakePipe, Now
  <1>7. step \in [Procs -> Nat \ {0}]  BY DEF Typed
  <1>8. Forked'  BY <1>2, <1>4, <1>5, <1>6, <1>7 DEF Sound, Forked, Procs
  <1>9. Has'
    <2>1. CASE p = "cmd"
      <3>1. /\ table'["cmd"]["fd[0]"] = R("fd") /\ table'["cmd"]["fd[1]"] = W("fd")
        BY <1>5, <2>1 DEF MakePipe, Typed, Procs, Descs
      <3>2. CmdHas(table'["cmd"], step'["cmd"])  BY <1>2, <1>5, <2>1, <3>1 DEF CmdHas, Procs
      <3> QED  BY <1>2, <1>3, <1>6, <2>1, <3>2 DEF Has, Sound, Alive, Procs, GrepHas
    <2>2. CASE p = "tee"
      <3>1. /\ table'["tee"]["fd1[0]"] = R("fd1") /\ table'["tee"]["fd1[1]"] = W("fd1")
            /\ table'["tee"]["fd[0]"] = table["tee"]["fd[0]"] /\ table'["tee"]["fd[1]"] = table["tee"]["fd[1]"]
        BY <1>5, <2>2 DEF MakePipe, Typed, Procs, Descs
      <3>2. TeeHas(table["tee"], step["tee"])  BY <1>6, <2>2 DEF Sound, Has, Alive
      <3>3. TeeHas(table'["tee"], step'["tee"])
        BY <1>2, <1>5, <2>2, <3>1, <3>2 DEF TeeHas, Procs
      <3> QED  BY <1>2, <1>3, <1>6, <2>2, <3>3 DEF Has, Sound, Alive, Procs, GrepHas
    <2> QED  BY <1>4, <2>1, <2>2
  <1> QED  BY <1>1, <1>8, <1>9 DEF Sound

LEMMA ForkStep ==
    ASSUME Typed, Sound, NEW p \in Procs, Fork(p)
    PROVE  Sound'
  <1>2. \A q \in Procs : step'[q] = IF q = p THEN step[q] + 1 ELSE step[q]
    BY Steps DEF Fork
  <1>3. p \in {"cmd", "tee"}  BY GrepCalls DEF Fork, Procs
  <1>4. step[p] = 2 /\ Arg(p) = IF p = "cmd" /\ task = "$" THEN "tee" ELSE "grep"
    BY <1>3, CmdCalls, TeeCalls DEF Fork, Typed
  <1>5. /\ task' = task /\ phase[p] = "setup" /\ Arg(p) \in Procs /\ Arg(p) # p
        /\ \A q \in Procs : phase'[q] = IF q = Arg(p) THEN "setup" ELSE phase[q]
        /\ \A q \in Procs : table'[q] = IF q = Arg(p) THEN table[p] ELSE table[q]
    BY <1>3, <1>4 DEF Fork, Now, Typed, Procs
  <1>6. phase[Arg(p)] = "none" /\ step[Arg(p)] = 1
    BY <1>3, <1>4, <1>5 DEF Sound, Forked, Typed, Procs
  <1>7. p = "tee" => task = "$"  BY <1>5 DEF Sound, Forked, Typed
  <1>8. step \in [Procs -> Nat \ {0}]  BY DEF Typed
  <1>9. Forked'
    BY <1>2, <1>3, <1>4, <1>5, <1>6, <1>7, <1>8 DEF Sound, Forked, Procs
  <1>10. Has'
    <2>1. CmdHas(table'["cmd"], step'["cmd"]) \/ ~Alive("cmd")'
      BY <1>2, <1>3, <1>4, <1>5, <1>8 DEF Sound, Has, Alive, CmdHas, Procs
    <2>2. TeeHas(table'["tee"], step'["tee"]) \/ ~Alive("tee")'
      BY <1>2, <1>3, <1>4, <1>5, <1>6, <1>8 DEF Sound, Has, Alive, CmdHas, TeeHas, Procs
    <2>3. GrepHas(table["grep"], step["grep"])' \/ ~Alive("grep")'
      <3>1. CASE p = "cmd" /\ task = "$"
        BY <1>2, <1>4, <1>5, <3>1 DEF Sound, Has, Alive, GrepHas, Procs
      <3>2. CASE p = "cmd" /\ task # "$"
        <4>1. task = "@"  BY <3>2 DEF Typed
        <4>2. step'["grep"] = 1 /\ table'["grep"] = table["cmd"]
          BY <1>2, <1>4, <1>5, <1>6, <3>2 DEF Procs
        <4>3. table["cmd"]["fd[1]"] = W("fd")
          BY <1>4, <1>5, <3>2 DEF Sound, Has, Alive, CmdHas
        <4> QED  BY <1>5, <4>1, <4>2, <4>3 DEF GrepHas
      <3>3. CASE p = "tee"
        <4>1. task = "$"  BY <1>7, <3>3
        <4>2. step'["grep"] = 1 /\ table'["grep"] = table["tee"]
          BY <1>2, <1>4, <1>5, <1>6, <3>3 DEF Procs
        <4>3. table["tee"]["fd1[1]"] = W("fd1")
          BY <1>4, <1>5, <3>3 DEF Sound, Has, Alive, TeeHas
        <4> QED  BY <1>5, <4>1, <4>2, <4>3 DEF GrepHas
      <3> QED  BY <1>3, <3>1, <3>2, <3>3
    <2> QED  BY <2>1, <2>2, <2>3 DEF Has
  <1>11. Counts' /\ InOrder'
    <2>1. UNCHANGED <<task, output, buf, out, got, fptr, file>>  BY DEF Fork, data
    <2>2. /\ \A x \in {"pass", "note", "exit"}, q \in Procs : phase'[q] = x <=> phase[q] = x
          /\ \A q \in Procs : phase'[q] \in {"none", "setup"} <=> phase[q] \in {"none", "setup"}
      BY <1>5, <1>6
    <2> QED  BY <2>1, <2>2 DEF Sound, Counts, InOrder, Passed, Procs
  <1> QED  BY <1>9, <1>10, <1>11 DEF Sound

LEMMA Dup2Step ==
    ASSUME Typed, Sound, NEW p \in Procs, Dup2(p)
    PROVE  Sound'
  <1>1. Counts' /\ InOrder'  BY QuietStep DEF Dup2
  <1>2. \A q \in Procs : step'[q] = IF q = p THEN step[q] + 1 ELSE step[q]
    BY Steps DEF Dup2
  <1>3. \A q \in Procs \ {p} : table'[q] = table[q]  BY DEF Dup2, Typed
  <1>4. phase' = phase /\ task' = task /\ phase[p] = "setup"  BY DEF Dup2, Now
  <1>5. step \in [Procs -> Nat \ {0}]  BY DEF Typed
  <1>6. CASE p = "cmd"
    <2>1. step["cmd"] = 3 /\ Arg("cmd") = "fd[0]" /\ Script("cmd")[step["cmd"]].to = "stdin"
      BY <1>6, CmdCalls DEF Dup2
    <2>2. table'["cmd"]["stdin"] = table["cmd"]["fd[0]"]
      BY <1>6, <2>1 DEF Dup2, Typed, Procs, Descs
    <2>3. CmdHas(table["cmd"], step["cmd"])  BY <1>4, <1>6 DEF Sound, Has, Alive
    <2>4. CmdHas(table'["cmd"], step'["cmd"])  BY <1>2, <1>6, <2>1, <2>2, <2>3 DEF CmdHas, Procs
    <2>5. Has'  BY <1>2, <1>3, <1>4, <1>6, <2>4 DEF Has, Sound, Alive, Procs, GrepHas
    <2>6. Forked'  BY <1>2, <1>4, <1>5, <1>6, <2>1 DEF Sound, Forked, Procs
    <2> QED  BY <1>1, <2>5, <2>6 DEF Sound
  <1>7. CASE p = "tee"
    <2>0. TeeHas(table["tee"], step["tee"])  BY <1>4, <1>7 DEF Sound, Has, Alive
    <2>1. CASE /\ step["tee"] = 3 /\ Arg("tee") = "fd1[0]"
               /\ Script("tee")[step["tee"]].to = "stdin"
      <3>1. /\ table'["tee"]["stdin"] = table["tee"]["fd1[0]"]
            /\ \A d \in Descs \ {"stdin"} : table'["tee"][d] = table["tee"][d]
        BY <1>7, <2>1 DEF Dup2, Typed, Procs, Descs
      <3>2. TeeHas(table'["tee"], step'["tee"])
        BY <1>2, <1>7, <2>0, <2>1, <3>1 DEF TeeHas, Procs, Descs
      <3>3. Has'  BY <1>2, <1>3, <1>4, <1>7, <3>2 DEF Has, Sound, Alive, Procs, GrepHas
      <3>4. Forked'  BY <1>2, <1>4, <1>5, <1>7, <2>1 DEF Sound, Forked, Procs
      <3> QED  BY <1>1, <3>3, <3>4 DEF Sound
    <2>2. CASE /\ step["tee"] = 4 /\ Arg("tee") = "fd[1]"
               /\ Script("tee")[step["tee"]].to = "stdout"
      <3>1. /\ table'["tee"]["stdout"] = table["tee"]["fd[1]"]
            /\ \A d \in Descs \ {"stdout"} : table'["tee"][d] = table["tee"][d]
        BY <1>7, <2>2 DEF Dup2, Typed, Procs, Descs
      <3>2. TeeHas(table'["tee"], step'["tee"])
        BY <1>2, <1>7, <2>0, <2>2, <3>1 DEF TeeHas, Procs, Descs
      <3>3. Has'  BY <1>2, <1>3, <1>4, <1>7, <3>2 DEF Has, Sound, Alive, Procs, GrepHas
      <3>4. Forked'  BY <1>2, <1>4, <1>5, <1>7, <2>2 DEF Sound, Forked, Procs
      <3> QED  BY <1>1, <3>3, <3>4 DEF Sound
    <2> QED  BY <1>7, <2>1, <2>2, TeeCalls DEF Dup2
  <1>8. CASE p = "grep"
    <2>1. /\ step["grep"] = 1 /\ Arg("grep") = IF task = "@" THEN "fd[1]" ELSE "fd1[1]"
          /\ Script("grep")[step["grep"]].to = "stdout"
      BY <1>8, GrepCalls DEF Dup2
    <2>2. table'["grep"]["stdout"] = table["grep"][Arg("grep")]
      BY <1>8, <2>1 DEF Dup2, Typed, Procs, Descs
    <2>3. GrepHas(table["grep"], step["grep"])  BY <1>4, <1>8 DEF Sound, Has, Alive
    <2>4. GrepHas(table["grep"], step["grep"])'
      BY <1>2, <1>4, <1>8, <2>1, <2>2, <2>3 DEF GrepHas, Procs
    <2>5. Has'  BY <1>2, <1>3, <1>4, <1>8, <2>4 DEF Has, Sound, Alive, Procs
    <2>6. Forked'  BY <1>2, <1>4, <1>5, <1>8, <2>1 DEF Sound, Forked, Procs
    <2> QED  BY <1>1, <2>5, <2>6 DEF Sound
  <1> QED  BY <1>6, <1>7, <1>8 DEF Procs

LEMMA CloseStep ==
    ASSUME Typed, Sound, NEW p \in Procs, Close(p)
    PROVE  Sound'
  <1>1. Counts' /\ InOrder'  BY QuietStep DEF Close
  <1>2. \A q \in Procs : step'[q] = IF q = p THEN step[q] + 1 ELSE step[q]
    BY Steps DEF Close
  <1>3. \A q \in Procs \ {p} : table'[q] = table[q]  BY DEF Close, Typed
  <1>4. phase' = phase /\ task' = task /\ phase[p] = "setup"  BY DEF Close, Now
  <1>5. step \in [Procs -> Nat \ {0}]  BY DEF Typed
  <1>6. \A d \in Descs \ {Arg(p)} : table'[p][d] = table[p][d]  BY DEF Close, Typed
  <1>7. CASE p = "cmd"
    <2>1. step["cmd"] \in {4, 5} /\ Arg("cmd") \in {"fd[0]", "fd[1]"}  BY <1>7, CmdCalls DEF Close
    <2>2. CmdHas(table["cmd"], step["cmd"])  BY <1>4, <1>7 DEF Sound, Has, Alive
    <2>3. CmdHas(table'["cmd"], step'["cmd"])
      BY <1>2, <1>6, <1>7, <2>1, <2>2 DEF CmdHas, Procs, Descs
    <2>4. Has'  BY <1>2, <1>3, <1>4, <1>7, <2>3 DEF Has, Sound, Alive, Procs, GrepHas
    <2>5. Forked'  BY <1>2, <1>4, <1>5, <1>7, <2>1 DEF Sound, Forked, Procs
    <2> QED  BY <1>1, <2>4, <2>5 DEF Sound
  <1>8. CASE p = "tee"
    <2>1. step["tee"] \in {5, 6} /\ Arg("tee") \in {"fd1[0]", "fd1[1]"}  BY <1>8, TeeCalls DEF Close
    <2>2. TeeHas(table["tee"], step["tee"])  BY <1>4, <1>8 DEF Sound, Has, Alive
    <2>3. TeeHas(table'["tee"], step'["tee"])
      BY <1>2, <1>6, <1>8, <2>1, <2>2 DEF TeeHas, Procs, Descs
    <2>4. Has'  BY <1>2, <1>3, <1>4, <1>8, <2>3 DEF Has, Sound, Alive, Procs, GrepHas
    <2>5. Forked'  BY <1>2, <1>4, <1>5, <1>8, <2>1 DEF Sound, Forked, Procs
    <2> QED  BY <1>1, <2>4, <2>5 DEF Sound
  <1>9. CASE p = "grep"
    <2>1. /\ step["grep"] \in {2, 3}
          /\ Arg("grep") \in {"fd[0]", "fd[1]", "fd1[0]", "fd1[1]"}
      BY <1>9, GrepCalls DEF Close
    <2>2. GrepHas(table["grep"], step["grep"])  BY <1>4, <1>9 DEF Sound, Has, Alive
    <2>3. GrepHas(table["grep"], step["grep"])'
      BY <1>2, <1>4, <1>6, <1>9, <2>1, <2>2 DEF GrepHas, Procs, Descs
    <2>4. Has'  BY <1>2, <1>3, <1>4, <1>9, <2>3 DEF Has, Sound, Alive, Procs
    <2>5. Forked'  BY <1>2, <1>4, <1>5, <1>9, <2>1 DEF Sound, Forked, Procs
    <2> QED  BY <1>1, <2>4, <2>5 DEF Sound
  <1> QED  BY <1>7, <1>8, <1>9 DEF Procs

(* The program replaces the shell's child, with the descriptors it has. *)
LEMMA StartStep ==
    ASSUME Typed, Sound, TeeOpen \/ \E p \in Procs : Exec(p)
    PROVE  Sound'
  <1>1. PICK p \in Procs : /\ SetUp(p) /\ phase' = [phase EXCEPT ![p] = "run"]
                           /\ p # "tee" => fptr' = fptr
    BY DEF TeeOpen, Exec, Procs, data
  <1>2. UNCHANGED <<task, output, step, table, buf, out, got, file>>
    BY DEF TeeOpen, Exec, data
  <1>3. /\ phase[p] = "setup"
        /\ p = "cmd" => step["cmd"] = 6
        /\ p = "tee" => step["tee"] = 7
        /\ p = "grep" => step["grep"] = 4
    <2>0. /\ step["cmd"] \in Nat /\ step["cmd"] <= 6
          /\ step["tee"] \in Nat /\ step["tee"] <= 7
          /\ step["grep"] \in Nat /\ step["grep"] <= 4
      BY DEF Typed, Procs, Sound, Forked
    <2>1. p = "cmd" => step["cmd"] = 6
      <3>1. p = "cmd" => step["cmd"] > Len(Script("cmd"))  BY <1>1 DEF SetUp
      <3>2. Len(Script("cmd")) = 5  BY CmdCalls
      <3>3. p = "cmd" => step["cmd"] > 5  BY ONLY <3>1, <3>2
      <3> QED  BY ONLY <2>0, <3>3
    <2>2. p = "tee" => step["tee"] = 7
      <3>1. p = "tee" => step["tee"] > Len(Script("tee"))  BY <1>1 DEF SetUp
      <3>2. Len(Script("tee")) = 6  BY TeeCalls
      <3>3. p = "tee" => step["tee"] > 6  BY ONLY <3>1, <3>2
      <3> QED  BY ONLY <2>0, <3>3
    <2>3. p = "grep" => step["grep"] = 4
      <3>1. p = "grep" => step["grep"] > Len(Script("grep"))  BY <1>1 DEF SetUp
      <3>2. Len(Script("grep")) = 3  BY GrepCalls
      <3>3. p = "grep" => step["grep"] > 3  BY ONLY <3>1, <3>2
      <3> QED  BY ONLY <2>0, <3>3
    <2> QED  BY <1>1, <2>1, <2>2, <2>3 DEF SetUp
  <1>4. \A q \in Procs : phase'[q] = IF q = p THEN "run" ELSE phase[q]  BY <1>1 DEF Typed
  <1>5. Forked'  BY <1>2, <1>3, <1>4 DEF Sound, Forked, Procs
  <1>6. Has'  BY <1>2, <1>3, <1>4 DEF Sound, Has, Alive, Procs, GrepHas
  <1>7. Counts'
    <2>1. p = "tee" => (Passed = 0 /\ file = 0) \/ task = "@"
      BY <1>3 DEF Sound, Counts, Typed
    <2>2. p # "tee" => fptr' = fptr /\ phase'["tee"] = phase["tee"]
      BY <1>1, <1>4 DEF Procs
    <2> QED  BY <1>2, <1>3, <1>4, <2>1, <2>2 DEF Sound, Counts, Passed, Procs, Typed
  <1>8. InOrder'  BY <1>2, <1>3, <1>4 DEF Sound, InOrder, Procs
  <1> QED  BY <1>5, <1>6, <1>7, <1>8 DEF Sound

-------------------------------------------------------------------------------
(***************************************************************************)
(* Which pipe each program has, and who still holds the other end.          *)
(***************************************************************************)
GrepsPipe == IF task = "@" THEN "fd" ELSE "fd1"

LEMMA PipesAre ==
    ASSUME Typed, Sound
    PROVE  /\ phase["cmd"] = "run" => In("cmd") = "fd"
           /\ phase["tee"] \in {"run", "pass", "note"} => In("tee") = "fd1" /\ Out("tee") = "fd"
           /\ phase["grep"] = "run" => Out("grep") = GrepsPipe
           /\ Alive("tee") => IsOpen(R("fd")) /\ IsOpen(W("fd"))
           /\ Alive("grep") => IsOpen(W(GrepsPipe))
           /\ task = "$" /\ phase["grep"] # "none" /\ Alive("tee") => IsOpen(R("fd1"))
           /\ task = "@" /\ phase["grep"] # "none" /\ Alive("cmd") => IsOpen(R("fd"))
  <1>0. step["tee"] \in Nat \ {0} /\ step["grep"] \in Nat \ {0} /\ step["cmd"] \in Nat \ {0}
    BY DEF Typed, Procs
  <1>1. phase["cmd"] = "run" => In("cmd") = "fd"
    <2> SUFFICES ASSUME phase["cmd"] = "run" PROVE In("cmd") = "fd"  OBVIOUS
    <2>1. table["cmd"]["stdin"] = R("fd")
      BY DEF Sound, Forked, Has, Alive, CmdHas
    <2> QED  BY <2>1 DEF In, R
  <1>2. phase["tee"] \in {"run", "pass", "note"} => In("tee") = "fd1" /\ Out("tee") = "fd"
    <2> SUFFICES ASSUME phase["tee"] \in {"run", "pass", "note"}
                 PROVE  In("tee") = "fd1" /\ Out("tee") = "fd"
      OBVIOUS
    <2>1. step["tee"] = 7  BY DEF Sound, Forked, Typed
    <2>2. table["tee"]["stdin"] = R("fd1") /\ table["tee"]["stdout"] = W("fd")
      BY <2>1 DEF Sound, Has, Alive, TeeHas
    <2> QED  BY <2>2 DEF In, Out, R, W
  <1>3. phase["grep"] = "run" => Out("grep") = GrepsPipe
    <2> SUFFICES ASSUME phase["grep"] = "run" PROVE Out("grep") = GrepsPipe  OBVIOUS
    <2>1. table["grep"]["stdout"] = W(GrepsPipe)
      BY DEF Sound, Forked, Has, Alive, GrepHas, GrepsPipe
    <2> QED  BY <2>1 DEF Out, W
  <1>4. Alive("tee") => IsOpen(R("fd")) /\ IsOpen(W("fd"))
    BY DEF Sound, Has, TeeHas, IsOpen, Procs, Descs
  <1>5. Alive("grep") => IsOpen(W(GrepsPipe))
    <2> SUFFICES ASSUME Alive("grep") PROVE IsOpen(W(GrepsPipe))  OBVIOUS
    <2>1. GrepHas(table["grep"], step["grep"])  BY DEF Sound, Has
    <2>2. \E d \in Descs : table["grep"][d] = W(GrepsPipe)
      BY <1>0, <2>1 DEF GrepHas, GrepsPipe, Descs
    <2> QED  BY <2>2 DEF IsOpen, Procs
  <1>6. task = "$" /\ phase["grep"] # "none" /\ Alive("tee") => IsOpen(R("fd1"))
    <2> SUFFICES ASSUME task = "$", phase["grep"] # "none", Alive("tee") PROVE IsOpen(R("fd1"))
      OBVIOUS
    <2>1. step["tee"] >= 3  BY <1>0 DEF Sound, Forked
    <2>2. \E d \in Descs : table["tee"][d] = R("fd1")
      BY <1>0, <2>1 DEF Sound, Has, TeeHas, Descs
    <2> QED  BY <2>2 DEF IsOpen, Procs
  <1>7. task = "@" /\ phase["grep"] # "none" /\ Alive("cmd") => IsOpen(R("fd"))
    <2> SUFFICES ASSUME task = "@", phase["grep"] # "none", Alive("cmd") PROVE IsOpen(R("fd"))
      OBVIOUS
    <2>1. step["cmd"] >= 3  BY <1>0 DEF Sound, Forked
    <2>2. \E d \in Descs : table["cmd"][d] = R("fd")
      BY <1>0, <2>1 DEF Sound, Has, CmdHas, Descs
    <2> QED  BY <2>2 DEF IsOpen, Procs
  <1> QED  BY <1>1, <1>2, <1>3, <1>4, <1>5, <1>6, <1>7

(* A write to a pipe nobody reads cannot happen while all goes well. *)
LEMMA NoBrokenPipe ==
    ASSUME Typed, Sound, NEW p \in Procs, BrokenPipe(p)
    PROVE  FALSE
  <1>1. CASE p = "tee"
    BY <1>1, PipesAre DEF BrokenPipe, Alive
  <1>2. CASE p = "grep"
    <2>1. phase["grep"] = "run" /\ out < output /\ ~IsOpen(R(GrepsPipe))
      BY <1>2, PipesAre DEF BrokenPipe
    <2>2. CASE task = "@"
      <3>1. ~Alive("cmd")  BY <2>1, <2>2, PipesAre DEF GrepsPipe
      <3> QED  BY <2>1, <2>2, <3>1 DEF Sound, Forked, InOrder, Alive
    <2>3. CASE task = "$"
      <3>1. ~Alive("tee")  BY <2>1, <2>3, PipesAre DEF GrepsPipe
      <3>2. phase["tee"] = "none"  BY <2>1, <2>3, <3>1 DEF Sound, InOrder, Alive
      <3>3. step["tee"] = 1  BY <3>2 DEF Sound, Forked, Procs
      <3> QED  BY <2>1, <2>3, <3>3 DEF Sound, Forked
    <2> QED  BY <2>2, <2>3 DEF Typed
  <1> QED  BY <1>1, <1>2 DEF BrokenPipe

-------------------------------------------------------------------------------
(***************************************************************************)
(* The programs at work.                                                    *)
(***************************************************************************)
LEMMA TeeStep ==
    ASSUME Typed, Sound, TeeRead \/ TeePass \/ TeeNote \/ TeeEnd
    PROVE  Sound'
  <1>0. /\ phase["tee"] \in {"run", "pass", "note"} /\ task = "$" /\ step["tee"] = 7
        /\ In("tee") = "fd1" /\ Out("tee") = "fd"
    <2>1. phase["tee"] \in {"run", "pass", "note"}  BY DEF TeeRead, TeePass, TeeNote, TeeEnd
    <2> QED  BY <2>1, PipesAre DEF Sound, Forked, Typed
  <1>1. UNCHANGED <<task, output, step, out, got, fptr>>
    BY DEF TeeRead, TeePass, TeeNote, TeeEnd, data
  <1>2. /\ buf["fd"] \in Nat /\ buf["fd1"] \in Nat /\ got \in Nat /\ file \in Nat
    BY DEF Typed, Pipes
  <1>3. CASE TeeRead
    <2>1. buf["fd1"] > 0 /\ buf'["fd1"] = buf["fd1"] - 1 /\ buf'["fd"] = buf["fd"]
      BY <1>0, <1>3 DEF TeeRead, HasData, Typed, Pipes
    <2>2. /\ phase["tee"] = "run" /\ phase'["tee"] = "pass" /\ table' = table /\ file' = file
          /\ phase'["cmd"] = phase["cmd"] /\ phase'["grep"] = phase["grep"]
      BY <1>3 DEF TeeRead, Typed, Procs
    <2>3. Forked'  BY <1>0, <1>1, <2>2 DEF Sound, Forked, Procs
    <2>4. Has'  BY <1>1, <2>2 DEF Sound, Has, Alive, GrepHas
    <2>5. Counts'  BY <1>0, <1>1, <1>2, <2>1, <2>2 DEF Sound, Counts, Passed
    <2>6. InOrder'
      BY <1>0, <1>1, <1>2, <2>1, <2>2 DEF Sound, InOrder
    <2> QED  BY <2>3, <2>4, <2>5, <2>6 DEF Sound
  <1>4. CASE TeePass
    <2>1. buf'["fd1"] = buf["fd1"] /\ buf'["fd"] = buf["fd"] + 1
      BY <1>0, <1>4 DEF TeePass, Typed, Pipes
    <2>2. /\ phase["tee"] = "pass" /\ phase'["tee"] = "note" /\ table' = table /\ file' = file
          /\ phase'["cmd"] = phase["cmd"] /\ phase'["grep"] = phase["grep"]
      BY <1>4 DEF TeePass, Typed, Procs
    <2>3. Forked'  BY <1>0, <1>1, <2>2 DEF Sound, Forked, Procs
    <2>4. Has'  BY <1>1, <2>2 DEF Sound, Has, Alive, GrepHas
    <2>5. Counts'  BY <1>0, <1>1, <1>2, <2>1, <2>2 DEF Sound, Counts, Passed
    <2>6. InOrder'
      BY <1>0, <1>1, <1>2, <2>1, <2>2 DEF Sound, InOrder
    <2> QED  BY <2>3, <2>4, <2>5, <2>6 DEF Sound
  <1>5. CASE TeeNote
    <2>1. buf' = buf /\ file' = IF fptr THEN file + 1 ELSE file
      BY <1>5 DEF TeeNote
    <2>2. /\ phase["tee"] = "note" /\ phase'["tee"] = "run" /\ table' = table
          /\ phase'["cmd"] = phase["cmd"] /\ phase'["grep"] = phase["grep"]
      BY <1>5 DEF TeeNote, Typed, Procs
    <2>3. Forked'  BY <1>0, <1>1, <2>2 DEF Sound, Forked, Procs
    <2>4. Has'  BY <1>1, <2>2 DEF Sound, Has, Alive, GrepHas
    <2>5. Counts'  BY <1>0, <1>1, <1>2, <2>1, <2>2 DEF Sound, Counts, Passed
    <2>6. InOrder'
      BY <1>0, <1>1, <1>2, <2>1, <2>2 DEF Sound, InOrder
    <2> QED  BY <2>3, <2>4, <2>5, <2>6 DEF Sound
  <1>6. CASE TeeEnd
    <2>1. phase["tee"] = "run" /\ buf["fd1"] = 0 /\ ~IsOpen(W("fd1"))
      BY <1>0, <1>6 DEF TeeEnd, EndOfFile
    <2>2. phase["grep"] = "exit"
      <3>1. ~Alive("grep")  BY <1>0, <2>1, PipesAre DEF GrepsPipe
      <3>2. phase["grep"] # "none"  BY <1>0 DEF Sound, Forked
      <3> QED  BY <3>1, <3>2 DEF Alive
    <2>3. Exits("tee") /\ buf' = buf /\ file' = file  BY <1>6 DEF TeeEnd, data
    <2>4. /\ phase'["tee"] = "exit" /\ phase'["cmd"] = phase["cmd"] /\ phase'["grep"] = phase["grep"]
          /\ table'["cmd"] = table["cmd"] /\ table'["grep"] = table["grep"]
      BY <2>3, ExitsTyped DEF Procs
    <2>5. Forked'  BY <1>0, <1>1, <2>4 DEF Sound, Forked, Procs
    <2>6. Has'  BY <1>1, <2>4 DEF Sound, Has, Alive, GrepHas
    <2>7. Counts'  BY <1>0, <1>1, <1>2, <2>1, <2>3, <2>4 DEF Sound, Counts, Passed
    <2>8. InOrder'  BY <1>0, <1>1, <2>1, <2>2, <2>3, <2>4 DEF Sound, InOrder
    <2> QED  BY <2>5, <2>6, <2>7, <2>8 DEF Sound
  <1> QED  BY <1>3, <1>4, <1>5, <1>6

LEMMA GrepStep ==
    ASSUME Typed, Sound, GrepWrite \/ GrepEnd
    PROVE  Sound'
  <1>0. phase["grep"] = "run" /\ step["grep"] = 4 /\ Out("grep") = GrepsPipe
    <2>1. phase["grep"] = "run"  BY DEF GrepWrite, GrepEnd
    <2> QED  BY <2>1, PipesAre DEF Sound, Forked
  <1>1. UNCHANGED <<task, output, step, got, fptr, file>>  BY DEF GrepWrite, GrepEnd, data
  <1>2. /\ buf["fd"] \in Nat /\ buf["fd1"] \in Nat /\ got \in Nat /\ out \in Nat /\ output \in Nat
        /\ task \in {"@", "$"}
    BY DEF Typed, Pipes
  <1>3. CASE GrepWrite
    <2>1. /\ buf'[GrepsPipe] = buf[GrepsPipe] + 1
          /\ \A q \in Pipes \ {GrepsPipe} : buf'[q] = buf[q]
      BY <1>0, <1>3 DEF GrepWrite, Typed, Pipes, GrepsPipe
    <2>2. phase' = phase /\ table' = table /\ out' = out + 1 /\ out < output  BY <1>3 DEF GrepWrite
    <2>3. Forked'  BY <1>1, <2>2 DEF Sound, Forked
    <2>4. Has'  BY <1>1, <2>2 DEF Sound, Has, Alive, GrepHas
    <2>5. Counts'
      BY <1>1, <1>2, <2>1, <2>2 DEF Sound, Counts, Passed, GrepsPipe, Pipes
    <2>6. InOrder'  BY <1>0, <1>1, <2>2 DEF Sound, InOrder
    <2> QED  BY <2>3, <2>4, <2>5, <2>6 DEF Sound
  <1>4. CASE GrepEnd
    <2>1. out = output /\ Exits("grep") /\ buf' = buf /\ out' = out  BY <1>4 DEF GrepEnd, data
    <2>2. /\ phase'["grep"] = "exit" /\ phase'["cmd"] = phase["cmd"] /\ phase'["tee"] = phase["tee"]
          /\ table'["cmd"] = table["cmd"] /\ table'["tee"] = table["tee"]
      BY <2>1, ExitsTyped DEF Procs
    <2>3. Forked'  BY <1>0, <1>1, <2>2 DEF Sound, Forked, Procs
    <2>4. Has'  BY <1>1, <2>2 DEF Sound, Has, Alive
    <2>5. Counts'  BY <1>1, <2>1, <2>2 DEF Sound, Counts, Passed
    <2>6. InOrder'  BY <1>0, <1>1, <2>1, <2>2 DEF Sound, InOrder
    <2> QED  BY <2>3, <2>4, <2>5, <2>6 DEF Sound
  <1> QED  BY <1>3, <1>4

LEMMA CmdStep ==
    ASSUME Typed, Sound, CmdRead \/ CmdEnd
    PROVE  Sound'
  <1>0. phase["cmd"] = "run" /\ step["cmd"] = 6 /\ In("cmd") = "fd"
    <2>1. phase["cmd"] = "run"  BY DEF CmdRead, CmdEnd
    <2> QED  BY <2>1, PipesAre DEF Sound, Forked
  <1>1. UNCHANGED <<task, output, step, out, fptr, file>>  BY DEF CmdRead, CmdEnd, data
  <1>2. /\ buf["fd"] \in Nat /\ buf["fd1"] \in Nat /\ got \in Nat /\ out \in Nat
        /\ task \in {"@", "$"}
    BY DEF Typed, Pipes
  <1>3. CASE CmdRead
    <2>1. buf["fd"] > 0 /\ buf'["fd"] = buf["fd"] - 1 /\ buf'["fd1"] = buf["fd1"]
      BY <1>0, <1>3 DEF CmdRead, HasData, Typed, Pipes
    <2>2. phase' = phase /\ table' = table /\ got' = got + 1  BY <1>3 DEF CmdRead
    <2>3. Forked'  BY <1>1, <2>2 DEF Sound, Forked
    <2>4. Has'  BY <1>1, <2>2 DEF Sound, Has, Alive, GrepHas
    <2>5. Counts'
      <3>1. Passed' = Passed  BY <1>2, <2>1, <2>2 DEF Passed
      <3> QED  BY <1>1, <2>1, <2>2, <3>1 DEF Sound, Counts
    <2>6. InOrder'  BY <1>0, <1>1, <2>1, <2>2 DEF Sound, InOrder
    <2> QED  BY <2>3, <2>4, <2>5, <2>6 DEF Sound
  <1>4. CASE CmdEnd
    <2>1. buf["fd"] = 0 /\ ~IsOpen(W("fd")) /\ Exits("cmd") /\ buf' = buf /\ got' = got
      BY <1>0, <1>4 DEF CmdEnd, EndOfFile, data
    <2>2. task = "@" => phase["grep"] = "exit"
      BY <1>0, <2>1, PipesAre DEF Sound, Forked, Alive, GrepsPipe
    <2>3. task = "$" => phase["tee"] = "exit"
      BY <1>0, <2>1, PipesAre DEF Sound, Forked, Alive
    <2>4. /\ phase'["cmd"] = "exit" /\ phase'["tee"] = phase["tee"] /\ phase'["grep"] = phase["grep"]
          /\ table'["tee"] = table["tee"] /\ table'["grep"] = table["grep"]
      BY <2>1, ExitsTyped DEF Procs
    <2>5. Forked'  BY <1>0, <1>1, <2>4 DEF Sound, Forked, Procs
    <2>6. Has'  BY <1>1, <2>4 DEF Sound, Has, Alive, GrepHas
    <2>7. Counts'  BY <1>1, <2>1, <2>4 DEF Sound, Counts, Passed
    <2>8. InOrder'  BY <1>1, <1>2, <2>1, <2>2, <2>3, <2>4 DEF Sound, InOrder
    <2> QED  BY <2>5, <2>6, <2>7, <2>8 DEF Sound
  <1> QED  BY <1>3, <1>4

(***************************************************************************)
(* Nothing is claimed behind a failed call, or when cmd leaves early, and   *)
(* what has failed stays so.                                                *)
(***************************************************************************)
THEOREM Invariance == Spec => []IInv
  <1>1. Init => IInv
    <2> SUFFICES ASSUME Init PROVE IInv  OBVIOUS
    <2>1. Typed  BY InitTyped
    <2>2. /\ step = [p \in Procs |-> 1] /\ phase["cmd"] = "setup" /\ phase["tee"] = "none"
          /\ phase["grep"] = "none" /\ buf["fd"] = 0 /\ buf["fd1"] = 0
      BY DEF Init, Procs, Pipes
    <2>3. Forked  BY <2>2 DEF Forked, Procs, Init
    <2>4. Has  BY <2>2 DEF Has, Alive, CmdHas, Procs
    <2>5. Counts  BY <2>1, <2>2 DEF Counts, Passed, Init, Typed
    <2>6. InOrder  BY <2>2 DEF InOrder
    <2> QED  BY <2>1, <2>3, <2>4, <2>5, <2>6 DEF IInv, Sound
  <1>2. IInv /\ [Next]_vars => IInv'
    <2> SUFFICES ASSUME IInv, [Next]_vars PROVE IInv'  OBVIOUS
    <2>1. Typed /\ Typed'  BY TypedStep DEF IInv
    <2> SUFFICES ASSUME ok' PROVE Sound'  BY <2>1 DEF IInv
    <2>2. ASSUME NEW p \in Procs, Call(p) \/ PipeOrForkFails(p) \/ ExecFails(p) PROVE Sound'
      <3>1. ~PipeOrForkFails(p) /\ ~ExecFails(p)  BY DEF PipeOrForkFails, ExecFails
      <3>2. ok  BY <2>2, <3>1 DEF Call, MakePipe, Fork, Dup2, Close, Exec, BrokenPipe
      <3>3. Sound  BY <3>2 DEF IInv
      <3> QED
        BY <2>1, <2>2, <3>1, <3>3, MakePipeStep, ForkStep, Dup2Step, CloseStep, StartStep, NoBrokenPipe
        DEF Call
    <2>3. CASE tee
      <3>1. Sound  BY <2>3 DEF tee, TeeOpen, TeeRead, TeePass, TeeNote, TeeEnd, IInv
      <3> QED  BY <2>1, <2>3, <3>1, StartStep, TeeStep DEF tee
    <2>4. CASE grep
      <3>1. Sound  BY <2>4 DEF grep, GrepWrite, GrepEnd, IInv
      <3> QED  BY <2>1, <2>4, <3>1, GrepStep DEF grep
    <2>5. CASE cmd
      <3>1. Sound  BY <2>5 DEF cmd, CmdRead, CmdEnd, IInv
      <3> QED  BY <2>1, <2>5, <3>1, CmdStep DEF cmd
    <2>6. CASE CmdLeaves  BY <2>6 DEF CmdLeaves
    <2>7. CASE UNCHANGED vars
      BY <2>7 DEF vars, IInv, Sound, Forked, Has, Alive, CmdHas, TeeHas, GrepHas, Counts, Passed,
                  InOrder
    <2> QED  BY <2>2, <2>3, <2>4, <2>5, <2>6, <2>7 DEF Next, Idle, Stuck
  <1> QED  BY <1>1, <1>2, PTL DEF Spec

(***************************************************************************)
(* CompleteWhenCmdEnds: when the foreground process ends, and no call has   *)
(* failed, it has read everything grep wrote and tee's file is complete     *)
(* (part2.c:54-76, 107-147), for any output and any size of the pipes.      *)
(***************************************************************************)
THEOREM Complete == Spec => []CompleteWhenCmdEnds
  <1>1. IInv => CompleteWhenCmdEnds
    <2> SUFFICES ASSUME Typed, Sound, phase["cmd"] = "exit"
                 PROVE  got = output /\ (task = "$" /\ fptr => file = output)
      BY DEF IInv, CompleteWhenCmdEnds
    <2>1. buf["fd"] \in Nat /\ buf["fd1"] \in Nat /\ got \in Nat /\ file \in Nat /\ out \in Nat
      BY DEF Typed, Pipes
    <2>2. CASE task = "@"  BY <2>1, <2>2 DEF Sound, Counts, InOrder, Passed
    <2>3. CASE task = "$"  BY <2>1, <2>3 DEF Sound, Counts, InOrder, Passed
    <2> QED  BY <2>2, <2>3 DEF Typed
  <1> QED  BY <1>1, Invariance, PTL
===============================================================================
