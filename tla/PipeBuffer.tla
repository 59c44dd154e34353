------------------------------ MODULE PipeBuffer ------------------------------
(***************************************************************************)
(* The data of one gemOS pipe (Assignment2/pipe.c): pipe_write appends to   *)
(* pipe_buff at buffer_offset, pipe_read takes from its front and moves the *)
(* rest down.  Both run to completion as system calls.  The descriptors     *)
(* and the life of the pipe are in module FileTable.                        *)
(***************************************************************************)
EXTENDS Integers, Sequences

CONSTANTS BUFF_SIZE,    \* 4096
          Bytes,        \* the bytes written
          Junk,         \* what the page of pipe_buff held before
          MaxCount,     \* bound on the length of the buffers of calls that fit the page
          U32Mod        \* 2^32: counts and offsets are u32

ASSUME BufferAssumption ==
    /\ BUFF_SIZE \in Nat \ {0} /\ Junk \notin Bytes
    /\ MaxCount \in Nat /\ MaxCount <= BUFF_SIZE
    /\ U32Mod \in Nat /\ 2 * BUFF_SIZE < U32Mod

VARIABLES pipe_buff, buffer_offset, write_pos,
          is_ropen, is_wopen,
          overrun,      \* a write has stored past the end of the page
          queue,        \* history: the bytes accepted and not yet delivered
          whole,        \* history: for each of them, whether its write could store it
          drained       \* history: every write found the pipe empty

vars == <<pipe_buff, buffer_offset, write_pos, is_ropen, is_wopen, overrun, queue, whole, drained>>

Cells == 0 .. BUFF_SIZE - 1

Buffers == UNION {[1 .. n -> Bytes] : n \in 0 .. MaxCount}

Least(m, n) == IF m <= n THEN m ELSE n

(* create_pipe, pipe.c:133-140 *)
Init ==
    /\ pipe_buff = [c \in Cells |-> Junk]
    /\ buffer_offset = 0 /\ write_pos = 0
    /\ is_ropen = TRUE /\ is_wopen = TRUE
    /\ overrun = FALSE
    /\ queue = <<>> /\ whole = <<>> /\ drained = TRUE

\* Mutant: a byte is left behind when the rest is moved down
MutMovedDown(count) ==
    [c \in Cells |-> IF c + 1 < buffer_offset - count THEN pipe_buff[c + count] ELSE pipe_buff[c]]

(* The second loop of pipe_read, lines 54-59. *)
MovedDown(count) ==
    [c \in Cells |-> IF c < buffer_offset - count THEN pipe_buff[c + count] ELSE pipe_buff[c]]

pipe_read(want) ==
    /\ is_ropen /\ ~overrun
    /\ LET count == Least(want, buffer_offset)
       IN  /\ pipe_buff' = MovedDown(count)
           /\ buffer_offset' = buffer_offset - count
           /\ queue' = SubSeq(queue, count + 1, Len(queue))
           /\ whole' = SubSeq(whole, count + 1, Len(whole))
    /\ UNCHANGED <<write_pos, is_ropen, is_wopen, overrun, drained>>

\* Mutant: buf_ind starts at the front of the page
MutStored(buff) ==
    [c \in Cells |-> IF c < Len(buff) THEN buff[c + 1] ELSE pipe_buff[c]]

(***************************************************************************)
(* The loop of pipe_write, lines 86-92: buf_ind starts at buffer_offset and *)
(* stops at count, not at buffer_offset + count.                            *)
(***************************************************************************)
Stored(buff) ==
    [c \in Cells |-> IF buffer_offset <= c /\ c < Len(buff)
                     THEN buff[c - buffer_offset + 1] ELSE pipe_buff[c]]

(* Line 83; the sum of two u32 is a u32. *)
HasRoom(count) == (count + buffer_offset) % U32Mod <= BUFF_SIZE

pipe_write(buff) ==
    /\ is_wopen /\ ~overrun /\ HasRoom(Len(buff))
    /\ pipe_buff' = Stored(buff)
    /\ buffer_offset' = buffer_offset + Len(buff)
    /\ write_pos' = buffer_offset'
    /\ queue' = queue \o buff
    /\ whole' = whole \o [k \in 1 .. Len(buff) |-> k <= Len(buff) - buffer_offset]
    /\ drained' = (drained /\ buffer_offset = 0)
    /\ UNCHANGED <<is_ropen, is_wopen, overrun>>

(***************************************************************************)
(* A count longer than the page that passes line 83 because the sum wraps:  *)
(* the loop runs past the page, and what the pipe and the memory behind it  *)
(* hold then is undefined.                                                  *)
(***************************************************************************)
WritePast(count) ==
    /\ is_wopen /\ ~overrun /\ HasRoom(count)
    /\ overrun' = TRUE
    /\ UNCHANGED <<pipe_buff, buffer_offset, write_pos, is_ropen, is_wopen, queue, whole, drained>>

(* generic_close of the last descriptor of an end, file.c:129-133 *)
CloseRead ==
    /\ is_ropen /\ ~overrun /\ is_ropen' = FALSE
    /\ UNCHANGED <<pipe_buff, buffer_offset, write_pos, is_wopen, overrun, queue, whole, drained>>
CloseWrite ==
    /\ is_wopen /\ ~overrun /\ is_wopen' = FALSE
    /\ UNCHANGED <<pipe_buff, buffer_offset, write_pos, is_ropen, overrun, queue, whole, drained>>

(* Both ends are closed: free_pipe_info.  Or the page has been overrun. *)
Over == overrun \/ (~is_ropen /\ ~is_wopen)
Freed == Over /\ UNCHANGED vars

Next ==
    \/ \E want \in 0 .. MaxCount : pipe_read(want)
    \/ \E buff \in Buffers : pipe_write(buff)
    \/ \E count \in BUFF_SIZE + 1 .. U32Mod - 1 : WritePast(count)
    \/ CloseRead \/ CloseWrite \/ Freed

Spec == Init /\ [][Next]_vars

-------------------------------------------------------------------------------
(* What the next reads will deliver. *)
Deliverable == [n \in 1 .. buffer_offset |-> pipe_buff[n - 1]]

(***************************************************************************)
(* A write of n bytes into a pipe that holds m loses its last m bytes       *)
(* (pipe.c:88) but no others: its first n - m are delivered in their place  *)
(* behind what was there, whatever was written and read before and after.   *)
(***************************************************************************)
WholeArrives ==
    \A n \in 1 .. Len(queue) : whole[n] => n <= buffer_offset /\ pipe_buff[n - 1] = queue[n]

(***************************************************************************)
(* As long as every write finds the pipe empty, reads of any size deliver   *)
(* the bytes written, in order (pipe.c:48-60).                              *)
(***************************************************************************)
FifoWhenDrained == drained => Deliverable = queue
===============================================================================
