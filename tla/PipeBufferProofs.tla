--------------------------- MODULE PipeBufferProofs ---------------------------
(***************************************************************************)
(* Proofs about PipeBuffer, for any page size, bytes and u32: a write loses *)
(* no more than its last bytes, as many as the pipe held, and a pipe that   *)
(* every write finds empty delivers its bytes in order.  Both need that     *)
(* buffer_offset counts the bytes that wait (Counted): where a byte lies is *)
(* not known otherwise.                                                     *)
(***************************************************************************)
EXTENDS PipeBuffer, SequenceTheorems, TLAPS

Counted ==
    /\ buffer_offset \in Nat /\ buffer_offset <= BUFF_SIZE
    /\ queue \in Seq(Bytes) /\ Len(queue) = buffer_offset
    /\ whole \in Seq(BOOLEAN) /\ Len(whole) = buffer_offset
    /\ drained \in BOOLEAN

IInv == Counted /\ WholeArrives /\ FifoWhenDrained

LEMMA InitIInv == Init => IInv
  <1> SUFFICES ASSUME Init PROVE IInv  OBVIOUS
  <1>1. buffer_offset = 0 /\ queue = <<>> /\ whole = <<>> /\ drained = TRUE  BY DEF Init
  <1>2. Deliverable = queue  BY <1>1 DEF Deliverable
  <1>3. Counted  BY <1>1, BufferAssumption DEF Counted
  <1> QED  BY <1>1, <1>2, <1>3 DEF IInv, WholeArrives, FifoWhenDrained

(***************************************************************************)
(* What is left of a sequence when its first c elements are taken off.      *)
(***************************************************************************)
LEMMA TakenOff ==
    ASSUME NEW S, NEW q \in Seq(S), NEW c \in Nat, c <= Len(q)
    PROVE  /\ SubSeq(q, c + 1, Len(q)) \in Seq(S)
           /\ Len(SubSeq(q, c + 1, Len(q))) = Len(q) - c
           /\ \A n \in 1 .. Len(q) - c : SubSeq(q, c + 1, Len(q))[n] = q[n + c]
  OBVIOUS

LEMMA Appended ==
    ASSUME NEW S, NEW q \in Seq(S), NEW r \in Seq(S)
    PROVE  /\ q \o r \in Seq(S) /\ Len(q \o r) = Len(q) + Len(r)
           /\ \A n \in 1 .. Len(q) : (q \o r)[n] = q[n]
           /\ \A n \in Len(q) + 1 .. Len(q) + Len(r) : (q \o r)[n] = r[n - Len(q)]
  OBVIOUS

(***************************************************************************)
(* pipe_read takes the first bytes of the queue off the front of the page,  *)
(* and the others move down with it.                                        *)
(***************************************************************************)
LEMMA ReadKeeps ==
    ASSUME IInv, NEW want \in Nat, pipe_read(want)
    PROVE  IInv'
  <1> DEFINE count == Least(want, buffer_offset)
  <1>0. Counted /\ WholeArrives /\ FifoWhenDrained  BY DEF IInv
  <1>1. count \in Nat /\ count <= buffer_offset  BY <1>0 DEF Counted, Least
  <1>2. /\ pipe_buff' = MovedDown(count) /\ buffer_offset' = buffer_offset - count
        /\ queue' = SubSeq(queue, count + 1, Len(queue))
        /\ whole' = SubSeq(whole, count + 1, Len(whole)) /\ drained' = drained
    BY DEF pipe_read
  <1> HIDE DEF count
  <1>3. /\ queue' \in Seq(Bytes) /\ Len(queue') = buffer_offset'
        /\ \A n \in 1 .. buffer_offset' : queue'[n] = queue[n + count]
    <2>1. queue \in Seq(Bytes) /\ count <= Len(queue) /\ Len(queue) = buffer_offset
      BY <1>0, <1>1 DEF Counted
    <2> QED  BY <1>1, <1>2, <2>1, TakenOff
  <1>4. /\ whole' \in Seq(BOOLEAN) /\ Len(whole') = buffer_offset'
        /\ \A n \in 1 .. buffer_offset' : whole'[n] = whole[n + count]
    <2>1. whole \in Seq(BOOLEAN) /\ count <= Len(whole) /\ Len(whole) = buffer_offset
      BY <1>0, <1>1 DEF Counted
    <2> QED  BY <1>1, <1>2, <2>1, TakenOff
  <1>5. Counted'  BY <1>0, <1>1, <1>2, <1>3, <1>4, BufferAssumption DEF Counted
  <1>6. ASSUME NEW n \in 1 .. buffer_offset'
        PROVE  \E m \in 1 .. buffer_offset :
                   /\ pipe_buff'[n - 1] = pipe_buff[m - 1]
                   /\ queue'[n] = queue[m] /\ whole'[n] = whole[m]
    <2> DEFINE m == n + count
    <2>1. /\ n - 1 \in Cells /\ n - 1 < buffer_offset - count
          /\ m \in 1 .. buffer_offset /\ m - 1 = n - 1 + count
      BY <1>0, <1>1, <1>2, BufferAssumption DEF Counted, Cells
    <2>2. queue'[n] = queue[m] /\ whole'[n] = whole[m]  BY <1>3, <1>4
    <2> HIDE DEF m
    <2>3. pipe_buff'[n - 1] = pipe_buff[m - 1]  BY <1>1, <1>2, <2>1 DEF MovedDown
    <2> QED  BY <2>1, <2>2, <2>3
  <1>7. WholeArrives'
    <2> SUFFICES ASSUME NEW n \in 1 .. Len(queue'), whole'[n]
                 PROVE  n <= buffer_offset' /\ pipe_buff'[n - 1] = queue'[n]
      BY DEF WholeArrives
    <2>1. n \in 1 .. buffer_offset' /\ n <= buffer_offset'  BY <1>3, <1>5 DEF Counted
    <2>2. PICK m \in 1 .. buffer_offset :
              /\ pipe_buff'[n - 1] = pipe_buff[m - 1]
              /\ queue'[n] = queue[m] /\ whole'[n] = whole[m]
      BY <1>6, <2>1
    <2>3. whole[m]  BY <2>2
    <2>4. m \in 1 .. Len(queue)  BY <1>0 DEF Counted
    <2>5. pipe_buff[m - 1] = queue[m]  BY <1>0, <2>3, <2>4 DEF WholeArrives
    <2> QED  BY <2>1, <2>2, <2>5
  <1>8. ASSUME drained' PROVE Deliverable' = queue'
    <2>1. Deliverable = queue  BY <1>0, <1>2, <1>8 DEF FifoWhenDrained
    <2>2. ASSUME NEW n \in 1 .. buffer_offset' PROVE pipe_buff'[n - 1] = queue'[n]
      <3>1. PICK m \in 1 .. buffer_offset :
                pipe_buff'[n - 1] = pipe_buff[m - 1] /\ queue'[n] = queue[m]
        BY <1>6
      <3>2. pipe_buff[m - 1] = queue[m]  BY <2>1 DEF Deliverable
      <3> QED  BY <3>1, <3>2
    <2>3. queue' = [n \in 1 .. buffer_offset' |-> queue'[n]]  BY <1>3
    <2> QED  BY <2>2, <2>3 DEF Deliverable
  <1> QED  BY <1>5, <1>7, <1>8 DEF IInv, FifoWhenDrained

(***************************************************************************)
(* pipe_write appends to the queue.  What it stores lies behind what was    *)
(* there; into an empty pipe it stores all of the buffer.                   *)
(***************************************************************************)
LEMMA WriteKeeps ==
    ASSUME IInv, NEW buff \in Seq(Bytes), Len(buff) <= MaxCount, pipe_write(buff)
    PROVE  IInv'
  <1> DEFINE stored == [k \in 1 .. Len(buff) |-> k <= Len(buff) - buffer_offset]
  <1>0. Counted /\ WholeArrives /\ FifoWhenDrained  BY DEF IInv
  <1>1. /\ HasRoom(Len(buff)) /\ pipe_buff' = Stored(buff)
        /\ buffer_offset' = buffer_offset + Len(buff) /\ queue' = queue \o buff
        /\ whole' = whole \o stored
        /\ drained' = (drained /\ buffer_offset = 0)
    BY DEF pipe_write
  <1>2. Len(buff) \in Nat /\ buffer_offset + Len(buff) <= BUFF_SIZE
    <2>1. Len(buff) \in Nat /\ Len(buff) + buffer_offset < U32Mod
      BY <1>0, BufferAssumption DEF Counted
    <2>2. (Len(buff) + buffer_offset) % U32Mod = Len(buff) + buffer_offset
      <3>1. ASSUME NEW s \in Nat, s < U32Mod PROVE s % U32Mod = s
        BY <3>1, BufferAssumption
      <3> QED  BY <1>0, <2>1, <3>1 DEF Counted
    <2> QED  BY <1>0, <1>1, <2>1, <2>2 DEF HasRoom, Counted
  <1>3. stored \in Seq(BOOLEAN) /\ Len(stored) = Len(buff)
    <2>1. \A k \in 1 .. Len(buff) : (k <= Len(buff) - buffer_offset) \in BOOLEAN  OBVIOUS
    <2> QED  BY <1>2, <2>1
  <1> HIDE DEF stored
  <1>4. /\ queue' \in Seq(Bytes) /\ Len(queue') = buffer_offset'
        /\ \A n \in 1 .. buffer_offset : queue'[n] = queue[n]
        /\ \A n \in buffer_offset + 1 .. buffer_offset' : queue'[n] = buff[n - buffer_offset]
    <2>1. queue \in Seq(Bytes) /\ Len(queue) = buffer_offset  BY <1>0 DEF Counted
    <2> QED  BY <1>1, <2>1, Appended
  <1>5. /\ whole' \in Seq(BOOLEAN) /\ Len(whole') = buffer_offset'
        /\ \A n \in 1 .. buffer_offset : whole'[n] = whole[n]
        /\ \A n \in buffer_offset + 1 .. buffer_offset' : whole'[n] = stored[n - buffer_offset]
    <2>1. whole \in Seq(BOOLEAN) /\ Len(whole) = buffer_offset  BY <1>0 DEF Counted
    <2>2. /\ whole \o stored \in Seq(BOOLEAN) /\ Len(whole \o stored) = Len(whole) + Len(stored)
          /\ \A n \in 1 .. Len(whole) : (whole \o stored)[n] = whole[n]
          /\ \A n \in Len(whole) + 1 .. Len(whole) + Len(stored) :
                 (whole \o stored)[n] = stored[n - Len(whole)]
      BY <1>3, <2>1, Appended
    <2> QED  BY <1>1, <1>3, <2>1, <2>2, Zenon
  <1>6. drained' \in BOOLEAN  BY <1>0, <1>1 DEF Counted
  <1>7. Counted'  BY <1>0, <1>1, <1>2, <1>4, <1>5, <1>6 DEF Counted
  <1>8. ASSUME NEW n \in 1 .. buffer_offset, whole'[n]
        PROVE  pipe_buff'[n - 1] = queue'[n]
    <2>1. n \in 1 .. Len(queue) /\ n - 1 \in Cells /\ ~ (buffer_offset <= n - 1)
      BY <1>0, BufferAssumption DEF Counted, Cells
    <2>2. pipe_buff'[n - 1] = pipe_buff[n - 1]  BY <1>1, <2>1 DEF Stored
    <2>3. whole'[n] = whole[n]  BY <1>5
    <2>4. whole[n]  BY <1>8, <2>3
    <2> QED  BY <1>0, <1>4, <2>1, <2>2, <2>4 DEF WholeArrives
  <1>9. ASSUME NEW n \in buffer_offset + 1 .. buffer_offset', n <= Len(buff)
        PROVE  pipe_buff'[n - 1] = queue'[n]
    <2>1. /\ n - 1 \in Cells /\ buffer_offset <= n - 1 /\ n - 1 < Len(buff)
          /\ n - 1 - buffer_offset + 1 = n - buffer_offset
      BY <1>0, <1>2, <1>9, BufferAssumption DEF Counted, Cells
    <2>2. pipe_buff'[n - 1] = buff[n - buffer_offset]  BY <1>1, <2>1 DEF Stored
    <2> QED  BY <1>4, <2>2
  <1>10. WholeArrives'
    <2> SUFFICES ASSUME NEW n \in 1 .. Len(queue'), whole'[n]
                 PROVE  n <= buffer_offset' /\ pipe_buff'[n - 1] = queue'[n]
      BY DEF WholeArrives
    <2>1. n <= buffer_offset' /\ n \in Int  BY <1>4, <1>7 DEF Counted
    <2>2. CASE n <= buffer_offset  BY <1>0, <1>8, <2>1, <2>2 DEF Counted
    <2>3. CASE ~ (n <= buffer_offset)
      <3>1. /\ n \in buffer_offset + 1 .. buffer_offset'
            /\ n - buffer_offset \in 1 .. Len(buff)
        BY <1>0, <1>1, <1>2, <1>4, <2>1, <2>3 DEF Counted
      <3>2. whole'[n] = stored[n - buffer_offset]  BY <1>5, <3>1
      <3>3. n - buffer_offset <= Len(buff) - buffer_offset  BY <3>1, <3>2 DEF stored
      <3>4. n <= Len(buff)  BY <1>0, <1>2, <2>1, <3>3 DEF Counted
      <3> QED  BY <1>9, <2>1, <3>1, <3>4
    <2> QED  BY <2>2, <2>3
  <1>11. ASSUME drained' PROVE Deliverable' = queue'
    <2>1. buffer_offset = 0  BY <1>1, <1>11, Zenon
    <2>2. ASSUME NEW n \in 1 .. buffer_offset' PROVE pipe_buff'[n - 1] = queue'[n]
      <3>1. n \in buffer_offset + 1 .. buffer_offset' /\ n <= Len(buff)
        BY <1>1, <1>2, <2>1
      <3> QED  BY <1>9, <3>1
    <2>3. queue' = [n \in 1 .. buffer_offset' |-> queue'[n]]  BY <1>4
    <2> QED  BY <2>2, <2>3 DEF Deliverable
  <1> QED  BY <1>7, <1>10, <1>11 DEF IInv, FifoWhenDrained

LEMMA NextIInv == IInv /\ [Next]_vars => IInv'
  <1> SUFFICES ASSUME IInv, [Next]_vars PROVE IInv'  OBVIOUS
  <1>1. ASSUME NEW want \in 0 .. MaxCount, pipe_read(want) PROVE IInv'
    BY <1>1, ReadKeeps, BufferAssumption
  <1>2. ASSUME NEW buff \in Buffers, pipe_write(buff) PROVE IInv'
    <2>1. buff \in Seq(Bytes) /\ Len(buff) <= MaxCount  BY BufferAssumption DEF Buffers
    <2> QED  BY <1>2, <2>1, WriteKeeps
  <1>3. CASE UNCHANGED <<pipe_buff, buffer_offset, queue, whole, drained>>
    BY <1>3 DEF IInv, Counted, WholeArrives, FifoWhenDrained, Deliverable
  <1>4. ASSUME NEW count \in BUFF_SIZE + 1 .. U32Mod - 1, WritePast(count) PROVE IInv'
    BY <1>3, <1>4 DEF WritePast
  <1>5. CASE CloseRead \/ CloseWrite \/ Freed \/ UNCHANGED vars
    BY <1>3, <1>5 DEF CloseRead, CloseWrite, Freed, vars
  <1> QED  BY <1>1, <1>2, <1>4, <1>5 DEF Next

LEMMA Invariance == Spec => []IInv
  BY InitIInv, NextIInv, PTL DEF Spec

(***************************************************************************)
(* A write of n bytes into a pipe that holds m delivers its first n - m in  *)
(* their place (pipe.c:86-92), through all reads and writes after it        *)
(* (pipe.c:48-60).                                                          *)
(***************************************************************************)
THEOREM Arrives == Spec => []WholeArrives
  <1>1. IInv => WholeArrives  BY DEF IInv
  <1> QED  BY <1>1, Invariance, PTL

(***************************************************************************)
(* As long as every write finds the pipe empty, reads of any size deliver   *)
(* the bytes written, in order (pipe.c:48-60, 86-92).                       *)
(***************************************************************************)
THEOREM DrainedFifo == Spec => []FifoWhenDrained
  <1>1. IInv => FifoWhenDrained  BY DEF IInv
  <1> QED  BY <1>1, Invariance, PTL
===============================================================================
