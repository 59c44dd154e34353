---------------------------- MODULE MCParallelHash ----------------------------
(***************************************************************************)
(* Inputs for ParallelHash.  In a table of four entries 3 and 7 both hash   *)
(* to the last one, so that walks wrap around, and 1 and 5 to the same one. *)
(* With Half 16 the key C has a high half.                                  *)
(***************************************************************************)
EXTENDS ParallelHash

A == 1
C == 17

Put(k) == [type |-> "PUT", key |-> k]
Get(k) == [type |-> "GET", key |-> k]
Del(k) == [type |-> "DEL", key |-> k]

Puts(p) == Cardinality({i \in DOMAIN p : p[i].type = "PUT"})

(* The inputs of n operations on 3 and 7 that leave an entry never used; the
   two keys may change places, so the first is 3. *)
Ample(n) ==
    {p \in [1 .. n -> {Put(k) : k \in {3, 7}} \cup {Get(k) : k \in {3, 7}} \cup {Del(k) : k \in {3, 7}}] :
        p[1].key = 3 /\ Puts(p) < TableSize}

(* All of them with three operations, and with four those that put both keys first. *)
TwoKeys == Ample(3) \cup {p \in Ample(4) : p[1] = Put(3) /\ p[2] = Put(7)}

(***************************************************************************)
(* A key behind a deleted entry; a key with a high half; and three keys, as *)
(* many as the table is meant for, of which A is put again and again until  *)
(* no entry is left that was never used and the second walk of              *)
(* insert_update, past live entries, reuses one.                            *)
(***************************************************************************)
Chosen == {<<Put(A), Put(5), Del(A), Get(5), Put(A)>>,
           <<Put(C), Del(C), Put(2), Get(C), Del(2)>>,
           <<Put(4), Put(2), Put(A), Del(A), Put(A), Del(A), Put(A), Get(4)>>}

Inputs == TwoKeys \cup Chosen

(* A lookup of 4 beside a PUT of A that reuses an entry 4 was pushed past. *)
ReuseBesideGet == {<<Put(A), Del(A), Put(A), Put(4), Del(A), Put(A), Get(4)>>}
===============================================================================
