---------------------------- MODULE AbstractRWLock ----------------------------
(***************************************************************************)
(* What a read-write lock promises its callers, with no word about how it   *)
(* is kept: any number of readers or one writer is inside.                  *)
(* rwlock.c is shown to implement this specification (module RWLock).       *)
(***************************************************************************)
CONSTANT Threads

VARIABLES readers, writers      \* the threads holding each kind of lock

avars == <<readers, writers>>

AInit == readers = {} /\ writers = {}

AcquireRead(t) ==
    /\ t \notin readers
    /\ writers = {}
    /\ readers' = readers \cup {t}
    /\ UNCHANGED writers

ReleaseRead(t) ==
    /\ t \in readers
    /\ readers' = readers \ {t}
    /\ UNCHANGED writers

AcquireWrite(t) ==
    /\ readers = {} /\ writers = {}
    /\ writers' = {t}
    /\ UNCHANGED readers

ReleaseWrite(t) ==
    /\ writers = {t}
    /\ writers' = {}
    /\ UNCHANGED readers

ANext == \E t \in Threads :
    AcquireRead(t) \/ ReleaseRead(t) \/ AcquireWrite(t) \/ ReleaseWrite(t)

ASpec == AInit /\ [][ANext]_avars
===============================================================================
