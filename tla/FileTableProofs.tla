---------------------------- MODULE FileTableProofs ----------------------------
(***************************************************************************)
(* Proofs about FileTable, for any number of processes, pages and           *)
(* descriptors: the reference counts and the open flags of the pipes are    *)
(* exact as long as processes leave room in their tables (Restraint = 1;    *)
(* without it open leaks an object, and open_standard_IO and create_pipe    *)
(* store outside the table).                                                *)
(***************************************************************************)
EXTENDS FileTable, FiniteSetTheorems, WellFoundedInduction, TLAPS

LEMMA LeastExists ==
    ASSUME NEW S \in SUBSET Nat, S # {}
    PROVE  First(S) \in S /\ \A g \in S : First(S) <= g
  <1>1. \E x \in S : \A y \in S : ~ (<<y, x>> \in OpToRel(<, Nat))
    BY WFMin, NatLessThanWellFounded
  <1>2. PICK x \in S : \A y \in S : ~ (<<y, x>> \in OpToRel(<, Nat))  BY <1>1
  <1>3. \A y \in S : x <= y
    <2> SUFFICES ASSUME NEW y \in S, y < x PROVE FALSE  OBVIOUS
    <2>1. <<y, x>> \in OpToRel(<, Nat)  BY DEF OpToRel
    <2> QED  BY <2>1, <1>2
  <1> QED  BY <1>3 DEF First

-------------------------------------------------------------------------------
(***************************************************************************)
(* Tables of descriptors and what they count, apart from the state.         *)
(***************************************************************************)
Tables  == [Procs -> [FDs -> Files \cup {Null}]]
Objects == [Files -> [type : {"FREE", "STD", "REGULAR", "PIPE"}, mode : SUBSET {"R", "W", "C"},
                      ref_count : Nat, pipe : Pipes \cup {Null}]]

Refs(T, f) == {d \in Procs \X FDs : T[d[1]][d[2]] = f}

Exact(T, o) ==
    \A f \in Files : /\ o[f].ref_count = Cardinality(Refs(T, f))
                     /\ o[f].type = "FREE" <=> o[f].ref_count = 0

LEMMA FDsFinite == IsFiniteSet(FDs) /\ \A S \in SUBSET FDs : IsFiniteSet(S) /\ Cardinality(S) \in Nat
  <1>1. IsFiniteSet(FDs)  BY FS_Interval, TableAssumption DEF FDs
  <1> QED  BY <1>1, FS_Subset, FS_CardinalityType

LEMMA RefsFinite ==
    ASSUME NEW T, NEW f
    PROVE  IsFiniteSet(Refs(T, f)) /\ Cardinality(Refs(T, f)) \in Nat
  <1>2. IsFiniteSet(Procs \X FDs)  BY FDsFinite, FS_Product, TableAssumption
  <1>3. Refs(T, f) \in SUBSET (Procs \X FDs)  BY DEF Refs
  <1> QED  BY <1>2, <1>3, FS_Subset, FS_CardinalityType

(* One more descriptor for f. *)
OneMore(o, f, n) ==
    /\ n \in Objects /\ n[f].ref_count = o[f].ref_count + 1 /\ n[f].type # "FREE"
    /\ \A h \in Files \ {f} : n[h] = o[h]

LEMMA Put ==
    ASSUME NEW T \in Tables, NEW p \in Procs, NEW fd \in FDs, T[p][fd] = Null,
           NEW o \in Objects, Exact(T, o), NEW f \in Files, NEW n, OneMore(o, f, n)
    PROVE  Exact([T EXCEPT ![p][fd] = f], n)
  <1> USE DEF OneMore
  <1> DEFINE U == [T EXCEPT ![p][fd] = f]
  <1>1. \A q \in Procs, e \in FDs : U[q][e] = IF q = p /\ e = fd THEN f ELSE T[q][e]
    BY DEF Tables
  <1>2. f # Null  BY TableAssumption
  <1> HIDE DEF U
  <1>3. <<p, fd>> \notin Refs(T, f) /\ Refs(U, f) = Refs(T, f) \cup {<<p, fd>>}
    BY <1>1, <1>2 DEF Refs
  <1>4. Cardinality(Refs(U, f)) = Cardinality(Refs(T, f)) + 1
    BY <1>3, RefsFinite, FS_AddElement
  <1>5. \A h \in Files \ {f} : Refs(U, h) = Refs(T, h)
    BY <1>1, TableAssumption DEF Refs
  <1>6. n[f].ref_count \in Nat /\ o[f].ref_count \in Nat /\ o[f].ref_count = Cardinality(Refs(T, f))
    BY DEF Objects, Exact
  <1>7. Exact(U, n)  BY <1>4, <1>5, <1>6 DEF Exact
  <1> QED  BY <1>7 DEF U

(* One less, as generic_close leaves it. *)
LEMMA Drop ==
    ASSUME NEW T \in Tables, NEW p \in Procs, NEW fd \in FDs, NEW o \in Objects, Exact(T, o),
           T[p][fd] \in Files
    PROVE  /\ Exact([T EXCEPT ![p][fd] = Null], Released(T[p][fd], o))
           /\ Released(T[p][fd], o) \in Objects
  <1> DEFINE U == [T EXCEPT ![p][fd] = Null]
             f == T[p][fd]
             n == Released(f, o)
  <1>1. \A q \in Procs, e \in FDs : U[q][e] = IF q = p /\ e = fd THEN Null ELSE T[q][e]
    BY DEF Tables
  <1>2. f # Null /\ f \in Files  BY TableAssumption
  <1>3. f = T[p][fd]  OBVIOUS
  <1> HIDE DEF U, f
  <1>4. <<p, fd>> \in Refs(T, f) /\ Refs(U, f) = Refs(T, f) \ {<<p, fd>>}
    BY <1>1, <1>2, <1>3 DEF Refs
  <1>5. Cardinality(Refs(U, f)) = Cardinality(Refs(T, f)) - 1
    BY <1>4, RefsFinite, FS_RemoveElement
  <1>6. \A h \in Files \ {f} : Refs(U, h) = Refs(T, h)
    BY <1>1, <1>3, TableAssumption DEF Refs
  <1>7. /\ o[f].ref_count = Cardinality(Refs(T, f)) /\ Cardinality(Refs(U, f)) \in Nat
        /\ o[f].ref_count \in Nat
        /\ o[f].type = "FREE" <=> o[f].ref_count = 0
    BY <1>2, RefsFinite DEF Objects, Exact
  <1>8. o[f].ref_count - 1 \in Nat  BY <1>5, <1>7
  <1>9. n \in Objects  BY <1>2, <1>8 DEF Objects, Released, FreeObj
  <1>10. n[f].ref_count = o[f].ref_count - 1 /\ (n[f].type = "FREE" <=> n[f].ref_count = 0)
    BY <1>2, <1>5, <1>7 DEF Objects, Released, FreeObj
  <1>11. \A h \in Files \ {f} : n[h] = o[h]  BY <1>2 DEF Objects, Released
  <1> HIDE DEF n
  <1>12. Exact(U, n)  BY <1>2, <1>5, <1>6, <1>7, <1>10, <1>11 DEF Exact
  <1> QED  BY <1>9, <1>12 DEF U, f, n

(* A copy of p's table for c, which counts no descriptor. *)
MoreByTable(T, p, o, n) ==
    \A f \in Files : /\ n[f].ref_count = o[f].ref_count + Cardinality({fd \in FDs : T[p][fd] = f})
                     /\ n[f].type = o[f].type

LEMMA Copy ==
    ASSUME NEW T \in Tables, NEW p \in Procs, NEW c \in Procs, p # c,
           \A fd \in FDs : T[c][fd] = Null, NEW o \in Objects, Exact(T, o), NEW n,
           MoreByTable(T, p, o, n)
    PROVE  Exact([T EXCEPT ![c] = T[p]], n)
  <1> USE DEF MoreByTable
  <1> DEFINE U == [T EXCEPT ![c] = T[p]]
  <1>1. \A q \in Procs, e \in FDs : U[q][e] = IF q = c THEN T[p][e] ELSE T[q][e]
    BY DEF Tables
  <1> HIDE DEF U
  <1>2. ASSUME NEW f \in Files
        PROVE  /\ n[f].ref_count = Cardinality(Refs(U, f))
               /\ n[f].type = "FREE" <=> n[f].ref_count = 0
    <2> DEFINE S == {fd \in FDs : T[p][fd] = f}
    <2>1. IsFiniteSet(S) /\ Cardinality(S) \in Nat  BY FDsFinite
    <2>2. Refs(U, f) = Refs(T, f) \cup ({c} \X S) /\ Refs(T, f) \cap ({c} \X S) = {}
      BY <1>1, TableAssumption DEF Refs
    <2>3. S # {} => Refs(T, f) # {}
      <3> SUFFICES ASSUME NEW fd \in S PROVE Refs(T, f) # {}  OBVIOUS
      <3>1. <<p, fd>> \in Refs(T, f)  BY DEF Refs
      <3> QED  BY <3>1
    <2> HIDE DEF S
    <2>4. IsFiniteSet({c} \X S) /\ Cardinality({c} \X S) = Cardinality(S)
      <3>1. IsFiniteSet({c}) /\ Cardinality({c}) = 1  BY FS_Singleton
      <3>2. IsFiniteSet({c} \X S) /\ Cardinality({c} \X S) = 1 * Cardinality(S)
        BY <2>1, <3>1, FS_Product
      <3> QED  BY <2>1, <3>2
    <2>5. Cardinality(Refs(U, f)) = Cardinality(Refs(T, f)) + Cardinality(S)
      <3>1. Cardinality(Refs(U, f)) = Cardinality(Refs(T, f)) + Cardinality({c} \X S)
                                      - Cardinality(Refs(T, f) \cap ({c} \X S))
        BY <2>2, <2>4, RefsFinite, FS_Union
      <3>2. Cardinality(Refs(T, f) \cap ({c} \X S)) = 0  BY <2>2, FS_EmptySet
      <3> QED  BY <3>1, <3>2, <2>1, <2>4, RefsFinite
    <2>6. /\ n[f].ref_count = o[f].ref_count + Cardinality(S) /\ n[f].type = o[f].type
          /\ o[f].ref_count = Cardinality(Refs(T, f))
          /\ o[f].type = "FREE" <=> o[f].ref_count = 0
      BY DEF Exact, S
    <2>7. Cardinality(Refs(T, f)) = 0 => Cardinality(S) = 0
      BY <2>1, <2>3, RefsFinite, FS_EmptySet
    <2> QED  BY <2>1, <2>5, <2>6, <2>7, RefsFinite
  <1>3. Exact(U, n)  BY <1>2 DEF Exact
  <1> QED  BY <1>3 DEF U

-------------------------------------------------------------------------------
(***************************************************************************)
(* The inductive invariant.  Table is what counts of the processes' tables: *)
(* a system call, fork or a round of an exit changes it, the beginning and  *)
(* the end of an exit do not.                                               *)
(***************************************************************************)
Table == [p \in Procs |-> [fd \in FDs |-> IF Counted(p, fd) THEN files[p][fd] ELSE Null]]

Typed ==
    /\ alive \subseteq Procs /\ files \in Tables /\ fobj \in Objects
    /\ exiting \in {Null} \cup [proc : alive, i : 0 .. MAX_OPEN_FILES]

IInv == Typed /\ Exact(Table, fobj)

LEMMA TableIs ==
    /\ Typed => Table \in Tables
    /\ \A p \in Procs, fd \in FDs : Table[p][fd] = IF Counted(p, fd) THEN files[p][fd] ELSE Null
  BY DEF Table, Tables, Typed

LEMMA InitIInv == Init => IInv
  <1> SUFFICES ASSUME Init PROVE IInv  OBVIOUS
  <1>1. Typed  BY DEF Init, Typed, Tables, Objects, FreeObj
  <1>2. ASSUME NEW f \in Files
        PROVE  fobj[f].type = "FREE" /\ fobj[f].ref_count = 0 /\ Refs(Table, f) = {}
    <2>1. \A p \in Procs, fd \in FDs : Table[p][fd] = Null  BY TableIs DEF Init
    <2> QED  BY <2>1, TableAssumption DEF Refs, Init, FreeObj
  <1>3. Exact(Table, fobj)  BY <1>2, FS_EmptySet DEF Exact
  <1> QED  BY <1>1, <1>3 DEF IInv

LEMMA IInvMeans == IInv => RefCountExact
  <1> SUFFICES ASSUME IInv, NEW f \in Files
               PROVE  /\ fobj[f].ref_count = Cardinality(References(f))
                      /\ fobj[f].type = "FREE" <=> References(f) = {}
    BY DEF RefCountExact
  <1>1. References(f) = Refs(Table, f)
    BY TableIs, TableAssumption DEF References, Refs
  <1>2. Cardinality(Refs(Table, f)) = 0 <=> Refs(Table, f) = {}
    BY RefsFinite, FS_EmptySet
  <1> QED  BY <1>1, <1>2 DEF IInv, Exact

-------------------------------------------------------------------------------
(* What a system call of p finds, and what storing a descriptor does to Table. *)
LEMMA CallTable ==
    ASSUME Typed, NEW p \in Procs, Calls(p)
    PROVE  /\ Table \in Tables /\ exiting = Null /\ p \in alive
           /\ \A fd \in FDs : Table[p][fd] = files[p][fd] /\ files[p][fd] \in Files \cup {Null}
           /\ \A f : \A fd \in FDs : Install(p, fd, f) /\ UNCHANGED <<alive, exiting>>
                => Table' = [Table EXCEPT ![p][fd] = f]
  <1>1. exiting = Null /\ p \in alive  BY DEF Calls
  <1>2. \A q \in Procs, fd \in FDs : Counted(q, fd) <=> q \in alive  BY <1>1 DEF Counted
  <1>3. \A fd \in FDs : Table[p][fd] = files[p][fd] /\ files[p][fd] \in Files \cup {Null}
    BY <1>1, <1>2, TableIs DEF Typed, Tables
  <1>4. ASSUME NEW fd \in FDs, NEW f, Install(p, fd, f), UNCHANGED <<alive, exiting>>
        PROVE  Table' = [Table EXCEPT ![p][fd] = f]
    <2>1. \A q \in Procs, e \in FDs : Counted(q, e)' <=> q \in alive  BY <1>1, <1>4 DEF Counted
    <2>2. files' = [files EXCEPT ![p][fd] = f]  BY <1>4 DEF Install
    <2> QED  BY <1>1, <1>2, <2>1, <2>2 DEF Table, Typed, Tables
  <1> QED  BY <1>1, <1>3, <1>4, TableIs

LEMMA InstallTyped ==
    ASSUME Typed, NEW p \in Procs, NEW fd \in FDs, NEW f \in Files \cup {Null},
           Install(p, fd, f), fobj' \in Objects, UNCHANGED <<alive, exiting>>
    PROVE  Typed'
  BY DEF Typed, Install, Tables

(* A free entry of a table, where the searches find one. *)
LEMMA SearchFinds ==
    ASSUME NEW p \in Procs, NEW from \in Nat, FreeFrom(p, from) # {}
    PROVE  /\ First(FreeFrom(p, from)) \in FDs
           /\ files[p][First(FreeFrom(p, from))] = Null
           /\ \A fd \in FreeFrom(p, from) : First(FreeFrom(p, from)) <= fd
           /\ First(FreeFrom(p, from)) >= from
  <1>1. FreeFrom(p, from) \in SUBSET Nat  BY DEF FreeFrom, FDs
  <1> QED  BY <1>1, LeastExists DEF FreeFrom

LEMMA RoomIs ==
    ASSUME NEW p \in Procs, NEW n \in {1, 2}, MayTake(p, n), Restraint = 1
    PROVE  /\ FreeFrom(p, FirstFd) # {}
           /\ n = 2 => FreeFrom(p, First(FreeFrom(p, FirstFd)) + 1) # {}
  <1> DEFINE room == FreeFrom(p, FirstFd)
             fd0 == First(room)
  <1>1. IsFiniteSet(room)  BY FDsFinite DEF FreeFrom
  <1>2. Cardinality(room) \in Nat /\ Cardinality(room) >= n
    BY <1>1, FS_CardinalityType DEF MayTake
  <1>3. room # {}  BY <1>1, <1>2, FS_EmptySet
  <1>4. FirstFd \in Nat  BY TableAssumption
  <1>5. fd0 \in room /\ \A fd \in room : fd0 <= fd
    <2>1. room \in SUBSET Nat  BY DEF FreeFrom, FDs
    <2> QED  BY <2>1, <1>3, LeastExists
  <1>6. ASSUME n = 2 PROVE FreeFrom(p, fd0 + 1) # {}
    <2> HIDE DEF fd0, room
    <2>1. IsFiniteSet(room \ {fd0}) /\ Cardinality(room \ {fd0}) = Cardinality(room) - 1
      BY <1>1, <1>5, FS_RemoveElement
    <2>2. room \ {fd0} # {}  BY <1>2, <1>6, <2>1, FS_EmptySet
    <2>3. PICK fd \in room : fd # fd0  BY <2>2
    <2>4. fd \in FreeFrom(p, fd0 + 1)
      BY <1>4, <1>5, <2>3 DEF room, FreeFrom, FDs
    <2> QED  BY <2>4
  <1> QED  BY <1>3, <1>6

-------------------------------------------------------------------------------
LEMMA CloseKeeps ==
    ASSUME IInv, NEW p \in Procs, NEW fd \in FDs, Close(p, fd)
    PROVE  IInv'
  <1>1. /\ Table[p][fd] = files[p][fd] /\ Table[p][fd] \in Files
        /\ Table' = [Table EXCEPT ![p][fd] = Null] /\ fobj' = Released(Table[p][fd], fobj)
    BY CallTable DEF Close, IInv, generic_close
  <1>2. Exact(Table', fobj') /\ fobj' \in Objects
    BY <1>1, Drop, TableIs DEF IInv, Typed
  <1> QED  BY <1>2, InstallTyped DEF Close, IInv

(* A new object takes the free entry fd. *)
LEMMA NewFile ==
    ASSUME IInv, NEW p \in Procs, Calls(p), NEW fd \in FDs, files[p][fd] = Null,
           NEW f \in Unused, NEW type \in {"STD", "REGULAR"}, NEW mode \in SUBSET {"R", "W", "C"},
           fobj' = [fobj EXCEPT ![f] = [type |-> type, mode |-> mode, ref_count |-> 1,
                                        pipe |-> Null]],
           Install(p, fd, f), UNCHANGED <<alive, exiting>>
    PROVE  IInv'
  <1>1. f \in Files /\ fobj[f].ref_count = 0  BY DEF Unused, IInv, Exact
  <1>2. OneMore(fobj, f, fobj')  BY <1>1 DEF IInv, Typed, Objects, OneMore
  <1>3. Table \in Tables /\ Table[p][fd] = Null /\ Table' = [Table EXCEPT ![p][fd] = f]
    BY CallTable DEF IInv
  <1>4. Exact(Table', fobj')
    <2>1. fobj \in Objects /\ Exact(Table, fobj)  BY DEF IInv, Typed
    <2>2. Exact([Table EXCEPT ![p][fd] = f], fobj')  BY <1>1, <1>2, <1>3, <2>1, Put
    <2> QED  BY <1>3, <2>2
  <1> QED  BY <1>1, <1>2, <1>4, InstallTyped DEF IInv, OneMore

(* An object that has a descriptor gets another, in the free entry fd. *)
LEMMA Shared ==
    ASSUME IInv, NEW p \in Procs, Calls(p), NEW fd \in FDs, files[p][fd] = Null,
           NEW old \in FDs, files[p][old] # Null,
           fobj' = [fobj EXCEPT ![files[p][old]].ref_count = @ + 1],
           Install(p, fd, files[p][old]), UNCHANGED <<alive, exiting>>
    PROVE  IInv'
  <1> DEFINE f == files[p][old]
  <1>1. /\ f \in Files /\ Table[p][old] = f /\ Table \in Tables /\ Table[p][fd] = Null
        /\ Table' = [Table EXCEPT ![p][fd] = f]
    BY CallTable DEF IInv
  <1>2. fobj[f].type # "FREE"
    <2>1. <<p, old>> \in Refs(Table, f)  BY <1>1 DEF Refs
    <2> QED  BY <1>1, <2>1, RefsFinite, FS_EmptySet DEF IInv, Exact
  <1>3. OneMore(fobj, f, fobj')  BY <1>1, <1>2 DEF IInv, Typed, Objects, OneMore
  <1>4. Exact(Table', fobj')
    <2>1. fobj \in Objects /\ Exact(Table, fobj)  BY DEF IInv, Typed
    <2> HIDE DEF f
    <2>2. Exact([Table EXCEPT ![p][fd] = f], fobj')  BY <1>1, <1>3, <2>1, Put
    <2> QED  BY <1>1, <2>2
  <1> QED  BY <1>1, <1>3, <1>4, InstallTyped DEF IInv, OneMore

LEMMA OpenStandardIOKeeps ==
    ASSUME IInv, Restraint = 1, NEW p \in Procs, NEW type \in 0 .. FirstFd - 1,
           OpenStandardIO(p, type)
    PROVE  IInv'
  <1>1. type \in FDs  BY TableAssumption DEF FDs
  <1>2. CASE files[p][type] = Null
    <2>1. PICK g \in Unused :
              /\ fobj' = [fobj EXCEPT ![g] =
                            [type |-> "STD", mode |-> IF type = 0 THEN {"R"} ELSE {"W"},
                             ref_count |-> 1, pipe |-> Null]]
              /\ Install(p, type, g)
      BY <1>2 DEF OpenStandardIO
    <2>2. (IF type = 0 THEN {"R"} ELSE {"W"}) \in SUBSET {"R", "W", "C"}  OBVIOUS
    <2> QED  BY <1>1, <1>2, <2>1, <2>2, NewFile DEF OpenStandardIO
  <1>3. CASE files[p][type] # Null
    <2>1. FreeFrom(p, FirstFd) # {}  BY RoomIs DEF OpenStandardIO
    <2>2. /\ First(FreeFrom(p, FirstFd)) \in FDs
          /\ files[p][First(FreeFrom(p, FirstFd))] = Null
      BY <2>1, SearchFinds, TableAssumption
    <2>3. /\ fobj' = [fobj EXCEPT ![files[p][type]].ref_count = @ + 1]
          /\ Install(p, First(FreeFrom(p, FirstFd)), files[p][type])
      BY <1>3, <2>1 DEF OpenStandardIO
    <2> QED  BY <1>1, <1>3, <2>2, <2>3, Shared DEF OpenStandardIO
  <1> QED  BY <1>2, <1>3

LEMMA RegularFileOpenKeeps ==
    ASSUME IInv, Restraint = 1, NEW p \in Procs, NEW n, NEW flags \in OpenFlags,
           NEW mode \in CreateModes, RegularFileOpen(p, n, flags, mode)
    PROVE  IInv'
  <1>1. FreeFrom(p, FirstFd) # {}  BY RoomIs DEF RegularFileOpen
  <1>2. /\ First(FreeFrom(p, FirstFd)) \in FDs
        /\ files[p][First(FreeFrom(p, FirstFd))] = Null
    BY <1>1, SearchFinds, TableAssumption
  <1>3. FileMode(n, flags, mode) \in SUBSET {"R", "W", "C"}
    BY TableAssumption DEF FileMode
  <1>4. PICK f \in Unused :
            /\ fobj' = [fobj EXCEPT ![f] = [type |-> "REGULAR", mode |-> FileMode(n, flags, mode),
                                            ref_count |-> 1, pipe |-> Null]]
            /\ Install(p, First(FreeFrom(p, FirstFd)), f)
    BY <1>1 DEF RegularFileOpen
  <1> QED  BY <1>2, <1>3, <1>4, NewFile DEF RegularFileOpen

LEMMA DupKeeps ==
    ASSUME IInv, NEW p \in Procs, NEW old \in FDs, fd_dup(p, old)
    PROVE  IInv'
  <1>1. First(FreeFrom(p, 0)) \in FDs /\ files[p][First(FreeFrom(p, 0))] = Null
    BY SearchFinds DEF fd_dup
  <1> QED  BY <1>1, Shared DEF fd_dup

(* Two objects, one after the other. *)
LEMMA CreatePipeKeeps ==
    ASSUME IInv, Restraint = 1, NEW p \in Procs, CreatePipe(p)
    PROVE  IInv'
  <1> DEFINE fd0 == First(FreeFrom(p, FirstFd))
             fd1 == First(FreeFrom(p, fd0 + 1))
  <1>1. FreeFrom(p, FirstFd) # {} /\ FreeFrom(p, fd0 + 1) # {}
    BY RoomIs DEF CreatePipe
  <1>2. fd0 \in FDs /\ files[p][fd0] = Null
    BY <1>1, SearchFinds, TableAssumption
  <1>3. fd1 \in FDs /\ files[p][fd1] = Null /\ fd0 # fd1
    <2>1. fd0 + 1 \in Nat  BY <1>2 DEF FDs
    <2>2. fd1 \in FDs /\ files[p][fd1] = Null /\ fd1 >= fd0 + 1
      BY <1>1, <2>1, SearchFinds
    <2> QED  BY <1>2, <2>2 DEF FDs
  <1>4. PICK r \in Unused, w \in Unused, q \in Pipes :
            /\ r # w
            /\ fobj' = [fobj EXCEPT
                  ![r] = [type |-> "PIPE", mode |-> {"R"}, ref_count |-> 1, pipe |-> q],
                  ![w] = [type |-> "PIPE", mode |-> {"W"}, ref_count |-> 1, pipe |-> q]]
            /\ files' = [files EXCEPT ![p][fd0] = r, ![p][fd1] = w]
    BY <1>1 DEF CreatePipe
  <1> HIDE DEF fd0, fd1
  <1> DEFINE mid == [fobj EXCEPT ![r] = [type |-> "PIPE", mode |-> {"R"}, ref_count |-> 1,
                                          pipe |-> q]]
             one == [Table EXCEPT ![p][fd0] = r]
  <1>5. /\ r \in Files /\ w \in Files /\ fobj[r].ref_count = 0 /\ fobj[w].ref_count = 0
        /\ fobj \in Objects /\ Exact(Table, fobj)
    BY DEF Unused, IInv, Exact, Typed
  <1>6. /\ Calls(p) /\ exiting = Null /\ p \in alive /\ Table \in Tables
        /\ Table[p][fd0] = Null /\ Table[p][fd1] = Null
    BY <1>2, <1>3, CallTable DEF CreatePipe, IInv
  <1>7. OneMore(fobj, r, mid) /\ mid \in Objects  BY <1>5 DEF OneMore, Objects
  <1>8. OneMore(mid, w, fobj')
    <2> DEFINE end == [type |-> "PIPE", mode |-> {"W"}, ref_count |-> 1, pipe |-> q]
    <2>1. end \in [type : {"FREE", "STD", "REGULAR", "PIPE"}, mode : SUBSET {"R", "W", "C"},
                   ref_count : Nat, pipe : Pipes \cup {Null}]
          /\ end.ref_count = 1 /\ end.type # "FREE"
      OBVIOUS
    <2>2. mid[w] = fobj[w]  BY <1>4, <1>5 DEF Objects
    <2> HIDE DEF end, mid
    <2>3. fobj' = [mid EXCEPT ![w] = end]  BY <1>4, <1>5 DEF mid, end
    <2> QED  BY <1>5, <1>7, <2>1, <2>2, <2>3 DEF OneMore, Objects
  <1> HIDE DEF mid
  <1>9. Exact(one, mid)  BY <1>2, <1>5, <1>6, <1>7, Put
  <1>10. one \in Tables /\ one[p][fd1] = Null
    BY <1>2, <1>3, <1>5, <1>6 DEF Tables
  <1>11. Table' = [one EXCEPT ![p][fd1] = w]
    <2>1. UNCHANGED <<alive, exiting>>  BY DEF CreatePipe
    <2>2. \A x \in Procs, e \in FDs : Counted(x, e) <=> x \in alive  BY <1>6 DEF Counted
    <2>3. \A x \in Procs, e \in FDs : Counted(x, e)' <=> x \in alive  BY <1>6, <2>1 DEF Counted
    <2>4. \A x \in Procs, e \in FDs :
              files'[x][e] = IF x = p /\ e = fd1 THEN w ELSE IF x = p /\ e = fd0 THEN r
                             ELSE files[x][e]
      BY <1>2, <1>3, <1>4 DEF IInv, Typed, Tables
    <2>5. \A x \in Procs, e \in FDs : Table'[x][e] = [one EXCEPT ![p][fd1] = w][x][e]
      <3>1. \A x \in Procs, e \in FDs : Table'[x][e] = IF x \in alive THEN files'[x][e] ELSE Null
        BY <2>3 DEF Table
      <3>2. \A x \in Procs, e \in FDs : Table[x][e] = IF x \in alive THEN files[x][e] ELSE Null
        BY <2>2 DEF Table
      <3> QED  BY <1>2, <1>3, <1>6, <2>4, <3>1, <3>2 DEF Tables
    <2>6. Table' = [x \in Procs |-> [e \in FDs |-> Table'[x][e]]]  BY DEF Table
    <2>7. [one EXCEPT ![p][fd1] = w] \in [Procs -> [FDs -> Files \cup {Null}]]
      BY <1>5, <1>10 DEF Tables
    <2> DEFINE two == [one EXCEPT ![p][fd1] = w]
    <2> HIDE DEF two
    <2>8. two = [x \in Procs |-> [e \in FDs |-> two[x][e]]]  BY <2>7 DEF two
    <2>9. \A x \in Procs, e \in FDs : Table'[x][e] = two[x][e]  BY <2>5 DEF two
    <2>10. Table' = two  BY <2>6, <2>8, <2>9
    <2> QED  BY <2>10 DEF two
  <1> HIDE DEF one
  <1>12. Exact([one EXCEPT ![p][fd1] = w], fobj')
    BY <1>3, <1>5, <1>7, <1>8, <1>9, <1>10, Put
  <1>13. Typed'
    BY <1>2, <1>3, <1>4, <1>5, <1>8 DEF CreatePipe, IInv, Typed, Tables, OneMore
  <1> QED  BY <1>11, <1>12, <1>13 DEF IInv

(***************************************************************************)
(* dup2 takes the reference before it closes what newfd had; on two         *)
(* different objects the order does not matter, on one it does.             *)
(***************************************************************************)
LEMMA Dup2Keeps ==
    ASSUME IInv, NEW p \in Procs, NEW old \in FDs, NEW new \in FDs, fd_dup2(p, old, new)
    PROVE  IInv'
  <1> DEFINE f == files[p][old]
             g == files[p][new]
             taken == [fobj EXCEPT ![f].ref_count = @ + 1]
  <1>1. /\ Calls(p) /\ Install(p, new, f) /\ UNCHANGED <<alive, exiting>>
        /\ f \in Files /\ g \in Files \cup {Null} /\ Table[p][old] = f /\ Table[p][new] = g
        /\ Table \in Tables /\ Table' = [Table EXCEPT ![p][new] = f]
        /\ fobj \in Objects /\ Exact(Table, fobj)
    BY CallTable DEF fd_dup2, IInv, Typed
  <1>2. fobj[f].type # "FREE" /\ fobj[f].ref_count >= 1 /\ fobj[f].ref_count \in Nat
    <2>1. <<p, old>> \in Refs(Table, f)  BY <1>1 DEF Refs
    <2>2. fobj[f].ref_count # 0  BY <1>1, <2>1, RefsFinite, FS_EmptySet DEF Exact
    <2> QED  BY <1>1, <2>2 DEF Objects, Exact
  <1>3. CASE g = Null
    BY <1>1, <1>3, Shared DEF fd_dup2
  <1>4. CASE g # Null /\ f = g
    <2>1. fobj' = Released(f, taken)  BY <1>4 DEF fd_dup2
    <2>2. \A h \in Files : /\ fobj'[h].ref_count = fobj[h].ref_count
                           /\ fobj'[h].type = fobj[h].type
      BY <1>1, <1>2, <2>1 DEF Released, Objects
    <2>3. fobj' \in Objects  BY <1>1, <1>2, <2>1 DEF Released, Objects
    <2>4. Table' = Table  BY <1>1, <1>4 DEF Tables
    <2>5. Exact(Table', fobj')  BY <1>1, <2>2, <2>4 DEF Exact
    <2> QED  BY <1>1, <2>3, <2>5, InstallTyped DEF IInv
  <1>5. CASE g # Null /\ f # g
    <2> DEFINE T == [Table EXCEPT ![p][new] = Null]
               o == Released(g, fobj)
    <2>1. fobj' = Released(g, taken) /\ g \in Files  BY <1>1, <1>5 DEF fd_dup2
    <2>2. Exact(T, o) /\ o \in Objects  BY <1>1, <2>1, Drop
    <2>3. T \in Tables /\ T[p][new] = Null /\ Table' = [T EXCEPT ![p][new] = f]
      BY <1>1 DEF Tables
    <2>4. OneMore(o, f, fobj')
      <3>1. taken \in Objects /\ \A h \in Files \ {f} : taken[h] = fobj[h]
        BY <1>1, <1>2, <1>5 DEF Objects
      <3>2. taken[f].ref_count = fobj[f].ref_count + 1 /\ taken[f].type # "FREE"
        BY <1>1, <1>2 DEF Objects
      <3>3. o[f] = fobj[f] /\ \A h \in Files \ {g} : o[h] = fobj[h]
        BY <1>1, <1>5 DEF Released, Objects
      <3> HIDE DEF taken
      <3>4. \A h \in Files \ {g} : fobj'[h] = taken[h]
        BY <2>1, <3>1 DEF Released, Objects
      <3>5. fobj'[g] = o[g]
        <4>1. taken[g] = fobj[g] /\ g \in Files  BY <1>5, <2>1, <3>1
        <4> QED  BY <1>1, <2>1, <3>1, <4>1 DEF Released, Objects
      <3>6. fobj' \in Objects
        <4>1. fobj' \in [Files -> [type : {"FREE", "STD", "REGULAR", "PIPE"},
                                   mode : SUBSET {"R", "W", "C"}, ref_count : Int,
                                   pipe : Pipes \cup {Null}]]
          BY <2>1, <3>1 DEF Released, Objects, FreeObj
        <4>2. \A h \in Files : fobj'[h] = IF h = g THEN o[h] ELSE taken[h]
          BY <3>4, <3>5
        <4>3. \A h \in Files : fobj'[h].ref_count \in Nat
          BY <2>2, <3>1, <4>2 DEF Objects
        <4> QED  BY <4>1, <4>3 DEF Objects
      <3> HIDE DEF o, f, g
      <3> QED  BY <1>1, <1>5, <3>1, <3>2, <3>3, <3>4, <3>5, <3>6 DEF OneMore
    <2> HIDE DEF T, o, f, g
    <2>5. Exact([T EXCEPT ![p][new] = f], fobj')  BY <1>1, <2>2, <2>3, <2>4, Put
    <2> QED  BY <1>1, <2>3, <2>4, <2>5, InstallTyped DEF IInv, OneMore
  <1> QED  BY <1>3, <1>4, <1>5

LEMMA ForkKeeps ==
    ASSUME IInv, NEW p \in Procs, NEW c \in Procs, Fork(p, c)
    PROVE  IInv'
  <1>1. /\ exiting = Null /\ p \in alive /\ c \notin alive /\ alive' = alive \cup {c}
        /\ files' = [files EXCEPT ![c] = files[p]] /\ exiting' = exiting
        /\ fobj' = [f \in Files |->
                      [fobj[f] EXCEPT !.ref_count = @ + Cardinality(FdsOf(p, f))]]
    BY DEF Fork, Calls
  <1>2. /\ Table \in Tables /\ fobj \in Objects /\ Exact(Table, fobj)
        /\ \A q \in Procs, fd \in FDs : Counted(q, fd) <=> q \in alive
        /\ \A q \in Procs, fd \in FDs : Counted(q, fd)' <=> q \in alive \cup {c}
    BY <1>1, TableIs DEF Counted, IInv, Typed
  <1>3. Table' = [Table EXCEPT ![c] = Table[p]] /\ \A fd \in FDs : Table[c][fd] = Null
    <2>1. \A fd \in FDs : Table[c][fd] = Null  BY <1>1, <1>2, TableIs
    <2>2. \A q \in Procs, fd \in FDs :
              Table'[q][fd] = IF q \in alive \cup {c} THEN files'[q][fd] ELSE Null
      BY <1>2 DEF Table
    <2>3. \A q \in Procs, fd \in FDs : files'[q][fd] = IF q = c THEN files[p][fd] ELSE files[q][fd]
      BY <1>1 DEF IInv, Typed, Tables
    <2>4. \A q \in Procs, fd \in FDs : Table'[q][fd] = [Table EXCEPT ![c] = Table[p]][q][fd]
      BY <1>1, <1>2, <2>2, <2>3, TableIs DEF Tables
    <2>5. Table' = [q \in Procs |-> [fd \in FDs |-> Table'[q][fd]]]  BY DEF Table
    <2>6. [Table EXCEPT ![c] = Table[p]]
             = [q \in Procs |-> [fd \in FDs |-> [Table EXCEPT ![c] = Table[p]][q][fd]]]
      BY <1>1, <1>2 DEF Tables, IInv, Typed
    <2> QED  BY <2>1, <2>4, <2>5, <2>6
  <1>4. \A f \in Files : FdsOf(p, f) = {fd \in FDs : Table[p][fd] = f}
    BY <1>1, <1>2, TableIs DEF FdsOf
  <1>5. \A f \in Files : Cardinality(FdsOf(p, f)) \in Nat
    <2>1. \A f \in Files : FdsOf(p, f) \in SUBSET FDs  BY DEF FdsOf
    <2> QED  BY <2>1, FDsFinite
  <1>6. \A f \in Files : /\ fobj'[f].ref_count = fobj[f].ref_count + Cardinality(FdsOf(p, f))
                         /\ fobj'[f].type = fobj[f].type /\ fobj'[f].mode = fobj[f].mode
                         /\ fobj'[f].pipe = fobj[f].pipe
    BY <1>1, <1>2 DEF Objects
  <1>7. fobj' \in Objects  BY <1>1, <1>2, <1>5 DEF Objects
  <1>8. Exact([Table EXCEPT ![c] = Table[p]], fobj')
    <2>1. MoreByTable(Table, p, fobj, fobj')  BY <1>4, <1>6 DEF MoreByTable
    <2> QED  BY <1>1, <1>2, <1>3, <2>1, Copy DEF IInv, Typed
  <1>9. Typed'  BY <1>1, <1>7 DEF IInv, Typed, Tables
  <1> QED  BY <1>3, <1>8, <1>9 DEF IInv

-------------------------------------------------------------------------------
(***************************************************************************)
(* do_file_exit: a round takes one descriptor out of Table; the beginning   *)
(* and the end leave Table as it is.                                        *)
(***************************************************************************)
LEMMA BeginExitKeeps ==
    ASSUME IInv, NEW p \in Procs, BeginExit(p)
    PROVE  IInv'
  <1>1. /\ exiting = Null /\ p \in alive /\ exiting' = [proc |-> p, i |-> 0]
        /\ UNCHANGED <<alive, files, fobj>>
    BY DEF BeginExit, Calls
  <1>2. Typed'  BY <1>1, TableAssumption DEF IInv, Typed
  <1>3. \A q \in Procs, fd \in FDs : Counted(q, fd)' <=> Counted(q, fd)
    BY <1>1 DEF Counted, FDs
  <1>4. Table' = Table  BY <1>1, <1>3 DEF Table
  <1> QED  BY <1>1, <1>2, <1>4 DEF IInv

LEMMA ExitRoundKeeps ==
    ASSUME IInv, ExitRound
    PROVE  IInv'
  <1> DEFINE p == exiting.proc
             i == exiting.i
  <1>1. /\ exiting # Null /\ exiting \in [proc : alive, i : 0 .. MAX_OPEN_FILES] /\ i \in FDs
        /\ i < MAX_OPEN_FILES /\ p \in alive /\ p \in Procs
        /\ exiting' = [exiting EXCEPT !.i = @ + 1] /\ UNCHANGED <<alive, files>>
    BY TableAssumption DEF ExitRound, IInv, Typed, FDs
  <1>2. /\ exiting' \in [proc : alive, i : 0 .. MAX_OPEN_FILES] /\ exiting' # Null
        /\ exiting'.proc = p /\ exiting'.i = i + 1
    BY <1>1, TableAssumption DEF IInv, Typed
  <1>3. \A q \in Procs, fd \in FDs :
            Counted(q, fd)' <=> Counted(q, fd) /\ ~(q = p /\ fd = i)
    BY <1>1, <1>2 DEF Counted, FDs
  <1>4. Table' = [Table EXCEPT ![p][i] = Null]
    <2>1. Table \in Tables  BY TableIs DEF IInv
    <2> QED  BY <1>1, <1>3, <2>1 DEF Table, Tables
  <1>5. Table[p][i] = files[p][i]  BY <1>1, TableIs DEF Counted
  <1>6. Table[p][i] \in Files \cup {Null} /\ Table \in Tables /\ fobj \in Objects
    BY <1>1, TableIs DEF IInv, Typed, Tables
  <1>7. CASE files[p][i] = Null
    <2>1. fobj' = fobj  BY <1>7 DEF ExitRound
    <2>2. Table' = Table  BY <1>1, <1>4, <1>5, <1>6, <1>7 DEF Tables
    <2> QED  BY <1>1, <1>2, <2>1, <2>2 DEF IInv, Typed
  <1>8. CASE files[p][i] # Null
    <2>1. fobj' = Released(Table[p][i], fobj)  BY <1>5, <1>8 DEF ExitRound, generic_close
    <2>2. Exact([Table EXCEPT ![p][i] = Null], fobj') /\ fobj' \in Objects
      BY <1>1, <1>5, <1>6, <1>8, <2>1, Drop DEF IInv
    <2> QED  BY <1>1, <1>2, <1>4, <2>2 DEF IInv, Typed
  <1> QED  BY <1>7, <1>8

LEMMA EndExitKeeps ==
    ASSUME IInv, EndExit
    PROVE  IInv'
  <1>1. /\ exiting # Null /\ exiting \in [proc : alive, i : 0 .. MAX_OPEN_FILES]
        /\ exiting.i = MAX_OPEN_FILES /\ exiting' = Null /\ fobj' = fobj
        /\ alive' = alive \ {exiting.proc}
        /\ files' = [files EXCEPT ![exiting.proc] = [fd \in FDs |-> Null]]
    BY DEF EndExit, IInv, Typed
  <1>2. Typed'  BY <1>1 DEF IInv, Typed, Tables
  <1>3. \A q \in Procs, fd \in FDs : Counted(q, fd)' <=> Counted(q, fd)
    BY <1>1, TableAssumption DEF Counted, FDs
  <1>4. \A q \in Procs, fd \in FDs : Counted(q, fd) => files'[q][fd] = files[q][fd]
    BY <1>1, TableAssumption DEF Counted, FDs, IInv, Typed, Tables
  <1>5. Table' = Table  BY <1>3, <1>4 DEF Table
  <1> QED  BY <1>1, <1>2, <1>5 DEF IInv

LEMMA StepIInv == Restraint = 1 /\ IInv /\ [Next]_vars => IInv'
  <1> SUFFICES ASSUME Restraint = 1, IInv, [Next]_vars PROVE IInv'  OBVIOUS
  <1>1. CASE UNCHANGED vars
    <2>1. Table' = Table  BY <1>1 DEF vars, Table, Counted
    <2> QED  BY <1>1, <2>1 DEF vars, IInv, Typed
  <1>2. CASE \E p \in Procs : \E type \in 0 .. FirstFd - 1 : OpenStandardIO(p, type)
    BY <1>2, OpenStandardIOKeeps
  <1>3. CASE \E p \in Procs : \E n \in Names, flags \in OpenFlags, mode \in CreateModes :
                RegularFileOpen(p, n, flags, mode)
    BY <1>3, RegularFileOpenKeeps
  <1>4. CASE \E p \in Procs : CreatePipe(p)  BY <1>4, CreatePipeKeeps
  <1>5. CASE \E p \in Procs : \E fd \in FDs : Close(p, fd) \/ fd_dup(p, fd)
    BY <1>5, CloseKeeps, DupKeeps
  <1>6. CASE \E p \in Procs : \E oldfd, newfd \in FDs : fd_dup2(p, oldfd, newfd)
    BY <1>6, Dup2Keeps
  <1>7. CASE \E p \in Procs : \E c \in Procs : Fork(p, c)  BY <1>7, ForkKeeps
  <1>8. CASE \E p \in Procs : BeginExit(p)  BY <1>8, BeginExitKeeps
  <1>9. CASE ExitRound \/ EndExit  BY <1>9, ExitRoundKeeps, EndExitKeeps
  <1> QED  BY <1>1, <1>2, <1>3, <1>4, <1>5, <1>6, <1>7, <1>8, <1>9 DEF Next, Halted

(***************************************************************************)
(* ref_count is the number of descriptors that share the object, and an     *)
(* object is free exactly when there are none, for any number of processes, *)
(* objects and descriptors, when processes leave room in their tables       *)
(* (file.c:87-142, 311-368).                                                *)
(***************************************************************************)
THEOREM RefCounts == Restraint = 1 /\ Spec => []RefCountExact
  <1>1. Restraint = 1 /\ IInv /\ [][Next]_vars => []IInv
    <2> SUFFICES ASSUME Restraint = 1 PROVE IInv /\ [][Next]_vars => []IInv
      OBVIOUS
    <2>1. IInv /\ [Next]_vars => IInv'  BY StepIInv
    <2> QED  BY <2>1, PTL
  <1> QED  BY InitIInv, IInvMeans, <1>1, PTL DEF Spec

-------------------------------------------------------------------------------
(***************************************************************************)
(* Pipes.  PipeEndsAgree is kept when at most one object stands for an end: *)
(* then the end goes with that object's last descriptor.                    *)
(***************************************************************************)
Ends(q, m) == {f \in Files : fobj[f].pipe = q /\ fobj[f].mode = {m}}

Shape ==
    /\ pipes \in [Pipes -> {Null} \cup [ropen : BOOLEAN, wopen : BOOLEAN]]
    /\ \A f \in Files : /\ fobj[f].type = "PIPE" => /\ fobj[f].pipe \in Pipes
                                                    /\ fobj[f].mode \in {{"R"}, {"W"}}
                        /\ fobj[f].type # "PIPE" => fobj[f].pipe = Null

OneObjectPerEnd ==
    \A f, h \in Files : fobj[f].type = "PIPE" /\ fobj[f].pipe = fobj[h].pipe
                        /\ fobj[f].mode = fobj[h].mode => f = h

PInv == IInv /\ Shape /\ OneObjectPerEnd /\ PipeEndsAgree

(* PipeEndsAgree for one pipe with the objects R and W for its ends. *)
Agree(info, R, W) ==
    /\ info = Null => R = {} /\ W = {}
    /\ info # Null => /\ info.ropen <=> R # {}
                      /\ info.wopen <=> W # {}
                      /\ info.ropen \/ info.wopen

LEMMA AgreeMeans ==
    /\ PipeEndsAgree <=> \A q \in Pipes : Agree(pipes[q], Ends(q, "R"), Ends(q, "W"))
    /\ PipeEndsAgree' <=> \A q \in Pipes : Agree(pipes'[q], Ends(q, "R")', Ends(q, "W")')
  BY DEF PipeEndsAgree, Ends, Agree

LEMMA InitPInv == Init => PInv
  <1> SUFFICES ASSUME Init PROVE PInv  OBVIOUS
  <1>1. /\ pipes = [q \in Pipes |-> Null]
        /\ \A f \in Files : fobj[f].type = "FREE" /\ fobj[f].pipe = Null
    BY DEF Init, FreeObj
  <1>2. Shape /\ OneObjectPerEnd  BY <1>1 DEF Shape, OneObjectPerEnd
  <1>3. \A q \in Pipes : Ends(q, "R") = {} /\ Ends(q, "W") = {}
    BY <1>1, TableAssumption DEF Ends
  <1>4. PipeEndsAgree  BY <1>1, <1>3 DEF PipeEndsAgree, Ends
  <1> QED  BY InitIInv, <1>2, <1>4 DEF PInv

(* Calls that leave the pipes, and the objects that stand for their ends. *)
LEMMA EndsKept ==
    ASSUME Shape, OneObjectPerEnd, PipeEndsAgree, UNCHANGED pipes,
           \A f \in Files : /\ fobj'[f].pipe = fobj[f].pipe
                            /\ fobj'[f].type = "PIPE" <=> fobj[f].type = "PIPE"
                            /\ fobj[f].type = "PIPE" => fobj'[f].mode = fobj[f].mode
    PROVE  Shape' /\ OneObjectPerEnd' /\ PipeEndsAgree'
  <1>1. Shape'  BY DEF Shape
  <1>2. \A q \in Pipes, m \in {"R", "W"} : Ends(q, m)' = Ends(q, m)
    BY TableAssumption DEF Ends, Shape
  <1>3. OneObjectPerEnd'
    BY TableAssumption DEF OneObjectPerEnd, Shape
  <1>4. PipeEndsAgree'
    <2>1. \A q \in Pipes : Ends(q, "R")' = Ends(q, "R") /\ Ends(q, "W")' = Ends(q, "W")
      BY <1>2
    <2> QED  BY <2>1 DEF PipeEndsAgree, Ends
  <1> QED  BY <1>1, <1>3, <1>4

(* The last descriptor of f goes, and with f its end of the pipe. *)
LEMMA EndGoes ==
    ASSUME Shape, OneObjectPerEnd, PipeEndsAgree, NEW f \in Files, fobj[f].type = "PIPE",
           fobj[f].ref_count = 1, pipes' = PipesAfterClose(f),
           fobj'[f].type # "PIPE", fobj'[f].pipe = Null,
           \A h \in Files \ {f} : /\ fobj'[h].pipe = fobj[h].pipe
                                  /\ fobj'[h].type = "PIPE" <=> fobj[h].type = "PIPE"
                                  /\ fobj[h].type = "PIPE" => fobj'[h].mode = fobj[h].mode
    PROVE  Shape' /\ OneObjectPerEnd' /\ PipeEndsAgree'
  <1> DEFINE q == fobj[f].pipe
             left == [pipes[q] EXCEPT ![EndOf(f)] = FALSE]
  <1>1. q \in Pipes /\ fobj[f].mode \in {{"R"}, {"W"}}  BY DEF Shape
  <1>2. pipes[q] # Null /\ pipes[q] \in [ropen : BOOLEAN, wopen : BOOLEAN]
    <2>1. f \in Ends(q, "R") \/ f \in Ends(q, "W")  BY <1>1 DEF Ends
    <2>2. pipes[q] # Null  BY <1>1, <2>1, AgreeMeans DEF Agree
    <2> QED  BY <1>1, <2>2 DEF Shape
  <1>3. /\ fobj[f].mode = {"R"} => left = [pipes[q] EXCEPT !.ropen = FALSE]
        /\ fobj[f].mode = {"W"} => left = [pipes[q] EXCEPT !.wopen = FALSE]
    BY DEF EndOf
  <1>4. pipes' = [pipes EXCEPT ![q] = IF ~left.ropen /\ ~left.wopen THEN Null ELSE left]
    BY DEF PipesAfterClose
  <1> HIDE DEF left
  <1>5. left \in [ropen : BOOLEAN, wopen : BOOLEAN]
    BY <1>1, <1>2, <1>3
  <1>6. Shape'  BY <1>1, <1>4, <1>5, TableAssumption DEF Shape
  <1>7. OneObjectPerEnd'
    BY <1>1, TableAssumption DEF OneObjectPerEnd, Shape
  <1>8. \A r \in Pipes, m \in {"R", "W"} :
            Ends(r, m)' = IF r = q /\ fobj[f].mode = {m} THEN {} ELSE Ends(r, m)
    <2> SUFFICES ASSUME NEW r \in Pipes, NEW m \in {"R", "W"}
                 PROVE  Ends(r, m)' = IF r = q /\ fobj[f].mode = {m} THEN {} ELSE Ends(r, m)
      OBVIOUS
    <2>1. \A h \in Files : h \in Ends(r, m)' <=> h # f /\ h \in Ends(r, m)
      BY TableAssumption DEF Ends, Shape
    <2>2. f \in Ends(r, m) <=> r = q /\ fobj[f].mode = {m}  BY DEF Ends
    <2>3. \A h \in Ends(r, m) : f \in Ends(r, m) => h = f  BY DEF OneObjectPerEnd, Ends
    <2>4. Ends(r, m) \subseteq Files /\ Ends(r, m)' \subseteq Files  BY DEF Ends
    <2> QED  BY <2>1, <2>2, <2>3, <2>4
  <1>9. ASSUME NEW r \in Pipes PROVE Agree(pipes'[r], Ends(r, "R")', Ends(r, "W")')
    <2>1. Agree(pipes[r], Ends(r, "R"), Ends(r, "W"))  BY AgreeMeans
    <2>2. CASE r # q
      <3>1. pipes'[r] = pipes[r]  BY <1>1, <1>4, <2>2 DEF Shape
      <3> QED  BY <1>8, <2>1, <2>2, <3>1
    <2>3. CASE r = q
      <3>1. pipes'[r] = IF ~left.ropen /\ ~left.wopen THEN Null ELSE left
        BY <1>1, <1>4, <2>3 DEF Shape
      <3>2. left # Null  BY <1>5, TableAssumption
      <3>3. CASE fobj[f].mode = {"R"}
        <4>1. ~left.ropen /\ left.wopen = pipes[q].wopen  BY <1>2, <1>3, <3>3
        <4>2. Ends(r, "R")' = {} /\ Ends(r, "W")' = Ends(r, "W")  BY <1>8, <2>3, <3>3
        <4> QED  BY <1>2, <2>1, <2>3, <3>1, <3>2, <4>1, <4>2 DEF Agree
      <3>4. CASE fobj[f].mode = {"W"}
        <4>1. ~left.wopen /\ left.ropen = pipes[q].ropen  BY <1>2, <1>3, <3>4
        <4>2. Ends(r, "W")' = {} /\ Ends(r, "R")' = Ends(r, "R")  BY <1>8, <2>3, <3>4
        <4> QED  BY <1>2, <2>1, <2>3, <3>1, <3>2, <4>1, <4>2 DEF Agree
      <3> QED  BY <1>1, <3>3, <3>4
    <2> QED  BY <2>2, <2>3
  <1>10. PipeEndsAgree'  BY <1>9, AgreeMeans
  <1> QED  BY <1>6, <1>7, <1>10

(* generic_close on f; other objects may be counted anew, and nothing else. *)
SameKind(h) ==
    /\ fobj'[h].pipe = fobj[h].pipe /\ fobj'[h].mode = fobj[h].mode
    /\ fobj'[h].type = fobj[h].type

LEMMA ReleaseEnds ==
    ASSUME Shape, OneObjectPerEnd, PipeEndsAgree, NEW f \in Files, pipes' = PipesAfterClose(f),
           IF fobj[f].ref_count = 1 THEN fobj'[f] = FreeObj ELSE SameKind(f),
           \A h \in Files \ {f} : SameKind(h)
    PROVE  Shape' /\ OneObjectPerEnd' /\ PipeEndsAgree'
  <1>1. FreeObj.type = "FREE" /\ FreeObj.pipe = Null  BY DEF FreeObj
  <1>2. CASE fobj[f].ref_count = 1 /\ fobj[f].type = "PIPE"
    BY <1>1, <1>2, EndGoes DEF SameKind
  <1>3. CASE ~(fobj[f].ref_count = 1 /\ fobj[f].type = "PIPE")
    <2>1. UNCHANGED pipes  BY <1>3 DEF PipesAfterClose
    <2>2. \A h \in Files : /\ fobj'[h].pipe = fobj[h].pipe
                           /\ fobj'[h].type = "PIPE" <=> fobj[h].type = "PIPE"
                           /\ fobj[h].type = "PIPE" => fobj'[h].mode = fobj[h].mode
      BY <1>1, <1>3 DEF SameKind, Shape
    <2> QED  BY <2>1, <2>2, EndsKept
  <1> QED  BY <1>2, <1>3

LEMMA CloseEnds ==
    ASSUME PInv, NEW f \in Files, generic_close(f)
    PROVE  Shape' /\ OneObjectPerEnd' /\ PipeEndsAgree'
  <1>1. fobj' = Released(f, fobj) /\ pipes' = PipesAfterClose(f) /\ fobj \in Objects
    BY DEF generic_close, PInv, IInv, Typed
  <1>2. IF fobj[f].ref_count = 1 THEN fobj'[f] = FreeObj ELSE SameKind(f)
    BY <1>1 DEF Released, Objects, SameKind
  <1>3. \A h \in Files \ {f} : SameKind(h)  BY <1>1 DEF Released, Objects, SameKind
  <1> QED  BY <1>1, <1>2, <1>3, ReleaseEnds DEF PInv

LEMMA Dup2Ends ==
    ASSUME PInv, NEW p \in Procs, NEW old \in FDs, NEW new \in FDs, fd_dup2(p, old, new)
    PROVE  Shape' /\ OneObjectPerEnd' /\ PipeEndsAgree'
  <1> DEFINE f == files[p][old]
             g == files[p][new]
             taken == [fobj EXCEPT ![f].ref_count = @ + 1]
  <1>1. f \in Files /\ g \in Files \cup {Null} /\ fobj \in Objects /\ Table[p][old] = f
    BY CallTable DEF fd_dup2, PInv, IInv, Typed
  <1>2. /\ \A h \in Files \ {f} : taken[h] = fobj[h]
        /\ taken[f].ref_count = fobj[f].ref_count + 1
        /\ \A h \in Files : /\ taken[h].pipe = fobj[h].pipe /\ taken[h].mode = fobj[h].mode
                            /\ taken[h].type = fobj[h].type
    BY <1>1 DEF Objects
  <1>3. CASE g = Null
    <2>1. fobj' = taken /\ UNCHANGED pipes  BY <1>3 DEF fd_dup2
    <2> QED  BY <1>2, <2>1, EndsKept DEF PInv
  <1>4. CASE g # Null
    <2>1. fobj' = Released(g, taken) /\ taken \in [Files -> {taken[h] : h \in Files}]
      BY <1>1, <1>4 DEF fd_dup2, Objects
    <2> HIDE DEF taken
    <2>2. \A h \in Files \ {g} : SameKind(h)
      BY <1>2, <2>1 DEF SameKind, Released
    <2>3. IF taken[g].ref_count = 1 THEN fobj'[g] = FreeObj ELSE SameKind(g)
      BY <1>1, <1>2, <1>4, <2>1 DEF SameKind, Released
    <2>4. CASE f = g
      <3>1. fobj[f].ref_count # 0
        <4>1. <<p, old>> \in Refs(Table, f)  BY <1>1 DEF Refs
        <4> QED  BY <1>1, <4>1, RefsFinite, FS_EmptySet DEF PInv, IInv, Exact
      <3>2. taken[g].ref_count # 1
        <4>1. fobj[f].ref_count \in Nat  BY <1>1 DEF Objects
        <4> HIDE DEF f, g
        <4>2. taken[f].ref_count # 1  BY <1>2, <3>1, <4>1
        <4> QED  BY <2>4, <4>2
      <3>3. UNCHANGED pipes  BY <1>4, <2>4 DEF fd_dup2
      <3>4. \A h \in Files : SameKind(h)  BY <2>2, <2>3, <3>2
      <3> QED  BY <3>3, <3>4, EndsKept DEF PInv, SameKind
    <2>5. CASE f # g
      <3>1. pipes' = PipesAfterClose(g)  BY <1>4, <2>5 DEF fd_dup2
      <3>2. taken[g] = fobj[g] /\ g \in Files  BY <1>1, <1>2, <1>4, <2>5
      <3> QED  BY <2>2, <2>3, <3>1, <3>2, ReleaseEnds DEF PInv
    <2> QED  BY <2>4, <2>5
  <1> QED  BY <1>3, <1>4

(* A new object that is no pipe end, and one that gets a descriptor more. *)
LEMMA NewFileEnds ==
    ASSUME PInv, UNCHANGED pipes, NEW f \in Unused, NEW type \in {"STD", "REGULAR"}, NEW mode,
           fobj' = [fobj EXCEPT ![f] = [type |-> type, mode |-> mode, ref_count |-> 1,
                                        pipe |-> Null]]
    PROVE  Shape' /\ OneObjectPerEnd' /\ PipeEndsAgree'
  <1>1. f \in Files /\ fobj[f].type = "FREE" /\ fobj[f].pipe = Null /\ fobj \in Objects
    BY DEF Unused, PInv, Shape, IInv, Typed
  <1>2. \A h \in Files : /\ fobj'[h].pipe = fobj[h].pipe
                         /\ fobj'[h].type = "PIPE" <=> fobj[h].type = "PIPE"
                         /\ fobj[h].type = "PIPE" => fobj'[h].mode = fobj[h].mode
    BY <1>1 DEF Objects
  <1> QED  BY <1>2, EndsKept DEF PInv

LEMMA SharedEnds ==
    ASSUME PInv, UNCHANGED pipes, NEW f,
           fobj' = [fobj EXCEPT ![f].ref_count = @ + 1]
    PROVE  Shape' /\ OneObjectPerEnd' /\ PipeEndsAgree'
  <1>1. \A h \in Files : SameKind(h)  BY DEF PInv, IInv, Typed, Objects, SameKind
  <1> QED  BY <1>1, EndsKept DEF PInv, SameKind

(* create_pipe: a pipe nobody has an end of gets one object for each. *)
LEMMA CreatePipeEnds ==
    ASSUME PInv, NEW p \in Procs, CreatePipe(p)
    PROVE  Shape' /\ OneObjectPerEnd' /\ PipeEndsAgree'
  <1>1. PICK r \in Unused, w \in Unused, q \in Pipes :
            /\ r # w /\ pipes[q] = Null
            /\ pipes' = [pipes EXCEPT ![q] = [ropen |-> TRUE, wopen |-> TRUE]]
            /\ fobj' = [fobj EXCEPT
                  ![r] = [type |-> "PIPE", mode |-> {"R"}, ref_count |-> 1, pipe |-> q],
                  ![w] = [type |-> "PIPE", mode |-> {"W"}, ref_count |-> 1, pipe |-> q]]
    BY DEF CreatePipe
  <1>2. r \in Files /\ w \in Files /\ fobj[r].type = "FREE" /\ fobj[w].type = "FREE"
        /\ fobj[r].pipe = Null /\ fobj[w].pipe = Null /\ fobj \in Objects
    BY DEF Unused, PInv, Shape, IInv, Typed
  <1>3. /\ fobj'[r].type = "PIPE" /\ fobj'[r].mode = {"R"} /\ fobj'[r].pipe = q
        /\ fobj'[w].type = "PIPE" /\ fobj'[w].mode = {"W"} /\ fobj'[w].pipe = q
        /\ \A h \in Files \ {r, w} : fobj'[h] = fobj[h]
    BY <1>1, <1>2 DEF Objects
  <1>4. Ends(q, "R") = {} /\ Ends(q, "W") = {}  BY <1>1, AgreeMeans DEF PInv, Agree
  <1>5. \A h \in Files : fobj[h].type = "PIPE" => fobj[h].pipe # q
    BY <1>4 DEF Ends, PInv, Shape
  <1>6. {"R"} # {"W"}  OBVIOUS
  <1>7. Shape'
    <2>1. pipes' \in [Pipes -> {Null} \cup [ropen : BOOLEAN, wopen : BOOLEAN]]
      BY <1>1 DEF PInv, Shape
    <2> QED  BY <1>3, <2>1 DEF PInv, Shape
  <1>8. OneObjectPerEnd'
    <2> SUFFICES ASSUME NEW f \in Files, NEW h \in Files, fobj'[f].type = "PIPE",
                        fobj'[f].pipe = fobj'[h].pipe, fobj'[f].mode = fobj'[h].mode
                 PROVE  f = h
      BY DEF OneObjectPerEnd
    <2>1. \A g \in Files \ {r, w} : fobj'[g].pipe # q
      BY <1>3, <1>5, TableAssumption DEF PInv, Shape
    <2>2. CASE f \in {r, w}  BY <1>3, <1>6, <2>1, <2>2
    <2>3. CASE f \notin {r, w}
      <3>1. h \notin {r, w}  BY <1>3, <2>1, <2>3
      <3> QED  BY <1>3, <2>3, <3>1 DEF PInv, OneObjectPerEnd
    <2> QED  BY <2>2, <2>3
  <1>9. Ends(q, "R")' # {} /\ Ends(q, "W")' # {}
    <2>1. r \in Ends(q, "R")' /\ w \in Ends(q, "W")'  BY <1>2, <1>3 DEF Ends
    <2> QED  BY <2>1
  <1>10. ASSUME NEW s \in Pipes PROVE Agree(pipes'[s], Ends(s, "R")', Ends(s, "W")')
    <2>1. CASE s = q
      <3>1. pipes'[q] = [ropen |-> TRUE, wopen |-> TRUE]  BY <1>1 DEF PInv, Shape
      <3>2. pipes'[q] # Null /\ pipes'[q].ropen /\ pipes'[q].wopen
        <4> DEFINE both == [ropen |-> TRUE, wopen |-> TRUE]
        <4>1. both \in [ropen : BOOLEAN, wopen : BOOLEAN] /\ both.ropen /\ both.wopen
          OBVIOUS
        <4> HIDE DEF both
        <4>2. pipes'[q] = both  BY <3>1 DEF both
        <4>3. both # Null  BY <4>1, TableAssumption
        <4> QED  BY <4>1, <4>2, <4>3
      <3> QED  BY <1>9, <2>1, <3>2 DEF Agree
    <2>2. CASE s # q
      <3>1. pipes'[s] = pipes[s]  BY <1>1, <2>2 DEF PInv, Shape
      <3>2. Ends(s, "R")' = Ends(s, "R") /\ Ends(s, "W")' = Ends(s, "W")
        BY <1>2, <1>3, <2>2, TableAssumption DEF Ends
      <3>3. Agree(pipes[s], Ends(s, "R"), Ends(s, "W"))  BY AgreeMeans DEF PInv
      <3> QED  BY <3>1, <3>2, <3>3
    <2> QED  BY <2>1, <2>2
  <1>11. PipeEndsAgree'  BY <1>10, AgreeMeans
  <1> QED  BY <1>7, <1>8, <1>11

LEMMA StepPInv == Restraint = 1 /\ PInv /\ [Next]_vars => PInv'
  <1> SUFFICES ASSUME Restraint = 1, PInv, [Next]_vars
               PROVE  Shape' /\ OneObjectPerEnd' /\ PipeEndsAgree'
    BY StepIInv DEF PInv
  <1>1. ASSUME UNCHANGED <<fobj, pipes>> PROVE Shape' /\ OneObjectPerEnd' /\ PipeEndsAgree'
    BY <1>1, EndsKept DEF PInv
  <1>2. CASE UNCHANGED vars  BY <1>1, <1>2 DEF vars
  <1>3. ASSUME NEW p \in Procs, NEW type \in 0 .. FirstFd - 1, OpenStandardIO(p, type)
        PROVE  Shape' /\ OneObjectPerEnd' /\ PipeEndsAgree'
    <2>1. CASE files[p][type] = Null
      BY <1>3, <2>1, NewFileEnds DEF OpenStandardIO
    <2>2. CASE files[p][type] # Null
      BY <1>3, <2>2, SharedEnds DEF OpenStandardIO
    <2> QED  BY <2>1, <2>2
  <1>4. ASSUME NEW p \in Procs, NEW n \in Names, NEW flags \in OpenFlags,
               NEW mode \in CreateModes, RegularFileOpen(p, n, flags, mode)
        PROVE  Shape' /\ OneObjectPerEnd' /\ PipeEndsAgree'
    BY <1>4, NewFileEnds DEF RegularFileOpen
  <1>5. ASSUME NEW p \in Procs, NEW fd \in FDs, Close(p, fd) \/ fd_dup(p, fd)
        PROVE  Shape' /\ OneObjectPerEnd' /\ PipeEndsAgree'
    <2>1. CASE Close(p, fd)
      <3>1. files[p][fd] \in Files  BY <2>1 DEF Close, PInv, IInv, Typed, Tables
      <3> QED  BY <2>1, <3>1, CloseEnds DEF Close
    <2>2. CASE fd_dup(p, fd)  BY <2>2, SharedEnds DEF fd_dup
    <2> QED  BY <1>5, <2>1, <2>2
  <1>6. ASSUME NEW p \in Procs, NEW c \in Procs, Fork(p, c)
        PROVE  Shape' /\ OneObjectPerEnd' /\ PipeEndsAgree'
    <2>1. \A h \in Files : SameKind(h)
      BY <1>6 DEF Fork, PInv, IInv, Typed, Objects, SameKind
    <2> QED  BY <1>6, <2>1, EndsKept DEF Fork, PInv, SameKind
  <1>7. CASE ExitRound
    <2>1. CASE files[exiting.proc][exiting.i] = Null  BY <1>1, <1>7, <2>1 DEF ExitRound
    <2>2. CASE files[exiting.proc][exiting.i] # Null
      <3>1. exiting.proc \in Procs /\ exiting.i \in FDs
        BY <1>7, TableAssumption DEF ExitRound, PInv, IInv, Typed, FDs
      <3>2. files[exiting.proc][exiting.i] \in Files
        BY <2>2, <3>1 DEF PInv, IInv, Typed, Tables
      <3> QED  BY <1>7, <2>2, <3>2, CloseEnds DEF ExitRound
    <2> QED  BY <2>1, <2>2
  <1>8. CASE EndExit \/ \E p \in Procs : BeginExit(p)  BY <1>1, <1>8 DEF EndExit, BeginExit
  <1>9. CASE \E p \in Procs : CreatePipe(p)  BY <1>9, CreatePipeEnds
  <1>10. CASE \E p \in Procs : \E oldfd, newfd \in FDs : fd_dup2(p, oldfd, newfd)
    BY <1>10, Dup2Ends
  <1> QED
    BY <1>2, <1>3, <1>4, <1>5, <1>6, <1>7, <1>8, <1>9, <1>10 DEF Next, Halted

(***************************************************************************)
(* A pipe's open flags say whether an object for that end exists anywhere,  *)
(* and the pipe lives as long as one does: the first close of an end shared *)
(* by fork, dup or dup2 does not shut it, and the last one does             *)
(* (generic_close, file.c:128-139).                                         *)
(***************************************************************************)
THEOREM PipeEnds == Restraint = 1 /\ Spec => []PipeEndsAgree
  <1>1. Restraint = 1 /\ PInv /\ [][Next]_vars => []PInv
    <2> SUFFICES ASSUME Restraint = 1 PROVE PInv /\ [][Next]_vars => []PInv
      OBVIOUS
    <2>1. PInv /\ [Next]_vars => PInv'  BY StepPInv
    <2> QED  BY <2>1, PTL
  <1>2. PInv => PipeEndsAgree  BY DEF PInv
  <1> QED  BY InitPInv, <1>1, <1>2, PTL DEF Spec
===============================================================================
