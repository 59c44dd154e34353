-------------------------------- MODULE VmArea --------------------------------
(***************************************************************************)
(* Assignment 3, mmap.c: the list of vm_areas of a process and the page     *)
(* table entries of the pages of the mmap area.                             *)
(*                                                                         *)
(* gemOS runs a system call or a fault to completion, so a call is an       *)
(* action; vm_area_mprotect, which calls itself after it has changed the    *)
(* list, takes one action per level, with everything else held back.  Calls *)
(* that only return -1 change nothing and are left out.  Addresses are page *)
(* aligned and lengths at least 1, as the system call layer promises.  What *)
(* a page holds is "fresh" until the process writes to it: map_physical_page *)
(* with pfn 0, which is not in the repository, installs a new frame.        *)
(***************************************************************************)
EXTENDS Integers, Sequences, FiniteSets

CONSTANTS MMAP_AREA_START, MMAP_AREA_END,
          PAGE,             \* 4096
          MAX_VM,           \* 128: the limit on the number of areas
          Prots,            \* the prot arguments, as sets of "R" and "W"
          FlagSets,         \* the flags arguments, as sets of "FIXED" and "POPULATE"
          Lengths,          \* the length arguments
          Null

ASSUME VmAssumption ==
    /\ {MMAP_AREA_START, MMAP_AREA_END, PAGE, MAX_VM} \subseteq Nat \ {0}
    /\ MMAP_AREA_START < MMAP_AREA_END
    /\ MMAP_AREA_START % PAGE = 0 /\ MMAP_AREA_END % PAGE = 0
    /\ Prots \subseteq (SUBSET {"R", "W"}) \ {{}}
    /\ FlagSets \subseteq SUBSET {"FIXED", "POPULATE"}
    /\ Lengths \subseteq Nat \ {0}
    /\ Null \notin [addr : Nat, length : Nat, prot : SUBSET {"R", "W"}]

VARIABLES areas,        \* current->vm_area: the list of areas
          pt,           \* the page table: page -> entry, or Null
          call,         \* the level of vm_area_mprotect in progress, or Null
          hung          \* the length a call of mmap searches for without end, or 0

vars == <<areas, pt, call, hung>>

Pages == {x \in MMAP_AREA_START .. MMAP_AREA_END - 1 : x % PAGE = 0}

Init ==
    /\ areas = <<>>
    /\ pt = [p \in Pages |-> Null]
    /\ call = Null
    /\ hung = 0

Idle == call = Null /\ hung = 0

-------------------------------------------------------------------------------
(* Lists of areas. *)
Area(start, end, flags) == [vm_start |-> start, vm_end |-> end, access_flags |-> flags]

(* The list with areas i .. j replaced by those of s. *)
Splice(i, j, s) == SubSeq(areas, 1, i - 1) \o s \o SubSeq(areas, j + 1, Len(areas))

(* The number of areas that end at or before address a. *)
Behind(a) == Cardinality({i \in DOMAIN areas : areas[i].vm_end <= a})

(* The tests of vm_count before an area is allocated: >= 128 where the list
   gets one longer, >= 127 where it gets two longer *)
WithinLimit(s) == Len(s) <= MAX_VM

\* Mutant: areas are merged whatever their rights
MutEndsAt(i, a, prot) == i > 0 /\ areas[i].vm_end = a

(* Area i ends, area i + 1 starts, at an address and has the rights prot. *)
EndsAt(i, a, prot)   == i > 0 /\ areas[i].vm_end = a /\ areas[i].access_flags = prot
StartsAt(i, a, prot) == i < Len(areas) /\ areas[i + 1].vm_start = a /\ areas[i + 1].access_flags = prot

Contains(i, x) == areas[i].vm_start <= x /\ x < areas[i].vm_end

\* Mutant: the length is not rounded
MutRounded(length) == length

(* if( length % 4096 != 0 ) length += 4096 - length%4096 *)
Rounded(length) == length + ((PAGE - (length % PAGE)) % PAGE)

-------------------------------------------------------------------------------
(* Page table entries. *)
Entry(prot) == [w |-> "W" \in prot, data |-> "fresh"]

\* Mutant: "<=" in the loop
Mutmap(a, b, prot) == [p \in Pages |-> IF a <= p /\ p <= b THEN Entry(prot) ELSE pt[p]]

map(a, b, prot) == [p \in Pages |-> IF a <= p /\ p < b THEN Entry(prot) ELSE pt[p]]

unmap(a, b) == [p \in Pages |-> IF a <= p /\ p < b THEN Null ELSE pt[p]]

\* Mutant: entries that exist keep their rights
Mutupdate_map(a, b, prot) == pt

(* Every page that is there is replaced by a new one. *)
update_map(a, b, prot) ==
    [p \in Pages |-> IF a <= p /\ p < b /\ pt[p] # Null THEN Entry(prot) ELSE pt[p]]

(* The first area in the list that contains x; 0 if none does. *)
AreaOf(x) ==
    LET I == {i \in DOMAIN areas : Contains(i, x)}
    IN  IF I = {} THEN 0 ELSE CHOOSE i \in I : \A j \in I : i <= j

(* A fault on a page that is not there: error code 6 for a write, 4 for a read *)
vm_area_pagefault(p, write) ==
    /\ Idle /\ pt[p] = Null
    /\ AreaOf(p) # 0
    /\ write => "W" \in areas[AreaOf(p)].access_flags
    /\ pt' = [pt EXCEPT ![p] = Entry(areas[AreaOf(p)].access_flags)]
    /\ UNCHANGED <<areas, call, hung>>

(* The process writes to a page the hardware lets it write. *)
Store(p) ==
    /\ Idle /\ pt[p] # Null /\ pt[p].w
    /\ pt' = [pt EXCEPT ![p].data = "written"]
    /\ UNCHANGED <<areas, call, hung>>

-------------------------------------------------------------------------------
(* vm_area_map. *)

\* Mutant: no test against the area behind the hint
MutSettled(addr, n, flags) ==
    IF addr = 0 THEN 0 ELSE IF addr + n > MMAP_AREA_END THEN -1 ELSE addr

(* The first area that ends behind a is in the way of a range of n bytes from
   a: then an address behind it may be tried next (line 551). *)
InTheWay(a, n) == Behind(a) < Len(areas) /\ areas[Behind(a) + 1].vm_start < a + n

Retried(a, n) ==
    a + n <= MMAP_AREA_END /\ InTheWay(a, n) /\ areas[Behind(a) + 1].vm_end + a <= MMAP_AREA_END

(***************************************************************************)
(* The address a call with a hint comes down to, through the recursive      *)
(* calls of lines 513, 551 and 552: the hint or the end of the next area,   *)
(* the first that is not given up for another; 0 for a search without hint, *)
(* -1 for an error.  Line 512 compares flags with MAP_FIXED, so             *)
(* MAP_FIXED | MAP_POPULATE goes on to a search.                            *)
(***************************************************************************)
Settled(addr, n, flags) ==
    LET tries == {addr} \cup {areas[i].vm_end : i \in Behind(addr) + 1 .. Len(areas)}
        last == {a \in tries : "FIXED" \in flags \/ ~Retried(a, n)}
        a == CHOOSE x \in last : \A y \in last : x <= y
    IN  IF addr = 0 THEN 0
        ELSE IF a + n > MMAP_AREA_END THEN IF flags = {"FIXED"} THEN -1 ELSE 0
        ELSE IF InTheWay(a, n) THEN IF "FIXED" \in flags THEN -1 ELSE 0
        ELSE a

(* The list with a .. b - 1 mapped between areas i and i + 1: merged with
   both, with one of them, or an area of its own. *)
WithNew(i, a, b, prot, merge) ==
    LET prev == merge /\ EndsAt(i, a, prot)
        next == merge /\ StartsAt(i, b, prot)
    IN  CASE prev /\ next  -> Splice(i, i + 1, <<Area(areas[i].vm_start, areas[i + 1].vm_end, prot)>>)
          [] prev /\ ~next -> Splice(i, i, <<Area(areas[i].vm_start, b, prot)>>)
          [] ~prev /\ next -> Splice(i + 1, i + 1, <<Area(a, areas[i + 1].vm_end, prot)>>)
          [] OTHER         -> Splice(i + 1, i, <<Area(a, b, prot)>>)

Place(i, a, b, prot, merge) ==
    LET s == WithNew(i, a, b, prot, merge)
    IN  WithinLimit(s) /\ areas' = s

(* A hint before the first or behind the last area is not merged. *)
MapAtHint(addr, length, prot, flags) ==
    LET n == Rounded(length)
        a == Settled(addr, n, flags)
        i == Behind(a)
    IN  /\ Idle /\ a > 0
        /\ Place(i, a, a + n, prot, 0 < i /\ i < Len(areas))
        /\ pt' = IF "POPULATE" \in flags THEN map(a, a + n, prot) ELSE pt
        /\ UNCHANGED <<call, hung>>

(* The gap behind area i; behind area 0, the one before the first area. *)
GapStart(i) == IF i = 0 THEN MMAP_AREA_START ELSE areas[i].vm_end
GapEnd(i)   == IF i = Len(areas) THEN MMAP_AREA_END ELSE areas[i + 1].vm_start

\* Mutant: a gap that would be filled exactly is passed over
MutGapsFor(n) == {i \in 0 .. Len(areas) : GapStart(i) + n < GapEnd(i)}

GapsFor(n) == {i \in 0 .. Len(areas) : GapStart(i) + n <= GapEnd(i)}

(* ret_addr: line 460 returns the end of the new range, where the area behind
   it starts, when all three are merged *)
ret_addr(i, n, prot) ==
    IF EndsAt(i, GapStart(i), prot) /\ StartsAt(i, GapStart(i) + n, prot)
    THEN GapStart(i) + n ELSE GapStart(i)

(* Without a hint: the first gap that is large enough. *)
MapInGap(addr, length, prot, flags) ==
    LET n == Rounded(length)
    IN  /\ Idle /\ Settled(addr, n, flags) = 0
        /\ \E i \in GapsFor(n) :
              /\ \A j \in GapsFor(n) : i <= j
              /\ Place(i, GapStart(i), GapStart(i) + n, prot, TRUE)
              /\ IF "POPULATE" \in flags
                 THEN pt' = map(ret_addr(i, n, prot), ret_addr(i, n, prot) + n, prot)
                 ELSE pt' = pt
        /\ UNCHANGED <<call, hung>>

(* The loop of lines 427-500 stays at the last area when no gap will do. *)
MapHangs(addr, length, flags) ==
    LET n == Rounded(length)
    IN  /\ Idle /\ Settled(addr, n, flags) = 0
        /\ areas # <<>> /\ GapsFor(n) = {}
        /\ hung' = n
        /\ UNCHANGED <<areas, pt, call>>

Spin == hung # 0 /\ UNCHANGED vars

vm_area_map(addr, length, prot, flags) ==
    MapAtHint(addr, length, prot, flags) \/ MapInGap(addr, length, prot, flags)
        \/ MapHangs(addr, length, flags)

-------------------------------------------------------------------------------
(* vm_area_unmap of addr .. e - 1. *)

UnmapInside(addr, length) ==
    LET e == addr + Rounded(length)
    IN  /\ Idle
        /\ \E i \in DOMAIN areas :
              /\ areas[i].vm_start < addr /\ e < areas[i].vm_end
              /\ LET s == Splice(i, i, <<[areas[i] EXCEPT !.vm_end = addr],
                                         [areas[i] EXCEPT !.vm_start = e]>>)
                 IN  WithinLimit(s) /\ areas' = s
        /\ pt' = unmap(addr, e)
        /\ UNCHANGED <<call, hung>>

(* The area the range starts in, if it starts inside one; the areas the loop
   removes, which lie in the range; and the one behind them, if there is one. *)
StartsIn(addr) == Behind(addr) < Len(areas) /\ areas[Behind(addr) + 1].vm_start < addr
Removed(addr, e) == Behind(addr) + (IF StartsIn(addr) THEN 2 ELSE 1) .. Behind(e)
Following(e) == {i \in DOMAIN areas : i = Behind(e) + 1}

(***************************************************************************)
(* The loop lets the area behind the range start at e if it starts in the   *)
(* range.  When no area has been removed, that happens even if the area     *)
(* starts behind e: it grows down over the hole (lines 650-661).            *)
(***************************************************************************)
Moved(addr, e) == {i \in Following(e) : Removed(addr, e) = {} \/ areas[i].vm_start < e}

(* What is left of the area the range starts in. *)
Rest(addr) == IF StartsIn(addr) THEN <<[areas[Behind(addr) + 1] EXCEPT !.vm_end = addr]>> ELSE <<>>

\* Mutant: the end of the area before the range is not cut off
MutCut(addr, e) ==
    LET rest == IF StartsIn(addr) THEN <<areas[Behind(addr) + 1]>> ELSE <<>>
        behind == Behind(e) + 1
    IN  IF Moved(addr, e) = {} THEN Splice(Behind(addr) + 1, Behind(e), rest)
        ELSE Splice(Behind(addr) + 1, behind, rest \o <<[areas[behind] EXCEPT !.vm_start = e]>>)

(* The list after the loop. *)
Cut(addr, e) ==
    LET behind == Behind(e) + 1
    IN  IF Moved(addr, e) = {} THEN Splice(Behind(addr) + 1, Behind(e), Rest(addr))
        ELSE Splice(Behind(addr) + 1, behind, Rest(addr) \o <<[areas[behind] EXCEPT !.vm_start = e]>>)

UnmapRange(addr, length) ==
    LET e == addr + Rounded(length)
    IN  /\ Idle
        /\ ~ \E i \in DOMAIN areas : areas[i].vm_start < addr /\ e < areas[i].vm_end
        /\ areas' = Cut(addr, e)
        /\ pt' = unmap(addr, e)
        /\ UNCHANGED <<call, hung>>

vm_area_unmap(addr, length) == UnmapInside(addr, length) \/ UnmapRange(addr, length)

-------------------------------------------------------------------------------
(***************************************************************************)
(* vm_area_mprotect.  A level has an address, a length and rights; it works *)
(* on the area the address is in, number cur.                               *)
(***************************************************************************)
Covered(a, b) == \A x \in a .. b - 1 : AreaOf(x) # 0

stop == call.addr + Rounded(call.length)
cur == Behind(call.addr) + 1
cur_vm == areas[cur]

PrevSame == call.addr = cur_vm.vm_start /\ EndsAt(cur - 1, call.addr, call.prot)
NextSame == StartsAt(cur, cur_vm.vm_end, call.prot)

(* What is left of the area before the range, and the range up to b. *)
Front == IF call.addr > cur_vm.vm_start THEN <<[cur_vm EXCEPT !.vm_end = call.addr]>> ELSE <<>>
Changed(b) == <<Area(call.addr, b, call.prot)>>
Joined(b) == <<Area(areas[cur - 1].vm_start, b, call.prot)>>      \* with the previous area

(* The list when the range ends inside the area. *)
EndsInside ==
    LET back == <<[cur_vm EXCEPT !.vm_start = stop]>>
    IN  IF cur_vm.access_flags = call.prot THEN areas
        ELSE IF PrevSame THEN Splice(cur - 1, cur, Joined(stop) \o back)
        ELSE Splice(cur, cur, Front \o Changed(stop) \o back)

(* The lists when the range ends with the area.  Line 311 reads cur_vm after
   line 308 has freed it, so the second merge may or may not be made. *)
EndsWith ==
    IF call.addr > cur_vm.vm_start /\ cur_vm.access_flags = call.prot THEN {areas}
    ELSE IF PrevSame
    THEN {Splice(cur - 1, cur, Joined(stop))} \cup
         (IF NextSame THEN {Splice(cur - 1, cur + 1, Joined(areas[cur + 1].vm_end))} ELSE {})
    ELSE IF NextSame THEN {Splice(cur, cur + 1, Front \o Changed(areas[cur + 1].vm_end))}
    ELSE {Splice(cur, cur, Front \o Changed(stop))}

(* The list when the range goes on behind the area. *)
EndsBehind ==
    IF PrevSame THEN Splice(cur - 1, cur, Joined(cur_vm.vm_end))
    ELSE IF cur_vm.access_flags = call.prot THEN areas
    ELSE Splice(cur, cur, Front \o Changed(cur_vm.vm_end))

Reshaped ==
    IF stop < cur_vm.vm_end THEN {EndsInside}
    ELSE IF stop = cur_vm.vm_end THEN EndsWith ELSE {EndsBehind}

MprotectCall(addr, length, prot) ==
    /\ Idle /\ Covered(addr, addr + length)
    /\ call' = [addr |-> addr, length |-> length, prot |-> prot]
    /\ UNCHANGED <<areas, pt, hung>>

(* The tests of lines 141-156 and 175, at every level. *)
Valid == Covered(call.addr, call.addr + call.length) /\ stop <= MMAP_AREA_END

(* The last level changes the page table, from its own address on. *)
MprotectLast ==
    /\ call # Null /\ Valid /\ stop <= cur_vm.vm_end
    /\ areas' \in Reshaped /\ WithinLimit(areas')
    /\ pt' = update_map(call.addr, stop, call.prot)
    /\ call' = Null
    /\ UNCHANGED hung

MprotectRecurse ==
    /\ call # Null /\ Valid /\ stop > cur_vm.vm_end
    /\ areas' \in Reshaped /\ WithinLimit(areas')
    /\ call' = [call EXCEPT !.addr = cur_vm.vm_end, !.length = stop - cur_vm.vm_end]
    /\ UNCHANGED <<pt, hung>>

(* -1, whatever the levels before have done *)
MprotectFails ==
    /\ call # Null
    /\ Valid => \A s \in Reshaped : ~WithinLimit(s)
    /\ call' = Null
    /\ UNCHANGED <<areas, pt, hung>>

vm_area_mprotect == MprotectLast \/ MprotectRecurse \/ MprotectFails

-------------------------------------------------------------------------------
Next ==
    \/ \E length \in Lengths, prot \in Prots :
          \/ \E addr \in {0} \cup Pages, flags \in FlagSets : vm_area_map(addr, length, prot, flags)
          \/ \E addr \in Pages : MprotectCall(addr, length, prot)
    \/ \E addr \in Pages, length \in Lengths : vm_area_unmap(addr, length)
    \/ \E p \in Pages : Store(p) \/ \E write \in BOOLEAN : vm_area_pagefault(p, write)
    \/ vm_area_mprotect
    \/ Spin

(* A call that has begun goes on. *)
Spec == Init /\ [][Next]_vars /\ WF_vars(vm_area_mprotect)

-------------------------------------------------------------------------------
AreaType == [vm_start : Pages, vm_end : Pages \cup {MMAP_AREA_END}, access_flags : Prots]

TypeOK ==
    /\ areas \in Seq(AreaType)
    /\ pt \in [Pages -> {Null} \cup [w : BOOLEAN, data : {"fresh", "written"}]]
    /\ call = Null \/ call \in [addr : Pages, length : Nat, prot : Prots]
    /\ hung \in Nat

(***************************************************************************)
(* The list is what every walk over it takes for granted: the areas lie in  *)
(* the mmap area, none is empty, and each ends before the next one starts,  *)
(* however calls have split, trimmed, merged and freed them (mmap.c:186,    *)
(* 532 and 630 stop at the first area that ends behind the address).        *)
(***************************************************************************)
SortedDisjoint ==
    \A i \in DOMAIN areas :
        /\ GapStart(i - 1) <= areas[i].vm_start /\ areas[i].vm_start < areas[i].vm_end
        /\ areas[i].vm_end <= GapEnd(i)

(* The rights of each page: those of the area that vm_area_pagefault finds. *)
rights == [p \in Pages |-> LET i == AreaOf(p) IN IF i = 0 THEN {} ELSE areas[i].access_flags]

(* The hardware lets the process do with page p what its area allows, or faults. *)
Agrees(p) == pt[p] # Null => rights[p] # {} /\ (pt[p].w <=> "W" \in rights[p])

(* A call that fills the gap between areas i and i + 1 and makes one of the three. *)
Joins(i) ==
    /\ call = Null /\ i + 1 \in DOMAIN areas /\ i \in DOMAIN areas'
    /\ areas[i].vm_end < areas[i + 1].vm_start
    /\ areas'[i] = Area(areas[i].vm_start, areas[i + 1].vm_end, areas[i].access_flags)

(***************************************************************************)
(* A page that agrees with its area goes on doing so through every call but *)
(* two: an upper level of mprotect changes the rights of the pages up to    *)
(* the next level's address and not their entries (only the last level      *)
(* calls update_map, mmap.c:360), and an mmap without hint that joins two   *)
(* areas populates from the start of the second on (line 460), so that      *)
(* pages behind that area may get its rights.                               *)
(***************************************************************************)
AgreementKept ==
    [][\A p \in Pages : Agrees(p) /\ ~Agrees(p)' =>
          \/ call # Null /\ call' # Null /\ call.addr <= p /\ p < call'.addr
          \/ \E i \in DOMAIN areas : Joins(i) /\ areas[i + 1].vm_end <= p]_vars

(***************************************************************************)
(* What has been written to a mapped page is lost only with its mapping, to *)
(* an mprotect of a range the page is in, which gives the range new pages   *)
(* (update_map, mmap.c:52-65), or to an mmap that joins two areas and       *)
(* populates the second one instead of the new range (lines 460, 594).      *)
(***************************************************************************)
WrittenKept ==
    [][\A p \in Pages :
          rights[p] # {} /\ pt[p] # Null /\ pt[p].data = "written" /\ pt'[p] # pt[p] =>
             \/ rights'[p] = {}
             \/ call # Null /\ call.addr <= p /\ p < stop
             \/ \E i \in DOMAIN areas : Joins(i) /\ areas[i + 1].vm_start <= p]_vars

(***************************************************************************)
(* The search of mmap goes on for ever only when there is no free range of  *)
(* that length anywhere in the mmap area (mmap.c:427-500).                  *)
(***************************************************************************)
HangsOnlyWhenFull ==
    hung # 0 => \A a \in MMAP_AREA_START .. MMAP_AREA_END - hung :
                    \E p \in Pages : a <= p /\ p < a + hung /\ rights[p] # {}

Abstract == INSTANCE AbstractVm
    WITH Rights <- Prots

(***************************************************************************)
(* The calls do to the pages what AbstractVm says: mmap maps a range that   *)
(* was free, each level of mprotect changes a mapped range, and munmap      *)
(* unmaps its range, where the mapping behind the range may take the free   *)
(* pages in between; whatever happens to the areas.                         *)
(***************************************************************************)
ImplementsAbstract == Abstract!Spec

(***************************************************************************)
(* Area i is the first one behind a range that ends at e in the free space  *)
(* in front of it, and no area lies in the range.                           *)
(***************************************************************************)
GrowsDown(i, addr, e) ==
    /\ GapStart(i - 1) <= e /\ e < areas[i].vm_start
    /\ \A j \in DOMAIN areas : areas[j].vm_start < addr \/ e < areas[j].vm_end

(* Page p is one of the free pages that area i then takes. *)
TakenBy(i, p, addr, e) == GrowsDown(i, addr, e) /\ e <= p /\ p < areas[i].vm_start

(***************************************************************************)
(* munmap unmaps the pages with an address of its range; when it removes no *)
(* area, the free pages behind the range become part of the area that       *)
(* follows (mmap.c:650-661); all others stay as they are.  A level of       *)
(* mprotect changes pages of its range only, and to the rights asked for,   *)
(* although one step may cut, remove and merge three areas (lines 199-358,  *)
(* 630-684).                                                                *)
(***************************************************************************)
OnlyTheRange ==
    [][/\ \A addr \in Pages, length \in Lengths : vm_area_unmap(addr, length) =>
             LET e == addr + Rounded(length)
                 InRange(p) == addr <= p /\ p < addr + length
             IN  \A p \in Pages :
                    /\ InRange(p) => rights'[p] = {}
                    /\ \A i \in DOMAIN areas :
                          TakenBy(i, p, addr, e) => rights'[p] = areas[i].access_flags
                    /\ rights'[p] # rights[p] =>
                          InRange(p) \/ \E i \in DOMAIN areas : TakenBy(i, p, addr, e)
       /\ call # Null => \A p \in Pages :
             rights'[p] # rights[p] => /\ call.addr <= p /\ p < call.addr + call.length
                                       /\ rights'[p] = call.prot]_vars

(***************************************************************************)
(* What assignment3.pdf, page 6, says of munmap: it "deletes the mappings   *)
(* for the specified address range", and no more.  The code does not keep   *)
(* to it: see GrowsDown.                                                    *)
(***************************************************************************)
MunmapOnlyUnmaps ==
    [][\A addr \in Pages, length \in Lengths : vm_area_unmap(addr, length) =>
          rights' = [p \in Pages |-> IF addr <= p /\ p < addr + length THEN {} ELSE rights[p]]]_vars
===============================================================================
