------------------------------ MODULE AbstractVm ------------------------------
(***************************************************************************)
(* What mmap, munmap and mprotect do to the pages of the mmap area,         *)
(* whatever areas the kernel keeps: every page is unmapped or has access    *)
(* rights; a call changes the rights of the pages a .. b, and munmap may    *)
(* let the mapping behind them grow.                                        *)
(***************************************************************************)
EXTENDS Integers

CONSTANTS Pages,        \* the addresses of the pages
          Rights        \* the rights a page can be mapped with

VARIABLE rights

Unmapped == {}

Init == rights = [x \in Pages |-> Unmapped]

Assign(a, b, r) == rights' = [x \in Pages |-> IF a <= x /\ x <= b THEN r ELSE rights[x]]

(* mmap hands out pages nobody has. *)
Map == \E a, b \in Pages :
          /\ a <= b
          /\ \A x \in Pages : a <= x /\ x <= b => rights[x] = Unmapped
          /\ \E r \in Rights : Assign(a, b, r)

(* munmap takes away a range, mapped or not. *)
Unmap == \E a, b \in Pages : a <= b /\ Assign(a, b, Unmapped)

(* The same, and the mapping that follows, from page n on, grows down over
   the free pages in between. *)
UnmapGrows ==
    \E a, b, n \in Pages :
        /\ a <= b /\ b < n /\ rights[n] # Unmapped
        /\ \A x \in Pages : b < x /\ x < n => rights[x] = Unmapped
        /\ rights' = [x \in Pages |-> IF a <= x /\ x <= b THEN Unmapped
                                      ELSE IF b < x /\ x < n THEN rights[n] ELSE rights[x]]

(* mprotect changes a range that is mapped throughout. *)
Protect == \E a, b \in Pages :
              /\ a <= b
              /\ \A x \in Pages : a <= x /\ x <= b => rights[x] # Unmapped
              /\ \E r \in Rights : Assign(a, b, r)

(* A call that leaves every page as it is does not show. *)
Next == rights' # rights /\ (Map \/ Unmap \/ UnmapGrows \/ Protect)

Spec == Init /\ [][Next]_rights
===============================================================================
