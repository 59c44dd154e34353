----------------------------- MODULE VmAreaProofs -----------------------------
EXTENDS VmArea, FiniteSetTheorems, WellFoundedInduction, TLAPS

(***************************************************************************)
(* What is proved of the areas of mmap.c, and how.                          *)
(*                                                                          *)
(* The list is a sequence of areas.  Two notions carry the proof: Ordered   *)
(* (the areas are not empty, and each ends before all those behind it       *)
(* start) and Has(s, x, f) (address x is in an area of s with the rights    *)
(* f).  Remade(s, a, b, F) says that s is the list of the process with the  *)
(* addresses a .. b - 1 given one of the rights in F and all others left as *)
(* they were.  Every change the code makes to the list replaces some        *)
(* neighbours by a few areas (Splice), so what a call does to the addresses *)
(* follows from SpliceRemade and a look at those neighbours:                *)
(*   WithNewRemade    vm_area_map, with or without merging                  *)
(*   CutGrown         vm_area_unmap, which may let an area grow down        *)
(*   ReshapedRemade   a level of vm_area_mprotect                           *)
(* RightsFacts ties Has to the rights of the pages, in which the properties *)
(* are stated.                                                              *)
(*                                                                          *)
(* ListInv is inductive.  Everything else follows from it and from what one *)
(* step does: TypeCorrect, Sorted and HangsWhenFull speak of the states,    *)
(* TableKept, RangeOnly, Written and Implements of the steps.               *)
(***************************************************************************)

-------------------------------------------------------------------------------
(* Part 1: addresses.  Multiples of the size P of a page.                   *)

(* Quotient and remainder. *)
LEMMA DivMod ==
    ASSUME NEW P \in Nat \ {0}, NEW x \in Int
    PROVE  x = P * (x \div P) + (x % P) /\ x % P \in 0 .. P - 1 /\ x \div P \in Int
  OBVIOUS

(* A positive multiple of P is not below P. *)
LEMMA MulLess ==
    ASSUME NEW P \in Nat \ {0}, NEW m \in Int, m >= 1
    PROVE  P * m >= P
  OBVIOUS

(* A negative multiple of P is not above -P. *)
LEMMA MulNeg ==
    ASSUME NEW P \in Nat \ {0}, NEW m \in Int, m <= -1
    PROVE  P * m <= -P
  OBVIOUS

(* Sums and differences of multiples are multiples. *)
LEMMA Distr ==
    ASSUME NEW P \in Nat \ {0}, NEW k \in Int, NEW q \in Int
    PROVE  P * (k - q) = P * k - P * q /\ P * (k + q) = P * k + P * q /\ P * k \in Int
  OBVIOUS

(* A multiple leaves no remainder... *)
LEMMA MulMod ==
    ASSUME NEW P \in Nat \ {0}, NEW k \in Int
    PROVE  (P * k) % P = 0
  <1> DEFINE x == P * k
             q == x \div P
             r == x % P
  <1>1. x \in Int
    BY Distr
  <1>2. x = P * q + r /\ r \in 0 .. P - 1 /\ q \in Int
    BY <1>1, DivMod
  <1>3. P * (k - q) = P * k - P * q
    BY <1>2, Distr
  <1>4. P * (k - q) = r
    <2>1. P * q \in Int
      BY <1>2, Distr
    <2> HIDE DEF q, r
    <2> QED BY <1>1, <1>2, <1>3, <2>1
  <1> HIDE DEF q, r, x
  <1>5. ~ (k - q >= 1)
    BY <1>2, <1>4, MulLess
  <1>6. ~ (k - q <= -1)
    BY <1>2, <1>4, MulNeg
  <1>7. k = q
    BY <1>2, <1>5, <1>6
  <1>8. r = 0
    BY <1>2, <1>4, <1>7
  <1> QED BY <1>8 DEF r, x

(* ...and only a multiple does. *)
LEMMA ModMul ==
    ASSUME NEW P \in Nat \ {0}, NEW x \in Int, x % P = 0
    PROVE  \E k \in Int : x = P * k
  <1> DEFINE k == x \div P
  <1>1. x = P * k + (x % P) /\ k \in Int
    BY DivMod
  <1>2. P * k \in Int
    BY <1>1, Distr
  <1>3. x = P * k
    <2>1. x = P * k + 0
      BY <1>1
    <2> HIDE DEF k
    <2> QED BY <1>2, <2>1
  <1> QED BY <1>1, <1>3

(* The sum of two multiples is a multiple. *)
LEMMA ModSum ==
    ASSUME NEW P \in Nat \ {0}, NEW x \in Int, NEW y \in Int, x % P = 0, y % P = 0
    PROVE  (x + y) % P = 0
  <1>1. PICK k \in Int : x = P * k
    BY ModMul
  <1>2. PICK l \in Int : y = P * l
    BY ModMul
  <1>3. x + y = P * (k + l)
    BY <1>1, <1>2, Distr
  <1>4. k + l \in Int
    OBVIOUS
  <1> QED BY <1>3, <1>4, MulMod

(* Two multiples are at least P apart. *)
LEMMA ModNext ==
    ASSUME NEW P \in Nat \ {0}, NEW x \in Int, NEW y \in Int, x % P = 0, y % P = 0, x < y
    PROVE  x + P <= y
  <1>1. PICK k \in Int : x = P * k
    BY ModMul
  <1>2. PICK l \in Int : y = P * l
    BY ModMul
  <1>3. y - x = P * (l - k)
    BY <1>1, <1>2, Distr
  <1>4. l - k \in Int /\ P * (l - k) \in Int
    BY Distr
  <1>5. l - k >= 1
    <2>1. CASE l - k = 0
      <3>1. P * (l - k) = 0
        BY <2>1
      <3> QED BY <1>3, <3>1
    <2>2. CASE l - k <= -1
      BY <1>3, <1>4, <2>2, MulNeg
    <2> QED BY <1>4, <2>1, <2>2
  <1> QED BY <1>3, <1>4, <1>5, MulLess

(* Rounding up to a multiple. *)
LEMMA Round ==
    ASSUME NEW P \in Nat \ {0}, NEW n \in Nat \ {0}
    PROVE  LET r == n + ((P - (n % P)) % P)
           IN  r \in Nat /\ r % P = 0 /\ n <= r /\ r < n + P
  <1> DEFINE m == n % P
             z == (P - m) % P
             q == n \div P
  <1>1. n = P * q + m /\ m \in 0 .. P - 1 /\ q \in Int /\ P * q \in Int
    BY DivMod, Distr
  <1>2. P - m \in 1 .. P
    BY <1>1
  <1>3. z \in 0 .. P - 1
    BY <1>2, DivMod
  <1> HIDE DEF q, m
  <1>4. CASE m = 0
    <2>1. P % P = 0
      <3>1. P * 1 = P
        OBVIOUS
      <3> QED BY <3>1, MulMod
    <2>2. z = 0
      BY <1>4, <2>1
    <2>3. n % P = 0
      BY <1>4 DEF m
    <2> QED BY <2>2, <2>3 DEF m
  <1>5. CASE m # 0
    <2>1. P - m \in 1 .. P - 1
      BY <1>1, <1>5
    <2>2. z = P - m
      <3> SUFFICES ASSUME NEW y \in 1 .. P - 1 PROVE y % P = y
        BY <2>1
      <3> QED OBVIOUS
    <2>3. n + z = P * q + P
      BY <1>1, <2>2
    <2>4. n + z = P * (q + 1)
      BY <1>1, <2>3, Distr
    <2>5. q + 1 \in Int
      BY <1>1
    <2>6. (P * (q + 1)) % P = 0
      BY <2>5, MulMod
    <2>7. (n + z) % P = 0
      BY <2>4, <2>6
    <2> QED BY <1>3, <2>7 DEF m
  <1> QED BY <1>4, <1>5

(* Pages start at the multiples of PAGE in the mmap area. *)
LEMMA AddressFacts ==
    /\ PAGE \in Nat \ {0} /\ MMAP_AREA_START \in Nat \ {0} /\ MMAP_AREA_END \in Nat \ {0}
    /\ \A x \in Pages \cup {MMAP_AREA_END} :
          x \in Nat /\ MMAP_AREA_START <= x /\ x <= MMAP_AREA_END /\ x % PAGE = 0
    /\ \A x \in Pages : x < MMAP_AREA_END
    /\ \A x \in Int : /\ MMAP_AREA_START <= x /\ x <= MMAP_AREA_END /\ x % PAGE = 0
                     => x \in Pages \cup {MMAP_AREA_END}
  <1>1. /\ PAGE \in Nat \ {0} /\ MMAP_AREA_START \in Nat \ {0} /\ MMAP_AREA_END \in Nat \ {0}
        /\ MMAP_AREA_END % PAGE = 0 /\ MMAP_AREA_START < MMAP_AREA_END
    BY VmAssumption
  <1>2. \A x \in Pages : x \in Int /\ MMAP_AREA_START <= x /\ x <= MMAP_AREA_END - 1 /\ x % PAGE = 0
    BY <1>1 DEF Pages
  <1>3. ASSUME NEW x \in Int, MMAP_AREA_START <= x, x <= MMAP_AREA_END, x % PAGE = 0
        PROVE  x \in Pages \cup {MMAP_AREA_END}
    BY <1>1, <1>3 DEF Pages
  <1> QED BY <1>1, <1>2, <1>3

(* The page behind a page ends where or before any later page starts. *)
LEMMA NextPage ==
    ASSUME NEW p \in Pages, NEW x \in Int, x % PAGE = 0, p < x
    PROVE  p + PAGE <= x
  BY AddressFacts, ModNext

(* mmap and munmap round a length up to whole pages (mmap.c:515, 633). *)
LEMMA RoundedFacts ==
    ASSUME NEW length \in Nat \ {0}
    PROVE  /\ Rounded(length) \in Nat \ {0} /\ Rounded(length) % PAGE = 0
           /\ length <= Rounded(length) /\ Rounded(length) < length + PAGE
  <1>1. LET r == length + ((PAGE - (length % PAGE)) % PAGE)
        IN  r \in Nat /\ r % PAGE = 0 /\ length <= r /\ r < length + PAGE
    BY AddressFacts, Round
  <1> QED BY <1>1 DEF Rounded

(* A range of pages ends where a page could start, and rounding its length
   up adds no page to it. *)
LEMMA RangeFacts ==
    ASSUME NEW a \in Pages, NEW length \in Nat \ {0}
    PROVE  /\ (a + Rounded(length)) % PAGE = 0
           /\ a + Rounded(length) <= MMAP_AREA_END
                => a + Rounded(length) \in Pages \cup {MMAP_AREA_END}
           /\ \A p \in Pages : p < a + Rounded(length) <=> p < a + length
  <1> DEFINE e == a + Rounded(length)
  <1>1. a \in Nat /\ a % PAGE = 0 /\ MMAP_AREA_START <= a
    BY AddressFacts
  <1>2. Rounded(length) \in Nat \ {0} /\ Rounded(length) % PAGE = 0
    BY RoundedFacts
  <1>3. e \in Int /\ e % PAGE = 0
    BY <1>1, <1>2, ModSum, AddressFacts
  <1>4. ASSUME NEW p \in Pages, p < e PROVE p < a + length
    <2>1. p + PAGE <= e
      BY <1>3, <1>4, NextPage
    <2> QED BY <1>1, <2>1, RoundedFacts, AddressFacts
  <1>5. ASSUME NEW p \in Pages, p < a + length PROVE p < e
    BY <1>1, <1>5, RoundedFacts, AddressFacts
  <1>6. e <= MMAP_AREA_END => e \in Pages \cup {MMAP_AREA_END}
    BY <1>1, <1>2, <1>3, AddressFacts
  <1> QED BY <1>3, <1>4, <1>5, <1>6

(* A set of numbers that is not empty has a least one, and CHOOSE finds it. *)
LEMMA LeastOf ==
    ASSUME NEW I \in SUBSET Nat, I # {}
    PROVE  LET x == CHOOSE i \in I : \A j \in I : i <= j
           IN  x \in I /\ \A j \in I : x <= j
  <1>1. \E x \in I : \A y \in I : ~ (<<y, x>> \in OpToRel(<, Nat))
    BY WFMin, NatLessThanWellFounded
  <1>2. PICK x \in I : \A y \in I : ~ (<<y, x>> \in OpToRel(<, Nat))
    BY <1>1
  <1>3. \A y \in I : x <= y
    <2> SUFFICES ASSUME NEW y \in I, y < x PROVE FALSE
      OBVIOUS
    <2>1. <<y, x>> \in OpToRel(<, Nat)
      BY DEF OpToRel
    <2> QED BY <2>1, <1>2
  <1> QED BY <1>3

-------------------------------------------------------------------------------
(* Part 2: lists of areas.                                                  *)

(* The list is in order: every area has an address and ends before those behind it start. *)
Ordered(s) ==
    /\ s \in Seq(AreaType)
    /\ \A i \in 1 .. Len(s) : s[i].vm_start < s[i].vm_end
    /\ \A i, j \in 1 .. Len(s) : i < j => s[i].vm_end <= s[j].vm_start

(* Address x is in an area of s with the rights f. *)
Has(s, x, f) ==
    \E i \in 1 .. Len(s) : s[i].vm_start <= x /\ x < s[i].vm_end /\ s[i].access_flags = f

(* Splice replaces a part of the list. *)
LEMMA SpliceFacts ==
    ASSUME areas \in Seq(AreaType), NEW s \in Seq(AreaType),
           NEW i \in 1 .. Len(areas) + 1, NEW j \in i - 1 .. Len(areas)
    PROVE  /\ Splice(i, j, s) \in Seq(AreaType)
           /\ Len(Splice(i, j, s)) = (i - 1) + Len(s) + (Len(areas) - j)
           /\ \A k \in 1 .. i - 1 : Splice(i, j, s)[k] = areas[k]
           /\ \A k \in 1 .. Len(s) : Splice(i, j, s)[k + (i - 1)] = s[k]
           /\ \A k \in j + 1 .. Len(areas) : Splice(i, j, s)[(k - j) + (i - 1) + Len(s)] = areas[k]
  <1> DEFINE a == SubSeq(areas, 1, i - 1)
             b == SubSeq(areas, j + 1, Len(areas))
  <1>1. /\ a \in Seq(AreaType) /\ Len(a) = i - 1
        /\ \A k \in 1 .. i - 1 : a[k] = areas[k]
    OBVIOUS
  <1>2. /\ b \in Seq(AreaType) /\ Len(b) = Len(areas) - j
        /\ \A k \in 1 .. Len(areas) - j : b[k] = areas[j + k]
    OBVIOUS
  <1>3. Splice(i, j, s) = a \o s \o b
    BY DEF Splice
  <1> HIDE DEF a, b
  <1>4. /\ a \o s \in Seq(AreaType) /\ Len(a \o s) = (i - 1) + Len(s)
        /\ \A k \in 1 .. i - 1 : (a \o s)[k] = a[k]
        /\ \A k \in 1 .. Len(s) : (a \o s)[k + (i - 1)] = s[k]
    <2>1. a \in Seq(AreaType) /\ s \in Seq(AreaType) /\ Len(a) = i - 1
      BY <1>1
    <2>2. a \o s \in Seq(AreaType) /\ Len(a \o s) = (i - 1) + Len(s)
      BY <2>1
    <2>3. \A k \in 1 .. i - 1 : (a \o s)[k] = a[k]
      BY <2>1
    <2>4. \A k \in 1 .. Len(s) : (a \o s)[k + (i - 1)] = s[k]
      BY <2>1
    <2> QED BY <2>2, <2>3, <2>4
  <1> DEFINE c == a \o s
  <1> HIDE DEF c
  <1>5. /\ c \in Seq(AreaType) /\ Len(c) = (i - 1) + Len(s)
        /\ \A k \in 1 .. i - 1 : c[k] = areas[k]
        /\ \A k \in 1 .. Len(s) : c[k + (i - 1)] = s[k]
    BY <1>1, <1>4 DEF c
  <1>6. /\ c \o b \in Seq(AreaType) /\ Len(c \o b) = Len(c) + Len(b)
        /\ \A k \in 1 .. Len(c) : (c \o b)[k] = c[k]
        /\ \A k \in 1 .. Len(b) : (c \o b)[k + Len(c)] = b[k]
    <2>1. c \in Seq(AreaType) /\ b \in Seq(AreaType)
      BY <1>2, <1>5
    <2> QED BY <2>1
  <1>7. Splice(i, j, s) = c \o b
    BY <1>3 DEF c
  <1> DEFINE t == Splice(i, j, s)
  <1>8. /\ t \in Seq(AreaType) /\ Len(t) = Len(c) + Len(b)
        /\ \A k \in 1 .. Len(c) : t[k] = c[k]
        /\ \A k \in 1 .. Len(b) : t[k + Len(c)] = b[k]
    BY <1>6, <1>7
  <1> HIDE DEF t
  <1>9. ASSUME NEW k \in j + 1 .. Len(areas)
        PROVE  t[(k - j) + (i - 1) + Len(s)] = areas[k]
    <2>1. k - j \in 1 .. Len(b) /\ j + (k - j) = k
      BY <1>2
    <2>2. t[(k - j) + Len(c)] = b[k - j]
      BY <2>1, <1>8
    <2>3. b[k - j] = areas[k]
      BY <2>1, <1>2
    <2>4. (k - j) + Len(c) = (k - j) + (i - 1) + Len(s)
      BY <1>5
    <2> QED BY <2>2, <2>3, <2>4
  <1>10. ASSUME NEW k \in 1 .. Len(s) PROVE t[k + (i - 1)] = s[k]
    <2>1. k + (i - 1) \in 1 .. Len(c)
      BY <1>5
    <2> QED BY <1>5, <1>8, <2>1
  <1>11. \A k \in 1 .. i - 1 : t[k] = areas[k]
    BY <1>5, <1>8
  <1>12. Len(t) = (i - 1) + Len(s) + (Len(areas) - j)
    BY <1>2, <1>5, <1>8
  <1> QED BY <1>8, <1>9, <1>10, <1>11, <1>12 DEF t

(* The areas of s lie between lo and hi. *)
Within(s, lo, hi) == \A k \in 1 .. Len(s) : lo <= s[k].vm_start /\ s[k].vm_end <= hi

(* The areas before number i end at lo, the ones behind number j start at hi. *)
Leaves(i, j, lo, hi) ==
    /\ \A k \in 1 .. i - 1 : areas[k].vm_end <= lo
    /\ \A k \in j + 1 .. Len(areas) : hi <= areas[k].vm_start

(* An area of the new list is one that was left alone or one of s. *)
LEMMA SpliceIndex ==
    ASSUME areas \in Seq(AreaType), NEW s \in Seq(AreaType),
           NEW i \in 1 .. Len(areas) + 1, NEW j \in i - 1 .. Len(areas),
           NEW m \in 1 .. Len(Splice(i, j, s))
    PROVE  \/ m \in 1 .. i - 1 /\ Splice(i, j, s)[m] = areas[m]
           \/ \E k \in 1 .. Len(s) : m = k + (i - 1) /\ Splice(i, j, s)[m] = s[k]
           \/ \E k \in j + 1 .. Len(areas) :
                 m = (k - j) + (i - 1) + Len(s) /\ Splice(i, j, s)[m] = areas[k]
  <1> DEFINE t == Splice(i, j, s)
             a == m - (i - 1)
             b == m - (i - 1) - Len(s) + j
  <1>1. /\ Len(t) = (i - 1) + Len(s) + (Len(areas) - j)
        /\ \A k \in 1 .. i - 1 : t[k] = areas[k]
        /\ \A k \in 1 .. Len(s) : t[k + (i - 1)] = s[k]
        /\ \A k \in j + 1 .. Len(areas) : t[(k - j) + (i - 1) + Len(s)] = areas[k]
    BY SpliceFacts
  <1>2. m \in 1 .. Len(t)
    OBVIOUS
  <1> HIDE DEF t
  <1>3. CASE m <= i - 1
    BY <1>1, <1>2, <1>3 DEF t
  <1>4. CASE i - 1 < m /\ m <= (i - 1) + Len(s)
    <2>1. a \in 1 .. Len(s) /\ m = a + (i - 1)
      BY <1>4
    <2> QED BY <1>1, <2>1 DEF t
  <1>5. CASE (i - 1) + Len(s) < m
    <2>1. Len(areas) \in Nat /\ Len(s) \in Nat /\ i \in Nat /\ j \in Nat /\ m \in Nat
      OBVIOUS
    <2>2. m = (b - j) + (i - 1) + Len(s) /\ b \in Int /\ j < b
      BY <1>5, <2>1
    <2>3. b <= Len(areas)
      BY <1>1, <1>2, <2>1
    <2>4. b \in j + 1 .. Len(areas) /\ m = (b - j) + (i - 1) + Len(s)
      BY <2>1, <2>2, <2>3
    <2> HIDE DEF b
    <2> QED BY <1>1, <2>4 DEF t
  <1> QED BY <1>3, <1>4, <1>5

(* The list stays in order if what is put in lies in the room that is there. *)
LEMMA SpliceOrdered ==
    ASSUME Ordered(areas), NEW s, Ordered(s),
           NEW i \in 1 .. Len(areas) + 1, NEW j \in i - 1 .. Len(areas),
           NEW lo \in Int, NEW hi \in Int, Within(s, lo, hi), Leaves(i, j, lo, hi)
    PROVE  Ordered(Splice(i, j, s))
  <1> DEFINE t == Splice(i, j, s)
             InFront(m) == m \in 1 .. i - 1 /\ t[m] = areas[m]
             InMiddle(m, k) == k \in 1 .. Len(s) /\ m = k + (i - 1) /\ t[m] = s[k]
             InBack(m, k) == k \in j + 1 .. Len(areas) /\ m = (k - j) + (i - 1) + Len(s) /\ t[m] = areas[k]
  <1>1. areas \in Seq(AreaType) /\ s \in Seq(AreaType)
    BY DEF Ordered
  <1>2. t \in Seq(AreaType)
    BY <1>1, SpliceFacts
  <1>3. ASSUME NEW m \in 1 .. Len(t)
        PROVE  InFront(m) \/ (\E k : InMiddle(m, k)) \/ (\E k : InBack(m, k))
    <2>1. \/ m \in 1 .. i - 1 /\ t[m] = areas[m]
          \/ \E k \in 1 .. Len(s) : m = k + (i - 1) /\ t[m] = s[k]
          \/ \E k \in j + 1 .. Len(areas) : m = (k - j) + (i - 1) + Len(s) /\ t[m] = areas[k]
      BY <1>1, SpliceIndex
    <2> HIDE DEF t
    <2> QED BY <2>1
  <1>4. \A x \in AreaType : x.vm_start \in Int /\ x.vm_end \in Int
    BY VmAssumption DEF AreaType, Pages
  <1> DEFINE Fine(v, w) == v.vm_end <= w.vm_start
  <1>5. /\ \A k \in 1 .. Len(areas) : areas[k] \in AreaType /\ areas[k].vm_start < areas[k].vm_end
        /\ \A k \in 1 .. Len(s) : s[k] \in AreaType /\ s[k].vm_start < s[k].vm_end
    BY DEF Ordered
  <1>6. /\ \A k, l \in 1 .. Len(areas) : k < l => Fine(areas[k], areas[l])
        /\ \A k, l \in 1 .. Len(s) : k < l => Fine(s[k], s[l])
    BY DEF Ordered
  <1>7. \A k \in 1 .. i - 1, l \in 1 .. Len(s) : Fine(areas[k], s[l])
    BY <1>4, <1>5 DEF Within, Leaves
  <1>8. \A k \in j + 1 .. Len(areas), l \in 1 .. Len(s) : Fine(s[l], areas[k])
    BY <1>4, <1>5 DEF Within, Leaves
  <1> HIDE DEF t, Fine
  <1>9. ASSUME NEW m \in 1 .. Len(t) PROVE t[m].vm_start < t[m].vm_end
    <2>1. \A k \in j + 1 .. Len(areas) : k \in 1 .. Len(areas)
      BY <1>1
    <2>2. \A k \in 1 .. i - 1 : k \in 1 .. Len(areas)
      BY <1>1
    <2> QED BY <1>3, <1>5, <2>1, <2>2
  <1>10. ASSUME NEW m \in 1 .. Len(t), NEW n \in 1 .. Len(t), m < n
         PROVE  Fine(t[m], t[n])
    <2>1. CASE InFront(m)
      <3>1. CASE InFront(n)
        BY <1>1, <2>1, <3>1, <1>6, <1>10
      <3>2. CASE \E k : InMiddle(n, k)
        BY <2>1, <3>2, <1>7
      <3>3. ASSUME NEW l, InBack(n, l) PROVE Fine(t[m], t[n])
        <4>1. m <= i - 1 /\ j + 1 <= l /\ m \in Nat /\ l \in Nat /\ l <= Len(areas) /\ 1 <= m
          BY <1>1, <2>1, <3>3
        <4>2. m \in 1 .. Len(areas) /\ l \in 1 .. Len(areas) /\ m < l
          BY <1>1, <4>1
        <4> QED BY <1>6, <4>2, <2>1, <3>3
      <3> QED BY <1>3, <3>1, <3>2, <3>3
    <2>2. ASSUME NEW k, InMiddle(m, k) PROVE Fine(t[m], t[n])
      <3>1. ~InFront(n)
        BY <1>10, <2>2, <1>1
      <3>2. ASSUME NEW l, InMiddle(n, l) PROVE Fine(t[m], t[n])
        BY <1>10, <1>1, <2>2, <3>2, <1>6
      <3>3. CASE \E l : InBack(n, l)
        BY <2>2, <3>3, <1>8
      <3> QED BY <1>3, <3>1, <3>2, <3>3
    <2>3. ASSUME NEW k, InBack(m, k) PROVE Fine(t[m], t[n])
      <3>1. ~InFront(n)
        BY <1>10, <2>3, <1>1
      <3>2. ~ \E l : InMiddle(n, l)
        BY <1>10, <2>3, <1>1
      <3>3. ASSUME NEW l, InBack(n, l) PROVE Fine(t[m], t[n])
        <4>1. (k - j) + (i - 1) + Len(s) < (l - j) + (i - 1) + Len(s)
          BY <1>10, <2>3, <3>3
        <4>2. k \in 1 .. Len(areas) /\ l \in 1 .. Len(areas)
          BY <1>1, <2>3, <3>3
        <4>3. k < l
          BY <1>1, <4>1, <4>2
        <4> QED BY <1>6, <4>2, <4>3, <2>3, <3>3
      <3> QED BY <1>3, <3>1, <3>2, <3>3
    <2> QED BY <1>3, <2>1, <2>2, <2>3
  <1> QED BY <1>2, <1>9, <1>10 DEF Ordered, Fine, t

(* Which area an address is in afterwards. *)
LEMMA SpliceHas ==
    ASSUME areas \in Seq(AreaType), NEW s \in Seq(AreaType),
           NEW i \in 1 .. Len(areas) + 1, NEW j \in i - 1 .. Len(areas), NEW x, NEW f
    PROVE  Has(Splice(i, j, s), x, f) <=>
             \/ Has(s, x, f)
             \/ \E k \in (1 .. i - 1) \cup (j + 1 .. Len(areas)) :
                   Contains(k, x) /\ areas[k].access_flags = f
  <1> DEFINE t == Splice(i, j, s)
             On(v) == v.vm_start <= x /\ x < v.vm_end /\ v.access_flags = f
  <1>1. /\ Len(t) = (i - 1) + Len(s) + (Len(areas) - j)
        /\ \A k \in 1 .. i - 1 : t[k] = areas[k]
        /\ \A k \in 1 .. Len(s) : t[k + (i - 1)] = s[k]
        /\ \A k \in j + 1 .. Len(areas) : t[(k - j) + (i - 1) + Len(s)] = areas[k]
    BY SpliceFacts
  <1>2. \A m \in 1 .. Len(t) :
           \/ m \in 1 .. i - 1 /\ t[m] = areas[m]
           \/ \E k \in 1 .. Len(s) : m = k + (i - 1) /\ t[m] = s[k]
           \/ \E k \in j + 1 .. Len(areas) : m = (k - j) + (i - 1) + Len(s) /\ t[m] = areas[k]
    BY SpliceIndex
  <1> HIDE DEF t, On
  <1>3. (\E m \in 1 .. Len(t) : On(t[m])) <=>
           \/ \E k \in 1 .. Len(s) : On(s[k])
           \/ \E k \in (1 .. i - 1) \cup (j + 1 .. Len(areas)) : On(areas[k])
    <2>1. ASSUME NEW m \in 1 .. Len(t), On(t[m])
          PROVE  \/ \E k \in 1 .. Len(s) : On(s[k])
                 \/ \E k \in (1 .. i - 1) \cup (j + 1 .. Len(areas)) : On(areas[k])
      BY <1>2, <2>1
    <2>2. ASSUME NEW k \in 1 .. Len(s), On(s[k]) PROVE \E m \in 1 .. Len(t) : On(t[m])
      <3>1. k + (i - 1) \in 1 .. Len(t)
        BY <1>1
      <3> QED BY <1>1, <2>2, <3>1
    <2>3. ASSUME NEW k \in 1 .. i - 1, On(areas[k]) PROVE \E m \in 1 .. Len(t) : On(t[m])
      <3>1. k \in 1 .. Len(t)
        BY <1>1
      <3> QED BY <1>1, <2>3, <3>1
    <2>4. ASSUME NEW k \in j + 1 .. Len(areas), On(areas[k]) PROVE \E m \in 1 .. Len(t) : On(t[m])
      <3>1. (k - j) + (i - 1) + Len(s) \in 1 .. Len(t)
        BY <1>1
      <3> QED BY <1>1, <2>4, <3>1
    <2> QED BY <2>1, <2>2, <2>3, <2>4
  <1> QED BY <1>3 DEF Has, Contains, On, t

(* What is known of the areas of a list in order. *)
LEMMA AreaFacts ==
    ASSUME Ordered(areas)
    PROVE  /\ areas \in Seq(AreaType) /\ Len(areas) \in Nat /\ DOMAIN areas = 1 .. Len(areas)
           /\ \A i \in 1 .. Len(areas) :
                 /\ areas[i] = Area(areas[i].vm_start, areas[i].vm_end, areas[i].access_flags)
                 /\ areas[i].vm_start \in Pages /\ areas[i].vm_start \in Nat
                 /\ areas[i].vm_end \in Pages \cup {MMAP_AREA_END} /\ areas[i].vm_end \in Nat
                 /\ areas[i].access_flags \in Prots
                 /\ areas[i].vm_start < areas[i].vm_end
           /\ \A i, j \in 1 .. Len(areas) : i < j => areas[i].vm_end <= areas[j].vm_start
  <1>1. areas \in Seq(AreaType)
    BY DEF Ordered
  <1>2. \A i \in 1 .. Len(areas) : areas[i] \in AreaType
    BY <1>1
  <1>3. \A i \in 1 .. Len(areas) :
           /\ areas[i] = Area(areas[i].vm_start, areas[i].vm_end, areas[i].access_flags)
           /\ areas[i].vm_start \in Pages /\ areas[i].vm_end \in Pages \cup {MMAP_AREA_END}
           /\ areas[i].access_flags \in Prots
    BY <1>2 DEF AreaType, Area
  <1> QED BY <1>1, <1>3, AddressFacts DEF Ordered

(* The areas that end at or before an address come first in the list. *)
LEMMA BehindFacts ==
    ASSUME Ordered(areas), NEW a \in Int
    PROVE  /\ Behind(a) \in 0 .. Len(areas)
           /\ \A i \in 1 .. Len(areas) : areas[i].vm_end <= a <=> i <= Behind(a)
  <1> DEFINE n == Len(areas)
             S == {i \in 1 .. n : areas[i].vm_end <= a}
             T == {i \in 1 .. n + 1 : i \notin S}
             m == CHOOSE i \in T : \A j \in T : i <= j
  <1>1. n \in Nat /\ DOMAIN areas = 1 .. n
    BY AreaFacts
  <1>2. T \in SUBSET Nat /\ n + 1 \in T
    BY <1>1
  <1>3. m \in T /\ \A j \in T : m <= j
    BY <1>2, LeastOf
  <1>4. ASSUME NEW i \in 1 .. n, i \in S PROVE i < m
    <2>1. CASE m = n + 1
      <3> HIDE DEF m, n
      <3> QED BY <1>1, <2>1
    <2>2. CASE m # n + 1
      <3>1. m \in 1 .. n /\ ~ (areas[m].vm_end <= a)
        BY <1>3, <2>2, <1>1
      <3> HIDE DEF m, n
      <3>2. ~ (m <= i)
        BY <1>1, <1>4, <3>1, AreaFacts DEF n
      <3> QED BY <1>1, <3>1, <3>2
    <2> QED BY <2>1, <2>2
  <1>5. ASSUME NEW i \in 1 .. n, i < m PROVE i \in S
    BY <1>1, <1>3, <1>5
  <1>6. m \in 1 .. n + 1
    BY <1>3
  <1>7. S = 1 .. m - 1
    <2> HIDE DEF m
    <2>1. \A i \in S : i \in 1 .. m - 1
      BY <1>1, <1>4, <1>6
    <2>2. \A i \in 1 .. m - 1 : i \in S
      BY <1>1, <1>5, <1>6
    <2> QED BY <2>1, <2>2
  <1> HIDE DEF m
  <1>8. Cardinality(1 .. m - 1) = m - 1
    BY <1>1, <1>6, FS_Interval
  <1>9. Behind(a) = m - 1
    BY <1>1, <1>7, <1>8 DEF Behind
  <1> QED BY <1>1, <1>6, <1>7, <1>9

(***************************************************************************)
(* The list s is the list of the process with the addresses a .. b - 1      *)
(* given one of the rights in F: none if F is empty.                        *)
(***************************************************************************)
Remade(s, a, b, F) ==
    /\ Ordered(s)
    /\ \A x \in Int : \A f :
          Has(s, x, f) <=> IF a <= x /\ x < b THEN f \in F ELSE Has(areas, x, f)

(***************************************************************************)
(* The list s is the list of the process with a .. b - 1 unmapped; and the  *)
(* area with the rights g behind them, which started at c, starts at b: if  *)
(* c is not behind b, nothing but the range has changed.                    *)
(***************************************************************************)
Grown(s, a, b, c, g) ==
    /\ Ordered(s)
    /\ \A x \in Int : \A f :
          Has(s, x, f) <=> IF a <= x /\ x < b THEN FALSE
                           ELSE IF b <= x /\ x < c THEN f = g ELSE Has(areas, x, f)

(* As Remade, of the part lo .. hi - 1, which areas i .. j are in. *)
RemadePart(s, i, j, lo, hi, a, b, F) ==
    /\ lo <= a /\ b <= hi
    /\ \A k \in i .. j : lo <= areas[k].vm_start /\ areas[k].vm_end <= hi
    /\ \A x \in Int : \A f : lo <= x /\ x < hi =>
          (Has(s, x, f) <=>
              IF a <= x /\ x < b THEN f \in F
              ELSE \E k \in i .. j : Contains(k, x) /\ areas[k].access_flags = f)

(* Only the addresses lo .. hi - 1 are looked up in what is put in. *)
LEMMA SpliceElsewhere ==
    ASSUME Ordered(areas), NEW s, Ordered(s),
           NEW i \in 1 .. Len(areas) + 1, NEW j \in i - 1 .. Len(areas),
           NEW lo \in Int, NEW hi \in Int, Within(s, lo, hi), Leaves(i, j, lo, hi),
           \A k \in i .. j : lo <= areas[k].vm_start /\ areas[k].vm_end <= hi,
           NEW x \in Int, NEW f
    PROVE  Has(Splice(i, j, s), x, f) <=> IF lo <= x /\ x < hi THEN Has(s, x, f) ELSE Has(areas, x, f)
  <1> DEFINE t == Splice(i, j, s)
             On(k) == Contains(k, x) /\ areas[k].access_flags = f
  <1>1. Has(t, x, f) <=>
           \/ Has(s, x, f)
           \/ \E k \in (1 .. i - 1) \cup (j + 1 .. Len(areas)) : On(k)
    BY SpliceHas DEF Ordered
  <1>2. Has(areas, x, f) <=> \E k \in 1 .. Len(areas) : On(k)
    BY DEF Has, Contains
  <1>3. Len(areas) \in Nat
    BY AreaFacts
  <1> HIDE DEF On, t
  <1>4. CASE lo <= x /\ x < hi
    <2>1. \A k \in (1 .. i - 1) \cup (j + 1 .. Len(areas)) : ~On(k)
      BY <1>3, <1>4, AreaFacts DEF Leaves, Contains, On
    <2> QED BY <1>1, <1>4, <2>1 DEF t
  <1>5. CASE ~ (lo <= x /\ x < hi)
    <2>1. ~Has(s, x, f)
      <3>1. \A k \in 1 .. Len(s) : s[k].vm_start \in Int /\ s[k].vm_end \in Int
        <4>1. \A k \in 1 .. Len(s) : s[k] \in AreaType
          BY DEF Ordered
        <4> QED BY <4>1, AddressFacts DEF AreaType
      <3> QED BY <1>5, <3>1 DEF Has, Within
    <2>2. \A k \in i .. j : ~On(k)
      <3> SUFFICES ASSUME NEW k \in i .. j, Contains(k, x) PROVE FALSE
        BY DEF On
      <3>1. k \in 1 .. Len(areas) /\ lo <= areas[k].vm_start /\ areas[k].vm_end <= hi
        BY <1>3
      <3> QED BY <1>5, <3>1, AreaFacts DEF Contains
    <2>3. (\E k \in (1 .. i - 1) \cup (j + 1 .. Len(areas)) : On(k)) <=> \E k \in 1 .. Len(areas) : On(k)
      BY <1>3, <2>2
    <2> QED BY <1>1, <1>2, <1>5, <2>1, <2>3 DEF t
  <1> QED BY <1>4, <1>5

(* Address x is mapped with rights f by an area among i .. j. *)
HasAmong(i, j, x, f) == \E k \in i .. j : Contains(k, x) /\ areas[k].access_flags = f

(* The areas outside i .. j do not contain an address from lo on and before hi. *)
LEMMA HasBetween ==
    ASSUME Ordered(areas), NEW i \in 1 .. Len(areas) + 1, NEW j \in i - 1 .. Len(areas),
           NEW lo \in Int, NEW hi \in Int, Leaves(i, j, lo, hi),
           NEW x \in Int, lo <= x, x < hi, NEW f
    PROVE  Has(areas, x, f) <=> HasAmong(i, j, x, f)
  <1>1. Len(areas) \in Nat
    BY AreaFacts
  <1>2. \A k \in 1 .. Len(areas) : Contains(k, x) => k \in i .. j
    <2> SUFFICES ASSUME NEW k \in 1 .. Len(areas), Contains(k, x), k \notin i .. j PROVE FALSE
      OBVIOUS
    <2>1. k \in 1 .. i - 1 \/ k \in j + 1 .. Len(areas)
      BY <1>1
    <2> QED BY <2>1, AreaFacts DEF Contains, Leaves
  <1>3. \A k \in i .. j : k \in 1 .. Len(areas)
    BY <1>1
  <1> QED BY <1>2, <1>3 DEF Has, HasAmong, Contains

(* The rest of the list follows from the part that is replaced. *)
LEMMA SpliceRemade ==
    ASSUME Ordered(areas), NEW s, Ordered(s),
           NEW i \in 1 .. Len(areas) + 1, NEW j \in i - 1 .. Len(areas),
           NEW lo \in Int, NEW hi \in Int, Within(s, lo, hi), Leaves(i, j, lo, hi),
           NEW a \in Int, NEW b \in Int, NEW F, RemadePart(s, i, j, lo, hi, a, b, F)
    PROVE  Remade(Splice(i, j, s), a, b, F)
  <1> DEFINE t == Splice(i, j, s)
  <1>1. Ordered(t)
    BY SpliceOrdered
  <1>2. ASSUME NEW x \in Int, NEW f
        PROVE  Has(t, x, f) <=> IF a <= x /\ x < b THEN f \in F ELSE Has(areas, x, f)
    <2>1. Has(t, x, f) <=> IF lo <= x /\ x < hi THEN Has(s, x, f) ELSE Has(areas, x, f)
      BY SpliceElsewhere DEF RemadePart
    <2> HIDE DEF t
    <2>2. CASE lo <= x /\ x < hi
      <3>1. Has(areas, x, f) <=> \E k \in i .. j : Contains(k, x) /\ areas[k].access_flags = f
        <4>1. Has(areas, x, f) <=> HasAmong(i, j, x, f)
          BY <2>2, HasBetween
        <4> QED BY <4>1 DEF HasAmong
      <3> QED BY <2>1, <2>2, <3>1 DEF RemadePart
    <2>3. CASE ~ (lo <= x /\ x < hi)
      BY <2>1, <2>3 DEF RemadePart
    <2> QED BY <2>2, <2>3
  <1> QED BY <1>1, <1>2 DEF Remade

(* An area that is not empty, and what it covers. *)
Fits(v) == v \in AreaType /\ v.vm_start < v.vm_end

Covers(v, x, f) == v.vm_start <= x /\ x < v.vm_end /\ v.access_flags = f

(* No area, *)
LEMMA NoArea ==
    /\ Ordered(<<>>)
    /\ \A x, f : ~Has(<<>>, x, f)
    /\ \A lo, hi : Within(<<>>, lo, hi)
  BY DEF Ordered, Has, Within

(* one area, *)
LEMMA OneArea ==
    ASSUME NEW u, Fits(u)
    PROVE  /\ Ordered(<<u>>)
           /\ \A x, f : Has(<<u>>, x, f) <=> Covers(u, x, f)
           /\ \A lo, hi : lo <= u.vm_start /\ u.vm_end <= hi => Within(<<u>>, lo, hi)
  BY DEF Ordered, Has, Within, Fits, Covers

(* two areas, *)
LEMMA TwoAreas ==
    ASSUME NEW u, NEW v, Fits(u), Fits(v), u.vm_end <= v.vm_start
    PROVE  /\ Ordered(<<u, v>>)
           /\ \A x, f : Has(<<u, v>>, x, f) <=> Covers(u, x, f) \/ Covers(v, x, f)
           /\ \A lo \in Int, hi \in Int :
                 lo <= u.vm_start /\ v.vm_end <= hi => Within(<<u, v>>, lo, hi)
  <1> DEFINE s == <<u, v>>
  <1>1. s \in Seq(AreaType) /\ Len(s) = 2 /\ s[1] = u /\ s[2] = v
    BY DEF Fits
  <1>2. /\ u.vm_start \in Int /\ u.vm_end \in Int /\ v.vm_start \in Int /\ v.vm_end \in Int
        /\ u.vm_start < u.vm_end /\ v.vm_start < v.vm_end
    BY AddressFacts DEF Fits, AreaType
  <1>3. 1 .. Len(s) = {1, 2}
    BY <1>1
  <1> HIDE DEF s
  <1>4. Ordered(s)
    BY <1>1, <1>2, <1>3 DEF Ordered
  <1>5. \A x, f : Has(s, x, f) <=> Covers(u, x, f) \/ Covers(v, x, f)
    BY <1>1, <1>3 DEF Has, Covers
  <1>6. \A lo \in Int, hi \in Int : lo <= u.vm_start /\ v.vm_end <= hi => Within(s, lo, hi)
    BY <1>1, <1>2, <1>3 DEF Within
  <1> QED BY <1>4, <1>5, <1>6 DEF s

(* three areas. *)
LEMMA ThreeAreas ==
    ASSUME NEW u, NEW v, NEW w, Fits(u), Fits(v), Fits(w),
           u.vm_end <= v.vm_start, v.vm_end <= w.vm_start
    PROVE  /\ Ordered(<<u, v, w>>)
           /\ \A x, f : Has(<<u, v, w>>, x, f) <=>
                           Covers(u, x, f) \/ Covers(v, x, f) \/ Covers(w, x, f)
           /\ \A lo \in Int, hi \in Int :
                 lo <= u.vm_start /\ w.vm_end <= hi => Within(<<u, v, w>>, lo, hi)
  <1> DEFINE s == <<u, v, w>>
  <1>1. s \in Seq(AreaType) /\ Len(s) = 3 /\ s[1] = u /\ s[2] = v /\ s[3] = w
    BY DEF Fits
  <1>2. /\ u.vm_start \in Int /\ u.vm_end \in Int /\ v.vm_start \in Int /\ v.vm_end \in Int
        /\ w.vm_start \in Int /\ w.vm_end \in Int
        /\ u.vm_start < u.vm_end /\ v.vm_start < v.vm_end /\ w.vm_start < w.vm_end
    BY AddressFacts DEF Fits, AreaType
  <1>3. 1 .. Len(s) = {1, 2, 3}
    BY <1>1
  <1> HIDE DEF s
  <1>4. Ordered(s)
    BY <1>1, <1>2, <1>3 DEF Ordered
  <1>5. \A x, f : Has(s, x, f) <=> Covers(u, x, f) \/ Covers(v, x, f) \/ Covers(w, x, f)
    BY <1>1, <1>3 DEF Has, Covers
  <1>6. \A lo \in Int, hi \in Int : lo <= u.vm_start /\ w.vm_end <= hi => Within(s, lo, hi)
    BY <1>1, <1>2, <1>3 DEF Within
  <1> QED BY <1>4, <1>5, <1>6 DEF s

(* An area made from a start, an end and rights. *)
LEMMA AreaFits ==
    ASSUME NEW a \in Pages, NEW b \in Pages \cup {MMAP_AREA_END}, NEW f \in Prots, a < b
    PROVE  /\ Fits(Area(a, b, f))
           /\ Area(a, b, f).vm_start = a /\ Area(a, b, f).vm_end = b
           /\ Area(a, b, f).access_flags = f
           /\ \A x, g : Covers(Area(a, b, f), x, g) <=> a <= x /\ x < b /\ g = f
  BY DEF Fits, Area, AreaType, Covers

(* The addresses a .. b - 1 lie between areas i and i + 1. *)
Room(i, a, b) ==
    /\ a \in Pages /\ b \in Pages \cup {MMAP_AREA_END} /\ a < b
    /\ i \in 0 .. Len(areas)
    /\ i > 0 => areas[i].vm_end <= a
    /\ i < Len(areas) => b <= areas[i + 1].vm_start

(* Nothing is mapped in such a room. *)
LEMMA RoomFacts ==
    ASSUME Ordered(areas), NEW i, NEW a, NEW b, Room(i, a, b)
    PROVE  /\ a \in Nat /\ b \in Nat /\ i \in Nat
           /\ \A k \in 1 .. i : areas[k].vm_end <= a
           /\ \A k \in i + 1 .. Len(areas) : b <= areas[k].vm_start
           /\ \A x \in Int : \A f : a <= x /\ x < b => ~Has(areas, x, f)
  <1>1. a \in Nat /\ b \in Nat /\ i \in 0 .. Len(areas) /\ a < b
    BY AddressFacts DEF Room
  <1>2. ASSUME NEW k \in 1 .. i PROVE areas[k].vm_end <= a
    <2>1. k \in 1 .. Len(areas) /\ i \in 1 .. Len(areas) /\ areas[i].vm_end <= a
      BY <1>1 DEF Room
    <2> QED BY <1>1, <2>1, AreaFacts
  <1>3. ASSUME NEW k \in i + 1 .. Len(areas) PROVE b <= areas[k].vm_start
    <2>1. k \in 1 .. Len(areas) /\ i + 1 \in 1 .. Len(areas) /\ b <= areas[i + 1].vm_start
      BY <1>1 DEF Room
    <2>2. k = i + 1 \/ i + 1 < k
      BY <1>1
    <2>3. /\ areas[i + 1].vm_end \in Nat /\ areas[i + 1].vm_start \in Nat /\ areas[k].vm_start \in Nat
          /\ areas[i + 1].vm_start < areas[i + 1].vm_end
          /\ i + 1 < k => areas[i + 1].vm_end <= areas[k].vm_start
      BY <2>1, AreaFacts
    <2> QED BY <1>1, <2>1, <2>2, <2>3
  <1>4. ASSUME NEW x \in Int, NEW f, a <= x, x < b PROVE ~Has(areas, x, f)
    <2>1. \A k \in 1 .. Len(areas) : k \in 1 .. i \/ k \in i + 1 .. Len(areas)
      BY <1>1
    <2> QED BY <1>1, <1>2, <1>3, <1>4, <2>1, AreaFacts DEF Has
  <1> QED BY <1>1, <1>2, <1>3, <1>4

-------------------------------------------------------------------------------
(* Part 3: mmap.                                                            *)

(***************************************************************************)
(* vm_area_map, whichever way it joins the new range with the areas at its  *)
(* ends, maps the range and nothing else.                                   *)
(***************************************************************************)
LEMMA WithNewRemade ==
    ASSUME Ordered(areas), NEW i, NEW a, NEW b, Room(i, a, b), NEW prot \in Prots,
           NEW merge \in BOOLEAN
    PROVE  Remade(WithNew(i, a, b, prot, merge), a, b, {prot})
  <1> DEFINE prev == merge /\ EndsAt(i, a, prot)
             next == merge /\ StartsAt(i, b, prot)
             n == Len(areas)
  <1>1. /\ a \in Pages /\ b \in Pages \cup {MMAP_AREA_END} /\ a < b /\ i \in 0 .. n
        /\ a \in Nat /\ b \in Nat /\ n \in Nat
    BY RoomFacts, AreaFacts DEF Room
  <1>2. /\ \A k \in 1 .. i : areas[k].vm_end <= a
        /\ \A k \in i + 1 .. n : b <= areas[k].vm_start
    BY RoomFacts
  <1>3. prev => i \in 1 .. n /\ areas[i].vm_end = a /\ areas[i].access_flags = prot
    BY <1>1 DEF EndsAt
  <1>4. next => i + 1 \in 1 .. n /\ areas[i + 1].vm_start = b /\ areas[i + 1].access_flags = prot
    BY <1>1 DEF StartsAt
  <1>5. WithNew(i, a, b, prot, merge) =
          CASE prev /\ next  -> Splice(i, i + 1, <<Area(areas[i].vm_start, areas[i + 1].vm_end, prot)>>)
            [] prev /\ ~next -> Splice(i, i, <<Area(areas[i].vm_start, b, prot)>>)
            [] ~prev /\ next -> Splice(i + 1, i + 1, <<Area(a, areas[i + 1].vm_end, prot)>>)
            [] OTHER         -> Splice(i + 1, i, <<Area(a, b, prot)>>)
    BY DEF WithNew
  <1> HIDE DEF prev, next
  <1>6. CASE prev /\ next
    <2> DEFINE lo == areas[i].vm_start
               hi == areas[i + 1].vm_end
               u == Area(lo, hi, prot)
    <2>1. /\ lo \in Pages /\ lo \in Nat /\ hi \in Pages \cup {MMAP_AREA_END} /\ hi \in Nat
          /\ lo < a /\ b < hi
      BY <1>1, <1>3, <1>4, <1>6, AreaFacts
    <2> HIDE DEF lo, hi
    <2>2. Fits(u) /\ u.vm_start = lo /\ u.vm_end = hi /\ \A x, g : Covers(u, x, g) <=> lo <= x /\ x < hi /\ g = prot
      BY <1>1, <2>1, AreaFits
    <2>3. Leaves(i, i + 1, lo, hi)
      BY <1>1, <1>3, <1>4, <1>6, AreaFacts DEF Leaves, lo, hi
    <2> HIDE DEF u
    <2>4. Ordered(<<u>>) /\ Within(<<u>>, lo, hi)
      BY <2>1, <2>2, OneArea
    <2>5. RemadePart(<<u>>, i, i + 1, lo, hi, a, b, {prot})
      <3>1. i .. i + 1 = {i, i + 1}
        BY <1>1
      <3>2. \A x, f : Has(<<u>>, x, f) <=> lo <= x /\ x < hi /\ f = prot
        BY <2>2, OneArea
      <3>3. /\ areas[i].vm_start = lo /\ areas[i].vm_end = a /\ areas[i].access_flags = prot
            /\ areas[i + 1].vm_start = b /\ areas[i + 1].vm_end = hi /\ areas[i + 1].access_flags = prot
        BY <1>3, <1>4, <1>6 DEF lo, hi
      <3>4. ASSUME NEW k \in i .. i + 1
            PROVE  lo <= areas[k].vm_start /\ areas[k].vm_end <= hi
        <4>1. k = i \/ k = i + 1
          BY <3>1
        <4> QED BY <1>1, <2>1, <3>3, <4>1
      <3>5. ASSUME NEW x \in Int, NEW f, lo <= x, x < hi
            PROVE  Has(<<u>>, x, f) <=>
                     IF a <= x /\ x < b THEN f \in {prot}
                     ELSE \E k \in i .. i + 1 : Contains(k, x) /\ areas[k].access_flags = f
        <4>1. (\E k \in i .. i + 1 : Contains(k, x) /\ areas[k].access_flags = f) <=>
                 \/ Contains(i, x) /\ areas[i].access_flags = f
                 \/ Contains(i + 1, x) /\ areas[i + 1].access_flags = f
          BY <3>1
        <4>2. /\ Contains(i, x) <=> x < a
              /\ Contains(i + 1, x) <=> b <= x
          BY <1>1, <2>1, <3>3, <3>5 DEF Contains
        <4>3. Has(<<u>>, x, f) <=> f = prot
          BY <3>2, <3>5
        <4>4. x < a \/ b <= x <=> ~ (a <= x /\ x < b)
          BY <1>1
        <4>5. f \in {prot} <=> f = prot
          OBVIOUS
        <4> QED BY <3>3, <4>1, <4>2, <4>3, <4>4, <4>5
      <3>6. lo <= a /\ b <= hi
        BY <1>1, <2>1
      <3> QED BY <3>4, <3>5, <3>6 DEF RemadePart
    <2>6. Remade(Splice(i, i + 1, <<u>>), a, b, {prot})
      <3>1. i \in 1 .. n + 1 /\ i + 1 \in i - 1 .. n
        BY <1>1, <1>3, <1>4, <1>6
      <3> QED BY <1>1, <2>1, <2>3, <2>4, <2>5, <3>1, SpliceRemade
    <2> QED BY <1>5, <1>6, <2>6 DEF u, lo, hi
  <1>7. CASE prev /\ ~next
    <2> DEFINE lo == areas[i].vm_start
               u == Area(lo, b, prot)
    <2>1. lo \in Pages /\ lo \in Nat /\ lo < a
      BY <1>1, <1>3, <1>7, AreaFacts
    <2> HIDE DEF lo
    <2>2. Fits(u) /\ u.vm_start = lo /\ u.vm_end = b /\ \A x, g : Covers(u, x, g) <=> lo <= x /\ x < b /\ g = prot
      BY <1>1, <2>1, AreaFits
    <2>3. Leaves(i, i, lo, b)
      BY <1>1, <1>2, <1>3, <1>7, AreaFacts DEF Leaves, lo
    <2> HIDE DEF u
    <2>4. Ordered(<<u>>) /\ Within(<<u>>, lo, b)
      BY <1>1, <2>1, <2>2, OneArea
    <2>5. RemadePart(<<u>>, i, i, lo, b, a, b, {prot})
      <3>1. i .. i = {i}
        BY <1>1
      <3>2. \A x, f : Has(<<u>>, x, f) <=> lo <= x /\ x < b /\ f = prot
        BY <2>2, OneArea
      <3>3. areas[i].vm_start = lo /\ areas[i].vm_end = a /\ areas[i].access_flags = prot
        BY <1>3, <1>7 DEF lo
      <3> QED BY <1>1, <2>1, <3>1, <3>2, <3>3 DEF RemadePart, Contains
    <2>6. Remade(Splice(i, i, <<u>>), a, b, {prot})
      <3>1. i \in 1 .. n + 1 /\ i \in i - 1 .. n
        BY <1>1, <1>3, <1>7
      <3> QED BY <1>1, <2>1, <2>3, <2>4, <2>5, <3>1, SpliceRemade
    <2> QED BY <1>5, <1>7, <2>6 DEF u, lo
  <1>8. CASE ~prev /\ next
    <2> DEFINE hi == areas[i + 1].vm_end
               u == Area(a, hi, prot)
    <2>1. hi \in Pages \cup {MMAP_AREA_END} /\ hi \in Nat /\ b < hi
      BY <1>1, <1>4, <1>8, AreaFacts
    <2> HIDE DEF hi
    <2>2. Fits(u) /\ u.vm_start = a /\ u.vm_end = hi /\ \A x, g : Covers(u, x, g) <=> a <= x /\ x < hi /\ g = prot
      BY <1>1, <2>1, AreaFits
    <2>3. Leaves(i + 1, i + 1, a, hi)
      BY <1>1, <1>2, <1>4, <1>8, AreaFacts DEF Leaves, hi
    <2> HIDE DEF u
    <2>4. Ordered(<<u>>) /\ Within(<<u>>, a, hi)
      BY <1>1, <2>1, <2>2, OneArea
    <2>5. RemadePart(<<u>>, i + 1, i + 1, a, hi, a, b, {prot})
      <3>1. i + 1 .. i + 1 = {i + 1}
        BY <1>1
      <3>2. \A x, f : Has(<<u>>, x, f) <=> a <= x /\ x < hi /\ f = prot
        BY <2>2, OneArea
      <3>3. areas[i + 1].vm_start = b /\ areas[i + 1].vm_end = hi /\ areas[i + 1].access_flags = prot
        BY <1>4, <1>8 DEF hi
      <3> QED BY <1>1, <2>1, <3>1, <3>2, <3>3 DEF RemadePart, Contains
    <2>6. Remade(Splice(i + 1, i + 1, <<u>>), a, b, {prot})
      <3>1. i + 1 \in 1 .. n + 1 /\ i + 1 \in (i + 1) - 1 .. n
        BY <1>1, <1>4, <1>8
      <3> QED BY <1>1, <2>1, <2>3, <2>4, <2>5, <3>1, SpliceRemade
    <2> QED BY <1>5, <1>8, <2>6 DEF u, hi
  <1>9. CASE ~prev /\ ~next
    <2> DEFINE u == Area(a, b, prot)
    <2>2. Fits(u) /\ u.vm_start = a /\ u.vm_end = b /\ \A x, g : Covers(u, x, g) <=> a <= x /\ x < b /\ g = prot
      BY <1>1, AreaFits
    <2>3. Leaves(i + 1, i, a, b)
      BY <1>1, <1>2 DEF Leaves
    <2> HIDE DEF u
    <2>4. Ordered(<<u>>) /\ Within(<<u>>, a, b)
      BY <1>1, <2>2, OneArea
    <2>5. RemadePart(<<u>>, i + 1, i, a, b, a, b, {prot})
      <3>1. i + 1 .. i = {}
        BY <1>1
      <3>2. \A x, f : Has(<<u>>, x, f) <=> a <= x /\ x < b /\ f = prot
        BY <2>2, OneArea
      <3> QED BY <1>1, <3>1, <3>2 DEF RemadePart
    <2>6. Remade(Splice(i + 1, i, <<u>>), a, b, {prot})
      <3>1. i + 1 \in 1 .. n + 1 /\ i \in (i + 1) - 1 .. n
        BY <1>1
      <3> QED BY <1>1, <2>3, <2>4, <2>5, <3>1, SpliceRemade
    <2> QED BY <1>5, <1>9, <2>6 DEF u
  <1> QED BY <1>6, <1>7, <1>8, <1>9

(* The address a hint comes down to has room behind it. *)
LEMMA HintRoom ==
    ASSUME Ordered(areas), NEW addr \in {0} \cup Pages, NEW length \in Nat \ {0}, NEW flags,
           NEW a, a = Settled(addr, Rounded(length), flags), a > 0
    PROVE  Room(Behind(a), a, a + Rounded(length))
  <1> DEFINE n == Rounded(length)
             tries == {addr} \cup {areas[i].vm_end : i \in Behind(addr) + 1 .. Len(areas)}
             last == {x \in tries : "FIXED" \in flags \/ ~Retried(x, n)}
             c == CHOOSE x \in last : \A y \in last : x <= y
  <1>1. a = IF addr = 0 THEN 0
            ELSE IF c + n > MMAP_AREA_END THEN IF flags = {"FIXED"} THEN -1 ELSE 0
            ELSE IF InTheWay(c, n) THEN IF "FIXED" \in flags THEN -1 ELSE 0
            ELSE c
    BY DEF Settled
  <1>2. n \in Nat \ {0}
    BY RoundedFacts
  <1> HIDE DEF n, c
  <1>3. addr \in Pages /\ a = c /\ ~ (c + n > MMAP_AREA_END) /\ ~InTheWay(c, n)
    BY <1>1
  <1>4. /\ addr \in Nat /\ Len(areas) \in Nat /\ Behind(addr) \in 0 .. Len(areas)
        /\ \A i \in 1 .. Len(areas) : areas[i].vm_end <= addr <=> i <= Behind(addr)
    BY <1>3, AddressFacts, AreaFacts, BehindFacts
  <1>5. tries \subseteq Pages \cup {MMAP_AREA_END}
    BY <1>3, <1>4, AreaFacts
  <1>6. tries \subseteq Nat
    BY <1>5, AddressFacts
  <1>7. last # {}
    <2>1. CASE "FIXED" \in flags
      BY <2>1
    <2>2. CASE Behind(addr) = Len(areas)
      <3>1. ~Retried(addr, n)
        BY <2>2, <1>4 DEF Retried, InTheWay
      <3>2. addr \in tries
        OBVIOUS
      <3> QED BY <3>1, <3>2
    <2>3. CASE Behind(addr) < Len(areas)
      <3> DEFINE z == areas[Len(areas)].vm_end
      <3>1. Len(areas) \in 1 .. Len(areas) /\ Len(areas) \in Behind(addr) + 1 .. Len(areas)
        BY <1>4, <2>3
      <3>2. z \in tries /\ z \in Nat
        BY <3>1, AreaFacts
      <3>3. Behind(z) = Len(areas)
        BY <3>1, <3>2, BehindFacts, <1>4
      <3>4. ~Retried(z, n)
        BY <3>3, <1>4 DEF Retried, InTheWay
      <3> QED BY <3>2, <3>4
    <2> QED BY <2>1, <2>2, <2>3, <1>4
  <1>8. c \in last
    <2>1. last \in SUBSET Nat
      BY <1>6
    <2> HIDE DEF last
    <2> QED BY <1>7, <2>1, LeastOf DEF c
  <1>9. a \in Pages \cup {MMAP_AREA_END} /\ a \in Nat
    BY <1>3, <1>5, <1>6, <1>8
  <1>10. a + n <= MMAP_AREA_END
    BY <1>2, <1>3, <1>9, AddressFacts
  <1>11. a \in Pages
    BY <1>2, <1>9, <1>10, AddressFacts
  <1>12. a + n \in Pages \cup {MMAP_AREA_END}
    BY <1>10, <1>11, RangeFacts DEF n
  <1>13. /\ Behind(a) \in 0 .. Len(areas)
         /\ \A i \in 1 .. Len(areas) : areas[i].vm_end <= a <=> i <= Behind(a)
    BY <1>9, BehindFacts
  <1>14. Behind(a) < Len(areas) => a + n <= areas[Behind(a) + 1].vm_start
    <2>1. Behind(a) < Len(areas) => Behind(a) + 1 \in 1 .. Len(areas)
      BY <1>4, <1>13
    <2>2. Behind(a) < Len(areas) => areas[Behind(a) + 1].vm_start \in Nat
      BY <2>1, AreaFacts
    <2> QED BY <1>2, <1>3, <1>9, <2>2 DEF InTheWay
  <1>15. Behind(a) > 0 => areas[Behind(a)].vm_end <= a
    BY <1>4, <1>13
  <1>16. a < a + n
    BY <1>2, <1>9
  <1> QED BY <1>11, <1>12, <1>13, <1>14, <1>15, <1>16 DEF Room, n

(* The gaps between the areas, the one before the first and the one behind the last. *)
LEMMA GapFacts ==
    ASSUME Ordered(areas), NEW i \in 0 .. Len(areas)
    PROVE  /\ GapStart(i) \in Pages \cup {MMAP_AREA_END} /\ GapStart(i) \in Nat
           /\ GapEnd(i) \in Pages \cup {MMAP_AREA_END} /\ GapEnd(i) \in Nat
           /\ GapStart(i) <= GapEnd(i)
  <1>0. Len(areas) \in Nat
    BY AreaFacts
  <1>1. /\ i \in Nat
        /\ (i # 0 => i \in 1 .. Len(areas))
        /\ (i # Len(areas) => i + 1 \in 1 .. Len(areas) /\ i < i + 1)
    BY <1>0
  <1>2. MMAP_AREA_START \in Pages
    BY VmAssumption DEF Pages
  <1>3. GapStart(i) \in Pages \cup {MMAP_AREA_END}
    BY <1>1, <1>2, AreaFacts DEF GapStart
  <1>4. GapEnd(i) \in Pages \cup {MMAP_AREA_END}
    BY <1>1, <1>2, AreaFacts DEF GapEnd
  <1>5. GapStart(i) <= GapEnd(i)
    <2>1. CASE i = 0
      BY <2>1, <1>4, AddressFacts DEF GapStart
    <2>2. CASE i = Len(areas)
      BY <2>2, <1>3, AddressFacts DEF GapEnd
    <2>3. CASE i # 0 /\ i # Len(areas)
      BY <2>3, <1>1, AreaFacts DEF GapStart, GapEnd
    <2> QED BY <2>1, <2>2, <2>3
  <1> QED BY <1>3, <1>4, <1>5, AddressFacts

(* A gap that is long enough has room at its start. *)
LEMMA GapRoom ==
    ASSUME Ordered(areas), NEW length \in Nat \ {0}, NEW i \in GapsFor(Rounded(length))
    PROVE  Room(i, GapStart(i), GapStart(i) + Rounded(length))
  <1> DEFINE n == Rounded(length)
             a == GapStart(i)
  <1>1. n \in Nat \ {0} /\ i \in 0 .. Len(areas) /\ a + n <= GapEnd(i) /\ Len(areas) \in Nat
    BY RoundedFacts, AreaFacts DEF GapsFor
  <1>2. a \in Pages \cup {MMAP_AREA_END} /\ a \in Nat /\ GapEnd(i) \in Nat /\ GapEnd(i) <= MMAP_AREA_END
    BY <1>1, GapFacts, AddressFacts
  <1> HIDE DEF n
  <1>3. a \in Pages /\ a < a + n /\ a + n <= MMAP_AREA_END
    BY <1>1, <1>2, AddressFacts
  <1>4. a + n \in Pages \cup {MMAP_AREA_END}
    BY <1>3, RangeFacts DEF n
  <1>5. i > 0 => areas[i].vm_end <= a
    BY <1>1, <1>2 DEF GapStart
  <1>6. i < Len(areas) => a + n <= areas[i + 1].vm_start
    BY <1>1 DEF GapEnd
  <1> QED BY <1>1, <1>3, <1>4, <1>5, <1>6 DEF Room, n

(* Concatenations of single areas, *)
LEMMA PairOf ==
    ASSUME NEW u \in AreaType, NEW v \in AreaType
    PROVE  <<u>> \o <<v>> = <<u, v>>
  <1> DEFINE s == <<u>> \o <<v>>
  <1>1. <<u>> \in Seq(AreaType) /\ <<v>> \in Seq(AreaType)
    OBVIOUS
  <1>2. s \in Seq(AreaType) /\ Len(s) = 2 /\ s[1] = u /\ s[2] = v
    BY <1>1
  <1> HIDE DEF s
  <1>3. s = <<u, v>>
    BY <1>2
  <1> QED BY <1>3 DEF s

(* of three of them, *)
LEMMA TripleOf ==
    ASSUME NEW u \in AreaType, NEW v \in AreaType, NEW w \in AreaType
    PROVE  <<u>> \o <<v>> \o <<w>> = <<u, v, w>>
  <1> DEFINE s == <<u, v>> \o <<w>>
  <1>1. <<u>> \o <<v>> = <<u, v>>
    BY PairOf
  <1>2. s \in Seq(AreaType) /\ Len(s) = 3 /\ s[1] = u /\ s[2] = v /\ s[3] = w
    OBVIOUS
  <1> HIDE DEF s
  <1>3. s = <<u, v, w>>
    BY <1>2
  <1> QED BY <1>1, <1>3 DEF s

(* An area with its end or its start moved. *)
LEMMA Trimmed ==
    ASSUME NEW v \in AreaType, NEW x
    PROVE  /\ [v EXCEPT !.vm_end = x] = Area(v.vm_start, x, v.access_flags)
           /\ [v EXCEPT !.vm_start = x] = Area(x, v.vm_end, v.access_flags)
  BY DEF Area, AreaType

-------------------------------------------------------------------------------
(* Part 4: munmap.                                                          *)

(* The areas around a range addr .. e - 1 to be unmapped that lies inside no area. *)
LEMMA AroundRange ==
    ASSUME Ordered(areas), NEW addr \in Pages, NEW e \in Nat, addr < e,
           ~ \E i \in DOMAIN areas : areas[i].vm_start < addr /\ e < areas[i].vm_end
    PROVE  /\ Len(areas) \in Nat /\ addr \in Nat
           /\ Behind(addr) \in 0 .. Len(areas) /\ Behind(e) \in Behind(addr) .. Len(areas)
           /\ \A i \in 1 .. Len(areas) : areas[i].vm_end <= addr <=> i <= Behind(addr)
           /\ \A i \in 1 .. Len(areas) : areas[i].vm_end <= e <=> i <= Behind(e)
           /\ StartsIn(addr) => /\ Behind(addr) + 1 \in 1 .. Len(areas)
                                /\ Behind(addr) + 1 <= Behind(e)
                                /\ areas[Behind(addr) + 1].vm_start < addr
           /\ ~StartsIn(addr) => \A i \in Behind(addr) + 1 .. Len(areas) : addr <= areas[i].vm_start
           /\ StartsIn(addr) => \A i \in Behind(addr) + 2 .. Len(areas) : addr <= areas[i].vm_start
  <1>1. Len(areas) \in Nat /\ addr \in Nat
    BY AreaFacts, AddressFacts
  <1>2. /\ Behind(addr) \in 0 .. Len(areas)
        /\ \A i \in 1 .. Len(areas) : areas[i].vm_end <= addr <=> i <= Behind(addr)
    <2>1. addr \in Int
      BY <1>1
    <2> QED BY <2>1, BehindFacts
  <1>3. /\ Behind(e) \in 0 .. Len(areas)
        /\ \A i \in 1 .. Len(areas) : areas[i].vm_end <= e <=> i <= Behind(e)
    BY <1>1, BehindFacts
  <1>4. Behind(addr) <= Behind(e)
    <2>1. CASE Behind(addr) = 0
      BY <2>1, <1>3
    <2>2. CASE Behind(addr) # 0
      <3>1. Behind(addr) \in 1 .. Len(areas) /\ areas[Behind(addr)].vm_end <= addr
        BY <2>2, <1>1, <1>2
      <3>2. areas[Behind(addr)].vm_end <= e
        BY <3>1, <1>1, AreaFacts
      <3> QED BY <3>1, <3>2, <1>3
    <2> QED BY <2>1, <2>2
  <1>5. ASSUME StartsIn(addr)
        PROVE  /\ Behind(addr) + 1 \in 1 .. Len(areas)
               /\ Behind(addr) + 1 <= Behind(e)
               /\ areas[Behind(addr) + 1].vm_start < addr
    <2>1. Behind(addr) + 1 \in 1 .. Len(areas) /\ areas[Behind(addr) + 1].vm_start < addr
      BY <1>1, <1>2, <1>5 DEF StartsIn
    <2>2. ~ (e < areas[Behind(addr) + 1].vm_end)
      BY <2>1, AreaFacts
    <2>3. areas[Behind(addr) + 1].vm_end <= e
      BY <2>1, <2>2, AreaFacts
    <2> QED BY <2>1, <2>3, <1>3
  <1>6. ASSUME ~StartsIn(addr), NEW i \in Behind(addr) + 1 .. Len(areas)
        PROVE  addr <= areas[i].vm_start
    <2> DEFINE p == Behind(addr) + 1
    <2>1. p \in 1 .. Len(areas) /\ i \in 1 .. Len(areas) /\ Behind(addr) < Len(areas)
      BY <1>1, <1>2
    <2>2. addr <= areas[p].vm_start
      BY <1>1, <1>6, <2>1, AreaFacts DEF StartsIn
    <2>3. i = p \/ p < i
      BY <1>2
    <2> HIDE DEF p
    <2> QED BY <1>1, <2>1, <2>2, <2>3, AreaFacts
  <1>7. ASSUME StartsIn(addr), NEW i \in Behind(addr) + 2 .. Len(areas)
        PROVE  addr <= areas[i].vm_start
    <2> DEFINE p == Behind(addr) + 1
    <2>1. p \in 1 .. Len(areas) /\ i \in 1 .. Len(areas) /\ p < i /\ ~ (p <= Behind(addr))
      BY <1>1, <1>2
    <2>2. ~ (areas[p].vm_end <= addr)
      BY <1>2, <2>1
    <2> HIDE DEF p
    <2> QED BY <1>1, <2>1, <2>2, AreaFacts
  <1> QED BY <1>1, <1>2, <1>3, <1>4, <1>5, <1>6, <1>7

(* munmap inside an area. *)
LEMMA InsideRemade ==
    ASSUME Ordered(areas), NEW addr \in Pages, NEW e \in Pages \cup {MMAP_AREA_END}, addr < e,
           NEW i \in 1 .. Len(areas), areas[i].vm_start < addr, e < areas[i].vm_end
    PROVE  Remade(Splice(i, i, <<[areas[i] EXCEPT !.vm_end = addr],
                                 [areas[i] EXCEPT !.vm_start = e]>>), addr, e, {})
  <1> DEFINE lo == areas[i].vm_start
             hi == areas[i].vm_end
             fl == areas[i].access_flags
             u == Area(lo, addr, fl)
             v == Area(e, hi, fl)
             s == <<u, v>>
  <1>1. /\ lo \in Pages /\ lo \in Nat /\ hi \in Pages \cup {MMAP_AREA_END} /\ hi \in Nat
        /\ fl \in Prots /\ lo < addr /\ e < hi /\ areas[i] = Area(lo, hi, fl)
    BY AreaFacts
  <1>2. addr \in Nat /\ e \in Nat /\ Len(areas) \in Nat
    BY AddressFacts, AreaFacts
  <1> HIDE DEF lo, hi, fl
  <1>3. [areas[i] EXCEPT !.vm_end = addr] = u /\ [areas[i] EXCEPT !.vm_start = e] = v
    <2>1. areas[i] \in AreaType
      BY DEF Ordered
    <2>2. /\ [areas[i] EXCEPT !.vm_end = addr] = Area(areas[i].vm_start, addr, areas[i].access_flags)
          /\ [areas[i] EXCEPT !.vm_start = e] = Area(e, areas[i].vm_end, areas[i].access_flags)
      BY <2>1, Trimmed
    <2> QED BY <2>2, Zenon DEF u, v, lo, hi, fl
  <1>4. e \in Pages
    BY <1>1, <1>2, AddressFacts
  <1>5. /\ Fits(u) /\ u.vm_start = lo /\ u.vm_end = addr
        /\ \A x, g : Covers(u, x, g) <=> lo <= x /\ x < addr /\ g = fl
    BY <1>1, AreaFits
  <1>6. /\ Fits(v) /\ v.vm_start = e /\ v.vm_end = hi
        /\ \A x, g : Covers(v, x, g) <=> e <= x /\ x < hi /\ g = fl
    BY <1>1, <1>4, AreaFits
  <1> HIDE DEF u, v
  <1>7. /\ Ordered(s) /\ Within(s, lo, hi)
        /\ \A x, f : Has(s, x, f) <=> Covers(u, x, f) \/ Covers(v, x, f)
    BY <1>1, <1>2, <1>5, <1>6, TwoAreas
  <1> HIDE DEF s
  <1>8. Leaves(i, i, lo, hi)
    BY <1>2, AreaFacts DEF Leaves, lo, hi
  <1>9. RemadePart(s, i, i, lo, hi, addr, e, {})
    <2>1. i .. i = {i}
      OBVIOUS
    <2>2. areas[i].vm_start = lo /\ areas[i].vm_end = hi /\ areas[i].access_flags = fl
      BY DEF lo, hi, fl
    <2> QED BY <1>1, <1>2, <1>5, <1>6, <1>7, <2>1, <2>2 DEF RemadePart, Contains
  <1>10. i \in 1 .. Len(areas) + 1 /\ i \in i - 1 .. Len(areas)
    BY <1>2
  <1>11. Remade(Splice(i, i, s), addr, e, {})
    BY <1>1, <1>2, <1>7, <1>8, <1>9, <1>10, SpliceRemade
  <1> QED BY <1>3, <1>11 DEF s

(* What is left of the area the range starts in: the list has the same areas
   between lo, where that area starts, and the range. *)
LEMMA RestFacts ==
    ASSUME Ordered(areas), NEW addr \in Pages, NEW e \in Nat, addr < e,
           ~ \E i \in DOMAIN areas : areas[i].vm_start < addr /\ e < areas[i].vm_end
    PROVE  \E lo \in Nat :
             /\ lo <= addr
             /\ \A k \in 1 .. Behind(addr) : areas[k].vm_end <= lo
             /\ \A k \in Behind(addr) + 1 .. Len(areas) : lo <= areas[k].vm_start
             /\ \/ Rest(addr) = <<>> /\ lo = addr
                \/ \E u : /\ Rest(addr) = <<u>> /\ Fits(u) /\ u.vm_start = lo /\ u.vm_end = addr
                          /\ Behind(addr) + 1 <= Behind(e)
             /\ \A x \in Int : \A f : lo <= x /\ x < addr =>
                    (Has(Rest(addr), x, f) <=> Has(areas, x, f))
  <1> DEFINE p == Behind(addr) + 1
             n == Len(areas)
             lo == areas[p].vm_start
             fl == areas[p].access_flags
             u == Area(lo, addr, fl)
  <1>1. /\ n \in Nat /\ addr \in Nat /\ Behind(addr) \in 0 .. n
        /\ \A i \in 1 .. n : areas[i].vm_end <= addr <=> i <= Behind(addr)
    BY AroundRange
  <1>2. CASE ~StartsIn(addr)
    <2>1. \A k \in Behind(addr) + 1 .. n : addr <= areas[k].vm_start
      BY <1>2, AroundRange
    <2>2. \A k \in 1 .. Behind(addr) : areas[k].vm_end <= addr
      BY <1>1
    <2>3. Rest(addr) = <<>>
      BY <1>2 DEF Rest
    <2>4. \A x \in Int : \A f : addr <= x /\ x < addr => FALSE
      BY <1>1
    <2> QED BY <1>1, <2>1, <2>2, <2>3, <2>4
  <1>3. CASE StartsIn(addr)
    <2>1. p \in 1 .. n /\ p <= Behind(e) /\ lo < addr
      BY <1>3, AroundRange
    <2>2. /\ lo \in Pages /\ lo \in Nat /\ fl \in Prots /\ areas[p] \in AreaType
          /\ areas[p].vm_end \in Nat /\ addr < areas[p].vm_end
      <3>1. areas[p] \in AreaType
        BY <2>1 DEF Ordered
      <3>2. ~ (areas[p].vm_end <= addr)
        BY <1>1, <2>1
      <3> QED BY <1>1, <2>1, <3>1, <3>2, AreaFacts
    <2>3. Rest(addr) = <<u>>
      <3>1. [areas[p] EXCEPT !.vm_end = addr] = u
        BY <2>2, Trimmed
      <3> QED BY <1>3, <3>1 DEF Rest
    <2>4. \A k \in p .. n : lo <= areas[k].vm_start
      BY <1>1, <2>1, AreaFacts
    <2>5. \A k \in 1 .. Behind(addr) : areas[k].vm_end <= lo
      BY <1>1, <2>1, AreaFacts
    <2>6. ASSUME NEW x \in Int, NEW f, lo <= x, x < addr
          PROVE  Has(areas, x, f) <=> f = fl
      <3>1. ASSUME NEW k \in 1 .. n, Contains(k, x) PROVE k = p
        <4>1. areas[k].vm_start <= x /\ x < areas[k].vm_end
          BY <3>1 DEF Contains
        <4>2. ~ (k < p)
          BY <1>1, <2>1, <2>2, <2>6, <4>1, AreaFacts
        <4>3. ~ (p < k)
          BY <1>1, <2>1, <2>2, <2>6, <4>1, AreaFacts
        <4> QED BY <1>1, <4>2, <4>3
      <3>2. Contains(p, x)
        BY <1>1, <2>2, <2>6 DEF Contains
      <3> HIDE DEF p
      <3> QED BY <2>1, <3>1, <3>2 DEF Has, Contains
    <2> HIDE DEF lo, fl, p
    <2>7. /\ Fits(u) /\ u.vm_start = lo /\ u.vm_end = addr
          /\ \A x, g : Covers(u, x, g) <=> lo <= x /\ x < addr /\ g = fl
      BY <2>1, <2>2, AreaFits
    <2> HIDE DEF u
    <2>8. \A x \in Int : \A f : lo <= x /\ x < addr => (Has(<<u>>, x, f) <=> Has(areas, x, f))
      BY <2>6, <2>7, OneArea
    <2>9. \A x \in Int : \A f : lo <= x /\ x < addr => (Has(Rest(addr), x, f) <=> Has(areas, x, f))
      BY <2>3, <2>8
    <2>10. Rest(addr) = <<u>> /\ Fits(u) /\ u.vm_start = lo /\ u.vm_end = addr /\ p <= Behind(e)
      BY <2>1, <2>3, <2>7
    <2>11. lo \in Nat /\ lo <= addr
      BY <1>1, <2>1, <2>2
    <2>12. p = Behind(addr) + 1
      BY DEF p
    <2> QED BY <2>4, <2>5, <2>9, <2>10, <2>11, <2>12
  <1> QED BY <1>2, <1>3

(***************************************************************************)
(* The loop of munmap keeps the list in order and unmaps the range; nothing *)
(* else changes, or the area it has moved has grown down.                   *)
(***************************************************************************)
LEMMA CutGrown ==
    ASSUME Ordered(areas), NEW addr \in Pages, NEW e \in Nat, e % PAGE = 0, addr < e,
           ~ \E i \in DOMAIN areas : areas[i].vm_start < addr /\ e < areas[i].vm_end
    PROVE  \E c \in Nat, g \in Prots \cup {{}} :
             /\ Grown(Cut(addr, e), addr, e, c, g)
             /\ \/ Moved(addr, e) = {} /\ c = e
                \/ /\ Behind(e) + 1 \in 1 .. Len(areas) /\ Moved(addr, e) = {Behind(e) + 1}
                   /\ c = areas[Behind(e) + 1].vm_start /\ g = areas[Behind(e) + 1].access_flags
  <1> DEFINE p == Behind(addr)
             q == Behind(e)
             n == Len(areas)
             r == Rest(addr)
  <1>1. /\ n \in Nat /\ addr \in Nat /\ p \in 0 .. n /\ q \in p .. n
        /\ \A i \in 1 .. n : areas[i].vm_end <= addr <=> i <= p
        /\ \A i \in 1 .. n : areas[i].vm_end <= e <=> i <= q
    BY AroundRange
  <1>2. PICK lo \in Nat :
             /\ lo <= addr
             /\ \A k \in 1 .. p : areas[k].vm_end <= lo
             /\ \A k \in p + 1 .. n : lo <= areas[k].vm_start
             /\ \/ r = <<>> /\ lo = addr
                \/ \E u : r = <<u>> /\ Fits(u) /\ u.vm_start = lo /\ u.vm_end = addr /\ p + 1 <= q
             /\ \A x \in Int : \A f : lo <= x /\ x < addr => (Has(r, x, f) <=> Has(areas, x, f))
    BY RestFacts
  <1> HIDE DEF p, q, r
  (* The areas before lo hold nothing from lo on. *)
  <1>3. ASSUME NEW j \in p .. n, NEW hi \in Int, \A k \in j + 1 .. n : hi <= areas[k].vm_start,
               NEW x \in Int, NEW f, lo <= x, x < hi
        PROVE  Has(areas, x, f) <=> \E k \in p + 1 .. j : Contains(k, x) /\ areas[k].access_flags = f
    <2>1. \A k \in 1 .. n : Contains(k, x) => k \in p + 1 .. j
      <3> SUFFICES ASSUME NEW k \in 1 .. n, Contains(k, x), k \notin p + 1 .. j PROVE FALSE
        OBVIOUS
      <3>1. k \in 1 .. p \/ k \in j + 1 .. n
        BY <1>1
      <3> QED BY <1>2, <1>3, <3>1, AreaFacts DEF Contains
    <2>2. \A k \in p + 1 .. j : k \in 1 .. n
      BY <1>1
    <2> QED BY <2>1, <2>2 DEF Has, Contains
  <1>4. CASE Moved(addr, e) = {}
    <2>1. \A k \in q + 1 .. n : e <= areas[k].vm_start
      <3> SUFFICES ASSUME NEW k \in q + 1 .. n PROVE e <= areas[k].vm_start
        OBVIOUS
      <3>1. q + 1 \in 1 .. n /\ k \in 1 .. n /\ q + 1 \in DOMAIN areas
        BY <1>1
      <3>2. e <= areas[q + 1].vm_start
        BY <1>4, <3>1, AreaFacts DEF Moved, Following, q
      <3> QED BY <3>1, <3>2, AreaFacts
    <2>2. Leaves(p + 1, q, lo, e)
      BY <1>1, <1>2, <2>1 DEF Leaves
    <2>3. /\ Ordered(r) /\ Within(r, lo, e)
          /\ \A x \in Int : \A f : addr <= x => ~Has(r, x, f)
      <3>1. CASE r = <<>>
        BY <3>1, NoArea
      <3>2. ASSUME NEW u, r = <<u>>, Fits(u), u.vm_start = lo, u.vm_end = addr PROVE <2>3
        BY <1>1, <1>2, <3>2, OneArea DEF Covers
      <3> QED BY <1>2, <3>1, <3>2
    <2>4. RemadePart(r, p + 1, q, lo, e, addr, e, {})
      <3>1. \A k \in p + 1 .. q : lo <= areas[k].vm_start /\ areas[k].vm_end <= e
        BY <1>1, <1>2
      <3>2. ASSUME NEW x \in Int, NEW f, lo <= x, x < e
            PROVE  Has(r, x, f) <=>
                     IF addr <= x /\ x < e THEN f \in {}
                     ELSE \E k \in p + 1 .. q : Contains(k, x) /\ areas[k].access_flags = f
        <4>1. Has(areas, x, f) <=> \E k \in p + 1 .. q : Contains(k, x) /\ areas[k].access_flags = f
          BY <1>1, <1>3, <2>1, <3>2
        <4>2. CASE addr <= x
          BY <2>3, <3>2, <4>2
        <4>3. CASE ~ (addr <= x)
          BY <1>1, <1>2, <3>2, <4>1, <4>3
        <4> QED BY <4>2, <4>3
      <3> QED BY <1>1, <1>2, <3>1, <3>2 DEF RemadePart
    <2>5. p + 1 \in 1 .. n + 1 /\ q \in (p + 1) - 1 .. n
      BY <1>1
    <2>6. Remade(Splice(p + 1, q, r), addr, e, {})
      BY <1>1, <2>2, <2>3, <2>4, <2>5, SpliceRemade
    <2>7. Cut(addr, e) = Splice(p + 1, q, r)
      BY <1>4 DEF Cut, p, q, r
    <2>8. Grown(Cut(addr, e), addr, e, e, {})
      BY <1>1, <2>6, <2>7 DEF Remade, Grown
    <2> QED BY <1>1, <1>4, <2>8
  <1>5. CASE Moved(addr, e) # {}
    <2> DEFINE hi == areas[q + 1].vm_end
               fl == areas[q + 1].access_flags
               w == Area(e, hi, fl)
               s == r \o <<w>>
    <2>1. /\ Moved(addr, e) = {q + 1} /\ q + 1 \in 1 .. n
      BY <1>5, AreaFacts DEF Moved, Following, q
    <2>2. /\ hi \in Nat /\ hi \in Pages \cup {MMAP_AREA_END} /\ fl \in Prots
          /\ areas[q + 1] \in AreaType /\ e < hi
      <3>1. areas[q + 1] \in AreaType
        BY <2>1 DEF Ordered
      <3>2. ~ (areas[q + 1].vm_end <= e)
        BY <1>1, <2>1
      <3> QED BY <2>1, <3>1, <3>2, AreaFacts
    <2>3. e \in Pages
      BY <1>1, <2>2, AddressFacts
    <2>4. [areas[q + 1] EXCEPT !.vm_start = e] = w
      BY <2>2, Trimmed
    <2>5. areas[q + 1].vm_end = hi /\ areas[q + 1].access_flags = fl
      OBVIOUS
    <2>6. Leaves(p + 1, q + 1, lo, hi)
      <3>1. \A k \in q + 2 .. n : hi <= areas[k].vm_start
        BY <1>1, <2>1, AreaFacts
      <3> QED BY <1>1, <1>2, <3>1 DEF Leaves
    <2> HIDE DEF hi, fl
    <2>7. /\ Fits(w) /\ w.vm_start = e /\ w.vm_end = hi
          /\ \A x, g : Covers(w, x, g) <=> e <= x /\ x < hi /\ g = fl
      BY <2>2, <2>3, AreaFits
    <2> HIDE DEF w
    <2>8. /\ Ordered(s) /\ Within(s, lo, hi)
          /\ \A x \in Int : \A f : Has(s, x, f) <=> (x < addr /\ Has(r, x, f)) \/ Covers(w, x, f)
      <3>1. CASE r = <<>>
        <4>1. s = <<w>>
          BY <3>1
        <4> HIDE DEF s
        <4>2. Ordered(<<w>>) /\ \A x, f : Has(<<w>>, x, f) <=> Covers(w, x, f)
          BY <2>7, OneArea
        <4>3. Within(<<w>>, lo, hi)
          BY <1>1, <1>2, <2>2, <2>7, OneArea
        <4> QED BY <3>1, <4>1, <4>2, <4>3, NoArea
      <3>2. ASSUME NEW u, r = <<u>>, Fits(u), u.vm_start = lo, u.vm_end = addr
            PROVE  <2>8
        <4>1. s = <<u, w>>
          <5>1. s = <<u>> \o <<w>>
            BY <3>2
          <5> HIDE DEF s
          <5>2. u \in AreaType /\ w \in AreaType
            BY <2>7, <3>2 DEF Fits
          <5>3. <<u>> \o <<w>> = <<u, w>>
            BY <5>2, PairOf
          <5> QED BY <5>1, <5>3
        <4> HIDE DEF s
        <4>2. Ordered(<<u, w>>) /\ \A x, f : Has(<<u, w>>, x, f) <=> Covers(u, x, f) \/ Covers(w, x, f)
          BY <1>1, <2>7, <3>2, TwoAreas
        <4>3. Within(<<u, w>>, lo, hi)
          BY <1>1, <2>2, <2>7, <3>2, TwoAreas
        <4>4. \A x \in Int : \A f : Has(r, x, f) <=> Covers(u, x, f)
          BY <3>2, OneArea
        <4>5. \A x \in Int : \A f : Covers(u, x, f) => x < addr
          BY <3>2 DEF Covers
        <4> QED BY <4>1, <4>2, <4>3, <4>4, <4>5
      <3> QED BY <1>2, <3>1, <3>2
    <2> HIDE DEF s
    <2>9. p + 1 \in 1 .. n + 1 /\ q + 1 \in (p + 1) - 1 .. n
      BY <1>1, <2>1
    <2>10. Ordered(Splice(p + 1, q + 1, s))
      BY <2>2, <2>6, <2>8, <2>9, SpliceOrdered
    <2> DEFINE c == areas[q + 1].vm_start
    <2>11. c \in Nat /\ c < hi
      BY <2>1, <2>5, AreaFacts
    <2>12. ASSUME NEW x \in Int, NEW f
           PROVE  Has(Splice(p + 1, q + 1, s), x, f) <=>
                    IF addr <= x /\ x < e THEN FALSE
                    ELSE IF e <= x /\ x < c THEN f = fl ELSE Has(areas, x, f)
      <3>1. \A k \in p + 1 .. q + 1 : lo <= areas[k].vm_start /\ areas[k].vm_end <= hi
        BY <1>1, <1>2, <2>1, <2>5, AreaFacts
      <3>2. Has(Splice(p + 1, q + 1, s), x, f) <=>
              IF lo <= x /\ x < hi THEN Has(s, x, f) ELSE Has(areas, x, f)
        <4>1. p + 1 \in 1 .. Len(areas) + 1 /\ lo \in Int /\ hi \in Int
          BY <1>1, <2>2, <2>9
        <4> QED BY <2>6, <2>8, <2>9, <3>1, <4>1, SpliceElsewhere, Zenon
      <3>3. Has(s, x, f) <=> (x < addr /\ Has(r, x, f)) \/ (e <= x /\ x < hi /\ f = fl)
        BY <2>7, <2>8
      <3>4. CASE ~ (lo <= x /\ x < hi)
        BY <1>1, <1>2, <2>2, <2>11, <3>2, <3>4
      <3>5. CASE lo <= x /\ x < addr
        <4>1. x < hi /\ ~ (e <= x)
          BY <1>1, <2>2, <3>5
        <4>2. Has(r, x, f) <=> Has(areas, x, f)
          BY <1>2, <3>5
        <4> HIDE DEF c, s
        <4> QED BY <1>1, <3>2, <3>3, <3>5, <4>1, <4>2
      <3>6. CASE addr <= x /\ x < e
        BY <1>1, <1>2, <2>2, <3>2, <3>3, <3>6
      <3>7. CASE e <= x /\ x < hi
        <4>1. Has(s, x, f) <=> f = fl
          BY <1>1, <3>3, <3>7
        <4>2. lo <= x /\ ~ (x < e)
          BY <1>1, <1>2, <3>7
        <4>3. c <= x => (Has(areas, x, f) <=> f = fl)
          <5> SUFFICES ASSUME c <= x PROVE Has(areas, x, f) <=> f = fl
            OBVIOUS
          <5>1. Contains(q + 1, x)
            BY <2>5, <3>7 DEF Contains
          <5>2. \A k \in p + 1 .. q + 1 : k # q + 1 => ~Contains(k, x)
            <6> SUFFICES ASSUME NEW k \in p + 1 .. q + 1, k # q + 1 PROVE ~Contains(k, x)
              OBVIOUS
            <6>1. k \in 1 .. n /\ k <= q
              BY <1>1
            <6>2. areas[k].vm_end <= e /\ areas[k].vm_end \in Nat
              BY <1>1, <6>1, AreaFacts
            <6> QED BY <1>1, <3>7, <6>2 DEF Contains
          <5>3. q + 1 \in p + 1 .. q + 1
            BY <1>1
          <5>4. Has(areas, x, f) <=> HasAmong(p + 1, q + 1, x, f)
            <6>1. p + 1 \in 1 .. Len(areas) + 1 /\ lo \in Int /\ hi \in Int
              BY <1>1, <2>2, <2>9
            <6> QED BY <2>6, <2>9, <3>7, <4>2, <6>1, HasBetween, Zenon
          <5> HIDE DEF c
          <5> QED BY <2>5, <5>1, <5>2, <5>3, <5>4 DEF HasAmong
        <4> HIDE DEF c, s
        <4> QED BY <1>1, <2>11, <3>2, <3>7, <4>1, <4>2, <4>3
      <3> QED BY <1>1, <1>2, <2>2, <3>4, <3>5, <3>6, <3>7
    <2>13. Cut(addr, e) = Splice(p + 1, q + 1, s)
      BY <1>5, <2>4 DEF Cut, p, q, r, s
    <2>14. Grown(Cut(addr, e), addr, e, c, fl)
      BY <2>10, <2>12, <2>13 DEF Grown
    <2>15. Behind(e) + 1 \in 1 .. Len(areas) /\ Moved(addr, e) = {Behind(e) + 1}
      BY <2>1 DEF q
    <2>16. c = areas[Behind(e) + 1].vm_start /\ fl = areas[Behind(e) + 1].access_flags
      BY <2>5 DEF q
    <2> HIDE DEF c, n
    <2> QED BY <2>2, <2>11, <2>14, <2>15, <2>16
  <1> QED BY <1>4, <1>5

-------------------------------------------------------------------------------
(* Part 5: a level of mprotect.                                             *)

(* A concatenation with the empty list. *)
LEMMA EmptyPart ==
    ASSUME NEW s \in Seq(AreaType)
    PROVE  <<>> \o s = s /\ s \o <<>> = s
  OBVIOUS

(***************************************************************************)
(* The row of areas a level of mprotect leaves in the place of one, two or  *)
(* three: lo .. a - 1 and b .. hi - 1, if there are such addresses, with    *)
(* the rights fl and between them a .. b - 1 with the rights prot.          *)
(***************************************************************************)
Part(a, b, f) == IF a < b THEN <<Area(a, b, f)>> ELSE <<>>

Row(lo, a, b, hi, fl, prot) == Part(lo, a, fl) \o <<Area(a, b, prot)>> \o Part(b, hi, fl)

(* The row is in order and gives its addresses these rights. *)
LEMMA RowFacts ==
    ASSUME NEW lo \in Pages, NEW a \in Pages, NEW b \in Pages \cup {MMAP_AREA_END},
           NEW hi \in Pages \cup {MMAP_AREA_END}, lo <= a, a < b, b <= hi,
           NEW fl \in Prots, NEW prot \in Prots
    PROVE  LET s == Row(lo, a, b, hi, fl, prot)
           IN  /\ Ordered(s) /\ Within(s, lo, hi)
               /\ \A x \in Int : \A f :
                     Has(s, x, f) <=>
                        lo <= x /\ x < hi /\ f = (IF a <= x /\ x < b THEN prot ELSE fl)
  <1> DEFINE u == Area(lo, a, fl)
             v == Area(a, b, prot)
             w == Area(b, hi, fl)
             s == Row(lo, a, b, hi, fl, prot)
  <1>1. lo \in Nat /\ a \in Nat /\ b \in Nat /\ hi \in Nat /\ (b < hi => b \in Pages)
    BY AddressFacts
  <1>2. lo < a => /\ Fits(u) /\ u.vm_start = lo /\ u.vm_end = a
                  /\ \A x, g : Covers(u, x, g) <=> lo <= x /\ x < a /\ g = fl
    BY AreaFits
  <1>3. /\ Fits(v) /\ v.vm_start = a /\ v.vm_end = b
        /\ \A x, g : Covers(v, x, g) <=> a <= x /\ x < b /\ g = prot
    BY AreaFits
  <1>4. b < hi => /\ Fits(w) /\ w.vm_start = b /\ w.vm_end = hi
                  /\ \A x, g : Covers(w, x, g) <=> b <= x /\ x < hi /\ g = fl
    BY <1>1, AreaFits
  <1>5. s = (IF lo < a THEN <<u>> ELSE <<>>) \o <<v>> \o (IF b < hi THEN <<w>> ELSE <<>>)
    BY DEF Row, Part
  <1> HIDE DEF u, v, w, s
  <1>6. v \in AreaType /\ (lo < a => u \in AreaType) /\ (b < hi => w \in AreaType)
    BY <1>2, <1>3, <1>4 DEF Fits
  <1> DEFINE Good == /\ Ordered(s) /\ Within(s, lo, hi)
                     /\ \A x \in Int : \A f :
                          Has(s, x, f) <=>
                             lo <= x /\ x < hi /\ f = (IF a <= x /\ x < b THEN prot ELSE fl)
  <1> SUFFICES Good
    BY DEF s
  <1>7. CASE lo < a /\ b < hi
    <2>1. s = <<u, v, w>>
      BY <1>5, <1>6, <1>7, TripleOf
    <2>2. /\ Ordered(s) /\ Within(s, lo, hi)
          /\ \A x, f : Has(s, x, f) <=> Covers(u, x, f) \/ Covers(v, x, f) \/ Covers(w, x, f)
      BY <1>1, <1>2, <1>3, <1>4, <1>7, <2>1, ThreeAreas
    <2> QED BY <1>1, <1>2, <1>3, <1>4, <1>7, <2>2
  <1>8. CASE lo < a /\ ~ (b < hi)
    <2>1. s = <<u, v>>
      <3>1. s = <<u>> \o <<v>> \o <<>> /\ <<u>> \o <<v>> = <<u, v>>
        BY <1>5, <1>6, <1>8, PairOf
      <3>2. <<u, v>> \in Seq(AreaType)
        BY <1>6, <1>8
      <3> QED BY <3>1, <3>2, EmptyPart
    <2>2. /\ Ordered(s) /\ Within(s, lo, hi)
          /\ \A x, f : Has(s, x, f) <=> Covers(u, x, f) \/ Covers(v, x, f)
      BY <1>1, <1>2, <1>3, <1>8, <2>1, TwoAreas
    <2> QED BY <1>1, <1>2, <1>3, <1>8, <2>2
  <1>9. CASE ~ (lo < a) /\ b < hi
    <2>1. s = <<v, w>>
      <3>1. s = <<>> \o <<v>> \o <<w>> /\ <<v>> \o <<w>> = <<v, w>>
        BY <1>5, <1>6, <1>9, PairOf
      <3>2. <<v>> \in Seq(AreaType)
        BY <1>6
      <3> QED BY <3>1, <3>2, EmptyPart
    <2>2. /\ Ordered(s) /\ Within(s, lo, hi)
          /\ \A x, f : Has(s, x, f) <=> Covers(v, x, f) \/ Covers(w, x, f)
      BY <1>1, <1>3, <1>4, <1>9, <2>1, TwoAreas
    <2> QED BY <1>1, <1>3, <1>4, <1>9, <2>2
  <1>10. CASE ~ (lo < a) /\ ~ (b < hi)
    <2>1. s = <<v>>
      <3>1. s = <<>> \o <<v>> \o <<>>
        BY <1>5, <1>10
      <3>2. <<v>> \in Seq(AreaType)
        BY <1>6
      <3> QED BY <3>1, <3>2, EmptyPart
    <2>2. /\ Ordered(s) /\ Within(s, lo, hi)
          /\ \A x, f : Has(s, x, f) <=> Covers(v, x, f)
      BY <1>1, <1>3, <1>10, <2>1, OneArea
    <2> QED BY <1>1, <1>3, <1>10, <2>2
  <1> QED BY <1>7, <1>8, <1>9, <1>10

(* Outside of a .. b - 1, areas i .. j give the addresses what the row gives them. *)
RowAgrees(i, j, lo, c, d, hi, fl, prot, a, b) ==
    \A x \in Int : \A f : lo <= x /\ x < hi =>
       (f = (IF c <= x /\ x < d THEN prot ELSE fl) <=>
          IF a <= x /\ x < b THEN f = prot
          ELSE \E k \in i .. j : Contains(k, x) /\ areas[k].access_flags = f)

(* A row in the place of areas i .. j that agrees with them remakes the list. *)
LEMMA RowRemade ==
    ASSUME Ordered(areas), NEW i \in 1 .. Len(areas), NEW j \in i .. Len(areas),
           NEW lo, lo = areas[i].vm_start, NEW hi, hi = areas[j].vm_end,
           NEW c \in Pages, NEW d \in Pages \cup {MMAP_AREA_END}, lo <= c, c < d, d <= hi,
           NEW fl \in Prots, NEW prot \in Prots, NEW a \in Int, NEW b \in Int, lo <= a, b <= hi,
           RowAgrees(i, j, lo, c, d, hi, fl, prot, a, b)
    PROVE  Remade(Splice(i, j, Row(lo, c, d, hi, fl, prot)), a, b, {prot})
  <1> DEFINE n == Len(areas)
             s == Row(lo, c, d, hi, fl, prot)
  <1>1. /\ n \in Nat /\ i \in 1 .. n /\ j \in 1 .. n /\ i <= j
        /\ lo \in Pages /\ lo \in Nat /\ hi \in Pages \cup {MMAP_AREA_END} /\ hi \in Nat
    BY AreaFacts
  <1>2. /\ Ordered(s) /\ Within(s, lo, hi)
        /\ \A x \in Int : \A f :
              Has(s, x, f) <=> lo <= x /\ x < hi /\ f = (IF c <= x /\ x < d THEN prot ELSE fl)
    BY <1>1, RowFacts
  <1> HIDE DEF s
  <1>3. Leaves(i, j, lo, hi)
    BY <1>1, AreaFacts DEF Leaves
  <1>4. \A k \in i .. j : lo <= areas[k].vm_start /\ areas[k].vm_end <= hi
    <2> SUFFICES ASSUME NEW k \in i .. j PROVE lo <= areas[k].vm_start /\ areas[k].vm_end <= hi
      OBVIOUS
    <2>1. k \in 1 .. n /\ (k = i \/ i < k) /\ (k = j \/ k < j)
      BY <1>1
    <2>2. lo <= areas[k].vm_start
      <3>1. CASE k = i
        BY <1>1, <3>1
      <3>2. CASE i < k
        <4>1. areas[i].vm_end <= areas[k].vm_start /\ areas[i].vm_start < areas[i].vm_end
          BY <1>1, <2>1, <3>2, AreaFacts
        <4> QED BY <1>1, <2>1, <4>1, AreaFacts
      <3> QED BY <2>1, <3>1, <3>2
    <2>3. areas[k].vm_end <= hi
      BY <1>1, <2>1, AreaFacts
    <2> QED BY <2>2, <2>3
  <1>5. RemadePart(s, i, j, lo, hi, a, b, {prot})
    <2>1. ASSUME NEW x \in Int, NEW f, lo <= x, x < hi
          PROVE  Has(s, x, f) <=>
                   IF a <= x /\ x < b THEN f \in {prot}
                   ELSE \E k \in i .. j : Contains(k, x) /\ areas[k].access_flags = f
      <3>1. Has(s, x, f) <=> f = (IF c <= x /\ x < d THEN prot ELSE fl)
        BY <1>2, <2>1
      <3>2. f = (IF c <= x /\ x < d THEN prot ELSE fl) <=>
              IF a <= x /\ x < b THEN f = prot
              ELSE \E k \in i .. j : Contains(k, x) /\ areas[k].access_flags = f
        BY <2>1 DEF RowAgrees
      <3>3. f \in {prot} <=> f = prot
        OBVIOUS
      <3> QED BY <3>1, <3>2, <3>3
    <2> QED BY <1>4, <2>1 DEF RemadePart
  <1>6. i \in 1 .. n + 1 /\ j \in i - 1 .. n
    BY <1>1
  <1>7. lo \in Int /\ hi \in Int
    BY <1>1
  <1> QED BY <1>2, <1>3, <1>5, <1>6, <1>7, SpliceRemade DEF s

(* A level of mprotect works on an area that its address is in. *)
LevelOK ==
    /\ call.addr \in Pages /\ call.prot \in Prots
    /\ stop \in Pages \cup {MMAP_AREA_END} /\ call.addr < stop
    /\ cur \in 1 .. Len(areas)
    /\ cur_vm.vm_start <= call.addr /\ call.addr < cur_vm.vm_end

(* Where the range of a level ends. *)
LevelEnd == IF stop < cur_vm.vm_end THEN stop ELSE cur_vm.vm_end

(***************************************************************************)
(* Whatever a level of mprotect does to three areas, it gives its range the *)
(* rights asked for and changes nothing else.                               *)
(***************************************************************************)
LEMMA ReshapedRemade ==
    ASSUME Ordered(areas), LevelOK, NEW s \in Reshaped
    PROVE  Remade(s, call.addr, LevelEnd, {call.prot})
  <1> DEFINE n == Len(areas)
             a == call.addr
             b == LevelEnd
             c == cur
             m == areas[c].vm_start
             e == areas[c].vm_end
             fl == areas[c].access_flags
             prot == call.prot
             back == IF b < e THEN <<[areas[c] EXCEPT !.vm_start = b]>> ELSE <<>>
             e2 == areas[c + 1].vm_end
             m0 == areas[c - 1].vm_start
  <1>1. /\ n \in Nat /\ c \in 1 .. n /\ a \in Pages /\ a \in Nat /\ prot \in Prots /\ fl \in Prots
        /\ m \in Pages /\ m \in Nat /\ e \in Pages \cup {MMAP_AREA_END} /\ e \in Nat
        /\ m <= a /\ a < e /\ areas[c] \in AreaType
    <2>1. areas[cur] \in AreaType
      BY DEF LevelOK, Ordered
    <2> QED BY <2>1, AreaFacts, AddressFacts DEF LevelOK, cur_vm
  <1>2. b \in Pages \cup {MMAP_AREA_END} /\ b \in Nat /\ a < b /\ b <= e
    BY <1>1, AddressFacts DEF LevelEnd, LevelOK, cur_vm
  <1>3. PrevSame => /\ c - 1 \in 1 .. n /\ areas[c - 1].vm_end = a /\ areas[c - 1].access_flags = prot
                    /\ m = a /\ m0 \in Pages /\ m0 \in Nat /\ m0 < a
    <2>1. PrevSame => c - 1 \in 1 .. n /\ areas[c - 1].vm_end = a /\ areas[c - 1].access_flags = prot /\ m = a
      BY <1>1 DEF PrevSame, EndsAt, cur_vm
    <2> QED BY <2>1, AreaFacts
  <1>4. NextSame => /\ c + 1 \in 1 .. n /\ areas[c + 1].vm_start = e /\ areas[c + 1].access_flags = prot
                    /\ e2 \in Pages \cup {MMAP_AREA_END} /\ e2 \in Nat /\ e < e2
    <2>1. NextSame => c + 1 \in 1 .. n /\ areas[c + 1].vm_start = e /\ areas[c + 1].access_flags = prot
      BY <1>1 DEF NextSame, StartsAt, cur_vm
    <2> QED BY <2>1, AreaFacts
  <1>5. Front = Part(m, a, fl)
    <2>1. [areas[c] EXCEPT !.vm_end = a] = Area(m, a, fl)
      BY <1>1, Trimmed
    <2>2. m < a <=> a > m
      BY <1>1
    <2> QED BY <2>1, <2>2 DEF Front, Part, cur_vm
  <1>6. back = Part(b, e, fl)
    <2>1. [areas[c] EXCEPT !.vm_start = b] = Area(b, e, fl)
      BY <1>1, Trimmed
    <2> HIDE DEF b
    <2> QED BY <2>1 DEF Part
  <1>7. \A x : Changed(x) = <<Area(a, x, prot)>> /\ Joined(x) = <<Area(m0, x, prot)>>
    BY DEF Changed, Joined
  <1>8. /\ Front \in Seq(AreaType)
        /\ \A x \in Pages \cup {MMAP_AREA_END} :
              /\ Changed(x) \in Seq(AreaType)
              /\ PrevSame => Joined(x) \in Seq(AreaType)
    <2>1. Area(m, a, fl) \in AreaType
      BY <1>1 DEF Area, AreaType
    <2>2. \A x \in Pages \cup {MMAP_AREA_END} :
             Area(a, x, prot) \in AreaType /\ (PrevSame => Area(m0, x, prot) \in AreaType)
      BY <1>1, <1>3 DEF Area, AreaType
    <2>3. <<>> \in Seq(AreaType) /\ \A x \in AreaType : <<x>> \in Seq(AreaType)
      OBVIOUS
    <2> HIDE DEF m, m0, a, fl, prot
    <2>4. Front \in Seq(AreaType)
      BY <1>5, <2>1, <2>3 DEF Part
    <2>5. ASSUME NEW x \in Pages \cup {MMAP_AREA_END}
          PROVE  Changed(x) \in Seq(AreaType) /\ (PrevSame => Joined(x) \in Seq(AreaType))
      BY <1>7, <2>2, <2>3
    <2> QED BY <2>4, <2>5
  <1>9. \A x \in Pages \cup {MMAP_AREA_END} :
            /\ Front \o Changed(x) \o <<>> = Front \o Changed(x)
            /\ PrevSame => Joined(x) \o <<>> = Joined(x) /\ <<>> \o Joined(x) = Joined(x)
    <2>1. \A x \in Pages \cup {MMAP_AREA_END} : Front \o Changed(x) \in Seq(AreaType)
      BY <1>8
    <2> QED BY <1>8, <2>1, EmptyPart
  <1>10. \/ s = areas /\ fl = prot
         \/ PrevSame /\ s = Splice(c - 1, c, Joined(b) \o back)
         \/ s = Splice(c, c, Front \o Changed(b) \o back)
         \/ PrevSame /\ NextSame /\ b = e /\ s = Splice(c - 1, c + 1, Joined(e2))
         \/ NextSame /\ b = e /\ s = Splice(c, c + 1, Front \o Changed(e2))
    <2>1. CASE stop < e
      <3>1. s = EndsInside /\ b = stop
        BY <2>1 DEF Reshaped, LevelEnd, cur_vm
      <3>2. back = <<[areas[c] EXCEPT !.vm_start = b]>>
        BY <2>1, <3>1
      <3> HIDE DEF back, b
      <3> QED BY <3>1, <3>2 DEF EndsInside, cur_vm
    <2>2. CASE ~ (stop < e)
      <3>1. b = e
        BY <2>2 DEF LevelEnd, cur_vm
      <3>2. back = <<>>
        <4> HIDE DEF b
        <4> QED BY <1>1, <3>1
      <3>4. Front \o Changed(b) \o <<>> = Front \o Changed(b)
        BY <1>2, <1>9
      <3>5. PrevSame => Joined(b) \o <<>> = Joined(b)
        BY <1>2, <1>9
      <3>6. CASE stop = e
        <4>1. s \in EndsWith /\ b = stop
          BY <2>2, <3>1, <3>6 DEF Reshaped, cur_vm
        <4> HIDE DEF back, b
        <4> QED BY <3>1, <3>2, <3>4, <3>5, <4>1 DEF EndsWith, cur_vm
      <3>7. CASE stop # e
        <4>1. s = EndsBehind
          BY <2>2, <3>7 DEF Reshaped, cur_vm
        <4> HIDE DEF back, b
        <4> QED BY <3>1, <3>2, <3>4, <3>5, <4>1 DEF EndsBehind, cur_vm
      <3> QED BY <3>6, <3>7
    <2> QED BY <2>1, <2>2
  <1>11. areas[c].vm_start = m /\ areas[c].vm_end = e /\ areas[c].access_flags = fl
    OBVIOUS
  <1> HIDE DEF a, b, c, m, e, fl, prot, back, m0, e2
  <1>12. CASE s = areas /\ fl = prot
    <2>1. ASSUME NEW x \in Int, NEW f, a <= x, x < b
          PROVE  Has(areas, x, f) <=> f = prot
      <3>1. Contains(c, x)
        BY <1>1, <1>2, <1>11, <2>1 DEF Contains
      <3>2. ASSUME NEW k \in 1 .. n, Contains(k, x) PROVE k = c
        <4>1. ~ (k < c)
          BY <1>1, <3>1, <3>2, <2>1, AreaFacts DEF Contains
        <4>2. ~ (c < k)
          BY <1>1, <3>1, <3>2, <2>1, AreaFacts DEF Contains
        <4> QED BY <1>1, <4>1, <4>2
      <3> QED BY <1>1, <1>11, <1>12, <3>1, <3>2 DEF Has, Contains
    <2>2. \A f : f \in {prot} <=> f = prot
      OBVIOUS
    <2>3. Remade(areas, a, b, {prot})
      BY <2>1, <2>2 DEF Remade
    <2> QED BY <1>12, <2>3 DEF a, b, prot
  <1>13. CASE PrevSame /\ s = Splice(c - 1, c, Joined(b) \o back)
    <2>1. s = Splice(c - 1, c, Row(m0, m0, b, e, fl, prot))
      <3>1. Part(m0, m0, fl) = <<>>
        BY <1>3, <1>13 DEF Part
      <3>2. Joined(b) = <<>> \o <<Area(m0, b, prot)>>
        BY <1>2, <1>7, <1>9, <1>13
      <3> QED BY <1>6, <1>13, <3>1, <3>2 DEF Row
    <2>2. RowAgrees(c - 1, c, m0, m0, b, e, fl, prot, a, b)
      <3>1. c - 1 .. c = {c - 1, c}
        BY <1>1
      <3>2. areas[c - 1].vm_start = m0
        BY DEF m0
      <3> QED BY <1>1, <1>2, <1>3, <1>11, <1>13, <3>1, <3>2 DEF RowAgrees, Contains
    <2>3. m0 = areas[c - 1].vm_start
      BY DEF m0
    <2>4. /\ c - 1 \in 1 .. n /\ c \in c - 1 .. n /\ m0 \in Pages /\ m0 <= m0 /\ m0 < b /\ b <= e
          /\ a \in Int /\ b \in Int /\ m0 <= a
      BY <1>1, <1>2, <1>3, <1>13
    <2>5. Remade(Splice(c - 1, c, Row(m0, m0, b, e, fl, prot)), a, b, {prot})
      BY <1>1, <1>2, <1>11, <2>2, <2>3, <2>4, RowRemade
    <2> QED BY <2>1, <2>5 DEF a, b, prot
  <1>14. CASE s = Splice(c, c, Front \o Changed(b) \o back)
    <2>1. s = Splice(c, c, Row(m, a, b, e, fl, prot))
      BY <1>5, <1>6, <1>7, <1>14 DEF Row
    <2>2. RowAgrees(c, c, m, a, b, e, fl, prot, a, b)
      <3>1. c .. c = {c}
        BY <1>1
      <3> QED BY <1>1, <1>2, <1>11, <3>1 DEF RowAgrees, Contains
    <2>3. c \in 1 .. n /\ c \in c .. n /\ a \in Int /\ b \in Int
      BY <1>1, <1>2
    <2>4. Remade(Splice(c, c, Row(m, a, b, e, fl, prot)), a, b, {prot})
      BY <1>1, <1>2, <1>11, <2>2, <2>3, RowRemade
    <2> QED BY <2>1, <2>4 DEF a, b, prot
  <1>15. CASE PrevSame /\ NextSame /\ b = e /\ s = Splice(c - 1, c + 1, Joined(e2))
    <2>1. s = Splice(c - 1, c + 1, Row(m0, m0, e2, e2, prot, prot))
      <3>1. Part(m0, m0, prot) = <<>> /\ Part(e2, e2, prot) = <<>>
        BY <1>3, <1>4, <1>15 DEF Part
      <3>2. Joined(e2) = <<>> \o <<Area(m0, e2, prot)>>
        BY <1>4, <1>7, <1>9, <1>15
      <3>3. Joined(e2) \o <<>> = Joined(e2)
        BY <1>4, <1>9, <1>15
      <3> QED BY <1>15, <3>1, <3>2, <3>3 DEF Row
    <2>2. RowAgrees(c - 1, c + 1, m0, m0, e2, e2, prot, prot, a, b)
      <3>1. c - 1 .. c + 1 = {c - 1, c, c + 1}
        BY <1>1
      <3>2. areas[c - 1].vm_start = m0 /\ areas[c + 1].vm_end = e2
        BY DEF m0, e2
      <3> QED BY <1>1, <1>2, <1>3, <1>4, <1>11, <1>15, <3>1, <3>2 DEF RowAgrees, Contains
    <2>3. m0 = areas[c - 1].vm_start /\ e2 = areas[c + 1].vm_end
      BY DEF m0, e2
    <2>4. /\ c - 1 \in 1 .. n /\ c + 1 \in c - 1 .. n /\ m0 \in Pages /\ m0 <= m0 /\ m0 < e2 /\ e2 <= e2
          /\ e2 \in Pages \cup {MMAP_AREA_END} /\ a \in Int /\ b \in Int /\ m0 <= a /\ b <= e2
      BY <1>1, <1>2, <1>3, <1>4, <1>15
    <2>5. Remade(Splice(c - 1, c + 1, Row(m0, m0, e2, e2, prot, prot)), a, b, {prot})
      BY <1>1, <2>2, <2>3, <2>4, RowRemade
    <2> QED BY <2>1, <2>5 DEF a, b, prot
  <1>16. CASE NextSame /\ b = e /\ s = Splice(c, c + 1, Front \o Changed(e2))
    <2>1. s = Splice(c, c + 1, Row(m, a, e2, e2, fl, prot))
      <3>1. Part(e2, e2, fl) = <<>>
        BY <1>4, <1>16 DEF Part
      <3>2. Front \o Changed(e2) \o <<>> = Front \o Changed(e2)
        BY <1>4, <1>9, <1>16
      <3> QED BY <1>5, <1>7, <1>16, <3>1, <3>2 DEF Row
    <2>2. RowAgrees(c, c + 1, m, a, e2, e2, fl, prot, a, b)
      <3>1. c .. c + 1 = {c, c + 1}
        BY <1>1
      <3>2. areas[c + 1].vm_end = e2
        BY DEF e2
      <3> QED BY <1>1, <1>2, <1>4, <1>11, <1>16, <3>1, <3>2 DEF RowAgrees, Contains
    <2>3. m = areas[c].vm_start /\ e2 = areas[c + 1].vm_end
      BY <1>11 DEF e2
    <2>4. /\ c \in 1 .. n /\ c + 1 \in c .. n /\ a < e2 /\ e2 <= e2
          /\ e2 \in Pages \cup {MMAP_AREA_END} /\ a \in Int /\ b \in Int /\ b <= e2
      BY <1>1, <1>2, <1>4, <1>16
    <2>5. Remade(Splice(c, c + 1, Row(m, a, e2, e2, fl, prot)), a, b, {prot})
      BY <1>1, <2>2, <2>3, <2>4, RowRemade
    <2> QED BY <2>1, <2>5 DEF a, b, prot
  <1> QED BY <1>10, <1>12, <1>13, <1>14, <1>15, <1>16

-------------------------------------------------------------------------------
(* Part 6: the rights of the pages.                                         *)

(* An address is in one area at most. *)
LEMMA OneContains ==
    ASSUME NEW s, Ordered(s), NEW i \in 1 .. Len(s), NEW j \in 1 .. Len(s), NEW x \in Int,
           s[i].vm_start <= x, x < s[i].vm_end, s[j].vm_start <= x, x < s[j].vm_end
    PROVE  i = j
  <1>1. s \in Seq(AreaType) /\ s[i] \in AreaType /\ s[j] \in AreaType
    BY DEF Ordered
  <1>2. /\ s[i].vm_start \in Int /\ s[i].vm_end \in Int
        /\ s[j].vm_start \in Int /\ s[j].vm_end \in Int
    BY <1>1, AddressFacts DEF AreaType
  <1>3. ~ (i < j)
    BY <1>2 DEF Ordered
  <1>4. ~ (j < i)
    BY <1>2 DEF Ordered
  <1> QED BY <1>1, <1>3, <1>4

(* The walks over the list find the area an address is in. *)
AreasFound ==
    \A x \in Int :
       /\ \A i \in 1 .. Len(areas) : Contains(i, x) => AreaOf(x) = i /\ Behind(x) = i - 1
       /\ AreaOf(x) # 0 => AreaOf(x) \in 1 .. Len(areas) /\ Contains(AreaOf(x), x)

(* They do so in every list in order. *)
LEMMA AreaOfFacts == Ordered(areas) => AreasFound
  <1> SUFFICES ASSUME Ordered(areas), NEW x \in Int
               PROVE  /\ \A i \in 1 .. Len(areas) : Contains(i, x) => AreaOf(x) = i /\ Behind(x) = i - 1
                      /\ AreaOf(x) # 0 => AreaOf(x) \in 1 .. Len(areas) /\ Contains(AreaOf(x), x)
    BY DEF AreasFound
  <1> DEFINE n == Len(areas)
             I == {i \in 1 .. n : Contains(i, x)}
             c == CHOOSE i \in I : \A j \in I : i <= j
  <1>1. n \in Nat /\ DOMAIN areas = 1 .. n
    BY AreaFacts
  <1>2. AreaOf(x) = IF I = {} THEN 0 ELSE c
    BY <1>1 DEF AreaOf
  <1>3. I # {} => c \in I
    <2>1. I \in SUBSET Nat
      BY <1>1
    <2> HIDE DEF I
    <2> QED BY <2>1, LeastOf
  <1> HIDE DEF c
  <1>4. ASSUME NEW i \in 1 .. n, NEW j \in 1 .. n, Contains(i, x), Contains(j, x) PROVE i = j
    BY <1>4, OneContains DEF Contains
  <1>5. ASSUME NEW i \in 1 .. n, Contains(i, x) PROVE AreaOf(x) = i /\ Behind(x) = i - 1
    <2>1. c \in I /\ AreaOf(x) = c
      BY <1>2, <1>3, <1>5
    <2>2. c = i
      BY <1>4, <1>5, <2>1
    <2>3. ~ (areas[i].vm_end <= x) /\ areas[i].vm_start <= x
      BY <1>5, AreaFacts DEF Contains
    <2>4. /\ Behind(x) \in 0 .. n
          /\ \A k \in 1 .. n : areas[k].vm_end <= x <=> k <= Behind(x)
      BY BehindFacts
    <2>5. ~ (i <= Behind(x))
      BY <2>3, <2>4
    <2>6. i > 1 => i - 1 <= Behind(x)
      <3> SUFFICES ASSUME i > 1 PROVE i - 1 <= Behind(x)
        OBVIOUS
      <3>1. i - 1 \in 1 .. n /\ i - 1 < i
        BY <1>1
      <3>2. areas[i - 1].vm_end <= areas[i].vm_start
        BY <3>1, AreaFacts
      <3>3. areas[i - 1].vm_end <= x
        BY <2>3, <3>1, <3>2, AreaFacts
      <3> QED BY <2>4, <3>1, <3>3
    <2> QED BY <1>1, <2>1, <2>2, <2>4, <2>5, <2>6
  <1>6. ASSUME AreaOf(x) # 0 PROVE AreaOf(x) \in 1 .. n /\ Contains(AreaOf(x), x)
    BY <1>2, <1>3, <1>6
  <1> QED BY <1>5, <1>6

(* The rights of a page are those of the area it is in. *)
RightsShown ==
    \A p \in Pages :
       /\ \A f : Has(areas, p, f) => f \in Prots /\ rights[p] = f
       /\ rights[p] # {} => Has(areas, p, rights[p])

RightsRule == Ordered(areas) => RightsShown

(* That holds in every state... *)
LEMMA RightsFacts == RightsRule
  <1> SUFFICES ASSUME Ordered(areas), NEW p \in Pages
               PROVE  /\ \A f : Has(areas, p, f) => f \in Prots /\ rights[p] = f
                      /\ rights[p] # {} => Has(areas, p, rights[p])
    BY DEF RightsRule, RightsShown
  <1>1. p \in Int /\ Len(areas) \in Nat
    BY AddressFacts, AreaFacts
  <1>2. /\ \A i \in 1 .. Len(areas) : Contains(i, p) => AreaOf(p) = i
        /\ AreaOf(p) # 0 => AreaOf(p) \in 1 .. Len(areas) /\ Contains(AreaOf(p), p)
    BY <1>1, AreaOfFacts DEF AreasFound
  <1>3. rights[p] = IF AreaOf(p) = 0 THEN {} ELSE areas[AreaOf(p)].access_flags
    BY DEF rights
  <1>4. ASSUME NEW f, Has(areas, p, f) PROVE f \in Prots /\ rights[p] = f
    <2>1. PICK i \in 1 .. Len(areas) : Contains(i, p) /\ areas[i].access_flags = f
      BY <1>4 DEF Has, Contains
    <2> QED BY <1>1, <1>2, <1>3, <2>1, AreaFacts
  <1>5. ASSUME rights[p] # {} PROVE Has(areas, p, rights[p])
    BY <1>2, <1>3, <1>5 DEF Has, Contains
  <1> QED BY <1>4, <1>5

(* ...and so in the next one. *)
LEMMA RightsFactsNext == RightsRule'
  BY RightsFacts, PTL

(* What Remade says of the rights of the pages; r is {} for a range that is unmapped. *)
Given(r) == IF r = {} THEN {} ELSE {r}

(* A list remade gives the pages of its range the rights r, and no others. *)
LEMMA RightsRemade ==
    ASSUME Ordered(areas), NEW a \in Int, NEW b \in Int, NEW r \in Prots \cup {{}},
           Remade(areas', a, b, Given(r))
    PROVE  rights' = [p \in Pages |-> IF a <= p /\ p < b THEN r ELSE rights[p]]
  <1>1. RightsShown
    BY RightsFacts DEF RightsRule
  <1>2. RightsShown'
    BY RightsFactsNext DEF RightsRule, Remade
  <1>3. \A f \in Prots : f # {}
    BY VmAssumption
  <1>4. ASSUME NEW p \in Pages
        PROVE  rights'[p] = IF a <= p /\ p < b THEN r ELSE rights[p]
    <2>1. \A f : Has(areas', p, f) <=> IF a <= p /\ p < b THEN f \in Given(r) ELSE Has(areas, p, f)
      BY AddressFacts DEF Remade
    <2>2. /\ \A f : Has(areas', p, f) => f \in Prots /\ rights'[p] = f
          /\ rights'[p] # {} => Has(areas', p, rights'[p])
      BY <1>2 DEF RightsShown
    <2>3. /\ \A f : Has(areas, p, f) => f \in Prots /\ rights[p] = f
          /\ rights[p] # {} => Has(areas, p, rights[p])
      BY <1>1 DEF RightsShown
    <2>4. CASE a <= p /\ p < b
      <3>1. CASE r = {}
        BY <2>1, <2>2, <2>4, <3>1 DEF Given
      <3>2. CASE r # {}
        BY <2>1, <2>2, <2>4, <3>2 DEF Given
      <3> QED BY <3>1, <3>2
    <2>5. CASE ~ (a <= p /\ p < b)
      <3>1. CASE rights[p] = {}
        <4>1. \A f : ~Has(areas, p, f)
          BY <1>3, <2>3, <3>1
        <4> QED BY <2>1, <2>2, <2>5, <3>1, <4>1
      <3>2. CASE rights[p] # {}
        BY <2>1, <2>2, <2>3, <2>5, <3>2
      <3> QED BY <3>1, <3>2
    <2> QED BY <2>4, <2>5
  <1>5. rights' = [p \in Pages |-> rights'[p]]
    BY DEF rights
  <1> QED BY <1>4, <1>5

-------------------------------------------------------------------------------
(* Part 7: the invariant of the list.                                       *)

(* The invariant of the list and of the other variables. *)
EntryType == [w : BOOLEAN, data : {"fresh", "written"}]

ListInv ==
    /\ Ordered(areas)
    /\ pt \in [Pages -> {Null} \cup EntryType]
    /\ call = Null \/ call \in [addr : Pages, length : Nat \ {0}, prot : Prots]
    /\ hung \in Nat /\ (hung # 0 => call = Null)

Free(a, b) == \A x \in Int : \A f : a <= x /\ x < b => ~Has(areas, x, f)

(* The pages that are populated: none, those of the range a .. b - 1, or, if the
   range joins two areas, as many from the start of the second on. *)
Populates(a, b, prot) ==
    \/ pt' = pt \/ pt' = map(a, b, prot)
    \/ \E i \in 1 .. Len(areas) - 1, z \in Int :
          /\ Joins(i) /\ areas[i + 1].vm_start = b /\ areas[i + 1].access_flags = prot
          /\ pt' = map(b, z, prot)

(* mmap maps a range that was free. *)
Maps(prot) ==
    \E a \in Pages, b \in Pages \cup {MMAP_AREA_END} :
       /\ a < b /\ Free(a, b) /\ Remade(areas', a, b, {prot})
       /\ Populates(a, b, prot)

(* The entry a page gets when it is populated (mmap.c:11-30). *)
LEMMA EntryFacts ==
    ASSUME NEW prot \in Prots
    PROVE  Entry(prot) \in EntryType /\ Entry(prot).w = ("W" \in prot)
  <1> DEFINE b == "W" \in prot
  <1>1. b \in BOOLEAN
    OBVIOUS
  <1>2. Entry(prot) = [w |-> b, data |-> "fresh"]
    BY Zenon DEF Entry
  <1> HIDE DEF b
  <1>3. Entry(prot) \in EntryType
    BY <1>1, <1>2 DEF EntryType
  <1>4. Entry(prot).w = b
    BY <1>2
  <1> QED BY <1>3, <1>4 DEF b

(* Placing the new area in a room between two areas maps its range. *)
LEMMA PlaceMaps ==
    ASSUME Ordered(areas), NEW i, NEW a, NEW b, Room(i, a, b), NEW prot \in Prots,
           NEW merge \in BOOLEAN, Place(i, a, b, prot, merge)
    PROVE  /\ a \in Pages /\ b \in Pages \cup {MMAP_AREA_END} /\ a < b
           /\ Free(a, b) /\ Remade(areas', a, b, {prot})
  <1>1. Remade(WithNew(i, a, b, prot, merge), a, b, {prot})
    BY WithNewRemade
  <1>2. areas' = WithNew(i, a, b, prot, merge)
    BY DEF Place
  <1>3. Remade(areas', a, b, {prot})
    BY <1>1, <1>2
  <1>4. Free(a, b)
    BY RoomFacts DEF Free
  <1> QED BY <1>3, <1>4 DEF Room

(* What is placed between two areas with its rights becomes one area with them. *)
LEMMA JoinedArea ==
    ASSUME Ordered(areas), Idle, NEW i \in 0 .. Len(areas), NEW a \in Pages,
           NEW b \in Pages \cup {MMAP_AREA_END}, a < b, NEW prot \in Prots,
           EndsAt(i, a, prot), StartsAt(i, b, prot), Place(i, a, b, prot, TRUE)
    PROVE  Joins(i)
  <1> DEFINE new == Area(areas[i].vm_start, areas[i + 1].vm_end, prot)
             t == Splice(i, i + 1, <<new>>)
  <1>1. /\ Len(areas) \in Nat /\ i \in 1 .. Len(areas) /\ i + 1 \in 1 .. Len(areas)
        /\ areas[i].vm_end = a /\ areas[i + 1].vm_start = b
        /\ areas[i].access_flags = prot /\ areas[i + 1].access_flags = prot
    BY AreaFacts DEF EndsAt, StartsAt
  <1>2. areas' = t
    BY DEF Place, WithNew
  <1>3. areas \in Seq(AreaType) /\ <<new>> \in Seq(AreaType)
    <2>1. new \in AreaType
      BY <1>1, AreaFacts DEF Area, AreaType
    <2> HIDE DEF new
    <2> QED BY <2>1 DEF Ordered
  <1> HIDE DEF new
  <1>4. i \in 1 .. Len(areas) + 1 /\ i + 1 \in i - 1 .. Len(areas)
    BY <1>1
  <1>5. /\ Len(t) = (i - 1) + Len(<<new>>) + (Len(areas) - (i + 1))
        /\ \A k \in 1 .. Len(<<new>>) : t[k + (i - 1)] = <<new>>[k]
        /\ t \in Seq(AreaType)
    BY <1>3, <1>4, SpliceFacts
  <1> HIDE DEF t
  <1>6. Len(<<new>>) = 1 /\ <<new>>[1] = new
    OBVIOUS
  <1>7. t[1 + (i - 1)] = new
    BY <1>5, <1>6
  <1>8. 1 + (i - 1) = i
    BY <1>1
  <1>9. t[i] = new /\ i \in DOMAIN t
    BY <1>1, <1>5, <1>6, <1>7, <1>8
  <1>10. i + 1 \in DOMAIN areas /\ areas[i].vm_end < areas[i + 1].vm_start
    BY <1>1, AreaFacts
  <1> QED BY <1>1, <1>2, <1>9, <1>10 DEF Joins, Idle, new

(* Both ways of mmap, at the hint and in the first gap, do so. *)
LEMMA MapMaps ==
    ASSUME ListInv, NEW addr \in {0} \cup Pages, NEW length \in Lengths, NEW prot \in Prots, NEW flags,
           MapAtHint(addr, length, prot, flags) \/ MapInGap(addr, length, prot, flags)
    PROVE  /\ Maps(prot) /\ pt' \in [Pages -> {Null} \cup EntryType]
           /\ UNCHANGED <<call, hung>> /\ Idle
  <1> DEFINE n == Rounded(length)
  <1>1. length \in Nat \ {0} /\ Ordered(areas) /\ pt \in [Pages -> {Null} \cup EntryType]
    BY VmAssumption DEF ListInv
  <1>2. \A x, y : map(x, y, prot) \in [Pages -> {Null} \cup EntryType]
    BY <1>1, EntryFacts DEF map
  <1>3. CASE MapAtHint(addr, length, prot, flags)
    <2> DEFINE a == Settled(addr, n, flags)
               i == Behind(a)
    <2>1. /\ Idle /\ a > 0 /\ Place(i, a, a + n, prot, 0 < i /\ i < Len(areas))
          /\ pt' = IF "POPULATE" \in flags THEN map(a, a + n, prot) ELSE pt
          /\ UNCHANGED <<call, hung>>
      BY <1>3 DEF MapAtHint
    <2> HIDE DEF a
    <2>2. Room(i, a, a + n)
      BY <1>1, <2>1, HintRoom DEF a
    <2>3. /\ a \in Pages /\ a + n \in Pages \cup {MMAP_AREA_END} /\ a < a + n
          /\ Free(a, a + n) /\ Remade(areas', a, a + n, {prot})
      <3>1. (0 < i /\ i < Len(areas)) \in BOOLEAN
        OBVIOUS
      <3> HIDE DEF i, n
      <3> QED BY <1>1, <2>1, <2>2, <3>1, PlaceMaps
    <2>4. Populates(a, a + n, prot) /\ pt' \in [Pages -> {Null} \cup EntryType]
      BY <1>1, <1>2, <2>1 DEF Populates
    <2> HIDE DEF n
    <2> QED BY <2>1, <2>3, <2>4 DEF Maps
  <1>4. CASE MapInGap(addr, length, prot, flags)
    <2>1. PICK i \in GapsFor(n) :
              /\ Place(i, GapStart(i), GapStart(i) + n, prot, TRUE)
              /\ IF "POPULATE" \in flags
                 THEN pt' = map(ret_addr(i, n, prot), ret_addr(i, n, prot) + n, prot)
                 ELSE pt' = pt
      BY <1>4 DEF MapInGap
    <2> DEFINE a == GapStart(i)
    <2>2. Room(i, a, a + n)
      BY <1>1, <2>1, GapRoom
    <2>7. i \in 0 .. Len(areas) /\ Len(areas) \in Nat
      BY <1>1, <2>1, AreaFacts DEF GapsFor
    <2>8. Idle /\ Place(i, a, a + n, prot, TRUE)
      BY <1>4, <2>1 DEF MapInGap
    <2> HIDE DEF a
    <2>3. /\ a \in Pages /\ a + n \in Pages \cup {MMAP_AREA_END} /\ a < a + n
          /\ Free(a, a + n) /\ Remade(areas', a, a + n, {prot})
      BY <1>1, <2>2, <2>8, PlaceMaps
    <2>4. Populates(a, a + n, prot)
      <3>1. CASE ~ (EndsAt(i, a, prot) /\ StartsAt(i, a + n, prot))
        <4>1. ret_addr(i, n, prot) = a
          BY <3>1 DEF ret_addr, a
        <4> QED BY <2>1, <4>1 DEF Populates
      <3>2. CASE EndsAt(i, a, prot) /\ StartsAt(i, a + n, prot)
        <4>1. ret_addr(i, n, prot) = a + n
          BY <3>2 DEF ret_addr, a
        <4>2. (a + n) + n \in Int
          <5>1. n \in Nat
            BY <1>1, RoundedFacts
          <5> HIDE DEF n
          <5> QED BY <2>3, <5>1, AddressFacts
        <4>3. Joins(i)
          BY <1>1, <2>3, <2>7, <2>8, <3>2, JoinedArea
        <4>4. i \in 1 .. Len(areas) - 1 /\ areas[i + 1].vm_start = a + n /\ areas[i + 1].access_flags = prot
          BY <2>7, <3>2 DEF EndsAt, StartsAt
        <4> HIDE DEF n
        <4> QED BY <2>1, <4>1, <4>2, <4>3, <4>4 DEF Populates
      <3> QED BY <3>1, <3>2
    <2>5. pt' \in [Pages -> {Null} \cup EntryType]
      BY <1>1, <1>2, <2>1
    <2>6. Idle /\ UNCHANGED <<call, hung>>
      BY <1>4 DEF MapInGap
    <2> HIDE DEF n
    <2> QED BY <2>3, <2>4, <2>5, <2>6 DEF Maps
  <1> QED BY <1>3, <1>4

(* The list unmapped up to e: an area grows down if its conditions are met, and only then. *)
Unmaps(addr, e) ==
    \E c \in Nat, g \in Prots \cup {{}} :
       /\ Grown(areas', addr, e, c, g)
       /\ \A i \in 1 .. Len(areas) :
             GrowsDown(i, addr, e) => c = areas[i].vm_start /\ g = areas[i].access_flags
       /\ e < c => \E i \in 1 .. Len(areas) : GrowsDown(i, addr, e)

(* The area that grows down is the one that is moved, if it starts behind the range. *)
LEMMA MovedGrows ==
    ASSUME Ordered(areas), NEW addr \in Pages, NEW e \in Nat, addr < e,
           ~ \E i \in DOMAIN areas : areas[i].vm_start < addr /\ e < areas[i].vm_end,
           NEW i \in 1 .. Len(areas)
    PROVE  GrowsDown(i, addr, e) <=> i \in Moved(addr, e) /\ e < areas[i].vm_start
  <1> DEFINE p == Behind(addr)
             q == Behind(e)
             n == Len(areas)
  <1>1. /\ n \in Nat /\ addr \in Nat /\ p \in 0 .. n /\ q \in p .. n /\ DOMAIN areas = 1 .. n
        /\ \A k \in 1 .. n : areas[k].vm_end <= addr <=> k <= p
        /\ \A k \in 1 .. n : areas[k].vm_end <= e <=> k <= q
    BY AroundRange, AreaFacts
  <1>2. Removed(addr, e) = (p + (IF StartsIn(addr) THEN 2 ELSE 1)) .. q
    BY DEF Removed
  <1>3. \A k \in 1 .. n : k \in Removed(addr, e) <=> addr <= areas[k].vm_start /\ areas[k].vm_end <= e
    <2> SUFFICES ASSUME NEW k \in 1 .. n
                 PROVE  k \in Removed(addr, e) <=> addr <= areas[k].vm_start /\ areas[k].vm_end <= e
      OBVIOUS
    <2>1. k \in Removed(addr, e) => addr <= areas[k].vm_start /\ areas[k].vm_end <= e
      BY <1>1, <1>2, AroundRange
    <2>2. ASSUME addr <= areas[k].vm_start, areas[k].vm_end <= e PROVE k \in Removed(addr, e)
      <3>1. k <= q /\ ~ (k <= p)
        BY <1>1, <2>2, AreaFacts
      <3>2. StartsIn(addr) => k # p + 1
        BY <1>1, <2>2, AreaFacts DEF StartsIn
      <3> QED BY <1>1, <1>2, <3>1, <3>2
    <2> QED BY <2>1, <2>2
  <1>4. Removed(addr, e) \subseteq 1 .. n
    BY <1>1, <1>2
  <1>5. (\A j \in DOMAIN areas : areas[j].vm_start < addr \/ e < areas[j].vm_end)
          <=> Removed(addr, e) = {}
    BY <1>1, <1>3, <1>4, AreaFacts
  <1>6. ASSUME e < areas[i].vm_start
        PROVE  GapStart(i - 1) <= e <=> i = q + 1
    <2>1. ~ (i <= q)
      BY <1>1, <1>6, AreaFacts
    <2>2. CASE i = 1
      <3>1. q = 0
        BY <1>1, <2>1, <2>2
      <3>2. GapStart(i - 1) <= e
        BY <1>1, <2>2, AddressFacts DEF GapStart
      <3> QED BY <2>2, <3>1, <3>2
    <2>3. CASE i # 1
      <3>1. i - 1 \in 1 .. n /\ GapStart(i - 1) = areas[i - 1].vm_end
        BY <1>1, <2>3 DEF GapStart
      <3>2. GapStart(i - 1) <= e <=> i - 1 <= q
        BY <1>1, <3>1
      <3> QED BY <1>1, <2>1, <3>2
    <2> QED BY <2>2, <2>3
  <1>7. i \in Following(e) <=> i = q + 1
    BY <1>1 DEF Following
  <1> HIDE DEF p, q, n
  <1>8. e < areas[i].vm_start => ~ (areas[i].vm_start < e)
    BY AreaFacts
  <1> QED BY <1>5, <1>6, <1>7, <1>8 DEF GrowsDown, Moved

(* No area grows down when the range lies inside one. *)
LEMMA NoGrowthInside ==
    ASSUME Ordered(areas), NEW addr \in Pages, NEW e \in Nat, addr < e,
           NEW i \in 1 .. Len(areas), areas[i].vm_start < addr, e < areas[i].vm_end,
           NEW k \in 1 .. Len(areas)
    PROVE  ~GrowsDown(k, addr, e)
  <1> SUFFICES ASSUME GapStart(k - 1) <= e, e < areas[k].vm_start PROVE FALSE
    BY DEF GrowsDown
  <1>1. addr \in Nat /\ Len(areas) \in Nat
    BY AddressFacts, AreaFacts
  <1>2. i < k
    <2>1. ~ (k < i)
      BY <1>1, AreaFacts
    <2>2. k # i
      BY <1>1, AreaFacts
    <2> QED BY <1>1, <2>1, <2>2
  <1>3. k - 1 \in 1 .. Len(areas) /\ GapStart(k - 1) = areas[k - 1].vm_end
    BY <1>1, <1>2 DEF GapStart
  <1>4. areas[i].vm_end <= areas[k - 1].vm_end
    <2>1. CASE i = k - 1
      BY <1>3, <2>1, AreaFacts
    <2>2. CASE i < k - 1
      BY <1>3, <2>2, AreaFacts
    <2> QED BY <1>1, <1>2, <2>1, <2>2
  <1> QED BY <1>1, <1>3, <1>4, AreaFacts

(* munmap keeps the list in order and unmaps the range. *)
LEMMA UnmapDoes ==
    ASSUME ListInv, NEW addr \in Pages, NEW length \in Lengths, vm_area_unmap(addr, length)
    PROVE  /\ Ordered(areas')
           /\ Unmaps(addr, addr + Rounded(length))
           /\ pt' = unmap(addr, addr + Rounded(length))
           /\ UNCHANGED <<call, hung>> /\ Idle
  <1> DEFINE e == addr + Rounded(length)
  <1>1. length \in Nat \ {0} /\ Ordered(areas)
    BY VmAssumption DEF ListInv
  <1>2. /\ e % PAGE = 0 /\ e \in Nat /\ addr < e
        /\ e <= MMAP_AREA_END => e \in Pages \cup {MMAP_AREA_END}
    <2>1. e % PAGE = 0 /\ (e <= MMAP_AREA_END => e \in Pages \cup {MMAP_AREA_END})
      BY <1>1, RangeFacts
    <2>2. addr \in Nat /\ Rounded(length) \in Nat \ {0}
      BY <1>1, RoundedFacts, AddressFacts
    <2>3. e \in Nat /\ addr < e
      BY <2>2
    <2> QED BY <2>1, <2>3
  <1>3. CASE UnmapInside(addr, length)
    <2>1. /\ Idle /\ pt' = unmap(addr, e) /\ UNCHANGED <<call, hung>>
          /\ \E i \in DOMAIN areas :
                /\ areas[i].vm_start < addr /\ e < areas[i].vm_end
                /\ areas' = Splice(i, i, <<[areas[i] EXCEPT !.vm_end = addr],
                                         [areas[i] EXCEPT !.vm_start = e]>>)
      BY <1>3 DEF UnmapInside
    <2> HIDE DEF e
    <2>2. PICK i \in 1 .. Len(areas) :
                /\ areas[i].vm_start < addr /\ e < areas[i].vm_end
                /\ areas' = Splice(i, i, <<[areas[i] EXCEPT !.vm_end = addr],
                                         [areas[i] EXCEPT !.vm_start = e]>>)
      BY <1>1, <2>1, AreaFacts
    <2>3. e \in Pages \cup {MMAP_AREA_END}
      <3>1. /\ areas[i].vm_end \in Nat /\ areas[i].vm_end <= MMAP_AREA_END /\ MMAP_AREA_END \in Nat
        BY <1>1, AreaFacts, AddressFacts
      <3>2. e <= MMAP_AREA_END
        BY <1>2, <2>2, <3>1
      <3> QED BY <1>2, <3>2 DEF e
    <2>4. Remade(areas', addr, e, {})
      BY <1>1, <1>2, <2>2, <2>3, InsideRemade
    <2>5. Ordered(areas') /\ Grown(areas', addr, e, e, {})
      BY <1>2, <2>4, AddressFacts DEF Remade, Grown
    <2>6. \A k \in 1 .. Len(areas) : ~GrowsDown(k, addr, e)
      BY <1>1, <1>2, <2>2, NoGrowthInside
    <2>7. Unmaps(addr, e)
      BY <1>2, <2>5, <2>6 DEF Unmaps
    <2> QED BY <2>1, <2>5, <2>7 DEF e
  <1>4. CASE UnmapRange(addr, length)
    <2>1. /\ Idle /\ pt' = unmap(addr, e) /\ UNCHANGED <<call, hung>>
          /\ ~ \E i \in DOMAIN areas : areas[i].vm_start < addr /\ e < areas[i].vm_end
          /\ areas' = Cut(addr, e)
      BY <1>4 DEF UnmapRange
    <2> HIDE DEF e
    <2>2. PICK c \in Nat, g \in Prots \cup {{}} :
             /\ Grown(Cut(addr, e), addr, e, c, g)
             /\ \/ Moved(addr, e) = {} /\ c = e
                \/ /\ Behind(e) + 1 \in 1 .. Len(areas) /\ Moved(addr, e) = {Behind(e) + 1}
                   /\ c = areas[Behind(e) + 1].vm_start /\ g = areas[Behind(e) + 1].access_flags
      BY <1>1, <1>2, <2>1, CutGrown
    <2>3. \A i \in 1 .. Len(areas) :
             GrowsDown(i, addr, e) <=> i \in Moved(addr, e) /\ e < areas[i].vm_start
      BY <1>1, <1>2, <2>1, MovedGrows
    <2>4. Unmaps(addr, e)
      BY <1>2, <2>1, <2>2, <2>3 DEF Unmaps
    <2>5. Ordered(areas')
      BY <2>1, <2>2 DEF Grown
    <2> QED BY <2>1, <2>4, <2>5 DEF e
  <1> QED BY <1>3, <1>4 DEF vm_area_unmap

(* A level of mprotect that passes the tests works on one area. *)
LEMMA LevelFacts ==
    ASSUME ListInv, call # Null, Valid
    PROVE  /\ LevelOK
           /\ call.length \in Nat \ {0}
           /\ \A x \in call.addr .. call.addr + call.length - 1 :
                 \E i \in 1 .. Len(areas) : Contains(i, x)
  <1> DEFINE a == call.addr
             l == call.length
  <1>1. /\ a \in Pages /\ a \in Nat /\ l \in Nat \ {0} /\ call.prot \in Prots /\ Ordered(areas)
    BY AddressFacts DEF ListInv
  <1>2. /\ stop \in Pages \cup {MMAP_AREA_END} /\ a < stop
    BY <1>1, RangeFacts, RoundedFacts DEF stop, Valid
  <1>3. ASSUME NEW x \in a .. a + l - 1
        PROVE  \E i \in 1 .. Len(areas) : Contains(i, x)
    <2>1. AreaOf(x) # 0
      <3>1. \A y \in a .. (a + l) - 1 : AreaOf(y) # 0
        BY DEF Valid, Covered
      <3>2. (a + l) - 1 = a + l - 1
        BY <1>1
      <3> HIDE DEF a, l
      <3> QED BY <1>3, <3>1, <3>2
    <2>2. x \in Int
      BY <1>1
    <2> QED BY <1>1, <2>1, <2>2, AreaOfFacts DEF AreasFound
  <1>4. a \in a .. a + l - 1
    BY <1>1
  <1>5. PICK i \in 1 .. Len(areas) : Contains(i, a)
    BY <1>3, <1>4
  <1>6. Behind(a) = i - 1
    BY <1>1, <1>5, AreaOfFacts DEF AreasFound
  <1>7. cur = i
    BY <1>6, AreaFacts, <1>1 DEF cur
  <1> QED BY <1>1, <1>2, <1>3, <1>5, <1>7 DEF LevelOK, Contains, cur_vm

(* The kinds of steps. *)
LEMMA StepKinds ==
    ASSUME ListInv, [Next]_vars
    PROVE  \/ /\ \E prot \in Prots : Maps(prot)
              /\ pt' \in [Pages -> {Null} \cup EntryType]
              /\ UNCHANGED <<call, hung>> /\ Idle
           \/ \E addr \in {0} \cup Pages, length \in Lengths, flags \in FlagSets :
                 MapHangs(addr, length, flags)
           \/ \E addr \in Pages, length \in Lengths : vm_area_unmap(addr, length)
           \/ \E addr \in Pages, length \in Lengths, prot \in Prots : MprotectCall(addr, length, prot)
           \/ \E p \in Pages : Store(p)
           \/ \E p \in Pages, write \in BOOLEAN : vm_area_pagefault(p, write)
           \/ MprotectLast \/ MprotectRecurse \/ MprotectFails
           \/ UNCHANGED vars
  <1> DEFINE Mapping == /\ \E prot \in Prots : Maps(prot)
                        /\ pt' \in [Pages -> {Null} \cup EntryType]
                        /\ UNCHANGED <<call, hung>> /\ Idle
  <1>1. ASSUME NEW addr \in {0} \cup Pages, NEW length \in Lengths, NEW prot \in Prots,
               NEW flags \in FlagSets, vm_area_map(addr, length, prot, flags)
        PROVE  Mapping \/ MapHangs(addr, length, flags)
    <2>1. CASE MapAtHint(addr, length, prot, flags) \/ MapInGap(addr, length, prot, flags)
      BY <2>1, MapMaps
    <2> QED BY <1>1, <2>1 DEF vm_area_map
  <1> HIDE DEF Mapping
  <1>2. CASE \E length \in Lengths, prot \in Prots, addr \in {0} \cup Pages, flags \in FlagSets :
                vm_area_map(addr, length, prot, flags)
    <2>1. PICK length \in Lengths, prot \in Prots, addr \in {0} \cup Pages, flags \in FlagSets :
             vm_area_map(addr, length, prot, flags)
      BY <1>2
    <2>2. Mapping \/ MapHangs(addr, length, flags)
      BY <1>1, <2>1
    <2> QED BY <2>2 DEF Mapping
  <1>3. CASE Spin
    BY <1>3 DEF Spin
  <1>4. \/ \E length \in Lengths, prot \in Prots, addr \in {0} \cup Pages, flags \in FlagSets :
              vm_area_map(addr, length, prot, flags)
        \/ \E addr \in Pages, length \in Lengths, prot \in Prots : MprotectCall(addr, length, prot)
        \/ \E addr \in Pages, length \in Lengths : vm_area_unmap(addr, length)
        \/ \E p \in Pages : Store(p)
        \/ \E p \in Pages, write \in BOOLEAN : vm_area_pagefault(p, write)
        \/ MprotectLast \/ MprotectRecurse \/ MprotectFails
        \/ Spin \/ UNCHANGED vars
    BY DEF Next, vm_area_mprotect
  <1> QED BY <1>2, <1>3, <1>4

(* What a level does to the list. *)
LEMMA LevelRemade ==
    ASSUME ListInv, call # Null, Valid, areas' \in Reshaped
    PROVE  Remade(areas', call.addr, LevelEnd, {call.prot})
  <1>1. LevelOK /\ Ordered(areas)
    BY LevelFacts DEF ListInv
  <1> QED BY <1>1, ReshapedRemade

(* A level that calls itself goes on where its area ends, with what is left of the range. *)
LEMMA RecurseFacts ==
    ASSUME ListInv, MprotectRecurse
    PROVE  /\ call # Null /\ Valid /\ LevelOK /\ areas' \in Reshaped
           /\ cur_vm.vm_end \in Pages /\ cur_vm.vm_end < stop /\ LevelEnd = cur_vm.vm_end
           /\ call' \in [addr : Pages, length : Nat \ {0}, prot : Prots]
           /\ call'.addr = cur_vm.vm_end /\ call'.prot = call.prot
           /\ call'.addr + call'.length = stop
           /\ UNCHANGED <<pt, hung>>
  <1>1. /\ call # Null /\ Valid /\ stop > cur_vm.vm_end /\ areas' \in Reshaped
        /\ call' = [call EXCEPT !.addr = cur_vm.vm_end, !.length = stop - cur_vm.vm_end]
        /\ UNCHANGED <<pt, hung>>
    BY DEF MprotectRecurse
  <1>2. LevelOK
    BY <1>1, LevelFacts
  <1> DEFINE e == cur_vm.vm_end
             s == stop
  <1>3. /\ e \in Pages \cup {MMAP_AREA_END} /\ e \in Nat
        /\ s \in Nat /\ s <= MMAP_AREA_END
    BY <1>2, AreaFacts, AddressFacts DEF LevelOK, cur_vm, ListInv
  <1>4. call \in [addr : Pages, length : Nat \ {0}, prot : Prots]
    BY <1>1 DEF ListInv
  <1> HIDE DEF e, s
  <1>5. e \in Pages /\ s - e \in Nat \ {0} /\ e < s
    BY <1>1, <1>3, AddressFacts DEF e, s
  <1>6. call' = [call EXCEPT !.addr = e, !.length = s - e]
    BY <1>1 DEF e, s
  <1>7. /\ call' \in [addr : Pages, length : Nat \ {0}, prot : Prots]
        /\ call'.addr = e /\ call'.prot = call.prot /\ call'.length = s - e
    BY <1>4, <1>5, <1>6
  <1>8. call'.addr + call'.length = s
    BY <1>3, <1>7
  <1>9. LevelEnd = e
    BY <1>3, <1>5 DEF LevelEnd, e, s
  <1> QED BY <1>1, <1>2, <1>5, <1>7, <1>8, <1>9 DEF e, s

(* Every step of any caller keeps the list in order. *)
LEMMA ListStep ==
    ASSUME ListInv, [Next]_vars
    PROVE  ListInv'
  <1> DEFINE Typed == [Pages -> {Null} \cup EntryType]
  <1>1. /\ Ordered(areas) /\ pt \in Typed
        /\ call = Null \/ call \in [addr : Pages, length : Nat \ {0}, prot : Prots]
        /\ hung \in Nat /\ (hung # 0 => call = Null)
    BY DEF ListInv
  <1>2. CASE (\E prot \in Prots : Maps(prot)) /\ pt' \in Typed /\ UNCHANGED <<call, hung>> /\ Idle
    <2>1. Ordered(areas')
      BY <1>2 DEF Maps, Remade
    <2> QED BY <1>1, <1>2, <2>1 DEF ListInv
  <1>3. ASSUME NEW addr \in {0} \cup Pages, NEW length \in Lengths, NEW flags \in FlagSets,
               MapHangs(addr, length, flags)
        PROVE  ListInv'
    <2>1. Rounded(length) \in Nat \ {0}
      BY VmAssumption, RoundedFacts
    <2>2. hung' \in Nat /\ call' = Null /\ UNCHANGED <<areas, pt>>
      BY <1>3, <2>1 DEF MapHangs, Idle
    <2> QED BY <1>1, <2>2 DEF ListInv
  <1>4. ASSUME NEW addr \in Pages, NEW length \in Lengths, vm_area_unmap(addr, length)
        PROVE  ListInv'
    <2>1. /\ Ordered(areas') /\ pt' = unmap(addr, addr + Rounded(length))
          /\ UNCHANGED <<call, hung>>
      BY <1>4, UnmapDoes
    <2>2. pt' \in Typed
      BY <1>1, <2>1 DEF unmap
    <2> QED BY <1>1, <2>1, <2>2 DEF ListInv
  <1>5. ASSUME NEW addr \in Pages, NEW length \in Lengths, NEW prot \in Prots,
               MprotectCall(addr, length, prot)
        PROVE  ListInv'
    <2>1. /\ call' = [addr |-> addr, length |-> length, prot |-> prot]
          /\ UNCHANGED <<areas, pt, hung>> /\ hung = 0
      BY <1>5 DEF MprotectCall, Idle
    <2>2. length \in Nat \ {0}
      BY VmAssumption
    <2>3. call' \in [addr : Pages, length : Nat \ {0}, prot : Prots]
      BY <2>1, <2>2
    <2> QED BY <1>1, <2>1, <2>3 DEF ListInv
  <1>6. ASSUME NEW p \in Pages, Store(p) PROVE ListInv'
    <2>1. /\ pt[p] # Null /\ pt' = [pt EXCEPT ![p].data = "written"]
          /\ UNCHANGED <<areas, call, hung>>
      BY <1>6 DEF Store
    <2>2. pt' \in Typed
      BY <1>1, <2>1 DEF EntryType
    <2> QED BY <1>1, <2>1, <2>2 DEF ListInv
  <1>7. ASSUME NEW p \in Pages, NEW write \in BOOLEAN, vm_area_pagefault(p, write) PROVE ListInv'
    <2>1. /\ AreaOf(p) # 0 /\ pt' = [pt EXCEPT ![p] = Entry(areas[AreaOf(p)].access_flags)]
          /\ UNCHANGED <<areas, call, hung>>
      BY <1>7 DEF vm_area_pagefault
    <2>2. areas[AreaOf(p)].access_flags \in Prots
      BY <1>1, <2>1, AddressFacts, AreaOfFacts, AreaFacts DEF AreasFound
    <2>3. Entry(areas[AreaOf(p)].access_flags) \in EntryType
      BY <2>2, EntryFacts
    <2>4. pt' \in Typed
      BY <1>1, <2>1, <2>3
    <2> QED BY <1>1, <2>1, <2>4 DEF ListInv
  <1>8. CASE MprotectLast
    <2>1. /\ call # Null /\ Valid /\ areas' \in Reshaped
          /\ pt' = update_map(call.addr, stop, call.prot) /\ call' = Null /\ UNCHANGED hung
      BY <1>8 DEF MprotectLast
    <2>2. Ordered(areas')
      BY <2>1, LevelRemade DEF Remade
    <2>3. Entry(call.prot) \in EntryType
      BY <1>1, <2>1, EntryFacts
    <2>4. pt' \in Typed
      BY <1>1, <2>1, <2>3 DEF update_map
    <2> QED BY <1>1, <2>1, <2>2, <2>4 DEF ListInv
  <1>9. CASE MprotectRecurse
    <2>1. /\ call # Null /\ Valid /\ areas' \in Reshaped /\ UNCHANGED <<pt, hung>>
          /\ call' \in [addr : Pages, length : Nat \ {0}, prot : Prots]
      BY <1>9, RecurseFacts
    <2>2. Ordered(areas')
      BY <2>1, LevelRemade DEF Remade
    <2> QED BY <1>1, <2>1, <2>2 DEF ListInv
  <1>10. CASE MprotectFails
    BY <1>1, <1>10 DEF MprotectFails, ListInv
  <1>11. CASE UNCHANGED vars
    BY <1>1, <1>11 DEF vars, ListInv
  <1> HIDE DEF Typed
  <1>12. \/ (\E prot \in Prots : Maps(prot)) /\ pt' \in Typed /\ UNCHANGED <<call, hung>> /\ Idle
         \/ \E addr \in {0} \cup Pages, length \in Lengths, flags \in FlagSets :
               MapHangs(addr, length, flags)
         \/ \E addr \in Pages, length \in Lengths : vm_area_unmap(addr, length)
         \/ \E addr \in Pages, length \in Lengths, prot \in Prots : MprotectCall(addr, length, prot)
         \/ \E p \in Pages : Store(p)
         \/ \E p \in Pages, write \in BOOLEAN : vm_area_pagefault(p, write)
         \/ MprotectLast \/ MprotectRecurse \/ MprotectFails
         \/ UNCHANGED vars
    BY StepKinds DEF Typed
  <1> QED BY <1>2, <1>3, <1>4, <1>5, <1>6, <1>7, <1>8, <1>9, <1>10, <1>11, <1>12

(* The list starts empty. *)
LEMMA ListInit ==
    ASSUME Init
    PROVE  ListInv
  BY NoArea DEF Init, ListInv

(* ListInv is an invariant. *)
LEMMA ListInvariant == Spec => []ListInv
  <1>1. Init => ListInv
    BY ListInit
  <1>2. ListInv /\ [Next]_vars => ListInv'
    BY ListStep
  <1> QED BY <1>1, <1>2, PTL DEF Spec

(* Every list that is in order satisfies the two properties. *)
LEMMA ListSorted ==
    ASSUME ListInv
    PROVE  TypeOK /\ SortedDisjoint
  <1>1. Ordered(areas)
    BY DEF ListInv
  <1>2. TypeOK
    BY DEF ListInv, TypeOK, Ordered, EntryType
  <1>3. ASSUME NEW i \in DOMAIN areas
        PROVE  /\ GapStart(i - 1) <= areas[i].vm_start /\ areas[i].vm_start < areas[i].vm_end
               /\ areas[i].vm_end <= GapEnd(i)
    <2>1. i \in 1 .. Len(areas) /\ Len(areas) \in Nat
      BY <1>1, AreaFacts
    <2>2. i - 1 \in 0 .. Len(areas) /\ i \in 0 .. Len(areas)
      BY <2>1
    <2>3. GapEnd(i - 1) = areas[i].vm_start
      BY <2>1 DEF GapEnd
    <2>4. GapStart(i) = areas[i].vm_end
      BY <2>1 DEF GapStart
    <2> QED BY <1>1, <2>1, <2>2, <2>3, <2>4, GapFacts, AreaFacts
  <1> QED BY <1>2, <1>3 DEF SortedDisjoint

(***************************************************************************)
(* The variables keep their types (mmap.c).                                 *)
(***************************************************************************)
THEOREM TypeCorrect == Spec => []TypeOK
  <1>1. ListInv => TypeOK
    BY ListSorted
  <1> QED BY <1>1, ListInvariant, PTL

(***************************************************************************)
(* However calls split, trim, merge and free areas, the list stays sorted   *)
(* and its areas disjoint: for every size of the mmap area and of a page,   *)
(* every limit on the number of areas (mmap.c:186, 532, 630).               *)
(***************************************************************************)
THEOREM Sorted == Spec => []SortedDisjoint
  <1>1. ListInv => SortedDisjoint
    BY ListSorted
  <1> QED BY <1>1, ListInvariant, PTL

-------------------------------------------------------------------------------
(* Part 8: what the calls do to the rights of the pages.                    *)

(* The rights depend on the list only. *)
LEMMA SameRights ==
    ASSUME UNCHANGED areas
    PROVE  rights' = rights
  BY DEF rights, AreaOf, Contains

(* mmap gives its rights to the pages of a range none of which had any. *)
LEMMA MapRights ==
    ASSUME Ordered(areas), NEW prot \in Prots, NEW a \in Pages, NEW b \in Pages \cup {MMAP_AREA_END},
           Free(a, b), Remade(areas', a, b, {prot})
    PROVE  /\ rights' = [p \in Pages |-> IF a <= p /\ p < b THEN prot ELSE rights[p]]
           /\ \A p \in Pages : a <= p /\ p < b => rights[p] = {}
  <1>1. RightsShown /\ a \in Int /\ b \in Int /\ \A p \in Pages : p \in Int
    BY RightsFacts, AddressFacts DEF RightsRule
  <1>2. Remade(areas', a, b, Given(prot))
    <2>1. Given(prot) = {prot}
      BY VmAssumption DEF Given
    <2> QED BY <2>1
  <1>3. rights' = [p \in Pages |-> IF a <= p /\ p < b THEN prot ELSE rights[p]]
    BY <1>1, <1>2, RightsRemade
  <1>4. \A p \in Pages : a <= p /\ p < b => rights[p] = {}
    BY <1>1 DEF Free, RightsShown
  <1> QED BY <1>3, <1>4

(* The pages an area grows down over are free. *)
LEMMA GrowsFree ==
    ASSUME Ordered(areas), NEW addr, NEW e \in Nat, NEW i \in 1 .. Len(areas), GrowsDown(i, addr, e),
           NEW x \in Int, e <= x, x < areas[i].vm_start, NEW f
    PROVE  ~Has(areas, x, f)
  <1> SUFFICES ASSUME NEW k \in 1 .. Len(areas), areas[k].vm_start <= x, x < areas[k].vm_end PROVE FALSE
    BY DEF Has
  <1>1. Len(areas) \in Nat /\ GapStart(i - 1) <= e
    BY AreaFacts DEF GrowsDown
  <1>2. k < i
    <2>1. k # i
      BY AreaFacts
    <2>2. ~ (i < k)
      BY AreaFacts
    <2> QED BY <1>1, <2>1, <2>2
  <1>3. i - 1 \in 1 .. Len(areas) /\ areas[i - 1].vm_end <= e
    BY <1>1, <1>2 DEF GapStart
  <1>4. areas[k].vm_end <= areas[i - 1].vm_end
    <2>1. CASE k = i - 1
      BY <1>3, <2>1, AreaFacts
    <2>2. CASE k < i - 1
      BY <1>3, <2>2, AreaFacts
    <2> QED BY <1>1, <1>2, <2>1, <2>2
  <1> QED BY <1>3, <1>4, AreaFacts

(* munmap takes the rights from its range; the pages from its end up to c get the rights g. *)
UnmapsRights(addr, length, c, g) ==
    LET e == addr + Rounded(length)
    IN  /\ \A p \in Pages :
              rights'[p] = IF addr <= p /\ p < addr + length THEN {}
                           ELSE IF e <= p /\ p < c THEN g ELSE rights[p]
        /\ \A i \in 1 .. Len(areas) :
              GrowsDown(i, addr, e) => c = areas[i].vm_start /\ g = areas[i].access_flags
        /\ e < c => \E i \in 1 .. Len(areas) : GrowsDown(i, addr, e)

LEMMA UnmapRights ==
    ASSUME ListInv, NEW addr \in Pages, NEW length \in Lengths, vm_area_unmap(addr, length)
    PROVE  \E c \in Nat, g \in Prots \cup {{}} : UnmapsRights(addr, length, c, g)
  <1> DEFINE e == addr + Rounded(length)
  <1>1. addr \in Nat /\ e \in Nat /\ length \in Nat \ {0} /\ addr < e /\ Ordered(areas)
    <2>1. length \in Nat \ {0} /\ addr \in Nat /\ Rounded(length) \in Nat \ {0} /\ Ordered(areas)
      BY VmAssumption, AddressFacts, RoundedFacts DEF ListInv
    <2> QED BY <2>1
  <1>2. \A p \in Pages : p \in Int /\ (p < e <=> p < addr + length)
    BY <1>1, RangeFacts, AddressFacts
  <1>3. Unmaps(addr, e)
    BY UnmapDoes
  <1> HIDE DEF e
  <1>4. PICK c \in Nat, g \in Prots \cup {{}} :
           /\ Grown(areas', addr, e, c, g)
           /\ \A i \in 1 .. Len(areas) :
                 GrowsDown(i, addr, e) => c = areas[i].vm_start /\ g = areas[i].access_flags
           /\ e < c => \E i \in 1 .. Len(areas) : GrowsDown(i, addr, e)
    BY <1>3 DEF Unmaps
  <1>5. RightsShown /\ RightsShown'
    BY <1>1, <1>4, RightsFacts, RightsFactsNext DEF RightsRule, Grown
  <1>6. ASSUME NEW p \in Pages
        PROVE  rights'[p] = IF addr <= p /\ p < e THEN {}
                            ELSE IF e <= p /\ p < c THEN g ELSE rights[p]
    <2>1. \A f : Has(areas', p, f) <=> IF addr <= p /\ p < e THEN FALSE
                                       ELSE IF e <= p /\ p < c THEN f = g ELSE Has(areas, p, f)
      BY <1>2, <1>4 DEF Grown
    <2>2. /\ \A f : Has(areas', p, f) => f \in Prots /\ rights'[p] = f
          /\ rights'[p] # {} => Has(areas', p, rights'[p])
      BY <1>5 DEF RightsShown
    <2>3. CASE addr <= p /\ p < e
      BY <2>1, <2>2, <2>3
    <2>4. CASE e <= p /\ p < c
      <3>1. ~ (addr <= p /\ p < e)
        BY <1>1, <1>2, <2>4
      <3> QED BY <2>1, <2>2, <2>4, <3>1
    <2>5. CASE ~ (addr <= p /\ p < e) /\ ~ (e <= p /\ p < c)
      <3>1. /\ \A f : Has(areas, p, f) => f \in Prots /\ rights[p] = f
            /\ rights[p] # {} => Has(areas, p, rights[p])
        BY <1>5 DEF RightsShown
      <3>2. \A f : Has(areas', p, f) <=> Has(areas, p, f)
        BY <2>1, <2>5
      <3>3. CASE rights[p] = {}
        <4>1. ~Has(areas, p, rights'[p])
          BY <3>1, <3>3, VmAssumption
        <4> QED BY <2>2, <2>5, <3>2, <3>3, <4>1
      <3>4. CASE rights[p] # {}
        BY <2>2, <2>5, <3>1, <3>2, <3>4
      <3> QED BY <3>3, <3>4
    <2> QED BY <2>3, <2>4, <2>5
  <1>7. UnmapsRights(addr, length, c, g)
    BY <1>2, <1>4, <1>6 DEF UnmapsRights, e
  <1> QED BY <1>7

(* What a page gets when it is one an area grows down over, and when it is not. *)
LEMMA UnmapPage ==
    ASSUME ListInv, NEW addr \in Pages, NEW length \in Lengths, vm_area_unmap(addr, length), NEW p \in Pages
    PROVE  LET e == addr + Rounded(length)
               InRange == addr <= p /\ p < addr + length
           IN  /\ InRange => rights'[p] = {}
               /\ \A i \in DOMAIN areas :
                     TakenBy(i, p, addr, e) => rights'[p] = areas[i].access_flags /\ rights[p] = {}
               /\ \/ InRange \/ rights'[p] = rights[p]
                  \/ \E i \in DOMAIN areas : TakenBy(i, p, addr, e)
  <1> DEFINE e == addr + Rounded(length)
             InRange == addr <= p /\ p < addr + length
  <1>1. /\ e \in Nat /\ p \in Int /\ addr \in Nat /\ Ordered(areas) /\ DOMAIN areas = 1 .. Len(areas)
        /\ p < e <=> p < addr + length
    <2>1. length \in Nat \ {0} /\ addr \in Nat /\ Rounded(length) \in Nat \ {0} /\ Ordered(areas)
      BY VmAssumption, AddressFacts, RoundedFacts DEF ListInv
    <2>2. p < e <=> p < addr + length
      BY <2>1, RangeFacts
    <2> QED BY <2>1, <2>2, AddressFacts, AreaFacts
  <1>2. PICK c \in Nat, g \in Prots \cup {{}} : UnmapsRights(addr, length, c, g)
    BY UnmapRights
  <1>3. /\ rights'[p] = IF InRange THEN {} ELSE IF e <= p /\ p < c THEN g ELSE rights[p]
        /\ \A i \in 1 .. Len(areas) :
              GrowsDown(i, addr, e) => c = areas[i].vm_start /\ g = areas[i].access_flags
        /\ e < c => \E i \in 1 .. Len(areas) : GrowsDown(i, addr, e)
    BY <1>2 DEF UnmapsRights
  <1>4. e <= p => ~InRange
    BY <1>1
  <1> HIDE DEF e, InRange
  <1>5. ASSUME NEW i \in DOMAIN areas, TakenBy(i, p, addr, e)
        PROVE  rights'[p] = areas[i].access_flags /\ rights[p] = {}
    <2>1. i \in 1 .. Len(areas) /\ GrowsDown(i, addr, e) /\ e <= p /\ p < areas[i].vm_start
      BY <1>1, <1>5 DEF TakenBy
    <2>2. rights'[p] = areas[i].access_flags
      BY <1>3, <1>4, <2>1
    <2>3. ~Has(areas, p, rights[p])
      BY <1>1, <2>1, GrowsFree
    <2> QED BY <1>1, <2>2, <2>3, RightsFacts DEF RightsRule, RightsShown
  <1>6. ASSUME e <= p, p < c
        PROVE  \E i \in DOMAIN areas : TakenBy(i, p, addr, e)
    <2>1. e < c
      BY <1>1, <1>6
    <2>2. PICK i \in 1 .. Len(areas) : GrowsDown(i, addr, e)
      BY <1>3, <2>1
    <2>3. TakenBy(i, p, addr, e)
      BY <1>3, <1>6, <2>2 DEF TakenBy
    <2> QED BY <1>1, <2>2, <2>3
  <1>7. InRange => rights'[p] = {}
    BY <1>3
  <1>8. \/ InRange \/ rights'[p] = rights[p]
        \/ \E i \in DOMAIN areas : TakenBy(i, p, addr, e)
    BY <1>3, <1>6
  <1> QED BY <1>5, <1>7, <1>8 DEF e, InRange

(* What a level of mprotect does to the rights: its range was mapped, and gets its rights. *)
LEMMA LevelRights ==
    ASSUME ListInv, call # Null, Valid, areas' \in Reshaped
    PROVE  /\ rights' = [p \in Pages |-> IF call.addr <= p /\ p < LevelEnd THEN call.prot ELSE rights[p]]
           /\ LevelEnd \in Pages \cup {MMAP_AREA_END} /\ call.addr \in Pages /\ call.prot \in Prots
           /\ call.addr < LevelEnd /\ LevelEnd <= stop
           /\ \A p \in Pages : call.addr <= p /\ p < LevelEnd => rights[p] # {}
           /\ \A p \in Pages : p < stop => p < call.addr + call.length
  <1>1. LevelOK /\ Ordered(areas) /\ call.length \in Nat \ {0}
    BY LevelFacts DEF ListInv
  <1> DEFINE b == LevelEnd
  <1>2. /\ b \in Pages \cup {MMAP_AREA_END} /\ b \in Int /\ call.addr < b /\ b <= stop
        /\ call.addr \in Pages /\ call.addr \in Int /\ call.prot \in Prots /\ b <= cur_vm.vm_end
        /\ cur_vm.vm_start <= call.addr
    BY <1>1, AreaFacts, AddressFacts DEF LevelEnd, LevelOK, cur_vm
  <1>3. Remade(areas', call.addr, b, {call.prot})
    BY LevelRemade
  <1> HIDE DEF b
  <1>4. Remade(areas', call.addr, b, Given(call.prot))
    <2>1. Given(call.prot) = {call.prot}
      BY <1>2, VmAssumption DEF Given
    <2> QED BY <1>3, <2>1 DEF b
  <1>5. rights' = [p \in Pages |-> IF call.addr <= p /\ p < b THEN call.prot ELSE rights[p]]
    BY <1>1, <1>2, <1>4, RightsRemade
  <1>6. ASSUME NEW p \in Pages, call.addr <= p, p < b PROVE rights[p] # {}
    <2>1. cur \in 1 .. Len(areas) /\ Contains(cur, p)
      <3>1. cur \in 1 .. Len(areas) /\ cur_vm.vm_start \in Int /\ cur_vm.vm_end \in Int /\ p \in Int
        BY <1>1, AreaFacts, AddressFacts DEF LevelOK, cur_vm
      <3> QED BY <1>2, <1>6, <3>1 DEF Contains, cur_vm
    <2>2. Has(areas, p, areas[cur].access_flags) /\ areas[cur].access_flags \in Prots
      BY <1>1, <2>1, AreaFacts DEF Has, Contains
    <2> QED BY <1>1, <2>2, RightsFacts, VmAssumption DEF RightsRule, RightsShown
  <1>7. \A p \in Pages : p < stop => p < call.addr + call.length
    BY <1>1, <1>2, RangeFacts DEF stop
  <1> QED BY <1>2, <1>5, <1>6, <1>7 DEF b

(* The two parts of OnlyTheRange, of one step. *)
LEMMA OnlyTheRangeStep ==
    ASSUME ListInv, [Next]_vars
    PROVE  /\ \A addr \in Pages, length \in Lengths : vm_area_unmap(addr, length) =>
                 LET e == addr + Rounded(length)
                     InRange(p) == addr <= p /\ p < addr + length
                 IN  \A p \in Pages :
                        /\ InRange(p) => rights'[p] = {}
                        /\ \A i \in DOMAIN areas :
                              TakenBy(i, p, addr, e) => rights'[p] = areas[i].access_flags
                        /\ rights'[p] # rights[p] =>
                              InRange(p) \/ \E i \in DOMAIN areas : TakenBy(i, p, addr, e)
           /\ call # Null => \A p \in Pages :
                 rights'[p] # rights[p] => /\ call.addr <= p /\ p < call.addr + call.length
                                           /\ rights'[p] = call.prot
  <1>1. ASSUME call # Null, NEW p \in Pages, rights'[p] # rights[p]
        PROVE  /\ call.addr <= p /\ p < call.addr + call.length
               /\ rights'[p] = call.prot
    <2>1. CASE Valid /\ areas' \in Reshaped
      <3>1. /\ rights' = [q \in Pages |-> IF call.addr <= q /\ q < LevelEnd THEN call.prot ELSE rights[q]]
            /\ LevelEnd \in Pages \cup {MMAP_AREA_END} /\ LevelEnd <= stop /\ stop \in Int
            /\ \A q \in Pages : q < stop => q < call.addr + call.length
        BY <1>1, <2>1, LevelRights, LevelFacts, AddressFacts DEF LevelOK
      <3>2. rights'[p] = IF call.addr <= p /\ p < LevelEnd THEN call.prot ELSE rights[p]
        BY <3>1
      <3>3. call.addr <= p /\ p < LevelEnd /\ rights'[p] = call.prot
        BY <1>1, <3>2
      <3>4. p < stop
        BY <3>1, <3>3, AddressFacts
      <3> QED BY <3>1, <3>3, <3>4
    <2>2. CASE UNCHANGED areas
      BY <1>1, <2>2, SameRights
    <2>3. ~Idle
      BY <1>1 DEF Idle
    <2>4. MprotectLast \/ MprotectRecurse => Valid /\ areas' \in Reshaped
      BY DEF MprotectLast, MprotectRecurse
    <2>5. MprotectFails \/ UNCHANGED vars => UNCHANGED areas
      BY DEF MprotectFails, vars
    <2>6. \A addr \in Pages, length \in Lengths : ~vm_area_unmap(addr, length)
      BY <2>3, UnmapDoes
    <2>7. /\ \A addr, length, flags : ~MapHangs(addr, length, flags)
          /\ \A addr, length, prot : ~MprotectCall(addr, length, prot)
          /\ \A q : ~Store(q)
          /\ \A q, write : ~vm_area_pagefault(q, write)
      BY <2>3 DEF MapHangs, MprotectCall, Store, vm_area_pagefault
    <2> QED BY <2>1, <2>2, <2>3, <2>4, <2>5, <2>6, <2>7, StepKinds
  <1>2. ASSUME NEW addr \in Pages, NEW length \in Lengths, vm_area_unmap(addr, length), NEW p \in Pages
        PROVE  LET e == addr + Rounded(length)
                   InRange == addr <= p /\ p < addr + length
               IN  /\ InRange => rights'[p] = {}
                   /\ \A i \in DOMAIN areas :
                         TakenBy(i, p, addr, e) => rights'[p] = areas[i].access_flags
                   /\ rights'[p] # rights[p] =>
                         InRange \/ \E i \in DOMAIN areas : TakenBy(i, p, addr, e)
    BY <1>2, UnmapPage
  <1> QED BY <1>1, <1>2

(***************************************************************************)
(* munmap takes its range from the process; when it removes no area, it     *)
(* also gives the free pages behind the range to the area that follows, and *)
(* it changes no other page.  A level of mprotect gives its rights to pages *)
(* of its range only.  For every size of the mmap area and of a page, every *)
(* length of the calls and every list the calls can lead to                 *)
(* (mmap.c:199-358, 630-684).                                               *)
(***************************************************************************)
THEOREM RangeOnly == Spec => OnlyTheRange
  <1>1. ListInv /\ [Next]_vars =>
          [/\ \A addr \in Pages, length \in Lengths : vm_area_unmap(addr, length) =>
                 LET e == addr + Rounded(length)
                     InRange(p) == addr <= p /\ p < addr + length
                 IN  \A p \in Pages :
                        /\ InRange(p) => rights'[p] = {}
                        /\ \A i \in DOMAIN areas :
                              TakenBy(i, p, addr, e) => rights'[p] = areas[i].access_flags
                        /\ rights'[p] # rights[p] =>
                              InRange(p) \/ \E i \in DOMAIN areas : TakenBy(i, p, addr, e)
           /\ call # Null => \A p \in Pages :
                 rights'[p] # rights[p] => /\ call.addr <= p /\ p < call.addr + call.length
                                           /\ rights'[p] = call.prot]_vars
    BY OnlyTheRangeStep
  <1> QED BY <1>1, ListInvariant, PTL DEF Spec, OnlyTheRange

-------------------------------------------------------------------------------
(* Part 9: the page table.                                                  *)

(* A page goes on agreeing with its area if neither changes, if it goes away,
   and if it gets a new entry for the rights it gets. *)
LEMMA AgreesSame ==
    ASSUME NEW p \in Pages, Agrees(p), rights'[p] = rights[p],
           pt'[p] = pt[p] \/ (pt[p] # Null /\ pt'[p].w = pt[p].w)
    PROVE  Agrees(p)'
  BY DEF Agrees

LEMMA AgreesGone ==
    ASSUME NEW p \in Pages, pt'[p] = Null
    PROVE  Agrees(p)'
  BY DEF Agrees

LEMMA AgreesEntry ==
    ASSUME NEW p \in Pages, NEW prot \in Prots, rights'[p] = prot, pt'[p] = Entry(prot)
    PROVE  Agrees(p)'
  BY EntryFacts, VmAssumption DEF Agrees

(* What mmap does to a page: the second case is the only one in which the page
   no longer agrees with its area. *)
LEMMA MapAgrees ==
    ASSUME ListInv, NEW prot \in Prots, Maps(prot), NEW p \in Pages, Agrees(p)
    PROVE  \/ Agrees(p)'
           \/ \E i \in DOMAIN areas : Joins(i) /\ areas[i + 1].vm_end <= p
  <1>1. Ordered(areas) /\ pt \in [Pages -> {Null} \cup EntryType] /\ p \in Int
    BY AddressFacts DEF ListInv
  <1>2. PICK a \in Pages, b \in Pages \cup {MMAP_AREA_END} :
           /\ a < b /\ Free(a, b) /\ Remade(areas', a, b, {prot})
           /\ Populates(a, b, prot)
    BY DEF Maps
  <1>3. /\ rights'[p] = IF a <= p /\ p < b THEN prot ELSE rights[p]
        /\ a <= p /\ p < b => rights[p] = {}
    <2>1. /\ rights' = [q \in Pages |-> IF a <= q /\ q < b THEN prot ELSE rights[q]]
          /\ \A q \in Pages : a <= q /\ q < b => rights[q] = {}
      BY <1>1, <1>2, MapRights
    <2> QED BY <2>1
  <1>4. a <= p /\ p < b => pt[p] = Null
    BY <1>3 DEF Agrees
  <1>5. CASE pt' = pt
    BY <1>3, <1>4, <1>5, AgreesSame, AgreesGone
  <1>6. CASE pt' = map(a, b, prot)
    <2>1. pt'[p] = IF a <= p /\ p < b THEN Entry(prot) ELSE pt[p]
      BY <1>6 DEF map
    <2> QED BY <1>3, <2>1, AgreesSame, AgreesEntry
  <1>7. ASSUME NEW i \in 1 .. Len(areas) - 1, NEW z \in Int,
               Joins(i), areas[i + 1].vm_start = b, areas[i + 1].access_flags = prot,
               pt' = map(b, z, prot)
        PROVE  Agrees(p)' \/ areas[i + 1].vm_end <= p
    <2>1. pt'[p] = IF b <= p /\ p < z THEN Entry(prot) ELSE pt[p]
      BY <1>7 DEF map
    <2>2. i + 1 \in 1 .. Len(areas) /\ areas[i + 1].vm_end \in Int /\ a \in Int /\ b \in Int
      BY <1>1, AreaFacts, AddressFacts
    <2>3. CASE a <= p /\ p < b
      BY <1>1, <1>4, <2>1, <2>2, <2>3, AgreesGone
    <2>4. CASE ~ (a <= p /\ p < b) /\ ~ (b <= p /\ p < z)
      BY <1>3, <2>1, <2>4, AgreesSame
    <2>5. CASE ~ (a <= p /\ p < b) /\ b <= p /\ p < areas[i + 1].vm_end
      <3>1. Has(areas, p, prot)
        BY <1>7, <2>2, <2>5 DEF Has
      <3>2. rights[p] = prot
        BY <1>1, <3>1, RightsFacts DEF RightsRule, RightsShown
      <3> QED BY <1>3, <2>1, <2>5, <3>2, AgreesSame, AgreesEntry
    <2> QED BY <1>1, <2>2, <2>3, <2>4, <2>5
  <1>8. \A i \in 1 .. Len(areas) - 1 : i \in DOMAIN areas
    BY <1>1, AreaFacts
  <1> QED BY <1>2, <1>5, <1>6, <1>7, <1>8 DEF Populates

(* A page that stops agreeing with its area does so in one of the two ways. *)
LEMMA AgreementStep ==
    ASSUME ListInv, [Next]_vars, NEW p \in Pages, Agrees(p), ~Agrees(p)'
    PROVE  \/ call # Null /\ call' # Null /\ call.addr <= p /\ p < call'.addr
           \/ \E i \in DOMAIN areas : Joins(i) /\ areas[i + 1].vm_end <= p
  <1>1. Ordered(areas) /\ pt \in [Pages -> {Null} \cup EntryType] /\ p \in Int
    BY AddressFacts DEF ListInv
  <1>2. ~UNCHANGED <<areas, pt>>
    BY SameRights, AgreesSame
  <1>3. \A prot \in Prots : Maps(prot) => \E i \in DOMAIN areas : Joins(i) /\ areas[i + 1].vm_end <= p
    BY MapAgrees
  <1>4. \A addr \in Pages, length \in Lengths : ~vm_area_unmap(addr, length)
    <2> SUFFICES ASSUME NEW addr \in Pages, NEW length \in Lengths, vm_area_unmap(addr, length) PROVE FALSE
      OBVIOUS
    <2> DEFINE e == addr + Rounded(length)
    <2>1. pt'[p] = IF addr <= p /\ p < addr + length THEN Null ELSE pt[p]
      <3>1. pt' = unmap(addr, e)
        BY UnmapDoes
      <3>2. p < e <=> p < addr + length
        BY VmAssumption, RangeFacts
      <3> HIDE DEF e
      <3> QED BY <3>1, <3>2 DEF unmap
    <2>2. CASE addr <= p /\ p < addr + length
      BY <2>1, <2>2, AgreesGone
    <2>3. CASE rights'[p] = rights[p]
      BY <2>1, <2>3, AgreesSame, AgreesGone
    <2>4. CASE rights[p] = {}
      <3>1. pt[p] = Null
        BY <2>4 DEF Agrees
      <3> QED BY <2>1, <3>1, AgreesGone
    <2> QED BY <2>2, <2>3, <2>4, UnmapPage
  <1>5. \A q \in Pages : ~Store(q)
    <2> SUFFICES ASSUME NEW q \in Pages, Store(q) PROVE FALSE
      OBVIOUS
    <2>1. pt[q] # Null /\ pt' = [pt EXCEPT ![q].data = "written"] /\ UNCHANGED areas
      BY DEF Store
    <2>2. pt'[p] = pt[p] \/ (pt[p] # Null /\ pt'[p].w = pt[p].w)
      BY <1>1, <2>1 DEF EntryType
    <2> QED BY <2>1, <2>2, SameRights, AgreesSame
  <1>6. \A q \in Pages, write \in BOOLEAN : ~vm_area_pagefault(q, write)
    <2> SUFFICES ASSUME NEW q \in Pages, NEW write \in BOOLEAN, vm_area_pagefault(q, write) PROVE FALSE
      OBVIOUS
    <2> DEFINE f == areas[AreaOf(q)].access_flags
    <2>1. AreaOf(q) # 0 /\ pt' = [pt EXCEPT ![q] = Entry(f)] /\ rights' = rights
      BY SameRights DEF vm_area_pagefault
    <2>2. f \in Prots
      BY <1>1, <2>1, AddressFacts, AreaOfFacts, AreaFacts DEF AreasFound
    <2>3. rights[q] = f
      BY <2>1 DEF rights
    <2> HIDE DEF f
    <2>4. CASE q = p
      BY <1>1, <2>1, <2>2, <2>3, <2>4, AgreesEntry
    <2>5. CASE q # p
      BY <1>1, <2>1, <2>5, AgreesSame
    <2> QED BY <2>4, <2>5
  <1>7. ~MprotectLast
    <2> SUFFICES ASSUME MprotectLast PROVE FALSE
      OBVIOUS
    <2>1. /\ call # Null /\ Valid /\ areas' \in Reshaped /\ stop <= cur_vm.vm_end
          /\ pt' = update_map(call.addr, stop, call.prot)
      BY DEF MprotectLast
    <2>2. LevelEnd = stop /\ call.prot \in Prots
      <3>1. LevelOK
        BY <2>1, LevelFacts
      <3> QED BY <1>1, <2>1, <3>1, AddressFacts, AreaFacts DEF LevelEnd, LevelOK, cur_vm
    <2>3. rights'[p] = IF call.addr <= p /\ p < stop THEN call.prot ELSE rights[p]
      BY <2>1, <2>2, LevelRights
    <2>4. pt'[p] = IF call.addr <= p /\ p < stop /\ pt[p] # Null THEN Entry(call.prot) ELSE pt[p]
      BY <2>1 DEF update_map
    <2> QED BY <2>2, <2>3, <2>4, AgreesSame, AgreesGone, AgreesEntry
  <1>8. MprotectRecurse => call # Null /\ call' # Null /\ call.addr <= p /\ p < call'.addr
    <2> SUFFICES ASSUME MprotectRecurse
                 PROVE  call # Null /\ call' # Null /\ call.addr <= p /\ p < call'.addr
      OBVIOUS
    <2>1. /\ call # Null /\ Valid /\ areas' \in Reshaped /\ UNCHANGED pt
          /\ LevelEnd = call'.addr
          /\ call' \in [addr : Pages, length : Nat \ {0}, prot : Prots]
      BY RecurseFacts
    <2>2. call' # Null
      <3>1. call' \in [addr : Nat, length : Nat, prot : SUBSET {"R", "W"}]
        BY <2>1, AddressFacts, VmAssumption
      <3> QED BY <3>1, VmAssumption
    <2>3. rights'[p] = IF call.addr <= p /\ p < call'.addr THEN call.prot ELSE rights[p]
      BY <2>1, LevelRights
    <2> QED BY <2>1, <2>2, <2>3, AgreesSame
  <1>9. /\ \A addr, length, flags : ~MapHangs(addr, length, flags)
        /\ \A addr, length, prot : ~MprotectCall(addr, length, prot)
        /\ ~MprotectFails /\ ~UNCHANGED vars
    BY <1>2 DEF MapHangs, MprotectCall, MprotectFails, vars
  <1> QED BY <1>3, <1>4, <1>5, <1>6, <1>7, <1>8, <1>9, StepKinds

(***************************************************************************)
(* A page that agrees with its area goes on doing so, but for the pages     *)
(* that an upper level of mprotect works on (mmap.c:360) and those behind   *)
(* two areas that mmap joins (line 460): for every size of the mmap area    *)
(* and of a page, and every list the calls can lead to.                     *)
(***************************************************************************)
THEOREM TableKept == Spec => AgreementKept
  <1>1. ListInv /\ [Next]_vars =>
          [\A p \in Pages : Agrees(p) /\ ~Agrees(p)' =>
             \/ call # Null /\ call' # Null /\ call.addr <= p /\ p < call'.addr
             \/ \E i \in DOMAIN areas : Joins(i) /\ areas[i + 1].vm_end <= p]_vars
    BY AgreementStep
  <1> QED BY <1>1, ListInvariant, PTL DEF Spec, AgreementKept

-------------------------------------------------------------------------------
(* Part 10: what a page holds.                                              *)

(* A step that loses what was written to a page is one of the three kinds. *)
LEMMA WrittenStep ==
    ASSUME ListInv, [Next]_vars, NEW p \in Pages,
           rights[p] # {}, pt[p] # Null, pt[p].data = "written", pt'[p] # pt[p]
    PROVE  \/ rights'[p] = {}
           \/ call # Null /\ call.addr <= p /\ p < stop
           \/ \E i \in DOMAIN areas : Joins(i) /\ areas[i + 1].vm_start <= p
  <1>1. pt \in [Pages -> {Null} \cup EntryType] /\ Ordered(areas) /\ DOMAIN areas = 1 .. Len(areas)
    BY AreaFacts DEF ListInv
  <1>2. ASSUME NEW prot \in Prots, Maps(prot)
        PROVE  \E i \in DOMAIN areas : Joins(i) /\ areas[i + 1].vm_start <= p
    <2>1. PICK a \in Pages, b \in Pages \cup {MMAP_AREA_END} :
             Free(a, b) /\ Remade(areas', a, b, {prot}) /\ Populates(a, b, prot)
      BY <1>2 DEF Maps
    <2>2. ~ (a <= p /\ p < b)
      <3>1. \A q \in Pages : a <= q /\ q < b => rights[q] = {}
        BY <1>1, <2>1, MapRights
      <3> QED BY <3>1
    <2>3. pt' # pt /\ pt' # map(a, b, prot)
      BY <2>2 DEF map
    <2>4. PICK i \in 1 .. Len(areas) - 1, z \in Int :
             Joins(i) /\ areas[i + 1].vm_start = b /\ pt' = map(b, z, prot)
      BY <2>1, <2>3 DEF Populates
    <2>5. b <= p
      BY <2>4 DEF map
    <2>6. i \in DOMAIN areas
      BY <1>1, AreaFacts
    <2> QED BY <2>4, <2>5, <2>6
  <1>3. ASSUME NEW addr \in Pages, NEW length \in Lengths, vm_area_unmap(addr, length)
        PROVE  rights'[p] = {}
    <2> DEFINE e == addr + Rounded(length)
    <2>1. pt' = unmap(addr, e)
      BY <1>1, <1>3, UnmapDoes
    <2>2. p < e <=> p < addr + length
      BY VmAssumption, RangeFacts
    <2> HIDE DEF e
    <2>3. addr <= p /\ p < addr + length
      BY <2>1, <2>2 DEF unmap
    <2> QED BY <1>3, <2>3, UnmapPage
  <1>4. \A q \in Pages : ~Store(q)
    <2> SUFFICES ASSUME NEW q \in Pages, Store(q) PROVE FALSE
      OBVIOUS
    <2>1. pt' = [pt EXCEPT ![q].data = "written"]
      BY DEF Store
    <2>2. q = p
      BY <1>1, <2>1
    <2>3. pt[p] \in EntryType
      BY <1>1
    <2>4. pt'[p] = [pt[p] EXCEPT !.data = "written"]
      BY <1>1, <2>1, <2>2
    <2>5. [pt[p] EXCEPT !.data = "written"] = pt[p]
      BY <2>3 DEF EntryType
    <2> QED BY <2>4, <2>5
  <1>5. \A q \in Pages, write \in BOOLEAN : ~vm_area_pagefault(q, write)
    BY <1>1 DEF vm_area_pagefault
  <1>6. MprotectLast => call # Null /\ call.addr <= p /\ p < stop
    BY DEF MprotectLast, update_map
  <1>7. /\ \A addr, length, flags : ~MapHangs(addr, length, flags)
        /\ \A addr, length, prot : ~MprotectCall(addr, length, prot)
        /\ ~MprotectRecurse /\ ~MprotectFails /\ ~UNCHANGED vars
    BY DEF MapHangs, MprotectCall, MprotectRecurse, MprotectFails, vars
  <1> QED BY <1>2, <1>3, <1>4, <1>5, <1>6, <1>7, StepKinds

(***************************************************************************)
(* What has been written to a mapped page is lost only with its mapping, to *)
(* an mprotect of a range the page is in (mmap.c:52-65), or to an mmap that *)
(* joins two areas in front of it (lines 460, 594): for every size of the   *)
(* mmap area and of a page, and every list the calls can lead to.           *)
(***************************************************************************)
THEOREM Written == Spec => WrittenKept
  <1>1. ListInv /\ [Next]_vars =>
          [\A p \in Pages :
             rights[p] # {} /\ pt[p] # Null /\ pt[p].data = "written" /\ pt'[p] # pt[p] =>
                \/ rights'[p] = {}
                \/ call # Null /\ call.addr <= p /\ p < stop
                \/ \E i \in DOMAIN areas : Joins(i) /\ areas[i + 1].vm_start <= p]_vars
    BY WrittenStep
  <1> QED BY <1>1, ListInvariant, PTL DEF Spec, WrittenKept

-------------------------------------------------------------------------------
(* Part 11: the search of mmap.                                             *)

(* Every n addresses in a row have a page that is mapped. *)
Full(n) ==
    \A a \in MMAP_AREA_START .. MMAP_AREA_END - n :
       \E p \in Pages : a <= p /\ p < a + n /\ rights[p] # {}

(* A range of pages that no gap is long enough for has a page that is mapped. *)
LEMMA NoGapNoRange ==
    ASSUME Ordered(areas), NEW length \in Nat \ {0}, GapsFor(Rounded(length)) = {},
           NEW z \in Pages, z + Rounded(length) <= MMAP_AREA_END
    PROVE  \E p \in Pages : z <= p /\ p < z + Rounded(length) /\ rights[p] # {}
  <1> DEFINE n == Rounded(length)
             i == Behind(z)
             k == i + 1
  <1>1. /\ n \in Nat \ {0} /\ z \in Nat /\ Len(areas) \in Nat /\ MMAP_AREA_START <= z
        /\ MMAP_AREA_END \in Nat
    BY RoundedFacts, AddressFacts, AreaFacts
  <1>2. /\ i \in 0 .. Len(areas)
        /\ \A j \in 1 .. Len(areas) : areas[j].vm_end <= z <=> j <= i
    <2>1. z \in Int
      BY <1>1
    <2> QED BY <2>1, BehindFacts
  <1>3. GapStart(i) <= z
    BY <1>1, <1>2 DEF GapStart
  <1>4. ~ (GapStart(i) + n <= GapEnd(i))
    BY <1>2 DEF GapsFor
  <1>5. GapStart(i) \in Nat /\ GapEnd(i) \in Nat
    BY <1>2, GapFacts
  <1>6. GapEnd(i) < z + n
    <2> HIDE DEF n, i
    <2> QED BY <1>1, <1>3, <1>4, <1>5
  <1>7. k \in 1 .. Len(areas) /\ GapEnd(i) = areas[k].vm_start
    <2>1. i # Len(areas)
      <3> SUFFICES ASSUME i = Len(areas) PROVE FALSE
        OBVIOUS
      <3>1. GapEnd(i) = MMAP_AREA_END
        BY DEF GapEnd
      <3> HIDE DEF i, n
      <3> QED BY <1>1, <1>6, <3>1 DEF n
    <2> QED BY <1>1, <1>2, <2>1 DEF GapEnd
  <1>8. /\ areas[k].vm_start \in Pages /\ areas[k].vm_start \in Nat /\ areas[k].vm_end \in Nat
        /\ areas[k].vm_start < areas[k].vm_end /\ areas[k].access_flags \in Prots
        /\ ~ (areas[k].vm_end <= z)
    BY <1>1, <1>2, <1>7, AreaFacts
  <1>9. ASSUME NEW p \in Pages, Contains(k, p) PROVE rights[p] # {}
    <2>1. Has(areas, p, areas[k].access_flags)
      BY <1>7, <1>9 DEF Has, Contains
    <2> QED BY <1>8, <2>1, RightsFacts, VmAssumption DEF RightsRule, RightsShown
  <1> HIDE DEF n, i, k
  <1>10. CASE z <= areas[k].vm_start
    <2>1. Contains(k, areas[k].vm_start)
      BY <1>8 DEF Contains
    <2>2. areas[k].vm_start < z + n
      BY <1>6, <1>7
    <2> QED BY <1>8, <1>9, <1>10, <2>1, <2>2 DEF n
  <1>11. CASE ~ (z <= areas[k].vm_start)
    <2>1. Contains(k, z)
      BY <1>1, <1>8, <1>11 DEF Contains
    <2>2. z < z + n /\ z <= z
      BY <1>1
    <2> QED BY <1>9, <2>1, <2>2 DEF n
  <1> QED BY <1>10, <1>11

(* So every range of n addresses meets a mapped page, page aligned or not. *)
LEMMA NoGapFull ==
    ASSUME Ordered(areas), NEW length \in Nat \ {0}, GapsFor(Rounded(length)) = {}
    PROVE  Full(Rounded(length))
  <1> DEFINE n == Rounded(length)
  <1> SUFFICES ASSUME NEW a \in MMAP_AREA_START .. MMAP_AREA_END - n
               PROVE  \E p \in Pages : a <= p /\ p < a + n /\ rights[p] # {}
    BY DEF Full
  <1>1. /\ n \in Nat \ {0} /\ n % PAGE = 0 /\ PAGE \in Nat \ {0}
        /\ MMAP_AREA_START \in Nat \ {0} /\ MMAP_AREA_END \in Nat
        /\ MMAP_AREA_END % PAGE = 0
    BY RoundedFacts, AddressFacts
  <1> HIDE DEF n
  <1>2. a \in Nat \ {0} /\ MMAP_AREA_START <= a /\ a + n <= MMAP_AREA_END
    BY <1>1
  (* The first page from a on. *)
  <1> DEFINE z == Rounded(a)
  <1>3. z \in Nat /\ z % PAGE = 0 /\ a <= z /\ z < a + PAGE
    BY <1>2, RoundedFacts
  <1> HIDE DEF z
  <1>4. z + n \in Int /\ (z + n) % PAGE = 0
    <2>1. z \in Int /\ n \in Int /\ z % PAGE = 0 /\ n % PAGE = 0 /\ PAGE \in Nat \ {0}
      BY <1>1, <1>3
    <2>2. (z + n) % PAGE = 0
      BY <2>1, ModSum
    <2> QED BY <2>1, <2>2
  <1>5. z + n <= MMAP_AREA_END
    <2> SUFFICES ASSUME MMAP_AREA_END < z + n PROVE FALSE
      BY <1>1, <1>4
    <2>1. MMAP_AREA_END + PAGE <= z + n
      BY <1>1, <1>4, ModNext
    <2> QED BY <1>1, <1>2, <1>3, <2>1
  <1>6. z \in Pages
    BY <1>1, <1>2, <1>3, <1>5, AddressFacts
  <1>7. PICK p \in Pages : z <= p /\ p < z + n /\ rights[p] # {}
    BY <1>5, <1>6, NoGapNoRange DEF n
  <1>8. p \in Nat /\ p + PAGE <= z + n
    BY <1>4, <1>7, NextPage, AddressFacts
  <1>9. a <= p /\ p < a + n
    BY <1>1, <1>2, <1>3, <1>7, <1>8
  <1> QED BY <1>7, <1>9

HangInv == ListInv /\ HangsOnlyWhenFull

(* A call that hangs finds the area full, and nothing is unmapped while it does. *)
LEMMA HangStep ==
    ASSUME HangInv, [Next]_vars
    PROVE  HangInv'
  <1>1. ListInv /\ HangsOnlyWhenFull /\ Ordered(areas) /\ (hung # 0 => call = Null)
    BY DEF HangInv, ListInv
  <1>2. ListInv'
    BY <1>1, ListStep
  <1>3. CASE UNCHANGED <<areas, hung>>
    BY <1>1, <1>2, <1>3, SameRights DEF HangInv, HangsOnlyWhenFull
  <1>4. CASE hung = 0 /\ UNCHANGED hung
    BY <1>2, <1>4 DEF HangInv, HangsOnlyWhenFull
  <1>5. ASSUME NEW addr \in {0} \cup Pages, NEW length \in Lengths, NEW flags \in FlagSets,
               MapHangs(addr, length, flags)
        PROVE  HangInv'
    <2>1. hung' = Rounded(length) /\ GapsFor(Rounded(length)) = {} /\ UNCHANGED areas
      BY <1>5 DEF MapHangs
    <2>2. Full(Rounded(length))
      BY <1>1, <2>1, NoGapFull, VmAssumption
    <2>3. HangsOnlyWhenFull'
      BY <2>1, <2>2, SameRights DEF HangsOnlyWhenFull, Full
    <2> QED BY <1>2, <2>3 DEF HangInv
  <1>6. Idle => hung = 0
    BY DEF Idle
  <1>7. ASSUME NEW addr \in Pages, NEW length \in Lengths, vm_area_unmap(addr, length)
        PROVE  HangInv'
    BY <1>1, <1>4, <1>6, <1>7, UnmapDoes
  <1>8. ASSUME NEW addr \in Pages, NEW length \in Lengths, NEW prot \in Prots,
               MprotectCall(addr, length, prot)
        PROVE  HangInv'
    BY <1>3, <1>8 DEF MprotectCall
  <1>9. ASSUME NEW p \in Pages, Store(p) \/ \E write \in BOOLEAN : vm_area_pagefault(p, write)
        PROVE  HangInv'
    BY <1>3, <1>9 DEF Store, vm_area_pagefault
  <1>10. CASE MprotectLast \/ MprotectRecurse \/ MprotectFails
    BY <1>1, <1>4, <1>10 DEF MprotectLast, MprotectRecurse, MprotectFails
  <1>11. CASE UNCHANGED vars
    BY <1>3, <1>11 DEF vars
  <1> QED BY <1>1, <1>4, <1>5, <1>6, <1>7, <1>8, <1>9, <1>10, <1>11, StepKinds

(***************************************************************************)
(* The search of mmap never hangs while there is a free range of the length *)
(* asked for, page aligned or not, whatever the gaps between the areas      *)
(* (mmap.c:427-500).                                                        *)
(***************************************************************************)
THEOREM HangsWhenFull == Spec => []HangsOnlyWhenFull
  <1>1. Init => HangInv
    <2> SUFFICES ASSUME Init PROVE HangInv
      OBVIOUS
    <2> QED BY ListInit DEF Init, HangInv, HangsOnlyWhenFull
  <1>2. HangInv /\ [Next]_vars => HangInv'
    BY HangStep
  <1>3. HangInv => HangsOnlyWhenFull
    BY DEF HangInv
  <1> QED BY <1>1, <1>2, <1>3, PTL DEF Spec

-------------------------------------------------------------------------------
(* Part 12: what the pages are promised.                                    *)

(* The pages from a on and before b are those up to a last one. *)
LEMMA LastPage ==
    ASSUME NEW a \in Pages, NEW b \in Nat, b % PAGE = 0, a < b
    PROVE  \E z \in Pages : a <= z /\ \A p \in Pages : p < b <=> p <= z
  <1> DEFINE e == IF b <= MMAP_AREA_END THEN b ELSE MMAP_AREA_END
             z == e - PAGE
  <1>1. /\ PAGE \in Nat \ {0} /\ MMAP_AREA_END \in Nat /\ a \in Nat /\ a % PAGE = 0
        /\ MMAP_AREA_START <= a /\ MMAP_AREA_START \in Nat /\ a < MMAP_AREA_END /\ MMAP_AREA_END % PAGE = 0
    BY AddressFacts
  <1>2. e \in Nat /\ e % PAGE = 0 /\ e <= MMAP_AREA_END /\ e <= b /\ a < e
    BY <1>1
  <1>3. \A p \in Pages : p < b <=> p < e
    BY <1>1, AddressFacts
  <1> HIDE DEF e
  <1>4. a + PAGE <= e
    BY <1>2, NextPage
  <1>5. z \in Int /\ a <= z /\ z < e
    BY <1>1, <1>2, <1>4
  <1>6. z % PAGE = 0
    <2>1. PICK q \in Int : e = PAGE * q
      BY <1>1, <1>2, ModMul
    <2>2. q - 1 \in Int /\ PAGE * (q - 1) = PAGE * q - PAGE * 1 /\ PAGE * 1 = PAGE
      BY <1>1, <2>1, Distr
    <2>3. z = PAGE * (q - 1)
      BY <2>1, <2>2
    <2>4. (PAGE * (q - 1)) % PAGE = 0
      BY <1>1, <2>2, MulMod
    <2> HIDE DEF z
    <2> QED BY <2>3, <2>4
  <1>7. z \in Pages
    BY <1>1, <1>2, <1>5, <1>6, AddressFacts
  <1>8. ASSUME NEW p \in Pages PROVE p < e <=> p <= z
    <2>1. p < e => p + PAGE <= e
      BY <1>2, NextPage
    <2>2. p \in Nat
      BY AddressFacts
    <2> QED BY <1>1, <1>2, <1>5, <2>1, <2>2
  <1> HIDE DEF z
  <1> QED BY <1>3, <1>5, <1>7, <1>8

(* Every step is a step of the abstract memory or leaves it alone. *)
LEMMA AbstractStep ==
    ASSUME ListInv, [Next]_vars
    PROVE  [Abstract!Next]_rights
  <1>1. Ordered(areas) /\ \A p \in Pages : p \in Nat
    BY AddressFacts DEF ListInv
  <1>2. ASSUME NEW prot \in Prots, Maps(prot) PROVE Abstract!Map
    <2>1. PICK a \in Pages, b \in Pages \cup {MMAP_AREA_END} :
             a < b /\ Free(a, b) /\ Remade(areas', a, b, {prot})
      BY <1>2 DEF Maps
    <2>2. /\ rights' = [p \in Pages |-> IF a <= p /\ p < b THEN prot ELSE rights[p]]
          /\ \A p \in Pages : a <= p /\ p < b => rights[p] = {}
      BY <1>1, <2>1, MapRights
    <2>3. b \in Nat /\ b % PAGE = 0
      BY AddressFacts
    <2>4. PICK z \in Pages : a <= z /\ \A p \in Pages : p < b <=> p <= z
      BY <2>1, <2>3, LastPage
    <2>5. rights' = [p \in Pages |-> IF a <= p /\ p <= z THEN prot ELSE rights[p]]
      BY <2>2, <2>4
    <2>6. Abstract!Assign(a, z, prot)
      BY <2>5 DEF Abstract!Assign
    <2>7. \A p \in Pages : a <= p /\ p <= z => rights[p] = Abstract!Unmapped
      BY <2>2, <2>4 DEF Abstract!Unmapped
    <2> QED BY <2>4, <2>6, <2>7 DEF Abstract!Map
  <1>3. ASSUME NEW addr \in Pages, NEW length \in Lengths, vm_area_unmap(addr, length)
        PROVE  Abstract!Unmap \/ Abstract!UnmapGrows
    <2> DEFINE e == addr + Rounded(length)
    <2>1. /\ addr \in Nat /\ e \in Nat /\ addr < e /\ e % PAGE = 0
          /\ \A p \in Pages : p < e <=> p < addr + length
      <3>1. length \in Nat \ {0} /\ addr \in Nat /\ Rounded(length) \in Nat \ {0}
        BY VmAssumption, AddressFacts, RoundedFacts
      <3> QED BY <3>1, RangeFacts
    <2>2. PICK c \in Nat, g \in Prots \cup {{}} : UnmapsRights(addr, length, c, g)
      BY <1>3, UnmapRights
    <2>3. /\ \A p \in Pages :
                rights'[p] = IF addr <= p /\ p < addr + length THEN {}
                             ELSE IF e <= p /\ p < c THEN g ELSE rights[p]
          /\ \A i \in 1 .. Len(areas) :
                GrowsDown(i, addr, e) => c = areas[i].vm_start /\ g = areas[i].access_flags
          /\ e < c => \E i \in 1 .. Len(areas) : GrowsDown(i, addr, e)
      BY <2>2 DEF UnmapsRights
    <2> HIDE DEF e
    <2>4. PICK z \in Pages : addr <= z /\ \A p \in Pages : p < e <=> p <= z
      BY <2>1, LastPage
    <2>5. rights' = [p \in Pages |-> IF addr <= p /\ p <= z THEN {}
                                     ELSE IF z < p /\ p < c THEN g ELSE rights[p]]
      <3>1. rights' = [p \in Pages |-> rights'[p]]
        BY DEF rights
      <3>2. \A p \in Pages : (e <= p <=> z < p) /\ (p < addr + length <=> p <= z)
        BY <1>1, <2>1, <2>4
      <3> QED BY <2>3, <3>1, <3>2
    <2>6. CASE c <= e
      <3>1. \A p \in Pages : ~ (z < p /\ p < c)
        BY <1>1, <2>1, <2>4, <2>6
      <3>2. rights' = [p \in Pages |-> IF addr <= p /\ p <= z THEN {} ELSE rights[p]]
        BY <2>5, <3>1
      <3> QED BY <2>4, <3>2 DEF Abstract!Unmap, Abstract!Assign, Abstract!Unmapped
    <2>7. CASE e < c
      <3>1. PICK i \in 1 .. Len(areas) : GrowsDown(i, addr, e)
        BY <2>3, <2>7
      <3>2. c = areas[i].vm_start /\ g = areas[i].access_flags
        BY <2>3, <3>1
      <3>3. c \in Pages /\ Has(areas, c, g)
        BY <1>1, <3>2, AreaFacts DEF Has
      <3>4. rights[c] = g /\ g # {}
        BY <1>1, <3>3, RightsFacts, VmAssumption DEF RightsRule, RightsShown
      <3>5. z < c
        BY <1>1, <2>1, <2>4, <2>7, <3>3
      <3>6. ASSUME NEW x \in Pages, z < x, x < c PROVE rights[x] = {}
        <4>1. e <= x /\ x \in Int
          BY <1>1, <2>1, <2>4, <3>6
        <4>2. ~Has(areas, x, rights[x])
          BY <1>1, <2>1, <3>1, <3>2, <3>6, <4>1, GrowsFree
        <4> QED BY <1>1, <4>2, RightsFacts DEF RightsRule, RightsShown
      <3>7. rights' = [p \in Pages |-> IF addr <= p /\ p <= z THEN {}
                                       ELSE IF z < p /\ p < c THEN rights[c] ELSE rights[p]]
        BY <2>5, <3>4
      <3>8. Abstract!UnmapGrows
        <4>1. rights[c] # Abstract!Unmapped /\ \A x \in Pages : z < x /\ x < c => rights[x] = Abstract!Unmapped
          BY <3>4, <3>6 DEF Abstract!Unmapped
        <4>2. rights' = [p \in Pages |-> IF addr <= p /\ p <= z THEN Abstract!Unmapped
                                         ELSE IF z < p /\ p < c THEN rights[c] ELSE rights[p]]
          BY <3>7, Zenon DEF Abstract!Unmapped
        <4> QED BY <2>4, <3>3, <3>5, <4>1, <4>2, Zenon DEF Abstract!UnmapGrows
      <3> QED BY <3>8
    <2> QED BY <2>1, <2>6, <2>7
  <1>4. ASSUME MprotectLast \/ MprotectRecurse PROVE Abstract!Protect
    <2>1. call # Null /\ Valid /\ areas' \in Reshaped
      BY <1>4 DEF MprotectLast, MprotectRecurse
    <2>2. /\ rights' = [p \in Pages |-> IF call.addr <= p /\ p < LevelEnd THEN call.prot ELSE rights[p]]
          /\ LevelEnd \in Pages \cup {MMAP_AREA_END} /\ call.addr \in Pages /\ call.prot \in Prots
          /\ call.addr < LevelEnd
          /\ \A p \in Pages : call.addr <= p /\ p < LevelEnd => rights[p] # {}
      BY <2>1, LevelRights
    <2>3. LevelEnd \in Nat /\ LevelEnd % PAGE = 0
      BY <2>2, AddressFacts
    <2>4. PICK z \in Pages : call.addr <= z /\ \A p \in Pages : p < LevelEnd <=> p <= z
      BY <2>2, <2>3, LastPage
    <2>5. rights' = [p \in Pages |-> IF call.addr <= p /\ p <= z THEN call.prot ELSE rights[p]]
      BY <2>2, <2>4
    <2>6. Abstract!Assign(call.addr, z, call.prot)
      BY <2>5 DEF Abstract!Assign
    <2>7. \A p \in Pages : call.addr <= p /\ p <= z => rights[p] # Abstract!Unmapped
      BY <2>2, <2>4 DEF Abstract!Unmapped
    <2> QED BY <2>2, <2>4, <2>6, <2>7 DEF Abstract!Protect
  <1>5. CASE UNCHANGED areas
    BY <1>5, SameRights
  <1>6. MprotectFails \/ UNCHANGED vars => UNCHANGED areas
    BY DEF MprotectFails, vars
  <1>7. \A p : Store(p) \/ (\E write \in BOOLEAN : vm_area_pagefault(p, write)) => UNCHANGED areas
    BY DEF Store, vm_area_pagefault
  <1>8. /\ \A addr, length, flags : MapHangs(addr, length, flags) => UNCHANGED areas
        /\ \A addr, length, prot : MprotectCall(addr, length, prot) => UNCHANGED areas
    BY DEF MapHangs, MprotectCall
  <1>9. \/ Abstract!Map \/ Abstract!Unmap \/ Abstract!UnmapGrows \/ Abstract!Protect
        \/ UNCHANGED areas
    BY <1>2, <1>3, <1>4, <1>6, <1>7, <1>8, StepKinds
  <1> QED BY <1>5, <1>9 DEF Abstract!Next

(***************************************************************************)
(* The areas implement what AbstractVm says of the pages, whatever the      *)
(* sizes, the lengths of the calls and the list they lead to: every call or *)
(* level of a call maps a range that was free, changes the rights of one    *)
(* that was mapped, or unmaps a range, after which the mapping behind it    *)
(* may take the free pages in between.                                      *)
(***************************************************************************)
THEOREM Implements == Spec => ImplementsAbstract
  <1>1. Init => Abstract!Init
    BY DEF Init, Abstract!Init, Abstract!Unmapped, rights, AreaOf
  <1>2. ListInv /\ [Next]_vars => [Abstract!Next]_rights
    BY AbstractStep
  <1> QED BY <1>1, <1>2, ListInvariant, PTL DEF Spec, ImplementsAbstract, Abstract!Spec
===============================================================================
