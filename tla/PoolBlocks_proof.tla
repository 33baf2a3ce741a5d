------------------------- MODULE PoolBlocks_proof --------------------------
(***************************************************************************)
(* What the operations of PoolBlocks do to a pool, and induction over the  *)
(* naturals, for the proofs about the modules that use them.               *)
(***************************************************************************)
EXTENDS PoolBlocks, FiniteSetTheorems, TLAPS

USE PoolAssumption

(* Every non-empty set of naturals has a least element: that pci_pool_alloc  *)
(* has a first page and a first block to take. The initial segments of the   *)
(* naturals are finite sets, which strict inclusion orders well.             *)
LEMMA LeastNatural ==
    ASSUME NEW S \in SUBSET Nat, S # {}
    PROVE  \E x \in S : \A y \in S : x <= y
<1> DEFINE T == {0..n : n \in S}
<1>1. ASSUME NEW n \in S PROVE 0..n \in FiniteSubsetsOf(Nat)
  <2>1. IsFiniteSet(0..n) /\ 0..n \in SUBSET Nat
    BY FS_Interval
  <2> QED
    BY <2>1 DEF FiniteSubsetsOf
<1>2. T \subseteq FiniteSubsetsOf(Nat) /\ T # {}
  BY <1>1
<1>3. PICK A \in T : \A B \in T : ~ (<<B, A>> \in StrictSubsetOrdering(Nat))
  <2> HIDE DEF T
  <2> QED
    BY <1>2, FS_StrictSubsetOrderingWellFounded, WFMin
<1>4. PICK x \in S : A = 0..x
  OBVIOUS
<1>5. ASSUME NEW y \in S, y < x PROVE FALSE
  <2>1. 0..y \subseteq 0..x /\ x \in 0..x /\ x \notin 0..y
    BY <1>5
  <2>2. <<0..y, A>> \in StrictSubsetOrdering(Nat)
    <3>1. 0..y \in SUBSET Nat /\ A \in SUBSET Nat
      BY <1>4
    <3> QED
      BY <1>4, <2>1, <3>1 DEF StrictSubsetOrdering
  <2>3. 0..y \in T
    OBVIOUS
  <2> QED
    BY <1>3, <2>2, <2>3
<1> QED
  BY <1>4, <1>5

-----------------------------------------------------------------------------
Indices == 0..(PerPage - 1)

(* A pool all of whose pages are pages.                                      *)
LEMMA PagesArePages ==
    ASSUME NEW p \in Pools
    PROVE  PagesOf(p) \subseteq PageIds
BY DEF Pools, PagesOf

(* The page and the block the loop of pci_pool_alloc stops at.               *)
LEMMA NextBlockIsFree ==
    ASSUME NEW p \in Pools, HasFree(p)
    PROVE  /\ NextBlock(p) \in Blocks
           /\ NextBlock(p)[1] \in PagesOf(p)
           /\ NextBlock(p)[2] \in p.free[NextBlock(p)[1]]
<1> DEFINE With == {i \in 1..Len(p.list) : p.free[p.list[i]] # {}}
<1>1. p.list \in Seq(PageIds) /\ p.free \in [PageIds -> SUBSET Indices]
  BY DEF Pools, Indices
<1>2. Len(p.list) \in Nat
  BY <1>1
<1>3. \E i \in With : \A j \in With : i <= j
  <2>1. With \in SUBSET Nat
    BY <1>2
  <2>2. PICK i \in 1..Len(p.list) : p.free[p.list[i]] # {}
    BY DEF HasFree, PagesOf
  <2>3. i \in With
    BY <2>2
  <2> HIDE DEF With
  <2> QED
    BY <2>1, <2>3, LeastNatural
<1>4. \E i \in 1..Len(p.list) :
        /\ p.free[p.list[i]] # {}
        /\ \A j \in 1..(i - 1) : p.free[p.list[j]] = {}
  <2>1. PICK i \in With : \A j \in With : i <= j
    BY <1>3
  <2>2. ASSUME NEW j \in 1..(i - 1) PROVE p.free[p.list[j]] = {}
    <3>1. j \in 1..Len(p.list) /\ ~(i <= j)
      BY <1>2
    <3> QED
      BY <2>1, <3>1
  <2> QED
    BY <2>2
<1>5. FirstPage(p) \in PagesOf(p) /\ p.free[FirstPage(p)] # {}
  BY <1>4 DEF FirstPage, PagesOf
<1>6. FirstPage(p) \in PageIds
  BY <1>5, PagesArePages
<1> DEFINE S == p.free[FirstPage(p)]
<1>7. S \in SUBSET Indices
  BY <1>1, <1>6
<1>8. S \in SUBSET Nat /\ S # {}
  BY <1>5, <1>7 DEF Indices
<1>9. Lowest(S) \in S
  <2> HIDE DEF S
  <2> QED
    BY <1>8, LeastNatural DEF Lowest
<1> QED
  BY <1>5, <1>6, <1>7, <1>9 DEF NextBlock, Blocks, Indices

(* pool_alloc_page takes a page that is not on the list yet.                 *)
LEMMA NewPage ==
    ASSUME NEW p \in Pools, CanGrow(p)
    PROVE  /\ Lowest(PageIds \ PagesOf(p)) \in PageIds \ PagesOf(p)
           /\ Grow(p) \in Pools
           /\ PagesOf(Grow(p)) = PagesOf(p) \cup {Lowest(PageIds \ PagesOf(p))}
<1> DEFINE S == PageIds \ PagesOf(p)
           n == Lowest(S)
<1>1. n \in S
  <2>1. S \in SUBSET Nat /\ S # {}
    BY DEF CanGrow, PageIds
  <2> HIDE DEF S
  <2> QED
    BY <2>1, LeastNatural DEF Lowest
<1>2. p.list \in Seq(PageIds) /\ p.free \in [PageIds -> SUBSET Indices]
  BY DEF Pools, Indices
<1>3. Grow(p) = [list |-> <<n>> \o p.list, free |-> [p.free EXCEPT ![n] = Indices]]
  BY DEF Grow, Indices
<1> HIDE DEF n
<1>4. n \in PageIds
  BY <1>1
<1>5. <<n>> \o p.list \in Seq(PageIds)
  BY <1>2, <1>4
<1>6. Grow(p) \in Pools
  BY <1>2, <1>3, <1>4, <1>5 DEF Pools, Indices
<1>7. PagesOf(Grow(p)) = PagesOf(p) \cup {n}
  <2> DEFINE l == <<n>> \o p.list
  <2>1. Len(l) = Len(p.list) + 1 /\ Len(p.list) \in Nat
    BY <1>2, <1>4
  <2>2. l[1] = n /\ \A i \in 1..Len(p.list) : l[i + 1] = p.list[i]
    BY <1>2, <1>4
  <2>3. Grow(p).list = l
    BY <1>3
  <2> HIDE DEF l
  <2>4. ASSUME NEW i \in 1..Len(l) PROVE l[i] \in PagesOf(p) \cup {n}
    <3>1. i = 1 \/ i - 1 \in 1..Len(p.list)
      BY <2>1
    <3>2. i = (i - 1) + 1
      BY <2>1
    <3> QED
      BY <2>2, <3>1, <3>2 DEF PagesOf
  <2>5. ASSUME NEW i \in 1..Len(p.list) PROVE i + 1 \in 1..Len(l)
    BY <2>1
  <2>6. 1 \in 1..Len(l)
    BY <2>1
  <2>7. PagesOf(p) \cup {n} \subseteq {l[i] : i \in 1..Len(l)}
    BY <2>2, <2>5, <2>6 DEF PagesOf
  <2>8. {l[i] : i \in 1..Len(l)} \subseteq PagesOf(p) \cup {n}
    BY <2>4
  <2> QED
    BY <2>3, <2>7, <2>8 DEF PagesOf
<1> QED
  BY <1>1, <1>6, <1>7 DEF n

(* The pool pci_pool_alloc takes from: it may just have got a page.          *)
LEMMA Refilled ==
    ASSUME NEW pl \in Pools, CanAlloc(pl)
    PROVE  LET r == Refill(pl) IN
           /\ r \in Pools /\ HasFree(r) /\ PagesOf(pl) \subseteq PagesOf(r)
           /\ \A p \in PagesOf(pl) : r.free[p] = pl.free[p]
           /\ \A p \in PagesOf(r) \ PagesOf(pl) : r.free[p] = Indices
<1>1. pl \in Pools
  OBVIOUS
<1>2. CASE HasFree(pl)
  BY <1>1, <1>2 DEF Refill
<1>3. CASE ~HasFree(pl) /\ CanGrow(pl)
  <2> DEFINE n == Lowest(PageIds \ PagesOf(pl))
  <2>1. Grow(pl) = [list |-> <<n>> \o pl.list,
                      free |-> [pl.free EXCEPT ![n] = Indices]]
    BY DEF Grow, Indices
  <2>2. /\ n \in PageIds \ PagesOf(pl) /\ Grow(pl) \in Pools
        /\ PagesOf(Grow(pl)) = PagesOf(pl) \cup {n}
    BY <1>1, <1>3, NewPage
  <2> HIDE DEF n
  <2>3. pl.free \in [PageIds -> SUBSET Indices]
    BY <1>1 DEF Pools, Indices
  <2>4. Grow(pl).free = [pl.free EXCEPT ![n] = Indices]
    BY <2>1
  <2>5. Grow(pl).free[n] = Indices
    BY <2>2, <2>3, <2>4
  <2>6. \A p \in PagesOf(pl) : Grow(pl).free[p] = pl.free[p]
    BY <1>1, <2>2, <2>3, <2>4, PagesArePages
  <2>7. 0 \in Indices
    BY DEF Indices
  <2> QED
    BY <1>3, <2>2, <2>5, <2>6, <2>7 DEF Refill, HasFree
<1> QED
  BY <1>2, <1>3 DEF CanAlloc

(* The blocks that are with a caller: of a page of the pool, the bit clear.  *)
InUse(pl) == {b \in Blocks : b[1] \in PagesOf(pl) /\ b[2] \notin pl.free[b[1]]}

(* pci_pool_alloc gives a block that is with nobody, and changes no other.   *)
LEMMA BlockTaken ==
    ASSUME NEW pl \in Pools, CanAlloc(pl),
           NEW b, b = NextBlock(Refill(pl)), NEW q, q = Take(Refill(pl), b)
    PROVE  /\ q \in Pools /\ b \in Blocks \ InUse(pl)
           /\ InUse(q) = InUse(pl) \cup {b}
<1> DEFINE r == Refill(pl)
<1>1. /\ r \in Pools /\ HasFree(r) /\ PagesOf(pl) \subseteq PagesOf(r)
      /\ \A p \in PagesOf(pl) : r.free[p] = pl.free[p]
      /\ \A p \in PagesOf(r) \ PagesOf(pl) : r.free[p] = Indices
  BY Refilled
<1>2. b \in Blocks /\ b[1] \in PagesOf(r) /\ b[2] \in r.free[b[1]] /\ b[1] \in PageIds
  BY <1>1, NextBlockIsFree, PagesArePages
<1>3. q = [r EXCEPT !.free[b[1]] = r.free[b[1]] \ {b[2]}]
  BY DEF Take
<1> HIDE DEF r
<1>4. r = [list |-> r.list, free |-> r.free] /\ r.free \in [PageIds -> SUBSET Indices]
      /\ r.list \in Seq(PageIds)
  BY <1>1 DEF Pools, Indices
<1>5. q = [list |-> r.list, free |-> [r.free EXCEPT ![b[1]] = r.free[b[1]] \ {b[2]}]]
  BY <1>3, <1>4
<1>6. q \in Pools
  <2>1. [r.free EXCEPT ![b[1]] = r.free[b[1]] \ {b[2]}] \in [PageIds -> SUBSET Indices]
    BY <1>2, <1>4
  <2> QED
    BY <1>4, <1>5, <2>1 DEF Pools, Indices
<1>7. PagesOf(q) = PagesOf(r)
  BY <1>5 DEF PagesOf
<1>8. ASSUME NEW c \in Blocks
      PROVE  c \in InUse(q) <=> c \in InUse(pl) \/ c = b
  <2>1. c = <<c[1], c[2]>> /\ b = <<b[1], b[2]>> /\ c[1] \in PageIds /\ c[2] \in Indices
    BY <1>2 DEF Blocks, Indices
  <2>2. q.free[c[1]] = IF c[1] = b[1] THEN r.free[b[1]] \ {b[2]} ELSE r.free[c[1]]
    BY <1>2, <1>4, <1>5, <2>1
  <2>3. c \in InUse(q) <=> c[1] \in PagesOf(r) /\ (c[2] \notin r.free[c[1]] \/ c = b)
    BY <1>2, <1>7, <2>1, <2>2 DEF InUse
  <2>4. c[1] \in PagesOf(r) /\ c[2] \notin r.free[c[1]] <=> c \in InUse(pl)
    BY <1>1, <2>1 DEF InUse
  <2> QED
    BY <1>2, <2>3, <2>4
<1>9. b \notin InUse(pl)
  BY <1>1, <1>2 DEF InUse
<1>10. InUse(q) \subseteq Blocks /\ InUse(pl) \subseteq Blocks
  BY DEF InUse
<1> QED
  BY <1>2, <1>6, <1>8, <1>9, <1>10

(* Blocks that are given back are with nobody; no other block changes hands. *)
LEMMA BlocksGiven ==
    ASSUME NEW pl \in Pools, NEW S \in SUBSET Blocks, NEW q,
           q = [pl EXCEPT !.free = [p \in PageIds |-> pl.free[p] \cup {b[2] : b \in {b \in S : b[1] = p}}]]
    PROVE  q \in Pools /\ InUse(q) = InUse(pl) \ S
<1> DEFINE F == [p \in PageIds |-> pl.free[p] \cup {b[2] : b \in {b \in S : b[1] = p}}]
<1>1. pl.free \in [PageIds -> SUBSET Indices] /\ pl.list \in Seq(PageIds)
  BY DEF Pools, Indices
<1>2. q = [list |-> pl.list, free |-> F] /\ q.free = F /\ q.list = pl.list
  BY DEF Pools
<1>3. \A b \in S : b[1] \in PageIds /\ b[2] \in Indices /\ b = <<b[1], b[2]>>
  BY DEF Blocks, Indices
<1>4. F \in [PageIds -> SUBSET Indices]
  BY <1>1, <1>3
<1>5. \A c \in Blocks : c[2] \in F[c[1]] <=> c[2] \in pl.free[c[1]] \/ c \in S
  <2> TAKE c \in Blocks
  <2>1. c[1] \in PageIds /\ c = <<c[1], c[2]>>
    BY DEF Blocks
  <2>2. F[c[1]] = pl.free[c[1]] \cup {b[2] : b \in {b \in S : b[1] = c[1]}}
    BY <2>1
  <2>3. c[2] \in {b[2] : b \in {b \in S : b[1] = c[1]}} <=> c \in S
    BY <1>3, <2>1
  <2> QED
    BY <2>2, <2>3
<1> HIDE DEF F
<1>6. q \in Pools
  BY <1>1, <1>2, <1>4 DEF Pools, Indices
<1>7. PagesOf(q) = PagesOf(pl)
  BY <1>2 DEF PagesOf
<1>8. \A c \in Blocks : c \in InUse(q) <=> c \in InUse(pl) \ S
  <2> TAKE c \in Blocks
  <2>1. q.free[c[1]] = F[c[1]]
    BY <1>2
  <2>2. c \in InUse(q) <=> c[1] \in PagesOf(pl) /\ c[2] \notin F[c[1]]
    BY <1>7, <2>1 DEF InUse
  <2>3. c \in InUse(pl) <=> c[1] \in PagesOf(pl) /\ c[2] \notin pl.free[c[1]]
    BY DEF InUse
  <2> QED
    BY <1>5, <2>2, <2>3
<1>9. InUse(q) \subseteq Blocks /\ InUse(pl) \subseteq Blocks
  BY DEF InUse
<1> QED
  BY <1>6, <1>8, <1>9

-----------------------------------------------------------------------------
(* Induction, and recursion on the naturals.                                 *)
LEMMA Induction ==
    ASSUME NEW S, 0 \in S, \A n \in Nat : n \in S => n + 1 \in S
    PROVE  Nat \subseteq S
<1> SUFFICES ASSUME Nat \ S # {} PROVE FALSE
  OBVIOUS
<1>1. PICK x \in Nat \ S : \A y \in Nat \ S : x <= y
  BY LeastNatural
<1>2. x - 1 \in Nat
  BY <1>1
<1> QED
  BY <1>1, <1>2

(* The same up to a bound.                                                   *)
LEMMA BoundedInduction ==
    ASSUME NEW N \in Nat, NEW S, 0 \in S, \A n \in 0..(N - 1) : n \in S => n + 1 \in S
    PROVE  0..N \subseteq S
<1> DEFINE T == S \cup {n \in Nat : n > N}
<1>1. 0 \in T /\ \A n \in Nat : n \in T => n + 1 \in T
  OBVIOUS
<1>2. Nat \subseteq T
  <2> HIDE DEF T
  <2> QED
    BY <1>1, Induction
<1> QED
  BY <1>2

=============================================================================
