----------------------------- MODULE PoolBlocks -----------------------------
(***************************************************************************)
(* The allocator of pci_pool (src/linux/kernel/arch/arm/mach-sa1100/       *)
(* pcipool.c): what its operations do to a pool, as functions of a pool.   *)
(***************************************************************************)
EXTENDS Integers, Sequences

CONSTANTS
    MaxPages,  \* pages pci_alloc_consistent can provide
    PerPage    \* pool->blocks_per_page

ASSUME PoolAssumption == MaxPages \in Nat /\ PerPage \in Nat \ {0}

PageIds == 1..MaxPages
Blocks == PageIds \X (0..(PerPage - 1))

-----------------------------------------------------------------------------
(* A pool: its page_list, most recent page first, and the bitmap of each     *)
(* page, a set bit being a free block.                                       *)
Pools == [list : Seq(PageIds), free : [PageIds -> SUBSET (0..(PerPage - 1))]]

EmptyPool == [list |-> <<>>, free |-> [p \in PageIds |-> {}]]

PagesOf(pool) == {pool.list[i] : i \in 1..Len(pool.list)}

(* Some page on the list has a free block.                                   *)
HasFree(pool) == \E p \in PagesOf(pool) : pool.free[p] # {}

(* The loop of pci_pool_alloc: the first page on the list with a free block, *)
(* and its lowest one.                                                       *)
FirstPage(pool) ==
    LET i == CHOOSE i \in 1..Len(pool.list) :
                /\ pool.free[pool.list[i]] # {}
                /\ \A j \in 1..(i - 1) : pool.free[pool.list[j]] = {}
    IN  pool.list[i]

Lowest(S) == CHOOSE x \in S : \A y \in S : x <= y

NextBlock(pool) == <<FirstPage(pool), Lowest(pool.free[FirstPage(pool)])>>

(* Mutant: the bit of the block is left set.                                 *)
TakeLeavesBit(pool, b) == pool

(* clear_bit: block b is handed out.                                         *)
Take(pool, b) == [pool EXCEPT !.free[b[1]] = @ \ {b[2]}]

(* Mutant: the bit of the neighbour is set.                                  *)
GiveNeighbour(pool, b) == [pool EXCEPT !.free[b[1]] = @ \cup {(b[2] + 1) % PerPage}]

(* pci_pool_free: the page is found by its address, the bit is set.          *)
Give(pool, b) == [pool EXCEPT !.free[b[1]] = @ \cup {b[2]}]

CanGrow(pool) == PageIds \ PagesOf(pool) # {}

(* pool_alloc_page: a new page at the head of the list, all of it free.      *)
Grow(pool) ==
    LET p == Lowest(PageIds \ PagesOf(pool))
    IN  [list |-> <<p>> \o pool.list,
         free |-> [pool.free EXCEPT ![p] = 0..(PerPage - 1)]]

(* pci_pool_alloc finds a block, or a page to make blocks of.                *)
CanAlloc(pool) == HasFree(pool) \/ CanGrow(pool)

(* The pool pci_pool_alloc takes its block from.                             *)
Refill(pool) == IF HasFree(pool) THEN pool ELSE Grow(pool)

=============================================================================
