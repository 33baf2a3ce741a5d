------------------------------ MODULE PciPool -------------------------------
(***************************************************************************)
(* The pool of DMA-able blocks (src/linux/kernel/arch/arm/mach-sa1100/     *)
(* pcipool.c): threads that take blocks from one pool and give them back.  *)
(*                                                                         *)
(* Every operation is one step under pool->lock, with interrupts off; a    *)
(* caller that may wait sleeps outside of the lock and starts over.        *)
(***************************************************************************)
EXTENDS PoolBlocks

CONSTANTS
    Threads,   \* callers of the pool
    Kernel,    \* those that pass SLAB_KERNEL and may sleep
    Null       \* no block

ASSUME CallersAssumption == Kernel \subseteq Threads /\ Null \notin Blocks

-----------------------------------------------------------------------------
VARIABLES
    pool,     \* the pool
    held,     \* the block each thread has been given, Null if none
    waiting,  \* threads on pool->waitq
    made,     \* the pool has been created and not destroyed
    leaked    \* pages pci_pool_destroy found busy and left alone

poolVars == <<pool, held, waiting, made, leaked>>

PoolInit ==
    /\ pool = EmptyPool
    /\ held = [t \in Threads |-> Null]
    /\ waiting = {} /\ made = FALSE /\ leaked = {}

(* pci_pool_create; what it makes of sizes and alignments is PerPage.        *)
Create ==
    /\ ~made
    /\ made' = TRUE /\ pool' = EmptyPool
    /\ UNCHANGED <<held, waiting, leaked>>

(* is_page_busy.                                                             *)
IsBusy(p) == pool.free[p] # 0..(PerPage - 1)

(* pci_pool_destroy: "caller guarantees that no more memory from the pool is *)
(* in use"; a page that looks busy all the same is not given back.           *)
Destroy ==
    /\ made /\ waiting = {} /\ \A t \in Threads : held[t] = Null
    /\ leaked' = leaked \cup {p \in PagesOf(pool) : IsBusy(p)}
    /\ made' = FALSE /\ pool' = EmptyPool
    /\ UNCHANGED <<held, waiting>>

Asks(t) == made /\ held[t] = Null /\ t \notin waiting

(* A free block on a page of the list, or the first block of a new page.     *)
Alloc(t) ==
    /\ Asks(t) /\ CanAlloc(pool)
    /\ LET b == NextBlock(Refill(pool))
       IN  /\ pool' = Take(Refill(pool), b)
           /\ held' = [held EXCEPT ![t] = b]
    /\ UNCHANGED <<waiting, made, leaked>>

(* No free block, and no memory for a page: with SLAB_KERNEL the caller is   *)
(* put on the wait queue before it lets go of the lock.                      *)
AllocWait(t) ==
    /\ Asks(t) /\ ~HasFree(pool) /\ t \in Kernel
    /\ waiting' = waiting \cup {t}
    /\ UNCHANGED <<pool, held, made, leaked>>

(* schedule_timeout(POOL_TIMEOUT_JIFFIES) ends; the caller starts over.      *)
AllocTimeout(t) ==
    /\ t \in waiting
    /\ waiting' = waiting \ {t}
    /\ UNCHANGED <<pool, held, made, leaked>>

(* pci_pool_free; wake_up wakes every waiter, which starts over.             *)
Free(t) ==
    /\ held[t] # Null
    /\ pool' = Give(pool, held[t])
    /\ held' = [held EXCEPT ![t] = Null]
    /\ waiting' = {}
    /\ UNCHANGED <<made, leaked>>

PoolNext ==
    \/ Create \/ Destroy
    \/ \E t \in Threads :
          Alloc(t) \/ AllocWait(t) \/ AllocTimeout(t) \/ Free(t)

PoolSpec == PoolInit /\ [][PoolNext]_poolVars

-----------------------------------------------------------------------------
PoolTypeOK ==
    /\ pool \in Pools
    /\ held \in [Threads -> Blocks \cup {Null}]
    /\ waiting \subseteq Threads
    /\ made \in BOOLEAN /\ leaked \subseteq PageIds

(* "a currently unused block" (pci_pool_alloc): no block is handed to two    *)
(* callers, and a block someone holds is not free.                           *)
HandedOutOnce ==
    \A t \in Threads : held[t] # Null =>
        /\ held[t][2] \notin pool.free[held[t][1]]
        /\ \A u \in Threads \ {t} : held[u] # held[t]

(* No block gets lost: what nobody holds can be handed out again, and once   *)
(* every block is back pci_pool_destroy finds no page busy.                  *)
NoneLost ==
    /\ leaked = {}
    /\ \A p \in PagesOf(pool) : \A i \in 0..(PerPage - 1) :
          i \in pool.free[p] \/ \E t \in Threads : held[t] = <<p, i>>

=============================================================================
