--------------------------- MODULE PciPool_proof ----------------------------
(***************************************************************************)
(* Proofs about PciPool, for every number of pages, blocks and callers.    *)
(***************************************************************************)
EXTENDS PciPool, PoolBlocks_proof

USE PoolAssumption, CallersAssumption

(* Every page on the list is whole: what its bitmap does not have is with a  *)
(* caller; and callers hold blocks of pages on the list, of a pool that is.  *)
IInv ==
    /\ PoolTypeOK /\ HandedOutOnce /\ NoneLost
    /\ \A t \in Threads : held[t] # Null => made /\ held[t][1] \in PagesOf(pool)

(* The invariant holds at first.                                             *)
LEMMA PoolInitially == PoolInit => IInv
<1> SUFFICES ASSUME PoolInit PROVE IInv
  OBVIOUS
<1>1. EmptyPool \in Pools /\ PagesOf(EmptyPool) = {}
  BY DEF EmptyPool, Pools, PagesOf, PageIds
<1> QED
  BY <1>1 DEF PoolInit, IInv, PoolTypeOK, HandedOutOnce, NoneLost

(* A block is handed out: nobody had it, and its bit is cleared.             *)
LEMMA AllocStep ==
    ASSUME IInv, NEW t \in Threads, Alloc(t)
    PROVE  IInv'
<1> DEFINE r == Refill(pool)
           b == NextBlock(r)
<1>1. /\ r \in Pools /\ HasFree(r) /\ PagesOf(pool) \subseteq PagesOf(r)
      /\ \A p \in PagesOf(pool) : r.free[p] = pool.free[p]
      /\ \A p \in PagesOf(r) \ PagesOf(pool) : r.free[p] = Indices
  BY Refilled DEF Alloc, IInv, PoolTypeOK
<1>2. b \in Blocks /\ b[1] \in PagesOf(r) /\ b[2] \in r.free[b[1]]
  BY <1>1, NextBlockIsFree
<1>3. /\ pool' = Take(r, b) /\ held' = [held EXCEPT ![t] = b]
      /\ held[t] = Null /\ waiting' = waiting
      /\ made /\ made' = made /\ leaked' = leaked
  BY DEF Alloc, Asks
<1> HIDE DEF r, b
<1>4. r.list \in Seq(PageIds) /\ r.free \in [PageIds -> SUBSET Indices]
  BY <1>1 DEF Pools, Indices
<1>5. b[1] \in PageIds /\ b[2] \in Indices /\ b = <<b[1], b[2]>>
  BY <1>2 DEF Blocks, Indices
<1>6. /\ pool'.list = r.list
      /\ pool'.free = [r.free EXCEPT ![b[1]] = @ \ {b[2]}]
  BY <1>1, <1>3 DEF Take, Pools
<1>7. pool' \in Pools
  BY <1>1, <1>3, <1>4, <1>5 DEF Take, Pools, Indices
<1>8. PagesOf(pool') = PagesOf(r)
  BY <1>6 DEF PagesOf
<1>9. held \in [Threads -> Blocks \cup {Null}]
  BY DEF IInv, PoolTypeOK
<1>10. PoolTypeOK'
  BY <1>2, <1>3, <1>7, <1>9 DEF IInv, PoolTypeOK
<1>11. held'[t] = b /\ \A u \in Threads \ {t} : held'[u] = held[u]
  BY <1>3, <1>9
<1>12. ASSUME NEW u \in Threads, held[u] # Null
       PROVE  /\ held[u][1] \in PagesOf(pool)
              /\ held[u][2] \notin r.free[held[u][1]]
  BY <1>1, <1>12 DEF IInv, HandedOutOnce
<1>13. ASSUME NEW u \in Threads, held[u] # Null PROVE held[u] # b
  BY <1>2, <1>12, <1>13
<1>14. b[2] \notin pool'.free[b[1]]
  BY <1>4, <1>5, <1>6
<1>15. \A p \in PageIds : pool'.free[p] \subseteq r.free[p]
  BY <1>4, <1>5, <1>6
<1>16. ASSUME NEW u \in Threads, held[u] # Null
       PROVE  held[u][2] \notin pool'.free[held[u][1]]
  <2>1. held[u][1] \in PageIds
    BY <1>9, <1>16, CallersAssumption DEF Blocks
  <2> QED
    BY <1>12, <1>15, <1>16, <2>1
<1>17. HandedOutOnce'
  <2> SUFFICES ASSUME NEW u \in Threads, held'[u] # Null
               PROVE  /\ held'[u][2] \notin pool'.free[held'[u][1]]
                      /\ \A v \in Threads \ {u} : held'[v] # held'[u]
    BY DEF HandedOutOnce
  <2>1. CASE u = t
    BY <1>2, <1>11, <1>13, <1>14, <2>1, CallersAssumption
  <2>2. CASE u # t
    <3>1. held'[u] = held[u]
      BY <1>11, <2>2
    <3>2. held'[u][2] \notin pool'.free[held'[u][1]]
      BY <1>16, <3>1
    <3>3. \A v \in Threads \ {u} : held[v] # held[u]
      BY <3>1 DEF IInv, HandedOutOnce
    <3> QED
      BY <1>11, <1>13, <3>1, <3>2, <3>3
  <2> QED
    BY <2>1, <2>2
<1>18. NoneLost'
  <2> SUFFICES ASSUME NEW p \in PagesOf(r), NEW i \in Indices, i \notin pool'.free[p]
               PROVE  \E u \in Threads : held'[u] = <<p, i>>
    BY <1>3, <1>8 DEF IInv, NoneLost, Indices
  <2>1. p \in PageIds
    BY <1>1, PagesArePages
  <2>2. CASE i \in r.free[p]
    <3>1. p = b[1] /\ i = b[2]
      BY <1>4, <1>5, <1>6, <2>1, <2>2
    <3> QED
      BY <1>5, <1>11, <3>1
  <2>3. CASE i \notin r.free[p]
    <3>1. p \in PagesOf(pool) /\ i \notin pool.free[p]
      BY <1>1, <2>3
    <3>2. PICK u \in Threads : held[u] = <<p, i>>
      BY <3>1 DEF IInv, NoneLost, Indices
    <3>3. held[u] # Null
      BY <2>1, <3>2, CallersAssumption DEF Blocks, Indices
    <3> QED
      BY <1>3, <1>11, <3>2, <3>3
  <2> QED
    BY <2>2, <2>3
<1>19. \A u \in Threads : held'[u] # Null => made' /\ held'[u][1] \in PagesOf(pool')
  BY <1>1, <1>2, <1>3, <1>8, <1>11, <1>12
<1> QED
  BY <1>10, <1>17, <1>18, <1>19 DEF IInv

(* A block comes back: its bit is set and nobody holds it.                   *)
LEMMA FreeStep ==
    ASSUME IInv, NEW t \in Threads, Free(t)
    PROVE  IInv'
<1> DEFINE b == held[t]
<1>1. /\ pool' = Give(pool, b) /\ held' = [held EXCEPT ![t] = Null] /\ waiting' = {}
      /\ made' = made /\ leaked' = leaked
  BY DEF Free
<1>2. pool \in Pools /\ held \in [Threads -> Blocks \cup {Null}]
  BY DEF IInv, PoolTypeOK
<1>3. b \in Blocks /\ b # Null
  BY <1>2 DEF Free
<1>4. \A u \in Threads \ {t} : held[u] # b
  BY <1>3 DEF IInv, HandedOutOnce
<1> HIDE DEF b
<1>5. b[1] \in PageIds /\ b[2] \in Indices /\ b = <<b[1], b[2]>>
  BY <1>3 DEF Blocks, Indices
<1>6. pool.list \in Seq(PageIds) /\ pool.free \in [PageIds -> SUBSET Indices]
  BY <1>2 DEF Pools, Indices
<1>7. /\ pool'.list = pool.list
      /\ pool'.free = [pool.free EXCEPT ![b[1]] = @ \cup {b[2]}]
  BY <1>1, <1>2 DEF Give, Pools
<1>8. pool' \in Pools
  BY <1>1, <1>2, <1>5, <1>6 DEF Give, Pools, Indices
<1>9. PagesOf(pool') = PagesOf(pool)
  BY <1>7 DEF PagesOf
<1>10. PoolTypeOK'
  BY <1>1, <1>2, <1>8 DEF IInv, PoolTypeOK
<1>11. held'[t] = Null /\ \A u \in Threads \ {t} : held'[u] = held[u]
  BY <1>1, <1>2
<1>12. HandedOutOnce'
  <2> SUFFICES ASSUME NEW u \in Threads, held'[u] # Null
               PROVE  /\ held'[u][2] \notin pool'.free[held'[u][1]]
                      /\ \A v \in Threads \ {u} : held'[v] # held'[u]
    BY DEF HandedOutOnce
  <2>1. u # t /\ held'[u] = held[u] /\ held[u] # Null
    BY <1>11
  <2>2. held[u] \in Blocks /\ held[u] # b
    BY <1>2, <1>4, <2>1
  <2>3. /\ held[u][1] \in PageIds /\ held[u][2] \in Indices
        /\ held[u] = <<held[u][1], held[u][2]>>
    BY <2>2 DEF Blocks, Indices
  <2>4. /\ held[u][2] \notin pool.free[held[u][1]]
        /\ \A v \in Threads \ {u} : held[v] # held[u]
    BY <2>1 DEF IInv, HandedOutOnce
  <2>5. ~(held[u][1] = b[1] /\ held[u][2] = b[2])
    BY <1>5, <2>2, <2>3
  <2>6. held[u][2] \notin pool'.free[held[u][1]]
    BY <1>5, <1>6, <1>7, <2>3, <2>4, <2>5
  <2> QED
    BY <1>11, <2>1, <2>4, <2>6
<1>13. NoneLost'
  <2> SUFFICES ASSUME NEW p \in PagesOf(pool), NEW i \in Indices, i \notin pool'.free[p]
               PROVE  \E u \in Threads : held'[u] = <<p, i>>
    BY <1>1, <1>9 DEF IInv, NoneLost, Indices
  <2>1. p \in PageIds
    BY <1>2, PagesArePages
  <2>2. i \notin pool.free[p] /\ <<p, i>> # b
    BY <1>5, <1>6, <1>7, <2>1
  <2>3. PICK u \in Threads : held[u] = <<p, i>>
    BY <2>2 DEF IInv, NoneLost, Indices
  <2> QED
    BY <1>11, <2>2, <2>3 DEF b
<1>14. \A u \in Threads : held'[u] # Null => made' /\ held'[u][1] \in PagesOf(pool')
  BY <1>1, <1>9, <1>11 DEF IInv
<1> QED
  BY <1>10, <1>12, <1>13, <1>14 DEF IInv

(* Once every block is back no page is busy, and none is leaked.             *)
LEMMA DestroyStep ==
    ASSUME IInv, Destroy
    PROVE  IInv'
<1>1. ASSUME NEW p \in PagesOf(pool) PROVE ~IsBusy(p)
  <2>1. p \in PageIds /\ pool.free[p] \subseteq Indices
    BY <1>1, PagesArePages DEF IInv, PoolTypeOK, Pools, Indices
  <2>2. ASSUME NEW i \in Indices PROVE i \in pool.free[p]
    <3>1. \A t \in Threads : held[t] # <<p, i>>
      <4>1. <<p, i>> \in Blocks /\ \A t \in Threads : held[t] = Null
        BY <2>1, <2>2 DEF Destroy, Blocks, Indices
      <4> QED
        BY <4>1, CallersAssumption
    <3> QED
      BY <1>1, <2>2, <3>1 DEF IInv, NoneLost, Indices
  <2> QED
    BY <2>1, <2>2 DEF IsBusy, Indices
<1>2. leaked' = {}
  BY <1>1 DEF Destroy, IInv, NoneLost
<1>3. EmptyPool \in Pools /\ PagesOf(EmptyPool) = {}
  BY DEF EmptyPool, Pools, PagesOf, PageIds
<1> QED
  BY <1>2, <1>3 DEF Destroy, IInv, PoolTypeOK, HandedOutOnce, NoneLost

(* A new pool has no pages.                                                  *)
LEMMA CreateStep ==
    ASSUME IInv, Create
    PROVE  IInv'
<1>1. EmptyPool \in Pools /\ PagesOf(EmptyPool) = {}
  BY DEF EmptyPool, Pools, PagesOf, PageIds
<1> QED
  BY <1>1 DEF Create, IInv, PoolTypeOK, HandedOutOnce, NoneLost

(* The invariant holds in every reachable state.                             *)
LEMMA PoolInductive == PoolSpec => []IInv
<1>1. ASSUME IInv, [PoolNext]_poolVars PROVE IInv'
  <2>1. ASSUME NEW t \in Threads, Alloc(t) PROVE IInv'
    BY <1>1, <2>1, AllocStep
  <2>2. ASSUME NEW t \in Threads, Free(t) PROVE IInv'
    BY <1>1, <2>2, FreeStep
  <2>3. ASSUME NEW t \in Threads, AllocWait(t) \/ AllocTimeout(t) PROVE IInv'
    <3>1. /\ pool' = pool /\ held' = held /\ waiting' \subseteq Threads
          /\ made' = made /\ leaked' = leaked
      BY <1>1, <2>3 DEF AllocWait, AllocTimeout, IInv, PoolTypeOK
    <3> QED
      BY <1>1, <3>1 DEF IInv, PoolTypeOK, HandedOutOnce, NoneLost
  <2>4. CASE UNCHANGED poolVars
    BY <1>1, <2>4 DEF poolVars, IInv, PoolTypeOK, HandedOutOnce, NoneLost
  <2> QED
    BY <1>1, <2>1, <2>2, <2>3, <2>4, CreateStep, DestroyStep DEF PoolNext
<1> QED
  BY PoolInitially, <1>1, PTL DEF PoolSpec

-----------------------------------------------------------------------------
(* However allocations, frees and waits are interleaved, the pool stays a    *)
(* list of pages with a bitmap each, and callers hold blocks of it.          *)
THEOREM PoolTypeCorrect == PoolSpec => []PoolTypeOK
BY PoolInductive, PTL DEF IInv

(* pci_pool_alloc never gives a block to two callers, and no block that is   *)
(* with a caller is marked free.                                             *)
THEOREM BlocksHandedOutOnce == PoolSpec => []HandedOutOnce
BY PoolInductive, PTL DEF IInv

(* No block of any page leaks: it is free or somebody has it.                *)
THEOREM NoBlockLost == PoolSpec => []NoneLost
BY PoolInductive, PTL DEF IInv

=============================================================================
