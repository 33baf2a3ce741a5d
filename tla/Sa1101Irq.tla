----------------------------- MODULE Sa1101Irq ------------------------------
(***************************************************************************)
(* The interrupts of the SA1101 in 2.6 (arch/arm/common/sa1101.c): one     *)
(* GPIO of the processor stands for all of them, interrupts on its rising  *)
(* edge, and sa1101_irq_handler finds out which they are.                  *)
(*                                                                         *)
(* INTSTATCLR is two registers. They are read one after the other and      *)
(* cleared one after the other; a device that interrupts between the two   *)
(* reads does what it would have done just before or just after both, so   *)
(* a look is one step that reads and one that clears.                      *)
(***************************************************************************)

CONSTANTS
    Ints,             \* interrupts of the SA1101
    EdgesWhileMasked  \* the GPIO latches edges while its interrupt is masked

(* "edges are not detected while the IRQ is disabled" (sa1101.c:219).        *)
ASSUME ChainAssumption == EdgesWhileMasked \in BOOLEAN

VARIABLES
    intstat,    \* INTSTATCLR0-1; the chain line is high while one is set
    gedr,       \* an edge of the chain line is latched
    chainOff,   \* the chain interrupt is masked
    hpc,        \* where the handler is
    stat,       \* stat0 and stat1
    missed      \* history: a device interrupted after the look that ended the
                \* handler's loop and before the chain was unmasked

chainVars == <<intstat, gedr, chainOff, hpc, stat, missed>>

ChainInit ==
    /\ intstat = {} /\ gedr = FALSE /\ chainOff = FALSE
    /\ hpc = "out" /\ stat = {} /\ missed = FALSE

(* A device of the SA1101 interrupts.                                        *)
DeviceInt(i) ==
    /\ intstat' = intstat \cup {i}
    /\ gedr' = (gedr \/ (intstat = {} /\ (EdgesWhileMasked \/ ~chainOff)))
    /\ missed' = (missed \/ hpc = "exit" \/ (hpc = "reclear" /\ stat = {}))
    /\ UNCHANGED <<chainOff, hpc, stat>>

(* The processor takes the chain interrupt.                                  *)
EnterHandler ==
    /\ hpc = "out" /\ gedr /\ ~chainOff
    /\ hpc' = "first"
    /\ UNCHANGED <<intstat, gedr, chainOff, stat, missed>>

(* INTSTATCLR is read, ...                                                   *)
FirstLook ==
    /\ hpc = "first"
    /\ stat' = intstat
    /\ hpc' = "clear"
    /\ UNCHANGED <<intstat, gedr, chainOff, missed>>

(* ... and what was read is cleared, at first ...                            *)
FirstClear ==
    /\ hpc = "clear"
    /\ intstat' = intstat \ stat
    /\ hpc' = "mask"
    /\ UNCHANGED <<gedr, chainOff, stat, missed>>

(* ... before the chain is masked and its edge acknowledged; without an      *)
(* interrupt the handler returns from here and does not unmask.              *)
MaskAndAck ==
    /\ hpc = "mask"
    /\ chainOff' = TRUE /\ gedr' = FALSE
    /\ hpc' = IF stat = {} THEN "out" ELSE "serve"
    /\ UNCHANGED <<intstat, stat, missed>>

(* do_edge_IRQ.                                                              *)
Serve(i) ==
    /\ hpc = "serve" /\ i \in stat
    /\ stat' = stat \ {i}
    /\ UNCHANGED <<intstat, gedr, chainOff, hpc, missed>>

(* Mutant: what came while the first were served is left for the next time.  *)
LookOnce ==
    /\ hpc = "serve" /\ stat = {}
    /\ hpc' = "exit"
    /\ UNCHANGED <<intstat, gedr, chainOff, stat, missed>>

(* After each round of handlers INTSTATCLR is read again, ...                *)
LookAgain ==
    /\ hpc = "serve" /\ stat = {}
    /\ stat' = intstat
    /\ hpc' = "reclear"
    /\ UNCHANGED <<intstat, gedr, chainOff, missed>>

(* ... and cleared again, until nothing was read.                            *)
ClearAgain ==
    /\ hpc = "reclear"
    /\ intstat' = intstat \ stat
    /\ hpc' = IF stat = {} THEN "exit" ELSE "serve"
    /\ UNCHANGED <<gedr, chainOff, stat, missed>>

Unmask ==
    /\ hpc = "exit"
    /\ chainOff' = FALSE /\ hpc' = "out"
    /\ UNCHANGED <<intstat, gedr, stat, missed>>

ChainHandler ==
    \/ EnterHandler \/ FirstLook \/ FirstClear \/ MaskAndAck
    \/ \E i \in Ints : Serve(i)
    \/ LookAgain \/ ClearAgain \/ Unmask

ChainNext == (\E i \in Ints : DeviceInt(i)) \/ ChainHandler

ChainSpec == ChainInit /\ [][ChainNext]_chainVars

-----------------------------------------------------------------------------
(* The handler never returns with the chain masked, which its early return   *)
(* (lines 243-246) would leave masked for good, and no interrupt is pending  *)
(* then without a latched edge, wherever in the handler it came. There is    *)
(* one exception, which `missed` records: after the look that ended the loop *)
(* and before the unmasking (lines 259-267) an interrupt makes no edge, the  *)
(* line stays high, and all devices of the SA1101 fall silent.               *)
ChainAlive == hpc = "out" => ~chainOff /\ (intstat # {} => gedr \/ missed)

=============================================================================
