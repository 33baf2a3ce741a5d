------------------------------ MODULE Ucb1x00 -------------------------------
(***************************************************************************)
(* Interrupts of the UCB1x00 codec (2.4 drivers/misc/ucb1x00-core.c): the  *)
(* interrupt of the chip is turned off when it comes, and a thread reads   *)
(* and clears the status, calls the handlers of the sources and turns it   *)
(* on again.                                                               *)
(*                                                                         *)
(* The chip drives a GPIO whose rising edge interrupts (jornada820.c:36).  *)
(***************************************************************************)
EXTENDS Integers, FiniteSets

CONSTANT Irqs  \* interrupt sources of the chip

-----------------------------------------------------------------------------
VARIABLES
    fn,        \* sources with a handler
    enbl,      \* irq_ris_enbl, irq_fal_enbl: sources that may interrupt
    status,    \* UCB_IE_STATUS
    edge,      \* the GPIO has latched a rising edge
    irqOff,    \* the interrupt line is disabled
    asleep,    \* the thread is TASK_INTERRUPTIBLE
    killed,    \* SIGKILL is pending for it
    tpc,       \* where the thread is
    isr,       \* its copy of the status
    late       \* history: a source that is not in the copy raised between the
               \* read of the status and its clearing, and is pending since

ucbVars == <<fn, enbl, status, edge, irqOff, asleep, killed, tpc, isr, late>>
chipVars == <<fn, enbl, status>>

(* After request_irq, with the thread on the wait queue and asleep: it is a  *)
(* real-time thread and keeps the processor from its start to here.          *)
UcbInit ==
    /\ fn = {} /\ enbl = {} /\ status = {} /\ edge = FALSE
    /\ irqOff = FALSE /\ asleep = TRUE /\ killed = FALSE
    /\ tpc = "schedule" /\ isr = {} /\ late = FALSE

-----------------------------------------------------------------------------
(* The chip: its line is high while the status is not empty.                 *)
Raise(i) ==
    /\ i \in enbl
    /\ edge' = (edge \/ status = {})
    /\ status' = status \cup {i}
    /\ late' = (late \/ (tpc = "clear" /\ i \notin isr))
    /\ UNCHANGED <<fn, enbl, irqOff, asleep, killed, tpc, isr>>

(* ucb1x00_irq: disable_irq and wake_up.                                     *)
UcbIrq ==
    /\ edge /\ ~irqOff
    /\ edge' = FALSE /\ irqOff' = TRUE /\ asleep' = FALSE
    /\ UNCHANGED <<chipVars, killed, tpc, isr, late>>

-----------------------------------------------------------------------------
(* ucb1x00_thread                                                            *)

(* Mutant: enable_irq is forgotten.                                          *)
EnableIrqForgotten ==
    /\ tpc = "top" /\ ~killed
    /\ tpc' = "schedule"
    /\ UNCHANGED <<chipVars, edge, irqOff, asleep, killed, isr, late>>

EnableIrq ==
    /\ tpc = "top" /\ ~killed
    /\ irqOff' = FALSE /\ tpc' = "schedule"
    /\ UNCHANGED <<chipVars, edge, asleep, killed, isr, late>>

Exit ==
    /\ tpc = "top" /\ killed
    /\ tpc' = "gone"
    /\ UNCHANGED <<chipVars, edge, irqOff, asleep, killed, isr, late>>

(* schedule returns; a signal wakes the thread as well.                      *)
Scheduled ==
    /\ tpc = "schedule" /\ ~asleep
    /\ tpc' = "read"
    /\ UNCHANGED <<chipVars, edge, irqOff, asleep, killed, isr, late>>

ReadStatus ==
    /\ tpc = "read"
    /\ isr' = status /\ tpc' = "clear"
    /\ UNCHANGED <<chipVars, edge, irqOff, asleep, killed, late>>

(* Mutant: the status is not cleared.                                        *)
ClearsNothing ==
    /\ tpc = "clear"
    /\ tpc' = "handle"
    /\ UNCHANGED <<chipVars, edge, irqOff, asleep, killed, isr, late>>

ClearStatus ==
    /\ tpc = "clear"
    /\ status' = status \ isr
    /\ tpc' = "handle"
    /\ late' = (late /\ status' # {})
    /\ UNCHANGED <<fn, enbl, edge, irqOff, asleep, killed, isr>>

(* The next source of isr; its handler is called if it has one by now, and   *)
(* may disable, enable or free sources, as any process may.                  *)
CallHandler(i) ==
    /\ tpc = "handle" /\ i \in isr
    /\ isr' = isr \ {i}
    /\ UNCHANGED <<chipVars, edge, irqOff, asleep, killed, tpc, late>>

(* set_task_state(TASK_INTERRUPTIBLE).                                       *)
PrepareToSleep ==
    /\ tpc = "handle" /\ isr = {}
    /\ asleep' = TRUE /\ tpc' = "top"
    /\ UNCHANGED <<chipVars, edge, irqOff, killed, isr, late>>

UcbThread ==
    \/ EnableIrq \/ Exit \/ Scheduled \/ ReadStatus \/ ClearStatus
    \/ \E i \in Irqs : CallHandler(i)
    \/ PrepareToSleep

-----------------------------------------------------------------------------
(* Users of the chip. The kernel is not preemptible: they run while the      *)
(* thread is in schedule, its own or that of a handler that sleeps.          *)

Runs == tpc \in {"schedule", "handle", "gone"}

(* ucb1x00_hook_irq and ucb1x00_free_irq, ...                                *)
HookIrq(i) ==
    /\ i \notin fn
    /\ fn' = fn \cup {i}
    /\ UNCHANGED <<enbl, status, edge, irqOff, asleep, killed, tpc, isr, late>>

FreeIrq(i) ==
    /\ i \in fn
    /\ fn' = fn \ {i} /\ enbl' = enbl \ {i}
    /\ UNCHANGED <<status, edge, irqOff, asleep, killed, tpc, isr, late>>

(* ... ucb1x00_enable_irq, which forgets what the source raised before, ...  *)
EnableSource(i) ==
    /\ i \in fn
    /\ enbl' = enbl \cup {i} /\ status' = status \ {i}
    /\ late' = (late /\ status' # {})
    /\ UNCHANGED <<fn, edge, irqOff, asleep, killed, tpc, isr>>

(* ... ucb1x00_disable_irq, ...                                              *)
DisableSource(i) ==
    /\ enbl' = enbl \ {i}
    /\ UNCHANGED <<fn, status, edge, irqOff, asleep, killed, tpc, isr, late>>

(* ... ucb1x00_pm on PM_RESUME, which clears every source, ...               *)
UcbResume ==
    /\ status' = {}
    /\ late' = (late /\ status' # {})
    /\ UNCHANGED <<fn, enbl, edge, irqOff, asleep, killed, tpc, isr>>

(* ... and the SIGKILL of ucb1x00_exit, whose caller then waits.             *)
Kill ==
    /\ ~killed
    /\ killed' = TRUE /\ asleep' = FALSE
    /\ UNCHANGED <<chipVars, edge, irqOff, tpc, isr, late>>

UcbUser ==
    /\ Runs
    /\ \/ \E i \in Irqs : \/ HookIrq(i) \/ FreeIrq(i)
                          \/ EnableSource(i) \/ DisableSource(i)
       \/ UcbResume \/ Kill

UcbNext == (\E i \in Irqs : Raise(i)) \/ UcbIrq \/ UcbThread \/ UcbUser

UcbSpec == UcbInit /\ [][UcbNext]_ucbVars

-----------------------------------------------------------------------------
(* The thread sleeps with its ears open: while it waits in schedule, its     *)
(* interrupt is enabled, and what is pending has latched an edge. It may go  *)
(* to sleep after the interrupt only because it declares itself asleep       *)
(* before it enables it. One case is excepted, which `late` records: a       *)
(* source that raises between the read of the status and its clearing (lines *)
(* 276-277) keeps the line high without an edge.                             *)
AlwaysListening ==
    tpc = "schedule" /\ asleep => ~irqOff /\ (status # {} => edge \/ late)

(* What a source raises is fetched by the thread however users hook, free,   *)
(* enable and disable sources, until the driver is unloaded. A source that   *)
(* is enabled again or a resume may forget it; a source that raised late     *)
(* leaves the thread deaf to all.                                            *)
EverySourceFetched ==
    \A i \in Irqs : i \in status ~> (i \notin status \/ killed \/ late)

=============================================================================
