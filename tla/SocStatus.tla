----------------------------- MODULE SocStatus ------------------------------
(***************************************************************************)
(* Card status in the socket driver of 2.6 (drivers/pcmcia/soc_common.c).  *)
(* soc_common_check_status runs in the interrupt and in the poll timer,    *)
(* get_status in a process, and each may come in the middle of the ones    *)
(* before it in that list; all of them write skt->status.                  *)
(***************************************************************************)
EXTENDS Integers

CONSTANT MaxPinChanges   \* bound: changes of the pins

ASSUME SocAssumption == MaxPinChanges \in Nat

Checkers == {"irq", "timer"}

VARIABLES
    socPins,     \* whether a card is there, as the pins say
    socChanges,  \* changes of the pins so far
    sktStatus,   \* skt->status
    sample,      \* the local status of each context
    cpc,         \* where each context is
    events,      \* thread_events of pccardd
    told         \* what Card Services knows from its last get_status

socVars == <<socPins, socChanges, sktStatus, sample, cpc, events, told>>

SocInit ==
    /\ socPins \in BOOLEAN /\ socChanges = 0
    /\ sktStatus = socPins /\ told = socPins
    /\ sample = [c \in Checkers \cup {"proc"} |-> socPins]
    /\ cpc = [c \in Checkers \cup {"proc"} |-> "idle"]
    /\ events = FALSE

(* Interrupts come over the timer, and both over processes.                  *)
Interrupted(c) ==
    \/ c # "irq" /\ cpc["irq"] # "idle"
    \/ c = "proc" /\ cpc["timer"] # "idle"

SocPinsChange ==
    /\ socChanges < MaxPinChanges
    /\ socPins' = ~socPins /\ socChanges' = socChanges + 1
    /\ UNCHANGED <<sktStatus, sample, cpc, events, told>>

(* soc_common_pcmcia_interrupt, soc_common_pcmcia_poll_event: the interrupt  *)
(* may come or not, the timer is set again before anything else is done.     *)
CheckStatus(c) ==
    /\ ~Interrupted(c) /\ cpc[c] = "idle"
    /\ cpc' = [cpc EXCEPT ![c] = "read"]
    /\ UNCHANGED <<socPins, socChanges, sktStatus, sample, events, told>>

SktState(c) ==
    /\ ~Interrupted(c) /\ cpc[c] = "read"
    /\ sample' = [sample EXCEPT ![c] = socPins]
    /\ cpc' = [cpc EXCEPT ![c] = "lock"]
    /\ UNCHANGED <<socPins, socChanges, sktStatus, events, told>>

(* Mutant: the status is stored before it is compared.                       *)
StoreThenCompare(c) ==
    /\ ~Interrupted(c) /\ cpc[c] = "lock"
    /\ sktStatus' = sample[c]
    /\ cpc' = [cpc EXCEPT ![c] = "idle"]
    /\ UNCHANGED <<socPins, socChanges, sample, events, told>>

(* Under status_lock the status is compared and stored; events are passed to *)
(* pccardd, and the pins are read again until there are none.                *)
CompareAndStore(c) ==
    /\ ~Interrupted(c) /\ cpc[c] = "lock"
    /\ sktStatus' = sample[c]
    /\ events' = (events \/ sample[c] # sktStatus)
    /\ cpc' = [cpc EXCEPT ![c] = IF sample[c] # sktStatus THEN "read" ELSE "idle"]
    /\ UNCHANGED <<socPins, socChanges, sample, told>>

(* soc_common_pcmcia_get_status: pccardd calls it when it has taken its      *)
(* events, and others may at any time.                                       *)
AskStatus ==
    /\ ~Interrupted("proc") /\ cpc["proc"] = "idle"
    /\ cpc' = [cpc EXCEPT !["proc"] = "read"]
    /\ UNCHANGED <<socPins, socChanges, sktStatus, sample, told>>

TakeEvents == AskStatus /\ events /\ events' = FALSE

Ask == AskStatus /\ UNCHANGED events

(* The store, without status_lock, and the answer are two accesses.          *)
StoreStatus ==
    /\ ~Interrupted("proc") /\ cpc["proc"] = "lock"
    /\ sktStatus' = sample["proc"]
    /\ cpc' = [cpc EXCEPT !["proc"] = "return"]
    /\ UNCHANGED <<socPins, socChanges, sample, events, told>>

ReturnStatus ==
    /\ ~Interrupted("proc") /\ cpc["proc"] = "return"
    /\ told' = sktStatus
    /\ cpc' = [cpc EXCEPT !["proc"] = "idle"]
    /\ UNCHANGED <<socPins, socChanges, sktStatus, sample, events>>

CheckerStep(c) == SktState(c) \/ CompareAndStore(c)

ProcStep == SktState("proc") \/ StoreStatus \/ ReturnStatus

SocNext ==
    \/ SocPinsChange
    \/ \E c \in Checkers : CheckStatus(c) \/ CheckerStep(c)
    \/ TakeEvents \/ Ask \/ ProcStep

SocSpec == SocInit /\ [][SocNext]_socVars

-----------------------------------------------------------------------------
(* Whatever order the three contexts store their samples in, and although a  *)
(* status read may hide a change from the event check, once the pins rest    *)
(* Card Services knows for good whether there is a card.                     *)
TruthIsTold == <>[](told = socPins)

=============================================================================
