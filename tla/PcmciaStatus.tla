---------------------------- MODULE PcmciaStatus ----------------------------
(***************************************************************************)
(* Status changes and power of the PCMCIA sockets under Linux 2.4          *)
(* (src/linux/kernel/drivers/pcmcia/sa1100_generic.c with the board's      *)
(* sa1100_jornada820.c).                                                   *)
(*                                                                         *)
(* The pins of a card change at any time; some changes raise an interrupt, *)
(* and a timer polls every two seconds. Both queue sa1100_pcmcia_task on   *)
(* keventd, which compares the pins with skt->k_state and calls Card       *)
(* Services with the differences. Card Services, in other processes, reads *)
(* the status, sets voltages and masks, and suspends sockets. The kernel   *)
(* is not preemptible: a process runs until it sleeps, and the task sleeps *)
(* only inside the Card Services callback.                                 *)
(***************************************************************************)
EXTENDS Naturals, Sequences, FiniteSets

CONSTANTS
    Sockets,      \* the PC Card socket and the CompactFlash socket
    Pins,         \* status pins, out of "detect", "ready", "bvd1", "bvd2"
    Vccs,         \* voltages (in 0.1 V) Card Services may ask for
    Allowed,      \* Allowed[s]: the voltages configure_socket knows for s
    Requests,     \* the socket states Card Services asks for
    MaxChanges    \* bound on changes of pins

ASSUME SocketsAssumption ==
    /\ IsFiniteSet(Sockets) /\ Sockets # {}
    /\ Pins \subseteq {"detect", "ready", "bvd1", "bvd2"}
    /\ Allowed \in [Sockets -> SUBSET Vccs] /\ \A s \in Sockets : 0 \in Allowed[s]
    /\ MaxChanges \in Nat

Events == {"DETECT", "READY", "BATDEAD", "BATWARN", "STSCHG"}

(* csc_mask, the SS_IOCARD flag and Vcc of a socket_state_t.                 *)
SocketState == [mask : SUBSET Events, iocard : BOOLEAN, vcc : Vccs]

ASSUME RequestsAssumption ==
    /\ Requests \subseteq SocketState
    /\ \A cs \in Requests : "DETECT" \in cs.mask   \* it always wants to know of cards

dead_socket == [mask |-> {"DETECT"}, iocard |-> FALSE, vcc |-> 0]

(* The order in which the task visits the sockets.                           *)
Orders == {q \in [1..Cardinality(Sockets) -> Sockets] :
              \A i, j \in DOMAIN q : q[i] = q[j] => i = j}

Order == CHOOSE q \in Orders : TRUE

(* memset(state, 0, sizeof(state)): what the task starts from.               *)
NoState == [s \in Sockets |-> {}]

VARIABLES
    pins,        \* PCSR: the pins asserted on each socket
    k_state,     \* skt->k_state: the pins at the last sampling
    cs_state,    \* skt->cs_state
    pccr,        \* PCCR: the voltage each socket gets
    handler,     \* skt->handler is set
    queued,      \* sa1100_pcmcia_task is on keventd's queue
    irq,         \* an interrupt of the SA1101 is pending
    pc,          \* the task: "idle", "read", "events", "detect" or "callback"
    state, i,    \* its locals: the sampled pins, the socket it has reached,
    all_events,  \* and whether a socket had events this time round
    present,     \* Card Services: it has handled an event for a card that is there
    seen,        \* history: the detection it read last, for an event or not
    changes      \* pin changes so far

chip == <<pins, irq, changes>>
sockets == <<cs_state, pccr, handler>>
locals == <<state, i, all_events>>
knows == <<present, seen>>
vars == <<chip, sockets, k_state, queued, pc, locals, knows>>

(* After sa1100_pcmcia_driver_init: k_state was sampled, no handler is set.  *)
Init ==
    /\ pins \in [Sockets -> SUBSET Pins]
    /\ k_state = pins
    /\ cs_state = [s \in Sockets |-> dead_socket]
    /\ pccr = [s \in Sockets |-> 0]
    /\ handler = [s \in Sockets |-> FALSE]
    /\ queued = TRUE /\ irq = FALSE
    /\ pc = "idle" /\ state = NoState /\ i = 1 /\ all_events = FALSE
    /\ present = [s \in Sockets |-> FALSE] /\ seen = present
    /\ changes = 0

-----------------------------------------------------------------------------
(* The card, the interrupt and the timer. *)

(* Only CDVALID and BVD1 raise interrupts, and on one edge only.             *)
PinChange(s, p) ==
    /\ changes < MaxChanges /\ changes' = changes + 1
    /\ pins' = [pins EXCEPT ![s] = IF p \in @ THEN @ \ {p} ELSE @ \cup {p}]
    /\ irq' \in IF p \in {"detect", "bvd1"} THEN {irq, TRUE} ELSE {irq}
    /\ UNCHANGED <<sockets, k_state, queued, pc, locals, knows>>

Interrupt ==
    /\ irq
    /\ irq' = FALSE /\ queued' = TRUE
    /\ UNCHANGED <<pins, changes, sockets, k_state, pc, locals, knows>>

(* Mutant: polling ends with the first callback.                             *)
PollUntilHandled ==
    /\ \A s \in Sockets : ~handler[s]
    /\ queued' = TRUE
    /\ UNCHANGED <<chip, sockets, k_state, pc, locals, knows>>

PollEvent ==
    /\ queued' = TRUE
    /\ UNCHANGED <<chip, sockets, k_state, pc, locals, knows>>

-----------------------------------------------------------------------------
(* sa1100_pcmcia_task_handler. *)

(* The event a change of pin p means on a socket with the flag SS_IOCARD, or *)
(* without.                                                                  *)
EventsOf(p, iocard) ==
    CASE p = "detect" -> {"DETECT"}
      [] p = "ready" -> IF iocard THEN {} ELSE {"READY"}
      [] p = "bvd1" -> IF iocard THEN {"STSCHG"} ELSE {"BATDEAD"}
      [] p = "bvd2" -> IF iocard THEN {} ELSE {"BATWARN"}

Changed(new, old) == (new \ old) \cup (old \ new)

(* sa1100_pcmcia_events, which also sets *prev_state to the new sampling.    *)
EventMask(new, old, cs) ==
    (UNION {EventsOf(p, cs.iocard) : p \in Changed(new, old)}) \cap cs.mask

RunTask ==
    /\ pc = "idle" /\ queued
    /\ queued' = FALSE /\ pc' = "read"
    /\ UNCHANGED <<chip, sockets, k_state, locals, knows>>

(* Mutant: the loop over the sockets starts before the first.                *)
ReadStateFromZero ==
    /\ pc = "read"
    /\ state' = pins /\ i' = 0 /\ all_events' = FALSE
    /\ pc' = "events"
    /\ UNCHANGED <<chip, sockets, k_state, queued, knows>>

(* socket_state: one read of PCSR for all sockets.                           *)
ReadState ==
    /\ pc = "read"
    /\ state' = pins /\ i' = 1 /\ all_events' = FALSE
    /\ pc' = "events"
    /\ UNCHANGED <<chip, sockets, k_state, queued, knows>>

(* One socket: its events, its new k_state, and the callback. k_state may be  *)
(* newer than state: get_status may have run while an earlier callback slept. *)
SocketEvents ==
    /\ pc = "events" /\ i <= Len(Order)
    /\ LET s == Order[i]
           e == EventMask(state[s], k_state[s], cs_state[s])
       IN  /\ k_state' = [k_state EXCEPT ![s] = state[s]]
           /\ all_events' = (all_events \/ e # {})
           /\ pc' = IF e = {} \/ ~handler[s] THEN "events"
                    ELSE IF "DETECT" \in e THEN "detect" ELSE "callback"
    /\ i' = i + 1
    /\ UNCHANGED <<chip, sockets, queued, state, knows>>

(* The pins of s, for Card Services: k_state[s] is what it was given.        *)
StatusRead(s) ==
    /\ k_state' = [k_state EXCEPT ![s] = pins[s]]
    /\ seen' = [seen EXCEPT ![s] = "detect" \in pins[s]]

(* Card Services handles SS_DETECT: it reads the status and takes the card   *)
(* for inserted or removed. It may sleep after that.                         *)
ParseDetect ==
    /\ pc = "detect"
    /\ pc' = "callback"
    /\ StatusRead(Order[i - 1])
    /\ present' = [present EXCEPT ![Order[i - 1]] = "detect" \in pins[Order[i - 1]]]
    /\ UNCHANGED <<chip, sockets, queued, locals>>

CallbackReturns ==
    /\ pc = "callback"
    /\ pc' = "events"
    /\ UNCHANGED <<chip, sockets, k_state, queued, locals, knows>>

(* while (all_events): read again after a round that had events.             *)
LoopEnd ==
    /\ pc = "events" /\ i > Len(Order)
    /\ pc' = IF all_events THEN "read" ELSE "idle"
    /\ state' = NoState /\ i' = 1 /\ all_events' = FALSE
    /\ UNCHANGED <<chip, sockets, k_state, queued, knows>>

-----------------------------------------------------------------------------
(* The operations of Card Services, by other processes or from the callback. *)

Idle == pc \in {"idle", "callback"}

(* register_callback, and the look at the card with which Card Services      *)
(* starts.                                                                   *)
RegisterCallback(s) ==
    /\ Idle /\ ~handler[s]
    /\ handler' = [handler EXCEPT ![s] = TRUE]
    /\ StatusRead(s)
    /\ present' = [present EXCEPT ![s] = "detect" \in pins[s]]
    /\ UNCHANGED <<chip, cs_state, pccr, queued, pc, locals>>

UnregisterCallback(s) ==
    /\ Idle /\ handler[s]
    /\ handler' = [handler EXCEPT ![s] = FALSE]
    /\ UNCHANGED <<chip, cs_state, pccr, k_state, queued, pc, locals, knows>>

(* Mutant: the sampling of both sockets is kept, and one is returned.        *)
GetStatusOfAll(s) ==
    /\ Idle
    /\ k_state' = pins
    /\ seen' = [seen EXCEPT ![s] = "detect" \in pins[s]]
    /\ UNCHANGED <<chip, sockets, queued, pc, locals, present>>

(* get_status outside of an event: Card Services does not look for a change  *)
(* of the card in it.                                                        *)
GetStatus(s) ==
    /\ Idle
    /\ StatusRead(s)
    /\ UNCHANGED <<chip, sockets, queued, pc, locals, present>>

(* SS_POWERON of the status get_status returns.                              *)
PowerOn(s) == cs_state[s].vcc # 0

(* Mutant: the state is remembered before configure_socket has accepted it.  *)
SetSocketFirst(s, cs) ==
    /\ Idle
    /\ cs_state' = [cs_state EXCEPT ![s] = cs]
    /\ pccr' = IF cs.vcc \in Allowed[s] THEN [pccr EXCEPT ![s] = cs.vcc] ELSE pccr
    /\ UNCHANGED <<chip, handler, k_state, queued, pc, locals, knows>>

(* set_socket: a voltage configure_socket does not know is refused before    *)
(* PCCR is written.                                                          *)
SetSocket(s, cs) ==
    /\ Idle
    /\ IF cs.vcc \in Allowed[s]
       THEN /\ pccr' = [pccr EXCEPT ![s] = cs.vcc]
            /\ cs_state' = [cs_state EXCEPT ![s] = cs]
       ELSE UNCHANGED <<pccr, cs_state>>
    /\ UNCHANGED <<chip, handler, k_state, queued, pc, locals, knows>>

(* sa1100_pcmcia_init and sa1100_pcmcia_suspend: a dead socket.              *)
InitOrSuspend(s) ==
    /\ Idle
    /\ cs_state' = [cs_state EXCEPT ![s] = dead_socket]
    /\ pccr' = [pccr EXCEPT ![s] = 0]
    /\ UNCHANGED <<chip, handler, k_state, queued, pc, locals, knows>>

-----------------------------------------------------------------------------
Task == RunTask \/ ReadState \/ SocketEvents \/ ParseDetect \/ CallbackReturns
        \/ LoopEnd

Next ==
    \/ \E s \in Sockets, p \in Pins : PinChange(s, p)
    \/ Interrupt \/ PollEvent
    \/ Task
    \/ \E s \in Sockets :
          \/ RegisterCallback(s) \/ UnregisterCallback(s)
          \/ GetStatus(s) \/ InitOrSuspend(s)
          \/ \E cs \in Requests : SetSocket(s, cs)

(* keventd runs what is queued; the timer fires every two seconds.           *)
Spec == Init /\ [][Next]_vars /\ WF_vars(Task) /\ WF_vars(PollEvent)

-----------------------------------------------------------------------------
(* Every variable has its type; the task never leaves the list of sockets.   *)
TypeOK ==
    /\ pins \in [Sockets -> SUBSET Pins] /\ k_state \in [Sockets -> SUBSET Pins]
    /\ cs_state \in [Sockets -> SocketState] /\ pccr \in [Sockets -> Vccs]
    /\ handler \in [Sockets -> BOOLEAN] /\ queued \in BOOLEAN /\ irq \in BOOLEAN
    /\ pc \in {"idle", "read", "events", "detect", "callback"}
    /\ state \in [Sockets -> SUBSET Pins] /\ i \in 1..Len(Order) + 1
    /\ all_events \in BOOLEAN /\ present \in [Sockets -> BOOLEAN]
    /\ seen \in [Sockets -> BOOLEAN]
    /\ changes \in 0..MaxChanges

(* What the driver compares the pins with is what Card Services saw last: no *)
(* insertion or removal goes into k_state without an event for it or a status *)
(* read of the same socket.                                                  *)
DetectSeen ==
    \A s \in Sockets :
       handler[s] /\ ~(pc = "detect" /\ Order[i - 1] = s)
         => (seen[s] <=> "detect" \in k_state[s])

(* The power a socket reports (SS_POWERON) is the power PCCR gives it, after *)
(* refused voltages, suspend and initialisation too.                         *)
PowerReported == \A s \in Sockets : PowerOn(s) <=> pccr[s] # 0

(* Once the pins are stable, Card Services has seen every card that is       *)
(* present, and has seen every other card go.                                *)
SeenSettles ==
    \A s \in Sockets : []<>(handler[s] => (seen[s] <=> "detect" \in pins[s]))

(* "We must pick up every transition": once the pins are stable, Card        *)
(* Services has handled an event for every card that came or went.           *)
PresenceSettles ==
    \A s \in Sockets : []<>(handler[s] => (present[s] <=> "detect" \in pins[s]))

(* Every pin, with an interrupt or without, is sampled again after it        *)
(* changed.                                                                  *)
PinsSampled == \A s \in Sockets : []<>(k_state[s] = pins[s])

=============================================================================
