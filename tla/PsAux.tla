------------------------------- MODULE PsAux --------------------------------
(***************************************************************************)
(* The /dev/psaux driver for the touch pad on the SA1101's PS/2 port       *)
(* (src/linux/kernel/drivers/char/j820_keyb.c).                            *)
(*                                                                         *)
(* The pad sends movement bytes and acknowledges every command byte; the   *)
(* driver filters the acknowledgements of its own commands and puts the    *)
(* rest into a ring, from which processes read. A section between          *)
(* spin_lock_irqsave and spin_unlock_irqrestore excludes the interrupt;    *)
(* the kernel is not preemptible, so a process gives up the processor only *)
(* where it sleeps: waiting for data, or inside request_irq. misc_open of   *)
(* the kernel calls open_aux with its semaphore held. The count of bytes   *)
(* after which a jammed port is left alone (10000) is left out.            *)
(***************************************************************************)
EXTENDS Naturals, Sequences, FiniteSets

CONSTANTS
    Procs,      \* processes that open the device
    None,       \* no process
    Moves,      \* the kinds of movement bytes the pad may send
    BufSize,    \* AUX_BUF_SIZE, a power of two
    MaxBytes,   \* bound on the bytes the pad sends
    MaxOpens,   \* bound on calls of open
    MaxWrites   \* bound on bytes written by processes

ASSUME BufSizeAssumption == BufSize \in Nat /\ BufSize >= 2
ASSUME BoundsAssumption ==
    /\ MaxBytes \in Nat \ {0} /\ MaxOpens \in Nat /\ MaxWrites \in Nat
    /\ Moves \subseteq {"move", "fa"} /\ None \notin Procs /\ IsFiniteSet(Procs)

(* A byte on the wire: its serial number, and what it is. "fa" is a movement *)
(* byte that happens to have the value of AUX_ACK.                           *)
Kinds == {"move", "fa", "ackDriver", "ackUser"}
Byte == [n : 1..MaxBytes, kind : Kinds]

NoByte == [n |-> 0, kind |-> "move"]

IsAck(b) == b.kind # "move"      \* scancode == AUX_ACK

VARIABLES
    rx,          \* KBDDATA, at most one byte while KBDSTAT_RXF
    hand,        \* scancode: the byte ms_wait has read and not handled yet
    last,        \* history: the byte handle_mouse_event was given last
    due,         \* commands the pad has not acknowledged yet
    sent,        \* number of bytes the pad has sent
    ena,         \* KBDCR_ENA
    irqOn,       \* IRQ_SA1101_TPRXINT has been requested
    buf, head, tail,            \* *queue
    aux_count,   \* opens of the device
    mouse_reply_expected,
    pc,          \* where each process is
    cmd,         \* the command a process is writing
    asleep,      \* processes in state TASK_INTERRUPTIBLE
    cpu,         \* the process that has the processor, None if any may
    opens, writes,              \* bounds
    got          \* history: the byte read last

input == <<rx, hand, last>>
pad == <<input, due, sent>>
queue == <<buf, head, tail>>
hist == <<opens, writes, got>>
vars == <<pad, ena, irqOn, queue, aux_count, mouse_reply_expected, pc, cmd,
          asleep, cpu, hist>>

Slots == 0..BufSize - 1

(* After psaux_init: the pad was enabled by detect_auxiliary_port and may    *)
(* have sent a byte; the last of the commands may wait for its answer.       *)
Init ==
    /\ \/ rx = <<>> /\ sent = 0
       \/ rx = <<[n |-> 1, kind |-> "move"]>> /\ sent = 1
    /\ \/ due = <<>> /\ mouse_reply_expected = 0
       \/ due = <<"ackDriver">> /\ mouse_reply_expected = 1
    /\ hand = <<>> /\ last = NoByte
    /\ ena = TRUE /\ irqOn = FALSE
    /\ buf = [i \in Slots |-> NoByte] /\ head = 0 /\ tail = 0
    /\ aux_count = 0
    /\ pc = [p \in Procs |-> "closed"] /\ cmd = [p \in Procs |-> "none"]
    /\ asleep = {} /\ cpu = None
    /\ opens = 0 /\ writes = 0 /\ got = NoByte

-----------------------------------------------------------------------------
(* The pad. *)

Send(k) ==
    /\ ena /\ rx = <<>> /\ sent < MaxBytes
    /\ sent' = sent + 1
    /\ rx' = <<[n |-> sent + 1, kind |-> k]>>
    /\ UNCHANGED <<hand, last>>

Move ==
    /\ \E k \in Moves : Send(k)
    /\ UNCHANGED <<due, ena, irqOn, queue, aux_count, mouse_reply_expected, pc, cmd,
                   asleep, cpu, hist>>

Acknowledge ==
    /\ due # <<>> /\ Send(Head(due)) /\ due' = Tail(due)
    /\ UNCHANGED <<ena, irqOn, queue, aux_count, mouse_reply_expected, pc, cmd,
                   asleep, cpu, hist>>

-----------------------------------------------------------------------------
(* handle_mouse_event. *)

(* Mutant: the mask is AUX_BUF_SIZE.                                         *)
IncMaskOff(i) == (i + 1) % (BufSize + 1)

Inc(i) == (i + 1) % BufSize

(* Mutant: a full ring is taken for an empty one.                            *)
EnqueueUnchecked(b) ==
    /\ buf' = [buf EXCEPT ![head] = b]
    /\ head' = Inc(head)
    /\ asleep' = {}
    /\ UNCHANGED tail

(* Mutant: the readers are woken up when the ring is full.                   *)
EnqueueWakesWhenFull(b) ==
    /\ buf' = [buf EXCEPT ![head] = b]
    /\ IF Inc(head) # tail
       THEN head' = Inc(head) /\ UNCHANGED asleep
       ELSE UNCHANGED head /\ asleep' = {}
    /\ UNCHANGED tail

(* A byte is stored at head; head moves, and readers wake up, unless the     *)
(* ring is full.                                                             *)
Enqueue(b) ==
    /\ buf' = [buf EXCEPT ![head] = b]
    /\ IF Inc(head) # tail
       THEN head' = Inc(head) /\ asleep' = {}
       ELSE UNCHANGED <<head, asleep>>
    /\ UNCHANGED tail

Swallowed(b) == mouse_reply_expected > 0 /\ IsAck(b)

HandleMouseEvent(b) ==
    /\ mouse_reply_expected' = IF Swallowed(b) THEN mouse_reply_expected - 1 ELSE 0
    /\ last' = b
    /\ IF ~Swallowed(b) /\ aux_count > 0
       THEN Enqueue(b)
       ELSE UNCHANGED <<queue, asleep>>

(* Mutant: the lock does not keep the interrupt out.                         *)
InterruptsOn == FALSE

(* kbd_controller_lock is held, with interrupts off.                         *)
Locked == \E p \in Procs : pc[p] \in {"wait1", "send", "wait2"}

(* The byte in KBDDATA, read and handled under the lock.                     *)
MouseInterrupt ==
    /\ irqOn /\ ~Locked
    /\ rx # <<>> /\ rx' = <<>> /\ HandleMouseEvent(Head(rx))
    /\ UNCHANGED <<hand, due, sent, ena, irqOn, aux_count, pc, cmd, cpu, hist>>

-----------------------------------------------------------------------------
(* aux_write_dev and aux_write_ack. *)

On(p, l) == pc[p] = l /\ cpu \in {None, p}

Goto(p, l) ==
    /\ pc' = [pc EXCEPT ![p] = l]
    /\ cpu' = IF l \in {"closed", "irq", "open", "sleep"} THEN None ELSE p

(* ms_wait reads what has come in, a byte at a time, until the port can take *)
(* one: it reads KBDDATA, ...                                                *)
Poll(p) ==
    /\ pc[p] \in {"wait1", "wait2"}
    /\ rx # <<>> /\ hand = <<>>
    /\ hand' = rx /\ rx' = <<>>
    /\ UNCHANGED <<last, due, sent, ena, irqOn, queue, aux_count, mouse_reply_expected, pc, cmd,
                   asleep, cpu, hist>>

(* ... and handles what it has read.                                         *)
Handle(p) ==
    /\ pc[p] \in {"wait1", "wait2"}
    /\ hand # <<>> /\ hand' = <<>> /\ HandleMouseEvent(Head(hand))
    /\ UNCHANGED <<rx, due, sent, ena, irqOn, aux_count, pc, cmd, cpu, hist>>

Polled(p) ==
    /\ pc[p] \in {"wait1", "wait2"} /\ rx = <<>> /\ hand = <<>>
    /\ Goto(p, CASE pc[p] = "wait1" -> "send"
                 [] pc[p] = "wait2" /\ cmd[p] = "disable" -> "off"
                 [] OTHER -> "open")
    /\ UNCHANGED <<pad, ena, irqOn, queue, aux_count, mouse_reply_expected, cmd, asleep, hist>>

(* KBDDATA = val, and for aux_write_ack mouse_reply_expected++, of a byte.   *)
SendCommand(p) ==
    /\ pc[p] = "send"
    /\ IF cmd[p] = "user"
       THEN /\ due' = Append(due, "ackUser")
            /\ Goto(p, "open")
            /\ UNCHANGED mouse_reply_expected
       ELSE /\ due' = Append(due, "ackDriver")
            /\ mouse_reply_expected' = (mouse_reply_expected + 1) % 256
            /\ Goto(p, "wait2")
    /\ UNCHANGED <<input, sent, ena, irqOn, queue, aux_count, cmd, asleep, hist>>

Command(p, c) == cmd' = [cmd EXCEPT ![p] = c] /\ Goto(p, "wait1")

-----------------------------------------------------------------------------
(* open_aux. *)

Opening == {p \in Procs : pc[p] \in {"irq", "enable", "first", "second"}}

Open(p) ==
    /\ On(p, "closed") /\ Opening = {} /\ opens < MaxOpens /\ opens' = opens + 1
    /\ aux_count' = aux_count + 1
    /\ IF aux_count > 0
       THEN Goto(p, "open") /\ UNCHANGED queue
       ELSE /\ head' = 0 /\ tail' = 0 /\ UNCHANGED buf
            /\ Goto(p, "irq")
    /\ UNCHANGED <<pad, ena, irqOn, mouse_reply_expected, cmd, asleep, writes, got>>

(* request_irq, which may sleep, and may fail.                               *)
RequestIrq(p) ==
    /\ On(p, "irq")
    /\ irqOn' = TRUE
    /\ ena' = FALSE
    /\ Goto(p, "enable")
    /\ UNCHANGED <<pad, queue, aux_count, mouse_reply_expected, cmd, asleep, hist>>

(* Mutant: the count is not taken back.                                      *)
RequestIrqFailsCounted(p) ==
    /\ On(p, "irq")
    /\ Goto(p, "closed")
    /\ UNCHANGED <<pad, ena, irqOn, queue, aux_count, mouse_reply_expected, cmd, asleep, hist>>

RequestIrqFails(p) ==
    /\ On(p, "irq")
    /\ aux_count' = aux_count - 1
    /\ Goto(p, "closed")
    /\ UNCHANGED <<pad, ena, irqOn, queue, mouse_reply_expected, cmd, asleep, hist>>

(* KBDCR = KBDCR_ENA, then a first 0xf4 nobody expects an answer to, then    *)
(* the same command again with aux_write_ack.                                *)
EnablePort(p) ==
    /\ On(p, "enable")
    /\ ena' = TRUE
    /\ Goto(p, "first")
    /\ UNCHANGED <<pad, irqOn, queue, aux_count, mouse_reply_expected, cmd, asleep, hist>>

EnableDevice(p) ==
    /\ On(p, "first")
    /\ due' = Append(due, "ackDriver")
    /\ Goto(p, "second")
    /\ UNCHANGED <<input, sent, ena, irqOn, queue, aux_count, mouse_reply_expected, cmd,
                   asleep, hist>>

EnableAgain(p) ==
    /\ On(p, "second")
    /\ Command(p, "enable")
    /\ UNCHANGED <<pad, ena, irqOn, queue, aux_count, mouse_reply_expected, asleep, hist>>

(* Mutant: the first close turns the device off.                             *)
ReleaseFirst(p) ==
    /\ On(p, "open")
    /\ aux_count' = aux_count - 1
    /\ Command(p, "disable")
    /\ UNCHANGED <<pad, ena, irqOn, queue, mouse_reply_expected, asleep, hist>>

(* release_aux.                                                              *)
Release(p) ==
    /\ On(p, "open")
    /\ aux_count' = aux_count - 1
    /\ IF aux_count = 1
       THEN Command(p, "disable")
       ELSE Goto(p, "closed") /\ UNCHANGED cmd
    /\ UNCHANGED <<pad, ena, irqOn, queue, mouse_reply_expected, asleep, hist>>

DisablePort(p) ==
    /\ On(p, "off")
    /\ ena' = FALSE /\ irqOn' = FALSE
    /\ Goto(p, "closed")
    /\ UNCHANGED <<pad, queue, aux_count, mouse_reply_expected, cmd, asleep, hist>>

-----------------------------------------------------------------------------
(* read_aux and write_aux. *)

queue_empty == head = tail

Read(p) ==
    /\ On(p, "open")
    /\ Goto(p, IF queue_empty THEN "prepare" ELSE "get")
    /\ UNCHANGED <<pad, ena, irqOn, queue, aux_count, mouse_reply_expected, cmd, asleep, hist>>

(* set_current_state(TASK_INTERRUPTIBLE), before the queue is looked at.     *)
Prepare(p) ==
    /\ On(p, "prepare")
    /\ asleep' = asleep \cup {p}
    /\ Goto(p, "check")
    /\ UNCHANGED <<pad, ena, irqOn, queue, aux_count, mouse_reply_expected, cmd, hist>>

Check(p) ==
    /\ On(p, "check")
    /\ IF queue_empty
       THEN Goto(p, "sleep") /\ UNCHANGED asleep
       ELSE Goto(p, "get") /\ asleep' = asleep \ {p}
    /\ UNCHANGED <<pad, ena, irqOn, queue, aux_count, mouse_reply_expected, cmd, hist>>

(* schedule() returns to a process that was woken up; it checks again.       *)
Wake(p) ==
    /\ On(p, "sleep") /\ p \notin asleep
    /\ Goto(p, "prepare")
    /\ UNCHANGED <<pad, ena, irqOn, queue, aux_count, mouse_reply_expected, cmd, asleep, hist>>

(* A signal ends the wait; the read returns -ERESTARTSYS.                    *)
Signal(p) ==
    /\ On(p, "sleep")
    /\ asleep' = asleep \ {p}
    /\ Goto(p, IF queue_empty THEN "open" ELSE "get")
    /\ UNCHANGED <<pad, ena, irqOn, queue, aux_count, mouse_reply_expected, cmd, hist>>

(* get_from_queue, one byte of the read.                                     *)
GetFromQueue(p) ==
    /\ On(p, "get") /\ ~queue_empty
    /\ got' = buf[tail]
    /\ tail' = Inc(tail)
    /\ Goto(p, "open")
    /\ UNCHANGED <<pad, ena, irqOn, buf, head, aux_count, mouse_reply_expected, cmd,
                   asleep, opens, writes>>

Write(p) ==
    /\ On(p, "open") /\ writes < MaxWrites /\ writes' = writes + 1
    /\ Command(p, "user")
    /\ UNCHANGED <<pad, ena, irqOn, queue, aux_count, mouse_reply_expected, asleep,
                   opens, got>>

-----------------------------------------------------------------------------
Step(p) ==
    \/ Poll(p) \/ Handle(p) \/ Polled(p) \/ SendCommand(p)
    \/ RequestIrq(p) \/ RequestIrqFails(p)
    \/ EnablePort(p) \/ EnableDevice(p) \/ EnableAgain(p) \/ DisablePort(p)
    \/ Prepare(p) \/ Check(p) \/ Wake(p) \/ GetFromQueue(p)

Next ==
    \/ Move \/ Acknowledge \/ MouseInterrupt
    \/ \E p \in Procs : \/ Step(p) \/ Open(p) \/ Release(p) \/ Read(p)
                        \/ Signal(p) \/ Write(p)

Spec == Init /\ [][Next]_vars

(* The interrupt is served and a process that can run runs.                  *)
FairSpec ==
    /\ Spec
    /\ WF_vars(MouseInterrupt) /\ WF_vars(Acknowledge)
    /\ \A p \in Procs : SF_vars(Step(p))

-----------------------------------------------------------------------------
(* Every variable has its type.                                              *)
TypeOK ==
    /\ rx \in Seq(Byte) /\ Len(rx) <= 1 /\ hand \in Seq(Byte) /\ Len(hand) <= 1
    /\ last \in Byte \cup {NoByte}
    /\ due \in Seq({"ackDriver", "ackUser"}) /\ sent \in 0..MaxBytes
    /\ ena \in BOOLEAN /\ irqOn \in BOOLEAN
    /\ buf \in [Slots -> Byte \cup {NoByte}] /\ head \in Slots /\ tail \in Slots
    /\ aux_count \in Nat /\ mouse_reply_expected \in 0..255
    /\ cmd \in [Procs -> {"none", "user", "enable", "disable"}]
    /\ asleep \subseteq Procs /\ cpu \in Procs \cup {None}
    /\ opens \in 0..MaxOpens /\ writes \in 0..MaxWrites
    /\ got \in Byte \cup {NoByte}
    /\ pc \in [Procs -> {"closed", "irq", "enable", "first", "second", "open", "off",
                         "wait1", "send", "wait2", "prepare", "check", "sleep", "get"}]

(* The bytes that wait in the ring, oldest first.                            *)
Count == (head + BufSize - tail) % BufSize
Contents == [k \in 1..Count |-> buf[(tail + k - 1) % BufSize]]

(* The ring is a bounded queue of BufSize - 1 bytes. Of the bytes that reach *)
(* handle_mouse_event while the device is open, none is lost but those that  *)
(* find the ring full and those that look like an answer to a command; only  *)
(* the first open throws bytes away that wait.                               *)
Answers == {b \in Byte : IsAck(b)}
Fifo == INSTANCE BoundedFifo
    WITH Bytes <- Byte, Capacity <- BufSize - 1, fifo <- Contents, users <- aux_count
ImplementsFifo == Fifo!FifoSpec

(* Bytes are read in the order the pad sent them, and none twice, whether    *)
(* the interrupt took them from the port or ms_wait in a process that sends. *)
ReadInOrder == [][got' # got => got'.n > got.n]_vars

(* aux_count is the number of processes that have the device open or are     *)
(* opening it, whatever request_irq returned to whom.                        *)
Closing(p) ==
    pc[p] = "off" \/ (pc[p] \in {"wait1", "send", "wait2"} /\ cmd[p] = "disable")
CountsOpens == aux_count = Cardinality({p \in Procs : pc[p] # "closed" /\ ~Closing(p)})

(* A process whose open succeeded has the port enabled and its interrupt     *)
(* requested, whoever else opens, fails to open or closes the device.        *)
OpenIsServed ==
    \A p \in Procs : pc[p] \in {"open", "prepare", "check", "sleep", "get"} => ena /\ irqOn

(* A reader does not sleep on while bytes wait: the state is set before the  *)
(* queue is looked at, so a byte between the look and schedule() wakes it.   *)
ReaderWakes ==
    \A p \in Procs : (pc[p] = "sleep" /\ ~queue_empty) ~> (pc[p] # "sleep" \/ queue_empty)

(* The acknowledgement of a command the driver sent is not movement data:    *)
(* the driver expects it, and no process reads it.                           *)
AckIsExpected == got.kind # "ackDriver"

=============================================================================
