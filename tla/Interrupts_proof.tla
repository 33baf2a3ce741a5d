-------------------------- MODULE Interrupts_proof --------------------------
(***************************************************************************)
(* Proofs about the interrupt handlers of UsbCtl, Ucb1x00 and Sa1101Irq,   *)
(* for every set of sources: the UDC driver and the bus stay together, and *)
(* what its clients see is the device of UsbDevice; the codec's thread     *)
(* listens; the chained handler of the SA1101 stays alive.                 *)
(***************************************************************************)
EXTENDS UsbCtl, Ucb1x00, Sa1101Irq, TLAPS

-----------------------------------------------------------------------------
(* UsbCtl. *)


SmNames == {"zombie", "zombieS", "default", "defaultS", "addr", "addrS", "config", "configS"}

Seen == {"not attached", "powered", "suspended", "default", "address", "configured"}

DevSet == [sm : SmNames, state : Seen, calls : {0, 1}]

(* The reported state is the one of the row of the table.                    *)
Coherent(d) == d \in DevSet /\ d.state = sm_state_to_device_state[d.sm]

Suspended(d) == d.state = "suspended"

Events == Sources \cup Requests

(* The rows of the table.                                                    *)
LEMMA Rows ==
    ASSUME NEW e \in Events
    PROVE
      /\ NextState("zombie", e) =
             CASE e = "suspend" -> "zombieS" [] e = "reset" -> "default" [] OTHER -> kError
      /\ NextState("zombieS", e) =
             CASE e = "reset" -> "default" [] e = "resume" -> "zombie" [] OTHER -> kError
      /\ NextState("default", e) =
             CASE e = "suspend" -> "defaultS" [] e = "resume" -> "default" [] e = "address" -> "addr" [] OTHER -> kError
      /\ NextState("defaultS", e) =
             CASE e = "reset" -> "default" [] e = "resume" -> "default" [] OTHER -> kError
      /\ NextState("addr", e) =
             CASE e = "suspend" -> "addrS" [] e = "reset" -> "default" [] e = "config" -> "config" [] OTHER -> kError
      /\ NextState("addrS", e) =
             CASE e = "reset" -> "default" [] e = "resume" -> "addr" [] OTHER -> kError
      /\ NextState("config", e) =
             CASE e = "suspend" -> "configS" [] e = "reset" -> "default" [] e = "deconfig" -> "addr" [] OTHER -> kError
      /\ NextState("configS", e) =
             CASE e = "reset" -> "default" [] e = "resume" -> "config" [] OTHER -> kError
BY DEF NextState, Events, Sources, Requests, kError, device_state_machine

(* What the states are reported as.                                          *)
LEMMA Reports ==
    /\ sm_state_to_device_state["zombie"] = "powered" /\ Before["zombie"] = "powered"
    /\ sm_state_to_device_state["zombieS"] = "suspended" /\ Before["zombieS"] = "powered"
    /\ sm_state_to_device_state["default"] = "default" /\ Before["default"] = "default"
    /\ sm_state_to_device_state["defaultS"] = "suspended" /\ Before["defaultS"] = "default"
    /\ sm_state_to_device_state["addr"] = "address" /\ Before["addr"] = "address"
    /\ sm_state_to_device_state["addrS"] = "suspended" /\ Before["addrS"] = "address"
    /\ sm_state_to_device_state["config"] = "configured" /\ Before["config"] = "configured"
    /\ sm_state_to_device_state["configS"] = "suspended" /\ Before["configS"] = "configured"
BY DEF sm_state_to_device_state, Before

(* The states of a suspended device.                                         *)
Asleep == {"zombieS", "defaultS", "addrS", "configS"}

(* The table reports "suspended" for the suspended rows and no other.        *)
LEMMA AsleepReports ==
    ASSUME NEW sm \in SmNames
    PROVE  /\ sm_state_to_device_state[sm] \in Seen /\ sm # kError
           /\ sm_state_to_device_state[sm] = "suspended" <=> sm \in Asleep
BY Reports DEF SmNames, Asleep, Seen, kError

(* An event is refused, or a suspend puts the device to sleep, a reset or a  *)
(* resume wakes it up, and a request finds it awake and leaves it awake.     *)
LEMMA Moves ==
    ASSUME NEW sm \in SmNames, NEW e \in Events
    PROVE
      \/ NextState(sm, e) = kError /\ e = "suspend" /\ sm \in Asleep
      \/ NextState(sm, e) = kError /\ e \in {"reset", "resume"} /\ sm \notin Asleep
      \/ NextState(sm, e) = kError /\ e \in Requests
      \/ NextState(sm, e) \in Asleep /\ e = "suspend"
      \/ NextState(sm, e) \in SmNames \ Asleep /\ e \in {"reset", "resume"}
      \/ NextState(sm, e) \in SmNames \ Asleep /\ e \in Requests /\ sm \notin Asleep
<1> USE DEF Asleep, Events, Sources, Requests
<1>1. CASE sm = "zombie"
  BY <1>1, Rows DEF SmNames
<1>2. CASE sm = "zombieS"
  BY <1>2, Rows DEF SmNames
<1>3. CASE sm = "default"
  BY <1>3, Rows DEF SmNames
<1>4. CASE sm = "defaultS"
  BY <1>4, Rows DEF SmNames
<1>5. CASE sm = "addr"
  BY <1>5, Rows DEF SmNames
<1>6. CASE sm = "addrS"
  BY <1>6, Rows DEF SmNames
<1>7. CASE sm = "config"
  BY <1>7, Rows DEF SmNames
<1>8. CASE sm = "configS"
  BY <1>8, Rows DEF SmNames
<1> QED
  BY <1>1, <1>2, <1>3, <1>4, <1>5, <1>6, <1>7, <1>8 DEF SmNames

(* One event, whatever the state: the device stays coherent; a reset or a    *)
(* resume wakes it up, a suspend puts it to sleep, and a request of the host *)
(* does neither.                                                             *)
LEMMA EventMoves ==
    ASSUME NEW d, Coherent(d), NEW e \in Events
    PROVE  /\ Coherent(OnEvent(d, e))
           /\ e \in {"reset", "resume"} => ~Suspended(OnEvent(d, e))
           /\ e = "suspend" => Suspended(OnEvent(d, e))
           /\ e \in Requests => (Suspended(OnEvent(d, e)) <=> Suspended(d))
<1> DEFINE n == NextState(d.sm, e)
           s == sm_state_to_device_state[n]
<1>1. d \in DevSet /\ d.state = sm_state_to_device_state[d.sm] /\ d.sm \in SmNames
  BY DEF Coherent, DevSet
<1>2. Suspended(d) <=> d.sm \in Asleep
  BY <1>1, AsleepReports DEF Suspended
<1>3. Asleep \subseteq SmNames /\ e \notin Requests \cap {"suspend", "reset", "resume"}
  BY DEF Asleep, SmNames, Events, Sources, Requests
<1>4. CASE n = kError
  <2>1. OnEvent(d, e) = d
    BY <1>4 DEF OnEvent
  <2>2. n \notin SmNames
    BY <1>4 DEF SmNames, kError
  <2>3. \/ e = "suspend" /\ d.sm \in Asleep
        \/ e \in {"reset", "resume"} /\ d.sm \notin Asleep
        \/ e \in Requests
    BY <1>1, <1>3, <2>2, Moves
  <2> QED
    BY <2>1, <2>3, <1>2, <1>3
<1>5. CASE n # kError
  <2>1. PICK c \in {0, 1} : OnEvent(d, e) = [sm |-> n, state |-> s, calls |-> c]
    BY <1>1, <1>5 DEF OnEvent, DevSet
  <2>2. /\ n \in SmNames
        /\ \/ n \in Asleep /\ e = "suspend"
           \/ n \notin Asleep /\ e \in {"reset", "resume"}
           \/ n \notin Asleep /\ e \in Requests /\ d.sm \notin Asleep
    BY <1>1, <1>3, <1>5, Moves
  <2>3. s \in Seen /\ (s = "suspended" <=> n \in Asleep)
    BY <2>2, AsleepReports
  <2> HIDE DEF n, s
  <2>4. Coherent(OnEvent(d, e)) /\ (Suspended(OnEvent(d, e)) <=> n \in Asleep)
    <3>1. s = sm_state_to_device_state[n]
      BY DEF s
    <3> QED
      BY <2>1, <2>2, <2>3, <3>1 DEF Coherent, DevSet, Suspended
  <2> QED
    BY <2>2, <2>4, <1>2, <1>3
<1> QED
  BY <1>4, <1>5

(* ... and what is seen of it is a step of UsbDevice, or none.               *)
LEMMA EventIsStep ==
    ASSUME Coherent(dev), NEW e \in Events, dev' = OnEvent(dev, e)
    PROVE  [Device!DeviceNext]_(Device!deviceVars)
<1>1. dev.sm \in SmNames /\ dev.state = sm_state_to_device_state[dev.sm]
  BY DEF Coherent, DevSet
<1> USE DEF OnEvent, NextState, kError, Events, Sources, Requests, Before,
        device_state_machine, sm_state_to_device_state,
        Device!DeviceNext, Device!deviceVars, Device!Suspend, Device!Resume,
        Device!Reset, Device!Addressed, Device!Configured, Device!Becomes
<1>2. CASE dev.sm = "zombie"
  BY <1>1, <1>2
<1>3. CASE dev.sm = "zombieS"
  BY <1>1, <1>3
<1>4. CASE dev.sm = "default"
  BY <1>1, <1>4
<1>5. CASE dev.sm = "defaultS"
  BY <1>1, <1>5
<1>6. CASE dev.sm = "addr"
  BY <1>1, <1>6
<1>7. CASE dev.sm = "addrS"
  BY <1>1, <1>7
<1>8. CASE dev.sm = "config"
  BY <1>1, <1>8
<1>9. CASE dev.sm = "configS"
  BY <1>1, <1>9
<1> QED
  BY <1>1, <1>2, <1>3, <1>4, <1>5, <1>6, <1>7, <1>8, <1>9 DEF SmNames

-----------------------------------------------------------------------------
(* Once somebody uses it the device is coherent; there is one request at a   *)
(* time, which says what the bus did last.                                   *)
Shape ==
    /\ dev \in DevSet /\ request \in Requests /\ bus \in {"active", "idle"}
    /\ client \in BOOLEAN /\ running \in BOOLEAN /\ heard \in BOOLEAN
    /\ client \/ running => Coherent(dev)
    /\ running => latched \in {{}, {"suspend"}, {"reset"}, {"resume"}, {"ep0"}}
    /\ running /\ latched = {"suspend"} => bus = "idle"
    /\ running /\ latched \in {{"reset"}, {"resume"}, {"ep0"}} => bus = "active"

(* The driver listens for what the bus can do next, and agrees with it on    *)
(* what it did.                                                              *)
Together ==
    running /\ heard =>
        /\ latched \in {{}, {"ep0"}} =>
               /\ Suspended(dev) <=> bus = "idle"
               /\ bus = "active" => "suspend" \notin masks
               /\ bus = "idle" => "reset" \notin masks /\ "resume" \notin masks
        /\ latched = {"suspend"} => ~Suspended(dev)

UdcInv == Shape /\ Together

(* The invariant holds at first.                                             *)
LEMMA UdcInitially == UdcInit => UdcInv
<1> SUFFICES ASSUME UdcInit PROVE UdcInv
  OBVIOUS
<1>1. dev \in DevSet
  BY DEF UdcInit, DevSet, Seen, SmNames
<1>2. request \in Requests /\ bus = "idle" /\ client = FALSE /\ running = FALSE /\ heard = FALSE
  BY DEF UdcInit
<1> QED
  BY <1>1, <1>2 DEF UdcInv, Shape, Together

(* The event an interrupt reports, the others being absent.                  *)
LEMMA OneEvent ==
    ASSUME Shape, OtherInterrupt
    PROVE  \/ latched = {"suspend"} /\ dev' = OnEvent(dev, "suspend")
           \/ latched = {"resume"} /\ dev' = OnEvent(dev, "resume")
           \/ latched = {"ep0"} /\ dev' = OnEvent(dev, request)
<1>1. latched \in {{"suspend"}, {"resume"}, {"ep0"}}
  BY DEF Shape, OtherInterrupt
<1>2. dev' = LET awake == OnEventIf(OnEventIf(dev, "resume"), "suspend")
             IN  IF "ep0" \in latched THEN OnEvent(awake, request) ELSE awake
  BY DEF OtherInterrupt
<1>3. CASE latched = {"suspend"}
  BY <1>2, <1>3 DEF OnEventIf
<1>4. CASE latched = {"resume"}
  BY <1>2, <1>4 DEF OnEventIf
<1>5. CASE latched = {"ep0"}
  BY <1>2, <1>5 DEF OnEventIf
<1> QED
  BY <1>1, <1>3, <1>4, <1>5

(* The invariant holds in every reachable state.                             *)
LEMMA UdcInductive ==
    ASSUME Prompt
    PROVE  UdcSpec => []UdcInv
<1>1. ASSUME UdcInv, [UdcNext]_udcVars PROVE UdcInv'
  <2> USE <1>1, Prompt DEF UdcInv, Shape, Together, Suspended
  <2>1. CASE BusReset
    BY <2>1 DEF BusReset, MayChange, Latch, Coherent
  <2>2. CASE BusIdles
    BY <2>2 DEF BusIdles, MayChange, Latch, Coherent
  <2>3. CASE BusResumes
    BY <2>3 DEF BusResumes, MayChange, Latch, Coherent
  <2>4. ASSUME NEW r \in Requests, HostRequest(r) PROVE UdcInv'
    BY <2>4 DEF HostRequest, MayChange, Coherent
  <2>5. CASE ResetInterrupt
    <3>1. Coherent(dev)' /\ ~Suspended(dev)'
      BY <2>5, EventMoves DEF ResetInterrupt, Events, Sources
    <3> QED
      BY <2>5, <3>1 DEF ResetInterrupt, Coherent
  <2>6. CASE OtherInterrupt
    <3>1. /\ running /\ latched' = {} /\ masks' = MasksAfter
          /\ heard' = (heard \/ "resume" \in latched)
          /\ UNCHANGED <<client, running, request, bus>> /\ Coherent(dev)
      BY <2>6 DEF OtherInterrupt
    <3>2. CASE latched = {"suspend"} /\ dev' = OnEvent(dev, "suspend")
      <4>1. Coherent(dev)' /\ Suspended(dev)'
        BY <3>1, <3>2, EventMoves DEF Events, Sources
      <4> QED
        BY <3>1, <3>2, <4>1 DEF MasksAfter, Coherent
    <3>3. CASE latched = {"resume"} /\ dev' = OnEvent(dev, "resume")
      <4>1. Coherent(dev)' /\ ~Suspended(dev)'
        BY <3>1, <3>3, EventMoves DEF Events, Sources
      <4> QED
        BY <3>1, <3>3, <4>1 DEF MasksAfter, Coherent
    <3>4. CASE latched = {"ep0"} /\ dev' = OnEvent(dev, request)
      <4>1. Coherent(dev)' /\ (Suspended(dev)' <=> Suspended(dev))
        BY <3>1, <3>4, EventMoves DEF Events
      <4> QED
        BY <3>1, <3>4, <4>1 DEF MasksAfter, Coherent
    <3> QED
      BY <2>6, <3>2, <3>3, <3>4, OneEvent
  <2>7. CASE Open
    <3>1. dev' = [dev EXCEPT !.sm = "zombieS", !.state = "suspended"]
      BY <2>7 DEF Open
    <3>2. Coherent(dev)'
      BY <3>1 DEF Coherent, DevSet, Seen, SmNames, sm_state_to_device_state
    <3> QED
      BY <2>7, <3>2 DEF Open, Coherent
  <2>8. CASE Start
    BY <2>8 DEF Start, Coherent
  <2>9. CASE Stop
    BY <2>9 DEF Stop, Coherent
  <2>10. CASE Close
    BY <2>10 DEF Close, Coherent
  <2>11. CASE UNCHANGED udcVars
    BY <2>11 DEF udcVars, Coherent
  <2> QED
    BY <2>1, <2>2, <2>3, <2>4, <2>5, <2>6, <2>7, <2>8, <2>9, <2>10, <2>11 DEF UdcNext
<1> QED
  BY UdcInitially, <1>1, PTL DEF UdcSpec

-----------------------------------------------------------------------------
(* Given that interrupts are served before the bus changes again, masking    *)
(* and unmasking suspend, resume and reset never lets the driver miss one.   *)
THEOREM DriverAndBusAgree ==
    ASSUME Prompt
    PROVE  UdcSpec => []BusAgrees
<1>1. UdcInv => BusAgrees
  BY DEF UdcInv, Together, Suspended, BusAgrees
<1> QED
  BY UdcInductive, <1>1, PTL

(* Every step of the driver is a step of the device UsbDevice promises, or   *)
(* leaves it as it is.                                                       *)
THEOREM UdcImplementsDevice ==
    ASSUME Prompt
    PROVE  UdcSpec => ImplementsDevice
<1>1. UdcInit => Device!DeviceInit
  <2> SUFFICES ASSUME UdcInit PROVE Device!DeviceInit
    OBVIOUS
  <2>1. dev.state = "not attached" /\ dev.calls = 0
    BY DEF UdcInit
  <2> QED
    BY <2>1 DEF Device!DeviceInit
<1>2. ASSUME UdcInv, [UdcNext]_udcVars
      PROVE  [Device!DeviceNext]_(Device!deviceVars)
  <2>1. CASE dev' = dev
    BY <2>1 DEF Device!deviceVars
  <2>2. CASE ResetInterrupt
    BY <1>2, <2>2, EventIsStep DEF UdcInv, Shape, ResetInterrupt, Events, Sources
  <2>3. CASE OtherInterrupt
    BY <1>2, <2>3, OneEvent, EventIsStep DEF UdcInv, Shape, OtherInterrupt, Events, Sources
  <2>4. CASE Open
    <3>1. dev' = [dev EXCEPT !.sm = "zombieS", !.state = "suspended"] /\ dev \in DevSet
      BY <1>2, <2>4 DEF Open, UdcInv, Shape
    <3> QED
      BY <3>1 DEF DevSet, Before, Device!DeviceNext, Device!Attach
  <2> QED
    BY <1>2, <2>1, <2>2, <2>3, <2>4
    DEF UdcNext, udcVars, BusReset, BusIdles, BusResumes, HostRequest, Start, Stop, Close
<1> QED
  BY UdcInductive, <1>1, <1>2, PTL DEF UdcSpec, ImplementsDevice, Device!DeviceSpec

-----------------------------------------------------------------------------
(* Ucb1x00. *)


(* The line announces what is pending, or something came too late.           *)
Announced == status # {} => edge \/ late

(* The thread keeps the interrupt off from the moment it is woken until it   *)
(* has declared itself asleep again, unless it was woken to end; what is     *)
(* pending was announced by an edge or is in the copy the thread will clear. *)
UcbInv ==
    /\ tpc \in {"schedule", "read", "clear", "handle", "top", "gone"}
    /\ irqOff \in BOOLEAN /\ asleep \in BOOLEAN /\ killed \in BOOLEAN
    /\ tpc = "schedule" /\ asleep => ~irqOff /\ Announced
    /\ tpc = "schedule" /\ ~asleep => killed \/ irqOff
    /\ tpc \in {"read", "clear"} => killed \/ irqOff
    /\ late \in BOOLEAN /\ (tpc = "clear" => status \subseteq isr \/ late)
    /\ tpc \in {"handle", "top"} => killed \/ (irqOff /\ Announced)
    /\ tpc = "top" => asleep \/ killed

(* The invariant holds in every reachable state.                             *)
LEMMA UcbInductive == UcbSpec => []UcbInv
<1>1. UcbInit => UcbInv
  BY DEF UcbInit, UcbInv, Announced
<1>2. ASSUME UcbInv, [UcbNext]_ucbVars PROVE UcbInv'
  <2> USE <1>2 DEF UcbInv, Announced, chipVars
  <2>1. ASSUME NEW i \in Irqs, Raise(i) PROVE UcbInv'
    BY <2>1 DEF Raise
  <2>2. CASE UcbIrq
    BY <2>2 DEF UcbIrq
  <2>3. CASE EnableIrq
    BY <2>3 DEF EnableIrq
  <2>4. CASE Exit
    BY <2>4 DEF Exit
  <2>5. CASE Scheduled
    BY <2>5 DEF Scheduled
  <2>6. CASE ReadStatus
    BY <2>6 DEF ReadStatus
  <2>7. CASE ClearStatus
    <3>1. status' # {} => late'
      BY <2>7 DEF ClearStatus
    <3> QED
      BY <2>7, <3>1 DEF ClearStatus
  <2>8. ASSUME NEW i \in Irqs, CallHandler(i) PROVE UcbInv'
    BY <2>8 DEF CallHandler
  <2>9. CASE PrepareToSleep
    BY <2>9 DEF PrepareToSleep
  <2>10. ASSUME NEW i \in Irqs, Runs,
                HookIrq(i) \/ FreeIrq(i) \/ EnableSource(i) \/ DisableSource(i)
         PROVE  UcbInv'
    <3>1. CASE EnableSource(i)
      <4>1. status' # {} => status # {}
        BY <3>1 DEF EnableSource
      <4> QED
        BY <2>10, <3>1, <4>1 DEF Runs, EnableSource
    <3>2. CASE HookIrq(i) \/ FreeIrq(i) \/ DisableSource(i)
      BY <2>10, <3>2 DEF Runs, HookIrq, FreeIrq, DisableSource
    <3> QED
      BY <2>10, <3>1, <3>2
  <2>11. CASE Runs /\ UcbResume
    BY <2>11 DEF Runs, UcbResume
  <2>12. CASE Runs /\ Kill
    BY <2>12 DEF Runs, Kill
  <2>13. CASE UNCHANGED ucbVars
    BY <2>13 DEF ucbVars
  <2> QED
    BY <2>1, <2>2, <2>3, <2>4, <2>5, <2>6, <2>7, <2>8, <2>9, <2>10, <2>11, <2>12, <2>13
    DEF UcbNext, UcbThread, UcbUser
<1> QED
  BY <1>1, <1>2, PTL DEF UcbSpec

(* Whatever sources are hooked, enabled, disabled and freed meanwhile, the   *)
(* thread never sleeps on an interrupt it left disabled, nor on a line that  *)
(* will not rise again unless a source raised between the read of the status *)
(* and its clearing.                                                         *)
THEOREM ThreadAlwaysListening == UcbSpec => []AlwaysListening
<1>1. UcbInv => AlwaysListening
  BY DEF UcbInv, Announced, AlwaysListening
<1> QED
  BY UcbInductive, <1>1, PTL

-----------------------------------------------------------------------------
(* What is pending has latched an edge until the chain is masked; from then  *)
(* on the handler alone has to find it, and leaves with nothing pending that *)
(* came before the look that ended its loop. An edge is latched only for     *)
(* something that is pending, so that the handler never returns early.       *)
ChainInv ==
    /\ hpc \in {"out", "first", "clear", "mask", "serve", "reclear", "exit"}
    /\ hpc = "out" => (gedr => intstat # {}) /\ (intstat # {} => gedr \/ missed)
    /\ hpc = "first" => intstat # {}
    /\ hpc \in {"clear", "mask"} => stat # {}
    /\ hpc \in {"out", "first", "clear", "mask"} => ~chainOff
    /\ hpc \in {"serve", "reclear", "exit"} => chainOff /\ ~gedr
    /\ hpc = "reclear" => (stat = {} /\ intstat # {} => missed)
    /\ hpc = "exit" => (intstat # {} => missed)

(* The invariant holds in every reachable state.                             *)
LEMMA ChainInductive ==
    ASSUME ~EdgesWhileMasked
    PROVE  ChainSpec => []ChainInv
<1>1. ChainInit => ChainInv
  BY DEF ChainInit, ChainInv
<1>2. ASSUME ChainInv, [ChainNext]_chainVars PROVE ChainInv'
  <2> USE <1>2 DEF ChainInv
  <2>1. ASSUME NEW i \in Ints, DeviceInt(i) PROVE ChainInv'
    BY <2>1 DEF DeviceInt
  <2>2. CASE EnterHandler
    BY <2>2 DEF EnterHandler
  <2>3. CASE FirstLook
    BY <2>3 DEF FirstLook
  <2>4. CASE FirstClear
    BY <2>4 DEF FirstClear
  <2>5. CASE MaskAndAck
    BY <2>5 DEF MaskAndAck
  <2>6. ASSUME NEW i \in Ints, Serve(i) PROVE ChainInv'
    BY <2>6 DEF Serve
  <2>7. CASE LookAgain
    BY <2>7 DEF LookAgain
  <2>8. CASE ClearAgain
    BY <2>8 DEF ClearAgain
  <2>9. CASE Unmask
    BY <2>9 DEF Unmask
  <2>10. CASE UNCHANGED chainVars
    BY <2>10 DEF chainVars
  <2> QED
    BY <2>1, <2>2, <2>3, <2>4, <2>5, <2>6, <2>7, <2>8, <2>9, <2>10 DEF ChainNext, ChainHandler
<1> QED
  BY <1>1, <1>2, PTL DEF ChainSpec

(* The handler of the chain never returns with the chain masked, nor with an *)
(* interrupt pending that no edge will announce, unless that one came after  *)
(* its last look and before the unmasking; given that GPIOs latch nothing    *)
(* while they are masked, as the driver's comment says.                      *)
THEOREM ChainStaysAlive ==
    ASSUME ~EdgesWhileMasked
    PROVE  ChainSpec => []ChainAlive
<1>1. ChainInv => ChainAlive
  BY DEF ChainInv, ChainAlive
<1> QED
  BY ChainInductive, <1>1, PTL

=============================================================================
