------------------------- MODULE PcmciaStatus_proof -------------------------
(***************************************************************************)
(* Proofs about PcmciaStatus, for every set of sockets, pins, voltages and *)
(* requests.                                                               *)
(***************************************************************************)
EXTENDS PcmciaStatus, FiniteSetTheorems, TLAPS

(* The task visits sockets, as many times as there are sockets.              *)
LEMMA OrderIsThere ==
    /\ Cardinality(Sockets) \in Nat
    /\ Order \in [1..Cardinality(Sockets) -> Sockets]
    /\ Len(Order) = Cardinality(Sockets)
    /\ Len(Order) \in Nat /\ 1 \in 1..Len(Order) + 1
    /\ \A n \in 1..Len(Order) : Order[n] \in Sockets
<1>1. Cardinality(Sockets) \in Nat /\ ExistsBijection(1..Cardinality(Sockets), Sockets)
  BY SocketsAssumption, FS_CardinalityType
<1>2. PICK q \in Bijection(1..Cardinality(Sockets), Sockets) : TRUE
  BY <1>1 DEF ExistsBijection
<1>3. q \in Orders
  <2>1. q \in [1..Cardinality(Sockets) -> Sockets] /\ IsInjective(q)
    BY <1>2 DEF Bijection, Injection
  <2> QED
    BY <2>1 DEF Orders, IsInjective
<1>4. Order \in Orders
  BY <1>3 DEF Order
<1>5. Order \in [1..Cardinality(Sockets) -> Sockets]
  BY <1>4 DEF Orders
<1>6. Len(Order) = Cardinality(Sockets)
  BY <1>1, <1>5
<1> QED
  BY <1>1, <1>5, <1>6

(* Card Services is always told of cards: the mask has DETECT in it, whatever *)
(* was refused, suspended or never set.                                      *)
DetectMasked == \A s \in Sockets : "DETECT" \in cs_state[s].mask

IInv == TypeOK /\ DetectMasked /\ PowerReported /\ DetectSeen

(* The socket whose events the task is at.                                   *)
AtSocket == pc = "detect" => i > 1

(* dead_socket is a state of a socket that listens for cards.                *)
LEMMA DeadSocket ==
    /\ dead_socket \in SocketState /\ "DETECT" \in dead_socket.mask
    /\ dead_socket.vcc = 0 /\ 0 \in Vccs
<1>1. 0 \in Vccs
  BY SocketsAssumption
<1> QED
  BY <1>1 DEF dead_socket, SocketState, Events

(* A change of the detection is an event for whoever wants to know.          *)
LEMMA DetectIsEvent ==
    ASSUME NEW cs \in SocketState, "DETECT" \in cs.mask,
           NEW new \in SUBSET Pins, NEW old \in SUBSET Pins,
           "DETECT" \notin EventMask(new, old, cs)
    PROVE  "detect" \in new <=> "detect" \in old
<1> DEFINE U == UNION {EventsOf(p, cs.iocard) : p \in Changed(new, old)}
<1>1. ASSUME "detect" \in Changed(new, old) PROVE "DETECT" \in U
  <2>1. "DETECT" \in EventsOf("detect", cs.iocard)
    BY DEF EventsOf
  <2>2. EventsOf("detect", cs.iocard) \in {EventsOf(p, cs.iocard) : p \in Changed(new, old)}
    BY <1>1
  <2> QED
    BY <2>1, <2>2
<1>2. EventMask(new, old, cs) = U \cap cs.mask
  BY DEF EventMask
<1> HIDE DEF U
<1>3. "detect" \notin Changed(new, old)
  BY <1>1, <1>2
<1> QED
  BY <1>3 DEF Changed

-----------------------------------------------------------------------------
(* The invariant holds at first.                                             *)
LEMMA StatusInitially == Init => IInv /\ AtSocket
<1> SUFFICES ASSUME Init PROVE IInv /\ AtSocket
  OBVIOUS
<1>1. pins \in [Sockets -> SUBSET Pins] /\ k_state = pins
  BY DEF Init
<1>2. cs_state \in [Sockets -> SocketState] /\ DetectMasked
  BY DeadSocket DEF Init, DetectMasked
<1>3. pccr \in [Sockets -> Vccs] /\ PowerReported
  BY DeadSocket DEF Init, PowerReported, PowerOn
<1>4. state \in [Sockets -> SUBSET Pins] /\ i \in 1..Len(Order) + 1
  BY OrderIsThere DEF Init, NoState
<1>5. TypeOK
  <2>1. /\ handler \in [Sockets -> BOOLEAN] /\ present \in [Sockets -> BOOLEAN]
        /\ seen \in [Sockets -> BOOLEAN]
    BY DEF Init
  <2>2. 0 \in 0..MaxChanges
    BY SocketsAssumption
  <2> QED
    BY <1>1, <1>2, <1>3, <1>4, <2>1, <2>2 DEF Init, TypeOK
<1>6. DetectSeen /\ AtSocket
  BY DEF Init, DetectSeen, AtSocket
<1> QED
  BY <1>2, <1>3, <1>5, <1>6 DEF IInv

(* Types, and where the task is, one action at a time.                       *)
LEMMA StatusTypes ==
    ASSUME TypeOK, AtSocket, [Next]_vars
    PROVE  TypeOK' /\ AtSocket'
<1> USE OrderIsThere DEF TypeOK, AtSocket, chip, sockets, locals, knows
<1>1. ASSUME NEW s \in Sockets, NEW p \in Pins, PinChange(s, p) PROVE TypeOK' /\ AtSocket'
  <2>1. \A P \in SUBSET Pins : P \ {p} \in SUBSET Pins /\ P \cup {p} \in SUBSET Pins
    OBVIOUS
  <2>2. pins' \in [Sockets -> SUBSET Pins]
    <3>1. CASE p \in pins[s]
      BY <1>1, <2>1, <3>1 DEF PinChange
    <3>2. CASE p \notin pins[s]
      BY <1>1, <2>1, <3>2 DEF PinChange
    <3> QED
      BY <3>1, <3>2
  <2>3. changes' \in 0..MaxChanges /\ irq' \in BOOLEAN
    <3>1. MaxChanges \in Nat /\ changes \in Nat /\ changes < MaxChanges
      BY <1>1, SocketsAssumption DEF PinChange
    <3>2. changes' = changes + 1
      BY <1>1 DEF PinChange
    <3>3. irq' \in BOOLEAN
      BY <1>1 DEF PinChange
    <3> QED
      BY <3>1, <3>2, <3>3
  <2> QED
    BY <1>1, <2>2, <2>3 DEF PinChange
<1>2. CASE Interrupt
  BY <1>2 DEF Interrupt
<1>3. CASE PollEvent
  BY <1>3 DEF PollEvent
<1>4. CASE RunTask
  BY <1>4 DEF RunTask
<1>5. CASE ReadState
  BY <1>5 DEF ReadState
<1>6. CASE SocketEvents
  BY <1>6 DEF SocketEvents
<1>7. CASE ParseDetect
  BY <1>7 DEF ParseDetect, StatusRead
<1>8. CASE CallbackReturns
  BY <1>8 DEF CallbackReturns
<1>9. CASE LoopEnd
  BY <1>9 DEF LoopEnd, NoState
<1>10. ASSUME NEW s \in Sockets, RegisterCallback(s) PROVE TypeOK' /\ AtSocket'
  BY <1>10 DEF RegisterCallback, StatusRead
<1>11. ASSUME NEW s \in Sockets, UnregisterCallback(s) PROVE TypeOK' /\ AtSocket'
  BY <1>11 DEF UnregisterCallback
<1>12. ASSUME NEW s \in Sockets, GetStatus(s) PROVE TypeOK' /\ AtSocket'
  BY <1>12 DEF GetStatus, StatusRead
<1>13. ASSUME NEW s \in Sockets, InitOrSuspend(s) PROVE TypeOK' /\ AtSocket'
  BY <1>13, DeadSocket DEF InitOrSuspend
<1>14. ASSUME NEW s \in Sockets, NEW cs \in Requests, SetSocket(s, cs)
       PROVE  TypeOK' /\ AtSocket'
  <2>1. cs \in SocketState /\ cs.vcc \in Vccs
    BY RequestsAssumption DEF SocketState
  <2> QED
    BY <1>14, <2>1 DEF SetSocket
<1>15. CASE UNCHANGED vars
  BY <1>15 DEF vars
<1> QED
  BY <1>1, <1>2, <1>3, <1>4, <1>5, <1>6, <1>7, <1>8, <1>9, <1>10, <1>11, <1>12, <1>13,
     <1>14, <1>15 DEF Next, Task

(* The masks and the power: only set_socket, init and suspend write them.    *)
LEMMA PowerKept ==
    ASSUME IInv, [Next]_vars
    PROVE  DetectMasked' /\ PowerReported'
<1> USE DEF IInv, TypeOK, DetectMasked, PowerReported, PowerOn
<1>1. ASSUME UNCHANGED <<cs_state, pccr>> PROVE DetectMasked' /\ PowerReported'
  BY <1>1
<1>2. ASSUME NEW s \in Sockets, InitOrSuspend(s) PROVE DetectMasked' /\ PowerReported'
  BY <1>2, DeadSocket DEF InitOrSuspend
<1>3. ASSUME NEW s \in Sockets, NEW cs \in Requests, SetSocket(s, cs)
      PROVE  DetectMasked' /\ PowerReported'
  <2>1. cs \in SocketState /\ "DETECT" \in cs.mask
    BY RequestsAssumption
  <2>2. CASE cs.vcc \in Allowed[s]
    BY <1>3, <2>1, <2>2 DEF SetSocket
  <2>3. CASE cs.vcc \notin Allowed[s]
    BY <1>3, <2>3, <1>1 DEF SetSocket
  <2> QED
    BY <2>2, <2>3
<1> QED
  BY <1>1, <1>2, <1>3
  DEF Next, Task, vars, sockets, PinChange, Interrupt, PollEvent, RunTask, ReadState,
      SocketEvents, ParseDetect, CallbackReturns, LoopEnd, RegisterCallback,
      UnregisterCallback, GetStatus

(* What Card Services saw last, through the rounds of the task.              *)
LEMMA SeenKept ==
    ASSUME IInv, AtSocket, [Next]_vars
    PROVE  DetectSeen'
<1> USE OrderIsThere DEF IInv, AtSocket, TypeOK, DetectSeen
<1>1. ASSUME UNCHANGED <<k_state, seen, handler>>, pc # "detect", pc' # "detect"
      PROVE  DetectSeen'
  BY <1>1
<1>2. ASSUME UNCHANGED <<k_state, seen, handler, pc, i>> PROVE DetectSeen'
  BY <1>2
<1>3. CASE SocketEvents
  <2> DEFINE s == Order[i]
             e == EventMask(state[s], k_state[s], cs_state[s])
  <2>1. /\ pc = "events" /\ i \in 1..Len(Order) /\ s \in Sockets
        /\ k_state' = [k_state EXCEPT ![s] = state[s]]
        /\ pc' = IF e = {} \/ ~handler[s] THEN "events"
                 ELSE IF "DETECT" \in e THEN "detect" ELSE "callback"
        /\ i' = i + 1 /\ UNCHANGED <<handler, seen>>
    BY <1>3 DEF SocketEvents, sockets, knows
  <2>2. cs_state[s] \in SocketState /\ "DETECT" \in cs_state[s].mask
    BY <2>1 DEF DetectMasked
  <2>3. "DETECT" \in e \/ ("detect" \in state[s] <=> "detect" \in k_state[s])
    BY <2>1, <2>2, DetectIsEvent
  <2> HIDE DEF e
  <2>4. Order'[i' - 1] = s
    BY <2>1 DEF Order, Orders
  <2> HIDE DEF s
  <2>5. ASSUME NEW t \in Sockets, handler'[t], ~(pc' = "detect" /\ s = t)
        PROVE  seen'[t] <=> "detect" \in k_state'[t]
    <3>1. CASE t # s
      BY <2>1, <2>5, <3>1
    <3>2. CASE t = s
      BY <2>1, <2>3, <2>5, <3>2
    <3> QED
      BY <3>1, <3>2
  <2> QED
    BY <2>4, <2>5
<1>4. CASE ParseDetect
  BY <1>4 DEF ParseDetect, StatusRead, sockets, locals
<1>5. ASSUME NEW s \in Sockets, RegisterCallback(s) PROVE DetectSeen'
  BY <1>5 DEF RegisterCallback, StatusRead, Idle, locals
<1>6. ASSUME NEW s \in Sockets, UnregisterCallback(s) PROVE DetectSeen'
  BY <1>6 DEF UnregisterCallback, Idle, locals, knows
<1>7. ASSUME NEW s \in Sockets, GetStatus(s) PROVE DetectSeen'
  BY <1>7 DEF GetStatus, StatusRead, Idle, sockets, locals
<1> QED
  BY <1>1, <1>2, <1>3, <1>4, <1>5, <1>6, <1>7
  DEF Next, Task, vars, chip, sockets, locals, knows, PinChange, Interrupt, PollEvent, RunTask,
      ReadState, CallbackReturns, LoopEnd, InitOrSuspend, SetSocket, Idle

(* The invariant holds in every reachable state.                             *)
LEMMA StatusInductive == Spec => [](IInv /\ AtSocket)
<1>1. ASSUME IInv /\ AtSocket, [Next]_vars PROVE (IInv /\ AtSocket)'
  BY <1>1, StatusTypes, PowerKept, SeenKept DEF IInv
<1> QED
  BY StatusInitially, <1>1, PTL DEF Spec

-----------------------------------------------------------------------------
(* The loop over the sockets stays on the list of sockets, and the driver    *)
(* only programs voltages that are known, whatever the callbacks do.         *)
THEOREM StatusTypeCorrect == Spec => []TypeOK
<1>1. IInv => TypeOK
  BY DEF IInv
<1> QED
  BY StatusInductive, <1>1, PTL

(* A socket reports power exactly when PCCR gives it some, also after a      *)
(* refused voltage, a suspend or the initialisation.                         *)
THEOREM PowerIsReported == Spec => []PowerReported
<1>1. IInv => PowerReported
  BY DEF IInv
<1> QED
  BY StatusInductive, <1>1, PTL

(* Between events, what the driver will compare the pins with is what Card   *)
(* Services was shown: k_state never swallows an insertion by itself.        *)
THEOREM DetectIsSeen == Spec => []DetectSeen
<1>1. IInv => DetectSeen
  BY DEF IInv
<1> QED
  BY StatusInductive, <1>1, PTL

=============================================================================
