---------------------------- MODULE PsAux_proof -----------------------------
(***************************************************************************)
(* Proofs about PsAux, for any processes, any size of the ring and all     *)
(* bounds.                                                                 *)
(***************************************************************************)
EXTENDS PsAux, FiniteSetTheorems, SequenceTheorems, TLAPS

-----------------------------------------------------------------------------
(* The ring. *)

(* Indices of the ring never exceed its size twice: one subtraction is all   *)
(* the mask does.                                                            *)
LEMMA Wraps ==
    ASSUME NEW a \in Nat, a < 2 * BufSize
    PROVE  a % BufSize = IF a < BufSize THEN a ELSE a - BufSize
<1> DEFINE q == a \div BufSize
           r == a % BufSize
<1>1. q \in Int /\ r \in Int /\ 0 <= r /\ r < BufSize /\ a = BufSize * q + r
  BY BufSizeAssumption, SMT
<1>2. CASE q <= -1
  <2>1. BufSize * q <= BufSize * (-1)
    BY <1>1, <1>2, BufSizeAssumption, SMT
  <2> QED
    BY <1>1, <2>1, BufSizeAssumption, SMT
<1>3. CASE q = 0
  BY <1>1, <1>3, BufSizeAssumption, SMT
<1>4. CASE q = 1
  BY <1>1, <1>4, BufSizeAssumption, SMT
<1>5. CASE q >= 2
  <2>1. BufSize * q >= BufSize * 2
    BY <1>1, <1>5, BufSizeAssumption, SMT
  <2> QED
    BY <1>1, <2>1, BufSizeAssumption, SMT
<1> QED
  BY <1>1, <1>2, <1>3, <1>4, <1>5, SMT

(* The slot of the k-th byte that waits when the oldest is in slot t.        *)
Slot(t, k) == (t + k) % BufSize

(* The number of bytes from slot t up to slot h.                             *)
Filled(h, t) == (h + BufSize - t) % BufSize

(* The arithmetic modulo the size of the ring, without modulo.               *)
LEMMA Ring ==
    ASSUME NEW h \in Slots, NEW t \in Slots
    PROVE  /\ Inc(h) = IF h + 1 = BufSize THEN 0 ELSE h + 1
           /\ Filled(h, t) = IF h >= t THEN h - t ELSE h + BufSize - t
           /\ \A k \in Slots :
                 Slot(t, k) = IF t + k < BufSize THEN t + k ELSE t + k - BufSize
<1>1. /\ h \in Nat /\ t \in Nat /\ h < BufSize /\ t < BufSize /\ BufSize \in Nat
  BY BufSizeAssumption, SMT DEF Slots
<1>2. Inc(h) = IF h + 1 = BufSize THEN 0 ELSE h + 1
  BY <1>1, Wraps, SMT DEF Inc
<1>3. Filled(h, t) = IF h >= t THEN h - t ELSE h + BufSize - t
  <2>1. h + BufSize - t \in Nat /\ h + BufSize - t < 2 * BufSize
    BY <1>1, SMT
  <2> QED
    BY <1>1, <2>1, Wraps, SMT DEF Filled
<1>4. ASSUME NEW k \in Slots
      PROVE  Slot(t, k) = IF t + k < BufSize THEN t + k ELSE t + k - BufSize
  <2>1. t + k \in Nat /\ t + k < 2 * BufSize
    BY <1>1, SMT DEF Slots
  <2> QED
    BY <1>1, <2>1, Wraps, SMT DEF Slot
<1> QED
  BY <1>2, <1>3, <1>4

(* A byte put into a ring that is not full is the last one that waits, and   *)
(* moves no other.                                                           *)
LEMMA PutInRing ==
    ASSUME NEW h \in Slots, NEW t \in Slots, Inc(h) # t
    PROVE  /\ Inc(h) \in Slots
           /\ Filled(Inc(h), t) = Filled(h, t) + 1
           /\ Filled(h, t) \in Nat /\ Filled(h, t) < BufSize - 1
           /\ Slot(t, Filled(h, t)) = h
<1>1. Inc(h) \in Slots
  BY Ring, BufSizeAssumption, SMT DEF Slots
<1>2. Filled(h, t) \in Slots
  BY Ring, BufSizeAssumption, SMT DEF Slots
<1> DEFINE i == Inc(h)
           n == Filled(h, t)
           m == Filled(i, t)
<1>3. /\ i = (IF h + 1 = BufSize THEN 0 ELSE h + 1)
      /\ n = (IF h >= t THEN h - t ELSE h + BufSize - t)
      /\ Slot(t, n) = (IF t + n < BufSize THEN t + n ELSE t + n - BufSize)
  BY <1>2, Ring
<1>4. m = (IF i >= t THEN i - t ELSE i + BufSize - t)
  BY <1>1, Ring
<1>5. h \in Nat /\ t \in Nat /\ h < BufSize /\ t < BufSize /\ i # t /\ BufSize \in Nat
  BY BufSizeAssumption, SMT DEF Slots
<1> HIDE DEF i, n, m
<1>6. m = n + 1 /\ n < BufSize - 1 /\ Slot(t, n) = h
  BY <1>3, <1>4, <1>5, SMT
<1> QED
  BY <1>1, <1>2, <1>6, SMT DEF Slots, i, n, m

(* A ring is full when one slot is left.                                     *)
LEMMA FullRing ==
    ASSUME NEW h \in Slots, NEW t \in Slots, Inc(h) = t
    PROVE  Filled(h, t) = BufSize - 1
<1> DEFINE n == Filled(h, t)
<1>1. /\ t = (IF h + 1 = BufSize THEN 0 ELSE h + 1)
      /\ n = (IF h >= t THEN h - t ELSE h + BufSize - t)
  BY Ring
<1>2. h \in Nat /\ h < BufSize /\ BufSize \in Nat /\ BufSize >= 2
  BY BufSizeAssumption, SMT DEF Slots
<1> HIDE DEF n
<1>3. n = BufSize - 1
  BY <1>1, <1>2, SMT
<1> QED
  BY <1>3 DEF n

(* The slot the next byte goes to holds none of those that wait.             *)
LEMMA HeadIsFree ==
    ASSUME NEW h \in Slots, NEW t \in Slots, NEW k \in Nat, k < Filled(h, t)
    PROVE  Slot(t, k) \in Slots \ {h}
<1> DEFINE n == Filled(h, t)
           i == Slot(t, k)
<1>1. k \in Slots
  BY Ring, BufSizeAssumption, SMT DEF Slots
<1>2. /\ n = (IF h >= t THEN h - t ELSE h + BufSize - t)
      /\ i = (IF t + k < BufSize THEN t + k ELSE t + k - BufSize)
  BY <1>1, Ring
<1>3. /\ h \in Nat /\ t \in Nat /\ h < BufSize /\ t < BufSize /\ BufSize \in Nat
      /\ k < n
  BY BufSizeAssumption, SMT DEF Slots
<1> HIDE DEF n, i
<1>4. i \in Nat /\ i < BufSize /\ i # h
  BY <1>2, <1>3, SMT
<1> QED
  BY <1>3, <1>4, SMT DEF Slots, i

(* Taking the oldest byte makes the next one the oldest.                     *)
LEMMA GetFromRing ==
    ASSUME NEW h \in Slots, NEW t \in Slots, h # t
    PROVE  /\ Inc(t) \in Slots
           /\ Filled(h, t) \in Nat \ {0}
           /\ Filled(h, Inc(t)) = Filled(h, t) - 1
           /\ \A k \in Nat : k + 1 < Filled(h, t) => Slot(Inc(t), k) = Slot(t, k + 1)
<1>1. Inc(t) \in Slots
  BY Ring, BufSizeAssumption, SMT DEF Slots
<1>2. Filled(h, t) \in Nat \ {0}
  BY Ring, BufSizeAssumption, SMT DEF Slots
<1>3. Filled(h, Inc(t)) = Filled(h, t) - 1
  <2> DEFINE i == Inc(t)
             n == Filled(h, t)
             m == Filled(h, i)
  <2>1. /\ i = (IF t + 1 = BufSize THEN 0 ELSE t + 1)
        /\ n = (IF h >= t THEN h - t ELSE h + BufSize - t)
        /\ m = (IF h >= i THEN h - i ELSE h + BufSize - i)
    BY <1>1, Ring
  <2>2. h \in Nat /\ t \in Nat /\ h < BufSize /\ t < BufSize /\ BufSize \in Nat
    BY BufSizeAssumption, SMT DEF Slots
  <2> HIDE DEF i, n, m
  <2>3. m = n - 1
    BY <2>1, <2>2, SMT
  <2> QED
    BY <2>3 DEF i, n, m
<1>4. ASSUME NEW k \in Nat, k + 1 < Filled(h, t)
      PROVE  Slot(Inc(t), k) = Slot(t, k + 1)
  <2>1. k \in Slots /\ k + 1 \in Slots
    BY <1>4, Ring, BufSizeAssumption, SMT DEF Slots
  <2> QED
    BY <1>1, <2>1, Ring, BufSizeAssumption, SMT DEF Slots
<1> QED
  BY <1>1, <1>2, <1>3, <1>4

-----------------------------------------------------------------------------
(* Processes: where they are, what they have of the device. *)

Labels == {"closed", "irq", "enable", "first", "second", "open", "off",
           "wait1", "send", "wait2", "prepare", "check", "sleep", "get"}
Resting == {"closed", "irq", "open", "sleep"}
Commands == {"none", "user", "enable", "disable"}

ProcVars == <<pc, cmd, cpu, aux_count, ena, irqOn>>

ProcTypes ==
    /\ pc \in [Procs -> Labels] /\ cmd \in [Procs -> Commands]
    /\ cpu \in Procs \cup {None} /\ aux_count \in Nat
    /\ ena \in BOOLEAN /\ irqOn \in BOOLEAN

(* A process has the processor exactly where it does not sleep.              *)
Placed == \A p \in Procs : cpu = p <=> pc[p] \notin Resting

Commanding(p) == pc[p] \in {"wait1", "send", "wait2"}

(* Whoever turns the device on or off has it for himself.                    *)
Sole(p) ==
    \/ pc[p] \in {"irq", "enable", "first", "second", "off"}
    \/ Commanding(p) /\ cmd[p] \in {"enable", "disable"}
Lonely == \A p \in Procs : Sole(p) => \A q \in Procs \ {p} : pc[q] = "closed"

(* Who has the interrupt, and who has the port as well.                      *)
Served ==
    \A p \in Procs :
        /\ pc[p] = "enable" => irqOn
        /\ pc[p] \in {"first", "second", "open", "prepare", "check", "sleep", "get"}
               => ena /\ irqOn
        /\ Commanding(p) /\ cmd[p] # "disable" => ena /\ irqOn

IsUser(p) == pc[p] # "closed" /\ ~Closing(p)
Users == {p \in Procs : IsUser(p)}

ProcInv == ProcTypes /\ Placed /\ Lonely /\ Served /\ CountsOpens

(* Those who have the device open are finitely many.                         *)
LEMMA UsersFinite == IsFiniteSet(Users) /\ CountsOpens = (aux_count = Cardinality(Users))
<1>1. Users \subseteq Procs /\ IsFiniteSet(Procs)
  BY BoundsAssumption DEF Users
<1> QED
  BY <1>1, FS_Subset DEF CountsOpens, Users, IsUser

(* What the count says of the users.                                         *)
LEMMA CountTells ==
    ASSUME CountsOpens
    PROVE  /\ aux_count \in Nat
           /\ \A p \in Procs : IsUser(p) => aux_count > 0
           /\ aux_count = 0 <=> \A p \in Procs : ~IsUser(p)
           /\ aux_count = 1 => \A p, q \in Procs : IsUser(p) /\ IsUser(q) => p = q
<1>1. IsFiniteSet(Users) /\ aux_count = Cardinality(Users)
  BY UsersFinite
<1>2. aux_count \in Nat
  BY <1>1, FS_CardinalityType
<1>3. aux_count = 0 <=> Users = {}
  BY <1>1, FS_EmptySet
<1>4. aux_count = 1 <=> \E x : Users = {x}
  BY <1>1, FS_Singleton
<1>5. ASSUME aux_count = 1 PROVE \A p, q \in Procs : IsUser(p) /\ IsUser(q) => p = q
  <2>1. PICK x : Users = {x}
    BY <1>4, <1>5
  <2> QED
    BY <2>1 DEF Users
<1>6. aux_count = 0 <=> \A p \in Procs : ~IsUser(p)
  BY <1>3 DEF Users
<1>7. ASSUME NEW p \in Procs, IsUser(p) PROVE aux_count > 0
  <2>1. aux_count # 0
    BY <1>6, <1>7
  <2> QED
    BY <1>2, <2>1, SMT
<1> QED
  BY <1>2, <1>5, <1>6, <1>7

(* A step in which one process joins, leaves, or stays what it was.          *)
LEMMA CountStep ==
    ASSUME CountsOpens, NEW p \in Procs,
           \A q \in Procs \ {p} : pc'[q] = pc[q] /\ cmd'[q] = cmd[q],
           \/ (IsUser(p)' <=> IsUser(p)) /\ aux_count' = aux_count
           \/ ~IsUser(p) /\ IsUser(p)' /\ aux_count' = aux_count + 1
           \/ IsUser(p) /\ ~IsUser(p)' /\ aux_count' = aux_count - 1
    PROVE  CountsOpens'
<1>1. \A q \in Procs \ {p} : IsUser(q)' <=> IsUser(q)
  BY DEF IsUser, Closing
<1>2. IsFiniteSet(Users) /\ aux_count = Cardinality(Users)
  BY UsersFinite
<1>3. CountsOpens' = (aux_count' = Cardinality(Users'))
  BY DEF CountsOpens, Users, IsUser
<1>4. CASE (IsUser(p)' <=> IsUser(p)) /\ aux_count' = aux_count
  <2>1. Users' = Users
    BY <1>1, <1>4 DEF Users
  <2> QED
    BY <1>2, <1>3, <1>4, <2>1
<1>5. CASE ~IsUser(p) /\ IsUser(p)' /\ aux_count' = aux_count + 1
  <2>1. Users' = Users \cup {p} /\ p \notin Users
    BY <1>1, <1>5 DEF Users
  <2>2. Cardinality(Users \cup {p}) = Cardinality(Users) + 1
    BY <1>2, <2>1, FS_AddElement
  <2> QED
    BY <1>2, <1>3, <1>5, <2>1, <2>2
<1>6. CASE IsUser(p) /\ ~IsUser(p)' /\ aux_count' = aux_count - 1
  <2>1. Users' = Users \ {p} /\ p \in Users
    BY <1>1, <1>6 DEF Users
  <2>2. Cardinality(Users \ {p}) = Cardinality(Users) - 1
    BY <1>2, <2>1, FS_RemoveElement
  <2> QED
    BY <1>2, <1>3, <1>6, <2>1, <2>2
<1> QED
  BY <1>4, <1>5, <1>6

(* Every step of a process keeps what is known of the processes.             *)
LEMMA PolledPlaced ==
    ASSUME ProcInv, NEW p \in Procs, Polled(p)
    PROVE  ProcInv'
<1> USE DEF ProcInv
<1>1. ProcTypes'
  BY CountTells, BoundsAssumption, SMT DEF Polled, On, Goto, ProcTypes, Labels, Commands, IsUser, Closing
<1>2. Placed'
  BY BoundsAssumption, SMT DEF Polled, On, Goto, ProcTypes, Labels, Commands, Placed, Resting
<1>3. Lonely'
  BY CountTells, BoundsAssumption, SMT DEF Polled, On, Goto, ProcTypes, Labels, Placed, Resting, Lonely,
     Sole, Commanding, IsUser, Closing
<1>4. Served'
  BY BoundsAssumption, SMT DEF Polled, On, Goto, ProcTypes, Labels, Placed, Resting, Lonely, Sole,
     Commanding, Served
<1>5. CountsOpens'
  BY CountStep, SMT DEF Polled, On, Goto, ProcTypes, Labels, Lonely, Sole, Commanding, IsUser, Closing
<1> QED
  BY <1>1, <1>2, <1>3, <1>4, <1>5

(* SendCommand keeps what is known of the processes.                         *)
LEMMA SendCommandPlaced ==
    ASSUME ProcInv, NEW p \in Procs, SendCommand(p)
    PROVE  ProcInv'
<1> USE DEF ProcInv
<1>1. ProcTypes'
  BY CountTells, BoundsAssumption, SMT DEF SendCommand, Goto, ProcTypes, Labels, Commands, IsUser, Closing
<1>2. Placed'
  BY BoundsAssumption, SMT DEF SendCommand, Goto, ProcTypes, Labels, Commands, Placed, Resting
<1>3. Lonely'
  BY CountTells, BoundsAssumption, SMT DEF SendCommand, Goto, ProcTypes, Labels, Placed, Resting, Lonely,
     Sole, Commanding, IsUser, Closing
<1>4. Served'
  BY BoundsAssumption, SMT DEF SendCommand, Goto, ProcTypes, Labels, Placed, Resting, Lonely, Sole,
     Commanding, Served
<1>5. CountsOpens'
  BY CountStep, SMT DEF SendCommand, Goto, ProcTypes, Labels, Lonely, Sole, Commanding, IsUser, Closing
<1> QED
  BY <1>1, <1>2, <1>3, <1>4, <1>5

(* RequestIrq keeps what is known of the processes.                          *)
LEMMA RequestIrqPlaced ==
    ASSUME ProcInv, NEW p \in Procs, RequestIrq(p)
    PROVE  ProcInv'
<1> USE DEF ProcInv
<1>1. ProcTypes'
  <2>1. ena' \in BOOLEAN /\ irqOn' \in BOOLEAN
    BY DEF RequestIrq, ProcTypes
  <2>2. pc' \in [Procs -> Labels] /\ cpu' \in Procs \cup {None}
    BY SMT DEF RequestIrq, On, Goto, ProcTypes, Labels
  <2>3. cmd' = cmd /\ aux_count' = aux_count
    BY DEF RequestIrq
  <2> QED
    BY <2>1, <2>2, <2>3 DEF ProcTypes
<1>2. Placed'
  BY BoundsAssumption, SMT DEF RequestIrq, On, Goto, ProcTypes, Labels, Commands, Placed, Resting
<1>3. Lonely'
  BY CountTells, BoundsAssumption, SMT DEF RequestIrq, On, Goto, ProcTypes, Labels, Placed, Resting, Lonely,
     Sole, Commanding, IsUser, Closing
<1>4. Served'
  BY BoundsAssumption, SMT DEF RequestIrq, On, Goto, ProcTypes, Labels, Placed, Resting, Lonely, Sole,
     Commanding, Served
<1>5. CountsOpens'
  BY CountStep, SMT DEF RequestIrq, On, Goto, ProcTypes, Labels, Lonely, Sole, Commanding, IsUser, Closing
<1> QED
  BY <1>1, <1>2, <1>3, <1>4, <1>5

(* RequestIrqFails leaves its process where it says, and the others in       *)
(* place.                                                                    *)
LEMMA RequestIrqFailsPlaced ==
    ASSUME ProcInv, NEW p \in Procs, RequestIrqFails(p)
    PROVE  ProcInv'
<1> USE DEF ProcInv
<1>1. ProcTypes'
  BY CountTells, BoundsAssumption, SMT DEF RequestIrqFails, On, Goto, ProcTypes, Labels, Commands, IsUser, Closing
<1>2. Placed'
  BY BoundsAssumption, SMT DEF RequestIrqFails, On, Goto, ProcTypes, Labels, Commands, Placed, Resting
<1>3. Lonely'
  BY CountTells, BoundsAssumption, SMT DEF RequestIrqFails, On, Goto, ProcTypes, Labels, Placed, Resting, Lonely,
     Sole, Commanding, IsUser, Closing
<1>4. Served'
  BY BoundsAssumption, SMT DEF RequestIrqFails, On, Goto, ProcTypes, Labels, Placed, Resting, Lonely, Sole,
     Commanding, Served
<1>5. CountsOpens'
  BY CountStep, SMT DEF RequestIrqFails, On, Goto, ProcTypes, Labels, Lonely, Sole, Commanding, IsUser, Closing
<1> QED
  BY <1>1, <1>2, <1>3, <1>4, <1>5

(* EnablePort keeps what is known of the processes.                          *)
LEMMA EnablePortPlaced ==
    ASSUME ProcInv, NEW p \in Procs, EnablePort(p)
    PROVE  ProcInv'
<1> USE DEF ProcInv
<1>1. ProcTypes'
  BY CountTells, BoundsAssumption, SMT DEF EnablePort, On, Goto, ProcTypes, Labels, Commands, IsUser, Closing
<1>2. Placed'
  BY BoundsAssumption, SMT DEF EnablePort, On, Goto, ProcTypes, Labels, Commands, Placed, Resting
<1>3. Lonely'
  BY CountTells, BoundsAssumption, SMT DEF EnablePort, On, Goto, ProcTypes, Labels, Placed, Resting, Lonely,
     Sole, Commanding, IsUser, Closing
<1>4. Served'
  BY BoundsAssumption, SMT DEF EnablePort, On, Goto, ProcTypes, Labels, Placed, Resting, Lonely, Sole,
     Commanding, Served
<1>5. CountsOpens'
  BY CountStep, SMT DEF EnablePort, On, Goto, ProcTypes, Labels, Lonely, Sole, Commanding, IsUser, Closing
<1> QED
  BY <1>1, <1>2, <1>3, <1>4, <1>5

(* EnableDevice keeps what is known of the processes.                        *)
LEMMA EnableDevicePlaced ==
    ASSUME ProcInv, NEW p \in Procs, EnableDevice(p)
    PROVE  ProcInv'
<1> USE DEF ProcInv
<1>1. ProcTypes'
  BY CountTells, BoundsAssumption, SMT DEF EnableDevice, On, Goto, ProcTypes, Labels, Commands, IsUser, Closing
<1>2. Placed'
  BY BoundsAssumption, SMT DEF EnableDevice, On, Goto, ProcTypes, Labels, Commands, Placed, Resting
<1>3. Lonely'
  BY CountTells, BoundsAssumption, SMT DEF EnableDevice, On, Goto, ProcTypes, Labels, Placed, Resting, Lonely,
     Sole, Commanding, IsUser, Closing
<1>4. Served'
  BY BoundsAssumption, SMT DEF EnableDevice, On, Goto, ProcTypes, Labels, Placed, Resting, Lonely, Sole,
     Commanding, Served
<1>5. CountsOpens'
  BY CountStep, SMT DEF EnableDevice, On, Goto, ProcTypes, Labels, Lonely, Sole, Commanding, IsUser, Closing
<1> QED
  BY <1>1, <1>2, <1>3, <1>4, <1>5

(* EnableAgain keeps what is known of the processes.                         *)
LEMMA EnableAgainPlaced ==
    ASSUME ProcInv, NEW p \in Procs, EnableAgain(p)
    PROVE  ProcInv'
<1> USE DEF ProcInv
<1>1. ProcTypes'
  BY CountTells, BoundsAssumption, SMT DEF EnableAgain, On, Goto, Command, ProcTypes, Labels, Commands, IsUser, Closing
<1>2. Placed'
  BY BoundsAssumption, SMT DEF EnableAgain, On, Goto, Command, ProcTypes, Labels, Commands, Placed, Resting
<1>3. Lonely'
  BY CountTells, BoundsAssumption, SMT DEF EnableAgain, On, Goto, Command, ProcTypes, Labels, Placed, Resting, Lonely,
     Sole, Commanding, IsUser, Closing
<1>4. Served'
  BY BoundsAssumption, SMT DEF EnableAgain, On, Goto, Command, ProcTypes, Labels, Placed, Resting, Lonely, Sole,
     Commanding, Served
<1>5. CountsOpens'
  BY CountStep, SMT DEF EnableAgain, On, Goto, Command, ProcTypes, Labels, Lonely, Sole, Commanding, IsUser, Closing
<1> QED
  BY <1>1, <1>2, <1>3, <1>4, <1>5

(* DisablePort keeps what is known of the processes.                         *)
LEMMA DisablePortPlaced ==
    ASSUME ProcInv, NEW p \in Procs, DisablePort(p)
    PROVE  ProcInv'
<1> USE DEF ProcInv
<1>1. ProcTypes'
  <2>1. ena' \in BOOLEAN /\ irqOn' \in BOOLEAN
    BY DEF DisablePort, ProcTypes
  <2>2. pc' \in [Procs -> Labels] /\ cpu' \in Procs \cup {None}
    BY SMT DEF DisablePort, On, Goto, ProcTypes, Labels
  <2>3. cmd' = cmd /\ aux_count' = aux_count
    BY DEF DisablePort
  <2> QED
    BY <2>1, <2>2, <2>3 DEF ProcTypes
<1>2. Placed'
  BY BoundsAssumption, SMT DEF DisablePort, On, Goto, ProcTypes, Labels, Commands, Placed, Resting
<1>3. Lonely'
  BY CountTells, BoundsAssumption, SMT DEF DisablePort, On, Goto, ProcTypes, Labels, Placed, Resting, Lonely,
     Sole, Commanding, IsUser, Closing
<1>4. Served'
  BY BoundsAssumption, SMT DEF DisablePort, On, Goto, ProcTypes, Labels, Placed, Resting, Lonely, Sole,
     Commanding, Served
<1>5. CountsOpens'
  BY CountStep, SMT DEF DisablePort, On, Goto, ProcTypes, Labels, Lonely, Sole, Commanding, IsUser, Closing
<1> QED
  BY <1>1, <1>2, <1>3, <1>4, <1>5

(* Prepare keeps what is known of the processes.                             *)
LEMMA PreparePlaced ==
    ASSUME ProcInv, NEW p \in Procs, Prepare(p)
    PROVE  ProcInv'
<1> USE DEF ProcInv
<1>1. ProcTypes'
  BY CountTells, BoundsAssumption, SMT DEF Prepare, On, Goto, ProcTypes, Labels, Commands, IsUser, Closing
<1>2. Placed'
  BY BoundsAssumption, SMT DEF Prepare, On, Goto, ProcTypes, Labels, Commands, Placed, Resting
<1>3. Lonely'
  BY CountTells, BoundsAssumption, SMT DEF Prepare, On, Goto, ProcTypes, Labels, Placed, Resting, Lonely,
     Sole, Commanding, IsUser, Closing
<1>4. Served'
  BY BoundsAssumption, SMT DEF Prepare, On, Goto, ProcTypes, Labels, Placed, Resting, Lonely, Sole,
     Commanding, Served
<1>5. CountsOpens'
  BY CountStep, SMT DEF Prepare, On, Goto, ProcTypes, Labels, Lonely, Sole, Commanding, IsUser, Closing
<1> QED
  BY <1>1, <1>2, <1>3, <1>4, <1>5

(* Check keeps what is known of the processes.                               *)
LEMMA CheckPlaced ==
    ASSUME ProcInv, NEW p \in Procs, Check(p)
    PROVE  ProcInv'
<1> USE DEF ProcInv
<1>1. ProcTypes'
  BY CountTells, BoundsAssumption, SMT DEF Check, On, Goto, ProcTypes, Labels, Commands, IsUser, Closing
<1>2. Placed'
  BY BoundsAssumption, SMT DEF Check, On, Goto, ProcTypes, Labels, Commands, Placed, Resting
<1>3. Lonely'
  BY CountTells, BoundsAssumption, SMT DEF Check, On, Goto, ProcTypes, Labels, Placed, Resting, Lonely,
     Sole, Commanding, IsUser, Closing
<1>4. Served'
  BY BoundsAssumption, SMT DEF Check, On, Goto, ProcTypes, Labels, Placed, Resting, Lonely, Sole,
     Commanding, Served
<1>5. CountsOpens'
  BY CountStep, SMT DEF Check, On, Goto, ProcTypes, Labels, Lonely, Sole, Commanding, IsUser, Closing
<1> QED
  BY <1>1, <1>2, <1>3, <1>4, <1>5

(* Wake keeps what is known of the processes.                                *)
LEMMA WakePlaced ==
    ASSUME ProcInv, NEW p \in Procs, Wake(p)
    PROVE  ProcInv'
<1> USE DEF ProcInv
<1>1. ProcTypes'
  BY CountTells, BoundsAssumption, SMT DEF Wake, On, Goto, ProcTypes, Labels, Commands, IsUser, Closing
<1>2. Placed'
  BY BoundsAssumption, SMT DEF Wake, On, Goto, ProcTypes, Labels, Commands, Placed, Resting
<1>3. Lonely'
  BY CountTells, BoundsAssumption, SMT DEF Wake, On, Goto, ProcTypes, Labels, Placed, Resting, Lonely,
     Sole, Commanding, IsUser, Closing
<1>4. Served'
  BY BoundsAssumption, SMT DEF Wake, On, Goto, ProcTypes, Labels, Placed, Resting, Lonely, Sole,
     Commanding, Served
<1>5. CountsOpens'
  BY CountStep, SMT DEF Wake, On, Goto, ProcTypes, Labels, Lonely, Sole, Commanding, IsUser, Closing
<1> QED
  BY <1>1, <1>2, <1>3, <1>4, <1>5

(* GetFromQueue keeps what is known of the processes.                        *)
LEMMA GetFromQueuePlaced ==
    ASSUME ProcInv, NEW p \in Procs, GetFromQueue(p)
    PROVE  ProcInv'
<1> USE DEF ProcInv
<1>1. ProcTypes'
  BY CountTells, BoundsAssumption, SMT DEF GetFromQueue, On, Goto, ProcTypes, Labels, Commands, IsUser, Closing
<1>2. Placed'
  BY BoundsAssumption, SMT DEF GetFromQueue, On, Goto, ProcTypes, Labels, Commands, Placed, Resting
<1>3. Lonely'
  BY CountTells, BoundsAssumption, SMT DEF GetFromQueue, On, Goto, ProcTypes, Labels, Placed, Resting, Lonely,
     Sole, Commanding, IsUser, Closing
<1>4. Served'
  BY BoundsAssumption, SMT DEF GetFromQueue, On, Goto, ProcTypes, Labels, Placed, Resting, Lonely, Sole,
     Commanding, Served
<1>5. CountsOpens'
  BY CountStep, SMT DEF GetFromQueue, On, Goto, ProcTypes, Labels, Lonely, Sole, Commanding, IsUser, Closing
<1> QED
  BY <1>1, <1>2, <1>3, <1>4, <1>5

(* Open keeps what is known of the processes.                                *)
LEMMA OpenPlaced ==
    ASSUME ProcInv, NEW p \in Procs, Open(p)
    PROVE  ProcInv'
<1> USE DEF ProcInv
<1>1. ProcTypes'
  BY CountTells, BoundsAssumption, SMT DEF Open, On, Goto, Opening, ProcTypes, Labels, Commands, IsUser, Closing
<1>2. Placed'
  BY BoundsAssumption, SMT DEF Open, On, Goto, Opening, ProcTypes, Labels, Commands, Placed, Resting
<1>3. Lonely'
  BY CountTells, BoundsAssumption, SMT DEF Open, On, Goto, Opening, ProcTypes, Labels, Placed, Resting, Lonely,
     Sole, Commanding, IsUser, Closing
<1>4. Served'
  <2>1. ASSUME aux_count > 0 PROVE ena /\ irqOn
    <3>1. PICK q \in Procs : IsUser(q)
      BY <2>1, CountTells, SMT
    <3>2. pc[q] \in {"open", "prepare", "check", "sleep", "get"}
      BY <3>1, BoundsAssumption, SMT DEF Open, On, Opening, ProcTypes, Labels, Placed, Resting,
         IsUser, Closing
    <3> QED
      BY <3>2, Zenon DEF Served
  <2> QED
    BY <2>1, BoundsAssumption, SMT DEF Open, On, Goto, Opening, ProcTypes, Labels, Placed,
       Resting, Lonely, Sole, Commanding, Served
<1>5. CountsOpens'
  BY CountStep, SMT DEF Open, On, Goto, Opening, ProcTypes, Labels, Lonely, Sole, Commanding, IsUser, Closing
<1> QED
  BY <1>1, <1>2, <1>3, <1>4, <1>5

(* Release keeps what is known of the processes.                             *)
LEMMA ReleasePlaced ==
    ASSUME ProcInv, NEW p \in Procs, Release(p)
    PROVE  ProcInv'
<1> USE DEF ProcInv
<1>1. ProcTypes'
  BY CountTells, BoundsAssumption, SMT DEF Release, On, Goto, Command, ProcTypes, Labels, Commands, IsUser, Closing
<1>2. Placed'
  BY BoundsAssumption, SMT DEF Release, On, Goto, Command, ProcTypes, Labels, Commands, Placed, Resting
<1>3. Lonely'
  BY CountTells, BoundsAssumption, SMT DEF Release, On, Goto, Command, ProcTypes, Labels, Placed, Resting, Lonely,
     Sole, Commanding, IsUser, Closing
<1>4. Served'
  BY BoundsAssumption, SMT DEF Release, On, Goto, Command, ProcTypes, Labels, Placed, Resting, Lonely, Sole,
     Commanding, Served
<1>5. CountsOpens'
  BY CountStep, SMT DEF Release, On, Goto, Command, ProcTypes, Labels, Lonely, Sole, Commanding, IsUser, Closing
<1> QED
  BY <1>1, <1>2, <1>3, <1>4, <1>5

(* Read keeps what is known of the processes.                                *)
LEMMA ReadPlaced ==
    ASSUME ProcInv, NEW p \in Procs, Read(p)
    PROVE  ProcInv'
<1> USE DEF ProcInv
<1>1. ProcTypes'
  BY CountTells, BoundsAssumption, SMT DEF Read, On, Goto, ProcTypes, Labels, Commands, IsUser, Closing
<1>2. Placed'
  BY BoundsAssumption, SMT DEF Read, On, Goto, ProcTypes, Labels, Commands, Placed, Resting
<1>3. Lonely'
  BY CountTells, BoundsAssumption, SMT DEF Read, On, Goto, ProcTypes, Labels, Placed, Resting, Lonely,
     Sole, Commanding, IsUser, Closing
<1>4. Served'
  BY BoundsAssumption, SMT DEF Read, On, Goto, ProcTypes, Labels, Placed, Resting, Lonely, Sole,
     Commanding, Served
<1>5. CountsOpens'
  BY CountStep, SMT DEF Read, On, Goto, ProcTypes, Labels, Lonely, Sole, Commanding, IsUser, Closing
<1> QED
  BY <1>1, <1>2, <1>3, <1>4, <1>5

(* Signal keeps what is known of the processes.                              *)
LEMMA SignalPlaced ==
    ASSUME ProcInv, NEW p \in Procs, Signal(p)
    PROVE  ProcInv'
<1> USE DEF ProcInv
<1>1. ProcTypes'
  BY CountTells, BoundsAssumption, SMT DEF Signal, On, Goto, ProcTypes, Labels, Commands, IsUser, Closing
<1>2. Placed'
  BY BoundsAssumption, SMT DEF Signal, On, Goto, ProcTypes, Labels, Commands, Placed, Resting
<1>3. Lonely'
  BY CountTells, BoundsAssumption, SMT DEF Signal, On, Goto, ProcTypes, Labels, Placed, Resting, Lonely,
     Sole, Commanding, IsUser, Closing
<1>4. Served'
  BY BoundsAssumption, SMT DEF Signal, On, Goto, ProcTypes, Labels, Placed, Resting, Lonely, Sole,
     Commanding, Served
<1>5. CountsOpens'
  BY CountStep, SMT DEF Signal, On, Goto, ProcTypes, Labels, Lonely, Sole, Commanding, IsUser, Closing
<1> QED
  BY <1>1, <1>2, <1>3, <1>4, <1>5

(* Write keeps what is known of the processes.                               *)
LEMMA WritePlaced ==
    ASSUME ProcInv, NEW p \in Procs, Write(p)
    PROVE  ProcInv'
<1> USE DEF ProcInv
<1>1. ProcTypes'
  BY CountTells, BoundsAssumption, SMT DEF Write, On, Goto, Command, ProcTypes, Labels, Commands, IsUser, Closing
<1>2. Placed'
  BY BoundsAssumption, SMT DEF Write, On, Goto, Command, ProcTypes, Labels, Commands, Placed, Resting
<1>3. Lonely'
  BY CountTells, BoundsAssumption, SMT DEF Write, On, Goto, Command, ProcTypes, Labels, Placed, Resting, Lonely,
     Sole, Commanding, IsUser, Closing
<1>4. Served'
  BY BoundsAssumption, SMT DEF Write, On, Goto, Command, ProcTypes, Labels, Placed, Resting, Lonely, Sole,
     Commanding, Served
<1>5. CountsOpens'
  BY CountStep, SMT DEF Write, On, Goto, Command, ProcTypes, Labels, Lonely, Sole, Commanding, IsUser, Closing
<1> QED
  BY <1>1, <1>2, <1>3, <1>4, <1>5

-----------------------------------------------------------------------------
(* Bytes: the types of what holds them, and how the ring changes. *)

DataTypes ==
    /\ rx \in Seq(Byte) /\ Len(rx) <= 1 /\ hand \in Seq(Byte) /\ Len(hand) <= 1
    /\ last \in Byte \cup {NoByte}
    /\ due \in Seq({"ackDriver", "ackUser"}) /\ sent \in 0..MaxBytes
    /\ buf \in [Slots -> Byte \cup {NoByte}] /\ head \in Slots /\ tail \in Slots
    /\ mouse_reply_expected \in 0..255 /\ asleep \subseteq Procs
    /\ opens \in 0..MaxOpens /\ writes \in 0..MaxWrites
    /\ got \in Byte \cup {NoByte}

(* A byte of the pad arrives in an empty port, and is the next one.          *)
LEMMA SendTypes ==
    ASSUME DataTypes, NEW k \in Kinds, Send(k)
    PROVE  /\ rx' \in Seq(Byte) /\ Len(rx') <= 1 /\ sent' \in 0..MaxBytes
           /\ rx' # <<>> /\ rx'[1].n = sent + 1 /\ sent' = sent + 1
           /\ UNCHANGED <<hand, last>>
<1>1. sent + 1 \in 1..MaxBytes
  BY BoundsAssumption, SMT DEF DataTypes, Send
<1>2. [n |-> sent + 1, kind |-> k] \in Byte
  BY <1>1 DEF Byte
<1> QED
  BY <1>1, <1>2, SMT DEF Send

(* The port and the driver hold one byte, or none.                           *)
LEMMA OneByte ==
    ASSUME NEW q \in Seq(Byte), Len(q) <= 1
    PROVE  /\ q # <<>> => Head(q) = q[1] /\ q[1] \in Byte
           /\ <<>> \in Seq(Byte) /\ Len(<<>>) <= 1
BY EmptySeq, SMT

(* handle_mouse_event keeps the types.                                       *)
LEMMA HandleTypes ==
    ASSUME DataTypes, NEW b \in Byte, HandleMouseEvent(b)
    PROVE  /\ last' \in Byte \cup {NoByte}
           /\ buf' \in [Slots -> Byte \cup {NoByte}] /\ head' \in Slots /\ tail' \in Slots
           /\ mouse_reply_expected' \in 0..255 /\ asleep' \subseteq Procs
<1>1. last' \in Byte \cup {NoByte}
  BY DEF HandleMouseEvent
<1>2. mouse_reply_expected' \in 0..255
  BY SMT DEF HandleMouseEvent, DataTypes, Swallowed
<1>3. CASE ~Swallowed(b) /\ aux_count > 0
  <2>1. Enqueue(b)
    BY <1>3 DEF HandleMouseEvent
  <2>2. Inc(head) \in Slots
    BY PutInRing DEF DataTypes
  <2> QED
    BY <1>1, <1>2, <2>1, <2>2, SMT DEF Enqueue, DataTypes
<1>4. CASE ~(~Swallowed(b) /\ aux_count > 0)
  BY <1>1, <1>2, <1>4 DEF HandleMouseEvent, DataTypes, queue
<1> QED
  BY <1>3, <1>4

(* The counter of expected answers is an unsigned char.                      *)
LEMMA ByteWraps ==
    ASSUME NEW n \in 0..255
    PROVE  (n + 1) % 256 \in 0..255
BY SMT

(* Every step keeps the types of the data.                                   *)
LEMMA DataInductive ==
    ASSUME DataTypes, ProcTypes, [Next]_vars
    PROVE  DataTypes'
<1>1. CASE UNCHANGED vars
  BY <1>1 DEF vars, pad, input, queue, hist, DataTypes
<1>2. CASE Move
  <2>1. PICK k \in Moves : Send(k)
    BY <1>2 DEF Move
  <2>2. k \in Kinds
    BY BoundsAssumption DEF Kinds
  <2> QED
    BY <1>2, <2>1, <2>2, SendTypes DEF Move, DataTypes, queue, hist
<1>3. CASE Acknowledge
  <2>1. Head(due) \in {"ackDriver", "ackUser"} /\ Tail(due) \in Seq({"ackDriver", "ackUser"})
    BY <1>3, HeadTailProperties DEF Acknowledge, DataTypes
  <2>2. Head(due) \in Kinds
    BY <2>1 DEF Kinds
  <2> QED
    BY <1>3, <2>1, <2>2, SendTypes DEF Acknowledge, DataTypes, queue, hist
<1>4. CASE MouseInterrupt
  <2>1. /\ HandleMouseEvent(Head(rx)) /\ rx # <<>> /\ rx' = <<>>
        /\ UNCHANGED <<hand, due, sent, opens, writes, got>>
    BY <1>4 DEF MouseInterrupt, hist
  <2>2. Head(rx) \in Byte /\ rx' \in Seq(Byte) /\ Len(rx') <= 1
    BY <2>1, OneByte DEF DataTypes
  <2> QED
    BY <2>1, <2>2, HandleTypes DEF DataTypes
<1>5. ASSUME NEW p \in Procs, Poll(p) PROVE DataTypes'
  <2>1. rx' \in Seq(Byte) /\ Len(rx') <= 1 /\ hand' \in Seq(Byte) /\ Len(hand') <= 1
    BY <1>5, OneByte DEF Poll, DataTypes
  <2> QED
    BY <1>5, <2>1 DEF Poll, DataTypes, queue, hist
<1>6. ASSUME NEW p \in Procs, SendCommand(p) PROVE DataTypes'
  <2>1. due' \in Seq({"ackDriver", "ackUser"})
    <3>1. due \in Seq({"ackDriver", "ackUser"})
      BY DEF DataTypes
    <3>2. due' = Append(due, "ackUser") \/ due' = Append(due, "ackDriver")
      BY <1>6, Zenon DEF SendCommand
    <3> QED
      BY <3>1, <3>2, SMT
  <2>2. mouse_reply_expected' \in 0..255
    <3>1. (mouse_reply_expected + 1) % 256 \in 0..255
      BY ByteWraps DEF DataTypes
    <3> QED
      BY <1>6, <3>1, Zenon DEF SendCommand, DataTypes
  <2> QED
    BY <1>6, <2>1, <2>2 DEF SendCommand, DataTypes, input, queue, hist
<1>7. ASSUME NEW p \in Procs, EnableDevice(p) PROVE DataTypes'
  <2>1. due' \in Seq({"ackDriver", "ackUser"})
    BY <1>7, SMT DEF EnableDevice, DataTypes
  <2> QED
    BY <1>7, <2>1 DEF EnableDevice, DataTypes, input, queue, hist
<1>8. ASSUME NEW p \in Procs, Open(p) PROVE DataTypes'
  <2>1. opens' \in 0..MaxOpens /\ 0 \in Slots
    BY <1>8, BoundsAssumption, BufSizeAssumption, SMT DEF Open, DataTypes, Slots
  <2> QED
    BY <1>8, <2>1 DEF Open, DataTypes, input, queue, pad
<1>9. ASSUME NEW p \in Procs, Write(p) PROVE DataTypes'
  <2>1. writes' \in 0..MaxWrites
    BY <1>9, BoundsAssumption, SMT DEF Write, DataTypes
  <2> QED
    BY <1>9, <2>1 DEF Write, DataTypes, input, queue, pad
<1>10. ASSUME NEW p \in Procs, GetFromQueue(p) PROVE DataTypes'
  <2>1. tail' \in Slots /\ got' \in Byte \cup {NoByte}
    BY <1>10, GetFromRing DEF GetFromQueue, queue_empty, DataTypes
  <2> QED
    BY <1>10, <2>1 DEF GetFromQueue, DataTypes, input, pad
<1>11. ASSUME NEW p \in Procs,
              \/ Polled(p) \/ RequestIrq(p) \/ RequestIrqFails(p) \/ EnablePort(p)
              \/ EnableAgain(p) \/ DisablePort(p) \/ Prepare(p) \/ Check(p) \/ Wake(p)
              \/ Release(p) \/ Read(p) \/ Signal(p)
       PROVE  DataTypes'
  <2>1. asleep' \subseteq Procs
    BY <1>11 DEF DataTypes, Polled, RequestIrq, RequestIrqFails, EnablePort, EnableAgain,
       DisablePort, Prepare, Check, Wake, Release, Read, Signal
  <2>2. UNCHANGED <<pad, queue, mouse_reply_expected, hist>>
    BY <1>11 DEF Polled, RequestIrq, RequestIrqFails, EnablePort, EnableAgain, DisablePort,
       Prepare, Check, Wake, Release, Read, Signal
  <2> QED
    BY <2>1, <2>2 DEF DataTypes, input, pad, queue, hist
<1>12. ASSUME NEW p \in Procs, Handle(p) PROVE DataTypes'
  <2>1. /\ HandleMouseEvent(Head(hand)) /\ hand # <<>> /\ hand' = <<>>
        /\ UNCHANGED <<rx, due, sent, opens, writes, got>>
    BY <1>12 DEF Handle, hist
  <2>2. Head(hand) \in Byte /\ hand' \in Seq(Byte) /\ Len(hand') <= 1
    BY <2>1, OneByte DEF DataTypes
  <2> QED
    BY <2>1, <2>2, HandleTypes DEF DataTypes
<1> QED
  BY <1>1, <1>2, <1>3, <1>4, <1>5, <1>6, <1>7, <1>8, <1>9, <1>10, <1>11, <1>12 DEF Next, Step

(* Every step keeps the places of processes and what they imply.             *)
LEMMA ProcInductive ==
    ASSUME ProcInv, [Next]_vars
    PROVE  ProcInv'
<1>1. ASSUME UNCHANGED ProcVars PROVE ProcInv'
  BY <1>1 DEF ProcVars, ProcInv, ProcTypes, Placed, Lonely, Sole, Served, Commanding,
     CountsOpens, Closing
<1>2. CASE UNCHANGED vars
  BY <1>1, <1>2 DEF vars, ProcVars
<1>3. CASE Move \/ Acknowledge \/ MouseInterrupt
  BY <1>1, <1>3 DEF Move, Acknowledge, MouseInterrupt, ProcVars
<1>4. ASSUME NEW p \in Procs, Poll(p) \/ Handle(p) PROVE ProcInv'
  BY <1>1, <1>4 DEF Poll, Handle, ProcVars
<1>5. ASSUME NEW p \in Procs, Step(p) \/ Open(p) \/ Release(p) \/ Read(p) \/ Signal(p) \/ Write(p)
      PROVE  ProcInv'
  BY <1>4, <1>5, PolledPlaced, SendCommandPlaced, RequestIrqPlaced, RequestIrqFailsPlaced,
     EnablePortPlaced, EnableDevicePlaced, EnableAgainPlaced, DisablePortPlaced, PreparePlaced,
     CheckPlaced, WakePlaced, GetFromQueuePlaced, OpenPlaced, ReleasePlaced, ReadPlaced,
     SignalPlaced, WritePlaced DEF Step
<1> QED
  BY <1>2, <1>3, <1>5 DEF Next

(* A byte ms_wait has in its hand is handled before the lock is given up.    *)
Held == hand # <<>> => \E p \in Procs : pc[p] \in {"wait1", "wait2"}

(* Whoever runs outside ms_wait finds no byte there.                         *)
LEMMA EmptyHanded ==
    ASSUME ProcInv, Held, NEW p \in Procs, pc[p] \notin {"wait1", "wait2"},
           cpu \in {None, p} \/ pc[p] = "send"
    PROVE  hand = <<>>
<1>1. cpu \in {None, p}
  BY DEF ProcInv, Placed, Resting
<1>2. ASSUME NEW q \in Procs, pc[q] \in {"wait1", "wait2"} PROVE FALSE
  <2>1. cpu = q
    BY <1>2 DEF ProcInv, Placed, Resting
  <2> QED
    BY <1>1, <1>2, <2>1, BoundsAssumption
<1> QED
  BY <1>2 DEF Held

(* Every step keeps the byte with the process that has the lock.             *)
LEMMA HeldKept ==
    ASSUME ProcInv, Held, [Next]_vars
    PROVE  Held'
<1>1. ASSUME UNCHANGED <<hand, pc>> PROVE Held'
  BY <1>1 DEF Held
<1>2. ASSUME hand' = <<>> PROVE Held'
  BY <1>2 DEF Held
<1>3. CASE UNCHANGED vars
  BY <1>1, <1>3 DEF vars, pad, input
<1>4. CASE Move \/ Acknowledge \/ MouseInterrupt
  BY <1>1, <1>4 DEF Move, Acknowledge, Send, MouseInterrupt
<1>5. ASSUME NEW p \in Procs, Poll(p) PROVE Held'
  BY <1>5 DEF Poll, Held
<1>6. ASSUME NEW p \in Procs, Handle(p) PROVE Held'
  BY <1>2, <1>6 DEF Handle
<1>7. ASSUME NEW p \in Procs, Polled(p) PROVE Held'
  BY <1>2, <1>7 DEF Polled, pad, input
<1>8. ASSUME NEW p \in Procs, SendCommand(p) PROVE Held'
  BY <1>2, <1>8, EmptyHanded DEF SendCommand, input
<1>9. ASSUME NEW p \in Procs,
             \/ RequestIrq(p) \/ RequestIrqFails(p) \/ EnablePort(p) \/ EnableDevice(p)
             \/ EnableAgain(p) \/ DisablePort(p) \/ Prepare(p) \/ Check(p) \/ Wake(p)
             \/ GetFromQueue(p) \/ Open(p) \/ Release(p) \/ Read(p) \/ Signal(p) \/ Write(p)
      PROVE  Held'
  <2>1. cpu \in {None, p} /\ pc[p] \notin {"wait1", "wait2"}
    BY <1>9 DEF On, RequestIrq, RequestIrqFails, EnablePort, EnableDevice, EnableAgain,
       DisablePort, Prepare, Check, Wake, GetFromQueue, Open, Release, Read, Signal, Write
  <2>2. hand' = hand
    BY <1>9 DEF pad, input, RequestIrq, RequestIrqFails, EnablePort, EnableDevice, EnableAgain,
       DisablePort, Prepare, Check, Wake, GetFromQueue, Open, Release, Read, Signal, Write
  <2> QED
    BY <1>2, <2>1, <2>2, EmptyHanded
<1> QED
  BY <1>3, <1>4, <1>5, <1>6, <1>7, <1>8, <1>9 DEF Next, Step

-----------------------------------------------------------------------------
(* The bytes that wait. *)

Waiting(k) == buf[Slot(tail, k)]

(* The count of bytes in the ring is its filled part.                        *)
LEMMA CountIsFilled == Count = Filled(head, tail)
BY DEF Count, Filled

(* The ring is never full to the last slot, and holds bytes.                 *)
LEMMA CountType ==
    ASSUME DataTypes
    PROVE  /\ Count \in Nat /\ Count <= BufSize - 1
           /\ \A k \in Nat : k < Count => Waiting(k) \in Byte \cup {NoByte}
<1>1. head \in Slots /\ tail \in Slots /\ buf \in [Slots -> Byte \cup {NoByte}]
  BY DEF DataTypes
<1>2. Count \in Nat /\ Count <= BufSize - 1
  <2>1. Count = IF head >= tail THEN head - tail ELSE head + BufSize - tail
    BY <1>1, CountIsFilled, Ring
  <2> QED
    BY <1>1, <2>1, BufSizeAssumption, SMT DEF Slots
<1>3. \A k \in Nat : k < Count => Slot(tail, k) \in Slots
  BY <1>1, CountIsFilled, HeadIsFree
<1> QED
  BY <1>1, <1>2, <1>3 DEF Waiting

(* The three things that happen to the ring: a byte is put behind the last   *)
(* one, the oldest is taken, or the bytes that wait stay what they are.      *)
PutByte(b) ==
    /\ Count' = Count + 1 /\ Count < BufSize - 1
    /\ \A k \in Nat : k < Count => Waiting(k)' = Waiting(k)
    /\ \A k \in Nat : k = Count => Waiting(k)' = b

TakeByte ==
    /\ Count \in Nat \ {0} /\ Count' = Count - 1
    /\ \A k \in Nat : k + 1 < Count => Waiting(k)' = Waiting(k + 1)

KeepBytes ==
    /\ Count' = Count
    /\ \A k \in Nat : k < Count => Waiting(k)' = Waiting(k)

(* A byte is put into the ring, or dropped when the ring is full.            *)
LEMMA EnqueueBytes ==
    ASSUME DataTypes, NEW b \in Byte, Enqueue(b)
    PROVE  PutByte(b) \/ (KeepBytes /\ Count = BufSize - 1)
<1>1. head \in Slots /\ tail \in Slots /\ buf \in [Slots -> Byte \cup {NoByte}]
  BY DEF DataTypes
<1>2. tail' = tail /\ buf' = [buf EXCEPT ![head] = b]
  BY DEF Enqueue
<1>3. ASSUME NEW k \in Nat, k < Count PROVE Waiting(k)' = Waiting(k)
  <2>1. Slot(tail, k) \in Slots \ {head} /\ Slot(tail, k)' = Slot(tail, k)
    BY <1>1, <1>2, <1>3, HeadIsFree, CountIsFilled DEF Slot
  <2> QED
    BY <1>1, <1>2, <2>1 DEF Waiting
<1>4. CASE Inc(head) # tail
  <2>1. head' = Inc(head)
    BY <1>4 DEF Enqueue
  <2>2. /\ Filled(head, tail)' = Filled(head, tail) + 1 /\ Filled(head, tail) < BufSize - 1
        /\ Slot(tail, Filled(head, tail)) = head
    BY <1>1, <1>2, <1>4, <2>1, PutInRing DEF Filled
  <2>3. ASSUME NEW k \in Nat, k = Count PROVE Waiting(k)' = b
    <3>1. Slot(tail, k) = head
      BY <2>2, <2>3, CountIsFilled
    <3> QED
      BY <1>1, <1>2, <3>1 DEF Waiting, Slot
  <2> QED
    BY <1>3, <2>2, <2>3, CountIsFilled DEF PutByte, Count, Filled
<1>5. CASE Inc(head) = tail
  <2>1. head' = head
    BY <1>5 DEF Enqueue
  <2>2. Count = BufSize - 1
    BY <1>1, <1>5, CountIsFilled, FullRing
  <2> QED
    BY <1>2, <1>3, <2>1, <2>2 DEF KeepBytes, Count
<1> QED
  BY <1>4, <1>5

(* get_from_queue takes the oldest byte.                                     *)
LEMMA GetBytes ==
    ASSUME DataTypes, NEW p \in Procs, GetFromQueue(p)
    PROVE  TakeByte /\ got' = Waiting(0)
<1>1. head \in Slots /\ tail \in Slots /\ head # tail
  BY DEF DataTypes, GetFromQueue, queue_empty
<1>2. tail' = Inc(tail) /\ head' = head /\ buf' = buf /\ got' = buf[tail]
  BY DEF GetFromQueue
<1>3. /\ Count \in Nat \ {0} /\ Count' = Count - 1
      /\ \A k \in Nat : k + 1 < Count => Slot(Inc(tail), k) = Slot(tail, k + 1)
  BY <1>1, <1>2, GetFromRing, CountIsFilled DEF Count, Filled
<1>4. ASSUME NEW k \in Nat, k + 1 < Count PROVE Waiting(k)' = Waiting(k + 1)
  <2>1. Slot(tail, k)' = Slot(tail, k + 1)
    BY <1>2, <1>3, <1>4 DEF Slot
  <2> QED
    BY <1>2, <2>1 DEF Waiting
<1>5. Slot(tail, 0) = tail
  <2>1. 0 \in Slots
    BY BufSizeAssumption, SMT DEF Slots
  <2>2. Slot(tail, 0) = IF tail + 0 < BufSize THEN tail + 0 ELSE tail + 0 - BufSize
    BY <1>1, <2>1, Ring
  <2> QED
    BY <1>1, <2>2, BufSizeAssumption, SMT DEF Slots
<1> QED
  BY <1>2, <1>3, <1>4, <1>5 DEF TakeByte, Waiting

(* A byte is handled that came from the port, or from ms_wait.               *)
FromPort(b) == rx # <<>> /\ b = rx[1] /\ rx' = <<>> /\ hand = <<>> /\ hand' = <<>>
FromHand(b) == hand # <<>> /\ b = hand[1] /\ hand' = <<>> /\ rx' = rx

Handled(b) ==
    /\ FromPort(b) \/ FromHand(b)
    /\ last' = b
    /\ \/ PutByte(b) /\ aux_count > 0
       \/ KeepBytes /\ (aux_count = 0 \/ Count = BufSize - 1 \/ b \in Answers)
    /\ UNCHANGED <<aux_count, got, sent>>

(* What a step does to the ring, the count of users and the byte read last.  *)
RingStep ==
    \/ \E b \in Byte : Handled(b)
    \/ /\ TakeByte /\ got' = Waiting(0) /\ aux_count > 0
       /\ UNCHANGED <<aux_count, rx, hand, last, sent>>
    \/ /\ aux_count' = aux_count + 1 /\ UNCHANGED <<got, rx, hand, last, sent>>
       /\ IF aux_count = 0 THEN Count' = 0 ELSE KeepBytes
    \/ /\ aux_count > 0 /\ aux_count' = aux_count - 1 /\ KeepBytes
       /\ UNCHANGED <<got, rx, hand, last, sent>>
    \/ /\ KeepBytes /\ UNCHANGED <<aux_count, got, last>>
       /\ \/ UNCHANGED <<rx, hand, sent>>
          \/ hand = <<>> /\ hand' = rx /\ rx' = <<>> /\ UNCHANGED sent
          \/ rx' # <<>> /\ rx'[1].n = sent + 1 /\ sent' = sent + 1 /\ UNCHANGED hand

(* handle_mouse_event puts the byte into the ring, or drops it for one of    *)
(* three reasons.                                                            *)
LEMMA HandleBytes ==
    ASSUME DataTypes, ProcInv, NEW b \in Byte, HandleMouseEvent(b)
    PROVE  /\ last' = b
           /\ \/ PutByte(b) /\ aux_count > 0
              \/ KeepBytes /\ (aux_count = 0 \/ Count = BufSize - 1 \/ b \in Answers)
<1>1. last' = b
  BY DEF HandleMouseEvent
<1>2. CASE ~Swallowed(b) /\ aux_count > 0
  <2>1. Enqueue(b)
    BY <1>2 DEF HandleMouseEvent
  <2> QED
    BY <1>1, <1>2, <2>1, EnqueueBytes
<1>3. CASE ~(~Swallowed(b) /\ aux_count > 0)
  <2>1. KeepBytes
    BY <1>3 DEF HandleMouseEvent, queue, KeepBytes, Count, Waiting, Slot
  <2>2. aux_count = 0 \/ b \in Answers
    BY <1>3, SMT DEF Swallowed, Answers, ProcInv, ProcTypes
  <2> QED
    BY <1>1, <2>1, <2>2
<1> QED
  BY <1>2, <1>3

(* Every step handles a byte, takes one, empties the ring or leaves it alone. *)
LEMMA StepsOfRing ==
    ASSUME DataTypes, ProcInv, Held, [Next]_vars
    PROVE  RingStep
<1>1. ASSUME UNCHANGED queue PROVE KeepBytes
  BY <1>1 DEF queue, KeepBytes, Count, Waiting, Slot
<1>2. aux_count \in Nat /\ \A p \in Procs : IsUser(p) => aux_count > 0
  BY CountTells DEF ProcInv
<1>3. CASE UNCHANGED vars
  BY <1>1, <1>3 DEF vars, pad, input, hist, RingStep
<1>4. ASSUME NEW k \in Kinds, Send(k), UNCHANGED <<queue, aux_count, got>> PROVE RingStep
  BY <1>1, <1>4, SendTypes DEF RingStep
<1>5. CASE Move
  <2>1. PICK k \in Moves : Send(k)
    BY <1>5 DEF Move
  <2>2. k \in Kinds
    BY BoundsAssumption DEF Kinds
  <2> QED
    BY <1>4, <1>5, <2>1, <2>2 DEF Move, hist
<1>6. CASE Acknowledge
  <2>1. Head(due) \in Kinds
    BY <1>6, HeadTailProperties DEF Acknowledge, DataTypes, Kinds
  <2> QED
    BY <1>4, <1>6, <2>1 DEF Acknowledge, hist
<1>7. CASE MouseInterrupt
  <2>1. /\ HandleMouseEvent(Head(rx)) /\ rx # <<>> /\ rx' = <<>>
        /\ UNCHANGED <<hand, aux_count, got, sent>>
    BY <1>7 DEF MouseInterrupt, hist
  <2>2. Head(rx) \in Byte /\ Head(rx) = rx[1]
    BY <2>1, OneByte DEF DataTypes
  <2>3. hand = <<>>
    BY <1>7 DEF MouseInterrupt, Locked, Held
  <2>4. FromPort(Head(rx))
    BY <2>1, <2>2, <2>3 DEF FromPort
  <2>5. Handled(Head(rx))
    BY <2>1, <2>2, <2>4, HandleBytes DEF Handled
  <2> QED
    BY <2>2, <2>5 DEF RingStep
<1>8. ASSUME NEW p \in Procs, Poll(p) PROVE RingStep
  <2>1. /\ hand = <<>> /\ hand' = rx /\ rx' = <<>>
        /\ UNCHANGED <<queue, aux_count, got, last, sent>>
    BY <1>8 DEF Poll, hist
  <2> QED
    BY <1>1, <2>1 DEF RingStep
<1>9. ASSUME NEW p \in Procs, Handle(p) PROVE RingStep
  <2>1. /\ HandleMouseEvent(Head(hand)) /\ hand # <<>> /\ hand' = <<>>
        /\ UNCHANGED <<rx, aux_count, got, sent>>
    BY <1>9 DEF Handle, hist
  <2>2. Head(hand) \in Byte /\ Head(hand) = hand[1]
    BY <2>1, OneByte DEF DataTypes
  <2>3. FromHand(Head(hand))
    BY <2>1, <2>2 DEF FromHand
  <2>4. Handled(Head(hand))
    BY <2>1, <2>2, <2>3, HandleBytes DEF Handled
  <2> QED
    BY <2>2, <2>4 DEF RingStep
<1>10. ASSUME NEW p \in Procs, GetFromQueue(p) PROVE RingStep
  <2>1. IsUser(p)
    BY <1>10 DEF GetFromQueue, On, IsUser, Closing
  <2> QED
    BY <1>2, <1>10, <2>1, GetBytes DEF RingStep, GetFromQueue, pad, input
<1>11. ASSUME NEW p \in Procs, Open(p) PROVE RingStep
  <2>1. CASE aux_count = 0
    <3>1. head' = 0 /\ tail' = 0
      BY <1>11, <2>1, SMT DEF Open
    <3>2. 0 \in Slots
      BY BufSizeAssumption, SMT DEF Slots
    <3>3. Filled(0, 0) = 0
      BY <3>2, Ring, SMT
    <3>4. Count' = 0
      BY <3>1, <3>3 DEF Count, Filled
    <3> QED
      BY <1>11, <2>1, <3>4 DEF Open, RingStep, pad, input, hist
  <2>2. CASE aux_count # 0
    <3>1. aux_count > 0
      BY <1>2, <2>2, SMT
    <3>2. UNCHANGED queue
      BY <1>11, <3>1 DEF Open
    <3> QED
      BY <1>1, <1>11, <2>2, <3>2 DEF Open, RingStep, pad, input, hist
  <2> QED
    BY <2>1, <2>2
<1>12. ASSUME NEW p \in Procs, Release(p) PROVE RingStep
  <2>1. IsUser(p)
    BY <1>12 DEF Release, On, IsUser, Closing
  <2> QED
    BY <1>1, <1>2, <1>12, <2>1 DEF Release, RingStep, pad, input, hist
<1>13. ASSUME NEW p \in Procs, RequestIrqFails(p) PROVE RingStep
  <2>1. IsUser(p)
    BY <1>13 DEF RequestIrqFails, On, IsUser, Closing
  <2> QED
    BY <1>1, <1>2, <1>13, <2>1 DEF RequestIrqFails, RingStep, pad, input, hist
<1>14. ASSUME NEW p \in Procs,
              \/ Polled(p) \/ SendCommand(p) \/ RequestIrq(p) \/ EnablePort(p)
              \/ EnableDevice(p) \/ EnableAgain(p) \/ DisablePort(p) \/ Prepare(p)
              \/ Check(p) \/ Wake(p) \/ Read(p) \/ Signal(p) \/ Write(p)
       PROVE  RingStep
  <2>1. UNCHANGED <<queue, aux_count, got, rx, hand, last, sent>>
    BY <1>14 DEF Polled, SendCommand, RequestIrq, EnablePort, EnableDevice, EnableAgain,
       DisablePort, Prepare, Check, Wake, Read, Signal, Write, pad, input, hist
  <2> QED
    BY <1>1, <2>1 DEF RingStep
<1> QED
  BY <1>3, <1>5, <1>6, <1>7, <1>8, <1>9, <1>10, <1>11, <1>12, <1>13, <1>14 DEF Next, Step

-----------------------------------------------------------------------------
(* The order of the bytes. *)

(* The byte read last is older than those that wait, these are in the order  *)
(* of their numbers, then comes the one in ms_wait's hand, and the one in    *)
(* KBDDATA is the youngest.                                                  *)
Ordered ==
    /\ got.n <= sent
    /\ rx # <<>> => got.n < rx[1].n /\ rx[1].n <= sent
    /\ hand # <<>> => got.n < hand[1].n /\ hand[1].n <= sent
    /\ rx # <<>> /\ hand # <<>> => hand[1].n < rx[1].n
    /\ \A k \in Nat : k < Count =>
          /\ got.n < Waiting(k).n /\ Waiting(k).n <= sent
          /\ rx # <<>> => Waiting(k).n < rx[1].n
          /\ hand # <<>> => Waiting(k).n < hand[1].n
          /\ \A j \in Nat : j < k => Waiting(j).n < Waiting(k).n

(* The numbers of the bytes are natural numbers.                             *)
LEMMA Numbers ==
    ASSUME DataTypes
    PROVE  /\ sent \in Nat /\ got.n \in Nat /\ Count \in Nat
           /\ rx # <<>> => rx[1].n \in Nat
           /\ hand # <<>> => hand[1].n \in Nat
           /\ \A k \in Nat : k < Count => Waiting(k).n \in Nat
<1>1. \A b \in Byte \cup {NoByte} : b.n \in Nat
  BY SMT DEF Byte, NoByte
<1>2. (rx # <<>> => rx[1] \in Byte) /\ (hand # <<>> => hand[1] \in Byte)
  BY OneByte DEF DataTypes
<1> QED
  BY <1>1, <1>2, CountType, SMT DEF DataTypes

(* Such a step keeps the bytes in order, and reads the next one.             *)
LEMMA OrderKept ==
    ASSUME DataTypes, DataTypes', Ordered, RingStep
    PROVE  Ordered' /\ (got' # got => got'.n > got.n)
<1>1. /\ sent \in Nat /\ got.n \in Nat /\ Count \in Nat
      /\ rx # <<>> => rx[1].n \in Nat
      /\ hand # <<>> => hand[1].n \in Nat
      /\ \A k \in Nat : k < Count => Waiting(k).n \in Nat
  BY Numbers
<1>2. ASSUME NEW b \in Byte, Handled(b) PROVE Ordered' /\ got' = got
  <2>1. CASE KeepBytes /\ FromPort(b)
    BY <1>1, <1>2, <2>1, SMT DEF Handled, FromPort, KeepBytes, Ordered
  <2>2. CASE PutByte(b) /\ FromPort(b)
    BY <1>1, <1>2, <2>2, SMT DEF Handled, FromPort, PutByte, Ordered
  <2>3. CASE KeepBytes /\ FromHand(b)
    BY <1>1, <1>2, <2>3, SMT DEF Handled, FromHand, KeepBytes, Ordered
  <2>4. CASE PutByte(b) /\ FromHand(b)
    BY <1>1, <1>2, <2>4, SMT DEF Handled, FromHand, PutByte, Ordered
  <2> QED
    BY <1>2, <2>1, <2>2, <2>3, <2>4 DEF Handled
<1>3. CASE TakeByte /\ got' = Waiting(0) /\ UNCHANGED <<rx, hand, sent>>
  <2>1. /\ got'.n > got.n /\ got'.n <= sent
        /\ rx # <<>> => got'.n < rx[1].n
        /\ hand # <<>> => got'.n < hand[1].n
        /\ \A k \in Nat : 0 < k /\ k < Count => got'.n < Waiting(k).n
    BY <1>1, <1>3, SMT DEF TakeByte, Ordered
  <2>2. ASSUME NEW k \in Nat, k < Count'
        PROVE  /\ got'.n < Waiting(k)'.n /\ Waiting(k)'.n <= sent'
               /\ rx' # <<>> => Waiting(k)'.n < rx'[1].n
               /\ hand' # <<>> => Waiting(k)'.n < hand'[1].n
               /\ \A j \in Nat : j < k => Waiting(j)'.n < Waiting(k)'.n
    <3>1. k + 1 \in Nat /\ k + 1 < Count /\ Waiting(k)' = Waiting(k + 1)
      BY <1>1, <1>3, <2>2, SMT DEF TakeByte
    <3>2. ASSUME NEW j \in Nat, j < k PROVE Waiting(j)'.n < Waiting(k)'.n
      <4>1. j + 1 \in Nat /\ j + 1 < k + 1 /\ Waiting(j)' = Waiting(j + 1)
        BY <1>1, <1>3, <2>2, <3>2, SMT DEF TakeByte
      <4> QED
        BY <3>1, <4>1 DEF Ordered
    <3>3. 0 < k + 1
      BY SMT
    <3> QED
      BY <1>3, <2>1, <3>1, <3>2, <3>3 DEF Ordered
  <2> QED
    BY <1>3, <2>1, <2>2 DEF Ordered
<1>4. CASE UNCHANGED <<got, rx, hand, sent>> /\ (Count' = 0 \/ KeepBytes)
  <2>1. CASE Count' = 0
    BY <1>1, <1>4, <2>1, SMT DEF Ordered
  <2>2. CASE KeepBytes
    BY <1>1, <1>4, <2>2, SMT DEF KeepBytes, Ordered
  <2> QED
    BY <1>4, <2>1, <2>2
<1>5. CASE KeepBytes /\ got' = got /\ hand = <<>> /\ hand' = rx /\ rx' = <<>> /\ sent' = sent
  BY <1>1, <1>5, SMT DEF KeepBytes, Ordered
<1>6. CASE /\ KeepBytes /\ got' = got /\ hand' = hand
           /\ rx' # <<>> /\ rx'[1].n = sent + 1 /\ sent' = sent + 1
  BY <1>1, <1>6, SMT DEF KeepBytes, Ordered
<1> QED
  BY <1>2, <1>3, <1>4, <1>5, <1>6, Zenon DEF RingStep

-----------------------------------------------------------------------------
(* The ring as a queue. *)

LEMMA ContentsType ==
    ASSUME DataTypes
    PROVE  /\ Contents \in Seq(Byte \cup {NoByte}) /\ Len(Contents) = Count
           /\ \A i \in 1..Count : Contents[i] = Waiting(i - 1)
<1>1. Count \in Nat /\ \A k \in Nat : k < Count => Waiting(k) \in Byte \cup {NoByte}
  BY CountType
<1>2. \A i \in 1..Count : Contents[i] = Waiting(i - 1)
  <2>1. ASSUME NEW i \in 1..Count PROVE tail + i - 1 = tail + (i - 1)
    BY <1>1, SMT DEF DataTypes, Slots
  <2> QED
    BY <2>1 DEF Contents, Waiting, Slot
<1>3. \A i \in 1..Count : Contents[i] \in Byte \cup {NoByte}
  <2>1. \A i \in 1..Count : i - 1 \in Nat /\ i - 1 < Count
    BY <1>1, SMT
  <2> QED
    BY <1>1, <1>2, <2>1
<1>4. DOMAIN Contents = 1..Count /\ Contents = [i \in 1..Count |-> Contents[i]]
  BY DEF Contents
<1>5. Contents \in [1..Count -> Byte \cup {NoByte}]
  BY <1>3, <1>4
<1> QED
  BY <1>1, <1>2, <1>4, <1>5, SMT

(* The same, as one formula of a state.                                      *)
ContentsFit ==
    /\ Contents \in Seq(Byte \cup {NoByte}) /\ Len(Contents) = Count
    /\ \A i \in 1..Count : Contents[i] = Waiting(i - 1)

(* The ring holds as many bytes as the abstract queue may.                   *)
LEMMA ContentsTypeNext == DataTypes' => ContentsFit'
<1>1. DataTypes => ContentsFit
  BY ContentsType DEF ContentsFit
<1> QED
  BY <1>1, PTL

(* Such a step is one of BoundedFifo.                                        *)
LEMMA FifoStep ==
    ASSUME DataTypes, DataTypes', ProcInv, RingStep
    PROVE  Fifo!FifoNext \/ UNCHANGED <<Contents, last, aux_count>>
<1> DEFINE B == Byte \cup {NoByte}
<1>1. /\ Contents \in Seq(B) /\ Len(Contents) = Count /\ Count \in Nat
      /\ \A i \in 1..Count : Contents[i] = Waiting(i - 1)
  BY ContentsType, CountType
<1>2. /\ Contents' \in Seq(B) /\ Len(Contents') = Count'
      /\ \A i \in 1..Count' : Contents'[i] = Waiting(i - 1)'
  BY ContentsTypeNext DEF ContentsFit
<1>3. ASSUME KeepBytes PROVE Contents' = Contents
  <2>1. ASSUME NEW i \in 1..Count PROVE Contents'[i] = Contents[i]
    <3>1. i - 1 \in Nat /\ i - 1 < Count
      BY <1>1, SMT
    <3> QED
      BY <1>1, <1>2, <1>3, <3>1 DEF KeepBytes
  <2>2. Len(Contents') = Len(Contents)
    BY <1>1, <1>2, <1>3 DEF KeepBytes
  <2> QED
    BY <1>1, <1>2, <2>1, <2>2, SeqEqual
<1>4. ASSUME NEW b \in Byte, PutByte(b) PROVE Contents' = Append(Contents, b)
  <2>1. /\ Append(Contents, b) \in Seq(B) /\ Len(Append(Contents, b)) = Count + 1
        /\ \A i \in 1..Count : Append(Contents, b)[i] = Contents[i]
        /\ Append(Contents, b)[Count + 1] = b
    <3>1. b \in B
      OBVIOUS
    <3> QED
      BY <1>1, <3>1, AppendProperties
  <2>2. ASSUME NEW i \in 1..(Count + 1) PROVE Contents'[i] = Append(Contents, b)[i]
    <3>1. Contents'[i] = Waiting(i - 1)'
      BY <1>2, <1>4 DEF PutByte
    <3>2. CASE i = Count + 1
      <4>1. i - 1 = Count
        BY <1>1, <3>2, SMT
      <4> QED
        BY <1>1, <1>4, <2>1, <3>1, <3>2, <4>1 DEF PutByte
    <3>3. CASE i \in 1..Count
      <4>1. i - 1 \in Nat /\ i - 1 < Count
        BY <1>1, <3>3, SMT
      <4> QED
        BY <1>1, <1>4, <2>1, <3>1, <3>3, <4>1 DEF PutByte
    <3> QED
      BY <1>1, <3>2, <3>3, SMT
  <2>3. Len(Contents') = Len(Append(Contents, b)) /\ Len(Contents') = Count + 1
    BY <1>2, <1>4, <2>1 DEF PutByte
  <2> QED
    BY <1>2, <2>1, <2>2, <2>3, SeqEqual
<1>5. ASSUME TakeByte PROVE Contents # <<>> /\ Contents' = Tail(Contents)
  <2>1. Contents # <<>>
    BY <1>1, <1>5, EmptySeq, SMT DEF TakeByte
  <2>2. /\ Tail(Contents) \in Seq(B) /\ Len(Tail(Contents)) = Count - 1
        /\ \A i \in 1..(Count - 1) : Tail(Contents)[i] = Contents[i + 1]
    BY <1>1, <2>1, HeadTailProperties
  <2>3. ASSUME NEW i \in 1..(Count - 1) PROVE Contents'[i] = Tail(Contents)[i]
    <3>1. Contents'[i] = Waiting(i - 1)'
      BY <1>2, <1>5 DEF TakeByte
    <3>2. i - 1 \in Nat /\ (i - 1) + 1 < Count /\ (i - 1) + 1 = i /\ i + 1 \in 1..Count
          /\ (i + 1) - 1 = i
      BY <1>1, SMT
    <3>3. Waiting(i - 1)' = Waiting(i)
      BY <1>5, <3>2 DEF TakeByte
    <3>4. Contents[i + 1] = Waiting(i)
      BY <1>1, <3>2
    <3> QED
      BY <2>2, <3>1, <3>3, <3>4
  <2>4. Len(Contents') = Len(Tail(Contents)) /\ Len(Contents') = Count - 1
    BY <1>2, <1>5, <2>2 DEF TakeByte
  <2> QED
    BY <1>2, <2>1, <2>2, <2>3, <2>4, SeqEqual
<1>6. ASSUME Count' = 0 PROVE Contents' = <<>>
  BY <1>2, <1>6, EmptySeq, SMT
<1>7. ASSUME NEW b \in Byte, Handled(b) PROVE Fifo!FifoNext
  <2>1. CASE PutByte(b) /\ aux_count > 0
    <3>1. Len(Contents) < BufSize - 1
      BY <1>1, <2>1 DEF PutByte
    <3> QED
      BY <1>4, <1>7, <2>1, <3>1 DEF Handled, Fifo!FifoNext, Fifo!Arrive
  <2>2. CASE KeepBytes /\ (aux_count = 0 \/ Count = BufSize - 1 \/ b \in Answers)
    BY <1>1, <1>3, <1>7, <2>2 DEF Handled, Fifo!FifoNext, Fifo!Arrive
  <2> QED
    BY <1>7, <2>1, <2>2 DEF Handled
<1>8. ASSUME TakeByte, aux_count > 0, UNCHANGED <<aux_count, last>> PROVE Fifo!FifoNext
  BY <1>5, <1>8 DEF Fifo!FifoNext, Fifo!Get
<1>9. ASSUME aux_count' = aux_count + 1, last' = last,
             IF aux_count = 0 THEN Count' = 0 ELSE KeepBytes
      PROVE  Fifo!FifoNext
  BY <1>3, <1>6, <1>9 DEF Fifo!FifoNext, Fifo!Join
<1>10. ASSUME aux_count > 0, aux_count' = aux_count - 1, KeepBytes, last' = last PROVE Fifo!FifoNext
  BY <1>3, <1>10 DEF Fifo!FifoNext, Fifo!Leave
<1>11. ASSUME KeepBytes, UNCHANGED <<aux_count, last>>
       PROVE  UNCHANGED <<Contents, last, aux_count>>
  BY <1>3, <1>11
<1> QED
  BY <1>7, <1>8, <1>9, <1>10, <1>11, Zenon DEF RingStep

-----------------------------------------------------------------------------
IInv == DataTypes /\ ProcInv /\ Held /\ Ordered

(* The invariant holds at first.                                             *)
LEMMA Initially == Init => IInv
<1> SUFFICES ASSUME Init PROVE IInv
  OBVIOUS
<1>1. ProcTypes /\ Placed /\ Lonely /\ Served
  <2>1. /\ \A p \in Procs : pc[p] = "closed"
        /\ pc \in [Procs -> Labels] /\ cmd \in [Procs -> Commands]
        /\ cpu = None /\ aux_count = 0 /\ aux_count \in Nat
    BY SMT DEF Init, Labels, Commands
  <2>2. ena \in BOOLEAN /\ irqOn \in BOOLEAN
    BY Zenon DEF Init
  <2>3. ProcTypes
    BY <2>1, <2>2, Zenon DEF ProcTypes
  <2>4. Placed /\ Lonely
    BY <2>1, BoundsAssumption, SMT DEF Placed, Resting, Lonely, Sole, Commanding
  <2>5. Served
    <3>1. \A p \in Procs : pc[p] # "enable" /\ ~Commanding(p)
             /\ pc[p] \notin {"first", "second", "open", "prepare", "check", "sleep", "get"}
      BY <2>1, SMT DEF Commanding
    <3> QED
      BY <3>1, Zenon DEF Served
  <2> QED
    BY <2>3, <2>4, <2>5
<1>2. CountsOpens
  <2>1. {p \in Procs : pc[p] # "closed" /\ ~Closing(p)} = {} /\ aux_count = 0
    BY DEF Init
  <2> QED
    BY <2>1, FS_EmptySet DEF CountsOpens
<1>3. DataTypes
  <2>1. 0 \in Slots /\ buf \in [Slots -> Byte \cup {NoByte}]
    BY BufSizeAssumption, SMT DEF Init, Slots
  <2>2. [n |-> 1, kind |-> "move"] \in Byte /\ 1 \in 0..MaxBytes /\ 0 \in 0..MaxBytes
    BY BoundsAssumption, SMT DEF Byte, Kinds
  <2>3. rx \in Seq(Byte) /\ Len(rx) <= 1 /\ sent \in 0..MaxBytes
    <3>1. CASE rx = <<>> /\ sent = 0
      BY <2>2, <3>1, EmptySeq
    <3>2. CASE rx = <<[n |-> 1, kind |-> "move"]>> /\ sent = 1
      <4> DEFINE m == [n |-> 1, kind |-> "move"]
      <4> HIDE DEF m
      <4>1. m \in Byte /\ rx = <<m>>
        BY <2>2, <3>2 DEF m
      <4> QED
        BY <2>2, <3>2, <4>1, SMT
    <3> QED
      BY <3>1, <3>2 DEF Init
  <2>4. due \in Seq({"ackDriver", "ackUser"}) /\ mouse_reply_expected \in 0..255
    <3>1. CASE due = <<>> /\ mouse_reply_expected = 0
      BY <3>1, EmptySeq, SMT
    <3>2. CASE due = <<"ackDriver">> /\ mouse_reply_expected = 1
      BY <3>2, SMT
    <3> QED
      BY <3>1, <3>2 DEF Init
  <2>5. opens \in 0..MaxOpens /\ writes \in 0..MaxWrites /\ asleep \subseteq Procs
        /\ got \in Byte \cup {NoByte}
    BY BoundsAssumption, SMT DEF Init
  <2>6. hand \in Seq(Byte) /\ Len(hand) <= 1 /\ last \in Byte \cup {NoByte}
    BY EmptySeq, SMT DEF Init
  <2> QED
    BY <2>1, <2>3, <2>4, <2>5, <2>6 DEF DataTypes, Init
<1>4. Ordered
  <2>1. Count = 0
    <3>1. 0 \in Slots
      BY BufSizeAssumption, SMT DEF Slots
    <3> QED
      BY <3>1, CountIsFilled, Ring, SMT DEF Init
  <2> QED
    BY <2>1, SMT DEF Ordered, Init, NoByte
<1>5. Held
  BY DEF Init, Held
<1> QED
  BY <1>1, <1>2, <1>3, <1>4, <1>5 DEF IInv, ProcInv

(* The invariant holds in every reachable state.                             *)
LEMMA Inductive == Spec => []IInv
<1>1. IInv /\ [Next]_vars => IInv'
  <2> SUFFICES ASSUME IInv, [Next]_vars PROVE IInv'
    OBVIOUS
  <2>1. DataTypes' /\ ProcInv'
    BY DataInductive, ProcInductive DEF IInv, ProcInv
  <2>2. Ordered'
    BY <2>1, StepsOfRing, OrderKept DEF IInv
  <2>3. Held'
    BY HeldKept DEF IInv
  <2> QED
    BY <2>1, <2>2, <2>3 DEF IInv
<1> QED
  BY Initially, <1>1, PTL DEF Spec

(* Every variable keeps its type.                                            *)
THEOREM PsAuxTypeCorrect == Spec => []TypeOK
<1>1. IInv => TypeOK
  BY Zenon DEF IInv, DataTypes, ProcInv, ProcTypes, Labels, Commands, TypeOK
<1> QED
  BY Inductive, <1>1, PTL

(* aux_count is the number of processes that have the device open or are     *)
(* opening it, however opens, failures of request_irq and closes mix.        *)
THEOREM OpensAreCounted == Spec => []CountsOpens
<1>1. IInv => CountsOpens
  BY DEF IInv, ProcInv
<1> QED
  BY Inductive, <1>1, PTL

(* Whoever has the device open has the port enabled and the interrupt.       *)
THEOREM OpenersAreServed == Spec => []OpenIsServed
<1>1. IInv => OpenIsServed
  BY Zenon DEF IInv, ProcInv, Served, OpenIsServed
<1> QED
  BY Inductive, <1>1, PTL

(* Bytes come out of the driver in the order the pad sent them.              *)
THEOREM BytesReadInOrder == Spec => ReadInOrder
<1>1. IInv /\ IInv' /\ [Next]_vars => [got' # got => got'.n > got.n]_vars
  BY StepsOfRing, OrderKept DEF IInv
<1> QED
  BY Inductive, <1>1, PTL DEF Spec, ReadInOrder

(* The ring, its two indices and the count of openers implement the bounded  *)
(* queue of BoundedFifo: a byte handled while somebody has the device open   *)
(* goes into the queue, unless BufSize - 1 bytes wait or it looks like an    *)
(* answer.                                                                   *)
THEOREM PsAuxImplementsFifo == Spec => ImplementsFifo
<1>1. Init => Fifo!FifoInit
  <2> SUFFICES ASSUME Init PROVE Fifo!FifoInit
    OBVIOUS
  <2>1. 0 \in Slots
    BY BufSizeAssumption, SMT DEF Slots
  <2>2. Count = 0
    BY <2>1, CountIsFilled, Ring, SMT DEF Init
  <2>3. Contents \in Seq(Byte \cup {NoByte}) /\ Len(Contents) = 0
    BY <2>2, Initially, ContentsType DEF IInv
  <2>4. Contents = <<>>
    BY <2>3, EmptySeq, SMT
  <2>5. last \notin Byte
    BY SMT DEF Init, NoByte, Byte
  <2> QED
    BY <2>4, <2>5 DEF Fifo!FifoInit, Init
<1>2. IInv /\ IInv' /\ [Next]_vars => [Fifo!FifoNext]_<<Contents, last, aux_count>>
  BY StepsOfRing, FifoStep DEF IInv
<1> QED
  BY Inductive, <1>1, <1>2, PTL DEF Spec, ImplementsFifo, Fifo!FifoSpec

=============================================================================
