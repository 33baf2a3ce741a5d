--------------------------- MODULE LcdCtrlr_proof ---------------------------
(***************************************************************************)
(* Proofs about LcdCtrlr, for every set of modes and clock rates: first    *)
(* with and without preemption, suspend, rapid requests and early clock    *)
(* changes, then what each of these flags is needed for.                   *)
(***************************************************************************)
EXTENDS LcdCtrlr, TLAPS

USE ConstantsAssumption DEF Procs

(* TypeOK in three parts: the flags, which Zenon handles best; the control   *)
(* state; and the registers and what they are computed from, with the locals *)
(* that are set where they are used.                                         *)
FlagTypes ==
    /\ pending \in BOOLEAN /\ len \in BOOLEAN /\ scanning \in BOOLEAN
    /\ lcdPower \in BOOLEAN /\ backlight \in BOOLEAN /\ gpio \in BOOLEAN
    /\ wantOn \in BOOLEAN

FlowTypes ==
    /\ state \in States /\ task_state \in Requests \cup {None}
    /\ sem \in Procs \cup {None} /\ running \in Procs \cup {None}
    /\ pc \in [Procs -> Labels] /\ req \in [Procs -> Requests \cup {None}]
    /\ level \in 0..2

HwSet == [rest : Modes \cup {None}, ctl3 : Ctl3 \cup {None}]

RegTypes ==
    /\ var \in Modes /\ freq \in Freqs /\ newf \in Freqs
    /\ newRegs \in RegSet \cup {None} /\ shadow \in RegSet
    /\ hw \in HwSet /\ tmp \in Ctl3 \cup {None}
    /\ pc["con"] = "store" => newRegs \in RegSet
    /\ pc["cpufreq"] = "rmw2" => tmp \in Ctl3

(* Where set_ctrlr_state has the semaphore.                                  *)
Inside == {"disable", "wait", "ctl3", "rest", "power", "up"}

(* The holder of the semaphore is the one flow of control inside.            *)
Exclusion == \A p \in Procs : pc[p] \in Inside <=> sem = p

(* What fbi->state says of the controller once nobody is inside.             *)
Matches ==
    /\ len => state = "ENABLE"
    /\ state = "ENABLE" => WithPM \/ len

(* What holds at each place inside: the controller is off from the moment it *)
(* was disabled to the last register, and fbi->state says "ENABLE" on the    *)
(* way up and in a REENABLE, something else on the way down.                 *)
Inner(p) ==
    /\ pc[p] = "disable" => (req[p] = "REENABLE" <=> state = "ENABLE")
    /\ pc[p] = "wait" => ~len /\ (req[p] = "REENABLE" <=> state = "ENABLE")
    /\ pc[p] \in {"ctl3", "rest"} => ~len /\ state = "ENABLE"
    /\ pc[p] = "power" => state = "ENABLE" /\ Matches
    /\ pc[p] = "up" => Matches

(* Only a kernel with power management suspends, and only keventd takes an   *)
(* unblank request into set_ctrlr_state.                                     *)
Placed ==
    /\ pc["pm"] # "idle" => WithPM
    /\ \A p \in Procs : pc[p] = "down" /\ req[p] = "ENABLE" => p = "worker"

IInv ==
    /\ FlagTypes /\ FlowTypes /\ RegTypes
    /\ Exclusion
    /\ sem = None => Matches
    /\ \A p \in Procs : Inner(p)
    /\ Placed

-----------------------------------------------------------------------------
(* Every step keeps the flags in BOOLEAN.                                    *)
LEMMA FlagStep ==
    FlagTypes /\ [Next]_vars => FlagTypes'
<1> SUFFICES ASSUME FlagTypes, [Next]_vars PROVE FlagTypes'
    OBVIOUS
<1> USE DEF FlagTypes, ScheduleWork, task, panel, ctrlr, clock, con
<1>1. ASSUME NEW p \in {"worker", "cpufreq", "pm"}, SetCtrlrState(p)
      PROVE  FlagTypes'
  <2>1. CASE Block(p)
    BY Zenon, <2>1 DEF Block
  <2>2. CASE Ignore(p)
    BY Zenon, <2>2 DEF Ignore
  <2>3. CASE DisableForClock(p)
    BY Zenon, <2>3 DEF DisableForClock
  <2>4. CASE Disable(p)
    BY Zenon, <2>4 DEF Disable
  <2>5. CASE EnableAfterClock(p)
    BY Zenon, <2>5 DEF EnableAfterClock
  <2>6. CASE Reenable(p)
    BY Zenon, <2>6 DEF Reenable
  <2>7. CASE Enable(p)
    BY Zenon, <2>7 DEF Enable
  <2>8. CASE ClearLen(p)
    BY Zenon, <2>8 DEF ClearLen
  <2>9. CASE Waited(p)
    BY Zenon, <2>9 DEF Waited
  <2>10. CASE WriteCtl3(p)
    BY Zenon, <2>10 DEF WriteCtl3
  <2>11. CASE WriteRest(p)
    BY Zenon, <2>11 DEF WriteRest
  <2>12. CASE PowerOn(p)
    BY Zenon, <2>12 DEF PowerOn
  <2>13. CASE Up(p)
    BY Zenon, <2>13 DEF Up
  <2> QED
    BY <1>1, <2>1, <2>2, <2>3, <2>4, <2>5, <2>6, <2>7, <2>8, <2>9, <2>10, <2>11, <2>12, <2>13 DEF SetCtrlrState
<1>2. CASE FrameDone
    BY Zenon, <1>2 DEF FrameDone
<1>3. CASE WorkRun
    BY Zenon, <1>3 DEF WorkRun
<1>4. CASE Xchg
    BY Zenon, <1>4 DEF Xchg
<1>5. CASE SetSpeed
    BY Zenon, <1>5 DEF SetSpeed
<1>6. CASE ReadCtl3
    BY Zenon, <1>6 DEF ReadCtl3
<1>7. CASE WriteBackCtl3
    BY Zenon, <1>7 DEF WriteBackCtl3
<1>8. CASE Suspend
    BY Zenon, <1>8 DEF Suspend
<1>9. CASE SuspendPowerDown
    BY Zenon, <1>9 DEF SuspendPowerDown
<1>10. CASE Sleep
    BY Zenon, <1>10 DEF Sleep
<1>11. CASE Activate
    BY Zenon, <1>11 DEF Activate
<1>12. CASE Store
    BY Zenon, <1>12 DEF Store
<1>13. CASE Compare
    BY Zenon, <1>13 DEF Compare
<1>14. ASSUME NEW f \in Freqs, CpufreqTransition(f)
      PROVE  FlagTypes'
    BY Zenon, <1>14 DEF CpufreqTransition
<1>15. ASSUME NEW on \in BOOLEAN, Blank(on)
      PROVE  FlagTypes'
    BY Zenon, <1>15 DEF Blank
<1>16. ASSUME NEW m \in Modes, SetPar(m)
      PROVE  FlagTypes'
    BY Zenon, <1>16 DEF SetPar
<1>17. CASE UNCHANGED vars
    BY Zenon, <1>17 DEF vars, task, panel, ctrlr, clock, con
<1> QED
    BY <1>1, <1>2, <1>3, <1>4, <1>5, <1>6, <1>7, <1>8, <1>9, <1>10, <1>11, <1>12, <1>13, <1>14, <1>15, <1>16, <1>17 DEF Next

(* Every step keeps the control state in its types.                         *)
LEMMA FlowStep ==
    FlowTypes /\ [Next]_vars => FlowTypes'
<1> SUFFICES ASSUME FlowTypes, [Next]_vars PROVE FlowTypes'
    OBVIOUS
<1> USE DEF FlowTypes, At, Goto, Call, Down, ScheduleWork, task
<1>1. ASSUME NEW p \in {"worker", "cpufreq", "pm"}, SetCtrlrState(p)
      PROVE  FlowTypes'
  <2>1. CASE Block(p)
    BY <2>1 DEF Block, States, Requests, Labels
  <2>2. CASE Ignore(p)
    BY <2>2 DEF Ignore, States, Requests, Labels
  <2>3. CASE DisableForClock(p)
    BY <2>3 DEF DisableForClock, States, Requests, Labels
  <2>4. CASE Disable(p)
    BY <2>4 DEF Disable, States, Requests, Labels
  <2>5. CASE EnableAfterClock(p)
    BY <2>5 DEF EnableAfterClock, States, Requests, Labels
  <2>6. CASE Reenable(p)
    BY <2>6 DEF Reenable, States, Requests, Labels
  <2>7. CASE Enable(p)
    BY <2>7 DEF Enable, States, Requests, Labels
  <2>8. CASE ClearLen(p)
    BY <2>8 DEF ClearLen, States, Requests, Labels
  <2>9. CASE Waited(p)
    BY <2>9 DEF Waited, States, Requests, Labels
  <2>10. CASE WriteCtl3(p)
    BY <2>10 DEF WriteCtl3, States, Requests, Labels
  <2>11. CASE WriteRest(p)
    BY <2>11 DEF WriteRest, States, Requests, Labels
  <2>12. CASE PowerOn(p)
    BY <2>12 DEF PowerOn, States, Requests, Labels
  <2>13. CASE Up(p)
    BY <2>13 DEF Up, States, Requests, Labels
  <2> QED
    BY <1>1, <2>1, <2>2, <2>3, <2>4, <2>5, <2>6, <2>7, <2>8, <2>9, <2>10, <2>11, <2>12, <2>13 DEF SetCtrlrState
<1>2. CASE FrameDone
    BY <1>2 DEF FrameDone, States, Requests, Labels
<1>3. CASE WorkRun
    BY <1>3 DEF WorkRun, States, Requests, Labels
<1>4. CASE Xchg
    BY <1>4 DEF Xchg, States, Requests, Labels
<1>5. CASE SetSpeed
    BY <1>5 DEF SetSpeed, States, Requests, Labels
<1>6. CASE ReadCtl3
    BY <1>6 DEF ReadCtl3, States, Requests, Labels
<1>7. CASE WriteBackCtl3
    BY <1>7 DEF WriteBackCtl3, States, Requests, Labels
<1>8. CASE Suspend
    BY <1>8 DEF Suspend, States, Requests, Labels
<1>9. CASE SuspendPowerDown
    BY <1>9 DEF SuspendPowerDown, States, Requests, Labels
<1>10. CASE Sleep
    BY <1>10 DEF Sleep, States, Requests, Labels
<1>11. CASE Activate
    BY <1>11 DEF Activate, States, Requests, Labels
<1>12. CASE Store
    BY <1>12 DEF Store, States, Requests, Labels
<1>13. CASE Compare
    BY <1>13 DEF Compare, States, Requests, Labels, Merge
<1>14. ASSUME NEW f \in Freqs, CpufreqTransition(f)
      PROVE  FlowTypes'
    BY <1>14 DEF CpufreqTransition, States, Requests, Labels
<1>15. ASSUME NEW on \in BOOLEAN, Blank(on)
      PROVE  FlowTypes'
    BY <1>15 DEF Blank, States, Requests, Labels, Merge
<1>16. ASSUME NEW m \in Modes, SetPar(m)
      PROVE  FlowTypes'
    BY <1>16 DEF SetPar, States, Requests, Labels
<1>17. CASE UNCHANGED vars
    BY <1>17 DEF vars, task, panel, ctrlr, clock, con
<1> QED
    BY <1>1, <1>2, <1>3, <1>4, <1>5, <1>6, <1>7, <1>8, <1>9, <1>10, <1>11, <1>12, <1>13, <1>14, <1>15, <1>16, <1>17 DEF Next

(* The register sets, as the provers see them: what the driver's assignments *)
(* make of a register set is one.                                            *)
LEMMA RegsAreRegs ==
    ASSUME NEW m \in Modes, NEW f \in Freqs
    PROVE  Regs(m, f) \in RegSet
BY DEF Regs, RegSet, Ctl3

(* The fields of a set of registers.                                         *)
LEMMA RegFields ==
    ASSUME NEW r \in RegSet
    PROVE  r.rest \in Modes /\ r.ctl3 \in Ctl3
BY DEF RegSet

(* A new divisor makes a control register of the right type.                 *)
LEMMA NewDivisor ==
    ASSUME NEW c \in Ctl3, NEW m \in Modes, NEW f \in Freqs
    PROVE  [c EXCEPT !.pix = m, !.clk = f] \in Ctl3
BY DEF Ctl3

(* So does writing that register to the shadow.                              *)
LEMMA NewCtl3 ==
    ASSUME NEW r \in RegSet, NEW c \in Ctl3
    PROVE  [r EXCEPT !.ctl3 = c] \in RegSet
BY DEF RegSet

(* And writing either part to the controller, or resetting it.               *)
LEMMA HwWrites ==
    ASSUME NEW h \in HwSet, NEW c \in Ctl3, NEW m \in Modes
    PROVE  /\ [h EXCEPT !.ctl3 = c] \in HwSet
           /\ [h EXCEPT !.rest = m] \in HwSet
           /\ ResetRegs \in HwSet
BY DEF HwSet, ResetRegs

(* Every step keeps the registers and the locals in their types.            *)
LEMMA RegStep ==
    FlowTypes /\ RegTypes /\ [Next]_vars => RegTypes'
<1> SUFFICES ASSUME FlowTypes /\ RegTypes, [Next]_vars PROVE RegTypes'
    OBVIOUS
<1> USE DEF RegTypes, FlowTypes, At, Goto, Call, Down
<1>1. ASSUME NEW p \in {"worker", "cpufreq", "pm"}, SetCtrlrState(p)
      PROVE  RegTypes'
  <2>1. CASE Block(p)
    BY <2>1 DEF Block, ctrlr, clock, con
  <2>2. CASE Ignore(p)
    BY <2>2 DEF Ignore, ctrlr, clock, con
  <2>3. CASE DisableForClock(p)
    BY <2>3 DEF DisableForClock, ctrlr, clock, con
  <2>4. CASE Disable(p)
    BY <2>4 DEF Disable, ctrlr, clock, con
  <2>5. CASE EnableAfterClock(p)
    BY <2>5 DEF EnableAfterClock, ctrlr, clock, con
  <2>6. CASE Reenable(p)
    BY <2>6 DEF Reenable, ctrlr, clock, con
  <2>7. CASE Enable(p)
    BY <2>7 DEF Enable, ctrlr, clock, con
  <2>8. CASE ClearLen(p)
    BY <2>8 DEF ClearLen, ctrlr, clock, con
  <2>9. CASE Waited(p)
    BY <2>9 DEF Waited, ctrlr, clock, con
  <2>10. CASE WriteCtl3(p)
    BY <2>10, RegFields, HwWrites DEF WriteCtl3, clock, con
  <2>11. CASE WriteRest(p)
    BY <2>11, RegFields, HwWrites DEF WriteRest, clock, con
  <2>12. CASE PowerOn(p)
    BY <2>12 DEF PowerOn, ctrlr, clock, con
  <2>13. CASE Up(p)
    BY <2>13 DEF Up, ctrlr, clock, con
  <2> QED
    BY <1>1, <2>1, <2>2, <2>3, <2>4, <2>5, <2>6, <2>7, <2>8, <2>9, <2>10, <2>11, <2>12, <2>13 DEF SetCtrlrState
<1>2. CASE FrameDone
    BY <1>2 DEF FrameDone, ctrlr, clock, con
<1>3. CASE WorkRun
    BY <1>3 DEF WorkRun, ctrlr, clock, con
<1>4. CASE Xchg
    BY <1>4 DEF Xchg, ctrlr, clock, con
<1>5. CASE SetSpeed
    BY <1>5 DEF SetSpeed, ctrlr, con
<1>6. CASE ReadCtl3
    BY <1>6, RegFields, NewDivisor DEF ReadCtl3, ctrlr, con
<1>7. CASE WriteBackCtl3
    BY <1>7, NewCtl3 DEF WriteBackCtl3, ctrlr, con
<1>8. CASE Suspend
    BY <1>8 DEF Suspend, ctrlr, clock, con
<1>9. CASE SuspendPowerDown
    BY <1>9 DEF SuspendPowerDown, ctrlr, clock, con
<1>10. CASE Sleep
    BY <1>10, RegFields, HwWrites DEF Sleep, clock, con
<1>11. CASE Activate
    BY <1>11, RegsAreRegs DEF Activate, ctrlr, clock
<1>12. CASE Store
    BY <1>12 DEF Store, ctrlr, clock
<1>13. CASE Compare
    BY <1>13 DEF Compare, ctrlr, clock, con
<1>14. ASSUME NEW f \in Freqs, CpufreqTransition(f)
      PROVE  RegTypes'
    BY <1>14 DEF CpufreqTransition, ctrlr, con
<1>15. ASSUME NEW on \in BOOLEAN, Blank(on)
      PROVE  RegTypes'
    BY <1>15 DEF Blank, ctrlr, clock, con
<1>16. ASSUME NEW m \in Modes, SetPar(m)
      PROVE  RegTypes'
    BY <1>16 DEF SetPar, ctrlr, clock
<1>17. CASE UNCHANGED vars
    BY <1>17 DEF vars, task, panel, ctrlr, clock, con
<1> QED
    BY <1>1, <1>2, <1>3, <1>4, <1>5, <1>6, <1>7, <1>8, <1>9, <1>10, <1>11, <1>12, <1>13, <1>14, <1>15, <1>16, <1>17 DEF Next

(* Only the holder of the semaphore is inside set_ctrlr_state.               *)
LEMMA ExclusionStep ==
    IInv /\ [Next]_vars => Exclusion'
<1> SUFFICES ASSUME IInv, [Next]_vars PROVE Exclusion'
    OBVIOUS
<1> USE DEF IInv, FlagTypes, FlowTypes, Exclusion, Inside, At, Goto, Call, Down, ScheduleWork, task, panel, ctrlr, clock, con
<1>1. ASSUME NEW p \in {"worker", "cpufreq", "pm"}, SetCtrlrState(p)
      PROVE  Exclusion'
  <2>1. CASE Block(p)
    BY <2>1 DEF Block
  <2>2. CASE Ignore(p)
    BY <2>2 DEF Ignore
  <2>3. CASE DisableForClock(p)
    BY <2>3 DEF DisableForClock
  <2>4. CASE Disable(p)
    BY <2>4 DEF Disable
  <2>5. CASE EnableAfterClock(p)
    BY <2>5 DEF EnableAfterClock
  <2>6. CASE Reenable(p)
    BY <2>6 DEF Reenable
  <2>7. CASE Enable(p)
    BY <2>7 DEF Enable
  <2>8. CASE ClearLen(p)
    BY <2>8 DEF ClearLen
  <2>9. CASE Waited(p)
    BY <2>9 DEF Waited
  <2>10. CASE WriteCtl3(p)
    BY <2>10 DEF WriteCtl3
  <2>11. CASE WriteRest(p)
    BY <2>11 DEF WriteRest
  <2>12. CASE PowerOn(p)
    BY <2>12 DEF PowerOn
  <2>13. CASE Up(p)
    BY <2>13 DEF Up
  <2> QED
    BY <1>1, <2>1, <2>2, <2>3, <2>4, <2>5, <2>6, <2>7, <2>8, <2>9, <2>10, <2>11, <2>12, <2>13 DEF SetCtrlrState
<1>2. CASE FrameDone
    BY <1>2 DEF FrameDone
<1>3. CASE WorkRun
    BY <1>3 DEF WorkRun
<1>4. CASE Xchg
    BY <1>4 DEF Xchg
<1>5. CASE SetSpeed
    BY <1>5 DEF SetSpeed
<1>6. CASE ReadCtl3
    BY <1>6 DEF ReadCtl3
<1>7. CASE WriteBackCtl3
    BY <1>7 DEF WriteBackCtl3
<1>8. CASE Suspend
    BY <1>8 DEF Suspend
<1>9. CASE SuspendPowerDown
    BY <1>9 DEF SuspendPowerDown
<1>10. CASE Sleep
    BY <1>10 DEF Sleep
<1>11. CASE Activate
    BY <1>11 DEF Activate
<1>12. CASE Store
    BY <1>12 DEF Store
<1>13. CASE Compare
    BY <1>13 DEF Compare
<1>14. ASSUME NEW f \in Freqs, CpufreqTransition(f)
      PROVE  Exclusion'
    BY <1>14 DEF CpufreqTransition
<1>15. ASSUME NEW on \in BOOLEAN, Blank(on)
      PROVE  Exclusion'
    BY <1>15 DEF Blank
<1>16. ASSUME NEW m \in Modes, SetPar(m)
      PROVE  Exclusion'
    BY <1>16 DEF SetPar
<1>17. CASE UNCHANGED vars
    BY <1>17 DEF vars, task, panel, ctrlr, clock, con
<1> QED
    BY <1>1, <1>2, <1>3, <1>4, <1>5, <1>6, <1>7, <1>8, <1>9, <1>10, <1>11, <1>12, <1>13, <1>14, <1>15, <1>16, <1>17 DEF Next

(* What fbi->state says once the semaphore is free.                          *)
LEMMA MatchesStep ==
    IInv /\ [Next]_vars => (sem = None => Matches)'
<1> SUFFICES ASSUME IInv, [Next]_vars PROVE (sem = None => Matches)'
    OBVIOUS
<1> USE DEF IInv, FlagTypes, FlowTypes, Exclusion, Inside, Inner, Matches, Placed, At, Goto, Call, Down, Skips, ScheduleWork, task, panel, ctrlr, clock, con
<1>1. ASSUME NEW p \in {"worker", "cpufreq", "pm"}, SetCtrlrState(p)
      PROVE  (sem = None => Matches)'
  <2>1. CASE Block(p)
    BY <2>1 DEF Block
  <2>2. CASE Ignore(p)
    BY <2>2 DEF Ignore
  <2>3. CASE DisableForClock(p)
    BY <2>3 DEF DisableForClock
  <2>4. CASE Disable(p)
    BY <2>4 DEF Disable
  <2>5. CASE EnableAfterClock(p)
    BY <2>5 DEF EnableAfterClock
  <2>6. CASE Reenable(p)
    BY <2>6 DEF Reenable
  <2>7. CASE Enable(p)
    BY <2>7 DEF Enable
  <2>8. CASE ClearLen(p)
    BY <2>8 DEF ClearLen
  <2>9. CASE Waited(p)
    BY <2>9 DEF Waited
  <2>10. CASE WriteCtl3(p)
    BY <2>10 DEF WriteCtl3
  <2>11. CASE WriteRest(p)
    BY <2>11 DEF WriteRest
  <2>12. CASE PowerOn(p)
    BY <2>12 DEF PowerOn
  <2>13. CASE Up(p)
    BY <2>13 DEF Up
  <2> QED
    BY <1>1, <2>1, <2>2, <2>3, <2>4, <2>5, <2>6, <2>7, <2>8, <2>9, <2>10, <2>11, <2>12, <2>13 DEF SetCtrlrState
<1>2. CASE FrameDone
    BY <1>2 DEF FrameDone
<1>3. CASE WorkRun
    BY <1>3 DEF WorkRun
<1>4. CASE Xchg
    BY <1>4 DEF Xchg
<1>5. CASE SetSpeed
    BY <1>5 DEF SetSpeed
<1>6. CASE ReadCtl3
    BY <1>6 DEF ReadCtl3
<1>7. CASE WriteBackCtl3
    BY <1>7 DEF WriteBackCtl3
<1>8. CASE Suspend
    BY <1>8 DEF Suspend
<1>9. CASE SuspendPowerDown
    BY <1>9 DEF SuspendPowerDown
<1>10. CASE Sleep
    BY <1>10 DEF Sleep
<1>11. CASE Activate
    BY <1>11 DEF Activate
<1>12. CASE Store
    BY <1>12 DEF Store
<1>13. CASE Compare
    BY <1>13 DEF Compare
<1>14. ASSUME NEW f \in Freqs, CpufreqTransition(f)
      PROVE  (sem = None => Matches)'
    BY <1>14 DEF CpufreqTransition
<1>15. ASSUME NEW on \in BOOLEAN, Blank(on)
      PROVE  (sem = None => Matches)'
    BY <1>15 DEF Blank
<1>16. ASSUME NEW m \in Modes, SetPar(m)
      PROVE  (sem = None => Matches)'
    BY <1>16 DEF SetPar
<1>17. CASE UNCHANGED vars
    BY <1>17 DEF vars, task, panel, ctrlr, clock, con
<1> QED
    BY <1>1, <1>2, <1>3, <1>4, <1>5, <1>6, <1>7, <1>8, <1>9, <1>10, <1>11, <1>12, <1>13, <1>14, <1>15, <1>16, <1>17 DEF Next

(* What holds at each place inside set_ctrlr_state.                          *)
LEMMA InnerStep ==
    IInv /\ [Next]_vars => (\A q \in Procs : Inner(q))'
<1> SUFFICES ASSUME IInv, [Next]_vars PROVE (\A q \in Procs : Inner(q))'
    OBVIOUS
<1> USE DEF IInv, FlagTypes, FlowTypes, Exclusion, Inside, Inner, Matches, Placed, At, Goto, Call, Down, Skips, ScheduleWork, task, panel, ctrlr, clock, con
<1>1. ASSUME NEW p \in {"worker", "cpufreq", "pm"}, SetCtrlrState(p)
      PROVE  (\A q \in Procs : Inner(q))'
  <2>1. CASE Block(p)
    BY <2>1 DEF Block
  <2>2. CASE Ignore(p)
    BY <2>2 DEF Ignore
  <2>3. CASE DisableForClock(p)
    BY <2>3 DEF DisableForClock
  <2>4. CASE Disable(p)
    BY <2>4 DEF Disable
  <2>5. CASE EnableAfterClock(p)
    BY <2>5 DEF EnableAfterClock
  <2>6. CASE Reenable(p)
    BY <2>6 DEF Reenable
  <2>7. CASE Enable(p)
    BY <2>7 DEF Enable
  <2>8. CASE ClearLen(p)
    BY <2>8 DEF ClearLen
  <2>9. CASE Waited(p)
    BY <2>9 DEF Waited
  <2>10. CASE WriteCtl3(p)
    BY <2>10 DEF WriteCtl3
  <2>11. CASE WriteRest(p)
    BY <2>11 DEF WriteRest
  <2>12. CASE PowerOn(p)
    BY <2>12 DEF PowerOn
  <2>13. CASE Up(p)
    BY <2>13 DEF Up
  <2> QED
    BY <1>1, <2>1, <2>2, <2>3, <2>4, <2>5, <2>6, <2>7, <2>8, <2>9, <2>10, <2>11, <2>12, <2>13 DEF SetCtrlrState
<1>2. CASE FrameDone
    BY <1>2 DEF FrameDone
<1>3. CASE WorkRun
    BY <1>3 DEF WorkRun
<1>4. CASE Xchg
    BY <1>4 DEF Xchg
<1>5. CASE SetSpeed
    BY <1>5 DEF SetSpeed
<1>6. CASE ReadCtl3
    BY <1>6 DEF ReadCtl3
<1>7. CASE WriteBackCtl3
    BY <1>7 DEF WriteBackCtl3
<1>8. CASE Suspend
    BY <1>8 DEF Suspend
<1>9. CASE SuspendPowerDown
    BY <1>9 DEF SuspendPowerDown
<1>10. CASE Sleep
    BY <1>10 DEF Sleep
<1>11. CASE Activate
    BY <1>11 DEF Activate
<1>12. CASE Store
    BY <1>12 DEF Store
<1>13. CASE Compare
    BY <1>13 DEF Compare
<1>14. ASSUME NEW f \in Freqs, CpufreqTransition(f)
      PROVE  (\A q \in Procs : Inner(q))'
    BY <1>14 DEF CpufreqTransition
<1>15. ASSUME NEW on \in BOOLEAN, Blank(on)
      PROVE  (\A q \in Procs : Inner(q))'
    BY <1>15 DEF Blank
<1>16. ASSUME NEW m \in Modes, SetPar(m)
      PROVE  (\A q \in Procs : Inner(q))'
    BY <1>16 DEF SetPar
<1>17. CASE UNCHANGED vars
    BY <1>17 DEF vars, task, panel, ctrlr, clock, con
<1> QED
    BY <1>1, <1>2, <1>3, <1>4, <1>5, <1>6, <1>7, <1>8, <1>9, <1>10, <1>11, <1>12, <1>13, <1>14, <1>15, <1>16, <1>17 DEF Next

(* A suspended board has power management.                                   *)
LEMMA PlacedStep ==
    IInv /\ [Next]_vars => Placed'
<1> SUFFICES ASSUME IInv, [Next]_vars PROVE Placed'
    OBVIOUS
<1> USE DEF IInv, FlowTypes, Placed, At, Goto, Call, Down, ScheduleWork, task, panel, ctrlr, clock, con
<1>1. ASSUME NEW p \in {"worker", "cpufreq", "pm"}, SetCtrlrState(p)
      PROVE  Placed'
  <2>1. CASE Block(p)
    BY <2>1 DEF Block
  <2>2. CASE Ignore(p)
    BY <2>2 DEF Ignore
  <2>3. CASE DisableForClock(p)
    BY <2>3 DEF DisableForClock
  <2>4. CASE Disable(p)
    BY <2>4 DEF Disable
  <2>5. CASE EnableAfterClock(p)
    BY <2>5 DEF EnableAfterClock
  <2>6. CASE Reenable(p)
    BY <2>6 DEF Reenable
  <2>7. CASE Enable(p)
    BY <2>7 DEF Enable
  <2>8. CASE ClearLen(p)
    BY <2>8 DEF ClearLen
  <2>9. CASE Waited(p)
    BY <2>9 DEF Waited
  <2>10. CASE WriteCtl3(p)
    BY <2>10 DEF WriteCtl3
  <2>11. CASE WriteRest(p)
    BY <2>11 DEF WriteRest
  <2>12. CASE PowerOn(p)
    BY <2>12 DEF PowerOn
  <2>13. CASE Up(p)
    BY <2>13 DEF Up
  <2> QED
    BY <1>1, <2>1, <2>2, <2>3, <2>4, <2>5, <2>6, <2>7, <2>8, <2>9, <2>10, <2>11, <2>12, <2>13 DEF SetCtrlrState
<1>2. CASE FrameDone
    BY <1>2 DEF FrameDone
<1>3. CASE WorkRun
    BY <1>3 DEF WorkRun
<1>4. CASE Xchg
    BY <1>4 DEF Xchg
<1>5. CASE SetSpeed
    BY <1>5 DEF SetSpeed
<1>6. CASE ReadCtl3
    BY <1>6 DEF ReadCtl3
<1>7. CASE WriteBackCtl3
    BY <1>7 DEF WriteBackCtl3
<1>8. CASE Suspend
    BY <1>8 DEF Suspend
<1>9. CASE SuspendPowerDown
    BY <1>9 DEF SuspendPowerDown
<1>10. CASE Sleep
    BY <1>10 DEF Sleep
<1>11. CASE Activate
    BY <1>11 DEF Activate
<1>12. CASE Store
    BY <1>12 DEF Store
<1>13. CASE Compare
    BY <1>13 DEF Compare
<1>14. ASSUME NEW f \in Freqs, CpufreqTransition(f)
      PROVE  Placed'
    BY <1>14 DEF CpufreqTransition
<1>15. ASSUME NEW on \in BOOLEAN, Blank(on)
      PROVE  Placed'
    BY <1>15 DEF Blank
<1>16. ASSUME NEW m \in Modes, SetPar(m)
      PROVE  Placed'
    BY <1>16 DEF SetPar
<1>17. CASE UNCHANGED vars
    BY <1>17 DEF vars, task, panel, ctrlr, clock, con
<1> QED
    BY <1>1, <1>2, <1>3, <1>4, <1>5, <1>6, <1>7, <1>8, <1>9, <1>10, <1>11, <1>12, <1>13, <1>14, <1>15, <1>16, <1>17 DEF Next

-----------------------------------------------------------------------------
(* The invariant holds initially, every step preserves it.                   *)
LEMMA Initially == Init => IInv
<1> SUFFICES ASSUME Init PROVE IInv
    OBVIOUS
<1>1. FlagTypes
    BY Zenon DEF Init, FlagTypes
<1>2. FlowTypes
    BY DEF Init, FlowTypes, States, Requests, Labels
<1>3. RegTypes
  <2>1. hw \in HwSet
    BY DEF Init, HwSet, ResetRegs
  <2> QED
    BY <2>1, RegsAreRegs DEF Init, RegTypes
<1>4. Exclusion /\ Matches /\ Placed /\ \A p \in Procs : Inner(p)
    BY DEF Init, Exclusion, Inside, Matches, Inner, Placed
<1> QED
    BY <1>1, <1>2, <1>3, <1>4 DEF IInv

(* Every step keeps the invariant.                                           *)
LEMMA Inductive == IInv /\ [Next]_vars => IInv'
<1> SUFFICES ASSUME IInv, [Next]_vars PROVE IInv'
    OBVIOUS
<1>1. FlagTypes' /\ FlowTypes' /\ RegTypes'
    BY FlagStep, FlowStep, RegStep DEF IInv
<1>2. Exclusion'
    BY ExclusionStep
<1>3. (sem = None => Matches)'
    BY MatchesStep
<1>4. (\A q \in Procs : Inner(q))'
    BY InnerStep
<1>5. Placed'
    BY PlacedStep
<1> QED
    BY <1>1, <1>2, <1>3, <1>4, <1>5 DEF IInv

(* The invariant holds in every reachable state.                             *)
LEMMA Invariance == Spec => []IInv
    BY Initially, Inductive, PTL DEF Spec

-----------------------------------------------------------------------------
(* The variables keep their types: the automaton of set_ctrlr_state stays    *)
(* within its states, and no local is read before it is set.                 *)
THEOREM TypeCorrect == Spec => []TypeOK
<1>1. IInv => TypeOK
    BY DEF IInv, FlagTypes, FlowTypes, RegTypes, HwSet, TypeOK
<1> QED
    BY <1>1, Invariance, PTL

(* fbi->ctrlr_sem excludes: two flows of control are never inside            *)
(* set_ctrlr_state, between down() and up(), at once.                        *)
THEOREM MutualExclusion ==
    Spec => [](\A p, q \in Procs : pc[p] \in Inside /\ pc[q] \in Inside => p = q)
<1>1. IInv => \A p, q \in Procs : pc[p] \in Inside /\ pc[q] \in Inside => p = q
    BY DEF IInv, Exclusion
<1> QED
    BY <1>1, Invariance, PTL

(* fbi->state tells the truth about the controller whenever the semaphore is *)
(* free (set_ctrlr_state).                                                   *)
THEOREM StateIsTruthful == Spec => []StateMatchesController
<1>1. IInv => StateMatchesController
    BY DEF IInv, Matches, StateMatchesController
<1> QED
    BY <1>1, Invariance, PTL

(* The registers of a running controller are never rewritten by              *)
(* set_ctrlr_state.                                                          *)
THEOREM ProgrammedOff == Spec => ProgramOnlyWhenOff
<1>1. ASSUME IInv, [Next]_vars
      PROVE  [hw' # hw => ~len \/ hw' = ResetRegs]_vars
  <2> SUFFICES ASSUME hw' # hw PROVE ~len \/ hw' = ResetRegs
    OBVIOUS
  <2>1. ASSUME NEW p \in {"worker", "cpufreq", "pm"}, WriteCtl3(p) \/ WriteRest(p)
        PROVE  ~len
    BY <1>1, <2>1 DEF IInv, Inner, WriteCtl3, WriteRest, At
  <2>2. CASE Sleep
    BY <2>2 DEF Sleep
  <2>3. (\E p \in {"worker", "cpufreq", "pm"} : WriteCtl3(p) \/ WriteRest(p)) \/ Sleep
    BY <1>1 DEF Next, SetCtrlrState, Block, Ignore, DisableForClock, Disable,
         EnableAfterClock, Reenable, Enable, ClearLen, Waited, PowerOn, Up, FrameDone,
         WorkRun, Xchg, CpufreqTransition, SetSpeed, ReadCtl3, WriteBackCtl3, Suspend,
         SuspendPowerDown, Blank, SetPar, Activate, Store, Compare, vars, ctrlr
  <2> QED
    BY <2>1, <2>2, <2>3
<1> QED
    BY <1>1, Invariance, PTL DEF Spec, ProgramOnlyWhenOff

(* A blanked screen is lit by an unblank request only: clock changes, mode   *)
(* changes, suspend and resume leave fbi->state in C_DISABLE.                *)
THEOREM LitByUnblank == Spec => OnlyUnblankLights
<1>1. ASSUME IInv, [Next]_vars
      PROVE  [state = "DISABLE" /\ state' # "DISABLE" => req["worker"] = "ENABLE"]_vars
  <2> SUFFICES ASSUME state = "DISABLE", state' # "DISABLE" PROVE req["worker"] = "ENABLE"
    OBVIOUS
  <2>1. PICK p \in {"worker", "cpufreq", "pm"} :
           DisableForClock(p) \/ Disable(p) \/ EnableAfterClock(p) \/ Enable(p)
    BY <1>1 DEF Next, SetCtrlrState, Block, Ignore, Reenable, ClearLen, Waited, WriteCtl3,
         WriteRest, PowerOn, Up, FrameDone, WorkRun, Xchg, CpufreqTransition, SetSpeed,
         ReadCtl3, WriteBackCtl3, Suspend, SuspendPowerDown, Sleep, Blank, SetPar, Activate,
         Store, Compare, vars
  <2>2. Enable(p) /\ req[p] = "ENABLE"
    BY <2>1 DEF DisableForClock, Disable, EnableAfterClock, Enable, Skips
  <2>3. pc[p] = "down"
    BY <2>2 DEF Enable, Down, At
  <2> QED
    BY <1>1, <2>2, <2>3 DEF IInv, Placed
<1> QED
    BY <1>1, Invariance, PTL DEF Spec, OnlyUnblankLights

-----------------------------------------------------------------------------
(* Further invariants, each for some of the flags.                           *)

(* Whose request is whose: only keventd has what sa1100fb_schedule_work      *)
(* left, only cpufreq the clock change, only suspend and resume their own;   *)
(* and what each place inside set_ctrlr_state says of the request there.     *)
Owned ==
    /\ task_state \in {None, "ENABLE", "DISABLE", "REENABLE"}
    /\ req["worker"] \in {None, "ENABLE", "DISABLE", "REENABLE"}
    /\ req["cpufreq"] \in {None, "DISABLE_CLKCHANGE", "ENABLE_CLKCHANGE"}
    /\ req["pm"] \in {None, "DISABLE_PM", "ENABLE_PM", "ENABLE"}
    /\ pc["cpufreq"] = "down" => req["cpufreq"] # None
    /\ pc["pm"] = "down" => req["pm"] # None
    /\ \A p \in Procs :
         /\ pc[p] \in {"disable", "wait"} => req[p] = "REENABLE" \/ state = req[p]
         /\ pc[p] \in {"ctl3", "rest", "power"}
              => req[p] \in {"REENABLE", "ENABLE", "ENABLE_CLKCHANGE"}

(* Without suspend: the panel has power over a controller that is off in a   *)
(* REENABLE only.                                                            *)
Powered ==
    /\ sem = None => (lcdPower => len)
    /\ \A p \in Procs :
         /\ pc[p] \in {"disable", "wait", "ctl3", "rest"} => (lcdPower => req[p] = "REENABLE")
         /\ pc[p] \in {"power", "up"} => (lcdPower => len)

(* Without preemption: whoever is not asleep has the processor.              *)
Awake == \A p \in Procs : pc[p] \notin {"idle", "down", "wait", "suspended"} => running = p

(* Without preemption: the controller stays off from CPUFREQ_PRECHANGE to    *)
(* CPUFREQ_POSTCHANGE.                                                       *)
Darkened ==
    /\ pc["cpufreq"] \in {"setspeed", "rmw", "rmw2"} => ~len
    /\ pc["cpufreq"] = "up" /\ req["cpufreq"] = "DISABLE_CLKCHANGE" => ~len

(* Without preemption: every copy of the divisor is for the present clock,   *)
(* except between PPCR and the end of the read-modify-write.                 *)
Divided ==
    /\ pc["cpufreq"] \notin {"rmw", "rmw2"} => shadow.ctl3.clk = freq
    /\ pc["cpufreq"] \in {"rmw", "rmw2"} => newf = freq
    /\ pc["cpufreq"] = "rmw2" => tmp.clk = freq
    /\ pc["con"] = "store" => newRegs.ctl3.clk = freq
    /\ len \/ (\E p \in Procs : pc[p] = "rest") => hw.ctl3.clk = freq

(* With no clock change before the worker has run once: the backlight and    *)
(* the pins, which a clock change leaves as they were, were set when the     *)
(* screen was lit.                                                           *)
Lit == backlight /\ gpio

LitThroughout ==
    /\ pc["cpufreq"] # "idle" => state # "STARTUP"
    /\ sem = None => (state \in {"ENABLE", "DISABLE_CLKCHANGE"} => Lit)
    /\ \A p \in Procs :
         /\ pc[p] \in {"disable", "wait", "ctl3", "rest", "power"}
              => (req[p] \in {"REENABLE", "DISABLE_CLKCHANGE", "ENABLE_CLKCHANGE"} => Lit)
         /\ pc[p] \in {"rest", "power"} => gpio
         /\ pc[p] = "up" => (state \in {"ENABLE", "DISABLE_CLKCHANGE"} => Lit)

(* With one request at a time: it is queued, or the worker has it, or none   *)
(* is on its way.                                                            *)
OneAtATime ==
    /\ pc["con"] # "idle" => ~pending /\ pc["worker"] = "idle"
    /\ pending => pc["worker"] = "idle"
    /\ ~pending /\ pc["worker"] # "xchg" => task_state = None

(* Request r has been made and set_ctrlr_state has not yet seen it.          *)
OnItsWay(r) ==
    \/ (pending \/ pc["worker"] = "xchg") /\ task_state = r
    \/ pc["worker"] = "down" /\ req["worker"] = r

(* With one request at a time: a blank request on its way is the last one    *)
(* made, and with none on its way fbi->state is blanked or not as asked; the *)
(* states between belong to the one who will leave them.                     *)
Asked ==
    /\ OnItsWay("ENABLE") => wantOn
    /\ OnItsWay("DISABLE") => ~wantOn
    /\ ~OnItsWay("ENABLE") /\ ~OnItsWay("DISABLE") => (wantOn <=> state # "DISABLE")
    /\ state = "STARTUP" => OnItsWay("REENABLE")
    /\ state = "DISABLE_CLKCHANGE" =>
         /\ pc["cpufreq"] # "idle"
         /\ pc["cpufreq"] = "up" => req["cpufreq"] = "DISABLE_CLKCHANGE"
    /\ state = "DISABLE_PM" =>
         /\ pc["pm"] # "idle"
         /\ pc["pm"] = "up" => req["pm"] = "DISABLE_PM"

(* Requests stay with their owners.                                          *)
LEMMA OwnStep ==
    IInv /\ Owned /\ [Next]_vars => Owned'
<1> SUFFICES ASSUME IInv, Owned, [Next]_vars PROVE Owned'
    OBVIOUS
<1> USE DEF Owned, IInv, FlowTypes, Exclusion, Inside, Inner, Merge, Requests, At, Goto, Call, Down, ScheduleWork,
           task, panel, ctrlr, clock, con
<1>1. ASSUME NEW p \in {"worker", "cpufreq", "pm"}, SetCtrlrState(p)
      PROVE  Owned'
  <2>1. CASE Block(p)
    BY <2>1 DEF Block
  <2>2. CASE Ignore(p)
    BY <2>2 DEF Ignore
  <2>3. CASE DisableForClock(p)
    BY <2>3 DEF DisableForClock
  <2>4. CASE Disable(p)
    BY <2>4 DEF Disable
  <2>5. CASE EnableAfterClock(p)
    BY <2>5 DEF EnableAfterClock
  <2>6. CASE Reenable(p)
    BY <2>6 DEF Reenable
  <2>7. CASE Enable(p)
    BY <2>7 DEF Enable
  <2>8. CASE ClearLen(p)
    BY <2>8 DEF ClearLen
  <2>9. CASE Waited(p)
    BY <2>9 DEF Waited
  <2>10. CASE WriteCtl3(p)
    BY <2>10 DEF WriteCtl3
  <2>11. CASE WriteRest(p)
    BY <2>11 DEF WriteRest
  <2>12. CASE PowerOn(p)
    BY <2>12 DEF PowerOn
  <2>13. CASE Up(p)
    BY <2>13 DEF Up
  <2> QED
    BY <1>1, <2>1, <2>2, <2>3, <2>4, <2>5, <2>6, <2>7, <2>8, <2>9, <2>10, <2>11, <2>12, <2>13 DEF SetCtrlrState
<1>2. CASE FrameDone
    BY <1>2 DEF FrameDone
<1>3. CASE WorkRun
    BY <1>3 DEF WorkRun
<1>4. CASE Xchg
    BY <1>4 DEF Xchg
<1>5. CASE SetSpeed
    BY <1>5 DEF SetSpeed
<1>6. CASE ReadCtl3
    BY <1>6 DEF ReadCtl3
<1>7. CASE WriteBackCtl3
    BY <1>7 DEF WriteBackCtl3
<1>8. CASE Suspend
    BY <1>8 DEF Suspend
<1>9. CASE SuspendPowerDown
    BY <1>9 DEF SuspendPowerDown
<1>10. CASE Sleep
    BY <1>10 DEF Sleep
<1>11. CASE Activate
    BY <1>11 DEF Activate
<1>12. CASE Store
    BY <1>12 DEF Store
<1>13. CASE Compare
    BY <1>13 DEF Compare
<1>14. ASSUME NEW f \in Freqs, CpufreqTransition(f)
      PROVE  Owned'
    BY <1>14 DEF CpufreqTransition
<1>15. ASSUME NEW on \in BOOLEAN, Blank(on)
      PROVE  Owned'
    BY <1>15 DEF Blank
<1>16. ASSUME NEW m \in Modes, SetPar(m)
      PROVE  Owned'
    BY <1>16 DEF SetPar
<1>17. CASE UNCHANGED vars
    BY <1>17 DEF vars
<1> QED
    BY <1>1, <1>2, <1>3, <1>4, <1>5, <1>6, <1>7, <1>8, <1>9, <1>10, <1>11, <1>12, <1>13, <1>14, <1>15, <1>16, <1>17 DEF Next

(* The panel keeps its power over a dark controller in a REENABLE only.      *)
LEMMA PowerStep ==
    ~WithPM /\ IInv /\ Powered /\ [Next]_vars => Powered'
<1> SUFFICES ASSUME ~WithPM, IInv, Powered, [Next]_vars PROVE Powered'
    OBVIOUS
<1> USE DEF Powered, IInv, FlowTypes, Exclusion, Inside, Inner, Matches, Placed, FlagTypes, Skips,
           At, Goto, Call, Down, ScheduleWork,
           task, panel, ctrlr, clock, con
<1>1. ASSUME NEW p \in {"worker", "cpufreq", "pm"}, SetCtrlrState(p)
      PROVE  Powered'
  <2>1. CASE Block(p)
    BY <2>1 DEF Block
  <2>2. CASE Ignore(p)
    BY <2>2 DEF Ignore
  <2>3. CASE DisableForClock(p)
    BY <2>3 DEF DisableForClock
  <2>4. CASE Disable(p)
    BY <2>4 DEF Disable
  <2>5. CASE EnableAfterClock(p)
    BY <2>5 DEF EnableAfterClock
  <2>6. CASE Reenable(p)
    BY <2>6 DEF Reenable
  <2>7. CASE Enable(p)
    BY <2>7 DEF Enable
  <2>8. CASE ClearLen(p)
    BY <2>8 DEF ClearLen
  <2>9. CASE Waited(p)
    BY <2>9 DEF Waited
  <2>10. CASE WriteCtl3(p)
    BY <2>10 DEF WriteCtl3
  <2>11. CASE WriteRest(p)
    BY <2>11 DEF WriteRest
  <2>12. CASE PowerOn(p)
    BY <2>12 DEF PowerOn
  <2>13. CASE Up(p)
    BY <2>13 DEF Up
  <2> QED
    BY <1>1, <2>1, <2>2, <2>3, <2>4, <2>5, <2>6, <2>7, <2>8, <2>9, <2>10, <2>11, <2>12, <2>13 DEF SetCtrlrState
<1>2. CASE FrameDone
    BY <1>2 DEF FrameDone
<1>3. CASE WorkRun
    BY <1>3 DEF WorkRun
<1>4. CASE Xchg
    BY <1>4 DEF Xchg
<1>5. CASE SetSpeed
    BY <1>5 DEF SetSpeed
<1>6. CASE ReadCtl3
    BY <1>6 DEF ReadCtl3
<1>7. CASE WriteBackCtl3
    BY <1>7 DEF WriteBackCtl3
<1>8. CASE Suspend
    BY <1>8 DEF Suspend
<1>9. CASE SuspendPowerDown
    BY <1>9 DEF SuspendPowerDown
<1>10. CASE Sleep
    BY <1>10 DEF Sleep
<1>11. CASE Activate
    BY <1>11 DEF Activate
<1>12. CASE Store
    BY <1>12 DEF Store
<1>13. CASE Compare
    BY <1>13 DEF Compare
<1>14. ASSUME NEW f \in Freqs, CpufreqTransition(f)
      PROVE  Powered'
    BY <1>14 DEF CpufreqTransition
<1>15. ASSUME NEW on \in BOOLEAN, Blank(on)
      PROVE  Powered'
    BY <1>15 DEF Blank
<1>16. ASSUME NEW m \in Modes, SetPar(m)
      PROVE  Powered'
    BY <1>16 DEF SetPar
<1>17. CASE UNCHANGED vars
    BY <1>17 DEF vars
<1> QED
    BY <1>1, <1>2, <1>3, <1>4, <1>5, <1>6, <1>7, <1>8, <1>9, <1>10, <1>11, <1>12, <1>13, <1>14, <1>15, <1>16, <1>17 DEF Next

(* A thread that may run and goes on is the one that runs.                   *)
LEMMA RunGoto ==
    ASSUME ~Preemptible, Awake, pc \in [Procs -> Labels], NEW p \in Procs, CanRun(p),
           NEW l, Goto(p, l)
    PROVE  Awake'
<1> HIDE DEF Procs
<1>1. None \notin Procs
    BY DEF Procs
<1> SUFFICES ASSUME NEW q \in Procs, pc'[q] \notin {"idle", "down", "wait", "suspended"}
             PROVE  running' = q
    BY DEF Awake
<1>2. CASE q = p
    BY <1>2 DEF Goto
<1>3. CASE q # p
    BY <1>1, <1>3 DEF Goto, CanRun, Awake
<1> QED
    BY <1>2, <1>3
(* Whoever has been let run at all runs on.                                  *)
LEMMA RunStep ==
    ~Preemptible /\ IInv /\ Awake /\ [Next]_vars => Awake'
<1> SUFFICES ASSUME ~Preemptible, IInv, Awake, [Next]_vars PROVE Awake'
    OBVIOUS
<1>1. ASSUME NEW p \in Procs, CanRun(p), NEW l, Goto(p, l) 
      PROVE  Awake'
    BY <1>1, RunGoto DEF IInv, FlowTypes
<1>2. ASSUME NEW p \in {"worker", "cpufreq", "pm"}, SetCtrlrState(p), ~Block(p) 
      PROVE  Awake'
    BY <1>1, <1>2 DEF SetCtrlrState, Ignore, DisableForClock, Disable, EnableAfterClock, Reenable,
       Enable, ClearLen, Waited, WriteCtl3, WriteRest, PowerOn, Up, At, Down
<1>3. ASSUME NEW p \in {"worker", "cpufreq", "pm"}, Block(p) 
      PROVE  Awake'
    BY <1>3 DEF IInv, FlowTypes, Awake, Block, At
<1>4. CASE WorkRun \/ Xchg \/ SetSpeed \/ ReadCtl3 \/ WriteBackCtl3
    BY <1>1, <1>4 DEF WorkRun, Xchg, SetSpeed, ReadCtl3, WriteBackCtl3, At, Call
<1>5. CASE Suspend \/ SuspendPowerDown \/ Sleep \/ Activate \/ Store \/ Compare
    BY <1>1, <1>5 DEF Suspend, SuspendPowerDown, Sleep, Activate, Store, Compare, At, Call
<1>6. ASSUME NEW f \in Freqs, CpufreqTransition(f) 
      PROVE  Awake'
    BY <1>1, <1>6 DEF CpufreqTransition, At, Call
<1>7. ASSUME NEW m \in Modes, SetPar(m) 
      PROVE  Awake'
    BY <1>1, <1>7 DEF SetPar, At
<1>8. ASSUME NEW on \in BOOLEAN, Blank(on) 
      PROVE  Awake'
    BY <1>8 DEF Blank, Awake
<1>9. CASE FrameDone \/ UNCHANGED vars
    BY <1>9 DEF FrameDone, vars, Awake
<1> QED
    BY <1>2, <1>3, <1>4, <1>5, <1>6, <1>7, <1>8, <1>9 DEF Next

(* Nobody lights the controller during a clock change.                       *)
LEMMA DarkStep ==
    ~Preemptible /\ Owned /\ Awake /\ IInv /\ Darkened /\ [Next]_vars => Darkened'
<1> SUFFICES ASSUME ~Preemptible /\ Owned /\ Awake, IInv, Darkened, [Next]_vars PROVE Darkened'
    OBVIOUS
<1> USE DEF Darkened, IInv, FlowTypes, Exclusion, Inside, Inner, Matches, Placed, Owned, Awake, CanRun,
           FlagTypes, Skips, At, Goto, Call, Down, ScheduleWork,
           task, panel, ctrlr, clock, con
<1>1. ASSUME NEW p \in {"worker", "cpufreq", "pm"}, SetCtrlrState(p)
      PROVE  Darkened'
  <2>1. CASE Block(p)
    BY <2>1 DEF Block
  <2>2. CASE Ignore(p)
    BY <2>2 DEF Ignore
  <2>3. CASE DisableForClock(p)
    BY <2>3 DEF DisableForClock
  <2>4. CASE Disable(p)
    BY <2>4 DEF Disable
  <2>5. CASE EnableAfterClock(p)
    BY <2>5 DEF EnableAfterClock
  <2>6. CASE Reenable(p)
    BY <2>6 DEF Reenable
  <2>7. CASE Enable(p)
    BY <2>7 DEF Enable
  <2>8. CASE ClearLen(p)
    BY <2>8 DEF ClearLen
  <2>9. CASE Waited(p)
    BY <2>9 DEF Waited
  <2>10. CASE WriteCtl3(p)
    BY <2>10 DEF WriteCtl3
  <2>11. CASE WriteRest(p)
    BY <2>11 DEF WriteRest
  <2>12. CASE PowerOn(p)
    BY <2>12 DEF PowerOn
  <2>13. CASE Up(p)
    BY <2>13 DEF Up
  <2> QED
    BY <1>1, <2>1, <2>2, <2>3, <2>4, <2>5, <2>6, <2>7, <2>8, <2>9, <2>10, <2>11, <2>12, <2>13 DEF SetCtrlrState
<1>2. CASE FrameDone
    BY <1>2 DEF FrameDone
<1>3. CASE WorkRun
    BY <1>3 DEF WorkRun
<1>4. CASE Xchg
    BY <1>4 DEF Xchg
<1>5. CASE SetSpeed
    BY <1>5 DEF SetSpeed
<1>6. CASE ReadCtl3
    BY <1>6 DEF ReadCtl3
<1>7. CASE WriteBackCtl3
    BY <1>7 DEF WriteBackCtl3
<1>8. CASE Suspend
    BY <1>8 DEF Suspend
<1>9. CASE SuspendPowerDown
    BY <1>9 DEF SuspendPowerDown
<1>10. CASE Sleep
    BY <1>10 DEF Sleep
<1>11. CASE Activate
    BY <1>11 DEF Activate
<1>12. CASE Store
    BY <1>12 DEF Store
<1>13. CASE Compare
    BY <1>13 DEF Compare
<1>14. ASSUME NEW f \in Freqs, CpufreqTransition(f)
      PROVE  Darkened'
    BY <1>14 DEF CpufreqTransition
<1>15. ASSUME NEW on \in BOOLEAN, Blank(on)
      PROVE  Darkened'
    BY <1>15 DEF Blank
<1>16. ASSUME NEW m \in Modes, SetPar(m)
      PROVE  Darkened'
    BY <1>16 DEF SetPar
<1>17. CASE UNCHANGED vars
    BY <1>17 DEF vars
<1> QED
    BY <1>1, <1>2, <1>3, <1>4, <1>5, <1>6, <1>7, <1>8, <1>9, <1>10, <1>11, <1>12, <1>13, <1>14, <1>15, <1>16, <1>17 DEF Next

(* No step leaves the divisor of another clock behind.                       *)
LEMMA DivisorStep ==
    ~Preemptible /\ Awake /\ Darkened /\ IInv /\ Divided /\ [Next]_vars => Divided'
<1> SUFFICES ASSUME ~Preemptible /\ Awake /\ Darkened, IInv, Divided, [Next]_vars PROVE Divided'
    OBVIOUS
<1> USE DEF Divided, IInv, FlowTypes, RegTypes, Awake, Darkened, CanRun,
           At, Goto, Call, Down, ScheduleWork,
           task, panel, ctrlr, clock, con
<1>1. ASSUME NEW p \in {"worker", "cpufreq", "pm"}, SetCtrlrState(p)
      PROVE  Divided'
  <2>1. CASE Block(p)
    BY <2>1 DEF Block
  <2>2. CASE Ignore(p)
    BY <2>2 DEF Ignore
  <2>3. CASE DisableForClock(p)
    BY <2>3 DEF DisableForClock
  <2>4. CASE Disable(p)
    BY <2>4 DEF Disable
  <2>5. CASE EnableAfterClock(p)
    BY <2>5 DEF EnableAfterClock
  <2>6. CASE Reenable(p)
    BY <2>6 DEF Reenable
  <2>7. CASE Enable(p)
    BY <2>7 DEF Enable
  <2>8. CASE ClearLen(p)
    BY <2>8 DEF ClearLen
  <2>9. CASE Waited(p)
    BY <2>9 DEF Waited
  <2>10. CASE WriteCtl3(p)
    BY <2>10, RegFields DEF WriteCtl3, HwSet
  <2>11. CASE WriteRest(p)
    BY <2>11 DEF WriteRest, HwSet
  <2>12. CASE PowerOn(p)
    BY <2>12 DEF PowerOn
  <2>13. CASE Up(p)
    BY <2>13 DEF Up
  <2> QED
    BY <1>1, <2>1, <2>2, <2>3, <2>4, <2>5, <2>6, <2>7, <2>8, <2>9, <2>10, <2>11, <2>12, <2>13 DEF SetCtrlrState
<1>2. CASE FrameDone
    BY <1>2 DEF FrameDone
<1>3. CASE WorkRun
    BY <1>3 DEF WorkRun
<1>4. CASE Xchg
    BY <1>4 DEF Xchg
<1>5. CASE SetSpeed
    BY <1>5 DEF SetSpeed
<1>6. CASE ReadCtl3
    BY <1>6, RegFields DEF ReadCtl3, Ctl3
<1>7. CASE WriteBackCtl3
    BY <1>7 DEF WriteBackCtl3, RegSet
<1>8. CASE Suspend
    BY <1>8 DEF Suspend
<1>9. CASE SuspendPowerDown
    BY <1>9 DEF SuspendPowerDown
<1>10. CASE Sleep
    BY <1>10 DEF Sleep, HwSet, ResetRegs
<1>11. CASE Activate
    BY <1>11 DEF Activate, Regs
<1>12. CASE Store
    BY <1>12 DEF Store
<1>13. CASE Compare
    BY <1>13 DEF Compare
<1>14. ASSUME NEW f \in Freqs, CpufreqTransition(f)
      PROVE  Divided'
    BY <1>14 DEF CpufreqTransition
<1>15. ASSUME NEW on \in BOOLEAN, Blank(on)
      PROVE  Divided'
    BY <1>15 DEF Blank
<1>16. ASSUME NEW m \in Modes, SetPar(m)
      PROVE  Divided'
    BY <1>16 DEF SetPar
<1>17. CASE UNCHANGED vars
    BY <1>17 DEF vars
<1> QED
    BY <1>1, <1>2, <1>3, <1>4, <1>5, <1>6, <1>7, <1>8, <1>9, <1>10, <1>11, <1>12, <1>13, <1>14, <1>15, <1>16, <1>17 DEF Next

(* A lit screen keeps its backlight and its pins.                            *)
LEMMA LitStep ==
    ~EarlyClock /\ Owned /\ IInv /\ LitThroughout /\ [Next]_vars => LitThroughout'
<1> SUFFICES ASSUME ~EarlyClock /\ Owned, IInv, LitThroughout, [Next]_vars PROVE LitThroughout'
    OBVIOUS
<1> USE DEF LitThroughout, IInv, FlowTypes, Exclusion, Inside, Inner, Matches, Placed, Owned, FlagTypes, Skips, Lit,
           States, Requests, At, Goto, Call, Down, ScheduleWork,
           task, panel, ctrlr, clock, con
<1>1. ASSUME NEW p \in {"worker", "cpufreq", "pm"}, SetCtrlrState(p)
      PROVE  LitThroughout'
  <2>1. CASE Block(p)
    BY <2>1 DEF Block
  <2>2. CASE Ignore(p)
    BY <2>2 DEF Ignore
  <2>3. CASE DisableForClock(p)
    BY <2>3 DEF DisableForClock
  <2>4. CASE Disable(p)
    BY <2>4 DEF Disable
  <2>5. CASE EnableAfterClock(p)
    BY <2>5 DEF EnableAfterClock
  <2>6. CASE Reenable(p)
    BY <2>6 DEF Reenable
  <2>7. CASE Enable(p)
    BY <2>7 DEF Enable
  <2>8. CASE ClearLen(p)
    BY <2>8 DEF ClearLen
  <2>9. CASE Waited(p)
    BY <2>9 DEF Waited
  <2>10. CASE WriteCtl3(p)
    BY <2>10 DEF WriteCtl3
  <2>11. CASE WriteRest(p)
    BY <2>11 DEF WriteRest
  <2>12. CASE PowerOn(p)
    BY <2>12 DEF PowerOn
  <2>13. CASE Up(p)
    BY <2>13 DEF Up
  <2> QED
    BY <1>1, <2>1, <2>2, <2>3, <2>4, <2>5, <2>6, <2>7, <2>8, <2>9, <2>10, <2>11, <2>12, <2>13 DEF SetCtrlrState
<1>2. CASE FrameDone
    BY <1>2 DEF FrameDone
<1>3. CASE WorkRun
    BY <1>3 DEF WorkRun
<1>4. CASE Xchg
    BY <1>4 DEF Xchg
<1>5. CASE SetSpeed
    BY <1>5 DEF SetSpeed
<1>6. CASE ReadCtl3
    BY <1>6 DEF ReadCtl3
<1>7. CASE WriteBackCtl3
    BY <1>7 DEF WriteBackCtl3
<1>8. CASE Suspend
    BY <1>8 DEF Suspend
<1>9. CASE SuspendPowerDown
    BY <1>9 DEF SuspendPowerDown
<1>10. CASE Sleep
    BY <1>10 DEF Sleep
<1>11. CASE Activate
    BY <1>11 DEF Activate
<1>12. CASE Store
    BY <1>12 DEF Store
<1>13. CASE Compare
    BY <1>13 DEF Compare
<1>14. ASSUME NEW f \in Freqs, CpufreqTransition(f)
      PROVE  LitThroughout'
    BY <1>14 DEF CpufreqTransition
<1>15. ASSUME NEW on \in BOOLEAN, Blank(on)
      PROVE  LitThroughout'
    BY <1>15 DEF Blank
<1>16. ASSUME NEW m \in Modes, SetPar(m)
      PROVE  LitThroughout'
    BY <1>16 DEF SetPar
<1>17. CASE UNCHANGED vars
    BY <1>17 DEF vars
<1> QED
    BY <1>1, <1>2, <1>3, <1>4, <1>5, <1>6, <1>7, <1>8, <1>9, <1>10, <1>11, <1>12, <1>13, <1>14, <1>15, <1>16, <1>17 DEF Next

(* No request is made before the last one has been taken.                    *)
LEMMA OneStep ==
    ~Rapid /\ IInv /\ OneAtATime /\ [Next]_vars => OneAtATime'
<1> SUFFICES ASSUME ~Rapid, IInv, OneAtATime, [Next]_vars PROVE OneAtATime'
    OBVIOUS
<1> USE DEF OneAtATime, IInv, FlowTypes, Calm, Merge, Requests, At, Goto, Call, Down, ScheduleWork,
           task, panel, ctrlr, clock, con
<1>1. ASSUME NEW p \in {"worker", "cpufreq", "pm"}, SetCtrlrState(p)
      PROVE  OneAtATime'
  <2>1. CASE Block(p)
    BY <2>1 DEF Block
  <2>2. CASE Ignore(p)
    BY <2>2 DEF Ignore
  <2>3. CASE DisableForClock(p)
    BY <2>3 DEF DisableForClock
  <2>4. CASE Disable(p)
    BY <2>4 DEF Disable
  <2>5. CASE EnableAfterClock(p)
    BY <2>5 DEF EnableAfterClock
  <2>6. CASE Reenable(p)
    BY <2>6 DEF Reenable
  <2>7. CASE Enable(p)
    BY <2>7 DEF Enable
  <2>8. CASE ClearLen(p)
    BY <2>8 DEF ClearLen
  <2>9. CASE Waited(p)
    BY <2>9 DEF Waited
  <2>10. CASE WriteCtl3(p)
    BY <2>10 DEF WriteCtl3
  <2>11. CASE WriteRest(p)
    BY <2>11 DEF WriteRest
  <2>12. CASE PowerOn(p)
    BY <2>12 DEF PowerOn
  <2>13. CASE Up(p)
    BY <2>13 DEF Up
  <2> QED
    BY <1>1, <2>1, <2>2, <2>3, <2>4, <2>5, <2>6, <2>7, <2>8, <2>9, <2>10, <2>11, <2>12, <2>13 DEF SetCtrlrState
<1>2. CASE FrameDone
    BY <1>2 DEF FrameDone
<1>3. CASE WorkRun
    BY <1>3 DEF WorkRun
<1>4. CASE Xchg
    BY <1>4 DEF Xchg
<1>5. CASE SetSpeed
    BY <1>5 DEF SetSpeed
<1>6. CASE ReadCtl3
    BY <1>6 DEF ReadCtl3
<1>7. CASE WriteBackCtl3
    BY <1>7 DEF WriteBackCtl3
<1>8. CASE Suspend
    BY <1>8 DEF Suspend
<1>9. CASE SuspendPowerDown
    BY <1>9 DEF SuspendPowerDown
<1>10. CASE Sleep
    BY <1>10 DEF Sleep
<1>11. CASE Activate
    BY <1>11 DEF Activate
<1>12. CASE Store
    BY <1>12 DEF Store
<1>13. CASE Compare
    BY <1>13 DEF Compare
<1>14. ASSUME NEW f \in Freqs, CpufreqTransition(f)
      PROVE  OneAtATime'
    BY <1>14 DEF CpufreqTransition
<1>15. ASSUME NEW on \in BOOLEAN, Blank(on)
      PROVE  OneAtATime'
    BY <1>15 DEF Blank
<1>16. ASSUME NEW m \in Modes, SetPar(m)
      PROVE  OneAtATime'
    BY <1>16 DEF SetPar
<1>17. CASE UNCHANGED vars
    BY <1>17 DEF vars
<1> QED
    BY <1>1, <1>2, <1>3, <1>4, <1>5, <1>6, <1>7, <1>8, <1>9, <1>10, <1>11, <1>12, <1>13, <1>14, <1>15, <1>16, <1>17 DEF Next

(* The last blank request is the one fbi->state will follow.                 *)
LEMMA AskedStep ==
    ~Rapid /\ Owned /\ OneAtATime /\ IInv /\ Asked /\ [Next]_vars => Asked'
<1> SUFFICES ASSUME ~Rapid /\ Owned /\ OneAtATime, IInv, Asked, [Next]_vars PROVE Asked'
    OBVIOUS
<1> USE DEF Asked, IInv, FlowTypes, Exclusion, Inside, Inner, Matches, Placed, Owned, FlagTypes, OneAtATime,
           OnItsWay, Calm, Merge, Skips, Requests, At, Goto, Call, Down, ScheduleWork,
           task, panel, ctrlr, clock, con
<1>1. ASSUME NEW p \in {"worker", "cpufreq", "pm"}, SetCtrlrState(p)
      PROVE  Asked'
  <2>1. CASE Block(p)
    BY <2>1 DEF Block
  <2>2. CASE Ignore(p)
    BY <2>2 DEF Ignore
  <2>3. CASE DisableForClock(p)
    BY <2>3 DEF DisableForClock
  <2>4. CASE Disable(p)
    BY <2>4 DEF Disable
  <2>5. CASE EnableAfterClock(p)
    BY <2>5 DEF EnableAfterClock
  <2>6. CASE Reenable(p)
    BY <2>6 DEF Reenable
  <2>7. CASE Enable(p)
    BY <2>7 DEF Enable
  <2>8. CASE ClearLen(p)
    BY <2>8 DEF ClearLen
  <2>9. CASE Waited(p)
    BY <2>9 DEF Waited
  <2>10. CASE WriteCtl3(p)
    BY <2>10 DEF WriteCtl3
  <2>11. CASE WriteRest(p)
    BY <2>11 DEF WriteRest
  <2>12. CASE PowerOn(p)
    BY <2>12 DEF PowerOn
  <2>13. CASE Up(p)
    BY <2>13 DEF Up
  <2> QED
    BY <1>1, <2>1, <2>2, <2>3, <2>4, <2>5, <2>6, <2>7, <2>8, <2>9, <2>10, <2>11, <2>12, <2>13 DEF SetCtrlrState
<1>2. CASE FrameDone
    BY <1>2 DEF FrameDone
<1>3. CASE WorkRun
    BY <1>3 DEF WorkRun
<1>4. CASE Xchg
    BY <1>4 DEF Xchg
<1>5. CASE SetSpeed
    BY <1>5 DEF SetSpeed
<1>6. CASE ReadCtl3
    BY <1>6 DEF ReadCtl3
<1>7. CASE WriteBackCtl3
    BY <1>7 DEF WriteBackCtl3
<1>8. CASE Suspend
    BY <1>8 DEF Suspend
<1>9. CASE SuspendPowerDown
    BY <1>9 DEF SuspendPowerDown
<1>10. CASE Sleep
    BY <1>10 DEF Sleep
<1>11. CASE Activate
    BY <1>11 DEF Activate
<1>12. CASE Store
    BY <1>12 DEF Store
<1>13. CASE Compare
    BY <1>13 DEF Compare
<1>14. ASSUME NEW f \in Freqs, CpufreqTransition(f)
      PROVE  Asked'
    BY <1>14 DEF CpufreqTransition
<1>15. ASSUME NEW on \in BOOLEAN, Blank(on)
      PROVE  Asked'
    BY <1>15 DEF Blank
<1>16. ASSUME NEW m \in Modes, SetPar(m)
      PROVE  Asked'
    BY <1>16 DEF SetPar
<1>17. CASE UNCHANGED vars
    BY <1>17 DEF vars
<1> QED
    BY <1>1, <1>2, <1>3, <1>4, <1>5, <1>6, <1>7, <1>8, <1>9, <1>10, <1>11, <1>12, <1>13, <1>14, <1>15, <1>16, <1>17 DEF Next

-----------------------------------------------------------------------------
(* The further invariants hold, each under its flags.                        *)
LEMMA OwnInvariance == Spec => []Owned
<1>1. Init => Owned
    BY DEF Init, Owned
<1> QED
    BY <1>1, OwnStep, Invariance, PTL DEF Spec

(* Without preemption, so do Awake and Darkened.                             *)
LEMMA AwakeInvariance ==
    ASSUME ~Preemptible
    PROVE  Spec => [](Awake /\ Darkened)
<1>1. Init => Awake /\ Darkened
    BY DEF Init, Awake, Darkened
<1>2. Owned /\ IInv /\ (Awake /\ Darkened) /\ [Next]_vars => (Awake /\ Darkened)'
    BY RunStep, DarkStep
<1> QED
    BY <1>1, <1>2, OwnInvariance, Invariance, PTL DEF Spec

(* The panel has power without a running controller only in a REENABLE, on a *)
(* board that is not suspended.                                              *)
THEOREM PanelPowerNeedsScan ==
    ASSUME ~WithPM
    PROVE  Spec => []PanelNeedsScan
<1>1. Init => Powered
    BY DEF Init, Powered
<1>2. IInv /\ Powered /\ [Next]_vars => Powered'
    BY PowerStep
<1>3. IInv /\ Powered => PanelNeedsScan
    BY DEF IInv, FlowTypes, Exclusion, Inside, Powered, PanelNeedsScan
<1> QED
    BY <1>1, <1>2, <1>3, Invariance, PTL DEF Spec

(* Without preemption the CPU clock changes only while the controller is     *)
(* off, whatever else is requested while the change waits (C_DISABLE_        *)
(* CLKCHANGE), suspended or not.                                             *)
THEOREM ClockChangesInTheDark ==
    ASSUME ~Preemptible
    PROVE  Spec => ClockChangesDark
<1>1. ASSUME Darkened, [Next]_vars
      PROVE  [freq' # freq => ~len]_vars
  <2> SUFFICES ASSUME freq' # freq PROVE ~len
    OBVIOUS
  <2>1. SetSpeed
    BY <1>1 DEF Next, SetCtrlrState, Block, Ignore, DisableForClock, Disable,
         EnableAfterClock, Reenable, Enable, ClearLen, Waited, WriteCtl3, WriteRest, PowerOn,
         Up, FrameDone, WorkRun, Xchg, CpufreqTransition, ReadCtl3, WriteBackCtl3, Suspend,
         SuspendPowerDown, Sleep, Blank, SetPar, Activate, Store, Compare, vars, clock
  <2> QED
    BY <1>1, <2>1 DEF SetSpeed, At, Darkened
<1> QED
    BY <1>1, AwakeInvariance, PTL DEF Spec, ClockChangesDark

(* Without preemption a running controller always divides the present clock: *)
(* no clock change is lost, and no mode setting brings an old divisor back.  *)
THEOREM DivisorIsSettled ==
    ASSUME ~Preemptible
    PROVE  Spec => []DivisorSettled
<1>1. Init => Divided
    BY RegsAreRegs DEF Init, Divided, Regs
<1>2. Awake /\ Darkened /\ IInv /\ Divided /\ [Next]_vars => Divided'
    BY DivisorStep
<1>3. Divided => DivisorSettled
    BY DEF Divided, DivisorSettled
<1> QED
    BY <1>1, <1>2, <1>3, AwakeInvariance, Invariance, PTL DEF Spec

(* An enabled display has its backlight and its upper data pins, when no     *)
(* clock change precedes the first request of all.                           *)
THEOREM LitHasBacklight ==
    ASSUME ~EarlyClock
    PROVE  Spec => []LitWithBacklight
<1>1. Init => LitThroughout
    BY DEF Init, LitThroughout
<1>2. Owned /\ IInv /\ LitThroughout /\ [Next]_vars => LitThroughout'
    BY LitStep
<1>3. IInv /\ LitThroughout => LitWithBacklight
    BY DEF IInv, FlowTypes, Exclusion, Inside, LitThroughout, Lit, LitWithBacklight, Quiet
<1> QED
    BY <1>1, <1>2, <1>3, OwnInvariance, Invariance, PTL DEF Spec

(* Once all is quiet the controller is enabled exactly when the last blank   *)
(* request asked for it, if each request is made after the last one has been *)
(* served: clock changes and suspend may come at any time.                   *)
THEOREM ScreenAsAsked ==
    ASSUME ~Rapid
    PROVE  Spec => []AsAsked
<1>1. Init => OneAtATime /\ Asked
    BY DEF Init, OneAtATime, Asked, OnItsWay
<1>2. Owned /\ IInv /\ (OneAtATime /\ Asked) /\ [Next]_vars => (OneAtATime /\ Asked)'
    BY OneStep, AskedStep
<1>3. IInv /\ Asked => AsAsked
    BY DEF IInv, FlowTypes, States, Asked, OnItsWay, AsAsked, Quiet
<1> QED
    BY <1>1, <1>2, <1>3, OwnInvariance, Invariance, PTL DEF Spec

=============================================================================
