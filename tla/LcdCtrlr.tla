------------------------------ MODULE LcdCtrlr ------------------------------
(***************************************************************************)
(* The LCD controller of the SA1100 frame buffer driver                    *)
(* (src/linux/kernel26/drivers/video/sa1100fb.c).                          *)
(*                                                                         *)
(* Four flows of control drive one controller:                             *)
(*   worker  - keventd, running sa1100fb_task for the requests that        *)
(*             sa1100fb_schedule_work leaves in fbi->task_state;           *)
(*   cpufreq - a change of CPU clock, which calls the driver's notifier    *)
(*             before and after it writes PPCR;                            *)
(*   pm      - suspend and resume;                                         *)
(*   con     - whoever sets the video mode (fb_set_var), in process        *)
(*             context.                                                    *)
(* Blanking may also come from interrupt context and is one atomic step.   *)
(* set_ctrlr_state serialises the first three with a semaphore; the shadow *)
(* registers, fbi->task_state and fb.var are outside of it.                *)
(***************************************************************************)
EXTENDS Naturals

CONSTANTS
    Modes,        \* video modes: geometry, sync polarity and pixel clock
    Freqs,        \* CPU clock rates the board may select
    None,         \* "no process", "no request" (task_state -1), reset registers
    Preemptible,  \* CONFIG_PREEMPT: another thread may run between any two steps
    Rapid,        \* requests may follow one another before the worker has run
    EarlyClock,   \* a clock change may precede the first run of the worker
    WithPM        \* suspend and resume happen

Procs == {"worker", "cpufreq", "pm", "con"}

States == {"STARTUP", "ENABLE", "DISABLE", "DISABLE_CLKCHANGE", "DISABLE_PM"}

Requests == {"ENABLE", "DISABLE", "REENABLE", "DISABLE_CLKCHANGE",
             "ENABLE_CLKCHANGE", "DISABLE_PM", "ENABLE_PM"}

ASSUME ConstantsAssumption ==
    /\ Modes # {} /\ Freqs # {}
    /\ None \notin Modes \cup Freqs \cup Procs \cup Requests
    /\ {Preemptible, Rapid, EarlyClock, WithPM} \subseteq BOOLEAN

Labels == {"idle", "xchg", "down", "disable", "wait", "ctl3", "rest", "power",
           "up", "setspeed", "rmw", "rmw2", "suspended",
           "read", "store", "compare"}

(* A control word LCCR3 holds the sync polarities of a mode and the divisor  *)
(* computed from a mode's pixel clock and a CPU clock; the rest of the       *)
(* register set (LCCR0-2, DBAR1-2) is fixed by the geometry of a mode.       *)
Ctl3 == [sync : Modes, pix : Modes, clk : Freqs]
RegSet == [rest : Modes, ctl3 : Ctl3]

Regs(m, f) == [rest |-> m, ctl3 |-> [sync |-> m, pix |-> m, clk |-> f]]

ResetRegs == [rest |-> None, ctl3 |-> None]

VARIABLES
    state,       \* fbi->state
    task_state,  \* fbi->task_state, the request the worker will find
    pending,     \* fbi->task is queued on keventd
    sem,         \* holder of fbi->ctrlr_sem
    pc, req,     \* where each flow of control is, and its argument to
                 \* set_ctrlr_state while it is inside
    var,         \* fb.var, the mode of the frame buffer
    shadow,      \* fbi->reg_lccr0..3, dbar1, dbar2
    hw,          \* the controller's registers, LCCR0_LEN apart
    len,         \* LCCR0_LEN, the controller is enabled
    scanning,    \* a frame is being scanned out
    lcdPower, backlight, gpio,  \* panel power, backlight, LDD8-15 pins
    freq,        \* the CPU clock (PPCR)
    newf,        \* cpufreq's freqs.new
    tmp,         \* cpufreq's copy of reg_lccr3 inside its read-modify-write
    newRegs,     \* new_regs of sa1100fb_activate_var until they are stored
    level,       \* which of the two levels of suspend is running
    running,     \* without preemption: who must run on, None at a sleep
    wantOn       \* history: the last blank request asked for a lit screen

task == <<task_state, pending>>
panel == <<lcdPower, backlight, gpio>>
ctrlr == <<hw, len, scanning>>
clock == <<freq, newf, tmp>>
con == <<var, newRegs>>
vars == <<state, task, sem, pc, req, shadow, ctrlr, panel, clock, con,
          level, running, wantOn>>

(* What sa1100fb_probe leaves behind: register_framebuffer had fbcon set a   *)
(* mode, whose C_REENABLE is queued; the boot loader left the LCD off.       *)
Init ==
    /\ state = "STARTUP" /\ sem = None
    /\ task_state = "REENABLE" /\ pending = TRUE
    /\ pc = [p \in Procs |-> "idle"] /\ req = [p \in Procs |-> None]
    /\ var \in Modes /\ freq \in Freqs
    /\ shadow = Regs(var, freq) /\ newRegs = None
    /\ hw = ResetRegs /\ len = FALSE /\ scanning = FALSE
    /\ lcdPower = FALSE /\ backlight = FALSE /\ gpio = FALSE
    /\ newf = freq /\ tmp = None
    /\ level = 0 /\ running = None /\ wantOn = TRUE

-----------------------------------------------------------------------------
(* Scheduling. Without CONFIG_PREEMPT a thread keeps the processor until it  *)
(* sleeps: at the end of its work, in schedule_timeout, or in down() on a    *)
(* semaphore another thread holds.                                           *)

CanRun(p) == Preemptible \/ running \in {None, p}

At(p, l) == pc[p] = l /\ CanRun(p)

Goto(p, l) ==
    /\ pc' = [pc EXCEPT ![p] = l]
    /\ running' = IF Preemptible \/ l \in {"idle", "wait", "suspended"}
                  THEN None ELSE p

(* down(&fbi->ctrlr_sem) with a request in hand.                             *)
Call(p, r) ==
    /\ req' = [req EXCEPT ![p] = r]
    /\ Goto(p, "down")

(* sa1100fb_schedule_work, with interrupts off.                              *)
Merge(r) ==
    CASE task_state = "ENABLE" /\ r = "REENABLE" -> None
      [] task_state = "DISABLE" /\ r = "ENABLE" -> "REENABLE"
      [] OTHER -> r

ScheduleWork(r) ==
    IF Merge(r) = None
    THEN UNCHANGED task
    ELSE task_state' = Merge(r) /\ pending' = TRUE

Frozen == pc["pm"] # "idle"

(* No request is still on its way to the worker, or from it to set_ctrlr_state. *)
Calm == ~pending /\ pc["worker"] = "idle" /\ pc["con"] = "idle"

-----------------------------------------------------------------------------
(* set_ctrlr_state: the semaphore, then the switch on the requested state.   *)

(* Mutants of Skips: the driver re-enables after a clock change it was not   *)
(* disabled for; resumes what it did not suspend; ignores a blank that finds *)
(* a clock change.                                                           *)
SkipsNotEnableClk(s, r) ==
    \/ r = None
    \/ r = "DISABLE_CLKCHANGE" /\ s \in {"DISABLE", "DISABLE_PM"}
    \/ r \in {"DISABLE", "DISABLE_PM"} /\ s = "DISABLE"
    \/ r = "REENABLE" /\ s \notin {"ENABLE", "STARTUP"}
    \/ r = "ENABLE_PM" /\ s # "DISABLE_PM"
    \/ r \in {"ENABLE", "ENABLE_CLKCHANGE"} /\ s = "ENABLE"

SkipsNotEnablePM(s, r) ==
    \/ r = None
    \/ r = "DISABLE_CLKCHANGE" /\ s \in {"DISABLE", "DISABLE_PM"}
    \/ r \in {"DISABLE", "DISABLE_PM"} /\ s = "DISABLE"
    \/ r = "ENABLE_CLKCHANGE" /\ s # "DISABLE_CLKCHANGE"
    \/ r = "REENABLE" /\ s \notin {"ENABLE", "STARTUP"}
    \/ r \in {"ENABLE", "ENABLE_PM"} /\ s = "ENABLE"

SkipsBlankInClk(s, r) ==
    \/ r = None
    \/ r = "DISABLE_CLKCHANGE" /\ s \in {"DISABLE", "DISABLE_PM"}
    \/ r \in {"DISABLE", "DISABLE_PM"} /\ s \in {"DISABLE", "DISABLE_CLKCHANGE"}
    \/ r = "ENABLE_CLKCHANGE" /\ s # "DISABLE_CLKCHANGE"
    \/ r = "REENABLE" /\ s \notin {"ENABLE", "STARTUP"}
    \/ r = "ENABLE_PM" /\ s # "DISABLE_PM"
    \/ r = "ENABLE" /\ s = "ENABLE"

Skips(s, r) ==
    \/ r = None
    \/ r = "DISABLE_CLKCHANGE" /\ s \in {"DISABLE", "DISABLE_PM"}
    \/ r \in {"DISABLE", "DISABLE_PM"} /\ s = "DISABLE"
    \/ r = "ENABLE_CLKCHANGE" /\ s # "DISABLE_CLKCHANGE"
    \/ r = "REENABLE" /\ s \notin {"ENABLE", "STARTUP"}
    \/ r = "ENABLE_PM" /\ s # "DISABLE_PM"
    \/ r = "ENABLE" /\ s = "ENABLE"

(* Mutant: no semaphore.                                                     *)
DownUnlocked(p) == At(p, "down") /\ sem' = p

Down(p) == At(p, "down") /\ sem = None /\ sem' = p

(* The semaphore is held: the caller sleeps in down().                       *)
Block(p) ==
    /\ At(p, "down") /\ sem # None /\ running = p
    /\ running' = None
    /\ UNCHANGED <<state, task, sem, pc, req, shadow, ctrlr, panel, clock, con,
                   level, wantOn>>

Ignore(p) ==
    /\ Down(p) /\ Skips(state, req[p])
    /\ Goto(p, "up")
    /\ UNCHANGED <<state, task, req, shadow, ctrlr, panel, clock, con, level, wantOn>>

(* Mutants: the panel keeps its power; the controller is not disabled; the   *)
(* backlight goes off too.                                                   *)
DisableForClockPowered(p) ==
    /\ Down(p) /\ req[p] = "DISABLE_CLKCHANGE" /\ ~Skips(state, req[p])
    /\ state' = req[p]
    /\ Goto(p, "disable")
    /\ UNCHANGED <<task, req, shadow, ctrlr, panel, clock, con, level, wantOn>>

DisableForClockPowerOnly(p) ==
    /\ Down(p) /\ req[p] = "DISABLE_CLKCHANGE" /\ ~Skips(state, req[p])
    /\ state' = req[p]
    /\ lcdPower' = FALSE
    /\ Goto(p, "up")
    /\ UNCHANGED <<task, req, shadow, ctrlr, backlight, gpio, clock, con, level, wantOn>>

DisableForClockUnlit(p) ==
    /\ Down(p) /\ req[p] = "DISABLE_CLKCHANGE" /\ ~Skips(state, req[p])
    /\ state' = req[p]
    /\ lcdPower' = FALSE /\ backlight' = FALSE
    /\ Goto(p, "disable")
    /\ UNCHANGED <<task, req, shadow, ctrlr, gpio, clock, con, level, wantOn>>

DisableForClock(p) ==
    /\ Down(p) /\ req[p] = "DISABLE_CLKCHANGE" /\ ~Skips(state, req[p])
    /\ state' = req[p]
    /\ lcdPower' = FALSE
    /\ Goto(p, "disable")
    /\ UNCHANGED <<task, req, shadow, ctrlr, backlight, gpio, clock, con, level, wantOn>>

(* Mutant: the test for a controller already off is inverted.                *)
DisableInverted(p) ==
    /\ Down(p) /\ req[p] \in {"DISABLE", "DISABLE_PM"} /\ ~Skips(state, req[p])
    /\ state' = req[p]
    /\ backlight' = FALSE /\ lcdPower' = FALSE
    /\ Goto(p, IF state = "DISABLE_CLKCHANGE" THEN "disable" ELSE "up")
    /\ UNCHANGED <<task, req, shadow, ctrlr, gpio, clock, con, level, wantOn>>

Disable(p) ==
    /\ Down(p) /\ req[p] \in {"DISABLE", "DISABLE_PM"} /\ ~Skips(state, req[p])
    /\ state' = req[p]
    /\ backlight' = FALSE /\ lcdPower' = FALSE
    /\ Goto(p, IF state = "DISABLE_CLKCHANGE" THEN "up" ELSE "disable")
    /\ UNCHANGED <<task, req, shadow, ctrlr, gpio, clock, con, level, wantOn>>

EnableAfterClock(p) ==
    /\ Down(p) /\ req[p] = "ENABLE_CLKCHANGE" /\ ~Skips(state, req[p])
    /\ state' = "ENABLE"
    /\ Goto(p, "ctl3")
    /\ UNCHANGED <<task, req, shadow, ctrlr, panel, clock, con, level, wantOn>>

Reenable(p) ==
    /\ Down(p) /\ req[p] = "REENABLE" /\ state = "ENABLE"
    /\ Goto(p, "disable")
    /\ UNCHANGED <<state, task, req, shadow, ctrlr, panel, clock, con, level, wantOn>>

(* A REENABLE that finds STARTUP becomes an ENABLE.                          *)
Enable(p) ==
    /\ Down(p) /\ ~Skips(state, req[p])
    /\ \/ req[p] \in {"ENABLE", "ENABLE_PM"}
       \/ req[p] = "REENABLE" /\ state = "STARTUP"
    /\ state' = "ENABLE"
    /\ req' = [req EXCEPT ![p] = "ENABLE"]
    /\ Goto(p, "ctl3")
    /\ UNCHANGED <<task, shadow, ctrlr, panel, clock, con, level, wantOn>>

(* sa1100fb_disable_controller up to its schedule_timeout.                   *)
ClearLen(p) ==
    /\ At(p, "disable")
    /\ len' = FALSE
    /\ Goto(p, "wait")
    /\ UNCHANGED <<state, task, sem, req, shadow, hw, scanning, panel, clock, con, level, wantOn>>

(* Woken by sa1100fb_handle_irq when the frame is out, or after 20 ms, in    *)
(* which the controller may not have finished it: nothing here waits for it. *)
Waited(p) ==
    /\ At(p, "wait")
    /\ Goto(p, IF req[p] = "REENABLE" THEN "ctl3" ELSE "up")
    /\ UNCHANGED <<state, task, sem, req, shadow, ctrlr, panel, clock, con, level, wantOn>>

(* sa1100fb_setup_gpio (not after a clock change), then LCCR3.               *)
WriteCtl3(p) ==
    /\ At(p, "ctl3")
    /\ hw' = [hw EXCEPT !.ctl3 = shadow.ctl3]
    /\ gpio' = (gpio \/ req[p] # "ENABLE_CLKCHANGE")
    /\ Goto(p, "rest")
    /\ UNCHANGED <<state, task, sem, req, shadow, len, scanning, lcdPower, backlight,
                   clock, con, level, wantOn>>

(* LCCR2, LCCR1, LCCR0, DBAR1, DBAR2 and LCCR0_LEN.                          *)
WriteRest(p) ==
    /\ At(p, "rest")
    /\ hw' = [hw EXCEPT !.rest = shadow.rest]
    /\ len' = TRUE /\ scanning' = TRUE
    /\ Goto(p, IF req[p] = "REENABLE" THEN "up" ELSE "power")
    /\ UNCHANGED <<state, task, sem, req, shadow, panel, clock, con, level, wantOn>>

(* Mutant: the backlight is forgotten.                                       *)
PowerOnUnlit(p) ==
    /\ At(p, "power")
    /\ lcdPower' = TRUE
    /\ Goto(p, "up")
    /\ UNCHANGED <<state, task, sem, req, shadow, ctrlr, backlight, gpio, clock, con, level, wantOn>>

PowerOn(p) ==
    /\ At(p, "power")
    /\ lcdPower' = TRUE
    /\ backlight' = (backlight \/ req[p] # "ENABLE_CLKCHANGE")
    /\ Goto(p, "up")
    /\ UNCHANGED <<state, task, sem, req, shadow, ctrlr, gpio, clock, con, level, wantOn>>

(* up(&fbi->ctrlr_sem), and back to the caller.                              *)
Up(p) ==
    /\ At(p, "up") /\ sem' = None
    /\ Goto(p, CASE req[p] = "DISABLE_CLKCHANGE" -> "setspeed"
                 [] req[p] = "DISABLE_PM" -> "suspended"
                 [] OTHER -> "idle")
    /\ req' = [req EXCEPT ![p] = None]
    /\ UNCHANGED <<state, task, shadow, ctrlr, panel, clock, con, level, wantOn>>

(* The frame in progress when LEN was cleared has been scanned out.          *)
FrameDone ==
    /\ scanning /\ ~len
    /\ scanning' = FALSE
    /\ UNCHANGED <<state, task, sem, pc, req, shadow, hw, len, panel, clock, con,
                   level, running, wantOn>>

-----------------------------------------------------------------------------
(* keventd: run_workqueue clears the pending bit before it calls the task.   *)

WorkRun ==
    /\ At("worker", "idle") /\ pending
    /\ pending' = FALSE
    /\ Goto("worker", "xchg")
    /\ UNCHANGED <<state, task_state, sem, req, shadow, ctrlr, panel, clock, con, level, wantOn>>

Xchg ==
    /\ At("worker", "xchg")
    /\ task_state' = None
    /\ Call("worker", task_state)
    /\ UNCHANGED <<state, pending, sem, shadow, ctrlr, panel, clock, con, level, wantOn>>

(* sa1100_target, and the driver's notifier before and after PPCR changes.   *)
CpufreqTransition(f) ==
    /\ At("cpufreq", "idle") /\ ~Frozen
    /\ EarlyClock \/ state # "STARTUP"
    /\ newf' = f
    /\ Call("cpufreq", "DISABLE_CLKCHANGE")
    /\ UNCHANGED <<state, task, sem, shadow, ctrlr, panel, freq, tmp, con, level, wantOn>>

(* Mutant: CPUFREQ_POSTCHANGE does not compute the new divisor.              *)
SetSpeedNoDivisor ==
    /\ At("cpufreq", "setspeed")
    /\ freq' = newf
    /\ Goto("cpufreq", "rmw2")
    /\ UNCHANGED <<state, task, sem, req, shadow, ctrlr, panel, newf, tmp, con, level, wantOn>>

SetSpeed ==
    /\ At("cpufreq", "setspeed")
    /\ freq' = newf
    /\ Goto("cpufreq", "rmw")
    /\ UNCHANGED <<state, task, sem, req, shadow, ctrlr, panel, newf, tmp, con, level, wantOn>>

(* reg_lccr3 = (reg_lccr3 & ~0xff) | LCCR3_PixClkDiv(get_pcd(pixclock, new)) *)
ReadCtl3 ==
    /\ At("cpufreq", "rmw")
    /\ tmp' = [shadow.ctl3 EXCEPT !.pix = var, !.clk = newf]
    /\ Goto("cpufreq", "rmw2")
    /\ UNCHANGED <<state, task, sem, req, shadow, ctrlr, panel, freq, newf, con, level, wantOn>>

(* Mutant: the new divisor is kept only for a controller disabled for it.    *)
WriteBackCtl3IfDisabled ==
    /\ At("cpufreq", "rmw2") /\ tmp' = None
    /\ shadow' = IF state = "DISABLE_CLKCHANGE" THEN [shadow EXCEPT !.ctl3 = tmp] ELSE shadow
    /\ Call("cpufreq", "ENABLE_CLKCHANGE")
    /\ UNCHANGED <<state, task, sem, ctrlr, panel, freq, newf, con, level, wantOn>>

WriteBackCtl3 ==
    /\ At("cpufreq", "rmw2")
    /\ shadow' = [shadow EXCEPT !.ctl3 = tmp] /\ tmp' = None
    /\ Call("cpufreq", "ENABLE_CLKCHANGE")
    /\ UNCHANGED <<state, task, sem, ctrlr, panel, freq, newf, con, level, wantOn>>

-----------------------------------------------------------------------------
(* Suspend and resume. User processes are frozen first, keventd is not. The  *)
(* driver is called at SUSPEND_DISABLE and again at SUSPEND_POWER_DOWN.      *)

Suspend ==
    /\ WithPM
    /\ At("pm", "idle") /\ pc["con"] = "idle" /\ pc["cpufreq"] = "idle"
    /\ level' = 1
    /\ Call("pm", "DISABLE_PM")
    /\ UNCHANGED <<state, task, sem, shadow, ctrlr, panel, clock, con, wantOn>>

SuspendPowerDown ==
    /\ At("pm", "suspended") /\ level = 1
    /\ level' = 2
    /\ Call("pm", "DISABLE_PM")
    /\ UNCHANGED <<state, task, sem, shadow, ctrlr, panel, clock, con, wantOn>>

(* The processor sleeps between two of keventd's steps and wakes up again;   *)
(* the controller has lost its registers. Then the driver is resumed.        *)
Sleep ==
    /\ At("pm", "suspended") /\ level = 2
    /\ hw' = ResetRegs /\ len' = FALSE /\ scanning' = FALSE
    /\ level' = 0
    /\ Call("pm", "ENABLE_PM")
    /\ UNCHANGED <<state, task, sem, shadow, panel, clock, con, wantOn>>

-----------------------------------------------------------------------------
(* The frame buffer operations. *)

(* sa1100fb_blank, from any context. *)
Blank(on) ==
    /\ Rapid \/ (Calm /\ ~Frozen)
    /\ wantOn' = on
    /\ ScheduleWork(IF on THEN "ENABLE" ELSE "DISABLE")
    /\ UNCHANGED <<state, sem, pc, req, shadow, ctrlr, panel, clock, con, level, running>>

(* fb_set_var stores the mode and calls sa1100fb_set_par.                    *)
SetPar(m) ==
    /\ At("con", "idle") /\ ~Frozen
    /\ Rapid \/ Calm
    /\ var' = m
    /\ Goto("con", "read")
    /\ UNCHANGED <<state, task, sem, req, shadow, ctrlr, panel, clock, newRegs, level, wantOn>>

(* sa1100fb_activate_var: the new registers, from cpufreq_get(0);            *)
Activate ==
    /\ At("con", "read")
    /\ newRegs' = Regs(var, freq)
    /\ Goto("con", "store")
    /\ UNCHANGED <<state, task, sem, req, shadow, ctrlr, panel, clock, var, level, wantOn>>

(* the shadow copy, with interrupts off;                                     *)
Store ==
    /\ At("con", "store")
    /\ shadow' = newRegs /\ newRegs' = None
    /\ Goto("con", "compare")
    /\ UNCHANGED <<state, task, sem, req, ctrlr, panel, clock, var, level, wantOn>>

(* and the comparison with the hardware, LCCR0_LEN included.                 *)
Compare ==
    /\ At("con", "compare")
    /\ IF hw # shadow \/ ~len THEN ScheduleWork("REENABLE") ELSE UNCHANGED task
    /\ Goto("con", "idle")
    /\ UNCHANGED <<state, sem, req, shadow, ctrlr, panel, clock, con, level, wantOn>>

-----------------------------------------------------------------------------
SetCtrlrState(p) ==
    \/ Block(p) \/ Ignore(p) \/ DisableForClock(p) \/ Disable(p)
    \/ EnableAfterClock(p) \/ Reenable(p) \/ Enable(p)
    \/ ClearLen(p) \/ Waited(p) \/ WriteCtl3(p) \/ WriteRest(p)
    \/ PowerOn(p) \/ Up(p)

Next ==
    \/ \E p \in {"worker", "cpufreq", "pm"} : SetCtrlrState(p)
    \/ FrameDone
    \/ WorkRun \/ Xchg
    \/ \E f \in Freqs : CpufreqTransition(f)
    \/ SetSpeed \/ ReadCtl3 \/ WriteBackCtl3
    \/ Suspend \/ SuspendPowerDown \/ Sleep
    \/ \E on \in BOOLEAN : Blank(on)
    \/ \E m \in Modes : SetPar(m)
    \/ Activate \/ Store \/ Compare

Spec == Init /\ [][Next]_vars

(* Fairness: a thread that can run runs, the hardware ends its frame, and a  *)
(* waiter of the semaphore gets it: every holder lets go of the processor in *)
(* between (it sleeps 20 ms, or returns to a caller that waits for its next  *)
(* request), and up() has made the waiter runnable by then. Nobody has to    *)
(* ask for anything.                                                         *)
Acquire(p) ==
    \/ Ignore(p) \/ DisableForClock(p) \/ Disable(p)
    \/ EnableAfterClock(p) \/ Reenable(p) \/ Enable(p)

Advance(p) ==
    \/ Block(p) \/ ClearLen(p) \/ Waited(p) \/ WriteCtl3(p) \/ WriteRest(p)
    \/ PowerOn(p) \/ Up(p)

FairSpec ==
    /\ Spec
    /\ SF_vars(Acquire("worker")) /\ SF_vars(Acquire("cpufreq"))
    /\ WF_vars(Advance("worker") \/ WorkRun \/ Xchg)
    /\ WF_vars(Advance("cpufreq") \/ SetSpeed \/ ReadCtl3 \/ WriteBackCtl3)
    /\ WF_vars(Activate \/ Store \/ Compare)
    /\ WF_vars(FrameDone)

-----------------------------------------------------------------------------
(* Properties. *)

(* Every variable has its type.                                              *)
TypeOK ==
    /\ state \in States
    /\ task_state \in Requests \cup {None} /\ pending \in BOOLEAN
    /\ sem \in Procs \cup {None} /\ running \in Procs \cup {None}
    /\ pc \in [Procs -> Labels] /\ req \in [Procs -> Requests \cup {None}]
    /\ var \in Modes /\ newRegs \in RegSet \cup {None} /\ shadow \in RegSet
    /\ hw \in [rest : Modes \cup {None}, ctl3 : Ctl3 \cup {None}]
    /\ len \in BOOLEAN /\ scanning \in BOOLEAN
    /\ lcdPower \in BOOLEAN /\ backlight \in BOOLEAN /\ gpio \in BOOLEAN
    /\ freq \in Freqs /\ newf \in Freqs /\ tmp \in Ctl3 \cup {None}
    /\ level \in 0..2 /\ wantOn \in BOOLEAN

Quiet == ~pending /\ \A p \in Procs : pc[p] = "idle"

(* Whenever the semaphore is free, fbi->state tells whether the controller   *)
(* runs: a lit controller is in state C_ENABLE, and C_ENABLE is lit unless   *)
(* the board slept meanwhile.                                                *)
StateMatchesController ==
    sem = None => /\ len => state = "ENABLE"
                  /\ state = "ENABLE" => WithPM \/ len

(* set_ctrlr_state writes the controller's registers only while LCCR0_LEN is *)
(* clear, whatever blanking, mode setting, clock changes and suspend do.     *)
ProgramOnlyWhenOff == [][hw' # hw => ~len \/ hw' = ResetRegs]_vars

(* The panel has power without a running controller only inside a REENABLE,  *)
(* which leaves the panel powered on purpose.                                *)
PanelNeedsScan ==
    lcdPower /\ ~len => \E p \in Procs : sem = p /\ req[p] = "REENABLE"

(* The CPU clock, from which the pixel clock is divided, changes only while  *)
(* the controller is off: what C_DISABLE_CLKCHANGE is for.                   *)
ClockChangesDark == [][freq' # freq => ~len]_vars

(* When all is quiet, a running controller divides the current CPU clock: no *)
(* clock change was lost, whatever the controller was doing meanwhile.       *)
DivisorSettled == Quiet /\ len => hw.ctl3.clk = freq

(* When all is quiet, the controller is enabled if and only if the last      *)
(* blank request asked for a lit screen.                                     *)
AsAsked == Quiet => (state = "ENABLE" <=> wantOn)

(* "When we are blanking, but immediately unblank before we have blanked. We *)
(* do the REENABLE thing here as well, just to be sure." (lines 713-714):    *)
(* when all is quiet, an unblank that was the last request has lit the       *)
(* screen, also when it was merged with a blank before it.                   *)
UnblankKept == Quiet /\ wantOn => state = "ENABLE"

(* "Video on, front/back light on": an enabled display has its backlight and *)
(* its upper data pins.                                                      *)
LitWithBacklight == Quiet /\ state = "ENABLE" => backlight /\ gpio

(* Only an unblank request lights a blanked screen: never a clock change, a  *)
(* mode setting, or suspend and resume.                                      *)
OnlyUnblankLights ==
    [][state = "DISABLE" /\ state' # "DISABLE" => req["worker"] = "ENABLE"]_vars

(* Blanking, and unblanking, take effect.                                    *)
BlankTakesEffect == ~wantOn ~> (wantOn \/ ~len)
UnblankTakesEffect == wantOn ~> (~wantOn \/ (len /\ lcdPower /\ backlight))

=============================================================================
