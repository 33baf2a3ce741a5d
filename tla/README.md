# TLA+ models of the Jornada 820 kernel port

The repository ports Linux 2.4 and 2.6 to the HP Jornada 820, a StrongARM
SA1100 handheld with the SA1101 companion chip: `linux/kernel` and
`linux/kernel26` hold the kernel files it adds or changes, `j820boot` and
`haret-j820gnu` start the kernel from Windows CE, the rest packs boot images.
What is hard to get right in it is the drivers: interrupts, work queued on
keventd, timers, processes, clock changes and suspend share a few words of
state, mostly without a lock. The models follow that state.

Paths below are relative to `src/`; `k24` is `linux/kernel`, `k26` is
`linux/kernel26`. All runs are started in this directory, e.g.
`tlc -config LcdSerial.cfg LcdCtrlrMC`; proofs are checked by
`tlapm LcdCtrlr_proof.tla` and the like.

## 1. The parts of the system

| Part | State | Operations | Talks to | Model |
|---|---|---|---|---|
| LCD controller, `k26/drivers/video/sa1100fb.c` | `fbi->state`, `task_state`, shadow and hardware registers, panel power, backlight | blank, set mode, worker task, clock notifier, suspend, resume, frame interrupt | keventd, cpufreq, PM | `LcdCtrlr` |
| CPU clock, `k24` and `k26/arch/arm/mach-sa1100/cpu-sa1100.c` | PPCR, MDCNFG, MDCAS0-2 | change of the clock, DRAM notifier | notifiers: DRAM, LCD, PC Card | `ClockChange` (2.4), `LcdCtrlr` (2.6, as the LCD sees it) |
| PC Card sockets, `k24/drivers/pcmcia/sa1100_generic.c`, `sa1100_jornada820.c` | `k_state`, `cs_state`, `handler`, PCCR, MECR | event task, interrupt, poll timer, get and set, windows, suspend | keventd, SA1101, Card Services, clock | `PcmciaStatus`, `ClockChange`, `MecrBs` |
| PC Card sockets of 2.6, `k26/drivers/pcmcia/soc_common.c` | `skt->status` under a lock | interrupt, poll timer, status read | pccardd | `SocStatus` |
| Touch pad, `k24/drivers/char/j820_keyb.c` | ring, `aux_count`, `mouse_reply_expected` | open, release, read, write, interrupt, `ms_wait` | SA1101 PS/2 port, processes | `PsAux`, `BoundedFifo` |
| SA1101 interrupts of 2.6, `k26/arch/arm/common/sa1101.c` | status, masks, latched edge | chained handler | all SA1101 drivers | `Sa1101Irq` |
| USB host controller, `k24/drivers/usb/host/usb-ohci.c` | EDs, TDs, `urb_priv`, lists, removal lists, done queue | submit, unlink, free device, interrupt | the controller, USB core, block pool | `UsbOhci` over `PoolBlocks`, `TdQueue` |
| DMA block pool, `k24/arch/arm/mach-sa1100/pcipool.c` | pages, bit maps, waiters | create, destroy, alloc, free, time-out | USB host | `PoolBlocks`, `PciPool` |
| USB device controller, `k24/arch/arm/mach-sa1100/usb_ctl.c` | device state, interrupt masks | interrupt, table of transitions, open, start, stop, close | bus, endpoint 0, client | `UsbCtl`, `UsbDevice` |
| Codec, `k24/drivers/misc/ucb1x00-core.c` | hooks, enabled sources, interrupt line | interrupt, thread, hook, free, enable, disable, resume, unload | touch screen, sound | `Ucb1x00` |
| Keyboard and SSP, MCP, sound, VGA, console, APM, PM, flash, boot loaders, register dumps | | | | section 12 |

`PROJECT.json` lists every part with its files, and every hazard with its line.

### What makes each part correct, and what makes it hard

* **LCD.** `fbi->state` must tell the truth about the controller; registers may
  be written only while it is off; the panel may not
  be powered without a scan; the CPU clock, from which the pixel clock is
  divided, may change only in the dark; what was asked for must happen in the
  end. Four flows of control meet in `set_ctrlr_state`; requests are merged
  into one word before they get there; the thread inside sleeps.
* **PC Card.** Card Services must come to know of every card that came or went.
  Some pins raise no interrupt, and others on one edge only; the task that compares
  samplings sleeps inside callbacks while others sample too.
* **Touch pad.** Bytes are read in order and at most once, a waiting reader is
  woken up, the port is on for whoever has it open, answers to the driver's own
  commands are not data. A process polls the port under a lock while the
  interrupt takes the same bytes; `request_irq` may sleep or fail.
* **USB host.** The controller walks lists that threads and the interrupt change:
  a descriptor may be freed only when the controller can no longer come to it,
  every TD is counted once whoever removes it, what was stopped for a removal
  must be started again, and every request must come back.
* **Block pool.** No block is handed out twice, none gets lost.
* **USB device.** Suspend, resume and reset arrive in one status word and mask
  each other; a source that is masked is lost, not delayed.
* **Codec.** The interrupt is off until its thread has run: every path must turn
  it on again, and never before the status is cleared and the thread asleep.
* **SA1101.** One edge stands for many interrupts; one edge lost, and all are.
* **Clock.** The DRAM the kernel runs from, and the PC Card bus, count
  cycles of the clock: at no step may they hold values for a slower one.
* **PC Card of 2.6.** A status read stores without the lock the comparison takes.

## 2. `LcdCtrlr`: the LCD controller

| Code | Model |
|---|---|
| `fbi->state`, `task_state`, `ctrlr_sem` | `state`, `task_state` (None is -1), `sem` |
| the queued bit of `fbi->task` | `pending` |
| `fb.var`, `fbi->reg_lccr0..3`, LCCR0-3, DBAR1-2 | `var`, `shadow`, `hw`: a mode, and for LCCR3 the mode and clock its divisor was computed from |
| LCCR0_LEN, the frame in progress | `len`, `scanning` |
| `__sa1100fb_lcd_power`, `__sa1100fb_backlight_power`, `sa1100fb_setup_gpio` | `lcdPower`, `backlight`, `gpio` |
| PPCR, `freqs.new`, the copy of LCCR3 in the notifier | `freq`, `newf`, `tmp` |
| keventd, a governor or `/proc` writer, suspend, `fb_set_var` | the processes "worker", "cpufreq", "pm", "con" with `pc` and `req` |

One action stands for what runs between two places where another flow of
control may come in. `set_ctrlr_state` is the group `SetCtrlrState(p)`: `Ignore`,
`DisableForClock`, `Disable`, `EnableAfterClock`, `Reenable`, `Enable` are the
cases of its switch, taken with the semaphore; `ClearLen` and `Waited` are the
halves of `sa1100fb_disable_controller` around its sleep; `WriteCtl3`,
`WriteRest`, `PowerOn` and `Up` follow. `ScheduleWork` is the merge of requests
in `sa1100fb_schedule_work`. `Activate`, `Store`, `Compare` split
`sa1100fb_activate_var` where interrupts are on. `Sleep` is the processor's sleep,
after which the controller has lost its registers.

Flags choose the kernel a run is about:

* `Preemptible`: CONFIG_PREEMPT, which `jornada820_defconfig` of 2.6 sets. Without
  it a thread keeps the processor (`running`) until it sleeps.
* `Rapid`: a blank or a mode may be asked for before the worker has served the one before.
* `EarlyClock`: the clock may change before keventd ran for the first time.
* `WithPM`: suspend and resume happen.

The 20 ms that `schedule_timeout` gives the last frame in
`sa1100fb_disable_controller` may pass before the frame is out, in every run: the
board's dual-scan 640x480 frame takes longer at the default pixel clock. Nothing
is claimed of the frame for that reason; what follows such a wait starts on a
controller that still scans.

### Runs

| Run | Flags | Shows |
|---|---|---|
| `LcdSerial` | all on; 2 modes, 1 clock | `StateMatchesController`, `ProgramOnlyWhenOff` and `OnlyUnblankLights` hold in the worst environment |
| `LcdNoPreempt` | not preemptible, rapid, early; 2 modes, 2 clocks | `ClockChangesDark`, `PanelNeedsScan` and `DivisorSettled` hold |
| `LcdCalm` | preemptible, not rapid; 1 mode, 2 clocks | what was asked for last is what is shown (`AsAsked`, `LitWithBacklight`), and blanking and unblanking take effect |
| `LcdPreemptClock` | preemptible, rapid | **violated** `ClockChangesDark` |
| `LcdRapidBlank` | not preemptible, rapid | **violated** `UnblankKept` |

Bounds: two modes suffice because a mode is only compared with another;
two clocks, because a change has an old and a new rate. Modes and clocks are
interchangeable, so the safety runs use symmetry. Nothing else is bounded: the
automaton is finite. Suspend is left out of `LcdNoPreempt`, since a resumed
controller is deliberately re-programmed from reset values.

Fairness (`FairSpec`, for `LcdCalm`): a thread that can run runs (weak); the
controller ends a frame (weak); a thread waiting for the semaphore gets it
(strong), because each holder sleeps or returns after it has called `up`, which
makes the waiter runnable. No request is ever assumed to come.

### Two disagreements between code and comments

1. `set_ctrlr_state` "does the correct serialisation to ensure that things
   happen in the right way 100% of time time" (`k26/drivers/video/sa1100fb.c:1171`).
   Each call is serialised, the pair around a clock change is not: the
   notifier releases the semaphore, and under preemption the worker may run
   C_ENABLE from C_DISABLE_CLKCHANGE before PPCR is written (`LcdPreemptClock`).
2. "When we are blanking, but immediately unblank before we have blanked. We do
   the REENABLE thing here as well, just to be sure" (line 713). It is not sure when
   the screen is dark already: the second of two blanks queues C_DISABLE, the
   unblank right after it is merged into C_REENABLE, and C_REENABLE does nothing
   in C_DISABLE. Nothing is left to do and the screen stays dark (`LcdRapidBlank`,
   which checks `UnblankKept`: with nothing queued or running, a screen
   asked for is on).

The merge loses a blank as well: a mode set before keventd's first run turns a queued
C_DISABLE into C_REENABLE, and the screen stays lit. `AsAsked` would show it, in the
same run; it says both directions and holds when requests wait for each other (`LcdCalm`).

Three more were seen while the flags were chosen and are noted as hazards: a
clock change that meets C_STARTUP leaves the display enabled without backlight and
upper data pins; a request still queued at suspend may light the display before
the board sleeps; a mode change merged into an unblank of a lit screen is lost.
That is why `LcdCalm` assumes that requests wait and the clock rests until the
first run of the worker.

### Proofs (`LcdCtrlr_proof`)

The theorems hold for any sets of modes and clocks. These hold for every setting of the
flags:

* `TypeCorrect`: `TypeOK`;
* `MutualExclusion`: two flows are never inside `set_ctrlr_state` at once;
* `StateIsTruthful`: `StateMatchesController`;
* `ProgrammedOff`: `ProgramOnlyWhenOff`;
* `LitByUnblank`: `OnlyUnblankLights`.

The others need one flag each, stated as the hypothesis of the theorem, and none of
the other flags the runs fix:

| Theorem | Property | Hypothesis | Beyond the run |
|---|---|---|---|
| `PanelPowerNeedsScan` | `PanelNeedsScan` | `~WithPM` | preemptible kernels too |
| `ClockChangesInTheDark` | `ClockChangesDark` | `~Preemptible` | suspend too |
| `DivisorIsSettled` | `DivisorSettled` | `~Preemptible` | suspend, clock changes before the first request |
| `LitHasBacklight` | `LitWithBacklight` | `~EarlyClock` | rapid requests, suspend |
| `ScreenAsAsked` | `AsAsked` | `~Rapid` | early clock changes, suspend |

`LcdPreemptClock` shows that `ClockChangesInTheDark` needs its hypothesis, `LcdRapidBlank` that
`ScreenAsAsked` does (of which `UnblankKept` is one half).

None of these properties is inductive. `IInv` adds where every flow of control is
when it holds the semaphore (`Exclusion`), what holds there of `len` and `state`
(`Inner`: after `ClearLen` the controller stays off up to the last register;
the state says "ENABLE" on the way up and in a REENABLE, and not on
the way down), what holds when nobody is inside (`Matches`), and who may ask for
what (`Placed`). `Owned` adds that each process carries its own requests only: a clock
change is in one hand from its PRECHANGE to its POSTCHANGE. On these two
rest the invariants of these five: `Powered`, `Awake` and `Darkened` (without preemption
whoever is not asleep has the processor, so between the notifier's two calls the
state stays C_DISABLE_CLKCHANGE unless someone disabled the controller for good),
`Divided` (which register copies hold the present divisor), `LitThroughout`
(backlight and pins follow the state through every way up), `OneAtATime` and `Asked`
(a request is in `task_state`, on its way through the worker, or done). Types are proved apart from each other, flags by Zenon and
data by SMT; `TypeOK` alone would not do, for a local such as `tmp` has its type
only between its assignment and its use. The proofs assume
`ConstantsAssumption` only, which TLC evaluates in every run.

## 3. `PcmciaStatus`: events and power of the two sockets

| Code | Model |
|---|---|
| PCSR, PCCR | `pins`, `pccr` |
| `skt->k_state`, `skt->cs_state`, `skt->handler` | `k_state`, `cs_state`, `handler` |
| `sa1100_pcmcia_task` on keventd's queue | `queued` |
| `sa1100_pcmcia_task_handler` and its locals | `pc`, `state`, `i`, `all_events` |
| `sa1100_pcmcia_events` | `EventsOf`, `EventMask` |
| `sa1100_pcmcia_get_status`, `_set_socket`, `_init`, `_suspend`, `_register_callback` | `GetStatus`, `SetSocket`, `InitOrSuspend`, `RegisterCallback`, `UnregisterCallback` |

`RunTask`, `ReadState`, `SocketEvents` and `LoopEnd` are the loops of the task.
Pins change at any time, between any two steps. The kernel is not preemptible,
so other processes call the socket operations only while the task is idle or a
callback sleeps. Card Services is not in the repository: on SS_DETECT it reads
the status again (`ParseDetect`), at registration too, and it always keeps
SS_DETECT in its mask. `seen` and `present` record what it was told: `seen` by
any status read, `present` by an event it handled. An interrupt may or may not
come with a change of card detection or BVD1 (one edge is enabled), and never comes with the others.

`PcmciaEvents` checks, with both sockets, card detection and one pin without an
interrupt, two pin changes and three socket states (dead, powered, I/O card):
the driver compares with what Card Services saw last (`DetectSeen`), reported
power is real power after refused voltages too (`PowerReported`; the CompactFlash
socket refuses 5 V), every pin is sampled after it changed (`PinsSampled`), and
Card Services ends up with the true presence (`SeenSettles`). Two changes are
enough for a card to be there and gone, or for both sockets to change during one
round of the task; the loop has nothing that depends on more.
Fairness: keventd runs what is queued, the two-second timer fires.

`PcmciaSwallowed` is **violated**: "we must pick up every transition"
(`k24/arch/arm/mach-sa1100/sa1101.c:95`), yet `get_status` overwrites `k_state`,
so a transition that someone's status read finds before the task does raises
no event. A status read is no event: Card Services looks for the card only in its handler.

Left out: the windows and MECR (section 8), voltages 3.3 V (accepted by both
sockets, as 0 is) and Vpp.

### Proofs (`PcmciaStatus_proof`)

For any sockets, pins and requests: `StatusTypeCorrect`, `PowerIsReported`,
`DetectIsSeen`. `DetectSeen` is kept by the task only because SS_DETECT is always in the
mask of a socket with a handler (`DetectMasked`), so that a change of the detect pin is
always an event (`DetectIsEvent`) and Card Services reads the status in its
callback; and because the loop counter is past the first socket
whenever a callback is under way (`AtSocket`).

## 4. `PsAux` and `BoundedFifo`: the touch pad

`rx` is the byte in KBDDATA, `hand` the byte the handler has taken from it and not yet
dealt with, `last` the byte it was given last, `due` the answers the pad owes, `buf`, `head`, `tail`
the ring, `aux_count` and `mouse_reply_expected` are the driver's counters. A
process goes through the labels of `pc`: `open_aux` is `Open`, `RequestIrq` or
`RequestIrqFails`, `EnablePort`, `EnableDevice`, `EnableAgain`; `release_aux` is
`Release`, `DisablePort`; `read_aux` is `Read`, `Prepare`, `Check`, `Wake`, `Signal`,
`GetFromQueue`; `aux_write_dev` and `aux_write_ack` are `Command`, `Poll`, `Polled`,
`SendCommand`. `handle_mouse_event` is shared by the interrupt and `ms_wait`: `Poll` takes
a byte from the port, `HandleMouseEvent` deals with it, and the pad may send the next one in
between; the lock keeps everybody else out. `mouse_reply_expected` is an unsigned char and
wraps at 256. The bound of 10000 bytes after which the handler's loop returns
is left out: a pad sends far slower than the loop reads. The kernel is not preemptible, so a
process holds the `cpu` until it sleeps (interrupts come anywhere outside of the lock).
misc_open serialises opens.

`BoundedFifo` is the promise to readers: the bytes come out in order and at most once, and
what waits is thrown away only when the first user opens the device. A byte that
arrives while the device is open must go into the queue, unless `AUX_BUF_SIZE - 1` bytes wait
already or it has the value of an answer: the ring drops the newest byte when it is full,
and a movement byte 0xfa is taken for an answer while one is expected.
`ImplementsFifo` is the refinement, with the bytes from `tail` to `head` as `fifo`,
`aux_count` as `users` and the byte `handle_mouse_event` was given last as `last`; a byte
that the handler lost, or queued out of turn, is a step the abstract queue does not have.

`PsAuxReaders` (two processes, four bytes into a ring of four slots, two opens,
one write; 1,054,724 states) checks the refinement, `ReadInOrder`, `CountsOpens`, `OpenIsServed` and
the liveness property `ReaderWakes`. Four bytes fill the ring and overflow it;
two opens let one process come while the other leaves or fails. A run is allowed
to end when the bytes are used up, so deadlock is not checked. Fairness: the
interrupt is served, the pad answers, and a process that is runnable again and
again gets the processor (strong, for `cpu` may be taken in between). Nobody has
to read, and nothing has to move.

`PsAuxAck` is **violated**: `aux_write_ack` says of a command "we expect an ACK
in response" (`k24/drivers/char/j820_keyb.c:282`), but `open_aux` writes its first
0xf4 without counting the answer, with the interrupt already on; the process reads the
acknowledgement as movement. In that run movement bytes may have the value 0xfa too.

### Proofs (`PsAux_proof`)

For any finite set of processes, any size of the ring from two and any bounds: `TypeOK`,
`CountsOpens`, `OpenIsServed`, `ReadInOrder` and the refinement `ImplementsFifo`.

* The ring: `Wraps` is `% BufSize` for numbers below twice the size; from it, what a
  byte put in or taken out does to the slots between `tail` and `head` (`Ring`,
  `PutInRing`, `HeadIsFree`, `GetFromRing`). The overwritten slot of a full
  ring is the one nobody waits for.
* The processes: `ProcInv` adds to `CountsOpens` and `OpenIsServed` that a process has the
  processor exactly where it does not sleep (`Placed`), and that whoever turns the
  device on or off finds everybody else outside (`Lonely`). The count proves
  `Lonely`: a process closes the port only if it was the last one counted, and the
  first one to open was counted before it slept in `request_irq`.
* The byte in hand: `Held`, it is there only while its process polls under the lock, so nobody
  else handles or sends in between.
* Order: `Ordered` numbers the bytes from the one read last, through those in the ring and the
  one in hand, to the one in the register.
* `HandleBytes` says what `handle_mouse_event` may do with a byte, `StepsOfRing` which
  of five things each action does to the ring; the refinement and the order both follow from
  it alone.

## 5. `UsbOhci`: the USB host controller

| Code | Model |
|---|---|
| `struct ed`: `state`, ED_URB_DEL, OHCI_ED_SKIP, ED_H, `hwHeadP`, `hwTailP` | `d.ed[e]`: `state`, `urbdel`, `skip`, `halted`, `head`, `tail` |
| `struct td`: `urb`, `index`, TD_CC, `hwNextTD` | `d.td[t]` |
| `urb->hcpriv`, `urb_priv->state`, `td[]`, `td_cnt` | `d.urb[u]`: `stage`, `del`, `tds`, `cnt` |
| the TD pool | `d.pool`, a pool of `PoolBlocks` |
| `ed_controltail`, `ed_bulktail`, the interrupt tree | `d.list`, one sequence per type |
| OHCI_CTRL_CLE, OHCI_CTRL_BLE | `d.on` |
| `ed_rm_list[2]` | `d.rm` |
| the controller: its present TD, done queue, HCCA | `at`, `doneq`, `doneHead`, `frame` |
| OHCI_INTR_SF enabled and pending | `sfEn`, `sf` |
| `hc_interrupt` and its done list | `irq` |

`AddEd` and `Fill` are the two parts of `sohci_submit_urb` that hold
`usb_ed_lock`, with the allocation that may sleep between them; `Unlink` is
`sohci_unlink_urb` up to its wait, `UnlinkDead` the same with the controller dead;
`FreeDev`, `FreeDevDone` are `sohci_free_dev` and `AllocDev` its counterpart. The handler is
`Interrupt` (with `dl_reverse_done_list`), for each TD of `dl_done_list` one `DoneTd` and, when
it was the last of its endpoint's queue, one `UnlinkIdle`, then
`DoneEnd` and `StartOfFrameIrq` (with `dl_del_list`). Between `DoneTd` and `UnlinkIdle` the
lock is free for the completion function: the controller goes on, and the function may
submit and unlink (`CanCall`; there is one processor, so nobody else does). An
interrupt request is queued again when it has an interval (`Periodic`) and given back
when it has none. `Die` is an unrecoverable error, alone or together with others.
The controller is a process of its own: `Fetch`, `Retire` and `StartOfFrame` come
between any two steps of the driver, so TDs are completed while their
endpoint is being skipped, emptied and taken off the list.

What could go wrong and does not: a TD that is queued or done and not looked at is
allocated and belongs to a request (`InFlightTdsAreLive`); each TD of a request
is counted exactly once by completion, error, unlink or removal of the endpoint
(`EveryTdCounted`); the controller cannot reach a freed endpoint
(`FreedEdUnreachable`); no list and no endpoint with work stays stopped
(`NothingLeftStopped`); no endpoint is linked twice (`LinkedOnce`); and every request
comes back (`EveryUrbReturned`).

`Fill` queues all TDs of a request in one step, although no lock keeps the controller from
looking on. `TdQueue` takes that step apart: the stores of `td_fill` reach the memory in
any order up to its `wmb()`, the new tail after it, while the controller walks and TDs are
freed and taken again. `RunsWhatWasFilled` says it finds each part filled in whole, once and in order.
It is checked in `Drivers` (section 9), with three TDs and four parts, so that each TD is used twice.

`UsbHost`: a bulk endpoint with a request of two TDs and one of one, an interrupt
endpoint with one request; two requests at a time; four TDs, so that a submit
can run out of them (a dummy TD for each endpoint and two more); a device that goes
and comes back; a controller that may die: 699,928 states. Two requests on one
endpoint are what unlinking in the middle of a queue needs, two TDs what an
error that skips one needs, two endpoints what removals of both parities need.

Assumptions of `UsbHost`, each of which hides a defect found without it:

* `SubmitWhole`: nothing comes between `AddEd` and `Fill`. Otherwise (a) an unlink in
  between sets OHCI_ED_SKIP, which nothing clears again once the removal finds the
  endpoint without TDs and the submit then queues its own: the endpoint stalls; (b)
  the endpoint is linked twice. `UsbDoubleLink` runs without the
  assumption and **violates** `LinkedOnce`: "link the ed into a chain if is not already"
  (`k24/drivers/usb/host/usb-ohci.c:686`). The test is `ed->state != ED_OPER`; after an unlink
  the state is ED_OPER|ED_URB_DEL.
* `FreeSettled`: a device is freed when no unlink is pending on it. Otherwise
  `sohci_free_dev` compares the same way (line 864), does not call `ep_unlink`, and
  the freed endpoint stays on the controller's list.
* `Prompt`: an interrupt is served within its frame. Otherwise a failed TD still in the
  done queue when its request is unlinked has its successors counted twice
  (line 1564), and the request comes back early.

Fairness (`FairSpec`): frames go on (the controller's clock); an interrupt is taken when
no submit holds interrupts off; a thread or the handler inside the driver gets
to its end; a device answers an endpoint the controller reaches again and again, with
data or an error (a device that only ever answers NAK keeps its request, which is
no fault of the driver). One part is more than the code secures: `ep_rm_ed`
acknowledges SF (line 1293) in a thread, and threads that unlink in every second frame
can keep clearing the SF of the other parity, whose removals then wait for ever. So it is
assumed that of the frames of each parity, again and again, there is one in which SF is served
or is not enabled; nothing is assumed of any single frame. The driver's own comment at
line 2354 ("this assumes SOF (1/ms) interrupts don't get lost") knows of it.

Left out: isochronous transfers, the root hub, toggles, the balance of the interrupt
tree (a list is enough for what is checked), suspend; what `urb_free_priv` finds in `td->urb` of TDs
that a failed submit gives back unfilled (line 144, section 10); requests without a
completion function (`sohci_return_urb` frees those without a call, "just to be sure").

### Proofs (`UsbOhci_proof`)

Four invariants of `UsbHost` are proved for any endpoints, requests, sizes and
pool: `OhciTypeCorrect`, `NoLiveTdFreed`, `TdsCountedOnce`, `ListsRunAgain`. `LinkedOnce` and
`FreedEdUnreachable` follow from the same invariant, but there is no theorem of them: under the
assumptions below they say little, for those take away the steps by which the code breaks
them. The theorems hold under the assumptions of the run,
`SubmitWhole`, `FreeSettled` and `Prompt` (together `Orderly` in the proof), and no other:
`MayDie` is free, and so is everything else the controller, the threads and the
interrupt do. Without them they are false; see above.

None of the four is inductive, and they are so only together. The invariant, `IInv`, is the
conjunction of

| Part | What it says |
|---|---|
| `Typed` | the types, with the bound of every `td_cnt` |
| `Listings` | each list holds the operational endpoints of its kind, once; each removal list holds the endpoints marked for removal; lists that no removal has stopped run |
| `Waiting` | at most one request is between the parts of its submit, of a device that is there, and its endpoint is not marked |
| `Emptied` | a device that is gone has no endpoint |
| `Served` | what the handler may still have in its hands, by where it is |
| `Fetched` | the TD the controller works on is the head of a queue whose removal is not due |
| `Moving` | the TDs, see below |

The queues of TDs are not in the state: they are what following `hwNextTD` from head to
tail gives. `Moving` says there is, for each endpoint, a sequence of blocks that is the path
from its head to its tail (`Queues`; by `PathIsQueue` it is the one the model computes). The
sequences are disjoint; they hold TDs of linked requests of that endpoint
(`Belongs`, `Whole`: only allocated TDs have an owner, and a linked request has all its TDs), each followed by
the rest of its request (`Ordered`); every endpoint
has a dummy TD of its own (`Dummies`); what a request has not counted is in
its endpoint's queue or done, and nothing else is done (`Out`, `Counted`); every request
that is linked has something left to count (`Owing`); and a failed TD that
`dl_reverse_done_list` has not seen has halted its endpoint, at whose head is the next TD of the same
request if there is one (`Halts`). The last two are what makes the removal of a failed request's successors, and
the return of a request after its last TD, count nothing twice.

The done TDs are kept in three parts that do not meet: the controller's queue, the HCCA, and the
handler's list. `Moving` adds that none of those the controller holds belongs to an
endpoint whose removal is due. This is where `Prompt` is needed: one frame after
`ep_rm_ed` has marked an endpoint, the TDs it had done are in the HCCA, and the
handler sees them before it comes to `dl_del_list`.

The proof goes from sequences and pools to one queue (shortened by
`Retire`, thinned by `dl_del_list`, continued by `td_fill`), to each function of the driver,
as a relation between two values of `d` that says what it does to the queues
(`Retired`, `Unhalted`, `Credited`, `Thinned`, `Taken`), and from there to
one lemma per action (`...Keeps`). The loops of the driver (`UnhaltAll`, `FreeEds`, `DelEds`, the
allocation of TDs) are recursive functions on numbers; each is unfolded once, by
`UnhaltAllSteps` and the like, which show that the function exists and what its steps are, and is
then used by induction over its index.


## 6. `PoolBlocks` and `PciPool`: DMA blocks

`PoolBlocks` has the allocator as functions of a pool: pages in the order of
`page_list`, a bit map each (`Take` clears, `Give` sets a bit, `Grow` is
`pool_alloc_page`). `UsbOhci` allocates its TDs with the same functions; `PciPool` adds
callers: those with SLAB_KERNEL wait on `waitq` (`AllocWait`), are woken by a free
or their time-out, and start over. Nobody in the repository passes SLAB_KERNEL; the path
is in the code and is modelled. `Create` and `Destroy` are the life of a pool; a page that
`is_page_busy` finds busy is leaked, which the caller's guarantee must exclude
(`NoneLost`). The alignment of sizes in `pci_pool_create` is abstracted to `PerPage`.
Each operation is one step, since it holds `pool->lock` with interrupts off.

Checked in `Drivers` with five callers over two pages of two blocks (a page
is full, the pool is full, two may sleep), and proved in `PciPool_proof` for all
sizes: `PoolTypeCorrect`, `BlocksHandedOutOnce`, `NoBlockLost`. The invariant adds
that what callers hold are blocks of pages on the list of a pool that exists; `NextBlockIsFree` says that
the search returns a free block whenever there is one.

## 7. `UsbCtl` and `UsbDevice`: the USB device controller

`device_state_machine` is the table; `OnEvent` is `usbctl_next_state_on_event` with the
reported state and the callback. `ResetInterrupt` and `OtherInterrupt` are
`udc_int_hndlr`: a reset drops everything else; otherwise resume is handled before
suspend, and endpoint zero last. `masks` is UDCCR; the bus (`BusReset`, `BusIdles`,
`BusResumes`, `HostRequest`) latches a source only if it is not masked. `Open`,
`Start`, `Stop`, `Close` are the calls of the client, in any order the code lets through.

* `BusAgrees`: nothing pending, the driver believes itself suspended exactly when the
  bus is idle. It is true only if the unmasked source is always the one the bus raises next.
* `ImplementsDevice`: the table refines `UsbDevice`, which comes back from a
  suspend as what it was and calls the client once per configuration.

`core_kicker`, which turns the controller off for 300 us at each resume, and the
loops that repeat a write to the mask register until it takes are left out: a write takes at once.

Both assume `Prompt`: the bus does not change before its last interrupt is served (a
suspend takes 3 ms of idle bus). Without it a suspend and a resume latched together
are handled resume first, and the device sleeps on an active bus until the bus
is reset or resumes once more. `heard` excludes the time between opening and the first reset or resume, in which
the driver starts in ZOMBIE-SUSPENDED whatever the bus does. Both are proved in
`Interrupts_proof` under `Prompt`. `Shape` is what may be pending at a time, `Together`
the agreement through each pending interrupt with the masks that fit it; the table is
expanded once, in `Rows`.

## 8. `ClockChange` and `MecrBs`: clock, DRAM and PC Card timings

A change is a walk of `pc` through the notifiers in their order: DRAM (`DramHalves`, three
`DramWaveform`, `DramConfig`: every register write is a step), LCD (`LcdReturns`;
it sleeps, so mapping calls may come there), PC Card (`UpdateMecr`), PPCR (`SetSpeed`), and
the same again as POSTCHANGE. `SetIoMap` and `SetMemMap` change a window. `Bs` is
`sa1100_pcmcia_mecr_bs` in the units of the code, with its division by six, its
subtraction and its rounding.

* `DramInSpec`: "all re-configuration steps yield a valid DRAM configuration"
  (`k24/arch/arm/mach-sa1100/cpu-sa1100.c:75`).
* `MecrLongEnough`: BS + 1 units are never shorter than the access time asked for.

Checked in `Drivers` with three speeds, one of which has no DRAM settings (the
notifier panics: a state without steps, in the middle of the change), and access times 100, 255 and
600 ns. Proved in `ClockChange_proof` for all speeds and times, from `ClockAssumption`: the
clock is a multiple of 100 kHz between 176.9 and 280.2 MHz, times are 34 to 685 ns. The
assumption marks where the code ends: below 34 ns the unsigned subtraction wraps,
above 685 ns the result does not fit the five bits. `BsIsEnough` is the rounding,
`SlowerIsLonger` that a wait state for a faster clock serves a slower one. The invariant
says of each place which row of the table the registers hold (`DramInv`) and, just
before PPCR is written, that MECR is long enough for both clocks (`MecrInv`).

## 9. `Ucb1x00`, `Sa1101Irq` and `SocStatus`: three interrupt handlers

**`Ucb1x00`**: `ucb1x00_irq` is `UcbIrq`; the thread is `EnableIrq`, `Scheduled`,
`ReadStatus`, `ClearStatus`, `CallHandler`, `PrepareToSleep`, `Exit`. Users hook, free,
enable and disable sources, resume and unload the driver while the thread, or a handler
it called, sleeps (`Runs`). The GPIO interrupts on a rising edge: a line that stays high
never interrupts again. `AlwaysListening`: a sleeping thread has its interrupt on and
an edge for whatever is pending. `EverySourceFetched`: what is raised is read. Both have one
exception: a source that raises between the read of the status and its clearing
(`k24/drivers/misc/ucb1x00-core.c:276`). If it is in the copy already it is forgotten; if it
is not, the line stays high without an edge, and the codec is deaf until that source is
enabled again or the board resumes. The model has the step, and the history `late` records
that it was taken and its source still pends; nowhere else does the thread go deaf.
`Interrupts_proof` proves `AlwaysListening` (`ThreadAlwaysListening`), with that exception and
no assumption: the interrupt stays off from the wake-up of the thread until it declares
itself asleep.

**`Sa1101Irq`**: one edge-triggered GPIO carries all interrupts of the SA1101;
`FirstLook`, `FirstClear`, `MaskAndAck`, `Serve`, `LookAgain`, `ClearAgain`, `Unmask` are
`sa1101_irq_handler`, and devices interrupt between any two of them. `ChainAlive`: outside of the
handler the chain is unmasked, and an edge is latched for what is pending, except when a device
interrupted after the look that ended the handler's loop and before the unmasking
(`k26/arch/arm/common/sa1101.c:259-267`): it makes no edge, and the chain is silent for
good. The model has the step and `missed` records it; the property says that this is
the only place in the handler where an interrupt gets lost. It assumes
`EdgesWhileMasked` FALSE, which a comment says of the processor (line 219).
`Interrupts_proof` proves it (`ChainStaysAlive`) under the same assumption.

**`SocStatus`**: `soc_common_check_status` in the interrupt and in the timer,
`get_status` in a process, each interrupting the ones below it. `get_status` writes
`skt->status` without the lock, so a change can be hidden from the comparison; `TruthIsTold`
says that Card Services knows the truth in the end all the same, since the hidden value
is the one it was just told. Two changes of the pins let a card go and come back between
any two steps.

**`Drivers`** (`DriversMC`) checks the modules of sections 6 to 9 and `TdQueue` in one run. The
seven share no state, so a behaviour chooses one at its start; 123,828 states. The codec has two
sources, one that comes while the other is served; the SA1101 three interrupts, so
that one comes in each round of the handler. Fairness: the codec's interrupt is taken and its thread, a
real-time one, runs (weak); the SocStatus interrupt runs to its end (weak), the timer
fires every two seconds and, like the process, gets on whenever what interrupts it lets
it again and again (strong). Deadlock is not checked: a pool with sleepers, the
panic and pins that have used up their changes may stop.

## 10. Defects and disagreements seen

With a run that shows them: `LcdPreemptClock`, `LcdRapidBlank`, `PcmciaSwallowed`,
`PsAuxAck`, `UsbDoubleLink`, under "findings" in `PROJECT.json`.

Seen while flags were chosen or code was read, and excluded by the flag or assumption
named: the LCD's clock change at C_STARTUP (`EarlyClock`) and a request queued at suspend;
an unlink inside a submit (`SubmitWhole`); freeing a device with an unlink pending
(`FreeSettled`); a late USB interrupt (`Prompt`); acknowledgement of SF in `ep_rm_ed`
(`FairSpec`); `dl_del_urb` waking a queue in memory it has freed (usb-ohci.c:1530, not
modelled); a submit that fails before its TDs are filled and frees them by
what an earlier user left in `td->urb` (usb-ohci.c:144, not modelled); suspend and resume in one
UDC interrupt (`Prompt`); access times beyond
MECR's field (`ClockAssumption`). In the models, and excepted by the property: the codec's
read and clear (`late`), the SA1101's unmasking (`missed`). A speed without DRAM settings panics, in the model too.

## 11. What is proved, what is only model-checked

Proved with TLAPS, for all values of the constants that satisfy the assumptions of the
module (and the flags named above):

| Module | Theorems |
|---|---|
| `LcdCtrlr_proof` | `TypeCorrect`, `MutualExclusion`, `StateIsTruthful`, `ProgrammedOff`, `LitByUnblank`, `PanelPowerNeedsScan`, `ClockChangesInTheDark`, `DivisorIsSettled`, `LitHasBacklight`, `ScreenAsAsked` |
| `PcmciaStatus_proof` | `StatusTypeCorrect`, `PowerIsReported`, `DetectIsSeen` |
| `PsAux_proof` | `PsAuxTypeCorrect`, `OpensAreCounted`, `OpenersAreServed`, `BytesReadInOrder`, `PsAuxImplementsFifo` |
| `PciPool_proof` | `PoolTypeCorrect`, `BlocksHandedOutOnce`, `NoBlockLost` |
| `ClockChange_proof` | `DramAlwaysInSpec`, `MecrAlwaysLongEnough` |
| `UsbOhci_proof` | `OhciTypeCorrect`, `NoLiveTdFreed`, `TdsCountedOnce`, `ListsRunAgain` |
| `Interrupts_proof` | `DriverAndBusAgree`, `UdcImplementsDevice`, `ThreadAlwaysListening`, `ChainStaysAlive` |

Each proof finds an inductive invariant (`IInv`; `UdcInv`, `UcbInv` and `ChainInv` in
`Interrupts_proof`) and shows that `Init` implies it, each action keeps it, and it implies the
property. Each invariant that a run checks and that holds has a theorem, but for
`FreedEdUnreachable`, `LinkedOnce` and `RunsWhatWasFilled`.
`PoolBlocks_proof` holds the lemmas about the pool that `PciPool_proof` and `UsbOhci_proof` share.

Only model-checked: all liveness (`BlankTakesEffect`, `UnblankTakesEffect`,
`SeenSettles`, `PinsSampled`, `ReaderWakes`, `EveryUrbReturned`,
`EverySourceFetched`, `TruthIsTold`), which the proof system cannot express, nor
`ENABLED`; and the three invariants just named.

Every property has a mutant in `PROJECT.json`: a plausible slip in a modelled
definition that TLC finds with the configuration of the run. The mutants stand
in the modules, each before the definition it is a slip of.

## 12. Not modelled

* **Most of the lines of the repository.** The tree holds whole files of the kernel of
  which the port changed a few lines (`fbcon.c`, `fbmem.c`, `mm/init.c`,
  `sa1100-flash.c`, `time.c`, `psmouse-base.c`), register headers with
  thousands of addresses, and a vendored boot loader
  (`haret-j820gnu`). They have no state machine of this port. The models cover a small
  share of all lines (under a tenth), and about half of those of the drivers they model.
* **Tables and pure I/O**: scan codes, palettes, VGA and LCD timings, board
  set-up, GPIO, register dumps, image scripts.
* **Sequential code with one caller**: SSP (polled by the keyboard interrupt; that
  `ssp_read_word` waits for ever is documented), MCP (a retry bound that no
  caller notices), the probe of `soc_common.c`, `pm-*.c`, boot loaders.
* **Stubs**: `apm.c`, whose event queues nothing fills.
* **Second texts of the same driver**: the 2.4 `sa1100fb.c`, the 2.6
  `ucb1x00-core.c`; the 2.4 demultiplexer of the SA1101, which never masks its chain.
* **Parts whose other half is missing**: the 2.6 OHCI driver without its queues,
  `ucb1x00-audio.c` without the audio core.
