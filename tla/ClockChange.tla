---------------------------- MODULE ClockChange -----------------------------
(***************************************************************************)
(* A change of the CPU clock in 2.4 (arch/arm/mach-sa1100/cpu-sa1100.c)    *)
(* and the two buses whose timings are counted in its cycles: DRAM, set up *)
(* again by the same file, and PC Card, by the notifier and the mapping    *)
(* calls of drivers/pcmcia/sa1100_generic.c.                               *)
(*                                                                         *)
(* The notifiers run in the order of their registration: DRAM, LCD, PC     *)
(* Card. The LCD's sleeps until the display is off, so Card Services may   *)
(* map a window in the middle of a change; the kernel is not preemptible,  *)
(* so that cannot happen anywhere else.                                    *)
(***************************************************************************)
EXTENDS MecrBs

CONSTANTS
    Rates,      \* clocks sa11x0_validatespeed knows, in kHz
    Settings,   \* those sa1100_dram_settings has an entry for
    Sockets,    \* PC Card sockets
    Access      \* access times cards ask for, in ns

Fields == {"io", "attr", "mem"}
Windows == Sockets \X Fields

Times == Access \cup {SA1100_PCMCIA_IO_ACCESS, SA1100_PCMCIA_3V_MEM_ACCESS,
                      SA1100_PCMCIA_5V_MEM_ACCESS}

(* Clocks are multiples of 100 kHz, from the lowest the DRAM table of this   *)
(* machine has to the highest the processor has. The code takes the access   *)
(* times for granted: under 34 ns at 176.9 MHz the subtraction of Bs would   *)
(* wrap, over 685 ns at 280.2 MHz its result would run over into the next    *)
(* field of MECR.                                                            *)
ASSUME ClockAssumption ==
    /\ Rates \subseteq {100 * k : k \in 1769..2802}
    /\ Settings \subseteq Rates
    /\ Access \subseteq 34..685

-----------------------------------------------------------------------------
VARIABLES
    clock,    \* the clock PPCR selects, and cpufreq_get's answer
    target,   \* ci->new_freq
    before,   \* ci->old_freq
    pc,       \* where the change is
    post,     \* CPUFREQ_POSTCHANGE is under way
    mdcas,    \* the clock whose waveform each of MDCAS0-2 holds
    mdcnfg,   \* the clock whose setting MDCNFG holds
    half,     \* MDCNFG_CDB2: the DRAM runs at half the speed
    mecr,     \* the fields BSIO, BSA, BSM of MECR
    speed     \* speed_io, speed_attr, speed_mem

dramVars == <<mdcas, mdcnfg, half>>
freqVars == <<clock, target, before>>
clockVars == <<clock, target, before, pc, post, mdcas, mdcnfg, half, mecr, speed>>

DefaultSpeed ==
    [w \in Windows |-> IF w[2] = "io" THEN SA1100_PCMCIA_IO_ACCESS
                       ELSE SA1100_PCMCIA_5V_MEM_ACCESS]

ClockInit ==
    /\ clock \in Settings
    /\ target = clock /\ before = clock
    /\ pc = "idle" /\ post = FALSE
    /\ mdcas = [i \in 0..2 |-> clock] /\ mdcnfg = clock /\ half = FALSE
    /\ speed = DefaultSpeed
    /\ mecr = [w \in Windows |-> Bs(speed[w], clock)]

(* cpufreq_set: the speed is in the table and not below the CPUFREQ_MINMAX   *)
(* bound of the DRAM notifier, which knows no upper bound.                   *)
SetFreq(r) ==
    /\ pc = "idle" /\ r # clock
    /\ \E low \in Settings : r >= low
    /\ target' = r /\ before' = clock
    /\ pc' = "dram" /\ post' = FALSE
    /\ UNCHANGED <<clock, dramVars, mecr, speed>>

(* Both notifiers act before the clock gets faster and after it got slower.  *)
Concerned == IF post THEN target < before ELSE target > before

DramIgnores ==
    /\ pc = "dram" /\ ~Concerned
    /\ pc' = "lcd"
    /\ UNCHANGED <<freqVars, post, dramVars, mecr, speed>>

(* "couldn't find dram setting for speed"                                    *)
DramPanics ==
    /\ pc = "dram" /\ Concerned /\ target \notin Settings
    /\ pc' = "panic"
    /\ UNCHANGED <<freqVars, post, dramVars, mecr, speed>>

(* Mutant: the DRAM goes on at full speed.                                   *)
DramHalvesNot ==
    /\ pc = "dram" /\ Concerned /\ target \in Settings
    /\ pc' = "cas1"
    /\ UNCHANGED <<freqVars, post, dramVars, mecr, speed>>

(* sa1100_update_dram_timings: half the memory clock first, ...              *)
DramHalves ==
    /\ pc = "dram" /\ Concerned /\ target \in Settings
    /\ half' = TRUE /\ pc' = "cas1"
    /\ UNCHANGED <<freqVars, post, mdcas, mdcnfg, mecr, speed>>

(* ... then MDCAS2, 1, 0 on the way up and MDCAS0, 1, 2 on the way down, ... *)
DramWaveform(at, next, up) ==
    /\ pc = at
    /\ mdcas' = [mdcas EXCEPT ![IF target > before THEN up ELSE 2 - up] = target]
    /\ pc' = next
    /\ UNCHANGED <<freqVars, post, mdcnfg, half, mecr, speed>>

(* ... and MDCNFG, whose new value has the full memory clock.                *)
DramConfig ==
    /\ pc = "cnfg"
    /\ mdcnfg' = target /\ half' = FALSE
    /\ pc' = "lcd"
    /\ UNCHANGED <<freqVars, post, mdcas, mecr, speed>>

LcdReturns ==
    /\ pc = "lcd"
    /\ pc' = "mecr"
    /\ UNCHANGED <<freqVars, post, dramVars, mecr, speed>>

(* sa1100_pcmcia_notifier and sa1100_pcmcia_update_mecr.                     *)
UpdateMecr ==
    /\ pc = "mecr"
    /\ mecr' = IF Concerned THEN [w \in Windows |-> Bs(speed[w], target)] ELSE mecr
    /\ pc' = IF post THEN "idle" ELSE "ppcr"
    /\ UNCHANGED <<freqVars, post, dramVars, speed>>

(* sa1100_setspeed.                                                          *)
SetSpeed ==
    /\ pc = "ppcr"
    /\ clock' = target
    /\ post' = TRUE /\ pc' = "dram"
    /\ UNCHANGED <<target, before, dramVars, mecr, speed>>

(* Mutant: the access time is not recorded.                                  *)
SetTimeUnrecorded(w, ns) ==
    /\ mecr' = [mecr EXCEPT ![w] = Bs(ns, clock)]
    /\ UNCHANGED speed

(* The part the mapping calls share: a field of MECR is computed from the    *)
(* present clock, and the time is recorded for changes of the clock.         *)
SetTime(w, ns) ==
    /\ mecr' = [mecr EXCEPT ![w] = Bs(ns, clock)]
    /\ speed' = [speed EXCEPT ![w] = ns]

(* A process may run: no change is under way, or its LCD notifier sleeps.    *)
Schedulable == pc \in {"idle", "lcd"}

(* sa1100_pcmcia_set_io_map of an active window; 0 asks for the default.     *)
SetIoMap(s, ns) ==
    /\ Schedulable
    /\ SetTime(<<s, "io">>, IF ns = 0 THEN SA1100_PCMCIA_IO_ACCESS ELSE ns)
    /\ UNCHANGED <<freqVars, pc, post, dramVars>>

(* sa1100_pcmcia_set_mem_map; the default depends on the socket's voltage.   *)
SetMemMap(s, f, ns, vcc33) ==
    /\ Schedulable
    /\ SetTime(<<s, f>>, IF ns # 0 THEN ns
                         ELSE IF vcc33 THEN SA1100_PCMCIA_3V_MEM_ACCESS
                         ELSE SA1100_PCMCIA_5V_MEM_ACCESS)
    /\ UNCHANGED <<freqVars, pc, post, dramVars>>

UpdateDram ==
    \/ DramIgnores \/ DramPanics \/ DramHalves
    \/ DramWaveform("cas1", "cas2", 2)
    \/ DramWaveform("cas2", "cas3", 1)
    \/ DramWaveform("cas3", "cnfg", 0)
    \/ DramConfig

ClockNext ==
    \/ \E r \in Rates : SetFreq(r)
    \/ UpdateDram \/ LcdReturns \/ UpdateMecr \/ SetSpeed
    \/ \E s \in Sockets, ns \in Access \cup {0} :
          \/ SetIoMap(s, ns)
          \/ \E f \in {"attr", "mem"}, vcc33 \in BOOLEAN : SetMemMap(s, f, ns, vcc33)

ClockSpec == ClockInit /\ [][ClockNext]_clockVars

-----------------------------------------------------------------------------
(* "All re-configuration steps yield a valid DRAM configuration"             *)
(* (cpu-sa1100.c:75-76): at every step the DRAM runs at half speed, or its   *)
(* four registers hold one row of the table, that of the present clock or of *)
(* a faster one. The kernel runs from this memory, with interrupts on,       *)
(* through all of it.                                                        *)
DramInSpec ==
    half \/ (mdcnfg >= clock /\ \A i \in 0..2 : mdcas[i] = mdcnfg)

(* However windows are mapped while the clock changes, no bus cycle is       *)
(* shorter than what was asked for its window at the present clock.          *)
MecrLongEnough == \A w \in Windows : Enough(mecr[w], speed[w], clock)

=============================================================================
