----------------------------- MODULE DriversMC ------------------------------
(***************************************************************************)
(* One instance of each of seven drivers that share no state: a behaviour  *)
(* chooses one of them at its start, and the others stay as they are.      *)
(***************************************************************************)
EXTENDS PciPool, ClockChange, UsbCtl, Ucb1x00, Sa1101Irq, SocStatus, TdQueue

CONSTANTS t1, t2, t3, t4, t5, null, i1, i2

MCThreads == {t1, t2, t3, t4, t5}
MCKernel == {t1, t2}
MCIrqs == {i1, i2}

VARIABLE driver   \* the one this behaviour is about

vars == <<driver, poolVars, clockVars, udcVars, ucbVars, chainVars, socVars, tdVars>>

Init ==
    /\ driver \in {"pool", "clock", "udc", "ucb", "chain", "soc", "tds"}
    /\ PoolInit /\ ClockInit /\ UdcInit /\ UcbInit /\ ChainInit /\ SocInit /\ TdInit

Only(name, A) == driver = name /\ A /\ UNCHANGED driver

UcbStep(A) ==
    Only("ucb", A) /\ UNCHANGED <<poolVars, clockVars, udcVars, chainVars, socVars, tdVars>>

SocStep(A) ==
    Only("soc", A) /\ UNCHANGED <<poolVars, clockVars, udcVars, ucbVars, chainVars, tdVars>>

Next ==
    \/ /\ Only("pool", PoolNext)
       /\ UNCHANGED <<clockVars, udcVars, ucbVars, chainVars, socVars, tdVars>>
    \/ /\ Only("clock", ClockNext)
       /\ UNCHANGED <<poolVars, udcVars, ucbVars, chainVars, socVars, tdVars>>
    \/ /\ Only("udc", UdcNext)
       /\ UNCHANGED <<poolVars, clockVars, ucbVars, chainVars, socVars, tdVars>>
    \/ UcbStep(UcbNext)
    \/ /\ Only("chain", ChainNext)
       /\ UNCHANGED <<poolVars, clockVars, udcVars, ucbVars, socVars, tdVars>>
    \/ SocStep(SocNext)
    \/ /\ Only("tds", TdNext)
       /\ UNCHANGED <<poolVars, clockVars, udcVars, ucbVars, chainVars, socVars>>

(* The interrupts of the codec and the thread go on; of the status checks,   *)
(* the interrupt's end, the timer comes back for ever, and it and processes  *)
(* run whenever what is over them leaves them the processor again and again. *)
Fairness ==
    /\ WF_vars(UcbStep(UcbIrq)) /\ WF_vars(UcbStep(UcbThread))
    /\ WF_vars(SocStep(CheckerStep("irq")))
    /\ SF_vars(SocStep(CheckerStep("timer")))
    /\ WF_vars(SocStep(CheckStatus("timer")))
    /\ SF_vars(SocStep(TakeEvents)) /\ SF_vars(SocStep(ProcStep))

Spec == Init /\ [][Next]_vars /\ Fairness

=============================================================================
