------------------------------- MODULE MecrBs -------------------------------
(***************************************************************************)
(* The access times of PC Cards as the fields of MECR count them           *)
(* (src/linux/kernel/drivers/pcmcia/sa1100.h).                             *)
(***************************************************************************)
EXTENDS Integers

SA1100_PCMCIA_IO_ACCESS == 165
SA1100_PCMCIA_3V_MEM_ACCESS == 300
SA1100_PCMCIA_5V_MEM_ACCESS == 150

(* sa1100_pcmcia_mecr_bs: the number of BCLKs, three times two cycles of the *)
(* processor each, rounded up, less one.                                     *)
Bs(ns, khz) ==
    LET t == (ns * khz) \div 6 - 1000000
    IN  t \div 1000000 + (IF t % 1000000 = 0 THEN 0 ELSE 1)

(* BS + 1 units last the access time at a clock.                             *)
Enough(bs, ns, khz) == (bs + 1) * 6000000 >= ns * khz

=============================================================================
