-------------------------- MODULE ClockChange_proof --------------------------
(***************************************************************************)
(* Proofs about ClockChange, for every table of DRAM settings, every set   *)
(* of sockets and all clocks and access times ClockAssumption allows.      *)
(***************************************************************************)
EXTENDS ClockChange, TLAPS

-----------------------------------------------------------------------------
(* The wait states of MecrBs: all clocks and access times at which the field *)
(* of MECR neither wraps nor runs over into the next one.                    *)

LEMMA DivideBySix ==
    ASSUME NEW n \in Nat
    PROVE  n \div 6 \in Nat /\ n % 6 \in 0..5 /\ n = 6 * (n \div 6) + (n % 6)
BY SMT

(* The quotient and the rest of a division by a million.                     *)
LEMMA DivideByMillion ==
    ASSUME NEW t \in Int
    PROVE  /\ t \div 1000000 \in Int /\ 0 <= t % 1000000 /\ t % 1000000 < 1000000
           /\ t = 1000000 * (t \div 1000000) + (t % 1000000)
BY SMT

(* Rounding up gives the least count of millions that is long enough.        *)
LEMMA RoundedUp ==
    ASSUME NEW t \in Int, NEW d \in Int, NEW r \in Int,
           0 <= r, r < 1000000, t = 1000000 * d + r
    PROVE  LET b == d + (IF r = 0 THEN 0 ELSE 1)
           IN  b * 1000000 >= t /\ (b - 1) * 1000000 < t
BY SMT

(* BS + 1 units of 10^6 cover the truncated quotient q; the product is a     *)
(* multiple of 100, so the remainder r of the division by 6 can only matter  *)
(* when the units leave it room.                                             *)
LEMMA UnitsCover ==
    ASSUME NEW m \in Nat, NEW q \in Int, NEW r \in 0..5, NEW b \in Int,
           100 * m = 6 * q + r, (b + 1) * 1000000 >= q
    PROVE  (b + 1) * 6000000 >= 100 * m
BY SMT

(* An access time and a clock in hundreds of kHz whose product the field can *)
(* count: sa1100_pcmcia_mecr_bs fits its five bits, and BS is enough.        *)
LEMMA BsIsEnough ==
    ASSUME NEW ns \in Nat, NEW k \in Nat, ns * k >= 60000, ns * k <= 1920000
    PROVE  Bs(ns, 100 * k) \in 0..31 /\ Enough(Bs(ns, 100 * k), ns, 100 * k)
<1> DEFINE n == ns * (100 * k)
           q == n \div 6
           t == q - 1000000
           b == t \div 1000000 + (IF t % 1000000 = 0 THEN 0 ELSE 1)
<1>1. ns * k \in Nat /\ n = 100 * (ns * k) /\ n \in Nat
  BY SMT
<1>2. n = 6 * q + (n % 6) /\ n % 6 \in 0..5 /\ q \in Nat
  <2> HIDE DEF n
  <2> QED
    BY <1>1, DivideBySix, SMT
<1>3. 1000000 <= q /\ q <= 32000000
  <2> DEFINE p == ns * k
  <2>1. p \in Nat /\ p >= 60000 /\ p <= 1920000 /\ n = 100 * p
    BY <1>1, SMT
  <2> HIDE DEF q, n, p
  <2> QED
    BY <1>2, <2>1, SMT
<1>4. b \in Int /\ b * 1000000 >= t /\ (b - 1) * 1000000 < t
  <2> HIDE DEF q
  <2>1. t \in Int
    BY <1>2, SMT
  <2> HIDE DEF t
  <2>2. /\ t \div 1000000 \in Int /\ 0 <= t % 1000000 /\ t % 1000000 < 1000000
        /\ t = 1000000 * (t \div 1000000) + (t % 1000000)
    BY <2>1, DivideByMillion, SMT
  <2>3. b * 1000000 >= t /\ (b - 1) * 1000000 < t
    BY <2>1, <2>2, RoundedUp, SMT
  <2> QED
    BY <2>2, <2>3, SMT
<1>5. Bs(ns, 100 * k) = b
  BY SMT DEF Bs
<1>6. q = t + 1000000
  <2> HIDE DEF q
  <2> QED
    BY <1>2, SMT
<1> HIDE DEF b, t, q
<1>7. t \in Int
  BY <1>2, SMT DEF t
<1>8. b \in 0..31 /\ (b + 1) * 1000000 >= q
  BY <1>2, <1>3, <1>4, <1>6, <1>7, SMT
<1>9. (b + 1) * 6000000 >= 100 * (ns * k)
  <2>1. 100 * (ns * k) = 6 * q + (n % 6)
    BY <1>1, <1>2, SMT
  <2> HIDE DEF n
  <2> QED
    BY <1>1, <1>2, <1>8, <2>1, UnitsCover, SMT
<1>10. ns * (100 * k) = 100 * (ns * k)
  BY SMT
<1> QED
  BY <1>5, <1>8, <1>9, <1>10, SMT DEF Enough

(* What is long enough at a clock is long enough at a slower one.            *)
LEMMA SlowerIsLonger ==
    ASSUME NEW bs \in Int, NEW ns \in Nat, NEW fast \in Nat, NEW slow \in Nat,
           slow <= fast, Enough(bs, ns, fast)
    PROVE  Enough(bs, ns, slow)
<1>1. ns * (fast - slow) >= 0
  BY SMT
<1>2. ns * slow <= ns * fast /\ ns * slow \in Int /\ ns * fast \in Int
  BY <1>1, SMT
<1> QED
  BY <1>2, SMT DEF Enough

-----------------------------------------------------------------------------
(* The times and rates of the driver are natural numbers.                    *)
LEMMA Domains ==
    /\ Times \subseteq Nat /\ Rates \subseteq Nat /\ Settings \subseteq Rates
    /\ Access \subseteq Times
    /\ {SA1100_PCMCIA_IO_ACCESS, SA1100_PCMCIA_3V_MEM_ACCESS,
        SA1100_PCMCIA_5V_MEM_ACCESS} \subseteq Times
<1>1. ASSUME NEW r \in Rates PROVE r \in Nat
  <2>1. PICK k \in 1769..2802 : r = 100 * k
    BY ClockAssumption, SMT
  <2> QED
    BY <2>1, SMT
<1>2. Rates \subseteq Nat /\ Settings \subseteq Rates /\ Access \subseteq Nat
  BY <1>1, ClockAssumption, SMT
<1> QED
  BY <1>2, SMT DEF Times, SA1100_PCMCIA_IO_ACCESS, SA1100_PCMCIA_3V_MEM_ACCESS,
                   SA1100_PCMCIA_5V_MEM_ACCESS

(* The products of all times and clocks are within what MECR can count.      *)
LEMMA TimesFit ==
    ASSUME NEW ns \in Times, NEW khz \in Rates
    PROVE  Bs(ns, khz) \in 0..31 /\ Enough(Bs(ns, khz), ns, khz)
<1>1. PICK k \in 1769..2802 : khz = 100 * k
  BY ClockAssumption, SMT
<1>2. ns \in 34..685
  BY ClockAssumption, SMT DEF Times, SA1100_PCMCIA_IO_ACCESS,
     SA1100_PCMCIA_3V_MEM_ACCESS, SA1100_PCMCIA_5V_MEM_ACCESS
<1>3. ns * k >= 34 * 1769 /\ ns * k <= 685 * 2802
  <2>1. (ns - 34) * k >= 0 /\ 34 * (k - 1769) >= 0
    BY <1>2, SMT
  <2>2. (685 - ns) * k >= 0 /\ 685 * (2802 - k) >= 0
    BY <1>2, SMT
  <2> QED
    BY <1>2, <2>1, <2>2, SMT
<1> QED
  BY <1>1, <1>2, <1>3, BsIsEnough, SMT

-----------------------------------------------------------------------------
USE DEF Fields, Windows

Places == {"idle", "dram", "cas1", "cas2", "cas3", "cnfg", "lcd", "mecr", "ppcr", "panic"}

ClockTypeOK ==
    /\ clock \in Rates /\ target \in Rates /\ before \in Rates
    /\ pc \in Places /\ post \in BOOLEAN
    /\ mdcas \in [0..2 -> Rates] /\ mdcnfg \in Rates /\ half \in BOOLEAN
    /\ mecr \in [Windows -> 0..31] /\ speed \in [Windows -> Times]

(* All the DRAM registers hold row s of the table, and full speed.           *)
Row(s) == ~half /\ mdcnfg = s /\ \A i \in 0..2 : mdcas[i] = s

Up == target > before
ByUp == IF Up THEN 2 ELSE 0

(* The clock is the old one until POSTCHANGE; before the DRAM's notifier has *)
(* acted its registers are still those of the old clock, in between they are *)
(* rewritten one by one at half speed, and then they are the new clock's.    *)
DramInv ==
    /\ pc # "idle" => target # before /\ clock = IF post THEN target ELSE before
    /\ pc = "idle" => Row(clock)
    /\ pc \in {"dram", "panic"} /\ ~post => Row(before)
    /\ pc \in {"dram", "panic"} /\ post => Row(IF Up THEN target ELSE before)
    /\ pc \in {"cas1", "cas2", "cas3", "cnfg"} => half /\ Concerned
    /\ pc \in {"cas2", "cas3", "cnfg"} => mdcas[ByUp] = target
    /\ pc \in {"cas3", "cnfg"} => mdcas[1] = target
    /\ pc = "cnfg" => mdcas[2 - ByUp] = target
    /\ pc \in {"lcd", "mecr"} => Row(IF post \/ Up THEN target ELSE before)
    /\ pc = "ppcr" => ~post /\ Row(IF Up THEN target ELSE before)

(* Every window of every socket is long enough at clock c.                   *)
LongAt(c) == \A w \in Windows : Enough(mecr[w], speed[w], c)

(* ... at the present one, and at the coming one just before it is set.      *)
MecrInv == LongAt(clock) /\ (pc = "ppcr" => LongAt(target))

IInv == ClockTypeOK /\ DramInv /\ MecrInv

(* The invariant holds at first.                                             *)
LEMMA ClockInitially == ClockInit => IInv
<1> SUFFICES ASSUME ClockInit PROVE IInv
  OBVIOUS
<1>1. clock \in Rates
  BY Domains DEF ClockInit
<1>2. speed \in [Windows -> Times]
  BY Domains DEF ClockInit, DefaultSpeed
<1>3. ClockTypeOK
  BY <1>1, <1>2, TimesFit DEF ClockInit, ClockTypeOK, Places
<1>4. DramInv
  BY DEF ClockInit, DramInv, Row
<1>5. MecrInv
  BY <1>1, <1>2, TimesFit DEF ClockInit, MecrInv, LongAt
<1> QED
  BY <1>3, <1>4, <1>5 DEF IInv

(* A mapping call leaves the field it sets long enough for the clock it saw. *)
LEMMA SetTimeKeeps ==
    ASSUME ClockTypeOK, LongAt(clock), clock' = clock,
           NEW w \in Windows, NEW ns \in Times, SetTime(w, ns)
    PROVE  mecr' \in [Windows -> 0..31] /\ speed' \in [Windows -> Times] /\ LongAt(clock)'
<1>1. Bs(ns, clock) \in 0..31 /\ Enough(Bs(ns, clock), ns, clock)
  BY TimesFit DEF ClockTypeOK
<1>2. /\ mecr' = [mecr EXCEPT ![w] = Bs(ns, clock)]
      /\ speed' = [speed EXCEPT ![w] = ns]
  BY DEF SetTime
<1>3. mecr' \in [Windows -> 0..31] /\ speed' \in [Windows -> Times]
  BY <1>1, <1>2 DEF ClockTypeOK
<1>4. ASSUME NEW v \in Windows
      PROVE  Enough(mecr'[v], speed'[v], clock)
  <2>1. CASE v = w
    BY <1>1, <1>2, <2>1 DEF ClockTypeOK
  <2>2. CASE v # w
    <3>1. mecr'[v] = mecr[v] /\ speed'[v] = speed[v]
      BY <1>2, <2>2 DEF ClockTypeOK
    <3> QED
      BY <3>1 DEF LongAt
  <2> QED
    BY <2>1, <2>2
<1> QED
  BY <1>3, <1>4 DEF LongAt

(* Every step keeps the types.                                               *)
LEMMA ClockTypeStep ==
    ASSUME IInv, [ClockNext]_clockVars
    PROVE  ClockTypeOK'
<1>1. ClockTypeOK /\ LongAt(clock)
  BY DEF IInv, MecrInv
<1> USE <1>1, Domains DEF ClockTypeOK, Places, freqVars, dramVars
<1>2. ASSUME NEW r \in Rates, SetFreq(r) PROVE ClockTypeOK'
  BY <1>2 DEF SetFreq
<1>3. CASE DramIgnores
  BY <1>3 DEF DramIgnores
<1>4. CASE DramPanics
  BY <1>4 DEF DramPanics
<1>5. CASE DramHalves
  BY <1>5 DEF DramHalves
<1>6. CASE \/ DramWaveform("cas1", "cas2", 2) \/ DramWaveform("cas2", "cas3", 1)
           \/ DramWaveform("cas3", "cnfg", 0)
  <2>1. CASE DramWaveform("cas1", "cas2", 2)
    BY <2>1 DEF DramWaveform
  <2>2. CASE DramWaveform("cas2", "cas3", 1)
    BY <2>2 DEF DramWaveform
  <2>3. CASE DramWaveform("cas3", "cnfg", 0)
    BY <2>3 DEF DramWaveform
  <2> QED
    BY <1>6, <2>1, <2>2, <2>3
<1>7. CASE DramConfig
  BY <1>7 DEF DramConfig
<1>8. CASE LcdReturns
  BY <1>8 DEF LcdReturns
<1>9. CASE UpdateMecr
  <2>1. \A w \in Windows : Bs(speed[w], target) \in 0..31
    BY TimesFit
  <2> QED
    BY <1>9, <2>1 DEF UpdateMecr
<1>10. CASE SetSpeed
  BY <1>10 DEF SetSpeed
<1>11. ASSUME NEW w \in Windows, NEW ns \in Times, SetTime(w, ns),
              UNCHANGED <<freqVars, pc, post, dramVars>>
       PROVE  ClockTypeOK'
  <2>1. mecr' \in [Windows -> 0..31] /\ speed' \in [Windows -> Times]
    BY <1>11, SetTimeKeeps
  <2> QED
    BY <1>11, <2>1
<1>12. ASSUME NEW s \in Sockets, NEW ns \in Access \cup {0}, SetIoMap(s, ns)
       PROVE  ClockTypeOK'
  <2>1. <<s, "io">> \in Windows
    OBVIOUS
  <2> QED
    BY <1>11, <1>12, <2>1 DEF SetIoMap
<1>13. ASSUME NEW s \in Sockets, NEW ns \in Access \cup {0}, NEW f \in {"attr", "mem"},
              NEW v \in BOOLEAN, SetMemMap(s, f, ns, v)
       PROVE  ClockTypeOK'
  <2>1. <<s, f>> \in Windows
    OBVIOUS
  <2> QED
    BY <1>11, <1>13, <2>1 DEF SetMemMap
<1>14. CASE UNCHANGED clockVars
  BY <1>14 DEF clockVars
<1>15. CASE UpdateDram
  BY <1>3, <1>4, <1>5, <1>6, <1>7, <1>15 DEF UpdateDram
<1> QED
  BY <1>2, <1>8, <1>9, <1>10, <1>12, <1>13, <1>14, <1>15 DEF ClockNext

(* A mapping call touches neither the clock nor the DRAM.                    *)
LEMMA MappingLeaves ==
    ASSUME NEW s, NEW f, NEW ns, NEW v, SetIoMap(s, ns) \/ SetMemMap(s, f, ns, v)
    PROVE  UNCHANGED <<freqVars, pc, post, dramVars>>
BY DEF SetIoMap, SetMemMap

(* Every step keeps what is known of the DRAM registers.                     *)
LEMMA DramStep ==
    ASSUME IInv, [ClockNext]_clockVars
    PROVE  DramInv'
<1>1. ClockTypeOK /\ DramInv
  BY DEF IInv
<1> USE <1>1, Domains DEF ClockTypeOK, DramInv, Row, Up, ByUp, Concerned, freqVars, dramVars
<1>2. ASSUME NEW r \in Rates, SetFreq(r) PROVE DramInv'
  BY <1>2 DEF SetFreq
<1>3. CASE DramIgnores
  BY <1>3 DEF DramIgnores
<1>4. CASE DramPanics
  BY <1>4 DEF DramPanics
<1>5. CASE DramHalves
  BY <1>5 DEF DramHalves
<1>6. CASE DramWaveform("cas1", "cas2", 2)
  BY <1>6 DEF DramWaveform
<1>7. CASE DramWaveform("cas2", "cas3", 1)
  BY <1>7 DEF DramWaveform
<1>8. CASE DramWaveform("cas3", "cnfg", 0)
  BY <1>8 DEF DramWaveform
<1>9. CASE DramConfig
  <2>1. \A i \in 0..2 : i = ByUp \/ i = 1 \/ i = 2 - ByUp
    OBVIOUS
  <2>2. \A i \in 0..2 : mdcas[i] = target
    BY <1>9, <2>1 DEF DramConfig
  <2> QED
    BY <1>9, <2>2 DEF DramConfig
<1>10. CASE LcdReturns
  BY <1>10 DEF LcdReturns
<1>11. CASE UpdateMecr
  BY <1>11 DEF UpdateMecr
<1>12. CASE SetSpeed
  BY <1>12 DEF SetSpeed
<1>13. CASE UNCHANGED <<freqVars, pc, post, dramVars>>
  BY <1>13
<1>14. CASE UNCHANGED clockVars
  BY <1>14 DEF clockVars
<1> QED
  BY <1>2, <1>3, <1>4, <1>5, <1>6, <1>7, <1>8, <1>9, <1>10, <1>11, <1>12, <1>13, <1>14,
     MappingLeaves DEF ClockNext, UpdateDram

(* Every step keeps MECR long enough: the notifier writes it for a faster    *)
(* clock before that is set, and a mapping call cannot come between.         *)
LEMMA MecrStep ==
    ASSUME IInv, [ClockNext]_clockVars
    PROVE  MecrInv'
<1>1. ClockTypeOK /\ DramInv /\ MecrInv
  BY DEF IInv
<1>2. ASSUME UNCHANGED <<clock, mecr, speed>>, pc' # "ppcr" PROVE MecrInv'
  BY <1>1, <1>2 DEF MecrInv, LongAt
<1>3. ASSUME NEW r \in Rates, SetFreq(r) PROVE MecrInv'
  BY <1>2, <1>3 DEF SetFreq
<1>4. CASE UpdateDram
  BY <1>2, <1>4 DEF UpdateDram, DramIgnores, DramPanics, DramHalves, DramWaveform,
                    DramConfig, freqVars
<1>5. CASE LcdReturns
  BY <1>2, <1>5 DEF LcdReturns, freqVars
<1>6. CASE UpdateMecr
  <2>1. /\ clock' = clock /\ target' = target /\ speed' = speed /\ before' = before
        /\ mecr' = IF Concerned THEN [w \in Windows |-> Bs(speed[w], target)] ELSE mecr
        /\ pc = "mecr" /\ (pc' = "ppcr" => ~post)
    BY <1>6 DEF UpdateMecr, freqVars
  <2>2. target # before /\ clock = IF post THEN target ELSE before
    BY <1>1, <2>1 DEF DramInv
  <2>3. CASE Concerned
    <3>1. LongAt(target)'
      BY <1>1, <2>1, <2>3, TimesFit DEF LongAt, ClockTypeOK
    <3>2. clock <= target
      BY <1>1, <2>2, <2>3, Domains DEF Concerned, ClockTypeOK
    <3>3. ASSUME NEW w \in Windows PROVE Enough(mecr'[w], speed'[w], clock)
      <4>1. Enough(mecr'[w], speed[w], target) /\ mecr'[w] \in Int
        BY <1>1, <2>1, <2>3, TimesFit DEF ClockTypeOK
      <4>2. Enough(mecr'[w], speed[w], clock)
        BY <1>1, <3>2, <4>1, SlowerIsLonger, Domains DEF ClockTypeOK
      <4> QED
        BY <2>1, <4>2
    <3> QED
      BY <2>1, <3>1, <3>3 DEF MecrInv, LongAt
  <2>4. CASE ~Concerned
    <3>1. LongAt(clock)'
      BY <1>1, <2>1, <2>4 DEF MecrInv, LongAt
    <3>2. ASSUME ~post, NEW w \in Windows PROVE Enough(mecr'[w], speed'[w], target)
      <4>1. target <= clock
        BY <1>1, <2>2, <2>4, <3>2, Domains DEF Concerned, ClockTypeOK
      <4>2. Enough(mecr[w], speed[w], clock) /\ mecr[w] \in Int
        BY <1>1 DEF MecrInv, LongAt, ClockTypeOK
      <4>3. Enough(mecr[w], speed[w], target)
        BY <1>1, <4>1, <4>2, SlowerIsLonger, Domains DEF ClockTypeOK
      <4> QED
        BY <2>1, <2>4, <4>3
    <3> QED
      BY <2>1, <3>1, <3>2 DEF MecrInv, LongAt
  <2> QED
    BY <2>3, <2>4
<1>7. CASE SetSpeed
  BY <1>1, <1>7 DEF SetSpeed, MecrInv, LongAt
<1>8. ASSUME NEW w \in Windows, NEW ns \in Times, SetTime(w, ns), Schedulable,
             UNCHANGED <<freqVars, pc, post, dramVars>>
      PROVE  MecrInv'
  <2>1. LongAt(clock)'
    BY <1>1, <1>8, SetTimeKeeps DEF MecrInv, freqVars
  <2>2. pc' # "ppcr"
    BY <1>8 DEF Schedulable
  <2> QED
    BY <2>1, <2>2 DEF MecrInv
<1>9. ASSUME NEW s \in Sockets, NEW ns \in Access \cup {0}, SetIoMap(s, ns)
      PROVE  MecrInv'
  <2>1. <<s, "io">> \in Windows
    OBVIOUS
  <2> QED
    BY <1>8, <1>9, <2>1, Domains DEF SetIoMap
<1>10. ASSUME NEW s \in Sockets, NEW ns \in Access \cup {0}, NEW f \in {"attr", "mem"},
              NEW v \in BOOLEAN, SetMemMap(s, f, ns, v)
       PROVE  MecrInv'
  <2>1. <<s, f>> \in Windows
    OBVIOUS
  <2> QED
    BY <1>8, <1>10, <2>1, Domains DEF SetMemMap
<1>11. CASE UNCHANGED clockVars
  BY <1>1, <1>11 DEF clockVars, MecrInv, LongAt
<1> QED
  BY <1>3, <1>4, <1>5, <1>6, <1>7, <1>9, <1>10, <1>11 DEF ClockNext

(* The invariant holds in every reachable state.                             *)
LEMMA ClockInductive == ClockSpec => []IInv
<1>1. IInv /\ [ClockNext]_clockVars => IInv'
  BY ClockTypeStep, DramStep, MecrStep DEF IInv
<1> QED
  BY ClockInitially, <1>1, PTL DEF ClockSpec

-----------------------------------------------------------------------------
(* Between any two writes of sa1100_update_dram_timings, and wherever in the *)
(* change the clock is set, the memory the kernel runs from is usable.       *)
THEOREM DramAlwaysInSpec == ClockSpec => []DramInSpec
<1>1. IInv => DramInSpec
  BY Domains DEF IInv, ClockTypeOK, DramInv, Row, Up, ByUp, Places, DramInSpec
<1> QED
  BY ClockInductive, <1>1, PTL

(* No access to a card is ever shorter than what was asked for its window,   *)
(* whatever the order of mappings and changes of the clock.                  *)
THEOREM MecrAlwaysLongEnough == ClockSpec => []MecrLongEnough
<1>1. IInv => MecrLongEnough
  BY SMT DEF IInv, MecrInv, LongAt, Enough, MecrLongEnough
<1> QED
  BY ClockInductive, <1>1, PTL

=============================================================================
