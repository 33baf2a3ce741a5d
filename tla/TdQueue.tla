------------------------------ MODULE TdQueue -------------------------------
(***************************************************************************)
(* The appending of transfer descriptors to the queue of an endpoint that  *)
(* the USB controller is walking: td_fill (src/linux/kernel/drivers/usb/   *)
(* host/usb-ohci.c), store by store.                                       *)
(*                                                                         *)
(* What td_fill writes reaches the controller in any order, but nothing    *)
(* that comes after wmb() reaches it before what comes ahead of wmb().     *)
(* One thread appends at a time (usb_ed_lock). A descriptor is known by    *)
(* its bus address, 0 is none; hwCBP and hwBE are one word, and the words  *)
(* the controller does not read are left out. Halts and unlinking are in   *)
(* UsbOhci, where an append is one step.                                   *)
(***************************************************************************)
EXTENDS Naturals

CONSTANTS
    Tds,        \* descriptors of the pool
    MaxParts    \* bound: parts of transfers queued in a behaviour

ASSUME TdsAssumption == Tds \subseteq Nat \ {0} /\ Tds # {} /\ MaxParts \in Nat

-----------------------------------------------------------------------------
VARIABLES
    mem,        \* the words of each TD in memory: info, buffer, next
    hwHeadP,    \* ed->hwHeadP, which only the controller writes here
    hwTailP,    \* ed->hwTailP, as it is in memory
    stores,     \* stores of td_fill that have not reached the memory
    dummy,      \* ed->hwTailP as the driver reads it back
    td_pt,      \* the next dummy, 0 outside of td_fill
    filled,     \* parts filled in so far, numbered from 1
    ran,        \* parts the controller has carried out
    spare,      \* TDs that are free
    retired     \* TDs that are done and not freed yet

tdVars == <<mem, hwHeadP, hwTailP, stores, dummy, td_pt, filled, ran, spare, retired>>

(* ep_add_ed: the queue starts with a dummy TD.                              *)
TdInit ==
    /\ mem = [t \in Tds |-> [info |-> 0, buffer |-> 0, next |-> 0]]
    /\ dummy = (CHOOSE t \in Tds : TRUE) /\ hwHeadP = dummy /\ hwTailP = dummy
    /\ stores = {} /\ td_pt = 0 /\ filled = 0 /\ ran = 0
    /\ spare = Tds \ {dummy} /\ retired = {}

Store(t, word, value) == [td |-> t, word |-> word, value |-> value]

(* td_fill up to wmb(): the old dummy TD is filled in, a new TD is next.     *)
td_fill ==
    /\ td_pt = 0 /\ filled < MaxParts
    /\ \E t \in spare :
         /\ td_pt' = t
         /\ spare' = spare \ {t}
         /\ stores' = stores \cup {Store(t, "next", 0), Store(dummy, "info", filled + 1),
                                   Store(dummy, "buffer", filled + 1), Store(dummy, "next", t)}
    /\ filled' = filled + 1
    /\ UNCHANGED <<mem, hwHeadP, hwTailP, dummy, ran, retired>>

(* Mutant: no write barrier.                                                 *)
append_unordered ==
    /\ td_pt # 0
    /\ stores' = stores \cup {Store(0, "tail", td_pt)}
    /\ dummy' = td_pt /\ td_pt' = 0
    /\ UNCHANGED <<mem, hwHeadP, hwTailP, filled, ran, spare, retired>>

(* wmb(), and the new tail.                                                  *)
append ==
    /\ td_pt # 0 /\ stores = {}
    /\ stores' = {Store(0, "tail", td_pt)}
    /\ dummy' = td_pt /\ td_pt' = 0
    /\ UNCHANGED <<mem, hwHeadP, hwTailP, filled, ran, spare, retired>>

(* A store reaches the memory.                                               *)
Land ==
    /\ \E s \in stores :
         /\ stores' = stores \ {s}
         /\ IF s.word = "tail"
            THEN hwTailP' = s.value /\ UNCHANGED mem
            ELSE mem' = [mem EXCEPT ![s.td][s.word] = s.value] /\ UNCHANGED hwTailP
    /\ UNCHANGED <<hwHeadP, dummy, td_pt, filled, ran, spare, retired>>

(* The controller carries out the first TD. It reads all of it as soon as it *)
(* can see it: later, it would find only more of it written.                 *)
RunTd ==
    /\ hwHeadP # hwTailP
    /\ retired' = retired \cup {hwHeadP}
    /\ hwHeadP' = mem[hwHeadP].next
    /\ ran' = ran + 1
    /\ UNCHANGED <<mem, hwTailP, stores, dummy, td_pt, filled, spare>>

(* dl_done_list and td_free: it may be any request's next.                   *)
FreeTd ==
    /\ \E t \in retired : retired' = retired \ {t} /\ spare' = spare \cup {t}
    /\ UNCHANGED <<mem, hwHeadP, hwTailP, stores, dummy, td_pt, filled, ran>>

TdNext == td_fill \/ append \/ Land \/ RunTd \/ FreeTd

-----------------------------------------------------------------------------
(* "append to queue" (td_fill): what the controller sees queued is the next  *)
(* part, whole, in a TD that is not free, and has a TD after it; it runs     *)
(* every part once and in order.                                             *)
RunsWhatWasFilled ==
    /\ hwHeadP # hwTailP =>
         /\ hwHeadP \in Tds \ (spare \cup retired)
         /\ mem[hwHeadP].info = ran + 1 /\ mem[hwHeadP].buffer = ran + 1
         /\ mem[hwHeadP].next \in Tds \ (spare \cup retired)
    /\ hwHeadP = hwTailP /\ stores = {} /\ td_pt = 0 => ran = filled

=============================================================================
