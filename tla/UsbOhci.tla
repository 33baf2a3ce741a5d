------------------------------ MODULE UsbOhci -------------------------------
(***************************************************************************)
(* The USB host controller driver (src/linux/kernel/drivers/usb/host/      *)
(* usb-ohci.c), its transfer descriptors taken from the pool of PoolBlocks.*)
(*                                                                         *)
(* Three parties share the descriptors: threads (and completion callbacks) *)
(* that submit and unlink requests, the interrupt handler hc_interrupt,    *)
(* and the controller, which walks the endpoint lists by itself. What the  *)
(* driver does under usb_ed_lock is one step; the controller may take a    *)
(* step between any two of them, and between the parts of the handler.     *)
(* One device has all the endpoints; isochronous transfers, the root hub   *)
(* and the toggle bits are left out. Every request has a completion        *)
(* function. td_fill is one step: TdQueue has its stores one by one. A     *)
(* submit that fails after TDs were allocated gives them back; what        *)
(* urb_free_priv then finds in td->urb of a TD that td_fill has not seen   *)
(* is left out.                                                            *)
(***************************************************************************)
EXTENDS PoolBlocks, FiniteSets, SequencesExt

CONSTANTS
    Eds,          \* endpoint descriptors of the device
    Type,         \* ed->type: "control", "bulk" or "int"
    Urbs,         \* requests of the drivers
    Ep,           \* urb->pipe, the endpoint of a request
    Size,         \* urb_priv->length, the number of its TDs
    Periodic,     \* interrupt requests with an interval: queued again when done
    Nil,          \* no descriptor (dma address 0, NULL)
    MaxUrbs,      \* bound: requests submitted at a time
    SubmitWhole,  \* nothing comes between the two locked parts of a submit
    FreeSettled,  \* a device is freed when no unlink is pending on it
    Prompt,       \* an interrupt is served within the frame it comes in
    MayDie        \* the controller may have an unrecoverable error

ASSUME OhciAssumption ==
    /\ IsFiniteSet(Eds) /\ Type \in [Eds -> {"control", "bulk", "int"}]
    /\ Ep \in [Urbs -> Eds] /\ Size \in [Urbs -> Nat \ {0}]
    /\ \A u \in Urbs : Type[Ep[u]] = "int" => Size[u] = 1
    /\ Periodic \subseteq {u \in Urbs : Type[Ep[u]] = "int"}
    /\ Nil \notin Blocks \cup Urbs /\ MaxUrbs \in Nat
    /\ {SubmitWhole, FreeSettled, Prompt, MayDie} \subseteq BOOLEAN

Frames == {0, 1}

VARIABLES
    d,         \* the driver's descriptors and lists, see DriverData
    dev,       \* the device: "live", "freeing" (sohci_free_dev waits), "gone"
    irq,       \* hc_interrupt: where it is, its done list, the endpoint whose
               \* TD it has just handled, the interrupts it will acknowledge
    at,        \* the endpoint and the TD the controller has fetched in this frame
    doneq,     \* the controller's done queue, most recent TD first
    doneHead,  \* hcca->done_head
    frame,     \* hcca->frame_no & 1
    sfEn,      \* OHCI_INTR_SF in intrenable
    sf,        \* and in intrstatus; it is cleared whenever it is enabled
    disabled   \* ohci->disabled

hc == <<at, doneq, doneHead, frame, sf>>
vars == <<d, dev, irq, hc, sfEn, disabled>>

NewTd == [urb |-> Nil, index |-> 0, failed |-> FALSE, next |-> Nil]

NewEd == [state |-> "NEW", urbdel |-> FALSE, skip |-> TRUE, halted |-> FALSE,
          head |-> Nil, tail |-> Nil]

IrqIdle == [pc |-> "idle", list |-> <<>>, ed |-> Nil, ints |-> {}]

NewUrb == [stage |-> "idle", del |-> FALSE, tds |-> <<>>, cnt |-> 0]

(* What the driver keeps: the TDs by address; the EDs, ED_URB_DEL apart from *)
(* the other bits of ed->state; a request's urb_priv ("linked" once          *)
(* urb->hcpriv is set, "filling" between the two parts of a submit); the     *)
(* pool of TDs; the lists of EDs the controller walks and which of them it   *)
(* may walk (hc_control); and ohci->ed_rm_list.                              *)
DriverData ==
    [ed : [Eds -> [state : {"NEW", "UNLINK", "OPER", "DEL"}, urbdel : BOOLEAN,
                   skip : BOOLEAN, halted : BOOLEAN,
                   head : Blocks \cup {Nil}, tail : Blocks \cup {Nil}]],
     td : [Blocks -> [urb : Urbs \cup {Nil}, index : Nat, failed : BOOLEAN,
                      next : Blocks \cup {Nil}]],
     urb : [Urbs -> [stage : {"idle", "filling", "linked"}, del : BOOLEAN,
                     tds : Seq(Blocks), cnt : Nat]],
     pool : Pools,
     list : [{"control", "bulk", "int"} -> Seq(Eds)],
     on : SUBSET {"control", "bulk", "int"},
     rm : [Frames -> Seq(Eds)]]

Init ==
    /\ d = [ed |-> [e \in Eds |-> NewEd], td |-> [t \in Blocks |-> NewTd],
            urb |-> [u \in Urbs |-> NewUrb], pool |-> EmptyPool,
            list |-> [l \in {"control", "bulk", "int"} |-> <<>>],
            on |-> {"int"}, rm |-> [f \in Frames |-> <<>>]]
    /\ dev = "live"
    /\ irq = IrqIdle
    /\ at = Nil /\ doneq = <<>> /\ doneHead = <<>>
    /\ frame = 0 /\ sf = FALSE /\ sfEn = FALSE
    /\ disabled = FALSE

-----------------------------------------------------------------------------
(* Descriptors and their queues. *)

(* The TDs from hwHeadP up to the dummy TD at hwTailP.                       *)
Queue(x, e) ==
    LET first[n \in 0..Cardinality(Blocks)] ==
            IF n = 0 THEN <<>>
            ELSE LET q == first[n - 1]
                     t == IF q = <<>> THEN x.ed[e].head ELSE x.td[Last(q)].next
                 IN  IF t \in {x.ed[e].tail, Nil} THEN q ELSE Append(q, t)
    IN  first[Cardinality(Blocks)]

(* td_free for each TD of a set.                                             *)
FreeTds(x, S) ==
    [x EXCEPT !.pool.free = [p \in PageIds |-> @[p] \cup {b[2] : b \in {b \in S : b[1] = p}}],
              !.td = [t \in Blocks |-> IF t \in S THEN NewTd ELSE @[t]]]

(* As many of n TDs as td_alloc finds blocks for.                            *)
AllocTds(pool, n) ==
    LET got[k \in 0..n] ==
            IF k = 0 THEN [pool |-> pool, tds |-> <<>>]
            ELSE LET g == got[k - 1]
                     b == NextBlock(Refill(g.pool))
                 IN  IF CanAlloc(g.pool)
                     THEN [pool |-> Take(Refill(g.pool), b), tds |-> Append(g.tds, b)]
                     ELSE g
    IN  got[n]

(* urb_rm_priv and urb->complete, for each request of a set.                 *)
GiveBack(x, S) ==
    [FreeTds(x, UNION {Range(x.urb[u].tds) : u \in S})
        EXCEPT !.urb = [u \in Urbs |-> IF u \in S THEN NewUrb ELSE @[u]]]

(* Mutant: the old dummy TD is not used, the new TDs are queued after it.    *)
FillTdsAfterDummy(x, u, new) ==
    LET e == Ep[u]
    IN  [x EXCEPT
            !.urb[u] = [stage |-> "linked", del |-> FALSE, cnt |-> 0, tds |-> new],
            !.ed[e].tail = Last(new),
            !.td = [t \in Blocks |->
                      IF \E i \in DOMAIN new : new[i] = t
                      THEN LET i == CHOOSE i \in DOMAIN new : new[i] = t
                           IN  [urb |-> u, index |-> i - 1, failed |-> FALSE,
                                next |-> IF i = Len(new) THEN Nil ELSE new[i + 1]]
                      ELSE IF t = x.ed[e].tail THEN [NewTd EXCEPT !.next = new[1]] ELSE @[t]]]

(* td_submit_urb: td_fill puts the first part of the request in the old      *)
(* dummy TD, the next one in the first new TD and so on; the last new TD is  *)
(* the next dummy.                                                           *)
FillTds(x, u, new) ==
    LET e == Ep[u]
        tds == <<x.ed[e].tail>> \o Front(new)
    IN  [x EXCEPT
            !.urb[u] = [stage |-> "linked", del |-> x.urb[u].del, cnt |-> 0, tds |-> tds],
            !.ed[e].tail = Last(new),
            !.td = [t \in Blocks |->
                      IF \E i \in DOMAIN tds : tds[i] = t
                      THEN LET i == CHOOSE i \in DOMAIN tds : tds[i] = t
                           IN  [urb |-> u, index |-> i - 1, failed |-> FALSE, next |-> new[i]]
                      ELSE IF t = Last(new) THEN NewTd ELSE @[t]]]

-----------------------------------------------------------------------------
(* Endpoints. *)

NoneToRemove(x) == \A f \in Frames : x.rm[f] = <<>>

(* ep_link.                                                                  *)
EpLink(x, e) ==
    LET l == Type[e]
    IN  [x EXCEPT !.ed[e].state = "OPER", !.ed[e].urbdel = FALSE,
                  !.list[l] = Append(@, e),
                  !.on = IF x.list[l] = <<>> /\ NoneToRemove(x) THEN @ \cup {l} ELSE @]

(* ep_unlink: an emptied control or bulk list is stopped.                    *)
EpUnlink(x, e) ==
    LET l == Type[e]
    IN  [x EXCEPT !.ed[e].state = "UNLINK", !.ed[e].urbdel = FALSE,
                  !.ed[e].skip = TRUE,
                  !.list[l] = RemoveFirst(@, e),
                  !.on = IF l # "int" /\ x.list[l] = <<e>> THEN @ \ {l} ELSE @]

(* ep_rm_ed: onto the removal list of this frame, its list stopped.          *)
EpRmEd(x, e) ==
    IF x.ed[e].state = "DEL" \/ x.ed[e].urbdel THEN x
    ELSE [x EXCEPT !.ed[e].skip = TRUE,
                   !.on = IF disabled \/ Type[e] = "int" THEN @ ELSE @ \ {Type[e]},
                   !.rm[frame] = <<e>> \o @]

(* and the SF interrupt asked for, unless no ED was put on the list.         *)
AskSF(x) ==
    IF x.rm # d.rm /\ ~disabled
    THEN sf' = FALSE /\ sfEn' = TRUE
    ELSE UNCHANGED <<sf, sfEn>>

-----------------------------------------------------------------------------
(* Submitting a request: sohci_submit_urb, from a thread or from a           *)
(* completion callback.                                                      *)

(* One processor: no thread runs inside of the handler, only the completion  *)
(* callbacks of the request that dl_done_list has just returned. (Those of   *)
(* dl_del_list come after it here, when the handler has ended.)              *)
CanCall == irq.pc = "idle" \/ irq.ed # Nil

(* Nobody else runs inside of a submit that is one whole.                    *)
NoneFilling == \A u \in Urbs : d.urb[u].stage # "filling"
Alone == SubmitWhole => NoneFilling

(* ep_add_ed: the endpoint is made ready, with its dummy TD, or refused      *)
(* while a removal is pending.                                               *)
AddEd(u) ==
    LET e == Ep[u]
        got == AllocTds(d.pool, 1)
        fresh == d.ed[e].state = "NEW"
    IN  /\ CanCall /\ Alone /\ dev = "live" /\ ~disabled
        /\ d.urb[u].stage = "idle"
        /\ Cardinality({v \in Urbs : d.urb[v].stage # "idle"}) < MaxUrbs
        /\ d.ed[e].state # "DEL" /\ ~d.ed[e].urbdel
        /\ fresh => got.tds # <<>>
        /\ d' = [d EXCEPT
                   !.urb[u].stage = "filling",
                   !.pool = IF fresh THEN got.pool ELSE @,
                   !.ed[e] = IF fresh
                             THEN [NewEd EXCEPT !.state = "UNLINK", !.skip = FALSE,
                                                !.head = got.tds[1], !.tail = got.tds[1]]
                             ELSE [@ EXCEPT !.skip = FALSE]]
        /\ UNCHANGED <<dev, irq, hc, sfEn, disabled>>

(* Mutant: the endpoint is linked for every request.                         *)
FillRelinks(u) ==
    LET e == Ep[u]
    IN  /\ d.urb[u].stage = "filling"
        /\ \E got \in {AllocTds(d.pool, Size[u])} :
           \E y \in {EpLink([d EXCEPT !.pool = got.pool], e)} :
             /\ Len(got.tds) = Size[u]
             /\ d' = FillTds(y, u, got.tds)
        /\ UNCHANGED <<dev, irq, hc, sfEn, disabled>>

(* The TDs, the endpoint's list, and the TDs onto the endpoint. Without      *)
(* enough TDs, or with the endpoint gone, the request goes back unqueued.    *)
Fill(u) ==
    LET e == Ep[u]
        linked == d.ed[e].state = "OPER" /\ ~d.ed[e].urbdel
    IN  /\ d.urb[u].stage = "filling"
        /\ \E got \in {AllocTds(d.pool, Size[u])} :
           \E x \in {[d EXCEPT !.pool = got.pool]} :
           \E y \in {IF linked THEN x ELSE EpLink(x, e)} :
             d' = IF Len(got.tds) < Size[u] \/ d.ed[e].state \in {"NEW", "DEL"}
                  THEN [FreeTds(x, Range(got.tds)) EXCEPT !.urb[u] = NewUrb]
                  ELSE FillTds(y, u, got.tds)
        /\ UNCHANGED <<dev, irq, hc, sfEn, disabled>>

-----------------------------------------------------------------------------
(* Unlinking a request: sohci_unlink_urb. A caller that does not pass        *)
(* USB_ASYNC_UNLINK then sleeps until urb->status has changed; it holds      *)
(* nothing meanwhile and is left out.                                        *)

Unlink(u) ==
    LET x == [EpRmEd(d, Ep[u]) EXCEPT !.urb[u].del = TRUE, !.ed[Ep[u]].urbdel = TRUE]
    IN  /\ CanCall /\ Alone /\ ~disabled
        /\ d.urb[u].stage = "linked" /\ ~d.urb[u].del
        /\ d' = x /\ AskSF(x)
        /\ UNCHANGED <<dev, irq, at, doneq, doneHead, frame, disabled>>

(* With the controller dead nothing has to be waited for.                    *)
UnlinkDead(u) ==
    /\ Alone /\ disabled /\ irq.pc = "idle"
    /\ d.urb[u].stage = "linked"
    /\ d' = GiveBack(d, {u})
    /\ UNCHANGED <<dev, irq, hc, sfEn, disabled>>

-----------------------------------------------------------------------------
(* The device goes: sohci_free_dev, with whatever is left on its endpoints.  *)

(* Mutant: the endpoint stays linked.                                        *)
FreeEdLinked(x, e) ==
    IF x.ed[e].state = "NEW" THEN x
    ELSE [EpRmEd(x, e) EXCEPT !.ed[e].state = "DEL", !.ed[e].urbdel = FALSE]

(* One endpoint of the device: unlinked, and removed like those unlinked.    *)
FreeEd(x, e) ==
    LET y == IF x.ed[e].state = "OPER" /\ ~x.ed[e].urbdel THEN EpUnlink(x, e) ELSE x
    IN  IF x.ed[e].state = "NEW" THEN x
        ELSE [EpRmEd(y, e) EXCEPT !.ed[e].state = "DEL", !.ed[e].urbdel = FALSE]

FreeEds(x, s) ==
    LET after[n \in 0..Len(s)] == IF n = 0 THEN x ELSE FreeEd(after[n - 1], s[n])
    IN  after[Len(s)]

FreeDev ==
    LET x == FreeEds(d, SetToSeq(Eds))
    IN  /\ Alone /\ dev = "live" /\ irq.pc = "idle" /\ NoneFilling
        /\ FreeSettled => \A e \in Eds : ~d.ed[e].urbdel
        /\ d' = x /\ AskSF(x)
        /\ dev' = IF disabled \/ \A e \in Eds : x.ed[e].state = "NEW" THEN "gone" ELSE "freeing"
        /\ UNCHANGED <<irq, at, doneq, doneHead, frame, disabled>>

(* dl_del_list has removed the last endpoint, the memory is freed.           *)
FreeDevDone ==
    /\ dev = "freeing" /\ irq.pc = "idle"
    /\ \A e \in Eds : d.ed[e].state = "NEW"
    /\ dev' = "gone"
    /\ UNCHANGED <<d, irq, hc, sfEn, disabled>>

(* Another device: sohci_alloc_dev.                                          *)
AllocDev ==
    /\ dev = "gone" /\ ~disabled
    /\ dev' = "live"
    /\ UNCHANGED <<d, irq, hc, sfEn, disabled>>

-----------------------------------------------------------------------------
(* The controller. *)

InList(x, e) == e \in Range(x.list[Type[e]])

CanFetch(e) ==
    /\ ~disabled /\ at = Nil
    /\ InList(d, e) /\ Type[e] \in d.on
    /\ ~d.ed[e].skip /\ ~d.ed[e].halted /\ Queue(d, e) # <<>>

Fetch(e) ==
    /\ CanFetch(e)
    /\ at' = <<e, d.ed[e].head>>
    /\ UNCHANGED <<d, dev, irq, doneq, doneHead, frame, sf, sfEn, disabled>>

(* The TD is done, whatever has become of it; an error halts the endpoint.   *)
Retire(fails) ==
    /\ at # Nil
    /\ LET e == at[1]
           t == at[2]
       IN  /\ d' = [d EXCEPT !.ed[e].head = d.td[t].next, !.ed[e].halted = fails,
                             !.td[t].failed = fails]
           /\ doneq' = <<t>> \o doneq
    /\ at' = Nil
    /\ UNCHANGED <<dev, irq, doneHead, frame, sf, sfEn, disabled>>

IrqPending == doneHead # <<>> \/ sf

(* A new frame: no transaction crosses it, the done queue is written to the  *)
(* HCCA unless the last one has not been taken yet.                          *)
StartOfFrame ==
    /\ ~disabled
    /\ Prompt => ~IrqPending /\ irq.pc = "idle"
    /\ frame' = 1 - frame /\ sf' = sfEn /\ at' = Nil
    /\ IF doneHead = <<>> /\ "WDH" \notin irq.ints
       THEN doneHead' = doneq /\ doneq' = <<>>
       ELSE UNCHANGED <<doneq, doneHead>>
    /\ UNCHANGED <<d, dev, irq, sfEn, disabled>>

-----------------------------------------------------------------------------
(* The interrupt handler, hc_interrupt. *)

(* Mutant: the TDs of a failed request that were skipped are not counted.    *)
UnhaltUncounted(x, t) ==
    LET u == x.td[t].urb
        e == Ep[u]
    IN  IF ~(x.td[t].failed /\ x.ed[e].halted) THEN x
        ELSE IF x.urb[u].stage = "linked" /\ x.td[t].index + 1 < Size[u]
        THEN [x EXCEPT !.ed[e].halted = FALSE, !.ed[e].head = x.td[Last(x.urb[u].tds)].next]
        ELSE [x EXCEPT !.ed[e].halted = FALSE]

(* Mutant: the failed TD itself is counted with those skipped.               *)
UnhaltCountsItself(x, t) ==
    LET u == x.td[t].urb
        e == Ep[u]
    IN  IF ~(x.td[t].failed /\ x.ed[e].halted) THEN x
        ELSE IF x.urb[u].stage = "linked" /\ x.td[t].index + 1 < Size[u]
        THEN [x EXCEPT !.ed[e].halted = FALSE,
                       !.ed[e].head = x.td[Last(x.urb[u].tds)].next,
                       !.urb[u].cnt = @ + Size[u] - x.td[t].index]
        ELSE [x EXCEPT !.ed[e].halted = FALSE]

(* dl_reverse_done_list, for one TD: after an error the endpoint goes on     *)
(* after the request's last TD.                                              *)
Unhalt(x, t) ==
    LET u == x.td[t].urb
        e == Ep[u]
    IN  IF ~(x.td[t].failed /\ x.ed[e].halted) THEN x
        ELSE IF x.urb[u].stage = "linked" /\ x.td[t].index + 1 < Size[u]
        THEN [x EXCEPT !.ed[e].halted = FALSE,
                       !.ed[e].head = x.td[Last(x.urb[u].tds)].next,
                       !.urb[u].cnt = @ + Size[u] - x.td[t].index - 1]
        ELSE [x EXCEPT !.ed[e].halted = FALSE]

(* The whole list, from its head: the TD done last comes first.              *)
UnhaltAll(x, s) ==
    LET after[n \in 0..Len(s)] == IF n = 0 THEN x ELSE Unhalt(after[n - 1], s[n])
    IN  after[Len(s)]

(* The interrupts it finds, and the done list turned round. With only the   *)
(* done list written, intrstatus is not read.                                *)
IntSets == {{"WDH"}, {"SF"}, {"WDH", "SF"}}

Enter(ints) ==
    /\ Alone /\ irq.pc = "idle"
    /\ "WDH" \in ints <=> doneHead # <<>>
    /\ "SF" \in ints => sf
    /\ irq' = [pc |-> IF "WDH" \in ints THEN "done" ELSE IF "SF" \in ints THEN "sf" ELSE "idle",
               list |-> Reverse(doneHead), ed |-> Nil, ints |-> ints]
    /\ d' = UnhaltAll(d, doneHead)
    /\ doneHead' = <<>>
    /\ UNCHANGED <<dev, frame>>

Interrupt(ints) == Enter(ints) /\ UNCHANGED <<at, doneq, sf, sfEn, disabled>>

(* An unrecoverable error (UE), alone or with others: the controller is      *)
(* reset, for good.                                                          *)
Die(ints) ==
    /\ MayDie /\ ~disabled
    /\ Enter(ints)
    /\ disabled' = TRUE
    /\ at' = Nil /\ doneq' = <<>> /\ sf' = FALSE /\ sfEn' = FALSE

(* sohci_return_urb: an interrupt request with an interval is queued again   *)
(* with the TD it had, any other is given back.                              *)
ReturnUrb(x, u) ==
    IF u \in Periodic THEN FillTds(x, u, x.urb[u].tds) ELSE GiveBack(x, {u})

(* dl_done_list, for one TD: it is counted, and the last one of a request    *)
(* returns the request, whose completion callback may submit and unlink, ... *)
DoneTd ==
    LET t == Head(irq.list)
        u == d.td[t].urb
        e == Ep[u]
        x == [d EXCEPT !.urb[u].cnt = @ + 1]
    IN  /\ Alone /\ irq.pc = "done" /\ irq.ed = Nil /\ irq.list # <<>>
        /\ d' = IF x.urb[u].cnt # Size[u] THEN x
                ELSE IF d.ed[e].state \in {"OPER", "UNLINK"} /\ ~d.urb[u].del
                THEN ReturnUrb(x, u) ELSE GiveBack(x, {u})
        /\ irq' = [irq EXCEPT !.list = Tail(@), !.ed = e]
        /\ UNCHANGED <<dev, hc, sfEn, disabled>>

(* ... and then, under the lock again, an idle endpoint is unlinked.         *)
UnlinkIdle ==
    LET e == irq.ed
        idle == d.ed[e].head = d.ed[e].tail /\ d.ed[e].state = "OPER" /\ ~d.ed[e].urbdel
    IN  /\ Alone /\ irq.pc = "done" /\ irq.ed # Nil
        /\ d' = IF idle THEN EpUnlink(d, e) ELSE d
        /\ irq' = [irq EXCEPT !.ed = Nil]
        /\ UNCHANGED <<dev, hc, sfEn, disabled>>

DoneEnd ==
    /\ Alone /\ irq.pc = "done" /\ irq.ed = Nil /\ irq.list = <<>>
    /\ irq' = IF "SF" \in irq.ints THEN [irq EXCEPT !.pc = "sf"] ELSE IrqIdle
    /\ UNCHANGED <<d, dev, hc, sfEn, disabled>>

(* dl_del_list, for one endpoint: the TDs of its unlinked requests leave the *)
(* queue; a request without TDs left is given back; the endpoint is freed,   *)
(* taken off its list when idle, or let run again.                           *)
DelEd(x, e) ==
    LET q == Queue(x, e)
        gone(t) == x.urb[x.td[t].urb].del \/ x.ed[e].state = "DEL"
        kept(i) == {j \in i..Len(q) : ~gone(q[j])}
        first(i) == IF kept(i) = {} THEN x.ed[e].tail ELSE q[Min(kept(i))]
        removed(u) == {t \in Range(q) : gone(t) /\ x.td[t].urb = u}
        back == {u \in Urbs : removed(u) # {} /\ x.urb[u].cnt + Cardinality(removed(u)) = Size[u]}
        y == [x EXCEPT
                !.ed[e].head = first(1),
                !.td = [t \in Blocks |->
                          IF t \in Range(q) /\ ~gone(t)
                          THEN [@[t] EXCEPT !.next = first(1 + CHOOSE i \in DOMAIN q : q[i] = t)]
                          ELSE @[t]],
                !.urb = [u \in Urbs |->
                          [@[u] EXCEPT !.cnt = x.urb[u].cnt + Cardinality(removed(u))]]]
        z == GiveBack(y, back)
        w == [z EXCEPT !.ed[e].urbdel = FALSE]
    IN  IF x.ed[e].state = "DEL"
        THEN [FreeTds(z, {x.ed[e].tail}) EXCEPT !.ed[e] = NewEd]
        ELSE IF kept(1) # {} THEN [w EXCEPT !.ed[e].skip = FALSE]
        ELSE IF w.ed[e].state = "OPER" THEN EpUnlink(w, e) ELSE w

DelEds(x, s) ==
    LET after[n \in 0..Len(s)] == IF n = 0 THEN x ELSE DelEd(after[n - 1], s[n])
    IN  after[Len(s)]

(* Mutant: the lists stay stopped.                                           *)
DelListStopped(x, f) == [DelEds(x, x.rm[f]) EXCEPT !.rm[f] = <<>>]

(* dl_del_list: the lists are started again once no removal is pending.      *)
DelList(x, f) ==
    LET y == DelEds(x, x.rm[f])
        start == {l \in {"control", "bulk"} : y.list[l] # <<>>}
    IN  [y EXCEPT !.rm[f] = <<>>,
                  !.on = IF disabled \/ x.rm[1 - f] # <<>> THEN @ ELSE @ \cup start]

(* Mutant: SF is not asked for again when removals are left.                 *)
StartOfFrameIrqOnce ==
    /\ Alone /\ irq.pc = "sf"
    /\ d' = IF d.rm[1 - frame] # <<>> THEN DelList(d, 1 - frame) ELSE d
    /\ sfEn' = FALSE
    /\ sf' = FALSE
    /\ irq' = IrqIdle
    /\ UNCHANGED <<dev, at, doneq, doneHead, frame, disabled>>

(* A frame has begun: the endpoints removed in the last one are no longer in *)
(* the controller's hands.                                                   *)
StartOfFrameIrq ==
    /\ Alone /\ irq.pc = "sf"
    /\ d' = IF d.rm[1 - frame] # <<>> THEN DelList(d, 1 - frame) ELSE d
    /\ sfEn' = (d.rm[frame] # <<>>)
    /\ sf' = FALSE
    /\ irq' = IrqIdle
    /\ UNCHANGED <<dev, at, doneq, doneHead, frame, disabled>>

-----------------------------------------------------------------------------
Next ==
    \/ \E u \in Urbs : AddEd(u) \/ Fill(u) \/ Unlink(u) \/ UnlinkDead(u)
    \/ FreeDev \/ FreeDevDone \/ AllocDev
    \/ \E e \in Eds : Fetch(e)
    \/ \E fails \in BOOLEAN : Retire(fails)
    \/ StartOfFrame
    \/ \E ints \in IntSets : Interrupt(ints)
    \/ \E ints \in IntSets \cup {{}} : Die(ints)
    \/ DoneTd \/ UnlinkIdle \/ DoneEnd \/ StartOfFrameIrq

Spec == Init /\ [][Next]_vars

(* Fairness: frames go on; an interrupt is taken between two submits at the  *)
(* latest, and the one of a frame is not, in every frame of one parity,      *)
(* cleared by a thread in the lock (ep_rm_ed) before it is taken; the device *)
(* answers every endpoint the controller reaches again and again; a thread   *)
(* or the handler, once inside of the driver, gets to the end of what it     *)
(* does: one of Fill(u) and of the actions of the handler is enabled until   *)
(* then.                                                                     *)
FairSpec ==
    /\ Spec
    /\ WF_vars(StartOfFrame)
    /\ \A f \in Frames : []<>(disabled \/ (frame = f /\ (irq.pc = "sf" \/ ~sfEn)))
    /\ []<>(irq.pc = "idle" /\ ~IrqPending)
    /\ \A e \in Eds : []<>CanFetch(e)
                         => []<><<at # Nil /\ at[1] = e /\ \E fails \in BOOLEAN : Retire(fails)>>_vars
    /\ []<>NoneFilling

-----------------------------------------------------------------------------
(* Properties. *)

TypeOK ==
    /\ d \in DriverData /\ \A u \in Urbs : d.urb[u].cnt \in 0..Size[u]
    /\ dev \in {"live", "freeing", "gone"}
    /\ irq \in [pc : {"idle", "done", "sf"}, list : Seq(Blocks), ed : Eds \cup {Nil},
             ints : SUBSET {"WDH", "SF"}]
    /\ at \in (Eds \X Blocks) \cup {Nil} /\ doneq \in Seq(Blocks) /\ doneHead \in Seq(Blocks)
    /\ frame \in Frames /\ {sf, sfEn, disabled} \subseteq BOOLEAN

(* TDs on their way: queued on an endpoint, or done and not yet looked at.   *)
Queued == UNION {Range(Queue(d, e)) : e \in {e \in Eds : d.ed[e].state # "NEW"}}
Done == Range(doneq) \cup Range(doneHead) \cup Range(irq.list)

Allocated(t) == t[2] \notin d.pool.free[t[1]]

(* No TD is freed, or its request given back, while the controller or the    *)
(* handler can still come to it; and no TD is in two places.                 *)
InFlightTdsAreLive ==
    ~disabled =>
      /\ \A t \in Queued \cup Done :
            /\ Allocated(t)
            /\ d.td[t].urb # Nil /\ d.urb[d.td[t].urb].stage = "linked"
            /\ t \in Range(d.urb[d.td[t].urb].tds)
      /\ Queued \cap Done = {}
      /\ \A e \in Eds : d.ed[e].state # "NEW" =>
            /\ Allocated(d.ed[e].tail) /\ d.ed[e].tail \notin Queued \cup Done
            /\ d.td[d.ed[e].tail].urb = Nil

(* urb_priv->td_cnt counts every TD of a request once, whatever of errors,   *)
(* unlinking and removal of the endpoint comes to it first: it reaches       *)
(* urb_priv->length when, and only when, no TD is left.                      *)
EveryTdCounted ==
    ~disabled =>
      \A u \in Urbs : d.urb[u].stage = "linked" =>
          d.urb[u].cnt + Cardinality(Range(d.urb[u].tds) \cap (Queued \cup Done)) = Size[u]

(* The memory of a freed device is out of the controller's reach.            *)
FreedEdUnreachable ==
    dev = "gone" /\ ~disabled => at = Nil /\ \A e \in Eds : ~InList(d, e)

(* With no removal pending, the controller may walk every list that has an   *)
(* endpoint, and skips none with TDs: no request is left standing.           *)
NothingLeftStopped ==
    NoneToRemove(d) /\ ~disabled /\ irq.pc = "idle" =>
      \A e \in Eds : InList(d, e) =>
          Type[e] \in d.on /\ (Queue(d, e) # <<>> => ~d.ed[e].skip)

(* "link the ed into a chain if is not already" (sohci_submit_urb).          *)
LinkedOnce == \A l \in {"control", "bulk", "int"} : IsInjective(d.list[l])

(* Every request is given back, a periodic one once it is unlinked, unless   *)
(* the controller dies: none is out, and to come back, from some time on. It *)
(* ceases to be so in no other way than by being given back.                 *)
EveryUrbReturned ==
    \A u \in Urbs :
      []<>(d.urb[u].stage = "linked" /\ (d.urb[u].del \/ u \notin Periodic) => disabled)

=============================================================================
