------------------------------- MODULE UsbCtl -------------------------------
(***************************************************************************)
(* The core of the USB device controller (arch/arm/mach-sa1100/usb_ctl.c): *)
(* the table of device states, the interrupt that feeds it with resets,    *)
(* suspends and resumes of the bus, and the calls of its client. Endpoint  *)
(* zero is external: it reports the requests of the host.                  *)
(*                                                                         *)
(* A source that is masked is not latched: the driver unmasks what the bus *)
(* can do next. The changes of masks take at once: the loops that repeat   *)
(* them, and give up after 50 times, are left out. So is core_kicker, which *)
(* disables the controller for 300 us at each resume: nothing is latched   *)
(* then, as under Prompt nothing is until the interrupt is served.         *)
(***************************************************************************)
EXTENDS Integers

CONSTANT Prompt   \* an interrupt is served before the bus changes again

Sources == {"suspend", "reset", "resume"}
Requests == {"address", "config", "deconfig"}

kError == "error"

(* Mutant: a suspended configured device resumes to its address only.        *)
TableForgetful ==
    [zombie  |-> [suspend |-> "zombieS", reset |-> "default"],
     zombieS |-> [reset |-> "default", resume |-> "zombie"],
     default |-> [suspend |-> "defaultS", resume |-> "default", address |-> "addr"],
     defaultS |-> [reset |-> "default", resume |-> "default"],
     addr    |-> [suspend |-> "addrS", reset |-> "default", config |-> "config"],
     addrS   |-> [reset |-> "default", resume |-> "addr"],
     config  |-> [suspend |-> "configS", reset |-> "default", deconfig |-> "addr"],
     configS |-> [reset |-> "default", resume |-> "addr"]]

(* device_state_machine without its kError entries.                          *)
device_state_machine ==
    [zombie  |-> [suspend |-> "zombieS", reset |-> "default"],
     zombieS |-> [reset |-> "default", resume |-> "zombie"],
     default |-> [suspend |-> "defaultS", resume |-> "default", address |-> "addr"],
     defaultS |-> [reset |-> "default", resume |-> "default"],
     addr    |-> [suspend |-> "addrS", reset |-> "default", config |-> "config"],
     addrS   |-> [reset |-> "default", resume |-> "addr"],
     config  |-> [suspend |-> "configS", reset |-> "default", deconfig |-> "addr"],
     configS |-> [reset |-> "default", resume |-> "config"]]

SmStates == DOMAIN device_state_machine

sm_state_to_device_state ==
    [zombie |-> "powered", zombieS |-> "suspended",
     default |-> "default", defaultS |-> "suspended",
     addr |-> "address", addrS |-> "suspended",
     config |-> "configured", configS |-> "suspended"]

-----------------------------------------------------------------------------
VARIABLES
    dev,       \* sm_state, usbd_info.state, and the calls of configured_callback
    client,    \* usbd_info.client_name is set
    running,   \* the UDC is enabled
    masks,     \* the sources UDCCR masks
    latched,   \* the requests pending in UDCSR, "ep0" among them
    request,   \* what the host asks endpoint zero
    bus,       \* the bus as the host drives it: active or idle
    heard      \* the driver has taken part since it was opened or started

udcVars == <<dev, client, running, masks, latched, request, bus, heard>>

UdcInit ==
    /\ dev = [sm |-> "zombie", state |-> "not attached", calls |-> 0]
    /\ client = FALSE /\ running = FALSE
    /\ masks = {} /\ latched = {} /\ request \in Requests
    /\ bus = "idle" /\ heard = FALSE

(* usbctl_next_state_on_event: the entry of the table, ...                   *)
NextState(sm, event) ==
    LET row == device_state_machine[sm]
    IN  IF event \in DOMAIN row THEN row[event] ELSE kError

(* ... and the device after the event; an error leaves it as it was.         *)
OnEvent(d, event) ==
    LET next == NextState(d.sm, event)
        state == sm_state_to_device_state[next]
        announce == state = "configured" /\ d.state \notin {"configured", "suspended"}
    IN  IF next = kError THEN d
        ELSE [sm |-> next, state |-> state,
              calls |-> IF announce THEN 1 - d.calls ELSE d.calls]

-----------------------------------------------------------------------------
(* The host                                                                  *)

Latch(source) ==
    latched' = IF running /\ source \notin masks THEN latched \cup {source} ELSE latched

MayChange == Prompt => ~running \/ latched = {}

BusReset ==
    /\ MayChange
    /\ bus' = "active" /\ Latch("reset")
    /\ UNCHANGED <<dev, client, running, masks, request, heard>>

BusIdles ==
    /\ MayChange /\ bus = "active"
    /\ bus' = "idle" /\ Latch("suspend")
    /\ UNCHANGED <<dev, client, running, masks, request, heard>>

BusResumes ==
    /\ MayChange /\ bus = "idle"
    /\ bus' = "active" /\ Latch("resume")
    /\ UNCHANGED <<dev, client, running, masks, request, heard>>

HostRequest(r) ==
    /\ MayChange /\ bus = "active" /\ running /\ "ep0" \notin latched
    /\ request' = r /\ latched' = latched \cup {"ep0"}
    /\ UNCHANGED <<dev, client, running, masks, bus, heard>>

-----------------------------------------------------------------------------
(* udc_int_hndlr. A reset is all there is to an interrupt: the other sources *)
(* are dropped, suspend and resume unmasked, and further resets masked.      *)
ResetInterrupt ==
    /\ running /\ "reset" \in latched
    /\ dev' = OnEvent(dev, "reset")
    /\ masks' = {"reset"} /\ latched' = {} /\ heard' = TRUE
    /\ UNCHANGED <<client, running, request, bus>>

OnEventIf(d, event) == IF event \in latched THEN OnEvent(d, event) ELSE d

(* Mutant: a suspend masks itself and leaves resumes masked.                 *)
MasksAfterDeaf ==
    IF "suspend" \in latched THEN {"suspend", "resume"}
    ELSE IF "resume" \in latched THEN {"resume"}
    ELSE masks \ {"reset"}

(* enable_suspend_mask_resume, enable_resume_mask_suspend.                   *)
MasksAfter ==
    IF "suspend" \in latched THEN {"suspend"}
    ELSE IF "resume" \in latched THEN {"resume"}
    ELSE masks \ {"reset"}

(* Anything else enables resets again; a resume comes before a suspend, and  *)
(* endpoint zero after both.                                                 *)
OtherInterrupt ==
    /\ running /\ latched # {} /\ "reset" \notin latched
    /\ LET awake == OnEventIf(OnEventIf(dev, "resume"), "suspend")
       IN  dev' = IF "ep0" \in latched THEN OnEvent(awake, request) ELSE awake
    /\ masks' = MasksAfter /\ latched' = {}
    /\ heard' = (heard \/ "resume" \in latched)
    /\ UNCHANGED <<client, running, request, bus>>

-----------------------------------------------------------------------------
(* The client                                                                *)

(* sa1100_usb_open: "hack to start in zombie suspended state".               *)
Open ==
    /\ ~client
    /\ client' = TRUE
    /\ dev' = [dev EXCEPT !.sm = "zombieS", !.state = "suspended"]
    /\ heard' = FALSE
    /\ UNCHANGED <<running, masks, latched, request, bus>>

(* sa1100_usb_start: "start with suspend masked and everything else enabled" *)
Start ==
    /\ client
    /\ running' = TRUE /\ masks' = {"suspend"} /\ latched' = {} /\ heard' = FALSE
    /\ UNCHANGED <<dev, client, request, bus>>

(* sa1100_usb_stop masks everything and disables the UDC.                    *)
Stop ==
    /\ client
    /\ running' = FALSE /\ masks' = Sources
    /\ UNCHANGED <<dev, client, latched, request, bus, heard>>

Close ==
    /\ client
    /\ client' = FALSE
    /\ UNCHANGED <<dev, running, masks, latched, request, bus, heard>>

UdcNext ==
    \/ BusReset \/ BusIdles \/ BusResumes
    \/ \E r \in Requests : HostRequest(r)
    \/ ResetInterrupt \/ OtherInterrupt
    \/ Open \/ Start \/ Stop \/ Close

UdcSpec == UdcInit /\ [][UdcNext]_udcVars

-----------------------------------------------------------------------------
(* Each suspend and resume masks its own kind and unmasks the other, a reset *)
(* unmasks both: the source the bus raises next must always be the unmasked  *)
(* one, or the driver and the bus part for good. Once it has heard a reset   *)
(* or a resume, and nothing is pending, the endpoints think the device       *)
(* suspended exactly when the bus is idle.                                   *)
BusAgrees ==
    running /\ heard /\ latched = {} =>
        ((dev.state = "suspended") <=> (bus = "idle"))

(* The table, the reported state and the callback are a USB device: it comes *)
(* back from a suspend as what it was, and the client is called when the     *)
(* host configures it and not when it wakes up.                              *)
Before == [zombie |-> "powered", zombieS |-> "powered",
           default |-> "default", defaultS |-> "default",
           addr |-> "address", addrS |-> "address",
           config |-> "configured", configS |-> "configured"]

Device == INSTANCE UsbDevice WITH
    visible <- IF dev.state = "suspended" THEN Before[dev.sm] ELSE dev.state,
    suspended <- dev.state = "suspended",
    calls <- dev.calls

ImplementsDevice == Device!DeviceSpec

=============================================================================
