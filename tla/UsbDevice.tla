----------------------------- MODULE UsbDevice ------------------------------
(***************************************************************************)
(* What usb_ctl.c promises its endpoints and its client: a visible state,  *)
(* which a suspended device comes back to when it is resumed, and one call *)
(* whenever the host configures the device.                                *)
(***************************************************************************)
EXTENDS Integers

VARIABLES
    visible,    \* not attached, powered, default, address or configured
    suspended,  \* the bus is idle
    calls       \* calls of the client, modulo two

deviceVars == <<visible, suspended, calls>>

DeviceInit == visible = "not attached" /\ suspended = FALSE /\ calls = 0

Attach == visible' = "powered" /\ suspended' = TRUE /\ UNCHANGED calls

Suspend ==
    /\ ~suspended /\ suspended' = TRUE
    /\ UNCHANGED <<visible, calls>>

Resume ==
    /\ suspended /\ suspended' = FALSE
    /\ UNCHANGED <<visible, calls>>

Reset == visible' = "default" /\ suspended' = FALSE /\ UNCHANGED calls

Becomes(from, to) ==
    /\ ~suspended /\ visible = from /\ visible' = to
    /\ UNCHANGED suspended

Addressed ==
    /\ Becomes("default", "address") \/ Becomes("configured", "address")
    /\ UNCHANGED calls

Configured ==
    /\ Becomes("address", "configured")
    /\ calls' = 1 - calls

DeviceNext == Attach \/ Suspend \/ Resume \/ Reset \/ Addressed \/ Configured

DeviceSpec == DeviceInit /\ [][DeviceNext]_deviceVars

=============================================================================
