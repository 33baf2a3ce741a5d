--------------------------- MODULE PcmciaStatusMC ---------------------------
(***************************************************************************)
(* The two sockets of the Jornada 820: only the PC Card socket has 5 V.    *)
(* The other voltages are left out of the run: 3.3 V is accepted by both.  *)
(***************************************************************************)
EXTENDS PcmciaStatus

BoardSockets == {"pccard", "cf"}

BoardAllowed == [s \in BoardSockets |-> IF s = "pccard" THEN {0, 50} ELSE {0}]

(* Card Services powers a card up, then configures it for I/O.               *)
BoardRequests ==
    {[mask |-> {"DETECT"}, iocard |-> FALSE, vcc |-> 50],
     [mask |-> {"DETECT", "STSCHG"}, iocard |-> TRUE, vcc |-> 50]}

=============================================================================
