----------------------------- MODULE UsbOhciMC ------------------------------
EXTENDS UsbOhci, TLC

CONSTANTS e1, e2, u1, u2, u3

MCType == [e \in Eds |-> IF e = e1 THEN "bulk" ELSE "int"]
MCEp == [u \in Urbs |-> IF u = u3 THEN e2 ELSE e1]
MCSize == [u \in Urbs |-> IF u = u1 THEN 2 ELSE 1]

=============================================================================
