------------------------------- MODULE MCUsb -------------------------------
(* The endpoint driver with hosts that send a few transfers in any order. *)
EXTENDS UsbEptri

Ask(kind, wLength, reply) == [kind |-> kind, wLength |-> wLength, reply |-> reply]

\* Replies of one byte, of exactly one packet, of a packet and a byte, and
\* one of which the host asks for the first byte only, the first packet only,
\* or nothing.
Reads  == {Ask("get", 4, 1), Ask("get", 4, 2), Ask("get", 4, 3), Ask("get", 1, 3),
           Ask("get", 2, 3), Ask("get", 0, 3)}
Others == {Ask("get_stalled", 4, 0), Ask("set", 0, 0), Ask("set_stalled", 0, 0), Ask("set_address", 0, 0),
           Ask("detach", 0, 0), Ask("getstatus_reset", 4, 1)}

\* Blocks of one packet and of two.
Writes == {Ask("dnload", 1, 0), Ask("dnload", 3, 0)}

MCRequests   == Reads \cup Writes \cup Others
ResetStatus  == {Ask("get", 4, 1), Ask("getstatus_reset", 4, 1)}
Enumeration  == {Ask("get", 4, 1), Ask("set_address", 0, 0)}
=============================================================================
