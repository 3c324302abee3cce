--------------------------- MODULE EptriGateware ---------------------------
(***************************************************************************)
(* The registers of the "eptri" USB core as Foboot's driver uses them: one *)
(* FIFO and one event for SETUP, IN and OUT each, an event for a bus reset,*)
(* and the device address.  The core is a submodule of the repository;     *)
(* what its registers do is described by the register file of release      *)
(* v2.0.1 (Fomu.svd).  Only endpoint 0 is used.                            *)
(*                                                                         *)
(* A queue is a sequence of at most one packet.  Bytes are counted and     *)
(* named, not represented: [n, from, len] is len bytes from offset from of *)
(* the data of transfer n.  n = 0 is a packet that belongs to no transfer. *)
(***************************************************************************)
EXTENDS Integers, Sequences

CONSTANTS
  MaxTransfers,   \* bound: SETUP packets a host sends
  MAX_BYTES,      \* max_byte_length of usb-eptri.c, the largest packet
  MaxData         \* bound: bytes in a data stage

ASSUME EptriAssumption ==
  /\ MaxTransfers \in Nat \ {0}
  /\ MAX_BYTES \in Nat \ {0}
  /\ MaxData \in Nat

VARIABLES
  setup_fifo,    \* the SETUP packet nobody has read yet
  in_queue,      \* the packet waiting for an IN token
  out_fifo,      \* the packet received and not read
  out_enable,    \* OUT tokens are acknowledged
  in_stall,      \* IN tokens are stalled
  pending,       \* the events not acknowledged
  usb_address

hwVars == <<setup_fifo, in_queue, out_fifo, out_enable, in_stall, pending, usb_address>>

Events == {"reset", "setup", "in", "out"}
Packet == [n : 0 .. MaxTransfers, from : 0 .. MaxData, len : 0 .. MAX_BYTES]
Zlp    == [n |-> 0, from |-> 0, len |-> 0]
AtMostOne(S) == {<<>>} \cup {<<p>> : p \in S}

\* IN_STATUS.IDLE: no packet waits for an IN token.
InIdle == in_queue = <<>>

\* IN_STATUS.HAVE: the FIFO holds bytes; an empty packet has none.
InHave == in_queue # <<>> /\ in_queue[1].len > 0

\* OUT_STATUS.HAVE: the FIFO holds bytes; even an empty packet has a CRC.
OutHave == out_fifo # <<>>

\* Writing the endpoint number to IN_CTRL queues what the FIFO holds, or an
\* empty packet.
QueueIn(p) == in_queue' = IF InIdle THEN <<p>> ELSE in_queue

\* Writing a stall to OUT_CTRL leaves ENABLE out, which disables OUT.
StallOut == out_enable' = FALSE

\* Writing the pending register acknowledges the events written.
AckEvents(E) == pending' = pending \ E

-----------------------------------------------------------------------------
\* What the core does on the bus, for an action of the host.

\* SETUP is always accepted, and ends a stall.
SetupArrives(request) ==
  /\ setup_fifo' = <<request>>
  /\ in_stall' = FALSE
  /\ pending' = pending \cup {"setup"}
  /\ UNCHANGED <<in_queue, out_fifo, out_enable, usb_address>>

\* An IN token takes the packet.
PacketTaken ==
  /\ ~InIdle /\ ~in_stall
  /\ in_queue' = <<>>
  /\ pending' = pending \cup {"in"}
  /\ UNCHANGED <<setup_fifo, out_fifo, out_enable, in_stall, usb_address>>

\* An OUT packet is taken once per enable.
PacketArrives(p) ==
  /\ out_enable
  /\ out_fifo' = <<p>> /\ out_enable' = FALSE
  /\ pending' = pending \cup {"out"}
  /\ UNCHANGED <<setup_fifo, in_queue, in_stall, usb_address>>

\* A bus reset clears the address by itself; the rest is up to the driver.
ResetSignalled ==
  /\ pending' = pending \cup {"reset"}
  /\ usb_address' = 0
  /\ UNCHANGED <<setup_fifo, in_queue, out_fifo, out_enable, in_stall>>
=============================================================================
