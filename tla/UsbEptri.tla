------------------------------ MODULE UsbEptri ------------------------------
(***************************************************************************)
(* Foboot's USB driver, usb-eptri.c, and the skeleton of the control       *)
(* requests in usb-dev.c: the interrupt handler and the main thread share  *)
(* the SETUP buffer, the receive buffer and the transmit cursor, while the *)
(* host goes on taking and sending packets.                                *)
(*                                                                         *)
(* isr tells where the interrupt handler is, pc where the main thread is.  *)
(* An event interrupts the main thread at once: it moves only while no     *)
(* event is pending and no handler runs (MainRuns).                        *)
(***************************************************************************)
EXTENDS EptriGateware

CONSTANTS
  Requests,       \* [kind, wLength, reply]: what a host may ask for
  MaxResets       \* bound: bus resets

VARIABLES
  setup_packet, setup_length,    \* setup_length: TRUE if not 0
  out_have, out_buffer,
  tx,             \* current_data (whose reply; 0 is NULL), current_length,
                  \* data_offset, data_to_send, next_packet_is_empty
  next_address,
  isr, latched,   \* usb_isr: where it is, the events it read at its start
  pc, req,        \* the main thread, and the request it handles
  rx,             \* bytes_remaining and ep0_rx_offset of usb_setup
  home,           \* where usb_poll returns to
  xfer, stage, moved, haddr,     \* the host: its transfer, its stage, bytes
                  \* moved in the data stage, the address it uses
  recovering,     \* a reset has been signalled, and no SETUP sent since
  disturbed,      \* history: a reset met the device inside a request, or a
                  \* SETUP met a packet of an earlier transfer
  resets

drvVars  == <<setup_packet, setup_length, out_have, out_buffer, tx, next_address>>
isrVars  == <<isr, latched>>
mainVars == <<pc, req, rx, home>>
hostVars == <<xfer, stage, moved, haddr, recovering, disturbed, resets>>
vars     == <<hwVars, drvVars, isrVars, mainVars, hostVars>>

Kinds == {"get", "get_stalled", "set", "set_stalled", "set_address", "dnload", "getstatus_reset", "detach"}

\* The requests whose data stage is IN.
InKinds == {"get", "get_stalled", "getstatus_reset"}

\* A download has data, a request without a data stage has none; a host may
\* also ask for 0 bytes of a reply.  No reply takes more than one full packet
\* and a short one: the longest of usb-desc.c is the name of the product, of
\* less than 128 bytes.  A host asks for all of the status.
ASSUME RequestAssumption ==
  /\ Requests \subseteq [kind : Kinds, wLength : 0 .. MaxData, reply : 0 .. MaxData]
  /\ \A r \in Requests : r.kind = "dnload" => r.wLength > 0
  /\ \A r \in Requests : r.wLength > 0 => r.kind \in InKinds \cup {"dnload"}
  /\ \A r \in Requests : r.reply < 2 * MAX_BYTES
  /\ \A r \in Requests : r.kind = "getstatus_reset" => r.reply <= r.wLength
  /\ MaxResets \in Nat

NoRequest == [kind |-> "set", wLength |-> 0, reply |-> 0, n |-> 0]
Request == {[kind |-> r.kind, wLength |-> r.wLength, reply |-> r.reply, n |-> n] :
              r \in Requests, n \in 1 .. MaxTransfers} \cup {NoRequest}

\* A request as usb_setup has read it: its wLength may be that of the next.
ReadRequest ==
  [kind : Kinds, wLength : 0 .. MaxData, reply : 0 .. MaxData, n : 0 .. MaxTransfers]

Null == [data |-> 0, length |-> 0, offset |-> 0, to_send |-> 0, empty |-> FALSE]
Smaller(a, b) == IF a < b THEN a ELSE b

\* usb_connect has run: nothing queued, OUT enabled, interrupts on.
Init ==
  /\ setup_fifo = <<>> /\ in_queue = <<>> /\ out_fifo = <<>>
  /\ out_enable = TRUE /\ in_stall = FALSE /\ pending = {} /\ usb_address = 0
  /\ setup_packet = NoRequest /\ setup_length = FALSE
  /\ out_have = FALSE /\ out_buffer = Zlp
  /\ tx = Null
  /\ next_address = 0
  /\ isr = "off" /\ latched = {}
  /\ pc = "poll" /\ req = NoRequest /\ rx = [left |-> 0, offset |-> 0] /\ home = "poll"
  /\ xfer = NoRequest /\ stage = "idle" /\ moved = 0 /\ haddr = 0
  /\ recovering = FALSE /\ disturbed = FALSE /\ resets = 0

-----------------------------------------------------------------------------
\* The transmit cursor.

\* Mutant: the cursor is not cut to the size of a packet.
WholeRest(t) ==
  LET offset == t.offset + t.to_send
  IN IF offset >= t.length THEN Null
     ELSE [t EXCEPT !.offset = offset, !.to_send = t.length - offset]

\* Mutant: a short packet is followed by an empty one.
AlwaysEmpty(t) ==
  LET offset == t.offset + t.to_send
      left   == t.length - offset
      packet(size, flag) == [t EXCEPT !.offset = offset, !.to_send = size, !.empty = flag]
  IN CASE left > MAX_BYTES -> packet(MAX_BYTES, FALSE)
       [] left <= MAX_BYTES /\ left > 0 -> packet(left, TRUE)
       [] t.empty -> packet(0, FALSE)
       [] OTHER -> Null

\* The lines of process_tx that move the cursor to the next packet.  The
\* flag survives the end of a reply, as in the code.
NextPacket(t) ==
  LET offset == t.offset + t.to_send
      left   == t.length - offset
      packet(size, flag) == [t EXCEPT !.offset = offset, !.to_send = size, !.empty = flag]
  IN CASE left > MAX_BYTES -> packet(MAX_BYTES, FALSE)
       [] left = MAX_BYTES -> packet(MAX_BYTES, TRUE)
       [] left < MAX_BYTES /\ t.empty -> packet(0, FALSE)
       [] left <= 0 /\ ~t.empty -> Null
       [] OTHER -> packet(left, FALSE)

\* process_tx works when IN is idle and there is something to send.
CanTransmit == InIdle /\ tx.data # 0 /\ tx.length # 0

\* Copying a packet to the FIFO and queueing it.  After a reset current_data
\* may have become NULL: the bytes then belong to no reply.
LoadPacket(t) == QueueIn([n |-> t.data, from |-> t.offset, len |-> t.to_send])

\* process_tx as a whole, where nothing can come in between.
process_tx ==
  IF CanTransmit
    THEN LET t == NextPacket(tx)
         IN /\ tx' = t
            /\ IF t.data = 0 THEN UNCHANGED in_queue ELSE LoadPacket(t)
    ELSE UNCHANGED <<tx, in_queue>>

-----------------------------------------------------------------------------
\* usb_isr, interrupted by nobody but watched by the host.

IsrEnter ==
  /\ isr = "off" /\ pending # {} /\ pc # "rebooted"
  /\ isr' = "setup" /\ latched' = pending
  /\ UNCHANGED <<hwVars, drvVars, mainVars, hostVars>>

\* USB reset event: forget everything (but next_address and the flag of the
\* transmit cursor) and usb_connect(), which also acknowledges the events.
IsrReset ==
  /\ isr = "setup" /\ "reset" \in latched
  /\ setup_length' = FALSE /\ out_have' = FALSE
  /\ out_buffer' = [out_buffer EXCEPT !.len = 0]
  /\ tx' = [tx EXCEPT !.data = 0, !.length = 0]
  /\ AckEvents(pending)
  /\ setup_fifo' = <<>> /\ in_queue' = <<>> /\ out_fifo' = <<>>
  /\ out_enable' = TRUE /\ in_stall' = FALSE /\ usb_address' = 0
  /\ isr' = "off" /\ latched' = {}
  /\ UNCHANGED <<setup_packet, next_address, mainVars, hostVars>>

\* Drain the SETUP FIFO into setup_packet.
IsrSetup ==
  /\ isr = "setup" /\ "reset" \notin latched
  /\ isr' = "in"
  /\ IF "setup" \in latched
       THEN /\ setup_length' = (setup_fifo # <<>>)
            /\ setup_packet' = IF setup_fifo # <<>> THEN setup_fifo[1] ELSE NoRequest
            /\ setup_fifo' = <<>>
       ELSE UNCHANGED <<setup_length, setup_packet, setup_fifo>>
  /\ UNCHANGED <<in_queue, out_fifo, out_enable, in_stall, pending, usb_address,
                 out_have, out_buffer, tx, next_address, latched, mainVars, hostVars>>

\* Send the next packet of the reply, and use a new address once the packet
\* that acknowledged it is gone.
IsrIn ==
  /\ isr = "in"
  /\ isr' = "out"
  /\ IF "in" \in latched
       THEN /\ process_tx
            /\ usb_address' = IF next_address # 0 THEN next_address ELSE usb_address
            /\ next_address' = 0
       ELSE UNCHANGED <<tx, in_queue, usb_address, next_address>>
  /\ UNCHANGED <<setup_fifo, out_fifo, out_enable, in_stall, pending, setup_packet,
                 setup_length, out_have, out_buffer, latched, mainVars, hostVars>>

\* process_rx takes a packet only into an empty buffer.
RxAccepts == ~out_have

IsrOut ==
  /\ isr = "out"
  /\ isr' = "ack"
  /\ IF "out" \in latched /\ RxAccepts /\ OutHave
       THEN /\ out_have' = TRUE /\ out_buffer' = out_fifo[1] /\ out_fifo' = <<>>
       ELSE UNCHANGED <<out_have, out_buffer, out_fifo>>
  /\ UNCHANGED <<setup_fifo, in_queue, out_enable, in_stall, pending, usb_address,
                 setup_packet, setup_length, tx, next_address, latched, mainVars, hostVars>>

\* Mutant: usb_isr acknowledges what is pending at its end.
PendingNow == pending

\* usb_isr acknowledges the events it has read at its start.
WriteBack == latched

IsrAck ==
  /\ isr = "ack"
  /\ AckEvents(WriteBack)
  /\ isr' = "off" /\ latched' = {}
  /\ UNCHANGED <<setup_fifo, in_queue, out_fifo, out_enable, in_stall, usb_address,
                 drvVars, mainVars, hostVars>>

usb_isr == IsrEnter \/ IsrReset \/ IsrSetup \/ IsrIn \/ IsrOut \/ IsrAck

-----------------------------------------------------------------------------
\* The main thread.

MainRuns == isr = "off" /\ pending = {}
UnchangedInMain == UNCHANGED <<isrVars, hostVars, setup_fifo, out_fifo, pending, usb_address, setup_packet>>

\* usb_poll: take the request, if there is one.
usb_poll(caller) ==
  /\ setup_length
  /\ setup_length' = FALSE
  /\ pc' = "setup" /\ home' = caller
  /\ UNCHANGED <<in_queue, out_enable, in_stall, out_have, out_buffer, tx, next_address, req, rx>>
  /\ UnchangedInMain

Poll == MainRuns /\ pc = "poll" /\ usb_poll("poll")

\* usb_setup: the switch over the kind of request, which is passed by
\* reference.  usb_err(ep_dir) stalls IN for a read, and OUT for a request
\* without data.
Dispatch ==
  /\ MainRuns /\ pc = "setup"
  /\ req' = setup_packet
  /\ rx' = [left |-> 0, offset |-> 0]
  /\ LET kind == setup_packet.kind
     IN /\ pc' = CASE kind \in {"get", "dnload"} -> "length"
                   [] kind = "getstatus_reset" -> "send"
                   [] kind \in {"get_stalled", "set_stalled"} -> home
                   [] kind \in {"set", "set_address", "detach"} -> "ack_in"
        /\ next_address' = IF kind = "set_address" THEN 1 ELSE next_address
        /\ in_stall' = (in_stall \/ kind = "get_stalled")
        /\ IF kind = "set_stalled" THEN StallOut ELSE UNCHANGED out_enable
  /\ UNCHANGED <<in_queue, setup_length, out_have, out_buffer, tx, home>>
  /\ UnchangedInMain

\* setup->wLength, which is read where it is needed (in a download at once, of
\* a reply at usb-dev.c:263): by then it may be that of another request.  A
\* download of no bytes skips the loop.
TakeLength ==
  /\ MainRuns /\ pc = "length"
  /\ req' = [req EXCEPT !.wLength = setup_packet.wLength]
  /\ rx' = [left |-> setup_packet.wLength, offset |-> 0]
  /\ pc' = CASE req.kind = "get" -> "send"
             [] req.kind = "dnload" /\ setup_packet.wLength > 0 -> "recv"
             [] OTHER -> "ack_in"
  /\ UNCHANGED <<in_queue, out_enable, in_stall, setup_length, out_have, out_buffer, tx,
                 next_address, home>>
  /\ UnchangedInMain

\* The condition of the loop of usb_send.
StillSending == tx.data # 0 \/ tx.length # 0

\* usb_send: while something is being sent, process_tx.  Bit 1 of IN_STATUS,
\* which the loop tests too, is not assigned and reads as 0.
SendDrain ==
  /\ MainRuns /\ pc = "send"
  /\ IF StillSending
       THEN process_tx /\ UNCHANGED pc
       ELSE /\ tx' = [tx EXCEPT !.data = req.n]
            /\ pc' = "set_length" /\ UNCHANGED in_queue
  /\ UNCHANGED <<out_enable, in_stall, setup_length, out_have, out_buffer, next_address, req, rx, home>>
  /\ UnchangedInMain

\* usb_setup cuts datalen to wLength, except in dfuMANIFEST_WAIT_RESET.
ReplyLength == IF req.kind = "getstatus_reset" THEN req.reply ELSE Smaller(req.reply, req.wLength)

\* Mutant: the cursor stays where the reply before left it.
OldCursor == [tx EXCEPT !.length = ReplyLength]

\* The cursor at the beginning of a reply.
NewCursor == [tx EXCEPT !.length = ReplyLength, !.offset = 0, !.to_send = 0]

\* The rest of the assignments of usb_send.
SendSetLength ==
  /\ MainRuns /\ pc = "set_length"
  /\ tx' = NewCursor
  /\ pc' = "cut"
  /\ UNCHANGED <<in_queue, out_enable, in_stall, setup_length, out_have, out_buffer,
                 next_address, req, rx, home>>
  /\ UnchangedInMain

\* Where usb_setup goes on after usb_send.
AfterSend == IF req.kind = "getstatus_reset" THEN "recv_reset" ELSE "ack_out"

\* process_tx as usb_send calls it last: the cursor first ...
SendCut ==
  /\ MainRuns /\ pc = "cut"
  /\ IF CanTransmit
       THEN tx' = NextPacket(tx) /\ pc' = "load"
       ELSE UNCHANGED tx /\ pc' = AfterSend
  /\ UNCHANGED <<in_queue, out_enable, in_stall, setup_length, out_have, out_buffer,
                 next_address, req, rx, home>>
  /\ UnchangedInMain

\* ... then the packet.
SendLoad ==
  /\ MainRuns /\ pc = "load"
  /\ LoadPacket(tx)
  /\ pc' = AfterSend
  /\ UNCHANGED <<out_enable, in_stall, setup_length, out_have, out_buffer, tx,
                 next_address, req, rx, home>>
  /\ UnchangedInMain

\* Mutant: usb_ack(0) that does not throw away the packet it had.
usb_ack_keeps == UNCHANGED out_have /\ out_enable' = TRUE

\* Mutant: usb_ack(0) that does not enable OUT again.
usb_ack_deaf == out_have' = FALSE /\ UNCHANGED out_enable

\* usb_ack(0): throw away what was received, receive again.
usb_ack_out == out_have' = FALSE /\ out_enable' = TRUE

\* usb_ack(1): an empty packet for the status stage.
usb_ack_in == QueueIn(Zlp)

\* A request with an IN data stage ends with usb_ack(0) ...
AckOut ==
  /\ MainRuns /\ pc = "ack_out"
  /\ usb_ack_out
  /\ pc' = home
  /\ UNCHANGED <<in_queue, in_stall, setup_length, out_buffer, tx, next_address, req, rx, home>>
  /\ UnchangedInMain

\* ... any other with usb_ack(1).
AckIn ==
  /\ MainRuns /\ pc = "ack_in"
  /\ usb_ack_in
  /\ pc' = IF req.kind = "detach" THEN "detach" ELSE home
  /\ UNCHANGED <<out_enable, in_stall, setup_length, out_have, out_buffer, tx,
                 next_address, req, rx, home>>
  /\ UnchangedInMain

\* usb_recv: spin until there is a packet, whichever it is, and copy what
\* fits.  The loop of DFU_DNLOAD counts it off.
RecvLength == Smaller(Smaller(req.wLength, MAX_BYTES), out_buffer.len)

Recv ==
  /\ MainRuns /\ pc = "recv"
  /\ out_have
  /\ usb_ack_out
  /\ LET left == IF RecvLength > rx.left THEN 0 ELSE rx.left - RecvLength
     IN /\ rx' = [left |-> left, offset |-> rx.offset + RecvLength]
        /\ pc' = IF left > 0 THEN "recv" ELSE "ack_in"
  /\ UNCHANGED <<in_queue, in_stall, setup_length, out_buffer, tx, next_address, req, home>>
  /\ UnchangedInMain

\* DFU_GETSTATUS in dfuMANIFEST_WAIT_RESET: usb_recv, then reboot().
RecvReset ==
  /\ MainRuns /\ pc = "recv_reset"
  /\ out_have
  /\ usb_ack_out
  /\ pc' = "rebooted"
  /\ UNCHANGED <<in_queue, in_stall, setup_length, out_buffer, tx, next_address, req, rx, home>>
  /\ UnchangedInMain

\* DFU_DETACH: usb_wait_for_send_done, which polls meanwhile, then reboot().
DetachWait == (tx.data # 0 /\ tx.length # 0) \/ InHave

Detach ==
  /\ MainRuns /\ pc = "detach"
  /\ IF DetachWait
       THEN usb_poll("detach")
       ELSE /\ pc' = "rebooted"
            /\ UNCHANGED <<in_queue, out_enable, in_stall, setup_length, out_have, out_buffer,
                           tx, next_address, req, rx, home>>
            /\ UnchangedInMain

Main == \/ Poll \/ Dispatch \/ TakeLength \/ SendDrain \/ SendSetLength \/ SendCut \/ SendLoad
        \/ AckOut \/ AckIn \/ Recv \/ RecvReset \/ Detach

-----------------------------------------------------------------------------
\* The host, which carries out one transfer after the other.

UnchangedByHost == UNCHANGED <<drvVars, isrVars, mainVars, disturbed, resets>>

\* Device and host agree on the address; a device that has rebooted is gone.
Reached == usb_address = haddr /\ pc # "rebooted"

\* After a reset a host waits (USB 2.0, 7.1.7.5: 10 ms) before it goes on:
\* the device has done what does not wait for the host.
Recovered ==
  /\ MainRuns
  /\ \/ pc = "poll" /\ ~setup_length
     \/ pc = "send" /\ StillSending /\ ~CanTransmit
     \/ pc \in {"recv", "recv_reset"} /\ ~out_have
     \/ pc = "detach" /\ DetachWait /\ ~setup_length

HostSetup(r) ==
  /\ Reached /\ stage = "idle" /\ xfer.n < MaxTransfers
  /\ recovering => Recovered
  /\ r.kind = "set_address" => haddr = 0
  /\ LET request == [kind |-> r.kind, wLength |-> r.wLength, reply |-> r.reply, n |-> xfer.n + 1]
     IN SetupArrives(request) /\ xfer' = request
  /\ stage' = IF r.wLength > 0 THEN "data" ELSE "status"
  /\ moved' = 0 /\ recovering' = FALSE
  /\ disturbed' = (disturbed \/ ~InIdle \/ tx.empty)
  /\ UNCHANGED <<haddr, drvVars, isrVars, mainVars, resets>>

\* The host sends IN tokens in an IN data stage, and in the status stage of
\* a request without one.
ExpectsIn ==
  \/ stage = "data" /\ xfer.kind \in InKinds
  \/ stage = "status" /\ ~(xfer.kind \in InKinds /\ xfer.wLength > 0)

\* A short packet, or all that was asked for, ends the data stage.
HostIn ==
  /\ Reached /\ ExpectsIn
  /\ PacketTaken
  /\ IF stage = "data"
       THEN /\ moved' = moved + in_queue[1].len
            /\ stage' = IF in_queue[1].len < MAX_BYTES \/ moved' >= xfer.wLength
                          THEN "status" ELSE "data"
            /\ UNCHANGED haddr
       ELSE /\ stage' = "idle" /\ UNCHANGED moved
            /\ haddr' = IF xfer.kind = "set_address" THEN 1 ELSE haddr
  /\ UNCHANGED <<xfer, recovering>>
  /\ UnchangedByHost

\* A stall ends the transfer.
HostStalled ==
  /\ Reached /\ ExpectsIn /\ in_stall
  /\ stage' = "idle"
  /\ UNCHANGED <<hwVars, xfer, moved, haddr, recovering>>
  /\ UnchangedByHost

\* OUT data packets, or the empty packet of the status stage.
HostOut ==
  /\ Reached /\ stage # "idle" /\ ~ExpectsIn
  /\ IF stage = "data"
       THEN LET len == Smaller(MAX_BYTES, xfer.wLength - moved)
            IN /\ PacketArrives([n |-> xfer.n, from |-> moved, len |-> len])
               /\ moved' = moved + len
               /\ stage' = IF moved' = xfer.wLength THEN "status" ELSE "data"
       ELSE PacketArrives(Zlp) /\ stage' = "idle" /\ UNCHANGED moved
  /\ UNCHANGED <<xfer, haddr, recovering>>
  /\ UnchangedByHost

\* A host that can do nothing for long gives up (USB 2.0, 9.2.6.1: 5 s).
InVain == IF ExpectsIn THEN InIdle /\ ~in_stall ELSE ~out_enable

GiveUp ==
  /\ stage # "idle" /\ InVain /\ Recovered
  /\ stage' = "idle"
  /\ UNCHANGED <<hwVars, xfer, moved, haddr, recovering>>
  /\ UnchangedByHost

\* Nothing of a request is left to do that a reset does not also forget.
BetweenRequests == pc \in {"poll", "ack_out"} /\ next_address = 0 /\ ~tx.empty

BusReset ==
  /\ resets < MaxResets /\ pc # "rebooted"
  /\ ResetSignalled
  /\ stage' = "idle" /\ haddr' = 0 /\ recovering' = TRUE
  /\ disturbed' = (disturbed \/ ~BetweenRequests)
  /\ resets' = resets + 1
  /\ UNCHANGED <<drvVars, isrVars, mainVars, xfer, moved>>

Host == HostIn \/ HostStalled \/ HostOut

Next == usb_isr \/ Main \/ Host \/ GiveUp \/ (\E r \in Requests : HostSetup(r)) \/ BusReset

Spec == Init /\ [][Next]_vars

\* The processor runs, and a host that has begun a transfer goes on with it.
FairSpec == Spec /\ WF_vars(usb_isr) /\ WF_vars(Main) /\ WF_vars(HostIn)
                 /\ WF_vars(HostStalled) /\ WF_vars(HostOut)

-----------------------------------------------------------------------------
\* Every variable has its type; the flags and cursors of the driver stay
\* within the reply and the packet they stand for.  (A packet that belongs to
\* another transfer may take the two counts of a data stage past its end.)
UsbTypeOK ==
  /\ setup_fifo \in AtMostOne(Request) /\ in_queue \in AtMostOne(Packet)
  /\ out_fifo \in AtMostOne(Packet)
  /\ out_enable \in BOOLEAN /\ in_stall \in BOOLEAN /\ pending \subseteq Events
  /\ usb_address \in 0 .. 1
  /\ setup_packet \in Request /\ setup_length \in BOOLEAN
  /\ out_have \in BOOLEAN /\ out_buffer \in Packet
  /\ tx \in [data : 0 .. MaxTransfers, length : 0 .. MaxData, offset : 0 .. MaxData,
             to_send : 0 .. MAX_BYTES, empty : BOOLEAN]
  /\ next_address \in 0 .. 1
  /\ isr \in {"off", "setup", "in", "out", "ack"} /\ latched \subseteq Events
  /\ pc \in {"poll", "setup", "length", "send", "set_length", "cut", "load", "ack_out", "ack_in",
             "recv", "recv_reset", "detach", "rebooted"}
  /\ req \in ReadRequest /\ home \in {"poll", "detach"}
  /\ rx \in [left : 0 .. MaxData, offset : 0 .. MaxData + MAX_BYTES]
  /\ xfer \in Request /\ stage \in {"idle", "data", "status"}
  /\ moved \in 0 .. MaxData + MAX_BYTES
  /\ haddr \in 0 .. 1 /\ recovering \in BOOLEAN /\ disturbed \in BOOLEAN
  /\ resets \in 0 .. MaxResets

\* What a host reads in a data stage is the reply to the request it sent,
\* from the beginning, without gaps or repetitions, and to the end: the main
\* thread and the interrupt handler, which both move the transmit cursor,
\* do not lose or repeat a packet.  (usb_send, process_tx, usb_isr.)
RightReply ==
  ~disturbed /\ xfer.kind \in InKinds =>
    /\ stage = "data" /\ ~InIdle => in_queue[1].n = xfer.n /\ in_queue[1].from = moved
    /\ stage = "status" => moved = Smaller(xfer.reply, xfer.wLength)

\* dfu_download is given the bytes of this data stage in order, each at its
\* offset, whatever usb_recv returns besides (the empty packet of an earlier
\* status stage), and the request is acknowledged when all have come.
BlockInOrder ==
  ~disturbed =>
    /\ pc = "recv" /\ out_have /\ out_buffer.len > 0 =>
         out_buffer.n = req.n /\ out_buffer.from = rx.offset
    /\ pc = "ack_in" /\ req.kind = "dnload" => rx.offset = req.wLength /\ req = xfer

\* Transfers this driver does not end: the status stage of a request without
\* data that it stalls, or of a read of 0 bytes, is expected from IN, where
\* nothing is queued; after such a read usb_send has a reply without bytes
\* to finish before it can begin the next; and after such a stall OUT is
\* disabled while usb_recv waits for a packet.
NoStatus == stage = "status" /\ (xfer.kind = "set_stalled" \/ (xfer.kind \in InKinds /\ xfer.wLength = 0))

SendWaits == pc = "send" /\ tx.data # 0 /\ tx.length = 0

RecvWaits == pc \in {"recv", "recv_reset"} /\ ~out_enable /\ ~out_have /\ ~OutHave

\* A transfer ends, unless the device reboots meanwhile.  A bus reset
\* between two requests, wherever it meets the interrupt handler, does no
\* harm, and brings the driver back from the transfers it does not end.
TransferEnds ==
  stage # "idle" ~> \/ stage = "idle" \/ pc = "rebooted" \/ disturbed
                    \/ NoStatus \/ SendWaits \/ RecvWaits

\* No packet is left behind by a transfer that would answer the next one:
\* the only one is the empty packet that process_tx queues behind a reply
\* that ends with a full packet, when the host has asked for no more.
NothingLeftBehind ==
  ~disturbed /\ stage = "idle" /\ "reset" \notin pending /\ ~InIdle =>
    /\ xfer.kind \in {"get", "getstatus_reset"} /\ xfer.wLength <= xfer.reply
    /\ xfer.wLength % MAX_BYTES = 0 /\ in_queue[1].len = 0

\* usb-dev.c:197: in dfuMANIFEST_WAIT_RESET the device resets "once the host
\* acknowledges the packet"; usb-dev.c:178: on DETACH it sends an "ACK" packet
\* and waits "for it to be received".  It does not reboot while the host
\* waits for the packet of that very request.
RebootAfterAck == pc = "rebooted" /\ req.n = xfer.n => ~ExpectsIn

\* usb-eptri.c:264: the address changes on "the completion of the IN packet
\* that follows as the final ACK" of SET_ADDRESS, so that host and device
\* agree on it.
AddressAfterAck == usb_address # 0 /\ "reset" \notin pending => haddr = usb_address
=============================================================================
