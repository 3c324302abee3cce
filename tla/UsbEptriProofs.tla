--------------------------- MODULE UsbEptriProofs ---------------------------
(***************************************************************************)
(* Proofs about the USB driver: its safety properties hold for every size  *)
(* of packet, every set of requests that satisfies RequestAssumption, and  *)
(* any number of transfers and bus resets.                                 *)
(***************************************************************************)
EXTENDS UsbEptri, TLAPS

-----------------------------------------------------------------------------
(* The inductive invariant.  First, what holds in every state. *)

\* The handler works on events that are still pending; it looks at a reset
\* first.
EventsRead ==
  /\ latched \subseteq pending
  /\ isr = "off" => latched = {}
  /\ "reset" \in latched => isr = "setup"

\* There is a reply to send.
Active == tx.data # 0 /\ tx.length # 0

\* The packet at the cursor lies in the reply.
CursorInside == Active => tx.offset + tx.to_send <= tx.length

\* Where the main thread is belongs to the request it handles.
ThreadAgrees ==
  /\ pc \in {"send", "set_length", "cut", "load"} => req.kind \in {"get", "getstatus_reset"}
  /\ pc = "length" => req.kind \in {"get", "dnload"}
  /\ pc = "ack_out" => req.kind = "get"
  /\ pc = "recv_reset" => req.kind = "getstatus_reset"
  /\ pc = "recv" => req.kind = "dnload" /\ rx.left > 0 /\ rx.offset + rx.left = req.wLength
  /\ pc = "ack_in" => req.kind \in {"set", "set_address", "detach", "dnload"}

\* A packet from the host is in one place only: OUT is enabled when there is
\* none, and one in the FIFO has an event that no handler has acted on.
OutOnce ==
  /\ out_enable => out_fifo = <<>> /\ ~out_have /\ "out" \notin pending
  /\ out_fifo # <<>> => /\ ~out_have /\ "out" \in pending
                        /\ ~(isr = "ack" /\ "out" \in latched)

\* The host is within its transfer.
HostAgrees ==
  /\ stage = "data" => moved < xfer.wLength
  /\ stage = "status" /\ xfer.kind = "dnload" => moved = xfer.wLength
  /\ recovering => stage = "idle"
  /\ stage # "idle" => xfer.n # 0

\* A reset that does no harm meets the device between two requests.
ResetBetween ==
  ~disturbed /\ "reset" \in pending => pc \in {"poll", "ack_out"} /\ stage = "idle" /\ recovering

Always == EventsRead /\ CursorInside /\ ThreadAgrees /\ OutOnce /\ HostAgrees /\ ResetBetween

-----------------------------------------------------------------------------
(* The rest holds while nothing has disturbed the device, and no reset waits *)
(* for the handler. *)

Live == ~disturbed /\ "reset" \notin pending

\* The handler has yet to drain the SETUP FIFO; to move the cursor.
SetupDue == "setup" \in pending /\ ~(isr \in {"in", "out", "ack"} /\ "setup" \in latched)
InDue    == "in" \in pending /\ ~(isr \in {"out", "ack"} /\ "in" \in latched)

\* The request of the host is on its way to usb_setup.
Fresh == setup_fifo # <<>> \/ setup_length \/ pc \in {"setup", "length"}

\* The main thread does not answer requests any more.
Stuck == SendWaits \/ RecvWaits \/ pc \in {"recv_reset", "rebooted"}

\* A SETUP packet that is on its way is the one the host sent last: the FIFO
\* and setup_packet do not both hold one, unless nobody takes them.
SetupPath ==
  /\ setup_fifo # <<>> => setup_fifo = <<xfer>> /\ SetupDue /\ stage # "idle"
  /\ SetupDue => setup_fifo # <<>>
  /\ setup_length /\ setup_fifo = <<>> => setup_packet = xfer
  /\ setup_length /\ setup_fifo # <<>> => Stuck
  /\ pc \in {"setup", "length"}
       => setup_packet = xfer /\ setup_fifo = <<>> /\ ~setup_length /\ stage # "idle"
  /\ pc = "length" => req = xfer
  /\ stage = "idle" /\ Fresh => Stuck
  /\ isr \in {"in", "out", "ack"} /\ "setup" \in latched => setup_length /\ stage # "idle"

\* Once taken, the request the main thread handles is the host's.
RequestTaken ==
  /\ stage # "idle" /\ ~Stuck /\ ~Fresh => req = xfer
  /\ pc \in {"send", "set_length", "cut", "load", "recv", "ack_in"} /\ ~Stuck
       => req = xfer /\ stage # "idle" /\ ~Fresh
  /\ stage = "idle" /\ ~Stuck => pc \in {"poll", "detach", "ack_out"}

\* Nothing has been queued for the request of the host yet.
Untouched == Fresh \/ pc \in {"send", "set_length", "cut", "load", "recv", "ack_in"}

\* The packet at the cursor is the last of its reply.
Finished == tx.offset + tx.to_send = tx.length /\ ~tx.empty

\* Until then IN is idle, the cursor is not inside an old reply, and the
\* host has read nothing.
NothingSent ==
  Untouched =>
    /\ InIdle /\ ~in_stall
    /\ pc # "load" => ~tx.empty
    /\ pc \notin {"cut", "load"} => ~Active \/ Finished
    /\ xfer.kind \in InKinds /\ stage # "idle"
         => moved = 0 /\ stage = (IF xfer.wLength > 0 THEN "data" ELSE "status")

\* The length of the reply to the request of the host.
Total == Smaller(xfer.reply, xfer.wLength)

\* The cursor at the first packet.
First == /\ tx.data = xfer.n /\ tx.length = Total /\ tx.offset = 0
         /\ tx.to_send = Smaller(MAX_BYTES, Total)
         /\ tx.empty <=> Total = MAX_BYTES

\* What each step of usb_send leaves to the next.
SendSteps ==
  /\ pc = "set_length" => tx.data = req.n /\ tx.length = 0
  /\ pc = "cut" => tx.data = req.n /\ tx.length = Total /\ tx.offset = 0 /\ tx.to_send = 0
  /\ pc = "load" => First /\ Total > 0
  /\ pc \in {"cut", "load"} => "in" \notin pending
  /\ tx.data = 0 => tx.length = 0

\* The cursor is in the reply to the request of the host.
OfReply ==
  /\ ~Fresh /\ xfer.kind \in {"get", "getstatus_reset"}
  /\ tx.data = xfer.n /\ tx.length = Total

\* The first packet of a reply of two: either it waits for the host, or the
\* host has taken it and the handler has yet to send the second.
Unfinished ==
  /\ OfReply /\ First /\ MAX_BYTES <= Total
  /\ \/ /\ in_queue = <<[n |-> tx.data, from |-> 0, len |-> tx.to_send]>>
        /\ stage = "data" /\ moved = 0 /\ "in" \notin pending
     \/ /\ InIdle /\ InDue /\ moved = MAX_BYTES
        /\ stage # "data" => xfer.wLength = MAX_BYTES /\ Total = MAX_BYTES

\* No packet is lost between two.
ReplyCursor == Active /\ pc \notin {"cut", "load"} => Finished \/ Unfinished

\* The packet that waits for the host is the one at the cursor, and begins
\* where the host has got to ...
TxPacket ==
  /\ Active /\ OfReply
  /\ in_queue = <<[n |-> tx.data, from |-> tx.offset, len |-> tx.to_send]>>
  /\ IF stage = "data" THEN moved = tx.offset
     ELSE tx.to_send = 0 /\ xfer.wLength = MAX_BYTES /\ Total = MAX_BYTES

\* ... or acknowledges a request that has been handled.
AckPacket ==
  /\ ~Fresh /\ in_queue = <<Zlp>> /\ xfer.kind \notin InKinds /\ stage = "status"
  /\ pc \in {"poll", "detach", "rebooted"} /\ req = xfer
  /\ ~Active \/ Finished
  /\ xfer.kind = "dnload" => rx.offset = xfer.wLength

InQueue == ~InIdle => TxPacket \/ AckPacket

\* IN is stalled for a read, and until the next SETUP.
StalledRead ==
  in_stall => xfer.kind = "get_stalled" /\ pc \in {"poll", "detach", "rebooted"} /\ ~Fresh

\* A host goes on to the status stage of a read with the whole reply.
ReadWhole == xfer.kind \in InKinds /\ stage = "status" => moved = Total

\* A read may end, and the next transfer begin, before usb_ack(0) enables OUT.
AckOutLast ==
  pc = "ack_out" =>
    /\ stage = "idle" /\ ~recovering => ~out_enable
    /\ req # xfer /\ ~recovering => ~out_enable /\ moved = 0

\* How much of the data stage dfu_download has been given.
Got == IF Fresh THEN 0 ELSE rx.offset

\* The packet goes on from there.
InFlight(p) ==
  /\ stage # "idle" /\ xfer.kind = "dnload"
  /\ p.n = xfer.n /\ p.from = Got /\ p.from + p.len = moved
  /\ p.len <= Smaller(MAX_BYTES, xfer.wLength - p.from)

\* The bytes of a block arrive once and in order.  A packet without bytes
\* may be an old one.
OutPath ==
  ~Stuck =>
    /\ out_fifo # <<>> => out_fifo[1].len = 0 \/ InFlight(out_fifo[1])
    /\ out_have => out_buffer.len = 0 \/ InFlight(out_buffer)
    /\ /\ xfer.kind = "dnload" /\ stage # "idle"
       /\ out_fifo = <<>> \/ out_fifo[1].len = 0
       /\ out_have => out_buffer.len = 0
       => moved = Got
    /\ xfer.kind = "dnload" /\ stage # "idle" /\ ~Fresh /\ InIdle => pc \in {"recv", "ack_in"}
    /\ pc = "ack_in" /\ req.kind = "dnload" => rx.offset = req.wLength /\ moved = req.wLength

LiveInv ==
  /\ SetupPath /\ RequestTaken /\ NothingSent /\ SendSteps /\ ReplyCursor
  /\ InQueue /\ StalledRead /\ ReadWhole /\ AckOutLast /\ OutPath

IInv == UsbTypeOK /\ Always /\ (Live => LiveInv)

-----------------------------------------------------------------------------
(* Types, and the cursor. *)

\* A packet has a byte at least.
LEMMA Packets == MAX_BYTES \in Nat /\ MAX_BYTES > 0 /\ MaxData \in Nat
  BY EptriAssumption

\* The types the steps below need.
LEMMA Types ==
  ASSUME IInv
  PROVE  /\ home \in {"poll", "detach"}
         /\ pc \in {"poll", "setup", "length", "send", "set_length", "cut", "load", "ack_out", "ack_in",
                    "recv", "recv_reset", "detach", "rebooted"}
         /\ stage \in {"idle", "data", "status"}
         /\ tx.data \in Nat /\ tx.length \in Nat /\ tx.offset \in Nat /\ tx.to_send \in Nat
         /\ tx.empty \in BOOLEAN
         /\ tx = [data |-> tx.data, length |-> tx.length, offset |-> tx.offset,
                  to_send |-> tx.to_send, empty |-> tx.empty]
         /\ rx.left \in Nat /\ rx.offset \in Nat /\ moved \in Nat
         /\ \A r \in {req, xfer, setup_packet} :
              r.kind \in Kinds /\ r.wLength \in Nat /\ r.reply \in Nat /\ r.n \in Nat
         /\ out_fifo # <<>> => out_fifo[1].from \in Nat /\ out_fifo[1].len \in Nat
         /\ out_buffer.from \in Nat /\ out_buffer.len \in Nat
<1>1. \A p \in Packet : p.from \in Nat /\ p.len \in Nat
  BY EptriAssumption DEF Packet
<1>2. out_fifo # <<>> => out_fifo[1] \in Packet
  BY DEF IInv, UsbTypeOK, AtMostOne
<1>3. \A r \in Request \cup ReadRequest :
        r.kind \in Kinds /\ r.wLength \in Nat /\ r.reply \in Nat /\ r.n \in Nat
  BY EptriAssumption, RequestAssumption DEF Request, ReadRequest, NoRequest, Kinds
<1>4. tx = [data |-> tx.data, length |-> tx.length, offset |-> tx.offset,
            to_send |-> tx.to_send, empty |-> tx.empty]
  BY DEF IInv, UsbTypeOK
<1> QED
  BY <1>1, <1>2, <1>3, <1>4, EptriAssumption DEF IInv, UsbTypeOK

\* A reply is shorter than two packets.
LEMMA TotalFits ==
  ASSUME IInv
  PROVE  Total \in Nat /\ Total < 2 * MAX_BYTES /\ Total <= xfer.wLength
<1>1. \A r \in Request : r.reply \in Nat /\ r.wLength \in Nat /\ r.reply < 2 * MAX_BYTES
  BY Packets, RequestAssumption DEF Request, NoRequest
<1>2. xfer.reply \in Nat /\ xfer.wLength \in Nat /\ xfer.reply < 2 * MAX_BYTES
  BY <1>1 DEF IInv, UsbTypeOK
<1> QED
  BY <1>2, Packets DEF Total, Smaller

\* A host asks for all of the status.
LEMMA StatusWhole ==
  ASSUME IInv
  PROVE  xfer.kind = "getstatus_reset" => xfer.reply <= xfer.wLength
  BY RequestAssumption DEF IInv, UsbTypeOK, Request, NoRequest

\* A request with data and no IN data stage is a download.
LEMMA DataOut ==
  ASSUME IInv, xfer.wLength > 0, xfer.kind \notin InKinds
  PROVE  xfer.kind = "dnload"
  BY RequestAssumption DEF IInv, UsbTypeOK, Request, NoRequest

\* After the last packet the cursor is reset.
LEMMA NextOfFinished ==
  ASSUME IInv, Finished
  PROVE  NextPacket(tx) = Null
<1>1. /\ tx.offset \in Nat /\ tx.to_send \in Nat /\ tx.length \in Nat /\ tx.empty = FALSE
      /\ tx.offset + tx.to_send = tx.length
  BY Types DEF Finished
<1> QED
  BY <1>1, Packets DEF NextPacket

\* After a full first packet comes the rest, or an empty packet.
LEMMA NextOfUnfinished ==
  ASSUME IInv, Unfinished
  PROVE  /\ NextPacket(tx) = [tx EXCEPT !.offset = MAX_BYTES, !.to_send = Total - MAX_BYTES,
                                        !.empty = FALSE]
         /\ Total - MAX_BYTES < MAX_BYTES /\ Total - MAX_BYTES \in Nat /\ ~Finished
<1>1. /\ tx.offset = 0 /\ tx.to_send = MAX_BYTES /\ tx.length = Total /\ MAX_BYTES <= Total
      /\ (tx.empty <=> Total = MAX_BYTES) /\ Total \in Nat /\ Total < 2 * MAX_BYTES
  BY Packets, TotalFits DEF Unfinished, OfReply, First, Smaller
<1>2. ~Finished
  BY <1>1, Packets DEF Finished
<1>3. CASE Total = MAX_BYTES
  <2>1. tx.offset = 0 /\ tx.to_send = MAX_BYTES /\ tx.length = MAX_BYTES /\ tx.empty = TRUE
    BY <1>1, <1>3, Types
  <2>2. NextPacket(tx) = [tx EXCEPT !.offset = tx.offset + tx.to_send, !.to_send = 0, !.empty = FALSE]
    BY <2>1, Packets DEF NextPacket
  <2>3. tx.offset + tx.to_send = MAX_BYTES /\ Total - MAX_BYTES = 0
    BY <2>1, <1>3, Packets
  <2>4. NextPacket(tx) = [tx EXCEPT !.offset = MAX_BYTES, !.to_send = Total - MAX_BYTES, !.empty = FALSE]
    BY <2>2, <2>3
  <2>5. Total - MAX_BYTES < MAX_BYTES /\ Total - MAX_BYTES \in Nat
    BY <2>3, Packets
  <2> QED
    BY <2>4, <2>5, <1>2
<1>4. CASE Total > MAX_BYTES
  <2>1. tx.offset = 0 /\ tx.to_send = MAX_BYTES /\ tx.length = Total /\ tx.empty = FALSE
    BY <1>1, <1>4, Packets, Types
  <2>2. Total - MAX_BYTES \in Nat /\ Total - MAX_BYTES > 0 /\ Total - MAX_BYTES < MAX_BYTES
    BY <1>1, <1>4, Packets
  <2>3. tx.offset + tx.to_send = MAX_BYTES /\ tx.length - (tx.offset + tx.to_send) = Total - MAX_BYTES
    BY <2>1, <1>1, Packets
  <2>4. NextPacket(tx) = [tx EXCEPT !.offset = tx.offset + tx.to_send,
                                    !.to_send = tx.length - (tx.offset + tx.to_send), !.empty = FALSE]
    BY <2>1, <2>2, <2>3, Packets DEF NextPacket
  <2> QED
    BY <2>2, <2>3, <2>4, <1>2
<1> QED
  BY <1>1, <1>3, <1>4, Packets

\* The main thread moves while no event waits: then the FIFOs are empty.
LEMMA Quiet ==
  ASSUME IInv, Live, MainRuns
  PROVE  /\ LiveInv /\ pending = {} /\ isr = "off" /\ latched = {}
         /\ setup_fifo = <<>> /\ out_fifo = <<>> /\ ~SetupDue /\ ~InDue
  BY DEF IInv, LiveInv, SetupPath, SetupDue, InDue, MainRuns, Always, OutOnce, EventsRead

\* Where the main thread works on a request, it is the host's.
LEMMA Working ==
  ASSUME IInv, Live, MainRuns, ~Stuck,
         pc \in {"send", "set_length", "cut", "load", "recv", "ack_in"}
  PROVE  /\ req = xfer /\ xfer.n # 0 /\ stage # "idle" /\ ~Fresh /\ ~setup_length
         /\ InIdle /\ ~in_stall /\ Untouched /\ ~recovering
  BY DEF IInv, LiveInv, RequestTaken, NothingSent, Untouched, Fresh, Always, HostAgrees

-----------------------------------------------------------------------------
(* The steps of the interrupt handler. *)

\* Entering the handler moves nothing.
LEMMA IsrEnterLive ==
  ASSUME IInv, IsrEnter, Live'
  PROVE  LiveInv'
<1>1. /\ Live /\ LiveInv /\ isr = "off" /\ isr' = "setup"
      /\ UNCHANGED <<hwVars, drvVars, mainVars, hostVars>>
  BY DEF IsrEnter, IInv, Live, hwVars, drvVars, mainVars, hostVars
<1>2. /\ (Fresh' <=> Fresh) /\ (Stuck' <=> Stuck) /\ (SetupDue' <=> SetupDue) /\ (InDue' <=> InDue)
      /\ (Active' <=> Active) /\ (Finished' <=> Finished) /\ (Untouched' <=> Untouched)
      /\ (InIdle' <=> InIdle) /\ (First' <=> First) /\ Total' = Total /\ Got' = Got
  BY <1>1
     DEF hwVars, drvVars, mainVars, hostVars, Fresh, Stuck, SendWaits, RecvWaits, OutHave, SetupDue,
              InDue, Active, Finished, Untouched, InIdle, First, Total, Got
<1>3. SetupPath' /\ RequestTaken' /\ NothingSent' /\ SendSteps'
  BY <1>1, <1>2
     DEF hwVars, drvVars, mainVars, hostVars, LiveInv, SetupPath, RequestTaken, NothingSent, SendSteps
<1>4. ReplyCursor' /\ InQueue'
  BY <1>1, <1>2
     DEF hwVars, drvVars, mainVars, hostVars, LiveInv, ReplyCursor, Unfinished, OfReply, InQueue,
                    TxPacket, AckPacket
<1>5. StalledRead' /\ ReadWhole' /\ AckOutLast' /\ OutPath'
  BY <1>1, <1>2
     DEF hwVars, drvVars, mainVars, hostVars, LiveInv, StalledRead, ReadWhole, AckOutLast, OutPath,
                    InFlight
<1> QED
  BY <1>3, <1>4, <1>5 DEF LiveInv

\* The SETUP packet goes from the FIFO to setup_packet.
LEMMA IsrSetupLive ==
  ASSUME IInv, IsrSetup, Live'
  PROVE  LiveInv'
<1>1. /\ Live /\ LiveInv /\ isr = "setup" /\ isr' = "in" /\ latched \subseteq pending
      /\ UNCHANGED <<in_queue, out_fifo, out_enable, in_stall, pending, out_have, out_buffer, tx, latched,
                     pc, req, rx, xfer, stage, moved, recovering>>
  BY DEF IsrSetup, mainVars, hostVars, IInv, Live, Always, EventsRead
<1>2. \/ /\ "setup" \in latched /\ setup_fifo = <<xfer>> /\ stage # "idle"
         /\ setup_length' /\ setup_packet' = xfer /\ setup_fifo' = <<>>
      \/ "setup" \notin latched /\ UNCHANGED <<setup_length, setup_packet, setup_fifo>>
  <2>1. CASE "setup" \in latched
    <3>1. setup_fifo = <<xfer>> /\ setup_fifo # <<>> /\ stage # "idle"
      BY <1>1, <2>1 DEF LiveInv, SetupPath, SetupDue
    <3>2. setup_length' = (setup_fifo # <<>>) /\ setup_fifo' = <<>>
          /\ setup_packet' = IF setup_fifo # <<>> THEN setup_fifo[1] ELSE NoRequest
      BY <2>1 DEF IsrSetup
    <3> QED
      BY <2>1, <3>1, <3>2
  <2>2. CASE "setup" \notin latched
    BY <2>2 DEF IsrSetup
  <2> QED
    BY <2>1, <2>2
<1>3. /\ (Fresh' <=> Fresh) /\ (Stuck' <=> Stuck) /\ (InDue' <=> InDue)
      /\ (Active' <=> Active) /\ (Finished' <=> Finished) /\ (InIdle' <=> InIdle)
      /\ (First' <=> First) /\ Total' = Total
  BY <1>1, <1>2
     DEF Fresh, Stuck, SendWaits, RecvWaits, OutHave, InDue, Active, Finished, InIdle, First, Total
<1>4. Got' = Got /\ (Untouched' <=> Untouched)
  BY <1>1, <1>3 DEF Got, Untouched
<1>5. SetupPath'
  <2>1. CASE "setup" \in latched /\ setup_fifo = <<xfer>>
    <3>1. ~SetupDue' /\ pc # "setup"
      BY <1>1, <2>1 DEF SetupDue, LiveInv, SetupPath
    <3> QED
      BY <1>1, <1>2, <1>3, <2>1, <3>1 DEF SetupPath, LiveInv
  <2>2. CASE "setup" \notin latched
    <3>1. SetupDue' <=> SetupDue
      BY <1>1, <2>2 DEF SetupDue
    <3> QED
      BY <1>1, <1>2, <1>3, <2>2, <3>1 DEF SetupPath, LiveInv
  <2> QED
    BY <1>2, <2>1, <2>2
<1>6. RequestTaken' /\ NothingSent' /\ SendSteps'
  BY <1>1, <1>3, <1>4 DEF LiveInv, RequestTaken, NothingSent, SendSteps
<1>7. ReplyCursor' /\ InQueue'
  BY <1>1, <1>3 DEF LiveInv, ReplyCursor, Unfinished, OfReply, InQueue, TxPacket, AckPacket
<1>8. StalledRead' /\ ReadWhole' /\ AckOutLast' /\ OutPath'
  BY <1>1, <1>3, <1>4 DEF LiveInv, StalledRead, ReadWhole, AckOutLast, OutPath, InFlight
<1> QED
  BY <1>5, <1>6, <1>7, <1>8 DEF LiveInv

\* What the handler does to the cursor: nothing, or it has come to the end,
\* or it sends the second packet of a reply whose first the host has taken.
LEMMA IsrInCursor ==
  ASSUME IInv, IsrIn, Live'
  PROVE  /\ Live /\ LiveInv /\ isr = "in" /\ isr' = "out"
         /\ UNCHANGED <<setup_fifo, out_fifo, out_enable, in_stall, pending, setup_packet, setup_length,
                        out_have, out_buffer, latched, pc, req, rx, xfer, stage, moved, recovering>>
         /\ \/ /\ UNCHANGED <<tx, in_queue>>
               /\ Unfinished /\ InIdle => "in" \notin latched
            \/ /\ tx' = Null /\ UNCHANGED in_queue
               /\ Active /\ InIdle /\ pc \notin {"cut", "load", "set_length"}
            \/ /\ Unfinished /\ Active /\ InIdle /\ ~Untouched /\ moved = MAX_BYTES
               /\ tx'.data = tx.data /\ tx'.length = Total /\ tx'.offset = MAX_BYTES
               /\ tx'.to_send = Total - MAX_BYTES /\ ~tx'.empty
               /\ in_queue' = <<[n |-> tx'.data, from |-> tx'.offset, len |-> tx'.to_send]>>
<1>1. /\ isr = "in" /\ isr' = "out"
      /\ IF "in" \in latched THEN process_tx ELSE UNCHANGED <<tx, in_queue>>
      /\ UNCHANGED <<setup_fifo, out_fifo, out_enable, in_stall, pending, setup_packet, setup_length,
                     out_have, out_buffer, latched, pc, req, rx, xfer, stage, moved, recovering, disturbed>>
  BY DEF IsrIn, mainVars, hostVars
<1>2. Live /\ LiveInv
  BY <1>1 DEF Live, IInv
<1>3. CASE "in" \notin latched
  BY <1>1, <1>2, <1>3
<1>4. CASE "in" \in latched /\ ~CanTransmit
  <2>1. UNCHANGED <<tx, in_queue>>
    BY <1>1, <1>4 DEF process_tx
  <2>2. Unfinished => Active
    <3>1. Unfinished => xfer.n # 0 /\ Total > 0
      BY <1>2, Packets, TotalFits DEF Unfinished, OfReply, LiveInv, SendSteps
    <3> QED
      BY <3>1, TotalFits DEF Unfinished, OfReply, Active
  <2> QED
    BY <1>1, <1>2, <1>4, <2>1, <2>2 DEF CanTransmit, Active
<1>5. CASE "in" \in latched /\ CanTransmit
  <2>1. pc \notin {"cut", "load", "set_length"} /\ Active /\ InIdle
    BY <1>2, <1>5 DEF CanTransmit, LiveInv, SendSteps, Active, IInv, Always, EventsRead
  <2>2. CASE Finished
    BY <1>1, <1>2, <1>5, <2>1, <2>2, NextOfFinished DEF process_tx, Null
  <2>3. CASE Unfinished
    <3> DEFINE t == NextPacket(tx)
    <3>1. /\ t.data = tx.data /\ t.length = Total /\ t.offset = MAX_BYTES
          /\ t.to_send = Total - MAX_BYTES /\ ~t.empty
      BY <2>3, NextOfUnfinished, Types DEF Unfinished, OfReply
    <3>2. tx' = t /\ in_queue' = <<[n |-> t.data, from |-> t.offset, len |-> t.to_send]>>
      BY <1>1, <1>5, <2>1, <3>1 DEF process_tx, LoadPacket, QueueIn, Active
    <3>3. moved = MAX_BYTES
      BY <2>1, <2>3 DEF Unfinished, InIdle
    <3>4. ~Untouched
      BY <1>2, <2>1, <2>3, NextOfUnfinished DEF LiveInv, NothingSent
    <3> HIDE DEF t
    <3> QED
      BY <1>1, <1>2, <2>1, <2>3, <3>1, <3>2, <3>3, <3>4
  <2> QED
    BY <1>2, <2>1, <2>2, <2>3 DEF LiveInv, ReplyCursor
<1> QED
  BY <1>3, <1>4, <1>5

\* Sending the next packet.
LEMMA IsrInLive ==
  ASSUME IInv, IsrIn, Live'
  PROVE  LiveInv'
<1>1. /\ Live /\ LiveInv /\ isr = "in" /\ isr' = "out"
      /\ UNCHANGED <<setup_fifo, out_fifo, out_enable, in_stall, pending, setup_packet, setup_length,
                     out_have, out_buffer, latched, pc, req, rx, xfer, stage, moved, recovering>>
  BY IsrInCursor
<1>2. /\ (Fresh' <=> Fresh) /\ (SetupDue' <=> SetupDue) /\ Total' = Total /\ Got' = Got
      /\ (Untouched' <=> Untouched)
  BY <1>1 DEF Fresh, SetupDue, Total, Got, Untouched
<1>3. CASE UNCHANGED <<tx, in_queue>> /\ (Unfinished /\ InIdle => "in" \notin latched)
  <2>1. /\ (Active' <=> Active) /\ (Finished' <=> Finished) /\ (InIdle' <=> InIdle)
        /\ (Stuck' <=> Stuck)
        /\ (First' <=> First)
    BY <1>1, <1>2, <1>3 DEF Active, Finished, InIdle, Stuck, SendWaits, RecvWaits, OutHave, First
  <2>2. SetupPath' /\ RequestTaken' /\ NothingSent' /\ SendSteps'
    BY <1>1, <1>2, <1>3, <2>1 DEF LiveInv, SetupPath, RequestTaken, NothingSent, SendSteps
  <2>3. ReplyCursor'
    BY <1>1, <1>2, <1>3, <2>1 DEF LiveInv, ReplyCursor, Unfinished, OfReply, InDue
  <2>4. InQueue' /\ StalledRead' /\ ReadWhole' /\ AckOutLast' /\ OutPath'
    BY <1>1, <1>2, <1>3, <2>1
       DEF LiveInv, InQueue, TxPacket, AckPacket, OfReply, StalledRead, ReadWhole,
                                  AckOutLast, OutPath, InFlight
  <2> QED
    BY <2>2, <2>3, <2>4 DEF LiveInv
<1>4. CASE tx' = Null /\ UNCHANGED in_queue /\ Active /\ InIdle /\ pc \notin {"cut", "load", "set_length"}
  <2>1. ~Active' /\ InIdle' /\ (Stuck' <=> Stuck)
    BY <1>1, <1>4 DEF Active, InIdle, Stuck, SendWaits, RecvWaits, OutHave, Null
  <2>2. SetupPath' /\ RequestTaken' /\ NothingSent' /\ SendSteps'
    BY <1>1, <1>2, <1>4, <2>1 DEF LiveInv, SetupPath, RequestTaken, NothingSent, SendSteps, Null
  <2>3. ReplyCursor' /\ InQueue' /\ StalledRead' /\ ReadWhole' /\ AckOutLast' /\ OutPath'
    BY <1>1, <1>2, <1>4, <2>1
       DEF LiveInv, ReplyCursor, InQueue, StalledRead, ReadWhole, AckOutLast, OutPath,
                                  InFlight
  <2> QED
    BY <2>2, <2>3 DEF LiveInv
<1>5. CASE /\ Unfinished /\ Active /\ InIdle /\ ~Untouched /\ moved = MAX_BYTES
           /\ tx'.data = tx.data /\ tx'.length = Total /\ tx'.offset = MAX_BYTES
           /\ tx'.to_send = Total - MAX_BYTES /\ ~tx'.empty
           /\ in_queue' = <<[n |-> tx'.data, from |-> tx'.offset, len |-> tx'.to_send]>>
  <2>1. Finished' /\ ~InIdle' /\ OfReply' /\ Active' /\ (Stuck' <=> Stuck)
    BY <1>1, <1>2, <1>5, Packets, TotalFits
       DEF Finished, InIdle, OfReply, Unfinished, Active, Stuck, SendWaits, RecvWaits, OutHave
  <2>2. stage # "data" => xfer.wLength = MAX_BYTES /\ Total = MAX_BYTES
    BY <1>5 DEF Unfinished, InIdle
  <2>3. TxPacket'
    BY <1>1, <1>2, <1>5, <2>1, <2>2, TotalFits, Packets DEF TxPacket
  <2>4. SetupPath' /\ RequestTaken' /\ NothingSent' /\ SendSteps'
    BY <1>1, <1>2, <1>5, <2>1
       DEF LiveInv, SetupPath, RequestTaken, NothingSent, SendSteps, Untouched, Active
  <2>5. StalledRead' /\ ReadWhole' /\ AckOutLast' /\ OutPath'
    BY <1>1, <1>2, <2>1 DEF LiveInv, StalledRead, ReadWhole, AckOutLast, OutPath, InFlight
  <2> QED
    BY <2>1, <2>3, <2>4, <2>5 DEF LiveInv, ReplyCursor, InQueue
<1> QED
  BY <1>3, <1>4, <1>5, IsrInCursor

\* A packet goes from the FIFO to out_buffer, if that is empty.
LEMMA IsrOutLive ==
  ASSUME IInv, IsrOut, Live'
  PROVE  LiveInv'
<1>1. /\ Live /\ LiveInv /\ isr = "out" /\ isr' = "ack"
      /\ UNCHANGED <<setup_fifo, in_queue, out_enable, in_stall, pending, setup_packet, setup_length, tx,
                     latched, pc, req, rx, xfer, stage, moved, recovering>>
  BY DEF IsrOut, mainVars, hostVars, IInv, Live
<1>2. \/ /\ out_fifo # <<>> /\ ~out_have
         /\ out_have' /\ out_buffer' = out_fifo[1] /\ out_fifo' = <<>>
      \/ UNCHANGED <<out_have, out_buffer, out_fifo>>
  BY DEF IsrOut, RxAccepts, OutHave
<1>3. /\ (Fresh' <=> Fresh) /\ (Stuck' <=> Stuck) /\ (SetupDue' <=> SetupDue) /\ (InDue' <=> InDue)
      /\ (Active' <=> Active) /\ (Finished' <=> Finished) /\ (InIdle' <=> InIdle)
      /\ (First' <=> First) /\ Total' = Total
  BY <1>1, <1>2
     DEF Fresh, Stuck, SendWaits, RecvWaits, OutHave, SetupDue, InDue, Active, Finished, InIdle,
                    First, Total
<1>4. Got' = Got /\ (Untouched' <=> Untouched)
  BY <1>1, <1>3 DEF Got, Untouched
<1>5. SetupPath' /\ RequestTaken' /\ NothingSent' /\ SendSteps'
  BY <1>1, <1>3, <1>4 DEF LiveInv, SetupPath, RequestTaken, NothingSent, SendSteps
<1>6. ReplyCursor' /\ InQueue' /\ StalledRead' /\ ReadWhole' /\ AckOutLast'
  BY <1>1, <1>3
     DEF LiveInv, ReplyCursor, Unfinished, OfReply, InQueue, TxPacket, AckPacket, StalledRead,
                    ReadWhole, AckOutLast
<1>7. OutPath'
  <2>1. \A p : InFlight(p)' <=> InFlight(p)
    BY <1>1, <1>4 DEF InFlight
  <2>2. CASE out_fifo # <<>> /\ ~out_have /\ out_have' /\ out_buffer' = out_fifo[1] /\ out_fifo' = <<>>
    BY <1>1, <1>3, <1>4, <2>1, <2>2 DEF LiveInv, OutPath, InFlight
  <2>3. CASE UNCHANGED <<out_have, out_buffer, out_fifo>>
    BY <1>1, <1>3, <1>4, <2>3 DEF LiveInv, OutPath, InFlight
  <2> QED
    BY <1>2, <2>2, <2>3
<1> QED
  BY <1>5, <1>6, <1>7 DEF LiveInv

\* Only events that have been acted on are acknowledged.
LEMMA IsrAckLive ==
  ASSUME IInv, IsrAck, Live'
  PROVE  LiveInv'
<1>1. /\ Live /\ LiveInv /\ isr = "ack" /\ isr' = "off" /\ latched' = {} /\ pending' = pending \ latched
      /\ UNCHANGED <<setup_fifo, in_queue, out_fifo, out_enable, in_stall, setup_packet, setup_length,
                     out_have, out_buffer, tx, pc, req, rx, xfer, stage, moved, recovering>>
  BY DEF IsrAck, AckEvents, WriteBack, drvVars, mainVars, hostVars, IInv, Live, Always, EventsRead
<1>2. /\ (Fresh' <=> Fresh) /\ (Stuck' <=> Stuck) /\ (SetupDue' <=> SetupDue) /\ (InDue' <=> InDue)
      /\ (Active' <=> Active) /\ (Finished' <=> Finished) /\ (InIdle' <=> InIdle)
      /\ (First' <=> First) /\ Total' = Total
  BY <1>1
     DEF Fresh, Stuck, SendWaits, RecvWaits, OutHave, SetupDue, InDue, Active, Finished, InIdle, First,
              Total
<1>3. Got' = Got /\ (Untouched' <=> Untouched)
  BY <1>1, <1>2 DEF Got, Untouched
<1>4. SetupPath' /\ RequestTaken' /\ NothingSent' /\ SendSteps'
  BY <1>1, <1>2, <1>3 DEF LiveInv, SetupPath, RequestTaken, NothingSent, SendSteps
<1>5. ReplyCursor' /\ InQueue' /\ StalledRead'
  BY <1>1, <1>2 DEF LiveInv, ReplyCursor, Unfinished, OfReply, InQueue, TxPacket, AckPacket, StalledRead
<1>6. ReadWhole' /\ AckOutLast' /\ OutPath'
  BY <1>1, <1>2, <1>3 DEF LiveInv, ReadWhole, AckOutLast, OutPath, InFlight
<1> QED
  BY <1>4, <1>5, <1>6 DEF LiveInv

\* A reset that does no harm leaves a device that waits for a request.
LEMMA IsrResetLive ==
  ASSUME IInv, IsrReset, Live'
  PROVE  LiveInv'
<1>1. /\ pc \in {"poll", "ack_out"} /\ stage = "idle" /\ recovering
      /\ UNCHANGED <<pc, req, rx, xfer, stage, moved, recovering>>
  BY DEF IsrReset, mainVars, hostVars, IInv, Live, Always, EventsRead, ResetBetween
<1>2. /\ setup_fifo' = <<>> /\ InIdle' /\ out_fifo' = <<>> /\ out_enable' /\ ~in_stall'
      /\ pending' = {} /\ isr' = "off" /\ latched' = {} /\ ~setup_length' /\ ~out_have'
      /\ tx'.length = 0
  BY Types DEF IsrReset, AckEvents, InIdle
<1>3. ~Fresh' /\ ~Stuck' /\ ~SetupDue' /\ ~Active' /\ ~Untouched'
  BY <1>1, <1>2 DEF Fresh, Stuck, SendWaits, RecvWaits, SetupDue, Active, Untouched
<1>4. SetupPath' /\ RequestTaken' /\ NothingSent' /\ SendSteps' /\ ReplyCursor'
  BY <1>1, <1>2, <1>3 DEF SetupPath, RequestTaken, NothingSent, SendSteps, ReplyCursor
<1>5. InQueue' /\ StalledRead' /\ ReadWhole' /\ AckOutLast' /\ OutPath'
  BY <1>1, <1>2, <1>3 DEF InQueue, StalledRead, ReadWhole, AckOutLast, OutPath
<1> QED
  BY <1>4, <1>5 DEF LiveInv

-----------------------------------------------------------------------------
(* The steps of the main thread. *)

\* What no step of the main thread changes.
MainKeeps ==
  UNCHANGED <<setup_fifo, out_fifo, pending, setup_packet, isr, latched, xfer, stage, moved, recovering,
              disturbed>>

\* What every step of the main thread finds.
LEMMA MainFrame ==
  ASSUME IInv, Main, Live'
  PROVE  /\ Live /\ LiveInv /\ MainRuns /\ MainKeeps /\ ~SetupDue' /\ ~InDue'
         /\ setup_fifo' = <<>> /\ out_fifo' = <<>>
<1>1. MainRuns /\ UnchangedInMain
  BY DEF Main, Poll, Dispatch, TakeLength, SendDrain, SendSetLength, SendCut, SendLoad, AckOut, AckIn, Recv,
         RecvReset,
         Detach, usb_poll
<1>2. MainKeeps
  BY <1>1 DEF UnchangedInMain, isrVars, hostVars, MainKeeps
<1>3. Live /\ LiveInv
  BY <1>2 DEF Live, IInv, MainKeeps
<1> QED
  BY <1>1, <1>2, <1>3, Quiet DEF MainKeeps, SetupDue, InDue, MainRuns

\* usb_poll takes the request on its way.
LEMMA PollLive ==
  ASSUME IInv, Poll \/ (Detach /\ DetachWait), Live'
  PROVE  LiveInv'
<1>1. /\ Live /\ LiveInv /\ MainRuns /\ MainKeeps /\ ~SetupDue' /\ ~InDue'
      /\ setup_fifo' = <<>> /\ out_fifo' = <<>>
      /\ setup_fifo = <<>> /\ out_fifo = <<>> /\ pending = {} /\ latched = {}
  BY MainFrame, Quiet DEF Main
<1>2. /\ pc \in {"poll", "detach"} /\ setup_length /\ ~setup_length' /\ pc' = "setup"
      /\ UNCHANGED <<in_queue, out_enable, in_stall, out_have, out_buffer, tx, req, rx>>
  BY DEF Poll, Detach, usb_poll
<1>3. Fresh /\ Fresh' /\ ~Stuck /\ ~Stuck' /\ Untouched /\ Untouched' /\ setup_packet = xfer /\ stage # "idle"
  BY <1>1, <1>2 DEF Fresh, Stuck, SendWaits, RecvWaits, Untouched, LiveInv, SetupPath
<1>4. Got' = Got /\ (Active' <=> Active) /\ (Finished' <=> Finished) /\ (InIdle' <=> InIdle)
  BY <1>1, <1>2, <1>3 DEF Got, Active, Finished, InIdle
<1>5. SetupPath' /\ RequestTaken' /\ NothingSent' /\ SendSteps' /\ ReplyCursor'
  BY <1>1, <1>2, <1>3, <1>4
     DEF MainKeeps, LiveInv, SetupPath, RequestTaken, NothingSent, SendSteps, ReplyCursor
<1>6. InQueue' /\ StalledRead' /\ ReadWhole' /\ AckOutLast'
  BY <1>1, <1>2, <1>3, <1>4
     DEF MainKeeps, LiveInv, NothingSent, InQueue, StalledRead, ReadWhole, AckOutLast, Total
<1>7. OutPath'
  BY <1>1, <1>2, <1>3, <1>4 DEF MainKeeps, LiveInv, OutPath, InFlight
<1> QED
  BY <1>5, <1>6, <1>7 DEF LiveInv

\* The rest of DFU_DETACH: reboot.
LEMMA RebootLive ==
  ASSUME IInv, Detach /\ ~DetachWait, Live'
  PROVE  LiveInv'
<1>1. /\ Live /\ LiveInv /\ MainRuns /\ MainKeeps /\ ~SetupDue' /\ ~InDue'
      /\ setup_fifo' = <<>> /\ out_fifo' = <<>>
      /\ setup_fifo = <<>> /\ out_fifo = <<>> /\ pending = {} /\ latched = {}
  BY MainFrame, Quiet DEF Main
<1>2. /\ pc = "detach" /\ pc' = "rebooted"
      /\ UNCHANGED <<in_queue, out_enable, in_stall, setup_length, out_have, out_buffer, tx, req, rx>>
  BY DEF Detach
<1>3. /\ (Fresh' <=> Fresh) /\ ~Stuck /\ Stuck' /\ (Untouched' <=> Untouched) /\ Total' = Total
      /\ (Active' <=> Active) /\ (Finished' <=> Finished) /\ (InIdle' <=> InIdle) /\ (First' <=> First)
  BY <1>1, <1>2
     DEF MainKeeps, Fresh, Stuck, SendWaits, RecvWaits, Untouched, Total, Active, Finished, InIdle,
                    First
<1>4. SetupPath' /\ RequestTaken' /\ NothingSent' /\ SendSteps'
  BY <1>1, <1>2, <1>3 DEF MainKeeps, LiveInv, SetupPath, RequestTaken, NothingSent, SendSteps
<1>5. ReplyCursor'
  BY <1>1, <1>2, <1>3, Quiet DEF MainKeeps, LiveInv, ReplyCursor, Unfinished, OfReply
<1>6. InQueue' /\ StalledRead' /\ ReadWhole' /\ AckOutLast' /\ OutPath'
  BY <1>1, <1>2, <1>3
     DEF MainKeeps, LiveInv, InQueue, TxPacket, AckPacket, OfReply, StalledRead, ReadWhole,
                          AckOutLast, OutPath
<1> QED
  BY <1>4, <1>5, <1>6 DEF LiveInv

\* The request the main thread begins to handle is the host's.
LEMMA HandlingBegins ==
  ASSUME IInv, Main, Live', pc \in {"setup", "length"},
         UNCHANGED <<in_queue, setup_length, out_have, out_buffer, tx>>,
         req' = xfer, rx'.offset = 0, in_stall' = (in_stall \/ xfer.kind = "get_stalled"),
         pc' \in {"send", "recv", "ack_in", "poll", "detach"},
         pc' \in {"poll", "detach"} <=> xfer.kind \in {"get_stalled", "set_stalled"},
         xfer.kind = "dnload" <=> pc' = "recv"
  PROVE  LiveInv'
<1>1. /\ Live /\ LiveInv /\ MainRuns /\ MainKeeps /\ ~SetupDue' /\ ~InDue'
      /\ setup_fifo' = <<>> /\ out_fifo' = <<>>
      /\ setup_fifo = <<>> /\ out_fifo = <<>> /\ pending = {} /\ latched = {}
  BY MainFrame, Quiet
<1>2. UNCHANGED <<in_queue, setup_length, out_have, out_buffer, tx>>
  OBVIOUS
<1>3. /\ stage # "idle" /\ ~setup_length /\ Fresh /\ ~Stuck /\ Untouched
      /\ xfer.kind \in Kinds /\ ~recovering
  BY <1>1, Types
     DEF LiveInv, SetupPath, Fresh, Stuck, SendWaits, RecvWaits, Untouched, IInv, Always, HostAgrees
<1>4. req' = xfer /\ rx'.offset = 0 /\ in_stall' = (in_stall \/ xfer.kind = "get_stalled")
  OBVIOUS
<1>5. /\ pc' \in {"send", "recv", "ack_in", "poll", "detach"}
      /\ pc' \in {"poll", "detach"} <=> xfer.kind \in {"get_stalled", "set_stalled"}
      /\ xfer.kind = "dnload" <=> pc' = "recv"
  OBVIOUS
<1>6. ~Fresh' /\ InIdle /\ InIdle' /\ ~in_stall /\ ~tx.empty /\ (~Active \/ Finished)
  BY <1>1, <1>2, <1>3, <1>5 DEF Fresh, LiveInv, NothingSent, InIdle
<1>7. (Active' <=> Active) /\ (Finished' <=> Finished) /\ Got' = 0 /\ Got = 0
  BY <1>2, <1>3, <1>4, <1>6 DEF Active, Finished, Got
<1>8. SetupPath' /\ RequestTaken' /\ SendSteps' /\ ReplyCursor' /\ InQueue'
  BY <1>1, <1>2, <1>3, <1>4, <1>5, <1>6, <1>7
     DEF MainKeeps, LiveInv, SetupPath, RequestTaken, SendSteps, ReplyCursor, InQueue
<1>9. NothingSent'
  <2>1. in_stall' => pc' \in {"poll", "detach"}
    BY <1>4, <1>5, <1>6
  <2>2. Untouched' => ~in_stall'
    BY <1>6, <2>1 DEF Untouched
  <2> QED
    BY <1>1, <1>2, <1>3, <1>5, <1>6, <1>7, <2>2 DEF MainKeeps, LiveInv, NothingSent
<1>10. StalledRead' /\ ReadWhole' /\ AckOutLast'
  BY <1>1, <1>3, <1>4, <1>5, <1>6 DEF MainKeeps, LiveInv, StalledRead, ReadWhole, AckOutLast, Total
<1>11. OutPath'
  <2>1. req' = xfer /\ (pc' = "ack_in" => xfer.kind # "dnload")
    BY <1>4, <1>5
  <2> QED
    BY <1>1, <1>2, <1>3, <1>5, <1>7, <2>1 DEF MainKeeps, LiveInv, OutPath, InFlight
<1> QED
  BY <1>8, <1>9, <1>10, <1>11 DEF LiveInv

\* A request whose wLength is needed is still on its way.
LEMMA DispatchLive ==
  ASSUME IInv, Dispatch, Live'
  PROVE  LiveInv'
<1>1. /\ Live /\ LiveInv /\ MainRuns /\ MainKeeps /\ ~SetupDue' /\ ~InDue'
      /\ setup_fifo' = <<>> /\ out_fifo' = <<>>
      /\ setup_fifo = <<>> /\ out_fifo = <<>> /\ pending = {} /\ latched = {}
  BY MainFrame, Quiet DEF Main
<1>2. pc = "setup" /\ UNCHANGED <<in_queue, setup_length, out_have, out_buffer, tx>>
  BY DEF Dispatch
<1>3. /\ setup_packet = xfer /\ stage # "idle" /\ ~setup_length /\ Fresh /\ ~Stuck /\ Untouched
      /\ xfer.kind \in Kinds /\ home \in {"poll", "detach"}
  BY <1>1, <1>2, Types DEF LiveInv, SetupPath, Fresh, Stuck, SendWaits, RecvWaits, Untouched
<1>4. /\ req' = xfer /\ rx'.offset = 0 /\ in_stall' = (in_stall \/ xfer.kind = "get_stalled")
      /\ pc' = CASE xfer.kind \in {"get", "dnload"} -> "length"
                 [] xfer.kind = "getstatus_reset" -> "send"
                 [] xfer.kind \in {"get_stalled", "set_stalled"} -> home
                 [] xfer.kind \in {"set", "set_address", "detach"} -> "ack_in"
  BY <1>3 DEF Dispatch
<1>5. CASE xfer.kind \notin {"get", "dnload"}
  <2>1. /\ pc' \in {"send", "recv", "ack_in", "poll", "detach"}
        /\ pc' \in {"poll", "detach"} <=> xfer.kind \in {"get_stalled", "set_stalled"}
        /\ xfer.kind = "dnload" <=> pc' = "recv"
    BY <1>3, <1>4, <1>5 DEF Kinds
  <2> QED
    BY <1>2, <1>4, <2>1, HandlingBegins DEF Main
<1>6. CASE xfer.kind \in {"get", "dnload"}
  <2>1. pc' = "length" /\ in_stall' = in_stall /\ in_stall = FALSE
    <3>1. pc' = "length" /\ xfer.kind # "get_stalled"
      BY <1>4, <1>6
    <3>2. ~in_stall /\ in_stall \in BOOLEAN
      BY <1>1, <1>3 DEF LiveInv, NothingSent, IInv, UsbTypeOK
    <3> QED
      BY <1>4, <3>1, <3>2
  <2>2. Fresh' /\ ~Stuck' /\ Untouched'
    BY <2>1 DEF Fresh, Stuck, SendWaits, RecvWaits, Untouched
  <2>3. Got' = Got /\ (Active' <=> Active) /\ (Finished' <=> Finished) /\ (InIdle' <=> InIdle)
    BY <1>2, <1>3, <2>2 DEF Got, Active, Finished, InIdle
  <2>4. SetupPath' /\ RequestTaken' /\ NothingSent' /\ SendSteps' /\ ReplyCursor'
    BY <1>1, <1>2, <1>3, <1>4, <2>1, <2>2, <2>3
       DEF MainKeeps, LiveInv, SetupPath, RequestTaken, NothingSent, SendSteps, ReplyCursor
  <2>5. InQueue' /\ StalledRead' /\ ReadWhole' /\ AckOutLast'
    BY <1>1, <1>2, <1>3, <2>1, <2>2, <2>3
       DEF MainKeeps, LiveInv, NothingSent, InQueue, StalledRead, ReadWhole, AckOutLast, Total
  <2>6. OutPath'
    BY <1>1, <1>2, <1>3, <2>1, <2>2, <2>3 DEF MainKeeps, LiveInv, OutPath, InFlight
  <2> QED
    BY <2>4, <2>5, <2>6 DEF LiveInv
<1> QED
  BY <1>5, <1>6

\* The wLength that is read is that of the request.
LEMMA TakeLengthLive ==
  ASSUME IInv, TakeLength, Live'
  PROVE  LiveInv'
<1>1. Live /\ LiveInv
  BY MainFrame DEF Main
<1>2. /\ pc = "length" /\ UNCHANGED <<in_queue, setup_length, out_have, out_buffer, tx, in_stall>>
      /\ req' = [req EXCEPT !.wLength = setup_packet.wLength] /\ rx'.offset = 0
      /\ pc' = CASE req.kind = "get" -> "send"
                 [] req.kind = "dnload" /\ setup_packet.wLength > 0 -> "recv"
                 [] OTHER -> "ack_in"
  BY DEF TakeLength
<1>3. setup_packet = xfer /\ req = xfer /\ xfer.kind \in {"get", "dnload"}
  BY <1>1, <1>2 DEF LiveInv, SetupPath, IInv, Always, ThreadAgrees
<1>4. req' = xfer
  <2>1. req \in ReadRequest
    BY DEF IInv, UsbTypeOK
  <2> QED
    BY <1>2, <1>3, <2>1 DEF ReadRequest
<1>5. xfer.kind = "dnload" => xfer.wLength > 0
  BY RequestAssumption DEF IInv, UsbTypeOK, Request, NoRequest
<1>6. pc' = IF xfer.kind = "dnload" THEN "recv" ELSE "send"
  BY <1>2, <1>3, <1>5
<1>7. in_stall' = (in_stall \/ xfer.kind = "get_stalled")
  BY <1>2, <1>3 DEF IInv, UsbTypeOK
<1> QED
  BY <1>2, <1>3, <1>4, <1>6, <1>7, HandlingBegins DEF Main

\* What the loop of usb_send does to the cursor of an older reply: drops it
\* where it has been sent, and waits for ever where it has no bytes.
LEMMA SendDrainLive ==
  ASSUME IInv, SendDrain, Live'
  PROVE  LiveInv'
<1>1. /\ Live /\ LiveInv /\ MainRuns /\ MainKeeps /\ ~SetupDue' /\ ~InDue'
      /\ setup_fifo' = <<>> /\ out_fifo' = <<>>
      /\ setup_fifo = <<>> /\ out_fifo = <<>> /\ pending = {} /\ latched = {}
  BY MainFrame, Quiet DEF Main
<1>2. pc = "send" /\ UNCHANGED <<out_enable, in_stall, setup_length, out_have, out_buffer, req, rx>>
  BY DEF SendDrain
<1>3. InIdle /\ ~in_stall /\ (~Active \/ Finished) /\ Untouched /\ ~tx.empty /\ Stuck \in BOOLEAN
  BY <1>1, <1>2 DEF LiveInv, NothingSent, Untouched, Stuck
<1>4. \/ tx' = Null /\ pc' = "send" /\ UNCHANGED in_queue /\ ~Stuck
      \/ UNCHANGED <<tx, in_queue>> /\ pc' = "send"
      \/ /\ tx.data = 0 /\ tx.length = 0 /\ tx'.data = req.n /\ tx'.length = 0 /\ tx'.empty = tx.empty
         /\ pc' = "set_length" /\ UNCHANGED in_queue /\ ~Stuck
  <2>1. CASE StillSending /\ CanTransmit
    <3>1. Finished /\ ~Stuck
      BY <1>2, <1>3, <2>1 DEF CanTransmit, Active, Stuck, SendWaits, RecvWaits
    <3> QED
      BY <2>1, <3>1, NextOfFinished DEF SendDrain, process_tx, Null
  <2>2. CASE StillSending /\ ~CanTransmit
    BY <1>2, <2>2 DEF SendDrain, process_tx
  <2>3. CASE ~StillSending
    <3>1. /\ tx.data = 0 /\ tx.length = 0 /\ tx' = [tx EXCEPT !.data = req.n] /\ pc' = "set_length"
          /\ UNCHANGED in_queue
      BY <2>3 DEF StillSending, SendDrain
    <3> QED
      BY <1>2, <3>1, Types DEF Stuck, SendWaits, RecvWaits
  <2> QED
    BY <2>1, <2>2, <2>3
<1>5. /\ (Fresh' <=> Fresh) /\ InIdle' /\ Untouched' /\ (Stuck' => Stuck) /\ Got' = Got
      /\ (~Active' \/ Finished') /\ ~tx'.empty /\ pc' \notin {"cut", "load"}
  BY <1>1, <1>2, <1>3, <1>4
     DEF MainKeeps, Fresh, InIdle, Untouched, Stuck, SendWaits, RecvWaits, OutHave, Got, Active,
         Finished, Null
<1>6. (Stuck => Stuck') /\ (~Stuck => req = xfer /\ stage # "idle" /\ ~Fresh)
  BY <1>1, <1>2, <1>4 DEF LiveInv, RequestTaken, Stuck, SendWaits, RecvWaits
<1>7. SetupPath' /\ RequestTaken'
  BY <1>1, <1>2, <1>4, <1>5, <1>6 DEF MainKeeps, LiveInv, SetupPath, RequestTaken
<1>8. NothingSent' /\ ReplyCursor' /\ InQueue'
  BY <1>1, <1>2, <1>3, <1>5 DEF MainKeeps, LiveInv, NothingSent, ReplyCursor, InQueue
<1>9. SendSteps'
  <2>1. /\ tx'.data = 0 => tx'.length = 0
        /\ pc' = "set_length" => tx'.data = req'.n /\ tx'.length = 0
        /\ pc' \notin {"cut", "load"}
    BY <1>1, <1>2, <1>4, <1>5 DEF LiveInv, SendSteps, Null
  <2> QED
    BY <2>1 DEF SendSteps
<1>10. StalledRead' /\ ReadWhole' /\ AckOutLast'
  BY <1>1, <1>2, <1>3, <1>4 DEF MainKeeps, LiveInv, StalledRead, ReadWhole, AckOutLast, Total
<1>11. OutPath'
  BY <1>1, <1>2, <1>3, <1>4, <1>5, <1>6, Types
     DEF MainKeeps, LiveInv, OutPath, InFlight, IInv, Always, ThreadAgrees
<1> QED
  BY <1>7, <1>8, <1>9, <1>10, <1>11 DEF LiveInv

\* The cursor is set to the beginning of the reply.
LEMMA SendSetLengthLive ==
  ASSUME IInv, SendSetLength, Live'
  PROVE  LiveInv'
<1>1. /\ Live /\ LiveInv /\ MainRuns /\ MainKeeps /\ ~SetupDue' /\ ~InDue'
      /\ setup_fifo' = <<>> /\ out_fifo' = <<>>
      /\ setup_fifo = <<>> /\ out_fifo = <<>> /\ pending = {} /\ latched = {}
  BY MainFrame, Quiet DEF Main
<1>2. /\ pc = "set_length" /\ pc' = "cut" /\ tx' = NewCursor
      /\ UNCHANGED <<in_queue, out_enable, in_stall, setup_length, out_have, out_buffer, req, rx>>
  BY DEF SendSetLength
<1>3. /\ req = xfer /\ xfer.n # 0 /\ stage # "idle" /\ ~Fresh /\ ~setup_length /\ InIdle /\ ~in_stall
      /\ Untouched /\ ~Stuck
  BY <1>1, <1>2, Working DEF Stuck, SendWaits, RecvWaits
<1>4. /\ tx'.data = tx.data /\ tx.data = req.n /\ tx'.offset = 0 /\ tx'.to_send = 0
      /\ tx'.length = Total /\ ~tx'.empty
  <2>1. ReplyLength = Total
    <3>1. xfer.reply \in Nat /\ xfer.wLength \in Nat
      BY Types
    <3> QED
      BY <1>3, <3>1, StatusWhole DEF ReplyLength, Total, Smaller
  <2> QED
    BY <1>1, <1>2, <1>3, <2>1, Types DEF NewCursor, LiveInv, SendSteps, NothingSent
<1>5. ~Fresh' /\ InIdle' /\ Untouched' /\ ~Stuck' /\ Got' = Got /\ Total' = Total
  BY <1>1, <1>2, <1>3 DEF MainKeeps, Fresh, InIdle, Untouched, Stuck, SendWaits, RecvWaits, Got, Total
<1>6. SetupPath' /\ RequestTaken' /\ NothingSent' /\ SendSteps' /\ ReplyCursor'
  BY <1>1, <1>2, <1>3, <1>4, <1>5
     DEF MainKeeps, LiveInv, SetupPath, RequestTaken, NothingSent, SendSteps, ReplyCursor
<1>7. InQueue' /\ StalledRead' /\ ReadWhole' /\ AckOutLast'
  BY <1>1, <1>2, <1>3, <1>5 DEF MainKeeps, LiveInv, InQueue, StalledRead, ReadWhole, AckOutLast
<1>8. OutPath'
  BY <1>1, <1>2, <1>3, <1>5 DEF MainKeeps, LiveInv, OutPath, InFlight, IInv, Always, ThreadAgrees
<1> QED
  BY <1>6, <1>7, <1>8 DEF LiveInv

\* The cursor is moved to the first packet, if there is one.
LEMMA SendCutLive ==
  ASSUME IInv, SendCut, Live'
  PROVE  LiveInv'
<1>1. /\ Live /\ LiveInv /\ MainRuns /\ MainKeeps /\ ~SetupDue' /\ ~InDue'
      /\ setup_fifo' = <<>> /\ out_fifo' = <<>>
      /\ setup_fifo = <<>> /\ out_fifo = <<>> /\ pending = {} /\ latched = {}
  BY MainFrame, Quiet DEF Main
<1>2. /\ pc = "cut"
      /\ UNCHANGED <<in_queue, out_enable, in_stall, setup_length, out_have, out_buffer, req, rx>>
  BY DEF SendCut
<1>3. /\ req = xfer /\ xfer.n # 0 /\ stage # "idle" /\ ~Fresh /\ ~setup_length /\ InIdle /\ ~in_stall
      /\ Untouched /\ ~Stuck /\ xfer.kind \in {"get", "getstatus_reset"}
  BY <1>1, <1>2, Working DEF Stuck, SendWaits, RecvWaits, IInv, Always, ThreadAgrees
<1>4. tx.data = xfer.n /\ tx.length = Total /\ tx.offset = 0 /\ tx.to_send = 0 /\ tx.empty = FALSE
  BY <1>1, <1>2, <1>3, Types DEF LiveInv, SendSteps, NothingSent
<1>5. \/ UNCHANGED tx /\ Total = 0 /\ pc' \in {"ack_out", "recv_reset"}
      \/ pc' = "load" /\ First' /\ Total > 0 /\ Active'
  <2>1. CASE ~CanTransmit
    BY <1>3, <1>4, <2>1 DEF SendCut, CanTransmit, AfterSend
  <2>2. CASE CanTransmit
    <3>1. tx' = NextPacket(tx) /\ pc' = "load" /\ Total \in Nat /\ Total > 0
      BY <1>4, <2>2, TotalFits DEF SendCut, CanTransmit
    <3>2. tx = [data |-> xfer.n, length |-> Total, offset |-> 0, to_send |-> 0, empty |-> FALSE]
      BY <1>4, Types
    <3>3. /\ tx'.data = xfer.n /\ tx'.length = Total /\ tx'.offset = 0
          /\ tx'.to_send = Smaller(MAX_BYTES, Total) /\ (tx'.empty <=> Total = MAX_BYTES)
      <4>3. CASE Total > MAX_BYTES
        <5>1. tx' = [tx EXCEPT !.offset = 0, !.to_send = MAX_BYTES, !.empty = FALSE]
          BY <1>4, <3>1, <4>3, Packets DEF NextPacket
        <5>2. Smaller(MAX_BYTES, Total) = MAX_BYTES /\ Total # MAX_BYTES
          BY <3>1, <4>3, Packets DEF Smaller
        <5>3. /\ tx'.data = xfer.n /\ tx'.length = Total /\ tx'.offset = 0
              /\ tx'.to_send = MAX_BYTES /\ tx'.empty = FALSE
          BY <3>2, <5>1
        <5> QED
          BY <5>2, <5>3
      <4>4. CASE Total = MAX_BYTES
        <5>1. tx' = [tx EXCEPT !.offset = 0, !.to_send = MAX_BYTES, !.empty = TRUE]
          BY <1>4, <3>1, <4>4, Packets DEF NextPacket
        <5> QED
          BY <3>1, <3>2, <4>4, <5>1, Packets DEF Smaller
      <4>5. CASE Total < MAX_BYTES
        <5>1. /\ tx.length - (tx.offset + tx.to_send) = Total /\ tx.offset + tx.to_send = 0
              /\ 0 < Total /\ Total < MAX_BYTES /\ Total \in Nat
          BY <1>4, <3>1, <4>5
        <5>2. tx' = [tx EXCEPT !.offset = tx.offset + tx.to_send,
                               !.to_send = tx.length - (tx.offset + tx.to_send), !.empty = FALSE]
          BY <1>4, <3>1, <5>1, Packets DEF NextPacket
        <5>3. Smaller(MAX_BYTES, Total) = Total /\ Total # MAX_BYTES
          BY <5>1, Packets DEF Smaller
        <5>4. /\ tx'.data = xfer.n /\ tx'.length = Total /\ tx'.offset = 0
              /\ tx'.to_send = Total /\ tx'.empty = FALSE
          BY <3>2, <5>1, <5>2
        <5> QED
          BY <5>3, <5>4
      <4> QED
        BY <3>1, <4>3, <4>4, <4>5, Packets
    <3> QED
      BY <1>1, <1>3, <3>1, <3>3 DEF MainKeeps, First, Total, Active
  <2> QED
    BY <2>1, <2>2
<1>6. ~Fresh' /\ InIdle' /\ Got' = Got /\ Total' = Total
  BY <1>1, <1>2, <1>3, <1>5 DEF MainKeeps, Fresh, InIdle, Got, Total
<1>7. CASE UNCHANGED tx /\ Total = 0 /\ pc' \in {"ack_out", "recv_reset"}
  <2>1. ~Untouched' /\ ~Active' /\ (Stuck' <=> pc' = "recv_reset")
    BY <1>4, <1>6, <1>7 DEF Untouched, Active, Stuck, SendWaits, RecvWaits
  <2>2. SetupPath' /\ RequestTaken' /\ NothingSent' /\ SendSteps' /\ ReplyCursor' /\ InQueue'
    BY <1>1, <1>2, <1>3, <1>4, <1>6, <1>7, <2>1
       DEF MainKeeps, LiveInv, SetupPath, RequestTaken, NothingSent, SendSteps, ReplyCursor, InQueue
  <2>3. StalledRead' /\ ReadWhole' /\ AckOutLast' /\ OutPath'
    BY <1>1, <1>2, <1>3, <1>6, <1>7, <2>1
       DEF MainKeeps, LiveInv, StalledRead, ReadWhole, AckOutLast, OutPath, InFlight
  <2> QED
    BY <2>2, <2>3 DEF LiveInv
<1>8. CASE pc' = "load" /\ First' /\ Total > 0 /\ Active'
  <2>1. Untouched' /\ ~Stuck' /\ tx'.data # 0
    BY <1>8 DEF Untouched, Stuck, SendWaits, RecvWaits, Active
  <2>2. SetupPath' /\ RequestTaken' /\ NothingSent' /\ SendSteps' /\ ReplyCursor' /\ InQueue'
    BY <1>1, <1>2, <1>3, <1>6, <1>8, <2>1
       DEF MainKeeps, LiveInv, SetupPath, RequestTaken, NothingSent, SendSteps, ReplyCursor, InQueue
  <2>3. StalledRead' /\ ReadWhole' /\ AckOutLast' /\ OutPath'
    BY <1>1, <1>2, <1>3, <1>6, <1>8, <2>1
       DEF MainKeeps, LiveInv, StalledRead, ReadWhole, AckOutLast, OutPath, InFlight
  <2> QED
    BY <2>2, <2>3 DEF LiveInv
<1> QED
  BY <1>5, <1>7, <1>8


\* The first packet of the reply is queued.
LEMMA SendLoadLive ==
  ASSUME IInv, SendLoad, Live'
  PROVE  LiveInv'
<1>1. /\ Live /\ LiveInv /\ MainRuns /\ MainKeeps /\ ~SetupDue' /\ ~InDue'
      /\ setup_fifo' = <<>> /\ out_fifo' = <<>>
      /\ setup_fifo = <<>> /\ out_fifo = <<>> /\ pending = {} /\ latched = {}
  BY MainFrame, Quiet DEF Main
<1>2. /\ pc = "load" /\ LoadPacket(tx) /\ pc' = AfterSend
      /\ UNCHANGED <<out_enable, in_stall, setup_length, out_have, out_buffer, tx, req, rx>>
  BY DEF SendLoad
<1>3. /\ req = xfer /\ xfer.n # 0 /\ stage # "idle" /\ ~Fresh /\ ~setup_length /\ InIdle /\ ~in_stall
      /\ Untouched /\ ~Stuck /\ xfer.kind \in {"get", "getstatus_reset"} /\ ~recovering
  BY <1>1, <1>2, Working DEF Stuck, SendWaits, RecvWaits, IInv, Always, ThreadAgrees
<1>4. First /\ Total > 0 /\ tx.data # 0 /\ xfer.wLength > 0
  BY <1>1, <1>2, <1>3, TotalFits, Types DEF LiveInv, SendSteps, First
<1>5. in_queue' = <<[n |-> tx.data, from |-> 0, len |-> tx.to_send]>> /\ ~InIdle'
  BY <1>2, <1>3, <1>4 DEF LoadPacket, QueueIn, First, InIdle
<1>6. stage = "data" /\ moved = 0
  BY <1>1, <1>3, <1>4 DEF LiveInv, NothingSent, InKinds
<1>7. /\ pc' = (IF xfer.kind = "getstatus_reset" THEN "recv_reset" ELSE "ack_out")
      /\ pc' \in {"recv_reset", "ack_out"}
  BY <1>2, <1>3 DEF AfterSend
<1>8. /\ ~Fresh' /\ ~Untouched' /\ First' /\ Total' = Total /\ (Active' <=> Active)
      /\ (Finished' <=> Finished)
      /\ Got' = Got /\ (Stuck' <=> pc' = "recv_reset") /\ OfReply'
  BY <1>1, <1>2, <1>3, <1>4, <1>7
     DEF MainKeeps, Fresh, Untouched, First, Total, Active, Finished, Got, Stuck, SendWaits,
         RecvWaits, OfReply
<1>9. TxPacket'
  <2>1. Active /\ tx.offset = 0
    BY <1>4, TotalFits DEF Active, First
  <2> QED
    BY <1>1, <1>2, <1>5, <1>6, <1>8, <2>1 DEF MainKeeps, TxPacket
<1>10. Finished' \/ Unfinished'
  <2>1. CASE Total < MAX_BYTES
    <3>1. tx.offset = 0 /\ tx.to_send = Total /\ tx.length = Total /\ ~tx.empty
      BY <2>1, <1>4, TotalFits, Packets DEF First, Smaller
    <3>2. Finished
      BY <3>1, TotalFits DEF Finished
    <3> QED
      BY <3>2, <1>8
  <2>2. CASE MAX_BYTES <= Total
    <3>1. tx.offset = 0
      BY <1>4 DEF First
    <3> QED
      BY <1>1, <1>2, <1>5, <1>6, <1>8, <2>2, <3>1 DEF MainKeeps, Unfinished
  <2> QED
    BY <2>1, <2>2, TotalFits, Packets
<1>11. SetupPath' /\ RequestTaken' /\ NothingSent' /\ SendSteps'
  BY <1>1, <1>2, <1>3, <1>4, <1>7, <1>8
     DEF MainKeeps, LiveInv, SetupPath, RequestTaken, NothingSent, SendSteps
<1>12. ReplyCursor' /\ InQueue' /\ StalledRead' /\ ReadWhole' /\ AckOutLast'
  BY <1>1, <1>2, <1>3, <1>6, <1>7, <1>9, <1>10
     DEF MainKeeps, ReplyCursor, InQueue, StalledRead, ReadWhole, AckOutLast
<1>13. OutPath'
  BY <1>1, <1>2, <1>3, <1>7, <1>8 DEF MainKeeps, LiveInv, OutPath, InFlight
<1> QED
  BY <1>11, <1>12, <1>13 DEF LiveInv

\* usb_ack(0) throws away what a host may have sent already, which is the
\* empty packet of the status stage.
LEMMA AckOutLive ==
  ASSUME IInv, AckOut, Live'
  PROVE  LiveInv'
<1>1. /\ Live /\ LiveInv /\ MainRuns /\ MainKeeps /\ ~SetupDue' /\ ~InDue'
      /\ setup_fifo' = <<>> /\ out_fifo' = <<>>
      /\ setup_fifo = <<>> /\ out_fifo = <<>> /\ pending = {} /\ latched = {}
  BY MainFrame, Quiet DEF Main
<1>2. /\ pc = "ack_out" /\ ~out_have' /\ pc' = home /\ pc' \in {"poll", "detach"}
      /\ UNCHANGED <<in_queue, in_stall, setup_length, out_buffer, tx, req, rx>>
  BY Types DEF AckOut, usb_ack_out
<1>3. /\ ~Stuck /\ ~Stuck' /\ (Fresh' <=> Fresh) /\ (Untouched' <=> Untouched)
      /\ Got' = Got /\ Total' = Total
  BY <1>1, <1>2
     DEF MainKeeps, LiveInv, SetupPath, Fresh, Stuck, SendWaits, RecvWaits, Untouched, Got, Total
<1>4. (Active' <=> Active) /\ (Finished' <=> Finished) /\ (InIdle' <=> InIdle) /\ (First' <=> First)
  BY <1>1, <1>2 DEF MainKeeps, Active, Finished, InIdle, First, Total
<1>5. xfer.kind = "dnload" /\ stage # "idle" => Fresh /\ moved = 0
  BY <1>1, <1>2, <1>3 DEF IInv, Always, ThreadAgrees, HostAgrees, LiveInv, RequestTaken, AckOutLast
<1>6. SetupPath' /\ RequestTaken' /\ NothingSent' /\ SendSteps'
  BY <1>1, <1>2, <1>3, <1>4 DEF MainKeeps, LiveInv, SetupPath, RequestTaken, NothingSent, SendSteps
<1>7. ReplyCursor'
  BY <1>1, <1>2, <1>3, <1>4, Quiet DEF MainKeeps, LiveInv, ReplyCursor, Unfinished, OfReply
<1>8. InQueue' /\ StalledRead' /\ ReadWhole' /\ AckOutLast'
  BY <1>1, <1>2, <1>3, <1>4
     DEF MainKeeps, LiveInv, InQueue, TxPacket, AckPacket, OfReply, StalledRead, ReadWhole, AckOutLast
<1>9. OutPath'
  BY <1>1, <1>2, <1>3, <1>5 DEF MainKeeps, OutPath, Got
<1> QED
  BY <1>6, <1>7, <1>8, <1>9 DEF LiveInv

\* usb_ack(1) acknowledges a request that has been handled.
LEMMA AckInLive ==
  ASSUME IInv, AckIn, Live'
  PROVE  LiveInv'
<1>1. /\ Live /\ LiveInv /\ MainRuns /\ MainKeeps /\ ~SetupDue' /\ ~InDue'
      /\ setup_fifo' = <<>> /\ out_fifo' = <<>>
      /\ setup_fifo = <<>> /\ out_fifo = <<>> /\ pending = {} /\ latched = {}
  BY MainFrame, Quiet DEF Main
<1>2. /\ pc = "ack_in" /\ usb_ack_in /\ pc' \in {"poll", "detach"}
      /\ UNCHANGED <<out_enable, in_stall, setup_length, out_have, out_buffer, tx, req, rx>>
  BY Types DEF AckIn
<1>3. /\ req = xfer /\ xfer.n # 0 /\ stage # "idle" /\ ~Fresh /\ ~setup_length /\ InIdle /\ ~in_stall
      /\ Untouched /\ ~Stuck
  BY <1>1, <1>2, Working DEF Stuck, SendWaits, RecvWaits
<1>4. /\ ~Active \/ Finished
      /\ xfer.kind \notin InKinds
      /\ xfer.kind = "dnload" => rx.offset = xfer.wLength /\ moved = xfer.wLength
  BY <1>1, <1>2, <1>3 DEF LiveInv, NothingSent, IInv, Always, ThreadAgrees, InKinds, OutPath
<1>5. stage = "status"
  <2>1. stage \in {"idle", "data", "status"} /\ xfer.wLength \in Nat /\ moved \in Nat
    BY Types
  <2>2. stage = "data" => xfer.wLength > 0 /\ moved < xfer.wLength
    BY <2>1 DEF IInv, Always, HostAgrees
  <2>3. stage = "data" => xfer.kind = "dnload"
    BY <1>4, <2>2, DataOut
  <2> QED
    BY <1>3, <1>4, <2>1, <2>2, <2>3
<1>6. in_queue' = <<Zlp>> /\ ~InIdle'
  BY <1>2, <1>3 DEF usb_ack_in, QueueIn, InIdle
<1>7. /\ ~Fresh' /\ ~Stuck' /\ ~Untouched' /\ Got' = Got /\ (Active' <=> Active)
      /\ (Finished' <=> Finished)
  BY <1>1, <1>2, <1>3
     DEF MainKeeps, Fresh, Stuck, SendWaits, RecvWaits, Untouched, Got, Active, Finished
<1>8. AckPacket'
  BY <1>1, <1>2, <1>3, <1>4, <1>5, <1>6, <1>7 DEF MainKeeps, AckPacket
<1>9. SetupPath' /\ RequestTaken' /\ NothingSent' /\ SendSteps'
  BY <1>1, <1>2, <1>3, <1>7 DEF MainKeeps, LiveInv, SetupPath, RequestTaken, NothingSent, SendSteps
<1>10. ReplyCursor' /\ InQueue' /\ StalledRead' /\ ReadWhole' /\ AckOutLast'
  BY <1>1, <1>2, <1>3, <1>4, <1>7, <1>8
     DEF MainKeeps, ReplyCursor, InQueue, StalledRead, ReadWhole, AckOutLast
<1>11. OutPath'
  BY <1>1, <1>2, <1>3, <1>6, <1>7 DEF MainKeeps, LiveInv, OutPath, InFlight
<1> QED
  BY <1>9, <1>10, <1>11 DEF LiveInv

\* usb_recv takes the packet that goes on where the block has got to, or an
\* old packet without bytes.
LEMMA RecvLive ==
  ASSUME IInv, Recv, Live'
  PROVE  LiveInv'
<1>1. /\ Live /\ LiveInv /\ MainRuns /\ MainKeeps /\ ~SetupDue' /\ ~InDue'
      /\ setup_fifo' = <<>> /\ out_fifo' = <<>>
      /\ setup_fifo = <<>> /\ out_fifo = <<>> /\ pending = {} /\ latched = {}
  BY MainFrame, Quiet DEF Main
<1>2. /\ pc = "recv" /\ out_have /\ ~out_have' /\ out_enable' /\ pc' \in {"recv", "ack_in"}
      /\ UNCHANGED <<in_queue, in_stall, setup_length, out_buffer, tx, req>>
  BY DEF Recv, usb_ack_out
<1>3. ~Stuck /\ ~Stuck'
  BY <1>2 DEF Stuck, SendWaits, RecvWaits
<1>4. /\ req = xfer /\ xfer.n # 0 /\ stage # "idle" /\ ~Fresh /\ ~setup_length /\ InIdle /\ ~in_stall
      /\ Untouched /\ xfer.kind = "dnload" /\ rx.left > 0 /\ rx.offset + rx.left = xfer.wLength
  BY <1>1, <1>2, <1>3, Working DEF IInv, Always, ThreadAgrees
<1>5. ~Fresh' /\ InIdle' /\ Untouched' /\ (Active' <=> Active) /\ (Finished' <=> Finished)
  BY <1>1, <1>2, <1>4 DEF MainKeeps, Fresh, InIdle, Untouched, Active, Finished
<1>6. SetupPath' /\ RequestTaken' /\ NothingSent' /\ SendSteps' /\ ReplyCursor'
  BY <1>1, <1>2, <1>3, <1>4, <1>5
     DEF MainKeeps, LiveInv, SetupPath, RequestTaken, NothingSent, SendSteps, ReplyCursor
<1>7. InQueue' /\ StalledRead' /\ ReadWhole' /\ AckOutLast'
  BY <1>1, <1>2, <1>4, <1>5 DEF MainKeeps, LiveInv, InQueue, StalledRead, ReadWhole, AckOutLast, InKinds
<1>8. rx'.offset = moved /\ (pc' = "ack_in" => moved = xfer.wLength)
  <2> /\ xfer.wLength \in Nat /\ rx.left \in Nat /\ rx.offset \in Nat /\ moved \in Nat
      /\ out_buffer.len \in Nat /\ MAX_BYTES \in Nat
    BY Types, Packets
  <2>1. CASE out_buffer.len = 0
    <3>1. RecvLength = 0
      BY <1>4, <2>1 DEF RecvLength, Smaller
    <3>2. rx'.offset = rx.offset /\ pc' = "recv"
      BY <1>4, <3>1 DEF Recv
    <3>3. moved = rx.offset
      BY <1>1, <1>3, <1>4, <2>1 DEF LiveInv, OutPath, Got
    <3> QED
      BY <3>2, <3>3
  <2>2. CASE out_buffer.len # 0
    <3>1. InFlight(out_buffer) /\ Got = rx.offset
      BY <1>1, <1>2, <1>3, <1>4, <2>2 DEF LiveInv, OutPath, Got
    <3>2. /\ rx.offset + out_buffer.len = moved
          /\ out_buffer.len <= MAX_BYTES /\ out_buffer.len <= xfer.wLength - rx.offset
      BY <3>1 DEF InFlight, Smaller
    <3>3. RecvLength = out_buffer.len /\ ~(RecvLength > rx.left)
      BY <1>4, <3>2 DEF RecvLength, Smaller
    <3>4. /\ rx'.left = rx.left - out_buffer.len /\ rx'.offset = moved
          /\ pc' = IF rx'.left > 0 THEN "recv" ELSE "ack_in"
      BY <3>2, <3>3 DEF Recv
    <3> QED
      BY <1>4, <3>2, <3>4
  <2> QED
    BY <2>1, <2>2
<1>9. OutPath'
  <2>1. Got' = moved
    BY <1>5, <1>8 DEF Got
  <2> QED
    BY <1>1, <1>2, <1>4, <1>8, <2>1 DEF MainKeeps, OutPath
<1> QED
  BY <1>6, <1>7, <1>9 DEF LiveInv

\* DFU_GETSTATUS reboots with the first packet received.
LEMMA RecvResetLive ==
  ASSUME IInv, RecvReset, Live'
  PROVE  LiveInv'
<1>1. /\ Live /\ LiveInv /\ MainRuns /\ MainKeeps /\ ~SetupDue' /\ ~InDue'
      /\ setup_fifo' = <<>> /\ out_fifo' = <<>>
      /\ setup_fifo = <<>> /\ out_fifo = <<>> /\ pending = {} /\ latched = {}
  BY MainFrame, Quiet DEF Main
<1>2. /\ pc = "recv_reset" /\ pc' = "rebooted"
      /\ UNCHANGED <<in_queue, in_stall, setup_length, tx, req, rx>>
  BY DEF RecvReset, usb_ack_out
<1>3. /\ Stuck /\ Stuck' /\ (Fresh' <=> Fresh) /\ (Untouched' <=> Untouched) /\ Total' = Total
      /\ (Active' <=> Active) /\ (Finished' <=> Finished) /\ (InIdle' <=> InIdle) /\ (First' <=> First)
  BY <1>1, <1>2
     DEF MainKeeps, Fresh, Stuck, SendWaits, RecvWaits, Untouched, Total, Active, Finished, InIdle,
                    First
<1>4. SetupPath' /\ RequestTaken' /\ NothingSent' /\ SendSteps' /\ OutPath'
  BY <1>1, <1>2, <1>3 DEF MainKeeps, LiveInv, SetupPath, RequestTaken, NothingSent, SendSteps, OutPath
<1>5. ReplyCursor'
  BY <1>1, <1>2, <1>3, Quiet DEF MainKeeps, LiveInv, ReplyCursor, Unfinished, OfReply
<1>6. InQueue' /\ StalledRead' /\ ReadWhole' /\ AckOutLast'
  BY <1>1, <1>2, <1>3
     DEF MainKeeps, LiveInv, InQueue, TxPacket, AckPacket, OfReply, StalledRead, ReadWhole, AckOutLast
<1> QED
  BY <1>4, <1>5, <1>6 DEF LiveInv

\* Every step of the main thread.
LEMMA MainLive ==
  ASSUME IInv, Main, Live'
  PROVE  LiveInv'
  BY PollLive, DispatchLive, TakeLengthLive, SendDrainLive, SendSetLengthLive, SendCutLive, SendLoadLive,
     AckOutLive, AckInLive,
     RecvLive, RecvResetLive, RebootLive DEF Main

-----------------------------------------------------------------------------
(* The steps of the host. *)

\* The host sends the next SETUP packet when nothing of the transfer before
\* is left.
LEMMA HostSetupLive ==
  ASSUME IInv, NEW r \in Requests, HostSetup(r), Live'
  PROVE  LiveInv'
<1>1. /\ setup_fifo' = <<xfer'>> /\ moved' = 0 /\ ~in_stall' /\ stage = "idle" /\ ~recovering'
      /\ pending' = pending \cup {"setup"} /\ xfer'.wLength = r.wLength
      /\ stage' = (IF r.wLength > 0 THEN "data" ELSE "status")
      /\ UNCHANGED <<pc, tx, out_enable, out_have, out_buffer, out_fifo, in_queue, setup_length, isr,
                     latched, rx, req>>
  BY DEF HostSetup, SetupArrives, drvVars, isrVars, mainVars
<1>2. Live /\ LiveInv /\ InIdle /\ InIdle' /\ ~tx.empty /\ (recovering => pc # "ack_out")
  BY <1>1 DEF HostSetup, Live, IInv, Recovered, InIdle
<1>3. /\ Fresh' /\ Untouched' /\ SetupDue' /\ stage' # "idle" /\ (Stuck' <=> Stuck) /\ Got' = 0
      /\ ~Stuck => ~Fresh /\ pc \in {"poll", "detach", "ack_out"}
  BY <1>1, <1>2 DEF Fresh, Untouched, SetupDue, LiveInv, SetupPath, RequestTaken, Stuck, SendWaits,
                    RecvWaits, OutHave, Got
<1>4. (Active' <=> Active) /\ (Finished' <=> Finished)
  BY <1>1 DEF Active, Finished
<1>5. Active /\ pc \notin {"cut", "load"} => Finished
  <2>1. Unfinished => tx.empty
    BY <1>1, <1>2 DEF Unfinished, First, InIdle
  <2> QED
    BY <1>2, <2>1 DEF LiveInv, ReplyCursor
<1>6. pc \notin {"set_length", "cut", "load", "setup", "length"}
  BY <1>3 DEF Stuck, SendWaits, RecvWaits
<1>7. SetupPath'
  BY <1>1, <1>2, <1>3, <1>6 DEF LiveInv, SetupPath, Fresh
<1>8. RequestTaken' /\ NothingSent' /\ SendSteps' /\ ReplyCursor' /\ InQueue'
  BY <1>1, <1>2, <1>3, <1>4, <1>5, <1>6
     DEF LiveInv, RequestTaken, NothingSent, SendSteps, ReplyCursor, InQueue
<1>9. StalledRead' /\ AckOutLast'
  BY <1>1, <1>2, <1>3 DEF LiveInv, StalledRead, AckOutLast
<1>10. ReadWhole'
  <2>1. xfer'.wLength = 0 => Total' = 0
    <3>1. xfer'.reply \in Nat
      BY RequestAssumption DEF HostSetup
    <3> QED
      BY <3>1 DEF Total, Smaller
  <2>2. stage' = "status" => xfer'.wLength = 0
    BY <1>1, RequestAssumption
  <2> QED
    BY <1>1, <2>1, <2>2 DEF ReadWhole
<1>11. OutPath'
  BY <1>1, <1>2, <1>3, <1>6 DEF LiveInv, OutPath, InFlight
<1> QED
  BY <1>7, <1>8, <1>9, <1>10, <1>11 DEF LiveInv

\* What the host takes: a packet of the reply in the data stage, or the
\* acknowledgement in the status stage.
LEMMA HostInFacts ==
  ASSUME IInv, HostIn, Live'
  PROVE  /\ Live /\ LiveInv /\ ~Fresh /\ ~Untouched /\ ~InIdle /\ InIdle'
         /\ pending' = pending \cup {"in"}
         /\ \/ /\ TxPacket /\ stage = "data" /\ moved = tx.offset /\ moved' = moved + tx.to_send
               /\ stage' = (IF tx.to_send < MAX_BYTES \/ moved' >= xfer.wLength THEN "status" ELSE "data")
            \/ AckPacket /\ stage = "status" /\ stage' = "idle" /\ moved' = moved
         /\ UNCHANGED <<pc, tx, in_stall, out_enable, out_have, out_buffer, out_fifo, xfer, recovering,
                        setup_length, setup_packet, setup_fifo, isr, latched, rx, req>>
<1>1. /\ ~InIdle /\ InIdle' /\ ExpectsIn /\ pending' = pending \cup {"in"}
      /\ UNCHANGED <<pc, tx, in_stall, out_enable, out_have, out_buffer, out_fifo, xfer, disturbed,
                     recovering, setup_length, setup_packet, setup_fifo, isr, latched, rx, req>>
  BY DEF HostIn, PacketTaken, UnchangedByHost, drvVars, isrVars, mainVars, InIdle
<1>2. Live /\ LiveInv
  BY <1>1 DEF Live, IInv
<1>3. ~Untouched /\ ~Fresh
  BY <1>1, <1>2 DEF LiveInv, NothingSent, Untouched
<1>4. CASE stage = "data"
  <2>1. TxPacket
    BY <1>1, <1>2, <1>4 DEF LiveInv, InQueue, AckPacket
  <2>2. in_queue[1].len = tx.to_send /\ moved = tx.offset
    BY <1>4, <2>1 DEF TxPacket
  <2>3. /\ moved' = moved + tx.to_send
        /\ stage' = (IF tx.to_send < MAX_BYTES \/ moved' >= xfer.wLength THEN "status" ELSE "data")
    BY <1>4, <2>2 DEF HostIn
  <2> QED
    BY <1>1, <1>2, <1>3, <1>4, <2>1, <2>2, <2>3
<1>5. CASE stage # "data"
  <2>1. stage = "status" /\ ~(xfer.kind \in InKinds /\ xfer.wLength > 0)
    BY <1>1, <1>5 DEF ExpectsIn
  <2>2. AckPacket
    BY <1>1, <1>2, <1>5, <2>1, Packets DEF LiveInv, InQueue, TxPacket, OfReply, InKinds
  <2>3. stage' = "idle" /\ moved' = moved
    BY <1>5 DEF HostIn
  <2> QED
    BY <1>1, <1>2, <1>3, <2>1, <2>2, <2>3
<1> QED
  BY <1>4, <1>5

\* The host takes a packet.
LEMMA HostInLive ==
  ASSUME IInv, HostIn, Live'
  PROVE  LiveInv'
<1>1. /\ Live /\ LiveInv /\ ~Fresh /\ ~Untouched /\ ~InIdle /\ InIdle' /\ pending' = pending \cup {"in"}
      /\ UNCHANGED <<pc, tx, in_stall, out_enable, out_have, out_buffer, out_fifo, xfer, recovering,
                     setup_length, setup_packet, setup_fifo, isr, latched, rx, req>>
  BY HostInFacts
<1>2. /\ (Stuck' <=> Stuck) /\ ~Fresh' /\ ~Untouched' /\ (SetupDue' <=> SetupDue) /\ Got' = Got
      /\ Total' = Total
      /\ (Active' <=> Active) /\ (Finished' <=> Finished) /\ (First' <=> First)
      /\ pc \notin {"setup", "length", "send", "set_length", "cut", "load", "recv", "ack_in"}
  BY <1>1 DEF Stuck, SendWaits, RecvWaits, OutHave, Fresh, Untouched, SetupDue, Got, Total, Active,
              Finished,
              First, IInv, Always, EventsRead
<1>3. SetupPath' /\ NothingSent' /\ SendSteps' /\ InQueue' /\ StalledRead'
  BY <1>1, <1>2 DEF LiveInv, SetupPath, NothingSent, SendSteps, InQueue, StalledRead, Fresh
<1>4. CASE AckPacket /\ stage = "status" /\ stage' = "idle" /\ moved' = moved
  <2>1. xfer.kind = "dnload" => moved = xfer.wLength /\ Got = xfer.wLength
    BY <1>1, <1>4 DEF Got, AckPacket, IInv, Always, HostAgrees
  <2>2. ~Stuck => /\ out_fifo # <<>> => out_fifo[1].len = 0
                  /\ out_have => out_buffer.len = 0
    <3>1. /\ xfer.wLength \in Nat /\ out_buffer.len \in Nat
          /\ out_fifo # <<>> => out_fifo[1].len \in Nat
      BY Types
    <3> QED
      BY <1>1, <2>1, <3>1 DEF LiveInv, OutPath, InFlight
  <2>3. OutPath'
    BY <1>1, <1>2, <1>4, <2>2 DEF OutPath
  <2>4. ReplyCursor' /\ ReadWhole'
    BY <1>1, <1>2, <1>4 DEF AckPacket, ReplyCursor, ReadWhole
  <2>5. pc # "ack_out"
    BY <1>4 DEF AckPacket
  <2>6. RequestTaken' /\ AckOutLast'
    BY <1>1, <1>2, <1>4, <2>5 DEF AckPacket, RequestTaken, AckOutLast, Stuck
  <2> QED
    BY <1>3, <2>3, <2>4, <2>6 DEF LiveInv
<1>5. CASE /\ TxPacket /\ stage = "data" /\ moved = tx.offset /\ moved' = moved + tx.to_send
           /\ stage' = (IF tx.to_send < MAX_BYTES \/ moved' >= xfer.wLength THEN "status" ELSE "data")
  <2>1. stage' # "idle" /\ OfReply /\ OfReply' /\ Active
    BY <1>1, <1>2, <1>5 DEF TxPacket, OfReply
  <2>2. Finished \/ Unfinished
    BY <1>1, <1>2, <2>1 DEF LiveInv, ReplyCursor
  <2>3. Unfinished => /\ "in" \notin pending /\ tx.to_send = MAX_BYTES /\ tx.offset = 0 /\ First
                      /\ moved' = MAX_BYTES /\ MAX_BYTES <= Total
    BY <1>1, <1>5, Packets, TotalFits DEF Unfinished, First, Smaller
  <2>4. ReplyCursor'
    <3>1. CASE Finished
      BY <1>2, <3>1 DEF ReplyCursor
    <3>2. CASE Unfinished
      <4>1. InDue'
        BY <1>1, <2>3, <3>2 DEF InDue, IInv, Always, EventsRead
      <4>2. MAX_BYTES >= xfer.wLength => xfer.wLength = MAX_BYTES /\ Total = MAX_BYTES
        <5>1. xfer.wLength \in Nat
          BY Types
        <5> QED
          BY <2>3, <3>2, <5>1, TotalFits, Packets
      <4>3. stage' # "data" => xfer.wLength = MAX_BYTES /\ Total = MAX_BYTES
        BY <1>5, <2>3, <3>2, <4>2, Packets
      <4> QED
        BY <1>1, <1>2, <2>1, <2>3, <3>2, <4>1, <4>3 DEF ReplyCursor, Unfinished
    <3> QED
      BY <2>2, <3>1, <3>2
  <2>5. ReadWhole'
    <3>1. stage' = "status" => moved' = Total
      <4>1. CASE Finished
        BY <1>5, <2>1, <4>1 DEF Finished, OfReply
      <4>2. CASE Unfinished
        <5>1. stage' = "status" => MAX_BYTES >= xfer.wLength
          BY <1>5, <2>3, <4>2, Packets
        <5>2. xfer.wLength \in Nat
          BY Types
        <5> QED
          BY <2>3, <4>2, <5>1, <5>2, TotalFits, Packets
      <4> QED
        BY <2>2, <4>1, <4>2
    <3> QED
      BY <1>2, <3>1 DEF ReadWhole
  <2>6. RequestTaken' /\ AckOutLast'
    BY <1>1, <1>2, <1>5, <2>1 DEF LiveInv, RequestTaken, AckOutLast, Stuck, SendWaits, RecvWaits
  <2>7. OutPath'
    BY <1>1, <1>2, <2>1 DEF LiveInv, OutPath, OfReply, InFlight
  <2> QED
    BY <1>3, <2>4, <2>5, <2>6, <2>7 DEF LiveInv
<1> QED
  BY <1>4, <1>5, HostInFacts

\* A stall ends the transfer of a request that is not answered.
LEMMA HostStalledLive ==
  ASSUME IInv, HostStalled, Live'
  PROVE  LiveInv'
<1>1. /\ in_stall /\ stage # "idle" /\ stage' = "idle" /\ pc # "rebooted"
      /\ UNCHANGED <<pc, tx, in_queue, in_stall, out_enable, out_have, out_buffer, out_fifo, xfer, moved,
                     disturbed, recovering, setup_length, setup_packet, setup_fifo, isr, latched, pending,
                     rx, req>>
  BY DEF HostStalled, Reached, ExpectsIn, UnchangedByHost, drvVars, isrVars, mainVars, hwVars
<1>2. Live /\ LiveInv /\ xfer.kind = "get_stalled" /\ pc \in {"poll", "detach"} /\ ~Fresh
  BY <1>1 DEF Live, IInv, LiveInv, StalledRead
<1>3. /\ ~Stuck /\ ~Stuck' /\ ~Fresh' /\ ~Untouched /\ ~Untouched' /\ Got' = Got
      /\ (Active' <=> Active) /\ (Finished' <=> Finished) /\ (SetupDue' <=> SetupDue)
      /\ (InIdle' <=> InIdle)
  BY <1>1, <1>2
     DEF Stuck, SendWaits, RecvWaits, Fresh, Untouched, Got, Active, Finished, SetupDue, InIdle
<1>4. InIdle /\ ~Unfinished
  BY <1>1, <1>2 DEF LiveInv, InQueue, TxPacket, AckPacket, OfReply, InKinds, Unfinished
<1>5. ~(isr \in {"in", "out", "ack"} /\ "setup" \in latched)
  <2>1. ~setup_length
    BY <1>2 DEF Fresh
  <2> QED
    BY <1>2, <2>1 DEF LiveInv, SetupPath
<1>6. SetupPath' /\ RequestTaken' /\ NothingSent' /\ SendSteps'
  BY <1>1, <1>2, <1>3, <1>5 DEF LiveInv, SetupPath, RequestTaken, NothingSent, SendSteps, Fresh
<1>7. ReplyCursor' /\ InQueue' /\ StalledRead' /\ ReadWhole' /\ AckOutLast'
  BY <1>1, <1>2, <1>3, <1>4 DEF LiveInv, ReplyCursor, InQueue, StalledRead, ReadWhole, AckOutLast
<1>8. OutPath'
  BY <1>1, <1>2, <1>3 DEF LiveInv, OutPath, InFlight
<1> QED
  BY <1>6, <1>7, <1>8 DEF LiveInv

\* What the host sends: the next packet of a download, or the empty packet of
\* the status stage of a read.
LEMMA HostOutFacts ==
  ASSUME IInv, HostOut, Live'
  PROVE  /\ Live /\ LiveInv /\ out_enable /\ ~out_enable' /\ out_fifo = <<>> /\ ~out_have /\ ~out_have'
         /\ stage # "idle" /\ out_fifo' # <<>> /\ pending' = pending \cup {"out"}
         /\ \/ /\ xfer.kind = "dnload" /\ stage = "data" /\ stage' # "idle" /\ moved < xfer.wLength
               /\ out_fifo'[1] = [n |-> xfer.n, from |-> moved, len |-> Smaller(MAX_BYTES, xfer.wLength - moved)]
               /\ moved' = moved + Smaller(MAX_BYTES, xfer.wLength - moved)
            \/ /\ xfer.kind \in InKinds /\ stage = "status" /\ stage' = "idle" /\ moved' = moved
               /\ ~Untouched /\ out_fifo'[1].len = 0
         /\ UNCHANGED <<pc, tx, in_stall, out_have, out_buffer, in_queue, xfer, recovering, setup_length,
                        setup_packet, setup_fifo, isr, latched, rx, req>>
<1>1. /\ out_enable /\ ~out_enable' /\ stage # "idle" /\ ~ExpectsIn /\ pending' = pending \cup {"out"}
      /\ UNCHANGED <<pc, tx, in_stall, out_have, out_buffer, in_queue, xfer, recovering, disturbed,
                     setup_length, setup_packet, setup_fifo, isr, latched, rx, req>>
  BY DEF HostOut, PacketArrives, UnchangedByHost, drvVars, isrVars, mainVars
<1>2. Live /\ LiveInv /\ out_fifo = <<>> /\ ~out_have
  BY <1>1 DEF Live, IInv, Always, OutOnce
<1>3. out_fifo' # <<>>
  <2>1. PICK p : PacketArrives(p)
    BY DEF HostOut
  <2> QED
    BY <2>1 DEF PacketArrives
<1>4. CASE stage = "data"
  <2>1. moved < xfer.wLength /\ xfer.kind \notin InKinds /\ xfer.wLength > 0
    BY <1>1, <1>4, Types DEF ExpectsIn, IInv, Always, HostAgrees
  <2>2. xfer.kind = "dnload"
    BY <2>1, DataOut
  <2>3. /\ out_fifo' = <<[n |-> xfer.n, from |-> moved, len |-> Smaller(MAX_BYTES, xfer.wLength - moved)]>>
        /\ moved' = moved + Smaller(MAX_BYTES, xfer.wLength - moved) /\ stage' # "idle"
    BY <1>4 DEF HostOut, PacketArrives
  <2>4. out_fifo'[1] = [n |-> xfer.n, from |-> moved, len |-> Smaller(MAX_BYTES, xfer.wLength - moved)]
    BY <2>3
  <2> HIDE <2>3
  <2> QED
    BY <1>1, <1>2, <1>3, <1>4, <2>1, <2>2, <2>3, <2>4
<1>5. CASE stage = "status"
  <2>1. xfer.kind \in InKinds
    BY <1>1, <1>5 DEF ExpectsIn
  <2>2. out_fifo' = <<Zlp>> /\ moved' = moved /\ stage' = "idle"
    BY <1>5 DEF HostOut, PacketArrives
  <2>3. out_fifo'[1].len = 0
    BY <2>2 DEF Zlp
  <2>4. ~Untouched
    <3>1. xfer.wLength > 0
      BY <1>1, <1>5 DEF ExpectsIn
    <3> QED
      BY <1>2, <1>5, <2>1, <3>1 DEF LiveInv, NothingSent
  <2> QED
    BY <1>1, <1>2, <1>3, <1>5, <2>1, <2>2, <2>3, <2>4
<1> QED
  BY <1>1, <1>4, <1>5, Types

\* The host sends a packet.
LEMMA HostOutLive ==
  ASSUME IInv, HostOut, Live'
  PROVE  LiveInv'
<1>1. /\ Live /\ LiveInv /\ out_enable /\ ~out_enable' /\ out_fifo = <<>> /\ ~out_have /\ ~out_have'
      /\ stage # "idle" /\ out_fifo' # <<>> /\ pending' = pending \cup {"out"}
      /\ UNCHANGED <<pc, tx, in_stall, out_have, out_buffer, in_queue, xfer, recovering, setup_length,
                     setup_packet, setup_fifo, isr, latched, rx, req>>
  BY HostOutFacts
<1>2. /\ (Stuck' <=> Stuck) /\ (Fresh' <=> Fresh) /\ (Untouched' <=> Untouched)
      /\ (SetupDue' <=> SetupDue)
      /\ (InDue' <=> InDue) /\ Got' = Got /\ Total' = Total /\ (InIdle' <=> InIdle)
      /\ (Active' <=> Active) /\ (Finished' <=> Finished) /\ (First' <=> First)
  BY <1>1
     DEF Stuck, SendWaits, RecvWaits, OutHave, Fresh, Untouched, SetupDue, InDue, Got, Total, InIdle,
              Active, Finished, First, IInv, Always, EventsRead
<1>3. SendSteps' /\ StalledRead'
  BY <1>1, <1>2 DEF LiveInv, SendSteps, StalledRead
<1>4. CASE /\ xfer.kind = "dnload" /\ stage = "data" /\ stage' # "idle" /\ moved < xfer.wLength
           /\ out_fifo'[1] = [n |-> xfer.n, from |-> moved, len |-> Smaller(MAX_BYTES, xfer.wLength - moved)]
           /\ moved' = moved + Smaller(MAX_BYTES, xfer.wLength - moved)
  <2>1. SetupPath' /\ RequestTaken' /\ NothingSent' /\ ReadWhole' /\ AckOutLast'
    BY <1>1, <1>2, <1>4
       DEF LiveInv, SetupPath, RequestTaken, NothingSent, ReadWhole, AckOutLast, InKinds, IInv,
           Always, HostAgrees
  <2>2. ReplyCursor' /\ InQueue'
    BY <1>1, <1>2, <1>4 DEF LiveInv, ReplyCursor, Unfinished, InQueue, TxPacket, AckPacket, OfReply
  <2>3. ~Stuck => moved = Got
    BY <1>1, <1>4 DEF LiveInv, OutPath
  <2>4. /\ out_fifo'[1].n = xfer.n /\ out_fifo'[1].from = moved
        /\ out_fifo'[1].len = Smaller(MAX_BYTES, xfer.wLength - moved)
        /\ moved' = moved + out_fifo'[1].len
    BY <1>4
  <2>5. ~Stuck => InFlight(out_fifo[1])'
    <3>1. xfer.wLength \in Nat /\ moved \in Nat
      BY Types
    <3> QED
      BY <1>1, <1>2, <1>4, <2>3, <2>4, <3>1, Packets DEF InFlight, Smaller
  <2>6. Smaller(MAX_BYTES, xfer.wLength - moved) # 0
    <3>1. xfer.wLength \in Nat /\ moved \in Nat
      BY Types
    <3> QED
      BY <1>4, <3>1, Packets DEF Smaller
  <2>7. pc = "ack_in" /\ req.kind = "dnload" => Stuck
    <3>1. xfer.wLength \in Nat /\ moved \in Nat
      BY Types
    <3> QED
      BY <1>1, <1>4, <3>1 DEF LiveInv, OutPath, RequestTaken
  <2>8. ~Stuck /\ ~Fresh /\ InIdle => pc \in {"recv", "ack_in"}
    BY <1>1, <1>4 DEF LiveInv, OutPath
  <2>9. out_fifo'[1].len # 0
    BY <2>4, <2>6
  <2>10. OutPath'
    <3> SUFFICES ASSUME ~Stuck PROVE OutPath'
      BY <1>2 DEF OutPath
    <3>1. InFlight(out_fifo[1])' /\ ~(pc' = "ack_in" /\ req'.kind = "dnload")
      BY <1>1, <2>5, <2>7
    <3>2. ~Fresh' /\ InIdle' => pc' \in {"recv", "ack_in"}
      BY <1>1, <1>2, <2>8
    <3> QED
      BY <1>1, <2>9, <3>1, <3>2 DEF OutPath
  <2> QED
    BY <1>3, <2>1, <2>2, <2>10 DEF LiveInv
<1>5. CASE /\ xfer.kind \in InKinds /\ stage = "status" /\ stage' = "idle" /\ moved' = moved
           /\ ~Untouched /\ out_fifo'[1].len = 0
  <2>1. ~Stuck => pc \in {"poll", "detach", "ack_out"}
    BY <1>5, Types DEF Untouched, Fresh, Stuck
  <2>2. ~Fresh /\ ~(isr \in {"in", "out", "ack"} /\ "setup" \in latched)
    <3>1. ~Fresh
      BY <1>5 DEF Untouched
    <3> QED
      BY <1>1, <3>1 DEF LiveInv, SetupPath, Fresh
  <2>3. SetupPath' /\ RequestTaken' /\ NothingSent' /\ ReadWhole' /\ AckOutLast'
    BY <1>1, <1>2, <1>5, <2>1, <2>2
       DEF LiveInv, SetupPath, RequestTaken, NothingSent, ReadWhole, AckOutLast, Fresh
  <2>4. ReplyCursor' /\ InQueue'
    BY <1>1, <1>2, <1>5, Packets
       DEF LiveInv, ReplyCursor, Unfinished, InQueue, TxPacket, AckPacket, OfReply
  <2>5. OutPath'
    BY <1>1, <1>2, <1>5, <2>1 DEF LiveInv, OutPath
  <2> QED
    BY <1>3, <2>3, <2>4, <2>5 DEF LiveInv
<1> QED
  BY <1>4, <1>5, HostOutFacts

\* A host that gives up leaves nothing behind: it waits in vain only where
\* the device has nothing to send either.
LEMMA GiveUpFacts ==
  ASSUME IInv, GiveUp, Live'
  PROVE  /\ Live /\ LiveInv /\ MainRuns /\ stage # "idle" /\ stage' = "idle"
         /\ setup_fifo = <<>> /\ out_fifo = <<>> /\ pending = {} /\ latched = {}
         /\ ~Stuck => ~Fresh /\ pc \in {"poll", "detach"} /\ (out_have => out_buffer.len = 0)
         /\ Active /\ pc \notin {"cut", "load"} => Finished
         /\ ExpectsIn => InIdle
         /\ UNCHANGED <<pc, tx, in_queue, in_stall, out_enable, out_have, out_buffer, out_fifo, xfer, moved,
                        recovering, setup_length, setup_packet, setup_fifo, isr, latched, pending, rx,
                        req>>
<1>1. /\ MainRuns /\ stage # "idle" /\ stage' = "idle" /\ (ExpectsIn => InIdle)
      /\ UNCHANGED <<pc, tx, in_queue, in_stall, out_enable, out_have, out_buffer, out_fifo, xfer, moved,
                     disturbed, recovering, setup_length, setup_packet, setup_fifo, isr, latched, pending,
                     rx, req>>
  BY DEF GiveUp, InVain, Recovered, UnchangedByHost, drvVars, isrVars, mainVars, hwVars
<1>2. Live /\ LiveInv /\ setup_fifo = <<>> /\ out_fifo = <<>> /\ pending = {} /\ latched = {} /\ ~InDue
  BY <1>1, Quiet DEF Live
<1>3. Active /\ pc \notin {"cut", "load"} => Finished
  <2>1. Unfinished => FALSE
    <3>1. Unfinished => /\ xfer.kind \in InKinds /\ stage = "data"
                        /\ in_queue = <<[n |-> tx.data, from |-> 0, len |-> tx.to_send]>>
      BY <1>2 DEF Unfinished, OfReply, InKinds, First
    <3>2. Unfinished => ~InIdle
      BY <3>1 DEF InIdle
    <3> QED
      BY <1>1, <3>1, <3>2 DEF ExpectsIn
  <2> QED
    BY <1>2, <2>1 DEF LiveInv, ReplyCursor
<1>4. ~Stuck => ~Fresh /\ pc \in {"poll", "detach"} /\ (out_have => out_buffer.len = 0)
  <2> SUFFICES ASSUME ~Stuck PROVE ~Fresh /\ pc \in {"poll", "detach"} /\ (out_have => out_buffer.len = 0)
    OBVIOUS
  <2>1. CASE pc = "poll" \/ pc = "detach"
    <3>1. ~Fresh
      BY <1>2, <2>1 DEF Fresh, GiveUp, Recovered
    <3>2. xfer.kind = "dnload" => ~InIdle
      BY <1>1, <1>2, <2>1, <3>1 DEF LiveInv, OutPath
    <3>3. xfer.kind = "dnload" => ExpectsIn
      BY <1>1, <1>2, <3>1, <3>2 DEF LiveInv, InQueue, TxPacket, OfReply, AckPacket, ExpectsIn
    <3> QED
      BY <1>1, <1>2, <2>1, <3>1, <3>2, <3>3 DEF LiveInv, OutPath, InFlight
  <2>2. CASE pc = "send"
    <3>1. Active /\ InIdle
      BY <1>2, <2>2
         DEF LiveInv, NothingSent, Untouched, GiveUp, Recovered, StillSending, Stuck, SendWaits,
                        SendSteps, Active
    <3> QED
      BY <2>2, <3>1 DEF GiveUp, Recovered, CanTransmit, Active
  <2>3. CASE pc = "recv"
    <3>1. /\ req = xfer /\ xfer.kind = "dnload" /\ ~out_have /\ out_enable /\ ~Fresh
          /\ rx.offset + rx.left = xfer.wLength /\ rx.left > 0
      BY <1>1, <1>2, <2>3, Working
         DEF IInv, Always, ThreadAgrees, GiveUp, Recovered, Stuck, RecvWaits, OutHave
    <3>2. moved = rx.offset
      BY <1>1, <1>2, <3>1 DEF LiveInv, OutPath, Got
    <3>3. moved # xfer.wLength
      <4>1. rx.offset \in Nat /\ rx.left \in Nat
        BY Types
      <4> QED
        BY <3>1, <3>2, <4>1
    <3>4. stage = "data"
      BY <1>1, <3>1, <3>3, Types DEF IInv, Always, HostAgrees
    <3> QED
      BY <3>1, <3>4 DEF GiveUp, InVain, ExpectsIn, InKinds
  <2> QED
    BY <2>1, <2>2, <2>3 DEF GiveUp, Recovered, Stuck
<1> QED
  BY <1>1, <1>2, <1>3, <1>4

\* The host gives up.
LEMMA GiveUpLive ==
  ASSUME IInv, GiveUp, Live'
  PROVE  LiveInv'
<1>1. /\ Live /\ LiveInv /\ MainRuns /\ stage # "idle" /\ stage' = "idle"
      /\ setup_fifo = <<>> /\ out_fifo = <<>> /\ pending = {} /\ latched = {}
      /\ ~Stuck => ~Fresh /\ pc \in {"poll", "detach"} /\ (out_have => out_buffer.len = 0)
      /\ Active /\ pc \notin {"cut", "load"} => Finished
      /\ ExpectsIn => InIdle
      /\ UNCHANGED <<pc, tx, in_queue, in_stall, out_enable, out_have, out_buffer, out_fifo, xfer, moved,
                     recovering, setup_length, setup_packet, setup_fifo, isr, latched, pending, rx, req>>
  BY GiveUpFacts
<1>2. /\ (Stuck' <=> Stuck) /\ (Fresh' <=> Fresh) /\ (Untouched' <=> Untouched) /\ ~SetupDue'
      /\ ~SetupDue
      /\ Total' = Total /\ (InIdle' <=> InIdle) /\ (First' <=> First)
      /\ (Active' <=> Active) /\ (Finished' <=> Finished)
  BY <1>1 DEF Stuck, SendWaits, RecvWaits, OutHave, Fresh, Untouched, SetupDue, Total, InIdle,
              First, Active, Finished
<1>3. RequestTaken' /\ ReplyCursor' /\ OutPath' /\ SendSteps' /\ NothingSent' /\ StalledRead' /\ ReadWhole'
  BY <1>1, <1>2
     DEF LiveInv, RequestTaken, ReplyCursor, OutPath, SendSteps, NothingSent, StalledRead, ReadWhole
<1>4. SetupPath'
  BY <1>1, <1>2 DEF LiveInv, SetupPath, Stuck, SendWaits, RecvWaits
<1>5. AckOutLast'
  BY <1>1, <1>2 DEF AckOutLast, Stuck, SendWaits, RecvWaits
<1>6. InQueue'
  BY <1>1, <1>2, Packets
     DEF LiveInv, InQueue, TxPacket, AckPacket, OfReply, ExpectsIn, InKinds
<1> QED
  BY <1>3, <1>4, <1>5, <1>6 DEF LiveInv

-----------------------------------------------------------------------------
(* What holds in every state, and the types. *)

\* The requests and packets in the variables are within their bounds.
LEMMA Bounds ==
  ASSUME IInv
  PROVE  /\ MaxData \in Nat /\ MaxTransfers \in Nat
         /\ \A r \in {req, xfer, setup_packet} :
              /\ r.kind \in Kinds /\ r.wLength \in 0 .. MaxData /\ r.reply \in 0 .. MaxData
              /\ r.n \in 0 .. MaxTransfers
         /\ out_buffer.len \in 0 .. MAX_BYTES
         /\ in_queue # <<>> => in_queue[1].len \in 0 .. MAX_BYTES
         /\ tx.data \in 0 .. MaxTransfers /\ tx.length \in 0 .. MaxData /\ tx.offset \in 0 .. MaxData
         /\ tx.to_send \in 0 .. MAX_BYTES /\ tx.empty \in BOOLEAN
<1>1. \A r \in Request : /\ r.kind \in Kinds /\ r.wLength \in 0 .. MaxData /\ r.reply \in 0 .. MaxData
                         /\ r.n \in 0 .. MaxTransfers
  BY EptriAssumption, RequestAssumption DEF Request, NoRequest, Kinds
<1>2. /\ \A p \in Packet : p.len \in 0 .. MAX_BYTES
      /\ \A r \in ReadRequest : /\ r.kind \in Kinds /\ r.wLength \in 0 .. MaxData
                                /\ r.reply \in 0 .. MaxData /\ r.n \in 0 .. MaxTransfers
  BY DEF Packet, ReadRequest
<1>3. in_queue # <<>> => in_queue[1] \in Packet
  BY DEF IInv, UsbTypeOK, AtMostOne
<1> QED
  BY <1>1, <1>2, <1>3, EptriAssumption DEF IInv, UsbTypeOK

\* Moving the cursor keeps it inside the reply.
LEMMA NextPacketInside ==
  ASSUME IInv, Active
  PROVE  /\ NextPacket(tx) \in [data : 0 .. MaxTransfers, length : 0 .. MaxData, offset : 0 .. MaxData,
                                to_send : 0 .. MAX_BYTES, empty : BOOLEAN]
         /\ NextPacket(tx).offset + NextPacket(tx).to_send <= NextPacket(tx).length
         /\ NextPacket(tx) = Null \/ NextPacket(tx).data = tx.data
<1> DEFINE o == tx.offset + tx.to_send
<1> DEFINE Fits(t) == /\ t \in [data : 0 .. MaxTransfers, length : 0 .. MaxData, offset : 0 .. MaxData,
                                to_send : 0 .. MAX_BYTES, empty : BOOLEAN]
                      /\ t.offset + t.to_send <= t.length
                      /\ t = Null \/ t.data = tx.data
<1>1. /\ o \in Nat /\ o <= tx.length /\ tx.length \in 0 .. MaxData
      /\ MAX_BYTES \in Nat /\ MAX_BYTES > 0 /\ MaxData \in Nat
  <2>1. o <= tx.length
    BY DEF IInv, Always, CursorInside
  <2>2. tx.offset \in Nat /\ tx.to_send \in Nat
    BY Types
  <2>3. tx.length \in 0 .. MaxData /\ MaxData \in Nat
    BY Bounds
  <2> QED
    BY <2>1, <2>2, <2>3, Packets
<1>2. Fits(Null)
  BY Packets, EptriAssumption DEF Null
<1>3. ASSUME NEW s \in 0 .. MAX_BYTES, o + s <= tx.length, NEW e \in BOOLEAN
      PROVE  Fits([tx EXCEPT !.offset = o, !.to_send = s, !.empty = e])
  <2>1. o \in 0 .. MaxData
    BY <1>1
  <2> HIDE DEF o
  <2>2. tx \in [data : 0 .. MaxTransfers, length : 0 .. MaxData, offset : 0 .. MaxData,
                to_send : 0 .. MAX_BYTES, empty : BOOLEAN]
    BY DEF IInv, UsbTypeOK
  <2> QED
    BY <1>3, <2>1, <2>2
<1>4. Fits(NextPacket(tx))
  <2>1. CASE tx.length - o > MAX_BYTES
    <3>1. NextPacket(tx) = [tx EXCEPT !.offset = o, !.to_send = MAX_BYTES, !.empty = FALSE]
      BY <1>1, <2>1 DEF NextPacket
    <3>2. MAX_BYTES \in 0 .. MAX_BYTES /\ o + MAX_BYTES <= tx.length
      BY <1>1, <2>1
    <3> HIDE DEF o, Fits
    <3> QED
      BY <1>3, <3>1, <3>2
  <2>2. CASE tx.length - o = MAX_BYTES
    <3>1. NextPacket(tx) = [tx EXCEPT !.offset = o, !.to_send = MAX_BYTES, !.empty = TRUE]
      BY <1>1, <2>2 DEF NextPacket
    <3>2. MAX_BYTES \in 0 .. MAX_BYTES /\ o + MAX_BYTES <= tx.length
      BY <1>1, <2>2
    <3> HIDE DEF o, Fits
    <3> QED
      BY <1>3, <3>1, <3>2
  <2>3. CASE tx.length - o < MAX_BYTES /\ tx.empty
    <3>1. NextPacket(tx) = [tx EXCEPT !.offset = o, !.to_send = 0, !.empty = FALSE]
      BY <1>1, <2>3 DEF NextPacket
    <3>2. 0 \in 0 .. MAX_BYTES /\ o + 0 <= tx.length
      BY <1>1
    <3> HIDE DEF o, Fits
    <3> QED
      BY <1>3, <3>1, <3>2
  <2>4. CASE tx.length - o <= 0 /\ ~tx.empty
    <3>1. NextPacket(tx) = Null
      BY <1>1, <2>4 DEF NextPacket
    <3> HIDE DEF o, Fits
    <3> QED
      BY <1>2, <3>1
  <2>5. CASE tx.length - o < MAX_BYTES /\ tx.length - o > 0 /\ ~tx.empty
    <3>1. NextPacket(tx) = [tx EXCEPT !.offset = o, !.to_send = tx.length - o, !.empty = FALSE]
      BY <1>1, <2>5 DEF NextPacket
    <3>2. tx.length - o \in 0 .. MAX_BYTES /\ o + (tx.length - o) <= tx.length
      BY <1>1, <2>5
    <3> HIDE DEF o, Fits
    <3> QED
      BY <1>3, <3>1, <3>2
  <2> HIDE DEF Fits
  <2> QED
    BY <1>1, <2>1, <2>2, <2>3, <2>4, <2>5
<1> QED
  BY <1>4

\* The types of the variables of the core, the driver, the two threads and
\* the host.
TxType == [data : 0 .. MaxTransfers, length : 0 .. MaxData, offset : 0 .. MaxData,
           to_send : 0 .. MAX_BYTES, empty : BOOLEAN]
HwType ==
  /\ setup_fifo \in AtMostOne(Request) /\ in_queue \in AtMostOne(Packet)
  /\ out_fifo \in AtMostOne(Packet)
  /\ out_enable \in BOOLEAN /\ in_stall \in BOOLEAN /\ pending \subseteq Events
  /\ usb_address \in 0 .. 1
DrvType ==
  /\ setup_packet \in Request /\ setup_length \in BOOLEAN
  /\ out_have \in BOOLEAN /\ out_buffer \in Packet
  /\ tx \in TxType
  /\ next_address \in 0 .. 1
MainType ==
  /\ isr \in {"off", "setup", "in", "out", "ack"} /\ latched \subseteq Events
  /\ pc \in {"poll", "setup", "length", "send", "set_length", "cut", "load", "ack_out", "ack_in",
             "recv", "recv_reset", "detach", "rebooted"}
  /\ req \in ReadRequest /\ home \in {"poll", "detach"}
  /\ rx \in [left : 0 .. MaxData, offset : 0 .. MaxData + MAX_BYTES]
HostType ==
  /\ xfer \in Request /\ stage \in {"idle", "data", "status"}
  /\ moved \in 0 .. MaxData + MAX_BYTES
  /\ haddr \in 0 .. 1 /\ recovering \in BOOLEAN /\ disturbed \in BOOLEAN
  /\ resets \in 0 .. MaxResets

\* Together they are UsbTypeOK.
LEMMA TypeParts ==
  /\ UsbTypeOK <=> HwType /\ DrvType /\ MainType /\ HostType
  /\ UsbTypeOK' <=> HwType' /\ DrvType' /\ MainType' /\ HostType'
  BY DEF UsbTypeOK, HwType, DrvType, MainType, HostType, TxType

\* A packet of the reply, a packet cut to no bytes and the empty packet are
\* packets.
LEMMA SomePackets ==
  /\ \A t \in TxType : [n |-> t.data, from |-> t.offset, len |-> t.to_send] \in Packet
  /\ \A p \in Packet : [p EXCEPT !.len = 0] \in Packet
  /\ Zlp \in Packet /\ NoRequest \in Request
  /\ <<>> \in AtMostOne(Packet) /\ <<>> \in AtMostOne(Request)
  /\ \A q \in AtMostOne(Packet) : q # <<>> => q[1] \in Packet
  BY EptriAssumption DEF TxType, Packet, Zlp, Request, AtMostOne

\* process_tx keeps the cursor inside the reply.
LEMMA ProcessTxInside ==
  ASSUME IInv, process_tx
  PROVE  /\ tx' \in TxType /\ in_queue' \in AtMostOne(Packet)
         /\ Active' => tx'.offset + tx'.to_send <= tx'.length
<1>1. HwType /\ DrvType
  BY TypeParts DEF IInv
<1>2. CASE CanTransmit
  <2>1. Active
    BY <1>2 DEF CanTransmit, Active
  <2>2. tx' \in TxType /\ tx'.offset + tx'.to_send <= tx'.length
    BY <1>2, <2>1, NextPacketInside DEF process_tx, TxType
  <2>3. in_queue' = in_queue \/ in_queue' = <<[n |-> tx'.data, from |-> tx'.offset, len |-> tx'.to_send]>>
    BY <1>2 DEF process_tx, LoadPacket, QueueIn
  <2> QED
    BY <1>1, <2>2, <2>3, SomePackets DEF HwType, AtMostOne
<1>3. CASE ~CanTransmit
  BY <1>1, <1>3 DEF process_tx, HwType, DrvType, IInv, Always, CursorInside, Active
<1> QED
  BY <1>2, <1>3

\* The interrupt handler.
LEMMA IsrTypes ==
  ASSUME IInv, usb_isr
  PROVE  UsbTypeOK'
<1> SUFFICES HwType' /\ DrvType' /\ MainType' /\ HostType'
  BY TypeParts
<1>1. HwType /\ DrvType /\ MainType /\ HostType
  BY TypeParts DEF IInv
<1>2. CASE IsrEnter
  BY <1>1, <1>2
     DEF IsrEnter, hwVars, drvVars, mainVars, hostVars, HwType, DrvType, MainType, HostType
<1>3. CASE IsrReset
  <2>1. tx' \in TxType
    <3>1. tx \in TxType /\ 0 \in 0 .. MaxTransfers /\ 0 \in 0 .. MaxData
      BY <1>1, EptriAssumption DEF DrvType
    <3> QED
      BY <1>3, <3>1 DEF IsrReset, TxType
  <2>2. out_buffer' \in Packet
    BY <1>1, <1>3, SomePackets DEF IsrReset, DrvType
  <2>3. pending' \subseteq Events
    BY <1>1, <1>3 DEF IsrReset, AckEvents, HwType
  <2>4. HwType'
    <3>1. /\ setup_fifo' = <<>> /\ in_queue' = <<>> /\ out_fifo' = <<>>
          /\ out_enable' = TRUE /\ in_stall' = FALSE /\ usb_address' = 0
      BY <1>3 DEF IsrReset
    <3>2. /\ setup_fifo' \in AtMostOne(Request) /\ in_queue' \in AtMostOne(Packet)
          /\ out_fifo' \in AtMostOne(Packet)
      BY <3>1 DEF AtMostOne
    <3>3. out_enable' \in BOOLEAN /\ in_stall' \in BOOLEAN
      BY <3>1
    <3>4. usb_address' \in 0 .. 1
      BY <3>1
    <3> QED
      BY <2>3, <3>2, <3>3, <3>4 DEF HwType
  <2>5. DrvType'
    BY <1>1, <1>3, <2>1, <2>2 DEF IsrReset, DrvType
  <2> QED
    BY <1>1, <1>3, <2>4, <2>5 DEF IsrReset, mainVars, hostVars, MainType, HostType
<1>4. CASE IsrSetup
  <2>1. setup_packet' \in Request
    BY <1>1, <1>4, SomePackets DEF IsrSetup, HwType, DrvType, AtMostOne
  <2>2. setup_length' \in BOOLEAN /\ setup_fifo' \in AtMostOne(Request)
    BY <1>1, <1>4, SomePackets DEF IsrSetup, HwType, DrvType
  <2> QED
    BY <1>1, <1>4, <2>1, <2>2
       DEF IsrSetup, mainVars, hostVars, HwType, DrvType, MainType, HostType
<1>5. CASE IsrIn
  <2>1. tx' \in TxType /\ in_queue' \in AtMostOne(Packet)
    BY <1>1, <1>5, ProcessTxInside DEF IsrIn, HwType, DrvType
  <2> QED
    BY <1>1, <1>5, <2>1
       DEF IsrIn, mainVars, hostVars, HwType, DrvType, MainType, HostType
<1>6. CASE IsrOut
  <2>1. out_buffer' \in Packet /\ out_fifo' \in AtMostOne(Packet) /\ out_have' \in BOOLEAN
    BY <1>1, <1>6, SomePackets DEF IsrOut, OutHave, HwType, DrvType
  <2> QED
    BY <1>1, <1>6, <2>1
       DEF IsrOut, mainVars, hostVars, HwType, DrvType, MainType, HostType
<1>7. CASE IsrAck
  BY <1>1, <1>7
     DEF IsrAck, AckEvents, drvVars, mainVars, hostVars, HwType, DrvType, MainType, HostType
<1> QED
  BY <1>2, <1>3, <1>4, <1>5, <1>6, <1>7 DEF usb_isr

\* usb_poll, called from the main loop or from usb_wait_for_send_done.
LEMMA PollTypes ==
  ASSUME IInv, NEW caller \in {"poll", "detach"}, usb_poll(caller)
  PROVE  UsbTypeOK'
<1> SUFFICES HwType' /\ DrvType' /\ MainType' /\ HostType'
  BY TypeParts
<1>1. HwType /\ DrvType /\ MainType /\ HostType
  BY TypeParts DEF IInv
<1>2. HwType' /\ HostType'
  BY <1>1 DEF usb_poll, UnchangedInMain, hostVars, HwType, HostType
<1>3. DrvType' /\ MainType'
  BY <1>1 DEF usb_poll, UnchangedInMain, isrVars, DrvType, MainType
<1> QED
  BY <1>2, <1>3

\* The main thread.
LEMMA MainTypes ==
  ASSUME IInv, Main
  PROVE  UsbTypeOK'
<1> SUFFICES HwType' /\ DrvType' /\ MainType' /\ HostType'
  BY TypeParts
<1>1. HwType /\ DrvType /\ MainType /\ HostType
  BY TypeParts DEF IInv
<1>2. CASE Poll
  BY <1>2, PollTypes, TypeParts DEF Poll
<1>3. CASE Dispatch
  <2>1. rx' \in [left : 0 .. MaxData, offset : 0 .. MaxData + MAX_BYTES]
    <3>1. 0 \in 0 .. MaxData /\ 0 \in 0 .. MaxData + MAX_BYTES
      BY Bounds, Packets
    <3> QED
      BY <1>3, <3>1 DEF Dispatch
  <2>2. pc' \in {"send", "poll", "detach", "ack_in", "length"}
    BY <1>1, <1>3, Bounds DEF Dispatch, MainType, Kinds
  <2>3. out_enable' \in BOOLEAN
    BY <1>1, <1>3 DEF Dispatch, StallOut, HwType
  <2>4. in_stall' \in BOOLEAN
    BY <1>1, <1>3 DEF Dispatch, HwType
  <2>5. next_address' \in 0 .. 1
    BY <1>1, <1>3 DEF Dispatch, DrvType
  <2>6. HwType' /\ HostType'
    BY <1>1, <1>3, <2>3, <2>4 DEF Dispatch, UnchangedInMain, hostVars, HwType, HostType
  <2>7. req' \in ReadRequest
    <3>1. setup_packet = [kind |-> setup_packet.kind, wLength |-> setup_packet.wLength,
                          reply |-> setup_packet.reply, n |-> setup_packet.n]
      BY <1>1 DEF DrvType, Request, NoRequest
    <3>2. setup_packet \in ReadRequest
      BY <3>1, Bounds DEF ReadRequest
    <3> QED
      BY <1>3, <3>2 DEF Dispatch
  <2>8. DrvType' /\ MainType'
    BY <1>1, <1>3, <2>1, <2>2, <2>5, <2>7 DEF Dispatch, UnchangedInMain, isrVars, DrvType, MainType
  <2> QED
    BY <2>6, <2>8
<1>4. CASE SendDrain
  <2>1. tx' \in TxType /\ in_queue' \in AtMostOne(Packet)
    <3>1. CASE StillSending
      BY <1>4, <3>1, ProcessTxInside DEF SendDrain
    <3>2. CASE ~StillSending
      <4>1. req.n \in 0 .. MaxTransfers
        BY Bounds
      <4> QED
        BY <1>1, <1>4, <3>2, <4>1 DEF SendDrain, HwType, DrvType, TxType
    <3> QED
      BY <3>1, <3>2
  <2> QED
    BY <1>1, <1>4, <2>1
       DEF SendDrain, UnchangedInMain, isrVars, hostVars, HwType, DrvType, MainType, HostType
<1>5. CASE SendSetLength
  <2>1. tx' \in TxType
    <3>1. req.wLength \in 0 .. MaxData /\ req.reply \in 0 .. MaxData
      BY Bounds
    <3>2. ReplyLength \in 0 .. MaxData /\ 0 \in 0 .. MaxData /\ 0 \in 0 .. MAX_BYTES
      BY <3>1, Packets DEF ReplyLength, Smaller
    <3> QED
      BY <1>1, <1>5, <3>2 DEF SendSetLength, NewCursor, DrvType, TxType
  <2> QED
    BY <1>1, <1>5, <2>1
       DEF SendSetLength, UnchangedInMain, isrVars, hostVars, HwType, DrvType, MainType, HostType
<1>6. CASE SendCut
  <2>1. tx' \in TxType
    BY <1>1, <1>6, NextPacketInside DEF SendCut, CanTransmit, Active, DrvType, TxType
  <2> QED
    BY <1>1, <1>6, <2>1
       DEF SendCut, AfterSend, UnchangedInMain, isrVars, hostVars, HwType, DrvType, MainType, HostType
<1>7. CASE SendLoad
  <2>1. in_queue' \in AtMostOne(Packet)
    BY <1>1, <1>7, SomePackets DEF SendLoad, LoadPacket, QueueIn, HwType, DrvType, AtMostOne
  <2> QED
    BY <1>1, <1>7, <2>1
       DEF SendLoad, AfterSend, UnchangedInMain, isrVars, hostVars, HwType, DrvType, MainType, HostType
<1>8. CASE AckOut
  BY <1>1, <1>8
     DEF AckOut, usb_ack_out, UnchangedInMain, isrVars, hostVars, HwType, DrvType, MainType, HostType
<1>9. CASE AckIn
  <2>1. in_queue' \in AtMostOne(Packet)
    BY <1>1, <1>9, SomePackets DEF AckIn, usb_ack_in, QueueIn, HwType, AtMostOne
  <2> QED
    BY <1>1, <1>9, <2>1
       DEF AckIn, UnchangedInMain, isrVars, hostVars, HwType, DrvType, MainType, HostType
<1>10. CASE Recv
  <2>1. rx' \in [left : 0 .. MaxData, offset : 0 .. MaxData + MAX_BYTES]
    <3>1. /\ req.wLength \in Nat /\ req.wLength <= MaxData /\ MaxData \in Nat
          /\ out_buffer.len \in Nat /\ rx.left \in Nat /\ rx.offset \in Nat
      BY Bounds, Types, SMTT(30)
    <3>2. rx.offset + rx.left = req.wLength
      BY <1>10 DEF Recv, IInv, Always, ThreadAgrees
    <3>3. RecvLength \in Nat /\ RecvLength <= MAX_BYTES
      BY <3>1, Packets DEF RecvLength, Smaller
    <3>4. rx.left - RecvLength \in 0 .. MaxData \/ RecvLength > rx.left
      BY <3>1, <3>2, <3>3
    <3>5. rx.offset + RecvLength \in 0 .. MaxData + MAX_BYTES
      BY <3>1, <3>2, <3>3, Packets
    <3> QED
      BY <1>10, <3>1, <3>4, <3>5 DEF Recv
  <2> QED
    BY <1>1, <1>10, <2>1
       DEF Recv, usb_ack_out, UnchangedInMain, isrVars, hostVars, HwType, DrvType, MainType, HostType
<1>11. CASE RecvReset
  BY <1>1, <1>11
     DEF RecvReset, usb_ack_out, UnchangedInMain, isrVars, hostVars, HwType, DrvType, MainType, HostType
<1>12. CASE Detach
  <2>1. CASE DetachWait
    BY <1>12, <2>1, PollTypes, TypeParts DEF Detach
  <2>2. CASE ~DetachWait
    BY <1>1, <1>12, <2>2
       DEF Detach, UnchangedInMain, isrVars, hostVars, HwType, DrvType, MainType, HostType
  <2> QED
    BY <2>1, <2>2
<1>13. CASE TakeLength
  <2>1. rx' \in [left : 0 .. MaxData, offset : 0 .. MaxData + MAX_BYTES]
    <3>1. setup_packet.wLength \in 0 .. MaxData /\ 0 \in 0 .. MaxData + MAX_BYTES
      BY Bounds, Packets
    <3> QED
      BY <1>13, <3>1 DEF TakeLength
  <2>2. pc' \in {"send", "recv", "ack_in"}
    BY <1>13 DEF TakeLength
  <2>3. req' \in ReadRequest
    <3>1. setup_packet.wLength \in 0 .. MaxData
      BY Bounds
    <3> QED
      BY <1>1, <1>13, <3>1 DEF TakeLength, MainType, ReadRequest
  <2>4. HwType' /\ DrvType' /\ HostType'
    BY <1>1, <1>13 DEF TakeLength, UnchangedInMain, hostVars, HwType, DrvType, HostType
  <2>5. MainType'
    BY <1>1, <1>13, <2>1, <2>2, <2>3 DEF TakeLength, UnchangedInMain, isrVars, MainType
  <2> QED
    BY <2>4, <2>5
<1> QED
  BY <1>2, <1>3, <1>4, <1>5, <1>6, <1>7, <1>8, <1>9, <1>10, <1>11, <1>12, <1>13 DEF Main

\* The host, which may lose count only by a packet of another transfer.
LEMMA HostTypes ==
  ASSUME IInv, Host \/ GiveUp \/ (\E r \in Requests : HostSetup(r)) \/ BusReset
  PROVE  UsbTypeOK'
<1> SUFFICES HwType' /\ DrvType' /\ MainType' /\ HostType'
  BY TypeParts
<1>1. HwType /\ DrvType /\ MainType /\ HostType
  BY TypeParts DEF IInv
<1>2. CASE HostIn
  <2>1. moved' \in 0 .. MaxData + MAX_BYTES
    <3>1. CASE stage = "data"
      <4>1. moved \in Nat /\ xfer.wLength \in Nat /\ xfer.wLength <= MaxData /\ MaxData \in Nat
        BY Types, Bounds
      <4>2. in_queue[1].len \in Nat /\ in_queue[1].len <= MAX_BYTES
        BY <1>2, Bounds, Packets DEF HostIn, PacketTaken, InIdle
      <4>3. moved < xfer.wLength
        BY <3>1 DEF IInv, Always, HostAgrees
      <4>4. moved' = moved + in_queue[1].len
        BY <1>2, <3>1 DEF HostIn
      <4> QED
        BY <4>1, <4>2, <4>3, <4>4, Packets
    <3>2. CASE stage # "data"
      BY <1>1, <1>2, <3>2 DEF HostIn, HostType
    <3> QED
      BY <3>1, <3>2
  <2> QED
    BY <1>1, <1>2, <2>1
       DEF HostIn, PacketTaken, UnchangedByHost, drvVars, isrVars, mainVars, HwType, DrvType,
           MainType, HostType,
           Events, AtMostOne
<1>3. CASE HostStalled
  BY <1>1, <1>3
     DEF HostStalled, UnchangedByHost, hwVars, drvVars, isrVars, mainVars, HwType, DrvType,
         MainType, HostType
<1>4. CASE HostOut
  <2>1. /\ moved' \in 0 .. MaxData + MAX_BYTES /\ out_fifo' \in AtMostOne(Packet)
        /\ stage' \in {"idle", "data", "status"}
    <3>1. CASE stage = "data"
      <4> DEFINE len == Smaller(MAX_BYTES, xfer.wLength - moved)
      <4>1. moved \in Nat /\ xfer.wLength \in Nat /\ xfer.wLength <= MaxData /\ MaxData \in Nat
        BY Types, Bounds
      <4>2. moved < xfer.wLength
        BY <3>1 DEF IInv, Always, HostAgrees
      <4>3. len \in 0 .. MAX_BYTES /\ moved \in 0 .. MaxData /\ moved + len \in 0 .. MaxData + MAX_BYTES
        BY <4>1, <4>2, Packets DEF Smaller
      <4>4. [n |-> xfer.n, from |-> moved, len |-> len] \in Packet
        BY <4>3, Bounds DEF Packet
      <4>5. /\ moved' = moved + len /\ out_fifo' = <<[n |-> xfer.n, from |-> moved, len |-> len]>>
            /\ stage' \in {"data", "status"}
        BY <1>4, <3>1 DEF HostOut, PacketArrives
      <4> HIDE DEF len
      <4> QED
        BY <4>3, <4>4, <4>5 DEF AtMostOne
    <3>2. CASE stage # "data"
      BY <1>1, <1>4, <3>2, SomePackets DEF HostOut, PacketArrives, HostType, AtMostOne
    <3> QED
      BY <3>1, <3>2
  <2>2. /\ pending' \subseteq Events /\ out_enable' = FALSE
        /\ UNCHANGED <<setup_fifo, in_queue, in_stall, usb_address>>
    BY <1>1, <1>4 DEF HostOut, PacketArrives, HwType, Events
  <2>3. HwType'
    BY <1>1, <2>1, <2>2 DEF HwType
  <2> QED
    BY <1>1, <1>4, <2>1, <2>3
       DEF HostOut, UnchangedByHost, drvVars, isrVars, mainVars, DrvType, MainType, HostType
<1>5. CASE GiveUp
  BY <1>1, <1>5
     DEF GiveUp, UnchangedByHost, hwVars, drvVars, isrVars, mainVars, HwType, DrvType, MainType,
         HostType
<1>6. ASSUME NEW r \in Requests, HostSetup(r) PROVE HwType' /\ DrvType' /\ MainType' /\ HostType'
  <2>1. xfer' \in Request
    <3>1. xfer.n \in Nat /\ xfer.n < MaxTransfers /\ MaxTransfers \in Nat
      BY <1>6, Types, Bounds DEF HostSetup
    <3>2. xfer.n + 1 \in 1 .. MaxTransfers
      BY <3>1
    <3> QED
      BY <1>6, <3>2 DEF HostSetup, Request
  <2>2. setup_fifo' \in AtMostOne(Request)
    BY <1>6, <2>1 DEF HostSetup, SetupArrives, AtMostOne
  <2>3. moved' \in 0 .. MaxData + MAX_BYTES
    BY <1>6, Packets DEF HostSetup
  <2>4. /\ in_stall' \in BOOLEAN /\ pending' \subseteq Events
        /\ UNCHANGED <<in_queue, out_fifo, out_enable, usb_address>>
    BY <1>1, <1>6 DEF HostSetup, SetupArrives, HwType, Events
  <2>5. stage' \in {"data", "status"} /\ recovering' \in BOOLEAN /\ disturbed' \in BOOLEAN
    BY <1>6 DEF HostSetup
  <2> QED
    BY <1>1, <1>6, <2>1, <2>2, <2>3, <2>4, <2>5
       DEF HostSetup, drvVars, isrVars, mainVars, HwType, DrvType, MainType, HostType
<1>7. CASE BusReset
  <2>1. resets' \in 0 .. MaxResets
    <3>1. resets \in 0 .. MaxResets /\ MaxResets \in Nat
      BY <1>1, RequestAssumption DEF HostType
    <3> QED
      BY <1>7, <3>1 DEF BusReset
  <2> QED
    BY <1>1, <1>7, <2>1
       DEF BusReset, ResetSignalled, drvVars, isrVars, mainVars, HwType, DrvType, MainType,
           HostType, Events
<1> QED
  BY <1>2, <1>3, <1>4, <1>5, <1>6, <1>7 DEF Host

\* No step of the interrupt handler ...
LEMMA IsrAlways ==
  ASSUME IInv, usb_isr
  PROVE  Always'
<1>1. EventsRead /\ CursorInside /\ ThreadAgrees /\ OutOnce /\ HostAgrees /\ ResetBetween
  BY DEF IInv, Always
<1>2. CASE IsrEnter
  <2>1. EventsRead' /\ CursorInside' /\ ThreadAgrees'
    BY <1>1, <1>2
       DEF IsrEnter, drvVars, mainVars, EventsRead, CursorInside, ThreadAgrees, Active, hwVars
  <2>2. OutOnce' /\ HostAgrees' /\ ResetBetween'
    BY <1>1, <1>2
       DEF IsrEnter, hwVars, drvVars, mainVars, hostVars, EventsRead, OutOnce, HostAgrees, ResetBetween
  <2> QED
    BY <2>1, <2>2 DEF Always
<1>3. CASE IsrReset
  <2>1. EventsRead' /\ CursorInside' /\ ThreadAgrees'
    <3>1. ~Active'
      BY <1>3, Types DEF IsrReset, Active
    <3> QED
      BY <1>1, <1>3, <3>1 DEF IsrReset, mainVars, AckEvents, EventsRead, CursorInside, ThreadAgrees
  <2>2. OutOnce' /\ HostAgrees' /\ ResetBetween'
    BY <1>1, <1>3
       DEF IsrReset, AckEvents, mainVars, hostVars, OutOnce, HostAgrees, ResetBetween
  <2> QED
    BY <2>1, <2>2 DEF Always
<1>4. CASE IsrSetup
  <2>1. EventsRead' /\ CursorInside' /\ ThreadAgrees'
    BY <1>1, <1>4 DEF IsrSetup, mainVars, EventsRead, CursorInside, ThreadAgrees, Active
  <2>2. OutOnce' /\ HostAgrees' /\ ResetBetween'
    BY <1>1, <1>4 DEF IsrSetup, mainVars, hostVars, EventsRead, OutOnce, HostAgrees, ResetBetween
  <2> QED
    BY <2>1, <2>2 DEF Always
<1>5. CASE IsrIn
  <2>1. CursorInside'
    BY <1>1, <1>5, ProcessTxInside DEF IsrIn, CursorInside, Active
  <2>2. EventsRead' /\ ThreadAgrees'
    BY <1>1, <1>5 DEF IsrIn, mainVars, EventsRead, ThreadAgrees
  <2>3. OutOnce' /\ HostAgrees' /\ ResetBetween'
    BY <1>1, <1>5 DEF IsrIn, mainVars, hostVars, EventsRead, OutOnce, HostAgrees, ResetBetween
  <2> QED
    BY <2>1, <2>2, <2>3 DEF Always
<1>6. CASE IsrOut
  <2>1. EventsRead' /\ CursorInside' /\ ThreadAgrees'
    BY <1>1, <1>6 DEF IsrOut, mainVars, EventsRead, CursorInside, ThreadAgrees, Active
  <2>2. HostAgrees' /\ ResetBetween'
    BY <1>1, <1>6 DEF IsrOut, mainVars, hostVars, HostAgrees, ResetBetween
  <2>3. OutOnce'
    BY <1>1, <1>6 DEF IsrOut, RxAccepts, OutHave, EventsRead, OutOnce
  <2> QED
    BY <2>1, <2>2, <2>3 DEF Always
<1>7. CASE IsrAck
  <2>1. EventsRead' /\ CursorInside' /\ ThreadAgrees'
    BY <1>1, <1>7 DEF IsrAck, AckEvents, WriteBack, drvVars, mainVars, EventsRead, CursorInside,
                      ThreadAgrees, Active
  <2>2. OutOnce' /\ HostAgrees' /\ ResetBetween'
    BY <1>1, <1>7
       DEF IsrAck, AckEvents, WriteBack, drvVars, mainVars, hostVars, EventsRead, OutOnce,
           HostAgrees, ResetBetween
  <2> QED
    BY <2>1, <2>2 DEF Always
<1> QED
  BY <1>2, <1>3, <1>4, <1>5, <1>6, <1>7 DEF usb_isr

\* ... no step of the main thread ...
LEMMA MainAlways ==
  ASSUME IInv, Main
  PROVE  Always'
<1>1. EventsRead /\ CursorInside /\ ThreadAgrees /\ OutOnce /\ HostAgrees /\ ResetBetween
  BY DEF IInv, Always
<1>2. MainRuns /\ UnchangedInMain
  BY DEF Main, Poll, Dispatch, TakeLength, SendDrain, SendSetLength, SendCut, SendLoad, AckOut, AckIn, Recv,
         RecvReset,
         Detach, usb_poll
<1>3. EventsRead' /\ HostAgrees'
  BY <1>1, <1>2 DEF UnchangedInMain, isrVars, hostVars, EventsRead, HostAgrees
<1>4. ResetBetween'
  BY <1>2 DEF UnchangedInMain, MainRuns, ResetBetween
<1>5. OutOnce'
  <2>1. out_fifo = <<>> /\ pending' = {} /\ out_fifo' = <<>>
    BY <1>1, <1>2 DEF MainRuns, UnchangedInMain, OutOnce
  <2>2. out_enable' => out_enable \/ ~out_have'
    BY DEF Main, Poll, Dispatch, TakeLength, StallOut, SendDrain, SendSetLength, SendCut, SendLoad, AckOut,
           AckIn, Recv,
           RecvReset, Detach, usb_poll, usb_ack_out
  <2>3. out_have' => out_have
    BY DEF Main, Poll, Dispatch, TakeLength, StallOut, SendDrain, SendSetLength, SendCut, SendLoad, AckOut,
           AckIn, Recv,
           RecvReset, Detach, usb_poll, usb_ack_out
  <2> QED
    BY <1>1, <2>1, <2>2, <2>3 DEF OutOnce
<1>6. CursorInside'
  <2>1. CASE SendDrain
    <3>1. CASE StillSending
      BY <2>1, <3>1, ProcessTxInside DEF SendDrain, CursorInside
    <3>2. CASE ~StillSending
      <4>1. tx'.length = 0
        BY <2>1, <3>2, Types DEF SendDrain, StillSending
      <4> QED
        BY <4>1 DEF CursorInside, Active
    <3> QED
      BY <3>1, <3>2
  <2>2. CASE SendSetLength
    <3>1. tx'.offset = 0 /\ tx'.to_send = 0 /\ tx'.length = ReplyLength
      BY <2>2, Types DEF SendSetLength, NewCursor
    <3>2. ReplyLength \in Nat
      <4>1. req.wLength \in Nat /\ req.reply \in Nat
        BY Types
      <4> QED
        BY <4>1 DEF ReplyLength, Smaller
    <3> QED
      BY <3>1, <3>2 DEF CursorInside
  <2>3. CASE SendCut
    BY <1>1, <2>3, NextPacketInside DEF SendCut, CanTransmit, CursorInside, Active
  <2>4. CASE UNCHANGED tx
    BY <1>1, <2>4 DEF CursorInside, Active
  <2> QED
    BY <2>1, <2>2, <2>3, <2>4
       DEF Main, Poll, Dispatch, TakeLength, SendLoad, AckOut, AckIn, Recv, RecvReset, Detach, usb_poll
<1>7. ThreadAgrees'
  <2>1. CASE Poll \/ Detach
    BY <1>1, <2>1 DEF Poll, Detach, usb_poll, ThreadAgrees
  <2>2. CASE Dispatch
    <3>1. setup_packet.kind \in Kinds /\ home \in {"poll", "detach"}
      BY Types
    <3>2. /\ req'.kind = setup_packet.kind
          /\ pc' = CASE setup_packet.kind \in {"get", "dnload"} -> "length"
                     [] setup_packet.kind = "getstatus_reset" -> "send"
                     [] setup_packet.kind \in {"get_stalled", "set_stalled"} -> home
                     [] setup_packet.kind \in {"set", "set_address", "detach"} -> "ack_in"
      BY <2>2 DEF Dispatch
    <3>3. /\ pc' = "length" => req'.kind \in {"get", "dnload"}
          /\ pc' = "send" => req'.kind = "getstatus_reset"
          /\ pc' = "ack_in" => req'.kind \in {"set", "set_address", "detach"}
          /\ pc' \in {"length", "send", "ack_in", "poll", "detach"}
      BY <3>1, <3>2 DEF Kinds
    <3> QED
      BY <3>3 DEF ThreadAgrees
  <2>7. CASE TakeLength
    <3>1. setup_packet.wLength \in Nat /\ req \in ReadRequest
      BY Types DEF IInv, UsbTypeOK
    <3>2. /\ req'.kind = req.kind /\ req'.wLength = setup_packet.wLength
          /\ rx'.left = setup_packet.wLength /\ rx'.offset = 0
      BY <2>7, <3>1 DEF TakeLength, ReadRequest
    <3>3. pc' = CASE req.kind = "get" -> "send"
                  [] req.kind = "dnload" /\ setup_packet.wLength > 0 -> "recv"
                  [] OTHER -> "ack_in"
      BY <2>7 DEF TakeLength
    <3>4. req.kind \in {"get", "dnload"}
      BY <1>1, <2>7 DEF TakeLength, ThreadAgrees
    <3>5. /\ pc' \in {"send", "recv", "ack_in"}
          /\ pc' = "send" => req'.kind = "get"
          /\ pc' = "recv" => req'.kind = "dnload" /\ setup_packet.wLength > 0
          /\ pc' = "ack_in" => req'.kind = "dnload"
      BY <3>2, <3>3, <3>4
    <3>6. pc' = "recv" => rx'.left > 0 /\ rx'.offset + rx'.left = req'.wLength
      BY <3>1, <3>2, <3>5
    <3> QED
      BY <3>5, <3>6 DEF ThreadAgrees
  <2>3. CASE SendDrain \/ SendSetLength \/ SendCut \/ SendLoad
    BY <1>1, <2>3 DEF SendDrain, SendSetLength, SendCut, SendLoad, AfterSend, ThreadAgrees
  <2>4. CASE AckOut \/ AckIn
    BY <1>1, <2>4, Types DEF AckOut, AckIn, ThreadAgrees
  <2>5. CASE Recv
    <3>1. /\ req.wLength \in Nat /\ rx.left \in Nat /\ rx.offset \in Nat /\ out_buffer.len \in Nat
      BY Types
    <3>2. req.kind = "dnload" /\ rx.offset + rx.left = req.wLength /\ req' = req
      BY <1>1, <2>5 DEF Recv, ThreadAgrees
    <3>3. RecvLength \in Nat
      BY <3>1, Packets DEF RecvLength, Smaller
    <3>4. /\ rx'.left = IF RecvLength > rx.left THEN 0 ELSE rx.left - RecvLength
          /\ rx'.offset = rx.offset + RecvLength
          /\ pc' = IF rx'.left > 0 THEN "recv" ELSE "ack_in"
      BY <2>5 DEF Recv
    <3>5. pc' = "recv" => rx'.left > 0 /\ rx'.offset + rx'.left = req.wLength
      BY <3>1, <3>2, <3>3, <3>4
    <3>6. pc' \in {"recv", "ack_in"}
      BY <3>4
    <3> QED
      BY <3>2, <3>5, <3>6 DEF ThreadAgrees
  <2>6. CASE RecvReset
    BY <2>6 DEF RecvReset, ThreadAgrees
  <2> QED
    BY <2>1, <2>2, <2>3, <2>4, <2>5, <2>6, <2>7 DEF Main
<1> QED
  BY <1>3, <1>4, <1>5, <1>6, <1>7 DEF Always

\* ... and no step of the host disturbs these.
LEMMA HostAlways ==
  ASSUME IInv, Host \/ GiveUp \/ (\E r \in Requests : HostSetup(r)) \/ BusReset
  PROVE  Always'
<1>1. EventsRead /\ CursorInside /\ ThreadAgrees /\ OutOnce /\ HostAgrees /\ ResetBetween
  BY DEF IInv, Always
<1>2. UNCHANGED <<tx, pc, req, rx, isr, latched, out_have>>
  BY DEF Host, HostIn, HostStalled, HostOut, GiveUp, HostSetup, BusReset, UnchangedByHost, drvVars,
         isrVars, mainVars
<1>3. CursorInside' /\ ThreadAgrees'
  BY <1>1, <1>2 DEF CursorInside, ThreadAgrees, Active
<1>4. pending \subseteq pending'
  BY DEF Host, HostIn, PacketTaken, HostStalled, HostOut, PacketArrives, GiveUp, HostSetup,
         SetupArrives, BusReset,
         ResetSignalled, hwVars
<1>5. EventsRead'
  BY <1>1, <1>2, <1>4 DEF EventsRead
<1>6. CASE HostIn
  <2>1. stage # "idle" /\ (stage = "data" => xfer.kind \in InKinds)
    BY <1>6 DEF HostIn, ExpectsIn
  <2>2. stage' \in {"idle", "status"} \/ (stage' = "data" /\ moved' < xfer.wLength /\ stage = "data")
    <3>1. CASE stage = "data"
      <4>1. /\ moved' = moved + in_queue[1].len
            /\ stage' = (IF in_queue[1].len < MAX_BYTES \/ moved' >= xfer.wLength THEN "status" ELSE "data")
        BY <1>6, <3>1 DEF HostIn
      <4>2. moved' \in Nat /\ xfer.wLength \in Nat
        <5>1. moved \in Nat /\ xfer.wLength \in Nat
          BY Types
        <5>2. in_queue[1].len \in Nat
          BY <1>6, Bounds, Packets DEF HostIn, PacketTaken, InIdle
        <5> QED
          BY <4>1, <5>1, <5>2
      <4> QED
        BY <3>1, <4>1, <4>2
    <3>2. CASE stage # "data"
      BY <1>6, <3>2 DEF HostIn
    <3> QED
      BY <3>1, <3>2
  <2>3. stage' = "status" => stage = "data"
    BY <1>6 DEF HostIn
  <2>4. HostAgrees'
    BY <1>1, <1>6, <2>1, <2>2, <2>3 DEF HostIn, HostAgrees, InKinds
  <2>5. OutOnce' /\ ResetBetween'
    BY <1>1, <1>2, <1>6, <2>1 DEF HostIn, PacketTaken, UnchangedByHost, OutOnce, ResetBetween
  <2> QED
    BY <1>3, <1>5, <2>4, <2>5 DEF Always
<1>7. CASE HostStalled \/ GiveUp
  <2>1. /\ stage # "idle" /\ stage' = "idle"
        /\ UNCHANGED <<out_enable, out_fifo, pending, recovering, disturbed>>
    BY <1>7 DEF HostStalled, GiveUp, ExpectsIn, UnchangedByHost, hwVars
  <2> QED
    BY <1>1, <1>2, <1>3, <1>5, <2>1 DEF Always, OutOnce, HostAgrees, ResetBetween
<1>8. CASE HostOut
  <2>1. stage # "idle" /\ ~ExpectsIn /\ out_enable /\ ~out_enable' /\ pending' = pending \cup {"out"}
        /\ UNCHANGED <<xfer, recovering, disturbed>>
    BY <1>8 DEF HostOut, PacketArrives, UnchangedByHost
  <2>2. OutOnce'
    BY <1>1, <1>2, <2>1 DEF OutOnce, EventsRead
  <2>3. HostAgrees'
    <3>1. CASE stage = "data"
      <4> DEFINE len == Smaller(MAX_BYTES, xfer.wLength - moved)
      <4>1. moved \in Nat /\ xfer.wLength \in Nat /\ moved < xfer.wLength
        BY <1>1, <3>1, Types DEF HostAgrees
      <4>2. moved + len \in Nat /\ moved + len <= xfer.wLength
        BY <4>1, Packets DEF Smaller
      <4>3. moved' = moved + len /\ stage' = IF moved' = xfer.wLength THEN "status" ELSE "data"
        BY <1>8, <3>1 DEF HostOut
      <4> HIDE DEF len
      <4>4. /\ stage' = "data" => moved' < xfer.wLength
            /\ stage' = "status" => moved' = xfer.wLength
        BY <4>1, <4>2, <4>3
      <4> QED
        BY <1>1, <2>1, <4>4 DEF HostAgrees
    <3>2. CASE stage # "data"
      BY <1>1, <1>8, <2>1, <3>2 DEF HostOut, HostAgrees
    <3> QED
      BY <3>1, <3>2
  <2>4. ResetBetween'
    BY <1>1, <1>2, <2>1 DEF ResetBetween
  <2> QED
    BY <1>3, <1>5, <2>2, <2>3, <2>4 DEF Always
<1>9. ASSUME NEW r \in Requests, HostSetup(r) PROVE Always'
  <2>1. /\ stage' = (IF r.wLength > 0 THEN "data" ELSE "status") /\ moved' = 0 /\ ~recovering'
        /\ xfer'.kind = r.kind /\ xfer'.wLength = r.wLength /\ xfer'.n = xfer.n + 1
        /\ pending' = pending \cup {"setup"} /\ UNCHANGED <<out_fifo, out_enable>>
        /\ disturbed' = (disturbed \/ ~InIdle \/ tx.empty) /\ stage = "idle"
        /\ (recovering => pending = {})
    BY <1>9 DEF HostSetup, SetupArrives, Recovered, MainRuns
  <2>2. r.wLength \in Nat /\ (r.kind = "dnload" => r.wLength > 0) /\ xfer'.n # 0
    <3>1. xfer.n \in Nat
      BY Types
    <3> QED
      BY <2>1, <3>1, RequestAssumption
  <2>3. HostAgrees'
    BY <2>1, <2>2 DEF HostAgrees
  <2>4. OutOnce' /\ ResetBetween'
    BY <1>1, <1>2, <2>1 DEF OutOnce, ResetBetween
  <2> QED
    BY <1>3, <1>5, <2>3, <2>4 DEF Always
<1>10. CASE BusReset
  <2>1. HostAgrees' /\ OutOnce'
    BY <1>1, <1>2, <1>10 DEF BusReset, ResetSignalled, HostAgrees, OutOnce
  <2>2. ResetBetween'
    BY <1>2, <1>10 DEF BusReset, BetweenRequests, ResetBetween
  <2> QED
    BY <1>3, <1>5, <2>1, <2>2 DEF Always
<1> QED
  BY <1>6, <1>7, <1>8, <1>9, <1>10 DEF Host

-----------------------------------------------------------------------------
(* The theorems. *)

\* The invariant holds at the start.
LEMMA InitInv == Init => IInv
<1> SUFFICES ASSUME Init PROVE IInv
  OBVIOUS
<1>1. UsbTypeOK
  <2> /\ Zlp \in Packet /\ NoRequest \in Request
    BY SomePackets
  <2> /\ 0 \in 0 .. MaxTransfers /\ 0 \in 0 .. MaxData /\ 0 \in 0 .. MAX_BYTES /\ 0 \in 0 .. MaxResets
      /\ 0 \in 0 .. MaxData + MAX_BYTES
    BY EptriAssumption, RequestAssumption
  <2> 0 \in 0 .. 1
    OBVIOUS
  <2> /\ out_enable \in BOOLEAN /\ in_stall \in BOOLEAN /\ setup_length \in BOOLEAN
      /\ out_have \in BOOLEAN
      /\ recovering \in BOOLEAN /\ disturbed \in BOOLEAN
    BY DEF Init
  <2>1. HwType
    BY DEF Init, HwType, AtMostOne
  <2>2. MainType
    <3>1. NoRequest \in ReadRequest
      BY EptriAssumption DEF NoRequest, ReadRequest, Kinds
    <3>2. [left |-> 0, offset |-> 0] \in [left : 0 .. MaxData, offset : 0 .. MaxData + MAX_BYTES]
      BY EptriAssumption
    <3> QED
      BY <3>1, <3>2 DEF Init, MainType
  <2>3. tx \in TxType
    BY DEF Init, TxType, Null
  <2>4. DrvType
    BY <2>3 DEF Init, DrvType
  <2>5. HostType
    BY DEF Init, HostType
  <2> QED
    BY <2>1, <2>2, <2>4, <2>5, TypeParts
<1>2. Always
  BY DEF Init, Always, EventsRead, CursorInside, ThreadAgrees, OutOnce, HostAgrees, ResetBetween,
         Active, Null
<1>3. ~Fresh /\ ~Active /\ InIdle /\ ~SetupDue
  BY DEF Init, Fresh, Active, InIdle, Null, SetupDue
<1>4. SetupPath /\ RequestTaken /\ NothingSent /\ SendSteps
  BY <1>3 DEF Init, SetupPath, RequestTaken, NothingSent, SendSteps, Untouched, Null
<1>5. ReplyCursor /\ InQueue /\ StalledRead /\ ReadWhole /\ AckOutLast /\ OutPath
  BY <1>3 DEF Init, ReplyCursor, InQueue, StalledRead, ReadWhole, AckOutLast, OutPath, NoRequest
<1> QED
  BY <1>1, <1>2, <1>4, <1>5 DEF IInv, LiveInv

\* Every step keeps it.
LEMMA NextInv == IInv /\ [Next]_vars => IInv'
<1> SUFFICES ASSUME IInv, [Next]_vars PROVE IInv'
  OBVIOUS
<1>1. CASE usb_isr
  BY <1>1, IsrTypes, IsrAlways, IsrEnterLive, IsrResetLive, IsrSetupLive, IsrInLive, IsrOutLive,
     IsrAckLive
     DEF usb_isr, IInv
<1>2. CASE Main
  BY <1>2, MainTypes, MainAlways, MainLive DEF IInv
<1>3. CASE Host
  BY <1>3, HostTypes, HostAlways, HostInLive, HostStalledLive, HostOutLive DEF Host, IInv
<1>4. CASE GiveUp
  BY <1>4, HostTypes, HostAlways, GiveUpLive DEF IInv
<1>5. CASE \E r \in Requests : HostSetup(r)
  BY <1>5, HostTypes, HostAlways, HostSetupLive DEF IInv
<1>6. CASE BusReset
  <2>1. ~Live'
    BY <1>6 DEF BusReset, ResetSignalled, Live
  <2> QED
    BY <1>6, <2>1, HostTypes, HostAlways DEF IInv
<1>7. CASE UNCHANGED vars
  <2>1. UsbTypeOK'
    BY <1>7, TypeParts
       DEF vars, hwVars, drvVars, isrVars, mainVars, hostVars, HwType, DrvType, MainType, HostType, IInv
  <2>2. Always'
    BY <1>7
       DEF vars, hwVars, drvVars, isrVars, mainVars, hostVars, IInv, Always, EventsRead, CursorInside,
                ThreadAgrees, OutOnce, HostAgrees, ResetBetween, Active
  <2>3. (Live' <=> Live) /\ (LiveInv' <=> LiveInv)
    <3>1. /\ (Fresh' <=> Fresh) /\ (Stuck' <=> Stuck) /\ (SetupDue' <=> SetupDue) /\ (InDue' <=> InDue)
          /\ (Active' <=> Active) /\ (Finished' <=> Finished) /\ (Untouched' <=> Untouched)
          /\ (Live' <=> Live)
          /\ (InIdle' <=> InIdle) /\ (First' <=> First) /\ Total' = Total /\ Got' = Got
      BY <1>7 DEF vars, hwVars, drvVars, isrVars, mainVars, hostVars, Fresh, Stuck, SendWaits,
                  RecvWaits, OutHave,
                  SetupDue, InDue, Active, Finished, Untouched, Live, InIdle, First, Total, Got
    <3>2. /\ SetupPath' <=> SetupPath
          /\ RequestTaken' <=> RequestTaken
          /\ NothingSent' <=> NothingSent
          /\ SendSteps' <=> SendSteps
      BY <1>7, <3>1
         DEF vars, hwVars, drvVars, isrVars, mainVars, hostVars, SetupPath, RequestTaken, NothingSent,
                        SendSteps
    <3>3. (ReplyCursor' <=> ReplyCursor) /\ (InQueue' <=> InQueue)
      BY <1>7, <3>1
         DEF vars, hwVars, drvVars, isrVars, mainVars, hostVars, ReplyCursor, Unfinished, OfReply,
                        InQueue, TxPacket, AckPacket
    <3>4. /\ StalledRead' <=> StalledRead
          /\ ReadWhole' <=> ReadWhole
          /\ AckOutLast' <=> AckOutLast
          /\ OutPath' <=> OutPath
      BY <1>7, <3>1
         DEF vars, hwVars, drvVars, isrVars, mainVars, hostVars, StalledRead, ReadWhole, AckOutLast,
                        OutPath, InFlight
    <3> QED
      BY <3>1, <3>2, <3>3, <3>4 DEF LiveInv
  <2> QED
    BY <2>1, <2>2, <2>3 DEF IInv
<1> QED
  BY <1>1, <1>2, <1>3, <1>4, <1>5, <1>6, <1>7 DEF Next

\* The invariant holds in every reachable state.
THEOREM UsbInvariant == Spec => []IInv
  BY InitInv, NextInv, PTL DEF Spec

\* Every variable of the driver and of the host keeps its type.
THEOREM UsbTypeCorrect == Spec => []UsbTypeOK
<1>1. IInv => UsbTypeOK
  BY DEF IInv
<1> QED
  BY <1>1, UsbInvariant, PTL

\* A host reads the reply to its request, from the beginning, without gaps
\* or repetitions, and to the end.
THEOREM RepliesAreRight == Spec => []RightReply
<1>1. ASSUME IInv PROVE RightReply
  <2> SUFFICES ASSUME ~disturbed, xfer.kind \in InKinds
               PROVE  /\ stage = "data" /\ ~InIdle => in_queue[1].n = xfer.n /\ in_queue[1].from = moved
                      /\ stage = "status" => moved = Smaller(xfer.reply, xfer.wLength)
    BY DEF RightReply
  <2>1. CASE "reset" \in pending
    BY <1>1, <2>1 DEF IInv, Always, ResetBetween
  <2>2. CASE "reset" \notin pending
    <3>1. LiveInv
      BY <1>1, <2>2 DEF IInv, Live
    <3>2. stage = "data" /\ ~InIdle => in_queue[1].n = xfer.n /\ in_queue[1].from = moved
      BY <3>1 DEF LiveInv, InQueue, TxPacket, AckPacket, OfReply
    <3>3. stage = "status" => moved = Smaller(xfer.reply, xfer.wLength)
      BY <3>1 DEF LiveInv, ReadWhole, Total
    <3> QED
      BY <3>2, <3>3
  <2> QED
    BY <2>1, <2>2
<1> QED
  BY <1>1, UsbInvariant, PTL

\* dfu_download is given the bytes of the data stage of its request, each at
\* its offset, and the request is acknowledged when all have come.
THEOREM BlocksInOrder == Spec => []BlockInOrder
<1>1. ASSUME IInv PROVE BlockInOrder
  <2> SUFFICES ASSUME ~disturbed
               PROVE  /\ pc = "recv" /\ out_have /\ out_buffer.len > 0 =>
                           out_buffer.n = req.n /\ out_buffer.from = rx.offset
                      /\ pc = "ack_in" /\ req.kind = "dnload" => rx.offset = req.wLength /\ req = xfer
    BY DEF BlockInOrder
  <2>1. CASE "reset" \in pending
    BY <1>1, <2>1 DEF IInv, Always, ResetBetween
  <2>2. CASE "reset" \notin pending
    <3>1. LiveInv
      BY <1>1, <2>2 DEF IInv, Live
    <3>2. ASSUME pc = "recv", out_have, out_buffer.len > 0
          PROVE  out_buffer.n = req.n /\ out_buffer.from = rx.offset
      <4>1. ~Stuck /\ req = xfer /\ ~Fresh
        BY <3>1, <3>2 DEF Stuck, SendWaits, RecvWaits, LiveInv, RequestTaken
      <4>2. InFlight(out_buffer) /\ Got = rx.offset
        BY <3>1, <3>2, <4>1 DEF LiveInv, OutPath, Got
      <4> QED
        BY <4>1, <4>2 DEF InFlight
    <3>3. ASSUME pc = "ack_in", req.kind = "dnload"
          PROVE  rx.offset = req.wLength /\ req = xfer
      BY <3>1, <3>3 DEF Stuck, SendWaits, RecvWaits, LiveInv, RequestTaken, OutPath
    <3> QED
      BY <3>2, <3>3
  <2> QED
    BY <2>1, <2>2
<1> QED
  BY <1>1, UsbInvariant, PTL

\* Between two transfers no packet waits for the host but the empty one that
\* closes a reply of whole packets of which the host has asked for no more.
THEOREM NothingIsLeft == Spec => []NothingLeftBehind
<1>1. ASSUME IInv PROVE NothingLeftBehind
  <2> SUFFICES ASSUME ~disturbed, stage = "idle", "reset" \notin pending, ~InIdle
               PROVE  /\ xfer.kind \in {"get", "getstatus_reset"} /\ xfer.wLength <= xfer.reply
                      /\ xfer.wLength % MAX_BYTES = 0 /\ in_queue[1].len = 0
    BY DEF NothingLeftBehind
  <2>1. TxPacket
    BY <1>1 DEF IInv, Live, LiveInv, InQueue, AckPacket
  <2>2. /\ xfer.kind \in {"get", "getstatus_reset"} /\ in_queue[1].len = 0
        /\ xfer.wLength = MAX_BYTES /\ Total = MAX_BYTES
    BY <2>1 DEF TxPacket, OfReply
  <2>3. xfer.wLength <= xfer.reply
    <3>1. xfer.reply \in Nat /\ xfer.wLength \in Nat
      BY <1>1, Types
    <3> QED
      BY <2>2, <3>1 DEF Total, Smaller
  <2>4. MAX_BYTES % MAX_BYTES = 0
    BY Packets
  <2> QED
    BY <2>2, <2>3, <2>4
<1> QED
  BY <1>1, UsbInvariant, PTL
=============================================================================
