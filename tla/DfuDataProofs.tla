--------------------------- MODULE DfuDataProofs ---------------------------
(***************************************************************************)
(* Proofs about the data of a download: a block that was accepted is in    *)
(* memory when the engine is idle and when the host is told so, and the    *)
(* engine implements BlockStore.                                           *)
(***************************************************************************)
EXTENDS DfuProofs

\* The inductive invariant: Safe, and where the bytes of a block are.
Kept == Safe /\ AcceptedDataInPlace /\ BufferHoldsData /\ RestInBuffer /\ PcAgrees

LEMMA KeptInit == Init => Kept
<1> SUFFICES ASSUME Init PROVE Kept
  OBVIOUS
<1>1. BufferHoldsData
  BY HostAssumption DEF Init, BufferHoldsData
<1>2. AcceptedDataInPlace /\ RestInBuffer /\ PcAgrees
  BY DEF Init, AcceptedDataInPlace, RestInBuffer, Writing, PcAgrees, Settled
<1> QED
  BY <1>1, <1>2, SafeInit DEF Kept

\* A step that leaves memory, image, buffer, mode and page loop alone keeps
\* the invariant if it does not resume a block that was given up.
LEMMA KeptFrame ==
  ASSUME Kept, Safe', UNCHANGED <<mem, dfu_buffer, ram_mode, flVars, image>>,
         inflight' \in {inflight, {}},
         Continues' => Continues, PcAgrees', BufferHoldsData'
  PROVE  Kept'
<1>1. AcceptedDataInPlace'
  BY DEF Kept, AcceptedDataInPlace, flVars
<1>2. RestInBuffer'
  BY DEF Kept, RestInBuffer, Writing, Rest, TargetAddr, flVars
<1> QED
  BY <1>1, <1>2 DEF Kept

\* The control requests, the interrupt and the chip.
LEMMA KeptSetup ==
  ASSUME Kept, Safe', NEW num \in Blocks, NEW len \in Lengths, NEW p \in Payloads,
         DnloadSetup(num, len, p)
  PROVE  Kept'
<1>1. /\ UNCHANGED <<mem, inflight, dfu_state, dfu_buffer, ram_mode, flVars, image>>
      /\ pc = "loop" /\ pc' = "data" /\ req'.off = 0 /\ req' \in RequestType
  BY DEF DnloadSetup, dfuVars, flashVars, RequestType
<1>2. BufferHoldsData'
  BY <1>1 DEF Kept, BufferHoldsData
<1>3. PcAgrees' /\ ~Continues'
  BY <1>1 DEF Kept, PcAgrees, Continues, flVars
<1> QED
  BY <1>1, <1>2, <1>3, KeptFrame

LEMMA KeptRequest ==
  ASSUME Kept, Safe', DnloadEnd \/ GetStatus \/ ClrStatus \/ SetInterface \/ Abort \/ Detach
  PROVE  Kept'
<1>1. UNCHANGED <<mem, inflight, dfu_buffer, ram_mode, flVars, image>>
  BY DEF DnloadEnd, GetStatus, ClrStatus, SetInterface, Abort, Detach, flashVars, dfuVars
<1>2. pc = "loop" /\ pc' \in {"loop", "wait_reset", "rebooted"}
  BY DEF DnloadEnd, GetStatus, ClrStatus, SetInterface, Abort, Detach
<1>3. BufferHoldsData'
  BY <1>1, <1>2 DEF Kept, BufferHoldsData
<1>4. PcAgrees' /\ (Continues' => Continues)
  <2>1. CASE DnloadEnd
    BY <1>1, <1>2, <2>1 DEF Kept, PcAgrees, Continues, Settled, flVars, DnloadEnd, set_state,
                            FlashNotReady
  <2>2. CASE GetStatus
    BY <1>1, <1>2, <2>2 DEF Kept, PcAgrees, Continues, Settled, flVars, GetStatus,
                            dfu_getstatus, Polled, set_state
  <2>3. CASE ClrStatus \/ SetInterface \/ Abort
    BY <1>1, <1>2, <2>3 DEF Kept, PcAgrees, Continues, Settled, flVars, ClrStatus,
                            SetInterface, Abort, dfu_clrstatus, set_state
  <2>4. CASE Detach
    BY <1>1, <1>2, <2>4 DEF Kept, PcAgrees, Continues, Settled, flVars, Detach, dfuVars
  <2> QED
    BY <2>1, <2>2, <2>3, <2>4
<1> QED
  BY <1>1, <1>3, <1>4, KeptFrame

LEMMA KeptDevice ==
  ASSUME Kept, Safe', BlockAccepted \/ Reset \/ TimerIsr \/ ChipDone
  PROVE  Kept'
<1>1. UNCHANGED <<mem, dfu_buffer, ram_mode, flVars, image>> /\ inflight' \in {inflight, {}}
  BY DEF BlockAccepted, Reset, TimerIsr, ChipDone, FlashDone, flashVars, dfuVars
<1>2. req' = req /\ (pc' = "data" => pc = "data")
  BY DEF BlockAccepted, Reset, TimerIsr, ChipDone, hostVars
<1>3. BufferHoldsData'
  BY <1>1, <1>2 DEF Kept, BufferHoldsData
<1>4. PcAgrees' /\ (Continues' => Continues)
  <2>1. CASE BlockAccepted
    BY <1>1, <2>1 DEF Kept, PcAgrees, Continues, Settled, flVars, BlockAccepted, set_state
  <2>2. CASE Reset
    BY <1>1, <2>2 DEF Kept, PcAgrees, Continues, Settled, flVars, Reset, dfuVars
  <2>3. CASE TimerIsr
    BY <1>1, <2>3 DEF Kept, PcAgrees, Continues, Settled, flVars, TimerIsr, dfuVars
  <2>4. CASE ChipDone
    BY <1>1, <2>4 DEF Kept, PcAgrees, Continues, Settled, flVars, ChipDone, dfuVars, hostVars
  <2> QED
    BY <2>1, <2>2, <2>3, <2>4
<1> QED
  BY <1>1, <1>3, <1>4, KeptFrame

\* The bytes of a packet that fits are in the buffer, next to those before.
LEMMA ReceivedSoFar ==
  ASSUME Kept, pc = "data", NEW n \in Nat,
         ~Overflows(req.len, req.off, n),
         dfu_buffer' = Received(req.off, n, req.payload)
  PROVE  /\ req.off + n <= DFU_TRANSFER_SIZE /\ req.off + n <= req.len
         /\ \A i \in 0 .. req.off + n - 1 : i \in BufferIndex /\ dfu_buffer'[i] = <<req.payload, i>>
<1>1. req \in RequestType /\ dfu_buffer \in [BufferIndex -> Cell]
  BY DEF Kept, BufferHoldsData, Safe, Base, TypeOK
<1>2. req.off \in Nat /\ req.len \in Nat
  BY <1>1, HostAssumption DEF RequestType
<1>3. req.off + n <= DFU_TRANSFER_SIZE /\ req.off + n <= req.len
  BY <1>2, Geometry DEF Overflows
<1>4. \A i \in 0 .. req.off - 1 : dfu_buffer[i] = <<req.payload, i>>
  BY <1>2, <1>3, Geometry DEF Kept, BufferHoldsData
<1>5. ASSUME NEW i \in 0 .. req.off + n - 1
      PROVE  i \in BufferIndex /\ dfu_buffer'[i] = <<req.payload, i>>
  <2>1. i \in BufferIndex
    BY <1>2, <1>3, Geometry DEF BufferIndex
  <2>2. i \in Span(req.off, n) \/ i \in 0 .. req.off - 1
    BY <1>2 DEF Span
  <2> QED
    BY <1>1, <1>4, <2>1, <2>2 DEF Received
<1> QED
  BY <1>3, <1>5

\* Accepting a block: memory and image agree before; after it they differ
\* in the cells of the block, which the buffer holds.
LEMMA StartKeepsRest ==
  ASSUME Kept, NEW num \in Blocks, NEW len \in Lengths, NEW p \in Payloads,
         len <= DFU_TRANSFER_SIZE, ram_mode' \in {0} \cup RamAddr,
         StartBlock(num, len, ram_mode', p),
         \A i \in 0 .. len - 1 : dfu_buffer'[i] = <<p, i>>
  PROVE  RestInBuffer'
<1> DEFINE start == fl_current_addr'
<1>1. /\ fl_state = "flsIDLE" /\ mem = image
      /\ mem \in [MemAddr -> Cell] /\ Base
  BY DEF Kept, AcceptedDataInPlace, StartBlock, FlashNotReady, Safe, Base, TypeOK
<1>2. /\ fl_state' = "flsERASING" /\ dfu_bytes_remaining' = len
      /\ start \in Nat /\ len \in Nat /\ start = address_for_block(num, ram_mode')
  BY <1>1, BaseStart
<1>3. /\ ram_mode' # 0 => UNCHANGED mem
      /\ ram_mode' = 0 => \A a \in MemAddr : mem'[a] =
           IF a \in FlashAddr /\ a \in Span(start, ERASE_SIZE) THEN Erased ELSE mem[a]
  BY <1>1, StartEffect
<1>4. \A a \in MemAddr : image'[a] =
          IF a \in Span(start, len) /\ (a \in FlashAddr <=> ram_mode' = 0)
            THEN <<p, a - start>>
          ELSE IF ram_mode' = 0 /\ a \in FlashAddr /\ a \in Span(start, ERASE_SIZE)
            THEN Erased
          ELSE image[a]
  BY <1>2 DEF StartBlock
<1>5. Rest' = Span(start, len) /\ TargetAddr' = IF ram_mode' = 0 THEN FlashAddr ELSE RamAddr
  BY <1>2 DEF Rest, TargetAddr
<1> HIDE DEF start
<1>6. \A a \in MemAddr : a \in TargetAddr' <=> (a \in FlashAddr <=> ram_mode' = 0)
  BY <1>5, FlashGeometry DEF MemAddr
<1>7. ASSUME NEW a \in MemAddr, a \notin Rest' \cap TargetAddr' PROVE mem'[a] = image'[a]
  BY <1>1, <1>3, <1>4, <1>5, <1>6, <1>7
<1>8. ASSUME NEW a \in Rest' \cap TargetAddr' PROVE image'[a] = dfu_buffer'[a - start]
  <2>1. a \in Span(start, len) /\ a \in MemAddr
    BY <1>5, <1>8 DEF MemAddr
  <2>2. image'[a] = <<p, a - start>>
    BY <1>4, <1>6, <1>8, <2>1
  <2>3. a - start \in 0 .. len - 1
    BY <1>2, <2>1 DEF Span
  <2> QED
    BY <2>2, <2>3
<1> QED
  BY <1>7, <1>8 DEF RestInBuffer, start

LEMMA KeptPacket ==
  ASSUME Kept, Safe', NEW n \in 0 .. PACKET_SIZE, DnloadPacket(n)
  PROVE  Kept'
<1> DEFINE off  == req.off + n
           more == off < req.len
           mode == Selected(req.num, req.off, n, req.payload)
<1>1. /\ pc = "data" /\ req \in RequestType /\ n \in Nat
      /\ req' = IF more THEN [req EXCEPT !.off = off] ELSE NoRequest
      /\ ~Continues
  BY Geometry DEF DnloadPacket, Kept, BufferHoldsData, Continues
<1>2. /\ req.num \in Blocks /\ req.len \in Lengths /\ req.off \in Nat /\ req.payload \in Payloads
      /\ req.len \in Nat /\ off \in Nat
  BY <1>1, HostAssumption DEF RequestType
<1>3. more => /\ req' \in RequestType /\ req'.off = off /\ req'.payload = req.payload
  BY <1>1, <1>2 DEF RequestType
<1>4. BufferClean'
  BY DEF Safe
<1>5. CASE Overflows(req.len, req.off, n)
  <2>1. /\ UNCHANGED <<mem, inflight, dfu_buffer, ram_mode, flVars, image>>
        /\ dfu_state' = "dfuERROR" /\ pc' = IF more THEN "data" ELSE "loop"
    BY <1>5 DEF DnloadPacket, set_state, flashVars
  <2>2. BufferHoldsData'
    <3>1. more => off > DFU_TRANSFER_SIZE
      BY <1>2, <1>5, Geometry DEF Overflows
    <3>2. more => ~(req'.off <= DFU_TRANSFER_SIZE)
      BY <1>2, <1>3, <3>1, Geometry
    <3> QED
      BY <1>3, <1>4, <2>1, <3>2 DEF BufferHoldsData, BufferClean
  <2>3. PcAgrees' /\ ~Continues'
    BY <2>1 DEF PcAgrees, Continues, Settled
  <2> QED
    BY <2>1, <2>2, <2>3, KeptFrame
<1>6. CASE ~Overflows(req.len, req.off, n)
  <2>1. dfu_buffer' = Received(req.off, n, req.payload) /\ ram_mode' = mode
    BY <1>6 DEF DnloadPacket
  <2> HIDE DEF mode, more, off
  <2>2. /\ req.off + n <= DFU_TRANSFER_SIZE /\ req.off + n <= req.len
        /\ \A i \in 0 .. req.off + n - 1 : i \in BufferIndex /\ dfu_buffer'[i] = <<req.payload, i>>
    BY <1>1, <1>6, <2>1, ReceivedSoFar, Zenon
  <2> USE DEF mode, more, off
  <2>3. CASE more
    <3>1. UNCHANGED <<mem, inflight, flVars, dfu_state, image>> /\ pc' = "data"
      BY <1>6, <2>3 DEF DnloadPacket, flashVars
    <3>2. BufferHoldsData'
      <4>1. req' \in RequestType /\ req'.off = req.off + n /\ req'.payload = req.payload
        BY <1>3, <2>3
      <4>2. \A i \in 0 .. req'.off - 1 : dfu_buffer'[i] = <<req'.payload, i>>
        BY <1>1, <1>2, <2>2, <4>1
      <4> QED
        BY <1>4, <4>1, <4>2 DEF BufferHoldsData, BufferClean
    <3>3. PcAgrees' /\ ~Continues' /\ AcceptedDataInPlace'
      BY <1>1, <3>1 DEF Kept, PcAgrees, Continues, Settled, AcceptedDataInPlace, flVars
    <3> QED
      BY <3>2, <3>3 DEF Kept, RestInBuffer
  <2>4. CASE ~more /\ RejectBlock(req.num, mode) /\ pc' = "loop"
    <3>1. UNCHANGED <<mem, inflight, fl_state, image>> /\ dfu_state' = "dfuERROR"
      BY <2>4 DEF RejectBlock, set_state, flashVars
    <3>2. PcAgrees' /\ ~Continues' /\ AcceptedDataInPlace' /\ BufferHoldsData'
      BY <1>4, <2>4, <3>1 DEF Kept, PcAgrees, Continues, Settled, AcceptedDataInPlace,
                              BufferHoldsData, BufferClean
    <3> QED
      BY <3>2 DEF Kept, RestInBuffer
  <2>5. CASE ~more /\ StartBlock(req.num, req.len, mode, req.payload) /\ pc' = "erasing"
    <3>1. off = req.len /\ req.len <= DFU_TRANSFER_SIZE
      BY <1>2, <2>2, <2>5, Geometry
    <3>2. mode \in {0} \cup RamAddr
      BY <2>1 DEF Safe, Base, TypeOK
    <3>3. fl_state' = "flsERASING"
      BY <2>5 DEF StartBlock, ftfl_begin_erase_sector
    <3>4. RestInBuffer'
      BY <1>2, <2>1, <2>2, <2>5, <3>1, <3>2, StartKeepsRest
    <3>5. PcAgrees' /\ AcceptedDataInPlace' /\ BufferHoldsData'
      BY <1>4, <2>5, <3>3 DEF PcAgrees, AcceptedDataInPlace, BufferHoldsData, BufferClean
    <3> QED
      BY <3>4, <3>5 DEF Kept
  <2> QED
    BY <1>6, <2>3, <2>4, <2>5 DEF DnloadPacket
<1> QED
  BY <1>5, <1>6

\* Writing a page: it then agrees with the image, and what is left of the
\* block is still in the buffer.
LEMMA KeptWrite ==
  ASSUME Kept, Safe', Continues, inflight = {}, fl_state # "flsIDLE", fl_state' = "flsPROGRAMMING",
         UNCHANGED <<dfu_buffer, ram_mode, fl_current_addr, image, dfu_state, pc, req>>,
         pc = "loop",
         NEW target \in Nat, NEW offset \in Nat, target = fl_current_addr + offset,
         offset + dfu_bytes_remaining <= DFU_TRANSFER_SIZE,
         Rest = Span(target, dfu_bytes_remaining),
         ram_mode = 0 /\ dfu_bytes_remaining # 0 => Aligned(target, WRITE_SIZE),
         ftfl_write_more_bytes(target, offset)
  PROVE  Kept'
<1> DEFINE rem   == dfu_bytes_remaining
           start == fl_current_addr
           n     == MinOf(WRITE_SIZE, rem)
<1>1. /\ mem \in [MemAddr -> Cell] /\ dfu_buffer \in [BufferIndex -> Cell]
      /\ rem \in Nat /\ start \in Nat
  BY DEF Kept, Safe, Base, TypeOK
<1>2. n \in Nat /\ n <= rem
  BY <1>1, Geometry DEF MinOf
<1>3. ram_mode = 0 => \A a \in Span(target, rem) : mem[a] = Erased
  BY DEF Kept, Safe, FlashBlock
<1>4. \A a \in MemAddr : mem'[a] = IF a \in TargetAddr /\ a \in Span(target, n)
                                     THEN dfu_buffer[offset + (a - target)] ELSE mem[a]
  BY <1>1, <1>3, WriteEffect
<1>5. Rest' = Span(target + n, rem - n) /\ TargetAddr' = TargetAddr
  BY DEF ftfl_write_more_bytes, Rest, TargetAddr
<1>6. /\ \A a \in MemAddr : a \notin Span(target, rem) \cap TargetAddr => mem[a] = image[a]
      /\ \A a \in Span(target, rem) \cap TargetAddr : image[a] = dfu_buffer[a - start]
  BY DEF Kept, RestInBuffer, Writing
<1> HIDE DEF n, rem, start
<1>7. /\ \A a \in Span(target, n) : a \in Span(target, rem) /\ offset + (a - target) = a - start
      /\ \A a \in Span(target + n, rem - n) : a \in Span(target, rem) /\ a \notin Span(target, n)
      /\ \A a \in Span(target, rem) : a \in Span(target, n) \/ a \in Span(target + n, rem - n)
  <2>1. target = start + offset /\ offset + rem <= DFU_TRANSFER_SIZE
    BY DEF start, rem
  <2>2. start \in Nat /\ target \in Nat /\ offset \in Nat /\ rem \in Nat /\ n \in Nat /\ n <= rem
    BY <1>1, <1>2
  <2> HIDE DEF start, rem, n
  <2>3. ASSUME NEW a \in Span(target, n)
        PROVE  a \in Span(target, rem) /\ offset + (a - target) = a - start
    BY <2>1, <2>2 DEF Span
  <2>4. ASSUME NEW a \in Span(target + n, rem - n)
        PROVE  a \in Span(target, rem) /\ a \notin Span(target, n)
    BY <2>1, <2>2 DEF Span
  <2>5. ASSUME NEW a \in Span(target, rem)
        PROVE  a \in Span(target, n) \/ a \in Span(target + n, rem - n)
    BY <2>1, <2>2 DEF Span
  <2> QED
    BY <2>3, <2>4, <2>5
<1>8. ASSUME NEW a \in MemAddr, a \notin Rest' \cap TargetAddr' PROVE mem'[a] = image'[a]
  <2>1. CASE a \in Span(target, n) /\ a \in TargetAddr
    BY <1>4, <1>6, <1>7, <2>1
  <2>2. CASE ~(a \in Span(target, n) /\ a \in TargetAddr)
    BY <1>4, <1>5, <1>6, <1>7, <1>8, <2>2
  <2> QED
    BY <2>1, <2>2
<1>9. ASSUME NEW a \in Rest' \cap TargetAddr' PROVE image'[a] = dfu_buffer'[a - fl_current_addr']
  BY <1>5, <1>6, <1>7, <1>9 DEF start
<1>10. RestInBuffer'
  BY <1>8, <1>9 DEF RestInBuffer
<1>11. AcceptedDataInPlace' /\ BufferHoldsData' /\ PcAgrees'
  BY DEF Kept, AcceptedDataInPlace, BufferHoldsData, PcAgrees
<1> QED
  BY <1>10, <1>11 DEF Kept

LEMMA KeptPoll ==
  ASSUME Kept, Safe', dfu_poll
  PROVE  Kept'
<1>1. /\ UNCHANGED <<dfu_buffer, ram_mode, fl_current_addr, image, dfu_state, pc, req>>
      /\ inflight = {} /\ pc = "loop" /\ Continues
  BY DEF dfu_poll, spiIsBusy, hostVars, Continues, Polled
<1>2. /\ fl_current_addr \in Nat /\ dfu_bytes_remaining \in Nat /\ dfu_target_address \in Nat
      /\ dfu_buffer_offset \in Nat
      /\ mem \in [MemAddr -> Cell] /\ image \in [MemAddr -> Cell]
  BY DEF Kept, Safe, Base, TypeOK
<1>3. CASE /\ fl_state = "flsERASING" /\ fl_state' = "flsPROGRAMMING"
           /\ ftfl_write_more_bytes(fl_current_addr, 0)
  <2>1. fl_current_addr = fl_current_addr + 0 /\ 0 + dfu_bytes_remaining <= DFU_TRANSFER_SIZE
    BY <1>2, <1>3 DEF Kept, Safe, Base, LoopInBlock
  <2>2. Rest = Span(fl_current_addr, dfu_bytes_remaining)
    BY <1>3 DEF Rest
  <2>3. ram_mode = 0 => Aligned(fl_current_addr, WRITE_SIZE)
    BY <1>2, <1>3, SectorIsPage DEF Kept, Safe, FlashBlock
  <2> QED
    BY <1>1, <1>2, <1>3, <2>1, <2>2, <2>3, KeptWrite
<1>4. CASE /\ fl_state = "flsPROGRAMMING" /\ fl_state' = fl_state
           /\ ftfl_write_more_bytes(dfu_target_address, dfu_buffer_offset)
  <2>1. /\ dfu_target_address = fl_current_addr + dfu_buffer_offset
        /\ dfu_buffer_offset + dfu_bytes_remaining <= DFU_TRANSFER_SIZE
    BY <1>4 DEF Kept, Safe, Base, LoopInBlock
  <2>2. Rest = Span(dfu_target_address, dfu_bytes_remaining)
    BY <1>4 DEF Rest
  <2>3. ram_mode = 0 /\ dfu_bytes_remaining # 0 => Aligned(dfu_target_address, WRITE_SIZE)
    BY <1>4 DEF Kept, Safe, FlashBlock
  <2> QED
    BY <1>1, <1>2, <1>4, <2>1, <2>2, <2>3, KeptWrite
<1>5. CASE /\ fl_state = "flsPROGRAMMING" /\ dfu_bytes_remaining = 0
           /\ fl_state' = "flsIDLE" /\ UNCHANGED flashVars
  <2>1. Rest = {}
    BY <1>2, <1>5 DEF Rest, Span
  <2>2. \A a \in MemAddr : mem[a] = image[a]
    BY <1>1, <1>5, <2>1 DEF Kept, RestInBuffer, Writing
  <2>3. mem = image
    BY <1>2, <2>2
  <2> QED
    BY <1>1, <1>5, <2>3 DEF Kept, AcceptedDataInPlace, BufferHoldsData, RestInBuffer, Writing,
                            PcAgrees, flashVars
<1> QED
  BY <1>3, <1>4, <1>5 DEF dfu_poll

LEMMA KeptStep == Kept /\ [Next]_vars => Kept'
<1> SUFFICES ASSUME Kept, [Next]_vars PROVE Kept'
  OBVIOUS
<1>0. Safe'
  BY SafeStep DEF Kept
<1>1. ASSUME NEW num \in Blocks, NEW len \in Lengths, NEW p \in Payloads,
             DnloadSetup(num, len, p)
      PROVE  Kept'
  BY <1>0, <1>1, KeptSetup
<1>2. CASE DnloadEnd \/ GetStatus \/ ClrStatus \/ SetInterface \/ Abort \/ Detach
  BY <1>0, <1>2, KeptRequest
<1>3. ASSUME NEW n \in 0 .. PACKET_SIZE, DnloadPacket(n) PROVE Kept'
  BY <1>0, <1>3, KeptPacket
<1>4. CASE BlockAccepted \/ Reset \/ TimerIsr \/ ChipDone
  BY <1>0, <1>4, KeptDevice
<1>5. CASE dfu_poll
  BY <1>0, <1>5, KeptPoll
<1>6. CASE UNCHANGED vars
  BY <1>0, <1>6 DEF Kept, AcceptedDataInPlace, BufferHoldsData, RestInBuffer, PcAgrees, Writing,
                    Continues, Rest, TargetAddr, vars, flashVars, dfuVars, flVars, hostVars
<1> QED
  BY <1>1, <1>2, <1>3, <1>4, <1>5, <1>6 DEF Next, Request, Gone

THEOREM KeptAlways == Spec => []Kept
<1> QED
  BY KeptInit, KeptStep, PTL DEF Spec

\* The invariant of DfuProperties, of which Kept is another arrangement.
THEOREM InvariantHolds == Spec => []IInv
<1>1. Kept => IInv
  BY DEF Kept, Safe, Base, IInv
<1> QED
  BY <1>1, KeptAlways, PTL

\* Once the flash state machine is idle, every accepted block is in memory,
\* whole, and nothing else has changed.
THEOREM AcceptedDataIsInPlace == Spec => []AcceptedDataInPlace
<1>1. Kept => AcceptedDataInPlace
  BY DEF Kept
<1> QED
  BY <1>1, KeptAlways, PTL

\* A host that is told its download is done, and a reset after it, find the
\* data in memory and the chip idle.
THEOREM ReportsAreTrue == Spec => []ReportedMeansWritten
<1>1. Kept => ReportedMeansWritten
  BY DEF Kept, ReportedMeansWritten, PcAgrees, AcceptedDataInPlace
<1> QED
  BY <1>1, KeptAlways, PTL
=============================================================================
