------------------------------ MODULE DfuProofs ------------------------------
(***************************************************************************)
(* Proofs about the download engine, for every geometry that satisfies     *)
(* FlashGeometry and DfuGeometry and every host of HostAssumption.         *)
(***************************************************************************)
EXTENDS DfuProperties, TLAPS

-----------------------------------------------------------------------------
(* Arithmetic of sectors and pages. *)

\* A block starts at a sector boundary: 262144 + blockNum * 4096.
LEMMA BlockAligned ==
  ASSUME NEW b \in Nat
  PROVE  /\ CONFIG_RESCUE_IMAGE_OFFSET + b * DFU_TRANSFER_SIZE \in Nat
         /\ CONFIG_RESCUE_IMAGE_OFFSET <= CONFIG_RESCUE_IMAGE_OFFSET + b * DFU_TRANSFER_SIZE
         /\ Aligned(CONFIG_RESCUE_IMAGE_OFFSET + b * DFU_TRANSFER_SIZE, ERASE_SIZE)
<1> DEFINE o == CONFIG_RESCUE_IMAGE_OFFSET
           E == ERASE_SIZE
<1>1. E \in Nat /\ E >= 1 /\ o \in Nat /\ DFU_TRANSFER_SIZE = E
  BY FlashGeometry, DfuGeometry
<1>2. PICK k \in 0 .. o : o = k * E
  BY DfuGeometry DEF Aligned
<1> HIDE DEF o, E
<1>3. b * E \in Nat /\ b * E >= b
  BY <1>1
<1>4. k \in Nat /\ k + b \in Nat
  BY <1>1, <1>2
<1>5. o + b * E = (k + b) * E
  BY <1>1, <1>2, <1>4
<1>6. k <= o
  BY <1>1, <1>2
<1>7. k + b \in 0 .. (o + b * E)
  BY <1>1, <1>3, <1>4, <1>6
<1> QED
  BY <1>1, <1>3, <1>5, <1>7 DEF Aligned, o, E

\* A sector that starts below FLASH_MAX_ADDR ends below it.
LEMMA SectorInWindow ==
  ASSUME NEW a \in Nat, Aligned(a, ERASE_SIZE), a < FLASH_MAX_ADDR
  PROVE  a + ERASE_SIZE <= FLASH_MAX_ADDR
<1> DEFINE m == FLASH_MAX_ADDR
           E == ERASE_SIZE
<1>1. E \in Nat /\ E >= 1 /\ m \in Nat
  BY FlashGeometry, DfuGeometry
<1>2. PICK k \in 0 .. m : m = k * E
  BY DfuGeometry DEF Aligned
<1>3. PICK j \in 0 .. a : a = j * E
  BY DEF Aligned
<1>4. a < m
  OBVIOUS
<1> HIDE DEF m, E
<1>5. j \in Nat /\ k \in Nat
  BY <1>1, <1>2, <1>3
<1>6. j < k
  <2> SUFFICES ASSUME k <= j PROVE FALSE
    BY <1>5
  <2>1. k * E <= j * E
    BY <1>1, <1>5
  <2> QED
    BY <2>1, <1>1, <1>2, <1>3, <1>4
<1>7. (j + 1) * E <= k * E
  BY <1>1, <1>5, <1>6
<1>8. (j + 1) * E = j * E + E
  BY <1>1, <1>5
<1> QED
  BY <1>1, <1>2, <1>3, <1>7, <1>8 DEF m, E

\* A sector boundary is a page boundary.
LEMMA SectorIsPage ==
  ASSUME NEW a \in Nat, Aligned(a, ERASE_SIZE)
  PROVE  Aligned(a, WRITE_SIZE)
<1>1. ERASE_SIZE \in Nat /\ WRITE_SIZE \in Nat /\ WRITE_SIZE >= 1
  BY FlashGeometry
<1>2. PICK m \in 0 .. ERASE_SIZE : ERASE_SIZE = m * WRITE_SIZE
  BY FlashGeometry
<1>3. PICK j \in 0 .. a : a = j * ERASE_SIZE
  BY DEF Aligned
<1>4. j \in Nat /\ m \in Nat /\ j * m \in Nat
  BY <1>1, <1>2, <1>3
<1>5. a = (j * m) * WRITE_SIZE
  BY <1>1, <1>2, <1>3, <1>4
<1>6. j * m <= (j * m) * WRITE_SIZE
  BY <1>1, <1>4
<1>7. j * m \in 0 .. a
  BY <1>4, <1>5, <1>6
<1> QED
  BY <1>5, <1>7 DEF Aligned

\* A program of at most a page at a page boundary does not wrap, and the
\* boundary after it is a page boundary again.
LEMMA PageStep ==
  ASSUME NEW a \in Nat, NEW n \in Nat, n <= WRITE_SIZE, Aligned(a, WRITE_SIZE)
  PROVE  InPage(a, n) /\ Aligned(a + WRITE_SIZE, WRITE_SIZE)
<1>1. WRITE_SIZE \in Nat /\ WRITE_SIZE >= 1
  BY FlashGeometry
<1>2. PICK k \in 0 .. a : a = k * WRITE_SIZE
  BY DEF Aligned
<1>3. k \in Nat
  BY <1>2
<1>4. (k + 1) * WRITE_SIZE = a + WRITE_SIZE
  BY <1>1, <1>2, <1>3
<1>5. InPage(a, n)
  BY <1>1, <1>2, <1>3, <1>4 DEF InPage
<1>6. k + 1 \in 0 .. (a + WRITE_SIZE)
  BY <1>1, <1>2, <1>3
<1> QED
  BY <1>4, <1>5, <1>6 DEF Aligned

-----------------------------------------------------------------------------
(* Types. *)

LEMMA Geometry ==
  /\ WRITE_SIZE \in Nat /\ WRITE_SIZE >= 1
  /\ ERASE_SIZE \in Nat /\ ERASE_SIZE >= 1
  /\ DFU_TRANSFER_SIZE = ERASE_SIZE
  /\ CONFIG_RESCUE_IMAGE_OFFSET \in Nat /\ FLASH_MAX_ADDR \in Nat /\ FLASH_SIZE \in Nat
  /\ FLASH_MAX_ADDR <= FLASH_SIZE
  /\ PACKET_SIZE \in Nat
  BY FlashGeometry, DfuGeometry

\* What a host sends is a cell of its own.
LEMMA PayloadCell ==
  ASSUME NEW p \in Payloads, NEW i \in BufferIndex
  PROVE  <<p, i>> \in Cell \ {Erased, Corrupt, Old}
  BY HostAssumption DEF Cell

\* A block goes to a natural address, whatever the mode.
LEMMA BlockAddress ==
  ASSUME NEW b \in Blocks, NEW mode \in {0} \cup RamAddr
  PROVE  address_for_block(b, mode) \in Nat
<1>1. b \in Nat /\ mode \in Nat
  BY HostAssumption, FlashGeometry
<1>2. b * DFU_TRANSFER_SIZE \in Nat
  BY <1>1, Geometry
<1> QED
  BY <1>1, <1>2, Geometry DEF address_for_block

\* An erase leaves a well-typed chip.
LEMMA EraseTyped ==
  ASSUME mem \in [MemAddr -> Cell], inflight \subseteq FlashAddr,
         NEW address \in Nat, spiBeginErase4(address)
  PROVE  mem' \in [MemAddr -> Cell] /\ inflight' \subseteq FlashAddr
<1>1. Erased \in Cell
  BY DEF Cell
<1> QED
  BY <1>1 DEF spiBeginErase4, flashVars

\* Programming or copying a page of a block inside the buffer leaves a
\* well-typed memory and moves the loop on by the same amount everywhere.
LEMMA WriteTyped ==
  ASSUME mem \in [MemAddr -> Cell], inflight \subseteq FlashAddr,
         dfu_buffer \in [BufferIndex -> Cell], dfu_bytes_remaining \in Nat,
         NEW target \in Nat, NEW offset \in Nat, NEW start \in Nat,
         target = start + offset, offset + dfu_bytes_remaining <= DFU_TRANSFER_SIZE,
         ftfl_write_more_bytes(target, offset)
  PROVE  /\ mem' \in [MemAddr -> Cell] /\ inflight' \subseteq FlashAddr
         /\ dfu_bytes_remaining' \in Nat
         /\ dfu_target_address' \in Nat /\ dfu_buffer_offset' \in Nat
         /\ dfu_target_address' = start + dfu_buffer_offset'
         /\ dfu_buffer_offset' + dfu_bytes_remaining' <= DFU_TRANSFER_SIZE
<1> DEFINE n == MinOf(WRITE_SIZE, dfu_bytes_remaining)
           chunk == [i \in 0 .. n - 1 |-> dfu_buffer[offset + i]]
<1>1. n \in Nat /\ n <= dfu_bytes_remaining
  BY Geometry DEF MinOf
<1>2. \A a \in Span(target, n) : a \in Int => chunk[a - target] \in Cell
  <2> SUFFICES ASSUME NEW a \in Span(target, n) PROVE chunk[a - target] \in Cell
    OBVIOUS
  <2>1. a - target \in 0 .. n - 1
    BY <1>1 DEF Span
  <2>2. offset + (a - target) \in BufferIndex
    BY <1>1, <2>1, Geometry DEF BufferIndex
  <2> QED
    BY <2>1, <2>2
<1>3. Corrupt \in Cell
  BY DEF Cell
<1>4. \A a \in Span(target, n) : a \in Int
  BY DEF Span
<1>5. mem' \in [MemAddr -> Cell] /\ inflight' \subseteq FlashAddr
  <2>1. CASE ram_mode # 0
    BY <2>1, <1>2, <1>4 DEF ftfl_write_more_bytes
  <2>2. CASE ram_mode = 0
    <3>1. spiBeginWrite(target, chunk, n)
      BY <2>2 DEF ftfl_write_more_bytes
    <3> QED
      BY <3>1, <1>2, <1>3, <1>4 DEF spiBeginWrite, Programmed, flashVars
  <2> QED
    BY <2>1, <2>2
<1>6. /\ dfu_bytes_remaining' = dfu_bytes_remaining - n
      /\ dfu_target_address' = target + n
      /\ dfu_buffer_offset' = offset + n
  BY DEF ftfl_write_more_bytes
<1> HIDE DEF n, chunk
<1> QED
  BY <1>1, <1>5, <1>6, Geometry

\* The types, and the page loop inside its block: what is needed for the
\* types to be preserved.
Base ==
  /\ TypeOK
  /\ LoopInBlock
  /\ pc = "data" => req \in RequestType

LEMMA BaseInit == Init => Base
<1> SUFFICES ASSUME Init PROVE Base
  OBVIOUS
<1>1. Old \in Cell
  BY DEF Cell
<1> QED
  BY <1>1 DEF Init, Base, TypeOK, LoopInBlock, DfuStates, DfuStatuses, OK

\* A packet that does not complete the block, or is refused.
LEMMA BaseReceive ==
  ASSUME Base, NEW n \in 0 .. PACKET_SIZE, pc = "data",
         ~Overflows(req.len, req.off, n),
         dfu_buffer' = Received(req.off, n, req.payload),
         ram_mode' = Selected(req.num, req.off, n, req.payload)
  PROVE  dfu_buffer' \in [BufferIndex -> Cell] /\ ram_mode' \in {0} \cup RamAddr
<1>1. req \in RequestType
  BY DEF Base
<1>2. req.payload \in Payloads
  BY <1>1 DEF RequestType
<1>3. ram_mode' \in {0} \cup RamAddr
  BY <1>2, HostAssumption DEF Base, TypeOK, Selected
<1>4. dfu_buffer \in [BufferIndex -> Cell]
  BY DEF Base, TypeOK
<1>5. dfu_buffer' \in [BufferIndex -> Cell]
  BY <1>2, <1>4, PayloadCell DEF Received
<1> QED
  BY <1>3, <1>5

\* Accepting a block.
LEMMA BaseStart ==
  ASSUME Base, NEW num \in Blocks, NEW len \in Lengths, NEW p \in Payloads,
         NEW mode \in {0} \cup RamAddr,
         len <= DFU_TRANSFER_SIZE,
         StartBlock(num, len, mode, p)
  PROVE  /\ mem' \in [MemAddr -> Cell] /\ image' \in [MemAddr -> Cell]
         /\ inflight' \subseteq FlashAddr
         /\ fl_state' = "flsERASING"
         /\ fl_current_addr' = address_for_block(num, mode)
         /\ fl_current_addr' \in Nat
         /\ dfu_bytes_remaining' = len /\ len \in Nat
         /\ UNCHANGED <<dfu_state, dfu_status, dfu_target_address, dfu_buffer_offset>>
<1> DEFINE address == address_for_block(num, mode)
<1>1. address \in Nat /\ len \in Nat
  BY BlockAddress, HostAssumption
<1>2. /\ fl_current_addr' = address /\ dfu_bytes_remaining' = len
      /\ ftfl_begin_erase_sector(address, mode)
      /\ UNCHANGED <<dfu_state, dfu_status, dfu_target_address, dfu_buffer_offset>>
  BY DEF StartBlock
<1>3. image' = [a \in MemAddr |->
          IF a \in Span(address, len) /\ (a \in FlashAddr <=> mode = 0)
            THEN <<p, a - address>>
          ELSE IF mode = 0 /\ a \in FlashAddr /\ a \in Span(address, ERASE_SIZE)
            THEN Erased
          ELSE image[a]]
  BY DEF StartBlock
<1> HIDE DEF address
<1>4. \A a \in Span(address, len) : <<p, a - address>> \in Cell
  <2> SUFFICES ASSUME NEW a \in Span(address, len) PROVE <<p, a - address>> \in Cell
    OBVIOUS
  <2>1. a - address \in BufferIndex
    BY <1>1, Geometry DEF Span, BufferIndex
  <2> QED
    BY <2>1, PayloadCell
<1>5. image' \in [MemAddr -> Cell]
  BY <1>3, <1>4 DEF Base, TypeOK, Cell
<1>6. /\ fl_state' = "flsERASING" /\ mem' \in [MemAddr -> Cell] /\ inflight' \subseteq FlashAddr
  BY <1>1, <1>2, EraseTyped DEF ftfl_begin_erase_sector, flashVars, Base, TypeOK
<1> QED
  BY <1>1, <1>2, <1>5, <1>6 DEF address

LEMMA BasePacket ==
  ASSUME Base, NEW n \in 0 .. PACKET_SIZE, DnloadPacket(n)
  PROVE  Base'
<1> DEFINE off  == req.off + n
           more == off < req.len
           mode == Selected(req.num, req.off, n, req.payload)
<1>1. /\ req \in RequestType /\ pc = "data"
  BY DEF DnloadPacket, Base
<1>2. /\ req.num \in Blocks /\ req.len \in Lengths /\ req.off \in Nat /\ req.payload \in Payloads
      /\ req.len \in Nat /\ n \in Nat /\ off \in Nat
  <2>1. req.num \in Blocks /\ req.len \in Lengths /\ req.off \in Nat /\ req.payload \in Payloads
    BY <1>1 DEF RequestType
  <2>2. req.len \in Nat
    <3>1. Lengths \subseteq Nat
      BY HostAssumption
    <3> QED
      BY <2>1, <3>1
  <2>3. n \in Nat
    BY Geometry
  <2> QED
    BY <2>1, <2>2, <2>3
<1>3. /\ req' = IF more THEN [req EXCEPT !.off = off] ELSE NoRequest
      /\ reply' = IF more THEN reply ELSE "ack"
      /\ timer' = timer
  BY DEF DnloadPacket
<1>4. req' \in RequestType \cup {NoRequest} /\ (more => req' \in RequestType)
  BY <1>1, <1>2, <1>3 DEF RequestType
<1>5. reply' \in {"none", "ack", "stall"} /\ timer' \in {"off", "armed", "fired", "autoboot"}
  BY <1>3 DEF Base, TypeOK
<1>6. CASE Overflows(req.len, req.off, n)
  <2>1. /\ set_state("dfuERROR", "errADDRESS")
        /\ UNCHANGED <<dfu_buffer, ram_mode, flashVars, flVars, image>>
        /\ pc' = IF more THEN "data" ELSE "loop"
    BY <1>6 DEF DnloadPacket
  <2> QED
    BY <1>4, <1>5, <2>1
    DEF Base, TypeOK, LoopInBlock, set_state, flashVars, flVars, DfuStates, DfuStatuses
<1>7. CASE ~Overflows(req.len, req.off, n)
  <2>1. dfu_buffer' = Received(req.off, n, req.payload) /\ ram_mode' = mode
    BY <1>7 DEF DnloadPacket
  <2>2. dfu_buffer' \in [BufferIndex -> Cell] /\ ram_mode' \in {0} \cup RamAddr
    BY <1>1, <1>7, <2>1, BaseReceive
  <2>3. CASE more
    <3>1. UNCHANGED <<flashVars, flVars, dfu_state, dfu_status, image>> /\ pc' = "data"
      BY <1>7, <2>3 DEF DnloadPacket
    <3> QED
      BY <1>4, <1>5, <2>2, <2>3, <3>1 DEF Base, TypeOK, LoopInBlock, flashVars, flVars
  <2>4. CASE ~more /\ RejectBlock(req.num, mode) /\ pc' = "loop"
    <3>1. /\ UNCHANGED <<flashVars, fl_state, dfu_buffer_offset, dfu_bytes_remaining,
                        dfu_target_address, image>>
          /\ dfu_state' \in DfuStates /\ dfu_status' \in DfuStatuses
      BY <2>4 DEF RejectBlock, set_state, DfuStates, DfuStatuses
    <3>2. \/ fl_current_addr' = fl_current_addr
          \/ /\ fl_current_addr' = address_for_block(req.num, mode)
             /\ fl_state = "flsIDLE"
      BY <2>4 DEF RejectBlock, FlashNotReady
    <3>3. mode \in {0} \cup RamAddr
      BY <2>1, <2>2
    <3>4. fl_current_addr' \in Nat /\ (fl_state # "flsIDLE" => UNCHANGED fl_current_addr)
      BY <1>2, <3>2, <3>3, BlockAddress DEF Base, TypeOK
    <3> QED
      BY <1>4, <1>5, <2>2, <2>4, <3>1, <3>4 DEF Base, TypeOK, LoopInBlock, flashVars
  <2>5. CASE ~more /\ StartBlock(req.num, req.len, mode, req.payload) /\ pc' = "erasing"
    <3>1. req.len <= DFU_TRANSFER_SIZE
      BY <1>2, <1>7, <2>5, Geometry DEF Overflows
    <3>2. mode \in {0} \cup RamAddr
      BY <2>1, <2>2
    <3>3. /\ mem' \in [MemAddr -> Cell] /\ image' \in [MemAddr -> Cell]
          /\ inflight' \subseteq FlashAddr
          /\ fl_state' = "flsERASING"
          /\ fl_current_addr' \in Nat
          /\ dfu_bytes_remaining' = req.len
          /\ UNCHANGED <<dfu_state, dfu_status, dfu_target_address, dfu_buffer_offset>>
      BY <1>2, <2>5, <3>1, <3>2, BaseStart
    <3> QED
      BY <1>2, <1>4, <1>5, <2>2, <2>5, <3>1, <3>3 DEF Base, TypeOK, LoopInBlock
  <2> QED
    BY <1>7, <2>3, <2>4, <2>5 DEF DnloadPacket
<1> QED
  BY <1>6, <1>7

LEMMA BasePoll ==
  ASSUME Base, dfu_poll
  PROVE  Base'
<1>1. UNCHANGED <<dfu_state, dfu_status, dfu_buffer, ram_mode, fl_current_addr, pc, req,
                  reply, timer, image>>
  BY DEF dfu_poll, hostVars
<1>2. CASE /\ fl_state = "flsERASING" /\ fl_state' = "flsPROGRAMMING"
           /\ ftfl_write_more_bytes(fl_current_addr, 0)
  <2>1. /\ 0 + dfu_bytes_remaining <= DFU_TRANSFER_SIZE
        /\ fl_current_addr = fl_current_addr + 0
    BY <1>2 DEF Base, LoopInBlock, TypeOK
  <2>2. /\ mem' \in [MemAddr -> Cell] /\ inflight' \subseteq FlashAddr
        /\ dfu_bytes_remaining' \in Nat
        /\ dfu_target_address' \in Nat /\ dfu_buffer_offset' \in Nat
        /\ dfu_target_address' = fl_current_addr + dfu_buffer_offset'
        /\ dfu_buffer_offset' + dfu_bytes_remaining' <= DFU_TRANSFER_SIZE
    BY <1>2, <2>1, WriteTyped DEF Base, TypeOK
  <2>3. LoopInBlock'
    BY <1>1, <1>2, <2>2 DEF LoopInBlock
  <2> QED
    BY <1>1, <1>2, <2>2, <2>3 DEF Base, TypeOK
<1>3. CASE /\ fl_state = "flsPROGRAMMING" /\ fl_state' = fl_state
           /\ ftfl_write_more_bytes(dfu_target_address, dfu_buffer_offset)
  <2>1. /\ dfu_target_address = fl_current_addr + dfu_buffer_offset
        /\ dfu_buffer_offset + dfu_bytes_remaining <= DFU_TRANSFER_SIZE
    BY <1>3 DEF Base, LoopInBlock
  <2>2. /\ mem' \in [MemAddr -> Cell] /\ inflight' \subseteq FlashAddr
        /\ dfu_bytes_remaining' \in Nat
        /\ dfu_target_address' \in Nat /\ dfu_buffer_offset' \in Nat
        /\ dfu_target_address' = fl_current_addr + dfu_buffer_offset'
        /\ dfu_buffer_offset' + dfu_bytes_remaining' <= DFU_TRANSFER_SIZE
    BY <1>3, <2>1, WriteTyped DEF Base, TypeOK
  <2>3. LoopInBlock'
    BY <1>1, <1>3, <2>2 DEF LoopInBlock
  <2> QED
    BY <1>1, <1>3, <2>2, <2>3 DEF Base, TypeOK
<1>4. CASE /\ fl_state = "flsPROGRAMMING" /\ fl_state' = "flsIDLE"
           /\ UNCHANGED <<flashVars, dfu_bytes_remaining, dfu_target_address, dfu_buffer_offset>>
  BY <1>1, <1>4 DEF Base, TypeOK, LoopInBlock, flashVars
<1> QED
  BY <1>2, <1>3, <1>4 DEF dfu_poll

\* The steps that only move the state machine of dfu.c or the main thread.
ControlStep ==
  /\ UNCHANGED <<flashVars, dfu_buffer, ram_mode, flVars, image>>
  /\ dfu_state' \in DfuStates /\ dfu_status' \in DfuStatuses
  /\ pc' \in {"loop", "data", "erasing", "wait_reset", "rebooted"}
  /\ req' \in RequestType \cup {NoRequest}
  /\ pc' = "data" => req' \in RequestType
  /\ reply' \in {"none", "ack", "stall"}
  /\ timer' \in {"off", "armed", "fired", "autoboot"}

LEMMA BaseControl ==
  ASSUME Base, ControlStep
  PROVE  Base'
  BY DEF Base, TypeOK, LoopInBlock, ControlStep, flashVars, flVars

LEMMA SetupIsControl ==
  ASSUME Base, NEW num \in Blocks, NEW len \in Lengths, NEW p \in Payloads,
         DnloadSetup(num, len, p)
  PROVE  ControlStep
  BY DEF Base, TypeOK, DnloadSetup, ControlStep, dfuVars, RequestType

LEMMA RequestIsControl ==
  ASSUME Base, DnloadEnd \/ GetStatus \/ ClrStatus \/ SetInterface \/ Abort \/ Detach
  PROVE  ControlStep
<1>1. CASE DnloadEnd
  BY <1>1 DEF Base, TypeOK, DnloadEnd, ControlStep, set_state, DfuStates, DfuStatuses, OK
<1>2. CASE GetStatus
  BY <1>2 DEF Base, TypeOK, GetStatus, dfu_getstatus, ControlStep, set_state, DfuStates,
              DfuStatuses, OK
<1>3. CASE ClrStatus
  BY <1>3 DEF Base, TypeOK, ClrStatus, dfu_clrstatus, ControlStep, set_state, DfuStates,
              DfuStatuses, OK
<1>4. CASE SetInterface
  BY <1>4 DEF Base, TypeOK, SetInterface, dfu_clrstatus, ControlStep, set_state, DfuStates,
              DfuStatuses, OK
<1>5. CASE Abort
  BY <1>5 DEF Base, TypeOK, Abort, ControlStep, set_state, DfuStates, DfuStatuses, OK
<1>6. CASE Detach
  BY <1>6 DEF Base, TypeOK, Detach, ControlStep, dfuVars
<1> QED
  BY <1>1, <1>2, <1>3, <1>4, <1>5, <1>6

LEMMA DeviceIsControl ==
  ASSUME Base, BlockAccepted \/ Reset \/ TimerIsr
  PROVE  ControlStep
<1>1. CASE BlockAccepted
  BY <1>1 DEF Base, TypeOK, BlockAccepted, ControlStep, set_state, DfuStates, DfuStatuses, OK
<1>2. CASE Reset
  BY <1>2 DEF Base, TypeOK, Reset, ControlStep, dfuVars
<1>3. CASE TimerIsr
  BY <1>3 DEF Base, TypeOK, TimerIsr, ControlStep, dfuVars
<1> QED
  BY <1>1, <1>2, <1>3

LEMMA BaseChip ==
  ASSUME Base, ChipDone
  PROVE  Base'
  BY DEF Base, TypeOK, LoopInBlock, ChipDone, FlashDone, dfuVars, flVars, hostVars

LEMMA BaseStep == Base /\ [Next]_vars => Base'
<1> SUFFICES ASSUME Base, [Next]_vars PROVE Base'
  OBVIOUS
<1>1. ASSUME NEW num \in Blocks, NEW len \in Lengths, NEW p \in Payloads,
             DnloadSetup(num, len, p)
      PROVE  Base'
  BY <1>1, SetupIsControl, BaseControl
<1>2. CASE DnloadEnd \/ GetStatus \/ ClrStatus \/ SetInterface \/ Abort \/ Detach
  BY <1>2, RequestIsControl, BaseControl
<1>3. ASSUME NEW n \in 0 .. PACKET_SIZE, DnloadPacket(n) PROVE Base'
  BY <1>3, BasePacket
<1>4. CASE BlockAccepted \/ Reset \/ TimerIsr
  BY <1>4, DeviceIsControl, BaseControl
<1>5. CASE dfu_poll
  BY <1>5, BasePoll
<1>6. CASE ChipDone
  BY <1>6, BaseChip
<1>7. CASE UNCHANGED vars
  BY <1>7 DEF Base, TypeOK, LoopInBlock, vars, flashVars, dfuVars, flVars, hostVars
<1> QED
  BY <1>1, <1>2, <1>3, <1>4, <1>5, <1>6, <1>7 DEF Next, Request, Gone

THEOREM BaseAlways == Spec => []Base
<1> QED
  BY BaseInit, BaseStep, PTL DEF Spec

\* Every variable keeps its type, whatever requests the host sends.
THEOREM TypeCorrect == Spec => []TypeOK
<1>1. Base => TypeOK
  BY DEF Base
<1> QED
  BY <1>1, BaseAlways, PTL

-----------------------------------------------------------------------------
(* The bootloader region, and programming of erased pages only. *)

\* What a page write does to memory, when the flash chip is idle and the
\* cells it programs are erased.
LEMMA WriteEffect ==
  ASSUME mem \in [MemAddr -> Cell], inflight = {},
         dfu_buffer \in [BufferIndex -> Cell], dfu_bytes_remaining \in Nat,
         NEW target \in Nat, NEW offset \in Nat,
         offset + dfu_bytes_remaining <= DFU_TRANSFER_SIZE,
         ram_mode = 0 => /\ \A a \in Span(target, dfu_bytes_remaining) : mem[a] = Erased
                         /\ dfu_bytes_remaining # 0 => Aligned(target, WRITE_SIZE),
         ftfl_write_more_bytes(target, offset)
  PROVE  \A a \in MemAddr :
           mem'[a] = IF a \in TargetAddr /\ a \in Span(target, MinOf(WRITE_SIZE, dfu_bytes_remaining))
                       THEN dfu_buffer[offset + (a - target)] ELSE mem[a]
<1> DEFINE n == MinOf(WRITE_SIZE, dfu_bytes_remaining)
           chunk == [i \in 0 .. n - 1 |-> dfu_buffer[offset + i]]
<1>1. n \in Nat /\ n <= dfu_bytes_remaining /\ n <= WRITE_SIZE
  BY Geometry DEF MinOf
<1>2. \A a \in Span(target, n) : chunk[a - target] = dfu_buffer[offset + (a - target)]
  <2> SUFFICES ASSUME NEW a \in Span(target, n)
               PROVE  chunk[a - target] = dfu_buffer[offset + (a - target)]
    OBVIOUS
  <2>1. a - target \in 0 .. n - 1
    BY <1>1 DEF Span
  <2> QED
    BY <2>1
<1>3. CASE ram_mode # 0
  <2>1. mem' = [a \in MemAddr |-> IF a \in RamAddr /\ a \in Span(target, n)
                                    THEN chunk[a - target] ELSE mem[a]]
    BY <1>3 DEF ftfl_write_more_bytes
  <2> HIDE DEF n, chunk
  <2>2. \A a \in MemAddr : mem'[a] = IF a \in RamAddr /\ a \in Span(target, n)
                                       THEN dfu_buffer[offset + (a - target)] ELSE mem[a]
    BY <2>1, <1>2
  <2> QED
    BY <2>2, <1>3 DEF TargetAddr, n
<1>4. CASE ram_mode = 0
  <2>1. spiBeginWrite(target, chunk, n)
    BY <1>4 DEF ftfl_write_more_bytes
  <2>2. mem' = [a \in MemAddr |-> IF a \in FlashAddr /\ a \in Span(target, n)
                                    THEN Programmed(mem[a], chunk[a - target], InPage(target, n))
                                    ELSE mem[a]]
    BY <2>1 DEF spiBeginWrite, spiIsBusy
  <2>3. \A a \in Span(target, n) : mem[a] = Erased
    BY <1>1, <1>4 DEF Span
  <2>4. \A a \in Span(target, n) : InPage(target, n)
    <3> SUFFICES ASSUME NEW a \in Span(target, n) PROVE InPage(target, n)
      OBVIOUS
    <3>1. dfu_bytes_remaining # 0
      BY <1>1 DEF Span
    <3> QED
      BY <3>1, <1>1, <1>4, PageStep
  <2> HIDE DEF n, chunk
  <2>5. \A a \in MemAddr : mem'[a] = IF a \in FlashAddr /\ a \in Span(target, n)
                                       THEN dfu_buffer[offset + (a - target)] ELSE mem[a]
    BY <2>2, <2>3, <2>4, <1>2 DEF Programmed
  <2> QED
    BY <2>5, <1>4 DEF TargetAddr, n
<1> QED
  BY <1>3, <1>4

\* What accepting a block does to the flash: its sector is erased.
LEMMA StartEffect ==
  ASSUME Base, NEW num \in Blocks, NEW len \in Lengths, NEW p \in Payloads,
         NEW mode \in {0} \cup RamAddr,
         len <= DFU_TRANSFER_SIZE,
         StartBlock(num, len, mode, p)
  PROVE  /\ mode # 0 => UNCHANGED mem
         /\ mode = 0 =>
              /\ CONFIG_RESCUE_IMAGE_OFFSET <= fl_current_addr'
              /\ fl_current_addr' + DFU_TRANSFER_SIZE <= FLASH_MAX_ADDR
              /\ Aligned(fl_current_addr', ERASE_SIZE)
              /\ \A a \in MemAddr : mem'[a] =
                   IF a \in FlashAddr /\ a \in Span(fl_current_addr', ERASE_SIZE)
                     THEN Erased ELSE mem[a]
<1> DEFINE address == address_for_block(num, mode)
<1>1. /\ fl_current_addr' = address /\ address \in Nat
      /\ ftfl_begin_erase_sector(address, mode)
      /\ ~FlashNotReady(mode) /\ ~OutOfRange(num, mode)
  BY BlockAddress DEF StartBlock
<1>2. CASE mode # 0
  BY <1>1, <1>2 DEF ftfl_begin_erase_sector, flashVars
<1>3. CASE mode = 0
  <2>1. /\ CONFIG_RESCUE_IMAGE_OFFSET <= address /\ Aligned(address, ERASE_SIZE)
    <3>1. num \in Nat
      BY HostAssumption
    <3>2. address = CONFIG_RESCUE_IMAGE_OFFSET + num * DFU_TRANSFER_SIZE
      BY <1>3 DEF address_for_block
    <3> QED
      BY <3>1, <3>2, BlockAligned
  <2>2. address < FLASH_MAX_ADDR
    BY <1>1, <1>3, Geometry DEF OutOfRange
  <2>3. address + DFU_TRANSFER_SIZE <= FLASH_MAX_ADDR
    BY <1>1, <2>1, <2>2, SectorInWindow, Geometry
  <2>4. spiBeginErase4(address)
    BY <1>1, <1>3, <2>1 DEF ftfl_begin_erase_sector
  <2>5. ~spiIsBusy
    BY <1>1, <1>3 DEF FlashNotReady, ftfl_busy
  <2>6. mem' = [a \in MemAddr |-> IF a \in FlashAddr /\ a \in Span(address, ERASE_SIZE)
                                    THEN Erased ELSE mem[a]]
    BY <2>4, <2>5 DEF spiBeginErase4
  <2> HIDE DEF address
  <2> QED
    BY <1>1, <1>3, <2>1, <2>3, <2>6
<1> QED
  BY <1>2, <1>3

\* A sector in the download window, and the part of it a block fills.
LEMMA WindowSpan ==
  ASSUME NEW c \in Nat, CONFIG_RESCUE_IMAGE_OFFSET <= c, c + ERASE_SIZE <= FLASH_MAX_ADDR
  PROVE  /\ \A a \in FlashAddr : a < CONFIG_RESCUE_IMAGE_OFFSET \/ a >= FLASH_MAX_ADDR
                                => a \notin Span(c, ERASE_SIZE)
         /\ \A k \in Nat : k <= ERASE_SIZE =>
              \A a \in Span(c, k) : a \in FlashAddr /\ a \in Span(c, ERASE_SIZE)
<1> USE Geometry DEF Span, FlashAddr
<1>1. ASSUME NEW a \in FlashAddr, a < CONFIG_RESCUE_IMAGE_OFFSET \/ a >= FLASH_MAX_ADDR
      PROVE  a \notin Span(c, ERASE_SIZE)
  BY <1>1
<1>2. ASSUME NEW k \in Nat, k <= ERASE_SIZE, NEW a \in Span(c, k)
      PROVE  a \in FlashAddr /\ a \in Span(c, ERASE_SIZE)
  BY <1>2
<1> QED
  BY <1>1, <1>2

BufferClean == \A i \in BufferIndex : dfu_buffer[i] # Corrupt

Safe == Base /\ FlashBlock /\ BootloaderUntouched /\ NeverCorrupt /\ BufferClean

LEMMA SafeInit == Init => Safe
<1> SUFFICES ASSUME Init PROVE Safe
  OBVIOUS
<1>1. FlashBlock /\ BootloaderUntouched /\ NeverCorrupt /\ BufferClean
  BY HostAssumption DEF Init, FlashBlock, BootloaderUntouched, NeverCorrupt, BufferClean, MemAddr
<1> QED
  BY <1>1, BaseInit DEF Safe

\* A step that leaves memory, the buffer and the page loop alone.
LEMMA SafeFrame ==
  ASSUME Safe, Base', UNCHANGED <<mem, dfu_buffer, flVars>>, ram_mode' = 0 => ram_mode = 0
  PROVE  Safe'
  BY DEF Safe, FlashBlock, BootloaderUntouched, NeverCorrupt, BufferClean, flVars, Rest

\* A packet leaves the buffer clean, and the mode never goes back to flash.
LEMMA ReceiveClean ==
  ASSUME Safe, NEW n \in 0 .. PACKET_SIZE, pc = "data",
         dfu_buffer' = Received(req.off, n, req.payload),
         ram_mode' = Selected(req.num, req.off, n, req.payload)
  PROVE  BufferClean' /\ (ram_mode' = 0 => ram_mode = 0)
<1>1. req.payload \in Payloads
  BY DEF Safe, Base, RequestType
<1>2. ram_mode' = 0 => ram_mode = 0
  BY DEF Selected
<1>3. dfu_buffer \in [BufferIndex -> Cell]
  BY DEF Safe, Base, TypeOK
<1>4. BufferClean'
  BY <1>1, <1>3, PayloadCell DEF Safe, BufferClean, Received
<1> QED
  BY <1>2, <1>4

LEMMA SafePacket ==
  ASSUME Safe, Base', NEW n \in 0 .. PACKET_SIZE, DnloadPacket(n)
  PROVE  Safe'
<1> DEFINE mode == Selected(req.num, req.off, n, req.payload)
<1>1. pc = "data" /\ req \in RequestType
  BY DEF DnloadPacket, Safe, Base
<1>2. CASE Overflows(req.len, req.off, n)
  <2>1. UNCHANGED <<mem, dfu_buffer, flVars>> /\ ram_mode' = ram_mode
    BY <1>2 DEF DnloadPacket, flashVars
  <2> QED
    BY <2>1, SafeFrame
<1>3. CASE ~Overflows(req.len, req.off, n)
  <2>1. dfu_buffer' = Received(req.off, n, req.payload) /\ ram_mode' = mode
    BY <1>3 DEF DnloadPacket
  <2>2. BufferClean' /\ (ram_mode' = 0 => ram_mode = 0)
    BY <1>1, <2>1, ReceiveClean
  <2>3. CASE /\ UNCHANGED <<flashVars, fl_state, dfu_buffer_offset, dfu_bytes_remaining,
                            dfu_target_address>>
             /\ fl_state # "flsIDLE" => UNCHANGED fl_current_addr
    BY <2>2, <2>3 DEF Safe, FlashBlock, BootloaderUntouched, NeverCorrupt, flashVars, Rest
  <2>4. CASE StartBlock(req.num, req.len, mode, req.payload) /\ ~(req.off + n < req.len)
    <3>1. /\ req.num \in Blocks /\ req.len \in Lengths /\ req.off \in Nat
          /\ req.payload \in Payloads
      BY <1>1 DEF RequestType
    <3>2. req.len <= DFU_TRANSFER_SIZE
      <4>1. req.len \in Nat
        BY <3>1, HostAssumption
      <4>2. n \in Nat
        BY Geometry
      <4> QED
        BY <3>1, <4>1, <4>2, <1>3, <2>4, Geometry DEF Overflows
    <3>3. mode \in {0} \cup RamAddr
      BY <2>1 DEF Base, TypeOK
    <3>4. Base
      BY DEF Safe
    <3>5. fl_state' = "flsERASING" /\ dfu_bytes_remaining' = req.len /\ fl_current_addr' \in Nat
          /\ req.len \in Nat
      BY <2>4, <3>1, <3>2, <3>3, <3>4, BaseStart
    <3>6. /\ mode # 0 => UNCHANGED mem
          /\ mode = 0 =>
              /\ CONFIG_RESCUE_IMAGE_OFFSET <= fl_current_addr'
              /\ fl_current_addr' + DFU_TRANSFER_SIZE <= FLASH_MAX_ADDR
              /\ Aligned(fl_current_addr', ERASE_SIZE)
              /\ \A a \in MemAddr : mem'[a] =
                   IF a \in FlashAddr /\ a \in Span(fl_current_addr', ERASE_SIZE)
                     THEN Erased ELSE mem[a]
      BY <2>4, <3>1, <3>2, <3>3, <3>4, StartEffect
    <3>7. CASE mode # 0
      BY <2>1, <2>2, <3>6, <3>7 DEF Safe, FlashBlock, BootloaderUntouched, NeverCorrupt
    <3>8. CASE mode = 0
      <4>0. /\ fl_current_addr' \in Nat /\ CONFIG_RESCUE_IMAGE_OFFSET <= fl_current_addr'
            /\ fl_current_addr' + ERASE_SIZE <= FLASH_MAX_ADDR
        BY <3>5, <3>6, <3>8, Geometry
      <4>1. BootloaderUntouched'
        <5> SUFFICES ASSUME NEW a \in FlashAddr,
                            a < CONFIG_RESCUE_IMAGE_OFFSET \/ a >= FLASH_MAX_ADDR
                     PROVE  mem'[a] = Old
          BY DEF BootloaderUntouched
        <5>1. a \notin Span(fl_current_addr', ERASE_SIZE)
          BY <4>0, WindowSpan
        <5>2. mem'[a] = mem[a]
          BY <3>6, <3>8, <5>1 DEF MemAddr
        <5> QED
          BY <5>2 DEF Safe, BootloaderUntouched
      <4>2. NeverCorrupt'
        BY <3>6, <3>8, FlashGeometry DEF Safe, NeverCorrupt
      <4>3. \A a \in Span(fl_current_addr', req.len) :
              a \in FlashAddr /\ a \in Span(fl_current_addr', ERASE_SIZE)
        <5>1. req.len \in Nat /\ req.len <= ERASE_SIZE
          BY <3>2, <3>5, Geometry
        <5> QED
          BY <4>0, <5>1, WindowSpan
      <4>4. \A a \in Rest' : mem'[a] = Erased
        BY <3>5, <3>6, <3>8, <4>3 DEF Rest, MemAddr
      <4>5. FlashBlock'
        BY <3>5, <3>6, <3>8, <4>4 DEF FlashBlock
      <4> QED
        BY <2>2, <4>1, <4>2, <4>5 DEF Safe
    <3> QED
      BY <3>7, <3>8
  <2> QED
    BY <1>3, <2>3, <2>4 DEF DnloadPacket, RejectBlock, FlashNotReady, flVars
<1> QED
  BY <1>2, <1>3

LEMMA SafeWrite ==
  ASSUME Safe, Base', inflight = {}, fl_state # "flsIDLE", fl_state' = "flsPROGRAMMING",
         UNCHANGED <<dfu_buffer, ram_mode, fl_current_addr>>,
         NEW target \in Nat, NEW offset \in Nat, target = fl_current_addr + offset,
         offset + dfu_bytes_remaining <= DFU_TRANSFER_SIZE,
         Rest = Span(target, dfu_bytes_remaining),
         ram_mode = 0 /\ dfu_bytes_remaining # 0 => Aligned(target, WRITE_SIZE),
         ftfl_write_more_bytes(target, offset)
  PROVE  Safe'
<1> DEFINE rem == dfu_bytes_remaining
           n   == MinOf(WRITE_SIZE, rem)
<1>1. /\ mem \in [MemAddr -> Cell] /\ dfu_buffer \in [BufferIndex -> Cell]
      /\ rem \in Nat /\ fl_current_addr \in Nat
  BY DEF Safe, Base, TypeOK
<1>10. n \in Nat /\ n <= rem /\ (n < rem => n = WRITE_SIZE)
  BY <1>1, Geometry DEF MinOf
<1>11. /\ target = fl_current_addr + offset /\ offset + rem <= DFU_TRANSFER_SIZE
       /\ DFU_TRANSFER_SIZE = ERASE_SIZE /\ ERASE_SIZE \in Nat
  BY Geometry
<1> HIDE DEF n, rem
<1>2. /\ \A a \in Span(target, n) :
           /\ a \in Span(target, rem) /\ a \in Span(fl_current_addr, ERASE_SIZE)
           /\ offset + (a - target) \in BufferIndex
      /\ \A a \in Span(target + n, rem - n) :
           /\ a \in Span(target, rem) /\ a \notin Span(target, n)
           /\ a \in Span(fl_current_addr, ERASE_SIZE)
  <2>1. fl_current_addr \in Nat /\ target \in Nat /\ offset \in Nat /\ rem \in Nat /\ n \in Nat
    BY <1>1, <1>10
  <2>2. n <= rem
    BY <1>10
  <2> QED
    BY <2>1, <2>2, <1>11 DEF Span, BufferIndex
<1> USE DEF n, rem
<1>3. ram_mode = 0 => /\ CONFIG_RESCUE_IMAGE_OFFSET <= fl_current_addr
                      /\ fl_current_addr + ERASE_SIZE <= FLASH_MAX_ADDR
                      /\ Aligned(fl_current_addr, ERASE_SIZE)
                      /\ \A a \in Span(target, rem) : mem[a] = Erased
  BY Geometry DEF Safe, FlashBlock
<1>4. \A a \in MemAddr : mem'[a] = IF a \in TargetAddr /\ a \in Span(target, n)
                                     THEN dfu_buffer[offset + (a - target)] ELSE mem[a]
  BY <1>1, <1>3, WriteEffect
<1>5. dfu_bytes_remaining' = rem - n /\ dfu_target_address' = target + n
  BY DEF ftfl_write_more_bytes
<1> HIDE DEF n, rem
<1>6. NeverCorrupt'
  BY <1>2, <1>4 DEF NeverCorrupt, Safe, BufferClean
<1>7. BootloaderUntouched'
  <2> SUFFICES ASSUME NEW a \in FlashAddr,
                      a < CONFIG_RESCUE_IMAGE_OFFSET \/ a >= FLASH_MAX_ADDR
               PROVE  mem'[a] = Old
    BY DEF BootloaderUntouched
  <2>1. ~(a \in TargetAddr /\ a \in Span(target, n))
    <3>1. CASE ram_mode # 0
      BY <3>1, FlashGeometry DEF TargetAddr
    <3>2. CASE ram_mode = 0
      BY <3>2, <1>1, <1>2, <1>3, WindowSpan
    <3> QED
      BY <3>1, <3>2
  <2>2. mem'[a] = mem[a]
    BY <1>4, <2>1 DEF MemAddr
  <2> QED
    BY <2>2 DEF Safe, BootloaderUntouched
<1>8. FlashBlock'
  <2> SUFFICES ASSUME ram_mode = 0
               PROVE  /\ \A a \in Rest' : mem'[a] = Erased
                      /\ dfu_bytes_remaining' # 0 => Aligned(dfu_target_address', WRITE_SIZE)
    BY <1>3, Geometry DEF FlashBlock
  <2>1. Rest' = Span(target + n, rem - n)
    BY <1>5 DEF Rest
  <2>2. \A a \in Rest' : mem'[a] = Erased
    <3> SUFFICES ASSUME NEW a \in Rest' PROVE mem'[a] = Erased
      OBVIOUS
    <3>1. a \in Span(target, rem) /\ a \notin Span(target, n) /\ a \in Span(fl_current_addr, ERASE_SIZE)
      BY <1>2, <2>1
    <3>2. a \in FlashAddr
      BY <1>1, <1>3, <3>1, Geometry, WindowSpan
    <3> QED
      BY <1>3, <1>4, <3>1, <3>2 DEF MemAddr
  <2>3. ASSUME dfu_bytes_remaining' # 0 PROVE Aligned(dfu_target_address', WRITE_SIZE)
    <3>1. n < rem
      BY <2>3, <1>1, <1>10, <1>5 DEF rem
    <3>2. n = WRITE_SIZE /\ dfu_bytes_remaining # 0
      BY <3>1, <1>1, <1>10 DEF rem
    <3>3. Aligned(target, WRITE_SIZE)
      BY <3>2
    <3>4. Aligned(target + WRITE_SIZE, WRITE_SIZE)
      BY <3>3, PageStep, Geometry
    <3> QED
      BY <3>2, <3>4, <1>5
  <2> QED
    BY <2>2, <2>3
<1>9. BufferClean'
  BY DEF Safe, BufferClean
<1> QED
  BY <1>6, <1>7, <1>8, <1>9 DEF Safe

LEMMA SafePoll ==
  ASSUME Safe, Base', dfu_poll
  PROVE  Safe'
<1>1. /\ UNCHANGED <<dfu_buffer, ram_mode, fl_current_addr>> /\ inflight = {}
  BY DEF dfu_poll, spiIsBusy
<1>2. /\ fl_current_addr \in Nat /\ dfu_bytes_remaining \in Nat /\ dfu_target_address \in Nat
      /\ dfu_buffer_offset \in Nat
  BY DEF Safe, Base, TypeOK
<1>3. CASE /\ fl_state = "flsERASING" /\ fl_state' = "flsPROGRAMMING"
           /\ ftfl_write_more_bytes(fl_current_addr, 0)
  <2>1. fl_current_addr = fl_current_addr + 0 /\ 0 + dfu_bytes_remaining <= DFU_TRANSFER_SIZE
    BY <1>2, <1>3 DEF Safe, Base, LoopInBlock
  <2>2. Rest = Span(fl_current_addr, dfu_bytes_remaining)
    BY <1>3 DEF Rest
  <2>3. ram_mode = 0 => Aligned(fl_current_addr, WRITE_SIZE)
    BY <1>2, <1>3, SectorIsPage DEF Safe, FlashBlock
  <2> QED
    BY <1>1, <1>2, <1>3, <2>1, <2>2, <2>3, SafeWrite
<1>4. CASE /\ fl_state = "flsPROGRAMMING" /\ fl_state' = fl_state
           /\ ftfl_write_more_bytes(dfu_target_address, dfu_buffer_offset)
  <2>1. /\ dfu_target_address = fl_current_addr + dfu_buffer_offset
        /\ dfu_buffer_offset + dfu_bytes_remaining <= DFU_TRANSFER_SIZE
    BY <1>4 DEF Safe, Base, LoopInBlock
  <2>2. Rest = Span(dfu_target_address, dfu_bytes_remaining)
    BY <1>4 DEF Rest
  <2>3. ram_mode = 0 /\ dfu_bytes_remaining # 0 => Aligned(dfu_target_address, WRITE_SIZE)
    BY <1>4 DEF Safe, FlashBlock
  <2> QED
    BY <1>1, <1>2, <1>4, <2>1, <2>2, <2>3, SafeWrite
<1>5. CASE /\ fl_state' = "flsIDLE" /\ UNCHANGED flashVars
  BY <1>1, <1>5 DEF Safe, FlashBlock, BootloaderUntouched, NeverCorrupt, BufferClean, flashVars
<1> QED
  BY <1>3, <1>4, <1>5 DEF dfu_poll

LEMMA SafeStep == Safe /\ [Next]_vars => Safe'
<1> SUFFICES ASSUME Safe, [Next]_vars PROVE Safe'
  OBVIOUS
<1>0. Base /\ Base'
  BY BaseStep DEF Safe
<1>1. ASSUME NEW num \in Blocks, NEW len \in Lengths, NEW p \in Payloads,
             DnloadSetup(num, len, p)
      PROVE  Safe'
  BY <1>0, <1>1, SetupIsControl, SafeFrame DEF ControlStep, flashVars
<1>2. CASE DnloadEnd \/ GetStatus \/ ClrStatus \/ SetInterface \/ Abort \/ Detach
  BY <1>0, <1>2, RequestIsControl, SafeFrame DEF ControlStep, flashVars
<1>3. ASSUME NEW n \in 0 .. PACKET_SIZE, DnloadPacket(n) PROVE Safe'
  BY <1>0, <1>3, SafePacket
<1>4. CASE BlockAccepted \/ Reset \/ TimerIsr
  BY <1>0, <1>4, DeviceIsControl, SafeFrame DEF ControlStep, flashVars
<1>5. CASE dfu_poll
  BY <1>0, <1>5, SafePoll
<1>6. CASE ChipDone
  BY <1>0, <1>6, SafeFrame DEF ChipDone, FlashDone, dfuVars, flVars
<1>7. CASE UNCHANGED vars
  BY <1>0, <1>7, SafeFrame DEF vars, flashVars, dfuVars
<1> QED
  BY <1>1, <1>2, <1>3, <1>4, <1>5, <1>6, <1>7 DEF Next, Request, Gone

THEOREM SafeAlways == Spec => []Safe
<1> QED
  BY SafeInit, SafeStep, PTL DEF Spec

\* Foboot is failsafe towards its host: no sequence of requests makes the
\* download engine erase or program a cell outside the download window.
THEOREM BootloaderIsUntouched == Spec => []BootloaderUntouched
<1>1. Safe => BootloaderUntouched
  BY DEF Safe
<1> QED
  BY <1>1, SafeAlways, PTL

\* The page loop programs erased cells only and no program wraps around.
THEOREM PagesAreErased == Spec => []NeverCorrupt
<1>1. Safe => NeverCorrupt
  BY DEF Safe
<1> QED
  BY <1>1, SafeAlways, PTL

=============================================================================
