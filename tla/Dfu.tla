-------------------------------- MODULE Dfu --------------------------------
(***************************************************************************)
(* The DFU download engine of Foboot: dfu.c, the DFU requests of           *)
(* usb-dev.c that drive it, the main loop and the timer interrupt of       *)
(* main.c that preempts it, and the flash chip it programs.                *)
(*                                                                         *)
(* usb_setup runs to completion inside the main loop, except that a        *)
(* DFU_DNLOAD with data spins in usb_recv between packets, and that the    *)
(* reset of dfuMANIFEST_WAIT_RESET waits for the host: pc tells where the  *)
(* main thread is.  The timer interrupt may run wherever pc stands.        *)
(***************************************************************************)
EXTENDS SpiFlash

CONSTANTS
  CONFIG_RESCUE_IMAGE_OFFSET,  \* flash address of block 0
  FLASH_MAX_ADDR,              \* first flash address a download may not reach
  DFU_TRANSFER_SIZE,           \* cells of dfu_buffer, the largest block
  PACKET_SIZE,                 \* cells of rx_buffer, the largest packet
  Blocks,                      \* block numbers a host may ask for (wValue)
  Lengths,                     \* block lengths a host may ask for (wLength)
  Payloads,                    \* the data a host may send in a block
  LoadAddress,                 \* [Payloads -> address after the RAM boot
                               \*  sentinel at the head of the data, or 0]
  Old,                         \* content of memory before any download
  NoRequest                    \* no DFU_DNLOAD data stage is going on

VARIABLES
  dfu_state, dfu_status, fl_state, fl_current_addr,
  dfu_buffer, dfu_buffer_offset, dfu_bytes_remaining, dfu_target_address,
  ram_mode,
  pc,              \* where the main thread is
  req,             \* the locals of usb_setup during a DFU_DNLOAD data stage
  timer,           \* the auto-boot timer
  reply,           \* how the last control request was answered
  image            \* history: what memory holds once all accepted blocks
                   \* have been written

flVars   == <<fl_state, fl_current_addr, dfu_buffer_offset,
              dfu_bytes_remaining, dfu_target_address>>
dfuVars  == <<dfu_state, dfu_status, dfu_buffer, ram_mode, flVars>>
hostVars == <<pc, req, reply>>
vars     == <<flashVars, dfuVars, hostVars, timer, image>>

BufferIndex == 0 .. DFU_TRANSFER_SIZE - 1
RequestType == [num : Blocks, len : Lengths, off : Nat, payload : Payloads]

\* The geometry of dfu.c: a block is one erase sector, the download window
\* is a whole number of blocks inside the chip, above the bootloader.
ASSUME DfuGeometry ==
  /\ DFU_TRANSFER_SIZE = ERASE_SIZE
  /\ PACKET_SIZE \in Nat \ {0}
  /\ CONFIG_RESCUE_IMAGE_OFFSET \in Nat /\ Aligned(CONFIG_RESCUE_IMAGE_OFFSET, ERASE_SIZE)
  /\ FLASH_MAX_ADDR \in Nat /\ Aligned(FLASH_MAX_ADDR, ERASE_SIZE)
  /\ FLASH_MAX_ADDR <= FLASH_SIZE

\* What a host sends: 16-bit fields, and a RAM boot image that names a RAM
\* address, as BOOT-SEQUENCE.md asks of it.
ASSUME HostAssumption ==
  /\ Blocks \subseteq Nat
  /\ Lengths \subseteq Nat
  /\ Payloads # {}
  /\ LoadAddress \in [Payloads -> {0} \cup (RamAddr \ {0})]
  /\ \A p \in Payloads, i \in BufferIndex : <<p, i>> \notin {Erased, Corrupt, Old}
  /\ Old \notin {Erased, Corrupt}
  /\ NoRequest \notin RequestType

OK == "OK"

DfuStates == {"dfuIDLE", "dfuDNLOAD_SYNC", "dfuDNBUSY", "dfuDNLOAD_IDLE",
              "dfuMANIFEST_SYNC", "dfuMANIFEST", "dfuMANIFEST_WAIT_RESET",
              "dfuERROR"}
DfuStatuses == {OK, "errADDRESS", "errWRITE", "errSTALLEDPKT"}

Cell == {Old, Erased, Corrupt} \cup (Payloads \X BufferIndex)

-----------------------------------------------------------------------------
\* main.c init(): the flash is idle, the timer is armed when the installed
\* image asks for auto-boot.
Init ==
  /\ mem = [a \in MemAddr |-> Old]
  /\ inflight = {}
  /\ dfu_state = "dfuIDLE" /\ dfu_status = OK
  /\ fl_state = "flsIDLE" /\ fl_current_addr = 0
  /\ dfu_buffer = [i \in BufferIndex |-> Old]
  /\ dfu_buffer_offset = 0 /\ dfu_bytes_remaining = 0 /\ dfu_target_address = 0
  /\ ram_mode = 0
  /\ pc = "loop" /\ req = NoRequest /\ reply = "none"
  /\ timer \in {"off", "armed"}
  /\ image = mem

set_state(new_state, new_status) ==
  /\ dfu_state' = new_state
  /\ dfu_status' = new_status

\* Busy as dfu.c sees it under a given ram_mode.
ftfl_busy(mode) == mode = 0 /\ spiIsBusy

address_for_block(blockNum, mode) ==
  (IF mode # 0 THEN mode ELSE CONFIG_RESCUE_IMAGE_OFFSET) + blockNum * DFU_TRANSFER_SIZE

\* Mutant: the alignment test of ftfl_begin_erase_sector the wrong way round.
begin_erase_unaligned(address, mode) ==
  /\ fl_state' = "flsERASING"
  /\ IF mode = 0 /\ ~Aligned(address, ERASE_SIZE)
       THEN spiBeginErase4(address)
       ELSE UNCHANGED flashVars

\* Erase the sector, unless the block goes to RAM.
ftfl_begin_erase_sector(address, mode) ==
  /\ fl_state' = "flsERASING"
  /\ IF mode = 0 /\ Aligned(address, ERASE_SIZE)
       THEN spiBeginErase4(address)
       ELSE UNCHANGED flashVars

\* Mutant: the last page is not cut to what remains of the block.
NoCut(a, b) == a

\* bytes_to_write: a page, or what remains of the block.
MinOf(a, b) == IF a < b THEN a ELSE b

\* Program, or copy to RAM, the next page of dfu_buffer.
ftfl_write_more_bytes(target, offset) ==
  LET bytes_to_write == MinOf(WRITE_SIZE, dfu_bytes_remaining)
      chunk == [i \in 0 .. bytes_to_write - 1 |-> dfu_buffer[offset + i]]
  IN /\ IF ram_mode # 0
          THEN /\ mem' = [a \in MemAddr |->
                            IF a \in RamAddr /\ a \in Span(target, bytes_to_write)
                              THEN chunk[a - target] ELSE mem[a]]
               /\ UNCHANGED inflight
          ELSE spiBeginWrite(target, chunk, bytes_to_write)
     /\ dfu_bytes_remaining' = dfu_bytes_remaining - bytes_to_write
     /\ dfu_target_address' = target + bytes_to_write
     /\ dfu_buffer_offset' = offset + bytes_to_write

-----------------------------------------------------------------------------
\* Mutant: dfu_poll forgets the state a first status request leads to.
PolledOnce == dfu_state = "dfuDNLOAD_SYNC"

\* The states in which dfu_poll advances the flash state machine.
Polled == dfu_state \in {"dfuDNLOAD_SYNC", "dfuDNBUSY"}

\* dfu_poll and fl_state_poll: called once per turn of the main loop.  It
\* does nothing while the chip is busy or no download is being written.
dfu_poll ==
  /\ pc = "loop" /\ Polled /\ ~spiIsBusy
  /\ \/ /\ fl_state = "flsERASING"
        /\ fl_state' = "flsPROGRAMMING"
        /\ ftfl_write_more_bytes(fl_current_addr, 0)
     \/ /\ fl_state = "flsPROGRAMMING" /\ dfu_bytes_remaining # 0
        /\ ftfl_write_more_bytes(dfu_target_address, dfu_buffer_offset)
        /\ UNCHANGED fl_state
     \/ /\ fl_state = "flsPROGRAMMING" /\ dfu_bytes_remaining = 0
        /\ fl_state' = "flsIDLE"
        /\ UNCHANGED <<flashVars, dfu_bytes_remaining, dfu_target_address,
                       dfu_buffer_offset>>
  /\ UNCHANGED <<dfu_state, dfu_status, dfu_buffer, ram_mode, fl_current_addr,
                 hostVars, timer, image>>

\* The head of dfu_download: the packet does not fit the buffer or the block.
Overflows(blockLength, packetOffset, packetLength) ==
  \/ packetOffset + packetLength > DFU_TRANSFER_SIZE
  \/ packetOffset + packetLength > blockLength

\* Mutant: every packet is stored at the start of dfu_buffer.
ReceivedAtStart(packetOffset, packetLength, payload) ==
  [i \in DOMAIN dfu_buffer |->
     IF i \in Span(0, packetLength) THEN <<payload, i + packetOffset>> ELSE dfu_buffer[i]]

\* dfu_buffer after the packet has been stored.
Received(packetOffset, packetLength, payload) ==
  [i \in DOMAIN dfu_buffer |->
     IF i \in Span(packetOffset, packetLength) THEN <<payload, i>> ELSE dfu_buffer[i]]

\* ram_mode after the first packet of block 0 has been searched for the
\* RAM boot sentinel.
Selected(blockNum, packetOffset, packetLength, payload) ==
  IF blockNum = 0 /\ packetOffset = 0 /\ packetLength > 0 /\ LoadAddress[payload] # 0
    THEN LoadAddress[payload] ELSE ram_mode

\* The refusals of dfu_download once the whole block is there.
WrongState == dfu_state \notin {"dfuIDLE", "dfuDNLOAD_IDLE"}
\* Mutant: only the chip is asked, not the flash state machine.
ChipNotReady(mode) == ftfl_busy(mode)
FlashNotReady(mode) == ftfl_busy(mode) \/ fl_state # "flsIDLE"
\* Mutant: off by one at the end of the window.
PastEnd(blockNum, mode) ==
  mode = 0 /\ address_for_block(blockNum, mode) > FLASH_MAX_ADDR
OutOfRange(blockNum, mode) ==
  mode = 0 /\ address_for_block(blockNum, mode) >= FLASH_MAX_ADDR

\* The part of dfu_download from the last packet of a block on, which
\* rejects the block.  The address of a block behind the window is kept.
RejectBlock(blockNum, mode) ==
  /\ \/ WrongState /\ set_state("dfuERROR", "errSTALLEDPKT") /\ UNCHANGED fl_current_addr
     \/ /\ ~WrongState /\ FlashNotReady(mode)
        /\ set_state("dfuERROR", "errWRITE") /\ UNCHANGED fl_current_addr
     \/ /\ ~WrongState /\ ~FlashNotReady(mode) /\ OutOfRange(blockNum, mode)
        /\ set_state("dfuERROR", "errADDRESS")
        /\ fl_current_addr' = address_for_block(blockNum, mode)
  /\ UNCHANGED <<flashVars, fl_state, dfu_buffer_offset, dfu_bytes_remaining,
                 dfu_target_address, image>>

\* The part of dfu_download that accepts the block: the sector erase is
\* sent, and dfu_state is still what it was (see BlockAccepted).
StartBlock(blockNum, blockLength, mode, payload) ==
  LET address == address_for_block(blockNum, mode)
  IN /\ ~WrongState /\ ~FlashNotReady(mode) /\ ~OutOfRange(blockNum, mode)
     /\ fl_current_addr' = address
     /\ dfu_bytes_remaining' = blockLength
     /\ ftfl_begin_erase_sector(address, mode)
     /\ image' = [a \in MemAddr |->
          IF a \in Span(address, blockLength) /\ (a \in FlashAddr <=> mode = 0)
            THEN <<payload, a - address>>
          ELSE IF mode = 0 /\ a \in FlashAddr /\ a \in Span(address, ERASE_SIZE)
            THEN Erased
          ELSE image[a]]
     /\ UNCHANGED <<dfu_state, dfu_status, dfu_target_address, dfu_buffer_offset>>

-----------------------------------------------------------------------------
\* DFU_DNLOAD with data: usb_setup starts to wait for packets.
DnloadSetup(num, len, payload) ==
  /\ pc = "loop" /\ len > 0
  /\ pc' = "data"
  /\ req' = [num |-> num, len |-> len, off |-> 0, payload |-> payload]
  /\ UNCHANGED <<flashVars, dfuVars, reply, timer, image>>

\* usb_recv returns a packet of n cells and dfu_download is called for it.
\* Its result is ignored: after the last packet the request is acknowledged.
DnloadPacket(n) ==
  LET off  == req.off + n
      more == off < req.len
      mode == Selected(req.num, req.off, n, req.payload)
  IN /\ pc = "data"
     /\ n <= MinOf(req.len, PACKET_SIZE)
     /\ \/ /\ Overflows(req.len, req.off, n)
           /\ set_state("dfuERROR", "errADDRESS")
           /\ UNCHANGED <<dfu_buffer, ram_mode, flashVars, flVars, image>>
           /\ pc' = IF more THEN "data" ELSE "loop"
        \/ /\ ~Overflows(req.len, req.off, n)
           /\ dfu_buffer' = Received(req.off, n, req.payload)
           /\ ram_mode' = mode
           /\ \/ /\ more
                 /\ UNCHANGED <<flashVars, flVars, dfu_state, dfu_status, image>>
                 /\ pc' = "data"
              \/ ~more /\ RejectBlock(req.num, mode) /\ pc' = "loop"
              \/ ~more /\ StartBlock(req.num, req.len, mode, req.payload) /\ pc' = "erasing"
     /\ req' = IF more THEN [req EXCEPT !.off = off] ELSE NoRequest
     /\ reply' = IF more THEN reply ELSE "ack"
     /\ UNCHANGED timer

\* The end of dfu_download for an accepted block.  The timer interrupt can
\* come between the erase command and this assignment.
BlockAccepted ==
  /\ pc = "erasing"
  /\ set_state("dfuDNLOAD_SYNC", OK)
  /\ pc' = "loop"
  /\ UNCHANGED <<flashVars, dfu_buffer, ram_mode, flVars, req, reply, timer, image>>

\* DFU_DNLOAD without data ends the download: dfu_download(wValue, 0, 0, 0, NULL).
DnloadEnd ==
  /\ pc = "loop"
  /\ \/ WrongState /\ set_state("dfuERROR", "errSTALLEDPKT") /\ reply' = "stall"
     \/ /\ ~WrongState /\ FlashNotReady(ram_mode)
        /\ set_state("dfuERROR", "errWRITE") /\ reply' = "stall"
     \/ /\ ~WrongState /\ ~FlashNotReady(ram_mode)
        /\ set_state("dfuMANIFEST_SYNC", OK) /\ reply' = "ack"
  /\ UNCHANGED <<flashVars, dfu_buffer, ram_mode, flVars, pc, req, timer, image>>

\* Mutant: a download is reported done as soon as the chip is not busy.
getstatus_chip_idle ==
  \/ /\ Polled
     /\ set_state(IF ~spiIsBusy THEN "dfuDNLOAD_IDLE" ELSE "dfuDNBUSY", OK)
  \/ dfu_state = "dfuMANIFEST_SYNC" /\ set_state("dfuMANIFEST", OK)
  \/ dfu_state = "dfuMANIFEST" /\ set_state("dfuMANIFEST_WAIT_RESET", OK)
  \/ /\ dfu_state \in {"dfuIDLE", "dfuDNLOAD_IDLE", "dfuMANIFEST_WAIT_RESET", "dfuERROR"}
     /\ UNCHANGED <<dfu_state, dfu_status>>

\* dfu_getstatus: what a status request does to the state machine.
dfu_getstatus ==
  \/ /\ Polled
     /\ set_state(IF fl_state = "flsIDLE" THEN "dfuDNLOAD_IDLE" ELSE "dfuDNBUSY", OK)
  \/ dfu_state = "dfuMANIFEST_SYNC" /\ set_state("dfuMANIFEST", OK)
  \/ dfu_state = "dfuMANIFEST" /\ set_state("dfuMANIFEST_WAIT_RESET", OK)
  \/ /\ dfu_state \in {"dfuIDLE", "dfuDNLOAD_IDLE", "dfuMANIFEST_WAIT_RESET", "dfuERROR"}
     /\ UNCHANGED <<dfu_state, dfu_status>>

\* DFU_GETSTATUS: once the state is dfuMANIFEST_WAIT_RESET the device waits
\* for the host to take the reply, to reset.
GetStatus ==
  /\ pc = "loop"
  /\ dfu_getstatus
  /\ reply' = "ack"
  /\ pc' = IF dfu_state' = "dfuMANIFEST_WAIT_RESET" THEN "wait_reset" ELSE "loop"
  /\ UNCHANGED <<flashVars, dfu_buffer, ram_mode, flVars, req, timer, image>>

\* dfu_clrstatus.
Clearable == dfu_state \in {"dfuERROR", "dfuIDLE", "dfuMANIFEST_WAIT_RESET"}
dfu_clrstatus ==
  IF Clearable THEN set_state("dfuIDLE", OK) ELSE set_state("dfuERROR", "errSTALLEDPKT")

\* DFU_CLRSTATUS, which stalls when the status cannot be cleared.
ClrStatus ==
  /\ pc = "loop"
  /\ dfu_clrstatus
  /\ reply' = IF Clearable THEN "ack" ELSE "stall"
  /\ UNCHANGED <<flashVars, dfu_buffer, ram_mode, flVars, pc, req, timer, image>>

\* SET_INTERFACE calls dfu_clrstatus and acknowledges whatever it says.
SetInterface ==
  /\ pc = "loop"
  /\ dfu_clrstatus
  /\ reply' = "ack"
  /\ UNCHANGED <<flashVars, dfu_buffer, ram_mode, flVars, pc, req, timer, image>>

\* DFU_ABORT: dfu_abort goes to dfuIDLE from every state.
Abort ==
  /\ pc = "loop"
  /\ set_state("dfuIDLE", OK)
  /\ reply' = "ack"
  /\ UNCHANGED <<flashVars, dfu_buffer, ram_mode, flVars, pc, req, timer, image>>

\* DFU_DETACH: acknowledge, then reboot().
Detach ==
  /\ pc = "loop"
  /\ pc' = "rebooted" /\ reply' = "ack"
  /\ UNCHANGED <<flashVars, dfuVars, req, timer, image>>

\* The host takes the dfuMANIFEST_WAIT_RESET reply: reboot().
Reset ==
  /\ pc = "wait_reset"
  /\ pc' = "rebooted"
  /\ UNCHANGED <<flashVars, dfuVars, req, reply, timer, image>>

\* isr() for TIMER0: the one-shot auto-boot timer boots the installed image
\* when the state machine is idle and the user does not pinch the pads.
TimerIsr ==
  /\ timer = "armed" /\ pc # "rebooted"
  /\ \/ dfu_state = "dfuIDLE" /\ timer' = "autoboot" /\ pc' = "rebooted"
     \/ timer' = "fired" /\ UNCHANGED pc
  /\ UNCHANGED <<flashVars, dfuVars, req, reply, image>>

\* The chip finishes while the bootloader runs.
ChipDone ==
  /\ pc # "rebooted"
  /\ FlashDone
  /\ UNCHANGED <<dfuVars, hostVars, timer, image>>

\* The bootloader has jumped away: nothing of it runs any more.
Gone == pc = "rebooted" /\ UNCHANGED vars

Request ==
  \/ \E num \in Blocks, len \in Lengths, p \in Payloads : DnloadSetup(num, len, p)
  \/ DnloadEnd \/ GetStatus \/ ClrStatus \/ SetInterface \/ Abort \/ Detach

Next ==
  \/ Request
  \/ \E n \in 0 .. PACKET_SIZE : DnloadPacket(n)
  \/ BlockAccepted \/ Reset \/ dfu_poll \/ TimerIsr \/ ChipDone \/ Gone

Spec == Init /\ [][Next]_vars

\* The main loop keeps turning and the chip finishes what it started; the
\* host is free to stop.
Fairness == WF_vars(dfu_poll) /\ WF_vars(BlockAccepted) /\ WF_vars(ChipDone)

FairSpec == Spec /\ Fairness

=============================================================================
