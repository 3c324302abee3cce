--------------------------- MODULE DfuProperties ---------------------------
(***************************************************************************)
(* What the download engine of Dfu.tla is held to.                         *)
(***************************************************************************)
EXTENDS Dfu

CONSTANT Unknown     \* content of a cell while its block is being written

\* The variables have their types.
TypeOK ==
  /\ mem \in [MemAddr -> Cell] /\ image \in [MemAddr -> Cell]
  /\ inflight \subseteq FlashAddr
  /\ dfu_state \in DfuStates /\ dfu_status \in DfuStatuses
  /\ fl_state \in {"flsIDLE", "flsERASING", "flsPROGRAMMING"}
  /\ fl_current_addr \in Nat
  /\ dfu_buffer \in [BufferIndex -> Cell]
  /\ dfu_buffer_offset \in Nat /\ dfu_bytes_remaining \in Nat
  /\ dfu_target_address \in Nat
  /\ ram_mode \in {0} \cup RamAddr
  /\ pc \in {"loop", "data", "erasing", "wait_reset", "rebooted"}
  /\ req \in RequestType \cup {NoRequest}
  /\ reply \in {"none", "ack", "stall"}
  /\ timer \in {"off", "armed", "fired", "autoboot"}

-----------------------------------------------------------------------------
\* Failsafe: whatever a host sends, in whatever order, no cell outside the
\* download window of the flash is ever erased or programmed (the window
\* check of dfu_download, the sector erase and the page loop of dfu.c).
BootloaderUntouched ==
  \A a \in FlashAddr :
    a < CONFIG_RESCUE_IMAGE_OFFSET \/ a >= FLASH_MAX_ADDR => mem[a] = Old

\* No page is programmed that is not erased, and no program wraps around its
\* page: the erase of ftfl_begin_erase_sector covers all that the page loop
\* of ftfl_write_more_bytes writes, across aborts and refused downloads.
NeverCorrupt == \A a \in MemAddr : mem[a] # Corrupt

\* When the flash state machine is idle, every block the host was told is
\* accepted is in memory, all of it and nothing else, and the chip is done:
\* dfu_buffer is not disturbed between acceptance and the last page.
AcceptedDataInPlace == fl_state = "flsIDLE" => mem = image /\ inflight = {}

\* The states that tell a host that its data is safe.
Settled == {"dfuDNLOAD_IDLE", "dfuMANIFEST_SYNC", "dfuMANIFEST", "dfuMANIFEST_WAIT_RESET"}

\* A host that sees one of those states, and the reset at the end of a
\* manifestation, finds the accepted blocks in memory and the chip done.
ReportedMeansWritten ==
  pc = "wait_reset" \/ (dfu_state \in Settled /\ pc # "erasing")
    => mem = image /\ inflight = {}

\* A block in progress, which the main loop will go on with.
Continues == pc = "erasing" \/ (pc = "loop" /\ dfu_state \in {"dfuDNLOAD_SYNC", "dfuDNBUSY"})

\* A block in progress is written to its last page, unless the host goes on
\* with another request or the auto-boot timer takes the device away.
AcceptedBlockSettles == (Continues /\ fl_state # "flsIDLE") ~> (fl_state = "flsIDLE" \/ ~Continues)

\* Downloads implement BlockStore: the cells of the block being written are
\* unknown, all others are what they are.
BlockCells == Span(fl_current_addr, DFU_TRANSFER_SIZE) \cap MemAddr
Writing    == fl_state # "flsIDLE"
Store == INSTANCE BlockStore WITH
  Addr    <- MemAddr,
  Content <- Cell,
  Extents <- {Span(address_for_block(b, m), DFU_TRANSFER_SIZE) \cap MemAddr :
                 b \in Blocks, m \in {0} \cup RamAddr},
  stored  <- [a \in MemAddr |-> IF Writing /\ a \in BlockCells THEN Unknown ELSE mem[a]],
  pending <- [a \in IF Writing THEN BlockCells ELSE {} |-> image[a]]

\* Every accepted block is committed whole to its own cells, and no step of
\* the engine changes any other cell of flash or RAM.
ImplementsBlockStore == Store!Spec

-----------------------------------------------------------------------------
(* What the comments and documents of the repository say, and the code does
   not do. *)

\* dfu.c:203 "Flash controller shouldn't be busy now!": the refusal with
\* errWRITE is not reachable.
ShouldNotBeBusy == dfu_status # "errWRITE"

\* BOOT-SEQUENCE.md: uploading a program cancels the auto-boot timeout.
UploadCancelsAutoboot == timer = "autoboot" => image = [a \in MemAddr |-> Old]

-----------------------------------------------------------------------------
(* The inductive invariant behind the safety properties. *)

\* The cells a block in progress has not written yet, as fl_state tells.
Rest == IF fl_state = "flsERASING" THEN Span(fl_current_addr, dfu_bytes_remaining)
        ELSE Span(dfu_target_address, dfu_bytes_remaining)

\* The bookkeeping of the page loop stays inside the block.
LoopInBlock ==
  /\ fl_state = "flsERASING" => dfu_bytes_remaining <= DFU_TRANSFER_SIZE
  /\ fl_state = "flsPROGRAMMING" =>
       /\ dfu_target_address = fl_current_addr + dfu_buffer_offset
       /\ dfu_buffer_offset + dfu_bytes_remaining <= DFU_TRANSFER_SIZE

\* A block on its way to flash lies in the download window, what is left to
\* write of it is erased, and the next page starts at a page boundary.
FlashBlock ==
  ram_mode = 0 /\ fl_state # "flsIDLE" =>
    /\ CONFIG_RESCUE_IMAGE_OFFSET <= fl_current_addr
    /\ fl_current_addr + DFU_TRANSFER_SIZE <= FLASH_MAX_ADDR
    /\ Aligned(fl_current_addr, ERASE_SIZE)
    /\ \A a \in Rest : mem[a] = Erased
    /\ fl_state = "flsPROGRAMMING" /\ dfu_bytes_remaining # 0
         => Aligned(dfu_target_address, WRITE_SIZE)

\* The buffer holds what the host sent, and the packets of the block being
\* received are in it side by side.
BufferHoldsData ==
  /\ \A i \in BufferIndex : dfu_buffer[i] # Corrupt
  /\ pc = "data" => /\ req \in RequestType
                    /\ req.off <= DFU_TRANSFER_SIZE =>
                         \A i \in 0 .. req.off - 1 : dfu_buffer[i] = <<req.payload, i>>

\* The kind of memory the current block goes to.
TargetAddr == IF ram_mode = 0 THEN FlashAddr ELSE RamAddr

\* A block that will be continued differs from the accepted image only where
\* it is not written yet, and the buffer still holds what belongs there.
RestInBuffer ==
  Continues /\ Writing =>
    /\ \A a \in MemAddr : a \notin Rest \cap TargetAddr => mem[a] = image[a]
    /\ \A a \in Rest \cap TargetAddr : image[a] = dfu_buffer[a - fl_current_addr]

\* Where the main thread stands tells what the state machines can be.
PcAgrees ==
  /\ pc = "erasing" => fl_state = "flsERASING"
  /\ (dfu_state \in Settled /\ pc # "erasing") \/ pc = "wait_reset" => fl_state = "flsIDLE"

IInv ==
  /\ TypeOK /\ BootloaderUntouched /\ NeverCorrupt /\ AcceptedDataInPlace
  /\ LoopInBlock /\ FlashBlock /\ BufferHoldsData /\ RestInBuffer /\ PcAgrees

=============================================================================
