------------------------ MODULE DfuRefinementProofs ------------------------
(***************************************************************************)
(* The download engine implements BlockStore: every step of Dfu is a step  *)
(* of BlockStore or leaves its variables alone.                            *)
(***************************************************************************)
EXTENDS DfuDataProofs

\* The refinement mapping of Store.
Stored  == [a \in MemAddr |-> IF Writing /\ a \in BlockCells THEN Unknown ELSE mem[a]]
Pending == [a \in IF Writing THEN BlockCells ELSE {} |-> image[a]]

LEMMA StoreInit == Init => Store!Init
<1> SUFFICES ASSUME Init PROVE Store!Init
  OBVIOUS
<1>1. ~Writing /\ mem = [a \in MemAddr |-> Old] /\ Old \in Cell
  BY DEF Init, Writing, Cell
<1>2. [a \in MemAddr |-> IF Writing /\ a \in BlockCells THEN Unknown ELSE mem[a]] \in [MemAddr -> Cell]
  BY <1>1
<1>3. DOMAIN [a \in IF Writing THEN BlockCells ELSE {} |-> image[a]] = {}
  BY <1>1
<1> QED
  BY <1>2, <1>3 DEF Store!Init, Store!NothingPending

\* A step that leaves memory, image and the extent of the block alone.
LEMMA StoreStutter ==
  ASSUME UNCHANGED <<mem, image, fl_state>>, Writing => UNCHANGED fl_current_addr
  PROVE  UNCHANGED <<Stored, Pending>>
<1>1. CASE Writing
  BY <1>1 DEF Stored, Pending, Writing, BlockCells
<1>2. CASE ~Writing
  <2>1. ~Writing'
    BY <1>2 DEF Writing
  <2>2. Stored' = [a \in MemAddr |-> mem'[a]] /\ Stored = [a \in MemAddr |-> mem[a]]
    BY <1>2, <2>1 DEF Stored
  <2>3. Pending' = [a \in {} |-> image'[a]] /\ Pending = [a \in {} |-> image[a]]
    BY <1>2, <2>1 DEF Pending
  <2> QED
    BY <2>2, <2>3
<1> QED
  BY <1>1, <1>2

\* A page goes to cells of the block.
LEMMA StoreWrite ==
  ASSUME Kept, inflight = {}, fl_state # "flsIDLE", fl_state' # "flsIDLE",
         UNCHANGED <<fl_current_addr, image>>,
         NEW target \in Nat, NEW offset \in Nat, target = fl_current_addr + offset,
         offset + dfu_bytes_remaining <= DFU_TRANSFER_SIZE,
         Rest = Span(target, dfu_bytes_remaining),
         ram_mode = 0 /\ dfu_bytes_remaining # 0 => Aligned(target, WRITE_SIZE),
         ftfl_write_more_bytes(target, offset)
  PROVE  UNCHANGED <<Stored, Pending>>
<1> DEFINE n == MinOf(WRITE_SIZE, dfu_bytes_remaining)
<1>1. /\ mem \in [MemAddr -> Cell] /\ dfu_buffer \in [BufferIndex -> Cell]
      /\ dfu_bytes_remaining \in Nat /\ fl_current_addr \in Nat
  BY DEF Kept, Safe, Base, TypeOK
<1>2. n \in Nat /\ n <= dfu_bytes_remaining
  BY <1>1, Geometry DEF MinOf
<1>3. ram_mode = 0 => \A a \in Span(target, dfu_bytes_remaining) : mem[a] = Erased
  BY DEF Kept, Safe, FlashBlock
<1>4. \A a \in MemAddr : mem'[a] = IF a \in TargetAddr /\ a \in Span(target, n)
                                     THEN dfu_buffer[offset + (a - target)] ELSE mem[a]
  BY <1>1, <1>3, WriteEffect
<1> HIDE DEF n
<1>5. \A a \in Span(target, n) : a \in Span(fl_current_addr, DFU_TRANSFER_SIZE)
  BY <1>1, <1>2, Geometry DEF Span
<1>6. \A a \in MemAddr : a \notin BlockCells => mem'[a] = mem[a]
  BY <1>4, <1>5 DEF BlockCells
<1>7. Writing /\ Writing' /\ BlockCells' = BlockCells
  BY DEF Writing, BlockCells
<1> QED
  BY <1>6, <1>7 DEF Stored, Pending

LEMMA StorePoll ==
  ASSUME Kept, Kept', dfu_poll
  PROVE  Store!Commit \/ UNCHANGED <<Stored, Pending>>
<1>1. /\ UNCHANGED <<fl_current_addr, image>> /\ inflight = {}
  BY DEF dfu_poll, spiIsBusy
<1>2. /\ fl_current_addr \in Nat /\ dfu_bytes_remaining \in Nat /\ dfu_target_address \in Nat
      /\ dfu_buffer_offset \in Nat
  BY DEF Kept, Safe, Base, TypeOK
<1>3. CASE /\ fl_state = "flsERASING" /\ fl_state' = "flsPROGRAMMING"
           /\ ftfl_write_more_bytes(fl_current_addr, 0)
  <2>1. fl_current_addr = fl_current_addr + 0 /\ 0 + dfu_bytes_remaining <= DFU_TRANSFER_SIZE
    BY <1>2, <1>3 DEF Kept, Safe, Base, LoopInBlock
  <2>2. Rest = Span(fl_current_addr, dfu_bytes_remaining)
    BY <1>3 DEF Rest
  <2>3. ram_mode = 0 => Aligned(fl_current_addr, WRITE_SIZE)
    BY <1>2, <1>3, SectorIsPage DEF Kept, Safe, FlashBlock
  <2> QED
    BY <1>1, <1>2, <1>3, <2>1, <2>2, <2>3, StoreWrite
<1>4. CASE /\ fl_state = "flsPROGRAMMING" /\ fl_state' = fl_state
           /\ ftfl_write_more_bytes(dfu_target_address, dfu_buffer_offset)
  <2>1. /\ dfu_target_address = fl_current_addr + dfu_buffer_offset
        /\ dfu_buffer_offset + dfu_bytes_remaining <= DFU_TRANSFER_SIZE
    BY <1>4 DEF Kept, Safe, Base, LoopInBlock
  <2>2. Rest = Span(dfu_target_address, dfu_bytes_remaining)
    BY <1>4 DEF Rest
  <2>3. ram_mode = 0 /\ dfu_bytes_remaining # 0 => Aligned(dfu_target_address, WRITE_SIZE)
    BY <1>4 DEF Kept, Safe, FlashBlock
  <2> QED
    BY <1>1, <1>2, <1>4, <2>1, <2>2, <2>3, StoreWrite
<1>5. CASE fl_state = "flsPROGRAMMING" /\ fl_state' = "flsIDLE" /\ UNCHANGED flashVars
  <2>1. Writing /\ ~Writing' /\ mem' = mem /\ mem' = image' /\ image' = image
    BY <1>1, <1>5 DEF Writing, flashVars, Kept, AcceptedDataInPlace
  <2>2. \A a \in MemAddr : mem[a] = image[a]
    BY <2>1
  <2>3. Stored' = [a \in MemAddr |-> image[a]]
    BY <2>1 DEF Stored
  <2>4. Pending = [a \in BlockCells |-> image[a]] /\ DOMAIN Pending' = {}
    BY <2>1 DEF Pending
  <2>5. Stored' = [a \in MemAddr |-> IF a \in DOMAIN Pending THEN Pending[a] ELSE Stored[a]]
    BY <2>1, <2>2, <2>3, <2>4 DEF Stored
  <2>6. CASE BlockCells = {}
    <3>1. Stored' = Stored
      BY <2>1, <2>2, <2>3, <2>6 DEF Stored
    <3>2. Pending' = Pending
      BY <2>1, <2>6 DEF Pending
    <3> QED
      BY <3>1, <3>2
  <2>7. CASE BlockCells # {}
    BY <2>4, <2>5, <2>7 DEF Store!Commit, Store!NothingPending, Stored, Pending
  <2> QED
    BY <2>6, <2>7
<1> QED
  BY <1>3, <1>4, <1>5 DEF dfu_poll

\* Accepting a block.
LEMMA StoreAccept ==
  ASSUME Kept, Kept', NEW num \in Blocks, NEW len \in Lengths, NEW p \in Payloads,
         len <= DFU_TRANSFER_SIZE,
         StartBlock(num, len, ram_mode', p)
  PROVE  Store!Accept(Pending')
<1>1. /\ ram_mode' \in {0} \cup RamAddr /\ Base /\ Base'
      /\ mem \in [MemAddr -> Cell] /\ image' \in [MemAddr -> Cell]
  BY DEF Kept, Safe, Base, TypeOK
<1>2. ~Writing
  BY DEF StartBlock, FlashNotReady, Writing
<1>3. /\ Writing' /\ fl_current_addr' = address_for_block(num, ram_mode')
  BY <1>1, BaseStart DEF Writing
<1>4. \A a \in MemAddr : a \notin BlockCells' => mem'[a] = mem[a]
  <2>1. BlockCells' = Span(fl_current_addr', ERASE_SIZE) \cap MemAddr
    BY Geometry DEF BlockCells
  <2>2. /\ ram_mode' # 0 => UNCHANGED mem
        /\ ram_mode' = 0 => \A a \in MemAddr : mem'[a] =
             IF a \in FlashAddr /\ a \in Span(fl_current_addr', ERASE_SIZE) THEN Erased ELSE mem[a]
    BY <1>1, StartEffect
  <2> QED
    BY <2>1, <2>2
<1>5. DOMAIN Pending = {}
  BY <1>2 DEF Pending
<1>6. DOMAIN Pending' = BlockCells' /\ Pending' = [a \in BlockCells' |-> image'[a]]
  BY <1>3 DEF Pending
<1>7. DOMAIN Pending' \in {Span(address_for_block(b, m), DFU_TRANSFER_SIZE) \cap MemAddr :
                             b \in Blocks, m \in {0} \cup RamAddr}
  BY <1>1, <1>3, <1>6 DEF BlockCells
<1>8. Pending' \in [DOMAIN Pending' -> Cell]
  <2>1. \A a \in BlockCells' : image'[a] \in Cell
    BY <1>1 DEF BlockCells
  <2> QED
    BY <1>6, <2>1
<1>9. Stored' = [a \in MemAddr |-> IF a \in DOMAIN Pending' THEN Unknown ELSE Stored[a]]
  <2>1. Stored = [a \in MemAddr |-> mem[a]]
    BY <1>2 DEF Stored
  <2>2. Stored' = [a \in MemAddr |-> IF a \in BlockCells' THEN Unknown ELSE mem'[a]]
    BY <1>3 DEF Stored
  <2> QED
    BY <1>4, <1>6, <2>1, <2>2
<1> QED
  BY <1>5, <1>7, <1>8, <1>9 DEF Store!Accept, Store!NothingPending, Stored, Pending

LEMMA StorePacket ==
  ASSUME Kept, Kept', NEW n \in 0 .. PACKET_SIZE, DnloadPacket(n)
  PROVE  Store!Accept(Pending') \/ UNCHANGED <<Stored, Pending>>
<1> DEFINE mode == Selected(req.num, req.off, n, req.payload)
<1>1. pc = "data" /\ req \in RequestType /\ n \in Nat
  BY Geometry DEF DnloadPacket, Kept, BufferHoldsData
<1>2. /\ req.num \in Blocks /\ req.len \in Lengths /\ req.off \in Nat /\ req.payload \in Payloads
      /\ req.len \in Nat
  BY <1>1, HostAssumption DEF RequestType
<1>3. CASE Overflows(req.len, req.off, n)
  BY <1>3, StoreStutter DEF DnloadPacket, flashVars, flVars
<1>4. CASE ~Overflows(req.len, req.off, n)
  <2>1. ram_mode' = mode
    BY <1>4 DEF DnloadPacket
  <2>2. CASE UNCHANGED <<flashVars, flVars, dfu_state, dfu_status, image>>
    BY <2>2, StoreStutter DEF flashVars, flVars
  <2>3. CASE RejectBlock(req.num, mode)
    BY <2>3, StoreStutter DEF RejectBlock, FlashNotReady, flashVars, Writing
  <2>4. CASE ~(req.off + n < req.len) /\ StartBlock(req.num, req.len, mode, req.payload)
    <3>1. req.len <= DFU_TRANSFER_SIZE
      BY <1>1, <1>2, <1>4, <2>4, Geometry DEF Overflows
    <3> QED
      BY <1>2, <2>1, <2>4, <3>1, StoreAccept
  <2> QED
    BY <1>4, <2>2, <2>3, <2>4 DEF DnloadPacket
<1> QED
  BY <1>3, <1>4

LEMMA StoreStep ==
  ASSUME Kept, Kept', [Next]_vars
  PROVE  Store!Next \/ UNCHANGED <<Stored, Pending>>
<1>1. ASSUME NEW num \in Blocks, NEW len \in Lengths, NEW p \in Payloads,
             DnloadSetup(num, len, p)
      PROVE  UNCHANGED <<Stored, Pending>>
  BY <1>1, StoreStutter DEF DnloadSetup, dfuVars, flVars, flashVars
<1>2. CASE DnloadEnd \/ GetStatus \/ ClrStatus \/ SetInterface \/ Abort \/ Detach
  BY <1>2, StoreStutter DEF DnloadEnd, GetStatus, ClrStatus, SetInterface, Abort, Detach,
                            dfuVars, flVars, flashVars
<1>3. ASSUME NEW n \in 0 .. PACKET_SIZE, DnloadPacket(n)
      PROVE  Store!Next \/ UNCHANGED <<Stored, Pending>>
  BY <1>3, StorePacket DEF Store!Next, Pending
<1>4. CASE BlockAccepted \/ Reset \/ TimerIsr \/ ChipDone
  BY <1>4, StoreStutter DEF BlockAccepted, Reset, TimerIsr, ChipDone, FlashDone,
                            dfuVars, flVars, flashVars
<1>5. CASE dfu_poll
  BY <1>5, StorePoll DEF Store!Next
<1>6. CASE UNCHANGED vars
  BY <1>6, StoreStutter DEF vars, dfuVars, flVars, flashVars
<1> QED
  BY <1>1, <1>2, <1>3, <1>4, <1>5, <1>6 DEF Next, Request, Gone

\* Whatever a host sends, a download is a sequence of blocks that are
\* accepted and then committed whole to their own cells, one at a time, and
\* no other cell of flash or RAM changes.
THEOREM DownloadsImplementBlockStore == Spec => ImplementsBlockStore
<1>1. Init => Store!Init
  BY StoreInit
<1>2. Kept /\ Kept' /\ [Next]_vars
        => [Store!Next]_<<[a \in MemAddr |-> IF Writing /\ a \in BlockCells THEN Unknown ELSE mem[a]],
                         [a \in IF Writing THEN BlockCells ELSE {} |-> image[a]]>>
  BY StoreStep DEF Stored, Pending
<1> QED
  BY <1>1, <1>2, KeptAlways, PTL DEF Spec, ImplementsBlockStore, Store!Spec
=============================================================================
