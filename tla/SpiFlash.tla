------------------------------ MODULE SpiFlash ------------------------------
(***************************************************************************)
(* The SPI NOR flash chip, as sw/src/spi.c and booster/src/spi.c drive it. *)
(*                                                                         *)
(* The chip itself is hardware: what is modelled is what the commands of   *)
(* spi.c make it do.  An erase sets a whole sector to Erased; a program    *)
(* can only store into erased cells, and stays inside one page; a command  *)
(* sent while an earlier one is still in progress is ignored by the chip.  *)
(*                                                                         *)
(* The unit of addresses and lengths is a cell.  A cell stands for a fixed *)
(* number of bytes, small enough that every length and offset used by the  *)
(* code is a whole number of cells.  An operation takes effect on mem when *)
(* it is issued, and its cells stay in inflight until the chip is done:    *)
(* code that reads or cuts the power before that sees them undefined.      *)
(***************************************************************************)
EXTENDS Integers

CONSTANTS
  ERASE_SIZE,      \* cells in an erase sector (4096 bytes)
  WRITE_SIZE,      \* cells in a program page  (256 bytes)
  FLASH_SIZE,      \* cells in the chip
  RamAddr,         \* RAM addresses a program may be loaded to
  Erased,          \* content of an erased cell
  Corrupt          \* content of a cell programmed while not erased, or
                   \* reached by a program that wrapped around its page

VARIABLES
  mem,             \* content of every cell the CPU can address
  inflight         \* flash cells of the erase or program in progress

flashVars == <<mem, inflight>>

FlashAddr == 0 .. FLASH_SIZE - 1
MemAddr   == FlashAddr \cup RamAddr

\* ERASE_SIZE and WRITE_SIZE are the geometry of the chip; a sector is a
\* whole number of pages, and no RAM address is a flash address.
ASSUME FlashGeometry ==
  /\ ERASE_SIZE \in Nat \ {0}
  /\ WRITE_SIZE \in Nat \ {0}
  /\ FLASH_SIZE \in Nat
  /\ \E m \in 0 .. ERASE_SIZE : ERASE_SIZE = m * WRITE_SIZE
  /\ RamAddr \subseteq Nat
  /\ RamAddr \cap FlashAddr = {}
  /\ Erased # Corrupt

\* (a & ~(size - 1)) == a
Aligned(a, size) == \E k \in 0 .. a : a = k * size

\* The n cells from a on.
Span(a, n) == a .. (a + n - 1)

-----------------------------------------------------------------------------
\* spiIsBusy: bit 0 of the status register, write in progress.
spiIsBusy == inflight # {}

\* spiBeginErase4: WREN, then 0x20 with the address of the sector.
spiBeginErase4(address) ==
  IF spiIsBusy
    THEN UNCHANGED flashVars
    ELSE /\ mem' = [a \in MemAddr |->
                      IF a \in FlashAddr /\ a \in Span(address, ERASE_SIZE)
                        THEN Erased ELSE mem[a]]
         /\ inflight' = FlashAddr \cap Span(address, ERASE_SIZE)

\* What programming d into a cell holding old leaves there.
Programmed(old, d, fits) == IF old = Erased /\ fits THEN d ELSE Corrupt

\* A program of n cells at a that does not leave the page of a.
InPage(a, n) == \E k \in 0 .. a : k * WRITE_SIZE <= a /\ a + n <= (k + 1) * WRITE_SIZE

\* spiBeginWrite: WREN, then 0x02 with the address and count cells of data;
\* data[i] is the cell i of the source.
spiBeginWrite(address, data, count) ==
  IF spiIsBusy
    THEN UNCHANGED flashVars
    ELSE /\ mem' = [a \in MemAddr |->
                      IF a \in FlashAddr /\ a \in Span(address, count)
                        THEN Programmed(mem[a], data[a - address], InPage(address, count))
                        ELSE mem[a]]
         /\ inflight' = FlashAddr \cap Span(address, count)

\* The chip finishes the operation in progress.
FlashDone ==
  /\ spiIsBusy
  /\ inflight' = {}
  /\ UNCHANGED mem

=============================================================================
