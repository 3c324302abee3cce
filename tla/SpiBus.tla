------------------------------- MODULE SpiBus -------------------------------
(***************************************************************************)
(* The SPI flash seen from the wires: spi.c sends one transaction after    *)
(* another (chip select down, bytes, chip select up) and the chip executes *)
(* one when chip select goes up.  A reboot takes the wires away between    *)
(* any two of their edges.                                                 *)
(*                                                                         *)
(* A function of spi.c is the sequence of transactions it sends, kept in   *)
(* tx.  A sector holds two pages of an image, "head" and "rest".  The chip *)
(* is hardware, modelled from what spi.c asks of it: in QPI mode or asleep *)
(* it follows one command only, while an operation is in progress none but *)
(* read status, and erase and program ask for the write-enable latch.      *)
(***************************************************************************)
EXTENDS Sequences

CONSTANTS
  Sectors,      \* the sectors of interest
  NoImage       \* no image

VARIABLES
  mem,          \* what each sector holds
  op,           \* the erase or program in progress
  mode,         \* "spi", "qpi" or "asleep"
  wel,          \* the write-enable latch
  id_read,      \* spi_id: the halves that are the chip's
  bitbang,      \* LXSPI_BITBANG_EN: the processor has the wires
  tx            \* the transactions still to be sent

chipVars == <<mem, op, mode, wel>>
spiVars  == <<chipVars, id_read, bitbang, tx>>

\* What a sector holds: none of an image, its first page, all of it, what a
\* cut left of it, or what a program into a page that was not erased left.
Content(img, part) == [img |-> img, part |-> part]
Blank == Content(NoImage, "none")

\* Transactions.
Command(name)        == [name |-> name, at |-> 0, data |-> Blank]
Erase(at)            == [name |-> "erase", at |-> at, data |-> Blank]
Write(at, img, page) == [name |-> "write", at |-> at, data |-> Content(img, page)]
Idle == Command("idle")

busy == op # Idle

spiBeginErase4(at)           == <<Command("wren"), Erase(at)>>
spiBeginWrite(at, img, page) == <<Command("wren"), Write(at, img, page)>>
spiId == <<Command("90"), Command("9f")>>

\* Mutant: the chip is woken, but left in QPI mode.
spiResetWakeOnly == <<Command("wake")>>

\* Out of QPI mode, out of sleep.
spiReset == <<Command("ff"), Command("wake")>>

-----------------------------------------------------------------------------
\* The transaction c reaches the chip whole.
Execute(c) ==
  LET heard == mode = "spi" /\ ~busy
      wakes == ~busy /\ \/ mode = "qpi" /\ c.name = "ff"
                        \/ mode = "asleep" /\ c.name = "wake"
  IN /\ mode' = IF wakes THEN "spi" ELSE mode
     /\ wel' = IF heard /\ c.name = "wren" THEN TRUE
               ELSE IF heard /\ c.name \in {"erase", "write"} THEN FALSE ELSE wel
     /\ op' = IF heard /\ wel /\ c.name \in {"erase", "write"} THEN c ELSE op
     /\ id_read' = IF heard /\ c.name \in {"90", "9f"} THEN id_read \cup {c.name} ELSE id_read
     /\ UNCHANGED mem

\* spiBegin, the bytes, spiEnd.
Transaction ==
  /\ tx # <<>>
  /\ Execute(Head(tx))
  /\ tx' = Tail(tx)
  /\ UNCHANGED bitbang

\* spiInit.
spiInit ==
  /\ bitbang' = TRUE
  /\ tx' = spiReset \o spiId
  /\ id_read' = {}
  /\ UNCHANGED chipVars

\* What a program leaves in a sector that holds old.
Programmed(old, data) ==
  IF data.part = "head" /\ old = Blank THEN data
  ELSE IF data.part = "rest" /\ old = Content(data.img, "head") THEN Content(data.img, "whole")
  ELSE Content(data.img, "corrupt")

Completed == IF op.name = "erase" THEN Blank ELSE Programmed(mem[op.at], op.data)
TornBy(c) == Content(IF c.name = "write" THEN c.data.img ELSE mem[c.at].img, "torn")

\* The chip finishes.
OpDone ==
  /\ busy
  /\ mem' = [mem EXCEPT ![op.at] = Completed]
  /\ op' = Idle
  /\ UNCHANGED <<mode, wel, id_read, bitbang, tx>>

\* Mutant: the wires are not given back.
Kept == bitbang

\* spiFree: LXSPI_BITBANG_EN.
Freed == FALSE

\* reboot() takes the wires away from whoever was using them: nothing of the
\* transaction in progress, too little of it, or all of it has been sent.  A
\* program cut short stores the bytes that were sent.
spiFree ==
  /\ bitbang' = Freed
  /\ tx' = <<>>
  /\ \/ UNCHANGED <<chipVars, id_read>>
     \/ tx # <<>> /\ Execute(Head(tx))
     \/ /\ tx # <<>> /\ Head(tx).name = "write"
        /\ mem' = [mem EXCEPT ![Head(tx).at] = TornBy(Head(tx))]
        /\ UNCHANGED <<op, mode, wel, id_read>>

\* Power is cut: the operation in progress is undone, torn or done.
PowerLost ==
  /\ op' = Idle /\ mode' = "spi" /\ wel' = FALSE
  /\ bitbang' = FALSE /\ tx' = <<>> /\ id_read' = {}
  /\ \/ UNCHANGED mem
     \/ busy /\ mem' = [mem EXCEPT ![op.at] = Completed]
     \/ busy /\ mem' = [mem EXCEPT ![op.at] = TornBy(op)]

\* The memory-mapped window shows what the chip holds.
Readable == ~bitbang /\ ~busy /\ mode = "spi"

=============================================================================
