# A verification development for Foboot

Foboot is the USB DFU bootloader of the Tomu FPGA boards (Fomu). It runs as
RISC-V software inside an iCE40 FPGA, receives programs over USB, writes them to
an SPI flash chip, starts them, and is itself replaced by a second program,
Booster. This directory models the parts of it that decide whether a device
keeps its bootloader and gets the program it was sent, checks them with TLC and
proves the central safety properties with TLAPS.

## 1. Inventory

| Component | Source | State | Operations | Interacts with |
|---|---|---|---|---|
| DFU engine | `sw/src/dfu.c` | DFU state and status, flash state machine (`fl_*`), `dfu_buffer` and the page cursor, `ram_mode` | `dfu_download`, `dfu_getstatus`, `dfu_clrstatus`, `dfu_abort`, `dfu_poll` | called by the control requests and the main loop; drives the SPI driver |
| Control requests | `sw/src/usb-dev.c` | locals of `usb_setup` during a data stage, `rx_buffer` | one case per request | called by `usb_poll`; spins in `usb_recv` |
| Endpoint driver | `sw/src/usb-eptri.c` | `setup_packet`, `out_buffer`, the transmit cursor | `usb_isr`, `usb_poll`, `usb_send`, `usb_recv`, `usb_ack`, `usb_err` | interrupt handler and main thread share all of it |
| Main, boot selection | `sw/src/main.c` | the auto-boot timer | `init`, the main loop, `isr`, `reboot`, `maybe_boot_updater`, `maybe_boot_fbm` | reads the DFU state in an interrupt; starts images and Booster; leaves the flash chip to the next life as it is |
| SPI driver and chip | `sw/src/spi.c` | the chip's content, its write-in-progress bit, its mode (QPI, asleep), its write-enable latch, `spi_id` | reset, identify, status, erase, program, hand the wires back | commands sent while busy are ignored; a reboot takes the wires away at any moment |
| Image layout | `examples/riscv-blink/src/crt0-vexriscv.S`, `examples/add_autoboot_timeout.py`, `booster/make-booster.c` | the first words of an image | options and timeout are put there by build tools | searched by `dfu_download`, `init_timeout`, `reboot` and `maybe_boot_updater`, each over its own range |
| Booster | `booster/src/main.c` | the multiboot header and sectors below 0x20000, its own sector | `fobooster_main`, `erase_booster`, `error`, `finish_flashing` | started by `maybe_boot_updater`; survives power cuts by its own presence in flash |
| Package builder | `booster/make-booster.c` | - | lays out the package, patches the head of Booster | initial state of Booster; `maybe_boot_updater` checks the head |
| Descriptors, LED, libraries, gateware, other endpoint drivers | see PROJECT.json | - | - | not modelled |

What is hard here: a block is received into the buffer from which the block
before may still be programmed; the page loop advances only in some DFU states,
while any request can change the state; the timer interrupt acts on the DFU
state in the middle of `dfu_download`; the mode of a download (flash or RAM)
changes inside the reception of a block; the USB interrupt and the main thread
share buffers; and Booster rewrites the sector the device starts from while the
power may go away.

What makes each part correct:

* DFU engine: nothing outside the download window changes; erased pages only are
  programmed; a block that was accepted arrives whole, and is there when the
  host is told so; a block in progress is finished.
* Control requests: the host learns the outcome of its request.
* Endpoint driver: each SETUP packet is handled once, with its own bytes; a
  transfer is sent once and in order; the main thread is not left waiting.
* Boot selection: what is started is the image that was acknowledged last,
  whole, and in the way its head asks for; no reboot tears a page; a Booster is
  started only when it is whole and for this chip, and then always.
* Booster: power can be cut at any moment; the bootloader is replaced wholly or
  not at all; the update ends.

## 2. Modules

| Module | Models | Status |
|---|---|---|
| `SpiFlash` | the chip as `spi.c` drives it: erase, program, busy | done |
| `Dfu` | all of `dfu.c`; the DFU requests and SET_INTERFACE of `usb-dev.c`; main loop, timer interrupt and reboot of `main.c` | done |
| `BlockStore` | what a download promises: a block becomes pending, then stored; nothing else changes | done |
| `DfuProperties` | the properties of `Dfu`, its refinement of `BlockStore`, the inductive invariant | done |
| `MCDfu` + 4 cfgs | instances for TLC | done |
| `DfuProofs` | theorems about `Dfu`: types, the download window, erased pages | done |
| `DfuDataProofs` | theorems about `Dfu`: accepted data in place, reports are true | done |
| `DfuRefinementProofs` | theorem: `Dfu` implements `BlockStore` | done |
| `Booster` + 3 cfgs | the updater with power cuts | done |
| `EptriGateware` | the endpoint registers of the external USB core | done |
| `UsbEptri` | `usb-eptri.c` and the shape of each request of `usb-dev.c`: interrupt handler, main thread and host over those registers | done |
| `MCUsb`, 3 `UsbEptri*.cfg` | instances for TLC | done |
| `ImageHead` | the words at the head of an image: how the build tools lay them out, how `dfu.c` and `main.c` search them | done |
| `SpiBus` | `spi.c` transaction by transaction: modes of the chip, write-enable latch, identification, wires taken away | done |
| `Boot` | all of `main.c` from reset to the next program, over several lives, with a coarse download engine | done |
| `MCBoot`, 2 `Boot*.cfg` | images of every kind for TLC | done |
| `BoosterProofs` | theorems about `Booster`: its five safety invariants and `FirstSectorHolds` | done |
| `UsbEptriProofs` | theorems about `UsbEptri`: its four safety invariants | done |
| `BootProofs` | theorems about `Boot`: its six safety invariants and `IgnoredForCause`; what the build tools lay out is what the readers of `ImageHead` expect | done |

`Dfu` composes `SpiFlash` with the engine, `UsbEptri` composes `EptriGateware`
with the driver and a host, `Boot` composes `ImageHead` and `SpiBus` with
`main.c`. `Dfu` and `Boot` overlap on purpose: `Dfu` follows every byte of a
block through buffer and pages, in one life; `Boot` follows a block as two pages
through transactions, reboots and lives. Likewise `Booster` sees the update page
by page and knows only whether Booster's first sector is there, `Boot` sees how
it is recognised.

### How Dfu corresponds to the code

The variables are the statics of `dfu.c` under their own names. `pc` says where
the main thread stands: in the main loop, in a DFU_DNLOAD data stage (`data`,
the loop of `usb-dev.c:151`), between the erase command and
`set_state(dfuDNLOAD_SYNC)` (`erasing`, where the interrupt can come), waiting
for the host to take the last status (`wait_reset`), or gone (`rebooted`).
`req` is what `usb_setup` keeps in locals meanwhile. Each request is one action,
because `usb_setup` runs to completion in the main loop; the packets of a data
stage are one action each, since `usb_recv` lets the interrupt in between.
`dfu_poll` is the turn of the main loop. `ChipDone` is the chip. `image` is a
history variable: what memory holds once every accepted block has been written.

A cell stands for a fixed number of bytes. The content of memory is symbolic:
`Old`, `Erased`, `Corrupt` (programmed while not erased, or reached by a program
that wrapped in its page), or `<<payload, i>>`, cell i of what a host sent.
`LoadAddress` tells which payloads begin with the RAM boot sentinel; the
arithmetic of the search itself (`dfu.c:183`) is not in `Dfu`. Left out: poll
timeouts, LED modes, requests that only read (GETSTATE) or are malformed
(`wIndex > 0`, stalled without any change). DETACH waits for its acknowledgement
in `usb_wait_for_send_done`, which may serve another request first: that is the
other request followed by DETACH. A short or empty packet is allowed
everywhere, as `usb_recv` returns whatever arrived.

### How Booster corresponds to the code

The unit is a program page; `target` is the flash below 0x20000. `pc` follows
`fobooster_main`: one action per compare of a sector, erase, program of a page,
final check, and each half of `erase_booster`. Waiting for the chip
(`ftfl_busy_wait`) is the guard `~busy`. An operation takes effect when the chip
is done; a power cut leaves what it was busy with undone, torn or done.
`bytes_left` counts pages and wraps at 2^24 (2^32 bytes). Two reads of the code
do not wait for the chip. In the sector compare the chip does not answer with its
content, so the sector differs; the final check first reads all of the image,
about 26000 words over SPI, which takes longer than a page program (a few
milliseconds), and is modelled with the chip done. The five checks at the head
(size, hash, header, SPI id) are one step with outcome `package`. A Booster
sector that is torn fails the checksum of `maybe_boot_updater`, which `Boot`
examines.

A user who pinches the pads gets Foboot although Booster is there, and may
download another program. It goes to 0x40000, where the recovery copy lies that
the header leads to while an update is under way, and may reach Booster itself:
that is `Download`. The promises that need the copy except it by name
(`package = "overwritten"`): nothing in Foboot or Booster notices it.

### How Boot corresponds to the code

A function of `spi.c` is the sequence of its transactions (`tx`), each of which
the chip executes when chip select goes up, in `Shift`. `spiReset` is the two
transactions that leave QPI mode and deep sleep, `spiId` the two that read the
halves of the id, an erase or a program a write enable and the command. In QPI
mode and asleep the chip listens to one command, while busy to none of these.
`reboot()` gives the wires back at once: of the transaction under way nothing,
too little or all has been sent, and a program cut short stores what was sent
(`spiFree`). In the main thread this cannot happen, since it sends to the end
before it goes on (`tx = <<>>`); the timer interrupt can come in between, which
is what `TornOnlyByPowerCut` is about.

Sectors 0 and 26 of the download window stand for all: 0 holds the head of the
image, 26 is 0x5a000, where `maybe_boot_updater` looks for Booster. A sector
holds two pages, "head" and "rest", so that a block takes an erase and two
programs. What is read from a chip that is busy or not in SPI mode, or while
the wires are not given back, is noise without a magic word; of a torn first
page the head is there or not.
The checksum of Booster is a sum of bytes. A page that is not programmed yet, or
erased already, reads ones where the image has anything, so what is there of an
incomplete Booster adds up to more than the whole (`SumHolds`); the one block
stands for all of Booster. The ids of the two chips that answer differently to
the same package are those of `main.c:128`.

`pc` is where the main thread stands: `start`, in `spiInit`, before each of the
two `maybe_boot_*`, before `init_timeout`, in the main loop, between the erase
command and the end of `dfu_download` (`erasing`), waiting for the host to take
the last status, or gone. The interrupt is enabled from the end of `init` on and
may come at the last four. `started` is what the last jump led to. A program
ends in a reset and may leave the chip in any mode (`Restart`); a Booster may
have erased itself. `PowerCut` may come at any time.

Four histories say what the host may expect: `sent`, the blocks of an image it
has got through; `installed` and `loaded`, the image whose download to flash or
RAM was completed and acknowledged last; `quiet`, nobody has touched the device
in this life. A download that was begun and not completed clears them: nothing
is promised of a half image. Nor is anything promised of a flash image that a
host sends to a session in RAM mode: `ram_mode` stays set until the next block
0 that names another address, as in the code. `ram` has the blocks at the load
address. A block 0 that names another address moves the session there even if
the block itself is refused, since `ram_mode` is assigned before the checks
(`dfu.c:185`, `dfu.c:196`): an image that was acknowledged and is whole at the
old address is then passed over by `reboot()`, which goes to the new one, where
nothing was written. It takes two programs with different load addresses, and
an error that the host does not heed. The histories `loaded` and `sent` are
cleared by such a move (`moved` in `Block`), so no promise covers it.

`BOOT-SEQUENCE.md:52` puts the magic word of a program for RAM "within the first
56 bytes", which is any of words 0 to 13 (`RamMagic`), and `WellLaid` admits it
there. `dfu_download` looks at words 0 to 3 only: its index is `i/4` while `i`
counts to a quarter of the bytes (`dfu.c:183`). A program with its load address
in words 4 to 13 is `Overlooked`: it goes to flash, over the installed image,
or to wherever the session is already, and `reboot()` starts it from there.
`RamBootSparesFlash` states the sentence of the document, and the run `boot_ram`
refutes it. `StartsAsLaidOut` therefore has two exceptions, which its comment
names: the overlooked program, and the session that was moved by a refused
block. The build is not affected, since `crt0-vexriscv.S` puts the magic into word 1,
or 3 behind a timeout, before the boot flags. Taken literally the sentence would also make a
program for RAM of a bitstream that happens to have the magic word among its
first 14; the model follows the tools, where only a program asks for RAM.

Packages are made for canonical ids (`BootAssumption`). `booster/README.md:26`
offers 0xc8144015 as well, but `maybe_boot_updater` corrects only the id of the
chip (`main.c:128`) and would pass over such a package on every device; the
usage text of `make-booster.c` does not list it.

### How UsbEptri corresponds to the code

`EptriGateware` holds the registers. The core is a submodule that is not in the
repository, so its actions are external; they follow the register descriptions
of `releases/v2.0.1/Fomu.svd`: SETUP is always accepted and ends a stall, but
does not throw away a queued IN packet; OUT is enabled for one packet; a bus
reset clears the address; the IN FIFO has nothing in it (`HAVE` is 0) when the
queued packet is empty; the unassigned bit of IN_STATUS that `usb_send` tests
reads 0. A packet is `[n, from, len]`: bytes of transfer `n`, from an offset.

`isr` is where `usb_isr` stands: it reads the events once (`latched`), handles
SETUP, IN and OUT in this order, one action each, and acknowledges what it read.
`pc` is where the main thread stands: in `usb_poll`, at the dispatch of
`usb_setup`, before it reads `wLength`, at each assignment group of `usb_send`, in `usb_ack`, in `usb_recv`,
or in the wait of DETACH. The main thread moves only while no event is pending
and the handler is off (`MainRuns`), since an event interrupts it at once; the
host moves at any time, also in the middle of the handler. `tx` is the transmit
cursor (`current_data` as the number of the transfer it answers, 0 for NULL),
`setup_length` is only whether it is 0, `home` is the caller `usb_poll` returns
to, since the wait of DETACH polls too. The fields
of `setup_packet` are not taken together: `usb_setup` dispatches on the request
(`Dispatch`) and reads `wLength` later, for a reply as the last thing before
`usb_send` (`TakeLength`); a SETUP in between replaces it. In an undisturbed
session the two belong together, since a host that has not been answered does
not ask again; one that gives up or resets the bus may see its next length
applied to the old request. The content of requests is abstracted to
their shape: reads with a reply of some length, reads that stall, requests without
data, with success or stalled, SET_ADDRESS, DFU_DNLOAD, the GETSTATUS that reboots, DETACH. What a
request does to the DFU engine is `Dfu`.

The host carries out one transfer after the other, and ends a data stage with a
short packet or when it has all it asked for. After a bus reset it waits until
the device stands where only the host can move it on, as the 10 ms of USB 2.0,
7.1.7.5, allow. `disturbed` remembers a reset that met the device inside a
request, or a SETUP that met a packet an earlier transfer has left; the promises
are those of sessions without one. A host that can do nothing for longer than
that gives up (`GiveUp`) and may begin another transfer.

Three kinds of transfer do not end by themselves, and `TransferEnds` names them.
A request without data that is stalled gets `usb_err(0)`, which stalls OUT,
while the host waits for a status packet from IN; and since the write leaves out
the enable bit, OUT stays closed for the data stage of a download that follows,
until a read ends with `usb_ack(0)`. A read of 0 bytes queues nothing for the
status stage either, and leaves `current_data` set with a length of 0, on which
the loop of the next `usb_send` spins (`usb-eptri.c:201`) until a bus reset.
`NothingLeftBehind` says which packet may be left when a transfer has ended: the
empty one behind a reply whose last packet is full although the host has asked
for no more. Left out: repeated or damaged SETUP packets.

## 3. Runs

| Run | Shows | Expected |
|---|---|---|
| `dfu_flash` | types, bootloader untouched, only erased pages programmed, accepted data in place, reported means written, refinement of `BlockStore`, a block in progress settles | pass |
| `dfu_ram` | the promises when a payload redirects the session to RAM after flash blocks | pass |
| `booster` | types, a device that does not start is missing exactly its header page, Booster gone means image installed, bad packages are harmless, software behind the image kept, the first sector is final once complete, the update ends | pass |
| `boot` | types, what is started is what was installed or loaded last, whole and as its head asks (but for programs for RAM that are overlooked, see `boot_ram`); no reboot tears a page; no page is programmed twice; `spiInit` brings back the chip; only a whole Booster for this chip is started, and passed over only for cause; an installed image boots by itself | pass |
| `usb` | types, a host reads the reply to its own request without gaps, a block reaches `dfu_download` in order, no packet is left for the next transfer, every transfer ends except the three kinds named, with a bus reset at any point between two requests and hosts that give up | pass |
| `usb_reboot` | a GETSTATUS that reboots may do so before the host has read its answer (`usb-dev.c:197`) | violation |
| `usb_address` | an address that was waiting when the bus was reset is used afterwards (`usb-eptri.c:264`) | violation |
| `dfu_busy` | "Flash controller shouldn't be busy now!" (`dfu.c:203`) is reached after an abort, and stays | violation |
| `dfu_autoboot` | the timeout is not cancelled by an upload (`BOOT-SEQUENCE.md:44`) | violation |
| `boot_ram` | a program for RAM whose load address stands behind the first four words is written to flash (`BOOT-SEQUENCE.md:52`) | violation |
| `booster_brick` | a power cut in the first sector leaves nothing to start (`booster/README.md:90`) | violation |
| `booster_needless` | good sectors are written again (`booster/README.md:92`) | violation |

Three observations. A request that `dfu.c` refuses is not always stalled, as
`dfu.h:76` ("True on success, false for stall") has it: `usb-dev.c:163` drops
the result of `dfu_download` for a block with data, and SET_INTERFACE
(`usb-dev.c:29`) that of `dfu_clrstatus`; the host learns of the refusal from
the next GETSTATUS, as DFU 1.1 expects of a block. In Booster the dangerous window
is not only the first erase: as long as sector 0 is not complete a restarted
Booster erases it again, so `FirstSectorHolds` speaks of the complete sector;
from then on no cut endangers the device until byte 9 is cleared, when a cut
before Booster is erased opens the same window once more. And Booster's final
check is what `BrickOnlyInHeader` rests on: when it fails, `error()` still
clears byte 9, so the next power-on follows a header to the image that failed.

### Bounds

`dfu_flash`: sectors of 4 cells, pages of 2, packets of 2; one sector below and
one above a window of one sector; blocks 0 (inside) and 1 (just behind the
window); lengths 0, 3 (a short last page and packet), 4 (full), 5 (too long);
two payloads, so that a second block differs from the first. Every packet split
is enumerated. `dfu_ram` has sectors of two cells and pages of one, a window of two sectors (so
that an aborted block and the next one can lie in different sectors), a payload
that carries the sentinel and one that does not, and RAM for the two blocks. The violation runs use the smallest
such instance. `booster`: sectors of two pages, an image of two full sectors
and half of a third, one sector of other software behind it; every page may be
old or new already, the tail of the last sector may be zero; a download over
the package may come whenever Booster is bypassed; three cuts are
enough to cut the update, its resumption, and the second window; one page may
fail. The behaviour of the code does not depend on the number of middle sectors.

`boot`: an image of each kind, with the words the readers look for at the
edges of what they look at. The program has its boot flags in words 30 and 31,
the last that `reboot` reads; the RAM program has the options in front that
push the load address to its last place, searched in a first packet of 64 bytes,
a second one has another address and no options in front, and a third has its
address in word 4, the first that is not searched;
the bitstream has a timeout, and boot flags among its configuration, which are
none; the update package is of two blocks, the second with Booster. Two chips,
one of which is known by another id. Every mode of the chip at the start. Two
lives, since a life hands on only what is in the flash and in the chip, and the
second already meets whatever the first has left, including what the chip is
still busy with; one power cut, anywhere; two accepted blocks, enough to
install each image, or to begin another after one. `boot_ram`: that third
program, and the one whose address is found.

`usb`: packets of two bytes; replies of less than a packet, exactly one, one and
a byte, and such that the host cuts inside a packet, at a packet, or to
nothing; blocks of one packet and of two; three
transfers, so that a request meets what two others have left behind (a status
packet not yet read, a cursor, a stall); one reset. A reply is of less than two
full packets (`RequestAssumption`). This is a bound of the code's data, not of
the check: the longest descriptor, the product string, has less than 128 bytes.
With three packets the driver loses one. `usb_isr` reads the IN event at its
start and writes it back at its end (`usb-eptri.c:223`, `:280`); when
`process_tx` queues the second packet in between and the host takes it at once,
its event is written back with that of the first, and nothing queues the third.
In the model `RightReply` fails for such replies. The configurations of the
endpoint driver turn the deadlock check off: the transfers are bounded, and a
device that reboots is gone.

### Fairness

`FairSpec` of `Dfu`: the main loop turns (`dfu_poll`, and the rest of
`dfu_download` after the erase command), and the chip finishes what it starts.
The host owes nothing, so no request is fair, and a block's promise ends when
the host goes on with another request. `FairSpec` of `Booster`: the processor
runs, the chip finishes, and the user plugs the device in again; power cuts are
bounded. `FairSpec` of `Boot`: the processor runs, the chip finishes, the timer
expires; host and user are free, and power may stay away. `FairSpec` of `UsbEptri`: the handler and the main thread run, and a
host that has begun a transfer goes on with it; it need not begin another one.

## 4. What is proved

The proof modules of `Dfu` show, for every geometry that satisfies `FlashGeometry`,
`DfuGeometry` and `HostAssumption` (a block is one sector, a sector is a whole
number of pages, the window is whole sectors inside the chip; RAM load addresses
are RAM addresses; the data of a host is not one of the marks):

* `TypeCorrect`: `Spec => []TypeOK`. `TypeOK` is not inductive alone: the page
  loop stays inside `dfu_buffer` only because cursor and remainder of a block
  add up to at most a sector, which is `LoopInBlock`. `Base` is the two
  together.
* `BootloaderIsUntouched` and `PagesAreErased`: `Spec => []BootloaderUntouched`
  and `[]NeverCorrupt`. The invariant is `Safe`: `Base`, and `FlashBlock` (a
  block on its way to flash lies in the window and what remains of it is erased
  and begins at a page boundary), and the buffer holds no `Corrupt`. The lemmas
  about addresses (`BlockAligned`, `SectorInWindow`, `SectorIsPage`, `PageStep`)
  carry the arithmetic; `StartEffect` and `WriteEffect` say what accepting a
  block and writing a page do to memory; `SafeFrame` covers the steps that
  change neither.
* `AcceptedDataIsInPlace` and `ReportsAreTrue`: `Spec => []AcceptedDataInPlace`
  and `[]ReportedMeansWritten`. While a block is being written memory and the
  accepted image differ, so neither is inductive. The invariant is `Kept`, which
  adds to `Safe` what `IInv` says of the data: the packets of a block that is
  being received lie side by side in the buffer (`BufferHoldsData`); a block the
  main loop will go on with differs from the image only where it is not written
  yet, and the buffer holds what is missing (`RestInBuffer`); and a state that
  tells the host its data is safe implies an idle page loop (`PcAgrees`). A block
  that was given up is never resumed: `Continues` does not become true again
  before the next block is accepted (`KeptFrame`), which is why a packet
  received meanwhile may overwrite the buffer.
* `DownloadsImplementBlockStore`: `Spec => ImplementsBlockStore`. The cells of a
  block on its way map to `Unknown` and its image to `pending`. Accepting a block
  is `Accept`; the turn of the main loop that finds nothing left to write is
  `Commit`, by `Kept`; writing a page and everything else are stutters.

The proofs of `Booster` assume `BoosterGeometry` (the image fills the sectors
before its last one, reaches into the last, and ends below 0x20000, which a
uint32_t can count) and hold for any number of pages, power cuts and faults:

* `BoosterTypeCorrect`, `BrickedInHeaderOnly`, `GoneIsInstalled`,
  `BadPackageIsHarmless` and `SpareIsKept` are the run's invariants,
  `FirstSectorIsHeld` its action property. They share one inductive invariant,
  `IInv`, because each needs the others: that the header leads to a whole image
  (`HeaderFirst`) rests on which sector the cursor is at (`CursorAgrees`) and on
  what the chip can be busy with at each point of the program (`PcAgrees`); that
  the first sector is final (`FirstOnce`) on the compare that skips it; that
  Booster goes last (`DoneBeforeGone`) on the check before. `CursorAgrees`
  carries the one piece of arithmetic: sectors start at multiples of `PAGES`, so
  a sector that starts below a multiple ends at or below it (`SectorFits`).
* `InsideImage`, and `SpareKept` with it, assume that a page behind the image in
  its last sector is not zero. Without that, the last sector may be skipped as a
  whole, `bytes_left` wraps (`main.c` of Booster subtracts a whole sector), and
  the loop goes on through the software behind the image up to its limit. The
  proof shows that this is the only way out of the image: a sector is skipped
  only if at least `PAGES` pages of the image are left.
* Each conjunct has its lemma (`HeaderFirstKept` and so on) with one step per
  action. The steps in which the chip finishes, fails or is cut have lemmas of
  their own, which rest on what an operation leaves at the first page
  (`HeaderStored`) and behind the image (`StoredInside`).

The proofs of `UsbEptri` assume `EptriAssumption` (a packet has a byte at least)
and `RequestAssumption` (only a download and a read have data; replies of less
than two full packets; a host asks for all of the status) and hold for any number
of transfers, bus resets and hosts that give up:

* `UsbTypeCorrect`, `RepliesAreRight`, `BlocksInOrder` and `NothingIsLeft` are
  the run's four invariants. None is inductive: each speaks of a packet or a
  count of bytes at the host's end, and a packet's history lies in the handler,
  the main thread and the cursor before.
* `IInv` has three parts. `Always` holds in every state: the handler works on
  events still pending (`EventsRead`), the cursor stays inside its reply
  (`CursorInside`), a packet from the host is in one place only (`OutOnce`).
  `LiveInv` holds while no reset is pending and none met a request (`Live`).
* The core of `LiveInv` is that the request on its way is followed from the
  SETUP FIFO through `setup_packet` to `req` (`SetupPath`, `RequestTaken`), also
  between the dispatch and the read of `wLength` (`HandlingBegins`), that
  until `usb_setup` has answered it nothing is queued and no old cursor moves
  (`NothingSent`), and that a cursor is always either `Finished`, which sends
  nothing more, or `Unfinished`: its first packet is either with the core or
  taken with an IN event the handler has still to see. This is where the third
  packet breaks the argument. `InQueue` says whose packet waits, `OutPath` where
  the next byte of a block is.
* A main thread that is waiting for good (`Stuck`: the loop of `usb_send`, a
  `usb_recv` without data, GETSTATUS before a reboot, rebooted) takes no
  request; the invariant says what it must not disturb, and `TransferEnds` is
  what shows which transfers end.
* One lemma per step (`IsrInLive`, `HostInLive` and so on), each from the values
  that step reads; the lemmas `NextOfFinished` and `NextOfUnfinished` carry the
  arithmetic of `process_tx`.

The proofs of `Boot` assume `BootAssumption` (an image has a block 0, packages are
made for canonical ids) and `LayoutAssumption` (heads are `WellLaid`, the first
packet has 56 to 64 bytes) and hold for any images, chips, lives, blocks and
power cuts. 64 bytes is a full packet of endpoint 0, with which every download
begins that is not shorter; of less than 56 bytes `dfu_download` does not search
word 3 (`dfu.c:183`), where the load address is behind a timeout.

* `BootTypeCorrect`, `ProgramsOnce`, `RebootsTearNothing`, `ChipAlwaysAnswers`,
  `UpdatersFit` and `BootsAsLaidOut` are the run's invariants,
  `UpdatersIgnoredForCause` its action property. They share one invariant:
  `ControlAgrees` and `WiresAgree` tie the states of engine and wires to `pc`
  (spiReset wakes the chip step by step: `Waking`); `FlashSound` says, for each
  state of the page loop, which transaction is under way and what the sector
  holds (`FlashStage`), and that an operation the chip is at, even one of an
  earlier life, finds what it needs (`ProgramsErased`); `HostAgrees` follows the
  host's knowledge: what it has sent is in place but the block in progress
  (`SentArrives`), what was acknowledged stays (`InstalledStays`, `LoadedStays`).
* `RebootsTearNothing` is where the order of `dfu.c:222` and `:224` matters. The
  timer may come between the erase command and `dfuDNLOAD_SYNC`, and reboots
  then; `FlashStage` shows that only the erase can be on the wires there.
* `LayoutAssumption` is not taken on trust. `ProgramsAreWellLaid` and
  `BitstreamsAreWellLaid` show that everything `crt0-vexriscv.S` and
  `add_autoboot_timeout.py` can write, with any options and any configuration
  words, is `WellLaid`; `ScanAsLaidOut` that the search of `reboot()` finds what
  the author meant, `TimeoutOfProgram` and `TimeoutOfBitstream` the same of
  `init_timeout`. `LoadAddressFound` says of `dfu_download`, for a load address
  anywhere in the first 56 bytes, that it is found, or stands behind word 3 and
  the image is `Overlooked`. What remains assumed: a program for flash has no
  RAM magic among its first 14 words, and a bitstream without a timeout none in
  words 2 and 3, right behind the sync word.

## 5. What is only model-checked

* Liveness: `AcceptedBlockSettles`, `TransferEnds`, `Autoboots` and `UpdateEnds`
  rest on fairness, which is out of the prover's reach.
* The violation runs, which are counterexamples.

Every safety invariant and action property of a passing run is a theorem.

## 6. What is left

1. Repeated SETUP packets (a lost handshake), a hazard with a note in
   PROJECT.json, and what holds after a bus reset in the middle of a request,
   which `disturbed` excepts.
2. An abstract specification of a control transfer that `UsbEptri` implements,
   and one of a boot that `Boot` implements.

## 7. Not modelled

* `usb-epfifo.c`, `usb-unififo.c`: drivers for endpoint cores other than the one
  the build selects.
* Descriptors and requests that only read are tables; the LED is output only.
* The drivers in `booster/src` are older copies of those in `sw/src`; of them
  `Booster` uses what `ftfl_*` does: wait, erase, program.
* The package: `make-booster.c` is a one-pass tool, whose output is the initial
  state of `Booster` and an image of `Boot`. How it reads and writes files is
  left out, and that `add_autoboot_timeout.py` looks for its magic byte by byte.
* `spiBeginErase32`, `spiBeginErase64`, `spiHold` and `spiUnhold` have no caller.
* libbase, VexRiscv, the start-up code and the gateware: third-party code, or
  hardware that appears here as what the software does with it.

Most of the repository's lines are none of the program's logic: three copies of
`xxhash.c` and of the generated register headers, the releases, and the
libraries each example brings along. The definitions are mapped to the code of
Foboot and Booster that changes state, which is a small share of all lines and
nearly all of its own.
