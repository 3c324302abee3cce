-------------------------------- MODULE Boot --------------------------------
(***************************************************************************)
(* The life of Foboot from reset to the jump into another program, and its *)
(* next lives: init() of main.c and its choice of a boot mode, downloads,  *)
(* the auto-boot timer, reboot(), and power cuts.  The flash is driven     *)
(* transaction by transaction (SpiBus), the images are laid out by the     *)
(* tools of the repository (ImageHead).  The download engine is that of    *)
(* Dfu, with a block as the unit of the data and two pages to the block;   *)
(* dfu_status and the buffer are left to Dfu.                              *)
(***************************************************************************)
EXTENDS ImageHead, SpiBus, FiniteSets

CONSTANTS
  Images,         \* the images a host may download
  Laid,           \* [Images -> how the image is laid out, see ImageType]
  ChipIds,        \* the chips Foboot may be running on
  FIRST_PACKET,   \* bytes in the first packet of a download
  MaxLives,       \* bound: starts of Foboot
  MaxCuts,        \* bound: power cuts
  MaxBlocks       \* bound: blocks accepted

VARIABLES
  pc,             \* where the main thread is
  dfu_state, fl_state,
  current,        \* the block being written: number, image, pages left
  ram_mode, ram,  \* the load address, and what is there, block by block
  timer,          \* the auto-boot timer
  fbm,            \* Foboot Main is installed below the download window
  chip,           \* the id of the flash chip
  started,        \* what the last jump led to
  sent,           \* history: image and blocks the host has got through
  installed,      \* history: the image whose download to flash was the last
  loaded,         \*          the same of downloads to RAM
  quiet,          \* history: nobody touched the device in this life
  lives, cuts, blocks

dfuVars  == <<dfu_state, fl_state, current, ram_mode, ram>>
bounds   == <<lives, cuts, blocks>>
history  == <<sent, installed, loaded, quiet>>
fixed    == <<fbm, chip>>
vars     == <<spiVars, pc, dfuVars, timer, fixed, started, history, bounds>>

\* 0x5a000, where maybe_boot_updater looks, as a block of the download.
UPDATER == (368640 - 262144) \div 4096

\* Mutant: the chip with the other id is not known.
AsRead(id) == id

\* The id of a package that Booster takes on a chip: 0xc8144015 is the same
\* as 0xc2152815.
Canonical(id) == IF id = "c8144015" THEN "c2152815" ELSE id

\* head: the first words; blocks: the blocks sent; updater: the id that the
\* block UPDATER of a package asks for; from, kind, config: how its author
\* wants it started.
ImageType ==
  [head : Seq(Words), blocks : SUBSET Sectors, timeout : Nat,
   from : {"flash", "ram"}, kind : {"riscv", "bitstream"}, config : Nat, updater : STRING]

\* An image has a block 0, packages are made for canonical ids.
ASSUME BootAssumption ==
  /\ Sectors \subseteq Nat /\ {0, UPDATER} \subseteq Sectors
  /\ NoImage \notin Images /\ Laid \in [Images -> ImageType]
  /\ \A i \in Images : 0 \in Laid[i].blocks /\ Canonical(Laid[i].updater) = Laid[i].updater
  /\ ChipIds \subseteq STRING /\ "none" \notin ChipIds
  /\ FIRST_PACKET \in Nat /\ MaxLives \in Nat \ {0} /\ MaxCuts \in Nat /\ MaxBlocks \in Nat

\* Where a magic word stands in a head.
Places(head, magic) == {w \in 0 .. Len(head) - 1 : head[w + 1] = magic}

\* The load addresses in the first 56 bytes of a head, where RAM boot is said
\* to be found (BOOT-SEQUENCE.md:52).
RamMagic(head) == {w \in Places(head, RamBoot) : w < 14}

\* A program has no sync word, and its flags once and among the first 32
\* words; a bitstream has its sync word there, and no flags before it.
\* Programs for RAM have their load address once, anywhere in the first 56
\* bytes, and programs for flash have none there; bitstreams have none in the
\* first four words, behind which any word of the configuration may come up.
WellLaid(img) ==
  LET head  == img.head
      syncs == Places(head, Sync)
      flags == Places(head, BootFlags)
      loads == Places(head, RamBoot)
  IN /\ img.kind = "riscv" =>
          /\ syncs = {}
          /\ \/ flags = {} /\ img.config = 0
             \/ \E w \in 0 .. 30 : flags = {w} /\ WordAt(head, w + 1) = Value(img.config)
     /\ img.kind = "bitstream" =>
          /\ img.config = 0
          /\ \E s \in syncs : s < 32 /\ \A w \in flags : s < w
     /\ IF img.from = "ram"
          THEN \E w \in 0 .. 13 : loads = {w} /\ WordAt(head, w + 1).n # 0
          ELSE \A w \in loads : w > IF img.kind = "riscv" THEN 13 ELSE 3

\* Packets are of 64 bytes, the first may be two words short.
ASSUME LayoutAssumption ==
  /\ FIRST_PACKET \in 56 .. 64
  /\ \A i \in Images : WellLaid(Laid[i])

\* A program for RAM with its load address behind the first four words:
\* dfu_download does not find it, and it goes to where the session is.
Overlooked(img) == img.from = "ram" /\ \A w \in RamMagic(img.head) : w > 3

NoBlock == [num |-> 0, img |-> NoImage, left |-> 0]
Nothing == [how |-> "none", from |-> "none", kind |-> "none", config |-> 0, img |-> NoImage]
NotSent == [img |-> NoImage, blocks |-> {}]

\* Nothing of an image at the load address.
NoRam == [s \in Sectors |-> Blank]

Whole(img, store) == \A b \in Laid[img].blocks : store[b] = Content(img, "whole")

\* The words a read can see of content: noise has no magic in it, and of a
\* torn page the head is there or not.
Seen(content, window) ==
  IF ~window \/ content.img = NoImage THEN {<<>>}
  ELSE {Laid[content.img].head} \cup IF content.part = "torn" THEN {<<>>} ELSE {}

-----------------------------------------------------------------------------
\* What a reset leaves of Foboot: .data and .bss are set up, interrupts are
\* off.
FreshRam ==
  /\ pc' = "start"
  /\ dfu_state' = "dfuIDLE" /\ fl_state' = "flsIDLE" /\ current' = NoBlock
  /\ ram_mode' = 0 /\ ram' = NoRam /\ timer' = "off"
  /\ started' = Nothing
  /\ sent' = NotSent /\ loaded' = NoImage /\ quiet' = TRUE
  /\ lives' = lives + 1
  /\ UNCHANGED <<fixed, blocks>>

\* The device as some program left it, with or without an image: the flash
\* chip may be asleep or in QPI mode.
Init ==
  /\ \E i \in {NoImage} \cup {j \in Images : Laid[j].from = "flash"} :
       /\ mem = [s \in Sectors |->
                    IF i # NoImage /\ s \in Laid[i].blocks THEN Content(i, "whole") ELSE Blank]
       /\ installed = i
  /\ op = Idle /\ mode \in {"spi", "qpi", "asleep"} /\ wel = FALSE
  /\ id_read = {} /\ bitbang = FALSE /\ tx = <<>>
  /\ pc = "start" /\ dfu_state = "dfuIDLE" /\ fl_state = "flsIDLE" /\ current = NoBlock
  /\ ram_mode = 0 /\ ram = NoRam /\ timer = "off"
  /\ fbm \in BOOLEAN /\ chip \in ChipIds
  /\ started = Nothing /\ sent = NotSent /\ loaded = NoImage /\ quiet = TRUE
  /\ lives = 1 /\ cuts = 0 /\ blocks = 0

\* riscv_reboot_to and warmboot_to_image: Foboot is gone.
Jump(how, from, what, img) ==
  /\ pc' = "gone"
  /\ started' = [how |-> how, from |-> from, kind |-> what.kind, config |-> what.config, img |-> img]

-----------------------------------------------------------------------------
\* init(), up to the flash.
Start ==
  /\ pc = "start"
  /\ spiInit
  /\ pc' = "spiInit"
  /\ UNCHANGED <<dfuVars, timer, fixed, started, history, bounds>>

\* nerve_pinch: the user may bypass the updater and Foboot Main.
NervePinch(pinch) ==
  /\ pc = "spiInit" /\ tx = <<>>
  /\ pc' = IF pinch THEN "timeout" ELSE "updater"
  /\ bitbang' = pinch
  /\ UNCHANGED <<chipVars, id_read, tx, dfuVars, timer, fixed, started, history, bounds>>

\* Mutant: the checksum is not compared.
SumIgnored == TRUE

\* The bytes of Booster from 0x20 on add up to what make-booster.c wrote
\* into its head.  Bits that are not programmed yet, or erased already, read
\* 1, so a sector that is not whole adds up to more.
SumHolds == mem[UPDATER].part = "whole"

\* The words at 0x5a000: those of an image with Booster there, or code.
UpdaterWords ==
  LET img == mem[UPDATER].img
  IN IF img = NoImage \/ Laid[img].updater = "none" THEN <<>>
     ELSE UpdaterHead(0, 0, Laid[img].updater)

\* The signature and the id in the head of Booster; spi_id is what spiInit
\* has read.
UpdaterSeen ==
  /\ Readable
  /\ id_read = {"90", "9f"}
  /\ WordAt(UpdaterWords, 1) = Signature
  /\ WordAt(UpdaterWords, 7) = Value(Canonical(chip))

\* maybe_boot_updater.
maybe_boot_updater ==
  /\ pc = "updater"
  /\ IF UpdaterSeen /\ SumHolds
       THEN Jump("updater", "flash", [kind |-> "riscv", config |-> 32], mem[UPDATER].img)
       ELSE pc' = "fbm" /\ UNCHANGED started
  /\ UNCHANGED <<spiVars, dfuVars, timer, fixed, history, bounds>>

\* maybe_boot_fbm: it is seen, unless the chip is busy for all of the loop.
maybe_boot_fbm ==
  /\ pc = "fbm"
  /\ \/ /\ fbm /\ (Readable \/ busy)
        /\ Jump("fbm", "flash", [kind |-> "riscv", config |-> 0], NoImage)
        /\ UNCHANGED bitbang
     \/ /\ ~fbm \/ ~Readable
        /\ pc' = "timeout" /\ bitbang' = TRUE
        /\ UNCHANGED started
  /\ UNCHANGED <<chipVars, id_read, tx, dfuVars, timer, fixed, history, bounds>>

\* init_timeout, which looks at the flash with the wires given back, and
\* the end of init(): from here on the timer interrupt may come.
init_timeout ==
  /\ pc = "timeout"
  /\ \E head \in Seen(mem[0], ~busy /\ mode = "spi") :
       timer' = IF Timeout(head) # 0 THEN "armed" ELSE "off"
  /\ pc' = "loop" /\ bitbang' = TRUE
  /\ UNCHANGED <<chipVars, id_read, tx, dfuVars, fixed, started, history, bounds>>

-----------------------------------------------------------------------------
\* reboot(): interrupts off, the wires given back, the head scanned.
reboot(how) ==
  LET from == IF ram_mode # 0 THEN "ram" ELSE "flash"
      origin == IF ram_mode # 0 THEN ram[0] ELSE mem'[0]
      window == ~bitbang' /\ mode' = "spi"
  IN /\ spiFree
     /\ \E finished \in BOOLEAN :   \* a chip that is busy may finish under the scan
          /\ finished \/ op' # Idle
          /\ \E head \in Seen(origin, ram_mode # 0 \/ (window /\ finished)) :
               Jump(how, from, Scan(head), origin.img)
     /\ timer' = "off"
     /\ UNCHANGED <<dfuVars, fixed, history, bounds>>

\* Mutant: every tick boots.
AnyState == TRUE

\* isr() boots in this state only.
MayAutoboot == dfu_state = "dfuIDLE"

\* isr() for TIMER0, which preempts the main thread anywhere.
TimerIsr(pinch) ==
  /\ timer = "armed" /\ pc \in {"loop", "erasing", "wait_reset"}
  /\ IF MayAutoboot /\ ~pinch
       THEN reboot("timer")
       ELSE /\ timer' = "off" /\ quiet' = FALSE
            /\ UNCHANGED <<spiVars, pc, dfuVars, fixed, started, sent, installed, loaded, bounds>>

-----------------------------------------------------------------------------
(* The download engine. *)

WrongState    == dfu_state \notin {"dfuIDLE", "dfuDNLOAD_IDLE"}
\* Mutant: only the chip is asked.
ChipNotReady(address) == address = 0 /\ busy

FlashNotReady(address) == (address = 0 /\ busy) \/ fl_state # "flsIDLE"

\* What the host has got through once this block is accepted.
SentWith(num, img) ==
  IF num = 0 THEN [img |-> img, blocks |-> {0}]
  ELSE [sent EXCEPT !.blocks = @ \cup {num}]

\* DFU_DNLOAD with a block: the first packet chooses RAM or flash, accepted
\* or not, the last one starts the erase.  Another load address is another
\* place: what is there is nothing the host has sent.
Block(num, img) ==
  LET address == IF num = 0 THEN LoadAddress(Laid[img].head, FIRST_PACKET, ram_mode) ELSE ram_mode
      moved == address # ram_mode
      accepted == ~WrongState /\ ~FlashNotReady(address)
  IN /\ pc = "loop" /\ tx = <<>> /\ blocks < MaxBlocks
     /\ num = 0 \/ sent.img = img
     /\ ram_mode' = address /\ ram' = IF moved THEN NoRam ELSE ram
     /\ loaded' = IF moved \/ (accepted /\ address # 0) THEN NoImage ELSE loaded
     /\ quiet' = FALSE
     /\ IF accepted
          THEN /\ fl_state' = "flsERASING"
               /\ current' = [num |-> num, img |-> img, left |-> 2]
               /\ tx' = IF address = 0 THEN spiBeginErase4(num) ELSE <<>>
               /\ pc' = "erasing"
               /\ sent' = SentWith(num, img)
               /\ installed' = IF address = 0 THEN NoImage ELSE installed
               /\ blocks' = blocks + 1
               /\ UNCHANGED dfu_state
          ELSE /\ dfu_state' = "dfuERROR"
               /\ sent' = IF moved THEN NotSent ELSE sent
               /\ UNCHANGED <<fl_state, current, tx, pc, installed, blocks>>
     /\ UNCHANGED <<chipVars, id_read, bitbang, timer, fixed, started, lives, cuts>>

\* The end of dfu_download.
BlockAccepted ==
  /\ pc = "erasing" /\ tx = <<>>
  /\ dfu_state' = "dfuDNLOAD_SYNC" /\ pc' = "loop"
  /\ UNCHANGED <<spiVars, fl_state, current, ram_mode, ram, timer, fixed, started, history, bounds>>

Polled == dfu_state \in {"dfuDNLOAD_SYNC", "dfuDNBUSY"}

\* The page the page loop is at.
Page == IF current.left = 2 THEN "head" ELSE "rest"

\* ftfl_write_more_bytes.
WritePage ==
  /\ IF ram_mode # 0
       THEN /\ ram' = [ram EXCEPT ![current.num] =
                          Content(current.img, IF Page = "head" THEN "head" ELSE "whole")]
            /\ UNCHANGED tx
       ELSE /\ tx' = spiBeginWrite(current.num, current.img, Page)
            /\ UNCHANGED ram
  /\ current' = [current EXCEPT !.left = @ - 1]

\* Mutant: the chip is not asked whether it is done.
AlwaysReady == TRUE

\* fl_state_poll returns while the chip is busy.
ChipReady == ~busy

\* Mutant: the page loop does not end.
OneMorePage == current.left > -1

\* dfu_bytes_remaining is not 0.
MorePages == current.left # 0

\* dfu_poll.
dfu_poll ==
  /\ pc = "loop" /\ tx = <<>> /\ Polled /\ ChipReady
  /\ \/ fl_state = "flsERASING" /\ fl_state' = "flsPROGRAMMING" /\ WritePage
     \/ fl_state = "flsPROGRAMMING" /\ MorePages /\ WritePage /\ UNCHANGED fl_state
     \/ /\ fl_state = "flsPROGRAMMING" /\ ~MorePages
        /\ fl_state' = "flsIDLE"
        /\ UNCHANGED <<tx, ram, current>>
  /\ UNCHANGED <<chipVars, id_read, bitbang, pc, dfu_state, ram_mode, timer, fixed, started,
                 history, bounds>>

\* The requests that do no more than set dfu_state.
Set(state) ==
  /\ pc = "loop" /\ tx = <<>>
  /\ dfu_state' = state
  /\ UNCHANGED <<spiVars, fl_state, current, ram_mode, ram, timer, fixed, started, bounds>>

\* The image the host may take for downloaded, when it has sent all of it to
\* where its author wants it.
Complete(place) ==
  IF sent.img # NoImage /\ sent.blocks = Laid[sent.img].blocks 
     /\ (place = "ram" => Laid[sent.img].from = "ram")
    THEN sent.img ELSE NoImage

\* DFU_DNLOAD without data: the end of a download.
DnloadEnd ==
  LET accepted == ~WrongState /\ ~FlashNotReady(ram_mode)
      here == accepted /\ sent # NotSent
  IN /\ Set(IF accepted THEN "dfuMANIFEST_SYNC" ELSE "dfuERROR")
     /\ installed' = IF here /\ ram_mode = 0 THEN Complete("flash") ELSE installed
     /\ loaded' = IF here /\ ram_mode # 0 THEN Complete("ram") ELSE loaded
     /\ sent' = IF here THEN NotSent ELSE sent
     /\ quiet' = FALSE
     /\ UNCHANGED pc

\* DFU_GETSTATUS; in dfuMANIFEST_WAIT_RESET the device waits for the host to
\* take the reply.
GetStatus ==
  /\ Set(CASE Polled -> IF fl_state = "flsIDLE" THEN "dfuDNLOAD_IDLE" ELSE "dfuDNBUSY"
           [] dfu_state = "dfuMANIFEST_SYNC" -> "dfuMANIFEST"
           [] dfu_state = "dfuMANIFEST" -> "dfuMANIFEST_WAIT_RESET"
           [] OTHER -> dfu_state)
  /\ pc' = IF dfu_state' = "dfuMANIFEST_WAIT_RESET" THEN "wait_reset" ELSE "loop"
  /\ UNCHANGED history

\* DFU_CLRSTATUS.
ClrStatus ==
  /\ Set(IF dfu_state \in {"dfuERROR", "dfuIDLE", "dfuMANIFEST_WAIT_RESET"}
           THEN "dfuIDLE" ELSE "dfuERROR")
  /\ quiet' = FALSE
  /\ UNCHANGED <<pc, sent, installed, loaded>>

\* DFU_ABORT.
Abort == Set("dfuIDLE") /\ UNCHANGED <<pc, history>>

\* DFU_DETACH.
Detach == pc = "loop" /\ tx = <<>> /\ reboot("detach")

\* The host takes the dfuMANIFEST_WAIT_RESET reply.
Reset == pc = "wait_reset" /\ reboot("reset")

-----------------------------------------------------------------------------
\* The program that was started ends in a reset.  It leaves the flash chip
\* in any mode; Booster may have erased itself.
Restart ==
  /\ pc = "gone" /\ lives < MaxLives
  /\ FreshRam
  /\ mode' \in {"spi", "qpi", "asleep"} /\ (busy => mode' = mode)
  /\ \/ UNCHANGED <<mem, installed>>
     \/ /\ started.how = "updater"
        /\ mem' = [mem EXCEPT ![UPDATER] = Blank]
        /\ installed' = NoImage
  /\ bitbang' = FALSE /\ tx' = <<>> /\ id_read' = {}
  /\ UNCHANGED <<op, wel, cuts>>

\* Power is cut and comes back.
PowerCut ==
  /\ cuts < MaxCuts /\ lives < MaxLives
  /\ PowerLost
  /\ FreshRam
  /\ cuts' = cuts + 1
  /\ UNCHANGED installed

\* The flash chip works by itself.
ChipDone == OpDone /\ UNCHANGED <<pc, dfuVars, timer, fixed, started, history, bounds>>

\* The wires at work on the transactions of the main thread.
Shift ==
  /\ pc # "gone"
  /\ Transaction
  /\ UNCHANGED <<pc, dfuVars, timer, fixed, started, history, bounds>>

\* The last program runs on.
RunsOn == pc = "gone" /\ UNCHANGED vars

Foboot ==
  \/ Start \/ \E pinch \in BOOLEAN : NervePinch(pinch)
  \/ maybe_boot_updater \/ maybe_boot_fbm \/ init_timeout
  \/ BlockAccepted \/ dfu_poll \/ Shift

Host ==
  \/ \E img \in Images : \E num \in Laid[img].blocks : Block(num, img)
  \/ DnloadEnd \/ GetStatus \/ ClrStatus \/ Abort \/ Detach \/ Reset

Next ==
  \/ Foboot \/ Host
  \/ \E pinch \in BOOLEAN : TimerIsr(pinch)
  \/ ChipDone \/ Restart \/ PowerCut \/ RunsOn

Spec == Init /\ [][Next]_vars

\* The processor runs, the chip finishes, the timer expires; host and user
\* are free.
Fairness ==
  /\ WF_vars(Foboot) /\ WF_vars(ChipDone)
  /\ WF_vars(\E pinch \in BOOLEAN : TimerIsr(pinch))

FairSpec == Spec /\ Fairness

-----------------------------------------------------------------------------
\* The variables have their types.
AnyImage == Images \cup {NoImage}
Contents == [img : AnyImage, part : {"none", "head", "whole", "torn", "corrupt"}]
Operations ==
  {Erase(at) : at \in Sectors}
    \cup {Write(at, img, page) : at \in Sectors, img \in Images, page \in {"head", "rest"}}
Transactions == {Command(name) : name \in {"wren", "ff", "wake", "90", "9f"}} \cup Operations

ChipTypeOK ==
  /\ mem \in [Sectors -> Contents] /\ op \in Operations \cup {Idle}
  /\ mode \in {"spi", "qpi", "asleep"} /\ wel \in BOOLEAN
  /\ id_read \subseteq {"90", "9f"} /\ bitbang \in BOOLEAN /\ tx \in Seq(Transactions)

EngineTypeOK ==
  /\ dfu_state \in {"dfuIDLE", "dfuDNLOAD_SYNC", "dfuDNBUSY", "dfuDNLOAD_IDLE", "dfuMANIFEST_SYNC",
                     "dfuMANIFEST", "dfuMANIFEST_WAIT_RESET", "dfuERROR"}
  /\ fl_state \in {"flsIDLE", "flsERASING", "flsPROGRAMMING"}
  /\ current \in [num : Sectors, img : AnyImage, left : 0 .. 2]
  /\ ram_mode \in Nat /\ ram \in [Sectors -> Contents]

MainTypeOK ==
  /\ pc \in {"start", "spiInit", "updater", "fbm", "timeout", "loop", "erasing", "wait_reset", "gone"}
  /\ timer \in {"off", "armed"} /\ fbm \in BOOLEAN /\ chip \in ChipIds
  /\ started \in [how : {"none", "updater", "fbm", "reset", "detach", "timer"},
                   from : {"none", "flash", "ram"}, kind : {"none", "riscv", "bitstream"},
                   config : Nat, img : AnyImage]

HistoryTypeOK ==
  /\ sent \in [img : AnyImage, blocks : SUBSET Sectors]
  /\ installed \in AnyImage /\ loaded \in AnyImage /\ quiet \in BOOLEAN
  /\ lives \in 1 .. MaxLives /\ cuts \in 0 .. MaxCuts /\ blocks \in 0 .. MaxBlocks

BootTypeOK == ChipTypeOK /\ EngineTypeOK /\ MainTypeOK /\ HistoryTypeOK

\* Whatever starts the downloaded program - the reset of a manifestation,
\* DETACH, or the auto-boot timer of this life or a later one - it is the
\* image whose download the device acknowledged last, complete, from where
\* its head asks to be, as the kind of image it is and with its boot flags:
\* the search of dfu_download, the window of 32 words of reboot() and the
\* layouts of the build tools fit each other.  Two exceptions: an Overlooked
\* image starts from where the session put it (see RamBootSparesFlash), and
\* nothing is said of RAM after a block 0 with another load address, which
\* moves the session, accepted or refused.
Right(img) ==
  /\ started.img = img
  /\ started.from = Laid[img].from \/ Overlooked(Laid[img])
  /\ started.kind = Laid[img].kind /\ started.config = Laid[img].config
StartsAsLaidOut ==
  pc = "gone" /\ started.how \in {"reset", "detach", "timer"} =>
    /\ started.from = "flash" /\ installed # NoImage => Right(installed) /\ Whole(installed, mem)
    /\ started.from = "ram" /\ loaded # NoImage => Right(loaded) /\ Whole(loaded, ram)

\* BOOT-SEQUENCE.md:52: of an image with the RAM boot magic within the first
\* 56 bytes "the SPI flash won't be erased".  The code finds the magic in the
\* first four words only.
RamBootSparesFlash ==
  pc = "erasing" /\ ram_mode = 0 => RamMagic(Laid[current.img].head) = {}

\* A reboot - by the timer interrupt between any two wires' edges, or by
\* DETACH in any state - tears no page: the test for dfuIDLE in isr() keeps
\* it out of a program, and an erase cut short is not begun.
TornOnlyByPowerCut == cuts = 0 => \A s \in Sectors : mem[s].part # "torn"

\* No page is programmed that is not erased, also by a Foboot that was
\* started while the chip was busy with what the last one had begun.
NeverProgramsTwice == \A s \in Sectors : mem[s].part # "corrupt"

\* spiInit brings the chip back from every mode a program left it in, so
\* that init() looks at the flash and not at noise.
ChipAnswers == pc \in {"updater", "fbm", "timeout", "loop"} => mode = "spi"

\* A package of id a is for the chip b.
For(a, b) == a = b \/ <<a, b>> = <<"c2152815", "c8144015">>

\* Only a Booster that is there to its last byte, made for this chip, is
\* ever started, whatever cut its download short.
UpdaterForThisDevice ==
  started.how = "updater" =>
    /\ mem[UPDATER] = Content(started.img, "whole")
    /\ For(Laid[started.img].updater, chip)

\* Such a Booster is passed over only when the chip was still busy with what
\* an earlier life had begun.
IgnoredForCause ==
  [][ pc = "updater" /\ pc' = "fbm" =>
        \/ lives > 1 /\ (busy \/ id_read # {"90", "9f"})
        \/ \A i \in Images : For(Laid[i].updater, chip) => mem[UPDATER] # Content(i, "whole") ]_vars

\* An installed image that asks for it is started by the timer, when nobody
\* touches the device and the power stays on.
Waiting == pc = "timeout" /\ installed # NoImage /\ Laid[installed].timeout # 0
Autoboots == Waiting ~> (pc \in {"gone", "start"} \/ ~quiet)

=============================================================================
