----------------------------- MODULE BootProofs -----------------------------
(***************************************************************************)
(* Proofs about Foboot's lives: the safety properties of Boot hold for     *)
(* every set of images that is laid out as LayoutAssumption says, every    *)
(* set of sectors and of chips, and any number of lives, power cuts and    *)
(* blocks.                                                                 *)
(***************************************************************************)
EXTENDS Boot, TLAPS, SequenceTheorems

-----------------------------------------------------------------------------
(* The inductive invariant.  First, where the main thread is, and what the *)
(* wires and the chip are at. *)

\* Before the main loop.
Early == pc \in {"start", "spiInit", "updater", "fbm", "timeout"}

\* A block was accepted, and the host has not been told yet that it is there.
Live == pc = "erasing" \/ (pc = "loop" /\ Polled)

\* Foboot has just been started; dfu_download has started an erase; the last
\* status waits for the host; a jump is the end.
ControlAgrees ==
  /\ Early => /\ dfu_state = "dfuIDLE" /\ fl_state = "flsIDLE" /\ ram_mode = 0
              /\ sent = NotSent /\ loaded = NoImage
  /\ pc = "erasing" => fl_state = "flsERASING" /\ dfu_state \in {"dfuIDLE", "dfuDNLOAD_IDLE"}
  /\ pc = "wait_reset" => dfu_state = "dfuMANIFEST_WAIT_RESET"
  /\ pc # "gone" => started = Nothing

\* In the first life nothing is left of an earlier one: the chip is idle,
\* and answers what has been sent of spiId.
Answered(ids) == lives = 1 => ids \subseteq id_read

\* spiInit wakes the chip step by step.
Waking ==
  \/ tx = spiReset \o spiId
  \/ tx = <<Command("wake"), Command("90"), Command("9f")>> /\ mode # "qpi"
  \/ tx = <<Command("90"), Command("9f")>> /\ mode = "spi"
  \/ tx = <<Command("9f")>> /\ mode = "spi" /\ Answered({"90"})
  \/ tx = <<>> /\ mode = "spi" /\ Answered({"90", "9f"})

WiresAgree ==
  /\ pc = "spiInit" => Waking
  /\ pc # "spiInit" /\ ~(Live /\ ram_mode = 0) => tx = <<>>
  /\ busy => mode = "spi"
  /\ pc \in {"updater", "fbm", "timeout", "loop", "erasing", "wait_reset"} => mode = "spi"
  /\ pc \in {"updater", "fbm"} => ~bitbang
  /\ lives = 1 /\ Early => ~busy
  /\ pc = "updater" => Answered({"90", "9f"})

-----------------------------------------------------------------------------
(* What the flash holds. *)

\* c is being sent to a chip that listens, or the chip is at it.
Sending(c) == ~busy /\ (tx = <<Command("wren"), c>> \/ (tx = <<c>> /\ wel))
UnderWay(c) == Sending(c) \/ (tx = <<>> /\ op = c)

\* The sector of the block holds x, and nothing is under way.
Settled(x) == tx = <<>> /\ ~busy /\ mem[current.num] = x

\* A block on its way to flash is erased, then its head is programmed, then
\* the rest.
ErasedFirst == UnderWay(Erase(current.num)) \/ Settled(Blank)
HeadNext ==
  \/ UnderWay(Write(current.num, current.img, "head")) /\ mem[current.num] = Blank
  \/ Settled(Content(current.img, "head"))
RestLast ==
  \/ UnderWay(Write(current.num, current.img, "rest")) /\ mem[current.num] = Content(current.img, "head")
  \/ Settled(Content(current.img, "whole"))

FlashStage ==
  Live /\ ram_mode = 0 =>
    \/ fl_state = "flsERASING" /\ current.left = 2 /\ ErasedFirst /\ (pc = "loop" => tx = <<>>)
    \/ pc = "loop" /\ fl_state = "flsPROGRAMMING" /\ current.left = 1 /\ HeadNext
    \/ pc = "loop" /\ fl_state = "flsPROGRAMMING" /\ current.left = 0 /\ RestLast
    \/ pc = "loop" /\ fl_state = "flsIDLE" /\ Settled(Content(current.img, "whole"))

\* The same of a block on its way to RAM.
RamStage ==
  Live /\ ram_mode # 0 =>
    \/ fl_state = "flsERASING" /\ current.left = 2
    \/ fl_state = "flsPROGRAMMING" /\ current.left = 1
    \/ fl_state = "flsPROGRAMMING" /\ current.left = 0 /\ ram[current.num] = Content(current.img, "whole")
    \/ fl_state = "flsIDLE" /\ ram[current.num] = Content(current.img, "whole")

\* A program the chip is at, also one of an earlier life, meets what it needs.
ProgramsErased ==
  op.name = "write" =>
    mem[op.at] = IF op.data.part = "head" THEN Blank ELSE Content(op.data.img, "head")

FlashSound == FlashStage /\ RamStage /\ ProgramsErased /\ NeverProgramsTwice /\ TornOnlyByPowerCut

\* Nothing happens to the Booster that was started.
UpdaterRuns ==
  started.how = "updater" =>
    /\ pc = "gone" /\ ~busy
    /\ mem[UPDATER] = Content(started.img, "whole") /\ started.img # NoImage
    /\ Laid[started.img].updater = Canonical(chip)

-----------------------------------------------------------------------------
(* What the host has got through. *)

\* The block in progress is one of those sent.
BlockIsSent ==
  /\ sent.img = NoImage => sent = NotSent
  /\ Live => sent.img # NoImage /\ current.img = sent.img /\ current.num \in sent.blocks

\* An image that may get to flash: one for flash, or one whose load address
\* is overlooked.
ForFlash(img) == Laid[img].from = "flash" \/ Overlooked(Laid[img])

\* Every block sent is where it was sent to, but the one in progress.
InStore(b) ==
  IF ram_mode = 0 THEN mem[b] = Content(sent.img, "whole") ELSE ram[b] = Content(sent.img, "whole")
SentArrives ==
  sent.img # NoImage =>
    /\ sent.blocks \subseteq Laid[sent.img].blocks
    /\ ram_mode = 0 => ForFlash(sent.img)
    /\ \A b \in sent.blocks : InStore(b) \/ (b = current.num /\ fl_state # "flsIDLE")
    /\ ram_mode = 0 /\ busy => fl_state # "flsIDLE" /\ op.at = current.num

\* An image that was acknowledged stays until the next download begins.
InstalledStays ==
  installed # NoImage =>
    /\ ForFlash(installed) /\ Whole(installed, mem) /\ ~busy
    /\ Live /\ ram_mode = 0 => fl_state = "flsIDLE"
LoadedStays ==
  loaded # NoImage =>
    /\ ram_mode # 0 /\ Laid[loaded].from = "ram" /\ Whole(loaded, ram)
    /\ Live => fl_state = "flsIDLE"

HostAgrees == BlockIsSent /\ SentArrives /\ InstalledStays /\ LoadedStays

IInv ==
  /\ BootTypeOK /\ ControlAgrees /\ WiresAgree /\ FlashSound /\ UpdaterRuns
  /\ HostAgrees /\ StartsAsLaidOut

-----------------------------------------------------------------------------
(* What the assumptions say. *)

\* What BootAssumption says of the constants.
LEMMA Constants ==
  /\ \A s \in Sectors : s \in Nat
  /\ 0 \in Sectors /\ UPDATER \in Sectors /\ NoImage \notin Images
  /\ "none" \notin ChipIds
  /\ MaxLives \in Nat \ {0} /\ MaxCuts \in Nat /\ MaxBlocks \in Nat
BY BootAssumption

\* What the assumptions say of an image.
LEMMA Layouts ==
  ASSUME NEW i \in Images
  PROVE  /\ Laid[i] \in ImageType /\ Laid[i].blocks \subseteq Sectors /\ 0 \in Laid[i].blocks
         /\ Laid[i].from \in {"flash", "ram"} /\ Laid[i].kind \in {"riscv", "bitstream"}
         /\ Laid[i].config \in Nat
         /\ Laid[i].head \in Seq(Words)
         /\ Canonical(Laid[i].updater) = Laid[i].updater
         /\ WellLaid(Laid[i])
<1>1. Laid[i] \in ImageType
  BY BootAssumption
<1>2. 0 \in Laid[i].blocks /\ Canonical(Laid[i].updater) = Laid[i].updater
  BY BootAssumption
<1>3. WellLaid(Laid[i])
  BY LayoutAssumption
<1> QED
  BY <1>1, <1>2, <1>3 DEF ImageType

-----------------------------------------------------------------------------
(* What is read of an image is what its author has laid out. *)

\* The magic words differ.
LEMMA MagicWords ==
  /\ Code # Sync /\ Code # BootFlags /\ Code # RamBoot /\ Code # Signature
  /\ Sync # BootFlags
BY DEF Code, Sync, BootFlags, RamBoot, Signature, Magic

\* A word that is read is a magic only where the magic stands.
LEMMA ReadAtPlace ==
  ASSUME NEW head \in Seq(Words), NEW w \in Nat,
         NEW magic \in {Sync, BootFlags, RamBoot}
  PROVE  WordAt(head, w) = magic <=> w \in Places(head, magic)
<1>1. Len(head) \in Nat
  OBVIOUS
<1> QED
  BY <1>1, MagicWords DEF WordAt, Places

\* Places are numbers of words.
LEMMA PlacesAreWords ==
  ASSUME NEW head \in Seq(Words), NEW magic
  PROVE  Places(head, magic) \subseteq Nat
<1>1. Len(head) \in Nat
  OBVIOUS
<1> QED
  BY <1>1 DEF Places

\* The one element of a set is its greatest and its least.
LEMMA OneElement ==
  ASSUME NEW w \in Int
  PROVE  Max({w}) = w /\ Min({w}) = w
BY DEF Max, Min

\* dfu_download looks at four words.
LEMMA FourSearched == Searched(FIRST_PACKET) = 0 .. 3
<1>1. FIRST_PACKET \in 56 .. 64
  BY LayoutAssumption
<1> QED
  BY <1>1 DEF Searched

\* dfu_download finds the load address of a program for RAM, or overlooks it
\* behind the first four words, and takes no word of another image for one.
LEMMA LoadAddressFound ==
  ASSUME NEW i \in Images, NEW mode0 \in Nat
  PROVE  LET found == LoadAddress(Laid[i].head, FIRST_PACKET, mode0)
         IN /\ found \in Nat
            /\ found = 0 => ForFlash(i)
            /\ Laid[i].from = "flash" => found = mode0
<1> DEFINE head  == Laid[i].head
           loads == Places(head, RamBoot)
           found == {w \in Searched(FIRST_PACKET) : WordAt(head, w) = RamBoot}
<1>1. /\ head \in Seq(Words) /\ Laid[i].from \in {"flash", "ram"}
      /\ WellLaid(Laid[i])
  BY Layouts
<1>2. found = {w \in 0 .. 3 : w \in loads}
  BY <1>1, FourSearched, ReadAtPlace
<1>3. LoadAddress(head, FIRST_PACKET, mode0) =
        IF found = {} THEN mode0 ELSE WordAt(head, Min(found) + 1).n
  BY DEF LoadAddress
<1> HIDE DEF found
<1>4. CASE Laid[i].from = "ram"
  <2>1. PICK w \in 0 .. 13 : loads = {w} /\ WordAt(head, w + 1).n # 0
    BY <1>1, <1>4 DEF WellLaid
  <2>2. CASE w <= 3
    <3>1. found = {w}
      BY <1>2, <2>1, <2>2
    <3>2. Min(found) = w
      BY <2>1, <3>1, OneElement
    <3>3. WordAt(head, w + 1).n \in Nat
      <4>1. Len(head) \in Nat /\ w + 1 \in Nat
        BY <1>1, <2>1
      <4>2. CASE w + 1 < Len(head)
        <5>1. w + 1 + 1 \in 1 .. Len(head)
          BY <2>1, <4>1, <4>2
        <5>2. head[w + 1 + 1] \in Words
          BY <1>1, <5>1, ElementOfSeq
        <5> QED
          BY <4>2, <5>2 DEF WordAt, Words
      <4>3. CASE ~(w + 1 < Len(head))
        BY <4>3 DEF WordAt, Code, Magic
      <4> QED
        BY <4>2, <4>3
    <3> QED
      BY <1>3, <1>4, <2>1, <3>1, <3>2, <3>3
  <2>3. CASE ~(w <= 3)
    <3>1. found = {}
      BY <1>2, <2>1, <2>3
    <3>2. Overlooked(Laid[i])
      BY <1>4, <2>1, <2>3 DEF Overlooked, RamMagic
    <3> QED
      BY <1>3, <1>4, <3>1, <3>2 DEF ForFlash
  <2> QED
    BY <2>2, <2>3
<1>5. CASE Laid[i].from = "flash"
  <2>1. \A w \in loads : w > 3
    <3>1. \A w \in loads : w > IF Laid[i].kind = "riscv" THEN 13 ELSE 3
      BY <1>1, <1>5 DEF WellLaid
    <3> QED
      BY <1>1, <3>1, PlacesAreWords
  <2>2. loads \subseteq Nat
    BY <1>1, PlacesAreWords
  <2>3. found = {}
    BY <1>2, <2>1, <2>2
  <2> QED
    BY <1>3, <1>5, <2>3 DEF ForFlash
<1> QED
  BY <1>1, <1>4, <1>5

\* reboot() starts an image as the kind of image it is and with its flags.
LEMMA ScanAsLaidOut ==
  ASSUME NEW i \in Images
  PROVE  Scan(Laid[i].head) = [kind |-> Laid[i].kind, config |-> Laid[i].config]
<1> DEFINE head  == Laid[i].head
           syncs == {w \in 0 .. 31 : WordAt(head, w) = Sync}
           flags == {w \in 0 .. 31 : WordAt(head, w) = BootFlags /\ \A s \in syncs : w < s}
           atSync  == Places(head, Sync)
           atFlags == Places(head, BootFlags)
<1>1. /\ head \in Seq(Words) /\ Laid[i].kind \in {"riscv", "bitstream"}
      /\ WellLaid(Laid[i])
  BY Layouts
<1>2. syncs = {w \in 0 .. 31 : w \in atSync}
  <2>1. \A w \in 0 .. 31 : WordAt(head, w) = Sync <=> w \in atSync
    BY <1>1, ReadAtPlace
  <2> QED
    BY <2>1
<1>3. flags = {w \in 0 .. 31 : w \in atFlags /\ \A s \in syncs : w < s}
  <2>1. \A w \in 0 .. 31 : WordAt(head, w) = BootFlags <=> w \in atFlags
    BY <1>1, ReadAtPlace
  <2> QED
    BY <2>1
<1>4. Scan(head) =
        [kind   |-> IF syncs # {} THEN "bitstream" ELSE "riscv",
         config |-> IF syncs # {} \/ flags = {} THEN 0 ELSE WordAt(head, Max(flags) + 1).n]
  BY DEF Scan
<1> HIDE DEF syncs, flags
<1>5. CASE Laid[i].kind = "riscv"
  <2>1. atSync = {}
    BY <1>1, <1>5 DEF WellLaid
  <2>2. syncs = {}
    BY <1>2, <2>1
  <2>3. \/ atFlags = {} /\ Laid[i].config = 0
        \/ \E w \in 0 .. 30 : atFlags = {w} /\ WordAt(head, w + 1) = Value(Laid[i].config)
    BY <1>1, <1>5 DEF WellLaid
  <2>4. CASE atFlags = {} /\ Laid[i].config = 0
    <3>1. flags = {}
      BY <1>3, <2>4
    <3> QED
      BY <1>4, <1>5, <2>2, <2>4, <3>1
  <2>5. CASE \E w \in 0 .. 30 : atFlags = {w} /\ WordAt(head, w + 1) = Value(Laid[i].config)
    <3>1. PICK w \in 0 .. 30 : atFlags = {w} /\ WordAt(head, w + 1) = Value(Laid[i].config)
      BY <2>5
    <3>2. flags = {w}
      BY <1>3, <2>2, <3>1
    <3>3. Max(flags) = w
      BY <3>2, OneElement
    <3>4. WordAt(head, Max(flags) + 1).n = Laid[i].config
      BY <3>1, <3>3 DEF Value
    <3> QED
      BY <1>4, <1>5, <2>2, <3>2, <3>4
  <2> QED
    BY <2>3, <2>4, <2>5
<1>6. CASE Laid[i].kind = "bitstream"
  <2>1. PICK s \in atSync : s < 32
    BY <1>1, <1>6 DEF WellLaid
  <2>2. s \in Nat
    BY <1>1, PlacesAreWords
  <2>3. s \in syncs
    BY <1>2, <2>1, <2>2
  <2>4. Laid[i].config = 0
    BY <1>1, <1>6 DEF WellLaid
  <2> QED
    BY <1>4, <1>6, <2>3, <2>4
<1> QED
  BY <1>1, <1>5, <1>6

\* Noise is started as a program without flags.
LEMMA ScanOfNoise == Scan(<<>>) = [kind |-> "riscv", config |-> 0]
<1>1. \A w \in 0 .. 31 : WordAt(<<>>, w) = Code
  BY DEF WordAt
<1> DEFINE syncs == {w \in 0 .. 31 : WordAt(<<>>, w) = Sync}
           flags == {w \in 0 .. 31 : WordAt(<<>>, w) = BootFlags /\ \A s \in syncs : w < s}
<1>2. syncs = {} /\ flags = {}
  BY <1>1, MagicWords
<1> QED
  BY <1>2 DEF Scan

-----------------------------------------------------------------------------
(* Transactions. *)

\* The parts of a transaction.
LEMMA TransactionParts ==
  ASSUME NEW c \in Transactions \cup {Idle}
  PROVE  /\ c.at \in Sectors
         /\ c.name \in {"wren", "ff", "wake", "90", "9f", "erase", "write", "idle"}
         /\ c.name = "idle" <=> c = Idle
         /\ c.data.img \in AnyImage
         /\ c.name = "write" => c.data.img \in Images /\ c.data.part \in {"head", "rest"}
<1> USE Constants DEF Command, Erase, Write, Idle, Blank, Content, AnyImage
<1>1. CASE c = Idle
  BY <1>1
<1>2. CASE \E name \in {"wren", "ff", "wake", "90", "9f"} : c = Command(name)
  BY <1>2
<1>3. CASE \E at \in Sectors : c = Erase(at)
  BY <1>3
<1>4. CASE \E at \in Sectors, img \in Images, page \in {"head", "rest"} : c = Write(at, img, page)
  BY <1>4
<1> QED
  BY <1>1, <1>2, <1>3, <1>4 DEF Transactions, Operations

\* What a transaction carries.
LEMMA TransactionData ==
  ASSUME NEW c \in Transactions \cup {Idle}
  PROVE  c.data \in [img : AnyImage, part : {"none", "head", "rest"}]
<1> USE DEF Command, Erase, Write, Idle, Blank, Content, AnyImage
<1>1. CASE c = Idle
  BY <1>1
<1>2. CASE \E name \in {"wren", "ff", "wake", "90", "9f"} : c = Command(name)
  BY <1>2
<1>3. CASE \E at \in Sectors : c = Erase(at)
  BY <1>3
<1>4. CASE \E at \in Sectors, img \in Images, page \in {"head", "rest"} : c = Write(at, img, page)
  BY <1>4
<1> QED
  BY <1>1, <1>2, <1>3, <1>4 DEF Transactions, Operations

\* Which transactions there are.
LEMMA AreTransactions ==
  /\ \A name \in {"wren", "ff", "wake", "90", "9f"} : Command(name) \in Transactions
  /\ \A at \in Sectors : Erase(at) \in Transactions
  /\ \A at \in Sectors, img \in Images, page \in {"head", "rest"} :
       Write(at, img, page) \in Transactions
BY DEF Transactions, Operations

\* An operation is an erase or a program; the other transactions are none.
LEMMA AreOperations ==
  /\ Operations \subseteq Transactions
  /\ \A c \in Transactions : c.name \in {"erase", "write"} => c \in Operations
  /\ \A c \in Operations : c.name \in {"erase", "write"}
  /\ \A at \in Sectors : Erase(at) \in Operations
BY DEF Transactions, Operations, Command, Erase, Write

\* The head and the tail of one or two transactions.
LEMMA OneAfterAnother ==
  ASSUME NEW a, NEW b
  PROVE  /\ Head(<<a, b>>) = a /\ Tail(<<a, b>>) = <<b>> /\ <<a, b>> # <<>>
         /\ Head(<<a>>) = a /\ Tail(<<a>>) = <<>> /\ <<a>> # <<>>
OBVIOUS

\* Two and two make four.
LEMMA FourInARow ==
  ASSUME NEW a, NEW b, NEW c, NEW d
  PROVE  <<a, b>> \o <<c, d>> = <<a, b, c, d>>
<1> DEFINE S == {a, b, c, d}
           u == <<a, b>>
           v == <<c, d>>
           t == <<a, b, c, d>>
<1>1. u \in Seq(S) /\ v \in Seq(S) /\ t \in Seq(S)
  OBVIOUS
<1>2. Len(u) = 2 /\ Len(v) = 2 /\ Len(t) = 4
  OBVIOUS
<1>3. u[1] = a /\ u[2] = b /\ v[1] = c /\ v[2] = d
  OBVIOUS
<1>4. t[1] = a /\ t[2] = b /\ t[3] = c /\ t[4] = d
  OBVIOUS
<1> HIDE DEF S, u, v, t
<1>5. /\ u \o v \in Seq(S) /\ Len(u \o v) = Len(u) + Len(v)
      /\ \A i \in 1 .. Len(u) + Len(v) : (u \o v)[i] = IF i <= Len(u) THEN u[i] ELSE v[i - Len(u)]
  BY <1>1, ConcatProperties
<1>6. Len(u \o v) = 4
  BY <1>2, <1>5
<1>7. \A i \in 1 .. 4 : (u \o v)[i] = t[i]
  <2> SUFFICES ASSUME NEW i \in 1 .. 4 PROVE (u \o v)[i] = t[i]
    OBVIOUS
  <2>1. (u \o v)[i] = IF i <= 2 THEN u[i] ELSE v[i - 2]
    BY <1>2, <1>5
  <2>2. i \in {1, 2, 3, 4}
    OBVIOUS
  <2>3. i = 3 => i - 2 = 1
    OBVIOUS
  <2>4. i = 4 => i - 2 = 2
    OBVIOUS
  <2> QED
    BY <1>3, <1>4, <2>1, <2>2, <2>3, <2>4
<1>8. u \o v = t
  BY <1>1, <1>2, <1>5, <1>6, <1>7, SeqEqual
<1> QED
  BY <1>8 DEF u, v, t

\* What spiInit sends.
LEMMA InitSequence ==
  /\ spiReset \o spiId = <<Command("ff"), Command("wake"), Command("90"), Command("9f")>>
  /\ spiReset \o spiId \in Seq(Transactions) /\ spiReset \o spiId # <<>>
<1> DEFINE a == Command("ff")
           b == Command("wake")
           c == Command("90")
           d == Command("9f")
<1>1. spiReset = <<a, b>> /\ spiId = <<c, d>>
  BY DEF spiReset, spiId
<1>2. a \in Transactions /\ b \in Transactions /\ c \in Transactions /\ d \in Transactions
  BY AreTransactions
<1> HIDE DEF a, b, c, d
<1>3. <<a, b>> \o <<c, d>> = <<a, b, c, d>>
  BY FourInARow
<1>4. <<a, b, c, d>> \in Seq(Transactions) /\ <<a, b, c, d>> # <<>>
  BY <1>2
<1>5. spiReset \o spiId = <<a, b, c, d>>
  BY <1>1, <1>3
<1> QED
  BY <1>4, <1>5 DEF a, b, c, d

\* A transaction of the main loop reaches a chip that listens.
LEMMA Sends ==
  ASSUME NEW c, c.name \in {"erase", "write"}, Sending(c), mode = "spi", Transaction
  PROVE  /\ mem' = mem /\ mode' = mode /\ id_read' = id_read /\ bitbang' = bitbang
         /\ \/ tx = <<Command("wren"), c>> /\ tx' = <<c>> /\ wel' /\ op' = op
            \/ tx = <<c>> /\ tx' = <<>> /\ op' = c
<1> DEFINE w == Command("wren")
<1>1. w.name = "wren"
  BY DEF Command
<1> HIDE DEF w
<1>2. ~busy /\ mode = "spi" /\ tx # <<>> /\ Execute(Head(tx)) /\ tx' = Tail(tx) /\ bitbang' = bitbang
  BY DEF Transaction, Sending
<1>3. CASE tx = <<w, c>>
  <2>1. Head(tx) = w /\ tx' = <<c>>
    BY <1>2, <1>3, OneAfterAnother
  <2> QED
    BY <1>1, <1>2, <1>3, <2>1 DEF Execute, w
<1>4. CASE tx = <<c>> /\ wel
  <2>1. Head(tx) = c /\ tx' = <<>>
    BY <1>2, <1>4, OneAfterAnother
  <2> QED
    BY <1>2, <1>4, <2>1 DEF Execute
<1> QED
  BY <1>3, <1>4 DEF Sending, w

\* spiInit goes on: a chip that is not busy wakes, and answers.
LEMMA Wakes ==
  ASSUME Waking, Transaction, busy => mode = "spi", lives = 1 => ~busy, lives' = lives,
         id_read \subseteq {"90", "9f"}, mode \in {"spi", "qpi", "asleep"}
  PROVE  Waking' /\ mem' = mem /\ op' = op /\ wel' = wel /\ bitbang' = bitbang
<1> DEFINE a == Command("ff")
           b == Command("wake")
           c == Command("90")
           d == Command("9f")
<1>1. a.name = "ff" /\ b.name = "wake" /\ c.name = "90" /\ d.name = "9f"
  BY DEF Command
<1>2. spiReset \o spiId = <<a, b, c, d>>
  BY InitSequence
<1>3. tx # <<>> /\ Execute(Head(tx)) /\ tx' = Tail(tx) /\ bitbang' = bitbang
  BY DEF Transaction
<1>4. Waking = \/ tx = <<a, b, c, d>>
               \/ tx = <<b, c, d>> /\ mode # "qpi"
               \/ tx = <<c, d>> /\ mode = "spi"
               \/ tx = <<d>> /\ mode = "spi" /\ Answered({"90"})
               \/ tx = <<>> /\ mode = "spi" /\ Answered({"90", "9f"})
  BY <1>2 DEF Waking
<1>5. Waking' = (\/ tx' = <<a, b, c, d>>
                 \/ tx' = <<b, c, d>> /\ mode' # "qpi"
                 \/ tx' = <<c, d>> /\ mode' = "spi"
                 \/ tx' = <<d>> /\ mode' = "spi" /\ Answered({"90"})'
                 \/ tx' = <<>> /\ mode' = "spi" /\ Answered({"90", "9f"})')
  BY <1>2 DEF Waking
<1> HIDE DEF a, b, c, d
<1>6. CASE tx = <<a, b, c, d>>
  <2>1. Head(tx) = a /\ tx' = <<b, c, d>>
    BY <1>3, <1>6
  <2> QED
    BY <1>1, <1>3, <1>5, <2>1 DEF Execute
<1>7. CASE tx = <<b, c, d>> /\ mode # "qpi"
  <2>1. Head(tx) = b /\ tx' = <<c, d>>
    BY <1>3, <1>7
  <2> QED
    BY <1>1, <1>3, <1>5, <1>7, <2>1 DEF Execute
<1>8. CASE tx = <<c, d>> /\ mode = "spi"
  <2>1. Head(tx) = c /\ tx' = <<d>>
    BY <1>3, <1>8
  <2>2. Answered({"90"})'
    BY <1>1, <1>3, <1>8, <2>1 DEF Execute, Answered
  <2> QED
    BY <1>1, <1>3, <1>5, <1>8, <2>1, <2>2 DEF Execute
<1>9. CASE tx = <<d>> /\ mode = "spi" /\ Answered({"90"})
  <2>1. Head(tx) = d /\ tx' = <<>>
    BY <1>3, <1>9
  <2>2. Answered({"90", "9f"})'
    BY <1>1, <1>3, <1>9, <2>1 DEF Execute, Answered
  <2> QED
    BY <1>1, <1>3, <1>5, <1>9, <2>1, <2>2 DEF Execute
<1> QED
  BY <1>3, <1>4, <1>6, <1>7, <1>8, <1>9

-----------------------------------------------------------------------------
(* Reboots. *)

\* What reboot() does when no program is being sent.
LEMMA Reboots ==
  ASSUME NEW how, reboot(how), tx # <<>> => Head(tx).name # "write"
  PROVE  /\ pc' = "gone" /\ tx' = <<>> /\ bitbang' = FALSE /\ timer' = "off" /\ mem' = mem
         /\ UNCHANGED <<dfuVars, fixed, history, bounds>>
         /\ \/ UNCHANGED <<op, mode, wel, id_read>>
            \/ tx # <<>> /\ Execute(Head(tx))
         /\ LET origin == IF ram_mode # 0 THEN ram[0] ELSE mem[0]
            IN \E head \in Seen(origin, TRUE) \cup {<<>>} :
                 /\ ram_mode # 0 \/ (mode' = "spi" /\ op' = Idle) => head \in Seen(origin, TRUE)
                 /\ started' = [how |-> how, from |-> IF ram_mode # 0 THEN "ram" ELSE "flash",
                                kind |-> Scan(head).kind, config |-> Scan(head).config,
                                img |-> origin.img]
<1>1. /\ bitbang' = FALSE /\ tx' = <<>> /\ timer' = "off" /\ pc' = "gone"
      /\ UNCHANGED <<dfuVars, fixed, history, bounds>>
  BY DEF reboot, spiFree, Freed, Jump
<1>2. \/ UNCHANGED <<mem, op, mode, wel, id_read>>
      \/ tx # <<>> /\ Execute(Head(tx))
  BY DEF reboot, spiFree, chipVars
<1>3. mem' = mem
  BY <1>2 DEF Execute
<1> DEFINE origin == IF ram_mode # 0 THEN ram[0] ELSE mem[0]
<1>4. PICK finished \in BOOLEAN :
        /\ finished \/ op' # Idle
        /\ \E head \in Seen(origin, ram_mode # 0 \/ (mode' = "spi" /\ finished)) :
             Jump(how, IF ram_mode # 0 THEN "ram" ELSE "flash", Scan(head), origin.img)
  BY <1>1, <1>3 DEF reboot
<1>5. PICK head \in Seen(origin, ram_mode # 0 \/ (mode' = "spi" /\ finished)) :
        Jump(how, IF ram_mode # 0 THEN "ram" ELSE "flash", Scan(head), origin.img)
  BY <1>4
<1>6. head \in Seen(origin, TRUE) \cup {<<>>}
  BY <1>5 DEF Seen
<1>7. ram_mode # 0 \/ (mode' = "spi" /\ op' = Idle) => head \in Seen(origin, TRUE)
  BY <1>4, <1>5
<1>8. started' = [how |-> how, from |-> IF ram_mode # 0 THEN "ram" ELSE "flash",
                  kind |-> Scan(head).kind, config |-> Scan(head).config, img |-> origin.img]
  BY <1>5 DEF Jump
<1> QED
  BY <1>1, <1>2, <1>3, <1>6, <1>7, <1>8

-----------------------------------------------------------------------------
(* Types. *)

\* What reboot() makes of any words it may see.
LEMMA ScanTypes ==
  ASSUME NEW content \in Contents, NEW head \in Seen(content, TRUE) \cup {<<>>}
  PROVE  Scan(head).kind \in {"riscv", "bitstream"} /\ Scan(head).config \in Nat
<1>1. content.img \in Images \/ content.img = NoImage
  BY DEF Contents, AnyImage
<1>2. head = <<>> \/ (content.img \in Images /\ head = Laid[content.img].head)
  BY <1>1 DEF Seen
<1>3. CASE head = <<>>
  BY <1>3, ScanOfNoise
<1>4. CASE content.img \in Images /\ head = Laid[content.img].head
  <2>1. Scan(head) = [kind |-> Laid[content.img].kind, config |-> Laid[content.img].config]
    BY <1>4, ScanAsLaidOut
  <2> QED
    BY <1>4, <2>1, Layouts
<1> QED
  BY <1>2, <1>3, <1>4

\* A transaction keeps the types of the chip.
LEMMA ExecuteTypes ==
  ASSUME ChipTypeOK, tx # <<>>, Execute(Head(tx))
  PROVE  /\ mem' = mem /\ op' \in Operations \cup {Idle}
         /\ mode' \in {"spi", "qpi", "asleep"} /\ wel' \in BOOLEAN
         /\ id_read' \subseteq {"90", "9f"}
<1>1. Head(tx) \in Transactions
  BY HeadTailProperties DEF ChipTypeOK
<1>2. mem' = mem /\ op' \in Operations \cup {Idle}
  BY <1>1, AreOperations DEF Execute, ChipTypeOK
<1>3. mode' \in {"spi", "qpi", "asleep"} /\ wel' \in BOOLEAN
  BY DEF Execute, ChipTypeOK
<1>4. id_read' \subseteq {"90", "9f"}
  BY DEF Execute, ChipTypeOK
<1> QED
  BY <1>2, <1>3, <1>4

\* What the chip stores when it is done, and what a cut leaves.
LEMMA StoredTypes ==
  ASSUME ChipTypeOK
  PROVE  op.at \in Sectors /\ Completed \in Contents /\ TornBy(op) \in Contents
<1>1. op.at \in Sectors /\ op.data.img \in AnyImage /\ mem[op.at] \in Contents
  BY TransactionParts, AreOperations DEF ChipTypeOK
<1>2. Blank \in Contents
  BY DEF Blank, Content, Contents, AnyImage
<1>3. TornBy(op) \in Contents
  BY <1>1 DEF TornBy, Content, Contents
<1>4. Programmed(mem[op.at], op.data) \in Contents
  <2>1. CASE op.data.part = "head" /\ mem[op.at] = Blank
    <3>1. op.data \in [img : AnyImage, part : {"none", "head", "rest"}]
      BY TransactionData, AreOperations DEF ChipTypeOK
    <3> QED
      BY <2>1, <3>1 DEF Programmed, Contents
  <2>2. CASE ~(op.data.part = "head" /\ mem[op.at] = Blank)
    BY <1>1, <2>2 DEF Programmed, Content, Contents
  <2> QED
    BY <2>1, <2>2
<1> QED
  BY <1>1, <1>2, <1>3, <1>4 DEF Completed

\* A reboot finds no program on the wires, and an erase at most: isr() looks
\* at dfu_state, and the other two callers have sent all they had to send.
LEMMA RebootsAreClean ==
  ASSUME IInv, NEW how \in {"timer", "detach", "reset"}, reboot(how),
         pc \in {"loop", "erasing", "wait_reset"}, dfu_state = "dfuIDLE" \/ tx = <<>>
  PROVE  /\ pc' = "gone" /\ tx' = <<>> /\ bitbang' = FALSE /\ timer' = "off"
         /\ mem' = mem /\ mode' = mode /\ mode = "spi"
         /\ UNCHANGED <<dfuVars, fixed, history, bounds>>
         /\ \/ op' = op
            \/ op' = Erase(current.num) /\ pc = "erasing" /\ ram_mode = 0
         /\ wel' \in BOOLEAN /\ id_read' \subseteq {"90", "9f"}
         /\ LET origin == IF ram_mode # 0 THEN ram[0] ELSE mem[0]
            IN \E head \in Seen(origin, TRUE) \cup {<<>>} :
                 /\ ram_mode # 0 \/ op' = Idle => head \in Seen(origin, TRUE)
                 /\ started' = [how |-> how, from |-> IF ram_mode # 0 THEN "ram" ELSE "flash",
                                kind |-> Scan(head).kind, config |-> Scan(head).config,
                                img |-> origin.img]
<1> DEFINE e == Erase(current.num)
           w == Command("wren")
<1>1. ChipTypeOK /\ mode = "spi" /\ wel \in BOOLEAN /\ id_read \subseteq {"90", "9f"}
  BY DEF IInv, BootTypeOK, ChipTypeOK, WiresAgree
<1>2. e.name = "erase" /\ w.name = "wren"
  BY DEF Erase, Command
<1> HIDE DEF e, w
<1>3. ASSUME tx # <<>>
      PROVE  /\ pc = "erasing" /\ ram_mode = 0 /\ ~busy
             /\ tx = <<w, e>> \/ tx = <<e>>
  <2>1. dfu_state = "dfuIDLE" /\ Live /\ ram_mode = 0
    BY <1>3 DEF IInv, WiresAgree
  <2>2. pc = "erasing"
    BY <2>1 DEF Live, Polled
  <2>3. ErasedFirst
    BY <2>1, <2>2 DEF IInv, FlashSound, FlashStage
  <2> QED
    BY <1>3, <2>1, <2>2, <2>3 DEF ErasedFirst, Settled, UnderWay, Sending, e, w
<1>4. tx # <<>> => Head(tx) \in {w, e}
  BY <1>3, OneAfterAnother
<1>5. /\ pc' = "gone" /\ tx' = <<>> /\ bitbang' = FALSE /\ timer' = "off" /\ mem' = mem
      /\ UNCHANGED <<dfuVars, fixed, history, bounds>>
      /\ \/ UNCHANGED <<op, mode, wel, id_read>>
         \/ tx # <<>> /\ Execute(Head(tx))
      /\ LET origin == IF ram_mode # 0 THEN ram[0] ELSE mem[0]
         IN \E head \in Seen(origin, TRUE) \cup {<<>>} :
              /\ ram_mode # 0 \/ (mode' = "spi" /\ op' = Idle) => head \in Seen(origin, TRUE)
              /\ started' = [how |-> how, from |-> IF ram_mode # 0 THEN "ram" ELSE "flash",
                             kind |-> Scan(head).kind, config |-> Scan(head).config,
                             img |-> origin.img]
  BY <1>2, <1>4, Reboots
<1>6. mode' = mode /\ wel' \in BOOLEAN /\ id_read' \subseteq {"90", "9f"}
  <2>1. CASE UNCHANGED <<op, mode, wel, id_read>>
    BY <1>1, <2>1
  <2>2. CASE tx # <<>> /\ Execute(Head(tx))
    <3>1. wel' \in BOOLEAN /\ id_read' \subseteq {"90", "9f"}
      BY <1>1, <2>2, ExecuteTypes
    <3>2. mode' = mode
      BY <1>1, <2>2 DEF Execute
    <3> QED
      BY <3>1, <3>2
  <2> QED
    BY <1>5, <2>1, <2>2
<1>7. op' = op \/ (op' = e /\ pc = "erasing" /\ ram_mode = 0)
  <2>1. CASE UNCHANGED <<op, mode, wel, id_read>>
    BY <2>1
  <2>2. CASE tx # <<>> /\ Execute(Head(tx))
    BY <1>2, <1>3, <1>4, <2>2 DEF Execute
  <2> QED
    BY <1>5, <2>1, <2>2
<1> QED
  BY <1>1, <1>5, <1>6, <1>7 DEF e

\* The three of them.
LEMMA WhoReboots ==
  ASSUME IInv
  PROVE  /\ Detach => reboot("detach") /\ pc = "loop" /\ tx = <<>>
         /\ Reset => reboot("reset") /\ pc = "wait_reset" /\ tx = <<>>
         /\ \A pinch \in BOOLEAN : TimerIsr(pinch) =>
              \/ reboot("timer") /\ pc \in {"loop", "erasing", "wait_reset"} /\ dfu_state = "dfuIDLE"
              \/ /\ timer' = "off" /\ quiet' = FALSE
                 /\ UNCHANGED <<spiVars, pc, dfuVars, fixed, started, sent, installed, loaded, bounds>>
<1>1. pc = "wait_reset" => tx = <<>>
  BY DEF IInv, WiresAgree, Live
<1> QED
  BY <1>1 DEF Detach, Reset, TimerIsr, MayAutoboot

\* The chip and the wires keep their types.
LEMMA ChipTypes ==
  ASSUME IInv, Next
  PROVE  ChipTypeOK'
<1> USE DEF ChipTypeOK
<1>1. ChipTypeOK /\ current \in [num : Sectors, img : AnyImage, left : 0 .. 2]
  BY DEF IInv, BootTypeOK, EngineTypeOK
<1>2. Blank \in Contents /\ Idle \in Operations \cup {Idle} /\ <<>> \in Seq(Transactions)
  BY DEF Blank, Content, Contents, AnyImage
<1>3. CASE Start
  BY <1>1, <1>3, InitSequence DEF Start, spiInit, chipVars
<1>4. ASSUME NEW pinch \in BOOLEAN, NervePinch(pinch) PROVE ChipTypeOK'
  BY <1>1, <1>4 DEF NervePinch, chipVars
<1>5. CASE maybe_boot_updater
  BY <1>1, <1>5 DEF maybe_boot_updater, spiVars, chipVars
<1>6. CASE maybe_boot_fbm
  BY <1>1, <1>6 DEF maybe_boot_fbm, chipVars
<1>7. CASE init_timeout
  BY <1>1, <1>7 DEF init_timeout, chipVars
<1>8. CASE BlockAccepted
  BY <1>1, <1>8 DEF BlockAccepted, spiVars, chipVars
<1>9. CASE dfu_poll
  <2>1. UNCHANGED <<mem, op, mode, wel, id_read, bitbang>>
    BY <1>9 DEF dfu_poll, chipVars
  <2>2. tx' \in Seq(Transactions)
    <3>1. CASE tx' = tx
      BY <1>1, <3>1
    <3>2. CASE ram_mode = 0 /\ tx' = spiBeginWrite(current.num, current.img, Page)
      <4>1. current.img \in Images
        BY <1>9, <3>2 DEF dfu_poll, IInv, HostAgrees, BlockIsSent, Live, HistoryTypeOK, BootTypeOK, AnyImage
      <4>2. Write(current.num, current.img, Page) \in Transactions /\ Command("wren") \in Transactions
        BY <1>1, <4>1, AreTransactions DEF Page
      <4> QED
        BY <3>2, <4>2 DEF spiBeginWrite
    <3> QED
      BY <1>9, <3>1, <3>2 DEF dfu_poll, WritePage
  <2> QED
    BY <1>1, <2>1, <2>2
<1>10. CASE Shift
  <2>1. tx # <<>> /\ Execute(Head(tx)) /\ tx' = Tail(tx) /\ bitbang' = bitbang
    BY <1>10 DEF Shift, Transaction
  <2>2. tx' \in Seq(Transactions)
    BY <1>1, <2>1, HeadTailProperties
  <2> QED
    BY <1>1, <2>1, <2>2, ExecuteTypes
<1>11. ASSUME NEW img \in Images, NEW num \in Laid[img].blocks, Block(num, img) PROVE ChipTypeOK'
  <2>1. UNCHANGED <<mem, op, mode, wel, id_read, bitbang>>
    BY <1>11 DEF Block, chipVars
  <2>2. tx' = tx \/ tx' = spiBeginErase4(num) \/ tx' = <<>>
    BY <1>11 DEF Block
  <2>3. num \in Sectors
    BY <1>11, Layouts
  <2>4. spiBeginErase4(num) \in Seq(Transactions)
    <3>1. Command("wren") \in Transactions /\ Erase(num) \in Transactions
      BY <2>3, AreTransactions
    <3> QED
      BY <3>1 DEF spiBeginErase4
  <2> QED
    BY <1>1, <1>2, <2>1, <2>2, <2>4
<1>12. ASSUME NEW state, Set(state) PROVE ChipTypeOK'
  BY <1>1, <1>12 DEF Set, spiVars, chipVars
<1>13. ASSUME NEW how \in {"timer", "detach", "reset"}, reboot(how),
              pc \in {"loop", "erasing", "wait_reset"}, dfu_state = "dfuIDLE" \/ tx = <<>>
       PROVE  ChipTypeOK'
  <2>1. /\ tx' = <<>> /\ bitbang' = FALSE /\ mem' = mem /\ mode' = mode
        /\ op' = op \/ op' = Erase(current.num)
        /\ wel' \in BOOLEAN /\ id_read' \subseteq {"90", "9f"}
    BY <1>13, RebootsAreClean
  <2>2. Erase(current.num) \in Operations
    BY <1>1, AreOperations
  <2> QED
    BY <1>1, <1>2, <2>1, <2>2
<1>14. ASSUME NEW pinch \in BOOLEAN, TimerIsr(pinch) PROVE ChipTypeOK'
  <2>1. CASE UNCHANGED spiVars
    BY <1>1, <2>1 DEF spiVars, chipVars
  <2> QED
    BY <1>13, <1>14, <2>1, WhoReboots
<1>15. CASE ChipDone
  BY <1>1, <1>2, <1>15, StoredTypes DEF ChipDone, OpDone
<1>16. CASE Restart
  BY <1>1, <1>2, <1>16 DEF Restart
<1>17. CASE PowerCut
  BY <1>1, <1>2, <1>17, StoredTypes DEF PowerCut, PowerLost
<1>18. CASE RunsOn
  BY <1>1, <1>18 DEF RunsOn, vars, spiVars, chipVars
<1> QED
  BY <1>3, <1>4, <1>5, <1>6, <1>7, <1>8, <1>9, <1>10, <1>11, <1>12, <1>13, <1>14, <1>15, <1>16,
     <1>17, <1>18, WhoReboots
  DEF Next, Foboot, Host, DnloadEnd, GetStatus, ClrStatus, Abort

\* The download engine keeps its types.
LEMMA EngineTypes ==
  ASSUME IInv, Next
  PROVE  EngineTypeOK'
<1>1. /\ EngineTypeOK /\ current \in [num : Sectors, img : AnyImage, left : 0 .. 2]
      /\ ram_mode \in Nat /\ ram \in [Sectors -> Contents] /\ sent.img \in AnyImage
  BY DEF IInv, BootTypeOK, EngineTypeOK, HistoryTypeOK
<1>2. NoRam \in [Sectors -> Contents] /\ NoBlock \in [num : Sectors, img : AnyImage, left : 0 .. 2]
  BY Constants DEF NoRam, NoBlock, Blank, Content, Contents, AnyImage
<1>3. ASSUME UNCHANGED dfuVars PROVE EngineTypeOK'
  BY <1>1, <1>3 DEF dfuVars, EngineTypeOK
<1>4. ASSUME NEW img \in Images, NEW num \in Laid[img].blocks, Block(num, img) PROVE EngineTypeOK'
  <2> DEFINE address == IF num = 0 THEN LoadAddress(Laid[img].head, FIRST_PACKET, ram_mode)
                        ELSE ram_mode
  <2>1. num \in Sectors /\ img \in AnyImage
    BY <1>4, Layouts DEF AnyImage
  <2>2. address \in Nat
    BY <1>1, LoadAddressFound
  <2>3. ram_mode' = address /\ (ram' = ram \/ ram' = NoRam)
    BY <1>4 DEF Block
  <2>4. \/ /\ fl_state' = "flsERASING" /\ dfu_state' = dfu_state
           /\ current' = [num |-> num, img |-> img, left |-> 2]
        \/ dfu_state' = "dfuERROR" /\ UNCHANGED <<fl_state, current>>
    BY <1>4 DEF Block
  <2> HIDE DEF address
  <2>5. ram_mode' \in Nat /\ ram' \in [Sectors -> Contents]
    BY <1>1, <1>2, <2>2, <2>3
  <2>6. current' \in [num : Sectors, img : AnyImage, left : 0 .. 2]
    BY <1>1, <2>1, <2>4
  <2> QED
    BY <1>1, <2>4, <2>5, <2>6 DEF EngineTypeOK
<1>5. CASE BlockAccepted
  BY <1>1, <1>5 DEF BlockAccepted, EngineTypeOK
<1>6. CASE dfu_poll
  <2>1. Live /\ UNCHANGED <<dfu_state, ram_mode>>
    BY <1>6 DEF dfu_poll, Live
  <2>2. fl_state' \in {"flsIDLE", "flsERASING", "flsPROGRAMMING"}
    BY <1>1, <1>6 DEF dfu_poll, EngineTypeOK
  <2>3. current' = current \/ (WritePage /\ current.left # 0)
    <3>1. fl_state = "flsERASING" => current.left # 0
      BY <2>1 DEF IInv, FlashSound, FlashStage, RamStage
    <3> QED
      BY <1>6, <3>1 DEF dfu_poll, MorePages
  <2>4. current' \in [num : Sectors, img : AnyImage, left : 0 .. 2]
    BY <1>1, <2>3 DEF WritePage
  <2>5. ram' \in [Sectors -> Contents]
    <3>1. \A part \in {"head", "whole"} : Content(current.img, part) \in Contents
      BY <1>1 DEF Content, Contents
    <3>2. ram' = ram \/ \E part \in {"head", "whole"} :
                          ram' = [ram EXCEPT ![current.num] = Content(current.img, part)]
      BY <1>6 DEF dfu_poll, WritePage
    <3> QED
      BY <1>1, <3>1, <3>2
  <2> QED
    BY <1>1, <2>1, <2>2, <2>4, <2>5 DEF EngineTypeOK
<1>7. ASSUME NEW state \in {"dfuIDLE", "dfuDNLOAD_IDLE", "dfuDNBUSY", "dfuMANIFEST_SYNC", "dfuMANIFEST",
                            "dfuMANIFEST_WAIT_RESET", "dfuERROR", dfu_state}, Set(state)
      PROVE  EngineTypeOK'
  BY <1>1, <1>7 DEF Set, EngineTypeOK
<1>8. CASE FreshRam
  BY <1>2, <1>8 DEF FreshRam, EngineTypeOK
<1>9. CASE \E pinch \in BOOLEAN : TimerIsr(pinch)
  BY <1>3, <1>9 DEF TimerIsr, reboot
<1>10. CASE Foboot
  BY <1>3, <1>5, <1>6, <1>10
  DEF Foboot, Start, NervePinch, maybe_boot_updater, maybe_boot_fbm, init_timeout, Shift
<1>11. CASE Host
  <2>1. CASE DnloadEnd
    BY <1>7, <2>1 DEF DnloadEnd
  <2>2. CASE GetStatus
    BY <1>7, <2>2 DEF GetStatus
  <2>3. CASE ClrStatus
    BY <1>7, <2>3 DEF ClrStatus
  <2>4. CASE Abort
    BY <1>7, <2>4 DEF Abort
  <2>5. CASE Detach \/ Reset
    BY <1>3, <2>5 DEF Detach, Reset, reboot
  <2> QED
    BY <1>4, <1>11, <2>1, <2>2, <2>3, <2>4, <2>5 DEF Host
<1> QED
  BY <1>3, <1>8, <1>9, <1>10, <1>11 DEF Next, ChipDone, Restart, PowerCut, RunsOn, vars

\* The main thread keeps its types.
LEMMA MainTypes ==
  ASSUME IInv, Next
  PROVE  MainTypeOK'
<1>1. MainTypeOK /\ ChipTypeOK /\ EngineTypeOK
  BY DEF IInv, BootTypeOK
<1>2. 0 \in Sectors /\ UPDATER \in Sectors
  BY Constants
<1>3. Nothing \in [how : {"none", "updater", "fbm", "reset", "detach", "timer"},
                   from : {"none", "flash", "ram"}, kind : {"none", "riscv", "bitstream"},
                   config : Nat, img : AnyImage]
  BY DEF Nothing, AnyImage
<1>4. ASSUME UNCHANGED <<fixed, timer, started>>,
             pc' \in {"start", "spiInit", "updater", "fbm", "timeout", "loop", "erasing",
                      "wait_reset", "gone"}
      PROVE  MainTypeOK'
  BY <1>1, <1>4 DEF fixed, MainTypeOK
<1>5. pc \in {"start", "spiInit", "updater", "fbm", "timeout", "loop", "erasing", "wait_reset", "gone"}
  BY <1>1 DEF MainTypeOK
<1>6. CASE Start \/ BlockAccepted
  BY <1>4, <1>6 DEF Start, BlockAccepted
<1>7. ASSUME NEW pinch \in BOOLEAN, NervePinch(pinch) PROVE MainTypeOK'
  BY <1>4, <1>7 DEF NervePinch
<1>8. CASE dfu_poll \/ Shift
  BY <1>4, <1>5, <1>8 DEF dfu_poll, Shift
<1>9. CASE maybe_boot_updater
  <2>1. mem[UPDATER].img \in AnyImage
    BY <1>1, <1>2 DEF ChipTypeOK, Contents
  <2>2. \/ pc' = "gone" /\ started' = [how |-> "updater", from |-> "flash", kind |-> "riscv",
                                       config |-> 32, img |-> mem[UPDATER].img]
        \/ pc' = "fbm" /\ started' = started
    BY <1>9 DEF maybe_boot_updater, Jump
  <2> QED
    BY <1>1, <1>9, <2>1, <2>2 DEF maybe_boot_updater, fixed, MainTypeOK
<1>10. CASE maybe_boot_fbm
  <2>1. NoImage \in AnyImage
    BY DEF AnyImage
  <2>2. \/ pc' = "gone" /\ started' = [how |-> "fbm", from |-> "flash", kind |-> "riscv",
                                       config |-> 0, img |-> NoImage]
        \/ pc' = "timeout" /\ started' = started
    BY <1>10 DEF maybe_boot_fbm, Jump
  <2> QED
    BY <1>1, <1>10, <2>1, <2>2 DEF maybe_boot_fbm, fixed, MainTypeOK
<1>11. CASE init_timeout
  BY <1>1, <1>11 DEF init_timeout, fixed, MainTypeOK
<1>12. ASSUME NEW img \in Images, NEW num \in Laid[img].blocks, Block(num, img) PROVE MainTypeOK'
  BY <1>4, <1>5, <1>12 DEF Block
<1>13. CASE DnloadEnd \/ ClrStatus \/ Abort \/ GetStatus
  <2>1. UNCHANGED <<fixed, timer, started>> /\ (pc' = pc \/ pc' \in {"wait_reset", "loop"})
    BY <1>13 DEF DnloadEnd, ClrStatus, Abort, GetStatus, Set
  <2> QED
    BY <1>4, <1>5, <2>1
<1>14. ASSUME NEW how \in {"timer", "detach", "reset"}, reboot(how),
              pc \in {"loop", "erasing", "wait_reset"}, dfu_state = "dfuIDLE" \/ tx = <<>>
       PROVE  MainTypeOK'
  <2> DEFINE origin == IF ram_mode # 0 THEN ram[0] ELSE mem[0]
  <2>1. origin \in Contents /\ origin.img \in AnyImage
    BY <1>1, <1>2 DEF ChipTypeOK, EngineTypeOK, Contents
  <2>2. pc' = "gone" /\ timer' = "off" /\ UNCHANGED fixed
    BY <1>14, RebootsAreClean
  <2>3. PICK head \in Seen(origin, TRUE) \cup {<<>>} :
          started' = [how |-> how, from |-> IF ram_mode # 0 THEN "ram" ELSE "flash",
                      kind |-> Scan(head).kind, config |-> Scan(head).config, img |-> origin.img]
    BY <1>14, RebootsAreClean
  <2> HIDE DEF origin
  <2>4. Scan(head).kind \in {"riscv", "bitstream"} /\ Scan(head).config \in Nat
    BY <2>1, ScanTypes
  <2> QED
    BY <1>1, <2>1, <2>2, <2>3, <2>4 DEF fixed, MainTypeOK
<1>15. ASSUME NEW pinch \in BOOLEAN, TimerIsr(pinch) PROVE MainTypeOK'
  <2>1. CASE timer' = "off" /\ UNCHANGED <<pc, fixed, started>>
    BY <1>1, <2>1 DEF fixed, MainTypeOK
  <2> QED
    BY <1>14, <1>15, <2>1, WhoReboots
<1>16. CASE ChipDone \/ RunsOn
  BY <1>4, <1>5, <1>16 DEF ChipDone, RunsOn, vars
<1>17. CASE FreshRam
  BY <1>1, <1>3, <1>17 DEF FreshRam, fixed, MainTypeOK
<1> QED
  BY <1>6, <1>7, <1>8, <1>9, <1>10, <1>11, <1>12, <1>13, <1>14, <1>15, <1>16, <1>17, WhoReboots
  DEF Next, Foboot, Host, Restart, PowerCut

\* The histories and the bounds keep their types.
LEMMA HistoryTypes ==
  ASSUME IInv, Next
  PROVE  HistoryTypeOK'
<1>1. /\ HistoryTypeOK /\ MaxBlocks \in Nat /\ MaxCuts \in Nat /\ MaxLives \in Nat
      /\ lives \in Nat /\ cuts \in Nat /\ blocks \in Nat
  BY Constants DEF IInv, BootTypeOK, HistoryTypeOK
<1>2. NotSent \in [img : AnyImage, blocks : SUBSET Sectors] /\ NoImage \in AnyImage
  BY DEF NotSent, AnyImage
<1>3. ASSUME UNCHANGED <<history, bounds>> PROVE HistoryTypeOK'
  BY <1>1, <1>3 DEF history, bounds, HistoryTypeOK
<1>4. ASSUME NEW img \in Images, NEW num \in Laid[img].blocks, Block(num, img) PROVE HistoryTypeOK'
  <2>1. num \in Sectors /\ 0 \in Sectors /\ img \in AnyImage
    BY <1>4, Layouts, Constants DEF AnyImage
  <2>2. sent' \in {sent, NotSent, SentWith(num, img)}
    BY <1>4 DEF Block
  <2>3. SentWith(num, img) \in [img : AnyImage, blocks : SUBSET Sectors]
    BY <1>1, <2>1 DEF SentWith, HistoryTypeOK
  <2>4. sent' \in [img : AnyImage, blocks : SUBSET Sectors]
    BY <1>1, <1>2, <2>2, <2>3 DEF HistoryTypeOK
  <2>5. /\ installed' \in {installed, NoImage} /\ loaded' \in {loaded, NoImage} /\ quiet' = FALSE
        /\ UNCHANGED <<lives, cuts>>
    BY <1>4 DEF Block
  <2>6. blocks' = blocks \/ (blocks < MaxBlocks /\ blocks' = blocks + 1)
    BY <1>4 DEF Block
  <2>7. blocks' \in 0 .. MaxBlocks
    BY <1>1, <2>6 DEF HistoryTypeOK
  <2> QED
    BY <1>1, <1>2, <2>4, <2>5, <2>7 DEF HistoryTypeOK
<1>5. CASE DnloadEnd
  <2>1. \A place : Complete(place) \in AnyImage
    BY <1>1, <1>2 DEF Complete, HistoryTypeOK
  <2>2. /\ sent' \in {sent, NotSent} /\ quiet' = FALSE /\ UNCHANGED bounds
        /\ installed' \in {installed, Complete("flash")} /\ loaded' \in {loaded, Complete("ram")}
    BY <1>5 DEF DnloadEnd, Set
  <2> QED
    BY <1>1, <1>2, <2>1, <2>2 DEF bounds, HistoryTypeOK
<1>6. CASE ClrStatus
  BY <1>1, <1>6 DEF ClrStatus, Set, bounds, HistoryTypeOK
<1>7. CASE GetStatus \/ Abort
  BY <1>3, <1>7 DEF GetStatus, Abort, Set
<1>8. ASSUME NEW how, reboot(how) PROVE HistoryTypeOK'
  BY <1>3, <1>8 DEF reboot
<1>9. ASSUME NEW pinch \in BOOLEAN, TimerIsr(pinch) PROVE HistoryTypeOK'
  <2>1. CASE quiet' = FALSE /\ UNCHANGED <<sent, installed, loaded, bounds>>
    BY <1>1, <2>1 DEF bounds, HistoryTypeOK
  <2> QED
    BY <1>8, <1>9, <2>1 DEF TimerIsr
<1>10. CASE Restart
  <2>1. sent' = NotSent /\ loaded' = NoImage /\ quiet' = TRUE /\ UNCHANGED blocks
    BY <1>10 DEF Restart, FreshRam
  <2>2. installed' \in {installed, NoImage} /\ cuts' = cuts /\ lives < MaxLives /\ lives' = lives + 1
    BY <1>10 DEF Restart, FreshRam
  <2>3. lives' \in 1 .. MaxLives
    BY <1>1, <2>2 DEF HistoryTypeOK
  <2> QED
    BY <1>1, <1>2, <2>1, <2>2, <2>3 DEF HistoryTypeOK
<1>11. CASE PowerCut
  <2>1. sent' = NotSent /\ loaded' = NoImage /\ quiet' = TRUE /\ UNCHANGED blocks
    BY <1>11 DEF PowerCut, FreshRam
  <2>2. /\ installed' = installed /\ lives < MaxLives /\ lives' = lives + 1
        /\ cuts < MaxCuts /\ cuts' = cuts + 1
    BY <1>11 DEF PowerCut, FreshRam
  <2>3. lives' \in 1 .. MaxLives /\ cuts' \in 0 .. MaxCuts
    BY <1>1, <2>2 DEF HistoryTypeOK
  <2> QED
    BY <1>1, <1>2, <2>1, <2>2, <2>3 DEF HistoryTypeOK
<1>12. CASE Foboot
  BY <1>3, <1>12
  DEF Foboot, Start, NervePinch, maybe_boot_updater, maybe_boot_fbm, init_timeout, BlockAccepted,
      dfu_poll, Shift
<1>13. CASE ChipDone \/ RunsOn
  BY <1>3, <1>13 DEF ChipDone, RunsOn, vars
<1> QED
  BY <1>4, <1>5, <1>6, <1>7, <1>8, <1>9, <1>10, <1>11, <1>12, <1>13
  DEF Next, Host, Detach, Reset

\* The types hold in every step.
LEMMA TypesKept ==
  ASSUME IInv, Next
  PROVE  BootTypeOK'
BY ChipTypes, EngineTypes, MainTypes, HistoryTypes DEF BootTypeOK

-----------------------------------------------------------------------------
(* The main thread. *)

\* What the requests that only set dfu_state make of it.
LEMMA StatesSet ==
  ASSUME pc = "loop"
  PROVE  /\ DnloadEnd => dfu_state' \in {"dfuMANIFEST_SYNC", "dfuERROR"} /\ pc' = "loop"
         /\ ClrStatus \/ Abort => dfu_state' \in {"dfuIDLE", "dfuERROR"} /\ pc' = "loop"
         /\ GetStatus =>
              /\ dfu_state' = "dfuMANIFEST_WAIT_RESET" <=> pc' = "wait_reset"
              /\ pc' \in {"loop", "wait_reset"}
              /\ Polled => dfu_state' = IF fl_state = "flsIDLE" THEN "dfuDNLOAD_IDLE" ELSE "dfuDNBUSY"
              /\ ~Polled => dfu_state' \notin {"dfuDNLOAD_SYNC", "dfuDNBUSY"}
<1>1. DnloadEnd => dfu_state' \in {"dfuMANIFEST_SYNC", "dfuERROR"} /\ pc' = "loop"
  BY DEF DnloadEnd, Set
<1>2. ClrStatus \/ Abort => dfu_state' \in {"dfuIDLE", "dfuERROR"} /\ pc' = "loop"
  BY DEF ClrStatus, Abort, Set
<1>3. ASSUME GetStatus
      PROVE  /\ dfu_state' = "dfuMANIFEST_WAIT_RESET" <=> pc' = "wait_reset"
             /\ pc' \in {"loop", "wait_reset"}
             /\ Polled => dfu_state' = IF fl_state = "flsIDLE" THEN "dfuDNLOAD_IDLE" ELSE "dfuDNBUSY"
             /\ ~Polled => dfu_state' \notin {"dfuDNLOAD_SYNC", "dfuDNBUSY"}
  <2>1. pc' = IF dfu_state' = "dfuMANIFEST_WAIT_RESET" THEN "wait_reset" ELSE "loop"
    BY <1>3 DEF GetStatus
  <2>2. CASE Polled
    <3>1. dfu_state' = IF fl_state = "flsIDLE" THEN "dfuDNLOAD_IDLE" ELSE "dfuDNBUSY"
      BY <1>3, <2>2 DEF GetStatus, Set, Polled
    <3> QED
      BY <2>1, <2>2, <3>1
  <2>3. CASE ~Polled
    <3>1. dfu_state' \in {"dfuMANIFEST", "dfuMANIFEST_WAIT_RESET", dfu_state}
      BY <1>3, <2>3 DEF GetStatus, Set, Polled
    <3> QED
      BY <2>1, <2>3, <3>1 DEF Polled
  <2> QED
    BY <2>2, <2>3
<1> QED
  BY <1>1, <1>2, <1>3

\* The main thread and the states agree after every step.
LEMMA ControlKept ==
  ASSUME IInv, Next
  PROVE  ControlAgrees'
<1>1. ControlAgrees /\ pc \in {"start", "spiInit", "updater", "fbm", "timeout", "loop", "erasing",
                               "wait_reset", "gone"}
  BY DEF IInv, BootTypeOK, MainTypeOK
<1> USE DEF ControlAgrees, Early
<1>2. CASE Start
  BY <1>1, <1>2 DEF Start, dfuVars, history
<1>3. ASSUME NEW pinch \in BOOLEAN, NervePinch(pinch) PROVE ControlAgrees'
  BY <1>1, <1>3 DEF NervePinch, dfuVars, history
<1>4. CASE maybe_boot_updater
  BY <1>1, <1>4 DEF maybe_boot_updater, Jump, dfuVars, history
<1>5. CASE maybe_boot_fbm
  BY <1>1, <1>5 DEF maybe_boot_fbm, Jump, dfuVars, history
<1>6. CASE init_timeout
  BY <1>1, <1>6 DEF init_timeout, dfuVars, history
<1>7. CASE BlockAccepted
  BY <1>1, <1>7 DEF BlockAccepted
<1>8. CASE dfu_poll
  BY <1>1, <1>8 DEF dfu_poll
<1>9. CASE Shift
  BY <1>1, <1>9 DEF Shift, dfuVars, history
<1>10. ASSUME NEW img \in Images, NEW num \in Laid[img].blocks, Block(num, img) PROVE ControlAgrees'
  BY <1>1, <1>10 DEF Block, WrongState
<1>11. ASSUME NEW state, Set(state), DnloadEnd \/ GetStatus \/ ClrStatus \/ Abort PROVE ControlAgrees'
  <2>1. /\ pc = "loop" /\ started' = started /\ pc' \in {"loop", "wait_reset"}
        /\ pc' = "wait_reset" => dfu_state' = "dfuMANIFEST_WAIT_RESET"
    BY <1>11, StatesSet DEF Set
  <2> QED
    BY <1>1, <2>1
<1>12. ASSUME NEW how, reboot(how) PROVE ControlAgrees'
  BY <1>12 DEF reboot, Jump
<1>13. ASSUME NEW pinch \in BOOLEAN, TimerIsr(pinch) PROVE ControlAgrees'
  <2>1. CASE UNCHANGED <<pc, dfuVars, started, sent, loaded>>
    BY <1>1, <2>1 DEF dfuVars
  <2> QED
    BY <1>12, <1>13, <2>1 DEF TimerIsr
<1>14. CASE ChipDone
  BY <1>1, <1>14 DEF ChipDone, dfuVars, history
<1>15. CASE FreshRam
  BY <1>15 DEF FreshRam
<1>16. CASE RunsOn
  BY <1>1, <1>16 DEF RunsOn, vars, dfuVars, history
<1> QED
  BY <1>2, <1>3, <1>4, <1>5, <1>6, <1>7, <1>8, <1>9, <1>10, <1>11, <1>12, <1>13, <1>14, <1>15, <1>16
  DEF Next, Foboot, Host, Detach, Reset, DnloadEnd, GetStatus, ClrStatus, Abort, Restart, PowerCut

-----------------------------------------------------------------------------
(* The wires. *)

\* Where the main loop has something on the wires, it is a page or an erase.
LEMMA OnTheWires ==
  ASSUME IInv, Live, ram_mode = 0, tx # <<>>
  PROVE  \/ pc = "erasing" /\ Sending(Erase(current.num))
         \/ /\ pc = "loop" /\ Polled
            /\ \/ current.left = 1 /\ Sending(Write(current.num, current.img, "head"))
               \/ current.left = 0 /\ Sending(Write(current.num, current.img, "rest"))
BY DEF IInv, FlashSound, FlashStage, ErasedFirst, HeadNext, RestLast, Settled, UnderWay, Live

\* The wires carry what the main thread wants there, whatever comes between.
LEMMA WiresKept ==
  ASSUME IInv, Next
  PROVE  WiresAgree'
<1>1. /\ WiresAgree /\ ControlAgrees
      /\ pc \in {"start", "spiInit", "updater", "fbm", "timeout", "loop", "erasing", "wait_reset", "gone"}
      /\ mode \in {"spi", "qpi", "asleep"} /\ id_read \subseteq {"90", "9f"}
      /\ lives \in Nat /\ lives >= 1
  BY Constants DEF IInv, BootTypeOK, ChipTypeOK, MainTypeOK, HistoryTypeOK
<1> USE DEF WiresAgree, ControlAgrees, Early
<1>2. CASE Start
  <2>1. Waking'
    <3>1. tx' = spiReset \o spiId
      BY <1>2 DEF Start, spiInit
    <3>2. tx' = (spiReset \o spiId)'
      BY <3>1, InitSequence DEF spiReset, spiId
    <3> QED
      BY <3>2 DEF Waking
  <2> QED
    BY <1>1, <1>2, <2>1 DEF Start, spiInit, chipVars, busy, bounds
<1>3. ASSUME NEW pinch \in BOOLEAN, NervePinch(pinch) PROVE WiresAgree'
  <2>1. tx = <<>> /\ mode = "spi" /\ Answered({"90", "9f"})
    <3>1. Waking /\ tx = <<>>
      BY <1>1, <1>3 DEF NervePinch
    <3>2. spiReset \o spiId # <<>>
      BY InitSequence
    <3> QED
      BY <3>1, <3>2 DEF Waking
  <2>2. Answered({"90", "9f"})'
    BY <1>3, <2>1 DEF NervePinch, Answered, bounds
  <2> QED
    BY <1>1, <1>3, <2>1, <2>2 DEF NervePinch, chipVars, busy, bounds, Live
<1>4. CASE maybe_boot_updater
  BY <1>1, <1>4 DEF maybe_boot_updater, Jump, spiVars, chipVars, busy, bounds, Live
<1>5. CASE maybe_boot_fbm
  BY <1>1, <1>5 DEF maybe_boot_fbm, Jump, chipVars, busy, bounds, Live
<1>6. CASE init_timeout
  <2>1. tx' = <<>> /\ mode' = "spi" /\ op' = op /\ pc' = "loop"
    BY <1>1, <1>6 DEF init_timeout, chipVars, Live
  <2> QED
    BY <1>1, <2>1 DEF busy
<1>7. CASE BlockAccepted
  BY <1>1, <1>7 DEF BlockAccepted, spiVars, chipVars, busy
<1>8. CASE dfu_poll
  <2>1. pc = "loop" /\ pc' = "loop" /\ mode' = mode /\ op' = op
    BY <1>8 DEF dfu_poll, chipVars
  <2>2. Live' /\ Live /\ ram_mode' = ram_mode
    BY <1>8 DEF dfu_poll, Live, Polled
  <2>3. tx = <<>> /\ ram_mode # 0 => tx' = <<>>
    BY <1>8 DEF dfu_poll, WritePage
  <2> QED
    BY <1>1, <1>8, <2>1, <2>2, <2>3 DEF busy, dfu_poll
<1>9. CASE Shift
  <2>1. Transaction /\ UNCHANGED <<pc, dfuVars, bounds, bitbang>> /\ pc # "gone" /\ tx # <<>>
    BY <1>9 DEF Shift, Transaction
  <2>2. CASE pc = "spiInit"
    <3>1. Waking' /\ op' = op
      BY <1>1, <2>1, <2>2, Wakes DEF bounds
    <3>2. busy => mode' = "spi"
      BY <1>1, <2>1 DEF Transaction, Execute
    <3> QED
      BY <1>1, <2>1, <2>2, <3>1, <3>2 DEF busy, bounds
  <2>3. CASE pc # "spiInit"
    <3>1. Live /\ ram_mode = 0 /\ mode = "spi" /\ pc \in {"loop", "erasing"}
      BY <1>1, <2>1, <2>3 DEF Live
    <3>2. mode' = mode
      BY <3>1, <2>1 DEF Transaction, Execute
    <3>3. Live' /\ ram_mode' = 0
      BY <2>1, <3>1 DEF dfuVars, Live, Polled
    <3> QED
      BY <1>1, <2>1, <3>1, <3>2, <3>3
  <2> QED
    BY <2>2, <2>3
<1>10. ASSUME NEW img \in Images, NEW num \in Laid[img].blocks, Block(num, img) PROVE WiresAgree'
  <2>1. pc = "loop" /\ tx = <<>> /\ mode' = mode /\ op' = op /\ mode = "spi"
    BY <1>1, <1>10 DEF Block, chipVars
  <2>2. CASE dfu_state' = "dfuERROR" /\ UNCHANGED <<tx, pc>>
    BY <1>1, <2>1, <2>2 DEF busy
  <2>3. CASE pc' = "erasing" /\ (ram_mode' = 0 \/ tx' = <<>>)
    BY <1>1, <2>1, <2>3 DEF busy, Live
  <2> QED
    BY <1>10, <2>2, <2>3 DEF Block
<1>11. ASSUME NEW state, Set(state), DnloadEnd \/ GetStatus \/ ClrStatus \/ Abort PROVE WiresAgree'
  <2>1. pc = "loop" /\ tx' = <<>> /\ UNCHANGED <<op, mode>> /\ pc' \in {"loop", "wait_reset"}
    BY <1>11, StatesSet DEF Set, spiVars, chipVars
  <2> QED
    BY <1>1, <2>1 DEF busy
<1>12. ASSUME NEW how \in {"timer", "detach", "reset"}, reboot(how),
              pc \in {"loop", "erasing", "wait_reset"}, dfu_state = "dfuIDLE" \/ tx = <<>>
       PROVE  WiresAgree'
  <2>1. pc' = "gone" /\ tx' = <<>> /\ mode' = "spi"
    BY <1>12, RebootsAreClean
  <2> QED
    BY <2>1
<1>13. ASSUME NEW pinch \in BOOLEAN, TimerIsr(pinch) PROVE WiresAgree'
  <2>1. CASE UNCHANGED <<spiVars, pc, dfuVars, bounds>>
    BY <1>1, <2>1 DEF spiVars, chipVars, dfuVars, bounds, busy, Live, Polled, Waking, Answered
  <2> QED
    BY <1>12, <1>13, <2>1, WhoReboots
<1>14. CASE ChipDone
  <2>1. /\ busy /\ op' = Idle /\ UNCHANGED <<mode, bitbang, tx, id_read, pc, ram_mode, dfu_state, lives>>
    BY <1>14 DEF ChipDone, OpDone, dfuVars, bounds
  <2>2. ~busy'
    BY <2>1 DEF busy, Idle, Command, Blank, Content
  <2> QED
    BY <1>1, <2>1, <2>2 DEF Live, Polled, Waking, Answered
<1>15. CASE Restart
  <2>1. pc' = "start" /\ tx' = <<>> /\ op' = op /\ (busy => mode' = mode) /\ lives' = lives + 1
    BY <1>15 DEF Restart, FreshRam
  <2> QED
    BY <1>1, <2>1 DEF busy
<1>16. CASE PowerCut
  <2>1. pc' = "start" /\ tx' = <<>> /\ mode' = "spi" /\ lives' = lives + 1
    BY <1>16 DEF PowerCut, PowerLost, FreshRam
  <2> QED
    BY <1>1, <2>1
<1>17. CASE RunsOn
  BY <1>1, <1>17 DEF RunsOn, vars, spiVars, chipVars, busy, Live
<1> QED
  BY <1>2, <1>3, <1>4, <1>5, <1>6, <1>7, <1>8, <1>9, <1>10, <1>11, <1>12, <1>13, <1>14, <1>15, <1>16,
     <1>17, WhoReboots
  DEF Next, Foboot, Host, DnloadEnd, GetStatus, ClrStatus, Abort

-----------------------------------------------------------------------------
(* The flash. *)

\* What a sector holds tells apart what the invariant says of it.
LEMMA ContentsDiffer ==
  ASSUME NEW i, NEW j
  PROVE  /\ Content(i, "head") # Blank /\ Content(i, "whole") # Blank
         /\ Content(i, "head") # Content(j, "whole")
         /\ Blank.part = "none" /\ Content(i, "head").part = "head" /\ Content(i, "whole").part = "whole"
BY DEF Content, Blank

\* A chip with nothing to do is idle.
LEMMA IdleIsNotBusy ==
  /\ op' = Idle => ~busy'
  /\ op = Idle <=> ~busy
  /\ \A at : Erase(at) # Idle
  /\ \A at, img, page : Write(at, img, page) # Idle
  /\ Idle.name = "idle"
BY DEF busy, Idle, Erase, Write, Command

\* A block that is taken, for flash: the chip is idle, its erase comes next.
LEMMA BlockTaken ==
  ASSUME IInv, NEW img \in Images, NEW num \in Laid[img].blocks, Block(num, img)
  PROVE  \/ /\ ~Live' /\ pc' = pc /\ tx' = tx /\ dfu_state' = "dfuERROR"
            /\ sent' = IF ram_mode' # ram_mode THEN NotSent ELSE sent
            /\ UNCHANGED <<fl_state, current, installed>>
         \/ /\ Live' /\ pc' = "erasing" /\ fl_state' = "flsERASING"
            /\ current' = [num |-> num, img |-> img, left |-> 2]
            /\ tx' = IF ram_mode' = 0 THEN spiBeginErase4(num) ELSE <<>>
            /\ ram_mode' = 0 => ~busy
            /\ fl_state = "flsIDLE" /\ sent' = SentWith(num, img)
            /\ installed' = IF ram_mode' = 0 THEN NoImage ELSE installed
            /\ loaded' = IF ram_mode' = ram_mode /\ ram_mode = 0 THEN loaded ELSE NoImage
<1> DEFINE address == IF num = 0 THEN LoadAddress(Laid[img].head, FIRST_PACKET, ram_mode)
                      ELSE ram_mode
<1>1. ram_mode' = address
  BY DEF Block
<1> HIDE DEF address
<1>2. CASE ~WrongState /\ ~FlashNotReady(address)
  <2>1. /\ pc' = "erasing" /\ fl_state' = "flsERASING"
        /\ current' = [num |-> num, img |-> img, left |-> 2]
        /\ tx' = IF ram_mode' = 0 THEN spiBeginErase4(num) ELSE <<>>
        /\ sent' = SentWith(num, img)
        /\ installed' = IF ram_mode' = 0 THEN NoImage ELSE installed
        /\ loaded' = IF ram_mode' # ram_mode \/ ram_mode' # 0 THEN NoImage ELSE loaded
    BY <1>1, <1>2 DEF Block, address
  <2>2. (ram_mode' = 0 => ~busy) /\ fl_state = "flsIDLE"
    BY <1>1, <1>2 DEF FlashNotReady
  <2> QED
    BY <2>1, <2>2 DEF Live
<1>3. CASE ~(~WrongState /\ ~FlashNotReady(address))
  <2>1. /\ pc' = "loop" /\ pc' = pc /\ tx' = tx /\ dfu_state' = "dfuERROR"
        /\ sent' = IF ram_mode' # ram_mode THEN NotSent ELSE sent
        /\ UNCHANGED <<fl_state, current, installed>>
    BY <1>1, <1>3 DEF Block, address
  <2> QED
    BY <2>1 DEF Live, Polled
<1> QED
  BY <1>2, <1>3

\* What the chip stores is none of a page programmed twice, nor torn.
LEMMA CompletedParts ==
  ASSUME IInv, busy
  PROVE  /\ Completed.part \in {"none", "head", "whole"}
         /\ op.name = "erase" => Completed = Blank
         /\ op.name = "write" =>
              Completed = Content(op.data.img, IF op.data.part = "head" THEN "head" ELSE "whole")
<1>1. op \in Operations
  BY IdleIsNotBusy DEF IInv, BootTypeOK, ChipTypeOK
<1>2. CASE op.name = "erase"
  BY <1>2, ContentsDiffer DEF Completed
<1>3. CASE op.name = "write"
  <2>1. /\ op.data.part \in {"head", "rest"} /\ op.data \in [img : AnyImage, part : {"none", "head", "rest"}]
    BY <1>1, <1>3, AreOperations, TransactionParts, TransactionData
  <2>2. mem[op.at] = IF op.data.part = "head" THEN Blank ELSE Content(op.data.img, "head")
    BY <1>3 DEF IInv, FlashSound, ProgramsErased
  <2>3. op.data = Content(op.data.img, op.data.part)
    BY <2>1 DEF Content
  <2>4. CASE op.data.part = "head"
    <3>1. Completed = op.data
      BY <1>3, <2>2, <2>4 DEF Completed, Programmed
    <3> QED
      BY <1>3, <2>3, <2>4, <3>1
  <2>5. CASE op.data.part = "rest"
    <3>1. Completed = Content(op.data.img, "whole")
      BY <1>3, <2>2, <2>5 DEF Completed, Programmed
    <3> QED
      BY <1>3, <2>5, <3>1 DEF Content
  <2> QED
    BY <2>1, <2>4, <2>5
<1> QED
  BY <1>1, <1>2, <1>3, AreOperations

\* A block on its way to flash goes from stage to stage, whatever comes in
\* between: the page loop sends the next one only when the chip is idle.
LEMMA FlashStageKept ==
  ASSUME IInv, Next
  PROVE  FlashStage'
<1>1. /\ FlashStage /\ ControlAgrees /\ WiresAgree
      /\ mem \in [Sectors -> Contents] /\ current.num \in Sectors
      /\ current = [num |-> current.num, img |-> current.img, left |-> current.left]
  BY DEF IInv, BootTypeOK, ChipTypeOK, EngineTypeOK, FlashSound
<1>2. ASSUME ~Live' PROVE FlashStage'
  BY <1>2 DEF FlashStage
<1>3. ASSUME UNCHANGED <<mem, op, tx, wel, pc, fl_state, current, ram_mode>>, Live' => Live
      PROVE  FlashStage'
  BY <1>1, <1>3 DEF FlashStage, ErasedFirst, HeadNext, RestLast, UnderWay, Sending, Settled, busy
<1>4. CASE Start \/ (\E pinch \in BOOLEAN : NervePinch(pinch)) \/ maybe_boot_updater \/ maybe_boot_fbm
  <2>1. pc' \in {"spiInit", "timeout", "updater", "fbm", "gone"}
    BY <1>4 DEF Start, NervePinch, maybe_boot_updater, maybe_boot_fbm, Jump
  <2> QED
    BY <1>2, <2>1 DEF Live
<1>5. CASE init_timeout
  <2>1. dfu_state' = "dfuIDLE" /\ pc' = "loop"
    BY <1>1, <1>5 DEF init_timeout, dfuVars, ControlAgrees, Early
  <2> QED
    BY <1>2, <2>1 DEF Live, Polled
<1>6. CASE BlockAccepted
  <2>1. /\ Live /\ tx = <<>> /\ pc = "erasing" /\ pc' = "loop"
        /\ UNCHANGED <<mem, op, tx, wel, fl_state, current, ram_mode>>
    BY <1>6 DEF BlockAccepted, spiVars, chipVars, Live
  <2> QED
    BY <1>1, <2>1 DEF FlashStage, ErasedFirst, UnderWay, Sending, Settled, busy
<1>7. CASE dfu_poll
  <2>1. /\ pc = "loop" /\ tx = <<>> /\ Live /\ ~busy /\ ~busy' /\ UNCHANGED <<mem, op, wel, pc, ram_mode>>
    BY <1>7 DEF dfu_poll, ChipReady, Live, busy, chipVars
  <2>2. CASE ram_mode # 0
    BY <2>1, <2>2 DEF FlashStage
  <2>3. CASE ram_mode = 0
    <3>1. \A c : ~UnderWay(c) \/ c = Idle
      BY <2>1, OneAfterAnother, IdleIsNotBusy DEF UnderWay, Sending
    <3>2. CASE fl_state = "flsERASING"
      <4>1. mem[current.num] = Blank /\ current.left = 2
        BY <1>1, <2>1, <2>3, <3>1, <3>2, IdleIsNotBusy DEF FlashStage, ErasedFirst, Settled
      <4>2. fl_state' = "flsPROGRAMMING" /\ WritePage
        BY <1>7, <3>2 DEF dfu_poll
      <4>3. /\ current'.num = current.num /\ current'.img = current.img /\ current'.left = 1
            /\ tx' = <<Command("wren"), Write(current.num, current.img, "head")>>
        BY <1>1, <2>3, <4>1, <4>2 DEF WritePage, Page, spiBeginWrite
      <4>4. HeadNext'
        BY <2>1, <4>1, <4>3 DEF HeadNext, UnderWay, Sending
      <4> QED
        BY <2>1, <4>2, <4>3, <4>4 DEF FlashStage
    <3>3. CASE fl_state = "flsPROGRAMMING" /\ MorePages
      <4>1. current.left = 1 /\ mem[current.num] = Content(current.img, "head")
        BY <1>1, <2>1, <2>3, <3>1, <3>3, IdleIsNotBusy DEF FlashStage, HeadNext, Settled, MorePages
      <4>2. fl_state' = "flsPROGRAMMING" /\ WritePage
        BY <1>7, <3>3 DEF dfu_poll
      <4>3. /\ current'.num = current.num /\ current'.img = current.img /\ current'.left = 0
            /\ tx' = <<Command("wren"), Write(current.num, current.img, "rest")>>
        BY <1>1, <2>3, <4>1, <4>2 DEF WritePage, Page, spiBeginWrite
      <4>4. RestLast'
        BY <2>1, <4>1, <4>3 DEF RestLast, UnderWay, Sending
      <4> QED
        BY <2>1, <4>2, <4>3, <4>4 DEF FlashStage
    <3>4. CASE fl_state = "flsPROGRAMMING" /\ ~MorePages
      <4>1. mem[current.num] = Content(current.img, "whole")
        BY <1>1, <2>1, <2>3, <3>1, <3>4, IdleIsNotBusy DEF FlashStage, RestLast, Settled, MorePages
      <4>2. fl_state' = "flsIDLE" /\ UNCHANGED <<tx, current>>
        BY <1>7, <3>4 DEF dfu_poll
      <4> QED
        BY <2>1, <4>1, <4>2 DEF FlashStage, Settled
    <3> QED
      BY <1>7, <3>2, <3>3, <3>4 DEF dfu_poll
  <2> QED
    BY <2>2, <2>3
<1>8. CASE Shift
  <2>1. Transaction /\ tx # <<>> /\ UNCHANGED <<pc, dfuVars>> /\ pc # "gone"
    BY <1>8 DEF Shift, Transaction
  <2>2. CASE pc = "spiInit"
    BY <1>2, <2>1, <2>2 DEF Live
  <2>3. CASE pc # "spiInit"
    <3>1. Live /\ ram_mode = 0 /\ mode = "spi"
      BY <1>1, <2>1, <2>3 DEF WiresAgree, Live
    <3>2. UNCHANGED <<pc, dfu_state, fl_state, current, ram_mode>> /\ Live'
      BY <2>1, <3>1 DEF dfuVars, Live, Polled
    <3>3. ASSUME NEW c, c.name \in {"erase", "write"}, Sending(c)
          PROVE  /\ mem' = mem
                 /\ (~busy' /\ tx' = <<c>> /\ wel') \/ (tx' = <<>> /\ op' = c)
      <4>1. /\ mem' = mem
            /\ (tx' = <<c>> /\ wel' /\ op' = op) \/ (tx' = <<>> /\ op' = c)
        BY <2>1, <3>1, <3>3, Sends
      <4>2. op' = op => ~busy'
        BY <3>3 DEF Sending, busy
      <4> QED
        BY <4>1, <4>2
    <3>4. CASE pc = "erasing" /\ Sending(Erase(current.num))
      <4>1. (~busy' /\ tx' = <<Erase(current.num)>> /\ wel') \/ (tx' = <<>> /\ op' = Erase(current.num))
        BY <3>3, <3>4 DEF Erase
      <4>2. ErasedFirst'
        BY <3>2, <4>1 DEF ErasedFirst, UnderWay, Sending
      <4> QED
        BY <1>1, <3>1, <3>2, <3>4, <4>2 DEF FlashStage
    <3>5. ASSUME NEW page \in {"head", "rest"}, Sending(Write(current.num, current.img, page))
          PROVE  mem' = mem /\ UnderWay(Write(current.num, current.img, page))'
      <4>1. /\ mem' = mem
            /\ \/ ~busy' /\ tx' = <<Write(current.num, current.img, page)>> /\ wel'
               \/ tx' = <<>> /\ op' = Write(current.num, current.img, page)
        BY <3>3, <3>5 DEF Write
      <4> QED
        BY <3>2, <4>1 DEF UnderWay, Sending
    <3>6. CASE pc = "loop" /\ current.left = 1 /\ Sending(Write(current.num, current.img, "head"))
      <4>1. HeadNext /\ fl_state = "flsPROGRAMMING" /\ mem[current.num] = Blank
        BY <1>1, <2>1, <3>1, <3>6 DEF FlashStage, HeadNext, Settled
      <4>2. HeadNext'
        BY <3>2, <3>5, <3>6, <4>1 DEF HeadNext
      <4> QED
        BY <3>2, <3>6, <4>1, <4>2 DEF FlashStage
    <3>7. CASE pc = "loop" /\ current.left = 0 /\ Sending(Write(current.num, current.img, "rest"))
      <4>1. fl_state = "flsPROGRAMMING" /\ mem[current.num] = Content(current.img, "head")
        BY <1>1, <2>1, <3>1, <3>7 DEF FlashStage, RestLast, Settled
      <4>2. RestLast'
        BY <3>2, <3>5, <3>7, <4>1 DEF RestLast
      <4> QED
        BY <3>2, <3>7, <4>1, <4>2 DEF FlashStage
    <3> QED
      BY <2>1, <3>1, <3>4, <3>6, <3>7, OnTheWires
  <2> QED
    BY <2>2, <2>3
<1>9. ASSUME NEW img \in Images, NEW num \in Laid[img].blocks, Block(num, img) PROVE FlashStage'
  <2>1. op' = op
    BY <1>9 DEF Block, chipVars
  <2>2. CASE Live' /\ ram_mode' = 0
    <3>1. /\ pc' = "erasing" /\ fl_state' = "flsERASING" /\ current'.num = num /\ current'.left = 2
          /\ tx' = <<Command("wren"), Erase(num)>> /\ ~busy'
      BY <1>9, <2>1, <2>2, BlockTaken DEF spiBeginErase4, busy
    <3>2. ErasedFirst'
      BY <3>1 DEF ErasedFirst, UnderWay, Sending
    <3> QED
      BY <3>1, <3>2 DEF FlashStage
  <2> QED
    BY <2>2 DEF FlashStage
<1>10. ASSUME NEW state, Set(state), DnloadEnd \/ GetStatus \/ ClrStatus \/ Abort PROVE FlashStage'
  <2>1. UNCHANGED <<mem, op, tx, wel, fl_state, current, ram_mode>> /\ pc = "loop"
    BY <1>10 DEF Set, spiVars, chipVars
  <2>2. Live' => Live /\ pc' = pc
    BY <1>10, <2>1, StatesSet DEF Live, Polled
  <2> QED
    BY <1>2, <1>3, <2>1, <2>2
<1>11. ASSUME NEW how, reboot(how) PROVE FlashStage'
  BY <1>2, <1>11 DEF reboot, Jump, Live
<1>12. ASSUME NEW pinch \in BOOLEAN, TimerIsr(pinch) PROVE FlashStage'
  <2>1. CASE UNCHANGED <<spiVars, pc, dfuVars>>
    BY <1>3, <2>1 DEF spiVars, chipVars, dfuVars, Live, Polled
  <2> QED
    BY <1>11, <1>12, <2>1 DEF TimerIsr
<1>13. CASE ChipDone
  <2>1. /\ busy /\ ~busy' /\ mem' = [mem EXCEPT ![op.at] = Completed]
        /\ UNCHANGED <<tx, pc, fl_state, current, ram_mode, dfu_state>>
    BY <1>13, IdleIsNotBusy DEF ChipDone, OpDone, dfuVars
  <2>2. Live' => Live
    BY <2>1 DEF Live, Polled
  <2>3. ASSUME NEW c, UnderWay(c) PROVE tx = <<>> /\ op = c
    BY <2>1, <2>3 DEF UnderWay, Sending
  <2>4. \A x : ~Settled(x)
    BY <2>1 DEF Settled
  <2>5. CASE Live /\ ram_mode = 0 /\ fl_state = "flsERASING"
    <3>1. tx = <<>> /\ op = Erase(current.num) /\ current.left = 2
      BY <1>1, <2>3, <2>4, <2>5 DEF FlashStage, ErasedFirst
    <3>2. op.name = "erase" /\ op.at = current.num
      BY <3>1 DEF Erase
    <3>3. mem'[current.num] = Blank
      BY <1>1, <2>1, <3>2, CompletedParts
    <3>4. ErasedFirst'
      BY <2>1, <3>1, <3>3 DEF ErasedFirst, Settled
    <3> QED
      BY <2>1, <2>5, <3>1, <3>4 DEF FlashStage
  <2>6. CASE Live /\ ram_mode = 0 /\ fl_state # "flsERASING"
    <3>1. pc = "loop" /\ fl_state = "flsPROGRAMMING" /\ tx = <<>>
          /\ \/ current.left = 1 /\ op = Write(current.num, current.img, "head")
             \/ current.left = 0 /\ op = Write(current.num, current.img, "rest")
      BY <1>1, <2>3, <2>4, <2>6 DEF FlashStage, HeadNext, RestLast
    <3>2. op.name = "write" /\ op.at = current.num /\ op.data.img = current.img
          /\ op.data.part = IF current.left = 1 THEN "head" ELSE "rest"
      BY <3>1 DEF Write, Content
    <3>3. mem'[current.num] = Content(current.img, IF current.left = 1 THEN "head" ELSE "whole")
      BY <1>1, <2>1, <3>2, CompletedParts
    <3>4. CASE current.left = 1
      BY <2>1, <3>1, <3>3, <3>4 DEF FlashStage, HeadNext, Settled
    <3>5. CASE current.left = 0
      BY <2>1, <3>1, <3>3, <3>5 DEF FlashStage, RestLast, Settled
    <3> QED
      BY <3>1, <3>4, <3>5
  <2> QED
    BY <2>1, <2>2, <2>5, <2>6 DEF FlashStage
<1>14. CASE FreshRam
  BY <1>2, <1>14 DEF FreshRam, Live
<1>15. CASE RunsOn
  BY <1>2, <1>15 DEF RunsOn, vars, Live
<1> QED
  BY <1>4, <1>5, <1>6, <1>7, <1>8, <1>9, <1>10, <1>11, <1>12, <1>13, <1>14, <1>15
  DEF Next, Foboot, Host, Detach, Reset, DnloadEnd, GetStatus, ClrStatus, Abort, Restart, PowerCut

\* The flash changes when the chip finishes, by a power cut, and when Booster
\* erases itself.
LEMMA MemChanges ==
  ASSUME IInv, Next
  PROVE  \/ mem' = mem
         \/ ChipDone /\ busy /\ op' = Idle /\ mem' = [mem EXCEPT ![op.at] = Completed]
         \/ PowerCut /\ busy /\ op' = Idle /\ mem' = [mem EXCEPT ![op.at] = Completed]
         \/ PowerCut /\ busy /\ op' = Idle /\ mem' = [mem EXCEPT ![op.at] = TornBy(op)]
         \/ /\ Restart /\ started.how = "updater" /\ op' = op
            /\ mem' = [mem EXCEPT ![UPDATER] = Blank] /\ installed' = NoImage
<1>1. CASE UNCHANGED mem
  BY <1>1
<1>2. CASE Foboot
  BY <1>2
  DEF Foboot, Start, NervePinch, maybe_boot_updater, maybe_boot_fbm, init_timeout, BlockAccepted,
      dfu_poll, Shift, Transaction, Execute, spiInit, spiVars, chipVars
<1>3. ASSUME NEW img \in Images, NEW num \in Laid[img].blocks, Block(num, img) PROVE mem' = mem
  BY <1>3 DEF Block, chipVars
<1>4. ASSUME NEW state, Set(state) PROVE mem' = mem
  BY <1>4 DEF Set, spiVars, chipVars
<1>5. ASSUME NEW how \in {"timer", "detach", "reset"}, reboot(how),
             pc \in {"loop", "erasing", "wait_reset"}, dfu_state = "dfuIDLE" \/ tx = <<>>
      PROVE  mem' = mem
  BY <1>5, RebootsAreClean
<1>6. ASSUME NEW pinch \in BOOLEAN, TimerIsr(pinch) PROVE mem' = mem
  BY <1>5, <1>6, WhoReboots DEF spiVars, chipVars
<1>7. CASE Detach \/ Reset
  BY <1>5, <1>7, WhoReboots
<1>8. CASE ChipDone
  BY <1>8 DEF ChipDone, OpDone
<1>9. CASE Restart
  BY <1>9 DEF Restart
<1>10. CASE PowerCut
  BY <1>10 DEF PowerCut, PowerLost
<1>11. CASE RunsOn
  BY <1>11 DEF RunsOn, vars, spiVars, chipVars
<1> QED
  BY <1>1, <1>2, <1>3, <1>4, <1>6, <1>7, <1>8, <1>9, <1>10, <1>11
  DEF Next, Host, DnloadEnd, GetStatus, ClrStatus, Abort

\* The chip begins what the block on its way asks for, and no other operation.
LEMMA OpChanges ==
  ASSUME IInv, Next
  PROVE  \/ op' = op
         \/ op' = Idle
         \/ /\ ~busy /\ mem' = mem /\ Live /\ ram_mode = 0 /\ fl_state # "flsIDLE"
            /\ UNCHANGED <<ram_mode, fl_state, current, sent, installed>>
            /\ \/ op' = Erase(current.num)
               \/ op' = Write(current.num, current.img, "head") /\ mem[current.num] = Blank
               \/ /\ op' = Write(current.num, current.img, "rest")
                  /\ mem[current.num] = Content(current.img, "head")
<1>1. CASE UNCHANGED op
  BY <1>1
<1>2. CASE Foboot /\ ~Shift
  BY <1>2
  DEF Foboot, Start, NervePinch, maybe_boot_updater, maybe_boot_fbm, init_timeout, BlockAccepted,
      dfu_poll, spiInit, spiVars, chipVars
<1>3. CASE Shift
  <2>1. Transaction /\ tx # <<>> /\ pc # "gone"
        /\ UNCHANGED <<fl_state, current, ram_mode, sent, installed>>
    BY <1>3 DEF Shift, Transaction, dfuVars, history
  <2>2. CASE pc = "spiInit"
    BY <1>3, <2>1, <2>2, Wakes DEF IInv, BootTypeOK, ChipTypeOK, WiresAgree, Early, Shift, bounds
  <2>3. CASE pc # "spiInit"
    <3>1. Live /\ ram_mode = 0 /\ mode = "spi"
      BY <2>1, <2>3 DEF IInv, WiresAgree, Live
    <3>2. ASSUME NEW c, c.name \in {"erase", "write"}, Sending(c)
          PROVE  ~busy /\ mem' = mem /\ (op' = op \/ op' = c)
      BY <2>1, <3>1, <3>2, Sends DEF Sending
    <3>3. CASE pc = "erasing" /\ Sending(Erase(current.num))
      <4>1. Erase(current.num).name = "erase"
        BY DEF Erase
      <4>2. fl_state # "flsIDLE"
        BY <3>3 DEF IInv, ControlAgrees
      <4> QED
        BY <2>1, <3>1, <3>2, <3>3, <4>1, <4>2
    <3>4. CASE pc = "loop" /\ current.left = 1 /\ Sending(Write(current.num, current.img, "head"))
      <4>1. Write(current.num, current.img, "head").name = "write"
        BY DEF Write
      <4>2. fl_state # "flsIDLE" /\ mem[current.num] = Blank
        BY <2>1, <3>1, <3>4 DEF IInv, FlashSound, FlashStage, HeadNext, Settled
      <4> QED
        BY <2>1, <3>1, <3>2, <3>4, <4>1, <4>2
    <3>5. CASE pc = "loop" /\ current.left = 0 /\ Sending(Write(current.num, current.img, "rest"))
      <4>1. Write(current.num, current.img, "rest").name = "write"
        BY DEF Write
      <4>2. fl_state # "flsIDLE" /\ mem[current.num] = Content(current.img, "head")
        BY <2>1, <3>1, <3>5 DEF IInv, FlashSound, FlashStage, RestLast, Settled
      <4> QED
        BY <2>1, <3>1, <3>2, <3>5, <4>1, <4>2
    <3> QED
      BY <2>1, <3>1, <3>3, <3>4, <3>5, OnTheWires
  <2> QED
    BY <2>2, <2>3
<1>4. ASSUME NEW img \in Images, NEW num \in Laid[img].blocks, Block(num, img) PROVE op' = op
  BY <1>4 DEF Block, chipVars
<1>5. ASSUME NEW state, Set(state) PROVE op' = op
  BY <1>5 DEF Set, spiVars, chipVars
<1>6. ASSUME NEW how \in {"timer", "detach", "reset"}, reboot(how),
             pc \in {"loop", "erasing", "wait_reset"}, dfu_state = "dfuIDLE" \/ tx = <<>>, op' # op
      PROVE  /\ ~busy /\ mem' = mem /\ Live /\ ram_mode = 0 /\ fl_state # "flsIDLE"
             /\ UNCHANGED <<ram_mode, fl_state, current, sent, installed>>
             /\ op' = Erase(current.num)
  <2>1. /\ op' = Erase(current.num) /\ mem' = mem /\ pc = "erasing" /\ ram_mode = 0
        /\ UNCHANGED <<dfuVars, history>>
    BY <1>6, RebootsAreClean
  <2>2. Live /\ fl_state # "flsIDLE"
    BY <2>1 DEF IInv, ControlAgrees, Live
  <2>3. ~busy
    <3>1. ErasedFirst
      BY <2>1, <2>2 DEF IInv, FlashSound, FlashStage
    <3> QED
      BY <1>6, <2>1, <3>1 DEF ErasedFirst, UnderWay, Sending, Settled
  <2> QED
    BY <2>1, <2>2, <2>3 DEF dfuVars, history
<1>7. ASSUME NEW pinch \in BOOLEAN, TimerIsr(pinch), op' # op
      PROVE  reboot("timer") /\ pc \in {"loop", "erasing", "wait_reset"} /\ dfu_state = "dfuIDLE"
  BY <1>7, WhoReboots DEF spiVars, chipVars
<1>8. CASE Detach \/ Reset
  BY <1>6, <1>8, WhoReboots
<1>9. CASE ChipDone \/ PowerCut
  BY <1>9 DEF ChipDone, OpDone, PowerCut, PowerLost
<1>10. CASE Restart \/ RunsOn
  BY <1>10 DEF Restart, RunsOn, vars, spiVars, chipVars
<1> QED
  BY <1>1, <1>2, <1>3, <1>4, <1>5, <1>6, <1>7, <1>8, <1>9, <1>10
  DEF Next, Host, DnloadEnd, GetStatus, ClrStatus, Abort

\* A block on its way to RAM is written page by page.
LEMMA RamStageKept ==
  ASSUME IInv, Next
  PROVE  RamStage'
<1>1. /\ RamStage /\ ram \in [Sectors -> Contents] /\ current.num \in Sectors
      /\ current = [num |-> current.num, img |-> current.img, left |-> current.left]
      /\ current.left \in 0 .. 2
  BY DEF IInv, BootTypeOK, EngineTypeOK, FlashSound
<1>2. ASSUME ~Live' PROVE RamStage'
  BY <1>2 DEF RamStage
<1>3. ASSUME UNCHANGED <<fl_state, current, ram_mode, ram>>, Live' => Live PROVE RamStage'
  BY <1>1, <1>3 DEF RamStage
<1>4. CASE Foboot /\ ~dfu_poll
  <2>1. CASE BlockAccepted \/ Shift
    BY <1>3, <2>1 DEF BlockAccepted, Shift, dfuVars, spiVars, Live, Polled
  <2>2. CASE init_timeout
    <3>1. dfu_state' = "dfuIDLE" /\ pc' = "loop"
      BY <2>2 DEF init_timeout, dfuVars, IInv, ControlAgrees, Early
    <3> QED
      BY <1>2, <3>1 DEF Live, Polled
  <2>3. CASE Start \/ (\E pinch \in BOOLEAN : NervePinch(pinch)) \/ maybe_boot_updater \/ maybe_boot_fbm
    <3>1. pc' \in {"spiInit", "timeout", "updater", "fbm", "gone"}
      BY <2>3 DEF Start, NervePinch, maybe_boot_updater, maybe_boot_fbm, Jump
    <3> QED
      BY <1>2, <3>1 DEF Live
  <2> QED
    BY <1>4, <2>1, <2>2, <2>3 DEF Foboot
<1>5. CASE dfu_poll
  <2>1. Live /\ UNCHANGED <<pc, dfu_state, ram_mode>>
    BY <1>5 DEF dfu_poll, Live
  <2>2. CASE ram_mode = 0
    BY <2>1, <2>2 DEF RamStage
  <2>3. CASE ram_mode # 0 /\ fl_state = "flsERASING"
    <3>1. fl_state' = "flsPROGRAMMING" /\ current.left = 2 /\ current'.left = current.left - 1
      BY <1>1, <1>5, <2>1, <2>3 DEF dfu_poll, RamStage, WritePage
    <3> QED
      BY <3>1 DEF RamStage
  <2>4. CASE ram_mode # 0 /\ fl_state = "flsPROGRAMMING" /\ MorePages
    <3>1. current.left = 1
      BY <1>1, <2>1, <2>4 DEF RamStage, MorePages
    <3>2. /\ fl_state' = "flsPROGRAMMING" /\ current'.left = 0
          /\ current'.num = current.num /\ current'.img = current.img
          /\ ram' = [ram EXCEPT ![current.num] = Content(current.img, "whole")]
      BY <1>1, <1>5, <2>4, <3>1 DEF dfu_poll, WritePage, Page
    <3>3. ram'[current.num] = Content(current.img, "whole")
      BY <1>1, <3>2
    <3> QED
      BY <3>2, <3>3 DEF RamStage
  <2>5. CASE ram_mode # 0 /\ fl_state = "flsPROGRAMMING" /\ ~MorePages
    <3>1. ram[current.num] = Content(current.img, "whole")
      BY <1>1, <2>1, <2>5 DEF RamStage, MorePages
    <3>2. fl_state' = "flsIDLE" /\ UNCHANGED <<ram, current>>
      BY <1>5, <2>5 DEF dfu_poll
    <3> QED
      BY <3>1, <3>2 DEF RamStage
  <2> QED
    BY <1>5, <2>2, <2>3, <2>4, <2>5 DEF dfu_poll
<1>6. ASSUME NEW img \in Images, NEW num \in Laid[img].blocks, Block(num, img) PROVE RamStage'
  <2>1. ~Live' \/ (fl_state' = "flsERASING" /\ current'.left = 2)
    BY <1>6, BlockTaken
  <2> QED
    BY <2>1 DEF RamStage
<1>7. ASSUME NEW state, Set(state), DnloadEnd \/ GetStatus \/ ClrStatus \/ Abort PROVE RamStage'
  <2>1. UNCHANGED <<fl_state, current, ram_mode, ram>> /\ pc = "loop"
    BY <1>7 DEF Set
  <2>2. Live' => Live
    BY <1>7, <2>1, StatesSet DEF Live, Polled
  <2> QED
    BY <1>3, <2>1, <2>2
<1>8. ASSUME NEW how, reboot(how) PROVE RamStage'
  BY <1>2, <1>8 DEF reboot, Jump, Live
<1>9. ASSUME NEW pinch \in BOOLEAN, TimerIsr(pinch) PROVE RamStage'
  <2>1. CASE UNCHANGED <<pc, dfuVars>>
    BY <1>3, <2>1 DEF dfuVars, Live, Polled
  <2> QED
    BY <1>8, <1>9, <2>1 DEF TimerIsr
<1>10. CASE ChipDone \/ RunsOn
  BY <1>3, <1>10 DEF ChipDone, RunsOn, vars, dfuVars, Live, Polled
<1>11. CASE FreshRam
  BY <1>2, <1>11 DEF FreshRam, Live
<1> QED
  BY <1>4, <1>5, <1>6, <1>7, <1>8, <1>9, <1>10, <1>11
  DEF Next, Host, Detach, Reset, DnloadEnd, GetStatus, ClrStatus, Abort, Restart, PowerCut

\* No program meets what it must not meet, and only power cuts tear pages.
LEMMA FlashKept ==
  ASSUME IInv, Next
  PROVE  FlashSound'
<1>1. /\ mem \in [Sectors -> Contents] /\ op.at \in Sectors /\ UPDATER \in Sectors
      /\ ProgramsErased /\ NeverProgramsTwice /\ TornOnlyByPowerCut
  BY TransactionParts, Constants, AreOperations
  DEF IInv, BootTypeOK, ChipTypeOK, FlashSound
<1>2. cuts \in Nat /\ (cuts' = cuts \/ (PowerCut /\ cuts' = cuts + 1))
  <2>1. cuts \in 0 .. MaxCuts /\ MaxCuts \in Nat
    BY Constants DEF IInv, BootTypeOK, HistoryTypeOK
  <2>2. Next => cuts' = cuts \/ (PowerCut /\ cuts' = cuts + 1)
    BY DEF Next, Foboot, Start, NervePinch, maybe_boot_updater, maybe_boot_fbm, init_timeout,
           BlockAccepted, dfu_poll, Shift, Host, Block, DnloadEnd, GetStatus, ClrStatus, Abort, Set,
           Detach, Reset, reboot, TimerIsr, ChipDone, Restart, PowerCut, RunsOn, vars, bounds
  <2> QED
    BY <2>1, <2>2
<1>3. ProgramsErased'
  <2>1. CASE op' = op /\ mem' = mem
    BY <1>1, <2>1 DEF ProgramsErased
  <2>2. CASE op' = Idle
    BY <2>2, IdleIsNotBusy DEF ProgramsErased
  <2>3. CASE Restart /\ started.how = "updater" /\ op' = op
    <3>1. op' = Idle
      BY <2>3, IdleIsNotBusy DEF IInv, UpdaterRuns
    <3> QED
      BY <2>2, <3>1
  <2>4. CASE op' = Erase(current.num)
    BY <2>4 DEF ProgramsErased, Erase
  <2>5. ASSUME NEW page \in {"head", "rest"}, op' = Write(current.num, current.img, page), mem' = mem,
               mem[current.num] = IF page = "head" THEN Blank ELSE Content(current.img, "head")
        PROVE  ProgramsErased'
    <3>1. /\ op'.at = current.num /\ op'.data.img = current.img /\ op'.data.part = page
      BY <2>5 DEF Write, Content
    <3> QED
      BY <2>5, <3>1 DEF ProgramsErased
  <2> QED
    BY <2>1, <2>2, <2>3, <2>4, <2>5, MemChanges, OpChanges
<1>4. NeverProgramsTwice'
  <2>1. ASSUME NEW at \in Sectors, NEW x, x.part # "corrupt", mem' = [mem EXCEPT ![at] = x]
        PROVE  NeverProgramsTwice'
    BY <1>1, <2>1 DEF NeverProgramsTwice
  <2>2. busy => Completed.part # "corrupt"
    BY CompletedParts
  <2>3. TornBy(op).part # "corrupt" /\ Blank.part # "corrupt"
    BY DEF TornBy, Blank, Content
  <2>4. CASE mem' = mem
    BY <1>1, <2>4 DEF NeverProgramsTwice
  <2> QED
    BY <1>1, <2>1, <2>2, <2>3, <2>4, MemChanges
<1>5. TornOnlyByPowerCut'
  <2>1. ASSUME NEW at \in Sectors, NEW x, x.part # "torn", mem' = [mem EXCEPT ![at] = x], cuts' = cuts
        PROVE  TornOnlyByPowerCut'
    BY <1>1, <2>1 DEF TornOnlyByPowerCut
  <2>2. CASE PowerCut
    <3>1. cuts' = cuts + 1
      BY <2>2 DEF PowerCut
    <3> QED
      BY <1>2, <3>1 DEF TornOnlyByPowerCut
  <2>3. busy => Completed.part # "torn"
    BY CompletedParts
  <2>4. Blank.part # "torn"
    BY DEF Blank, Content
  <2>5. CASE mem' = mem /\ cuts' = cuts
    BY <1>1, <2>5 DEF TornOnlyByPowerCut
  <2> QED
    BY <1>1, <1>2, <2>1, <2>2, <2>3, <2>4, <2>5, MemChanges
<1> QED
  BY <1>3, <1>4, <1>5, FlashStageKept, RamStageKept DEF FlashSound

-----------------------------------------------------------------------------
(* The updater. *)

\* What maybe_boot_updater sees of a Booster is that it is made for this chip.
LEMMA UpdaterFits ==
  ASSUME IInv, UpdaterSeen, SumHolds
  PROVE  /\ mem[UPDATER].img # NoImage /\ ~busy
         /\ mem[UPDATER] = Content(mem[UPDATER].img, "whole")
         /\ Laid[mem[UPDATER].img].updater = Canonical(chip)
<1>1. mem[UPDATER] \in Contents
  BY Constants DEF IInv, BootTypeOK, ChipTypeOK
<1>2. mem[UPDATER] = Content(mem[UPDATER].img, "whole")
  BY <1>1 DEF SumHolds, Contents, Content
<1>3. /\ ~busy /\ WordAt(UpdaterWords, 1) = Signature
      /\ WordAt(UpdaterWords, 7) = Value(Canonical(chip))
  BY DEF UpdaterSeen, Readable
<1>4. WordAt(<<>>, 1) # Signature
  BY MagicWords DEF WordAt
<1>5. /\ mem[UPDATER].img # NoImage
      /\ UpdaterWords = UpdaterHead(0, 0, Laid[mem[UPDATER].img].updater)
  BY <1>3, <1>4 DEF UpdaterWords
<1>6. \A id : WordAt(UpdaterHead(0, 0, id), 7) = Value(id)
  BY DEF WordAt, UpdaterHead
<1>7. \A a, b : Value(a) = Value(b) => a = b
  BY DEF Value
<1> QED
  BY <1>2, <1>3, <1>5, <1>6, <1>7

\* The Booster that was started stays what it was while it runs.
LEMMA UpdaterKept ==
  ASSUME IInv, Next
  PROVE  UpdaterRuns'
<1>1. CASE started' = started /\ started.how = "updater"
  <2>1. pc = "gone" /\ ~busy /\ UpdaterRuns
    BY <1>1 DEF IInv, UpdaterRuns
  <2>2. RunsOn \/ Restart \/ PowerCut
    BY <2>1
    DEF Next, Foboot, Start, NervePinch, maybe_boot_updater, maybe_boot_fbm, init_timeout,
        BlockAccepted, dfu_poll, Shift, Host, Block, DnloadEnd, GetStatus, ClrStatus, Abort, Set,
        Detach, Reset, TimerIsr, ChipDone, OpDone
  <2>3. CASE RunsOn
    BY <1>1, <2>1, <2>3 DEF RunsOn, vars, spiVars, chipVars, fixed, UpdaterRuns, busy
  <2>4. CASE FreshRam
    BY <2>4 DEF FreshRam, Nothing, UpdaterRuns
  <2> QED
    BY <2>2, <2>3, <2>4 DEF Restart, PowerCut
<1>2. CASE started'.how # "updater"
  BY <1>2 DEF UpdaterRuns
<1>3. CASE maybe_boot_updater /\ UpdaterSeen /\ SumHolds
  <2>1. /\ pc' = "gone" /\ started'.img = mem[UPDATER].img
        /\ UNCHANGED <<mem, op, chip>>
    BY <1>3 DEF maybe_boot_updater, Jump, spiVars, chipVars, fixed
  <2> QED
    BY <1>3, <2>1, UpdaterFits DEF UpdaterRuns, busy
<1>4. \/ started' = started
      \/ started'.how \in {"none", "fbm", "timer", "detach", "reset"}
      \/ maybe_boot_updater /\ UpdaterSeen /\ SumHolds
  <2>1. CASE Foboot
    BY <2>1
    DEF Foboot, Start, NervePinch, maybe_boot_updater, maybe_boot_fbm, init_timeout, BlockAccepted,
        dfu_poll, Shift, Jump
  <2>2. CASE Host /\ ~Detach /\ ~Reset
    BY <2>2 DEF Host, Block, DnloadEnd, GetStatus, ClrStatus, Abort, Set
  <2>3. ASSUME NEW how \in {"timer", "detach", "reset"}, reboot(how) PROVE started'.how = how
    BY <2>3 DEF reboot, Jump
  <2>4. ASSUME NEW pinch \in BOOLEAN, TimerIsr(pinch)
        PROVE  started' = started \/ started'.how = "timer"
    BY <2>3, <2>4 DEF TimerIsr
  <2>5. CASE Detach \/ Reset
    BY <2>3, <2>5 DEF Detach, Reset
  <2>6. CASE ChipDone \/ RunsOn
    BY <2>6 DEF ChipDone, RunsOn, vars
  <2>7. CASE FreshRam
    BY <2>7 DEF FreshRam, Nothing
  <2> QED
    BY <2>1, <2>2, <2>4, <2>5, <2>6, <2>7 DEF Next, Restart, PowerCut
<1> QED
  BY <1>1, <1>2, <1>3, <1>4

-----------------------------------------------------------------------------
(* The host. *)

\* The block in progress stays one of those sent.
LEMMA SentIsKept ==
  ASSUME IInv, Next
  PROVE  BlockIsSent'
<1>1. /\ BlockIsSent /\ sent \in [img : AnyImage, blocks : SUBSET Sectors] /\ NoImage \notin Images
      /\ current = [num |-> current.num, img |-> current.img, left |-> current.left]
  BY Constants DEF IInv, HostAgrees, BootTypeOK, HistoryTypeOK, EngineTypeOK
<1>2. ASSUME ~Live', sent' \in {sent, NotSent} PROVE BlockIsSent'
  BY <1>1, <1>2 DEF BlockIsSent, NotSent
<1>3. ASSUME Live' => Live, sent' = sent, current'.num = current.num, current'.img = current.img
      PROVE  BlockIsSent'
  BY <1>1, <1>3 DEF BlockIsSent
<1>4. CASE Foboot /\ Early
  <2>1. pc' \in {"spiInit", "timeout", "updater", "fbm", "gone"} \/ dfu_state' = "dfuIDLE"
    BY <1>4 DEF Foboot, Start, NervePinch, maybe_boot_updater, maybe_boot_fbm, init_timeout,
                BlockAccepted, dfu_poll, Shift, Jump, dfuVars, IInv, ControlAgrees, Early
  <2>2. ~Live' /\ sent' = sent
    <3>1. sent' = sent
      BY <1>4 DEF Foboot, Start, NervePinch, maybe_boot_updater, maybe_boot_fbm, init_timeout,
                  BlockAccepted, dfu_poll, Shift, history
    <3>2. pc' # "erasing"
      BY <1>4 DEF Foboot, Start, NervePinch, maybe_boot_updater, maybe_boot_fbm, init_timeout,
                  BlockAccepted, dfu_poll, Shift, Jump, Early
    <3> QED
      BY <2>1, <3>1, <3>2 DEF Live, Polled
  <2> QED
    BY <1>2, <2>2
<1>5. CASE Foboot /\ ~Early
  <2>1. BlockAccepted \/ dfu_poll \/ Shift
    BY <1>5 DEF Foboot, Start, NervePinch, maybe_boot_updater, maybe_boot_fbm, init_timeout, Early
  <2>2. sent' = sent /\ current'.num = current.num /\ current'.img = current.img
    BY <1>1, <2>1 DEF BlockAccepted, dfu_poll, Shift, WritePage, dfuVars, history
  <2>3. Live' => Live
    BY <2>1 DEF BlockAccepted, dfu_poll, Shift, dfuVars, Live, Polled
  <2> QED
    BY <1>3, <2>2, <2>3
<1>6. ASSUME NEW img \in Images, NEW num \in Laid[img].blocks, Block(num, img) PROVE BlockIsSent'
  <2>1. CASE ~Live' /\ sent' = IF ram_mode' # ram_mode THEN NotSent ELSE sent
    BY <1>2, <2>1
  <2>2. CASE /\ sent' = SentWith(num, img)
             /\ current' = [num |-> num, img |-> img, left |-> 2]
    <3>1. num = 0 \/ sent.img = img
      BY <1>6 DEF Block
    <3>2. sent'.img = img /\ num \in sent'.blocks
      BY <1>1, <2>2, <3>1 DEF SentWith
    <3> QED
      BY <1>1, <2>2, <3>2 DEF BlockIsSent
  <2> QED
    BY <1>6, <2>1, <2>2, BlockTaken
<1>7. CASE DnloadEnd
  <2>1. pc = "loop" /\ sent' \in {sent, NotSent}
    BY <1>7 DEF DnloadEnd, Set
  <2> QED
    BY <1>2, <1>7, <2>1, StatesSet DEF Live, Polled
<1>8. CASE GetStatus \/ ClrStatus \/ Abort
  <2>1. pc = "loop" /\ UNCHANGED <<sent, current>>
    BY <1>8 DEF GetStatus, ClrStatus, Abort, Set, history
  <2>2. Live' => Live
    BY <1>8, <2>1, StatesSet DEF Live, Polled
  <2> QED
    BY <1>3, <2>1, <2>2
<1>9. ASSUME NEW how, reboot(how) PROVE BlockIsSent'
  BY <1>2, <1>9 DEF reboot, Jump, history, Live
<1>10. ASSUME NEW pinch \in BOOLEAN, TimerIsr(pinch) PROVE BlockIsSent'
  <2>1. CASE UNCHANGED <<pc, dfuVars, sent>>
    BY <1>3, <2>1 DEF dfuVars, Live, Polled
  <2> QED
    BY <1>9, <1>10, <2>1 DEF TimerIsr
<1>11. CASE ChipDone \/ RunsOn
  BY <1>3, <1>11 DEF ChipDone, RunsOn, vars, dfuVars, history, Live, Polled
<1>12. CASE FreshRam
  BY <1>2, <1>12 DEF FreshRam, Live
<1> QED
  BY <1>4, <1>5, <1>6, <1>7, <1>8, <1>9, <1>10, <1>11, <1>12
  DEF Next, Host, Detach, Reset, Restart, PowerCut

\* A block that is accepted is the only one that may not be there yet: the one
\* before it had to be.
LEMMA ArrivalsKept ==
  ASSUME IInv, Next
  PROVE  SentArrives'
<1>1. /\ SentArrives /\ BlockIsSent /\ FlashStage /\ RamStage
      /\ sent \in [img : AnyImage, blocks : SUBSET Sectors] /\ NoImage \notin Images
      /\ mem \in [Sectors -> Contents] /\ ram \in [Sectors -> Contents]
      /\ current = [num |-> current.num, img |-> current.img, left |-> current.left]
      /\ ram_mode \in Nat /\ current.num \in Sectors
  BY Constants
  DEF IInv, HostAgrees, FlashSound, BootTypeOK, HistoryTypeOK, EngineTypeOK, ChipTypeOK
<1>2. ASSUME sent' = NotSent PROVE SentArrives'
  BY <1>2 DEF SentArrives, NotSent
<1>3. ASSUME UNCHANGED <<sent, mem, ram, ram_mode, current, fl_state>>, op' = op \/ op' = Idle
      PROVE  SentArrives'
  BY <1>1, <1>3, IdleIsNotBusy DEF SentArrives, InStore, busy
<1>4. CASE Foboot /\ Early
  <2>1. sent' = sent
    BY <1>4 DEF Foboot, Start, NervePinch, maybe_boot_updater, maybe_boot_fbm, init_timeout,
                BlockAccepted, dfu_poll, Shift, history
  <2> QED
    BY <1>2, <1>4, <2>1 DEF IInv, ControlAgrees
<1>5. CASE BlockAccepted
  BY <1>3, <1>5 DEF BlockAccepted, history, spiVars, chipVars
<1>6. CASE dfu_poll
  <2>1. /\ Live /\ ~busy /\ ~busy' /\ UNCHANGED <<sent, mem, ram_mode>>
        /\ current'.num = current.num /\ current'.img = current.img
    BY <1>1, <1>6 DEF dfu_poll, Live, ChipReady, chipVars, history, WritePage, busy
  <2>2. \A b \in Sectors : b # current.num => ram'[b] = ram[b]
    BY <1>1, <1>6 DEF dfu_poll, WritePage
  <2>3. CASE fl_state' # "flsIDLE"
    <3>1. \A b \in sent.blocks : b # current.num => (InStore(b) <=> InStore(b)')
      BY <1>1, <2>1, <2>2 DEF InStore
    <3>2. fl_state # "flsIDLE"
      BY <1>6 DEF dfu_poll
    <3> QED
      BY <1>1, <2>1, <2>3, <3>1, <3>2 DEF SentArrives
  <2>4. CASE fl_state' = "flsIDLE"
    <3>1. /\ fl_state = "flsPROGRAMMING" /\ ~MorePages /\ tx = <<>>
          /\ UNCHANGED <<ram, current, tx>>
      BY <1>6, <2>4 DEF dfu_poll
    <3>2. current.left = 0 /\ current.img = sent.img
      BY <1>1, <2>1, <3>1 DEF MorePages, BlockIsSent
    <3>3. CASE ram_mode = 0
      <4>1. RestLast
        BY <1>1, <2>1, <3>1, <3>2, <3>3 DEF FlashStage
      <4>2. \A img, page : op # Write(current.num, img, page)
        BY <2>1, IdleIsNotBusy
      <4>3. mem[current.num] = Content(sent.img, "whole")
        BY <3>1, <3>2, <4>1, <4>2, OneAfterAnother DEF RestLast, Settled, UnderWay, Sending
      <4> QED
        BY <1>1, <2>1, <3>1, <3>3, <4>3 DEF SentArrives, InStore
    <3>4. CASE ram_mode # 0
      <4>1. ram[current.num] = Content(sent.img, "whole")
        BY <1>1, <2>1, <3>1, <3>2, <3>4 DEF RamStage
      <4> QED
        BY <1>1, <2>1, <3>1, <3>4, <4>1 DEF SentArrives, InStore
    <3> QED
      BY <3>3, <3>4
  <2> QED
    BY <2>3, <2>4
<1>7. CASE Shift
  <2>1. UNCHANGED <<sent, mem, ram, ram_mode, current, fl_state>>
    BY <1>7 DEF Shift, Transaction, Execute, dfuVars, history
  <2>2. CASE op' = op \/ op' = Idle
    BY <1>3, <2>1, <2>2
  <2>3. CASE ram_mode = 0 /\ fl_state # "flsIDLE" /\ op'.at = current.num
    BY <1>1, <2>1, <2>3 DEF SentArrives, InStore
  <2> QED
    BY <1>7, <2>2, <2>3, OpChanges DEF Erase, Write
<1>8. ASSUME NEW img \in Images, NEW num \in Laid[img].blocks, Block(num, img) PROVE SentArrives'
  <2>1. /\ UNCHANGED <<mem, op>> /\ (num = 0 \/ sent.img = img)
        /\ ram_mode' = IF num = 0 THEN LoadAddress(Laid[img].head, FIRST_PACKET, ram_mode) ELSE ram_mode
        /\ ram' = IF ram_mode' # ram_mode THEN NoRam ELSE ram
    BY <1>8 DEF Block, chipVars
  <2>2. CASE /\ sent' = IF ram_mode' # ram_mode THEN NotSent ELSE sent
             /\ UNCHANGED <<fl_state, current>>
    BY <1>2, <1>3, <2>1, <2>2
  <2>3. CASE /\ fl_state' = "flsERASING" /\ current' = [num |-> num, img |-> img, left |-> 2]
             /\ fl_state = "flsIDLE" /\ sent' = SentWith(num, img) /\ (ram_mode' = 0 => ~busy)
    <3>1. current'.num = num /\ ~(ram_mode' = 0 /\ busy')
      BY <2>1, <2>3 DEF busy
    <3>2. CASE num = 0
      <4>1. sent'.img = img /\ sent'.blocks = {0} /\ 0 \in Laid[img].blocks
        BY <2>3, <3>2, Layouts DEF SentWith
      <4>2. ram_mode' = 0 => ForFlash(img)
        BY <1>1, <2>1, <3>2, LoadAddressFound
      <4> QED
        BY <2>3, <3>1, <3>2, <4>1, <4>2 DEF SentArrives
    <3>3. CASE num # 0
      <4>1. sent'.img = sent.img /\ sent'.blocks = sent.blocks \cup {num} /\ sent.img = img
        BY <1>1, <2>1, <2>3, <3>3 DEF SentWith
      <4>2. UNCHANGED <<ram_mode, ram>>
        BY <2>1, <3>3
      <4>3. \A b \in sent.blocks : InStore(b)'
        BY <1>1, <2>1, <2>3, <4>1, <4>2 DEF SentArrives, InStore
      <4> QED
        BY <1>1, <2>3, <3>1, <4>1, <4>2, <4>3 DEF SentArrives
    <3> QED
      BY <3>2, <3>3
  <2> QED
    BY <1>8, <2>2, <2>3, BlockTaken
<1>9. CASE DnloadEnd
  <2>1. /\ sent' \in {sent, NotSent}
        /\ UNCHANGED <<mem, op, ram, ram_mode, current, fl_state>>
    BY <1>9 DEF DnloadEnd, Set, spiVars, chipVars
  <2> QED
    BY <1>2, <1>3, <2>1
<1>10. CASE GetStatus \/ ClrStatus \/ Abort
  BY <1>3, <1>10 DEF GetStatus, ClrStatus, Abort, Set, spiVars, chipVars, history
<1>11. ASSUME NEW how \in {"timer", "detach", "reset"}, reboot(how),
              pc \in {"loop", "erasing", "wait_reset"}, dfu_state = "dfuIDLE" \/ tx = <<>>
       PROVE  SentArrives'
  <2>1. UNCHANGED <<sent, mem, ram, ram_mode, current, fl_state>>
    BY <1>11, RebootsAreClean DEF dfuVars, history
  <2>2. op' = op \/ (op' = Erase(current.num) /\ pc = "erasing")
    BY <1>11, RebootsAreClean
  <2>3. CASE fl_state # "flsIDLE" /\ op'.at = current.num
    BY <1>1, <2>1, <2>3 DEF SentArrives, InStore
  <2> QED
    BY <1>3, <2>1, <2>2, <2>3 DEF Erase, IInv, ControlAgrees
<1>12. ASSUME NEW pinch \in BOOLEAN, TimerIsr(pinch) PROVE SentArrives'
  <2>1. CASE UNCHANGED <<spiVars, dfuVars, sent>>
    BY <1>3, <2>1 DEF spiVars, chipVars, dfuVars
  <2> QED
    BY <1>11, <1>12, <2>1, WhoReboots
<1>13. CASE ChipDone
  <2>1. /\ busy /\ ~busy' /\ mem' = [mem EXCEPT ![op.at] = Completed]
        /\ UNCHANGED <<sent, ram, ram_mode, current, fl_state>>
    BY <1>13, IdleIsNotBusy DEF ChipDone, OpDone, dfuVars, history
  <2>2. \A b \in Sectors : b # op.at => mem'[b] = mem[b]
    BY <1>1, <2>1
  <2> QED
    BY <1>1, <2>1, <2>2 DEF SentArrives, InStore
<1>14. CASE RunsOn
  BY <1>3, <1>14 DEF RunsOn, vars, spiVars, chipVars, dfuVars, history
<1>15. CASE FreshRam
  BY <1>2, <1>15 DEF FreshRam
<1>16. CASE Foboot /\ ~Early
  BY <1>5, <1>6, <1>7, <1>16
  DEF Foboot, Start, NervePinch, maybe_boot_updater, maybe_boot_fbm, init_timeout, Early
<1> QED
  BY <1>4, <1>8, <1>9, <1>10, <1>11, <1>12, <1>13, <1>14, <1>15, <1>16, WhoReboots
  DEF Next, Host, Restart, PowerCut

\* When the end of a download is accepted, all that was sent is there.
LEMMA CompleteIsThere ==
  ASSUME IInv, DnloadEnd, sent # NotSent
  PROVE  /\ installed' # installed /\ installed' # NoImage =>
              /\ ForFlash(installed') /\ Whole(installed', mem) /\ ~busy
         /\ loaded' # loaded /\ loaded' # NoImage =>
              /\ ram_mode # 0 /\ Laid[loaded'].from = "ram" /\ Whole(loaded', ram)
<1>1. SentArrives
  BY DEF IInv, HostAgrees
<1>2. ASSUME installed' # installed, installed' # NoImage
      PROVE  ForFlash(installed') /\ Whole(installed', mem) /\ ~busy
  <2>1. /\ installed' = Complete("flash") /\ ram_mode = 0 /\ fl_state = "flsIDLE" /\ ~busy
    BY <1>2 DEF DnloadEnd, FlashNotReady
  <2>2. installed' = sent.img /\ sent.img # NoImage /\ sent.blocks = Laid[sent.img].blocks
    BY <1>2, <2>1 DEF Complete
  <2> QED
    BY <1>1, <2>1, <2>2 DEF SentArrives, InStore, Whole
<1>3. ASSUME loaded' # loaded, loaded' # NoImage
      PROVE  ram_mode # 0 /\ Laid[loaded'].from = "ram" /\ Whole(loaded', ram)
  <2>1. loaded' = Complete("ram") /\ ram_mode # 0 /\ fl_state = "flsIDLE"
    BY <1>3 DEF DnloadEnd, FlashNotReady
  <2>2. /\ loaded' = sent.img /\ sent.img # NoImage /\ sent.blocks = Laid[sent.img].blocks
        /\ Laid[sent.img].from = "ram"
    BY <1>3, <2>1 DEF Complete
  <2> QED
    BY <1>1, <2>1, <2>2 DEF SentArrives, InStore, Whole
<1> QED
  BY <1>2, <1>3

\* Nothing but the next download touches an image that was acknowledged.
LEMMA InstalledKept ==
  ASSUME IInv, Next
  PROVE  InstalledStays'
<1>1. InstalledStays /\ ControlAgrees
  BY DEF IInv, HostAgrees
<1>2. ASSUME installed' # installed PROVE InstalledStays'
  <2>1. CASE installed' = NoImage
    BY <2>1 DEF InstalledStays
  <2>2. CASE DnloadEnd /\ installed' # NoImage
    <3>1. /\ sent # NotSent /\ pc = "loop" /\ UNCHANGED <<mem, op>>
      BY <1>2, <2>2 DEF DnloadEnd, Set, spiVars, chipVars
    <3>2. ForFlash(installed') /\ Whole(installed', mem) /\ ~busy
      BY <1>2, <2>2, <3>1, CompleteIsThere
    <3>3. ~Live'
      BY <2>2, <3>1, StatesSet DEF Live, Polled
    <3> QED
      BY <3>1, <3>2, <3>3 DEF InstalledStays, Whole, busy
  <2>3. installed' = NoImage \/ DnloadEnd
    <3>1. CASE Foboot \/ ChipDone \/ RunsOn
      BY <1>2, <3>1
      DEF Foboot, Start, NervePinch, maybe_boot_updater, maybe_boot_fbm, init_timeout,
          BlockAccepted, dfu_poll, Shift, ChipDone, RunsOn, vars, history
    <3>2. CASE Restart \/ PowerCut
      BY <1>2, <3>2 DEF Restart, PowerCut
    <3>3. CASE Host /\ ~DnloadEnd
      BY <1>2, <3>3 DEF Host, Block, GetStatus, ClrStatus, Abort, Detach, Reset, reboot, history
    <3>4. ASSUME NEW pinch \in BOOLEAN, TimerIsr(pinch) PROVE FALSE
      BY <1>2, <3>4 DEF TimerIsr, reboot, history
    <3> QED
      BY <3>1, <3>2, <3>3, <3>4 DEF Next
  <2> QED
    BY <2>1, <2>2, <2>3
<1>3. ASSUME installed' = installed, installed # NoImage PROVE InstalledStays'
  <2>1. /\ ForFlash(installed) /\ Whole(installed, mem) /\ ~busy
        /\ Live /\ ram_mode = 0 => fl_state = "flsIDLE"
    BY <1>1, <1>3 DEF InstalledStays
  <2>2. ~busy'
    BY <2>1, OpChanges, IdleIsNotBusy DEF busy
  <2>3. mem' = mem
    BY <1>3, <2>1, MemChanges
  <2>4. ASSUME Live', ram_mode' = 0 PROVE fl_state' = "flsIDLE"
    <3>1. CASE Live /\ UNCHANGED <<fl_state, ram_mode>>
      BY <2>1, <2>4, <3>1
    <3>2. CASE Foboot
      <4>1. BlockAccepted \/ dfu_poll \/ Shift
        <5>1. pc' = "loop" \/ pc' = "erasing"
          BY <2>4 DEF Live
        <5>2. init_timeout => dfu_state' = "dfuIDLE" /\ pc' = "loop"
          BY <1>1 DEF init_timeout, dfuVars, ControlAgrees, Early
        <5>3. ~init_timeout
          BY <2>4, <5>2 DEF Live, Polled
        <5> QED
          BY <3>2, <5>1, <5>3
          DEF Foboot, Start, NervePinch, maybe_boot_updater, maybe_boot_fbm, Jump
      <4>2. Live /\ ram_mode' = ram_mode
        BY <2>4, <4>1 DEF BlockAccepted, dfu_poll, Shift, dfuVars, Live, Polled
      <4>3. fl_state = "flsIDLE"
        BY <2>1, <2>4, <4>2
      <4> QED
        BY <4>1, <4>3 DEF BlockAccepted, dfu_poll, Shift, dfuVars
    <3>3. ASSUME NEW img \in Images, NEW num \in Laid[img].blocks, Block(num, img) PROVE FALSE
      <4>1. installed' = NoImage
        BY <2>4, <3>3, BlockTaken
      <4> QED
        BY <1>3, <4>1
    <3>4. ASSUME NEW state, Set(state), DnloadEnd \/ GetStatus \/ ClrStatus \/ Abort
          PROVE  fl_state' = "flsIDLE"
      <4>1. UNCHANGED <<fl_state, ram_mode>> /\ pc = "loop"
        BY <3>4 DEF Set
      <4>2. Live
        BY <2>4, <3>4, <4>1, StatesSet DEF Live, Polled
      <4> QED
        BY <3>1, <4>1, <4>2
    <3>5. ASSUME NEW how, reboot(how) PROVE FALSE
      BY <2>4, <3>5 DEF reboot, Jump, Live
    <3>6. ASSUME NEW pinch \in BOOLEAN, TimerIsr(pinch) PROVE fl_state' = "flsIDLE"
      <4>1. CASE UNCHANGED <<pc, dfuVars>>
        BY <2>1, <2>4, <4>1 DEF dfuVars, Live, Polled
      <4> QED
        BY <3>5, <3>6, <4>1 DEF TimerIsr
    <3>7. CASE ChipDone \/ RunsOn
      BY <2>1, <2>4, <3>7 DEF ChipDone, RunsOn, vars, dfuVars, Live, Polled
    <3>8. CASE FreshRam
      BY <2>4, <3>8 DEF FreshRam, Live
    <3> QED
      BY <3>2, <3>3, <3>4, <3>5, <3>6, <3>7, <3>8
      DEF Next, Host, Detach, Reset, DnloadEnd, GetStatus, ClrStatus, Abort, Restart, PowerCut
  <2> QED
    BY <1>3, <2>1, <2>2, <2>3, <2>4 DEF InstalledStays, Whole
<1> QED
  BY <1>2, <1>3 DEF InstalledStays

\* The same of an image in RAM.
LEMMA LoadedKept ==
  ASSUME IInv, Next
  PROVE  LoadedStays'
<1>1. LoadedStays /\ ControlAgrees
  BY DEF IInv, HostAgrees
<1>2. CASE loaded' = NoImage
  BY <1>2 DEF LoadedStays
<1>3. ASSUME loaded' = loaded, UNCHANGED <<ram_mode, ram, fl_state>>, Live' => Live
      PROVE  LoadedStays'
  BY <1>1, <1>3 DEF LoadedStays, Whole
<1>4. CASE DnloadEnd
  <2>1. pc = "loop" /\ UNCHANGED <<ram_mode, ram, fl_state>>
    BY <1>4 DEF DnloadEnd, Set
  <2>2. ~Live'
    BY <1>4, <2>1, StatesSet DEF Live, Polled
  <2>3. CASE loaded' = loaded
    BY <1>3, <2>1, <2>2, <2>3
  <2>4. CASE loaded' # loaded /\ loaded' # NoImage
    <3>1. sent # NotSent
      BY <1>4, <2>4 DEF DnloadEnd
    <3>2. ram_mode # 0 /\ Laid[loaded'].from = "ram" /\ Whole(loaded', ram)
      BY <1>4, <2>4, <3>1, CompleteIsThere
    <3> QED
      BY <2>1, <2>2, <3>2 DEF LoadedStays, Whole
  <2> QED
    BY <1>2, <2>3, <2>4
<1>5. ASSUME NEW img \in Images, NEW num \in Laid[img].blocks, Block(num, img), loaded' # NoImage
      PROVE  LoadedStays'
  <2>1. /\ loaded' = loaded /\ UNCHANGED <<ram_mode, ram>>
    BY <1>5 DEF Block
  <2>2. ram_mode # 0
    BY <1>1, <1>5, <2>1 DEF LoadedStays
  <2>3. ~Live' /\ fl_state' = fl_state
    BY <1>5, <2>1, <2>2, BlockTaken
  <2> QED
    BY <1>3, <2>1, <2>3
<1>6. CASE GetStatus \/ ClrStatus \/ Abort
  <2>1. pc = "loop" /\ UNCHANGED <<loaded, ram_mode, ram, fl_state>>
    BY <1>6 DEF GetStatus, ClrStatus, Abort, Set, history
  <2>2. Live' => Live
    BY <1>6, <2>1, StatesSet DEF Live, Polled
  <2> QED
    BY <1>3, <2>1, <2>2
<1>7. CASE Foboot /\ Early
  <2>1. loaded' = loaded
    BY <1>7 DEF Foboot, Start, NervePinch, maybe_boot_updater, maybe_boot_fbm, init_timeout,
                BlockAccepted, dfu_poll, Shift, history
  <2> QED
    BY <1>1, <1>2, <1>7, <2>1 DEF ControlAgrees
<1>8. CASE BlockAccepted \/ Shift
  BY <1>3, <1>8 DEF BlockAccepted, Shift, dfuVars, history, Live, Polled
<1>9. CASE dfu_poll
  <2>1. Live /\ loaded' = loaded /\ fl_state # "flsIDLE"
    BY <1>9 DEF dfu_poll, Live, history
  <2> QED
    BY <1>1, <1>2, <2>1 DEF LoadedStays
<1>10. ASSUME NEW how, reboot(how) PROVE LoadedStays'
  BY <1>3, <1>10 DEF reboot, Jump, dfuVars, history, Live
<1>11. ASSUME NEW pinch \in BOOLEAN, TimerIsr(pinch) PROVE LoadedStays'
  <2>1. CASE UNCHANGED <<pc, dfuVars, loaded>>
    BY <1>3, <2>1 DEF dfuVars, Live, Polled
  <2> QED
    BY <1>10, <1>11, <2>1 DEF TimerIsr
<1>12. CASE ChipDone \/ RunsOn
  BY <1>3, <1>12 DEF ChipDone, RunsOn, vars, dfuVars, history, Live, Polled
<1>13. CASE FreshRam
  BY <1>2, <1>13 DEF FreshRam
<1>14. CASE Foboot /\ ~Early
  BY <1>8, <1>9, <1>14
  DEF Foboot, Start, NervePinch, maybe_boot_updater, maybe_boot_fbm, init_timeout, Early
<1> QED
  BY <1>2, <1>4, <1>5, <1>6, <1>7, <1>10, <1>11, <1>12, <1>13, <1>14
  DEF Next, Host, Detach, Reset, Restart, PowerCut

-----------------------------------------------------------------------------
(* The jump. *)

\* reboot() finds the acknowledged image where its author wants it, and reads
\* its head.
LEMMA RebootsAsLaidOut ==
  ASSUME IInv, NEW how \in {"timer", "detach", "reset"}, reboot(how),
         pc \in {"loop", "erasing", "wait_reset"}, dfu_state = "dfuIDLE" \/ tx = <<>>
  PROVE  /\ UNCHANGED <<installed, loaded>>
         /\ started'.from = "flash" /\ installed # NoImage => Right(installed)'
         /\ started'.from = "ram" /\ loaded # NoImage => Right(loaded)'
<1> DEFINE origin == IF ram_mode # 0 THEN ram[0] ELSE mem[0]
<1>1. /\ InstalledStays /\ LoadedStays /\ ControlAgrees
      /\ installed \in AnyImage /\ loaded \in AnyImage /\ NoImage \notin Images
  BY Constants DEF IInv, HostAgrees, BootTypeOK, HistoryTypeOK
<1>2. UNCHANGED <<installed, loaded>>
  BY <1>1, RebootsAreClean DEF history
<1>3. PICK head \in Seen(origin, TRUE) \cup {<<>>} :
        /\ ram_mode # 0 \/ op' = Idle => head \in Seen(origin, TRUE)
        /\ started' = [how |-> how, from |-> IF ram_mode # 0 THEN "ram" ELSE "flash",
                       kind |-> Scan(head).kind, config |-> Scan(head).config,
                       img |-> origin.img]
  BY RebootsAreClean
<1>4. /\ started'.from = IF ram_mode # 0 THEN "ram" ELSE "flash"
      /\ started'.kind = Scan(head).kind /\ started'.config = Scan(head).config
      /\ started'.img = origin.img
  BY <1>3
<1>5. ASSUME started'.from = "flash", installed # NoImage PROVE Right(installed)'
  <2>1. ram_mode = 0
    BY <1>4, <1>5
  <2>2. installed \in Images /\ ForFlash(installed) /\ Whole(installed, mem) /\ ~busy
    BY <1>1, <1>5 DEF InstalledStays, AnyImage
  <2>3. origin = Content(installed, "whole")
    BY <2>1, <2>2, Layouts DEF Whole
  <2>4. op' = op
    <3>1. ~(pc = "erasing" /\ ram_mode = 0)
      BY <1>1, <1>5 DEF InstalledStays, ControlAgrees, Live
    <3> QED
      BY <3>1, RebootsAreClean
  <2>5. head \in Seen(origin, TRUE)
    BY <1>3, <2>2, <2>4 DEF busy
  <2>6. /\ origin.img = installed /\ origin.part = "whole"
    BY <2>3 DEF Content
  <2>7. head = Laid[installed].head
    BY <1>1, <1>5, <2>5, <2>6 DEF Seen
  <2>8. Scan(head).kind = Laid[installed].kind /\ Scan(head).config = Laid[installed].config
    <3>1. Scan(Laid[installed].head) = [kind |-> Laid[installed].kind, config |-> Laid[installed].config]
      BY <2>2, ScanAsLaidOut
    <3> QED
      BY <2>7, <3>1
  <2> QED
    BY <1>2, <1>4, <1>5, <2>2, <2>6, <2>8 DEF Right, ForFlash
<1>6. ASSUME started'.from = "ram", loaded # NoImage PROVE Right(loaded)'
  <2>1. ram_mode # 0
    BY <1>4, <1>6
  <2>2. loaded \in Images /\ Laid[loaded].from = "ram" /\ Whole(loaded, ram)
    BY <1>1, <1>6 DEF LoadedStays, AnyImage
  <2>3. origin = Content(loaded, "whole")
    BY <2>1, <2>2, Layouts DEF Whole
  <2>4. origin.img = loaded /\ origin.part = "whole"
    BY <2>3 DEF Content
  <2>5. head = Laid[loaded].head
    BY <1>1, <1>3, <1>6, <2>1, <2>4 DEF Seen
  <2>6. Scan(head).kind = Laid[loaded].kind /\ Scan(head).config = Laid[loaded].config
    <3>1. Scan(Laid[loaded].head) = [kind |-> Laid[loaded].kind, config |-> Laid[loaded].config]
      BY <2>2, ScanAsLaidOut
    <3> QED
      BY <2>5, <3>1
  <2> QED
    BY <1>2, <1>4, <1>6, <2>2, <2>4, <2>6 DEF Right
<1> QED
  BY <1>2, <1>5, <1>6

\* What was started was started right, and is still there.
LEMMA StartsKept ==
  ASSUME IInv, Next, InstalledStays', LoadedStays'
  PROVE  StartsAsLaidOut'
<1>1. StartsAsLaidOut
  BY DEF IInv
<1>2. /\ installed' # NoImage => Whole(installed, mem)'
      /\ loaded' # NoImage => Whole(loaded, ram)'
  BY DEF InstalledStays, LoadedStays, Whole
<1>3. CASE pc' # "gone"
  BY <1>3 DEF StartsAsLaidOut
<1>4. CASE ~(started'.how \in {"reset", "detach", "timer"})
  BY <1>4 DEF StartsAsLaidOut
<1>5. CASE pc = "gone" /\ UNCHANGED <<started, installed, loaded>>
  BY <1>1, <1>2, <1>5 DEF StartsAsLaidOut, Right
<1>6. ASSUME NEW how \in {"timer", "detach", "reset"}, reboot(how),
             pc \in {"loop", "erasing", "wait_reset"}, dfu_state = "dfuIDLE" \/ tx = <<>>
      PROVE  StartsAsLaidOut'
  BY <1>2, <1>6, RebootsAsLaidOut DEF StartsAsLaidOut
<1>7. CASE Foboot
  <2>1. pc' # "gone" \/ started'.how \in {"updater", "fbm"}
    BY <1>7 DEF Foboot, Start, NervePinch, maybe_boot_updater, maybe_boot_fbm, init_timeout,
                BlockAccepted, dfu_poll, Shift, Jump
  <2> QED
    BY <1>3, <1>4, <2>1
<1>8. CASE Host /\ ~Detach /\ ~Reset
  <2>1. pc' # "gone"
    BY <1>8, StatesSet DEF Host, Block, DnloadEnd, GetStatus, ClrStatus, Abort, Set
  <2> QED
    BY <1>3, <2>1
<1>9. CASE Detach \/ Reset
  BY <1>6, <1>9, WhoReboots
<1>10. ASSUME NEW pinch \in BOOLEAN, TimerIsr(pinch) PROVE StartsAsLaidOut'
  <2>1. pc # "gone"
    BY <1>10 DEF TimerIsr
  <2> QED
    BY <1>3, <1>6, <1>10, <2>1, WhoReboots
<1>11. CASE ChipDone \/ RunsOn
  <2>1. UNCHANGED <<pc, started, installed, loaded>>
    BY <1>11 DEF ChipDone, RunsOn, vars, history
  <2> QED
    BY <1>3, <1>5, <2>1
<1>12. CASE FreshRam
  BY <1>3, <1>12 DEF FreshRam
<1> QED
  BY <1>7, <1>8, <1>9, <1>10, <1>11, <1>12 DEF Next, Restart, PowerCut

-----------------------------------------------------------------------------
(* The invariant, and what follows. *)

\* The invariant holds when a device is plugged in.
LEMMA Initially == Init => IInv
<1> SUFFICES ASSUME Init PROVE IInv
  OBVIOUS
<1>1. PICK i \in {NoImage} \cup {j \in Images : Laid[j].from = "flash"} :
        /\ mem = [s \in Sectors |->
                    IF i # NoImage /\ s \in Laid[i].blocks THEN Content(i, "whole") ELSE Blank]
        /\ installed = i
  BY DEF Init
<1>2. /\ op = Idle /\ mode \in {"spi", "qpi", "asleep"} /\ wel = FALSE
      /\ id_read = {} /\ bitbang = FALSE /\ tx = <<>>
      /\ pc = "start" /\ dfu_state = "dfuIDLE" /\ fl_state = "flsIDLE" /\ current = NoBlock
      /\ ram_mode = 0 /\ ram = NoRam /\ timer = "off"
      /\ fbm \in BOOLEAN /\ chip \in ChipIds
      /\ started = Nothing /\ sent = NotSent /\ loaded = NoImage /\ quiet = TRUE
      /\ lives = 1 /\ cuts = 0 /\ blocks = 0
  BY DEF Init
<1>3. ~busy /\ ~Live /\ op.name = "idle"
  BY <1>2, IdleIsNotBusy DEF Live
<1>4. \A s \in Sectors : mem[s] \in {Content(i, "whole"), Blank}
  BY <1>1
<1>5. ChipTypeOK
  <2>1. \A s \in Sectors : mem[s] \in Contents
    BY <1>1, <1>4 DEF Contents, Content, Blank, AnyImage
  <2>2. mem \in [Sectors -> Contents]
    BY <1>1, <2>1
  <2>3. op \in Operations \cup {Idle} /\ mode \in {"spi", "qpi", "asleep"} /\ id_read \subseteq {"90", "9f"}
    BY <1>2
  <2>4. wel \in BOOLEAN /\ bitbang \in BOOLEAN
    BY <1>2, Zenon
  <2>5. tx \in Seq(Transactions)
    <3>1. <<>> \in Seq(Transactions)
      OBVIOUS
    <3> QED
      BY <1>2, <3>1, Zenon
  <2> QED
    BY <2>2, <2>3, <2>4, <2>5 DEF ChipTypeOK
<1>6. EngineTypeOK
  <2>1. /\ NoBlock \in [num : Sectors, img : AnyImage, left : 0 .. 2]
        /\ NoRam \in [Sectors -> Contents]
    BY Constants DEF NoBlock, NoRam, AnyImage, Contents, Blank, Content
  <2> QED
    BY <1>2, <2>1 DEF EngineTypeOK
<1>7. MainTypeOK
  <2>1. Nothing \in [how : {"none", "updater", "fbm", "reset", "detach", "timer"},
                     from : {"none", "flash", "ram"}, kind : {"none", "riscv", "bitstream"},
                     config : Nat, img : AnyImage]
    BY DEF Nothing, AnyImage
  <2> QED
    BY <1>2, <2>1 DEF MainTypeOK
<1>8. HistoryTypeOK
  <2>1. NotSent \in [img : AnyImage, blocks : SUBSET Sectors] /\ installed \in AnyImage
    BY <1>1 DEF NotSent, AnyImage
  <2>2. lives \in 1 .. MaxLives /\ cuts \in 0 .. MaxCuts /\ blocks \in 0 .. MaxBlocks
    BY <1>2, Constants
  <2> QED
    BY <1>2, <2>1, <2>2 DEF HistoryTypeOK, AnyImage
<1>9. ControlAgrees
  BY <1>2 DEF ControlAgrees
<1>10. WiresAgree
  BY <1>2, <1>3 DEF WiresAgree
<1>11. FlashSound
  <2>1. \A s \in Sectors : mem[s].part \in {"whole", "none"}
    BY <1>4 DEF Content, Blank
  <2> QED
    BY <1>2, <1>3, <2>1
    DEF FlashSound, FlashStage, RamStage, ProgramsErased, NeverProgramsTwice, TornOnlyByPowerCut
<1>12. UpdaterRuns /\ StartsAsLaidOut
  BY <1>2 DEF UpdaterRuns, StartsAsLaidOut, Nothing
<1>13. HostAgrees
  <2>1. BlockIsSent /\ SentArrives /\ LoadedStays
    BY <1>2, <1>3 DEF BlockIsSent, SentArrives, LoadedStays, NotSent
  <2>2. InstalledStays
    <3>1. ASSUME i # NoImage PROVE ForFlash(i) /\ Whole(i, mem)
      <4>1. Laid[i].from = "flash" /\ Laid[i].blocks \subseteq Sectors
        BY <1>1, <3>1, Layouts
      <4> QED
        BY <1>1, <3>1, <4>1 DEF Whole, ForFlash
    <3> QED
      BY <1>1, <1>2, <1>3, <3>1 DEF InstalledStays
  <2> QED
    BY <2>1, <2>2 DEF HostAgrees
<1> QED
  BY <1>5, <1>6, <1>7, <1>8, <1>9, <1>10, <1>11, <1>12, <1>13 DEF IInv, BootTypeOK

\* A step that changes nothing.
LEMMA Stutter ==
  ASSUME IInv, UNCHANGED vars
  PROVE  IInv'
BY DEF IInv, vars, spiVars, chipVars, dfuVars, fixed, history, bounds, BootTypeOK, ChipTypeOK,
       EngineTypeOK, MainTypeOK, HistoryTypeOK, ControlAgrees, Early, WiresAgree, Waking, Answered,
       busy, Live, Polled, FlashSound, FlashStage, ErasedFirst, HeadNext, RestLast, UnderWay,
       Sending, Settled, RamStage, ProgramsErased, NeverProgramsTwice, TornOnlyByPowerCut,
       UpdaterRuns, HostAgrees, BlockIsSent, SentArrives, InStore, InstalledStays, LoadedStays,
       Whole, StartsAsLaidOut, Right

\* Every step keeps the invariant.
LEMMA NextKeeps == IInv /\ [Next]_vars => IInv'
<1> SUFFICES ASSUME IInv, [Next]_vars PROVE IInv'
  OBVIOUS
<1>1. CASE Next
  <2>1. BootTypeOK' /\ ControlAgrees' /\ WiresAgree' /\ FlashSound' /\ UpdaterRuns'
    BY <1>1, TypesKept, ControlKept, WiresKept, FlashKept, UpdaterKept
  <2>2. BlockIsSent' /\ SentArrives' /\ InstalledStays' /\ LoadedStays'
    BY <1>1, SentIsKept, ArrivalsKept, InstalledKept, LoadedKept
  <2>3. StartsAsLaidOut'
    BY <1>1, <2>2, StartsKept
  <2> QED
    BY <2>1, <2>2, <2>3 DEF IInv, HostAgrees
<1>2. CASE UNCHANGED vars
  BY <1>2, Stutter
<1> QED
  BY <1>1, <1>2

\* Foboot's variables stay as they should from the first life to the last.
THEOREM BootInvariant == Spec => []IInv
BY Initially, NextKeeps, PTL DEF Spec

\* Every variable of Foboot, the chip and the host keeps its type.
THEOREM BootTypeCorrect == Spec => []BootTypeOK
<1>1. IInv => BootTypeOK
  BY DEF IInv
<1> QED
  BY <1>1, BootInvariant, PTL

\* Whatever dfu_download, the page loop and the chip go through, no page is
\* programmed that is not erased.
THEOREM ProgramsOnce == Spec => []NeverProgramsTwice
<1>1. IInv => NeverProgramsTwice
  BY DEF IInv, FlashSound
<1> QED
  BY <1>1, BootInvariant, PTL

\* reboot() from the timer interrupt or DETACH tears no page.
THEOREM RebootsTearNothing == Spec => []TornOnlyByPowerCut
<1>1. IInv => TornOnlyByPowerCut
  BY DEF IInv, FlashSound
<1> QED
  BY <1>1, BootInvariant, PTL

\* spiInit gets an answer from the chip, however it was left.
THEOREM ChipAlwaysAnswers == Spec => []ChipAnswers
<1>1. IInv => ChipAnswers
  BY DEF IInv, WiresAgree, ChipAnswers
<1> QED
  BY <1>1, BootInvariant, PTL

\* maybe_boot_updater starts a Booster only when it is all there and made for
\* this chip.
THEOREM UpdatersFit == Spec => []UpdaterForThisDevice
<1>1. IInv => UpdaterForThisDevice
  <2>1. SUFFICES ASSUME IInv, started.how = "updater" PROVE UpdaterForThisDevice
    BY DEF UpdaterForThisDevice
  <2>2. /\ mem[UPDATER] = Content(started.img, "whole")
        /\ Laid[started.img].updater = Canonical(chip)
    BY <2>1 DEF IInv, UpdaterRuns
  <2>3. For(Laid[started.img].updater, chip)
    BY <2>2 DEF Canonical, For
  <2> QED
    BY <2>2, <2>3 DEF UpdaterForThisDevice
<1> QED
  BY <1>1, BootInvariant, PTL

\* reboot() starts the image that was acknowledged last, whole, as its author
\* has laid it out.
THEOREM BootsAsLaidOut == Spec => []StartsAsLaidOut
<1>1. IInv => StartsAsLaidOut
  BY DEF IInv
<1> QED
  BY <1>1, BootInvariant, PTL

\* A Booster that is there and made for this chip is seen, when the chip is
\* idle and has told its id.
LEMMA UpdaterIsSeen ==
  ASSUME IInv, NEW i \in Images, pc = "updater", For(Laid[i].updater, chip),
         mem[UPDATER] = Content(i, "whole"), ~busy, id_read = {"90", "9f"}
  PROVE  UpdaterSeen /\ SumHolds
<1>1. mem[UPDATER].img = i /\ mem[UPDATER].part = "whole" /\ i # NoImage
  BY Constants DEF Content
<1>2. Laid[i].updater = Canonical(chip) /\ Laid[i].updater # "none"
  <2>1. Canonical(Laid[i].updater) = Laid[i].updater
    BY Layouts
  <2>2. chip # "none"
    BY Constants DEF IInv, BootTypeOK, MainTypeOK
  <2>3. CASE Laid[i].updater = chip
    BY <2>1, <2>2, <2>3
  <2>4. CASE Laid[i].updater = "c2152815" /\ chip = "c8144015"
    BY <2>4 DEF Canonical
  <2> QED
    BY <2>3, <2>4 DEF For
<1>3. UpdaterWords = UpdaterHead(0, 0, Laid[i].updater)
  BY <1>1, <1>2 DEF UpdaterWords
<1>4. \A id : /\ WordAt(UpdaterHead(0, 0, id), 1) = Signature
              /\ WordAt(UpdaterHead(0, 0, id), 7) = Value(id)
  BY DEF WordAt, UpdaterHead
<1>5. Readable
  BY DEF IInv, WiresAgree, Readable
<1> QED
  BY <1>1, <1>2, <1>3, <1>4, <1>5 DEF UpdaterSeen, SumHolds

\* maybe_boot_updater passes over such a Booster only when an earlier life has
\* left the chip busy.
THEOREM UpdatersIgnoredForCause == Spec => IgnoredForCause
<1>1. IInv /\ [Next]_vars =>
        [ pc = "updater" /\ pc' = "fbm" =>
            \/ lives > 1 /\ (busy \/ id_read # {"90", "9f"})
            \/ \A i \in Images : For(Laid[i].updater, chip) => mem[UPDATER] # Content(i, "whole") ]_vars
  <2>1. SUFFICES ASSUME IInv, Next, pc = "updater", pc' = "fbm",
                        ~(lives > 1) \/ ~(busy \/ id_read # {"90", "9f"}),
                        NEW i \in Images, For(Laid[i].updater, chip), mem[UPDATER] = Content(i, "whole")
                 PROVE  FALSE
    OBVIOUS
  <2>2. maybe_boot_updater /\ ~(UpdaterSeen /\ SumHolds)
    BY <2>1
    DEF Next, Foboot, Start, NervePinch, maybe_boot_updater, maybe_boot_fbm, init_timeout,
        BlockAccepted, dfu_poll, Shift, Host, Block, DnloadEnd, GetStatus, ClrStatus, Abort, Set,
        Detach, Reset, reboot, Jump, TimerIsr, ChipDone, Restart, PowerCut, FreshRam, RunsOn, vars
  <2>3. ~busy /\ id_read = {"90", "9f"}
    <3>1. id_read \subseteq {"90", "9f"}
      BY <2>1 DEF IInv, BootTypeOK, ChipTypeOK
    <3>2. lives > 1 \/ lives = 1
      <4>1. lives \in 1 .. MaxLives /\ MaxLives \in Nat
        BY <2>1, Constants DEF IInv, BootTypeOK, HistoryTypeOK
      <4> QED
        BY <4>1
    <3>3. CASE lives = 1
      BY <2>1, <3>1, <3>3 DEF IInv, WiresAgree, Answered, Early
    <3> QED
      BY <2>1, <3>2, <3>3
  <2> QED
    BY <2>1, <2>2, <2>3, UpdaterIsSeen
<1> QED
  BY <1>1, BootInvariant, PTL DEF Spec, IgnoredForCause

-----------------------------------------------------------------------------
(* What the build tools write is laid out as LayoutAssumption says. *)

\* What the magic words are, and that no value is one of them.
LEMMA Magics ==
  /\ {Code, Autoboot, RamBoot, BootFlags, Sync} \subseteq Words
  /\ Code # Sync /\ Code # BootFlags /\ Code # RamBoot /\ Code # Autoboot
  /\ Autoboot # Sync /\ Autoboot # BootFlags /\ Autoboot # RamBoot
  /\ RamBoot # Sync /\ RamBoot # BootFlags /\ Sync # BootFlags
  /\ \A n \in Nat : Value(n) \in Words /\ Value(n).n = n
                    /\ \A magic \in {Sync, BootFlags, RamBoot} : Value(n) # magic
<1>1. /\ Code \in Words /\ Autoboot \in Words /\ RamBoot \in Words
      /\ BootFlags \in Words /\ Sync \in Words
  <2>1. Code \in Words
    BY DEF Code, Magic, Words
  <2>2. Autoboot \in Words
    BY DEF Autoboot, Magic, Words
  <2>3. RamBoot \in Words
    BY DEF RamBoot, Magic, Words
  <2>4. BootFlags \in Words
    BY DEF BootFlags, Magic, Words
  <2>6. Sync \in Words
    BY DEF Sync, Magic, Words
  <2> QED
    BY <2>1, <2>2, <2>3, <2>4, <2>6
<1>2. /\ Code.kind = "code" /\ Autoboot.kind = "autoboot" /\ RamBoot.kind = "ram boot"
      /\ BootFlags.kind = "boot flags" /\ Sync.kind = "sync"
      /\ \A n : Value(n).kind = "value"
  BY DEF Code, Autoboot, RamBoot, BootFlags, Sync, Magic, Value
<1>3. \A n \in Nat : Value(n) \in Words
  BY DEF Words, Value
<1>4. \A n \in Nat : Value(n).n = n
  BY DEF Value
<1> QED
  BY <1>1, <1>2, <1>3, <1>4

\* The words of one sequence behind those of another.
LEMMA Behind ==
  ASSUME NEW s \in Seq(Words), NEW t \in Seq(Words), NEW r, r = s \o t
  PROVE  /\ r \in Seq(Words) /\ Len(r) = Len(s) + Len(t)
         /\ \A i \in 1 .. Len(s) : r[i] = s[i]
         /\ \A i \in 1 .. Len(t) : r[Len(s) + i] = t[i]
OBVIOUS

\* t is s with an option behind it: its magic, and the value behind that.
Extends(t, s, m, n) ==
  /\ t \in Seq(Words) /\ Len(t) = Len(s) + (IF n = 0 THEN 0 ELSE 2)
  /\ \A magic \in {Sync, BootFlags, RamBoot} :
       Places(t, magic) =
         IF n # 0 /\ m = magic THEN Places(s, magic) \cup {Len(s)} ELSE Places(s, magic)
  /\ \A w \in Nat : w < Len(s) => WordAt(t, w) = WordAt(s, w)
  /\ n # 0 => WordAt(t, Len(s)) = m /\ WordAt(t, Len(s) + 1) = Value(n)

\* An option of the Makefile adds two words or none.
LEMMA OptionAdds ==
  ASSUME NEW s \in Seq(Words), NEW m \in {Autoboot, RamBoot, BootFlags}, NEW n \in Nat,
         NEW t, t = s \o Option(m, n)
  PROVE  Extends(t, s, m, n)
<1> DEFINE o == Option(m, n)
<1>1. Len(s) \in Nat
  OBVIOUS
<1>2. CASE n = 0
  <2>1. t = s
    BY <1>2 DEF Option
  <2>2. Len(t) = Len(s) + 0
    BY <1>1, <2>1
  <2> QED
    BY <1>2, <2>1, <2>2 DEF Extends
<1>3. CASE n # 0
  <2>1. m \in Words /\ Value(n) \in Words
    BY Magics
  <2>2. o = <<m, Value(n)>>
    BY <1>3 DEF Option
  <2>3. o \in Seq(Words) /\ Len(o) = 2 /\ o[1] = m /\ o[2] = Value(n)
    BY <2>1, <2>2
  <2>4. t = s \o o
    OBVIOUS
  <2> HIDE DEF o
  <2>5. /\ t \in Seq(Words) /\ Len(t) = Len(s) + 2
        /\ \A i \in 1 .. Len(s) : t[i] = s[i]
        /\ t[Len(s) + 1] = m /\ t[Len(s) + 2] = Value(n)
    <3>1. /\ t \in Seq(Words) /\ Len(t) = Len(s) + Len(o)
          /\ \A i \in 1 .. Len(s) : t[i] = s[i]
          /\ \A i \in 1 .. Len(o) : t[Len(s) + i] = o[i]
      <4>1. s \in Seq(Words) /\ o \in Seq(Words) /\ t = s \o o
        BY <2>3, <2>4
      <4> QED
        BY <4>1, SMT
    <3> QED
      BY <1>1, <2>3, <3>1
  <2>6. ASSUME NEW magic \in {Sync, BootFlags, RamBoot}
        PROVE  Places(t, magic) =
                 IF m = magic THEN Places(s, magic) \cup {Len(s)} ELSE Places(s, magic)
    <3>1. t[Len(s) + 2] # magic
      BY <2>5, Magics
    <3>2. ASSUME NEW w
          PROVE  w \in Places(t, magic) <=> w \in Places(s, magic) \/ (w = Len(s) /\ m = magic)
      <4>1. CASE w \in 0 .. Len(s) - 1
        BY <1>1, <2>5, <4>1 DEF Places
      <4>2. CASE w = Len(s)
        BY <1>1, <2>5, <4>2 DEF Places
      <4>3. CASE w = Len(s) + 1
        BY <1>1, <2>5, <3>1, <4>3 DEF Places
      <4>4. CASE w \notin 0 .. Len(s) + 1
        BY <1>1, <2>5, <4>4 DEF Places
      <4> QED
        BY <1>1, <4>1, <4>2, <4>3, <4>4
    <3> QED
      BY <3>2
  <2>7. \A w \in Nat : w < Len(s) => WordAt(t, w) = WordAt(s, w)
    BY <1>1, <2>5 DEF WordAt
  <2>8. WordAt(t, Len(s)) = m /\ WordAt(t, Len(s) + 1) = Value(n)
    BY <1>1, <2>5 DEF WordAt
  <2> QED
    BY <1>3, <2>5, <2>6, <2>7, <2>8 DEF Extends
<1> QED
  BY <1>2, <1>3

\* Programs built by the Makefile, with any of the options and values, are laid
\* out as dfu_download and reboot() expect.
THEOREM ProgramsAreWellLaid ==
  ASSUME NEW timeout \in Nat, NEW load \in Nat, NEW config \in Nat, NEW img,
         img.head = Program(timeout, load, config), img.kind = "riscv", img.config = config,
         img.from = IF load = 0 THEN "flash" ELSE "ram"
  PROVE  WellLaid(img)
<1> DEFINE a == <<Code>>
           b == a \o Option(Autoboot, timeout)
           c == b \o Option(RamBoot, load)
           d == c \o Option(BootFlags, config)
<1>1. a \in Seq(Words) /\ Len(a) = 1 /\ a[1] = Code
  BY Magics
<1>2. \A magic \in {Sync, BootFlags, RamBoot} : Places(a, magic) = {}
  BY <1>1, Magics DEF Places
<1>3. /\ b = a \o Option(Autoboot, timeout) /\ c = b \o Option(RamBoot, load)
      /\ d = c \o Option(BootFlags, config) /\ d = Program(timeout, load, config)
  BY DEF Program
<1> HIDE DEF a, b, c, d
<1>4. /\ b \in Seq(Words) /\ Len(b) = IF timeout = 0 THEN 1 ELSE 3
      /\ \A magic \in {Sync, BootFlags, RamBoot} : Places(b, magic) = {}
  <2>1. /\ b \in Seq(Words) /\ Len(b) = Len(a) + (IF timeout = 0 THEN 0 ELSE 2)
        /\ \A magic \in {Sync, BootFlags, RamBoot} :
             Places(b, magic) = IF timeout # 0 /\ Autoboot = magic THEN Places(a, magic) \cup {Len(a)}
                                ELSE Places(a, magic)
    <3>1. Extends(b, a, Autoboot, timeout)
      BY <1>1, <1>3, OptionAdds
    <3> QED
      BY <3>1 DEF Extends
  <2>2. \A magic \in {Sync, BootFlags, RamBoot} : Autoboot # magic
    BY Magics
  <2>3. Len(b) = IF timeout = 0 THEN 1 ELSE 3
    BY <1>1, <2>1
  <2> QED
    BY <1>2, <2>1, <2>2, <2>3
<1>5. /\ c \in Seq(Words) /\ Len(c) = Len(b) + (IF load = 0 THEN 0 ELSE 2)
      /\ Places(c, Sync) = {} /\ Places(c, BootFlags) = {}
      /\ Places(c, RamBoot) = IF load = 0 THEN {} ELSE {Len(b)}
      /\ load # 0 => WordAt(c, Len(b) + 1) = Value(load)
  <2>1. /\ c \in Seq(Words) /\ Len(c) = Len(b) + (IF load = 0 THEN 0 ELSE 2)
        /\ \A magic \in {Sync, BootFlags, RamBoot} :
             Places(c, magic) = IF load # 0 /\ RamBoot = magic THEN Places(b, magic) \cup {Len(b)}
                                ELSE Places(b, magic)
        /\ load # 0 => WordAt(c, Len(b) + 1) = Value(load)
    <3>1. Extends(c, b, RamBoot, load)
      BY <1>4, <1>3, OptionAdds
    <3> QED
      BY <3>1 DEF Extends
  <2>2. RamBoot # Sync /\ RamBoot # BootFlags
    BY Magics
  <2> QED
    BY <1>4, <2>1, <2>2
<1>6. /\ Places(d, Sync) = {} /\ Places(d, BootFlags) = IF config = 0 THEN {} ELSE {Len(c)}
      /\ Places(d, RamBoot) = Places(c, RamBoot)
      /\ \A w \in Nat : w < Len(c) => WordAt(d, w) = WordAt(c, w)
      /\ config # 0 => WordAt(d, Len(c) + 1) = Value(config)
  <2>1. /\ \A magic \in {Sync, BootFlags, RamBoot} :
             Places(d, magic) = IF config # 0 /\ BootFlags = magic THEN Places(c, magic) \cup {Len(c)}
                                ELSE Places(c, magic)
        /\ \A w \in Nat : w < Len(c) => WordAt(d, w) = WordAt(c, w)
        /\ config # 0 => WordAt(d, Len(c) + 1) = Value(config)
    <3>1. Extends(d, c, BootFlags, config)
      BY <1>5, <1>3, OptionAdds
    <3> QED
      BY <3>1 DEF Extends
  <2>2. BootFlags # Sync /\ BootFlags # RamBoot
    BY Magics
  <2> QED
    BY <1>5, <2>1, <2>2
<1>7. img.head = d
  BY <1>3
<1>8. Len(b) \in {1, 3} /\ Len(c) \in {1, 3, 5}
  BY <1>4, <1>5
<1>9. \/ Places(d, BootFlags) = {} /\ config = 0
      \/ \E w \in 0 .. 30 : Places(d, BootFlags) = {w} /\ WordAt(d, w + 1) = Value(config)
  <2>1. CASE config = 0
    BY <1>6, <2>1
  <2>2. CASE config # 0
    <3>1. Len(c) \in 0 .. 30
      BY <1>8
    <3> QED
      BY <1>6, <2>2, <3>1
  <2> QED
    BY <2>1, <2>2
<1>10. CASE load = 0
  <2>1. Places(d, RamBoot) = {} /\ img.from # "ram"
    BY <1>5, <1>6, <1>10
  <2> QED
    BY <1>6, <1>7, <1>9, <2>1 DEF WellLaid
<1>11. CASE load # 0
  <2>1. Places(d, RamBoot) = {Len(b)} /\ img.from = "ram"
    BY <1>5, <1>6, <1>11
  <2>2. WordAt(d, Len(b) + 1) = Value(load)
    <3>1. Len(b) + 1 \in Nat /\ Len(b) + 1 < Len(c)
      BY <1>5, <1>8, <1>11
    <3> QED
      BY <1>5, <1>6, <1>11, <3>1
  <2>3. WordAt(d, Len(b) + 1).n # 0
    BY <1>11, <2>2, Magics
  <2>4. \E w \in 0 .. 13 : Places(d, RamBoot) = {w} /\ WordAt(d, w + 1).n # 0
    <3>1. Len(b) \in 0 .. 13
      BY <1>8
    <3> QED
      BY <2>1, <2>3, <3>1
  <2> QED
    BY <1>6, <1>7, <1>9, <2>1, <2>4 DEF WellLaid
<1> QED
  BY <1>10, <1>11

\* Bitstreams that got a timeout are laid out so as well, whatever words their
\* configuration holds: the comment keeps them out of the search for RamBoot,
\* the sync word comes before them.
THEOREM BitstreamsAreWellLaid ==
  ASSUME NEW words \in Seq(Words), NEW timeout \in Nat, NEW img,
         img.head = AddTimeout(Bitstream(words), timeout), img.kind = "bitstream",
         img.config = 0, img.from = "flash"
  PROVE  WellLaid(img)
<1> DEFINE b == Bitstream(words)
           p == <<Code, Autoboot, Value(timeout), Code>>
           t == Tail(b)
           h == p \o t
<1>1. /\ b \in Seq(Words) /\ b # <<>> /\ Len(b) = 2 + Len(words) /\ b[2] = Sync /\ Len(words) \in Nat
  <2> DEFINE q == <<Code, Sync>>
  <2>1. q \in Seq(Words) /\ Len(q) = 2 /\ q[2] = Sync
    BY Magics
  <2>2. b = q \o words
    BY DEF Bitstream
  <2> HIDE DEF q, b
  <2>3. b \in Seq(Words) /\ Len(b) = Len(q) + Len(words) /\ \A i \in 1 .. Len(q) : b[i] = q[i]
    <3>1. q \in Seq(Words) /\ words \in Seq(Words) /\ b = q \o words
      BY <2>1, <2>2
    <3> QED
      BY <3>1, Behind
  <2>4. Len(words) \in Nat
    OBVIOUS
  <2> QED
    BY <2>1, <2>3, <2>4
<1>2. p \in Seq(Words) /\ Len(p) = 4 /\ p[1] = Code /\ p[2] = Autoboot /\ p[3] = Value(timeout) /\ p[4] = Code
  BY Magics
<1>3. img.head = h
  BY DEF AddTimeout
<1> HIDE DEF b, p
<1>4. t \in Seq(Words) /\ Len(t) = 1 + Len(words) /\ t[1] = Sync
  BY <1>1
<1> HIDE DEF t
<1>5. /\ h \in Seq(Words) /\ Len(h) = Len(p) + Len(t)
      /\ \A i \in 1 .. Len(p) : h[i] = p[i]
      /\ \A i \in 1 .. Len(t) : h[Len(p) + i] = t[i]
  <2>1. p \in Seq(Words) /\ t \in Seq(Words) /\ h = p \o t
    BY <1>2, <1>4
  <2> HIDE DEF h
  <2> QED
    BY <2>1, Behind
<1> HIDE DEF h
<1>6. /\ Len(h) = 5 + Len(words) /\ h[1] = Code /\ h[2] = Autoboot /\ h[3] = Value(timeout)
      /\ h[4] = Code /\ h[5] = Sync
  <2>1. Len(h) = 5 + Len(words)
    BY <1>1, <1>2, <1>4, <1>5
  <2>2. \A i \in 1 .. 4 : h[i] = p[i]
    BY <1>2, <1>5
  <2>3. h[4 + 1] = t[1]
    <3>1. 1 \in 1 .. Len(t)
      BY <1>1, <1>4
    <3> QED
      BY <1>2, <1>5, <3>1
  <2> QED
    BY <1>2, <1>4, <2>1, <2>2, <2>3
<1>7. 4 \in Places(h, Sync)
  BY <1>1, <1>6 DEF Places
<1>8. \A magic \in {RamBoot, BootFlags} : \A w \in Places(h, magic) : w > 4
  <2>1. SUFFICES ASSUME NEW magic \in {RamBoot, BootFlags}, NEW w \in Places(h, magic) PROVE w > 4
    OBVIOUS
  <2>2. w \in Nat /\ h[w + 1] = magic
    BY <1>1, <1>6, <2>1 DEF Places
  <2>3. /\ h[1] # magic /\ h[2] # magic /\ h[3] # magic /\ h[4] # magic /\ h[5] # magic
    BY <1>6, <2>1, Magics
  <2> QED
    BY <2>2, <2>3
<1>9. \E s \in Places(h, Sync) : s < 32 /\ \A w \in Places(h, BootFlags) : s < w
  BY <1>7, <1>8
<1>10. \A w \in Places(h, RamBoot) : w > 3
  <2>1. ASSUME NEW w \in Places(h, RamBoot) PROVE w > 3
    <3>1. w > 4 /\ w \in Int
      BY <1>1, <1>6, <1>8, <2>1 DEF Places
    <3> QED
      BY <3>1
  <2> QED
    BY <2>1
<1>11. img.kind # "riscv"
  OBVIOUS
<1> QED
  BY <1>3, <1>9, <1>10, <1>11 DEF WellLaid

\* init_timeout finds the timeout of a program, as the byte it is kept in, and
\* none where none was given.
THEOREM TimeoutOfProgram ==
  ASSUME NEW timeout \in Nat, NEW load \in Nat, NEW config \in Nat
  PROVE  Timeout(Program(timeout, load, config)) = timeout % 256
<1> DEFINE a == <<Code>>
           b == a \o Option(Autoboot, timeout)
           c == b \o Option(RamBoot, load)
           d == c \o Option(BootFlags, config)
<1>1. a \in Seq(Words) /\ Len(a) = 1
  BY Magics
<1>2. /\ b = a \o Option(Autoboot, timeout) /\ c = b \o Option(RamBoot, load)
      /\ d = c \o Option(BootFlags, config) /\ d = Program(timeout, load, config)
  BY DEF Program
<1> HIDE DEF a, b, c, d
<1>3. Extends(b, a, Autoboot, timeout)
  BY <1>1, <1>2, OptionAdds
<1>4. Extends(c, b, RamBoot, load)
  <2>1. b \in Seq(Words)
    BY <1>3 DEF Extends
  <2> QED
    BY <1>2, <2>1, OptionAdds
<1>5. Extends(d, c, BootFlags, config)
  <2>1. c \in Seq(Words)
    BY <1>4 DEF Extends
  <2> QED
    BY <1>2, <2>1, OptionAdds
<1>6. Autoboot # Code /\ Autoboot # RamBoot /\ Autoboot # BootFlags /\ Value(timeout).n = timeout
  BY Magics
<1>7. CASE timeout = 0
  <2>1. Len(b) = 1 /\ Len(c) = IF load = 0 THEN 1 ELSE 3
    BY <1>1, <1>3, <1>4, <1>7 DEF Extends
  <2>2. Len(d) = Len(c) + IF config = 0 THEN 0 ELSE 2
    BY <1>5 DEF Extends
  <2>3. WordAt(d, 1) # Autoboot
    <3>1. CASE load # 0
      <4>1. WordAt(c, 1) = RamBoot
        <5>1. WordAt(c, Len(b)) = RamBoot
          <6>1. load # 0 => WordAt(c, Len(b)) = RamBoot /\ WordAt(c, Len(b) + 1) = Value(load)
            BY <1>4, Zenon DEF Extends
          <6> QED
            BY <3>1, <6>1
        <5> QED
          BY <2>1, <5>1
      <4>2. WordAt(d, 1) = WordAt(c, 1)
        BY <1>5, <2>1, <3>1 DEF Extends
      <4> QED
        BY <1>6, <4>1, <4>2
    <3>2. CASE load = 0 /\ config # 0
      <4>1. WordAt(d, 1) = BootFlags
        <5>1. WordAt(d, Len(c)) = BootFlags
          <6>1. config # 0 => WordAt(d, Len(c)) = BootFlags /\ WordAt(d, Len(c) + 1) = Value(config)
            BY <1>5, Zenon DEF Extends
          <6> QED
            BY <3>2, <6>1
        <5> QED
          BY <2>1, <3>2, <5>1
      <4> QED
        BY <1>6, <4>1
    <3>3. CASE load = 0 /\ config = 0
      BY <1>6, <2>1, <2>2, <3>3 DEF WordAt
    <3> QED
      BY <3>1, <3>2, <3>3
  <2> QED
    BY <1>2, <1>7, <2>3 DEF Timeout
<1>8. CASE timeout # 0
  <2>1. Len(b) = 3 /\ WordAt(b, 1) = Autoboot /\ WordAt(b, 2) = Value(timeout)
    <3>1. Len(b) = Len(a) + 2
      BY <1>3, <1>8 DEF Extends
    <3>2. WordAt(b, Len(a)) = Autoboot /\ WordAt(b, Len(a) + 1) = Value(timeout)
      <4>1. timeout # 0 => WordAt(b, Len(a)) = Autoboot /\ WordAt(b, Len(a) + 1) = Value(timeout)
        BY <1>3, Zenon DEF Extends
      <4> QED
        BY <1>8, <4>1
    <3> QED
      BY <1>1, <3>1, <3>2
  <2>2. Len(c) \in {3, 5} /\ WordAt(c, 1) = Autoboot /\ WordAt(c, 2) = Value(timeout)
    BY <1>4, <2>1 DEF Extends
  <2>3. WordAt(d, 1) = Autoboot /\ WordAt(d, 2) = Value(timeout)
    <3>1. \A w \in Nat : w < Len(c) => WordAt(d, w) = WordAt(c, w)
      BY <1>5, Zenon DEF Extends
    <3>2. WordAt(d, 1) = WordAt(c, 1) /\ WordAt(d, 2) = WordAt(c, 2)
      BY <2>2, <3>1
    <3> QED
      BY <2>2, <3>2
  <2> QED
    BY <1>2, <1>6, <2>3 DEF Timeout
<1> QED
  BY <1>7, <1>8

\* The same of the timeout that add_autoboot_timeout.py puts into a bitstream.
THEOREM TimeoutOfBitstream ==
  ASSUME NEW words \in Seq(Words), NEW timeout \in Nat
  PROVE  /\ Timeout(AddTimeout(Bitstream(words), timeout)) = timeout % 256
         /\ Timeout(Bitstream(words)) = 0
<1> DEFINE q == <<Code, Sync>>
           b == Bitstream(words)
           p == <<Code, Autoboot, Value(timeout), Code>>
           t == Tail(b)
           h == p \o t
<1>1. q \in Seq(Words) /\ Len(q) = 2 /\ q[2] = Sync
  BY Magics
<1>2. p \in Seq(Words) /\ Len(p) = 4 /\ p[2] = Autoboot /\ p[3] = Value(timeout)
  BY Magics
<1>3. b = q \o words /\ h = AddTimeout(b, timeout) /\ h = p \o t /\ t = Tail(b) /\ b = Bitstream(words)
  BY DEF Bitstream, AddTimeout
<1> HIDE DEF q, b, p, t, h
<1>4. b \in Seq(Words) /\ Len(b) = Len(q) + Len(words) /\ b[2] = Sync /\ Len(words) \in Nat
  <2>1. q \in Seq(Words) /\ words \in Seq(Words) /\ b = q \o words
    BY <1>1, <1>3
  <2>2. b \in Seq(Words) /\ Len(b) = Len(q) + Len(words) /\ \A i \in 1 .. Len(q) : b[i] = q[i]
    BY <2>1, Behind
  <2> QED
    BY <1>1, <2>2
<1>5. t \in Seq(Words)
  BY <1>1, <1>3, <1>4
<1>6. h \in Seq(Words) /\ Len(h) = Len(p) + Len(t) /\ \A i \in 1 .. Len(p) : h[i] = p[i]
  <2>1. p \in Seq(Words) /\ t \in Seq(Words) /\ h = p \o t
    BY <1>2, <1>3, <1>5
  <2> QED
    BY <2>1, Behind
<1>7. Len(h) \in Nat /\ Len(h) >= 4 /\ h[2] = Autoboot /\ h[3] = Value(timeout)
  <2>1. Len(t) \in Nat
    BY <1>5
  <2> QED
    BY <1>2, <1>6, <2>1
<1>8. WordAt(h, 1) = Autoboot /\ WordAt(h, 2) = Value(timeout)
  BY <1>7 DEF WordAt
<1>9. WordAt(b, 1) = Sync
  BY <1>1, <1>4 DEF WordAt
<1>10. Timeout(h) = timeout % 256
  <2>1. Value(timeout).n = timeout
    BY Magics
  <2> QED
    BY <1>8, <2>1 DEF Timeout
<1>11. Timeout(b) = 0
  <2>1. Sync # Autoboot
    BY Magics
  <2> QED
    BY <1>9, <2>1 DEF Timeout
<1> QED
  BY <1>3, <1>10, <1>11

=============================================================================
