------------------------------ MODULE Booster ------------------------------
(***************************************************************************)
(* Booster, the program that replaces Foboot itself: booster/src/main.c,   *)
(* the decision of sw/src/main.c to start it, the package make-booster.c   *)
(* lays out, and power cuts at any moment.                                 *)
(*                                                                         *)
(* The package downloaded to 0x40000 (the new image, then Booster at       *)
(* 0x5a000) is not written by Booster, except for its own first sector.    *)
(* The unit is a program page.  A page holds "old", "new" (what the RAM    *)
(* copy cached_image has there; zeros beyond the end of the image), "user" *)
(* (the software at FBM_OFFSET, behind the image), "junk" (RAM that is not *)
(* the image), "erased" or "torn" (an operation was cut).  Page 0 has the  *)
(* multiboot header: in the new image its byte 9 is patched to start the   *)
(* recovery copy at 0x40000; "done" is that page with byte 9 cleared.      *)
(***************************************************************************)
EXTENDS Integers, FiniteSets

CONSTANTS
  PAGES,         \* program pages in an erase sector (16)
  IMAGE_PAGES,   \* program pages of the new image (104250 bytes are 408)
  SECTORS,       \* erase sectors the new image reaches into (26)
  SECTOR_LIMIT,  \* erase sectors below address 131072 (32)
  WORD,          \* pages a uint32_t byte counter can count (2^24)
  MaxCuts,       \* bound: power cuts
  MaxFaults      \* bound: pages that fail to program

VARIABLES
  target,        \* the flash from address 0 up to 131072, page by page
  booster,       \* the first sector of Booster: valid, erased or torn
  op,            \* the erase or program the chip is busy with
  pc,            \* what the processor runs
  target_addr, bytes_left, page_offset,    \* the locals, in pages
  error_code,    \* the last error Booster showed, NO_ERROR when it starts
  package,       \* whether the package is one this device takes, or has
                 \* been overwritten by another download
  original,      \* history: target before the update
  cuts, faults

ram  == <<pc, target_addr, bytes_left, page_offset>>
vars == <<target, booster, op, ram, error_code, package, original, cuts, faults>>

ASSUME BoosterGeometry ==
  /\ PAGES \in Nat \ {0} /\ IMAGE_PAGES \in Nat \ {0}
  /\ SECTORS \in Nat /\ SECTOR_LIMIT \in Nat /\ SECTORS < SECTOR_LIMIT
  /\ (SECTORS - 1) * PAGES < IMAGE_PAGES /\ IMAGE_PAGES <= SECTORS * PAGES
  /\ WORD \in Nat /\ WORD > SECTOR_LIMIT * PAGES
  /\ MaxCuts \in Nat /\ MaxFaults \in Nat

Page  == 0 .. SECTOR_LIMIT * PAGES - 1
Image == 0 .. IMAGE_PAGES - 1            \* the pages the new image fills
Tail  == IMAGE_PAGES .. SECTORS * PAGES - 1
Spare == SECTORS * PAGES .. SECTOR_LIMIT * PAGES - 1

\* The pages of the sector that starts at page a.
Sector(a) == a .. a + PAGES - 1

\* Operations of the chip.
Idle      == [kind |-> "none", at |-> 0]
Erase(a)  == [kind |-> "erase", at |-> a]
Write(a)  == [kind |-> "write", at |-> a]
Retarget  == [kind |-> "retarget", at |-> 0]
Discard   == [kind |-> "discard", at |-> 0]

busy == op # Idle

-----------------------------------------------------------------------------
\* What starts at power-on.  The FPGA follows the header; the primary image
\* works when its pages are all of one version, the recovery copy as long as
\* it is there.
InstalledPage(a) == target[a] = IF a = 0 THEN "done" ELSE "new"
Installed == \A a \in Image : InstalledPage(a)
Primary   == Installed \/ \A a \in Image : target[a] = original[a]
Boots ==
  IF target[0] = "new" /\ package # "overwritten" THEN "recovery"
  ELSE IF target[0] \in {"old", "done"} /\ Primary THEN "primary"
  ELSE "dead"

\* Foboot has just taken the package and reset; some sectors may be the
\* same in both versions, the rest of the last one may be zero already.
Init ==
  /\ target \in [Page -> {"old", "new", "user", "done"}]
  /\ target[0] \in {"old", "done"}
  /\ \A a \in Page : (a \in Spare <=> target[a] = "user") /\ (target[a] = "done" => a = 0)
  /\ original = target
  /\ booster = "valid" /\ op = Idle
  /\ pc = "init" /\ target_addr = 0 /\ bytes_left = 0 /\ page_offset = 0
  /\ error_code = "NO_ERROR"
  /\ package \in {"good", "bad"}
  /\ cuts = 0 /\ faults = 0

Goto(label) == pc' = label /\ UNCHANGED <<target_addr, bytes_left, page_offset>>

\* Power comes back.
PowerOn ==
  /\ pc = "off"
  /\ Goto(IF Boots = "dead" THEN "dead" ELSE "init")
  /\ UNCHANGED <<target, booster, op, error_code, package, original, cuts, faults>>

\* init() of sw/src/main.c: maybe_boot_updater starts Booster when it is
\* there and its checksum holds, unless the user pinches the pads; else
\* Foboot goes on.
init(pinch) ==
  /\ pc = "init"
  /\ IF ~pinch /\ booster = "valid"
       THEN Goto("validate") /\ error_code' = "NO_ERROR"
       ELSE Goto("foboot") /\ UNCHANGED error_code
  /\ UNCHANGED <<target, booster, op, package, original, cuts, faults>>

\* A user who has bypassed Booster downloads a program: it goes to 0x40000,
\* over the package and the recovery copy in it, and may reach Booster.
Download ==
  /\ pc = "foboot"
  /\ package' = "overwritten"
  /\ booster' \in {booster, "torn"}
  /\ UNCHANGED <<target, op, ram, error_code, original, cuts, faults>>

\* Mutant: the hash, header and SPI id of the package are not checked.
AnyPackage == TRUE

\* image_length, xxhash, multiboot_reference and spi_id agree.
ValidPackage == package = "good"

\* The checks at the head of fobooster_main, and what it starts from.
Validate ==
  /\ pc = "validate"
  /\ IF ValidPackage
       THEN /\ pc' = "compare"
            /\ target_addr' = 0 /\ bytes_left' = IMAGE_PAGES /\ page_offset' = 0
            /\ UNCHANGED error_code
       ELSE Goto("retarget") /\ error_code' = "HASH_MISMATCH"
  /\ UNCHANGED <<target, booster, op, package, original, cuts, faults>>

\* Mutant: the loop runs to the limit, whatever is left of the image.
UpToLimit == target_addr < SECTOR_LIMIT * PAGES

\* while (bytes_left && (target_addr < 131072))
MoreSectors == bytes_left # 0 /\ target_addr < SECTOR_LIMIT * PAGES

\* Mutant: every sector is written again.
NeverMatches(equal) == FALSE

\* memcmp over a whole sector.  A chip that is still busy does not answer
\* with its content; behind the image the RAM copy ends, and the outcome
\* equal is not determined.
Matches(equal) ==
  /\ ~busy
  /\ \A a \in Sector(target_addr) : a \notin Spare => target[a] = "new"
  /\ target_addr \in Spare => equal

\* Compare the next sector, and skip it when it is there already.
Compare(equal) ==
  /\ pc = "compare"
  /\ IF ~MoreSectors THEN Goto("check")
     ELSE IF Matches(equal)
       THEN /\ target_addr' = target_addr + PAGES
            /\ bytes_left' = (bytes_left - PAGES) % WORD
            /\ UNCHANGED <<pc, page_offset>>
     ELSE Goto("erase")
  /\ UNCHANGED <<target, booster, op, error_code, package, original, cuts, faults>>

\* ftfl_begin_erase_sector waits for the chip, then erases.
EraseSector ==
  /\ pc = "erase" /\ ~busy
  /\ op' = Erase(target_addr)
  /\ pc' = "program" /\ page_offset' = 0
  /\ UNCHANGED <<target_addr, bytes_left>>
  /\ UNCHANGED <<target, booster, error_code, package, original, cuts, faults>>

\* Mutant: one page too many.
OnePageMore == bytes_left # 0 /\ page_offset <= PAGES

\* The condition of the page loop.
MorePages == bytes_left # 0 /\ page_offset < PAGES

\* One turn of the page loop: wait for the chip, program a page.
ProgramPage ==
  /\ pc = "program"
  /\ IF MorePages
       THEN /\ ~busy
            /\ op' = Write(target_addr)
            /\ target_addr' = target_addr + 1
            /\ page_offset' = page_offset + 1
            /\ bytes_left' = bytes_left - 1
            /\ UNCHANGED pc
       ELSE Goto("compare") /\ UNCHANGED op
  /\ UNCHANGED <<target, booster, error_code, package, original, cuts, faults>>

\* Mutant: the image is taken to be right.
Unchecked == TRUE

\* memcmp over the image.
ImageMatches == \A a \in Image : target[a] = "new"

\* The final check.  The chip may be programming the last page still; the
\* loop that reads all of the image first takes longer than that.
FinalCheck ==
  /\ pc = "check" /\ ~busy
  /\ Goto("retarget")
  /\ error_code' = IF ImageMatches THEN "NO_ERROR" ELSE "FINAL_IMAGE_MISMATCH_END"
  /\ UNCHANGED <<target, booster, op, package, original, cuts, faults>>

\* erase_booster, first half: clear byte 9 of the header.
RetargetHeader ==
  /\ pc = "retarget" /\ ~busy
  /\ op' = Retarget
  /\ Goto("discard")
  /\ UNCHANGED <<target, booster, error_code, package, original, cuts, faults>>

\* Mutant: the image is erased instead of Booster.
DiscardNothing == [kind |-> "erase", at |-> IMAGE_PAGES]

\* The operation erase_booster sends last.
DiscardBooster == Discard

\* erase_booster, second half: erase the first sector of Booster.
EraseBooster ==
  /\ pc = "discard" /\ ~busy
  /\ op' = DiscardBooster
  /\ Goto("finish")
  /\ UNCHANGED <<target, booster, error_code, package, original, cuts, faults>>

\* finish_flashing reboots into the image at 0x40000; error() blinks.
Finish ==
  /\ pc = "finish" /\ ~busy
  /\ Goto(IF error_code = "NO_ERROR" THEN "init" ELSE "error")
  /\ UNCHANGED <<target, booster, op, error_code, package, original, cuts, faults>>

-----------------------------------------------------------------------------
\* The page an operation that runs to its end, or fails, leaves at a.
Stored(a) ==
  CASE op.kind = "erase" /\ a \in Sector(op.at) -> "erased"
    [] op.kind = "write" /\ a = op.at ->
         IF target[a] # "erased" THEN "torn" ELSE IF a \in Spare THEN "junk" ELSE "new"
    [] op.kind = "retarget" /\ a = 0 ->
         CASE target[a] = "new" -> "done" [] target[a] = "erased" -> "torn" [] OTHER -> target[a]
    [] OTHER -> target[a]

\* The pages the operation in progress touches.  Clearing byte 9 of an
\* image that is in place changes one bit, which is either there or not.
Torn == {a \in Page : Stored(a) # target[a] /\ op.kind \in {"erase", "write"}}

\* The chip finishes.
ChipDone ==
  /\ busy
  /\ target' = [a \in Page |-> Stored(a)]
  /\ booster' = IF op.kind = "discard" THEN "erased" ELSE booster
  /\ op' = Idle
  /\ UNCHANGED <<ram, error_code, package, original, cuts, faults>>

\* The chip finishes, but the page does not hold what was written.
ProgramFault ==
  /\ busy /\ op.kind = "write" /\ faults < MaxFaults
  /\ faults' = faults + 1
  /\ target' = [target EXCEPT ![op.at] = "torn"]
  /\ op' = Idle
  /\ UNCHANGED <<booster, ram, error_code, package, original, cuts>>

\* Power is cut: RAM is lost, and what the chip was busy with is undone,
\* torn or done.
PowerCut ==
  /\ pc \notin {"off", "dead"} /\ cuts < MaxCuts
  /\ cuts' = cuts + 1
  /\ pc' = "off" /\ target_addr' = 0 /\ bytes_left' = 0 /\ page_offset' = 0
  /\ op' = Idle
  /\ \/ UNCHANGED target
     \/ target' = [a \in Page |-> Stored(a)]
     \/ Torn # {} /\ target' = [a \in Page |-> IF a \in Torn THEN "torn" ELSE target[a]]
  /\ IF op.kind = "discard" THEN booster' \in {"valid", "torn", "erased"} ELSE UNCHANGED booster
  /\ UNCHANGED <<error_code, package, original, faults>>

\* Nothing more happens on its own.
Rest == pc \in {"foboot", "error", "dead"} /\ UNCHANGED vars

fobooster_main ==
  \/ Validate
  \/ \E equal \in BOOLEAN : Compare(equal)
  \/ EraseSector \/ ProgramPage \/ FinalCheck
  \/ RetargetHeader \/ EraseBooster \/ Finish

Next ==
  \/ PowerOn \/ (\E pinch \in BOOLEAN : init(pinch)) \/ Download
  \/ fobooster_main
  \/ ChipDone \/ ProgramFault \/ PowerCut \/ Rest

Spec == Init /\ [][Next]_vars

\* The processor runs, the chip finishes what it starts, and the user plugs
\* the device in again.
Fairness ==
  /\ WF_vars(PowerOn) /\ WF_vars(\E pinch \in BOOLEAN : init(pinch))
  /\ WF_vars(fobooster_main) /\ WF_vars(ChipDone)

FairSpec == Spec /\ Fairness

-----------------------------------------------------------------------------
Content == {"old", "new", "done", "user", "junk", "erased", "torn"}

\* The variables have their types; page_offset stays within the sector.
TypeOK ==
  /\ target \in [Page -> Content] /\ original \in [Page -> Content]
  /\ booster \in {"valid", "torn", "erased"}
  /\ op \in [kind : {"none", "erase", "write", "retarget", "discard"}, at : Page]
  /\ pc \in {"off", "dead", "init", "foboot", "validate", "compare", "erase", "program",
             "check", "retarget", "discard", "finish", "error"}
  /\ target_addr \in 0 .. SECTOR_LIMIT * PAGES
  /\ bytes_left \in 0 .. WORD - 1 /\ page_offset \in 0 .. PAGES
  /\ error_code \in {"NO_ERROR", "HASH_MISMATCH", "FINAL_IMAGE_MISMATCH_END"}
  /\ package \in {"good", "bad", "overwritten"}
  /\ cuts \in 0 .. MaxCuts /\ faults \in 0 .. MaxFaults

\* Power can be cut at any moment of the update and the device comes back
\* with an image that works, unless the page of the multiboot header itself
\* is gone, or Booster has found that the image does not hold, or the user has
\* bypassed it in the middle and downloaded over the copy the header leads
\* to: byte 9 goes to 0x04 before any other sector changes and back only
\* after the check.
BrickOnlyInHeader ==
  Boots = "dead" =>
    \/ target[0] \in {"erased", "torn"}
    \/ error_code = "FINAL_IMAGE_MISMATCH_END"
    \/ target[0] = "new" /\ package = "overwritten"

\* Once the first sector is complete, and so the header leads to the recovery
\* copy, it is not touched again, in this run of Booster or after any number
\* of power cuts, until the new image is complete and byte 9 is cleared: the
\* compare of a restarted Booster skips it.  (Before it is complete it is
\* erased again, see README.)
FirstSectorHolds ==
  [][ (\A a \in Sector(0) : target[a] = "new") =>
        \/ Boots' \in {"recovery", "primary"}
        \/ error_code = "FINAL_IMAGE_MISMATCH_END"
        \/ package' = "overwritten" ]_vars

\* When Booster is gone and no error is shown, the new image is installed:
\* no power cut makes Booster delete itself before its work is done.  (A
\* download may overwrite it.)
GoneMeansInstalled ==
  booster # "valid" /\ error_code = "NO_ERROR" /\ package # "overwritten" => Installed

\* A package that is not for this device, or does not hold, is thrown away
\* and leaves the bootloader in place, in which error() leaves it too.
BadPackageHarmless == package = "bad" => target = original /\ Boots = "primary"

\* Booster stays out of the software behind the image, when the rest of the
\* last sector was not zero before the update.
SpareKept ==
  (\E a \in Tail : original[a] # "new") => \A a \in Spare : target[a] = "user"

\* Booster, once started, does not run for ever or again and again: the
\* update ends, whatever the power does.
UpdateEnds == <>[](pc \in {"foboot", "error", "dead"})

\* What booster/README.md says of an unplugged device: Booster starts back
\* up where it left off (or the new bootloader does).
StartsBackUp == pc = "off" => Boots # "dead"

\* What booster/README.md says of the resumed update: a sector whose image
\* pages are all in place is not erased.
OnlyWhatNeedsUpdating ==
  [][ pc = "erase" /\ pc' = "program" =>
        \E a \in Sector(target_addr) \cap Image : target[a] # "new" ]_vars

=============================================================================
