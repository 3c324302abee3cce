--------------------------- MODULE BoosterProofs ----------------------------
(***************************************************************************)
(* Proofs about the update: its safety properties hold for every size of   *)
(* sector, image and flash that satisfies BoosterGeometry, and any number  *)
(* of power cuts and of pages that fail to program.                        *)
(***************************************************************************)
EXTENDS Booster, TLAPS

-----------------------------------------------------------------------------
(* The inductive invariant. *)

\* The header starts the primary image; the image is complete but for byte 9;
\* the first sector is complete.
InHeader == target[0] \in {"old", "done"}
AllNew   == \A a \in Image : target[a] = "new"
FirstNew == \A a \in Sector(0) : target[a] = "new"

\* A sector starts at page a.
Aligned(a) == \E k \in Nat : a = k * PAGES

\* What the chip is busy with is what the program has just asked for; from
\* the checks on, the package is good and no error is shown; and the program
\* that deletes Booster is not running any more when Booster is gone.
PcAgrees ==
  /\ op.kind = "none" => op = Idle
  /\ op.kind = "erase" => pc = "program" /\ page_offset = 0 /\ target_addr = op.at
  /\ op.kind = "write" => pc \in {"program", "compare", "erase", "check"}
  /\ op.kind = "retarget" => pc = "discard"
  /\ op.kind = "discard" => pc = "finish"
  /\ pc \in {"validate", "compare", "erase", "program", "check"} => error_code = "NO_ERROR"
  /\ pc \in {"compare", "erase", "program", "check"} => package = "good"
  /\ pc \in {"retarget", "discard"} /\ error_code = "HASH_MISMATCH" => package # "good"
  /\ booster # "valid" =>
       pc \in {"off", "dead", "init", "foboot", "finish", "error"} /\ op = Idle

\* The cursor stands at the start of a sector, or in the page loop
\* page_offset pages behind one.
CursorAgrees ==
  /\ pc \in {"compare", "erase"} /\ bytes_left # 0 => Aligned(target_addr)
  /\ pc = "erase" => bytes_left # 0 /\ target_addr < SECTOR_LIMIT * PAGES
  /\ pc = "program" =>
       \E s \in Page : Aligned(s) /\ target_addr = s + page_offset
  /\ pc = "program" /\ page_offset = 0 => bytes_left # 0
  /\ op.kind = "write" => target_addr # 0

\* The order of the update.  While the header starts the primary image, that
\* image is whole, because the first sector is the first to be erased and the
\* header the last to be cleared.
HeaderFirst ==
  /\ target[0] \notin {"user", "junk"} /\ original[0] \in {"old", "done"}
  /\ InHeader /\ error_code # "FINAL_IMAGE_MISMATCH_END" => Primary
  /\ pc = "init" /\ InHeader => Primary
  /\ InHeader => /\ pc # "check" /\ op.kind # "write"
                 /\ pc \in {"compare", "erase"} => target_addr = 0 /\ bytes_left # 0
                 /\ pc = "program" => op = Erase(0)
  /\ package # "good" /\ pc \notin {"off", "dead", "foboot"} => InHeader
  /\ (pc = "retarget" \/ op.kind = "retarget") /\ target[0] = "new"
       /\ error_code # "FINAL_IMAGE_MISMATCH_END" => AllNew
  /\ package = "bad" => target = original

\* The first sector is not erased once it is complete, and its first page
\* is programmed only when it is erased.
FirstOnce ==
  /\ pc = "erase" /\ target_addr = 0 => ~FirstNew
  /\ op.kind = "erase" /\ op.at = 0 => ~FirstNew
  /\ pc = "program" /\ target_addr = 0 /\ ~busy => target[0] = "erased"
  /\ op.kind = "write" /\ op.at = 0 => target[0] = "erased"

\* Booster is discarded only when the new image is installed.
DoneBeforeGone ==
  /\ GoneMeansInstalled
  /\ pc = "retarget" /\ error_code = "NO_ERROR" => AllNew
  /\ pc = "discard" /\ error_code = "NO_ERROR" => IF op = Idle THEN Installed ELSE AllNew
  /\ pc = "finish" /\ error_code = "NO_ERROR" => Installed

\* The cursor and what is left of the image add up to the image, so that
\* nothing behind its last sector is touched.  (Only if that sector cannot be
\* skipped as a whole: see MoreSectors, whose counter wraps.)
InsideImage ==
  (\E a \in Tail : original[a] # "new") =>
    /\ \A a \in Spare : target[a] = "user"
    /\ \A a \in Tail : target[a] = "new" => original[a] = "new"
    /\ pc \in {"compare", "erase", "program"} => target_addr + bytes_left = IMAGE_PAGES
    /\ op.kind \in {"erase", "write"} => op.at < IMAGE_PAGES

IInv ==
  /\ TypeOK /\ PcAgrees /\ CursorAgrees
  /\ HeaderFirst /\ FirstOnce /\ DoneBeforeGone /\ InsideImage

-----------------------------------------------------------------------------
(* The geometry, and what an operation of the chip leaves. *)

\* What the rest uses of the geometry.
LEMMA Geometry ==
  /\ PAGES \in Nat /\ PAGES > 0 /\ IMAGE_PAGES \in Nat /\ IMAGE_PAGES > 0
  /\ SECTORS \in Nat /\ SECTOR_LIMIT \in Nat /\ SECTORS < SECTOR_LIMIT
  /\ SECTORS * PAGES \in Nat /\ SECTOR_LIMIT * PAGES \in Nat /\ SECTORS * PAGES < SECTOR_LIMIT * PAGES
  /\ IMAGE_PAGES <= SECTORS * PAGES /\ SECTORS * PAGES < IMAGE_PAGES + PAGES
  /\ WORD \in Nat /\ WORD > SECTOR_LIMIT * PAGES
  /\ MaxCuts \in Nat /\ MaxFaults \in Nat
<1>1. /\ PAGES \in Nat /\ PAGES > 0 /\ IMAGE_PAGES \in Nat /\ IMAGE_PAGES > 0
      /\ SECTORS \in Nat /\ SECTOR_LIMIT \in Nat /\ SECTORS < SECTOR_LIMIT
      /\ IMAGE_PAGES <= SECTORS * PAGES
      /\ WORD \in Nat /\ WORD > SECTOR_LIMIT * PAGES
      /\ MaxCuts \in Nat /\ MaxFaults \in Nat
  BY BoosterGeometry
<1>2. SECTORS * PAGES < IMAGE_PAGES + PAGES
  BY <1>1, BoosterGeometry
<1>3. SECTORS * PAGES \in Nat /\ SECTOR_LIMIT * PAGES \in Nat /\ SECTORS * PAGES < SECTOR_LIMIT * PAGES
  BY <1>1
<1> QED
  BY <1>1, <1>2, <1>3

\* A sector that starts inside ends inside, and the next one begins there.
LEMMA SectorFits ==
  ASSUME NEW a \in Nat, Aligned(a), NEW n \in Nat, a < n * PAGES
  PROVE  a + PAGES <= n * PAGES /\ Aligned(a + PAGES)
<1>1. PICK k \in Nat : a = k * PAGES
  BY DEF Aligned
<1>2. k < n
  <2> SUFFICES ASSUME n <= k PROVE FALSE
    BY <1>1
  <2>1. n * PAGES <= k * PAGES
    BY Geometry
  <2> QED
    BY <2>1, <1>1, Geometry
<1>3. (k + 1) * PAGES <= n * PAGES
  BY <1>2, Geometry
<1>4. (k + 1) * PAGES = a + PAGES
  BY <1>1, Geometry
<1> QED
  BY <1>3, <1>4, Geometry DEF Aligned

LEMMA StartAligned == Aligned(0)
  BY Geometry DEF Aligned

\* An operation leaves one of the contents.
LEMMA StoredType ==
  ASSUME TypeOK, NEW a \in Page
  PROVE  Stored(a) \in Content
  BY DEF TypeOK, Stored, Content

\* While the flash is as it was, so is all that is said of it.
LEMMA SameFlash ==
  ASSUME target' = target, original' = original
  PROVE  /\ InHeader' = InHeader /\ AllNew' = AllNew /\ FirstNew' = FirstNew
         /\ Installed' = Installed /\ Primary' = Primary
  BY DEF InHeader, AllNew, FirstNew, Installed, InstalledPage, Primary

\* The first page is a page of the image and of the first sector, and no
\* other software.
LEMMA HeaderPage ==
  /\ 0 \in Page /\ 0 \in Image /\ 0 \in Sector(0) /\ 0 \notin Spare
  /\ Image \subseteq Page
  BY Geometry DEF Page, Image, Sector, Spare

\* What an operation that runs to its end does to the first page.
LEMMA HeaderStored ==
  ASSUME TypeOK, HeaderFirst
  PROVE  /\ op.kind = "erase" /\ op.at = 0 => Stored(0) = "erased"
         /\ op.kind = "erase" /\ op.at # 0 => Stored(0) = target[0]
         /\ op.kind = "write" /\ op.at = 0 => Stored(0) = IF target[0] = "erased" THEN "new" ELSE "torn"
         /\ op.kind = "write" /\ op.at # 0 => Stored(0) = target[0]
         /\ op.kind = "retarget" /\ target[0] = "new" => Stored(0) = "done"
         /\ op.kind = "retarget" /\ target[0] = "erased" => Stored(0) = "torn"
         /\ op.kind = "retarget" /\ target[0] \notin {"new", "erased"} => Stored(0) = target[0]
<1>1. 0 \in Page /\ 0 \notin Spare /\ op.at \in Nat
  BY HeaderPage, Geometry DEF TypeOK, Page
<1>2. 0 \in Sector(op.at) <=> op.at = 0
  BY <1>1, Geometry DEF Sector
<1> QED
  BY <1>1, <1>2 DEF Stored

\* Clearing byte 9 of a header in which it is clear changes nothing, and
\* discarding Booster does not touch the bootloader.
LEMMA StoredSame ==
  ASSUME TypeOK, \/ op.kind \in {"none", "discard"}
                 \/ op.kind = "retarget" /\ InHeader
  PROVE  [a \in Page |-> Stored(a)] = target
<1> SUFFICES ASSUME NEW a \in Page PROVE Stored(a) = target[a]
  BY DEF TypeOK
<1> QED
  BY DEF Stored, InHeader

\* Clearing byte 9 when the image is all there installs it.
LEMMA StoredInstalls ==
  ASSUME TypeOK, op.kind = "retarget", AllNew, target' = [a \in Page |-> Stored(a)]
  PROVE  Installed'
<1>1. \A a \in Image : target'[a] = IF a = 0 THEN "done" ELSE "new"
  BY HeaderPage DEF AllNew, Stored
<1> QED
  BY <1>1 DEF Installed, InstalledPage

-----------------------------------------------------------------------------
(* The steps that need an argument of their own: the end of an operation,  *)
(* a failure, a power cut, and the loop over the sectors. *)

\* The chip finishes: the header changes from the old image to none only in the
\* first erase, and to the new image only from a complete one.
LEMMA HeaderFirst_ChipDone == IInv /\ ChipDone => HeaderFirst'
<1> SUFFICES ASSUME IInv, ChipDone PROVE HeaderFirst'
  OBVIOUS
<1> USE DEF IInv
<1>1. target' = [a \in Page |-> Stored(a)] /\ op' = Idle /\ busy
      /\ UNCHANGED <<ram, error_code, package, original, cuts, faults>>
  BY DEF ChipDone
<1>2. target'[0] = Stored(0)
  BY <1>1, HeaderPage
<1>3. CASE op.kind \in {"erase", "write"}
  BY <1>1, <1>2, <1>3, HeaderStored DEF TypeOK, HeaderFirst, PcAgrees, InHeader, ram, Erase, Idle
<1>4. CASE op.kind = "retarget" /\ ~InHeader
  <2>1. target[0] = "new" /\ error_code # "FINAL_IMAGE_MISMATCH_END" => Installed'
    BY <1>1, <1>4, StoredInstalls DEF HeaderFirst
  <2>2. InHeader' => target[0] = "new"
    BY <1>2, <1>4, HeaderStored DEF InHeader
  <2>3. pc = "discard" /\ pc' = "discard" /\ package = "good" /\ package' = "good"
    BY <1>1, <1>4 DEF HeaderFirst, PcAgrees, TypeOK, ram
  <2> QED
    BY <1>1, <1>2, <1>4, <2>1, <2>2, <2>3, HeaderStored DEF TypeOK, HeaderFirst, InHeader, Primary, ram, Idle
<1>5. CASE op.kind \in {"none", "discard"} \/ (op.kind = "retarget" /\ InHeader)
  <2>1. target' = target
    BY <1>1, <1>5, StoredSame
  <2> QED
    BY <1>1, <1>5, <2>1, SameFlash DEF TypeOK, HeaderFirst, PcAgrees, InHeader, ram, Idle, Erase
<1> QED
  BY <1>3, <1>4, <1>5 DEF TypeOK

\* A page that fails to program is never the header of an image that starts.
LEMMA HeaderFirst_ProgramFault == IInv /\ ProgramFault => HeaderFirst'
  BY HeaderPage, SameFlash DEF IInv, TypeOK, ProgramFault, HeaderFirst, PcAgrees, InHeader, ram, Idle

\* Power is cut: what is done or torn in the first sector is the erase that the
\* update begins with, or the byte that ends it.
LEMMA HeaderFirst_PowerCut == IInv /\ PowerCut => HeaderFirst'
<1> SUFFICES ASSUME IInv, PowerCut PROVE HeaderFirst'
  OBVIOUS
<1> USE DEF IInv
<1>1. pc' = "off" /\ op' = Idle /\ UNCHANGED <<error_code, package, original, faults>>
  BY DEF PowerCut
<1>2. CASE target' = target
  BY <1>1, <1>2, SameFlash DEF HeaderFirst, Idle
<1>3. CASE target' = [a \in Page |-> Stored(a)] /\ target' # target
  <2>1. busy /\ op.kind # "none"
    BY <1>3, StoredSame DEF busy, Idle, PcAgrees
  <2>2. target'[0] = Stored(0)
    BY <1>3, HeaderPage
  <2>3. CASE op.kind \in {"erase", "write"}
    BY <1>1, <2>2, <2>3, HeaderStored DEF TypeOK, HeaderFirst, PcAgrees, InHeader, Erase, Idle
  <2>4. CASE op.kind \notin {"erase", "write"}
    <3>1. op.kind = "retarget" /\ ~InHeader
      BY <1>3, <2>1, <2>4, StoredSame DEF TypeOK
    <3>2. target[0] = "new" /\ error_code # "FINAL_IMAGE_MISMATCH_END" => Installed'
      BY <1>3, <3>1, StoredInstalls DEF HeaderFirst
    <3>3. package = "good"
      BY <3>1 DEF PcAgrees, HeaderFirst, TypeOK
    <3> QED
      BY <1>1, <2>2, <3>1, <3>2, <3>3, HeaderStored DEF TypeOK, HeaderFirst, InHeader, Primary, Idle
  <2> QED
    BY <2>3, <2>4
<1>4. CASE Torn # {} /\ target' = [a \in Page |-> IF a \in Torn THEN "torn" ELSE target[a]]
  <2>1. op.kind \in {"erase", "write"}
    BY <1>4 DEF Torn
  <2>2. target'[0] = IF 0 \in Torn THEN "torn" ELSE target[0]
    BY <1>4, HeaderPage
  <2>3. op.kind = "erase" /\ op.at = 0 /\ InHeader => 0 \in Torn
    BY <2>1, HeaderStored, HeaderPage DEF Torn, InHeader
  <2> QED
    BY <1>1, <2>1, <2>2, <2>3 DEF TypeOK, HeaderFirst, PcAgrees, InHeader, Erase, Idle
<1> QED
  BY <1>2, <1>3, <1>4 DEF PowerCut

\* What has been erased can be programmed.
LEMMA FirstOnce_ChipDone == IInv /\ ChipDone => FirstOnce'
<1> SUFFICES ASSUME IInv, ChipDone PROVE FirstOnce'
  OBVIOUS
<1> USE DEF IInv
<1>1. target' = [a \in Page |-> Stored(a)] /\ op' = Idle /\ busy /\ UNCHANGED ram
  BY DEF ChipDone
<1>2. target'[0] = Stored(0)
  BY <1>1, HeaderPage
<1>3. op.kind # "none"
  BY <1>1 DEF PcAgrees, busy
<1>4. ~ (pc = "erase" /\ target_addr = 0)
  BY <1>1, <1>3 DEF CursorAgrees, PcAgrees, TypeOK
<1>5. pc = "program" /\ target_addr = 0 => target'[0] = "erased"
  BY <1>1, <1>2, <1>3, HeaderStored DEF PcAgrees, CursorAgrees, FirstOnce, TypeOK
<1> QED
  BY <1>1, <1>4, <1>5 DEF FirstOnce, Idle, busy, ram

\* The page after one that failed is another page.
LEMMA FirstOnce_ProgramFault == IInv /\ ProgramFault => FirstOnce'
  BY HeaderPage DEF IInv, TypeOK, ProgramFault, FirstOnce, CursorAgrees, PcAgrees, ram, Idle, busy

\* No operation survives a power cut.
LEMMA FirstOnce_PowerCut == IInv /\ PowerCut => FirstOnce'
  BY DEF PowerCut, FirstOnce, Idle

\* Booster goes when the chip has cleared byte 9 of a complete image.
LEMMA DoneBeforeGone_ChipDone == IInv /\ ChipDone => DoneBeforeGone'
<1> SUFFICES ASSUME IInv, ChipDone PROVE DoneBeforeGone'
  OBVIOUS
<1> USE DEF IInv
<1>1. /\ target' = [a \in Page |-> Stored(a)] /\ op' = Idle /\ busy
      /\ booster' = (IF op.kind = "discard" THEN "erased" ELSE booster)
      /\ UNCHANGED <<ram, error_code, package, original, cuts, faults>>
  BY DEF ChipDone
<1>2. booster = "valid"
  BY <1>1 DEF PcAgrees, busy
<1>3. CASE op.kind \in {"erase", "write"}
  BY <1>1, <1>2, <1>3 DEF DoneBeforeGone, GoneMeansInstalled, PcAgrees, ram
<1>4. CASE op.kind = "retarget"
  <2>1. error_code = "NO_ERROR" => Installed'
    BY <1>1, <1>4, StoredInstalls DEF DoneBeforeGone, PcAgrees, busy
  <2> QED
    BY <1>1, <1>2, <1>4, <2>1 DEF DoneBeforeGone, GoneMeansInstalled, PcAgrees, ram
<1>5. CASE op.kind = "discard"
  BY <1>1, <1>5, SameFlash, StoredSame DEF DoneBeforeGone, GoneMeansInstalled, PcAgrees, ram
<1> QED
  BY <1>1, <1>3, <1>4, <1>5 DEF TypeOK, PcAgrees, busy

\* Nothing is programmed once Booster is gone.
LEMMA DoneBeforeGone_ProgramFault == IInv /\ ProgramFault => DoneBeforeGone'
  BY DEF IInv, ProgramFault, DoneBeforeGone, GoneMeansInstalled, PcAgrees, ram

\* The sector of Booster may be torn only after the header is cleared.
LEMMA DoneBeforeGone_PowerCut == IInv /\ PowerCut => DoneBeforeGone'
<1> SUFFICES ASSUME IInv, PowerCut PROVE DoneBeforeGone'
  OBVIOUS
<1> USE DEF IInv
<1>1. pc' = "off" /\ op' = Idle /\ UNCHANGED <<error_code, package, original, faults>>
  BY DEF PowerCut
<1>2. CASE op.kind = "discard"
  <2>1. target' = target
    BY <1>2, StoredSame DEF PowerCut, Torn
  <2> QED
    BY <1>1, <1>2, <2>1, SameFlash DEF DoneBeforeGone, GoneMeansInstalled, PcAgrees
<1>3. CASE op.kind = "none"
  <2>1. target' = target /\ booster' = booster
    BY <1>3, StoredSame DEF PowerCut, Torn
  <2> QED
    BY <1>1, <2>1, SameFlash DEF DoneBeforeGone, GoneMeansInstalled, PcAgrees
<1>4. CASE op.kind \notin {"none", "discard"}
  <2>1. booster' = booster /\ booster = "valid"
    BY <1>4 DEF PowerCut, PcAgrees, Idle
  <2> QED
    BY <1>1, <2>1 DEF DoneBeforeGone, GoneMeansInstalled
<1> QED
  BY <1>2, <1>3, <1>4

\* The chip leaves contents a page can have.
LEMMA TypeOK_ChipDone == IInv /\ ChipDone => TypeOK'
<1> SUFFICES ASSUME IInv, ChipDone PROVE TypeOK'
  OBVIOUS
<1>1. target' \in [Page -> Content]
  BY StoredType DEF IInv, ChipDone
<1>2. op' \in [kind : {"none", "erase", "write", "retarget", "discard"}, at : Page]
  BY HeaderPage DEF ChipDone, Idle
<1> QED
  BY <1>1, <1>2 DEF IInv, TypeOK, ChipDone, ram

\* So does a power cut.
LEMMA TypeOK_PowerCut == IInv /\ PowerCut => TypeOK'
<1> SUFFICES ASSUME IInv, PowerCut PROVE TypeOK'
  OBVIOUS
<1>1. target' \in [Page -> Content]
  BY StoredType DEF IInv, TypeOK, PowerCut, Content
<1>2. op' \in [kind : {"none", "erase", "write", "retarget", "discard"}, at : Page]
  BY HeaderPage DEF PowerCut, Idle
<1> QED
  BY <1>1, <1>2, Geometry DEF IInv, TypeOK, PowerCut

\* The update starts at the first sector.
LEMMA CursorAgrees_Validate == IInv /\ Validate => CursorAgrees'
  BY StartAligned, Geometry DEF IInv, TypeOK, PcAgrees, CursorAgrees, Validate, Goto

\* The page loop ends behind the last page of the sector, where the next begins.
LEMMA CursorAgrees_ProgramPage == IInv /\ ProgramPage => CursorAgrees'
<1> SUFFICES ASSUME IInv, ProgramPage PROVE CursorAgrees'
  OBVIOUS
<1> USE Geometry DEF IInv
<1>1. PICK s \in Page : Aligned(s) /\ target_addr = s + page_offset
  BY DEF ProgramPage, CursorAgrees
<1>2. s + PAGES <= SECTOR_LIMIT * PAGES /\ Aligned(s + PAGES)
  BY <1>1, SectorFits DEF Page
<1>3. page_offset \in 0 .. PAGES /\ bytes_left \in Nat /\ s \in Nat
  BY <1>1 DEF TypeOK, Page
<1>4. CASE MorePages
  <2>1. pc' = "program" /\ target_addr' = s + page_offset' /\ page_offset' = page_offset + 1
    BY <1>1, <1>3, <1>4 DEF ProgramPage
  <2>2. op' = Write(target_addr) /\ target_addr' # 0 /\ page_offset' # 0
    BY <1>3, <1>4, <2>1 DEF ProgramPage
  <2> QED
    BY <1>1, <2>1, <2>2 DEF CursorAgrees, Write
<1>5. CASE ~MorePages
  <2>1. pc' = "compare" /\ UNCHANGED <<target_addr, bytes_left, page_offset, op>>
    BY <1>5 DEF ProgramPage, Goto
  <2>2. bytes_left # 0 => page_offset = PAGES
    BY <1>3, <1>5 DEF MorePages
  <2> QED
    BY <1>1, <1>2, <2>1, <2>2 DEF CursorAgrees
<1> QED
  BY <1>4, <1>5

\* A package that is refused has changed nothing.
LEMMA HeaderFirst_Validate == IInv /\ Validate => HeaderFirst'
  BY SameFlash, Geometry DEF IInv, TypeOK, HeaderFirst, PcAgrees, Validate, ValidPackage, Goto, Idle, InHeader

\* A sector is skipped only if the image fills it: its last one holds a page of
\* the rest that differs.
LEMMA InsideImage_Compare == IInv /\ (\E equal \in BOOLEAN : Compare(equal)) => InsideImage'
<1> SUFFICES ASSUME IInv, NEW equal \in BOOLEAN, Compare(equal),
                    \E a \in Tail : original[a] # "new"
             PROVE  InsideImage'
  BY DEF InsideImage, Compare
<1> USE Geometry DEF IInv
<1>1. /\ \A a \in Spare : target[a] = "user"
      /\ \A a \in Tail : target[a] = "new" => original[a] = "new"
      /\ target_addr + bytes_left = IMAGE_PAGES
      /\ op.kind \in {"erase", "write"} => op.at < IMAGE_PAGES
  BY DEF InsideImage, Compare
<1>2. target_addr \in Nat /\ bytes_left \in 0 .. WORD - 1
  BY DEF TypeOK
<1>3. CASE MoreSectors /\ Matches(equal)
  <2>1. bytes_left # 0 /\ Aligned(target_addr) /\ target_addr < IMAGE_PAGES
    BY <1>1, <1>2, <1>3 DEF MoreSectors, CursorAgrees, Compare
  <2>2. PAGES <= bytes_left
    <3> SUFFICES ASSUME bytes_left < PAGES PROVE FALSE
      BY <1>2
    <3>1. target_addr < SECTORS * PAGES
      BY <2>1, <1>2
    <3>2. target_addr + PAGES <= SECTORS * PAGES /\ Aligned(target_addr + PAGES)
      BY <3>1, <2>1, <1>2, SectorFits
    <3>3. SECTORS * PAGES <= target_addr + PAGES
      <4> SUFFICES ASSUME target_addr + PAGES < SECTORS * PAGES PROVE FALSE
        BY <1>2
      <4>1. (target_addr + PAGES) + PAGES <= SECTORS * PAGES
        <5> DEFINE next == target_addr + PAGES
        <5>1. next \in Nat /\ Aligned(next) /\ next < SECTORS * PAGES
          BY <3>2, <1>2
        <5> HIDE DEF next
        <5>2. next + PAGES <= SECTORS * PAGES
          BY <5>1, SectorFits
        <5> QED
          BY <5>2 DEF next
      <4> QED
        BY <4>1, <1>1, <1>2
    <3>4. PICK a \in Tail : original[a] # "new"
      OBVIOUS
    <3>5. a \in Sector(target_addr) /\ a \notin Spare
      BY <1>1, <1>2, <3>3, <3>4 DEF Tail, Spare, Sector
    <3> QED
      BY <1>1, <1>3, <3>4, <3>5 DEF Matches
  <2>3. bytes_left' = bytes_left - PAGES /\ target_addr' = target_addr + PAGES
    BY <1>2, <1>3, <2>2 DEF Compare
  <2> QED
    BY <1>1, <1>2, <2>2, <2>3 DEF InsideImage, Compare
<1>4. CASE ~(MoreSectors /\ Matches(equal))
  BY <1>1, <1>4 DEF InsideImage, Compare, Goto
<1> QED
  BY <1>3, <1>4

\* The sector that is erased has a page of the image.
LEMMA InsideImage_EraseSector == IInv /\ EraseSector => InsideImage'
  BY Geometry DEF IInv, TypeOK, InsideImage, CursorAgrees, EraseSector, Erase

\* A page that is programmed is one of the image.
LEMMA InsideImage_ProgramPage == IInv /\ ProgramPage => InsideImage'
  BY Geometry DEF IInv, TypeOK, InsideImage, CursorAgrees, ProgramPage, MorePages, Write, Goto

\* While the update stays inside the image, an operation leaves the software
\* behind it as it is, and writes nothing into the rest of the last sector.
LEMMA StoredInside ==
  ASSUME TypeOK, CursorAgrees, PcAgrees, InsideImage, HeaderFirst,
         \E a \in Tail : original[a] # "new", NEW a \in Page
  PROVE  /\ a \in Spare => Stored(a) = target[a]
         /\ a \in Tail /\ Stored(a) = "new" => target[a] = "new"
<1> USE Geometry
<1>1. a \in Nat /\ op.at \in Nat
  BY DEF Page, TypeOK
<1>2. CASE op.kind = "erase"
  <2>1. Aligned(op.at) /\ op.at < SECTORS * PAGES
    <3>1. PICK s \in Page : Aligned(s) /\ target_addr = s + page_offset
      BY <1>2 DEF PcAgrees, CursorAgrees
    <3> QED
      BY <1>1, <1>2, <3>1 DEF PcAgrees, InsideImage, Page
  <2>2. op.at + PAGES <= SECTORS * PAGES
    BY <1>1, <2>1, SectorFits
  <2> QED
    BY <1>1, <1>2, <2>2 DEF Stored, Sector, Spare
<1>3. CASE op.kind = "write"
  BY <1>1, <1>3 DEF Stored, InsideImage, Spare, Tail
<1>4. CASE op.kind \notin {"erase", "write"}
  BY <1>1, <1>4, HeaderPage DEF Stored, Tail
<1> QED
  BY <1>2, <1>3, <1>4

\* The chip stays inside too, whether it finishes, fails or is cut.
LEMMA InsideImage_Chip == IInv /\ (ChipDone \/ ProgramFault \/ PowerCut) => InsideImage'
<1> SUFFICES ASSUME IInv, ChipDone \/ ProgramFault \/ PowerCut,
                    \E a \in Tail : original[a] # "new"
             PROVE  InsideImage'
  BY DEF InsideImage, ChipDone, ProgramFault, PowerCut
<1>1. Tail \subseteq Page /\ Spare \subseteq Page
  BY Geometry DEF Tail, Spare, Page
<1>2. \A a \in Page : target'[a] \in {target[a], Stored(a), "torn"}
  BY DEF ChipDone, ProgramFault, PowerCut, IInv, TypeOK
<1>3. \A a \in Spare : target'[a] \in {target[a], Stored(a)}
  <2>1. CASE ProgramFault
    BY <1>1, <2>1, Geometry DEF IInv, TypeOK, ProgramFault, InsideImage, Spare
  <2>2. CASE ChipDone
    BY <1>1, <2>2 DEF ChipDone
  <2>3. CASE PowerCut
    <3>1. \A a \in Spare : a \notin Torn
      BY <1>1, StoredInside DEF Torn, IInv
    <3> QED
      BY <1>1, <2>3, <3>1 DEF PowerCut
  <2> QED
    BY <2>1, <2>2, <2>3
<1>4. \A a \in Spare : target'[a] = target[a]
  BY <1>1, <1>3, StoredInside DEF IInv
<1>5. \A a \in Tail : target'[a] = "new" => target[a] = "new"
  BY <1>1, <1>2, StoredInside DEF IInv
<1>6. op' = Idle /\ original' = original /\ ((pc' = pc /\ UNCHANGED <<target_addr, bytes_left>>) \/ pc' = "off")
  BY DEF ChipDone, ProgramFault, PowerCut, ram
<1> QED
  BY <1>4, <1>5, <1>6 DEF IInv, InsideImage, Idle

\* So does a page that fails to program.
LEMMA TypeOK_ProgramFault == IInv /\ ProgramFault => TypeOK'
<1> SUFFICES ASSUME IInv, ProgramFault PROVE TypeOK'
  OBVIOUS
<1>1. target' \in [Page -> Content]
  BY DEF IInv, TypeOK, ProgramFault, Content
<1>2. op' \in [kind : {"none", "erase", "write", "retarget", "discard"}, at : Page]
  BY HeaderPage DEF ProgramFault, Idle
<1> QED
  BY <1>1, <1>2, Geometry DEF IInv, TypeOK, ProgramFault, ram

\* The page loop stays within its sector, and its sector in the flash.
LEMMA TypeOK_ProgramPage == IInv /\ ProgramPage => TypeOK'
<1> SUFFICES ASSUME IInv, ProgramPage PROVE TypeOK'
  OBVIOUS
<1>1. PICK s \in Page : Aligned(s) /\ target_addr = s + page_offset
  BY DEF IInv, ProgramPage, CursorAgrees
<1>2. s + PAGES <= SECTOR_LIMIT * PAGES /\ s \in Nat
  BY <1>1, SectorFits, Geometry DEF Page
<1>3. CASE MorePages
  <2>1. page_offset \in 0 .. PAGES - 1 /\ bytes_left \in 1 .. WORD - 1
    BY <1>3, Geometry DEF IInv, TypeOK, MorePages
  <2>2. target_addr \in Page /\ target_addr' \in 0 .. SECTOR_LIMIT * PAGES
    BY <1>1, <1>2, <1>3, <2>1, Geometry DEF Page, ProgramPage
  <2>3. page_offset' \in 0 .. PAGES /\ bytes_left' \in 0 .. WORD - 1
    BY <1>3, <2>1, Geometry DEF ProgramPage
  <2>4. op' \in [kind : {"none", "erase", "write", "retarget", "discard"}, at : Page]
    BY <1>3, <2>2 DEF ProgramPage, Write
  <2> QED
    BY <1>3, <2>2, <2>3, <2>4 DEF IInv, TypeOK, ProgramPage
<1>4. CASE ~MorePages
  BY <1>4 DEF IInv, TypeOK, ProgramPage, Goto
<1> QED
  BY <1>3, <1>4

-----------------------------------------------------------------------------
(* Every step keeps the invariant: one step of the proof per action. *)

\* Every step keeps the types.
LEMMA TypeOKKept == IInv /\ [Next]_vars => TypeOK'
<1> SUFFICES ASSUME IInv, [Next]_vars PROVE TypeOK'
  OBVIOUS
<1>1. CASE PowerOn
  BY <1>1 DEF IInv, TypeOK, PowerOn, Goto
<1>2. CASE \E pinch \in BOOLEAN : init(pinch)
  BY <1>2 DEF IInv, TypeOK, init, Goto
<1>3. CASE Download
  BY <1>3 DEF IInv, TypeOK, Download, ram
<1>4. CASE Validate
  BY <1>4, Geometry DEF IInv, TypeOK, Validate, ValidPackage, Goto
<1>5. CASE \E equal \in BOOLEAN : Compare(equal)
  BY <1>5, SectorFits, Geometry DEF IInv, TypeOK, Compare, Goto, CursorAgrees, MoreSectors
<1>6. CASE EraseSector
  BY <1>6, Geometry DEF IInv, TypeOK, EraseSector, Erase, CursorAgrees, Page
<1>7. CASE ProgramPage
  BY <1>7, TypeOK_ProgramPage
<1>8. CASE FinalCheck
  BY <1>8 DEF IInv, TypeOK, FinalCheck, ImageMatches, Goto
<1>9. CASE RetargetHeader
  BY <1>9, HeaderPage DEF IInv, TypeOK, RetargetHeader, Retarget, Goto
<1>10. CASE EraseBooster
  BY <1>10, HeaderPage DEF IInv, TypeOK, EraseBooster, DiscardBooster, Discard, Goto
<1>11. CASE Finish
  BY <1>11 DEF IInv, TypeOK, Finish, Goto
<1>12. CASE ChipDone
  BY <1>12, TypeOK_ChipDone
<1>13. CASE ProgramFault
  BY <1>13, TypeOK_ProgramFault
<1>14. CASE PowerCut
  BY <1>14, TypeOK_PowerCut
<1>15. CASE Rest
  BY <1>15 DEF IInv, TypeOK, Rest, vars, ram
<1>16. CASE UNCHANGED vars
  BY <1>16 DEF IInv, TypeOK, vars, ram
<1> QED
  BY <1>1, <1>2, <1>3, <1>4, <1>5, <1>6, <1>7, <1>8, <1>9, <1>10, <1>11, <1>12, <1>13, <1>14,
     <1>15, <1>16 DEF Next, fobooster_main

\* Every step keeps the chip, the package and Booster in step with the program.
LEMMA PcAgreesKept == IInv /\ [Next]_vars => PcAgrees'
<1> SUFFICES ASSUME IInv, [Next]_vars PROVE PcAgrees'
  OBVIOUS
<1>1. CASE PowerOn
  BY <1>1 DEF IInv, TypeOK, PcAgrees, busy, Idle, PowerOn, Goto
<1>2. CASE \E pinch \in BOOLEAN : init(pinch)
  BY <1>2 DEF IInv, TypeOK, PcAgrees, busy, Idle, init, Goto
<1>3. CASE Download
  BY <1>3 DEF IInv, TypeOK, PcAgrees, busy, Idle, Download, ram
<1>4. CASE Validate
  BY <1>4 DEF IInv, TypeOK, PcAgrees, busy, Idle, Validate, ValidPackage, Goto
<1>5. CASE \E equal \in BOOLEAN : Compare(equal)
  BY <1>5 DEF IInv, TypeOK, PcAgrees, busy, Idle, Compare, Goto
<1>6. CASE EraseSector
  BY <1>6 DEF IInv, TypeOK, PcAgrees, busy, Idle, EraseSector, Erase
<1>7. CASE ProgramPage
  BY <1>7, Geometry DEF IInv, TypeOK, PcAgrees, busy, Idle, ProgramPage, MorePages, Write,
     Goto, CursorAgrees
<1>8. CASE FinalCheck
  BY <1>8 DEF IInv, TypeOK, PcAgrees, busy, Idle, FinalCheck, ImageMatches, Goto
<1>9. CASE RetargetHeader
  BY <1>9 DEF IInv, TypeOK, PcAgrees, busy, Idle, RetargetHeader, Retarget, Goto
<1>10. CASE EraseBooster
  BY <1>10 DEF IInv, TypeOK, PcAgrees, busy, Idle, EraseBooster, DiscardBooster, Discard, Goto
<1>11. CASE Finish
  BY <1>11 DEF IInv, TypeOK, PcAgrees, busy, Idle, Finish, Goto
<1>12. CASE ChipDone
  BY <1>12 DEF IInv, TypeOK, PcAgrees, busy, Idle, ChipDone, ram
<1>13. CASE ProgramFault
  BY <1>13 DEF IInv, TypeOK, PcAgrees, busy, Idle, ProgramFault, ram
<1>14. CASE PowerCut
  BY <1>14 DEF IInv, TypeOK, PcAgrees, busy, Idle, PowerCut
<1>15. CASE Rest
  BY <1>15 DEF IInv, TypeOK, PcAgrees, busy, Idle, Rest, vars, ram
<1>16. CASE UNCHANGED vars
  BY <1>16 DEF IInv, TypeOK, PcAgrees, busy, Idle, vars, ram
<1> QED
  BY <1>1, <1>2, <1>3, <1>4, <1>5, <1>6, <1>7, <1>8, <1>9, <1>10, <1>11, <1>12, <1>13, <1>14,
     <1>15, <1>16 DEF Next, fobooster_main

\* Every step keeps the cursor at a sector or inside its page loop.
LEMMA CursorAgreesKept == IInv /\ [Next]_vars => CursorAgrees'
<1> SUFFICES ASSUME IInv, [Next]_vars PROVE CursorAgrees'
  OBVIOUS
<1>1. CASE PowerOn
  BY <1>1, Geometry DEF IInv, TypeOK, PcAgrees, CursorAgrees, Idle, PowerOn, Goto
<1>2. CASE \E pinch \in BOOLEAN : init(pinch)
  BY <1>2, Geometry DEF IInv, TypeOK, PcAgrees, CursorAgrees, Idle, init, Goto
<1>3. CASE Download
  BY <1>3, Geometry DEF IInv, TypeOK, PcAgrees, CursorAgrees, Idle, Download, ram
<1>4. CASE Validate
  BY <1>4, CursorAgrees_Validate
<1>5. CASE \E equal \in BOOLEAN : Compare(equal)
  BY <1>5, Geometry, SectorFits DEF IInv, TypeOK, PcAgrees, CursorAgrees, Idle, Compare, Goto,
     MoreSectors
<1>6. CASE EraseSector
  BY <1>6, Geometry DEF IInv, TypeOK, PcAgrees, CursorAgrees, Idle, EraseSector, Erase, Page
<1>7. CASE ProgramPage
  BY <1>7, CursorAgrees_ProgramPage
<1>8. CASE FinalCheck
  BY <1>8, Geometry DEF IInv, TypeOK, PcAgrees, CursorAgrees, Idle, FinalCheck, ImageMatches,
     Goto
<1>9. CASE RetargetHeader
  BY <1>9, Geometry DEF IInv, TypeOK, PcAgrees, CursorAgrees, Idle, RetargetHeader, Retarget,
     Goto
<1>10. CASE EraseBooster
  BY <1>10, Geometry DEF IInv, TypeOK, PcAgrees, CursorAgrees, Idle, EraseBooster,
     DiscardBooster, Discard, Goto
<1>11. CASE Finish
  BY <1>11, Geometry DEF IInv, TypeOK, PcAgrees, CursorAgrees, Idle, Finish, Goto
<1>12. CASE ChipDone
  BY <1>12, Geometry DEF IInv, TypeOK, PcAgrees, CursorAgrees, Idle, ChipDone, ram
<1>13. CASE ProgramFault
  BY <1>13, Geometry DEF IInv, TypeOK, PcAgrees, CursorAgrees, Idle, ProgramFault, ram
<1>14. CASE PowerCut
  BY <1>14, Geometry DEF IInv, TypeOK, PcAgrees, CursorAgrees, Idle, PowerCut
<1>15. CASE Rest
  BY <1>15, Geometry DEF IInv, TypeOK, PcAgrees, CursorAgrees, Idle, Rest, vars, ram
<1>16. CASE UNCHANGED vars
  BY <1>16, Geometry DEF IInv, TypeOK, PcAgrees, CursorAgrees, Idle, vars, ram
<1> QED
  BY <1>1, <1>2, <1>3, <1>4, <1>5, <1>6, <1>7, <1>8, <1>9, <1>10, <1>11, <1>12, <1>13, <1>14,
     <1>15, <1>16 DEF Next, fobooster_main

\* Every step keeps the order of the update.
LEMMA HeaderFirstKept == IInv /\ [Next]_vars => HeaderFirst'
<1> SUFFICES ASSUME IInv, [Next]_vars PROVE HeaderFirst'
  OBVIOUS
<1>1. CASE PowerOn
  BY <1>1, SameFlash DEF IInv, TypeOK, PcAgrees, HeaderFirst, busy, Idle, PowerOn, Goto, Boots,
     InHeader
<1>2. CASE \E pinch \in BOOLEAN : init(pinch)
  BY <1>2, SameFlash DEF IInv, TypeOK, PcAgrees, HeaderFirst, busy, Idle, init, Goto
<1>3. CASE Download
  BY <1>3, SameFlash DEF IInv, TypeOK, PcAgrees, HeaderFirst, busy, Idle, Download, ram
<1>4. CASE Validate
  BY <1>4, HeaderFirst_Validate
<1>5. CASE \E equal \in BOOLEAN : Compare(equal)
  BY <1>5, SameFlash, HeaderPage, Geometry DEF IInv, TypeOK, PcAgrees, HeaderFirst, busy, Idle,
     Compare, Goto, CursorAgrees, MoreSectors, Matches, InHeader
<1>6. CASE EraseSector
  BY <1>6, SameFlash DEF IInv, TypeOK, PcAgrees, HeaderFirst, busy, Idle, EraseSector, Erase,
     CursorAgrees
<1>7. CASE ProgramPage
  BY <1>7, SameFlash, Geometry, HeaderPage DEF IInv, TypeOK, PcAgrees, HeaderFirst, busy, Idle,
     ProgramPage, MorePages, Write, Goto, CursorAgrees, Erase
<1>8. CASE FinalCheck
  BY <1>8, SameFlash DEF IInv, TypeOK, PcAgrees, HeaderFirst, busy, Idle, FinalCheck,
     ImageMatches, Goto, AllNew
<1>9. CASE RetargetHeader
  BY <1>9, SameFlash DEF IInv, TypeOK, PcAgrees, HeaderFirst, busy, Idle, RetargetHeader,
     Retarget, Goto
<1>10. CASE EraseBooster
  BY <1>10, SameFlash DEF IInv, TypeOK, PcAgrees, HeaderFirst, busy, Idle, EraseBooster,
     DiscardBooster, Discard, Goto
<1>11. CASE Finish
  BY <1>11, SameFlash DEF IInv, TypeOK, PcAgrees, HeaderFirst, busy, Idle, Finish, Goto
<1>12. CASE ChipDone
  BY <1>12, HeaderFirst_ChipDone
<1>13. CASE ProgramFault
  BY <1>13, HeaderFirst_ProgramFault
<1>14. CASE PowerCut
  BY <1>14, HeaderFirst_PowerCut
<1>15. CASE Rest
  BY <1>15, SameFlash DEF IInv, TypeOK, PcAgrees, HeaderFirst, busy, Idle, Rest, vars, ram
<1>16. CASE UNCHANGED vars
  BY <1>16, SameFlash DEF IInv, TypeOK, PcAgrees, HeaderFirst, busy, Idle, vars, ram
<1> QED
  BY <1>1, <1>2, <1>3, <1>4, <1>5, <1>6, <1>7, <1>8, <1>9, <1>10, <1>11, <1>12, <1>13, <1>14,
     <1>15, <1>16 DEF Next, fobooster_main

\* No step erases a complete first sector.
LEMMA FirstOnceKept == IInv /\ [Next]_vars => FirstOnce'
<1> SUFFICES ASSUME IInv, [Next]_vars PROVE FirstOnce'
  OBVIOUS
<1>1. CASE PowerOn
  BY <1>1, SameFlash DEF IInv, TypeOK, PcAgrees, FirstOnce, busy, PowerOn, Goto
<1>2. CASE \E pinch \in BOOLEAN : init(pinch)
  BY <1>2, SameFlash DEF IInv, TypeOK, PcAgrees, FirstOnce, busy, init, Goto
<1>3. CASE Download
  BY <1>3, SameFlash DEF IInv, TypeOK, PcAgrees, FirstOnce, busy, Download, ram
<1>4. CASE Validate
  BY <1>4, SameFlash DEF IInv, TypeOK, PcAgrees, FirstOnce, busy, Validate, ValidPackage, Goto
<1>5. CASE \E equal \in BOOLEAN : Compare(equal)
  BY <1>5, SameFlash, Geometry DEF IInv, TypeOK, PcAgrees, FirstOnce, busy, Compare, Goto,
     CursorAgrees, MoreSectors, Matches, FirstNew, Sector, Spare
<1>6. CASE EraseSector
  BY <1>6, SameFlash DEF IInv, TypeOK, PcAgrees, FirstOnce, busy, EraseSector, Erase,
     CursorAgrees
<1>7. CASE ProgramPage
  BY <1>7, SameFlash, Geometry DEF IInv, TypeOK, PcAgrees, FirstOnce, busy, ProgramPage,
     MorePages, Write, Goto, CursorAgrees
<1>8. CASE FinalCheck
  BY <1>8, SameFlash DEF IInv, TypeOK, PcAgrees, FirstOnce, busy, FinalCheck, ImageMatches,
     Goto
<1>9. CASE RetargetHeader
  BY <1>9, SameFlash DEF IInv, TypeOK, PcAgrees, FirstOnce, busy, RetargetHeader, Retarget,
     Goto
<1>10. CASE EraseBooster
  BY <1>10, SameFlash DEF IInv, TypeOK, PcAgrees, FirstOnce, busy, EraseBooster,
     DiscardBooster, Discard, Goto
<1>11. CASE Finish
  BY <1>11, SameFlash DEF IInv, TypeOK, PcAgrees, FirstOnce, busy, Finish, Goto
<1>12. CASE ChipDone
  BY <1>12, FirstOnce_ChipDone
<1>13. CASE ProgramFault
  BY <1>13, FirstOnce_ProgramFault
<1>14. CASE PowerCut
  BY <1>14, FirstOnce_PowerCut
<1>15. CASE Rest
  BY <1>15, SameFlash DEF IInv, TypeOK, PcAgrees, FirstOnce, busy, Rest, vars, ram
<1>16. CASE UNCHANGED vars
  BY <1>16, SameFlash DEF IInv, TypeOK, PcAgrees, FirstOnce, busy, vars, ram
<1> QED
  BY <1>1, <1>2, <1>3, <1>4, <1>5, <1>6, <1>7, <1>8, <1>9, <1>10, <1>11, <1>12, <1>13, <1>14,
     <1>15, <1>16 DEF Next, fobooster_main

\* No step discards Booster before the image is installed.
LEMMA DoneBeforeGoneKept == IInv /\ [Next]_vars => DoneBeforeGone'
<1> SUFFICES ASSUME IInv, [Next]_vars PROVE DoneBeforeGone'
  OBVIOUS
<1>1. CASE PowerOn
  BY <1>1, SameFlash DEF IInv, TypeOK, PcAgrees, DoneBeforeGone, GoneMeansInstalled, busy,
     Idle, PowerOn, Goto
<1>2. CASE \E pinch \in BOOLEAN : init(pinch)
  BY <1>2, SameFlash DEF IInv, TypeOK, PcAgrees, DoneBeforeGone, GoneMeansInstalled, busy,
     Idle, init, Goto
<1>3. CASE Download
  BY <1>3, SameFlash DEF IInv, TypeOK, PcAgrees, DoneBeforeGone, GoneMeansInstalled, busy,
     Idle, Download, ram
<1>4. CASE Validate
  BY <1>4, SameFlash DEF IInv, TypeOK, PcAgrees, DoneBeforeGone, GoneMeansInstalled, busy,
     Idle, Validate, ValidPackage, Goto
<1>5. CASE \E equal \in BOOLEAN : Compare(equal)
  BY <1>5, SameFlash DEF IInv, TypeOK, PcAgrees, DoneBeforeGone, GoneMeansInstalled, busy,
     Idle, Compare, Goto
<1>6. CASE EraseSector
  BY <1>6, SameFlash DEF IInv, TypeOK, PcAgrees, DoneBeforeGone, GoneMeansInstalled, busy,
     Idle, EraseSector, Erase
<1>7. CASE ProgramPage
  BY <1>7, SameFlash DEF IInv, TypeOK, PcAgrees, DoneBeforeGone, GoneMeansInstalled, busy,
     Idle, ProgramPage, MorePages, Write, Goto
<1>8. CASE FinalCheck
  BY <1>8, SameFlash DEF IInv, TypeOK, PcAgrees, DoneBeforeGone, GoneMeansInstalled, busy,
     Idle, FinalCheck, ImageMatches, Goto, AllNew
<1>9. CASE RetargetHeader
  BY <1>9, SameFlash DEF IInv, TypeOK, PcAgrees, DoneBeforeGone, GoneMeansInstalled, busy,
     Idle, RetargetHeader, Retarget, Goto
<1>10. CASE EraseBooster
  BY <1>10, SameFlash DEF IInv, TypeOK, PcAgrees, DoneBeforeGone, GoneMeansInstalled, busy,
     Idle, EraseBooster, DiscardBooster, Discard, Goto
<1>11. CASE Finish
  BY <1>11, SameFlash DEF IInv, TypeOK, PcAgrees, DoneBeforeGone, GoneMeansInstalled, busy,
     Idle, Finish, Goto
<1>12. CASE ChipDone
  BY <1>12, DoneBeforeGone_ChipDone
<1>13. CASE ProgramFault
  BY <1>13, DoneBeforeGone_ProgramFault
<1>14. CASE PowerCut
  BY <1>14, DoneBeforeGone_PowerCut
<1>15. CASE Rest
  BY <1>15, SameFlash DEF IInv, TypeOK, PcAgrees, DoneBeforeGone, GoneMeansInstalled, busy,
     Idle, Rest, vars, ram
<1>16. CASE UNCHANGED vars
  BY <1>16, SameFlash DEF IInv, TypeOK, PcAgrees, DoneBeforeGone, GoneMeansInstalled, busy,
     Idle, vars, ram
<1> QED
  BY <1>1, <1>2, <1>3, <1>4, <1>5, <1>6, <1>7, <1>8, <1>9, <1>10, <1>11, <1>12, <1>13, <1>14,
     <1>15, <1>16 DEF Next, fobooster_main

\* Every step stays inside the image.
LEMMA InsideImageKept == IInv /\ [Next]_vars => InsideImage'
<1> SUFFICES ASSUME IInv, [Next]_vars PROVE InsideImage'
  OBVIOUS
<1>1. CASE PowerOn
  BY <1>1 DEF IInv, InsideImage, PcAgrees, PowerOn, Goto
<1>2. CASE \E pinch \in BOOLEAN : init(pinch)
  BY <1>2 DEF IInv, InsideImage, PcAgrees, init, Goto
<1>3. CASE Download
  BY <1>3 DEF IInv, InsideImage, PcAgrees, Download, ram
<1>4. CASE Validate
  BY <1>4, Geometry DEF IInv, InsideImage, PcAgrees, Validate, ValidPackage, Goto, TypeOK
<1>5. CASE \E equal \in BOOLEAN : Compare(equal)
  BY <1>5, InsideImage_Compare
<1>6. CASE EraseSector
  BY <1>6, InsideImage_EraseSector
<1>7. CASE ProgramPage
  BY <1>7, InsideImage_ProgramPage
<1>8. CASE FinalCheck
  BY <1>8 DEF IInv, InsideImage, PcAgrees, FinalCheck, ImageMatches, Goto
<1>9. CASE RetargetHeader
  BY <1>9 DEF IInv, InsideImage, PcAgrees, RetargetHeader, Retarget, Goto
<1>10. CASE EraseBooster
  BY <1>10 DEF IInv, InsideImage, PcAgrees, EraseBooster, DiscardBooster, Discard, Goto
<1>11. CASE Finish
  BY <1>11 DEF IInv, InsideImage, PcAgrees, Finish, Goto
<1>12. CASE ChipDone
  BY <1>12, InsideImage_Chip
<1>13. CASE ProgramFault
  BY <1>13, InsideImage_Chip
<1>14. CASE PowerCut
  BY <1>14, InsideImage_Chip
<1>15. CASE Rest
  BY <1>15 DEF IInv, InsideImage, PcAgrees, Rest, vars, ram
<1>16. CASE UNCHANGED vars
  BY <1>16 DEF IInv, InsideImage, PcAgrees, vars, ram
<1> QED
  BY <1>1, <1>2, <1>3, <1>4, <1>5, <1>6, <1>7, <1>8, <1>9, <1>10, <1>11, <1>12, <1>13, <1>14,
     <1>15, <1>16 DEF Next, fobooster_main

-----------------------------------------------------------------------------
(* The theorems. *)

\* When Foboot has taken a package the invariant holds.
LEMMA InitInvariant == Init => IInv
<1> SUFFICES ASSUME Init PROVE IInv
  OBVIOUS
<1> USE Geometry, HeaderPage
<1>1. TypeOK
  BY DEF Init, TypeOK, Content, Idle
<1>2. PcAgrees /\ CursorAgrees
  BY DEF Init, PcAgrees, CursorAgrees, Idle
<1>3. HeaderFirst
  BY DEF Init, HeaderFirst, InHeader, Primary, Idle
<1>4. FirstOnce /\ DoneBeforeGone
  BY DEF Init, FirstOnce, DoneBeforeGone, GoneMeansInstalled, Idle
<1>5. InsideImage
  <2>1. Tail \subseteq Page /\ Spare \subseteq Page
    BY DEF Tail, Spare, Page
  <2> QED
    BY <2>1 DEF Init, InsideImage, Idle
<1> QED
  BY <1>1, <1>2, <1>3, <1>4, <1>5 DEF IInv

\* The invariant holds throughout the update.
LEMMA InvariantAlways == Spec => []IInv
<1>1. IInv /\ [Next]_vars => IInv'
  BY TypeOKKept, PcAgreesKept, CursorAgreesKept, HeaderFirstKept, FirstOnceKept,
     DoneBeforeGoneKept, InsideImageKept DEF IInv
<1> QED
  BY <1>1, InitInvariant, PTL DEF Spec

\* The update keeps its types: no address leaves the flash and no counter its
\* word, though bytes_left may wrap.
THEOREM BoosterTypeCorrect == Spec => []TypeOK
<1>1. IInv => TypeOK
  BY DEF IInv
<1> QED
  BY <1>1, InvariantAlways, PTL

\* After a power cut at any moment an image that works is started, except
\* when the header page itself was cut, the check failed, or the user has
\* downloaded over the recovery copy.
THEOREM BrickedInHeaderOnly == Spec => []BrickOnlyInHeader
<1>1. IInv => BrickOnlyInHeader
  BY HeaderPage DEF IInv, TypeOK, HeaderFirst, BrickOnlyInHeader, Boots, Content, InHeader
<1> QED
  BY <1>1, InvariantAlways, PTL

\* Booster deletes itself only after the new image is installed.
THEOREM GoneIsInstalled == Spec => []GoneMeansInstalled
<1>1. IInv => GoneMeansInstalled
  BY DEF IInv, DoneBeforeGone
<1> QED
  BY <1>1, InvariantAlways, PTL

\* A package that is refused leaves the bootloader as it was, and starting.
THEOREM BadPackageIsHarmless == Spec => []BadPackageHarmless
<1>1. IInv => BadPackageHarmless
  BY DEF IInv, HeaderFirst, BadPackageHarmless, Boots, Primary
<1> QED
  BY <1>1, InvariantAlways, PTL

\* The software behind the image is kept.
THEOREM SpareIsKept == Spec => []SpareKept
<1>1. IInv => SpareKept
  BY DEF IInv, InsideImage, SpareKept
<1> QED
  BY <1>1, InvariantAlways, PTL

\* What the chip does to a complete first sector is to clear byte 9.
LEMMA FirstSectorStored ==
  ASSUME IInv, FirstNew
  PROVE  Stored(0) \in {"new", "done"} /\ 0 \notin Torn
<1>1. target[0] = "new"
  BY HeaderPage DEF FirstNew
<1>2. ~ (op.kind \in {"erase", "write"} /\ op.at = 0)
  BY <1>1 DEF IInv, FirstOnce
<1>3. op.kind \in {"erase", "write"} => Stored(0) = target[0]
  BY <1>2, HeaderStored DEF IInv
<1>4. op.kind = "retarget" => Stored(0) = "done"
  BY <1>1, HeaderStored DEF IInv
<1>5. op.kind \in {"none", "discard"} => Stored(0) = target[0]
  BY StoredSame, HeaderPage DEF IInv
<1> QED
  BY <1>1, <1>3, <1>4, <1>5 DEF Torn, IInv, TypeOK

\* A complete first sector goes on starting an image that works, whatever
\* step follows.
THEOREM FirstSectorIsHeld == Spec => FirstSectorHolds
<1> DEFINE Held ==
      FirstNew => \/ Boots' \in {"recovery", "primary"}
                  \/ error_code = "FINAL_IMAGE_MISMATCH_END"
                  \/ package' = "overwritten"
<1>1. IInv /\ IInv' /\ [Next]_vars => Held
  <2> SUFFICES ASSUME IInv, IInv', [Next]_vars, FirstNew,
                      error_code # "FINAL_IMAGE_MISMATCH_END", package' # "overwritten"
               PROVE  Boots' \in {"recovery", "primary"}
    OBVIOUS
  <2>1. target[0] = "new"
    BY HeaderPage DEF FirstNew
  <2>2. target' = target \/ (ChipDone \/ ProgramFault \/ PowerCut)
    BY DEF Next, fobooster_main, PowerOn, init, Download, Validate, Compare, EraseSector,
           ProgramPage, FinalCheck, RetargetHeader, EraseBooster, Finish, Rest, vars
  <2>3. CASE target' = target
    BY <2>1, <2>3 DEF Boots
  <2>4. CASE ChipDone \/ ProgramFault \/ PowerCut
    <3>1. target'[0] \in {"new", "done"}
      <4>1. CASE ChipDone
        BY <4>1, FirstSectorStored, HeaderPage DEF ChipDone
      <4>2. CASE ProgramFault
        BY <2>1, <4>2, HeaderPage DEF ProgramFault, IInv, FirstOnce, TypeOK
      <4>3. CASE PowerCut
        BY <2>1, <4>3, FirstSectorStored, HeaderPage DEF PowerCut
      <4> QED
        BY <2>4, <4>1, <4>2, <4>3
    <3>2. error_code' = error_code
      BY <2>4 DEF ChipDone, ProgramFault, PowerCut
    <3>3. InHeader' => Primary'
      BY <3>2 DEF IInv, HeaderFirst
    <3> QED
      BY <3>1, <3>3 DEF Boots, InHeader
  <2> QED
    BY <2>2, <2>3, <2>4
<1>2. Held <=> ((\A a \in Sector(0) : target[a] = "new") =>
                  \/ Boots' \in {"recovery", "primary"}
                  \/ error_code = "FINAL_IMAGE_MISMATCH_END"
                  \/ package' = "overwritten")
  BY DEF FirstNew
<1> QED
  BY <1>1, <1>2, InvariantAlways, PTL DEF Spec, FirstSectorHolds

=============================================================================
