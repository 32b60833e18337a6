------------------------- MODULE XMOSFlasher_proofs -------------------------
(***************************************************************************)
(* What the flasher promises, for every geometry of the flash, every set   *)
(* of images and whatever the user, the network and the chip do: the XMOS  *)
(* is held while the memory is worked on, no page is programmed that was   *)
(* not erased, success means that the memory holds what was asked for, and *)
(* a connected XMOS runs the version that the link reports.                *)
(*                                                                         *)
(* The inductive invariant follows a flash from page to page: how far the  *)
(* erase and the image have come (Progress), what the erased sectors       *)
(* (SectorsErased) and the written pages (PagesWritten) hold.              *)
(***************************************************************************)
EXTENDS XMOSFlasher, TLAPS

-----------------------------------------------------------------------------
(* Sizes, pages and sectors.                                               *)

(* Quotient and remainder of a positive divisor.                           *)
LEMMA Division ==
  ASSUME NEW a \in Nat, NEW b \in Nat \ {0}
  PROVE  /\ a % b \in 0..(b - 1)
         /\ a \div b \in Nat
         /\ (a \div b) * b + (a % b) = a
  OBVIOUS

(* The quotient rounded up, as the flasher computes pages and sectors.     *)
LEMMA RoundedUp ==
  ASSUME NEW a \in Nat, NEW b \in Nat \ {0}
  PROVE  /\ (a + b - 1) \div b \in Nat
         /\ a <= ((a + b - 1) \div b) * b
         /\ ((a + b - 1) \div b) * b < a + b
<1> DEFINE c == a + b - 1
           q == c \div b
           r == c % b
<1>1. c \in Nat
  OBVIOUS
<1>2. r \in 0..(b - 1) /\ q \in Nat /\ q * b + r = c
  BY <1>1, Division, Zenon
<1>3. q * b \in Nat
  BY <1>2
<1> HIDE DEF q, r
<1>4. a <= q * b /\ q * b < a + b
  BY <1>2, <1>3
<1>5. QED
  BY <1>2, <1>4 DEF q

(* A common positive factor may be dropped from a comparison.              *)
LEMMA Cancel ==
  ASSUME NEW a \in Nat, NEW b \in Nat, NEW c \in Nat \ {0}, a * c < b * c
  PROVE  a < b
<1>1. SUFFICES ASSUME a >= b PROVE a * c >= b * c
  OBVIOUS
<1>2. a - b \in Nat /\ (a - b) * c \in Nat
  BY <1>1
<1>3. a * c = b * c + (a - b) * c
  BY <1>1
<1>4. QED
  BY <1>2, <1>3

(* Products of sizes, distributed ...                                      *)
LEMMA Distribution ==
  ASSUME NEW a \in Nat, NEW b \in Nat, NEW c \in Nat
  PROVE  (a + b) * c = a * c + b * c
  OBVIOUS

(* ... and reordered.                                                      *)
LEMMA Association ==
  ASSUME NEW a \in Nat, NEW b \in Nat, NEW c \in Nat
  PROVE  (a * b) * c = a * (b * c)
  OBVIOUS

(* A sector is a whole number of pages, at least one.                      *)
LEMMA SectorGeometry ==
  /\ PAGES_PER_SECTOR \in Nat \ {0}
  /\ FLASH_SECTOR_SIZE = PAGES_PER_SECTOR * FLASH_PAGE_SIZE
<1>1. /\ PAGES_PER_SECTOR \in Nat
      /\ PAGES_PER_SECTOR * FLASH_PAGE_SIZE + (FLASH_SECTOR_SIZE % FLASH_PAGE_SIZE)
           = FLASH_SECTOR_SIZE
  BY FlashAssumption, Division DEF PAGES_PER_SECTOR
<1>2. PAGES_PER_SECTOR * FLASH_PAGE_SIZE = FLASH_SECTOR_SIZE
  <2>1. PAGES_PER_SECTOR * FLASH_PAGE_SIZE \in Nat
    BY <1>1, FlashAssumption
  <2>2. QED
    BY <1>1, <2>1, FlashAssumption
<1>3. PAGES_PER_SECTOR # 0
  BY <1>2, FlashAssumption
<1>4. QED
  BY <1>1, <1>2, <1>3

(* An image fits the chip, its pages fit its sectors, and an image that is *)
(* not empty has a page.                                                   *)
LEMMA ImageGeometry ==
  ASSUME NEW i \in Versions
  PROVE  /\ SizeOf(i) \in 0..(FLASH_SECTOR_SIZE * FLASH_TOTAL_NUMBER_OF_SECTORS)
         /\ PagesOf(i) \in Nat
         /\ SizeOf(i) <= PagesOf(i) * FLASH_PAGE_SIZE
         /\ PagesOf(i) <= FLASH_TOTAL_NUMBER_OF_SECTORS * PAGES_PER_SECTOR
         /\ SectorsOf(SizeOf(i)) \in 0..FLASH_TOTAL_NUMBER_OF_SECTORS
         /\ PagesOf(i) <= SectorsOf(SizeOf(i)) * PAGES_PER_SECTOR
         /\ i \in Images => SizeOf(i) >= 1 /\ PagesOf(i) >= 1
<1> DEFINE P == FLASH_PAGE_SIZE
           S == FLASH_SECTOR_SIZE
           T == FLASH_TOTAL_NUMBER_OF_SECTORS
           K == PAGES_PER_SECTOR
           pages == PagesOf(i)
           sectors == SectorsOf(SizeOf(i))
<1>1. P \in Nat \ {0} /\ S \in Nat \ {0} /\ T \in Nat \ {0} /\ K \in Nat \ {0} /\ S = K * P
  BY FlashAssumption, SectorGeometry
<1>2. SizeOf(i) \in 0..(S * T) /\ (i \in Images => SizeOf(i) >= 1)
  BY <1>1, ImageSizeAssumption, ImagesAssumption DEF SizeOf, Versions
<1>3. S * T \in Nat /\ SizeOf(i) \in Nat
  BY <1>1, <1>2
<1>4. pages \in Nat /\ SizeOf(i) <= pages * P /\ pages * P < SizeOf(i) + P
  BY <1>1, <1>3, RoundedUp, Zenon DEF PagesOf
<1>5. pages * P \in Nat
  BY <1>1, <1>4
<1>6. sectors \in Nat /\ pages * P <= sectors * S /\ sectors * S < pages * P + S
  <2>1. sectors = (pages * P + S - 1) \div S
    BY DEF SectorsOf, PagesOf
  <2>2. QED
    BY <1>1, <1>5, <2>1, RoundedUp, Zenon
<1>7. S * T = (T * K) * P /\ T * K \in Nat
  BY <1>1, Association
<1>8. pages < T * K + 1
  <2>1. pages * P < (T * K + 1) * P
    <3>1. (T * K + 1) * P = (T * K) * P + P
      BY <1>1, <1>7, Distribution
    <3>2. QED
      BY <1>1, <1>2, <1>3, <1>4, <1>5, <1>7, <3>1
  <2>2. QED
    BY <1>1, <1>4, <1>7, <2>1, Cancel
<1>9. sectors < T + 1
  <2>1. pages * P <= (T * K) * P
    <3>1. (T * K - pages) \in Nat /\ (T * K - pages) * P \in Nat
      BY <1>1, <1>4, <1>7, <1>8
    <3>2. (T * K) * P = (T * K - pages) * P + pages * P
      BY <1>1, <1>4, <1>7, <3>1, Distribution
    <3>3. QED
      BY <1>5, <3>1, <3>2
  <2>2. (T + 1) * S = T * S + S /\ T * S = S * T /\ T * S \in Nat
    BY <1>1, Distribution
  <2>3. sectors * S < (T + 1) * S
    BY <1>1, <1>5, <1>6, <1>7, <2>1, <2>2
  <2>4. QED
    BY <1>1, <1>6, <2>3, Cancel
<1>10. pages < sectors * K + 1
  <2>1. sectors * S = (sectors * K) * P /\ sectors * K \in Nat
    BY <1>1, <1>6, Association
  <2>2. (sectors * K + 1) * P = (sectors * K) * P + P
    BY <1>1, <2>1, Distribution
  <2>3. pages * P < (sectors * K + 1) * P
    BY <1>1, <1>5, <1>6, <2>1, <2>2
  <2>4. QED
    BY <1>1, <1>4, <2>1, <2>3, Cancel
<1>11. i \in Images => pages >= 1
  <2>1. pages = 0 => pages * P = 0
    BY <1>1
  <2>2. QED
    BY <1>2, <1>3, <1>4, <2>1
<1>12. sectors * K \in Nat
  BY <1>1, <1>6
<1>13. QED
  BY <1>1, <1>2, <1>4, <1>6, <1>7, <1>8, <1>9, <1>10, <1>11, <1>12

(* A page below the first of a sector lies in an earlier one.              *)
LEMMA PageInSector ==
  ASSUME NEW p \in Nat, NEW s \in Nat, p < s * PAGES_PER_SECTOR
  PROVE  p \div PAGES_PER_SECTOR \in Nat /\ p \div PAGES_PER_SECTOR < s
<1> DEFINE K == PAGES_PER_SECTOR
           q == p \div K
<1>1. K \in Nat \ {0}
  BY SectorGeometry
<1>2. q \in Nat /\ q * K + (p % K) = p /\ p % K \in Nat
  BY <1>1, Division
<1>3. q * K \in Nat /\ s * K \in Nat
  BY <1>1, <1>2
<1>4. q * K < s * K
  BY <1>2, <1>3
<1>5. QED
  BY <1>1, <1>2, <1>4, Cancel

(* The pages of the chip: there is one, and each lies in one of its sectors.*)
LEMMA ChipGeometry ==
  /\ FLASH_TOTAL_NUMBER_OF_SECTORS * PAGES_PER_SECTOR \in Nat \ {0}
  /\ \A p \in FlashPages : /\ p \in Nat
                           /\ p \div PAGES_PER_SECTOR \in 0..(FLASH_TOTAL_NUMBER_OF_SECTORS - 1)
<1>1. FLASH_TOTAL_NUMBER_OF_SECTORS * PAGES_PER_SECTOR \in Nat \ {0}
  BY FlashAssumption, SectorGeometry
<1>2. SUFFICES ASSUME NEW p \in FlashPages
               PROVE  /\ p \in Nat
                      /\ p \div PAGES_PER_SECTOR \in 0..(FLASH_TOTAL_NUMBER_OF_SECTORS - 1)
  BY <1>1
<1>3. p \in Nat /\ p < FLASH_TOTAL_NUMBER_OF_SECTORS * PAGES_PER_SECTOR
  BY <1>1 DEF FlashPages
<1>4. QED
  BY <1>3, FlashAssumption, PageInSector

(* A position at the start of a page tells its number.                     *)
LEMMA PageAtPosition ==
  ASSUME NEW n \in Nat, page_pos_ = n * FLASH_PAGE_SIZE
  PROVE  PageNumber = n
  BY FlashAssumption DEF PageNumber

-----------------------------------------------------------------------------
(* The inductive invariant.                                                *)

(* What a page of the flash, and a block that was read, may be.            *)
PageValues == (Versions \union {"blank", "junk", "zero", "bad"}) \X Nat

DataTypeOK == flash \in [FlashPages -> PageValues] /\ md5_receive_ \in Seq(PageValues)

(* A held XMOS is never talked to.                                         *)
LinkOff == xmos_rst_pin_ => spi_flash_direct_access_enabled_

(* How far the erase has come: the sectors are those of the chip or of the *)
(* image, of which nothing has been read yet.                              *)
ErasingProgress ==
  state_ = "ERASING" =>
    /\ current_sector_ < total_sectors_to_erase_ \/ current_sector_ = -1
    /\ total_sectors_to_erase_ = IF requested_action_ = "FULL_ERASE"
                                 THEN FLASH_TOTAL_NUMBER_OF_SECTORS
                                 ELSE SectorsOf(SizeOf(reader_))
    /\ requested_action_ # "FULL_ERASE" =>
         bytes_remaining_ = SizeOf(reader_) /\ page_pos_ = 0 /\ md5_receive_ = <<>>

(* How far the image has come: one block was read for each page that is    *)
(* behind page_pos_, and some of it is left, unless the image is empty.    *)
FlashingProgress ==
  state_ = "FLASHING" =>
    /\ page_pos_ = Len(md5_receive_) * FLASH_PAGE_SIZE
    /\ bytes_remaining_ = SizeOf(reader_) - page_pos_
    /\ page_pos_ < SizeOf(reader_) \/ (page_pos_ = 0 /\ reader_ = NoVersion)

(* Every sector behind current_sector_ is blank, and so is that one once   *)
(* the chip is done with it.                                               *)
SectorsErased ==
  state_ = "ERASING" /\ ~disturbed =>
    \A p \in FlashPages :
      p \div PAGES_PER_SECTOR <= current_sector_ /\ p \div PAGES_PER_SECTOR # erasing
        => flash[p] = Blank

(* The pages behind page_pos_ hold the blocks that were read.              *)
PagesWritten ==
  state_ = "FLASHING" /\ ~disturbed =>
    /\ erasing = -1
    /\ \A n \in 1..Len(md5_receive_) : flash[n - 1] = md5_receive_[n]

-----------------------------------------------------------------------------
(* Types.                                                                  *)

(* An XMOS boots an image or nothing.                                      *)
LEMMA BootsVersion ==
  ASSUME NEW pages
  PROVE  Boots(pages) \in Versions
  BY DEF Boots, Versions

(* The switch of the mode, the reset and the restart keep the link's types.*)
LEMMA SetModeType ==
  ASSUME SatTypeOK, NEW enable \in BOOLEAN, NEW boots \in Versions,
         set_spi_flash_direct_access_mode(enable, boots), connect_checks' \in Nat
  PROVE  SatTypeOK'
<1>1. NoVersion \in Versions
  BY DEF Versions
<1>2. QED
  BY <1>1 DEF set_spi_flash_direct_access_mode, SatTypeOK, MAX_CONNECTION_ATTEMPTS, Versions

(* A pulse on the reset pin keeps the types.                               *)
LEMMA PulseType ==
  ASSUME SatTypeOK, NEW boots \in Versions,
         DirectAccessPulse(boots) \/ xmos_hardware_reset(boots)
  PROVE  SatTypeOK'
<1>1. xmos_rst_pin_' \in BOOLEAN /\ spi_flash_direct_access_enabled_' \in BOOLEAN
  BY Zenon DEF DirectAccessPulse, xmos_hardware_reset, SatTypeOK
<1>2. CASE DirectAccessPulse(boots)
  BY <1>1, <1>2 DEF DirectAccessPulse, SatTypeOK, MAX_CONNECTION_ATTEMPTS
<1>3. CASE xmos_hardware_reset(boots)
  BY <1>1, <1>3 DEF xmos_hardware_reset, SatTypeOK
<1>4. QED
  BY <1>2, <1>3

(* A restart establishes them.                                             *)
LEMMA RestartType ==
  ASSUME xmos' \in Versions, Restart, UNCHANGED flash,
         flash \in [FlashPages -> PageValues], erasing' \in -1..(FLASH_TOTAL_NUMBER_OF_SECTORS - 1),
         presses' \in Nat, faults' \in Nat, restarts' \in Nat
  PROVE  TypeOK' /\ DataTypeOK'
<1>1. NoVersion \in Versions
  BY DEF Versions
<1>2. /\ xmos_rst_pin_' \in BOOLEAN /\ spi_flash_direct_access_enabled_' \in BOOLEAN
      /\ init_in_progress' \in BOOLEAN /\ factory_reset_requested' \in BOOLEAN
      /\ disturbed' \in BOOLEAN
  BY Zenon DEF Restart
<1>3. SatTypeOK'
  BY <1>1, <1>2 DEF Restart, SatTypeOK, MAX_CONNECTION_ATTEMPTS
<1>4. 0 \in 0..(FLASH_SECTOR_SIZE * FLASH_TOTAL_NUMBER_OF_SECTORS)
  BY FlashAssumption
<1>5. FlashTypeOK'
  BY <1>1, <1>2, <1>4, FlashAssumption DEF Restart, FlashTypeOK
<1>6. DataTypeOK'
  BY DEF Restart, DataTypeOK
<1>7. QED
  BY <1>3, <1>5, <1>6 DEF TypeOK

(* The pages that a flash works on are pages of the chip.                  *)
LEMMA PageOnChip ==
  ASSUME TypeOK, DataTypeOK, FlashingProgress, state_ = "FLASHING"
  PROVE  /\ PageNumber = Len(md5_receive_) /\ PageNumber \in Nat
         /\ PageNumber \in FlashPages
         /\ reader_ # NoVersion => PageNumber < PagesOf(reader_)
<1> DEFINE n == Len(md5_receive_)
<1>1. n \in Nat /\ reader_ \in Versions
  BY DEF DataTypeOK, TypeOK, FlashTypeOK
<1>2. PageNumber = n
  BY <1>1, PageAtPosition DEF FlashingProgress
<1>3. CASE reader_ = NoVersion
  <2>1. n * FLASH_PAGE_SIZE = 0
    <3>1. SizeOf(reader_) = 0
      BY <1>3 DEF SizeOf
    <3>2. page_pos_ = n * FLASH_PAGE_SIZE /\ (page_pos_ < SizeOf(reader_) \/ page_pos_ = 0)
      BY DEF FlashingProgress
    <3>3. n * FLASH_PAGE_SIZE \in Nat
      BY <1>1, FlashAssumption
    <3>4. QED
      BY <3>1, <3>2, <3>3
  <2>2. n = 0
    BY <1>1, <2>1, FlashAssumption
  <2>3. QED
    BY <1>2, <1>3, <2>2, ChipGeometry DEF FlashPages
<1>4. CASE reader_ # NoVersion
  <2>1. n * FLASH_PAGE_SIZE < SizeOf(reader_)
    BY <1>4 DEF FlashingProgress
  <2>2. /\ PagesOf(reader_) \in Nat /\ SizeOf(reader_) \in Nat
        /\ SizeOf(reader_) <= PagesOf(reader_) * FLASH_PAGE_SIZE
        /\ PagesOf(reader_) <= FLASH_TOTAL_NUMBER_OF_SECTORS * PAGES_PER_SECTOR
    BY <1>1, ImageGeometry
  <2>3. n * FLASH_PAGE_SIZE < PagesOf(reader_) * FLASH_PAGE_SIZE
    <3>1. n * FLASH_PAGE_SIZE \in Nat /\ PagesOf(reader_) * FLASH_PAGE_SIZE \in Nat
      BY <1>1, <2>2, FlashAssumption
    <3>2. QED
      BY <2>1, <2>2, <3>1
  <2>4. n < PagesOf(reader_)
    BY <1>1, <2>2, <2>3, FlashAssumption, Cancel
  <2>5. QED
    BY <1>1, <1>2, <2>2, <2>4, ChipGeometry DEF FlashPages
<1>5. QED
  BY <1>3, <1>4

(* What the two tries of a page leave: the data, when they report success. *)
LEMMA WriteOutcome ==
  ASSUME NEW old \in PageValues, NEW data \in PageValues, NEW w \in WriteAndVerify(old, data)
  PROVE  w.page \in PageValues /\ w.cost \in {0, 1} /\ (w.ok => w.page = data)
<1>1. Junk \in PageValues
  BY DEF Junk, PageValues
<1>2. ASSUME NEW o \in PageValues, NEW v \in write_page_(o, data)
      PROVE  v.page \in PageValues /\ v.cost \in {0, 1} /\ (v.same => v.page = data)
  <2> DEFINE new == Programmed(o, data)
             c == IF BusOwned THEN 1 ELSE 0
  <2>1. new \in PageValues /\ c \in {0, 1}
    BY <1>1 DEF Programmed
  <2>2. \/ v = [page |-> new, ok |-> TRUE, same |-> new = data, cost |-> 0]
        \/ v = [page |-> o, ok |-> FALSE, same |-> o = data, cost |-> c]
        \/ v = [page |-> new, ok |-> FALSE, same |-> FALSE, cost |-> c]
        \/ v = [page |-> Junk, ok |-> TRUE, same |-> FALSE, cost |-> c]
    BY DEF write_page_
  <2> HIDE DEF new, c
  <2>3. v.page \in PageValues /\ v.cost \in {0, 1}
    BY <1>1, <2>1, <2>2
  <2>4. v.same => v.page = data
    <3>1. ASSUME v = [page |-> new, ok |-> TRUE, same |-> new = data, cost |-> 0], v.same
          PROVE  v.page = data
      BY <3>1, Zenon
    <3>2. ASSUME v = [page |-> o, ok |-> FALSE, same |-> o = data, cost |-> c], v.same
          PROVE  v.page = data
      BY <3>2, Zenon
    <3>3. ASSUME \/ v = [page |-> new, ok |-> FALSE, same |-> FALSE, cost |-> c]
                 \/ v = [page |-> Junk, ok |-> TRUE, same |-> FALSE, cost |-> c]
          PROVE  v.same = FALSE
      BY <3>3
    <3>4. QED
      BY <2>2, <3>1, <3>2, <3>3
  <2>5. QED
    BY <2>3, <2>4
<1>3. \/ \E v \in write_page_(old, data) :
           v.same /\ w = [page |-> v.page, ok |-> TRUE, cost |-> v.cost]
      \/ \E u \in write_page_(old, data) : \E v \in write_page_(u.page, data) :
           w = [page |-> v.page, ok |-> v.ok /\ v.same,
                cost |-> IF u.cost + v.cost > 0 THEN 1 ELSE 0]
  BY DEF WriteAndVerify
<1>4. CASE \E v \in write_page_(old, data) :
             v.same /\ w = [page |-> v.page, ok |-> TRUE, cost |-> v.cost]
  BY <1>2, <1>4
<1>5. CASE \E u \in write_page_(old, data) : \E v \in write_page_(u.page, data) :
             w = [page |-> v.page, ok |-> v.ok /\ v.same,
                  cost |-> IF u.cost + v.cost > 0 THEN 1 ELSE 0]
  <2>0. PICK u \in write_page_(old, data) : \E v \in write_page_(u.page, data) :
             w = [page |-> v.page, ok |-> v.ok /\ v.same,
                  cost |-> IF u.cost + v.cost > 0 THEN 1 ELSE 0]
    BY <1>5
  <2>1. PICK v \in write_page_(u.page, data) :
             w = [page |-> v.page, ok |-> v.ok /\ v.same,
                  cost |-> IF u.cost + v.cost > 0 THEN 1 ELSE 0]
    BY <2>0
  <2>2. v.page \in PageValues /\ (v.same => v.page = data)
    BY <1>2
  <2>3. w.page = v.page /\ w.cost \in {0, 1}
    BY <2>1
  <2>4. w.ok => v.same
    BY <2>1, Zenon
  <2>5. QED
    BY <2>2, <2>3, <2>4
<1>6. QED
  BY <1>3, <1>4, <1>5

(* A request is heard only by an idle flasher.                             *)
RequestHeard ==
  /\ state_' \in {"IDLE", "INITIALIZING", "ERASING", "FLASHING", "SUCCESS", "ERROR"}
  /\ requested_action_' \in {"FULL_ERASE", "FLASH_REMOTE_IMAGE", "FLASH_EMBEDDED_IMAGE"}
  /\ md5_expected_' \in Images \union {NoSum, "garbage"}
  /\ \/ UNCHANGED <<state_, requested_action_>>
     \/ state_' \in {"INITIALIZING", "ERROR"}

(* A request leaves the state alone, or ends in INITIALIZING or ERROR.     *)
LEMMA RequestOutcome ==
  ASSUME FlashTypeOK,
         \/ flash_embedded_image \/ erase_memory
         \/ UNCHANGED <<state_, requested_action_, md5_expected_>>
  PROVE  RequestHeard
<1>1. CASE UNCHANGED <<state_, requested_action_, md5_expected_>>
  BY <1>1 DEF RequestHeard, FlashTypeOK
<1>2. CASE flash_embedded_image
  BY <1>2, ImagesAssumption DEF flash_embedded_image, Start, RequestHeard, FlashTypeOK
<1>3. CASE erase_memory
  BY <1>3 DEF erase_memory, Start, RequestHeard, FlashTypeOK
<1>4. QED
  BY <1>1, <1>2, <1>3

(* The same of an image to download.                                       *)
LEMMA RemoteRequestOutcome ==
  ASSUME FlashTypeOK, NEW image \in Images, NEW how \in {"md5", "md5_url"},
         write_image(image, how)
  PROVE  RequestHeard /\ faults' \in Nat
<1>1. faults' \in Nat
  BY DEF write_image, FlashTypeOK, Fault
<1>2. RequestHeard
  BY DEF write_image, Start, RequestHeard, FlashTypeOK
<1>3. QED
  BY <1>1, <1>2

(* Every step of the link keeps the types.                                 *)
LEMMA SatelliteType ==
  ASSUME TypeOK, DataTypeOK, SatelliteLoop
  PROVE  TypeOK' /\ DataTypeOK'
<1>1. SatTypeOK /\ FlashTypeOK
  BY DEF TypeOK
<1>2. CASE ConnectionMade
  <2>1. SatTypeOK'
    BY <1>1, <1>2 DEF ConnectionMade, SatTypeOK, MAX_CONNECTION_ATTEMPTS
  <2>2. FlashTypeOK' /\ DataTypeOK'
    BY <1>1, <1>2 DEF ConnectionMade, FlashTypeOK, DataTypeOK, flasherVars, configVars, chipVars
  <2>3. QED
    BY <2>1, <2>2 DEF TypeOK
<1>3. CASE ConnectionFailed
  <2>1. SatTypeOK'
    BY <1>1, <1>3 DEF ConnectionFailed, SatTypeOK, MAX_CONNECTION_ATTEMPTS
  <2>2. faults' \in Nat
    BY <1>1, <1>3 DEF ConnectionFailed, Fault, FlashTypeOK
  <2>3. FlashTypeOK' /\ DataTypeOK'
    BY <1>1, <1>3, <2>2
    DEF ConnectionFailed, FlashTypeOK, DataTypeOK, flasherVars, configVars, chipVars
  <2>4. QED
    BY <2>1, <2>3 DEF TypeOK
<1>4. CASE ConnectionGivenUp
  <2>1. SatTypeOK'
    BY <1>1, <1>4 DEF ConnectionGivenUp, SatTypeOK, MAX_CONNECTION_ATTEMPTS
  <2>2. RequestHeard
    BY <1>1, <1>4, RequestOutcome DEF ConnectionGivenUp
  <2>3. FlashTypeOK' /\ DataTypeOK'
    BY <1>1, <1>4, <2>2
    DEF ConnectionGivenUp, RequestHeard, FlashTypeOK, DataTypeOK, stepVars, configVars, chipVars
  <2>4. QED
    BY <2>1, <2>3 DEF TypeOK
<1>5. CASE ConnectedAutomation
  <2>1. SatTypeOK'
    BY <1>1, <1>5 DEF ConnectedAutomation, SatTypeOK
  <2>2. RequestHeard
    BY <1>1, <1>5, RequestOutcome DEF ConnectedAutomation
  <2>3. FlashTypeOK' /\ DataTypeOK'
    BY <1>1, <1>5, <2>2
    DEF ConnectedAutomation, RequestHeard, FlashTypeOK, DataTypeOK, stepVars, configVars, chipVars
  <2>4. QED
    BY <2>1, <2>3 DEF TypeOK
<1>6. QED
  BY <1>2, <1>3, <1>4, <1>5 DEF SatelliteLoop

(* Every step of the user, the chip and the ESP32 keeps the types.         *)
LEMMA EnvironmentType ==
  ASSUME TypeOK, DataTypeOK, SectorErased \/ User \/ InitOver \/ Reboot
  PROVE  TypeOK' /\ DataTypeOK'
<1>1. SatTypeOK /\ FlashTypeOK /\ -1 \in -1..(FLASH_TOTAL_NUMBER_OF_SECTORS - 1)
  BY FlashAssumption DEF TypeOK
<1>2. CASE SectorErased
  <2>1. SatTypeOK' /\ FlashTypeOK'
    BY <1>1, <1>2 DEF SectorErased, SatTypeOK, FlashTypeOK, satVars, flasherVars, configVars
  <2>2. Blank \in PageValues
    BY DEF Blank, PageValues
  <2>3. DataTypeOK'
    BY <1>2, <2>2 DEF SectorErased, DataTypeOK, flasherVars
  <2>4. QED
    BY <2>1, <2>3 DEF TypeOK
<1>3. CASE UserFlashes
  <2>1. SatTypeOK'
    BY <1>1, <1>3 DEF UserFlashes, SatTypeOK, satVars
  <2>2. RequestHeard /\ faults' \in Nat
    <3>1. CASE flash_embedded_image /\ UNCHANGED faults
      BY <1>1, <3>1, RequestOutcome DEF FlashTypeOK
    <3>2. CASE \E image \in Images, how \in {"md5", "md5_url"} : write_image(image, how)
      BY <1>1, <3>2, RemoteRequestOutcome
    <3>3. CASE erase_memory /\ UNCHANGED faults
      BY <1>1, <3>3, RequestOutcome DEF FlashTypeOK
    <3>4. QED
      BY <1>3, <3>1, <3>2, <3>3 DEF UserFlashes
  <2>3. presses' \in Nat /\ erase_by' \in {"nobody", "hold", "button"}
    BY <1>1, <1>3 DEF UserFlashes, Press, FlashTypeOK
  <2>4. FlashTypeOK' /\ DataTypeOK'
    BY <1>1, <1>3, <2>2, <2>3
    DEF UserFlashes, RequestHeard, FlashTypeOK, DataTypeOK, stepVars, configVars, chipVars
  <2>5. QED
    BY <2>1, <2>4 DEF TypeOK
<1>4. CASE UserHolds
  <2>1. SatTypeOK'
    BY <1>1, <1>4, BootsVersion, PulseType DEF UserHolds
  <2>2. RequestHeard
    BY <1>1, <1>4, RequestOutcome DEF UserHolds
  <2>3. presses' \in Nat
    BY <1>1, <1>4 DEF UserHolds, Press, FlashTypeOK
  <2>4. disturbed' \in BOOLEAN /\ factory_reset_requested' \in BOOLEAN
    BY <1>4, Zenon DEF UserHolds
  <2>5. FlashTypeOK' /\ DataTypeOK'
    BY <1>1, <1>4, <2>2, <2>3, <2>4
    DEF UserHolds, RequestHeard, FlashTypeOK, DataTypeOK, stepVars, chipVars
  <2>6. QED
    BY <2>1, <2>5 DEF TypeOK
<1>5. CASE UserHoldsFlashMute
  <2>1. presses' \in Nat /\ faults' \in Nat /\ restarts' \in Nat
    BY <1>1, <1>5 DEF UserHoldsFlashMute, Press, Fault, FlashTypeOK
  <2>2. /\ xmos' \in Versions /\ Restart /\ UNCHANGED flash
        /\ erasing' \in -1..(FLASH_TOTAL_NUMBER_OF_SECTORS - 1)
    BY <1>1, <1>5, BootsVersion DEF UserHoldsFlashMute, FlashTypeOK, chipVars
  <2>3. QED
    BY <2>1, <2>2, RestartType DEF DataTypeOK
<1>6. CASE UserResetsXmos
  <2>1. SatTypeOK'
    BY <1>1, <1>6, BootsVersion, PulseType DEF UserResetsXmos
  <2>2. presses' \in Nat
    BY <1>1, <1>6 DEF UserResetsXmos, Press, FlashTypeOK
  <2>3. disturbed' \in BOOLEAN
    BY <1>6, Zenon DEF UserResetsXmos
  <2>4. FlashTypeOK' /\ DataTypeOK'
    BY <1>1, <1>6, <2>2, <2>3
    DEF UserResetsXmos, FlashTypeOK, DataTypeOK, flasherVars, configVars, chipVars
  <2>5. QED
    BY <2>1, <2>4 DEF TypeOK
<1>7. CASE InitOver
  <2>1. init_in_progress' \in BOOLEAN
    BY <1>7, Zenon DEF InitOver
  <2>2. SatTypeOK' /\ FlashTypeOK' /\ DataTypeOK'
    BY <1>1, <1>7, <2>1
    DEF InitOver, SatTypeOK, FlashTypeOK, DataTypeOK, satVars, flasherVars, chipVars
  <2>3. QED
    BY <2>2 DEF TypeOK
<1>8. CASE Reboot
  <2>1. presses' \in Nat /\ faults' \in Nat /\ restarts' \in Nat
    BY <1>1, <1>8 DEF Reboot, FlashTypeOK
  <2>2. xmos' \in Versions
    BY <1>1, <1>8, BootsVersion DEF Reboot, XmosGoesOn, SatTypeOK
  <2>3. Restart /\ UNCHANGED flash /\ erasing' \in -1..(FLASH_TOTAL_NUMBER_OF_SECTORS - 1)
    BY <1>1, <1>8 DEF Reboot, FlashTypeOK
  <2>4. QED
    BY <2>1, <2>2, <2>3, RestartType DEF DataTypeOK
<1>9. QED
  BY <1>2, <1>3, <1>4, <1>5, <1>6, <1>7, <1>8 DEF User

(* deinit_flashing_ keeps the types, frees the buffers, forgets the sum.   *)
LEMMA DeinitType ==
  ASSUME SatTypeOK, NEW pages, deinit_flashing_(pages)
  PROVE  /\ SatTypeOK' /\ allocated' = {} /\ md5_expected_' = NoSum
<1>1. connect_checks' \in Nat
  BY DEF deinit_flashing_, SatTypeOK
<1>2. QED
  BY <1>1, BootsVersion, SetModeType, Zenon DEF deinit_flashing_

(* The blocks that are read, and what they cost.                           *)
LEMMA BlockType ==
  ASSUME NEW read \in BlocksRead, reader_ \in Versions, PageNumber \in Nat
  PROVE  read.data \in PageValues /\ read.cost \in {0, 1}
<1>1. <<reader_, PageNumber>> \in PageValues /\ <<"bad", PageNumber>> \in PageValues
  BY DEF PageValues
<1>2. ZeroPage \in PageValues
  BY DEF PageValues, ZeroPage
<1>3. \/ read = [data |-> ZeroPage, cost |-> 0]
      \/ read = [data |-> <<reader_, PageNumber>>, cost |-> 0]
      \/ read = [data |-> <<"bad", PageNumber>>, cost |-> 1]
  BY DEF BlocksRead
<1>4. QED
  BY <1>1, <1>2, <1>3

(* A page step taken apart: the length of its block, the blocks read with  *)
(* it, the flash after it, and how it goes on.                             *)
BlockSize ==
  IF bytes_remaining_ < FLASH_PAGE_SIZE THEN bytes_remaining_ ELSE FLASH_PAGE_SIZE

BlocksWith(read) ==
  IF BlockSize = 0 THEN md5_receive_ ELSE Append(md5_receive_, read.data)

PageStep(read, w) ==
  /\ read.cost + w.cost <= faults /\ faults' = faults - read.cost - w.cost
  /\ md5_receive_' = BlocksWith(read) /\ bytes_remaining_' = bytes_remaining_ - BlockSize
  /\ flash' = [flash EXCEPT ![PageNumber] = w.page]
  /\ page_pos_' = IF w.ok THEN page_pos_ + FLASH_PAGE_SIZE ELSE page_pos_
  /\ IF w.ok /\ bytes_remaining_ - BlockSize > 0
     THEN UNCHANGED <<satVars, state_, md5_expected_, allocated>>
     ELSE /\ deinit_flashing_([flash EXCEPT ![PageNumber] = w.page])
          /\ state_' = IF w.ok /\ Md5Matches(BlocksWith(read)) THEN "SUCCESS" ELSE "ERROR"

(* FlashPage, taken apart into its read and its write.                     *)
LEMMA FlashPageSteps ==
  ASSUME FlashPage
  PROVE  /\ \E read \in BlocksRead : \E w \in WriteAndVerify(flash[PageNumber], read.data) :
              PageStep(read, w)
         /\ UNCHANGED flashOnlyVars
  BY Zenon DEF FlashPage, PageStep, BlocksWith, BlockSize

(* Every step of the flasher keeps the types.                              *)
LEMMA FlasherType ==
  ASSUME TypeOK, DataTypeOK, ErasingProgress, FlashingProgress, FlasherLoop
  PROVE  TypeOK' /\ DataTypeOK'
<1>1. SatTypeOK /\ FlashTypeOK
  BY DEF TypeOK
<1>2. NoVersion \in Versions /\ FLASH_TOTAL_NUMBER_OF_SECTORS \in Nat \ {0}
  BY FlashAssumption DEF Versions
<1>3. CASE InitErase
  <2>1. SatTypeOK'
    BY <1>1, <1>2, <1>3, SetModeType, Zenon DEF InitErase, SatTypeOK
  <2>2. disturbed' \in BOOLEAN
    BY <1>3, Zenon DEF InitErase
  <2>3. FlashTypeOK' /\ DataTypeOK'
    BY <1>1, <1>2, <1>3, <2>2 DEF InitErase, FlashTypeOK, DataTypeOK, configVars, chipVars
  <2>4. QED
    BY <2>1, <2>3 DEF TypeOK
<1>4. CASE InitFlash
  <2>1. SatTypeOK'
    BY <1>1, <1>2, <1>4, SetModeType, Zenon DEF InitFlash, SatTypeOK
  <2>2. disturbed' \in BOOLEAN
    BY <1>4, Zenon DEF InitFlash
  <2>3. reader_' \in Versions
    BY <1>4, ImagesAssumption DEF InitFlash, Versions
  <2>4. /\ bytes_remaining_' \in 0..(FLASH_SECTOR_SIZE * FLASH_TOTAL_NUMBER_OF_SECTORS)
        /\ total_sectors_to_erase_' \in 0..FLASH_TOTAL_NUMBER_OF_SECTORS
    BY <1>4, <2>3, ImageGeometry DEF InitFlash
  <2>5. FlashTypeOK' /\ DataTypeOK'
    BY <1>1, <1>2, <1>4, <2>2, <2>3, <2>4
    DEF InitFlash, FlashTypeOK, DataTypeOK, configVars, chipVars
  <2>6. QED
    BY <2>1, <2>5 DEF TypeOK
<1>5. CASE InitFails
  <2>1. SatTypeOK'
    BY <1>1, <1>5, BootsVersion, PulseType DEF InitFails
  <2>2. faults' \in Nat
    BY <1>1, <1>5 DEF InitFails, Fault, FlashTypeOK
  <2>3. FlashTypeOK' /\ DataTypeOK'
    BY <1>1, <1>5, <2>2 DEF InitFails, FlashTypeOK, DataTypeOK, configVars, chipVars
  <2>4. QED
    BY <2>1, <2>3 DEF TypeOK
<1>6. CASE EraseSector
  <2>1. SatTypeOK'
    BY <1>1, <1>6 DEF EraseSector, SatTypeOK, satVars
  <2>2. Junk \in PageValues
    BY DEF Junk, PageValues
  <2>3. /\ current_sector_' \in -1..FLASH_TOTAL_NUMBER_OF_SECTORS
        /\ erasing' \in -1..(FLASH_TOTAL_NUMBER_OF_SECTORS - 1)
    BY <1>1, <1>2, <1>6 DEF EraseSector, FlashTypeOK, chipVars
  <2>4. FlashTypeOK'
    BY <1>1, <1>6, <2>3 DEF EraseSector, FlashTypeOK, eraseOnlyVars, configVars
  <2>5. flash' \in [FlashPages -> PageValues]
    BY <1>6, <2>2 DEF EraseSector, DataTypeOK, chipVars
  <2>6. QED
    BY <1>6, <2>1, <2>4, <2>5 DEF EraseSector, eraseOnlyVars, DataTypeOK, TypeOK
<1>7. CASE EraseFails
  <2>1. SatTypeOK'
    BY <1>1, <1>7 DEF EraseFails, SatTypeOK, satVars
  <2>2. faults' \in Nat
    BY <1>1, <1>7 DEF EraseFails, Fault, FlashTypeOK
  <2>3. current_sector_' \in -1..FLASH_TOTAL_NUMBER_OF_SECTORS
    BY <1>1, <1>2, <1>7 DEF EraseFails, FlashTypeOK
  <2>4. FlashTypeOK' /\ DataTypeOK'
    BY <1>1, <1>7, <2>2, <2>3
    DEF EraseFails, FlashTypeOK, DataTypeOK, eraseOnlyVars, configVars, chipVars
  <2>5. QED
    BY <2>1, <2>4 DEF TypeOK
<1>8. CASE EraseDone
  <2>1. current_sector_' \in -1..FLASH_TOTAL_NUMBER_OF_SECTORS
    BY <1>1, <1>2, <1>8 DEF EraseDone, FlashTypeOK, ErasingProgress
  <2>2. /\ SatTypeOK' /\ state_' \in {"SUCCESS", "FLASHING"}
        /\ md5_expected_' \in Images \union {NoSum, "garbage"} /\ allocated' \subseteq Buffers
    <3>1. CASE requested_action_ = "FULL_ERASE"
      <4>1. deinit_flashing_(flash) /\ state_' = "SUCCESS"
        BY <1>8, <3>1 DEF EraseDone
      <4>2. QED
        BY <1>1, <4>1, DeinitType
    <3>2. CASE requested_action_ # "FULL_ERASE"
      BY <1>1, <1>8, <3>2, SMTT(30) DEF EraseDone, SatTypeOK, FlashTypeOK, satVars
    <3>3. QED
      BY <3>1, <3>2
  <2>3. FlashTypeOK' /\ DataTypeOK'
    BY <1>1, <1>8, <2>1, <2>2
    DEF EraseDone, FlashTypeOK, DataTypeOK, eraseOnlyVars, configVars, chipVars
  <2>4. QED
    BY <2>2, <2>3 DEF TypeOK
<1>9. CASE FlashPage
  <2>1. UNCHANGED flashOnlyVars
    BY <1>9, FlashPageSteps
  <2>2. PICK read \in BlocksRead : \E w \in WriteAndVerify(flash[PageNumber], read.data) :
           PageStep(read, w)
    BY <1>9, FlashPageSteps
  <2>3. PICK w \in WriteAndVerify(flash[PageNumber], read.data) : PageStep(read, w)
    BY <2>2
  <2>4. state_ = "FLASHING" /\ PageNumber \in FlashPages /\ PageNumber \in Nat
    BY <1>9, PageOnChip DEF FlashPage
  <2>5. read.data \in PageValues /\ read.cost \in {0, 1}
    BY <1>1, <2>4, BlockType, SMTT(30) DEF FlashTypeOK
  <2>6. w.page \in PageValues /\ w.cost \in {0, 1}
    BY <2>4, <2>5, WriteOutcome DEF DataTypeOK
  <2>7. DataTypeOK'
    <3>1. flash' \in [FlashPages -> PageValues]
      BY <2>3, <2>4, <2>6, SMTT(30) DEF PageStep, DataTypeOK
    <3>2. md5_receive_' \in Seq(PageValues)
      BY <2>3, <2>5 DEF PageStep, BlocksWith, DataTypeOK
    <3>3. QED
      BY <3>1, <3>2 DEF DataTypeOK
  <2>8. /\ SatTypeOK' /\ state_' \in {"SUCCESS", "FLASHING", "ERROR"}
        /\ md5_expected_' \in Images \union {NoSum, "garbage"} /\ allocated' \subseteq Buffers
    <3>1. CASE /\ deinit_flashing_([flash EXCEPT ![PageNumber] = w.page])
               /\ state_' \in {"SUCCESS", "ERROR"}
      BY <1>1, <3>1, DeinitType
    <3>2. CASE UNCHANGED <<satVars, state_, md5_expected_, allocated>>
      BY <1>1, <2>4, <3>2 DEF SatTypeOK, FlashTypeOK, satVars
    <3>3. QED
      BY <2>3, <3>1, <3>2 DEF PageStep
  <2>9. /\ bytes_remaining_' \in 0..(FLASH_SECTOR_SIZE * FLASH_TOTAL_NUMBER_OF_SECTORS)
        /\ page_pos_' \in Nat /\ faults' \in Nat
    <3>1. bytes_remaining_' \in 0..bytes_remaining_
      <4>1. BlockSize \in 0..bytes_remaining_ /\ bytes_remaining_ \in Nat
        BY <1>1, FlashAssumption DEF BlockSize, FlashTypeOK
      <4>2. bytes_remaining_' = bytes_remaining_ - BlockSize
        BY <2>3 DEF PageStep
      <4>3. QED
        BY <4>1, <4>2
    <3>2. bytes_remaining_' \in 0..(FLASH_SECTOR_SIZE * FLASH_TOTAL_NUMBER_OF_SECTORS)
      BY <1>1, <3>1, FlashAssumption, SMTT(30) DEF FlashTypeOK
    <3>3. page_pos_' \in Nat
      BY <1>1, <2>3, FlashAssumption, SMTT(30) DEF PageStep, FlashTypeOK
    <3>4. faults' \in Nat
      BY <1>1, <2>3, <2>5, <2>6, SMTT(30) DEF PageStep, FlashTypeOK
    <3>5. QED
      BY <3>2, <3>3, <3>4
  <2>10. FlashTypeOK'
    BY <1>1, <2>1, <2>8, <2>9 DEF FlashTypeOK, flashOnlyVars, configVars
  <2>11. QED
    BY <2>7, <2>8, <2>10 DEF TypeOK
<1>10. CASE StreamBroken
  <2>1. SatTypeOK' /\ allocated' = {} /\ md5_expected_' = NoSum
    BY <1>1, <1>10, DeinitType DEF StreamBroken
  <2>2. faults' \in Nat
    BY <1>1, <1>10, SMTT(30) DEF StreamBroken, Fault, FlashTypeOK
  <2>3. FlashTypeOK' /\ DataTypeOK'
    BY <1>1, <1>10, <2>1, <2>2, SMTT(30)
    DEF StreamBroken, FlashTypeOK, DataTypeOK, flashOnlyVars, configVars
  <2>4. QED
    BY <2>1, <2>3 DEF TypeOK
<1>11. CASE FlasherEnd
  BY <1>1, <1>11
  DEF FlasherEnd, TypeOK, SatTypeOK, FlashTypeOK, DataTypeOK, satVars, stepVars, configVars, chipVars
<1>12. CASE FactoryReset \/ DivisionByZero
  <2>1. /\ presses' \in Nat /\ faults' \in Nat /\ restarts' \in Nat
        /\ erasing' \in -1..(FLASH_TOTAL_NUMBER_OF_SECTORS - 1)
    BY <1>1, <1>12 DEF FactoryReset, DivisionByZero, FlashTypeOK, chipVars
  <2>2. xmos' \in Versions
    BY <1>1, <1>12, BootsVersion DEF FactoryReset, DivisionByZero, XmosGoesOn, SatTypeOK
  <2>3. Restart /\ UNCHANGED flash
    BY <1>12 DEF FactoryReset, DivisionByZero, chipVars
  <2>4. QED
    BY <2>1, <2>2, <2>3, RestartType DEF DataTypeOK
<1>13. QED
  BY <1>3, <1>4, <1>5, <1>6, <1>7, <1>8, <1>9, <1>10, <1>11, <1>12 DEF FlasherLoop

-----------------------------------------------------------------------------
(* The link during a flash.                                                *)

(* The reset line is high only with the direct access on.                  *)
LEMMA LinkStep ==
  ASSUME LinkOff, [Next]_vars
  PROVE  LinkOff'
<1>1. ASSUME NEW enable \in BOOLEAN, NEW boots, set_spi_flash_direct_access_mode(enable, boots)
      PROVE  LinkOff'
  BY <1>1 DEF set_spi_flash_direct_access_mode, LinkOff
<1>2. ASSUME NEW boots, DirectAccessPulse(boots) \/ xmos_hardware_reset(boots)
      PROVE  LinkOff'
  BY <1>2 DEF DirectAccessPulse, xmos_hardware_reset, LinkOff
<1>3. ASSUME Restart PROVE LinkOff'
  BY <1>3 DEF Restart, LinkOff
<1>4. ASSUME UNCHANGED <<xmos_rst_pin_, spi_flash_direct_access_enabled_>> PROVE LinkOff'
  BY <1>4, SMTT(30) DEF LinkOff
<1>5. CASE SatelliteLoop
  BY <1>4, <1>5
  DEF SatelliteLoop, ConnectionMade, ConnectionFailed, ConnectionGivenUp, ConnectedAutomation
<1>6. CASE FlasherLoop
  <2>1. CASE InitErase \/ InitFlash
    BY <1>1, <2>1, Zenon DEF InitErase, InitFlash
  <2>2. CASE InitFails
    BY <1>2, <2>2 DEF InitFails
  <2>3. CASE EraseSector \/ EraseFails \/ FlasherEnd
    BY <1>4, <2>3 DEF EraseSector, EraseFails, FlasherEnd, satVars
  <2>4. CASE EraseDone
    BY <1>1, <1>4, <2>4, Zenon DEF EraseDone, deinit_flashing_, satVars
  <2>5. CASE FlashPage
    BY <1>1, <1>4, <2>5, FlashPageSteps, Zenon DEF PageStep, deinit_flashing_, satVars
  <2>6. CASE StreamBroken
    BY <1>1, <2>6, Zenon DEF StreamBroken, deinit_flashing_
  <2>7. CASE FactoryReset \/ DivisionByZero
    BY <1>3, <2>7 DEF FactoryReset, DivisionByZero
  <2>8. QED
    BY <1>6, <2>1, <2>2, <2>3, <2>4, <2>5, <2>6, <2>7, SMTT(30) DEF FlasherLoop
<1>7. CASE User
  BY <1>2, <1>3, <1>4, <1>7
  DEF User, UserFlashes, UserHolds, UserHoldsFlashMute, UserResetsXmos, satVars
<1>8. CASE SectorErased \/ InitOver \/ UNCHANGED vars
  BY <1>4, <1>8 DEF SectorErased, InitOver, vars, satVars
<1>9. CASE Reboot
  BY <1>3, <1>9 DEF Reboot
<1>10. QED
  BY <1>5, <1>6, <1>7, <1>8, <1>9 DEF Next

(* The XMOS is held from the start of a flash to its end: a link that is   *)
(* connected to the flash makes no attempt to connect, and whoever resets  *)
(* the XMOS meanwhile is recorded as disturbing the flash.                 *)
LEMMA HeldStep ==
  ASSUME TypeOK, XmosHeldWhileFlashing, [Next]_vars
  PROVE  XmosHeldWhileFlashing'
<1>1. FlashTypeOK
  BY DEF TypeOK
<1>2. ASSUME state_' \notin {"ERASING", "FLASHING"} \/ disturbed' PROVE XmosHeldWhileFlashing'
  BY <1>2 DEF XmosHeldWhileFlashing, Flashing
<1>3. ASSUME NEW boots, set_spi_flash_direct_access_mode(TRUE, boots) PROVE XmosHeldWhileFlashing'
  BY <1>3 DEF set_spi_flash_direct_access_mode, XmosHeldWhileFlashing
<1>4. ASSUME UNCHANGED <<xmos_rst_pin_, spi_flash_direct_access_enabled_, sat_state_>>,
             Flashing' => Flashing, UNCHANGED disturbed
      PROVE  XmosHeldWhileFlashing'
  BY <1>4 DEF XmosHeldWhileFlashing
<1>5. ASSUME RequestHeard PROVE Flashing' => Flashing
  BY <1>5 DEF RequestHeard, Flashing
<1>6. CASE SatelliteLoop
  <2>1. CASE ConnectionMade
    <3>1. sat_state_ # "FLASH_CONNECTED" /\ UNCHANGED <<state_, disturbed>>
      BY <2>1 DEF ConnectionMade, AttemptDue, flasherVars
    <3>2. QED
      BY <3>1 DEF XmosHeldWhileFlashing, Flashing
  <2>2. CASE ConnectionFailed
    BY <1>4, <2>2 DEF ConnectionFailed, flasherVars, Flashing
  <2>3. CASE ConnectionGivenUp
    BY <1>1, <1>4, <1>5, <2>3, RequestOutcome DEF ConnectionGivenUp
  <2>4. CASE ConnectedAutomation
    BY <1>1, <1>4, <1>5, <2>4, RequestOutcome DEF ConnectedAutomation
  <2>5. QED
    BY <1>6, <2>1, <2>2, <2>3, <2>4 DEF SatelliteLoop
<1>7. CASE FlasherLoop
  <2>1. CASE InitErase \/ InitFlash
    BY <1>3, <2>1, Zenon DEF InitErase, InitFlash
  <2>2. CASE InitFails \/ EraseFails \/ StreamBroken \/ FlasherEnd
    BY <1>2, <2>2 DEF InitFails, EraseFails, StreamBroken, FlasherEnd
  <2>3. CASE EraseSector
    BY <1>4, <2>3 DEF EraseSector, satVars, eraseOnlyVars, Flashing
  <2>4. CASE EraseDone
    BY <1>2, <1>4, <2>4 DEF EraseDone, satVars, eraseOnlyVars, Flashing
  <2>5. CASE FlashPage
    <3>1. UNCHANGED disturbed
      BY <2>5, FlashPageSteps DEF flashOnlyVars
    <3>2. state_' \in {"SUCCESS", "ERROR"} \/ UNCHANGED <<satVars, state_>>
      BY <2>5, FlashPageSteps, Zenon DEF PageStep
    <3>3. QED
      BY <1>2, <1>4, <3>1, <3>2 DEF satVars, Flashing
  <2>6. CASE FactoryReset \/ DivisionByZero
    BY <1>2, <2>6 DEF FactoryReset, DivisionByZero, Restart
  <2>7. QED
    BY <1>7, <2>1, <2>2, <2>3, <2>4, <2>5, <2>6, SMTT(30) DEF FlasherLoop
<1>8. CASE User
  <2>1. CASE UserFlashes
    <3>1. RequestHeard
      BY <1>1, <2>1, RequestOutcome, RemoteRequestOutcome DEF UserFlashes
    <3>2. QED
      BY <1>4, <1>5, <2>1, <3>1 DEF UserFlashes, satVars
  <2>2. CASE UserHolds
    <3>1. RequestHeard /\ disturbed' = (disturbed \/ Flashing)
      BY <1>1, <2>2, RequestOutcome DEF UserHolds
    <3>2. QED
      BY <1>5, <3>1, Zenon DEF XmosHeldWhileFlashing
  <2>3. CASE UserHoldsFlashMute
    BY <1>2, <2>3 DEF UserHoldsFlashMute, Restart
  <2>4. CASE UserResetsXmos
    <3>1. UNCHANGED state_ /\ disturbed' = (disturbed \/ Flashing)
      BY <2>4 DEF UserResetsXmos, flasherVars
    <3>2. QED
      BY <3>1, Zenon DEF XmosHeldWhileFlashing, Flashing
  <2>5. QED
    BY <1>8, <2>1, <2>2, <2>3, <2>4 DEF User
<1>9. CASE SectorErased \/ InitOver \/ UNCHANGED vars
  BY <1>4, <1>9 DEF SectorErased, InitOver, vars, satVars, flasherVars, Flashing
<1>10. CASE Reboot
  BY <1>2, <1>10 DEF Reboot, Restart
<1>11. QED
  BY <1>6, <1>7, <1>8, <1>9, <1>10 DEF Next

-----------------------------------------------------------------------------
(* The memory during a flash.                                              *)

FlashInv ==
  /\ TypeOK /\ DataTypeOK /\ XmosHeldWhileFlashing
  /\ ErasingProgress /\ FlashingProgress
  /\ SectorsErased /\ PagesWritten /\ ErasedBeforeWritten

(* A step that is none of a flash in progress: it ends one, or leaves alone*)
(* what the flash has come to.                                             *)
Aside ==
  \/ state_' \notin {"ERASING", "FLASHING"}
  \/ /\ UNCHANGED <<state_, requested_action_, stepVars, chipVars>>
     /\ disturbed => disturbed'

(* A step is one of the flash itself, or leaves it alone.                  *)
LEMMA AsideOrWork ==
  ASSUME FlashTypeOK, [Next]_vars
  PROVE  \/ Aside \/ InitErase \/ InitFlash \/ EraseSector \/ EraseDone \/ FlashPage
         \/ SectorErased
<1>1. ASSUME RequestHeard, UNCHANGED <<stepVars, chipVars>>, disturbed => disturbed' PROVE Aside
  BY <1>1 DEF RequestHeard, Aside
<1>2. ASSUME UNCHANGED <<flasherVars, chipVars>>, disturbed => disturbed' PROVE Aside
  BY <1>2 DEF Aside, flasherVars, stepVars
<1>3. CASE SatelliteLoop
  <2>1. CASE ConnectionMade \/ ConnectionFailed
    BY <1>2, <2>1 DEF ConnectionMade, ConnectionFailed
  <2>2. CASE ConnectionGivenUp \/ ConnectedAutomation
    BY <1>1, <2>2, RequestOutcome, SMTT(30) DEF ConnectionGivenUp, ConnectedAutomation
  <2>3. QED
    BY <1>3, <2>1, <2>2, SMTT(30) DEF SatelliteLoop
<1>4. CASE InitFails \/ EraseFails \/ StreamBroken \/ FlasherEnd
  BY <1>4, SMTT(30) DEF InitFails, EraseFails, StreamBroken, FlasherEnd, Aside
<1>5. CASE FactoryReset \/ DivisionByZero \/ UserHoldsFlashMute \/ Reboot
  BY <1>5 DEF FactoryReset, DivisionByZero, UserHoldsFlashMute, Reboot, Restart, Aside
<1>6. CASE UserFlashes
  <2>1. RequestHeard
    BY <1>6, RequestOutcome, RemoteRequestOutcome DEF UserFlashes
  <2>2. QED
    BY <1>1, <1>6, <2>1 DEF UserFlashes
<1>7. CASE UserHolds
  BY <1>1, <1>7, RequestOutcome, Zenon DEF UserHolds
<1>8. CASE UserResetsXmos \/ InitOver \/ UNCHANGED vars
  <2>1. disturbed => disturbed'
    BY <1>8, Zenon DEF UserResetsXmos, InitOver, vars
  <2>2. UNCHANGED <<flasherVars, chipVars>>
    BY <1>8 DEF UserResetsXmos, InitOver, vars
  <2>3. QED
    BY <1>2, <2>1, <2>2
<1>9. QED
  BY <1>3, <1>4, <1>5, <1>6, <1>7, <1>8 DEF Next, FlasherLoop, User

(* A step that leaves the flash alone keeps the invariant.                 *)
LEMMA AsideStep ==
  ASSUME FlashInv, Aside
  PROVE  /\ ErasingProgress' /\ FlashingProgress'
         /\ SectorsErased' /\ PagesWritten' /\ ErasedBeforeWritten'
<1>1. CASE state_' \notin {"ERASING", "FLASHING"}
  BY <1>1 DEF ErasingProgress, FlashingProgress, SectorsErased, PagesWritten, ErasedBeforeWritten
<1>2. CASE /\ UNCHANGED <<state_, requested_action_, stepVars, chipVars>>
           /\ disturbed => disturbed'
  <2>1. ErasingProgress' /\ FlashingProgress'
    BY <1>2, SMTT(30) DEF FlashInv, ErasingProgress, FlashingProgress, stepVars
  <2>2. SectorsErased' /\ PagesWritten'
    BY <1>2 DEF FlashInv, SectorsErased, PagesWritten, stepVars, chipVars
  <2>3. ErasedBeforeWritten'
    BY <1>2, SMTT(30) DEF FlashInv, ErasedBeforeWritten, PageNumber, stepVars, chipVars
  <2>4. QED
    BY <2>1, <2>2, <2>3, SMTT(30)
<1>3. QED
  BY <1>1, <1>2, SMTT(30) DEF Aside

(* The start of a flash, with no sector erased.                            *)
LEMMA InitStep ==
  ASSUME FlashInv, InitErase \/ InitFlash
  PROVE  /\ ErasingProgress' /\ FlashingProgress'
         /\ SectorsErased' /\ PagesWritten' /\ ErasedBeforeWritten'
<1>1. state_' = "ERASING" /\ current_sector_' = -1
  BY Zenon DEF InitErase, InitFlash
<1>2. ErasingProgress'
  BY <1>1, Zenon DEF InitErase, InitFlash, ErasingProgress
<1>3. SectorsErased'
  <2>1. \A p \in FlashPages : ~(p \div PAGES_PER_SECTOR <= -1)
    BY ChipGeometry, FlashAssumption
  <2>2. QED
    BY <1>1, <2>1 DEF SectorsErased
<1>4. QED
  BY <1>1, <1>2, <1>3, SMTT(30) DEF FlashingProgress, PagesWritten, ErasedBeforeWritten

(* With the XMOS held the flasher waits for the chip.                      *)
LEMMA ChipAwaited ==
  ASSUME XmosHeldWhileFlashing, state_ = "ERASING", ~disturbed, NotBusy
  PROVE  erasing = -1 /\ BusOwned
  BY DEF XmosHeldWhileFlashing, Flashing, NotBusy, BusOwned

(* Starting to erase the next sector keeps it.                             *)
LEMMA EraseSectorStep ==
  ASSUME FlashInv, EraseSector
  PROVE  /\ ErasingProgress' /\ FlashingProgress'
         /\ SectorsErased' /\ PagesWritten' /\ ErasedBeforeWritten'
<1>1. /\ state_ = "ERASING" /\ state_' = "ERASING" /\ NotBusy
      /\ current_sector_ + 1 < total_sectors_to_erase_
      /\ current_sector_' = current_sector_ + 1
      /\ UNCHANGED eraseOnlyVars
  BY DEF EraseSector
<1>2. /\ current_sector_ \in Int /\ total_sectors_to_erase_ \in Int
  BY DEF FlashInv, TypeOK, FlashTypeOK
<1>3. ErasingProgress'
  BY <1>1, <1>2, SMTT(30) DEF FlashInv, ErasingProgress, eraseOnlyVars
<1>4. ASSUME ~disturbed'
      PROVE  \A p \in FlashPages :
               p \div PAGES_PER_SECTOR <= current_sector_' /\ p \div PAGES_PER_SECTOR # erasing'
                 => flash'[p] = Blank
  <2>1. ~disturbed
    BY <1>1, <1>4 DEF eraseOnlyVars
  <2>2. erasing = -1 /\ BusOwned
    BY <1>1, <2>1, ChipAwaited, SMTT(30) DEF FlashInv
  <2>3. /\ erasing' = current_sector_ + 1
        /\ flash' = [p \in FlashPages |->
                       IF p \in SectorPages(current_sector_ + 1) THEN Junk ELSE flash[p]]
    BY <1>1, <2>2 DEF EraseSector
  <2>4. SUFFICES ASSUME NEW p \in FlashPages, p \div PAGES_PER_SECTOR <= current_sector_ + 1,
                        p \div PAGES_PER_SECTOR # current_sector_ + 1
                 PROVE  flash'[p] = Blank
    BY <1>1, <2>3
  <2>5. p \div PAGES_PER_SECTOR \in Nat
    BY ChipGeometry, FlashAssumption
  <2>6. flash'[p] = flash[p]
    BY <2>3, <2>4 DEF SectorPages
  <2>7. p \div PAGES_PER_SECTOR <= current_sector_ /\ p \div PAGES_PER_SECTOR # erasing
    BY <1>2, <2>2, <2>4, <2>5
  <2>8. QED
    BY <1>1, <2>1, <2>6, <2>7 DEF FlashInv, SectorsErased
<1>5. SectorsErased'
  BY <1>4, SMTT(30) DEF SectorsErased
<1>6. QED
  BY <1>1, <1>3, <1>5 DEF FlashingProgress, PagesWritten, ErasedBeforeWritten

(* The chip blanks the sector that it was told to erase; a page programmed *)
(* before the flasher was restarted is not one of this flash.              *)
LEMMA SectorErasedStep ==
  ASSUME FlashInv, SectorErased
  PROVE  /\ ErasingProgress' /\ FlashingProgress'
         /\ SectorsErased' /\ PagesWritten' /\ ErasedBeforeWritten'
<1>1. /\ erasing # -1 /\ erasing' = -1 /\ UNCHANGED <<flasherVars, disturbed>>
      /\ flash' = [p \in FlashPages |-> IF p \in SectorPages(erasing) THEN Blank ELSE flash[p]]
  BY SMTT(30) DEF SectorErased
<1>2. ErasingProgress' /\ FlashingProgress'
  BY <1>1 DEF FlashInv, ErasingProgress, FlashingProgress, flasherVars
<1>3. ASSUME state_ = "ERASING", ~disturbed
      PROVE  \A p \in FlashPages : p \div PAGES_PER_SECTOR <= current_sector_ => flash'[p] = Blank
  <2>1. SUFFICES ASSUME NEW p \in FlashPages, p \div PAGES_PER_SECTOR <= current_sector_
                 PROVE  flash'[p] = Blank
    OBVIOUS
  <2>2. CASE p \div PAGES_PER_SECTOR = erasing
    BY <1>1, <2>2 DEF SectorPages
  <2>3. CASE p \div PAGES_PER_SECTOR # erasing
    <3>1. flash[p] = Blank
      BY <1>3, <2>1, <2>3 DEF FlashInv, SectorsErased
    <3>2. QED
      BY <1>1, <3>1
  <2>4. QED
    BY <2>2, <2>3
<1>4. SectorsErased'
  BY <1>1, <1>3, SMTT(30) DEF SectorsErased, flasherVars
<1>5. state_' = "FLASHING" /\ ~disturbed' => FALSE
  BY <1>1 DEF FlashInv, PagesWritten, flasherVars
<1>6. QED
  BY <1>2, <1>4, <1>5 DEF PagesWritten, ErasedBeforeWritten

(* Once the last sector is behind, all that was to be erased is blank.     *)
LEMMA EraseComplete ==
  ASSUME FlashInv, state_ = "ERASING", ~disturbed, NotBusy,
         current_sector_ + 1 >= total_sectors_to_erase_
  PROVE  /\ erasing = -1
         /\ \A p \in FlashPages :
              p \div PAGES_PER_SECTOR < total_sectors_to_erase_ => flash[p] = Blank
<1>1. erasing = -1
  BY ChipAwaited DEF FlashInv
<1>2. ASSUME NEW p \in FlashPages, p \div PAGES_PER_SECTOR < total_sectors_to_erase_
      PROVE  flash[p] = Blank
  <2>1. /\ p \div PAGES_PER_SECTOR \in Nat
        /\ current_sector_ \in Int /\ total_sectors_to_erase_ \in Int
    BY ChipGeometry, FlashAssumption DEF FlashInv, TypeOK, FlashTypeOK
  <2>2. p \div PAGES_PER_SECTOR <= current_sector_ /\ p \div PAGES_PER_SECTOR # erasing
    BY <1>1, <1>2, <2>1
  <2>3. QED
    BY <2>2, SMTT(30) DEF FlashInv, SectorsErased
<1>3. QED
  BY <1>1, <1>2

(* So does the end of the erasing.                                         *)
LEMMA EraseDoneStep ==
  ASSUME FlashInv, EraseDone
  PROVE  /\ ErasingProgress' /\ FlashingProgress'
         /\ SectorsErased' /\ PagesWritten' /\ ErasedBeforeWritten'
<1>1. CASE requested_action_ = "FULL_ERASE"
  <2>1. Aside
    BY <1>1, SMTT(30) DEF EraseDone, Aside
  <2>2. QED
    BY <2>1, AsideStep, SMTT(30)
<1>2. CASE requested_action_ # "FULL_ERASE"
  <2>1. /\ state_ = "ERASING" /\ state_' = "FLASHING" /\ NotBusy
        /\ current_sector_ + 1 >= total_sectors_to_erase_
        /\ UNCHANGED <<eraseOnlyVars, chipVars>>
    BY <1>2, SMTT(30) DEF EraseDone
  <2>2. /\ reader_ \in Versions /\ reader_' = reader_
        /\ total_sectors_to_erase_ = SectorsOf(SizeOf(reader_))
        /\ bytes_remaining_' = SizeOf(reader_) /\ page_pos_' = 0 /\ md5_receive_' = <<>>
        /\ disturbed' = disturbed
    BY <1>2, <2>1, SMTT(30) DEF FlashInv, TypeOK, FlashTypeOK, ErasingProgress, eraseOnlyVars
  <2>3. SizeOf(reader_) \in Nat /\ (SizeOf(reader_) > 0 \/ reader_ = NoVersion)
    BY <2>2, ImageGeometry, FlashAssumption, SMTT(30) DEF Versions
  <2>4. FlashingProgress'
    <3>1. Len(md5_receive_') = 0 /\ 0 * FLASH_PAGE_SIZE = 0
      BY <2>2, FlashAssumption
    <3>2. QED
      BY <2>2, <2>3, <3>1 DEF FlashingProgress
  <2>5. ASSUME ~disturbed'
        PROVE  erasing' = -1 /\ \A p \in PageNumber'..(PagesOf(reader_) - 1) : flash'[p] = Blank
    <3>1. /\ erasing = -1
          /\ \A p \in FlashPages :
               p \div PAGES_PER_SECTOR < total_sectors_to_erase_ => flash[p] = Blank
      BY <2>1, <2>2, <2>5, EraseComplete, SMTT(30)
    <3>2. /\ PagesOf(reader_) \in Nat /\ SectorsOf(SizeOf(reader_)) \in Nat
          /\ PagesOf(reader_) <= FLASH_TOTAL_NUMBER_OF_SECTORS * PAGES_PER_SECTOR
          /\ PagesOf(reader_) <= SectorsOf(SizeOf(reader_)) * PAGES_PER_SECTOR
      BY <2>2, ImageGeometry, FlashAssumption, SMTT(30)
    <3>3. PageNumber' = 0
      BY <2>2, FlashAssumption DEF PageNumber
    <3>4. ASSUME NEW p \in 0..(PagesOf(reader_) - 1)
          PROVE  flash[p] = Blank
      <4>1. /\ p \in Nat /\ p < FLASH_TOTAL_NUMBER_OF_SECTORS * PAGES_PER_SECTOR
            /\ p < SectorsOf(SizeOf(reader_)) * PAGES_PER_SECTOR
        <5>1. /\ FLASH_TOTAL_NUMBER_OF_SECTORS * PAGES_PER_SECTOR \in Nat
              /\ SectorsOf(SizeOf(reader_)) * PAGES_PER_SECTOR \in Nat
          BY <3>2, ChipGeometry, SectorGeometry
        <5>2. QED
          BY <3>2, <5>1
      <4>2. p \in FlashPages
        BY <4>1, ChipGeometry, SMTT(30) DEF FlashPages
      <4>3. p \div PAGES_PER_SECTOR < SectorsOf(SizeOf(reader_))
        BY <3>2, <4>1, PageInSector
      <4>4. QED
        BY <2>2, <3>1, <4>2, <4>3
    <3>5. QED
      BY <2>1, <3>1, <3>3, <3>4 DEF chipVars
  <2>6. PagesWritten'
    BY <2>2, <2>5, SMTT(30) DEF PagesWritten
  <2>7. ErasedBeforeWritten'
    BY <2>2, <2>5, SMTT(30) DEF ErasedBeforeWritten
  <2>8. QED
    BY <2>1, <2>4, <2>6, <2>7 DEF ErasingProgress, SectorsErased
<1>3. QED
  BY <1>1, <1>2

(* What a page step that succeeds leaves in the memory: the blocks read so *)
(* far, one to a page.                                                     *)
LEMMA PageHoldsBlock ==
  ASSUME FlashInv, state_ = "FLASHING", ~disturbed, BlockSize # 0,
         NEW read \in BlocksRead, NEW w \in WriteAndVerify(flash[PageNumber], read.data),
         PageStep(read, w), w.ok
  PROVE  /\ md5_receive_' = Append(md5_receive_, read.data)
         /\ md5_receive_' \in Seq(PageValues)
         /\ Len(md5_receive_') = Len(md5_receive_) + 1
         /\ \A n \in 1..Len(md5_receive_') : flash'[n - 1] = md5_receive_'[n]
<1>1. /\ PageNumber = Len(md5_receive_) /\ PageNumber \in Nat /\ PageNumber \in FlashPages
      /\ flash \in [FlashPages -> PageValues] /\ md5_receive_ \in Seq(PageValues)
      /\ reader_ \in Versions
  BY PageOnChip DEF FlashInv, DataTypeOK, TypeOK, FlashTypeOK
<1>2. read.data \in PageValues
  BY <1>1, BlockType, SMTT(30)
<1>3. w.page = read.data
  BY <1>1, <1>2, WriteOutcome, SMTT(30)
<1>4. md5_receive_' = Append(md5_receive_, read.data)
  BY DEF PageStep, BlocksWith
<1>5. md5_receive_' \in Seq(PageValues) /\ Len(md5_receive_') = Len(md5_receive_) + 1
  BY <1>1, <1>2, <1>4, SMTT(30)
<1>6. flash' = [flash EXCEPT ![PageNumber] = read.data]
  BY <1>3, SMTT(30) DEF PageStep
<1>7. ASSUME NEW n \in 1..Len(md5_receive_')
      PROVE  flash'[n - 1] = md5_receive_'[n]
  <2>1. CASE n = Len(md5_receive_) + 1
    BY <1>1, <1>2, <1>4, <1>6, <2>1, SMTT(30)
  <2>2. CASE n \in 1..Len(md5_receive_)
    <3>1. flash[n - 1] = md5_receive_[n]
      BY <2>2, SMTT(30) DEF FlashInv, PagesWritten
    <3>2. n - 1 # PageNumber /\ md5_receive_'[n] = md5_receive_[n]
      BY <1>1, <1>2, <1>4, <2>2, SMTT(30)
    <3>3. flash'[n - 1] = flash[n - 1]
      BY <1>1, <1>6, <3>2
    <3>4. QED
      BY <3>1, <3>2, <3>3, SMTT(30)
  <2>3. n \in Nat /\ Len(md5_receive_) \in Nat
    BY <1>1, <1>5, SMTT(30)
  <2>4. QED
    BY <1>5, <2>1, <2>2, <2>3, SMTT(30)
<1>8. QED
  BY <1>4, <1>5, <1>7, SMTT(30)

(* So does writing and verifying a page.                                   *)
LEMMA FlashPageStep ==
  ASSUME FlashInv, FlashPage
  PROVE  /\ ErasingProgress' /\ FlashingProgress'
         /\ SectorsErased' /\ PagesWritten' /\ ErasedBeforeWritten'
<1>1. PICK read \in BlocksRead : \E w \in WriteAndVerify(flash[PageNumber], read.data) :
         PageStep(read, w)
  BY FlashPageSteps
<1>2. PICK w \in WriteAndVerify(flash[PageNumber], read.data) : PageStep(read, w)
  BY <1>1
<1>3. CASE ~(w.ok /\ bytes_remaining_ - BlockSize > 0)
  <2>1. Aside
    BY <1>2, <1>3, SMTT(30) DEF PageStep, Aside
  <2>2. QED
    BY <2>1, AsideStep, SMTT(30)
<1>4. CASE w.ok /\ bytes_remaining_ - BlockSize > 0
  <2> DEFINE k == Len(md5_receive_)
             P == FLASH_PAGE_SIZE
  <2>1. state_ = "FLASHING" /\ state_' = "FLASHING" /\ reader_' = reader_ /\ erasing' = erasing
        /\ disturbed' = disturbed
    BY <1>2, <1>4, FlashPageSteps, Zenon DEF FlashPage, PageStep, flashOnlyVars
  <2>2. /\ PageNumber = k /\ k \in Nat /\ k \in FlashPages
        /\ md5_receive_ \in Seq(PageValues) /\ flash \in [FlashPages -> PageValues]
        /\ reader_ \in Versions /\ bytes_remaining_ \in Nat /\ P \in Nat \ {0}
    BY <2>1, PageOnChip, FlashAssumption DEF FlashInv, DataTypeOK, TypeOK, FlashTypeOK
  <2>3. BlockSize = P
    BY <1>4, <2>2, SMTT(30) DEF BlockSize
  <2>4. /\ page_pos_' = page_pos_ + P /\ bytes_remaining_' = bytes_remaining_ - P
        /\ bytes_remaining_' > 0
        /\ md5_receive_' = Append(md5_receive_, read.data)
    BY <1>2, <1>4, <2>2, <2>3, SMTT(30) DEF PageStep, BlocksWith
  <2>5. /\ page_pos_ = k * P /\ bytes_remaining_ = SizeOf(reader_) - page_pos_
        /\ SizeOf(reader_) \in Nat
    BY <2>1, <2>2, ImageGeometry, FlashAssumption DEF FlashInv, FlashingProgress
  <2>6. (k + 1) * P = k * P + P /\ k * P \in Nat
    BY <2>2, Distribution
  <2>7. read.data \in PageValues
    BY <2>2, BlockType
  <2>8. Len(md5_receive_') = k + 1
    BY <2>2, <2>4, <2>7
  <2>9. FlashingProgress'
    <3>1. page_pos_' = Len(md5_receive_') * P
      BY <2>4, <2>5, <2>6, <2>8, SMTT(30)
    <3>2. bytes_remaining_' = SizeOf(reader_') - page_pos_' /\ page_pos_' < SizeOf(reader_')
      BY <2>1, <2>2, <2>4, <2>5, <2>6, SMTT(30)
    <3>3. QED
      BY <3>1, <3>2 DEF FlashingProgress
  <2>10. PageNumber' = k + 1
    <3>1. page_pos_' = (k + 1) * P
      BY <2>4, <2>5, <2>6
    <3>2. ((k + 1) * P) \div P = k + 1
      BY <2>2
    <3>3. QED
      BY <3>1, <3>2 DEF PageNumber
  <2>11. PagesWritten'
    <3>1. ASSUME ~disturbed
          PROVE  erasing = -1 /\ \A n \in 1..Len(md5_receive_') : flash'[n - 1] = md5_receive_'[n]
      BY <1>2, <1>4, <2>1, <2>2, <2>3, <3>1, PageHoldsBlock DEF FlashInv, PagesWritten
    <3>2. QED
      BY <2>1, <3>1, SMTT(30) DEF PagesWritten
  <2>12. ErasedBeforeWritten'
    <3>1. ASSUME ~disturbed, NEW p \in (k + 1)..(PagesOf(reader_) - 1)
          PROVE  flash'[p] = Blank
      <4>1. PagesOf(reader_) \in Nat
        BY <2>2, ImageGeometry
      <4>2. p \in k..(PagesOf(reader_) - 1) /\ p # k
        BY <2>2, <4>1, SMTT(30)
      <4>3. flash[p] = Blank
        BY <2>1, <2>2, <3>1, <4>2, SMTT(30) DEF FlashInv, ErasedBeforeWritten
      <4>4. flash' = [flash EXCEPT ![k] = w.page]
        BY <1>2, <2>2, SMTT(30) DEF PageStep
      <4>5. p \in FlashPages
        BY <2>2, <4>1, <4>2, ImageGeometry, ChipGeometry, SMTT(30) DEF FlashPages
      <4>6. QED
        BY <2>2, <4>2, <4>3, <4>4, <4>5, SMTT(30)
    <3>2. QED
      BY <2>1, <2>10, <3>1 DEF ErasedBeforeWritten
  <2>13. QED
    BY <2>1, <2>9, <2>11, <2>12, SMTT(30) DEF ErasingProgress, SectorsErased
<1>5. QED
  BY <1>3, <1>4

-----------------------------------------------------------------------------
(* The theorems.                                                           *)

(* FlashInv at the start.                                                  *)
LEMMA InitialStates ==
  Init => FlashInv /\ LinkOff
<1> SUFFICES ASSUME Init PROVE FlashInv /\ LinkOff
  BY SMTT(30)
<1>1. /\ xmos_rst_pin_ = FALSE /\ spi_flash_direct_access_enabled_ = FALSE
      /\ state_ = "IDLE" /\ md5_receive_ = <<>>
  BY DEF Init, SatInit
<1>2. Boots(flash) \in Versions /\ NoVersion \in Versions
  BY BootsVersion DEF Versions
<1>3. /\ xmos_rst_pin_ \in BOOLEAN /\ spi_flash_direct_access_enabled_ \in BOOLEAN
      /\ init_in_progress \in BOOLEAN /\ factory_reset_requested \in BOOLEAN
      /\ disturbed \in BOOLEAN
  BY Zenon DEF Init, SatInit
<1>4. SatTypeOK
  BY <1>2, <1>3, SMTT(30) DEF Init, SatInit, SatTypeOK, MAX_CONNECTION_ATTEMPTS
<1>5. FlashTypeOK
  <2>1. 0 \in 0..(FLASH_SECTOR_SIZE * FLASH_TOTAL_NUMBER_OF_SECTORS)
    BY FlashAssumption
  <2>2. QED
    BY <1>2, <1>3, <2>1, FlashAssumption, EnvironmentAssumption DEF Init, FlashTypeOK
<1>6. DataTypeOK
  <2>1. PICK i \in Images \union {NoVersion} :
          flash = [p \in FlashPages |-> IF p < PagesOf(i) THEN <<i, p>> ELSE Blank]
    BY SMTT(30) DEF Init
  <2>2. \A p \in FlashPages : <<i, p>> \in PageValues /\ Blank \in PageValues
    BY ChipGeometry DEF PageValues, Blank, Versions
  <2>3. flash \in [FlashPages -> PageValues]
    BY <2>1, <2>2
  <2>4. QED
    BY <1>1, <2>3, SMTT(30) DEF DataTypeOK
<1>7. LinkOff
  BY <1>1, Zenon DEF LinkOff
<1>8. XmosHeldWhileFlashing
  BY <1>1 DEF XmosHeldWhileFlashing, Flashing
<1>9. QED
  BY <1>1, <1>4, <1>5, <1>6, <1>7, <1>8
  DEF FlashInv, TypeOK, ErasingProgress, FlashingProgress, SectorsErased, PagesWritten,
      ErasedBeforeWritten

(* Every step keeps the types.                                             *)
LEMMA TypeStep ==
  ASSUME FlashInv, [Next]_vars
  PROVE  TypeOK' /\ DataTypeOK'
<1>1. TypeOK /\ DataTypeOK /\ ErasingProgress /\ FlashingProgress
  BY SMTT(30) DEF FlashInv
<1>2. CASE UNCHANGED vars
  BY <1>1, <1>2
  DEF vars, satVars, flasherVars, configVars, chipVars, TypeOK, SatTypeOK, FlashTypeOK, DataTypeOK
<1>3. CASE Next
  BY <1>1, <1>3, SatelliteType, FlasherType, EnvironmentType, SMTT(30) DEF Next
<1>4. QED
  BY <1>2, <1>3

(* Every step keeps FlashInv.                                              *)
LEMMA FlashInvStep ==
  ASSUME FlashInv, [Next]_vars
  PROVE  FlashInv'
<1>1. TypeOK' /\ DataTypeOK'
  BY TypeStep
<1>2. XmosHeldWhileFlashing'
  BY HeldStep, SMTT(30) DEF FlashInv
<1>3. /\ ErasingProgress' /\ FlashingProgress'
      /\ SectorsErased' /\ PagesWritten' /\ ErasedBeforeWritten'
  BY AsideOrWork, AsideStep, InitStep, EraseSectorStep, EraseDoneStep, FlashPageStep,
     SectorErasedStep DEF FlashInv, TypeOK
<1>4. QED
  BY <1>1, <1>2, <1>3 DEF FlashInv

(* The flasher's state follows the flash from page to page in every        *)
(* reachable state; from this everything else follows.                     *)
THEOREM FlasherInvariant == Spec => [](FlashInv /\ LinkOff)
<1>1. Init => FlashInv /\ LinkOff
  BY InitialStates
<1>2. FlashInv /\ LinkOff /\ [Next]_vars => FlashInv' /\ LinkOff'
  BY FlashInvStep, LinkStep
<1>3. QED
  BY <1>1, <1>2, PTL DEF Spec

(* bytes_remaining_, a size_t, never drops below zero, no sector beyond the*)
(* last one of the chip is erased, and every variable keeps its type.      *)
THEOREM FlasherTypes == Spec => []TypeOK
<1>1. FlashInv => TypeOK
  BY DEF FlashInv
<1>2. QED
  BY <1>1, FlasherInvariant, PTL

(* While the flasher works on the memory the XMOS is in reset and the link *)
(* neither talks to it nor tries to: nobody else drives the flash's bus.   *)
THEOREM FlashIsExclusive == Spec => []XmosHeldWhileFlashing
<1>1. FlashInv => XmosHeldWhileFlashing
  BY DEF FlashInv
<1>2. QED
  BY <1>1, FlasherInvariant, PTL

(* Whatever the sizes of the image, the pages and the sectors, the erase   *)
(* has blanked every page that flashing_step_ has still to program.        *)
THEOREM WritesGoToBlankPages == Spec => []ErasedBeforeWritten
<1>1. FlashInv => ErasedBeforeWritten
  BY SMTT(30) DEF FlashInv
<1>2. QED
  BY <1>1, FlasherInvariant, PTL

(* An image whose blocks are in the memory, one to a page, is held by it.  *)
LEMMA BlocksHeld ==
  ASSUME NEW image \in Images, NEW blocks, NEW pages, blocks = Blocks(image),
         Len(blocks) \in Nat, \A n \in 1..Len(blocks) : pages[n - 1] = blocks[n]
  PROVE  Holds(pages, image)
<1>1. PagesOf(image) \in Nat
  BY ImageGeometry, SMTT(30) DEF Versions
<1>2. Len(blocks) = PagesOf(image)
  BY <1>1, SMTT(30) DEF Blocks
<1>3. ASSUME NEW n \in 0..(PagesOf(image) - 1)
      PROVE  pages[n] = <<image, n>>
  <2>1. n + 1 \in 1..PagesOf(image) /\ (n + 1) - 1 = n
    BY <1>1, SMTT(30)
  <2>2. pages[n] = blocks[n + 1]
    BY <1>2, <2>1, SMTT(30)
  <2>3. blocks[n + 1] = <<image, (n + 1) - 1>>
    BY <2>1 DEF Blocks
  <2>4. QED
    BY <2>1, <2>2, <2>3, SMTT(30)
<1>4. QED
  BY <1>3, SMTT(30) DEF Holds

(* A step into the success state has done what was asked for: the pages    *)
(* hold exactly the image of the expected MD5 sum, or, after a full erase, *)
(* nothing; whatever the server sent and whatever write was repeated.      *)
THEOREM SuccessIsTrue == Spec => SuccessMeansDone
<1> DEFINE Done ==
             state_ # "SUCCESS" /\ state_' = "SUCCESS" /\ ~disturbed =>
               \/ state_ = "FLASHING" /\ md5_expected_ \in Images /\ Holds(flash', md5_expected_)
               \/ state_ = "ERASING" /\ \A p \in FlashPages : flash'[p] = Blank
<1>1. ASSUME FlashInv, [Next]_vars, state_ # "SUCCESS", state_' = "SUCCESS", ~disturbed
      PROVE  Done
  <2>1. FlashTypeOK
    BY <1>1 DEF FlashInv, TypeOK
  <2>2. EraseDone \/ FlashPage
    <3>1. ASSUME RequestHeard PROVE FALSE
      BY <1>1, <3>1, SMTT(30) DEF RequestHeard
    <3>2. ~SatelliteLoop
      BY <1>1, <2>1, <3>1, RequestOutcome, SMTT(30)
      DEF SatelliteLoop, ConnectionMade, ConnectionFailed, ConnectionGivenUp,
          ConnectedAutomation, flasherVars
    <3>3. ~UserFlashes
      BY <2>1, <3>1, RequestOutcome, RemoteRequestOutcome DEF UserFlashes
    <3>4. ~UserHolds
      BY <2>1, <3>1, RequestOutcome, SMTT(30) DEF UserHolds
    <3>5. ~(UserHoldsFlashMute \/ FactoryReset \/ DivisionByZero \/ Reboot)
      BY <1>1, SMTT(30) DEF UserHoldsFlashMute, FactoryReset, DivisionByZero, Reboot, Restart
    <3>6. ~(UserResetsXmos \/ InitOver \/ SectorErased \/ UNCHANGED vars)
      BY <1>1, SMTT(30) DEF UserResetsXmos, InitOver, SectorErased, vars, flasherVars
    <3>7. ~(InitErase \/ InitFlash \/ InitFails \/ EraseSector \/ EraseFails \/ StreamBroken
              \/ FlasherEnd)
      BY <1>1
      DEF InitErase, InitFlash, InitFails, EraseSector, EraseFails, StreamBroken, FlasherEnd
    <3>8. QED
      BY <1>1, <3>2, <3>3, <3>4, <3>5, <3>6, <3>7 DEF Next, FlasherLoop, User
  <2>3. CASE EraseDone
    <3>1. /\ state_ = "ERASING" /\ NotBusy /\ requested_action_ = "FULL_ERASE"
          /\ current_sector_ + 1 >= total_sectors_to_erase_ /\ flash' = flash
      BY <1>1, <2>3 DEF EraseDone, chipVars
    <3>2. total_sectors_to_erase_ = FLASH_TOTAL_NUMBER_OF_SECTORS
      BY <1>1, <3>1 DEF FlashInv, ErasingProgress
    <3>3. \A p \in FlashPages :
            p \div PAGES_PER_SECTOR < FLASH_TOTAL_NUMBER_OF_SECTORS => flash[p] = Blank
      BY <1>1, <3>1, <3>2, EraseComplete
    <3>4. \A p \in FlashPages : p \div PAGES_PER_SECTOR < FLASH_TOTAL_NUMBER_OF_SECTORS
      BY ChipGeometry, FlashAssumption, SMTT(30)
    <3>5. QED
      BY <3>1, <3>3, <3>4
  <2>4. CASE FlashPage
    <3>1. PICK read \in BlocksRead : \E w \in WriteAndVerify(flash[PageNumber], read.data) :
             PageStep(read, w)
      BY <2>4, FlashPageSteps
    <3>2. PICK w \in WriteAndVerify(flash[PageNumber], read.data) : PageStep(read, w)
      BY <3>1, SMTT(30)
    <3>3. state_ = "FLASHING" /\ w.ok /\ Md5Matches(BlocksWith(read))
      BY <1>1, <2>4, <3>2, SMTT(30) DEF FlashPage, PageStep
    <3>4. md5_receive_' = BlocksWith(read)
      BY <3>2 DEF PageStep
    <3>5. md5_expected_ \in Images /\ md5_receive_' = Blocks(md5_expected_)
      BY <3>3, <3>4, SMTT(30) DEF Md5Matches
    <3>6. BlockSize # 0
      <4>1. SUFFICES ASSUME BlockSize = 0 PROVE FALSE
        OBVIOUS
      <4>2. bytes_remaining_ = 0
        BY <4>1, FlashAssumption DEF BlockSize
      <4>3. page_pos_ = 0 /\ page_pos_ = Len(md5_receive_) * FLASH_PAGE_SIZE
        <5>1. /\ bytes_remaining_ = SizeOf(reader_) - page_pos_
              /\ page_pos_ = Len(md5_receive_) * FLASH_PAGE_SIZE
              /\ page_pos_ < SizeOf(reader_) \/ page_pos_ = 0
          BY <1>1, <3>3, SMTT(30) DEF FlashInv, FlashingProgress
        <5>2. SizeOf(reader_) \in Nat /\ page_pos_ \in Nat
          BY <1>1, ImageGeometry, FlashAssumption DEF FlashInv, TypeOK, FlashTypeOK
        <5>3. QED
          BY <4>2, <5>1, <5>2, SMTT(30)
      <4>4. Len(md5_receive_) = 0
        <5>1. Len(md5_receive_) \in Nat
          BY <1>1 DEF FlashInv, DataTypeOK
        <5>2. QED
          BY <4>3, <5>1, FlashAssumption
      <4>5. md5_receive_ = Blocks(md5_expected_)
        BY <3>4, <3>5, <4>1, SMTT(30) DEF BlocksWith
      <4>6. Len(md5_receive_) = PagesOf(md5_expected_)
        BY <3>5, <4>5, ImageGeometry, SMTT(30) DEF Blocks, Versions
      <4>7. QED
        BY <3>5, <4>4, <4>6, ImageGeometry DEF Versions
    <3>7. /\ Len(md5_receive_') \in Nat
          /\ \A n \in 1..Len(md5_receive_') : flash'[n - 1] = md5_receive_'[n]
      <4>1. md5_receive_' \in Seq(PageValues)
        BY <1>1, <3>2, <3>3, <3>6, PageHoldsBlock, SMTT(30)
      <4>2. \A n \in 1..Len(md5_receive_') : flash'[n - 1] = md5_receive_'[n]
        BY <1>1, <3>2, <3>3, <3>6, PageHoldsBlock, SMTT(30)
      <4>3. QED
        BY <4>1, <4>2, SMTT(30)
    <3>8. Holds(flash', md5_expected_)
      BY <3>5, <3>7, BlocksHeld
    <3>9. QED
      BY <3>3, <3>5, <3>8
  <2>5. QED
    BY <2>2, <2>3, <2>4
<1>2. FlashInv /\ [Next]_vars => Done
  BY <1>1
<1>3. FlashInv /\ [Next]_vars => [Done]_vars
  BY <1>2
<1>4. QED
  BY <1>3, FlasherInvariant, PTL DEF Spec, SuccessMeansDone

(* A link that is connected goes on reporting what the XMOS runs: whatever *)
(* else resets the XMOS, a flash, its failure or a restart, detaches it.   *)
THEOREM ReportIsTrue == Spec => ReportedVersionRuns
<1> DEFINE Runs ==
             /\ sat_state_' = "XMOS_CONNECTED"
             /\ sat_state_ = "XMOS_CONNECTED" => xmos = xmos_fw_version_
             => xmos' = xmos_fw_version_' \/ UserResetsXmos
<1>1. ASSUME LinkOff, [Next]_vars, sat_state_' = "XMOS_CONNECTED",
             sat_state_ = "XMOS_CONNECTED" => xmos = xmos_fw_version_
      PROVE  xmos' = xmos_fw_version_' \/ UserResetsXmos
  <2>1. ASSUME UNCHANGED <<sat_state_, xmos, xmos_fw_version_>>
        PROVE  xmos' = xmos_fw_version_'
    BY <1>1, <2>1
  <2>2. ASSUME NEW boots, set_spi_flash_direct_access_mode(FALSE, boots)
        PROVE  xmos' = xmos_fw_version_'
    <3>1. ~spi_flash_direct_access_enabled_
      BY <1>1, <2>2 DEF set_spi_flash_direct_access_mode
    <3>2. ~xmos_rst_pin_
      BY <1>1, <3>1 DEF LinkOff
    <3>3. UNCHANGED <<sat_state_, xmos, xmos_fw_version_>>
      BY <2>2, <3>1, <3>2, SMTT(30) DEF set_spi_flash_direct_access_mode
    <3>4. QED
      BY <2>1, <3>3
  <2>3. CASE SatelliteLoop
    BY <2>1, <2>3
    DEF SatelliteLoop, ConnectionMade, ConnectionFailed, ConnectionGivenUp, ConnectedAutomation
  <2>4. CASE FlasherLoop
    <3>1. ~(InitErase \/ InitFlash \/ InitFails)
      BY <1>1, SMTT(30)
      DEF InitErase, InitFlash, InitFails, set_spi_flash_direct_access_mode, DirectAccessPulse
    <3>2. CASE EraseSector \/ EraseFails \/ FlasherEnd
      BY <2>1, <3>2, SMTT(30) DEF EraseSector, EraseFails, FlasherEnd, satVars
    <3>3. CASE EraseDone
      BY <2>1, <2>2, <3>3, Zenon DEF EraseDone, deinit_flashing_, satVars
    <3>4. CASE FlashPage
      BY <2>1, <2>2, <3>4, FlashPageSteps, Zenon DEF PageStep, deinit_flashing_, satVars
    <3>5. CASE StreamBroken
      BY <2>2, <3>5, ZenonT(30) DEF StreamBroken, deinit_flashing_
    <3>6. ~(FactoryReset \/ DivisionByZero)
      BY <1>1 DEF FactoryReset, DivisionByZero, Restart
    <3>7. QED
      BY <2>4, <3>1, <3>2, <3>3, <3>4, <3>5, <3>6, SMTT(30) DEF FlasherLoop
  <2>5. CASE UserFlashes \/ SectorErased \/ InitOver \/ UNCHANGED vars
    BY <2>1, <2>5 DEF UserFlashes, SectorErased, InitOver, vars, satVars
  <2>6. ~(UserHolds \/ UserHoldsFlashMute \/ Reboot)
    BY <1>1 DEF UserHolds, UserHoldsFlashMute, Reboot, Restart, DirectAccessPulse
  <2>7. QED
    BY <1>1, <2>3, <2>4, <2>5, <2>6 DEF Next, User
<1>2. LinkOff /\ [Next]_vars => [Runs]_vars
  BY <1>1
<1>3. QED
  BY <1>2, FlasherInvariant, PTL DEF Spec, ReportedVersionRuns
=============================================================================
