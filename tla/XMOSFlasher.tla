---------------------------- MODULE XMOSFlasher ----------------------------
(***************************************************************************)
(* Flashing the XMOS: class XMOSFlasher (components/satellite1/            *)
(* memory_flasher), its base class MemoryFlasher and the image readers     *)
(* (components/memory_flasher), composed with the link of module Satellite1*)
(* and with the automations of the configuration that start a flash.       *)
(*                                                                         *)
(* Everything runs in the ESP32's main loop, so an action is one call of a *)
(* component's loop() or of an automation.  The flash chip works on its own*)
(* between them.  A page of the flash is a pair: <<image, n>> is the n-th  *)
(* page of an image, padded with zeros; an MD5 sum stands for the sequence *)
(* of blocks it was computed from.                                         *)
(***************************************************************************)
EXTENDS Satellite1, Integers, Sequences

CONSTANTS
  FLASH_PAGE_SIZE, FLASH_SECTOR_SIZE, FLASH_TOTAL_NUMBER_OF_SECTORS,
  ImageSize,       \* bytes of each image
  UserActions,     \* what the user and the debug buttons may do
  Faults,          \* what may fail
  MaxUser, MaxFaults, MaxRestarts     \* bounds on the environment

FaultKinds == {"xmos", "net", "memory", "erase", "write"}

UserActionKinds == {"write_embedded_image", "write_image", "erase", "hold", "hw_reset"}

ASSUME FlashAssumption ==
  /\ FLASH_PAGE_SIZE \in Nat \ {0} /\ FLASH_SECTOR_SIZE \in Nat \ {0}
  /\ FLASH_SECTOR_SIZE % FLASH_PAGE_SIZE = 0
  /\ FLASH_TOTAL_NUMBER_OF_SECTORS \in Nat \ {0}
ASSUME ImageSizeAssumption ==
  ImageSize \in [Images -> 1..(FLASH_SECTOR_SIZE * FLASH_TOTAL_NUMBER_OF_SECTORS)]
ASSUME EnvironmentAssumption ==
  /\ UserActions \subseteq UserActionKinds /\ Faults \subseteq FaultKinds
  /\ MaxUser \in Nat /\ MaxFaults \in Nat /\ MaxRestarts \in Nat

VARIABLES
  state_, requested_action_, md5_expected_,
  allocated,               \* which of reader_, reader_buffer_, compare_buffer_ are
  reader_,                 \* the image the reader serves (NoVersion: an empty body)
  md5_receive_,            \* the blocks read
  total_sectors_to_erase_, current_sector_,
  bytes_remaining_, page_pos_,
  init_in_progress, factory_reset_requested,
  flash, erasing,          \* external: the chip's pages, the sector it is erasing or -1
  disturbed,               \* the XMOS left its reset during this flash
  erase_by,                \* who wanted the last erase
  presses, faults, restarts    \* what is left of the environment's bounds

flasherVars == <<state_, requested_action_, md5_expected_, allocated, reader_, md5_receive_,
                 total_sectors_to_erase_, current_sector_, bytes_remaining_, page_pos_>>
configVars  == <<init_in_progress, factory_reset_requested>>
chipVars    == <<flash, erasing>>
vars        == <<satVars, flasherVars, configVars, chipVars, disturbed, erase_by,
                 presses, faults, restarts>>

-----------------------------------------------------------------------------
(* The flash chip and the images (external).                               *)

PAGES_PER_SECTOR == FLASH_SECTOR_SIZE \div FLASH_PAGE_SIZE

FlashPages == 0..(FLASH_TOTAL_NUMBER_OF_SECTORS * PAGES_PER_SECTOR - 1)

Blank    == <<"blank", 0>>
Junk     == <<"junk", 0>>
ZeroPage == <<"zero", 0>>

SizeOf(image) == IF image = NoVersion THEN 0 ELSE ImageSize[image]

PagesOf(image) == (SizeOf(image) + FLASH_PAGE_SIZE - 1) \div FLASH_PAGE_SIZE

Blocks(image) == [n \in 1..PagesOf(image) |-> <<image, n - 1>>]

Holds(pages, image) == \A n \in 0..(PagesOf(image) - 1) : pages[n] = <<image, n>>

(* The image an XMOS finds when it leaves its reset.                       *)
Boots(pages) ==
  IF \E i \in Images : Holds(pages, i)
  THEN CHOOSE i \in Images : Holds(pages, i) ELSE NoVersion

(* Programming only clears bits: a page must be blank to take any data.    *)
Programmed(old, data) ==
  IF old \in {Blank, data} \/ data = ZeroPage THEN data ELSE Junk

SectorPages(s) == {p \in FlashPages : p \div PAGES_PER_SECTOR = s}

(* The sum that is not known: the empty string.                            *)
NoSum == ""

Fault(kind) == kind \in Faults /\ faults > 0 /\ faults' = faults - 1

Init ==
  /\ flash \in {[p \in FlashPages |-> IF p < PagesOf(i) THEN <<i, p>> ELSE Blank] :
                  i \in Images \union {NoVersion}}
  /\ SatInit(Boots(flash))
  /\ state_ = "IDLE" /\ requested_action_ = "FULL_ERASE" /\ md5_expected_ = NoSum
  /\ allocated = {} /\ reader_ = NoVersion /\ md5_receive_ = <<>>
  /\ total_sectors_to_erase_ = 0 /\ current_sector_ = -1
  /\ bytes_remaining_ = 0 /\ page_pos_ = 0
  /\ init_in_progress = TRUE /\ factory_reset_requested = FALSE
  /\ erasing = -1 /\ disturbed = FALSE /\ erase_by = "nobody"
  /\ presses = MaxUser /\ faults = MaxFaults /\ restarts = MaxRestarts

-----------------------------------------------------------------------------
(* The requests.                                                           *)

(* What a request leaves alone.                                            *)
stepVars == <<allocated, reader_, md5_receive_, total_sectors_to_erase_, current_sector_,
              bytes_remaining_, page_pos_>>

Start(action, md5) ==
  state_' = "INITIALIZING" /\ requested_action_' = action /\ md5_expected_' = md5

(* flash_embedded_image                                                    *)
flash_embedded_image ==
  IF state_ # "IDLE" THEN UNCHANGED <<state_, requested_action_, md5_expected_>>
  ELSE IF EmbeddedImage = NoVersion
       THEN state_' = "ERROR" /\ UNCHANGED <<requested_action_, md5_expected_>>
  ELSE Start("FLASH_EMBEDDED_IMAGE", EmbeddedImage)

(* erase_memory                                                            *)
erase_memory ==
  IF state_ # "IDLE" THEN UNCHANGED <<state_, requested_action_, md5_expected_>>
  ELSE Start("FULL_ERASE", md5_expected_)

(* FlashAction::play with flash_remote_image: the expected MD5 is set or   *)
(* cleared before the flasher is asked whether it is busy.  http_get_md5_  *)
(* leaves what it has read of the sum even when it fails.                  *)
write_image(image, how) ==
  LET md5 == IF how = "md5" THEN image ELSE NoSum
  IN  \/ /\ state_ # "IDLE"
         /\ md5_expected_' = md5
         /\ UNCHANGED <<state_, requested_action_, faults>>
      \/ /\ state_ = "IDLE"
         /\ Start("FLASH_REMOTE_IMAGE", image)
         /\ UNCHANGED faults
      \/ /\ state_ = "IDLE" /\ md5 = NoSum /\ Fault("net")
         /\ state_' = "ERROR" /\ md5_expected_' \in {NoSum, "garbage"}
         /\ UNCHANGED requested_action_

-----------------------------------------------------------------------------
(* Satellite1::loop and the automations on its state.                      *)

(* The states the flasher leaves at its next loop(): no second passes in   *)
(* them.                                                                   *)
Passing == {"INITIALIZING", "SUCCESS", "ERROR"}

(* The first attempt may come at once, each later one a second after.      *)
AttemptDue == sat_state_ = "DETACHED" /\ (connection_attempts_ > 0 => state_ \notin Passing)

(* check_for_xmos_ succeeds: on_xmos_connected starts its delay.           *)
ConnectionMade ==
  /\ AttemptDue /\ connection_attempts_ < MAX_CONNECTION_ATTEMPTS /\ TransferOk
  /\ sat_state_' = "XMOS_CONNECTED" /\ connection_attempts_' = 1
  /\ xmos_fw_version_' = xmos
  /\ connect_checks' = connect_checks + 1
  /\ UNCHANGED <<spi_flash_direct_access_enabled_, xmos_rst_pin_, xmos, flasherVars,
                 configVars, chipVars, disturbed, erase_by, presses, faults, restarts>>

ConnectionFailed ==
  /\ AttemptDue /\ connection_attempts_ < MAX_CONNECTION_ATTEMPTS
  /\ \/ ~TransferOk /\ UNCHANGED faults
     \/ TransferOk /\ Fault("xmos")
  /\ connection_attempts_' = connection_attempts_ + 1
  /\ UNCHANGED <<sat_state_, spi_flash_direct_access_enabled_, xmos_fw_version_,
                 xmos_rst_pin_, xmos, connect_checks, flasherVars, configVars, chipVars,
                 disturbed, erase_by, presses, restarts>>

(* The last attempt only calls back: on_xmos_no_response.                  *)
ConnectionGivenUp ==
  /\ AttemptDue /\ connection_attempts_ = MAX_CONNECTION_ATTEMPTS
  /\ connection_attempts_' = connection_attempts_ + 1
  /\ IF init_in_progress /\ EmbeddedImage # NoVersion
     THEN flash_embedded_image
     ELSE UNCHANGED <<state_, requested_action_, md5_expected_>>
  /\ UNCHANGED <<sat_state_, spi_flash_direct_access_enabled_, xmos_fw_version_,
                 xmos_rst_pin_, xmos, connect_checks, stepVars, configVars, chipVars,
                 disturbed, erase_by, presses, faults, restarts>>

(* on_xmos_connected, one second later.                                    *)
ConnectedAutomation ==
  /\ connect_checks > 0 /\ state_ \notin Passing
  /\ connect_checks' = connect_checks - 1
  /\ IF init_in_progress /\ EmbeddedImage # NoVersion /\ xmos_fw_version_ # EmbeddedImage
     THEN flash_embedded_image
     ELSE UNCHANGED <<state_, requested_action_, md5_expected_>>
  /\ UNCHANGED <<sat_state_, connection_attempts_, spi_flash_direct_access_enabled_,
                 xmos_fw_version_, xmos_rst_pin_, xmos, stepVars, configVars, chipVars,
                 disturbed, erase_by, presses, faults, restarts>>

SatelliteLoop ==
  ConnectionMade \/ ConnectionFailed \/ ConnectionGivenUp \/ ConnectedAutomation

-----------------------------------------------------------------------------
(* XMOSFlasher::loop.                                                      *)

(* deinit_flashing_, with pages in the flash.  Of the triggers of the state*)
(* callback only on_xmos_connected can act: a flash is refused while this  *)
(* one has not ended.                                                      *)
deinit_flashing_(pages) ==
  /\ allocated' = {} /\ md5_expected_' = NoSum
  /\ set_spi_flash_direct_access_mode(FALSE, Boots(pages))
  /\ connect_checks' = IF Connected(sat_state_') THEN connect_checks + 1 ELSE connect_checks

Buffers == {"reader_", "reader_buffer_", "compare_buffer_"}

(* init_flashing_ for a full erase ...                                     *)
InitErase ==
  /\ state_ = "INITIALIZING" /\ requested_action_ = "FULL_ERASE"
  /\ state_' = "ERASING"
  /\ total_sectors_to_erase_' = FLASH_TOTAL_NUMBER_OF_SECTORS /\ current_sector_' = -1
  /\ set_spi_flash_direct_access_mode(TRUE, NoVersion)
  /\ disturbed' = FALSE
  /\ UNCHANGED <<connect_checks, requested_action_, md5_expected_, allocated, reader_,
                 md5_receive_, bytes_remaining_, page_pos_, configVars, chipVars, erase_by,
                 presses, faults, restarts>>

(* Mutant: the sectors are rounded down.                                   *)
SectorsRoundedDown(size) == size \div FLASH_SECTOR_SIZE

SectorsOf(size) ==
  LET size_in_pages == (size + FLASH_PAGE_SIZE - 1) \div FLASH_PAGE_SIZE
  IN  (size_in_pages * FLASH_PAGE_SIZE + FLASH_SECTOR_SIZE - 1) \div FLASH_SECTOR_SIZE

(* ... for an image: the embedded one, or what a server sends, which may be*)
(* another image or a response without a length ...                        *)
InitFlash ==
  /\ state_ = "INITIALIZING" /\ requested_action_ # "FULL_ERASE"
  /\ state_' = "ERASING"
  /\ allocated' = Buffers
  /\ reader_' \in IF requested_action_ = "FLASH_EMBEDDED_IMAGE" THEN {EmbeddedImage} ELSE Versions
  /\ md5_receive_' = <<>>
  /\ bytes_remaining_' = SizeOf(reader_') /\ page_pos_' = 0
  /\ total_sectors_to_erase_' = SectorsOf(SizeOf(reader_')) /\ current_sector_' = -1
  /\ set_spi_flash_direct_access_mode(TRUE, NoVersion)
  /\ disturbed' = FALSE
  /\ UNCHANGED <<connect_checks, requested_action_, md5_expected_, configVars, chipVars,
                 erase_by, presses, faults, restarts>>

(* ... and when the connection or the memory cannot be had.                *)
InitFails ==
  /\ state_ = "INITIALIZING" /\ requested_action_ # "FULL_ERASE"
  /\ Fault("memory") \/ (requested_action_ = "FLASH_REMOTE_IMAGE" /\ Fault("net"))
  /\ state_' = "ERROR" /\ allocated' = {} /\ md5_expected_' = NoSum
  /\ DirectAccessPulse(Boots(flash))
  /\ UNCHANGED <<requested_action_, reader_, md5_receive_, total_sectors_to_erase_,
                 current_sector_, bytes_remaining_, page_pos_, configVars, chipVars,
                 disturbed, erase_by, presses, restarts>>

(* erasing_step_.  The flash answers only while the XMOS is held in reset; *)
(* otherwise both drive the bus and any status may be read.                *)
BusOwned == xmos_rst_pin_

NotBusy == erasing = -1 \/ ~BusOwned

eraseOnlyVars == <<requested_action_, reader_, md5_receive_, total_sectors_to_erase_,
                   bytes_remaining_, page_pos_, configVars, disturbed, erase_by, presses,
                   restarts>>

EraseSector ==
  /\ state_ = "ERASING" /\ NotBusy /\ current_sector_ + 1 < total_sectors_to_erase_
  /\ current_sector_' = current_sector_ + 1
  /\ \/ /\ erasing = -1
        /\ erasing' = current_sector_'
        /\ flash' = [p \in FlashPages |->
                       IF p \in SectorPages(current_sector_') THEN Junk ELSE flash[p]]
     \/ ~BusOwned /\ UNCHANGED chipVars
  /\ UNCHANGED <<satVars, state_, md5_expected_, allocated, eraseOnlyVars, faults>>

(* Writing could not be enabled: the error state without deinit_flashing_. *)
EraseFails ==
  /\ state_ = "ERASING" /\ NotBusy /\ current_sector_ + 1 < total_sectors_to_erase_
  /\ current_sector_' = current_sector_ + 1
  /\ Fault("erase") \/ (~BusOwned /\ UNCHANGED faults)
  /\ state_' = "ERROR"
  /\ UNCHANGED <<satVars, md5_expected_, allocated, eraseOnlyVars, chipVars>>

EraseDone ==
  /\ state_ = "ERASING" /\ NotBusy /\ current_sector_ + 1 >= total_sectors_to_erase_
  /\ current_sector_' = current_sector_ + 1
  /\ IF requested_action_ = "FULL_ERASE"
     THEN deinit_flashing_(flash) /\ state_' = "SUCCESS"
     ELSE state_' = "FLASHING" /\ UNCHANGED <<satVars, md5_expected_, allocated>>
  /\ UNCHANGED <<eraseOnlyVars, chipVars, faults>>

(* write_page_: what it leaves in the page, what it reports and whether the*)
(* page then reads back as data; all but the first outcome are failures:   *)
(* writing not enabled, still busy after 15 ms, a badly programmed page.   *)
write_page_(old, data) ==
  LET new  == Programmed(old, data)
      cost == IF BusOwned THEN 1 ELSE 0
  IN  {[page |-> new, ok |-> TRUE, same |-> new = data, cost |-> 0]} \union
      (IF BusOwned /\ "write" \notin Faults THEN {} ELSE
         { [page |-> old,  ok |-> FALSE, same |-> old = data, cost |-> cost],
           [page |-> new,  ok |-> FALSE, same |-> FALSE,      cost |-> cost],
           [page |-> Junk, ok |-> TRUE,  same |-> FALSE,      cost |-> cost] })

(* The two tries of flashing_step_; one fault may spoil both.              *)
WriteAndVerify(old, data) ==
  LET first == write_page_(old, data)
  IN  {[page |-> w.page, ok |-> TRUE, cost |-> w.cost] : w \in {v \in first : v.same}} \union
      UNION {{[page |-> v.page, ok |-> v.ok /\ v.same,
               cost |-> IF w.cost + v.cost > 0 THEN 1 ELSE 0] :
                v \in write_page_(w.page, data)} : w \in {u \in first : ~u.same}}

flashOnlyVars == <<requested_action_, reader_, total_sectors_to_erase_, current_sector_,
                   configVars, erasing, disturbed, erase_by, presses, restarts>>

PageNumber == page_pos_ \div FLASH_PAGE_SIZE

(* What read_image_block delivers, at what cost in faults.                 *)
BlocksRead ==
  IF bytes_remaining_ = 0 THEN {[data |-> ZeroPage, cost |-> 0]}
  ELSE {[data |-> <<reader_, PageNumber>>, cost |-> 0]} \union
       (IF requested_action_ = "FLASH_REMOTE_IMAGE" /\ "net" \in Faults
        THEN {[data |-> <<"bad", PageNumber>>, cost |-> 1]} ELSE {})

(* Mutant: the sum is not compared.                                        *)
SumIgnored(blocks) == TRUE

Md5Matches(blocks) == md5_expected_ \in Images /\ blocks = Blocks(md5_expected_)

(* flashing_step_                                                          *)
FlashPage ==
  /\ state_ = "FLASHING"
  /\ \E read \in BlocksRead : \E w \in WriteAndVerify(flash[PageNumber], read.data) :
       LET n         == IF bytes_remaining_ < FLASH_PAGE_SIZE THEN bytes_remaining_ ELSE FLASH_PAGE_SIZE
           blocks    == IF n = 0 THEN md5_receive_ ELSE Append(md5_receive_, read.data)
           remaining == bytes_remaining_ - n
           pages     == [flash EXCEPT ![PageNumber] = w.page]
       IN  /\ read.cost + w.cost <= faults /\ faults' = faults - read.cost - w.cost
           /\ md5_receive_' = blocks /\ bytes_remaining_' = remaining /\ flash' = pages
           /\ page_pos_' = IF w.ok THEN page_pos_ + FLASH_PAGE_SIZE ELSE page_pos_
           /\ IF w.ok /\ remaining > 0
              THEN UNCHANGED <<satVars, state_, md5_expected_, allocated>>
              ELSE /\ deinit_flashing_(pages)
                   /\ state_' = IF w.ok /\ Md5Matches(blocks) THEN "SUCCESS" ELSE "ERROR"
  /\ UNCHANGED flashOnlyVars

(* The stream closes, or delivers less than a page before its end.         *)
StreamBroken ==
  /\ state_ = "FLASHING" /\ requested_action_ = "FLASH_REMOTE_IMAGE" /\ Fault("net")
  /\ deinit_flashing_(flash) /\ state_' = "ERROR"
  /\ UNCHANGED <<md5_receive_, bytes_remaining_, page_pos_, flash, flashOnlyVars>>

-----------------------------------------------------------------------------
(* The ESP32 restarts: its memory is lost, and the reset pin goes low.     *)
Restart ==
  /\ sat_state_' = "DETACHED" /\ connection_attempts_' = 0
  /\ spi_flash_direct_access_enabled_' = FALSE /\ xmos_rst_pin_' = FALSE
  /\ xmos_fw_version_' \in {NoVersion, xmos'}
  /\ connect_checks' = 0
  /\ state_' = "IDLE" /\ requested_action_' = "FULL_ERASE" /\ md5_expected_' = NoSum
  /\ allocated' = {} /\ reader_' = NoVersion /\ md5_receive_' = <<>>
  /\ total_sectors_to_erase_' = 0 /\ current_sector_' = -1
  /\ bytes_remaining_' = 0 /\ page_pos_' = 0
  /\ init_in_progress' = TRUE /\ factory_reset_requested' = FALSE
  /\ disturbed' = FALSE /\ erase_by' = "nobody"

XmosGoesOn == xmos' = IF xmos_rst_pin_ THEN Boots(flash) ELSE xmos

(* The end of a flash is published; on_erasing_done completes a factory    *)
(* reset by restarting.                                                    *)
ResetDue ==
  state_ = "SUCCESS" /\ requested_action_ = "FULL_ERASE" /\ factory_reset_requested

(* Mutant: an error is not followed by the idle state.                     *)
ErrorStays ==
  /\ state_ = "SUCCESS" /\ ~ResetDue
  /\ state_' = "IDLE"
  /\ UNCHANGED <<satVars, requested_action_, md5_expected_, stepVars, configVars, disturbed,
                 erase_by, chipVars, presses, faults, restarts>>

FlasherEnd ==
  /\ state_ \in {"SUCCESS", "ERROR"} /\ ~ResetDue
  /\ state_' = "IDLE"
  /\ UNCHANGED <<satVars, requested_action_, md5_expected_, stepVars, configVars, disturbed,
                 erase_by, chipVars, presses, faults, restarts>>

FactoryReset ==
  /\ ResetDue
  /\ XmosGoesOn /\ Restart
  /\ UNCHANGED <<chipVars, presses, faults, restarts>>

(* publish_progress divides by the bytes and sectors of the image: for an  *)
(* empty one the processor traps.                                          *)
DivisionByZero ==
  /\ state_ = "ERASING" /\ requested_action_ # "FULL_ERASE" /\ reader_ = NoVersion
  /\ XmosGoesOn /\ Restart
  /\ UNCHANGED <<chipVars, presses, faults, restarts>>

FlasherLoop ==
  \/ InitErase \/ InitFlash \/ InitFails \/ EraseSector \/ EraseFails \/ EraseDone
  \/ FlashPage \/ StreamBroken \/ FlasherEnd \/ FactoryReset \/ DivisionByZero

-----------------------------------------------------------------------------
(* The user, Home Assistant and the chip.                                  *)

Press(kind) == kind \in UserActions /\ presses > 0 /\ presses' = presses - 1

UserFlashes ==
  /\ \/ Press("write_embedded_image") /\ flash_embedded_image /\ UNCHANGED <<erase_by, faults>>
     \/ /\ Press("write_image") /\ UNCHANGED erase_by
        /\ \E image \in Images, how \in {"md5", "md5_url"} : write_image(image, how)
     \/ /\ Press("erase") /\ erase_memory
        /\ erase_by' = IF state_ = "IDLE" THEN "button" ELSE erase_by
        /\ UNCHANGED faults
  /\ UNCHANGED <<satVars, stepVars, configVars, chipVars, disturbed, restarts>>

Flashing == state_ \in {"ERASING", "FLASHING"}

(* The action button held for 22 s: flash_accessible, then the erase.      *)
UserHolds ==
  /\ Press("hold")
  /\ DirectAccessPulse(Boots(flash))
  /\ disturbed' = (disturbed \/ Flashing)
  /\ factory_reset_requested' = TRUE
  /\ erase_memory /\ erase_by' = "hold"
  /\ UNCHANGED <<stepVars, init_in_progress, chipVars, faults, restarts>>

(* The same with a flash that does not answer: the reset alone.            *)
UserHoldsFlashMute ==
  /\ Press("hold") /\ Fault("erase")
  /\ xmos' = Boots(flash) /\ Restart
  /\ UNCHANGED <<chipVars, restarts>>

UserResetsXmos ==
  /\ Press("hw_reset")
  /\ xmos_hardware_reset(Boots(flash))
  /\ disturbed' = (disturbed \/ Flashing)
  /\ UNCHANGED <<flasherVars, configVars, chipVars, erase_by, faults, restarts>>

(* A client connects, or ten minutes have passed.                          *)
InitOver ==
  /\ init_in_progress
  /\ init_in_progress' = FALSE
  /\ UNCHANGED <<satVars, flasherVars, factory_reset_requested, chipVars, disturbed, erase_by,
                 presses, faults, restarts>>

(* The chip has finished erasing.                                          *)
SectorErased ==
  /\ erasing # -1
  /\ erasing' = -1
  /\ flash' = [p \in FlashPages |-> IF p \in SectorPages(erasing) THEN Blank ELSE flash[p]]
  /\ UNCHANGED <<satVars, flasherVars, configVars, disturbed, erase_by, presses, faults, restarts>>

(* A crash or update of the ESP32, or a power cut, which stops the chip.   *)
Reboot ==
  /\ restarts > 0 /\ restarts' = restarts - 1
  /\ \/ XmosGoesOn /\ UNCHANGED erasing
     \/ xmos' = Boots(flash) /\ erasing' = -1
  /\ Restart
  /\ UNCHANGED <<flash, presses, faults>>

User == UserFlashes \/ UserHolds \/ UserHoldsFlashMute \/ UserResetsXmos

Next == SatelliteLoop \/ FlasherLoop \/ SectorErased \/ User \/ InitOver \/ Reboot

Spec == Init /\ [][Next]_vars

(* Both loops are called again and again, the chip finishes what it began. *)
FairSpec ==
  Spec /\ WF_vars(SatelliteLoop) /\ WF_vars(FlasherLoop) /\ WF_vars(SectorErased)

-----------------------------------------------------------------------------
FlashTypeOK ==
  /\ state_ \in {"IDLE", "INITIALIZING", "ERASING", "FLASHING", "SUCCESS", "ERROR"}
  /\ requested_action_ \in {"FULL_ERASE", "FLASH_REMOTE_IMAGE", "FLASH_EMBEDDED_IMAGE"}
  /\ md5_expected_ \in Images \union {NoSum, "garbage"}
  /\ allocated \subseteq Buffers /\ reader_ \in Versions
  /\ total_sectors_to_erase_ \in 0..FLASH_TOTAL_NUMBER_OF_SECTORS
  /\ current_sector_ \in -1..FLASH_TOTAL_NUMBER_OF_SECTORS
  /\ bytes_remaining_ \in 0..(FLASH_SECTOR_SIZE * FLASH_TOTAL_NUMBER_OF_SECTORS)
  /\ page_pos_ \in Nat
  /\ init_in_progress \in BOOLEAN /\ factory_reset_requested \in BOOLEAN
  /\ erasing \in -1..(FLASH_TOTAL_NUMBER_OF_SECTORS - 1)
  /\ disturbed \in BOOLEAN /\ erase_by \in {"nobody", "hold", "button"}
  /\ presses \in Nat /\ faults \in Nat /\ restarts \in Nat

(* Every variable keeps its type: bytes_remaining_, a size_t, never drops  *)
(* below zero, and no sector beyond the chip's last is erased.             *)
TypeOK == SatTypeOK /\ FlashTypeOK

(* A flash that ends in success has put into the memory exactly the image  *)
(* whose MD5 sum was expected, whatever the server sent, whatever write    *)
(* failed and was repeated; a full erase that does has left every page     *)
(* blank; unless the XMOS was let go meanwhile.                            *)
SuccessMeansDone ==
  [][state_ # "SUCCESS" /\ state_' = "SUCCESS" /\ ~disturbed =>
       \/ state_ = "FLASHING" /\ md5_expected_ \in Images /\ Holds(flash', md5_expected_)
       \/ state_ = "ERASING" /\ \A p \in FlashPages : flash'[p] = Blank]_vars

(* No page is programmed that has not been erased: what is left of the     *)
(* image will go to blank pages.                                           *)
ErasedBeforeWritten ==
  state_ = "FLASHING" /\ ~disturbed =>
    \A p \in PageNumber..(PagesOf(reader_) - 1) : flash[p] = Blank

(* While the memory is worked on the XMOS stays in reset and the link      *)
(* sends it nothing.                                                       *)
XmosHeldWhileFlashing ==
  Flashing /\ ~disturbed =>
    xmos_rst_pin_ /\ spi_flash_direct_access_enabled_ /\ sat_state_ = "FLASH_CONNECTED"

(* A connected XMOS runs the version that the link reports, also after     *)
(* failed or interrupted flashes; only a hardware reset, which no one tells*)
(* the link of, makes that stale.                                          *)
ReportedVersionRuns ==
  [][/\ sat_state_' = "XMOS_CONNECTED"
     /\ sat_state_ = "XMOS_CONNECTED" => xmos = xmos_fw_version_
     => xmos' = xmos_fw_version_' \/ UserResetsXmos]_vars

(* Every flash comes to an end.                                            *)
FlasherBecomesIdle == state_ # "IDLE" ~> state_ = "IDLE"

(* Until Home Assistant connects, the device repairs itself: an XMOS that  *)
(* was left without a usable image, or with another one, by whatever cut a *)
(* flash short, ends up running the embedded image.  It does not when the  *)
(* XMOS was let go during a flash, or after a failed erase, which leaves it*)
(* in reset with the flash access on.                                      *)
XmosRepaired ==
  init_in_progress ~>
    \/ ~init_in_progress \/ disturbed
    \/ state_ = "IDLE" /\ sat_state_ = "FLASH_CONNECTED"
    \/ sat_state_ = "XMOS_CONNECTED" /\ xmos = EmbeddedImage

-----------------------------------------------------------------------------
(* What comments of the code say.                                          *)

(* xmos_flashing.cpp:363, on the frees of deinit_flashing_: "pairs with the*)
(* malloc() in init_flashing_()".                                          *)
EveryMallocIsFreed == state_ = "IDLE" => allocated = {}

(* debug.yaml:79, on the erase button: "Wipes the Satellite1 HAT XMOS      *)
(* Chip", the ESP32's settings not being part of it.                       *)
EraseButtonWipesOnlyXmos == [][FactoryReset => erase_by = "hold"]_vars
=============================================================================
