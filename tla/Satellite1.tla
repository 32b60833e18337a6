----------------------------- MODULE Satellite1 -----------------------------
(***************************************************************************)
(* The ESP32's link to the XMOS audio processor, class Satellite1 of       *)
(* components/satellite1: the state of the connection, the reset line and  *)
(* the switch between talking to the XMOS and, with the XMOS held in reset,*)
(* talking to its flash memory.                                            *)
(*                                                                         *)
(* A firmware version stands for the image that has it; NoVersion is the   *)
(* five zero bytes.  The operators are the bodies of the methods; module   *)
(* XMOSFlasher says who calls them.                                        *)
(***************************************************************************)
EXTENDS Naturals

CONSTANTS
  Images,          \* the firmware images there are
  EmbeddedImage    \* the one linked into the ESP32's firmware, or NoVersion

NoVersion == "none"

ASSUME ImagesAssumption ==
  /\ NoVersion \notin Images
  /\ EmbeddedImage \in Images \union {NoVersion}

VARIABLES
  sat_state_,                          \* Satellite1::state_
  connection_attempts_,
  spi_flash_direct_access_enabled_,
  xmos_fw_version_,                    \* as last read
  xmos_rst_pin_,                       \* TRUE: the XMOS is held in reset
  xmos,                                \* external: the image the XMOS runs, or NoVersion
  connect_checks                       \* on_xmos_connected automations in their delay of 1 s

satVars == <<sat_state_, connection_attempts_, spi_flash_direct_access_enabled_,
             xmos_fw_version_, xmos_rst_pin_, xmos, connect_checks>>

Versions == Images \union {NoVersion}

MAX_CONNECTION_ATTEMPTS == 3

(* The members after start-up, with an XMOS that runs what it booted.      *)
SatInit(booted) ==
  /\ sat_state_ = "DETACHED" /\ connection_attempts_ = 0
  /\ spi_flash_direct_access_enabled_ = FALSE
  /\ xmos_fw_version_ \in {NoVersion, booted}      \* setup asks once
  /\ xmos_rst_pin_ = FALSE /\ xmos = booted
  /\ connect_checks = 0

(* The triggers of the state callback: on_xmos_connected and               *)
(* on_xmos_no_response.                                                    *)
Connected(state) == state = "XMOS_CONNECTED"

NoResponse(state, attempts) == state = "DETACHED" /\ attempts = MAX_CONNECTION_ATTEMPTS

(* transfer(DFU_CONTROLLER, GET_VERSION): refused while the flash is       *)
(* accessed; an XMOS that is not running answers zeros.  (One that ignores *)
(* the command four times is the choice of the caller's fault.)            *)
TransferOk == ~spi_flash_direct_access_enabled_ /\ xmos # NoVersion

(* Mutant: the attempts are not counted anew.                              *)
SetModeKeepsAttempts(enable, boots) ==
  /\ xmos_rst_pin_' = enable
  /\ xmos' = IF enable THEN NoVersion ELSE IF xmos_rst_pin_ THEN boots ELSE xmos
  /\ sat_state_' = IF enable THEN "FLASH_CONNECTED"
                   ELSE IF spi_flash_direct_access_enabled_ THEN "DETACHED" ELSE sat_state_
  /\ spi_flash_direct_access_enabled_' = enable
  /\ UNCHANGED <<connection_attempts_, xmos_fw_version_>>

(* Mutant: the state of the connection is left alone.                      *)
SetModeKeepsState(enable, boots) ==
  /\ xmos_rst_pin_' = enable
  /\ xmos' = IF enable THEN NoVersion ELSE IF xmos_rst_pin_ THEN boots ELSE xmos
  /\ connection_attempts_' = 0
  /\ spi_flash_direct_access_enabled_' = enable
  /\ UNCHANGED <<sat_state_, xmos_fw_version_>>

(* set_spi_flash_direct_access_mode, but for the callback.  An XMOS that is*)
(* released boots what the flash holds.                                    *)
set_spi_flash_direct_access_mode(enable, boots) ==
  /\ xmos_rst_pin_' = enable
  /\ xmos' = IF enable THEN NoVersion ELSE IF xmos_rst_pin_ THEN boots ELSE xmos
  /\ sat_state_' = IF enable THEN "FLASH_CONNECTED"
                   ELSE IF spi_flash_direct_access_enabled_ THEN "DETACHED" ELSE sat_state_
  /\ connection_attempts_' = IF ~enable /\ spi_flash_direct_access_enabled_
                             THEN 0 ELSE connection_attempts_
  /\ spi_flash_direct_access_enabled_' = enable
  /\ UNCHANGED xmos_fw_version_

(* The mode switched on and off again in one call: flash_accessible, and a *)
(* flash that cannot be initialised.  The XMOS is reset.                   *)
DirectAccessPulse(boots) ==
  /\ xmos_rst_pin_' = FALSE /\ xmos' = boots
  /\ sat_state_' = "DETACHED" /\ connection_attempts_' = 0
  /\ spi_flash_direct_access_enabled_' = FALSE
  /\ UNCHANGED <<xmos_fw_version_, connect_checks>>

(* xmos_hardware_reset: the pin high and low again, nothing else.          *)
xmos_hardware_reset(boots) ==
  /\ xmos_rst_pin_' = FALSE /\ xmos' = boots
  /\ UNCHANGED <<sat_state_, connection_attempts_, spi_flash_direct_access_enabled_,
                 xmos_fw_version_, connect_checks>>

SatTypeOK ==
  /\ sat_state_ \in {"DETACHED", "XMOS_CONNECTED", "FLASH_CONNECTED"}
  /\ connection_attempts_ \in 0..(MAX_CONNECTION_ATTEMPTS + 1)
  /\ spi_flash_direct_access_enabled_ \in BOOLEAN /\ xmos_rst_pin_ \in BOOLEAN
  /\ xmos_fw_version_ \in Versions /\ xmos \in Versions
  /\ connect_checks \in Nat
=============================================================================
