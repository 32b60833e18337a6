------------------------------ MODULE I2SPort ------------------------------
(***************************************************************************)
(* The I2S port that the microphone and both speakers of the device share: *)
(* I2SPortComponent, I2SAudioOut and I2SAudioIn of components/i2s_audio.   *)
(* The port has one TX and one RX handle; the channels behind them belong  *)
(* to the ESP-IDF driver, which is external: a channel is allocated        *)
(* (REGISTER), configured (READY) or enabled (RUNNING); it is enabled only *)
(* from READY, disabled only from RUNNING and never deleted while RUNNING. *)
(*                                                                         *)
(* An operation on the port is the set of its results: the port it leaves, *)
(* whether it reports success, and the injected failures it took.          *)
(***************************************************************************)
EXTENDS Naturals

CONSTANTS
  Speakers,          \* the speakers registered at the port
  Faults,            \* what may fail
  MaxFaults          \* how often

FaultKinds == {"new_channel", "init", "enable", "task", "buffer", "slow", "race"}

ASSUME FaultsAssumption == Faults \subseteq FaultKinds /\ MaxFaults \in Nat

Nobody == "nobody"

ASSUME SpeakersAssumption == Nobody \notin Speakers

VARIABLES
  port,    \* the handles, the channels, and whose on_sent callback is registered
  faults   \* the failures that may still happen

ChanStates == {"none", "REGISTER", "READY", "RUNNING", "freed"}

Ports == [tx_handle_ : BOOLEAN, rx_handle_ : BOOLEAN, tx : ChanStates, rx : ChanStates,
          on_sent : Speakers \union {Nobody}]

NoChannels ==
  [tx_handle_ |-> FALSE, rx_handle_ |-> FALSE, tx |-> "none", rx |-> "none", on_sent |-> Nobody]

PortInit == port = NoChannels /\ faults = MaxFaults

Ok(p)     == [port |-> p, ok |-> TRUE,  cost |-> 0]
Failed(p) == [port |-> p, ok |-> FALSE, cost |-> 0]

(* A failure of the driver itself, if kind may still happen.               *)
Fails(kind, p) ==
  IF kind \in Faults /\ faults > 0 THEN {[port |-> p, ok |-> FALSE, cost |-> 1]} ELSE {}

-----------------------------------------------------------------------------
(* init_driver_: both channels at once, which needs both to be free.  The  *)
(* error paths delete one channel and leave the other.                     *)
init_driver_(p) ==
  LET ready == [p EXCEPT !.tx_handle_ = TRUE, !.rx_handle_ = TRUE,
                         !.tx = "READY", !.rx = "READY", !.on_sent = Nobody]
  IN  IF p.tx # "none" \/ p.rx # "none" THEN {Failed(p)} ELSE
        {Ok(ready)}
        \union Fails("new_channel", p)
        \union Fails("init", [ready EXCEPT !.tx_handle_ = FALSE, !.tx = "none", !.rx = "REGISTER"])
        \union Fails("init", [ready EXCEPT !.rx_handle_ = FALSE, !.rx = "none"])

(* The end of I2SAudioOut::start_i2s_channel.  A channel that cannot be    *)
(* enabled is deleted, in vain if it is running, and the handle forgotten. *)
EnableTx(p) ==
  IF p.tx = "READY"
  THEN {Ok([p EXCEPT !.tx = "RUNNING"])}
       \union Fails("enable", [p EXCEPT !.tx_handle_ = FALSE, !.tx = "none", !.on_sent = Nobody])
  ELSE {Failed([p EXCEPT !.tx_handle_ = FALSE,
                         !.tx = IF p.tx = "RUNNING" THEN "RUNNING" ELSE "none"])}

(* I2SAudioOut::start_i2s_channel; its caller passes no callback, which    *)
(* leaves a registered one in place.                                       *)
start_tx(p) ==
  IF p.tx_handle_ THEN EnableTx(p)
  ELSE IF p.rx_handle_ THEN {Failed(p)}
  ELSE UNION {IF r.ok THEN EnableTx(r.port) ELSE {r} : r \in init_driver_(p)}

(* Mutant: the channel is deleted also while there is an RX handle.        *)
StopTxDeletes(p) ==
  IF ~p.tx_handle_ \/ p.tx # "RUNNING" THEN p
  ELSE [p EXCEPT !.tx_handle_ = FALSE, !.tx = "none", !.on_sent = Nobody]

(* Mutant: the other channel goes down as well.                            *)
StopTxStopsRx(p) ==
  IF ~p.tx_handle_ \/ p.tx # "RUNNING" THEN p ELSE NoChannels

(* I2SAudioOut::stop_i2s_channel: the channel is kept for the microphone's *)
(* sake as long as there is an RX handle.                                  *)
stop_tx(p) ==
  IF ~p.tx_handle_ \/ p.tx # "RUNNING" THEN p
  ELSE IF p.rx_handle_ THEN [p EXCEPT !.tx = "READY"]
  ELSE [p EXCEPT !.tx_handle_ = FALSE, !.tx = "none", !.on_sent = Nobody]

-----------------------------------------------------------------------------
(* What a call with the handle of a deleted channel does is undefined; it  *)
(* reports success or failure.                                             *)
UseAfterFree(p) == {Ok(p), Failed(p)}

(* I2SAudioIn::start_i2s_channel: after a failed enable the channel is     *)
(* deleted and the handle kept.                                            *)
EnableRx(p) ==
  CASE p.rx = "READY"   -> {Ok([p EXCEPT !.rx = "RUNNING"])}
                           \union Fails("enable", [p EXCEPT !.rx = "freed"])
    [] p.rx = "RUNNING" -> {Failed(p)}
    [] p.rx = "freed"   -> UseAfterFree(p)
    [] OTHER            -> {Failed([p EXCEPT !.rx = "freed"])}

start_rx(p) ==
  IF p.rx_handle_ THEN EnableRx(p)
  ELSE IF p.tx_handle_ THEN {Failed(p)}
  ELSE UNION {IF r.ok THEN EnableRx(r.port) ELSE {r} : r \in init_driver_(p)}

(* I2SAudioIn::stop_i2s_channel                                            *)
stop_rx(p) ==
  IF ~p.rx_handle_ \/ p.rx # "RUNNING" THEN p
  ELSE [p EXCEPT !.rx_handle_ = FALSE, !.rx = "none"]

PortTypeOK == port \in Ports /\ faults \in 0..MaxFaults
=============================================================================
