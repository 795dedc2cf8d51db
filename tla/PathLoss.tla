------------------------------ MODULE PathLoss ------------------------------
(***************************************************************************)
(* The relative path loss of a device (BtMgmt and KalmanFilter in          *)
(* daemon/src/bt_mgmt.rs), as operators: what the controller answers to    *)
(* GetConnectionInformation becomes a raw loss, transmit power less signal *)
(* strength, and the filter smooths it.                                    *)
(*                                                                         *)
(* The filter computes in f64.  Here its numbers are integers: estimates   *)
(* and losses are counted in 1/Unit of a dB, covariances in 1/Grain, and   *)
(* every product and quotient is rounded to the nearest one, as f64 rounds *)
(* to its own, much smaller, step.  The gain is a quotient of covariances, *)
(* so Grain alone says how close it comes to the code's.                   *)
(*                                                                         *)
(* An operator whose comment begins with "Slip:" is not the code (see      *)
(* ProxState).                                                             *)
(***************************************************************************)
EXTENDS Integers

CONSTANTS
  Unit,   \* steps of a loss per dB
  Grain   \* steps of a covariance

ASSUME UnitAssumption == Unit \in Nat \ {0} /\ Grain \in Nat \ {0}

AddressType == {"BrEdr", "LePublic", "LeRandom"}

\* An i8 as the management interface reports it.
Power == -128..127

\* HCI_TX_POWER_INVALID
TxInvalid == 127

\* The settings of a device that BtMgmt reads, and rpl_threshold.  Validation
\* keeps kalman_q and kalman_r positive and leaves the rest alone.
Radio == [addr: AddressType, fallback: Power, q: Nat \ {0}, r: Nat \ {0},
          initial: Int, threshold: Int]

\* A classic controller that does not know its own power has failed; an LE
\* one may simply not support the question.
PowerLost(radio, tx) == tx = TxInvalid /\ radio.addr = "BrEdr"

EffectiveTx(radio, tx) == IF tx = TxInvalid THEN radio.fallback ELSE tx

\* raw_rpl.  The sum is made in f64, so it does not wrap.
RawLoss(radio, tx, rssi) == Unit * (EffectiveTx(radio, tx) - rssi)

------------------------------------------------------------------------------
\* x is the estimate and p its covariance.
NewFilter(radio) == [x |-> radio.initial, p |-> Grain]

\* a/b to the nearest integer, for b > 0.
Nearest(a, b) == (2 * a + b) \div (2 * b)

\* Slip: the covariance of the process is forgotten, and the filter hardens.
UpdateDeaf(radio, filter, z) ==
  [x |-> filter.x + Nearest(filter.p * (z - filter.x), filter.p + radio.r),
   p |-> Nearest(filter.p * radio.r, filter.p + radio.r)]

\* Slip: k * z - x for k * (z - x).
UpdateLoose(radio, filter, z) ==
  LET p == filter.p + radio.q IN
    [x |-> Nearest(p * z, p + radio.r), p |-> Nearest(p * radio.r, p + radio.r)]

\* KalmanFilter::update: the gain is p/(p + r), and one less the gain r/(p + r).
Update(radio, filter, z) ==
  LET p == filter.p + radio.q IN
    [x |-> filter.x + Nearest(p * (z - filter.x), p + radio.r),
     p |-> Nearest(p * radio.r, p + radio.r)]
==============================================================================
