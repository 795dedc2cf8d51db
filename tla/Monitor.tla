------------------------------- MODULE Monitor -------------------------------
(***************************************************************************)
(* A device monitor with its radio: DevicePoll fed by PathLoss, the whole  *)
(* of spawn_device_task (daemon/src/device.rs) but for the channel.  Where *)
(* DevicePoll takes a reading to be any of "far", "near" and "lost", here  *)
(* it is what the filter makes of the controller's answers.                *)
(*                                                                         *)
(* The filter lives as long as the task: a lost connection ends neither,   *)
(* so readings from before a loss weigh on the estimates after it.         *)
(*                                                                         *)
(* least, most and awayRun are history: the smallest and the largest loss  *)
(* the filter has been given, its initial value included, and how many of  *)
(* the latest losses in a row were those of a device that is away, counted *)
(* up to Patience + RunCap.                                                *)
(***************************************************************************)
EXTENDS DevicePoll, PathLoss

CONSTANTS
  Radios,     \* radio settings a device may have
  Answers,    \* <<tx_power, rssi>> pairs the controller may report
  Away,       \* a loss that is at least this is of a device that is away
  Patience    \* losses in a row it takes to notice one

ASSUME RadiosAssumption == Radios \subseteq Radio
ASSUME AnswersAssumption == Answers \subseteq Power \X Power
ASSUME PatienceAssumption == Away \in Int /\ Patience \in Nat /\ Patience >= 1

VARIABLES radio, filter, least, most, awayRun

radioVars == <<radio, filter, least, most, awayRun>>
monitorVars == <<vars, radioVars>>

------------------------------------------------------------------------------
Smaller(a, b) == IF a <= b THEN a ELSE b

MonitorInit ==
  /\ Init
  /\ radio \in Radios
  /\ filter = NewFilter(radio)
  /\ least = radio.initial /\ most = radio.initial
  /\ awayRun = 0

ReadingOf(x) == IF x >= radio.threshold THEN "far" ELSE "near"

\* The device is not connected, or its classic controller cannot tell its
\* power: the round goes by without the filter.
PollFails ==
  /\ Poll("lost")
  /\ UNCHANGED radioVars

\* The controller answers, and the filter is given the loss.
PollAnswers(tx, rssi) ==
  LET z == RawLoss(radio, tx, rssi) IN
    /\ ~PowerLost(radio, tx)
    /\ filter' = Update(radio, filter, z)
    /\ Poll(ReadingOf(filter'.x))
    /\ least' = Smaller(least, z) /\ most' = Larger(most, z)
    /\ awayRun' = IF z < Away THEN 0
                  ELSE IF awayRun < Patience + RunCap THEN awayRun + 1 ELSE awayRun
    /\ UNCHANGED radio

MonitorNext ==
  \/ PollFails
  \/ \E a \in Answers : PollAnswers(a[1], a[2])

MonitorSpec == MonitorInit /\ [][MonitorNext]_monitorVars

------------------------------------------------------------------------------
MonitorTypeOK ==
  /\ TypeOK
  /\ radio \in Radios
  /\ filter.x \in Int /\ filter.p \in 1..(radio.r + Grain)
  /\ least \in Int /\ most \in Int
  /\ awayRun \in 0..(Patience + RunCap)

\* The filter smooths and invents nothing: the estimate lies among the losses
\* it was given, across lost connections and whatever the controller says.
\* It can be past the threshold only if some loss, or kalman_initial, was.
AmongLosses == least <= filter.x /\ filter.x <= most

\* The filter does not go deaf: however long the device was near, and however
\* low its estimate, Patience losses in a row of a device that is away bring
\* the estimate past the threshold, and the last of them is the first of the
\* lock_count rounds after which the device is no longer near, whichever
\* polls are lost in between.
Noticed ==
  /\ awayRun >= Patience => filter.x >= radio.threshold
  /\ awayRun + 1 >= Patience + p.lock => ph.name # "Near"

\* A filter does not harden below covariance c: what an update makes of c, the
\* process noise included, is c again or more.  Nothing is rounded here.
StaysOpen(s, c) == c <= Grain /\ c * (c + s.q + s.r) <= (c + s.q) * s.r

\* One loss of Away takes an estimate from x to y or further, if the
\* covariance is c: the gain is (c + q)/(c + q + r), and nothing is rounded.
Reaches(s, c, x, y) == (y - x) * (c + s.q + s.r) <= (c + s.q) * (Away - x)

\* What makes a filter that quick, in terms of its settings alone: a ladder
\* of Patience rungs from below every loss to the threshold.  As nothing is
\* rounded, it is a ladder for a filter that computes without rounding too.
IsLadder(s, c, up) ==
  /\ s.threshold <= Away
  /\ StaysOpen(s, c)
  /\ up[0] <= s.initial
  /\ \A a \in Answers : ~PowerLost(s, a[1]) => up[0] <= RawLoss(s, a[1], a[2])
  /\ \A n \in 0..(Patience - 1) : Reaches(s, c, up[n], up[n + 1])
  /\ s.threshold <= up[Patience]

QuickEnough(s) == \E c \in Nat \ {0}, up \in [0..Patience -> Int] : IsLadder(s, c, up)
==============================================================================
