------------------------------- MODULE WakeUp -------------------------------
(***************************************************************************)
(* Waking the screen (wake_screen in daemon/src/wake_up.rs, the virtual    *)
(* devices of input.rs): for wake.duration_secs a virtual mouse twitches   *)
(* and a virtual keyboard presses Enter, each at its interval, until the   *)
(* timer task ends the loop through a oneshot channel.                     *)
(*                                                                         *)
(* The timer starts before the virtual devices are made and the intervals  *)
(* after, so the time that making them takes is not made up for.           *)
(*                                                                         *)
(* tokio's intervals tick at once and then keep to their schedule: a tick  *)
(* that comes late does not move the next one.  select! takes any branch   *)
(* that is ready.  A task may be late by any time; `late' remembers that   *)
(* one was, and what is promised of the schedule is promised without it.   *)
(*                                                                         *)
(* An operator whose comment begins with "Slip:" is not the code (see      *)
(* ProxState).                                                             *)
(***************************************************************************)
EXTENDS Integers

CONSTANTS
  Duration, MouseInterval, EnterInterval,   \* in ticks of the clock
  Lateness    \* bound: how long after Duration the clock is followed

\* Validation keeps all three at 1 or more.
ASSUME WakeAssumption ==
  /\ Duration \in Nat \ {0} /\ MouseInterval \in Nat \ {0} /\ EnterInterval \in Nat \ {0}
  /\ Lateness \in Nat

VARIABLES
  wake,       \* "off", "making" the devices, "on", "over", or "failed"
  time,       \* since wake_screen was called
  begun,      \* when the devices were there and the intervals began
  fired,      \* the timer task has sent its message
  nextMouse, nextEnter,   \* when the intervals tick next
  enters,     \* Enters pressed
  late        \* history: some task was not run when it could have been

wakeVars == <<wake, time, begun, fired, nextMouse, nextEnter, enters, late>>

------------------------------------------------------------------------------
MouseDue == nextMouse <= time
EnterDue == nextEnter <= time

\* Nothing is going on, and nothing is remembered of the last time.
Resting ==
  /\ wake = "off" /\ time = 0 /\ begun = 0 /\ fired = FALSE
  /\ nextMouse = 0 /\ nextEnter = 0 /\ enters = 0 /\ late = FALSE

\* The timer task is spawned, and the devices are about to be made.
WakeStart ==
  /\ wake = "off"
  /\ wake' = "making"
  /\ UNCHANGED <<time, begun, fired, nextMouse, nextEnter, enters, late>>

\* One of them cannot be made: the error is all there is.
DevicesFail ==
  /\ wake = "making"
  /\ wake' = "failed"
  /\ UNCHANGED <<time, begun, fired, nextMouse, nextEnter, enters, late>>

\* Slip: the tick an interval begins with is not skipped.
DevicesMadeEager ==
  /\ wake = "making"
  /\ wake' = "on"
  /\ begun' = time /\ nextMouse' = time /\ nextEnter' = time
  /\ UNCHANGED <<time, fired, enters, late>>

\* They are there, the intervals begin, and the tick that enter_tick begins
\* with is skipped.
DevicesMade ==
  /\ wake = "making"
  /\ wake' = "on"
  /\ begun' = time /\ nextMouse' = time /\ nextEnter' = time + EnterInterval
  /\ UNCHANGED <<time, fired, enters, late>>

\* time::sleep(duration) is over.
Fire ==
  /\ wake \in {"making", "on"} /\ ~fired
  /\ time >= Duration
  /\ fired' = TRUE
  /\ UNCHANGED <<wake, time, begun, nextMouse, nextEnter, enters, late>>

\* The three branches of the loop.  An input that fails is only logged.
Shutdown ==
  /\ wake = "on" /\ fired
  /\ wake' = "over"
  /\ UNCHANGED <<time, begun, fired, nextMouse, nextEnter, enters, late>>

MoveMouse ==
  /\ wake = "on" /\ MouseDue
  /\ nextMouse' = nextMouse + MouseInterval
  /\ UNCHANGED <<wake, time, begun, fired, nextEnter, enters, late>>

PressEnter ==
  /\ wake = "on" /\ EnterDue
  /\ nextEnter' = nextEnter + EnterInterval
  /\ enters' = enters + 1
  /\ UNCHANGED <<wake, time, begun, fired, nextMouse, late>>

\* Making the devices takes the time it takes; the timer and the loop are
\* late if they leave something undone.
TimePasses ==
  /\ wake \in {"making", "on"} /\ time < Duration + Lateness
  /\ time' = time + 1
  /\ late' = \/ late
             \/ ~fired /\ time >= Duration
             \/ wake = "on" /\ (MouseDue \/ EnterDue \/ fired)
  /\ UNCHANGED <<wake, begun, fired, nextMouse, nextEnter, enters>>

\* The caller goes on; what is left is forgotten.
WakeReset ==
  /\ wake \in {"over", "failed"}
  /\ wake' = "off" /\ time' = 0 /\ begun' = 0 /\ fired' = FALSE
  /\ nextMouse' = 0 /\ nextEnter' = 0 /\ enters' = 0 /\ late' = FALSE

WakeStep ==
  DevicesFail \/ DevicesMade \/ Fire \/ Shutdown \/ MoveMouse \/ PressEnter \/ TimePasses

------------------------------------------------------------------------------
WakeTypeOK ==
  /\ wake \in {"off", "making", "on", "over", "failed"}
  /\ time \in 0..(Duration + Lateness)
  /\ begun \in 0..time
  /\ fired \in BOOLEAN /\ late \in BOOLEAN
  /\ nextMouse \in Nat /\ nextEnter \in Nat /\ enters \in Nat

\* Enter is never ahead of its schedule, so it never comes before the devices
\* have been there for an interval; and if no task is late none is missing:
\* all that fall before the end of the duration are pressed, and none that
\* falls after it.  One that falls on the end may or may not be.  With the
\* default settings of 3 seconds and 3000 milliseconds the first would fall
\* there, but for the time it takes to make the devices, which puts it past
\* the end unless the timer task is late.
EntersOnTime ==
  /\ begun + enters * EnterInterval <= time
  /\ wake = "over" /\ ~late =>
       /\ enters > 0 => begun + enters * EnterInterval <= Duration
       /\ begun + (enters + 1) * EnterInterval >= Duration
==============================================================================
