--------------------------- MODULE MCDeviceConfig ---------------------------
\* Values for the constants of DeviceConfig.
EXTENDS DeviceConfig, TLC

CONSTANTS m1, m2, u1, u2, upper, lower

\* All settings at 1, and the fallback power apart.
MCSettings == [s \in DOMAIN Names |-> [n \in Names[s] |-> IF n = "fallback_tx_power" THEN 2 ELSE 1]]

MCEntry(u, m, f, k, o) ==
  [uid |-> u, target_mac |-> [mac |-> m, form |-> f], kind |-> k, over |-> o]

NoOver == [n \in {} |-> 0]

\* None, a good one, and one of each kind that is not.
MCOverrides == {NoOver, "fallback_tx_power" :> 0, "kalman_q" :> 0, "poll_interval_ms" :> 0}

\* Nothing; a device each, one of them in lower case; twins; and a section
\* that does not validate.
MCStart ==
  {[settings |-> MCSettings, devices |-> l] :
     l \in {<<>>,
            <<MCEntry(u1, m1, upper, "br_edr", NoOver), MCEntry(u2, m2, lower, "le_public", NoOver)>>,
            <<MCEntry(u1, m1, upper, "br_edr", NoOver), MCEntry(u2, m1, lower, "br_edr", NoOver)>>}}
  \union {[settings |-> [MCSettings EXCEPT !.wake.duration_secs = 0], devices |-> <<>>]}

MCPatches == {<<"br_edr", "lock_count", 0>>, <<"le", "kalman_r", 0>>, <<"le", "kalman_r", 2>>,
              <<"top", "adapter_index", 2>>, <<"web", "port", 0>>}

MCLists ==
  {<<>>, <<MCEntry(u2, m1, lower, "le_random", NoOver)>>,
   <<MCEntry(u2, m1, lower, "le_random", NoOver), MCEntry(u1, m1, upper, "br_edr", NoOver)>>,
   <<MCEntry(u1, NoMac, upper, "br_edr", NoOver)>>}
==============================================================================
