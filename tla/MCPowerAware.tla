---------------------------- MODULE MCPowerAware ----------------------------
(* PowerAware for model checking: the event-driven task at the first       *)
(* address, under the policy of EDF that simulates.                        *)
EXTENDS PowerAware

MCSimulates == {[power |-> "DRA", dm |-> FALSE]}
MCLowPeriodic == {2, 3}
MCLowSynchronous == {1}
MCLowPeriod == (2 :> 3) @@ (3 :> 6)
MCLowWCET == (1 :> 1) @@ (2 :> 2) @@ (3 :> 1)
MCLowWorkLoad == 1 :> 6
MCRatio == (0 :> 64) @@ (1 :> 128) @@ (2 :> 256)
=============================================================================
