---------------------------- MODULE MCHourlyQuota ----------------------------
(* Instances of HourlyQuota for TLC. *)
EXTENDS HourlyQuota, TLC

CONSTANTS w1, w2, w3, s1, s2

\* Two senders with different limits; jobs of a lone sender with different limits.
MCSenderLimits == (s1 :> {1}) @@ (s2 :> {2})
OneSenderLimits == (s1 :> {1, 2})

WorkerSymmetry == Permutations(Workers)
=============================================================================
