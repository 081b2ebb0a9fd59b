--------------------------- MODULE MCCampaignPacing ---------------------------
(* Instances of CampaignPacing for TLC. *)
EXTENDS CampaignPacing, TLC

CONSTANTS k1, k2, s1, s2

\* Campaigns are interchangeable, and so are senders.
Symmetry == Permutations(Campaigns) \cup Permutations(Senders)
=============================================================================
