------------------------ MODULE MCCampaignScheduler ------------------------
\* Finite instances of CampaignScheduler for TLC.
EXTENDS CampaignScheduler

CONSTANTS i1, i2, r1, r2

OneInstance == {i1}
TwoInstances == {i1, i2}
NoClient == {}
OneRequest == {r1}
TwoRequests == {r1, r2}
=============================================================================
