--------------------------- MODULE MCCampaignSend ---------------------------
\* Finite instances of CampaignSend for TLC.
EXTENDS CampaignSend

\* Three rows and as many goroutines: two rows in flight around a third one.
MCMessage == 1..3

MCNoSenderData == {2}
=============================================================================
