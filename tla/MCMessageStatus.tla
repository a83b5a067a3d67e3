-------------------------- MODULE MCMessageStatus --------------------------
\* Finite instances of MessageStatus for TLC.
EXTENDS MessageStatus

CONSTANTS s1, s2, s3, c1, c2, c3, c4, c5

ThreeStatuses == {s1, s2, s3}
FiveChannels == {c1, c2, c3, c4, c5}
=============================================================================
