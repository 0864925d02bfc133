---------------------------- MODULE MCFollowUps ----------------------------
EXTENDS FollowUps
CONSTANTS f1, f2, direct
MCItems == {f1, f2}
MCOne == {f1}
=============================================================================
