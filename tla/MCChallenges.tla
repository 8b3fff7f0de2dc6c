---------------------------- MODULE MCChallenges ----------------------------
EXTENDS Challenges, TLC

CONSTANTS c1, c2, r1

MCIds == {c1, c2}

\* One runner at a time: the lease excludes a second, and a later one takes the slot.
MCRunners == {r1}
=============================================================================
