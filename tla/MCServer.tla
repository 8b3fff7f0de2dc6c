------------------------------ MODULE MCServer ------------------------------
EXTENDS Server

CONSTANTS j1, j2, c1

\* j1 repeats and its execution need not end; j2, stored before the first launch, does
\* neither.  The client that submits j1 may keep its body back.
MCJobs == {j1, j2}
MCRepeating == {j1}
MCStored == {j2}
MCEndless == {j1}
MCWithheld == {j1}
MCComparisons == {c1}
=============================================================================
