------------------------------- MODULE MCJobs -------------------------------
EXTENDS Jobs, TLC

CONSTANTS j1, j2, r1, r2

MCJobIds == {j1, j2}
MCRunners == {r1, r2}
OneRunner == {r1}
MCCronSlots == {1, 2}

\* Runner processes are interchangeable, and so are jobs, whose kinds are chosen at
\* submission: the properties of this run are invariants and action properties.
Symmetry == Permutations(MCRunners) \cup Permutations(MCJobIds)
=============================================================================
