----------------------------- MODULE MCJournal ------------------------------
EXTENDS RunJournal, TLC

CONSTANTS p1, p2, i1, i2, m1, m2

MCProcs == {p1, p2}
OneProc == {p1}
MCMemories == {m1, m2}
MCRunIds == {i1, i2}
OneRun == {i1}

\* Two sessions whose default directories differ; lab may be told to use either.
MCSessions == {"main", "lab"}
MCDefaultMemory == [s \in MCSessions |-> IF s = "main" THEN m1 ELSE m2]
MCDirectories == [s \in MCSessions |-> IF s = "main" THEN {} ELSE MCMemories]

Symmetry == Permutations(MCProcs) \cup Permutations(MCRunIds)
=============================================================================
