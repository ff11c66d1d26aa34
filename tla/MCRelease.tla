----------------------------- MODULE MCRelease -----------------------------
(* A small release history: three runs and three commits, the last of which *)
(* starts a new base and changes the workflows.  The first run finds no     *)
(* candidate to promote, so it is never a stable one.                       *)
EXTENDS Release
MCRuns == 1..3
MCCommits == 0..2
MCBaseOf == [c \in MCCommits |-> IF c < 2 THEN 1 ELSE 2]
MCTreeOf == [c \in MCCommits |-> IF c < 2 THEN 1 ELSE 2]
Beta == <<"push", "beta">>
Nightly == <<"schedule", "nightly">>
RC == <<"workflow_dispatch", "rc">>
Stable == <<"workflow_dispatch", "stable">>
MCKinds == <<{Beta, RC}, {RC, Stable}, {Beta, Nightly, Stable}>>
MCAssets == 1..1
=============================================================================
