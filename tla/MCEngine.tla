------------------------------ MODULE MCEngine ------------------------------
EXTENDS Engine

\* A cron job and a request in two server processes, each with passes of its own.
TwoProcesses == [c \in Callers \cup Matchers |-> IF c \in {"cron", "job"} THEN "s1" ELSE "s2"]
\* One portfolio that cycles run for, with a share or a share and a half, and one that only holds,
\* half a share.
SeededOdd == [p \in {"p1", "p2"} |-> IF p = "p1" THEN {2, 3} ELSE {1}]
=============================================================================
