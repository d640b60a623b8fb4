----------------------------- MODULE MCScheduler -----------------------------
EXTENDS Scheduler
MCDue == [c \in Cron |-> IF c = "each" THEN {2, 4, 6} ELSE {4}]
=============================================================================
