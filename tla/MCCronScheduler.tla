-------------------------- MODULE MCCronScheduler --------------------------
(* Small instances of CronScheduler for TLC. *)
EXTENDS CronScheduler, TLC

CONSTANTS j1, o1, o2

OwnerSymmetry == Permutations(Owners)

\* A job due once, nothing goes wrong, no choice of the user.
Once ==
  [schedule |-> [kind |-> "at", every |-> 1], misfire |-> "run-once",
   overlap |-> "skip", delivering |-> FALSE, reusing |-> FALSE, limit |-> 1,
   horizon |-> 1, edits |-> 0, edited |-> 0, manual |-> 0, lost |-> 0,
   crashes |-> 0, foreign |-> 0]
Every(n) == [kind |-> "interval", every |-> n]

\* A job with a target for its results, due at every instant.
Turns == [Once EXCEPT !.schedule = Every(1), !.delivering = TRUE,
                      !.misfire = "catch-up", !.limit = 2,
                      !.lost = 1, !.crashes = 1]

\* A scheduled and a manual execution under the policy replace.
Replaces == [Once EXCEPT !.overlap = "replace", !.manual = 1]

\* A backlog of three instants with a catch-up limit of one.
Backlog ==
  [Once EXCEPT !.schedule = Every(1), !.misfire = "skip", !.horizon = 3,
               !.lost = 1, !.crashes = 1]

\* Edits and deletes; the user's own runs in the conversation of the job.
Edits == [Once EXCEPT !.edits = 1]
Shared == [Once EXCEPT !.reusing = TRUE, !.foreign = 1]

Restart == [Once EXCEPT !.overlap = "queue", !.crashes = 1]

OnePlan     == {Once}
TurnPlans   == {Turns, Replaces, Backlog, Edits, Shared}
RestartPlan == {Restart}
LostReply   == {[Once EXCEPT !.schedule = Every(1), !.horizon = 2, !.lost = 1]}
=============================================================================
