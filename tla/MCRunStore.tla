----------------------------- MODULE MCRunStore -----------------------------
(* Small instances of RunStore for TLC. *)
EXTENDS RunStore, TLC

CONSTANTS i1, MaxTurns

Ev(n, k, c, v) == [seq |-> n, kind |-> k, call |-> c, native |-> v]

\* In order, a gap, a conflicting replay, a batch with a duplicate inside, a
\* resolution with and without its request, one native id under two numbers.
MCBatches ==
  { << Ev(1, "delta", NoId, i1) >>,
    << Ev(1, "run.terminal", NoId, NoId) >>,
    << Ev(1, "delta", NoId, i1), Ev(2, "delta", NoId, NoId) >>,
    << Ev(2, "delta", NoId, i1) >>,
    << Ev(2, "delta", NoId, NoId), Ev(2, "delta", NoId, NoId) >>,
    << Ev(1, "permission.request", i1, NoId), Ev(2, "permission.resolved", i1, NoId) >>,
    << Ev(2, "permission.resolved", i1, NoId) >> }

MCSymmetry == Permutations(Runs) \cup Permutations(Conversations)

\* Bound: run ids and conversation ids may be reused after a hard delete.
MCBound == \A c \in Conversations : Len(turns[c]) <= MaxTurns
=============================================================================
