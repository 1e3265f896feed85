------------------------- MODULE CronSchedulerProofs -------------------------
(***************************************************************************)
(* What the scheduler promises, for every set of jobs and schedulers, every  *)
(* schedule, policy and number of faults: no parallel turns of a job, one    *)
(* prompt per instant, no instant lost, a completed run is complete, and a   *)
(* stale tick undoes no edit.                                               *)
(*                                                                          *)
(* First the invariants; then what the schedule operators compute, for every *)
(* interval and limit; then what any step can do to one part of the state;   *)
(* the invariants follow from these few moves.                              *)
(***************************************************************************)
EXTENDS CronScheduler, FiniteSetTheorems, SequenceTheorems, WellFoundedInduction, TLAPS

(* Turns *)

Busy == {"starting", "prompting", "timeout", "delivering", "ending"}

\* What runs is the first of its job; only a prompt is in flight.
TurnSound(e) ==
  /\ ex[e].at \in Busy \cup {"queued"} => ex[e].owner \in Owners
  /\ ex[e].at \in Busy => /\ chain[<<ex[e].owner, e[1]>>] # <<>>
                          /\ Head(chain[<<ex[e].owner, e[1]>>]) = e
  /\ InFlight(e) => ex[e].at \in {"prompting", "timeout"}

\* The tail of a job holds what is queued, each once, behind what runs.
TailSound(o, j) ==
  LET c == chain[<<o, j>>] IN
  \A i \in DOMAIN c :
    /\ c[i][1] = j /\ ex[c[i]].owner = o
    /\ ex[c[i]].at = "queued" \/ (i = 1 /\ ex[c[i]].at \in Busy)
    /\ \A k \in DOMAIN c : c[k] = c[i] => k = i

\* What waits to replace another execution is not yet in a tail, and waits once.
WaitSound(x) ==
  adm[x].at = "replace" =>
    /\ ex[adm[x].e].at \in {"none", "over"}
    /\ \A y \in Owners \X Callers : adm[y].at = "replace" /\ adm[y].e = adm[x].e => y = x

TurnInv ==
  /\ \A e \in Executions : TurnSound(e)
  /\ \A o \in Owners, j \in Jobs : TailSound(o, j)
  /\ \A x \in Owners \X Callers : WaitSound(x)

(* Prompts *)

\* No prompt before the row, nor before the execution has begun.
Unprompted(e) ==
  \/ run[e].status = "none" \/ ex[e].at \in {"queued", "starting"}
  \/ \E x \in Owners \X Callers : adm[x].at = "replace" /\ adm[x].e = e

DispatchInv ==
  plan.edited = 0 =>
    \A e \in Executions : dispatched[e] <= 1 /\ (Unprompted(e) => dispatched[e] = 0)

\* What is said about a run, before it is written and after.
SaidTrue(e, linked) ==
  /\ dispatched[e] > 0
  /\ plan.delivering => e \in silent \/ (e \in outbound /\ linked)

\* What was admitted or found empty stays so.
OutboxGrows == outbound \subseteq outbound' /\ silent \subseteq silent'

CompletedInv ==
  \A e \in Executions :
    /\ run[e].status = "completed" => SaidTrue(e, run[e].linked)
    /\ ex[e].at \in {"prompting", "timeout", "delivering"} => dispatched[e] > 0
    /\ ex[e].at = "ending" /\ ex[e].status = "completed" => SaidTrue(e, ex[e].linked)

(* Instants *)

OnSchedule(j, t) == NextAt(j, t - 1) = t

Accounted(j, next) ==
  \A t \in Instants \ {0} :
    OnSchedule(j, t) /\ (next = None \/ t < next) => run[<<j, t>>].status # "none"

\* What a tick has read is accounted for; what it has worked through, or has still
\* to work through, reaches up to where the schedule will continue.
DueSound(tk, ad) ==
  /\ \A j \in tk.todo : Accounted(j, tk.snap[j].next)
  /\ tk.at \in {"work", "persist"} =>
       \A t \in Instants \ {0} :
         OnSchedule(tk.cur, t) /\ (tk.follow = None \/ t < tk.follow) =>
           \/ run[<<tk.cur, t>>].status # "none"
           \/ t \in tk.missed \cup tk.exec
           \/ ad.at = "admit" /\ ad.e = <<tk.cur, t>>
  /\ tk.at = "persist" => tk.missed = {} /\ tk.exec = {}

TickDue(o) == DueSound(tick[o], adm[<<o, "tick">>])

DueInv ==
  plan.edited = 0 =>
    /\ edit.at # "write"
    /\ \A j \in Jobs : Accounted(j, job[j].next)
    /\ \A o \in Owners : TickDue(o)

(* Edits *)

\* The tick of o may still write the row of j as it read it.
Holds(o, j) ==
  tick[o].at \in {"work", "persist"} /\ (j \in tick[o].todo \/ j = tick[o].cur)

OnceOnly == plan.schedule.kind = "at"

\* A job that is due once and enabled has its instant before it.
RowSound(row) ==
  OnceOnly /\ row.present /\ row.enabled => row.next = plan.schedule.every

\* What a tick holds is no newer than the row, nor than what an edit has read; of
\* the same revision it says the same.
HeldSound(o, j) ==
  LET held == tick[o].snap[j] IN
  Holds(o, j) /\ held.present =>
    /\ job[j].present => /\ held.revision <= job[j].revision
                         /\ held.revision = job[j].revision /\ ~OnceOnly
                              => held.enabled = job[j].enabled
    /\ edit.at = "write" /\ edit.j = j => held.revision <= edit.row.revision

EditInv ==
  /\ \A j \in Jobs : /\ RowSound(job[j])
                     /\ edit.at = "write" /\ edit.j = j /\ job[j].present
                          => job[j].revision <= edit.row.revision
  /\ \A o \in Owners :
       /\ \A j \in Jobs : RowSound(tick[o].snap[j]) /\ HeldSound(o, j)
       /\ OnceOnly /\ tick[o].at \in {"work", "persist"}
            => tick[o].follow = None

OneScheduler == \A o, p \in Owners : o = p
NoReturn == \A j \in Jobs : ~job[j].present => ~job'[j].present
-----------------------------------------------------------------------------
(* What the schedule operators compute *)

\* A set of instants has an earliest member.
LEMMA HasLowest ==
  ASSUME NEW S \in SUBSET Nat, S # {}
  PROVE  \E x \in S : \A y \in S : x <= y
<1> DEFINE R == OpToRel(<, Nat)
<1>1. IsWellFoundedOn(R, Nat)
  BY NatLessThanWellFounded
<1>2. \A x, y \in Nat : y < x => <<y, x>> \in R
  BY DEF OpToRel
<1> HIDE DEF R
<1>3. \E x \in S : \A y \in S : ~ (<<y, x>> \in R)
  BY <1>1, WFMin
<1>4. \A x, y \in Nat : x <= y \/ y < x
  OBVIOUS
<1> QED BY <1>2, <1>3, <1>4

LEMMA LowestIs ==
  ASSUME NEW S \in SUBSET Nat, S # {}
  PROVE  Lowest(S) \in S /\ \A y \in S : Lowest(S) <= y
BY HasLowest DEF Lowest

\* Up to a bound it has a latest one.
LEMMA HighestIs ==
  ASSUME NEW bound \in Nat, NEW S \in SUBSET (0 .. bound), S # {}
  PROVE  Highest(S) \in S /\ \A y \in S : y <= Highest(S)
<1> DEFINE back == {bound - x : x \in S}
<1>0. \A x \in S : bound - x \in Nat
  OBVIOUS
<1>1. back \in SUBSET Nat /\ back # {}
  BY <1>0
<1>2. PICK b \in back : \A c \in back : b <= c
  BY <1>1, HasLowest
<1>3. PICK x \in S : b = bound - x
  OBVIOUS
<1>4. \A y \in S : y <= x
  <2> TAKE y \in S
  <2>1. bound - x <= bound - y
    BY <1>2, <1>3
  <2> QED BY <2>1
<1>5. \E h \in S : \A y \in S : y <= h
  BY <1>4
<1> QED BY <1>5 DEF Highest

LEMMA PlanFacts ==
  ASSUME plan \in PlanSpace
  PROVE  /\ plan.schedule.kind \in {"at", "interval"} /\ plan.schedule.every \in Nat \ {0}
         /\ plan.limit \in Nat \ {0} /\ plan.horizon \in Instants
         /\ plan.misfire \in {"skip", "run-once", "catch-up"}
         /\ plan.overlap \in {"skip", "queue", "replace"}
         /\ plan.edited \in Nat /\ plan.lost \in Nat
BY DEF PlanSpace

LEMMA InstantFacts == Instants \subseteq Nat /\ Instants \subseteq Int /\ 0 \in Instants
                      /\ \A t \in Instants : t <= Horizon
BY ScheduleAssumption DEF Instants

\* The next instant is later, or there is none.
LEMMA NextIs ==
  ASSUME plan \in PlanSpace, NEW j, NEW t \in Nat
  PROVE  /\ NextAt(j, t) \in Nat \cup {None}
         /\ NextAt(j, t) # None => NextAt(j, t) > t
<1> DEFINE n == plan.schedule.every
           a == t \div n
<1>1. n \in Nat \ {0}
  BY PlanFacts
<1> HIDE DEF n
<1>2. a \in Nat /\ t < a * n + n
  BY <1>1
<1> HIDE DEF a
<1>3. (a + 1) * n = a * n + n /\ a * n \in Nat
  BY <1>1, <1>2
<1>4. CASE plan.schedule.kind = "at"
  BY <1>1, <1>4 DEF NextAt, n
<1>5. CASE plan.schedule.kind # "at"
  <2>1. NextAt(j, t) = (a + 1) * n
    BY <1>5 DEF NextAt, a, n
  <2> QED BY <1>1, <1>2, <1>3, <2>1
<1> QED BY <1>4, <1>5

\* Between an instant and the next there is none.
LEMMA NextIsNext ==
  ASSUME plan \in PlanSpace, NEW j, NEW t \in Nat \ {0}, OnSchedule(j, t),
         NEW u \in Nat, u < t
  PROVE  NextAt(j, u) # None /\ NextAt(j, u) <= t
<1> DEFINE n == plan.schedule.every
           a == u \div n
           b == (t - 1) \div n
<1>1. n \in Nat \ {0} /\ t - 1 \in Nat /\ u <= t - 1
  BY PlanFacts
<1>2. CASE plan.schedule.kind = "at"
  <2>1. NextAt(j, t - 1) = IF n > t - 1 THEN n ELSE None
    BY <1>2 DEF NextAt
  <2>2. n = t
    BY <1>1, <2>1, ScheduleAssumption DEF OnSchedule
  <2>3. NextAt(j, u) = n
    BY <1>1, <1>2, <2>2 DEF NextAt
  <2> QED BY <2>2, <2>3, ScheduleAssumption
<1>3. CASE plan.schedule.kind # "at"
  <2>1. NextAt(j, u) = (a + 1) * n /\ (b + 1) * n = t
    BY <1>3 DEF NextAt, OnSchedule
  <2> HIDE DEF n
  <2>2. a \in Int /\ b \in Int /\ a <= b
    BY <1>1
  <2> HIDE DEF a, b
  <2>3. a + 1 <= b + 1 /\ a + 1 \in Int /\ b + 1 \in Int
    BY <2>2
  <2>4. (a + 1) * n <= (b + 1) * n
    BY <1>1, <2>3
  <2>5. (a + 1) * n \in Int
    BY <1>1, <2>3
  <2> QED BY <2>1, <2>4, <2>5, ScheduleAssumption
<1> QED BY <1>2, <1>3

\* The first due instant and every instant of the schedule up to the horizon.
AllDue(j, first, horizon) ==
  {first} \cup {t \in first + 1 .. horizon : OnSchedule(j, t)}

LEMMA DueAre ==
  ASSUME plan \in PlanSpace, NEW j, NEW first \in Nat, NEW horizon \in Nat,
         first <= horizon
  PROVE  LET due == DueTimes(j, first, horizon)
             all == AllDue(j, first, horizon)
         IN /\ due = {t \in all : Cardinality({u \in all : u < t}) < plan.limit}
            /\ all \subseteq first .. horizon /\ IsFiniteSet(all) /\ IsFiniteSet(due)
            /\ due \subseteq first .. horizon /\ first \in due
<1> DEFINE all == AllDue(j, first, horizon)
           due == DueTimes(j, first, horizon)
<1>1. due = {t \in all : Cardinality({u \in all : u < t}) < plan.limit}
  BY DEF DueTimes, AllDue, OnSchedule
<1>2. all \subseteq first .. horizon /\ first \in all
  BY DEF AllDue
<1>3. IsFiniteSet(first .. horizon)
  BY FS_Interval
<1> HIDE DEF all, due
<1>4. IsFiniteSet(all) /\ due \subseteq all
  BY <1>1, <1>2, <1>3, FS_Subset
<1>5. {u \in all : u < first} = {}
  <2>1. \A u \in all : u \in Int /\ first <= u
    BY <1>2
  <2>2. \A u \in all : ~(u < first)
    BY <2>1
  <2> QED BY <2>2
<1>6. Cardinality({u \in all : u < first}) = 0
  BY <1>5, FS_EmptySet
<1>7. first \in due
  BY <1>1, <1>2, <1>6, PlanFacts
<1>8. IsFiniteSet(due)
  BY <1>4, FS_Subset
<1> QED BY <1>1, <1>2, <1>4, <1>7, <1>8 DEF all, due

\* The instants before an earlier one are fewer.
LEMMA DueBefore ==
  ASSUME NEW all \in SUBSET Nat, IsFiniteSet(all), NEW t \in Nat, NEW h \in Nat, t <= h
  PROVE  /\ Cardinality({u \in all : u < t}) \in Nat
         /\ Cardinality({u \in all : u < h}) \in Nat
         /\ Cardinality({u \in all : u < t}) <= Cardinality({u \in all : u < h})
<1>1. {u \in all : u < t} \subseteq {u \in all : u < h} /\ {u \in all : u < h} \subseteq all
  <2>1. \A u \in all : u \in Nat
    OBVIOUS
  <2>2. \A u \in all : u < t => u < h
    BY <2>1
  <2> QED BY <2>2
<1>2. IsFiniteSet({u \in all : u < h})
  BY <1>1, FS_Subset
<1> QED BY <1>1, <1>2, FS_Subset, FS_CardinalityType

\* An instant that the batch leaves out lies behind all of a full batch.
LEMMA LeftOut ==
  ASSUME plan \in PlanSpace, NEW j, NEW first \in Nat, NEW horizon \in Nat,
         first <= horizon, NEW t \in first .. horizon, t = first \/ OnSchedule(j, t),
         t \notin DueTimes(j, first, horizon)
  PROVE  /\ Cardinality(DueTimes(j, first, horizon)) >= plan.limit
         /\ Highest(DueTimes(j, first, horizon)) < t
<1> DEFINE all == AllDue(j, first, horizon)
           due == DueTimes(j, first, horizon)
           before(x) == {u \in all : u < x}
<1>1. /\ due = {x \in all : Cardinality(before(x)) < plan.limit}
      /\ all \subseteq first .. horizon /\ IsFiniteSet(all) /\ IsFiniteSet(due)
      /\ due \subseteq first .. horizon /\ first \in due
  BY DueAre
<1>2. t \in all \ due
  BY DEF AllDue
<1> HIDE DEF all, due
<1>3. all \in SUBSET Nat /\ all \ due \in SUBSET Nat /\ all \ due # {}
  <2>1. \A u \in first .. horizon : u \in Nat
    OBVIOUS
  <2> QED BY <1>1, <1>2, <2>1
<1>4. PICK x \in all \ due : \A y \in all \ due : x <= y
  BY <1>3, HasLowest
<1>5. before(x) \subseteq due
  BY <1>3, <1>4
<1>6. Cardinality(before(x)) <= Cardinality(due) /\ Cardinality(due) \in Nat
  BY <1>1, <1>5, FS_Subset, FS_CardinalityType
<1>7. Cardinality(before(x)) >= plan.limit /\ Cardinality(before(x)) \in Nat
  <2>0. x \in Nat /\ x <= x
    BY <1>3
  <2>1. Cardinality(before(x)) \in Nat
    BY <1>1, <1>3, <2>0, DueBefore
  <2>2. ~(Cardinality(before(x)) < plan.limit)
    BY <1>1, <1>4
  <2> HIDE DEF before
  <2> QED BY <2>1, <2>2, PlanFacts
<1>8. Highest(due) \in due
  <2>1. due \in SUBSET (0 .. horizon) /\ due # {}
    BY <1>1
  <2> QED BY <2>1, HighestIs
<1>9. ~(t <= Highest(due))
  <2> SUFFICES ASSUME t <= Highest(due) PROVE FALSE
    OBVIOUS
  <2>0. \A u \in first .. horizon : u \in Nat
    OBVIOUS
  <2>1. Highest(due) \in Nat /\ t \in Nat
    BY <1>1, <1>8, <2>0
  <2>2. /\ Cardinality(before(t)) <= Cardinality(before(Highest(due)))
        /\ Cardinality(before(t)) \in Nat /\ Cardinality(before(Highest(due))) \in Nat
    BY <1>1, <1>3, <2>1, DueBefore
  <2>3. Cardinality(before(Highest(due))) < plan.limit
    BY <1>1, <1>8
  <2> HIDE DEF before
  <2>4. Cardinality(before(t)) < plan.limit
    BY <2>2, <2>3, PlanFacts
  <2> QED BY <1>1, <1>2, <2>4
<1>10. Cardinality(due) >= plan.limit
  BY <1>6, <1>7, PlanFacts
<1> QED BY <1>1, <1>8, <1>9, <1>10 DEF due

\* selectMisfires selects from the batch.
LEMMA SelectedAre ==
  ASSUME plan \in PlanSpace, NEW j, NEW bound \in Nat, NEW due \in SUBSET (0 .. bound)
  PROVE  Selected(j, due) \subseteq due
BY HighestIs, PlanFacts DEF Selected

LEMMA FollowingIs ==
  ASSUME plan \in PlanSpace, NEW j, NEW horizon \in Nat,
         NEW due \in SUBSET (0 .. horizon)
  PROVE  Following(j, due, horizon) \in Nat \cup {None}
<1>1. NextAt(j, horizon) \in Nat \cup {None}
  BY NextIs
<1>2. CASE due = {}
  <2>1. Cardinality(due) = 0
    BY <1>2, FS_EmptySet
  <2>2. ~(Cardinality(due) >= plan.limit)
    BY <2>1, PlanFacts
  <2> QED BY <1>1, <2>2 DEF Following
<1>3. CASE due # {}
  <2>0. \A u \in 0 .. horizon : u \in Nat
    OBVIOUS
  <2>1. Highest(due) \in Nat
    BY <1>3, <2>0, HighestIs
  <2>2. NextAt(j, Highest(due)) \in Nat \cup {None}
    BY <2>1, NextIs
  <2> QED BY <1>1, <2>2 DEF Following
<1> QED BY <1>2, <1>3

\* The schedule continues behind the batch and before whatever the batch left out.
LEMMA FollowingCovers ==
  ASSUME plan \in PlanSpace, NEW j, NEW first \in Nat, NEW horizon \in Nat,
         first <= horizon, NEW t \in Nat \ {0}, first <= t, OnSchedule(j, t),
         LET follow == Following(j, DueTimes(j, first, horizon), horizon)
         IN follow = None \/ t < follow
  PROVE  t \in DueTimes(j, first, horizon)
<1> DEFINE due == DueTimes(j, first, horizon)
           high == Highest(due)
           after == NextAt(j, high)
<1>1. /\ due \subseteq 0 .. horizon /\ first \in due
  BY DueAre
<1>2. high \in Nat /\ high <= horizon
  <2> HIDE DEF due
  <2>1. high \in 0 .. horizon
    BY <1>1, HighestIs
  <2> HIDE DEF high
  <2> QED BY <2>1
<1>3. CASE t > horizon
  <2>1. NextAt(j, horizon) # None /\ NextAt(j, horizon) <= t
    BY <1>3, NextIsNext
  <2>2. NextAt(j, horizon) \in Nat /\ NextAt(j, horizon) > horizon
    BY <2>1, NextIs
  <2>3. Following(j, due, horizon) = NextAt(j, horizon)
        \/ Following(j, due, horizon) <= horizon
    BY DEF Following
  <2>4. Following(j, due, horizon) \in Nat \cup {None}
    BY <1>1, FollowingIs
  <2>5. CASE Following(j, due, horizon) = NextAt(j, horizon)
    BY <2>1, <2>2, <2>5
  <2>6. CASE Following(j, due, horizon) # NextAt(j, horizon)
    <3>1. Following(j, due, horizon) = after /\ after # None /\ after <= horizon
      BY <2>6 DEF Following
    <3>2. after \in Nat
      BY <1>2, <3>1, NextIs
    <3> QED BY <1>3, <3>1, <3>2, ScheduleAssumption
  <2> QED BY <2>5, <2>6
<1>4. CASE t <= horizon
  <2> SUFFICES ASSUME t \notin due PROVE FALSE
    OBVIOUS
  <2>1. Cardinality(due) >= plan.limit /\ high < t
    BY <1>4, LeftOut
  <2>2. after # None /\ after <= t
    BY <1>2, <2>1, NextIsNext
  <2>3. after \in Nat
    BY <1>2, <2>2, NextIs
  <2>4. after <= horizon
    BY <1>4, <2>2, <2>3
  <2>5. Following(j, due, horizon) = after
    BY <2>1, <2>2, <2>4 DEF Following
  <2> QED BY <2>2, <2>3, <2>5, ScheduleAssumption
<1> QED BY <1>3, <1>4

\* A job that is due once is not due again.
LEMMA OnceIsOver ==
  ASSUME plan \in PlanSpace, OnceOnly, NEW j, NEW first \in Nat, NEW horizon \in Nat,
         first <= horizon, first = plan.schedule.every
  PROVE  Following(j, DueTimes(j, first, horizon), horizon) = None
<1> DEFINE due == DueTimes(j, first, horizon)
<1>1. due \subseteq first .. horizon /\ due \subseteq 0 .. horizon /\ first \in due
  BY DueAre
<1>2. Highest(due) \in due
  BY <1>1, HighestIs
<1>3. Highest(due) \in Nat /\ Highest(due) >= first
  BY <1>1, <1>2
<1>4. NextAt(j, Highest(due)) = None /\ NextAt(j, horizon) = None
  BY <1>3, PlanFacts DEF OnceOnly, NextAt
<1> QED BY <1>4 DEF Following
-----------------------------------------------------------------------------
(* What a tick does next *)

\* The tick tk goes on as u: it asks for an instant, or has none left.
Asks(tk, u, a) ==
  /\ u \in TickStates /\ a \in AdmStates
  /\ u.snap = tk.snap /\ u.todo = tk.todo /\ u.cur = tk.cur /\ u.follow = tk.follow
  /\ \/ /\ u.at = "work" /\ a.at = "admit" /\ a.e \in Executions
        /\ \E t \in Instants : /\ a.e = <<tk.cur, t>>
                               /\ tk.missed \cup tk.exec = u.missed \cup u.exec \cup {t}
     \/ /\ u.at = "persist" /\ a = IdleAdm
        /\ tk.missed = {} /\ tk.exec = {} /\ u.missed = {} /\ u.exec = {}

LEMMA RecordTypes ==
  /\ IdleAdm \in AdmStates /\ IdleAdm.at = "idle" /\ NoJob \in JobRows
  /\ IdleTick \in TickStates /\ IdleTick.at = "idle" /\ IdleTick.todo = {}
  /\ [IdleTick EXCEPT !.at = "arm"] \in TickStates
  /\ Fresh \in ExStates /\ NoRun \in RunRows
BY InstantFacts DEF IdleAdm, AdmStates, NoJob, JobRows, IdleTick, TickStates, Fresh,
   ExStates, NoRun, RunRows, Statuses

LEMMA WorkAsks ==
  ASSUME CronTypeOK, NEW o \in Owners, NEW tk \in TickStates, tk.cur \in Jobs,
         Work(o, tk)
  PROVE  \E u, a : /\ Asks(tk, u, a) /\ tick' = [tick EXCEPT ![o] = u]
                   /\ adm' = [adm EXCEPT ![<<o, "tick">>] = a]
<1>1. ASSUME NEW S \in SUBSET Instants, S # {}
      PROVE  Lowest(S) \in S /\ Lowest(S) \in Instants
  BY <1>1, InstantFacts, LowestIs
<1>2. tk.missed \in SUBSET Instants /\ tk.exec \in SUBSET Instants
  BY DEF TickStates
<1>3. ASSUME NEW t \in Instants, NEW u \in TickStates, NEW missed \in BOOLEAN,
             TickAsks(o, u, t, missed), u.at = "work",
             u.snap = tk.snap, u.todo = tk.todo, u.cur = tk.cur, u.follow = tk.follow,
             tk.missed \cup tk.exec = u.missed \cup u.exec \cup {t}
      PROVE  \E v, a : /\ Asks(tk, v, a) /\ tick' = [tick EXCEPT ![o] = v]
                       /\ adm' = [adm EXCEPT ![<<o, "tick">>] = a]
  <2> DEFINE a == [IdleAdm EXCEPT !.at = "admit", !.e = <<u.cur, t>>, !.missed = missed,
                     !.kind = IF u.many \/ (~missed /\ t < u.horizon) THEN "misfire"
                              ELSE "scheduled"]
  <2>1. a \in AdmStates /\ a.at = "admit" /\ a.e = <<tk.cur, t>> /\ a.e \in Executions
    BY <1>3 DEF IdleAdm, AdmStates, Executions
  <2>2. tick' = [tick EXCEPT ![o] = u] /\ adm' = [adm EXCEPT ![<<o, "tick">>] = a]
    BY <1>3 DEF TickAsks
  <2> HIDE DEF a
  <2>3. Asks(tk, u, a)
    BY <1>3, <2>1 DEF Asks
  <2> QED BY <2>2, <2>3
<1>4. CASE tk.missed # {}
  <2> DEFINE t == Lowest(tk.missed)
             u == [tk EXCEPT !.at = "work", !.missed = @ \ {Lowest(@)}]
  <2>1. t \in tk.missed /\ t \in Instants
    BY <1>1, <1>2, <1>4
  <2>2. u = [tk EXCEPT !.at = "work", !.missed = tk.missed \ {t}]
    OBVIOUS
  <2>3. TickAsks(o, u, t, TRUE)
    BY <1>4 DEF Work
  <2> HIDE DEF t, u
  <2>4. u \in TickStates /\ u.at = "work" /\ u.snap = tk.snap /\ u.todo = tk.todo
        /\ u.cur = tk.cur /\ u.follow = tk.follow
        /\ tk.missed \cup tk.exec = u.missed \cup u.exec \cup {t}
    BY <2>1, <2>2 DEF TickStates
  <2> QED BY <1>3, <2>1, <2>3, <2>4
<1>5. CASE tk.missed = {} /\ tk.exec # {}
  <2> DEFINE t == Lowest(tk.exec)
             u == [tk EXCEPT !.at = "work", !.exec = @ \ {Lowest(@)}]
  <2>1. t \in tk.exec /\ t \in Instants
    BY <1>1, <1>2, <1>5
  <2>2. u = [tk EXCEPT !.at = "work", !.exec = tk.exec \ {t}]
    OBVIOUS
  <2>3. TickAsks(o, u, t, FALSE)
    BY <1>5 DEF Work
  <2> HIDE DEF t, u
  <2>4. u \in TickStates /\ u.at = "work" /\ u.snap = tk.snap /\ u.todo = tk.todo
        /\ u.cur = tk.cur /\ u.follow = tk.follow
        /\ tk.missed \cup tk.exec = u.missed \cup u.exec \cup {t}
    BY <2>1, <2>2 DEF TickStates
  <2> QED BY <1>3, <2>1, <2>3, <2>4
<1>6. CASE tk.missed = {} /\ tk.exec = {}
  <2> DEFINE u == [tk EXCEPT !.at = "persist"]
  <2>1. tick' = [tick EXCEPT ![o] = u] /\ adm' = [adm EXCEPT ![<<o, "tick">>] = IdleAdm]
    BY <1>6 DEF Work
  <2>2. u \in TickStates /\ u.at = "persist" /\ u.snap = tk.snap /\ u.todo = tk.todo
        /\ u.cur = tk.cur /\ u.follow = tk.follow /\ u.missed = {} /\ u.exec = {}
    BY <1>6 DEF TickStates
  <2> HIDE DEF u
  <2>3. Asks(tk, u, IdleAdm)
    BY <1>6, <2>2, RecordTypes DEF Asks
  <2> QED BY <2>1, <2>3
<1> QED BY <1>4, <1>5, <1>6

\* The batch of a job holds every instant up to where the schedule will continue.
Batch(tk, mid, j) ==
  LET first == tk.snap[j].next IN
  /\ mid \in TickStates /\ mid.cur = j /\ mid.snap = tk.snap /\ mid.todo = tk.todo \ {j}
  /\ \A t \in Instants \ {0} :
       OnSchedule(j, t) /\ (mid.follow = None \/ t < mid.follow)
         => t \in mid.missed \cup mid.exec \/ first = None \/ t < first
  /\ OnceOnly /\ RowSound(tk.snap[j]) => mid.follow = None

\* The tick goes on to the next job that is due, if there is one.
Takes(tk, u, a) ==
  \/ /\ u \in TickStates /\ u.at \in {"arm", "idle"} /\ u.todo = {} /\ u.snap = IdleTick.snap
     /\ a = IdleAdm
  \/ \E j \in tk.todo, mid \in TickStates : Batch(tk, mid, j) /\ Asks(mid, u, a)

LEMMA BatchIs ==
  ASSUME CronTypeOK, NEW tk \in TickStates, NEW j \in tk.todo,
         DueRow(tk.snap[j], tk.horizon)
  PROVE  LET first == tk.snap[j].next
             due   == IF first = None THEN {} ELSE DueTimes(j, first, tk.horizon)
         IN Batch(tk, [tk EXCEPT !.todo = @ \ {j}, !.cur = j,
                         !.many = Cardinality(due) > 1,
                         !.missed = due \ Selected(j, due), !.exec = Selected(j, due),
                         !.follow = IF first = None THEN NextAt(j, tk.horizon)
                                    ELSE Following(j, due, tk.horizon)], j)
<1> DEFINE first == tk.snap[j].next
           due == IF first = None THEN {} ELSE DueTimes(j, first, tk.horizon)
           sel == Selected(j, due)
           follow == IF first = None THEN NextAt(j, tk.horizon)
                     ELSE Following(j, due, tk.horizon)
           many == Cardinality(due) > 1
           mid == [tk EXCEPT !.todo = @ \ {j}, !.cur = j, !.many = many,
                             !.missed = due \ sel, !.exec = sel, !.follow = follow]
<1>1. /\ plan \in PlanSpace /\ j \in Jobs /\ tk.todo \subseteq Jobs /\ tk.horizon \in Instants
      /\ tk.horizon \in Nat /\ tk.snap[j] \in JobRows /\ first \in Nat \cup {None}
  BY InstantFacts DEF CronTypeOK, TickStates, JobRows
<1>2. first # None => first \in Nat /\ first <= tk.horizon
  BY <1>1 DEF DueRow
<1>3. due \subseteq 0 .. tk.horizon
  <2>1. CASE first = None
    BY <2>1
  <2>2. CASE first # None
    <3>1. DueTimes(j, first, tk.horizon) \subseteq first .. tk.horizon
      BY <1>1, <1>2, <2>2, DueAre
    <3>2. first .. tk.horizon \subseteq 0 .. tk.horizon
      BY <1>1, <1>2, <2>2
    <3> QED BY <2>2, <3>1, <3>2
  <2> QED BY <2>1, <2>2
<1>4. 0 .. tk.horizon \subseteq Instants
  BY <1>1, ScheduleAssumption DEF Instants
<1>5. sel \subseteq due
  BY <1>1, <1>3, SelectedAre
<1>6. follow \in Nat \cup {None}
  BY <1>1, <1>3, FollowingIs, NextIs
<1>7. many \in BOOLEAN
  OBVIOUS
<1>8. ASSUME NEW t \in Instants \ {0}, OnSchedule(j, t), follow = None \/ t < follow,
             first # None, ~(t < first)
      PROVE  t \in due
  <2>1. t \in Nat \ {0} /\ first <= t
    <3>1. t \in Nat /\ t # 0 /\ first \in Nat /\ ~(t < first)
      BY <1>2, <1>8, InstantFacts
    <3> HIDE DEF first
    <3> QED BY <3>1
  <2>2. follow = Following(j, DueTimes(j, first, tk.horizon), tk.horizon)
    BY <1>8
  <2> HIDE DEF follow
  <2> QED BY <1>1, <1>2, <1>8, <2>1, <2>2, FollowingCovers
<1>9. OnceOnly /\ RowSound(tk.snap[j]) => follow = None
  <2> SUFFICES ASSUME OnceOnly, RowSound(tk.snap[j]) PROVE follow = None
    OBVIOUS
  <2>1. first = plan.schedule.every
    BY DEF RowSound, DueRow
  <2>2. first # None
    BY <1>1, <2>1, PlanFacts, ScheduleAssumption
  <2> QED BY <1>1, <1>2, <2>1, <2>2, OnceIsOver
<1> HIDE DEF follow, sel, due, many
<1>10. /\ mid \in TickStates /\ mid.cur = j /\ mid.snap = tk.snap
       /\ mid.todo = tk.todo \ {j} /\ mid.missed \cup mid.exec = due
       /\ mid.follow = follow
  BY <1>1, <1>3, <1>4, <1>5, <1>6, <1>7 DEF TickStates
<1> HIDE DEF mid
<1>11. Batch(tk, mid, j)
  BY <1>8, <1>9, <1>10 DEF Batch
<1> QED BY <1>11 DEF mid, follow, sel, due, many

LEMMA NextJobTakes ==
  ASSUME CronTypeOK, NEW o \in Owners, NEW tk \in TickStates, NextJob(o, tk)
  PROVE  \E u, a : /\ Takes(tk, u, a) /\ tick' = [tick EXCEPT ![o] = u]
                   /\ adm' = [adm EXCEPT ![<<o, "tick">>] = a]
<1> DEFINE u == IF leader[o] /\ ~stopped[o]
                THEN [IdleTick EXCEPT !.at = "arm", !.timed = tk.timed] ELSE IdleTick
<1>1. CASE /\ tick' = [tick EXCEPT ![o] = u]
           /\ adm' = [adm EXCEPT ![<<o, "tick">>] = IdleAdm]
  <2>1. /\ u \in TickStates /\ u.at \in {"arm", "idle"} /\ u.todo = {}
        /\ u.snap = IdleTick.snap
    BY InstantFacts DEF IdleTick, TickStates, NoJob, JobRows
  <2> HIDE DEF u
  <2> QED BY <1>1, <2>1 DEF Takes
<1>2. ASSUME NEW j \in tk.todo, NEW mid, DueRow(tk.snap[j], tk.horizon),
             Batch(tk, mid, j), Work(o, mid)
      PROVE  \E v, a : /\ Takes(tk, v, a) /\ tick' = [tick EXCEPT ![o] = v]
                       /\ adm' = [adm EXCEPT ![<<o, "tick">>] = a]
  <2>1. mid \in TickStates /\ mid.cur \in Jobs
    BY <1>2 DEF Batch, TickStates
  <2> QED BY <1>2, <2>1, WorkAsks DEF Takes
<1> QED BY <1>1, <1>2, BatchIs DEF NextJob
-----------------------------------------------------------------------------
(* What a step can do to a tick and to the callers of an admission *)

\* An execution that is new, and that nobody waits for, may wait.
Awaits(o, w) ==
  LET e == adm[<<o, w>>].e IN
  /\ ex[e].at \in {"none", "over"} /\ run[e].status = "none"
  /\ \A x \in Owners \X Callers : adm[x].at = "replace" => adm[x].e # e
  /\ \A x \in (Owners \X Callers) \ {<<o, w>>} : adm'[x] = adm[x]
  /\ \A c \in Executions : ex'[c].at = ex[c].at

\* An admission under way goes on to the next of its calls.
Decided(o, w, a) ==
  /\ adm[<<o, w>>].at = "admit" /\ a \in AdmStates /\ a.e = adm[<<o, w>>].e
  /\ a.at = "put" \/ (a.at = "replace" /\ a.old \in Executions /\ Awaits(o, w))

\* It ends, it fails, or the row is written and it goes on.
AdmissionMoves(o, w) ==
  /\ adm[<<o, w>>].at \in {"admit", "put", "replace"}
  /\ \/ CallerFails(o, w)
     \/ /\ adm[<<o, w>>].at = "admit" => run'[adm[<<o, w>>].e].status # "none"
        /\ \/ CallerNext(o, w)
           \/ \E a : /\ Decided(o, w, a) /\ adm' = [adm EXCEPT ![<<o, w>>] = a]
                     /\ UNCHANGED <<tick, wake>>

LEMMA Indices ==
  /\ \A o \in Owners, w \in Callers : <<o, w>> \in Owners \X Callers
  /\ \A o \in Owners, j \in Jobs : <<o, j>> \in Owners \X Jobs
  /\ \A e \in Executions : e[1] \in Jobs /\ e[2] \in Instants /\ e = <<e[1], e[2]>>
  /\ \A x \in Owners \X Callers : x[1] \in Owners /\ x[2] \in Callers /\ x = <<x[1], x[2]>>
  /\ "tick" \in Callers /\ "user" \in Callers /\ Callers = {"tick", "user"}
BY DEF Executions, Callers

LEMMA TypeFacts ==
  ASSUME CronTypeOK
  PROVE  /\ plan \in PlanSpace /\ now \in Instants /\ now \in Nat
         /\ \A o \in Owners, w \in Callers :
              /\ adm[<<o, w>>] \in AdmStates
              /\ adm[<<o, w>>].at # "idle" => adm[<<o, w>>].e \in Executions
              /\ adm[<<o, w>>].at = "replace" => adm[<<o, w>>].old \in Executions
         /\ \A o \in Owners, j \in Jobs : /\ chain[<<o, j>>] \in Seq(Executions)
                                          /\ active[<<o, j>>] \in Executions \cup {None}
         /\ \A e \in Executions : /\ run[e] \in RunRows /\ ex[e] \in ExStates
                                  /\ ex[e].at = "ending" => ex[e].status # "none"
                                  /\ dispatched[e] \in Nat
         /\ \A j \in Jobs : job[j] \in JobRows
         /\ \A o \in Owners : tick[o] \in TickStates
         /\ DOMAIN ex = Executions /\ DOMAIN run = Executions /\ DOMAIN tick = Owners
         /\ DOMAIN job = Jobs /\ DOMAIN adm = Owners \X Callers
         /\ DOMAIN chain = Owners \X Jobs /\ DOMAIN dispatched = Executions
         /\ DOMAIN active = Owners \X Jobs
<1>1. plan \in PlanSpace /\ now \in Instants /\ now \in Nat
  <2>1. plan \in PlanSpace /\ now \in 0 .. plan.horizon
    BY DEF CronTypeOK
  <2>2. plan.horizon \in 0 .. Horizon
    BY <2>1, PlanFacts DEF Instants
  <2>3. 0 .. plan.horizon \subseteq 0 .. Horizon /\ 0 .. plan.horizon \subseteq Nat
    BY <2>2, ScheduleAssumption
  <2> QED BY <2>1, <2>3 DEF Instants
<1>2. \A o \in Owners, w \in Callers :
        /\ adm[<<o, w>>] \in AdmStates
        /\ adm[<<o, w>>].at # "idle" => adm[<<o, w>>].e \in Executions
        /\ adm[<<o, w>>].at = "replace" => adm[<<o, w>>].old \in Executions
  BY Indices DEF CronTypeOK
<1>3. \A o \in Owners, j \in Jobs : /\ chain[<<o, j>>] \in Seq(Executions)
                                    /\ active[<<o, j>>] \in Executions \cup {None}
  BY Indices DEF CronTypeOK
<1> QED BY <1>1, <1>2, <1>3 DEF CronTypeOK

LEMMA AdmitMoves ==
  ASSUME CronTypeOK, NEW o \in Owners, NEW w \in Callers, NEW r \in Replies,
         Admit(o, w, r)
  PROVE  AdmissionMoves(o, w)
<1> DEFINE e == adm[<<o, w>>].e
           a == adm[<<o, w>>]
           d == active[<<o, e[1]>>]
<1>1. a.at = "admit" /\ a \in AdmStates /\ e \in Executions /\ run[e] \in RunRows
      /\ DOMAIN run = Executions /\ d \in Executions \cup {None} /\ DOMAIN adm = Owners \X Callers
      /\ <<o, w>> \in Owners \X Callers /\ DOMAIN ex = Executions
      /\ \A c \in Executions : ex[c] \in ExStates
  BY TypeFacts, Indices DEF Admit
<1>2. CASE CallerFails(o, w)
  BY <1>1, <1>2 DEF AdmissionMoves
<1>3. CASE r = "ok" /\ job[e[1]].present
  <2>1. run'[e].status # "none"
    <3>1. CASE Inserted(e)
      BY <1>1, <1>3, <3>1 DEF Admit, Applied
    <3>2. CASE ~Inserted(e)
      BY <1>3, <3>2 DEF Admit, Inserted
    <3> QED BY <3>1, <3>2
  <2>2. CASE CallerNext(o, w)
    BY <1>1, <2>1, <2>2 DEF AdmissionMoves
  <2>3. CASE CallerWaits(o, w, "put")
    <3> DEFINE b == [a EXCEPT !.at = "put"]
    <3>1. adm' = [adm EXCEPT ![<<o, w>>] = b] /\ UNCHANGED <<tick, wake>>
      BY <1>1, <2>3 DEF CallerWaits
    <3>2. b \in AdmStates /\ b.at = "put" /\ b.e = e
      BY <1>1 DEF AdmStates
    <3> HIDE DEF b
    <3>3. Decided(o, w, b)
      BY <1>1, <3>2 DEF Decided
    <3> QED BY <1>1, <2>1, <3>1, <3>3 DEF AdmissionMoves
  <2>4. CASE /\ adm' = [adm EXCEPT ![<<o, w>>].at = "replace", ![<<o, w>>].old = d]
             /\ UNCHANGED <<tick, wake>> /\ d # None
             /\ Inserted(e) /\ ex' = [ex EXCEPT ![d].cancel = TRUE]
    <3> DEFINE b == [a EXCEPT !.at = "replace", !.old = d]
    <3>1. adm' = [adm EXCEPT ![<<o, w>>] = b] /\ UNCHANGED <<tick, wake>>
      BY <1>1, <2>4
    <3>2. b \in AdmStates /\ b.at = "replace" /\ b.e = e /\ b.old \in Executions
      BY <1>1, <2>4 DEF AdmStates
    <3> HIDE DEF b
    <3>3. \A c \in Executions : ex'[c].at = ex[c].at
      <4>1. \A c \in Executions : ex'[c] = ex[c] \/ ex'[c] = [ex[c] EXCEPT !.cancel = TRUE]
        BY <1>1, <2>4
      <4> QED BY <1>1, <4>1 DEF ExStates
    <3>4. \A x \in (Owners \X Callers) \ {<<o, w>>} : adm'[x] = adm[x]
      BY <1>1, <3>1
    <3>5. /\ ex[e].at \in {"none", "over"} /\ run[e].status = "none"
          /\ \A x \in Owners \X Callers : adm[x].at = "replace" => adm[x].e # e
      BY <2>4 DEF Admit, Inserted
    <3>6. Awaits(o, w)
      BY <3>3, <3>4, <3>5 DEF Awaits
    <3>7. Decided(o, w, b)
      BY <1>1, <3>2, <3>6 DEF Decided
    <3> QED BY <1>1, <2>1, <3>1, <3>7 DEF AdmissionMoves
  <2> QED BY <1>2, <1>3, <2>2, <2>3, <2>4 DEF Admit
<1> QED BY <1>2, <1>3 DEF Admit

LEMMA AdmissionsMove ==
  ASSUME CronTypeOK, NEW o \in Owners, NEW w \in Callers, NEW r \in Replies,
         Admit(o, w, r) \/ PutMissed(o, w, r) \/ Replaced(o, w)
  PROVE  AdmissionMoves(o, w)
<1>1. CASE Admit(o, w, r)
  BY <1>1, AdmitMoves
<1>2. CASE PutMissed(o, w, r)
  BY <1>2 DEF PutMissed, AdmissionMoves
<1>3. CASE Replaced(o, w)
  BY <1>3 DEF Replaced, AdmissionMoves
<1> QED BY <1>1, <1>2, <1>3

\* The row and the instants of a job that the tick has listed.
Listed(tk) == [tk EXCEPT !.snap = job, !.todo = Jobs, !.horizon = now]

LEMMA ListedTyped ==
  ASSUME CronTypeOK, NEW o \in Owners
  PROVE  Listed(tick[o]) \in TickStates
<1>1. tick[o] \in TickStates /\ job \in [Jobs -> JobRows] /\ now \in Instants
  BY TypeFacts DEF CronTypeOK
<1>2. ASSUME NEW tk \in TickStates
      PROVE  [tk EXCEPT !.snap = job, !.todo = Jobs, !.horizon = now] \in TickStates
  BY <1>1 DEF TickStates
<1> QED BY <1>1, <1>2 DEF Listed

\* What a step can make of the tick of o and its admission.
TickTo(o, u, a) ==
  \/ u = tick[o] /\ a = adm[<<o, "tick">>]
  \/ /\ a = adm[<<o, "tick">>] /\ \E b \in BOOLEAN :
          \/ u = [tick[o] EXCEPT !.timed = b]
          \/ tick[o].at = "idle" /\ u = [tick[o] EXCEPT !.at = "list", !.timed = b]
  \/ u = IdleTick /\ a \in AdmStates /\ a.at = "idle"
  \/ tick[o].at = "list" /\ Takes(Listed(tick[o]), u, a) /\ UNCHANGED <<job, run, plan.edited>>
  \/ tick[o].at = "persist" /\ (\E r \in Replies : TickPersist(o, r)) /\ Takes(tick[o], u, a)
  \/ /\ adm[<<o, "tick">>].at # "idle"
     /\ adm[<<o, "tick">>].at = "admit" => run'[adm[<<o, "tick">>].e].status # "none"
     /\ Asks(tick[o], u, a) \/ (u = tick[o] /\ Decided(o, "tick", a))

TickMoves(o) == TickTo(o, tick'[o], adm'[<<o, "tick">>])

\* A user's call is refused, waits, or is over.
UserMoves(o) ==
  LET a == adm'[<<o, "user">>] IN
  \/ a = adm[<<o, "user">>] \/ a = IdleAdm
  \/ adm[<<o, "user">>].at = "idle" /\ a \in AdmStates /\ a.at = "admit" /\ a.e \in Executions
  \/ Decided(o, "user", a)

LEMMA TicksMove ==
  ASSUME CronTypeOK, [CronNext]_vars, NEW o \in Owners
  PROVE  TickMoves(o)
<1> DEFINE x == <<o, "tick">>
<1>0. /\ DOMAIN tick = Owners /\ DOMAIN adm = Owners \X Callers /\ x \in Owners \X Callers
      /\ tick[o] \in TickStates /\ adm[x] \in AdmStates
      /\ tick[o].timed \in BOOLEAN
      /\ adm[x].at # "idle" => tick[o].at = "work" /\ tick[o].cur \in Jobs
      /\ tick[o].at = "persist" => tick[o].cur \in Jobs
      /\ TRUE \in BOOLEAN /\ x = <<o, "tick">>
  BY TypeFacts, Indices DEF CronTypeOK, TickStates
<1> HIDE DEF x
<1>a. ASSUME UNCHANGED <<tick, adm>> PROVE TickMoves(o)
  BY <1>0, <1>a DEF TickMoves, TickTo
<1>b. ASSUME NEW p \in Owners, p # o, NEW u, tick' = [tick EXCEPT ![p] = u],
             adm' = adm \/ \E a : adm' = [adm EXCEPT ![<<p, "tick">>] = a]
      PROVE  TickMoves(o)
  <2>1. <<p, "tick">> # x
    BY <1>0, <1>b
  <2> QED BY <1>0, <1>b, <2>1 DEF TickMoves, TickTo
<1>c. ASSUME NEW p \in Owners, TickFails(p) PROVE TickMoves(o)
  <2>1. CASE p = o
    <3>1. tick'[o] = IdleTick /\ adm'[x] = IdleAdm
      BY <1>0, <1>c, <2>1 DEF TickFails
    <3> QED BY <1>0, <3>1, RecordTypes DEF TickMoves, TickTo
  <2>2. CASE p # o
    BY <1>b, <1>c, <2>2 DEF TickFails
  <2> QED BY <2>1, <2>2
<1>1. CASE UNCHANGED vars
  BY <1>1, <1>a DEF vars
<1>2. ASSUME NEW p \in Owners, NEW r \in Replies, Renewed(p, r) PROVE TickMoves(o)
  <2>1. CASE UNCHANGED tick
    BY <1>2, <1>a, <2>1 DEF Renewed
  <2>2. CASE tick[p].at = "idle" /\ tick' = [tick EXCEPT ![p].at = "list"]
    <3>1. CASE p = o
      <4>1. tick'[o] = [tick[o] EXCEPT !.at = "list"]
        BY <1>0, <2>2, <3>1
      <4>2. tick'[o] = [tick[o] EXCEPT !.at = "list", !.timed = tick[o].timed]
        BY <1>0, <4>1 DEF TickStates
      <4> QED BY <1>0, <1>2, <2>2, <3>1, <4>2 DEF TickMoves, TickTo, Renewed
    <3>2. CASE p # o
      BY <1>b, <1>2, <2>2, <3>2 DEF Renewed
    <3> QED BY <3>1, <3>2
  <2> QED BY <1>2, <2>1, <2>2 DEF Renewed
<1>3. ASSUME NEW p \in Owners, TickStart(p) PROVE TickMoves(o)
  <2>1. CASE UNCHANGED tick
    BY <1>3, <1>a, <2>1 DEF TickStart
  <2>2. CASE tick' = [tick EXCEPT ![p].at = IF @ = "idle" THEN "list" ELSE @,
                                  ![p].timed = TRUE]
    <3>1. CASE p = o
      <4>1. tick'[o] = [tick[o] EXCEPT !.at = IF tick[o].at = "idle" THEN "list"
                                              ELSE tick[o].at, !.timed = TRUE]
        BY <1>0, <2>2, <3>1
      <4>2. CASE tick[o].at = "idle"
        BY <1>0, <1>3, <4>1, <4>2 DEF TickMoves, TickTo, TickStart
      <4>3. CASE tick[o].at # "idle"
        <5>1. tick'[o] = [tick[o] EXCEPT !.timed = TRUE]
          BY <1>0, <4>1, <4>3 DEF TickStates
        <5> QED BY <1>0, <1>3, <5>1 DEF TickMoves, TickTo, TickStart
      <4> QED BY <4>2, <4>3
    <3>2. CASE p # o
      <4>1. tick'[o] = tick[o] /\ adm' = adm
        BY <1>0, <1>3, <2>2, <3>2 DEF TickStart
      <4> QED BY <1>0, <4>1 DEF TickMoves, TickTo
    <3> QED BY <3>1, <3>2
  <2> QED BY <1>3, <2>1, <2>2 DEF TickStart
<1>4. ASSUME NEW p \in Owners, NEW r \in Replies, TickArm(p, r) PROVE TickMoves(o)
  <2>1. CASE TickFails(p)
    BY <1>c, <2>1
  <2>2. CASE tick' = [tick EXCEPT ![p] = IdleTick] /\ UNCHANGED adm
    <3>1. CASE p = o
      <4>1. adm[x].at = "idle"
        BY <1>0, <1>4, <3>1 DEF TickArm
      <4> QED BY <1>0, <2>2, <3>1, <4>1 DEF TickMoves, TickTo
    <3>2. CASE p # o
      BY <1>b, <2>2, <3>2
    <3> QED BY <3>1, <3>2
  <2> QED BY <1>4, <2>1, <2>2 DEF TickArm
<1>5. ASSUME NEW p \in Owners, NEW tk \in TickStates, NextJob(p, tk)
      PROVE  \/ p # o /\ TickMoves(o)
             \/ p = o /\ Takes(tk, tick'[o], adm'[x])
  <2>1. PICK u, a : /\ Takes(tk, u, a) /\ tick' = [tick EXCEPT ![p] = u]
                    /\ adm' = [adm EXCEPT ![<<p, "tick">>] = a]
    BY <1>5, NextJobTakes
  <2>2. CASE p = o
    BY <1>0, <2>1, <2>2
  <2>3. CASE p # o
    BY <1>b, <2>1, <2>3
  <2> QED BY <2>2, <2>3
<1>6. ASSUME NEW p \in Owners, NEW r \in Replies, TickList(p, r) PROVE TickMoves(o)
  <2>1. CASE TickFails(p)
    BY <1>c, <2>1
  <2>2. CASE r = "ok" /\ NextJob(p, [tick[p] EXCEPT !.snap = job, !.todo = Jobs,
                                                    !.horizon = now])
    <3>1. Listed(tick[p]) \in TickStates
      BY ListedTyped
    <3>2. NextJob(p, Listed(tick[p]))
      BY <2>2 DEF Listed
    <3>3. plan' = plan
      BY <1>6, <2>2 DEF TickList, Answered
    <3>4. plan'.edited = plan.edited
      BY <3>3
    <3>5. tick[p].at = "list" /\ UNCHANGED <<job, run>>
      BY <1>6 DEF TickList, store
    <3>6. \/ p # o /\ TickMoves(o)
          \/ p = o /\ Takes(Listed(tick[p]), tick'[o], adm'[x])
      BY <1>5, <3>1, <3>2
    <3> QED BY <1>0, <3>4, <3>5, <3>6 DEF TickMoves, TickTo
  <2> QED BY <1>6, <2>1, <2>2 DEF TickList
<1>7. ASSUME NEW p \in Owners, NEW r \in Replies, TickPersist(p, r) PROVE TickMoves(o)
  <2>1. CASE TickFails(p)
    BY <1>c, <2>1
  <2>2. CASE NextJob(p, tick[p])
    <3>1. tick[p] \in TickStates /\ tick[p].at = "persist"
      BY <1>7, TypeFacts DEF TickPersist
    <3> QED BY <1>0, <1>5, <1>7, <2>2, <3>1 DEF TickMoves, TickTo
  <2> QED BY <1>7, <2>1, <2>2 DEF TickPersist
<1>8. ASSUME NEW p \in Owners, NEW w \in Callers, NEW r \in Replies,
             Admit(p, w, r) \/ PutMissed(p, w, r) \/ Replaced(p, w)
      PROVE  TickMoves(o)
  <2>1. AdmissionMoves(p, w)
    BY <1>8, AdmissionsMove
  <2>2. <<p, w>> \in Owners \X Callers /\ (<<p, w>> = x <=> p = o /\ w = "tick")
    BY <1>0
  <2>3. CASE w = "user"
    <3>1. PICK a : adm' = [adm EXCEPT ![<<p, w>>] = a] /\ UNCHANGED <<tick, wake>>
      BY <2>1, <2>3 DEF AdmissionMoves, CallerFails, CallerNext
    <3>2. tick'[o] = tick[o] /\ adm'[x] = adm[x]
      BY <1>0, <2>2, <2>3, <3>1
    <3> QED BY <1>0, <3>2 DEF TickMoves, TickTo
  <2>4. CASE w = "tick" /\ CallerFails(p, w)
    BY <1>c, <2>4 DEF CallerFails
  <2>5. CASE w = "tick" /\ CallerNext(p, w) /\ ~CallerFails(p, w)
    <3>1. tick[p].cur \in Jobs /\ tick[p] \in TickStates
      BY <2>1, <2>5, TypeFacts DEF AdmissionMoves, CronTypeOK
    <3>2. Work(p, tick[p])
      BY <2>5 DEF CallerNext
    <3>3. PICK u, a : /\ Asks(tick[p], u, a) /\ tick' = [tick EXCEPT ![p] = u]
                      /\ adm' = [adm EXCEPT ![<<p, "tick">>] = a]
      BY <3>1, <3>2, WorkAsks
    <3>4. CASE p = o
      <4>1. tick'[o] = u /\ adm'[x] = a
        BY <1>0, <3>3, <3>4
      <4>2. /\ adm[x].at # "idle"
            /\ adm[x].at = "admit" => run'[adm[x].e].status # "none"
        <5>1. CASE adm[<<p, w>>].at = "admit" => run'[adm[<<p, w>>].e].status # "none"
          BY <1>0, <2>1, <2>5, <3>4, <5>1 DEF AdmissionMoves
        <5> QED BY <2>1, <2>5, <5>1 DEF AdmissionMoves
      <4> QED BY <1>0, <3>3, <3>4, <4>1, <4>2 DEF TickMoves, TickTo
    <3>5. CASE p # o
      BY <1>b, <3>3, <3>5
    <3> QED BY <3>4, <3>5
  <2>6. ASSUME w = "tick", NEW a, Decided(p, w, a), adm' = [adm EXCEPT ![<<p, w>>] = a],
               UNCHANGED tick, run'[adm[<<p, w>>].e].status # "none"
        PROVE  TickMoves(o)
    <3>1. CASE p = o
      <4>1. tick'[o] = tick[o] /\ adm'[x] = a
        BY <1>0, <2>6, <3>1
      <4>2. adm[x].at = "admit" /\ Decided(o, "tick", a) /\ run'[adm[x].e].status # "none"
        BY <1>0, <2>6, <3>1 DEF Decided
      <4> QED BY <1>0, <4>1, <4>2 DEF TickMoves, TickTo
    <3>2. CASE p # o
      <4>1. tick'[o] = tick[o] /\ adm'[x] = adm[x]
        BY <1>0, <2>2, <2>6, <3>2
      <4> QED BY <1>0, <4>1 DEF TickMoves, TickTo
    <3> QED BY <3>1, <3>2
  <2>7. w = "tick" \/ w = "user"
    BY Indices
  <2>8. CASE w = "tick"
    BY <2>1, <2>4, <2>5, <2>6, <2>8 DEF AdmissionMoves, Decided
  <2> QED BY <2>3, <2>7, <2>8
<1>9. ASSUME NEW p \in Owners, NEW j \in Jobs, Trigger(p, j) PROVE TickMoves(o)
  <2>1. <<p, "user">> # x
    BY <1>0
  <2>2. tick'[o] = tick[o] /\ adm'[x] = adm[x]
    BY <1>0, <1>9, <2>1 DEF Trigger
  <2> QED BY <1>0, <2>2 DEF TickMoves, TickTo
<1>10. ASSUME NEW p \in Owners, MainCrash(p) PROVE TickMoves(o)
  <2>1. CASE p = o
    <3>1. tick'[o] = IdleTick /\ adm'[x] = IdleAdm
      BY <1>0, <1>10, <2>1 DEF MainCrash
    <3> QED BY <1>0, <3>1, RecordTypes DEF TickMoves, TickTo
  <2>2. CASE p # o
    <3>1. tick'[o] = tick[o] /\ adm'[x] = adm[x]
      BY <1>0, <1>10, <2>2 DEF MainCrash
    <3> QED BY <1>0, <3>1 DEF TickMoves, TickTo
  <2> QED BY <2>1, <2>2
<1>11. ASSUME NEW p \in Owners, \/ Start(p) \/ RenewTimer(p) \/ Stop(p) \/ StopCancelled(p)
                                \/ StopTails(p) \/ \E r \in Replies : Release(p, r)
       PROVE  TickMoves(o)
  BY <1>11, <1>a DEF Start, RenewTimer, Stop, StopCancelled, StopTails, Release
<1>12. ASSUME NEW e \in Executions,
              RunStep(e) \/ CancelStep(e) \/ Timeout(e) \/ Cancel(e)
                \/ \E p \in {"active", "ok", "failed"} : PromptAdvances(e, p)
       PROVE  TickMoves(o)
  BY <1>12, <1>a DEF RunStep, Begin, Running, Ended, Settled, TimedOut, Deliver, CancelStep,
     CancelWaited, CancelPut, Timeout, Cancel, PromptAdvances
<1>13. ASSUME \/ \E j \in Jobs : EditRead(j) \/ Delete(j) \/ Foreign(j)
              \/ \E enabled \in BOOLEAN, r \in Replies : EditWrite(enabled, r)
              \/ Clock \/ DataCrash
       PROVE  TickMoves(o)
  BY <1>13, <1>a DEF EditRead, Delete, Foreign, EditWrite, Clock, DataCrash
<1> HIDE DEF TickMoves
<1>14. "ok" \in Replies
  BY DEF Replies
<1>15. ASSUME NEW p \in Owners, OwnerStep(p) PROVE TickMoves(o)
  BY <1>2, <1>4, <1>6, <1>7, <1>8, <1>11, <1>14, <1>15 DEF OwnerStep
<1> QED BY <1>1, <1>3, <1>9, <1>10, <1>11, <1>12, <1>13, <1>15 DEF CronNext

LEMMA UsersMove ==
  ASSUME CronTypeOK, [CronNext]_vars, NEW o \in Owners
  PROVE  UserMoves(o)
<1> DEFINE x == <<o, "user">>
<1>0. /\ DOMAIN adm = Owners \X Callers /\ x \in Owners \X Callers /\ adm[x] \in AdmStates
      /\ x = <<o, "user">> /\ \A p \in Owners : <<p, "tick">> # x
      /\ now \in Instants
  BY TypeFacts, Indices
<1> HIDE DEF x
<1>a. ASSUME adm'[x] = adm[x] PROVE UserMoves(o)
  BY <1>0, <1>a DEF UserMoves
<1>b. ASSUME NEW p \in Owners, \/ UNCHANGED adm \/ TickFails(p)
                               \/ \E a : adm' = [adm EXCEPT ![<<p, "tick">>] = a]
      PROVE  UserMoves(o)
  BY <1>0, <1>a, <1>b DEF TickFails
<1>1. CASE UNCHANGED vars
  BY <1>1, <1>a DEF vars
<1>2. ASSUME NEW p \in Owners, NEW tk \in TickStates, NextJob(p, tk) PROVE UserMoves(o)
  BY <1>2, <1>b, NextJobTakes
<1>3. ASSUME NEW p \in Owners, NEW r \in Replies,
             Renewed(p, r) \/ TickArm(p, r) \/ TickStart(p) \/ TickList(p, r)
               \/ TickPersist(p, r)
      PROVE  UserMoves(o)
  <2>1. tick[p] \in TickStates /\ Listed(tick[p]) \in TickStates
    BY TypeFacts, ListedTyped
  <2>2. CASE UNCHANGED adm \/ TickFails(p)
    BY <1>b, <2>2
  <2>3. CASE NextJob(p, tick[p]) \/ NextJob(p, Listed(tick[p]))
    BY <1>2, <2>1, <2>3
  <2> QED BY <1>3, <2>2, <2>3 DEF Renewed, TickArm, TickStart, TickList, TickPersist, Listed
<1>4. ASSUME NEW p \in Owners, NEW w \in Callers, NEW r \in Replies,
             Admit(p, w, r) \/ PutMissed(p, w, r) \/ Replaced(p, w)
      PROVE  UserMoves(o)
  <2>1. AdmissionMoves(p, w)
    BY <1>4, AdmissionsMove
  <2>2. CASE w = "tick"
    <3>1. CASE CallerFails(p, w)
      BY <1>b, <2>2, <3>1 DEF CallerFails
    <3>2. CASE CallerNext(p, w)
      <4>1. tick[p].cur \in Jobs /\ tick[p] \in TickStates
        BY <2>1, <2>2, TypeFacts DEF AdmissionMoves, CronTypeOK
      <4> QED BY <1>b, <2>2, <3>2, <4>1, WorkAsks DEF CallerNext
    <3> QED BY <1>b, <2>1, <2>2, <3>1, <3>2 DEF AdmissionMoves
  <2>3. CASE w = "user" /\ p # o
    <3>1. <<p, w>> # x
      BY <1>0, <2>3
    <3> QED BY <1>0, <1>a, <2>1, <2>3, <3>1 DEF AdmissionMoves, CallerFails, CallerNext
  <2>4. CASE w = "user" /\ p = o
    BY <1>0, <2>1, <2>4 DEF AdmissionMoves, CallerFails, CallerNext, UserMoves
  <2> QED BY <2>2, <2>3, <2>4, Indices
<1>5. ASSUME NEW p \in Owners, NEW j \in Jobs, Trigger(p, j) PROVE UserMoves(o)
  <2>1. CASE p # o
    <3>1. <<p, "user">> # x
      BY <1>0, <2>1
    <3> QED BY <1>0, <1>a, <1>5, <3>1 DEF Trigger
  <2>2. CASE p = o
    <3> DEFINE t == IF cursor[o] + 1 > now THEN cursor[o] + 1 ELSE now
    <3>1. t \in Instants
      <4>1. cursor[o] \in Int /\ now \in 0 .. Horizon /\ t <= plan.horizon
            /\ plan.horizon \in 0 .. Horizon
        BY <1>0, <1>5, <2>2, TypeFacts, PlanFacts DEF Trigger, CronTypeOK, Instants
      <4> QED BY <4>1, ScheduleAssumption DEF Instants
    <3>2. adm'[x] = [adm[x] EXCEPT !.at = "admit", !.e = <<j, t>>, !.kind = "manual"]
          /\ adm[x].at = "idle"
      BY <1>0, <1>5, <2>2 DEF Trigger
    <3> HIDE DEF t
    <3>3. <<j, t>> \in Executions
      BY <3>1 DEF Executions
    <3>4. adm'[x] \in AdmStates /\ adm'[x].at = "admit" /\ adm'[x].e \in Executions
      BY <1>0, <3>2, <3>3 DEF AdmStates
    <3> QED BY <1>0, <3>2, <3>4 DEF UserMoves
  <2> QED BY <2>1, <2>2
<1>6. ASSUME NEW p \in Owners, MainCrash(p) PROVE UserMoves(o)
  BY <1>0, <1>6 DEF MainCrash, UserMoves
<1>7. ASSUME NEW p \in Owners, \/ Start(p) \/ RenewTimer(p) \/ Stop(p) \/ StopCancelled(p)
                               \/ StopTails(p) \/ \E r \in Replies : Release(p, r)
      PROVE  UserMoves(o)
  BY <1>7, <1>a DEF Start, RenewTimer, Stop, StopCancelled, StopTails, Release
<1>8. ASSUME NEW e \in Executions,
             RunStep(e) \/ CancelStep(e) \/ Timeout(e) \/ Cancel(e)
               \/ \E p \in {"active", "ok", "failed"} : PromptAdvances(e, p)
      PROVE  UserMoves(o)
  BY <1>8, <1>a DEF RunStep, Begin, Running, Ended, Settled, TimedOut, Deliver, CancelStep,
     CancelWaited, CancelPut, Timeout, Cancel, PromptAdvances
<1>9. ASSUME \/ \E j \in Jobs : EditRead(j) \/ Delete(j) \/ Foreign(j)
             \/ \E enabled \in BOOLEAN, r \in Replies : EditWrite(enabled, r)
             \/ Clock \/ DataCrash
      PROVE  UserMoves(o)
  BY <1>9, <1>a DEF EditRead, Delete, Foreign, EditWrite, Clock, DataCrash
<1>10. "ok" \in Replies
  BY DEF Replies
<1>11. ASSUME NEW p \in Owners, OwnerStep(p) PROVE UserMoves(o)
  BY <1>3, <1>4, <1>7, <1>10, <1>11 DEF OwnerStep
<1>12. ASSUME NEW p \in Owners, TickStart(p) PROVE UserMoves(o)
  BY <1>3, <1>10, <1>12
<1> QED BY <1>1, <1>5, <1>6, <1>7, <1>8, <1>9, <1>11, <1>12 DEF CronNext
-----------------------------------------------------------------------------
(* What a step can do to an execution *)

\* An outbox that stays as it is has lost nothing.
LEMMA OutboxStays == UNCHANGED outbox => OutboxGrows
BY DEF outbox, OutboxGrows

\* The execution begins, at the head of its tail.
Begins(e) ==
  /\ ex[e].at = "queued" /\ chain[<<ex[e].owner, e[1]>>] # <<>>
  /\ Head(chain[<<ex[e].owner, e[1]>>]) = e
  /\ ex'[e].at \in Busy \ {"prompting", "timeout", "delivering"}
  /\ ex'[e].at = "ending" => ex'[e].status # "completed"
  /\ ex'[e].prompt = ex[e].prompt
  /\ UNCHANGED <<chain, dispatched, outbox>>

\* Its row says running: it prompts.
Prompts(e) ==
  /\ ex[e].at = "starting" /\ ex'[e].at = "prompting" /\ run[e].status # "none"
  /\ dispatched' = [dispatched EXCEPT ![e] = @ + 1]
  /\ UNCHANGED <<chain, outbox>>

\* It goes on to its end.
GoesOn(e) ==
  /\ ex[e].at \in Busy /\ ex'[e].at \in Busy \ {"starting"}
  /\ ex'[e].at \in {"prompting", "timeout", "delivering"}
       => ex[e].at \in {"prompting", "timeout"}
  /\ ex'[e].prompt \in {"setup", "active"} =>
       /\ ex[e].prompt \in {"setup", "active"}
       /\ ex'[e].at = ex[e].at \/ (ex[e].at = "prompting" /\ ex'[e].at = "timeout")
  /\ ex'[e].at = "ending" /\ ex'[e].status = "completed" =>
       \/ ex[e].at = "prompting" /\ ~plan.delivering
       \/ /\ ex[e].at = "delivering"
          /\ e \in silent' \/ (e \in outbound' /\ ex'[e].linked)
  /\ OutboxGrows /\ UNCHANGED <<chain, dispatched>>

\* It is over and makes way for the next.
Leaves(e) ==
  /\ ex[e].at \in {"starting", "ending"} /\ ex'[e].at = "over"
  /\ ex'[e].prompt = ex[e].prompt
  /\ chain' = [chain EXCEPT ![<<ex[e].owner, e[1]>>] = Tail(@)]
  /\ UNCHANGED <<dispatched, outbox>>

OwnStep(e) ==
  RunStep(e) \/ Timeout(e) \/ \E p \in {"active", "ok", "failed"} : PromptAdvances(e, p)

OwnMoves(e) ==
  /\ ex' = [ex EXCEPT ![e] = ex'[e]] /\ ex'[e] \in ExStates
  /\ ex'[e].owner = ex[e].owner /\ (ex'[e].at = "ending" => ex'[e].status # "none")
  /\ UNCHANGED <<adm, tick, job, edit>>
  /\ Begins(e) \/ Prompts(e) \/ GoesOn(e) \/ Leaves(e)

LEMMA EndsMoves ==
  ASSUME CronTypeOK, NEW e \in Executions,
         NEW s \in {"completed", "failed", "cancelled", "timed-out"},
         NEW linked \in BOOLEAN, NEW again \in BOOLEAN, ex' = Ends(e, s, linked, again)
  PROVE  /\ ex' = [ex EXCEPT ![e] = ex'[e]] /\ ex'[e] \in ExStates
         /\ ex'[e].at = "ending" /\ ex'[e].status = s /\ ex'[e].linked = linked
         /\ ex'[e].owner = ex[e].owner /\ ex'[e].prompt = ex[e].prompt
<1>1. ex[e] \in ExStates /\ DOMAIN ex = Executions
  BY TypeFacts
<1>2. ex' = [ex EXCEPT ![e] = [ex[e] EXCEPT !.at = "ending", !.status = s,
                                            !.linked = linked, !.retry = again]]
  BY <1>1 DEF Ends
<1>3. ex'[e] = [ex[e] EXCEPT !.at = "ending", !.status = s, !.linked = linked,
                             !.retry = again]
  BY <1>1, <1>2
<1>4. ex' = [ex EXCEPT ![e] = ex'[e]]
  BY <1>1, <1>2, <1>3
<1> QED BY <1>1, <1>3, <1>4 DEF ExStates

LEMMA OwnStepMoves ==
  ASSUME CronTypeOK, NEW e \in Executions, OwnStep(e), TurnSound(e)
  PROVE  OwnMoves(e)
<1>1. /\ ex[e] \in ExStates /\ DOMAIN ex = Executions
      /\ ex[e].at = "ending" => ex[e].status # "none"
      /\ InFlight(e) => ex[e].at \in {"prompting", "timeout"}
  BY TypeFacts DEF TurnSound
<1>2. TRUE \in BOOLEAN /\ FALSE \in BOOLEAN /\ Outcome(e, "failed") \in {"cancelled", "failed"}
      /\ Outcome(e, "completed") \in {"cancelled", "completed"}
  BY DEF Outcome
<1>3. ASSUME NEW a \in {"starting", "over", "delivering"}, ex' = [ex EXCEPT ![e].at = a]
      PROVE  /\ ex' = [ex EXCEPT ![e] = ex'[e]] /\ ex'[e] \in ExStates
             /\ ex'[e].at = a /\ ex'[e].owner = ex[e].owner /\ ex'[e].prompt = ex[e].prompt
  <2>1. ex'[e] = [ex[e] EXCEPT !.at = a] /\ ex' = [ex EXCEPT ![e] = ex'[e]]
    BY <1>1, <1>3
  <2> QED BY <1>1, <1>3, <2>1 DEF ExStates
<1>4. ASSUME NEW ready \in BOOLEAN, Begin(e, ready) PROVE OwnMoves(e)
  <2>1. CASE ex' = [ex EXCEPT ![e].at = "starting"]
    BY <1>3, <1>4, <2>1 DEF Begin, OwnMoves, Begins, Busy, store, seen
  <2>2. CASE ex' = Ends(e, IF stopped[ex[e].owner] THEN "cancelled" ELSE "failed", FALSE, FALSE)
    <3>1. (IF stopped[ex[e].owner] THEN "cancelled" ELSE "failed")
             \in {"cancelled", "failed"}
      OBVIOUS
    <3> QED BY <1>2, <1>4, <2>2, <3>1, EndsMoves DEF Begin, OwnMoves, Begins, Busy, store, seen
  <2> QED BY <1>4, <2>1, <2>2 DEF Begin
<1>5. ASSUME NEW r \in Replies, Running(e, r) PROVE OwnMoves(e)
  <2>1. ex[e].at = "starting" /\ UNCHANGED <<adm, tick, job, edit, outbox>>
    BY <1>5 DEF Running
  <2>2. CASE /\ ex' = [ex EXCEPT ![e].at = "over"] /\ UNCHANGED dispatched
             /\ chain' = [chain EXCEPT ![<<ex[e].owner, e[1]>>] = Tail(@)]
    BY <1>3, <2>1, <2>2 DEF OwnMoves, Leaves
  <2>3. CASE ex' = Ends(e, "cancelled", FALSE, TRUE) /\ UNCHANGED <<chain, dispatched>>
    BY <1>1, <1>2, <2>1, <2>3, EndsMoves, OutboxStays DEF OwnMoves, GoesOn, Busy, InFlight
  <2>4. CASE /\ PutOk(e, r) /\ ex' = [ex EXCEPT ![e].at = "prompting", ![e].prompt = "setup"]
             /\ dispatched' = [dispatched EXCEPT ![e] = @ + 1] /\ UNCHANGED chain
    <3>1. ex'[e] = [ex[e] EXCEPT !.at = "prompting", !.prompt = "setup"]
          /\ ex' = [ex EXCEPT ![e] = ex'[e]]
      BY <1>1, <2>4
    <3>2. ex'[e] \in ExStates /\ ex'[e].at = "prompting" /\ ex'[e].owner = ex[e].owner
      BY <1>1, <3>1 DEF ExStates
    <3> QED BY <2>1, <2>4, <3>1, <3>2 DEF OwnMoves, Prompts, PutOk
  <2> QED BY <1>5, <2>2, <2>3, <2>4 DEF Running
<1>6. ASSUME NEW r \in Replies, Ended(e, r) PROVE OwnMoves(e)
  <2>1. ex[e].at = "ending" /\ UNCHANGED <<adm, tick, job, edit, dispatched, outbox>>
    BY <1>6 DEF Ended, seen
  <2>2. CASE ex' = Ends(e, Outcome(e, "failed"), FALSE, FALSE) /\ UNCHANGED chain
    <3>1. /\ ex' = [ex EXCEPT ![e] = ex'[e]] /\ ex'[e] \in ExStates
          /\ ex'[e].at = "ending" /\ ex'[e].status \in {"cancelled", "failed"}
          /\ ex'[e].owner = ex[e].owner /\ ex'[e].prompt = ex[e].prompt
      BY <1>2, <2>2, EndsMoves
    <3> QED BY <1>1, <2>1, <2>2, <3>1, OutboxStays DEF OwnMoves, GoesOn, Busy, InFlight
  <2>3. CASE ex' = [ex EXCEPT ![e].at = "over"] /\ Leave(e)
    BY <1>3, <2>1, <2>3 DEF OwnMoves, Leaves, Leave
  <2> QED BY <1>6, <2>2, <2>3 DEF Ended
<1>7. ASSUME Settled(e) PROVE OwnMoves(e)
  <2>1. /\ ex[e].at = "prompting" /\ ~InFlight(e)
        /\ UNCHANGED <<adm, tick, job, edit, chain, dispatched, outbox>>
    BY <1>7 DEF Settled, seen, store, InFlight
  <2>2. CASE ex' = [ex EXCEPT ![e].at = "delivering"]
    BY <1>3, <2>1, <2>2, OutboxStays DEF OwnMoves, GoesOn, Busy, InFlight
  <2>3. CASE ex' = Ends(e, Outcome(e, "failed"), FALSE, FALSE)
    <3>1. /\ ex' = [ex EXCEPT ![e] = ex'[e]] /\ ex'[e] \in ExStates
          /\ ex'[e].at = "ending" /\ ex'[e].status \in {"cancelled", "failed"}
          /\ ex'[e].owner = ex[e].owner /\ ex'[e].prompt = ex[e].prompt
      BY <1>2, <2>3, EndsMoves
    <3> QED BY <2>1, <3>1, OutboxStays DEF OwnMoves, GoesOn, Busy, InFlight
  <2>4. CASE ex' = Ends(e, Outcome(e, "completed"), FALSE, TRUE) /\ ~plan.delivering
    <3>1. /\ ex' = [ex EXCEPT ![e] = ex'[e]] /\ ex'[e] \in ExStates
          /\ ex'[e].at = "ending" /\ ex'[e].status \in {"cancelled", "completed"}
          /\ ex'[e].owner = ex[e].owner /\ ex'[e].prompt = ex[e].prompt
      BY <1>2, <2>4, EndsMoves
    <3> QED BY <2>1, <2>4, <3>1, OutboxStays DEF OwnMoves, GoesOn, Busy, InFlight
  <2> QED BY <1>7, <2>2, <2>3, <2>4 DEF Settled
<1>8. ASSUME TimedOut(e) PROVE OwnMoves(e)
  <2>1. /\ ex[e].at = "timeout" /\ ~InFlight(e)
        /\ UNCHANGED <<adm, tick, job, edit, chain, dispatched, outbox>>
    BY <1>8 DEF TimedOut, seen, store
  <2>2. /\ ex' = [ex EXCEPT ![e] = ex'[e]] /\ ex'[e] \in ExStates
        /\ ex'[e].at = "ending" /\ ex'[e].status = "timed-out"
        /\ ex'[e].owner = ex[e].owner /\ ex'[e].prompt = ex[e].prompt
    BY <1>2, <1>8, EndsMoves DEF TimedOut
  <2> QED BY <2>1, <2>2, OutboxStays DEF OwnMoves, GoesOn, Busy, InFlight
<1>9. ASSUME NEW outcome \in Deliveries, Deliver(e, outcome) PROVE OwnMoves(e)
  <2>1. /\ ex[e].at = "delivering" /\ ~InFlight(e)
        /\ UNCHANGED <<adm, tick, job, edit, chain, dispatched>> /\ OutboxGrows
        /\ outcome = "linked" => e \in outbound'
        /\ outcome = "empty" => e \in silent'
    BY <1>1, <1>9 DEF Deliver, store, OutboxGrows
  <2>2. CASE outcome \in {"linked", "empty"}
    <3>1. /\ ex' = [ex EXCEPT ![e] = ex'[e]] /\ ex'[e] \in ExStates
          /\ ex'[e].at = "ending" /\ ex'[e].status \in {"cancelled", "completed"}
          /\ ex'[e].linked = (outcome = "linked")
          /\ ex'[e].owner = ex[e].owner /\ ex'[e].prompt = ex[e].prompt
      BY <1>2, <1>9, <2>2, EndsMoves DEF Deliver
    <3> QED BY <2>1, <2>2, <3>1 DEF OwnMoves, GoesOn, Busy, InFlight
  <2>3. CASE outcome = "failed"
    <3>1. /\ ex' = [ex EXCEPT ![e] = ex'[e]] /\ ex'[e] \in ExStates
          /\ ex'[e].at = "ending" /\ ex'[e].status \in {"cancelled", "failed"}
          /\ ex'[e].owner = ex[e].owner /\ ex'[e].prompt = ex[e].prompt
      BY <1>2, <1>9, <2>3, EndsMoves DEF Deliver
    <3> QED BY <2>1, <3>1 DEF OwnMoves, GoesOn, Busy, InFlight
  <2> QED BY <1>9, <2>2, <2>3 DEF Deliveries
<1>10. ASSUME Timeout(e) PROVE OwnMoves(e)
  <2>1. /\ ex[e].at = "prompting"
        /\ UNCHANGED <<adm, tick, job, edit, chain, dispatched, outbox>>
        /\ ex' = [ex EXCEPT ![e].at = "timeout", ![e].cancel = TRUE]
    BY <1>10 DEF Timeout, store
  <2>2. ex'[e] = [ex[e] EXCEPT !.at = "timeout", !.cancel = TRUE]
        /\ ex' = [ex EXCEPT ![e] = ex'[e]]
    BY <1>1, <2>1
  <2>3. ex'[e] \in ExStates /\ ex'[e].at = "timeout" /\ ex'[e].owner = ex[e].owner
        /\ ex'[e].prompt = ex[e].prompt
    BY <1>1, <2>2 DEF ExStates
  <2> QED BY <2>1, <2>2, <2>3, OutboxStays DEF OwnMoves, GoesOn, Busy
<1>11. ASSUME NEW p \in {"active", "ok", "failed"}, PromptAdvances(e, p) PROVE OwnMoves(e)
  <2>1. /\ InFlight(e)
        /\ UNCHANGED <<adm, tick, job, edit, chain, dispatched, outbox>>
        /\ ex' = [ex EXCEPT ![e].prompt = p]
    BY <1>11 DEF PromptAdvances, InFlight, store, seen
  <2>2. ex'[e] = [ex[e] EXCEPT !.prompt = p] /\ ex' = [ex EXCEPT ![e] = ex'[e]]
    BY <1>1, <2>1
  <2>3. ex'[e] \in ExStates /\ ex'[e].at = ex[e].at /\ ex'[e].owner = ex[e].owner
    BY <1>1, <2>2 DEF ExStates
  <2> QED BY <1>1, <2>1, <2>2, <2>3, OutboxStays DEF OwnMoves, GoesOn, Busy, InFlight
<1> QED BY <1>4, <1>5, <1>6, <1>7, <1>8, <1>9, <1>10, <1>11 DEF OwnStep, RunStep

\* An admission of the scheduler o puts the execution at the end of its tail.
Queues(o, w, e) ==
  /\ adm[<<o, w>>].e = e
  /\ \/ /\ adm[<<o, w>>].at = "admit" /\ run[e].status = "none"
        /\ ex[e].at \in {"none", "over"}
        /\ \A x \in Owners \X Callers : adm[x].at = "replace" => adm[x].e # e
     \/ adm[<<o, w>>].at = "replace"
  /\ Enqueue(o, e)
  /\ adm'[<<o, w>>].at # "replace"
  /\ UNCHANGED <<dispatched, outbox>>

\* What changes the executions and their tails.
ExChange ==
  \/ UNCHANGED <<ex, chain>>
  \/ /\ \A e \in Executions : \/ ex'[e] = ex[e]
                              \/ ex'[e] = [ex[e] EXCEPT !.cancel = TRUE]
     /\ ex' = [e \in Executions |-> ex'[e]] /\ UNCHANGED <<chain, dispatched, outbox>>
  \/ \E o \in Owners, w \in Callers, e \in Executions : Queues(o, w, e)
  \/ \E e \in Executions : OwnStep(e)
  \/ \E o \in Owners : MainCrash(o)

LEMMA AdmitQueues ==
  ASSUME CronTypeOK, NEW o \in Owners, NEW w \in Callers, NEW r \in Replies,
         Admit(o, w, r) \/ Replaced(o, w),
         Enqueue(o, adm[<<o, w>>].e), CallerNext(o, w)
  PROVE  Queues(o, w, adm[<<o, w>>].e)
<1> DEFINE e == adm[<<o, w>>].e
<1>1. adm'[<<o, w>>].at # "replace"
  <2>1. /\ <<o, w>> \in Owners \X Callers /\ DOMAIN adm = Owners \X Callers
        /\ w = "tick" \/ w = "user"
    BY TypeFacts, Indices
  <2>2. CASE w = "tick"
    <3>1. tick[o].cur \in Jobs /\ tick[o] \in TickStates
      BY <2>2, TypeFacts DEF Admit, Replaced, CronTypeOK
    <3>2. PICK u, a : Asks(tick[o], u, a) /\ adm' = [adm EXCEPT ![<<o, "tick">>] = a]
      BY <2>2, <3>1, WorkAsks DEF CallerNext
    <3> QED BY <2>1, <2>2, <3>2, RecordTypes DEF Asks
  <2>3. CASE w = "user"
    BY <2>1, <2>3, RecordTypes DEF CallerNext
  <2> QED BY <2>1, <2>2, <2>3
<1>2. e \in Executions /\ ex[e].at = "queued" => ex[e].at \notin {"none", "over"}
  BY TypeFacts DEF Admit, Replaced
<1>3. CASE Replaced(o, w)
  BY <1>1, <1>3 DEF Replaced, Queues, seen
<1>4. CASE Admit(o, w, r) /\ Inserted(e)
  BY <1>1, <1>4 DEF Admit, Queues, Inserted
<1>5. CASE Admit(o, w, r) /\ ~Inserted(e)
  <2>1. ex' = ex \/ \E d \in Executions : ex' = [ex EXCEPT ![d].cancel = TRUE]
    BY <1>5 DEF Admit
  <2>2. UNCHANGED chain
    BY <1>5 DEF Admit
  <2>3. chain[<<o, e[1]>>] \in Seq(Executions) /\ <<o, e[1]>> \in DOMAIN chain
    BY TypeFacts, Indices DEF Admit, Replaced
  <2>4. chain'[<<o, e[1]>>] = Append(chain[<<o, e[1]>>], e)
    BY <2>3 DEF Enqueue
  <2>5. Len(Append(chain[<<o, e[1]>>], e)) = Len(chain[<<o, e[1]>>]) + 1
        /\ Len(chain[<<o, e[1]>>]) \in Nat
    BY <2>3
  <2> QED BY <2>2, <2>4, <2>5
<1> QED BY <1>3, <1>4, <1>5

LEMMA ExMoves ==
  ASSUME CronTypeOK, [CronNext]_vars
  PROVE  ExChange
<1>0. DOMAIN ex = Executions /\ ex = [e \in Executions |-> ex[e]]
  BY TypeFacts DEF CronTypeOK
<1>a. ASSUME UNCHANGED <<ex, chain>> PROVE ExChange
  BY <1>a DEF ExChange
<1>b. ASSUME NEW d \in Executions, ex' = [ex EXCEPT ![d].cancel = TRUE],
             UNCHANGED <<chain, dispatched, outbox>>
      PROVE  ExChange
  <2>1. \A e \in Executions : \/ ex'[e] = ex[e]
                              \/ ex'[e] = [ex[e] EXCEPT !.cancel = TRUE]
    BY <1>0, <1>b
  <2>2. ex' = [e \in Executions |-> ex'[e]]
    BY <1>0, <1>b
  <2> QED BY <1>b, <2>1, <2>2 DEF ExChange
<1>1. CASE UNCHANGED vars
  BY <1>1, <1>a DEF vars
<1>2. ASSUME NEW o \in Owners, NEW w \in Callers, NEW r \in Replies, Admit(o, w, r)
      PROVE  ExChange
  <2> DEFINE e == adm[<<o, w>>].e
             d == active[<<o, e[1]>>]
  <2>0. e \in Executions /\ d \in Executions \cup {None}
    BY <1>2, TypeFacts, Indices DEF Admit
  <2>1. CASE UNCHANGED <<chain, ex>>
    BY <1>a, <2>1
  <2>2. CASE d # None /\ ex' = [ex EXCEPT ![d].cancel = TRUE] /\ UNCHANGED chain
    BY <1>b, <1>2, <2>0, <2>2 DEF Admit
  <2>3. CASE CallerNext(o, w) /\ Enqueue(o, e)
    BY <1>2, <2>0, <2>3, AdmitQueues DEF ExChange
  <2> QED BY <1>2, <2>1, <2>2, <2>3 DEF Admit
<1>3. ASSUME NEW o \in Owners, NEW w \in Callers, Replaced(o, w) PROVE ExChange
  <2>1. "ok" \in Replies /\ adm[<<o, w>>].e \in Executions
    BY <1>3, TypeFacts DEF Replies, Replaced
  <2> QED BY <1>3, <2>1, AdmitQueues DEF Replaced, ExChange
<1>4. ASSUME NEW o \in Owners, Stop(o) PROVE ExChange
  <2>1. \A e \in Executions : \/ ex'[e] = ex[e]
                              \/ ex'[e] = [ex[e] EXCEPT !.cancel = TRUE]
    BY <1>4 DEF Stop
  <2>2. ex' = [e \in Executions |-> ex'[e]]
    BY <1>4 DEF Stop
  <2> QED BY <1>4, <2>1, <2>2 DEF Stop, ExChange
<1>5. ASSUME NEW e \in Executions, Cancel(e) PROVE ExChange
  BY <1>b, <1>5 DEF Cancel
<1>6. ASSUME NEW e \in Executions,
             RunStep(e) \/ Timeout(e) \/ \E p \in {"active", "ok", "failed"} : PromptAdvances(e, p)
      PROVE  ExChange
  BY <1>6 DEF ExChange, OwnStep
<1>7. ASSUME NEW o \in Owners, MainCrash(o) PROVE ExChange
  BY <1>7 DEF ExChange
<1>8. ASSUME NEW o \in Owners, NEW r \in Replies,
             \/ Start(o) \/ RenewTimer(o) \/ TickStart(o) \/ StopCancelled(o) \/ StopTails(o)
             \/ Renewed(o, r) \/ TickList(o, r) \/ TickPersist(o, r) \/ TickArm(o, r)
             \/ Release(o, r) \/ (\E w \in Callers : PutMissed(o, w, r))
             \/ (\E j \in Jobs : Trigger(o, j))
      PROVE  ExChange
  BY <1>8, <1>a DEF Start, RenewTimer, TickStart, StopCancelled, StopTails, Renewed,
     TickList, TickPersist, TickArm, Release, PutMissed, Trigger
<1>9. ASSUME NEW e \in Executions, CancelStep(e) PROVE ExChange
  BY <1>9, <1>a DEF CancelStep, CancelWaited, CancelPut
<1>10. ASSUME \/ \E j \in Jobs : EditRead(j) \/ Delete(j) \/ Foreign(j)
              \/ \E enabled \in BOOLEAN, r \in Replies : EditWrite(enabled, r)
              \/ Clock \/ DataCrash
       PROVE  ExChange
  BY <1>10, <1>a DEF EditRead, Delete, Foreign, EditWrite, Clock, DataCrash
<1> HIDE DEF ExChange
<1>11. "ok" \in Replies
  BY DEF Replies
<1>12. ASSUME NEW o \in Owners, OwnerStep(o) PROVE ExChange
  BY <1>2, <1>3, <1>8, <1>11, <1>12 DEF OwnerStep
<1> QED BY <1>1, <1>4, <1>5, <1>6, <1>7, <1>8, <1>9, <1>10, <1>11, <1>12 DEF CronNext
-----------------------------------------------------------------------------
(* What a step can do to the rows of a run and of a job *)

\* A call that writes the row of an execution.
Written(e, statuses) ==
  /\ run[e].status # "none" /\ run'[e].status \in statuses
  /\ \/ run'[e].status # "completed"
     \/ ex[e].at = "ending" /\ ex[e].status = run'[e].status /\ run'[e].linked = ex[e].linked

RunTo(e) ==
  \/ run'[e] = run[e]
  \/ run[e].status = "none" /\ run'[e].status \in {"admitted", "missed"}
  \/ Written(e, Statuses \ {"none"})
  \/ run'[e] = NoRun /\ plan'.edited = plan.edited + 1

RunChange ==
  /\ run' = [e \in Executions |-> run'[e]]
  /\ \A e \in Executions : RunTo(e) /\ run'[e] \in RunRows

LEMMA PutWrites ==
  ASSUME CronTypeOK, NEW d \in Executions, NEW s \in Statuses \ {"none"},
         NEW c \in {"none", "MISFIRE_SKIPPED", "OVERLAP_SKIPPED"}, NEW l \in BOOLEAN,
         NEW r, PutRun(d, s, c, l, r),
         s = "completed" => ex[d].at = "ending" /\ ex[d].status = s /\ ex[d].linked = l
  PROVE  RunChange
<1>1. DOMAIN run = Executions /\ run = [e \in Executions |-> run[e]]
      /\ \A e \in Executions : run[e] \in RunRows
  BY TypeFacts DEF CronTypeOK
<1>2. CASE UNCHANGED run
  BY <1>1, <1>2 DEF RunChange, RunTo
<1>3. CASE /\ run[d].status # "none"
           /\ run' = [run EXCEPT ![d] = [@ EXCEPT !.status = s, !.code = c, !.linked = l]]
  <2>1. run'[d] = [run[d] EXCEPT !.status = s, !.code = c, !.linked = l]
        /\ \A e \in Executions \ {d} : run'[e] = run[e]
    BY <1>1, <1>3
  <2>2. run'[d] \in RunRows /\ run'[d].status = s /\ run'[d].linked = l
    BY <1>1, <2>1 DEF RunRows
  <2>3. run' = [e \in Executions |-> run'[e]]
    BY <1>1, <1>3
  <2>4. RunTo(d)
    BY <1>3, <2>2 DEF RunTo, Written
  <2>5. \A e \in Executions \ {d} : RunTo(e) /\ run'[e] \in RunRows
    BY <1>1, <2>1 DEF RunTo
  <2> QED BY <2>2, <2>3, <2>4, <2>5 DEF RunChange
<1> QED BY <1>2, <1>3 DEF PutRun

LEMMA RunMoves ==
  ASSUME CronTypeOK, [CronNext]_vars
  PROVE  RunChange
<1>1. DOMAIN run = Executions /\ run = [e \in Executions |-> run[e]]
      /\ \A e \in Executions : /\ run[e] \in RunRows /\ ex[e] \in ExStates
                               /\ ex[e].at = "ending" => ex[e].status # "none"
  BY TypeFacts DEF CronTypeOK
<1>a. ASSUME UNCHANGED run PROVE RunChange
  BY <1>1, <1>a DEF RunChange, RunTo
<1>2. /\ "missed" \in Statuses \ {"none"} /\ "running" \in Statuses \ {"none"}
      /\ "cancelled" \in Statuses \ {"none"} /\ TRUE \in BOOLEAN /\ FALSE \in BOOLEAN
      /\ "none" \in {"none", "MISFIRE_SKIPPED", "OVERLAP_SKIPPED"}
      /\ \A b \in BOOLEAN : (IF b THEN "MISFIRE_SKIPPED" ELSE "OVERLAP_SKIPPED")
                              \in {"none", "MISFIRE_SKIPPED", "OVERLAP_SKIPPED"}
  BY DEF Statuses
<1>3. ASSUME NEW o \in Owners, NEW w \in Callers, NEW r \in Replies, Admit(o, w, r)
      PROVE  RunChange
  <2> DEFINE d == adm[<<o, w>>].e
             row == [status |-> IF adm[<<o, w>>].missed THEN "missed" ELSE "admitted",
                     kind |-> adm[<<o, w>>].kind, code |-> "none", linked |-> FALSE]
  <2>1. CASE UNCHANGED run
    BY <1>a, <2>1
  <2>2. CASE Inserted(d) /\ run' = [run EXCEPT ![d] = row]
    <3>1. d \in Executions /\ row \in RunRows /\ row.status \in {"admitted", "missed"}
      BY <1>3, TypeFacts DEF Admit, AdmStates, RunRows, Statuses
    <3> HIDE DEF row
    <3>2. run'[d] = row /\ \A e \in Executions \ {d} : run'[e] = run[e]
      BY <1>1, <2>2, <3>1
    <3>3. run' = [e \in Executions |-> run'[e]]
      BY <1>1, <2>2
    <3>4. \A e \in Executions : RunTo(e) /\ run'[e] \in RunRows
      BY <1>1, <2>2, <3>1, <3>2 DEF RunTo, Inserted
    <3> QED BY <3>3, <3>4 DEF RunChange
  <2> QED BY <1>3, <2>1, <2>2 DEF Admit
<1>4. ASSUME NEW o \in Owners, NEW w \in Callers, NEW r \in Replies, PutMissed(o, w, r)
      PROVE  RunChange
  <2>1. adm[<<o, w>>].e \in Executions /\ adm[<<o, w>>].missed \in BOOLEAN
    BY <1>4, TypeFacts DEF PutMissed, AdmStates
  <2> QED BY <1>2, <1>4, <2>1, PutWrites DEF PutMissed
<1>5. ASSUME NEW e \in Executions, NEW r \in Replies, Running(e, r) PROVE RunChange
  BY <1>2, <1>5, PutWrites DEF Running
<1>6. ASSUME NEW e \in Executions, NEW r \in Replies, Ended(e, r) PROVE RunChange
  <2>1. ex[e].status \in Statuses \ {"none"} /\ ex[e].linked \in BOOLEAN /\ ex[e].at = "ending"
    BY <1>1, <1>6 DEF Ended, ExStates, Statuses
  <2> QED BY <1>2, <1>6, <2>1, PutWrites DEF Ended
<1>7. ASSUME NEW e \in Executions, NEW w \in {"user", "stop"}, NEW r \in Replies,
             CancelPut(e, w, r)
      PROVE  RunChange
  BY <1>2, <1>7, PutWrites DEF CancelPut
<1>8. ASSUME NEW j \in Jobs, Delete(j) PROVE RunChange
  <2>1. plan'.edited = plan.edited + 1
    BY <1>8, TypeFacts DEF Delete, PlanSpace
  <2>2. run' = [e \in Executions |-> run'[e]]
        /\ \A e \in Executions : run'[e] = NoRun \/ run'[e] = run[e]
    BY <1>8 DEF Delete
  <2> QED BY <1>1, <2>1, <2>2, RecordTypes DEF RunChange, RunTo
<1>9. ASSUME run' = Swept PROVE RunChange
  <2>1. run' = [e \in Executions |-> run'[e]]
    BY <1>9 DEF Swept
  <2>2. ASSUME NEW e \in Executions PROVE RunTo(e) /\ run'[e] \in RunRows
    <3>1. CASE run'[e] = run[e]
      BY <1>1, <3>1 DEF RunTo
    <3>2. CASE /\ run[e].status \in {"admitted", "running"}
               /\ run'[e] = [run[e] EXCEPT !.status = "failed",
                                           !.code = "SCHEDULER_RESTARTED"]
      <4>1. run'[e] \in RunRows /\ run'[e].status = "failed"
        BY <1>1, <3>2 DEF RunRows, Statuses
      <4> QED BY <3>2, <4>1 DEF RunTo, Written, Statuses
    <3> QED BY <1>9, <3>1, <3>2 DEF Swept
  <2> QED BY <2>1, <2>2 DEF RunChange
<1>10. CASE UNCHANGED vars
  BY <1>10, <1>a DEF vars, store
<1>11. ASSUME NEW o \in Owners, NEW r \in Replies,
             \/ Start(o) \/ RenewTimer(o) \/ TickStart(o) \/ StopCancelled(o) \/ StopTails(o)
             \/ Stop(o) \/ Renewed(o, r) \/ TickList(o, r) \/ TickPersist(o, r)
             \/ TickArm(o, r) \/ Release(o, r) \/ (\E w \in Callers : Replaced(o, w))
             \/ (\E j \in Jobs : Trigger(o, j))
      PROVE  RunChange
  BY <1>11, <1>a DEF Start, RenewTimer, TickStart, StopCancelled, StopTails, Stop, Renewed,
     TickList, TickPersist, TickArm, Release, Replaced, Trigger, store
<1>12. ASSUME NEW e \in Executions,
             \/ Settled(e) \/ TimedOut(e) \/ Timeout(e) \/ Cancel(e)
             \/ (\E b \in BOOLEAN : Begin(e, b)) \/ (\E d \in Deliveries : Deliver(e, d))
             \/ (\E w \in {"user", "stop"} : CancelWaited(e, w))
             \/ (\E p \in {"active", "ok", "failed"} : PromptAdvances(e, p))
      PROVE  RunChange
  BY <1>12, <1>a DEF Settled, TimedOut, Timeout, Cancel, Begin, Deliver, CancelWaited,
     PromptAdvances, store
<1>13. ASSUME \/ \E j \in Jobs : EditRead(j) \/ Foreign(j)
              \/ \E enabled \in BOOLEAN, r \in Replies : EditWrite(enabled, r)
              \/ Clock
       PROVE  RunChange
  BY <1>13, <1>a DEF EditRead, Foreign, EditWrite, Clock, store
<1>14. CASE DataCrash \/ \E o \in Owners : MainCrash(o)
  BY <1>9, <1>14 DEF DataCrash, MainCrash
<1> HIDE DEF RunChange
<1>15. "ok" \in Replies
  BY DEF Replies
<1>16. ASSUME NEW o \in Owners, OwnerStep(o) PROVE RunChange
  BY <1>3, <1>4, <1>11, <1>15, <1>16 DEF OwnerStep
<1>17. ASSUME NEW e \in Executions, RunStep(e) \/ CancelStep(e) PROVE RunChange
  BY <1>5, <1>6, <1>7, <1>12, <1>17 DEF RunStep, CancelStep
<1> QED BY <1>8, <1>10, <1>11, <1>12, <1>13, <1>14, <1>15, <1>16, <1>17 DEF CronNext

\* A tick writes back the row it has read.
WrittenBack(o, j) ==
  LET held == tick[o].snap[j] IN
  /\ tick[o].at = "persist" /\ tick[o].cur = j /\ Puttable(j, held.revision)
  /\ job'[j] = [held EXCEPT !.next = tick[o].follow,
                  !.enabled = @ /\ ~(OnceOnly /\ tick[o].follow = None)]
  /\ \A p \in Owners \ {o} : tick'[p] = tick[p]
  /\ UNCHANGED <<edit, plan.edited>>

\* The user's edit is written.
Edited(j) ==
  /\ edit.at = "write" /\ edit.j = j /\ Puttable(j, edit.row.revision + 1)
  /\ \E enabled \in BOOLEAN :
       job'[j] = [present |-> TRUE, enabled |-> enabled,
                  revision |-> edit.row.revision + 1,
                  next |-> IF enabled THEN ApiNext(j, now) ELSE None]
  /\ edit'.at = "idle" /\ UNCHANGED tick

JobTo(j) ==
  \/ job'[j] = job[j]
  \/ \E o \in Owners : WrittenBack(o, j)
  \/ Edited(j)
  \/ /\ job[j].present /\ job'[j] = NoJob /\ plan'.edited = plan.edited + 1
     /\ UNCHANGED <<tick, edit>>

JobChange ==
  /\ job' = [j \in Jobs |-> job'[j]]
  /\ \A j \in Jobs : JobTo(j) /\ job'[j] \in JobRows

LEMMA ApiNextIs ==
  ASSUME plan \in PlanSpace, NEW j, NEW t \in Nat
  PROVE  ApiNext(j, t) \in Nat \cup {None}
BY NextIs, PlanFacts DEF ApiNext

LEMMA JobMoves ==
  ASSUME CronTypeOK, [CronNext]_vars
  PROVE  JobChange
<1>1. DOMAIN job = Jobs /\ job = [j \in Jobs |-> job[j]] /\ \A j \in Jobs : job[j] \in JobRows
  BY TypeFacts DEF CronTypeOK
<1>a. ASSUME UNCHANGED job PROVE JobChange
  BY <1>1, <1>a DEF JobChange, JobTo
<1>b. ASSUME NEW d \in Jobs, NEW row \in JobRows, job' = [job EXCEPT ![d] = row],
             job'[d] = row => JobTo(d)
      PROVE  JobChange
  <2>1. job'[d] = row /\ \A j \in Jobs \ {d} : job'[j] = job[j]
    BY <1>1, <1>b
  <2>2. job' = [j \in Jobs |-> job'[j]]
    BY <1>1, <1>b
  <2>3. \A j \in Jobs : JobTo(j) /\ job'[j] \in JobRows
    BY <1>1, <1>b, <2>1 DEF JobTo
  <2> QED BY <2>2, <2>3 DEF JobChange
<1>2. ASSUME NEW o \in Owners, NEW r \in Replies, TickPersist(o, r) PROVE JobChange
  <2> DEFINE j == tick[o].cur
             held == tick[o].snap[j]
             row == [held EXCEPT !.next = tick[o].follow,
                       !.enabled = @ /\ ~(OnceOnly /\ tick[o].follow = None)]
  <2>1. CASE UNCHANGED job
    BY <1>a, <2>1
  <2>2. CASE Puttable(j, held.revision) /\ job' = [job EXCEPT ![j] = row]
    <3>1. j \in Jobs /\ held \in JobRows /\ tick[o].follow \in Nat \cup {None}
          /\ tick[o].at = "persist"
      BY <1>2, TypeFacts DEF TickPersist, CronTypeOK, TickStates
    <3>2. row \in JobRows
      BY <3>1 DEF JobRows
    <3>3. \A p \in Owners \ {o} : tick'[p] = tick[p]
      <4>1. tick[o] \in TickStates /\ DOMAIN tick = Owners
        BY TypeFacts
      <4>2. CASE TickFails(o)
        BY <4>1, <4>2 DEF TickFails
      <4>3. CASE NextJob(o, tick[o])
        BY <4>1, <4>3, NextJobTakes
      <4> QED BY <1>2, <4>2, <4>3 DEF TickPersist
    <3>4. UNCHANGED <<edit, plan.edited>>
      BY <1>2, PlanFacts DEF TickPersist, Answered, CronTypeOK, PlanSpace
    <3>5. job'[j] = row => WrittenBack(o, j)
      BY <2>2, <3>1, <3>3, <3>4 DEF WrittenBack
    <3>6. job'[j] = row => JobTo(j)
      BY <3>5 DEF JobTo
    <3> HIDE DEF row, j
    <3> QED BY <1>b, <2>2, <3>1, <3>2, <3>6
  <2> QED BY <1>2, <2>1, <2>2 DEF TickPersist, OnceOnly
<1>3. ASSUME NEW enabled \in BOOLEAN, NEW r \in Replies, EditWrite(enabled, r)
      PROVE  JobChange
  <2> DEFINE j == edit.j
             row == [present |-> TRUE, enabled |-> enabled,
                     revision |-> edit.row.revision + 1,
                     next |-> IF enabled THEN ApiNext(j, now) ELSE None]
  <2>1. CASE UNCHANGED job
    BY <1>a, <2>1
  <2>2. CASE Puttable(j, edit.row.revision + 1) /\ job' = [job EXCEPT ![j] = row]
    <3>1. j \in Jobs /\ edit.row \in JobRows /\ edit.at = "write"
          /\ edit'.at = "idle" /\ UNCHANGED tick
      BY <1>3 DEF EditWrite, CronTypeOK
    <3>2. ApiNext(j, now) \in Nat \cup {None}
      BY TypeFacts, ApiNextIs
    <3>3. row \in JobRows
      BY <3>1, <3>2 DEF JobRows
    <3>4. job'[j] = row => Edited(j)
      BY <2>2, <3>1 DEF Edited
    <3>5. job'[j] = row => JobTo(j)
      BY <3>4 DEF JobTo
    <3> HIDE DEF row, j
    <3> QED BY <1>b, <2>2, <3>1, <3>3, <3>5
  <2> QED BY <1>3, <2>1, <2>2 DEF EditWrite
<1>4. ASSUME NEW j \in Jobs, Delete(j) PROVE JobChange
  <2>1. plan'.edited = plan.edited + 1
    BY <1>4, TypeFacts DEF Delete, PlanSpace
  <2>2. job'[j] = NoJob => JobTo(j)
    BY <1>4, <2>1 DEF Delete, JobTo
  <2>3. job' = [job EXCEPT ![j] = NoJob]
    BY <1>4 DEF Delete
  <2> QED BY <1>b, <2>2, <2>3, RecordTypes
<1>5. CASE UNCHANGED vars
  BY <1>5, <1>a DEF vars, store
<1>6. ASSUME NEW o \in Owners, NEW r \in Replies,
             \/ Start(o) \/ RenewTimer(o) \/ TickStart(o) \/ StopCancelled(o) \/ StopTails(o)
             \/ Stop(o) \/ MainCrash(o) \/ Renewed(o, r) \/ TickList(o, r)
             \/ TickArm(o, r) \/ Release(o, r)
             \/ (\E w \in Callers : Replaced(o, w) \/ Admit(o, w, r) \/ PutMissed(o, w, r))
             \/ (\E j \in Jobs : Trigger(o, j))
      PROVE  JobChange
  BY <1>6, <1>a DEF Start, RenewTimer, TickStart, StopCancelled, StopTails, Stop, Renewed,
     MainCrash, TickList, Admit, PutMissed, TickArm, Release, Replaced, Trigger, store
<1>7. ASSUME NEW e \in Executions,
             RunStep(e) \/ CancelStep(e) \/ Timeout(e) \/ Cancel(e)
               \/ \E p \in {"active", "ok", "failed"} : PromptAdvances(e, p)
      PROVE  JobChange
  BY <1>7, <1>a DEF RunStep, Begin, Running, Ended, Settled, TimedOut, Deliver, CancelStep,
     CancelWaited, CancelPut, Timeout, Cancel, PromptAdvances, store
<1>8. ASSUME (\E j \in Jobs : EditRead(j) \/ Foreign(j)) \/ Clock \/ DataCrash
      PROVE  JobChange
  BY <1>8, <1>a DEF EditRead, Foreign, Clock, DataCrash, store
<1> HIDE DEF JobChange
<1>9. "ok" \in Replies
  BY DEF Replies
<1>10. ASSUME NEW o \in Owners, OwnerStep(o) PROVE JobChange
  BY <1>2, <1>6, <1>9, <1>10 DEF OwnerStep
<1> QED BY <1>3, <1>4, <1>5, <1>6, <1>7, <1>8, <1>9, <1>10 DEF CronNext

(* The other parts *)

\* The settings stay; the bounds are used up.
PlanChange ==
  /\ plan' \in PlanSpace /\ plan'.edited >= plan.edited
  /\ UNCHANGED <<plan.schedule, plan.delivering, plan.limit, plan.misfire, plan.horizon>>
  /\ now' \in 0 .. plan.horizon

LEMMA PlanMoves ==
  ASSUME CronTypeOK, [CronNext]_vars
  PROVE  PlanChange
<1>1. plan \in PlanSpace /\ plan.horizon \in Nat /\ now \in 0 .. plan.horizon
      /\ plan.edited \in Nat /\ plan.lost \in Nat /\ plan.manual \in Nat
      /\ plan.crashes \in Nat /\ plan.foreign \in Nat
  BY InstantFacts DEF CronTypeOK, PlanSpace
<1>2. CASE UNCHANGED <<plan, now>>
  BY <1>1, <1>2 DEF PlanChange
<1>3. ASSUME NEW n \in Nat, UNCHANGED now,
             \/ plan' = [plan EXCEPT !.lost = n] \/ plan' = [plan EXCEPT !.crashes = n]
             \/ plan' = [plan EXCEPT !.manual = n] \/ plan' = [plan EXCEPT !.foreign = n]
             \/ plan' = [plan EXCEPT !.edited = n] /\ n >= plan.edited
      PROVE  PlanChange
  BY <1>1, <1>3 DEF PlanChange, PlanSpace
<1>4. /\ plan.lost > 0 => plan.lost - 1 \in Nat
      /\ plan.manual > 0 => plan.manual - 1 \in Nat
      /\ plan.crashes > 0 => plan.crashes - 1 \in Nat
      /\ plan.foreign > 0 => plan.foreign - 1 \in Nat
      /\ plan.edited + 1 \in Nat /\ plan.edited + 1 >= plan.edited
  BY <1>1
<1>5. ASSUME NEW call, NEW r, Answered(call, r), UNCHANGED now PROVE PlanChange
  BY <1>2, <1>3, <1>4, <1>5 DEF Answered
<1>6. CASE UNCHANGED vars
  BY <1>2, <1>6 DEF vars
<1>7. ASSUME NEW o \in Owners, NEW r \in Replies,
             \/ Renewed(o, r) \/ TickList(o, r) \/ TickPersist(o, r) \/ TickArm(o, r)
             \/ Release(o, r) \/ (\E w \in Callers : Admit(o, w, r) \/ PutMissed(o, w, r))
      PROVE  PlanChange
  BY <1>5, <1>7 DEF Renewed, TickList, TickPersist, TickArm, Release, Admit, PutMissed
<1>8. ASSUME NEW e \in Executions, NEW r \in Replies,
             \/ Running(e, r) \/ Ended(e, r)
             \/ \E w \in {"user", "stop"} : CancelPut(e, w, r)
      PROVE  PlanChange
  BY <1>5, <1>8 DEF Running, Ended, CancelPut
<1>9. ASSUME NEW enabled \in BOOLEAN, NEW r \in Replies, EditWrite(enabled, r)
      PROVE  PlanChange
  BY <1>5, <1>9 DEF EditWrite
<1>10. ASSUME NEW o \in Owners, NEW j \in Jobs,
              Trigger(o, j) \/ EditRead(j) \/ Delete(j) \/ Foreign(j)
       PROVE  PlanChange
  BY <1>2, <1>3, <1>4, <1>10 DEF Trigger, EditRead, Delete, Foreign
<1>11. ASSUME DataCrash \/ \E o \in Owners : MainCrash(o) PROVE PlanChange
  BY <1>3, <1>4, <1>11 DEF DataCrash, MainCrash
<1>12. CASE Clock
  BY <1>1, <1>12 DEF Clock, PlanChange
<1>13. ASSUME NEW o \in Owners,
              \/ Start(o) \/ RenewTimer(o) \/ TickStart(o) \/ StopCancelled(o)
              \/ StopTails(o) \/ Stop(o) \/ \E w \in Callers : Replaced(o, w)
       PROVE  PlanChange
  BY <1>2, <1>13 DEF Start, RenewTimer, TickStart, StopCancelled, StopTails, Stop, Replaced
<1>14. ASSUME NEW e \in Executions,
             \/ Settled(e) \/ TimedOut(e) \/ Timeout(e) \/ Cancel(e)
             \/ (\E b \in BOOLEAN : Begin(e, b)) \/ (\E d \in Deliveries : Deliver(e, d))
             \/ (\E w \in {"user", "stop"} : CancelWaited(e, w))
             \/ (\E p \in {"active", "ok", "failed"} : PromptAdvances(e, p))
      PROVE  PlanChange
  BY <1>2, <1>14 DEF Settled, TimedOut, Timeout, Cancel, Begin, Deliver, CancelWaited,
     PromptAdvances
<1> HIDE DEF PlanChange
<1>15. ASSUME NEW o \in Owners, OwnerStep(o) PROVE PlanChange
  BY <1>7, <1>13, <1>15 DEF OwnerStep
<1>16. ASSUME NEW e \in Executions, RunStep(e) \/ CancelStep(e) PROVE PlanChange
  BY <1>8, <1>14, <1>16 DEF RunStep, CancelStep
<1>17. ASSUME NEW j \in Jobs, EditRead(j) \/ Delete(j) \/ Foreign(j) PROVE PlanChange
  BY <1>2, <1>3, <1>4, <1>17 DEF EditRead, Delete, Foreign
<1> QED BY <1>6, <1>9, <1>10, <1>11, <1>12, <1>13, <1>14, <1>15, <1>16, <1>17 DEF CronNext

\* An edit is read, written or given up.
EditChange ==
  \/ edit' = edit
  \/ /\ edit.at = "idle" /\ UNCHANGED <<job, tick>> /\ plan'.edited = plan.edited + 1
     /\ \E j \in Jobs : job[j].present /\ edit' = [at |-> "write", j |-> j, row |-> job[j]]
  \/ edit' = [edit EXCEPT !.at = "idle"]

LEMMA EditMoves ==
  ASSUME CronTypeOK, [CronNext]_vars
  PROVE  EditChange
<1>1. CASE UNCHANGED edit
  BY <1>1 DEF EditChange
<1>2. ASSUME NEW j \in Jobs, EditRead(j) PROVE EditChange
  BY <1>2, TypeFacts DEF EditRead, EditChange, PlanSpace, store
<1>3. ASSUME \/ \E enabled \in BOOLEAN, r \in Replies : EditWrite(enabled, r)
             \/ \E o \in Owners : MainCrash(o)
      PROVE  EditChange
  BY <1>3 DEF EditWrite, MainCrash, EditChange
<1>4. CASE UNCHANGED vars
  BY <1>1, <1>4 DEF vars
<1>5. ASSUME NEW o \in Owners, NEW r \in Replies,
             \/ Start(o) \/ RenewTimer(o) \/ TickStart(o) \/ StopCancelled(o) \/ StopTails(o)
             \/ Stop(o) \/ Renewed(o, r) \/ TickList(o, r) \/ TickPersist(o, r)
             \/ TickArm(o, r) \/ Release(o, r)
             \/ (\E w \in Callers : Replaced(o, w) \/ Admit(o, w, r) \/ PutMissed(o, w, r))
             \/ (\E j \in Jobs : Trigger(o, j))
      PROVE  EditChange
  BY <1>5, <1>1 DEF Start, RenewTimer, TickStart, StopCancelled, StopTails, Stop, Renewed,
     TickList, TickPersist, Admit, PutMissed, TickArm, Release, Replaced, Trigger
<1>6. ASSUME NEW e \in Executions,
             RunStep(e) \/ CancelStep(e) \/ Timeout(e) \/ Cancel(e)
               \/ \E p \in {"active", "ok", "failed"} : PromptAdvances(e, p)
      PROVE  EditChange
  BY <1>6, <1>1 DEF RunStep, Begin, Running, Ended, Settled, TimedOut, Deliver, CancelStep,
     CancelWaited, CancelPut, Timeout, Cancel, PromptAdvances
<1>7. ASSUME (\E j \in Jobs : Delete(j) \/ Foreign(j)) \/ Clock \/ DataCrash
      PROVE  EditChange
  BY <1>7, <1>1 DEF Delete, Foreign, Clock, DataCrash
<1> HIDE DEF EditChange
<1>8. "ok" \in Replies
  BY DEF Replies
<1>9. ASSUME NEW o \in Owners, OwnerStep(o) PROVE EditChange
  BY <1>5, <1>8, <1>9 DEF OwnerStep
<1> QED BY <1>2, <1>3, <1>4, <1>5, <1>6, <1>7, <1>8, <1>9 DEF CronNext

\* A prompt is counted when its execution begins to prompt.
Counts(e) ==
  /\ ex[e].at = "starting" /\ ex'[e].at = "prompting" /\ run[e].status # "none"
  /\ dispatched' = [dispatched EXCEPT ![e] = @ + 1] /\ UNCHANGED outbox

\* Ticks and admissions keep their indices; the outbox grows.
RestChange ==
  /\ tick' = [o \in Owners |-> tick'[o]]
  /\ adm' = [x \in Owners \X Callers |-> adm'[x]]
  /\ cursor' \in [Owners -> Int]
  /\ active' \in [Owners \X Jobs -> Executions \cup {None}]
  /\ OutboxGrows
  /\ UNCHANGED dispatched \/ \E e \in Executions : Counts(e)

LEMMA RestMoves ==
  ASSUME CronTypeOK, [CronNext]_vars
  PROVE  RestChange
<1>1. /\ DOMAIN tick = Owners /\ DOMAIN adm = Owners \X Callers
      /\ tick = [o \in Owners |-> tick[o]] /\ adm = [x \in Owners \X Callers |-> adm[x]]
      /\ cursor \in [Owners -> Int] /\ now \in Int
      /\ active \in [Owners \X Jobs -> Executions \cup {None}]
  BY TypeFacts, InstantFacts DEF CronTypeOK
<1>a. ASSUME UNCHANGED <<cursor, active, dispatched, outbox>>,
             tick' = tick \/ \E p \in Owners : \E u : tick' = [tick EXCEPT ![p] = u],
             adm' = adm \/ \E x \in Owners \X Callers : \E a : adm' = [adm EXCEPT ![x] = a]
      PROVE  RestChange
  <2>1. tick' = [o \in Owners |-> tick'[o]]
    BY <1>1, <1>a
  <2>2. adm' = [x \in Owners \X Callers |-> adm'[x]]
    BY <1>1, <1>a
  <2> QED BY <1>1, <1>a, <2>1, <2>2, OutboxStays DEF RestChange
<1>b. ASSUME UNCHANGED <<tick, adm, cursor>>,
             active' \in [Owners \X Jobs -> Executions \cup {None}],
             OutboxGrows,
             UNCHANGED dispatched \/ \E e \in Executions : Counts(e)
      PROVE  RestChange
  BY <1>1, <1>b DEF RestChange
<1>2. CASE UNCHANGED vars
  BY <1>2, <1>a DEF vars, seen
<1>3. ASSUME NEW p \in Owners, NEW tk \in TickStates, NextJob(p, tk),
             UNCHANGED <<cursor, active, dispatched, outbox>>
      PROVE  RestChange
  <2>1. <<p, "tick">> \in Owners \X Callers
    BY Indices
  <2> QED BY <1>3, <1>a, <2>1, NextJobTakes
<1>4. ASSUME NEW p \in Owners, TickFails(p),
             UNCHANGED <<cursor, active, dispatched, outbox>>
      PROVE  RestChange
  <2>1. <<p, "tick">> \in Owners \X Callers
    BY Indices
  <2> QED BY <1>4, <1>a, <2>1 DEF TickFails
<1>5. ASSUME NEW p \in Owners, NEW r \in Replies,
             Renewed(p, r) \/ TickArm(p, r) \/ TickList(p, r) \/ TickPersist(p, r)
      PROVE  RestChange
  <2>1. tick[p] \in TickStates /\ Listed(tick[p]) \in TickStates
    BY TypeFacts, ListedTyped
  <2>2. UNCHANGED <<cursor, active, dispatched, outbox>>
    BY <1>5 DEF Renewed, TickArm, TickList, TickPersist, seen
  <2>3. CASE TickFails(p)
    BY <1>4, <2>2, <2>3
  <2>4. CASE NextJob(p, tick[p]) \/ NextJob(p, Listed(tick[p]))
    BY <1>3, <2>1, <2>2, <2>4
  <2>5. CASE UNCHANGED adm /\ (tick' = tick \/ \E u : tick' = [tick EXCEPT ![p] = u])
    BY <1>a, <2>2, <2>5
  <2>6. ASSUME tick' = [tick EXCEPT ![p].at = "list"], UNCHANGED adm PROVE RestChange
    BY <2>5, <2>6
  <2> QED BY <1>5, <2>3, <2>4, <2>5, <2>6 DEF Renewed, TickArm, TickList, TickPersist, Listed
<1>6. ASSUME NEW p \in Owners, TickStart(p) PROVE RestChange
  <2>1. CASE UNCHANGED tick
    BY <1>6, <1>a, <2>1 DEF TickStart, seen
  <2>2. CASE tick' = [tick EXCEPT ![p].at = IF @ = "idle" THEN "list" ELSE @,
                                  ![p].timed = TRUE]
    <3>1. tick' = [o \in Owners |-> tick'[o]]
      BY <1>1, <2>2
    <3> QED BY <1>1, <1>6, <3>1, OutboxStays DEF TickStart, RestChange, seen
  <2> QED BY <1>6, <2>1, <2>2 DEF TickStart
<1>7. ASSUME NEW p \in Owners, NEW w \in Callers, NEW r \in Replies,
             Admit(p, w, r) \/ PutMissed(p, w, r) \/ Replaced(p, w)
      PROVE  RestChange
  <2>1. AdmissionMoves(p, w)
    BY <1>7, AdmissionsMove
  <2>2. /\ UNCHANGED <<cursor, active, dispatched, outbox>>
        /\ <<p, w>> \in Owners \X Callers /\ <<p, "tick">> \in Owners \X Callers
    BY <1>7, Indices DEF Admit, PutMissed, Replaced, seen
  <2>3. CASE w = "tick" /\ TickFails(p)
    BY <1>4, <2>2, <2>3
  <2>4. CASE w = "tick" /\ Work(p, tick[p])
    <3>1. tick[p].cur \in Jobs /\ tick[p] \in TickStates
      BY <2>1, <2>4, TypeFacts DEF AdmissionMoves, CronTypeOK
    <3>2. PICK u, a : /\ tick' = [tick EXCEPT ![p] = u]
                      /\ adm' = [adm EXCEPT ![<<p, "tick">>] = a]
      BY <3>1, <2>4, WorkAsks
    <3> QED BY <1>a, <2>2, <3>2
  <2>5. ASSUME NEW a, adm' = [adm EXCEPT ![<<p, w>>] = a], UNCHANGED tick PROVE RestChange
    BY <1>a, <2>2, <2>5
  <2>6. CASE w = "user"
    BY <2>1, <2>5, <2>6 DEF AdmissionMoves, CallerFails, CallerNext
  <2> QED BY <2>1, <2>3, <2>4, <2>5, <2>6, Indices DEF AdmissionMoves, CallerFails, CallerNext
<1>8. ASSUME NEW p \in Owners, NEW j \in Jobs, Trigger(p, j) PROVE RestChange
  <2> DEFINE at == IF cursor[p] + 1 > now THEN cursor[p] + 1 ELSE now
  <2>1. at \in Int
    BY <1>1
  <2>2. cursor' = [cursor EXCEPT ![p] = at]
    BY <1>8 DEF Trigger
  <2> HIDE DEF at
  <2>3. cursor' \in [Owners -> Int]
    BY <1>1, <2>1, <2>2
  <2>4. adm' = [x \in Owners \X Callers |-> adm'[x]]
    BY <1>1, <1>8 DEF Trigger
  <2> QED BY <1>1, <1>8, <2>3, <2>4, OutboxStays DEF Trigger, RestChange, seen
<1>9. ASSUME NEW p \in Owners, MainCrash(p) PROVE RestChange
  <2>1. cursor' \in [Owners -> Int]
    BY <1>1, <1>9 DEF MainCrash
  <2>2. tick' = [o \in Owners |-> tick'[o]]
    BY <1>1, <1>9 DEF MainCrash
  <2>3. adm' = [x \in Owners \X Callers |-> adm'[x]]
    BY <1>9 DEF MainCrash
  <2>4. active' \in [Owners \X Jobs -> Executions \cup {None}]
    BY <1>1, <1>9 DEF MainCrash
  <2> QED BY <1>9, <2>1, <2>2, <2>3, <2>4, OutboxStays DEF MainCrash, RestChange, seen
<1>10. ASSUME NEW p \in Owners, \/ Start(p) \/ RenewTimer(p) \/ Stop(p) \/ StopCancelled(p)
                                \/ StopTails(p) \/ \E r \in Replies : Release(p, r)
       PROVE  RestChange
  BY <1>1, <1>10, <1>b, OutboxStays DEF Start, RenewTimer, Stop, StopCancelled,
     StopTails, Release, seen
<1>11. ASSUME NEW e \in Executions, NEW ready \in BOOLEAN, Begin(e, ready) PROVE RestChange
  <2>1. CASE UNCHANGED active
    BY <1>1, <1>11, <1>b, <2>1, OutboxStays DEF Begin, seen
  <2>2. CASE active' = [active EXCEPT ![<<ex[e].owner, e[1]>>] = e]
    <3>1. active' \in [Owners \X Jobs -> Executions \cup {None}]
      BY <1>1, <2>2
    <3> QED BY <1>11, <1>b, <3>1, OutboxStays DEF Begin, seen
  <2> QED BY <1>11, <2>1, <2>2 DEF Begin
<1>12. ASSUME NEW e \in Executions, NEW r \in Replies, Running(e, r) PROVE RestChange
  <2>1. CASE UNCHANGED dispatched
    BY <1>1, <1>12, <1>b, <2>1, OutboxStays DEF Running
  <2>2. CASE /\ PutOk(e, r) /\ dispatched' = [dispatched EXCEPT ![e] = @ + 1]
             /\ ex' = [ex EXCEPT ![e].at = "prompting", ![e].prompt = "setup"]
    <3>1. ex[e] \in ExStates /\ DOMAIN ex = Executions
      BY TypeFacts
    <3>2. ex'[e] = [ex[e] EXCEPT !.at = "prompting", !.prompt = "setup"]
      BY <2>2, <3>1
    <3>3. ex'[e].at = "prompting"
      BY <3>1, <3>2 DEF ExStates
    <3>4. Counts(e)
      BY <1>12, <2>2, <3>3 DEF Running, Counts, PutOk
    <3> QED BY <1>1, <1>12, <1>b, <3>4, OutboxStays DEF Running
  <2> QED BY <1>12, <2>1, <2>2 DEF Running
<1>13. ASSUME NEW e \in Executions, NEW r \in Replies, Ended(e, r) PROVE RestChange
  <2> DEFINE x == <<ex[e].owner, e[1]>>
  <2>0. active' = active \/ active' = [active EXCEPT ![x] = IF @ = e THEN None ELSE @]
    BY <1>13 DEF Ended, Leave
  <2> HIDE DEF x
  <2>1. active' \in [Owners \X Jobs -> Executions \cup {None}]
    BY <1>1, <2>0
  <2> QED BY <1>13, <1>b, <2>1, OutboxStays DEF Ended, seen
<1>14. ASSUME NEW e \in Executions,
              \/ Settled(e) \/ TimedOut(e) \/ Timeout(e) \/ Cancel(e) \/ CancelStep(e)
              \/ (\E p \in {"active", "ok", "failed"} : PromptAdvances(e, p))
       PROVE  RestChange
  BY <1>1, <1>14, <1>b, OutboxStays DEF Settled, TimedOut, Timeout, Cancel, CancelStep,
     CancelWaited, CancelPut, PromptAdvances, seen
<1>15. ASSUME NEW e \in Executions, NEW outcome \in Deliveries, Deliver(e, outcome)
       PROVE  RestChange
  <2>1. OutboxGrows
    BY <1>15 DEF Deliver, OutboxGrows
  <2> QED BY <1>1, <1>15, <1>b, <2>1 DEF Deliver
<1>16. ASSUME \/ \E j \in Jobs : EditRead(j) \/ Delete(j) \/ Foreign(j)
              \/ \E enabled \in BOOLEAN, r \in Replies : EditWrite(enabled, r)
              \/ Clock \/ DataCrash
       PROVE  RestChange
  BY <1>1, <1>16, <1>b, OutboxStays DEF EditRead, Delete, Foreign, EditWrite, Clock,
     DataCrash, seen
<1> HIDE DEF RestChange
<1>17. "ok" \in Replies
  BY DEF Replies
<1>18. ASSUME NEW p \in Owners, OwnerStep(p) PROVE RestChange
  BY <1>5, <1>7, <1>10, <1>17, <1>18 DEF OwnerStep
<1>19. ASSUME NEW e \in Executions, RunStep(e) PROVE RestChange
  BY <1>11, <1>12, <1>13, <1>14, <1>15, <1>19 DEF RunStep
<1> QED BY <1>2, <1>6, <1>8, <1>9, <1>10, <1>14, <1>16, <1>18, <1>19 DEF CronNext
-----------------------------------------------------------------------------
(* Types and turns *)

LEMMA TickTyped ==
  ASSUME CronTypeOK, NEW o \in Owners, NEW u, NEW a, TickTo(o, u, a)
  PROVE  /\ u \in TickStates /\ a \in AdmStates
         /\ u.at \in {"work", "persist"} => u.cur \in Jobs
         /\ a.at # "idle" => a.e \in Executions /\ u.at = "work"
         /\ a.at = "replace" => a.old \in Executions
<1> DEFINE x == <<o, "tick">>
<1>1. /\ tick[o] \in TickStates /\ adm[x] \in AdmStates
      /\ tick[o].at \in {"work", "persist"} => tick[o].cur \in Jobs
      /\ adm[x].at # "idle" => adm[x].e \in Executions /\ tick[o].at = "work"
      /\ adm[x].at = "replace" => adm[x].old \in Executions
      /\ IdleTick \in TickStates /\ IdleTick.at = "idle"
      /\ IdleAdm \in AdmStates /\ IdleAdm.at = "idle"
  BY TypeFacts, Indices, RecordTypes DEF CronTypeOK
<1> HIDE DEF x
<1>2. ASSUME NEW tk \in TickStates, tk.cur \in Jobs, Asks(tk, u, a)
      PROVE  /\ u \in TickStates /\ a \in AdmStates /\ u.cur \in Jobs
             /\ a.at # "idle" => a.e \in Executions /\ u.at = "work"
             /\ a.at # "replace"
  BY <1>1, <1>2 DEF Asks
<1>3. ASSUME NEW tk \in TickStates, Takes(tk, u, a)
      PROVE  /\ u \in TickStates /\ a \in AdmStates
             /\ u.at \in {"work", "persist"} => u.cur \in Jobs
             /\ a.at # "idle" => a.e \in Executions /\ u.at = "work"
             /\ a.at # "replace"
  <2>1. CASE u \in TickStates /\ u.at \in {"arm", "idle"} /\ a = IdleAdm
    BY <1>1, <2>1
  <2>2. ASSUME NEW j \in tk.todo, NEW mid \in TickStates, Batch(tk, mid, j), Asks(mid, u, a)
        PROVE  mid.cur \in Jobs
    BY <2>2 DEF Batch, TickStates
  <2> QED BY <1>2, <1>3, <2>1, <2>2 DEF Takes
<1>4. CASE u = tick[o] /\ a = adm[x]
  BY <1>1, <1>4
<1>5. ASSUME NEW b \in BOOLEAN, a = adm[x], u = [tick[o] EXCEPT !.timed = b]
      PROVE  u \in TickStates /\ u.at = tick[o].at /\ u.cur = tick[o].cur
  BY <1>1, <1>5 DEF TickStates
<1>6. ASSUME NEW b \in BOOLEAN, a = adm[x], tick[o].at = "idle",
             u = [tick[o] EXCEPT !.at = "list", !.timed = b]
      PROVE  u \in TickStates /\ u.at = "list" /\ a.at = "idle"
  BY <1>1, <1>6 DEF TickStates
<1>7. CASE u = IdleTick /\ a \in AdmStates /\ a.at = "idle"
  BY <1>1, <1>7
<1>8. CASE Takes(Listed(tick[o]), u, a)
  BY <1>3, <1>8, ListedTyped
<1>9. CASE Takes(tick[o], u, a)
  BY <1>1, <1>3, <1>9
<1>10. CASE adm[x].at # "idle" /\ Asks(tick[o], u, a)
  BY <1>1, <1>2, <1>10
<1>11. CASE u = tick[o] /\ Decided(o, "tick", a)
  BY <1>1, <1>11 DEF Decided, x
<1> HIDE DEF Takes, Asks, Decided
<1>12. CASE a = adm[x] /\ \E b \in BOOLEAN :
               \/ u = [tick[o] EXCEPT !.timed = b]
               \/ tick[o].at = "idle" /\ u = [tick[o] EXCEPT !.at = "list", !.timed = b]
  BY <1>1, <1>5, <1>6, <1>12
<1> QED BY <1>4, <1>7, <1>8, <1>9, <1>10, <1>11, <1>12 DEF TickTo, x

\* Ticks and admissions, after a step.
LEMMA AdmTyped ==
  ASSUME CronTypeOK, [CronNext]_vars
  PROVE  /\ tick' \in [Owners -> TickStates] /\ adm' \in [Owners \X Callers -> AdmStates]
         /\ \A o \in Owners : tick'[o].at \in {"work", "persist"} => tick'[o].cur \in Jobs
         /\ \A x \in Owners \X Callers :
              /\ adm'[x].at # "idle" => adm'[x].e \in Executions
              /\ adm'[x].at = "replace" => adm'[x].old \in Executions
         /\ \A o \in Owners : adm'[<<o, "tick">>].at # "idle" => tick'[o].at = "work"
<1>1. ASSUME NEW o \in Owners
      PROVE  /\ tick'[o] \in TickStates /\ adm'[<<o, "tick">>] \in AdmStates
             /\ tick'[o].at \in {"work", "persist"} => tick'[o].cur \in Jobs
             /\ adm'[<<o, "tick">>].at # "idle" => /\ adm'[<<o, "tick">>].e \in Executions
                                                  /\ tick'[o].at = "work"
             /\ adm'[<<o, "tick">>].at = "replace" => adm'[<<o, "tick">>].old \in Executions
  BY TicksMove, TickTyped DEF TickMoves
<1>2. ASSUME NEW o \in Owners
      PROVE  /\ adm'[<<o, "user">>] \in AdmStates
             /\ adm'[<<o, "user">>].at # "idle" => adm'[<<o, "user">>].e \in Executions
             /\ adm'[<<o, "user">>].at = "replace" => adm'[<<o, "user">>].old \in Executions
  <2>1. /\ adm[<<o, "user">>] \in AdmStates
        /\ adm[<<o, "user">>].at # "idle" => adm[<<o, "user">>].e \in Executions
        /\ adm[<<o, "user">>].at = "replace" => adm[<<o, "user">>].old \in Executions
    BY TypeFacts, Indices
  <2> QED BY <2>1, UsersMove, RecordTypes DEF UserMoves, Decided
<1>3. ASSUME NEW x \in Owners \X Callers
      PROVE  /\ adm'[x] \in AdmStates
             /\ adm'[x].at # "idle" => adm'[x].e \in Executions
             /\ adm'[x].at = "replace" => adm'[x].old \in Executions
  <2>1. PICK o \in Owners : x = <<o, "tick">> \/ x = <<o, "user">>
    BY Indices
  <2> QED BY <1>1, <1>2, <2>1
<1>4. tick' = [o \in Owners |-> tick'[o]] /\ adm' = [x \in Owners \X Callers |-> adm'[x]]
  BY RestMoves DEF RestChange
<1>5. tick' \in [Owners -> TickStates]
  BY <1>1, <1>4
<1>6. adm' \in [Owners \X Callers -> AdmStates]
  BY <1>3, <1>4
<1> QED BY <1>1, <1>3, <1>5, <1>6

\* Executions and their tails, after a step.
LEMMA ExTyped ==
  ASSUME CronTypeOK, TurnInv, [CronNext]_vars
  PROVE  /\ ex' \in [Executions -> ExStates]
         /\ chain' \in [Owners \X Jobs -> Seq(Executions)]
         /\ \A e \in Executions : ex'[e].at = "ending" => ex'[e].status # "none"
<1> DEFINE Goal == /\ ex' \in [Executions -> ExStates]
                   /\ chain' \in [Owners \X Jobs -> Seq(Executions)]
                   /\ \A e \in Executions : ex'[e].at = "ending" => ex'[e].status # "none"
<1>1. /\ ex \in [Executions -> ExStates] /\ chain \in [Owners \X Jobs -> Seq(Executions)]
      /\ \A e \in Executions : ex[e].at = "ending" => ex[e].status # "none"
  BY DEF CronTypeOK
<1>2. CASE UNCHANGED <<ex, chain>>
  BY <1>1, <1>2
<1>3. CASE /\ \A e \in Executions : \/ ex'[e] = ex[e]
                                    \/ ex'[e] = [ex[e] EXCEPT !.cancel = TRUE]
           /\ ex' = [e \in Executions |-> ex'[e]] /\ UNCHANGED chain
  <2>1. ASSUME NEW e \in Executions
        PROVE  ex'[e] \in ExStates /\ ex'[e].at = ex[e].at /\ ex'[e].status = ex[e].status
    <3>1. ex[e] \in ExStates
      BY <1>1
    <3>2. CASE ex'[e] = [ex[e] EXCEPT !.cancel = TRUE]
      BY <3>1, <3>2 DEF ExStates
    <3> QED BY <1>3, <3>1, <3>2
  <2>2. ex' \in [Executions -> ExStates]
    BY <1>3, <2>1
  <2> QED BY <1>1, <1>3, <2>1, <2>2
<1>4. ASSUME NEW o \in Owners, NEW w \in Callers, NEW e \in Executions, Queues(o, w, e)
      PROVE  Goal
  <2> DEFINE x == <<o, e[1]>>
             row == [Fresh EXCEPT !.at = "queued", !.owner = o]
  <2>1. chain' = [chain EXCEPT ![x] = Append(@, e)] /\ ex' = [ex EXCEPT ![e] = row]
    BY <1>4 DEF Queues, Enqueue
  <2>2. row \in ExStates /\ row.at = "queued"
    BY DEF Fresh, ExStates
  <2>3. x \in Owners \X Jobs
    BY Indices
  <2> HIDE DEF x, row
  <2>4. Append(chain[x], e) \in Seq(Executions)
    BY <1>1, <2>3
  <2>5. chain' \in [Owners \X Jobs -> Seq(Executions)]
    BY <1>1, <2>1, <2>4
  <2>6. ex' \in [Executions -> ExStates]
    BY <1>1, <2>1, <2>2
  <2> QED BY <1>1, <2>1, <2>2, <2>5, <2>6
<1>5. ASSUME NEW e \in Executions, OwnStep(e) PROVE Goal
  <2>1. OwnMoves(e)
    BY <1>5, OwnStepMoves DEF TurnInv
  <2>2. ex' \in [Executions -> ExStates]
    BY <1>1, <2>1 DEF OwnMoves
  <2>3. \A d \in Executions : ex'[d].at = "ending" => ex'[d].status # "none"
    BY <1>1, <2>1 DEF OwnMoves
  <2>4. chain' = chain \/ Leaves(e)
    BY <2>1 DEF OwnMoves, Begins, Prompts, GoesOn
  <2>5. ASSUME Leaves(e) PROVE chain' \in [Owners \X Jobs -> Seq(Executions)]
    <3> DEFINE x == <<ex[e].owner, e[1]>>
    <3>1. x \in Owners \X Jobs /\ chain[x] # <<>>
      BY <2>5, Indices DEF Leaves, TurnInv, TurnSound, Busy
    <3>2. chain' = [chain EXCEPT ![x] = Tail(@)]
      BY <2>5 DEF Leaves
    <3> HIDE DEF x
    <3>3. Tail(chain[x]) \in Seq(Executions)
      BY <1>1, <3>1
    <3> QED BY <1>1, <3>1, <3>2, <3>3
  <2> QED BY <1>1, <2>2, <2>3, <2>4, <2>5
<1>6. ASSUME NEW o \in Owners, MainCrash(o) PROVE Goal
  <2> DEFINE row == [Fresh EXCEPT !.at = "over"]
  <2>1. row \in ExStates /\ row.at = "over"
    BY DEF Fresh, ExStates
  <2>2. ex' = [e \in Executions |-> IF ex[e].owner = o THEN row ELSE ex[e]]
    BY <1>6 DEF MainCrash
  <2> HIDE DEF row
  <2>3. ex' \in [Executions -> ExStates]
    BY <1>1, <2>1, <2>2
  <2>4. <<>> \in Seq(Executions)
    OBVIOUS
  <2>5. chain' \in [Owners \X Jobs -> Seq(Executions)]
    BY <1>1, <1>6, <2>4 DEF MainCrash
  <2> QED BY <1>1, <2>1, <2>2, <2>3, <2>5
<1> HIDE DEF Goal
<1>7. CASE UNCHANGED <<ex, chain>>
  BY <1>2, <1>7 DEF Goal
<1>8. Goal
  BY <1>2, <1>3, <1>4, <1>5, <1>6, <1>7, ExMoves DEF ExChange, Goal
<1> QED BY <1>8 DEF Goal

LEMMA TypeStep ==
  ASSUME CronTypeOK, TurnInv, [CronNext]_vars
  PROVE  CronTypeOK'
<1>1. plan' \in PlanSpace /\ now' \in 0 .. plan'.horizon
  BY PlanMoves DEF PlanChange
<1>2. job' \in [Jobs -> JobRows]
  BY JobMoves DEF JobChange
<1>3. run' \in [Executions -> RunRows]
  BY RunMoves DEF RunChange
<1>4. cursor' \in [Owners -> Int] /\ active' \in [Owners \X Jobs -> Executions \cup {None}]
  BY RestMoves DEF RestChange
<1>5. dispatched' \in [Executions -> Nat]
  <2>1. dispatched \in [Executions -> Nat]
    BY DEF CronTypeOK
  <2>2. dispatched' = dispatched
        \/ \E e \in Executions : dispatched' = [dispatched EXCEPT ![e] = @ + 1]
    BY RestMoves DEF RestChange, Counts
  <2> QED BY <2>1, <2>2
<1>6. /\ edit' \in [at : {"idle", "write"}, j : Jobs \cup {None}, row : JobRows]
      /\ edit'.at = "write" => edit'.j \in Jobs
  <2>1. /\ edit \in [at : {"idle", "write"}, j : Jobs \cup {None}, row : JobRows]
        /\ edit.at = "write" => edit.j \in Jobs
        /\ \A j \in Jobs : job[j] \in JobRows
    BY DEF CronTypeOK
  <2>2. CASE edit' = edit
    BY <2>1, <2>2
  <2>3. CASE edit' = [edit EXCEPT !.at = "idle"]
    BY <2>1, <2>3
  <2>4. ASSUME NEW j \in Jobs, edit' = [at |-> "write", j |-> j, row |-> job[j]]
        PROVE  edit' \in [at : {"idle", "write"}, j : Jobs \cup {None}, row : JobRows]
               /\ edit'.j \in Jobs
    BY <2>1, <2>4
  <2> QED BY <2>2, <2>3, <2>4, EditMoves DEF EditChange
<1> QED BY <1>1, <1>2, <1>3, <1>4, <1>5, <1>6, AdmTyped, ExTyped DEF CronTypeOK

\* Nobody begins to wait unless it may.
LEMMA WaitsFor ==
  ASSUME CronTypeOK, [CronNext]_vars, NEW x \in Owners \X Callers, adm'[x].at = "replace"
  PROVE  /\ adm'[x].e \in Executions
         /\ \/ adm'[x] = adm[x]
            \/ adm'[x].e = adm[x].e /\ adm[x].at = "admit" /\ Awaits(x[1], x[2])
<1>1. adm'[x].e \in Executions
  BY AdmTyped
<1>2. PICK o \in Owners : x = <<o, "tick">> \/ x = <<o, "user">>
  BY Indices
<1>3. CASE x = <<o, "tick">>
  <2>1. TickTo(o, tick'[o], adm'[x])
    BY <1>3, TicksMove DEF TickMoves
  <2>2. ASSUME NEW tk, NEW u, Asks(tk, u, adm'[x]) PROVE FALSE
    BY <2>2, RecordTypes DEF Asks
  <2>3. ASSUME NEW tk, NEW u, Takes(tk, u, adm'[x]) PROVE FALSE
    BY <2>2, <2>3, RecordTypes DEF Takes
  <2>4. adm'[x] = adm[x] \/ Decided(o, "tick", adm'[x])
    BY <1>3, <2>1, <2>2, <2>3 DEF TickTo
  <2> QED BY <1>1, <1>3, <2>4 DEF Decided
<1>4. CASE x = <<o, "user">>
  BY <1>1, <1>4, UsersMove, RecordTypes DEF UserMoves, Decided
<1> QED BY <1>2, <1>3, <1>4

\* Nothing but cancel flags changes.
LEMMA TurnsKept ==
  ASSUME CronTypeOK, TurnInv, UNCHANGED chain,
         \A e \in Executions : \/ ex'[e] = ex[e]
                               \/ ex'[e] = [ex[e] EXCEPT !.cancel = TRUE]
  PROVE  /\ \A e \in Executions : TurnSound(e)' /\ ex'[e].at = ex[e].at
         /\ \A o \in Owners, j \in Jobs : TailSound(o, j)'
<1>1. \A e \in Executions :
        /\ ex'[e].at = ex[e].at /\ ex'[e].owner = ex[e].owner /\ ex'[e].prompt = ex[e].prompt
  <2> TAKE e \in Executions
  <2>1. ex[e] \in ExStates
    BY TypeFacts
  <2> QED BY <2>1 DEF ExStates
<1>2. \A e \in Executions : TurnSound(e)'
  BY <1>1 DEF TurnInv, TurnSound, InFlight
<1>3. ASSUME NEW o \in Owners, NEW j \in Jobs PROVE TailSound(o, j)'
  <2> DEFINE c == chain[<<o, j>>]
  <2>1. c \in Seq(Executions) /\ chain'[<<o, j>>] = c
    BY TypeFacts
  <2>2. \A i \in DOMAIN c : c[i] \in Executions
    BY <2>1
  <2> QED BY <1>1, <2>1, <2>2 DEF TurnInv, TailSound
<1> QED BY <1>1, <1>2, <1>3

\* An execution is put behind the others of its job.
LEMMA TurnsQueue ==
  ASSUME CronTypeOK, TurnInv, NEW p \in Owners, NEW w \in Callers, NEW d \in Executions,
         Queues(p, w, d)
  PROVE  /\ \A e \in Executions : TurnSound(e)'
         /\ \A o \in Owners, j \in Jobs : TailSound(o, j)'
         /\ \A e \in Executions \ {d} : ex'[e] = ex[e]
<1>1. /\ DOMAIN ex = Executions /\ DOMAIN chain = Owners \X Jobs /\ <<p, d[1]>> \in Owners \X Jobs
      /\ \A o \in Owners, j \in Jobs : chain[<<o, j>>] \in Seq(Executions)
      /\ <<p, w>> \in Owners \X Callers /\ p # NoOwner /\ d[1] \in Jobs
  BY TypeFacts, Indices, ScheduleAssumption
<1>2. ex[d].at \in {"none", "over"}
  BY <1>1 DEF Queues, TurnInv, WaitSound
<1>3. /\ \A e \in Executions \ {d} : ex'[e] = ex[e]
      /\ ex'[d].at = "queued" /\ ex'[d].owner = p /\ ex'[d].prompt = "none"
  BY <1>1 DEF Queues, Enqueue, Fresh
<1>4. /\ chain'[<<p, d[1]>>] = Append(chain[<<p, d[1]>>], d)
      /\ \A y \in Owners \X Jobs : y # <<p, d[1]>> => chain'[y] = chain[y]
  BY <1>1 DEF Queues, Enqueue
<1>5. ASSUME NEW e \in Executions PROVE TurnSound(e)'
  <2>1. CASE e = d
    BY <1>3, <2>1 DEF TurnSound, Busy, InFlight
  <2>2. CASE e # d /\ ex[e].at \in Busy
    <3> DEFINE x == <<ex[e].owner, e[1]>>
    <3>1. x \in Owners \X Jobs /\ chain[x] # <<>> /\ Head(chain[x]) = e
      BY <2>2, Indices DEF TurnInv, TurnSound
    <3>2. chain[x] \in Seq(Executions)
      BY <1>1, <3>1
    <3>3. Append(chain[x], d) # <<>> /\ Head(Append(chain[x], d)) = e
      BY <3>1, <3>2
    <3>4. chain'[x] # <<>> /\ Head(chain'[x]) = e
      BY <1>4, <3>1, <3>3
    <3> QED BY <1>3, <2>2, <3>1, <3>4 DEF TurnInv, TurnSound, InFlight
  <2>3. CASE e # d /\ ex[e].at \notin Busy
    BY <1>3, <2>3 DEF TurnInv, TurnSound, InFlight
  <2> QED BY <2>1, <2>2, <2>3
<1>6. ASSUME NEW o \in Owners, NEW j \in Jobs PROVE TailSound(o, j)'
  <2> DEFINE c == chain[<<o, j>>]
  <2>1. c \in Seq(Executions) /\ TailSound(o, j) /\ <<o, j>> \in Owners \X Jobs
    BY <1>1, Indices DEF TurnInv
  <2>2. \A i \in DOMAIN c :
          /\ c[i] \in Executions \ {d} /\ ex'[c[i]] = ex[c[i]] /\ c[i][1] = j
          /\ ex[c[i]].owner = o /\ (ex[c[i]].at = "queued" \/ (i = 1 /\ ex[c[i]].at \in Busy))
          /\ \A k \in DOMAIN c : c[k] = c[i] => k = i
    <3>1. \A i \in DOMAIN c : c[i] \in Executions
      BY <2>1
    <3> QED BY <1>2, <1>3, <2>1, <3>1 DEF TailSound, Busy
  <2>3. CASE <<o, j>> # <<p, d[1]>>
    <3>1. chain'[<<o, j>>] = c
      BY <1>4, <2>1, <2>3
    <3> QED BY <2>2, <3>1 DEF TailSound
  <2>4. CASE <<o, j>> = <<p, d[1]>>
    <3> HIDE DEF c
    <3> DEFINE b == Append(c, d)
    <3>1. chain'[<<o, j>>] = b
      BY <1>4, <2>4 DEF c
    <3>2. /\ DOMAIN c = 1 .. Len(c) /\ Len(c) \in Nat /\ DOMAIN b = 1 .. Len(c) + 1
          /\ b[Len(c) + 1] = d /\ \A i \in DOMAIN c : b[i] = c[i]
      BY <2>1
    <3> HIDE DEF b
    <3>3. ASSUME NEW i \in DOMAIN b
          PROVE  /\ b[i][1] = j /\ ex'[b[i]].owner = o
                 /\ ex'[b[i]].at = "queued" \/ (i = 1 /\ ex'[b[i]].at \in Busy)
                 /\ \A k \in DOMAIN b : b[k] = b[i] => k = i
      <4>1. i \in DOMAIN c \/ i = Len(c) + 1
        BY <3>2
      <4>2. \A k \in DOMAIN b : k \in DOMAIN c \/ k = Len(c) + 1
        BY <3>2
      <4>3. CASE i \in DOMAIN c
        BY <2>2, <3>2, <4>2, <4>3
      <4>4. CASE i = Len(c) + 1
        <5>1. d[1] = j /\ p = o
          BY <2>4
        <5> QED BY <1>3, <2>2, <3>2, <4>2, <4>4, <5>1
      <4> QED BY <4>1, <4>3, <4>4
    <3> QED BY <3>1, <3>3 DEF TailSound
  <2> QED BY <2>3, <2>4
<1> QED BY <1>3, <1>5, <1>6

\* An execution goes on by itself.
LEMMA TurnsGoOn ==
  ASSUME CronTypeOK, TurnInv, NEW d \in Executions, OwnMoves(d)
  PROVE  /\ \A e \in Executions : TurnSound(e)'
         /\ \A o \in Owners, j \in Jobs : TailSound(o, j)'
         /\ \A e \in Executions \ {d} : ex'[e] = ex[e]
         /\ ex[d].at \in Busy \cup {"queued"}
<1> DEFINE x == <<ex[d].owner, d[1]>>
<1>1. /\ DOMAIN ex = Executions /\ DOMAIN chain = Owners \X Jobs /\ d[1] \in Jobs
      /\ \A o \in Owners, j \in Jobs : chain[<<o, j>>] \in Seq(Executions)
  BY TypeFacts, Indices
<1>2. /\ ex[d].at \in Busy \cup {"queued"} /\ ex[d].owner \in Owners
      /\ chain[x] # <<>> /\ Head(chain[x]) = d /\ x \in Owners \X Jobs
      /\ \A e \in Executions \ {d} : ex'[e] = ex[e]
      /\ ex'[d].owner = ex[d].owner
  BY <1>1 DEF OwnMoves, Begins, Prompts, GoesOn, Leaves, TurnInv, TurnSound, Busy
<1>3. \/ UNCHANGED chain /\ ex'[d].at \in Busy
      \/ ex'[d].at = "over" /\ chain' = [chain EXCEPT ![x] = Tail(@)]
  BY DEF OwnMoves, Begins, Prompts, GoesOn, Leaves, Busy
<1>4. ex'[d].prompt \in {"setup", "active"} => ex'[d].at \in {"prompting", "timeout"}
  <2>1. InFlight(d) => ex[d].at \in {"prompting", "timeout"}
    BY DEF TurnInv, TurnSound
  <2> QED BY <2>1 DEF OwnMoves, Begins, Prompts, GoesOn, Leaves, InFlight
<1> HIDE DEF x
<1>5. ASSUME NEW e \in Executions PROVE TurnSound(e)'
  <2>1. CASE e = d
    BY <1>2, <1>3, <1>4, <2>1 DEF TurnSound, Busy, InFlight, x
  <2>2. CASE e # d
    <3>1. ex[e].at \in Busy => chain'[<<ex[e].owner, e[1]>>] = chain[<<ex[e].owner, e[1]>>]
      <4>1. ASSUME ex[e].at \in Busy
            PROVE  <<ex[e].owner, e[1]>> # x /\ <<ex[e].owner, e[1]>> \in Owners \X Jobs
        <5>1. ex[e].owner \in Owners /\ Head(chain[<<ex[e].owner, e[1]>>]) = e
          BY <4>1 DEF TurnInv, TurnSound
        <5> QED BY <1>2, <2>2, <5>1, Indices
      <4> QED BY <1>1, <1>3, <4>1
    <3> QED BY <1>2, <2>2, <3>1 DEF TurnInv, TurnSound, InFlight
  <2> QED BY <2>1, <2>2
<1>6. ASSUME NEW o \in Owners, NEW j \in Jobs PROVE TailSound(o, j)'
  <2> DEFINE c == chain[<<o, j>>]
  <2>1. c \in Seq(Executions) /\ <<o, j>> \in Owners \X Jobs
    BY <1>1, Indices
  <2>2. \A i \in DOMAIN c :
          /\ c[i] \in Executions /\ c[i][1] = j
          /\ ex[c[i]].owner = o /\ (ex[c[i]].at = "queued" \/ (i = 1 /\ ex[c[i]].at \in Busy))
          /\ \A k \in DOMAIN c : c[k] = c[i] => k = i
    <3>1. \A i \in DOMAIN c : c[i] \in Executions
      BY <2>1
    <3> QED BY <3>1 DEF TurnInv, TailSound
  <2>3. CASE <<o, j>> # x
    <3>1. chain'[<<o, j>>] = c
      BY <1>1, <1>3, <2>1, <2>3
    <3>2. \A i \in DOMAIN c : c[i] # d
      BY <2>2, <2>3 DEF x
    <3> QED BY <1>2, <2>2, <3>1, <3>2 DEF TailSound
  <2>4. CASE <<o, j>> = x
    <3>0. c = chain[x]
      BY <2>4
    <3> HIDE DEF c
    <3>1. Len(c) \in Nat /\ DOMAIN c = 1 .. Len(c) /\ c # <<>> /\ 1 \in DOMAIN c /\ c[1] = d
      BY <1>2, <2>1, <3>0
    <3>2. CASE UNCHANGED chain /\ ex'[d].at \in Busy
      <4>1. chain'[<<o, j>>] = c
        BY <3>2 DEF c
      <4>2. \A i \in DOMAIN c : ex'[c[i]].owner = o
        BY <1>2, <2>2
      <4>3. \A i \in DOMAIN c : ex'[c[i]].at = "queued" \/ (i = 1 /\ ex'[c[i]].at \in Busy)
        BY <1>2, <2>2, <3>1, <3>2
      <4> QED BY <2>2, <4>1, <4>2, <4>3 DEF TailSound
    <3>3. CASE chain' = [chain EXCEPT ![x] = Tail(@)]
      <4> DEFINE b == Tail(c)
      <4>1. chain'[<<o, j>>] = b
        BY <1>1, <2>1, <2>4, <3>0, <3>3
      <4>2. /\ DOMAIN b = 1 .. Len(c) - 1 /\ \A i \in DOMAIN b : b[i] = c[i + 1]
        BY <2>1, <3>1
      <4> HIDE DEF b
      <4>3. \A i \in DOMAIN b : i + 1 \in DOMAIN c /\ i + 1 # 1 /\ i \in Int
        BY <3>1, <4>2
      <4>4. ASSUME NEW i \in DOMAIN b
            PROVE  /\ b[i][1] = j /\ ex'[b[i]].owner = o /\ ex'[b[i]].at = "queued"
                   /\ \A k \in DOMAIN b : b[k] = b[i] => k = i
        <5>1. c[i + 1] # d /\ c[i + 1] \in Executions
          BY <2>2, <3>1, <4>3
        <5>2. ASSUME NEW k \in DOMAIN b, b[k] = b[i] PROVE k = i
          <6>1. k + 1 = i + 1
            BY <2>2, <4>2, <4>3, <5>2
          <6> QED BY <4>3, <6>1
        <5> QED BY <1>2, <2>2, <4>2, <4>3, <5>1, <5>2
      <4> QED BY <4>1, <4>4 DEF TailSound
    <3> QED BY <1>3, <3>2, <3>3
  <2> QED BY <2>3, <2>4
<1> QED BY <1>2, <1>5, <1>6

\* A scheduler crashes with what it runs.
LEMMA TurnsLost ==
  ASSUME CronTypeOK, TurnInv, NEW p \in Owners, MainCrash(p)
  PROVE  /\ \A e \in Executions : TurnSound(e)'
         /\ \A o \in Owners, j \in Jobs : TailSound(o, j)'
         /\ \A e \in Executions : ex'[e].at = "over" \/ ex'[e] = ex[e]
<1>1. \A e \in Executions :
        /\ ex[e].owner = p => ex'[e].at = "over" /\ ex'[e].prompt = "none"
        /\ ex[e].owner # p => ex'[e] = ex[e]
  BY DEF MainCrash, Fresh
<1>2. \A o \in Owners, j \in Jobs :
        /\ o # p => chain'[<<o, j>>] = chain[<<o, j>>]
        /\ o = p => chain'[<<o, j>>] = <<>>
  BY Indices DEF MainCrash
<1>3. ASSUME NEW e \in Executions PROVE TurnSound(e)'
  BY <1>1, <1>2, Indices DEF TurnInv, TurnSound, InFlight, Busy
<1>4. ASSUME NEW o \in Owners, NEW j \in Jobs PROVE TailSound(o, j)'
  <2>1. CASE o = p
    BY <1>2, <2>1 DEF TailSound
  <2>2. CASE o # p
    <3> DEFINE c == chain[<<o, j>>]
    <3>1. c \in Seq(Executions) /\ chain'[<<o, j>>] = c
      BY <1>2, <2>2, TypeFacts
    <3>2. \A i \in DOMAIN c : c[i] \in Executions
      BY <3>1
    <3> QED BY <1>1, <2>2, <3>1, <3>2 DEF TurnInv, TailSound
  <2> QED BY <2>1, <2>2
<1> QED BY <1>1, <1>3, <1>4

LEMMA TurnStep ==
  ASSUME CronTypeOK, TurnInv, [CronNext]_vars
  PROVE  TurnInv'
<1> DEFINE Turns == /\ \A e \in Executions : TurnSound(e)'
                    /\ \A o \in Owners, j \in Jobs : TailSound(o, j)'
           Kept(e) == ex'[e].at = ex[e].at \/ ex'[e].at = "over"
           Waited(e) == \E x \in Owners \X Callers :
                          adm[x].at = "replace" /\ adm'[x].at = "replace" /\ adm[x].e = e
           Rest == \A e \in Executions : Waited(e) => Kept(e)
<1>1. ASSUME UNCHANGED <<ex, chain>> PROVE Turns /\ Rest
  BY <1>1, TurnsKept
<1>2. ASSUME UNCHANGED chain,
             \A e \in Executions : \/ ex'[e] = ex[e]
                                   \/ ex'[e] = [ex[e] EXCEPT !.cancel = TRUE]
      PROVE  Turns /\ Rest
  BY <1>2, TurnsKept
<1>3. ASSUME NEW p \in Owners, NEW w \in Callers, NEW d \in Executions, Queues(p, w, d)
      PROVE  Turns /\ Rest
  <2>1. \A e \in Executions : Waited(e) => e # d
    <3>1. <<p, w>> \in Owners \X Callers
      OBVIOUS
    <3> QED BY <1>3, <3>1 DEF Queues, TurnInv, WaitSound
  <2> HIDE DEF Waited
  <2> QED BY <1>3, <2>1, TurnsQueue
<1>4. ASSUME NEW d \in Executions, OwnStep(d) PROVE Turns /\ Rest
  <2>1. OwnMoves(d)
    BY <1>4, OwnStepMoves DEF TurnInv
  <2>2. \A e \in Executions : Waited(e) => ex[e].at \in {"none", "over"}
    BY DEF TurnInv, WaitSound
  <2> HIDE DEF Waited
  <2> QED BY <2>1, <2>2, TurnsGoOn DEF Busy
<1>5. ASSUME NEW p \in Owners, MainCrash(p) PROVE Turns /\ Rest
  BY <1>5, TurnsLost
<1>6. Turns /\ Rest
  <2> HIDE DEF Turns, Rest
  <2> QED BY <1>1, <1>2, <1>3, <1>4, <1>5, ExMoves DEF ExChange
<1>7. ASSUME NEW x \in Owners \X Callers PROVE WaitSound(x)'
  <2> SUFFICES ASSUME adm'[x].at = "replace"
               PROVE  /\ ex'[adm'[x].e].at \in {"none", "over"}
                      /\ \A y \in Owners \X Callers :
                           adm'[y].at = "replace" /\ adm'[y].e = adm'[x].e => y = x
    BY DEF WaitSound
  <2>1. \A y \in Owners \X Callers : adm'[y].at = "replace" =>
          /\ adm'[y].e \in Executions
          /\ \/ adm'[y] = adm[y]
             \/ adm'[y].e = adm[y].e /\ adm[y].at = "admit" /\ Awaits(y[1], y[2])
    BY WaitsFor
  <2>2. \A y \in Owners \X Callers : y = <<y[1], y[2]>>
    BY Indices
  <2>3. ex'[adm'[x].e].at \in {"none", "over"}
    <3>1. CASE adm'[x] = adm[x]
      <4>1. Kept(adm[x].e)
        BY <1>6, <2>1, <3>1
      <4> QED BY <3>1, <4>1 DEF TurnInv, WaitSound
    <3>2. CASE adm'[x].e = adm[x].e /\ adm[x].at = "admit" /\ Awaits(x[1], x[2])
      BY <2>1, <2>2, <3>2 DEF Awaits
    <3> QED BY <2>1, <3>1, <3>2
  <2>4. ASSUME NEW y \in Owners \X Callers, adm'[y].at = "replace", adm'[y].e = adm'[x].e
        PROVE  y = x
    <3>1. CASE adm'[x] = adm[x] /\ adm'[y] = adm[y]
      BY <2>4, <3>1 DEF TurnInv, WaitSound
    <3>2. CASE adm'[x].e = adm[x].e /\ adm[x].at = "admit" /\ Awaits(x[1], x[2])
      BY <2>2, <2>4, <3>2 DEF Awaits
    <3>3. CASE adm'[y].e = adm[y].e /\ adm[y].at = "admit" /\ Awaits(y[1], y[2])
      BY <2>2, <2>4, <3>3 DEF Awaits
    <3> QED BY <2>1, <2>4, <3>1, <3>2, <3>3
  <2> QED BY <2>3, <2>4
<1> QED BY <1>6, <1>7 DEF TurnInv
-----------------------------------------------------------------------------
(* Prompts and completed runs *)

\* While nobody edits, no row is lost.
LEMMA RowsKept ==
  ASSUME CronTypeOK, [CronNext]_vars, plan'.edited = 0
  PROVE  /\ plan.edited = 0
         /\ \A e \in Executions : run[e].status # "none" => run'[e].status # "none"
<1>1. plan.edited \in Nat /\ plan'.edited >= plan.edited
  BY PlanMoves, PlanFacts DEF PlanChange, CronTypeOK
<1>2. plan.edited = 0 /\ plan'.edited # plan.edited + 1
  BY <1>1
<1>3. ASSUME NEW e \in Executions, run[e].status # "none" PROVE run'[e].status # "none"
  <2>1. RunTo(e)
    BY RunMoves DEF RunChange
  <2> QED BY <1>2, <1>3, <2>1 DEF RunTo, Written
<1> QED BY <1>2, <1>3

\* An execution that is queued or starting was so before, or comes from an admission.
LEMMA BeforeStart ==
  ASSUME CronTypeOK, TurnInv, [CronNext]_vars, NEW e \in Executions,
         ex'[e].at \in {"queued", "starting"}
  PROVE  Unprompted(e)
<1>1. CASE UNCHANGED <<ex, chain>>
  BY <1>1 DEF Unprompted
<1>2. CASE UNCHANGED chain /\ \A d \in Executions :
             ex'[d] = ex[d] \/ ex'[d] = [ex[d] EXCEPT !.cancel = TRUE]
  <2>1. ex'[e].at = ex[e].at
    BY <1>2, TurnsKept
  <2> QED BY <2>1 DEF Unprompted
<1>3. ASSUME NEW p \in Owners, NEW w \in Callers, NEW d \in Executions, Queues(p, w, d)
      PROVE  Unprompted(e)
  <2>1. CASE e = d
    BY <1>3, <2>1, Indices DEF Queues, Unprompted
  <2>2. CASE e # d
    <3>1. ex'[e] = ex[e]
      BY <1>3, <2>2, TurnsQueue
    <3> QED BY <3>1 DEF Unprompted
  <2> QED BY <2>1, <2>2
<1>4. ASSUME NEW d \in Executions, OwnStep(d) PROVE Unprompted(e)
  <2>1. OwnMoves(d)
    BY <1>4, OwnStepMoves DEF TurnInv
  <2>2. CASE e = d
    BY <2>1, <2>2 DEF OwnMoves, Begins, Prompts, GoesOn, Leaves, Busy, Unprompted
  <2>3. CASE e # d
    <3>1. ex'[e] = ex[e]
      BY <2>1, <2>3, TurnsGoOn
    <3> QED BY <3>1 DEF Unprompted
  <2> QED BY <2>2, <2>3
<1>5. ASSUME NEW p \in Owners, MainCrash(p) PROVE Unprompted(e)
  <2>1. ex'[e] = ex[e]
    BY <1>5, TurnsLost
  <2> QED BY <2>1 DEF Unprompted
<1> QED BY <1>1, <1>2, <1>3, <1>4, <1>5, ExMoves DEF ExChange

LEMMA DispatchStep ==
  ASSUME CronTypeOK, TurnInv, DispatchInv, [CronNext]_vars
  PROVE  DispatchInv'
<1> SUFFICES ASSUME plan'.edited = 0, NEW e \in Executions
             PROVE  dispatched'[e] <= 1 /\ (Unprompted(e)' => dispatched'[e] = 0)
  BY DEF DispatchInv
<1>1. /\ plan.edited = 0 /\ (run'[e].status = "none" => run[e].status = "none")
      /\ dispatched[e] <= 1 /\ (Unprompted(e) => dispatched[e] = 0)
      /\ DOMAIN dispatched = Executions /\ dispatched[e] \in Nat
  BY RowsKept, TypeFacts DEF DispatchInv
<1>2. Unprompted(e)' => Unprompted(e)
  <2>1. ASSUME NEW x \in Owners \X Callers, adm'[x].at = "replace", adm'[x].e = e
        PROVE  Unprompted(e)
    <3>1. \/ adm'[x] = adm[x]
          \/ adm'[x].e = adm[x].e /\ adm[x].at = "admit" /\ Awaits(x[1], x[2])
      BY <2>1, WaitsFor
    <3>2. x = <<x[1], x[2]>>
      BY Indices
    <3> QED BY <2>1, <3>1, <3>2 DEF Awaits, Unprompted
  <2> QED BY <1>1, <2>1, BeforeStart DEF Unprompted
<1>3. CASE UNCHANGED dispatched
  BY <1>1, <1>2, <1>3
<1>4. ASSUME NEW d \in Executions, Counts(d)
      PROVE  dispatched'[e] <= 1 /\ (Unprompted(e)' => dispatched'[e] = 0)
  <2>1. CASE e # d
    BY <1>1, <1>2, <1>4, <2>1 DEF Counts
  <2>2. CASE e = d
    <3>1. dispatched'[e] = 1
      BY <1>1, <1>4, <2>2 DEF Counts, Unprompted
    <3>2. ~Unprompted(e)'
      <4>1. run'[e].status # "none" /\ ex'[e].at = "prompting"
        BY <1>1, <1>4, <2>2 DEF Counts
      <4>2. TurnInv'
        BY TurnStep
      <4>3. \A x \in Owners \X Callers : ~(adm'[x].at = "replace" /\ adm'[x].e = e)
        BY <4>1, <4>2 DEF TurnInv, WaitSound
      <4> QED BY <4>1, <4>3 DEF Unprompted
    <3> QED BY <3>1, <3>2
  <2> QED BY <2>1, <2>2
<1> QED BY <1>3, <1>4, RestMoves DEF RestChange

LEMMA CompletedStep ==
  ASSUME CronTypeOK, TurnInv, CompletedInv, [CronNext]_vars
  PROVE  CompletedInv'
<1> SUFFICES ASSUME NEW e \in Executions
             PROVE  /\ run'[e].status = "completed" => SaidTrue(e, run[e].linked)'
                    /\ ex'[e].at \in {"prompting", "timeout", "delivering"}
                         => dispatched'[e] > 0
                    /\ ex'[e].at = "ending" /\ ex'[e].status = "completed"
                         => SaidTrue(e, ex[e].linked)'
  BY DEF CompletedInv
<1>1. /\ run[e].status = "completed" => SaidTrue(e, run[e].linked)
      /\ ex[e].at \in {"prompting", "timeout", "delivering"} => dispatched[e] > 0
      /\ ex[e].at = "ending" /\ ex[e].status = "completed" => SaidTrue(e, ex[e].linked)
      /\ DOMAIN dispatched = Executions /\ dispatched[e] \in Nat /\ ex[e] \in ExStates
  BY TypeFacts DEF CompletedInv
<1>2. plan'.delivering = plan.delivering /\ OutboxGrows
  BY PlanMoves, RestMoves DEF PlanChange, RestChange
<1>3. dispatched[e] > 0 => dispatched'[e] > 0
  <2>1. CASE UNCHANGED dispatched
    BY <2>1
  <2>2. ASSUME NEW d \in Executions, dispatched' = [dispatched EXCEPT ![d] = @ + 1]
        PROVE  dispatched[e] > 0 => dispatched'[e] > 0
    BY <1>1, <2>2
  <2> QED BY <2>1, <2>2, RestMoves DEF RestChange, Counts
<1>4. /\ SaidTrue(e, run[e].linked) /\ run'[e] = run[e] => SaidTrue(e, run[e].linked)'
      /\ SaidTrue(e, ex[e].linked) /\ run'[e].linked = ex[e].linked => SaidTrue(e, run[e].linked)'
      /\ SaidTrue(e, ex[e].linked) /\ ex'[e].linked = ex[e].linked => SaidTrue(e, ex[e].linked)'
  BY <1>2, <1>3 DEF SaidTrue, OutboxGrows
<1>5. run'[e].status = "completed" => SaidTrue(e, run[e].linked)'
  <2>1. RunTo(e)
    BY RunMoves DEF RunChange
  <2> QED BY <1>1, <1>4, <2>1 DEF RunTo, Written, NoRun
<1> DEFINE Goal == /\ ex'[e].at \in {"prompting", "timeout", "delivering"} => dispatched'[e] > 0
                   /\ ex'[e].at = "ending" /\ ex'[e].status = "completed"
                        => SaidTrue(e, ex[e].linked)'
<1>6. ASSUME \/ ex'[e] = ex[e] \/ ex'[e] = [ex[e] EXCEPT !.cancel = TRUE]
             \/ ex'[e].at \in {"queued", "over"}
      PROVE  Goal
  <2>1. CASE ex'[e] = [ex[e] EXCEPT !.cancel = TRUE]
    <3>1. ex'[e].at = ex[e].at /\ ex'[e].status = ex[e].status /\ ex'[e].linked = ex[e].linked
      BY <1>1, <2>1 DEF ExStates
    <3> QED BY <1>1, <1>3, <1>4, <3>1
  <2> QED BY <1>1, <1>3, <1>4, <1>6, <2>1
<1>7. ASSUME NEW p \in Owners, NEW w \in Callers, NEW d \in Executions, Queues(p, w, d)
      PROVE  Goal
  <2>1. CASE e = d
    <3>1. ex'[e].at = "queued"
      BY <1>7, <2>1, TypeFacts DEF Queues, Enqueue, Fresh
    <3> QED BY <1>6, <3>1
  <2>2. CASE e # d
    BY <1>6, <1>7, <2>2, TurnsQueue
  <2> QED BY <2>1, <2>2
<1>8. ASSUME NEW d \in Executions, OwnStep(d) PROVE Goal
  <2>1. OwnMoves(d)
    BY <1>8, OwnStepMoves DEF TurnInv
  <2>2. CASE e # d
    BY <1>6, <2>1, <2>2, TurnsGoOn
  <2>3. CASE e = d /\ Begins(e)
    BY <2>3 DEF Begins, Busy
  <2>4. CASE e = d /\ Prompts(e)
    BY <1>1, <2>4 DEF Prompts
  <2>5. CASE e = d /\ GoesOn(e)
    <3>1. ex'[e].at \in {"prompting", "timeout", "delivering"} => dispatched'[e] > 0
      BY <1>1, <1>3, <2>5 DEF GoesOn
    <3>2. ASSUME ex'[e].at = "ending", ex'[e].status = "completed"
          PROVE  SaidTrue(e, ex[e].linked)'
      <4>1. \/ ex[e].at = "prompting" /\ ~plan.delivering
            \/ /\ ex[e].at = "delivering"
               /\ e \in silent' \/ (e \in outbound' /\ ex'[e].linked)
        BY <2>5, <3>2 DEF GoesOn
      <4> QED BY <1>1, <1>2, <1>3, <4>1 DEF SaidTrue, OutboxGrows
    <3> QED BY <3>1, <3>2
  <2>6. CASE e = d /\ Leaves(e)
    BY <1>6, <2>6 DEF Leaves
  <2> QED BY <2>1, <2>2, <2>3, <2>4, <2>5, <2>6 DEF OwnMoves
<1>9. ASSUME NEW p \in Owners, MainCrash(p) PROVE Goal
  BY <1>6, <1>9, TurnsLost
<1> HIDE DEF Goal
<1>10. Goal
  BY <1>6, <1>7, <1>8, <1>9, ExMoves DEF ExChange
<1> QED BY <1>5, <1>10 DEF Goal
-----------------------------------------------------------------------------
(* Instants *)

\* The schedule stays, and what is accounted for stays so while nobody edits.
LEMMA AccountedKept ==
  ASSUME CronTypeOK, [CronNext]_vars, plan'.edited = 0
  PROVE  /\ \A j \in Jobs, t \in Instants : OnSchedule(j, t)' <=> OnSchedule(j, t)
         /\ \A j \in Jobs : \A next : Accounted(j, next) => Accounted(j, next)'
<1>1. \A j \in Jobs, t \in Instants : OnSchedule(j, t)' <=> OnSchedule(j, t)
  <2>1. plan'.schedule = plan.schedule
    BY PlanMoves DEF PlanChange
  <2> QED BY <2>1 DEF OnSchedule, NextAt
<1>2. ASSUME NEW j \in Jobs, NEW next, Accounted(j, next) PROVE Accounted(j, next)'
  <2>1. \A t \in Instants : run[<<j, t>>].status # "none" => run'[<<j, t>>].status # "none"
    <3>1. \A t \in Instants : <<j, t>> \in Executions
      BY DEF Executions
    <3> QED BY <3>1, RowsKept
  <2> QED BY <1>1, <1>2, <2>1 DEF Accounted
<1> QED BY <1>1, <1>2

LEMMA TakesDue ==
  ASSUME CronTypeOK, NEW tk \in TickStates, NEW u, NEW a, Takes(tk, u, a),
         \A j \in tk.todo : Accounted(j, tk.snap[j].next)
  PROVE  DueSound(u, a)
<1>1. CASE u.at \in {"arm", "idle"} /\ u.todo = {}
  BY <1>1 DEF DueSound
<1>2. ASSUME NEW j \in tk.todo, NEW mid \in TickStates, Batch(tk, mid, j), Asks(mid, u, a)
      PROVE  DueSound(u, a)
  <2>1. /\ u.cur = j /\ u.follow = mid.follow /\ u.snap = tk.snap /\ u.todo = tk.todo \ {j}
        /\ j \in Jobs
    BY <1>2 DEF Batch, Asks, TickStates
  <2>2. \A i \in u.todo : Accounted(i, u.snap[i].next)
    BY <2>1
  <2>3. u.at = "persist" => u.missed = {} /\ u.exec = {}
    BY <1>2 DEF Asks
  <2>4. ASSUME NEW t \in Instants \ {0}, OnSchedule(j, t), mid.follow = None \/ t < mid.follow
        PROVE  \/ run[<<j, t>>].status # "none"
               \/ t \in u.missed \cup u.exec
               \/ a.at = "admit" /\ a.e = <<j, t>>
    <3>1. \/ t \in mid.missed \cup mid.exec
          \/ tk.snap[j].next = None \/ t < tk.snap[j].next
      BY <1>2, <2>4 DEF Batch
    <3>2. CASE tk.snap[j].next = None \/ t < tk.snap[j].next
      BY <2>4, <3>2 DEF Accounted
    <3>3. CASE t \in mid.missed \cup mid.exec
      BY <1>2, <2>1, <3>3 DEF Asks
    <3> QED BY <3>1, <3>2, <3>3
  <2> QED BY <2>1, <2>2, <2>3, <2>4 DEF DueSound
<1> QED BY <1>1, <1>2 DEF Takes

LEMMA TickDueStep ==
  ASSUME CronTypeOK, [CronNext]_vars, DueInv, plan'.edited = 0, NEW o \in Owners
  PROVE  TickDue(o)'
<1> SUFFICES ASSUME NEW u, NEW a, u = tick'[o], a = adm'[<<o, "tick">>]
             PROVE  TickDue(o)'
  OBVIOUS
<1> DEFINE x == <<o, "tick">>
<1>1. /\ plan.edited = 0 /\ tick[o] \in TickStates /\ TickTo(o, u, a)
      /\ TickDue(o) /\ \A j \in Jobs : Accounted(j, job[j].next)
      /\ u \in TickStates /\ (u.at \in {"work", "persist"} => u.cur \in Jobs)
      /\ (a.at = "admit" => a.e \in Executions)
  BY RowsKept, TypeFacts, TicksMove, AdmTyped, Indices DEF DueInv, TickMoves
<1>2. ASSUME NEW v, NEW b, v \in TickStates, v.at \in {"work", "persist"} => v.cur \in Jobs,
             DueSound(v, b)
      PROVE  DueSound(v, b)'
  <2>1. \A j \in v.todo : j \in Jobs
    BY <1>2 DEF TickStates
  <2>2. \A j \in v.todo : Accounted(j, v.snap[j].next)'
    BY <1>2, <2>1, AccountedKept DEF DueSound
  <2>3. ASSUME v.at \in {"work", "persist"}, NEW t \in Instants \ {0},
               OnSchedule(v.cur, t)', v.follow = None \/ t < v.follow
        PROVE  \/ run'[<<v.cur, t>>].status # "none"
               \/ t \in v.missed \cup v.exec
               \/ b.at = "admit" /\ b.e = <<v.cur, t>>
    <3>1. <<v.cur, t>> \in Executions
      BY <1>2, <2>3 DEF Executions
    <3>2. OnSchedule(v.cur, t)
      BY <1>2, <2>3, AccountedKept
    <3> QED BY <1>2, <2>3, <3>1, <3>2, RowsKept DEF DueSound
  <2> QED BY <1>2, <2>2, <2>3 DEF DueSound
<1>3. DueSound(tick[o], adm[x])
  BY <1>1 DEF TickDue
<1> SUFFICES DueSound(u, a)'
  BY DEF TickDue, DueSound
<1> HIDE DEF x
<1>4. CASE u = tick[o] /\ a = adm[x]
  <2>1. DueSound(u, a)
    BY <1>3, <1>4
  <2> QED BY <1>1, <1>2, <2>1
<1>5. ASSUME a = adm[x], NEW b \in BOOLEAN,
             \/ u = [tick[o] EXCEPT !.timed = b]
             \/ tick[o].at = "idle" /\ u = [tick[o] EXCEPT !.at = "list", !.timed = b]
      PROVE  DueSound(u, a)'
  <2>1. /\ u.todo = tick[o].todo /\ u.snap = tick[o].snap /\ u.cur = tick[o].cur
        /\ u.follow = tick[o].follow /\ u.missed = tick[o].missed /\ u.exec = tick[o].exec
        /\ u.at = tick[o].at \/ u.at = "list"
    BY <1>1, <1>5 DEF TickStates
  <2>2. DueSound(u, a)
    BY <1>3, <1>5, <2>1 DEF DueSound
  <2> QED BY <1>1, <1>2, <2>2
<1>6. ASSUME u = IdleTick PROVE DueSound(u, a)'
  BY <1>6, RecordTypes DEF DueSound
<1>7. ASSUME NEW tk \in TickStates, Takes(tk, u, a),
             \A j \in tk.todo : Accounted(j, tk.snap[j].next)
      PROVE  DueSound(u, a)'
  <2>1. DueSound(u, a)
    BY <1>7, TakesDue
  <2> QED BY <1>1, <1>2, <2>1
<1>8. CASE Takes(Listed(tick[o]), u, a)
  <2>1. Listed(tick[o]).snap = job /\ Listed(tick[o]).todo = Jobs
    BY <1>1 DEF Listed, TickStates
  <2> QED BY <1>1, <1>7, <1>8, <2>1, ListedTyped
<1>9. CASE Takes(tick[o], u, a)
  BY <1>1, <1>3, <1>7, <1>9 DEF DueSound
<1>10. ASSUME adm[x].at # "idle",
              adm[x].at = "admit" => run'[adm[x].e].status # "none",
              Asks(tick[o], u, a) \/ (u = tick[o] /\ a.at # "idle")
       PROVE  DueSound(u, a)'
  <2>0. tick[o].at = "work" /\ tick[o].cur \in Jobs
    BY <1>10, Indices DEF CronTypeOK, x
  <2>1. /\ u.todo = tick[o].todo /\ u.snap = tick[o].snap /\ u.cur = tick[o].cur
        /\ u.follow = tick[o].follow /\ (u.at = "persist" => u.missed = {} /\ u.exec = {})
        /\ \A t \in tick[o].missed \cup tick[o].exec :
             \/ t \in u.missed \cup u.exec
             \/ a.at = "admit" /\ a.e = <<u.cur, t>>
    BY <1>10, <2>0 DEF Asks
  <2>2. \A j \in u.todo : Accounted(j, u.snap[j].next)'
    <3>1. \A j \in tick[o].todo : j \in Jobs /\ Accounted(j, tick[o].snap[j].next)
      BY <1>1, <1>3 DEF DueSound, TickStates
    <3> QED BY <2>1, <3>1, AccountedKept
  <2>3. ASSUME NEW t \in Instants \ {0}, OnSchedule(u.cur, t)', u.follow = None \/ t < u.follow
        PROVE  \/ run'[<<u.cur, t>>].status # "none"
               \/ t \in u.missed \cup u.exec
               \/ a.at = "admit" /\ a.e = <<u.cur, t>>
    <3>1. <<u.cur, t>> \in Executions
      BY <2>0, <2>1, <2>3 DEF Executions
    <3>2. OnSchedule(tick[o].cur, t)
      BY <2>0, <2>1, <2>3, AccountedKept
    <3>3. \/ run[<<u.cur, t>>].status # "none"
          \/ t \in tick[o].missed \cup tick[o].exec
          \/ adm[x].at = "admit" /\ adm[x].e = <<u.cur, t>>
      BY <1>3, <2>0, <2>1, <2>3, <3>2 DEF DueSound
    <3> QED BY <1>10, <2>1, <3>1, <3>3, RowsKept
  <2> QED BY <2>1, <2>2, <2>3 DEF DueSound
<1>11. Decided(o, "tick", a) => a.at # "idle"
  BY DEF Decided
<1> QED BY <1>1, <1>4, <1>5, <1>6, <1>8, <1>9, <1>10, <1>11 DEF TickTo, x

LEMMA DueStep ==
  ASSUME CronTypeOK, [CronNext]_vars, DueInv
  PROVE  DueInv'
<1> SUFFICES ASSUME plan'.edited = 0
             PROVE  /\ edit'.at # "write"
                    /\ \A j \in Jobs : Accounted(j, job[j].next)'
                    /\ \A o \in Owners : TickDue(o)'
  BY DEF DueInv
<1>1. /\ plan.edited = 0 /\ plan'.edited # plan.edited + 1
      /\ edit.at # "write" /\ \A j \in Jobs : Accounted(j, job[j].next)
      /\ edit \in [at : {"idle", "write"}, j : Jobs \cup {None}, row : JobRows]
  BY RowsKept DEF DueInv, CronTypeOK
<1>2. edit'.at # "write"
  BY <1>1, EditMoves DEF EditChange
<1>3. ASSUME NEW j \in Jobs PROVE Accounted(j, job[j].next)'
  <2>1. JobTo(j)
    BY JobMoves DEF JobChange
  <2>2. CASE job'[j] = job[j]
    <3>1. \A n : Accounted(j, n) => Accounted(j, n)'
      BY AccountedKept
    <3> DEFINE n == job[j].next
    <3>2. Accounted(j, n)
      BY <1>1
    <3>3. job'[j].next = n
      BY <2>2
    <3>4. ASSUME NEW t \in Instants \ {0}, OnSchedule(j, t)', n = None \/ t < n
          PROVE  run'[<<j, t>>].status # "none"
      <4>1. OnSchedule(j, t) /\ <<j, t>> \in Executions
        BY <3>4, AccountedKept DEF Executions
      <4> QED BY <3>2, <3>4, <4>1, RowsKept DEF Accounted
    <3> HIDE DEF n
    <3> QED BY <3>3, <3>4 DEF Accounted
  <2>3. ASSUME NEW o \in Owners, WrittenBack(o, j) PROVE Accounted(j, job[j].next)'
    <3>1. /\ tick[o].at = "persist" /\ tick[o].cur = j /\ TickDue(o)
          /\ adm[<<o, "tick">>].at = "idle" /\ tick[o].missed = {} /\ tick[o].exec = {}
      BY <1>1, <2>3 DEF WrittenBack, DueInv, TickDue, DueSound, CronTypeOK
    <3>2. job'[j].next = tick[o].follow
      <4>1. tick[o].snap[j] \in JobRows /\ tick[o].follow \in Nat \cup {None}
        BY TypeFacts DEF TickStates
      <4> QED BY <2>3, <4>1 DEF WrittenBack, JobRows
    <3>3. ASSUME NEW t \in Instants \ {0}, OnSchedule(j, t)',
                 tick[o].follow = None \/ t < tick[o].follow
          PROVE  run'[<<j, t>>].status # "none"
      <4>1. OnSchedule(j, t) /\ <<j, t>> \in Executions
        BY <3>3, AccountedKept DEF Executions
      <4> QED BY <3>1, <3>3, <4>1, RowsKept DEF TickDue, DueSound
    <3> QED BY <3>2, <3>3 DEF Accounted
  <2> QED BY <1>1, <2>1, <2>2, <2>3 DEF JobTo, Edited
<1> QED BY <1>2, <1>3, TickDueStep
-----------------------------------------------------------------------------
(* Edits *)

\* What a tick may write it held before, or it has just read it.
LEMMA HeldFrom ==
  ASSUME CronTypeOK, [CronNext]_vars, NEW o \in Owners
  PROVE  \/ tick'[o].snap = tick[o].snap /\ \A j \in Jobs : Holds(o, j)' => Holds(o, j)
         \/ tick'[o].snap = job /\ UNCHANGED job
         \/ tick'[o].snap = IdleTick.snap /\ \A j \in Jobs : ~Holds(o, j)'
<1> DEFINE u == tick'[o]
           a == adm'[<<o, "tick">>]
<1>1. tick[o] \in TickStates /\ TickTo(o, u, a)
  BY TypeFacts, TicksMove DEF TickMoves
<1>2. ASSUME NEW b \in BOOLEAN,
             \/ u = [tick[o] EXCEPT !.timed = b]
             \/ tick[o].at = "idle" /\ u = [tick[o] EXCEPT !.at = "list", !.timed = b]
      PROVE  u.snap = tick[o].snap /\ \A j \in Jobs : Holds(o, j)' => Holds(o, j)
  <2>1. /\ u.snap = tick[o].snap /\ u.todo = tick[o].todo /\ u.cur = tick[o].cur
        /\ u.at = tick[o].at \/ u.at = "list"
    BY <1>1, <1>2 DEF TickStates
  <2> QED BY <2>1 DEF Holds
<1>3. CASE u = IdleTick
  BY <1>3, RecordTypes DEF Holds
<1>4. ASSUME NEW tk \in TickStates, Takes(tk, u, a)
      PROVE  \/ u.snap = tk.snap /\ \A j \in Jobs : Holds(o, j)' => j \in tk.todo
             \/ u.snap = IdleTick.snap /\ \A j \in Jobs : ~Holds(o, j)'
  <2>1. CASE u.at \in {"arm", "idle"} /\ u.snap = IdleTick.snap
    BY <2>1 DEF Holds
  <2>2. ASSUME NEW j \in tk.todo, NEW mid \in TickStates, Batch(tk, mid, j), Asks(mid, u, a)
        PROVE  u.snap = tk.snap /\ \A i \in Jobs : Holds(o, i)' => i \in tk.todo
    BY <2>2 DEF Batch, Asks, Holds
  <2> QED BY <1>4, <2>1, <2>2 DEF Takes
<1>5. CASE Takes(Listed(tick[o]), u, a) /\ UNCHANGED job
  <2>1. Listed(tick[o]).snap = job
    BY <1>1 DEF Listed, TickStates
  <2> QED BY <1>4, <1>5, <2>1, ListedTyped
<1>6. CASE tick[o].at = "persist" /\ Takes(tick[o], u, a)
  BY <1>1, <1>4, <1>6 DEF Holds
<1>7. CASE adm[<<o, "tick">>].at # "idle" /\ Asks(tick[o], u, a)
  <2>1. tick[o].at = "work"
    BY <1>7 DEF CronTypeOK
  <2> QED BY <1>7, <2>1 DEF Asks, Holds
<1>8. CASE u = tick[o]
  BY <1>8 DEF Holds
<1> HIDE DEF u, a
<1>9. ASSUME \E b \in BOOLEAN :
               \/ u = [tick[o] EXCEPT !.timed = b]
               \/ tick[o].at = "idle" /\ u = [tick[o] EXCEPT !.at = "list", !.timed = b]
      PROVE  u.snap = tick[o].snap /\ \A j \in Jobs : Holds(o, j)' => Holds(o, j)
  BY <1>2, <1>9
<1> QED BY <1>1, <1>3, <1>5, <1>6, <1>7, <1>8, <1>9 DEF TickTo, u

\* A job that is due once has no instant after the one that a tick works on.
LEMMA FollowStep ==
  ASSUME CronTypeOK, EditInv, [CronNext]_vars, NEW o \in Owners, OnceOnly,
         tick'[o].at \in {"work", "persist"}
  PROVE  tick'[o].follow = None
<1> DEFINE u == tick'[o]
           a == adm'[<<o, "tick">>]
<1>1. /\ tick[o] \in TickStates /\ TickTo(o, u, a)
      /\ tick[o].at \in {"work", "persist"} => tick[o].follow = None
      /\ \A j \in Jobs : RowSound(tick[o].snap[j]) /\ RowSound(job[j])
  BY TypeFacts, TicksMove DEF TickMoves, EditInv
<1>2. ASSUME NEW b \in BOOLEAN,
             \/ u = [tick[o] EXCEPT !.timed = b]
             \/ tick[o].at = "idle" /\ u = [tick[o] EXCEPT !.at = "list", !.timed = b]
      PROVE  u.follow = None
  <2>1. u.follow = tick[o].follow /\ (u.at = tick[o].at \/ u.at = "list")
    BY <1>1, <1>2 DEF TickStates
  <2> QED BY <1>1, <2>1
<1>3. CASE u = IdleTick
  BY <1>3, RecordTypes
<1>4. ASSUME NEW tk \in TickStates, Takes(tk, u, a), \A j \in tk.todo : RowSound(tk.snap[j])
      PROVE  u.follow = None
  BY <1>4 DEF Takes, Batch, Asks
<1>5. CASE Takes(Listed(tick[o]), u, a)
  <2>1. Listed(tick[o]).snap = job /\ Listed(tick[o]).todo = Jobs
    BY <1>1 DEF Listed, TickStates
  <2> QED BY <1>1, <1>4, <1>5, <2>1, ListedTyped
<1>6. CASE Takes(tick[o], u, a)
  <2>1. \A j \in tick[o].todo : j \in Jobs
    BY <1>1 DEF TickStates
  <2> QED BY <1>1, <1>4, <1>6, <2>1
<1>7. CASE adm[<<o, "tick">>].at # "idle" /\ Asks(tick[o], u, a)
  <2>1. tick[o].at = "work"
    BY <1>7 DEF CronTypeOK
  <2> QED BY <1>1, <1>7, <2>1 DEF Asks
<1>8. CASE u = tick[o]
  BY <1>1, <1>8
<1> HIDE DEF u, a
<1> QED BY <1>1, <1>2, <1>3, <1>5, <1>6, <1>7, <1>8 DEF TickTo, u

\* The row of a job and what an edit has read of it.
LEMMA RowStep ==
  ASSUME CronTypeOK, EditInv, [CronNext]_vars, NEW j \in Jobs
  PROVE  /\ RowSound(job[j])'
         /\ edit'.at = "write" /\ edit'.j = j /\ job'[j].present
              => job'[j].revision <= edit'.row.revision
<1>1. /\ RowSound(job[j]) /\ job[j] \in JobRows
      /\ edit.at = "write" /\ edit.j = j /\ job[j].present => job[j].revision <= edit.row.revision
      /\ edit \in [at : {"idle", "write"}, j : Jobs \cup {None}, row : JobRows]
      /\ plan'.schedule = plan.schedule /\ plan.schedule.kind \in {"at", "interval"}
  BY PlanMoves, PlanFacts, TypeFacts DEF EditInv, PlanChange, CronTypeOK
<1>2. JobTo(j)
  BY JobMoves DEF JobChange
<1>3. ASSUME job'[j] = job[j]
      PROVE  /\ RowSound(job[j])'
             /\ edit'.at = "write" /\ edit'.j = j /\ job'[j].present
                  => job'[j].revision <= edit'.row.revision
  <2>1. RowSound(job[j])'
    BY <1>1, <1>3 DEF RowSound, OnceOnly
  <2>2. job[j].revision <= job[j].revision
    BY <1>1 DEF JobRows
  <2> QED BY <1>1, <1>3, <2>1, <2>2, EditMoves DEF EditChange
<1>4. ASSUME NEW o \in Owners, WrittenBack(o, j)
      PROVE  /\ RowSound(job[j])'
             /\ edit'.at = "write" /\ edit'.j = j /\ job'[j].present
                  => job'[j].revision <= edit'.row.revision
  <2> DEFINE held == tick[o].snap[j]
  <2>1. /\ held \in JobRows /\ tick[o].follow \in Nat \cup {None} /\ HeldSound(o, j)
        /\ OnceOnly => tick[o].follow = None
        /\ Holds(o, j)
    BY <1>4, TypeFacts DEF TickStates, WrittenBack, EditInv, Holds
  <2>2. job'[j] = [held EXCEPT !.next = tick[o].follow,
                     !.enabled = held.enabled /\ ~(OnceOnly /\ tick[o].follow = None)]
        /\ UNCHANGED edit
    BY <1>4 DEF WrittenBack
  <2> HIDE DEF held
  <2>3. /\ job'[j].present = held.present /\ job'[j].revision = held.revision
        /\ OnceOnly => job'[j].enabled = FALSE
    BY <2>1, <2>2 DEF JobRows
  <2> QED BY <1>1, <2>1, <2>2, <2>3 DEF RowSound, OnceOnly, HeldSound, held
<1>5. ASSUME Edited(j)
      PROVE  RowSound(job[j])' /\ edit'.at # "write"
  BY <1>1, <1>5 DEF Edited, RowSound, OnceOnly, ApiNext
<1>6. ASSUME job'[j] = NoJob
      PROVE  RowSound(job[j])' /\ ~job'[j].present
  BY <1>6 DEF RowSound, NoJob
<1> QED BY <1>2, <1>3, <1>4, <1>5, <1>6 DEF JobTo

\* With one scheduler, or as long as no deleted job comes back, what a tick holds
\* stays behind the row.
LEMMA HeldStep ==
  ASSUME CronTypeOK, EditInv, [CronNext]_vars, OneScheduler \/ NoReturn,
         NEW o \in Owners, NEW j \in Jobs
  PROVE  HeldSound(o, j)'
<1> SUFFICES ASSUME Holds(o, j)', tick'[o].snap[j].present
             PROVE  /\ job'[j].present =>
                         /\ tick'[o].snap[j].revision <= job'[j].revision
                         /\ tick'[o].snap[j].revision = job'[j].revision /\ ~OnceOnly'
                              => tick'[o].snap[j].enabled = job'[j].enabled
                    /\ edit'.at = "write" /\ edit'.j = j
                         => tick'[o].snap[j].revision <= edit'.row.revision
  BY DEF HeldSound
<1>1. /\ job[j] \in JobRows /\ tick[o] \in TickStates /\ tick[o].snap[j] \in JobRows
      /\ edit \in [at : {"idle", "write"}, j : Jobs \cup {None}, row : JobRows]
      /\ edit.at = "write" /\ edit.j = j /\ job[j].present => job[j].revision <= edit.row.revision
      /\ OnceOnly' = OnceOnly
  BY PlanMoves, TypeFacts DEF EditInv, PlanChange, CronTypeOK, OnceOnly, TickStates
<1>2. CASE tick'[o].snap = job /\ UNCHANGED job
  <2>1. job[j].revision <= job[j].revision /\ job[j].present
    BY <1>1, <1>2 DEF JobRows
  <2> QED BY <1>1, <1>2, <2>1, EditMoves DEF EditChange
<1>3. CASE tick'[o].snap = tick[o].snap /\ Holds(o, j)
  <2> DEFINE held == tick[o].snap[j]
  <2>0. /\ held \in JobRows /\ held.present
        /\ job[j].present => /\ held.revision <= job[j].revision
                             /\ held.revision = job[j].revision /\ ~OnceOnly
                                  => held.enabled = job[j].enabled
        /\ edit.at = "write" /\ edit.j = j => held.revision <= edit.row.revision
    BY <1>1, <1>3 DEF EditInv, HeldSound
  <2>1. edit'.at = "write" /\ edit'.j = j => held.revision <= edit'.row.revision
    BY <1>1, <2>0, EditMoves DEF EditChange
  <2> SUFFICES ASSUME job'[j].present
               PROVE  /\ held.revision <= job'[j].revision
                      /\ held.revision = job'[j].revision /\ ~OnceOnly
                           => held.enabled = job'[j].enabled
    BY <1>1, <1>3, <2>1
  <2> HIDE DEF held
  <2>2. CASE job'[j] = job[j]
    BY <2>0, <2>2
  <2>3. ASSUME NEW p \in Owners, WrittenBack(p, j)
        PROVE  /\ held.revision <= job'[j].revision
               /\ held.revision = job'[j].revision /\ ~OnceOnly
                    => held.enabled = job'[j].enabled
    <3> DEFINE row == tick[p].snap[j]
    <3>1. /\ row \in JobRows /\ tick[p].follow \in Nat \cup {None}
          /\ Holds(p, j) /\ HeldSound(p, j)
          /\ job[j].present => ~(row.revision < job[j].revision)
      BY <2>3, TypeFacts DEF TickStates, WrittenBack, EditInv, Holds, Puttable
    <3>2. job'[j] = [row EXCEPT !.next = tick[p].follow,
                       !.enabled = row.enabled /\ ~(OnceOnly /\ tick[p].follow = None)]
      BY <2>3 DEF WrittenBack
    <3>3. p # o => job[j].present
      BY <1>1 DEF OneScheduler, NoReturn
    <3>4. /\ row.present /\ job[j].present =>
               /\ row.revision <= job[j].revision
               /\ row.revision = job[j].revision /\ ~OnceOnly => row.enabled = job[j].enabled
      BY <3>1 DEF HeldSound
    <3>5. p = o => row = held
      BY DEF held
    <3> HIDE DEF row
    <3>6. /\ job'[j].present = row.present /\ job'[j].revision = row.revision
          /\ ~OnceOnly => job'[j].enabled = row.enabled
      BY <3>1, <3>2 DEF JobRows
    <3>7. row.revision \in Nat /\ held.revision \in Nat /\ job[j].revision \in Nat
      BY <1>1, <2>0, <3>1 DEF JobRows
    <3>8. CASE p = o
      BY <3>5, <3>6, <3>7, <3>8
    <3>9. CASE p # o
      <4>1. row.revision = job[j].revision
        BY <3>1, <3>3, <3>4, <3>6, <3>7, <3>9
      <4> QED BY <2>0, <3>3, <3>4, <3>6, <3>9, <4>1
    <3> QED BY <3>8, <3>9
  <2>4. CASE Edited(j)
    <3>1. job'[j].revision = edit.row.revision + 1 /\ held.revision <= edit.row.revision
      BY <2>0, <2>4 DEF Edited
    <3>2. edit.row.revision \in Nat /\ held.revision \in Nat
      BY <1>1, <2>0 DEF JobRows
    <3> QED BY <3>1, <3>2
  <2>5. JobTo(j)
    BY JobMoves DEF JobChange
  <2> QED BY <2>2, <2>3, <2>4, <2>5 DEF JobTo, NoJob
<1> QED BY <1>2, <1>3, HeldFrom

LEMMA EditStep ==
  ASSUME CronTypeOK, EditInv, [CronNext]_vars, OneScheduler \/ NoReturn
  PROVE  EditInv'
<1>1. ASSUME NEW o \in Owners, NEW j \in Jobs PROVE RowSound(tick[o].snap[j])'
  <2>1. plan'.schedule = plan.schedule
    BY PlanMoves DEF PlanChange
  <2>2. CASE tick'[o].snap = tick[o].snap \/ tick'[o].snap = job
    BY <2>1, <2>2 DEF EditInv, RowSound, OnceOnly
  <2>3. CASE tick'[o].snap = IdleTick.snap
    BY <2>3 DEF IdleTick, NoJob, RowSound
  <2> QED BY <2>2, <2>3, HeldFrom
<1>2. ASSUME NEW o \in Owners, OnceOnly', tick'[o].at \in {"work", "persist"}
      PROVE  tick'[o].follow = None
  <2>1. OnceOnly
    BY <1>2, PlanMoves DEF PlanChange, OnceOnly
  <2> QED BY <1>2, <2>1, FollowStep
<1> QED BY <1>1, <1>2, RowStep, HeldStep DEF EditInv

\* What the user has disabled stays disabled, and no revision goes back.
LEMMA EditKept ==
  ASSUME CronTypeOK, EditInv, [CronNext]_vars, NEW j \in Jobs,
         job[j].present, job'[j].present
  PROVE  /\ job'[j].revision >= job[j].revision
         /\ ~job[j].enabled /\ job'[j].enabled => edit.at = "write"
<1>1. /\ job[j] \in JobRows /\ JobTo(j)
      /\ edit \in [at : {"idle", "write"}, j : Jobs \cup {None}, row : JobRows]
  BY JobMoves, TypeFacts DEF JobChange, CronTypeOK
<1>2. CASE job'[j] = job[j]
  BY <1>1, <1>2 DEF JobRows
<1>3. ASSUME NEW o \in Owners, WrittenBack(o, j)
      PROVE  /\ job'[j].revision >= job[j].revision
             /\ ~job[j].enabled /\ job'[j].enabled => edit.at = "write"
  <2> DEFINE row == tick[o].snap[j]
  <2>1. /\ row \in JobRows /\ tick[o].follow \in Nat \cup {None}
        /\ Holds(o, j) /\ HeldSound(o, j) /\ ~(row.revision < job[j].revision)
        /\ OnceOnly => tick[o].follow = None
    BY <1>3, TypeFacts DEF TickStates, WrittenBack, EditInv, Holds, Puttable
  <2>2. job'[j] = [row EXCEPT !.next = tick[o].follow,
                     !.enabled = row.enabled /\ ~(OnceOnly /\ tick[o].follow = None)]
    BY <1>3 DEF WrittenBack
  <2>3. /\ row.present =>
             /\ row.revision <= job[j].revision
             /\ row.revision = job[j].revision /\ ~OnceOnly => row.enabled = job[j].enabled
    BY <2>1 DEF HeldSound
  <2> HIDE DEF row
  <2>4. /\ job'[j].present = row.present /\ job'[j].revision = row.revision
        /\ OnceOnly => job'[j].enabled = FALSE
        /\ ~OnceOnly => job'[j].enabled = row.enabled
    BY <2>1, <2>2 DEF JobRows
  <2>5. row.revision \in Nat /\ job[j].revision \in Nat
    BY <1>1, <2>1 DEF JobRows
  <2> QED BY <2>1, <2>3, <2>4, <2>5
<1>4. CASE Edited(j)
  <2>1. /\ job'[j].revision = edit.row.revision + 1 /\ edit.at = "write"
        /\ ~(edit.row.revision + 1 < job[j].revision)
    BY <1>4 DEF Edited, Puttable
  <2>2. edit.row.revision \in Nat /\ job[j].revision \in Nat
    BY <1>1 DEF JobRows
  <2> QED BY <2>1, <2>2
<1> QED BY <1>1, <1>2, <1>3, <1>4 DEF JobTo, NoJob
-----------------------------------------------------------------------------
(* The theorems *)

LEMMA CronStarts ==
  ASSUME CronInit
  PROVE  CronTypeOK /\ TurnInv /\ DispatchInv /\ CompletedInv /\ DueInv /\ EditInv
<1>1. plan \in PlanSpace /\ plan.edited = 0
  BY ScheduleAssumption DEF CronInit
<1>2. now \in 0 .. plan.horizon
  <2>1. plan.horizon \in Nat /\ now = 0
    BY <1>1, InstantFacts, PlanFacts DEF CronInit
  <2> QED BY <2>1
<1>3. ASSUME NEW j \in Jobs
      PROVE  /\ job[j] = [present |-> TRUE, enabled |-> TRUE, revision |-> 1,
                          next |-> ApiNext(j, 0)]
             /\ job[j] \in JobRows
  <2>1. ApiNext(j, 0) \in Nat \cup {None}
    BY <1>1, ApiNextIs
  <2> QED BY <2>1 DEF CronInit, JobRows
<1>4. /\ job \in [Jobs -> JobRows] /\ run \in [Executions -> RunRows]
      /\ tick \in [Owners -> TickStates] /\ adm \in [Owners \X Callers -> AdmStates]
      /\ ex \in [Executions -> ExStates]
  <2>1. job \in [Jobs -> JobRows]
    BY <1>3 DEF CronInit
  <2> QED BY <2>1, RecordTypes DEF CronInit
<1>5. /\ cursor \in [Owners -> Int] /\ active \in [Owners \X Jobs -> Executions \cup {None}]
      /\ dispatched \in [Executions -> Nat]
  BY DEF CronInit
<1>6. chain \in [Owners \X Jobs -> Seq(Executions)]
  <2>1. <<>> \in Seq(Executions)
    OBVIOUS
  <2> QED BY <2>1 DEF CronInit
<1>7. /\ edit \in [at : {"idle", "write"}, j : Jobs \cup {None}, row : JobRows]
      /\ edit.at = "idle"
  BY RecordTypes DEF CronInit
<1>8. /\ \A e \in Executions : /\ run[e].status = "none" /\ ex[e].at = "none"
                               /\ ex[e].prompt = "none" /\ dispatched[e] = 0
      /\ \A x \in Owners \X Callers : adm[x].at = "idle"
      /\ \A o \in Owners : tick[o] = IdleTick /\ tick[o].at = "idle"
      /\ \A o \in Owners, j \in Jobs : chain[<<o, j>>] = <<>>
  BY RecordTypes, Indices DEF CronInit, NoRun, Fresh
<1>9. CronTypeOK
  BY <1>1, <1>2, <1>4, <1>5, <1>6, <1>7, <1>8, Indices DEF CronTypeOK
<1>10. TurnInv
  BY <1>8 DEF TurnInv, TurnSound, TailSound, WaitSound, Busy, InFlight
<1>11. DispatchInv /\ CompletedInv
  BY <1>8 DEF DispatchInv, CompletedInv
<1>12. DueInv
  <2>1. ASSUME NEW j \in Jobs PROVE Accounted(j, job[j].next)
    <3>1. job[j].next = ApiNext(j, 0) /\ ApiNext(j, 0) = NextAt(j, 0)
      <4>1. plan.schedule.every > 0
        BY <1>1, PlanFacts
      <4> QED BY <1>3, <4>1 DEF ApiNext, NextAt
    <3>2. ASSUME NEW t \in Instants \ {0}, OnSchedule(j, t),
                 job[j].next = None \/ t < job[j].next
          PROVE  FALSE
      <4>1. t \in Nat \ {0} /\ 0 < t
        BY InstantFacts
      <4>2. NextAt(j, 0) # None /\ NextAt(j, 0) <= t
        BY <1>1, <3>2, <4>1, NextIsNext
      <4>3. NextAt(j, 0) \in Nat
        BY <1>1, <4>2, NextIs
      <4> QED BY <3>1, <3>2, <4>1, <4>2, <4>3
    <3> QED BY <3>2 DEF Accounted
  <2>2. ASSUME NEW o \in Owners PROVE TickDue(o)
    BY <1>8, RecordTypes DEF TickDue, DueSound
  <2> QED BY <1>7, <2>1, <2>2 DEF DueInv
<1>13. EditInv
  <2>1. ASSUME NEW j \in Jobs PROVE RowSound(job[j])
    BY <1>3 DEF RowSound, OnceOnly, ApiNext
  <2>2. ASSUME NEW o \in Owners, NEW j \in Jobs
        PROVE  RowSound(tick[o].snap[j]) /\ ~Holds(o, j)
    BY <1>8 DEF IdleTick, NoJob, RowSound, Holds
  <2> QED BY <1>7, <1>8, <2>1, <2>2 DEF EditInv, HeldSound
<1> QED BY <1>9, <1>10, <1>11, <1>12, <1>13

LEMMA CronSound == CronSpec => [](CronTypeOK /\ TurnInv)
<1>1. CronInit => CronTypeOK /\ TurnInv
  BY CronStarts
<1>2. CronTypeOK /\ TurnInv /\ [CronNext]_vars => (CronTypeOK /\ TurnInv)'
  BY TypeStep, TurnStep
<1> QED BY <1>1, <1>2, PTL DEF CronSpec

\* Every row, tick, admission, tail and execution has its form in every reachable
\* state; what is in flight has its job, its instant and its predecessor.
THEOREM CronTyped == CronSpec => []CronTypeOK
BY CronSound, PTL

\* "enforces overlap without dispatching parallel turns for one job": a scheduler has
\* at most one prompt of a job under way, whatever is replaced, cancelled, timed out
\* or lost.
THEOREM CronTurnsInOrder == CronSpec => []NoParallelTurns
<1>1. CronTypeOK /\ TurnInv => NoParallelTurns
  BY DEF TurnInv, TurnSound, Busy, NoParallelTurns
<1> QED BY <1>1, CronSound, PTL

\* A due instant becomes at most one prompt, whoever admits it, over lost replies,
\* restarts, a second scheduler and a crash of Main.
THEOREM CronOnce == CronSpec => []DispatchedOnce
<1>1. CronInit => DispatchInv
  BY CronStarts
<1>2. CronTypeOK /\ TurnInv /\ DispatchInv /\ [CronNext]_vars => DispatchInv'
  BY DispatchStep
<1>3. DispatchInv => DispatchedOnce
  BY DEF DispatchInv, DispatchedOnce
<1> QED BY <1>1, <1>2, <1>3, CronSound, PTL DEF CronSpec

\* A run recorded as completed was prompted and, where the job has a target, its row
\* is linked to the outbound message admitted for it, unless the answer held nothing
\* to send, though several writers put the row.
THEOREM CronCompleted == CronSpec => []CompletedIsTrue
<1>1. CronInit => CompletedInv
  BY CronStarts
<1>2. CronTypeOK /\ TurnInv /\ CompletedInv /\ [CronNext]_vars => CompletedInv'
  BY CompletedStep
<1>3. CompletedInv => CompletedIsTrue
  BY DEF CompletedInv, SaidTrue, CompletedIsTrue
<1> QED BY <1>1, <1>2, <1>3, CronSound, PTL DEF CronSpec

\* No instant of the schedule is passed over: whatever lies before nextRunAt has a
\* row, for every interval, misfire policy and limit of a batch.
THEOREM CronAccounted == CronSpec => []DueAccounted
<1>1. CronInit => DueInv
  BY CronStarts
<1>2. CronTypeOK /\ TurnInv /\ DueInv /\ [CronNext]_vars => DueInv'
  BY DueStep
<1>3. DueInv => DueAccounted
  BY DEF DueInv, Accounted, OnSchedule, DueAccounted
<1> QED BY <1>1, <1>2, <1>3, CronSound, PTL DEF CronSpec

\* A tick undoes no edit while one scheduler runs: its put carries the revision that
\* the tick has read, and an edit has a greater one.
THEOREM CronEditsStay == ASSUME OneScheduler PROVE CronSpec => EditNotUndone
<1>1. CronInit => EditInv
  BY CronStarts
<1>2. CronTypeOK /\ EditInv /\ [CronNext]_vars => EditInv'
  BY EditStep
<1>3. CronTypeOK /\ EditInv /\ [CronNext]_vars =>
        [\A j \in Jobs : job[j].present /\ job'[j].present =>
           /\ job'[j].revision >= job[j].revision
           /\ ~job[j].enabled /\ job'[j].enabled => edit.at = "write"]_vars
  BY EditKept
<1> QED BY <1>1, <1>2, <1>3, CronSound, PTL DEF CronSpec, EditNotUndone

\* Nor do the ticks of several schedulers, as long as no deleted job comes back.
THEOREM CronEditsStayUnlessReturned ==
  CronSpec /\ DeletedStaysDeleted => EditNotUndone
<1>1. CronInit => EditInv
  BY CronStarts
<1>2. CronTypeOK /\ EditInv /\ [CronNext]_vars
        /\ [\A j \in Jobs : ~job[j].present => ~job'[j].present]_vars => EditInv'
  <2> SUFFICES ASSUME CronTypeOK, EditInv, [CronNext]_vars,
                      [\A j \in Jobs : ~job[j].present => ~job'[j].present]_vars
               PROVE  EditInv'
    OBVIOUS
  <2>1. NoReturn
    BY DEF NoReturn, vars, store
  <2> QED BY <2>1, EditStep
<1>3. CronTypeOK /\ EditInv /\ [CronNext]_vars =>
        [\A j \in Jobs : job[j].present /\ job'[j].present =>
           /\ job'[j].revision >= job[j].revision
           /\ ~job[j].enabled /\ job'[j].enabled => edit.at = "write"]_vars
  BY EditKept
<1> QED BY <1>1, <1>2, <1>3, CronSound, PTL DEF CronSpec, EditNotUndone, DeletedStaysDeleted
=============================================================================
