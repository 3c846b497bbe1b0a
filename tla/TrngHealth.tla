----------------------------- MODULE TrngHealth -----------------------------
(***************************************************************************)
(* The on-line health tests of the managed TRNG: RepCountTest and          *)
(* AdaptivePropTest on every noise source, ExcursionTest on the avalanche  *)
(* generators, MiniRuns on the ring oscillators, and the events that       *)
(* report their verdicts.  One step is one cycle of the system clock.      *)
(*                                                                         *)
(* The tests of two sources share nothing but the registers that clear     *)
(* them and the events, so one source is sampled in a behaviour, chosen at *)
(* the start; the others stay silent.                                      *)
(***************************************************************************)
EXTENDS Integers, Sequences, FiniteSetsExt

CONSTANTS
  Ro,              \* the ring oscillator cores
  AvMax,           \* the largest value of an avalanche sample
  rep_cutoff, rep_max, adp_cutoff, adp_max, window_max,
  exc_cutoff, exc_window,
  maxrun, runs_window, runs_min, runs_max,
  MaxSamples,      \* bound: samples in a behaviour, by their source
  MaxWrites        \* bound: software's accesses and changes of power in a behaviour

HealthAssumption == /\ AvMax \in Nat /\ exc_cutoff \in Nat
                    /\ {rep_max, adp_max} \subseteq Nat
                    /\ rep_cutoff \in 1 .. rep_max /\ adp_cutoff \in 1 .. adp_max
                    /\ window_max \in Nat \ {0, 1} /\ exc_window \in Nat \ {0} /\ maxrun \in Nat \ {0}
                    /\ runs_window \in Nat \ {0}

VARIABLES
  source,                   \* the source that is sampled
  quiet,                    \* no sample in the cycle before: the strobes are edges, or far apart
  power,
  rep, adp, exc, run,       \* the registers of the tests, by source
  any_failure_r, pending,   \* the event manager
  rep_seen, adp_seen,       \* history: the samples each test took since it was last cleared,
  rep_due, adp_due,         \*   and those it had taken one cycle ago
  exc_seen, exc_last,       \* history: the samples of the window under way, and of the one judged last
  run_seen, run_shown,      \* history: the bits among which runs are being counted, and were shown last
  run_flagged,              \* history: too few or too many of them were on show since the last clear
  samples, writes

hardware == <<rep, adp, exc, run, any_failure_r, pending>>
history == <<rep_seen, adp_seen, rep_due, adp_due, exc_seen, exc_last, run_seen, run_shown,
             run_flagged>>
healthVars == <<source, quiet, power, hardware, history, samples, writes>>

Av == {"av0", "av1"}   \* the avalanche generators
Source == Av \cup Ro
NoSample == -1
Largest(c) == IF c \in Av THEN AvMax ELSE 1
Run == 1 .. maxrun

-----------------------------------------------------------------------------
(* RepCountTest.  failure is decided on the count of the cycle before.     *)

RepStart(r, v) == IF v = NoSample THEN [r EXCEPT !.failure = FALSE]
                  ELSE [r EXCEPT !.state = "ITERATE", !.failure = FALSE, !.a = v, !.b = 0]

\* Fault: the count goes on when the sample differs.
RepIterateKeeps(r, v) ==
  LET decided == [r EXCEPT !.failure = @ \/ r.b >= rep_cutoff]
  IN IF v = NoSample THEN decided
     ELSE IF v = r.a THEN [decided EXCEPT !.b = IF @ + 1 <= rep_max THEN @ + 1 ELSE @]
     ELSE [decided EXCEPT !.a = v]

RepIterate(r, v) ==
  LET decided == [r EXCEPT !.failure = @ \/ r.b >= rep_cutoff]
  IN IF v = NoSample THEN decided
     ELSE IF v = r.a THEN [decided EXCEPT !.b = IF @ + 1 <= rep_max THEN @ + 1 ELSE @]
     ELSE [decided EXCEPT !.a = v, !.b = 0]

RepCountTest(r, v, clear) ==
  LET top == IF clear THEN 0 ELSE IF r.top < r.b THEN r.b ELSE r.top
      next == IF r.state = "START" THEN RepStart(r, v)
              ELSE IF clear THEN [r EXCEPT !.state = "START", !.failure = FALSE]
              ELSE RepIterate(r, v)
  IN [next EXCEPT !.top = top]

-----------------------------------------------------------------------------
(* AdaptivePropTest.  In the cycle that ends a window no count is looked   *)
(* at, and no sample taken.                                                *)

AdpStart(r, v, clear, enabled) ==
  LET held == IF clear \/ ~enabled THEN [r EXCEPT !.ready = FALSE, !.failure = FALSE] ELSE r
  IN IF v = NoSample THEN held ELSE [held EXCEPT !.state = "ITERATE", !.a = v, !.b = 0, !.w = 0]

WindowEnds(r) == r.state = "ITERATE" /\ r.w = window_max - 1

AdpWindow(r, enabled) == [r EXCEPT !.state = "START", !.shown = r.b, !.ready = @ \/ (~r.failure /\ enabled)]

\* Fault: the sample is compared with the one before, not with the first of the window.
AdpIterateLast(r, v, enabled) ==
  LET decided == [r EXCEPT !.failure = @ \/ r.b >= adp_cutoff, !.ready = @ /\ enabled]
  IN IF v = NoSample THEN decided
     ELSE [decided EXCEPT !.w = @ + 1, !.a = v, !.b = IF v = r.a /\ @ + 1 <= adp_max THEN @ + 1 ELSE @]

AdpIterate(r, v, enabled) ==
  LET decided == [r EXCEPT !.failure = @ \/ r.b >= adp_cutoff, !.ready = @ /\ enabled]
  IN IF v = NoSample THEN decided
     ELSE [decided EXCEPT !.w = @ + 1, !.b = IF v = r.a /\ @ + 1 <= adp_max THEN @ + 1 ELSE @]

AdaptivePropTest(r, v, clear, enabled, b_read) ==
  LET next == IF r.state = "START" THEN AdpStart(r, v, clear, enabled)
              ELSE IF clear THEN [r EXCEPT !.state = "START", !.failure = FALSE, !.ready = FALSE]
              ELSE IF WindowEnds(r) THEN AdpWindow(r, enabled)
              ELSE AdpIterate(r, v, enabled)
  IN [next EXCEPT !.b_fresh = \/ WindowEnds(r) /\ ~clear
                              \/ r.b_fresh /\ ~b_read]

-----------------------------------------------------------------------------
(* ExcursionTest.  failing lasts the cycle in which a window is judged.    *)

ExcStarted(r) == [r EXCEPT !.w = exc_window, !.min = AvMax + 1, !.max = 0]

ExcDue(r, reset) == r.state = "RUN" /\ power /\ ~reset /\ r.w = 0
failing(r, reset) == ExcDue(r, reset) /\ r.max - r.min < exc_cutoff

\* Fault: the extremes of the last window are kept.
ExcJudgeKeeps(r, reset) ==
  LET shown == [r EXCEPT !.cur_min = r.min, !.cur_max = r.max, !.ready = ~failing(r, reset), !.w = exc_window]
  IN IF failing(r, reset) THEN [shown EXCEPT !.err_min = r.min, !.err_max = r.max] ELSE shown

ExcJudge(r, reset) ==
  LET shown == [ExcStarted(r) EXCEPT !.cur_min = r.min, !.cur_max = r.max, !.ready = ~failing(r, reset)]
  IN IF failing(r, reset) THEN [shown EXCEPT !.err_min = r.min, !.err_max = r.max] ELSE shown

ExcTake(r, v) == IF v = NoSample THEN r
                 ELSE [r EXCEPT !.w = @ - 1, !.min = IF v < @ THEN v ELSE @, !.max = IF v > @ THEN v ELSE @]

ExcursionTest(r, v, reset) ==
  LET next == CASE r.state = "OFF" /\ ~power -> [r EXCEPT !.ready = FALSE]
                [] r.state = "OFF" /\ power -> [ExcStarted(r) EXCEPT !.state = "RUN"]
                [] r.state = "RUN" /\ (~power \/ reset) -> [r EXCEPT !.state = "OFF", !.ready = FALSE]
                [] ExcDue(r, reset) -> ExcJudge(r, reset)
                [] OTHER -> ExcTake(r, v)
  IN [next EXCEPT !.failing_r = failing(r, reset), !.failure = failing(r, reset) /\ ~r.failing_r]

-----------------------------------------------------------------------------
(* MiniRuns.  shifter[1] is the oldest bit.  A run of at least n ends      *)
(* where n equal bits are followed by another one.                         *)

RunOf(n, bits) == /\ \A k \in 1 .. n : bits[k] = bits[1]
                  /\ bits[n + 1] # bits[1]

\* Fault: a window that was read in full still counts.
runs_fail_read(r) == \E n \in Run : r.count[n] < runs_min[n] \/ r.count[n] > runs_max[n]

runs_fail(r) == \E n \in Run : (r.count[n] < runs_min[n] \/ r.count[n] > runs_max[n]) /\ r.fresh # {}

\* Fault: the counters are not cleared at the end of a window.
CountRunsOn(r) == [n \in Run |-> IF RunOf(n, r.shifter) THEN r.runcount[n] + 1 ELSE r.runcount[n]]

CountRuns(r) == [n \in Run |-> IF r.window_end THEN 0
                               ELSE IF RunOf(n, r.shifter) THEN r.runcount[n] + 1 ELSE r.runcount[n]]

\* The counts of the window are shown; a register that is read loses its freshness.
Snapshot(r, taken, read) ==
  IF taken /\ r.w >= runs_window THEN [r EXCEPT !.count = r.runcount, !.fresh = Run]
  ELSE [r EXCEPT !.fresh = @ \ read]

Window(r, taken) == IF ~taken THEN r
                    ELSE IF r.w < runs_window THEN [r EXCEPT !.w = @ + 1, !.window_end = FALSE]
                    ELSE [r EXCEPT !.w = 0, !.window_end = TRUE]

MiniRuns(r, v, clear, read) ==
  LET counting == r.ready /\ v # NoSample
      shown == IF power /\ r.ready THEN Snapshot(r, counting, read) ELSE r
      moved == IF power THEN Window(shown, counting) ELSE [shown EXCEPT !.w = 0, !.window_end = FALSE]
      counted == IF ~power THEN [moved EXCEPT !.runcount = [n \in Run |-> 0]]
                 ELSE IF counting THEN [moved EXCEPT !.runcount = CountRuns(r)]
                 ELSE moved
  IN [counted EXCEPT !.shifter = IF v = NoSample THEN @ ELSE Append(Tail(@), v),
                     !.initcount = IF ~power THEN maxrun + 1 ELSE IF @ > 0 THEN @ - 1 ELSE 0,
                     !.ready = power /\ r.initcount = 0,
                     !.failure = ~clear /\ (@ \/ runs_fail(r))]

-----------------------------------------------------------------------------
(* The wiring.  clr_err clears all but the excursion test.  Both excursion *)
(* tests are assigned to one event; the later assignment is what counts.   *)

any_failure == \/ \E c \in Source : rep[c].failure \/ adp[c].failure
               \/ \E c \in Ro : run[c].failure

Trigger == (IF any_failure /\ ~any_failure_r THEN {"health"} ELSE {})
             \cup (IF exc["av1"].failure THEN {"excursion0"} ELSE {})

Tests(v, access, read) ==
  LET clear == access = "clr_err"
      Sampled(c) == IF c = source THEN v ELSE NoSample
  IN /\ rep' = [c \in Source |-> RepCountTest(rep[c], Sampled(c), clear)]
     /\ adp' = [c \in Source |-> AdaptivePropTest(adp[c], Sampled(c), clear, power, access = "stat")]
     /\ exc' = [c \in Av |-> ExcursionTest(exc[c], Sampled(c), access = "reset")]
     /\ run' = [c \in Ro |-> MiniRuns(run[c], Sampled(c), clear, read)]
     /\ any_failure_r' = any_failure
     /\ pending' = pending \cup Trigger

-----------------------------------------------------------------------------
(* What the tests saw of the source. *)

Taken(v) == IF v = NoSample THEN <<>> ELSE <<v>>

Seen(v, access) ==
  /\ rep_due' = IF access = "clr_err" THEN <<>> ELSE rep_seen
  /\ rep_seen' = IF rep[source].state = "START" THEN Taken(v)
                 ELSE IF access = "clr_err" THEN <<>>
                 ELSE rep_seen \o Taken(v)
  /\ adp_due' = IF access = "clr_err" \/ (adp[source].state = "START" /\ ~power) THEN <<>> ELSE adp_seen
  /\ adp_seen' = IF adp[source].state = "START" /\ (~power \/ access = "clr_err") THEN Taken(v)
                 ELSE IF access = "clr_err" THEN <<>>
                 ELSE adp_seen \o Taken(v)

SeenAvalanche(v, access) ==
  IF source \notin Av THEN UNCHANGED <<exc_seen, exc_last>>
  ELSE IF ExcDue(exc[source], access = "reset") THEN exc_last' = exc_seen /\ exc_seen' = <<>>
  ELSE IF exc[source].state = "RUN" /\ power /\ access # "reset" THEN exc_seen' = exc_seen \o Taken(v) /\ UNCHANGED exc_last
  ELSE exc_seen' = <<>> /\ exc_last' = <<>>

\* The runs of at least n bits that ended among the bits s: where one more bit followed.
Ended(s, n) == {p \in 1 .. Len(s) - maxrun - 1 : RunOf(n, SubSeq(s, p, p + maxrun))}
OutOfBounds(s) == \E n \in Run : \/ Cardinality(Ended(s, n)) < runs_min[n]
                                 \/ Cardinality(Ended(s, n)) > runs_max[n]

SeenRing(v, access) ==
  IF source \notin Ro THEN UNCHANGED <<run_seen, run_shown, run_flagged>>
  ELSE LET r == run[source]
           ends == power /\ r.ready /\ v # NoSample /\ r.w >= runs_window
       IN /\ run_seen' = IF power /\ r.ready /\ ~r.window_end THEN run_seen \o Taken(v)
                         ELSE IF power /\ r.ready /\ v = NoSample THEN run_seen
                         ELSE run'[source].shifter
          /\ run_shown' = IF ends THEN run_seen ELSE run_shown
          /\ run_flagged' = (access # "clr_err" /\ (run_flagged \/ (r.fresh # {} /\ OutOfBounds(run_shown))))

HealthInit == /\ source \in Source
        /\ quiet = TRUE /\ power = FALSE
        /\ rep = [c \in Source |-> [state |-> "START", a |-> 0, b |-> 0, top |-> 0, failure |-> FALSE]]
        /\ adp = [c \in Source |-> [state |-> "START", a |-> 0, b |-> 0, w |-> 0, shown |-> 0, failure |-> FALSE,
                                    ready |-> FALSE, b_fresh |-> FALSE]]
        /\ exc = [c \in Av |-> [state |-> "OFF", w |-> 0, min |-> AvMax + 1, max |-> 0, cur_min |-> 0, cur_max |-> 0,
                                err_min |-> 0, err_max |-> 0, ready |-> FALSE, failing_r |-> FALSE, failure |-> FALSE]]
        /\ run = [c \in Ro |-> [shifter |-> [k \in 1 .. maxrun + 1 |-> 0], initcount |-> 0, ready |-> FALSE, w |-> 0,
                                window_end |-> FALSE, runcount |-> [n \in Run |-> 0], count |-> [n \in Run |-> 0],
                                fresh |-> {}, failure |-> FALSE]]
        /\ any_failure_r = FALSE /\ pending = {}
        /\ rep_seen = <<>> /\ adp_seen = <<>> /\ rep_due = <<>> /\ adp_due = <<>>
        /\ exc_seen = <<>> /\ exc_last = <<>> /\ run_seen = [k \in 1 .. maxrun + 1 |-> 0]
        /\ run_shown = <<>> /\ run_flagged = FALSE
        /\ samples = 0 /\ writes = 0

Accesses == {"none", "clr_err", "reset", "stat", "count", "power"}

Reads(access) == IF access = "count" THEN {{n} : n \in Run} ELSE {{}}

HealthCycle(v, access, read) ==
  /\ v # NoSample => quiet /\ samples < MaxSamples[source]
  /\ access # "none" => writes < MaxWrites
  /\ Tests(v, access, read)
  /\ Seen(v, access) /\ SeenAvalanche(v, access) /\ SeenRing(v, access)
  /\ quiet' = (v = NoSample)
  /\ power' = (power # (access = "power"))
  /\ samples' = IF v = NoSample THEN samples ELSE samples + 1
  /\ writes' = IF access = "none" THEN writes ELSE writes + 1
  /\ UNCHANGED source

HealthNext == \E v \in {NoSample} \cup 0 .. Largest(source), access \in Accesses :
                \E read \in Reads(access) : HealthCycle(v, access, read)

HealthSpec == HealthInit /\ [][HealthNext]_healthVars

-----------------------------------------------------------------------------

(* The repetition count test as documented (trng_managed.py:242): a failure  *)
(* is C equal samples in a row, B counting them from one.                    *)
RepetitionTest(s, C) == \E i \in 1 .. Len(s) - C + 1 : \A j \in i .. i + C - 1 : s[j] = s[i]

(* The adaptive proportion test as documented (319): a failure is a sample   *)
(* of which a window holds C, B counting the first.  Windows follow each     *)
(* other every window_max samples, and the first judged of them are compared. *)
ProportionTest(s, C, judged) ==
  \E i \in 1 .. Len(s) : /\ (i - 1) % window_max = 0
                         /\ Cardinality({j \in i .. i + judged - 1 : j <= Len(s) /\ s[j] = s[i]}) >= C

(* Both fail when, and only when, the samples since they were last cleared   *)
(* call for it, but not as their cutoffs are documented: counting from zero  *)
(* (286, 380), they allow one equal sample more, and the last sample of a    *)
(* window is not judged, as the end of the window comes before the cutoff    *)
(* (388).                                                                    *)
NistTestsExact ==
  /\ rep[source].failure <=> RepetitionTest(rep_due, rep_cutoff + 1)
  /\ adp[source].failure <=> ProportionTest(adp_due, adp_cutoff + 1, window_max - 1)

(* The excursion test is passed exactly when the last whole window since   *)
(* power came up spread far enough; a window that did not is kept.         *)
Values(s) == {s[k] : k \in DOMAIN s}
Spread(s) == Max(Values(s)) - Min(Values(s))
ExcursionJudged == source \in Av =>
  LET r == exc[source]
  IN /\ r.ready <=> exc_last # <<>> /\ Spread(exc_last) >= exc_cutoff
     /\ exc_last # <<>> => r.cur_min = Min(Values(exc_last)) /\ r.cur_max = Max(Values(exc_last))
     /\ exc_last # <<>> /\ ~r.ready => r.err_min = r.cur_min /\ r.err_max = r.cur_max

(* A ring oscillator's runs of at least n bits are counted as they end (618). *)
(* The count on show is that of a window of runs_window + 1 samples but for  *)
(* the run its last sample ends (608) and, unless it is the first one, the   *)
(* run its first sample ends (615).  The test fails when, and only when, a   *)
(* count that was not read in full went out of bounds since the last clear.  *)
RunsJudged == source \in Ro =>
  LET r == run[source]
  IN /\ \A n \in Run : /\ r.runcount[n] = Cardinality(Ended(run_seen, n))
                        /\ r.count[n] = Cardinality(Ended(run_shown, n))
     /\ run_shown # <<>> => Len(run_shown) - maxrun - 1 \in {runs_window - 1, runs_window}
     /\ r.failure <=> run_flagged

WindowsJudged == ExcursionJudged /\ RunsJudged
=============================================================================
