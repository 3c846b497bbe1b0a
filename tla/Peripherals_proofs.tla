-------------------------- MODULE Peripherals_proofs --------------------------
(* Two blocks of the SoC that share no signal: the watchdog, for every period *)
(* and every pair of clocks, and the SHA-512 accelerator, for every size of a *)
(* word, a block and the FIFO and every message.                              *)
EXTENDS Watchdog, Sha512, SequenceTheorems, TLAPS

(* The watchdog: its bounds, and what becomes of software's writes on their   *)
(* way to the slow clock.                                                     *)


countVars == <<wdt_count, wdog_enabled, wdog_enabled_r, wdt_start, wdt_count_lock,
               wdog_counter, wdog_cycle, wdog, quiet, fired>>

(* The part of the types that the count depends on. *)
CountType ==
  /\ wdog_enabled \in BOOLEAN /\ wdog_enabled_r \in BOOLEAN
  /\ wdt_start \in BOOLEAN /\ wdog_cycle \in BOOLEAN /\ fired \in BOOLEAN
  /\ period \in Nat /\ wdt_count \in Nat /\ wdt_count_lock \in Nat
  /\ wdog_counter \in Nat /\ quiet \in Nat
  /\ wdog \in {"IDLE", "DISARMED", "ARMED", "ARMED_HOT"}

(* Before the count begins nothing is armed and no period ends. *)
NotBegun ==
  /\ wdt_start => wdog_enabled_r
  /\ wdog_enabled_r => wdog_enabled /\ wdog # "IDLE"
  /\ ~wdog_enabled_r => wdog = "IDLE" /\ ~wdt_start /\ wdog_counter = default_period
  /\ ~started => quiet = 0 /\ ~wdog_cycle /\ wdog \in {"IDLE", "DISARMED"}

(* While it counts, a period ends when the counter has just been loaded. *)
Counting == started => /\ wdog_counter <= wdt_count_lock
                       /\ wdog_cycle => wdog_counter = wdt_count_lock

(* How much time has passed at least since the last kick, by the state of the *)
(* machine and of the counter...                                              *)
AtLeast ==
  /\ wdog = "ARMED" => IF wdog_cycle THEN quiet >= wdt_count_lock
                       ELSE quiet + wdog_counter + 1 >= wdt_count_lock
  /\ wdog = "ARMED_HOT" => IF wdog_cycle THEN quiet >= 2 * wdt_count_lock + 1
                           ELSE quiet + wdog_counter >= 2 * wdt_count_lock

(* ... and at most. *)
AtMost ==
  /\ wdog = "DISARMED" => IF wdog_cycle THEN quiet <= wdt_count_lock + 1
                          ELSE started => quiet + wdog_counter <= wdt_count_lock
  /\ wdog = "ARMED" => IF wdog_cycle THEN quiet <= 2 * wdt_count_lock + 2
                       ELSE quiet + wdog_counter <= 2 * wdt_count_lock + 1
  /\ wdog = "ARMED_HOT" => \/ fired
                           \/ IF wdog_cycle THEN quiet <= 3 * wdt_count_lock + 3
                              ELSE quiet + wdog_counter <= 3 * wdt_count_lock + 2

Inv == CountType /\ NotBegun /\ Counting /\ AtLeast /\ AtMost

-----------------------------------------------------------------------------
(* Before it is enabled the watchdog has counted nothing. *)
LEMMA InitInv == Init => Inv
<1> SUFFICES ASSUME Init PROVE Inv
  OBVIOUS
<1>1. default_period \in Nat
  BY PeriodAssumption
<1> QED
  BY <1>1 DEF Init, Inv, CountType, NotBegun, Counting, AtLeast, AtMost, started

(* A step either leaves the wdt side alone or is an edge of its clock. *)
LEMMA StepCases ==
  ASSUME Next PROVE (WdtEdge \/ UNCHANGED countVars) /\ (period' = period \/ period' \in Period)
<1>1. CASE ChipReset
  BY <1>1 DEF ChipReset, vars, csrVars, wdtVars, countVars
<1>2. CASE Cycle
  <2>1. period' = period \/ period' \in Period
    BY <1>2 DEF Cycle, NoAccess, WritePeriod, WriteWatchdog
  <2>2. PICK edge \in BOOLEAN : Clocks(edge)
    BY <1>2 DEF Cycle
  <2>3. CASE edge
    BY <2>1, <2>2, <2>3 DEF Clocks
  <2>4. CASE ~edge
    BY <2>1, <2>2, <2>4 DEF Clocks, wdtVars, countVars
  <2> QED
    BY <2>3, <2>4
<1> QED
  BY <1>1, <1>2 DEF Next

(* A period remains a number of cycles. *)
LEMMA PeriodIsNat == ASSUME CountType, period' = period \/ period' \in Period
                     PROVE period' \in Nat
  BY PeriodAssumption DEF CountType

(* An edge of the wdt clock, as far as the count goes. *)
LEMMA EdgeType == ASSUME CountType, NotBegun, WdtEdge, period' \in Nat PROVE CountType'
<1>1. wdt_count' \in Nat /\ wdt_count_lock' \in Nat
  BY DEF CountType, WdtEdge, Registers, PeriodArrives, Counter, Lock
<1>2. wdog_counter' \in Nat
  BY DEF CountType, WdtEdge, Counter
<1>3. quiet' \in Nat
  BY DEF CountType, WdtEdge, History
<1>4. /\ wdog_enabled_r' \in BOOLEAN /\ wdt_start' \in BOOLEAN /\ wdog_cycle' \in BOOLEAN
      /\ wdog_enabled' \in BOOLEAN /\ fired' \in BOOLEAN
  BY DEF CountType, WdtEdge, Enabling, Counter, History
<1>5. wdog' \in {"IDLE", "DISARMED", "ARMED", "ARMED_HOT"}
  BY DEF CountType, WdtEdge, Wdog, Disarmed
<1> QED
  BY <1>1, <1>2, <1>3, <1>4, <1>5 DEF CountType

(* The enable runs through its pipe before the count begins. *)
LEMMA EdgeNotBegun == ASSUME CountType, NotBegun, WdtEdge PROVE NotBegun'
<1>1. /\ wdog_enabled' = (wdog_enable_wdt \/ wdog_enabled)
      /\ wdog_enabled_r' = wdog_enabled
      /\ wdt_start' = (~wdog_enabled_r /\ wdog_enabled)
  BY DEF WdtEdge, Enabling, Counter
<1>2. /\ wdog = "IDLE" => wdog' = IF wdog_enabled THEN "DISARMED" ELSE "IDLE"
      /\ wdog # "IDLE" => wdog' # "IDLE"
      /\ wdog = "DISARMED" /\ ~wdog_cycle => wdog' = "DISARMED"
  BY DEF WdtEdge, Wdog, Disarmed
<1>3. ~started => quiet' = 0
  BY DEF WdtEdge, History
<1>4. CASE started
  BY <1>1, <1>2, <1>4 DEF CountType, NotBegun, started
<1>5. CASE wdt_start
  BY <1>1, <1>2, <1>3, <1>5 DEF CountType, NotBegun, started, WdtEdge, Counter
<1>6. CASE ~wdog_enabled_r
  <2>1. default_period # 0 /\ wdog_counter = default_period
    BY <1>6, PeriodAssumption DEF NotBegun
  <2>2. ~wdog_cycle'
    BY <1>6, <2>1 DEF NotBegun, started, WdtEdge, Counter, counting
  <2>3. ~wdog_enabled => wdog_counter' = wdog_counter
    BY <1>6 DEF NotBegun, WdtEdge, Counter, counting
  <2> QED
    BY <1>1, <1>2, <1>3, <1>6, <2>1, <2>2, <2>3 DEF CountType, NotBegun, started
<1> QED
  BY <1>4, <1>5, <1>6 DEF started
(* While it counts, an edge counts down or ends a period. *)
LEMMA CountStep ==
  ASSUME CountType, NotBegun, Counting, started, WdtEdge
  PROVE  /\ started' /\ wdt_count_lock' = wdt_count_lock
         /\ wdog_cycle' = (wdog_counter = 0)
         /\ wdog_counter' = IF wdog_counter = 0 THEN wdt_count_lock ELSE wdog_counter - 1
         /\ quiet' = IF reset_wdt THEN 0 ELSE quiet + 1
<1>1. wdog_enabled /\ wdog_enabled_r /\ ~wdt_start
  BY DEF started, NotBegun
<1>2. started' /\ wdt_count_lock' = wdt_count_lock
  BY <1>1 DEF WdtEdge, Counter, Lock, Enabling, started
<1>3. /\ wdog_cycle' = (wdog_counter = 0)
      /\ wdog_counter' = IF wdog_counter = 0 THEN wdt_count_lock ELSE wdog_counter - 1
  BY <1>1 DEF WdtEdge, Counter, counting
<1>4. quiet' = IF reset_wdt THEN 0 ELSE quiet + 1
  BY DEF WdtEdge, History
<1> QED
  BY <1>2, <1>3, <1>4

(* Before, the edge that begins the count starts it with a whole period. *)
LEMMA BeginStep ==
  ASSUME CountType, NotBegun, ~started, WdtEdge, started'
  PROVE  /\ wdog_counter' = wdt_count_lock' /\ ~wdog_cycle' /\ quiet' = 0
         /\ wdog' = "DISARMED"
<1>1. wdt_start /\ wdog_enabled_r /\ wdog_enabled
  BY DEF started, NotBegun, WdtEdge, Enabling, Counter
<1>2. wdog_counter' = wdt_count_lock' /\ ~wdog_cycle' /\ quiet' = 0
  BY <1>1 DEF NotBegun, WdtEdge, Counter, Lock, History, started
<1>3. wdog = "DISARMED" /\ wdog' = "DISARMED"
  BY <1>1 DEF NotBegun, WdtEdge, Wdog, Disarmed
<1> QED
  BY <1>2, <1>3

(* The counter runs down from the period it has locked. *)
LEMMA EdgeCounting ==
  ASSUME CountType, CountType', NotBegun, Counting, WdtEdge PROVE Counting'
<1> SUFFICES ASSUME started'
             PROVE  /\ wdog_counter' <= wdt_count_lock'
                    /\ wdog_cycle' => wdog_counter' = wdt_count_lock'
  BY DEF Counting
<1>1. CASE started
  BY <1>1, CountStep DEF Counting, CountType
<1>2. CASE ~started
  BY <1>2, BeginStep DEF CountType
<1> QED
  BY <1>1, <1>2

(* The machine's moves while it counts. *)
LEMMA WdogStep ==
  ASSUME WdtEdge
  PROVE  /\ wdog = "IDLE" => wdog' \in {"IDLE", "DISARMED"}
         /\ wdog = "DISARMED" => wdog' = IF wdog_cycle THEN "ARMED" ELSE "DISARMED"
         /\ wdog = "ARMED" => wdog' = IF reset_wdt THEN "DISARMED"
                                      ELSE IF wdog_cycle THEN "ARMED_HOT" ELSE "ARMED"
         /\ wdog = "ARMED_HOT" => wdog' = IF reset_wdt THEN "DISARMED" ELSE "ARMED_HOT"
  BY DEF WdtEdge, Wdog, Disarmed

(* No state is reached sooner than the periods before it last. *)
LEMMA EdgeAtLeast ==
  ASSUME CountType, CountType', NotBegun, NotBegun', Counting, AtLeast, WdtEdge PROVE AtLeast'
<1>1. CASE ~started'
  BY <1>1 DEF NotBegun, AtLeast
<1>2. CASE started' /\ ~started
  BY <1>2, BeginStep DEF AtLeast
<1>3. CASE started
  <2> DEFINE lock == wdt_count_lock  n == wdog_counter  q == quiet
             n1 == wdog_counter'  q1 == quiet'
  <2>0. /\ lock \in Nat /\ n \in Nat /\ q \in Nat /\ n1 \in Nat /\ q1 \in Nat /\ n <= lock
        /\ wdt_count_lock' = lock
        /\ wdog_cycle' = (n = 0) /\ n1 = IF n = 0 THEN lock ELSE n - 1
        /\ q1 = IF reset_wdt THEN 0 ELSE q + 1
        /\ wdog_cycle => n = lock
    BY <1>3, CountStep DEF CountType, Counting
  <2>1. wdog # "IDLE"
    BY <1>3 DEF started, NotBegun
  <2>2. CASE wdog' = "ARMED"
    <3>1. IF n = 0 THEN q1 >= lock ELSE q1 + n1 + 1 >= lock
      <4>1. CASE wdog_cycle
        BY <2>0, <4>1
      <4>2. CASE ~wdog_cycle
        <5>1. wdog = "ARMED" /\ ~reset_wdt
          BY <2>1, <2>2, <4>2, WdogStep DEF CountType
        <5>2. q + n + 1 >= lock
          BY <4>2, <5>1 DEF AtLeast
        <5> QED
          BY <2>0, <5>1, <5>2
      <4> QED
        BY <4>1, <4>2
    <3> QED
      BY <2>0, <2>2, <3>1 DEF AtLeast
  <2>3. CASE wdog' = "ARMED_HOT"
    <3>1. ~reset_wdt /\ ((wdog = "ARMED" /\ wdog_cycle) \/ wdog = "ARMED_HOT")
      BY <2>1, <2>3, WdogStep DEF CountType
    <3>2. IF n = 0 THEN q1 >= 2 * lock + 1 ELSE q1 + n1 >= 2 * lock
      <4>1. CASE wdog = "ARMED" /\ wdog_cycle
        <5>1. q >= lock /\ n = lock
          BY <2>0, <4>1 DEF AtLeast
        <5> QED
          BY <2>0, <3>1, <5>1
      <4>2. CASE wdog = "ARMED_HOT" /\ wdog_cycle
        <5>1. q >= 2 * lock + 1 /\ n = lock
          BY <2>0, <4>2 DEF AtLeast
        <5> QED
          BY <2>0, <3>1, <5>1
      <4>3. CASE wdog = "ARMED_HOT" /\ ~wdog_cycle
        <5>1. q + n >= 2 * lock
          BY <4>3 DEF AtLeast
        <5> QED
          BY <2>0, <3>1, <5>1
      <4> QED
        BY <3>1, <4>1, <4>2, <4>3
    <3> QED
      BY <2>0, <2>3, <3>2 DEF AtLeast
  <2>4. CASE wdog' \notin {"ARMED", "ARMED_HOT"}
    BY <2>4 DEF AtLeast
  <2> QED
    BY <2>2, <2>3, <2>4
<1> QED
  BY <1>1, <1>2, <1>3

(* No state is held longer than the periods up to it last. *)
LEMMA EdgeAtMost ==
  ASSUME CountType, CountType', NotBegun, NotBegun', Counting, AtMost, WdtEdge PROVE AtMost'
<1>0. fired' = (fired \/ do_reset)
  BY DEF WdtEdge, History
<1>1. CASE ~started'
  <2>1. quiet' = 0 /\ ~wdog_cycle' /\ wdog' \in {"IDLE", "DISARMED"}
    BY <1>1 DEF NotBegun
  <2> QED
    BY <1>1, <2>1 DEF AtMost
<1>2. CASE started' /\ ~started
  <2>1. wdog_counter' = wdt_count_lock' /\ ~wdog_cycle' /\ quiet' = 0 /\ wdog' = "DISARMED"
    BY <1>2, BeginStep
  <2>2. quiet' + wdog_counter' <= wdt_count_lock'
    <3>1. wdt_count_lock' \in Nat
      BY DEF CountType
    <3>2. \A lock \in Nat : 0 + lock <= lock
      OBVIOUS
    <3>3. 0 + wdt_count_lock' <= wdt_count_lock'
      BY <3>1, <3>2
    <3>4. quiet' = 0 /\ wdog_counter' = wdt_count_lock'
      BY <2>1
    <3> QED
      BY <3>3, <3>4
  <2> QED
    BY <2>1, <2>2 DEF AtMost
<1>3. CASE started
  <2> DEFINE lock == wdt_count_lock  n == wdog_counter  q == quiet
             n1 == wdog_counter'  q1 == quiet'
  <2>0. /\ lock \in Nat /\ n \in Nat /\ q \in Nat /\ n1 \in Nat /\ q1 \in Nat /\ n <= lock
        /\ wdt_count_lock' = lock
        /\ wdog_cycle' = (n = 0) /\ n1 = IF n = 0 THEN lock ELSE n - 1
        /\ q1 = IF reset_wdt THEN 0 ELSE q + 1
        /\ wdog_cycle => n = lock
    BY <1>3, CountStep DEF CountType, Counting
  <2>1. wdog # "IDLE"
    BY <1>3 DEF started, NotBegun
  <2>2. CASE wdog' = "DISARMED"
    <3>1. IF n = 0 THEN q1 <= lock + 1 ELSE q1 + n1 <= lock
      <4>1. CASE reset_wdt
        BY <2>0, <4>1
      <4>2. CASE ~reset_wdt
        <5>1. wdog = "DISARMED" /\ ~wdog_cycle
          BY <2>1, <2>2, <4>2, WdogStep DEF CountType
        <5>2. q + n <= lock
          BY <1>3, <5>1 DEF AtMost
        <5> QED
          BY <2>0, <4>2, <5>2
      <4> QED
        BY <4>1, <4>2
    <3> QED
      BY <2>0, <2>2, <3>1 DEF AtMost
  <2>3. CASE wdog' = "ARMED"
    <3>1. IF n = 0 THEN q1 <= 2 * lock + 2 ELSE q1 + n1 <= 2 * lock + 1
      <4>1. CASE wdog = "DISARMED" /\ wdog_cycle
        <5>1. q <= lock + 1 /\ n = lock
          BY <2>0, <4>1 DEF AtMost
        <5> QED
          BY <2>0, <5>1
      <4>2. CASE wdog = "ARMED" /\ ~wdog_cycle
        <5>1. q + n <= 2 * lock + 1
          BY <4>2 DEF AtMost
        <5> QED
          BY <2>0, <5>1
      <4> QED
        BY <2>1, <2>3, <4>1, <4>2, WdogStep DEF CountType
    <3> QED
      BY <2>0, <2>3, <3>1 DEF AtMost
  <2>4. CASE wdog' = "ARMED_HOT"
    <3>1. ~reset_wdt /\ ((wdog = "ARMED" /\ wdog_cycle) \/ wdog = "ARMED_HOT")
      BY <2>1, <2>4, WdogStep DEF CountType
    <3>2. fired' \/ IF n = 0 THEN q1 <= 3 * lock + 3 ELSE q1 + n1 <= 3 * lock + 2
      <4>1. CASE wdog = "ARMED" /\ wdog_cycle
        <5>1. q <= 2 * lock + 2 /\ n = lock
          BY <2>0, <4>1 DEF AtMost
        <5> QED
          BY <2>0, <5>1
      <4>2. CASE wdog = "ARMED_HOT" /\ wdog_cycle
        BY <1>0, <3>1, <4>2 DEF do_reset
      <4>3. CASE wdog = "ARMED_HOT" /\ ~wdog_cycle
        <5>1. fired \/ q + n <= 3 * lock + 2
          BY <4>3 DEF AtMost
        <5>2. CASE fired
          BY <1>0, <5>2
        <5>3. CASE ~fired
          BY <2>0, <5>1, <5>3
        <5> QED
          BY <5>2, <5>3
      <4> QED
        BY <3>1, <4>1, <4>2, <4>3
    <3> QED
      BY <2>0, <2>4, <3>2 DEF AtMost
  <2>5. CASE wdog' \notin {"DISARMED", "ARMED", "ARMED_HOT"}
    BY <2>5 DEF AtMost
  <2> QED
    BY <2>2, <2>3, <2>4, <2>5
<1> QED
  BY <1>1, <1>2, <1>3

(* A step of the specification keeps the bounds of the count. *)
LEMMA StepInv == Inv /\ [Next]_vars => Inv'
<1> SUFFICES ASSUME Inv, [Next]_vars PROVE Inv'
  OBVIOUS
<1>1. CASE UNCHANGED vars
  BY <1>1 DEF vars, csrVars, wdtVars, Inv, CountType, NotBegun, Counting, AtLeast, AtMost, started
<1>2. CASE Next
  <2>1. period' \in Nat
    BY <1>2, StepCases, PeriodIsNat DEF Inv
  <2>2. CASE UNCHANGED countVars
    BY <2>1, <2>2 DEF countVars, Inv, CountType, NotBegun, Counting, AtLeast, AtMost, started
  <2>3. CASE WdtEdge
    <3>1. CountType' /\ NotBegun'
      BY <2>1, <2>3, EdgeType, EdgeNotBegun DEF Inv
    <3>2. Counting' /\ AtLeast' /\ AtMost'
      BY <2>3, <3>1, EdgeCounting, EdgeAtLeast, EdgeAtMost DEF Inv
    <3> QED
      BY <3>1, <3>2 DEF Inv
  <2> QED
    BY <1>2, <2>2, <2>3, StepCases
<1> QED
  BY <1>1, <1>2

(* The bounds of the count hold in every reachable state, for every period. *)
THEOREM Invariance == Spec => []Inv
  BY InitInv, StepInv, PTL DEF Spec

-----------------------------------------------------------------------------
(* For every period and every ratio of the clocks: the watchdog pulls the     *)
(* reset only when two whole periods have passed since the last kick arrived. *)
THEOREM NoEarlyResetCorrect == Spec => []NoEarlyReset
<1>1. Inv => NoEarlyReset
  BY DEF Inv, AtLeast, NoEarlyReset, do_reset
<1> QED
  BY <1>1, Invariance, PTL

(* ... and if no kick arrives, it has pulled it within three periods. *)
THEOREM ResetInTimeCorrect == Spec => []ResetInTime
<1>1. ASSUME Inv, quiet > 3 * (wdt_count_lock + 1) PROVE fired
  <2>1. started
    BY <1>1 DEF Inv, NotBegun, CountType
  <2>2. wdog \in {"DISARMED", "ARMED", "ARMED_HOT"}
    BY <2>1, <1>1 DEF Inv, NotBegun, CountType, started
  <2> QED
    BY <1>1, <2>1, <2>2 DEF Inv, CountType, Counting, AtMost
<1>2. Inv => ResetInTime
  BY <1>1 DEF ResetInTime
<1> QED
  BY <1>2, Invariance, PTL

-----------------------------------------------------------------------------
(* The kick on its way: one token that goes to the wdt side and back, while   *)
(* the transfer is blind.                                                     *)
there == reset_sync.there
back == reset_sync.back

Token ==
  /\ ~back.t
  /\ kick_blind <=> there.t \/ there.m \/ there.o \/ back.m \/ back.o
  /\ ~(there.t /\ (there.m \/ there.o)) /\ ~(there.m /\ there.o)
  /\ (there.t \/ there.m \/ there.o) => ~back.m /\ ~back.o
  /\ ~(back.m /\ back.o)

(* Where the kick is that has been waiting longest: still in the registers    *)
(* before the transfer, which is not blind any more when it gets there, or in *)
(* the transfer, whose every stage takes until the next edge of wdt.          *)
Waiting == unheeded # 0 =>
  \/ unheeded = 1 /\ kick
  \/ unheeded = 2 /\ w_stretch # 0 /\ ~back.m
  \/ unheeded = 3 /\ reset_wdt_sys /\ ~back.m /\ ~back.o
  \/ there.t /\ unheeded <= 4 + since
  \/ there.m /\ unheeded <= 4 + MaxGap + since
  \/ there.o /\ unheeded <= 4 + 2 * MaxGap + since

(* The period is at rest from the moment the watchdog is enabled until the    *)
(* count begins, and each register the enable bit passes adds to the time it  *)
(* has been so.                                                               *)
Ripe(k) == settled >= Round \/ settled >= Settle + k
Settling ==
  /\ wdt_start => wdog_enabled_r
  /\ wdog_enabled_r => wdog_enabled /\ wdt_count_lock = wanted
  /\ enable_r \/ wdog_enable_wdt => enable \/ wdog_enabled
  /\ ~started => /\ enable \/ wdog_enabled => wanted = period
                 /\ enable => Ripe(1)
                 /\ enable_r => Ripe(2)
                 /\ wdog_enable_wdt => Ripe(3)
                 /\ wdog_enabled => settled >= Round /\ wdt_count = period

WriteInv == TypeOK /\ Token /\ Waiting /\ Settling

-----------------------------------------------------------------------------
(* A step that is not held by the reset line. *)
LEMMA CycleParts ==
  ASSUME Cycle
  PROVE  /\ NoAccess \/ WritePeriod \/ WriteWatchdog
         /\ \E edge \in BOOLEAN : Clocks(edge)
BY DEF Cycle

(* Every value that a period can have is a number, the one after reset too. *)
LEMMA PeriodValues ==
  /\ PeriodValue \subseteq Nat /\ 0 \in PeriodValue /\ default_period \in PeriodValue
  /\ Period \subseteq PeriodValue
BY PeriodAssumption DEF PeriodValue

(* Each register of a pulse synchronizer in a step. *)
LEMMA SendStep ==
  ASSUME NEW s \in Sync, NEW pulse \in BOOLEAN
  PROVE  Send(s, pulse) = [t |-> (s.t # pulse), m |-> s.m, o |-> s.o]
BY DEF Send, Sync

(* A pulse of the CPU clock turns the toggle, which the wdt clock samples at its edges. *)
LEMMA ToWdtStep ==
  ASSUME NEW s \in Sync, NEW pulse \in BOOLEAN, NEW edge \in BOOLEAN
  PROVE  /\ ToWdt(s, pulse, edge) \in Sync
         /\ ToWdt(s, pulse, edge).t = ((~edge /\ s.t) # pulse)
         /\ ToWdt(s, pulse, edge).m = IF edge THEN s.t ELSE s.m
         /\ ToWdt(s, pulse, edge).o = IF edge THEN s.m ELSE s.o
<1>1. CASE edge
  <2> DEFINE r == Shift(s)
  <2>1. r \in Sync /\ r.t = FALSE /\ r.m = s.t /\ r.o = s.m
    BY DEF Shift, Sync
  <2>2. ToWdt(s, pulse, edge) = Send(r, pulse)
    BY <1>1 DEF ToWdt
  <2> HIDE DEF r
  <2>3. Send(r, pulse) = [t |-> (r.t # pulse), m |-> r.m, o |-> r.o]
    BY <2>1, SendStep
  <2>4. Send(r, pulse) \in Sync
    BY <2>1, <2>3 DEF Sync
  <2>5. (Send(r, pulse).t = (r.t # pulse)) /\ Send(r, pulse).m = r.m /\ Send(r, pulse).o = r.o
    BY <2>3
  <2>6. ToWdt(s, pulse, edge).t = (FALSE # pulse)
    BY <2>1, <2>2, <2>5
  <2>7. ToWdt(s, pulse, edge).m = s.t /\ ToWdt(s, pulse, edge).o = s.m
    BY <2>1, <2>2, <2>5
  <2>8. (~edge /\ s.t) = FALSE
    BY <1>1
  <2> QED BY <1>1, <2>2, <2>4, <2>6, <2>7, <2>8
<1>2. CASE ~edge
  <2>1. ToWdt(s, pulse, edge) = [t |-> (s.t # pulse), m |-> s.m, o |-> s.o]
    BY <1>2, SendStep DEF ToWdt
  <2> QED BY <1>2, <2>1 DEF Sync
<1> QED BY <1>1, <1>2

(* A pulse of the wdt clock turns the toggle, which the CPU clock samples each cycle. *)
LEMMA ToSysStep ==
  ASSUME NEW s \in Sync, NEW pulse \in BOOLEAN, NEW edge \in BOOLEAN
  PROVE  /\ ToSys(s, pulse, edge) \in Sync
         /\ ToSys(s, pulse, edge).t = FALSE
         /\ ToSys(s, pulse, edge).m = (s.t # (edge /\ pulse))
         /\ ToSys(s, pulse, edge).o = s.m
<1>1. ToSys(s, pulse, edge) = [t |-> FALSE, m |-> (s.t # (edge /\ pulse)), o |-> s.m]
  BY DEF ToSys, Send, Shift, Sync
<1> QED BY <1>1 DEF Sync

(* Both pairs of synchronizers in a step, and where the kick's token goes. *)
LEMMA CrossStep ==
  ASSUME TypeOK, NEW edge \in BOOLEAN, Crossings(edge)
  PROVE  /\ reset_sync' \in [there : Sync, back : Sync]
         /\ do_res_sync' \in [there : Sync, back : Sync]
         /\ there.t' = ((~edge /\ there.t) # (reset_wdt_sys /\ ~kick_blind))
         /\ there.m' = IF edge THEN there.t ELSE there.m
         /\ there.o' = IF edge THEN there.m ELSE there.o
         /\ back.t' = FALSE
         /\ back.m' = (back.t # (edge /\ there.o))
         /\ back.o' = back.m
<1>1. /\ there \in Sync /\ back \in Sync
      /\ do_res_sync.there \in Sync /\ do_res_sync.back \in Sync
      /\ reset_wdt_sys \in BOOLEAN /\ kick_blind \in BOOLEAN /\ reset_blind \in BOOLEAN
  BY DEF TypeOK, there, back
<1>2. there.o \in BOOLEAN /\ do_res_sync.there.o \in BOOLEAN
  BY <1>1 DEF Sync
<1> DEFINE sent == reset_wdt_sys /\ ~kick_blind
           reset == do_reset /\ ~reset_blind
<1>3. sent \in BOOLEAN /\ reset \in BOOLEAN
  OBVIOUS
<1>4. reset_sync' = [there |-> ToWdt(there, sent, edge), back |-> ToSys(back, there.o, edge)]
  BY DEF Crossings, there, back
<1>5. do_res_sync' = [there |-> ToSys(do_res_sync.there, reset, edge),
                      back  |-> ToWdt(do_res_sync.back, do_res_sync.there.o, edge)]
  BY DEF Crossings
<1> HIDE DEF sent, reset
<1>6. there' = ToWdt(there, sent, edge) /\ back' = ToSys(back, there.o, edge)
  BY <1>4 DEF there, back
<1>7. there' \in Sync /\ back' \in Sync
  BY <1>1, <1>2, <1>3, <1>6, ToWdtStep, ToSysStep
<1>8. /\ there.t' = ((~edge /\ there.t) # sent)
      /\ there.m' = IF edge THEN there.t ELSE there.m
      /\ there.o' = IF edge THEN there.m ELSE there.o
  <2> DEFINE r == ToWdt(there, sent, edge)
  <2>1. /\ r.t = ((~edge /\ there.t) # sent)
        /\ r.m = IF edge THEN there.t ELSE there.m
        /\ r.o = IF edge THEN there.m ELSE there.o
    BY <1>1, <1>3, ToWdtStep
  <2> QED BY <1>6, <2>1, Zenon
<1>9. /\ back.t' = FALSE
      /\ back.m' = (back.t # (edge /\ there.o))
      /\ back.o' = back.m
  <2>1. ToSys(back, there.o, edge)
          = [t |-> FALSE, m |-> (back.t # (edge /\ there.o)), o |-> back.m]
    BY <1>1 DEF ToSys, Send, Shift, Sync
  <2>2. back' = [t |-> FALSE, m |-> (back.t # (edge /\ there.o)), o |-> back.m]
    BY <1>6, <2>1
  <2> QED BY <2>2
<1>10. reset_sync' \in [there : Sync, back : Sync]
  BY <1>4, <1>6, <1>7
<1>11. do_res_sync' \in [there : Sync, back : Sync]
  <2>1. ToSys(do_res_sync.there, reset, edge) \in Sync
    BY <1>1, <1>3, ToSysStep
  <2>2. ToWdt(do_res_sync.back, do_res_sync.there.o, edge) \in Sync
    BY <1>1, <1>2, ToWdtStep
  <2> QED BY <1>5, <2>1, <2>2
<1> QED BY <1>8, <1>9, <1>10, <1>11 DEF sent

(* Software's own counters stay in range. *)
LEMMA SoftwareType ==
  ASSUME TypeOK, NoAccess \/ WritePeriod \/ WriteWatchdog
  PROVE  /\ enable' \in BOOLEAN /\ kick' \in BOOLEAN
         /\ period' \in PeriodValue /\ wanted' \in PeriodValue
         /\ gap' \in 0..(AccessTicks - 1) /\ settled' \in 0..(Settle + Round)
<1>1. enable' \in BOOLEAN /\ kick' \in BOOLEAN
  BY DEF TypeOK, NoAccess, WritePeriod, WriteWatchdog
<1>2. period' \in PeriodValue /\ wanted' \in PeriodValue
  BY PeriodValues DEF TypeOK, NoAccess, WritePeriod, WriteWatchdog
<1>3. gap' \in 0..(AccessTicks - 1)
  BY TicksAssumption DEF TypeOK, NoAccess, WritePeriod, WriteWatchdog
<1>4. waited \in 0..(Settle + Round)
  BY TicksAssumption DEF TypeOK, waited
<1>5. settled' \in 0..(Settle + Round)
  <2>1. 0 \in 0..(Settle + Round)
    BY TicksAssumption
  <2> QED BY <1>4, <2>1 DEF TypeOK, NoAccess, WritePeriod, WriteWatchdog
<1> QED BY <1>1, <1>2, <1>3, <1>5

(* An edge of the wdt clock, register by register. *)
LEMMA WdtType ==
  ASSUME TypeOK, WdtEdge
  PROVE  /\ enable_r' \in BOOLEAN /\ wdog_enable_wdt' \in BOOLEAN /\ wdog_enabled' \in BOOLEAN
         /\ wdog_enabled_r' \in BOOLEAN /\ wdt_start' \in BOOLEAN /\ wdog_cycle' \in BOOLEAN
         /\ reset_blind' \in BOOLEAN /\ fired' \in BOOLEAN
         /\ wdt_count' \in PeriodValue /\ wdt_count_lock' \in PeriodValue
         /\ wdog_counter' \in Nat /\ wdog' \in {"IDLE", "DISARMED", "ARMED", "ARMED_HOT"}
         /\ quiet' \in Nat
<1>1. /\ enable \in BOOLEAN /\ enable_r \in BOOLEAN /\ wdog_enable_wdt \in BOOLEAN
      /\ wdog_enabled \in BOOLEAN /\ wdog_cycle \in BOOLEAN
  BY DEF TypeOK
<1>2. enable_r' \in BOOLEAN /\ wdog_enable_wdt' \in BOOLEAN /\ reset_blind' \in BOOLEAN
  BY <1>1 DEF WdtEdge, Registers
<1>3. wdog_enabled' \in BOOLEAN /\ wdog_enabled_r' \in BOOLEAN /\ wdt_start' \in BOOLEAN
  BY <1>1 DEF WdtEdge, Enabling, Counter
<1>4. wdog_cycle' \in BOOLEAN /\ fired' \in BOOLEAN
  BY <1>1, Zenon DEF WdtEdge, Counter, History
<1>5. wdt_count' \in PeriodValue /\ wdt_count_lock' \in PeriodValue
  BY DEF TypeOK, WdtEdge, Registers, PeriodArrives, Counter, Lock
<1>6. wdog_counter' \in Nat
  <2>1. wdt_count_lock \in Nat /\ wdog_counter \in Nat
    BY PeriodValues DEF TypeOK
  <2>2. wdog_counter' \in {wdt_count_lock, wdog_counter}
        \/ (wdog_counter # 0 /\ wdog_counter' = wdog_counter - 1)
    BY DEF WdtEdge, Counter
  <2> QED BY <2>1, <2>2
<1>7. wdog' \in {"IDLE", "DISARMED", "ARMED", "ARMED_HOT"}
  BY DEF WdtEdge, Wdog, Disarmed
<1>8. quiet' \in Nat
  BY DEF TypeOK, WdtEdge, History
<1> QED BY <1>2, <1>3, <1>4, <1>5, <1>6, <1>7, <1>8

(* A cycle keeps the registers of both domains within their types. *)
LEMMA CycleType == ASSUME TypeOK, Cycle PROVE TypeOK'
<1>0. PICK edge \in BOOLEAN : Clocks(edge)
  BY CycleParts
<1>1. /\ enable' \in BOOLEAN /\ kick' \in BOOLEAN
      /\ period' \in PeriodValue /\ wanted' \in PeriodValue
      /\ gap' \in 0..(AccessTicks - 1) /\ settled' \in 0..(Settle + Round)
  BY CycleParts, SoftwareType
<1>2. /\ reset_sync' \in [there : Sync, back : Sync]
      /\ do_res_sync' \in [there : Sync, back : Sync]
  BY <1>0, CrossStep DEF Clocks
<1>3. reset_wdt_sys' \in BOOLEAN /\ kick_blind' \in BOOLEAN /\ gsr' \in BOOLEAN
  BY <1>0 DEF Clocks, KickSys, KickOut, ResetSys
<1>4. w_stretch' \in 0..7 /\ reset_stretch' \in 0..31
  BY <1>0 DEF TypeOK, Clocks, KickSys, stretched, ResetSys, ResetStretch
<1>5. since' \in 0..(MaxGap - 1) /\ unheeded' \in Nat
  BY <1>0, TicksAssumption DEF TypeOK, Clocks
<1>6. /\ enable_r' \in BOOLEAN /\ wdog_enable_wdt' \in BOOLEAN /\ wdog_enabled' \in BOOLEAN
      /\ wdog_enabled_r' \in BOOLEAN /\ wdt_start' \in BOOLEAN /\ wdog_cycle' \in BOOLEAN
      /\ reset_blind' \in BOOLEAN /\ fired' \in BOOLEAN
      /\ wdt_count' \in PeriodValue /\ wdt_count_lock' \in PeriodValue
      /\ wdog_counter' \in Nat /\ wdog' \in {"IDLE", "DISARMED", "ARMED", "ARMED_HOT"}
      /\ quiet' \in Nat
  <2>1. CASE edge
    BY <1>0, <2>1, WdtType DEF Clocks
  <2>2. CASE ~edge
    <3>1. UNCHANGED wdtVars
      BY <1>0, <2>2 DEF Clocks
    <3> QED BY <3>1 DEF wdtVars, TypeOK
  <2> QED BY <2>1, <2>2
<1> QED BY <1>1, <1>2, <1>3, <1>4, <1>5, <1>6 DEF TypeOK

(* The same for a step of the clocks, with the two registers before them. *)
LEMMA KickStep ==
  ASSUME TypeOK, Token, NEW edge \in BOOLEAN, Clocks(edge)
  PROVE  /\ there.t' <=> (~edge /\ there.t) \/ (reset_wdt_sys /\ ~kick_blind)
         /\ there.m' <=> (edge /\ there.t) \/ (~edge /\ there.m)
         /\ there.o' <=> (edge /\ there.m) \/ (~edge /\ there.o)
         /\ ~back.t'
         /\ back.m' <=> edge /\ there.o
         /\ back.o' <=> back.m
         /\ kick_blind' <=> (kick_blind \/ reset_wdt_sys) /\ ~back.o
         /\ reset_wdt_sys' <=> w_stretch # 0
         /\ kick => w_stretch' = 7
         /\ since' = IF edge THEN 0 ELSE since + 1
         /\ ~edge => since < MaxGap - 1
         /\ unheeded' = IF edge /\ there.o THEN IF kick' THEN 1 ELSE 0
                        ELSE IF unheeded # 0 \/ kick' THEN unheeded + 1 ELSE 0
<1>1. /\ there.t \in BOOLEAN /\ there.m \in BOOLEAN /\ there.o \in BOOLEAN
      /\ back.t \in BOOLEAN /\ back.m \in BOOLEAN /\ back.o \in BOOLEAN
      /\ reset_wdt_sys \in BOOLEAN /\ kick_blind \in BOOLEAN
  BY DEF TypeOK, Sync, there, back
<1>2. /\ there.t' = ((~edge /\ there.t) # (reset_wdt_sys /\ ~kick_blind))
      /\ there.m' = IF edge THEN there.t ELSE there.m
      /\ there.o' = IF edge THEN there.m ELSE there.o
      /\ back.t' = FALSE
      /\ back.m' = (back.t # (edge /\ there.o))
      /\ back.o' = back.m
  BY CrossStep DEF Clocks
<1>3. there.t => kick_blind
  BY DEF Token
<1>4. there.t' <=> (~edge /\ there.t) \/ (reset_wdt_sys /\ ~kick_blind)
  BY <1>1, <1>2, <1>3
<1>5. /\ there.m' <=> (edge /\ there.t) \/ (~edge /\ there.m)
      /\ there.o' <=> (edge /\ there.m) \/ (~edge /\ there.o)
  BY <1>1, <1>2
<1>6. ~back.t' /\ (back.m' <=> edge /\ there.o) /\ (back.o' <=> back.m)
  BY <1>1, <1>2 DEF Token
<1>7. /\ kick_blind' <=> (kick_blind \/ reset_wdt_sys) /\ ~back.o
      /\ reset_wdt_sys' <=> w_stretch # 0
      /\ kick => w_stretch' = 7
  BY <1>1 DEF Clocks, KickSys, KickOut, stretched, back
<1>8. /\ since' = IF edge THEN 0 ELSE since + 1
      /\ ~edge => since < MaxGap - 1
      /\ unheeded' = IF edge /\ there.o THEN IF kick' THEN 1 ELSE 0
                     ELSE IF unheeded # 0 \/ kick' THEN unheeded + 1 ELSE 0
  BY DEF Clocks, reset_wdt, there
<1> QED BY <1>4, <1>5, <1>6, <1>7, <1>8

(* There is one token at a time, *)
LEMMA TokenStep == ASSUME TypeOK, Token, Cycle PROVE Token'
<1>0. PICK edge \in BOOLEAN : Clocks(edge)
  BY CycleParts
<1>1. /\ there.t' <=> (~edge /\ there.t) \/ (reset_wdt_sys /\ ~kick_blind)
      /\ there.m' <=> (edge /\ there.t) \/ (~edge /\ there.m)
      /\ there.o' <=> (edge /\ there.m) \/ (~edge /\ there.o)
      /\ ~back.t'
      /\ back.m' <=> edge /\ there.o
      /\ back.o' <=> back.m
      /\ kick_blind' <=> (kick_blind \/ reset_wdt_sys) /\ ~back.o
  BY <1>0, KickStep
<1> QED BY <1>1, Zenon DEF Token

(* and it moves on with every edge. *)
LEMMA WaitingStep == ASSUME TypeOK, Token, Waiting, Cycle PROVE Waiting'
<1>0. PICK edge \in BOOLEAN : Clocks(edge)
  BY CycleParts
<1>1. /\ there.t' <=> (~edge /\ there.t) \/ (reset_wdt_sys /\ ~kick_blind)
      /\ there.m' <=> (edge /\ there.t) \/ (~edge /\ there.m)
      /\ there.o' <=> (edge /\ there.m) \/ (~edge /\ there.o)
      /\ back.m' <=> edge /\ there.o
      /\ back.o' <=> back.m
      /\ reset_wdt_sys' <=> w_stretch # 0
      /\ kick => w_stretch' = 7
      /\ since' = IF edge THEN 0 ELSE since + 1
      /\ ~edge => since < MaxGap - 1
      /\ unheeded' = IF edge /\ there.o THEN IF kick' THEN 1 ELSE 0
                     ELSE IF unheeded # 0 \/ kick' THEN unheeded + 1 ELSE 0
  BY <1>0, KickStep
<1>2. /\ since \in Nat /\ since <= MaxGap - 1 /\ MaxGap \in Nat /\ MaxGap > 0
      /\ unheeded \in Nat /\ unheeded' \in Nat /\ since' \in Nat
  BY TicksAssumption, CycleType DEF TypeOK
<1> SUFFICES ASSUME unheeded' # 0
             PROVE  \/ unheeded' = 1 /\ kick'
                    \/ unheeded' = 2 /\ w_stretch' # 0 /\ ~back.m'
                    \/ unheeded' = 3 /\ reset_wdt_sys' /\ ~back.m' /\ ~back.o'
                    \/ there.t' /\ unheeded' <= 4 + since'
                    \/ there.m' /\ unheeded' <= 4 + MaxGap + since'
                    \/ there.o' /\ unheeded' <= 4 + 2 * MaxGap + since'
  BY DEF Waiting
<1>3. CASE unheeded = 0 \/ (edge /\ there.o)
  BY <1>1, <1>2, <1>3
<1>4. CASE unheeded # 0 /\ ~(edge /\ there.o)
  <2>1. unheeded' = unheeded + 1 /\ ~back.m'
    BY <1>1, <1>4
  <2>2. CASE unheeded = 1 /\ kick
    BY <1>1, <2>1, <2>2
  <2>3. CASE unheeded = 2 /\ w_stretch # 0 /\ ~back.m
    BY <1>1, <2>1, <2>3
  <2>4. CASE unheeded = 3 /\ reset_wdt_sys /\ ~back.m /\ ~back.o
    <3>1. there.t' \/ there.m' \/ there.o'
      BY <1>1, <1>4, <2>4 DEF Token
    <3>2. unheeded' = 4
      BY <2>1, <2>4
    <3>3. /\ unheeded' <= 4 + since' /\ unheeded' <= 4 + MaxGap + since'
          /\ unheeded' <= 4 + 2 * MaxGap + since'
      <4>1. \A m, n \in Nat : 4 <= 4 + n /\ 4 <= 4 + m + n /\ 4 <= 4 + 2 * m + n
        OBVIOUS
      <4>2. MaxGap \in Nat /\ since' \in Nat
        BY <1>2
      <4> QED BY <3>2, <4>1, <4>2
    <3> QED BY <3>1, <3>3, Zenon
  <2>5. CASE there.t /\ unheeded <= 4 + since
    <3>1. CASE edge
      BY <1>1, <1>2, <2>1, <2>5, <3>1
    <3>2. CASE ~edge
      BY <1>1, <1>2, <2>1, <2>5, <3>2
    <3> QED BY <3>1, <3>2
  <2>6. CASE there.m /\ unheeded <= 4 + MaxGap + since
    <3>1. CASE edge
      BY <1>1, <1>2, <2>1, <2>6, <3>1
    <3>2. CASE ~edge
      BY <1>1, <1>2, <2>1, <2>6, <3>2
    <3> QED BY <3>1, <3>2
  <2>7. CASE there.o /\ unheeded <= 4 + 2 * MaxGap + since
    <3>1. ~edge
      BY <1>4, <2>7
    <3> QED BY <1>1, <1>2, <2>1, <2>7, <3>1
  <2> QED BY <1>4, <2>2, <2>3, <2>4, <2>5, <2>6, <2>7 DEF Waiting
<1> QED BY <1>3, <1>4

(* Waiting makes riper. *)
LEMMA Ripens ==
  ASSUME TypeOK, settled' = waited
  PROVE  /\ settled >= Settle => Ripe(1)'
         /\ Ripe(1) => Ripe(1)' /\ Ripe(2)'
         /\ Ripe(2) => Ripe(2)' /\ Ripe(3)'
         /\ Ripe(3) => Ripe(3)'
         /\ settled >= Round => settled' >= Round
<1>1. settled \in Nat /\ Settle \in Nat /\ Round \in Nat
  BY TicksAssumption DEF TypeOK
<1>2. /\ settled' >= settled /\ settled' \in Nat
      /\ settled < Settle \/ settled < Round => settled' = settled + 1
  BY <1>1 DEF waited
<1> QED BY <1>1, <1>2 DEF Ripe

(* What software may still do once the watchdog is enabled. *)
LEMMA SoftwareSettles ==
  ASSUME TypeOK, Settling, NoAccess \/ WritePeriod \/ WriteWatchdog
  PROVE  /\ wdog_enabled => wanted' = wanted
         /\ ~started /\ (enable \/ wdog_enabled) =>
              /\ period' = period /\ wanted' = wanted /\ settled' = waited
              /\ enable' \/ wdog_enabled
         /\ ~(enable \/ wdog_enabled) /\ enable' =>
              /\ wanted' = period' /\ settled' = waited /\ settled >= Settle
BY DEF NoAccess, WritePeriod, WriteWatchdog

(* What was written last settles before the next write can come. *)
LEMMA SettlingStep ==
  ASSUME Round <= Settle + 3, TypeOK, Settling, Cycle PROVE Settling'
<1>0. PICK edge \in BOOLEAN : Clocks(edge)
  BY CycleParts
<1>1. /\ wdog_enabled => wanted' = wanted
      /\ ~started /\ (enable \/ wdog_enabled) =>
           /\ period' = period /\ wanted' = wanted /\ settled' = waited
           /\ enable' \/ wdog_enabled
      /\ ~(enable \/ wdog_enabled) /\ enable' =>
           /\ wanted' = period' /\ settled' = waited /\ settled >= Settle
  BY CycleParts, SoftwareSettles
<1>2. CASE ~edge
  <2>1. UNCHANGED wdtVars
    BY <1>0, <1>2 DEF Clocks
  <2>2. /\ UNCHANGED <<wdt_count, enable_r, wdog_enable_wdt, wdog_enabled, wdog_enabled_r,
                       wdt_start, wdt_count_lock>>
        /\ started' = started
    BY <2>1 DEF wdtVars, started
  <2>3. CASE started
    BY <1>1, <2>2, <2>3 DEF Settling, started
  <2>4. CASE ~started /\ (enable \/ wdog_enabled)
    <3>1. settled' = waited /\ period' = period /\ wanted' = wanted /\ (enable' \/ wdog_enabled)
      BY <1>1, <2>4
    <3>2. enable' => Ripe(1)'
      <4>1. enable \/ settled >= Round
        BY <2>4 DEF Settling
      <4>2. settled >= Round => Ripe(1)
        BY DEF Ripe
      <4> QED BY <2>4, <3>1, <4>1, <4>2, Ripens DEF Settling
    <3> QED BY <2>2, <2>4, <3>1, <3>2, Ripens DEF Settling
  <2>5. CASE ~started /\ ~(enable \/ wdog_enabled)
    BY <1>1, <2>2, <2>5, Ripens DEF Settling
  <2> QED BY <2>3, <2>4, <2>5
<1>3. CASE edge
  <2>1. /\ wdt_count' \in {wdt_count, period} /\ (settled >= Round => wdt_count' = period)
        /\ enable_r' = enable /\ wdog_enable_wdt' = enable_r
        /\ wdog_enabled' = (wdog_enable_wdt \/ wdog_enabled) /\ wdog_enabled_r' = wdog_enabled
        /\ wdt_start' = (~wdog_enabled_r /\ wdog_enabled)
        /\ wdt_count_lock' = IF ~wdog_enabled_r /\ wdog_enabled THEN wdt_count ELSE wdt_count_lock
    BY <1>0, <1>3 DEF Clocks, WdtEdge, Registers, PeriodArrives, Enabling, Counter, Lock
  <2>2. CASE started
    BY <1>1, <2>1, <2>2 DEF Settling, started
  <2>3. CASE ~started /\ (enable \/ wdog_enabled)
    <3>1. settled' = waited /\ period' = period /\ wanted' = wanted /\ (enable' \/ wdog_enabled)
      BY <1>1, <2>3
    <3>2. wdt_start' => wdog_enabled_r'
      BY <2>1
    <3>3. wdog_enabled_r' => wdog_enabled' /\ wdt_count_lock' = wanted'
      BY <2>1, <2>3, <3>1 DEF Settling
    <3>4. enable' \/ wdog_enabled'
      BY <2>1, <3>1
    <3>5. wanted' = period'
      BY <2>3, <3>1 DEF Settling
    <3>6. enable' => Ripe(1)'
      <4>1. enable \/ settled >= Round
        BY <2>3 DEF Settling
      <4>2. settled >= Round => Ripe(1)
        BY DEF Ripe
      <4> QED BY <2>3, <3>1, <4>1, <4>2, Ripens DEF Settling
    <3>7. (enable_r' => Ripe(2)') /\ (wdog_enable_wdt' => Ripe(3)')
      BY <2>1, <2>3, <3>1, Ripens DEF Settling
    <3>8. wdog_enabled' => settled' >= Round /\ wdt_count' = period'
      <4>1. wdog_enabled' => settled >= Round
        <5>1. wdog_enable_wdt => Ripe(3)
          BY <2>3 DEF Settling
        <5>2. Ripe(3) => settled >= Round
          BY TicksAssumption DEF Ripe, TypeOK
        <5> QED BY <2>1, <2>3, <5>1, <5>2 DEF Settling
      <4> QED BY <2>1, <3>1, <4>1, Ripens
    <3> QED BY <3>2, <3>3, <3>4, <3>5, <3>6, <3>7, <3>8 DEF Settling
  <2>4. CASE ~started /\ ~(enable \/ wdog_enabled)
    <3>1. ~enable_r' /\ ~wdog_enable_wdt' /\ ~wdog_enabled' /\ ~wdog_enabled_r' /\ ~wdt_start'
      BY <2>1, <2>4 DEF Settling
    <3> QED BY <1>1, <2>4, <3>1, Ripens DEF Settling
  <2> QED BY <2>2, <2>3, <2>4
<1> QED BY <1>2, <1>3

(* Out of reset nothing has been written that the watchdog must heed. *)
LEMMA InitWriteInv == Init => WriteInv
<1> SUFFICES ASSUME Init PROVE WriteInv
  OBVIOUS
<1> USE DEF Init
<1>1. Still \in Sync /\ Still.t = FALSE /\ Still.m = FALSE /\ Still.o = FALSE
  BY DEF Still, Sync
<1>2. TypeOK
  <2>1. /\ {enable, kick, reset_wdt_sys, kick_blind, enable_r, wdog_enable_wdt, wdog_enabled,
            wdog_enabled_r, wdt_start, wdog_cycle, reset_blind, gsr, fired} \subseteq BOOLEAN
    BY Zenon
  <2>2. {reset_sync, do_res_sync} \subseteq [there : Sync, back : Sync]
    BY <1>1 DEF Idle
  <2>3. 0 \in 0..(MaxGap - 1) /\ 0 \in 0..(AccessTicks - 1) /\ 0 \in 0..(Settle + Round)
    BY TicksAssumption
  <2> QED BY <2>1, <2>2, <2>3, PeriodValues DEF TypeOK
<1>3. Token
  BY <1>1 DEF Token, Idle, there, back
<1>4. Waiting /\ Settling
  BY DEF Waiting, Settling
<1> QED BY <1>2, <1>3, <1>4 DEF WriteInv

(* A step keeps track of the write that the watchdog has still to take over. *)
LEMMA WriteInvStep == ASSUME Round <= Settle + 3, WriteInv, [Next]_vars PROVE WriteInv'
<1>1. CASE Cycle
  BY <1>1, CycleType, TokenStep, WaitingStep, SettlingStep DEF WriteInv
<1>2. CASE UNCHANGED vars
  BY <1>2 DEF vars, csrVars, sysVars, wdtVars, WriteInv, TypeOK, Token, Waiting, Settling, Ripe,
              started, there, back
<1> QED BY <1>1, <1>2 DEF Next, ChipReset

(* What software writes arrives, for every period and every ratio of the      *)
(* clocks: a kick within three periods of the slow clock and three cycles,    *)
(* the period if enable is not written too early, for its transfer to be over *)
(* before the enable bit has passed its three registers.                      *)
THEOREM WritesHeededCorrect ==
  ASSUME KickLatency \in Nat, KickLatency >= 3 * MaxGap + 3, Round <= Settle + 3
  PROVE  Spec => []WritesHeeded
<1>1. Init => WriteInv
  BY InitWriteInv
<1>2. WriteInv /\ [Next]_vars => WriteInv'
  BY WriteInvStep
<1>3. WriteInv => WritesHeeded
  <2> SUFFICES ASSUME WriteInv PROVE KickHeeded /\ PeriodLocked
    BY DEF WriteInv, WritesHeeded
  <2>1. /\ since \in Nat /\ since <= MaxGap - 1 /\ MaxGap \in Nat /\ MaxGap > 0
        /\ unheeded \in Nat
    BY TicksAssumption DEF WriteInv, TypeOK
  <2>2. KickHeeded
    <3>1. \/ unheeded <= 3
          \/ unheeded <= 4 + since
          \/ unheeded <= 4 + MaxGap + since
          \/ unheeded <= 4 + 2 * MaxGap + since
      BY <2>1 DEF WriteInv, Waiting
    <3> QED BY <2>1, <3>1 DEF KickHeeded
  <2>3. PeriodLocked
    BY DEF WriteInv, Settling, PeriodLocked, started
  <2> QED BY <2>2, <2>3
<1> QED BY <1>1, <1>2, <1>3, PTL DEF Spec

-----------------------------------------------------------------------------
(* SHA-512.  The words taken by the engine, the words in the FIFO, the     *)
(* bytes in the packer and those on the bus are, one after the other, the  *)
(* message; the padding machine continues them to the padded message.      *)

Byte == Nat \cup {"00", "80", "hi"}
Word == Seq(Byte)

\* The k-th whole word of a message, and the bytes after the last whole one.
WordOf(m, k) == SubSeq(m, WordBytes * (k - 1) + 1, WordBytes * k)
WholeWords(n) == n \div WordBytes
RestOf(m) == SubSeq(m, WordBytes * WholeWords(Len(m)) + 1, Len(m))

\* The number of words of a padded message of n bytes, and the k-th of them.
FillWords(n) == (2 * BlockWords - 2 - ((WholeWords(n) + 1) % BlockWords)) % BlockWords
Total(n) == WholeWords(n) + FillWords(n) + 3
EndWord(m) == RestOf(m) \o <<"80">> \o Zeros(WordBytes - 1 - (Len(m) % WordBytes))
PaddedWord(m, k) == IF k <= WholeWords(Len(m)) THEN WordOf(m, k)
                    ELSE IF k = WholeWords(Len(m)) + 1 THEN EndWord(m)
                    ELSE IF k = Total(Len(m)) THEN LenLo(Len(m))
                    ELSE IF k = Total(Len(m)) - 1 THEN LenHi ELSE Zeros(WordBytes)

\* What the engine has taken since the start.
Sent == digest \o (IF sha_st = "ShaIdle" THEN w ELSE hash)

SoftTyped ==
  /\ software \in {"idle", "writing", "closing", "seen", "reading", "resetting", "cleaning"}
  /\ control_latch \in BOOLEAN /\ endian_swap \in BOOLEAN /\ sha512_done \in BOOLEAN
  /\ start_t \in 0 .. Cross /\ process_t \in 0 .. Cross /\ reset_t \in 0 .. Cross /\ rescnt \in 0 .. ResetCycles
  /\ message \in Seq(Nat) /\ wdata \in Seq(Nat) /\ wdata_top \in Seq(Nat)
  /\ wdata # <<>> => wdata_top = <<>>

MachineTyped ==
  /\ cfg_block \in BOOLEAN /\ msg_allowed \in BOOLEAN /\ message_length \in Nat
  /\ hash_process_flag \in BOOLEAN /\ hash_done \in BOOLEAN
  /\ stored \in Seq(Nat) /\ fifo \in Seq(Word) /\ shown \in Nat /\ tx_count \in Nat
  /\ pad_st \in {"StIdle", "StFifoReceive", "StPad80", "StPad00", "StLenHi", "StLenLo"}
  /\ fifo_st \in {"FifoIdle", "FifoLoadFromFifo", "FifoWait"}
  /\ sha_st \in {"ShaIdle", "ShaCompress", "ShaUpdateDigest"}
  /\ round \in 0 .. NumRound - 1
  /\ w \in Seq(Word) /\ hash \in Seq(Word) /\ digest \in Seq(Word)

ShaTyped == SoftTyped /\ MachineTyped

\* The two machines of the engine, whatever the rest does.
Engine ==
  /\ Len(digest) % BlockWords = 0
  /\ fifo_st = "FifoIdle" => w = <<>>
  /\ fifo_st = "FifoLoadFromFifo" => Len(w) < BlockWords
  /\ fifo_st = "FifoWait" => (sha_st = "ShaIdle" /\ Len(w) = BlockWords) \/ sha_st = "ShaCompress"
  /\ sha_st = "ShaCompress" => /\ fifo_st = "FifoWait" /\ Len(hash) = BlockWords
                               /\ round > 0 => w = <<>>
  /\ sha_st # "ShaCompress" => round = 0
  /\ sha_st = "ShaUpdateDigest" => Len(hash) = BlockWords /\ w = <<>>

Room == /\ Len(fifo) <= AlmostFull /\ shown <= Len(fifo)
        /\ Len(stored) < WordBytes /\ Len(wdata) <= WordBytes
        /\ wdata # <<>> => Len(fifo) < AlmostFull

\* No message.
Quiet == /\ pad_st = "StIdle" /\ fifo_st = "FifoIdle" /\ sha_st = "ShaIdle"
         /\ ~hash_process_flag /\ ~msg_allowed /\ ~hash_done
         /\ wdata = <<>> /\ stored = <<>> /\ fifo = <<>>

\* A message that is not closed yet.
Receiving ==
  /\ pad_st = "StFifoReceive" /\ fifo_st # "FifoIdle"
  /\ ~hash_process_flag /\ msg_allowed /\ ~hash_done /\ cfg_block
  /\ message_length + Len(wdata) = Len(message)
  /\ Ordered(wdata, control_latch) = SubSeq(message, message_length + 1, Len(message))
  /\ WordBytes * (tx_count + Len(fifo)) + Len(stored) = message_length
  /\ stored = SubSeq(message, WordBytes * (tx_count + Len(fifo)) + 1, message_length)
  /\ \A k \in 1 .. Len(fifo) : fifo[k] = WordOf(message, tx_count + k)
  /\ Len(Sent) = tx_count
  /\ \A k \in 1 .. tx_count : Sent[k] = WordOf(message, k)

\* A message that is closed and not yet digested.
Padding ==
  /\ hash_process_flag /\ ~msg_allowed /\ ~hash_done /\ fifo_st # "FifoIdle"
  /\ wdata = <<>> /\ stored = <<>> /\ message_length = Len(message)
  /\ fifo = IF pad_st \in {"StFifoReceive", "StPad80"} /\ partial THEN <<RestOf(message)>> ELSE <<>>
  /\ pad_st \in {"StFifoReceive", "StPad80"} => tx_count = WholeWords(Len(message))
  /\ pad_st = "StPad00" => tx_count \in WholeWords(Len(message)) + 1 .. Total(Len(message)) - 3
  /\ pad_st = "StLenHi" => tx_count = Total(Len(message)) - 2
  /\ pad_st = "StLenLo" => tx_count = Total(Len(message)) - 1
  /\ pad_st = "StIdle" => tx_count = Total(Len(message)) /\ fifo_st = "FifoWait"
  /\ Len(Sent) = tx_count
  /\ \A k \in 1 .. tx_count : Sent[k] = PaddedWord(message, k)

\* The last block is being added to the digest.
Adding == /\ pad_st = "StIdle" /\ fifo_st = "FifoIdle" /\ sha_st = "ShaUpdateDigest"
          /\ hash_process_flag /\ ~msg_allowed /\ hash_done
          /\ wdata = <<>> /\ stored = <<>> /\ fifo = <<>>
          /\ digest \o hash = Padded(message)

Digested == Quiet /\ digest = Padded(message)

\* A command on its way finds the machines where software left them.
Phase == \/ start_t > 0 /\ process_t = 0 /\ Quiet /\ message = <<>>
         \/ start_t = 0 /\ process_t > 0 /\ Receiving /\ wdata = <<>> /\ fifo = <<>>
         \/ start_t = 0 /\ process_t = 0 /\ (Receiving \/ Padding \/ Adding \/ Quiet)

NoReset == reset_t = 0 /\ rescnt = 0
NoCommand == start_t = 0 /\ process_t = 0

InReset == /\ wdata = <<>>
           /\ \/ rescnt = 0 /\ reset_t > 0 /\ start_t < reset_t /\ process_t < reset_t /\ Phase
              \/ reset_t = 0 /\ NoCommand /\ rescnt = ResetCycles
              \/ reset_t = 0 /\ NoCommand /\ rescnt < ResetCycles /\ Quiet

BySoftware ==
  /\ software = "idle" => NoReset /\ NoCommand /\ ~sha512_done /\ Quiet
  /\ software = "writing" => /\ NoReset /\ process_t = 0 /\ ~sha512_done /\ Phase
                             /\ start_t = 0 => Receiving
  /\ software = "closing" => /\ NoReset /\ start_t = 0
                             /\ process_t > 0 => ~sha512_done /\ Phase
                             /\ process_t = 0 => \/ ~sha512_done /\ (Padding \/ Adding)
                                                 \/ Digested
  /\ software = "seen" => NoReset /\ NoCommand /\ Digested
  /\ software = "reading" => NoReset /\ NoCommand /\ Digested /\ ~sha512_done
  /\ software = "resetting" => InReset
  /\ software = "cleaning" => NoReset /\ NoCommand /\ Quiet

ShaInv == ShaTyped /\ Engine /\ Room /\ BySoftware

(* Division with rest. *)
LEMMA DivisionOf ==
  ASSUME NEW n \in Nat, NEW m \in Nat \ {0}
  PROVE  /\ n \div m \in Nat /\ n % m \in Nat /\ n % m < m
         /\ n = m * (n \div m) + (n % m)
OBVIOUS

(* There is only one way to divide with a rest below the divisor. *)
LEMMA DivisionUnique ==
  ASSUME NEW m \in Nat \ {0}, NEW p \in Nat, NEW q \in Nat, NEW r \in Nat, NEW s \in Nat,
         r < m, s < m, m * p + r = m * q + s
  PROVE  p = q /\ r = s
<1>1. ASSUME NEW i \in Nat, NEW j \in Nat, i < j PROVE m * i + m <= m * j
  <2>1. i + 1 <= j /\ i + 1 \in Nat
    BY <1>1
  <2>2. m * (i + 1) <= m * j
    BY <2>1
  <2>3. m * (i + 1) = m * i + m
    OBVIOUS
  <2> QED BY <2>2, <2>3
<1>2. m * p \in Nat /\ m * q \in Nat
  OBVIOUS
<1>3. ~(p < q)
  BY <1>1, <1>2
<1>4. ~(q < p)
  BY <1>1, <1>2
<1> QED BY <1>3, <1>4

(* What a number is made of tells its quotient and its rest. *)
LEMMA DivisionIs ==
  ASSUME NEW m \in Nat \ {0}, NEW n \in Nat, NEW q \in Nat, NEW r \in Nat, r < m, n = m * q + r
  PROVE  n \div m = q /\ n % m = r
BY DivisionOf, DivisionUnique

(* The bytes of a message fill WholeWords words, and a rest.               *)
LEMMA WordsOfMessage ==
  ASSUME ShaAssumption, NEW n \in Nat
  PROVE  /\ WholeWords(n) \in Nat /\ n % WordBytes \in 0 .. WordBytes - 1
         /\ n = WordBytes * WholeWords(n) + (n % WordBytes)
BY DivisionOf DEF ShaAssumption, WholeWords

(* The padding ends at the end of a block, and the two words of the length *)
(* begin where txcnt_eq_340 is first seen after the message.               *)
LEMMA TotalIs ==
  ASSUME ShaAssumption, NEW n \in Nat
  PROVE  /\ Total(n) \in Nat /\ FillWords(n) \in 0 .. BlockWords - 1
         /\ Total(n) % BlockWords = 0
         /\ \A k \in WholeWords(n) .. Total(n) - 3 : k % BlockWords = BlockWords - 3 <=> k = Total(n) - 3
<1> DEFINE q == WholeWords(n) + 1
           c == 2 * BlockWords - 2 - (q % BlockWords)
           f == FillWords(n)
           t == Total(n)
<1>1. WholeWords(n) \in Nat /\ q \in Nat /\ BlockWords \in Nat \ {0} /\ BlockWords > 2 /\ BlockWords \in Nat
  <2>1. WholeWords(n) \in Nat
    BY WordsOfMessage
  <2>2. BlockWords \in Nat \ {0} /\ BlockWords > 2 /\ BlockWords \in Nat
    BY DEF ShaAssumption
  <2> QED BY <2>1, <2>2
<1>2. f = c % BlockWords /\ t = WholeWords(n) + f + 3
  BY DEF FillWords, Total
<1> HIDE DEF f, t
<1>3. PICK i \in Nat, r \in Nat : q = BlockWords * i + r /\ r < BlockWords /\ r = q % BlockWords
  BY <1>1, DivisionOf
<1>4. c \in Nat /\ c = 2 * BlockWords - 2 - r
  BY <1>1, <1>3
<1>5. PICK j \in Nat : f \in Nat /\ c = BlockWords * j + f /\ f < BlockWords
  BY <1>1, <1>2, <1>4, DivisionOf
<1> HIDE DEF q, c
<1>6. t = q + f + 2 /\ t \in Nat
  BY <1>1, <1>2, <1>5 DEF q
<1>7. /\ BlockWords * i \in Nat /\ BlockWords * j \in Nat
  BY <1>1
<1>8. BlockWords * i + 2 * BlockWords = t + BlockWords * j
  <2>1. PICK x \in Nat, y \in Nat : x = BlockWords * i /\ y = BlockWords * j
    BY <1>7
  <2>2. q = x + r /\ c = 2 * BlockWords - 2 - r /\ c = y + f
    BY <1>3, <1>4, <1>5, <2>1
  <2>3. x + 2 * BlockWords = t + y
    BY <1>1, <1>5, <1>6, <2>2
  <2> QED BY <2>1, <2>3
<1>9. PICK e \in Nat : t = BlockWords * e
  <2>1. BlockWords * i + 2 * BlockWords = BlockWords * (i + 2)
    BY <1>1
  <2>2. i + 2 >= j
    <3>1. ASSUME j > i + 2 PROVE FALSE
      <4>1. BlockWords * j >= BlockWords * (i + 2)
        BY <1>1, <3>1
      <4>2. t <= 0
        BY <1>6, <1>7, <1>8, <2>1, <4>1
      <4>3. t >= 2
        BY <1>1, <1>5, <1>6
      <4> QED BY <1>6, <4>2, <4>3
    <3> QED BY <3>1
  <2>3. i + 2 - j \in Nat
    BY <2>2
  <2>4. BlockWords * (i + 2 - j) = BlockWords * (i + 2) - BlockWords * j
    BY <1>1
  <2>5. t = BlockWords * (i + 2 - j)
    BY <1>6, <1>7, <1>8, <2>1, <2>4
  <2> QED BY <2>3, <2>5
<1>10. t % BlockWords = 0
  <2>1. t = BlockWords * e + 0 /\ 0 < BlockWords
    BY <1>1, <1>9
  <2> QED BY <1>1, <1>6, <2>1, DivisionIs
<1>11. e > 0
  <2>1. t > 0
    BY <1>1, <1>5, <1>6
  <2> QED BY <1>1, <1>9, <2>1
<1>12. e - 1 \in Nat /\ BlockWords * (e - 1) = BlockWords * e - BlockWords /\ BlockWords * (e - 1) \in Nat /\ BlockWords - 3 \in Nat
  BY <1>1, <1>11
<1>13. t - 3 = BlockWords * (e - 1) + (BlockWords - 3) /\ t - 3 \in Nat
  BY <1>1, <1>9, <1>12
<1>14. ASSUME NEW k \in WholeWords(n) .. t - 3 PROVE k % BlockWords = BlockWords - 3 <=> k = t - 3
  <2>1. k \in Nat /\ t - 3 - k < BlockWords
    BY <1>1, <1>2, <1>5
  <2>2. ASSUME k = t - 3 PROVE k % BlockWords = BlockWords - 3
    <3>1. k = BlockWords * (e - 1) + (BlockWords - 3) /\ BlockWords - 3 < BlockWords
      BY <1>1, <1>13, <2>2
    <3>2. PICK a \in Nat, b \in Nat : a = e - 1 /\ b = BlockWords - 3
      BY <1>12
    <3>3. k = BlockWords * a + b /\ b < BlockWords
      BY <3>1, <3>2
    <3>4. k % BlockWords = b
      BY <1>1, <2>1, <3>3, DivisionIs
    <3> QED BY <3>2, <3>4
  <2>3. ASSUME k % BlockWords = BlockWords - 3 PROVE k = t - 3
    <3>1. PICK a \in Nat : k = BlockWords * a + (BlockWords - 3)
      BY <1>1, <2>1, <2>3, DivisionOf
    <3>2. BlockWords * a \in Nat /\ BlockWords * a <= BlockWords * (e - 1) /\ BlockWords * (e - 1) < BlockWords * a + BlockWords
      BY <1>1, <1>12, <1>13, <2>1, <3>1
    <3>3. ~(a < e - 1)
      <4>1. ASSUME a < e - 1 PROVE FALSE
        <5>1. a + 1 <= e - 1
          BY <1>12, <4>1
        <5>2. BlockWords * (a + 1) <= BlockWords * (e - 1)
          BY <1>1, <1>12, <5>1
        <5>3. BlockWords * (a + 1) = BlockWords * a + BlockWords
          BY <1>1
        <5> QED BY <1>1, <1>12, <3>2, <5>2, <5>3
      <4> QED BY <4>1
    <3>4. ~(a > e - 1)
      <4>1. ASSUME a > e - 1 PROVE FALSE
        <5>1. e <= a
          BY <1>12, <4>1
        <5>2. BlockWords * e <= BlockWords * a
          BY <1>1, <5>1
        <5> QED BY <1>1, <1>12, <3>2, <5>2
      <4> QED BY <4>1
    <3>5. a = e - 1
      BY <1>12, <3>3, <3>4
    <3> QED BY <1>13, <3>1, <3>5
  <2> QED BY <2>2, <2>3
<1> QED BY <1>1, <1>2, <1>5, <1>6, <1>10, <1>14 DEF f, t

(* The last word of a block is loaded into the last place of w. *)
LEMMA LastOfBlock ==
  ASSUME ShaAssumption, NEW n \in Nat, NEW d \in Nat, NEW h \in {0, BlockWords}, NEW l \in Nat,
         d % BlockWords = 0, n % BlockWords = 0, l < BlockWords, d + h + l + 1 = n
  PROVE  l = BlockWords - 1
<1>1. BlockWords \in Nat \ {0} /\ BlockWords \in Nat /\ BlockWords - 1 \in Nat
  BY DEF ShaAssumption
<1>2. PICK i \in Nat : d = BlockWords * i
  <2>1. d \div BlockWords \in Nat /\ d = BlockWords * (d \div BlockWords) + (d % BlockWords)
    BY <1>1, DivisionOf
  <2>2. d = BlockWords * (d \div BlockWords)
    BY <1>1, <2>1
  <2> QED BY <2>1, <2>2
<1>3. PICK j \in Nat : n = BlockWords * j
  <2>1. n \div BlockWords \in Nat /\ n = BlockWords * (n \div BlockWords) + (n % BlockWords)
    BY <1>1, DivisionOf
  <2>2. n = BlockWords * (n \div BlockWords)
    BY <1>1, <2>1
  <2> QED BY <2>1, <2>2
<1>4. PICK c \in Nat : d + h = BlockWords * c
  <2>1. CASE h = 0
    BY <1>2, <2>1
  <2>2. CASE h = BlockWords
    <3>1. BlockWords * (i + 1) = BlockWords * i + BlockWords /\ i + 1 \in Nat
      BY <1>1
    <3> QED BY <1>2, <2>2, <3>1
  <2> QED BY <2>1, <2>2
<1>5. j > 0
  <2>1. n > 0
    BY <1>1, <1>4
  <2> QED BY <1>1, <1>3, <2>1
<1>6. j - 1 \in Nat /\ BlockWords * (j - 1) = BlockWords * j - BlockWords /\ BlockWords * (j - 1) \in Nat /\ BlockWords * c \in Nat
  BY <1>1, <1>5
<1>7. BlockWords * c + l = BlockWords * (j - 1) + (BlockWords - 1)
  BY <1>1, <1>3, <1>4, <1>6
<1> QED BY <1>1, <1>6, <1>7, DivisionUnique

(* Where the k-th of q words lies. *)
LEMMA PlacesOfWord ==
  ASSUME ShaAssumption, NEW q \in Nat, NEW k \in 1 .. q
  PROVE  /\ k \in Nat /\ WordBytes * (k - 1) \in Nat /\ WordBytes * k \in Nat /\ WordBytes * q \in Nat
         /\ WordBytes * k = WordBytes * (k - 1) + WordBytes
         /\ WordBytes * k <= WordBytes * q
<1>1. WordBytes \in Nat /\ k \in Nat /\ k - 1 \in Nat /\ k <= q
  BY DEF ShaAssumption
<1>2. WordBytes * (k - 1) \in Nat /\ WordBytes * k \in Nat /\ WordBytes * q \in Nat
  BY <1>1
<1>3. WordBytes * k = WordBytes * (k - 1) + WordBytes
  BY <1>1
<1>4. WordBytes * k <= WordBytes * q
  BY <1>1
<1> QED BY <1>1, <1>2, <1>3, <1>4

(* The order of the bytes of an access does not change their number. *)
LEMMA OrderedProperties ==
  ASSUME NEW b \in Seq(Nat), NEW s
  PROVE  /\ Ordered(b, s) \in Seq(Nat) /\ Len(Ordered(b, s)) = Len(b)
         /\ b = <<>> => Ordered(b, s) = <<>>
<1>1. /\ Ext!Reverse(b) \in Seq(Nat) /\ Len(Ext!Reverse(b)) = Len(b)
  BY DEF Ext!Reverse
<1>2. /\ Ordered(b, s) \in Seq(Nat) /\ Len(Ordered(b, s)) = Len(b)
  BY <1>1 DEF Ordered
<1>3. ASSUME b = <<>> PROVE Ordered(b, s) = <<>>
  BY <1>2, <1>3
<1> QED BY <1>2, <1>3

(* Bytes of zero. *)
LEMMA ZerosProperties ==
  ASSUME NEW n \in Nat
  PROVE  Zeros(n) \in Seq(Byte) /\ Len(Zeros(n)) = n /\ \A k \in 1 .. n : Zeros(n)[k] = "00"
BY DEF Zeros, Byte

(* A sequence of numbers is one of bytes. *)
LEMMA NumbersAreBytes ==
  ASSUME NEW m \in Seq(Nat)
  PROVE  m \in Seq(Byte)
BY DEF Byte

(* A part of a sequence. *)
LEMMA PartOf ==
  ASSUME NEW S, NEW s \in Seq(S), NEW a \in Nat \ {0}, NEW b \in Nat, b <= Len(s), a <= b + 1
  PROVE  /\ SubSeq(s, a, b) \in Seq(S) /\ Len(SubSeq(s, a, b)) = b - a + 1
         /\ \A i \in 1 .. b - a + 1 : SubSeq(s, a, b)[i] = s[a + i - 1]
<1>1. a \in Int /\ b \in Int /\ \A i \in a .. b : s[i] \in S
  OBVIOUS
<1>2. /\ SubSeq(s, a, b) \in Seq(S)
      /\ Len(SubSeq(s, a, b)) = IF a <= b THEN b - a + 1 ELSE 0
      /\ \A i \in 1 .. b - a + 1 : SubSeq(s, a, b)[i] = s[a + i - 1]
  BY <1>1, SubSeqProperties, SMTT(40)
<1>3. (IF a <= b THEN b - a + 1 ELSE 0) = b - a + 1
  OBVIOUS
<1> QED BY <1>2, <1>3

(* What comes after the first a elements, up to the b-th. *)
LEMMA PartAfter ==
  ASSUME NEW S, NEW s \in Seq(S), NEW a \in Nat, NEW b \in Nat, a <= b, b <= Len(s)
  PROVE  /\ SubSeq(s, a + 1, b) \in Seq(S) /\ Len(SubSeq(s, a + 1, b)) = b - a
         /\ \A i \in 1 .. b - a : SubSeq(s, a + 1, b)[i] = s[a + i]
<1>1. a + 1 \in Nat \ {0} /\ a + 1 <= b + 1
  OBVIOUS
<1>2. /\ SubSeq(s, a + 1, b) \in Seq(S) /\ Len(SubSeq(s, a + 1, b)) = b - (a + 1) + 1
      /\ \A i \in 1 .. b - (a + 1) + 1 : SubSeq(s, a + 1, b)[i] = s[(a + 1) + i - 1]
  <2>1. PICK c \in Nat \ {0} : c = a + 1
    BY <1>1
  <2>2. /\ SubSeq(s, c, b) \in Seq(S) /\ Len(SubSeq(s, c, b)) = b - c + 1
        /\ \A i \in 1 .. b - c + 1 : SubSeq(s, c, b)[i] = s[c + i - 1]
    <3>1. c <= b + 1
      BY <2>1
    <3> QED BY <3>1, PartOf
  <2> QED BY <2>1, <2>2, Zenon
<1>3. b - (a + 1) + 1 = b - a /\ \A i \in 1 .. b - a : (a + 1) + i - 1 = a + i
  OBVIOUS
<1> QED BY <1>2, <1>3, Zenon

(* The same of a sequence of numbers. *)
LEMMA PartOfNumbers ==
  ASSUME NEW s \in Seq(Nat), NEW a \in Nat, NEW b \in Nat, a <= b, b <= Len(s)
  PROVE  /\ SubSeq(s, a + 1, b) \in Seq(Nat) /\ Len(SubSeq(s, a + 1, b)) = b - a
         /\ \A i \in 1 .. b - a : SubSeq(s, a + 1, b)[i] = s[a + i]
BY PartAfter

(* The k-th whole word of a message. *)
LEMMA WordOfProperties ==
  ASSUME ShaAssumption, NEW m \in Seq(Nat), NEW k \in Nat \ {0}, WordBytes * k <= Len(m)
  PROVE  /\ WordOf(m, k) \in Seq(Nat) /\ WordOf(m, k) \in Word /\ Len(WordOf(m, k)) = WordBytes
         /\ \A i \in 1 .. WordBytes : WordOf(m, k)[i] = m[WordBytes * (k - 1) + i]
<1>1. PICK a \in Nat, b \in Nat : a = WordBytes * (k - 1) /\ b = WordBytes * k /\ b = a + WordBytes
  <2>1. k \in 1 .. k
    OBVIOUS
  <2> QED BY <2>1, PlacesOfWord
<1>2. WordBytes \in Nat
  BY DEF ShaAssumption
<1>3. a <= b /\ b <= Len(m) /\ b - a = WordBytes
  BY <1>1, <1>2
<1>4. /\ SubSeq(m, a + 1, b) \in Seq(Nat) /\ Len(SubSeq(m, a + 1, b)) = WordBytes
      /\ \A i \in 1 .. WordBytes : SubSeq(m, a + 1, b)[i] = m[a + i]
  <2>1. /\ SubSeq(m, a + 1, b) \in Seq(Nat) /\ Len(SubSeq(m, a + 1, b)) = b - a
        /\ \A i \in 1 .. b - a : SubSeq(m, a + 1, b)[i] = m[a + i]
    BY <1>3, PartOfNumbers, Zenon
  <2> QED BY <1>3, <2>1, Zenon
<1>5. WordOf(m, k) = SubSeq(m, a + 1, b)
  BY <1>1 DEF WordOf
<1>7. \A i \in 1 .. WordBytes : WordOf(m, k)[i] = m[a + i]
  BY <1>4, <1>5, Zenon
<1>8. WordOf(m, k) \in Word
  BY <1>4, <1>5, NumbersAreBytes DEF Word
<1> QED BY <1>1, <1>4, <1>5, <1>7, <1>8

(* The bytes after the last whole word. *)
LEMMA RestOfProperties ==
  ASSUME ShaAssumption, NEW m \in Seq(Nat)
  PROVE  /\ RestOf(m) \in Seq(Nat) /\ RestOf(m) \in Word /\ Len(RestOf(m)) = Len(m) % WordBytes
         /\ \A i \in 1 .. Len(m) % WordBytes : RestOf(m)[i] = m[WordBytes * WholeWords(Len(m)) + i]
<1>1. PICK a \in Nat, n \in Nat, r \in Nat : a = WordBytes * WholeWords(Len(m)) /\ n = Len(m) /\ r = n % WordBytes /\ n = a + r
  <2>1. WordBytes \in Nat
    BY DEF ShaAssumption
  <2>2. Len(m) \in Nat
    OBVIOUS
  <2>3. PICK q \in Nat : q = WholeWords(Len(m)) /\ Len(m) = WordBytes * q + (Len(m) % WordBytes)
    BY <2>2, WordsOfMessage
  <2>4. WordBytes * q \in Nat /\ Len(m) % WordBytes \in Nat
    <3>1. WordBytes * q \in Nat
      BY <2>1
    <3>2. Len(m) % WordBytes \in 0 .. WordBytes - 1
      BY <2>2, WordsOfMessage
    <3> QED BY <2>1, <3>1, <3>2
  <2> QED BY <2>2, <2>3, <2>4
<1>2. a <= n /\ n <= Len(m) /\ n - a = r
  BY <1>1
<1>3. /\ SubSeq(m, a + 1, n) \in Seq(Nat) /\ Len(SubSeq(m, a + 1, n)) = r
      /\ \A i \in 1 .. r : SubSeq(m, a + 1, n)[i] = m[a + i]
  <2>1. /\ SubSeq(m, a + 1, n) \in Seq(Nat) /\ Len(SubSeq(m, a + 1, n)) = n - a
        /\ \A i \in 1 .. n - a : SubSeq(m, a + 1, n)[i] = m[a + i]
    BY <1>2, PartOfNumbers, Zenon
  <2> QED BY <1>2, <2>1, Zenon
<1>4. RestOf(m) = SubSeq(m, a + 1, n)
  BY <1>1 DEF RestOf
<1>6. \A i \in 1 .. r : RestOf(m)[i] = m[a + i]
  BY <1>3, <1>4, Zenon
<1>7. RestOf(m) \in Word
  BY <1>3, <1>4, NumbersAreBytes DEF Word
<1> QED BY <1>1, <1>3, <1>4, <1>6, <1>7

(* The word that ends the message. *)
LEMMA EndWordProperties ==
  ASSUME ShaAssumption, NEW m \in Seq(Nat)
  PROVE  /\ EndWord(m) \in Word /\ Len(EndWord(m)) = WordBytes
         /\ \A i \in 1 .. WordBytes :
              EndWord(m)[i] = IF i <= Len(m) % WordBytes THEN m[WordBytes * WholeWords(Len(m)) + i]
                              ELSE IF i = (Len(m) % WordBytes) + 1 THEN "80" ELSE "00"
<1>1. PICK r \in Nat, b \in Nat : r = Len(m) % WordBytes /\ b = WordBytes /\ r < b /\ b - 1 - r \in Nat
  BY WordsOfMessage DEF ShaAssumption
<1>2. PICK s \in Seq(Byte), z \in Seq(Byte) :
        /\ s = RestOf(m) /\ Len(s) = r /\ (\A i \in 1 .. r : s[i] = m[WordBytes * WholeWords(Len(m)) + i])
        /\ z = Zeros(b - 1 - r) /\ Len(z) = b - 1 - r /\ (\A i \in 1 .. b - 1 - r : z[i] = "00")
  <2>1. /\ RestOf(m) \in Seq(Byte) /\ Len(RestOf(m)) = r
        /\ \A i \in 1 .. r : RestOf(m)[i] = m[WordBytes * WholeWords(Len(m)) + i]
    BY <1>1, RestOfProperties DEF Word
  <2>2. /\ Zeros(b - 1 - r) \in Seq(Byte) /\ Len(Zeros(b - 1 - r)) = b - 1 - r
        /\ \A i \in 1 .. b - 1 - r : Zeros(b - 1 - r)[i] = "00"
    BY <1>1, ZerosProperties
  <2> QED BY <2>1, <2>2, Zenon
<1>3. <<"80">> \in Seq(Byte) /\ Len(<<"80">>) = 1 /\ <<"80">>[1] = "80"
  BY DEF Byte
<1>4. PICK t \in Seq(Byte) : /\ t = s \o <<"80">> /\ Len(t) = r + 1
                             /\ \A i \in 1 .. r + 1 : t[i] = IF i <= r THEN s[i] ELSE "80"
  <2>1. /\ s \o <<"80">> \in Seq(Byte) /\ Len(s \o <<"80">>) = Len(s) + 1
        /\ \A i \in 1 .. Len(s) + 1 : (s \o <<"80">>)[i] = IF i <= Len(s) THEN s[i] ELSE <<"80">>[i - Len(s)]
    BY <1>3, ConcatProperties
  <2>2. \A i \in 1 .. r + 1 : ~(i <= r) => i - r = 1
    BY <1>1
  <2>3. \A i \in 1 .. r + 1 : (s \o <<"80">>)[i] = IF i <= r THEN s[i] ELSE "80"
    BY <1>2, <1>3, <2>1, <2>2, Zenon
  <2> QED BY <1>2, <2>1, <2>3, Zenon
<1>5. EndWord(m) = t \o z
  BY <1>1, <1>2, <1>4 DEF EndWord
<1>6. /\ t \o z \in Seq(Byte) /\ Len(t \o z) = b
      /\ \A i \in 1 .. b : (t \o z)[i] = IF i <= r + 1 THEN t[i] ELSE z[i - (r + 1)]
  <2>1. Len(t) + Len(z) = b
    <3>1. (r + 1) + (b - 1 - r) = b
      BY <1>1, SMTT(40)
    <3> QED BY <1>2, <1>4, <3>1, Zenon
  <2>2. /\ t \o z \in Seq(Byte) /\ Len(t \o z) = Len(t) + Len(z)
        /\ \A i \in 1 .. Len(t) + Len(z) : (t \o z)[i] = IF i <= Len(t) THEN t[i] ELSE z[i - Len(t)]
    BY ConcatProperties
  <2> QED BY <1>4, <2>1, <2>2
<1>7. ASSUME NEW i \in 1 .. b
      PROVE  (t \o z)[i] = IF i <= r THEN m[WordBytes * WholeWords(Len(m)) + i] ELSE IF i = r + 1 THEN "80" ELSE "00"
  <2>1. CASE i <= r
    <3>1. i \in 1 .. r /\ i \in 1 .. r + 1 /\ i <= r + 1
      BY <1>1, <2>1
    <3> QED BY <1>2, <1>4, <1>6, <2>1, <3>1, Zenon
  <2>2. CASE i = r + 1
    <3>1. i \in 1 .. r + 1 /\ i <= r + 1 /\ ~(i <= r)
      BY <1>1, <2>2
    <3> QED BY <1>4, <1>6, <2>2, <3>1, Zenon
  <2>3. CASE i > r + 1
    <3>1. i - (r + 1) \in 1 .. b - 1 - r
      BY <1>1, <2>3
    <3>2. z[i - (r + 1)] = "00"
      BY <1>2, <3>1
    <3>3. ~(i <= r + 1) /\ ~(i <= r) /\ ~(i = r + 1)
      BY <1>1, <2>3
    <3> QED BY <1>6, <3>2, <3>3, Zenon
  <2>4. i <= r \/ i = r + 1 \/ i > r + 1
    <3>1. i \in Int /\ r \in Int
      BY <1>1
    <3> QED BY <3>1
  <2> QED BY <2>1, <2>2, <2>3, <2>4, Zenon
<1> QED BY <1>1, <1>5, <1>6, <1>7 DEF Word

\* The message, the byte 80 and the zeros up to the end of the word.
LastOf(m) == (Len(m) + 1) % WordBytes
WholeOf(m) == m \o <<"80">> \o (IF LastOf(m) = 0 THEN <<>> ELSE Zeros(WordBytes - LastOf(m)))

(* Their bytes. *)
LEMMA WholeOfProperties ==
  ASSUME ShaAssumption, NEW m \in Seq(Nat)
  PROVE  /\ WholeOf(m) \in Seq(Byte) /\ Len(WholeOf(m)) = WordBytes * (WholeWords(Len(m)) + 1)
         /\ \A i \in 1 .. Len(WholeOf(m)) :
              WholeOf(m)[i] = IF i <= Len(m) THEN m[i] ELSE IF i = Len(m) + 1 THEN "80" ELSE "00"
<1> DEFINE last == LastOf(m)
           whole == WholeOf(m)
<1>0. /\ last = (Len(m) + 1) % WordBytes
      /\ whole = m \o <<"80">> \o (IF last = 0 THEN <<>> ELSE Zeros(WordBytes - last))
  BY DEF LastOf, WholeOf
<1> HIDE DEF last, whole
<1>1. PICK n \in Nat, b \in Nat \ {0}, q \in Nat, r \in Nat :
        n = Len(m) /\ b = WordBytes /\ q = WholeWords(n) /\ r = n % WordBytes /\ r < b /\ n = b * q + r
  <2>1. Len(m) \in Nat /\ WordBytes \in Nat \ {0}
    BY DEF ShaAssumption
  <2>2. /\ WholeWords(Len(m)) \in Nat /\ Len(m) % WordBytes \in 0 .. WordBytes - 1
        /\ Len(m) = WordBytes * WholeWords(Len(m)) + (Len(m) % WordBytes)
    BY <2>1, WordsOfMessage
  <2>3. Len(m) % WordBytes \in Nat /\ Len(m) % WordBytes < WordBytes
    BY <2>1, <2>2
  <2> QED BY <2>1, <2>2, <2>3
<1>2. PICK x \in Nat, y \in Nat : x = b * q /\ y = b * (q + 1) /\ y = x + b
  OBVIOUS
<1>a. n = x + r /\ r < b /\ y = x + b /\ r \in Int /\ b \in Int
  <2>1. n = x + r /\ r < b /\ y = x + b
    BY <1>1, <1>2, Zenon
  <2> QED BY <2>1
<1>3. last = IF r = b - 1 THEN 0 ELSE r + 1
  <2>1. last = (n + 1) % b
    BY <1>0, <1>1, Zenon
  <2>4. n + 1 \in Nat
    OBVIOUS
  <2>2. CASE r = b - 1
    <3>1. n + 1 = y + 0 /\ q + 1 \in Nat /\ 0 < b
      BY <1>a, <2>2
    <3>2. n + 1 = b * (q + 1) + 0
      BY <1>2, <3>1, Zenon
    <3>3. (n + 1) % b = 0
      BY <2>4, <3>1, <3>2, DivisionIs
    <3> QED BY <2>1, <2>2, <3>3, Zenon
  <2>3. CASE r # b - 1
    <3>1. n + 1 = x + (r + 1) /\ r + 1 \in Nat /\ r + 1 < b
      BY <1>a, <2>3
    <3>2. n + 1 = b * q + (r + 1)
      BY <1>2, <3>1, Zenon
    <3>3. (n + 1) % b = r + 1
      BY <2>4, <3>1, <3>2, DivisionIs
    <3> QED BY <2>1, <2>3, <3>3, Zenon
  <2> QED BY <2>2, <2>3
<1>4. PICK z \in Seq(Byte) : /\ z = (IF last = 0 THEN <<>> ELSE Zeros(WordBytes - last))
                             /\ Len(z) = b - 1 - r
                             /\ \A i \in 1 .. Len(z) : z[i] = "00"
  <2>1. CASE r = b - 1
    <3>1. last = 0 /\ b - 1 - r = 0
      BY <1>3, <2>1
    <3>2. <<>> \in Seq(Byte) /\ Len(<<>>) = 0
      OBVIOUS
    <3>3. \A i \in 1 .. 0 : <<>>[i] = "00"
      OBVIOUS
    <3> QED BY <3>1, <3>2, <3>3, Zenon
  <2>2. CASE r # b - 1
    <3>1. last # 0 /\ b - last = b - 1 - r /\ b - last \in Nat
      BY <1>a, <1>3, <2>2
    <3>2. /\ Zeros(b - last) \in Seq(Byte) /\ Len(Zeros(b - last)) = b - last
          /\ \A k \in 1 .. b - last : Zeros(b - last)[k] = "00"
      BY <3>1, ZerosProperties
    <3> QED BY <1>1, <3>1, <3>2, Zenon
  <2> QED BY <2>1, <2>2
<1>5. <<"80">> \in Seq(Byte) /\ Len(<<"80">>) = 1 /\ <<"80">>[1] = "80" /\ m \in Seq(Byte)
  BY NumbersAreBytes DEF Byte
<1>6. PICK t \in Seq(Byte) : t = m \o <<"80">> /\ Len(t) = n + 1 /\ \A i \in 1 .. n + 1 : t[i] = IF i <= n THEN m[i] ELSE "80"
  <2>1. /\ m \o <<"80">> \in Seq(Byte) /\ Len(m \o <<"80">>) = n + 1
        /\ \A i \in 1 .. n + 1 : (m \o <<"80">>)[i] = IF i <= n THEN m[i] ELSE <<"80">>[i - n]
    BY <1>1, <1>5, ConcatProperties
  <2>2. \A i \in 1 .. n + 1 : ~(i <= n) => i - n = 1
    OBVIOUS
  <2>3. \A i \in 1 .. n + 1 : (m \o <<"80">>)[i] = IF i <= n THEN m[i] ELSE "80"
    BY <1>5, <2>1, <2>2, Zenon
  <2> QED BY <2>1, <2>3, Zenon
<1>7. whole = t \o z
  BY <1>0, <1>4, <1>6, Zenon
<1>8. /\ t \o z \in Seq(Byte) /\ Len(t \o z) = Len(t) + Len(z)
      /\ \A i \in 1 .. Len(t) + Len(z) : (t \o z)[i] = IF i <= Len(t) THEN t[i] ELSE z[i - Len(t)]
  BY ConcatProperties
<1>9. Len(t) + Len(z) = y
  <2>1. (n + 1) + (b - 1 - r) = y
    BY <1>a
  <2> QED BY <1>4, <1>6, <2>1, Zenon
<1>10. ASSUME NEW i \in 1 .. y
       PROVE  (t \o z)[i] = IF i <= n THEN m[i] ELSE IF i = n + 1 THEN "80" ELSE "00"
  <2>0. i \in Int /\ i >= 1 /\ i <= y
    OBVIOUS
  <2>1. (t \o z)[i] = IF i <= n + 1 THEN t[i] ELSE z[i - (n + 1)]
    BY <1>6, <1>8, <1>9, Zenon
  <2>2. CASE i <= n
    <3>1. i \in 1 .. n + 1 /\ i <= n + 1
      BY <2>0, <2>2
    <3> QED BY <1>6, <2>1, <2>2, <3>1, Zenon
  <2>3. CASE i = n + 1
    <3>1. i \in 1 .. n + 1 /\ i <= n + 1 /\ ~(i <= n)
      BY <2>0, <2>3
    <3> QED BY <1>6, <2>1, <2>3, <3>1, Zenon
  <2>4. CASE i > n + 1
    <3>1. ~(i <= n + 1) /\ ~(i <= n) /\ i # n + 1
      BY <2>0, <2>4
    <3>2. i - (n + 1) \in 1 .. b - 1 - r
      BY <1>a, <2>0, <2>4
    <3>3. z[i - (n + 1)] = "00"
      BY <1>4, <3>2, Zenon
    <3> QED BY <2>1, <3>1, <3>3, Zenon
  <2>5. i <= n \/ i = n + 1 \/ i > n + 1
    BY <2>0
  <2> QED BY <2>2, <2>3, <2>4, <2>5, Zenon
<1> QED BY <1>1, <1>2, <1>7, <1>8, <1>9, <1>10, Zenon DEF whole

(* The words of the padded message, one by one. *)
LEMMA PaddedIs ==
  ASSUME ShaAssumption, NEW m \in Seq(Nat)
  PROVE  /\ Padded(m) \in Seq(Word) /\ Len(Padded(m)) = Total(Len(m))
         /\ \A k \in 1 .. Total(Len(m)) : Padded(m)[k] = PaddedWord(m, k)
<1> DEFINE whole == WholeOf(m)
           data == [k \in 1 .. Len(whole) \div WordBytes |-> SubSeq(whole, WordBytes * (k - 1) + 1, WordBytes * k)]
           rest == (2 * BlockWords - 2 - (Len(data) % BlockWords)) % BlockWords
           fill == [k \in 1 .. rest |-> Zeros(WordBytes)]
           q == WholeWords(Len(m))
<1>1. Padded(m) = data \o fill \o <<LenHi, LenLo(Len(m))>>
  BY DEF Padded, WholeOf, LastOf
<1>2. /\ whole \in Seq(Byte) /\ Len(whole) = WordBytes * (q + 1)
      /\ \A i \in 1 .. Len(whole) : whole[i] = IF i <= Len(m) THEN m[i] ELSE IF i = Len(m) + 1 THEN "80" ELSE "00"
  BY WholeOfProperties
<1> HIDE DEF whole
<1>3. /\ Len(m) \in Nat /\ q \in Nat /\ q + 1 \in Nat /\ WordBytes \in Nat \ {0} /\ WordBytes * q \in Nat
      /\ WordBytes * (q + 1) = WordBytes * q + WordBytes
  <2>1. Len(m) \in Nat /\ WordBytes \in Nat \ {0}
    BY DEF ShaAssumption
  <2>2. q \in Nat
    BY <2>1, WordsOfMessage
  <2> HIDE DEF q
  <2>3. q + 1 \in Nat /\ WordBytes * q \in Nat /\ WordBytes * (q + 1) = WordBytes * q + WordBytes
    BY <2>1, <2>2
  <2> QED BY <2>1, <2>2, <2>3
<1>4. /\ Len(m) % WordBytes \in 0 .. WordBytes - 1 /\ Len(m) = WordBytes * q + (Len(m) % WordBytes)
  BY <1>3, WordsOfMessage
<1>5. Total(Len(m)) = q + FillWords(Len(m)) + 3 /\ FillWords(Len(m)) \in Nat
  <2>1. FillWords(Len(m)) \in 0 .. BlockWords - 1
    BY <1>3, TotalIs
  <2> QED BY <2>1 DEF Total, ShaAssumption
<1>6. Len(whole) \div WordBytes = q + 1
  <2>1. Len(whole) = WordBytes * (q + 1) + 0 /\ 0 < WordBytes /\ Len(whole) \in Nat
    BY <1>2, <1>3
  <2> QED BY <1>3, <2>1, DivisionIs
<1>7. ASSUME NEW k \in 1 .. q + 1
      PROVE  /\ data[k] \in Word /\ Len(data[k]) = WordBytes
             /\ \A i \in 1 .. WordBytes : data[k][i] = whole[WordBytes * (k - 1) + i]
  <2>1. PICK a \in Nat, b \in Nat : a = WordBytes * (k - 1) /\ b = WordBytes * k /\ b = a + WordBytes /\ b <= Len(whole)
    BY <1>2, <1>3, PlacesOfWord
  <2>2. a <= b /\ b - a = WordBytes
    <3>1. b = a + WordBytes /\ WordBytes \in Nat
      BY <1>3, <2>1
    <3> QED BY <3>1
  <2>3. /\ SubSeq(whole, a + 1, b) \in Seq(Byte) /\ Len(SubSeq(whole, a + 1, b)) = b - a
        /\ \A i \in 1 .. b - a : SubSeq(whole, a + 1, b)[i] = whole[a + i]
    <3>1. b <= Len(whole) /\ whole \in Seq(Byte)
      BY <1>2, <2>1, Zenon
    <3> QED BY <2>2, <3>1, PartAfter
  <2>4. data[k] = SubSeq(whole, a + 1, b)
    BY <1>6, <2>1
  <2> HIDE DEF data
  <2> QED BY <2>1, <2>2, <2>3, <2>4, Zenon DEF Word
<1>8. data \in Seq(Word) /\ Len(data) = q + 1
  <2>1. data = [k \in 1 .. q + 1 |-> data[k]]
    BY <1>6
  <2>2. \A k \in 1 .. q + 1 : data[k] \in Word
    BY <1>7, Zenon
  <2> HIDE DEF data, q
  <2>3. q + 1 \in Nat
    BY <1>3
  <2>4. PICK n \in Nat : n = q + 1
    BY <2>3
  <2>5. data = [k \in 1 .. n |-> data[k]] /\ \A k \in 1 .. n : data[k] \in Word
    BY <2>1, <2>2, <2>4, Zenon
  <2>6. data \in [1 .. n -> Word]
    BY <2>5, Zenon
  <2>7. data \in Seq(Word) /\ Len(data) = n
    BY <2>6
  <2> QED BY <2>4, <2>7, Zenon
<1> HIDE DEF q
<1>9. ASSUME NEW k \in 1 .. q + 1 PROVE data[k] = PaddedWord(m, k)
  <2> HIDE DEF data
  <2>0. /\ data[k] \in Word /\ Len(data[k]) = WordBytes
        /\ \A i \in 1 .. WordBytes : data[k][i] = whole[WordBytes * (k - 1) + i]
    BY <1>7
  <2>1. CASE k <= q
    <3>1. k \in Nat \ {0} /\ k \in 1 .. q
      BY <1>3, <2>1
    <3>2. PICK a \in Nat : a = WordBytes * (k - 1) /\ a + WordBytes = WordBytes * k /\ a + WordBytes <= WordBytes * q
      BY <1>3, <3>1, PlacesOfWord
    <3>3. a + WordBytes <= Len(m) /\ WordBytes * k <= Len(m)
      <4>1. WordBytes * q <= Len(m)
        BY <1>3, <1>4
      <4> QED BY <1>3, <3>2, <4>1
    <3>4. /\ WordOf(m, k) \in Word /\ Len(WordOf(m, k)) = WordBytes
          /\ \A i \in 1 .. WordBytes : WordOf(m, k)[i] = m[a + i]
      BY <3>1, <3>2, <3>3, WordOfProperties
    <3>5. \A i \in 1 .. WordBytes : a + i \in 1 .. Len(whole) /\ a + i <= Len(m)
      BY <1>2, <1>3, <3>2, <3>3, SMTT(40)
    <3>6. \A i \in 1 .. WordBytes : data[k][i] = WordOf(m, k)[i]
      BY <1>2, <2>0, <3>2, <3>4, <3>5, Zenon
    <3>7. data[k] = WordOf(m, k)
      BY <2>0, <3>4, <3>6, SeqEqual DEF Word
    <3> QED BY <2>1, <3>7 DEF PaddedWord, q
  <2>2. CASE k = q + 1
    <3>1. PICK a \in Nat, n \in Nat, r \in Nat : a = WordBytes * q /\ n = Len(m) /\ r = Len(m) % WordBytes /\ n = a + r /\ r < WordBytes
      <4>1. Len(m) % WordBytes \in Nat /\ Len(m) % WordBytes < WordBytes
        BY <1>3, <1>4
      <4> QED BY <1>3, <1>4, <4>1, Zenon
    <3>2. k - 1 = q /\ ~(k <= q)
      BY <1>3, <2>2
    <3>3. /\ EndWord(m) \in Word /\ Len(EndWord(m)) = WordBytes
          /\ \A i \in 1 .. WordBytes : EndWord(m)[i] = IF i <= r THEN m[a + i] ELSE IF i = r + 1 THEN "80" ELSE "00"
      BY <3>1, EndWordProperties DEF q
    <3>4. \A i \in 1 .. WordBytes : /\ a + i \in 1 .. Len(whole)
                                    /\ a + i <= n <=> i <= r
                                    /\ a + i = n + 1 <=> i = r + 1
      <4>1. Len(whole) = a + WordBytes /\ WordBytes \in Nat /\ n = a + r
        BY <1>2, <1>3, <3>1
      <4> QED BY <4>1
    <3>5. \A i \in 1 .. WordBytes : data[k][i] = whole[a + i]
      BY <2>0, <3>1, <3>2
    <3>6. \A i \in 1 .. WordBytes : whole[a + i] = IF a + i <= n THEN m[a + i] ELSE IF a + i = n + 1 THEN "80" ELSE "00"
      BY <1>2, <3>1, <3>4, ZenonT(60)
    <3>7. \A i \in 1 .. WordBytes : data[k][i] = EndWord(m)[i]
      BY <3>3, <3>4, <3>5, <3>6, ZenonT(60)
    <3>8. data[k] = EndWord(m)
      BY <2>0, <3>3, <3>7, SeqEqual DEF Word
    <3> QED BY <2>2, <3>2, <3>8, Zenon DEF PaddedWord, q
  <2> QED BY <1>3, <2>1, <2>2
<1>10. rest = FillWords(Len(m))
  BY <1>8 DEF FillWords, q
<1> HIDE DEF data
<1>11. /\ fill \in Seq(Word) /\ Len(fill) = FillWords(Len(m))
       /\ \A k \in 1 .. FillWords(Len(m)) : fill[k] = Zeros(WordBytes)
  <2>1. Zeros(WordBytes) \in Word
    BY <1>3, ZerosProperties DEF Word
  <2>2. rest \in Nat
    BY <1>5, <1>10
  <2> HIDE DEF rest
  <2> QED BY <1>10, <2>1, <2>2
<1> HIDE DEF fill
<1>12. LenHi \in Word /\ LenLo(Len(m)) \in Word
  <2>1. Zeros(WordBytes - 1) \in Seq(Byte)
    BY <1>3, ZerosProperties
  <2>2. <<"hi">> \in Seq(Byte) /\ <<Len(m)>> \in Seq(Byte)
    BY <1>3 DEF Byte
  <2> QED BY <2>1, <2>2, ConcatProperties DEF LenHi, LenLo, Word
<1>13. PICK u \in Seq(Word), f \in Nat :
         /\ u = data \o fill /\ f = FillWords(Len(m)) /\ Len(u) = q + 1 + f
         /\ \A k \in 1 .. q + 1 + f : u[k] = IF k <= q + 1 THEN data[k] ELSE fill[k - (q + 1)]
  <2>1. /\ data \o fill \in Seq(Word) /\ Len(data \o fill) = Len(data) + Len(fill)
        /\ \A k \in 1 .. Len(data) + Len(fill) : (data \o fill)[k] = IF k <= Len(data) THEN data[k] ELSE fill[k - Len(data)]
    BY <1>8, <1>11, ConcatProperties
  <2>2. Len(data) + Len(fill) = q + 1 + FillWords(Len(m))
    BY <1>8, <1>11, Zenon
  <2>3. /\ Len(data \o fill) = q + 1 + FillWords(Len(m))
        /\ \A k \in 1 .. q + 1 + FillWords(Len(m)) : (data \o fill)[k] = IF k <= q + 1 THEN data[k] ELSE fill[k - (q + 1)]
    BY <1>8, <2>1, <2>2, Zenon
  <2> QED BY <1>5, <2>1, <2>3, Zenon
<1>14. PICK e \in Seq(Word) : e = <<LenHi, LenLo(Len(m))>> /\ Len(e) = 2 /\ e[1] = LenHi /\ e[2] = LenLo(Len(m))
  <2>1. \A x, y \in Word : <<x, y>> \in Seq(Word) /\ Len(<<x, y>>) = 2 /\ <<x, y>>[1] = x /\ <<x, y>>[2] = y
    OBVIOUS
  <2> QED BY <1>12, <2>1, ZenonT(60)
<1>15. /\ u \o e \in Seq(Word) /\ Len(u \o e) = Len(u) + Len(e)
       /\ \A k \in 1 .. Len(u) + Len(e) : (u \o e)[k] = IF k <= Len(u) THEN u[k] ELSE e[k - Len(u)]
  BY ConcatProperties
<1>16. Padded(m) = u \o e
  BY <1>1, <1>13, <1>14, Zenon
<1>17. PICK t \in Nat : t = Total(Len(m)) /\ t = q + f + 3 /\ Len(u) + Len(e) = t /\ Len(u) = t - 2
  <2>1. q + f + 3 = (q + 1 + f) + 2 /\ q + f + 3 \in Nat /\ q + 1 + f = (q + f + 3) - 2
    BY <1>3, <1>13, SMTT(40)
  <2> QED BY <1>5, <1>13, <1>14, <2>1, Zenon
<1>18. ASSUME NEW k \in 1 .. t PROVE (u \o e)[k] = PaddedWord(m, k)
  <2>0. k \in Int /\ 1 <= k /\ k <= t /\ t = q + f + 3 /\ q \in Nat /\ f \in Nat
    BY <1>3, <1>17
  <2>1. (u \o e)[k] = IF k <= t - 2 THEN u[k] ELSE e[k - (t - 2)]
    BY <1>15, <1>17, Zenon
  <2>2. CASE k <= q + 1
    <3>1. k \in 1 .. q + 1 /\ k \in 1 .. q + 1 + f /\ k <= t - 2
      BY <2>0, <2>2
    <3> QED BY <1>9, <1>13, <2>1, <2>2, <3>1, Zenon
  <2>3. CASE q + 1 < k /\ k <= t - 2
    <3>1. k \in 1 .. q + 1 + f /\ ~(k <= q + 1) /\ k - (q + 1) \in 1 .. f /\ ~(k <= q) /\ k # q + 1 /\ k # t /\ k # t - 1
      BY <2>0, <2>3
    <3>2. (u \o e)[k] = Zeros(WordBytes)
      BY <1>11, <1>13, <2>1, <2>3, <3>1, Zenon
    <3> QED BY <1>17, <3>1, <3>2, Zenon DEF PaddedWord, q
  <2>4. CASE k = t - 1
    <3>1. ~(k <= t - 2) /\ k - (t - 2) = 1 /\ ~(k <= q) /\ k # q + 1 /\ k # t
      BY <2>0, <2>4
    <3>2. (u \o e)[k] = LenHi
      BY <1>14, <2>1, <3>1, Zenon
    <3> QED BY <1>17, <2>4, <3>1, <3>2, Zenon DEF PaddedWord, q
  <2>5. CASE k = t
    <3>1. ~(k <= t - 2) /\ k - (t - 2) = 2 /\ ~(k <= q) /\ k # q + 1
      BY <2>0, <2>5
    <3>2. (u \o e)[k] = LenLo(Len(m))
      BY <1>14, <2>1, <3>1, Zenon
    <3> QED BY <1>17, <2>5, <3>1, <3>2, Zenon DEF PaddedWord, q
  <2>6. k <= q + 1 \/ (q + 1 < k /\ k <= t - 2) \/ k = t - 1 \/ k = t
    BY <2>0
  <2> QED BY <2>2, <2>3, <2>4, <2>5, <2>6, Zenon
<1> QED BY <1>15, <1>16, <1>17, <1>18, Zenon

(* A whole block more is still a number of whole blocks. *)
LEMMA BlocksMove ==
  ASSUME ShaAssumption, NEW n \in Nat, n % BlockWords = 0
  PROVE  (n + BlockWords) % BlockWords = 0
<1>1. BlockWords \in Nat \ {0}
  BY DEF ShaAssumption
<1>2. PICK q \in Nat : q = n \div BlockWords /\ n = BlockWords * q
  <2>1. n \div BlockWords \in Nat /\ n = BlockWords * (n \div BlockWords) + (n % BlockWords)
    BY <1>1, DivisionOf
  <2>2. n = BlockWords * (n \div BlockWords)
    BY <1>1, <2>1
  <2> QED BY <2>1, <2>2
<1>3. n + BlockWords = BlockWords * (q + 1) + 0 /\ q + 1 \in Nat /\ 0 < BlockWords /\ n + BlockWords \in Nat
  BY <1>1, <1>2
<1>4. PICK p \in Nat, x \in Nat : p = q + 1 /\ x = n + BlockWords /\ x = BlockWords * p + 0
  BY <1>3
<1>5. x % BlockWords = 0
  <2>1. 0 \in Nat
    OBVIOUS
  <2> QED BY <1>1, <1>3, <1>4, <2>1, DivisionIs, Zenon
<1> QED BY <1>4, <1>5

(* What the padding machine shows to the engine and the FIFO, by its state. *)
LEMMA PadSignals ==
  /\ pad_st = "StIdle" => ~shaf_rvalid /\ ~fifo_rready
  /\ pad_st = "StFifoReceive" => /\ shaf_rvalid <=> fifo_rvalid /\ ~hash_process_flag
                                 /\ fifo_rready <=> shaf_rready /\ ~hash_process_flag
                                 /\ shaf_rdata = Head(fifo)
  /\ pad_st = "StPad80" => /\ shaf_rvalid <=> fifo_rvalid \/ ~partial
                           /\ fifo_rready <=> shaf_rready /\ partial
                           /\ shaf_rdata = (IF message_length % WordBytes = 0 THEN <<>>
                                            ELSE SubSeq(Head(fifo), 1, message_length % WordBytes))
                                           \o <<"80">> \o Zeros(WordBytes - 1 - (message_length % WordBytes))
  /\ pad_st \in {"StPad00", "StLenHi", "StLenLo"} => shaf_rvalid /\ ~fifo_rready
  /\ pad_st = "StPad00" => shaf_rdata = Zeros(WordBytes)
  /\ pad_st = "StLenHi" => shaf_rdata = LenHi
  /\ pad_st = "StLenLo" => shaf_rdata = LenLo(message_length)
BY DEF shaf_rvalid, fifo_rready, shaf_rdata

\* What the engine has fetched before, and what it adds in this cycle.
Taken == IF update_w_from_fifo THEN Append(Sent, shaf_rdata) ELSE Sent

(* The two machines of the engine keep in step: a block that was fetched   *)
(* is handed over whole, and no word is lost or taken twice.               *)
LEMMA EngineStep ==
  ASSUME ShaAssumption, ShaTyped, Engine, Fetch, Compress, update_w_from_fifo => shaf_rdata \in Word
  PROVE  /\ Engine'
         /\ fifo_st' \in {"FifoIdle", "FifoLoadFromFifo", "FifoWait"}
         /\ sha_st' \in {"ShaIdle", "ShaCompress", "ShaUpdateDigest"}
         /\ round' \in 0 .. NumRound - 1 /\ hash_done' \in BOOLEAN
         /\ w' \in Seq(Word) /\ hash' \in Seq(Word) /\ digest' \in Seq(Word)
         /\ ~hash_start => Sent' = Taken
         /\ hash_start => digest' = <<>>
         /\ fifo_st # "FifoIdle" => (fifo_st' = "FifoIdle" <=> hash_done')
         /\ hash_done' => fifo_st = "FifoWait" /\ msg_feed_complete /\ sha_st' = "ShaUpdateDigest"
         /\ fifo_st = "FifoWait" /\ msg_feed_complete /\ ~hash_done' => fifo_st' = "FifoWait"
         /\ fifo_st = "FifoLoadFromFifo" /\ shaf_rvalid /\ Len(w) = BlockWords - 1 => fifo_st' = "FifoWait"
<1> DEFINE u == update_w_from_fifo
           d == shaf_rdata
           last == complete_one_chunk
           done == msg_feed_complete
<1>0. /\ NumRound \in Nat /\ NumRound > 1 /\ BlockWords \in Nat /\ BlockWords > 2
      /\ fifo_st \in {"FifoIdle", "FifoLoadFromFifo", "FifoWait"}
      /\ sha_st \in {"ShaIdle", "ShaCompress", "ShaUpdateDigest"}
      /\ round \in 0 .. NumRound - 1 /\ w \in Seq(Word) /\ hash \in Seq(Word) /\ digest \in Seq(Word)
      /\ Len(w) \in Nat /\ Len(hash) \in Nat /\ Len(digest) \in Nat
  BY DEF ShaAssumption, ShaTyped, SoftTyped, MachineTyped
<1>1. /\ u <=> fifo_st = "FifoLoadFromFifo" /\ shaf_rvalid
      /\ u => d \in Word
      /\ last <=> round = NumRound - 1
      /\ done \in BOOLEAN
  BY DEF update_w_from_fifo, complete_one_chunk, msg_feed_complete
<1> HIDE DEF u, d, last, done
<1>2. /\ fifo_st' = IF fifo_st = "FifoIdle" THEN IF hash_start THEN "FifoLoadFromFifo" ELSE "FifoIdle"
                    ELSE IF fifo_st = "FifoLoadFromFifo"
                    THEN IF shaf_rvalid /\ Len(w) = BlockWords - 1 THEN "FifoWait" ELSE "FifoLoadFromFifo"
                    ELSE IF ~last THEN "FifoWait" ELSE IF done THEN "FifoIdle" ELSE "FifoLoadFromFifo"
      /\ hash_done' = (fifo_st = "FifoWait" /\ last /\ done)
      /\ w' = IF u THEN Append(IF Len(w) = BlockWords THEN <<>> ELSE w, d)
              ELSE IF sha_st = "ShaCompress" THEN <<>> ELSE w
      /\ sha_st' = IF sha_st = "ShaCompress" THEN IF last THEN "ShaUpdateDigest" ELSE "ShaCompress"
                   ELSE IF fifo_st = "FifoWait" THEN "ShaCompress" ELSE "ShaIdle"
      /\ round' = IF sha_st = "ShaCompress" THEN (round + 1) % NumRound ELSE round
      /\ hash' = IF ~(sha_st = "ShaCompress") /\ fifo_st = "FifoWait" THEN w ELSE hash
      /\ digest' = IF hash_start THEN <<>> ELSE IF sha_st = "ShaUpdateDigest" THEN digest \o hash ELSE digest
  BY Zenon DEF Fetch, Compress, run_hash, u, d, last, done
<1>3. /\ Len(digest) % BlockWords = 0
      /\ fifo_st = "FifoIdle" => w = <<>>
      /\ fifo_st = "FifoLoadFromFifo" => Len(w) < BlockWords
      /\ fifo_st = "FifoWait" => (sha_st = "ShaIdle" /\ Len(w) = BlockWords) \/ sha_st = "ShaCompress"
      /\ sha_st = "ShaCompress" => fifo_st = "FifoWait" /\ Len(hash) = BlockWords /\ (round > 0 => w = <<>>)
      /\ sha_st # "ShaCompress" => round = 0
      /\ sha_st = "ShaUpdateDigest" => Len(hash) = BlockWords /\ w = <<>>
  BY DEF Engine
<1>4. PICK e \in Seq(Word) : e = <<>> /\ Len(e) = 0
  <2>1. <<>> \in Seq(Word) /\ Len(<<>>) = 0
    OBVIOUS
  <2> QED BY <2>1
<1>5. /\ last => sha_st = "ShaCompress" \/ fifo_st # "FifoWait"
      /\ last => round > 0
      /\ last => sha_st = "ShaCompress"
  BY <1>0, <1>1, <1>3
<1>6. /\ round' \in 0 .. NumRound - 1
      /\ sha_st' # "ShaCompress" => round' = 0
      /\ sha_st' = "ShaCompress" /\ sha_st # "ShaCompress" => round' = 0
  <2>1. CASE sha_st # "ShaCompress"
    BY <1>0, <1>2, <1>3, <2>1
  <2>2. CASE sha_st = "ShaCompress" /\ last
    <3>1. round + 1 = NumRound * 1 + 0 /\ round + 1 \in Nat /\ 0 < NumRound /\ NumRound \in Nat \ {0}
      BY <1>0, <1>1, <2>2
    <3>2. (round + 1) % NumRound = 0
      BY <3>1, DivisionIs
    <3> QED BY <1>0, <1>2, <2>2, <3>2
  <2>3. CASE sha_st = "ShaCompress" /\ ~last
    <3>1. round + 1 = NumRound * 0 + (round + 1) /\ round + 1 \in Nat /\ round + 1 < NumRound /\ NumRound \in Nat \ {0}
      BY <1>0, <1>1, <2>3
    <3>2. (round + 1) % NumRound = round + 1
      BY <3>1, DivisionIs
    <3> QED BY <1>0, <1>2, <2>3, <3>1, <3>2
  <2> QED BY <2>1, <2>2, <2>3
<1>7. /\ w' \in Seq(Word)
      /\ u => w' = Append(w, d) /\ Len(w') = Len(w) + 1
      /\ ~u /\ sha_st = "ShaCompress" => w' = <<>>
      /\ ~u /\ sha_st # "ShaCompress" => w' = w
  <2>1. CASE u
    <3>1. w' = Append(w, d)
      BY <1>0, <1>1, <1>2, <1>3, <2>1
    <3> QED BY <1>0, <1>1, <2>1, <3>1, AppendProperties
  <2>2. CASE ~u /\ sha_st = "ShaCompress"
    BY <1>2, <1>4, <2>2, Zenon
  <2>3. CASE ~u /\ sha_st # "ShaCompress"
    BY <1>0, <1>2, <2>3, Zenon
  <2> QED BY <2>1, <2>2, <2>3
<1>8. hash' \in Seq(Word)
  BY <1>0, <1>2, Zenon
<1>9. digest' \in Seq(Word) /\ Len(digest') % BlockWords = 0
  <2>1. CASE hash_start
    <3>1. digest' = e
      BY <1>2, <1>4, <2>1, Zenon
    <3>2. 0 = BlockWords * 0 + 0 /\ BlockWords \in Nat \ {0} /\ 0 < BlockWords
      BY <1>0
    <3>3. 0 % BlockWords = 0
      BY <3>2, DivisionIs
    <3> QED BY <1>4, <3>1, <3>3, Zenon
  <2>2. CASE ~hash_start /\ sha_st = "ShaUpdateDigest"
    <3>1. digest' = digest \o hash
      BY <1>2, <2>2, Zenon
    <3>2. digest' \in Seq(Word) /\ Len(digest') = Len(digest) + BlockWords
      BY <1>0, <1>3, <2>2, <3>1, ConcatProperties
    <3>3. (Len(digest) + BlockWords) % BlockWords = 0
      BY <1>0, <1>3, BlocksMove
    <3> QED BY <3>2, <3>3, Zenon
  <2>3. CASE ~hash_start /\ sha_st # "ShaUpdateDigest"
    BY <1>0, <1>2, <1>3, <2>3, Zenon
  <2> QED BY <2>1, <2>2, <2>3
<1>10. fifo_st' = "FifoIdle" => w' = <<>>
  <2>1. CASE fifo_st = "FifoIdle"
    BY <1>1, <1>2, <1>3, <1>7, <2>1, Zenon
  <2>2. CASE fifo_st = "FifoLoadFromFifo"
    BY <1>2, <2>2
  <2>3. CASE fifo_st = "FifoWait"
    <3>1. ~u
      BY <1>1, <2>3
    <3> QED BY <1>2, <1>5, <1>7, <2>3, <3>1
  <2> QED BY <1>0, <2>1, <2>2, <2>3
<1>11. fifo_st' = "FifoLoadFromFifo" => Len(w') < BlockWords
  <2>1. CASE fifo_st = "FifoIdle"
    <3>1. w' = e
      BY <1>1, <1>3, <1>4, <1>7, <2>1
    <3> QED BY <1>0, <1>4, <3>1
  <2>2. CASE fifo_st = "FifoLoadFromFifo" /\ u
    BY <1>0, <1>1, <1>2, <1>3, <1>7, <2>2
  <2>3. CASE fifo_st = "FifoLoadFromFifo" /\ ~u
    BY <1>1, <1>3, <1>7, <2>3
  <2>4. CASE fifo_st = "FifoWait"
    <3>1. ASSUME fifo_st' = "FifoLoadFromFifo" PROVE Len(w') < BlockWords
      <4>1. w' = e
        BY <1>1, <1>2, <1>4, <1>5, <1>7, <2>4, <3>1
      <4> QED BY <1>0, <1>4, <4>1
    <3> QED BY <3>1
  <2> QED BY <1>0, <2>1, <2>2, <2>3, <2>4
<1>12. fifo_st' = "FifoWait" => (sha_st' = "ShaIdle" /\ Len(w') = BlockWords) \/ sha_st' = "ShaCompress"
  <2>1. CASE fifo_st = "FifoIdle"
    BY <1>2, <2>1
  <2>2. CASE fifo_st = "FifoLoadFromFifo"
    BY <1>0, <1>1, <1>2, <1>3, <1>7, <2>2
  <2>3. CASE fifo_st = "FifoWait"
    BY <1>2, <2>3
  <2> QED BY <1>0, <2>1, <2>2, <2>3
<1>13. sha_st' = "ShaCompress" => fifo_st' = "FifoWait" /\ Len(hash') = BlockWords /\ (round' > 0 => w' = <<>>)
  <2>1. CASE sha_st = "ShaCompress"
    <3>1. ~u
      BY <1>1, <1>3, <2>1
    <3> QED BY <1>2, <1>3, <1>7, <2>1, <3>1
  <2>2. CASE sha_st # "ShaCompress"
    <3>1. ASSUME sha_st' = "ShaCompress" PROVE fifo_st' = "FifoWait" /\ Len(hash') = BlockWords /\ ~(round' > 0)
      <4>1. fifo_st = "FifoWait" /\ round' = 0
        BY <1>2, <1>6, <2>2, <3>1
      <4>2. fifo_st' = "FifoWait"
        BY <1>2, <1>5, <2>2, <4>1
      <4> QED BY <1>2, <1>3, <2>2, <4>1, <4>2
    <3> QED BY <3>1
  <2> QED BY <2>1, <2>2
<1>14. sha_st' = "ShaUpdateDigest" => Len(hash') = BlockWords /\ w' = <<>>
  <2>1. ASSUME sha_st' = "ShaUpdateDigest" PROVE Len(hash') = BlockWords /\ w' = <<>>
    <3>1. sha_st = "ShaCompress" /\ ~u
      BY <1>1, <1>2, <1>3, <2>1
    <3> QED BY <1>2, <1>3, <1>7, <3>1
  <2> QED BY <2>1
<1>15. Engine'
  BY <1>6, <1>9, <1>10, <1>11, <1>12, <1>13, <1>14, Zenon DEF Engine
<1>16. ASSUME ~hash_start PROVE Sent' = Taken
  <2>1. Sent' = digest' \o (IF sha_st' = "ShaIdle" THEN w' ELSE hash')
    BY DEF Sent
  <2>2. Taken = IF u THEN Append(digest \o (IF sha_st = "ShaIdle" THEN w ELSE hash), d)
                ELSE digest \o (IF sha_st = "ShaIdle" THEN w ELSE hash)
    BY Zenon DEF Taken, Sent, u, d
  <2>3. ASSUME NEW a \in Seq(Word), NEW b \in Seq(Word), u PROVE a \o Append(b, d) = Append(a \o b, d)
    <3>1. d \in Word /\ <<d>> \in Seq(Word) /\ a \o b \in Seq(Word)
      BY <1>1, <2>3, ConcatProperties
    <3>2. Append(b, d) = b \o <<d>> /\ Append(a \o b, d) = (a \o b) \o <<d>>
      BY <3>1, AppendIsConcat
    <3>3. a \o (b \o <<d>>) = (a \o b) \o <<d>>
      BY <3>1, ConcatAssociative
    <3> QED BY <3>2, <3>3
  <2>4. CASE sha_st = "ShaIdle" /\ fifo_st = "FifoWait"
    <3>1. sha_st' = "ShaCompress" /\ hash' = w /\ digest' = digest /\ ~u
      BY <1>1, <1>2, <1>16, <2>4
    <3> QED BY <2>1, <2>2, <2>4, <3>1
  <2>5. CASE sha_st = "ShaIdle" /\ fifo_st # "FifoWait"
    <3>1. sha_st' = "ShaIdle" /\ digest' = digest /\ (u => w' = Append(w, d)) /\ (~u => w' = w)
      BY <1>2, <1>7, <1>16, <2>5
    <3> QED BY <1>0, <2>1, <2>2, <2>3, <2>5, <3>1
  <2>6. CASE sha_st = "ShaCompress"
    <3>1. sha_st' # "ShaIdle" /\ digest' = digest /\ hash' = hash /\ ~u
      BY <1>1, <1>2, <1>3, <1>16, <2>6
    <3> QED BY <2>1, <2>2, <2>6, <3>1
  <2>7. CASE sha_st = "ShaUpdateDigest"
    <3>1. sha_st' = "ShaIdle" /\ digest' = digest \o hash /\ (u => w' = Append(w, d)) /\ (~u => w' = w) /\ w = e
      BY <1>2, <1>3, <1>4, <1>7, <1>16, <2>7
    <3>2. digest \o hash \in Seq(Word) /\ (digest \o hash) \o e = digest \o hash
      BY <1>0, <1>4, ConcatProperties, ConcatEmptySeq
    <3>3. CASE u
      <4>1. (digest \o hash) \o Append(w, d) = Append((digest \o hash) \o w, d)
        BY <1>0, <2>3, <3>2, <3>3
      <4> QED BY <2>1, <2>2, <2>7, <3>1, <3>2, <3>3, <4>1
    <3>4. CASE ~u
      BY <2>1, <2>2, <2>7, <3>1, <3>2, <3>4
    <3> QED BY <3>3, <3>4
  <2> QED BY <1>0, <2>4, <2>5, <2>6, <2>7
<1>17. hash_start => digest' = <<>>
  BY <1>2
<1>18. fifo_st # "FifoIdle" => (fifo_st' = "FifoIdle" <=> hash_done')
  BY <1>0, <1>1, <1>2
<1>19. hash_done' => fifo_st = "FifoWait" /\ done /\ sha_st' = "ShaUpdateDigest"
  BY <1>2, <1>5
<1>20. fifo_st = "FifoWait" /\ done /\ ~hash_done' => fifo_st' = "FifoWait"
  BY <1>2
<1>21. fifo_st = "FifoLoadFromFifo" /\ shaf_rvalid /\ Len(w) = BlockWords - 1 => fifo_st' = "FifoWait"
  BY <1>2
<1>22. /\ fifo_st' \in {"FifoIdle", "FifoLoadFromFifo", "FifoWait"}
       /\ sha_st' \in {"ShaIdle", "ShaCompress", "ShaUpdateDigest"}
       /\ hash_done' \in BOOLEAN
  BY <1>2
<1> QED BY <1>6, <1>7, <1>8, <1>9, <1>15, <1>16, <1>17, <1>18, <1>19, <1>20, <1>21, <1>22, Zenon DEF done

(* An even write finds the upper half of the bus register cleared. *)
LEMMA Committed ==
  ASSUME ShaTyped, wdata # <<>>
  PROVE  msg_data = wdata
<1>1. wdata \in Seq(Nat) /\ wdata_top = <<>>
  BY DEF ShaTyped, SoftTyped
<1> QED BY <1>1, ConcatEmptySeq DEF msg_data

(* What the packer holds and gets. *)
LEMMA ConcatIs ==
  ASSUME ShaTyped
  PROVE  /\ concat \in Seq(Nat) /\ Len(concat) = Len(stored) + (IF msg_write THEN Len(wdata) ELSE 0)
         /\ msg_write => concat = stored \o Ordered(wdata, control_latch)
         /\ ~msg_write => concat = stored
<1>1. stored \in Seq(Nat) /\ wdata \in Seq(Nat) /\ <<>> \in Seq(Nat) /\ Len(stored) \in Nat
  BY DEF ShaTyped, SoftTyped, MachineTyped
<1>2. Ordered(wdata, control_latch) \in Seq(Nat) /\ Len(Ordered(wdata, control_latch)) = Len(wdata)
  BY <1>1, OrderedProperties
<1>3. CASE msg_write
  <2>1. concat = stored \o Ordered(wdata, control_latch)
    BY <1>3, Committed DEF concat, msg_write
  <2>2. /\ stored \o Ordered(wdata, control_latch) \in Seq(Nat)
        /\ Len(stored \o Ordered(wdata, control_latch)) = Len(stored) + Len(wdata)
    <3>1. PICK o \in Seq(Nat) : o = Ordered(wdata, control_latch) /\ Len(o) = Len(wdata)
      BY <1>2
    <3>2. stored \o o \in Seq(Nat) /\ Len(stored \o o) = Len(stored) + Len(o)
      BY <1>1, ConcatProperties
    <3> QED BY <3>1, <3>2, Zenon
  <2> QED BY <1>3, <2>1, <2>2
<1>4. CASE ~msg_write
  <2>1. concat = stored \o <<>>
    BY <1>4 DEF concat
  <2>2. concat = stored
    BY <1>1, <2>1, ConcatEmptySeq
  <2> QED BY <1>1, <1>4, <2>2
<1> QED BY <1>3, <1>4

\* What is left of the FIFO when p words are taken.
Left(p) == SubSeq(fifo, 1 + p, Len(fifo))

(* Its words. *)
LEMMA LeftProperties ==
  ASSUME ShaTyped, NEW p \in Nat, p <= Len(fifo)
  PROVE  /\ Left(p) \in Seq(Word) /\ Len(Left(p)) = Len(fifo) - p /\ Len(fifo) - p \in Nat
         /\ \A k \in 1 .. Len(fifo) - p : Left(p)[k] = fifo[p + k]
<1>1. fifo \in Seq(Word) /\ Len(fifo) \in Nat
  BY DEF ShaTyped, SoftTyped, MachineTyped
<1>2. PICK n \in Nat : n = Len(fifo)
  BY <1>1
<1>3. 1 + p \in Nat \ {0} /\ 1 + p <= n + 1 /\ n - (1 + p) + 1 = n - p /\ n - p \in Nat
  BY <1>2
<1>4. /\ SubSeq(fifo, 1 + p, n) \in Seq(Word) /\ Len(SubSeq(fifo, 1 + p, n)) = n - (1 + p) + 1
      /\ \A k \in 1 .. n - (1 + p) + 1 : SubSeq(fifo, 1 + p, n)[k] = fifo[1 + p + k - 1]
  BY <1>1, <1>2, <1>3, PartOf
<1>5. \A k \in 1 .. n - p : 1 + p + k - 1 = p + k
  OBVIOUS
<1> QED BY <1>2, <1>3, <1>4, <1>5, Zenon DEF Left

(* One cycle of the packer and the FIFO: a full word goes out and what is  *)
(* left stays; when the message is closed all of it goes out.              *)
LEMMA PackerStep ==
  ASSUME ShaAssumption, ShaTyped, Room, NEW rready \in BOOLEAN, Packer, Fifo(rready),
         hash_process => fifo = <<>> /\ wdata = <<>>,
         NEW p \in Nat, p = IF rready /\ fifo_rvalid THEN 1 ELSE 0
  PROVE  /\ stored' \in Seq(Nat) /\ fifo' \in Seq(Word) /\ shown' \in Nat
         /\ Len(stored') < WordBytes /\ Len(fifo') <= AlmostFull /\ shown' <= Len(fifo')
         /\ p <= Len(fifo)
         /\ ~hash_process /\ Len(concat) >= WordBytes =>
              /\ fifo' = Append(Left(p), SubSeq(concat, 1, WordBytes))
              /\ SubSeq(concat, 1, WordBytes) \in Word
              /\ stored' = SubSeq(concat, WordBytes + 1, Len(concat))
         /\ ~hash_process /\ Len(concat) < WordBytes => fifo' = Left(p) /\ stored' = concat
         /\ hash_process => /\ stored' = <<>> /\ fifo' = IF stored = <<>> THEN <<>> ELSE <<stored>>
                            /\ stored \in Word
<1> DEFINE b == WordBytes
           c == concat
           out == SubSeq(c, 1, IF Len(c) < b THEN Len(c) ELSE b)
<1>1. /\ b \in Nat /\ b > 1 /\ AlmostFull \in Nat /\ AlmostFull > 0
      /\ stored \in Seq(Nat) /\ Len(stored) \in Nat /\ Len(stored) < b
      /\ wdata \in Seq(Nat) /\ Len(wdata) \in Nat /\ Len(wdata) <= b /\ (wdata # <<>> => Len(fifo) < AlmostFull)
      /\ fifo \in Seq(Word) /\ Len(fifo) \in Nat /\ Len(fifo) <= AlmostFull /\ shown \in Nat /\ shown <= Len(fifo)
  BY SMTT(40) DEF ShaAssumption, ShaTyped, SoftTyped, MachineTyped, Room
<1>2. /\ c \in Seq(Nat) /\ Len(c) = Len(stored) + (IF msg_write THEN Len(wdata) ELSE 0) /\ (~msg_write => c = stored)
      /\ Len(c) \in Nat /\ (msg_write => wdata # <<>>)
  <2>1. c \in Seq(Nat) /\ Len(c) = Len(stored) + (IF msg_write THEN Len(wdata) ELSE 0) /\ (~msg_write => c = stored)
    BY ConcatIs
  <2> HIDE DEF c
  <2>2. Len(c) \in Nat
    BY <2>1
  <2>3. msg_write => wdata # <<>>
    BY DEF msg_write
  <2> QED BY <2>1, <2>2, <2>3
<1>3. p <= Len(fifo)
  <2>1. CASE rready /\ fifo_rvalid
    BY <1>1, <2>1 DEF fifo_rvalid
  <2>2. CASE ~(rready /\ fifo_rvalid)
    BY <1>1, <2>2
  <2> QED BY <2>1, <2>2
<1>4. /\ Left(p) \in Seq(Word) /\ Len(Left(p)) = Len(fifo) - p /\ Len(fifo) - p \in Nat
  BY <1>3, LeftProperties
<1>5. /\ stored' = IF hash_process THEN <<>> ELSE IF valid_o THEN SubSeq(c, b + 1, Len(c)) ELSE c
      /\ fifo' = IF valid_o THEN Append(Left(p), out) ELSE Left(p)
      /\ shown' = Len(Left(p))
  BY Zenon DEF Packer, Fifo, Left
<1>6. valid_o <=> Len(c) >= b \/ (hash_process /\ stored # <<>>)
  BY Zenon DEF valid_o
<1>7. ASSUME hash_process PROVE wdata = <<>> /\ c = stored /\ fifo = <<>> /\ Len(fifo) = 0 /\ Len(c) < b /\ p = 0
  <2>1. wdata = <<>> /\ fifo = <<>> /\ ~msg_write
    BY <1>2, <1>7
  <2>2. Len(fifo) = 0
    BY <2>1
  <2>3. c = stored /\ Len(c) < b
    BY <1>1, <1>2, <2>1, Zenon
  <2>4. p = 0
    BY <1>3, <2>2
  <2> QED BY <2>1, <2>2, <2>3, <2>4, Zenon
<1> HIDE DEF c
<1>8. /\ out \in Word
      /\ Len(c) >= b => out = SubSeq(c, 1, b)
      /\ Len(c) < b => out = c
  <2>1. PICK e \in Nat : e = IF Len(c) < b THEN Len(c) ELSE b
    BY <1>1, <1>2
  <2>2. e <= Len(c) /\ 1 \in Nat \ {0} /\ 1 <= e + 1
    BY <1>1, <1>2, <2>1
  <2>3. SubSeq(c, 1, e) \in Seq(Nat)
    BY <1>2, <2>2, PartOf
  <2>4. SubSeq(c, 1, Len(c)) = c
    BY <1>2, SubSeqFull
  <2>5. SubSeq(c, 1, e) \in Word
    BY <2>3, NumbersAreBytes DEF Word
  <2>6. out = SubSeq(c, 1, e)
    BY <2>1
  <2> HIDE DEF out
  <2>7. Len(c) >= b => e = b
    BY <1>1, <1>2, <2>1
  <2>8. Len(c) < b => e = Len(c)
    BY <2>1
  <2> QED BY <2>4, <2>5, <2>6, <2>7, <2>8, Zenon
<1> HIDE DEF out
<1>9. /\ stored' \in Seq(Nat) /\ Len(stored') < b
  <2>1. CASE hash_process
    <3>1. <<>> \in Seq(Nat) /\ Len(<<>>) = 0 /\ 0 < b
      BY <1>1
    <3> QED BY <1>5, <2>1, <3>1, Zenon
  <2>2. CASE ~hash_process /\ Len(c) >= b
    <3>1. b + 1 \in Nat \ {0} /\ Len(c) <= Len(c) /\ b + 1 <= Len(c) + 1 /\ Len(c) - (b + 1) + 1 < b
      BY <1>1, <1>2, <2>2, SMTT(40)
    <3>2. SubSeq(c, b + 1, Len(c)) \in Seq(Nat) /\ Len(SubSeq(c, b + 1, Len(c))) = Len(c) - (b + 1) + 1
      BY <1>2, <3>1, PartOf
    <3> QED BY <1>5, <1>6, <2>2, <3>1, <3>2, Zenon
  <2>3. CASE ~hash_process /\ ~(Len(c) >= b)
    <3>1. Len(c) < b
      BY <1>1, <1>2, <2>3
    <3> QED BY <1>2, <1>5, <1>6, <2>3, <3>1, Zenon
  <2> QED BY <2>1, <2>2, <2>3
<1>10. /\ Append(Left(p), out) \in Seq(Word) /\ Len(Append(Left(p), out)) = Len(fifo) - p + 1
  BY <1>4, <1>8, AppendProperties
<1>11. fifo' \in Seq(Word) /\ shown' \in Nat /\ Len(fifo') <= AlmostFull /\ shown' <= Len(fifo')
  <2>1. CASE valid_o
    <3>1. Len(fifo) < AlmostFull
      <4>1. CASE hash_process
        BY <1>1, <1>7, <4>1
      <4>2. CASE ~hash_process
        <5>1. Len(c) >= b
          BY <1>6, <2>1, <4>2
        <5>2. msg_write
          BY <1>1, <1>2, <5>1
        <5> QED BY <1>1, <1>2, <5>2
      <4> QED BY <4>1, <4>2
    <3>2. fifo' = Append(Left(p), out)
      BY <1>5, <2>1, Zenon
    <3>3. fifo' \in Seq(Word) /\ Len(fifo') = Len(fifo) - p + 1 /\ shown' = Len(fifo) - p
      BY <1>4, <1>5, <1>10, <3>2, Zenon
    <3>4. PICK n \in Nat : n = Len(fifo)
      BY <1>1
    <3>5. n - p + 1 <= AlmostFull /\ n - p <= n - p + 1 /\ n - p \in Nat
      BY <1>1, <1>3, <3>1, <3>4
    <3> QED BY <3>3, <3>4, <3>5, Zenon
  <2>2. CASE ~valid_o
    <3>1. fifo' = Left(p)
      BY <1>5, <2>2, Zenon
    <3>3. fifo' \in Seq(Word) /\ Len(fifo') = Len(fifo) - p /\ shown' = Len(fifo) - p
      BY <1>4, <1>5, <3>1, Zenon
    <3>4. PICK n \in Nat : n = Len(fifo)
      BY <1>1
    <3>5. n - p <= AlmostFull /\ n - p <= n - p /\ n - p \in Nat
      BY <1>1, <1>3, <3>4
    <3> QED BY <3>3, <3>4, <3>5, Zenon
  <2> QED BY <2>1, <2>2
<1>12. ASSUME ~hash_process, Len(c) >= b
       PROVE  /\ fifo' = Append(Left(p), SubSeq(c, 1, b)) /\ SubSeq(c, 1, b) \in Word
              /\ stored' = SubSeq(c, b + 1, Len(c))
  BY <1>5, <1>6, <1>8, <1>12, Zenon
<1>13. ASSUME ~hash_process, Len(c) < b PROVE fifo' = Left(p) /\ stored' = c
  <2>1. ~(Len(c) >= b)
    BY <1>1, <1>2, <1>13
  <2> QED BY <1>5, <1>6, <1>13, <2>1, Zenon
<1>14. ASSUME hash_process
       PROVE  stored' = <<>> /\ fifo' = (IF stored = <<>> THEN <<>> ELSE <<stored>>) /\ stored \in Word
  <2>0. /\ wdata = <<>> /\ c = stored /\ fifo = <<>> /\ Len(fifo) = 0 /\ Len(c) < b /\ p = 0
    BY <1>7, <1>14
  <2>1. stored' = <<>> /\ stored \in Word
    BY <1>1, <1>5, <1>14, NumbersAreBytes DEF Word
  <2>2. Left(p) = <<>>
    BY <1>4, <2>0
  <2>3. ~(Len(c) >= b)
    BY <1>1, <1>2, <2>0
  <2>4. CASE stored = <<>>
    BY <1>5, <1>6, <2>1, <2>2, <2>3, <2>4, Zenon
  <2>5. CASE stored # <<>>
    <3>1. fifo' = Append(<<>>, stored)
      BY <1>5, <1>6, <1>8, <1>14, <2>0, <2>2, <2>5, Zenon
    <3>2. fifo' = <<stored>>
      BY <3>1
    <3> QED BY <2>1, <2>5, <3>2, Zenon
  <2> QED BY <2>4, <2>5
<1> QED BY <1>3, <1>9, <1>11, <1>12, <1>13, <1>14, Zenon DEF c

(* What is appended does not change the part before it. *)
LEMMA PartKept ==
  ASSUME NEW S, NEW s \in Seq(S), NEW t \in Seq(S), NEW a \in Nat \ {0}, NEW b \in Nat, b <= Len(s)
  PROVE  SubSeq(s \o t, a, b) = SubSeq(s, a, b)
<1>1. CASE b < a
  BY <1>1, SubSeqEmpty
<1>2. CASE a <= b
  <2>1. a \in 1 .. Len(s) /\ b \in 1 .. Len(s)
    BY <1>2
  <2> QED BY <2>1, SubSeqOfConcat1
<1> QED BY <1>1, <1>2

(* What is appended is the part after it. *)
LEMMA PartAppended ==
  ASSUME NEW S, NEW s \in Seq(S), NEW t \in Seq(S)
  PROVE  SubSeq(s \o t, Len(s) + 1, Len(s \o t)) = t /\ Len(s \o t) = Len(s) + Len(t)
<1>1. Len(s) \in Nat /\ Len(t) \in Nat /\ Len(s \o t) = Len(s) + Len(t)
  BY ConcatProperties
<1>2. CASE Len(t) = 0
  <2>1. t = <<>>
    BY <1>2
  <2>2. Len(s) + 1 \in Int /\ Len(s) + Len(t) \in Int /\ Len(s) + Len(t) < Len(s) + 1
    BY <1>1, <1>2
  <2>3. SubSeq(s \o t, Len(s) + 1, Len(s) + Len(t)) = <<>>
    BY <2>2, SubSeqEmpty
  <2> QED BY <1>1, <2>1, <2>3, Zenon
<1>3. CASE Len(t) # 0
  <2>1. /\ Len(s) + 1 \in Len(s) + 1 .. Len(s) + Len(t) /\ Len(s) + Len(t) \in Len(s) + 1 .. Len(s) + Len(t)
        /\ Len(s) + 1 - Len(s) = 1 /\ Len(s) + Len(t) - Len(s) = Len(t)
    BY <1>1, <1>3
  <2>2. SubSeq(s \o t, Len(s) + 1, Len(s) + Len(t)) = SubSeq(t, 1, Len(t))
    BY <2>1, SubSeqOfConcat2
  <2>3. SubSeq(t, 1, Len(t)) = t
    BY SubSeqFull
  <2> QED BY <1>1, <2>2, <2>3, Zenon
<1> QED BY <1>2, <1>3

(* A part of what comes after the first bytes of a sequence is a part of it. *)
LEMMA PartOfTail ==
  ASSUME NEW S, NEW m \in Seq(S), NEW a \in Nat, NEW i \in Nat \ {0}, NEW j \in Nat, i <= j, a + j <= Len(m)
  PROVE  SubSeq(SubSeq(m, a + 1, Len(m)), i, j) = SubSeq(m, a + i, a + j)
<1>1. PICK n \in Nat : n = Len(m)
  OBVIOUS
<1>2. PICK t \in Seq(S) : t = SubSeq(m, a + 1, n)
  <2>1. a + 1 \in Nat \ {0} /\ n <= Len(m) /\ a + 1 <= n + 1
    BY <1>1
  <2> QED BY <2>1, PartOf
<1>a. Len(t) = n - a /\ \A k \in 1 .. n - a : t[k] = m[a + k]
  <2>1. a + 1 \in Nat \ {0} /\ n <= Len(m) /\ a + 1 <= n + 1 /\ n - (a + 1) + 1 = n - a
    BY <1>1
  <2>2. /\ Len(SubSeq(m, a + 1, n)) = n - (a + 1) + 1
        /\ \A k \in 1 .. n - (a + 1) + 1 : SubSeq(m, a + 1, n)[k] = m[(a + 1) + k - 1]
    BY <2>1, PartOf
  <2>3. \A k \in 1 .. n - a : (a + 1) + k - 1 = a + k
    OBVIOUS
  <2> QED BY <1>2, <2>1, <2>2, <2>3, Zenon
<1>3. PICK u \in Seq(S) : u = SubSeq(t, i, j)
  <2>1. j <= Len(t) /\ i <= j + 1
    BY <1>1, <1>a
  <2> QED BY <2>1, PartOf
<1>b. Len(u) = j - i + 1 /\ \A k \in 1 .. j - i + 1 : u[k] = t[i + k - 1]
  <2>1. j <= Len(t) /\ i <= j + 1
    BY <1>1, <1>a
  <2>2. Len(SubSeq(t, i, j)) = j - i + 1 /\ \A k \in 1 .. j - i + 1 : SubSeq(t, i, j)[k] = t[i + k - 1]
    BY <2>1, PartOf
  <2> QED BY <1>3, <2>2, Zenon
<1>4. PICK v \in Seq(S) : v = SubSeq(m, a + i, a + j)
  <2>1. a + i \in Nat \ {0} /\ a + j \in Nat /\ a + i <= (a + j) + 1
    OBVIOUS
  <2> QED BY <2>1, PartOf
<1>c. Len(v) = j - i + 1 /\ \A k \in 1 .. j - i + 1 : v[k] = m[a + (i + k - 1)]
  <2>1. a + i \in Nat \ {0} /\ a + j \in Nat /\ a + i <= (a + j) + 1 /\ (a + j) - (a + i) + 1 = j - i + 1
    OBVIOUS
  <2>2. /\ Len(SubSeq(m, a + i, a + j)) = (a + j) - (a + i) + 1
        /\ \A k \in 1 .. (a + j) - (a + i) + 1 : SubSeq(m, a + i, a + j)[k] = m[(a + i) + k - 1]
    BY <2>1, PartOf
  <2>3. \A k \in 1 .. j - i + 1 : (a + i) + k - 1 = a + (i + k - 1)
    OBVIOUS
  <2> QED BY <1>4, <2>1, <2>2, <2>3, Zenon
<1>5. ASSUME NEW k \in 1 .. j - i + 1 PROVE u[k] = v[k]
  <2>1. i + k - 1 \in 1 .. n - a
    BY <1>1
  <2> QED BY <1>a, <1>b, <1>c, <2>1, Zenon
<1>6. u = v
  BY <1>b, <1>c, <1>5, SeqEqual
<1> QED BY <1>1, <1>2, <1>3, <1>4, <1>6, Zenon

(* The first word of what has not gone out yet, and the rest. *)
LEMMA SplitWord ==
  ASSUME ShaAssumption, NEW m \in Seq(Nat), NEW c \in Nat, WordBytes * c + WordBytes <= Len(m),
         NEW s \in Seq(Nat), s = SubSeq(m, WordBytes * c + 1, Len(m)), Len(s) = Len(m) - WordBytes * c
  PROVE  /\ SubSeq(s, 1, WordBytes) = WordOf(m, c + 1)
         /\ SubSeq(s, WordBytes + 1, Len(s)) = SubSeq(m, WordBytes * (c + 1) + 1, Len(m))
         /\ WordBytes * (c + 1) = WordBytes * c + WordBytes
<1>1. PICK b \in Nat, n \in Nat : b = WordBytes /\ b > 1 /\ n = Len(m)
  <2>1. WordBytes \in Nat /\ WordBytes > 1
    BY DEF ShaAssumption
  <2>2. Len(m) \in Nat
    OBVIOUS
  <2> QED BY <2>1, <2>2, Zenon
<1>2. PICK a \in Nat : a = b * c /\ b * (c + 1) = a + b
  BY <1>1
<1>3. (c + 1) - 1 = c /\ b * ((c + 1) - 1) = a
  BY <1>1, <1>2
<1>4. a + b <= n /\ Len(s) = n - a /\ s = SubSeq(m, a + 1, n)
  BY <1>1, <1>2, Zenon
<1>5. 1 \in Nat \ {0} /\ 1 <= b /\ a + b <= Len(m) /\ b + 1 \in Nat \ {0} /\ a + (n - a) = n
  BY <1>1, <1>4
<1>6. SubSeq(s, 1, b) = SubSeq(m, a + 1, a + b)
  <2>1. SubSeq(SubSeq(m, a + 1, Len(m)), 1, b) = SubSeq(m, a + 1, a + b)
    BY <1>5, PartOfTail
  <2> QED BY <1>1, <1>4, <2>1, Zenon
<1>7. SubSeq(s, b + 1, n - a) = SubSeq(m, a + b + 1, n)
  <2>1. CASE b < n - a
    <3>1. n - a \in Nat /\ b + 1 <= n - a /\ a + (n - a) <= n /\ a + (b + 1) = a + b + 1
      BY <1>4, <2>1
    <3>2. SubSeq(SubSeq(m, a + 1, Len(m)), b + 1, n - a) = SubSeq(m, a + (b + 1), a + (n - a))
      <4>1. a + (n - a) <= Len(m)
        BY <1>1, <3>1, Zenon
      <4>2. PICK j \in Nat : j = n - a
        BY <3>1
      <4>3. b + 1 <= j /\ a + j <= Len(m)
        BY <3>1, <4>1, <4>2, Zenon
      <4>4. SubSeq(SubSeq(m, a + 1, Len(m)), b + 1, j) = SubSeq(m, a + (b + 1), a + j)
        <5>1. PICK i \in Nat \ {0} : i = b + 1
          BY <1>5
        <5>2. i <= j
          BY <4>3, <5>1, Zenon
        <5>3. SubSeq(SubSeq(m, a + 1, Len(m)), i, j) = SubSeq(m, a + i, a + j)
          BY <4>3, <5>2, PartOfTail
        <5> QED BY <5>1, <5>3, Zenon
      <4> QED BY <4>2, <4>4, Zenon
    <3> QED BY <1>1, <1>4, <1>5, <3>1, <3>2, Zenon
  <2>2. CASE ~(b < n - a)
    <3>1. b + 1 \in Int /\ n - a \in Int /\ n - a < b + 1 /\ a + b + 1 \in Int /\ n \in Int /\ n < a + b + 1
      BY <1>1, <1>4, <2>2
    <3>2. SubSeq(s, b + 1, n - a) = <<>> /\ SubSeq(m, a + b + 1, n) = <<>>
      BY <3>1, SubSeqEmpty
    <3> QED BY <3>2, Zenon
  <2> QED BY <2>1, <2>2
<1>8. WordOf(m, c + 1) = SubSeq(m, a + 1, a + b)
  <2>1. WordOf(m, c + 1) = SubSeq(m, WordBytes * ((c + 1) - 1) + 1, WordBytes * (c + 1))
    BY Zenon DEF WordOf
  <2> QED BY <1>1, <1>2, <1>3, <2>1, Zenon
<1> QED BY <1>1, <1>2, <1>3, <1>4, <1>6, <1>7, <1>8, Zenon

(* A word of the message stays while the message grows. *)
LEMMA WordOfGrown ==
  ASSUME ShaAssumption, NEW m \in Seq(Nat), NEW x \in Seq(Nat), NEW k \in Nat \ {0}, WordBytes * k <= Len(m)
  PROVE  WordOf(m \o x, k) = WordOf(m, k)
<1>1. WordBytes * (k - 1) \in Nat /\ WordBytes * k \in Nat
  <2>1. k \in 1 .. k
    OBVIOUS
  <2> QED BY <2>1, PlacesOfWord
<1>2. WordBytes * (k - 1) + 1 \in Nat \ {0}
  BY <1>1
<1> QED BY <1>1, <1>2, PartKept, ZenonT(60) DEF WordOf

MachineNext == Frozen /\ Packer /\ Length /\ Fifo(fifo_rready) /\ Pad /\ Fetch /\ Compress

\* What software does to a message: it adds to it when the bus is free, or rests.
Rests == wdata' = <<>> /\ message' = message
Bus == /\ wdata' \in Seq(Nat) /\ Len(wdata') <= WordBytes
       /\ wdata' # <<>> => wdata = <<>> /\ Len(fifo) < AlmostFull /\ ~hash_process
Grows == Bus /\ message' = message \o Ordered(wdata', control_latch)

(* A bus that rests has room for everything. *)
LEMMA RestingBus ==
  ASSUME ShaAssumption, wdata' = <<>>
  PROVE  Bus
<1>1. <<>> \in Seq(Nat) /\ Len(<<>>) = 0 /\ 0 <= WordBytes
  BY DEF ShaAssumption
<1> QED BY <1>1, Zenon DEF Bus

(* To rest is to add nothing. *)
LEMMA RestsGrows ==
  ASSUME ShaAssumption, ShaTyped, Rests
  PROVE  Grows
<1>1. <<>> \in Seq(Nat) /\ Len(<<>>) = 0 /\ WordBytes \in Nat /\ message \in Seq(Nat)
  BY DEF ShaAssumption, ShaTyped, SoftTyped
<1>2. Ordered(<<>>, control_latch) = <<>> /\ message \o <<>> = message
  BY <1>1, OrderedProperties, ConcatEmptySeq
<1>3. Bus
  BY RestingBus DEF Rests
<1> QED BY <1>2, <1>3, Zenon DEF Rests, Grows

(* The padding machine takes a word from the FIFO or does not. *)
LEMMA ReadyIsBoolean ==
  ASSUME ShaTyped
  PROVE  fifo_rready \in BOOLEAN
<1>1. hash_process_flag \in BOOLEAN /\ shaf_rready \in BOOLEAN /\ partial \in BOOLEAN
  BY DEF ShaTyped, MachineTyped, shaf_rready, partial, update_w_from_fifo
<1> QED BY <1>1 DEF fifo_rready

(* The machines keep their types, the engine its order and the FIFO its room. *)
LEMMA GenericStep ==
  ASSUME ShaAssumption, ShaTyped, Engine, Room, MachineNext, Bus,
         update_w_from_fifo => shaf_rdata \in Word,
         hash_process => fifo = <<>> /\ wdata = <<>>
  PROVE  /\ MachineTyped' /\ Engine' /\ Room'
         /\ wdata = <<>> /\ ~hash_process => \E p \in {0, 1} : p <= Len(fifo) /\ fifo' = Left(p) /\ stored' = stored
<1>1. MachineTyped /\ Len(fifo) \in Nat /\ WordBytes \in Nat /\ wdata \in Seq(Nat) /\ Len(stored) \in Nat
  BY DEF ShaAssumption, ShaTyped, MachineTyped, SoftTyped
<1>2. /\ fifo_st' \in {"FifoIdle", "FifoLoadFromFifo", "FifoWait"}
      /\ sha_st' \in {"ShaIdle", "ShaCompress", "ShaUpdateDigest"}
      /\ round' \in 0 .. NumRound - 1 /\ hash_done' \in BOOLEAN
      /\ w' \in Seq(Word) /\ hash' \in Seq(Word) /\ digest' \in Seq(Word) /\ Engine'
  BY EngineStep DEF MachineNext
<1>3. fifo_rready \in BOOLEAN
  BY ReadyIsBoolean
<1>4. PICK p \in {0, 1} : p = IF fifo_rready /\ fifo_rvalid THEN 1 ELSE 0
  OBVIOUS
<1>5. /\ stored' \in Seq(Nat) /\ fifo' \in Seq(Word) /\ shown' \in Nat
      /\ Len(stored') < WordBytes /\ Len(fifo') <= AlmostFull /\ shown' <= Len(fifo')
      /\ p <= Len(fifo)
      /\ ~hash_process /\ Len(concat) < WordBytes => fifo' = Left(p) /\ stored' = concat
  <2>1. p \in Nat /\ Packer /\ Fifo(fifo_rready)
    BY DEF MachineNext
  <2> QED BY <1>3, <1>4, <2>1, PackerStep, SMTT(60)
<1>6. ASSUME wdata = <<>>, ~hash_process PROVE fifo' = Left(p) /\ stored' = stored
  <2>1. ~msg_write
    BY <1>6 DEF msg_write
  <2>2. concat = stored /\ Len(concat) < WordBytes
    BY <2>1, ConcatIs, Zenon DEF Room
  <2> QED BY <1>5, <1>6, <2>2, Zenon
<1>7. /\ cfg_block' \in BOOLEAN /\ msg_allowed' \in BOOLEAN /\ hash_process_flag' \in BOOLEAN
  BY DEF MachineNext, Frozen, Length, Pad
<1>8. message_length' \in Nat /\ tx_count' \in Nat
  <2>1. msg_write => Len(msg_data) \in Nat
    BY <1>1, Committed DEF msg_write
  <2> QED BY <1>1, <2>1 DEF MachineNext, Length, Pad, MachineTyped
<1>9. pad_st' \in {"StIdle", "StFifoReceive", "StPad80", "StPad00", "StLenHi", "StLenLo"}
  BY <1>1, Zenon DEF MachineNext, Pad, PadNext, AfterPad, MachineTyped
<1>10. MachineTyped'
  BY <1>2, <1>5, <1>7, <1>8, <1>9, Zenon DEF MachineTyped
<1>11. wdata' # <<>> => Len(fifo') < AlmostFull
  <2>1. ASSUME wdata' # <<>> PROVE Len(fifo') < AlmostFull
    <3>1. wdata = <<>> /\ Len(fifo) < AlmostFull /\ ~hash_process
      BY <2>1 DEF Bus
    <3>2. p \in Nat
      OBVIOUS
    <3>3. fifo' = Left(p) /\ Len(Left(p)) = Len(fifo) - p
      BY <1>5, <1>6, <3>1, <3>2, LeftProperties
    <3> QED BY <1>1, <3>1, <3>2, <3>3 DEF ShaAssumption
  <2> QED BY <2>1
<1>12. Room'
  BY <1>5, <1>11, Zenon DEF Room, Bus
<1> QED BY <1>2, <1>5, <1>6, <1>10, <1>12, Zenon

(* What the engine is shown is a word, in each phase. *)
LEMMA NothingRead ==
  ASSUME fifo_st # "FifoLoadFromFifo" \/ ~shaf_rvalid
  PROVE  ~update_w_from_fifo
BY DEF update_w_from_fifo

(* Nothing is left of an empty FIFO. *)
LEMMA NothingLeft ==
  ASSUME ShaTyped, fifo = <<>>, NEW p \in {0, 1}, p <= Len(fifo)
  PROVE  Left(p) = <<>>
<1>1. Len(fifo) = 0 /\ p \in Nat
  OBVIOUS
<1>2. p = 0
  BY <1>1
<1>3. Left(p) \in Seq(Word) /\ Len(Left(p)) = Len(fifo) - p
  BY <1>1, LeftProperties
<1>4. Len(Left(p)) = 0
  BY <1>1, <1>2, <1>3
<1> QED BY <1>3, <1>4

(* Without a message nothing happens until a start arrives. *)
LEMMA QuietStays ==
  ASSUME ShaAssumption, ShaTyped, Engine, Room, Quiet, ~hash_start, ~hash_process, MachineNext, wdata' = <<>>
  PROVE  MachineTyped' /\ Engine' /\ Room' /\ Quiet' /\ digest' = digest
<1>1. ~update_w_from_fifo
  BY NothingRead DEF Quiet
<1>2. Bus
  BY RestingBus
<1>3. /\ MachineTyped' /\ Engine' /\ Room'
      /\ wdata = <<>> => \E p \in {0, 1} : p <= Len(fifo) /\ fifo' = Left(p) /\ stored' = stored
  BY <1>1, <1>2, GenericStep
<1>4. fifo' = <<>> /\ stored' = <<>>
  <2>1. PICK p \in {0, 1} : p <= Len(fifo) /\ fifo' = Left(p) /\ stored' = stored
    BY <1>3 DEF Quiet
  <2>2. Left(p) = <<>>
    BY <2>1, NothingLeft DEF Quiet
  <2> QED BY <2>1, <2>2, Zenon DEF Quiet
<1>5. pad_st' = "StIdle" /\ ~hash_process_flag' /\ ~msg_allowed'
  BY DEF MachineNext, Pad, PadNext, Length, Quiet
<1>6. fifo_st' = "FifoIdle" /\ ~hash_done'
  BY DEF MachineNext, Fetch, Quiet
<1>7. sha_st' = "ShaIdle" /\ digest' = digest
  BY DEF MachineNext, Compress, Quiet, run_hash
<1> QED BY <1>3, <1>4, <1>5, <1>6, <1>7 DEF Quiet

(* A start opens an empty message. *)
LEMMA QuietStarts ==
  ASSUME ShaAssumption, ShaTyped, Engine, Room, Quiet, hash_start, ~hash_process, MachineNext, Latch, Rests, message = <<>>
  PROVE  MachineTyped' /\ Engine' /\ Room' /\ Receiving'
<1>1. ~update_w_from_fifo
  BY NothingRead DEF Quiet
<1>2. Bus
  BY RestingBus DEF Rests
<1>3. /\ MachineTyped' /\ Engine' /\ Room'
      /\ wdata = <<>> => \E p \in {0, 1} : p <= Len(fifo) /\ fifo' = Left(p) /\ stored' = stored
  BY <1>1, <1>2, GenericStep
<1>4. fifo' = <<>> /\ stored' = <<>> /\ Len(fifo') = 0 /\ Len(stored') = 0
  <2>1. PICK p \in {0, 1} : p <= Len(fifo) /\ fifo' = Left(p) /\ stored' = stored
    BY <1>3 DEF Quiet
  <2>2. Left(p) = <<>>
    BY <2>1, NothingLeft DEF Quiet
  <2>3. Len(<<>>) = 0
    OBVIOUS
  <2> QED BY <2>1, <2>2, <2>3, Zenon DEF Quiet
<1>5. pad_st' = "StFifoReceive" /\ ~hash_process_flag' /\ msg_allowed' /\ tx_count' = 0 /\ message_length' = 0 /\ cfg_block'
  BY DEF MachineNext, Pad, PadNext, Length, Frozen, Quiet
<1>6. fifo_st' # "FifoIdle" /\ ~hash_done' /\ w' = <<>>
  <2>1. fifo_st' # "FifoIdle" /\ ~hash_done'
    BY DEF MachineNext, Fetch, Quiet
  <2>2. w' = w
    BY <1>1, Zenon DEF MachineNext, Fetch, Quiet, run_hash
  <2> QED BY <2>1, <2>2 DEF Engine, Quiet
<1>7. sha_st' = "ShaIdle" /\ digest' = <<>>
  BY DEF MachineNext, Compress, Quiet, run_hash
<1>8. Sent' = <<>> /\ Len(Sent') = 0
  <2>1. <<>> \in Seq(Word) /\ Len(<<>>) = 0
    OBVIOUS
  <2>2. <<>> \o <<>> = <<>>
    BY <2>1, ConcatEmptySeq
  <2>3. Sent' = digest' \o w'
    BY <1>7 DEF Sent
  <2> QED BY <1>6, <1>7, <2>1, <2>2, <2>3, Zenon
<1>9. /\ wdata' = <<>> /\ Len(wdata') = 0 /\ message' = <<>> /\ Len(message') = 0
  <2>1. wdata' = <<>> /\ message' = <<>>
    BY DEF Rests
  <2> QED BY <2>1
<1>10. WordBytes * (0 + 0) + 0 = 0 /\ WordBytes * (0 + 0) + 1 = 1
  BY DEF ShaAssumption
<1>11. \A x : Ordered(<<>>, x) = <<>>
  <2>1. <<>> \in Seq(Nat)
    OBVIOUS
  <2> QED BY <2>1, OrderedProperties, Zenon
<1>12. SubSeq(<<>>, 0 + 1, 0) = <<>> /\ SubSeq(<<>>, 1, 0) = <<>>
  <2>1. 0 + 1 \in Int /\ 0 \in Int /\ 0 < 0 + 1 /\ 1 \in Int /\ 0 < 1
    OBVIOUS
  <2> QED BY <2>1, SubSeqEmpty
<1>13. \A k \in 1 .. 0 : FALSE
  OBVIOUS
<1>14. Ordered(wdata', control_latch') = SubSeq(message', message_length' + 1, Len(message'))
  BY <1>5, <1>9, <1>11, <1>12
<1>15. /\ WordBytes * (tx_count' + Len(fifo')) + Len(stored') = message_length'
       /\ stored' = SubSeq(message', WordBytes * (tx_count' + Len(fifo')) + 1, message_length')
  BY <1>4, <1>5, <1>9, <1>10, <1>12
<1>16. message_length' + Len(wdata') = Len(message')
  BY <1>5, <1>9
<1>17. /\ \A k \in 1 .. Len(fifo') : fifo'[k] = WordOf(message', tx_count' + k)
       /\ Len(Sent') = tx_count'
       /\ \A k \in 1 .. tx_count' : Sent'[k] = WordOf(message', k)
  BY <1>4, <1>5, <1>8, <1>13, Zenon
<1>18. Receiving'
  BY <1>5, <1>6, <1>14, <1>15, <1>16, <1>17, Zenon DEF Receiving
<1> QED BY <1>3, <1>18

(* The last block is added, and what was compressed is the padded message. *)
LEMMA AddingEnds ==
  ASSUME ShaAssumption, ShaTyped, Engine, Room, Adding, ~hash_start, ~hash_process, MachineNext, Rests
  PROVE  MachineTyped' /\ Engine' /\ Room' /\ Digested'
<1>1. ~update_w_from_fifo
  BY NothingRead DEF Adding
<1>2. Bus
  BY RestingBus DEF Rests
<1>3. /\ MachineTyped' /\ Engine' /\ Room'
      /\ wdata = <<>> => \E p \in {0, 1} : p <= Len(fifo) /\ fifo' = Left(p) /\ stored' = stored
  BY <1>1, <1>2, GenericStep
<1>4. fifo' = <<>> /\ stored' = <<>>
  <2>1. PICK p \in {0, 1} : p <= Len(fifo) /\ fifo' = Left(p) /\ stored' = stored
    BY <1>3 DEF Adding
  <2>2. Left(p) = <<>>
    BY <2>1, NothingLeft DEF Adding
  <2> QED BY <2>1, <2>2, Zenon DEF Adding
<1>5. pad_st' = "StIdle" /\ ~hash_process_flag' /\ ~msg_allowed'
  BY DEF MachineNext, Pad, PadNext, Length, Adding
<1>6. fifo_st' = "FifoIdle" /\ ~hash_done'
  BY DEF MachineNext, Fetch, Adding
<1>7. sha_st' = "ShaIdle" /\ digest' = digest \o hash
  BY DEF MachineNext, Compress, Adding, run_hash
<1>8. message' = message /\ wdata' = <<>>
  BY DEF Rests
<1>9. digest' = Padded(message')
  BY <1>7, <1>8, Zenon DEF Adding
<1> QED BY <1>3, <1>4, <1>5, <1>6, <1>7, <1>8, <1>9 DEF Quiet, Digested

(* While a message is received the engine takes the first word of the FIFO. *)
LEMMA ReceivingReads ==
  ASSUME ShaTyped, Room, Receiving
  PROVE  /\ update_w_from_fifo => Len(fifo) > 0 /\ shaf_rdata = fifo[1] /\ shaf_rdata \in Word
         /\ fifo_rready /\ fifo_rvalid <=> update_w_from_fifo
<1>1. pad_st = "StFifoReceive" /\ ~hash_process_flag
  BY DEF Receiving
<1>2. /\ shaf_rvalid <=> fifo_rvalid
      /\ fifo_rready <=> update_w_from_fifo
      /\ shaf_rdata = Head(fifo)
  BY <1>1, PadSignals DEF shaf_rready
<1>3. update_w_from_fifo => fifo_rvalid
  BY <1>2 DEF update_w_from_fifo
<1>4. fifo_rvalid => Len(fifo) > 0 /\ Head(fifo) = fifo[1] /\ fifo[1] \in Word
  BY DEF ShaTyped, MachineTyped, Room, fifo_rvalid
<1> QED BY <1>2, <1>3, <1>4, Zenon

\* The bytes that have gone out of the packer.
Gone == WordBytes * (tx_count + Len(fifo))

(* While a message is received the packer has what comes after those.      *)
LEMMA ReceivingConcat ==
  ASSUME ShaAssumption, ShaTyped, Receiving
  PROVE  /\ Gone \in Nat /\ tx_count + Len(fifo) \in Nat
         /\ Gone + Len(stored) = message_length /\ message_length <= Len(message) /\ Gone <= Len(message)
         /\ concat = SubSeq(message, Gone + 1, Len(message)) /\ Len(concat) = Len(message) - Gone
         /\ Length /\ ~hash_start => message_length' = Len(message)
         /\ wdata = <<>> => message_length = Len(message)
<1>1. /\ tx_count \in Nat /\ Len(fifo) \in Nat /\ message_length \in Nat /\ message \in Seq(Nat) /\ Len(message) \in Nat
      /\ stored \in Seq(Nat) /\ Len(stored) \in Nat /\ wdata \in Seq(Nat) /\ Len(wdata) \in Nat /\ WordBytes \in Nat
  BY DEF ShaAssumption, ShaTyped, SoftTyped, MachineTyped
<1>2. tx_count + Len(fifo) \in Nat /\ Gone \in Nat
  BY <1>1 DEF Gone
<1>3. /\ message_length + Len(wdata) = Len(message) /\ Gone + Len(stored) = message_length
      /\ Ordered(wdata, control_latch) = SubSeq(message, message_length + 1, Len(message))
      /\ stored = SubSeq(message, Gone + 1, message_length)
      /\ msg_allowed
  BY Zenon DEF Receiving, Gone
<1>4. message_length <= Len(message) /\ Gone <= message_length /\ Gone <= Len(message)
  BY <1>1, <1>2, <1>3
<1>5. wdata = <<>> => message_length = Len(message)
  <2>1. ASSUME wdata = <<>> PROVE Len(wdata) = 0
    BY <2>1
  <2> QED BY <1>1, <1>3, <2>1
<1>6. msg_write <=> wdata # <<>>
  BY <1>3 DEF msg_write
<1>7. /\ concat \in Seq(Nat) /\ Len(concat) = Len(stored) + (IF msg_write THEN Len(wdata) ELSE 0)
      /\ msg_write => concat = stored \o Ordered(wdata, control_latch)
      /\ ~msg_write => concat = stored
  BY ConcatIs
<1>8. CASE msg_write
  <2>1. Gone + 1 \in 1 .. Len(message) + 1 /\ message_length \in (Gone + 1) - 1 .. Len(message) /\ Len(message) \in message_length .. Len(message)
    BY <1>1, <1>2, <1>4
  <2>2. SubSeq(message, Gone + 1, message_length) \o SubSeq(message, message_length + 1, Len(message)) = SubSeq(message, Gone + 1, Len(message))
    BY <1>1, <2>1, ConcatAdjacentSubSeq
  <2>3. Len(stored) + Len(wdata) = Len(message) - Gone
    <3>1. PICK g \in Nat, a \in Nat, b \in Nat, c \in Nat, d \in Nat :
            g = Gone /\ a = Len(stored) /\ b = message_length /\ c = Len(wdata) /\ d = Len(message)
      BY <1>1, <1>2, Zenon
    <3>2. g + a = b /\ b + c = d
      BY <1>3, <3>1, Zenon
    <3>3. a + c = d - g
      BY <3>2
    <3> QED BY <3>1, <3>3, Zenon
  <2>4. concat = SubSeq(message, Gone + 1, Len(message)) /\ Len(concat) = Len(message) - Gone
    BY <1>3, <1>7, <1>8, <2>2, <2>3, Zenon
  <2>5. Length /\ ~hash_start => message_length' = Len(message)
    BY <1>3, <1>8, Committed DEF Length, msg_write
  <2> QED BY <1>2, <1>3, <1>4, <1>5, <2>4, <2>5
<1>9. CASE ~msg_write
  <2>1. message_length = Len(message)
    BY <1>5, <1>6, <1>9
  <2>2. Len(stored) + 0 = Len(message) - Gone
    BY <1>1, <1>2, <1>3, <2>1
  <2>3. concat = SubSeq(message, Gone + 1, Len(message)) /\ Len(concat) = Len(message) - Gone
    BY <1>3, <1>7, <1>9, <2>1, <2>2, Zenon
  <2>4. Length /\ ~hash_start => message_length' = Len(message)
    BY <1>9, <2>1 DEF Length
  <2> QED BY <1>2, <1>3, <1>4, <1>5, <2>3, <2>4
<1> QED BY <1>8, <1>9

(* A word that has gone out lies within the message. *)
LEMMA GoneWords ==
  ASSUME ShaAssumption, ShaTyped, Receiving, NEW k \in 1 .. tx_count + Len(fifo)
  PROVE  k \in Nat \ {0} /\ WordBytes * k \in Nat /\ WordBytes * k <= Len(message)
<1>1. Gone \in Nat /\ Gone <= Len(message) /\ tx_count + Len(fifo) \in Nat
  BY ReceivingConcat
<1>2. PICK q \in Nat : q = tx_count + Len(fifo)
  BY <1>1
<1>3. k \in Nat /\ WordBytes * k \in Nat /\ WordBytes * k <= WordBytes * q
  BY <1>2, PlacesOfWord
<1>4. WordBytes * q = Gone /\ Len(message) \in Nat
  BY <1>2 DEF Gone, ShaTyped, SoftTyped
<1>5. k # 0
  BY <1>2
<1> QED BY <1>1, <1>3, <1>4, <1>5

(* The words taken so far, with the one that is taken now. *)
LEMMA SentGrows ==
  ASSUME ShaTyped, NEW s \in Seq(Word), s = Taken, NEW p \in {0, 1}, p = IF update_w_from_fifo THEN 1 ELSE 0,
         update_w_from_fifo => shaf_rdata \in Word, Len(Sent) = tx_count
  PROVE  /\ Len(s) = tx_count + p
         /\ \A k \in 1 .. tx_count : s[k] = Sent[k]
         /\ update_w_from_fifo => s[tx_count + 1] = shaf_rdata
<1>1. Sent \in Seq(Word) /\ tx_count \in Nat
  BY DEF ShaTyped, MachineTyped, Sent
<1>2. CASE update_w_from_fifo
  <2>1. s = Append(Sent, shaf_rdata)
    BY <1>2 DEF Taken
  <2>2. /\ Len(Append(Sent, shaf_rdata)) = Len(Sent) + 1
        /\ \A i \in 1 .. Len(Sent) : Append(Sent, shaf_rdata)[i] = Sent[i]
        /\ Append(Sent, shaf_rdata)[Len(Sent) + 1] = shaf_rdata
    BY <1>1, <1>2, AppendProperties
  <2> QED BY <1>2, <2>1, <2>2, Zenon
<1>3. CASE ~update_w_from_fifo
  <2>1. s = Sent /\ p = 0
    BY <1>3 DEF Taken
  <2> QED BY <1>1, <1>3, <2>1
<1> QED BY <1>2, <1>3

(* While a message is received, each byte is in one place, in order.       *)
LEMMA ReceivingStays ==
  ASSUME ShaAssumption, ShaTyped, Engine, Room, Receiving, ~hash_start, ~hash_process, Latch, MachineNext, Grows
  PROVE  /\ MachineTyped' /\ Engine' /\ Room' /\ Receiving'
         /\ fifo = <<>> /\ wdata = <<>> => fifo' = <<>>
<1> DEFINE u == update_w_from_fifo
           m == message
           x == Ordered(wdata', control_latch)
<1>1. /\ tx_count \in Nat /\ fifo \in Seq(Word) /\ Len(fifo) \in Nat /\ m \in Seq(Nat) /\ Len(m) \in Nat
      /\ Len(stored) \in Nat /\ WordBytes \in Nat /\ WordBytes > 1 /\ control_latch \in BOOLEAN
  BY DEF ShaAssumption, ShaTyped, SoftTyped, MachineTyped
<1>2. /\ u => Len(fifo) > 0 /\ shaf_rdata = fifo[1] /\ shaf_rdata \in Word
      /\ fifo_rready /\ fifo_rvalid <=> u
      /\ u \in BOOLEAN
  BY ReceivingReads DEF update_w_from_fifo
<1>3. x \in Seq(Nat) /\ Len(x) = Len(wdata') /\ m \o x \in Seq(Nat) /\ message' = m \o x /\ wdata' \in Seq(Nat)
  <2>1. wdata' \in Seq(Nat) /\ message' = m \o x
    BY DEF Grows, Bus
  <2>2. x \in Seq(Nat) /\ Len(x) = Len(wdata')
    BY <2>1, OrderedProperties
  <2> HIDE DEF x
  <2>3. m \o x \in Seq(Nat)
    BY <1>1, <2>2, ConcatProperties
  <2> QED BY <2>1, <2>2, <2>3
<1> HIDE DEF u
<1>4. MachineTyped' /\ Engine' /\ Room'
  <2>1. Bus
    BY DEF Grows
  <2> QED BY <1>2, <2>1, GenericStep DEF u
<1>5. /\ Gone \in Nat /\ Gone <= Len(m) /\ Len(concat) = Len(m) - Gone /\ concat = SubSeq(m, Gone + 1, Len(m))
      /\ message_length' = Len(m) /\ concat \in Seq(Nat)
  BY ReceivingConcat, ConcatIs DEF MachineNext
<1>6. PICK p \in {0, 1} : p = IF u THEN 1 ELSE 0
  OBVIOUS
<1>7. /\ p <= Len(fifo)
      /\ Len(concat) >= WordBytes =>
              /\ fifo' = Append(Left(p), SubSeq(concat, 1, WordBytes))
              /\ SubSeq(concat, 1, WordBytes) \in Word
              /\ stored' = SubSeq(concat, WordBytes + 1, Len(concat))
      /\ Len(concat) < WordBytes => fifo' = Left(p) /\ stored' = concat
  <2>1. p \in Nat /\ Packer /\ Fifo(fifo_rready) /\ p = IF fifo_rready /\ fifo_rvalid THEN 1 ELSE 0
    BY <1>2, <1>6 DEF MachineNext
  <2>2. fifo_rready \in BOOLEAN
    BY ReadyIsBoolean
  <2> QED BY <2>1, <2>2, PackerStep
<1>8. /\ Left(p) \in Seq(Word) /\ Len(Left(p)) = Len(fifo) - p /\ Len(fifo) - p \in Nat
      /\ \A k \in 1 .. Len(fifo) - p : Left(p)[k] = fifo[p + k]
  <2>1. p \in Nat
    OBVIOUS
  <2> QED BY <1>7, <2>1, LeftProperties
<1>9. tx_count' = tx_count + p
  <2>1. tx_count' = IF u THEN tx_count + 1 ELSE tx_count
    BY Zenon DEF MachineNext, Pad, shaf_rready, u
  <2> QED BY <1>1, <1>6, <2>1
<1>10. /\ pad_st' = "StFifoReceive" /\ ~hash_process_flag' /\ msg_allowed' /\ cfg_block'
  BY DEF MachineNext, Pad, PadNext, Length, Frozen, Receiving
<1>11. fifo_st' # "FifoIdle" /\ ~hash_done' /\ Sent' = Taken
  <2>1. /\ Sent' = Taken
        /\ fifo_st' = "FifoIdle" <=> hash_done'
        /\ hash_done' => msg_feed_complete
    BY <1>2, EngineStep DEF MachineNext, Receiving, u
  <2>2. ~msg_feed_complete
    BY DEF msg_feed_complete, Receiving
  <2> QED BY <2>1, <2>2, Zenon
<1>12. control_latch' = control_latch
  BY DEF Latch, Receiving
<1>13. ASSUME NEW k \in 1 .. tx_count + Len(fifo)
       PROVE  WordOf(message', k) = WordOf(m, k)
  BY <1>1, <1>3, GoneWords, WordOfGrown
<1>14. /\ Len(Sent') = tx_count' /\ \A k \in 1 .. tx_count' : Sent'[k] = WordOf(message', k)
  <2>1. Sent' \in Seq(Word)
    BY <1>4 DEF MachineTyped, Sent
  <2>2. /\ Len(Sent) = tx_count /\ (\A k \in 1 .. tx_count : Sent[k] = WordOf(m, k))
        /\ \A k \in 1 .. Len(fifo) : fifo[k] = WordOf(m, tx_count + k)
    BY DEF Receiving
  <2>3. /\ Len(Sent') = tx_count + p
        /\ \A k \in 1 .. tx_count : Sent'[k] = Sent[k]
        /\ u => Sent'[tx_count + 1] = shaf_rdata
    <3>1. PICK s \in Seq(Word) : s = Sent' /\ s = Taken
      BY <1>11, <2>1
    <3>2. /\ Len(s) = tx_count + p
          /\ \A k \in 1 .. tx_count : s[k] = Sent[k]
          /\ u => s[tx_count + 1] = shaf_rdata
      BY <1>2, <1>6, <2>2, <3>1, SentGrows DEF u
    <3> QED BY <3>1, <3>2, Zenon
  <2>4. ASSUME NEW k \in 1 .. tx_count + p PROVE Sent'[k] = WordOf(message', k)
    <3>0. k \in 1 .. tx_count + Len(fifo)
      BY <1>1, <1>7
    <3>1. CASE k <= tx_count
      <4>1. k \in 1 .. tx_count
        BY <1>1, <3>1
      <4> QED BY <1>13, <2>2, <2>3, <3>0, <4>1, Zenon
    <3>2. CASE ~(k <= tx_count)
      <4>1. p = 1 /\ k = tx_count + 1
        BY <1>1, <3>2
      <4>2. u
        BY <1>6, <4>1
      <4>3. 1 \in 1 .. Len(fifo)
        BY <1>1, <1>2, <4>2
      <4>4. Sent'[k] = WordOf(m, tx_count + 1)
        BY <1>2, <2>2, <2>3, <4>1, <4>2, <4>3, Zenon
      <4> QED BY <1>13, <3>0, <4>1, <4>4, Zenon
    <3> QED BY <3>1, <3>2
  <2> QED BY <1>9, <2>3, <2>4, Zenon
<1>15. /\ message_length' + Len(wdata') = Len(message')
       /\ Ordered(wdata', control_latch') = SubSeq(message', message_length' + 1, Len(message'))
  <2> HIDE DEF x, m
  <2>1. SubSeq(m \o x, Len(m) + 1, Len(m \o x)) = x /\ Len(m \o x) = Len(m) + Len(x)
    BY <1>1, <1>3, PartAppended
  <2>2. Ordered(wdata', control_latch') = x
    BY <1>12 DEF x
  <2> QED BY <1>3, <1>5, <2>1, <2>2, Zenon
<1>16. \A k \in 1 .. Len(fifo) - p : Left(p)[k] = WordOf(message', (tx_count + p) + k)
  <2>1. ASSUME NEW k \in 1 .. Len(fifo) - p PROVE Left(p)[k] = WordOf(message', (tx_count + p) + k)
    <3>1. /\ p + k \in 1 .. Len(fifo) /\ tx_count + (p + k) = (tx_count + p) + k
          /\ (tx_count + p) + k \in 1 .. tx_count + Len(fifo)
      <4>1. PICK n \in Nat, t \in Nat : n = Len(fifo) /\ t = tx_count
        BY <1>1
      <4>2. /\ p + k \in 1 .. n /\ t + (p + k) = (t + p) + k
            /\ (t + p) + k \in 1 .. t + n
        BY <4>1
      <4> QED BY <4>1, <4>2, Zenon
    <3>2. fifo[p + k] = WordOf(m, tx_count + (p + k))
      BY <3>1 DEF Receiving
    <3> QED BY <1>8, <1>13, <3>1, <3>2, Zenon
  <2> QED BY <2>1
<1>17. /\ \A k \in 1 .. Len(fifo') : fifo'[k] = WordOf(message', tx_count' + k)
       /\ WordBytes * (tx_count' + Len(fifo')) + Len(stored') = message_length'
       /\ stored' = SubSeq(message', WordBytes * (tx_count' + Len(fifo')) + 1, message_length')
  <2>0. SubSeq(message', Gone + 1, Len(m)) = SubSeq(m, Gone + 1, Len(m)) /\ Gone + 1 \in Nat \ {0}
    <3>1. Gone + 1 \in Nat \ {0} /\ Len(m) <= Len(m)
      BY <1>1, <1>5
    <3> HIDE DEF x, m
    <3> QED BY <1>1, <1>3, <3>1, PartKept, ZenonT(60)
  <2>1. CASE Len(concat) < WordBytes
    <3>1. fifo' = Left(p) /\ stored' = concat
      BY <1>7, <2>1, Zenon
    <3>2. Len(fifo') = Len(fifo) - p /\ (tx_count + p) + (Len(fifo) - p) = tx_count + Len(fifo)
      <4>1. (tx_count + p) + (Len(fifo) - p) = tx_count + Len(fifo)
        BY <1>1
      <4> QED BY <1>8, <3>1, <4>1, Zenon
    <3>3. WordBytes * (tx_count' + Len(fifo')) = Gone
      BY <1>9, <3>2, Zenon DEF Gone
    <3>4. Gone + (Len(m) - Gone) = Len(m)
      BY <1>1, <1>5
    <3> QED BY <1>5, <1>9, <1>16, <2>0, <3>1, <3>2, <3>3, <3>4, Zenon
  <2>2. CASE Len(concat) >= WordBytes
    <3>0. PICK c \in Nat, o \in Seq(Nat) : c = tx_count + Len(fifo) /\ o = concat
      <4>1. tx_count + Len(fifo) \in Nat
        BY <1>1
      <4> QED BY <1>5, <4>1, Zenon
    <3>1. PICK d \in Word : d = SubSeq(o, 1, WordBytes) /\ fifo' = Append(Left(p), d) /\ stored' = SubSeq(o, WordBytes + 1, Len(o))
      BY <1>7, <2>2, <3>0, Zenon
    <3>2. /\ SubSeq(o, 1, WordBytes) = WordOf(m, c + 1)
          /\ SubSeq(o, WordBytes + 1, Len(o)) = SubSeq(m, WordBytes * (c + 1) + 1, Len(m))
          /\ WordBytes * (c + 1) = Gone + WordBytes
      <4>1. Gone = WordBytes * c
        BY <3>0, Zenon DEF Gone
      <4>2. WordBytes * c + WordBytes <= Len(m)
        <5>0. PICK i \in Nat, b \in Nat, n \in Nat : i = Gone /\ b = WordBytes /\ n = Len(m)
          BY <1>1, <1>5, Zenon
        <5>1. n - i >= b
          BY <1>5, <2>2, <5>0, Zenon
        <5>2. i + b <= n
          BY <5>1
        <5> QED BY <4>1, <5>0, <5>2, Zenon
      <4>3. o = SubSeq(m, WordBytes * c + 1, Len(m)) /\ Len(o) = Len(m) - WordBytes * c
        BY <1>5, <3>0, <4>1, Zenon
      <4>4. m \in Seq(Nat)
        BY <1>1
      <4> HIDE DEF m
      <4>5. /\ SubSeq(o, 1, WordBytes) = WordOf(m, c + 1)
            /\ SubSeq(o, WordBytes + 1, Len(o)) = SubSeq(m, WordBytes * (c + 1) + 1, Len(m))
            /\ WordBytes * (c + 1) = WordBytes * c + WordBytes
        BY <4>2, <4>3, <4>4, SplitWord
      <4> QED BY <4>1, <4>5, Zenon
    <3>3. /\ Len(fifo') = (Len(fifo) - p) + 1
          /\ \A k \in 1 .. Len(fifo) - p : fifo'[k] = Left(p)[k]
          /\ fifo'[(Len(fifo) - p) + 1] = d
      <4>1. PICK l \in Seq(Word) : l = Left(p) /\ Len(l) = Len(fifo) - p
        BY <1>8
      <4>2. /\ Len(Append(l, d)) = Len(l) + 1
            /\ \A k \in 1 .. Len(l) : Append(l, d)[k] = l[k]
            /\ Append(l, d)[Len(l) + 1] = d
        BY AppendProperties
      <4> QED BY <3>1, <4>1, <4>2, Zenon
    <3>4. tx_count' + Len(fifo') = c + 1 /\ c + 1 \in Nat \ {0}
      <4>1. (tx_count + p) + ((Len(fifo) - p) + 1) = (tx_count + Len(fifo)) + 1
        BY <1>1
      <4>2. c + 1 \in Nat \ {0}
        OBVIOUS
      <4> QED BY <1>9, <3>0, <3>3, <4>1, <4>2, Zenon
    <3>5. WordOf(message', c + 1) = WordOf(m, c + 1)
      <4>1. WordBytes * (c + 1) <= Len(m)
        BY <1>1, <1>5, <2>2, <3>2
      <4> HIDE DEF m, x
      <4> QED BY <1>1, <1>3, <3>4, <4>1, WordOfGrown
    <3>6. \A k \in 1 .. Len(fifo') : fifo'[k] = WordOf(message', tx_count' + k)
      <4>1. ASSUME NEW k \in 1 .. (Len(fifo) - p) + 1 PROVE fifo'[k] = WordOf(message', (tx_count + p) + k)
        <5>1. CASE k \in 1 .. Len(fifo) - p
          BY <1>16, <3>3, <5>1, Zenon
        <5>2. CASE ~(k \in 1 .. Len(fifo) - p)
          <6>1. k = (Len(fifo) - p) + 1 /\ (tx_count + p) + k = (tx_count + Len(fifo)) + 1
            <7>1. PICK n \in Nat, t \in Nat : n = Len(fifo) /\ t = tx_count /\ n - p \in Nat
              BY <1>1, <1>8
            <7>2. k \in 1 .. (n - p) + 1 /\ ~(k \in 1 .. n - p)
              BY <5>2, <7>1, Zenon
            <7>3. k = (n - p) + 1 /\ (t + p) + k = (t + n) + 1
              BY <7>1, <7>2, SMTT(40)
            <7> QED BY <7>1, <7>3, Zenon
          <6> QED BY <3>0, <3>1, <3>2, <3>3, <3>5, <6>1, Zenon
        <5> QED BY <5>1, <5>2
      <4> QED BY <1>9, <3>3, <4>1, Zenon
    <3>7. SubSeq(message', WordBytes * (c + 1) + 1, Len(m)) = SubSeq(m, WordBytes * (c + 1) + 1, Len(m))
      <4>1. WordBytes * (c + 1) + 1 \in Nat \ {0} /\ Len(m) <= Len(m)
        BY <1>1, <1>5, <3>2
      <4> HIDE DEF m, x
      <4> QED BY <1>1, <1>3, <4>1, PartKept
    <3>8. WordBytes * (c + 1) + Len(stored') = Len(m)
      <4>1. PICK e \in Nat : e = WordBytes * (c + 1) /\ e = Gone + WordBytes /\ e <= Len(m)
        BY <1>1, <1>5, <2>2, <3>2
      <4>0. PICK n \in Nat : n = Len(m)
        BY <1>1
      <4>a. e <= n
        BY <4>0, <4>1, Zenon
      <4>2. e + 1 \in Nat \ {0} /\ n <= n /\ e + 1 <= n + 1 /\ n - (e + 1) + 1 = n - e /\ e + (n - e) = n
        BY <4>a
      <4> HIDE DEF m
      <4>3. Len(SubSeq(m, e + 1, n)) = n - (e + 1) + 1
        <5>1. n <= Len(m) /\ m \in Seq(Nat)
          BY <1>1, <4>0, <4>2, Zenon
        <5> QED BY <4>2, <5>1, PartOf
      <4>4. Len(stored') = n - e
        BY <3>1, <3>2, <4>0, <4>1, <4>2, <4>3, Zenon
      <4> QED BY <4>0, <4>1, <4>2, <4>4, Zenon
    <3> QED BY <1>5, <3>1, <3>2, <3>4, <3>6, <3>7, <3>8, Zenon
  <2>3. Len(concat) < WordBytes \/ Len(concat) >= WordBytes
    BY <1>1, <1>5
  <2> QED BY <2>1, <2>2, <2>3
<1>18. Receiving'
  BY <1>10, <1>11, <1>14, <1>15, <1>17, Zenon DEF Receiving
<1>19. fifo = <<>> /\ wdata = <<>> => fifo' = <<>>
  <2>1. ASSUME fifo = <<>>, wdata = <<>> PROVE fifo' = <<>>
    <3>1. PICK i \in {0, 1} : i <= Len(fifo) /\ fifo' = Left(i)
      <4>1. Bus
        BY DEF Grows
      <4> QED BY <1>2, <2>1, <4>1, GenericStep DEF u
    <3>2. Left(i) = <<>>
      BY <2>1, <3>1, NothingLeft
    <3> QED BY <3>1, <3>2
  <2> QED BY <2>1
<1> QED BY <1>4, <1>18, <1>19

(* The numbers of words and of bytes that a closed message has. *)
LEMMA ClosedMessage ==
  ASSUME ShaAssumption, ShaTyped, Room, Receiving, wdata = <<>>, fifo = <<>>
  PROVE  /\ message_length = Len(message) /\ tx_count = WholeWords(Len(message))
         /\ Len(stored) = Len(message) % WordBytes /\ stored = RestOf(message)
<1>1. message_length = Len(message)
  BY ReceivingConcat
<1>2. PICK b \in Nat \ {0}, t \in Nat, r \in Nat, n \in Nat : b = WordBytes /\ t = tx_count /\ r = Len(stored) /\ n = Len(message)
  <2>1. WordBytes \in Nat \ {0} /\ tx_count \in Nat /\ Len(stored) \in Nat /\ Len(message) \in Nat
    BY DEF ShaAssumption, ShaTyped, MachineTyped, SoftTyped
  <2> QED BY <2>1, Zenon
<1>3. tx_count + Len(fifo) = t
  <2>1. Len(fifo) = 0 /\ t + 0 = t
    OBVIOUS
  <2> QED BY <1>2, <2>1, Zenon
<1>4. b * t + r = n /\ r < b /\ stored = SubSeq(message, b * t + 1, n)
  BY <1>1, <1>2, <1>3, Zenon DEF Receiving, Room
<1>5. n \div b = t /\ n % b = r
  BY <1>4, DivisionIs
<1>6. WholeWords(n) = t
  BY <1>2, <1>5, Zenon DEF WholeWords
<1> QED BY <1>1, <1>2, <1>4, <1>5, <1>6, Zenon DEF RestOf

(* When the message is closed, what is left in the packer goes to the FIFO. *)
LEMMA ReceivingEnds ==
  ASSUME ShaAssumption, ShaTyped, Engine, Room, Receiving, wdata = <<>>, fifo = <<>>, hash_process, ~hash_start,
         MachineNext, Rests
  PROVE  MachineTyped' /\ Engine' /\ Room' /\ Padding'
<1>1. ~update_w_from_fifo
  <2>1. ~(Len(fifo) > 0)
    OBVIOUS
  <2> QED BY <2>1, ReceivingReads
<1>2. Bus
  BY RestingBus DEF Rests
<1>3. MachineTyped' /\ Engine' /\ Room'
  BY <1>1, <1>2, GenericStep
<1>4. /\ message_length = Len(message) /\ tx_count = WholeWords(Len(message))
      /\ Len(stored) = Len(message) % WordBytes /\ stored = RestOf(message)
  BY ClosedMessage
<1>5. message' = message /\ wdata' = <<>>
  BY DEF Rests
<1>6. /\ pad_st' = "StFifoReceive" /\ tx_count' = tx_count /\ hash_process_flag'
  <2>1. pad_st' = "StFifoReceive"
    BY DEF MachineNext, Pad, PadNext, Receiving
  <2>2. tx_count' = tx_count /\ hash_process_flag'
    BY <1>1 DEF MachineNext, Pad, shaf_rready
  <2> QED BY <2>1, <2>2
<1>7. ~msg_allowed' /\ message_length' = message_length
  BY DEF MachineNext, Length, msg_write
<1>8. stored' = <<>> /\ fifo' = IF stored = <<>> THEN <<>> ELSE <<stored>>
  <2>1. PICK p \in Nat : p = IF fifo_rready /\ fifo_rvalid THEN 1 ELSE 0
    OBVIOUS
  <2>2. fifo_rready \in BOOLEAN /\ Packer /\ Fifo(fifo_rready)
    BY ReadyIsBoolean DEF MachineNext
  <2> QED BY <2>1, <2>2, PackerStep
<1>9. stored = <<>> <=> ~partial'
  <2>1. stored = <<>> <=> Len(stored) = 0
    BY DEF ShaTyped, MachineTyped
  <2>2. partial' <=> Len(message) % WordBytes # 0
    BY <1>4, <1>7, Zenon DEF partial
  <2> QED BY <1>4, <2>1, <2>2, Zenon
<1>10. fifo_st' # "FifoIdle" /\ ~hash_done' /\ Sent' = Sent
  <2>1. /\ Sent' = Taken
        /\ fifo_st' = "FifoIdle" <=> hash_done'
        /\ hash_done' => msg_feed_complete
    BY <1>1, EngineStep DEF MachineNext, Receiving
  <2>2. ~msg_feed_complete
    BY DEF msg_feed_complete, Receiving
  <2> QED BY <1>1, <2>1, <2>2, Zenon DEF Taken
<1>11. /\ Len(Sent') = tx_count' /\ \A k \in 1 .. tx_count' : Sent'[k] = PaddedWord(message', k)
  <2>1. Len(Sent) = tx_count /\ \A k \in 1 .. tx_count : Sent[k] = WordOf(message, k)
    BY DEF Receiving
  <2>2. ASSUME NEW k \in 1 .. tx_count PROVE PaddedWord(message, k) = WordOf(message, k)
    <3>1. k <= tx_count
      BY DEF ShaTyped, MachineTyped
    <3> QED BY <1>4, <3>1, Zenon DEF PaddedWord
  <2> QED BY <1>5, <1>6, <1>10, <2>1, <2>2, Zenon
<1>12. fifo' = IF pad_st' \in {"StFifoReceive", "StPad80"} /\ partial' THEN <<RestOf(message')>> ELSE <<>>
  BY <1>4, <1>5, <1>6, <1>8, <1>9
<1>13. message_length' = Len(message')
  BY <1>4, <1>5, <1>7, Zenon
<1>14. tx_count' = WholeWords(Len(message'))
  BY <1>4, <1>5, <1>6, Zenon
<1>15. Padding'
  BY <1>5, <1>6, <1>7, <1>8, <1>10, <1>11, <1>12, <1>13, <1>14 DEF Padding
<1> QED BY <1>3, <1>15

(* The words of the padding are words. *)
LEMMA FillIsWords ==
  ASSUME ShaAssumption, NEW n \in Nat
  PROVE  Zeros(WordBytes) \in Word /\ LenHi \in Word /\ LenLo(n) \in Word
<1>1. WordBytes \in Nat /\ WordBytes - 1 \in Nat
  BY DEF ShaAssumption
<1>2. Zeros(WordBytes) \in Seq(Byte) /\ Zeros(WordBytes - 1) \in Seq(Byte)
  BY <1>1, ZerosProperties
<1>3. <<"hi">> \in Seq(Byte) /\ <<n>> \in Seq(Byte)
  BY DEF Byte
<1>4. LenHi \in Seq(Byte) /\ LenLo(n) \in Seq(Byte)
  BY <1>2, <1>3, ConcatProperties DEF LenHi, LenLo
<1> QED BY <1>2, <1>4 DEF Word

(* The places of the zero words are none of the others. *)
LEMMA FillPlaces ==
  ASSUME NEW q \in Nat, NEW t \in Nat, NEW i \in q + 1 .. t - 3
  PROVE  ~(i + 1 <= q) /\ i + 1 # q + 1 /\ i + 1 # t /\ i + 1 # t - 1
OBVIOUS

(* The padding of a message of n bytes, word by word. *)
LEMMA PaddedWordIs ==
  ASSUME ShaAssumption, NEW m \in Seq(Nat), NEW q \in Nat, q = WholeWords(Len(m)), NEW t \in Nat, t = Total(Len(m))
  PROVE  /\ q + 3 <= t
         /\ PaddedWord(m, q + 1) = EndWord(m)
         /\ \A i \in q + 1 .. t - 3 : PaddedWord(m, i + 1) = Zeros(WordBytes)
         /\ PaddedWord(m, (t - 2) + 1) = LenHi
         /\ PaddedWord(m, (t - 1) + 1) = LenLo(Len(m))
<1>1. q + 3 <= t
  <2>1. Len(m) \in Nat
    OBVIOUS
  <2>2. PICK f \in Nat : f = FillWords(Len(m))
    BY <2>1, TotalIs
  <2>3. t = q + f + 3
    BY <2>2, Zenon DEF Total
  <2> QED BY <2>3
<1>2. \A k : PaddedWord(m, k) = IF k <= q THEN WordOf(m, k)
                               ELSE IF k = q + 1 THEN EndWord(m)
                               ELSE IF k = t THEN LenLo(Len(m))
                               ELSE IF k = t - 1 THEN LenHi ELSE Zeros(WordBytes)
  BY Zenon DEF PaddedWord
<1>3. PaddedWord(m, q + 1) = EndWord(m)
  <2>1. ~(q + 1 <= q)
    OBVIOUS
  <2> QED BY <1>2, <2>1, Zenon
<1>4. ASSUME NEW i \in q + 1 .. t - 3 PROVE PaddedWord(m, i + 1) = Zeros(WordBytes)
  <2>1. ~(i + 1 <= q) /\ i + 1 # q + 1 /\ i + 1 # t /\ i + 1 # t - 1
    BY FillPlaces, Zenon
  <2> QED BY <1>2, <2>1, Zenon
<1>5. PaddedWord(m, (t - 2) + 1) = LenHi
  <2>1. ~((t - 2) + 1 <= q) /\ (t - 2) + 1 # q + 1 /\ (t - 2) + 1 # t /\ (t - 2) + 1 = t - 1
    BY <1>1
  <2> QED BY <1>2, <2>1, Zenon
<1>6. PaddedWord(m, (t - 1) + 1) = LenLo(Len(m))
  <2>1. ~((t - 1) + 1 <= q) /\ (t - 1) + 1 # q + 1 /\ (t - 1) + 1 = t
    BY <1>1
  <2> QED BY <1>2, <2>1, Zenon
<1> QED BY <1>1, <1>3, <1>4, <1>5, <1>6

(* The numbers of a closed message. *)
LEMMA PaddingNumbers ==
  ASSUME ShaAssumption, ShaTyped
  PROVE  /\ message \in Seq(Nat) /\ Len(message) \in Nat /\ tx_count \in Nat
         /\ WholeWords(Len(message)) \in Nat /\ Total(Len(message)) \in Nat
<1>1. message \in Seq(Nat) /\ Len(message) \in Nat /\ tx_count \in Nat
  BY DEF ShaTyped, SoftTyped, MachineTyped
<1>2. WholeWords(Len(message)) \in Nat
  BY <1>1, WordsOfMessage
<1>3. Total(Len(message)) \in Nat
  BY <1>1, TotalIs
<1> QED BY <1>1, <1>2, <1>3

(* What StPad80 shows is the rest of the message, 80, and zeros. *)
LEMMA Pad80Shows ==
  ASSUME ShaAssumption, ShaTyped, Padding, pad_st = "StPad80"
  PROVE  shaf_rdata = EndWord(message)
<1> DEFINE r == Len(message) % WordBytes
           s == RestOf(message)
<1>1. s \in Seq(Nat) /\ Len(s) = r
  <2>1. message \in Seq(Nat)
    BY PaddingNumbers
  <2> QED BY <2>1, RestOfProperties
<1>2. message_length = Len(message)
  BY DEF Padding
<1>3. shaf_rdata = (IF message_length % WordBytes = 0 THEN <<>> ELSE SubSeq(Head(fifo), 1, message_length % WordBytes))
                   \o <<"80">> \o Zeros(WordBytes - 1 - (message_length % WordBytes))
  BY PadSignals
<1>4. (IF r = 0 THEN <<>> ELSE SubSeq(Head(fifo), 1, r)) = s
  <2>1. CASE r = 0
    <3> HIDE DEF s, r
    <3>1. s = <<>>
      BY <1>1, <2>1
    <3> QED BY <2>1, <3>1
  <2>2. CASE r # 0
    <3>1. partial
      BY <1>2, <2>2, Zenon DEF partial
    <3>2. fifo = <<s>>
      BY <3>1, Zenon DEF Padding
    <3>3. Head(<<s>>) = s
      OBVIOUS
    <3>4. SubSeq(s, 1, Len(s)) = s
      BY <1>1, SubSeqFull
    <3> QED BY <1>1, <2>2, <3>2, <3>3, <3>4, Zenon
  <2> QED BY <2>1, <2>2
<1> QED BY <1>2, <1>3, <1>4, Zenon DEF EndWord

(* What the engine takes while a message is padded is its next word. *)
LEMMA PaddingReads ==
  ASSUME ShaAssumption, ShaTyped, Padding, update_w_from_fifo
  PROVE  /\ pad_st \in {"StPad80", "StPad00", "StLenHi", "StLenLo"}
         /\ shaf_rdata = PaddedWord(message, tx_count + 1) /\ shaf_rdata \in Word
<1> DEFINE m == message
           q == WholeWords(Len(m))
           t == Total(Len(m))
<1>1. m \in Seq(Nat) /\ Len(m) \in Nat /\ q \in Nat /\ t \in Nat /\ tx_count \in Nat
  BY PaddingNumbers
<1>2. hash_process_flag /\ message_length = Len(m)
  BY DEF Padding
<1>3. pad_st # "StIdle" /\ pad_st # "StFifoReceive"
  <2>1. shaf_rvalid
    BY DEF update_w_from_fifo
  <2> QED BY <1>2, <2>1, PadSignals
<1>4. pad_st \in {"StPad80", "StPad00", "StLenHi", "StLenLo"}
  BY <1>3 DEF ShaTyped, MachineTyped
<1>5. /\ EndWord(m) \in Word /\ Zeros(WordBytes) \in Word /\ LenHi \in Word /\ LenLo(Len(m)) \in Word
  BY <1>1, EndWordProperties, FillIsWords
<1>6. /\ PaddedWord(m, q + 1) = EndWord(m)
      /\ \A i \in q + 1 .. t - 3 : PaddedWord(m, i + 1) = Zeros(WordBytes)
      /\ PaddedWord(m, (t - 2) + 1) = LenHi
      /\ PaddedWord(m, (t - 1) + 1) = LenLo(Len(m))
  BY <1>1, PaddedWordIs
<1>7. CASE pad_st = "StPad80"
  <2>1. tx_count = q
    BY <1>7 DEF Padding
  <2> QED BY <1>4, <1>5, <1>6, <1>7, <2>1, Pad80Shows, Zenon
<1>8. CASE pad_st = "StPad00"
  <2>1. tx_count \in q + 1 .. t - 3 /\ shaf_rdata = Zeros(WordBytes)
    BY <1>8, PadSignals DEF Padding
  <2> QED BY <1>4, <1>5, <1>6, <2>1, Zenon
<1>9. CASE pad_st = "StLenHi"
  <2>1. tx_count = t - 2 /\ shaf_rdata = LenHi
    BY <1>9, PadSignals DEF Padding
  <2> QED BY <1>4, <1>5, <1>6, <2>1, Zenon
<1>10. CASE pad_st = "StLenLo"
  <2>1. tx_count = t - 1 /\ shaf_rdata = LenLo(message_length)
    BY <1>10, PadSignals DEF Padding
  <2> QED BY <1>2, <1>4, <1>5, <1>6, <2>1, Zenon
<1> QED BY <1>4, <1>7, <1>8, <1>9, <1>10

(* The FIFO of a closed message is left as it is or emptied. *)
LEMMA PaddingFifo ==
  ASSUME ShaAssumption, ShaTyped, Room, Padding, ~hash_process, MachineNext
  PROVE  /\ stored' = <<>> /\ fifo' = IF fifo_rready /\ fifo_rvalid THEN <<>> ELSE fifo
         /\ fifo = <<>> => ~fifo_rvalid
<1>1. PICK p \in {0, 1} : p = IF fifo_rready /\ fifo_rvalid THEN 1 ELSE 0
  OBVIOUS
<1>2. concat = <<>> /\ Len(concat) < WordBytes
  <2>1. ~msg_write /\ stored = <<>>
    BY DEF msg_write, Padding
  <2>2. concat = stored
    BY <2>1, ConcatIs
  <2> QED BY <2>1, <2>2, Zenon DEF Room
<1>3. p <= Len(fifo) /\ fifo' = Left(p) /\ stored' = concat
  <2>1. p \in Nat /\ Packer /\ Fifo(fifo_rready) /\ fifo_rready \in BOOLEAN
    BY ReadyIsBoolean DEF MachineNext
  <2> QED BY <1>1, <1>2, <2>1, PackerStep
<1>4. fifo \in Seq(Word) /\ Len(fifo) \in Nat /\ Len(fifo) <= 1
  <2>1. fifo \in Seq(Word)
    BY DEF ShaTyped, MachineTyped
  <2>2. fifo = <<>> \/ \E s : fifo = <<s>>
    BY Zenon DEF Padding
  <2>3. CASE fifo = <<>>
    BY <2>1, <2>3
  <2>4. CASE \E s : fifo = <<s>>
    <3>1. PICK s : fifo = <<s>>
      BY <2>4
    <3>2. Len(<<s>>) = 1
      OBVIOUS
    <3>3. 1 \in Nat /\ 1 <= 1
      OBVIOUS
    <3> QED BY <2>1, <3>1, <3>2, <3>3, Zenon
  <2> QED BY <2>2, <2>3, <2>4
<1>5. CASE p = 1
  <2>1. Left(p) \in Seq(Word) /\ Len(Left(p)) = Len(fifo) - p
    <3>1. p \in Nat
      OBVIOUS
    <3> QED BY <1>3, <3>1, LeftProperties
  <2>2. Len(Left(p)) = 0
    BY <1>3, <1>4, <1>5, <2>1
  <2>3. Left(p) = <<>>
    BY <2>1, <2>2
  <2> QED BY <1>1, <1>2, <1>3, <1>5, <2>3 DEF Room, fifo_rvalid, ShaTyped, MachineTyped
<1>6. CASE p = 0
  <2>1. Left(p) = SubSeq(fifo, 1, Len(fifo))
    <3>1. 1 + 0 = 1
      OBVIOUS
    <3> QED BY <1>6, <3>1, Zenon DEF Left
  <2>2. Left(p) = fifo
    BY <1>4, <2>1, SubSeqFull
  <2> QED BY <1>1, <1>2, <1>3, <1>6, <2>2 DEF Room, fifo_rvalid, ShaTyped, MachineTyped
<1> QED BY <1>5, <1>6

(* The next place. *)
LEMMA PlaceBefore ==
  ASSUME NEW q \in Nat, NEW t \in Nat, NEW k \in q .. t - 3
  PROVE  /\ k = t - 3 => k + 1 = t - 2
         /\ k # t - 3 => k + 1 \in q + 1 .. t - 3
OBVIOUS

(* After a word of padding come the length words or another one. *)
LEMMA AfterPadIs ==
  ASSUME ShaAssumption, ShaTyped, NEW q \in Nat, q = WholeWords(Len(message)), NEW t \in Nat, t = Total(Len(message)),
         tx_count \in q .. t - 3
  PROVE  \/ AfterPad = "StLenHi" /\ tx_count + 1 = t - 2
         \/ AfterPad = "StPad00" /\ tx_count + 1 \in q + 1 .. t - 3
<1>1. Len(message) \in Nat
  BY PaddingNumbers
<1>2. txcnt_eq_340 <=> tx_count = t - 3
  <2>1. \A k \in q .. t - 3 : k % BlockWords = BlockWords - 3 <=> k = t - 3
    BY <1>1, TotalIs, Zenon
  <2> QED BY <2>1, Zenon DEF txcnt_eq_340
<1>3. PICK k \in q .. t - 3 : k = tx_count
  OBVIOUS
<1>4. CASE k = t - 3
  <2>1. k + 1 = t - 2
    BY <1>4, PlaceBefore
  <2> QED BY <1>2, <1>3, <1>4, <2>1, Zenon DEF AfterPad
<1>5. CASE k # t - 3
  <2>1. k + 1 \in q + 1 .. t - 3
    BY <1>5, PlaceBefore
  <2> QED BY <1>2, <1>3, <1>5, <2>1, Zenon DEF AfterPad
<1> QED BY <1>4, <1>5

(* The engine waits once it has the low word of the length: the padded     *)
(* message ends with a block.                                              *)
LEMMA LastWordWaits ==
  ASSUME ShaAssumption, ShaTyped, Engine, Padding, update_w_from_fifo, pad_st = "StLenLo"
  PROVE  fifo_st = "FifoLoadFromFifo" /\ shaf_rvalid /\ Len(w) = BlockWords - 1
<1>1. fifo_st = "FifoLoadFromFifo" /\ shaf_rvalid
  BY DEF update_w_from_fifo
<1>2. PICK t \in Nat : t = Total(Len(message)) /\ t % BlockWords = 0
  <2>1. Len(message) \in Nat
    BY PaddingNumbers
  <2> QED BY <2>1, TotalIs
<1>3. Len(Sent) = t - 1
  BY <1>2, Zenon DEF Padding
<1>4. w \in Seq(Word) /\ hash \in Seq(Word) /\ digest \in Seq(Word) /\ sha_st \in {"ShaIdle", "ShaCompress", "ShaUpdateDigest"}
  BY DEF ShaTyped, MachineTyped
<1>5. PICK d \in Nat, l \in Nat : d = Len(digest) /\ d % BlockWords = 0 /\ l = Len(w) /\ l < BlockWords
  <2>1. Len(digest) \in Nat /\ Len(w) \in Nat
    BY <1>4
  <2>2. Len(digest) % BlockWords = 0 /\ Len(w) < BlockWords
    BY <1>1, Zenon DEF Engine
  <2> QED BY <2>1, <2>2, Zenon
<1>6. PICK h \in {0, BlockWords} : d + h + l = t - 1
  <2>1. CASE sha_st = "ShaIdle"
    <3>1. Len(digest \o w) = d + l
      BY <1>4, <1>5, ConcatProperties
    <3>2. Sent = digest \o w
      BY <2>1 DEF Sent
    <3>3. d + 0 + l = d + l
      OBVIOUS
    <3> QED BY <1>3, <3>1, <3>2, <3>3, Zenon
  <2>2. CASE sha_st = "ShaUpdateDigest"
    <3>1. Len(hash) = BlockWords /\ w = <<>>
      BY <2>2 DEF Engine
    <3>2. Len(digest \o hash) = d + BlockWords
      BY <1>4, <1>5, <3>1, ConcatProperties
    <3>3. Sent = digest \o hash
      BY <2>2 DEF Sent
    <3>4. l = 0 /\ Len(<<>>) = 0
      BY <1>5, <3>1
    <3>5. d + BlockWords + l = d + BlockWords
      BY <3>4 DEF ShaAssumption
    <3> QED BY <1>3, <3>2, <3>3, <3>5, Zenon
  <2>3. sha_st # "ShaCompress"
    BY <1>1 DEF Engine
  <2> QED BY <1>4, <2>1, <2>2, <2>3
<1>7. d + h + l + 1 = t
  <2>1. PICK b \in Nat : b = h
    BY DEF ShaAssumption
  <2>2. d + b + l = t - 1
    BY <1>6, <2>1, Zenon
  <2>3. d + b + l + 1 = t
    BY <2>2
  <2> QED BY <2>1, <2>3, Zenon
<1>8. l = BlockWords - 1
  BY <1>2, <1>5, <1>7, LastOfBlock, Zenon
<1> QED BY <1>1, <1>5, <1>8, Zenon

(* The last block: what the engine has is the padded message. *)
LEMMA PaddingDone ==
  ASSUME ShaAssumption, NEW s \in Seq(Word), NEW m \in Seq(Nat), Len(s) = Total(Len(m)),
         \A k \in 1 .. Total(Len(m)) : s[k] = PaddedWord(m, k)
  PROVE  s = Padded(m)
<1>1. /\ Padded(m) \in Seq(Word) /\ Len(Padded(m)) = Total(Len(m))
      /\ \A k \in 1 .. Total(Len(m)) : Padded(m)[k] = PaddedWord(m, k)
  BY PaddedIs
<1>2. \A k \in 1 .. Len(s) : s[k] = Padded(m)[k]
  BY <1>1, Zenon
<1>3. Len(s) = Len(Padded(m))
  BY <1>1, Zenon
<1> QED BY <1>1, <1>2, <1>3, SeqEqual

(* While a message is padded the engine gets the words of the padding one  *)
(* after the other, and ends with the last.                                *)
LEMMA PaddingStays ==
  ASSUME ShaAssumption, ShaTyped, Engine, Room, Padding, ~hash_start, ~hash_process, MachineNext, Rests
  PROVE  MachineTyped' /\ Engine' /\ Room' /\ (Padding' \/ Adding')
<1> DEFINE u == update_w_from_fifo
           m == message
<1>1. PICK q \in Nat, t \in Nat : q = WholeWords(Len(m)) /\ t = Total(Len(m)) /\ q + 3 <= t
  <2>1. m \in Seq(Nat) /\ WholeWords(Len(m)) \in Nat /\ Total(Len(m)) \in Nat
    BY PaddingNumbers
  <2> QED BY <2>1, PaddedWordIs
<1>2. /\ u => /\ pad_st \in {"StPad80", "StPad00", "StLenHi", "StLenLo"}
              /\ shaf_rdata = PaddedWord(m, tx_count + 1) /\ shaf_rdata \in Word
      /\ u \in BOOLEAN
  BY PaddingReads DEF update_w_from_fifo
<1>3. Bus
  BY RestingBus DEF Rests
<1>4. MachineTyped' /\ Engine' /\ Room'
  BY <1>2, <1>3, GenericStep
<1>5. message' = m /\ wdata' = <<>>
  BY DEF Rests
<1>6. stored' = <<>> /\ (fifo' = IF fifo_rready /\ fifo_rvalid THEN <<>> ELSE fifo) /\ (fifo = <<>> => ~fifo_rvalid)
  BY PaddingFifo
<1>7. ~msg_allowed' /\ message_length' = message_length /\ message_length = Len(m)
  BY DEF MachineNext, Length, msg_write, Padding
<1>8. hash_process_flag' /\ hash_process_flag
  BY DEF MachineNext, Pad, Padding
<1> HIDE DEF u
<1>9. PICK p \in {0, 1} : p = (IF u THEN 1 ELSE 0) /\ tx_count' = tx_count + p
  <2>1. tx_count' = IF u THEN tx_count + 1 ELSE tx_count
    BY Zenon DEF MachineNext, Pad, shaf_rready, u
  <2>2. tx_count \in Nat
    BY PaddingNumbers
  <2> QED BY <1>2, <2>1, <2>2
<1>10. tx_count \in Nat /\ m \in Seq(Nat)
  BY PaddingNumbers
<1>11. /\ Sent' = Taken
       /\ fifo_st' = "FifoIdle" <=> hash_done'
       /\ hash_done' => fifo_st = "FifoWait" /\ msg_feed_complete /\ sha_st' = "ShaUpdateDigest"
       /\ fifo_st = "FifoWait" /\ msg_feed_complete /\ ~hash_done' => fifo_st' = "FifoWait"
       /\ fifo_st = "FifoLoadFromFifo" /\ shaf_rvalid /\ Len(w) = BlockWords - 1 => fifo_st' = "FifoWait"
  BY <1>2, EngineStep DEF MachineNext, Padding, u
<1>a. Sent' \in Seq(Word)
  BY <1>4 DEF MachineTyped, Sent
<1>12. /\ Len(Sent') = tx_count' /\ \A k \in 1 .. tx_count' : Sent'[k] = PaddedWord(m, k)
  <2>2. Len(Sent) = tx_count /\ (\A k \in 1 .. tx_count : Sent[k] = PaddedWord(m, k))
    BY DEF Padding
  <2>3. /\ Len(Sent') = tx_count + p
        /\ \A k \in 1 .. tx_count : Sent'[k] = Sent[k]
        /\ u => Sent'[tx_count + 1] = shaf_rdata
    <3>1. PICK s \in Seq(Word) : s = Sent' /\ s = Taken
      BY <1>11, <1>a
    <3>2. /\ Len(s) = tx_count + p
          /\ \A k \in 1 .. tx_count : s[k] = Sent[k]
          /\ u => s[tx_count + 1] = shaf_rdata
      BY <1>2, <1>9, <2>2, <3>1, SentGrows DEF u
    <3> QED BY <3>1, <3>2, Zenon
  <2>4. ASSUME NEW k \in 1 .. tx_count + p PROVE Sent'[k] = PaddedWord(m, k)
    <3>1. CASE k \in 1 .. tx_count
      BY <2>2, <2>3, <3>1, Zenon
    <3>2. CASE ~(k \in 1 .. tx_count)
      <4>1. p = 1 /\ k = tx_count + 1
        BY <1>9, <1>10, <3>2
      <4>2. u
        BY <1>9, <4>1
      <4> QED BY <1>2, <2>3, <4>1, <4>2, Zenon
    <3> QED BY <3>1, <3>2
  <2> QED BY <1>9, <2>3, <2>4, Zenon
<1>13. /\ pad_st = "StIdle" => tx_count = t /\ fifo_st = "FifoWait" /\ pad_st' = "StIdle" /\ ~u
       /\ pad_st = "StIdle" => fifo = <<>>
  <2>1. pad_st = "StIdle" => pad_st' = "StIdle"
    BY DEF MachineNext, Pad, PadNext
  <2> QED BY <1>1, <1>2, <2>1 DEF Padding
<1>14. CASE hash_done'
  <2>1. pad_st = "StIdle" /\ fifo_st' = "FifoIdle" /\ sha_st' = "ShaUpdateDigest"
    BY <1>11, <1>14 DEF msg_feed_complete
  <2>2. tx_count' = t /\ pad_st' = "StIdle" /\ fifo' = <<>>
    <3>1. p = 0 /\ tx_count + 0 = tx_count
      BY <1>9, <1>10, <1>13, <2>1
    <3> QED BY <1>6, <1>9, <1>13, <2>1, <3>1, Zenon
  <2>3. Sent' = Padded(m)
    <3>1. PICK s \in Seq(Word) : s = Sent'
      BY <1>a
    <3>2. Len(s) = Total(Len(m)) /\ \A k \in 1 .. Total(Len(m)) : s[k] = PaddedWord(m, k)
      BY <1>1, <1>12, <2>2, <3>1, Zenon
    <3> QED BY <1>10, <3>1, <3>2, PaddingDone
  <2>4. Sent' = digest' \o hash'
    BY <2>1 DEF Sent
  <2>5. digest' \o hash' = Padded(message')
    BY <1>5, <2>3, <2>4, Zenon
  <2>6. Adding'
    BY <1>5, <1>6, <1>7, <1>8, <1>14, <2>1, <2>2, <2>5 DEF Adding
  <2> QED BY <1>4, <2>6
<1>15. CASE ~hash_done'
  <2>1. partial' = partial
    BY <1>7, Zenon DEF partial
  <2>2. fifo_st' # "FifoIdle"
    BY <1>11, <1>15
  <2> DEFINE Places == /\ pad_st' \in {"StFifoReceive", "StPad80"} => tx_count' = q
                       /\ pad_st' = "StPad00" => tx_count' \in q + 1 .. t - 3
                       /\ pad_st' = "StLenHi" => tx_count' = t - 2
                       /\ pad_st' = "StLenLo" => tx_count' = t - 1
                       /\ pad_st' = "StIdle" => tx_count' = t /\ fifo_st' = "FifoWait"
             Kept == fifo' = IF pad_st' \in {"StFifoReceive", "StPad80"} /\ partial THEN <<RestOf(m)>> ELSE <<>>
  <2>3. /\ fifo = IF pad_st \in {"StFifoReceive", "StPad80"} /\ partial THEN <<RestOf(m)>> ELSE <<>>
        /\ pad_st \in {"StFifoReceive", "StPad80"} => tx_count = q
        /\ pad_st = "StPad00" => tx_count \in q + 1 .. t - 3
        /\ pad_st = "StLenHi" => tx_count = t - 2
        /\ pad_st = "StLenLo" => tx_count = t - 1
    BY <1>1, Zenon DEF Padding
  <2>4. ~u => tx_count' = tx_count
    <3>1. tx_count + 0 = tx_count
      BY <1>10
    <3> QED BY <1>9, <3>1, Zenon
  <2>5. u => tx_count' = tx_count + 1
    BY <1>9, Zenon
  <2>6. pad_st' = PadNext /\ (shaf_rready <=> u)
    BY DEF MachineNext, Pad, shaf_rready, u
  <2>7. tx_count \in q .. t - 3 =>
          \/ AfterPad = "StLenHi" /\ tx_count + 1 = t - 2
          \/ AfterPad = "StPad00" /\ tx_count + 1 \in q + 1 .. t - 3
    BY <1>1, AfterPadIs
  <2>8. Places /\ Kept
    <3>1. CASE pad_st = "StFifoReceive"
      <4>1. pad_st' = "StPad80" /\ ~u
        BY <1>2, <1>8, <2>6, <3>1 DEF PadNext
      <4>2. ~fifo_rready
        BY <1>8, <3>1, PadSignals
      <4> QED BY <1>6, <2>3, <2>4, <3>1, <4>1, <4>2
    <3>2. CASE pad_st = "StPad80" /\ ~u
      <4>1. pad_st' = "StPad80"
        BY <2>6, <3>2 DEF PadNext
      <4>2. ~fifo_rready
        BY <2>6, <3>2, PadSignals
      <4> QED BY <1>6, <2>3, <2>4, <3>2, <4>1, <4>2
    <3>3. CASE pad_st = "StPad80" /\ u
      <4>1. pad_st' = AfterPad
        BY <2>6, <3>3 DEF PadNext
      <4>2. tx_count = q /\ tx_count \in q .. t - 3
        BY <1>1, <2>3, <3>3
      <4>3. fifo' = <<>>
        <5>1. (fifo_rready <=> partial) /\ (fifo_rvalid \/ ~partial)
          <6>1. shaf_rvalid
            BY <3>3 DEF update_w_from_fifo, u
          <6> QED BY <2>6, <3>3, <6>1, PadSignals
        <5> QED BY <1>6, <2>3, <5>1
      <4> QED BY <2>5, <2>7, <3>3, <4>1, <4>2, <4>3
    <3>4. CASE pad_st \in {"StPad00", "StLenHi", "StLenLo"} /\ ~u
      <4>1. pad_st' = pad_st
        BY <2>6, <3>4 DEF PadNext
      <4>2. fifo' = <<>>
        BY <1>6, <2>3, <3>4
      <4> QED BY <2>3, <2>4, <3>4, <4>1, <4>2
    <3>5. CASE pad_st = "StPad00" /\ u
      <4>1. pad_st' = AfterPad
        BY <2>6, <3>5 DEF PadNext
      <4>2. tx_count \in q .. t - 3
        BY <1>1, <2>3, <3>5
      <4>3. fifo' = <<>>
        BY <1>6, <2>3, <3>5
      <4> QED BY <2>5, <2>7, <3>5, <4>1, <4>2, <4>3
    <3>6. CASE pad_st = "StLenHi" /\ u
      <4>1. pad_st' = "StLenLo"
        BY <2>6, <3>6 DEF PadNext
      <4>2. tx_count + 1 = t - 1
        BY <1>1, <2>3, <3>6
      <4>3. fifo' = <<>>
        BY <1>6, <2>3, <3>6
      <4> QED BY <2>5, <3>6, <4>1, <4>2, <4>3
    <3>7. CASE pad_st = "StLenLo" /\ u
      <4>1. pad_st' = "StIdle"
        BY <2>6, <3>7 DEF PadNext
      <4>2. tx_count + 1 = t
        BY <1>1, <2>3, <3>7
      <4>3. fifo' = <<>>
        BY <1>6, <2>3, <3>7
      <4>4. fifo_st' = "FifoWait"
        BY <1>11, <3>7, LastWordWaits DEF u
      <4> QED BY <2>5, <3>7, <4>1, <4>2, <4>3, <4>4
    <3>8. CASE pad_st = "StIdle"
      <4>1. msg_feed_complete
        BY <1>8, <3>8 DEF msg_feed_complete
      <4>2. fifo_st' = "FifoWait" /\ fifo' = <<>> /\ tx_count' = t /\ pad_st' = "StIdle"
        BY <1>6, <1>11, <1>13, <1>15, <2>4, <3>8, <4>1
      <4> QED BY <4>2
    <3>9. pad_st \in {"StIdle", "StFifoReceive", "StPad80", "StPad00", "StLenHi", "StLenLo"}
      BY DEF ShaTyped, MachineTyped
    <3> QED BY <1>2, <3>1, <3>2, <3>3, <3>4, <3>5, <3>6, <3>7, <3>8, <3>9
  <2>9. /\ fifo' = IF pad_st' \in {"StFifoReceive", "StPad80"} /\ partial' THEN <<RestOf(message')>> ELSE <<>>
        /\ message_length' = Len(message')
    BY <1>5, <1>7, <2>1, <2>8, Zenon
  <2>10. /\ pad_st' \in {"StFifoReceive", "StPad80"} => tx_count' = WholeWords(Len(message'))
         /\ pad_st' = "StPad00" => tx_count' \in WholeWords(Len(message')) + 1 .. Total(Len(message')) - 3
         /\ pad_st' = "StLenHi" => tx_count' = Total(Len(message')) - 2
         /\ pad_st' = "StLenLo" => tx_count' = Total(Len(message')) - 1
         /\ pad_st' = "StIdle" => tx_count' = Total(Len(message')) /\ fifo_st' = "FifoWait"
    BY <1>1, <1>5, <2>8, Zenon
  <2>11. Len(Sent') = tx_count' /\ \A k \in 1 .. tx_count' : Sent'[k] = PaddedWord(message', k)
    BY <1>5, <1>12, Zenon
  <2>12. Padding'
    BY <1>5, <1>6, <1>7, <1>8, <1>15, <2>2, <2>9, <2>10, <2>11, Zenon DEF Padding
  <2> QED BY <1>4, <2>12
<1> QED BY <1>14, <1>15

(* A command that crosses comes a cycle nearer.                            *)
LEMMA CrossedIs ==
  ASSUME ShaAssumption, NEW t \in 0 .. Cross
  PROVE  /\ Crossed(t, TRUE) = Cross /\ Crossed(t, TRUE) > 0
         /\ Crossed(t, FALSE) \in 0 .. Cross /\ Crossed(t, FALSE) < Cross
         /\ t = 0 => Crossed(t, FALSE) = 0
         /\ t = 1 => Crossed(t, FALSE) = 0
         /\ t > 0 /\ t # 1 => Crossed(t, FALSE) > 0
         /\ \A r \in 0 .. Cross : r > 0 /\ r # 1 /\ t < r => Crossed(t, FALSE) < Crossed(r, FALSE)
BY DEF Crossed, ShaAssumption

\* No command is given in this step.
NoneGiven == start_t' = Crossed(start_t, FALSE) /\ process_t' = Crossed(process_t, FALSE)

(* Start and end of a message find the machines where software left them,  *)
(* and take them on; between them every phase leads to the next.           *)
LEMMA PhaseStep ==
  ASSUME ShaAssumption, ShaTyped, Engine, Room, Phase, MachineNext, Latch, NoneGiven, Rests
  PROVE  /\ MachineTyped' /\ Engine' /\ Room' /\ Phase'
         /\ start_t > 0 /\ start_t' = 0 => Receiving'
         /\ start_t = 0 /\ process_t = 0 /\ Receiving => Receiving'
         /\ process_t > 0 /\ process_t' = 0 => Padding'
         /\ start_t = 0 /\ process_t = 0 /\ Padding => Padding' \/ Adding'
         /\ start_t = 0 /\ process_t = 0 /\ Adding => Digested'
         /\ start_t = 0 /\ process_t = 0 /\ Digested => Digested'
<1>1. start_t \in 0 .. Cross /\ process_t \in 0 .. Cross
  BY DEF ShaTyped, SoftTyped
<1>2. /\ start_t = 0 => start_t' = 0
      /\ start_t = 1 => start_t' = 0
      /\ start_t > 0 /\ start_t # 1 => start_t' > 0
      /\ process_t = 0 => process_t' = 0
      /\ process_t = 1 => process_t' = 0
      /\ process_t > 0 /\ process_t # 1 => process_t' > 0
  BY <1>1, CrossedIs, Zenon DEF NoneGiven
<1>3. ~(0 > 0) /\ 0 # 1
  OBVIOUS
<1>4. message' = message /\ wdata' = <<>>
  BY DEF Rests
<1>5. Grows
  BY RestsGrows
<1>6. ASSUME start_t > 0, process_t = 0, Quiet, message = <<>>
      PROVE  /\ MachineTyped' /\ Engine' /\ Room' /\ Phase'
             /\ start_t' = 0 => Receiving'
  <2>1. ~hash_process
    BY <1>6 DEF hash_process
  <2>2. CASE start_t = 1
    <3>1. hash_start
      BY <2>2 DEF hash_start
    <3>2. MachineTyped' /\ Engine' /\ Room' /\ Receiving'
      BY <1>6, <2>1, <3>1, QuietStarts
    <3>3. start_t' = 0 /\ process_t' = 0
      BY <1>2, <1>6, <2>2
    <3> QED BY <3>2, <3>3 DEF Phase
  <2>3. CASE start_t # 1
    <3>1. ~hash_start
      BY <2>3 DEF hash_start
    <3>2. MachineTyped' /\ Engine' /\ Room' /\ Quiet'
      BY <1>4, <1>6, <2>1, <3>1, QuietStays
    <3>3. start_t' > 0 /\ process_t' = 0
      BY <1>2, <1>6, <2>3
    <3>4. message' = <<>> /\ start_t' # 0
      BY <1>4, <1>6, <3>3
    <3> QED BY <3>2, <3>3, <3>4 DEF Phase
  <2> QED BY <2>2, <2>3
<1>7. ASSUME start_t = 0, process_t > 0, Receiving, wdata = <<>>, fifo = <<>>
      PROVE  /\ MachineTyped' /\ Engine' /\ Room' /\ Phase'
             /\ process_t' = 0 => Padding'
  <2>1. ~hash_start
    BY <1>7 DEF hash_start
  <2>2. CASE process_t = 1
    <3>1. hash_process
      BY <2>2 DEF hash_process
    <3>2. MachineTyped' /\ Engine' /\ Room' /\ Padding'
      BY <1>7, <2>1, <3>1, ReceivingEnds
    <3>3. start_t' = 0 /\ process_t' = 0
      BY <1>2, <1>7, <2>2
    <3> QED BY <3>2, <3>3 DEF Phase
  <2>3. CASE process_t # 1
    <3>1. ~hash_process
      BY <2>3 DEF hash_process
    <3>2. MachineTyped' /\ Engine' /\ Room' /\ Receiving' /\ fifo' = <<>>
      BY <1>5, <1>7, <2>1, <3>1, ReceivingStays
    <3>3. process_t' > 0 /\ start_t' = 0 /\ process_t' # 0
      BY <1>2, <1>7, <2>3
    <3> QED BY <1>4, <3>2, <3>3 DEF Phase
  <2> QED BY <2>2, <2>3
<1>8. ASSUME start_t = 0, process_t = 0, Receiving \/ Padding \/ Adding \/ Quiet
      PROVE  /\ MachineTyped' /\ Engine' /\ Room' /\ Phase'
             /\ Receiving => Receiving'
             /\ Padding => Padding' \/ Adding'
             /\ Adding => Digested'
             /\ Digested => Digested'
  <2>1. ~hash_start /\ ~hash_process
    BY <1>8 DEF hash_start, hash_process
  <2>2. start_t' = 0 /\ process_t' = 0
    BY <1>2, <1>8
  <2>3. Receiving => MachineTyped' /\ Engine' /\ Room' /\ Receiving'
    BY <1>5, <2>1, ReceivingStays
  <2>4. Padding => MachineTyped' /\ Engine' /\ Room' /\ (Padding' \/ Adding')
    BY <2>1, PaddingStays
  <2>5. Adding => MachineTyped' /\ Engine' /\ Room' /\ Digested'
    BY <2>1, AddingEnds
  <2>6. Quiet => MachineTyped' /\ Engine' /\ Room' /\ Quiet' /\ digest' = digest
    BY <1>4, <2>1, QuietStays
  <2>7. Digested => Digested'
    BY <1>4, <2>6 DEF Digested
  <2>8. Digested' => Quiet'
    BY DEF Digested
  <2>9. Phase'
    BY <1>8, <2>2, <2>3, <2>4, <2>5, <2>6, <2>8, Zenon DEF Phase
  <2>10. MachineTyped' /\ Engine' /\ Room'
    BY <1>8, <2>3, <2>4, <2>5, <2>6, Zenon
  <2> QED BY <2>3, <2>4, <2>5, <2>7, <2>9, <2>10, Zenon
<1> QED BY <1>3, <1>6, <1>7, <1>8, Zenon DEF Phase

(* A reset leaves no message. *)
LEMMA ResetLeaves ==
  ASSUME ShaAssumption, ResetState, wdata' = <<>>
  PROVE  MachineTyped' /\ Engine' /\ Room' /\ Quiet'
<1>1. Len(<<>>) = 0 /\ <<>> \in Seq(Nat) /\ <<>> \in Seq(Word)
  OBVIOUS
<1>2. /\ WordBytes \in Nat /\ WordBytes > 1 /\ BlockWords \in Nat /\ BlockWords > 2
      /\ NumRound \in Nat /\ NumRound > 1 /\ AlmostFull \in Nat
  BY DEF ShaAssumption
<1>3. 0 \in Nat /\ 0 \in 0 .. NumRound - 1 /\ 0 <= AlmostFull /\ 0 <= 0 /\ 0 < WordBytes /\ 0 <= WordBytes /\ 0 < BlockWords
  BY <1>2
<1>4. 0 % BlockWords = 0
  BY <1>2
<1>5. MachineTyped'
  BY <1>1, <1>3, Zenon DEF ResetState, MachineTyped
<1>6. Room'
  BY <1>1, <1>3, Zenon DEF ResetState, Room
<1>7. Engine'
  <2>1. Len(digest') % BlockWords = 0 /\ w' = <<>> /\ fifo_st' = "FifoIdle" /\ sha_st' = "ShaIdle" /\ round' = 0
    BY <1>1, <1>4, Zenon DEF ResetState
  <2> QED BY <2>1 DEF Engine
<1>8. Quiet'
  BY DEF ResetState, Quiet
<1> QED BY <1>5, <1>6, <1>7, <1>8

Softwares == {"idle", "writing", "closing", "seen", "reading", "resetting", "cleaning"}

\* The upper half of the bus register holds something only in the cycle of a write of its own.
TopHeld == wdata_top' \in Seq(Nat) /\ (wdata' # <<>> => wdata_top' = <<>>)

(* Until software resets the block there is no reset, and every state is a phase. *)
LEMMA NoResetUntilAsked ==
  ASSUME ShaInv, software # "resetting"
  PROVE  NoReset /\ Phase
<1>1. software \in {"idle", "writing", "closing", "seen", "reading", "cleaning"}
  BY DEF ShaInv, ShaTyped, SoftTyped
<1>2. CASE software = "idle"
  BY <1>2 DEF ShaInv, BySoftware, NoCommand, Phase
<1>3. CASE software = "writing"
  BY <1>3 DEF ShaInv, BySoftware
<1>4. CASE software = "closing"
  <2>1. NoReset /\ start_t = 0 /\ (process_t > 0 => Phase) /\ (process_t = 0 => Padding \/ Adding \/ Digested)
    BY <1>4, Zenon DEF ShaInv, BySoftware
  <2>2. process_t \in Nat
    BY DEF ShaInv, ShaTyped, SoftTyped
  <2>3. process_t > 0 \/ process_t = 0
    BY <2>2
  <2> QED BY <2>1, <2>3, Zenon DEF Phase, Digested
<1>5. CASE software \in {"seen", "reading"}
  BY <1>5, Zenon DEF ShaInv, BySoftware, NoCommand, Phase, Digested
<1>6. CASE software = "cleaning"
  BY <1>6 DEF ShaInv, BySoftware, NoCommand, Phase
<1> QED BY <1>1, <1>2, <1>3, <1>4, <1>5, <1>6

(* The timers, the event and what software keeps have their types after every cycle. *)
LEMMA SoftTypedStep ==
  ASSUME ShaAssumption, ShaTyped, Hardware, TopHeld, software' \in Softwares, endian_swap' \in BOOLEAN,
         message' \in Seq(Nat), wdata' \in Seq(Nat)
  PROVE  SoftTyped'
<1>1. /\ start_t \in 0 .. Cross /\ process_t \in 0 .. Cross /\ reset_t \in 0 .. Cross /\ rescnt \in 0 .. ResetCycles
      /\ control_latch \in BOOLEAN /\ endian_swap \in BOOLEAN
  BY DEF ShaTyped, SoftTyped
<1>2. \A t \in 0 .. Cross : Crossed(t, TRUE) \in 0 .. Cross /\ Crossed(t, FALSE) \in 0 .. Cross
  BY DEF Crossed, ShaAssumption
<1>3. start_t' \in 0 .. Cross
  <2>1. start_t' = Crossed(start_t, TRUE) \/ start_t' = Crossed(start_t, FALSE)
    BY DEF Hardware, Commands
  <2> QED BY <1>1, <1>2, <2>1, Zenon
<1>4. process_t' \in 0 .. Cross
  <2>1. process_t' = Crossed(process_t, TRUE) \/ process_t' = Crossed(process_t, FALSE)
    BY DEF Hardware, Commands
  <2> QED BY <1>1, <1>2, <2>1, Zenon
<1>5. reset_t' \in 0 .. Cross
  <2>1. reset_t' = Crossed(reset_t, TRUE) \/ reset_t' = Crossed(reset_t, FALSE)
    BY DEF Hardware, Commands
  <2> QED BY <1>1, <1>2, <2>1, Zenon
<1>6. rescnt' \in 0 .. ResetCycles
  BY <1>1 DEF Hardware, Commands, ShaAssumption
<1>7. control_latch' \in BOOLEAN /\ sha512_done' \in BOOLEAN
  BY <1>1 DEF Hardware, Latch
<1> QED BY <1>3, <1>4, <1>5, <1>6, <1>7, Zenon DEF SoftTyped, Softwares, TopHeld

(* Neither a start nor an end is given. *)
LEMMA NothingGiven ==
  ASSUME Hardware, ~(software = "idle" /\ software' = "writing"), ~(software = "writing" /\ software' = "closing")
  PROVE  NoneGiven
BY DEF Hardware, Commands, NoneGiven

(* The reset timer starts when software asks for it. *)
LEMMA ResetTimer ==
  ASSUME ShaAssumption, Hardware, NoReset
  PROVE  /\ rescnt' = 0 /\ MachineNext
         /\ software # "resetting" /\ software' = "resetting" => reset_t' = Cross
         /\ software' # "resetting" => reset_t' = 0
<1>1. reset_t = 0 /\ rescnt = 0 /\ ~sw_reset
  BY DEF NoReset, sw_reset
<1>2. rescnt' = 0
  BY <1>1 DEF Hardware, Commands
<1>3. MachineNext
  BY <1>1 DEF Hardware, MachineNext
<1>4. reset_t' = Crossed(0, software # "resetting" /\ software' = "resetting")
  BY <1>1 DEF Hardware, Commands
<1>5. Crossed(0, TRUE) = Cross /\ Crossed(0, FALSE) = 0
  BY DEF Crossed
<1>6. software # "resetting" /\ software' = "resetting" => reset_t' = Cross
  BY <1>4, <1>5
<1>7. software' # "resetting" => reset_t' = 0
  BY <1>4, <1>5
<1> QED BY <1>2, <1>3, <1>6, <1>7

(* A cycle without a reset in which software adds no byte and gives no command. *)
LEMMA RunningStep ==
  ASSUME ShaAssumption, ShaInv, software # "resetting", Hardware, TopHeld, Rests, NoneGiven,
         software' \in Softwares, endian_swap' \in BOOLEAN
  PROVE  /\ ShaTyped' /\ Engine' /\ Room' /\ Phase'
         /\ rescnt' = 0 /\ (software' = "resetting" => reset_t' = Cross) /\ (software' # "resetting" => reset_t' = 0)
         /\ start_t > 0 /\ start_t' = 0 => Receiving'
         /\ start_t = 0 /\ process_t = 0 /\ Receiving => Receiving'
         /\ process_t > 0 /\ process_t' = 0 => Padding'
         /\ start_t = 0 /\ process_t = 0 /\ Padding => Padding' \/ Adding'
         /\ start_t = 0 /\ process_t = 0 /\ Adding => Digested'
         /\ start_t = 0 /\ process_t = 0 /\ Digested => Digested'
         /\ start_t = 0 => start_t' = 0
         /\ process_t = 0 => process_t' = 0
         /\ ~hash_done /\ ~sha512_done => ~sha512_done'
<1>1. ShaTyped /\ Engine /\ Room /\ NoReset /\ Phase
  BY NoResetUntilAsked DEF ShaInv
<1>2. /\ rescnt' = 0 /\ MachineNext
      /\ (software' = "resetting" => reset_t' = Cross) /\ (software' # "resetting" => reset_t' = 0)
  BY <1>1, ResetTimer
<1>3. Latch
  BY DEF Hardware
<1>4. /\ MachineTyped' /\ Engine' /\ Room' /\ Phase'
      /\ start_t > 0 /\ start_t' = 0 => Receiving'
      /\ start_t = 0 /\ process_t = 0 /\ Receiving => Receiving'
      /\ process_t > 0 /\ process_t' = 0 => Padding'
      /\ start_t = 0 /\ process_t = 0 /\ Padding => Padding' \/ Adding'
      /\ start_t = 0 /\ process_t = 0 /\ Adding => Digested'
      /\ start_t = 0 /\ process_t = 0 /\ Digested => Digested'
  BY <1>1, <1>2, <1>3, PhaseStep
<1>5. SoftTyped'
  <2>1. message' \in Seq(Nat) /\ wdata' \in Seq(Nat)
    BY <1>1 DEF Rests, ShaTyped, SoftTyped
  <2> QED BY <1>1, <2>1, SoftTypedStep
<1>6. (start_t = 0 => start_t' = 0) /\ (process_t = 0 => process_t' = 0)
  BY DEF NoneGiven, Crossed
<1>7. ~hash_done /\ ~sha512_done => ~sha512_done'
  BY DEF Hardware
<1> QED BY <1>2, <1>4, <1>5, <1>6, <1>7, Zenon DEF ShaTyped

(* Software does nothing, or changes the configuration: the hash goes on.  *)
LEMMA HashGoesOn ==
  ASSUME ShaAssumption, ShaInv, software # "resetting", software' = software, Hardware, TopHeld, Rests, endian_swap' \in BOOLEAN
  PROVE  ShaInv'
<1>1. software \in {"idle", "writing", "closing", "seen", "reading", "cleaning"} /\ software' \in Softwares
  BY DEF ShaInv, ShaTyped, SoftTyped, Softwares
<1>2. NoneGiven
  BY NothingGiven
<1>3. /\ ShaTyped' /\ Engine' /\ Room' /\ Phase' /\ rescnt' = 0 /\ (software' # "resetting" => reset_t' = 0)
      /\ start_t > 0 /\ start_t' = 0 => Receiving'
      /\ start_t = 0 /\ process_t = 0 /\ Receiving => Receiving'
      /\ process_t > 0 /\ process_t' = 0 => Padding'
      /\ start_t = 0 /\ process_t = 0 /\ Padding => Padding' \/ Adding'
      /\ start_t = 0 /\ process_t = 0 /\ Adding => Digested'
      /\ start_t = 0 /\ process_t = 0 /\ Digested => Digested'
      /\ start_t = 0 => start_t' = 0
      /\ process_t = 0 => process_t' = 0
      /\ ~hash_done /\ ~sha512_done => ~sha512_done'
  BY <1>1, <1>2, RunningStep
<1>4. NoReset'
  BY <1>3 DEF NoReset
<1>5. BySoftware /\ start_t \in Nat /\ process_t \in Nat
  BY DEF ShaInv, ShaTyped, SoftTyped
<1>6. /\ (start_t > 0 \/ start_t = 0) /\ (process_t > 0 \/ process_t = 0)
      /\ ~(start_t > 0 /\ start_t = 0) /\ ~(process_t > 0 /\ process_t = 0)
  BY <1>5
<1>a. ~hash_done \/ Adding \/ ~Phase
  BY DEF Phase, Quiet, Receiving, Padding
<1>7. CASE software \in {"idle", "cleaning"}
  <2>1. NoCommand /\ Quiet /\ (software = "idle" => ~sha512_done)
    BY <1>5, <1>7 DEF BySoftware
  <2>2. NoCommand' /\ Phase' /\ (software' = "idle" => ~sha512_done')
    BY <1>3, <2>1 DEF NoCommand, Quiet
  <2>3. MachineNext /\ ~hash_start /\ ~hash_process
    <3>1. NoReset
      BY <1>1, NoResetUntilAsked
    <3> QED BY <2>1, <3>1, ResetTimer DEF NoCommand, hash_start, hash_process
  <2>4. Quiet'
    BY <2>1, <2>3, QuietStays DEF ShaInv, Rests
  <2> QED BY <1>3, <1>4, <1>7, <2>2, <2>4 DEF ShaInv, BySoftware
<1>8. CASE software = "writing"
  <2>1. process_t = 0 /\ ~sha512_done /\ Phase /\ (start_t = 0 => Receiving)
    BY <1>5, <1>8 DEF BySoftware
  <2>2. start_t' = 0 => Receiving'
    BY <1>3, <1>6, <2>1
  <2>3. ~hash_done
    <3>1. start_t > 0 => Quiet
      BY <1>6, <2>1, Zenon DEF Phase
    <3> QED BY <1>6, <2>1, <3>1, Zenon DEF Quiet, Receiving
  <2> QED BY <1>3, <1>4, <1>8, <2>1, <2>2, <2>3 DEF ShaInv, BySoftware
<1>9. CASE software = "closing"
  <2>1. /\ start_t = 0
        /\ process_t > 0 => ~sha512_done /\ Phase
        /\ process_t = 0 => \/ ~sha512_done /\ (Padding \/ Adding)
                            \/ Digested
    BY <1>5, <1>9, Zenon DEF BySoftware
  <2>2. CASE process_t > 0
    <3>1. ~sha512_done /\ Receiving
      BY <1>6, <2>1, <2>2, Zenon DEF Phase
    <3>2. ~sha512_done'
      BY <1>3, <3>1, Zenon DEF Receiving
    <3>3. process_t' = 0 => Padding'
      BY <1>3, <2>2
    <3> QED BY <1>3, <1>4, <1>9, <2>1, <3>2, <3>3 DEF ShaInv, BySoftware
  <2>3. CASE process_t = 0
    <3>1. process_t' = 0 /\ start_t' = 0 /\ ~(process_t' > 0)
      BY <1>3, <2>1, <2>3
    <3>2. CASE ~sha512_done /\ Padding
      <4>1. ~sha512_done' /\ (Padding' \/ Adding')
        BY <1>3, <2>1, <2>3, <3>2, Zenon DEF Padding
      <4> QED BY <1>3, <1>4, <1>9, <3>1, <4>1 DEF ShaInv, BySoftware
    <3>3. CASE Adding \/ Digested
      <4>1. Digested'
        BY <1>3, <2>1, <2>3, <3>3, Zenon
      <4> QED BY <1>3, <1>4, <1>9, <3>1, <4>1 DEF ShaInv, BySoftware
    <3> QED BY <2>1, <2>3, <3>2, <3>3, Zenon
  <2> QED BY <1>6, <2>2, <2>3
<1>10. CASE software \in {"seen", "reading"}
  <2>1. NoCommand /\ Digested /\ ~hash_done /\ (software = "reading" => ~sha512_done)
    BY <1>5, <1>10 DEF BySoftware, Digested, Quiet
  <2>2. NoCommand' /\ Digested' /\ (software' = "reading" => ~sha512_done')
    BY <1>3, <2>1 DEF NoCommand
  <2> QED BY <1>3, <1>4, <1>10, <2>2 DEF ShaInv, BySoftware
<1> QED BY <1>1, <1>7, <1>8, <1>9, <1>10

(* Software starts a hash: the command is on its way to machines at rest. *)
LEMMA StartStep ==
  ASSUME ShaAssumption, ShaInv, Start, Hardware, TopHeld
  PROVE  ShaInv'
<1>1. software = "idle" /\ software' = "writing" /\ message' = <<>> /\ wdata' = <<>> /\ endian_swap' = endian_swap
  BY DEF Start
<1>2. /\ NoReset /\ NoCommand /\ ~sha512_done /\ Quiet
      /\ ShaTyped /\ Engine /\ Room
  BY <1>1 DEF ShaInv, BySoftware
<1>3. rescnt' = 0 /\ MachineNext /\ reset_t' = 0
  BY <1>1, <1>2, ResetTimer
<1>4. ~hash_start /\ ~hash_process
  BY <1>2 DEF NoCommand, hash_start, hash_process
<1>5. MachineTyped' /\ Engine' /\ Room' /\ Quiet'
  BY <1>1, <1>2, <1>3, <1>4, QuietStays
<1>6. SoftTyped'
  <2>1. <<>> \in Seq(Nat)
    OBVIOUS
  <2>2. software' \in Softwares /\ endian_swap' \in BOOLEAN
    BY <1>1, <1>2 DEF Softwares, ShaTyped, SoftTyped
  <2> QED BY <1>1, <1>2, <2>1, <2>2, SoftTypedStep
<1>7. start_t' = Cross /\ process_t' = 0 /\ Cross > 0 /\ Cross # 0
  BY <1>1, <1>2 DEF Hardware, Commands, Crossed, NoCommand, ShaAssumption
<1>8. ~sha512_done'
  BY <1>1, <1>2 DEF Hardware, Quiet
<1>9. Phase'
  BY <1>1, <1>5, <1>7 DEF Phase
<1> QED BY <1>1, <1>3, <1>5, <1>6, <1>7, <1>8, <1>9 DEF ShaInv, ShaTyped, BySoftware, NoReset

(* What software puts on the bus: the numbers of the next bytes. *)
LEMMA NextBytes ==
  ASSUME ShaAssumption, NEW l \in Nat, NEW n \in {1, WordBytes \div 2}
  PROVE  /\ [k \in 1 .. n |-> l + k] \in Seq(Nat) /\ Len([k \in 1 .. n |-> l + k]) = n
         /\ n <= WordBytes
<1>1. WordBytes \in Nat /\ WordBytes > 1
  BY DEF ShaAssumption
<1>2. n \in Nat /\ n <= WordBytes
  BY <1>1
<1> QED BY <1>2

(* Software writes: the bytes come after those that are in the machines.   *)
LEMMA WriteStep ==
  ASSUME ShaAssumption, ShaInv, Write, Hardware, TopHeld
  PROVE  ShaInv'
<1>1. /\ software = "writing" /\ software' = "writing" /\ start_t = 0 /\ wdata = <<>> /\ Len(fifo) < AlmostFull
      /\ message' = message \o Ordered(wdata', control_latch) /\ endian_swap' = endian_swap
  BY DEF Write, bus_free
<1>2. /\ NoReset /\ process_t = 0 /\ ~sha512_done /\ Receiving
      /\ ShaTyped /\ Engine /\ Room
  BY <1>1 DEF ShaInv, BySoftware
<1>3. rescnt' = 0 /\ MachineNext /\ reset_t' = 0 /\ Latch
  BY <1>1, <1>2, ResetTimer DEF Hardware
<1>4. ~hash_start /\ ~hash_process
  BY <1>1, <1>2 DEF hash_start, hash_process
<1>5. wdata' \in Seq(Nat) /\ Len(wdata') <= WordBytes
  <2>1. Len(message) \in Nat
    BY <1>2 DEF ShaTyped, SoftTyped
  <2>2. PICK n \in {1, WordBytes \div 2} : wdata' = [k \in 1 .. n |-> Len(message) + k]
    BY Zenon DEF Write
  <2>3. /\ [k \in 1 .. n |-> Len(message) + k] \in Seq(Nat)
        /\ Len([k \in 1 .. n |-> Len(message) + k]) = n /\ n <= WordBytes
    BY <2>1, NextBytes
  <2> QED BY <2>2, <2>3, Zenon
<1>6. Grows
  BY <1>1, <1>4, <1>5 DEF Grows, Bus
<1>7. MachineTyped' /\ Engine' /\ Room' /\ Receiving'
  BY <1>2, <1>3, <1>4, <1>6, ReceivingStays
<1>8. SoftTyped'
  <2>1. message \in Seq(Nat) /\ Ordered(wdata', control_latch) \in Seq(Nat)
    BY <1>2, <1>5, OrderedProperties DEF ShaTyped, SoftTyped
  <2>2. message' \in Seq(Nat)
    BY <1>1, <2>1, ConcatProperties
  <2>3. software' \in Softwares /\ endian_swap' \in BOOLEAN
    BY <1>1, <1>2 DEF Softwares, ShaTyped, SoftTyped
  <2> QED BY <1>2, <1>5, <2>2, <2>3, SoftTypedStep
<1>9. start_t' = 0 /\ process_t' = 0
  BY <1>1, <1>2 DEF Hardware, Commands, Crossed
<1>10. ~sha512_done'
  BY <1>1, <1>2 DEF Hardware, Receiving
<1>11. Phase'
  BY <1>7, <1>9 DEF Phase
<1> QED BY <1>1, <1>3, <1>7, <1>8, <1>9, <1>10, <1>11 DEF ShaInv, ShaTyped, BySoftware, NoReset

(* Software closes the message once the FIFO is empty.                     *)
LEMMA CloseStep ==
  ASSUME ShaAssumption, Patient, ShaInv, Close, Hardware, TopHeld
  PROVE  ShaInv'
<1>1. /\ software = "writing" /\ software' = "closing" /\ start_t = 0 /\ wdata = <<>> /\ wdata' = <<>> /\ fifo = <<>>
      /\ message' = message /\ endian_swap' = endian_swap
  BY DEF Close, bus_free
<1>2. /\ NoReset /\ process_t = 0 /\ ~sha512_done /\ Receiving
      /\ ShaTyped /\ Engine /\ Room
  BY <1>1 DEF ShaInv, BySoftware
<1>3. rescnt' = 0 /\ MachineNext /\ reset_t' = 0 /\ Latch
  BY <1>1, <1>2, ResetTimer DEF Hardware
<1>4. ~hash_start /\ ~hash_process
  BY <1>1, <1>2 DEF hash_start, hash_process
<1>5. Grows
  BY <1>1, <1>2, RestsGrows DEF Rests
<1>6. MachineTyped' /\ Engine' /\ Room' /\ Receiving' /\ fifo' = <<>>
  BY <1>1, <1>2, <1>3, <1>4, <1>5, ReceivingStays
<1>7. SoftTyped'
  <2>1. software' \in Softwares /\ endian_swap' \in BOOLEAN /\ message' \in Seq(Nat) /\ wdata' \in Seq(Nat)
    BY <1>1, <1>2 DEF Softwares, ShaTyped, SoftTyped
  <2> QED BY <1>2, <2>1, SoftTypedStep
<1>8. start_t' = 0 /\ process_t' = Cross /\ Cross > 0 /\ Cross # 0
  BY <1>1, <1>2 DEF Hardware, Commands, Crossed, ShaAssumption
<1>9. ~sha512_done'
  BY <1>1, <1>2 DEF Hardware, Receiving
<1>10. Phase'
  BY <1>1, <1>6, <1>8 DEF Phase
<1> QED BY <1>1, <1>3, <1>6, <1>7, <1>8, <1>9, <1>10 DEF ShaInv, ShaTyped, BySoftware, NoReset

(* Software sees the event: the digest is there.                           *)
LEMMA SeeDoneStep ==
  ASSUME ShaAssumption, ShaInv, SeeDone, Hardware, TopHeld
  PROVE  ShaInv'
<1>1. software = "closing" /\ software' = "seen" /\ sha512_done /\ Rests /\ endian_swap' = endian_swap
  BY DEF SeeDone, Rests
<1>2. start_t = 0 /\ process_t = 0 /\ Digested
  <2>1. /\ start_t = 0
        /\ process_t > 0 => ~sha512_done
        /\ process_t = 0 => ~sha512_done \/ Digested
    BY <1>1, Zenon DEF ShaInv, BySoftware
  <2>2. process_t > 0 \/ process_t = 0
    BY DEF ShaInv, ShaTyped, SoftTyped
  <2> QED BY <1>1, <2>1, <2>2, Zenon
<1>3. NoneGiven
  BY <1>1, NothingGiven
<1>4. /\ ShaTyped' /\ Engine' /\ Room' /\ rescnt' = 0 /\ reset_t' = 0
      /\ Digested' /\ start_t' = 0 /\ process_t' = 0
  <2>1. software' \in Softwares /\ endian_swap' \in BOOLEAN /\ software # "resetting" /\ software' # "resetting"
    BY <1>1 DEF Softwares, ShaInv, ShaTyped, SoftTyped
  <2> QED BY <1>1, <1>2, <1>3, <2>1, RunningStep
<1> QED BY <1>1, <1>4 DEF ShaInv, BySoftware, NoReset, NoCommand

(* Software clears the event: after a poll the digest stays, after a reset the machines rest. *)
LEMMA ClearDoneStep ==
  ASSUME ShaAssumption, ShaInv, ClearDone, Hardware, TopHeld
  PROVE  ShaInv'
<1>1. /\ Rests /\ endian_swap' = endian_swap
      /\ \/ software = "seen" /\ software' = "reading"
         \/ software = "cleaning" /\ software' = "idle"
  BY DEF ClearDone, Rests
<1>2. start_t = 0 /\ process_t = 0 /\ Quiet /\ (software = "seen" => Digested)
  BY <1>1 DEF ShaInv, BySoftware, NoCommand, Digested
<1>3. NoneGiven
  BY <1>1, NothingGiven
<1>4. /\ ShaTyped' /\ Engine' /\ Room' /\ rescnt' = 0 /\ reset_t' = 0
      /\ start_t' = 0 /\ process_t' = 0 /\ (software = "seen" => Digested')
  <2>1. software' \in Softwares /\ endian_swap' \in BOOLEAN /\ software # "resetting" /\ software' # "resetting"
    BY <1>1 DEF Softwares, ShaInv, ShaTyped, SoftTyped
  <2> QED BY <1>1, <1>2, <1>3, <2>1, RunningStep
<1>5. ~sha512_done'
  BY <1>1, <1>2 DEF Hardware, cleared, Quiet
<1>6. Quiet'
  <2>1. MachineNext /\ ~hash_start /\ ~hash_process
    <3>1. NoReset
      BY <1>1, NoResetUntilAsked
    <3> QED BY <1>2, <3>1, ResetTimer DEF hash_start, hash_process
  <2> QED BY <1>1, <1>2, <2>1, QuietStays DEF ShaInv, Rests
<1> QED BY <1>1, <1>4, <1>5, <1>6 DEF ShaInv, BySoftware, NoReset, NoCommand

(* Software has read the digest.                                           *)
LEMMA FinishStep ==
  ASSUME ShaAssumption, ShaInv, Finish, Hardware, TopHeld
  PROVE  ShaInv'
<1>1. software = "reading" /\ software' = "idle" /\ Rests /\ endian_swap' = endian_swap
  BY DEF Finish, Rests
<1>2. start_t = 0 /\ process_t = 0 /\ Digested /\ ~sha512_done
  BY <1>1 DEF ShaInv, BySoftware, NoCommand
<1>3. NoneGiven
  BY <1>1, NothingGiven
<1>4. /\ ShaTyped' /\ Engine' /\ Room' /\ rescnt' = 0 /\ reset_t' = 0
      /\ Digested' /\ start_t' = 0 /\ process_t' = 0
  <2>1. software' \in Softwares /\ endian_swap' \in BOOLEAN /\ software # "resetting" /\ software' # "resetting"
    BY <1>1 DEF Softwares, ShaInv, ShaTyped, SoftTyped
  <2> QED BY <1>1, <1>2, <1>3, <2>1, RunningStep
<1>5. ~sha512_done'
  BY <1>1, <1>2 DEF Hardware, Digested, Quiet
<1> QED BY <1>1, <1>4, <1>5 DEF ShaInv, BySoftware, NoReset, NoCommand, Digested

(* Software asks for a reset: no other command can come after it.          *)
LEMMA ResetStep ==
  ASSUME ShaAssumption, ShaInv, software # "resetting", Reset, Hardware, TopHeld
  PROVE  ShaInv'
<1>1. software' = "resetting" /\ Rests /\ endian_swap' = endian_swap
  BY DEF Reset, Rests
<1>2. NoneGiven
  BY <1>1, NothingGiven
<1>3. ShaTyped' /\ Engine' /\ Room' /\ rescnt' = 0 /\ reset_t' = Cross /\ Phase'
  <2>1. software' \in Softwares /\ endian_swap' \in BOOLEAN
    BY <1>1 DEF Softwares, ShaInv, ShaTyped, SoftTyped
  <2> QED BY <1>1, <1>2, <2>1, RunningStep
<1>4. start_t' < Cross /\ process_t' < Cross /\ Cross > 0
  <2>1. start_t \in 0 .. Cross /\ process_t \in 0 .. Cross
    BY DEF ShaInv, ShaTyped, SoftTyped
  <2>2. Crossed(start_t, FALSE) < Cross /\ Crossed(process_t, FALSE) < Cross
    BY <2>1, CrossedIs
  <2>3. Cross > 0
    BY DEF ShaAssumption
  <2> QED BY <1>2, <2>2, <2>3, Zenon DEF NoneGiven
<1>5. InReset'
  BY <1>1, <1>3, <1>4 DEF InReset, Rests
<1> QED BY <1>1, <1>3, <1>5 DEF ShaInv, BySoftware

(* While a reset is on its way and lasts, and when it is over.             *)
LEMMA ResettingStep ==
  ASSUME ShaAssumption, ShaInv, software = "resetting", Hardware, TopHeld, Rests, endian_swap' \in BOOLEAN,
         \/ software' = "resetting"
         \/ software' = "cleaning" /\ reset_t = 0 /\ ~sw_reset
  PROVE  ShaInv'
<1>1. ShaTyped /\ Engine /\ Room /\ InReset
  BY DEF ShaInv, BySoftware
<1>2. /\ start_t \in 0 .. Cross /\ process_t \in 0 .. Cross /\ reset_t \in 0 .. Cross /\ rescnt \in 0 .. ResetCycles
      /\ ResetCycles \in Nat \ {0} /\ Cross \in Nat \ {0}
  BY <1>1 DEF ShaTyped, SoftTyped, ShaAssumption
<1>3. NoneGiven
  BY NothingGiven
<1>4. SoftTyped'
  <2>1. message' \in Seq(Nat) /\ wdata' \in Seq(Nat) /\ software' \in Softwares
    BY <1>1 DEF Rests, ShaTyped, SoftTyped, Softwares
  <2> QED BY <1>1, <2>1, SoftTypedStep
<1>5. /\ reset_t' = Crossed(reset_t, FALSE)
      /\ rescnt' = IF reset_t = 1 THEN ResetCycles ELSE IF rescnt > 0 THEN rescnt - 1 ELSE 0
      /\ Latch
  BY DEF Hardware, Commands
<1>6. wdata' = <<>> /\ wdata = <<>>
  BY <1>1 DEF Rests, InReset
<1>7. /\ start_t = 0 => start_t' = 0
      /\ process_t = 0 => process_t' = 0
      /\ reset_t = 0 => reset_t' = 0
  BY <1>3, <1>5 DEF NoneGiven, Crossed
<1>8. CASE rescnt = 0 /\ reset_t > 0 /\ start_t < reset_t /\ process_t < reset_t /\ Phase
  <2>1. MachineNext
    BY <1>8 DEF Hardware, MachineNext, sw_reset
  <2>2. MachineTyped' /\ Engine' /\ Room' /\ Phase'
    BY <1>1, <1>3, <1>5, <1>8, <2>1, PhaseStep
  <2>3. software' = "resetting"
    BY <1>2, <1>8
  <2>4. CASE reset_t = 1
    <3>1. start_t' = 0 /\ process_t' = 0
      BY <1>2, <1>7, <1>8, <2>4
    <3>2. reset_t' = 0 /\ rescnt' = ResetCycles
      BY <1>5, <2>4 DEF Crossed
    <3>3. InReset'
      BY <1>6, <3>1, <3>2 DEF InReset, NoCommand
    <3> QED BY <1>4, <2>2, <2>3, <3>3 DEF ShaInv, ShaTyped, BySoftware
  <2>5. CASE reset_t # 1
    <3>1. rescnt' = 0
      BY <1>5, <1>8, <2>5
    <3>2. reset_t' > 0
      BY <1>2, <1>5, <1>8, <2>5, CrossedIs
    <3>3. start_t' < reset_t' /\ process_t' < reset_t'
      <4>1. \A t \in 0 .. Cross : t < reset_t => Crossed(t, FALSE) < Crossed(reset_t, FALSE)
        BY <1>2, <1>8, <2>5, CrossedIs
      <4> QED BY <1>2, <1>3, <1>5, <1>8, <4>1, Zenon DEF NoneGiven
    <3>4. InReset'
      BY <1>6, <2>2, <3>1, <3>2, <3>3 DEF InReset
    <3> QED BY <1>4, <2>2, <2>3, <3>4 DEF ShaInv, ShaTyped, BySoftware
  <2> QED BY <2>4, <2>5
<1>9. CASE reset_t = 0 /\ NoCommand /\ (rescnt = ResetCycles \/ (rescnt < ResetCycles /\ Quiet))
  <2>1. MachineTyped' /\ Engine' /\ Room' /\ Quiet'
    <3>1. CASE rescnt > 0
      <4>1. ResetState
        BY <3>1 DEF Hardware, sw_reset
      <4> QED BY <1>6, <4>1, ResetLeaves
    <3>2. CASE ~(rescnt > 0)
      <4>1. MachineNext
        BY <3>2 DEF Hardware, MachineNext, sw_reset
      <4>2. Quiet /\ ~hash_start /\ ~hash_process
        BY <1>2, <1>9, <3>2 DEF NoCommand, hash_start, hash_process
      <4> QED BY <1>1, <1>6, <4>1, <4>2, QuietStays
    <3> QED BY <3>1, <3>2
  <2>2. NoCommand' /\ reset_t' = 0
    BY <1>7, <1>9 DEF NoCommand
  <2>3. rescnt' < ResetCycles /\ (rescnt = 0 => rescnt' = 0)
    BY <1>2, <1>5, <1>9
  <2>4. CASE software' = "resetting"
    <3>1. InReset'
      BY <1>6, <2>1, <2>2, <2>3 DEF InReset
    <3> QED BY <1>4, <2>1, <2>4, <3>1 DEF ShaInv, ShaTyped, BySoftware
  <2>5. CASE software' = "cleaning" /\ ~sw_reset
    <3>1. rescnt = 0
      BY <1>2, <2>5 DEF sw_reset
    <3> QED BY <1>4, <2>1, <2>2, <2>3, <2>5, <3>1 DEF ShaInv, ShaTyped, BySoftware, NoReset
  <2> QED BY <2>4, <2>5
<1> QED BY <1>1, <1>8, <1>9 DEF InReset

(* The initial state is one without a message. *)
LEMMA ShaInvInit ==
  ASSUME ShaAssumption, ShaInit
  PROVE  ShaInv
<1>1. Len(<<>>) = 0 /\ <<>> \in Seq(Nat) /\ <<>> \in Seq(Word)
  OBVIOUS
<1>2. /\ WordBytes \in Nat /\ WordBytes > 1 /\ BlockWords \in Nat /\ BlockWords > 2
      /\ NumRound \in Nat /\ NumRound > 1 /\ AlmostFull \in Nat /\ Cross \in Nat /\ ResetCycles \in Nat
  BY DEF ShaAssumption
<1>3. /\ 0 \in Nat /\ 0 \in 0 .. NumRound - 1 /\ 0 <= AlmostFull /\ 0 <= 0 /\ 0 < WordBytes /\ 0 <= WordBytes /\ 0 < BlockWords
      /\ 0 \in 0 .. Cross /\ 0 \in 0 .. ResetCycles
  BY <1>2
<1>4. 0 % BlockWords = 0
  BY <1>2
<1>5. ShaTyped
  <2>1. SoftTyped
    BY <1>1, <1>3 DEF ShaInit, SoftTyped
  <2>2. MachineTyped
    BY <1>1, <1>3, Zenon DEF ShaInit, MachineTyped
  <2> QED BY <2>1, <2>2 DEF ShaTyped
<1>6. Room
  BY <1>1, <1>3, Zenon DEF ShaInit, Room
<1>7. Engine
  <2>1. Len(digest) % BlockWords = 0 /\ w = <<>> /\ fifo_st = "FifoIdle" /\ sha_st = "ShaIdle" /\ round = 0
    BY <1>1, <1>4, Zenon DEF ShaInit
  <2> QED BY <2>1 DEF Engine
<1>8. BySoftware
  BY DEF ShaInit, BySoftware, NoReset, NoCommand, Quiet
<1> QED BY <1>5, <1>6, <1>7, <1>8 DEF ShaInv

(* Every step keeps each byte of the message in its place.                 *)
LEMMA ShaInvStep ==
  ASSUME ShaAssumption, Patient, Clears, ShaInv, [ShaNext]_shaVars
  PROVE  ShaInv'
<1>1. endian_swap \in BOOLEAN
  BY DEF ShaInv, ShaTyped, SoftTyped
<1>a. ASSUME wdata_top' = <<>> PROVE TopHeld
  <2>1. <<>> \in Seq(Nat)
    OBVIOUS
  <2> QED BY <1>a, <2>1 DEF TopHeld
<1>b. CASE WriteTop /\ Hardware
  <2>1. wdata' = <<>> /\ software = "writing" /\ Rests /\ software' = software /\ endian_swap' \in BOOLEAN
    BY <1>1, <1>b DEF WriteTop, Idles, Rests, sw
  <2>2. <<0>> \in Seq(Nat)
    OBVIOUS
  <2>3. TopHeld
    BY <1>b, <2>1, <2>2 DEF WriteTop, TopHeld
  <2> QED BY <1>b, <2>1, <2>3, HashGoesOn
<1>2. CASE (Idles \/ Configure) /\ wdata_top' = <<>> /\ Hardware
  <2>1. Rests /\ software' = software /\ endian_swap' \in BOOLEAN
    BY <1>1, <1>2 DEF Idles, Configure, Rests, sw
  <2>2. CASE software = "resetting"
    BY <1>2, <1>a, <2>1, <2>2, ResettingStep
  <2>3. CASE software # "resetting"
    BY <1>2, <1>a, <2>1, <2>3, HashGoesOn
  <2> QED BY <2>2, <2>3
<1>3. CASE Start /\ wdata_top' = <<>> /\ Hardware
  BY <1>a, <1>3, StartStep
<1>4. CASE Write /\ wdata_top' = <<>> /\ Hardware
  BY <1>a, <1>4, WriteStep
<1>5. CASE Close /\ wdata_top' = <<>> /\ Hardware
  BY <1>a, <1>5, CloseStep
<1>6. CASE SeeDone /\ wdata_top' = <<>> /\ Hardware
  BY <1>a, <1>6, SeeDoneStep
<1>c. CASE ClearDone /\ wdata_top' = <<>> /\ Hardware
  BY <1>a, <1>c, ClearDoneStep
<1>7. CASE Finish /\ wdata_top' = <<>> /\ Hardware
  BY <1>a, <1>7, FinishStep
<1>8. CASE Reset /\ wdata_top' = <<>> /\ Hardware
  <2>1. CASE software = "resetting"
    <3>1. Rests /\ software' = "resetting" /\ endian_swap' \in BOOLEAN
      BY <1>1, <1>8 DEF Reset, Rests
    <3> QED BY <1>8, <1>a, <2>1, <3>1, ResettingStep
  <2>2. CASE software # "resetting"
    BY <1>8, <1>a, <2>2, ResetStep
  <2> QED BY <2>1, <2>2
<1>9. CASE ResetOver /\ wdata_top' = <<>> /\ Hardware
  <2>1. Rests /\ software = "resetting" /\ software' = "cleaning" /\ reset_t = 0 /\ ~sw_reset /\ endian_swap' \in BOOLEAN
    BY <1>1, <1>9 DEF ResetOver, Rests
  <2> QED BY <1>9, <1>a, <2>1, ResettingStep
<1>10. CASE UNCHANGED shaVars
  <2>1. /\ software' = software /\ endian_swap' = endian_swap /\ message' = message /\ wdata' = wdata /\ start_t' = start_t /\ process_t' = process_t
        /\ reset_t' = reset_t /\ rescnt' = rescnt /\ control_latch' = control_latch /\ cfg_block' = cfg_block /\ msg_allowed' = msg_allowed
        /\ message_length' = message_length /\ stored' = stored /\ fifo' = fifo /\ shown' = shown /\ pad_st' = pad_st /\ tx_count' = tx_count
        /\ hash_process_flag' = hash_process_flag /\ fifo_st' = fifo_st /\ w' = w /\ sha_st' = sha_st /\ round' = round /\ hash' = hash /\ digest' = digest
        /\ hash_done' = hash_done /\ sha512_done' = sha512_done /\ wdata_top' = wdata_top
    BY <1>10 DEF shaVars, sw, control, datapath, pad, engine
  <2>2. SoftTyped'
    BY <2>1, Zenon DEF ShaInv, ShaTyped, SoftTyped
  <2>3. MachineTyped'
    BY <2>1, Zenon DEF ShaInv, ShaTyped, MachineTyped
  <2>4. Engine' /\ Room'
    BY <2>1, Zenon DEF ShaInv, Engine, Room
  <2>5. Sent' = Sent
    BY <2>1, Zenon DEF Sent
  <2>6. (Quiet => Quiet') /\ (Adding => Adding') /\ (Digested => Digested')
    BY <2>1, Zenon DEF Quiet, Adding, Digested
  <2>7. Receiving => Receiving'
    BY <2>1, <2>5, Zenon DEF Receiving
  <2>8. Padding => Padding'
    <3>1. partial' <=> partial
      BY <2>1, Zenon DEF partial
    <3> QED BY <2>1, <2>5, <3>1, Zenon DEF Padding
  <2>9. Phase => Phase'
    BY <2>1, <2>6, <2>7, <2>8, Zenon DEF Phase
  <2>10. InReset => InReset'
    BY <2>1, <2>6, <2>9, Zenon DEF InReset, NoCommand
  <2>11. BySoftware'
    BY <2>1, <2>6, <2>7, <2>8, <2>9, <2>10 DEF ShaInv, BySoftware, NoReset, NoCommand
  <2> QED BY <2>2, <2>3, <2>4, <2>11 DEF ShaInv, ShaTyped
<1> QED BY <1>2, <1>3, <1>4, <1>5, <1>6, <1>7, <1>8, <1>9, <1>10, <1>b, <1>c DEF ShaNext, Software

(* What the invariant says of the digest, the blocks and the FIFO.         *)
LEMMA ShaInvCorrect ==
  ASSUME ShaAssumption, ShaInv
  PROVE  HashCorrect
<1>1. DigestIsOfMessage
  BY DEF ShaInv, BySoftware, Digested, DigestIsOfMessage
<1>2. WholeBlocks
  BY DEF ShaInv, Engine, WholeBlocks, run_hash
<1>3. FifoHasRoom
  <2>1. Len(fifo) \in Nat /\ Len(fifo) <= AlmostFull
    BY DEF ShaInv, ShaTyped, MachineTyped, Room
  <2> QED BY <2>1 DEF FifoHasRoom, ShaAssumption
<1> QED BY <1>1, <1>2, <1>3 DEF HashCorrect

(* The words taken by the engine, those in the FIFO, and the bytes in the  *)
(* packer and on the bus stay the message, in order                        *)
(* (sha512_opentitan.py:64, prim_packer.sv:50, sha512_pad.sv:59).          *)
THEOREM ShaInvariant ==
  ASSUME ShaAssumption, Patient, Clears
  PROVE  ShaSpec => []ShaInv
<1>1. ShaInit => ShaInv
  BY ShaInvInit
<1>2. ShaInv /\ [ShaNext]_shaVars => ShaInv'
  BY ShaInvStep
<1> QED BY <1>1, <1>2, PTL DEF ShaSpec

(* The digest software reads is that of the message it wrote, padded as    *)
(* SHA-512 has it, of whole blocks, and the FIFO has room                  *)
(* (sha512_opentitan.py:64, 121).                                          *)
THEOREM HashIsCorrect ==
  ASSUME ShaAssumption, Patient, Clears
  PROVE  ShaSpec => []HashCorrect
<1>1. ShaInv => HashCorrect
  BY ShaInvCorrect
<1> QED BY <1>1, ShaInvariant, PTL
=============================================================================
