------------------------------ MODULE Watchdog ------------------------------
(***************************************************************************)
(* The watchdog timer (wdt.py): it counts on the FPGA's configuration      *)
(* clock, whose frequency is anywhere within 50% of 65 MHz, and takes      *)
(* kicks, the enable and the period from registers in sys.                 *)
(*                                                                         *)
(* One step is an edge of sys (10 ns) and before it perhaps one of wdt,    *)
(* which is slower: 1 to MaxGap steps after its last one.                  *)
(***************************************************************************)
EXTENDS Integers

CONSTANTS Period,          \* values software writes to period
          default_period,  \* 325000000
          MaxGap,          \* steps between edges of wdt: 30.8 ns is up to 4 of them
          AccessTicks,     \* cycles from an access of software to its next one
          Round,           \* cycles a value of period takes to the wdt side, at most
          Settle,          \* cycles software waits between period and enable
          KickLatency      \* cycles until a kick has arrived

ASSUME PeriodAssumption == Period \subseteq Nat /\ default_period \in Nat \ {0}
ASSUME TicksAssumption == {MaxGap, AccessTicks, Round, Settle} \subseteq Nat \ {0}

VARIABLES
  enable, period, kick,                     \* CSRs; kick is watchdog.reset_wdt, a pulse
  w_stretch, reset_wdt_sys,
  reset_sync, kick_blind,                   \* blind transfer of reset_wdt_sys
  wdt_count,                                \* period as it arrives
  enable_r, wdog_enable_wdt, wdog_enabled, wdog_enabled_r,
  wdt_start, wdt_count_lock, wdog_counter, wdog_cycle, wdog,
  do_res_sync, reset_blind,                 \* blind transfer of do_reset
  reset_stretch, gsr,
  since,     \* steps since the last edge of wdt
  gap,       \* cycles until software's next access
  settled,   \* cycles since period was written before the count began, as far as it matters
  wanted,    \* history: the period when software enabled the watchdog
  unheeded,  \* history: steps since the oldest kick that did not arrive, 0 if all did
  quiet,     \* history: edges of wdt since the last kick arrived or the count began
  fired      \* history: do_reset was up

csrVars == <<enable, period, kick, gap, settled, wanted>>
sysVars == <<w_stretch, reset_wdt_sys, kick_blind, reset_stretch, gsr>>
wdtVars == <<wdt_count, enable_r, wdog_enable_wdt, wdog_enabled, wdog_enabled_r,
             wdt_start, wdt_count_lock, wdog_counter, wdog_cycle, wdog,
             reset_blind, quiet, fired>>
vars == <<csrVars, sysVars, wdtVars, reset_sync, do_res_sync, since, unheeded>>

-----------------------------------------------------------------------------
(* migen's PulseSynchronizer: a toggle in one domain, followed by two        *)
(* registers in the other and a third that tells a change from a level.  Of  *)
(* each stage only matters whether it differs from the next: t, m, o.        *)
Still == [t |-> FALSE, m |-> FALSE, o |-> FALSE]
Idle == [there |-> Still, back |-> Still]
Send(s, pulse) == [s EXCEPT !.t = s.t # pulse]
Shift(s) == [t |-> FALSE, m |-> s.t, o |-> s.m]

(* A pair of them goes to the wdt side and back; in sys, a transfer from wdt  *)
(* is the one in the middle.  Where both have an edge, wdt comes first.      *)
ToWdt(s, pulse, edge) == Send(IF edge THEN Shift(s) ELSE s, pulse)
ToSys(s, pulse, edge) == Shift(Send(s, edge /\ pulse))

Init ==
  /\ enable = FALSE /\ period = default_period /\ kick = FALSE
  /\ w_stretch = 0 /\ reset_wdt_sys = FALSE
  /\ reset_sync = Idle /\ do_res_sync = Idle
  /\ kick_blind = FALSE /\ reset_blind = FALSE
  /\ wdt_count = 0
  /\ enable_r = FALSE /\ wdog_enable_wdt = FALSE
  /\ wdog_enabled = FALSE /\ wdog_enabled_r = FALSE
  /\ wdt_start = FALSE /\ wdt_count_lock = 0 /\ wdog_counter = default_period
  /\ wdog_cycle = FALSE /\ wdog = "IDLE"
  /\ reset_stretch = 0 /\ gsr = FALSE
  /\ since = 0 /\ gap = 0 /\ settled = 0 /\ wanted = default_period
  /\ unheeded = 0 /\ quiet = 0 /\ fired = FALSE

(* The count has begun: the period is locked and loaded. *)
started == wdog_enabled_r /\ ~wdt_start

reset_wdt == reset_sync.there.o
do_reset == wdog = "ARMED_HOT" /\ ~reset_wdt /\ wdog_cycle

-----------------------------------------------------------------------------
(* Software. *)

waited == IF settled < Settle \/ settled < Round THEN settled + 1 ELSE settled

NoAccess == /\ kick' = FALSE /\ gap' = (IF gap > 0 THEN gap - 1 ELSE 0)
            /\ settled' = waited
            /\ UNCHANGED <<enable, period, wanted>>

(* Software sets the period before it enables the watchdog, or tries to when  *)
(* that runs; then it no longer matters how fast the value crosses.          *)
WritePeriod == /\ gap = 0 /\ gap' = AccessTicks - 1
               /\ started \/ ~(enable \/ wdog_enabled)
               /\ period' \in Period
               /\ settled' = (IF started THEN settled ELSE 0) /\ kick' = FALSE
               /\ UNCHANGED <<enable, wanted>>

(* Enable is only written 0 when the watchdog runs, where it has no effect.  *)
WriteWatchdog ==
  /\ gap = 0 /\ gap' = AccessTicks - 1
  /\ enable \/ settled >= Settle
  /\ enable' \in BOOLEAN /\ (enable' \/ wdog_enabled)
  /\ kick' \in BOOLEAN
  /\ wanted' = IF enable \/ wdog_enabled THEN wanted ELSE period
  /\ settled' = waited
  /\ UNCHANGED period

-----------------------------------------------------------------------------
(* The sys side. *)

stretched == IF kick THEN 7 ELSE IF w_stretch > 0 THEN w_stretch - 1 ELSE 0

(* Fault: the kick is not stretched and falls into the blind time. *)
KickOutPulse == kick
KickOut == w_stretch # 0

(* The blind transfer ignores its input until the acknowledgement is back.   *)
KickSys ==
  /\ w_stretch' = stretched
  /\ reset_wdt_sys' = KickOut
  /\ kick_blind' = ((kick_blind \/ reset_wdt_sys) /\ ~reset_sync.back.o)

(* Fault: the reset line has no length. *)
ResetStretchZero == IF do_res_sync.there.o THEN 0 ELSE IF reset_stretch # 0 THEN reset_stretch - 1 ELSE 0
ResetStretch == IF do_res_sync.there.o THEN 31 ELSE IF reset_stretch # 0 THEN reset_stretch - 1 ELSE 0

ResetSys ==
  /\ reset_stretch' = ResetStretch
  /\ gsr' = (~do_res_sync.there.o /\ reset_stretch # 0)

-----------------------------------------------------------------------------
(* The wdt side, at an edge. *)

(* migen's BusSynchronizer goes round and round with the value of period and *)
(* delivers it sooner or later, at the latest Round cycles after the write.  *)
PeriodArrives == /\ wdt_count' \in {wdt_count, period}
                 /\ settled >= Round => wdt_count' = period

Registers ==
  /\ PeriodArrives
  /\ enable_r' = enable
  /\ wdog_enable_wdt' = enable_r
  /\ reset_blind' = ((reset_blind \/ do_reset) /\ ~do_res_sync.back.o)

Enabling ==
  /\ wdog_enabled' = (wdog_enable_wdt \/ wdog_enabled)
  /\ wdog_enabled_r' = wdog_enabled

(* Fault: the period is not locked, but follows the register. *)
LockFollows == wdt_count_lock' = wdt_count

Lock == wdt_count_lock' = IF ~wdog_enabled_r /\ wdog_enabled THEN wdt_count ELSE wdt_count_lock

(* Fault: the counter looks at the enable bit of the CSR. *)
counting_bit == wdog_enable_wdt

counting == wdog_enabled

Counter ==
  /\ wdt_start' = (~wdog_enabled_r /\ wdog_enabled)
  /\ Lock
  /\ wdog_counter' = IF wdt_start THEN wdt_count_lock
                     ELSE IF ~counting THEN wdog_counter
                     ELSE IF wdog_counter = 0 THEN wdt_count_lock
                     ELSE wdog_counter - 1
  /\ wdog_cycle' = IF ~wdt_start /\ counting THEN wdog_counter = 0 ELSE wdog_cycle

(* Fault: the first period without a kick already leaves no other chance. *)
DisarmedHot == wdog = "DISARMED" /\ wdog' = IF wdog_cycle THEN "ARMED_HOT" ELSE "DISARMED"

Disarmed == wdog = "DISARMED" /\ wdog' = IF wdog_cycle THEN "ARMED" ELSE "DISARMED"

Wdog ==
  \/ wdog = "IDLE" /\ wdog' = IF wdog_enabled THEN "DISARMED" ELSE "IDLE"
  \/ Disarmed
  \/ wdog = "ARMED" /\ wdog' = IF reset_wdt THEN "DISARMED"
                               ELSE IF wdog_cycle THEN "ARMED_HOT" ELSE "ARMED"
  \/ wdog = "ARMED_HOT" /\ wdog' = IF reset_wdt THEN "DISARMED" ELSE "ARMED_HOT"

History ==
  /\ quiet' = IF started /\ ~reset_wdt THEN quiet + 1 ELSE 0
  /\ fired' = (fired \/ do_reset)

WdtEdge == Registers /\ Enabling /\ Counter /\ Wdog /\ History

-----------------------------------------------------------------------------
Crossings(edge) ==
  /\ reset_sync' =
       [there |-> ToWdt(reset_sync.there, reset_wdt_sys /\ ~kick_blind, edge),
        back  |-> ToSys(reset_sync.back, reset_sync.there.o, edge)]
  /\ do_res_sync' =
       [there |-> ToSys(do_res_sync.there, do_reset /\ ~reset_blind, edge),
        back  |-> ToWdt(do_res_sync.back, do_res_sync.there.o, edge)]

Clocks(edge) ==
  /\ KickSys /\ ResetSys /\ Crossings(edge)
  /\ IF edge THEN WdtEdge /\ since' = 0
             ELSE since < MaxGap - 1 /\ since' = since + 1 /\ UNCHANGED wdtVars
  /\ unheeded' = IF edge /\ reset_wdt THEN IF kick' THEN 1 ELSE 0
                 ELSE IF unheeded # 0 \/ kick' THEN unheeded + 1 ELSE 0

Cycle == /\ ~gsr
         /\ NoAccess \/ WritePeriod \/ WriteWatchdog
         /\ \E edge \in BOOLEAN : Clocks(edge)

(* The global set/reset of the FPGA holds everything; afterwards a behaviour *)
(* begins anew, with Init.                                                   *)
ChipReset == gsr /\ UNCHANGED vars

Next == Cycle \/ ChipReset

Spec == Init /\ [][Next]_vars

(* The clocks run. *)
FairSpec == Spec /\ WF_vars(Next)
-----------------------------------------------------------------------------
PeriodValue == Period \union {0, default_period}
Sync == [t : BOOLEAN, m : BOOLEAN, o : BOOLEAN]

(* Types of the state. *)
TypeOK ==
  /\ {enable, kick, reset_wdt_sys, kick_blind, enable_r, wdog_enable_wdt, wdog_enabled,
      wdog_enabled_r, wdt_start, wdog_cycle, reset_blind, gsr, fired} \subseteq BOOLEAN
  /\ {reset_sync, do_res_sync} \subseteq [there : Sync, back : Sync]
  /\ w_stretch \in 0..7 /\ reset_stretch \in 0..31
  /\ {period, wdt_count, wdt_count_lock, wanted} \subseteq PeriodValue
  /\ wdog_counter \in Nat /\ wdog \in {"IDLE", "DISARMED", "ARMED", "ARMED_HOT"}
  /\ since \in 0..(MaxGap - 1) /\ gap \in 0..(AccessTicks - 1) /\ settled \in 0..(Settle + Round)
  /\ unheeded \in Nat /\ quiet \in Nat

(* Nobody who kicks is reset: when the watchdog pulls the reset, two whole    *)
(* periods have passed since the last kick arrived ("not having responded to *)
(* the watchdog code immediately is not cause for a reset").                 *)
NoEarlyReset == do_reset => quiet >= 2 * wdt_count_lock + 1

(* Whoever stops kicking is reset: within three periods of the last kick the  *)
(* watchdog has pulled the reset, in whatever state the kick found it.       *)
ResetInTime == quiet > 3 * (wdt_count_lock + 1) => fired

(* A kick gets through: reset_wdt is up at an edge after it, and soon, even if*)
(* it was written while the transfer was blind.                              *)
KickHeeded == unheeded <= KickLatency

(* The period that counts is the one written before the watchdog was enabled, *)
(* and it is the whole of it that crossed; later writes do not change it.    *)
PeriodLocked == started => wdt_count_lock = wanted

(* What software writes arrives in the other clock domain: every kick, and   *)
(* the whole period (wdt.py:54, 104).                                        *)
WritesHeeded == TypeOK /\ KickHeeded /\ PeriodLocked

(* The reset pulse gets through to the global set/reset line. *)
ResetDelivered == fired ~> gsr
=============================================================================
