------------------------------ MODULE TickTimer -----------------------------
(***************************************************************************)
(* The systick timer with its msleep extension (ticktimer.py): it counts   *)
(* in the always-on clock ao, and takes reset, load, pause and the target  *)
(* of the alarm from sys.                                                  *)
(*                                                                         *)
(* One step is an edge of sys and before it perhaps one of ao, which is    *)
(* slower: MinGap to MaxGap steps after its last one.                      *)
(***************************************************************************)
EXTENDS Integers

CONSTANTS
  clkspertick,      \* 12000
  MaxTime,          \* bound: the timer stops there
  MinGap, MaxGap,   \* steps between edges of ao: 8 or 9
  MaxAccesses       \* bound: accesses of software from one rest of the transfers to the next

TickAssumption == /\ {clkspertick, MaxTime, MinGap, MaxAccesses} \subseteq Nat \ {0}
                  /\ MaxGap \in Nat /\ MaxGap >= MinGap

VARIABLES
  prescaler, timer, pause_ao, paused,        \* ao; pause_ao and paused_sys: two registers each
  reset, load, pause,           \* sys: pulses and levels of software
  msleep_target, re, lockout_alarm,
  paused_sys, time,                          \* sys: paused and the timer as they arrive
  reset_xfer, load_xfer, ping, pong,         \* blind transfers
  target_ao, alarm_always_on,     \* ao
  since,                                     \* steps since the last edge of ao
  accesses,                                  \* accesses since all transfers were at rest
  hasty                                      \* history: the target was last written with its transfer busy

aoVars == <<prescaler, timer, paused, alarm_always_on>>
softVars == <<reset, load, pause, msleep_target, re, accesses, hasty>>
vars == <<aoVars, softVars, pause_ao, paused_sys, time, reset_xfer, load_xfer, ping, pong,
          target_ao, lockout_alarm, since>>

Time == 0..MaxTime

-----------------------------------------------------------------------------
(* migen's PulseSynchronizer, of each stage whether it differs from the next: *)
(* t, m, o; and BlindTransfer, which sends a pulse with one and has it        *)
(* acknowledged with another, blind to its input until then.                  *)
Still == [t |-> FALSE, m |-> FALSE, o |-> FALSE]
Rest == [there |-> Still, back |-> Still, blind |-> FALSE]

Send(s, pulse) == [s EXCEPT !.t = s.t # pulse]
Shift(s) == [t |-> FALSE, m |-> s.t, o |-> s.m]
ToAo(s, pulse, edge) == Send(IF edge THEN Shift(s) ELSE s, pulse)
ToSys(s, pulse, edge) == Shift(Send(s, edge /\ pulse))

SysToAo(b, i, edge) == [there |-> ToAo(b.there, i /\ ~b.blind, edge),
                        back  |-> ToSys(b.back, b.there.o, edge),
                        blind |-> (b.blind \/ i) /\ ~b.back.o]
AoToSys(b, i, edge) == [there |-> ToSys(b.there, i /\ ~b.blind, edge),
                        back  |-> ToAo(b.back, b.there.o, edge),
                        blind |-> IF edge THEN (b.blind \/ i) /\ ~b.back.o ELSE b.blind]

(* MultiReg: a level through two registers of the other side. *)
Through(two, level) == <<level, two[1]>>

Init ==
  /\ prescaler = clkspertick /\ timer = 0 /\ pause_ao = <<FALSE, FALSE>> /\ paused = FALSE
  /\ reset = FALSE /\ load = FALSE /\ pause = FALSE
  /\ msleep_target = 0 /\ re = FALSE /\ lockout_alarm = FALSE
  /\ paused_sys = <<FALSE, FALSE>> /\ time = 0
  /\ reset_xfer = Rest /\ load_xfer = Rest /\ ping = Rest /\ pong = Rest
  /\ target_ao = 0 /\ alarm_always_on = FALSE
  /\ since = 0 /\ accesses = 0 /\ hasty = FALSE

-----------------------------------------------------------------------------
(* Software, which may access a register in every cycle.  It loads a time    *)
(* only with the timer paused, and pauses again only when the pause before   *)
(* is seen to be over.                                                       *)

Pulse(r, l, s) == reset' = r /\ load' = l /\ re' = s

quiet == /\ reset_xfer = Rest /\ load_xfer = Rest /\ ping = Rest /\ pong = Rest
         /\ ~(reset \/ load \/ re)
made == IF quiet THEN 0 ELSE accesses

Access == made < MaxAccesses /\ accesses' = made + 1

Reset == Access /\ Pulse(TRUE, FALSE, FALSE)
         /\ UNCHANGED <<pause, msleep_target, hasty>>

SetTarget == /\ Access /\ Pulse(FALSE, FALSE, TRUE)
             /\ msleep_target' \in Time
             /\ hasty' = (re \/ ping # Rest \/ pong # Rest)
             /\ UNCHANGED pause

Pause == /\ Access /\ Pulse(FALSE, FALSE, FALSE)
         /\ pause' = ~pause /\ (pause' => ~paused_sys[2])
         /\ UNCHANGED <<msleep_target, hasty>>

Load == /\ Access /\ Pulse(FALSE, TRUE, FALSE) /\ pause /\ paused_sys[2]
        /\ UNCHANGED <<pause, msleep_target, hasty>>

NoAccess == /\ Pulse(FALSE, FALSE, FALSE)
            /\ accesses' = made
            /\ UNCHANGED <<pause, msleep_target, hasty>>

Software == Reset \/ SetTarget \/ Pause \/ Load \/ NoAccess

-----------------------------------------------------------------------------
(* The always-on side, at an edge. *)

tick == prescaler = 0

(* A load takes what has arrived of the time to resume at: any time. *)
Count ==
  CASE reset_xfer.there.o -> timer' = 0 /\ prescaler' = clkspertick /\ UNCHANGED paused
    [] ~reset_xfer.there.o /\ load_xfer.there.o ->
         timer' \in Time /\ prescaler' = clkspertick /\ UNCHANGED paused
    [] OTHER ->
         /\ prescaler' = IF tick THEN clkspertick ELSE prescaler - 1
         /\ timer' = IF tick /\ ~pause_ao[2] /\ timer < MaxTime THEN timer + 1 ELSE timer
         /\ paused' = IF tick THEN pause_ao[2] ELSE paused

Alarm == alarm_always_on' = (target_ao <= timer)

(* migen's BusSynchronizer goes round and round and delivers a value sooner  *)
(* or later.                                                                 *)
Delivered == target_ao' \in {target_ao, msleep_target}

Ao(edge) == IF edge
            THEN Count /\ Alarm /\ Delivered /\ pause_ao' = Through(pause_ao, pause) /\ since' = 0
            ELSE UNCHANGED <<aoVars, pause_ao, target_ao>> /\ since' = since + 1

-----------------------------------------------------------------------------
(* The sys side. *)

TimeArrives == time' \in {time, timer'}

(* Fault: the answer is taken from the input of the transfer. *)
CrossingShort(edge) ==
  /\ reset_xfer' = SysToAo(reset_xfer, reset, edge) /\ load_xfer' = SysToAo(load_xfer, load, edge)
  /\ ping' = SysToAo(ping, re, edge) /\ pong' = AoToSys(pong, re, edge)
Crossing(edge) ==
  /\ reset_xfer' = SysToAo(reset_xfer, reset, edge) /\ load_xfer' = SysToAo(load_xfer, load, edge)
  /\ ping' = SysToAo(ping, re, edge) /\ pong' = AoToSys(pong, ping.there.o, edge)

Lockout == lockout_alarm' = (re \/ (lockout_alarm /\ ~pong.there.o))

alarm_trigger == ~lockout_alarm /\ msleep_target <= time

(* Fault: sys takes its own request for the answer. *)
PausedEcho == paused_sys' = Through(paused_sys, pause)
Paused == paused_sys' = Through(paused_sys, paused')

Cycle == \E edge \in BOOLEAN :
           /\ edge => since + 1 >= MinGap
           /\ ~edge => since + 1 < MaxGap
           /\ Software /\ Ao(edge) /\ TimeArrives /\ Crossing(edge) /\ Lockout /\ Paused

Next == Cycle
Spec == Init /\ [][Next]_vars

(* Edges go on, and so do the rounds of the bus synchronizers. *)
Deliver == Cycle /\ time' = timer' /\ target_ao' = msleep_target
FairSpec == Spec /\ WF_vars(Next) /\ SF_vars(Deliver)

-----------------------------------------------------------------------------
(* Software makes no access any more. *)
SoftwareRests == <>[][NoAccess]_vars

(* When software leaves the timer running, the alarm comes, in sys and in    *)
(* the always-on clock, which wakes the CPU; unless the last write of the    *)
(* target found the transfer that ends the lockout still busy.               *)
alarmed == pause \/ hasty \/ (alarm_trigger /\ alarm_always_on)
AlarmComes == SoftwareRests => <>[]alarmed

(* While sys sees the timer paused it does not count; only reset and load    *)
(* move it.                                                                  *)
PausedMeansStopped ==
  [][pause /\ paused_sys[2] => \/ timer' = timer
                               \/ reset_xfer.there.o \/ load_xfer.there.o]_vars
=============================================================================
