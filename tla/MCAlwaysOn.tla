----------------------------- MODULE MCAlwaysOn -----------------------------
(***************************************************************************)
(* The blocks that run in the always-on clocks and wake the CPU: systick   *)
(* with msleep, and the keyboard scanner.  They share no signal in the     *)
(* code, so a behaviour here is one of one of them, the unit, while the    *)
(* other stays in its initial state.                                       *)
(***************************************************************************)
EXTENDS TickTimer, KeyScan

VARIABLE unit

ASSUME AlwaysOnAssumption == TickAssumption /\ MatrixAssumption

allVars == <<unit, vars, keyVars>>

AlwaysOnInit == unit \in {"tick", "key"} /\ Init /\ KeyInit

OfTick(A) == unit = "tick" /\ A /\ UNCHANGED <<unit, keyVars>>
OfKey(A) == unit = "key" /\ A /\ UNCHANGED <<unit, vars>>

AlwaysOnNext == OfTick(Next) \/ OfKey(KeyNext)

(* The clocks run, and with them the rounds of the bus synchronizers. *)
AlwaysOnSpec == /\ AlwaysOnInit /\ [][AlwaysOnNext]_allVars
                /\ WF_allVars(OfTick(Next)) /\ SF_allVars(OfTick(Deliver))
                /\ WF_allVars(OfKey(Edge)) /\ WF_allVars(OfKey(Read)) /\ WF_allVars(OfKey(Clear))

-----------------------------------------------------------------------------
(* What the CPU waits for comes: the alarm of a timer that software leaves   *)
(* running, in both clocks (ticktimer.py:159), and the keys that are down,   *)
(* once they rest (keyboard.py:148), but for the cases that AlarmComes and   *)
(* KeysKnown name: this is the one or the other, as one implication, since   *)
(* the unit that is not stepped rests.                                       *)
CpuWakes == SoftwareRests /\ KeysRest =>
  \/ <>[](unit = "tick" /\ alarmed)
  \/ <>[](unit = "key" /\ known = keys)
  \/ <>[](unit = "key" /\ rowshadow = keys)
  \/ <>[](unit = "key" /\ event_off)
=============================================================================
