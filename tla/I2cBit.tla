------------------------------- MODULE I2cBit -------------------------------
(***************************************************************************)
(* The bit machine of the I2C controller (i2c_controller_bit_ctrl.v): it   *)
(* turns START, STOP, READ and WRITE into four or five phases of SCL and   *)
(* SDA, each Prescale + 1 cycles long, and listens to the lines through a  *)
(* majority filter.  A line is TRUE when it is high; an output enable      *)
(* is active low, so that TRUE leaves the line to the pull-up.             *)
(*                                                                         *)
(* There is one controller on the bus: arbitration is tied off (al = 0).   *)
(***************************************************************************)
EXTENDS Integers

CONSTANT Prescale   \* clk_cnt
PrescaleAssumption == Prescale \in Nat /\ Prescale >= 3

VARIABLES
  cnt, clk_en,                     \* clock divider
  filter_cnt, fSCL, fSDA,          \* sampling of the lines, latest first
  sSCL, sSDA, dSCL, dSDA,          \* filtered, and one cycle later
  sta_condition, sto_condition, busy,
  core_rxd,                        \* dout
  bit_state,                       \* c_state: <<command, phase>>, phase 0 is idle
  core_ack,                        \* cmd_ack
  scl_oen, sda_oen

bitVars == <<cnt, clk_en, filter_cnt, fSCL, fSDA, sSCL, sSDA, dSCL, dSDA,
             sta_condition, sto_condition, busy, core_rxd, bit_state, core_ack,
             scl_oen, sda_oen>>

Commands == {"START", "STOP", "READ", "WRITE"}
idle == <<"NOP", 0>>

BitInit ==
  /\ cnt = 0 /\ clk_en = TRUE
  /\ filter_cnt = 0 /\ fSCL = <<TRUE, TRUE, TRUE>> /\ fSDA = <<TRUE, TRUE, TRUE>>
  /\ sSCL = TRUE /\ sSDA = TRUE /\ dSCL = TRUE /\ dSDA = TRUE
  /\ sta_condition = FALSE /\ sto_condition = FALSE /\ busy = FALSE
  /\ core_rxd = FALSE
  /\ bit_state = idle /\ core_ack = FALSE /\ scl_oen = TRUE /\ sda_oen = TRUE

-----------------------------------------------------------------------------
(* The listening side. *)

ClockDivider == /\ cnt' = IF cnt = 0 THEN Prescale ELSE cnt - 1
                /\ clk_en' = (cnt = 0)

FilterClock == filter_cnt' = IF filter_cnt = 0 THEN Prescale \div 4 ELSE filter_cnt - 1

Capture(f, line) == IF filter_cnt = 0 THEN <<line, f[1], f[2]>> ELSE f

Majority(f) == (f[3] /\ f[2]) \/ (f[2] /\ f[1]) \/ (f[3] /\ f[1])

Filter(scl_i, sda_i) ==
  /\ FilterClock
  /\ fSCL' = Capture(fSCL, scl_i) /\ fSDA' = Capture(fSDA, sda_i)
  /\ sSCL' = Majority(fSCL) /\ sSDA' = Majority(fSDA)
  /\ dSCL' = sSCL /\ dSDA' = sSDA

StartSeen == ~sSDA /\ dSDA /\ sSCL
(* Fault: a rising SDA counts as STOP whether SCL is high or not. *)
StopSeenAnywhere == sSDA /\ ~dSDA
StopSeen == sSDA /\ ~dSDA /\ sSCL

BusStatus ==
  /\ sta_condition' = StartSeen /\ sto_condition' = StopSeen
  /\ busy' = ((sta_condition \/ busy) /\ ~sto_condition)

(* Fault: SDA is taken when SCL falls. *)
ReceiveLate == core_rxd' = IF ~sSCL /\ dSCL THEN sSDA ELSE core_rxd
Receive == core_rxd' = IF sSCL /\ ~dSCL THEN sSDA ELSE core_rxd

-----------------------------------------------------------------------------
(* The driving side: the levels at the end of each phase a, b, c, ... of a   *)
(* command.                                                                  *)

LastPhase(op) == IF op = "START" THEN 5 ELSE 4

(* Fault: SCL rises in the phase in which SDA is set. *)
SclRisesEarly(op, phase) == CASE op = "START" -> IF phase = 1 THEN scl_oen ELSE phase < 5
                              [] op = "STOP"  -> phase > 1
                              [] OTHER        -> phase \in {1, 2, 3}
SclOf(op, phase) == CASE op = "START" -> IF phase = 1 THEN scl_oen ELSE phase < 5
                      [] op = "STOP"  -> phase > 1
                      [] OTHER        -> phase \in {2, 3}

SdaOf(op, phase, din) == CASE op = "START" -> phase < 3
                           [] op = "STOP"  -> phase = 4
                           [] op = "READ"  -> TRUE
                           [] op = "WRITE" -> din

Idle(cmd) == /\ bit_state = idle
             /\ bit_state' = IF cmd \in Commands THEN <<cmd, 1>> ELSE idle
             /\ core_ack' = FALSE
             /\ UNCHANGED <<scl_oen, sda_oen>>

Phase(din) ==
  /\ bit_state # idle
  /\ LET op == bit_state[1]  phase == bit_state[2]  last == phase = LastPhase(op)
     IN /\ scl_oen' = SclOf(op, phase) /\ sda_oen' = SdaOf(op, phase, din)
        /\ bit_state' = IF last THEN idle ELSE <<op, phase + 1>>
        /\ core_ack' = last

BitMachine(cmd, din) ==
  IF clk_en THEN Idle(cmd) \/ Phase(din)
  ELSE core_ack' = FALSE /\ UNCHANGED <<bit_state, scl_oen, sda_oen>>

BitCycle(cmd, din, scl_i, sda_i) ==
  /\ ClockDivider /\ Filter(scl_i, sda_i) /\ BusStatus /\ Receive
  /\ BitMachine(cmd, din)

BitTypeOK ==
  /\ cnt \in 0..Prescale /\ filter_cnt \in 0..Prescale
  /\ {clk_en, sSCL, sSDA, dSCL, dSDA, sta_condition, sto_condition, busy,
      core_rxd, core_ack, scl_oen, sda_oen} \subseteq BOOLEAN
  /\ fSCL \in [1..3 -> BOOLEAN] /\ fSDA \in [1..3 -> BOOLEAN]
  /\ \/ bit_state = idle
     \/ bit_state[1] \in Commands /\ bit_state[2] \in 1..LastPhase(bit_state[1])
=============================================================================
