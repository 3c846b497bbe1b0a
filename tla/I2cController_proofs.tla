----------------------- MODULE I2cController_proofs ------------------------
(***************************************************************************)
(* The I2C controller carries out each command as the registers say and    *)
(* keeps the bus in order, for every prescaler, every length of a byte and *)
(* every pace of software.                                                 *)
(***************************************************************************)
EXTENDS I2cController, SequenceTheorems, TLAPS

(* What the code has: four registers between a pin and the filter, and a     *)
(* driver that waits for the interrupt flag.                                 *)
FlagPolled == Poll = "IF" /\ Sync <= 4

-----------------------------------------------------------------------------
(* Time. *)

(* The cycles of a phase; those since the bit machine's last step, and since *)
(* its command began, as if idle were a phase before the first.              *)
Span == Prescale + 1
beat == IF cnt = Prescale THEN Prescale ELSE Prescale - 1 - cnt
op == bit_state[1]
phase == bit_state[2]
age == phase * Span + beat

(* The cycles from sample to sample of the filter; the age of its latest.    *)
Interval == Prescale \div 4 + 1
LagOf(count) == Sync + Interval - count
lag == LagOf(filter_cnt)
seen == Sync + 2 * Interval + 1

Pin == 1..Sync

-----------------------------------------------------------------------------
(* Control. *)

Types == /\ TypeOK
         /\ filter_cnt \in 0..(Interval - 1)
         /\ scl_pipe \in [Pin -> BOOLEAN] /\ sda_pipe \in [Pin -> BOOLEAN]
         /\ carried \in [heard : Frame, answer : Frame]

(* Before the first step of the clock divider clk_en is up, and nothing is   *)
(* asked for.                                                                *)
Beats == /\ cnt = Prescale => clk_en
         /\ clk_en => cnt = Prescale \/ (cnt = 0 /\ bit_state = idle /\ core_cmd = "NOP")

(* The bit machine does what the byte machine is waiting for; the bits in    *)
(* the shift register move only while it is idle.                            *)
Obeys == /\ core_cmd = CASE c_state = "IDLE" -> "NOP"
                         [] c_state = "ACK" -> IF running.rd THEN "WRITE" ELSE "READ"
                         [] OTHER -> c_state
         /\ phase # 0 => op = core_cmd
         /\ core_ack => phase = 0 /\ beat = 0 /\ c_state # "IDLE"
         /\ ld => phase = 0 /\ ~core_ack /\ ~shift /\ c_state \in Commands
         /\ shift => phase = 0 /\ beat = 1 /\ c_state \in {"WRITE", "READ", "ACK"}
         /\ shift /\ c_state = "ACK" => running.rd
         /\ cmd_ack => c_state = "IDLE"

(* A command has just been written, or is being carried out.                 *)
Asks == command.rd \/ command.wr \/ command.sto
Fresh == c_state = "IDLE" /\ ~cmd_ack /\ Asks
Works == c_state # "IDLE" \/ cmd_ack

(* Then software waits, and the command stays as it is.                      *)
Serves ==
  /\ Works => waiting /\ ~intflag /\ running = command
  /\ Fresh => re /\ waiting /\ gap = AccessTicks /\ (intflag => command.iack)
  /\ Works \/ Fresh =>
       /\ Asks
       /\ ~(command.rd /\ command.wr) /\ (command.sta => command.wr)
       /\ (command.rd /\ command.sto => command.ack)
       /\ (command.sta /\ command.sto => ~txr[Bits])
  /\ Fresh /\ ~command.sta => owned
  /\ c_state = "START" => running.sta
  /\ c_state = "WRITE" => running.wr
  /\ c_state = "READ" => running.rd
  /\ c_state = "ACK" => running.rd \/ running.wr
  /\ c_state = "STOP" => running.sto

Control == Types /\ Beats /\ Obeys /\ Serves

-----------------------------------------------------------------------------
(* The device. *)

(* START is on the bus; a byte is on its way.                                *)
Started == c_state = "START" /\ (core_ack \/ phase = 5 \/ (phase = 4 /\ beat > 0))
Underway == c_state \in {"READ", "WRITE", "ACK"}

(* What it drives, and only in the bits that are its own.                    *)
Drives == /\ answer \in Answers(dir)
          /\ sda_dev = IF slot = -1 THEN TRUE ELSE answer[slot]

(* It sends if and only if software reads. *)
Roles ==
  /\ ~owned => dir = "off" /\ slot = -1
  /\ Started => owned /\ dir = "address" /\ slot = -1
  /\ Underway => owned /\ (dir = "send" <=> running.rd) /\ (dir = "address" <=> running.sta)
  /\ c_state \in {"IDLE", "STOP"} \/ (c_state = "START" /\ ~Started) =>
       dir # "address" /\ (owned => slot = 0)
  /\ c_state = "STOP" => owned /\ dir # "send"
  /\ c_state = "START" => dir # "send"
  /\ Fresh => (dir = "send" <=> command.rd)
  /\ c_state = "IDLE" /\ ~Fresh => (dir = "send" <=> Reading)

(* It counts the bits as the byte machine does. *)
Slots ==
  /\ c_state \in {"READ", "WRITE"} =>
       slot = IF ld THEN 0 ELSE IF shift THEN Bits - dcnt ELSE Bits - 1 - dcnt
  /\ c_state = "ACK" => slot = Bits
  /\ c_state \in {"READ", "WRITE"} /\ shift => dcnt # 0
  /\ c_state = "ACK" /\ shift => dcnt = 0
  /\ c_state = "STOP" \/ cmd_ack => bytes = IF running.rd \/ running.wr THEN 1 ELSE 0
  /\ c_state = "START" \/ Underway => bytes = 0
  /\ cmd_ack => owned = ~running.sto

Follows == Drives /\ Roles /\ Slots

-----------------------------------------------------------------------------
(* The lines. *)

taken == (owned \/ startSeen) /\ ~stopSeen

(* Their levels in each phase of a command. *)
Levels ==
  /\ phase = 0 => IF taken THEN ~scl_oen ELSE scl_oen /\ sda_oen
  /\ op \in {"READ", "WRITE", "STOP"} => owned /\ scl_oen = (phase > 2)
  /\ op = "READ" /\ phase > 1 => sda_oen
  /\ op = "WRITE" /\ phase > 1 => sda_oen = core_txd
  /\ op = "STOP" /\ phase > 1 => ~sda_oen
  /\ op = "START" => /\ phase < 3 => IF owned THEN ~scl_oen ELSE scl_oen /\ sda_oen
                     /\ phase \in {2, 3} => sda_oen
                     /\ phase > 2 => scl_oen
                     /\ phase > 3 => ~sda_oen

(* What the controller puts on SDA in a bit; it is ready when the bit        *)
(* machine takes it, and stays until the bit is over.                        *)
Out == CASE c_state = "WRITE" -> sr[1]
         [] c_state = "ACK" /\ running.rd -> command.ack
         [] OTHER -> TRUE
Ready == /\ op = "WRITE" /\ (phase > 1 \/ beat > 0) => core_txd = Out
         /\ core_ack /\ Underway => sda_oen = Out

(* When they move. *)
Edges ==
  /\ beat > 0 => scl_r = scl
  /\ beat > 1 => sda_r = sda
  /\ beat = 1 => sda_r = sda \/ ~scl
  /\ startSeen <=> op = "START" /\ phase = 4 /\ beat = 0
  /\ stopSeen <=> c_state = "STOP" /\ core_ack
  /\ rises => phase = 3 /\ beat = 0
  /\ phase = 3 /\ beat = 0 /\ (op # "START" \/ owned) => rises
  /\ falls <=> core_ack /\ c_state # "STOP"
  /\ rises \/ falls => sda = sda_r

Lines == Levels /\ Ready /\ Edges

-----------------------------------------------------------------------------
(* The bits. *)

(* SCL is up in a bit. *)
Clocked == op \in {"READ", "WRITE"} /\ phase > 2

Heard == (Clocked /\ (phase > 3 \/ beat > 0)) \/ (core_ack /\ Underway) => heard[slot] = sda

Sending ==
  /\ c_state = "WRITE" /\ ~ld => \A i \in 1..Bits : i <= dcnt + 1 => sr[i] = txr[i + Bits - 1 - dcnt]
  /\ running.wr /\ c_state \in {"WRITE", "ACK"} =>
       \A j \in 0..(Bits - 1) : j < slot => heard[j] = txr[j + 1]

Taking ==
  /\ c_state = "READ" /\ ~ld => \A i \in 1..Bits : i < Bits - dcnt => sr[i + dcnt + 1] = heard[i - 1]
  /\ c_state = "ACK" /\ running.rd =>
       IF shift THEN \A i \in 1..Bits : i < Bits => sr[i + 1] = heard[i - 1]
                ELSE \A i \in 1..Bits : sr[i] = heard[i - 1]
  /\ running.rd /\ c_state \in {"READ", "ACK"} =>
       \A j \in 0..(Bits - 1) : j < slot => heard[j] = answer[j]
  /\ shift => core_rxd = heard[slot - 1]

Done == c_state = "STOP" \/ cmd_ack => WriteAgrees /\ ReadAgrees /\ (running.rd => ~ld /\ ~shift)

BitsKept == Heard /\ Sending /\ Taking /\ Done

-----------------------------------------------------------------------------
(* The filter. *)

(* What a pipeline and its filter hold of a line that has been at v for n    *)
(* cycles, of one that was at v until n cycles ago, and of one of which      *)
(* nothing older is left.                                                    *)
Young(p, f, s, d, count, n, v) ==
  /\ \A i \in Pin : i <= n => p[i] = v
  /\ LagOf(count) <= n => f[1] = v
  /\ LagOf(count) + Interval <= n => f[2] = v
  /\ LagOf(count) + 2 * Interval <= n => f[3] = v
  /\ n >= seen => s = v
  /\ n > seen => d = v

Old(p, f, s, d, count, n, v) ==
  /\ \A i \in Pin : i > n => p[i] = v
  /\ LagOf(count) > n => f[1] = v
  /\ LagOf(count) + Interval > n => f[2] = v
  /\ LagOf(count) + 2 * Interval > n => f[3] = v
  /\ n < Sync + Interval + 2 => s = v
  /\ n < Sync + Interval + 3 => d = v

Scl(n, v) == Young(scl_pipe, fSCL, sSCL, dSCL, filter_cnt, n, v)
Sda(n, v) == Young(sda_pipe, fSDA, sSDA, dSDA, filter_cnt, n, v)

SclIsLow == ~scl => Scl(age, FALSE)
SclIsHigh == phase > 2 => Scl(age - 3 * Span, TRUE)
SclRose == phase > 2 /\ (op # "START" \/ (phase = 3 /\ owned)) =>
             Old(scl_pipe, fSCL, sSCL, dSCL, filter_cnt, age - 3 * Span, FALSE)
SdaIsSet == phase > 1 /\ (op = "START" => phase < 4) => Sda(age - 2 * Span, sda)

(* While SCL falls the filter sees it high only with the level that SDA then *)
(* had.                                                                      *)
Falling(p, f, s, d) ==
  /\ \A i \in Pin : i < Sync => (p[i] => p[i + 1])
  /\ p[Sync] => f[1]
  /\ f[1] => f[2]
  /\ f[2] => f[1] \/ f[3]
  /\ Majority(f) => s
  /\ s => d
Pair(p, f, s, q, g, t, e, v) ==
  /\ \A i \in Pin : p[i] => q[i] = v
  /\ \A k \in 1..3 : f[k] => g[k] = v
  /\ s => t = v /\ e = v
SclFalls == ~scl => /\ Falling(scl_pipe, fSCL, sSCL, dSCL)
                    /\ \E v \in BOOLEAN : Pair(scl_pipe, fSCL, sSCL, sda_pipe, fSDA, sSDA, dSDA, v)

(* START goes through the filter. *)
down == age - 4 * Span
StartGoes ==
  op = "START" /\ phase > 3 =>
    /\ Sda(down, FALSE)
    /\ Old(sda_pipe, fSDA, sSDA, dSDA, filter_cnt, down, TRUE)
    /\ Majority(fSDA) => sSDA
    /\ sSDA => dSDA
    /\ ~sto_condition
    /\ ~dSDA => sta_condition \/ busy
    /\ down > seen + 1 => busy
    /\ down > 0 => still < down
    /\ down = 0 => busy = owned

(* And so has STOP, or will have. *)
Rising(p, f, s, d) ==
  /\ \A i \in Pin : i > 1 => (p[i] => p[i - 1])
  /\ f[1] => p[Sync]
  /\ f[2] => f[1]
  /\ f[3] => f[2]
  /\ s => Majority(f)
  /\ d => s
AllAt(p, f, s, d, v) == /\ \A i \in Pin : p[i] = v
                        /\ \A k \in 1..3 : f[k] = v
                        /\ s = v /\ d = v
BusFree ==
  ~taken => /\ AllAt(scl_pipe, fSCL, sSCL, dSCL, TRUE)
            /\ Rising(sda_pipe, fSDA, sSDA, dSDA)
            /\ ~sta_condition
            /\ dSDA => sto_condition \/ ~busy
            /\ owned => busy
            /\ ~owned => still = Settled \/ still >= age - Span
            /\ ~owned /\ still > seen => ~busy

BusTaken == taken /\ ~(op = "START" /\ phase > 3) =>
              ~sto_condition /\ (busy \/ (sta_condition /\ core_ack /\ still < Settled))

LinesStill == /\ scl_pipe[1] = scl_r /\ sda_pipe[1] = sda_r
              /\ Scl(still + 1, scl_r) /\ Sda(still + 1, sda_r)

Receives == /\ Clocked => (dSCL => core_rxd = sda)
            /\ core_ack /\ Underway => core_rxd = sda /\ dSCL

Filters == /\ SclIsLow /\ SclIsHigh /\ SclRose /\ SdaIsSet /\ SclFalls
           /\ StartGoes /\ BusFree /\ BusTaken /\ LinesStill /\ Receives

(* All of it. *)
IInv == Control /\ Follows /\ Lines /\ BitsKept /\ Filters

-----------------------------------------------------------------------------
(* Lengths of time. *)

Given == I2cAssumption /\ FlagPolled

(* The filter samples at least once in four cycles of a phase, and two phases *)
(* are longer than what the synchronizer and the filter hold.                *)
LEMMA Lengths ==
  ASSUME Given
  PROVE  /\ Prescale \in Nat /\ Prescale >= 3 /\ Span \in Nat /\ Span = Prescale + 1
         /\ Bits \in Nat /\ Bits >= 1 /\ Sync \in 1..4 /\ AccessTicks \in Nat /\ AccessTicks >= 2
         /\ Interval \in Nat /\ Interval >= 1 /\ Interval < Span
         /\ Prescale \div 4 = Interval - 1
         /\ Sync + 2 * Interval + 2 <= 2 * Span
         /\ Sync + 3 * Interval <= 2 * Span
<1>1. /\ Prescale \in Nat /\ Prescale >= 3 /\ Span \in Nat /\ Span = Prescale + 1
      /\ Bits \in Nat /\ Bits >= 1 /\ Sync \in 1..4 /\ AccessTicks \in Nat /\ AccessTicks >= 2
  BY DEF Given, I2cAssumption, FlagPolled, PrescaleAssumption, BitsAssumption, Span
<1>2. /\ Prescale \div 4 \in Nat /\ 4 * (Prescale \div 4) <= Prescale
  BY <1>1
<1> DEFINE q == Prescale \div 4
<1>3. q \in Nat /\ 4 * q <= Prescale
  BY <1>2
<1>4. Interval = q + 1
  BY DEF Interval
<1> HIDE DEF q
<1>5. /\ Interval \in Nat /\ Interval >= 1 /\ Interval < Span
      /\ Sync + 2 * Interval + 2 <= 2 * Span
      /\ Sync + 3 * Interval <= 2 * Span
  BY <1>1, <1>3, <1>4
<1>6. Prescale \div 4 = Interval - 1
  BY <1>3, <1>4 DEF q
<1> QED
  BY <1>1, <1>5, <1>6

(* Counting round: the next of 0, ..., n. *)
LEMMA NextRound == ASSUME NEW n \in Nat, NEW s \in -1..n
                   PROVE  (s + 1) % (n + 1) = IF s = n THEN 0 ELSE s + 1
<1>1. CASE s = n
  BY <1>1
<1>2. CASE s # n
  <2>1. s + 1 \in 0..n
    BY <1>2
  <2> QED
    BY <1>2, <2>1
<1> QED
  BY <1>1, <1>2

-----------------------------------------------------------------------------
(* What a step does. *)

Shape == /\ beat \in 0..Prescale /\ phase \in 0..5
         /\ op \in {"NOP"} \union Commands /\ (phase = 0 <=> op = "NOP")
         /\ phase > 0 => phase <= LastPhase(op)
         /\ phase > 0 => (c_state = op /\ core_cmd = op) \/ (c_state = "ACK" /\ op \in {"READ", "WRITE"})

(* The clock divider and the bit machine. *)
Quiet == /\ beat < Prescale /\ beat' = beat + 1
         /\ op' = op /\ phase' = phase /\ ~core_ack'
         /\ scl_oen' = scl_oen /\ sda_oen' = sda_oen
Turn == beat = Prescale /\ beat' = 0
Rest == /\ Turn /\ phase = 0 /\ core_cmd = "NOP"
        /\ op' = "NOP" /\ phase' = 0 /\ ~core_ack'
        /\ scl_oen' = scl_oen /\ sda_oen' = sda_oen
Begin == /\ Turn /\ phase = 0 /\ core_cmd \in Commands
         /\ op' = core_cmd /\ phase' = 1 /\ ~core_ack'
         /\ scl_oen' = scl_oen /\ sda_oen' = sda_oen
Advance == /\ Turn /\ phase > 0 /\ phase < LastPhase(op)
           /\ op' = op /\ phase' = phase + 1 /\ ~core_ack'
           /\ scl_oen' = SclOf(op, phase) /\ sda_oen' = SdaOf(op, phase, core_txd)
Finish == /\ Turn /\ phase > 0 /\ phase = LastPhase(op)
          /\ op' = "NOP" /\ phase' = 0 /\ core_ack'
          /\ scl_oen' = SclOf(op, phase) /\ sda_oen' = SdaOf(op, phase, core_txd)
BitMove == Quiet \/ Rest \/ Begin \/ Advance \/ Finish

(* Where the bit machine can stand, and what the byte machine asks then. *)
LEMMA ShapeHolds == ASSUME Given, Control PROVE Shape
<1>1. Prescale \in Nat /\ Prescale >= 3
  BY Lengths
<1>2. cnt \in 0..Prescale /\ (bit_state = idle \/ (bit_state[1] \in Commands /\ bit_state[2] \in 1..LastPhase(bit_state[1])))
  BY DEF Control, Types, TypeOK, BitTypeOK
<1>3. beat \in 0..Prescale
  BY <1>1, <1>2 DEF beat
<1>4. phase \in 0..5 /\ op \in {"NOP"} \union Commands /\ (phase = 0 <=> op = "NOP") /\ (phase > 0 => phase <= LastPhase(op))
  BY <1>2 DEF op, phase, idle, Commands, LastPhase
<1>5. phase > 0 => (c_state = op /\ core_cmd = op) \/ (c_state = "ACK" /\ op \in {"READ", "WRITE"})
  <2>1. phase > 0 => op = core_cmd /\ op # "NOP"
    BY <1>4 DEF Control, Obeys
  <2>2. core_cmd = CASE c_state = "IDLE" -> "NOP"
                         [] c_state = "ACK" -> IF running.rd THEN "WRITE" ELSE "READ"
                         [] OTHER -> c_state
    BY DEF Control, Obeys
  <2> QED
    BY <2>1, <2>2
<1> QED
  BY <1>3, <1>4, <1>5 DEF Shape

(* In a cycle the bit machine waits, rests, begins a command, goes on in it *)
(* or ends it (i2c_controller_bit_ctrl.v). *)
LEMMA BitMoves == ASSUME Given, Control, ByteMachine PROVE BitMove
<1>1. /\ Shape /\ Prescale \in Nat /\ Prescale >= 3
  BY ShapeHolds, Lengths
<1>2. ClockDivider /\ BitMachine(core_cmd, core_txd)
  BY DEF ByteMachine, ByteCycle, BitCycle
<1>3. /\ cnt \in 0..Prescale /\ clk_en \in BOOLEAN /\ (cnt = Prescale => clk_en)
      /\ (clk_en => cnt = Prescale \/ (cnt = 0 /\ bit_state = idle /\ core_cmd = "NOP"))
      /\ (bit_state = idle \/ (bit_state[1] \in Commands /\ bit_state[2] \in 1..LastPhase(bit_state[1])))
  BY DEF Control, Types, TypeOK, BitTypeOK, Beats
<1>4. bit_state = idle <=> phase = 0
  BY <1>3 DEF idle, phase
<1>5. ~("NOP" \in Commands)
  BY DEF Commands
<1>6. CASE cnt # Prescale
  <2>1. beat < Prescale /\ beat' = beat + 1
    BY <1>1, <1>2, <1>3, <1>6 DEF ClockDivider, beat
  <2>2. op' = op /\ phase' = phase /\ ~core_ack' /\ scl_oen' = scl_oen /\ sda_oen' = sda_oen
    <3>1. CASE clk_en
      <4>1. Idle("NOP")
        BY <1>2, <1>3, <1>6, <3>1 DEF BitMachine, Phase
      <4> QED
        BY <4>1, <1>5 DEF Idle, op, phase
    <3>2. CASE ~clk_en
      BY <1>2, <3>2 DEF BitMachine, op, phase
    <3> QED
      BY <3>1, <3>2
  <2> QED
    BY <2>1, <2>2 DEF BitMove, Quiet
<1>7. CASE cnt = Prescale
  <2>1. Turn
    BY <1>1, <1>2, <1>3, <1>7 DEF ClockDivider, beat, Turn
  <2>2. CASE bit_state = idle
    <3>1. Idle(core_cmd)
      BY <1>2, <1>3, <1>7, <2>2 DEF BitMachine, Phase
    <3>2. CASE core_cmd \in Commands
      BY <3>1, <3>2, <2>1, <1>4, <2>2 DEF Idle, op, phase, BitMove, Begin
    <3>3. CASE ~(core_cmd \in Commands)
      <4>1. core_cmd = "NOP"
        BY <3>3 DEF Control, Types, TypeOK, ByteTypeOK
      <4> QED
        BY <3>1, <3>3, <4>1, <2>1, <1>4, <2>2 DEF Idle, op, phase, BitMove, Rest, idle
    <3> QED
      BY <3>2, <3>3
  <2>3. CASE bit_state # idle
    <3>1. Phase(core_txd)
      BY <1>2, <1>3, <1>7, <2>3 DEF BitMachine, Idle
    <3>2. phase > 0 /\ phase <= LastPhase(op) /\ LastPhase(op) \in {4, 5}
      BY <1>1, <1>4, <2>3 DEF Shape, LastPhase
    <3>3. CASE phase = LastPhase(op)
      BY <3>1, <3>2, <3>3, <2>1 DEF Phase, op, phase, BitMove, Finish, idle
    <3>4. CASE phase # LastPhase(op)
      <4>1. op' = op /\ phase' = phase + 1 /\ ~core_ack'
        BY <3>1, <3>4 DEF Phase, op, phase
      <4>2. scl_oen' = SclOf(op, phase) /\ sda_oen' = SdaOf(op, phase, core_txd)
        BY <3>1 DEF Phase, op, phase
      <4>3. phase < LastPhase(op)
        BY <3>2, <3>4, <1>1 DEF Shape
      <4> QED
        BY <4>1, <4>2, <4>3, <3>2, <2>1 DEF BitMove, Advance
    <3> QED
      BY <3>3, <3>4
  <2> QED
    BY <2>2, <2>3
<1> QED
  BY <1>6, <1>7

(* Software. *)
Calls == /\ Asks' /\ Sensible(command') /\ command'.iack = intflag /\ command' \in Command
         /\ (command.sta /\ command.sto)' => ~txr'[Bits]
         /\ txr' \in Byte /\ re' /\ waiting' /\ gap' = AccessTicks
SoftMove == IF Works \/ Fresh
            THEN /\ command' = IF cmd_ack THEN NoCommand ELSE command
                 /\ txr' = txr /\ waiting' = waiting /\ ~re'
            ELSE Calls \/ (~Asks' /\ command' \in Command /\ txr' = txr)

(* The bits of an empty command register. *)
LEMMA Records == /\ NoCommand \in Command
                 /\ ~NoCommand.sta /\ ~NoCommand.sto /\ ~NoCommand.rd /\ ~NoCommand.wr
                 /\ ~NoCommand.ack /\ ~NoCommand.iack
                 /\ [NoCommand EXCEPT !.iack = TRUE] \in Command
  BY DEF NoCommand, Command

(* While a command is out software only counts down to its next access. *)
LEMMA SoftMoves == ASSUME Given, Control, Software PROVE SoftMove
<1>1. /\ command \in Command /\ gap \in Nat /\ AccessTicks \in Nat /\ AccessTicks >= 2 /\ Poll = "IF"
      /\ txr \in Byte
  BY Lengths DEF Control, Types, TypeOK, Given, FlagPolled
<1>2. Works => waiting /\ ~intflag
  BY DEF Control, Serves
<1>3. Fresh => gap = AccessTicks /\ ~cmd_ack
  BY DEF Control, Serves, Fresh
<1>4. CASE Works \/ Fresh
  <2>1. ~Issue /\ ~Acknowledge
    BY <1>1, <1>2, <1>3, <1>4 DEF Issue, Acknowledge, ended
  <2>2. Pass
    BY <2>1 DEF Software
  <2> QED
    BY <2>2, <1>4 DEF SoftMove, Pass, CommandCleared
<1>5. CASE ~(Works \/ Fresh)
  <2>1. ~cmd_ack /\ ~Asks
    BY <1>5 DEF Works, Fresh
  <2>2. CASE Pass
    BY <2>1, <2>2, <1>1, <1>5 DEF Pass, CommandCleared, SoftMove, Asks
  <2>3. CASE Acknowledge
    <3>1. command' = [NoCommand EXCEPT !.iack = TRUE] /\ txr' = txr
      BY <2>1, <2>3 DEF Acknowledge, WriteCommand
    <3>2. /\ command' \in Command /\ ~command'.rd /\ ~command'.wr /\ ~command'.sto
      BY <3>1, Records DEF NoCommand
    <3> QED
      BY <3>1, <3>2, <1>5 DEF SoftMove, Asks
  <2>4. CASE Issue
    <3>1. PICK c \in Command : Sensible(c) /\ c.iack = intflag /\ WriteCommand(c)
      BY <2>4 DEF Issue
    <3>2. command' = c /\ re' = TRUE /\ gap' = AccessTicks
      BY <3>1, <2>1 DEF WriteCommand
    <3>3. /\ txr' \in IF command'.wr THEN Byte ELSE {txr}
          /\ command'.sta /\ command'.sto => ~txr'[Bits]
          /\ waiting' = TRUE
      BY <2>4 DEF Issue
    <3>4. c.rd \/ c.wr \/ c.sto
      BY <3>1 DEF Sensible
    <3>5. txr' \in Byte
      BY <3>3, <1>1
    <3> QED
      BY <3>1, <3>2, <3>3, <3>4, <3>5, <1>5 DEF SoftMove, Calls, Asks
  <2> QED
    BY <2>2, <2>3, <2>4 DEF Software
<1> QED
  BY <1>4, <1>5

(* The byte machine.  Unless the bit machine reports the end of its command   *)
(* or software has written one, it waits.                                    *)
Holds == /\ c_state' = c_state /\ core_cmd' = core_cmd /\ ack_out' = ack_out
         /\ ~ld' /\ ~shift' /\ ~cmd_ack'
         /\ c_state = "WRITE" => core_txd' = sr[1]
         /\ c_state = "ACK" => core_txd' = command.ack
Goes(state, cmd) == c_state' = state /\ core_cmd' = cmd
Leaves == /\ ld' /\ ~shift' /\ ~cmd_ack' /\ ack_out' = ack_out
          /\ \E s \in Commands :
               /\ Goes(s, s)
               /\ s = CASE command.sta -> "START" [] ~command.sta /\ command.rd -> "READ"
                        [] ~command.sta /\ ~command.rd /\ command.wr -> "WRITE" [] OTHER -> "STOP"
Starts == /\ c_state = "START" /\ ld' /\ ~shift' /\ ~cmd_ack' /\ ack_out' = ack_out
          /\ IF command.rd THEN Goes("READ", "READ") ELSE Goes("WRITE", "WRITE")
Writes == /\ c_state = "WRITE" /\ ~ld' /\ ~cmd_ack' /\ ack_out' = ack_out /\ shift' = (dcnt # 0)
          /\ IF dcnt = 0 THEN Goes("ACK", "READ") ELSE Goes("WRITE", "WRITE")
Reads == /\ c_state = "READ" /\ ~ld' /\ ~cmd_ack' /\ ack_out' = ack_out /\ shift'
         /\ IF dcnt = 0 THEN Goes("ACK", "WRITE") ELSE Goes("READ", "READ")
Acks == /\ c_state = "ACK" /\ ~ld' /\ ~shift' /\ cmd_ack' = (~command.sto) /\ ack_out' = core_rxd
        /\ IF command.sto THEN Goes("STOP", "STOP") ELSE Goes("IDLE", "NOP")
Stops == c_state = "STOP" /\ ~ld' /\ ~shift' /\ cmd_ack' /\ ack_out' = ack_out /\ Goes("IDLE", "NOP")
ByteMove == CASE Fresh -> c_state = "IDLE" /\ Leaves
              [] core_ack -> Starts \/ Writes \/ Reads \/ Acks \/ Stops
              [] OTHER -> Holds

(* The byte machine moves in its idle state and at the end of a bit *)
(* command, and only there (i2c_controller_byte_ctrl.v). *)
LEMMA ByteMoves == ASSUME Given, Control, ByteMachine PROVE ByteMove
<1>1. /\ c_state \in {"IDLE", "ACK"} \union Commands /\ core_ack \in BOOLEAN /\ cmd_ack \in BOOLEAN
      /\ command \in Command /\ sr \in Byte /\ dcnt \in 0..(Bits - 1)
      /\ core_cmd \in {"NOP"} \union Commands
  BY DEF Control, Types, TypeOK, BitTypeOK, ByteTypeOK
<1>2. /\ core_cmd = CASE c_state = "IDLE" -> "NOP"
                      [] c_state = "ACK" -> IF running.rd THEN "WRITE" ELSE "READ"
                      [] OTHER -> c_state
      /\ core_ack => c_state # "IDLE"
      /\ cmd_ack => c_state = "IDLE"
  BY DEF Control, Obeys
<1> DEFINE sto == command.sto /\ ~cmd_ack
           rd == command.rd /\ ~cmd_ack
           wr == command.wr /\ ~cmd_ack
<1>3. ByteIdle(command.sta, sto, rd, wr) \/ ByteStart(rd) \/ ByteWrite \/ ByteRead(command.ack)
        \/ ByteAck(sto, command.ack) \/ ByteStop
  BY DEF ByteMachine, ByteCycle
<1>4. command \in [sta : BOOLEAN, sto : BOOLEAN, rd : BOOLEAN, wr : BOOLEAN, ack : BOOLEAN, iack : BOOLEAN]
  BY <1>1 DEF Command
<1>5. CASE c_state = "IDLE"
  <2>1. ByteIdle(command.sta, sto, rd, wr)
    BY <1>3, <1>5 DEF ByteStart, ByteWrite, ByteRead, ByteAck, ByteStop
  <2>2. ~core_ack
    BY <1>2, <1>5
  <2>3. CASE Fresh
    <3>1. ~cmd_ack /\ Asks
      BY <2>3 DEF Fresh
    <3>2. PICK s : s = CASE command.sta -> "START" [] ~command.sta /\ command.rd -> "READ"
                        [] ~command.sta /\ ~command.rd /\ command.wr -> "WRITE" [] OTHER -> "STOP"
      OBVIOUS
    <3>3. s \in Commands
      BY <3>2, <1>4 DEF Commands
    <3>4. /\ ld' = TRUE /\ shift' = FALSE /\ cmd_ack' = FALSE /\ ack_out' = ack_out
          /\ c_state' = s /\ core_cmd' = s
      BY <2>1, <3>1, <3>2, <1>4 DEF ByteIdle, GoTo, Asks
    <3>5. \E t \in Commands :
             /\ Goes(t, t)
             /\ t = CASE command.sta -> "START" [] ~command.sta /\ command.rd -> "READ"
                      [] ~command.sta /\ ~command.rd /\ command.wr -> "WRITE" [] OTHER -> "STOP"
      <4>1. WITNESS s \in Commands
      <4> QED
        BY <3>2, <3>4 DEF Goes
    <3>6. Leaves
      BY <3>4, <3>5 DEF Leaves
    <3> QED
      BY <3>6, <2>2, <2>3, <1>5 DEF ByteMove
  <2>4. CASE ~Fresh
    <3>1. ~((rd \/ wr \/ sto) /\ ~cmd_ack)
      BY <2>4, <1>5, <1>4 DEF Fresh, Asks
    <3>2. /\ ld' = FALSE /\ shift' = FALSE /\ cmd_ack' = FALSE /\ ack_out' = ack_out
          /\ c_state' = c_state /\ core_cmd' = core_cmd
      BY <2>1, <3>1 DEF ByteIdle, Stay
    <3> QED
      BY <3>2, <2>2, <2>4, <1>5 DEF ByteMove, Holds
  <2> QED
    BY <2>3, <2>4
<1>6. CASE c_state # "IDLE"
  <2>1. ~cmd_ack /\ ~Fresh
    BY <1>2, <1>6 DEF Fresh
  <2> HIDE DEF sto, rd, wr
  <2>2. sto = command.sto /\ rd = command.rd /\ wr = command.wr
    BY <2>1, <1>4 DEF sto, rd, wr
  <2>3. ByteStart(rd) \/ ByteWrite \/ ByteRead(command.ack) \/ ByteAck(sto, command.ack) \/ ByteStop
    BY <1>3, <1>6 DEF ByteIdle
  <2>4. CASE ByteStart(rd)
    <3>1. CASE core_ack
      BY <3>1, <2>1, <2>2, <2>4, <1>4 DEF ByteStart, ByteMove, Starts, Goes, GoTo
    <3>2. CASE ~core_ack
      BY <3>2, <2>1, <2>4 DEF ByteStart, ByteMove, Holds, Stay
    <3> QED
      BY <3>1, <3>2
  <2>5. CASE ByteWrite
    <3>1. CASE core_ack
      BY <3>1, <2>1, <2>5, <1>1, <1>2 DEF ByteWrite, ByteMove, Writes, Goes, GoTo, cnt_done, Stay
    <3>2. CASE ~core_ack
      BY <3>2, <2>1, <2>5 DEF ByteWrite, ByteMove, Holds, Stay
    <3> QED
      BY <3>1, <3>2
  <2>6. CASE ByteRead(command.ack)
    <3>1. CASE core_ack
      BY <3>1, <2>1, <2>6, <1>1, <1>2 DEF ByteRead, ByteMove, Reads, Goes, GoTo, cnt_done, Stay
    <3>2. CASE ~core_ack
      BY <3>2, <2>1, <2>6 DEF ByteRead, ByteMove, Holds, Stay
    <3> QED
      BY <3>1, <3>2
  <2>7. CASE ByteAck(sto, command.ack)
    <3>1. CASE core_ack
      BY <3>1, <2>1, <2>2, <2>7, <1>4 DEF ByteAck, ByteMove, Acks, Goes, GoTo
    <3>2. CASE ~core_ack
      BY <3>2, <2>1, <2>7, <1>4 DEF ByteAck, ByteMove, Holds, Stay
    <3> QED
      BY <3>1, <3>2
  <2>8. CASE ByteStop
    <3>1. CASE core_ack
      BY <3>1, <2>1, <2>8 DEF ByteStop, ByteMove, Stops, Goes, GoTo
    <3>2. CASE ~core_ack
      BY <3>2, <2>1, <2>8 DEF ByteStop, ByteMove, Holds, Stay
    <3> QED
      BY <3>1, <3>2
  <2> QED
    BY <2>3, <2>4, <2>5, <2>6, <2>7, <2>8
<1> QED
  BY <1>5, <1>6

(* The shift register. *)
ShiftMove == CASE ld -> sr' = txr /\ dcnt' = Bits - 1
               [] ~ld /\ shift -> /\ \A i \in 1..Bits : sr'[i] = IF i = Bits THEN core_rxd ELSE sr[i + 1]
                                  /\ dcnt' = IF dcnt = 0 THEN Bits - 1 ELSE dcnt - 1
               [] OTHER -> sr' = sr /\ dcnt' = dcnt

(* The shift register loads, shifts by one or stays. *)
LEMMA ShiftMoves == ASSUME Given, Types, ByteMachine
                    PROVE  ShiftMove /\ sr' \in Byte /\ dcnt' \in 0..(Bits - 1)
<1>1. /\ Bits \in Nat /\ Bits >= 1 /\ sr \in Byte /\ dcnt \in 0..(Bits - 1) /\ txr \in Byte
      /\ core_rxd \in BOOLEAN
  BY Lengths DEF Types, TypeOK, BitTypeOK, ByteTypeOK
<1>2. ShiftRegister(txr)
  BY DEF ByteMachine, ByteCycle
<1>3. CASE ld
  BY <1>1, <1>2, <1>3 DEF ShiftRegister, ShiftMove
<1>4. CASE ~ld /\ shift
  <2>1. sr' = Append(Tail(sr), core_rxd) /\ dcnt' = (dcnt - 1) % Bits
    BY <1>2, <1>4 DEF ShiftRegister
  <2>2. sr \in Seq(BOOLEAN) /\ Len(sr) = Bits
    BY <1>1 DEF Byte
  <2>3. /\ Append(Tail(sr), core_rxd) \in [1..Bits -> BOOLEAN]
        /\ \A i \in 1..Bits : Append(Tail(sr), core_rxd)[i] = IF i = Bits THEN core_rxd ELSE sr[i + 1]
    <3>1. Tail(sr) \in Seq(BOOLEAN) /\ Len(Tail(sr)) = Bits - 1 /\ \A i \in 1..(Bits - 1) : Tail(sr)[i] = sr[i + 1]
      BY <1>1, <2>2
    <3> DEFINE t == Tail(sr)
    <3>2. t \in Seq(BOOLEAN) /\ Len(t) = Bits - 1
      BY <3>1
    <3> HIDE DEF t
    <3>3. /\ Append(t, core_rxd) \in Seq(BOOLEAN) /\ Len(Append(t, core_rxd)) = Bits
          /\ \A i \in 1..Bits : Append(t, core_rxd)[i] = IF i = Bits THEN core_rxd ELSE t[i]
      BY <1>1, <3>2
    <3>4. Append(t, core_rxd) \in [1..Bits -> BOOLEAN]
      BY <3>3, LenProperties
    <3> QED
      BY <3>1, <3>3, <3>4, <1>1 DEF t
  <2>4. dcnt' = IF dcnt = 0 THEN Bits - 1 ELSE dcnt - 1
    <3>1. CASE dcnt = 0
      BY <3>1, <2>1, <1>1
    <3>2. CASE dcnt # 0
      <4>1. dcnt - 1 \in 0..(Bits - 1)
        BY <3>2, <1>1
      <4> QED
        BY <4>1, <3>2, <2>1, <1>1
    <3> QED
      BY <3>1, <3>2
  <2>5. dcnt' \in 0..(Bits - 1)
    BY <2>4, <1>1
  <2> QED
    BY <2>1, <2>3, <2>4, <2>5, <1>4 DEF ShiftMove, Byte
<1>5. CASE ~ld /\ ~shift
  BY <1>1, <1>2, <1>5 DEF ShiftRegister, ShiftMove
<1> QED
  BY <1>3, <1>4, <1>5

-----------------------------------------------------------------------------
(* Control. *)

LEMMA AnswerTypes == ASSUME Given, NEW d, NEW a \in Answers(d) PROVE a \in Frame
<1>1. Bits \in Nat /\ Bits >= 1
  BY Lengths
<1>2. Released \in Frame
  BY DEF Released, Frame
<1>3. \A nack \in BOOLEAN : [Released EXCEPT ![Bits] = nack] \in Frame
  BY <1>1, <1>2 DEF Frame
<1> QED
  BY <1>2, <1>3 DEF Answers

(* The levels a phase leaves on the lines. *)
LEMMA DriveLevels ==
  ASSUME NEW o \in Commands, NEW h \in Int, NEW din \in BOOLEAN, scl_oen \in BOOLEAN
  PROVE  /\ SclOf(o, h) \in BOOLEAN /\ SdaOf(o, h, din) \in BOOLEAN
         /\ o = "START" => /\ SclOf(o, h) <=> IF h = 1 THEN scl_oen ELSE h < 5
                           /\ SdaOf(o, h, din) <=> h < 3
         /\ o = "STOP" => (SclOf(o, h) <=> h > 1) /\ (SdaOf(o, h, din) <=> h = 4)
         /\ o \in {"READ", "WRITE"} => (SclOf(o, h) <=> h \in {2, 3})
         /\ o = "READ" => SdaOf(o, h, din)
         /\ o = "WRITE" => (SdaOf(o, h, din) <=> din)
<1>1. o \in {"START", "STOP", "READ", "WRITE"}
  BY DEF Commands
<1>2. CASE o = "START"
  <2>1. SclOf(o, h) \in BOOLEAN /\ SdaOf(o, h, din) \in BOOLEAN
    <3>1. CASE h = 1
      BY <1>2, <3>1 DEF SclOf, SdaOf
    <3>2. CASE h # 1
      BY <1>2, <3>2 DEF SclOf, SdaOf
    <3> QED
      BY <3>1, <3>2
  <2>2. SclOf(o, h) <=> IF h = 1 THEN scl_oen ELSE h < 5
    BY <1>2 DEF SclOf
  <2>3. SdaOf(o, h, din) <=> h < 3
    BY <1>2 DEF SdaOf
  <2> QED
    BY <1>2, <2>1, <2>2, <2>3
<1>3. CASE o = "STOP"
  <2>1. SclOf(o, h) \in BOOLEAN /\ SdaOf(o, h, din) \in BOOLEAN
    BY <1>3 DEF SclOf, SdaOf
  <2>2. SclOf(o, h) <=> h > 1
    BY <1>3 DEF SclOf
  <2>3. SdaOf(o, h, din) <=> h = 4
    BY <1>3 DEF SdaOf
  <2> QED
    BY <1>3, <2>1, <2>2, <2>3
<1>4. CASE o = "READ"
  <2>1. SclOf(o, h) \in BOOLEAN /\ SdaOf(o, h, din) \in BOOLEAN
    BY <1>4 DEF SclOf, SdaOf
  <2>2. SclOf(o, h) <=> h \in {2, 3}
    BY <1>4 DEF SclOf
  <2>3. SdaOf(o, h, din) <=> TRUE
    BY <1>4 DEF SdaOf
  <2> QED
    BY <1>4, <2>1, <2>2, <2>3
<1>5. CASE o = "WRITE"
  <2>1. SclOf(o, h) \in BOOLEAN /\ SdaOf(o, h, din) \in BOOLEAN
    BY <1>5 DEF SclOf, SdaOf
  <2>2. SclOf(o, h) <=> h \in {2, 3}
    BY <1>5 DEF SclOf
  <2>3. SdaOf(o, h, din) <=> din
    BY <1>5 DEF SdaOf
  <2> QED
    BY <1>5, <2>1, <2>2, <2>3
<1> QED
  BY <1>1, <1>2, <1>3, <1>4, <1>5

(* The registers of the bit machine keep their types. *)
LEMMA BitTypes == ASSUME Given, Types, ByteMachine
                  PROVE  /\ BitTypeOK' /\ filter_cnt' \in 0..(Interval - 1)
<1>1. /\ Prescale \in Nat /\ Prescale >= 3 /\ Interval \in Nat /\ Interval >= 1 /\ Sync \in 1..4
      /\ Prescale \div 4 = Interval - 1 /\ Interval < Span /\ Span = Prescale + 1
  BY Lengths
<1>2. BitTypeOK /\ filter_cnt \in 0..(Interval - 1) /\ scl_pipe[Sync] \in BOOLEAN /\ sda_pipe[Sync] \in BOOLEAN
      /\ core_cmd \in {"NOP"} \union Commands /\ core_txd \in BOOLEAN
  BY <1>1 DEF Types, TypeOK, Pin, ByteTypeOK
<1>3. BitCycle(core_cmd, core_txd, scl_pipe[Sync], sda_pipe[Sync])
  BY DEF ByteMachine, ByteCycle
<1>4. cnt' \in 0..Prescale /\ clk_en' \in BOOLEAN
  BY <1>1, <1>2, <1>3 DEF BitCycle, ClockDivider, BitTypeOK
<1>5. filter_cnt' \in 0..(Interval - 1) /\ filter_cnt' \in 0..Prescale
  BY <1>1, <1>2, <1>3 DEF BitCycle, Filter, FilterClock
<1>6. fSCL' \in [1..3 -> BOOLEAN] /\ fSDA' \in [1..3 -> BOOLEAN]
  <2>1. \A f \in [1..3 -> BOOLEAN], x \in BOOLEAN : Capture(f, x) \in [1..3 -> BOOLEAN]
    BY DEF Capture
  <2> QED
    BY <2>1, <1>2, <1>3 DEF BitCycle, Filter, BitTypeOK
<1>7. {sSCL, sSDA, dSCL, dSDA}' \subseteq BOOLEAN
  <2>1. \A f : Majority(f) \in BOOLEAN
    BY DEF Majority
  <2> QED
    BY <2>1, <1>2, <1>3 DEF BitCycle, Filter, BitTypeOK
<1>8. {sta_condition, sto_condition, busy, core_rxd}' \subseteq BOOLEAN
  BY <1>2, <1>3 DEF BitCycle, BusStatus, StartSeen, StopSeen, Receive, BitTypeOK
<1>9. /\ core_ack' \in BOOLEAN /\ scl_oen' \in BOOLEAN /\ sda_oen' \in BOOLEAN
      /\ (bit_state' = idle \/ (bit_state'[1] \in Commands /\ bit_state'[2] \in 1..LastPhase(bit_state'[1])))
  <2>1. BitMachine(core_cmd, core_txd)
    BY <1>3 DEF BitCycle
  <2>2. CASE clk_en /\ Idle(core_cmd)
    <3>1. core_ack' \in BOOLEAN /\ scl_oen' \in BOOLEAN /\ sda_oen' \in BOOLEAN
      BY <2>2, <1>2 DEF Idle, BitTypeOK
    <3>2. bit_state' = IF core_cmd \in Commands THEN <<core_cmd, 1>> ELSE idle
      BY <2>2 DEF Idle
    <3>3. CASE core_cmd \in Commands
      <4>1. bit_state'[1] = core_cmd /\ bit_state'[2] = 1
        BY <3>2, <3>3
      <4>2. LastPhase(bit_state'[1]) \in {4, 5}
        BY DEF LastPhase
      <4> QED
        BY <3>1, <3>3, <4>1, <4>2
    <3> QED
      BY <3>1, <3>2, <3>3
  <2>3. CASE clk_en /\ Phase(core_txd)
    <3>1. bit_state[1] \in Commands /\ bit_state[2] \in 1..LastPhase(bit_state[1])
      BY <2>3, <1>2 DEF Phase, BitTypeOK
    <3>2. LastPhase(bit_state[1]) \in {4, 5}
      BY DEF LastPhase
    <3> DEFINE o == bit_state[1]
               h == bit_state[2]
    <3>3. o \in Commands /\ h \in Int /\ scl_oen \in BOOLEAN /\ core_txd \in BOOLEAN
      BY <3>1, <3>2, <1>2 DEF BitTypeOK
    <3> HIDE DEF o, h
    <3>4. SclOf(o, h) \in BOOLEAN
      BY <3>3, DriveLevels
    <3>5. SdaOf(o, h, core_txd) \in BOOLEAN
      BY <3>3, DriveLevels
    <3>6. scl_oen' \in BOOLEAN /\ sda_oen' \in BOOLEAN /\ core_ack' \in BOOLEAN
      BY <2>3, <3>4, <3>5 DEF Phase, o, h
    <3>7. bit_state' = idle \/ (h # LastPhase(o) /\ bit_state' = <<o, h + 1>>)
      BY <2>3 DEF Phase, o, h
    <3>8. h # LastPhase(o) => h + 1 \in 1..LastPhase(o)
      BY <3>1, <3>2 DEF o, h
    <3>9. CASE h # LastPhase(o) /\ bit_state' = <<o, h + 1>>
      <4>1. bit_state'[1] = o /\ bit_state'[2] = h + 1
        BY <3>9
      <4> QED
        BY <3>3, <3>6, <3>8, <3>9, <4>1
    <3> QED
      BY <3>6, <3>7, <3>9
  <2>4. CASE ~clk_en
    BY <2>1, <2>4, <1>2 DEF BitMachine, BitTypeOK
  <2>5. (clk_en /\ Idle(core_cmd)) \/ (clk_en /\ Phase(core_txd)) \/ ~clk_en
    BY <2>1 DEF BitMachine
  <2> QED
    BY <2>2, <2>3, <2>4, <2>5
<1> QED
  BY <1>4, <1>5, <1>6, <1>7, <1>8, <1>9 DEF BitTypeOK

(* So do those of the byte machine. *)
LEMMA ByteTypes == ASSUME Given, Control, ByteMachine PROVE ByteTypeOK'
<1>1. ByteTypeOK /\ core_rxd \in BOOLEAN /\ core_ack \in BOOLEAN /\ command \in Command /\ Bits \in Nat /\ Bits >= 1
  BY Lengths DEF Control, Types, TypeOK, BitTypeOK
<1>2. ByteMove /\ sr' \in Byte /\ dcnt' \in 0..(Bits - 1)
  BY ByteMoves, ShiftMoves DEF Control
<1>3. /\ c_state' \in {"IDLE", "ACK"} \union Commands /\ core_cmd' \in {"NOP"} \union Commands
  <2>1. CASE Fresh
    BY <2>1, <1>1, <1>2 DEF ByteMove, Leaves, Goes, ByteTypeOK, Control, Obeys, Fresh
  <2>2. CASE core_ack /\ ~Fresh
    BY <2>2, <1>1, <1>2 DEF ByteMove, Starts, Writes, Reads, Acks, Stops, Goes, ByteTypeOK, Commands
  <2>3. CASE ~core_ack /\ ~Fresh
    BY <2>3, <1>1, <1>2 DEF ByteMove, Holds, ByteTypeOK
  <2> QED
    BY <2>1, <2>2, <2>3
<1>4. {core_txd, shift, ld, cmd_ack, ack_out}' \subseteq BOOLEAN
  <2>1. sr[1] \in BOOLEAN
    BY <1>1 DEF ByteTypeOK, Byte
  <2>2. command.ack \in BOOLEAN
    BY <1>1 DEF Command
  <2> QED
    BY <1>1, <2>1, <2>2 DEF ByteMachine, ByteCycle, ByteIdle, ByteStart, ByteWrite, ByteRead, ByteAck, ByteStop, ByteTypeOK
<1> QED
  BY <1>2, <1>3, <1>4 DEF ByteTypeOK

(* And those of the device. *)
LEMMA DeviceTypes ==
  ASSUME Given, Types, Device
  PROVE  /\ slot' \in -1..Bits /\ dir' \in {"off", "address", "send", "take"}
         /\ answer' \in Frame /\ heard' \in Frame
         /\ {sda_dev, scl_r, sda_r}' \subseteq BOOLEAN
<1>1. /\ slot \in -1..Bits /\ dir \in {"off", "address", "send", "take"}
      /\ answer \in Frame /\ heard \in Frame /\ {sda_dev, scl_r, sda_r, scl_oen, sda_oen} \subseteq BOOLEAN
      /\ Bits \in Nat /\ Bits >= 1
  BY Lengths DEF Types, TypeOK, BitTypeOK
<1>2. scl \in BOOLEAN /\ sda \in BOOLEAN
  BY <1>1 DEF scl, sda
<1>3. slot' \in -1..Bits /\ (falls => slot' = -1 \/ slot' \in 0..Bits)
  <2>1. (slot + 1) % (Bits + 1) \in 0..Bits
    BY <1>1, NextRound
  <2> QED
    BY <2>1, <1>1 DEF Device
<1>4. dir' \in {"off", "address", "send", "take"}
  BY <1>1 DEF Device, NextDir
<1>5. answer' \in Frame
  BY <1>1, AnswerTypes DEF Device
<1>6. heard' \in Frame
  <2>1. slot >= 0 => slot \in 0..Bits
    BY <1>1
  <2> QED
    BY <1>1, <1>2, <2>1 DEF Device, Frame
<1>7. {sda_dev, scl_r, sda_r}' \subseteq BOOLEAN
  <2>1. falls => slot' \in 0..Bits
    <3>1. falls => ~startSeen /\ ~stopSeen
      BY <1>1, <1>2 DEF falls, startSeen, stopSeen
    <3>2. (slot + 1) % (Bits + 1) \in 0..Bits
      BY <1>1, NextRound
    <3> QED
      BY <3>1, <3>2 DEF Device
  <2>2. falls => answer'[slot'] \in BOOLEAN
    BY <2>1, <1>5 DEF Frame
  <2> QED
    BY <1>1, <1>2, <2>2 DEF Device
<1> QED
  BY <1>3, <1>4, <1>5, <1>6, <1>7

(* Every cycle keeps the types. *)
LEMMA TypesHold == ASSUME Given, Control, Cycle PROVE Types'
<1>1. Software /\ ByteMachine /\ Intflag /\ Tip /\ Inputs /\ Device /\ Observe
  BY DEF Cycle
<1>2. Types /\ TypeOK
  BY DEF Control, Types
<1>3. BitTypeOK' /\ filter_cnt' \in 0..(Interval - 1) /\ ByteTypeOK'
  BY <1>1, <1>2, BitTypes, ByteTypes
<1>4. SoftMove
  BY <1>1, SoftMoves
<1>5. command' \in Command /\ txr' \in Byte
  BY <1>4, <1>2, Records DEF SoftMove, Calls, TypeOK
<1>6. /\ slot' \in -1..Bits /\ dir' \in {"off", "address", "send", "take"}
      /\ answer' \in Frame /\ heard' \in Frame /\ {sda_dev, scl_r, sda_r}' \subseteq BOOLEAN
  BY <1>1, <1>2, DeviceTypes
<1>7. /\ {re, tip, intflag, waiting, owned}' \subseteq BOOLEAN
  <2>1. {re, waiting}' \subseteq BOOLEAN
    BY <1>1, <1>2 DEF Software, Issue, Acknowledge, Pass, WriteCommand, TypeOK
  <2>2. command.rd \in BOOLEAN /\ command.wr \in BOOLEAN
    BY <1>2 DEF TypeOK, Command
  <2>3. {tip, intflag, owned}' \subseteq BOOLEAN
    BY <1>1, <1>2, <2>2 DEF Intflag, Tip, Observe, TypeOK
  <2> QED
    BY <2>1, <2>3
<1>8. gap' \in 0..AccessTicks
  BY <1>1, <1>2, Lengths DEF Software, Issue, Acknowledge, Pass, WriteCommand, TypeOK
<1>9. running' \in Command /\ bytes' \in 0..2
  BY <1>1, <1>2 DEF Observe, TypeOK
<1>10. still' \in 0..Settled
  <2>1. Settled = Sync + 2 * Interval + 4
    BY DEF Settled, Interval
  <2>2. Settled \in Nat
    BY <2>1, Lengths
  <2> QED
    BY <1>1, <1>2, <2>2 DEF Observe, TypeOK
<1>11. carried' \in [heard : Frame, answer : Frame]
  BY <1>1, <1>2 DEF Observe, Types, TypeOK
<1>12. scl_pipe' \in [Pin -> BOOLEAN] /\ sda_pipe' \in [Pin -> BOOLEAN]
  <2>1. scl \in BOOLEAN /\ sda \in BOOLEAN /\ scl_pipe \in [Pin -> BOOLEAN] /\ sda_pipe \in [Pin -> BOOLEAN] /\ Sync \in 1..4
    BY <1>2, Lengths DEF scl, sda, Types, TypeOK, BitTypeOK
  <2>2. \A i \in Pin : i # 1 => i - 1 \in Pin
    BY <2>1 DEF Pin
  <2> QED
    BY <1>1, <2>1, <2>2 DEF Inputs, Pin
<1>13. {answer, heard, carried.heard, carried.answer}' \subseteq Frame
  BY <1>6, <1>11
<1>14. TypeOK'
  BY <1>3, <1>5, <1>6, <1>7, <1>8, <1>9, <1>10, <1>13 DEF TypeOK
<1> QED
  BY <1>3, <1>11, <1>12, <1>14 DEF Types

(* What each part does in a cycle, together. *)
LEMMA Steps == ASSUME Given, Control, Cycle
               PROVE  /\ Shape /\ BitMove /\ SoftMove /\ ByteMove /\ ShiftMove /\ Types /\ Types'
                      /\ Prescale \in Nat /\ Prescale >= 3
<1>1. Software /\ ByteMachine /\ Types
  BY DEF Cycle, Control
<1> QED
  BY <1>1, ShapeHolds, BitMoves, SoftMoves, ByteMoves, ShiftMoves, TypesHold, Lengths

(* While the bit machine works, and as long as it has not ended, nothing else *)
(* moves; and between two of its commands no new one begins by itself.       *)
LEMMA Waits ==
  ASSUME Given, Control, Cycle
  PROVE  /\ phase # 0 => c_state # "IDLE" /\ ~core_ack /\ ~ld /\ ~shift /\ sr' = sr /\ dcnt' = dcnt
         /\ c_state # "IDLE" => ~Fresh /\ ~cmd_ack /\ Works /\ ~intflag /\ running = command
                                /\ running' = running /\ command' = command /\ txr' = txr
         /\ c_state # "IDLE" /\ ~core_ack => Holds
<1>1. Shape /\ BitMove /\ SoftMove /\ ByteMove /\ ShiftMove /\ Types
  BY Steps
<1>2. phase # 0 => c_state # "IDLE" /\ ~core_ack /\ ~ld /\ ~shift
  <2>1. phase # 0 => c_state # "IDLE"
    BY <1>1 DEF Shape, Commands
  <2> QED
    BY <2>1 DEF Control, Obeys
<1>3. ~ld /\ ~shift => sr' = sr /\ dcnt' = dcnt
  BY <1>1 DEF ShiftMove
<1>4. c_state # "IDLE" => ~Fresh /\ ~cmd_ack /\ Works /\ ~intflag /\ running = command
                          /\ running' = running /\ command' = command /\ txr' = txr
  <2> SUFFICES ASSUME c_state # "IDLE"
               PROVE  ~Fresh /\ ~cmd_ack /\ Works /\ ~intflag /\ running = command
                          /\ running' = running /\ command' = command /\ txr' = txr
    OBVIOUS
  <2>1. ~Fresh /\ ~cmd_ack /\ Works
    BY DEF Fresh, Works, Control, Obeys
  <2>2. ~intflag /\ running = command
    BY <2>1 DEF Control, Serves
  <2>3. command' = command /\ txr' = txr
    BY <2>1, <1>1 DEF SoftMove
  <2>4. running' = running
    BY DEF Cycle, Observe, leavesIdle
  <2> QED
    BY <2>1, <2>2, <2>3, <2>4
<1>5. c_state # "IDLE" /\ ~core_ack => Holds
  BY <1>1, <1>4 DEF ByteMove
<1> QED
  BY <1>2, <1>3, <1>4, <1>5

(* The clock divider ticks once in a phase. *)
LEMMA BeatsHold == ASSUME Given, Control, Cycle PROVE Beats'
<1>1. ClockDivider /\ cnt \in 0..Prescale /\ clk_en \in BOOLEAN /\ Prescale \in Nat /\ Prescale >= 3
  BY Lengths DEF Cycle, ByteMachine, ByteCycle, BitCycle, Control, Types, TypeOK, BitTypeOK
<1>2. clk_en' <=> cnt = 0
  BY <1>1 DEF ClockDivider
<1>3. cnt' = Prescale <=> cnt = 0
  BY <1>1 DEF ClockDivider
<1> QED
  BY <1>2, <1>3 DEF Beats

(* The commands that the byte machine gives are those of its state. *)
CommandOf(state, rd) == CASE state = "IDLE" -> "NOP"
                          [] state = "ACK" -> IF rd THEN "WRITE" ELSE "READ"
                          [] OTHER -> state

(* The bit machine carries out what the byte machine asks for, one command *)
(* at a time. *)
LEMMA ObeysHolds == ASSUME Given, Control, Cycle PROVE Obeys'
<1>1. Shape /\ BitMove /\ SoftMove /\ ByteMove /\ Types /\ Types' /\ Prescale \in Nat /\ Prescale >= 3
  BY Steps
<1>2. /\ phase # 0 => c_state # "IDLE" /\ ~core_ack /\ ~ld /\ ~shift
      /\ c_state # "IDLE" => ~Fresh /\ ~cmd_ack /\ Works /\ running = command /\ running' = running
      /\ c_state # "IDLE" /\ ~core_ack => Holds
  BY Waits
<1>3. /\ c_state = "IDLE" => core_cmd = "NOP"
      /\ core_ack => phase = 0 /\ beat = 0 /\ c_state # "IDLE"
      /\ phase # 0 => op = core_cmd
      /\ (Fresh => c_state = "IDLE")
  BY DEF Control, Obeys, Fresh
<1>4. /\ c_state = "IDLE" /\ ~Fresh => Holds
      /\ Fresh => Leaves
      /\ core_ack => Starts \/ Writes \/ Reads \/ Acks \/ Stops
  BY <1>1, <1>3, <1>2 DEF ByteMove
<1>5. /\ c_state = "WRITE" => running.wr /\ ~running.rd
      /\ c_state = "READ" => running.rd
  <2>1. c_state # "IDLE" => ~(command.rd /\ command.wr) /\ running = command
    BY <1>2 DEF Control, Serves
  <2> QED
    BY <2>1 DEF Control, Serves
<1>6. core_cmd' = CommandOf(c_state', running'.rd)
  <2>1. core_cmd = CommandOf(c_state, running.rd)
    BY DEF Control, Obeys, CommandOf
  <2>2. CASE Fresh
    BY <2>2, <1>4 DEF Leaves, Goes, CommandOf, Commands
  <2>3. CASE core_ack
    BY <2>3, <1>2, <1>3, <1>4, <1>5 DEF Starts, Writes, Reads, Acks, Stops, Goes, CommandOf
  <2>4. CASE ~core_ack /\ ~Fresh
    <3>1. Holds
      BY <2>4, <1>2, <1>4
    <3>2. running' = running
      BY <3>1, <1>1 DEF Cycle, Observe, leavesIdle, Holds
    <3> QED
      BY <3>1, <3>2, <2>1 DEF Holds
  <2> QED
    BY <2>2, <2>3, <2>4
<1>7. phase' # 0 => op' = core_cmd'
  <2>1. CASE phase # 0
    <3>1. core_cmd' = core_cmd
      BY <2>1, <1>2 DEF Holds
    <3> QED
      BY <3>1, <2>1, <1>1, <1>3 DEF BitMove, Quiet, Rest, Begin, Advance, Finish
  <2>2. CASE Begin
    <3>1. c_state # "IDLE" /\ ~core_ack
      BY <2>2, <1>1, <1>3 DEF Begin, Turn, Commands
    <3> QED
      BY <3>1, <2>2, <1>2 DEF Holds, Begin
  <2>3. CASE phase = 0 /\ ~Begin
    BY <2>3, <1>1 DEF BitMove, Quiet, Rest, Advance, Finish
  <2> QED
    BY <2>1, <2>2, <2>3
<1>8. core_ack' => phase' = 0 /\ beat' = 0 /\ c_state' # "IDLE"
  <2>1. core_ack' => Finish
    BY <1>1 DEF BitMove, Quiet, Rest, Begin, Advance, Finish
  <2>2. Finish => c_state' # "IDLE"
    BY <1>2 DEF Finish, Holds
  <2> QED
    BY <2>1, <2>2 DEF Finish, Turn
<1>9. ~core_ack /\ ~Fresh => ~ld' /\ ~shift'
  BY <1>2, <1>4 DEF Holds
<1>10. core_ack => phase' = 0 /\ beat' = 1 /\ ~core_ack'
  BY <1>1, <1>3 DEF BitMove, Quiet, Rest, Begin, Advance, Finish, Turn
<1>11. Fresh => phase' = 0 /\ ~core_ack' /\ c_state = "IDLE"
  <2>1. Fresh => phase = 0 /\ core_cmd = "NOP" /\ c_state = "IDLE"
    BY <1>2, <1>3
  <2>2. ~("NOP" \in Commands)
    BY DEF Commands
  <2> QED
    BY <1>1, <2>1, <2>2 DEF BitMove, Quiet, Rest, Begin, Advance, Finish, Turn
<1>12. ld' => phase' = 0 /\ ~core_ack' /\ ~shift' /\ c_state' \in Commands
  <2>1. CASE Fresh
    BY <2>1, <1>4, <1>11 DEF Leaves, Goes
  <2>2. CASE core_ack
    BY <2>2, <1>4, <1>10 DEF Starts, Writes, Reads, Acks, Stops, Goes, Commands
  <2> QED
    BY <2>1, <2>2, <1>9
<1>13. shift' => /\ phase' = 0 /\ beat' = 1 /\ c_state' \in {"WRITE", "READ", "ACK"}
                 /\ c_state' = "ACK" => running'.rd
  <2>1. CASE Fresh
    BY <2>1, <1>4 DEF Leaves
  <2>2. CASE core_ack
    BY <2>2, <1>2, <1>3, <1>4, <1>5, <1>10 DEF Starts, Writes, Reads, Acks, Stops, Goes
  <2> QED
    BY <2>1, <2>2, <1>9
<1>14. cmd_ack' => c_state' = "IDLE"
  <2>1. CASE Fresh
    BY <2>1, <1>4 DEF Leaves
  <2>2. CASE core_ack
    BY <2>2, <1>4, <1>1 DEF Starts, Writes, Reads, Acks, Stops, Goes, Types, TypeOK, Command
  <2>3. CASE ~core_ack /\ ~Fresh
    BY <2>3, <1>2, <1>4 DEF Holds
  <2> QED
    BY <2>1, <2>2, <2>3
<1> QED
  BY <1>6, <1>7, <1>8, <1>12, <1>13, <1>14 DEF Obeys, CommandOf

(* The byte machine carries out what software asked for, and software waits *)
(* for it. *)
LEMMA ServesHolds == ASSUME Given, Control, Edges, Cycle PROVE Serves'
<1>1. Shape /\ BitMove /\ SoftMove /\ ByteMove /\ Types /\ Types' /\ Prescale \in Nat /\ Prescale >= 3
  BY Steps
<1>2. /\ phase # 0 => c_state # "IDLE" /\ ~core_ack
      /\ c_state # "IDLE" => ~Fresh /\ ~cmd_ack /\ Works /\ ~intflag /\ running = command
                             /\ running' = running /\ command' = command /\ txr' = txr
      /\ c_state # "IDLE" /\ ~core_ack => Holds
  BY Waits
<1>3. /\ core_ack => c_state # "IDLE"
      /\ Works => waiting /\ ~intflag /\ running = command
      /\ Fresh => re /\ waiting /\ gap = AccessTicks /\ (intflag => command.iack)
      /\ Fresh => c_state = "IDLE" /\ ~cmd_ack /\ Asks
      /\ intflag' = ((cmd_ack \/ intflag) /\ ~(re /\ command.iack))
  BY DEF Control, Obeys, Serves, Fresh, Cycle, Intflag, iack
<1>4. /\ c_state = "IDLE" /\ ~Fresh => Holds
      /\ Fresh => Leaves
      /\ core_ack => Starts \/ Writes \/ Reads \/ Acks \/ Stops
  BY <1>1, <1>3, <1>2 DEF ByteMove
<1> DEFINE Asked(c, t) == /\ c.rd \/ c.wr \/ c.sto
                          /\ ~(c.rd /\ c.wr) /\ (c.sta => c.wr)
                          /\ (c.rd /\ c.sto => c.ack)
                          /\ (c.sta /\ c.sto => ~t[Bits])
           Runs(s, c) == /\ s = "START" => c.sta
                         /\ s = "WRITE" => c.wr
                         /\ s = "READ" => c.rd
                         /\ s = "ACK" => c.rd \/ c.wr
                         /\ s = "STOP" => c.sto
<1>5. /\ Works \/ Fresh => Asked(command, txr)
      /\ Runs(c_state, running)
  BY DEF Control, Serves, Asks
<1>6. CASE c_state # "IDLE"
  <2>1. /\ waiting' /\ ~intflag' /\ running' = command' /\ command' = command /\ txr' = txr /\ running' = running
        /\ ~(Fresh' /\ ~Works')
    <3>1. waiting' /\ command' = command
      BY <1>1, <1>2, <1>3, <1>6 DEF SoftMove
    <3>2. ~intflag'
      BY <1>2, <1>3, <1>6
    <3>3. ~(Fresh' /\ ~Works')
      <4>1. CASE ~core_ack
        BY <4>1, <1>2, <1>6 DEF Holds, Works
      <4>2. CASE core_ack
        <5>1. CASE Acks /\ command.sto = FALSE
          BY <5>1 DEF Acks, Works
        <5>2. CASE Acks /\ command.sto # FALSE
          BY <5>2, <1>1 DEF Acks, Works, Goes, Types, TypeOK, Command
        <5> QED
          BY <5>1, <5>2, <4>2, <1>4 DEF Starts, Writes, Reads, Stops, Works, Goes
      <4> QED
        BY <4>1, <4>2
    <3> QED
      BY <3>1, <3>2, <3>3, <1>2, <1>6
  <2>2. Runs(c_state', running')
    <3>1. CASE ~core_ack
      BY <3>1, <1>2, <1>5, <1>6 DEF Holds
    <3>2. CASE core_ack
      <4>1. Asked(running, txr) /\ running.rd \in BOOLEAN /\ running.wr \in BOOLEAN /\ running.sto \in BOOLEAN
        BY <1>1, <1>2, <1>5, <1>6 DEF Types, TypeOK, Command
      <4> QED
        BY <3>2, <4>1, <1>2, <1>4, <1>5, <1>6 DEF Starts, Writes, Reads, Acks, Stops, Goes
    <3> QED
      BY <3>1, <3>2
  <2>3. Asked(command', txr')
    BY <2>1, <1>2, <1>5, <1>6
  <2>4. Fresh' => Works'
    BY <2>1
  <2>5. ~(Works' /\ Fresh')
    BY DEF Works, Fresh
  <2> HIDE DEF Asked, Runs
  <2> QED
    BY <2>1, <2>2, <2>3, <2>4, <2>5 DEF Serves, Asks, Asked, Runs
<1>7. CASE Fresh
  <2>1. command' = command /\ txr' = txr /\ waiting' /\ ~intflag' /\ Works'
    <3>1. command' = command /\ txr' = txr /\ waiting'
      BY <1>1, <1>3, <1>7 DEF SoftMove
    <3>2. ~intflag'
      BY <1>3, <1>7
    <3>3. Works'
      BY <1>4, <1>7 DEF Leaves, Goes, Works, Commands
    <3> QED
      BY <3>1, <3>2, <3>3
  <2>2. c_state' \in Commands /\ running' = command
    <3>1. c_state' \in Commands
      BY <1>4, <1>7 DEF Leaves, Goes
    <3>2. leavesIdle
      BY <3>1, <1>3, <1>7 DEF leavesIdle, Commands
    <3> QED
      BY <3>1, <3>2 DEF Cycle, Observe
  <2>3. Runs(c_state', running')
    <3>1. Asked(command, txr) /\ command.rd \in BOOLEAN /\ command.wr \in BOOLEAN /\ command.sto \in BOOLEAN /\ command.sta \in BOOLEAN
      BY <1>1, <1>5, <1>7 DEF Types, TypeOK, Command
    <3>2. c_state' = CASE command.sta -> "START" [] ~command.sta /\ command.rd -> "READ"
                       [] ~command.sta /\ ~command.rd /\ command.wr -> "WRITE" [] OTHER -> "STOP"
      BY <1>4, <1>7 DEF Leaves, Goes
    <3> QED
      BY <3>1, <3>2, <2>2
  <2>4. Asked(command', txr') /\ ~Fresh'
    BY <2>1, <2>2, <1>5, <1>7 DEF Fresh, Commands
  <2> HIDE DEF Asked, Runs
  <2> QED
    BY <2>1, <2>2, <2>3, <2>4 DEF Serves, Asks, Asked, Runs
<1>8. CASE c_state = "IDLE" /\ ~Fresh
  <2>1. c_state' = "IDLE" /\ ~cmd_ack' /\ ~Works'
    BY <1>4, <1>8 DEF Holds, Works
  <2>2. CASE Fresh'
    <3>1. Asks'
      BY <2>2 DEF Fresh
    <3>2. ~Works
      <4>1. Works => cmd_ack /\ command' = NoCommand
        BY <1>1, <1>8 DEF Works, SoftMove
      <4> QED
        BY <4>1, <3>1, Records DEF Asks
    <3>3. Calls
      BY <3>1, <3>2, <1>1, <1>8 DEF SoftMove
    <3>4. owned' = owned
      <4>1. ~startSeen /\ ~stopSeen
        <5>1. phase = 0 /\ ~core_ack
          BY <1>2, <1>3, <1>8
        <5> QED
          BY <5>1 DEF Edges
      <4> QED
        BY <4>1, <1>1 DEF Cycle, Observe, Types, TypeOK
    <3>5. intflag' => command'.iack
      BY <3>2, <3>3, <1>3, <1>8 DEF Calls, Works
    <3>6. Asked(command', txr') /\ (~command'.sta => owned')
      BY <3>3, <3>4 DEF Calls, Sensible
    <3> HIDE DEF Asked
    <3> QED
      BY <2>1, <3>1, <3>3, <3>5, <3>6 DEF Serves, Calls, Asks, Asked
  <2>3. CASE ~Fresh'
    BY <2>1, <2>3 DEF Serves
  <2> QED
    BY <2>2, <2>3
<1> QED
  BY <1>3, <1>6, <1>7, <1>8

(* The control part of the invariant. *)
LEMMA ControlHolds == ASSUME Given, Control, Edges, Cycle PROVE Control'
  BY TypesHold, BeatsHold, ObeysHolds, ServesHolds DEF Control

-----------------------------------------------------------------------------
(* The device and the lines. *)

LEMMA LineTypes == ASSUME Types
                   PROVE  /\ scl \in BOOLEAN /\ sda \in BOOLEAN /\ scl_oen \in BOOLEAN /\ sda_oen \in BOOLEAN
                          /\ sda_dev \in BOOLEAN /\ scl_r \in BOOLEAN /\ sda_r \in BOOLEAN /\ owned \in BOOLEAN
                          /\ core_ack \in BOOLEAN /\ core_txd \in BOOLEAN
  BY DEF Types, TypeOK, BitTypeOK, ByteTypeOK, scl, sda

(* A device that does not send leaves SDA alone, but for the acknowledge.    *)
LEMMA LeavesSda == ASSUME Given, Types, Drives, dir # "send", slot # Bits PROVE sda_dev
<1>1. slot \in -1..Bits /\ Bits \in Nat /\ Bits >= 1 /\ sda_dev \in BOOLEAN
  BY Lengths DEF Types, TypeOK
<1>2. CASE slot = -1
  BY <1>2 DEF Drives
<1>3. CASE slot # -1
  <2>1. slot \in 0..Bits /\ slot # Bits
    BY <1>1, <1>3
  <2>2. Released[slot] = TRUE /\ \A nack \in BOOLEAN : [Released EXCEPT ![Bits] = nack][slot] = TRUE
    BY <2>1, <1>1 DEF Released
  <2>3. answer[slot] = TRUE
    BY <2>2 DEF Drives, Answers
  <2> QED
    BY <2>3, <1>3 DEF Drives
<1> QED
  BY <1>2, <1>3

(* So it does around START and STOP. *)
LEMMA LeavesStart == ASSUME Given, Control, Drives, Roles, c_state \in {"START", "STOP"}
                     PROVE  sda_dev
<1>1. Types /\ Bits \in Nat /\ Bits >= 1
  BY Lengths DEF Control
<1>2. dir # "send" /\ (slot = -1 \/ slot = 0)
  <2>1. CASE c_state = "START" /\ Started
    BY <2>1 DEF Roles
  <2>2. CASE c_state = "START" /\ ~Started
    BY <2>2, <1>1 DEF Roles, Types, TypeOK
  <2>3. CASE c_state = "STOP"
    BY <2>3 DEF Roles
  <2> QED
    BY <2>1, <2>2, <2>3
<1> QED
  BY <1>1, <1>2, LeavesSda

(* What is remembered of the lines. *)
LEMMA OwnedMoves == ASSUME Types, Cycle
                    PROVE  /\ owned' = taken /\ owned' \in BOOLEAN
                           /\ scl_r' = scl /\ sda_r' = sda
  BY LineTypes DEF Cycle, Observe, Device, taken

(* Between the edges of SCL the device keeps still. *)
LEMMA KeepsSda == ASSUME Control, Edges, Cycle
                  PROVE  /\ ~core_ack => sda_dev' = sda_dev
                         /\ scl => sda_dev' = sda_dev
                         /\ core_ack /\ c_state = "STOP" => sda_dev' = sda_dev
<1>1. ~falls => sda_dev' = sda_dev
  BY DEF Cycle, Device
<1> QED
  BY <1>1 DEF Edges, falls

(* The lines move only where a phase ends, and SDA never with SCL. *)
LEMMA EdgesHold ==
  ASSUME Given, Control, Drives, Roles, Levels, Ready, Edges, Cycle
  PROVE  Edges'
<1>1. Shape /\ BitMove /\ Types /\ Types' /\ Prescale \in Nat /\ Prescale >= 3
  BY Steps
<1>2. /\ scl \in BOOLEAN /\ sda \in BOOLEAN /\ scl_oen \in BOOLEAN /\ sda_oen \in BOOLEAN
      /\ sda_dev \in BOOLEAN /\ core_txd \in BOOLEAN
      /\ (scl <=> scl_oen) /\ (sda <=> sda_oen /\ sda_dev)
  BY <1>1, LineTypes DEF scl, sda
<1>3. /\ scl' \in BOOLEAN /\ sda' \in BOOLEAN /\ scl_oen' \in BOOLEAN /\ sda_oen' \in BOOLEAN
      /\ sda_dev' \in BOOLEAN
      /\ (scl' <=> scl_oen') /\ (sda' <=> sda_oen' /\ sda_dev')
  <2>1. Types' => scl' \in BOOLEAN /\ sda' \in BOOLEAN /\ scl_oen' \in BOOLEAN /\ sda_oen' \in BOOLEAN /\ sda_dev' \in BOOLEAN
    BY DEF Types, TypeOK, BitTypeOK, scl, sda
  <2> QED
    BY <2>1, <1>1 DEF scl, sda
<1>4. scl_r' = scl /\ sda_r' = sda /\ owned' = taken
  BY <1>1, OwnedMoves
<1>5. /\ startSeen' <=> scl' /\ scl /\ sda /\ ~sda'
      /\ stopSeen' <=> scl' /\ scl /\ ~sda /\ sda'
      /\ rises' <=> scl' /\ ~scl
      /\ falls' <=> ~scl' /\ scl
      /\ (scl_r = scl)' <=> (scl <=> scl')
      /\ (sda_r = sda)' <=> (sda <=> sda')
  BY <1>2, <1>3, <1>4 DEF startSeen, stopSeen, rises, falls
<1>6. /\ phase # 0 => /\ c_state' = c_state /\ ~core_ack
                      /\ (c_state = "STOP" <=> op = "STOP") /\ (c_state = "START" <=> op = "START")
      /\ core_ack => beat = 0
  <2>1. phase # 0 => c_state' = c_state /\ ~core_ack
    BY Waits DEF Holds
  <2>2. phase # 0 => (c_state = "STOP" <=> op = "STOP") /\ (c_state = "START" <=> op = "START")
    BY <1>1 DEF Shape
  <2> QED
    BY <2>1, <2>2 DEF Control, Obeys
<1>7. /\ ~core_ack => sda_dev' = sda_dev
      /\ scl => sda_dev' = sda_dev
  BY KeepsSda
<1> SUFFICES /\ beat' > 0 => (scl <=> scl')
             /\ beat' > 1 => (sda <=> sda')
             /\ beat' = 1 => (sda <=> sda') \/ ~scl'
             /\ startSeen' <=> op' = "START" /\ phase' = 4 /\ beat' = 0
             /\ stopSeen' <=> c_state' = "STOP" /\ core_ack'
             /\ rises' => phase' = 3 /\ beat' = 0
             /\ phase' = 3 /\ beat' = 0 /\ (op' # "START" \/ owned') => rises'
             /\ falls' <=> core_ack' /\ c_state' # "STOP"
             /\ rises' \/ falls' => (sda <=> sda')
  BY <1>5 DEF Edges
<1>8. CASE Quiet
  <2>1. /\ beat \in Nat /\ beat' = beat + 1 /\ ~core_ack' /\ (scl_oen' <=> scl_oen) /\ (sda_oen' <=> sda_oen)
    BY <1>1, <1>8 DEF Quiet, Shape
  <2>2. scl' <=> scl
    BY <1>2, <1>3, <2>1
  <2>3. scl \/ ~core_ack => (sda <=> sda')
    BY <1>2, <1>3, <1>7, <2>1
  <2>4. beat' > 1 => ~core_ack
    BY <2>1, <1>6
  <2>5. ~startSeen' /\ ~stopSeen' /\ ~rises' /\ ~falls'
    BY <1>5, <2>2, <2>3
  <2> QED
    BY <2>1, <2>2, <2>3, <2>4, <2>5
<1>9. CASE Turn
  <2>1. beat = Prescale /\ beat' = 0 /\ ~core_ack
    BY <1>1, <1>6, <1>9 DEF Turn
  <2>2. (sda_dev' <=> sda_dev) /\ ~startSeen /\ ~stopSeen
    <3>1. ~startSeen /\ ~stopSeen
      BY <2>1, <1>1 DEF Edges
    <3> QED
      BY <2>1, <1>7, <3>1
  <2>3. owned' = owned
    BY <2>2, <1>1, <1>4, LineTypes DEF taken
  <2>4. CASE Rest \/ Begin
    <3>1. (scl_oen' <=> scl_oen) /\ (sda_oen' <=> sda_oen) /\ ~core_ack' /\ phase' \in {0, 1}
      BY <2>4 DEF Rest, Begin
    <3>2. (scl' <=> scl) /\ (sda' <=> sda)
      BY <3>1, <2>2, <1>2, <1>3
    <3>3. ~startSeen' /\ ~stopSeen' /\ ~rises' /\ ~falls'
      BY <1>5, <3>2
    <3> QED
      BY <3>1, <3>3, <2>1
  <2>5. CASE Advance
    <3>1. /\ op \in Commands /\ phase \in 1..5 /\ phase < LastPhase(op) /\ LastPhase(op) = IF op = "START" THEN 5 ELSE 4
          /\ op' = op /\ phase' = phase + 1 /\ ~core_ack' /\ c_state' = c_state
          /\ scl_oen' = SclOf(op, phase) /\ sda_oen' = SdaOf(op, phase, core_txd)
      BY <2>5, <1>1, <1>6 DEF Advance, Shape, LastPhase
    <3>2. CASE op = "START"
      <4>1. (scl_oen' <=> IF phase = 1 THEN scl_oen ELSE phase < 5) /\ (sda_oen' <=> phase < 3)
        BY <3>1, <3>2, <1>2, DriveLevels
      <4>2. sda_dev /\ phase \in 1..4
        BY <3>1, <3>2, <1>6, LeavesStart
      <4>3. /\ phase < 3 => IF owned THEN ~scl_oen ELSE scl_oen /\ sda_oen
            /\ phase \in {2, 3} => sda_oen
            /\ phase > 2 => scl_oen
            /\ phase > 3 => ~sda_oen
        BY <3>2 DEF Levels
      <4>4. CASE phase = 1
        BY <4>1, <4>2, <4>3, <4>4, <3>1, <2>1, <2>2, <1>2, <1>3, <1>5
      <4>5. CASE phase = 2
        <5>1. sda_oen /\ sda_oen' /\ scl_oen' /\ ~core_ack' /\ sda_dev' /\ sda_dev
          BY <4>1, <4>2, <4>3, <4>5, <3>1, <2>2
        <5>2. owned' => ~scl_oen
          BY <4>3, <4>5, <2>3
        <5>3. sda /\ sda' /\ scl' /\ (owned' => ~scl)
          BY <5>1, <5>2, <1>2, <1>3
        <5>4. ~startSeen' /\ ~stopSeen' /\ ~falls' /\ (rises' <=> ~scl)
          BY <5>3, <1>5
        <5> QED
          BY <5>1, <5>3, <5>4, <4>5, <3>1, <3>2, <2>1
      <4>6. CASE phase = 3
        BY <4>1, <4>2, <4>3, <4>6, <3>1, <3>2, <2>1, <2>2, <1>2, <1>3, <1>5
      <4>7. CASE phase = 4
        BY <4>1, <4>2, <4>3, <4>7, <3>1, <2>1, <2>2, <1>2, <1>3, <1>5
      <4> QED
        BY <4>2, <4>4, <4>5, <4>6, <4>7
    <3>3. CASE op # "START"
      <4>1. /\ phase \in 1..3 /\ (scl_oen <=> phase > 2) /\ (scl_oen' <=> phase > 1)
        <5>1. op \in {"READ", "WRITE", "STOP"} /\ phase \in 1..3
          BY <3>1, <3>3 DEF Commands
        <5>2. scl_oen' <=> phase > 1
          BY <5>1, <3>1, <1>2, DriveLevels
        <5>3. scl_oen = (phase > 2)
          BY <5>1 DEF Levels
        <5> QED
          BY <5>1, <5>2, <5>3, <1>2
      <4>2. phase > 1 => (sda_oen' <=> sda_oen)
        <5>1. CASE op = "READ"
          <6>1. sda_oen'
            BY <5>1, <3>1, <1>2, DriveLevels
          <6> QED
            BY <6>1, <5>1 DEF Levels
        <5>2. CASE op = "WRITE"
          <6>1. sda_oen' <=> core_txd
            BY <5>2, <3>1, <1>2, DriveLevels
          <6>2. phase > 1 => sda_oen = core_txd
            BY <5>2 DEF Levels
          <6> QED
            BY <6>1, <6>2
        <5>3. CASE op = "STOP"
          <6>1. sda_oen' <=> phase = 4
            BY <5>3, <3>1, <1>2, DriveLevels
          <6>2. phase > 1 => ~sda_oen
            BY <5>3 DEF Levels
          <6> QED
            BY <6>1, <6>2, <4>1
        <5> QED
          BY <5>1, <5>2, <5>3, <3>1, <3>3 DEF Commands
      <4>3. CASE phase = 1
        BY <4>1, <4>3, <3>1, <2>1, <1>2, <1>3, <1>5
      <4>4. CASE phase = 2
        BY <4>1, <4>2, <4>4, <3>1, <2>1, <2>2, <1>2, <1>3, <1>5
      <4>5. CASE phase = 3
        BY <4>1, <4>2, <4>5, <3>1, <3>3, <2>1, <2>2, <1>2, <1>3, <1>5
      <4> QED
        BY <4>1, <4>3, <4>4, <4>5
    <3> QED
      BY <3>2, <3>3
  <2>6. CASE Finish
    <3>1. /\ op \in Commands /\ phase = IF op = "START" THEN 5 ELSE 4
          /\ phase' = 0 /\ core_ack' /\ c_state' = c_state /\ (c_state = "STOP" <=> op = "STOP")
          /\ (c_state = "START" <=> op = "START")
          /\ scl_oen' = SclOf(op, phase) /\ sda_oen' = SdaOf(op, phase, core_txd)
      BY <2>6, <1>1, <1>6 DEF Finish, Shape, LastPhase
    <3>2. scl_oen
      <4>1. op \in {"READ", "WRITE", "STOP"} => scl_oen = (phase > 2)
        BY DEF Levels
      <4>2. op = "START" => (phase > 2 => scl_oen)
        BY DEF Levels
      <4>3. CASE op = "START"
        BY <4>2, <4>3, <3>1
      <4>4. CASE op # "START"
        <5>1. op \in {"READ", "WRITE", "STOP"} /\ phase = 4
          BY <3>1, <4>4 DEF Commands
        <5> QED
          BY <4>1, <5>1, <1>2
      <4> QED
        BY <4>3, <4>4
    <3>3. CASE op = "STOP"
      <4>1. scl_oen' /\ sda_oen'
        BY <3>1, <3>3, <1>2, DriveLevels
      <4>2. ~sda_oen /\ sda_dev
        BY <3>1, <3>3, LeavesStart DEF Levels
      <4> QED
        BY <4>1, <4>2, <3>1, <3>2, <3>3, <2>1, <2>2, <1>2, <1>3, <1>5
    <3>4. CASE op # "STOP"
      <4>1. ~scl_oen'
        BY <3>1, <3>4, <1>2, DriveLevels DEF Commands
      <4>2. sda_oen' <=> sda_oen
        <5>1. CASE op = "READ"
          <6>1. sda_oen'
            BY <5>1, <3>1, <1>2, DriveLevels
          <6> QED
            BY <6>1, <5>1, <3>1 DEF Levels
        <5>2. CASE op = "WRITE"
          <6>1. sda_oen' <=> core_txd
            BY <5>2, <3>1, <1>2, DriveLevels
          <6>2. phase > 1 => sda_oen = core_txd
            BY <5>2 DEF Levels
          <6> QED
            BY <6>1, <6>2, <5>2, <3>1
        <5>3. CASE op = "START"
          <6>1. sda_oen' <=> phase < 3
            BY <5>3, <3>1, <1>2, DriveLevels
          <6>2. phase > 3 => ~sda_oen
            BY <5>3 DEF Levels
          <6> QED
            BY <6>1, <6>2, <5>3, <3>1
        <5> QED
          BY <5>1, <5>2, <5>3, <3>1, <3>4 DEF Commands
      <4> QED
        BY <4>1, <4>2, <3>1, <3>2, <3>4, <2>1, <2>2, <1>2, <1>3, <1>5
    <3> QED
      BY <3>3, <3>4
  <2> QED
    BY <2>4, <2>5, <2>6, <1>1, <1>9 DEF BitMove, Quiet, Turn
<1> QED
  BY <1>8, <1>9, <1>1 DEF BitMove, Rest, Begin, Advance, Finish

(* The bit that is sent does not change while it is sent. *)
LEMMA OutStays ==
  ASSUME Given, Control, Cycle, phase # 0
  PROVE  /\ Out' = Out /\ Out \in BOOLEAN
         /\ op = "WRITE" => core_txd' = Out
         /\ op = "READ" => Out = TRUE
         /\ c_state \in {"READ", "WRITE", "ACK"} => op \in {"READ", "WRITE"}
<1>1. /\ Shape /\ Types /\ Bits \in Nat /\ Bits >= 1
  BY Steps, Lengths
<1>2. Holds /\ sr' = sr /\ command' = command /\ running' = running
  BY Waits
<1>3. op = core_cmd /\ core_cmd = CASE c_state = "IDLE" -> "NOP"
                         [] c_state = "ACK" -> IF running.rd THEN "WRITE" ELSE "READ"
                         [] OTHER -> c_state
  BY DEF Control, Obeys
<1>4. /\ sr[1] \in BOOLEAN /\ command.ack \in BOOLEAN
  BY <1>1 DEF Types, TypeOK, ByteTypeOK, Byte, Command
<1>5. Out' = Out /\ Out \in BOOLEAN
  <2>1. Out' = Out
    BY <1>2 DEF Out, Holds
  <2>2. CASE c_state = "WRITE"
    BY <2>1, <2>2, <1>4 DEF Out
  <2>3. CASE c_state = "ACK" /\ running.rd
    BY <2>1, <2>3, <1>4 DEF Out
  <2>4. CASE c_state # "WRITE" /\ ~(c_state = "ACK" /\ running.rd)
    BY <2>1, <2>4 DEF Out
  <2> QED
    BY <2>2, <2>3, <2>4
<1>6. op = "WRITE" => c_state = "WRITE" \/ (c_state = "ACK" /\ running.rd)
  BY <1>1, <1>3 DEF Shape
<1>7. op = "WRITE" => core_txd' = Out
  BY <1>2, <1>6 DEF Holds, Out
<1>8. op = "READ" => c_state = "READ" \/ (c_state = "ACK" /\ ~running.rd)
  BY <1>1, <1>3 DEF Shape
<1>9. op = "READ" => Out = TRUE
  BY <1>8 DEF Out
<1>10. c_state \in {"READ", "WRITE", "ACK"} => op \in {"READ", "WRITE"}
  BY <1>3
<1> QED
  BY <1>5, <1>7, <1>9, <1>10

(* The bit is in core_txd before the bit machine looks. *)
LEMMA ReadyHolds == ASSUME Given, Control, Ready, Cycle PROVE Ready'
<1>1. Shape /\ BitMove /\ Types /\ Prescale \in Nat /\ Prescale >= 3
  BY Steps
<1>2. op' = "WRITE" /\ (phase' > 1 \/ beat' > 0) => core_txd' = Out'
  <2> SUFFICES ASSUME op' = "WRITE" /\ (phase' > 1 \/ beat' > 0) PROVE core_txd' = Out'
    OBVIOUS
  <2>1. phase # 0 /\ op = "WRITE"
    BY <1>1 DEF BitMove, Quiet, Rest, Begin, Advance, Finish, Turn, Shape
  <2> QED
    BY <2>1, OutStays
<1>3. core_ack' /\ Underway' => sda_oen' = Out'
  <2> SUFFICES ASSUME core_ack' /\ Underway' PROVE sda_oen' = Out'
    OBVIOUS
  <2>1. Finish
    BY <1>1 DEF BitMove, Quiet, Rest, Begin, Advance, Finish
  <2>2. phase # 0 /\ phase > 1 /\ c_state' = c_state
    BY <2>1, <1>1, Waits DEF Finish, LastPhase, Holds
  <2>3. c_state \in {"READ", "WRITE", "ACK"}
    BY <2>2 DEF Underway
  <2>4. Out' = Out /\ Out \in BOOLEAN /\ (op = "READ" => Out = TRUE) /\ op \in {"READ", "WRITE"}
    BY <2>2, <2>3, OutStays
  <2>5. op = "WRITE" => core_txd = Out
    BY <2>2 DEF Ready
  <2>6. sda_oen' = SdaOf(op, phase, core_txd)
    BY <2>1 DEF Finish
  <2>7. CASE op = "READ"
    BY <2>4, <2>6, <2>7 DEF SdaOf
  <2>8. CASE op = "WRITE"
    BY <2>4, <2>5, <2>6, <2>8 DEF SdaOf
  <2> QED
    BY <2>4, <2>7, <2>8
<1> QED
  BY <1>2, <1>3 DEF Ready

(* The levels of the lines in each phase. *)
LEMMA LevelsHold ==
  ASSUME Given, Control, Drives, Roles, Levels, Ready, Edges, Cycle
  PROVE  Levels'
<1>1. Shape /\ BitMove /\ Types /\ Types' /\ Prescale \in Nat /\ Prescale >= 3
  BY Steps
<1>2. Edges' /\ Ready'
  BY EdgesHold, ReadyHolds
<1>3. /\ scl_oen \in BOOLEAN /\ sda_oen \in BOOLEAN /\ core_txd \in BOOLEAN /\ owned \in BOOLEAN
  BY <1>1, LineTypes
<1>4. /\ scl_oen' \in BOOLEAN /\ sda_oen' \in BOOLEAN
      /\ owned' = taken /\ owned' \in BOOLEAN
  BY <1>1, OwnedMoves DEF Types, TypeOK, BitTypeOK
<1>5. /\ startSeen <=> op = "START" /\ phase = 4 /\ beat = 0
      /\ stopSeen <=> c_state = "STOP" /\ core_ack
      /\ startSeen' <=> op' = "START" /\ phase' = 4 /\ beat' = 0
      /\ stopSeen' <=> c_state' = "STOP" /\ core_ack'
      /\ core_ack => phase = 0 /\ beat = 0
      /\ phase # 0 => ~core_ack /\ c_state' = c_state /\ (c_state = "STOP" <=> op = "STOP")
  <2>1. phase # 0 => c_state' = c_state
    BY Waits DEF Holds
  <2>2. phase # 0 => (c_state = "STOP" <=> op = "STOP")
    BY <1>1 DEF Shape
  <2>3. core_ack => phase = 0 /\ beat = 0
    BY DEF Control, Obeys
  <2> QED
    BY <2>1, <2>2, <2>3, <1>2 DEF Edges
<1>6. beat = Prescale => owned' = owned /\ (taken <=> owned)
  BY <1>1, <1>3, <1>4, <1>5 DEF taken
<1>7. op # "START" /\ phase # 0 => owned' = owned
  BY <1>3, <1>4, <1>5 DEF taken
<1>8. op = "START" /\ phase \in 1..3 => owned' = owned
  BY <1>3, <1>4, <1>5 DEF taken
<1>9. phase' = 0 => IF taken' THEN ~scl_oen' ELSE scl_oen' /\ sda_oen'
  <2> SUFFICES ASSUME phase' = 0 PROVE IF taken' THEN ~scl_oen' ELSE scl_oen' /\ sda_oen'
    OBVIOUS
  <2>1. CASE ~Finish
    <3>1. phase = 0 /\ ~core_ack' /\ (scl_oen' <=> scl_oen) /\ (sda_oen' <=> sda_oen)
      BY <2>1, <1>1 DEF BitMove, Quiet, Rest, Begin, Advance, Shape
    <3>2. taken' <=> taken
      <4>1. ~startSeen' /\ ~stopSeen'
        BY <3>1, <1>5
      <4>2. taken' <=> owned'
        BY <4>1, <1>4 DEF taken
      <4>3. taken \in BOOLEAN
        BY DEF taken
      <4> QED
        BY <4>2, <4>3, <1>4
    <3> QED
      BY <3>1, <3>2 DEF Levels
  <2>2. CASE Finish
    <3>1. /\ op \in Commands /\ phase = IF op = "START" THEN 5 ELSE 4
          /\ core_ack' /\ beat = Prescale
          /\ scl_oen' = SclOf(op, phase) /\ sda_oen' = SdaOf(op, phase, core_txd)
      BY <2>2, <1>1 DEF Finish, Shape, LastPhase, Turn
    <3>2. CASE op = "STOP"
      <4>1. ~taken'
        BY <3>1, <3>2, <1>5 DEF taken
      <4>2. scl_oen' /\ sda_oen'
        BY <3>1, <3>2, <1>3, DriveLevels
      <4> QED
        BY <4>1, <4>2
    <3>3. CASE op # "STOP"
      <4>1. ~scl_oen'
        BY <3>1, <3>3, <1>3, DriveLevels DEF Commands
      <4>2. owned
        <5>1. CASE op = "START"
          <6>1. c_state = "START"
            BY <5>1, <3>1, <1>1 DEF Shape
          <6> QED
            BY <6>1, <5>1, <3>1 DEF Roles, Started
        <5>2. CASE op # "START"
          BY <5>2, <3>1, <3>3 DEF Levels, Commands
        <5> QED
          BY <5>1, <5>2
      <4>3. taken'
        BY <4>2, <3>1, <3>3, <1>5, <1>6 DEF taken
      <4> QED
        BY <4>1, <4>3
    <3> QED
      BY <3>2, <3>3
  <2> QED
    BY <2>1, <2>2
<1>10. op' \in {"READ", "WRITE", "STOP"} => owned' /\ scl_oen' = (phase' > 2)
  <2> SUFFICES ASSUME op' \in {"READ", "WRITE", "STOP"} PROVE owned' /\ scl_oen' = (phase' > 2)
    OBVIOUS
  <2>1. CASE Quiet
    BY <2>1, <1>1, <1>7 DEF Quiet, Levels, Shape
  <2>2. CASE Begin
    <3>1. /\ core_cmd \in {"READ", "WRITE", "STOP"} /\ phase' = 1 /\ beat = Prescale /\ (scl_oen' <=> scl_oen) /\ phase = 0
      BY <2>2 DEF Begin, Turn
    <3>2. c_state \in {"READ", "WRITE", "ACK", "STOP"}
      BY <3>1, <1>1 DEF Control, Obeys, Types, TypeOK, ByteTypeOK, Commands
    <3>3. owned
      BY <3>2 DEF Roles, Underway
    <3>4. owned' /\ ~scl_oen
      BY <3>1, <3>3, <1>6 DEF Levels
    <3> QED
      BY <3>1, <3>4, <1>4
  <2>3. CASE Advance
    <3>1. op = op' /\ phase \in 1..3 /\ phase' = phase + 1 /\ scl_oen' = SclOf(op, phase)
      BY <2>3, <1>1 DEF Advance, Shape, LastPhase
    <3>2. scl_oen' <=> phase > 1
      BY <3>1, <1>3, DriveLevels DEF Commands
    <3>3. owned'
      BY <3>1, <1>7 DEF Levels
    <3> QED
      BY <3>1, <3>2, <3>3, <1>4
  <2> QED
    BY <2>1, <2>2, <2>3, <1>1 DEF BitMove, Rest, Finish
<1>11. op' = "READ" /\ phase' > 1 => sda_oen'
  <2>1. CASE Advance
    BY <2>1, <1>3, DriveLevels, <1>1 DEF Advance, Commands, Shape
  <2> QED
    BY <2>1, <1>1 DEF BitMove, Quiet, Rest, Begin, Finish, Levels
<1>12. op' = "WRITE" /\ phase' > 1 => sda_oen' = core_txd'
  <2> SUFFICES ASSUME op' = "WRITE", phase' > 1 PROVE sda_oen' = core_txd'
    OBVIOUS
  <2>1. op = "WRITE" /\ phase # 0 /\ (Quiet \/ Advance)
    BY <1>1 DEF BitMove, Quiet, Rest, Begin, Advance, Finish, Shape
  <2>2. core_txd' = Out
    BY <2>1, OutStays
  <2>3. CASE Quiet
    <3>1. sda_oen' = sda_oen /\ phase > 1
      BY <2>3 DEF Quiet
    <3> QED
      BY <3>1, <2>1, <2>2 DEF Levels, Ready
  <2>4. CASE Advance
    <3>1. sda_oen' = SdaOf("WRITE", phase, core_txd) /\ beat > 0
      BY <2>1, <2>4, <1>1 DEF Advance, Turn
    <3>2. sda_oen' = core_txd
      BY <3>1 DEF SdaOf
    <3> QED
      BY <3>1, <3>2, <2>1, <2>2 DEF Ready
  <2> QED
    BY <2>1, <2>3, <2>4
<1>13. op' = "STOP" /\ phase' > 1 => ~sda_oen'
  <2>1. CASE Advance
    <3> SUFFICES ASSUME op' = "STOP" PROVE ~sda_oen'
      OBVIOUS
    <3>1. op = "STOP" /\ phase \in 1..3 /\ sda_oen' = SdaOf(op, phase, core_txd)
      BY <2>1, <1>1 DEF Advance, Shape, LastPhase
    <3> QED
      BY <3>1, <1>3, DriveLevels DEF Commands
  <2> QED
    BY <2>1, <1>1 DEF BitMove, Quiet, Rest, Begin, Finish, Levels
<1>14. op' = "START" => /\ phase' < 3 => IF owned' THEN ~scl_oen' ELSE scl_oen' /\ sda_oen'
                        /\ phase' \in {2, 3} => sda_oen'
                        /\ phase' > 2 => scl_oen'
                        /\ phase' > 3 => ~sda_oen'
  <2> SUFFICES ASSUME op' = "START"
               PROVE  /\ phase' < 3 => IF owned' THEN ~scl_oen' ELSE scl_oen' /\ sda_oen'
                      /\ phase' \in {2, 3} => sda_oen'
                      /\ phase' > 2 => scl_oen'
                      /\ phase' > 3 => ~sda_oen'
    OBVIOUS
  <2>1. CASE Quiet
    <3>1. op = "START" /\ phase' = phase /\ phase \in 1..5 /\ (scl_oen' <=> scl_oen) /\ (sda_oen' <=> sda_oen)
      BY <2>1, <1>1 DEF Quiet, Shape
    <3>2. phase < 3 => owned' = owned
      BY <3>1, <1>8
    <3> QED
      BY <3>1, <3>2 DEF Levels
  <2>2. CASE Begin
    <3>1. phase = 0 /\ phase' = 1 /\ beat = Prescale /\ (scl_oen' <=> scl_oen) /\ (sda_oen' <=> sda_oen)
      BY <2>2 DEF Begin, Turn
    <3>2. owned' = owned /\ (taken <=> owned)
      BY <3>1, <1>6
    <3> QED
      BY <3>1, <3>2 DEF Levels
  <2>3. CASE Advance
    <3>1. op = "START" /\ phase \in 1..4 /\ phase' = phase + 1 /\ beat = Prescale
          /\ scl_oen' = SclOf(op, phase) /\ sda_oen' = SdaOf(op, phase, core_txd)
      BY <2>3, <1>1 DEF Advance, Shape, LastPhase, Turn
    <3>2. (scl_oen' <=> IF phase = 1 THEN scl_oen ELSE phase < 5) /\ (sda_oen' <=> phase < 3)
      BY <3>1, <1>3, DriveLevels DEF Commands
    <3>3. owned' = owned
      BY <3>1, <1>6
    <3>4. phase < 3 => IF owned THEN ~scl_oen ELSE scl_oen /\ sda_oen
      BY <3>1 DEF Levels
    <3> QED
      BY <3>1, <3>2, <3>3, <3>4
  <2> QED
    BY <2>1, <2>2, <2>3, <1>1 DEF BitMove, Rest, Finish
<1> QED
  BY <1>9, <1>10, <1>11, <1>12, <1>13, <1>14 DEF Levels

-----------------------------------------------------------------------------
(* What the device does in a step: START, STOP, the end of a bit, nothing.   *)
DeviceMove ==
  /\ startSeen => slot' = -1 /\ dir' = "address" /\ answer' \in Answers("address")
                  /\ sda_dev' = sda_dev /\ owned' /\ ~core_ack
  /\ stopSeen => slot' = -1 /\ dir' = "off" /\ answer' \in Answers("off")
                 /\ sda_dev' = sda_dev /\ ~owned' /\ core_ack /\ ~startSeen
  /\ core_ack /\ c_state # "STOP" =>
       /\ slot' = IF slot = Bits THEN 0 ELSE slot + 1
       /\ IF c_state = "ACK" THEN dir' = NextDir /\ answer' \in Answers(dir') ELSE dir' = dir /\ answer' = answer
       /\ sda_dev' = answer'[slot'] /\ owned' = owned
       /\ ~startSeen /\ ~stopSeen
  /\ ~startSeen /\ ~core_ack =>
       slot' = slot /\ dir' = dir /\ answer' = answer /\ sda_dev' = sda_dev /\ owned' = owned
  /\ carried' = IF core_ack /\ c_state = "ACK" THEN [heard |-> heard, answer |-> answer] ELSE carried
  /\ bytes' = CASE leavesIdle -> 0
                [] ~leavesIdle /\ core_ack /\ c_state = "ACK" /\ bytes < 2 -> bytes + 1
                [] OTHER -> bytes

(* The device acts on START, on STOP and where SCL falls, as the command *)
(* does. *)
LEMMA DeviceMoves == ASSUME Given, Control, Roles, Slots, Edges, Cycle PROVE DeviceMove
<1>1. Types /\ slot \in -1..Bits /\ Bits \in Nat /\ Bits >= 1 /\ dcnt \in 0..(Bits - 1) /\ owned \in BOOLEAN
  BY Lengths DEF Control, Types, TypeOK, ByteTypeOK
<1>2. Device /\ Observe
  BY DEF Cycle
<1>3. /\ scl \in BOOLEAN /\ sda \in BOOLEAN /\ scl_r \in BOOLEAN /\ sda_r \in BOOLEAN
  BY <1>1, LineTypes
<1>4. /\ startSeen <=> op = "START" /\ phase = 4 /\ beat = 0
      /\ stopSeen <=> c_state = "STOP" /\ core_ack
      /\ falls <=> core_ack /\ c_state # "STOP"
      /\ falls => ~startSeen /\ ~stopSeen
      /\ stopSeen => ~startSeen
      /\ core_ack => phase = 0 /\ beat = 0
  <2>1. core_ack => phase = 0 /\ beat = 0
    BY DEF Control, Obeys
  <2> QED
    BY <1>3, <2>1 DEF Edges, falls, startSeen, stopSeen
<1>5. byteEnds <=> core_ack /\ c_state = "ACK"
  <2>1. falls => (slot = Bits <=> c_state = "ACK")
    <3> SUFFICES ASSUME falls PROVE slot = Bits <=> c_state = "ACK"
      OBVIOUS
    <3>1. core_ack /\ c_state # "STOP" /\ c_state # "IDLE" /\ ~ld /\ ~shift /\ c_state \in {"IDLE", "ACK"} \union Commands
      BY <1>1, <1>4 DEF Control, Obeys, Types, TypeOK, ByteTypeOK
    <3>2. CASE c_state = "START"
      BY <3>1, <3>2, <1>1 DEF Roles, Started
    <3>3. CASE c_state \in {"READ", "WRITE"}
      BY <3>1, <3>3, <1>1 DEF Slots
    <3>4. CASE c_state = "ACK"
      BY <3>4 DEF Slots
    <3> QED
      BY <3>1, <3>2, <3>3, <3>4 DEF Commands
  <2> QED
    BY <2>1, <1>4 DEF byteEnds
<1>6. falls => slot' = IF slot = Bits THEN 0 ELSE slot + 1
  <2>1. falls => slot' = (slot + 1) % (Bits + 1)
    BY <1>2, <1>4 DEF Device
  <2> QED
    BY <2>1, <1>1, NextRound
<1>7. startSeen => slot' = -1 /\ dir' = "address" /\ answer' \in Answers("address")
                  /\ sda_dev' = sda_dev /\ owned' /\ ~core_ack
  <2> SUFFICES ASSUME startSeen
               PROVE  slot' = -1 /\ dir' = "address" /\ answer' \in Answers("address")
                      /\ sda_dev' = sda_dev /\ owned' /\ ~core_ack
    OBVIOUS
  <2>1. ~falls /\ ~stopSeen /\ ~core_ack /\ ~byteEnds
    BY <1>4, <1>5
  <2>2. slot' = -1
    BY <2>1, <1>2 DEF Device
  <2>3. dir' = "address"
    BY <2>1, <1>2 DEF Device
  <2>4. answer' \in Answers("address")
    BY <2>1, <2>3, <1>2 DEF Device
  <2>5. sda_dev' = sda_dev
    BY <2>1, <1>2 DEF Device
  <2>6. owned'
    BY <2>1, <1>2 DEF Observe
  <2> QED
    BY <2>1, <2>2, <2>3, <2>4, <2>5, <2>6
<1>8. stopSeen => slot' = -1 /\ dir' = "off" /\ answer' \in Answers("off")
                 /\ sda_dev' = sda_dev /\ ~owned' /\ core_ack /\ ~startSeen
  <2> SUFFICES ASSUME stopSeen
               PROVE  slot' = -1 /\ dir' = "off" /\ answer' \in Answers("off")
                      /\ sda_dev' = sda_dev /\ ~owned' /\ core_ack /\ ~startSeen
    OBVIOUS
  <2>1. ~falls /\ ~startSeen /\ core_ack /\ ~byteEnds
    BY <1>4, <1>5
  <2>2. slot' = -1
    BY <2>1, <1>2 DEF Device
  <2>3. dir' = "off"
    BY <2>1, <1>2 DEF Device
  <2>4. answer' \in Answers("off")
    BY <2>3, <1>2 DEF Device
  <2>5. sda_dev' = sda_dev
    BY <2>1, <1>2 DEF Device
  <2>6. ~owned'
    BY <1>2 DEF Observe
  <2> QED
    BY <2>1, <2>2, <2>3, <2>4, <2>5, <2>6
<1>9. core_ack /\ c_state # "STOP" =>
       /\ slot' = IF slot = Bits THEN 0 ELSE slot + 1
       /\ IF c_state = "ACK" THEN dir' = NextDir /\ answer' \in Answers(dir') ELSE dir' = dir /\ answer' = answer
       /\ sda_dev' = answer'[slot'] /\ owned' = owned
       /\ ~startSeen /\ ~stopSeen
  <2> SUFFICES ASSUME core_ack /\ c_state # "STOP"
               PROVE  /\ slot' = IF slot = Bits THEN 0 ELSE slot + 1
                      /\ IF c_state = "ACK" THEN dir' = NextDir /\ answer' \in Answers(dir') ELSE dir' = dir /\ answer' = answer
                      /\ sda_dev' = answer'[slot'] /\ owned' = owned
                      /\ ~startSeen /\ ~stopSeen
    OBVIOUS
  <2>1. falls /\ ~startSeen /\ ~stopSeen
    BY <1>4
  <2>2. sda_dev' = answer'[slot'] /\ owned' = owned
    BY <2>1, <1>1, <1>2 DEF Device, Observe
  <2>3. IF c_state = "ACK" THEN dir' = NextDir /\ answer' \in Answers(dir') ELSE dir' = dir /\ answer' = answer
    BY <2>1, <1>2, <1>5 DEF Device
  <2> QED
    BY <2>1, <2>2, <2>3, <1>6
<1>10. ~startSeen /\ ~core_ack =>
       slot' = slot /\ dir' = dir /\ answer' = answer /\ sda_dev' = sda_dev /\ owned' = owned
  <2>1. ~startSeen /\ ~core_ack => ~falls /\ ~stopSeen /\ ~byteEnds
    BY <1>4, <1>5
  <2> QED
    BY <2>1, <1>1, <1>2 DEF Device, Observe
<1>11. carried' = IF core_ack /\ c_state = "ACK" THEN [heard |-> heard, answer |-> answer] ELSE carried
  BY <1>2, <1>5 DEF Observe
<1>12. bytes' = CASE leavesIdle -> 0
                [] ~leavesIdle /\ core_ack /\ c_state = "ACK" /\ bytes < 2 -> bytes + 1
                [] OTHER -> bytes
  BY <1>2, <1>5 DEF Observe
<1> QED
  BY <1>7, <1>8, <1>9, <1>10, <1>11, <1>12 DEF DeviceMove

(* The device drives only bits of its own. *)
LEMMA DrivesHold == ASSUME Given, Control, Drives, Roles, Slots, Edges, Cycle PROVE Drives'
<1>1. DeviceMove /\ Types /\ slot \in -1..Bits /\ Bits \in Nat /\ Bits >= 1
  BY DeviceMoves, Lengths DEF Control, Types, TypeOK
<1>2. CASE startSeen
  <2>1. c_state = "START"
    <3>1. op = "START" /\ phase = 4
      BY <1>2 DEF Edges
    <3> QED
      BY <3>1, ShapeHolds DEF Shape
  <2>2. sda_dev = TRUE
    BY <2>1, <1>1, LeavesStart DEF Types, TypeOK
  <2> QED
    BY <2>2, <1>1, <1>2 DEF DeviceMove, Drives
<1>3. CASE stopSeen
  <2>1. sda_dev = TRUE
    BY <1>1, <1>3 DEF stopSeen, sda, Types, TypeOK
  <2> QED
    BY <2>1, <1>1, <1>3 DEF DeviceMove, Drives
<1>4. CASE core_ack /\ c_state # "STOP"
  <2>1. slot' # -1
    BY <1>1, <1>4 DEF DeviceMove
  <2>2. answer' \in Answers(dir')
    BY <1>1, <1>4 DEF DeviceMove, Drives
  <2> QED
    BY <2>1, <2>2, <1>1, <1>4 DEF DeviceMove, Drives
<1>5. CASE ~startSeen /\ ~core_ack
  BY <1>1, <1>5 DEF DeviceMove, Drives
<1> QED
  BY <1>2, <1>3, <1>4, <1>5 DEF Edges

(* The ninth bit, when it is over. *)
LEMMA NinthBit ==
  ASSUME Given, Control, Drives, Roles, Slots, Levels, Ready, Heard, Sending, Receives,
         core_ack, c_state = "ACK"
  PROVE  /\ core_rxd = heard[Bits] /\ heard[Bits] \in BOOLEAN
         /\ running.rd => heard[Bits] = command.ack
         /\ running.wr => heard[Bits - 1] = txr[Bits]
<1>1. /\ Types /\ Bits \in Nat /\ Bits >= 1 /\ Underway /\ slot = Bits /\ running = command
      /\ command \in Command
  BY Lengths DEF Control, Underway, Slots, Serves, Works, Types, TypeOK
<1>2. heard[Bits] = sda /\ core_rxd = sda /\ sda \in BOOLEAN
  BY <1>1, LineTypes DEF Heard, Receives
<1>3. running.rd => sda = command.ack
  <2> SUFFICES ASSUME running.rd PROVE sda = command.ack
    OBVIOUS
  <2>1. dir = "send"
    BY <1>1 DEF Roles
  <2>2. answer[Bits]
    BY <2>1 DEF Drives, Answers
  <2>3. sda_dev
    BY <2>2, <1>1 DEF Drives
  <2>4. sda_oen = command.ack
    BY <1>1 DEF Ready, Out
  <2>5. command.ack \in BOOLEAN /\ sda_dev \in BOOLEAN
    BY <1>1 DEF Command, Types, TypeOK
  <2> QED
    BY <2>3, <2>4, <2>5 DEF sda
<1>4. running.wr => heard[Bits - 1] = txr[Bits]
  <2> SUFFICES ASSUME running.wr PROVE heard[Bits - 1] = txr[Bits]
    OBVIOUS
  <2>1. \A j \in 0..(Bits - 1) : j < slot => heard[j] = txr[j + 1]
    BY DEF Sending
  <2>2. Bits - 1 \in 0..(Bits - 1) /\ Bits - 1 < slot /\ (Bits - 1) + 1 = Bits
    BY <1>1
  <2> QED
    BY <2>1, <2>2
<1> QED
  BY <1>2, <1>3, <1>4

(* How the byte machine goes on, in one list. *)
ByteStep ==
  \/ /\ Fresh /\ c_state = "IDLE" /\ ~core_ack /\ Leaves /\ c_state' \in Commands
     /\ running' = command /\ command' = command /\ txr' = txr /\ ~Fresh' /\ leavesIdle
  \/ /\ c_state = "IDLE" /\ ~Fresh /\ ~core_ack /\ Holds /\ running' = running
     /\ Fresh' => Calls /\ ~Works
     /\ ~Fresh' => txr' = txr \/ Calls
  \/ /\ c_state # "IDLE" /\ ~core_ack /\ Holds /\ ~Fresh'
     /\ running = command /\ running' = command /\ command' = command /\ txr' = txr
  \/ /\ c_state # "IDLE" /\ core_ack /\ (Starts \/ Writes \/ Reads \/ Acks \/ Stops) /\ ~Fresh'
     /\ running = command /\ running' = command /\ command' = command /\ txr' = txr

(* The byte machine's cycles one by one, with what they leave alone. *)
LEMMA ByteSteps == ASSUME Given, Control, Cycle PROVE ByteStep
<1>1. /\ SoftMove /\ ByteMove /\ Types
  BY Steps
<1>2. /\ c_state # "IDLE" => ~Fresh /\ ~cmd_ack /\ Works /\ running = command
                             /\ running' = running /\ command' = command /\ txr' = txr
      /\ c_state # "IDLE" /\ ~core_ack => Holds
      /\ core_ack => c_state # "IDLE"
      /\ command \in Command
  BY <1>1, Waits DEF Control, Obeys, Types, TypeOK
<1>3. CASE Fresh
  <2>1. c_state = "IDLE" /\ ~core_ack /\ ~cmd_ack
    BY <1>2, <1>3 DEF Fresh
  <2>2. Leaves /\ c_state' \in Commands
    BY <2>1, <1>1, <1>3 DEF ByteMove, Leaves, Goes
  <2>3. command' = command /\ txr' = txr
    BY <2>1, <1>1, <1>3 DEF SoftMove
  <2>4. leavesIdle
    BY <2>1, <2>2 DEF leavesIdle, Commands
  <2>5. running' = command
    BY <2>4 DEF Cycle, Observe
  <2>6. ~Fresh'
    BY <2>2 DEF Fresh, Commands
  <2> QED
    BY <2>1, <2>2, <2>3, <2>4, <2>5, <2>6, <1>3 DEF ByteStep
<1>4. CASE c_state = "IDLE" /\ ~Fresh
  <2>1. ~core_ack /\ Holds
    BY <1>1, <1>2, <1>4 DEF ByteMove
  <2>2. running' = running
    BY <2>1, <1>4 DEF Holds, Cycle, Observe, leavesIdle
  <2>3. Works => command' = NoCommand /\ txr' = txr
    BY <1>1, <1>4 DEF Works, SoftMove
  <2>4. Works => ~Fresh'
    BY <2>3, Records DEF Fresh, Asks
  <2>5. ~Works => Calls \/ (~Asks' /\ txr' = txr)
    BY <1>1, <1>4 DEF SoftMove
  <2>6. Fresh' => Asks'
    BY DEF Fresh
  <2> QED
    BY <2>1, <2>2, <2>3, <2>4, <2>5, <2>6, <1>4 DEF ByteStep
<1>5. CASE c_state # "IDLE"
  <2>1. ~Fresh'
    <3>1. CASE ~core_ack
      BY <3>1, <1>2, <1>5 DEF Holds, Fresh
    <3>2. CASE core_ack
      <4>1. Starts \/ Writes \/ Reads \/ Acks \/ Stops
        BY <3>2, <1>1, <1>2, <1>5 DEF ByteMove
      <4>2. Acks => c_state' # "IDLE" \/ cmd_ack'
        <5>1. CASE command.sto
          BY <5>1 DEF Acks, Goes
        <5>2. CASE ~command.sto
          BY <5>2 DEF Acks
        <5> QED
          BY <5>1, <5>2
      <4> QED
        BY <4>1, <4>2 DEF Starts, Writes, Reads, Stops, Goes, Fresh
    <3> QED
      BY <3>1, <3>2
  <2>2. core_ack => Starts \/ Writes \/ Reads \/ Acks \/ Stops
    BY <1>1, <1>2, <1>5 DEF ByteMove
  <2> QED
    BY <2>1, <2>2, <1>2, <1>5 DEF ByteStep
<1> QED
  BY <1>3, <1>4, <1>5

(* The device counts the bits as the byte machine does. *)
LEMMA SlotsHold == ASSUME Given, Control, Drives, Roles, Slots, Edges, Cycle PROVE Slots'
<1>1. /\ DeviceMove /\ ByteStep /\ ShiftMove /\ Types /\ Types' /\ slot \in -1..Bits /\ Bits \in Nat /\ Bits >= 1
      /\ dcnt \in 0..(Bits - 1) /\ bytes \in 0..2
  BY Steps, DeviceMoves, ByteSteps, Lengths DEF Types, TypeOK, ByteTypeOK
<1>2. /\ c_state \in {"READ", "WRITE"} =>
           slot = IF ld THEN 0 ELSE IF shift THEN Bits - dcnt ELSE Bits - 1 - dcnt
      /\ c_state = "ACK" => slot = Bits
      /\ c_state \in {"READ", "WRITE"} /\ shift => dcnt # 0
      /\ c_state = "ACK" /\ shift => dcnt = 0
      /\ c_state = "STOP" \/ cmd_ack => bytes = IF running.rd \/ running.wr THEN 1 ELSE 0
      /\ c_state = "START" \/ Underway => bytes = 0
      /\ cmd_ack => owned = ~running.sto
  BY DEF Slots
<1>3. /\ startSeen => op = "START" /\ phase = 4
      /\ stopSeen <=> c_state = "STOP" /\ core_ack
  BY DEF Edges
<1>4. startSeen => c_state = "START" /\ ~core_ack
  <2>1. startSeen => c_state = "START"
    BY <1>3, ShapeHolds DEF Shape
  <2> QED
    BY <2>1, <1>1 DEF DeviceMove
<1>5. core_ack => ~ld /\ ~shift /\ phase = 0 /\ beat = 0
  BY DEF Control, Obeys
<1>6. CASE Fresh
  <2>1. /\ c_state = "IDLE" /\ ~core_ack /\ Leaves /\ c_state' \in Commands
        /\ running' = command /\ command' = command /\ leavesIdle
    <3>1. c_state = "IDLE"
      BY <1>6 DEF Fresh
    <3> QED
      BY <3>1, <1>1, <1>6 DEF ByteStep
  <2>2. slot' = slot /\ owned' = owned /\ bytes' = 0
    BY <2>1, <1>1, <1>3, <1>4 DEF DeviceMove
  <2>3. c_state' \in {"READ", "WRITE"} => owned
    BY <2>1, <1>6 DEF Control, Serves, Leaves, Goes, Commands
  <2>4. c_state' \in {"READ", "WRITE"} => slot' = 0
    BY <2>1, <2>2, <2>3 DEF Roles
  <2>5. ld' /\ ~shift' /\ ~cmd_ack'
    BY <2>1 DEF Leaves
  <2>6. c_state' = "STOP" => ~running'.rd /\ ~running'.wr
    BY <2>1 DEF Leaves, Goes
  <2> QED
    BY <2>1, <2>2, <2>4, <2>5, <2>6 DEF Slots, Commands, Underway
<1>7. CASE c_state = "IDLE" /\ ~Fresh
  <2>1. c_state' = "IDLE" /\ ~cmd_ack'
    BY <1>1, <1>7 DEF ByteStep, Holds
  <2> QED
    BY <2>1 DEF Slots, Underway
<1>8. CASE c_state # "IDLE" /\ ~core_ack
  <2>1. /\ c_state' = c_state /\ ~ld' /\ ~shift' /\ ~cmd_ack' /\ running' = running /\ ~leavesIdle
    BY <1>1, <1>8, Waits DEF Holds, leavesIdle
  <2>2. bytes' = bytes
    BY <2>1, <1>1, <1>8 DEF DeviceMove
  <2>3. c_state # "START" => slot' = slot
    BY <1>1, <1>4, <1>8 DEF DeviceMove
  <2>4. c_state \in {"READ", "WRITE"} => slot' = Bits - 1 - dcnt'
    BY <2>3, <1>1, <1>2 DEF ShiftMove
  <2> QED
    BY <2>1, <2>2, <2>3, <2>4, <1>2 DEF Slots, Underway
<1>9. CASE core_ack
  <2>1. /\ c_state # "IDLE" /\ (Starts \/ Writes \/ Reads \/ Acks \/ Stops)
        /\ running = command /\ running' = running /\ ~leavesIdle /\ dcnt' = dcnt
    BY <1>1, <1>5, <1>9 DEF ByteStep, leavesIdle, ShiftMove
  <2>2. CASE Starts
    <3>1. slot = -1
      BY <2>2, <1>9 DEF Starts, Roles, Started
    <3>2. slot' = 0 /\ bytes' = bytes /\ bytes = 0
      BY <3>1, <2>1, <2>2, <1>1, <1>2, <1>9 DEF Starts, DeviceMove
    <3>3. c_state' \in {"READ", "WRITE"} /\ ld' /\ ~shift' /\ ~cmd_ack'
      BY <2>2 DEF Starts, Goes
    <3> QED
      BY <3>2, <3>3 DEF Slots, Underway
  <2>3. CASE Writes \/ Reads
    <3>1. /\ c_state \in {"READ", "WRITE"} /\ ~ld' /\ ~cmd_ack'
          /\ dcnt # 0 => c_state' = c_state /\ shift'
          /\ dcnt = 0 => c_state' = "ACK"
      BY <2>3, <1>1 DEF Writes, Reads, Goes
    <3>2. slot = Bits - 1 - dcnt /\ bytes = 0
      BY <3>1, <1>2, <1>5, <1>9 DEF Underway
    <3>3. slot' = Bits - dcnt /\ bytes' = 0
      BY <3>1, <3>2, <2>1, <1>1, <1>9 DEF DeviceMove
    <3>4. CASE dcnt # 0
      BY <3>1, <3>3, <3>4, <2>1 DEF Slots, Underway
    <3>5. CASE dcnt = 0
      BY <3>1, <3>3, <3>5, <2>1, <1>1 DEF Slots, Underway
    <3> QED
      BY <3>4, <3>5
  <2>4. CASE Acks
    <3>1. /\ c_state = "ACK" /\ c_state' \in {"STOP", "IDLE"} /\ cmd_ack' = (~command.sto)
      BY <2>4 DEF Acks, Goes
    <3>2. bytes = 0 /\ owned /\ (running.rd \/ running.wr)
      BY <3>1, <1>2 DEF Underway, Roles, Control, Serves
    <3>3. bytes' = 1 /\ owned' = owned
      BY <3>1, <3>2, <2>1, <1>1, <1>9 DEF DeviceMove
    <3>4. running.sto \in BOOLEAN /\ owned \in BOOLEAN
      BY <1>1 DEF Types, TypeOK, Command
    <3>5. cmd_ack' => owned' = ~running'.sto
      BY <3>1, <3>2, <3>3, <3>4, <2>1
    <3> QED
      BY <3>1, <3>2, <3>3, <3>5, <2>1 DEF Slots, Underway
  <2>5. CASE Stops
    <3>1. c_state = "STOP" /\ c_state' = "IDLE" /\ running.sto
      BY <2>5 DEF Stops, Goes, Control, Serves
    <3>2. ~owned' /\ bytes' = bytes
      BY <3>1, <2>1, <1>1, <1>3, <1>9 DEF DeviceMove
    <3>3. running.sto \in BOOLEAN /\ owned' \in BOOLEAN
      BY <1>1 DEF Types, TypeOK, Command
    <3>4. cmd_ack' => owned' = ~running'.sto
      BY <3>1, <3>2, <3>3, <2>1
    <3> QED
      BY <3>1, <3>2, <3>4, <2>1, <1>2 DEF Slots, Underway
  <2> QED
    BY <2>1, <2>2, <2>3, <2>4, <2>5
<1> QED
  BY <1>6, <1>7, <1>8, <1>9

(* The device sends if and only if software reads. *)
LEMMA RolesHold ==
  ASSUME Given, Control, Drives, Roles, Slots, Levels, Ready, Heard, Sending, Receives, Edges, Cycle
  PROVE  Roles'
<1>1. /\ DeviceMove /\ ByteStep /\ Types /\ Types' /\ slot \in -1..Bits /\ Bits \in Nat /\ Bits >= 1
      /\ owned \in BOOLEAN /\ Shape /\ BitMove /\ Prescale \in Nat /\ Prescale >= 3
      /\ dir \in {"off", "address", "send", "take"}
  BY Steps, DeviceMoves, ByteSteps, Lengths DEF Types, TypeOK
<1>2. /\ ~owned => dir = "off" /\ slot = -1
      /\ Started => owned /\ dir = "address" /\ slot = -1
      /\ Underway => owned /\ (dir = "send" <=> running.rd) /\ (dir = "address" <=> running.sta)
      /\ c_state \in {"IDLE", "STOP"} \/ (c_state = "START" /\ ~Started) =>
            dir # "address" /\ (owned => slot = 0)
      /\ c_state = "STOP" => owned /\ dir # "send"
      /\ c_state = "START" => dir # "send"
      /\ Fresh => (dir = "send" <=> command.rd)
      /\ c_state = "IDLE" /\ ~Fresh => (dir = "send" <=> Reading)
  BY DEF Roles
<1>3. /\ startSeen <=> op = "START" /\ phase = 4 /\ beat = 0
      /\ stopSeen <=> c_state = "STOP" /\ core_ack
      /\ phase # 0 => ~core_ack /\ c_state # "IDLE" /\ (op = "START" <=> c_state = "START")
      /\ core_ack => phase = 0 /\ beat = 0 /\ c_state # "IDLE"
      /\ (op = "START" <=> c_state = "START" /\ phase # 0)
  <2>1. phase # 0 => ~core_ack /\ c_state # "IDLE"
    BY Waits
  <2>2. phase # 0 => (op = "START" <=> c_state = "START")
    BY <1>1 DEF Shape
  <2>3. core_ack => phase = 0 /\ beat = 0 /\ c_state # "IDLE"
    BY DEF Control, Obeys
  <2> QED
    BY <2>1, <2>2, <2>3, <1>1 DEF Edges, Shape
<1>4. CASE startSeen
  <2>1. c_state = "START" /\ ~core_ack /\ Holds /\ beat' > 0 /\ phase' = 4 /\ c_state' = "START"
    <3>1. c_state = "START" /\ ~core_ack
      BY <1>3, <1>4
    <3>2. Holds
      BY <3>1, Waits
    <3>3. beat' > 0 /\ phase' = 4
      BY <1>1, <1>3, <1>4 DEF BitMove, Quiet, Rest, Begin, Advance, Finish, Turn
    <3> QED
      BY <3>1, <3>2, <3>3 DEF Holds
  <2>2. slot' = -1 /\ dir' = "address" /\ owned'
    BY <1>1, <1>4 DEF DeviceMove
  <2> QED
    BY <2>1, <2>2 DEF Roles, Started, Underway, Fresh
<1>5. CASE stopSeen
  <2>1. slot' = -1 /\ dir' = "off" /\ ~owned' /\ core_ack /\ c_state = "STOP"
    BY <1>1, <1>3, <1>5 DEF DeviceMove
  <2>2. c_state' = "IDLE" /\ cmd_ack'
    BY <2>1, <1>1 DEF ByteStep, Starts, Writes, Reads, Acks, Stops, Goes
  <2>3. ~Fresh' /\ ~Reading'
    BY <2>1, <2>2 DEF Fresh, Reading
  <2> QED
    BY <2>1, <2>2, <2>3 DEF Roles, Started, Underway
<1>6. CASE core_ack /\ c_state # "STOP"
  <2>1. /\ Starts \/ Writes \/ Reads \/ Acks
        /\ running = command /\ running' = command /\ command' = command /\ txr' = txr /\ ~Fresh'
        /\ owned' = owned
    BY <1>1, <1>3, <1>6 DEF ByteStep, Stops, DeviceMove
  <2>2. /\ Works /\ ~(command.rd /\ command.wr) /\ (command.sta => command.wr)
        /\ (command.rd /\ command.sto => command.ack)
        /\ (command.sta /\ command.sto => ~txr[Bits])
        /\ c_state = "START" => running.sta
        /\ c_state = "WRITE" => running.wr
        /\ c_state = "READ" => running.rd
        /\ c_state = "ACK" => running.rd \/ running.wr
    BY <1>6, <1>3 DEF Control, Serves, Works
  <2>3. CASE Starts
    <3>1. dir' = dir /\ dir = "address" /\ owned /\ slot = -1
      BY <2>3, <1>1, <1>2, <1>6 DEF Starts, Started, DeviceMove
    <3>2. c_state' = "WRITE"
      BY <2>1, <2>2, <2>3 DEF Starts, Goes
    <3> QED
      BY <3>1, <3>2, <2>1, <2>2, <2>3 DEF Roles, Started, Underway, Starts
  <2>4. CASE Writes \/ Reads
    <3>1. c_state' \in {"READ", "WRITE", "ACK"} /\ c_state \in {"READ", "WRITE"}
      BY <2>4 DEF Writes, Reads, Goes
    <3>2. dir' = dir /\ owned /\ (dir = "send" <=> running.rd) /\ (dir = "address" <=> running.sta)
      BY <3>1, <1>1, <1>2, <1>6 DEF DeviceMove, Underway
    <3> QED
      BY <3>1, <3>2, <2>1 DEF Roles, Started, Underway
  <2>5. CASE Acks
    <3>1. /\ c_state = "ACK" /\ owned /\ (dir = "send" <=> running.rd) /\ (dir = "address" <=> running.sta)
          /\ slot' = 0 /\ dir' = NextDir
          /\ ack_out' = core_rxd
      BY <2>5, <1>1, <1>2, <1>6 DEF Acks, Underway, DeviceMove, Slots
    <3>2. /\ core_rxd = heard[Bits] /\ heard[Bits] \in BOOLEAN
          /\ running.rd => heard[Bits] = command.ack
          /\ running.wr => heard[Bits - 1] = txr[Bits]
      BY <3>1, <1>6, NinthBit
    <3>3. /\ IF command.sto THEN c_state' = "STOP" ELSE c_state' = "IDLE"
      BY <2>5 DEF Acks, Goes
    <3>4. dir' # "address"
      BY <3>1 DEF NextDir
    <3>5. dir' = "send" <=> ~heard[Bits] /\ (running.rd \/ (running.sta /\ txr[Bits]))
      <4>1. CASE heard[Bits] \/ dir = "off"
        BY <4>1, <3>1, <3>2, <2>1, <2>2 DEF NextDir
      <4>2. CASE ~heard[Bits] /\ dir = "address"
        <5>1. dir' = IF heard[Bits - 1] THEN "send" ELSE "take"
          BY <4>2, <3>1 DEF NextDir
        <5> QED
          BY <5>1, <4>2, <3>1, <3>2, <2>1, <2>2
      <4>3. CASE ~heard[Bits] /\ dir # "address" /\ dir # "off"
        <5>1. dir' = dir
          BY <4>3, <3>1 DEF NextDir
        <5> QED
          BY <5>1, <4>3, <3>1, <2>1, <2>2
      <4> QED
        BY <4>1, <4>2, <4>3
    <3>6. c_state' = "STOP" => dir' # "send"
      <4>1. c_state' = "STOP" => command.sto
        BY <3>3
      <4> QED
        BY <4>1, <3>2, <3>5, <2>1, <2>2
    <3>7. c_state' = "IDLE" => (dir' = "send" <=> Reading')
      <4>1. Reading' <=> IF running.sta /\ running.wr THEN txr[Bits] /\ ~heard[Bits] ELSE running.rd /\ ~running.ack
        BY <2>1, <3>1, <3>2 DEF Reading, Addresses
      <4> QED
        BY <4>1, <3>2, <3>5, <2>1, <2>2
    <3> QED
      BY <3>1, <3>3, <3>4, <3>6, <3>7, <2>1 DEF Roles, Started, Underway
  <2> QED
    BY <2>1, <2>3, <2>4, <2>5
<1>7. CASE ~startSeen /\ ~core_ack
  <2>1. slot' = slot /\ dir' = dir /\ owned' = owned
    BY <1>1, <1>7 DEF DeviceMove
  <2>2. CASE Fresh
    <3>1. /\ c_state = "IDLE" /\ Leaves /\ running' = command /\ ~Fresh' /\ c_state' \in Commands
      <4>1. c_state = "IDLE"
        BY <2>2 DEF Fresh
      <4> QED
        BY <4>1, <2>2, <1>1 DEF ByteStep
    <3>2. /\ command.sta => c_state' = "START" /\ command.wr /\ ~command.rd
          /\ ~command.sta => owned /\ c_state' # "START"
          /\ ~command.sta /\ command.rd => c_state' = "READ"
          /\ ~command.sta /\ ~command.rd /\ command.wr => c_state' = "WRITE"
          /\ ~command.sta /\ ~command.rd /\ ~command.wr => c_state' = "STOP"
      BY <3>1, <2>2 DEF Leaves, Goes, Control, Serves
    <3>3. dir # "address" /\ (owned => slot = 0) /\ (dir = "send" <=> command.rd)
      BY <3>1, <2>2, <1>2
    <3>4. ~Started'
      <4>1. phase' = 0 /\ ~core_ack'
        <5>1. phase = 0 /\ core_cmd = "NOP"
          BY <3>1, <1>3 DEF Control, Obeys
        <5> QED
          BY <5>1, <1>1 DEF BitMove, Quiet, Rest, Begin, Advance, Finish, Commands
      <4> QED
        BY <4>1 DEF Started
    <3> QED
      BY <3>1, <3>2, <3>3, <3>4, <2>1, <1>2 DEF Roles, Underway, Commands
  <2>3. CASE c_state = "IDLE" /\ ~Fresh
    <3>1. /\ c_state' = "IDLE" /\ running' = running /\ ack_out' = ack_out
          /\ Fresh' => Calls /\ ~Works
          /\ ~Fresh' => txr' = txr \/ Calls
      BY <2>3, <1>1 DEF ByteStep, Holds
    <3>2. dir # "address" /\ (owned => slot = 0) /\ (dir = "send" <=> Reading)
      BY <2>3, <1>2
    <3>3. CASE Fresh'
      <4>1. Reading <=> command'.rd
        BY <3>1, <3>3 DEF Calls, Sensible
      <4> QED
        BY <4>1, <3>1, <3>2, <3>3, <2>1, <1>2 DEF Roles, Started, Underway
    <3>4. CASE ~Fresh'
      <4>1. txr' = txr
        <5>1. CASE Calls
          <6>1. Asks' /\ ~cmd_ack'
            BY <5>1, <2>3, <1>1 DEF Calls, ByteStep, Holds
          <6> QED
            BY <6>1, <3>1, <3>4 DEF Fresh
        <5> QED
          BY <5>1, <3>1, <3>4
      <4>2. Reading' <=> Reading
        BY <4>1, <3>1, <2>1 DEF Reading, Addresses
      <4> QED
        BY <4>2, <3>1, <3>2, <3>4, <2>1, <1>2 DEF Roles, Started, Underway
    <3> QED
      BY <3>3, <3>4
  <2>4. CASE c_state # "IDLE"
    <3>1. c_state' = c_state /\ running' = running /\ ~Fresh'
      BY <2>4, <1>1, <1>7, Waits DEF ByteStep, Holds
    <3>2. Started' <=> Started
      <4>1. CASE c_state = "START"
        <5>1. (core_ack' \/ phase' = 5 \/ (phase' = 4 /\ beat' > 0)) <=> (phase = 5 \/ (phase = 4 /\ beat > 0))
          <6>1. phase = 0 \/ op = "START"
            BY <4>1, <1>3
          <6>2. ~(phase = 4 /\ beat = 0)
            BY <6>1, <1>3, <1>7
          <6>3. CASE Quiet
            BY <6>2, <6>3, <1>1 DEF Quiet, Shape
          <6>4. CASE Rest \/ Begin
            BY <6>4, <1>1 DEF Rest, Begin, Turn
          <6>5. CASE Advance
            BY <6>1, <6>5, <1>1 DEF Advance, Turn, LastPhase, Shape
          <6>6. CASE Finish
            BY <6>1, <6>6, <1>1 DEF Finish, Turn, LastPhase, Shape
          <6> QED
            BY <6>3, <6>4, <6>5, <6>6, <1>1 DEF BitMove
        <5> QED
          BY <5>1, <4>1, <3>1, <1>7 DEF Started
      <4>2. CASE c_state # "START"
        BY <4>2, <3>1 DEF Started
      <4> QED
        BY <4>1, <4>2
    <3> QED
      BY <3>1, <3>2, <2>1, <2>4, <1>2 DEF Roles, Underway
  <2> QED
    BY <2>2, <2>3, <2>4 DEF Fresh
<1> QED
  BY <1>3, <1>4, <1>5, <1>6, <1>7

-----------------------------------------------------------------------------
(* The bits. *)

HeardMove == heard' = IF rises /\ slot >= 0 THEN [heard EXCEPT ![slot] = sda] ELSE heard

(* The device takes a bit where SCL rises. *)
LEMMA HeardMoves ==
  ASSUME Given, Control, Edges, Cycle
  PROVE  /\ heard' \in Frame /\ heard \in Frame
         /\ \A j \in 0..Bits : j # slot => heard'[j] = heard[j]
         /\ rises /\ slot \in 0..Bits => heard'[slot] = sda
         /\ ~rises => heard' = heard
         /\ core_ack => heard' = heard
<1>1. Types /\ Types' /\ heard \in Frame /\ heard' \in Frame /\ sda \in BOOLEAN /\ Bits \in Nat /\ slot \in -1..Bits
  BY TypesHold, LineTypes, Lengths DEF Control, Types, TypeOK
<1>2. HeardMove
  BY DEF Cycle, Device, HeardMove
<1>3. core_ack => ~rises
  <2>1. core_ack => phase = 0
    BY DEF Control, Obeys
  <2> QED
    BY <2>1 DEF Edges
<1> QED
  BY <1>1, <1>2, <1>3 DEF HeardMove, Frame

(* While SCL is up in a bit, and when it falls, SDA keeps still. *)
LEMMA HoldsSda ==
  ASSUME Given, Control, Levels, Edges, Levels', Edges', Cycle, Clocked
  PROVE  /\ sda' = sda /\ slot' = slot /\ c_state \in {"READ", "WRITE", "ACK"} /\ c_state' = c_state
         /\ ~core_ack /\ ~startSeen
         /\ Clocked' \/ core_ack'
<1>1. Shape /\ BitMove /\ Types /\ Types' /\ Prescale \in Nat /\ Prescale >= 3
  BY Steps
<1>2. phase # 0 /\ phase > 2 /\ op \in {"READ", "WRITE"} /\ ~core_ack /\ Holds
  BY Waits DEF Clocked
<1>3. c_state \in {"READ", "WRITE", "ACK"} /\ c_state' = c_state
  BY <1>1, <1>2 DEF Shape, Holds
<1>4. ~startSeen /\ ~falls /\ ~stopSeen
  BY <1>2 DEF Edges
<1>5. slot' = slot /\ sda_dev' = sda_dev
  BY <1>4 DEF Cycle, Device
<1>6. sda_r' = sda /\ scl_r' = scl /\ sda \in BOOLEAN /\ scl \in BOOLEAN /\ sda' \in BOOLEAN /\ scl' \in BOOLEAN
  BY <1>1, OwnedMoves, LineTypes DEF Types, TypeOK, BitTypeOK, scl, sda
<1>7. CASE Quiet
  BY <1>2, <1>5, <1>7, <1>3, <1>4 DEF Quiet, sda, Clocked
<1>8. CASE Advance
  <2>1. op' = op /\ phase' > 2 /\ phase' = 4 /\ ~core_ack'
    BY <1>1, <1>2, <1>8 DEF Advance, LastPhase, Shape
  <2>2. scl /\ scl'
    BY <1>1, <1>2, <2>1 DEF Levels, scl
  <2>3. ~startSeen' /\ ~stopSeen'
    BY <1>2, <2>1 DEF Edges
  <2>4. sda' = sda
    BY <2>2, <2>3, <1>6 DEF startSeen, stopSeen
  <2> QED
    BY <2>1, <2>4, <1>2, <1>3, <1>4, <1>5 DEF Clocked
<1>9. CASE Finish
  <2>1. core_ack'
    BY <1>9 DEF Finish
  <2>2. falls'
    BY <2>1, <1>3 DEF Edges
  <2>3. sda' = sda
    BY <2>2, <1>6 DEF Edges
  <2> QED
    BY <2>1, <2>3, <1>2, <1>3, <1>4, <1>5
<1> QED
  BY <1>1, <1>2, <1>7, <1>8, <1>9 DEF BitMove, Rest, Begin

(* It has the bit that is on SDA. *)
LEMMA HeardHolds ==
  ASSUME Given, Control, Slots, Levels, Edges, Levels', Edges', Heard, Cycle
  PROVE  Heard'
<1>1. Shape /\ BitMove /\ Types /\ Types' /\ Prescale \in Nat /\ Prescale >= 3 /\ slot \in -1..Bits
      /\ Bits \in Nat /\ Bits >= 1 /\ dcnt \in 0..(Bits - 1)
  BY Steps, Lengths DEF Types, TypeOK, ByteTypeOK
<1> SUFFICES ASSUME (Clocked' /\ (phase' > 3 \/ beat' > 0)) \/ (core_ack' /\ Underway')
             PROVE  heard'[slot'] = sda'
  BY DEF Heard
<1>2. Clocked /\ (phase > 3 \/ beat > 0 \/ rises)
  <2>1. CASE Clocked' /\ (phase' > 3 \/ beat' > 0)
    <3>1. CASE Quiet
      <4>1. Clocked
        BY <2>1, <3>1 DEF Quiet, Clocked
      <4>2. phase = 3 /\ beat = 0 => rises
        BY <4>1 DEF Edges, Clocked
      <4> QED
        BY <4>1, <4>2, <1>1 DEF Clocked, Shape
    <3>2. CASE Advance
      <4>1. phase' = phase + 1 /\ beat' = 0 /\ beat = Prescale /\ op' = op
        BY <3>2 DEF Advance, Turn
      <4> QED
        BY <4>1, <2>1, <1>1 DEF Clocked, Shape
    <3> QED
      BY <2>1, <3>1, <3>2, <1>1 DEF BitMove, Rest, Begin, Finish, Clocked
  <2>2. CASE core_ack' /\ Underway'
    <3>1. Finish
      BY <2>2, <1>1 DEF BitMove, Quiet, Rest, Begin, Advance, Finish
    <3>2. phase # 0 /\ phase > 2 /\ beat > 0
      BY <3>1, <1>1 DEF Finish, LastPhase, Turn
    <3>3. c_state = c_state'
      BY <3>2, Waits DEF Holds
    <3>4. op \in {"READ", "WRITE"}
      BY <2>2, <3>2, <3>3, OutStays DEF Underway
    <3> QED
      BY <3>2, <3>4 DEF Clocked
  <2> QED
    BY <2>1, <2>2
<1>3. /\ sda' = sda /\ slot' = slot /\ c_state \in {"READ", "WRITE", "ACK"}
  BY <1>2, HoldsSda
<1>4. slot \in 0..Bits
  <2>1. c_state \in {"READ", "WRITE"} => slot = IF ld THEN 0 ELSE IF shift THEN Bits - dcnt ELSE Bits - 1 - dcnt
    BY DEF Slots
  <2>2. c_state = "ACK" => slot = Bits
    BY DEF Slots
  <2> QED
    BY <2>1, <2>2, <1>1, <1>3
<1>5. CASE rises
  BY <1>3, <1>4, <1>5, HeardMoves
<1>6. CASE ~rises
  <2>1. heard[slot] = sda
    BY <1>2, <1>6 DEF Heard
  <2> QED
    BY <2>1, <1>3, <1>6, HeardMoves
<1> QED
  BY <1>5, <1>6

(* A bit that is over is on both sides. *)
LEMMA BitOver ==
  ASSUME Given, Control, Drives, Roles, Slots, Levels, Ready, Edges, Heard, Sending, Receives, Cycle,
         core_ack, c_state \in {"READ", "WRITE"}
  PROVE  /\ slot = Bits - 1 - dcnt /\ slot \in 0..(Bits - 1) /\ slot' = slot + 1 /\ heard' = heard
         /\ sr' = sr /\ dcnt' = dcnt /\ answer' = answer /\ core_rxd' = heard[slot]
         /\ ~ld /\ ~shift
         /\ c_state = "WRITE" => heard[slot] = txr[slot + 1]
         /\ c_state = "READ" => heard[slot] = answer[slot]
<1>1. /\ DeviceMove /\ ShiftMove /\ Types /\ Bits \in Nat /\ Bits >= 1 /\ dcnt \in 0..(Bits - 1) /\ Underway
      /\ sda \in BOOLEAN /\ sda_dev \in BOOLEAN /\ answer \in Frame /\ sr \in Byte
  BY Steps, DeviceMoves, Lengths, LineTypes DEF Types, TypeOK, ByteTypeOK, Underway
<1>2. ~ld /\ ~shift
  BY DEF Control, Obeys
<1>3. slot = Bits - 1 - dcnt /\ slot \in 0..(Bits - 1)
  BY <1>1, <1>2 DEF Slots
<1>4. slot' = slot + 1 /\ answer' = answer
  BY <1>1, <1>3 DEF DeviceMove
<1>5. heard' = heard /\ sr' = sr /\ dcnt' = dcnt
  BY <1>1, <1>2, HeardMoves DEF ShiftMove
<1>6. heard[slot] = sda
  BY <1>1 DEF Heard
<1>7. core_rxd' = sda
  <2>1. core_rxd = sda /\ dSCL
    BY <1>1 DEF Receives
  <2>2. core_rxd' = IF sSCL /\ ~dSCL THEN sSDA ELSE core_rxd
    BY DEF Cycle, ByteMachine, ByteCycle, BitCycle, Receive
  <2> QED
    BY <2>1, <2>2
<1>8. c_state = "WRITE" => sda = txr[slot + 1]
  <2> SUFFICES ASSUME c_state = "WRITE" PROVE sda = txr[slot + 1]
    OBVIOUS
  <2>1. sda_oen = sr[1]
    BY <1>1 DEF Ready, Out
  <2>2. running.wr /\ ~running.rd
    BY DEF Control, Serves, Works
  <2>3. sda_dev
    BY <1>1, <1>3, <2>2, LeavesSda DEF Roles
  <2>4. sr[1] = txr[1 + Bits - 1 - dcnt]
    <3>1. \A i \in 1..Bits : i <= dcnt + 1 => sr[i] = txr[i + Bits - 1 - dcnt]
      BY <1>2 DEF Sending
    <3> QED
      BY <3>1, <1>1
  <2>5. 1 + Bits - 1 - dcnt = slot + 1
    BY <1>1, <1>3
  <2>6. sr[1] \in BOOLEAN
    BY <1>1 DEF Byte
  <2> QED
    BY <2>1, <2>3, <2>4, <2>5, <2>6 DEF sda
<1>9. c_state = "READ" => sda = answer[slot]
  <2> SUFFICES ASSUME c_state = "READ" PROVE sda = answer[slot]
    OBVIOUS
  <2>1. sda_oen = TRUE
    BY <1>1 DEF Ready, Out
  <2>2. sda_dev = answer[slot]
    <3>1. slot # -1
      BY <1>1, <1>3
    <3> QED
      BY <3>1 DEF Drives
  <2>3. answer[slot] \in BOOLEAN
    BY <1>1, <1>3 DEF Frame
  <2> QED
    BY <2>1, <2>2, <2>3 DEF sda
<1> QED
  BY <1>2, <1>3, <1>4, <1>5, <1>6, <1>7, <1>8, <1>9

(* A byte goes out bit by bit, from txr to the device. *)
LEMMA SendingHolds ==
  ASSUME Given, Control, Drives, Roles, Slots, Levels, Ready, Edges, Heard, Sending, Receives, Cycle
  PROVE  Sending'
<1>1. /\ DeviceMove /\ ShiftMove /\ ByteStep /\ Types /\ Types' /\ Bits \in Nat /\ Bits >= 1
      /\ dcnt \in 0..(Bits - 1) /\ slot \in -1..Bits /\ sr \in Byte /\ txr \in Byte
      /\ core_ack => c_state # "IDLE" /\ ~ld /\ ~shift
      /\ ld => c_state \in Commands /\ ~shift
  BY Steps, DeviceMoves, ByteSteps, Lengths DEF Types, TypeOK, ByteTypeOK, Control, Obeys
<1>2. /\ c_state = "WRITE" /\ ~ld => \A i \in 1..Bits : i <= dcnt + 1 => sr[i] = txr[i + Bits - 1 - dcnt]
      /\ running.wr /\ c_state \in {"WRITE", "ACK"} =>
           \A j \in 0..(Bits - 1) : j < slot => heard[j] = txr[j + 1]
  BY DEF Sending
<1>3. CASE c_state = "IDLE"
  <2>1. c_state' = "WRITE" => ld' /\ command' = command /\ running' = command /\ ~core_ack
    BY <1>1, <1>3 DEF ByteStep, Holds, Leaves
  <2>2. c_state' # "ACK"
    BY <1>1, <1>3 DEF ByteStep, Holds, Commands
  <2>3. c_state' = "WRITE" => slot' = 0
    <3> SUFFICES ASSUME c_state' = "WRITE" PROVE slot' = 0
      OBVIOUS
    <3>1. Fresh /\ Leaves /\ ~core_ack
      BY <1>1, <1>3 DEF ByteStep, Holds
    <3>2. ~command.sta
      BY <3>1 DEF Leaves, Goes
    <3>3. owned
      BY <3>1, <3>2 DEF Control, Serves
    <3>4. slot = 0
      BY <3>3, <1>3 DEF Roles
    <3>5. ~startSeen
      <4>1. startSeen => op = "START" /\ phase = 4
        BY DEF Edges
      <4> QED
        BY <4>1, <1>3, ShapeHolds DEF Shape
    <3> QED
      BY <3>1, <3>4, <3>5, <1>1 DEF DeviceMove
  <2> QED
    BY <2>1, <2>2, <2>3 DEF Sending
<1>4. CASE c_state # "IDLE" /\ ~core_ack
  <2>1. /\ c_state' = c_state /\ ~ld' /\ ~shift' /\ running' = running /\ txr' = txr
    BY <1>1, <1>4, Waits DEF Holds
  <2>2. c_state # "START" => slot' = slot
    <3>1. startSeen => c_state = "START"
      <4>1. startSeen => op = "START" /\ phase = 4
        BY DEF Edges
      <4> QED
        BY <4>1, ShapeHolds DEF Shape
    <3> QED
      BY <3>1, <1>1, <1>4 DEF DeviceMove
  <2>3. running'.wr /\ c_state' \in {"WRITE", "ACK"} =>
          \A j \in 0..(Bits - 1) : j < slot' => heard'[j] = txr'[j + 1]
    <3>1. \A j \in 0..(Bits - 1) : j < slot => heard'[j] = heard[j]
      BY <1>1, HeardMoves
    <3> QED
      BY <3>1, <2>1, <2>2, <1>2
  <2>4. c_state' = "WRITE" => \A i \in 1..Bits : i <= dcnt' + 1 => sr'[i] = txr'[i + Bits - 1 - dcnt']
    <3> SUFFICES ASSUME c_state = "WRITE", NEW i \in 1..Bits, i <= dcnt' + 1
                 PROVE  sr'[i] = txr[i + Bits - 1 - dcnt']
      BY <2>1
    <3>1. CASE ld
      <4>1. sr' = txr /\ dcnt' = Bits - 1
        BY <3>1, <1>1 DEF ShiftMove
      <4>2. i + Bits - 1 - (Bits - 1) = i
        BY <1>1
      <4> QED
        BY <4>1, <4>2
    <3>2. CASE shift
      <4>1. ~ld /\ dcnt # 0
        BY <3>2, <1>1 DEF Slots
      <4>2. dcnt' = dcnt - 1 /\ sr'[i] = IF i = Bits THEN core_rxd ELSE sr[i + 1]
        BY <4>1, <3>2, <1>1 DEF ShiftMove
      <4>3. i + 1 \in 1..Bits /\ i # Bits /\ i + 1 <= dcnt + 1
        BY <4>1, <4>2, <1>1
      <4>4. sr[i + 1] = txr[(i + 1) + Bits - 1 - dcnt]
        BY <4>1, <4>3, <1>2
      <4>5. (i + 1) + Bits - 1 - dcnt = i + Bits - 1 - (dcnt - 1)
        BY <1>1
      <4> QED
        BY <4>2, <4>3, <4>4, <4>5
    <3>3. CASE ~ld /\ ~shift
      <4>1. sr' = sr /\ dcnt' = dcnt
        BY <3>3, <1>1 DEF ShiftMove
      <4> QED
        BY <4>1, <3>3, <1>2
    <3> QED
      BY <3>1, <3>2, <3>3
  <2> QED
    BY <2>1, <2>3, <2>4 DEF Sending
<1>5. CASE core_ack
  <2>1. /\ Starts \/ Writes \/ Reads \/ Acks \/ Stops
        /\ running = command /\ running' = command /\ txr' = txr
    BY <1>1, <1>5 DEF ByteStep
  <2>2. CASE Starts
    <3>1. slot = -1
      BY <2>2, <1>5 DEF Starts, Roles, Started
    <3>2. slot' = 0
      BY <3>1, <2>2, <1>1, <1>5 DEF Starts, DeviceMove
    <3> QED
      BY <3>2, <2>2 DEF Sending, Starts
  <2>3. CASE Writes
    <3>1. c_state = "WRITE" /\ c_state' \in {"WRITE", "ACK"}
      BY <2>3 DEF Writes, Goes
    <3>2. /\ slot = Bits - 1 - dcnt /\ slot \in 0..(Bits - 1) /\ slot' = slot + 1 /\ heard' = heard
          /\ sr' = sr /\ dcnt' = dcnt /\ ~ld
          /\ heard[slot] = txr[slot + 1]
      BY <3>1, <1>5, BitOver
    <3>3. running.wr
      BY <3>1 DEF Control, Serves
    <3>4. \A j \in 0..(Bits - 1) : j < slot' => heard'[j] = txr'[j + 1]
      <4> SUFFICES ASSUME NEW j \in 0..(Bits - 1), j < slot + 1 PROVE heard[j] = txr[j + 1]
        BY <3>2, <2>1
      <4>1. CASE j = slot
        BY <4>1, <3>2
      <4>2. CASE j < slot
        BY <4>2, <3>1, <3>3, <1>2
      <4> QED
        BY <4>1, <4>2, <3>2, <1>1
    <3>5. \A i \in 1..Bits : i <= dcnt' + 1 => sr'[i] = txr'[i + Bits - 1 - dcnt']
      BY <3>1, <3>2, <2>1, <1>2
    <3> QED
      BY <3>4, <3>5 DEF Sending
  <2>4. CASE Reads
    <3>1. c_state' \in {"READ", "ACK"} /\ c_state = "READ"
      BY <2>4 DEF Reads, Goes
    <3>2. ~running'.wr
      BY <3>1, <2>1 DEF Control, Serves, Works
    <3> QED
      BY <3>1, <3>2 DEF Sending
  <2>5. CASE Acks \/ Stops
    <3>1. c_state' \in {"STOP", "IDLE"}
      BY <2>5 DEF Acks, Stops, Goes
    <3> QED
      BY <3>1 DEF Sending
  <2> QED
    BY <2>1, <2>2, <2>3, <2>4, <2>5
<1> QED
  BY <1>1, <1>3, <1>4, <1>5

(* A byte comes in bit by bit, from the device to sr. *)
LEMMA TakingHolds ==
  ASSUME Given, Control, Drives, Roles, Slots, Levels, Ready, Edges, Heard, Sending, Taking, Receives, Cycle
  PROVE  Taking'
<1>1. /\ DeviceMove /\ ShiftMove /\ ByteStep /\ Types /\ Types' /\ Bits \in Nat /\ Bits >= 1
      /\ dcnt \in 0..(Bits - 1) /\ slot \in -1..Bits /\ sr \in Byte /\ txr \in Byte
      /\ core_ack => c_state # "IDLE" /\ ~ld /\ ~shift
      /\ ld => c_state \in Commands /\ ~shift
  BY Steps, DeviceMoves, ByteSteps, Lengths DEF Types, TypeOK, ByteTypeOK, Control, Obeys
<1>2. /\ c_state = "READ" /\ ~ld => \A i \in 1..Bits : i < Bits - dcnt => sr[i + dcnt + 1] = heard[i - 1]
      /\ c_state = "ACK" /\ running.rd =>
           IF shift THEN \A i \in 1..Bits : i < Bits => sr[i + 1] = heard[i - 1]
                    ELSE \A i \in 1..Bits : sr[i] = heard[i - 1]
      /\ running.rd /\ c_state \in {"READ", "ACK"} =>
           \A j \in 0..(Bits - 1) : j < slot => heard[j] = answer[j]
      /\ shift => core_rxd = heard[slot - 1]
  BY DEF Taking
<1>3. startSeen => c_state = "START"
  <2>1. startSeen => op = "START" /\ phase = 4
    BY DEF Edges
  <2> QED
    BY <2>1, ShapeHolds DEF Shape
<1>4. CASE c_state = "IDLE"
  <2>1. ~shift' /\ c_state' # "ACK" /\ (c_state' = "READ" => ld' /\ Fresh /\ Leaves)
    BY <1>1, <1>4 DEF ByteStep, Holds, Leaves, Commands
  <2>2. c_state' = "READ" => slot' = 0
    <3> SUFFICES ASSUME c_state' = "READ" PROVE slot' = 0
      OBVIOUS
    <3>1. ~command.sta
      BY <2>1 DEF Leaves, Goes
    <3>2. owned
      BY <2>1, <3>1 DEF Control, Serves
    <3>3. slot = 0
      BY <3>2, <1>4 DEF Roles
    <3> QED
      BY <3>3, <1>1, <1>3, <1>4 DEF DeviceMove
  <2> QED
    BY <2>1, <2>2 DEF Taking
<1>5. CASE c_state # "IDLE" /\ ~core_ack
  <2>1. /\ c_state' = c_state /\ ~ld' /\ ~shift' /\ running' = running
    BY <1>1, <1>5, Waits DEF Holds
  <2>2. c_state # "START" => slot' = slot /\ answer' = answer
    BY <1>1, <1>3, <1>5 DEF DeviceMove
  <2>3. \A j \in 0..(Bits - 1) : j < slot => heard'[j] = heard[j]
    BY <1>1, HeardMoves
  <2>4. running'.rd /\ c_state' \in {"READ", "ACK"} =>
          \A j \in 0..(Bits - 1) : j < slot' => heard'[j] = answer'[j]
    BY <2>1, <2>2, <2>3, <1>2
  <2>5. c_state = "READ" => \A i \in 1..Bits : i < Bits - dcnt' => sr'[i + dcnt' + 1] = heard'[i - 1]
    <3> SUFFICES ASSUME c_state = "READ", NEW i \in 1..Bits, i < Bits - dcnt'
                 PROVE  sr'[i + dcnt' + 1] = heard'[i - 1]
      OBVIOUS
    <3>1. slot = IF ld THEN 0 ELSE IF shift THEN Bits - dcnt ELSE Bits - 1 - dcnt
      BY DEF Slots
    <3>2. CASE ld
      <4>1. dcnt' = Bits - 1
        BY <3>2, <1>1 DEF ShiftMove
      <4> QED
        BY <4>1, <1>1
    <3>3. CASE shift
      <4>1. ~ld /\ dcnt # 0
        BY <3>3, <1>1 DEF Slots
      <4>2. dcnt' = dcnt - 1 /\ \A k \in 1..Bits : sr'[k] = IF k = Bits THEN core_rxd ELSE sr[k + 1]
        BY <4>1, <3>3, <1>1 DEF ShiftMove
      <4>3. slot = Bits - dcnt
        BY <3>1, <3>3, <4>1
      <4>4. i + dcnt' + 1 = i + dcnt /\ i + dcnt \in 1..Bits /\ i - 1 \in 0..(Bits - 1) /\ i - 1 < slot
        BY <4>1, <4>2, <4>3, <1>1
      <4>5. heard'[i - 1] = heard[i - 1]
        BY <4>4, <2>3
      <4>6. CASE i + dcnt = Bits
        <5>1. sr'[i + dcnt] = core_rxd /\ slot - 1 = i - 1
          BY <4>2, <4>3, <4>4, <4>6, <1>1
        <5> QED
          BY <5>1, <4>4, <4>5, <3>3, <1>2
      <4>7. CASE i + dcnt # Bits
        <5>1. sr'[i + dcnt] = sr[i + dcnt + 1] /\ i < Bits - dcnt
          BY <4>2, <4>4, <4>7, <1>1
        <5> QED
          BY <5>1, <4>1, <4>4, <4>5, <1>2
      <4> QED
        BY <4>6, <4>7
    <3>4. CASE ~ld /\ ~shift
      <4>1. sr' = sr /\ dcnt' = dcnt
        BY <3>4, <1>1 DEF ShiftMove
      <4>2. i - 1 \in 0..(Bits - 1) /\ i - 1 < slot
        BY <4>1, <3>1, <3>4, <1>1
      <4> QED
        BY <4>1, <4>2, <3>4, <2>3, <1>2
    <3> QED
      BY <3>2, <3>3, <3>4
  <2>6. c_state = "ACK" /\ running.rd => \A i \in 1..Bits : sr'[i] = heard'[i - 1]
    <3> SUFFICES ASSUME c_state = "ACK", running.rd, NEW i \in 1..Bits
                 PROVE  sr'[i] = heard'[i - 1]
      OBVIOUS
    <3>1. slot = Bits /\ ~ld
      BY <1>1 DEF Slots, Commands
    <3>2. heard'[i - 1] = heard[i - 1]
      BY <3>1, <2>3, <1>1
    <3>3. CASE shift
      <4>1. sr'[i] = IF i = Bits THEN core_rxd ELSE sr[i + 1]
        BY <3>1, <3>3, <1>1 DEF ShiftMove
      <4>2. CASE i = Bits
        BY <4>1, <4>2, <3>1, <3>2, <3>3, <1>2
      <4>3. CASE i # Bits
        <5>1. i < Bits
          BY <4>3, <1>1
        <5> QED
          BY <5>1, <4>1, <4>3, <3>2, <3>3, <1>2
      <4> QED
        BY <4>2, <4>3
    <3>4. CASE ~shift
      <4>1. sr' = sr
        BY <3>1, <3>4, <1>1 DEF ShiftMove
      <4> QED
        BY <4>1, <3>2, <3>4, <1>2
    <3> QED
      BY <3>3, <3>4
  <2> QED
    BY <2>1, <2>4, <2>5, <2>6 DEF Taking
<1>6. CASE core_ack
  <2>1. /\ Starts \/ Writes \/ Reads \/ Acks \/ Stops
        /\ running = command /\ running' = command /\ txr' = txr
    BY <1>1, <1>6 DEF ByteStep
  <2>2. CASE Starts
    <3>1. slot = -1
      BY <2>2, <1>6 DEF Starts, Roles, Started
    <3>2. slot' = 0 /\ ld' /\ ~shift' /\ c_state' # "ACK"
      BY <3>1, <2>2, <1>1, <1>6 DEF Starts, Goes, DeviceMove
    <3> QED
      BY <3>2 DEF Taking
  <2>3. CASE Writes \/ Reads
    <3>1. c_state \in {"READ", "WRITE"} /\ c_state' \in {c_state, "ACK"} /\ (c_state' = "ACK" <=> dcnt = 0)
          /\ (c_state = "READ" => shift')
      BY <2>3 DEF Writes, Reads, Goes
    <3>2. /\ slot = Bits - 1 - dcnt /\ slot \in 0..(Bits - 1) /\ slot' = slot + 1 /\ heard' = heard
          /\ sr' = sr /\ dcnt' = dcnt /\ ~ld /\ answer' = answer /\ core_rxd' = heard[slot]
          /\ c_state = "READ" => heard[slot] = answer[slot]
      BY <3>1, <1>6, BitOver
    <3>3. core_rxd' = heard'[slot' - 1]
      <4>1. slot' - 1 = slot
        BY <3>2
      <4> QED
        BY <4>1, <3>2
    <3>4. running'.rd => c_state = "READ"
      BY <3>1, <2>1 DEF Control, Serves, Works
    <3>5. running'.rd /\ c_state' \in {"READ", "ACK"} =>
            \A j \in 0..(Bits - 1) : j < slot' => heard'[j] = answer'[j]
      <4> SUFFICES ASSUME running.rd, c_state = "READ", NEW j \in 0..(Bits - 1), j < slot + 1
                   PROVE  heard[j] = answer[j]
        BY <3>2, <3>4, <2>1
      <4>1. CASE j = slot
        BY <4>1, <3>2
      <4>2. CASE j < slot
        BY <4>2, <1>2
      <4> QED
        BY <4>1, <4>2, <3>2, <1>1
    <3>6. c_state' = "READ" => \A i \in 1..Bits : i < Bits - dcnt' => sr'[i + dcnt' + 1] = heard'[i - 1]
      BY <3>1, <3>2, <1>2
    <3>7. c_state' = "ACK" /\ running'.rd => shift' /\ \A i \in 1..Bits : i < Bits => sr'[i + 1] = heard'[i - 1]
      <4> SUFFICES ASSUME c_state' = "ACK", running'.rd, NEW i \in 1..Bits, i < Bits
                   PROVE  shift' /\ sr[i + 1] = heard[i - 1]
        BY <3>1, <3>2, <3>4
      <4>1. c_state = "READ" /\ dcnt = 0 /\ shift'
        BY <3>1, <3>4
      <4>2. i < Bits - dcnt => sr[i + dcnt + 1] = heard[i - 1]
        BY <4>1, <3>2, <1>2
      <4> QED
        BY <4>1, <4>2, <1>1
    <3> QED
      BY <3>3, <3>5, <3>6, <3>7 DEF Taking
  <2>4. CASE Acks \/ Stops
    <3>1. c_state' \in {"STOP", "IDLE"} /\ ~shift'
      BY <2>4 DEF Acks, Stops, Goes
    <3> QED
      BY <3>1 DEF Taking
  <2> QED
    BY <2>1, <2>2, <2>3, <2>4
<1> QED
  BY <1>1, <1>4, <1>5, <1>6

(* When a command is done both ends have the same bits. *)
LEMMA DoneHolds ==
  ASSUME Given, Control, Drives, Roles, Slots, Levels, Ready, Edges, BitsKept, Receives, Cycle
  PROVE  Done'
<1>1. /\ DeviceMove /\ ShiftMove /\ ByteStep /\ Types /\ Types' /\ Bits \in Nat /\ Bits >= 1
      /\ slot \in -1..Bits
      /\ core_ack => c_state # "IDLE" /\ ~ld /\ ~shift
      /\ Heard /\ Sending /\ Taking /\ Done
  BY Steps, DeviceMoves, ByteSteps, Lengths DEF Types, TypeOK, Control, Obeys, BitsKept
<1>2. CASE c_state = "IDLE"
  <2>1. /\ ~cmd_ack'
        /\ c_state' = "STOP" => running' = command /\ ~command.rd /\ ~command.wr
    BY <1>1, <1>2 DEF ByteStep, Holds, Leaves, Goes
  <2> QED
    BY <2>1 DEF Done, WriteAgrees, ReadAgrees
<1>3. CASE c_state = "STOP" \/ (c_state # "IDLE" /\ ~core_ack)
  <2>1. /\ c_state # "IDLE" /\ running' = running /\ txr' = txr
        /\ c_state' = "STOP" \/ cmd_ack' => c_state = "STOP" /\ ~ld' /\ ~shift' /\ ack_out' = ack_out
    BY <1>1, <1>3, Waits DEF ByteStep, Holds, Starts, Writes, Reads, Acks, Stops, Goes
  <2> SUFFICES ASSUME c_state = "STOP", ~ld', ~shift', ack_out' = ack_out PROVE Done'
    BY <2>1 DEF Done
  <2>2. WriteAgrees /\ ReadAgrees /\ (running.rd => ~ld /\ ~shift)
    BY <1>1 DEF Done
  <2>3. carried' = carried
    BY <1>1 DEF DeviceMove
  <2>4. running.rd => sr' = sr
    BY <2>2, <1>1 DEF ShiftMove
  <2> QED
    BY <2>1, <2>2, <2>3, <2>4 DEF Done, WriteAgrees, ReadAgrees
<1>4. CASE core_ack /\ c_state # "STOP"
  <2>1. /\ Starts \/ Writes \/ Reads \/ Acks
        /\ running = command /\ running' = command /\ txr' = txr
    BY <1>1, <1>4 DEF ByteStep, Stops
  <2>2. CASE Starts \/ Writes \/ Reads
    BY <2>2 DEF Starts, Writes, Reads, Goes, Done
  <2>3. CASE Acks
    <3>1. c_state = "ACK" /\ ~ld' /\ ~shift' /\ ack_out' = core_rxd
      BY <2>3 DEF Acks
    <3>2. carried' = [heard |-> heard, answer |-> answer] /\ sr' = sr /\ slot = Bits
      BY <3>1, <1>1, <1>4 DEF DeviceMove, ShiftMove, Slots
    <3>3. /\ core_rxd = heard[Bits]
          /\ running.rd => heard[Bits] = command.ack
      BY <3>1, <1>1, <1>4, NinthBit
    <3>4. carried'.heard = heard /\ carried'.answer = answer
      BY <3>2
    <3>5. running.wr => \A i \in 1..Bits : heard[i - 1] = txr[i]
      <4> SUFFICES ASSUME running.wr, NEW i \in 1..Bits PROVE heard[i - 1] = txr[i]
        OBVIOUS
      <4>1. \A j \in 0..(Bits - 1) : j < slot => heard[j] = txr[j + 1]
        BY <3>1, <1>1 DEF Sending
      <4>2. i - 1 \in 0..(Bits - 1) /\ i - 1 < slot /\ (i - 1) + 1 = i
        BY <3>2, <1>1
      <4> QED
        BY <4>1, <4>2
    <3>6. running.rd => \A i \in 1..Bits : sr[i] = answer[i - 1]
      <4> SUFFICES ASSUME running.rd, NEW i \in 1..Bits PROVE sr[i] = answer[i - 1]
        OBVIOUS
      <4>1. sr[i] = heard[i - 1]
        BY <3>1, <1>1, <1>4 DEF Taking
      <4>2. \A j \in 0..(Bits - 1) : j < slot => heard[j] = answer[j]
        BY <3>1, <1>1 DEF Taking
      <4>3. i - 1 \in 0..(Bits - 1) /\ i - 1 < slot
        BY <3>2, <1>1
      <4> QED
        BY <4>1, <4>2, <4>3
    <3>7. WriteAgrees' /\ ReadAgrees'
      BY <3>1, <3>2, <3>3, <3>4, <3>5, <3>6, <2>1 DEF WriteAgrees, ReadAgrees
    <3> QED
      BY <3>1, <3>7 DEF Done
  <2> QED
    BY <2>1, <2>2, <2>3
<1> QED
  BY <1>2, <1>3, <1>4

-----------------------------------------------------------------------------
(* The filter. *)

(* One cycle of a synchronizer and its filter, with x on the pin. *)
Piped(p, f, s, count, x, p2, f2, s2, d2, count2) ==
  /\ p2 = [i \in Pin |-> IF i = 1 THEN x ELSE p[i - 1]]
  /\ f2 = IF count = 0 THEN <<p[Sync], f[1], f[2]>> ELSE f
  /\ s2 = Majority(f) /\ d2 = s
  /\ count2 = IF count = 0 THEN Interval - 1 ELSE count - 1

Stages(p, f, s, d, count) == /\ p \in [Pin -> BOOLEAN] /\ f \in [1..3 -> BOOLEAN]
                             /\ s \in BOOLEAN /\ d \in BOOLEAN /\ count \in 0..(Interval - 1)

(* Both lines go through a synchronizer and a filter of the same shape, and *)
(* the bus status follows them. *)
LEMMA Pipes ==
  ASSUME Given, Types, Cycle
  PROVE  /\ Stages(scl_pipe, fSCL, sSCL, dSCL, filter_cnt) /\ Stages(sda_pipe, fSDA, sSDA, dSDA, filter_cnt)
         /\ Piped(scl_pipe, fSCL, sSCL, filter_cnt, scl, scl_pipe', fSCL', sSCL', dSCL', filter_cnt')
         /\ Piped(sda_pipe, fSDA, sSDA, filter_cnt, sda, sda_pipe', fSDA', sSDA', dSDA', filter_cnt')
         /\ sta_condition' = StartSeen /\ sto_condition' = StopSeen
         /\ busy' = ((sta_condition \/ busy) /\ ~sto_condition)
         /\ core_rxd' = IF sSCL /\ ~dSCL THEN sSDA ELSE core_rxd
<1>1. Stages(scl_pipe, fSCL, sSCL, dSCL, filter_cnt) /\ Stages(sda_pipe, fSDA, sSDA, dSDA, filter_cnt)
  BY DEF Types, TypeOK, BitTypeOK, Stages
<1>2. Inputs /\ BitCycle(core_cmd, core_txd, scl_pipe[Sync], sda_pipe[Sync])
  BY DEF Cycle, ByteMachine, ByteCycle
<1>3. Filter(scl_pipe[Sync], sda_pipe[Sync]) /\ BusStatus /\ Receive
  BY <1>2 DEF BitCycle
<1>4. filter_cnt' = IF filter_cnt = 0 THEN Interval - 1 ELSE filter_cnt - 1
  BY <1>3, Lengths DEF Filter, FilterClock
<1>5. Piped(scl_pipe, fSCL, sSCL, filter_cnt, scl, scl_pipe', fSCL', sSCL', dSCL', filter_cnt')
  BY <1>2, <1>3, <1>4 DEF Filter, Capture, Inputs, Piped, Pin
<1>6. Piped(sda_pipe, fSDA, sSDA, filter_cnt, sda, sda_pipe', fSDA', sSDA', dSDA', filter_cnt')
  BY <1>2, <1>3, <1>4 DEF Filter, Capture, Inputs, Piped, Pin
<1> QED
  BY <1>1, <1>3, <1>5, <1>6 DEF BusStatus, Receive

(* The age of the filter's latest sample. *)
LEMMA LagMoves ==
  ASSUME Given, NEW count \in 0..(Interval - 1)
  PROVE  LET count2 == IF count = 0 THEN Interval - 1 ELSE count - 1
         IN  /\ LagOf(count) \in (Sync + 1)..(Sync + Interval) /\ count2 \in 0..(Interval - 1)
             /\ LagOf(count2) = IF count = 0 THEN Sync + 1 ELSE LagOf(count) + 1
             /\ count = 0 <=> LagOf(count) = Sync + Interval
<1>1. Sync \in 1..4 /\ Interval \in Nat /\ Interval >= 1 /\ count \in 0..(Interval - 1)
  BY Lengths
<1> QED
  BY <1>1 DEF LagOf

(* A stage of the synchronizer holds what its predecessor held. *)
LEMMA PipeMoves ==
  ASSUME Given, NEW p \in [Pin -> BOOLEAN], NEW f \in [1..3 -> BOOLEAN], NEW s \in BOOLEAN, NEW d \in BOOLEAN,
         NEW count \in 0..(Interval - 1), NEW x \in BOOLEAN,
         NEW p2, NEW f2, NEW s2, NEW d2, NEW count2,
         Piped(p, f, s, count, x, p2, f2, s2, d2, count2)
  PROVE  /\ p2[1] = x /\ \A i \in Pin : i > 1 => i - 1 \in Pin /\ p2[i] = p[i - 1]
         /\ count = 0 => f2[1] = p[Sync] /\ f2[2] = f[1] /\ f2[3] = f[2]
         /\ count # 0 => f2 = f
         /\ s2 = Majority(f) /\ d2 = s
         /\ count2 = IF count = 0 THEN Interval - 1 ELSE count - 1
         /\ 1 \in Pin /\ Sync \in Pin /\ Pin = 1..Sync /\ Sync \in Nat
         /\ {f[1], f[2], f[3]} \subseteq BOOLEAN /\ \A i \in Pin : p[i] \in BOOLEAN
<1>1. Sync \in 1..4 /\ Pin = 1..Sync
  BY Lengths DEF Pin
<1>2. \A i \in Pin : p2[i] = IF i = 1 THEN x ELSE p[i - 1]
  BY DEF Piped
<1>3. 1 \in Pin /\ Sync \in Pin /\ \A i \in Pin : i > 1 => i - 1 \in Pin
  BY <1>1
<1>4. p2[1] = x /\ \A i \in Pin : i > 1 => i - 1 \in Pin /\ p2[i] = p[i - 1]
  BY <1>1, <1>2, <1>3
<1>5. /\ count = 0 => f2[1] = p[Sync] /\ f2[2] = f[1] /\ f2[3] = f[2]
      /\ count # 0 => f2 = f
  BY DEF Piped
<1>6. s2 = Majority(f) /\ d2 = s /\ count2 = IF count = 0 THEN Interval - 1 ELSE count - 1
  BY DEF Piped
<1> QED
  BY <1>1, <1>3, <1>4, <1>5, <1>6

(* A line that keeps its level for another cycle. *)
LEMMA YoungStep ==
  ASSUME Given, NEW p \in [Pin -> BOOLEAN], NEW f \in [1..3 -> BOOLEAN], NEW s \in BOOLEAN, NEW d \in BOOLEAN,
         NEW count \in 0..(Interval - 1), NEW v \in BOOLEAN, NEW n \in Nat,
         NEW p2, NEW f2, NEW s2, NEW d2, NEW count2,
         Piped(p, f, s, count, v, p2, f2, s2, d2, count2), Young(p, f, s, d, count, n, v)
  PROVE  Young(p2, f2, s2, d2, count2, n + 1, v)
<1>1. /\ p2[1] = v /\ \A i \in Pin : i > 1 => i - 1 \in Pin /\ p2[i] = p[i - 1]
      /\ count = 0 => f2[1] = p[Sync] /\ f2[2] = f[1] /\ f2[3] = f[2]
      /\ count # 0 => f2 = f
      /\ s2 = Majority(f) /\ d2 = s
      /\ count2 = IF count = 0 THEN Interval - 1 ELSE count - 1
      /\ 1 \in Pin /\ Sync \in Pin /\ Pin = 1..Sync /\ Sync \in Nat
  BY PipeMoves
<1>2. /\ LagOf(count) \in (Sync + 1)..(Sync + Interval)
      /\ LagOf(count2) = IF count = 0 THEN Sync + 1 ELSE LagOf(count) + 1
      /\ count = 0 <=> LagOf(count) = Sync + Interval
      /\ Interval \in Nat /\ Interval >= 1 /\ seen = Sync + 2 * Interval + 1
  BY <1>1, LagMoves, Lengths DEF seen
<1>3. /\ \A i \in Pin : i <= n => p[i] = v
      /\ LagOf(count) <= n => f[1] = v
      /\ LagOf(count) + Interval <= n => f[2] = v
      /\ LagOf(count) + 2 * Interval <= n => f[3] = v
      /\ n >= seen => s = v
      /\ n > seen => d = v
  BY DEF Young
<1> DEFINE l == LagOf(count)
           l2 == LagOf(count2)
<1>4. /\ l \in (Sync + 1)..(Sync + Interval) /\ l2 = (IF count = 0 THEN Sync + 1 ELSE l + 1)
      /\ (count = 0 <=> l = Sync + Interval)
      /\ (l <= n => f[1] = v) /\ (l + Interval <= n => f[2] = v) /\ (l + 2 * Interval <= n => f[3] = v)
  BY <1>2, <1>3
<1> HIDE DEF l, l2
<1>5. \A i \in Pin : i <= n + 1 => p2[i] = v
  <2> SUFFICES ASSUME NEW i \in Pin, i <= n + 1 PROVE p2[i] = v
    OBVIOUS
  <2>1. CASE i = 1
    BY <2>1, <1>1
  <2>2. CASE i # 1
    <3>1. i > 1 /\ i - 1 <= n
      BY <2>2, <1>1
    <3> QED
      BY <3>1, <1>1, <1>3
  <2> QED
    BY <2>1, <2>2
<1>6. /\ l2 <= n + 1 => f2[1] = v
      /\ l2 + Interval <= n + 1 => f2[2] = v
      /\ l2 + 2 * Interval <= n + 1 => f2[3] = v
  <2>1. CASE count = 0
    <3>1. l = Sync + Interval /\ l2 = Sync + 1
      BY <2>1, <1>4
    <3>2. l2 <= n + 1 => f2[1] = v
      <4>1. l2 <= n + 1 => Sync <= n
        BY <3>1, <1>1
      <4> QED
        BY <4>1, <2>1, <1>1, <1>3
    <3>3. l2 + Interval <= n + 1 => f2[2] = v
      <4>1. l2 + Interval <= n + 1 => l <= n
        BY <3>1, <1>1, <1>2
      <4> QED
        BY <4>1, <2>1, <1>1, <1>4
    <3>4. l2 + 2 * Interval <= n + 1 => f2[3] = v
      <4>1. l2 + 2 * Interval <= n + 1 => l + Interval <= n
        BY <3>1, <1>1, <1>2
      <4> QED
        BY <4>1, <2>1, <1>1, <1>4
    <3> QED
      BY <3>2, <3>3, <3>4
  <2>2. CASE count # 0
    <3>1. l2 = l + 1 /\ l \in Nat
      BY <2>2, <1>1, <1>2, <1>4
    <3>2. /\ l2 <= n + 1 => l <= n
          /\ l2 + Interval <= n + 1 => l + Interval <= n
          /\ l2 + 2 * Interval <= n + 1 => l + 2 * Interval <= n
      BY <3>1, <1>2
    <3> QED
      BY <3>2, <2>2, <1>1, <1>4
  <2> QED
    BY <2>1, <2>2
<1>7. n + 1 >= seen => s2 = v
  <2> SUFFICES ASSUME n + 1 >= seen PROVE s2 = v
    OBVIOUS
  <2>1. l <= n /\ l + Interval <= n
    BY <1>1, <1>2, <1>4
  <2> QED
    BY <2>1, <1>1, <1>4 DEF Majority
<1>8. n + 1 > seen => d2 = v
  <2>1. n + 1 > seen => n >= seen
    BY <1>1, <1>2
  <2> QED
    BY <2>1, <1>1, <1>3
<1> QED
  BY <1>5, <1>6, <1>7, <1>8 DEF Young, l, l2

(* What a line was before it changed moves on, whatever it is now. *)
LEMMA OldStep ==
  ASSUME Given, NEW p \in [Pin -> BOOLEAN], NEW f \in [1..3 -> BOOLEAN], NEW s \in BOOLEAN, NEW d \in BOOLEAN,
         NEW count \in 0..(Interval - 1), NEW x \in BOOLEAN, NEW v \in BOOLEAN, NEW n \in Nat,
         NEW p2, NEW f2, NEW s2, NEW d2, NEW count2,
         Piped(p, f, s, count, x, p2, f2, s2, d2, count2), Old(p, f, s, d, count, n, v)
  PROVE  Old(p2, f2, s2, d2, count2, n + 1, v)
<1>1. /\ p2[1] = x /\ \A i \in Pin : i > 1 => i - 1 \in Pin /\ p2[i] = p[i - 1]
      /\ count = 0 => f2[1] = p[Sync] /\ f2[2] = f[1] /\ f2[3] = f[2]
      /\ count # 0 => f2 = f
      /\ s2 = Majority(f) /\ d2 = s
      /\ count2 = IF count = 0 THEN Interval - 1 ELSE count - 1
      /\ 1 \in Pin /\ Sync \in Pin /\ Pin = 1..Sync /\ Sync \in Nat
  BY PipeMoves
<1>2. /\ LagOf(count) \in (Sync + 1)..(Sync + Interval)
      /\ LagOf(count2) = IF count = 0 THEN Sync + 1 ELSE LagOf(count) + 1
      /\ count = 0 <=> LagOf(count) = Sync + Interval
      /\ Interval \in Nat /\ Interval >= 1
  BY <1>1, LagMoves, Lengths
<1>3. /\ \A i \in Pin : i > n => p[i] = v
      /\ LagOf(count) > n => f[1] = v
      /\ LagOf(count) + Interval > n => f[2] = v
      /\ LagOf(count) + 2 * Interval > n => f[3] = v
      /\ n < Sync + Interval + 2 => s = v
      /\ n < Sync + Interval + 3 => d = v
  BY DEF Old
<1> DEFINE l == LagOf(count)
           l2 == LagOf(count2)
<1>4. /\ l \in (Sync + 1)..(Sync + Interval) /\ l2 = (IF count = 0 THEN Sync + 1 ELSE l + 1)
      /\ (count = 0 <=> l = Sync + Interval)
      /\ (l > n => f[1] = v) /\ (l + Interval > n => f[2] = v) /\ (l + 2 * Interval > n => f[3] = v)
  BY <1>2, <1>3
<1> HIDE DEF l, l2
<1>5. \A i \in Pin : i > n + 1 => p2[i] = v
  <2> SUFFICES ASSUME NEW i \in Pin, i > n + 1 PROVE p2[i] = v
    OBVIOUS
  <2>1. i > 1 /\ i - 1 > n
    BY <1>1
  <2> QED
    BY <2>1, <1>1, <1>3
<1>6. /\ l2 > n + 1 => f2[1] = v
      /\ l2 + Interval > n + 1 => f2[2] = v
      /\ l2 + 2 * Interval > n + 1 => f2[3] = v
  <2>1. CASE count = 0
    <3>1. l = Sync + Interval /\ l2 = Sync + 1
      BY <2>1, <1>4
    <3>2. l2 > n + 1 => f2[1] = v
      <4>1. l2 > n + 1 => Sync > n
        BY <3>1, <1>1
      <4> QED
        BY <4>1, <2>1, <1>1, <1>3
    <3>3. l2 + Interval > n + 1 => f2[2] = v
      <4>1. l2 + Interval > n + 1 => l > n
        BY <3>1, <1>1, <1>2
      <4> QED
        BY <4>1, <2>1, <1>1, <1>4
    <3>4. l2 + 2 * Interval > n + 1 => f2[3] = v
      <4>1. l2 + 2 * Interval > n + 1 => l + Interval > n
        BY <3>1, <1>1, <1>2
      <4> QED
        BY <4>1, <2>1, <1>1, <1>4
    <3> QED
      BY <3>2, <3>3, <3>4
  <2>2. CASE count # 0
    <3>1. l2 = l + 1 /\ l \in Nat
      BY <2>2, <1>1, <1>2, <1>4
    <3>2. /\ l2 > n + 1 => l > n
          /\ l2 + Interval > n + 1 => l + Interval > n
          /\ l2 + 2 * Interval > n + 1 => l + 2 * Interval > n
      BY <3>1, <1>2
    <3> QED
      BY <3>2, <2>2, <1>1, <1>4
  <2> QED
    BY <2>1, <2>2
<1>7. n + 1 < Sync + Interval + 2 => s2 = v
  <2> SUFFICES ASSUME n + 1 < Sync + Interval + 2 PROVE s2 = v
    OBVIOUS
  <2>1. l + Interval > n /\ l + 2 * Interval > n
    BY <1>1, <1>2, <1>4
  <2> QED
    BY <2>1, <1>1, <1>4 DEF Majority
<1>8. n + 1 < Sync + Interval + 3 => d2 = v
  <2>1. n + 1 < Sync + Interval + 3 => n < Sync + Interval + 2
    BY <1>1, <1>2
  <2> QED
    BY <2>1, <1>1, <1>3
<1> QED
  BY <1>5, <1>6, <1>7, <1>8 DEF Old, l, l2

(* Of a line that has just changed nothing is known, and of one that has been *)
(* still for two phases everything.                                          *)
LEMMA YoungZero ==
  ASSUME Given, NEW p, NEW f, NEW s, NEW d, NEW count \in 0..(Interval - 1), NEW v
  PROVE  Young(p, f, s, d, count, 0, v)
<1>1. /\ Sync \in 1..4 /\ Interval \in Nat /\ Interval >= 1 /\ LagOf(count) \in (Sync + 1)..(Sync + Interval)
      /\ seen = Sync + 2 * Interval + 1 /\ Pin = 1..Sync
  BY LagMoves, Lengths DEF seen, Pin
<1>2. LagOf(count) > 0 /\ LagOf(count) + Interval > 0 /\ LagOf(count) + 2 * Interval > 0 /\ seen > 0
  BY <1>1
<1> QED
  BY <1>1, <1>2 DEF Young

(* A line that has been still for long has been still for less. *)
LEMMA YoungLess ==
  ASSUME Given, NEW p, NEW f, NEW s, NEW d, NEW count \in 0..(Interval - 1), NEW v,
         NEW n \in Nat, NEW m \in Nat, m <= n, Young(p, f, s, d, count, n, v)
  PROVE  Young(p, f, s, d, count, m, v)
<1>1. /\ Sync \in 1..4 /\ Interval \in Nat /\ LagOf(count) \in Nat
      /\ seen \in Nat /\ Pin = 1..Sync
  <2>1. Sync \in 1..4 /\ Interval \in Nat /\ LagOf(count) \in (Sync + 1)..(Sync + Interval) /\ seen = Sync + 2 * Interval + 1
    BY LagMoves, Lengths DEF seen
  <2> QED
    BY <2>1 DEF Pin
<1> DEFINE l == LagOf(count)
<1>2. /\ (l <= m => l <= n) /\ (l + Interval <= m => l + Interval <= n)
      /\ (l + 2 * Interval <= m => l + 2 * Interval <= n)
      /\ (m >= seen => n >= seen) /\ (m > seen => n > seen) /\ \A i \in Pin : i <= m => i <= n
  BY <1>1
<1> QED
  BY <1>2 DEF Young, l

(* After two phases a still line is all that the pipeline holds. *)
LEMMA YoungAll ==
  ASSUME Given, NEW p, NEW f, NEW s, NEW d, NEW count \in 0..(Interval - 1), NEW v,
         NEW n \in Nat, n >= 2 * Span, Young(p, f, s, d, count, n, v)
  PROVE  AllAt(p, f, s, d, v)
<1>1. /\ Sync \in 1..4 /\ Interval \in Nat /\ Interval >= 1 /\ LagOf(count) \in (Sync + 1)..(Sync + Interval)
      /\ seen = Sync + 2 * Interval + 1 /\ Pin = 1..Sync /\ Span \in Nat
      /\ Sync + 2 * Interval + 2 <= 2 * Span /\ Sync + 3 * Interval <= 2 * Span
  BY LagMoves, Lengths DEF seen, Pin
<1> DEFINE l == LagOf(count)
<1>2. /\ l <= n /\ l + Interval <= n /\ l + 2 * Interval <= n /\ n > seen /\ n >= seen /\ \A i \in Pin : i <= n
  BY <1>1
<1> QED
  BY <1>2 DEF Young, AllAt, l

(* A pipeline that holds one level holds it wherever one looks. *)
LEMMA AllOld ==
  ASSUME NEW p, NEW f, NEW s, NEW d, NEW count, NEW v, NEW n, AllAt(p, f, s, d, v)
  PROVE  Old(p, f, s, d, count, n, v)
  BY DEF Old, AllAt

(* Both lines go through a pipeline of their own. *)
LEMMA SclStep ==
  ASSUME Given, Types, Cycle, NEW n \in Nat, NEW v \in BOOLEAN
  PROVE  /\ scl = v /\ Scl(n, v) => Young(scl_pipe', fSCL', sSCL', dSCL', filter_cnt', n + 1, v)
         /\ Old(scl_pipe, fSCL, sSCL, dSCL, filter_cnt, n, v) =>
              Old(scl_pipe', fSCL', sSCL', dSCL', filter_cnt', n + 1, v)
<1>1. /\ Stages(scl_pipe, fSCL, sSCL, dSCL, filter_cnt)
      /\ Piped(scl_pipe, fSCL, sSCL, filter_cnt, scl, scl_pipe', fSCL', sSCL', dSCL', filter_cnt')
      /\ scl \in BOOLEAN
  BY Pipes, LineTypes
<1> QED
  BY <1>1, YoungStep, OldStep DEF Scl, Stages

(* The same for SDA. *)
LEMMA SdaStep ==
  ASSUME Given, Types, Cycle, NEW n \in Nat, NEW v \in BOOLEAN
  PROVE  /\ sda = v /\ Sda(n, v) => Young(sda_pipe', fSDA', sSDA', dSDA', filter_cnt', n + 1, v)
         /\ Old(sda_pipe, fSDA, sSDA, dSDA, filter_cnt, n, v) =>
              Old(sda_pipe', fSDA', sSDA', dSDA', filter_cnt', n + 1, v)
<1>1. /\ Stages(sda_pipe, fSDA, sSDA, dSDA, filter_cnt)
      /\ Piped(sda_pipe, fSDA, sSDA, filter_cnt, sda, sda_pipe', fSDA', sSDA', dSDA', filter_cnt')
      /\ sda \in BOOLEAN
  BY Pipes, LineTypes
<1> QED
  BY <1>1, YoungStep, OldStep DEF Sda, Stages

(* Time in a command. *)
LEMMA Ages == ASSUME Given, Control
              PROVE  /\ Span \in Nat /\ Span >= 4 /\ beat \in 0..(Span - 1) /\ phase \in 0..5
                     /\ age \in Nat
                     /\ phase = 0 => age = beat
                     /\ phase = 1 => age = Span + beat
                     /\ phase = 2 => age = 2 * Span + beat
                     /\ phase = 3 => age = 3 * Span + beat
                     /\ phase = 4 => age = 4 * Span + beat
                     /\ phase = 5 => age = 5 * Span + beat
                     /\ phase > 1 => age - 2 * Span \in Nat
                     /\ phase > 2 => age - 3 * Span \in Nat
                     /\ phase > 3 => age - 4 * Span \in Nat
<1>1. Span \in Nat /\ Span >= 4 /\ beat \in 0..(Span - 1) /\ phase \in 0..5
  BY ShapeHolds, Lengths DEF Shape
<1> DEFINE s == Span
           b == beat
<1>2. /\ phase = 0 => age = b
      /\ phase = 1 => age = s + b
      /\ phase = 2 => age = 2 * s + b
      /\ phase = 3 => age = 3 * s + b
      /\ phase = 4 => age = 4 * s + b
      /\ phase = 5 => age = 5 * s + b
  <2>1. s \in Nat /\ b \in Nat /\ age = phase * s + b
    BY <1>1 DEF age
  <2> HIDE DEF s, b
  <2>2. /\ 0 * s = 0 /\ 1 * s = s
    BY <2>1
  <2> QED
    BY <2>1, <2>2
<1>3. age \in Nat
  BY <1>1, <1>2
<1>4. /\ phase > 1 => age - 2 * s \in Nat
      /\ phase > 2 => age - 3 * s \in Nat
      /\ phase > 3 => age - 4 * s \in Nat
  <2>1. s \in Nat /\ b \in Nat
    BY <1>1
  <2> HIDE DEF s, b
  <2> QED
    BY <2>1, <1>1, <1>2
<1> QED
  BY <1>1, <1>2, <1>3, <1>4

(* A cycle adds one to the age of a command, unless it ends. *)
LEMMA AgeMoves == ASSUME Given, Control, Control', Cycle
                  PROVE  /\ BitMove
                         /\ Quiet \/ Begin \/ Advance => age' = age + 1
                         /\ Rest \/ Finish => age' = 0 /\ age + 1 = (phase + 1) * Span
                         /\ Turn <=> beat = Span - 1 /\ beat' = 0
<1>1. BitMove /\ Prescale \in Nat /\ Span = Prescale + 1
  BY Steps, Lengths
<1>2. /\ Span \in Nat /\ Span >= 4 /\ beat \in 0..(Span - 1) /\ phase \in 0..5
  BY Ages
<1>3. age = phase * Span + beat /\ age' = phase' * Span + beat'
  BY DEF age, Span
<1>4. Turn <=> beat = Span - 1 /\ beat' = 0
  BY <1>1 DEF Turn
<1> DEFINE s == Span
<1>5. Quiet => age' = age + 1
  <2> SUFFICES ASSUME Quiet PROVE age' = age + 1
    OBVIOUS
  <2>1. phase' = phase /\ beat' = beat + 1
    BY DEF Quiet
  <2>2. s \in Nat /\ phase * s \in Nat /\ age = phase * s + beat /\ age' = phase * s + beat'
    BY <2>1, <1>2, <1>3
  <2> QED
    BY <2>1, <2>2, <1>2
<1>6. Begin => age' = age + 1
  <2> SUFFICES ASSUME Begin PROVE age' = age + 1
    OBVIOUS
  <2>1. phase = 0 /\ phase' = 1 /\ beat = s - 1 /\ beat' = 0
    BY <1>4 DEF Begin
  <2>2. s \in Nat /\ age = phase * s + beat /\ age' = phase' * s + beat'
    BY <1>2, <1>3
  <2> HIDE DEF s
  <2>3. 0 * s = 0 /\ 1 * s = s
    BY <2>2
  <2> QED
    BY <2>1, <2>2, <2>3
<1>7. Advance => age' = age + 1
  <2> SUFFICES ASSUME Advance PROVE age' = age + 1
    OBVIOUS
  <2>1. phase' = phase + 1 /\ phase > 0 /\ beat = s - 1 /\ beat' = 0
    BY <1>4 DEF Advance
  <2>2. s \in Nat /\ age = phase * s + beat /\ age' = (phase + 1) * s + beat'
    BY <2>1, <1>2, <1>3
  <2> HIDE DEF s
  <2>3. (phase + 1) * s = phase * s + s
    BY <2>2, <1>2
  <2>4. phase * s \in Nat
    BY <2>2, <1>2
  <2> QED
    BY <2>1, <2>2, <2>3, <2>4
<1>8. Rest \/ Finish => age' = 0 /\ age + 1 = (phase + 1) * s
  <2> SUFFICES ASSUME Rest \/ Finish PROVE age' = 0 /\ age + 1 = (phase + 1) * s
    OBVIOUS
  <2>1. phase' = 0 /\ beat = s - 1 /\ beat' = 0
    BY <1>4 DEF Rest, Finish
  <2>2. s \in Nat /\ age = phase * s + beat /\ age' = phase' * s + beat'
    BY <1>2, <1>3
  <2> HIDE DEF s
  <2>3. (phase + 1) * s = phase * s + s /\ 0 * s = 0 /\ phase * s \in Nat
    BY <2>2, <1>2
  <2> QED
    BY <2>1, <2>2, <2>3
<1> QED
  BY <1>1, <1>4, <1>5, <1>6, <1>7, <1>8

(* When SCL moves. *)
LEMMA SclMoves ==
  ASSUME Given, Control, Levels, Edges, Cycle
  PROVE  /\ phase > 2 => scl
         /\ phase \in {1, 2} /\ (op # "START" \/ owned) => ~scl
         /\ Quiet \/ Rest \/ Begin => scl' = scl
         /\ Advance => IF phase = 1 THEN scl' = scl ELSE scl'
         /\ Finish => (scl' <=> op = "STOP")
<1>1. Shape /\ Types /\ Types'
  BY Steps
<1>2. scl_oen \in BOOLEAN /\ scl_oen' \in BOOLEAN /\ core_txd \in BOOLEAN
  BY <1>1, LineTypes DEF Types, TypeOK, BitTypeOK
<1>3. /\ op \in {"READ", "WRITE", "STOP"} => owned /\ scl_oen = (phase > 2)
      /\ op = "START" => /\ phase < 3 => IF owned THEN ~scl_oen ELSE scl_oen /\ sda_oen
                         /\ phase > 2 => scl_oen
  BY DEF Levels
<1>4. phase \in 0..5 /\ op \in {"NOP", "START", "STOP", "READ", "WRITE"} /\ (phase = 0 <=> op = "NOP")
  BY <1>1 DEF Shape, Commands
<1>5. (phase > 2 => scl_oen) /\ (phase \in {1, 2} /\ (op # "START" \/ owned) => ~scl_oen)
  <2>1. CASE op = "NOP"
    BY <2>1, <1>4
  <2>2. CASE op = "START"
    BY <2>2, <1>3, <1>4
  <2>3. CASE op \in {"READ", "WRITE", "STOP"}
    BY <2>3, <1>2, <1>3, <1>4
  <2> QED
    BY <2>1, <2>2, <2>3, <1>4
<1>6. Quiet \/ Rest \/ Begin => scl_oen' = scl_oen
  BY DEF Quiet, Rest, Begin
<1>7. ASSUME Advance \/ Finish
      PROVE  /\ scl_oen' = SclOf(op, phase) /\ phase > 0 /\ op \in Commands
             /\ (Advance => phase < LastPhase(op)) /\ (Finish => phase = LastPhase(op))
  <2>1. scl_oen' = SclOf(op, phase) /\ phase > 0
    BY <1>7 DEF Advance, Finish
  <2>2. op \in Commands
    BY <2>1, <1>4 DEF Commands
  <2>3. (Advance => phase < LastPhase(op)) /\ (Finish => phase = LastPhase(op))
    BY DEF Advance, Finish
  <2> QED
    BY <2>1, <2>2, <2>3
<1>8. Advance => IF phase = 1 THEN scl_oen' = scl_oen ELSE scl_oen'
  <2> SUFFICES ASSUME Advance PROVE IF phase = 1 THEN scl_oen' = scl_oen ELSE scl_oen'
    OBVIOUS
  <2>1. CASE op = "START"
    <3>1. scl_oen' <=> IF phase = 1 THEN scl_oen ELSE phase < 5
      BY <2>1, <1>2, <1>4, <1>7, DriveLevels
    <3> QED
      BY <3>1, <2>1, <1>2, <1>4, <1>7 DEF LastPhase
  <2>2. CASE op = "STOP"
    <3>1. scl_oen' <=> phase > 1
      BY <2>2, <1>2, <1>4, <1>7, DriveLevels
    <3> QED
      BY <3>1, <2>2, <1>2, <1>3, <1>4, <1>7
  <2>3. CASE op \in {"READ", "WRITE"}
    <3>1. scl_oen' <=> phase \in {2, 3}
      BY <2>3, <1>2, <1>4, <1>7, DriveLevels
    <3> QED
      BY <3>1, <2>3, <1>2, <1>3, <1>4, <1>7 DEF LastPhase
  <2> QED
    BY <2>1, <2>2, <2>3, <1>7 DEF Commands
<1>9. Finish => (scl_oen' <=> op = "STOP")
  <2> SUFFICES ASSUME Finish PROVE scl_oen' <=> op = "STOP"
    OBVIOUS
  <2>1. CASE op = "START"
    <3>1. scl_oen' <=> IF phase = 1 THEN scl_oen ELSE phase < 5
      BY <2>1, <1>2, <1>4, <1>7, DriveLevels
    <3> QED
      BY <3>1, <2>1, <1>2, <1>4, <1>7 DEF LastPhase
  <2>2. CASE op = "STOP"
    <3>1. scl_oen' <=> phase > 1
      BY <2>2, <1>2, <1>4, <1>7, DriveLevels
    <3> QED
      BY <3>1, <2>2, <1>7 DEF LastPhase
  <2>3. CASE op \in {"READ", "WRITE"}
    <3>1. scl_oen' <=> phase \in {2, 3}
      BY <2>3, <1>2, <1>4, <1>7, DriveLevels
    <3> QED
      BY <3>1, <2>3, <1>7 DEF LastPhase
  <2> QED
    BY <2>1, <2>2, <2>3, <1>7 DEF Commands
<1> QED
  BY <1>5, <1>6, <1>8, <1>9 DEF scl

(* While SCL is high SDA stays, but for START and STOP. *)
LEMMA SdaSteady ==
  ASSUME Given, Control, Levels, Edges, Cycle, Quiet \/ Advance, phase > 1, op = "START" => phase' < 4 \/ Quiet
  PROVE  sda' = sda
<1>1. Shape /\ Types /\ Types' /\ ~core_ack
  BY Steps, Waits DEF Shape
<1>2. sda_dev' = sda_dev
  BY <1>1, KeepsSda
<1>3. sda_oen \in BOOLEAN /\ sda_oen' \in BOOLEAN /\ core_txd \in BOOLEAN /\ scl_oen \in BOOLEAN
  BY <1>1, LineTypes DEF Types, TypeOK, BitTypeOK
<1>4. /\ op = "READ" /\ phase > 1 => sda_oen
      /\ op = "WRITE" /\ phase > 1 => sda_oen = core_txd
      /\ op = "STOP" /\ phase > 1 => ~sda_oen
      /\ op = "START" /\ phase \in {2, 3} => sda_oen
  BY DEF Levels
<1>5. phase \in 0..5 /\ op \in {"NOP", "START", "STOP", "READ", "WRITE"} /\ (phase = 0 <=> op = "NOP")
  BY <1>1 DEF Shape, Commands
<1>6. sda_oen' = sda_oen
  <2>1. CASE Quiet
    BY <2>1 DEF Quiet
  <2>2. CASE Advance /\ ~Quiet
    <3>1. /\ sda_oen' = SdaOf(op, phase, core_txd) /\ phase' = phase + 1 /\ phase < LastPhase(op)
      BY <2>2 DEF Advance
    <3>2. op \in Commands
      BY <1>5 DEF Commands
    <3>3. CASE op = "START"
      <4>1. sda_oen' <=> phase < 3
        BY <3>1, <3>2, <3>3, <1>3, <1>5, DriveLevels
      <4> QED
        BY <4>1, <3>1, <3>3, <2>2, <1>3, <1>4, <1>5
    <3>4. CASE op = "STOP"
      <4>1. sda_oen' <=> phase = 4
        BY <3>1, <3>2, <3>4, <1>3, <1>5, DriveLevels
      <4> QED
        BY <4>1, <3>1, <3>4, <1>3, <1>4, <1>5 DEF LastPhase
    <3>5. CASE op = "READ"
      <4>1. sda_oen'
        BY <3>1, <3>2, <3>5, <1>3, <1>5, DriveLevels
      <4> QED
        BY <4>1, <3>5, <1>3, <1>4
    <3>6. CASE op = "WRITE"
      <4>1. sda_oen' <=> core_txd
        BY <3>1, <3>2, <3>6, <1>3, <1>5, DriveLevels
      <4> QED
        BY <4>1, <3>6, <1>3, <1>4
    <3> QED
      BY <3>3, <3>4, <3>5, <3>6, <1>5
  <2> QED
    BY <2>1, <2>2
<1> QED
  BY <1>2, <1>6 DEF sda

(* What most of the following lemmas need of a step. *)
LEMMA Cycles ==
  ASSUME Given, Control, Levels, Edges, Cycle, Control'
  PROVE  /\ Types /\ Types' /\ Shape /\ BitMove
         /\ scl \in BOOLEAN /\ sda \in BOOLEAN /\ scl' \in BOOLEAN /\ sda' \in BOOLEAN
         /\ filter_cnt \in 0..(Interval - 1) /\ filter_cnt' \in 0..(Interval - 1)
         /\ age \in Nat /\ age' \in Nat /\ Span \in Nat /\ Span >= 4
         /\ phase \in 0..5 /\ phase' \in 0..5 /\ beat \in 0..(Span - 1) /\ beat' \in 0..(Span - 1)
<1>1. Types /\ Types' /\ Shape /\ BitMove
  BY Steps
<1>2. scl \in BOOLEAN /\ sda \in BOOLEAN
  BY <1>1, LineTypes
<1>3. scl' \in BOOLEAN /\ sda' \in BOOLEAN
  <2>1. scl_oen' \in BOOLEAN /\ sda_oen' \in BOOLEAN /\ sda_dev' \in BOOLEAN
    BY <1>1 DEF Types, TypeOK, BitTypeOK
  <2> QED
    BY <2>1 DEF scl, sda
<1>4. filter_cnt \in 0..(Interval - 1) /\ filter_cnt' \in 0..(Interval - 1)
  BY <1>1 DEF Types, Interval
<1>5. age \in Nat /\ Span \in Nat /\ Span >= 4 /\ phase \in 0..5 /\ beat \in 0..(Span - 1)
  BY Ages
<1>6. age' \in Nat /\ phase' \in 0..5 /\ beat' \in 0..(Span - 1)
  <2>1. age' \in Nat
    BY <1>1, <1>5, AgeMoves DEF BitMove
  <2>2. phase' \in 0..5
    <3>1. LastPhase(op) \in 4..5
      BY DEF LastPhase
    <3> QED
      BY <3>1, <1>1, <1>5 DEF BitMove, Quiet, Rest, Begin, Advance, Finish
  <2>3. beat' \in 0..(Span - 1)
    <3>1. Prescale \in Nat /\ Span = Prescale + 1
      BY Lengths
    <3> QED
      BY <3>1, <1>1, <1>5 DEF BitMove, Quiet, Rest, Begin, Advance, Finish, Turn
  <2> QED
    BY <2>1, <2>2, <2>3
<1> QED
  BY <1>1, <1>2, <1>3, <1>4, <1>5, <1>6

(* While SCL is low its pipeline has that for as long as the command has *)
(* lasted. *)
LEMMA SclIsLowHolds ==
  ASSUME Given, Control, Levels, Edges, Control', SclIsLow, Cycle
  PROVE  SclIsLow'
<1>1. /\ Types /\ BitMove /\ scl \in BOOLEAN /\ scl' \in BOOLEAN /\ filter_cnt' \in 0..(Interval - 1)
      /\ age \in Nat
  BY Cycles
<1>2. SUFFICES ASSUME ~scl' PROVE Young(scl_pipe', fSCL', sSCL', dSCL', filter_cnt', age', FALSE)
  BY DEF SclIsLow, Scl
<1>3. CASE Rest \/ Finish
  BY <1>1, <1>3, AgeMoves, YoungZero
<1>4. CASE Quiet \/ Begin \/ Advance
  <2>1. age' = age + 1
    BY <1>4, AgeMoves
  <2>2. ~scl
    BY <1>2, <1>4, <1>1, SclMoves
  <2>3. Scl(age, FALSE) /\ scl = FALSE
    BY <2>2, <1>1 DEF SclIsLow
  <2> QED
    BY <2>1, <2>3, <1>1, SclStep
<1> QED
  BY <1>1, <1>3, <1>4 DEF BitMove

(* While it is high, since the third phase. *)
LEMMA SclIsHighHolds ==
  ASSUME Given, Control, Levels, Edges, Control', SclIsHigh, Cycle
  PROVE  SclIsHigh'
<1>1. /\ Types /\ BitMove /\ scl \in BOOLEAN /\ filter_cnt' \in 0..(Interval - 1) /\ age \in Nat
      /\ Span \in Nat /\ phase \in 0..5 /\ beat \in 0..(Span - 1)
  BY Cycles
<1>2. SUFFICES ASSUME phase' > 2
               PROVE  Young(scl_pipe', fSCL', sSCL', dSCL', filter_cnt', age' - 3 * Span, TRUE)
  BY DEF SclIsHigh, Scl, Span
<1>3. CASE Advance /\ phase = 2
  <2>1. age' - 3 * Span = 0
    <3>1. age' = age + 1 /\ beat = Span - 1 /\ age = 2 * Span + beat
      BY <1>3, Ages, AgeMoves DEF Advance
    <3> QED
      BY <3>1, <1>1
  <2> QED
    BY <2>1, <1>1, YoungZero
<1>4. CASE ~(Advance /\ phase = 2)
  <2>1. phase > 2 /\ (Quiet \/ Advance)
    BY <1>1, <1>2, <1>4 DEF BitMove, Quiet, Rest, Begin, Advance, Finish
  <2> DEFINE n == age - 3 * Span
  <2>2. n \in Nat /\ age' - 3 * Span = n + 1
    BY <2>1, <1>1, Ages, AgeMoves
  <2>3. scl = TRUE /\ Scl(n, TRUE)
    BY <2>1, <1>1, SclMoves DEF SclIsHigh
  <2> HIDE DEF n
  <2> QED
    BY <2>2, <2>3, <1>1, SclStep
<1> QED
  BY <1>3, <1>4

(* Before it rose it was low for long enough to fill the pipeline. *)
LEMMA SclRoseHolds ==
  ASSUME Given, Control, Levels, Edges, Control', SclIsLow, SclRose, Cycle
  PROVE  SclRose'
<1>1. /\ Types /\ BitMove /\ scl \in BOOLEAN /\ filter_cnt' \in 0..(Interval - 1) /\ age \in Nat
      /\ Span \in Nat /\ Span >= 4 /\ phase \in 0..5 /\ beat \in 0..(Span - 1) /\ owned \in BOOLEAN
  BY Cycles, LineTypes
<1>2. SUFFICES ASSUME phase' > 2, op' # "START" \/ (phase' = 3 /\ owned')
               PROVE  Old(scl_pipe', fSCL', sSCL', dSCL', filter_cnt', age' - 3 * Span, FALSE)
  BY DEF SclRose, Span
<1>3. op' = op /\ (Quiet \/ Advance) /\ phase > 1
  BY <1>1, <1>2 DEF BitMove, Quiet, Rest, Begin, Advance, Finish
<1>4. op = "START" => owned /\ phase < 4
  <2> SUFFICES ASSUME op = "START" PROVE owned /\ phase < 4
    OBVIOUS
  <2>1. phase < 4
    BY <1>1, <1>2, <1>3 DEF Quiet, Advance
  <2>2. ~startSeen
    BY <2>1 DEF Edges
  <2> QED
    BY <2>1, <2>2, <1>1, <1>2, <1>3, OwnedMoves DEF taken
<1>5. CASE Advance /\ phase = 2
  <2>1. age' - 3 * Span = 0 /\ age + 1 = 3 * Span
    <3>1. age' = age + 1 /\ beat = Span - 1 /\ age = 2 * Span + beat
      BY <1>5, Ages, AgeMoves DEF Advance
    <3> QED
      BY <3>1, <1>1
  <2>2. scl = FALSE
    BY <1>1, <1>4, <1>5, SclMoves
  <2>3. Young(scl_pipe', fSCL', sSCL', dSCL', filter_cnt', age + 1, FALSE)
    BY <2>2, <1>1, SclStep DEF SclIsLow
  <2>4. AllAt(scl_pipe', fSCL', sSCL', dSCL', FALSE)
    <3>1. age + 1 \in Nat /\ age + 1 >= 2 * Span
      BY <2>1, <1>1
    <3> QED
      BY <3>1, <2>3, <1>1, YoungAll
  <2> QED
    BY <2>4, AllOld
<1>6. CASE ~(Advance /\ phase = 2)
  <2>1. phase > 2
    BY <1>1, <1>2, <1>3, <1>6 DEF Quiet
  <2>2. op # "START" \/ (phase = 3 /\ owned)
    BY <2>1, <1>1, <1>4
  <2> DEFINE n == age - 3 * Span
  <2>3. n \in Nat /\ age' - 3 * Span = n + 1
    BY <2>1, <1>1, <1>3, Ages, AgeMoves
  <2>4. Old(scl_pipe, fSCL, sSCL, dSCL, filter_cnt, n, FALSE)
    BY <2>1, <2>2 DEF SclRose
  <2> HIDE DEF n
  <2> QED
    BY <2>3, <2>4, <1>1, SclStep
<1> QED
  BY <1>5, <1>6

(* SDA has its level since the second phase. *)
LEMMA SdaIsSetHolds ==
  ASSUME Given, Control, Levels, Edges, Control', SdaIsSet, Cycle
  PROVE  SdaIsSet'
<1>1. /\ Types /\ BitMove /\ sda \in BOOLEAN /\ filter_cnt' \in 0..(Interval - 1) /\ age \in Nat
      /\ Span \in Nat /\ phase \in 0..5 /\ beat \in 0..(Span - 1)
  BY Cycles
<1>2. SUFFICES ASSUME phase' > 1, op' = "START" => phase' < 4
               PROVE  Young(sda_pipe', fSDA', sSDA', dSDA', filter_cnt', age' - 2 * Span, sda')
  BY DEF SdaIsSet, Sda, Span
<1>3. op' = op /\ (Quiet \/ Advance) /\ phase > 0
  BY <1>1, <1>2 DEF BitMove, Quiet, Rest, Begin, Advance, Finish
<1>4. CASE Advance /\ phase = 1
  <2>1. age' - 2 * Span = 0
    <3>1. age' = age + 1 /\ beat = Span - 1 /\ age = Span + beat
      BY <1>4, Ages, AgeMoves DEF Advance
    <3> QED
      BY <3>1, <1>1
  <2> QED
    BY <2>1, <1>1, YoungZero
<1>5. CASE ~(Advance /\ phase = 1)
  <2>1. phase > 1 /\ (op = "START" => phase < 4)
    BY <1>1, <1>2, <1>3, <1>5 DEF Quiet, Advance
  <2> DEFINE n == age - 2 * Span
  <2>2. n \in Nat /\ age' - 2 * Span = n + 1
    BY <2>1, <1>1, <1>3, Ages, AgeMoves
  <2>3. Sda(n, sda)
    BY <2>1 DEF SdaIsSet
  <2>4. sda' = sda
    BY <2>1, <1>2, <1>3, SdaSteady
  <2> HIDE DEF n
  <2> QED
    BY <2>2, <2>3, <2>4, <1>1, SdaStep
<1> QED
  BY <1>4, <1>5

(* While SCL is low, what is left of its high level goes through the two      *)
(* pipelines side by side with what SDA then was.                            *)
LEMMA FallingStep ==
  ASSUME Given, NEW count \in 0..(Interval - 1), NEW count2,
         NEW p, NEW f, NEW s, NEW d, Stages(p, f, s, d, count), NEW p2, NEW f2, NEW s2, NEW d2,
         NEW x \in BOOLEAN, ~x, Piped(p, f, s, count, x, p2, f2, s2, d2, count2), Falling(p, f, s, d)
  PROVE  Falling(p2, f2, s2, d2)
<1>1. /\ ~p2[1] /\ \A i \in Pin : i > 1 => i - 1 \in Pin /\ p2[i] = p[i - 1]
      /\ count = 0 => f2[1] = p[Sync] /\ f2[2] = f[1] /\ f2[3] = f[2]
      /\ count # 0 => f2 = f
      /\ s2 = Majority(f) /\ d2 = s
      /\ 1 \in Pin /\ Sync \in Pin /\ Pin = 1..Sync /\ Sync \in Nat
      /\ {f[1], f[2], f[3]} \subseteq BOOLEAN /\ \A i \in Pin : p[i] \in BOOLEAN
      /\ s \in BOOLEAN
  BY PipeMoves DEF Stages
<1>2. /\ \A i \in Pin : i < Sync => (p[i] => p[i + 1])
      /\ p[Sync] => f[1]
      /\ f[1] => f[2]
      /\ f[2] => f[1] \/ f[3]
      /\ Majority(f) => s
      /\ s => d
  BY DEF Falling
<1>3. \A i \in Pin : i < Sync => (p2[i] => p2[i + 1])
  <2> SUFFICES ASSUME NEW i \in Pin, i < Sync, p2[i] PROVE p2[i + 1]
    OBVIOUS
  <2>1. i > 1
    BY <1>1
  <2>2. i + 1 \in Pin /\ i - 1 \in Pin /\ p2[i] = p[i - 1] /\ p2[i + 1] = p[i] /\ (i - 1) + 1 = i /\ i - 1 < Sync
    <3>1. i + 1 \in Pin /\ i + 1 > 1 /\ (i + 1) - 1 = i /\ (i - 1) + 1 = i /\ i - 1 < Sync
      BY <2>1, <1>1
    <3> QED
      BY <3>1, <2>1, <1>1
  <2> QED
    BY <2>2, <1>2
<1>4. p2[Sync] => p[Sync]
  <2>1. CASE Sync = 1
    BY <2>1, <1>1
  <2>2. CASE Sync # 1
    <3>1. Sync > 1 /\ Sync - 1 \in Pin /\ p2[Sync] = p[Sync - 1] /\ (Sync - 1) + 1 = Sync /\ Sync - 1 < Sync
      BY <2>2, <1>1
    <3> QED
      BY <3>1, <1>2
  <2> QED
    BY <2>1, <2>2
<1>5. CASE count = 0
  BY <1>1, <1>2, <1>3, <1>4, <1>5 DEF Falling, Majority
<1>6. CASE count # 0
  <2>1. p2[Sync] => f2[1]
    BY <1>1, <1>2, <1>4, <1>6
  <2> QED
    BY <2>1, <1>1, <1>2, <1>3, <1>6 DEF Falling
<1> QED
  BY <1>5, <1>6

(* The filter sees SCL high only together with the SDA of that time. *)
LEMMA PairStep ==
  ASSUME Given, NEW count \in 0..(Interval - 1), NEW count2, NEW v \in BOOLEAN, NEW y \in BOOLEAN,
         NEW p, NEW f, NEW s, NEW d, Stages(p, f, s, d, count), NEW p2, NEW f2, NEW s2, NEW d2,
         NEW q, NEW g, NEW t, NEW e, Stages(q, g, t, e, count), NEW q2, NEW g2, NEW t2, NEW e2,
         NEW x \in BOOLEAN, ~x,
         Piped(p, f, s, count, x, p2, f2, s2, d2, count2), Piped(q, g, t, count, y, q2, g2, t2, e2, count2),
         Falling(p, f, s, d), Pair(p, f, s, q, g, t, e, v)
  PROVE  Pair(p2, f2, s2, q2, g2, t2, e2, v)
<1>a. p \in [Pin -> BOOLEAN] /\ f \in [1..3 -> BOOLEAN] /\ s \in BOOLEAN /\ d \in BOOLEAN
  BY DEF Stages
<1>b. Piped(p, f, s, count, x, p2, f2, s2, d2, count2)
  OBVIOUS
<1>1. /\ p2[1] = x /\ \A i \in Pin : i > 1 => i - 1 \in Pin /\ p2[i] = p[i - 1]
      /\ count = 0 => f2[1] = p[Sync] /\ f2[2] = f[1] /\ f2[3] = f[2]
      /\ count # 0 => f2 = f
      /\ s2 = Majority(f)
      /\ 1 \in Pin /\ Sync \in Pin /\ Pin = 1..Sync /\ Sync \in Nat
      /\ {f[1], f[2], f[3]} \subseteq BOOLEAN
  BY ONLY <1>a, <1>b, PipeMoves, Given, count \in 0..(Interval - 1), x \in BOOLEAN
<1>2. /\ \A i \in Pin : i > 1 => q2[i] = q[i - 1]
      /\ count = 0 => g2[1] = q[Sync] /\ g2[2] = g[1] /\ g2[3] = g[2]
      /\ count # 0 => g2 = g
      /\ t2 = Majority(g) /\ e2 = t
      /\ {g[1], g[2], g[3]} \subseteq BOOLEAN
  BY PipeMoves DEF Stages
<1>3. /\ \A i \in Pin : p[i] => q[i] = v
      /\ f[1] => g[1] = v
      /\ f[2] => g[2] = v
      /\ f[3] => g[3] = v
      /\ s => t = v /\ e = v
      /\ Majority(f) => s
  BY DEF Pair, Falling
<1>4. \A i \in Pin : p2[i] => q2[i] = v
  <2> SUFFICES ASSUME NEW i \in Pin, p2[i] PROVE q2[i] = v
    OBVIOUS
  <2>1. i > 1
    BY <1>1
  <2> QED
    BY <2>1, <1>1, <1>2, <1>3
<1>5. (f2[1] => g2[1] = v) /\ (f2[2] => g2[2] = v) /\ (f2[3] => g2[3] = v)
  <2>1. CASE count = 0
    BY <2>1, <1>1, <1>2, <1>3
  <2>2. CASE count # 0
    BY <2>2, <1>1, <1>2, <1>3
  <2> QED
    BY <2>1, <2>2
<1>6. s2 => t2 = v /\ e2 = v
  <2> SUFFICES ASSUME Majority(f) PROVE t2 = v /\ e2 = v
    BY <1>1
  <2>1. e2 = v
    BY <1>2, <1>3
  <2>2. \/ g[1] = v /\ g[2] = v
        \/ g[2] = v /\ g[3] = v
        \/ g[1] = v /\ g[3] = v
    BY <1>3 DEF Majority
  <2>3. Majority(g) = v
    <3>1. CASE v = TRUE
      BY <2>2, <1>2, <3>1 DEF Majority
    <3>2. CASE v = FALSE
      BY <2>2, <1>2, <3>2 DEF Majority
    <3> QED
      BY <3>1, <3>2
  <2> QED
    BY <2>1, <2>3, <1>2
<1>7. \A k \in 1..3 : f2[k] => g2[k] = v
  BY <1>5
<1> QED
  BY <1>4, <1>6, <1>7 DEF Pair

(* When SCL begins to fall that holds. *)
LEMMA FallingStarts ==
  ASSUME Given, NEW p, NEW f, NEW s, NEW d, NEW q, NEW g, NEW t, NEW e, NEW v,
         AllAt(p, f, s, d, TRUE), AllAt(q, g, t, e, v)
  PROVE  Falling(p, f, s, d) /\ Pair(p, f, s, q, g, t, e, v)
<1>1. Sync \in 1..4 /\ Pin = 1..Sync
  BY Lengths DEF Pin
<1>2. \A i \in Pin : i < Sync => i + 1 \in Pin
  BY <1>1
<1> QED
  BY <1>1, <1>2 DEF AllAt, Falling, Pair

(* Before a phase ends in which SCL was up, the filter holds both lines.      *)
LEMMA BitEnds ==
  ASSUME Given, Control, Levels, Edges, Control', SclIsHigh, SdaIsSet, StartGoes, Cycle,
         Finish
  PROVE  /\ AllAt(scl_pipe', fSCL', sSCL', dSCL', TRUE)
         /\ AllAt(sda_pipe', fSDA', sSDA', dSDA', sda)
<1>1. /\ Types /\ scl \in BOOLEAN /\ sda \in BOOLEAN /\ filter_cnt' \in 0..(Interval - 1) /\ age \in Nat
      /\ Span \in Nat /\ Span >= 4 /\ phase \in 0..5 /\ beat \in 0..(Span - 1)
  BY Cycles
<1>2. /\ phase \in {4, 5} /\ (op = "START" <=> phase = 5) /\ beat = Span - 1
  BY AgeMoves DEF Finish, LastPhase
<1>3. /\ phase = 4 => age = 4 * Span + beat
      /\ phase = 5 => age = 5 * Span + beat
  BY Ages
<1>4. AllAt(scl_pipe', fSCL', sSCL', dSCL', TRUE)
  <2> DEFINE n == age - 3 * Span
  <2>1. n \in Nat /\ n + 1 \in Nat /\ n + 1 >= 2 * Span
    BY <1>1, <1>2, <1>3
  <2>2. scl = TRUE /\ Scl(n, TRUE)
    <3>1. phase > 2
      BY <1>2
    <3>2. scl
      BY <3>1, SclMoves
    <3> QED
      BY <3>1, <3>2, <1>1 DEF SclIsHigh
  <2> HIDE DEF n
  <2>3. Young(scl_pipe', fSCL', sSCL', dSCL', filter_cnt', n + 1, TRUE)
    BY <2>1, <2>2, <1>1, SclStep
  <2> QED
    BY <2>1, <2>3, <1>1, YoungAll
<1>5. CASE phase = 4
  <2> DEFINE n == age - 2 * Span
  <2>1. n \in Nat /\ n + 1 \in Nat /\ n + 1 >= 2 * Span
    BY <1>1, <1>2, <1>3, <1>5
  <2>2. Sda(n, sda)
    BY <1>2, <1>5 DEF SdaIsSet
  <2> HIDE DEF n
  <2>3. Young(sda_pipe', fSDA', sSDA', dSDA', filter_cnt', n + 1, sda)
    BY <2>1, <2>2, <1>1, SdaStep
  <2> QED
    BY <2>1, <2>3, <1>1, <1>4, YoungAll
<1>6. CASE phase = 5
  <2> DEFINE n == age - 4 * Span
  <2>1. n \in Nat /\ n + 1 \in Nat /\ n + 1 >= 2 * Span
    BY <1>1, <1>2, <1>3, <1>6
  <2>2. Sda(n, FALSE) /\ sda = FALSE
    <3>1. Sda(n, FALSE)
      <4>1. op = "START" /\ phase > 3
        BY <1>2, <1>6
      <4>2. Sda(down, FALSE)
        BY <4>1 DEF StartGoes
      <4> QED
        BY <4>2 DEF down
    <3>2. ~sda
      BY <1>2, <1>6 DEF Levels, sda
    <3> QED
      BY <3>1, <3>2, <1>1
  <2> HIDE DEF n
  <2>3. Young(sda_pipe', fSDA', sSDA', dSDA', filter_cnt', n + 1, sda)
    BY <2>1, <2>2, <1>1, SdaStep
  <2> QED
    BY <2>1, <2>3, <1>1, <1>4, YoungAll
<1> QED
  BY <1>2, <1>5, <1>6

(* While SCL falls the filter can take nothing for START or STOP. *)
LEMMA SclFallsHolds ==
  ASSUME Given, Control, Levels, Edges, Control', SclIsHigh, SdaIsSet, StartGoes, SclFalls, Cycle
  PROVE  SclFalls'
<1>1. /\ Types /\ BitMove /\ scl \in BOOLEAN /\ sda \in BOOLEAN /\ scl' \in BOOLEAN /\ filter_cnt \in 0..(Interval - 1)
  BY Cycles
<1>2. SUFFICES ASSUME ~scl'
               PROVE  \E v \in BOOLEAN :
                        /\ Falling(scl_pipe', fSCL', sSCL', dSCL')
                        /\ Pair(scl_pipe', fSCL', sSCL', sda_pipe', fSDA', sSDA', dSDA', v)
  BY DEF SclFalls
<1>3. CASE Finish
  <2>1. /\ AllAt(scl_pipe', fSCL', sSCL', dSCL', TRUE)
        /\ AllAt(sda_pipe', fSDA', sSDA', dSDA', sda)
    BY <1>3, BitEnds
  <2> QED
    BY <2>1, <1>1, FallingStarts
<1>4. CASE Quiet \/ Rest \/ Begin \/ Advance
  <2>1. ~scl
    BY <1>2, <1>4, <1>1, SclMoves
  <2>2. PICK v \in BOOLEAN :
          /\ Falling(scl_pipe, fSCL, sSCL, dSCL)
          /\ Pair(scl_pipe, fSCL, sSCL, sda_pipe, fSDA, sSDA, dSDA, v)
    BY <2>1 DEF SclFalls
  <2>3. /\ Stages(scl_pipe, fSCL, sSCL, dSCL, filter_cnt) /\ Stages(sda_pipe, fSDA, sSDA, dSDA, filter_cnt)
        /\ Piped(scl_pipe, fSCL, sSCL, filter_cnt, scl, scl_pipe', fSCL', sSCL', dSCL', filter_cnt')
        /\ Piped(sda_pipe, fSDA, sSDA, filter_cnt, sda, sda_pipe', fSDA', sSDA', dSDA', filter_cnt')
    BY <1>1, Pipes
  <2>4. Falling(scl_pipe', fSCL', sSCL', dSCL')
    BY <2>1, <2>2, <2>3, <1>1, FallingStep
  <2>5. Pair(scl_pipe', fSCL', sSCL', sda_pipe', fSDA', sSDA', dSDA', v)
    BY <2>1, <2>2, <2>3, <1>1, PairStep
  <2> QED
    BY <2>4, <2>5
<1> QED
  BY <1>1, <1>3, <1>4 DEF BitMove

-----------------------------------------------------------------------------
(* START, STOP and the busy bit. *)

(* How long the lines have been still. *)
StillMove == still' = CASE scl # scl_r \/ sda # sda_r -> 0
                        [] ~(scl # scl_r \/ sda # sda_r) /\ still < Settled -> still + 1
                        [] OTHER -> still

(* The count of cycles without a move. *)
LEMMA StillMoves ==
  ASSUME Given, Types, Cycle
  PROVE  /\ StillMove /\ still \in Nat /\ still' \in Nat /\ Settled \in Nat /\ Settled = seen + 3
         /\ still <= Settled /\ still' <= still + 1 /\ seen \in Nat
         /\ seen = Sync + 2 * Interval + 1 /\ seen + 1 <= 2 * Span
         /\ Sync \in 1..4 /\ Interval \in Nat /\ Interval >= 1 /\ Interval < Span
<1>1. /\ Sync \in 1..4 /\ Interval \in Nat /\ Interval >= 1 /\ Interval < Span /\ Prescale \div 4 = Interval - 1
      /\ Sync + 2 * Interval + 2 <= 2 * Span /\ Span \in Nat
  BY Lengths
<1>2. seen = Sync + 2 * Interval + 1 /\ Settled = Sync + 2 * Interval + 4
  BY <1>1 DEF seen, Settled
<1>3. still \in 0..Settled
  BY DEF Types, TypeOK
<1>4. StillMove
  BY DEF Cycle, Observe, StillMove
<1>5. still \in Nat /\ still <= Settled /\ Settled \in Nat /\ Settled = seen + 3 /\ seen \in Nat /\ seen + 1 <= 2 * Span
  BY <1>1, <1>2, <1>3
<1>6. still' \in Nat /\ still' <= still + 1
  <2>1. CASE scl # scl_r \/ sda # sda_r
    BY <2>1, <1>4, <1>5 DEF StillMove
  <2>2. CASE ~(scl # scl_r \/ sda # sda_r) /\ still < Settled
    BY <2>2, <1>4, <1>5 DEF StillMove
  <2>3. CASE ~(scl # scl_r \/ sda # sda_r) /\ ~(still < Settled)
    BY <2>3, <1>4, <1>5 DEF StillMove
  <2> QED
    BY <2>1, <2>2, <2>3
<1> QED
  BY <1>1, <1>2, <1>4, <1>5, <1>6

(* START begins with what the last phase before it has left in the pipeline. *)
LEMMA StartBegins ==
  ASSUME Given, IInv, Control', Cycle, Advance, op = "START", phase = 3
  PROVE  /\ age' - 4 * Span = 0
         /\ AllAt(sda_pipe', fSDA', sSDA', dSDA', TRUE)
         /\ ~sto_condition' /\ busy' = owned'
<1>1. Control /\ Levels /\ Edges /\ Drives /\ Roles /\ SclRose /\ SdaIsSet /\ BusFree /\ BusTaken /\ LinesStill
  BY DEF IInv, Follows, Lines, Filters
<1>2. /\ Types /\ Shape /\ scl \in BOOLEAN /\ sda \in BOOLEAN /\ filter_cnt' \in 0..(Interval - 1) /\ age \in Nat
      /\ Span \in Nat /\ Span >= 4 /\ beat \in 0..(Span - 1)
  BY <1>1, Cycles
<1>3. /\ beat = Span - 1 /\ age = 3 * Span + beat /\ age' = age + 1
  BY <1>1, Ages, AgeMoves DEF Advance
<1>4. /\ StillMove /\ still \in Nat /\ Settled = seen + 3 /\ seen \in Nat
      /\ seen = Sync + 2 * Interval + 1 /\ seen + 1 <= 2 * Span
      /\ Sync \in 1..4 /\ Interval \in Nat /\ Interval >= 1 /\ Interval < Span
  BY <1>2, StillMoves
<1>5. sda = TRUE
  <2>1. c_state = "START"
    BY <1>2 DEF Shape
  <2>2. sda_oen /\ sda_dev
    BY <1>1, <2>1, LeavesStart DEF Levels
  <2> QED
    BY <2>2, <1>2 DEF sda
<1>6. Sda(2 * Span - 1, TRUE)
  <2>1. age - 2 * Span = 2 * Span - 1
    BY <1>2, <1>3
  <2>2. Sda(age - 2 * Span, sda)
    BY <1>1 DEF SdaIsSet
  <2> QED
    BY <2>1, <2>2, <1>5
<1>7. AllAt(sda_pipe', fSDA', sSDA', dSDA', TRUE)
  <2> DEFINE n == 2 * Span - 1
  <2>1. n \in Nat /\ n + 1 \in Nat /\ n + 1 >= 2 * Span
    BY <1>2
  <2>2. Sda(n, TRUE)
    BY <1>6
  <2> HIDE DEF n
  <2>3. Young(sda_pipe', fSDA', sSDA', dSDA', filter_cnt', n + 1, TRUE)
    BY <2>1, <2>2, <1>2, <1>5, SdaStep
  <2> QED
    BY <2>1, <2>3, <1>2, YoungAll
<1>8. /\ ~startSeen /\ ~stopSeen /\ owned \in BOOLEAN /\ owned' = owned /\ (taken <=> owned)
      /\ sda_r = sda
  <2>1. ~startSeen
    BY <1>1 DEF Edges
  <2>2. ~stopSeen
    BY <1>1 DEF Edges, Control, Obeys
  <2>3. sda_r = sda
    BY <1>1, <1>2, <1>3 DEF Edges
  <2> QED
    BY <2>1, <2>2, <2>3, <1>2, OwnedMoves, LineTypes DEF taken
<1>9. ~owned => still > seen
  <2> SUFFICES ASSUME ~owned PROVE still > seen
    OBVIOUS
  <2>1. still = Settled \/ still >= age - Span
    BY <1>1, <1>8 DEF BusFree
  <2> QED
    BY <2>1, <1>2, <1>3, <1>4
<1>10. ~sto_condition'
  <2>1. sto_condition' = StopSeen
    BY <1>2, Pipes
  <2>2. CASE ~owned
    <3>1. dSDA = sda_r
      <4>1. still + 1 > seen
        BY <2>2, <1>4, <1>9
      <4> QED
        BY <4>1, <1>1 DEF LinesStill, Sda, Young
    <3> QED
      BY <3>1, <2>1, <1>5, <1>8 DEF StopSeen
  <2>3. CASE owned /\ 2 * Span - 1 > seen
    <3>1. dSDA = TRUE
      BY <2>3, <1>6 DEF Sda, Young
    <3> QED
      BY <3>1, <2>1 DEF StopSeen
  <2>4. CASE owned /\ ~(2 * Span - 1 > seen)
    <3>1. age - 3 * Span < Sync + Interval + 2
      BY <2>4, <1>2, <1>3, <1>4
    <3>2. sSCL = FALSE
      BY <3>1, <2>4, <1>1 DEF SclRose, Old
    <3> QED
      BY <3>2, <2>1 DEF StopSeen
  <2> QED
    BY <2>2, <2>3, <2>4
<1>11. busy' = owned'
  <2>1. busy' = ((sta_condition \/ busy) /\ ~sto_condition)
    BY <1>2, Pipes
  <2>2. CASE owned
    <3>1. ~sto_condition /\ (busy \/ sta_condition)
      BY <2>2, <1>1, <1>8 DEF BusTaken
    <3> QED
      BY <3>1, <2>1, <2>2, <1>8
  <2>3. CASE ~owned
    <3>1. ~sta_condition /\ ~busy
      BY <2>3, <1>1, <1>8, <1>9 DEF BusFree
    <3> QED
      BY <3>1, <2>1, <2>3, <1>8
  <2> QED
    BY <2>2, <2>3
<1>12. age' - 4 * Span = 0
  BY <1>2, <1>3
<1> QED
  BY <1>7, <1>10, <1>11, <1>12

(* What the filter holds of a falling SDA comes from one edge. *)
LEMMA EdgePasses ==
  ASSUME Given, NEW count \in 0..(Interval - 1), NEW count2, NEW n \in Nat, NEW x \in BOOLEAN,
         NEW p, NEW f, NEW s, NEW d, Stages(p, f, s, d, count), NEW p2, NEW f2, NEW s2, NEW d2,
         Piped(p, f, s, count, x, p2, f2, s2, d2, count2),
         Young(p, f, s, d, count, n, FALSE), Old(p, f, s, d, count, n, TRUE)
  PROVE  Majority(f2) => Majority(f)
<1>a. p \in [Pin -> BOOLEAN] /\ f \in [1..3 -> BOOLEAN] /\ s \in BOOLEAN /\ d \in BOOLEAN
  BY DEF Stages
<1>b. Piped(p, f, s, count, x, p2, f2, s2, d2, count2)
  OBVIOUS
<1>1. /\ count = 0 => f2[1] = p[Sync] /\ f2[2] = f[1] /\ f2[3] = f[2]
      /\ count # 0 => f2 = f
      /\ s2 = Majority(f) /\ d2 = s
      /\ 1 \in Pin /\ Sync \in Pin /\ Pin = 1..Sync /\ Sync \in Nat
      /\ {f[1], f[2], f[3]} \subseteq BOOLEAN /\ \A i \in Pin : p[i] \in BOOLEAN
  BY <1>a, <1>b, PipeMoves
<1>2. CASE count = 0
  <2>1. LagOf(count) = Sync + Interval /\ Interval \in Nat
    BY <1>2, LagMoves, Lengths
  <2> DEFINE l == LagOf(count)
  <2>2. /\ l <= n => ~f[1]
        /\ l + Interval <= n => ~f[2]
        /\ Sync <= n => ~p[Sync]
    BY <1>1 DEF Young
  <2>3. /\ l > n => f[1]
        /\ l + Interval > n => f[2]
    BY DEF Old
  <2>4. l = Sync + Interval
    BY <2>1
  <2> HIDE DEF l
  <2>5. p[Sync] => f[1]
    <3>1. Sync <= n \/ l > n
      BY <2>1, <2>4, <1>1
    <3> QED
      BY <3>1, <2>2, <2>3
  <2>6. f[1] => f[2]
    <3>1. l <= n \/ l + Interval > n
      BY <2>1, <2>4, <1>1
    <3> QED
      BY <3>1, <2>2, <2>3
  <2> QED
    BY <2>5, <2>6, <1>1, <1>2 DEF Majority
<1>3. CASE count # 0
  BY <1>1, <1>3
<1> QED
  BY <1>2, <1>3

(* START goes through the filter and sets the busy bit, and nothing else *)
(* does. *)
LEMMA StartGoesHolds ==
  ASSUME Given, IInv, Control', Cycle
  PROVE  StartGoes'
<1>1. Control /\ Levels /\ Edges /\ SclIsHigh /\ StartGoes
  BY DEF IInv, Lines, Filters
<1>2. /\ Types /\ Types' /\ Shape /\ BitMove /\ sda \in BOOLEAN /\ filter_cnt \in 0..(Interval - 1) /\ filter_cnt' \in 0..(Interval - 1)
      /\ age \in Nat /\ age' \in Nat /\ Span \in Nat /\ Span >= 4 /\ phase \in 0..5 /\ beat \in 0..(Span - 1)
  BY <1>1, Cycles
<1> DEFINE now == age - 4 * Span
           next == age' - 4 * Span
<1>3. SUFFICES ASSUME op' = "START" /\ phase' > 3
               PROVE  /\ Young(sda_pipe', fSDA', sSDA', dSDA', filter_cnt', next, FALSE)
                      /\ Old(sda_pipe', fSDA', sSDA', dSDA', filter_cnt', next, TRUE)
                      /\ Majority(fSDA') => sSDA'
                      /\ sSDA' => dSDA'
                      /\ ~sto_condition'
                      /\ ~dSDA' => sta_condition' \/ busy'
                      /\ next > seen + 1 => busy'
                      /\ next > 0 => still' < next
                      /\ next = 0 => busy' = owned'
  BY DEF StartGoes, Sda, down, Span, seen, Interval
<1>4. op = "START" /\ (Quiet \/ Advance) /\ phase > 2
  BY <1>2, <1>3 DEF BitMove, Quiet, Rest, Begin, Advance, Finish
<1>5. /\ StillMove /\ still \in Nat /\ still' \in Nat /\ still' <= still + 1 /\ seen \in Nat
      /\ seen = Sync + 2 * Interval + 1 /\ seen + 1 <= 2 * Span
      /\ Sync \in 1..4 /\ Interval \in Nat /\ Interval >= 1 /\ Interval < Span
  BY <1>2, StillMoves
<1>6. CASE Advance /\ phase = 3
  <2>1. next = 0 /\ AllAt(sda_pipe', fSDA', sSDA', dSDA', TRUE) /\ ~sto_condition' /\ busy' = owned'
    BY <1>4, <1>6, StartBegins
  <2>2. Young(sda_pipe', fSDA', sSDA', dSDA', filter_cnt', next, FALSE)
    BY <2>1, <1>2, YoungZero
  <2>3. Old(sda_pipe', fSDA', sSDA', dSDA', filter_cnt', next, TRUE)
    BY <2>1, AllOld
  <2>4. sSDA' /\ dSDA'
    BY <2>1 DEF AllAt
  <2>5. ~(next > seen + 1) /\ ~(next > 0)
    BY <2>1, <1>5
  <2> QED
    BY <2>1, <2>2, <2>3, <2>4, <2>5
<1>7. CASE ~(Advance /\ phase = 3)
  <2>1. phase > 3
    BY <1>2, <1>3, <1>4, <1>7 DEF Quiet
  <2>2. now \in Nat /\ next = now + 1
    <3>1. age' = age + 1
      BY <1>1, <1>4, AgeMoves
    <3>2. age - 4 * Span \in Nat
      BY <2>1, <1>1, Ages
    <3> QED
      BY <3>1, <3>2, <1>2
  <2>3. /\ Sda(now, FALSE)
        /\ Old(sda_pipe, fSDA, sSDA, dSDA, filter_cnt, now, TRUE)
        /\ Majority(fSDA) => sSDA
        /\ sSDA => dSDA
        /\ ~sto_condition
        /\ ~dSDA => sta_condition \/ busy
        /\ now > 0 => still < now
    BY <2>1, <1>1, <1>4 DEF StartGoes, down
  <2> HIDE DEF now, next
  <2>4. sda = FALSE
    BY <2>1, <1>1, <1>2, <1>4 DEF Levels, sda
  <2>5. Young(sda_pipe', fSDA', sSDA', dSDA', filter_cnt', next, FALSE)
    BY <2>2, <2>3, <2>4, <1>2, SdaStep
  <2>6. Old(sda_pipe', fSDA', sSDA', dSDA', filter_cnt', next, TRUE)
    BY <2>2, <2>3, <1>2, SdaStep
  <2>7. /\ Stages(sda_pipe, fSDA, sSDA, dSDA, filter_cnt)
        /\ Piped(sda_pipe, fSDA, sSDA, filter_cnt, sda, sda_pipe', fSDA', sSDA', dSDA', filter_cnt')
        /\ sta_condition' = StartSeen /\ sto_condition' = StopSeen
        /\ busy' = ((sta_condition \/ busy) /\ ~sto_condition)
    BY <1>2, Pipes
  <2>8. sSDA' = Majority(fSDA) /\ dSDA' = sSDA
    BY <2>7 DEF Piped
  <2>9. Majority(fSDA') => sSDA'
    <3>1. Young(sda_pipe, fSDA, sSDA, dSDA, filter_cnt, now, FALSE)
      BY <2>3 DEF Sda
    <3>2. Old(sda_pipe, fSDA, sSDA, dSDA, filter_cnt, now, TRUE) /\ (Majority(fSDA) => sSDA)
      BY <2>3
    <3> QED
      <4>1. Majority(fSDA') => Majority(fSDA)
        BY ONLY <3>1, <3>2, <2>2, <2>7, <1>2, EdgePasses, Given
      <4> QED
        BY <4>1, <2>8
  <2>10. sSDA' => dSDA'
    BY <2>3, <2>8
  <2>11. ~sto_condition'
    BY <2>3, <2>7 DEF StopSeen
  <2>12. ~sSDA => sSCL
    <3> SUFFICES ASSUME ~sSDA PROVE sSCL
      OBVIOUS
    <3>1. ~(now < Sync + Interval + 2)
      BY <2>3 DEF Old
    <3>2. age - 3 * Span >= seen
      BY <3>1, <2>2, <1>2, <1>5 DEF now
    <3>3. Scl(age - 3 * Span, TRUE)
      <4>1. phase > 2
        BY <2>1, <1>2
      <4> QED
        BY <4>1, <1>1 DEF SclIsHigh
    <3> QED
      BY <3>2, <3>3 DEF Scl, Young
  <2>13. ~dSDA' => sta_condition' \/ busy'
    BY <2>3, <2>7, <2>8, <2>12 DEF StartSeen
  <2>14. next > seen + 1 => busy'
    <3> SUFFICES ASSUME next > seen + 1 PROVE busy'
      OBVIOUS
    <3>1. now > seen
      BY <2>2, <1>5
    <3>2. dSDA = FALSE
      BY <3>1, <2>3 DEF Sda, Young
    <3> QED
      BY <3>2, <2>3, <2>7
  <2>15. still' < next
    <3>1. CASE now = 0
      <4>1. phase = 4 /\ beat = 0
        <5>1. /\ phase \in {4, 5}
              /\ phase = 4 => age = 4 * Span + beat
              /\ phase = 5 => age = 5 * Span + beat
          BY <2>1, <1>1, <1>2, Ages
        <5> QED
          BY <5>1, <3>1, <1>2 DEF now
      <4>2. startSeen
        BY <4>1, <1>1, <1>4 DEF Edges
      <4>3. sda # sda_r
        BY <4>2 DEF startSeen
      <4> QED
        BY <4>3, <3>1, <2>2, <1>5 DEF StillMove
    <3>2. CASE now # 0
      BY <3>2, <2>2, <2>3, <1>5
    <3> QED
      BY <3>1, <3>2
  <2>16. next # 0
    BY <2>2
  <2> QED
    BY <2>5, <2>6, <2>9, <2>10, <2>11, <2>13, <2>14, <2>15, <2>16
<1> QED
  BY <1>6, <1>7

(* A line that keeps its level, and one that has risen. *)
LEMMA AllStep ==
  ASSUME Given, NEW count \in 0..(Interval - 1), NEW count2, NEW v \in BOOLEAN,
         NEW p, NEW f, NEW s, NEW d, Stages(p, f, s, d, count), NEW p2, NEW f2, NEW s2, NEW d2,
         Piped(p, f, s, count, v, p2, f2, s2, d2, count2), AllAt(p, f, s, d, v)
  PROVE  AllAt(p2, f2, s2, d2, v)
<1>a. p \in [Pin -> BOOLEAN] /\ f \in [1..3 -> BOOLEAN] /\ s \in BOOLEAN /\ d \in BOOLEAN
  BY DEF Stages
<1>1. /\ p2[1] = v /\ \A i \in Pin : i > 1 => i - 1 \in Pin /\ p2[i] = p[i - 1]
      /\ count = 0 => f2[1] = p[Sync] /\ f2[2] = f[1] /\ f2[3] = f[2]
      /\ count # 0 => f2 = f
      /\ s2 = Majority(f) /\ d2 = s
      /\ 1 \in Pin /\ Sync \in Pin /\ Pin = 1..Sync /\ Sync \in Nat
  BY <1>a, PipeMoves
<1>2. /\ \A i \in Pin : p[i] = v
      /\ f[1] = v /\ f[2] = v /\ f[3] = v
      /\ s = v
  BY DEF AllAt
<1>3. \A i \in Pin : p2[i] = v
  <2> SUFFICES ASSUME NEW i \in Pin PROVE p2[i] = v
    OBVIOUS
  <2>1. i = 1 \/ i > 1
    BY <1>1
  <2> QED
    BY <2>1, <1>1, <1>2
<1>4. f2[1] = v /\ f2[2] = v /\ f2[3] = v
  BY <1>1, <1>2
<1>5. s2 = v
  BY <1>1, <1>2 DEF Majority
<1>6. \A k \in 1..3 : f2[k] = v
  BY <1>4
<1> QED
  BY <1>1, <1>2, <1>3, <1>5, <1>6 DEF AllAt

(* While both lines are high SDA only rises in the pipeline. *)
LEMMA RisingStep ==
  ASSUME Given, NEW count \in 0..(Interval - 1), NEW count2, NEW x \in BOOLEAN, x,
         NEW p, NEW f, NEW s, NEW d, Stages(p, f, s, d, count), NEW p2, NEW f2, NEW s2, NEW d2,
         Piped(p, f, s, count, x, p2, f2, s2, d2, count2), Rising(p, f, s, d)
  PROVE  Rising(p2, f2, s2, d2)
<1>a. p \in [Pin -> BOOLEAN] /\ f \in [1..3 -> BOOLEAN] /\ s \in BOOLEAN /\ d \in BOOLEAN
  BY DEF Stages
<1>b. Piped(p, f, s, count, x, p2, f2, s2, d2, count2)
  OBVIOUS
<1>1. /\ p2[1] = x /\ \A i \in Pin : i > 1 => i - 1 \in Pin /\ p2[i] = p[i - 1]
      /\ count = 0 => f2[1] = p[Sync] /\ f2[2] = f[1] /\ f2[3] = f[2]
      /\ count # 0 => f2 = f
      /\ s2 = Majority(f) /\ d2 = s
      /\ 1 \in Pin /\ Sync \in Pin /\ Pin = 1..Sync /\ Sync \in Nat
  BY ONLY <1>a, <1>b, PipeMoves, Given, count \in 0..(Interval - 1), x \in BOOLEAN
<1>2. /\ \A i \in Pin : i > 1 => (p[i] => p[i - 1])
      /\ f[1] => p[Sync]
      /\ f[2] => f[1]
      /\ f[3] => f[2]
      /\ s => Majority(f)
      /\ d => s
  BY DEF Rising
<1>3. \A i \in Pin : i > 1 => (p2[i] => p2[i - 1])
  <2> SUFFICES ASSUME NEW i \in Pin, i > 1, p2[i] PROVE p2[i - 1]
    OBVIOUS
  <2>1. i - 1 \in Pin /\ p[i - 1]
    BY <1>1
  <2>2. CASE i - 1 = 1
    BY <2>2, <1>1
  <2>3. CASE i - 1 # 1
    <3>1. i - 1 > 1
      BY <2>1, <2>3, <1>1
    <3> QED
      BY <3>1, <2>1, <1>1, <1>2
  <2> QED
    BY <2>2, <2>3
<1>4. p[Sync] => p2[Sync]
  <2>1. Sync = 1 \/ Sync > 1
    BY <1>1
  <2> QED
    BY <2>1, <1>1, <1>2
<1>5. /\ f2[1] => p2[Sync]
      /\ f2[2] => f2[1]
      /\ f2[3] => f2[2]
      /\ s2 => Majority(f2)
  <2>1. CASE count = 0
    BY <2>1, <1>1, <1>2, <1>4 DEF Majority
  <2>2. CASE count # 0
    BY <2>2, <1>1, <1>2, <1>4
  <2> QED
    BY <2>1, <2>2
<1>6. d2 => s2
  BY <1>1, <1>2
<1> QED
  BY <1>3, <1>5, <1>6 DEF Rising

(* When both lines have gone high that holds. *)
LEMMA RisingStarts ==
  ASSUME Given, NEW p, NEW f, NEW s, NEW d, NEW v, AllAt(p, f, s, d, v)
  PROVE  Rising(p, f, s, d)
<1>1. Sync \in 1..4 /\ Pin = 1..Sync
  BY Lengths DEF Pin
<1>2. \A i \in Pin : i > 1 => i - 1 \in Pin
  BY <1>1
<1>3. Sync \in Pin
  BY <1>1
<1>4. f[1] = v /\ f[2] = v /\ f[3] = v
  BY DEF AllAt
<1> QED
  BY <1>2, <1>3, <1>4 DEF AllAt, Rising, Majority

(* A bus that nobody has taken is high. *)
LEMMA FreeLines ==
  ASSUME Given, Control, Drives, Roles, Levels, Edges, ~taken
  PROVE  /\ scl /\ sda /\ ~startSeen
         /\ stopSeen => c_state = "STOP" /\ core_ack /\ phase = 0 /\ beat = 0
         /\ ~stopSeen => ~owned
<1>1. /\ Shape /\ Types
  BY ShapeHolds DEF Control
<1>2. /\ stopSeen => c_state = "STOP" /\ core_ack /\ phase = 0 /\ beat = 0
  BY DEF Edges, Control, Obeys
<1>3. ~stopSeen => ~owned /\ ~startSeen
  BY DEF taken
<1>4. ~startSeen
  BY <1>2, <1>3 DEF Edges
<1>5. /\ phase \in 0..5 /\ op \in {"NOP", "START", "STOP", "READ", "WRITE"} /\ (phase = 0 <=> op = "NOP")
      /\ (op = "START" => c_state = "START")
  BY <1>1 DEF Shape, Commands
<1>6. scl_oen /\ sda_oen /\ (phase # 0 => op = "START" /\ ~stopSeen)
  <2>1. CASE phase = 0
    BY <2>1 DEF Levels
  <2>2. CASE phase # 0
    <3>1. ~owned /\ ~stopSeen
      BY <2>2, <1>2, <1>3
    <3>2. op = "START"
      BY <2>2, <3>1, <1>5 DEF Levels
    <3>3. phase < 4
      <4>1. ~Started
        BY <3>1 DEF Roles
      <4>2. ~(phase = 5) /\ ~(phase = 4 /\ beat > 0) /\ ~(phase = 4 /\ beat = 0)
        BY <4>1, <3>2, <1>4, <1>5 DEF Started, Edges
      <4> QED
        BY <4>2, <1>1, <1>5 DEF Shape
    <3>4. phase < 3 \/ phase = 3
      BY <3>3, <1>5
    <3> QED
      BY <3>1, <3>2, <3>4 DEF Levels
  <2> QED
    BY <2>1, <2>2
<1>7. sda_dev
  <2>1. CASE stopSeen
    BY <2>1, <1>2, LeavesStart
  <2>2. CASE ~stopSeen
    BY <2>2, <1>3 DEF Roles, Drives
  <2> QED
    BY <2>1, <2>2
<1> QED
  BY <1>2, <1>3, <1>4, <1>6, <1>7 DEF scl, sda

(* STOP ends a command: the filter holds both lines as they were before it.   *)
LEMMA StopEnds ==
  ASSUME Given, IInv, Control', Edges', Cycle, stopSeen'
  PROVE  BusFree'
<1>1. Control /\ Levels /\ Edges /\ SclIsHigh /\ SdaIsSet /\ StartGoes /\ BusTaken
  BY DEF IInv, Lines, Filters
<1>2. /\ Types /\ Shape /\ BitMove /\ scl \in BOOLEAN /\ sda \in BOOLEAN /\ owned \in BOOLEAN
      /\ age \in Nat /\ Span \in Nat /\ Span >= 4 /\ beat \in 0..(Span - 1)
  BY <1>1, Cycles, LineTypes
<1>3. c_state' = "STOP" /\ core_ack'
  BY DEF Edges
<1>4. Finish
  BY <1>2, <1>3 DEF BitMove, Quiet, Rest, Begin, Advance
<1>5. op = "STOP" /\ phase = 4
  <2>1. phase # 0 /\ phase > 0
    BY <1>4 DEF Finish
  <2>2. c_state = "STOP"
    BY <2>1, <1>1, <1>3, Waits DEF Holds
  <2>3. op = "STOP"
    BY <2>1, <2>2, <1>2 DEF Shape
  <2> QED
    BY <2>3, <1>4 DEF Finish, LastPhase
<1>6. /\ AllAt(scl_pipe', fSCL', sSCL', dSCL', TRUE)
      /\ AllAt(sda_pipe', fSDA', sSDA', dSDA', FALSE)
  <2>1. sda = FALSE
    <3>1. phase > 1
      BY <1>5
    <3> QED
      BY <3>1, <1>1, <1>2, <1>5 DEF Levels, sda
  <2> QED
    BY <2>1, <1>1, <1>4, BitEnds
<1>7. owned /\ taken /\ ~sto_condition /\ (busy \/ sta_condition)
  <2>1. owned
    BY <1>1, <1>5 DEF Levels
  <2>2. ~stopSeen
    BY <1>1, <1>5 DEF Edges, Control, Obeys
  <2>3. taken
    BY <2>1, <2>2 DEF taken
  <2> QED
    BY <2>1, <2>3, <1>1, <1>5 DEF BusTaken
<1>8. sSDA = dSDA
  <2>1. age - 2 * Span > seen /\ age - 2 * Span >= seen
    <3>1. beat = Span - 1 /\ age = 4 * Span + beat
      BY <1>1, <1>4, <1>5, Ages, AgeMoves DEF Finish
    <3>2. seen \in Nat /\ seen + 1 <= 2 * Span
      BY <1>2, StillMoves
    <3> QED
      BY <3>1, <3>2, <1>2
  <2>2. Sda(age - 2 * Span, sda)
    <3>1. phase > 1
      BY <1>5
    <3> QED
      BY <3>1, <1>1, <1>5 DEF SdaIsSet
  <2> QED
    BY <2>1, <2>2 DEF Sda, Young
<1>9. ~sta_condition' /\ busy' /\ owned'
  <2>1. sta_condition' = StartSeen /\ busy' = ((sta_condition \/ busy) /\ ~sto_condition)
    BY <1>2, Pipes
  <2>2. owned' = taken
    BY <1>2, OwnedMoves
  <2> QED
    BY <2>1, <2>2, <1>7, <1>8 DEF StartSeen
<1>10. Rising(sda_pipe', fSDA', sSDA', dSDA') /\ ~dSDA'
  <2>1. ~dSDA'
    BY <1>6 DEF AllAt
  <2> QED
    BY <2>1, <1>6, RisingStarts
<1> QED
  BY <1>6, <1>9, <1>10 DEF BusFree

(* While the bus is free the filter sees STOP, once, and the busy bit *)
(* falls. *)
LEMMA BusFreeHolds ==
  ASSUME Given, IInv, Control', Edges', Cycle
  PROVE  BusFree'
<1>1. Control /\ Levels /\ Edges /\ Drives /\ Roles /\ BusFree /\ LinesStill
  BY DEF IInv, Follows, Lines, Filters
<1>2. /\ Types /\ BitMove /\ scl \in BOOLEAN /\ sda \in BOOLEAN /\ filter_cnt \in 0..(Interval - 1)
      /\ age \in Nat /\ age' \in Nat /\ Span \in Nat /\ Span >= 4 /\ beat \in 0..(Span - 1)
  BY <1>1, Cycles
<1>3. CASE stopSeen'
  BY <1>3, StopEnds
<1>4. CASE ~stopSeen'
  <2>1. SUFFICES ASSUME ~taken'
                 PROVE  /\ AllAt(scl_pipe', fSCL', sSCL', dSCL', TRUE)
                        /\ Rising(sda_pipe', fSDA', sSDA', dSDA')
                        /\ ~sta_condition'
                        /\ dSDA' => sto_condition' \/ ~busy'
                        /\ ~owned'
                        /\ still' = Settled \/ still' >= age' - Span
                        /\ still' > seen => ~busy'
    BY DEF BusFree, Settled, Span, seen, Interval
  <2>2. ~owned' /\ ~taken
    <3>1. ~owned'
      BY <2>1, <1>4 DEF taken
    <3> QED
      BY <3>1, <1>2, OwnedMoves
  <2>3. /\ AllAt(scl_pipe, fSCL, sSCL, dSCL, TRUE)
        /\ Rising(sda_pipe, fSDA, sSDA, dSDA)
        /\ ~sta_condition
        /\ dSDA => sto_condition \/ ~busy
        /\ ~owned => still = Settled \/ still >= age - Span
    BY <2>2, <1>1 DEF BusFree
  <2>4. /\ scl = TRUE /\ sda = TRUE
        /\ stopSeen => phase = 0 /\ beat = 0
        /\ ~stopSeen => ~owned
    BY <2>2, <1>1, <1>2, FreeLines
  <2>5. /\ Stages(scl_pipe, fSCL, sSCL, dSCL, filter_cnt) /\ Stages(sda_pipe, fSDA, sSDA, dSDA, filter_cnt)
        /\ Piped(scl_pipe, fSCL, sSCL, filter_cnt, scl, scl_pipe', fSCL', sSCL', dSCL', filter_cnt')
        /\ Piped(sda_pipe, fSDA, sSDA, filter_cnt, sda, sda_pipe', fSDA', sSDA', dSDA', filter_cnt')
        /\ sta_condition' = StartSeen /\ sto_condition' = StopSeen
        /\ busy' = ((sta_condition \/ busy) /\ ~sto_condition)
    BY <1>2, Pipes
  <2>6. AllAt(scl_pipe', fSCL', sSCL', dSCL', TRUE)
    BY <2>3, <2>4, <2>5, <1>2, AllStep
  <2>7. Rising(sda_pipe', fSDA', sSDA', dSDA')
    BY <2>3, <2>4, <2>5, <1>2, RisingStep
  <2>8. (dSDA => sSDA) /\ sSCL = TRUE /\ dSDA' = sSDA
    BY <2>3, <2>5 DEF Rising, AllAt, Piped
  <2>9. ~sta_condition'
    BY <2>5, <2>8 DEF StartSeen
  <2>10. dSDA' => sto_condition' \/ ~busy'
    BY <2>3, <2>5, <2>8 DEF StopSeen
  <2>11. /\ StillMove /\ still \in Nat /\ still' \in Nat /\ Settled \in Nat /\ Settled = seen + 3
         /\ still <= Settled /\ seen \in Nat /\ still' <= still + 1
    BY <1>2, StillMoves
  <2>12. scl_r = TRUE
    <3>1. 1 \in Pin
      BY Lengths DEF Pin
    <3> QED
      BY <3>1, <2>3, <1>1 DEF AllAt, LinesStill
  <2>13. ~stopSeen => sda_r = TRUE
    BY <2>4, <2>12, <1>2, LineTypes DEF stopSeen
  <2>14. stopSeen => still' = 0
    <3> SUFFICES ASSUME stopSeen PROVE still' = 0
      OBVIOUS
    <3>1. sda # sda_r
      BY DEF stopSeen
    <3> QED
      BY <3>1, <2>11 DEF StillMove
  <2>15. still' = Settled \/ still' >= age' - Span
    <3> DEFINE next == age'
               held == still'
    <3>1. held = Settled \/ held >= next - Span
      <4>1. next \in Nat /\ next <= age + 1
        BY <1>1, <1>2, AgeMoves DEF BitMove
      <4>2. CASE stopSeen
        <5>1. age = 0 /\ held = 0
          BY <4>2, <2>4, <2>14, <1>1, Ages
        <5> HIDE DEF next, held
        <5> QED
          BY <5>1, <4>1, <1>2
      <4>3. CASE ~stopSeen
        <5>1. scl = scl_r /\ sda = sda_r
          BY <4>3, <2>4, <2>12, <2>13
        <5>2. held = IF still < Settled THEN still + 1 ELSE still
          BY <5>1, <2>11 DEF StillMove
        <5>3. still = Settled \/ still >= age - Span
          BY <4>3, <2>3, <2>4
        <5> HIDE DEF next, held
        <5> QED
          BY <5>2, <5>3, <4>1, <2>11, <1>2
      <4> QED
        BY <4>2, <4>3
    <3> QED
      BY <3>1
  <2>16. still' > seen => ~busy'
    <3> SUFFICES ASSUME still' > seen PROVE ~busy'
      OBVIOUS
    <3>1. ~stopSeen
      BY <2>11, <2>14
    <3>2. still + 1 > seen
      BY <2>11
    <3>3. Sda(still + 1, sda_r)
      BY <1>1 DEF LinesStill
    <3>4. dSDA = sda_r
      BY <3>2, <3>3 DEF Sda, Young
    <3>5. dSDA
      BY <3>1, <3>4, <2>13
    <3> QED
      BY <3>5, <2>3, <2>5
  <2> QED
    BY <2>2, <2>6, <2>7, <2>9, <2>10, <2>15, <2>16
<1> QED
  BY <1>3, <1>4

(* While SCL has just risen the filter does not see it yet; later it has     *)
(* forgotten that SDA ever moved.                                            *)
LEMMA BitSeen ==
  ASSUME Given, IInv, phase > 2, op # "START" \/ (phase = 3 /\ owned)
  PROVE  sSCL => sSDA = sda /\ dSDA = sda
<1>1. Control /\ SclRose /\ SdaIsSet
  BY DEF IInv, Filters
<1>2. /\ Types /\ Span \in Nat /\ phase \in 0..5 /\ beat \in 0..(Span - 1) /\ age \in Nat
      /\ age - 2 * Span \in Nat /\ age - 3 * Span \in Nat
  BY <1>1, Ages DEF Control
<1>3. /\ Sync \in 1..4 /\ Interval \in Nat /\ Interval < Span
      /\ seen = Sync + 2 * Interval + 1
  BY Lengths DEF seen
<1> SUFFICES ASSUME sSCL PROVE sSDA = sda /\ dSDA = sda
  OBVIOUS
<1>4. ~(age - 3 * Span < Sync + Interval + 2)
  BY <1>1 DEF SclRose, Old
<1>5. age - 2 * Span > seen /\ age - 2 * Span >= seen
  BY <1>2, <1>3, <1>4
<1>6. Sda(age - 2 * Span, sda)
  <2>1. phase > 1 /\ (op = "START" => phase < 4)
    BY <1>2
  <2> QED
    BY <2>1, <1>1 DEF SdaIsSet
<1> QED
  BY <1>5, <1>6 DEF Sda, Young

(* While it is taken the filter sees no STOP, and the busy bit stays. *)
LEMMA BusTakenHolds ==
  ASSUME Given, IInv, Control', Edges', Cycle
  PROVE  BusTaken'
<1>1. Control /\ Levels /\ Edges /\ SclIsHigh /\ SclFalls /\ StartGoes /\ BusTaken
  BY DEF IInv, Lines, Filters
<1>2. /\ Types /\ Shape /\ BitMove /\ scl \in BOOLEAN /\ sda \in BOOLEAN /\ owned \in BOOLEAN
      /\ age \in Nat /\ Span \in Nat /\ Span >= 4 /\ phase \in 0..5 /\ beat \in 0..(Span - 1) /\ core_ack \in BOOLEAN
  BY <1>1, Cycles, LineTypes
<1>3. SUFFICES ASSUME taken', ~(op' = "START" /\ phase' > 3)
               PROVE  ~sto_condition' /\ (busy' \/ (sta_condition' /\ core_ack' /\ still' < Settled))
  BY DEF BusTaken, Settled
<1>4. taken
  <2>1. phase' = 4 => phase' > 3
    OBVIOUS
  <2>2. ~startSeen'
    BY <2>1, <1>3 DEF Edges
  <2>3. owned'
    BY <2>2, <1>3 DEF taken
  <2> QED
    BY <2>3, <1>2, OwnedMoves
<1>5. /\ sta_condition' = StartSeen /\ sto_condition' = StopSeen
      /\ busy' = ((sta_condition \/ busy) /\ ~sto_condition)
  BY <1>2, Pipes
<1>6. CASE op = "START" /\ phase > 3
  <2>1. Finish
    BY <1>2, <1>3, <1>6 DEF BitMove, Quiet, Rest, Begin, Advance
  <2>2. phase = 5
    BY <2>1, <1>6 DEF Finish, LastPhase
  <2>3. /\ age = 5 * Span + beat /\ beat = Span - 1 /\ core_ack'
    BY <2>1, <2>2, <1>1, Ages, AgeMoves DEF Finish
  <2> DEFINE now == age - 4 * Span
  <2>4. now = 2 * Span - 1
    BY <2>3, <1>2
  <2>5. /\ Sda(now, FALSE) /\ (sSDA => dSDA) /\ ~sto_condition
        /\ ~dSDA => sta_condition \/ busy
        /\ now > 0 => still < now
    BY <1>1, <1>6 DEF StartGoes, down
  <2> HIDE DEF now
  <2>6. /\ still \in Nat /\ still' \in Nat /\ still' <= still + 1 /\ seen \in Nat /\ seen + 1 <= 2 * Span
        /\ Settled = seen + 3
    BY <1>2, StillMoves
  <2>7. sSDA = FALSE
    <3>1. now >= seen
      BY <2>4, <2>6, <1>2
    <3> QED
      BY <3>1, <2>5 DEF Sda, Young
  <2>8. ~sto_condition'
    BY <2>5, <1>5 DEF StopSeen
  <2>9. CASE ~dSDA
    BY <2>5, <2>8, <2>9, <1>5
  <2>10. CASE dSDA
    <3>1. now = seen
      <4>1. ~(now > seen)
        BY <2>5, <2>10 DEF Sda, Young
      <4> QED
        BY <4>1, <2>4, <2>6, <1>2
    <3>2. still' < Settled
      <4> DEFINE held == still'
      <4>1. now > 0
        BY <2>4, <1>2
      <4>2. still < now /\ held <= still + 1 /\ held \in Nat
        BY <4>1, <2>5, <2>6
      <4> HIDE DEF held
      <4>3. held < Settled
        BY <4>2, <3>1, <2>6
      <4> QED
        BY <4>3 DEF held
    <3>3. sSCL = TRUE
      <4>1. age - 3 * Span >= seen
        BY <2>3, <2>6, <1>2
      <4>2. Scl(age - 3 * Span, TRUE)
        <5>1. phase > 2
          BY <2>2
        <5> QED
          BY <5>1, <1>1 DEF SclIsHigh
      <4> QED
        BY <4>1, <4>2 DEF Scl, Young
    <3>4. sta_condition'
      BY <3>3, <2>7, <2>10, <1>5 DEF StartSeen
    <3> QED
      BY <3>2, <3>4, <2>3, <2>8
  <2> QED
    BY <2>9, <2>10
<1>7. CASE ~(op = "START" /\ phase > 3)
  <2>1. ~sto_condition /\ (busy \/ sta_condition)
    BY <1>1, <1>4, <1>7 DEF BusTaken
  <2>2. ~(sSDA /\ ~dSDA /\ sSCL)
    <3>1. CASE ~scl
      <4>1. sSCL => sSDA = dSDA
        BY <3>1, <1>1 DEF SclFalls, Pair
      <4> QED
        BY <4>1
    <3>2. CASE scl
      <4>1. phase # 0
        BY <3>2, <1>1, <1>4 DEF Levels, scl
      <4>2. ~startSeen
        <5>1. phase = 4 => phase > 3
          OBVIOUS
        <5> QED
          BY <5>1, <1>1, <1>7 DEF Edges
      <4>3. owned
        BY <4>2, <1>4 DEF taken
      <4>4. phase > 2
        <5>1. ~(phase \in {1, 2} /\ (op # "START" \/ owned))
          BY <3>2, <1>1, SclMoves
        <5> QED
          BY <5>1, <4>1, <4>3, <1>2
      <4>5. op # "START" \/ (phase = 3 /\ owned)
        BY <4>3, <4>4, <1>2, <1>7
      <4>6. sSCL => sSDA = sda /\ dSDA = sda
        BY <4>4, <4>5, BitSeen
      <4> QED
        BY <4>6
    <3> QED
      BY <3>1, <3>2
  <2> QED
    BY <2>1, <2>2, <1>5 DEF StopSeen
<1> QED
  BY <1>6, <1>7

(* Lines that have been still fill the pipeline. *)
LEMMA LinesStillHolds ==
  ASSUME Given, Types, Types', LinesStill, Cycle
  PROVE  LinesStill'
<1>1. /\ StillMove /\ still \in Nat /\ still' \in Nat
  BY StillMoves
<1>2. scl \in BOOLEAN /\ sda \in BOOLEAN /\ scl_r' = scl /\ sda_r' = sda
  BY LineTypes, OwnedMoves
<1>3. filter_cnt \in 0..(Interval - 1) /\ filter_cnt' \in 0..(Interval - 1)
  BY DEF Types, Interval
<1>4. scl_pipe'[1] = scl /\ sda_pipe'[1] = sda
  <2>1. 1 \in 1..Sync
    BY Lengths
  <2> QED
    BY <2>1 DEF Cycle, Inputs
<1> DEFINE held == still'
           n == still + 1
           m == held + 1
<1>5. \E k \in Nat : /\ Scl(k, scl) /\ Sda(k, sda) /\ m \in Nat /\ m <= k + 1
  <2>1. CASE scl # scl_r \/ sda # sda_r
    <3>1. m = 1
      BY <2>1, <1>1 DEF StillMove
    <3>2. Scl(0, scl) /\ Sda(0, sda)
      BY <1>3, YoungZero DEF Scl, Sda
    <3> HIDE DEF m
    <3> QED
      BY <3>1, <3>2
  <2>2. CASE scl = scl_r /\ sda = sda_r
    <3>1. Scl(n, scl) /\ Sda(n, sda)
      BY <2>2 DEF LinesStill
    <3>2. n \in Nat /\ m \in Nat /\ m <= n + 1
      <4>1. held \in Nat /\ held <= still + 1
        BY <1>1, StillMoves
      <4> HIDE DEF held
      <4> QED
        BY <4>1, <1>1
    <3> HIDE DEF n, m
    <3> QED
      BY <3>1, <3>2
  <2> QED
    BY <2>1, <2>2
<1> HIDE DEF n, m
<1>6. PICK k \in Nat : Scl(k, scl) /\ Sda(k, sda) /\ m \in Nat /\ m <= k + 1
  BY <1>5
<1>7. /\ Young(scl_pipe', fSCL', sSCL', dSCL', filter_cnt', k + 1, scl)
      /\ Young(sda_pipe', fSDA', sSDA', dSDA', filter_cnt', k + 1, sda)
  BY <1>2, <1>6, SclStep, SdaStep
<1>8. k + 1 \in Nat
  OBVIOUS
<1>9. /\ Young(scl_pipe', fSCL', sSCL', dSCL', filter_cnt', m, scl)
      /\ Young(sda_pipe', fSDA', sSDA', dSDA', filter_cnt', m, sda)
  BY <1>3, <1>6, <1>7, <1>8, YoungLess
<1> QED
  BY <1>2, <1>4, <1>9 DEF LinesStill, Scl, Sda, m

(* A bit that SCL has clocked is in core_rxd before SCL falls.                *)
LEMMA ReceivesHolds ==
  ASSUME Given, IInv, Control', Levels', Edges', Cycle
  PROVE  Receives'
<1>1. Control /\ Levels /\ Edges /\ SclIsHigh /\ SclIsLow /\ SdaIsSet /\ Receives
  BY DEF IInv, Lines, Filters
<1>2. /\ Types /\ Shape /\ BitMove /\ scl \in BOOLEAN /\ sda \in BOOLEAN
      /\ age \in Nat /\ Span \in Nat /\ Span >= 4 /\ phase \in 0..5 /\ beat \in 0..(Span - 1)
  BY <1>1, Cycles
<1>3. /\ core_rxd' = IF sSCL /\ ~dSCL THEN sSDA ELSE core_rxd
      /\ dSCL' = sSCL
  BY <1>2, Pipes DEF Piped
<1>4. seen \in Nat /\ seen + 1 <= 2 * Span
  BY <1>2, StillMoves
<1>5. Clocked /\ sSCL => core_rxd' = sda
  <2> SUFFICES ASSUME Clocked, sSCL PROVE core_rxd' = sda
    OBVIOUS
  <2>1. phase > 2 /\ op # "START"
    BY DEF Clocked
  <2>2. sSDA = sda
    BY <2>1, BitSeen
  <2>3. dSCL => core_rxd = sda
    BY <1>1 DEF Receives
  <2> QED
    BY <2>2, <2>3, <1>3
<1>6. Clocked' => (dSCL' => core_rxd' = sda')
  <2> SUFFICES ASSUME Clocked', dSCL' PROVE core_rxd' = sda'
    OBVIOUS
  <2>1. op' \in {"READ", "WRITE"} /\ phase' > 2
    BY DEF Clocked
  <2>2. op' = op /\ (Quiet \/ Advance) /\ phase > 1
    BY <2>1, <1>2 DEF BitMove, Quiet, Rest, Begin, Advance, Finish
  <2>3. sda' = sda
    BY <2>1, <2>2, <1>1, SdaSteady
  <2>4. phase > 2
    <3> SUFFICES ASSUME phase = 2 PROVE FALSE
      BY <2>2, <1>2
    <3>1. age = 2 * Span + beat
      BY <1>1, Ages
    <3>2. age >= seen
      BY <3>1, <1>2, <1>4
    <3>3. ~scl
      BY <2>1, <2>2, <1>1, SclMoves
    <3>4. sSCL = FALSE
      BY <3>2, <3>3, <1>1 DEF SclIsLow, Scl, Young
    <3> QED
      BY <3>4, <1>3
  <2> QED
    BY <2>1, <2>2, <2>3, <2>4, <1>3, <1>5 DEF Clocked
<1>7. core_ack' /\ Underway' => core_rxd' = sda' /\ dSCL'
  <2> SUFFICES ASSUME core_ack', Underway' PROVE core_rxd' = sda' /\ dSCL'
    OBVIOUS
  <2>1. Finish
    BY <1>2 DEF BitMove, Quiet, Rest, Begin, Advance
  <2>2. op \in {"READ", "WRITE"}
    <3>1. phase # 0 /\ Holds
      BY <2>1, <1>1, Waits DEF Finish
    <3>2. c_state \in {"READ", "WRITE", "ACK"}
      BY <3>1 DEF Underway, Holds
    <3> QED
      BY <3>1, <3>2, <1>1, OutStays
  <2>3. phase = 4
    BY <2>1, <2>2 DEF Finish, LastPhase
  <2>4. Clocked
    BY <2>2, <2>3 DEF Clocked
  <2>5. sda' = sda
    BY <2>4, <1>1, HoldsSda
  <2>6. sSCL = TRUE
    <3>1. age = 4 * Span + beat /\ beat = Span - 1
      BY <2>1, <2>3, <1>1, Ages, AgeMoves DEF Finish
    <3>2. age - 3 * Span >= seen
      BY <3>1, <1>2, <1>4
    <3>3. Scl(age - 3 * Span, TRUE)
      BY <2>4, <1>1 DEF SclIsHigh, Clocked
    <3> QED
      BY <3>2, <3>3 DEF Scl, Young
  <2> QED
    BY <2>4, <2>5, <2>6, <1>3, <1>5
<1> QED
  BY <1>6, <1>7 DEF Receives

-----------------------------------------------------------------------------
(* The whole invariant. *)

LEMMA CycleKeeps == ASSUME Given, IInv, Cycle PROVE IInv'
<1>1. /\ Control /\ Drives /\ Roles /\ Slots /\ Levels /\ Ready /\ Edges
      /\ Heard /\ Sending /\ Taking /\ Done /\ BitsKept
      /\ SclIsLow /\ SclIsHigh /\ SclRose /\ SdaIsSet /\ SclFalls
      /\ StartGoes /\ BusFree /\ BusTaken /\ LinesStill /\ Receives
  BY DEF IInv, Follows, Lines, BitsKept, Filters
<1>2. Control' /\ Types /\ Types'
  BY <1>1, ControlHolds DEF Control
<1>3. Drives' /\ Roles' /\ Slots'
  BY <1>1, DrivesHold, RolesHold, SlotsHold
<1>4. Levels' /\ Ready' /\ Edges'
  BY <1>1, LevelsHold, ReadyHolds, EdgesHold
<1>5. Heard' /\ Sending' /\ Taking' /\ Done'
  BY <1>1, <1>4, HeardHolds, SendingHolds, TakingHolds, DoneHolds
<1>6. SclIsLow' /\ SclIsHigh' /\ SclRose' /\ SdaIsSet' /\ SclFalls'
  BY <1>1, <1>2, SclIsLowHolds, SclIsHighHolds, SclRoseHolds, SdaIsSetHolds, SclFallsHolds
<1>7. StartGoes' /\ BusFree' /\ BusTaken' /\ LinesStill' /\ Receives'
  BY <1>1, <1>2, <1>4, StartGoesHolds, BusFreeHolds, BusTakenHolds, LinesStillHolds, ReceivesHolds
<1> QED
  BY <1>2, <1>3, <1>4, <1>5, <1>6, <1>7 DEF IInv, Follows, Lines, BitsKept, Filters

(* A step that changes nothing keeps every part. *)
LEMMA StutterKeeps == ASSUME IInv, UNCHANGED vars PROVE IInv'
<1>1. /\ UNCHANGED <<cnt, clk_en, filter_cnt, fSCL, fSDA, sSCL, sSDA, dSCL, dSDA, sta_condition, sto_condition, busy,
                     core_rxd, bit_state, core_ack, scl_oen, sda_oen>>
      /\ UNCHANGED <<c_state, core_cmd, core_txd, sr, dcnt, shift, ld, cmd_ack, ack_out>>
      /\ UNCHANGED <<command, re, txr, tip, intflag, scl_pipe, sda_pipe, gap, waiting>>
      /\ UNCHANGED <<slot, dir, answer, sda_dev, scl_r, sda_r, heard, running, carried, bytes, owned, still>>
  BY DEF vars, bitVars, byteVars, coreVars, softVars, deviceVars, history
<1>2. beat' = beat /\ op' = op /\ phase' = phase /\ scl' = scl /\ sda' = sda
  BY <1>1 DEF beat, op, phase, scl, sda
<1>3. /\ startSeen' = startSeen /\ stopSeen' = stopSeen /\ rises' = rises /\ falls' = falls
      /\ age' = age
  BY <1>1, <1>2 DEF startSeen, stopSeen, rises, falls, age
<1>4. /\ taken' = taken /\ down' = down /\ Clocked' = Clocked /\ Underway' = Underway /\ Out' = Out
      /\ Started' = Started /\ Asks' = Asks /\ Works' = Works
  BY <1>1, <1>2, <1>3 DEF taken, down, Clocked, Underway, Out, Started, Asks, Works
<1>5. Fresh' = Fresh /\ Reading' = Reading
  BY <1>1, <1>4 DEF Fresh, Reading, Addresses
<1>6. Control'
  <2>1. TypeOK'
    BY <1>1 DEF IInv, Control, Types, TypeOK, BitTypeOK, ByteTypeOK
  <2>2. Types'
    BY <2>1, <1>1 DEF IInv, Control, Types
  <2>3. Beats'
    BY <1>1 DEF IInv, Control, Beats
  <2>4. Obeys'
    BY <1>1, <1>2 DEF IInv, Control, Obeys
  <2>5. Serves'
    BY <1>1, <1>4, <1>5 DEF IInv, Control, Serves
  <2> QED
    BY <2>2, <2>3, <2>4, <2>5 DEF Control
<1>7. Follows'
  <2>1. Drives'
    BY <1>1 DEF IInv, Follows, Drives
  <2>2. Roles'
    BY <1>1, <1>4, <1>5 DEF IInv, Follows, Roles
  <2>3. Slots'
    BY <1>1, <1>4 DEF IInv, Follows, Slots
  <2> QED
    BY <2>1, <2>2, <2>3 DEF Follows
<1>8. Lines'
  <2>1. Levels'
    BY <1>1, <1>2, <1>4 DEF IInv, Lines, Levels
  <2>2. Ready'
    BY <1>1, <1>2, <1>4 DEF IInv, Lines, Ready
  <2>3. Edges'
    BY <1>1, <1>2, <1>3 DEF IInv, Lines, Edges
  <2> QED
    BY <2>1, <2>2, <2>3 DEF Lines
<1>9. BitsKept'
  <2>1. Heard'
    BY <1>1, <1>2, <1>4 DEF IInv, BitsKept, Heard
  <2>2. Sending'
    BY <1>1 DEF IInv, BitsKept, Sending
  <2>3. Taking'
    BY <1>1 DEF IInv, BitsKept, Taking
  <2>4. Done'
    BY <1>1 DEF IInv, BitsKept, Done, WriteAgrees, ReadAgrees
  <2> QED
    BY <2>1, <2>2, <2>3, <2>4 DEF BitsKept
<1>10. Filters'
  <2>1. \A n : (\A v : Scl(n, v)' = Scl(n, v) /\ Sda(n, v)' = Sda(n, v))
    BY <1>1 DEF Scl, Sda, Young, LagOf
  <2>2. SclIsLow' /\ SclIsHigh'
    BY <1>1, <1>2, <1>3 DEF IInv, Filters, SclIsLow, SclIsHigh, Scl
  <2>3. SclRose' /\ SdaIsSet'
    BY <1>1, <1>2, <1>3 DEF IInv, Filters, SclRose, SdaIsSet, Sda
  <2>4. SclFalls'
    BY <1>1, <1>2 DEF IInv, Filters, SclFalls
  <2>5. StartGoes'
    BY <1>1, <1>2, <1>4 DEF IInv, Filters, StartGoes, Sda
  <2>6. BusFree' /\ BusTaken'
    BY <1>1, <1>2, <1>3, <1>4 DEF IInv, Filters, BusFree, BusTaken
  <2>7. LinesStill'
    BY <1>1 DEF IInv, Filters, LinesStill, Scl, Sda
  <2>8. Receives'
    BY <1>1, <1>2, <1>4 DEF IInv, Filters, Receives
  <2> QED
    BY <2>2, <2>3, <2>4, <2>5, <2>6, <2>7, <2>8 DEF Filters
<1> QED
  BY <1>6, <1>7, <1>8, <1>9, <1>10 DEF IInv

(* At the start both lines are high and nothing is asked for. *)
LEMMA InitKeeps == ASSUME Given, Init PROVE IInv
<1>1. /\ Prescale \in Nat /\ Prescale >= 3 /\ Span = Prescale + 1 /\ Bits \in Nat /\ Bits >= 1 /\ Sync \in 1..4
      /\ AccessTicks \in Nat /\ Interval \in Nat /\ Interval >= 1 /\ Interval < Span /\ Prescale \div 4 = Interval - 1
  BY Lengths
<1>2. NoCommand \in Command /\ ~NoCommand.sta /\ ~NoCommand.sto /\ ~NoCommand.rd /\ ~NoCommand.wr /\ ~NoCommand.ack
  BY Records
<1>3. /\ cnt = 0 /\ clk_en = TRUE /\ filter_cnt = 0 /\ fSCL = <<TRUE, TRUE, TRUE>> /\ fSDA = <<TRUE, TRUE, TRUE>>
      /\ sSCL = TRUE /\ sSDA = TRUE /\ dSCL = TRUE /\ dSDA = TRUE
      /\ sta_condition = FALSE /\ sto_condition = FALSE /\ busy = FALSE /\ core_rxd = FALSE
      /\ bit_state = idle /\ core_ack = FALSE /\ scl_oen = TRUE /\ sda_oen = TRUE
  BY DEF Init, BitInit
<1>4. /\ c_state = "IDLE" /\ core_cmd = "NOP" /\ core_txd = FALSE
      /\ sr = [i \in 1..Bits |-> FALSE] /\ dcnt = 0
      /\ shift = FALSE /\ ld = FALSE /\ cmd_ack = FALSE /\ ack_out = FALSE
  BY DEF Init, ByteInit
<1>5. /\ command = NoCommand /\ re = FALSE /\ txr = [i \in 1..Bits |-> FALSE]
      /\ tip = FALSE /\ intflag = FALSE
      /\ scl_pipe = [i \in 1..Sync |-> TRUE] /\ sda_pipe = [i \in 1..Sync |-> TRUE]
      /\ gap = 0 /\ waiting = FALSE
      /\ slot = -1 /\ dir = "off" /\ answer = Released /\ sda_dev = TRUE
      /\ scl_r = TRUE /\ sda_r = TRUE /\ heard = Released
      /\ running = NoCommand /\ bytes = 0 /\ owned = FALSE /\ still = 0
      /\ carried = [heard |-> Released, answer |-> Released]
  BY DEF Init
<1>6. op = "NOP" /\ phase = 0 /\ scl = TRUE /\ sda = TRUE /\ beat = Prescale - 1
  BY <1>1, <1>3, <1>5 DEF op, phase, idle, scl, sda, beat
<1>7. ~startSeen /\ ~stopSeen /\ ~rises /\ ~falls /\ ~taken /\ ~Asks /\ ~Fresh /\ ~Works
  BY <1>2, <1>4, <1>5, <1>6 DEF startSeen, stopSeen, rises, falls, taken, Asks, Fresh, Works
<1>8. Released \in Frame
  BY DEF Released, Frame
<1>9. Control
  <2>1. BitTypeOK
    <3>1. fSCL \in [1..3 -> BOOLEAN] /\ fSDA \in [1..3 -> BOOLEAN]
      <4>1. \A x, y, z \in BOOLEAN : <<x, y, z>> \in [1..3 -> BOOLEAN]
        OBVIOUS
      <4> QED
        BY <4>1, <1>3
    <3>2. cnt \in 0..Prescale /\ filter_cnt \in 0..Prescale
      BY <1>1, <1>3
    <3>3. {clk_en, sSCL, sSDA, dSCL, dSDA, sta_condition, sto_condition, busy,
           core_rxd, core_ack, scl_oen, sda_oen} \subseteq BOOLEAN
      BY <1>3
    <3> QED
      BY <3>1, <3>2, <3>3, <1>3 DEF BitTypeOK
  <2>2. ByteTypeOK
    <3>1. sr \in Byte /\ dcnt \in 0..(Bits - 1)
      BY <1>1, <1>4 DEF Byte
    <3>2. {core_txd, shift, ld, cmd_ack, ack_out} \subseteq BOOLEAN
      BY <1>4
    <3> QED
      BY <3>1, <3>2, <1>4 DEF ByteTypeOK
  <2>3. TypeOK
    <3>1. still \in 0..Settled
      BY <1>1, <1>5 DEF Settled
    <3>2. txr \in Byte
      BY <1>5 DEF Byte
    <3>3. slot \in -1..Bits /\ gap \in 0..AccessTicks /\ bytes \in 0..2
      BY <1>1, <1>5
    <3>4. {answer, heard, carried.heard, carried.answer} \subseteq Frame
      BY <1>5, <1>8
    <3> QED
      BY <2>1, <2>2, <3>1, <3>2, <3>3, <3>4, <1>2, <1>5 DEF TypeOK
  <2>4. Types
    <3>1. filter_cnt \in 0..(Interval - 1)
      BY <1>1, <1>3
    <3>2. scl_pipe \in [Pin -> BOOLEAN] /\ sda_pipe \in [Pin -> BOOLEAN]
      BY <1>5 DEF Pin
    <3>3. carried \in [heard : Frame, answer : Frame]
      BY <1>5, <1>8
    <3> QED
      BY <2>3, <3>1, <3>2, <3>3 DEF Types
  <2>5. Beats
    BY <1>3, <1>4 DEF Beats
  <2>6. Obeys
    BY <1>3, <1>4, <1>6 DEF Obeys
  <2>7. Serves
    BY <1>4, <1>7 DEF Serves
  <2> QED
    BY <2>4, <2>5, <2>6, <2>7 DEF Control
<1>10. Follows
  <2>1. Drives
    BY <1>5 DEF Drives, Answers
  <2>2. Roles
    BY <1>3, <1>4, <1>5, <1>6, <1>7 DEF Roles, Started, Underway, Reading
  <2>3. Slots
    BY <1>4, <1>7 DEF Slots, Underway
  <2> QED
    BY <2>1, <2>2, <2>3 DEF Follows
<1>11. Lines
  <2>1. Levels
    BY <1>3, <1>6, <1>7 DEF Levels
  <2>2. Ready
    BY <1>3, <1>6 DEF Ready
  <2>3. Edges
    BY <1>3, <1>4, <1>5, <1>6, <1>7 DEF Edges
  <2> QED
    BY <2>1, <2>2, <2>3 DEF Lines
<1>12. BitsKept
  BY <1>3, <1>4, <1>6 DEF BitsKept, Heard, Clocked, Sending, Taking, Done
<1>13. Filters
  <2>1. AllAt(scl_pipe, fSCL, sSCL, dSCL, TRUE) /\ AllAt(sda_pipe, fSDA, sSDA, dSDA, TRUE)
    <3>1. Pin = 1..Sync
      BY DEF Pin
    <3>2. (\A i \in Pin : scl_pipe[i] = TRUE) /\ (\A i \in Pin : sda_pipe[i] = TRUE)
      BY <3>1, <1>5
    <3>3. \A k \in 1..3 : fSCL[k] = TRUE /\ fSDA[k] = TRUE
      <4>1. fSCL[1] = TRUE /\ fSCL[2] = TRUE /\ fSCL[3] = TRUE
        BY <1>3
      <4>2. fSDA[1] = TRUE /\ fSDA[2] = TRUE /\ fSDA[3] = TRUE
        BY <1>3
      <4> QED
        BY <4>1, <4>2
    <3> QED
      BY <3>2, <3>3, <1>3 DEF AllAt
  <2>2. SclIsLow /\ SclIsHigh /\ SclRose /\ SdaIsSet /\ SclFalls
    BY <1>6 DEF SclIsLow, SclIsHigh, SclRose, SdaIsSet, SclFalls
  <2>3. StartGoes /\ BusTaken /\ Receives
    BY <1>3, <1>6, <1>7 DEF StartGoes, BusTaken, Receives, Clocked
  <2>4. BusFree
    <3>1. Rising(sda_pipe, fSDA, sSDA, dSDA)
      BY <2>1, RisingStarts
    <3>2. still >= age - Span
      <4>1. Span \in Nat /\ age = 0 * Span + beat
        BY <1>1, <1>6 DEF age
      <4> DEFINE s == Span
      <4>2. s \in Nat /\ 0 * s = 0
        BY <4>1
      <4>3. age = beat
        BY <4>1, <4>2, <1>1, <1>6
      <4> QED
        BY <4>3, <1>1, <1>5, <1>6
    <3>3. ~(still > seen)
      BY <1>1, <1>5 DEF seen
    <3> QED
      BY <2>1, <3>1, <3>2, <3>3, <1>3, <1>5 DEF BusFree
  <2>5. LinesStill
    <3>1. 1 \in Pin
      BY <1>1 DEF Pin
    <3>2. scl_pipe[1] = scl_r /\ sda_pipe[1] = sda_r
      BY <2>1, <3>1, <1>5 DEF AllAt
    <3>3. Scl(still + 1, TRUE) /\ Sda(still + 1, TRUE)
      BY <2>1 DEF Scl, Sda, Young, AllAt
    <3> QED
      BY <3>2, <3>3, <1>5 DEF LinesStill
  <2> QED
    BY <2>2, <2>3, <2>4, <2>5 DEF Filters
<1> QED
  BY <1>9, <1>10, <1>11, <1>12, <1>13 DEF IInv

(* The invariant implies what is asked of commands. *)
LEMMA CommandsFollow == ASSUME Given, IInv PROVE I2cCommands
<1>1. Control /\ Slots /\ Done /\ TypeOK
  BY DEF IInv, Control, Types, Follows, BitsKept
<1>2. CommandCarriedOut
  BY <1>1 DEF CommandCarriedOut, Slots, Done
<1>3. ClearsItsOwn
  <2> SUFFICES ASSUME cmd_ack PROVE [command EXCEPT !.iack = running.iack] = running
    BY DEF ClearsItsOwn
  <2>1. running = command /\ running \in Command
    BY <1>1 DEF Control, Serves, Works, TypeOK
  <2> QED
    BY <2>1 DEF Command
<1> QED
  BY <1>1, <1>2, <1>3 DEF I2cCommands

(* And what is asked of the bus. *)
LEMMA BusFollows == ASSUME Given, IInv PROVE I2cBusInOrder
<1>1. Control /\ Types /\ Shape /\ Slots /\ Roles /\ Edges /\ StartGoes /\ BusFree /\ BusTaken
  BY ShapeHolds DEF IInv, Control, Follows, Lines, Filters
<1>2. LinesInOrder
  <2>1. startSeen => running.sta /\ bytes = 0
    <3> SUFFICES ASSUME startSeen PROVE running.sta /\ bytes = 0
      OBVIOUS
    <3>1. op = "START" /\ phase = 4
      BY <1>1 DEF Edges
    <3>2. c_state = "START"
      BY <3>1, <1>1 DEF Shape
    <3> QED
      BY <3>2, <1>1 DEF Control, Serves, Slots
  <2>2. stopSeen => running.sto /\ bytes = IF running.rd \/ running.wr THEN 1 ELSE 0
    BY <1>1 DEF Edges, Control, Serves, Slots
  <2>3. rises \/ falls => sda = sda_r
    BY <1>1 DEF Edges
  <2> QED
    BY <2>1, <2>2, <2>3 DEF LinesInOrder
<1>3. BusyFollowsBus
  <2> SUFFICES ASSUME still = Settled PROVE busy = owned
    BY DEF BusyFollowsBus
  <2>1. /\ Settled = seen + 3 /\ seen \in Nat /\ busy \in BOOLEAN /\ owned \in BOOLEAN
    <3>1. /\ Sync \in 1..4 /\ Interval \in Nat /\ Prescale \div 4 = Interval - 1
      BY Lengths
    <3>2. seen = Sync + 2 * Interval + 1 /\ Settled = Sync + 2 * Interval + 4
      BY <3>1 DEF seen, Settled
    <3> QED
      BY <3>1, <3>2, <1>1 DEF Types, TypeOK, BitTypeOK
  <2>2. CASE ~taken
    BY <2>1, <2>2, <1>1 DEF BusFree
  <2>3. CASE taken /\ ~(op = "START" /\ phase > 3)
    <3>1. busy
      BY <2>1, <2>3, <1>1 DEF BusTaken
    <3>2. owned
      <4>1. phase = 4 => phase > 3
        OBVIOUS
      <4> QED
        BY <4>1, <2>3, <1>1 DEF taken, Edges
    <3> QED
      BY <3>1, <3>2, <2>1
  <2>4. CASE op = "START" /\ phase > 3
    <3>1. /\ down > seen + 1 => busy
          /\ down > 0 => still < down
          /\ down = 0 => busy = owned
      BY <2>4, <1>1 DEF StartGoes
    <3>2. /\ down \in Nat /\ phase \in {4, 5} /\ Span \in Nat /\ Span >= 4 /\ beat \in 0..(Span - 1)
          /\ phase = 4 => down = beat
      BY <2>4, <1>1, Ages DEF down
    <3>3. CASE down = 0
      BY <3>1, <3>3
    <3>4. CASE down # 0
      <4>1. busy
        BY <3>1, <3>2, <3>4, <2>1
      <4>2. phase = 5 \/ (phase = 4 /\ beat > 0)
        BY <3>2, <3>4
      <4>3. owned
        <5>1. c_state = "START"
          BY <2>4, <1>1 DEF Shape
        <5> QED
          BY <4>2, <5>1, <1>1 DEF Roles, Started
      <4> QED
        BY <4>1, <4>3, <2>1
    <3> QED
      BY <3>3, <3>4
  <2> QED
    BY <2>2, <2>3, <2>4
<1> QED
  BY <1>2, <1>3 DEF I2cBusInOrder

-----------------------------------------------------------------------------
(* The invariant holds in every reachable state. *)
LEMMA Invariant == ASSUME Given PROVE Spec => []IInv
<1>1. Init => IInv
  BY InitKeeps
<1>2. IInv /\ [Next]_vars => IInv'
  BY CycleKeeps, StutterKeeps DEF Next
<1> QED
  BY <1>1, <1>2, PTL DEF Spec

(* An I2C command is carried out as the registers say when it ends, and takes *)
(* its own bits out of the command register and no others (core.py:164).     *)
THEOREM I2cCommandsCorrect == ASSUME I2cAssumption, FlagPolled PROVE Spec => []I2cCommands
<1>1. Given
  BY DEF Given
<1>2. Spec => []IInv
  BY <1>1, Invariant
<1>3. IInv => I2cCommands
  BY <1>1, CommandsFollow
<1> QED
  BY <1>2, <1>3, PTL

(* START, STOP and the moves of SDA come only where the command asks for      *)
(* them, and the busy bit tells whether the bus is taken.                    *)
THEOREM I2cBusInOrderCorrect == ASSUME I2cAssumption, FlagPolled PROVE Spec => []I2cBusInOrder
<1>1. Given
  BY DEF Given
<1>2. Spec => []IInv
  BY <1>1, Invariant
<1>3. IInv => I2cBusInOrder
  BY <1>1, BusFollows
<1> QED
  BY <1>2, <1>3, PTL
=============================================================================
