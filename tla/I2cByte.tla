------------------------------- MODULE I2cByte ------------------------------
(***************************************************************************)
(* The byte machine of the I2C controller (i2c_controller_byte_ctrl.v): a  *)
(* command of software, START and then a byte read or written and its      *)
(* acknowledge and then STOP, as commands of the bit machine, which the    *)
(* module contains.                                                        *)
(***************************************************************************)
EXTENDS I2cBit, Sequences

CONSTANT Bits       \* of a byte: 8
BitsAssumption == Bits \in Nat \ {0}

VARIABLES
  c_state, core_cmd, core_txd,
  sr, dcnt, shift, ld,   \* shift register (its first element leaves first) and bit counter
  cmd_ack, ack_out

byteVars == <<c_state, core_cmd, core_txd, sr, dcnt, shift, ld, cmd_ack, ack_out>>

Byte == [1..Bits -> BOOLEAN]

ByteInit == /\ c_state = "IDLE" /\ core_cmd = "NOP" /\ core_txd = FALSE
            /\ sr = [i \in 1..Bits |-> FALSE] /\ dcnt = 0
            /\ shift = FALSE /\ ld = FALSE /\ cmd_ack = FALSE /\ ack_out = FALSE

cnt_done == dcnt = 0

ShiftRegister(din) ==
  /\ sr' = CASE ld -> din
             [] ~ld /\ shift -> Append(Tail(sr), core_rxd)
             [] OTHER -> sr
  /\ dcnt' = CASE ld -> Bits - 1
               [] ~ld /\ shift -> (dcnt - 1) % Bits
               [] OTHER -> dcnt

(* In every state core_txd follows the shift register and the pulses fall     *)
(* unless the state says otherwise.                                          *)
GoTo(state, cmd) == c_state' = state /\ core_cmd' = cmd
Stay == UNCHANGED <<c_state, core_cmd>>

ByteIdle(start, stop, read, write) ==
  /\ c_state = "IDLE"
  /\ core_txd' = sr[1] /\ shift' = FALSE /\ cmd_ack' = FALSE /\ UNCHANGED ack_out
  /\ IF (read \/ write \/ stop) /\ ~cmd_ack
     THEN /\ ld' = TRUE
          /\ LET op == CASE start -> "START" [] ~start /\ read -> "READ"
                         [] ~start /\ ~read /\ write -> "WRITE" [] OTHER -> "STOP"
             IN GoTo(op, op)
     ELSE ld' = FALSE /\ Stay

ByteStart(read) ==
  /\ c_state = "START"
  /\ core_txd' = sr[1] /\ shift' = FALSE /\ cmd_ack' = FALSE /\ UNCHANGED ack_out
  /\ IF core_ack
     THEN ld' = TRUE /\ LET op == IF read THEN "READ" ELSE "WRITE" IN GoTo(op, op)
     ELSE ld' = FALSE /\ Stay

ByteWrite ==
  /\ c_state = "WRITE"
  /\ core_txd' = sr[1] /\ ld' = FALSE /\ cmd_ack' = FALSE /\ UNCHANGED ack_out
  /\ shift' = (core_ack /\ ~cnt_done)
  /\ IF core_ack /\ cnt_done THEN GoTo("ACK", "READ") ELSE Stay

ByteRead(ack_in) ==
  /\ c_state = "READ"
  /\ ld' = FALSE /\ cmd_ack' = FALSE /\ UNCHANGED ack_out
  /\ shift' = core_ack /\ core_txd' = IF core_ack THEN ack_in ELSE sr[1]
  /\ IF core_ack /\ cnt_done THEN GoTo("ACK", "WRITE") ELSE Stay

ByteAck(stop, ack_in) ==
  /\ c_state = "ACK"
  /\ shift' = FALSE /\ ld' = FALSE
  /\ core_txd' = (core_ack \/ ack_in)
  /\ cmd_ack' = (core_ack /\ ~stop)
  /\ ack_out' = IF core_ack THEN core_rxd ELSE ack_out
  /\ CASE core_ack /\ stop -> GoTo("STOP", "STOP")
       [] core_ack /\ ~stop -> GoTo("IDLE", "NOP")
       [] OTHER -> Stay

(* Fault: STOP does not report its end. *)
ByteStopSilent ==
  /\ c_state = "STOP"
  /\ core_txd' = sr[1] /\ shift' = FALSE /\ ld' = FALSE /\ UNCHANGED ack_out
  /\ cmd_ack' = FALSE
  /\ IF core_ack THEN GoTo("IDLE", "NOP") ELSE Stay
ByteStop ==
  /\ c_state = "STOP"
  /\ core_txd' = sr[1] /\ shift' = FALSE /\ ld' = FALSE /\ UNCHANGED ack_out
  /\ cmd_ack' = core_ack
  /\ IF core_ack THEN GoTo("IDLE", "NOP") ELSE Stay

ByteCycle(start, stop, read, write, ack_in, din, scl_i, sda_i) ==
  /\ \/ ByteIdle(start, stop, read, write) \/ ByteStart(read)
     \/ ByteWrite \/ ByteRead(ack_in) \/ ByteAck(stop, ack_in) \/ ByteStop
  /\ ShiftRegister(din)
  /\ BitCycle(core_cmd, core_txd, scl_i, sda_i)

ByteTypeOK == /\ c_state \in {"IDLE", "ACK"} \union Commands
              /\ core_cmd \in {"NOP"} \union Commands
              /\ {core_txd, shift, ld, cmd_ack, ack_out} \subseteq BOOLEAN
              /\ sr \in Byte /\ dcnt \in 0..(Bits - 1)
=============================================================================
