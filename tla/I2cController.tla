---------------------------- MODULE I2cController ---------------------------
(***************************************************************************)
(* The I2C controller as software and a device on the bus see it           *)
(* (core.py): the command register, which software writes and the hardware *)
(* clears, the status bits and the interrupt flag, over the byte and the   *)
(* bit machine.                                                            *)
(*                                                                         *)
(* A byte is Bits bits, the first on the wire first; the last bit of an    *)
(* address says whether the device is to be read.                          *)
(***************************************************************************)
EXTENDS I2cByte

CONSTANTS Sync,         \* registers between a pin and the bit machine: IDDR and MultiReg
          AccessTicks,  \* cycles from an access of software to its next one
          Poll          \* "IF" or "TIP": where software looks for the end of a command

I2cAssumption == /\ PrescaleAssumption /\ BitsAssumption
                 /\ {Sync, AccessTicks} \subseteq Nat \ {0} /\ AccessTicks >= 2
                 /\ Poll \in {"IF", "TIP"}

VARIABLES
  command, re,                 \* CSR, and its write strobe one cycle later
  txr, tip, intflag,
  scl_pipe, sda_pipe,          \* the pins on their way in
  gap, waiting,                \* software: cycles to its next access, a command is out
  slot, dir, answer, sda_dev,  \* the device: bit of the byte (-1: none yet), what it does, its bits
  scl_r, sda_r, heard,         \* the lines a cycle ago, the bits it saw
  running,  \* history: the command that left IDLE
  carried,  \* history: the last byte on the bus, as the device saw and as it drove it
  bytes,    \* history: bytes on the bus since the command left IDLE
  owned,    \* history: between START and STOP
  still     \* history: cycles since a line changed, as far as it matters

coreVars == <<command, re, txr, tip, intflag, scl_pipe, sda_pipe>>
softVars == <<gap, waiting>>
deviceVars == <<slot, dir, answer, sda_dev, scl_r, sda_r, heard>>
history == <<running, carried, bytes, owned, still>>
vars == <<bitVars, byteVars, coreVars, softVars, deviceVars, history>>

(* The bits of the command register; IACK is a pulse and not kept.           *)
Command == [sta : BOOLEAN, sto : BOOLEAN, rd : BOOLEAN, wr : BOOLEAN,
            ack : BOOLEAN, iack : BOOLEAN]
NoCommand == [sta |-> FALSE, sto |-> FALSE, rd |-> FALSE, wr |-> FALSE,
              ack |-> FALSE, iack |-> FALSE]

Frame == [0..Bits -> BOOLEAN]
Released == [i \in 0..Bits |-> TRUE]

(* Open-drain lines with a pull-up. *)
scl == scl_oen
sda == sda_oen /\ sda_dev

Settled == Sync + 2 * (Prescale \div 4 + 1) + 4

Init ==
  /\ BitInit /\ ByteInit
  /\ command = NoCommand /\ re = FALSE /\ txr = [i \in 1..Bits |-> FALSE]
  /\ tip = FALSE /\ intflag = FALSE
  /\ scl_pipe = [i \in 1..Sync |-> TRUE] /\ sda_pipe = [i \in 1..Sync |-> TRUE]
  /\ gap = 0 /\ waiting = FALSE
  /\ slot = -1 /\ dir = "off" /\ answer = Released /\ sda_dev = TRUE
  /\ scl_r = TRUE /\ sda_r = TRUE /\ heard = Released
  /\ running = NoCommand /\ bytes = 0 /\ owned = FALSE /\ still = 0
  /\ carried = [heard |-> Released, answer |-> Released]

-----------------------------------------------------------------------------
(* Software: after the core is enabled it sends one command after the other, *)
(* each when the one before has ended as far as Poll tells it.  It addresses *)
(* a device first, then reads or writes as the address says, and asks for    *)
(* STOP or another START only when the device does not drive SDA: after a     *)
(* write, or a read that it ended with a NACK.                                *)

ended == IF Poll = "IF" THEN intflag ELSE ~tip

Addresses == running.sta /\ running.wr
Reading == owned /\ IF Addresses THEN txr[Bits] /\ ~ack_out ELSE running.rd /\ ~running.ack

Sensible(c) ==
  /\ ~(c.rd /\ c.wr) /\ (c.rd \/ c.wr \/ c.sto)
  /\ c.sta => c.wr
  /\ owned \/ c.sta
  /\ IF Reading THEN c.rd ELSE ~c.rd
  /\ c.rd /\ c.sto => c.ack
  /\ ~c.rd => ~c.ack

(* A write of the register meets the hardware that clears it: which of them  *)
(* wins is up to CSRStorage; software that waits for the end never tries.    *)
WriteCommand(c) ==
  /\ command' = c \/ (cmd_ack /\ command' = NoCommand)
  /\ re' = TRUE /\ gap' = AccessTicks

(* Fault: the hardware leaves the command in its register. *)
CommandStays == UNCHANGED command
CommandCleared == command' = IF cmd_ack THEN NoCommand ELSE command

Issue == /\ gap = 0
         /\ waiting => ended
         /\ \E c \in Command : Sensible(c) /\ c.iack = intflag /\ WriteCommand(c)
         /\ txr' \in IF command'.wr THEN Byte ELSE {txr}
         /\ command'.sta /\ command'.sto => ~txr'[Bits]
         /\ waiting' = TRUE

Acknowledge == /\ gap = 0 /\ waiting /\ ended /\ intflag
               /\ WriteCommand([NoCommand EXCEPT !.iack = TRUE])
               /\ waiting' = FALSE /\ UNCHANGED txr

Pass == /\ CommandCleared /\ re' = FALSE
        /\ gap' = IF gap > 0 THEN gap - 1 ELSE 0
        /\ UNCHANGED <<txr, waiting>>

Software == Issue \/ Acknowledge \/ Pass

-----------------------------------------------------------------------------
(* core.py: what it passes to the byte machine, and its status bits. *)

iack == re /\ command.iack

ByteMachine == ByteCycle(command.sta, command.sto /\ ~cmd_ack, command.rd /\ ~cmd_ack,
                         command.wr /\ ~cmd_ack, command.ack, txr, scl_pipe[Sync], sda_pipe[Sync])

Intflag == intflag' = ((cmd_ack \/ intflag) /\ ~iack)

Tip == tip' = (command.rd \/ command.wr)

Inputs == /\ scl_pipe' = [i \in 1..Sync |-> IF i = 1 THEN scl ELSE scl_pipe[i - 1]]
          /\ sda_pipe' = [i \in 1..Sync |-> IF i = 1 THEN sda ELSE sda_pipe[i - 1]]

-----------------------------------------------------------------------------
(* The device on the bus. *)

startSeen == scl /\ scl_r /\ sda_r /\ ~sda
stopSeen == scl /\ scl_r /\ ~sda_r /\ sda
rises == scl /\ ~scl_r
falls == ~scl /\ scl_r
byteEnds == falls /\ slot = Bits

NextDir == CASE heard[Bits] \/ dir = "off" -> "off"
             [] ~heard[Bits] /\ dir = "address" -> IF heard[Bits - 1] THEN "send" ELSE "take"
             [] OTHER -> dir

(* What the device may drive in a byte: nothing, its acknowledge, its data.  *)
Answers(d) == CASE d = "off" -> {Released}
                [] d = "send" -> {a \in Frame : a[Bits]}
                [] OTHER -> {[Released EXCEPT ![Bits] = nack] : nack \in BOOLEAN}

Device ==
  /\ scl_r' = scl /\ sda_r' = sda
  /\ heard' = IF rises /\ slot >= 0 THEN [heard EXCEPT ![slot] = sda] ELSE heard
  /\ slot' = CASE startSeen \/ stopSeen -> -1
               [] falls -> (slot + 1) % (Bits + 1)
               [] OTHER -> slot
  /\ dir' = CASE startSeen -> "address" [] stopSeen -> "off" [] byteEnds -> NextDir [] OTHER -> dir
  /\ answer' \in IF startSeen \/ stopSeen \/ byteEnds THEN Answers(dir') ELSE {answer}
  /\ sda_dev' = IF falls THEN answer'[slot'] ELSE sda_dev

-----------------------------------------------------------------------------
leavesIdle == c_state = "IDLE" /\ c_state' # "IDLE"

Observe ==
  /\ running' = IF leavesIdle THEN command ELSE running
  /\ carried' = IF byteEnds THEN [heard |-> heard, answer |-> answer] ELSE carried
  /\ bytes' = CASE leavesIdle -> 0 [] ~leavesIdle /\ byteEnds /\ bytes < 2 -> bytes + 1 [] OTHER -> bytes
  /\ owned' = ((owned \/ startSeen) /\ ~stopSeen)
  /\ still' = CASE scl # scl_r \/ sda # sda_r -> 0
                [] still < Settled -> still + 1
                [] OTHER -> still

Cycle == Software /\ ByteMachine /\ Intflag /\ Tip /\ Inputs /\ Device /\ Observe

Next == Cycle
Spec == Init /\ [][Next]_vars
FairSpec == Spec /\ WF_vars(Next)

TypeOK ==
  /\ BitTypeOK /\ ByteTypeOK
  /\ command \in Command /\ running \in Command /\ txr \in Byte
  /\ {re, tip, intflag, waiting, sda_dev, scl_r, sda_r, owned} \subseteq BOOLEAN
  /\ gap \in 0..AccessTicks /\ bytes \in 0..2 /\ still \in 0..Settled
  /\ slot \in -1..Bits /\ dir \in {"off", "address", "send", "take"}
  /\ {answer, heard, carried.heard, carried.answer} \subseteq Frame

-----------------------------------------------------------------------------
(* When a command is done it has been carried out: the byte crossed the bus  *)
(* once, with the acknowledge of the right side, both ends have the same     *)
(* bits, and the bus is given back if and only if STOP was asked for.        *)
WriteAgrees == running.wr => /\ \A i \in 1..Bits : carried.heard[i - 1] = txr[i]
                             /\ ack_out = carried.heard[Bits]
ReadAgrees == running.rd => /\ \A i \in 1..Bits : sr[i] = carried.answer[i - 1]
                            /\ carried.heard[Bits] = running.ack
CommandCarriedOut ==
  cmd_ack => /\ WriteAgrees /\ ReadAgrees
             /\ bytes = IF running.rd \/ running.wr THEN 1 ELSE 0
             /\ owned = ~running.sto

(* The hardware clears the command that it has carried out and no other.     *)
ClearsItsOwn == cmd_ack => [command EXCEPT !.iack = running.iack] = running

(* START and STOP appear on the bus only where the command asks for them,     *)
(* START before the byte and STOP after it, and SDA never moves together     *)
(* with SCL.                                                                 *)
LinesInOrder ==
  /\ startSeen => running.sta /\ bytes = 0
  /\ stopSeen => running.sto /\ bytes = IF running.rd \/ running.wr THEN 1 ELSE 0
  /\ rises \/ falls => sda = sda_r

(* The busy bit tells whether the bus is taken, from START to STOP, once the *)
(* lines have been still for as long as synchronizer and filter take; the    *)
(* bit machine says so ("generate i2c bus busy signal", bit_ctrl.v:285).  The *)
(* register's description says "busy processing the latest command"          *)
(* (core.py:52), which the bit does not tell: after a byte without STOP the  *)
(* command is over and the bit still set.                                    *)
BusyFollowsBus == still = Settled => busy = owned

(* An I2C command is carried out as the registers say when it ends: the byte *)
(* sent, the byte received, the acknowledgement, on the lines as in the      *)
(* registers; and it takes its own bits out of the command register and none *)
(* that software wrote since (core.py:164).                                  *)
I2cCommands == TypeOK /\ CommandCarriedOut /\ ClearsItsOwn

(* START, STOP and the moves of SDA come only where the command asks for     *)
(* them, and the busy bit tells whether the bus is taken, not, as its        *)
(* description has it (core.py:52), whether a command runs.                  *)
I2cBusInOrder == LinesInOrder /\ BusyFollowsBus

(* Every command ends and raises the interrupt flag. *)
CommandCompletes == (command.rd \/ command.wr \/ command.sto) ~> intflag
=============================================================================
