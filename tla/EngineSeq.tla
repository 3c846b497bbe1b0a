------------------------------ MODULE EngineSeq ------------------------------
(***************************************************************************)
(* The Curve25519 engine (curve25519/engine.py): the microcode sequencer,  *)
(* the two-phase register file, the control of the multiplier, the bus     *)
(* port to the registers, and a host that runs programs and pauses them.   *)
(*                                                                         *)
(* One step is one cycle of the system clock, which is the multiplier's.   *)
(* The register file runs at twice, the sequencer at half that rate: phase *)
(* is the register file's upper phase bit, and eng_clk has its edge at the *)
(* end of a cycle with phase 1.                                            *)
(***************************************************************************)
EXTENDS EngineIsa

CONSTANTS Programs,     \* programs the host may have loaded
          MulSteps,     \* steps of MULTIPLY (15)
          PropSteps,    \* steps of CARRYPROP (14)
          AccessTicks   \* cycles between an access of the host to a CSR and its next access

ASSUME ProgramsAssumption == Programs \subseteq Program
(* DONE of the multiplier falls in the first half of an eng_clk cycle.  A CSR *)
(* access reaches eng_clk and comes back before the host's next.              *)
ASSUME StepsAssumption ==
  /\ {MulSteps, PropSteps} \subseteq Nat \ {0} /\ MulSteps % 2 = 1
  /\ AccessTicks \in Nat /\ AccessTicks >= 4

VARIABLES
  program, phase,
  go, go_stretch, power,         \* control.go (a pulse), power.pause_req
  pause_req,                     \* power in the eng_clk domain
  seq, mpc, mpc_stop, running, pause_gnt,
  instruction,                   \* the microcode memory's output register
  q_valid,                       \* of the single-cycle units
  start_pipe, mseq, step, prop, mul_q, mul_valid,   \* the multiplier
  regs, ra_dat, rb_dat, wren_pipe,                  \* the register file
  wadr, wdata, wdata_we, radr, rdata_req,           \* bus port
  bus_rd_wait, rdata_ack, ack, dat_r,
  status,                        \* status.running, status.pause_gnt
  req, gap, drv,                 \* host: its access, pause before the next, its place
  asked,                         \* history: go written, run not begun
  due                            \* history: acknowledged write not yet in the registers

seqVars == <<pause_req, seq, mpc, mpc_stop, running, pause_gnt>>
mulVars == <<start_pipe, mseq, step, prop, mul_q, mul_valid>>
rfVars == <<regs, ra_dat, rb_dat, wren_pipe>>
busVars == <<wadr, wdata, wdata_we, radr, rdata_req, bus_rd_wait, rdata_ack, ack, dat_r>>
hostVars == <<go, power, req, gap, drv>>
vars == <<program, phase, go_stretch, instruction, q_valid, status, asked, due,
          seqVars, mulVars, rfVars, busVars, hostVars>>

NoAccess == [op |-> "none", reg |-> 0, val |-> 0]
Accesses == [op : {"read"}, reg : Reg, val : {0}] \union [op : {"write"}, reg : Reg, val : Value]

(* Fault: the wait ends before a read that just missed its phase. *)
rd_wait_two == 2
rd_wait_states == 4

Init ==
  /\ program \in Programs /\ phase \in {0, 1}
  /\ go = FALSE /\ go_stretch = 0 /\ power = FALSE /\ pause_req = FALSE
  /\ seq = "IDLE" /\ mpc = 0 /\ mpc_stop = 0 /\ running = FALSE /\ pause_gnt = FALSE
  /\ instruction = program.code[0] /\ q_valid = FALSE
  /\ start_pipe = FALSE /\ mseq = "IDLE" /\ step = 0 /\ prop = 0 /\ mul_q = 0
  /\ mul_valid = FALSE
  /\ regs = [r \in Reg |-> 0] /\ ra_dat = 0 /\ rb_dat = 0 /\ wren_pipe = FALSE
  /\ wadr = 0 /\ wdata = 0 /\ wdata_we = FALSE /\ radr = 0 /\ rdata_req = FALSE
  /\ bus_rd_wait = rd_wait_states /\ rdata_ack = FALSE /\ ack = FALSE /\ dat_r = 0
  /\ status = [running |-> FALSE, pause_gnt |-> FALSE]
  /\ req = NoAccess /\ gap = 0 /\ drv = "idle"
  /\ asked = FALSE /\ due = NoAccess

-----------------------------------------------------------------------------
(* Wires. *)

(* Fault: the pulse is not stretched. *)
engine_go_pulse == go
engine_go == go \/ go_stretch # 0

(* Fault: a paused program keeps the registers from the host. *)
host_owns_idle == ~running
host_owns == ~running \/ pause_gnt
operand_a == IF instruction.ca THEN instruction.ra ELSE ra_dat
operand_b == IF instruction.cb THEN instruction.rb ELSE rb_dat
exec == seq = "EXEC" /\ instruction.op \in Logic \union {"MUL"}
done == q_valid \/ mul_valid
wd_dat == IF mul_valid THEN mul_q ELSE Alu(instruction.op, operand_a, operand_b)

-----------------------------------------------------------------------------
(* The sequencer, at an edge of eng_clk. *)


Idle ==
  /\ seq = "IDLE"
  /\ pause_gnt' = FALSE
  /\ running' = engine_go
  /\ IF engine_go
     THEN /\ mpc' = IF pause_req THEN 0 ELSE program.mpstart    \* mpresume is never set
          /\ mpc_stop' = Stop(program) /\ seq' = "FETCH"
     ELSE UNCHANGED <<mpc, mpc_stop, seq>>

(* Fault: a pause is only granted before the first instruction. *)
FetchNoPause ==
  /\ seq = "FETCH" /\ seq' = "EXEC" /\ pause_gnt' = FALSE
  /\ UNCHANGED <<mpc, mpc_stop, running>>

Fetch ==
  /\ seq = "FETCH"
  /\ pause_gnt' = pause_req
  /\ seq' = IF pause_req THEN "PAUSED" ELSE "EXEC"
  /\ UNCHANGED <<mpc, mpc_stop, running>>

Exec ==
  /\ seq = "EXEC"
  /\ running' = (instruction.op # "FIN")
  /\ seq' = CASE instruction.op = "BRZ" -> "DO_BRZ"
              [] instruction.op = "FIN" -> "IDLE"
              [] instruction.op = "ILLEGAL" -> "ILLEGAL_OPCODE"
              [] OTHER -> "WAIT_DONE"
  /\ UNCHANGED <<mpc, mpc_stop, pause_gnt>>

Continue(pc) == seq' = "FETCH" /\ mpc' = pc /\ UNCHANGED running
Finish == seq' = "IDLE" /\ running' = FALSE /\ UNCHANGED mpc
Following == IF mpc < mpc_stop THEN Continue(mpc + 1) ELSE Finish

(* Fault: a pause is granted while the instruction still runs. *)
WaitDoneGrants ==
  /\ seq = "WAIT_DONE"
  /\ IF done THEN Following ELSE UNCHANGED <<seq, mpc, running>>
  /\ pause_gnt' = pause_req /\ UNCHANGED mpc_stop

WaitDone ==
  /\ seq = "WAIT_DONE"
  /\ IF done THEN Following ELSE UNCHANGED <<seq, mpc, running>>
  /\ UNCHANGED <<mpc_stop, pause_gnt>>

IllegalOpcode == /\ seq = "ILLEGAL_OPCODE" /\ Finish
                 /\ UNCHANGED <<mpc_stop, pause_gnt>>

DoBrz ==
  LET target == (instruction.immediate + mpc + 1) % Depth IN
  /\ seq = "DO_BRZ"
  /\ IF operand_a # 0 THEN Following
     ELSE IF target < mpc_stop /\ target >= program.mpstart THEN Continue(target)
     ELSE Finish
  /\ UNCHANGED <<mpc_stop, pause_gnt>>

Paused ==
  /\ seq = "PAUSED"
  /\ pause_gnt' = pause_req
  /\ seq' = IF pause_req THEN "PAUSED" ELSE "FETCH"
  /\ UNCHANGED <<mpc, mpc_stop, running>>

Sequencer ==
  IF phase = 1
  THEN /\ Idle \/ Fetch \/ Exec \/ WaitDone \/ IllegalOpcode \/ DoBrz \/ Paused
       /\ pause_req' = power
       /\ q_valid' = (exec /\ instruction.op # "MUL")
  ELSE UNCHANGED <<seqVars, q_valid>>

stretched == IF go THEN 2 ELSE IF go_stretch # 0 THEN go_stretch - 1 ELSE 0

(* The go pulse is stretched to reach an edge of eng_clk; the microcode      *)
(* memory and the status registers follow one cycle behind.                  *)
SysRegisters ==
  /\ go_stretch' = stretched
  /\ instruction' = program.code[mpc]
  /\ status' = [running |-> running, pause_gnt |-> pause_gnt]

-----------------------------------------------------------------------------
(* The multiplier's states.  Its arithmetic ends in DONE, in the first half  *)
(* of an eng_clk cycle; two more states keep mul_valid up for a whole one.   *)

(* Fault: the result is announced without the alignment of DONE. *)
MulValidEarly == mul_valid' = (mseq \in {"DONE", "DONE2"})

(* Fault: mul_valid is a pulse of one cycle. *)
MulValidPulse == mul_valid' = (mseq = "DONE2")
MulValid == mul_valid' = (mseq \in {"DONE2", "DONE3"})

MulNext ==
  CASE mseq = "IDLE"      -> IF start_pipe THEN "SETUP_A" ELSE "IDLE"
    [] mseq = "SETUP_A"   -> "MULTIPLY"
    [] mseq = "MULTIPLY"  -> IF step < MulSteps - 1 THEN "MULTIPLY" ELSE "P_DELAY"
    [] mseq = "P_DELAY"   -> "PSUM_LSB"
    [] mseq = "PSUM_LSB"  -> "PSUM_MSB"
    [] mseq = "PSUM_MSB"  -> "CARRYPROP"
    [] mseq = "CARRYPROP" -> IF step # PropSteps - 1 THEN "CARRYPROP"
                             ELSE IF prop = 0 THEN "NORMALIZE" ELSE "DONE"
    [] mseq = "NORMALIZE" -> "CARRYPROP"
    [] mseq = "DONE"      -> "DONE2"
    [] mseq = "DONE2"     -> "DONE3"
    [] mseq = "DONE3"     -> "IDLE"

Multiplier ==
  /\ start_pipe' = (exec /\ instruction.op = "MUL")
  /\ mseq' = MulNext
  /\ step' = CASE mseq \in {"IDLE", "NORMALIZE"} -> 0
               [] mseq = "MULTIPLY"  -> IF step < MulSteps - 1 THEN step + 1 ELSE 0
               [] mseq = "CARRYPROP" -> IF step # PropSteps - 1 THEN step + 1
                                        ELSE IF prop = 0 THEN 0 ELSE step
               [] OTHER -> step
  /\ prop' = CASE mseq = "IDLE" -> 0 [] mseq = "NORMALIZE" -> 1 [] OTHER -> prop
  /\ mul_q' = IF mseq = "DONE" THEN Alu("MUL", operand_a, operand_b) ELSE mul_q
  /\ MulValid

-----------------------------------------------------------------------------
(* The register file: it reads a and b in the first half of an eng_clk cycle *)
(* if somebody uses it, and writes in the second half what was enabled in    *)
(* the first.                                                                *)

RegisterFile ==
  /\ wren_pipe' = (phase = 0 /\ IF host_owns THEN wdata_we ELSE done)
  /\ regs' = IF phase = 1 /\ wren_pipe
             THEN [regs EXCEPT ![IF host_owns THEN wadr ELSE instruction.wd] =
                                   IF host_owns THEN wdata ELSE wd_dat]
             ELSE regs
  /\ IF phase = 0 /\ (seq # "IDLE" \/ rdata_req)
     THEN /\ ra_dat' = regs[IF host_owns THEN radr ELSE instruction.ra]
          /\ rb_dat' = regs[IF host_owns THEN 0 ELSE instruction.rb]
     ELSE UNCHANGED <<ra_dat, rb_dat>>

-----------------------------------------------------------------------------
(* The bus port.  rdata_ack counts cycles of rf_clk, two in each step; the   *)
(* bus samples it between them.                                              *)

RdTick(s) == IF ~rdata_req THEN [wait |-> rd_wait_states, ack |-> FALSE]
             ELSE IF ~host_owns THEN s
             ELSE IF s.wait # 0 THEN [s EXCEPT !.wait = s.wait - 1]
             ELSE [s EXCEPT !.ack = TRUE]
RdNow == RdTick([wait |-> bus_rd_wait, ack |-> rdata_ack])

ReadWait == /\ bus_rd_wait' = RdTick(RdNow).wait
            /\ rdata_ack' = RdTick(RdNow).ack

(* Fault: a write is acknowledged whatever the phase of the register file. *)
WriteAckNow == TRUE
WriteAck == phase = 1

BusWrite ==
  /\ req.op = "write" /\ ~ack
  /\ wdata_we' = host_owns
  /\ ack' = (host_owns /\ WriteAck)
  /\ wadr' = (IF host_owns THEN req.reg ELSE wadr)
  /\ wdata' = (IF host_owns THEN req.val ELSE wdata)
  /\ UNCHANGED <<radr, rdata_req, dat_r>>

BusRead ==
  /\ req.op = "read" /\ ~ack
  /\ rdata_req' = host_owns
  /\ ack' = (host_owns /\ RdNow.ack)
  /\ radr' = (IF host_owns THEN req.reg ELSE radr)
  /\ dat_r' = (IF host_owns THEN ra_dat ELSE dat_r)
  /\ UNCHANGED <<wadr, wdata, wdata_we>>

BusQuiet ==
  /\ req.op = "none" \/ ack
  /\ wdata_we' = FALSE /\ ack' = FALSE /\ rdata_req' = FALSE
  /\ UNCHANGED <<wadr, wdata, radr, dat_r>>

Bus == ReadWait /\ (BusWrite \/ BusRead \/ BusQuiet)

-----------------------------------------------------------------------------
(* The host, a single bus master.  It polls status.running while a program   *)
(* runs, may pause it, and reads and writes registers at any time: while the *)
(* engine runs, the bus makes it wait.                                       *)

Free == req.op = "none" \/ ack

HostWait == /\ req' = IF Free THEN NoAccess ELSE req
            /\ gap' = IF gap > 0 THEN gap - 1 ELSE 0
            /\ go' = FALSE /\ UNCHANGED <<power, drv>>

HostAccess == /\ Free /\ gap = 0
              /\ req' \in Accesses
              /\ go' = FALSE /\ UNCHANGED <<power, gap, drv>>

Csr == req.op = "none" /\ gap = 0 /\ UNCHANGED req /\ gap' = AccessTicks - 1

HostGo == /\ Csr /\ drv = "idle" /\ drv' = "run"
          /\ go' = TRUE /\ UNCHANGED power

HostPollRunning == /\ Csr /\ drv = "run"
                   /\ drv' = IF status.running THEN "run" ELSE "idle"
                   /\ go' = FALSE /\ UNCHANGED power

HostPause == /\ Csr /\ drv = "run" /\ drv' = "pausing"
             /\ power' = TRUE /\ go' = FALSE

(* A program that ended meanwhile grants nothing. *)
HostPollPause == /\ Csr /\ drv = "pausing"
                 /\ drv' = IF status.pause_gnt THEN "paused"
                           ELSE IF status.running THEN "pausing" ELSE "ended"
                 /\ go' = FALSE /\ UNCHANGED power

HostResume == /\ Csr /\ drv \in {"paused", "ended"}
              /\ drv' = IF drv = "paused" THEN "run" ELSE "idle"
              /\ power' = FALSE /\ go' = FALSE

Host == \/ HostWait \/ HostAccess \/ HostGo \/ HostPollRunning
        \/ HostPause \/ HostPollPause \/ HostResume

History ==
  /\ asked' = IF go' THEN TRUE ELSE asked /\ ~(seq = "IDLE" /\ seq' = "FETCH")
  /\ due' = IF ack' /\ req.op = "write" THEN req ELSE IF phase = 1 THEN NoAccess ELSE due

Cycle == /\ phase' = 1 - phase /\ UNCHANGED program
         /\ Sequencer /\ SysRegisters /\ Multiplier /\ RegisterFile /\ Bus /\ History

Next == Host /\ Cycle

Spec == Init /\ [][Next]_vars

(* The clocks run. *)
FairSpec == Spec /\ WF_vars(Next)

-----------------------------------------------------------------------------
(* Types of the state. *)
TypeOK ==
  /\ program \in Programs /\ phase \in {0, 1} /\ go_stretch \in 0..2
  /\ {go, power, pause_req, running, pause_gnt, q_valid, start_pipe, mul_valid, wren_pipe,
      wdata_we, rdata_req, rdata_ack, ack, asked} \subseteq BOOLEAN
  /\ seq \in {"IDLE", "FETCH", "EXEC", "WAIT_DONE", "ILLEGAL_OPCODE", "DO_BRZ", "PAUSED"}
  /\ mpc \in Addr /\ mpc_stop \in Addr /\ instruction \in Instruction
  /\ mseq \in {"IDLE", "SETUP_A", "MULTIPLY", "P_DELAY", "PSUM_LSB", "PSUM_MSB",
               "CARRYPROP", "NORMALIZE", "DONE", "DONE2", "DONE3"}
  /\ step \in Nat /\ (step < MulSteps \/ step < PropSteps) /\ prop \in {0, 1} /\ bus_rd_wait \in 0..rd_wait_states
  /\ regs \in [Reg -> Value] /\ {ra_dat, rb_dat, mul_q, wdata, dat_r} \subseteq Value
  /\ {wadr, radr} \subseteq Reg
  /\ status \in [running : BOOLEAN, pause_gnt : BOOLEAN]
  /\ req \in Accesses \union {NoAccess} /\ due \in Accesses \union {NoAccess}
  /\ gap \in 0..(AccessTicks - 1) /\ drv \in {"idle", "run", "pausing", "paused", "ended"}

(* Instructions run one after the other, each whole, in the order of the      *)
(* program, however the units' latencies, the clocks' phases, pauses and host *)
(* accesses fall; the host's writes come between them.                        *)
Promise == INSTANCE Microcode
             WITH pc <- mpc,
                  owner <- IF ~running THEN "idle" ELSE IF pause_gnt THEN "paused" ELSE "engine"
InstructionsInOrder == Promise!Spec

(* A host that polls status.running leaves its loop only when the run it      *)
(* asked for has begun and ended: neither does the pulse get lost between the *)
(* clocks nor is the registered status read before it shows the run.          *)
RunObserved == drv \in {"idle", "ended"} => ~asked /\ ~running

(* When the host has seen pause_gnt, the engine stands still until the host   *)
(* lets it go on.                                                             *)
PausedMeansPaused == drv = "paused" => seq = "PAUSED" /\ pause_gnt /\ mseq = "IDLE"

(* Software can trust the status bits: that a run is over, that the engine   *)
(* stands still (engine.py:1571); and the registers stay in their ranges.    *)
StatusIsSound == TypeOK /\ RunObserved /\ PausedMeansPaused

(* A read of a register returns what is in it when it is acknowledged.        *)
HostReadIsCurrent == ack /\ req.op = "read" => dat_r = regs[req.reg]

(* An acknowledged write is in the register by the next edge of eng_clk.      *)
HostWriteLands == [][phase = 1 /\ due.op = "write" => regs'[due.reg] = due.val]_vars

(* The host reads and writes the registers that the engine works on          *)
(* (engine.py:1632, 1757).                                                   *)
HostAccessSound == []HostReadIsCurrent /\ HostWriteLands

(* The units answer: no instruction hangs the engine.                         *)
InstructionCompletes == seq = "WAIT_DONE" ~> seq # "WAIT_DONE"

(* A pause is granted, or the program ends, even in an endless loop.          *)
PauseGranted == power ~> ~power \/ pause_gnt \/ ~running

(* An access to the registers is acknowledged unless the engine runs on.      *)
BusAnswered == req.op # "none" ~> ack \/ (running /\ ~pause_gnt)

(* Nothing that is asked of the engine waits for ever: an instruction, a     *)
(* pause, an access (engine.py:1393, 1812, 1637).                            *)
EngineAnswers == InstructionCompletes /\ PauseGranted /\ BusAnswered
=============================================================================
