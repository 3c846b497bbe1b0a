--------------------------- MODULE EngineSeq_proofs ---------------------------
(***************************************************************************)
(* Proofs about EngineSeq for every memory size, every set of programs and *)
(* every latency of the multiplier's two loops: the status bits can be     *)
(* trusted, the host's accesses of the registers are sound, and the engine *)
(* implements Microcode, one whole instruction after the other.            *)
(***************************************************************************)
EXTENDS EngineSeq, TLAPS

(* The host has the registers exactly in these states of the sequencer. *)
Yielded == seq \in {"IDLE", "PAUSED"}

(* The sequencer and what it works on: the memory's output is the word at mpc *)
(* from the second half of FETCH on.                                          *)
Sequenced ==
  /\ running <=> seq # "IDLE"
  /\ pause_gnt <=> seq = "PAUSED"
  /\ (phase = 1 \/ seq # "FETCH") => instruction = program.code[mpc]
  /\ seq # "IDLE" => mpc_stop = Stop(program)
  /\ seq = "WAIT_DONE" => instruction.op \in Logic \union {"MUL"}
  /\ seq = "DO_BRZ" => instruction.op = "BRZ"
  /\ seq = "ILLEGAL_OPCODE" => instruction.op = "ILLEGAL"

(* A unit works only for the instruction that waits for it. *)
Units ==
  /\ q_valid <=> seq = "WAIT_DONE" /\ instruction.op \in Logic
  /\ seq = "EXEC" /\ phase = 1 => (start_pipe <=> instruction.op = "MUL")
  /\ start_pipe => \/ seq = "EXEC" /\ phase = 1
                   \/ seq = "WAIT_DONE" /\ phase = 0 /\ mseq = "SETUP_A"
  /\ (mseq # "IDLE" \/ mul_valid) => seq = "WAIT_DONE" /\ instruction.op = "MUL"

(* The half of the eng_clk cycle in which the multiplier is in each state, so *)
(* that mul_valid is up for a whole one.                                      *)
Beat ==
  /\ mseq \in {"SETUP_A", "P_DELAY", "PSUM_MSB", "DONE", "DONE3"} => phase = 0
  /\ mseq \in {"PSUM_LSB", "DONE2"} => phase = 1
  /\ mseq = "MULTIPLY" => (phase + step) % 2 = 1 /\ step < MulSteps
  /\ mseq = "CARRYPROP" =>
       /\ step < PropSteps
       /\ IF prop = 0 THEN (phase + step) % 2 = 1 ELSE (phase + step + PropSteps) % 2 = 0
  /\ mseq = "NORMALIZE" => (phase + PropSteps) % 2 = 1
  /\ mseq \in {"SETUP_A", "P_DELAY", "PSUM_LSB", "PSUM_MSB"} => step = 0
  /\ mseq \in {"SETUP_A", "MULTIPLY", "P_DELAY", "PSUM_LSB", "PSUM_MSB"} => prop = 0
  /\ mul_valid => mseq = "DONE3" \/ (mseq = "IDLE" /\ phase = 1)
  /\ mseq = "DONE3" => mul_valid

(* The operands of the instruction, and the product once it is announced. *)
Operands ==
  /\ (seq \in {"WAIT_DONE", "DO_BRZ"} \/ (seq = "EXEC" /\ phase = 1)) =>
       ra_dat = regs[instruction.ra] /\ rb_dat = regs[instruction.rb]
  /\ (mseq \in {"DONE2", "DONE3"} \/ mul_valid) => mul_q = operand_a * operand_b

(* Who may write the registers at the next edge of eng_clk. *)
Writers ==
  /\ wren_pipe => phase = 1
  /\ phase = 1 /\ ~Yielded => (wren_pipe <=> done)
  /\ wdata_we => req.op = "write" /\ Yielded /\ wadr = req.reg /\ wdata = req.val
  /\ ack => req.op # "none"
  /\ due.op = "write" => /\ Yielded /\ wadr = due.reg /\ wdata = due.val
                         /\ IF phase = 0 THEN ack /\ wdata_we ELSE wren_pipe

(* After an access of the host to a CSR the registers are left alone. *)
Spaced == gap > 0 => req.op = "none" /\ (Yielded => ~wren_pipe)

(* A go on its way to the sequencer. *)
Launch ==
  /\ asked => /\ seq = "IDLE" /\ drv = "run" /\ ~pause_req
              /\ go \/ (go_stretch = 2 /\ phase = 1)
  /\ go => asked /\ gap = AccessTicks - 1 /\ go_stretch = 0
  /\ go_stretch = 2 => gap = AccessTicks - 2 /\ (asked <=> phase = 1)
  /\ go_stretch = 1 => gap = AccessTicks - 3 /\ ~asked
  /\ go_stretch # 0 => asked \/ seq = "FETCH"

(* A pause on its way to the sequencer and back, and its end. *)
Pausing ==
  /\ power <=> drv \in {"pausing", "paused", "ended"}
  /\ pause_req /\ ~power =>
       /\ gap = AccessTicks - 1 \/ (gap = AccessTicks - 2 /\ phase = 1)
       /\ seq = IF drv = "run" THEN "PAUSED" ELSE "IDLE"
  /\ seq = "PAUSED" /\ ~pause_req =>
       /\ drv = "run" /\ req.op = "none" /\ ~wren_pipe
       /\ gap + phase \in {AccessTicks - 2, AccessTicks - 3}
  /\ drv = "paused" => seq = "PAUSED" /\ pause_req
  /\ drv \in {"idle", "ended"} => seq = "IDLE" /\ ~asked

(* What the status registers, one cycle late, still say. *)
Late ==
  /\ seq # "IDLE" /\ ~status.running => go_stretch # 0
  /\ status.pause_gnt /\ seq # "PAUSED" =>
       /\ seq = "FETCH" /\ phase = 0
       /\ drv = "run" \/ (drv = "pausing" /\ gap = AccessTicks - 1)

(* A read of the host: the wait covers a first half, in which ra_dat is read. *)
Reading ==
  /\ rdata_req => req.op = "read" /\ Yielded /\ radr = req.reg /\ ~wren_pipe
  /\ rdata_req /\ ~ack =>
       /\ ~rdata_ack /\ bus_rd_wait \in {0, 2, 4}
       /\ (bus_rd_wait = 0 \/ (bus_rd_wait = 2 /\ phase = 1)) => ra_dat = regs[radr]
  /\ HostReadIsCurrent

(* The inductive invariant: what the sequencer and its units do, and what the *)
(* host sees of them.                                                         *)
EngineInv == TypeOK /\ Sequenced /\ Units /\ Beat /\ Operands
PortInv == Writers /\ Spaced /\ Launch /\ Pausing /\ Late /\ Reading

-----------------------------------------------------------------------------
(* The Boolean part of the state. *)
LEMMA Bits ==
  ASSUME TypeOK
  PROVE  /\ go \in BOOLEAN /\ power \in BOOLEAN /\ pause_req \in BOOLEAN /\ running \in BOOLEAN
         /\ pause_gnt \in BOOLEAN /\ q_valid \in BOOLEAN /\ start_pipe \in BOOLEAN
         /\ mul_valid \in BOOLEAN /\ wren_pipe \in BOOLEAN /\ wdata_we \in BOOLEAN
         /\ rdata_req \in BOOLEAN /\ rdata_ack \in BOOLEAN /\ ack \in BOOLEAN /\ asked \in BOOLEAN
BY DEF TypeOK

(* A program, its words and the bounds of its run. *)
LEMMA ProgramParts ==
  ASSUME TypeOK
  PROVE  /\ program \in Program /\ program.mpstart \in Addr /\ Stop(program) \in Addr
         /\ \A a \in Addr : program.code[a] \in Instruction
<1>1. program \in Program
  BY ProgramsAssumption DEF TypeOK
<1>2. /\ program.mpstart \in 0..Depth-1 /\ program.mplen \in 0..Depth-1
      /\ \A a \in Addr : program.code[a] \in Instruction
  BY <1>1 DEF Program, Addr
<1>3. program.mpstart + program.mplen >= 1 => Stop(program) \in 0..Depth-1
  BY <1>2, DepthAssumption DEF Stop
<1>4. program.mpstart + program.mplen = 0 => Stop(program) \in 0..Depth-1
  BY <1>2, DepthAssumption DEF Stop
<1> QED BY <1>1, <1>2, <1>3, <1>4, DepthAssumption DEF Addr

(* The units compute values from values. *)
LEMMA AluValue ==
  ASSUME NEW op \in Logic \union {"MUL"}, NEW a \in Value, NEW b \in Value
  PROVE  Alu(op, a, b) \in Value
BY DEF Logic, Value, Alu

(* The operands are values. *)
LEMMA OperandValue ==
  ASSUME TypeOK
  PROVE  operand_a \in Value /\ operand_b \in Value
BY DEF TypeOK, operand_a, operand_b, Instruction, Reg, Value

(* An instruction's fields. *)
LEMMA InstructionParts ==
  ASSUME TypeOK
  PROVE  /\ instruction.op \in Opcode /\ instruction.ra \in Reg /\ instruction.rb \in Reg
         /\ instruction.wd \in Reg /\ instruction.immediate \in Addr
BY DEF TypeOK, Instruction

(* The host's access, and what a write of it writes. *)
LEMMA AccessParts ==
  ASSUME TypeOK
  PROVE  /\ req.op \in {"none", "read", "write"} /\ req.reg \in Reg /\ req.val \in Value
         /\ due.op \in {"none", "read", "write"} /\ due.reg \in Reg /\ due.val \in Value
         /\ NoAccess.op = "none"
BY DEF TypeOK, Accesses, NoAccess, Reg, Value

-----------------------------------------------------------------------------
(* Types. *)

(* The addresses that the sequencer goes to are addresses. *)
LEMMA NextAddr ==
  ASSUME TypeOK
  PROVE  /\ 0 \in Addr
         /\ mpc < mpc_stop => mpc + 1 \in Addr
         /\ (instruction.immediate + mpc + 1) % Depth \in Addr
<1>1. instruction.immediate \in Nat /\ mpc \in Nat
  BY InstructionParts DEF TypeOK, Addr
<1>2. \A n \in Nat : n % Depth \in 0..Depth-1
  BY DepthAssumption
<1>3. instruction.immediate + mpc + 1 \in Nat
  BY <1>1
<1>4. (instruction.immediate + mpc + 1) % Depth \in Addr
  BY <1>2, <1>3 DEF Addr
<1> QED BY <1>4, DepthAssumption DEF TypeOK, Addr

(* The sequencer keeps the types. *)
LEMMA SequencerTypes ==
  ASSUME TypeOK, Sequencer
  PROVE  /\ seq' \in {"IDLE", "FETCH", "EXEC", "WAIT_DONE", "ILLEGAL_OPCODE", "DO_BRZ", "PAUSED"}
         /\ mpc' \in Addr /\ mpc_stop' \in Addr
         /\ pause_req' \in BOOLEAN /\ running' \in BOOLEAN /\ pause_gnt' \in BOOLEAN
         /\ q_valid' \in BOOLEAN
<1>1. CASE phase # 1
  BY <1>1, Bits DEF Sequencer, seqVars, TypeOK
<1>2. CASE phase = 1
  <2>0. pause_req' \in BOOLEAN /\ q_valid' \in BOOLEAN
    <3>1. pause_req' = power /\ q_valid' = (exec /\ instruction.op # "MUL")
      BY <1>2 DEF Sequencer
    <3> QED BY <3>1, Bits
  <2>1. CASE Idle
    BY <2>0, <2>1, NextAddr, ProgramParts, Bits DEF Idle, TypeOK, engine_go
  <2>2. CASE Fetch
    BY <2>0, <2>2, Bits DEF Fetch, TypeOK
  <2>3. CASE Exec
    BY <2>0, <2>3, Bits DEF Exec, TypeOK
  <2>4. CASE WaitDone
    BY <2>0, <2>4, NextAddr, Bits DEF WaitDone, Following, Continue, Finish, TypeOK
  <2>5. CASE IllegalOpcode
    BY <2>0, <2>5, Bits DEF IllegalOpcode, Finish, TypeOK
  <2>6. CASE DoBrz
    BY <2>0, <2>6, NextAddr, Bits DEF DoBrz, Following, Continue, Finish, TypeOK
  <2>7. CASE Paused
    BY <2>0, <2>7, Bits DEF Paused, TypeOK
  <2> QED BY <1>2, <2>1, <2>2, <2>3, <2>4, <2>5, <2>6, <2>7 DEF Sequencer
<1> QED BY <1>1, <1>2

(* The multiplier keeps the types. *)
LEMMA MultiplierTypes ==
  ASSUME TypeOK, Beat, Multiplier
  PROVE  /\ start_pipe' \in BOOLEAN /\ mul_valid' \in BOOLEAN /\ mul_q' \in Value
         /\ mseq' \in {"IDLE", "SETUP_A", "MULTIPLY", "P_DELAY", "PSUM_LSB", "PSUM_MSB",
                       "CARRYPROP", "NORMALIZE", "DONE", "DONE2", "DONE3"}
         /\ step' \in Nat /\ (step' < MulSteps \/ step' < PropSteps) /\ prop' \in {0, 1}
<1>1. start_pipe' \in BOOLEAN /\ mul_valid' \in BOOLEAN
  BY DEF Multiplier, MulValid
<1>2. mul_q' \in Value
  BY AluValue, OperandValue DEF Multiplier, TypeOK
<1>3. mseq' \in {"IDLE", "SETUP_A", "MULTIPLY", "P_DELAY", "PSUM_LSB", "PSUM_MSB",
                 "CARRYPROP", "NORMALIZE", "DONE", "DONE2", "DONE3"}
  BY DEF Multiplier, MulNext, TypeOK
<1>4. step' \in Nat /\ (step' < MulSteps \/ step' < PropSteps)
  <2>1. MulSteps \in Nat \ {0} /\ PropSteps \in Nat \ {0}
    BY StepsAssumption
  <2>2. step \in Nat /\ (step < MulSteps \/ step < PropSteps)
    BY DEF TypeOK
  <2>3. CASE mseq \in {"IDLE", "NORMALIZE"}
    BY <2>1, <2>3 DEF Multiplier
  <2>4. CASE mseq = "MULTIPLY"
    BY <2>1, <2>2, <2>4 DEF Multiplier
  <2>5. CASE mseq = "CARRYPROP"
    BY <2>1, <2>2, <2>5 DEF Multiplier, Beat
  <2>6. CASE mseq \notin {"IDLE", "NORMALIZE", "MULTIPLY", "CARRYPROP"}
    BY <2>2, <2>6 DEF Multiplier
  <2> QED BY <2>3, <2>4, <2>5, <2>6
<1>5. prop' \in {0, 1}
  BY DEF Multiplier, TypeOK
<1> QED BY <1>1, <1>2, <1>3, <1>4, <1>5

(* A tick of the wait for a read. *)
LEMMA TickIs ==
  ASSUME NEW w, NEW b
  PROVE  RdTick([wait |-> w, ack |-> b]) =
           [wait |-> IF ~rdata_req THEN 4 ELSE IF ~host_owns \/ w = 0 THEN w ELSE w - 1,
            ack |-> IF ~rdata_req THEN FALSE ELSE IF host_owns /\ w = 0 THEN TRUE ELSE b]
BY DEF RdTick, rd_wait_states

(* A tick keeps the types. *)
LEMMA TickType ==
  ASSUME NEW w \in 0..rd_wait_states, NEW b \in BOOLEAN
  PROVE  \E v \in 0..rd_wait_states, c \in BOOLEAN :
           RdTick([wait |-> w, ack |-> b]) = [wait |-> v, ack |-> c]
<1>1. (IF ~rdata_req THEN 4 ELSE IF ~host_owns \/ w = 0 THEN w ELSE w - 1) \in 0..rd_wait_states
  BY DEF rd_wait_states
<1>2. (IF ~rdata_req THEN FALSE ELSE IF host_owns /\ w = 0 THEN TRUE ELSE b) \in BOOLEAN
  OBVIOUS
<1> QED BY <1>1, <1>2, TickIs

(* The bus port keeps the types. *)
LEMMA BusTypes ==
  ASSUME TypeOK, Bus
  PROVE  /\ wdata_we' \in BOOLEAN /\ rdata_req' \in BOOLEAN /\ rdata_ack' \in BOOLEAN
         /\ ack' \in BOOLEAN /\ bus_rd_wait' \in 0..rd_wait_states
         /\ {wadr', radr'} \subseteq Reg /\ {wdata', dat_r'} \subseteq Value
<1>1. bus_rd_wait' \in 0..rd_wait_states /\ rdata_ack' \in BOOLEAN
  <2>1. bus_rd_wait \in 0..rd_wait_states /\ rdata_ack \in BOOLEAN
    BY Bits DEF TypeOK
  <2>2. PICK w \in 0..rd_wait_states, b \in BOOLEAN : RdNow = [wait |-> w, ack |-> b]
    BY <2>1, TickType DEF RdNow
  <2>3. PICK v \in 0..rd_wait_states, c \in BOOLEAN : RdTick(RdNow) = [wait |-> v, ack |-> c]
    BY <2>2, TickType
  <2>4. bus_rd_wait' = v /\ rdata_ack' = c
    BY <2>3 DEF Bus, ReadWait
  <2> QED BY <2>4
<1>2. CASE BusWrite
  BY <1>1, <1>2, AccessParts, Bits, Zenon DEF BusWrite, TypeOK, WriteAck, host_owns
<1>3. CASE BusRead
  BY <1>1, <1>3, AccessParts, Bits DEF BusRead, TypeOK, host_owns
<1>4. CASE BusQuiet
  BY <1>1, <1>4 DEF BusQuiet, TypeOK
<1> QED BY <1>2, <1>3, <1>4 DEF Bus

(* The host has the registers when the sequencer is idle or paused. *)
LEMMA Owns ==
  ASSUME TypeOK, Sequenced
  PROVE  host_owns <=> Yielded
BY Bits DEF Sequenced, host_owns, Yielded

(* What the register file does to its state. *)
LEMMA RegsMove ==
  ASSUME TypeOK, Sequenced, RegisterFile
  PROVE  /\ phase = 0 \/ ~wren_pipe => regs' = regs
         /\ phase = 1 /\ wren_pipe /\ Yielded => regs' = [regs EXCEPT ![wadr] = wdata]
         /\ phase = 1 /\ wren_pipe /\ ~Yielded => regs' = [regs EXCEPT ![instruction.wd] = wd_dat]
         /\ wren_pipe' \in BOOLEAN /\ (wren_pipe' => phase = 0)
         /\ phase = 0 => (wren_pipe' <=> IF Yielded THEN wdata_we ELSE done)
         /\ phase = 0 /\ ~Yielded => ra_dat' = regs[instruction.ra] /\ rb_dat' = regs[instruction.rb]
         /\ phase = 0 /\ Yielded /\ rdata_req => ra_dat' = regs[radr]
         /\ phase = 1 => ra_dat' = ra_dat /\ rb_dat' = rb_dat
<1>1. host_owns <=> Yielded
  BY Owns
<1>2. wren_pipe' = (phase = 0 /\ IF host_owns THEN wdata_we ELSE done)
  BY DEF RegisterFile
<1>3. /\ wren_pipe' \in BOOLEAN /\ (wren_pipe' => phase = 0)
      /\ phase = 0 => (wren_pipe' <=> IF Yielded THEN wdata_we ELSE done)
  BY <1>1, <1>2, Bits, Zenon DEF done
<1>4. ~Yielded => seq # "IDLE"
  BY DEF Yielded
<1>5. regs' = IF phase = 1 /\ wren_pipe
              THEN [regs EXCEPT ![IF host_owns THEN wadr ELSE instruction.wd] =
                                  IF host_owns THEN wdata ELSE wd_dat]
              ELSE regs
  BY DEF RegisterFile
<1>6. IF phase = 0 /\ (seq # "IDLE" \/ rdata_req)
      THEN /\ ra_dat' = regs[IF host_owns THEN radr ELSE instruction.ra]
           /\ rb_dat' = regs[IF host_owns THEN 0 ELSE instruction.rb]
      ELSE ra_dat' = ra_dat /\ rb_dat' = rb_dat
  BY DEF RegisterFile
<1>7. phase = 0 \/ ~wren_pipe => regs' = regs
  BY <1>5
<1>8. phase = 1 /\ wren_pipe /\ Yielded => regs' = [regs EXCEPT ![wadr] = wdata]
  BY <1>1, <1>5
<1>9. phase = 1 /\ wren_pipe /\ ~Yielded => regs' = [regs EXCEPT ![instruction.wd] = wd_dat]
  BY <1>1, <1>5
<1>10. phase = 0 /\ ~Yielded => ra_dat' = regs[instruction.ra] /\ rb_dat' = regs[instruction.rb]
  BY <1>1, <1>4, <1>6
<1>11. /\ phase = 0 /\ Yielded /\ rdata_req => ra_dat' = regs[radr]
       /\ phase = 1 => ra_dat' = ra_dat /\ rb_dat' = rb_dat
  BY <1>1, <1>6
<1> QED BY <1>3, <1>7, <1>8, <1>9, <1>10, <1>11

(* What an instruction writes is a value. *)
LEMMA WrittenValue ==
  ASSUME TypeOK, Sequenced, Units, Writers, phase = 1, wren_pipe, ~Yielded
  PROVE  wd_dat \in Value
<1>1. q_valid \/ mul_valid
  BY DEF Writers, done
<1>2. CASE mul_valid
  BY <1>2 DEF TypeOK, wd_dat
<1>3. CASE ~mul_valid
  <2>1. instruction.op \in Logic \union {"MUL"}
    BY <1>1, <1>3 DEF Units
  <2> QED BY <1>3, <2>1, AluValue, OperandValue DEF wd_dat
<1> QED BY <1>2, <1>3

(* The register file keeps the types. *)
LEMMA RegisterTypes ==
  ASSUME TypeOK, Sequenced, Units, Writers, RegisterFile
  PROVE  regs' \in [Reg -> Value] /\ {ra_dat', rb_dat'} \subseteq Value /\ wren_pipe' \in BOOLEAN
<1>1. regs \in [Reg -> Value] /\ wadr \in Reg /\ wdata \in Value /\ radr \in Reg /\ phase \in {0, 1}
  BY DEF TypeOK
<1>2. \A r \in Reg, v \in Value : [regs EXCEPT ![r] = v] \in [Reg -> Value]
  BY <1>1
<1>3. regs' \in [Reg -> Value]
  BY <1>1, <1>2, RegsMove, WrittenValue, InstructionParts
<1>4. 0 \in Reg
  BY DEF Reg
<1>5. ra_dat' \in Value /\ rb_dat' \in Value
  BY <1>1, <1>4, InstructionParts DEF RegisterFile, TypeOK
<1> QED BY <1>3, <1>5, RegsMove

(* What the host does: nothing to a CSR, or an access of one. *)
LEMMA HostMoves ==
  ASSUME TypeOK, Host
  PROVE  \/ /\ go' = FALSE /\ power' = power /\ drv' = drv
            /\ gap' = IF gap > 0 THEN gap - 1 ELSE 0
            /\ \/ req' = IF Free THEN NoAccess ELSE req
               \/ gap = 0 /\ Free /\ req' \in Accesses
         \/ /\ gap = 0 /\ gap' = AccessTicks - 1 /\ req.op = "none" /\ req' = req
            /\ \/ drv = "idle" /\ drv' = "run" /\ go' = TRUE /\ power' = power
               \/ drv = "run" /\ drv' = "pausing" /\ go' = FALSE /\ power' = TRUE
               \/ /\ drv = "run" /\ go' = FALSE /\ power' = power
                  /\ drv' = IF status.running THEN "run" ELSE "idle"
               \/ /\ drv = "pausing" /\ go' = FALSE /\ power' = power
                  /\ drv' = IF status.pause_gnt THEN "paused"
                            ELSE IF status.running THEN "pausing" ELSE "ended"
               \/ drv = "paused" /\ drv' = "run" /\ go' = FALSE /\ power' = FALSE
               \/ drv = "ended" /\ drv' = "idle" /\ go' = FALSE /\ power' = FALSE
<1>0. gap \in Nat /\ drv \in {"idle", "run", "pausing", "paused", "ended"}
  BY StepsAssumption DEF TypeOK
<1>1. CASE HostWait
  BY <1>1 DEF HostWait
<1>2. CASE HostAccess
  BY <1>0, <1>2 DEF HostAccess
<1>3. CASE HostGo
  BY <1>3 DEF HostGo, Csr
<1>4. CASE HostPollRunning
  BY <1>4 DEF HostPollRunning, Csr
<1>5. CASE HostPause
  BY <1>5 DEF HostPause, Csr
<1>6. CASE HostPollPause
  BY <1>6 DEF HostPollPause, Csr
<1>7. CASE HostResume
  BY <1>0, <1>7 DEF HostResume, Csr
<1> QED BY <1>1, <1>2, <1>3, <1>4, <1>5, <1>6, <1>7 DEF Host

(* When the host may turn to a CSR, it does or it leaves the CSRs alone. *)
LEMMA HostTurns ==
  ASSUME Host, gap = 0
  PROVE  \/ go' = FALSE /\ power' = power /\ drv' = drv /\ gap' = 0
         \/ gap' = AccessTicks - 1 /\ req.op = "none" /\ req' = req
<1>1. CASE HostWait
  BY <1>1 DEF HostWait
<1>2. CASE HostAccess
  BY <1>2 DEF HostAccess
<1>3. CASE HostGo \/ HostPollRunning \/ HostPause \/ HostPollPause \/ HostResume
  BY <1>3 DEF HostGo, HostPollRunning, HostPause, HostPollPause, HostResume, Csr
<1> QED BY <1>1, <1>2, <1>3 DEF Host

(* Between two accesses of CSRs the host only waits. *)
LEMMA HostPauses ==
  ASSUME TypeOK, Host, gap > 0
  PROVE  /\ go' = FALSE /\ power' = power /\ drv' = drv /\ gap' = gap - 1
         /\ req' = IF Free THEN NoAccess ELSE req
<1>1. gap \in Nat /\ gap # 0
  BY StepsAssumption DEF TypeOK
<1> QED BY <1>1, HostMoves

(* The host keeps the types. *)
LEMMA HostTypes ==
  ASSUME TypeOK, Host
  PROVE  /\ go' \in BOOLEAN /\ power' \in BOOLEAN
         /\ req' \in Accesses \union {NoAccess}
         /\ gap' \in 0..(AccessTicks - 1) /\ drv' \in {"idle", "run", "pausing", "paused", "ended"}
<1>1. /\ gap \in 0..(AccessTicks - 1) /\ req \in Accesses \union {NoAccess} /\ power \in BOOLEAN
      /\ drv \in {"idle", "run", "pausing", "paused", "ended"}
      /\ AccessTicks \in Nat /\ AccessTicks >= 4
  BY StepsAssumption DEF TypeOK
<1>2. go' \in BOOLEAN /\ power' \in BOOLEAN
  BY <1>1, HostMoves
<1>3. req' \in Accesses \union {NoAccess}
  <2>1. req' \in {NoAccess, req} \/ req' \in Accesses
    BY HostMoves
  <2> QED BY <1>1, <2>1
<1>4. gap' \in 0..(AccessTicks - 1)
  <2>1. gap' \in {IF gap > 0 THEN gap - 1 ELSE 0, AccessTicks - 1}
    BY HostMoves
  <2> QED BY <1>1, <2>1
<1>5. drv' \in {"idle", "run", "pausing", "paused", "ended"}
  BY <1>1, HostMoves
<1> QED BY <1>2, <1>3, <1>4, <1>5

(* The registers between the clocks and the history keep the types. *)
LEMMA RestTypes ==
  ASSUME TypeOK, SysRegisters, History
  PROVE  /\ go_stretch' \in 0..2 /\ instruction' \in Instruction
         /\ status' \in [running : BOOLEAN, pause_gnt : BOOLEAN]
         /\ asked' \in BOOLEAN /\ due' \in Accesses \union {NoAccess}
<1>1. go_stretch' \in 0..2
  BY DEF TypeOK, SysRegisters, stretched
<1>2. instruction' \in Instruction
  BY ProgramParts DEF TypeOK, SysRegisters
<1>3. status' \in [running : BOOLEAN, pause_gnt : BOOLEAN]
  BY Bits DEF SysRegisters
<1>4. asked' \in BOOLEAN
  BY Bits, Zenon DEF History
<1>5. due' \in Accesses \union {NoAccess}
  BY DEF TypeOK, History
<1> QED BY <1>1, <1>2, <1>3, <1>4, <1>5

(* A cycle keeps the types. *)
LEMMA TypeStep ==
  ASSUME TypeOK, Sequenced, Units, Beat, Writers, Next
  PROVE  TypeOK'
<1>1. Host /\ Cycle
  BY DEF Next
<1>2. /\ program' = program /\ phase' = 1 - phase
      /\ Sequencer /\ SysRegisters /\ Multiplier /\ RegisterFile /\ Bus /\ History
  BY <1>1 DEF Cycle
<1>3. program' \in Programs /\ phase' \in {0, 1}
  BY <1>2 DEF TypeOK
<1>4. {go', power', pause_req', running', pause_gnt', q_valid', start_pipe', mul_valid', wren_pipe',
       wdata_we', rdata_req', rdata_ack', ack', asked'} \subseteq BOOLEAN
  <2>1. {go', power'} \subseteq BOOLEAN
    BY <1>1, HostTypes
  <2>2. {pause_req', running', pause_gnt', q_valid'} \subseteq BOOLEAN
    BY <1>2, SequencerTypes
  <2>3. {start_pipe', mul_valid', wren_pipe'} \subseteq BOOLEAN
    BY <1>2, MultiplierTypes, RegisterTypes
  <2>4. {wdata_we', rdata_req', rdata_ack', ack', asked'} \subseteq BOOLEAN
    BY <1>2, BusTypes, RestTypes
  <2> QED BY <2>1, <2>2, <2>3, <2>4, Zenon
<1> QED
  BY <1>1, <1>2, <1>3, <1>4, HostTypes, SequencerTypes, MultiplierTypes, RegisterTypes, BusTypes,
     RestTypes DEF TypeOK

-----------------------------------------------------------------------------
(* The sequencer and its units. *)

(* Where a taken branch goes. *)
BrzTarget == (instruction.immediate + mpc + 1) % Depth

(* What the sequencer does to its state. *)
LEMMA SeqMoves ==
  ASSUME TypeOK, Sequencer
  PROVE  /\ phase = 0 => UNCHANGED <<pause_req, seq, mpc, mpc_stop, running, pause_gnt, q_valid>>
         /\ phase = 1 => pause_req' = power /\ q_valid' = (exec /\ instruction.op # "MUL")
         /\ phase = 1 /\ seq = "IDLE" =>
              /\ pause_gnt' = FALSE /\ running' = engine_go
              /\ seq' = IF engine_go THEN "FETCH" ELSE "IDLE"
              /\ engine_go => /\ mpc' = IF pause_req THEN 0 ELSE program.mpstart
                              /\ mpc_stop' = Stop(program)
              /\ ~engine_go => mpc' = mpc
         /\ phase = 1 /\ seq = "FETCH" =>
              /\ pause_gnt' = pause_req /\ seq' = IF pause_req THEN "PAUSED" ELSE "EXEC"
              /\ mpc' = mpc /\ mpc_stop' = mpc_stop /\ running' = running
         /\ phase = 1 /\ seq = "EXEC" =>
              /\ running' = (instruction.op # "FIN")
              /\ seq' = CASE instruction.op = "BRZ" -> "DO_BRZ"
                          [] instruction.op = "FIN" -> "IDLE"
                          [] instruction.op = "ILLEGAL" -> "ILLEGAL_OPCODE"
                          [] OTHER -> "WAIT_DONE"
              /\ mpc' = mpc /\ mpc_stop' = mpc_stop /\ pause_gnt' = pause_gnt
         /\ phase = 1 /\ seq = "WAIT_DONE" =>
              /\ ~done => seq' = seq /\ mpc' = mpc /\ running' = running
              /\ done /\ mpc < mpc_stop => seq' = "FETCH" /\ mpc' = mpc + 1 /\ running' = running
              /\ done /\ ~(mpc < mpc_stop) => seq' = "IDLE" /\ mpc' = mpc /\ running' = FALSE
              /\ mpc_stop' = mpc_stop /\ pause_gnt' = pause_gnt
         /\ phase = 1 /\ seq = "ILLEGAL_OPCODE" =>
              /\ seq' = "IDLE" /\ mpc' = mpc /\ running' = FALSE
              /\ mpc_stop' = mpc_stop /\ pause_gnt' = pause_gnt
         /\ phase = 1 /\ seq = "DO_BRZ" =>
              /\ operand_a # 0 /\ mpc < mpc_stop =>
                   seq' = "FETCH" /\ mpc' = mpc + 1 /\ running' = running
              /\ operand_a # 0 /\ ~(mpc < mpc_stop) =>
                   seq' = "IDLE" /\ mpc' = mpc /\ running' = FALSE
              /\ operand_a = 0 =>
                   IF BrzTarget < mpc_stop /\ BrzTarget >= program.mpstart
                   THEN seq' = "FETCH" /\ mpc' = BrzTarget /\ running' = running
                   ELSE seq' = "IDLE" /\ mpc' = mpc /\ running' = FALSE
              /\ mpc_stop' = mpc_stop /\ pause_gnt' = pause_gnt
         /\ phase = 1 /\ seq = "PAUSED" =>
              /\ pause_gnt' = pause_req /\ seq' = IF pause_req THEN "PAUSED" ELSE "FETCH"
              /\ mpc' = mpc /\ mpc_stop' = mpc_stop /\ running' = running
<1>1. CASE phase = 0
  BY <1>1 DEF Sequencer, seqVars
<1>2. CASE phase = 1
  <2>1. Idle \/ Fetch \/ Exec \/ WaitDone \/ IllegalOpcode \/ DoBrz \/ Paused
    BY <1>2 DEF Sequencer
  <2>2. pause_req' = power /\ q_valid' = (exec /\ instruction.op # "MUL")
    BY <1>2 DEF Sequencer
  <2>3. CASE seq = "IDLE"
    BY <1>2, <2>1, <2>2, <2>3 DEF Idle, Fetch, Exec, WaitDone, IllegalOpcode, DoBrz, Paused
  <2>4. CASE seq = "FETCH"
    BY <1>2, <2>1, <2>2, <2>4 DEF Idle, Fetch, Exec, WaitDone, IllegalOpcode, DoBrz, Paused
  <2>5. CASE seq = "EXEC"
    BY <1>2, <2>1, <2>2, <2>5 DEF Idle, Fetch, Exec, WaitDone, IllegalOpcode, DoBrz, Paused
  <2>6. CASE seq = "WAIT_DONE"
    <3>1. WaitDone
      BY <2>1, <2>6 DEF Idle, Fetch, Exec, WaitDone, IllegalOpcode, DoBrz, Paused
    <3> QED BY <1>2, <2>2, <2>6, <3>1 DEF WaitDone, Following, Continue, Finish
  <2>7. CASE seq = "ILLEGAL_OPCODE"
    <3>1. IllegalOpcode
      BY <2>1, <2>7 DEF Idle, Fetch, Exec, WaitDone, IllegalOpcode, DoBrz, Paused
    <3> QED BY <1>2, <2>2, <2>7, <3>1 DEF IllegalOpcode, Finish
  <2>8. CASE seq = "DO_BRZ"
    <3>1. DoBrz
      BY <2>1, <2>8 DEF Idle, Fetch, Exec, WaitDone, IllegalOpcode, DoBrz, Paused
    <3> QED BY <1>2, <2>2, <2>8, <3>1 DEF DoBrz, Following, Continue, Finish, BrzTarget
  <2>9. CASE seq = "PAUSED"
    BY <1>2, <2>1, <2>2, <2>9 DEF Idle, Fetch, Exec, WaitDone, IllegalOpcode, DoBrz, Paused
  <2> QED BY <2>3, <2>4, <2>5, <2>6, <2>7, <2>8, <2>9 DEF TypeOK
<1> QED BY <1>1, <1>2 DEF TypeOK

(* The memory's output stays once it shows the word at mpc. *)
LEMMA InstructionStays ==
  ASSUME TypeOK, Sequenced, SysRegisters
  PROVE  phase = 1 \/ seq # "FETCH" => instruction' = instruction
BY DEF Sequenced, SysRegisters

(* A cycle keeps the sequencer's state in order. *)
LEMMA SequencedStep ==
  ASSUME TypeOK, Sequenced, Next
  PROVE  Sequenced'
<1>1. /\ program' = program /\ phase' = 1 - phase /\ Sequencer /\ SysRegisters
      /\ instruction' = program.code[mpc]
  BY DEF Next, Cycle, SysRegisters
<1>2. phase = 1 \/ seq # "FETCH" => instruction' = instruction
  BY <1>1, InstructionStays
<1>3. phase \in {0, 1} /\ instruction.op \in Opcode
      /\ seq \in {"IDLE", "FETCH", "EXEC", "WAIT_DONE", "ILLEGAL_OPCODE", "DO_BRZ", "PAUSED"}
  BY InstructionParts DEF TypeOK
<1>4. CASE phase = 0
  BY <1>1, <1>2, <1>4, SeqMoves DEF Sequenced
<1>5. CASE phase = 1
  <2>0. Stop(program)' = Stop(program)
    BY <1>1 DEF Stop
  <2>1. CASE seq = "IDLE"
    BY <1>1, <1>5, <2>0, <2>1, SeqMoves DEF Sequenced
  <2>2. CASE seq = "FETCH"
    BY <1>1, <1>5, <2>0, <2>2, Bits, SeqMoves DEF Sequenced
  <2>3. CASE seq = "EXEC"
    <3>1. instruction' = instruction /\ instruction.op \in Logic \union {"MUL", "BRZ", "FIN", "ILLEGAL"}
      BY <1>2, <1>3, <1>5 DEF Opcode
    <3>2. "BRZ" \notin Logic /\ "FIN" \notin Logic /\ "ILLEGAL" \notin Logic
      BY DEF Logic
    <3>3. /\ running' = (instruction.op # "FIN")
          /\ seq' = CASE instruction.op = "BRZ" -> "DO_BRZ"
                      [] instruction.op = "FIN" -> "IDLE"
                      [] instruction.op = "ILLEGAL" -> "ILLEGAL_OPCODE"
                      [] OTHER -> "WAIT_DONE"
          /\ mpc' = mpc /\ mpc_stop' = mpc_stop /\ pause_gnt' = pause_gnt
      BY <1>1, <1>5, <2>3, SeqMoves
    <3> QED BY <1>1, <1>5, <2>0, <2>3, <3>1, <3>2, <3>3, Bits DEF Sequenced
  <2>4. CASE seq \in {"WAIT_DONE", "ILLEGAL_OPCODE", "DO_BRZ"}
    <3>1. /\ \/ seq' \in {"FETCH", seq} /\ running' = running
             \/ seq' = "IDLE" /\ running' = FALSE
          /\ seq' # "FETCH" => mpc' = mpc
          /\ mpc_stop' = mpc_stop /\ pause_gnt' = pause_gnt
      BY <1>1, <1>5, <2>4, SeqMoves
    <3>2. running /\ ~pause_gnt /\ mpc_stop = Stop(program)
      BY <2>4 DEF Sequenced
    <3>3. (running' <=> seq' # "IDLE") /\ (pause_gnt' <=> seq' = "PAUSED")
      BY <2>4, <3>1, <3>2
    <3>4. (phase' = 1 \/ seq' # "FETCH") => instruction' = program'.code[mpc']
      BY <1>1, <1>5, <3>1
    <3>5. seq' \in {"FETCH", "IDLE"} \/ (seq' = seq /\ instruction' = instruction)
      BY <1>2, <1>5, <3>1
    <3> QED BY <1>1, <2>0, <2>4, <3>1, <3>2, <3>3, <3>4, <3>5 DEF Sequenced
  <2>5. CASE seq = "PAUSED"
    <3>1. /\ running' = running /\ pause_gnt' = pause_req
          /\ seq' = IF pause_req THEN "PAUSED" ELSE "FETCH"
          /\ mpc' = mpc /\ mpc_stop' = mpc_stop
      BY <1>1, <1>5, <2>5, SeqMoves
    <3>2. running /\ mpc_stop = Stop(program)
      BY <2>5 DEF Sequenced
    <3> QED BY <1>1, <1>5, <2>0, <2>5, <3>1, <3>2, Bits DEF Sequenced
  <2> QED BY <1>3, <2>1, <2>2, <2>3, <2>4, <2>5
<1> QED BY <1>3, <1>4, <1>5

(* What the multiplier does to its state. *)
LEMMA MulMoves ==
  ASSUME TypeOK, Multiplier
  PROVE  /\ mseq = "IDLE" => mseq' = (IF start_pipe THEN "SETUP_A" ELSE "IDLE")
                             /\ step' = 0 /\ prop' = 0
         /\ mseq = "SETUP_A" => mseq' = "MULTIPLY" /\ step' = step /\ prop' = prop
         /\ mseq = "MULTIPLY" => /\ prop' = prop
                                 /\ IF step < MulSteps - 1 THEN mseq' = "MULTIPLY" /\ step' = step + 1
                                    ELSE mseq' = "P_DELAY" /\ step' = 0
         /\ mseq = "P_DELAY" => mseq' = "PSUM_LSB" /\ step' = step /\ prop' = prop
         /\ mseq = "PSUM_LSB" => mseq' = "PSUM_MSB" /\ step' = step /\ prop' = prop
         /\ mseq = "PSUM_MSB" => mseq' = "CARRYPROP" /\ step' = step /\ prop' = prop
         /\ mseq = "CARRYPROP" => /\ prop' = prop
                                  /\ IF step # PropSteps - 1
                                     THEN mseq' = "CARRYPROP" /\ step' = step + 1
                                     ELSE IF prop = 0 THEN mseq' = "NORMALIZE" /\ step' = 0
                                     ELSE mseq' = "DONE" /\ step' = step
         /\ mseq = "NORMALIZE" => mseq' = "CARRYPROP" /\ step' = 0 /\ prop' = 1
         /\ mseq = "DONE" => mseq' = "DONE2" /\ step' = step /\ prop' = prop
         /\ mseq = "DONE2" => mseq' = "DONE3" /\ step' = step /\ prop' = prop
         /\ mseq = "DONE3" => mseq' = "IDLE" /\ step' = step /\ prop' = prop
BY DEF Multiplier, MulNext

(* The multiplier's strobes. *)
LEMMA MulStrobes ==
  ASSUME TypeOK, Multiplier
  PROVE  /\ start_pipe' <=> seq = "EXEC" /\ instruction.op = "MUL"
         /\ mul_valid' <=> mseq \in {"DONE2", "DONE3"}
         /\ mseq' # "IDLE" => mseq # "IDLE" \/ start_pipe
         /\ mul_q' = IF mseq = "DONE" THEN operand_a * operand_b ELSE mul_q
<1>1. (start_pipe' <=> seq = "EXEC" /\ instruction.op = "MUL")
      /\ (mul_valid' <=> mseq \in {"DONE2", "DONE3"})
  BY DEF Multiplier, MulValid, exec
<1>2. mseq' # "IDLE" => mseq # "IDLE" \/ start_pipe
  BY MulMoves
<1>3. Alu("MUL", operand_a, operand_b) = operand_a * operand_b
  BY DEF Alu
<1> QED BY <1>1, <1>2, <1>3 DEF Multiplier

(* A product's operation is none of the single-cycle ones. *)
LEMMA Kinds == "MUL" \notin Logic /\ "BRZ" \notin Logic /\ "FIN" \notin Logic /\ "ILLEGAL" \notin Logic
BY DEF Logic

(* An instruction is left alone by the sequencer while the multiplier works on it. *)
LEMMA MulWaits ==
  ASSUME TypeOK, Units, Beat, phase = 1, mseq # "IDLE"
  PROVE  seq = "WAIT_DONE" /\ instruction.op = "MUL" /\ ~done
<1>1. seq = "WAIT_DONE" /\ instruction.op = "MUL" /\ ~q_valid
  BY Kinds DEF Units
<1>2. ~mul_valid
  BY DEF Beat
<1> QED BY <1>1, <1>2 DEF done

(* A cycle keeps the units with their instruction. *)
LEMMA UnitsStep ==
  ASSUME TypeOK, Sequenced, Units, Beat, Next
  PROVE  Units'
<1>1. /\ phase' = 1 - phase /\ Sequencer /\ SysRegisters /\ Multiplier
  BY DEF Next, Cycle
<1>2. phase = 1 \/ seq # "FETCH" => instruction' = instruction
  BY <1>1, InstructionStays
<1>3. phase \in {0, 1} /\ instruction.op \in Logic \union {"MUL", "BRZ", "FIN", "ILLEGAL"}
  BY InstructionParts DEF TypeOK, Opcode
<1>4. /\ start_pipe' <=> seq = "EXEC" /\ instruction.op = "MUL"
      /\ mul_valid' <=> mseq \in {"DONE2", "DONE3"}
      /\ mseq' # "IDLE" => mseq # "IDLE" \/ start_pipe
  BY <1>1, MulStrobes
<1>5. CASE phase = 0
  <2>1. seq' = seq /\ q_valid' = q_valid /\ phase' = 1
    BY <1>1, <1>5, SeqMoves
  <2>2. mseq' # "IDLE" \/ mul_valid' => mseq # "IDLE"
    BY <1>4, <1>5 DEF Units
  <2>3. seq \in {"WAIT_DONE", "EXEC"} => instruction' = instruction
    BY <1>2
  <2>4. q_valid' <=> seq' = "WAIT_DONE" /\ instruction'.op \in Logic
    BY <2>1, <2>3, Bits DEF Units
  <2>5. (seq' = "EXEC" => (start_pipe' <=> instruction'.op = "MUL")) /\ (start_pipe' => seq' = "EXEC")
    BY <1>4, <2>1, <2>3
  <2>6. mseq' # "IDLE" \/ mul_valid' => seq' = "WAIT_DONE" /\ instruction'.op = "MUL"
    BY <2>1, <2>2, <2>3 DEF Units
  <2> QED BY <2>1, <2>4, <2>5, <2>6 DEF Units
<1>6. CASE phase = 1
  <2>0. phase' = 0 /\ instruction' = instruction
    BY <1>1, <1>2, <1>6
  <2>1. q_valid' <=> seq = "EXEC" /\ instruction.op \in Logic
    <3>1. q_valid' = (exec /\ instruction.op # "MUL")
      BY <1>1, <1>6, SeqMoves
    <3> QED BY <3>1, Kinds DEF exec
  <2>2. seq = "EXEC" /\ instruction.op \in Logic \union {"MUL"} => seq' = "WAIT_DONE"
    BY <1>1, <1>6, Kinds, SeqMoves
  <2>3. seq' = "WAIT_DONE" => seq = "EXEC" \/ (seq = "WAIT_DONE" /\ ~done)
    BY <1>1, <1>6, SeqMoves DEF TypeOK
  <2>4. seq = "WAIT_DONE" /\ ~done => seq' = "WAIT_DONE"
    BY <1>1, <1>6, SeqMoves
  <2>5. q_valid' <=> seq' = "WAIT_DONE" /\ instruction'.op \in Logic
    BY <2>0, <2>1, <2>2, <2>3 DEF Units, done
  <2>6. start_pipe' => seq' = "WAIT_DONE" /\ mseq' = "SETUP_A"
    <3>1. ASSUME start_pipe' PROVE start_pipe /\ mseq = "IDLE" /\ seq' = "WAIT_DONE"
      BY <1>4, <1>6, <2>2, <3>1 DEF Units
    <3> QED BY <1>1, <3>1, MulMoves
  <2>7. mseq' # "IDLE" \/ mul_valid' => seq' = "WAIT_DONE" /\ instruction'.op = "MUL"
    <3>1. CASE mseq # "IDLE"
      BY <1>6, <2>0, <2>4, <3>1, MulWaits
    <3>2. CASE mseq = "IDLE" /\ start_pipe
      BY <1>6, <2>0, <2>2, <3>2 DEF Units
    <3> QED BY <1>4, <3>1, <3>2
  <2> QED BY <2>0, <2>5, <2>6, <2>7 DEF Units
<1> QED BY <1>3, <1>5, <1>6

(* In the next half of an eng_clk cycle, one step on. *)
LEMMA Parity ==
  ASSUME NEW h \in {0, 1}, NEW n \in Nat, NEW p \in Nat
  PROVE  /\ (h + n) % 2 = 1 => (1 - h + (n + 1)) % 2 = 1
         /\ (h + n + p) % 2 = 0 => (1 - h + (n + 1) + p) % 2 = 0
         /\ (h + p) % 2 = 1 => (1 - h + 0 + p) % 2 = 0
         /\ n = p - 1 /\ (h + n) % 2 = 1 => (1 - h + p) % 2 = 1
         /\ n = p - 1 /\ p % 2 = 1 /\ (h + n) % 2 = 1 => h = 1
         /\ n = p - 1 /\ (h + n + p) % 2 = 0 => h = 1
<1>1. h = 0 \/ h = 1
  OBVIOUS
<1> QED BY <1>1

(* A cycle keeps the multiplier's states on their beat. *)
LEMMA BeatStep ==
  ASSUME TypeOK, Sequenced, Units, Beat, Next
  PROVE  Beat'
<1>1. phase' = 1 - phase /\ Multiplier
  BY DEF Next, Cycle
<1>2. /\ phase \in {0, 1} /\ step \in Nat /\ prop \in {0, 1}
      /\ MulSteps \in Nat \ {0} /\ PropSteps \in Nat \ {0} /\ MulSteps % 2 = 1
  BY StepsAssumption DEF TypeOK
<1>3. mul_valid' <=> mseq \in {"DONE2", "DONE3"}
  BY <1>1, MulStrobes
<1>4. mseq \in {"IDLE", "SETUP_A", "MULTIPLY", "P_DELAY", "PSUM_LSB", "PSUM_MSB", "CARRYPROP",
                "NORMALIZE", "DONE", "DONE2", "DONE3"}
  BY DEF TypeOK
<1>5. CASE mseq = "IDLE"
  <2>1. start_pipe => phase = 1
    BY <1>5 DEF Units
  <2> QED BY <1>1, <1>2, <1>3, <1>5, <2>1, MulMoves DEF Beat
<1>6. CASE mseq = "SETUP_A"
  BY <1>1, <1>2, <1>3, <1>6, MulMoves DEF Beat
<1>7. CASE mseq = "MULTIPLY"
  <2>1. (phase + step) % 2 = 1 /\ step < MulSteps /\ prop = 0
    BY <1>7 DEF Beat
  <2>2. CASE step < MulSteps - 1
    BY <1>1, <1>2, <1>3, <1>7, <2>1, <2>2, MulMoves, Parity DEF Beat
  <2>3. CASE ~(step < MulSteps - 1)
    <3>1. step = MulSteps - 1
      BY <1>2, <2>1, <2>3
    <3>2. phase = 1
      BY <1>2, <2>1, <3>1, Parity
    <3> QED BY <1>1, <1>2, <1>3, <1>7, <2>1, <2>3, <3>2, MulMoves DEF Beat
  <2> QED BY <2>2, <2>3
<1>8. CASE mseq \in {"P_DELAY", "PSUM_LSB"}
  BY <1>1, <1>2, <1>3, <1>8, MulMoves DEF Beat
<1>9. CASE mseq = "PSUM_MSB"
  BY <1>1, <1>2, <1>3, <1>9, MulMoves DEF Beat
<1>10. CASE mseq = "CARRYPROP"
  <2>1. /\ step < PropSteps
        /\ IF prop = 0 THEN (phase + step) % 2 = 1 ELSE (phase + step + PropSteps) % 2 = 0
    BY <1>10 DEF Beat
  <2>2. CASE step # PropSteps - 1
    <3>1. step + 1 < PropSteps
      BY <1>2, <2>1, <2>2
    <3>2. IF prop = 0 THEN (1 - phase + (step + 1)) % 2 = 1
                      ELSE (1 - phase + (step + 1) + PropSteps) % 2 = 0
      BY <1>2, <2>1, Parity
    <3> QED BY <1>1, <1>3, <1>10, <2>2, <3>1, <3>2, MulMoves DEF Beat
  <2>3. CASE step = PropSteps - 1 /\ prop = 0
    <3>1. (1 - phase + PropSteps) % 2 = 1
      BY <1>2, <2>1, <2>3, Parity
    <3> QED BY <1>1, <1>3, <1>10, <2>3, <3>1, MulMoves DEF Beat
  <2>4. CASE step = PropSteps - 1 /\ prop # 0
    <3>1. phase = 1
      BY <1>2, <2>1, <2>4, Parity
    <3> QED BY <1>1, <1>3, <1>10, <2>4, <3>1, MulMoves DEF Beat
  <2> QED BY <2>2, <2>3, <2>4
<1>11. CASE mseq = "NORMALIZE"
  <2>1. (1 - phase + 0 + PropSteps) % 2 = 0
    BY <1>2, <1>11, Parity DEF Beat
  <2> QED BY <1>1, <1>2, <1>3, <1>11, <2>1, MulMoves DEF Beat
<1>12. CASE mseq \in {"DONE", "DONE2", "DONE3"}
  BY <1>1, <1>2, <1>3, <1>12, MulMoves DEF Beat
<1> QED BY <1>4, <1>5, <1>6, <1>7, <1>8, <1>9, <1>10, <1>11, <1>12

(* The operands are read in the first half of a cycle and stay while they are used. *)
LEMMA OperandsStep ==
  ASSUME TypeOK, Sequenced, Units, Beat, Operands, Writers, Next
  PROVE  Operands'
<1>1. /\ phase' = 1 - phase /\ Sequencer /\ SysRegisters /\ Multiplier /\ RegisterFile
  BY DEF Next, Cycle
<1>2. phase = 1 \/ seq # "FETCH" => instruction' = instruction
  BY <1>1, InstructionStays
<1>3. CASE phase = 0
  <2>1. seq' = seq /\ regs' = regs /\ phase' = 1
    BY <1>1, <1>3, SeqMoves, RegsMove
  <2>2. seq \in {"WAIT_DONE", "DO_BRZ", "EXEC"} =>
          /\ instruction' = instruction
          /\ ra_dat' = regs[instruction.ra] /\ rb_dat' = regs[instruction.rb]
    BY <1>1, <1>2, <1>3, RegsMove DEF Yielded
  <2>3. mseq' \in {"DONE2", "DONE3"} \/ mul_valid' => mul_q' = operand_a' * operand_b'
    <3>1. ASSUME mseq' \in {"DONE2", "DONE3"} \/ mul_valid'
          PROVE  seq = "WAIT_DONE" /\ mseq \in {"DONE", "DONE2", "DONE3"}
      <4>1. mseq \in {"DONE", "DONE2", "DONE3"}
        BY <1>1, <3>1, MulMoves, MulStrobes DEF TypeOK
      <4> QED BY <4>1 DEF Units
    <3>2. ASSUME seq = "WAIT_DONE" PROVE operand_a' = operand_a /\ operand_b' = operand_b
      BY <2>2, <3>2 DEF operand_a, operand_b, Operands
    <3>3. mseq \in {"DONE2", "DONE3"} => mul_q = operand_a * operand_b
      BY DEF Operands
    <3>4. mul_q' = IF mseq = "DONE" THEN operand_a * operand_b ELSE mul_q
      BY <1>1, MulStrobes
    <3> QED BY <3>1, <3>2, <3>3, <3>4
  <2> QED BY <2>1, <2>2, <2>3 DEF Operands
<1>4. CASE phase = 1
  <2>1. /\ phase' = 0 /\ instruction' = instruction
        /\ ra_dat' = ra_dat /\ rb_dat' = rb_dat
    BY <1>1, <1>2, <1>4, RegsMove
  <2>2. seq' \in {"WAIT_DONE", "DO_BRZ"} => seq = "EXEC" \/ (seq = "WAIT_DONE" /\ ~done)
    BY <1>1, <1>4, SeqMoves DEF TypeOK
  <2>3. seq' \in {"WAIT_DONE", "DO_BRZ"} =>
          /\ regs' = regs
          /\ ra_dat = regs[instruction.ra] /\ rb_dat = regs[instruction.rb]
    <3>1. seq = "EXEC" => ~done
      BY DEF Units, done
    <3>2. seq = "EXEC" \/ (seq = "WAIT_DONE" /\ ~done) => ~wren_pipe
      BY <1>4, <3>1 DEF Writers, Yielded
    <3> QED BY <1>1, <1>4, <2>2, <3>2, RegsMove DEF Operands
  <2>4. operand_a' = operand_a /\ operand_b' = operand_b
    BY <2>1 DEF operand_a, operand_b
  <2>5. mseq' \in {"DONE2", "DONE3"} \/ mul_valid' => mul_q' = operand_a' * operand_b'
    <3>1. mseq' \in {"DONE2", "DONE3"} \/ mul_valid' => mseq \in {"DONE", "DONE2", "DONE3"}
      BY <1>1, MulMoves, MulStrobes DEF TypeOK
    <3>2. mul_q' = IF mseq = "DONE" THEN operand_a * operand_b ELSE mul_q
      BY <1>1, MulStrobes
    <3> QED BY <2>4, <3>1, <3>2 DEF Operands
  <2> QED BY <2>1, <2>3, <2>5 DEF Operands
<1> QED BY <1>3, <1>4 DEF TypeOK

-----------------------------------------------------------------------------
(* The host and its port. *)

(* A go asked for is younger than the host's next access. *)
LEMMA AskedGap ==
  ASSUME TypeOK, Launch
  PROVE  /\ asked => gap > 0
         /\ go_stretch # 0 => gap > 0
         /\ seq = "IDLE" /\ engine_go => asked
BY StepsAssumption DEF TypeOK, Launch, engine_go

(* While an access of the host waits, the sequencer neither starts nor goes on. *)
LEMMA KeepsYielding ==
  ASSUME TypeOK, Launch, Pausing, Spaced, Sequencer, Yielded, req.op # "none"
  PROVE  seq' = seq
<1>1. ~asked
  BY AskedGap DEF Spaced
<1>2. seq = "PAUSED" => pause_req
  BY DEF Pausing
<1>3. seq = "IDLE" => ~engine_go
  BY <1>1, AskedGap
<1> QED BY <1>2, <1>3, SeqMoves DEF Yielded, TypeOK

(* The host holds an access until it is acknowledged, and does nothing else. *)
LEMMA HostHolds ==
  ASSUME TypeOK, Host, req.op # "none", ~ack
  PROVE  req' = req
BY HostMoves DEF Free

(* What the bus port does to its state. *)
LEMMA BusMoves ==
  ASSUME TypeOK, Sequenced, Bus
  PROVE  /\ req.op = "write" /\ ~ack =>
              /\ (wdata_we' <=> Yielded) /\ (ack' <=> Yielded /\ phase = 1)
              /\ rdata_req' = rdata_req
              /\ Yielded => wadr' = req.reg /\ wdata' = req.val
         /\ req.op = "read" /\ ~ack =>
              /\ (rdata_req' <=> Yielded) /\ (ack' <=> Yielded /\ RdNow.ack)
              /\ wdata_we' = wdata_we /\ wadr' = wadr /\ wdata' = wdata
              /\ Yielded => radr' = req.reg /\ dat_r' = ra_dat
         /\ req.op = "none" \/ ack =>
              /\ ~wdata_we' /\ ~ack' /\ ~rdata_req'
              /\ wadr' = wadr /\ wdata' = wdata /\ radr' = radr /\ dat_r' = dat_r
<1>1. BusWrite \/ BusRead \/ BusQuiet
  BY DEF Bus
<1>2. host_owns <=> Yielded
  BY Owns
<1>3. ASSUME req.op = "write", ~ack
      PROVE  /\ (wdata_we' <=> Yielded) /\ (ack' <=> Yielded /\ phase = 1)
             /\ rdata_req' = rdata_req
             /\ Yielded => wadr' = req.reg /\ wdata' = req.val
  BY <1>1, <1>2, <1>3 DEF BusWrite, BusRead, BusQuiet, WriteAck, host_owns
<1>4. ASSUME req.op = "read", ~ack
      PROVE  /\ (rdata_req' <=> Yielded) /\ (ack' <=> Yielded /\ RdNow.ack)
             /\ wdata_we' = wdata_we /\ wadr' = wadr /\ wdata' = wdata
             /\ Yielded => radr' = req.reg /\ dat_r' = ra_dat
  BY <1>1, <1>2, <1>4 DEF BusWrite, BusRead, BusQuiet, host_owns
<1>5. ASSUME req.op = "none" \/ ack
      PROVE  /\ ~wdata_we' /\ ~ack' /\ ~rdata_req'
             /\ wadr' = wadr /\ wdata' = wdata /\ radr' = radr /\ dat_r' = dat_r
  BY <1>1, <1>5 DEF BusWrite, BusRead, BusQuiet
<1> QED BY <1>3, <1>4, <1>5

(* A cycle keeps writers apart: the units' and the host's do not meet. *)
LEMMA WritersStep ==
  ASSUME TypeOK, Sequenced, Units, Beat, Writers, Spaced, Launch, Pausing, Next
  PROVE  Writers'
<1>1. /\ phase' = 1 - phase /\ Sequencer /\ Multiplier /\ RegisterFile /\ Bus /\ History /\ Host
  BY DEF Next, Cycle
<1>2. phase \in {0, 1} /\ req.op \in {"none", "read", "write"}
  BY AccessParts DEF TypeOK
<1>3. wren_pipe' => phase = 0 /\ phase' = 1
  BY <1>1, RegsMove
<1>4. phase' = 1 /\ ~Yielded' => (wren_pipe' <=> done')
  <2>1. SUFFICES ASSUME phase = 0, ~Yielded PROVE wren_pipe' <=> done'
    BY <1>1, <1>2, SeqMoves DEF Yielded
  <2>2. (wren_pipe' <=> done) /\ q_valid' = q_valid
    BY <1>1, <2>1, RegsMove, SeqMoves
  <2>3. mul_valid' <=> mul_valid
    BY <1>1, <2>1, MulStrobes DEF Beat
  <2> QED BY <2>2, <2>3, Bits DEF done
<1>5. wdata_we' => /\ req'.op = "write" /\ Yielded' /\ wadr' = req'.reg /\ wdata' = req'.val
                   /\ req.op = "write" /\ ~ack /\ Yielded
  <2>1. ASSUME wdata_we' PROVE req.op = "write" /\ ~ack /\ Yielded
    BY <1>1, <1>2, <2>1, BusMoves DEF Writers
  <2>2. ASSUME wdata_we' PROVE req' = req /\ Yielded'
    BY <1>1, <2>1, <2>2, HostHolds, KeepsYielding DEF Yielded
  <2> QED BY <1>1, <2>1, <2>2, BusMoves
<1>6. ack' => req'.op # "none"
  <2>1. ack' => req.op # "none" /\ ~ack
    BY <1>1, BusMoves
  <2> QED BY <1>1, <2>1, HostHolds
<1>7. due'.op = "write" => /\ Yielded' /\ wadr' = due'.reg /\ wdata' = due'.val
                           /\ IF phase' = 0 THEN ack' /\ wdata_we' ELSE wren_pipe'
  <2>1. CASE ack' /\ req.op = "write"
    <3>1. due' = req
      BY <1>1, <2>1 DEF History
    <3>2. ~ack /\ Yielded /\ phase = 1 /\ wdata_we'
      BY <1>1, <2>1, BusMoves
    <3> QED BY <1>1, <1>5, <2>1, <3>1, <3>2, BusMoves
  <2>2. CASE ~(ack' /\ req.op = "write")
    <3>1. SUFFICES ASSUME due'.op = "write"
                   PROVE  /\ Yielded' /\ wadr' = due'.reg /\ wdata' = due'.val
                          /\ IF phase' = 0 THEN ack' /\ wdata_we' ELSE wren_pipe'
      OBVIOUS
    <3>2. phase = 0 /\ due' = due
      BY <1>1, <1>2, <2>2, <3>1, AccessParts DEF History
    <3>3. Yielded /\ ack /\ wdata_we /\ wadr = due.reg /\ wdata = due.val
      BY <3>1, <3>2 DEF Writers
    <3>4. wadr' = wadr /\ wdata' = wdata
      BY <1>1, <3>3, BusMoves
    <3>5. wren_pipe' /\ seq' = seq
      BY <1>1, <3>2, <3>3, RegsMove, SeqMoves
    <3> QED BY <1>1, <3>2, <3>3, <3>4, <3>5 DEF Yielded
  <2> QED BY <2>1, <2>2
<1> QED BY <1>3, <1>4, <1>5, <1>6, <1>7 DEF Writers

(* Nor is a write on its way when the host turns to a CSR. *)
LEMMA SpacedStep ==
  ASSUME TypeOK, Sequenced, Writers, Spaced, Next
  PROVE  Spaced'
<1>1. Sequencer /\ RegisterFile /\ Host
  BY DEF Next, Cycle
<1>2. gap \in Nat
  BY StepsAssumption DEF TypeOK
<1>3. SUFFICES ASSUME gap' > 0 PROVE req'.op = "none" /\ (Yielded' => ~wren_pipe')
  BY DEF Spaced
<1>4. req.op = "none" /\ req'.op = "none"
  <2>1. CASE gap > 0
    <3>1. req.op = "none" /\ req' = NoAccess
      BY <1>1, <2>1, HostPauses DEF Spaced, Free
    <3> QED BY <3>1, AccessParts
  <2>2. CASE gap = 0
    <3>1. req.op = "none" /\ req' = req
      <4>1. gap' # 0
        BY <1>3
      <4> QED BY <1>1, <2>2, <4>1, HostTurns
    <3> QED BY <3>1
  <2> QED BY <1>2, <2>1, <2>2
<1>5. ~wdata_we
  BY <1>4 DEF Writers
<1>6. wren_pipe' => phase = 0
  BY <1>1, RegsMove
<1>7. phase = 0 => seq' = seq /\ (Yielded => ~wren_pipe')
  BY <1>1, <1>5, RegsMove, SeqMoves
<1> QED BY <1>4, <1>6, <1>7 DEF Yielded

(* A cycle keeps a go on its way. *)
LEMMA LaunchStep ==
  ASSUME TypeOK, Launch, Pausing, Next
  PROVE  Launch'
<1>1. /\ phase' = 1 - phase /\ Sequencer /\ History /\ Host /\ go_stretch' = stretched
  BY DEF Next, Cycle, SysRegisters
<1>2. /\ phase \in {0, 1} /\ gap \in Nat /\ AccessTicks \in Nat /\ AccessTicks >= 4
      /\ go_stretch \in 0..2
  BY StepsAssumption DEF TypeOK
<1>3. asked' = IF go' THEN TRUE ELSE asked /\ ~(seq = "IDLE" /\ seq' = "FETCH")
  BY <1>1 DEF History
<1>4. CASE go'
  <2>1. gap = 0 /\ gap' = AccessTicks - 1 /\ drv = "idle" /\ drv' = "run" /\ power' = power
    BY <1>1, <1>4, HostMoves
  <2>2. ~go /\ go_stretch = 0 /\ seq = "IDLE" /\ ~asked /\ ~power
    BY <1>2, <2>1, AskedGap DEF Launch, Pausing
  <2>3. ~pause_req
    BY <1>2, <2>1, <2>2 DEF Pausing
  <2>4. ~engine_go
    BY <2>2 DEF engine_go
  <2>5. seq' = "IDLE" /\ ~pause_req'
    <3>1. CASE phase = 0
      BY <1>1, <2>2, <2>3, <3>1, Bits, SeqMoves
    <3>2. CASE phase = 1
      BY <1>1, <2>2, <2>4, <3>2, Bits, SeqMoves
    <3> QED BY <1>2, <3>1, <3>2
  <2>6. go_stretch' = 0
    BY <1>1, <2>2 DEF stretched
  <2> QED BY <1>3, <1>4, <2>1, <2>5, <2>6 DEF Launch
<1>5. CASE ~go' /\ asked
  <2>1. gap > 0 /\ seq = "IDLE" /\ drv = "run" /\ ~pause_req /\ ~power
    BY <1>5, AskedGap DEF Launch, Pausing
  <2>2. gap' = gap - 1 /\ drv' = drv
    BY <1>1, <2>1, HostPauses
  <2>3. CASE phase = 1
    <3>1. engine_go
      BY <1>5 DEF Launch, engine_go
    <3>2. seq' = "FETCH" /\ ~asked'
      BY <1>1, <1>3, <1>5, <2>1, <2>3, <3>1, SeqMoves
    <3>3. CASE go
      <4>1. go_stretch' = 2 /\ gap' = AccessTicks - 2
        BY <1>1, <1>2, <2>2, <3>3 DEF stretched, Launch
      <4> QED BY <1>1, <1>5, <2>3, <3>2, <4>1 DEF Launch
    <3>4. CASE ~go
      <4>1. go_stretch' = 1 /\ gap' = AccessTicks - 3
        BY <1>1, <1>2, <1>5, <2>2, <3>4 DEF stretched, Launch
      <4> QED BY <1>1, <1>5, <2>3, <3>2, <4>1 DEF Launch
    <3> QED BY <3>3, <3>4
  <2>4. CASE phase = 0
    <3>1. go /\ go_stretch = 0 /\ gap = AccessTicks - 1
      BY <1>5, <2>4 DEF Launch
    <3>2. go_stretch' = 2 /\ gap' = AccessTicks - 2
      BY <1>1, <1>2, <2>2, <3>1 DEF stretched
    <3>3. seq' = "IDLE" /\ ~pause_req' /\ asked'
      <4>1. seq' = seq /\ pause_req' = pause_req
        BY <1>1, <2>4, SeqMoves
      <4> QED BY <1>3, <1>5, <2>1, <4>1
    <3> QED BY <1>1, <1>5, <2>1, <2>2, <2>4, <3>2, <3>3 DEF Launch
  <2> QED BY <1>2, <2>3, <2>4
<1>6. CASE ~go' /\ ~asked
  <2>1. ~go /\ ~asked'
    BY <1>3, <1>6 DEF Launch
  <2>2. CASE go_stretch = 0
    <3>1. go_stretch' = 0
      BY <1>1, <2>1, <2>2 DEF stretched
    <3> QED BY <1>6, <2>1, <3>1 DEF Launch
  <2>3. CASE go_stretch = 1
    <3>1. go_stretch' = 0
      BY <1>1, <2>1, <2>3 DEF stretched
    <3> QED BY <1>6, <2>1, <3>1 DEF Launch
  <2>4. CASE go_stretch = 2
    <3>1. go_stretch' = 1
      BY <1>1, <2>1, <2>4 DEF stretched
    <3>2. phase = 0 /\ seq = "FETCH" /\ gap = AccessTicks - 2
      BY <1>2, <1>6, <2>4 DEF Launch
    <3>3. seq' = "FETCH" /\ gap' = AccessTicks - 3
      <4>1. gap > 0
        BY <1>2, <3>2
      <4>2. gap' = gap - 1
        BY <1>1, <4>1, HostPauses
      <4> QED BY <1>1, <1>2, <3>2, <4>2, SeqMoves
    <3> QED BY <1>6, <2>1, <3>1, <3>3 DEF Launch
  <2> QED BY <1>2, <2>2, <2>3, <2>4
<1> QED BY <1>4, <1>5, <1>6

(* What the host does to the pause request and its place. *)
LEMMA HostPlaces ==
  ASSUME TypeOK, Host
  PROVE  \/ drv' = drv /\ (power' <=> power)
         \/ /\ gap = 0 /\ gap' = AccessTicks - 1
            /\ \/ drv = "idle" /\ drv' = "run" /\ (power' <=> power)
               \/ drv = "run" /\ drv' = "pausing" /\ power'
               \/ drv = "run" /\ drv' = "idle" /\ (power' <=> power) /\ ~status.running
               \/ drv = "pausing" /\ drv' = "paused" /\ (power' <=> power) /\ status.pause_gnt
               \/ /\ drv = "pausing" /\ drv' = "ended" /\ (power' <=> power)
                  /\ ~status.pause_gnt /\ ~status.running
               \/ drv = "paused" /\ drv' = "run" /\ ~power'
               \/ drv = "ended" /\ drv' = "idle" /\ ~power'
<1>1. power' = power => (power' <=> power)
  <2>1. power \in BOOLEAN /\ power' \in BOOLEAN
    BY Bits, HostTypes
  <2> QED BY <2>1
<1> QED BY <1>1, HostMoves

(* A cycle of an idle engine that no go reaches. *)
LEMMA IdleStays ==
  ASSUME TypeOK, Launch, Sequencer, History, Host, seq = "IDLE", ~asked, drv # "idle" \/ drv' = drv
  PROVE  seq' = "IDLE" /\ ~asked'
<1>1. seq' = "IDLE"
  BY AskedGap, SeqMoves DEF TypeOK
<1>2. ~go'
  BY HostMoves
<1> QED BY <1>1, <1>2 DEF History

(* A cycle of a paused engine. *)
LEMMA PauseStays ==
  ASSUME TypeOK, Sequencer, seq = "PAUSED"
  PROVE  /\ pause_req => seq' = "PAUSED"
         /\ phase = 1 => seq' = IF pause_req THEN "PAUSED" ELSE "FETCH"
         /\ phase = 0 => seq' = "PAUSED"
         /\ pause_req' = IF phase = 1 THEN power ELSE pause_req
BY SeqMoves DEF TypeOK

(* A cycle keeps a pause, and its end, on their way. *)
LEMMA PausingStep ==
  ASSUME TypeOK, Sequenced, Writers, Spaced, Launch, Pausing, Late, Next
  PROVE  Pausing'
<1>1. /\ phase' = 1 - phase /\ Sequencer /\ History /\ Host /\ RegisterFile
  BY DEF Next, Cycle
<1>2. /\ phase \in {0, 1} /\ gap \in Nat /\ AccessTicks \in Nat /\ AccessTicks >= 4
      /\ drv \in {"idle", "run", "pausing", "paused", "ended"}
  BY StepsAssumption DEF TypeOK
<1>3. pause_req' = IF phase = 1 THEN power ELSE pause_req
  BY <1>1, <1>2, SeqMoves
<1>4. power' <=> drv' \in {"pausing", "paused", "ended"}
  BY <1>1, HostPlaces DEF Pausing
<1>5. ASSUME pause_req', ~power'
      PROVE  /\ gap' = AccessTicks - 1 \/ (gap' = AccessTicks - 2 /\ phase' = 1)
             /\ seq' = IF drv' = "run" THEN "PAUSED" ELSE "IDLE"
  <2>1. CASE power
    <3>1. /\ gap' = AccessTicks - 1
          /\ (drv = "paused" /\ drv' = "run") \/ (drv = "ended" /\ drv' = "idle")
      BY <1>1, <1>5, <2>1, HostPlaces DEF Pausing
    <3>2. drv = "paused" => seq' = "PAUSED"
      BY <1>1, PauseStays DEF Pausing
    <3>3. drv = "ended" => seq' = "IDLE"
      BY <1>1, IdleStays DEF Pausing
    <3> QED BY <3>1, <3>2, <3>3
  <2>2. CASE ~power
    <3>1. phase = 0 /\ pause_req
      BY <1>2, <1>3, <1>5, <2>2
    <3>2. gap = AccessTicks - 1 /\ seq = IF drv = "run" THEN "PAUSED" ELSE "IDLE"
      BY <2>2, <3>1 DEF Pausing
    <3>3. gap > 0
      BY <1>2, <3>2
    <3>4. gap' = gap - 1 /\ drv' = drv
      BY <1>1, <3>3, HostPauses
    <3>5. seq' = seq
      BY <1>1, <3>1, SeqMoves
    <3> QED BY <1>1, <1>2, <3>1, <3>2, <3>4, <3>5
  <2> QED BY <2>1, <2>2
<1>6. ASSUME seq' = "PAUSED", ~pause_req'
      PROVE  /\ drv' = "run" /\ req'.op = "none" /\ ~wren_pipe'
             /\ gap' + phase' \in {AccessTicks - 2, AccessTicks - 3}
  <2>1. /\ seq = "PAUSED" /\ drv = "run" /\ req.op = "none"
        /\ IF phase = 0 THEN gap \in {AccessTicks - 2, AccessTicks - 3}
                        ELSE gap \in {AccessTicks - 1, AccessTicks - 2}
    <3>1. CASE phase = 0
      <4>1. seq = "PAUSED" /\ ~pause_req
        BY <1>1, <1>3, <1>6, <3>1, SeqMoves
      <4> QED BY <1>2, <3>1, <4>1 DEF Pausing
    <3>2. CASE phase = 1
      <4>1. ~power
        BY <1>3, <1>6, <3>2
      <4>2. pause_req
        <5>1. seq' = "PAUSED" => seq \in {"FETCH", "PAUSED"} /\ pause_req
          BY <1>1, <3>2, SeqMoves DEF TypeOK
        <5> QED BY <1>6, <5>1
      <4>3. seq # "IDLE"
        BY <1>1, <1>6, <3>2, SeqMoves
      <4>4. seq = "PAUSED" /\ drv = "run" /\ gap \in {AccessTicks - 1, AccessTicks - 2}
        BY <4>1, <4>2, <4>3 DEF Pausing
      <4>5. gap > 0
        BY <1>2, <4>4
      <4> QED BY <3>2, <4>4, <4>5 DEF Spaced
    <3> QED BY <1>2, <3>1, <3>2
  <2>2. gap > 0
    BY <1>2, <2>1
  <2>3. gap' = gap - 1 /\ drv' = drv /\ req' = NoAccess
    BY <1>1, <2>1, <2>2, HostPauses DEF Free
  <2>4. ~wren_pipe'
    BY <1>1, <1>2, <2>1, RegsMove DEF Writers, Yielded
  <2>5. gap' + phase' \in {AccessTicks - 2, AccessTicks - 3}
    <3>1. CASE phase = 0
      BY <1>1, <1>2, <2>1, <2>3, <3>1
    <3>2. CASE phase = 1
      BY <1>1, <1>2, <2>1, <2>3, <3>2
    <3> QED BY <1>2, <3>1, <3>2
  <2> QED BY <2>1, <2>3, <2>4, <2>5, AccessParts
<1>7. ASSUME drv' = "paused" PROVE seq' = "PAUSED" /\ pause_req'
  <2>1. seq = "PAUSED" /\ pause_req /\ power
    <3>1. CASE drv = "paused"
      BY <3>1 DEF Pausing
    <3>2. CASE drv # "paused"
      <4>1. drv = "pausing" /\ gap = 0 /\ status.pause_gnt
        BY <1>1, <1>7, <3>2, HostPlaces
      <4>2. seq = "PAUSED"
        BY <1>2, <4>1 DEF Late
      <4> QED BY <4>1, <4>2 DEF Pausing
    <3> QED BY <3>1, <3>2
  <2> QED BY <1>1, <1>3, <2>1, PauseStays
<1>8. ASSUME drv' \in {"idle", "ended"} PROVE seq' = "IDLE" /\ ~asked'
  <2>1. seq = "IDLE" /\ ~asked /\ (drv # "idle" \/ drv' = drv)
    <3>1. CASE drv \in {"idle", "ended"}
      BY <1>1, <1>8, <3>1, HostPlaces DEF Pausing
    <3>2. CASE drv \notin {"idle", "ended"}
      <4>1. gap = 0 /\ ~status.running
        BY <1>1, <1>8, <3>2, HostPlaces
      <4> QED BY <3>2, <4>1, AskedGap DEF Late
    <3> QED BY <3>1, <3>2
  <2> QED BY <1>1, <2>1, IdleStays
<1> QED BY <1>4, <1>5, <1>6, <1>7, <1>8 DEF Pausing

(* A cycle keeps the status registers one cycle behind. *)
LEMMA LateStep ==
  ASSUME TypeOK, Sequenced, Launch, Pausing, Late, Next
  PROVE  Late'
<1>1. /\ phase' = 1 - phase /\ Sequencer /\ Host /\ go_stretch' = stretched
      /\ status' = [running |-> running, pause_gnt |-> pause_gnt]
  BY DEF Next, Cycle, SysRegisters
<1>2. status'.running = running /\ status'.pause_gnt = pause_gnt /\ phase \in {0, 1}
  BY <1>1 DEF TypeOK
<1>3. ASSUME seq' # "IDLE", ~running PROVE go_stretch' # 0
  <2>1. seq = "IDLE"
    BY <1>3 DEF Sequenced
  <2>2. engine_go
    BY <1>1, <1>2, <1>3, <2>1, SeqMoves
  <2>3. CASE go
    BY <1>1, <2>3 DEF stretched
  <2>4. CASE ~go
    <3>1. go_stretch = 2
      BY <2>1, <2>2, <2>4, AskedGap DEF Launch
    <3> QED BY <1>1, <2>4, <3>1 DEF stretched
  <2> QED BY <2>3, <2>4
<1>4. ASSUME pause_gnt, seq' # "PAUSED"
      PROVE  /\ seq' = "FETCH" /\ phase' = 0
             /\ drv' = "run" \/ (drv' = "pausing" /\ gap' = AccessTicks - 1)
  <2>1. seq = "PAUSED"
    BY <1>4 DEF Sequenced
  <2>2. phase = 1 /\ ~pause_req /\ seq' = "FETCH"
    BY <1>1, <1>2, <1>4, <2>1, PauseStays
  <2>3. drv = "run"
    BY <2>1, <2>2 DEF Pausing
  <2>4. status.running
    BY <2>1 DEF Late, Launch
  <2>5. drv' = "run" \/ (drv' = "pausing" /\ gap' = AccessTicks - 1)
    BY <1>1, <2>3, <2>4, HostPlaces
  <2> QED BY <1>1, <2>2, <2>5
<1> QED BY <1>2, <1>3, <1>4 DEF Late

(* A tick of the wait while it lasts. *)
LEMMA TickDown ==
  ASSUME rdata_req, host_owns, NEW w, w # 0
  PROVE  RdTick([wait |-> w, ack |-> FALSE]) = [wait |-> w - 1, ack |-> FALSE]
BY TickIs, Zenon

(* The bus port's wait for a read, two ticks a cycle. *)
LEMMA WaitMoves ==
  ASSUME TypeOK, Sequenced, ReadWait
  PROVE  /\ ~rdata_req => bus_rd_wait' = 4 /\ ~rdata_ack' /\ ~RdNow.ack
         /\ rdata_req /\ Yielded /\ ~rdata_ack /\ bus_rd_wait = 4 =>
              bus_rd_wait' = 2 /\ ~rdata_ack' /\ ~RdNow.ack
         /\ rdata_req /\ Yielded /\ ~rdata_ack /\ bus_rd_wait = 2 =>
              bus_rd_wait' = 0 /\ ~rdata_ack' /\ ~RdNow.ack
         /\ rdata_req /\ Yielded /\ ~rdata_ack /\ bus_rd_wait = 0 => RdNow.ack
<1>1. host_owns <=> Yielded
  BY Owns
<1>2. bus_rd_wait' = RdTick(RdNow).wait /\ rdata_ack' = RdTick(RdNow).ack
  BY DEF ReadWait
<1>3. CASE ~rdata_req
  <2>1. RdNow = [wait |-> 4, ack |-> FALSE]
    BY <1>3, TickIs DEF RdNow
  <2>2. RdTick(RdNow) = [wait |-> 4, ack |-> FALSE]
    BY <1>3, <2>1, TickIs
  <2> QED BY <1>2, <1>3, <2>1, <2>2
<1>a. ~rdata_ack => rdata_ack = FALSE
  BY Bits
<1>4. CASE rdata_req /\ Yielded /\ ~rdata_ack /\ bus_rd_wait = 4
  <2>1. RdNow = [wait |-> 4 - 1, ack |-> FALSE]
    <3>1. RdNow = RdTick([wait |-> 4, ack |-> FALSE])
      BY <1>a, <1>4 DEF RdNow
    <3> QED BY <1>1, <1>4, <3>1, TickDown
  <2>2. RdTick(RdNow) = [wait |-> 3 - 1, ack |-> FALSE]
    BY <1>1, <1>4, <2>1, TickDown
  <2> QED BY <1>2, <1>4, <2>1, <2>2
<1>5. CASE rdata_req /\ Yielded /\ ~rdata_ack /\ bus_rd_wait = 2
  <2>1. RdNow = [wait |-> 2 - 1, ack |-> FALSE]
    <3>1. RdNow = RdTick([wait |-> 2, ack |-> FALSE])
      BY <1>a, <1>5 DEF RdNow
    <3> QED BY <1>1, <1>5, <3>1, TickDown
  <2>2. RdTick(RdNow) = [wait |-> 1 - 1, ack |-> FALSE]
    BY <1>1, <1>5, <2>1, TickDown
  <2> QED BY <1>2, <1>5, <2>1, <2>2
<1>6. CASE rdata_req /\ Yielded /\ ~rdata_ack /\ bus_rd_wait = 0
  <2>1. RdNow = [wait |-> 0, ack |-> TRUE]
    BY <1>1, <1>6, TickIs DEF RdNow
  <2> QED BY <1>6, <2>1
<1> QED BY <1>3, <1>4, <1>5, <1>6

(* A cycle keeps reads current. *)
LEMMA ReadingStep ==
  ASSUME TypeOK, Sequenced, Writers, Spaced, Launch, Pausing, Reading, Next
  PROVE  Reading'
<1>1. /\ phase' = 1 - phase /\ Sequencer /\ RegisterFile /\ Bus /\ Host /\ ReadWait
  BY DEF Next, Cycle, Bus
<1>2. phase \in {0, 1} /\ req.op \in {"none", "read", "write"}
  BY AccessParts DEF TypeOK
<1>3. ASSUME rdata_req' \/ (ack' /\ req'.op = "read")
      PROVE  /\ req.op = "read" /\ ~ack /\ Yielded /\ req' = req /\ seq' = seq
             /\ radr' = req.reg /\ dat_r' = ra_dat /\ ~wdata_we /\ ~wren_pipe'
             /\ (ack' <=> RdNow.ack)
  <2>1. ~ack /\ req.op # "none" /\ req' = req
    <3>1. ~ack /\ req.op # "none"
      BY <1>1, <1>3, BusMoves
    <3> QED BY <1>1, <3>1, HostHolds
  <2>2. req.op = "read"
    BY <1>1, <1>2, <1>3, <2>1, BusMoves DEF Reading
  <2>3. Yielded
    BY <1>1, <1>3, <2>1, <2>2, BusMoves
  <2>4. seq' = seq
    BY <1>1, <2>1, <2>3, KeepsYielding
  <2>5. ~wdata_we
    BY <2>2 DEF Writers
  <2>6. ~wren_pipe'
    BY <1>1, <1>2, <2>3, <2>5, RegsMove
  <2> QED BY <1>1, <2>1, <2>2, <2>3, <2>4, <2>5, <2>6, BusMoves
<1>4. rdata_req' => req'.op = "read" /\ Yielded' /\ radr' = req'.reg /\ ~wren_pipe'
  BY <1>3 DEF Yielded
<1>5. rdata_req /\ ~ack => regs' = regs /\ radr = req.reg
  BY <1>1, <1>2, RegsMove DEF Reading
<1>6. ASSUME rdata_req', ~ack'
      PROVE  /\ ~rdata_ack' /\ bus_rd_wait' \in {0, 2, 4}
             /\ (bus_rd_wait' = 0 \/ (bus_rd_wait' = 2 /\ phase' = 1)) => ra_dat' = regs'[radr']
  <2>1. CASE ~rdata_req
    BY <1>1, <2>1, WaitMoves
  <2>2. CASE rdata_req /\ bus_rd_wait = 4
    <3>1. bus_rd_wait' = 2 /\ ~rdata_ack'
      BY <1>1, <1>3, <1>6, <2>2, WaitMoves DEF Reading
    <3>2. phase' = 1 => ra_dat' = regs'[radr']
      BY <1>1, <1>2, <1>3, <1>5, <1>6, <2>2, RegsMove
    <3> QED BY <3>1, <3>2
  <2>3. CASE rdata_req /\ bus_rd_wait = 2
    <3>1. bus_rd_wait' = 0 /\ ~rdata_ack'
      BY <1>1, <1>3, <1>6, <2>3, WaitMoves DEF Reading
    <3>2. phase = 0 => ra_dat' = regs[radr]
      BY <1>1, <1>3, <1>6, <2>3, RegsMove
    <3>3. phase = 1 => ra_dat' = regs[radr]
      BY <1>1, <1>3, <1>6, <2>3, RegsMove DEF Reading
    <3> QED BY <1>2, <1>3, <1>5, <1>6, <2>3, <3>1, <3>2, <3>3
  <2>4. CASE rdata_req /\ bus_rd_wait = 0
    BY <1>1, <1>3, <1>6, <2>4, WaitMoves DEF Reading
  <2> QED BY <1>3, <1>6, <2>1, <2>2, <2>3, <2>4 DEF Reading
<1>7. ASSUME ack', req'.op = "read" PROVE dat_r' = regs'[req'.reg]
  <2>1. RdNow.ack /\ ~ack /\ req' = req /\ dat_r' = ra_dat /\ Yielded
    BY <1>3, <1>7
  <2>2. rdata_req
    BY <1>1, <2>1, WaitMoves
  <2>3. bus_rd_wait = 0
    BY <1>1, <2>1, <2>2, WaitMoves DEF Reading
  <2> QED BY <1>5, <2>1, <2>2, <2>3 DEF Reading
<1> QED BY <1>4, <1>6, <1>7 DEF Reading, HostReadIsCurrent

-----------------------------------------------------------------------------
(* The theorems. *)

Inv == EngineInv /\ PortInv

(* The invariant holds after reset. *)
LEMMA InitInv == Init => Inv
<1> SUFFICES ASSUME Init PROVE Inv
  OBVIOUS
<1>1. TypeOK
  <2>1. program \in Program /\ 0 \in Addr /\ program.code[0] \in Instruction
    BY ProgramsAssumption, DepthAssumption DEF Init, Program, Addr
  <2>2. {go, power, pause_req, running, pause_gnt, q_valid, start_pipe, mul_valid, wren_pipe,
         wdata_we, rdata_req, rdata_ack, ack, asked} \subseteq BOOLEAN
    BY Zenon DEF Init
  <2>3. [r \in Reg |-> 0] \in [Reg -> Value]
    BY DEF Value
  <2>4. 0 \in Nat /\ 0 < MulSteps /\ 0 \in 0..(AccessTicks - 1)
    BY StepsAssumption
  <2> QED BY <2>1, <2>2, <2>3, <2>4 DEF Init, TypeOK, Reg, Value, rd_wait_states
<1>2. Sequenced /\ Units
  BY DEF Init, Sequenced, Units
<1>3. Beat /\ Operands
  BY DEF Init, Beat, Operands
<1>4. Writers /\ Spaced
  BY DEF Init, Writers, Spaced, Yielded, NoAccess
<1>5. Launch /\ Pausing /\ Late
  BY DEF Init, Launch, Pausing, Late
<1>6. Reading
  BY DEF Init, Reading, HostReadIsCurrent
<1> QED BY <1>1, <1>2, <1>3, <1>4, <1>5, <1>6 DEF Inv, EngineInv, PortInv

(* A cycle keeps the invariant, and so does a stutter. *)
LEMMA InvStep == Inv /\ [Next]_vars => Inv'
<1> SUFFICES ASSUME Inv, [Next]_vars PROVE Inv'
  OBVIOUS
<1>0. /\ TypeOK /\ Sequenced /\ Units /\ Beat /\ Operands
      /\ Writers /\ Spaced /\ Launch /\ Pausing /\ Late /\ Reading
  BY DEF Inv, EngineInv, PortInv
<1>1. CASE Next
  <2>1. EngineInv'
    BY <1>0, <1>1, TypeStep, SequencedStep, UnitsStep, BeatStep, OperandsStep DEF EngineInv
  <2>2. PortInv'
    BY <1>0, <1>1, WritersStep, SpacedStep, LaunchStep, PausingStep, LateStep, ReadingStep
       DEF PortInv
  <2> QED BY <2>1, <2>2 DEF Inv
<1>2. CASE UNCHANGED vars
  <2> USE <1>2 DEF vars, seqVars, mulVars, rfVars, busVars, hostVars
  <2>1. TypeOK'
    BY <1>0 DEF TypeOK
  <2>2. Sequenced' /\ Units' /\ Beat'
    BY <1>0 DEF Sequenced, Units, Beat
  <2>3. Operands'
    BY <1>0 DEF Operands, operand_a, operand_b
  <2>4. Writers' /\ Spaced'
    BY <1>0 DEF Writers, Spaced, Yielded, done
  <2>5. Launch' /\ Pausing' /\ Late'
    BY <1>0 DEF Launch, Pausing, Late
  <2>6. Reading'
    BY <1>0 DEF Reading, HostReadIsCurrent, Yielded
  <2> QED BY <2>1, <2>2, <2>3, <2>4, <2>5, <2>6 DEF Inv, EngineInv, PortInv
<1> QED BY <1>1, <1>2

(* The sequencer, its units, the host and its port stay in step with one another. *)
THEOREM Invariance == Spec => []Inv
BY InitInv, InvStep, PTL DEF Spec

(* Software can trust the status bits (engine.py:1571): when a poll of them says that a   *)
(* run is over, or that the engine is paused, it is; and the state stays in its ranges.   *)
THEOREM StatusIsSoundCorrect == Spec => []StatusIsSound
<1>1. Inv => StatusIsSound
  BY DEF Inv, EngineInv, PortInv, StatusIsSound, RunObserved, PausedMeansPaused,
         Pausing, Sequenced, Units
<1> QED BY <1>1, Invariance, PTL

(* The host reads what is in a register and its acknowledged writes get there,   *)
(* whatever the phase of the register file (engine.py:1632, 1757).               *)
THEOREM HostAccessSoundCorrect == Spec => HostAccessSound
<1>1. Inv => HostReadIsCurrent
  BY DEF Inv, PortInv, Reading
<1>2. Inv /\ [Next]_vars => [phase = 1 /\ due.op = "write" => regs'[due.reg] = due.val]_vars
  <2> SUFFICES ASSUME Inv, Next, phase = 1, due.op = "write" PROVE regs'[due.reg] = due.val
    OBVIOUS
  <2>1. TypeOK /\ Sequenced /\ Writers /\ RegisterFile
    BY DEF Inv, EngineInv, PortInv, Next, Cycle
  <2>2. Yielded /\ wadr = due.reg /\ wdata = due.val /\ wren_pipe
    BY <2>1 DEF Writers
  <2>3. regs' = [regs EXCEPT ![wadr] = wdata]
    BY <2>1, <2>2, RegsMove
  <2>4. regs \in [Reg -> Value] /\ wadr \in Reg
    BY <2>1 DEF TypeOK
  <2> QED BY <2>2, <2>3, <2>4
<1> QED BY <1>1, <1>2, Invariance, PTL DEF Spec, HostAccessSound, HostWriteLands

-----------------------------------------------------------------------------
(* The refinement of Microcode. *)

(* Who has the registers, as Microcode sees it. *)
Owner == IF ~running THEN "idle" ELSE IF pause_gnt THEN "paused" ELSE "engine"

(* The sequencer's state says who it is. *)
LEMMA OwnerIs ==
  ASSUME TypeOK, Sequenced
  PROVE  /\ seq = "IDLE" => Owner = "idle"
         /\ seq = "PAUSED" => Owner = "paused"
         /\ ~Yielded => Owner = "engine"
BY DEF Sequenced, Owner, Yielded

(* And after a step. *)
LEMMA OwnerBecomes ==
  ASSUME TypeOK', Sequenced'
  PROVE  /\ seq' = "IDLE" => Owner' = "idle"
         /\ seq' = "PAUSED" => Owner' = "paused"
         /\ ~Yielded' => Owner' = "engine"
BY DEF Sequenced, Owner, Yielded

(* Both modules read the instruction set from EngineIsa. *)
LEMMA SameIsa ==
  /\ \A op, a, b : Promise!Alu(op, a, b) = Alu(op, a, b)
  /\ \A p : Promise!Stop(p) = Stop(p)
  /\ \A i, pc : Promise!Target(i, pc) = (i.immediate + pc + 1) % Depth
  /\ \A p, pc : Promise!InRange(p, pc) <=> p.mpstart <= pc /\ pc < Stop(p)
  /\ Promise!Logic = Logic /\ Promise!Reg = Reg /\ Promise!Value = Value
  /\ Promise!Addr = Addr /\ Promise!Program = Program
BY DEF Promise!Alu, Alu, Promise!Stop, Stop, Promise!Target, Promise!InRange, Promise!Logic, Logic,
       Promise!Reg, Reg, Promise!Value, Value, Promise!Addr, Addr, Promise!Program, Program,
       Promise!Instruction, Instruction, Promise!Opcode, Opcode

(* The operands in the register file's output are those in the registers. *)
LEMMA OperandsAre ==
  ASSUME TypeOK, Sequenced, Operands, seq \in {"WAIT_DONE", "DO_BRZ"}
  PROVE  /\ instruction = program.code[mpc]
         /\ operand_a = Promise!OperandA(instruction) /\ operand_b = Promise!OperandB(instruction)
BY DEF Sequenced, Operands, operand_a, operand_b, Promise!OperandA, Promise!OperandB

(* What is written for a finished instruction is its result. *)
LEMMA ResultIs ==
  ASSUME TypeOK, Units, Beat, Operands, phase = 1, seq = "WAIT_DONE", done
  PROVE  /\ wd_dat = Alu(instruction.op, operand_a, operand_b)
         /\ instruction.op \in Logic \union {"MUL"}
<1>1. CASE mul_valid
  <2>1. instruction.op = "MUL" /\ mul_q = operand_a * operand_b
    BY <1>1 DEF Units, Operands
  <2> QED BY <1>1, <2>1 DEF wd_dat, Alu
<1>2. CASE ~mul_valid
  BY <1>2 DEF wd_dat, done, Units
<1> QED BY <1>1, <1>2

(* The history of the host's wish for a run. *)
LEMMA AskedMoves ==
  ASSUME TypeOK, Launch, Pausing, Sequencer, History, Host
  PROVE  /\ seq # "IDLE" => asked' = asked
         /\ seq = "IDLE" /\ seq' = "IDLE" => asked' = asked \/ (~asked /\ asked' = TRUE)
         /\ seq = "IDLE" /\ seq' = "FETCH" => phase = 1 /\ asked /\ asked' = FALSE
<1>1. go' => drv = "idle" /\ seq = "IDLE" /\ ~asked
  BY HostMoves DEF Pausing
<1>2. asked' = IF go' THEN TRUE ELSE asked /\ ~(seq = "IDLE" /\ seq' = "FETCH")
  BY DEF History
<1>3. asked \in BOOLEAN
  BY Bits
<1>4. seq = "IDLE" /\ seq' = "FETCH" => phase = 1 /\ asked
  BY AskedGap, SeqMoves DEF TypeOK
<1> QED BY <1>1, <1>2, <1>3, <1>4

(* After reset the engine is idle. *)
LEMMA RefinesInit == Init => Promise!Init
<1> SUFFICES ASSUME Init PROVE Promise!Init
  OBVIOUS
<1>1. program \in Program /\ 0 \in Addr
  BY ProgramsAssumption, DepthAssumption DEF Init, Addr
<1>2. [r \in Reg |-> 0] \in [Reg -> Value]
  BY DEF Value
<1> QED BY <1>1, <1>2, SameIsa DEF Init, Promise!Init

(* A write of the host falls in a cycle that leaves the sequencer where it is. *)
LEMMA RefinesHostWrite ==
  ASSUME Inv, Next, phase = 1, wren_pipe, Yielded
  PROVE  \E r \in Reg, v \in Value : Promise!HostWrite(r, v)
<1>1. /\ TypeOK /\ Sequenced /\ Writers /\ Spaced /\ Launch /\ Pausing
      /\ Host /\ Sequencer /\ RegisterFile /\ History /\ program' = program
      /\ TypeOK' /\ Sequenced'
  BY TypeStep, SequencedStep DEF Inv, EngineInv, PortInv, Next, Cycle
<1>2. ~asked \/ ~engine_go
  BY <1>1, AskedGap DEF Spaced
<1>3. seq' = seq /\ mpc' = mpc
  <2>1. CASE seq = "IDLE"
    <3>1. ~engine_go
      BY <1>1, <1>2, <2>1, AskedGap
    <3> QED BY <1>1, <2>1, <3>1, SeqMoves
  <2>2. CASE seq = "PAUSED"
    BY <1>1, <2>2, SeqMoves DEF Pausing
  <2> QED BY <2>1, <2>2 DEF Yielded
<1>4. Owner \in {"idle", "paused"} /\ Owner' = Owner
  BY <1>1, <1>3, OwnerIs, OwnerBecomes DEF Yielded
<1>5. asked' \in {asked, Owner = "idle"}
  <2>1. CASE seq = "IDLE"
    <3>1. (Owner = "idle") = TRUE
      BY <1>1, <2>1, OwnerIs
    <3> QED BY <1>1, <1>3, <2>1, <3>1, AskedMoves
  <2>2. CASE seq # "IDLE"
    BY <1>1, <2>2, AskedMoves
  <2> QED BY <2>1, <2>2
<1>6. regs' = [regs EXCEPT ![wadr] = wdata] /\ wadr \in Reg /\ wdata \in Value
  BY <1>1, RegsMove DEF TypeOK
<1>7. Promise!HostWrite(wadr, wdata)
  BY <1>1, <1>3, <1>4, <1>5, <1>6 DEF Promise!HostWrite, Owner
<1> QED BY <1>6, <1>7

(* A cycle of an engine that has yielded the registers and gets no write. *)
LEMMA RefinesYielded ==
  ASSUME Inv, Next, Yielded, phase = 0 \/ ~wren_pipe
  PROVE  Promise!Ask \/ Promise!Begin \/ Promise!Resume \/ UNCHANGED Promise!vars
<1>1. /\ TypeOK /\ Sequenced /\ Launch /\ Pausing
      /\ Host /\ Sequencer /\ RegisterFile /\ History /\ program' = program
      /\ TypeOK' /\ Sequenced' /\ phase \in {0, 1}
  BY TypeStep, SequencedStep DEF Inv, EngineInv, PortInv, Next, Cycle, TypeOK
<1>2. regs' = regs
  BY <1>1, RegsMove
<1>3. CASE seq = "IDLE" /\ seq' = "IDLE"
  <2>1. mpc' = mpc
    BY <1>1, <1>3, SeqMoves
  <2>2. Owner = "idle" /\ Owner' = "idle"
    BY <1>1, <1>3, OwnerIs, OwnerBecomes
  <2>3. asked' = asked \/ (~asked /\ asked' = TRUE)
    BY <1>1, <1>3, AskedMoves
  <2>4. CASE asked' = asked
    BY <1>1, <1>2, <2>1, <2>2, <2>4 DEF Promise!vars, Owner
  <2>5. CASE ~asked /\ asked' = TRUE
    BY <1>1, <1>2, <2>1, <2>2, <2>5 DEF Promise!Ask, Owner
  <2> QED BY <2>3, <2>4, <2>5
<1>4. CASE seq = "IDLE" /\ seq' # "IDLE"
  <2>1. phase = 1 /\ seq' = "FETCH" /\ engine_go
    BY <1>1, <1>4, SeqMoves
  <2>2. asked /\ asked' = FALSE
    BY <1>1, <1>4, <2>1, AskedMoves
  <2>3. mpc' = program.mpstart
    BY <1>1, <1>4, <2>1, <2>2, SeqMoves DEF Launch
  <2>4. Owner = "idle" /\ Owner' = "engine"
    BY <1>1, <1>4, <2>1, OwnerIs, OwnerBecomes DEF Yielded
  <2> QED BY <1>1, <1>2, <2>2, <2>3, <2>4 DEF Promise!Begin, Owner
<1>5. CASE seq = "PAUSED"
  <2>1. mpc' = mpc /\ asked' = asked /\ seq' \in {"PAUSED", "FETCH"}
    BY <1>1, <1>5, SeqMoves, AskedMoves
  <2>2. Owner = "paused" /\ Owner' = IF seq' = "PAUSED" THEN "paused" ELSE "engine"
    BY <1>1, <1>5, <2>1, OwnerIs, OwnerBecomes DEF Yielded
  <2>3. CASE seq' = "PAUSED"
    BY <1>1, <1>2, <2>1, <2>2, <2>3 DEF Promise!vars, Owner
  <2>4. CASE seq' = "FETCH"
    BY <1>1, <1>2, <2>1, <2>2, <2>4 DEF Promise!Resume, Owner
  <2> QED BY <2>1, <2>3, <2>4
<1> QED BY <1>3, <1>4, <1>5 DEF Yielded

(* A cycle within an instruction, or between two. *)
LEMMA RefinesEngine ==
  ASSUME Inv, Next, ~Yielded, phase = 0 \/ ~done
  PROVE  Promise!Pause \/ Promise!Branch \/ Promise!Halt \/ UNCHANGED Promise!vars
<1>1. /\ TypeOK /\ Sequenced /\ Operands /\ Writers /\ Launch /\ Pausing
      /\ Host /\ Sequencer /\ RegisterFile /\ History /\ program' = program
      /\ TypeOK' /\ Sequenced' /\ phase \in {0, 1}
  BY TypeStep, SequencedStep DEF Inv, EngineInv, PortInv, Next, Cycle, TypeOK
<1>2. regs' = regs
  BY <1>1, RegsMove DEF Writers
<1>3. asked' = asked /\ Owner = "engine"
  BY <1>1, AskedMoves, OwnerIs DEF Yielded
<1>4. ASSUME ~Yielded', mpc' = mpc PROVE UNCHANGED Promise!vars
  <2>1. Owner' = "engine"
    BY <1>1, <1>4, OwnerIs, OwnerBecomes
  <2> QED BY <1>1, <1>2, <1>3, <1>4, <2>1 DEF Promise!vars, Owner
<1>5. ASSUME seq' = "IDLE", mpc' = mpc, program.code[mpc].op \in {"FIN", "ILLEGAL"} PROVE Promise!Halt
  <2>1. Owner' = "idle"
    BY <1>1, <1>5, OwnerIs, OwnerBecomes
  <2> QED BY <1>1, <1>2, <1>3, <1>5, <2>1 DEF Promise!Halt, Owner
<1>6. CASE phase = 0
  BY <1>1, <1>4, <1>6, SeqMoves DEF Yielded
<1>7. CASE phase = 1 /\ seq = "FETCH"
  <2>1. mpc' = mpc /\ seq' \in {"PAUSED", "EXEC"}
    BY <1>1, <1>7, SeqMoves
  <2>2. CASE seq' = "PAUSED"
    <3>1. Owner' = "paused"
      BY <1>1, <2>2, OwnerIs, OwnerBecomes
    <3> QED BY <1>1, <1>2, <1>3, <2>1, <3>1 DEF Promise!Pause, Owner
  <2>3. CASE seq' = "EXEC"
    BY <1>4, <2>1, <2>3 DEF Yielded
  <2> QED BY <2>1, <2>2, <2>3
<1>8. CASE phase = 1 /\ seq = "EXEC"
  <2>1. /\ mpc' = mpc /\ seq' \in {"DO_BRZ", "IDLE", "ILLEGAL_OPCODE", "WAIT_DONE"}
        /\ seq' = "IDLE" => instruction.op = "FIN"
    BY <1>1, <1>8, SeqMoves
  <2>2. instruction = program.code[mpc]
    BY <1>1, <1>8 DEF Sequenced
  <2>3. CASE seq' = "IDLE"
    BY <1>5, <2>1, <2>2, <2>3
  <2>4. CASE seq' # "IDLE"
    BY <1>4, <2>1, <2>4 DEF Yielded
  <2> QED BY <2>3, <2>4
<1>9. CASE phase = 1 /\ seq = "ILLEGAL_OPCODE"
  <2>1. program.code[mpc].op = "ILLEGAL"
    BY <1>1, <1>9 DEF Sequenced
  <2> QED BY <1>1, <1>5, <1>9, <2>1, SeqMoves
<1>10. CASE phase = 1 /\ seq = "WAIT_DONE"
  BY <1>1, <1>4, <1>10, SeqMoves DEF Yielded
<1>11. CASE phase = 1 /\ seq = "DO_BRZ"
  <2>1. /\ instruction = program.code[mpc] /\ instruction.op = "BRZ" /\ mpc_stop = Stop(program)
        /\ operand_a = Promise!OperandA(instruction)
    BY <1>1, <1>11, OperandsAre DEF Sequenced
  <2>2. seq' \in {"FETCH", "IDLE"} /\ Owner' = IF seq' = "FETCH" THEN "engine" ELSE "idle"
    <3>1. seq' \in {"FETCH", "IDLE"}
      BY <1>1, <1>11, SeqMoves
    <3> QED BY <1>1, <3>1, OwnerBecomes DEF Yielded
  <2>3. CASE operand_a # 0
    <3>1. IF mpc < Stop(program) THEN mpc' = mpc + 1 /\ seq' = "FETCH" ELSE mpc' = mpc /\ seq' = "IDLE"
      BY <1>1, <1>11, <2>1, <2>3, SeqMoves
    <3>2. Promise!Advance
      BY <1>3, <2>2, <3>1, SameIsa DEF Promise!Advance, Owner
    <3> QED BY <1>1, <1>2, <1>3, <2>1, <2>3, <3>2 DEF Promise!Branch, Owner
  <2>4. CASE operand_a = 0
    <3>1. IF program.mpstart <= BrzTarget /\ BrzTarget < Stop(program)
          THEN mpc' = BrzTarget /\ seq' = "FETCH" ELSE mpc' = mpc /\ seq' = "IDLE"
      <4>1. BrzTarget \in Nat /\ program.mpstart \in Nat
        BY <1>1, NextAddr, ProgramParts DEF BrzTarget, Addr
      <4>2. program.mpstart <= BrzTarget <=> BrzTarget >= program.mpstart
        BY <4>1
      <4> QED BY <1>1, <1>11, <2>1, <2>4, <4>2, SeqMoves
    <3>2. /\ Promise!Target(instruction, mpc) = BrzTarget
          /\ Promise!InRange(program, BrzTarget) <=>
               program.mpstart <= BrzTarget /\ BrzTarget < Stop(program)
      BY SameIsa DEF BrzTarget
    <3>3. IF Promise!InRange(program, Promise!Target(instruction, mpc))
          THEN mpc' = Promise!Target(instruction, mpc) /\ Owner' = Owner
          ELSE Owner' = "idle" /\ mpc' = mpc
      BY <1>3, <2>2, <3>1, <3>2
    <3> QED BY <1>1, <1>2, <1>3, <2>1, <2>4, <3>3 DEF Promise!Branch, Owner
  <2> QED BY <2>3, <2>4
<1> QED BY <1>1, <1>6, <1>7, <1>8, <1>9, <1>10, <1>11 DEF TypeOK, Yielded

(* The cycle at whose end a unit's result is written is the instruction. *)
LEMMA RefinesCompute ==
  ASSUME Inv, Next, ~Yielded, phase = 1, done
  PROVE  Promise!Compute
<1>1. /\ TypeOK /\ Sequenced /\ Units /\ Beat /\ Operands /\ Writers /\ Launch /\ Pausing
      /\ Host /\ Sequencer /\ RegisterFile /\ History /\ program' = program
      /\ TypeOK' /\ Sequenced'
  BY TypeStep, SequencedStep DEF Inv, EngineInv, PortInv, Next, Cycle
<1>2. seq = "WAIT_DONE" /\ mpc_stop = Stop(program)
  BY <1>1 DEF Units, Sequenced, done
<1>3. asked' = asked /\ Owner = "engine"
  BY <1>1, <1>2, AskedMoves, OwnerIs
<1>4. /\ instruction = program.code[mpc] /\ instruction.op \in Logic \union {"MUL"}
      /\ wd_dat = Promise!Alu(instruction.op, Promise!OperandA(instruction),
                              Promise!OperandB(instruction))
  BY <1>1, <1>2, OperandsAre, ResultIs, SameIsa
<1>5. regs' = [regs EXCEPT ![instruction.wd] = wd_dat]
  BY <1>1, RegsMove DEF Writers
<1>6. Promise!Advance
  <2>1. IF mpc < Stop(program) THEN mpc' = mpc + 1 /\ seq' = "FETCH" ELSE mpc' = mpc /\ seq' = "IDLE"
    BY <1>1, <1>2, SeqMoves
  <2>2. Owner' = IF seq' = "FETCH" THEN "engine" ELSE "idle"
    BY <1>1, <2>1, OwnerIs, OwnerBecomes DEF Yielded
  <2> QED BY <1>3, <2>1, <2>2, SameIsa DEF Promise!Advance, Owner
<1> QED BY <1>1, <1>3, <1>4, <1>5, <1>6, SameIsa DEF Promise!Compute, Owner

(* Instructions run one after the other, each whole, in the order of the program, however  *)
(* the units' latencies, the clocks' phases, pauses and host accesses fall; the host's      *)
(* writes come between them (engine.py:1790-1927).                                          *)
THEOREM InstructionsInOrderCorrect == Spec => InstructionsInOrder
<1>1. Inv /\ [Next]_vars => [Promise!Next]_Promise!vars
  <2>1. ASSUME Inv, Next PROVE Promise!Next \/ UNCHANGED Promise!vars
    <3>1. TypeOK /\ Sequenced /\ Writers /\ phase \in {0, 1}
      BY <2>1 DEF Inv, EngineInv, PortInv, TypeOK
    <3>2. CASE Yielded /\ phase = 1 /\ wren_pipe
      BY <2>1, <3>2, RefinesHostWrite, SameIsa DEF Promise!Next
    <3>3. CASE Yielded /\ (phase = 0 \/ ~wren_pipe)
      BY <2>1, <3>3, RefinesYielded DEF Promise!Next
    <3>4. CASE ~Yielded /\ (phase = 0 \/ ~done)
      BY <2>1, <3>4, RefinesEngine DEF Promise!Next
    <3>5. CASE ~Yielded /\ phase = 1 /\ done
      BY <2>1, <3>5, RefinesCompute DEF Promise!Next
    <3> QED BY <3>1, <3>2, <3>3, <3>4, <3>5
  <2>2. ASSUME UNCHANGED vars PROVE UNCHANGED Promise!vars
    BY <2>2 DEF vars, seqVars, rfVars, Promise!vars
  <2> QED BY <2>1, <2>2
<1> QED BY <1>1, RefinesInit, Invariance, PTL DEF Spec, InstructionsInOrder, Promise!Spec
=============================================================================
