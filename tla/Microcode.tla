------------------------------ MODULE Microcode ------------------------------
(***************************************************************************)
(* What the Curve25519 engine promises to its programmer: instructions run *)
(* one after the other on the register file, each of them whole, once for  *)
(* every run the host asks for; the host touches the registers only while  *)
(* no program runs or between two instructions of a paused one.            *)
(***************************************************************************)
EXTENDS EngineIsa

VARIABLES program,  \* what the microcode memory and its CSRs hold
          regs, pc,
          owner,    \* who has the registers: idle (host), engine, paused (host)
          asked     \* the host has asked for a run that has not begun

vars == <<program, regs, pc, owner, asked>>

Init == /\ program \in Program
        /\ regs \in [Reg -> Value] /\ pc \in Addr
        /\ owner = "idle" /\ asked = FALSE

OperandA(i) == IF i.ca THEN i.ra ELSE regs[i.ra]
OperandB(i) == IF i.cb THEN i.rb ELSE regs[i.rb]

Ask == /\ owner = "idle" /\ ~asked /\ asked' = TRUE
       /\ UNCHANGED <<program, regs, pc, owner>>

Begin == /\ owner = "idle" /\ asked
         /\ asked' = FALSE /\ owner' = "engine" /\ pc' = program.mpstart
         /\ UNCHANGED <<program, regs>>

(* On to pc + 1, or the end after the last word. *)
Advance == IF pc < Stop(program) THEN pc' = pc + 1 /\ UNCHANGED owner
                                 ELSE owner' = "idle" /\ UNCHANGED pc

Compute == LET i == program.code[pc] IN
  /\ owner = "engine" /\ i.op \in Logic \union {"MUL"}
  /\ regs' = [regs EXCEPT ![i.wd] = Alu(i.op, OperandA(i), OperandB(i))]
  /\ Advance
  /\ UNCHANGED <<program, asked>>

Branch == LET i == program.code[pc] IN
  /\ owner = "engine" /\ i.op = "BRZ"
  /\ IF OperandA(i) # 0 THEN Advance
     ELSE IF InRange(program, Target(i, pc)) THEN pc' = Target(i, pc) /\ UNCHANGED owner
     ELSE owner' = "idle" /\ UNCHANGED pc
  /\ UNCHANGED <<program, regs, asked>>

Halt == /\ owner = "engine" /\ program.code[pc].op \in {"FIN", "ILLEGAL"}
        /\ owner' = "idle"
        /\ UNCHANGED <<program, regs, pc, asked>>

Pause == /\ owner = "engine" /\ owner' = "paused"
         /\ UNCHANGED <<program, regs, pc, asked>>

Resume == /\ owner = "paused" /\ owner' = "engine"
          /\ UNCHANGED <<program, regs, pc, asked>>

(* A write may reach its register while the host already asks for a run. *)
HostWrite(r, v) == /\ owner # "engine" /\ regs' = [regs EXCEPT ![r] = v]
                   /\ asked' \in {asked, owner = "idle"}
                   /\ UNCHANGED <<program, pc, owner>>

Next == \/ Ask \/ Begin \/ Compute \/ Branch \/ Halt \/ Pause \/ Resume
        \/ \E r \in Reg, v \in Value : HostWrite(r, v)

Spec == Init /\ [][Next]_vars
=============================================================================
