------------------------------ MODULE EngineIsa ------------------------------
(***************************************************************************)
(* The instructions of the Curve25519 engine (curve25519/engine.py), with  *)
(* registers of one bit: enough to see which value went where.  Shifts,    *)
(* sums and the reduction test are logic instructions to the sequencer     *)
(* like those kept here.                                                   *)
(***************************************************************************)
EXTENDS Integers

CONSTANT Depth      \* words of microcode memory (1024)

ASSUME DepthAssumption == Depth \in Nat \ {0}

Addr == 0..(Depth - 1)
Reg == {0, 1}
Value == {0, 1}

Logic == {"PSA", "PSB", "MSK", "XOR", "NOT"}
Opcode == Logic \union {"MUL", "BRZ", "FIN", "ILLEGAL"}

(* ca, cb: the operand is constant number ra or rb; constants 0 and 1 are 0 and 1. *)
Instruction == [op : Opcode, ra : Reg, ca : BOOLEAN, rb : Reg, cb : BOOLEAN,
                wd : Reg, immediate : Addr]

(* The word that a microcode memory nobody wrote holds: PSA 0, 0. *)
Zero == [op |-> "PSA", ra |-> 0, ca |-> FALSE, rb |-> 0, cb |-> FALSE,
         wd |-> 0, immediate |-> 0]

Alu(op, a, b) == CASE op = "PSA" -> a
                   [] op = "PSB" -> b
                   [] op = "XOR" -> (a + b) % 2
                   [] op = "NOT" -> 1 - a
                   [] op \in {"MSK", "MUL"} -> a * b

(* A program: the memory, where to start and how many words it has. *)
Program == [code : [Addr -> Instruction], mpstart : Addr, mplen : Addr]
Stop(p) == (p.mpstart + p.mplen - 1) % Depth

(* mpc arithmetic has the width of mpc; the immediate is sign-extended. *)
Target(i, pc) == (i.immediate + pc + 1) % Depth

(* Branches go anywhere in the program but to its last word. *)
InRange(p, pc) == p.mpstart <= pc /\ pc < Stop(p)
=============================================================================
