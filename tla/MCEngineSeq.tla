----------------------------- MODULE MCEngineSeq -----------------------------
(* Programs for the checks of EngineSeq, in a memory of eight words. *)
EXTENDS EngineSeq

I(op, ra, rb, wd) == [Zero EXCEPT !.op = op, !.ra = ra, !.rb = rb, !.wd = wd]
BrzReg(r, imm) == [Zero EXCEPT !.op = "BRZ", !.ra = r, !.immediate = imm]
BrzAlways(imm) == [BrzReg(0, imm) EXCEPT !.ca = TRUE]
Fin == [Zero EXCEPT !.op = "FIN"]
Bad == [Zero EXCEPT !.op = "ILLEGAL"]

Load(words, start, len) ==
  [code |-> [a \in Addr |-> IF a + 1 \in DOMAIN words THEN words[a + 1] ELSE Zero],
   mpstart |-> start, mplen |-> len]

(* A product used by the next instruction. *)
Straight == Load(<<I("XOR", 0, 1, 0), I("MUL", 0, 1, 1), I("NOT", 1, 0, 0), Fin>>, 0, 4)
(* A loop until the host writes 1 to register 0, and one that never ends. *)
Loop == Load(<<Zero, I("MSK", 0, 1, 1), BrzReg(0, 6), Fin>>, 1, 3)
Forever == Load(<<I("NOT", 0, 0, 0), BrzAlways(6), Fin>>, 0, 3)
(* A branch forward. *)
Skip == Load(<<I("XOR", 0, 1, 0), BrzReg(0, 1), [I("PSA", 1, 0, 1) EXCEPT !.ca = TRUE],
               I("NOT", 0, 0, 0), Fin>>, 0, 5)
(* No FIN: the program ends after mplen words, at the top of the memory. *)
NoFin == Load(<<Zero, Zero, Zero, Zero, Zero, Zero, I("PSB", 0, 1, 0), I("MUL", 0, 0, 1)>>, 6, 2)
(* The two other ends: an illegal opcode, a branch out of the program. *)
Illegal == Load(<<I("XOR", 0, 1, 1), Bad, Fin>>, 0, 3)
Escape == Load(<<Zero, Zero, I("NOT", 1, 0, 1), BrzAlways(5), Fin>>, 2, 3)

Samples == {Straight, Loop, Forever, Skip, NoFin, Illegal, Escape}
=============================================================================
