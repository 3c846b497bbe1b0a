----------------------------- MODULE ChaChaSeed -----------------------------
(***************************************************************************)
(* The seed control of ChaChaConditioner (seedfsm in chacha/chacha.py).    *)
(* It asks for SeedWords words to fill the key pool, for DinWords to fill  *)
(* the blinding input, starts the core, and afterwards asks for one word   *)
(* every reseed_interval blocks.  A word is requested and taken by a four- *)
(* phase handshake on seed_req and seed_gnt, both of them registers.       *)
(*                                                                         *)
(* SeedFsm is one clock cycle; its parameters are the wires it reads.      *)
(***************************************************************************)
EXTENDS Integers

CONSTANTS SeedWords,    \* words for the key pool, the dummy first one included (13)
          DinWords,     \* words for data_in (16)
          Intervals     \* values software gives to reseed_interval

ASSUME SeedAssumption == {SeedWords, DinWords} \subseteq 1..31   \* seed_ctr has five bits
ASSUME IntervalAssumption == Intervals \subseteq Nat /\ Intervals # {}

VARIABLES seedfsm, seed_ctr, reseed_ctr, reseed_interval,
          seed_req, seed_gnt_r,
          chacha_ready     \* self.ready: all seeding is done

seedVars == <<seedfsm, seed_ctr, reseed_ctr, reseed_interval, seed_req,
              seed_gnt_r, chacha_ready>>

SeedInit ==
  /\ seedfsm = "RESET" /\ seed_ctr = 16 /\ reseed_ctr = 0
  /\ reseed_interval \in Intervals
  /\ seed_req = FALSE /\ seed_gnt_r = FALSE /\ chacha_ready = FALSE

(* Fault: the grant is taken for as long as it lasts, not on its rising edge. *)
seed_gnt_level(gnt) == gnt
seed_gnt_rising(gnt) == gnt /\ ~seed_gnt_r

(* state_rot or din_shift: the word on the seed port enters the pool. *)
Stir(gnt) == seed_gnt_rising(gnt) /\ seedfsm \in {"SEEDING", "DIN_SEEDING", "RUN_RESEED"}

Reset == /\ seedfsm = "RESET" /\ seedfsm' = "SEEDING"
         /\ reseed_ctr' = 1 /\ seed_ctr' = SeedWords /\ chacha_ready' = FALSE
         /\ UNCHANGED seed_req

(* SEEDING and DIN_SEEDING differ in what follows once seed_ctr runs out. *)
Gather(state, gnt, nextState, nextCtr) ==
  /\ seedfsm = state
  /\ seedfsm' = IF seed_ctr = 0 THEN nextState ELSE state
  /\ seed_req' = (seed_ctr # 0 /\ ~gnt)
  /\ seed_ctr' = IF seed_ctr = 0 THEN nextCtr
                 ELSE IF seed_gnt_rising(gnt) THEN seed_ctr - 1 ELSE seed_ctr
  /\ UNCHANGED <<reseed_ctr, chacha_ready>>

Seeded(ready) == /\ seedfsm = "SEEDED"
                 /\ seedfsm' = IF ready THEN "WAIT_INIT" ELSE "SEEDED"
                 /\ UNCHANGED <<seed_ctr, reseed_ctr, seed_req, chacha_ready>>

WaitInit(valid) == /\ seedfsm = "WAIT_INIT"
                   /\ seedfsm' = IF valid THEN "RUN" ELSE "WAIT_INIT"
                   /\ chacha_ready' = (valid \/ chacha_ready)
                   /\ UNCHANGED <<seed_ctr, reseed_ctr, seed_req>>

(* Fault: the counter, which stops at the interval, must pass it. *)
DuePast(advance_block) ==
  advance_block /\ reseed_ctr > reseed_interval /\ reseed_interval # 0
Due(advance_block) ==
  advance_block /\ reseed_ctr = reseed_interval /\ reseed_interval # 0

Run(advance_block) ==
  /\ seedfsm = "RUN"
  /\ seedfsm' = IF Due(advance_block) THEN "RUN_RESEED" ELSE "RUN"
  /\ seed_req' = (Due(advance_block) \/ seed_req)
  /\ reseed_ctr' = IF Due(advance_block) THEN 1
                   ELSE IF advance_block /\ reseed_ctr < reseed_interval
                   THEN reseed_ctr + 1 ELSE reseed_ctr
  /\ UNCHANGED <<seed_ctr, chacha_ready>>

(* Fault: the request is not held until it is granted. *)
RunReseedPulse(gnt) ==
  /\ seedfsm = "RUN_RESEED"
  /\ seedfsm' = IF seed_gnt_rising(gnt) THEN "RUN" ELSE "RUN_RESEED"
  /\ seed_req' = FALSE
  /\ UNCHANGED <<seed_ctr, reseed_ctr, chacha_ready>>

RunReseed(gnt) ==
  /\ seedfsm = "RUN_RESEED"
  /\ seedfsm' = IF seed_gnt_rising(gnt) THEN "RUN" ELSE "RUN_RESEED"
  /\ seed_req' = (seed_req /\ ~seed_gnt_rising(gnt))
  /\ UNCHANGED <<seed_ctr, reseed_ctr, chacha_ready>>

SeedFsm(gnt, advance_block, valid, ready) ==
  /\ \/ Reset
     \/ Gather("SEEDING", gnt, "DIN_SEEDING", DinWords)
     \/ Gather("DIN_SEEDING", gnt, "SEEDED", 0)
     \/ Seeded(ready) \/ WaitInit(valid) \/ Run(advance_block) \/ RunReseed(gnt)
  /\ seed_gnt_r' = gnt
=============================================================================
