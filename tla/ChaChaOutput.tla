---------------------------- MODULE ChaChaOutput ----------------------------
(***************************************************************************)
(* The output side of ChaChaConditioner (chacha/chacha.py): a ChaCha core  *)
(* in a half-rate clock domain fills a holding buffer block by block, and  *)
(* the buffer is dealt out word by word to two ports, each behind a        *)
(* depth-one pipeline register.  One step of the model is one cycle of the *)
(* system clock: every state machine and register moves at once.           *)
(*                                                                         *)
(* A random word is <<block, index>>, so that two words are equal only if  *)
(* they are the same part of the same ChaCha block.  Self-mixing writes    *)
(* the core's output register at any time: of a finished block it makes    *)
(* another content of the same block, which is not told apart here, and of *)
(* unfinished rounds it makes no block, which is.                          *)
(***************************************************************************)
EXTENDS Integers, FiniteSets

CONSTANTS W,          \* words in a block (16)
          MaxBlocks,  \* bound: blocks the core computes
          PollFirst   \* software checks urandom_valid before taking urandom

ASSUME WAssumption == W \in Nat /\ W > 2
ASSUME BlocksAssumption == MaxBlocks \in Nat
ASSUME PollAssumption == PollFirst \in BOOLEAN

Port == {"a", "b"}                       \* a: kernel, b: server
Word == (1..MaxBlocks) \X (1..W)
sentinel == <<0, 0>>                     \* 0xDEADBEEF, and the reset value
Quiet == [port |-> "none", word |-> sentinel]   \* no access in flight
Busy == [port |-> "busy", word |-> sentinel]    \* one that returns no random word
BlockWords(n) == [i \in 1..W |-> <<n, i>>]

VARIABLES
  pipe,             \* state of outafsm, outbfsm
  output, valid,    \* output_a/b, valid_a/b: what the CSRs show
  advance_local,    \* advance_a_local, advance_b_local
  output_local, valid_local,
  holdfsm, holding_buf, words_remaining, hold_init, saw_load,
  holding_buf_load, data_out,
  valid_r, valid_r2, ready,
  advfsm, next,
  next_xfer,        \* BlindTransfer of next into clk50
  core, finished,   \* control state of chacha_core, and how many blocks it has finished
  data_out_50,      \* the block in its output register; 0: none, or unfinished rounds
  loaded,           \* history: the block last copied into holding_buf
  polled,           \* software has seen valid high since its last read
  rd,               \* the CSR read data of this cycle, when it is a random word
  taken             \* history: every word software has read as valid

pipeVars == <<pipe, output, valid, advance_local>>
holdVars == <<holdfsm, output_local, valid_local, words_remaining, hold_init>>
bufVars  == <<holding_buf, saw_load, loaded>>
syncVars == <<holding_buf_load, data_out, valid_r, valid_r2, ready>>
advVars  == <<advfsm, next>>
clk50Vars == <<next_xfer, core, finished, data_out_50>>
busVars  == <<polled, rd, taken>>
vars == <<pipeVars, holdVars, bufVars, syncVars, advVars, clk50Vars, busVars>>

Init ==
  /\ pipe = [p \in Port |-> "FILL"]
  /\ output = [p \in Port |-> sentinel] /\ output_local = output
  /\ valid = [p \in Port |-> FALSE] /\ valid_local = valid
  /\ advance_local = valid /\ polled = valid
  /\ holdfsm = "RESET" /\ holding_buf = [i \in 1..W |-> sentinel]
  /\ words_remaining = 0
  /\ hold_init = FALSE /\ saw_load = FALSE /\ holding_buf_load = FALSE
  /\ valid_r = FALSE /\ valid_r2 = FALSE /\ ready = FALSE
  /\ advfsm = "WAITING" /\ next = FALSE /\ next_xfer = "idle"
  /\ core = "IDLE" /\ finished = 0 /\ data_out_50 = 0 /\ data_out = 0 /\ loaded = 0
  /\ rd = Quiet /\ taken = {}

-----------------------------------------------------------------------------
(* The port pipelines: FILL waits for a first word, PIPE replaces the word  *)
(* on every advance and falls back to FILL once the port has run dry.       *)

Capture(adv, p) == IF pipe[p] = "FILL" THEN valid_local[p] ELSE p \in adv

(* Fault: a port that has run dry waits in PIPE for an advance. *)
PipesInPipe == [p \in Port |-> IF valid_local[p] THEN "PIPE" ELSE pipe[p]]
NextPipe == [p \in Port |->
               IF (pipe[p] = "FILL" /\ valid_local[p]) \/ (pipe[p] = "PIPE" /\ valid[p])
               THEN "PIPE" ELSE "FILL"]

OutPipes(adv) ==
  /\ output' = [p \in Port |-> IF Capture(adv, p) THEN output_local[p] ELSE output[p]]
  /\ valid' = [p \in Port |-> IF Capture(adv, p) THEN valid_local[p] ELSE valid[p]]
  /\ advance_local' = [p \in Port |-> Capture(adv, p)]
  /\ pipe' = NextPipe

-----------------------------------------------------------------------------
(* The holding buffer.  Wanting is the set of ports whose local word was    *)
(* consumed or is missing.                                                  *)

Wanting == {p \in Port : advance_local[p] \/ ~valid_local[p]}

(* Fault: a single request for the last word is not seen to exhaust the buffer. *)
ExhaustingLate ==
  /\ holdfsm = "OUTPUT"
  /\ \/ Wanting = Port /\ words_remaining = 2
     \/ Wanting = {} /\ words_remaining = 0

(* This cycle deals the last word of the buffer (or finds none left). *)
Exhausting ==
  /\ holdfsm = "OUTPUT"
  /\ \/ Wanting = Port /\ words_remaining = 2
     \/ Wanting = {} /\ words_remaining = 0
     \/ Wanting \notin {Port, {}} /\ words_remaining <= 1

holdfsm_load == saw_load /\ (holdfsm = "WAIT" \/ Exhausting)

(* Also clear_saw_load: the code raises the two together everywhere. *)
advance_block == holdfsm = "INIT" \/ holdfsm_load

(* Fault: dealing a single word does not shift the buffer. *)
ShiftPairsOnly == CASE holdfsm = "INIT" -> 2
                    [] holdfsm = "OUTPUT" /\ Wanting = Port /\ words_remaining > 2 -> 2
                    [] OTHER -> 0

Shift == CASE holdfsm = "INIT" -> 2
           [] holdfsm = "OUTPUT" /\ Wanting = Port /\ words_remaining > 2 -> 2
           [] holdfsm = "OUTPUT" /\ Wanting \notin {Port, {}} -> 1
           [] OTHER -> 0

(* Fault: INIT does not clear saw_load. *)
SawLoadAtInit == ~holdfsm_load /\ (saw_load \/ holding_buf_load)
SawLoad == ~advance_block /\ (saw_load \/ holding_buf_load)

HoldingBuf ==
  LET load == (holding_buf_load /\ ~hold_init) \/ holdfsm_load
  IN /\ holding_buf' = IF load THEN BlockWords(data_out)
                       ELSE [i \in 1..W |-> IF i + Shift <= W THEN holding_buf[i + Shift]
                                                             ELSE sentinel]
     /\ loaded' = IF load THEN data_out ELSE loaded
     /\ saw_load' = SawLoad

HoldReset ==
  /\ holdfsm = "RESET"
  /\ holdfsm' = IF holding_buf_load THEN "INIT" ELSE "RESET"
  /\ hold_init' = FALSE /\ words_remaining' = 0
  /\ valid_local' = [p \in Port |-> FALSE]
  /\ UNCHANGED output_local

HoldInit ==
  /\ holdfsm = "INIT"
  /\ holdfsm' = "OUTPUT"
  /\ hold_init' = TRUE /\ words_remaining' = W - 2
  /\ output_local' = [p \in Port |-> holding_buf[IF p = "a" THEN 1 ELSE 2]]
  /\ valid_local' = [p \in Port |-> TRUE]

(* The words left after dealing n: a waiting block is loaded at once. *)
Deal(n) ==
  /\ words_remaining' = IF holdfsm_load THEN W
                        ELSE IF Exhausting THEN 0 ELSE words_remaining - n
  /\ holdfsm' = IF Exhausting /\ ~saw_load THEN "WAIT" ELSE "OUTPUT"
  /\ UNCHANGED hold_init

OutputOne(p) ==
  /\ holdfsm = "OUTPUT" /\ Wanting = {p}
  /\ output_local' = [output_local EXCEPT ![p] = holding_buf[1]]
  /\ valid_local' = [valid_local EXCEPT ![p] = TRUE]
  /\ Deal(1)

OutputBoth ==
  /\ holdfsm = "OUTPUT" /\ Wanting = Port /\ words_remaining >= 2
  /\ output_local' = [p \in Port |-> holding_buf[IF p = "a" THEN 1 ELSE 2]]
  /\ valid_local' = [p \in Port |-> TRUE]
  /\ Deal(2)

(* Two words wanted and at most one left: port a is served first. *)
OutputScarce ==
  /\ holdfsm = "OUTPUT" /\ Wanting = Port /\ words_remaining < 2
  /\ valid_local' = [p \in Port |-> p = "a" /\ words_remaining = 1]
  /\ output_local' = [p \in Port |-> IF p = "a" /\ words_remaining = 1
                                     THEN holding_buf[1] ELSE sentinel]
  /\ words_remaining' = 0 /\ holdfsm' = "WAIT"
  /\ UNCHANGED hold_init

OutputNone ==
  /\ holdfsm = "OUTPUT" /\ Wanting = {}
  /\ Deal(0)
  /\ UNCHANGED <<output_local, valid_local>>

(* Fault: WAIT blanks the consumed word but leaves it marked valid. *)
HoldWaitKeepsValid ==
  /\ holdfsm = "WAIT"
  /\ output_local' = [p \in Port |-> IF advance_local[p] THEN sentinel ELSE output_local[p]]
  /\ words_remaining' = IF saw_load THEN W ELSE words_remaining
  /\ holdfsm' = IF saw_load THEN "OUTPUT" ELSE "WAIT"
  /\ UNCHANGED <<hold_init, valid_local>>

HoldWait ==
  /\ holdfsm = "WAIT"
  /\ output_local' = [p \in Port |-> IF advance_local[p] THEN sentinel ELSE output_local[p]]
  /\ valid_local' = [p \in Port |-> valid_local[p] /\ ~advance_local[p]]
  /\ words_remaining' = IF saw_load THEN W ELSE words_remaining
  /\ holdfsm' = IF saw_load THEN "OUTPUT" ELSE "WAIT"
  /\ UNCHANGED hold_init

HoldFsm == \/ HoldReset \/ HoldInit \/ HoldWait
           \/ OutputBoth \/ OutputScarce \/ OutputNone
           \/ \E p \in Port : OutputOne(p)

-----------------------------------------------------------------------------
(* The request for the next block, and the registers on the way back.       *)

AdvFsm ==
  \/ /\ advfsm = "WAITING"
     /\ next' = FALSE
     /\ advfsm' = IF advance_block THEN "WAIT_READY" ELSE "WAITING"
  \/ /\ advfsm = "WAIT_READY"
     /\ next' = (ready \/ next)
     /\ advfsm' = IF ready THEN "WAITING" ELSE "WAIT_READY"

Resync ==
  /\ ready' = (core # "BUSY")
  /\ valid_r' = (core = "DONE")
  /\ valid_r2' = valid_r
  /\ holding_buf_load' = (valid_r /\ ~valid_r2)
  /\ data_out' = data_out_50

(* The clk50 side.  BlindTransfer holds a pulse until clk50 has taken it    *)
(* and then ignores its input until the acknowledgement is back.  The       *)
(* rounds of a block outlast that handshake.  tick tells whether the clk50  *)
(* side gets something done in this cycle.                                  *)

XferCapture == /\ next_xfer = "idle"
               /\ next_xfer' = IF next THEN "req" ELSE "idle"

(* A forced round of the self-mixing, which is on by default, comes when its *)
(* interval, any number, is over.  It writes the output register, and the    *)
(* state if the core does not, but leaves the core's control alone: once DONE *)
(* the register gets the finished block with more mixing, before that it     *)
(* gets what the rounds have come to.                                        *)
ForceRound == data_out_50' \in IF core = "BUSY" THEN {data_out_50, 0} ELSE {data_out_50}

CoreInit ==   \* the init pulse that ends the seeding
  /\ core = "IDLE"
  /\ core' = "BUSY" /\ UNCHANGED <<finished, data_out_50>>
  /\ XferCapture

CoreNext ==
  /\ next_xfer = "req" /\ next_xfer' = "ack"
  /\ core' = IF core = "DONE" THEN "BUSY" ELSE core
  /\ UNCHANGED finished /\ ForceRound

XferAck ==
  /\ next_xfer = "ack" /\ next_xfer' = "idle"
  /\ UNCHANGED <<core, finished>> /\ ForceRound

(* Fault: the core announces its block without writing the output register. *)
CoreFinishNoUpdate ==
  /\ core = "BUSY" /\ finished < MaxBlocks
  /\ core' = "DONE" /\ finished' = finished + 1
  /\ ForceRound
  /\ XferCapture

CoreFinish ==
  /\ core = "BUSY" /\ finished < MaxBlocks
  /\ core' = "DONE" /\ finished' = finished + 1
  /\ data_out_50' = finished'
  /\ XferCapture

Clk50Idle ==
  /\ UNCHANGED <<core, finished>> /\ ForceRound
  /\ XferCapture \/ (next_xfer # "idle" /\ UNCHANGED next_xfer)

Clk50(tick) == IF tick THEN CoreInit \/ CoreNext \/ XferAck \/ CoreFinish
                       ELSE Clk50Idle

Cycle(adv, tick) ==
  /\ OutPipes(adv) /\ HoldFsm /\ HoldingBuf /\ AdvFsm /\ Resync /\ Clk50(tick)

-----------------------------------------------------------------------------
(* The CPU, a single bus master: an access takes a cycle and the bus needs   *)
(* another one before the next access.                                       *)

NoAccess(tick) == /\ Cycle({}, tick)
                  /\ rd' = Quiet /\ UNCHANGED <<polled, taken>>

Poll(p, tick) == /\ rd = Quiet
                 /\ Cycle({}, tick)
                 /\ polled' = [polled EXCEPT ![p] = valid[p]]
                 /\ rd' = Busy /\ UNCHANGED taken

Read(p, tick) ==
  /\ rd = Quiet
  /\ PollFirst => polled[p]
  /\ Cycle({p}, tick)
  /\ polled' = [polled EXCEPT ![p] = FALSE]
  /\ rd' = [port |-> p, word |-> output[p]]
  /\ taken' = IF valid[p] THEN taken \union {output[p]} ELSE taken

(* The test register advances both ports and returns nothing. *)
Simultaneous(tick) == /\ rd = Quiet
                      /\ Cycle(Port, tick)
                      /\ polled' = [p \in Port |-> FALSE]
                      /\ rd' = Busy /\ UNCHANGED taken

Access(tick) == \/ NoAccess(tick) \/ Simultaneous(tick)
                \/ \E p \in Port : Poll(p, tick) \/ Read(p, tick)

Next == \E tick \in BOOLEAN : Access(tick)

Spec == Init /\ [][Next]_vars

(* The clocks do not stop and the core finishes its rounds. *)
FairSpec == Spec /\ WF_vars(Access(FALSE)) /\ WF_vars(Access(TRUE))

-----------------------------------------------------------------------------
(* Types of the state. *)
TypeOK ==
  /\ pipe \in [Port -> {"FILL", "PIPE"}]
  /\ output \in [Port -> Word \union {sentinel}]
  /\ output_local \in [Port -> Word \union {sentinel}]
  /\ valid \in [Port -> BOOLEAN] /\ valid_local \in [Port -> BOOLEAN]
  /\ advance_local \in [Port -> BOOLEAN] /\ polled \in [Port -> BOOLEAN]
  /\ holdfsm \in {"RESET", "INIT", "OUTPUT", "WAIT"}
  /\ holding_buf \in [1..W -> Word \union {sentinel}]
  /\ words_remaining \in 0..W
  /\ hold_init \in BOOLEAN /\ saw_load \in BOOLEAN /\ holding_buf_load \in BOOLEAN
  /\ valid_r \in BOOLEAN /\ valid_r2 \in BOOLEAN /\ ready \in BOOLEAN /\ next \in BOOLEAN
  /\ advfsm \in {"WAITING", "WAIT_READY"} /\ next_xfer \in {"idle", "req", "ack"}
  /\ core \in {"IDLE", "BUSY", "DONE"}
  /\ finished \in 0..MaxBlocks
  /\ data_out_50 \in 0..MaxBlocks /\ data_out \in 0..MaxBlocks /\ loaded \in 0..MaxBlocks
  /\ rd \in [port : Port, word : Word \union {sentinel}] \union {Quiet, Busy}
  /\ taken \subseteq Word

(* A reader that checked urandom_valid gets a real, valid word: no sentinel  *)
(* can slip in between the check and the read.                               *)
CheckedReadIsValid == \A p \in Port : polled[p] => valid[p] /\ output[p] \in Word

(* Whatever the order of reads, polls and block arrivals, checked reads on   *)
(* the two ports together never return the same word twice.                  *)
Stream == INSTANCE FreshStream
            WITH Quiet <- Quiet, rd <- IF rd.port \in Port THEN rd ELSE Quiet
FreshWords == Stream!Spec

(* While the buffer is dealing, the words it still counts are the unserved   *)
(* tail of the last block it loaded, so the branches the code marks "should  *)
(* never hit this case" (an empty buffer in OUTPUT) stay unreachable.        *)
BufferCountsItsWords ==
  holdfsm = "OUTPUT" =>
    /\ words_remaining \in 1..W
    /\ \A i \in 1..words_remaining : holding_buf[i] = <<loaded, W - words_remaining + i>>

(* The core begins the rounds of a block only after the holding buffer has   *)
(* copied the block before, and never gets more than one ahead; and whenever *)
(* the buffer may take the output register, the register's copy is of the    *)
(* finished block and not of the unfinished rounds that a forced round puts  *)
(* there (chacha.py:166, 388; chacha_core.v:284).                            *)
NoBlockSkipped == /\ core = "BUSY" => loaded = finished
                  /\ finished - loaded \in {0, 1}
                  /\ holding_buf_load \/ saw_load => data_out = finished

(* The stages at which the one outstanding request for a block can be. *)
InFlight == <<advfsm = "WAIT_READY", next, next_xfer = "req", core = "BUSY",
              core = "DONE" /\ ~valid_r, valid_r /\ ~valid_r2, holding_buf_load,
              saw_load>>

(* Once started there is exactly one block on its way: no request is lost    *)
(* in the clock crossing or by a busy advfsm, and none is issued twice.      *)
OneBlockInFlight ==
  core # "IDLE" => \E i \in 1..8 : InFlight[i] /\ \A j \in 1..8 : InFlight[j] => i = j

(* Neither port can starve the other: a port without a valid word gets one,  *)
(* unless the last block the core is allowed has been dealt out.             *)
PortRefilled == \A p \in Port :
  ~valid[p] ~> (valid[p] \/ (loaded = MaxBlocks /\ holdfsm = "WAIT"))
=============================================================================
