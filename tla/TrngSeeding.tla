---------------------------- MODULE TrngSeeding ----------------------------
(***************************************************************************)
(* The seed path of the TRNG: the kernel FIFO of TrngManaged with the      *)
(* arbiter that serves it both to the CPU (the kernel.data register) and   *)
(* to the seed control of the ChaCha conditioner.  One step is one cycle   *)
(* of the system clock.                                                    *)
(*                                                                         *)
(* TRNG words are numbered in the order they enter the FIFO; 0 stands for  *)
(* no word (the reset value of the FIFO's output, and 0xDEADBEEF).  The    *)
(* FIFO hands them out in order, so it is two counters: the words written  *)
(* and the words popped.  Its output register shows the last word popped.  *)
(***************************************************************************)
EXTENDS ChaChaSeed

CONSTANTS Depth,         \* FIFO entries
          MaxWords,      \* bound: TRNG words produced
          MaxUnderrun    \* saturation of kernel_underrun (0x3FF)

ASSUME DepthAssumption == Depth \in Nat \ {0} /\ MaxWords \in Nat
ASSUME UnderrunAssumption == MaxUnderrun \in Nat

VARIABLES
  written, popped,               \* the FIFO
  kernel_fifo_rden, kernel_data, \* kernel.data.fields.data
  buffered_avail, avail,         \* avail: kernel.status.fields.avail
  seed_gnt,                      \* and seed_read, assigned alike everywhere
  seed_buf,
  kernel_underrun,
  bus, polled,                   \* CPU: its access in the last cycle; it saw avail
  last_kernel,                   \* history: last word the CPU was given
  last_seed, stirred,            \* history: last word stirred in; how many so far
  since,                         \* history: blocks since the last rotation
  lowered                        \* history: since then, set to no more than these

fifoVars == <<written, popped, kernel_fifo_rden, kernel_data, buffered_avail, avail,
              seed_gnt, seed_buf, kernel_underrun>>
cpuVars == <<bus, polled, last_kernel>>
histVars == <<last_seed, stirred, since, lowered>>
vars == <<seedVars, fifoVars, cpuVars, histVars>>

dout == popped
kernel_fifo_empty == popped = written
kernel_fifo_full == written - popped >= Depth
rderr == kernel_fifo_rden /\ kernel_fifo_empty

Init ==
  /\ SeedInit
  /\ written = 0 /\ popped = 0 /\ kernel_data = 0 /\ seed_buf = 0
  /\ kernel_fifo_rden = FALSE /\ buffered_avail = FALSE /\ avail = FALSE
  /\ seed_gnt = FALSE /\ kernel_underrun = 0
  /\ bus = "idle" /\ polled = FALSE
  /\ last_kernel = 0 /\ last_seed = 0 /\ stirred = 0
  /\ since = 0 /\ lowered = FALSE

(* Fault: the word granted to the seed control is not popped. *)
pop_kernel_only(data_we) == ~seed_req /\ data_we
pop(data_we) == (~seed_req /\ data_we) \/ (seed_gnt /\ ~seed_gnt_r)

Avail ==
  buffered_avail' = (~kernel_fifo_empty /\ ~seed_req) /\ avail' = buffered_avail

(* The read side of the FIFO: kernel_fifo_rden and kernel_data are registers, *)
(* and kernel_fifo_rden keeps its value while the FIFO is empty.             *)
ReadSide(data_we) ==
  /\ popped' = IF kernel_fifo_rden /\ ~kernel_fifo_empty THEN popped + 1 ELSE popped
  /\ kernel_fifo_rden' =
       IF kernel_fifo_empty THEN kernel_fifo_rden ELSE pop(data_we)
  /\ kernel_data' = IF kernel_fifo_empty THEN 0 ELSE dout
  /\ Avail

(* Fault: a request is granted although the FIFO is empty. *)
SeedGrantBlind ==
  /\ seed_gnt' = seed_req
  /\ seed_buf' = IF seed_req THEN dout ELSE seed_buf

(* Fault: the grant is not withdrawn when the request is. *)
SeedGrantSticks ==
  /\ seed_gnt' = (seed_gnt \/ (seed_req /\ ~kernel_fifo_empty))
  /\ seed_buf' = IF seed_req /\ ~kernel_fifo_empty THEN dout ELSE seed_buf

SeedGrant ==
  /\ seed_gnt' = (seed_req /\ ~kernel_fifo_empty)
  /\ seed_buf' = IF seed_req /\ ~kernel_fifo_empty THEN dout ELSE seed_buf

Underruns(clr_err) ==
  kernel_underrun' = IF clr_err THEN 0
                     ELSE IF rderr /\ kernel_underrun < MaxUnderrun
                     THEN kernel_underrun + 1 ELSE kernel_underrun

(* The refill machine writes a word, at a pace of its own. *)
WriteSide(wren) ==
  /\ wren => ~kernel_fifo_full /\ written < MaxWords
  /\ written' = IF wren THEN written + 1 ELSE written

(* A block counts from the rotation before it, whatever the machine is doing *)
(* when it is asked for, unless reseeding is off; the count stops at the     *)
(* largest interval.  lowered: software has since then set an interval that  *)
(* the count had reached.                                                    *)
History(advance_block) ==
  LET rotated == seedfsm = "RUN_RESEED" /\ Stir(seed_gnt)
      counts == advance_block /\ reseed_interval # 0 /\ \E i \in Intervals : since < i
      passed == reseed_interval' # reseed_interval /\ reseed_interval' # 0
                /\ since' >= reseed_interval'
  IN /\ last_seed' = IF Stir(seed_gnt) THEN seed_buf ELSE last_seed
     /\ stirred' = IF Stir(seed_gnt) /\ ~chacha_ready THEN stirred + 1 ELSE stirred
     /\ since' = IF rotated THEN 0 ELSE IF counts THEN since + 1 ELSE since
     /\ lowered' = (~rotated /\ (lowered \/ passed))

(* core: the event the seed machine waits for from the ChaCha core (ready in *)
(* SEEDED, the first valid block in WAIT_INIT).  Blocks are asked for only   *)
(* once the seeding is over.                                                 *)
Cycle(data_we, clr_err, wren, advance_block, core) ==
  /\ advance_block => chacha_ready
  /\ core => seedfsm \in {"SEEDED", "WAIT_INIT"}
  /\ SeedFsm(seed_gnt, advance_block, core, core)
  /\ ReadSide(data_we) /\ SeedGrant /\ Underruns(clr_err) /\ WriteSide(wren)
  /\ History(advance_block)

-----------------------------------------------------------------------------
(* What the CPU may do in a cycle; an access is followed by a free cycle. *)

NoAccess == bus' = "idle" /\ UNCHANGED <<polled, last_kernel, reseed_interval>>

PollAvail == /\ bus = "idle" /\ bus' = "other"
             /\ polled' = avail
             /\ UNCHANGED <<last_kernel, reseed_interval>>

(* Reading kernel.data, as documented only after avail was seen. *)
ReadData == /\ bus = "idle" /\ bus' = "read"
            /\ polled /\ polled' = FALSE
            /\ last_kernel' = IF kernel_data = 0 THEN last_kernel ELSE kernel_data
            /\ UNCHANGED reseed_interval

ClearErrors == /\ bus = "idle" /\ bus' = "other"
               /\ kernel_underrun # 0
               /\ UNCHANGED <<polled, last_kernel, reseed_interval>>

SetInterval == /\ bus = "idle" /\ bus' = "other"
               /\ reseed_interval' \in Intervals \ {reseed_interval}
               /\ UNCHANGED <<polled, last_kernel>>

Step(wren, core) == \E advance_block \in BOOLEAN :
  \/ NoAccess    /\ Cycle(FALSE, FALSE, wren, advance_block, core)
  \/ PollAvail   /\ Cycle(FALSE, FALSE, wren, advance_block, core)
  \/ ReadData    /\ Cycle(TRUE,  FALSE, wren, advance_block, core)
  \/ ClearErrors /\ Cycle(FALSE, TRUE,  wren, advance_block, core)
  \/ SetInterval /\ Cycle(FALSE, FALSE, wren, advance_block, core)

Next == \E wren, core \in BOOLEAN : Step(wren, core)

Spec == Init /\ [][Next]_vars

(* The clock runs, the refill machine keeps delivering while there is room,  *)
(* and the ChaCha core answers.                                              *)
FairSpec == /\ Spec
            /\ WF_vars(Next)
            /\ WF_vars(\E core \in BOOLEAN : Step(TRUE, core))
            /\ WF_vars(\E wren \in BOOLEAN : Step(wren, TRUE))
-----------------------------------------------------------------------------
(* Types of the state. *)
TypeOK ==
  /\ seedfsm \in {"RESET", "SEEDING", "DIN_SEEDING", "SEEDED", "WAIT_INIT", "RUN",
                  "RUN_RESEED"}
  /\ seed_ctr \in 0..31 /\ reseed_ctr \in Nat /\ reseed_interval \in Intervals
  /\ {seed_req, seed_gnt, seed_gnt_r, chacha_ready, kernel_fifo_rden, buffered_avail,
      avail, polled} \subseteq BOOLEAN
  /\ bus \in {"idle", "read", "other"}
  /\ {written, popped, kernel_data, seed_buf, last_kernel, last_seed} \subseteq 0..MaxWords
  /\ popped <= written
  /\ kernel_underrun \in 0..MaxUnderrun /\ stirred \in Nat
  /\ since \in Nat /\ lowered \in BOOLEAN

(* Every word that enters the key pool is younger than all that entered it   *)
(* before: no grant of the arbiter repeats a TRNG word, whatever the kernel  *)
(* reads and the refill do in between.  (The first one is the dummy 0.)      *)
SeedWordsFresh ==
  [][last_seed' # last_seed \/ Stir(seed_gnt) => last_seed' > last_seed \/ stirred = 0]_vars

(* The conditioner declares itself ready only after the whole pool and the   *)
(* whole blinding input were filled, the dummy word not counted.             *)
FullySeeded ==
  chacha_ready => stirred = SeedWords + DinWords /\ last_seed >= SeedWords + DinWords - 1

(* The conditioner is seeded as its registers say, and each of them stays in *)
(* its range (chacha.py:343, trng_managed.py:1159).                          *)
KeyPoolSound == TypeOK /\ FullySeeded

(* A CPU that polls avail before each access of kernel.data is never given   *)
(* the same TRNG word twice.                                                 *)
NoKernelRepeat ==
  [][bus' = "read" /\ kernel_data # 0 => kernel_data > last_kernel]_vars

(* "How many ChaCha blocks to generate before automatically rotating the key *)
(* pool" (trng_managed.py:224): once that many were asked for since the last *)
(* rotation, the next one is on its way, and stays so until it is made.  Two *)
(* things are not promised.  Blocks are asked for while the rotation waits   *)
(* for its word (chacha.py:402 stops none).  And if software sets an interval *)
(* that the count has reached, the comparison for equality (chacha.py:395)   *)
(* misses it: no rotation follows until the interval is raised again.        *)
RotationDue ==
  reseed_interval # 0 /\ since >= reseed_interval => seedfsm = "RUN_RESEED" \/ lowered

(* A request for a seed word is always answered, so a reseed never hangs,    *)
(* unless the bound on TRNG words ends the run.                              *)
ReseedCompletes == seedfsm = "RUN_RESEED" ~> seedfsm = "RUN" \/ written = MaxWords
SeedingCompletes == <>(chacha_ready \/ written = MaxWords)

(* Neither the first seeding nor a reseed waits for ever (chacha.py:402).    *)
SeedsArrive == SeedingCompletes /\ ReseedCompletes
=============================================================================
