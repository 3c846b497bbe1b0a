------------------------------- MODULE ComLink -------------------------------
(***************************************************************************)
(* The COM link between the two chips: the SPIController of the SoC        *)
(* (spi_7series.py) and the SpiFifoPeripheral of the embedded controller   *)
(* (spi_ice40.py), both built with pipeline_cipo.  A transaction exchanges *)
(* one 16-bit word in each direction; a hold line tells the SoC that the   *)
(* EC has no word to give.                                                 *)
(*                                                                         *)
(* One step is one cycle of the SoC's clock.  The SPI clock ticks every    *)
(* SpiDiv steps; the EC's clock is asynchronous, its next edge comes after *)
(* any number of steps in EcPeriods.  A register that samples a signal     *)
(* changing at the same instant gets the old or the new value.             *)
(*                                                                         *)
(* Each side numbers its words 1, 2, ..., so that a word lost, repeated or *)
(* overtaken shows in what the other side reads.                           *)
(***************************************************************************)
EXTENDS Integers, Sequences

CONSTANTS Bits,         \* bits in a word (16)
          SpiDiv,       \* SoC cycles in an SPI cycle
          EcPeriods,    \* SoC cycles between two edges of the EC's clock
          Stretch,      \* PulseStretch's n (10)
          AccessTicks,  \* SoC cycles between two register accesses of its CPU
          Depth,        \* words in the EC's FIFOs (1280)
          MaxWords,     \* bound: words each side sends
          AutoHolds,    \* settings of control.autohold
          CheckHold     \* the SoC's driver polls status.hold before it writes tx

ASSUME SizeAssumption == {Bits, SpiDiv, Stretch, AccessTicks, Depth} \subseteq Nat \ {0}
ASSUME BoundAssumption == MaxWords \in Nat /\ EcPeriods \subseteq Nat \ {0} /\ EcPeriods # {}
ASSUME ModeAssumption == AutoHolds \subseteq BOOLEAN /\ CheckHold \in BOOLEAN

None == 0          \* no word
Junk == -1         \* a shift register with half a word in it
Underflow == -2    \* 0xDDDD
Word == 1..MaxWords

VARIABLES
  autohold,                     \* control.autohold, set once by software
  spi, ec,                      \* cycles until the next edge of either clock
  tx, tx_re, tip, count,        \* SoC: CSRs, tip, PulseStretch
  done_m, done_r, hold_m, hold, \* SoC: synchronizers
  tx_written_d, fsm, spicount, clk_run, csn, tx_r, rx_status,   \* SPI clock
  spi_load, tx_sr, rx_sr,       \* EC: registers clocked by sclk
  tip_m, tip_r, tip_d,          \* EC: csn on its way to donepulse
  rx_fifo, tx_fifo, rx_re, tx_we,
  ec_bus, clrerr, rx_over, tx_under, tx_over, tx_over_flag,
  drv, gap,                     \* the SoC's driver: its place in the loop, pause
  soc_got, ec_got, ec_sent,     \* last word each CPU has read, EC has written
  overrun                       \* history: some word found the rx FIFO full

clockVars == <<spi, ec>>
socVars == <<tx, tx_re, tip, count, done_m, done_r, hold_m, hold>>
spiVars == <<tx_written_d, fsm, spicount, clk_run, csn, tx_r, rx_status>>
sclkVars == <<spi_load, tx_sr, rx_sr>>
syncVars == <<tip_m, tip_r, tip_d>>
fifoVars == <<rx_fifo, tx_fifo, rx_re, tx_we>>
busVars == <<ec_bus, clrerr, rx_over, tx_under, tx_over, tx_over_flag>>
cpuVars == <<drv, gap, soc_got, ec_got, ec_sent>>
vars == <<autohold, clockVars, socVars, spiVars, sclkVars, syncVars, fifoVars, busVars, cpuVars, overrun>>

-----------------------------------------------------------------------------
(* SyncFIFOBuffered: a FIFO with one more word in an output register.       *)

Empty == [q |-> <<>>, dout |-> None]
Readable(f) == f.dout # None
Writable(f) == Len(f.q) < Depth

Fifo(f, din, re) ==
  LET fill == f.q # <<>> /\ (~Readable(f) \/ re)
  IN [q |-> (IF fill THEN Tail(f.q) ELSE f.q)
            \o (IF din # None /\ Writable(f) THEN <<din>> ELSE <<>>),
      dout |-> IF fill THEN Head(f.q) ELSE IF re THEN None ELSE f.dout]

Init ==
  /\ autohold \in AutoHolds
  /\ spi \in 0..(SpiDiv - 1) /\ ec \in {p - 1 : p \in EcPeriods}
  /\ tx = None /\ tx_re = FALSE /\ tip = FALSE /\ count = 0
  /\ done_m = FALSE /\ done_r = FALSE /\ hold_m = TRUE /\ hold = TRUE
  /\ tx_written_d = FALSE /\ fsm = "IDLE" /\ spicount = 0 /\ clk_run = FALSE
  /\ csn = TRUE /\ tx_r = None /\ rx_status = None
  /\ spi_load = TRUE /\ tx_sr = None /\ rx_sr = None
  /\ tip_m = FALSE /\ tip_r = FALSE /\ tip_d = FALSE
  /\ rx_fifo = Empty /\ tx_fifo = Empty /\ rx_re = FALSE /\ tx_we = None
  /\ ec_bus = "idle" /\ clrerr = FALSE /\ rx_over = FALSE /\ tx_under = FALSE
  /\ tx_over = FALSE /\ tx_over_flag = FALSE
  /\ drv = (IF CheckHold THEN "hold" ELSE "write") /\ gap = 0
  /\ soc_got = None /\ ec_got = None /\ ec_sent = None /\ overrun = FALSE

-----------------------------------------------------------------------------
(* The controller's state machine, at an edge of the SPI clock.             *)

tx_written == count # 0
tx_go == ~tx_written /\ tx_written_d

FsmIdle ==
  /\ fsm = "IDLE"
  /\ LET start == tx_go /\ ~(autohold /\ hold)
     IN /\ fsm' = IF start THEN "PRE_ASSERT" ELSE "IDLE"
        /\ csn' = ~start
        /\ tx_r' = IF start THEN tx ELSE tx_r
        /\ spicount' = IF start THEN Bits - 1 ELSE spicount
  /\ clk_run' = FALSE
  /\ UNCHANGED rx_status

FsmPreAssert ==
  /\ fsm = "PRE_ASSERT"
  /\ fsm' = "RUN" /\ clk_run' = TRUE
  /\ UNCHANGED <<csn, tx_r, spicount, rx_status>>

(* Fault: no turnaround delay after the transaction. *)
FsmRunNoDelay ==
  /\ fsm = "RUN"
  /\ clk_run' = (spicount > 0)
  /\ spicount' = IF spicount > 0 THEN spicount - 1 ELSE 0
  /\ fsm' = IF spicount > 0 THEN "RUN" ELSE "POST_ASSERT"
  /\ UNCHANGED <<csn, tx_r, rx_status>>

turnaround_delay == 2

FsmRun ==
  /\ fsm = "RUN"
  /\ clk_run' = (spicount > 0)
  /\ spicount' = IF spicount > 0 THEN spicount - 1 ELSE turnaround_delay
  /\ fsm' = IF spicount > 0 THEN "RUN" ELSE "POST_ASSERT"
  /\ UNCHANGED <<csn, tx_r, rx_status>>

FsmPostAssert ==
  /\ fsm = "POST_ASSERT"
  /\ fsm' = "SAMPLE" /\ csn' = TRUE
  /\ UNCHANGED <<clk_run, tx_r, spicount, rx_status>>

FsmSample ==
  /\ fsm = "SAMPLE"
  /\ fsm' = "WAIT"
  /\ UNCHANGED <<clk_run, csn, tx_r, spicount, rx_status>>

FsmWait ==
  /\ fsm = "WAIT"
  /\ rx_status' = tx_sr
  /\ spicount' = (spicount - 1) % 16
  /\ fsm' = IF spicount = 0 THEN "IDLE" ELSE "WAIT"
  /\ UNCHANGED <<clk_run, csn, tx_r>>

setdone == fsm = "WAIT" /\ spicount = 0

(* The peripheral's shift registers, clocked by the edges of sclk.          *)
sclk_edge == spi = 0 /\ clk_run

Shift ==
  /\ rx_sr' = IF sclk_edge THEN (IF spicount = 0 THEN tx_r ELSE Junk) ELSE rx_sr
  /\ IF sclk_edge /\ spi_load
     THEN \E f \in {tx_fifo, tx_fifo'} :
            tx_sr' = IF Readable(f) THEN f.dout ELSE Underflow
     ELSE UNCHANGED tx_sr
  /\ spi_load' = (csn' \/ (spi_load /\ ~sclk_edge))

SpiEdge ==
  IF spi = 0
  THEN /\ tx_written_d' = tx_written
       /\ FsmIdle \/ FsmPreAssert \/ FsmRun \/ FsmPostAssert \/ FsmSample \/ FsmWait
  ELSE UNCHANGED spiVars

-----------------------------------------------------------------------------
(* The SoC's own clock domain.                                              *)

(* Fault: the pulse of a write is not stretched. *)
stretched_not == IF tx_re THEN 1 ELSE 0

stretched == IF tx_re THEN Stretch ELSE IF count > 0 THEN count - 1 ELSE 0

Soc ==
  /\ tip' = (tx_re \/ (tip /\ ~done_r))
  /\ count' = stretched
  /\ done_m' = setdone /\ done_r' = done_m
  /\ \E f \in {tx_fifo, tx_fifo'} : hold_m' = ~Readable(f)
  /\ hold' = hold_m

(* Its driver: wait for the end of a transaction, read the answer, wait     *)
(* until the EC has another one, write the next word.                       *)

PollTip == /\ drv = "tip"
           /\ drv' = IF tip THEN "tip" ELSE "rx"
           /\ tx_re' = FALSE /\ UNCHANGED <<tx, soc_got>>

ReadRx == /\ drv = "rx"
          /\ soc_got' = rx_status
          /\ drv' = IF CheckHold THEN "hold" ELSE "write"
          /\ tx_re' = FALSE /\ UNCHANGED tx

PollHold == /\ drv = "hold"
            /\ drv' = IF hold THEN "hold" ELSE "write"
            /\ tx_re' = FALSE /\ UNCHANGED <<tx, soc_got>>

WriteTx == /\ drv = "write" /\ tx < MaxWords
           /\ tx' = tx + 1 /\ tx_re' = TRUE
           /\ drv' = "tip" /\ UNCHANGED soc_got

SocAccess == /\ gap = 0
             /\ PollTip \/ ReadRx \/ PollHold \/ WriteTx
             /\ gap' = AccessTicks - 1

SocNoAccess == /\ gap' = IF gap > 0 THEN gap - 1 ELSE 0
               /\ tx_re' = FALSE /\ UNCHANGED <<tx, drv, soc_got>>

-----------------------------------------------------------------------------
(* The EC, at an edge of its clock.                                         *)

(* Fault: the pulse comes when a transaction begins. *)
donepulse_start == tip_r /\ ~tip_d

donepulse == ~tip_r /\ tip_d

Peripheral ==
  /\ \E c \in {csn, csn'} : tip_m' = ~c
  /\ tip_r' = tip_m /\ tip_d' = tip_r
  /\ rx_fifo' = Fifo(rx_fifo, IF donepulse THEN rx_sr ELSE None, rx_re)
  /\ tx_fifo' = Fifo(tx_fifo, tx_we, donepulse)
  /\ rx_over' = (~clrerr /\ (rx_over \/ (donepulse /\ ~Writable(rx_fifo))))
  /\ tx_under' = (~clrerr /\ (tx_under \/ (donepulse /\ ~Readable(tx_fifo))))
  /\ tx_over' = (~clrerr /\ (tx_over \/ tx_over_flag))
  /\ overrun' = (overrun \/ (donepulse /\ ~Writable(rx_fifo)))

(* Its CPU and the bus responder: a write waits for room, a read takes two  *)
(* more cycles to be acknowledged.                                          *)

EcWrite ==
  /\ ec_bus \in {"idle", "stalled"} /\ ec_sent < MaxWords
  /\ IF Writable(tx_fifo)
     THEN /\ tx_we' = ec_sent + 1 /\ ec_sent' = ec_sent + 1 /\ ec_bus' = "wr_ack"
          /\ UNCHANGED tx_over_flag
     ELSE /\ tx_we' = None /\ ec_bus' = "stalled" /\ tx_over_flag' = TRUE
          /\ UNCHANGED ec_sent
  /\ rx_re' = FALSE /\ clrerr' = FALSE /\ UNCHANGED ec_got

EcRead ==
  /\ ec_bus = "idle" /\ Readable(rx_fifo)
  /\ ec_got' = rx_fifo.dout /\ rx_re' = TRUE /\ ec_bus' = "rd_ack_pipe"
  /\ tx_we' = None /\ clrerr' = FALSE /\ UNCHANGED <<ec_sent, tx_over_flag>>

(* A read of the empty FIFO takes none and is answered with garbage, which   *)
(* is no word; that rx_under records it is left out.                         *)
EcReadEmpty ==
  /\ ec_bus = "idle" /\ ~Readable(rx_fifo)
  /\ rx_re' = FALSE /\ ec_bus' = "rd_ack_pipe"
  /\ tx_we' = None /\ clrerr' = FALSE /\ UNCHANGED <<ec_got, ec_sent, tx_over_flag>>

EcClearErrors ==
  /\ ec_bus = "idle" /\ (rx_over \/ tx_under \/ tx_over) /\ ~clrerr
  /\ clrerr' = TRUE
  /\ tx_we' = None /\ rx_re' = FALSE
  /\ UNCHANGED <<ec_bus, ec_got, ec_sent, tx_over_flag>>

EcNoAccess ==
  /\ ec_bus # "stalled"
  /\ ec_bus' = IF ec_bus = "rd_ack_pipe" THEN "rd_ack" ELSE "idle"
  /\ tx_we' = None /\ rx_re' = FALSE /\ clrerr' = FALSE
  /\ UNCHANGED <<ec_got, ec_sent, tx_over_flag>>

ecVars == <<syncVars, fifoVars, busVars, ec_got, ec_sent, overrun>>

(* One SoC cycle, in which the EC does EcOp if its clock has an edge.        *)
Tick(SocOp, EcOp) ==
  /\ spi' = IF spi = 0 THEN SpiDiv - 1 ELSE spi - 1
  /\ SpiEdge
  /\ IF ec = 0 THEN /\ \E p \in EcPeriods : ec' = p - 1
                    /\ Peripheral /\ EcOp
               ELSE ec' = ec - 1 /\ UNCHANGED ecVars
  /\ Shift /\ Soc /\ SocOp /\ UNCHANGED autohold

EcAccess == EcWrite \/ EcRead \/ EcReadEmpty \/ EcClearErrors \/ EcNoAccess

Next == \/ Tick(SocAccess, EcAccess)
        \/ Tick(SocNoAccess, EcAccess)

Spec == Init /\ [][Next]_vars

(* The clocks run, the SoC's driver polls, and the EC offers its next word  *)
(* whenever its bus is free often enough.                                   *)
Fairness ==
  /\ WF_vars(Next)
  /\ WF_vars(Tick(SocAccess, EcAccess))
  /\ SF_vars(ec = 0 /\ Tick(SocAccess \/ SocNoAccess, EcWrite))

FairSpec == Spec /\ Fairness

-----------------------------------------------------------------------------
(* Types of the state: no FIFO takes more words than its depth. *)
TypeOK ==
  /\ autohold \in AutoHolds
  /\ spi \in 0..(SpiDiv - 1) /\ \E p \in EcPeriods : ec \in 0..(p - 1)
  /\ tx \in 0..MaxWords /\ count \in 0..Stretch
  /\ {tx_re, tip, done_m, done_r, hold_m, hold, tx_written_d, clk_run, csn, spi_load, overrun,
      tip_m, tip_r, tip_d, rx_re, clrerr, rx_over, tx_under, tx_over, tx_over_flag}
       \subseteq BOOLEAN
  /\ fsm \in {"IDLE", "PRE_ASSERT", "RUN", "POST_ASSERT", "SAMPLE", "WAIT"}
  /\ spicount \in 0..15
  /\ {tx_r, tx_sr, rx_sr, rx_status, soc_got, ec_got} \subseteq Word \union {None, Junk, Underflow}
  /\ \A f \in {rx_fifo, tx_fifo} : Len(f.q) <= Depth

(* A driver that polls hold before it writes tx gets the EC's words one by  *)
(* one: none lost, none twice, never the underflow code, although hold is   *)
(* synchronized and the word is only popped several EC cycles after the     *)
(* transaction ended (spi_7series.py:165, spi_ice40.py:330).                *)
RepliesInOrder == [][soc_got' # soc_got => soc_got' = soc_got + 1]_vars

(* The EC gets the SoC's words in order, none twice and none half shifted,  *)
(* and all of them unless its FIFO has overflowed (spi_ice40.py:352).       *)
RequestsInOrder ==
  [][ec_got' # ec_got => \/ ec_got' = ec_got + 1
                         \/ overrun /\ ec_got' > ec_got]_vars

(* Words cross the link in order, in both directions, and every register    *)
(* stays in its range (spi_7series.py:165, spi_ice40.py:252, 330, 352).     *)
WordsInOrder == []TypeOK /\ RepliesInOrder /\ RequestsInOrder

(* A transaction in progress ends (spi_7series.py:66, 'Set when transaction *)
(* is in progress').                                                        *)
TransferCompletes == tip ~> ~tip

(* All the words the EC has for the SoC arrive: hold and tip never leave    *)
(* the two sides waiting for each other.                                    *)
ExchangeCompletes == <>(soc_got = MaxWords)

(* The link never stops: transactions end, and the exchange does            *)
(* (spi_7series.py:66, 116).                                                *)
LinkCompletes == TransferCompletes /\ ExchangeCompletes

=============================================================================
