# Formal models of the Betrusted gateware

This directory holds TLA+ models of the FPGA gateware in `src/`: the LiteX/Migen
peripherals of the Betrusted SoC and of its embedded controller (EC). The
modules are written from the Python and Verilog sources, checked with TLC on
small instances, and parts of them are proved with TLAPS for every size.

Contents: [the system](#the-system), [modules](#modules-and-how-they-map-to-the-code),
[runs](#the-runs), [proofs](#proofs), [limits](#what-is-not-modelled),
[findings](#findings), [further work](#further-work).

## Conventions

* Migen logic is synchronous, so **one step of a model is one clock cycle**: every
  state machine and register of the block moves in the same step, from the old
  values, exactly as `sync` statements do. `Next` is the conjunction of the
  machines and, over it, the choice of what the environment (CPU, other chip,
  noise source) does in that cycle. A wire (`comb`) is an operator without a
  prime, a register a variable.
* Names are those of the source (`holdfsm`, `seed_gnt`, `av_config_noise`, ...).
  State names are the FSM's `act("...")` names. Where two modules are extended by one, names that both have carry a prefix
  (`RamNext`, `LcdNext`, `NoiseNext`; `lcd_command` and `lcd_busy` are `command` and `busy` of memlcd.py).
* Where two clocks meet, the slower or asynchronous one has its edges at
  nondeterministic steps; a register that samples a signal which changes at the
  same instant may take the old or the new value.
* Variables marked *history* do not exist in the code; they record what
  happened so that a property can speak of it, and nothing reads them.
* Operators under a comment `Fault: ...` are plausible bugs, at least one for each
  property. They are used nowhere in a specification; put in place of the
  operator next to them they make TLC report the property, which shows that
  the property depends on the code. `PROJECT.json` lists the pairs.
* Lines are given as `file:line` relative to `src/gateware/`.

## The system

Two FPGAs. The **SoC** (Spartan 7, 100 MHz `sys`, a VexRiscv CPU) holds the
security functions; the **EC** (iCE40, 18 MHz) runs power and network. They talk
over a SPI link. Software drives every block through CSRs; nothing in the gateware
calls anything else, so the "operations" are CSR accesses, clock edges and
signals between blocks. What is hard in this code is what a simulation with one
schedule hardly meets: handshakes of registers on both sides, clock domain
crossings whose acknowledgement nobody looks at, values that change between a
software poll and the read after it, machines that wait for each other, and
counts that must match a delay elsewhere.

| Component | State | Operations and interactions | Hard behaviour | What makes it correct |
|---|---|---|---|---|
| ChaCha conditioner, output (`chacha/chacha.py`, control of `chacha_core.v`) | two port pipelines, 16-word holding buffer and its counter, request FSM, core state, block register | reads of `urandom`/`advance_a/b`; block request by blind transfer into `clk50`; block back through registers | two readers and a block arriving in any cycle; no handshake protects the core's output register, which self-mixing rewrites at any time | no word twice, no sentinel after a poll, none from unfinished rounds, one block in flight, no port starves |
| ChaCha conditioner, seed control (`chacha/chacha.py`) | seed FSM, word counter, reseed counter, request, ready | takes words from the TRNG by request/grant; tells the output side `ready` | four-phase handshake of registers, interval changed at run time | pool and blinding input filled with distinct words before `ready`; reseeds when the interval is reached |
| TRNG kernel FIFO and arbiter (`trng/trng_managed.py` 1021–1140) | FIFO, registered read side, `avail`, grant, underrun count | CPU read of `kernel.data`, seed control, refill | both consumers pop the same registered FIFO | no word delivered twice to either |
| TRNG refill and noise sources (`trng/trng_managed.py`) | refill FSM, avalanche power FSM, word assembly FSM, XADC configuration FSM, ring oscillator word, self-test verdicts, two FIFO levels | control registers, power saving, health tests | six machines waiting for each other; leftovers of the previous power cycle | no noise word used twice or sampled while cold; XADC restored; refill ends |
| Health tests (`trng/trng_managed.py` 192–626) | counters and windows of four kinds of tests, verdicts, events | a sample a cycle at most; clearing, resetting and reading by software; power | boundaries of counts and windows; resets in the middle of a window | a verdict if and only if the samples call for it, from the whole window and nothing else |
| Modular noise generator (`ModNoise`) | phase FSM, counter, shift register | period and dead time, enable; a bit per phase | registers rewritten while the counter runs | phases never overlap; no bit in two words |
| COM link (`spi_7series.py` SPIController, `spi_ice40.py` SpiFifoPeripheral) | SPI FSM, shift registers, synchronizers, two FIFOs of the EC, error flags | word exchange between the chips, `hold` flow control | three clocks, popped word vs. `hold`, autohold | words in order, each once, no hang |
| Watchdog (`wdt.py`) | enable, period, DISARMED/ARMED/ARMED_HOT, reset pulse | kick, enable, period from `sys`; counts on the configuration clock | kick against expiry, period and enable cross separately | reset only when unkicked, always when unkicked |
| TickTimer, msleep (`ticktimer.py`) | 64-bit counter, prescaler, load/pause/reset in flight, lockout | load, pause, reset, alarm | several crossings with different latencies | a timer seen paused stands still; the alarm comes, in both clocks |
| Keyboard scanner (`keyboard.py`) | column, scan, row shadows, debounce FSM, pending | scan in the slow domain, acknowledge in `sys` | acknowledgement at any column; keys bounce and move meanwhile | a scan is what was down; the shadow takes what was asked for; no key change unreported |
| Memory LCD (`memlcd.py`) | update/line/bit FSMs, busy, one read port | UpdateDirty, UpdateAll, prescaler, devboot | command while busy or at the first idle cycle; one port for pixels and flags | what was asked for is shown, in whole lines |
| Curve25519 engine, sequencer (`curve25519/engine.py`) | sequencer FSM, `mpc`, two-phase register file, bus port, pause | go, pause, resume, host access to register file and microcode | one request spans three clocks of ratio 4:2:1; host access while running, pausing or ending | the program's semantics whatever the host does; accesses current, kept and answered |
| Curve25519 engine, arithmetic (`curve25519/engine.py`) | fifteen DSP blocks under one FSM; one-cycle units | start, operands, result into a clock of half the rate | rotation, carries and the wrap at the top, exact to the cycle | the product and the sums in the field |
| I2C controller (`i2c/`) | command register, byte and bit machines, filter | start, read, write, stop, interrupt | hardware clears what software writes; samples behind a filter | each command once; the bits that were on the wire |
| External SRAM controller (`sram_32_cached.py`) | FSM, burst counters, pin registers, config override | line burst, configuration read | registers between the machine and the pins; times counted in cycles | data of the addressed word, one driver, bus always answered |
| SHA-512 (`sha512_opentitan.py`, `sha512/`) | command crossings, frozen configuration, packer, FIFO, padding and block FSMs | configure, start, write, process, reset | padding at any length; configuration changed and resets under way; an event that stays pending | the digest of the message that was written |
| Others | — | — | — | not modelled, see [below](#what-is-not-modelled) |

`PROJECT.json` lists every component with its status, and under `hazards` the
places where the above can go wrong, with the properties that would notice.

## Modules and how they map to the code

```
FreshStream   <--refines--  ChaChaOutput
ChaChaSeed    <--EXTENDS--  TrngSeeding
Microcode     <--refines--  EngineSeq     <--EXTENDS--  MCEngineSeq      (both EXTEND EngineIsa)
EngineAlu     <--EXTENDS--  EngineMul
I2cBit <- I2cByte <- I2cController
M_proofs      <--proves the theorems about--  M, for M in ChaChaOutput, TrngSeeding, MCTrngSources (TrngRefill, ModNoise, TrngHealth),
                                              EngineSeq, I2cController, MCAlwaysOn (TickTimer, KeyScan)
Chips_proofs  <--proves the theorems about--  Sram, MemLcd and ComLink
Peripherals_proofs  <--proves the theorems about--  Watchdog and Sha512

MCTrngParts     = ChaChaOutput + TrngRefill (liveness)
MCTrngSources   = ModNoise + TrngRefill (safety) + TrngHealth
MCAlwaysOn      = TickTimer + KeyScan
MCPorts         = I2cController + Sram + MemLcd
MCAccelerators  = EngineMul + Sha512
```

The last five put blocks into one TLC run that share no signal in the code. Each has
a variable `unit`, chosen at the start: in a behaviour one of the blocks
moves, the others stay in one initial state, and the reachable states are those
of the blocks one by one. Nothing is claimed of an interplay
between them. Where blocks do interact they are composed: the refill with its
sources and FIFOs, the seed control with the kernel FIFO, both ends of the SPI
link, the engine with its host, each controller of MCPorts with the device
behind its pins.

**FreshStream** is the promise of the random number generator to software, with
two variables: the random word returned in this cycle, and the set of words
returned so far. A step returns a word outside that set, or nothing.

**ChaChaOutput** (`chacha/chacha.py` 64–285, 410–440, `chacha_core.v`, the `urandom`
registers of `trng_managed.py`). A random word is `<<block, index>>`, so two words
are equal only if they are the same sixteenth of the same block; the cipher's
arithmetic is not in the model. `OutPipes` is `outafsm`/`outbfsm`, `HoldFsm` with its
disjuncts is `holdfsm` (the `If/Elif` ladder of `OUTPUT` over the two advance
signals becomes `OutputOne`, `OutputBoth`, `OutputScarce`, `OutputNone`; all of the
ladder's "load the next block now" branches are `Deal`), `HoldingBuf` the buffer's
shift and load, `AdvFsm` the request, `Resync` the registers on the way back.
`Clk50` is the half-rate side: the BlindTransfer of `next` as
idle/req/ack, and the control state of the core. It gets something done or not
in any cycle, so the core may take any number of cycles for a block, at least
those of the handshake. `ForceRound` is self-mixing, which is on by default (`chacha.py:383`): at any time it makes the core write its output
register (`chacha_core.v:284`), with more mixing of the block that is there or, while rounds are under way, with what they have
come to; the latter is no block (0), the former another content of the same one, which is not told apart. The CPU makes an access at most every other
cycle, as the bus does: it polls `urandom_valid`, reads `urandom`, or reads the
test register that advances both ports.

**ChaChaSeed** is `seedfsm` as an action `SeedFsm` whose parameters are the wires it
reads. **TrngSeeding** extends it with the kernel FIFO of `trng_managed.py` (1021–1140):
the registered read side with its habit of keeping `rden` while the FIFO is
empty, `avail` two registers behind, the grant and `seed_buf`, the saturating
underrun count. TRNG words are numbered in order of production and the FIFO is
the pair (written, popped). The refill writes whenever it likes; the CPU polls
`avail`, reads, clears errors, and rewrites `reseed_interval`. The history `since` counts the blocks asked for since the last
rotation, those included that are asked for while the next one waits for its word; `lowered` remembers that software has set an interval the count had reached.

**TrngRefill** (`trng/trng_managed.py`) has one action per state of `refill`, the
power-up machine `avpwr`, the word assembly `avn`, the XADC reconfiguration,
the ring oscillator's word register, the verdicts of the health tests as a
nondeterministic choice within what their reset conditions allow, and the levels of
the two FIFOs. `control` is the register file; software may
rewrite it in any cycle, only `powersave` of it or all of it (`Reconfigure`).

**TrngHealth** has the four kinds of tests, each as a function of its registers (`RepCountTest`,
`AdaptivePropTest`, `ExcursionTest`, `MiniRuns`, with an operator per state), the events, and software that clears, resets or
reads at any time. The history keeps the samples themselves, and the
properties say in terms of these sequences what each verdict has to be, with the cutoffs as the tests' own documentation counts them. One source is sampled
in a behaviour, since the tests of two sources share only the event registers.

**ModNoise** has one action per state of the phase machine (the two dead times are one action
with parameters) and the collector of the bits. Of a bit only is kept whether a word that was shown holds it.

**ComLink** joins the two SPI blocks, with the driver of the SoC and a bus master on
the EC. Three clocks: a step is one SoC cycle, the SPI clock ticks every
`SpiDiv` steps, the EC's edges come `EcPeriods` steps apart in any order.
`Fsm...` are the states of `SPIController`, `Shift` the registers clocked by `sclk` in both
chips, `Peripheral` the EC's domain (the two buffered FIFOs, synchronizers, error
flags), `EcWrite`/`EcRead`/... the Wishbone responder. Words are numbered; a shift register in the
middle of a word holds `Junk`, so a torn read would show. `Bits = 2` is enough
because the machine treats only the first and last bit specially.

**Watchdog** (`wdt.py`) has a step for each cycle of `sys`; in it, and before it, the watchdog's clock may have an
edge, 1 to `MaxGap` steps after its last one. `Registers`, `Enabling`, `Counter` and `Wdog` are `sync.wdt`,
`KickSys` and `ResetSys` the `sys` side. Of migen's `PulseSynchronizer` the model keeps which of its stages differ
(`t`, `m`, `o`); a `BlindTransfer` is two of them and a flag. The `BusSynchronizer` of the period
delivers its value at any edge up to `Round` cycles after the write: its ring makes at most one turn of 15 cycles
before it takes the value and then needs up to 12 more. Software writes the period, enables
`Settle` cycles or more later, then kicks or rewrites anything at any time. The chip's reset ends a behaviour.

**EngineIsa** has the instructions of the Curve25519 engine over registers of one bit.
**Microcode** is what a programmer of the engine is promised: one run for each `go`,
instructions one after the other and each of them whole, a host that touches the
registers only when the engine is idle or paused between two instructions.
**EngineSeq** (`curve25519/engine.py` 100–198, 1009–1071, 1391–1398, 1503–1927) is the engine. A step
is a cycle of `sys` and `mul_clk` (100 MHz); the register file's clock ticks twice in it, `eng_clk` every
other step. `phase` is the register file's upper phase bit and tells which half of an `eng_clk` cycle
it is. `Sequencer` with one action per state is `seq`, `SysRegisters` the stretched `go`, the
microcode memory's output and the status registers, `Multiplier` the control of `ExecMul`
(`mseq`, with `step`, `prop`, the alignment states `DONE`, `DONE2`, `DONE3`; its data are in EngineMul), `RegisterFile` the reads
in the first and writes in the second half, `Bus` the wishbone port with its acknowledgements by phase (writes)
and by wait states (reads). `Host` is one bus master: it starts a program,
polls `running`, pauses, polls `pause_gnt`, resumes, and reads or writes a register whenever it
likes, where the bus makes it wait. **MCEngineSeq** has the programs.

The mapping to Microcode is `pc <- mpc` and the owner read off `running` and `pause_gnt`; registers
and request map to themselves. So it requires that a result is in its register exactly when the sequencer moves
on, and that no host write falls between.

**EngineMul** (`curve25519/engine.py` 822–1418) is `ExecMul` with its data: the registers A1, A2, B2, D and P of each DSP block,
the clock enables `dsp_..._ce`, the operands `dsp_a` to `dsp_d` and the sum that OPMODE selects, per state of `mseq`. **EngineAlu** has the
one-cycle units as operators, and the instruction sequences that the notes in the source prescribe for field arithmetic.

**TickTimer** (`ticktimer.py`) and **KeyScan** (`keyboard.py`) each have two clocks. TickTimer keeps of the synchronizers what Watchdog keeps;
`Crossing` is the reset, load and ping/pong of the lockout, `Count` and `Alarm` the slow side. KeyScan holds rows as sets
of keys; keys move whatever software does, and software answers an interrupt by reading the rows, then clearing, as late as it likes. In TickTimer software may make an access in every cycle; the time that a load
resumes at is any time, since only the count from then on matters.

**I2cBit**, **I2cByte** and **I2cController** are the three layers of `i2c/`: the bit machine with its clock divider, filter and bus status, the byte machine,
and `core.py` with the command register and the flags. A device on the bus hears address and data, answers, acknowledges or not; a driver writes commands
that make sense in the state of the bus and waits for the interrupt flag.

**Sram** (`sram_32_cached.py`) has the controller's FSM in one record `r`, its counter, the registers before and behind the pins, the cache
as a master that moves whole lines, and the chip, which shows a word only when its pins have been still for the access time and stores one only when the data were
stable before the end of the write.

**MemLcd** (`memlcd.py`) has the three machines `fsm_up`, `fsm_phy`, `fsm_bit`, the read port they share, and the panel, which
takes a bit at each rising edge of SCLK and checks that it is the one that is due.

**Sha512** (`sha512_opentitan.py`, `sha512_litex.sv`, `sha512/`) names a message byte by its place, so that the
digest is the sequence of blocks that were compressed, and is compared with the padded message, computed at once by `Padded`. The done event is a register: only software's write
(`ClearDone`) takes it down, as `finish()` and `reset()` of the driver do; a hash that ends while a reset is on its way sets it once more. A write at an odd address (`WriteTop`) fills the upper half of `wdata` and is
cleared before an even one can send it. `Close` and `ClearDone` are what `Patient` and `Clears` are about.

## The runs

Deadlock is checked except in `com_link`, where the two sides stop after `MaxWords` words, and in
`accelerators` and `engine_mul_product`, where a product ends the behaviour.
A property such as `WordsSound` is the conjunction of the named properties of its modules; their comments state them one by one.

| Run | Bounds | States | Shows |
|---|---|---|---|
| `trng_parts` | ChaChaOutput: 3-word blocks, 2 blocks; TrngRefill: FIFOs of 2, mark 1, sources that pass | 51,000 | Two polling readers, a core of any speed and forced rounds at any time: `FreshWords` (refinement of FreshStream: no word twice, none faked), `CheckedReadIsValid` (nothing slips between poll and read), `BufferCountsItsWords`, `NoBlockSkipped` (what is announced and copied is the block last finished, though the core's register is rewritten meanwhile), `OneBlockInFlight` (no request lost in the blind transfer or doubled), `PortsRefilled` (port b is not starved by the precedence of a); `RefillCompletes`: a refill ends once the readers pause. |
| `trng_seeding` | pool 2, blinding 2, FIFO 2, 8 words, intervals 0–2 | 196,000 | `SeedWordsFresh` and `NoKernelRepeat`: neither consumer of the shared FIFO is given a word twice; `KeyPoolSound`: all is seeded before `ready`; `RotationDue`: once the interval's blocks were asked for since the last rotation, the next is under way, unless the interval was set to a value already reached; `SeedsArrive`: seeding and every reseed complete. |
| `trng_sources` | TrngRefill: FIFOs of 2, table of 2, 1 sample per word, any choice of sources and power saving; TrngHealth: 6 samples of 3 values, 2 accesses or changes of power; ModNoise: words of 3 bits, durations 0–2 | 879,000 | `WordsSound`: no noise word used twice or sampled cold, no bit in two words; `XadcBackToSense`; `TestsExact`: each verdict of the health tests, the run test's included, is what the samples since the last reset call for, with cutoffs and windows as they are, not as they are documented; `DeadTimeKept`. |
| `com_link` | 2-bit words, FIFOs of 1 (+1), 3 words each way, autohold on and off | 464,000 | `WordsInOrder`: replies and requests arrive in order and once each; `LinkCompletes`: transfers and exchanges end, for a driver that polls `hold`. |
| `engine_seq` | 7 programs of up to 5 words, memory of 8, 2 registers of 1 bit, `MulSteps = 1`, `PropSteps = 2` | 400,000 | `InstructionsInOrder` (refinement of Microcode) through every interleaving of program, pause and register access; `StatusIsSound`: polling tells the truth; `HostAccessSound`: reads are current, writes land; `EngineAnswers`: instructions, pauses and accesses complete. |
| `watchdog` | periods 0 and 2, clock ratios 1 to 4 | 516,000 | `NoEarlyReset`: at least two whole periods since the last kick arrived; `ResetInTime`: at most three; `WritesHeeded`: a kick arrives within 15 cycles, although the transfer is blind in between, and the period in force is the one written; `ResetDelivered`. |
| `always_on` | TickTimer: `clkspertick = 2`, times 0 and 1; at most 2 accesses while a transfer is under way; KeyScan: 1 row, 2 columns, `debounce_clocks = 14`, keys that move at 2 counts of a scan | 555,000 | `PausedMeansStopped`: a timer seen paused stands still; `KeyScanSound`: a scan shows the keys that were down, the shadow takes whole scans that software can read, one for each acknowledgement; `CpuWakes`: the alarm comes in both clocks, unless its target was last written with the transfer of the write before still under way, and once the keys rest software knows them, unless the shadow took them first or the event is off for good (see [Findings](#findings)). |
| `ports` | I2cController: 2-bit transfers, prescaler 3; Sram: lines of 4 words, 2 lines, 2 values; MemLcd: 2 lines of 2 words of 2 bits | 380,000 | `I2cCommands`: each command carries its byte and acknowledgement once; `I2cBusInOrder`: START and STOP only where asked for, and the busy bit tells whether the bus is taken; `RamKeepsLines`: what is read was written, one driver on the pins but in a configuration read; `LcdUpdateShown`, `LcdWholeLines`: an update shows every line it was for, bit by bit; `RequestsEnd` for all three. |
| `accelerators` | EngineMul: 3 limbs of 2 bits, all 61 × 61 operands; Sha512: 3-word blocks of 4-byte words, messages of 0 to 13 bytes, 1 change of configuration, 1 reset | 591,000 | `FieldArithmetic`: the product is exact up to NORMALIZE and right whenever the limbs then hold less than twice the prime, and the prescribed sequences compute the field's sums; `ProductTaken` once by the slower clock; `HashCorrect`: the digest is that of the message written, padded, compressed in whole blocks, and the FIFO has room while `almost_full` is down; `HashEnds`. |
| `engine_mul_product`, `sha512_undrained`, `keyboard_late` | | | violations, see [Findings](#findings) |

Why the bounds are enough.

* `W = 3` is the least size at which INIT deals two words and one is left, so a
  block ends on a single word; with it both parities of the remainder occur,
  and two blocks give a block boundary and a stall of the core at the end. The safety
  properties of this run are proved for every `W > 2` and every number of blocks.
* In TrngSeeding, a pool of 2 has a dummy, a real word and the counter's last
  step; intervals 0, 1, 2 are off, every block, and a counter that counts.
  8 words cover seeding (4 words and those the kernel takes) and several reseeds; `since` stops counting at the largest interval. The safety properties are proved for every size.
* In TrngRefill, `Depth = 2` with `Mark` 0 (in `trng_sources`) or 1 (in `trng_parts`) separates empty, marked and full; in `trng_sources` a table
  of 2 has a first and last entry; `Samples` counts from 0 as the register does.
* In ComLink the timing is the real one: `SpiDiv = 4` (100 MHz / 25 MHz,
  `spi_7series.py:39`), `EcPeriods = {5, 6}` (18 MHz, `spi_7series.py:42`), `Stretch = 10` and
  the turnaround delay of 2 are the code's values. `AccessTicks = 4` is the time a
  CSR access takes ("completes at 40ns per request", `src/sim/trng_managed/testbench/src/main.rs:67`);
  it matters: `tip` is visibly 0 some 3·SpiDiv + 3 cycles after `csn` rises,
  while `hold` may show the old state for about 21 cycles, and it is
  the accesses between (read `tip`, read `rx`, read `hold`) that close
  the gap. Real words are 16 bits, so a transaction is longer than in the model; a shorter one
  makes races likelier, not rarer. Depth 1 fills the EC's FIFOs and
  overflows the receiving one.
* In Watchdog, a period of 0 ends at every edge, and 2 has edges of all kinds; the bounds in periods are proved for all. `MaxGap = 4`
  covers 97 to 32 MHz (`wdt.py:17`, 33). `Settle = 26` is the least even value that keeps the conjunct `PeriodLocked` of `WritesHeeded`: if software
  writes `period` and enables with its next access, 4 cycles later, the watchdog may lock the old period (or 0 after reset).
* In EngineSeq, registers of one bit show which value went where. The memory of 8 words wraps
  as the one of 1024 does; backward branches use that. `MulSteps` must be odd as the code's 15 is, since the
  multiplier's length decides on which half of `eng_clk` it ends; the lengths are otherwise
  irrelevant to the control, and the safety properties are proved for all. The samples have a product used by the next
  instruction, branches forward, backward and out of the program, a loop that only a host's write ends, an
  endless one, a program that ends by its length at the top of the memory, and an illegal opcode.
  `AccessTicks = 4`, one CSR access in 40 ns, is the margin the code relies on: for 3, `RunObserved`
  (the status is read before it shows the run just asked for), `HostWriteLands` and `InstructionsInOrder`
  fail, because a register write acknowledged just before `go` still needs its half cycle; for 2
  `PausedMeansPaused` fails, too.
* In TrngHealth the repetition cutoff is one above the least, windows of 4 and 2 samples end within 6 samples, a second one of runs too, and two
  accesses or changes of power let a reset meet a clear or a read. Samples of 3 values tell a spread of 2 from 1. `TestsExact` is proved for all.
* In ModNoise, periods and dead times of 0, 1 and 2 are the end of the counter, one step and a count; the words of 3 bits wrap. The dead time is proved for all.
* In EngineMul, 3 limbs of 2 bits and the prime 2^6 - 3 have every operand pair (61 x 61). An odd number of limbs decides on which phase the result comes, as 15 does;
  3 is enough for a middle limb, and the carry chain passes all of them twice.
* In Sha512, words of 4 bytes and blocks of 3 words: messages of 0 to 13 bytes end in each place of a word and need
  one block or two, the padding alone in the second or not. The rounds only delay: with `NumRound = 3` a block is
  compressed before the next word is full, and `sha512_undrained` with 8 has words wait
  in the FIFO meanwhile. Writes of one byte and half a word leave all remainders in the packer. One reset reaches each state of the machines, the end of a hash while it crosses among them. `HashCorrect` is proved for all sizes.
* In TickTimer `clkspertick = 2` (the prescaler counts 2, 1, 0) and a time of 1 have a target reached at once, later, and never; 2 is also the least for which `PausedMeansStopped` is proved. The always-on clock is 2 to 3 times as slow as sys
  instead of 8 to 9 times, so that the crossings, which take three of its edges, are over sooner; accesses come in any cycle, in the middle of every crossing too. `MaxAccesses = 2` is the number of them from one time at which all transfers are at rest to the
  next: one that starts a transfer, and one that meets it in any of its cycles.
* In KeyScan one row and two columns have a key that is being scanned and one that is not. `debounce_clocks = 14` outlasts one scan (11 counts), as 163 outlasts the real scan.
  A scan sees a key once, at count 1 or 5. `Moments = {4, 10}`, between the first column and the second and between two scans, let each of the two keys move between any two of its samples, so that every sequence of scans occurs that keys moving at any count give,
  and a scan in the middle of which they move. What is proved holds for keys that move at any count.
* In I2cController `Prescale = 3` gives the filter its shortest count, `Bits = 2` an address or data bit and the direction bit.
* In Sram lines of 4 words have a first, a middle and a last one; the timings are the constructor's defaults in cycles. configuration reads may come at any time, before, in and after an access, but for the cycle that `Exclusive` excludes. `RamKeepsLines` is proved for all.
* In MemLcd 2 lines of 2 words of 2 bits have first and last of each; prescalers 2 and 4 are the least that are
  even and work, `ClkBits = 3` wraps the counter. `LcdUpdateShown` and `LcdWholeLines` are proved for all.

### Fairness

Weak fairness of `Next` says that the clock runs. Beyond that:

* `ChaChaOutput`: in cycles that keep coming, the half-rate side does not stand still
  (`Access(TRUE)`) and also does not always act at once; both are the clock
  ratio and the finite number of rounds. Software need not read at all.
* `TrngSeeding`: the refill machine delivers while the FIFO has room (this is what
  `RefillCompletes` shows of it, for good sources) and the core finishes a block.
  The kernel may drain the FIFO at any pace.
* `TrngRefill`: sources that are on pass their tests, the power-up delay,
  conversions and ring oscillator words come to an end, and software does not
  write the control register in every single cycle. `RefillCompletes` assumes that the
  readers stop for a while, since a reader as fast as the source keeps a FIFO from filling.
* `Watchdog`: the clocks, whose ratio is bounded.
* `EngineSeq`: the clock. The host need do nothing; what it asked for is answered.
* `ComLink`: the SoC's driver gets its bus accesses; the EC's CPU offers a
  word infinitely often if its bus is infinitely often free (strong fairness, because
  its reads and the responder's wait states disable a write in between).
  Nothing is assumed of the EC's reads: its receive FIFO may overflow.
* `TickTimer`: in cycles that keep coming the bus synchronizers complete a round (strong fairness of `Deliver`; each round takes a bounded time).
* `Sha512`: software that waits for the event takes it.
* `KeyScan`: the clock, and a software that answers an interrupt some time, reading and then clearing.
* `I2cController`, `Sram`, `MemLcd`, `EngineMul`: the clock only; software need do nothing.

## Proofs

The proofs hold for every value of the constants that satisfies the assumptions of the module, which TLC evaluates
in every run, and those in the table. Each invariant was first checked with TLC on the small instances.

| Module | Theorems | Assumed of the constants, beyond their types |
|---|---|---|
| `ChaChaOutput_proofs` | `TypeCorrect`, `BufferCorrect`, `CheckedReadCorrect`, `BlockKept`, `BlockInFlight`; `FreshWordsCorrect` (refinement of FreshStream) | blocks of more than 2 words (INIT deals two); for the refinement that readers poll (`PollFirst`) |
| `TrngSeeding_proofs` | `KeyPoolSoundCorrect`, `SeedWordsFreshCorrect`, `NoKernelRepeatCorrect`, `RotationDueCorrect` | pool and blinding input of 1 to 31 words (`seed_ctr` has 5 bits); of software nothing: that an interval was set which the count had reached is a condition in `RotationDue` itself (false without, see [Findings](#findings)) |
| `MCTrngSources_proofs` | of TrngRefill `WordsUsedOnceCorrect`, `NoiseWordsSoundCorrect`, `XadcBackToSenseCorrect`; of ModNoise `DeadTimeCorrect`, `WordsDisjointCorrect`; of both together `WordsSoundCorrect`; of TrngHealth `TestsExactCorrect` | for `NoiseWordsSoundCorrect`, `XadcBackToSenseCorrect` and `WordsSoundCorrect` that software changes only `powersave` while the TRNG runs (`Reconfigure = FALSE`; false without) |
| `EngineSeq_proofs` | `StatusIsSoundCorrect`, `HostAccessSoundCorrect`, `InstructionsInOrderCorrect` (refinement of Microcode) | `MulSteps` odd (the code's 15) and `AccessTicks >= 4`, a CSR access of 40 ns: with other values TLC finds the properties violated |
| `Peripherals_proofs` | of Watchdog `NoEarlyResetCorrect`, `ResetInTimeCorrect`, `WritesHeededCorrect` | for the last `KickLatency >= 3 * MaxGap + 3` and `Round <= Settle + 3`: the latency claimed is not less than the crossing takes, and software does not enable before the period has crossed |
| | of Sha512 `ShaInvariant`, `HashIsCorrect` | more than one byte in a word, more than two words in a block, more than one round, `AlmostFull < FifoDepth`; software that waits for an empty FIFO before `hash_process` and clears the pending event after a reset (`Patient`, `Clears`; `HashCorrect` is false without either, see [Findings](#findings)) |
| `Chips_proofs` | of Sram `RamKeepsLinesCorrect` | positive times, data stable before the end of the write pulse (`DataSetup < wr_timing`), page reads at most two cycles longer than the first one (the code's are shorter), and no configuration read asked for in the cycle in which the idle machine finds a request (`Exclusive`; false without). Requests may come while a configuration read is under way |
| | of MemLcd `LcdUpdateShownCorrect`, `LcdWholeLinesCorrect` | positive sizes and waits, fewer bits in the head than in a word, an even number of bits in a word |
| | of ComLink `LinkInvariant`, `WordsInOrderCorrect` | `LinkTimed`: a driver that looks at `hold` (`CheckHold`), at most 16 bits in a word (`spicount` has 4), and, with *P* the longest period of the EC's clock, `P < 3 * SpiDiv`, `3 * P <= 3 * SpiDiv + 2 * AccessTicks + 1` and `SpiDiv <= 3 * AccessTicks + 1` (4, 6 and 4 in the code: 6 < 12, 18 <= 21, 4 <= 13) |
| `I2cController_proofs` | `I2cCommandsCorrect`, `I2cBusInOrderCorrect` | `Prescale >= 3`, at most four registers between pin and filter (`Sync <= 4`, the code has four), and a driver that waits for the interrupt flag (`Poll = "IF"`; TIP does not do, see [Findings](#findings)) |
| `MCAlwaysOn_proofs` | of TickTimer `PausedMeansStoppedCorrect`; of KeyScan `ScanIsTrueCorrect`, `KeyScanSoundCorrect` | `clkspertick >= 2` (the code's 12000) and an always-on clock at most half as fast as sys (`MinGap >= 2`, the code's 8); of keys and of software's answers nothing |

The inductive invariants, and why the properties alone are not inductive:

* **ChaChaOutput.** `Invariance` is the conjunction of the types, *BlockKnown* (what is announced on the way to the buffer is a
  finished block and no unfinished rounds), *BufferInv* (in OUTPUT the counted words are the tail of the loaded block; in
  INIT the whole block is there; in other states nothing is counted) and *ValidIsWord*. It is needed because
  `BufferCountsItsWords` says nothing of the cycle in INIT, and a valid port only stays
  valid if the local register behind it is. `TokenInvariance`: the one outstanding block is in one of five situations (asleep, requested,
  computing, arriving, waiting in the core's output register or the buffer's flag), each of which
  fixes the state of every machine on the ring from `advfsm` over the crossing and
  the core to `saw_load`. `NoBlockSkipped` follows from it: forced rounds cannot spoil what is copied, because rounds only run while nothing is announced. For the refinement *PipeInv* relates each pipeline to the register behind it, and *FreshInv* says
  that the words taken were dealt, that what a port shows or holds behind it was dealt
  and not taken, and that two registers hold the same word only while a capture is in
  progress. Each dealt word is new because of *BufferInv* and *Token*.
* **TrngSeeding.** *Handshake* is the four-phase protocol of `seed_req` and `seed_gnt`: a grant seen rising belongs to a request that is still up.
  *Counted* says that words stirred in and `seed_ctr` make up the pool. *Retired* says that the word granted last is off the FIFO or
  being popped in this cycle, so that the next grant copies another. For the kernel, *Served* lists the five situations after a read: the seed control pops in its
  place, its own pop is under way, the output moves on, or nothing is left; in the first two `avail`, two registers late, cannot yet be seen.
  For `RotationDue`, *OnTime* ties the code's count, which starts at one again with the request, to the blocks since the rotation: they agree until a request, and again after the rotation, unless the interval was set to a value already reached.
* **TrngRefill.** *Powered* ties the refill's states to the power machine; *ColdRetired* follows a cold word from the power-up to the self-test, whose
  first cycle takes it away; *SenseNext* says that the XADC is idle when GO_IDLE sends its pulse. `WordsUsedOnceCorrect` needs only *Unused*
  and no assumption about software.
* **ModNoise.** *Elapsed*: in a dead time the cycles both phases have been low and what the counter has left make up the whole, less one for the cycle in which the
  outputs follow the state; `DeadTimeKept` says nothing of these cycles, in which software may rewrite `deadtime`. *Collected*: the newest `rand_cnt` bits of the shift register
  are in no word.
* **TrngHealth.** The verdicts are a cycle late and the counters saturate, so `TestsExact` needs the counts behind them. *RepKept*: the last `b + 1` samples are equal, and no more of them unless
  the counter is full. *AdpKept*: `w` places the first sample of the window under way at a multiple of the window's length, `b` counts the matches of that sample, and in the cycle in which a window
  ends no sample comes (the strobes are edges), or it would be lost. *ExcKept*: `w` and the samples of the window make up its length, `min` and `max` are their extremes. *RunKept*: the shift register holds the last bits of the
  window, and the counters only begin once it has been filled; `run_seen` is that window, and the counts on show are those of the one before (`run_shown`). For each test there are lemmas that say what one more sample adds to the reference definition (`RepeatedMoves`,
  `WindowMoves`, `ValuesMove`, `EndedMoves`); that is what makes definitions by counting provable without an induction over sequences. TLC checked `HealthInv` with three sets of cutoffs and windows.
* **EngineSeq.** The longest: *Sequenced* and *Units* say which unit may work in which state of the sequencer, *Beat* in which half of the `eng_clk` cycle each
  state of the multiplier falls (by the parity of the steps left, which is where `MulSteps` odd is used), *Operands* that the read ports hold the instruction's operands when the unit starts,
  *Writers* who writes at the next edge, *Launch*, *Pausing* and *Late* how long after an access of software its effect takes to arrive and be reported (where `AccessTicks` is used), and
  *Reading* the wait states of a read. The refinement maps each step to one of Microcode's or to a stutter: a logic
  instruction or a product is done in the step that writes its result.
* **Watchdog.** *NotBegun* describes the edges before the period is loaded, *Counting* that a period ends just when the counter is loaded,
  *AtLeast* and *AtMost* bound the time since the last kick by the state and what the counter has left. For the crossings, *Token* says where on the
  ring of the blind transfer the pulse is, *Waiting* bounds the age of a kick there, and *Settling* the age of the period's write by the registers that the enable bit has passed.
* **Sha512.** *Receiving* and *Padding* account for every byte: the words compressed or in the engine (*Sent*), the words of the FIFO, the bytes in the packer and those
  on the bus follow each other without a gap or a repetition, and are the message; once it is closed *Sent* is a beginning of the padded message, whose length is fixed by the state of the padding machine.
  *Engine* ties the two machines of the engine together: a block is handed over only when it is full, and `w` is empty while the engine adds. From that and `TotalIs` (the padded message
  is a number of whole blocks, and `txcnt_eq_340` is first seen where the length begins) the engine waits exactly when the low word of the length has come. *Phase* has a start or an end that is still crossing find the machines
  as software left them, and *InReset* outlasts both. `Patient` is used in one place: a FIFO that is empty when `hash_process` is given is empty when it arrives.
  `Clears` is used where a message begins: no event is pending then (*BySoftware*), since the machines are quiet when a reset is over and the event is cleared after it. `ShaInv` was checked by TLC with four sets of constants.
* **Sram.** *Outputs* and *Apart* give the registers of each state and keep the cache, the setup and the beginning of a configuration read apart; what a request that waits for a configuration read does to the pins is harmless, since no word is sampled
  and no write pulse comes. *Writing* and *Reading* are about time: the age of the address on the pins is at
  least the count, hence at the sampling or the end of the write pulse at least the chip's time, though the pins lag the machine by a cycle; *InMemory* says which words of the line
  are in the chip already, *Fetched* which have gone through the read register. `RamInv` was checked by TLC with six other sets of timings, too.
* **MemLcd.** *InStep*: each machine is at work exactly while the one above it waits, and SCS and SCLK follow the states. *Ahead*: lines that are due lie at or below the
  update's line, the one in hand among them until SCS falls, and have a reason to be sent. *PortRead* follows the read port: which line and word it shows when flags are looked at
  and when a word is loaded. *Shifting* says that the registers hold the bit whose turn it is, *Received* that the panel has all bits before it, the last one once SCLK is up.
  `LcdWholeLines` alone speaks only of the cycle in which SCS falls. No prescaler appears in the invariant: how long a bit takes does not matter, only that SCLK rises once for it.
* **ComLink.** The order of words rests on time, so the invariant counts cycles. *Asking* and *Ending* give the driver's place in its loop by the state of the machine and, from the end of a transaction on, by the cycles since.
  *Selected*: while chip select is down its fall is no longer ago than the EC's next edge allows, so the EC cannot miss it (`P < 3 * SpiDiv`); once it is up, the edges the EC still needs for `donepulse` fit into three periods. *Offered*: a `hold`
  that is down is no older than that pop once chip select has been up for three periods, which is before the driver looks at `hold` (the second inequality). By the third the done pulse is over before the driver writes again. *Replies* and *Requests* then say which
  words each FIFO and register hold. With `AccessTicks = 2`, with an EC period of 8, and with `SpiDiv = 12` against `AccessTicks = 2` TLC finds `WordsInOrder` violated; `LinkInv` was checked by TLC with six sets of constants that satisfy `LinkTimed`.
* **I2cController.** Only what is on the wire when is inductive. *Control* says that the bit machine does what the byte machine waits for, that a step comes once in `Prescale + 1` cycles, and that
  from the write of a command until its end software waits and the command register stays. *Follows* has the device count the bits as the byte machine does, and *Lines* gives SCL and SDA in each
  phase of each command, so that an edge falls in the first cycle of a phase. *BitsKept* says which bits of the byte are on the wire, in the shift register and with the device. *Filters* is about the
  past: the synchronizer and the filter still hold levels of earlier phases, so what is in them is described by how long ago the line last moved (*Young* and *Old*); that gives the sample
  taken at the filtered edge of SCL (*Receives*) and the busy bit (*BusTaken*, *BusFree*). The proof compares times only: a phase is longer than an interval of the filter,
  and two phases are at least as long as the synchronizer and three intervals together, which is where `Prescale >= 3` and `Sync <= 4` are used.
* **TickTimer.** *Arriving*: what sys sees lags behind `paused` only just after a tick. *Held*: a pause that is reported, or about to be, is in the synchronizer far enough to arrive before
  the prescaler runs out.
* **KeyScan.** *Sampling* follows the rows through the synchronizer: what is in it are keys of the column under way, so a key that is down all through the scan is seen in its column. *Scanned* says which columns are in.
  For `ScanIsTrue` that suffices. For the shadow, *AckInv* follows the acknowledgement: the event is a rising edge of `changed_kbd`, which stays up until the shadow has followed, so that from the event over the transfer, `pending_kbd_f` and `key_ack` to `update_shadow`
  there is one at a time, and *Shown* has the rows that software can read agree with the scan when the shadow takes it. Nothing is used of when keys move or software answers.

Model-checked only:

* Liveness under fairness, which is out of the proof system's reach: `PortsRefilled`, `RefillCompletes`, `SeedsArrive`, `LinkCompletes`, `ResetDelivered`,
  `CpuWakes` (`AlarmComes` and `KeysKnown`), `ProductTaken`, `RequestsEnd`, `HashEnds`, `EngineAnswers`.
* `FieldArithmetic`: what loops over limbs compute, an induction over data, on words taken bit by bit (Bitwise).

## What is not modelled

* Cipher rounds and the content of the key pool, hence what `selfmix` and `seed_now`
  do to it (what `force_round` does to the core's output register is modelled; `seed_now` changes the pool only); SHA-512 rounds, `digest_swap`, `select_256`, `sha_en`.
* The raw ADC readout (`av_config.test`) and the older ring oscillator blocks.
* In the COM link: `control.reset`, `host_int`, the interrupts, and `rx_under` (the EC's read of an empty FIFO is modelled, the flag it sets is not).
* In the engine: reading and writing the microcode memory over the bus (the host is assumed to load programs while the engine
  is idle), register windows, clock gating with the resynchronisation of the phases, the interrupts, and
  starting with `pause_req` set after a suspend (see below).
* In the I2C controller: EN, IEN and `core_reset`; in the keyboard: injected keys and the wake-up output.
* Components with status `not_modelled` in `PROJECT.json`, each with its reason: wrappers of cores that are not in the tree (AES, SHA-256),
  generated netlists (USB), third-party SPI flash code, blocks that are one assignment per access (key ROM, messible,
  build information), debugging aids, superseded designs and the simulation tools.

## Findings

Each is a run in which TLC shows the code doing otherwise than a line of the repository says.

* `ProductInField`: the limbs may hold twice the prime or more when NORMALIZE tests bit 17 of the top limb (`curve25519/engine.py:1146`), and there are two corners. In the run
  (limbs of 2 bits, prime 61) 13 and 47 leave 123: the bit is set, is cut off and 3 is added, and the result 62 is one prime too large. Lines 776–787 describe this corner,
  and 819 hopes that "perhaps this condition simply can't happen". And 14 and 31 leave 129: the bit is clear again, nothing is added, and the result is too small by 6, twice `Fold`. With the real
  limbs this second corner is the one that random operands meet, about 6 times in 10^9, since the top limb reaches the 0x4_0012 of line 816, whose bit 17 is clear: for
  a = `7766211b746e303bbe293622ac1bc61d7667f423db5a28f444befcd083ab5907` and b = `509ca338ce73c28560248dde467ee470b52a38533bfb205f98ac8b9829186058`
  (hexadecimal) the result is too small by 38. `ProductCorrect` states what holds nevertheless: the product is right whenever the limbs hold less than twice the prime before NORMALIZE.
* `DigestIsOfMessage` for software that does not wait until the FIFO is empty: words still in it when `hash_process` arrives are left out of the digest and stay
  for the next message (`sha512/sha512_pad.sv:206`).
* `EveryChangeFires` for a keyboard interrupt that is answered late: an acknowledgement that arrives exactly at `colcount == settling*cols.nbits+1` updates the shadow but leaves `key_ack`
  at 0 (`keyboard.py:152`). Only `key_ack` clears `changed_kbd` (273), the event is its rising edge (283), and the next acknowledgement needs an event: the
  interrupt never fires again, and `kbd_wakeup` stays set.

Seen in the models with other constants or without a property's condition, or while reading; none has a run of its own:

* `reseed_interval` "indicates how many ChaCha rounds we can generate before demanding a reseed" (`chacha/chacha.py:24`, and `trng_managed.py:224`), but the interval can be exceeded by any number:
  count and interval are compared for equality (395), so that an interval set to a count that was passed already switches reseeding off until it is raised (`RotationDue` without `lowered`
  is violated), and blocks are still asked for while RUN_RESEED waits for its word (402). `RotationDue` says what holds: at the interval a reseed is under way.
* `selfmix`, on by default, forces a round at any time (`chacha.py:383`, `chacha_core.v:284`) and with it rewrites a block that is announced and not yet copied: the words served are
  then those of the rewritten block. The timing exception at `chacha.py:490–492` rests on "the valid pulse is pipelined so there are oodles of setup/hold time", which holds for announced
  blocks and not for a forced round at the edge that copies; the models copy the register as a whole. A forced round in CTRL_INIT also cancels the loading of the
  initial state (408). `NoBlockSkipped` says what holds: rounds of an unfinished block are never copied, and no block is passed over.
* The test of a write into the FIFOs asks whether *some* source passes, not whether one that contributes does (`trng_managed.py:1248`, comment at 1234; TrngRefill with `Reconfigure = TRUE`).
* `WAIT_ON` does not look at `av_dis` (1203, comment at 1237): switching the avalanche generator off while the refill waits for it hangs the refill.
* With autohold on and a driver that does not look at `hold`, the start edge is forgotten and `tip` stays set (`spi_7series.py:116`, 66; ComLink with `CheckHold = FALSE`).
* A word that the EC writes between load and end of a transaction of an empty FIFO is popped unsent and no underflow is recorded (`spi_ice40.py:347`, 238).
* `RepCountTest` and `AdaptivePropTest` count from 0 (`trng_managed.py:286`, 380) where the algorithms in their documentation count from 1 and fail at B ≥ C (240–250, 319–327): they allow one equal sample
  more. The last sample of a proportion window is not judged (388), and without power START drops a failure that is documented to latch (344). `TestsExact` therefore compares with the
  documented tests for a cutoff higher by one and a window shorter by one, and says so.
* `MiniRuns`: `initcount` counts cycles, not samples (553). A window has `window` + 1 samples; the run that its last sample ends is not counted (608), nor, but for the first
  window, the one that its first sample ends (615). A longer run is counted as one of every shorter length too (618), where the registers are documented to
  count sequences of a length. `runs_fail` is asserted again after `clr_err` until the next window.
* `ModNoise` keeps `rand` and `rand_cnt` when it is switched off (1954): the first word afterwards mixes old bits with new ones.
* SHA-512: `sha512_done` stays pending until software clears it (`sha512_opentitan.py:118`). If a hash ends while a reset is on its way and software does not clear the event after the
  reset, the next message's poll returns at once with a wrong digest (Sha512 with `Clears = FALSE` violates `HashCorrect`); the driver clears it in `reset` and in `finish`.
* SHA-512: a word written to an odd address is cleared a cycle later and never reaches the packer (40–45), although "top word must be written first" (23) presents it as the
  upper half of the transfer; the driver writes even addresses only. `err_valid` is never driven; `sha_en = 0` clears neither FIFO nor packer; `wdata_avail` compares the
  wrong way by precedence (23), `wdata_ready` is unused.
* Keyboard: the shadow takes the scan that is in progress when the acknowledgement arrives, not the one that software has read (`keyboard.py:148–151`). If keys move between the
  two, the change is in the shadow unseen and is not reported until another key moves. `ShadowIsAsked` says what the shadow is; `KeysKnown` names the case (`rowshadow = keys`).
* TickTimer: a second write of `msleep_target` in the cycle in which the pong arrives, or before the next edge of the always-on clock, has its pulse swallowed by the transfer that is
  still busy, while `lockout_alarm` is set (`ticktimer.py:133–153`): the alarm never comes until a later write that meets the transfer at rest. `AlarmComes` leaves these
  writes out by `hasty` and is violated without it.
* Memory LCD: with prescalers 0 and 1 SCLK never rises, with 2 and 3 `clkcnt` wraps; a bit takes prescaler + 2 cycles
  (`memlcd.py:190`: "LCD clock is module (clock / (prescaler+1))").
* I2C: `TIP` follows the command a cycle late and does not cover a STOP alone (`core.py:172`), so a driver must wait for the flag, not for TIP.
* I2C: `Busy` is described as "I2C block is busy processing the latest command" (`core.py:52`), but it is set from START to STOP (`bit_ctrl.v:285`): after a WRITE without STOP the
  command is over and the bit still set. `BusyFollowsBus` is about what the bit does.
* SRAM: a configuration read asked for in the IDLE cycle that finds a request is forgotten, while the override stays set: every later access goes to the configuration address
  (`sram_32_cached.py:260`; Sram with `Exclusive = FALSE`). A request that waits while CFGRD1–3 read sets `sync_oe` (168): controller and chip drive the
  data pins together, the mode read is arbitrary, and nothing in the code prevents it; `OneDriver` leaves the configuration address out. CFGWR1 drives no data unless a request waits.
* TRD's notes reduce from low bits "greater than or equal to 0x1D" (`engine.py:425`); the prime's low five bits, and the code (436), have 0x0D.
* `SUB #FIELDPRIME, 0`, the prescribed negation, gives the prime instead of 0 (`engine.py:363`); the sequences for subtraction end in a reduction and are right.
* `advance_a` "advances the value of output_a" (`chacha/chacha.py:26`), but not if the read comes in the first cycle of a word (75):
  the testbench, which reads without polling (`src/sim/trng_managed/testbench/src/main.rs:66`), can see a word twice. `FreshWords` holds for readers that poll.
* The FIFOs' `rden` registers keep their value while the FIFO is empty, so `rderr` is a level that
  lasts until the next word, not an event per read (comment at `trng_managed.py:1138`).
  `server_fifo_rden` is gated by `~empty`, so `server_underrun` cannot count (1049–1063).
* `tx_over.flag` is only ever assigned 1 (`spi_ice40.py:311`): cleared, the overflow returns (222).
* Both excursion tests are assigned to `ev.excursion0.trigger` and the later assignment counts (`trng_managed.py:212`): a failure of core 0 triggers nothing, one of core 1 the
  event of core 0, and `excursion1` never fires (described at 196).
* `keyrom.py:95` reports `lockstat` inverted with respect to line 20.
* `mpresume` of the engine is never written (`engine.py:1527`, used at 1800): a resume after suspend restarts at 0.
* `status.running` is documented to stall all bus accesses to registers and microcode (`engine.py:1565`); those to the microcode
  memory are not gated by it (1664–1687), so code can be changed under the running engine.
* `micro_rdack` is 0 after reset and only set to its wait states by a bus cycle that addresses the microcode without an access
  (1676–1685): a first read may be acknowledged before the memory has answered.
* With `mplen = 0`, `mpc_stop` is the word before `mpstart` (1804): a program at 0 runs through the whole memory.
* A `BRZ` to the last instruction of a program is refused, the comparison with `mpc_stop` being strict (`engine.py:1853`).

## Further work

1. Microcode access over the bus, clock gating and resume after suspend of the engine.
2. Performance counter, the always-on timer, and one parameterised model of the AES and SHA-256 wrappers' transfers.
