------------------------ MODULE ChaChaOutput_proofs ------------------------
(***************************************************************************)
(* Proofs about ChaChaOutput, for every block size and number of blocks:   *)
(* what the registers hold, the one block on its way between core and      *)
(* buffer, and, at the end, that the module implements FreshStream when    *)
(* software polls first.                                                   *)
(***************************************************************************)
EXTENDS ChaChaOutput, TLAPS

(* What the registers between the core and the holding buffer know: a block *)
(* that is announced, or waits, is a block, neither the reset value nor     *)
(* rounds that are not finished.                                            *)
BlockKnown ==
  /\ core = "DONE" => data_out_50 = finished /\ finished # 0
  /\ valid_r \/ holding_buf_load \/ saw_load => data_out # 0

(* The holding buffer: loaded whole before INIT deals from it, and never    *)
(* reloaded by a passing holding_buf_load afterwards.                       *)
BufferInv ==
  /\ hold_init <=> holdfsm \in {"OUTPUT", "WAIT"}
  /\ holding_buf_load => valid_r2
  /\ holdfsm = "INIT" => /\ ~holding_buf_load
                         /\ \A i \in 1..W : holding_buf[i] = <<loaded, i>>
  /\ holdfsm \in {"INIT", "OUTPUT"} => loaded # 0
  /\ BufferCountsItsWords

(* Whatever is marked valid on its way to the CPU is a word of a block. *)
ValidIsWord == \A p \in Port : /\ valid_local[p] => output_local[p] \in Word
                               /\ valid[p] => output[p] \in Word
                               /\ polled[p] => valid[p]

Inv == TypeOK /\ BlockKnown /\ BufferInv /\ ValidIsWord

(* The block on its way, as a token: it is asleep until the seeding is over, *)
(* and then asked for, being computed, or arriving.                          *)

Requestless == advfsm = "WAITING" /\ ~next /\ next_xfer = "idle"
Landless == ~holding_buf_load /\ ~saw_load

Asleep ==
  /\ core = "IDLE" /\ Requestless /\ Landless /\ ~valid_r /\ ~valid_r2
  /\ holdfsm = "RESET" /\ loaded = 0 /\ finished = 0 /\ data_out_50 = 0

Requested ==
  /\ core = "DONE" /\ valid_r /\ valid_r2 /\ Landless
  /\ holdfsm \in {"OUTPUT", "WAIT"} /\ loaded = finished
  /\ \/ advfsm = "WAIT_READY" /\ ~next /\ next_xfer = "idle"
     \/ advfsm = "WAITING" /\ next /\ next_xfer = "idle"
     \/ advfsm = "WAITING" /\ ~next /\ next_xfer = "req"

Computing ==
  /\ core = "BUSY" /\ (valid_r => valid_r2) /\ Landless
  /\ advfsm = "WAITING" /\ ~next /\ next_xfer # "req"
  /\ holdfsm # "INIT" /\ (holdfsm = "RESET" => loaded = 0)
  /\ loaded = finished

Arriving ==
  /\ core = "DONE" /\ Requestless
  /\ holdfsm = "RESET" => loaded = 0
  /\ finished = loaded + 1
  /\ \/ ~valid_r /\ Landless /\ holdfsm # "INIT"
     \/ valid_r /\ ~valid_r2 /\ Landless /\ data_out = finished /\ holdfsm # "INIT"
     \/ /\ valid_r /\ valid_r2 /\ data_out = finished
        /\ holding_buf_load /\ ~saw_load /\ holdfsm # "INIT"

Waiting ==
  /\ core = "DONE" /\ Requestless /\ valid_r /\ valid_r2
  /\ ~holding_buf_load /\ saw_load
  /\ data_out = finished
  /\ \/ holdfsm = "INIT" /\ loaded = finished
     \/ holdfsm \in {"OUTPUT", "WAIT"} /\ finished = loaded + 1

Token == Asleep \/ Requested \/ Computing \/ Arriving \/ Waiting

-----------------------------------------------------------------------------
(* A word of the block n. *)
LEMMA BlockWordType ==
  ASSUME NEW n \in 1..MaxBlocks
  PROVE  BlockWords(n) \in [1..W -> Word]
BY WAssumption, BlocksAssumption DEF BlockWords, Word

(* Out of reset no word is valid, and the bookkeeping of the ports is empty. *)
LEMMA InitInv == Init => Inv
<1> SUFFICES ASSUME Init PROVE Inv
  OBVIOUS
<1>a. /\ pipe \in [Port -> {"FILL", "PIPE"}]
      /\ valid \in [Port -> BOOLEAN] /\ valid_local \in [Port -> BOOLEAN]
      /\ advance_local \in [Port -> BOOLEAN] /\ polled \in [Port -> BOOLEAN]
      /\ output \in [Port -> Word \union {sentinel}]
      /\ output_local \in [Port -> Word \union {sentinel}]
      /\ holding_buf \in [1..W -> Word \union {sentinel}]
  BY DEF Init
<1>b. rd \in {Quiet, Busy} /\ taken \subseteq Word
  BY DEF Init
<1>c. 0 \in 0..W /\ 0 \in 0..MaxBlocks
  BY WAssumption, BlocksAssumption
<1>1. TypeOK
  BY <1>a, <1>b, <1>c DEF Init, TypeOK
<1>2. BlockKnown /\ BufferInv /\ ValidIsWord
  BY DEF Init, BlockKnown, BufferInv, BufferCountsItsWords, ValidIsWord
<1> QED BY <1>1, <1>2 DEF Inv

(* The port pipelines move words, they do not make any. *)
LEMMA OutPipesInv ==
  ASSUME Inv, NEW adv, OutPipes(adv)
  PROVE  /\ pipe' \in [Port -> {"FILL", "PIPE"}]
         /\ output' \in [Port -> Word \union {sentinel}]
         /\ valid' \in [Port -> BOOLEAN]
         /\ advance_local' \in [Port -> BOOLEAN]
         /\ \A p \in Port : valid'[p] => output'[p] \in Word
<1> USE DEF Inv, TypeOK
<1>1. pipe' \in [Port -> {"FILL", "PIPE"}]
  BY DEF OutPipes, NextPipe
<1>2. output' \in [Port -> Word \union {sentinel}]
  BY DEF OutPipes, NextPipe
<1>3. ASSUME NEW p \in Port PROVE Capture(adv, p) \in BOOLEAN
  <2>1. CASE pipe[p] = "FILL"
    BY <2>1, Zenon DEF Capture
  <2>2. CASE pipe[p] # "FILL"
    <3>1. (p \in adv) \in BOOLEAN
      OBVIOUS
    <3> QED BY <2>2, <3>1, Zenon DEF Capture
  <2> QED BY <2>1, <2>2
<1>4. valid' \in [Port -> BOOLEAN] /\ advance_local' \in [Port -> BOOLEAN]
  BY <1>3 DEF OutPipes
<1>5. \A p \in Port : valid'[p] => output'[p] \in Word
  BY DEF OutPipes, ValidIsWord
<1> QED BY <1>1, <1>2, <1>4, <1>5

(* The registers between the core and the buffer. *)
LEMMA SyncInv ==
  ASSUME Inv, Token, NEW tick \in BOOLEAN, Resync, Clk50(tick), HoldingBuf
  PROVE  /\ next_xfer' \in {"idle", "req", "ack"}
         /\ core' \in {"IDLE", "BUSY", "DONE"}
         /\ finished' \in 0..MaxBlocks
         /\ data_out_50' \in 0..MaxBlocks /\ data_out' \in 0..MaxBlocks
         /\ ready' \in BOOLEAN /\ valid_r' \in BOOLEAN /\ valid_r2' \in BOOLEAN
         /\ holding_buf_load' \in BOOLEAN
         /\ BlockKnown'
<1> USE DEF Inv, TypeOK
<1>1. /\ next_xfer' \in {"idle", "req", "ack"}
      /\ core' \in {"IDLE", "BUSY", "DONE"}
      /\ finished' \in 0..MaxBlocks /\ data_out_50' \in 0..MaxBlocks
      /\ core' = "DONE" => data_out_50' = finished' /\ finished' # 0
  BY BlocksAssumption
     DEF Clk50, CoreInit, CoreNext, XferAck, CoreFinish, Clk50Idle, XferCapture, ForceRound, BlockKnown
<1>2. /\ data_out' \in 0..MaxBlocks
      /\ ready' \in BOOLEAN /\ valid_r' \in BOOLEAN /\ valid_r2' \in BOOLEAN
      /\ holding_buf_load' \in BOOLEAN
  BY DEF Resync
<1>3. saw_load' => saw_load \/ holding_buf_load
  BY DEF HoldingBuf, SawLoad
<1>4. holding_buf_load' => valid_r /\ ~valid_r2
  BY DEF Resync
<1>5. valid_r' => core = "DONE"
  BY DEF Resync
<1>6. (valid_r /\ ~valid_r2) \/ saw_load \/ holding_buf_load => core = "DONE"
  BY DEF Token, Asleep, Requested, Computing, Arriving, Waiting, Landless
<1>7. core = "DONE" => data_out' # 0
  BY DEF Resync, BlockKnown
<1>8. BlockKnown'
  BY <1>1, <1>3, <1>4, <1>5, <1>6, <1>7 DEF BlockKnown
<1> QED BY <1>1, <1>2, <1>8

(* The head of the buffer, from which words are dealt. *)
LEMMA BufferHead ==
  ASSUME Inv
  PROVE  /\ holding_buf[1] \in Word \union {sentinel}
         /\ holding_buf[2] \in Word \union {sentinel}
         /\ holdfsm = "INIT" => holding_buf[1] \in Word /\ holding_buf[2] \in Word
         /\ holdfsm = "OUTPUT" => holding_buf[1] \in Word
         /\ holdfsm = "OUTPUT" /\ words_remaining >= 2 => holding_buf[2] \in Word
<1> USE WAssumption, BlocksAssumption DEF Inv, TypeOK
<1>1. 1 \in 1..W /\ 2 \in 1..W
  OBVIOUS
<1>2. loaded # 0 => \A i \in 1..W : <<loaded, i>> \in Word
  BY DEF Word
<1>3. holdfsm = "INIT" => holding_buf[1] \in Word /\ holding_buf[2] \in Word
  BY <1>1, <1>2 DEF BufferInv
<1>4. ASSUME NEW i \in 1..2, holdfsm = "OUTPUT", words_remaining >= i
      PROVE  holding_buf[i] \in Word
  <2>1. W - words_remaining + i \in 1..W /\ i \in 1..words_remaining
    BY <1>4
  <2>2. holding_buf[i] = <<loaded, W - words_remaining + i>> /\ loaded # 0
    BY <1>4, <2>1 DEF BufferInv, BufferCountsItsWords
  <2> QED BY <1>2, <2>1, <2>2
<1>5. holdfsm = "OUTPUT" => words_remaining >= 1
  BY DEF BufferInv, BufferCountsItsWords
<1> QED BY <1>1, <1>3, <1>4, <1>5

(* What the holding machine leaves in the local words is what it says it is. *)
LEMMA HoldFsmInv ==
  ASSUME Inv, HoldFsm
  PROVE  /\ holdfsm' \in {"RESET", "INIT", "OUTPUT", "WAIT"}
         /\ hold_init' \in BOOLEAN
         /\ hold_init' <=> holdfsm' \in {"OUTPUT", "WAIT"}
         /\ words_remaining' \in 0..W
         /\ valid_local' \in [Port -> BOOLEAN]
         /\ output_local' \in [Port -> Word \union {sentinel}]
         /\ \A p \in Port : valid_local'[p] => output_local'[p] \in Word
<1> DEFINE Goal ==
         /\ holdfsm' \in {"RESET", "INIT", "OUTPUT", "WAIT"}
         /\ hold_init' \in BOOLEAN
         /\ hold_init' <=> holdfsm' \in {"OUTPUT", "WAIT"}
         /\ words_remaining' \in 0..W
         /\ valid_local' \in [Port -> BOOLEAN]
         /\ output_local' \in [Port -> Word \union {sentinel}]
         /\ \A p \in Port : valid_local'[p] => output_local'[p] \in Word
<1> USE WAssumption, BufferHead DEF Inv, TypeOK
<1>1. CASE HoldReset
  <2>1. /\ holdfsm' \in {"RESET", "INIT"} /\ words_remaining' = 0
        /\ hold_init' = FALSE /\ output_local' = output_local
    BY <1>1, Zenon DEF HoldReset
  <2>3. hold_init' \in BOOLEAN /\ (hold_init' <=> holdfsm' \in {"OUTPUT", "WAIT"})
    BY <2>1
  <2>2. valid_local' \in [Port -> BOOLEAN] /\ \A p \in Port : ~valid_local'[p]
    BY <1>1 DEF HoldReset
  <2> QED BY <2>1, <2>2, <2>3
<1>2. CASE HoldInit
  <2>1. /\ holdfsm' = "OUTPUT" /\ words_remaining' \in 0..W
        /\ hold_init' /\ hold_init' \in BOOLEAN
    BY <1>2 DEF HoldInit
  <2>2. /\ valid_local' \in [Port -> BOOLEAN]
        /\ output_local' \in [Port -> Word \union {sentinel}]
        /\ \A p \in Port : output_local'[p] \in Word
    BY <1>2 DEF HoldInit
  <2> QED BY <2>1, <2>2
<1>3. CASE HoldWait
  <2>1. holdfsm' \in {"OUTPUT", "WAIT"} /\ words_remaining' \in 0..W
    BY <1>3 DEF HoldWait
  <2>2. hold_init' /\ hold_init' \in BOOLEAN
    BY <1>3 DEF HoldWait, BufferInv
  <2>3. valid_local' \in [Port -> BOOLEAN] /\ output_local' \in [Port -> Word \union {sentinel}]
    BY <1>3 DEF HoldWait
  <2>4. \A p \in Port : valid_local'[p] => output_local'[p] \in Word
    BY <1>3 DEF HoldWait, ValidIsWord
  <2> QED BY <2>1, <2>2, <2>3, <2>4
<1>4. ASSUME NEW n \in 0..2, Deal(n), holdfsm = "OUTPUT",
             Exhausting \/ words_remaining >= n
      PROVE  /\ holdfsm' \in {"OUTPUT", "WAIT"} /\ words_remaining' \in 0..W
             /\ hold_init' /\ hold_init' \in BOOLEAN
  BY <1>4 DEF Deal, BufferInv
<1>5. ASSUME NEW p \in Port, OutputOne(p) PROVE Goal
  <2>1. Exhausting \/ words_remaining >= 1
    BY <1>5 DEF BufferInv, BufferCountsItsWords, OutputOne
  <2>2. /\ holdfsm' \in {"OUTPUT", "WAIT"} /\ words_remaining' \in 0..W
        /\ hold_init' /\ hold_init' \in BOOLEAN
    BY <2>1, <1>4, <1>5 DEF OutputOne
  <2> QED BY <1>5, <2>2 DEF OutputOne, ValidIsWord
<1>6. CASE OutputBoth
  <2>1. /\ holdfsm' \in {"OUTPUT", "WAIT"} /\ words_remaining' \in 0..W
        /\ hold_init' /\ hold_init' \in BOOLEAN
    BY <1>4, <1>6 DEF OutputBoth
  <2> QED BY <1>6, <2>1 DEF OutputBoth
<1>7. CASE OutputScarce
  <2>1. holdfsm' = "WAIT" /\ words_remaining' \in 0..W
    BY <1>7 DEF OutputScarce
  <2>2. hold_init' /\ hold_init' \in BOOLEAN
    BY <1>7 DEF OutputScarce, BufferInv
  <2>3. valid_local' \in [Port -> BOOLEAN] /\ output_local' \in [Port -> Word \union {sentinel}]
    BY <1>7 DEF OutputScarce
  <2>4. \A p \in Port : valid_local'[p] => output_local'[p] \in Word
    BY <1>7 DEF OutputScarce
  <2> QED BY <2>1, <2>2, <2>3, <2>4
<1>8. CASE OutputNone
  <2>1. /\ holdfsm' \in {"OUTPUT", "WAIT"} /\ words_remaining' \in 0..W
        /\ hold_init' /\ hold_init' \in BOOLEAN
    BY <1>4, <1>8 DEF OutputNone
  <2> QED BY <1>8, <2>1 DEF OutputNone, ValidIsWord
<1> QED BY <1>1, <1>2, <1>3, <1>5, <1>6, <1>7, <1>8 DEF HoldFsm

(* How far the buffer moves on. *)
LEMMA ShiftValue ==
  /\ holdfsm = "INIT" => Shift = 2
  /\ holdfsm = "OUTPUT" /\ Wanting = Port /\ words_remaining > 2 => Shift = 2
  /\ holdfsm = "OUTPUT" /\ Wanting \notin {Port, {}} => Shift = 1
  /\ holdfsm = "OUTPUT" /\ Wanting = {} => Shift = 0
  /\ Shift \in {0, 1, 2}
<1>1. Port # {}
  BY DEF Port
<1> QED BY <1>1 DEF Shift

(* A load replaces the whole buffer, every other cycle moves it on. *)
LEMMA HoldingBufInv ==
  ASSUME Inv, HoldingBuf
  PROVE  /\ holding_buf' \in [1..W -> Word \union {sentinel}]
         /\ loaded' \in 0..MaxBlocks
         /\ saw_load' \in BOOLEAN
         /\ (holding_buf_load /\ ~hold_init) \/ holdfsm_load
              => /\ loaded' = data_out /\ loaded' # 0
                 /\ \A i \in 1..W : holding_buf'[i] = <<loaded', i>>
         /\ ~((holding_buf_load /\ ~hold_init) \/ holdfsm_load)
              => /\ loaded' = loaded
                 /\ \A i \in 1..W : i + Shift <= W => holding_buf'[i] = holding_buf[i + Shift]
<1> DEFINE load == (holding_buf_load /\ ~hold_init) \/ holdfsm_load
<1> USE DEF Inv, TypeOK
<1>1. saw_load' \in BOOLEAN
  BY DEF HoldingBuf, SawLoad, advance_block, holdfsm_load, Exhausting
<1>2. CASE load
  <2>1. data_out \in 1..MaxBlocks
    BY <1>2, BlocksAssumption DEF BlockKnown, holdfsm_load
  <2>2. holding_buf' = BlockWords(data_out) /\ loaded' = data_out
    BY <1>2 DEF HoldingBuf
  <2>3. \A i \in 1..W : holding_buf'[i] = <<loaded', i>>
    BY <2>2 DEF BlockWords
  <2>4. holding_buf' \in [1..W -> Word \union {sentinel}]
    BY <2>1, <2>2, BlockWordType
  <2> QED BY <1>1, <1>2, <2>1, <2>2, <2>3, <2>4
<1>3. CASE ~load
  <2>1. /\ holding_buf' = [i \in 1..W |-> IF i + Shift <= W THEN holding_buf[i + Shift]
                                                          ELSE sentinel]
        /\ loaded' = loaded
    BY <1>3 DEF HoldingBuf
  <2>2. \A i \in 1..W : i + Shift <= W => i + Shift \in 1..W
    BY ShiftValue, WAssumption
  <2> QED BY <1>1, <1>3, <2>1, <2>2
<1> QED BY <1>2, <1>3

-----------------------------------------------------------------------------
(* A shift by up to two words stays inside the block and the words behind it. *)
LEMMA Offset == \A w \in Nat, n \in 0..2 : \A i \in 1..w : i + n \in 1..(w + n)
OBVIOUS

(* The words the buffer counts stay the tail of the block it loaded. *)
LEMMA BufferInvStep ==
  ASSUME Inv, HoldFsm, HoldingBuf, Resync
  PROVE  BufferInv'
<1> DEFINE load == (holding_buf_load /\ ~hold_init) \/ holdfsm_load
           Tail == /\ words_remaining' \in 1..W /\ loaded' # 0
                   /\ \A i \in 1..words_remaining' :
                        holding_buf'[i] = <<loaded', W - words_remaining' + i>>
           Goal == /\ holdfsm' = "INIT" =>
                        /\ ~holding_buf_load' /\ loaded' # 0
                        /\ \A i \in 1..W : holding_buf'[i] = <<loaded', i>>
                   /\ holdfsm' = "OUTPUT" => Tail
<1> USE WAssumption
<1>1. holding_buf_load' => valid_r2'
  BY DEF Resync, Inv, TypeOK
<1>2. holding_buf_load => ~holding_buf_load'
  BY DEF Resync, Inv, TypeOK, BufferInv
<1>3. hold_init' <=> holdfsm' \in {"OUTPUT", "WAIT"}
  BY HoldFsmInv
<1>4. holdfsm \in {"RESET", "INIT"} => ~holdfsm_load
  BY DEF holdfsm_load, Exhausting
<1>5. hold_init \/ ~holding_buf_load => (load <=> holdfsm_load)
  OBVIOUS
<1>a. SUFFICES Goal
  BY <1>1, <1>3 DEF BufferInv, BufferCountsItsWords
<1>6. ASSUME load, words_remaining' = W, holdfsm' = "OUTPUT" PROVE Goal
  BY <1>6, HoldingBufInv
<1>7. ASSUME ~load, NEW n \in 0..2, Shift = n, holdfsm' = "OUTPUT",
             words_remaining' \in 1..(W - n), loaded # 0,
             \A i \in 1..(words_remaining' + n) :
               holding_buf[i] = <<loaded, W - words_remaining' - n + i>>
      PROVE  Goal
  <2>1. loaded' = loaded /\ \A i \in 1..W : i + n <= W => holding_buf'[i] = holding_buf[i + n]
    BY <1>7, HoldingBufInv
  <2>2. words_remaining' \in 1..W
    BY <1>7
  <2>3. ASSUME NEW i \in 1..words_remaining'
        PROVE  holding_buf'[i] = <<loaded', W - words_remaining' + i>>
    <3>1. i \in 1..W /\ i + n <= W
      BY <1>7
    <3>2. i + n \in 1..(words_remaining' + n)
      <4>1. words_remaining' \in Nat
        BY <2>2
      <4>2. n \in 0..2
        OBVIOUS
      <4>3. i \in 1..words_remaining'
        OBVIOUS
      <4> QED BY <4>1, <4>2, <4>3, Offset, Zenon
    <3>3. W - words_remaining' - n + (i + n) = W - words_remaining' + i
      BY <1>7
    <3> QED BY <1>7, <2>1, <3>1, <3>2, <3>3
  <2> QED BY <1>7, <2>1, <2>2, <2>3
<1>8. CASE HoldReset
  <2>1. holdfsm' = "INIT" => load /\ ~holding_buf_load'
    BY <1>2, <1>8 DEF HoldReset, Inv, BufferInv
  <2>2. holdfsm' \in {"RESET", "INIT"}
    BY <1>8 DEF HoldReset
  <2> QED BY <2>1, <2>2, HoldingBufInv
<1>9. CASE HoldInit
  <2>1. ~load
    BY <1>4, <1>9 DEF HoldInit, Inv, BufferInv
  <2>2. /\ Shift = 2 /\ holdfsm' = "OUTPUT" /\ words_remaining' = W - 2 /\ loaded # 0
        /\ \A i \in 1..W : holding_buf[i] = <<loaded, i>>
    BY <1>9, ShiftValue DEF HoldInit, Inv, BufferInv
  <2> QED BY <1>7, <2>1, <2>2
<1>10. CASE HoldWait
  <2>1. load <=> saw_load
    BY <1>10 DEF HoldWait, Inv, BufferInv, holdfsm_load
  <2> QED BY <1>6, <1>10, <2>1 DEF HoldWait
<1>11. ASSUME holdfsm = "OUTPUT"
       PROVE  /\ load <=> holdfsm_load
              /\ words_remaining \in 1..W /\ loaded # 0
              /\ \A i \in 1..words_remaining :
                   holding_buf[i] = <<loaded, W - words_remaining + i>>
  BY <1>5, <1>11 DEF Inv, BufferInv, BufferCountsItsWords
<1>12. ASSUME NEW n \in 0..2, Deal(n), holdfsm = "OUTPUT",
              ~Exhausting => Shift = n /\ words_remaining > n
       PROVE  Goal
  <2>1. CASE saw_load /\ Exhausting
    BY <1>6, <1>11, <1>12, <2>1 DEF Deal, holdfsm_load
  <2>2. CASE Exhausting /\ ~saw_load
    BY <1>12, <2>2 DEF Deal
  <2>3. CASE ~Exhausting
    <3>1. ~load /\ words_remaining' = words_remaining - n /\ holdfsm' = "OUTPUT"
      BY <1>11, <1>12, <2>3 DEF Deal, holdfsm_load
    <3>2. words_remaining' \in 1..(W - n) /\ words_remaining' + n = words_remaining
      BY <1>11, <1>12, <2>3, <3>1
    <3>3. ASSUME NEW i \in 1..(words_remaining' + n)
          PROVE  holding_buf[i] = <<loaded, W - words_remaining' - n + i>>
      <4>1. W - words_remaining' - n + i = W - words_remaining + i
        BY <1>11, <1>12, <3>1, <3>2
      <4> QED BY <1>11, <1>12, <3>2, <4>1
    <3> QED BY <1>7, <1>11, <1>12, <2>3, <3>1, <3>2, <3>3
  <2> QED BY <2>1, <2>2, <2>3
<1>13. ASSUME NEW p \in Port, OutputOne(p) PROVE Goal
  <2>1. {p} \notin {Port, {}}
    BY DEF Port
  <2> QED BY <1>11, <1>12, <1>13, <2>1, ShiftValue DEF OutputOne, Exhausting
<1>14. CASE OutputBoth
  BY <1>11, <1>12, <1>14, ShiftValue DEF OutputBoth, Exhausting
<1>15. CASE OutputScarce
  BY <1>15 DEF OutputScarce
<1>16. CASE OutputNone
  BY <1>11, <1>12, <1>16, ShiftValue DEF OutputNone
<1> QED BY <1>8, <1>9, <1>10, <1>13, <1>14, <1>15, <1>16 DEF HoldFsm

-----------------------------------------------------------------------------
(* The machine that advances the blocks stays in its two states. *)
LEMMA AdvFsmType ==
  ASSUME Inv, AdvFsm
  PROVE  advfsm' \in {"WAITING", "WAIT_READY"} /\ next' \in BOOLEAN
BY DEF Inv, TypeOK, AdvFsm

(* A cycle of the hardware, whatever the CPU does in it. *)
LEMMA CycleInv ==
  ASSUME Inv, Token, NEW adv, NEW tick \in BOOLEAN, Cycle(adv, tick),
         polled' \in [Port -> BOOLEAN], taken' \subseteq Word,
         rd' \in [port : Port, word : Word \union {sentinel}] \union {Quiet, Busy},
         \A p \in Port : polled'[p] => valid'[p]
  PROVE  Inv'
<1> USE DEF Cycle
<1>1. TypeOK'
  BY OutPipesInv, SyncInv, HoldFsmInv, HoldingBufInv, AdvFsmType DEF TypeOK
<1>2. BlockKnown'
  BY SyncInv
<1>3. BufferInv'
  BY BufferInvStep
<1>4. ValidIsWord'
  BY OutPipesInv, HoldFsmInv DEF ValidIsWord
<1> QED BY <1>1, <1>2, <1>3, <1>4 DEF Inv

(* A word that software has seen valid stays valid until it is taken. *)
LEMMA ValidStays ==
  ASSUME Inv, NEW adv, OutPipes(adv), NEW p \in Port, p \notin adv, valid[p]
  PROVE  valid'[p]
BY DEF OutPipes, Capture, Inv, TypeOK

(* A cycle keeps the invariant, whatever the ports ask for in it. *)
LEMMA NextInv == Inv /\ Token /\ [Next]_vars => Inv'
<1> SUFFICES ASSUME Inv, Token, [Next]_vars PROVE Inv'
  OBVIOUS
<1> USE DEF Inv, TypeOK
<1>1. ASSUME NEW tick \in BOOLEAN, NoAccess(tick) PROVE Inv'
  <2>1. \A p \in Port : polled'[p] => valid'[p]
    BY <1>1, ValidStays DEF NoAccess, Cycle, ValidIsWord
  <2> QED BY <1>1, <2>1, CycleInv DEF NoAccess
<1>2. ASSUME NEW tick \in BOOLEAN, Simultaneous(tick) PROVE Inv'
  <2>1. \A p \in Port : ~polled'[p]
    BY <1>2 DEF Simultaneous
  <2> QED BY <1>2, <2>1, CycleInv DEF Simultaneous
<1>3. ASSUME NEW tick \in BOOLEAN, NEW p \in Port, Poll(p, tick) PROVE Inv'
  <2>1. \A q \in Port : polled'[q] => valid[q]
    BY <1>3 DEF Poll, ValidIsWord
  <2>2. \A q \in Port : polled'[q] => valid'[q]
    BY <1>3, <2>1, ValidStays DEF Poll, Cycle
  <2> QED BY <1>3, <2>2, CycleInv DEF Poll
<1>4. ASSUME NEW tick \in BOOLEAN, NEW p \in Port, Read(p, tick) PROVE Inv'
  <2>1. \A q \in Port : polled'[q] => valid[q] /\ q # p
    BY <1>4 DEF Read, ValidIsWord
  <2>2. \A q \in Port : polled'[q] => valid'[q]
    BY <1>4, <2>1, ValidStays DEF Read, Cycle
  <2>3. taken' \subseteq Word
    BY <1>4 DEF Read, ValidIsWord
  <2>4. /\ polled' \in [Port -> BOOLEAN]
        /\ rd' \in [port : Port, word : Word \union {sentinel}]
    BY <1>4 DEF Read
  <2> QED BY <1>4, <2>2, <2>3, <2>4, CycleInv DEF Read
<1>5. CASE UNCHANGED vars
  BY <1>5 DEF vars, pipeVars, holdVars, bufVars, syncVars, advVars, clk50Vars, busVars,
              BlockKnown, BufferInv, BufferCountsItsWords, ValidIsWord
<1> QED BY <1>1, <1>2, <1>3, <1>4, <1>5 DEF Next, Access

-----------------------------------------------------------------------------
(* Where the machine of the holding buffer can go from each of its states. *)
LEMMA HoldFsmNext ==
  ASSUME HoldFsm
  PROVE  /\ holdfsm = "RESET" => holdfsm' = IF holding_buf_load THEN "INIT" ELSE "RESET"
         /\ holdfsm = "INIT" => holdfsm' = "OUTPUT"
         /\ holdfsm \in {"OUTPUT", "WAIT"} => holdfsm' \in {"OUTPUT", "WAIT"}
BY DEF HoldFsm, HoldReset, HoldInit, HoldWait, OutputOne, OutputBoth, OutputScarce,
       OutputNone, Deal

(* When a load happens at all, and what it takes along. *)
LEMMA LoadNeeds ==
  ASSUME Inv
  PROVE  /\ holdfsm_load => saw_load /\ holdfsm \in {"OUTPUT", "WAIT"}
         /\ advance_block <=> holdfsm = "INIT" \/ holdfsm_load
         /\ holdfsm_load \in BOOLEAN /\ advance_block \in BOOLEAN
BY DEF holdfsm_load, Exhausting, advance_block, Inv, TypeOK

(* The token, which is the duty to bring the next block, is passed on and never lost. *)
LEMMA TokenStep ==
  ASSUME Inv, Token, NEW adv, NEW tick \in BOOLEAN, Cycle(adv, tick)
  PROVE  Token'
<1> USE DEF Inv, TypeOK, Requestless, Landless
<1> DEFINE load == (holding_buf_load /\ ~hold_init) \/ holdfsm_load
<1>1. /\ saw_load' <=> ~advance_block /\ (saw_load \/ holding_buf_load)
      /\ loaded' = IF load THEN data_out ELSE loaded
  BY LoadNeeds DEF Cycle, HoldingBuf, SawLoad
<1>2. /\ valid_r' <=> core = "DONE"
      /\ valid_r2' <=> valid_r
      /\ holding_buf_load' <=> valid_r /\ ~valid_r2
      /\ data_out' = data_out_50 /\ (core = "DONE" => data_out' = finished)
  BY DEF Cycle, Resync, BlockKnown
<1>3. AdvFsm /\ Clk50(tick) /\ HoldFsm
  BY DEF Cycle
<1>4. hold_init <=> holdfsm \in {"OUTPUT", "WAIT"}
  BY DEF BufferInv
<1>5. CASE Asleep
  <2>1. ~advance_block /\ ~load /\ holdfsm' = "RESET"
    BY <1>3, <1>5, LoadNeeds, HoldFsmNext DEF Asleep
  <2>2. advfsm' = "WAITING" /\ ~next'
    BY <1>3, <1>5, <2>1 DEF Asleep, AdvFsm
  <2>3. /\ core' \in {"IDLE", "BUSY"} /\ next_xfer' = "idle"
        /\ finished' = finished /\ data_out_50' = data_out_50
    BY <1>3, <1>5 DEF Asleep, Clk50, CoreInit, CoreNext, XferAck, CoreFinish, Clk50Idle,
                      XferCapture, ForceRound
  <2> QED BY <1>1, <1>2, <1>5, <2>1, <2>2, <2>3 DEF Asleep, Computing, Token
<1>6. CASE Requested
  <2>1. ~advance_block /\ ~load /\ holdfsm' \in {"OUTPUT", "WAIT"}
    BY <1>3, <1>4, <1>6, LoadNeeds, HoldFsmNext DEF Requested
  <2>2. ~holding_buf_load' /\ ~saw_load' /\ valid_r' /\ valid_r2' /\ loaded' = loaded
    BY <1>1, <1>2, <1>6, <2>1 DEF Requested
  <2>3. finished' = finished
    BY <1>3, <1>6 DEF Requested, Clk50, CoreInit, CoreNext, XferAck, CoreFinish, Clk50Idle
  <2>4. \/ /\ core' = "DONE"
           /\ \/ advfsm' = "WAIT_READY" /\ ~next' /\ next_xfer' = "idle"
              \/ advfsm' = "WAITING" /\ next' /\ next_xfer' = "idle"
              \/ advfsm' = "WAITING" /\ ~next' /\ next_xfer' = "req"
        \/ core' = "BUSY" /\ advfsm' = "WAITING" /\ ~next' /\ next_xfer' = "ack"
    BY <1>3, <1>6, <2>1 DEF Requested, AdvFsm, Clk50, CoreInit, CoreNext, XferAck,
                            CoreFinish, Clk50Idle, XferCapture
  <2> QED BY <1>6, <2>1, <2>2, <2>3, <2>4 DEF Requested, Computing, Token
<1>7. CASE Computing
  <2>1. /\ ~advance_block /\ ~load /\ (holdfsm' = "RESET" => holdfsm = "RESET")
        /\ holdfsm' # "INIT"
    BY <1>3, <1>4, <1>7, LoadNeeds, HoldFsmNext DEF Computing
  <2>2. ~holding_buf_load' /\ ~saw_load' /\ ~valid_r' /\ loaded' = loaded
    BY <1>1, <1>2, <1>7, <2>1 DEF Computing
  <2>3. advfsm' = "WAITING" /\ ~next'
    BY <1>3, <1>7, <2>1 DEF Computing, AdvFsm
  <2>4. /\ next_xfer' # "req"
        /\ \/ core' = "BUSY" /\ finished' = finished
           \/ core' = "DONE" /\ next_xfer' = "idle" /\ finished' = finished + 1
    BY <1>3, <1>7 DEF Computing, Clk50, CoreInit, CoreNext, XferAck, CoreFinish, Clk50Idle,
                      XferCapture
  <2> QED BY <1>7, <2>1, <2>2, <2>3, <2>4 DEF Computing, Arriving, Token
<1>8. ASSUME core = "DONE", Requestless
      PROVE  /\ core' = "DONE" /\ next_xfer' = "idle" /\ finished' = finished /\ ~next'
             /\ advfsm' = IF advance_block THEN "WAIT_READY" ELSE "WAITING"
  BY <1>3, <1>8 DEF AdvFsm, Clk50, CoreInit, CoreNext, XferAck, CoreFinish, Clk50Idle,
                    XferCapture
<1>9. CASE Arriving
  <2>1. ~advance_block /\ ~holdfsm_load
    BY <1>9, LoadNeeds DEF Arriving
  <2>2. Requestless' /\ core' = "DONE" /\ finished' = finished
    BY <1>8, <1>9, <2>1 DEF Arriving
  <2>3. CASE ~holding_buf_load
    <3>1. loaded' = loaded /\ ~saw_load' /\ holdfsm' # "INIT"
      BY <1>1, <1>3, <1>9, <2>1, <2>3, HoldFsmNext DEF Arriving
    <3>2. holdfsm' = "RESET" => holdfsm = "RESET"
      BY <1>3, HoldFsmNext
    <3> QED BY <1>2, <1>9, <2>2, <2>3, <3>1, <3>2 DEF Arriving, Token
  <2>4. CASE holding_buf_load
    <3>1. ~holding_buf_load' /\ saw_load' /\ valid_r' /\ valid_r2' /\ data_out' = finished
      BY <1>1, <1>2, <1>9, <2>1, <2>4 DEF Arriving
    <3>2. CASE holdfsm = "RESET"
      BY <1>1, <1>3, <1>4, <1>9, <2>2, <2>4, <3>1, <3>2, HoldFsmNext DEF Arriving, Waiting, Token
    <3>3. CASE holdfsm # "RESET"
      BY <1>1, <1>3, <1>4, <1>9, <2>1, <2>2, <2>4, <3>1, <3>3, HoldFsmNext
         DEF Arriving, Waiting, Token
    <3> QED BY <3>2, <3>3
  <2> QED BY <2>3, <2>4
<1>10. CASE Waiting
  <2>1. /\ core' = "DONE" /\ next_xfer' = "idle" /\ finished' = finished /\ ~next'
        /\ advfsm' = IF advance_block THEN "WAIT_READY" ELSE "WAITING"
    BY <1>8, <1>10 DEF Waiting
  <2>2. /\ ~holding_buf_load' /\ valid_r' /\ valid_r2' /\ data_out' = finished
        /\ holdfsm' \in {"OUTPUT", "WAIT"}
    BY <1>2, <1>3, <1>10, HoldFsmNext DEF Waiting
  <2>3. CASE advance_block
    <3>1. ~saw_load' /\ loaded' = finished
      BY <1>1, <1>10, <2>3, LoadNeeds DEF Waiting
    <3> QED BY <2>1, <2>2, <2>3, <3>1 DEF Requested, Token
  <2>4. CASE ~advance_block
    <3>1. holdfsm # "INIT" /\ saw_load' /\ loaded' = loaded
      BY <1>1, <1>10, <2>4, LoadNeeds DEF Waiting
    <3> QED BY <1>10, <2>1, <2>2, <2>4, <3>1 DEF Waiting, Token
  <2> QED BY <2>3, <2>4
<1> QED BY <1>5, <1>6, <1>7, <1>9, <1>10 DEF Token

(* Out of reset nobody has asked yet, which is where the token starts. *)
LEMMA TokenInit == Init => Token
BY DEF Init, Token, Asleep, Requestless, Landless

(* A step of the specification passes the token on, or stutters. *)
LEMMA TokenNext == Inv /\ Token /\ [Next]_vars => Token'
<1> SUFFICES ASSUME Inv, Token, [Next]_vars PROVE Token'
  OBVIOUS
<1>1. ASSUME NEW tick \in BOOLEAN, Access(tick) PROVE Token'
  <2>1. \E adv : Cycle(adv, tick)
    BY <1>1 DEF Access, NoAccess, Simultaneous, Poll, Read
  <2> QED BY <2>1, TokenStep
<1>2. CASE UNCHANGED vars
  BY <1>2 DEF vars, pipeVars, holdVars, bufVars, syncVars, advVars, clk50Vars, busVars,
              Token, Asleep, Requested, Computing, Arriving, Waiting, Requestless, Landless
<1> QED BY <1>1, <1>2 DEF Next

-----------------------------------------------------------------------------
(* The inductive invariant holds throughout: what the registers know of the  *)
(* block on its way, and where it is, are each other's reason.               *)
THEOREM Invariance == Spec => [](Inv /\ Token)
<1>1. Inv /\ Token /\ [Next]_vars => (Inv /\ Token)'
  BY NextInv, TokenNext
<1> QED BY <1>1, InitInv, TokenInit, PTL DEF Spec

(* Every register of the output side keeps its type; in particular the count *)
(* of words left in the buffer never passes its ends.                        *)
THEOREM TypeCorrect == Spec => []TypeOK
<1>1. Inv => TypeOK
  BY DEF Inv
<1> QED BY <1>1, Invariance, PTL

(* The words the buffer counts are always the unserved tail of one block, so *)
(* the branches for an empty buffer in OUTPUT are dead code.                 *)
THEOREM BufferCorrect == Spec => []BufferCountsItsWords
<1>1. Inv => BufferCountsItsWords
  BY DEF Inv, BufferInv
<1> QED BY <1>1, Invariance, PTL

(* Between a poll that saw urandom_valid and the read that follows it, the   *)
(* port never loses its word to the sentinel.                                *)
THEOREM CheckedReadCorrect == Spec => []CheckedReadIsValid
<1>1. Inv => CheckedReadIsValid
  BY DEF Inv, ValidIsWord, CheckedReadIsValid
<1> QED BY <1>1, Invariance, PTL

(* There is one block at most between the core and the holding buffer, and  *)
(* Token says where.                                                        *)
THEOREM TokenInvariance == Spec => []Token
BY Invariance, PTL

(* Whatever the relative speed of the two clock domains and of the readers,  *)
(* and whenever a round is forced, the core begins no block before the one   *)
(* before was copied, and the buffer copies no unfinished rounds.            *)
THEOREM BlockKept == Spec => []NoBlockSkipped
<1>1. Inv /\ Token => NoBlockSkipped
  <2> SUFFICES ASSUME Inv, Token PROVE NoBlockSkipped
    OBVIOUS
  <2> USE DEF NoBlockSkipped, Inv, TypeOK, Landless
  <2>1. CASE Asleep
    BY <2>1 DEF Asleep
  <2>2. CASE Requested \/ Computing
    <3>1. finished - loaded = 0 /\ ~holding_buf_load /\ ~saw_load
      BY <2>2 DEF Requested, Computing
    <3> QED BY <2>2, <3>1 DEF Requested, Computing
  <2>3. CASE Arriving \/ Waiting
    <3>1. finished - loaded \in {0, 1} /\ core # "BUSY"
      BY <2>3 DEF Arriving, Waiting
    <3>2. holding_buf_load \/ saw_load => data_out = finished
      BY <2>3 DEF Arriving, Waiting
    <3> QED BY <3>1, <3>2
  <2> QED BY <2>1, <2>2, <2>3 DEF Token
<1> QED BY <1>1, Invariance, PTL

(* The clock crossing and the two handshakes lose no request for a block    *)
(* and duplicate none: exactly one is outstanding.                          *)
THEOREM BlockInFlight == Spec => []OneBlockInFlight
<1>1. Inv /\ Token => OneBlockInFlight
  <2> SUFFICES ASSUME Inv, Token, core # "IDLE"
               PROVE  \E i \in 1..8 : InFlight[i] /\ \A j \in 1..8 : InFlight[j] => i = j
    BY DEF OneBlockInFlight
  <2>1. /\ InFlight[1] <=> advfsm = "WAIT_READY"
        /\ InFlight[2] <=> next
        /\ InFlight[3] <=> next_xfer = "req"
        /\ InFlight[4] <=> core = "BUSY"
        /\ InFlight[5] <=> core = "DONE" /\ ~valid_r
        /\ InFlight[6] <=> valid_r /\ ~valid_r2
        /\ InFlight[7] <=> holding_buf_load
        /\ InFlight[8] <=> saw_load
    BY DEF InFlight, Inv, TypeOK
  <2>2. \A j \in 1..8 : j \in {1, 2, 3, 4, 5, 6, 7, 8}
    OBVIOUS
  <2>3. CASE Requested
    <3>1. InFlight[1] \/ InFlight[2] \/ InFlight[3]
      BY <2>1, <2>3 DEF Requested
    <3>2. /\ ~InFlight[4] /\ ~InFlight[5] /\ ~InFlight[6] /\ ~InFlight[7] /\ ~InFlight[8]
          /\ ~(InFlight[1] /\ InFlight[2]) /\ ~(InFlight[1] /\ InFlight[3])
          /\ ~(InFlight[2] /\ InFlight[3])
      BY <2>1, <2>3 DEF Requested, Landless
    <3> QED BY <2>2, <3>1, <3>2
  <2>4. CASE Computing
    <3>1. /\ InFlight[4] /\ ~InFlight[1] /\ ~InFlight[2] /\ ~InFlight[3] /\ ~InFlight[5]
          /\ ~InFlight[6] /\ ~InFlight[7] /\ ~InFlight[8]
      BY <2>1, <2>4 DEF Computing, Landless
    <3> QED BY <2>2, <3>1
  <2>5. CASE Arriving
    <3>1. ~InFlight[1] /\ ~InFlight[2] /\ ~InFlight[3] /\ ~InFlight[4] /\ ~InFlight[8]
      BY <2>1, <2>5 DEF Arriving, Requestless, Landless
    <3>2. \/ InFlight[5] /\ ~InFlight[6] /\ ~InFlight[7]
          \/ ~InFlight[5] /\ InFlight[6] /\ ~InFlight[7]
          \/ ~InFlight[5] /\ ~InFlight[6] /\ InFlight[7]
      BY <2>1, <2>5 DEF Arriving, Requestless, Landless
    <3> QED BY <2>2, <3>1, <3>2
  <2>6. CASE Waiting
    <3>1. /\ InFlight[8] /\ ~InFlight[1] /\ ~InFlight[2] /\ ~InFlight[3] /\ ~InFlight[4]
          /\ ~InFlight[5] /\ ~InFlight[6] /\ ~InFlight[7]
      BY <2>1, <2>6 DEF Waiting, Requestless
    <3> QED BY <2>2, <3>1
  <2> QED BY <2>3, <2>4, <2>5, <2>6 DEF Token, Asleep
<1> QED BY <1>1, Invariance, PTL

-----------------------------------------------------------------------------
(* The words of the current block that have not been dealt to a port. *)
left == IF holdfsm = "INIT" THEN W ELSE words_remaining

Dealt == {w \in Word : w[1] < loaded \/ (w[1] = loaded /\ w[2] <= W - left)}

(* A port falls back to FILL only when nobody can advance it, so a word that *)
(* software saw is in PIPE, with the word behind it already replaced.        *)
PipeInv == \A p \in Port :
  /\ polled[p] => pipe[p] = "PIPE" /\ ~advance_local[p]
  /\ pipe[p] = "PIPE" /\ ~valid[p] => rd # Quiet
  /\ pipe[p] = "FILL" => ~valid[p] /\ ~advance_local[p]

(* Whatever a port holds as valid was dealt and never taken ... *)
Untaken ==
  /\ taken \subseteq Dealt
  /\ \A p \in Port : /\ valid_local[p] => output_local[p] \in Dealt \ taken
                     /\ valid[p] => output[p] \in Dealt \ taken

(* ... and no word is held twice, but for a local word that is being replaced. *)
HeldOnce == \A p, q \in Port :
  /\ valid[p] /\ valid_local[q] /\ (p = q => ~advance_local[p]) => output[p] # output_local[q]
  /\ p # q /\ valid[p] /\ valid[q] => output[p] # output[q]
  /\ p # q /\ valid_local[p] /\ valid_local[q] => output_local[p] # output_local[q]

FreshInv == Untaken /\ HeldOnce
-----------------------------------------------------------------------------
(* The words this cycle deals come after all that were dealt before. *)
LEMMA DealFresh ==
  ASSUME Inv, Token, Untaken, HoldFsm, HoldingBuf
  PROVE  /\ Dealt \subseteq Dealt'
         /\ \A p \in Port : valid_local'[p] =>
              \/ valid_local[p] /\ ~advance_local[p] /\ output_local'[p] = output_local[p]
              \/ output_local'[p] \in Dealt' \ Dealt
         /\ \A p, q \in Port :
              p # q /\ valid_local'[p] /\ valid_local'[q]
                /\ output_local'[p] \notin Dealt /\ output_local'[q] \notin Dealt
              => output_local'[p] # output_local'[q]
<1> DEFINE load == (holding_buf_load /\ ~hold_init) \/ holdfsm_load
           Kept(p) == /\ valid_local[p] /\ ~advance_local[p]
                      /\ output_local'[p] = output_local[p]
           Fresh(p) == output_local'[p] \in Dealt' \ Dealt
           Distinct == \A p, q \in Port :
                         p # q /\ valid_local'[p] /\ valid_local'[q]
                           /\ output_local'[p] \notin Dealt /\ output_local'[q] \notin Dealt
                         => output_local'[p] # output_local'[q]
           Goal == /\ Dealt \subseteq Dealt'
                   /\ \A p \in Port : valid_local'[p] => Kept(p) \/ Fresh(p)
                   /\ Distinct
<1> USE WAssumption, BlocksAssumption
<1>1. /\ loaded \in Nat /\ left \in 0..W /\ words_remaining \in 0..W /\ words_remaining' \in 0..W
      /\ loaded' \in Nat
  BY HoldFsmInv, HoldingBufInv DEF Inv, TypeOK, left
<1>2. left' \in 0..W
  BY <1>1 DEF left
<1>3. /\ load => loaded' > loaded
      /\ ~load => loaded' = loaded
  <2>1. hold_init <=> holdfsm \in {"OUTPUT", "WAIT"}
    BY DEF Inv, BufferInv
  <2>2. load => data_out > loaded
    BY <1>1, <2>1, LoadNeeds
       DEF Token, Asleep, Requested, Computing, Arriving, Waiting, Landless, Inv, TypeOK
  <2> QED BY <2>2, HoldingBufInv
<1>4. ASSUME NEW n \in 0..2, loaded' > loaded \/ (loaded' = loaded /\ left' <= left - n)
      PROVE  /\ Dealt \subseteq Dealt'
             /\ \A i \in 1..n : i <= left /\ loaded \in 1..MaxBlocks =>
                  <<loaded, W - left + i>> \in Dealt' \ Dealt
  <2> DEFINE l == loaded'
             r == left'
  <2> HIDE DEF l, r
  <2>a. l \in Nat /\ r \in 0..W /\ (l > loaded \/ (l = loaded /\ r <= left - n))
    BY <1>1, <1>2, <1>4 DEF l, r
  <2>b. \A w \in Word : w \in Dealt' <=> w[1] < l \/ (w[1] = l /\ w[2] <= W - r)
    BY DEF Dealt, l, r
  <2>c. \A w \in Word : w \in Dealt <=> w[1] < loaded \/ (w[1] = loaded /\ w[2] <= W - left)
    BY DEF Dealt
  <2>1. ASSUME NEW w \in Word, w \in Dealt PROVE w \in Dealt'
    <3>1. w[1] \in Nat /\ w[2] \in Nat
      BY DEF Word
    <3>2. w[1] < loaded \/ (w[1] = loaded /\ w[2] <= W - left)
      BY <2>1, <2>c
    <3>3. w[1] < l \/ (w[1] = l /\ w[2] <= W - r)
      BY <1>1, <2>a, <3>1, <3>2
    <3> QED BY <2>b, <3>3
  <2>2. ASSUME NEW i \in 1..n, i <= left, loaded \in 1..MaxBlocks
        PROVE  <<loaded, W - left + i>> \in Dealt' \ Dealt
    <3>1. W - left + i \in 1..W
      BY <1>1, <2>2
    <3>2. <<loaded, W - left + i>> \in Word
      BY <2>2, <3>1 DEF Word
    <3>3. ~(loaded < loaded) /\ ~(W - left + i <= W - left)
      BY <1>1, <2>2
    <3>4. loaded < l \/ (loaded = l /\ W - left + i <= W - r)
      BY <1>1, <2>a, <2>2
    <3> QED BY <2>b, <2>c, <3>2, <3>3, <3>4
  <2>3. Dealt \subseteq Word
    BY DEF Dealt
  <2> QED BY <2>1, <2>2, <2>3
<1>5. ASSUME holdfsm \in {"INIT", "OUTPUT"}
      PROVE  /\ loaded \in 1..MaxBlocks /\ left \in 1..W
             /\ \A i \in 1..left : holding_buf[i] = <<loaded, W - left + i>>
  <2>1. loaded \in 1..MaxBlocks
    BY <1>5 DEF Inv, TypeOK, BufferInv
  <2>2. CASE holdfsm = "INIT"
    <3>1. left = W /\ \A i \in 1..W : holding_buf[i] = <<loaded, i>> /\ W - W + i = i
      BY <2>2 DEF left, Inv, BufferInv
    <3> QED BY <2>1, <3>1
  <2>3. CASE holdfsm = "OUTPUT"
    BY <2>1, <2>3 DEF left, Inv, BufferInv, BufferCountsItsWords
  <2> QED BY <1>5, <2>2, <2>3
<1>6. ASSUME NEW n \in 0..2, loaded' > loaded \/ (loaded' = loaded /\ left' <= left - n),
             holdfsm \in {"INIT", "OUTPUT"}, NEW i \in 1..n, i <= left
      PROVE  holding_buf[i] \in Dealt' \ Dealt
  BY <1>4, <1>5, <1>6
<1>7. ASSUME NEW p \in Port, valid_local[p] PROVE output_local[p] \in Dealt
  BY <1>7 DEF Untaken
<1>8. holdfsm = "OUTPUT" => (load <=> holdfsm_load)
  BY DEF Inv, BufferInv
(* One word is dealt, or none. *)
<1>9. ASSUME NEW p \in Port, \A q \in Port \ {p} : valid_local'[q] => Kept(q)
      PROVE  Distinct
  BY <1>7, <1>9
<1>10. CASE HoldReset
  <2>1. loaded' > loaded \/ (loaded' = loaded /\ left' <= left - 0)
    <3>1. ~hold_init
      BY <1>10 DEF HoldReset, Inv, BufferInv
    <3>2. CASE holding_buf_load
      BY <1>3, <3>1, <3>2
    <3>3. CASE ~holding_buf_load
      <4>1. ~load
        BY <1>10, <3>3, LoadNeeds DEF HoldReset
      <4>2. left' = 0
        BY <1>10, <3>3 DEF HoldReset, left
      <4> QED BY <1>1, <1>3, <4>1, <4>2
    <3> QED BY <3>2, <3>3 DEF Inv, TypeOK
  <2>2. \A p \in Port : ~valid_local'[p]
    BY <1>10 DEF HoldReset
  <2> QED BY <1>4, <2>1, <2>2
<1>11. CASE HoldInit
  <2>1. ~load
    BY <1>11, LoadNeeds DEF HoldInit, Inv, BufferInv
  <2>2. loaded' = loaded /\ left' <= left - 2
    BY <1>1, <1>3, <1>11, <2>1 DEF HoldInit, left
  <2>3. output_local'["a"] = holding_buf[1] /\ output_local'["b"] = holding_buf[2]
    BY <1>11 DEF HoldInit, Port
  <2>4. left = W /\ holding_buf[1] = <<loaded, W - left + 1>>
                 /\ holding_buf[2] = <<loaded, W - left + 2>>
    BY <1>5, <1>11 DEF HoldInit, left
  <2>5. holding_buf[1] \in Dealt' \ Dealt /\ holding_buf[2] \in Dealt' \ Dealt
    BY <1>6, <1>11, <2>2, <2>4 DEF HoldInit
  <2>6. Dealt \subseteq Dealt'
    BY <1>4, <2>2
  <2>7. holding_buf[1] # holding_buf[2]
    BY <1>1, <2>4
  <2> QED BY <2>3, <2>5, <2>6, <2>7 DEF Port
<1>12. CASE HoldWait
  <2>1. holdfsm_load <=> saw_load
    BY <1>12 DEF HoldWait, holdfsm_load, Inv, TypeOK
  <2>2. loaded' > loaded \/ (loaded' = loaded /\ left' <= left - 0)
    BY <1>1, <1>3, <1>12, <2>1 DEF HoldWait, left, Inv, TypeOK, BufferInv
  <2>3. \A p \in Port : valid_local'[p] => Kept(p)
    BY <1>12 DEF HoldWait, Inv, TypeOK
  <2>4. Dealt \subseteq Dealt'
    BY <1>4, <2>2
  <2> QED BY <1>7, <2>3, <2>4
<1>13. ASSUME NEW n \in 0..2, Deal(n), holdfsm = "OUTPUT", n <= words_remaining,
              Exhausting => words_remaining = n
       PROVE  loaded' > loaded \/ (loaded' = loaded /\ left' <= left - n)
  <2>1. CASE holdfsm_load
    BY <1>3, <2>1
  <2>2. CASE ~holdfsm_load
    <3>1. loaded' = loaded /\ left = words_remaining /\ left' = words_remaining'
      BY <1>3, <1>8, <1>13, <2>2 DEF Deal, left
    <3>2. words_remaining' = IF Exhausting THEN 0 ELSE words_remaining - n
      BY <1>13, <2>2 DEF Deal
    <3>3. words_remaining' <= words_remaining - n
      BY <1>1, <1>13, <3>2
    <3> QED BY <3>1, <3>3
  <2> QED BY <2>1, <2>2
<1>14. ASSUME NEW p \in Port, OutputOne(p) PROVE Goal
  <2>1. Wanting = {p} /\ holdfsm = "OUTPUT" /\ {p} \notin {Port, {}}
    BY <1>14 DEF OutputOne, Port
  <2>2. left = words_remaining /\ 1 <= words_remaining /\ (Exhausting => words_remaining = 1)
    BY <1>5, <2>1 DEF left, Exhausting
  <2>3. loaded' > loaded \/ (loaded' = loaded /\ left' <= left - 1)
    BY <1>13, <1>14, <2>1, <2>2 DEF OutputOne
  <2>4. Dealt \subseteq Dealt' /\ holding_buf[1] \in Dealt' \ Dealt
    BY <1>4, <1>6, <2>1, <2>2, <2>3
  <2>5. \A q \in Port \ {p} : Kept(q)
    BY <1>14, <2>1 DEF OutputOne, Wanting, Inv, TypeOK
  <2>6. output_local'[p] = holding_buf[1]
    BY <1>14 DEF OutputOne, Inv, TypeOK
  <2>7. Distinct
    BY <1>9, <2>5
  <2>8. \A q \in Port : Kept(q) \/ Fresh(q)
    BY <2>4, <2>5, <2>6
  <2> QED BY <2>4, <2>7, <2>8
<1>15. CASE OutputBoth
  <2>1. /\ left = words_remaining /\ 2 <= words_remaining /\ holdfsm = "OUTPUT"
        /\ Exhausting => words_remaining = 2
    BY <1>1, <1>15 DEF OutputBoth, left, Exhausting, Port
  <2>2. loaded' > loaded \/ (loaded' = loaded /\ left' <= left - 2)
    BY <1>13, <1>15, <2>1 DEF OutputBoth
  <2>3. output_local'["a"] = holding_buf[1] /\ output_local'["b"] = holding_buf[2]
    BY <1>15 DEF OutputBoth, Port
  <2>4. holding_buf[1] = <<loaded, W - left + 1>> /\ holding_buf[2] = <<loaded, W - left + 2>>
    BY <1>5, <2>1
  <2>5. holding_buf[1] \in Dealt' \ Dealt /\ holding_buf[2] \in Dealt' \ Dealt
    <3>1. 1 <= left /\ 2 <= left
      BY <1>1, <2>1
    <3> QED BY <1>6, <2>1, <2>2, <3>1
  <2>6. Dealt \subseteq Dealt'
    BY <1>4, <2>2
  <2>7. holding_buf[1] # holding_buf[2]
    BY <1>1, <2>4
  <2> QED BY <2>3, <2>5, <2>6, <2>7 DEF Port
<1>16. CASE OutputScarce
  <2>1. /\ left = words_remaining /\ words_remaining = 1 /\ holdfsm = "OUTPUT"
        /\ ~Exhausting /\ Wanting = Port
    BY <1>5, <1>16 DEF OutputScarce, left, Exhausting, Port
  <2>2. ~load
    BY <1>8, <2>1 DEF holdfsm_load
  <2>3. loaded' = loaded /\ left' = 0
    BY <1>3, <1>16, <2>2 DEF OutputScarce, left
  <2>4. Dealt \subseteq Dealt' /\ holding_buf[1] \in Dealt' \ Dealt
    BY <1>4, <1>6, <2>1, <2>3
  <2>5. \A p \in Port : valid_local'[p] => p = "a" /\ output_local'[p] = holding_buf[1]
    BY <1>16, <2>1 DEF OutputScarce
  <2> QED BY <2>4, <2>5
<1>17. CASE OutputNone
  <2>1. Wanting = {} /\ holdfsm = "OUTPUT" /\ left = words_remaining
    BY <1>17 DEF OutputNone, left
  <2>2. ~Exhausting
    BY <1>5, <2>1 DEF Exhausting, Port
  <2>3. loaded' > loaded \/ (loaded' = loaded /\ left' <= left - 0)
    BY <1>5, <1>13, <1>17, <2>1, <2>2 DEF OutputNone
  <2>4. \A p \in Port : Kept(p)
    BY <1>17, <2>1 DEF OutputNone, Wanting
  <2>5. Dealt \subseteq Dealt'
    BY <1>4, <2>3
  <2> QED BY <1>7, <2>4, <2>5
<1> QED BY <1>10, <1>11, <1>12, <1>14, <1>15, <1>16, <1>17 DEF HoldFsm

-----------------------------------------------------------------------------
(* What a cycle does to a port: it captures the local word, or keeps its own. *)
LEMMA PortStep ==
  ASSUME Inv, NEW adv, OutPipes(adv), NEW p \in Port
  PROVE  /\ Capture(adv, p) => /\ output'[p] = output_local[p] /\ valid'[p] = valid_local[p]
                               /\ advance_local'[p]
         /\ ~Capture(adv, p) => /\ output'[p] = output[p] /\ valid'[p] = valid[p]
                                /\ ~advance_local'[p]
         /\ pipe[p] = "FILL" => (Capture(adv, p) <=> valid_local[p])
         /\ pipe[p] = "PIPE" => (Capture(adv, p) <=> p \in adv)
         /\ pipe'[p] = "PIPE" => \/ pipe[p] = "FILL" /\ valid_local[p]
                                 \/ pipe[p] = "PIPE" /\ valid[p]
         /\ pipe'[p] = "FILL" => \/ pipe[p] = "FILL" /\ ~valid_local[p]
                                 \/ pipe[p] = "PIPE" /\ ~valid[p]
<1> USE DEF Inv, TypeOK
<1>1. Capture(adv, p) => /\ output'[p] = output_local[p] /\ valid'[p] = valid_local[p]
                         /\ advance_local'[p]
  BY DEF OutPipes
<1>2. ~Capture(adv, p) => /\ output'[p] = output[p] /\ valid'[p] = valid[p]
                          /\ ~advance_local'[p]
  BY DEF OutPipes
<1>3. pipe[p] = "FILL" => (Capture(adv, p) <=> valid_local[p])
  BY DEF Capture
<1>4. pipe[p] = "PIPE" => (Capture(adv, p) <=> p \in adv)
  BY DEF Capture
<1>5. pipe[p] \in {"FILL", "PIPE"} /\ pipe' = NextPipe
  BY DEF OutPipes
<1>6. /\ pipe'[p] = "PIPE" => \/ pipe[p] = "FILL" /\ valid_local[p]
                              \/ pipe[p] = "PIPE" /\ valid[p]
      /\ pipe'[p] = "FILL" => \/ pipe[p] = "FILL" /\ ~valid_local[p]
                              \/ pipe[p] = "PIPE" /\ ~valid[p]
  BY <1>5 DEF NextPipe
<1> QED BY <1>1, <1>2, <1>3, <1>4, <1>6

(* The bus is quiet in the cycle in which a dry port falls back to FILL. *)
LEMMA PipeStep ==
  ASSUME Inv, PipeInv, NEW adv \in SUBSET Port, OutPipes(adv),
         adv # {} => rd = Quiet /\ rd' # Quiet,
         \A p \in Port : polled'[p] => valid[p] /\ p \notin adv
  PROVE  PipeInv'
<1> SUFFICES ASSUME NEW p \in Port
             PROVE  /\ polled'[p] => pipe'[p] = "PIPE" /\ ~advance_local'[p]
                    /\ pipe'[p] = "PIPE" /\ ~valid'[p] => rd' # Quiet
                    /\ pipe'[p] = "FILL" => ~valid'[p] /\ ~advance_local'[p]
  BY DEF PipeInv
<1>1. pipe[p] \in {"FILL", "PIPE"} /\ pipe'[p] \in {"FILL", "PIPE"}
  BY OutPipesInv DEF Inv, TypeOK
<1>2. polled'[p] => pipe'[p] = "PIPE" /\ ~advance_local'[p]
  BY <1>1, PortStep DEF PipeInv
<1>3. pipe'[p] = "PIPE" /\ ~valid'[p] => rd' # Quiet
  BY <1>1, PortStep DEF PipeInv
<1>4. pipe'[p] = "FILL" => ~valid'[p] /\ ~advance_local'[p]
  BY <1>1, PortStep DEF PipeInv
<1> QED BY <1>2, <1>3, <1>4

(* In a cycle without a checked read; or in which port r takes its word. *)
LEMMA FreshStep ==
  ASSUME Inv, Token, FreshInv, PipeInv, NEW adv \in SUBSET Port, OutPipes(adv), HoldFsm,
         HoldingBuf, NEW r \in Port,
         \/ taken' = taken
         \/ /\ taken' = taken \union {output[r]} /\ valid[r]
            /\ r \in adv /\ pipe[r] = "PIPE" /\ ~advance_local[r]
  PROVE  FreshInv'
<1> DEFINE Kept(p) == /\ valid_local[p] /\ ~advance_local[p]
                      /\ output_local'[p] = output_local[p]
           New(p) == output_local'[p] \in Dealt' \ Dealt
<1>1. /\ Dealt \subseteq Dealt'
      /\ \A p \in Port : valid_local'[p] => Kept(p) \/ New(p)
      /\ \A p, q \in Port :
           p # q /\ valid_local'[p] /\ valid_local'[q]
             /\ output_local'[p] \notin Dealt /\ output_local'[q] \notin Dealt
           => output_local'[p] # output_local'[q]
  BY DealFresh DEF FreshInv
<1>2. taken' \subseteq Dealt
  BY DEF FreshInv, Untaken
<1>3. /\ \A p \in Port : valid_local[p] => output_local[p] \in Dealt /\ output_local[p] \notin taken
      /\ \A p \in Port : valid[p] => output[p] \in Dealt /\ output[p] \notin taken
  BY DEF FreshInv, Untaken
<1>4. \A p, q \in Port :
        /\ valid[p] /\ valid_local[q] /\ (p = q => ~advance_local[p])
             => output[p] # output_local[q]
        /\ p # q /\ valid[p] /\ valid[q] => output[p] # output[q]
        /\ p # q /\ valid_local[p] /\ valid_local[q] => output_local[p] # output_local[q]
  BY DEF FreshInv, HeldOnce
(* What a port shows next: its own word still, or the local one. *)
<1>5. ASSUME NEW p \in Port, valid'[p]
      PROVE  \/ /\ output'[p] = output_local[p] /\ valid_local[p] /\ advance_local'[p]
             \/ /\ output'[p] = output[p] /\ valid[p] /\ ~advance_local'[p]
                /\ taken' # taken => p # r
  BY <1>5, PortStep
<1>6. ASSUME NEW p \in Port, valid_local[p], ~advance_local[p] \/ p # r \/ taken' = taken
      PROVE  output_local[p] \notin taken'
  BY <1>3, <1>4, <1>6
<1>7. ASSUME NEW p \in Port, valid[p], p # r \/ taken' = taken
      PROVE  output[p] \notin taken'
  BY <1>3, <1>4, <1>7
<1>8. ~advance_local[r] \/ taken' = taken
  OBVIOUS
<1>9. ASSUME NEW p \in Port, valid_local'[p]
      PROVE  output_local'[p] \in Dealt' /\ output_local'[p] \notin taken'
  BY <1>1, <1>2, <1>3, <1>6, <1>8, <1>9
<1>10. ASSUME NEW p \in Port, valid'[p]
       PROVE  output'[p] \in Dealt /\ output'[p] \notin taken'
  BY <1>3, <1>5, <1>6, <1>7, <1>8, <1>10
<1>11. Untaken'
  BY <1>1, <1>2, <1>9, <1>10 DEF Untaken
<1>12. ASSUME NEW p \in Port, NEW q \in Port, valid'[p], valid_local'[q],
              p = q => ~advance_local'[p]
       PROVE  output'[p] # output_local'[q]
  <2>1. CASE New(q)
    BY <1>10, <1>12, <2>1
  <2>2. CASE Kept(q)
    BY <1>4, <1>5, <1>12, <2>2
  <2> QED BY <1>1, <1>12, <2>1, <2>2
<1>13. ASSUME NEW p \in Port, NEW q \in Port, p # q, valid'[p], valid'[q]
       PROVE  output'[p] # output'[q]
  BY <1>4, <1>5, <1>13
<1>14. ASSUME NEW p \in Port, NEW q \in Port, p # q, valid_local'[p], valid_local'[q]
       PROVE  output_local'[p] # output_local'[q]
  BY <1>1, <1>3, <1>4, <1>14
<1>15. HeldOnce'
  BY <1>12, <1>13, <1>14 DEF HeldOnce
<1> QED BY <1>11, <1>15 DEF FreshInv

-----------------------------------------------------------------------------
(* Before the first block every register of the pipe is unset, so that nothing is old. *)
LEMMA FreshInit == Init => PipeInv /\ FreshInv
BY DEF Init, PipeInv, FreshInv, Untaken, HeldOnce

(* A port's word is taken only while the pipeline shows it for the first time. *)
LEMMA FreshNext ==
  ASSUME PollFirst, Inv, Token, PipeInv, FreshInv, [Next]_vars
  PROVE  PipeInv' /\ FreshInv'
<1>a. "a" \in Port /\ {} \in SUBSET Port
  BY DEF Port
<1>b. \A p \in Port : polled[p] => valid[p]
  BY DEF Inv, ValidIsWord
<1>c. polled \in [Port -> BOOLEAN] /\ valid \in [Port -> BOOLEAN]
  BY DEF Inv, TypeOK
<1>1. ASSUME NEW tick \in BOOLEAN, NoAccess(tick) PROVE PipeInv' /\ FreshInv'
  <2>1. \A p \in Port : polled'[p] => valid[p] /\ p \notin {}
    BY <1>1, <1>b DEF NoAccess
  <2>2. OutPipes({}) /\ HoldFsm /\ HoldingBuf /\ taken' = taken
    BY <1>1 DEF NoAccess, Cycle
  <2> QED BY <1>a, <2>1, <2>2, PipeStep, FreshStep
<1>2. ASSUME NEW tick \in BOOLEAN, Simultaneous(tick) PROVE PipeInv' /\ FreshInv'
  <2>1. /\ OutPipes(Port) /\ HoldFsm /\ HoldingBuf /\ taken' = taken
        /\ rd = Quiet /\ rd' = Busy
    BY <1>2 DEF Simultaneous, Cycle
  <2>2. rd' # Quiet /\ \A p \in Port : ~polled'[p]
    BY <1>2, <2>1 DEF Simultaneous, Busy, Quiet
  <2> QED BY <1>a, <2>1, <2>2, PipeStep, FreshStep
<1>3. ASSUME NEW tick \in BOOLEAN, NEW p \in Port, Poll(p, tick) PROVE PipeInv' /\ FreshInv'
  <2>1. \A q \in Port : polled'[q] => valid[q] /\ q \notin {}
    BY <1>3, <1>b, <1>c DEF Poll
  <2>2. OutPipes({}) /\ HoldFsm /\ HoldingBuf /\ taken' = taken
    BY <1>3 DEF Poll, Cycle
  <2> QED BY <1>a, <2>1, <2>2, PipeStep, FreshStep
<1>4. ASSUME NEW tick \in BOOLEAN, NEW p \in Port, Read(p, tick) PROVE PipeInv' /\ FreshInv'
  <2>1. /\ OutPipes({p}) /\ HoldFsm /\ HoldingBuf /\ rd = Quiet /\ polled[p]
        /\ rd' = [port |-> p, word |-> output[p]]
        /\ polled' = [polled EXCEPT ![p] = FALSE]
        /\ taken' = IF valid[p] THEN taken \union {output[p]} ELSE taken
    BY <1>4 DEF Read, Cycle
  <2>2. rd' # Quiet
    BY <2>1 DEF Quiet, Port
  <2>3. valid[p] /\ pipe[p] = "PIPE" /\ ~advance_local[p]
    BY <1>b, <2>1 DEF PipeInv
  <2>4. \A q \in Port : polled'[q] => valid[q] /\ q \notin {p}
    BY <1>b, <1>c, <2>1
  <2>5. PipeInv'
    BY <2>1, <2>2, <2>4, PipeStep
  <2>6. FreshInv'
    BY <2>1, <2>3, FreshStep
  <2> QED BY <2>5, <2>6
<1>5. CASE UNCHANGED vars
  BY <1>5 DEF vars, pipeVars, holdVars, bufVars, syncVars, advVars, clk50Vars, busVars,
              PipeInv, FreshInv, Untaken, HeldOnce, Dealt, left
<1> QED BY <1>1, <1>2, <1>3, <1>4, <1>5 DEF Next, Access

(* ChaChaOutput implements FreshStream: for every block size, number of      *)
(* blocks and relative speed of the clocks, checked reads on the two ports   *)
(* never return the same word twice, nor the sentinel.                       *)
THEOREM FreshWordsCorrect == ASSUME PollFirst PROVE Spec => FreshWords
<1> DEFINE rdBar == IF rd.port \in Port THEN rd ELSE Quiet
           I == Inv /\ Token /\ PipeInv /\ FreshInv
<1>1. Init => Stream!Init
  BY DEF Init, Stream!Init, Quiet, Port
<1>2. I /\ [Next]_vars => [Stream!Next]_(Stream!vars)
  <2> SUFFICES ASSUME I, [Next]_vars PROVE [Stream!Next]_(Stream!vars)
    OBVIOUS
  <2>1. ASSUME NEW tick \in BOOLEAN, NoAccess(tick) \/ Simultaneous(tick) PROVE Stream!Next
    BY <2>1 DEF NoAccess, Simultaneous, Stream!Next, Stream!Release, Quiet, Busy, Port
  <2>2. ASSUME NEW tick \in BOOLEAN, NEW p \in Port, Poll(p, tick) PROVE Stream!Next
    BY <2>2 DEF Poll, Stream!Next, Stream!Release, Quiet, Busy, Port
  <2>3. ASSUME NEW tick \in BOOLEAN, NEW p \in Port, Read(p, tick) PROVE Stream!Next
    <3>1. valid[p]
      BY <2>3 DEF Read, Inv, ValidIsWord
    <3>2. output[p] \in Word \ taken
      BY <3>1 DEF FreshInv, Untaken, Dealt
    <3>3. /\ rd' = [port |-> p, word |-> output[p]]
          /\ taken' = taken \union {output[p]}
      BY <2>3, <3>1 DEF Read
    <3>4. rdBar' = [port |-> p, word |-> output[p]]
      BY <3>3
    <3> QED BY <3>2, <3>3, <3>4 DEF Stream!Next, Stream!Take
  <2>4. CASE UNCHANGED vars
    BY <2>4 DEF vars, busVars, Stream!vars
  <2> QED BY <2>1, <2>2, <2>3, <2>4 DEF Next, Access
<1>3. I /\ [Next]_vars => (PipeInv /\ FreshInv)'
  BY FreshNext
<1> QED BY <1>1, <1>2, <1>3, FreshInit, Invariance, PTL
        DEF Spec, FreshWords, Stream!Spec
=============================================================================
