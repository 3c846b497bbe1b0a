------------------------- MODULE TrngSeeding_proofs -------------------------
(***************************************************************************)
(* The seed path of the TRNG, for every FIFO depth, every size of the key  *)
(* pool and every set of intervals: no word is given twice to the pool,    *)
(* nor twice to the kernel, and the conditioner is ready when it is full.  *)
(***************************************************************************)
EXTENDS TrngSeeding, TLAPS

rising == seed_gnt_rising(seed_gnt)
Asking == {"SEEDING", "DIN_SEEDING", "RUN_RESEED"}

(* The four-phase handshake: a request is up only while a word is wanted,    *)
(* and a grant that coincides with it is seen in that very cycle.            *)
Handshake ==
  /\ seed_req => seedfsm \in Asking
  /\ seed_req /\ seed_gnt => ~seed_gnt_r
  /\ rising => seed_req /\ seedfsm \in Asking
  /\ seedfsm \in {"SEEDING", "DIN_SEEDING"} /\ (seed_req \/ rising) => seed_ctr # 0

(* Each word wanted has been stirred in when the counter has moved on. *)
Total == SeedWords + DinWords
Counted ==
  /\ chacha_ready <=> seedfsm \in {"RUN", "RUN_RESEED"}
  /\ seedfsm = "RESET" => stirred = 0
  /\ seedfsm = "SEEDING" => stirred + seed_ctr = SeedWords
  /\ seedfsm = "DIN_SEEDING" => stirred + seed_ctr = Total
  /\ seedfsm \in {"SEEDED", "WAIT_INIT", "RUN", "RUN_RESEED"} => stirred = Total
  /\ stirred > 0 => last_seed >= stirred - 1

(* The word that was granted last is off the FIFO, or about to be popped,    *)
(* before the next one is granted.                                           *)
Popping == kernel_fifo_rden /\ ~kernel_fifo_empty
Retired ==
  /\ seed_buf <= popped /\ last_seed <= popped
  /\ rising => /\ seed_buf > last_seed \/ stirred = 0
               /\ popped > seed_buf \/ ~kernel_fifo_empty
  /\ \/ stirred = 0
     \/ popped > last_seed
     \/ Popping /\ ~seed_req /\ seed_gnt_r

SeedInv == TypeOK /\ Handshake /\ Counted /\ Retired

(* What the kernel reads is a cycle old: the word at the output then, which  *)
(* is still there or was popped in between.                                  *)
DataOld == kernel_data # 0 => /\ kernel_data <= popped
                              /\ kernel_data = popped => ~kernel_fifo_empty

(* After a read the kernel waits in one of these: for the seed control, which *)
(* pops in its place; for its own pop; for the output to show the next word; *)
(* or for nothing any more.                                                  *)
Unseen == ~polled /\ (bus # "idle" \/ ~avail)
Served ==
  /\ last_kernel <= popped
  /\ \/ last_kernel = 0
     \/ popped = last_kernel /\ Unseen /\ ~buffered_avail /\ seed_req
          /\ (seed_gnt => ~kernel_fifo_empty)
     \/ popped = last_kernel /\ Unseen /\ Popping
     \/ popped > last_kernel /\ ~polled
     \/ popped > last_kernel /\ (kernel_data = 0 \/ kernel_data > last_kernel)

(* Blocks are counted twice: by the code from one, while it waits for the    *)
(* interval, and here from zero, until the rotation that follows.            *)
Running == {"RUN", "RUN_RESEED"}
OnTime ==
  /\ seedfsm \notin Running => since = 0 /\ ~lowered
  /\ seedfsm = "RUN_RESEED" => reseed_ctr = 1
  /\ seedfsm \notin {"RESET", "RUN_RESEED"} /\ ~lowered => reseed_ctr = since + 1
  /\ seedfsm # "RUN_RESEED" /\ ~lowered => reseed_interval = 0 \/ since < reseed_interval

-----------------------------------------------------------------------------
(* A step is a cycle of the hardware beside one access of the CPU, or none.  *)
Access(data_we) == IF data_we THEN ReadData
                   ELSE NoAccess \/ PollAvail \/ ClearErrors \/ SetInterval

(* A step is one cycle of the hardware, in which the CPU reads the data or not. *)
LEMMA NextCycle ==
  ASSUME Next
  PROVE  \E data_we, clr_err, wren, advance_block, core \in BOOLEAN :
           Cycle(data_we, clr_err, wren, advance_block, core) /\ Access(data_we)
<1>1. PICK wren, core \in BOOLEAN : Step(wren, core)
  BY DEF Next
<1>2. PICK advance_block \in BOOLEAN :
        \/ NoAccess    /\ Cycle(FALSE, FALSE, wren, advance_block, core)
        \/ PollAvail   /\ Cycle(FALSE, FALSE, wren, advance_block, core)
        \/ ReadData    /\ Cycle(TRUE,  FALSE, wren, advance_block, core)
        \/ ClearErrors /\ Cycle(FALSE, TRUE,  wren, advance_block, core)
        \/ SetInterval /\ Cycle(FALSE, FALSE, wren, advance_block, core)
  BY <1>1 DEF Step
<1> QED BY <1>2, Zenon DEF Access

(* The wires and the registers of one bit. *)
LEMMA Bits ==
  ASSUME TypeOK
  PROVE  /\ seed_req \in BOOLEAN /\ seed_gnt \in BOOLEAN /\ seed_gnt_r \in BOOLEAN
         /\ chacha_ready \in BOOLEAN /\ kernel_fifo_rden \in BOOLEAN
         /\ buffered_avail \in BOOLEAN /\ avail \in BOOLEAN /\ polled \in BOOLEAN
         /\ rising \in BOOLEAN /\ kernel_fifo_empty \in BOOLEAN
BY DEF TypeOK, rising, seed_gnt_rising, kernel_fifo_empty

(* The numbers, and how far they go. *)
LEMMA Numbers ==
  ASSUME TypeOK
  PROVE  /\ written \in Nat /\ popped \in Nat /\ kernel_data \in Nat /\ seed_buf \in Nat
         /\ last_kernel \in Nat /\ last_seed \in Nat /\ stirred \in Nat /\ since \in Nat
         /\ seed_ctr \in Nat /\ reseed_ctr \in Nat /\ reseed_interval \in Nat
         /\ popped <= written /\ written <= MaxWords
BY IntervalAssumption, DepthAssumption DEF TypeOK

States == {"RESET", "SEEDING", "DIN_SEEDING", "SEEDED", "WAIT_INIT", "RUN", "RUN_RESEED"}

(* One cycle of the seed control, register by register. *)
LEMMA SeedStep ==
  ASSUME TypeOK, NEW advance_block \in BOOLEAN, NEW core \in BOOLEAN,
         SeedFsm(seed_gnt, advance_block, core, core)
  PROVE  /\ seedfsm' \in States /\ seed_ctr' \in 0..31 /\ reseed_ctr' \in Nat
         /\ seed_req' \in BOOLEAN /\ chacha_ready' \in BOOLEAN /\ seed_gnt_r' = seed_gnt
<1> USE DEF States
<1>0. seed_ctr \in 0..31 /\ reseed_ctr \in Nat /\ seed_gnt_r' = seed_gnt
  BY DEF TypeOK, SeedFsm
<1>a. SeedWords \in 0..31 /\ DinWords \in 0..31
  BY SeedAssumption
<1>1. CASE Reset
  BY <1>0, <1>a, <1>1, Bits DEF Reset
<1>2. CASE Gather("SEEDING", seed_gnt, "DIN_SEEDING", DinWords)
  BY <1>0, <1>a, <1>2, Bits DEF Gather
<1>3. CASE Gather("DIN_SEEDING", seed_gnt, "SEEDED", 0)
  BY <1>0, <1>a, <1>3, Bits DEF Gather
<1>4. CASE Seeded(core)
  BY <1>0, <1>4, Bits DEF Seeded
<1>5. CASE WaitInit(core)
  BY <1>0, <1>5, Bits DEF WaitInit
<1>6. CASE Run(advance_block)
  <2>1. seedfsm' \in States /\ UNCHANGED <<seed_ctr, chacha_ready>>
    BY <1>6 DEF Run
  <2>2. reseed_ctr' \in Nat
    BY <1>0, <1>6 DEF Run
  <2>3. seed_req' \in BOOLEAN
    BY <1>6, Zenon DEF Run
  <2> QED BY <1>0, <2>1, <2>2, <2>3, Bits
<1>7. CASE RunReseed(seed_gnt)
  BY <1>0, <1>7, Bits DEF RunReseed
<1> QED BY <1>1, <1>2, <1>3, <1>4, <1>5, <1>6, <1>7 DEF SeedFsm

(* The registers stay in their ranges. *)
LEMMA TypeStep == ASSUME TypeOK, Next PROVE TypeOK'
<1>0. PICK data_we, clr_err, wren, advance_block, core \in BOOLEAN :
        Cycle(data_we, clr_err, wren, advance_block, core) /\ Access(data_we)
  BY NextCycle
<1>1. /\ seedfsm' \in States /\ seed_ctr' \in 0..31 /\ reseed_ctr' \in Nat
      /\ seed_req' \in BOOLEAN /\ chacha_ready' \in BOOLEAN /\ seed_gnt_r' \in BOOLEAN
  BY <1>0, SeedStep, Bits DEF Cycle
<1>2. reseed_interval' \in Intervals
  BY <1>0 DEF TypeOK, Access, ReadData, NoAccess, PollAvail, ClearErrors, SetInterval
<1>3. kernel_fifo_rden' \in BOOLEAN /\ buffered_avail' \in BOOLEAN /\ avail' \in BOOLEAN
  BY <1>0, Bits DEF Cycle, ReadSide, Avail, pop
<1>4. seed_gnt' \in BOOLEAN
  BY <1>0 DEF Cycle, SeedGrant
<1>5. polled' \in BOOLEAN /\ bus' \in {"idle", "read", "other"}
  BY <1>0, Bits DEF Access, ReadData, NoAccess, PollAvail, ClearErrors, SetInterval
<1>6. /\ written' \in 0..MaxWords /\ popped' \in 0..MaxWords /\ popped' <= written'
  BY <1>0, Numbers, DepthAssumption DEF Cycle, WriteSide, ReadSide, kernel_fifo_empty, TypeOK
<1>7. kernel_data' \in 0..MaxWords /\ seed_buf' \in 0..MaxWords
  BY <1>0, DepthAssumption DEF Cycle, ReadSide, SeedGrant, dout, TypeOK
<1>8. last_kernel' \in 0..MaxWords /\ last_seed' \in 0..MaxWords
  BY <1>0 DEF Cycle, History, Access, ReadData, NoAccess, PollAvail, ClearErrors,
              SetInterval, TypeOK
<1>9. kernel_underrun' \in 0..MaxUnderrun
  BY <1>0, UnderrunAssumption DEF Cycle, Underruns, TypeOK
<1>10. since' \in Nat /\ stirred' \in Nat
  BY <1>0, Numbers DEF Cycle, History
<1>11. lowered' \in BOOLEAN
  BY <1>0, Zenon DEF Cycle, History
<1> QED
  BY <1>1, <1>2, <1>3, <1>4, <1>5, <1>6, <1>7, <1>8, <1>9, <1>10, <1>11 DEF TypeOK, States

(* What a cycle does to the four wires of the handshake: a request falls     *)
(* when its grant is seen, and none is raised while a grant is up.           *)
LEMMA RequestStep ==
  ASSUME TypeOK, Handshake, NEW advance_block \in BOOLEAN, NEW core \in BOOLEAN,
         SeedFsm(seed_gnt, advance_block, core, core)
  PROVE  /\ rising => ~seed_req'
         /\ seed_req /\ ~rising => seed_req' /\ UNCHANGED <<seedfsm, seed_ctr>>
         /\ seed_req' => seedfsm' \in Asking
         /\ seedfsm' \in {"SEEDING", "DIN_SEEDING"} /\ seed_req' => seed_ctr' # 0
<1> USE DEF Asking
<1>0. /\ rising <=> seed_gnt /\ ~seed_gnt_r
      /\ seed_req /\ ~rising => ~seed_gnt
      /\ seed_ctr \in 0..31
  BY Bits DEF rising, seed_gnt_rising, Handshake, TypeOK
<1>1. CASE Reset
  BY <1>0, <1>1 DEF Reset, Handshake
<1>2. CASE Gather("SEEDING", seed_gnt, "DIN_SEEDING", DinWords)
  BY <1>0, <1>2, Bits DEF Gather, Handshake, rising
<1>3. CASE Gather("DIN_SEEDING", seed_gnt, "SEEDED", 0)
  BY <1>0, <1>3, Bits DEF Gather, Handshake, rising
<1>4. CASE Seeded(core)
  BY <1>0, <1>4, Bits DEF Seeded, Handshake
<1>5. CASE WaitInit(core)
  BY <1>0, <1>5, Bits DEF WaitInit, Handshake
<1>6. CASE Run(advance_block)
  BY <1>0, <1>6, Bits DEF Run, Due, Handshake
<1>7. CASE RunReseed(seed_gnt)
  BY <1>0, <1>7, Bits DEF RunReseed, Handshake, rising
<1> QED BY <1>1, <1>2, <1>3, <1>4, <1>5, <1>6, <1>7 DEF SeedFsm

(* The four phases of the handshake follow one another in order. *)
LEMMA HandshakeStep == ASSUME TypeOK, Handshake, Next PROVE Handshake'
<1>0. PICK data_we, clr_err, wren, advance_block, core \in BOOLEAN :
        Cycle(data_we, clr_err, wren, advance_block, core)
  BY NextCycle
<1>1. seed_gnt_r' = seed_gnt /\ seed_gnt' = (seed_req /\ ~kernel_fifo_empty)
  BY <1>0 DEF Cycle, SeedFsm, SeedGrant
<1>2. /\ rising => ~seed_req'
      /\ seed_req /\ ~rising => seed_req' /\ UNCHANGED <<seedfsm, seed_ctr>>
      /\ seed_req' => seedfsm' \in Asking
      /\ seedfsm' \in {"SEEDING", "DIN_SEEDING"} /\ seed_req' => seed_ctr' # 0
  BY <1>0, RequestStep DEF Cycle
<1>3. seed_req' /\ seed_gnt' => ~seed_gnt_r'
  BY <1>1, <1>2, Zenon DEF Handshake, rising, seed_gnt_rising
<1>4. rising' => seed_req /\ ~rising
  BY <1>1, Zenon DEF rising, seed_gnt_rising
<1>5. rising' => seed_req' /\ seedfsm' \in Asking
  BY <1>2, <1>4
<1> QED BY <1>2, <1>3, <1>5 DEF Handshake

(* A word is stirred in exactly when its grant is seen. *)
LEMMA StirStep ==
  ASSUME TypeOK, Handshake, NEW advance_block, History(advance_block)
  PROVE  /\ last_seed' = IF rising THEN seed_buf ELSE last_seed
         /\ stirred' = IF rising /\ ~chacha_ready THEN stirred + 1 ELSE stirred
<1>1. Stir(seed_gnt) <=> rising
  BY Bits DEF Stir, rising, Handshake, Asking
<1> QED BY <1>1, Zenon DEF History

(* The words stirred in and those still wanted make up the whole. *)
LEMMA CountedStep == ASSUME SeedInv, Next PROVE Counted'
<1> USE DEF SeedInv
<1>0. PICK data_we, clr_err, wren, advance_block, core \in BOOLEAN :
        Cycle(data_we, clr_err, wren, advance_block, core)
  BY NextCycle
<1>a. SeedWords \in Nat /\ DinWords \in Nat /\ Total = SeedWords + DinWords
  BY SeedAssumption DEF Total
<1>b. /\ stirred \in Nat /\ seed_ctr \in Nat /\ last_seed \in Nat /\ seed_buf \in Nat
      /\ rising \in BOOLEAN /\ chacha_ready \in BOOLEAN
  BY Numbers, Bits
<1>c. /\ rising <=> seed_gnt_rising(seed_gnt)
      /\ rising => seedfsm \in Asking
      /\ seedfsm \in {"SEEDING", "DIN_SEEDING"} /\ rising => seed_ctr # 0
  BY <1>b, Zenon DEF rising, Handshake
<1>1. /\ last_seed' = IF rising THEN seed_buf ELSE last_seed
      /\ stirred' = IF rising /\ ~chacha_ready THEN stirred + 1 ELSE stirred
  BY <1>0, StirStep DEF Cycle
<1>2. stirred' > 0 => last_seed' >= stirred' - 1
  BY <1>1, <1>b DEF Counted, Retired
<1> DEFINE Ready == chacha_ready <=> seedfsm \in {"RUN", "RUN_RESEED"}
           Gathered == /\ seedfsm = "RESET" => stirred = 0
                       /\ seedfsm = "SEEDING" => stirred + seed_ctr = SeedWords
                       /\ seedfsm = "DIN_SEEDING" => stirred + seed_ctr = Total
                       /\ seedfsm \in {"SEEDED", "WAIT_INIT", "RUN", "RUN_RESEED"}
                            => stirred = Total
<1>3. Ready /\ Gathered
  BY DEF Counted
<1>4. SeedFsm(seed_gnt, advance_block, core, core)
  BY <1>0 DEF Cycle
<1>5. CASE Reset
  BY <1>a, <1>b, <1>c, <1>1, <1>2, <1>3, <1>5 DEF Reset, Counted, Asking
<1>6. CASE Gather("SEEDING", seed_gnt, "DIN_SEEDING", DinWords)
  <2>1. seedfsm = "SEEDING" /\ ~chacha_ready /\ ~chacha_ready'
    BY <1>3, <1>6 DEF Gather
  <2>2. CASE seed_ctr = 0
    <3>1. seedfsm' = "DIN_SEEDING" /\ seed_ctr' = DinWords /\ stirred' = stirred
      BY <1>1, <1>c, <1>6, <2>1, <2>2 DEF Gather
    <3> QED BY <1>2, <1>3, <1>a, <1>b, <2>1, <2>2, <3>1 DEF Counted
  <2>3. CASE seed_ctr # 0
    <3>1. /\ seedfsm' = "SEEDING"
          /\ seed_ctr' = IF rising THEN seed_ctr - 1 ELSE seed_ctr
          /\ stirred' = IF rising THEN stirred + 1 ELSE stirred
      BY <1>1, <1>c, <1>6, <2>1, <2>3, Zenon DEF Gather
    <3> QED BY <1>2, <1>3, <1>a, <1>b, <2>1, <2>3, <3>1 DEF Counted
  <2> QED BY <2>2, <2>3
<1>7. CASE Gather("DIN_SEEDING", seed_gnt, "SEEDED", 0)
  <2>1. seedfsm = "DIN_SEEDING" /\ ~chacha_ready /\ ~chacha_ready'
    BY <1>3, <1>7 DEF Gather
  <2>2. CASE seed_ctr = 0
    <3>1. seedfsm' = "SEEDED" /\ stirred' = stirred
      BY <1>1, <1>c, <1>7, <2>1, <2>2 DEF Gather
    <3> QED BY <1>2, <1>3, <1>a, <1>b, <2>1, <2>2, <3>1 DEF Counted
  <2>3. CASE seed_ctr # 0
    <3>1. /\ seedfsm' = "DIN_SEEDING"
          /\ seed_ctr' = IF rising THEN seed_ctr - 1 ELSE seed_ctr
          /\ stirred' = IF rising THEN stirred + 1 ELSE stirred
      BY <1>1, <1>c, <1>7, <2>1, <2>3, Zenon DEF Gather
    <3> QED BY <1>2, <1>3, <1>a, <1>b, <2>1, <2>3, <3>1 DEF Counted
  <2> QED BY <2>2, <2>3
<1>8. CASE Seeded(core)
  BY <1>b, <1>c, <1>1, <1>2, <1>3, <1>8 DEF Seeded, Counted, Asking
<1>9. CASE WaitInit(core)
  BY <1>b, <1>c, <1>1, <1>2, <1>3, <1>9 DEF WaitInit, Counted, Asking
<1>10. CASE Run(advance_block)
  <2>1. seedfsm = "RUN" /\ seedfsm' \in {"RUN", "RUN_RESEED"} /\ chacha_ready' = chacha_ready
    BY <1>10 DEF Run
  <2> QED BY <1>c, <1>1, <1>2, <1>3, <2>1 DEF Counted, Asking
<1>11. CASE RunReseed(seed_gnt)
  <2>1. seedfsm = "RUN_RESEED" /\ seedfsm' \in {"RUN", "RUN_RESEED"} /\ chacha_ready' = chacha_ready
    BY <1>11 DEF RunReseed
  <2> QED BY <1>1, <1>2, <1>3, <2>1 DEF Counted
<1> QED BY <1>4, <1>5, <1>6, <1>7, <1>8, <1>9, <1>10, <1>11 DEF SeedFsm

(* A cycle of the FIFO: a word leaves it exactly when one is being popped. *)
LEMMA PopStep ==
  ASSUME TypeOK, NEW data_we, NEW wren, ReadSide(data_we), WriteSide(wren)
  PROVE  /\ popped' = IF Popping THEN popped + 1 ELSE popped
         /\ popped' = popped /\ ~kernel_fifo_empty => ~kernel_fifo_empty'
         /\ popped' \in Nat /\ popped \in Nat
<1>1. popped' = IF Popping THEN popped + 1 ELSE popped
  BY DEF ReadSide, Popping
<1>2. written' \in {written, written + 1}
  BY DEF WriteSide
<1> QED BY <1>1, <1>2, Numbers DEF kernel_fifo_empty

(* The seed control stirs each word in before the arbiter hands out another. *)
LEMMA RetiredStep == ASSUME SeedInv, Next PROVE Retired'
<1> USE DEF SeedInv
<1>0. PICK data_we, clr_err, wren, advance_block, core \in BOOLEAN :
        Cycle(data_we, clr_err, wren, advance_block, core)
  BY NextCycle
<1>1. /\ last_seed' = IF rising THEN seed_buf ELSE last_seed
      /\ stirred' = IF rising /\ ~chacha_ready THEN stirred + 1 ELSE stirred
  BY <1>0, StirStep DEF Cycle
<1>2. /\ popped' = IF Popping THEN popped + 1 ELSE popped
      /\ popped' = popped /\ ~kernel_fifo_empty => ~kernel_fifo_empty'
      /\ popped' \in Nat /\ popped \in Nat
  BY <1>0, PopStep DEF Cycle
<1>3. /\ seed_gnt_r' = seed_gnt /\ seed_gnt' = (seed_req /\ ~kernel_fifo_empty)
      /\ seed_buf' = IF seed_req /\ ~kernel_fifo_empty THEN popped ELSE seed_buf
  BY <1>0 DEF Cycle, SeedFsm, SeedGrant, dout
<1>4. seed_buf \in Nat /\ last_seed \in Nat /\ stirred \in Nat
  BY Numbers
<1>5. seed_buf' <= popped' /\ last_seed' <= popped'
  BY <1>1, <1>2, <1>3, <1>4 DEF Retired
<1>6. ASSUME rising'
      PROVE (seed_buf' > last_seed' \/ stirred' = 0) /\ (popped' > seed_buf' \/ ~kernel_fifo_empty')
  <2>1. seed_req /\ ~kernel_fifo_empty /\ ~seed_gnt
    BY <1>3, <1>6, Zenon DEF rising, seed_gnt_rising
  <2>2. ~rising
    BY <2>1 DEF rising, seed_gnt_rising
  <2>3. last_seed' = last_seed /\ stirred' = stirred /\ seed_buf' = popped
    BY <1>1, <1>3, <2>1, <2>2
  <2>4. popped > last_seed \/ stirred = 0
    BY <2>1, Zenon DEF Retired
  <2> QED BY <1>2, <1>4, <2>1, <2>3, <2>4
<1>7. stirred' = 0 \/ popped' > last_seed' \/ (Popping' /\ ~seed_req' /\ seed_gnt_r')
  <2>1. CASE rising
    <3>1. popped' > seed_buf \/ (~kernel_fifo_empty /\ popped' = popped)
      BY <1>2, <1>4, <2>1 DEF Retired, Popping
    <3>2. ASSUME ~kernel_fifo_empty, popped' = popped
          PROVE  Popping' /\ ~seed_req' /\ seed_gnt_r'
      <4>1. pop(data_we) /\ seed_gnt
        BY <2>1 DEF pop, rising, seed_gnt_rising
      <4>2. kernel_fifo_rden'
        BY <1>0, <3>2, <4>1 DEF Cycle, ReadSide
      <4>3. ~seed_req'
        BY <1>0, <2>1, RequestStep DEF Cycle
      <4> QED BY <1>2, <1>3, <3>2, <4>1, <4>2, <4>3 DEF Popping
    <3> QED BY <1>1, <2>1, <3>1, <3>2
  <2>2. CASE ~rising
    <3>1. last_seed' = last_seed /\ stirred' = stirred
      BY <1>1, <2>2
    <3> QED BY <1>2, <1>4, <3>1 DEF Retired
  <2> QED BY <2>1, <2>2
<1> QED BY <1>5, <1>6, <1>7 DEF Retired

(* Out of reset nothing is asked for and nothing is stirred in. *)
LEMMA InitSeedInv == Init => SeedInv
<1> SUFFICES ASSUME Init PROVE SeedInv
  OBVIOUS
<1> USE DEF Init, SeedInit
<1>1. TypeOK
  <2>1. 0 \in 0..MaxWords /\ 0 \in 0..MaxUnderrun /\ 16 \in 0..31
    BY DepthAssumption, UnderrunAssumption
  <2>2. {seed_req, seed_gnt, seed_gnt_r, chacha_ready, kernel_fifo_rden, buffered_avail,
         avail, polled} \subseteq BOOLEAN
    BY Zenon
  <2>3. lowered \in BOOLEAN /\ since \in Nat /\ stirred \in Nat
    OBVIOUS
  <2> QED BY <2>1, <2>2, <2>3 DEF TypeOK
<1>2. Handshake /\ Retired
  BY DEF Handshake, Retired, rising, seed_gnt_rising, Asking
<1>3. Counted
  BY DEF Counted
<1> QED BY <1>1, <1>2, <1>3 DEF SeedInv

(* A cycle keeps the handshake, the count and the retired words in step. *)
LEMMA SeedInvStep == SeedInv /\ [Next]_vars => SeedInv'
<1> SUFFICES ASSUME SeedInv, [Next]_vars PROVE SeedInv'
  OBVIOUS
<1>1. CASE Next
  BY <1>1, TypeStep, HandshakeStep, CountedStep, RetiredStep DEF SeedInv
<1>2. CASE UNCHANGED vars
  BY <1>2 DEF vars, seedVars, fifoVars, cpuVars, histVars, SeedInv, TypeOK, Handshake,
              Counted, Retired, rising, seed_gnt_rising, Popping, kernel_fifo_empty
<1> QED BY <1>1, <1>2

(* The seed control, the arbiter and the FIFO keep the invariant, at any depth. *)
THEOREM SeedInvariance == Spec => []SeedInv
  BY InitSeedInv, SeedInvStep, PTL DEF Spec

(* For every size of the pool and of the blinding input, every FIFO depth and *)
(* whatever software writes to the interval: the registers stay in range and  *)
(* the conditioner is ready only when every word has been stirred in.         *)
THEOREM KeyPoolSoundCorrect == Spec => []KeyPoolSound
<1>1. SeedInv => KeyPoolSound
  <2> SUFFICES ASSUME SeedInv, chacha_ready PROVE FullySeeded
    BY DEF SeedInv, KeyPoolSound, FullySeeded
  <2>1. stirred = SeedWords + DinWords
    BY DEF SeedInv, Counted, Total
  <2>2. SeedWords + DinWords > 0 /\ SeedWords \in Nat /\ DinWords \in Nat
    BY SeedAssumption
  <2> QED BY <2>1, <2>2 DEF SeedInv, Counted, FullySeeded
<1> QED BY <1>1, SeedInvariance, PTL

(* No TRNG word is stirred in twice, for any depth of the FIFO. *)
THEOREM SeedWordsFreshCorrect == Spec => SeedWordsFresh
<1> DEFINE Fresh == last_seed' # last_seed \/ Stir(seed_gnt) => last_seed' > last_seed \/ stirred = 0
<1>1. ASSUME SeedInv, [Next]_vars PROVE [Fresh]_vars
  <2>1. CASE UNCHANGED vars
    BY <2>1
  <2>2. CASE Next
    <3>0. PICK data_we, clr_err, wren, advance_block, core \in BOOLEAN :
            Cycle(data_we, clr_err, wren, advance_block, core)
      BY <2>2, NextCycle
    <3>1. last_seed' = IF rising THEN seed_buf ELSE last_seed
      BY <1>1, <3>0, StirStep DEF Cycle, SeedInv
    <3>2. Stir(seed_gnt) => rising
      BY DEF Stir, rising
    <3>3. rising => seed_buf > last_seed \/ stirred = 0
      BY <1>1 DEF SeedInv, Retired
    <3> QED BY <3>1, <3>2, <3>3
  <2> QED BY <1>1, <2>1, <2>2
<1> QED BY <1>1, SeedInvariance, PTL DEF Spec, SeedWordsFresh

-----------------------------------------------------------------------------
ReadInv == SeedInv /\ DataOld /\ Served

(* The data register of the CPU holds a word that has been at the output already. *)
LEMMA DataOldStep == ASSUME TypeOK, Next PROVE DataOld'
<1>0. PICK data_we, clr_err, wren, advance_block, core \in BOOLEAN :
        Cycle(data_we, clr_err, wren, advance_block, core)
  BY NextCycle
<1>1. /\ popped' = IF Popping THEN popped + 1 ELSE popped
      /\ popped' = popped /\ ~kernel_fifo_empty => ~kernel_fifo_empty'
      /\ popped' \in Nat /\ popped \in Nat
  BY <1>0, PopStep DEF Cycle
<1>2. kernel_data' = IF kernel_fifo_empty THEN 0 ELSE popped
  BY <1>0 DEF Cycle, ReadSide, dout
<1> QED BY <1>1, <1>2 DEF DataOld

(* The CPU between two reads: it is told of a word only by a poll, and what  *)
(* it is told of is two cycles old.                                          *)
LEMMA PollStep ==
  ASSUME TypeOK, NEW data_we \in BOOLEAN, Access(data_we), Avail
  PROVE  /\ data_we => polled /\ ~polled' /\ bus' = "read"
         /\ data_we => last_kernel' = IF kernel_data = 0 THEN last_kernel ELSE kernel_data
         /\ ~data_we => last_kernel' = last_kernel /\ bus' # "read"
         /\ ~data_we /\ Unseen => ~polled'
         /\ avail' = buffered_avail
         /\ buffered_avail' = (~kernel_fifo_empty /\ ~seed_req)
<1>1. avail' = buffered_avail /\ buffered_avail' = (~kernel_fifo_empty /\ ~seed_req)
  BY DEF Avail
<1>2. CASE data_we
  BY <1>1, <1>2 DEF Access, ReadData
<1>3. CASE ~data_we
  BY <1>1, <1>3 DEF Access, NoAccess, PollAvail, ClearErrors, SetInterval, Unseen
<1> QED BY <1>2, <1>3

(* A word that was read is gone from the output before the CPU reads again:  *)
(* its pop, or that of the seed control which has taken the same word, and   *)
(* the poll that must come in between are never all late.                    *)
LEMMA ServedStep == ASSUME ReadInv, Next PROVE Served'
<1> USE DEF ReadInv, SeedInv
<1>0. PICK data_we, clr_err, wren, advance_block, core \in BOOLEAN :
        Cycle(data_we, clr_err, wren, advance_block, core) /\ Access(data_we)
  BY NextCycle
<1>1. /\ popped' = IF Popping THEN popped + 1 ELSE popped
      /\ popped' = popped /\ ~kernel_fifo_empty => ~kernel_fifo_empty'
      /\ popped' \in Nat /\ popped \in Nat
  BY <1>0, PopStep DEF Cycle
<1>2. /\ data_we => polled /\ ~polled' /\ bus' = "read"
      /\ data_we => last_kernel' = IF kernel_data = 0 THEN last_kernel ELSE kernel_data
      /\ ~data_we => last_kernel' = last_kernel /\ bus' # "read"
      /\ ~data_we /\ Unseen => ~polled'
      /\ avail' = buffered_avail
      /\ buffered_avail' = (~kernel_fifo_empty /\ ~seed_req)
  BY <1>0, PollStep DEF Cycle, ReadSide
<1>3. last_kernel \in Nat /\ kernel_data \in Nat
  BY Numbers
<1>4. /\ kernel_data' = IF kernel_fifo_empty THEN 0 ELSE popped
      /\ ~kernel_fifo_empty /\ pop(data_we) => kernel_fifo_rden'
  BY <1>0 DEF Cycle, ReadSide, dout
<1>5. seed_req /\ ~rising => seed_req'
  BY <1>0, RequestStep DEF Cycle
<1>6. seed_gnt' => ~kernel_fifo_empty
  BY <1>0 DEF Cycle, SeedGrant
<1>7. (data_we /\ ~seed_req) \/ rising => pop(data_we)
  BY DEF pop, rising, seed_gnt_rising
<1>8. last_kernel' <= popped'
  BY <1>1, <1>2, <1>3 DEF Served, DataOld
<1>9. CASE data_we /\ kernel_data # 0
  <2>1. ~polled' /\ bus' = "read" /\ last_kernel' = kernel_data
    BY <1>2, <1>9
  <2>2. CASE popped' # kernel_data
    BY <1>1, <1>3, <1>8, <1>9, <2>1, <2>2 DEF Served
  <2>3. CASE popped' = kernel_data
    <3>1. popped' = popped /\ popped = kernel_data /\ ~kernel_fifo_empty /\ ~kernel_fifo_empty'
      BY <1>1, <1>3, <1>9, <2>3 DEF DataOld
    <3>2. CASE pop(data_we)
      <4>1. Popping' /\ Unseen'
        BY <1>4, <2>1, <3>1, <3>2 DEF Popping, Unseen
      <4> QED BY <1>8, <2>1, <2>3, <4>1 DEF Served
    <3>3. CASE ~pop(data_we)
      <4>1. seed_req /\ ~rising
        BY <1>7, <1>9, <3>3
      <4>2. Unseen' /\ ~buffered_avail' /\ seed_req'
        BY <1>2, <1>5, <2>1, <4>1 DEF Unseen
      <4> QED BY <1>8, <2>1, <2>3, <3>1, <4>2 DEF Served
    <3> QED BY <3>2, <3>3
  <2> QED BY <2>2, <2>3
<1>10. CASE data_we /\ kernel_data = 0
  <2>1. last_kernel' = last_kernel /\ ~polled' /\ polled
    BY <1>2, <1>10
  <2>2. last_kernel = 0 \/ popped > last_kernel
    BY <2>1 DEF Served, Unseen
  <2> QED BY <1>1, <1>3, <1>8, <2>1, <2>2 DEF Served
<1>11. CASE ~data_we
  <2>0. last_kernel' = last_kernel
    BY <1>2, <1>11
  <2>1. CASE last_kernel = 0
    BY <1>8, <2>0, <2>1 DEF Served
  <2>2. CASE popped = last_kernel /\ Unseen /\ ~buffered_avail /\ seed_req
             /\ (seed_gnt => ~kernel_fifo_empty)
    <3>1. ~polled' /\ ~avail' /\ Unseen' /\ ~buffered_avail'
      BY <1>2, <1>11, <2>2 DEF Unseen
    <3>2. CASE popped' # popped
      <4>1. popped' > last_kernel'
        BY <1>1, <1>3, <2>0, <2>2, <3>2
      <4> QED BY <1>8, <3>1, <4>1 DEF Served
    <3>3. CASE popped' = popped /\ rising
      <4>1. ~kernel_fifo_empty /\ pop(data_we)
        BY <1>7, <2>2, <3>3 DEF rising, seed_gnt_rising
      <4>2. Popping'
        BY <1>1, <1>4, <3>3, <4>1 DEF Popping
      <4> QED BY <1>8, <2>0, <2>2, <3>1, <3>3, <4>2 DEF Served
    <3>4. CASE popped' = popped /\ ~rising
      <4>1. seed_req' /\ (seed_gnt' => ~kernel_fifo_empty')
        BY <1>1, <1>5, <1>6, <2>2, <3>4
      <4> QED BY <1>8, <2>0, <2>2, <3>1, <3>4, <4>1 DEF Served
    <3> QED BY <3>2, <3>3, <3>4
  <2>3. CASE popped = last_kernel /\ Unseen /\ Popping
    <3>1. popped' > last_kernel' /\ ~polled'
      BY <1>1, <1>2, <1>3, <1>11, <2>0, <2>3
    <3> QED BY <1>8, <3>1 DEF Served
  <2>4. CASE popped > last_kernel
    <3>1. popped' > last_kernel' /\ (kernel_data' = 0 \/ kernel_data' > last_kernel')
      BY <1>1, <1>3, <1>4, <2>0, <2>4
    <3> QED BY <1>8, <3>1 DEF Served
  <2> QED BY <2>1, <2>2, <2>3, <2>4 DEF Served
<1> QED BY <1>9, <1>10, <1>11

(* What the kernel has read is off the FIFO, or will be before it reads again. *)
THEOREM ReadInvariance == Spec => []ReadInv
<1>1. Init => ReadInv
  <2> SUFFICES ASSUME Init PROVE DataOld /\ Served
    BY InitSeedInv DEF ReadInv
  <2> QED BY DEF Init, DataOld, Served
<1>2. ReadInv /\ [Next]_vars => ReadInv'
  <2> SUFFICES ASSUME ReadInv, [Next]_vars PROVE ReadInv'
    OBVIOUS
  <2>1. SeedInv'
    BY SeedInvStep DEF ReadInv
  <2>2. CASE Next
    BY <2>1, <2>2, DataOldStep, ServedStep DEF ReadInv, SeedInv
  <2>3. CASE UNCHANGED vars
    BY <2>1, <2>3 DEF vars, seedVars, fifoVars, cpuVars, ReadInv, DataOld, Served, Unseen,
                      Popping, kernel_fifo_empty
  <2> QED BY <2>2, <2>3
<1> QED BY <1>1, <1>2, PTL DEF Spec

(* Whenever the seed control reaches into the FIFO between two reads, a CPU   *)
(* that polls first is never given the same word again.                       *)
THEOREM NoKernelRepeatCorrect == Spec => NoKernelRepeat
<1> DEFINE Once == bus' = "read" /\ kernel_data # 0 => kernel_data > last_kernel
<1>1. ASSUME ReadInv, [Next]_vars PROVE [Once]_vars
  <2>1. CASE UNCHANGED vars
    BY <2>1
  <2>2. CASE Next
    <3> SUFFICES ASSUME bus' = "read", kernel_data # 0 PROVE kernel_data > last_kernel
      OBVIOUS
    <3>0. PICK data_we, clr_err, wren, advance_block, core \in BOOLEAN :
            Cycle(data_we, clr_err, wren, advance_block, core) /\ Access(data_we)
      BY <2>2, NextCycle
    <3>1. polled
      BY <1>1, <3>0, PollStep DEF Cycle, ReadSide, ReadInv, SeedInv
    <3>2. kernel_data \in Nat
      BY <1>1, Numbers DEF ReadInv, SeedInv
    <3> QED BY <1>1, <3>1, <3>2 DEF ReadInv, Served, Unseen
  <2> QED BY <1>1, <2>1, <2>2
<1> QED BY <1>1, ReadInvariance, PTL DEF Spec, NoKernelRepeat

-----------------------------------------------------------------------------
(* A step of the count: it starts again with the rotation, counts each block *)
(* asked for until it is as large as the interval, and software that sets an *)
(* interval no larger is noticed.                                            *)
rotated == seedfsm = "RUN_RESEED" /\ rising
LEMMA SinceStep ==
  ASSUME TypeOK, NEW advance_block \in BOOLEAN, History(advance_block)
  PROVE  /\ rotated => since' = 0 /\ ~lowered'
         /\ ~rotated /\ ~(advance_block /\ reseed_interval # 0) => since' = since
         /\ ~rotated /\ advance_block /\ since < reseed_interval => since' = since + 1
         /\ ~rotated /\ ~lowered' => ~lowered
         /\ ~rotated /\ ~lowered' /\ reseed_interval' # reseed_interval /\ reseed_interval' # 0
              => ~(since' >= reseed_interval')
         /\ ~rotated /\ ~lowered /\ ~(reseed_interval' # 0 /\ since' >= reseed_interval')
              => ~lowered'
<1>1. rotated <=> seedfsm = "RUN_RESEED" /\ Stir(seed_gnt)
  BY DEF rotated, rising, Stir
<1>2. since \in Nat /\ reseed_interval \in Nat /\ reseed_interval \in Intervals
  BY Numbers DEF TypeOK
<1>3. ~rotated /\ advance_block /\ since < reseed_interval => since' = since + 1
  BY <1>1, <1>2 DEF History
<1> QED BY <1>1, <1>3, Zenon DEF History

(* While blocks may still be asked for, the interval is not reached unless it *)
(* was lowered.                                                              *)
LEMMA OnTimeStep == ASSUME SeedInv, OnTime, Next PROVE OnTime'
<1> USE DEF Running
<1>0. PICK data_we, clr_err, wren, advance_block, core \in BOOLEAN :
        Cycle(data_we, clr_err, wren, advance_block, core) /\ Access(data_we)
  BY NextCycle
<1>1. /\ rotated => since' = 0 /\ ~lowered'
      /\ ~rotated /\ ~(advance_block /\ reseed_interval # 0) => since' = since
      /\ ~rotated /\ advance_block /\ since < reseed_interval => since' = since + 1
      /\ ~rotated /\ ~lowered' => ~lowered
      /\ ~rotated /\ ~lowered' /\ reseed_interval' # reseed_interval /\ reseed_interval' # 0
           => ~(since' >= reseed_interval')
      /\ ~rotated /\ ~lowered /\ ~(reseed_interval' # 0 /\ since' >= reseed_interval')
           => ~lowered'
  BY <1>0, SinceStep DEF Cycle, SeedInv
<1>2. /\ since \in Nat /\ since' \in Nat /\ reseed_ctr \in Nat
      /\ reseed_interval \in Nat /\ reseed_interval' \in Nat
  <2>1. TypeOK'
    BY TypeStep DEF SeedInv
  <2> QED BY <2>1, Numbers, IntervalAssumption DEF TypeOK, SeedInv
<1>3. seedfsm \notin Running => ~advance_block
  BY <1>0 DEF Cycle, SeedInv, Counted
<1>4. SeedFsm(seed_gnt, advance_block, core, core)
  BY <1>0 DEF Cycle
<1>5. CASE seedfsm \notin Running
  <2>1. since' = 0
    BY <1>1, <1>3, <1>5 DEF OnTime, rotated
  <2>2. ~lowered'
    BY <1>1, <1>2, <1>5, <2>1 DEF OnTime, rotated
  <2>3. seedfsm' # "RUN_RESEED"
    BY <1>4, <1>5 DEF SeedFsm, Reset, Gather, Seeded, WaitInit, Run, RunReseed
  <2>4. seedfsm' # "RESET" => reseed_ctr' = 1
    BY <1>2, <1>4, <1>5 DEF SeedFsm, Reset, Gather, Seeded, WaitInit, Run, RunReseed, OnTime
  <2> QED BY <1>2, <2>1, <2>2, <2>3, <2>4 DEF OnTime
<1>6. CASE seedfsm = "RUN"
  <2>1. Run(advance_block) /\ ~rotated
    BY <1>4, <1>6 DEF SeedFsm, Reset, Gather, Seeded, WaitInit, RunReseed, rotated
  <2>2. CASE Due(advance_block)
    BY <2>1, <2>2 DEF Run, OnTime
  <2>3. CASE ~Due(advance_block)
    <3>1. seedfsm' = "RUN"
      BY <2>1, <2>3 DEF Run
    <3> SUFFICES ASSUME ~lowered'
                 PROVE  /\ reseed_ctr' = since' + 1
                        /\ reseed_interval' = 0 \/ since' < reseed_interval'
      BY <3>1 DEF OnTime
    <3>2. /\ ~lowered /\ reseed_ctr = since + 1
          /\ reseed_interval = 0 \/ since < reseed_interval
      BY <1>1, <1>6, <2>1 DEF OnTime
    <3>3. CASE advance_block /\ reseed_interval # 0
      <4>1. since' = since + 1 /\ reseed_ctr' = reseed_ctr + 1 /\ reseed_ctr < reseed_interval
        BY <1>1, <1>2, <2>1, <2>3, <3>2, <3>3 DEF Run, Due
      <4> QED BY <1>1, <1>2, <2>1, <3>2, <4>1
    <3>4. CASE ~(advance_block /\ reseed_interval # 0)
      <4>1. since' = since /\ reseed_ctr' = reseed_ctr
        BY <1>1, <1>2, <2>1, <2>3, <3>4 DEF Run
      <4> QED BY <1>1, <1>2, <2>1, <3>2, <4>1
    <3> QED BY <3>3, <3>4
  <2> QED BY <2>2, <2>3
<1>7. CASE seedfsm = "RUN_RESEED"
  <2>1. RunReseed(seed_gnt)
    BY <1>4, <1>7 DEF SeedFsm, Reset, Gather, Seeded, WaitInit, Run
  <2>2. reseed_ctr' = 1
    BY <1>7, <2>1 DEF RunReseed, OnTime
  <2>3. CASE rising
    <3>1. since' = 0 /\ ~lowered' /\ seedfsm' = "RUN"
      BY <1>1, <1>7, <2>1, <2>3 DEF RunReseed, rotated, rising
    <3> QED BY <1>2, <2>2, <3>1 DEF OnTime
  <2>4. CASE ~rising
    <3>1. seedfsm' = "RUN_RESEED"
      BY <2>1, <2>4 DEF RunReseed, rising
    <3> QED BY <2>2, <3>1 DEF OnTime
  <2> QED BY <2>3, <2>4
<1> QED BY <1>5, <1>6, <1>7

(* For every interval, and whatever software writes to it: once so many       *)
(* blocks were asked for since the last rotation, the next one is on its way, *)
(* unless software has set an interval that the count had reached before.    *)
THEOREM RotationDueCorrect == Spec => []RotationDue
<1> DEFINE TimeInv == SeedInv /\ OnTime
<1>1. Init => TimeInv
  <2> SUFFICES ASSUME Init PROVE OnTime
    BY InitSeedInv
  <2>1. reseed_interval \in Nat
    BY IntervalAssumption DEF Init, SeedInit
  <2> QED BY <2>1 DEF Init, SeedInit, OnTime, Running
<1>2. TimeInv /\ [Next]_vars => TimeInv'
  <2> SUFFICES ASSUME SeedInv, OnTime, [Next]_vars PROVE OnTime'
    BY SeedInvStep
  <2>1. CASE Next
    BY <2>1, OnTimeStep
  <2>2. CASE UNCHANGED vars
    BY <2>2 DEF vars, seedVars, histVars, OnTime
  <2> QED BY <2>1, <2>2
<1>3. TimeInv => RotationDue
  <2> SUFFICES ASSUME SeedInv, OnTime PROVE RotationDue
    OBVIOUS
  <2>1. since \in Nat /\ reseed_interval \in Nat
    BY Numbers DEF SeedInv
  <2> QED BY <2>1 DEF OnTime, RotationDue
<1> HIDE DEF TimeInv
<1> QED BY <1>1, <1>2, <1>3, PTL DEF Spec
=============================================================================
