------------------------- MODULE MCAlwaysOn_proofs -------------------------
(***************************************************************************)
(* The blocks of the always-on clocks: a timer that software sees paused   *)
(* stands still, for every clkspertick of two or more, and the keyboard    *)
(* scanner shows the keys as they were, for every matrix.                  *)
(***************************************************************************)
EXTENDS MCAlwaysOn, TLAPS

-----------------------------------------------------------------------------
(* The timer. *)

(* What the code has: a tick takes cycles of the always-on clock, and that   *)
(* clock is at most half as fast as sys.                                     *)
SlowTicks == clkspertick >= 2 /\ MinGap >= 2

PauseTypes ==
  /\ prescaler \in 0..clkspertick /\ since \in Nat
  /\ pause \in BOOLEAN /\ paused \in BOOLEAN
  /\ pause_ao \in BOOLEAN \X BOOLEAN /\ paused_sys \in BOOLEAN \X BOOLEAN

(* What sys sees lags by a cycle, and only behind a tick. *)
Arriving == /\ paused_sys[1] = paused
            /\ paused_sys[2] # paused => prescaler = clkspertick /\ since = 0

(* A pause that is reported has reached the counter, or will before the next *)
(* tick.                                                                     *)
Held == pause /\ (paused \/ paused_sys[2]) => /\ pause_ao[1] \/ prescaler >= 2
                                              /\ pause_ao[2] \/ prescaler >= 1

PauseInv == PauseTypes /\ Arriving /\ Held

(* What a cycle does to what Held speaks of: software pauses only when the   *)
(* pause before is seen to be over, and paused follows at a tick.            *)
LEMMA PauseMoves ==
  ASSUME TickAssumption, SlowTicks, PauseTypes, Cycle
  PROVE  /\ pause' \in BOOLEAN /\ (pause' /\ ~pause => ~paused_sys[2])
         /\ paused_sys' = <<paused', paused_sys[1]>>
         /\ \/ /\ since >= 1 /\ since' = 0 /\ pause_ao' = <<pause, pause_ao[1]>>
               /\ prescaler' \in {clkspertick, prescaler - 1} /\ prescaler' \in 0..clkspertick
               /\ \/ paused' = paused
                  \/ paused' = pause_ao[2] /\ prescaler' = clkspertick
            \/ /\ since' = since + 1
               /\ UNCHANGED <<prescaler, pause_ao, paused>>
<1>1. pause' \in BOOLEAN /\ (pause' /\ ~pause => ~paused_sys[2])
  <2>1. Software
    BY DEF Cycle
  <2>2. CASE pause' = pause
    BY <2>2 DEF PauseTypes
  <2>3. CASE Pause
    <3>1. pause' = ~pause /\ (pause' => ~paused_sys[2])
      BY <2>3 DEF Pause
    <3>. QED  BY <3>1
  <2>. QED  BY <2>1, <2>2, <2>3 DEF Software, Reset, SetTarget, Load, NoAccess
<1>2. paused_sys' = <<paused', paused_sys[1]>>
  BY DEF Cycle, Paused, Through
<1>3. PICK edge \in BOOLEAN : /\ edge => since + 1 >= MinGap
                             /\ Ao(edge)
  BY DEF Cycle
<1>4. CASE edge
  <2>1. Count /\ since' = 0 /\ pause_ao' = <<pause, pause_ao[1]>> /\ since >= 1
    BY <1>3, <1>4 DEF Ao, Through, SlowTicks, PauseTypes, TickAssumption
  <2>2. CASE reset_xfer.there.o
    BY <2>1, <2>2, <1>1, <1>2 DEF Count, TickAssumption
  <2>3. CASE ~reset_xfer.there.o /\ load_xfer.there.o
    BY <2>1, <2>3, <1>1, <1>2 DEF Count, TickAssumption
  <2>4. CASE ~reset_xfer.there.o /\ ~load_xfer.there.o
    <3>1. /\ prescaler' = IF prescaler = 0 THEN clkspertick ELSE prescaler - 1
          /\ paused' = IF prescaler = 0 THEN pause_ao[2] ELSE paused
      BY <2>1, <2>4 DEF Count, tick
    <3>. QED  BY <3>1, <2>1, <1>1, <1>2 DEF PauseTypes, TickAssumption
  <2>. QED  BY <2>2, <2>3, <2>4
<1>5. CASE ~edge
  BY <1>1, <1>2, <1>3, <1>5 DEF Ao, aoVars
<1>. QED  BY <1>4, <1>5

(* A cycle preserves it: a pause is seen before the next tick.               *)
LEMMA PauseStep ==
  ASSUME TickAssumption, SlowTicks, PauseInv, Cycle
  PROVE  PauseInv'
<1>. USE DEF SlowTicks, PauseInv
<1>1. PauseTypes /\ Arriving /\ Held
  OBVIOUS
<1>2. /\ pause' \in BOOLEAN /\ (pause' /\ ~pause => ~paused_sys[2])
      /\ paused_sys' = <<paused', paused_sys[1]>>
  BY PauseMoves
<1>3. clkspertick \in Nat
  BY DEF TickAssumption
<1>4. paused_sys'[1] = paused' /\ paused_sys'[2] = paused
  BY <1>1, <1>2 DEF Arriving, PauseTypes
<1>5. CASE /\ since >= 1 /\ since' = 0 /\ pause_ao' = <<pause, pause_ao[1]>>
           /\ prescaler' \in {clkspertick, prescaler - 1} /\ prescaler' \in 0..clkspertick
           /\ \/ paused' = paused
              \/ paused' = pause_ao[2] /\ prescaler' = clkspertick
  <2>1. paused_sys[2] = paused
    BY <1>1, <1>5 DEF Arriving, PauseTypes
  <2>2. PauseTypes'
    BY <1>1, <1>2, <1>5 DEF PauseTypes, Arriving
  <2>3. Arriving'
    BY <1>1, <1>4, <1>5 DEF Arriving
  <2>4. Held'
    <3>1. pause_ao'[1] = pause /\ pause_ao'[2] = pause_ao[1]
      BY <1>5
    <3>2. CASE prescaler' = clkspertick
      BY <3>2, <1>3 DEF Held
    <3>3. CASE prescaler' = prescaler - 1 /\ paused' = paused
      BY <3>1, <3>3, <2>1, <1>1, <1>2, <1>3, <1>4 DEF Held, PauseTypes
    <3>. QED  BY <3>2, <3>3, <1>5
  <2>. QED  BY <2>2, <2>3, <2>4
<1>6. CASE since' = since + 1 /\ UNCHANGED <<prescaler, pause_ao, paused>>
  <2>1. PauseTypes'
    BY <1>1, <1>2, <1>6 DEF PauseTypes, Arriving
  <2>2. Arriving'
    BY <1>4, <1>6 DEF Arriving
  <2>3. Held'
    BY <1>1, <1>2, <1>3, <1>4, <1>6 DEF Held, Arriving, PauseTypes
  <2>. QED  BY <2>1, <2>2, <2>3
<1>. QED  BY <1>5, <1>6, PauseMoves

(* While sys sees the timer paused it does not count; only reset and load    *)
(* move it, for every clkspertick of two or more (ticktimer.py:50).          *)
THEOREM PausedMeansStoppedCorrect ==
  ASSUME TickAssumption, SlowTicks
  PROVE  Spec => PausedMeansStopped
<1>1. Init => PauseInv
  <2>1. SUFFICES ASSUME Init PROVE PauseInv
    OBVIOUS
  <2>2. /\ prescaler = clkspertick /\ since = 0 /\ pause = FALSE /\ paused = FALSE
        /\ pause_ao = <<FALSE, FALSE>> /\ paused_sys = <<FALSE, FALSE>>
    BY <2>1 DEF Init
  <2>3. prescaler \in 0..clkspertick
    BY <2>2 DEF TickAssumption
  <2>. QED  BY <2>2, <2>3 DEF PauseInv, PauseTypes, Arriving, Held
<1>2. PauseInv /\ [Next]_vars => PauseInv'
  <2>1. PauseInv /\ Next => PauseInv'
    BY PauseStep DEF Next
  <2>2. PauseInv /\ UNCHANGED vars => PauseInv'
    BY DEF PauseInv, PauseTypes, Arriving, Held, vars, aoVars, softVars
  <2>. QED  BY <2>1, <2>2
<1>3. PauseInv /\ [Next]_vars =>
        [pause /\ paused_sys[2] => \/ timer' = timer
                                   \/ reset_xfer.there.o \/ load_xfer.there.o]_vars
  <2>1. SUFFICES ASSUME PauseInv, Next, pause, paused_sys[2],
                        ~reset_xfer.there.o, ~load_xfer.there.o
                 PROVE  timer' = timer
    OBVIOUS
  <2>2. PICK edge \in BOOLEAN : Ao(edge)
    BY <2>1 DEF Next, Cycle
  <2>3. prescaler = 0 => pause_ao[2]
    BY <2>1 DEF PauseInv, Held
  <2>4. CASE edge
    BY <2>1, <2>2, <2>3, <2>4 DEF Ao, Count, tick
  <2>5. CASE ~edge
    BY <2>2, <2>5 DEF Ao, aoVars
  <2>. QED  BY <2>4, <2>5
<1>. QED  BY <1>1, <1>2, <1>3, PTL DEF Spec, PausedMeansStopped

-----------------------------------------------------------------------------
(* The keyboard. *)

ScanTypes ==
  /\ colcount \in 0..lastCount
  /\ keys \subseteq Key /\ touched \subseteq Key /\ held \subseteq Key /\ row_scan \subseteq Key
  /\ rows_m \subseteq Rows /\ rows \subseteq Rows
  /\ scan_done \in BOOLEAN /\ reset_scan \in BOOLEAN

(* Where in the scan what happens; the first scan begins without a reset. *)
Places ==
  /\ scan_done <=> colcount = columns + 1
  /\ reset_scan => colcount = 0
  /\ update_shadow => colcount = lastCount
  /\ colcount = 0 /\ ~reset_scan => touched = {} /\ held = {} /\ row_scan = {}

(* What came in of column j, beside the keys as they have been in this scan. *)
SeenIn(S, j, T, H) == \A r \in Rows : /\ r \in S => <<r, j>> \in T
                                      /\ <<r, j>> \in H => r \in S

Sampling ==
  colcount < columns =>
    /\ colcount % settling # 0 => /\ col_r = {colcount \div settling}
                                  /\ SeenIn(rows_m, colcount \div settling, touched, held)
    /\ colcount % settling \in {2, 3} => SeenIn(rows, colcount \div settling, touched, held)

Scanned ==
  colcount # 0 => /\ row_scan \subseteq touched
                  /\ \A k \in held : settling * k[2] + 3 < colcount => k \in row_scan

ScanInv == ScanTypes /\ Places /\ Sampling /\ Scanned

(* An acknowledgement is on its way to the scan, it waits for the end of one *)
(* or takes effect.                                                          *)
Asked == pending_sync # NoPulse \/ pending_kbd_f
Due == key_ack \/ update_shadow

(* A transfer carries one pulse, which is in one place. *)
OnePulse == {NoPulse, [t |-> TRUE, m |-> FALSE, o |-> FALSE],
             [t |-> FALSE, m |-> TRUE, o |-> FALSE], [t |-> FALSE, m |-> FALSE, o |-> TRUE]}

(* An event is raised and acknowledged once before the shadow follows, for   *)
(* changed_kbd stays up until then.                                          *)
AckInv ==
  /\ pending_sync \in OnePulse
  /\ keypressed \/ Asked => changed_kbd /\ ~Due
  /\ keypressed => ~Asked
  /\ pending_kbd_f => pending_sync = NoPulse
  /\ ~(key_ack /\ update_shadow)
  /\ Asked \/ Due => fetched
  /\ key_ack => colcount # lastCount
  /\ debounced_d => colcount = lastCount

(* At the end of a scan software can read it. *)
Shown == colcount \in {columns + 1, lastCount} => rowdat = row_scan

(* Four counts a column. *)
LEMMA Settles ==
  ASSUME NEW c \in Nat
  PROVE  /\ c % settling \in 0..3 /\ c \div settling \in Nat
         /\ c = settling * (c \div settling) + (c % settling)
         /\ c % settling # 3 => /\ (c + 1) % settling = (c % settling) + 1
                                /\ (c + 1) \div settling = c \div settling
<1>. QED  BY DEF settling

(* The counts of the scan, in which the last two sample nothing.             *)
LEMMA Counts ==
  ASSUME MatrixAssumption
  PROVE  /\ Cols \in Nat \ {0} /\ columns \in Nat /\ columns = 4 * Cols /\ lastCount = columns + 2
         /\ columns % settling = 0 /\ (columns + 1) % settling = 1
         /\ \A c \in Nat : c < columns <=> c \div settling < Cols
<1>. QED  BY DEF MatrixAssumption, columns, lastCount, settling

(* The keys, row by row, of the column that is driven.                       *)
LEMMA HighKeys ==
  ASSUME MatrixAssumption, ScanTypes, colcount < columns
  PROVE  /\ driven = {colcount \div settling}
         /\ \A r : r \in high <=> <<r, colcount \div settling>> \in keys
<1>. DEFINE j == colcount \div settling
<1>1. driven = {j}
  BY DEF driven
<1>2. \A k \in keys : k = <<k[1], k[2]>>
  BY DEF ScanTypes, Key
<1>3. ASSUME NEW r PROVE r \in high <=> <<r, j>> \in keys
  <2>1. ASSUME r \in high PROVE <<r, j>> \in keys
    <3>1. PICK k \in keys : k[2] \in driven /\ r = k[1]
      BY <2>1 DEF high
    <3>. QED  BY <3>1, <1>1, <1>2
  <2>2. ASSUME <<r, j>> \in keys PROVE r \in high
    BY <2>2, <1>1 DEF high
  <2>. QED  BY <2>1, <2>2
<1>. QED  BY <1>1, <1>3

(* What an edge of the scan clock does to the scan. *)
LEMMA ScanMoves ==
  ASSUME MatrixAssumption, ScanInv, Edge
  PROVE  /\ colcount' = (IF colcount = lastCount THEN 0 ELSE colcount + 1)
         /\ scan_done' \in BOOLEAN /\ (scan_done' <=> colcount = columns)
         /\ reset_scan' \in BOOLEAN /\ (reset_scan' <=> colcount = lastCount)
         /\ update_shadow' => colcount = columns + 1
         /\ row_scan' = (IF reset_scan THEN {} ELSE row_scan \union sampled)
         /\ rows_m' = high /\ rows' = rows_m /\ col_r' = driven
         /\ touched' = (IF reset_scan THEN keys ELSE touched \union keys)
         /\ held' = (IF reset_scan THEN keys ELSE held \intersect keys)
         /\ keys' \subseteq Key
<1>. USE DEF ScanInv
<1>1. keys' \subseteq Key
  <2>1. Move /\ keys \subseteq Key
    BY DEF Edge, ScanTypes
  <2>. QED  BY <2>1 DEF Move
<1>2. /\ colcount' = (IF colcount = lastCount THEN 0 ELSE colcount + 1)
      /\ scan_done' \in BOOLEAN /\ (scan_done' <=> colcount = columns)
      /\ reset_scan' \in BOOLEAN /\ (reset_scan' <=> colcount = lastCount)
  BY DEF Edge, ColumnCount
<1>3. update_shadow' => colcount = columns + 1
  <2>1. update_shadow' = (beforeLast /\ (ackArrives \/ key_ack))
    BY DEF Edge, Shadow
  <2>. QED  BY <2>1 DEF beforeLast
<1>4. row_scan' = (IF reset_scan THEN {} ELSE row_scan \union sampled)
  BY DEF Edge, Scan
<1>5. rows_m' = high /\ rows' = rows_m /\ col_r' = driven
  BY DEF Edge, Sample
<1>6. /\ touched' = (IF reset_scan THEN keys ELSE touched \union keys)
      /\ held' = (IF reset_scan THEN keys ELSE held \intersect keys)
  BY DEF Edge, Observe
<1>. QED  BY <1>1, <1>2, <1>3, <1>4, <1>5, <1>6

(* What is taken into the scan at an edge are keys of the column under way,  *)
(* and every key of that column that was down throughout.                    *)
LEMMA SampledSeen ==
  ASSUME MatrixAssumption, ScanInv, colcount # 0
  PROVE  /\ sampled \subseteq touched
         /\ \A k \in held : settling * k[2] + 3 = colcount => k \in sampled
<1>. DEFINE j == colcount \div settling
<1>1. /\ colcount \in Nat /\ Cols \in Nat \ {0} /\ columns \in Nat /\ columns = 4 * Cols
      /\ colcount \in 0..(columns + 2)
      /\ rows \subseteq Rows /\ held \subseteq Key
  BY Counts DEF ScanInv, ScanTypes
<1>2. CASE colcount % settling = 3
  <2>1. colcount < columns
    <3>1. colcount # columns /\ colcount # columns + 1
      BY <1>2, Counts
    <3>2. colcount = columns + 2 => colcount % settling = 2
      BY <1>1 DEF settling
    <3>. QED  BY <3>1, <3>2, <1>1, <1>2
  <2>2. col_r = {j} /\ SeenIn(rows, j, touched, held)
    BY <1>2, <2>1 DEF ScanInv, Sampling
  <2>3. sampled = rows \X {j}
    BY <1>2, <2>2 DEF sampled
  <2>4. sampled \subseteq touched
    <3>1. ASSUME NEW k \in rows \X {j} PROVE k \in touched
      <4>1. k = <<k[1], j>> /\ k[1] \in rows /\ k[1] \in Rows
        BY <3>1, <1>1
      <4>2. <<k[1], j>> \in touched
        BY <4>1, <2>2 DEF SeenIn
      <4>. QED  BY <4>1, <4>2
    <3>. QED  BY <3>1, <2>3
  <2>5. ASSUME NEW k \in held, settling * k[2] + 3 = colcount PROVE k \in sampled
    <3>1. k = <<k[1], k[2]>> /\ k[1] \in Rows /\ k[2] \in 0..(Cols - 1)
      BY <1>1 DEF Key
    <3>2. k[2] = j
      <4>. HIDE DEF j
      <4>1. colcount = settling * j + 3 /\ j \in Nat
        BY <1>1, <1>2, Settles DEF j
      <4>2. settling * k[2] + 3 = settling * j + 3
        BY <4>1, <2>5
      <4>3. ASSUME NEW m \in Int, NEW n \in Int, settling * m + 3 = settling * n + 3 PROVE m = n
        BY <4>3 DEF settling
      <4>. QED  BY <4>1, <4>2, <4>3, <3>1
    <3>3. k[1] \in rows
      BY <3>1, <3>2, <2>2, <2>5 DEF SeenIn
    <3>. QED  BY <3>1, <3>2, <3>3, <2>3
  <2>. QED  BY <2>4, <2>5
<1>3. CASE colcount % settling # 3
  <2>1. sampled = {}
    BY <1>3 DEF sampled
  <2>2. ASSUME NEW k \in held PROVE settling * k[2] + 3 # colcount
    <3>1. k[2] \in 0..(Cols - 1)
      BY <1>1 DEF Key
    <3>2. ASSUME NEW n \in Nat PROVE (settling * n + 3) % settling = 3
      BY DEF settling
    <3>. QED  BY <3>1, <3>2, <1>1, <1>3
  <2>. QED  BY <2>1, <2>2
<1>. QED  BY <1>2, <1>3

(* An edge goes on with the scan. *)
LEMMA ScanEdge ==
  ASSUME MatrixAssumption, ScanInv, Edge
  PROVE  ScanInv'
<1>1. ScanTypes /\ Places /\ Sampling /\ Scanned
  BY DEF ScanInv
<1>2. /\ Cols \in Nat \ {0} /\ columns \in Nat /\ columns = 4 * Cols /\ lastCount = columns + 2
      /\ colcount \in 0..lastCount /\ colcount \in Nat
      /\ (reset_scan => colcount = 0)
  BY Counts, <1>1 DEF ScanTypes, Places
<1>3. /\ colcount' = (IF colcount = lastCount THEN 0 ELSE colcount + 1)
      /\ scan_done' \in BOOLEAN /\ (scan_done' <=> colcount = columns)
      /\ reset_scan' \in BOOLEAN /\ (reset_scan' <=> colcount = lastCount)
      /\ update_shadow' => colcount = columns + 1
  BY ScanMoves
<1>4. /\ row_scan' = (IF reset_scan THEN {} ELSE row_scan \union sampled)
      /\ rows_m' = high /\ rows' = rows_m /\ col_r' = driven
  BY ScanMoves
<1>5. /\ touched' = (IF reset_scan THEN keys ELSE touched \union keys)
      /\ held' = (IF reset_scan THEN keys ELSE held \intersect keys)
      /\ keys \subseteq Key
  BY ScanMoves, <1>1 DEF ScanTypes
<1>6. colcount' \in 0..lastCount
  BY <1>2, <1>3
<1>7. ScanTypes'
  <2>1. high \subseteq Rows
    BY <1>1 DEF high, ScanTypes, Key
  <2>2. touched' \subseteq Key /\ held' \subseteq Key
    BY <1>1, <1>5 DEF ScanTypes
  <2>3. row_scan' \subseteq Key
    <3>1. CASE colcount # 0
      BY <3>1, <1>1, <1>4, SampledSeen DEF ScanTypes
    <3>2. CASE colcount = 0
      <4>1. sampled = {}
        BY <3>2 DEF sampled, settling
      <4>. QED  BY <4>1, <1>1, <1>4 DEF ScanTypes
    <3>. QED  BY <3>1, <3>2
  <2>. QED  BY <2>1, <2>2, <2>3, <1>1, <1>3, <1>4, <1>6, ScanMoves DEF ScanTypes
<1>8. Places'
  <2>1. scan_done' <=> colcount' = columns + 1
    BY <1>2, <1>3
  <2>2. reset_scan' => colcount' = 0
    BY <1>3
  <2>3. update_shadow' => colcount' = lastCount
    BY <1>2, <1>3
  <2>4. colcount' = 0 => reset_scan'
    BY <1>2, <1>3
  <2>. QED  BY <2>1, <2>2, <2>3, <2>4, Counts DEF Places
<1>9. Sampling'
  <2>. DEFINE j == colcount \div settling
  <2>1. SUFFICES ASSUME colcount' < columns, colcount' % settling # 0
                 PROVE  /\ col_r' = {colcount' \div settling}
                        /\ SeenIn(rows_m', colcount' \div settling, touched', held')
                        /\ colcount' % settling \in {2, 3} =>
                             SeenIn(rows', colcount' \div settling, touched', held')
    BY DEF Sampling, settling
  <2>2. colcount' = colcount + 1 /\ colcount < columns
    <3>1. colcount # lastCount
      BY <1>3, <2>1 DEF settling
    <3>. QED  BY <3>1, <1>2, <1>3, <2>1
  <2>3. colcount' \div settling = j /\ colcount' % settling = (colcount % settling) + 1
    <3>1. colcount % settling # 3
      <4>1. colcount % settling = 3 => (colcount + 1) % settling = 0
        BY <1>2 DEF settling
      <4>. QED  BY <4>1, <2>1, <2>2
    <3>. QED  BY <3>1, <2>2, <1>2, Settles
  <2>4. driven = {j} /\ \A r : r \in high <=> <<r, j>> \in keys
    BY <1>1, <2>2, HighKeys
  <2>5. SeenIn(rows_m', j, touched', held')
    <3>1. \A k \in keys : k \in touched'
      BY <1>5
    <3>2. held' \subseteq keys
      BY <1>5
    <3>. QED  BY <3>1, <3>2, <2>4, <1>4 DEF SeenIn
  <2>6. ASSUME colcount' % settling \in {2, 3} PROVE SeenIn(rows', j, touched', held')
    <3>1. colcount % settling # 0
      BY <2>6, <2>3, <1>2, Settles
    <3>2. SeenIn(rows_m, j, touched, held)
      BY <3>1, <1>1, <2>2 DEF Sampling
    <3>3. ~reset_scan
      BY <3>1, <1>2 DEF settling
    <3>4. touched \subseteq touched' /\ held' \subseteq held
      BY <3>3, <1>5
    <3>. QED  BY <3>2, <3>4, <1>4 DEF SeenIn
  <2>. QED  BY <2>3, <2>4, <2>5, <2>6, <1>4
<1>10. Scanned'
  <2>1. SUFFICES ASSUME colcount' # 0
                 PROVE  /\ row_scan' \subseteq touched'
                        /\ \A k \in held' : settling * k[2] + 3 < colcount' => k \in row_scan'
    BY DEF Scanned
  <2>2. colcount' = colcount + 1
    BY <1>3, <2>1
  <2>3. \A k \in keys : k[2] \in 0..(Cols - 1)
    BY <1>5 DEF Key
  <2>4. CASE reset_scan
    <3>1. row_scan' = {} /\ held' = keys /\ colcount' = 1
      BY <2>2, <2>4, <1>2, <1>4, <1>5
    <3>. QED  BY <3>1, <2>3, <1>2 DEF settling
  <2>5. CASE ~reset_scan /\ colcount = 0
    <3>1. touched = {} /\ held = {} /\ row_scan = {}
      BY <2>5, <1>1 DEF Places
    <3>2. sampled = {}
      BY <2>5 DEF sampled, settling
    <3>. QED  BY <3>1, <3>2, <2>5, <1>4, <1>5
  <2>6. CASE ~reset_scan /\ colcount # 0
    <3>1. /\ row_scan' = row_scan \union sampled
          /\ touched' = touched \union keys /\ held' = held \intersect keys
      BY <2>6, <1>4, <1>5
    <3>2. /\ sampled \subseteq touched
          /\ \A k \in held : settling * k[2] + 3 = colcount => k \in sampled
      BY <2>6, SampledSeen
    <3>3. /\ row_scan \subseteq touched
          /\ \A k \in held : settling * k[2] + 3 < colcount => k \in row_scan
      BY <2>6, <1>1 DEF Scanned
    <3>4. ASSUME NEW k \in held', settling * k[2] + 3 < colcount' PROVE k \in row_scan'
      <4>1. k \in held /\ k \in keys
        BY <3>1, <3>4
      <4>2. settling * k[2] + 3 \in Nat
        BY <4>1, <2>3, <1>2 DEF settling
      <4>3. settling * k[2] + 3 < colcount \/ settling * k[2] + 3 = colcount
        <5>. DEFINE n == settling * k[2] + 3
        <5>. HIDE DEF n
        <5>1. n \in Nat /\ n < colcount + 1
          BY <4>2, <3>4, <2>2 DEF n
        <5>2. n < colcount \/ n = colcount
          BY <5>1, <1>2
        <5>. QED  BY <5>2 DEF n
      <4>. QED  BY <4>1, <4>3, <3>1, <3>2, <3>3
    <3>. QED  BY <3>1, <3>2, <3>3, <3>4
  <2>. QED  BY <2>4, <2>5, <2>6
<1>. QED  BY <1>7, <1>8, <1>9, <1>10 DEF ScanInv

(* Every scan shows the keys as they were, at every moment.                  *)
LEMMA ScanInvariant ==
  ASSUME MatrixAssumption
  PROVE  KeySpec => []ScanInv
<1>1. KeyInit => ScanInv
  <2>1. SUFFICES ASSUME KeyInit PROVE ScanInv
    OBVIOUS
  <2>2. columns \in Nat /\ lastCount = columns + 2 /\ colcount = 0
    BY <2>1, Counts DEF KeyInit
  <2>3. ScanTypes
    <3>1. colcount \in 0..lastCount
      BY <2>2
    <3>. QED  BY <2>1, <3>1 DEF KeyInit, ScanTypes
  <2>4. Places
    BY <2>1, <2>2 DEF KeyInit, Places
  <2>5. Sampling
    BY <2>2 DEF Sampling, settling
  <2>6. Scanned
    BY <2>2 DEF Scanned
  <2>. QED  BY <2>3, <2>4, <2>5, <2>6 DEF ScanInv
<1>2. ScanInv /\ [KeyNext]_keyVars => ScanInv'
  <2>1. CASE Edge
    BY <2>1, ScanEdge
  <2>2. CASE UNCHANGED <<keys, scanVars, touched, held>>
    BY <2>2 DEF scanVars, ScanInv, ScanTypes, Places, Sampling, SeenIn, Scanned, lastCount, columns
  <2>. QED  BY <2>1, <2>2 DEF KeyNext, Read, Clear, keyVars
<1>. QED  BY <1>1, <1>2, PTL DEF KeySpec

(* At the end of a scan it holds every key that was down throughout, and     *)
(* none that was not down in it.                                             *)
LEMMA ScannedAll ==
  ASSUME MatrixAssumption, ScanInv, colcount \in {columns + 1, columns + 2}
  PROVE  held \subseteq row_scan /\ row_scan \subseteq touched
<1>1. Cols \in Nat \ {0} /\ columns = 4 * Cols /\ colcount # 0 /\ columns \in Nat
  BY Counts
<1>2. \A k \in held : settling * k[2] + 3 < colcount
  <2>1. \A k \in held : k[2] \in 0..(Cols - 1)
    BY DEF ScanInv, ScanTypes, Key
  <2>2. ASSUME NEW n \in 0..(Cols - 1) PROVE settling * n + 3 < colcount
    BY <1>1 DEF settling
  <2>. QED  BY <2>1, <2>2
<1>. QED  BY <1>1, <1>2 DEF ScanInv, Scanned

(* A scan shows the keys that were down all through it, and none that was    *)
(* not down in it, however they move (keyboard.py:95).                       *)
THEOREM ScanIsTrueCorrect ==
  ASSUME MatrixAssumption
  PROVE  KeySpec => []ScanIsTrue
<1>1. ScanInv => ScanIsTrue
  BY ScannedAll DEF ScanIsTrue, ScanInv, Places
<1>. QED  BY <1>1, ScanInvariant, PTL

(* An edge carries an acknowledgement on, and the shadow follows at the end  *)
(* of the scan in which it arrives.                                          *)
LEMMA AckEdge ==
  ASSUME MatrixAssumption, ScanInv, AckInv, Edge
  PROVE  AckInv'
<1>1. /\ columns \in Nat /\ lastCount = columns + 2 /\ colcount \in 0..lastCount
      /\ (scan_done <=> colcount = columns + 1) /\ (update_shadow => colcount = lastCount)
  BY Counts DEF ScanInv, ScanTypes, Places
<1>2. /\ colcount' = (IF colcount = lastCount THEN 0 ELSE colcount + 1)
      /\ update_shadow' => colcount = columns + 1
  BY ScanMoves
<1>3. /\ pending_sync' = PulseOn(pending_sync)
      /\ keypressed' <=> keypressed \/ (changed_kbd' /\ ~changed_kbd)
  BY DEF Edge, Arrive
<1>4. /\ pending_kbd_f' <=> pending_sync.o
      /\ update_shadow' <=> colcount = columns + 1 /\ ((~pending_sync.o /\ pending_kbd_f) \/ key_ack)
      /\ key_ack' <=> colcount # columns + 1 /\ ((~pending_sync.o /\ pending_kbd_f) \/ key_ack)
  BY DEF Edge, Shadow, pending_kbd, ackArrives, beforeLast
<1>5. /\ changed_kbd' => debounced_d \/ (changed_kbd /\ ~key_ack)
      /\ changed_kbd /\ ~key_ack => changed_kbd'
  BY DEF Edge, Changed, changed
<1>6. debounced_d' => colcount = columns + 1
  <2>1. debounced_d' = debounced
    BY DEF Edge, Debounce
  <2>. QED  BY <2>1, <1>1 DEF debounced
<1>7. fetched' <=> fetched /\ ~update_shadow
  BY DEF Edge, Observe
<1>8. /\ pending_sync' \in OnePulse
      /\ pending_sync' # NoPulse => pending_sync # NoPulse /\ ~pending_sync.o
      /\ pending_sync.o => pending_sync # NoPulse
  <2>1. CASE pending_sync = NoPulse
    <3>1. pending_sync' = NoPulse /\ ~pending_sync.o
      BY <1>3, <2>1 DEF PulseOn, NoPulse
    <3>. QED  BY <3>1, <2>1 DEF OnePulse
  <2>2. CASE pending_sync = [t |-> TRUE, m |-> FALSE, o |-> FALSE]
    <3>1. pending_sync' = [t |-> FALSE, m |-> TRUE, o |-> FALSE] /\ ~pending_sync.o
      BY <1>3, <2>2 DEF PulseOn
    <3>. QED  BY <3>1, <2>2 DEF OnePulse, NoPulse
  <2>3. CASE pending_sync = [t |-> FALSE, m |-> TRUE, o |-> FALSE]
    <3>1. pending_sync' = [t |-> FALSE, m |-> FALSE, o |-> TRUE] /\ ~pending_sync.o
      BY <1>3, <2>3 DEF PulseOn
    <3>. QED  BY <3>1, <2>3 DEF OnePulse, NoPulse
  <2>4. CASE pending_sync = [t |-> FALSE, m |-> FALSE, o |-> TRUE]
    <3>1. pending_sync' = NoPulse /\ pending_sync # NoPulse
      BY <1>3, <2>4 DEF PulseOn, NoPulse
    <3>. QED  BY <3>1 DEF OnePulse
  <2>. QED  BY <2>1, <2>2, <2>3, <2>4 DEF AckInv, OnePulse
<1>9. colcount = columns + 1 <=> colcount' = lastCount
  BY <1>1, <1>2
<1>10. AckInv
  OBVIOUS
<1>11. (keypressed' /\ ~keypressed) => debounced_d /\ ~Asked /\ ~key_ack /\ changed_kbd'
  BY <1>1, <1>3, <1>5, <1>10 DEF AckInv
<1>12. Asked' => Asked
  BY <1>4, <1>8 DEF Asked
<1>13. Due' => pending_kbd_f \/ key_ack
  BY <1>4 DEF Due
<1>14. keypressed' \/ Asked' => changed_kbd' /\ ~Due'
  <2>1. CASE keypressed' /\ ~keypressed
    BY <2>1, <1>11, <1>13 DEF Asked
  <2>2. CASE keypressed
    BY <2>2, <1>5, <1>10, <1>13 DEF AckInv, Due, Asked
  <2>3. CASE Asked'
    <3>1. Asked /\ changed_kbd /\ ~key_ack
      BY <2>3, <1>12, <1>10 DEF AckInv, Due
    <3>2. ~Due'
      BY <2>3, <3>1, <1>4, <1>8, <1>10 DEF AckInv, Due, Asked
    <3>. QED  BY <3>1, <3>2, <1>5
  <2>. QED  BY <2>1, <2>2, <2>3
<1>15. keypressed' => ~Asked'
  BY <1>10, <1>11, <1>12 DEF AckInv
<1>16. pending_kbd_f' => pending_sync' = NoPulse
  BY <1>4, <1>8
<1>17. ~(key_ack' /\ update_shadow')
  BY <1>4
<1>18. Asked' \/ Due' => fetched'
  <2>1. Asked' \/ Due' => Asked \/ key_ack
    BY <1>12, <1>13 DEF Asked
  <2>. QED  BY <2>1, <1>7, <1>10 DEF AckInv, Due
<1>19. key_ack' => colcount' # lastCount
  BY <1>4, <1>9
<1>20. debounced_d' => colcount' = lastCount
  BY <1>6, <1>9
<1>21. lastCount' = lastCount
  BY DEF lastCount, columns
<1>. QED  BY <1>8, <1>14, <1>15, <1>16, <1>17, <1>18, <1>19, <1>20, <1>21, Zenon DEF AckInv

(* Software's reading leaves it, and its acknowledgement sets out alone.     *)
LEMMA AckSoftware ==
  ASSUME AckInv, Read \/ Clear
  PROVE  AckInv'
<1>1. UNCHANGED scanVars
  BY DEF Read, Clear
<1>2. /\ colcount' = colcount /\ changed_kbd' = changed_kbd /\ key_ack' = key_ack
      /\ update_shadow' = update_shadow /\ pending_kbd_f' = pending_kbd_f
      /\ debounced_d' = debounced_d /\ lastCount' = lastCount
  BY <1>1 DEF scanVars, lastCount, columns
<1>3. CASE Read
  BY <1>2, <1>3 DEF Read, AckInv, Asked, Due
<1>4. CASE Clear
  <2>1. keypressed /\ ~keypressed' /\ fetched' /\ pending_sync' = SendPulse(pending_sync)
    BY <1>4 DEF Clear
  <2>2. pending_sync' = [t |-> TRUE, m |-> FALSE, o |-> FALSE] /\ ~pending_kbd_f /\ ~Due /\ changed_kbd
    <3>1. pending_sync = NoPulse /\ ~pending_kbd_f /\ ~Due /\ changed_kbd
      BY <2>1 DEF AckInv, Asked
    <3>2. SendPulse(NoPulse) = [t |-> TRUE, m |-> FALSE, o |-> FALSE]
      BY DEF SendPulse, NoPulse
    <3>. QED  BY <2>1, <3>1, <3>2
  <2>3. pending_sync' \in OnePulse /\ pending_sync' # NoPulse
    BY <2>2 DEF OnePulse, NoPulse
  <2>. QED  BY <1>2, <2>1, <2>2, <2>3 DEF AckInv, Asked, Due
<1>. QED  BY <1>3, <1>4

(* When a scan ends, software can read it, and the end of the scan leaves it *)
(* so.                                                                       *)
LEMMA ShownEdge ==
  ASSUME MatrixAssumption, ScanInv, Shown, Edge
  PROVE  Shown'
<1>1. /\ columns \in Nat /\ lastCount = columns + 2 /\ colcount \in 0..lastCount
      /\ (columns + 1) % settling = 1
      /\ reset_scan => colcount = 0
  BY Counts DEF ScanInv, ScanTypes, Places
<1>2. /\ colcount' = (IF colcount = lastCount THEN 0 ELSE colcount + 1)
      /\ (scan_done' <=> colcount = columns)
      /\ row_scan' = (IF reset_scan THEN {} ELSE row_scan \union sampled)
  BY ScanMoves
<1>3. rowdat' = IF scan_done' THEN row_scan' ELSE rowdat
  BY DEF Edge, Arrive
<1>4. CASE colcount' = columns + 1
  BY <1>1, <1>2, <1>3, <1>4 DEF Shown, lastCount, columns
<1>5. CASE colcount' = columns + 2
  <2>1. colcount = columns + 1 /\ ~reset_scan /\ ~scan_done'
    BY <1>1, <1>2, <1>5
  <2>2. sampled = {}
    BY <2>1, <1>1 DEF sampled
  <2>. QED  BY <2>1, <2>2, <1>2, <1>3 DEF Shown
<1>6. columns' = columns /\ lastCount' = lastCount
  BY DEF lastCount, columns
<1>. QED  BY <1>1, <1>4, <1>5, <1>6 DEF Shown

(* At every moment at most one acknowledgement is on its way to the shadow.  *)
LEMMA AckInvariant ==
  ASSUME MatrixAssumption
  PROVE  KeySpec => [](ScanInv /\ AckInv /\ Shown)
<1>1. KeyInit => AckInv /\ Shown
  <2>1. SUFFICES ASSUME KeyInit PROVE AckInv /\ Shown
    OBVIOUS
  <2>2. AckInv
    BY <2>1 DEF KeyInit, AckInv, Asked, Due, OnePulse
  <2>3. Shown
    BY <2>1 DEF KeyInit, Shown
  <2>. QED  BY <2>2, <2>3
<1>2. ScanInv /\ AckInv /\ Shown /\ [KeyNext]_keyVars => AckInv' /\ Shown'
  <2>1. CASE Edge
    BY <2>1, AckEdge, ShownEdge
  <2>2. CASE Read \/ Clear
    <3>1. UNCHANGED <<scanVars, rowdat>>
      BY <2>2 DEF Read, Clear
    <3>2. Shown => Shown'
      BY <3>1 DEF scanVars, Shown, lastCount, columns
    <3>. QED  BY <2>2, <3>2, AckSoftware
  <2>3. CASE UNCHANGED keyVars
    BY <2>3 DEF keyVars, scanVars, AckInv, Asked, Due, Shown, lastCount, columns
  <2>. QED  BY <2>1, <2>2, <2>3 DEF KeyNext
<1>. QED  BY <1>1, <1>2, ScanInvariant, PTL DEF KeySpec

(* A scan shows the keys that were down all through it, and none that was    *)
(* not down in it (keyboard.py:95); the shadow takes whole scans, those that *)
(* software can read, and only one for each acknowledgement (148), for every *)
(* matrix, however the keys move and however late software answers.          *)
THEOREM KeyScanSoundCorrect ==
  ASSUME MatrixAssumption
  PROVE  KeySpec => KeyScanSound
<1>1. ScanInv /\ AckInv /\ Shown /\ [KeyNext]_keyVars =>
        [rowshadow' # rowshadow => fetched /\ rowshadow' = rowdat]_keyVars
  <2>1. SUFFICES ASSUME ScanInv, AckInv, Shown, KeyNext, rowshadow' # rowshadow
                 PROVE  fetched /\ rowshadow' = rowdat
    OBVIOUS
  <2>2. Edge
    BY <2>1 DEF KeyNext, Read, Clear, scanVars
  <2>3. update_shadow /\ rowshadow' = row_scan
    BY <2>1, <2>2 DEF Edge, Shadow
  <2>4. colcount = lastCount /\ fetched
    BY <2>1, <2>3 DEF AckInv, Due, ScanInv, Places
  <2>. QED  BY <2>1, <2>3, <2>4 DEF Shown
<1>. QED  BY <1>1, AckInvariant, ScanIsTrueCorrect, PTL DEF KeySpec, KeyScanSound, ShadowIsAsked
=============================================================================
