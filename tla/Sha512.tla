------------------------------- MODULE Sha512 -------------------------------
(***************************************************************************)
(* The SHA-512 accelerator: the bus and command side of Hmac, the byte     *)
(* packer and message FIFO, the padding machine and the block machine of   *)
(* the compression engine.  One step is one cycle of clk50; an access of   *)
(* software takes effect in the step in which clk50 first sees it.         *)
(*                                                                         *)
(* A message byte is the number of its place in the message; a word is a   *)
(* sequence of WordBytes of them, a block BlockWords words.  The rounds    *)
(* only count: the digest is the sequence of the words that were           *)
(* compressed into it.  The FIFO shows a word one cycle after it entered.  *)
(***************************************************************************)
EXTENDS Integers, Sequences

Ext == INSTANCE SequencesExt

CONSTANTS
  WordBytes, BlockWords, NumRound,
  FifoDepth, AlmostFull,   \* words; software writes only below AlmostFull
  Cross,                   \* cycles a command takes to reach clk50
  ResetCycles,
  Patient,                 \* software waits for an empty FIFO before hash_process
  Clears,                  \* software clears the pending event after a reset
  MaxBytes, MaxConfigs, MaxResets   \* bounds

ShaAssumption == /\ WordBytes \in Nat /\ WordBytes > 1
                 /\ BlockWords \in Nat /\ BlockWords > 2
                 /\ NumRound \in Nat /\ NumRound > 1
                 /\ FifoDepth \in Nat /\ AlmostFull \in 1 .. FifoDepth - 1
                 /\ Cross \in Nat \ {0} /\ ResetCycles \in Nat \ {0}
                 /\ Patient \in BOOLEAN /\ Clears \in BOOLEAN
                 /\ MaxBytes \in Nat /\ MaxConfigs \in Nat /\ MaxResets \in Nat

VARIABLES
  software,                \* the driver's place in its loop
  endian_swap, configs, resets,
  wdata, wdata_top,        \* bytes of the bus write that clk50 holds: of an even address, of an odd one
  start_t, process_t, reset_t, rescnt,
  control_latch, cfg_block, msg_allowed, message_length,
  stored,                  \* bytes in the packer
  fifo, shown,             \* the words of the FIFO; how many of them its read side shows
  pad_st, tx_count, hash_process_flag,
  fifo_st, w, sha_st, round, hash, digest, hash_done,
  sha512_done,             \* the event, pending until software clears it
  message                  \* history: the bytes software wants digested, in order

sw == <<software, endian_swap, configs, resets, message>>
control == <<start_t, process_t, reset_t, rescnt, control_latch, cfg_block, msg_allowed, message_length>>
datapath == <<stored, fifo, shown>>
pad == <<pad_st, tx_count, hash_process_flag>>
engine == <<fifo_st, w, sha_st, round, hash, digest, hash_done, sha512_done>>
shaVars == <<sw, wdata, wdata_top, control, datapath, pad, engine>>

Zeros(n) == [k \in 1 .. n |-> "00"]
LenHi == Zeros(WordBytes - 1) \o <<"hi">>
LenLo(n) == Zeros(WordBytes - 1) \o <<n>>

hash_start == start_t = 1
hash_process == process_t = 1
sw_reset == rescnt > 0

-----------------------------------------------------------------------------
(* Software, as the driver does it: configure, start, write while the FIFO *)
(* has room, close, wait for the event, clear it, read the digest.         *)

Ordered(bytes, swap) == IF swap THEN bytes ELSE Ext!Reverse(bytes)

Idles == UNCHANGED sw /\ wdata' = <<>>

bus_free == wdata = <<>> /\ wdata_top = <<>>

Configure == /\ configs < MaxConfigs
             /\ start_t = 0
             /\ endian_swap' = ~endian_swap
             /\ configs' = configs + 1
             /\ wdata' = <<>>
             /\ UNCHANGED <<software, resets, message>>

Start == /\ software = "idle"
         /\ software' = "writing"
         /\ message' = <<>>
         /\ wdata' = <<>>
         /\ UNCHANGED <<endian_swap, configs, resets>>

\* A word or a byte; the first one comes after the start has arrived.  Held for one cycle, then acknowledged and cleared.
Write == /\ software = "writing" /\ start_t = 0
         /\ bus_free
         /\ Len(fifo) < AlmostFull
         /\ \E n \in {1, WordBytes \div 2} :
              /\ Len(message) + n <= MaxBytes
              /\ wdata' = [k \in 1 .. n |-> Len(message) + k]
              /\ message' = message \o Ordered(wdata', control_latch)
         /\ UNCHANGED <<software, endian_swap, configs, resets>>

\* A write at an odd address: the upper half of wdata takes it, and is cleared before an even write could send both.
WriteTop == /\ software = "writing" /\ start_t = 0
            /\ bus_free
            /\ wdata_top' = <<0>>
            /\ Idles

Close == /\ software = "writing" /\ start_t = 0
         /\ bus_free
         /\ Patient => fifo = <<>>
         /\ software' = "closing"
         /\ wdata' = <<>>
         /\ UNCHANGED <<endian_swap, configs, resets, message>>

SeeDone == /\ software = "closing" /\ sha512_done
           /\ software' = "seen"
           /\ wdata' = <<>>
           /\ UNCHANGED <<endian_swap, configs, resets, message>>

\* A write of the pending register, after the poll or after a reset.
ClearDone == /\ software \in {"seen", "cleaning"}
             /\ software' = IF software = "seen" THEN "reading" ELSE "idle"
             /\ wdata' = <<>>
             /\ UNCHANGED <<endian_swap, configs, resets, message>>

Finish == /\ software = "reading"
          /\ software' = "idle"
          /\ wdata' = <<>>
          /\ UNCHANGED <<endian_swap, configs, resets, message>>

Reset == /\ software # "idle" /\ resets < MaxResets
         /\ software' = "resetting"
         /\ resets' = resets + 1
         /\ wdata' = <<>>
         /\ UNCHANGED <<endian_swap, configs, message>>

ResetOver == /\ software = "resetting" /\ reset_t = 0 /\ ~sw_reset
             /\ software' = IF Clears THEN "cleaning" ELSE "idle"
             /\ wdata' = <<>>
             /\ UNCHANGED <<endian_swap, configs, resets, message>>

cleared == software \in {"seen", "cleaning"} /\ software' \in {"reading", "idle"}

-----------------------------------------------------------------------------
(* Hmac: commands cross into clk50, the configuration is frozen while a    *)
(* hash runs, a reset lasts ResetCycles.                                   *)

Crossed(t, given) == IF given THEN Cross ELSE IF t > 0 THEN t - 1 ELSE 0

Commands == /\ start_t' = Crossed(start_t, software = "idle" /\ software' = "writing")
            /\ process_t' = Crossed(process_t, software = "writing" /\ software' = "closing")
            /\ reset_t' = Crossed(reset_t, software # "resetting" /\ software' = "resetting")
            /\ rescnt' = IF reset_t = 1 THEN ResetCycles ELSE IF rescnt > 0 THEN rescnt - 1 ELSE 0

\* Fault: the configuration is taken over while a hash runs.
LatchFree == control_latch' = endian_swap

Latch == control_latch' = IF cfg_block THEN control_latch ELSE endian_swap

Frozen == cfg_block' = (hash_start \/ (cfg_block /\ ~hash_done))

-----------------------------------------------------------------------------
(* The packer and the FIFO.  Bytes are packed in order; a full word goes   *)
(* out at once, what is left when hash_process comes goes out as it is.    *)

msg_write == wdata # <<>> /\ msg_allowed
msg_data == wdata \o wdata_top
concat == stored \o (IF msg_write THEN Ordered(msg_data, control_latch) ELSE <<>>)
valid_o == Len(concat) >= WordBytes \/ (hash_process /\ stored # <<>>)

Packer == stored' = IF hash_process THEN <<>>
                    ELSE IF valid_o THEN SubSeq(concat, WordBytes + 1, Len(concat))
                    ELSE concat

Length == /\ msg_allowed' = (hash_start \/ (msg_allowed /\ ~hash_process))
          /\ message_length' = IF hash_start THEN 0
                               ELSE IF msg_write THEN message_length + Len(msg_data) ELSE message_length

fifo_rvalid == shown > 0

Fifo(rready) ==
  LET popped == IF rready /\ fifo_rvalid THEN 1 ELSE 0
      left == SubSeq(fifo, 1 + popped, Len(fifo))
  IN /\ fifo' = IF valid_o THEN Append(left, SubSeq(concat, 1, IF Len(concat) < WordBytes THEN Len(concat) ELSE WordBytes)) ELSE left
     /\ shown' = Len(left)

-----------------------------------------------------------------------------
(* sha512_pad.  After the last message word comes 80, zeros up to the two  *)
(* length words at the end of a block, then the length.                    *)

partial == message_length % WordBytes # 0
txcnt_eq_340 == tx_count % BlockWords = BlockWords - 3

shaf_rvalid == CASE pad_st = "StIdle" -> FALSE
                 [] pad_st = "StFifoReceive" -> fifo_rvalid /\ ~hash_process_flag
                 [] pad_st = "StPad80" -> fifo_rvalid \/ ~partial
                 [] OTHER -> TRUE

shaf_rdata == CASE pad_st = "StFifoReceive" -> Head(fifo)
                [] pad_st = "StPad80" -> LET n == message_length % WordBytes
                                         IN (IF n = 0 THEN <<>> ELSE SubSeq(Head(fifo), 1, n)) \o <<"80">> \o Zeros(WordBytes - 1 - n)
                [] pad_st = "StPad00" -> Zeros(WordBytes)
                [] pad_st = "StLenHi" -> LenHi
                [] OTHER -> LenLo(message_length)

update_w_from_fifo == fifo_st = "FifoLoadFromFifo" /\ shaf_rvalid
shaf_rready == update_w_from_fifo

fifo_rready == CASE pad_st = "StFifoReceive" -> shaf_rready /\ ~hash_process_flag
                 [] pad_st = "StPad80" -> shaf_rready /\ partial
                 [] OTHER -> FALSE

\* Fault: the length words are put off by a word.
AfterPadLate == IF tx_count % BlockWords = BlockWords - 2 THEN "StLenHi" ELSE "StPad00"

AfterPad == IF txcnt_eq_340 THEN "StLenHi" ELSE "StPad00"

PadNext == IF pad_st = "StIdle" THEN IF hash_start THEN "StFifoReceive" ELSE "StIdle"
           ELSE IF pad_st = "StFifoReceive" THEN IF hash_process_flag THEN "StPad80" ELSE "StFifoReceive"
           ELSE IF ~shaf_rready THEN pad_st
           ELSE IF pad_st \in {"StPad80", "StPad00"} THEN AfterPad
           ELSE IF pad_st = "StLenHi" THEN "StLenLo" ELSE "StIdle"

Pad == /\ pad_st' = PadNext
       /\ tx_count' = IF hash_start THEN 0 ELSE IF shaf_rready THEN tx_count + 1 ELSE tx_count
       /\ hash_process_flag' = (hash_process \/ (hash_process_flag /\ ~hash_done /\ ~hash_start))

msg_feed_complete == hash_process_flag /\ pad_st = "StIdle"

-----------------------------------------------------------------------------
(* sha512: the fetch machine fills w with a block and waits until it has   *)
(* been compressed; the other machine compresses it and adds it up.        *)

run_hash == sha_st = "ShaCompress"
complete_one_chunk == round = NumRound - 1

Fetch == /\ fifo_st' = IF fifo_st = "FifoIdle" THEN IF hash_start THEN "FifoLoadFromFifo" ELSE "FifoIdle"
                      ELSE IF fifo_st = "FifoLoadFromFifo"
                      THEN IF shaf_rvalid /\ Len(w) = BlockWords - 1 THEN "FifoWait" ELSE "FifoLoadFromFifo"
                      ELSE IF ~complete_one_chunk THEN "FifoWait"
                      ELSE IF msg_feed_complete THEN "FifoIdle" ELSE "FifoLoadFromFifo"
         /\ hash_done' = (fifo_st = "FifoWait" /\ complete_one_chunk /\ msg_feed_complete)
         /\ w' = IF update_w_from_fifo THEN Append(IF Len(w) = BlockWords THEN <<>> ELSE w, shaf_rdata)
                ELSE IF run_hash THEN <<>> ELSE w

Compress == /\ sha_st' = IF run_hash THEN IF complete_one_chunk THEN "ShaUpdateDigest" ELSE "ShaCompress"
                        ELSE IF fifo_st = "FifoWait" THEN "ShaCompress" ELSE "ShaIdle"
            /\ round' = IF run_hash THEN (round + 1) % NumRound ELSE round
            /\ hash' = IF ~run_hash /\ fifo_st = "FifoWait" THEN w ELSE hash
            /\ digest' = IF hash_start THEN <<>>
                        ELSE IF sha_st = "ShaUpdateDigest" THEN digest \o hash ELSE digest

-----------------------------------------------------------------------------

ResetState == /\ stored' = <<>> /\ fifo' = <<>> /\ shown' = 0
              /\ cfg_block' = FALSE /\ msg_allowed' = FALSE /\ message_length' = 0
              /\ pad_st' = "StIdle" /\ tx_count' = 0 /\ hash_process_flag' = FALSE
              /\ fifo_st' = "FifoIdle" /\ w' = <<>> /\ sha_st' = "ShaIdle" /\ round' = 0
              /\ hash' = <<>> /\ digest' = <<>> /\ hash_done' = FALSE

Hardware == /\ Commands
            /\ Latch
            /\ sha512_done' = (hash_done \/ (sha512_done /\ ~cleared))
            /\ IF sw_reset THEN ResetState
               ELSE Frozen /\ Packer /\ Length /\ Fifo(fifo_rready) /\ Pad /\ Fetch /\ Compress

ShaInit == /\ software = "idle" /\ endian_swap = TRUE /\ configs = 0 /\ resets = 0 /\ message = <<>>
           /\ wdata = <<>> /\ wdata_top = <<>>
           /\ start_t = 0 /\ process_t = 0 /\ reset_t = 0 /\ rescnt = 0
           /\ control_latch = TRUE /\ cfg_block = FALSE /\ msg_allowed = FALSE /\ message_length = 0
           /\ stored = <<>> /\ fifo = <<>> /\ shown = 0
           /\ pad_st = "StIdle" /\ tx_count = 0 /\ hash_process_flag = FALSE
           /\ fifo_st = "FifoIdle" /\ w = <<>> /\ sha_st = "ShaIdle" /\ round = 0
           /\ hash = <<>> /\ digest = <<>> /\ hash_done = FALSE /\ sha512_done = FALSE

Software == \/ WriteTop
            \/ /\ wdata_top' = <<>>
               /\ Idles \/ Configure \/ Start \/ Write \/ Close \/ SeeDone \/ ClearDone \/ Finish \/ Reset \/ ResetOver

ShaNext == Software /\ Hardware

ShaSpec == ShaInit /\ [][ShaNext]_shaVars

\* The clock runs, and the event reaches software.
TakesEvent == SeeDone /\ wdata_top' = <<>> /\ Hardware
ShaFairSpec == ShaSpec /\ WF_shaVars(ShaNext) /\ WF_shaVars(TakesEvent)

-----------------------------------------------------------------------------

Padded(m) ==
  LET last == (Len(m) + 1) % WordBytes
      whole == m \o <<"80">> \o (IF last = 0 THEN <<>> ELSE Zeros(WordBytes - last))
      data == [k \in 1 .. Len(whole) \div WordBytes |-> SubSeq(whole, WordBytes * (k - 1) + 1, WordBytes * k)]
      rest == (2 * BlockWords - 2 - (Len(data) % BlockWords)) % BlockWords
  IN data \o [k \in 1 .. rest |-> Zeros(WordBytes)] \o <<LenHi, LenLo(Len(m))>>

(* When software reads the digest, what was compressed into it is the      *)
(* message, in the byte order that was configured when it began, padded as *)
(* SHA-512 has it.                                                         *)
DigestIsOfMessage == software = "reading" => digest = Padded(message)

(* What is compressed is a whole block: the rounds never meet one that is  *)
(* still being fetched.                                                    *)
WholeBlocks == run_hash => Len(hash) = BlockWords

(* Software that looks at almost_full never meets a full FIFO.             *)
FifoHasRoom == Len(fifo) < FifoDepth

(* The digest that software reads is that of the message it wrote, in the  *)
(* byte order that was set when the hash began, of whole blocks, and a     *)
(* FIFO that is not almost full has room (sha512_opentitan.py:64, 121).    *)
HashCorrect == DigestIsOfMessage /\ WholeBlocks /\ FifoHasRoom

(* A message that is closed gets its digest, unless software resets the    *)
(* block (sha512_opentitan.py:101).                                        *)
HashEnds == software = "closing" ~> software # "closing"
=============================================================================
