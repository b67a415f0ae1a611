----------------------------- MODULE MCRingBuffer -----------------------------
(***************************************************************************)
(* RingBuffer for TLC: every array of up to one byte more than the buffer   *)
(* holds, over two values besides the 0 of a fresh buffer.                  *)
(***************************************************************************)
EXTENDS RingBuffer, SequencesExt

MCBytes  == 0..2
MCChunks == SeqOf({1, 2}, Size + 1)
MCCounts == 0..(Size + 1)

=============================================================================
