-------------------------------- MODULE Fifo --------------------------------
(***************************************************************************)
(* What a pipe promises: a bounded queue of bytes.  Bytes are handed to    *)
(* readers in the order they were put in, each once; a reader that asked   *)
(* for bytes gets none only at the end of the stream.                      *)
(***************************************************************************)
EXTENDS Integers, Sequences

CONSTANT Capacity

VARIABLES
  q,        \* the bytes in the pipe
  open,     \* 1 while a write end is open
  handed    \* the bytes the last read handed out

fifovars == <<q, open, handed>>

FifoInit == q = <<>> /\ open \in {0, 1} /\ handed = <<>>

Put ==
  /\ open = 1
  /\ Len(q) < Len(q') /\ Len(q') <= Capacity
  /\ SubSeq(q', 1, Len(q)) = q
  /\ UNCHANGED <<open, handed>>

Get ==
  /\ q = handed' \o q'
  /\ UNCHANGED open

EndOfStream ==
  /\ open = 0 /\ q = <<>>
  /\ handed' = <<>>
  /\ UNCHANGED <<q, open>>

CloseWrite == open' = 0 /\ UNCHANGED <<q, handed>>

FifoNext == Put \/ (Get /\ handed' # <<>>) \/ EndOfStream \/ CloseWrite

FifoSpec == FifoInit /\ [][FifoNext]_fifovars
=============================================================================
