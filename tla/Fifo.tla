-------------------------------- MODULE Fifo --------------------------------
(***************************************************************************)
(* What zQueue::Queue promises one consumer (inc/zutils/zQueue.h): it gets *)
(* what was pushed, in that order, each item once.                         *)
(***************************************************************************)
EXTENDS Sequences, Naturals

CONSTANT Items

VARIABLES queue,  \* what is pushed and not yet consumed
          out     \* what the consumer got

fifoVars == <<queue, out>>

FifoInit == queue = << >> /\ out = << >>

Put == \E v \in Items : queue' = Append(queue, v) /\ out' = out

Take ==
  /\ queue # << >>
  /\ out' = Append(out, Head(queue))
  /\ queue' = Tail(queue)

Drop == queue' = << >> /\ out' = out

FifoSpec == FifoInit /\ [][Put \/ Take \/ Drop]_fifoVars
=============================================================================
