----------------------------- MODULE BatchQueue -----------------------------
(***************************************************************************)
(* What the ring of buffers in src/src/sai-mac-learning.c promises the     *)
(* thread that reads it: MAC events are gathered in a current batch, a     *)
(* batch that was published is never changed, and published batches are    *)
(* handed out once each, oldest first, one at a time.                      *)
(***************************************************************************)
EXTENDS Naturals, Sequences

CONSTANTS Batches,  \* the contents a batch may have, << >> among them
          Capacity  \* how many published batches may wait

VARIABLES current,  \* the batch being gathered
          queue,    \* the published batches, oldest first
          handed    \* the batch handed out and not yet finished with

queueVars == <<current, queue, handed>>

QueueInit == current = << >> /\ queue = << >> /\ handed = << >>

\* Gathering events only touches the current batch.
Gather == /\ current' \in Batches
          /\ UNCHANGED <<queue, handed>>

Publish == /\ current # << >>
           /\ Len(queue) < Capacity
           /\ queue' = Append(queue, current)
           /\ current' = << >>
           /\ UNCHANGED handed

HandOut == /\ handed = << >>
           /\ queue # << >>
           /\ handed' = Head(queue)
           /\ queue' = Tail(queue)
           /\ UNCHANGED current

Finish == /\ handed # << >>
          /\ handed' = << >>
          /\ UNCHANGED <<current, queue>>

QueueNext == Gather \/ Publish \/ HandOut \/ Finish

QueueSpec == QueueInit /\ [][QueueNext]_queueVars
=============================================================================
