------------------------------- MODULE BytePipe -------------------------------
(***************************************************************************)
(* What the reply path of a connection promises: bytes that were accepted  *)
(* leave in the order in which they were accepted, none is invented or     *)
(* duplicated, and a pipe that closes without a failure has delivered all  *)
(* of them.  After a failure accepted bytes may stay undelivered for ever. *)
(***************************************************************************)
EXTENDS Sequences, Integers

CONSTANT Byte      \* the bytes a pipe carries

VARIABLES accepted,    \* every byte accepted so far, in order
          delivered,   \* every byte that has left the pipe, in order
          status       \* "open", "closed" (cleanly) or "failed"

pipeVars == <<accepted, delivered, status>>

Init ==
  /\ accepted = <<>>
  /\ delivered = <<>>
  /\ status = "open"

\* A chunk is accepted in one piece.  A writer that has not noticed a failure
\* yet may still have its chunk accepted, but a cleanly closed pipe takes none.
Accept ==
  /\ status # "closed"
  /\ accepted' \in Seq(Byte)
  /\ Len(accepted') > Len(accepted)
  /\ SubSeq(accepted', 1, Len(accepted)) = accepted
  /\ UNCHANGED <<delivered, status>>

\* Some of the oldest undelivered bytes leave.
Deliver ==
  /\ status = "open"
  /\ \E n \in (Len(delivered) + 1)..Len(accepted) :
       delivered' = SubSeq(accepted, 1, n)
  /\ UNCHANGED <<accepted, status>>

\* The pipe breaks; a last part of the oldest bytes may have left with it.
Fail ==
  /\ status = "open"
  /\ status' = "failed"
  /\ \E n \in Len(delivered)..Len(accepted) :
       delivered' = SubSeq(accepted, 1, n)
  /\ UNCHANGED accepted

\* A clean close waits until nothing is left to deliver.
Close ==
  /\ status = "open"
  /\ delivered = accepted
  /\ status' = "closed"
  /\ UNCHANGED <<accepted, delivered>>

Next == Accept \/ Deliver \/ Fail \/ Close

Spec == Init /\ [][Next]_pipeVars
=============================================================================
