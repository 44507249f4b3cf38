------------------------------- MODULE Reply --------------------------------
(***************************************************************************)
(* What a streamed reply promises the chat page: the user sees more and    *)
(* more of what the model says, in order, and is offered a document only   *)
(* when the model has finished, made of all that it said.                  *)
(***************************************************************************)
EXTENDS Naturals

VARIABLES
  said,    \* how many pieces of content the model has produced
  over,    \* has the generation ended, and how?
  shown,   \* how many of them the user has seen
  offered  \* of how many pieces the offered document is made; 0 if there is none

vars == <<said, over, shown, offered>>

Init == said = 0 /\ over = "no" /\ shown = 0 /\ offered = 0

Say ==
  /\ over = "no"
  /\ said' = said + 1
  /\ UNCHANGED <<over, shown, offered>>

\* Done only with something to offer.
End ==
  /\ over = "no"
  /\ over' \in IF said = 0 THEN {"failed"} ELSE {"done", "failed"}
  /\ UNCHANGED <<said, shown, offered>>

Reveal ==
  /\ shown' \in shown..said
  /\ \/ UNCHANGED offered
     \/ over = "done" /\ shown' = said /\ offered' = said
  /\ UNCHANGED <<said, over>>

Next == Say \/ End \/ Reveal

Spec == Init /\ [][Next]_vars

-----------------------------------------------------------------------------
TypeOK ==
  /\ said \in Nat
  /\ over \in {"no", "done", "failed"}
  /\ shown \in 0..said
  /\ offered \in Nat

\* A document is only ever offered whole, and after all of it was seen.
OfferedIsWhole == offered # 0 => over = "done" /\ offered = said /\ shown = said

ReplyInv == TypeOK /\ OfferedIsWhole
=============================================================================
