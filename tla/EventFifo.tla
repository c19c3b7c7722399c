------------------------------ MODULE EventFifo ------------------------------
(***************************************************************************)
(* What the host promises about the events of the NCP: they are handed to  *)
(* the dispatch loop one at a time, in the order they arrived, the event   *)
(* being handled does not change under the handlers, and an event is       *)
(* discarded only while Capacity events are waiting.  This is the abstract *)
(* specification that the ring buffer of gecko_bglib.c implements (module  *)
(* Bglib); the comment of gecko_bglib.h, lines 15-17, states it in words.  *)
(***************************************************************************)
EXTENDS Naturals, Sequences

CONSTANTS Event,      \* the events the NCP can send
          NoEvent,    \* "no event is being handled"
          Capacity    \* how many events may wait

VARIABLES q,      \* the events waiting, oldest first
          out,    \* the event the handlers are looking at, or NoEvent
          lost    \* TRUE once an event has been discarded

vars == <<q, out, lost>>

Init == /\ q = <<>>
        /\ out = NoEvent
        /\ lost = FALSE

Arrive(e) == /\ Len(q) < Capacity
             /\ q' = Append(q, e)
             /\ UNCHANGED <<out, lost>>

Discard == /\ Len(q) = Capacity
           /\ lost' = TRUE
           /\ UNCHANGED <<q, out>>

Take == /\ out = NoEvent
        /\ q # <<>>
        /\ out' = Head(q)
        /\ q' = Tail(q)
        /\ UNCHANGED lost

Release == /\ out # NoEvent
           /\ out' = NoEvent
           /\ UNCHANGED <<q, lost>>

Next == \/ \E e \in Event : Arrive(e)
        \/ Discard
        \/ Take
        \/ Release

Spec == Init /\ [][Next]_vars
=============================================================================
