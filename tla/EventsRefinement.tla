-------------------------- MODULE EventsRefinement --------------------------
(***************************************************************************)
(* Events implements AsyncChannel: what is owed is what is left in the     *)
(* batch of the running interrupt, followed by the queue, an event of      *)
(* repeat count r standing for max(r, 1) occurrences.                      *)
(***************************************************************************)
EXTENDS Events

Occurrences(e) ==
  [what |-> <<e.ev, e.spec>>, times |-> IF e.repeat = 0 THEN 1 ELSE e.repeat]

AllOccurrences(q) == [k \in DOMAIN q |-> Occurrences(q[k])]

Channel == INSTANCE AsyncChannel
  WITH owed <- AllOccurrences(batch \o queue), taken <- Len(batch)

(* Queued events are delivered in posting order, each the right number of  *)
(* times, and never in the interrupt that is running when they are posted. *)
ChannelSpec == Channel!Spec

(* ... and they are all delivered, or forgotten by SetConf.                *)
ChannelFairness == Channel!FairSpec
=============================================================================
