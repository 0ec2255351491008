--------------------------- MODULE MCObjectBehavior ---------------------------
(* A sequence of an approach, one orbit of a circle and a final step, two agents. *)
EXTENDS ObjectBehaviorController

MCSteps ==
    <<[type |-> "approach", duration |-> 1, orbits |-> 0],
      [type |-> "circle", duration |-> 0, orbits |-> 1],
      [type |-> "terminal", duration |-> 0, orbits |-> 0]>>
=============================================================================
