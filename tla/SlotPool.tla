------------------------------ MODULE SlotPool ------------------------------
(***************************************************************************)
(* What a limiter of concurrent handshakes promises: at most Limit callers *)
(* hold a slot, a caller holds one at most once, and a caller that gave up *)
(* never holds one.  Nothing is said about queues, wake-ups and rechecks.  *)
(***************************************************************************)
EXTENDS Naturals, FiniteSets

CONSTANTS Callers, Limit

VARIABLES holders,  \* callers that hold a slot
          over      \* callers that finished or gave up

vars == <<holders, over>>

Init == holders = {} /\ over = {}

Take(c) ==
  /\ c \notin holders \cup over
  /\ Cardinality(holders) < Limit
  /\ holders' = holders \cup {c} /\ over' = over

Release(c) ==
  /\ c \in holders
  /\ holders' = holders \ {c} /\ over' = over \cup {c}

GiveUp(c) ==
  /\ c \notin holders \cup over
  /\ over' = over \cup {c} /\ holders' = holders

Next == \E c \in Callers : Take(c) \/ Release(c) \/ GiveUp(c)

Spec == Init /\ [][Next]_vars
=============================================================================
