------------------------- MODULE ConnectionLimiter --------------------------
(***************************************************************************)
(* ConnectionLimiter.run for one key (an endpoint and its jump host): the  *)
(* calls that reconnects make, each with an AbortSignal.  A released slot  *)
(* wakes every queued call; each one looks at the count again in a         *)
(* microtask of its own, so other calls come between wake-up and recheck.  *)
(***************************************************************************)
EXTENDS Naturals, FiniteSets

CONSTANTS Callers,  \* calls of run, each made once
          Limit     \* the constructor's limit

ASSUME ConstantsAssumption == IsFiniteSet(Callers) /\ Limit \in Nat \ {0}

VARIABLES
  pc,      \* where a call of run is
  aborted, \* calls whose signal has been aborted
  active,  \* the count of the key in the active Map, 0 when absent
  waiting  \* the queue of the key in the waiting Map, {} when absent

vars == <<pc, aborted, active, waiting>>

States == {"idle", "queued", "woken", "running", "cancelled", "done"}
At(s) == {c \in Callers : pc[c] = s}

TypeOK ==
  /\ pc \in [Callers -> States]
  /\ aborted \subseteq Callers
  /\ active \in 0 .. Limit
  /\ waiting \subseteq Callers

Init ==
  /\ pc = [c \in Callers |-> "idle"]
  /\ aborted = {} /\ active = 0 /\ waiting = {}
-----------------------------------------------------------------------------
(* Faulty variants of definitions below, each a bug this code could have.  *)
FullAboveLimit == active > Limit         \* off by one
WakeNone(S) == {}                        \* the release forgets the queue
-----------------------------------------------------------------------------
Full == active >= Limit

SignalAborted(c) == c \in aborted

(* The queued calls that a release wakes: all of them *)
Woken(S) == S

(* The loop's test and what follows it, for a call that begins or wakes    *)
Attempt(c) ==
  \/ /\ Full /\ SignalAborted(c)
     /\ pc' = [pc EXCEPT ![c] = "cancelled"]
     /\ UNCHANGED <<active, waiting>>
  \/ /\ Full /\ ~SignalAborted(c)
     /\ pc' = [pc EXCEPT ![c] = "queued"]
     /\ waiting' = waiting \cup {c}
     /\ UNCHANGED active
  \/ /\ ~Full /\ SignalAborted(c)
     /\ pc' = [pc EXCEPT ![c] = "cancelled"]
     /\ UNCHANGED <<active, waiting>>
  \/ /\ ~Full /\ ~SignalAborted(c)
     /\ pc' = [pc EXCEPT ![c] = "running"]
     /\ active' = active + 1
     /\ UNCHANGED waiting

Run(c) == pc[c] = "idle" /\ Attempt(c) /\ UNCHANGED aborted

Recheck(c) == pc[c] = "woken" /\ Attempt(c) /\ UNCHANGED aborted

(* The abort listener is there only while the call is queued.              *)
Abort(c) ==
  /\ c \notin aborted /\ pc[c] \notin {"cancelled", "done"}
  /\ aborted' = aborted \cup {c}
  /\ waiting' = waiting \ {c}
  /\ pc' = IF pc[c] = "queued" THEN [pc EXCEPT ![c] = "cancelled"] ELSE pc
  /\ UNCHANGED active

(* The task resolves or rejects: give the slot back and wake the queue.    *)
TaskEnds(c) ==
  /\ pc[c] = "running"
  /\ active' = active - 1
  /\ waiting' = waiting \ Woken(waiting)
  /\ pc' = [d \in Callers |-> IF d = c THEN "done"
                              ELSE IF d \in Woken(waiting) THEN "woken" ELSE pc[d]]
  /\ UNCHANGED aborted
-----------------------------------------------------------------------------
Next == \E c \in Callers : Run(c) \/ Recheck(c) \/ Abort(c) \/ TaskEnds(c)

(* Microtasks run, and every handshake ends: readyTimeout bounds it.       *)
Fairness == \A c \in Callers : WF_vars(Recheck(c)) /\ WF_vars(TaskEnds(c))

Spec == Init /\ [][Next]_vars
FairSpec == Spec /\ Fairness
-----------------------------------------------------------------------------
(* The count in the active Map is the number of handshakes that run, and   *)
(* they never exceed the limit, however wake-ups and new calls interleave. *)
WithinLimit ==
  active = Cardinality(At("running")) /\ Cardinality(At("running")) <= Limit

(* No wake-up is lost: a call waits in the queue only while every slot is  *)
(* taken, and then a release is still to come.                             *)
NoLostWakeup ==
  waiting = At("queued") /\ (waiting # {} => active = Limit)

(* A reconnect whose signal was aborted never begins its handshake.        *)
AbortedNeverRuns ==
  [][\A c \in Callers : pc[c] # "running" /\ pc'[c] = "running" => c \notin aborted]_vars

(* Every call gets a slot or is cancelled.                                 *)
Served == \A c \in Callers : pc[c] = "queued" ~> pc[c] \in {"running", "cancelled", "done"}

(* The limiter is a pool of slots.                                         *)
Pool == INSTANCE SlotPool WITH
          holders <- At("running"), over <- At("done") \cup At("cancelled")
PoolSpec == Pool!Spec
=============================================================================
