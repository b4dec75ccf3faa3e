---------------------- MODULE ConnectionLimiter_proofs ----------------------
(***************************************************************************)
(* The limiter keeps its bound and loses no wake-up, for any set of calls  *)
(* and any limit, and it implements the pool of slots.  Inv is inductive:  *)
(* WithinLimit needs no strengthening but the types; that a queue implies  *)
(* full slots is what makes a recheck that succeeds leave no one behind.   *)
(***************************************************************************)
EXTENDS ConnectionLimiter, FiniteSetTheorems, TLAPS

Inv == TypeOK /\ WithinLimit /\ NoLostWakeup

(* The calls at a point of run are finitely many.                          *)
LEMMA AtFinite == \A s : IsFiniteSet(At(s))
  BY ConstantsAssumption, FS_Subset DEF At

(* What the loop's test does to the invariant, from idle or woken.         *)
LEMMA AttemptInv ==
  ASSUME Inv, NEW c \in Callers, pc[c] \in {"idle", "woken"}, Attempt(c),
         UNCHANGED aborted
  PROVE  Inv'
<1> USE DEF Inv, TypeOK
<1>1. CASE Full /\ SignalAborted(c)
  <2>1. pc' = [pc EXCEPT ![c] = "cancelled"] /\ UNCHANGED <<active, waiting>>
    BY <1>1 DEF Attempt
  <2>2. At("running")' = At("running") /\ At("queued")' = At("queued")
    BY <2>1 DEF At
  <2> QED BY <2>1, <2>2 DEF WithinLimit, NoLostWakeup, States
<1>2. CASE Full /\ ~SignalAborted(c)
  <2>1. /\ pc' = [pc EXCEPT ![c] = "queued"]
        /\ waiting' = waiting \cup {c} /\ active' = active
    BY <1>2 DEF Attempt
  <2>2. At("running")' = At("running") /\ At("queued")' = At("queued") \cup {c}
    BY <2>1 DEF At
  <2>3. active = Limit
    BY <1>2, ConstantsAssumption DEF Full
  <2> QED BY <2>1, <2>2, <2>3 DEF WithinLimit, NoLostWakeup, States
<1>3. CASE ~Full /\ SignalAborted(c)
  <2>1. pc' = [pc EXCEPT ![c] = "cancelled"] /\ UNCHANGED <<active, waiting>>
    BY <1>3 DEF Attempt
  <2>2. At("running")' = At("running") /\ At("queued")' = At("queued")
    BY <2>1 DEF At
  <2> QED BY <2>1, <2>2 DEF WithinLimit, NoLostWakeup, States
<1>4. CASE ~Full /\ ~SignalAborted(c)
  <2>1. /\ pc' = [pc EXCEPT ![c] = "running"]
        /\ active' = active + 1 /\ waiting' = waiting
    BY <1>4 DEF Attempt
  <2>2. At("running")' = At("running") \cup {c} /\ At("queued")' = At("queued")
    BY <2>1 DEF At
  <2>3. c \notin At("running")
    BY DEF At
  <2>4. Cardinality(At("running")') = Cardinality(At("running")) + 1
    BY <2>2, <2>3, AtFinite, FS_AddElement
  <2>5. active \in Nat /\ active < Limit
    BY <1>4, ConstantsAssumption DEF Full
  <2>6. waiting = {}
    BY <2>5, ConstantsAssumption DEF NoLostWakeup
  <2>7. TypeOK'
    BY <2>1, <2>5, ConstantsAssumption DEF States
  <2>8. WithinLimit'
    BY <2>1, <2>4, <2>5, ConstantsAssumption DEF WithinLimit
  <2> QED BY <2>1, <2>2, <2>6, <2>7, <2>8 DEF NoLostWakeup
<1> QED BY <1>1, <1>2, <1>3, <1>4

LEMMA AbortInv ==
  ASSUME Inv, NEW c \in Callers, Abort(c)
  PROVE  Inv'
<1> USE DEF Inv, TypeOK, Abort
<1>1. At("running")' = At("running")
  BY DEF At
<1>2. At("queued")' = At("queued") \ {c}
  BY DEF At
<1>3. pc' \in [Callers -> States]
  BY DEF States
<1> QED BY <1>1, <1>2, <1>3 DEF WithinLimit, NoLostWakeup

LEMMA TaskEndsInv ==
  ASSUME Inv, NEW c \in Callers, TaskEnds(c)
  PROVE  Inv'
<1> USE DEF Inv, TypeOK, TaskEnds, Woken
<1>1. c \in At("running")
  BY DEF At
<1>2. At("running")' = At("running") \ {c}
  BY DEF At, NoLostWakeup
<1>3. At("queued")' = {} /\ waiting' = {}
  BY DEF At, NoLostWakeup
<1>4. Cardinality(At("running")') = Cardinality(At("running")) - 1
  BY <1>1, <1>2, AtFinite, FS_RemoveElement
<1>5. active # 0
  BY <1>1, AtFinite, FS_EmptySet DEF WithinLimit
<1>6. TypeOK'
  BY <1>5, ConstantsAssumption DEF States
<1>7. WithinLimit'
  BY <1>4, <1>5, ConstantsAssumption DEF WithinLimit
<1> QED BY <1>3, <1>6, <1>7 DEF NoLostWakeup

LEMMA InitInv == Init => Inv
<1> SUFFICES ASSUME Init PROVE Inv
  OBVIOUS
<1>1. At("running") = {} /\ At("queued") = {}
  BY DEF Init, At
<1> QED BY <1>1, FS_EmptySet, ConstantsAssumption
        DEF Init, Inv, TypeOK, WithinLimit, NoLostWakeup, States

LEMMA StepInv == Inv /\ [Next]_vars => Inv'
<1> SUFFICES ASSUME Inv, [Next]_vars PROVE Inv'
  OBVIOUS
<1>1. ASSUME NEW c \in Callers, Run(c) PROVE Inv'
  BY <1>1, AttemptInv DEF Run
<1>2. ASSUME NEW c \in Callers, Recheck(c) PROVE Inv'
  BY <1>2, AttemptInv DEF Recheck
<1>3. ASSUME NEW c \in Callers, Abort(c) PROVE Inv'
  BY <1>3, AbortInv
<1>4. ASSUME NEW c \in Callers, TaskEnds(c) PROVE Inv'
  BY <1>4, TaskEndsInv
<1>5. CASE UNCHANGED vars
  BY <1>5 DEF vars, Inv, TypeOK, WithinLimit, NoLostWakeup, At
<1> QED BY <1>1, <1>2, <1>3, <1>4, <1>5 DEF Next

LEMMA Invariant == Spec => []Inv
  BY InitInv, StepInv, PTL DEF Spec
-----------------------------------------------------------------------------
(* The variables of ConnectionLimiter keep their types.                    *)
THEOREM LimiterTypes == Spec => []TypeOK
  BY Invariant, PTL DEF Inv

(* At most Limit handshakes of a key run at once (ConnectionLimiter.run).  *)
THEOREM LimitHolds == Spec => []WithinLimit
  BY Invariant, PTL DEF Inv

(* While a slot is free nobody is queued, so no release can be missed.     *)
THEOREM WakeupsArrive == Spec => []NoLostWakeup
  BY Invariant, PTL DEF Inv

(* A call whose signal was aborted never takes a slot.                     *)
THEOREM AbortedStayOut == Spec => AbortedNeverRuns
<1>1. TypeOK /\ [Next]_vars =>
        [\A c \in Callers : pc[c] # "running" /\ pc'[c] = "running" => c \notin aborted]_vars
  <2> SUFFICES ASSUME TypeOK, Next, NEW d \in Callers,
                      pc[d] # "running", pc'[d] = "running"
               PROVE  d \notin aborted
    OBVIOUS
  <2>1. ASSUME NEW c \in Callers, Run(c) \/ Recheck(c) PROVE d \notin aborted
    BY <2>1 DEF Run, Recheck, Attempt, SignalAborted, TypeOK
  <2>2. ASSUME NEW c \in Callers, Abort(c) PROVE d \notin aborted
    BY <2>2 DEF Abort, TypeOK
  <2>3. ASSUME NEW c \in Callers, TaskEnds(c) PROVE d \notin aborted
    BY <2>3 DEF TaskEnds, TypeOK
  <2> QED BY <2>1, <2>2, <2>3 DEF Next
<1> QED BY <1>1, LimiterTypes, PTL DEF Spec, AbortedNeverRuns
-----------------------------------------------------------------------------
(* A recheck takes a slot, gives up or only waits on.                      *)
LEMMA AttemptTakes ==
  ASSUME Inv, NEW c \in Callers, pc[c] \in {"idle", "woken"}, Attempt(c)
  PROVE  [Pool!Next]_(Pool!vars)
<1> DEFINE H == At("running")
           O == At("done") \cup At("cancelled")
<1> USE DEF Inv, TypeOK, States
<1>0. c \notin H \cup O
  BY DEF At
<1>1. ASSUME pc' = [pc EXCEPT ![c] = "cancelled"] PROVE Pool!GiveUp(c)
  <2>1. H' = H /\ O' = O \cup {c}
    BY <1>1 DEF At
  <2> QED BY <1>0, <2>1 DEF Pool!GiveUp
<1>2. ASSUME pc' = [pc EXCEPT ![c] = "queued"] PROVE UNCHANGED Pool!vars
  <2>1. H' = H /\ O' = O
    BY <1>2 DEF At
  <2> QED BY <2>1 DEF Pool!vars
<1>3. ASSUME ~Full, pc' = [pc EXCEPT ![c] = "running"] PROVE Pool!Take(c)
  <2>1. H' = H \cup {c} /\ O' = O
    BY <1>3 DEF At
  <2>2. Cardinality(H) < Limit
    BY <1>3, ConstantsAssumption DEF Full, WithinLimit
  <2>3. Pool!Cardinality(H) = Cardinality(H)
    BY DEF Pool!Cardinality, Cardinality
  <2> QED BY <1>0, <2>1, <2>2, <2>3 DEF Pool!Take
<1> QED BY <1>1, <1>2, <1>3 DEF Attempt, Pool!Next

(* The limiter implements the pool of slots: every step takes a slot,      *)
(* releases one, gives up or leaves the pool as it is.                     *)
THEOREM ImplementsPool == Spec => PoolSpec
<1>1. Init => Pool!Init
  BY DEF Init, Pool!Init, At
<1>2. Inv /\ [Next]_vars => [Pool!Next]_(Pool!vars)
  <2> SUFFICES ASSUME Inv, [Next]_vars PROVE [Pool!Next]_(Pool!vars)
    OBVIOUS
  <2>1. ASSUME NEW c \in Callers, Run(c) PROVE [Pool!Next]_(Pool!vars)
    BY <2>1, AttemptTakes DEF Run
  <2>2. ASSUME NEW c \in Callers, Recheck(c) PROVE [Pool!Next]_(Pool!vars)
    BY <2>2, AttemptTakes DEF Recheck
  <2>3. ASSUME NEW c \in Callers, Abort(c) PROVE [Pool!Next]_(Pool!vars)
    <3>1. CASE pc[c] = "queued"
      <4>1. /\ At("running")' = At("running")
            /\ (At("done") \cup At("cancelled"))' = At("done") \cup At("cancelled") \cup {c}
            /\ c \notin At("running") \cup (At("done") \cup At("cancelled"))
        BY <2>3, <3>1 DEF Abort, At, Inv, TypeOK
      <4> QED BY <4>1 DEF Pool!Next, Pool!GiveUp
    <3>2. CASE pc[c] # "queued"
      BY <2>3, <3>2 DEF Abort, Pool!vars, At
    <3> QED BY <3>1, <3>2
  <2>4. ASSUME NEW c \in Callers, TaskEnds(c) PROVE [Pool!Next]_(Pool!vars)
    <3>1. /\ c \in At("running")
          /\ At("running")' = At("running") \ {c}
          /\ (At("done") \cup At("cancelled"))' = At("done") \cup At("cancelled") \cup {c}
      BY <2>4 DEF TaskEnds, Woken, At, Inv, TypeOK, NoLostWakeup
    <3> QED BY <3>1 DEF Pool!Next, Pool!Release
  <2>5. CASE UNCHANGED vars
    BY <2>5 DEF vars, Pool!vars, At
  <2> QED BY <2>1, <2>2, <2>3, <2>4, <2>5 DEF Next
<1> QED BY <1>1, <1>2, Invariant, PTL DEF Spec, PoolSpec, Pool!Spec
=============================================================================
