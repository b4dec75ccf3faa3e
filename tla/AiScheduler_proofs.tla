------------------------- MODULE AiScheduler_proofs -------------------------
(***************************************************************************)
(* A slot begins one run, a record that shows work has a run behind it, an *)
(* outcome is final and a disposed scheduler writes nothing, for any plans *)
(* and any bounds on the history, the clock, the failed writes and the     *)
(* crashes.                                                                *)
(*                                                                         *)
(* Memory and disk may differ, for a write may fail; so what recovery      *)
(* relies on (Books) is kept for both.  What a process adds (Alive) begins *)
(* with every start.  The three ways to leave a run, which ExecuteEnds,    *)
(* the clock and the start share, are proved once: Rests, Begins, Tick.    *)
(***************************************************************************)
EXTENDS AiScheduler, FiniteSetTheorems, WellFoundedInduction, TLAPS

(* What is true of every record, also of one on disk                       *)
RecordOK(run) ==
  \/ run = NoRun
  \/ /\ run.status # "absent"
     /\ run.status \in {"completed", "failed"} => run.finished
     /\ run.notification # "none" => run.status \in {"completed", "failed"}

(* What memory and disk both have                                          *)
Books(ps, rs) ==
  /\ ps \in [Plans -> PlanRecords] /\ rs \in [Runs -> RunRecords]
  /\ Cardinality(Present(rs)) <= KeptRuns
  /\ \A r \in Runs : RecordOK(rs[r]) /\ (r > used => rs[r] = NoRun)
  /\ \A r \in 1 .. used :
       /\ slotOf[r] # None => slotOf[r] < ps[scheduleOf[r]].nextRunAt
       /\ ps[scheduleOf[r]].is = "removed" => rs[r] = NoRun

(* A record that shows work                                                *)
Spins(run) == run # NoRun /\ (~run.finished \/ run.status = "running" \/ run.hosts = "open")

(* What the process that runs adds                                         *)
Alive ==
  /\ active \in 0 .. used /\ deliveries \subseteq 1 .. used /\ active \notin deliveries
  /\ active # None =>
       /\ runs[active].status \in {"running", "cancelled"}
       /\ runs[active].status = "cancelled" => aborted
  /\ \A r \in Runs :
       /\ Spins(runs[r]) => r = active /\ ~disposed
       /\ runs[r].notification = "sending" => r \in deliveries \/ failures > 0
       /\ r \in deliveries /\ runs[r] # NoRun => runs[r].status \in {"completed", "failed"}
       /\ disposed /\ r \in deliveries => runs[r].notification # "sending"

Gone == active = None /\ deliveries = {} /\ ~aborted /\ ~disposed

(* The slots that were claimed                                             *)
Claims == SlotOnce /\ \A r \in 1 .. used : slotOf[r] <= now

Inv ==
  /\ TypeOK /\ Claims
  /\ Books(plans, runs) /\ Books(disk.plans, disk.runs)
  /\ IF up THEN Alive ELSE Gone
-----------------------------------------------------------------------------
(* A finite set of numbers that is not empty has a smallest one.           *)
LEMMA Smallest ==
  ASSUME NEW S \in SUBSET Nat, S # {}
  PROVE  \E m \in S : \A s \in S : m <= s
<1>1. \E m \in S : \A s \in S : ~(<<s, m>> \in OpToRel(<, Nat))
  BY WFMin, NatLessThanWellFounded
<1>2. PICK m \in S : \A s \in S : ~(<<s, m>> \in OpToRel(<, Nat))
  BY <1>1
<1>3. ASSUME NEW s \in S PROVE m <= s
  <2>1. s \in Nat /\ m \in Nat
    OBVIOUS
  <2>2. s < m => <<s, m>> \in OpToRel(<, Nat)
    BY <2>1 DEF OpToRel
  <2>3. ~(s < m)
    BY <1>2, <2>2, Zenon
  <2> QED BY <2>1, <2>3
<1> QED BY <1>3

LEMMA RunsAreFinite == IsFiniteSet(Runs) /\ \A S \in SUBSET Runs : IsFiniteSet(S)
<1>1. IsFiniteSet(Runs)
  BY ConstantsAssumption, FS_Interval DEF Runs
<1> QED BY <1>1, FS_Subset

(* Fewer records present are fewer to keep.                                *)
LEMMA FewerPresent ==
  ASSUME NEW rs \in [Runs -> RunRecords], NEW qs \in [Runs -> RunRecords],
         \A r \in Runs : rs[r] # NoRun => qs[r] # NoRun
  PROVE  Cardinality(Present(rs)) <= Cardinality(Present(qs))
<1>1. Present(rs) \subseteq Present(qs) /\ IsFiniteSet(Present(qs))
  BY RunsAreFinite DEF Present
<1> QED BY <1>1, FS_Subset

(* slice(0, 200): it keeps no more than it should, and the newest.         *)
LEMMA NewestKeeps ==
  ASSUME NEW rs \in [Runs -> RunRecords]
  PROVE  /\ Newest(rs) \in [Runs -> RunRecords]
         /\ Cardinality(Present(Newest(rs))) <= KeptRuns
         /\ \A r \in Runs : Newest(rs)[r] = rs[r] \/ Newest(rs)[r] = NoRun
         /\ \A r \in Runs : (\A s \in Runs : s > r => rs[s] = NoRun) => Newest(rs)[r] = rs[r]
<1> DEFINE P == Present(Newest(rs))
           After(r) == {s \in Present(rs) : s > r}
<1>1. Newest(rs) = [r \in Runs |-> IF Cardinality(After(r)) < KeptRuns THEN rs[r] ELSE NoRun]
  BY DEF Newest
<1>2. NoRun \in RunRecords
  BY DEF NoRun, RunRecords
<1>3. Newest(rs) \in [Runs -> RunRecords]
  BY <1>1, <1>2
<1>4. \A r \in Runs : IsFiniteSet(After(r))
  BY RunsAreFinite DEF Present
<1>5. Cardinality(P) <= KeptRuns
  <2>1. CASE P = {}
    BY <2>1, FS_EmptySet, ConstantsAssumption
  <2>2. CASE P # {}
    <3>1. P \in SUBSET Nat /\ IsFiniteSet(P)
      BY RunsAreFinite DEF Present, Runs
    <3>2. PICK m \in P : \A s \in P : m <= s
      BY <2>2, <3>1, Smallest
    <3>3. m \in Runs /\ Newest(rs)[m] # NoRun
      BY DEF Present
    <3>4. Cardinality(After(m)) < KeptRuns
      BY <1>1, <3>3
    <3>5. P \ {m} \subseteq After(m)
      <4>1. ASSUME NEW s \in P \ {m} PROVE s \in After(m)
        <5>1. s \in Runs /\ Newest(rs)[s] # NoRun /\ s > m
          BY <3>1, <3>2 DEF Present
        <5>2. rs[s] # NoRun
          BY <1>1, <5>1
        <5> QED BY <5>1, <5>2 DEF Present
      <4> QED BY <4>1
    <3>6. Cardinality(P \ {m}) <= Cardinality(After(m)) /\ Cardinality(After(m)) \in Nat
      BY <1>4, <3>3, <3>5, FS_Subset, FS_CardinalityType
    <3>7. Cardinality(P \ {m}) = Cardinality(P) - 1 /\ Cardinality(P) \in Nat
      BY <3>1, FS_RemoveElement, FS_CardinalityType
    <3> QED BY <3>4, <3>6, <3>7, ConstantsAssumption
  <2> QED BY <2>1, <2>2
<1>6. ASSUME NEW r \in Runs, \A s \in Runs : s > r => rs[s] = NoRun PROVE Newest(rs)[r] = rs[r]
  <2>1. After(r) = {}
    BY <1>6 DEF Present
  <2>2. Cardinality(After(r)) < KeptRuns
    BY <2>1, FS_EmptySet, ConstantsAssumption
  <2> QED BY <1>1, <2>2
<1>7. \A r \in Runs : Newest(rs)[r] = rs[r] \/ Newest(rs)[r] = NoRun
  BY <1>1
<1> HIDE DEF P
<1> QED BY <1>3, <1>5, <1>6, <1>7 DEF P
-----------------------------------------------------------------------------
(* Records on a step                                                       *)

(* Books ps, rs of records that shrink or change and of plans that move    *)
(* on, with the same runs begun.                                           *)
LEMMA BooksChange ==
  ASSUME NEW ps, NEW rs, NEW qs \in [Plans -> PlanRecords], NEW ts \in [Runs -> RunRecords],
         TypeOK, Books(ps, rs),
         \A r \in Runs : RecordOK(ts[r]) /\ (rs[r] = NoRun => ts[r] = NoRun),
         \A r \in 1 .. used : slotOf[r] # None => slotOf[r] < qs[scheduleOf[r]].nextRunAt,
         \A r \in 1 .. used : qs[scheduleOf[r]].is = "removed" =>
           ts[r] = NoRun \/ ps[scheduleOf[r]].is = "removed"
  PROVE  Books(qs, ts)
<1>1. Cardinality(Present(ts)) <= Cardinality(Present(rs))
  BY FewerPresent DEF Books
<1>2. IsFiniteSet(Present(ts)) /\ IsFiniteSet(Present(rs))
  BY RunsAreFinite DEF Present
<1>3. Cardinality(Present(ts)) \in Nat /\ Cardinality(Present(rs)) \in Nat
  BY <1>2, FS_CardinalityType
<1>4. Cardinality(Present(ts)) <= KeptRuns
  BY <1>1, <1>3, ConstantsAssumption DEF Books
<1>5. 1 .. used \subseteq Runs
  BY ConstantsAssumption DEF TypeOK, Runs
<1> QED BY <1>4, <1>5 DEF Books

(* Records change, plans stay.                                             *)
LEMMA RecordsChange ==
  ASSUME NEW ps, NEW rs, NEW ts \in [Runs -> RunRecords], TypeOK, Books(ps, rs),
         \A r \in Runs : RecordOK(ts[r]) /\ (rs[r] = NoRun => ts[r] = NoRun)
  PROVE  Books(ps, ts)
BY BooksChange DEF Books

(* A calendar slot that is computed anew lies ahead of every claimed one.  *)
LEMMA ShiftedBooks ==
  ASSUME NEW ps, NEW rs, NEW S, NEW z \in Zones, TypeOK, Claims, Books(ps, rs)
  PROVE  /\ Books(Shifted(ps, S, z), rs)
         /\ \A p \in Plans : Shifted(ps, S, z)[p].is = ps[p].is
<1> DEFINE qs == Shifted(ps, S, z)
<1>1. ps \in [Plans -> PlanRecords] /\ now \in 0 .. MaxNow
  BY DEF Books, TypeOK
<1>2. now + 1 \in Slots
  BY <1>1, ConstantsAssumption DEF Slots
<1>3. ASSUME NEW p \in Plans
      PROVE  /\ qs[p] \in PlanRecords /\ qs[p].is = ps[p].is
             /\ qs[p].nextRunAt = now + 1 \/ qs[p].nextRunAt = ps[p].nextRunAt
  <2>1. qs[p] = IF p \in S \cap Calendar \cap There(ps)
                THEN [ps[p] EXCEPT !.nextRunAt = now + 1, !.zone = z] ELSE ps[p]
    BY DEF Shifted, NextSlot
  <2>2. ps[p] \in PlanRecords
    BY <1>1
  <2> HIDE DEF qs
  <2> QED BY <1>2, <2>1, <2>2 DEF PlanRecords
<1>4. qs \in [Plans -> PlanRecords]
  <2>1. qs = [p \in Plans |-> qs[p]]
    BY DEF Shifted
  <2> HIDE DEF qs
  <2> QED BY <1>3, <2>1
<1>5. ASSUME NEW r \in 1 .. used
      PROVE  /\ scheduleOf[r] \in Plans
             /\ slotOf[r] # None => slotOf[r] < qs[scheduleOf[r]].nextRunAt
  <2>1. scheduleOf[r] \in Plans /\ slotOf[r] \in Slots
    BY DEF TypeOK
  <2>2. slotOf[r] <= now /\ slotOf[r] \in Nat /\ now \in Nat
    BY <1>1, <2>1 DEF Claims, Slots
  <2>3. slotOf[r] # None => slotOf[r] < ps[scheduleOf[r]].nextRunAt
    BY DEF Books
  <2> HIDE DEF qs
  <2> QED BY <1>3, <2>1, <2>2, <2>3
<1>6. \A r \in 1 .. used : qs[scheduleOf[r]].is = "removed" => ps[scheduleOf[r]].is = "removed"
  <2> HIDE DEF qs
  <2> QED BY <1>3, <1>5
<1>7. \A r \in Runs : RecordOK(rs[r])
  BY DEF Books
<1> HIDE DEF qs
<1>8. rs \in [Runs -> RunRecords]
  BY DEF Books
<1>9. Books(qs, rs)
  BY <1>4, <1>5, <1>6, <1>7, <1>8, BooksChange
<1> QED BY <1>3, <1>9 DEF qs

-----------------------------------------------------------------------------
(* Rests, Begins and Tick, from any plans and records whose disk is saved  *)
From(ps, rs, saved, failed) ==
  /\ Books(ps, rs) /\ Books(saved.plans, saved.runs) /\ failed \in 0 .. MaxFailures

(* No record of rs shows work, and the reports under way are known.        *)
Around(rs, failed) ==
  /\ up' /\ UNCHANGED <<clockVars, crashes>>
  /\ timeZone' \in Zones /\ aborted' \in BOOLEAN /\ disposed' \in BOOLEAN
  /\ deliveries' \in SUBSET (1 .. used)
  /\ \A r \in Runs :
       /\ ~Spins(rs[r])
       /\ rs[r].notification = "sending" => r \in deliveries' \/ failed > 0
       /\ r \in deliveries' /\ rs[r] # NoRun => rs[r].status \in {"completed", "failed"}
       /\ disposed' /\ r \in deliveries' => rs[r].notification # "sending"

LEMMA RunsBelow == ASSUME TypeOK PROVE /\ used \in Nat /\ 1 .. used \subseteq Runs
                                       /\ MaxRuns \in Nat
BY ConstantsAssumption DEF TypeOK, Runs

LEMMA RestsInv ==
  ASSUME NEW ps, NEW rs, NEW saved, NEW failed, TypeOK, Claims,
         From(ps, rs, saved, failed), Around(rs, failed), Rests(ps, rs, saved, failed)
  PROVE  Inv'
<1>1. /\ plans' = ps /\ runs' = rs /\ disk' = saved /\ failures' = failed /\ active' = None
      /\ used' = used /\ scheduleOf' = scheduleOf /\ slotOf' = slotOf
  BY DEF Rests, beginVars
<1>2. now' = now /\ zone' = zone /\ crashes' = crashes /\ up'
  BY DEF Around, clockVars
<1>3. Books(plans, runs)' /\ Books(disk.plans, disk.runs)'
  BY <1>1 DEF From, Books, RecordOK
<1>4. Claims'
  BY <1>1, <1>2 DEF Claims, SlotOnce
<1>5. Alive'
  BY <1>1, RunsBelow DEF Around, Alive, None
<1>6. TypeOK'
  BY <1>1, <1>2, RunsBelow DEF Around, From, Books, TypeOK, None
<1> QED BY <1>2, <1>3, <1>4, <1>5, <1>6 DEF Inv

(* The slot of a run that begins is not later than now, and not before any *)
(* slot of the plan that was claimed earlier.                              *)
LEMMA ClaimedMovesOn ==
  ASSUME NEW ps \in [Plans -> PlanRecords], NEW p \in Plans, NEW scheduled \in BOOLEAN, TypeOK,
         scheduled => ps[p].nextRunAt <= now
  PROVE  LET qs == IF scheduled THEN Claimed(ps, p) ELSE ps IN
         /\ qs \in [Plans -> PlanRecords]
         /\ \A q \in Plans : qs[q].is = ps[q].is /\ ps[q].nextRunAt <= qs[q].nextRunAt
         /\ scheduled => ps[p].nextRunAt < qs[p].nextRunAt
<1>1. \A q \in Plans : ps[q].nextRunAt \in Nat /\ ps[q] \in PlanRecords
  BY DEF PlanRecords, Slots
<1>2. CASE ~scheduled
  BY <1>1, <1>2
<1>3. CASE scheduled
  <2> DEFINE qs == Claimed(ps, p)
  <2>1. now \in Nat /\ now + 1 \in Slots /\ zone \in Zones
    BY ConstantsAssumption DEF TypeOK, Slots
  <2>2. qs = [ps EXCEPT ![p] = [ps[p] EXCEPT !.nextRunAt = now + 1,
                                             !.zone = IF p \in Calendar THEN zone ELSE @]]
    BY DEF Claimed, NextSlot
  <2>3. qs[p] = [ps[p] EXCEPT !.nextRunAt = now + 1,
                              !.zone = IF p \in Calendar THEN zone ELSE @]
    BY <2>2
  <2>4. qs[p] \in PlanRecords /\ qs[p].is = ps[p].is /\ qs[p].nextRunAt = now + 1
    BY <1>1, <2>1, <2>3 DEF PlanRecords
  <2>5. qs \in [Plans -> PlanRecords] /\ \A q \in Plans : q # p => qs[q] = ps[q]
    BY <2>2, <2>4
  <2> HIDE DEF qs
  <2>6. \A q \in Plans : qs[q].is = ps[q].is /\ ps[q].nextRunAt <= qs[q].nextRunAt
    BY <1>1, <1>3, <2>1, <2>4, <2>5
  <2>7. ps[p].nextRunAt < qs[p].nextRunAt
    BY <1>1, <1>3, <2>1, <2>4
  <2> QED BY <1>3, <2>5, <2>6, <2>7 DEF qs
<1> QED BY <1>2, <1>3

LEMMA BeginsInv ==
  ASSUME NEW ps, NEW rs, NEW saved, NEW failed, NEW p \in Plans, NEW scheduled \in BOOLEAN,
         TypeOK, Claims, From(ps, rs, saved, failed), Around(rs, failed),
         ~disposed', ~aborted', used < MaxRuns, ps[p].is = "there",
         scheduled => ps[p].nextRunAt <= now,
         Begins(p, scheduled, ps, rs, saved, failed)
  PROVE  Inv'
<1> DEFINE n == used + 1
           qs == IF scheduled THEN Claimed(ps, p) ELSE ps
           with == [rs EXCEPT ![n] = Begun]
           ts == Newest(with)
<1>1. CASE failed < MaxFailures /\ Rests(ps, rs, saved, failed + 1)
  <2>1. From(ps, rs, saved, failed + 1) /\ Around(rs, failed + 1)
    BY <1>1, ConstantsAssumption DEF From, Around
  <2> QED BY <1>1, <2>1, RestsInv
<1>2. CASE /\ plans' = qs /\ runs' = ts
           /\ disk' = Store(qs, ts) /\ failures' = failed
           /\ active' = n /\ used' = n
           /\ scheduleOf' = [s \in 1 .. n |-> IF s = n THEN p ELSE scheduleOf[s]]
           /\ slotOf' = [s \in 1 .. n |-> IF s < n THEN slotOf[s]
                                          ELSE IF scheduled THEN ps[p].nextRunAt ELSE None]
  <2>1. /\ ps \in [Plans -> PlanRecords] /\ rs \in [Runs -> RunRecords]
        /\ \A r \in Runs : RecordOK(rs[r]) /\ (r > used => rs[r] = NoRun)
    BY DEF From, Books
  <2>2. used \in Nat /\ n \in Runs /\ MaxRuns \in Nat /\ 1 .. n \subseteq Runs
    BY RunsBelow DEF Runs
  <2>3. /\ qs \in [Plans -> PlanRecords]
        /\ \A q \in Plans : qs[q].is = ps[q].is /\ ps[q].nextRunAt <= qs[q].nextRunAt
        /\ scheduled => ps[p].nextRunAt < qs[p].nextRunAt
    BY <2>1, ClaimedMovesOn
  <2>4. Begun \in RunRecords /\ Begun.status = "running" /\ Begun.notification = "none"
    BY DEF Begun, NoRun, RunRecords
  <2>5. with \in [Runs -> RunRecords] /\ with[n] = Begun
        /\ \A r \in Runs : r # n => with[r] = rs[r]
    BY <2>1, <2>2, <2>4
  <2>6. \A r \in Runs : r > n => with[r] = NoRun
    BY <2>1, <2>2, <2>5 DEF Runs
  <2> HIDE DEF with
  <2>7. /\ ts \in [Runs -> RunRecords] /\ Cardinality(Present(ts)) <= KeptRuns
        /\ \A r \in Runs : ts[r] = with[r] \/ ts[r] = NoRun
        /\ ts[n] = Begun
    BY <2>2, <2>5, <2>6, NewestKeeps
  <2> HIDE DEF ts
  <2>8. \A r \in Runs : RecordOK(ts[r]) /\ (r > n => ts[r] = NoRun)
    BY <2>1, <2>4, <2>5, <2>6, <2>7 DEF RecordOK
  <2>9. /\ scheduleOf'[n] = p /\ slotOf'[n] = IF scheduled THEN ps[p].nextRunAt ELSE None
        /\ \A s \in 1 .. used : scheduleOf'[s] = scheduleOf[s] /\ slotOf'[s] = slotOf[s]
        /\ \A s \in 1 .. n : s = n \/ s \in 1 .. used
    BY <1>2, <2>2
  <2>10. /\ now \in Nat /\ ps[p].nextRunAt \in Slots /\ ps[p].nextRunAt \in Nat
         /\ \A q \in Plans : ps[q].nextRunAt \in Nat /\ qs[q].nextRunAt \in Nat
    BY <2>1, <2>3 DEF TypeOK, PlanRecords, Slots
  <2> HIDE DEF qs
  <2>11. \A s \in 1 .. used :
           /\ scheduleOf[s] \in Plans /\ slotOf[s] \in Nat /\ slotOf[s] <= now
           /\ slotOf[s] # None => slotOf[s] < ps[scheduleOf[s]].nextRunAt
           /\ ps[scheduleOf[s]].is = "removed" => rs[s] = NoRun
    BY DEF TypeOK, Claims, From, Books, Slots
  <2>12. \A s \in 1 .. n :
           /\ slotOf'[s] # None => slotOf'[s] < qs[scheduleOf'[s]].nextRunAt
           /\ qs[scheduleOf'[s]].is = "removed" => ts[s] = NoRun
    <3>1. ASSUME NEW s \in 1 .. used
          PROVE  /\ slotOf'[s] # None => slotOf'[s] < qs[scheduleOf'[s]].nextRunAt
                 /\ qs[scheduleOf'[s]].is = "removed" => ts[s] = NoRun
      <4>1. s \in Runs /\ s # n
        BY <2>2
      <4>2. slotOf[s] # None => slotOf[s] < qs[scheduleOf[s]].nextRunAt
        BY <2>3, <2>10, <2>11
      <4>3. qs[scheduleOf[s]].is = "removed" => ts[s] = NoRun
        BY <2>3, <2>5, <2>7, <2>11, <4>1
      <4> QED BY <2>9, <4>2, <4>3
    <3>2. /\ slotOf'[n] # None => slotOf'[n] < qs[scheduleOf'[n]].nextRunAt
          /\ qs[scheduleOf'[n]].is # "removed"
      BY <2>3, <2>9
    <3> QED BY <2>9, <3>1, <3>2
  <2>13. Books(plans, runs)' /\ Books(disk.plans, disk.runs)'
    BY <1>2, <2>3, <2>7, <2>8, <2>12 DEF Books, Store, RecordOK
  <2>14. Claims'
    <3>1. now' = now
      BY DEF Around, clockVars
    <3>2. \A s \in 1 .. n : slotOf'[s] <= now
      BY <2>9, <2>10, <2>11 DEF None
    <3>3. \A s \in 1 .. used : scheduleOf[s] = p /\ slotOf[s] # None /\ scheduled
                                 => slotOf[s] # ps[p].nextRunAt
      BY <2>10, <2>11
    <3>4. ASSUME NEW r \in 1 .. n, NEW s \in 1 .. n, r # s,
                 scheduleOf'[r] = scheduleOf'[s], slotOf'[r] # None
          PROVE  slotOf'[r] # slotOf'[s]
      <4>1. CASE r \in 1 .. used /\ s \in 1 .. used
        BY <2>9, <3>4, <4>1 DEF Claims, SlotOnce
      <4>2. CASE r = n /\ s \in 1 .. used
        BY <2>9, <3>3, <3>4, <4>2
      <4>3. CASE r \in 1 .. used /\ s = n
        BY <2>9, <3>3, <3>4, <4>3
      <4> QED BY <2>9, <3>4, <4>1, <4>2, <4>3
    <3> QED BY <1>2, <3>1, <3>2, <3>4 DEF Claims, SlotOnce
  <2>15. Alive'
    <3>1. \A r \in Runs : r # n => ts[r] = rs[r] \/ ts[r] = NoRun
      BY <2>5, <2>7
    <3>2. \A r \in Runs : Spins(ts[r]) => r = n
      BY <3>1 DEF Around, Spins
    <3>3. \A r \in Runs : ts[r].notification = "sending" => r \in deliveries' \/ failed > 0
      BY <2>4, <2>7, <3>1 DEF Around, NoRun
    <3>4. deliveries' \subseteq 1 .. n /\ n \notin deliveries'
      BY <2>2 DEF Around
    <3>5. \A r \in Runs : r \in deliveries' /\ ts[r] # NoRun =>
                            ts[r].status \in {"completed", "failed"}
      BY <3>1, <3>4 DEF Around
    <3> QED BY <1>2, <2>2, <2>4, <2>7, <3>2, <3>3, <3>4, <3>5 DEF Alive, Spins
  <2>16. TypeOK'
    <3>1. scheduleOf' \in [1 .. n -> Plans] /\ slotOf' \in [1 .. n -> Slots]
      <4>1. None \in Slots
        BY ConstantsAssumption DEF None, Slots
      <4> QED BY <1>2, <2>2, <2>10, <4>1 DEF TypeOK
    <3>2. n \in 0 .. MaxRuns /\ deliveries' \subseteq Runs
      BY <2>2, RunsBelow DEF Around
    <3>3. now' = now /\ zone' = zone /\ crashes' = crashes /\ up'
      BY DEF Around, clockVars
    <3> QED BY <1>2, <2>3, <2>7, <3>1, <3>2, <3>3 DEF TypeOK, Store, Around, From
  <2>17. up'
    BY DEF Around
  <2> QED BY <2>13, <2>14, <2>15, <2>16, <2>17 DEF Inv
<1> HIDE DEF qs, with, ts
<1> QED BY <1>1, <1>2 DEF Begins, qs, with, ts

LEMMA TickInv ==
  ASSUME NEW ps, NEW rs, NEW saved, NEW failed, NEW known, TypeOK, Claims,
         From(ps, rs, saved, failed), Around(rs, failed), ~disposed',
         Tick(ps, rs, saved, failed, known)
  PROVE  Inv'
<1> DEFINE moved == zone # known
           shifted == IF moved THEN Shifted(ps, Plans, zone) ELSE ps
           written == IF moved THEN Store(shifted, rs) ELSE saved
           due == DueIn(shifted)
<1>1. Books(shifted, rs)
  BY ShiftedBooks DEF From, TypeOK
<1>2. Books(written.plans, written.runs)
  BY <1>1 DEF From, Store
<1>3. /\ ~aborted'
      /\ \/ moved /\ failed < MaxFailures /\ Rests(shifted, rs, saved, failed + 1)
         \/ (due = {} \/ used = MaxRuns) /\ Rests(shifted, rs, written, failed)
         \/ /\ used < MaxRuns
            /\ \E p \in Oldest(shifted, due) : Begins(p, TRUE, shifted, rs, written, failed)
  BY DEF Tick
<1> HIDE DEF shifted, written, due
<1>4. From(shifted, rs, written, failed) /\ From(shifted, rs, saved, failed)
  BY <1>1, <1>2 DEF From
<1>5. CASE moved /\ failed < MaxFailures /\ Rests(shifted, rs, saved, failed + 1)
  <2>1. From(shifted, rs, saved, failed + 1) /\ Around(rs, failed + 1)
    BY <1>4, <1>5, ConstantsAssumption DEF From, Around
  <2> QED BY <1>5, <2>1, RestsInv
<1>6. CASE Rests(shifted, rs, written, failed)
  BY <1>4, <1>6, RestsInv
<1>7. ASSUME used < MaxRuns, NEW p \in Oldest(shifted, due),
             Begins(p, TRUE, shifted, rs, written, failed)
      PROVE  Inv'
  <2>1. p \in Plans /\ shifted[p].is = "there" /\ shifted[p].nextRunAt <= now
    BY <1>7 DEF Oldest, due, DueIn, There
  <2> QED BY <1>3, <1>4, <1>7, <2>1, BeginsInv
<1> QED BY <1>3, <1>5, <1>6, <1>7
-----------------------------------------------------------------------------
(* The steps                                                               *)
LEMMA InitInv == Init => Inv
<1> SUFFICES ASSUME Init PROVE Inv
  OBVIOUS
<1>1. /\ 0 \in Slots /\ 0 \in Zones /\ 0 \in 0 .. MaxNow /\ 0 \in 0 .. MaxRuns
      /\ 0 \in 0 .. MaxFailures /\ 0 \in 0 .. MaxCrashes /\ 1 .. 0 = {}
  BY ConstantsAssumption DEF Slots, Zones
<1>2. plans \in [Plans -> PlanRecords] /\ runs \in [Runs -> RunRecords]
  BY <1>1 DEF Init, PlanRecords, RunRecords, NoPlan, NoRun
<1>3. /\ \A r \in Runs : runs[r] = NoRun
      /\ disk.plans = plans /\ disk.runs = runs
  BY DEF Init, Store
<1>4. Cardinality(Present(runs)) <= KeptRuns
  <2>1. Present(runs) = {}
    BY <1>3 DEF Present
  <2> QED BY <2>1, FS_EmptySet, ConstantsAssumption
<1>5. TypeOK
  BY <1>1, <1>2, <1>3, <1>4 DEF Init, TypeOK, None
<1>6. Claims /\ Books(plans, runs)
  BY <1>1, <1>2, <1>3, <1>4 DEF Init, Claims, SlotOnce, Books, RecordOK
<1>7. Alive
  BY <1>1, <1>3 DEF Init, Alive, Spins, NoRun, None
<1> QED BY <1>3, <1>5, <1>6, <1>7 DEF Init, Inv

LEMMA TimeInv == ASSUME Inv, TimePasses \/ ZoneMoves PROVE Inv'
<1>1. /\ UNCHANGED <<plans, runs, disk, timeZone, active, aborted, deliveries, disposed, up,
                     used, scheduleOf, slotOf, failures, crashes>>
      /\ now' \in 0 .. MaxNow /\ zone' \in Zones /\ now <= now'
  BY ConstantsAssumption DEF TimePasses, ZoneMoves, stateVars, beginVars, Inv, TypeOK, Zones
<1>2. \A r \in 1 .. used : slotOf[r] <= now'
  BY <1>1 DEF Inv, Claims, TypeOK, Slots
<1>3. TypeOK' /\ Claims'
  BY <1>1, <1>2 DEF Inv, TypeOK, Claims, SlotOnce
<1>4. Books(plans, runs)' /\ Books(disk.plans, disk.runs)'
  BY <1>1 DEF Inv, Books
<1>5. IF up' THEN Alive' ELSE Gone'
  BY <1>1 DEF Inv, Alive, Gone
<1> QED BY <1>3, <1>4, <1>5 DEF Inv

LEMMA SavePlanInv == ASSUME Inv, NEW p \in Plans, SavePlan(p) PROVE Inv'
<1>1. /\ UNCHANGED <<now, zone, runs, timeZone, active, aborted, deliveries, disposed, up,
                     used, scheduleOf, slotOf, failures, crashes>>
      /\ up /\ plans[p].is # "removed" /\ disk' = Store(plans', runs)
  BY DEF SavePlan, clockVars, beginVars
<1>2. PICK enabled \in BOOLEAN, sameTiming \in BOOLEAN :
        LET old == plans[p]
            keeps == /\ old.is = "there" /\ old.enabled = enabled /\ sameTiming
                     /\ p \in Calendar => old.zone = zone
            edited == [is |-> "there", enabled |-> enabled,
                       nextRunAt |-> IF keeps THEN old.nextRunAt ELSE NextSlot(now),
                       zone |-> IF p \in Calendar THEN zone ELSE 0]
        IN plans' = [plans EXCEPT ![p] = edited]
  BY DEF SavePlan
<1>3. PICK at \in {plans[p].nextRunAt, now + 1}, z \in {zone, 0} :
        plans' = [plans EXCEPT ![p] = [is |-> "there", enabled |-> enabled,
                                       nextRunAt |-> at, zone |-> z]]
  BY <1>2 DEF NextSlot
<1>4. plans \in [Plans -> PlanRecords] /\ now \in Nat /\ now + 1 \in Slots /\ zone \in Zones
      /\ 0 \in Zones
  BY ConstantsAssumption DEF Inv, TypeOK, Slots, Zones
<1>5. at \in Slots
  BY <1>4 DEF PlanRecords
<1>6. plans' \in [Plans -> PlanRecords]
  BY <1>3, <1>4, <1>5 DEF PlanRecords
<1>7. plans'[p].is = "there" /\ plans'[p].nextRunAt = at
      /\ \A q \in Plans : q # p => plans'[q] = plans[q]
  BY <1>3, <1>4
<1>8. ASSUME NEW r \in 1 .. used
      PROVE  /\ slotOf[r] # None => slotOf[r] < plans'[scheduleOf[r]].nextRunAt
             /\ plans'[scheduleOf[r]].is = "removed" => plans[scheduleOf[r]].is = "removed"
  <2>1. /\ scheduleOf[r] \in Plans /\ slotOf[r] \in Nat /\ slotOf[r] <= now
        /\ slotOf[r] # None => slotOf[r] < plans[scheduleOf[r]].nextRunAt
    BY DEF Inv, TypeOK, Claims, Books, Slots
  <2> QED BY <1>4, <1>7, <2>1
<1>9. Books(plans', runs)
  <2>1. \A r \in Runs : RecordOK(runs[r])
    BY DEF Inv, Books
  <2> QED BY <1>6, <1>8, <2>1, BooksChange DEF Inv, TypeOK
<1>10. Books(plans, runs)' /\ Books(disk.plans, disk.runs)'
  BY <1>1, <1>9 DEF Books, Store, RecordOK
<1>11. TypeOK' /\ Claims'
  BY <1>1, <1>6 DEF Inv, TypeOK, Claims, SlotOnce, Store
<1>12. up' /\ Alive'
  BY <1>1 DEF Inv, Alive
<1> QED BY <1>10, <1>11, <1>12 DEF Inv

LEMMA RemovePlanInv == ASSUME Inv, NEW p \in Plans, RemovePlan(p) PROVE Inv'
<1>1. /\ UNCHANGED <<now, zone, timeZone, active, aborted, deliveries, disposed, up,
                     used, scheduleOf, slotOf, failures, crashes>>
      /\ up /\ ~Busy /\ disk' = Store(plans', runs')
      /\ plans' = [plans EXCEPT ![p].is = "removed"]
      /\ runs' = [r \in Runs |-> IF r <= used /\ scheduleOf[r] = p THEN NoRun ELSE runs[r]]
  BY DEF RemovePlan, clockVars, beginVars
<1>2. /\ plans \in [Plans -> PlanRecords] /\ runs \in [Runs -> RunRecords]
      /\ NoRun \in RunRecords /\ TypeOK /\ Books(plans, runs)
      /\ \A r \in Runs : RecordOK(runs[r])
  BY DEF Inv, TypeOK, Books, NoRun, RunRecords
<1>3. plans' \in [Plans -> PlanRecords] /\ runs' \in [Runs -> RunRecords]
  BY <1>1, <1>2 DEF PlanRecords
<1>4. \A q \in Plans : /\ plans'[q].nextRunAt = plans[q].nextRunAt
                       /\ q # p => plans'[q] = plans[q]
  BY <1>1, <1>2 DEF PlanRecords
<1>5. \A r \in Runs : /\ runs'[r] = runs[r] \/ runs'[r] = NoRun
                      /\ r \in 1 .. used /\ scheduleOf[r] = p => runs'[r] = NoRun
  BY <1>1, RunsBelow, <1>2
<1>6. \A r \in Runs : RecordOK(runs'[r]) /\ (runs[r] = NoRun => runs'[r] = NoRun)
  BY <1>2, <1>5 DEF RecordOK
<1>7. \A r \in 1 .. used :
        /\ scheduleOf[r] \in Plans
        /\ slotOf[r] # None => slotOf[r] < plans'[scheduleOf[r]].nextRunAt
        /\ plans'[scheduleOf[r]].is = "removed" =>
             runs'[r] = NoRun \/ plans[scheduleOf[r]].is = "removed"
  BY <1>2, <1>4, <1>5, RunsBelow DEF TypeOK, Books
<1>8. Books(plans', runs')
  BY <1>2, <1>3, <1>6, <1>7, BooksChange
<1>9. Books(plans, runs)' /\ Books(disk.plans, disk.runs)'
  BY <1>1, <1>8 DEF Books, Store, RecordOK
<1>10. TypeOK' /\ Claims'
  BY <1>1, <1>3, <1>9 DEF Inv, TypeOK, Claims, SlotOnce, Store, Books
<1>11. up' /\ Alive'
  BY <1>1, <1>5 DEF Inv, Alive, Busy, Spins, NoRun
<1> QED BY <1>9, <1>10, <1>11 DEF Inv

(* Nothing is active: no record shows work.                                *)
LEMMA QuietAround ==
  ASSUME Inv, up, ~disposed, ~Busy, UNCHANGED <<clockVars, deliveries, disposed, up, crashes>>,
         timeZone' \in Zones, aborted' \in BOOLEAN
  PROVE  /\ TypeOK /\ Claims /\ Around(runs, failures)
         /\ From(plans, runs, disk, failures)
<1>1. \A r \in Runs : ~Spins(runs[r])
  BY RunsBelow DEF Inv, Alive, Busy, None, Runs
<1>2. Around(runs, failures)
  BY <1>1 DEF Inv, TypeOK, Alive, Around
<1> QED BY <1>2 DEF Inv, TypeOK, From

LEMMA ClockTickInv == ASSUME Inv, ClockTick PROVE Inv'
<1>1. timeZone' \in Zones /\ aborted' \in BOOLEAN
  BY DEF ClockTick, Tick, Inv, TypeOK
<1> QED BY <1>1, QuietAround, TickInv DEF ClockTick

LEMMA RunNowInv == ASSUME Inv, NEW p \in Plans, RunNow(p) PROVE Inv'
<1>1. /\ timeZone' \in Zones /\ ~aborted' /\ used < MaxRuns /\ plans[p].is = "there"
      /\ Begins(p, FALSE, plans, runs, disk, failures) /\ ~disposed'
  BY DEF RunNow, There, Inv, TypeOK
<1>2. /\ TypeOK /\ Claims /\ Around(runs, failures)
      /\ From(plans, runs, disk, failures)
  BY <1>1, QuietAround DEF RunNow
<1> QED BY <1>1, <1>2, BeginsInv

(* Steps that change records, and persist them                             *)
LEMMA RecordsStep ==
  ASSUME Inv, runs' \in [Runs -> RunRecords],
         \A r \in Runs : RecordOK(runs'[r]) /\ (runs[r] = NoRun => runs'[r] = NoRun),
         Persists(plans, runs') \/ UNCHANGED <<disk, failures>>,
         UNCHANGED <<now, zone, plans, timeZone, active, used, scheduleOf, slotOf, crashes>>,
         aborted' \in BOOLEAN, disposed' \in BOOLEAN, deliveries' \subseteq deliveries,
         up', Alive'
  PROVE  Inv'
<1>1. Books(plans, runs')
  BY RecordsChange DEF Inv
<1>2. Books(plans, runs)'
  BY <1>1 DEF Books, RecordOK
<1>3. /\ failures' \in 0 .. MaxFailures
      /\ disk' = disk \/ (disk'.plans = plans' /\ disk'.runs = runs')
  BY ConstantsAssumption DEF Persists, Store, Inv, TypeOK
<1>4. Books(disk.plans, disk.runs)'
  <2>1. CASE disk' = disk
    BY <2>1 DEF Inv, Books, RecordOK
  <2>2. CASE disk'.plans = plans' /\ disk'.runs = runs'
    BY <2>2, <1>2 DEF Books, RecordOK
  <2> QED BY <1>3, <2>1, <2>2
<1>5. TypeOK'
  BY <1>2, <1>3, <1>4 DEF Inv, TypeOK, Books
<1>6. Claims'
  BY DEF Inv, Claims, SlotOnce
<1> QED BY <1>2, <1>4, <1>5, <1>6 DEF Inv

(* What is known of the run that executes                                  *)
LEMMA ActiveRun ==
  ASSUME Inv, up, active # None
  PROVE  /\ active \in Runs /\ active \in 1 .. used /\ active \notin deliveries
         /\ runs[active] \in RunRecords /\ runs[active] # NoRun
         /\ runs[active].status \in {"running", "cancelled"}
         /\ runs[active].status = "cancelled" => aborted
         /\ runs[active].notification = "none"
         /\ disposed => runs[active].status = "cancelled" /\ ~Spins(runs[active])
<1>1. active \in 1 .. used /\ active \in Runs
  BY RunsBelow DEF Inv, Alive, None
<1>2. runs[active] \in RunRecords /\ RecordOK(runs[active])
  BY <1>1 DEF Inv, Books
<1>3. /\ runs[active].status \in {"running", "cancelled"} /\ active \notin deliveries
      /\ runs[active].status = "cancelled" => aborted
      /\ disposed => ~Spins(runs[active])
  BY <1>1 DEF Inv, Alive
<1>4. runs[active] # NoRun /\ runs[active].notification = "none"
  BY <1>2, <1>3 DEF RecordOK, NoRun
<1> QED BY <1>1, <1>2, <1>3, <1>4 DEF Spins

LEMMA ProgressInv == ASSUME Inv, Progress PROVE Inv'
<1>1. PICK hosts \in {"open", "settled"} : runs' = [runs EXCEPT ![active].hosts = hosts]
  BY DEF Progress
<1>2. /\ UNCHANGED <<now, zone, plans, timeZone, active, aborted, deliveries, disposed, up,
                     used, scheduleOf, slotOf, crashes>>
      /\ up /\ active # None /\ ~disposed /\ Persists(plans, runs')
  BY DEF Progress, Writable, clockVars, beginVars
<1>3. /\ runs'[active] = [runs[active] EXCEPT !.hosts = hosts]
      /\ runs' \in [Runs -> RunRecords] /\ \A r \in Runs : r # active => runs'[r] = runs[r]
  BY <1>1, <1>2, ActiveRun DEF Inv, TypeOK, RunRecords
<1>4. runs'[active].status = runs[active].status /\ runs'[active].notification = "none"
  BY <1>2, <1>3, ActiveRun DEF RunRecords
<1>5. \A r \in Runs : RecordOK(runs'[r]) /\ (runs[r] = NoRun => runs'[r] = NoRun)
  BY <1>2, <1>3, <1>4, ActiveRun DEF Inv, Books, RecordOK
<1>6. failures > 0 => failures' > 0
  BY <1>2 DEF Persists, Inv, TypeOK
<1>7. Alive'
  BY <1>2, <1>3, <1>4, <1>6, ActiveRun DEF Inv, Alive
<1> QED BY <1>2, <1>3, <1>5, <1>7, RecordsStep DEF Inv, TypeOK

LEMMA TimeoutInv == ASSUME Inv, Timeout PROVE Inv'
<1>1. /\ UNCHANGED <<now, zone, plans, runs, disk, failures, timeZone, active, deliveries,
                     disposed, up, used, scheduleOf, slotOf, crashes>>
      /\ aborted' /\ up
  BY DEF Timeout, clockVars, stateVars, beginVars
<1>2. Alive'
  BY <1>1 DEF Inv, Alive
<1>3. \A r \in Runs : RecordOK(runs'[r])
  BY <1>1 DEF Inv, Books
<1> QED BY <1>1, <1>2, <1>3, RecordsStep DEF Inv, TypeOK, Timeout

LEMMA StopInv == ASSUME Inv, Stop PROVE Inv'
<1>1. /\ UNCHANGED <<now, zone, plans, timeZone, active, deliveries, disposed, up,
                     used, scheduleOf, slotOf, crashes>>
      /\ aborted' = TRUE /\ up /\ active # None /\ ~disposed /\ Persists(plans, runs')
      /\ runs' = [runs EXCEPT ![active].status = "cancelled"]
  BY DEF Stop, clockVars, beginVars
<1>2. /\ runs'[active] = [runs[active] EXCEPT !.status = "cancelled"]
      /\ runs' \in [Runs -> RunRecords] /\ \A r \in Runs : r # active => runs'[r] = runs[r]
  BY <1>1, ActiveRun DEF Inv, TypeOK, RunRecords
<1>3. runs'[active].status = "cancelled" /\ runs'[active].notification = "none"
  BY <1>1, <1>2, ActiveRun DEF RunRecords
<1>4. \A r \in Runs : RecordOK(runs'[r]) /\ (runs[r] = NoRun => runs'[r] = NoRun)
  BY <1>1, <1>2, <1>3, ActiveRun DEF Inv, Books, RecordOK
<1>5. failures > 0 => failures' > 0
  BY <1>1 DEF Persists, Inv, TypeOK
<1>6. Alive'
  BY <1>1, <1>2, <1>3, <1>5, ActiveRun DEF Inv, Alive
<1> QED BY <1>1, <1>2, <1>4, <1>6, RecordsStep DEF Inv, TypeOK

(* executeRun after its await: a record that is settled shows no work, and *)
(* is to be reported only by a scheduler that may write.                   *)
LEMMA SettledRecord ==
  ASSUME Inv, up, active # None, NEW status \in Outcomes(runs[active])
  PROVE  LET run == Settled(runs[active], status) IN
         /\ run \in RunRecords /\ RecordOK(run) /\ ~Spins(run)
         /\ run.notification = "sending" => Writable /\ run.status \in {"completed", "failed"}
<1> DEFINE old == runs[active]
           run == Settled(old, status)
<1>1. /\ old \in RunRecords /\ old.notification = "none"
      /\ old.status \in {"running", "cancelled"}
  BY ActiveRun
<1>2. status \in {"completed", "failed", "cancelled"}
  BY DEF Outcomes
<1>3. run = [old EXCEPT !.status = status, !.finished = TRUE,
                        !.hosts = IF @ = "open" THEN "settled" ELSE @,
                        !.notification = IF Writable /\ Announced(status) THEN "sending" ELSE @]
  BY DEF Settled
<1> HIDE DEF old, run
<1>4. /\ run \in RunRecords /\ run.status = status /\ run.finished /\ run.hosts # "open"
      /\ run.notification = IF Writable /\ Announced(status) THEN "sending" ELSE "none"
  BY <1>1, <1>2, <1>3 DEF RunRecords
<1>5. /\ RecordOK(run) /\ ~Spins(run)
      /\ run.notification = "sending" => Writable /\ status \in {"completed", "failed"}
  BY <1>2, <1>4 DEF RecordOK, Spins, Announced
<1> QED BY <1>4, <1>5 DEF old, run

LEMMA ExecuteEndsInv == ASSUME Inv, ExecuteEnds PROVE Inv'
<1>1. /\ up /\ active # None /\ UNCHANGED <<clockVars, disposed, up, crashes>>
  BY DEF ExecuteEnds
<1>2. PICK status \in Outcomes(runs[active]) :
        LET ended == [runs EXCEPT ![active] = Settled(@, status)]
            sends == ended[active].notification = "sending"
        IN \/ /\ ~Writable
              /\ Rests(plans, ended, disk, failures)
              /\ UNCHANGED <<timeZone, aborted, deliveries>>
           \/ /\ Writable /\ failures < MaxFailures
              /\ Rests(plans, ended, disk, failures + 1)
              /\ UNCHANGED <<timeZone, aborted, deliveries>>
           \/ /\ Writable
              /\ deliveries' = IF sends THEN deliveries \cup {active} ELSE deliveries
              /\ Tick(plans, ended, Store(plans, ended), failures, timeZone)
  BY DEF ExecuteEnds
<1> DEFINE ended == [runs EXCEPT ![active] = Settled(@, status)]
           sends == ended[active].notification = "sending"
<1>3. /\ active \in Runs /\ active \in 1 .. used /\ active \notin deliveries
      /\ runs[active] # NoRun
  BY <1>1, ActiveRun
<1>4. /\ runs \in [Runs -> RunRecords] /\ TypeOK /\ Claims /\ Books(plans, runs)
      /\ Books(disk.plans, disk.runs) /\ Alive
  BY <1>1 DEF Inv, TypeOK
<1>5. /\ ended[active] = Settled(runs[active], status)
      /\ \A r \in Runs : r # active => ended[r] = runs[r]
      /\ DOMAIN ended = Runs /\ ended = [r \in Runs |-> ended[r]]
  BY <1>3, <1>4
<1>6. /\ ended[active] \in RunRecords /\ RecordOK(ended[active]) /\ ~Spins(ended[active])
      /\ ended[active].notification = "sending" =>
           Writable /\ ended[active].status \in {"completed", "failed"}
  BY <1>1, <1>5, SettledRecord
<1> HIDE DEF ended
<1>7. ended \in [Runs -> RunRecords]
  BY <1>4, <1>5, <1>6
<1>8. Books(plans, ended)
  <2>1. \A r \in Runs : RecordOK(runs[r])
    BY <1>4 DEF Books
  <2>2. \A r \in Runs : RecordOK(ended[r]) /\ (runs[r] = NoRun => ended[r] = NoRun)
    BY <1>3, <1>5, <1>6, <2>1
  <2> QED BY <1>4, <1>7, <2>2, RecordsChange
<1>9. \A r \in Runs : ~Spins(ended[r])
  BY <1>4, <1>5, <1>6 DEF Alive
<1>10. /\ failures \in 0 .. MaxFailures /\ timeZone \in Zones /\ zone \in Zones
       /\ aborted \in BOOLEAN /\ disposed \in BOOLEAN
  BY <1>4 DEF TypeOK
<1>11. CASE ~Writable /\ Rests(plans, ended, disk, failures)
            /\ UNCHANGED <<timeZone, aborted, deliveries>>
  <2>1. \A r \in Runs : /\ ended[r].notification = "sending" => r \in deliveries \/ failures > 0
                        /\ r \in deliveries => ended[r].notification # "sending"
                        /\ r \in deliveries /\ ended[r] # NoRun =>
                             ended[r].status \in {"completed", "failed"}
    BY <1>3, <1>4, <1>5, <1>6, <1>11 DEF Alive, Writable
  <2>2. Around(ended, failures) /\ From(plans, ended, disk, failures)
    BY <1>1, <1>4, <1>8, <1>9, <1>10, <1>11, <2>1 DEF Around, From, Alive
  <2> QED BY <1>4, <1>11, <2>2, RestsInv
<1>12. CASE Writable /\ failures < MaxFailures /\ Rests(plans, ended, disk, failures + 1)
            /\ UNCHANGED <<timeZone, aborted, deliveries>>
  <2>1. failures + 1 \in 0 .. MaxFailures /\ failures + 1 > 0
    BY <1>10, <1>12, ConstantsAssumption
  <2>3. \A r \in Runs : r \in deliveries /\ ended[r] # NoRun =>
                          ended[r].status \in {"completed", "failed"}
    BY <1>3, <1>4, <1>5 DEF Alive
  <2>2. Around(ended, failures + 1) /\ From(plans, ended, disk, failures + 1)
    BY <1>1, <1>4, <1>8, <1>9, <1>10, <1>12, <2>1, <2>3 DEF Around, From, Alive, Writable
  <2> QED BY <1>4, <1>12, <2>2, RestsInv
<1>13. CASE /\ Writable
            /\ deliveries' = IF sends THEN deliveries \cup {active} ELSE deliveries
            /\ Tick(plans, ended, Store(plans, ended), failures, timeZone)
  <2>1. timeZone' \in Zones /\ aborted' \in BOOLEAN /\ ~disposed' /\ disposed' \in BOOLEAN
    BY <1>1, <1>10, <1>13 DEF Tick, Writable
  <2>2. deliveries' \subseteq 1 .. used
    BY <1>3, <1>4, <1>13 DEF Alive
  <2>3. \A r \in Runs : ended[r].notification = "sending" => r \in deliveries' \/ failures > 0
    BY <1>4, <1>5, <1>13 DEF Alive
  <2>5. \A r \in Runs : r \in deliveries' /\ ended[r] # NoRun =>
                          ended[r].status \in {"completed", "failed"}
    BY <1>4, <1>5, <1>6, <1>13 DEF Alive
  <2>4. Around(ended, failures) /\ From(plans, ended, Store(plans, ended), failures)
    BY <1>1, <1>8, <1>9, <1>10, <2>1, <2>2, <2>3, <2>5 DEF Around, From, Store
  <2> QED BY <1>4, <1>13, <2>1, <2>4, TickInv
<1> QED BY <1>2, <1>11, <1>12, <1>13 DEF ended

LEMMA NotifyAnswersInv == ASSUME Inv, NEW r \in Runs, NotifyAnswers(r) PROVE Inv'
<1>1. /\ UNCHANGED <<now, zone, plans, timeZone, active, aborted, disposed, up,
                     used, scheduleOf, slotOf, crashes>>
      /\ up /\ r \in deliveries /\ deliveries' = deliveries \ {r}
      /\ IF ~disposed /\ runs[r] # NoRun
         THEN runs' = [runs EXCEPT ![r].notification = "over"] /\ Persists(plans, runs')
         ELSE UNCHANGED <<runs, disk, failures>>
  BY DEF NotifyAnswers, Writable, Recorded, clockVars, beginVars
<1>2. /\ runs \in [Runs -> RunRecords] /\ aborted \in BOOLEAN /\ disposed \in BOOLEAN
      /\ Alive /\ \A s \in Runs : RecordOK(runs[s])
  BY <1>1 DEF Inv, TypeOK, Books
<1>3. CASE ~disposed /\ runs[r] # NoRun
  <2>1. /\ runs'[r] = [runs[r] EXCEPT !.notification = "over"]
        /\ runs' \in [Runs -> RunRecords] /\ \A s \in Runs : s # r => runs'[s] = runs[s]
    BY <1>1, <1>2, <1>3 DEF RunRecords
  <2>2. ~Spins(runs[r])
    BY <1>1, <1>2 DEF Alive
  <2>3. /\ runs'[r].status = runs[r].status /\ runs'[r].finished = runs[r].finished
        /\ runs'[r].hosts = runs[r].hosts /\ runs'[r].notification = "over"
    BY <1>2, <2>1 DEF RunRecords
  <2>4. runs[r].status \in {"completed", "failed"}
    BY <1>1, <1>2, <1>3 DEF Alive
  <2>5. \A s \in Runs : RecordOK(runs'[s]) /\ (runs[s] = NoRun => runs'[s] = NoRun)
    BY <1>2, <1>3, <2>1, <2>2, <2>3, <2>4 DEF RecordOK, Spins
  <2>6. failures > 0 => failures' > 0
    BY <1>1, <1>3 DEF Persists, Inv, TypeOK
  <2>7. Alive'
    <3>1. \A s \in Runs : Spins(runs'[s]) => s = active /\ ~disposed
      BY <1>2, <1>3, <2>1, <2>2, <2>3 DEF Alive, Spins
    <3>2. \A s \in Runs :
            /\ runs'[s].notification = "sending" => s \in deliveries' \/ failures' > 0
            /\ s \in deliveries' /\ runs'[s] # NoRun => runs'[s].status \in {"completed", "failed"}
      BY <1>1, <1>2, <2>1, <2>3, <2>6 DEF Alive
    <3>3. active # r /\ (active # None => active \in Runs)
      <4>1. active \in 0 .. used /\ active \notin deliveries
        BY <1>2 DEF Alive
      <4> QED BY <1>1, <4>1, ActiveRun
    <3> QED BY <1>1, <1>2, <1>3, <2>1, <3>1, <3>2, <3>3 DEF Alive
  <2> QED BY <1>1, <1>2, <1>3, <2>1, <2>5, <2>7, RecordsStep
<1>4. CASE ~(~disposed /\ runs[r] # NoRun)
  <2>1. Alive'
    <3>1. runs[r].notification # "sending"
      BY <1>1, <1>2, <1>4 DEF Alive, NoRun
    <3> QED BY <1>1, <1>2, <1>4, <3>1 DEF Alive
  <2> QED BY <1>1, <1>2, <1>4, <2>1, RecordsStep
<1> QED BY <1>3, <1>4

LEMMA DisposeInv == ASSUME Inv, Dispose PROVE Inv'
<1> DEFINE unsent == {r \in deliveries : runs[r].notification = "sending"}
           Cancelled(run) == [run EXCEPT !.status = IF @ = "running" THEN "cancelled" ELSE @,
                                         !.finished = TRUE,
                                         !.hosts = IF @ = "open" THEN "settled" ELSE @]
<1>1. /\ UNCHANGED <<now, zone, plans, timeZone, active, deliveries, up,
                     used, scheduleOf, slotOf, crashes>>
      /\ up /\ disposed' = TRUE /\ aborted' = (aborted \/ Busy)
      /\ Persists(plans, runs') \/ UNCHANGED <<disk, failures>>
      /\ runs' = [r \in Runs |-> IF r \in unsent THEN [runs[r] EXCEPT !.notification = "over"]
                                 ELSE IF r = active THEN Cancelled(runs[r]) ELSE runs[r]]
  BY DEF Dispose, clockVars, beginVars
<1>2. /\ runs \in [Runs -> RunRecords] /\ Alive /\ deliveries \subseteq 1 .. used
      /\ \A r \in Runs : RecordOK(runs[r])
  BY <1>1 DEF Inv, TypeOK, Books, Alive
<1>3. ASSUME NEW r \in unsent
      PROVE  /\ r \in Runs /\ r # active /\ runs'[r] \in RunRecords
             /\ runs'[r] # NoRun /\ runs[r] # NoRun
             /\ runs'[r].status = runs[r].status /\ runs'[r].status \in {"completed", "failed"}
             /\ runs'[r].finished = runs[r].finished /\ runs'[r].hosts = runs[r].hosts
             /\ runs'[r].notification = "over"
  <2>1. r \in Runs /\ r \in deliveries /\ r # active /\ runs[r] # NoRun
    BY <1>2, RunsBelow DEF Inv, Alive, NoRun
  <2>2. runs'[r] = [runs[r] EXCEPT !.notification = "over"] /\ runs[r] \in RunRecords
    BY <1>1, <1>2, <2>1
  <2> HIDE DEF unsent
  <2>3. /\ runs'[r] \in RunRecords /\ runs'[r].status = runs[r].status
        /\ runs'[r].finished = runs[r].finished /\ runs'[r].hosts = runs[r].hosts
        /\ runs'[r].notification = "over"
    BY <2>2 DEF RunRecords
  <2>4. runs[r].status \in {"completed", "failed"}
    BY <1>2, <2>1 DEF Alive
  <2>5. runs'[r] # NoRun
    BY <2>3 DEF NoRun
  <2> QED BY <2>1, <2>3, <2>4, <2>5
<1>4. ASSUME NEW r \in Runs, r = active
      PROVE  /\ runs'[r] \in RunRecords /\ runs[r] # NoRun
             /\ runs'[r].status = "cancelled" /\ runs'[r].finished
             /\ runs'[r].hosts # "open" /\ runs'[r].notification = "none"
  <2>1. active # None
    BY <1>4 DEF Runs, None
  <2>2. /\ runs[r] \in RunRecords /\ runs[r] # NoRun /\ r \notin deliveries
        /\ runs[r].status \in {"running", "cancelled"} /\ runs[r].notification = "none"
    BY <1>1, <1>4, <2>1, ActiveRun
  <2>3. runs'[r] = Cancelled(runs[r])
    BY <1>1, <1>4, <2>2
  <2> QED BY <2>2, <2>3 DEF RunRecords
<1>5. \A r \in Runs : r \in unsent \/ r = active \/ runs'[r] = runs[r]
  BY <1>1
<1>6. \A r \in unsent : r \in deliveries
  OBVIOUS
<1>7. \A r \in Runs : r \in deliveries /\ r \notin unsent => runs[r].notification # "sending"
  OBVIOUS
<1>8. DOMAIN runs' = Runs /\ runs' = [r \in Runs |-> runs'[r]]
  BY <1>1
<1> HIDE DEF unsent
<1>9. runs' \in [Runs -> RunRecords]
  BY <1>2, <1>3, <1>4, <1>5, <1>8
<1>10. \A r \in Runs : RecordOK(runs'[r]) /\ (runs[r] = NoRun => runs'[r] = NoRun)
  <2>1. ASSUME NEW r \in unsent PROVE RecordOK(runs'[r])
    <3>1. runs[r].finished
      BY <1>2, <1>3, <2>1 DEF RecordOK
    <3> QED BY <1>3, <3>1 DEF RecordOK
  <2>2. ASSUME NEW r \in Runs, r = active PROVE RecordOK(runs'[r])
    BY <1>4, <2>2 DEF RecordOK
  <2> QED BY <1>2, <1>3, <1>4, <1>5, <2>1, <2>2
<1>11. \A r \in Runs : ~Spins(runs'[r])
  <2>1. ASSUME NEW r \in unsent PROVE ~Spins(runs'[r])
    <3>1. ~Spins(runs[r])
      BY <1>2, <1>3 DEF Alive
    <3> QED BY <1>3, <3>1 DEF Spins
  <2>2. ASSUME NEW r \in Runs, r = active PROVE ~Spins(runs'[r])
    BY <1>4, <2>2 DEF Spins
  <2> QED BY <1>2, <1>5, <2>1, <2>2 DEF Alive
<1>12. failures > 0 => failures' > 0
  <2>1. Persists(plans, runs') \/ failures' = failures
    BY <1>1
  <2>2. failures \in Nat
    BY DEF Inv, TypeOK
  <2> QED BY <2>1, <2>2 DEF Persists
<1>13. \A r \in Runs :
         /\ runs'[r].notification = "sending" => failures' > 0 \/ r \in deliveries'
         /\ r \in deliveries' /\ runs'[r] # NoRun => runs'[r].status \in {"completed", "failed"}
         /\ r \in deliveries' => runs'[r].notification # "sending"
  <2>1. \A r \in Runs : r = active => r \notin deliveries
    BY <1>2 DEF Alive
  <2> QED BY <1>1, <1>2, <1>3, <1>4, <1>5, <1>7, <1>12, <2>1 DEF Alive
<1>14. active # None => active \in Runs /\ active = active' /\ aborted' = TRUE
  BY <1>1, ActiveRun DEF Busy
<1>15. Alive'
  <2>1. active' = active /\ deliveries' = deliveries /\ used' = used
    BY <1>1
  <2>2. active' \in 0 .. used' /\ deliveries' \subseteq 1 .. used' /\ active' \notin deliveries'
    BY <1>2, <2>1 DEF Alive
  <2>3. active' # None => runs'[active'].status = "cancelled" /\ aborted'
    BY <1>4, <1>14, <2>1
  <2> QED BY <1>11, <1>13, <2>2, <2>3 DEF Alive
<1>16. aborted' \in BOOLEAN /\ disposed' \in BOOLEAN
  BY <1>1 DEF Inv, TypeOK, Busy
<1> QED BY <1>1, <1>9, <1>10, <1>15, <1>16, RecordsStep

LEMMA ProcessEndsInv == ASSUME Inv, ProcessEnds PROVE Inv'
<1>1. /\ UNCHANGED <<now, zone, disk, used, scheduleOf, slotOf, failures>>
      /\ up' = FALSE /\ plans' = disk.plans /\ runs' = disk.runs /\ timeZone' = zone
      /\ active' = None /\ aborted' = FALSE /\ deliveries' = {} /\ disposed' = FALSE
      /\ crashes' \in 0 .. MaxCrashes
  BY ConstantsAssumption DEF ProcessEnds, clockVars, beginVars, Inv, TypeOK
<1>2. Books(plans, runs)' /\ Books(disk.plans, disk.runs)'
  BY <1>1 DEF Inv, Books, RecordOK
<1>3. TypeOK'
  <2>1. None \in 0 .. MaxRuns
    BY ConstantsAssumption DEF None
  <2> QED BY <1>1, <1>2, <2>1 DEF Inv, TypeOK, Books
<1>4. Claims' /\ Gone'
  BY <1>1 DEF Inv, Claims, SlotOnce, Gone
<1> QED BY <1>1, <1>2, <1>3, <1>4 DEF Inv

(* The constructor leaves nothing that shows work and no report under way. *)
LEMMA RecoveredRecord ==
  ASSUME NEW run \in RunRecords, RecordOK(run)
  PROVE  /\ Recovered(run) \in RunRecords /\ RecordOK(Recovered(run))
         /\ ~Spins(Recovered(run)) /\ Recovered(run).notification # "sending"
         /\ run = NoRun => Recovered(run) = NoRun
<1>1. CASE run = NoRun
  BY <1>1 DEF Recovered, Spins, NoRun
<1>2. CASE run # NoRun
  <2>1. Recovered(run) =
          [status |-> IF Interrupted(run) THEN "cancelled" ELSE run.status,
           finished |-> run.finished \/ Interrupted(run),
           hosts |-> IF run.hosts = "open" THEN "settled" ELSE run.hosts,
           notification |-> IF run.notification = "sending" THEN "over" ELSE run.notification]
    BY <1>2 DEF Recovered
  <2>2. /\ run.status \in {"running", "completed", "failed", "cancelled"}
        /\ run.finished \in BOOLEAN
        /\ run.status \in {"completed", "failed"} => run.finished
        /\ run.notification # "none" => run.status \in {"completed", "failed"}
    BY <1>2 DEF RecordOK, RunRecords
  <2>3. Recovered(run) \in RunRecords
    BY <2>1, <2>2 DEF RunRecords, Interrupted
  <2> DEFINE new == Recovered(run)
  <2>4. CASE Interrupted(run)
    <3>1. new.status = "cancelled" /\ new.finished
      <4>1. (run.finished \/ Interrupted(run)) = TRUE
        BY <2>4
      <4>2. new.finished = (run.finished \/ Interrupted(run))
        BY <2>1
      <4>3. new.status = IF Interrupted(run) THEN "cancelled" ELSE run.status
        BY <2>1
      <4> QED BY <2>4, <4>1, <4>2, <4>3, Zenon
    <3>2. new.hosts # "open" /\ new.notification = "none" /\ new # NoRun
      BY <2>1, <2>2, <2>4, <3>1 DEF Interrupted, NoRun
    <3> HIDE DEF new
    <3> QED BY <1>2, <2>3, <3>1, <3>2 DEF RecordOK, Spins, new
  <2>5. CASE ~Interrupted(run)
    <3>1. new.status = run.status /\ new.finished = run.finished
      BY <2>1, <2>2, <2>5
    <3>2. /\ new.status \in {"completed", "failed", "cancelled"} /\ new.finished
          /\ new.hosts # "open" /\ new.notification # "sending"
          /\ new.notification # "none" => run.notification # "none"
      BY <2>1, <2>2, <2>5, <3>1 DEF Interrupted
    <3> HIDE DEF new
    <3> QED BY <1>2, <2>2, <2>3, <3>1, <3>2 DEF RecordOK, Spins, new
  <2> QED BY <2>4, <2>5
<1> QED BY <1>1, <1>2

LEMMA RestartInv == ASSUME Inv, Restart PROVE Inv'
<1> DEFINE rs == [r \in Runs |-> Recovered(disk.runs[r])]
           elsewhere == {p \in Plans : disk.plans[p].zone # zone}
           ps == Shifted(disk.plans, elsewhere, zone)
<1>1. /\ ~up /\ UNCHANGED <<clockVars, deliveries, disposed, crashes>>
      /\ \/ up' = TRUE /\ Tick(ps, rs, Store(ps, rs), failures, zone)
         \/ /\ Store(ps, rs) # disk /\ failures < MaxFailures
            /\ failures' = failures + 1
            /\ UNCHANGED <<stateVars, disk, timeZone, active, aborted, up, beginVars>>
  BY DEF Restart
<1>2. /\ TypeOK /\ Claims /\ Gone /\ Books(disk.plans, disk.runs)
      /\ disk.runs \in [Runs -> RunRecords] /\ zone \in Zones
      /\ \A r \in Runs : RecordOK(disk.runs[r])
  BY <1>1 DEF Inv, TypeOK, Books
<1>3. CASE up' = TRUE /\ Tick(ps, rs, Store(ps, rs), failures, zone)
  <2>1. /\ rs \in [Runs -> RunRecords]
        /\ \A r \in Runs : /\ RecordOK(rs[r]) /\ ~Spins(rs[r]) /\ rs[r].notification # "sending"
                           /\ disk.runs[r] = NoRun => rs[r] = NoRun
    BY <1>2, RecoveredRecord
  <2> HIDE DEF rs
  <2>2. Books(disk.plans, rs)
    BY <1>2, <2>1, RecordsChange
  <2> HIDE DEF elsewhere
  <2>3. Books(ps, rs)
    BY <1>2, <2>2, ShiftedBooks
  <2> HIDE DEF ps
  <2>4. timeZone' \in Zones /\ aborted' \in BOOLEAN /\ deliveries' = {}
        /\ ~disposed' /\ disposed' \in BOOLEAN
    BY <1>1, <1>2, <1>3 DEF Tick, Gone, TypeOK
  <2>5. Around(rs, failures)
    BY <1>1, <1>3, <2>1, <2>4 DEF Around
  <2>6. From(ps, rs, Store(ps, rs), failures)
    BY <1>2, <2>3 DEF From, Store, TypeOK
  <2> QED BY <1>2, <1>3, <2>4, <2>5, <2>6, TickInv
<1>4. CASE /\ failures < MaxFailures /\ failures' = failures + 1
           /\ UNCHANGED <<stateVars, disk, timeZone, active, aborted, up, beginVars>>
  <2>1. /\ UNCHANGED <<now, zone, deliveries, disposed, crashes, plans, runs, disk, timeZone,
                       active, aborted, up, used, scheduleOf, slotOf>>
        /\ failures' \in 0 .. MaxFailures
    BY <1>1, <1>2, <1>4, ConstantsAssumption DEF clockVars, stateVars, beginVars, TypeOK
  <2>2. TypeOK'
    BY <1>2, <2>1 DEF TypeOK
  <2>3. Claims' /\ Gone' /\ Books(plans, runs)' /\ Books(disk.plans, disk.runs)'
    BY <1>2, <2>1 DEF Inv, Claims, SlotOnce, Gone, Books
  <2> QED BY <1>1, <2>1, <2>2, <2>3 DEF Inv
<1> QED BY <1>1, <1>3, <1>4

LEMMA StepInv == Inv /\ [Next]_vars => Inv'
<1> SUFFICES ASSUME Inv, [Next]_vars PROVE Inv'
  OBVIOUS
<1>1. ASSUME TimePasses \/ ZoneMoves PROVE Inv'
  BY <1>1, TimeInv
<1>2. ASSUME NEW p \in Plans, SavePlan(p) \/ RemovePlan(p) \/ RunNow(p) PROVE Inv'
  BY <1>2, SavePlanInv, RemovePlanInv, RunNowInv
<1>3. ASSUME ClockTick \/ Progress \/ Timeout \/ Stop \/ ExecuteEnds PROVE Inv'
  BY <1>3, ClockTickInv, ProgressInv, TimeoutInv, StopInv, ExecuteEndsInv
<1>4. ASSUME NEW r \in Runs, NotifyAnswers(r) PROVE Inv'
  BY <1>4, NotifyAnswersInv
<1>5. ASSUME Dispose \/ ProcessEnds \/ Restart PROVE Inv'
  BY <1>5, DisposeInv, ProcessEndsInv, RestartInv
<1>6. CASE UNCHANGED vars
  <2>1. UNCHANGED <<now, zone, plans, runs, disk, timeZone, active, aborted, deliveries,
                    disposed, up, used, scheduleOf, slotOf, failures, crashes>>
    BY <1>6 DEF vars, clockVars, stateVars, beginVars
  <2>2. TypeOK' /\ Claims'
    BY <2>1 DEF Inv, TypeOK, Claims, SlotOnce
  <2>3. Books(plans, runs)' /\ Books(disk.plans, disk.runs)'
    BY <2>1 DEF Inv, Books
  <2>4. IF up' THEN Alive' ELSE Gone'
    BY <2>1 DEF Inv, Alive, Gone
  <2> QED BY <2>2, <2>3, <2>4 DEF Inv
<1> QED BY <1>1, <1>2, <1>3, <1>4, <1>5, <1>6 DEF Next

LEMMA Invariance == Spec => []Inv
  BY InitInv, StepInv, PTL DEF Spec
-----------------------------------------------------------------------------
(* Plans, records, the snapshot and the run that executes keep their       *)
(* types, and the history its length.                                      *)
THEOREM SchedulerTypes == Spec => []TypeOK
  BY Invariance, PTL DEF Inv

(* A slot of a plan begins one run only, whatever crashes, lost writes,    *)
(* edits and changes of the time zone come between (tick, executeRun).     *)
THEOREM SlotsBeginOnce == Spec => []SlotOnce
<1>1. Inv => SlotOnce
  BY DEF Inv, Claims
<1> QED BY <1>1, Invariance, PTL

(* Only the run that executes shows work, and none does after dispose      *)
(* (executeRun, dispose, recoverInterruptedRuns).                          *)
THEOREM SpinnersStop == Spec => []NoStaleSpinner
<1>1. ASSUME Inv PROVE NoStaleSpinner
  <2>1. CASE up
    <3>1. active # None => Recorded(active)
      BY <1>1, <2>1, ActiveRun DEF Recorded
    <3> QED BY <1>1, <2>1, <3>1 DEF Inv, Alive, Spins, NoStaleSpinner, Present
  <2> QED BY <2>1 DEF NoStaleSpinner
<1> QED BY <1>1, Invariance, PTL

(* A removed plan's records do not come back with a late delivery, nor     *)
(* from the disk (remove, deliver).                                        *)
THEOREM RemovedIsGone == Spec => []RemovedStaysRemoved
<1>1. Inv => RemovedStaysRemoved
  BY DEF Inv, Books, RemovedStaysRemoved
<1> QED BY <1>1, Invariance, PTL

(* After dispose no callback writes to the database any more (dispose and  *)
(* the looks at disposed after every await).                               *)
THEOREM DisposedIsQuiet == Spec => QuietAfterDispose
<1>1. Inv /\ [Next]_vars => [disposed => disk' = disk]_vars
  <2> SUFFICES ASSUME Inv, Next, disposed PROVE disk' = disk
    OBVIOUS
  <2>1. up
    BY DEF Inv, Gone
  <2>2. CASE ExecuteEnds
    BY <2>2 DEF ExecuteEnds, Rests, Writable
  <2>3. CASE \E r \in Runs : NotifyAnswers(r)
    BY <2>3 DEF NotifyAnswers, Writable
  <2> QED BY <2>1, <2>2, <2>3
          DEF Next, TimePasses, ZoneMoves, ClockTick, SavePlan, RemovePlan, RunNow, Progress,
              Writable, Timeout, Stop, Dispose, ProcessEnds, Restart
<1> QED BY <1>1, Invariance, PTL DEF Spec, QuietAfterDispose

(* A run that begins pushes records out, and rewrites none.                *)
LEMMA BeginsKeeps ==
  ASSUME NEW ps, NEW rs \in [Runs -> RunRecords], NEW saved, NEW failed, NEW p,
         NEW scheduled \in BOOLEAN, TypeOK, used < MaxRuns,
         Begins(p, scheduled, ps, rs, saved, failed)
  PROVE  \A r \in 1 .. used : runs'[r] = rs[r] \/ runs'[r] = NoRun
<1> DEFINE n == used + 1
           with == [rs EXCEPT ![n] = Begun]
<1>1. runs' = rs \/ runs' = Newest(with)
  BY DEF Begins, Rests
<1>2. used \in Nat /\ n \in Runs /\ \A r \in 1 .. used : r \in Runs /\ r # n
  BY RunsBelow DEF Runs
<1>3. with \in [Runs -> RunRecords] /\ \A r \in Runs : r # n => with[r] = rs[r]
  BY <1>2 DEF Begun, NoRun, RunRecords
<1> HIDE DEF with
<1> QED BY <1>1, <1>2, <1>3, NewestKeeps

LEMMA TickKeeps ==
  ASSUME NEW ps, NEW rs \in [Runs -> RunRecords], NEW saved, NEW failed, NEW known, TypeOK,
         Tick(ps, rs, saved, failed, known)
  PROVE  \A r \in 1 .. used : runs'[r] = rs[r] \/ runs'[r] = NoRun
<1> DEFINE shifted == IF zone # known THEN Shifted(ps, Plans, zone) ELSE ps
           written == IF zone # known THEN Store(shifted, rs) ELSE saved
           due == DueIn(shifted)
<1>1. \/ runs' = rs
      \/ /\ used < MaxRuns
         /\ \E p \in Oldest(shifted, due) : Begins(p, TRUE, shifted, rs, written, failed)
  BY DEF Tick, Rests
<1> HIDE DEF shifted, written, due
<1> QED BY <1>1, BeginsKeeps

(* Nor does it say of any record that its report is being sent.            *)
LEMMA BeginsSays ==
  ASSUME NEW ps, NEW rs \in [Runs -> RunRecords], NEW saved, NEW failed, NEW p,
         NEW scheduled \in BOOLEAN, TypeOK, used < MaxRuns,
         Begins(p, scheduled, ps, rs, saved, failed)
  PROVE  \A r \in Runs : runs'[r].notification = "sending" => rs[r].notification = "sending"
<1> DEFINE n == used + 1
           with == [rs EXCEPT ![n] = Begun]
<1>1. runs' = rs \/ runs' = Newest(with)
  BY DEF Begins, Rests
<1>2. n \in Runs
  BY RunsBelow DEF Runs
<1>3. with \in [Runs -> RunRecords] /\ with[n].notification = "none"
      /\ \A r \in Runs : r # n => with[r] = rs[r]
  BY <1>2 DEF Begun, NoRun, RunRecords
<1>4. NoRun.notification = "none"
  BY DEF NoRun
<1> HIDE DEF with
<1> QED BY <1>1, <1>2, <1>3, <1>4, NewestKeeps

LEMMA TickSays ==
  ASSUME NEW ps, NEW rs \in [Runs -> RunRecords], NEW saved, NEW failed, NEW known, TypeOK,
         Tick(ps, rs, saved, failed, known)
  PROVE  \A r \in Runs : runs'[r].notification = "sending" => rs[r].notification = "sending"
<1> DEFINE shifted == IF zone # known THEN Shifted(ps, Plans, zone) ELSE ps
           written == IF zone # known THEN Store(shifted, rs) ELSE saved
           due == DueIn(shifted)
<1>1. \/ runs' = rs
      \/ /\ used < MaxRuns
         /\ \E p \in Oldest(shifted, due) : Begins(p, TRUE, shifted, rs, written, failed)
  BY DEF Tick, Rests
<1> HIDE DEF shifted, written, due
<1> QED BY <1>1, BeginsSays

(* "sending" is said only of a report under way, but of a run whose result *)
(* could not be written; a cancelled run has none (executeRun, deliver,    *)
(* dispose, recoverInterruptedRuns).                                       *)
THEOREM SendingIsTrue == Spec => SendingIsSent
<1> DEFINE Said(r) == runs'[r].notification = "sending"
           Excused(r) == r \in deliveries' \/ Unsent(r) \/ LeftSaying(r)
           Sent == \A r \in Present(runs') : Said(r) => Excused(r)
<1>1. ASSUME Inv, Next, up' PROVE Sent
  <2>1. /\ runs \in [Runs -> RunRecords] /\ TypeOK /\ NoRun.notification = "none"
        /\ \A r \in Present(runs') : r \in Runs
        /\ up => Alive
    BY <1>1 DEF Inv, TypeOK, Present, NoRun
  <2>2. ASSUME up, deliveries \subseteq deliveries',
               \A r \in Runs : runs'[r].notification = "sending" => runs[r].notification = "sending"
        PROVE  Sent
    BY <2>1, <2>2 DEF LeftSaying
  <2>3. CASE up /\ UNCHANGED <<runs, deliveries>>
    BY <2>2, <2>3
  <2>4. ASSUME NEW p \in Plans, RemovePlan(p) PROVE Sent
    BY <2>1, <2>2, <2>4 DEF RemovePlan
  <2>5. CASE ClockTick
    <3>1. Tick(plans, runs, disk, failures, timeZone) /\ up /\ deliveries' = deliveries
      BY <2>5 DEF ClockTick
    <3> QED BY <2>1, <2>2, <3>1, TickSays
  <2>6. ASSUME NEW p \in Plans, RunNow(p) PROVE Sent
    <3>1. Begins(p, FALSE, plans, runs, disk, failures) /\ used < MaxRuns /\ up
          /\ deliveries' = deliveries
      BY <2>6 DEF RunNow
    <3> QED BY <2>1, <2>2, <3>1, BeginsSays
  <2>7. CASE Progress
    <3>1. PICK hosts \in {"open", "settled"} : runs' = [runs EXCEPT ![active].hosts = hosts]
      BY <2>7 DEF Progress
    <3>2. up /\ deliveries' = deliveries
      BY <2>7 DEF Progress
    <3> QED BY <2>1, <2>2, <3>1, <3>2 DEF RunRecords
  <2>8. CASE Stop
    <3>1. runs' = [runs EXCEPT ![active].status = "cancelled"] /\ up /\ deliveries' = deliveries
      BY <2>8 DEF Stop
    <3> QED BY <2>1, <2>2, <3>1 DEF RunRecords
  <2>9. CASE ExecuteEnds
    <3>1. PICK status \in Outcomes(runs[active]) :
            LET ended == [runs EXCEPT ![active] = Settled(@, status)]
                sends == ended[active].notification = "sending"
            IN \/ ~Writable /\ runs' = ended /\ deliveries' = deliveries
               \/ runs' = ended /\ failures' = failures + 1 /\ deliveries' = deliveries
               \/ /\ deliveries' = IF sends THEN deliveries \cup {active} ELSE deliveries
                  /\ Tick(plans, ended, Store(plans, ended), failures, timeZone)
      BY <2>9 DEF ExecuteEnds, Rests
    <3> DEFINE ended == [runs EXCEPT ![active] = Settled(@, status)]
    <3>2. /\ active \in Runs /\ up /\ runs[active].notification = "none"
          /\ Settled(runs[active], status) \in RunRecords
      BY <1>1, <2>9, ActiveRun, SettledRecord DEF ExecuteEnds
    <3>3. ended \in [Runs -> RunRecords] /\ ended[active] = Settled(runs[active], status)
          /\ \A r \in Runs : r # active => ended[r] = runs[r]
      BY <2>1, <3>2
    <3>4. ~Writable => ended[active].notification = "none"
      BY <2>1, <3>2, <3>3 DEF Settled, RunRecords
    <3>5. failures \in Nat
      BY <2>1 DEF TypeOK
    <3> HIDE DEF ended
    <3>6. CASE ~Writable /\ runs' = ended /\ deliveries' = deliveries
      BY <2>2, <3>2, <3>3, <3>4, <3>6
    <3>7. CASE runs' = ended /\ failures' = failures + 1 /\ deliveries' = deliveries
      BY <2>1, <3>2, <3>3, <3>5, <3>7 DEF Unsent, LeftSaying
    <3>8. CASE /\ deliveries' = IF ended[active].notification = "sending"
                                THEN deliveries \cup {active} ELSE deliveries
               /\ Tick(plans, ended, Store(plans, ended), failures, timeZone)
      <4>1. \A r \in Runs : runs'[r].notification = "sending" => ended[r].notification = "sending"
        BY <2>1, <3>3, <3>8, TickSays
      <4> QED BY <2>1, <3>2, <3>3, <3>8, <4>1 DEF LeftSaying
    <3> QED BY <3>1, <3>6, <3>7, <3>8 DEF ended
  <2>10. ASSUME NEW r \in Runs, NotifyAnswers(r) PROVE Sent
    <3>1. up /\ deliveries' = deliveries \ {r} /\ r \in deliveries
      BY <2>10 DEF NotifyAnswers
    <3>2. CASE Writable /\ Recorded(r) /\ runs' = [runs EXCEPT ![r].notification = "over"]
      <4>1. runs'[r].notification = "over" /\ \A s \in Runs : s # r => runs'[s] = runs[s]
        BY <2>1, <3>2 DEF RunRecords
      <4> QED BY <2>1, <3>1, <4>1 DEF LeftSaying
    <3>3. CASE ~(Writable /\ Recorded(r)) /\ runs' = runs
      <4>1. runs[r].notification # "sending"
        BY <2>1, <3>1, <3>3 DEF Alive, Writable, Recorded
      <4> QED BY <2>1, <3>1, <3>3, <4>1 DEF LeftSaying
    <3> QED BY <2>10, <3>2, <3>3 DEF NotifyAnswers
  <2>11. CASE Dispose
    <3>1. \A s \in Runs : runs'[s].notification = "sending" => runs[s].notification = "sending"
      BY <2>1, <2>11 DEF Dispose, RunRecords
    <3>2. up /\ deliveries' = deliveries
      BY <2>11 DEF Dispose
    <3> QED BY <2>2, <3>1, <3>2
  <2>12. CASE Restart
    <3> DEFINE rs == [r \in Runs |-> Recovered(disk.runs[r])]
    <3>1. \E ps : Tick(ps, rs, Store(ps, rs), failures, zone)
      BY <1>1, <2>12 DEF Restart, Inv, Gone
    <3>2. disk.runs \in [Runs -> RunRecords]
      BY <2>1 DEF TypeOK
    <3>3. /\ rs \in [Runs -> RunRecords]
          /\ \A r \in Runs : rs[r].notification # "sending"
      <4>1. ASSUME NEW r \in Runs
            PROVE  /\ Recovered(disk.runs[r]) \in RunRecords
                   /\ Recovered(disk.runs[r]).notification # "sending"
        BY <2>1, <3>2 DEF Recovered, RunRecords
      <4> QED BY <4>1
    <3> HIDE DEF rs
    <3> QED BY <2>1, <3>1, <3>3, TickSays
  <2> QED BY <1>1, <2>3, <2>4, <2>5, <2>6, <2>7, <2>8, <2>9, <2>10, <2>11, <2>12
          DEF Next, TimePasses, ZoneMoves, SavePlan, Timeout, ProcessEnds, stateVars
<1>2. Inv' => \A r \in Present(runs') : runs'[r].status = "cancelled" => runs'[r].notification = "none"
  BY DEF Inv, Books, RecordOK, Present, RunRecords
<1>3. Inv /\ Inv' /\ [Next]_vars
      => [up' => \A r \in Present(runs') :
            /\ runs'[r].notification = "sending" =>
                 r \in deliveries' \/ Unsent(r) \/ LeftSaying(r)
            /\ runs'[r].status = "cancelled" => runs'[r].notification = "none"]_vars
  BY <1>1, <1>2
<1> QED BY <1>3, Invariance, PTL DEF Spec, SendingIsSent

(* An outcome is final within a process: nothing rewrites the record of a  *)
(* run that has stopped running, an executor that returns late least of    *)
(* all (executeRun's throwIfAborted, stop, dispose).                       *)
THEOREM OutcomesAreFinal == Spec => OutcomeIsFinal
<1> DEFINE Final == \A r \in Present(runs) :
             runs[r].status # "running" => runs'[r].status \in {runs[r].status, "absent"}
<1>1. ASSUME Inv, Next, up, up' PROVE Final
  <2>1. /\ runs \in [Runs -> RunRecords] /\ TypeOK /\ Alive /\ NoRun.status = "absent"
        /\ \A r \in Present(runs) : r \in Runs /\ r \in 1 .. used /\ runs[r] # NoRun
    BY <1>1, RunsBelow DEF Inv, TypeOK, Present, Books, NoRun, Runs
  <2>2. CASE UNCHANGED runs
    BY <2>2
  <2>3. ASSUME NEW p \in Plans, RemovePlan(p) PROVE Final
    BY <2>1, <2>3 DEF RemovePlan
  <2>4. CASE ClockTick
    BY <2>1, <2>4, TickKeeps DEF ClockTick
  <2>5. ASSUME NEW p \in Plans, RunNow(p) PROVE Final
    BY <2>1, <2>5, BeginsKeeps DEF RunNow
  <2>6. CASE Progress
    <3>1. PICK hosts \in {"open", "settled"} : runs' = [runs EXCEPT ![active].hosts = hosts]
      BY <2>6 DEF Progress
    <3> QED BY <2>1, <3>1 DEF RunRecords
  <2>7. CASE Stop
    BY <2>1, <2>7 DEF Stop
  <2>8. CASE ExecuteEnds
    <3>1. PICK status \in Outcomes(runs[active]) :
            LET ended == [runs EXCEPT ![active] = Settled(@, status)] IN
            \/ runs' = ended
            \/ Tick(plans, ended, Store(plans, ended), failures, timeZone)
      BY <2>8 DEF ExecuteEnds, Rests
    <3> DEFINE ended == [runs EXCEPT ![active] = Settled(@, status)]
    <3>2. /\ active \in Runs /\ runs[active].status \in {"running", "cancelled"}
          /\ runs[active].status = "cancelled" => aborted
          /\ Settled(runs[active], status) \in RunRecords
      BY <1>1, <2>8, ActiveRun, SettledRecord DEF ExecuteEnds
    <3>3. ended \in [Runs -> RunRecords] /\ ended[active] = Settled(runs[active], status)
          /\ \A r \in Runs : r # active => ended[r] = runs[r]
      BY <2>1, <3>2
    <3>4. runs[active].status # "running" => ended[active].status = runs[active].status
      <4>1. Settled(runs[active], status).status = status
        BY <2>1, <3>2 DEF Settled, RunRecords
      <4> QED BY <3>2, <3>3, <4>1 DEF Outcomes, SignalAborted
    <3> HIDE DEF ended
    <3>5. \A r \in 1 .. used : runs'[r] = ended[r] \/ runs'[r] = NoRun
      BY <2>1, <3>1, <3>3, TickKeeps DEF ended
    <3> QED BY <2>1, <3>3, <3>4, <3>5
  <2>9. ASSUME NEW r \in Runs, NotifyAnswers(r) PROVE Final
    <3>1. runs' = [runs EXCEPT ![r].notification = "over"] \/ runs' = runs
      BY <2>9 DEF NotifyAnswers
    <3> QED BY <2>1, <3>1 DEF RunRecords
  <2>10. CASE Dispose
    BY <2>1, <2>10 DEF Dispose, RunRecords
  <2> QED BY <1>1, <2>2, <2>3, <2>4, <2>5, <2>6, <2>7, <2>8, <2>9, <2>10
          DEF Next, TimePasses, ZoneMoves, SavePlan, Timeout, ProcessEnds, Restart, stateVars
<1>2. Inv /\ [Next]_vars => [up /\ up' => Final]_vars
  BY <1>1
<1> QED BY <1>2, Invariance, PTL DEF Spec, OutcomeIsFinal
=============================================================================
