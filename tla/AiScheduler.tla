---------------------------- MODULE AiScheduler -----------------------------
(***************************************************************************)
(* The scheduler of unattended inspections: AiScheduler's plans and run    *)
(* records and their persisted snapshot, the one run that may be active,   *)
(* its timeout, the deliveries of its report, disposal, crashes and        *)
(* restarts, and the clock and time zone of the machine.                   *)
(*                                                                         *)
(* Time is counted in slots: the next slot of a plan is a later one than   *)
(* now, and the plan is due once now has reached it.                       *)
(***************************************************************************)
EXTENDS Naturals, FiniteSets

CONSTANTS Plans,        \* plans that the user creates
          Calendar,     \* those with a daily or weekly time, not an interval
          KeptRuns,     \* run records that are kept
          MaxRuns,      \* bound on the runs of a behaviour
          MaxNow,       \* bound on the clock
          MaxMoves,     \* bound on the changes of the time zone
          MaxFailures,  \* bound on the writes to the database that fail
          MaxCrashes    \* bound on the ends of the process

ASSUME ConstantsAssumption ==
  /\ IsFiniteSet(Plans) /\ Calendar \subseteq Plans
  /\ KeptRuns \in Nat \ {0} /\ MaxRuns \in Nat \ {0}
  /\ MaxNow \in Nat /\ MaxMoves \in Nat /\ MaxFailures \in Nat /\ MaxCrashes \in Nat

Runs == 1 .. MaxRuns
None == 0
Slots == 0 .. MaxNow + 1
Zones == 0 .. MaxMoves

VARIABLES
  now,        \* the time
  zone,       \* the machine's time zone
  plans,      \* state.plans
  runs,       \* state.runs, absent or as recorded
  disk,       \* the persisted snapshot
  timeZone,   \* the time zone the scheduler knows
  active,     \* the run behind active, or None
  aborted,    \* its controller has been aborted
  deliveries, \* runs whose report is being sent
  disposed,   \* dispose has been called
  up,         \* the process runs
  used,       \* runs begun so far; the newest has the largest number
  scheduleOf, \* the plan of a run
  slotOf,     \* the slot that a scheduled run was begun for, None if manual
  failures,   \* writes that have failed
  crashes     \* ends of the process so far

clockVars == <<now, zone>>
beginVars == <<used, scheduleOf, slotOf>>
stateVars == <<plans, runs>>
vars == <<clockVars, stateVars, disk, timeZone, active, aborted, deliveries, disposed, up,
          beginVars, failures, crashes>>

PlanRecords == [is : {"unborn", "there", "removed"}, enabled : BOOLEAN,
                nextRunAt : Slots, zone : Zones]
RunRecords == [status : {"absent", "running", "completed", "failed", "cancelled"},
               finished : BOOLEAN, hosts : {"none", "open", "settled"},
               notification : {"none", "sending", "over"}]

NoPlan == [is |-> "unborn", enabled |-> FALSE, nextRunAt |-> 0, zone |-> 0]
NoRun == [status |-> "absent", finished |-> FALSE, hosts |-> "none", notification |-> "none"]
Begun == [NoRun EXCEPT !.status = "running"]

Present(rs) == {r \in Runs : rs[r] # NoRun}
Store(ps, rs) == [plans |-> ps, runs |-> rs]

TypeOK ==
  /\ now \in 0 .. MaxNow /\ zone \in Zones /\ timeZone \in Zones
  /\ plans \in [Plans -> PlanRecords] /\ disk.plans \in [Plans -> PlanRecords]
  /\ runs \in [Runs -> RunRecords] /\ disk.runs \in [Runs -> RunRecords]
  /\ Cardinality(Present(runs)) <= KeptRuns
  /\ active \in 0 .. MaxRuns /\ aborted \in BOOLEAN
  /\ deliveries \subseteq Runs
  /\ disposed \in BOOLEAN /\ up \in BOOLEAN
  /\ used \in 0 .. MaxRuns
  /\ scheduleOf \in [1 .. used -> Plans] /\ slotOf \in [1 .. used -> Slots]
  /\ failures \in 0 .. MaxFailures /\ crashes \in 0 .. MaxCrashes

Init ==
  /\ now = 0 /\ zone = 0 /\ timeZone = 0
  /\ plans = [p \in Plans |-> NoPlan] /\ runs = [r \in Runs |-> NoRun]
  /\ disk = Store(plans, runs)
  /\ active = None /\ aborted = FALSE /\ deliveries = {}
  /\ disposed = FALSE /\ up = TRUE
  /\ used = 0 /\ scheduleOf = [r \in {} |-> None] /\ slotOf = [r \in {} |-> None]
  /\ failures = 0 /\ crashes = 0
-----------------------------------------------------------------------------
(* Faulty variants of definitions below, each a bug this code could have.  *)
SameSlot(t) == t                          \* next run not strictly later
AllKept(rs) == rs                         \* the history grows for ever
NeverBusy == FALSE                        \* plans change under a running run
IgnoreSignal == FALSE                     \* no throwIfAborted after execute
AlwaysAnnounced(status) == TRUE           \* a cancelled run is reported too
OnlyRunning(run) == run.status = "running"  \* recovery overlooks a stopped run
AlwaysWritable == TRUE                    \* no look at disposed in callbacks
StaleRecord(r) == TRUE                    \* the delivery keeps its own record
NoTimeout == FALSE                        \* nothing aborts a stalled run
-----------------------------------------------------------------------------
(* nextAiScheduleRun: strictly later than t                                *)
NextSlot(t) == t + 1

(* slice(0, 200): the newest records are kept                              *)
Newest(rs) ==
  [r \in Runs |-> IF Cardinality({s \in Present(rs) : s > r}) < KeptRuns THEN rs[r] ELSE NoRun]

Busy == active # None
SignalAborted == aborted
Writable == ~disposed

There(ps) == {p \in Plans : ps[p].is = "there"}
DueIn(ps) == {p \in There(ps) : ps[p].enabled /\ ps[p].nextRunAt <= now}
Oldest(ps, due) == {p \in due : \A q \in due : ps[p].nextRunAt <= ps[q].nextRunAt}

(* A plan with a calendar time whose slots are computed anew, in zone z    *)
Shifted(ps, S, z) ==
  [p \in Plans |-> IF p \in S \cap Calendar \cap There(ps)
                   THEN [ps[p] EXCEPT !.nextRunAt = NextSlot(now), !.zone = z] ELSE ps[p]]

(* The slot of a scheduled run is consumed as it begins.                   *)
Claimed(ps, p) ==
  [ps EXCEPT ![p].nextRunAt = NextSlot(now),
             ![p].zone = IF p \in Calendar THEN zone ELSE @]

(* Nothing begins                                                          *)
Rests(ps, rs, saved, failed) ==
  /\ plans' = ps /\ runs' = rs /\ disk' = saved /\ failures' = failed
  /\ active' = None
  /\ UNCHANGED beginVars

(* The synchronous part of executeRun: record the run, persist, execute.   *)
(* Without the claim on disk nothing begins.                               *)
Begins(p, scheduled, ps, rs, saved, failed) ==
  LET r == used + 1
      claimed == IF scheduled THEN Claimed(ps, p) ELSE ps
      begun == Newest([rs EXCEPT ![r] = Begun])
  IN \/ /\ plans' = claimed /\ runs' = begun
        /\ disk' = Store(claimed, begun) /\ failures' = failed
        /\ active' = r /\ used' = r
        /\ scheduleOf' = [s \in 1 .. r |-> IF s = r THEN p ELSE scheduleOf[s]]
        /\ slotOf' = [s \in 1 .. r |-> IF s < r THEN slotOf[s]
                                       ELSE IF scheduled THEN ps[p].nextRunAt ELSE None]
     \/ failed < MaxFailures /\ Rests(ps, rs, saved, failed + 1)

(* tick, with nothing active, from plans ps and runs rs that disk knows as *)
(* saved: follow the time zone, then begin the plan that waits longest.    *)
Tick(ps, rs, saved, failed, known) ==
  LET moved == zone # known
      shifted == IF moved THEN Shifted(ps, Plans, zone) ELSE ps
      written == IF moved THEN Store(shifted, rs) ELSE saved
      due == DueIn(shifted)
  IN /\ timeZone' = zone /\ aborted' = FALSE
     /\ \/ moved /\ failed < MaxFailures /\ Rests(shifted, rs, saved, failed + 1)
        \/ (due = {} \/ used = MaxRuns) /\ Rests(shifted, rs, written, failed)
        \/ /\ used < MaxRuns
           /\ \E p \in Oldest(shifted, due) : Begins(p, TRUE, shifted, rs, written, failed)
-----------------------------------------------------------------------------
Persists(ps, rs) ==
  \/ disk' = Store(ps, rs) /\ UNCHANGED failures
  \/ failures < MaxFailures /\ failures' = failures + 1 /\ UNCHANGED disk

TimePasses ==
  /\ now < MaxNow /\ now' = now + 1
  /\ UNCHANGED <<zone, stateVars, disk, timeZone, active, aborted, deliveries, disposed, up,
                 beginVars, failures, crashes>>

ZoneMoves ==
  /\ zone < MaxMoves /\ zone' = zone + 1
  /\ UNCHANGED <<now, stateVars, disk, timeZone, active, aborted, deliveries, disposed, up,
                 beginVars, failures, crashes>>

(* save: create a plan, or edit one.  A plan whose timing, state and zone  *)
(* stay as they are keeps its next run.  A failed write changes nothing.   *)
SavePlan(p) ==
  /\ up /\ ~disposed /\ ~Busy /\ plans[p].is # "removed"
  /\ \E enabled \in BOOLEAN, sameTiming \in BOOLEAN :
       LET old == plans[p]
           keeps == /\ old.is = "there" /\ old.enabled = enabled /\ sameTiming
                    /\ p \in Calendar => old.zone = zone
           edited == [is |-> "there", enabled |-> enabled,
                      nextRunAt |-> IF keeps THEN old.nextRunAt ELSE NextSlot(now),
                      zone |-> IF p \in Calendar THEN zone ELSE 0]
       IN plans' = [plans EXCEPT ![p] = edited]
  /\ disk' = Store(plans', runs)
  /\ UNCHANGED <<clockVars, runs, timeZone, active, aborted, deliveries, disposed, up,
                 beginVars, failures, crashes>>

(* remove: a plan goes with its run records, not with its deliveries.      *)
RemovePlan(p) ==
  /\ up /\ ~disposed /\ ~Busy /\ plans[p].is = "there"
  /\ plans' = [plans EXCEPT ![p].is = "removed"]
  /\ runs' = [r \in Runs |-> IF r <= used /\ scheduleOf[r] = p THEN NoRun ELSE runs[r]]
  /\ disk' = Store(plans', runs')
  /\ UNCHANGED <<clockVars, timeZone, active, aborted, deliveries, disposed, up, beginVars,
                 failures, crashes>>

(* The 30 s interval                                                       *)
ClockTick ==
  /\ up /\ ~disposed /\ ~Busy
  /\ Tick(plans, runs, disk, failures, timeZone)
  /\ UNCHANGED <<clockVars, deliveries, disposed, up, crashes>>

RunNow(p) ==
  /\ up /\ ~disposed /\ ~Busy /\ p \in There(plans) /\ used < MaxRuns
  /\ Begins(p, FALSE, plans, runs, disk, failures)
  /\ aborted' = FALSE
  /\ UNCHANGED <<clockVars, timeZone, deliveries, disposed, up, crashes>>
-----------------------------------------------------------------------------
(* The executor reports its hosts; a failed write fails the run later on.  *)
Progress ==
  /\ up /\ active # None /\ Writable
  /\ \E hosts \in {"open", "settled"} : runs' = [runs EXCEPT ![active].hosts = hosts]
  /\ Persists(plans, runs')
  /\ UNCHANGED <<clockVars, plans, timeZone, active, aborted, deliveries, disposed, up,
                 beginVars, crashes>>

(* The timer of executeRun, cleared by dispose                             *)
TimeoutArmed == active # None /\ ~disposed

Timeout ==
  /\ up /\ TimeoutArmed /\ ~aborted
  /\ aborted' = TRUE
  /\ UNCHANGED <<clockVars, stateVars, disk, timeZone, active, deliveries, disposed, up,
                 beginVars, failures, crashes>>

Stop ==
  /\ up /\ ~disposed /\ active # None /\ runs[active].status = "running"
  /\ runs' = [runs EXCEPT ![active].status = "cancelled"]
  /\ aborted' = TRUE
  /\ Persists(plans, runs')
  /\ UNCHANGED <<clockVars, plans, timeZone, active, deliveries, disposed, up, beginVars, crashes>>

(* Which runs are reported by a webhook                                    *)
Announced(status) == status # "cancelled"

Settled(run, status) ==
  [run EXCEPT !.status = status, !.finished = TRUE,
              !.hosts = IF @ = "open" THEN "settled" ELSE @,
              !.notification = IF Writable /\ Announced(status) THEN "sending" ELSE @]

(* What the run becomes when execute has resolved or rejected              *)
Outcomes(run) ==
  IF ~SignalAborted THEN {"completed", "failed"}
  ELSE IF run.status = "cancelled" THEN {"cancelled"} ELSE {"failed"}

(* The rest of executeRun: persist the result, send the report, tick.      *)
ExecuteEnds ==
  /\ up /\ active # None
  /\ \E status \in Outcomes(runs[active]) :
       LET ended == [runs EXCEPT ![active] = Settled(@, status)]
           sends == ended[active].notification = "sending"
       IN \/ /\ ~Writable
             /\ Rests(plans, ended, disk, failures)
             /\ UNCHANGED <<timeZone, aborted, deliveries>>
          \/ /\ Writable /\ failures < MaxFailures
             /\ Rests(plans, ended, disk, failures + 1)
             /\ UNCHANGED <<timeZone, aborted, deliveries>>
          \/ /\ Writable
             /\ deliveries' = IF sends THEN deliveries \cup {active} ELSE deliveries
             /\ Tick(plans, ended, Store(plans, ended), failures, timeZone)
  /\ UNCHANGED <<clockVars, disposed, up, crashes>>

(* The record of a run may be gone: its plan was removed, or it is old.    *)
Recorded(r) == runs[r] # NoRun

(* deliver, after its await                                                *)
NotifyAnswers(r) ==
  /\ up /\ r \in deliveries
  /\ deliveries' = deliveries \ {r}
  /\ IF Writable /\ Recorded(r)
     THEN runs' = [runs EXCEPT ![r].notification = "over"] /\ Persists(plans, runs')
     ELSE UNCHANGED <<runs, disk, failures>>
  /\ UNCHANGED <<clockVars, plans, timeZone, active, aborted, disposed, up, beginVars, crashes>>
-----------------------------------------------------------------------------
(* dispose: the reports that are under way are given up, and the run is    *)
(* cancelled.  The executor and the deliveries unwind afterwards.          *)
Dispose ==
  /\ up /\ ~disposed
  /\ disposed' = TRUE
  /\ LET unsent == {r \in deliveries : runs[r].notification = "sending"}
         Cancelled(run) == [run EXCEPT !.status = IF @ = "running" THEN "cancelled" ELSE @,
                                       !.finished = TRUE,
                                       !.hosts = IF @ = "open" THEN "settled" ELSE @]
     IN /\ runs' = [r \in Runs |-> IF r \in unsent THEN [runs[r] EXCEPT !.notification = "over"]
                                   ELSE IF r = active THEN Cancelled(runs[r]) ELSE runs[r]]
        /\ IF unsent # {} \/ Busy THEN Persists(plans, runs') ELSE UNCHANGED <<disk, failures>>
  /\ aborted' = (aborted \/ Busy)
  /\ UNCHANGED <<clockVars, plans, timeZone, active, deliveries, up, beginVars, crashes>>

(* The process ends, by a quit after dispose or by a crash; what is left   *)
(* is the snapshot.                                                        *)
ProcessEnds ==
  /\ up /\ crashes < MaxCrashes
  /\ crashes' = crashes + 1 /\ up' = FALSE
  /\ plans' = disk.plans /\ runs' = disk.runs /\ timeZone' = zone
  /\ active' = None /\ aborted' = FALSE /\ deliveries' = {} /\ disposed' = FALSE
  /\ UNCHANGED <<clockVars, disk, beginVars, failures>>

(* The constructor: a closed application retains no execution, no delivery *)
(* and no slot of another time zone.                                       *)
Interrupted(run) == run.status = "running" \/ (run.status = "cancelled" /\ ~run.finished)

Recovered(run) ==
  IF run = NoRun THEN run ELSE
    [status |-> IF Interrupted(run) THEN "cancelled" ELSE run.status,
     finished |-> run.finished \/ Interrupted(run),
     hosts |-> IF run.hosts = "open" THEN "settled" ELSE run.hosts,
     notification |-> IF run.notification = "sending" THEN "over" ELSE run.notification]

(* The constructor, then start with its first tick; when the write fails   *)
(* the process goes on without a scheduler.                                *)
Restart ==
  /\ ~up
  /\ LET rs == [r \in Runs |-> Recovered(disk.runs[r])]
         elsewhere == {p \in Plans : disk.plans[p].zone # zone}
         ps == Shifted(disk.plans, elsewhere, zone)
     IN \/ up' = TRUE /\ Tick(ps, rs, Store(ps, rs), failures, zone)
        \/ /\ Store(ps, rs) # disk /\ failures < MaxFailures
           /\ failures' = failures + 1
           /\ UNCHANGED <<stateVars, disk, timeZone, active, aborted, up, beginVars>>
  /\ UNCHANGED <<clockVars, deliveries, disposed, crashes>>
-----------------------------------------------------------------------------
Next ==
  \/ TimePasses \/ ZoneMoves \/ ClockTick
  \/ \E p \in Plans : SavePlan(p) \/ RemovePlan(p) \/ RunNow(p)
  \/ Progress \/ Timeout \/ Stop \/ ExecuteEnds
  \/ \E r \in Runs : NotifyAnswers(r)
  \/ Dispose \/ ProcessEnds \/ Restart

(* Timers fire, and an execution whose signal is aborted unwinds.          *)
Fairness == WF_vars(ClockTick) /\ WF_vars(Timeout) /\ WF_vars(aborted /\ ExecuteEnds)

Spec == Init /\ [][Next]_vars
FairSpec == Spec /\ Fairness
-----------------------------------------------------------------------------
(* A slot of a plan begins at most one run, across restarts, edits, lost   *)
(* writes and changes of the time zone: claiming it is on disk before the  *)
(* execution begins (executeRun, nextAiScheduleRun).                       *)
SlotOnce ==
  \A r, s \in 1 .. used :
    r # s /\ scheduleOf[r] = scheduleOf[s] /\ slotOf[r] # None => slotOf[r] # slotOf[s]

(* No stale spinner: in a process that runs, a record is unfinished, or    *)
(* shows a host at work, only for the run that executes, which always has  *)
(* its record; after dispose every record is finished.                     *)
NoStaleSpinner ==
  up =>
    /\ active # None => Recorded(active)
    /\ \A r \in Present(runs) :
         ~runs[r].finished \/ runs[r].status = "running" \/ runs[r].hosts = "open" =>
           r = active /\ ~disposed

(* A record says "sending" while its report is being sent, and no longer:  *)
(* it begins with the delivery, which takes it away whatever the answer,   *)
(* dispose and restarts take it away too, and writes that fail for other   *)
(* records do not matter.  Only the run whose own result could not be      *)
(* written keeps it, for executeRun sets it before it saves.  A run that   *)
(* the user or a quit cancelled sends none.                                *)
Unsent(r) == r = active /\ failures' # failures
LeftSaying(r) == up /\ runs[r].notification = "sending" /\ r \notin deliveries

SendingIsSent ==
  [][up' => \A r \in Present(runs') :
       /\ runs'[r].notification = "sending" => r \in deliveries' \/ Unsent(r) \/ LeftSaying(r)
       /\ runs'[r].status = "cancelled" => runs'[r].notification = "none"]_vars

(* The records of a removed plan stay away, in memory and on disk, however *)
(* late its deliveries answer.                                             *)
RemovedStaysRemoved ==
  \A r \in 1 .. used :
    /\ plans[scheduleOf[r]].is = "removed" => runs[r] = NoRun
    /\ disk.plans[scheduleOf[r]].is = "removed" => disk.runs[r] = NoRun

(* Within a process an outcome is final: a run that was stopped does not   *)
(* complete, whatever its executor returns, and no outcome is rewritten.   *)
OutcomeIsFinal ==
  [][up /\ up' => \A r \in Present(runs) :
       runs[r].status # "running" => runs'[r].status \in {runs[r].status, "absent"}]_vars

(* After dispose nothing is written any more: the database may be closed.  *)
QuietAfterDispose == [][disposed => disk' = disk]_vars

(* A plan that is due gets its run or is not due any more: a stalled run   *)
(* does not hold the others up for ever.                                   *)
OverdueRuns ==
  \A p \in Plans :
    (up /\ p \in DueIn(plans)) ~> (p \notin DueIn(plans) \/ ~up \/ disposed \/ used = MaxRuns)
=============================================================================
