----------------------- MODULE AiDeferredJobs_proofs ------------------------
(***************************************************************************)
(* A scheduled command is begun once, its end is told once, and the        *)
(* records agree with the job store, for any set of jobs, any limit on the *)
(* scheduled ones and any number of quits and crashes.                     *)
(*                                                                         *)
(* The invariant is stated of records s and store entries e, for a restart *)
(* ticks from the recovered records before they are in memory.  What makes *)
(* the two delivery paths exclude each other is that bound holds exactly   *)
(* the running jobs whose result a window will tell, or nobody is to be    *)
(* told.  Kept is what outlives the application: a quit reaches it through *)
(* the cancellations of the job store, which find the clock disposed of.   *)
(***************************************************************************)
EXTENDS AiDeferredJobs, TLAPS

Entries == {"absent", "scheduled", "running", "settled"}

Open(s) == s = "absent" \/ s = "running" \/ Pending(s)
Unbegun(s) == s = "absent" \/ Pending(s)

JobOK(s, e, j) ==
  /\ e[j] = "scheduled" <=> Pending(s[j]) \/ (s[j] = "running" /\ starting[j] # "no")
  /\ e[j] = "running" => s[j] = "running" /\ session # "none"
  /\ Unbegun(s[j]) => starts[j] = 0 /\ starting[j] = "no"
  /\ starting[j] # "no" => starts[j] = 0
  /\ starting[j] = "live" => session # "none"
  /\ Open(s[j]) => told[j] = 0 /\ writing[j] = "no"
  /\ told[j] = 0 \/ writing[j] = "no"
  /\ j \in bound => s[j] = "running"
  /\ s[j] = "running" /\ binding[j] # "no" => j \in bound
  /\ s[j] = "running" /\ j \in bound => binding[j] # "no" \/ j \in excused
  /\ Ended(s[j]) => told[j] = 1 \/ writing[j] # "no" \/ j \in excused \cup strayed
  /\ s[j] = "cancelled" => j \in byHand

Ready(s, e) ==
  /\ s \in [Jobs -> Statuses] /\ e \in [Jobs -> Entries]
  /\ \A j \in Jobs : JobOK(s, e, j)

(* What is left of a job while the application is down                     *)
Kept(j) ==
  /\ writing[j] = "no" /\ starting[j] = "no" /\ j \notin bound /\ binding[j] = "no"
  /\ Unbegun(disk[j]) => starts[j] = 0
  /\ Open(disk[j]) => told[j] = 0
  /\ ~Unbegun(disk[j]) => told[j] = 1 \/ j \in excused \cup strayed
  /\ disk[j] = "cancelled" => j \in byHand

Inv ==
  /\ TypeOK
  /\ up => disk = status /\ Ready(status, store)
  /\ ~up => \A j \in Jobs : Kept(j)
-----------------------------------------------------------------------------
LEMMA InitInv == Init => Inv
<1> SUFFICES ASSUME Init PROVE Inv
  OBVIOUS
<1>1. TypeOK
  <2>1. quits \in 0 .. MaxQuits
    BY ConstantsAssumption DEF Init
  <2>2. starts \in [Jobs -> 0 .. 1] /\ told \in [Jobs -> 0 .. 1]
    BY DEF Init
  <2> QED BY <2>1, <2>2 DEF Init, TypeOK, Statuses, Sessions, Owners, Writers
<1>2. status \in [Jobs -> Statuses] /\ store \in [Jobs -> Entries]
  BY DEF Init, Statuses, Entries
<1>3. ASSUME NEW j \in Jobs PROVE JobOK(status, store, j)
  <2>1. /\ status[j] = "absent" /\ store[j] = "absent" /\ starting[j] = "no"
        /\ starts[j] = 0 /\ told[j] = 0 /\ writing[j] = "no" /\ bound = {} /\ binding[j] = "no"
    BY DEF Init
  <2> QED BY <2>1 DEF JobOK, Ended, EndStates, Pending, PendingStates
<1>4. Ready(status, store)
  BY <1>2, <1>3 DEF Ready
<1> QED BY <1>1, <1>4 DEF Inv, Init

(* The owner and the writer that a session leaves a job                    *)
LEMMA OwnerTypes ==
  ASSUME TypeOK, NEW j \in Jobs, NEW here \in Sessions
  PROVE  /\ Rebound(j, here) \in Owners /\ Owner(j, here) \in Owners
         /\ Writer(j, here) \in Writers /\ Writer(j, here) # "no"
<1>1. Where(j, here) \in Sessions
  BY DEF TypeOK, Where, Sessions
<1>2. ASSUME NEW h \in Sessions PROVE Rebound(j, h) \in Owners
  BY DEF TypeOK, Rebound, Sessions, Owners
<1>3. Writer(j, here) \in Writers /\ Writer(j, here) # "no"
  BY <1>1 DEF Writer, Sessions, Writers, Owners
<1> QED BY <1>1, <1>2, <1>3 DEF Owner

(* tick, from records and entries that fit: it expires, runs and parks.    *)
LEMMA TickInv ==
  ASSUME TypeOK, NEW s, NEW e, Ready(s, e), Tick(s, e), up',
         session' \in Sessions, session # "none" => session' # "none",
         UNCHANGED <<age, starts, quits, caller, stopped, ghostVars>>
  PROVE  Inv'
<1> DEFINE due == {j \in Jobs : Pending(s[j]) /\ age[j] # "early"}
           late == {j \in due : PastGrace(age[j])}
           runs == IF session' # "none" THEN due \ late ELSE {}
           waits == (due \ late) \ runs
<1> DEFINE owner(j) == Owner(j, session')
           writer(j) == Writer(j, session')
           rebound(j) == Rebound(j, session')
<1>0. ASSUME NEW j \in Jobs
      PROVE  /\ owner(j) \in Owners /\ rebound(j) \in Owners
             /\ writer(j) \in Writers /\ writer(j) # "no"
  BY OwnerTypes
<1>1. /\ disk' = status'
      /\ status' = [j \in Jobs |-> IF j \in late THEN "expired" ELSE IF j \in runs THEN "running"
                                   ELSE IF j \in waits THEN "waiting" ELSE s[j]]
      /\ store' = [j \in Jobs |-> IF j \in late THEN "settled" ELSE e[j]]
      /\ starting' = [j \in Jobs |-> IF j \in runs THEN "live" ELSE starting[j]]
      /\ told' = [j \in Jobs |-> IF j \in late /\ owner(j) = "view" THEN told[j] + 1 ELSE told[j]]
      /\ strayed' = strayed \cup {j \in late : owner(j) = "transport"}
      /\ writing' = [j \in Jobs |-> IF j \in late /\ owner(j) = "no" THEN writer(j)
                                    ELSE writing[j]]
      /\ binding' = [j \in Jobs |-> IF j \in late THEN "no" ELSE IF j \in runs THEN rebound(j)
                                    ELSE binding[j]]
      /\ bound' = bound \cup {j \in runs : rebound(j) # "no"}
      /\ at' = [j \in Jobs |-> IF j \in runs THEN session' ELSE at[j]]
  BY DEF Tick, Among, Told, BoundBy
<1> HIDE DEF owner, writer, rebound
<1>2. ASSUME NEW j \in Jobs PROVE JobOK(status, store, j)' /\ told'[j] \in 0 .. 1
  <2>1. /\ status'[j] = IF j \in late THEN "expired" ELSE IF j \in runs THEN "running"
                        ELSE IF j \in waits THEN "waiting" ELSE s[j]
        /\ store'[j] = IF j \in late THEN "settled" ELSE e[j]
        /\ starting'[j] = IF j \in runs THEN "live" ELSE starting[j]
        /\ told'[j] = IF j \in late /\ owner(j) = "view" THEN told[j] + 1 ELSE told[j]
        /\ writing'[j] = IF j \in late /\ owner(j) = "no" THEN writer(j) ELSE writing[j]
        /\ binding'[j] = IF j \in late THEN "no" ELSE IF j \in runs THEN rebound(j)
                         ELSE binding[j]
        /\ j \in bound' <=> j \in bound \/ (j \in runs /\ rebound(j) # "no")
        /\ j \in strayed' <=> j \in strayed \/ (j \in late /\ owner(j) = "transport")
    BY <1>1
  <2>2. JobOK(s, e, j) /\ s[j] \in Statuses
    BY DEF Ready
  <2>3. /\ starts'[j] = starts[j] /\ byHand' = byHand /\ excused' = excused
        /\ session # "none" => session' # "none"
    BY DEF ghostVars
  <2>4. told[j] \in 0 .. 1
    BY DEF TypeOK
  <2>5. CASE j \in late
    <3>1. owner(j) = "view" \/ owner(j) = "transport" \/ owner(j) = "no"
      BY <1>0 DEF Owners
    <3>2. Pending(s[j]) /\ writer(j) # "no"
      BY <1>0, <2>5
    <3>6. starting[j] = "no" /\ j \notin bound /\ told[j] = 0 /\ writing[j] = "no"
      BY <2>2, <3>2 DEF JobOK, Open, Unbegun, Pending, PendingStates
    <3>3. /\ status'[j] = "expired" /\ store'[j] = "settled" /\ binding'[j] = "no"
          /\ starting'[j] = "no" /\ j \notin bound'
          /\ told[j] = 0 /\ writing[j] = "no"
      BY <2>1, <2>5, <3>2, <3>6
    <3>4. /\ told'[j] = IF owner(j) = "view" THEN 1 ELSE 0
          /\ writing'[j] = IF owner(j) = "no" THEN writer(j) ELSE "no"
          /\ owner(j) = "transport" => j \in strayed'
      BY <2>1, <2>5, <3>3
    <3>5. /\ told'[j] = 0 \/ writing'[j] = "no"
          /\ told'[j] = 1 \/ writing'[j] # "no" \/ j \in strayed'
          /\ told'[j] \in 0 .. 1
      BY <3>1, <3>2, <3>4
    <3> QED BY <3>3, <3>5 DEF JobOK, Open, Unbegun, Ended, EndStates, Pending, PendingStates
  <2>6. CASE j \in runs
    <3>1. Pending(s[j]) /\ session' # "none" /\ j \notin late
      BY <2>6
    <3> HIDE DEF late, runs, waits
    <3> QED BY <2>1, <2>2, <2>3, <2>4, <2>6, <3>1
            DEF JobOK, Open, Unbegun, Ended, EndStates, Pending, PendingStates
  <2>7. CASE j \in waits
    <3>1. Pending(s[j]) /\ j \notin late /\ j \notin runs
      BY <2>7
    <3> HIDE DEF late, runs, waits
    <3> QED BY <2>1, <2>2, <2>3, <2>4, <2>7, <3>1
            DEF JobOK, Open, Unbegun, Ended, EndStates, Pending, PendingStates
  <2>8. CASE j \notin late /\ j \notin runs /\ j \notin waits
    <3> HIDE DEF late, runs, waits
    <3> QED BY <2>1, <2>2, <2>3, <2>4, <2>8
            DEF JobOK, Open, Unbegun, Ended, EndStates, Pending, PendingStates
  <2> QED BY <2>5, <2>6, <2>7, <2>8
<1>3. status' \in [Jobs -> Statuses] /\ store' \in [Jobs -> Entries]
  BY <1>1 DEF Ready, Statuses, Entries, EndStates, PendingStates
<1>4. /\ starting' \in [Jobs -> {"no", "live", "stale"}]
      /\ told' \in [Jobs -> 0 .. 1] /\ at' \in [Jobs -> Sessions]
  BY <1>1, <1>2 DEF TypeOK
<1>5. /\ writing' \in [Jobs -> Writers] /\ binding' \in [Jobs -> Owners]
      /\ bound' \subseteq Jobs /\ strayed' \subseteq Jobs
  BY <1>0, <1>1 DEF TypeOK, Owners
<1> HIDE DEF late, runs, waits, due
<1>6. TypeOK'
  <2>1. disk' = status' /\ store' \in [Jobs -> {"absent", "scheduled", "running", "settled"}]
    BY <1>1, <1>3 DEF Entries
  <2> QED BY <1>3, <1>4, <1>5, <2>1 DEF TypeOK, ghostVars
<1>7. Ready(status, store)'
  BY <1>2, <1>3 DEF Ready
<1> QED BY <1>1, <1>6, <1>7 DEF Inv

(* Settle, of jobs that run; H says what the action may do besides.        *)
LEMMA SettleJob ==
  ASSUME Inv, up, NEW S \in SUBSET RunningJobs, NEW end \in EndStates, Settle(S, end),
         NEW j \in Jobs,
         starting'[j] # "no" => starting[j] # "no" /\ starts'[j] = 0,
         j \notin S => starts'[j] = starts[j] /\ (starting'[j] = "no" <=> starting[j] = "no"),
         starting'[j] = "live" => session' # "none",
         store[j] = "running" /\ j \notin S => session' # "none",
         byHand \subseteq byHand', excused \subseteq excused',
         end = "cancelled" => S \subseteq byHand'
  PROVE  JobOK(status, store, j)' /\ told'[j] \in 0 .. 1
<1> DEFINE writer == Writer(j, session)
<1>0. writer # "no"
  BY OwnerTypes DEF Inv, TypeOK
<1>1. /\ status'[j] = IF j \in S THEN end ELSE status[j]
      /\ store'[j] = IF j \in S THEN "settled" ELSE store[j]
      /\ told'[j] = IF j \in S /\ end # "cancelled" /\ binding[j] = "view"
                    THEN told[j] + 1 ELSE told[j]
      /\ j \in strayed' <=> j \in strayed
                             \/ (j \in S /\ end # "cancelled" /\ binding[j] = "transport")
      /\ writing'[j] = IF j \in S /\ j \notin bound THEN writer
                       ELSE IF j \in S /\ end = "cancelled" THEN binding[j] ELSE writing[j]
      /\ binding'[j] = IF j \in S THEN "no" ELSE binding[j]
      /\ j \in bound' <=> j \in bound /\ j \notin S
  BY DEF Settle, Among, EntriesSettled, Told, Inv, TypeOK
<1> HIDE DEF writer
<1>2. JobOK(status, store, j) /\ told[j] \in 0 .. 1 /\ binding[j] \in Owners
  BY DEF Inv, Ready, TypeOK
<1>3. CASE j \in S
  <2>1. status[j] = "running"
    BY <1>3 DEF RunningJobs
  <2>2. CASE end = "cancelled"
    BY <1>0, <1>1, <1>2, <1>3, <2>1, <2>2
       DEF JobOK, Open, Unbegun, Ended, EndStates, Pending, PendingStates
  <2>3. CASE end # "cancelled"
    BY <1>0, <1>1, <1>2, <1>3, <2>1, <2>3
       DEF JobOK, Open, Unbegun, Ended, EndStates, Pending, PendingStates, Owners
  <2> QED BY <2>2, <2>3
<1>4. CASE j \notin S
  BY <1>1, <1>2, <1>4 DEF JobOK, Open, Unbegun, Ended, EndStates, Pending, PendingStates
<1> QED BY <1>3, <1>4

LEMMA SettleTypes ==
  ASSUME Inv, NEW S \in SUBSET RunningJobs, NEW end \in EndStates, Settle(S, end),
         \A j \in Jobs : told'[j] \in 0 .. 1
  PROVE  /\ status' \in [Jobs -> Statuses] /\ disk' = status'
         /\ store' \in [Jobs -> Entries]
         /\ bound' \subseteq Jobs /\ binding' \in [Jobs -> Owners] /\ strayed' \subseteq Jobs
         /\ writing' \in [Jobs -> Writers] /\ told' \in [Jobs -> 0 .. 1]
<1>1. TypeOK
  BY DEF Inv
<1>2. told' \in [Jobs -> 0 .. 1]
  BY DEF Settle, Told
<1>3. writing' \in [Jobs -> Writers]
  <2>1. \A j \in Jobs : Writer(j, session) \in Writers
    BY <1>1, OwnerTypes DEF TypeOK
  <2>2. \A j \in Jobs : binding[j] \in Writers /\ writing[j] \in Writers
    BY <1>1 DEF TypeOK, Writers
  <2>3. ASSUME NEW j \in Jobs PROVE writing'[j] \in {Writer(j, session), binding[j], writing[j]}
    BY DEF Settle
  <2>4. writing' = [j \in Jobs |-> writing'[j]]
    BY DEF Settle
  <2> QED BY <2>1, <2>2, <2>3, <2>4
<1>4. disk' = status' /\ status' \in [Jobs -> Statuses] /\ store' \in [Jobs -> Entries]
  BY <1>1 DEF TypeOK, Settle, Among, EntriesSettled, Entries, Statuses
<1>5. bound' \subseteq Jobs /\ binding' \in [Jobs -> Owners]
  BY <1>1 DEF TypeOK, Settle, Among, Owners
<1>6. strayed' \subseteq Jobs
  BY <1>1 DEF TypeOK, Settle, RunningJobs
<1> QED BY <1>2, <1>3, <1>4, <1>5, <1>6

(* The steps that settle a running job                                     *)
LEMMA ExecEndsInv == ASSUME Inv, NEW j \in Jobs, ExecEnds(j) PROVE Inv'
<1>1. PICK end \in {"completed", "failed"} : Settle({j}, end)
  BY DEF ExecEnds
<1>2. /\ up /\ up' /\ store[j] = "running"
      /\ UNCHANGED <<age, at, starting, starts, quits, session, caller, stopped, byHand, excused>>
  BY DEF ExecEnds, worldVars, ghostVars
<1>3. \A i \in Jobs : JobOK(status, store, i)
  BY <1>2 DEF Inv, Ready
<1>4. {j} \in SUBSET RunningJobs /\ end \in EndStates /\ end # "cancelled"
  BY <1>1, <1>2, <1>3 DEF JobOK, RunningJobs, EndStates
<1>5. ASSUME NEW i \in Jobs PROVE JobOK(status, store, i)' /\ told'[i] \in 0 .. 1
  <2>1. /\ starting'[i] # "no" => starts'[i] = 0
        /\ starting'[i] = "live" => session' # "none"
        /\ store[i] = "running" => session' # "none"
    BY <1>2, <1>3 DEF JobOK
  <2> QED BY <1>1, <1>2, <1>4, <2>1, SettleJob
<1>6. TypeOK' /\ Ready(status, store)' /\ disk' = status'
  BY <1>1, <1>2, <1>4, <1>5, SettleTypes DEF Inv, TypeOK, Ready, Entries
<1> QED BY <1>2, <1>6 DEF Inv

LEMMA StartFailsInv == ASSUME Inv, NEW j \in Jobs, StartFails(j) PROVE Inv'
<1>1. /\ up /\ up' /\ starting[j] # "no"
      /\ starting' = [starting EXCEPT ![j] = "no"]
      /\ starts' \in {starts, [starts EXCEPT ![j] = @ + 1]}
      /\ UNCHANGED <<age, at, quits, session, caller, stopped, byHand, excused>>
  BY DEF StartFails, worldVars, ghostVars
<1>2. TypeOK /\ disk = status /\ \A i \in Jobs : JobOK(status, store, i)
  BY <1>1 DEF Inv, Ready
<1>3. starts[j] = 0
  BY <1>1, <1>2 DEF JobOK
<1>4. starts' \in [Jobs -> 0 .. 1] /\ starting' \in [Jobs -> {"no", "live", "stale"}]
  BY <1>1, <1>2, <1>3 DEF TypeOK
<1>5. /\ starting'[j] = "no"
      /\ \A i \in Jobs \ {j} : starting'[i] = starting[i] /\ starts'[i] = starts[i]
  BY <1>1, <1>2 DEF TypeOK
<1>6. CASE store[j] = "scheduled"
  <2>1. Settle({j}, "failed") /\ {j} \in SUBSET RunningJobs /\ "failed" \in EndStates
    BY <1>1, <1>2, <1>6 DEF StartFails, JobOK, Unbegun, RunningJobs, EndStates
  <2>2. ASSUME NEW i \in Jobs PROVE JobOK(status, store, i)' /\ told'[i] \in 0 .. 1
    <3>1. /\ starting'[i] # "no" => starting[i] # "no" /\ starts'[i] = 0
          /\ i \notin {j} => starts'[i] = starts[i] /\ (starting'[i] = "no" <=> starting[i] = "no")
          /\ starting'[i] = "live" => session' # "none"
          /\ store[i] = "running" => session' # "none"
      BY <1>1, <1>2, <1>5 DEF JobOK
    <3> QED BY <1>1, <2>1, <3>1, SettleJob
  <2>3. TypeOK' /\ Ready(status, store)' /\ disk' = status'
    BY <1>1, <1>2, <1>4, <2>1, <2>2, SettleTypes DEF TypeOK, Ready, Entries
  <2> QED BY <1>1, <2>3 DEF Inv
<1>7. CASE store[j] # "scheduled"
  <2>1. UNCHANGED <<status, disk, store, bound, binding, writing, told, strayed>>
    BY <1>7 DEF StartFails, recordVars, deliveryVars
  <2>2. ~Unbegun(status[j]) /\ status[j] # "running"
    BY <1>1, <1>2, <1>7 DEF JobOK
  <2>3. ASSUME NEW i \in Jobs PROVE JobOK(status, store, i)'
    BY <1>1, <1>2, <1>5, <2>1, <2>2, <2>3 DEF JobOK, Unbegun
  <2>4. TypeOK' /\ Ready(status, store)' /\ disk' = status'
    BY <1>1, <1>2, <1>4, <2>1, <2>3 DEF TypeOK, Inv, Ready
  <2> QED BY <1>1, <2>4 DEF Inv
<1> QED BY <1>6, <1>7

LEMMA CancelRunningInv == ASSUME Inv, NEW j \in Jobs, CancelRunning(j) PROVE Inv'
<1>1. /\ up /\ up' /\ status[j] = "running" /\ Settle({j}, "cancelled")
      /\ byHand' = byHand \cup {j}
      /\ UNCHANGED <<age, at, starting, starts, quits, session, caller, stopped, excused>>
  BY DEF CancelRunning, worldVars
<1>2. TypeOK /\ \A i \in Jobs : JobOK(status, store, i)
  BY <1>1 DEF Inv, Ready
<1>3. {j} \in SUBSET RunningJobs /\ "cancelled" \in EndStates
  BY <1>1 DEF RunningJobs, EndStates
<1>4. ASSUME NEW i \in Jobs PROVE JobOK(status, store, i)' /\ told'[i] \in 0 .. 1
  <2>1. /\ starting'[i] # "no" => starts'[i] = 0
        /\ starting'[i] = "live" => session' # "none"
        /\ store[i] = "running" => session' # "none"
    BY <1>1, <1>2 DEF JobOK
  <2> QED BY <1>1, <1>3, <2>1, SettleJob
<1>5. TypeOK' /\ Ready(status, store)' /\ disk' = status'
  BY <1>1, <1>2, <1>3, <1>4, SettleTypes DEF TypeOK, Ready, Entries
<1> QED BY <1>1, <1>5 DEF Inv

LEMMA SessionDropsInv == ASSUME Inv, SessionDrops PROVE Inv'
<1> DEFINE lost == {j \in Jobs : store[j] = "running"}
<1>1. /\ up /\ up' /\ Settle(lost, "cancelled")
      /\ byHand' = byHand \cup lost
      /\ starting' = [j \in Jobs |-> IF starting[j] = "live" THEN "stale" ELSE starting[j]]
      /\ at' = [j \in Jobs |-> IF at[j] = "transport" THEN "none" ELSE at[j]]
      /\ session' = "none"
      /\ UNCHANGED <<age, starts, quits, caller, stopped, excused>>
  BY DEF SessionDrops
<1>2. TypeOK /\ \A i \in Jobs : JobOK(status, store, i)
  BY <1>1 DEF Inv, Ready
<1>3. lost \in SUBSET RunningJobs /\ "cancelled" \in EndStates
  BY <1>2 DEF JobOK, RunningJobs, EndStates
<1>4. ASSUME NEW i \in Jobs PROVE JobOK(status, store, i)' /\ told'[i] \in 0 .. 1
  <2>1. /\ starting'[i] # "no" => starting[i] # "no" /\ starts'[i] = 0
        /\ starting'[i] # "live"
        /\ starting'[i] = "no" <=> starting[i] = "no"
        /\ store[i] = "running" => i \in lost
    BY <1>1, <1>2 DEF JobOK, TypeOK
  <2> HIDE DEF lost
  <2> QED BY <1>1, <1>3, <2>1, SettleJob
<1>5. /\ lost \subseteq Jobs /\ starting' \in [Jobs -> {"no", "live", "stale"}]
      /\ at' \in [Jobs -> Sessions] /\ session' \in Sessions
  BY <1>1, <1>2 DEF TypeOK, Sessions
<1> HIDE DEF lost
<1>6. TypeOK' /\ Ready(status, store)' /\ disk' = status'
  BY <1>1, <1>2, <1>3, <1>4, <1>5, SettleTypes DEF TypeOK, Ready, Entries
<1> QED BY <1>1, <1>6 DEF Inv

(* The steps of one job that settle nothing that runs                      *)
LEMMA ScheduleInv == ASSUME Inv, NEW j \in Jobs, Schedule(j) PROVE Inv'
<1>1. /\ up /\ up' /\ status[j] = "absent"
      /\ status' = [status EXCEPT ![j] = "scheduled"] /\ disk' = status'
      /\ at' = [at EXCEPT ![j] = session]
      /\ store' = [store EXCEPT ![j] = "scheduled"] /\ binding' = [binding EXCEPT ![j] = "view"]
      /\ UNCHANGED <<age, starting, starts, bound, writing, told, strayed, quits, session, caller,
                     stopped, byHand, excused>>
  BY DEF Schedule, worldVars, ghostVars
<1>2. TypeOK /\ \A i \in Jobs : JobOK(status, store, i)
  BY <1>1 DEF Inv, Ready
<1>3. TypeOK' /\ store' \in [Jobs -> Entries]
  BY <1>1, <1>2 DEF TypeOK, Statuses, PendingStates, Owners, Entries
<1>4. ASSUME NEW i \in Jobs PROVE JobOK(status, store, i)'
  BY <1>1, <1>2, <1>4 DEF TypeOK, JobOK, Open, Unbegun, Ended, EndStates, Pending, PendingStates
<1> QED BY <1>1, <1>3, <1>4 DEF Inv, Ready, TypeOK

LEMMA StartAnswersInv == ASSUME Inv, NEW j \in Jobs, StartAnswers(j) PROVE Inv'
<1>1. /\ up /\ up' /\ starting[j] = "live"
      /\ starting' = [starting EXCEPT ![j] = "no"]
      /\ starts' = [starts EXCEPT ![j] = @ + 1]
      /\ store' = IF store[j] = "scheduled" THEN [store EXCEPT ![j] = "running"] ELSE store
      /\ UNCHANGED <<status, disk, age, at, bound, binding, writing, told, strayed, quits, session,
                     caller, stopped, byHand, excused>>
  BY DEF StartAnswers, recordVars, deliveryVars, worldVars, ghostVars
<1>2. TypeOK /\ disk = status /\ \A i \in Jobs : JobOK(status, store, i)
  BY <1>1 DEF Inv, Ready
<1>3. starts[j] = 0
  BY <1>1, <1>2 DEF JobOK
<1>4. TypeOK' /\ store' \in [Jobs -> Entries]
  <2>1. starts' \in [Jobs -> 0 .. 1]
    BY <1>1, <1>2, <1>3 DEF TypeOK
  <2> QED BY <1>1, <1>2, <2>1 DEF TypeOK, Entries
<1>5. ASSUME NEW i \in Jobs PROVE JobOK(status, store, i)'
  BY <1>1, <1>2, <1>5 DEF TypeOK, JobOK, Open, Unbegun, Ended, Pending, PendingStates
<1> QED BY <1>1, <1>2, <1>4, <1>5 DEF Inv, Ready, TypeOK

LEMMA CancelPendingInv == ASSUME Inv, NEW j \in Jobs, CancelPending(j) PROVE Inv'
<1> DEFINE keeper == IF Owner(j, session) = "no" THEN Writer(j, session) ELSE Owner(j, session)
<1>1. /\ up /\ up' /\ Pending(status[j])
      /\ status' = [status EXCEPT ![j] = "cancelled"] /\ disk' = status'
      /\ store' = [i \in Jobs |-> IF i = j THEN "settled" ELSE store[i]]
      /\ writing' = [writing EXCEPT ![j] = keeper]
      /\ binding' = [binding EXCEPT ![j] = "no"] /\ byHand' = byHand \cup {j}
      /\ UNCHANGED <<age, at, starting, starts, bound, told, strayed, quits, session, caller,
                     stopped, excused>>
  BY DEF CancelPending, Cancellable, ScheduledJobs, EntriesSettled, Among, worldVars
<1>2. TypeOK /\ \A i \in Jobs : JobOK(status, store, i)
  BY <1>1 DEF Inv, Ready
<1>3. keeper \in Writers /\ keeper # "no"
  <2>1. Owner(j, session) \in Owners /\ Writer(j, session) \in Writers /\ Writer(j, session) # "no"
    BY <1>2, OwnerTypes DEF TypeOK
  <2> QED BY <2>1 DEF Writers
<1> HIDE DEF keeper
<1>4. ASSUME NEW i \in Jobs PROVE JobOK(status, store, i)'
  BY <1>1, <1>2, <1>3, <1>4
     DEF TypeOK, JobOK, Open, Unbegun, Ended, EndStates, Pending, PendingStates
<1>5. TypeOK' /\ store' \in [Jobs -> Entries]
  BY <1>1, <1>2, <1>3 DEF TypeOK, Statuses, EndStates, Owners, Entries
<1> QED BY <1>1, <1>4, <1>5 DEF Inv, Ready, TypeOK

LEMMA ResultWrittenInv == ASSUME Inv, NEW j \in Jobs, ResultWritten(j) PROVE Inv'
<1> DEFINE dropped == writing[j] = "view" /\ stopped
<1>1. /\ up /\ up' /\ writing[j] # "no"
      /\ writing' = [writing EXCEPT ![j] = "no"]
      /\ told' = [i \in Jobs |-> IF i = j /\ ~dropped THEN told[i] + 1 ELSE told[i]]
      /\ excused' = IF dropped THEN excused \cup {j} ELSE excused
      /\ UNCHANGED <<status, disk, age, at, store, starting, starts, bound, binding, strayed, quits,
                     session, caller, stopped, byHand>>
  BY DEF ResultWritten, Told, recordVars, runtimeVars, worldVars
<1>2. TypeOK /\ disk = status /\ Ready(status, store)
  BY <1>1 DEF Inv
<1>3. ASSUME NEW i \in Jobs PROVE JobOK(status, store, i)' /\ told'[i] \in 0 .. 1
  <2>1. JobOK(status, store, i)
    BY <1>2 DEF Ready
  <2> QED BY <1>1, <1>2, <2>1 DEF TypeOK, JobOK
<1>4. TypeOK'
  <2>1. told' \in [Jobs -> 0 .. 1]
    BY <1>1, <1>3
  <2> QED BY <1>1, <1>2, <2>1 DEF TypeOK, Writers, Owners
<1> QED BY <1>1, <1>2, <1>3, <1>4 DEF Inv, Ready

LEMMA TimePassesInv == ASSUME Inv, NEW j \in Jobs, TimePasses(j) PROVE Inv'
<1>1. /\ age' = [age EXCEPT ![j] = IF @ = "early" THEN "due" ELSE "late"]
      /\ UNCHANGED <<status, disk, at, store, starting, starts, bound, binding, writing, told,
                     strayed, up, quits, session, caller, stopped, byHand, excused>>
  BY DEF TimePasses, recordVars, runtimeVars, deliveryVars, worldVars, ghostVars
<1>2. TypeOK'
  BY <1>1 DEF Inv, TypeOK
<1>3. ASSUME NEW i \in Jobs PROVE /\ JobOK(status, store, i) => JobOK(status, store, i)'
                                  /\ Kept(i) => Kept(i)'
  BY <1>1 DEF JobOK, Kept, Open, Unbegun, Ended, Pending
<1> QED BY <1>1, <1>2, <1>3 DEF Inv, Ready

(* The steps of the world: the sessions, the window and its user           *)
LEMMA SessionOpensInv == ASSUME Inv, NEW kind \in Sessions, SessionOpens(kind) PROVE Inv'
<1>1. /\ up /\ up' /\ session = "none" /\ session' \in Sessions /\ Tick(status, store)
      /\ UNCHANGED <<age, starts, quits, caller, stopped, ghostVars>>
  BY DEF SessionOpens
<1> QED BY <1>1, TickInv DEF Inv

LEMMA UserInv == ASSUME Inv, HumanRun \/ Stop PROVE Inv'
<1>1. CASE HumanRun
  <2>1. /\ up /\ up' /\ caller' \in BOOLEAN /\ stopped' \in BOOLEAN
        /\ UNCHANGED <<status, disk, age, at, store, starting, starts, bound, binding, writing,
                       told, strayed, quits, session, byHand, excused>>
    BY <1>1 DEF HumanRun, recordVars, runtimeVars, deliveryVars, ghostVars
  <2>2. ASSUME NEW i \in Jobs PROVE JobOK(status, store, i)'
    BY <2>1 DEF Inv, Ready, JobOK, Open, Unbegun, Ended, Pending
  <2> QED BY <2>1, <2>2 DEF Inv, Ready, TypeOK
<1>2. CASE Stop
  <2> DEFINE dropped == {j \in Jobs : binding[j] = "view"}
  <2>1. /\ up /\ up' /\ stopped' \in BOOLEAN
        /\ binding' = [j \in Jobs |-> IF j \in dropped THEN "no" ELSE binding[j]]
        /\ excused' = excused \cup (dropped \cap RunningJobs)
        /\ UNCHANGED <<status, disk, age, at, store, starting, starts, bound, writing, told,
                       strayed, quits, session, caller, byHand>>
    BY <1>2 DEF Stop, Among, recordVars, runtimeVars
  <2>2. ASSUME NEW i \in Jobs PROVE JobOK(status, store, i)'
    <3>1. JobOK(status, store, i)
      BY <2>1 DEF Inv, Ready
    <3> QED BY <2>1, <3>1 DEF JobOK, Open, Unbegun, Ended, Pending, RunningJobs
  <2>3. binding' \in [Jobs -> Owners] /\ excused' \subseteq Jobs
    BY <2>1 DEF Inv, TypeOK, Owners, RunningJobs
  <2> QED BY <2>1, <2>2, <2>3 DEF Inv, Ready, TypeOK
<1> QED BY <1>1, <1>2

(* A window takes the bindings, the results it was writing and its         *)
(* sessions with it.                                                       *)
LEMMA WindowClosesInv == ASSUME Inv, WindowCloses PROVE Inv'
<1> DEFINE lost == {j \in Jobs : store[j] = "running"}
           doomed == {j \in Jobs : writing[j] \in {"view", "transport"}}
<1>1. /\ up /\ up'
      /\ status' = [j \in Jobs |-> IF j \in lost THEN "cancelled" ELSE status[j]]
      /\ disk' = status'
      /\ store' = [j \in Jobs |-> IF j \in lost THEN "settled" ELSE store[j]]
      /\ bound' = bound \ lost
      /\ writing' = [j \in Jobs |-> IF j \in doomed THEN "no"
                                    ELSE IF j \in lost \ bound THEN "nobody" ELSE writing[j]]
      /\ byHand' = byHand \cup lost
      /\ excused' = excused \cup doomed \cup (RunningJobs \cap bound)
      /\ starting' = [j \in Jobs |-> IF starting[j] = "live" THEN "stale" ELSE starting[j]]
      /\ at' = [j \in Jobs |-> "none"] /\ binding' = [j \in Jobs |-> "no"]
      /\ caller' = FALSE /\ stopped' = FALSE /\ session' = "none"
      /\ UNCHANGED <<age, starts, told, strayed, quits>>
  BY DEF WindowCloses, EntriesSettled, Among
<1>2. TypeOK /\ \A i \in Jobs : JobOK(status, store, i)
  BY <1>1 DEF Inv, Ready
<1>3. ASSUME NEW i \in Jobs PROVE JobOK(status, store, i)'
  <2>1. /\ status'[i] = IF store[i] = "running" THEN "cancelled" ELSE status[i]
        /\ store'[i] = IF store[i] = "running" THEN "settled" ELSE store[i]
        /\ writing'[i] = IF writing[i] \in {"view", "transport"} THEN "no"
                         ELSE IF store[i] = "running" /\ i \notin bound THEN "nobody"
                         ELSE writing[i]
        /\ starting'[i] = IF starting[i] = "live" THEN "stale" ELSE starting[i]
        /\ i \in bound' <=> i \in bound /\ store[i] # "running"
        /\ binding'[i] = "no"
        /\ store[i] = "running" => i \in byHand'
        /\ i \in byHand => i \in byHand'
        /\ i \in excused => i \in excused'
        /\ writing[i] \in {"view", "transport"} => i \in excused'
        /\ status[i] = "running" /\ i \in bound => i \in excused'
    BY <1>1 DEF RunningJobs
  <2>2. /\ JobOK(status, store, i) /\ starts'[i] = starts[i] /\ told'[i] = told[i]
        /\ strayed' = strayed /\ session' = "none"
    BY <1>1, <1>2
  <2>3. CASE store[i] = "running"
    BY <2>1, <2>2, <2>3 DEF JobOK, Open, Unbegun, Ended, EndStates, Pending, PendingStates
  <2>4. CASE store[i] # "running"
    BY <2>1, <2>2, <2>4 DEF JobOK, Open, Unbegun, Ended, EndStates, Pending, PendingStates
  <2> QED BY <2>3, <2>4
<1>4. /\ status' \in [Jobs -> Statuses] /\ store' \in [Jobs -> Entries]
      /\ starting' \in [Jobs -> {"no", "live", "stale"}]
  BY <1>1, <1>2 DEF TypeOK, Statuses, EndStates, Entries
<1>5. /\ writing' \in [Jobs -> Writers] /\ binding' \in [Jobs -> Owners]
      /\ at' \in [Jobs -> Sessions] /\ session' \in Sessions
      /\ bound' \subseteq Jobs /\ byHand' \subseteq Jobs /\ excused' \subseteq Jobs
  BY <1>1, <1>2 DEF TypeOK, Writers, Owners, Sessions, RunningJobs
<1>6. TypeOK'
  BY <1>1, <1>2, <1>4, <1>5 DEF TypeOK, Entries
<1> QED BY <1>1, <1>3, <1>4, <1>6 DEF Inv, Ready

(* What the application leaves on disk fits what it did, whatever was      *)
(* under way: D is the snapshot that is left.                              *)
LEMMA MemoryIsGoneInv ==
  ASSUME Inv, MemoryIsGone, disk' \in [Jobs -> Statuses],
         \A j \in Jobs : disk'[j] = disk[j] \/ (disk'[j] = "failed" /\ status[j] = "running")
  PROVE  Inv'
<1>1. /\ up /\ up' = FALSE /\ quits < MaxQuits /\ quits' = quits + 1
      /\ status' = [j \in Jobs |-> "absent"] /\ store' = [j \in Jobs |-> "absent"]
      /\ starting' = [j \in Jobs |-> "no"] /\ writing' = [j \in Jobs |-> "no"]
      /\ at' = [j \in Jobs |-> "none"] /\ bound' = {} /\ binding' = [j \in Jobs |-> "no"]
      /\ session' = "none" /\ caller' = FALSE /\ stopped' = FALSE
      /\ UNCHANGED <<age, byHand, strayed>>
  BY DEF MemoryIsGone
<1>2. TypeOK /\ disk = status /\ \A i \in Jobs : JobOK(status, store, i)
  BY <1>1 DEF Inv, Ready
<1>3. PICK begun \in SUBSET {j \in Jobs : starting[j] # "no"} :
        starts' = [j \in Jobs |-> IF j \in begun THEN starts[j] + 1 ELSE starts[j]]
  BY DEF MemoryIsGone
<1>4. PICK written \in SUBSET {j \in Jobs : writing[j] # "no"} :
        /\ told' = [j \in Jobs |-> IF j \in written THEN told[j] + 1 ELSE told[j]]
        /\ excused' = excused \cup RunningJobs \cup ({j \in Jobs : writing[j] # "no"} \ written)
  BY DEF MemoryIsGone, Told
<1>5. ASSUME NEW i \in Jobs PROVE Kept(i)' /\ told'[i] \in 0 .. 1 /\ starts'[i] \in 0 .. 1
  <2>1. JobOK(status, store, i) /\ told[i] \in 0 .. 1 /\ starts[i] \in 0 .. 1 /\ status[i] \in Statuses
    BY <1>2 DEF TypeOK
  <2>2. /\ writing'[i] = "no" /\ starting'[i] = "no" /\ i \notin bound' /\ binding'[i] = "no"
        /\ byHand' = byHand /\ strayed' = strayed
        /\ starts'[i] = IF i \in begun THEN starts[i] + 1 ELSE starts[i]
        /\ told'[i] = IF i \in written THEN told[i] + 1 ELSE told[i]
        /\ i \in begun => starting[i] # "no"
        /\ i \in written => writing[i] # "no"
        /\ i \in excused \/ status[i] = "running" => i \in excused'
        /\ writing[i] # "no" => i \in written \/ i \in excused'
    BY <1>1, <1>3, <1>4 DEF RunningJobs
  <2>3. disk'[i] = status[i] \/ (disk'[i] = "failed" /\ status[i] = "running")
    BY <1>2
  <2>4. CASE disk'[i] = status[i]
    BY <2>1, <2>2, <2>4 DEF JobOK, Kept, Open, Unbegun, Ended, Pending, Statuses
  <2>5. CASE disk'[i] = "failed" /\ status[i] = "running"
    BY <2>1, <2>2, <2>5 DEF JobOK, Kept, Open, Unbegun, Pending, PendingStates
  <2> QED BY <2>3, <2>4, <2>5
<1>6. starts' \in [Jobs -> 0 .. 1] /\ told' \in [Jobs -> 0 .. 1] /\ excused' \subseteq Jobs
  BY <1>2, <1>3, <1>4, <1>5 DEF TypeOK, RunningJobs
<1>7. quits' \in 0 .. MaxQuits
  BY <1>1, <1>2, ConstantsAssumption DEF TypeOK
<1>8. TypeOK'
  BY <1>1, <1>2, <1>6, <1>7 DEF TypeOK, Statuses, Sessions, Owners, Writers
<1> QED BY <1>1, <1>5, <1>8 DEF Inv

(* The clock is disposed of before the runtime, so that the cancellations  *)
(* of the job store find no record that they could cancel.                 *)
LEMMA NothingCancelled == Cancellable(DisposedBefore("runtime")) = {}
<1>1. "clock" \in DOMAIN StopTurn /\ StopTurn["clock"] < StopTurn["runtime"]
  BY DEF StopTurn
<1> QED BY <1>1 DEF DisposedBefore, Cancellable

(* Quitting and crashing leave what the start recovers.                    *)
LEMMA QuitInv == ASSUME Inv, Quit \/ Crash PROVE Inv'
<1>1. MemoryIsGone
  BY DEF Quit, Crash
<1>2. TypeOK
  BY DEF Inv
<1>3. CASE Crash
  BY <1>1, <1>2, <1>3, MemoryIsGoneInv DEF Crash, TypeOK
<1>4. CASE Quit
  <2>1. PICK failed \in SUBSET {j \in RunningJobs : starting[j] # "no"} :
          disk' = Among(failed, Among({}, disk, "cancelled"), "failed")
    BY <1>4, NothingCancelled DEF Quit
  <2>2. disk' = [j \in Jobs |-> IF j \in failed THEN "failed" ELSE disk[j]]
    BY <2>1 DEF Among
  <2>3. failed \subseteq RunningJobs
    BY <2>1
  <2>4. disk' \in [Jobs -> Statuses]
    BY <1>2, <2>2 DEF TypeOK, Statuses, EndStates
  <2>5. \A j \in Jobs : disk'[j] = disk[j] \/ (disk'[j] = "failed" /\ status[j] = "running")
    BY <2>2, <2>3 DEF RunningJobs
  <2> QED BY <1>1, <2>4, <2>5, MemoryIsGoneInv
<1> QED BY <1>3, <1>4

LEMMA RestartInv == ASSUME Inv, Restart PROVE Inv'
<1> DEFINE s == [j \in Jobs |-> Recover(disk[j])]
           e == [j \in Jobs |-> IF Pending(s[j]) THEN "scheduled" ELSE "absent"]
<1>1. /\ ~up /\ up' /\ Tick(s, e)
      /\ UNCHANGED <<age, starts, quits, session, caller, stopped, ghostVars>>
  BY DEF Restart
<1>2. TypeOK /\ \A j \in Jobs : Kept(j)
  BY <1>1 DEF Inv
<1>3. s \in [Jobs -> Statuses] /\ e \in [Jobs -> Entries]
  BY <1>2 DEF TypeOK, Recover, Statuses, EndStates, Entries
<1>4. ASSUME NEW j \in Jobs PROVE JobOK(s, e, j)
  <2>1. /\ s[j] = IF disk[j] = "running" THEN "failed" ELSE disk[j]
        /\ e[j] = IF Pending(s[j]) THEN "scheduled" ELSE "absent"
    BY DEF Recover
  <2>2. Kept(j) /\ disk[j] \in Statuses
    BY <1>2 DEF TypeOK
  <2> HIDE DEF s, e
  <2> QED BY <2>1, <2>2
          DEF JobOK, Kept, Open, Unbegun, Ended, EndStates, Pending, PendingStates, Statuses
<1> HIDE DEF s, e
<1> QED BY <1>1, <1>2, <1>3, <1>4, TickInv DEF Ready, TypeOK

LEMMA StepInv == Inv /\ [Next]_vars => Inv'
<1> SUFFICES ASSUME Inv, [Next]_vars PROVE Inv'
  OBVIOUS
<1>1. ASSUME NEW j \in Jobs, JobStep(j) PROVE Inv'
  BY <1>1, ScheduleInv, TimePassesInv, StartAnswersInv, StartFailsInv, ExecEndsInv,
     CancelPendingInv, CancelRunningInv, ResultWrittenInv DEF JobStep
<1>2. CASE ClockTicks
  BY <1>2, TickInv DEF ClockTicks, Inv, TypeOK, worldVars
<1>3. CASE WorldStep
  BY <1>3, SessionDropsInv, SessionOpensInv, UserInv, WindowClosesInv, QuitInv, RestartInv
     DEF WorldStep, TabConnects, WorkspaceConnects, Sessions
<1>4. CASE UNCHANGED vars
  <2>1. ASSUME NEW i \in Jobs PROVE /\ JobOK(status, store, i) => JobOK(status, store, i)'
                                    /\ Kept(i) => Kept(i)'
    BY <1>4 DEF vars, recordVars, runtimeVars, deliveryVars, worldVars, ghostVars,
               JobOK, Kept, Open, Unbegun, Ended, Pending
  <2> QED BY <1>4, <2>1 DEF Inv, Ready, TypeOK, vars, recordVars, runtimeVars, deliveryVars,
                            worldVars, ghostVars
<1> QED BY <1>1, <1>2, <1>3, <1>4 DEF Next

LEMMA Invariance == Spec => []Inv
  BY InitInv, StepInv, PTL DEF Spec
-----------------------------------------------------------------------------
(* The records, the job store and the deliveries keep their types.         *)
THEOREM DeferredTypes == Spec => []TypeOK
  BY Invariance, PTL DEF Inv

(* No scheduled command is begun twice, whatever quits, crashes, restarts  *)
(* and cancellations come between (AiDeferredJobs.run, the constructor).   *)
THEOREM CommandsBeginOnce == Spec => []BegunOnce
<1>1. Inv => BegunOnce
  BY DEF Inv, TypeOK, BegunOnce
<1> QED BY <1>1, Invariance, PTL

(* The window's background path and the written record exclude each other  *)
(* (settled, settlePending, recordDeferredJobResult).                      *)
THEOREM ResultsToldOnce == Spec => []ToldOnce
<1>1. Inv => ToldOnce
  <2> SUFFICES ASSUME Inv, NEW j \in Jobs
               PROVE told[j] + (IF writing[j] = "no" THEN 0 ELSE 1) <= 1
    BY DEF ToldOnce
  <2>1. told[j] \in 0 .. 1 /\ (told[j] = 0 \/ writing[j] = "no")
    BY DEF Inv, TypeOK, Ready, JobOK, Kept
  <2> QED BY <2>1
<1> QED BY <1>1, Invariance, PTL

(* No end is passed over in silence, but those nobody is to be told.       *)
THEOREM EndsAreTold == Spec => []EndIsTold
<1>1. Inv => EndIsTold
  BY DEF Inv, Ready, JobOK, EndIsTold
<1> QED BY <1>1, Invariance, PTL

(* Records and job store agree on what waits, starts and runs.             *)
THEOREM BooksAgree == Spec => []StoreAgrees
<1>1. Inv => StoreAgrees
  BY DEF Inv, Ready, JobOK, StoreAgrees
<1> QED BY <1>1, Invariance, PTL

(* Quitting and crashing cancel no scheduled command: the clock is disposed *)
(* of before the job store cancels its entries (stop of DeferredServices,  *)
(* AiDeferredJobs.cancel, McpJobStore.dispose).                            *)
THEOREM QuitKeepsJobs == Spec => []CancelledByHand
<1>1. Inv => CancelledByHand
  BY DEF Inv, Ready, JobOK, Kept, CancelledByHand
<1> QED BY <1>1, Invariance, PTL
=============================================================================
