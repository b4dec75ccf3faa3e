--------------------------- MODULE AiDeferredJobs ---------------------------
(***************************************************************************)
(* Commands that the model approves now and schedules for later: the       *)
(* records of AiDeferredJobs and their persisted copy, the entries of the  *)
(* runtime's McpJobStore, the bindings of AiBackgroundJobs that decide by  *)
(* which path a result reaches the conversation, quits, crashes and        *)
(* restarts of the application, and the SSH sessions and the window that   *)
(* come and go.                                                            *)
(*                                                                         *)
(* All jobs belong to one conversation on one host.  A session of the host *)
(* is that of a terminal tab, which shows the conversation, or a transport *)
(* that a LiteAI workspace opened, which no view selects.  Finished        *)
(* records are kept: they are pruned a day later.  Writes to the database  *)
(* succeed.                                                                *)
(***************************************************************************)
EXTENDS Naturals, FiniteSets

CONSTANTS Jobs,          \* calls of schedule, each of another command
          MaxScheduled,  \* MCP_MAX_SCHEDULED_JOBS
          MaxQuits       \* bound on the quits and crashes of a behaviour

ASSUME ConstantsAssumption ==
  /\ IsFiniteSet(Jobs)
  /\ MaxScheduled \in Nat /\ MaxQuits \in Nat

VARIABLES
  status,   \* the record's status in memory
  disk,     \* its status in the persisted snapshot
  age,      \* "early", "due", or "late": past the grace period
  at,       \* the record's session: the tab's, the transport's, or one that is gone
  store,    \* status of the job's entry in the McpJobStore
  starting, \* startScheduledJob is under way: "live" or, its session gone, "stale"
  starts,   \* how often the command was begun on the server
  bound,    \* AiDeferredJobs.bound
  binding,  \* the job's owner in AiBackgroundJobs: the conversation in its
            \* "view", or the window under the id of a "transport"
  writing,  \* for whom the result is being written into the conversation
  told,     \* how often the conversation was given the result
  up,       \* the application runs
  quits,    \* quits and crashes so far
  session,  \* the SSH session of the host that is open, if any
  caller,   \* the window has run the AI, and is there
  stopped,  \* the user stopped the conversation in that window
  byHand,   \* jobs that the user, or the end of their session, cancelled
  excused,  \* jobs whose result nobody is to be told
  strayed   \* jobs whose result was queued where no view selects it

recordVars == <<status, disk>>
runtimeVars == <<store, starting, starts>>
deliveryVars == <<bound, binding, writing, told, strayed>>
worldVars == <<up, quits, session, caller, stopped>>
ghostVars == <<byHand, excused>>
vars == <<recordVars, age, at, runtimeVars, deliveryVars, worldVars, ghostVars>>

PendingStates == {"scheduled", "waiting"}
EndStates == {"completed", "failed", "cancelled", "expired"}
Statuses == {"absent", "running"} \cup PendingStates \cup EndStates
Sessions == {"none", "tab", "transport"}
Owners == {"no", "view", "transport"}
Writers == Owners \cup {"nobody"}

TypeOK ==
  /\ status \in [Jobs -> Statuses] /\ disk \in [Jobs -> Statuses]
  /\ age \in [Jobs -> {"early", "due", "late"}] /\ at \in [Jobs -> Sessions]
  /\ store \in [Jobs -> {"absent", "scheduled", "running", "settled"}]
  /\ starting \in [Jobs -> {"no", "live", "stale"}]
  /\ starts \in [Jobs -> 0 .. 1]
  /\ bound \subseteq Jobs
  /\ binding \in [Jobs -> Owners] /\ writing \in [Jobs -> Writers]
  /\ told \in [Jobs -> 0 .. 1]
  /\ up \in BOOLEAN /\ quits \in 0 .. MaxQuits
  /\ session \in Sessions /\ caller \in BOOLEAN /\ stopped \in BOOLEAN
  /\ byHand \subseteq Jobs /\ excused \subseteq Jobs /\ strayed \subseteq Jobs

Init ==
  /\ status = [j \in Jobs |-> "absent"] /\ disk = status
  /\ age = [j \in Jobs |-> "early"] /\ at = [j \in Jobs |-> "none"]
  /\ store = [j \in Jobs |-> "absent"]
  /\ starting = [j \in Jobs |-> "no"] /\ starts = [j \in Jobs |-> 0]
  /\ bound = {} /\ binding = [j \in Jobs |-> "no"]
  /\ writing = [j \in Jobs |-> "no"] /\ told = [j \in Jobs |-> 0]
  /\ up = TRUE /\ quits = 0
  /\ session = "tab" /\ caller = TRUE /\ stopped = FALSE
  /\ byHand = {} /\ excused = {} /\ strayed = {}
-----------------------------------------------------------------------------
(* Faulty variants of definitions below, each a bug this code could have.  *)
StillScheduled(s) == IF s = "running" THEN "scheduled" ELSE s   \* run it again
NeverBound(S) == bound                \* run forgets that the window will tell
AlwaysBound(S) == bound \cup S        \* run expects a window that is not there
KeptEntry(S) == store                 \* the store does not hear of a settlement
RuntimeFirst == [clock |-> 2, runtime |-> 1]   \* stop disposes in the other order
NoGrace(s) == FALSE                   \* nothing ever expires
-----------------------------------------------------------------------------
Pending(s) == s \in PendingStates
Ended(s) == s \in EndStates
ScheduledJobs == {j \in Jobs : Pending(status[j])}
RunningJobs == {j \in Jobs : status[j] = "running"}
Among(S, f, v) == [j \in Jobs |-> IF j \in S THEN v ELSE f[j]]
Told(S) == [j \in Jobs |-> IF j \in S THEN told[j] + 1 ELSE told[j]]

(* getSessionOwner of the record's session, when session here is open: the *)
(* window owns it, and nobody owns one that is gone                        *)
Where(j, here) == IF at[j] = here THEN here ELSE "none"

(* bindDeferredJob for a job on that session: its owner in AiBackgroundJobs *)
(* from then on                                                            *)
Rebound(j, here) ==
  CASE ~caller -> "no"
    [] caller /\ here = "none" -> binding[j]
    [] caller /\ here = "tab" -> IF stopped THEN "no" ELSE "view"
    [] caller /\ here = "transport" -> "transport"

Owner(j, here) == Rebound(j, Where(j, here))

(* recordDeferredJobResult: whose end keeps the result from being written  *)
Writer(j, here) ==
  CASE Where(j, here) = "none" -> "nobody"
    [] Where(j, here) = "tab" -> "view"
    [] Where(j, here) = "transport" -> "transport"

(* finish, for the entries of the jobs in S                                *)
EntriesSettled(S) == Among(S, store, "settled")

(* finish of jobs that run: settled of AiBackgroundJobs queues the results *)
(* of those that have an owner, or records them if they were cancelled,    *)
(* and settled of AiDeferredJobs writes down those that nobody will tell.  *)
Settle(S, end) ==
  LET queued == IF end = "cancelled" THEN {} ELSE S
      recorded == S \ queued
  IN /\ status' = Among(S, status, end) /\ disk' = status'
     /\ store' = EntriesSettled(S)
     /\ told' = Told({j \in queued : binding[j] = "view"})
     /\ strayed' = strayed \cup {j \in queued : binding[j] = "transport"}
     /\ writing' = [j \in Jobs |-> IF j \in S \ bound THEN Writer(j, session)
                                   ELSE IF j \in recorded THEN binding[j] ELSE writing[j]]
     /\ binding' = Among(S, binding, "no")
     /\ bound' = bound \ S

(* run: the jobs whose result a window will tell                           *)
BoundBy(S) == bound \cup {j \in S : Rebound(j, session') # "no"}

PastGrace(s) == s = "late"

(* tick, from records s and entries e: expire, wait for a connection, run  *)
Tick(s, e) ==
  LET due == {j \in Jobs : Pending(s[j]) /\ age[j] # "early"}
      late == {j \in due : PastGrace(age[j])}
      runs == IF session' # "none" THEN due \ late ELSE {}
      waits == (due \ late) \ runs
  IN /\ status' = [j \in Jobs |-> IF j \in late THEN "expired"
                                  ELSE IF j \in runs THEN "running"
                                  ELSE IF j \in waits THEN "waiting" ELSE s[j]]
     /\ disk' = status'
     /\ store' = Among(late, e, "settled")
     /\ starting' = Among(runs, starting, "live")
     /\ told' = Told({j \in late : Owner(j, session') = "view"})
     /\ strayed' = strayed \cup {j \in late : Owner(j, session') = "transport"}
     /\ writing' = [j \in Jobs |-> IF j \in late /\ Owner(j, session') = "no"
                                   THEN Writer(j, session') ELSE writing[j]]
     /\ binding' = [j \in Jobs |-> IF j \in late THEN "no"
                                   ELSE IF j \in runs THEN Rebound(j, session')
                                   ELSE binding[j]]
     /\ bound' = BoundBy(runs)
     /\ at' = Among(runs, at, session')
-----------------------------------------------------------------------------
(* schedule, by the reply that runs in the conversation, and the binding   *)
(* of the job to its caller: onBackgroundJobsStarted follows the return of *)
(* the tool in the same turn of the event loop                             *)
Schedule(j) ==
  /\ up /\ session # "none" /\ caller /\ ~stopped
  /\ status[j] = "absent" /\ Cardinality(ScheduledJobs) < MaxScheduled
  /\ status' = [status EXCEPT ![j] = "scheduled"] /\ disk' = status'
  /\ at' = [at EXCEPT ![j] = session]
  /\ store' = [store EXCEPT ![j] = "scheduled"]
  /\ binding' = [binding EXCEPT ![j] = "view"]
  /\ UNCHANGED <<age, starting, starts, bound, writing, told, strayed, worldVars, ghostVars>>

TimePasses(j) ==
  /\ disk[j] # "absent" /\ age[j] # "late"
  /\ age' = [age EXCEPT ![j] = IF @ = "early" THEN "due" ELSE "late"]
  /\ UNCHANGED <<recordVars, at, runtimeVars, deliveryVars, worldVars, ghostVars>>

(* The clock, every 30 seconds                                             *)
ClockTicks ==
  /\ up
  /\ UNCHANGED <<age, starts, worldVars, ghostVars>>
  /\ Tick(status, store)

(* startScheduledJob after its awaits.  The handle of a job that was       *)
(* cancelled meanwhile is cancelled as well.                               *)
StartAnswers(j) ==
  /\ up /\ starting[j] = "live"
  /\ starting' = [starting EXCEPT ![j] = "no"]
  /\ starts' = [starts EXCEPT ![j] = @ + 1]
  /\ store' = IF store[j] = "scheduled" THEN [store EXCEPT ![j] = "running"] ELSE store
  /\ UNCHANGED <<recordVars, age, at, deliveryVars, worldVars, ghostVars>>

(* It throws, before or after the command was begun: policy, a session     *)
(* that is gone, a channel that does not open.                             *)
StartFails(j) ==
  /\ up /\ starting[j] # "no"
  /\ starting' = [starting EXCEPT ![j] = "no"]
  /\ starts' \in {starts, [starts EXCEPT ![j] = @ + 1]}
  /\ IF store[j] = "scheduled" THEN Settle({j}, "failed")
     ELSE UNCHANGED <<recordVars, store, deliveryVars>>
  /\ UNCHANGED <<age, at, worldVars, ghostVars>>

(* The command ends, fails or times out.                                   *)
ExecEnds(j) ==
  /\ up /\ store[j] = "running"
  /\ \E end \in {"completed", "failed"} : Settle({j}, end)
  /\ UNCHANGED <<age, at, starting, starts, worldVars, ghostVars>>

(* The jobs whose cancel in AiDeferredJobs does something, when the parts  *)
(* of the application in gone have been disposed of                        *)
Cancellable(gone) == IF "clock" \in gone THEN {} ELSE ScheduledJobs

(* cancel_job, or the task panel: McpJobStore.cancel, for a scheduled job  *)
(* with the cancel of its record and settlePending                         *)
CancelPending(j) ==
  /\ up /\ j \in Cancellable({})
  /\ status' = [status EXCEPT ![j] = "cancelled"] /\ disk' = status'
  /\ store' = EntriesSettled({j})
  /\ writing' = [writing EXCEPT ![j] = IF Owner(j, session) = "no" THEN Writer(j, session)
                                       ELSE Owner(j, session)]
  /\ binding' = [binding EXCEPT ![j] = "no"]
  /\ byHand' = byHand \cup {j}
  /\ UNCHANGED <<age, at, starting, starts, bound, told, strayed, worldVars, excused>>

CancelRunning(j) ==
  /\ up /\ status[j] = "running" /\ store[j] \in {"scheduled", "running"}
  /\ Settle({j}, "cancelled")
  /\ byHand' = byHand \cup {j}
  /\ UNCHANGED <<age, at, starting, starts, worldVars, excused>>

(* recordCancelledJob after its awaits: a window that was closed, or whose *)
(* conversation was stopped, keeps no result.                              *)
ResultWritten(j) ==
  LET dropped == writing[j] = "view" /\ stopped IN
    /\ up /\ writing[j] # "no"
    /\ writing' = [writing EXCEPT ![j] = "no"]
    /\ told' = Told(IF dropped THEN {} ELSE {j})
    /\ excused' = IF dropped THEN excused \cup {j} ELSE excused
    /\ UNCHANGED <<recordVars, age, at, runtimeVars, bound, binding, strayed, worldVars, byHand>>
-----------------------------------------------------------------------------
(* The end of the session cancels the commands that run on it.  A tab      *)
(* reconnects under its id, a transport never does.                        *)
SessionDrops ==
  LET lost == {j \in Jobs : store[j] = "running"} IN
    /\ up /\ session # "none"
    /\ Settle(lost, "cancelled")
    /\ byHand' = byHand \cup lost
    /\ starting' = [j \in Jobs |-> IF starting[j] = "live" THEN "stale" ELSE starting[j]]
    /\ at' = [j \in Jobs |-> IF at[j] = "transport" THEN "none" ELSE at[j]]
    /\ session' = "none"
    /\ UNCHANGED <<age, starts, up, quits, caller, stopped, excused>>

(* A tab connects or reconnects, or a LiteAI workspace opens a transport:  *)
(* setSessionOwner calls sessionReady, which ticks.                        *)
SessionOpens(kind) ==
  /\ up /\ session = "none"
  /\ session' = kind
  /\ UNCHANGED <<age, starts, up, quits, caller, stopped, ghostVars>>
  /\ Tick(status, store)

TabConnects == SessionOpens("tab")
WorkspaceConnects == SessionOpens("transport")

(* The user asks the AI, in the window                                     *)
HumanRun ==
  /\ up
  /\ caller' = TRUE /\ stopped' = FALSE
  /\ UNCHANGED <<recordVars, age, at, runtimeVars, deliveryVars, up, quits, session, ghostVars>>

(* suppress: the owners under the conversation's own id are gone.          *)
Stop ==
  LET dropped == {j \in Jobs : binding[j] = "view"} IN
    /\ up /\ caller
    /\ stopped' = TRUE
    /\ binding' = Among(dropped, binding, "no")
    /\ excused' = excused \cup (dropped \cap RunningJobs)
    /\ UNCHANGED <<recordVars, age, at, runtimeVars, bound, writing, told, strayed, up, quits,
                   session, caller, byHand>>

(* The window is destroyed: disposeOwner, then its sessions disconnect.    *)
WindowCloses ==
  LET lost == {j \in Jobs : store[j] = "running"}
      doomed == {j \in Jobs : writing[j] \in {"view", "transport"}}
  IN /\ up /\ caller
     /\ status' = Among(lost, status, "cancelled") /\ disk' = status'
     /\ store' = EntriesSettled(lost)
     /\ bound' = bound \ lost
     /\ writing' = [j \in Jobs |-> IF j \in doomed THEN "no"
                                   ELSE IF j \in lost \ bound THEN "nobody" ELSE writing[j]]
     /\ byHand' = byHand \cup lost
     /\ excused' = excused \cup doomed \cup (RunningJobs \cap bound)
     /\ starting' = [j \in Jobs |-> IF starting[j] = "live" THEN "stale" ELSE starting[j]]
     /\ at' = [j \in Jobs |-> "none"] /\ binding' = [j \in Jobs |-> "no"]
     /\ caller' = FALSE /\ stopped' = FALSE /\ session' = "none"
     /\ UNCHANGED <<age, starts, told, strayed, up, quits>>
-----------------------------------------------------------------------------
(* The application is gone, and what it had in memory.  What it was doing  *)
(* when it was left may have been done: a command begun, a result written. *)
MemoryIsGone ==
  /\ up /\ quits < MaxQuits
  /\ up' = FALSE /\ quits' = quits + 1
  /\ status' = [j \in Jobs |-> "absent"] /\ store' = [j \in Jobs |-> "absent"]
  /\ \E begun \in SUBSET {j \in Jobs : starting[j] # "no"} :
       starts' = [j \in Jobs |-> IF j \in begun THEN starts[j] + 1 ELSE starts[j]]
  /\ LET unwritten == {j \in Jobs : writing[j] # "no"} IN
       \E written \in SUBSET unwritten :
         /\ told' = Told(written)
         /\ excused' = excused \cup RunningJobs \cup (unwritten \ written)
  /\ starting' = [j \in Jobs |-> "no"] /\ writing' = [j \in Jobs |-> "no"]
  /\ at' = [j \in Jobs |-> "none"] /\ bound' = {} /\ binding' = [j \in Jobs |-> "no"]
  /\ session' = "none" /\ caller' = FALSE /\ stopped' = FALSE
  /\ UNCHANGED <<age, byHand, strayed>>

Crash == MemoryIsGone /\ UNCHANGED disk

(* The order in which stop disposes of the parts that know of a job, in    *)
(* one turn of the event loop                                              *)
StopTurn == [clock |-> 1, runtime |-> 2]
DisposedBefore(part) == {p \in DOMAIN StopTurn : StopTurn[p] < StopTurn[part]}

(* stop, and what is awaited after it: the runtime's job store cancels its *)
(* entries, of which the scheduled ones lead back to the records, and a    *)
(* start under way may still fail and be written down.                     *)
Quit ==
  LET cancelled == {j \in Cancellable(DisposedBefore("runtime")) : store[j] = "scheduled"} IN
    /\ MemoryIsGone
    /\ \E failed \in SUBSET {j \in RunningJobs : starting[j] # "no"} :
         disk' = Among(failed, Among(cancelled, disk, "cancelled"), "failed")

(* The constructor: a closed application cannot retain a running command.  *)
Recover(s) == IF s = "running" THEN "failed" ELSE s

(* The constructor, then start with its first tick                         *)
Restart ==
  /\ ~up /\ up' = TRUE
  /\ UNCHANGED <<age, starts, quits, session, caller, stopped, ghostVars>>
  /\ LET s == [j \in Jobs |-> Recover(disk[j])]
     IN Tick(s, [j \in Jobs |-> IF Pending(s[j]) THEN "scheduled" ELSE "absent"])
-----------------------------------------------------------------------------
JobStep(j) ==
  \/ Schedule(j) \/ TimePasses(j) \/ StartAnswers(j) \/ StartFails(j) \/ ExecEnds(j)
  \/ CancelPending(j) \/ CancelRunning(j) \/ ResultWritten(j)

WorldStep ==
  \/ SessionDrops \/ TabConnects \/ WorkspaceConnects
  \/ HumanRun \/ Stop \/ WindowCloses \/ Quit \/ Crash \/ Restart

Next == ClockTicks \/ WorldStep \/ \E j \in Jobs : JobStep(j)

(* Time passes, the clock ticks, awaits end and commands time out.         *)
Fairness ==
  /\ WF_vars(ClockTicks) /\ WF_vars(Restart)
  /\ WF_vars(\E j \in Jobs : TimePasses(j)) /\ WF_vars(\E j \in Jobs : ExecEnds(j))
  /\ WF_vars(\E j \in Jobs : StartAnswers(j) \/ StartFails(j))

Spec == Init /\ [][Next]_vars
FairSpec == Spec /\ Fairness
-----------------------------------------------------------------------------
(* A scheduled command is begun at most once, whatever quits, restarts and *)
(* cancellations come between.                                             *)
BegunOnce == \A j \in Jobs : starts[j] <= 1

(* No result reaches the conversation twice: the window's background path  *)
(* and the written record exclude each other, also after a restart.        *)
ToldOnce == \A j \in Jobs : told[j] + (IF writing[j] = "no" THEN 0 ELSE 1) <= 1

(* Every end is told, unless the application quit, the user stopped the    *)
(* conversation or its window closed while the command ran, or the window  *)
(* was to be told under the id of a transport.                             *)
EndIsTold ==
  up => \A j \in Jobs : Ended(status[j]) =>
          told[j] = 1 \/ writing[j] # "no" \/ j \in excused \cup strayed

(* The two books agree: an entry of the job store can be started only for  *)
(* a record that waits or is starting, and runs only for one that runs.    *)
StoreAgrees ==
  up => \A j \in Jobs :
    /\ store[j] = "scheduled" <=>
         Pending(status[j]) \/ (status[j] = "running" /\ starting[j] # "no")
    /\ store[j] = "running" => status[j] = "running" /\ session # "none"

(* Only the user, or the end of its session, cancels a job.  A quit does   *)
(* not, though the job store cancels all its entries in it: the scheduled  *)
(* commands are there on the next start.                                   *)
CancelledByHand == \A j \in Jobs : disk[j] = "cancelled" => j \in byHand

(* Every scheduled command ends: it runs, expires, fails or is cancelled.  *)
(* (A command is scheduled once, so all that are have ended in the end.)   *)
EveryJobEnds == []<>(\A j \in Jobs : Ended(disk[j]) \/ disk[j] = "absent")

(* The delivery of a cancellation follows the session: while a window owns *)
(* it the window tells, and otherwise it is written into the conversation. *)
WithoutWindowWritten ==
  [][\A j \in Jobs :
       up' /\ status[j] = "running" /\ status'[j] = "cancelled" /\ session' = "none" =>
         writing'[j] # "no" \/ told'[j] > told[j]]_vars
=============================================================================
