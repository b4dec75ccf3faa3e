-------------------------- MODULE AiBackgroundJobs --------------------------
(***************************************************************************)
(* The delivery of background-command results to AI conversations:         *)
(* AiBackgroundJobs and the part of AiExecutionService that it calls.  A   *)
(* result waits in the batch of its conversation until a drain starts a    *)
(* background reply with it, or until a reply that runs already takes it.  *)
(*                                                                         *)
(* Several drains may be under way: each is suspended in the delivery of   *)
(* one history, so a suspended drain is named by that history, and at most *)
(* one drain is inside its synchronous loop (looping).                     *)
(***************************************************************************)
EXTENDS Naturals

CONSTANTS Keys,          \* conversations (owner, session and thread) of a window
          Histories,     \* stored histories
          HistoryOf,     \* the history of a conversation
          Sessions,      \* SSH sessions
          SessionOf,     \* the session of a conversation
          Jobs,          \* background commands
          Conversation,  \* the conversation that launches a job
          ReadsFail,     \* the history read of a delivery may fail
          SessionsDrop,  \* SSH sessions drop and come back
          MaxBatch       \* bound on the batches of a behaviour

ASSUME ConstantsAssumption ==
  /\ Keys # {}
  /\ HistoryOf \in [Keys -> Histories]
  /\ SessionOf \in [Keys -> Sessions]
  /\ Conversation \in [Jobs -> Keys]
  /\ ReadsFail \in BOOLEAN /\ SessionsDrop \in BOOLEAN
  /\ MaxBatch \in Nat

Batches == 1 .. MaxBatch
None == 0
WakeBudget == 3

VARIABLES
  job,        \* the runtime's status of a command
  bound,      \* commands bound to their conversation
  acked,      \* commands whose launch the tool has acknowledged
  used,       \* batches created so far
  batchKey,   \* the conversation of a batch
  batchJobs,  \* the jobs Map of a batch
  pending,    \* the pending batch of a conversation, or None
  suppressed, \* conversations the user stopped
  disposed,   \* the window is gone
  wakes,      \* replies started for a conversation since the last human input
  delivering, \* histories with a delivery under way
  timer,      \* the coalescing timer is armed
  looping,    \* a drain is inside its loop
  rest,       \* the batches that drain has yet to look at
  stage,      \* of the drain suspended in a history: see Stages
  handed,     \* the results that drain handed to deliver
  current,    \* the batch it delivers
  left,       \* the batches it will look at afterwards
  reply,      \* the conversation of the reply that runs in a history
  aborted,    \* histories whose running reply has its abort signal set
  peeked,     \* results a running reply has read, and not yet acknowledged
  connected,  \* SSH sessions that are up
  selected,   \* conversations the user looks at
  told,       \* how often the model was given a result
  owed        \* results queued for a conversation that still wants them

jobVars == <<job, bound, acked>>
batchVars == <<used, batchKey, batchJobs, pending>>
flagVars == <<suppressed, disposed, wakes, connected, selected>>
drainVars == <<delivering, looping, rest, stage, handed, current, left>>
replyVars == <<reply, aborted, peeked>>
vars == <<jobVars, batchVars, flagVars, drainVars, replyVars, timer, told, owed>>

(* The history is read before the reply; the reply gets ready and stores   *)
(* its record; the model is asked.                                         *)
Stages == {"free", "reading", "starting", "reply"}

NoReply == "none"
Replies == Keys \cup {NoReply}
ASSUME KeysAssumption == NoReply \notin Keys

TypeOK ==
  /\ job \in [Jobs -> {"idle", "running", "done", "cancelled"}]
  /\ bound \subseteq Jobs /\ acked \subseteq Jobs
  /\ used \in 0 .. MaxBatch
  /\ batchKey \in [Batches -> Keys]
  /\ batchJobs \in [Batches -> SUBSET Jobs]
  /\ pending \in [Keys -> 0 .. MaxBatch]
  /\ suppressed \subseteq Keys /\ disposed \in BOOLEAN
  /\ wakes \in [Keys -> 0 .. WakeBudget]
  /\ delivering \subseteq Histories
  /\ timer \in BOOLEAN /\ looping \in BOOLEAN
  /\ rest \subseteq Batches
  /\ stage \in [Histories -> Stages]
  /\ handed \in [Histories -> SUBSET Jobs]
  /\ current \in [Histories -> 0 .. MaxBatch]
  /\ left \in [Histories -> SUBSET Batches]
  /\ reply \in [Histories -> Replies] /\ aborted \subseteq Histories
  /\ peeked \in [Histories -> SUBSET Jobs]
  /\ connected \subseteq Sessions /\ selected \subseteq Keys
  /\ told \in [Jobs -> Nat]
  /\ owed \subseteq Jobs

Init ==
  /\ job = [j \in Jobs |-> "idle"] /\ bound = {} /\ acked = {}
  /\ used = 0
  /\ batchKey = [b \in Batches |-> CHOOSE k \in Keys : TRUE]
  /\ batchJobs = [b \in Batches |-> {}]
  /\ pending = [k \in Keys |-> None]
  /\ suppressed = {} /\ disposed = FALSE
  /\ wakes = [k \in Keys |-> 0]
  /\ delivering = {} /\ timer = FALSE
  /\ looping = FALSE /\ rest = {}
  /\ stage = [h \in Histories |-> "free"]
  /\ handed = [h \in Histories |-> {}]
  /\ current = [h \in Histories |-> None]
  /\ left = [h \in Histories |-> {}]
  /\ reply = [h \in Histories |-> NoReply] /\ aborted = {}
  /\ peeked = [h \in Histories |-> {}]
  /\ connected = Sessions /\ selected = {}
  /\ told = [j \in Jobs |-> 0] /\ owed = {}
-----------------------------------------------------------------------------
(* Faulty variants of definitions below, each a bug this code could have.  *)
AnyTime(k) == TRUE                       \* no second look after the read
Forgotten(k, b) == UNCHANGED <<batchJobs, pending>>   \* a failure loses the batch
NotCleared(k) == UNCHANGED pending       \* the batch stays pending while delivered
-----------------------------------------------------------------------------
Alive(k) == ~disposed /\ SessionOf[k] \in connected
CanDeliver(k) == ~disposed /\ k \notin suppressed /\ Alive(k) /\ k \in selected
Idle(h) == reply[h] = NoReply

(* The conversation's reply has got as far as asking the model             *)
Replying(k) == reply[HistoryOf[k]] = k /\ stage[HistoryOf[k]] # "starting"
OthersSelected(k) == selected \ {l \in Keys : SessionOf[l] = SessionOf[k]}

(* canDeliver, looked at again after the history read                      *)
StillWanted(k) == CanDeliver(k)

WithinBudget(n) == n < WakeBudget

JobsOf(k) == {j \in Jobs : Conversation[j] = k}
Bump(S) == [j \in Jobs |-> IF j \in S THEN told[j] + 1 ELSE told[j]]

(* settled, for a bound command that ended: queue the result and flush     *)
Queue(j) ==
  LET k == Conversation[j]
      b == IF pending[k] = None THEN used + 1 ELSE pending[k]
  IN /\ b <= MaxBatch
     /\ used' = IF pending[k] = None THEN used + 1 ELSE used
     /\ batchKey' = [batchKey EXCEPT ![b] = k]
     /\ batchJobs' = [batchJobs EXCEPT ![b] = @ \cup {j}]
     /\ pending' = [pending EXCEPT ![k] = b]
     /\ timer' = TRUE /\ owed' = owed \cup {j}

Settled(j, status) ==
  IF Conversation[j] \notin suppressed /\ status = "done"
  THEN Queue(j)
  ELSE UNCHANGED <<batchVars, timer, owed>>

(* collected: the results in S need no notice any more                     *)
Collected(k, S) ==
  /\ bound' = bound \ S
  /\ owed' = owed \ S
  /\ IF pending[k] = None THEN UNCHANGED <<batchJobs, pending>>
     ELSE /\ batchJobs' = [batchJobs EXCEPT ![pending[k]] = @ \ S]
          /\ pending' = IF batchJobs[pending[k]] \subseteq S
                        THEN [pending EXCEPT ![k] = None] ELSE pending

(* JavaScript runs to completion: nothing else happens while a drain loops *)
Quiet == ~looping
-----------------------------------------------------------------------------
(* exec with background=true, from the reply that runs in the conversation *)
Launch(j) ==
  /\ Quiet /\ job[j] = "idle"
  /\ Replying(Conversation[j])
  /\ job' = [job EXCEPT ![j] = "running"]
  /\ UNCHANGED <<bound, acked, batchVars, flagVars, drainVars, replyVars, timer, told, owed>>

(* bind, with the tool's acknowledgement; the command may have ended       *)
Bind(j) ==
  /\ Quiet /\ job[j] # "idle" /\ j \notin acked
  /\ Replying(Conversation[j])
  /\ acked' = acked \cup {j}
  /\ IF disposed \/ Conversation[j] \in suppressed THEN
       UNCHANGED <<bound, batchVars, timer, owed>>
     ELSE IF job[j] = "running" THEN
       bound' = bound \cup {j} /\ UNCHANGED <<batchVars, timer, owed>>
     ELSE
       Settled(j, job[j]) /\ UNCHANGED bound
  /\ UNCHANGED <<job, flagVars, drainVars, replyVars, told>>

JobEnds(j) ==
  /\ Quiet /\ job[j] = "running"
  /\ \E status \in {"done", "cancelled"} :
       /\ job' = [job EXCEPT ![j] = status]
       /\ IF j \in bound THEN Settled(j, status) ELSE UNCHANGED <<batchVars, timer, owed>>
  /\ bound' = bound \ {j}
  /\ UNCHANGED <<acked, flagVars, drainVars, replyVars, told>>
-----------------------------------------------------------------------------
(* run: select the conversation, resume it and reply, unless a reply runs  *)
HumanRun(k) ==
  /\ Quiet /\ ~disposed
  /\ selected' = OthersSelected(k) \cup {k}
  /\ suppressed' = suppressed \ {k}
  /\ wakes' = [wakes EXCEPT ![k] = 0]
  /\ timer' = TRUE
  /\ reply' = IF Idle(HistoryOf[k]) THEN [reply EXCEPT ![HistoryOf[k]] = k] ELSE reply
  /\ UNCHANGED <<jobVars, batchVars, disposed, connected, drainVars, aborted, peeked, told, owed>>

(* pendingBackgroundResults, between two requests of a running reply       *)
Peek(h) ==
  /\ Quiet /\ reply[h] # NoReply /\ stage[h] # "starting" /\ h \notin aborted /\ peeked[h] = {}
  /\ CanDeliver(reply[h]) /\ pending[reply[h]] # None
  /\ peeked' = [peeked EXCEPT ![h] = batchJobs[pending[reply[h]]]]
  /\ UNCHANGED <<jobVars, batchVars, flagVars, drainVars, reply, aborted, timer, told, owed>>

(* acknowledge, once the notice is in the stored record, stopped or not    *)
Acknowledge(h) ==
  /\ Quiet /\ reply[h] # NoReply /\ peeked[h] # {}
  /\ Collected(reply[h], peeked[h])
  /\ told' = Bump(peeked[h])
  /\ peeked' = [peeked EXCEPT ![h] = {}]
  /\ UNCHANGED <<job, acked, used, batchKey, flagVars, drainVars, reply, aborted, timer>>

(* get_job hands the model the final status itself                         *)
Collect(j) ==
  LET k == Conversation[j] IN
    /\ Quiet /\ Replying(k) /\ peeked[HistoryOf[k]] = {}
    /\ job[j] = "done"
    /\ Collected(k, {j})
    /\ UNCHANGED <<job, acked, used, batchKey, flagVars, drainVars, replyVars, timer, told>>

(* execute's finally: the reply is no longer active, and flushes           *)
ReplyOver(h) ==
  /\ reply' = [reply EXCEPT ![h] = NoReply]
  /\ peeked' = [peeked EXCEPT ![h] = {}]
  /\ aborted' = aborted \ {h}
  /\ timer' = TRUE

(* A reply that a human asked for ends, answered, failed or stopped.       *)
HumanReplyEnds(h) ==
  /\ Quiet /\ reply[h] # NoReply /\ stage[h] \notin {"starting", "reply"}
  /\ ReplyOver(h)
  /\ UNCHANGED <<jobVars, batchVars, flagVars, drainVars, told, owed>>

(* suppress: no result may restart this conversation                       *)
Suppress(k) ==
  /\ suppressed' = suppressed \cup {k}
  /\ pending' = [pending EXCEPT ![k] = None]
  /\ bound' = bound \ JobsOf(k)
  /\ owed' = owed \ JobsOf(k)
  /\ UNCHANGED <<job, acked, used, batchKey, batchJobs, disposed, wakes, connected, selected,
                 drainVars, reply, peeked, timer, told>>

(* abort: the user stops the reply that runs in a conversation             *)
Stop(k) ==
  /\ Quiet /\ reply[HistoryOf[k]] = k
  /\ Suppress(k)
  /\ aborted' = aborted \cup {HistoryOf[k]}

(* suppressBackground: the conversation is left for a new one, or removed; *)
(* a reply that results have started there is stopped.                     *)
SuppressBackground(k) ==
  LET h == HistoryOf[k] IN
    /\ Quiet
    /\ Suppress(k)
    /\ aborted' = IF reply[h] = k /\ stage[h] \in {"starting", "reply"}
                  THEN aborted \cup {h} ELSE aborted

SelectConversation(k) ==
  /\ Quiet /\ ~disposed
  /\ selected' \in {selected, OthersSelected(k), OthersSelected(k) \cup {k}}
  /\ timer' = TRUE
  /\ UNCHANGED <<jobVars, batchVars, suppressed, disposed, wakes, connected, drainVars,
                 replyVars, told, owed>>

(* An SSH session drops or is back.                                        *)
SessionChanges(s) ==
  /\ Quiet /\ SessionsDrop
  /\ connected' = IF s \in connected THEN connected \ {s} ELSE connected \cup {s}
  /\ UNCHANGED <<jobVars, batchVars, suppressed, disposed, wakes, selected, drainVars,
                 replyVars, timer, told, owed>>

(* disposeOwner: the window is destroyed, and its replies are stopped      *)
DisposeOwner ==
  /\ Quiet /\ ~disposed
  /\ disposed' = TRUE
  /\ bound' = {} /\ owed' = {}
  /\ pending' = [k \in Keys |-> None]
  /\ suppressed' = suppressed \cup {k \in Keys : reply[HistoryOf[k]] = k}
  /\ aborted' = aborted \cup {h \in Histories : reply[h] # NoReply}
  /\ UNCHANGED <<job, acked, used, batchKey, batchJobs, wakes, connected, selected, drainVars,
                 reply, peeked, timer, told>>
-----------------------------------------------------------------------------
(* The timer of flush: a drain begins, with a copy of the pending entries  *)
TimerFires ==
  /\ Quiet /\ timer
  /\ timer' = FALSE /\ looping' = TRUE
  /\ rest' = {pending[k] : k \in Keys} \ {None}
  /\ UNCHANGED <<jobVars, batchVars, flagVars, delivering, stage, handed, current, left,
                 replyVars, told, owed>>

DrainEnds ==
  /\ looping /\ rest = {}
  /\ looping' = FALSE
  /\ UNCHANGED <<jobVars, batchVars, flagVars, delivering, rest, stage, handed, current, left,
                 replyVars, timer, told, owed>>

(* The session of the conversation is gone: forget its results             *)
DropDead(b) ==
  LET k == batchKey[b] IN
    /\ looping /\ b \in rest /\ ~Alive(k)
    /\ rest' = rest \ {b}
    /\ pending' = [pending EXCEPT ![k] = None]
    /\ owed' = owed \ JobsOf(k)
    /\ UNCHANGED <<jobVars, used, batchKey, batchJobs, flagVars, delivering, looping, stage,
                   handed, current, left, replyVars, timer, told>>

Deliverable(b) ==
  LET k == batchKey[b] IN
    /\ HistoryOf[k] \notin delivering /\ Idle(HistoryOf[k])
    /\ CanDeliver(k) /\ WithinBudget(wakes[k])

Skip(b) ==
  /\ looping /\ b \in rest /\ Alive(batchKey[b]) /\ ~Deliverable(b)
  /\ rest' = rest \ {b}
  /\ UNCHANGED <<jobVars, batchVars, flagVars, delivering, looping, stage, handed, current,
                 left, replyVars, timer, told, owed>>

(* pending.delete(key), whatever batch the key has by now                  *)
Cleared(k) == pending' = [pending EXCEPT ![k] = None]

(* Up to the history read of deliver, where the drain is suspended         *)
Deliver(b) ==
  LET k == batchKey[b]
      h == HistoryOf[k]
  IN /\ looping /\ b \in rest /\ Alive(k) /\ Deliverable(b)
     /\ looping' = FALSE /\ rest' = {}
     /\ Cleared(k)
     /\ wakes' = [wakes EXCEPT ![k] = @ + 1]
     /\ delivering' = delivering \cup {h}
     /\ stage' = [stage EXCEPT ![h] = "reading"]
     /\ current' = [current EXCEPT ![h] = b]
     /\ handed' = [handed EXCEPT ![h] = batchJobs[b]]
     /\ left' = [left EXCEPT ![h] = rest \ {b}]
     /\ UNCHANGED <<jobVars, used, batchKey, batchJobs, suppressed, disposed, connected,
                    selected, replyVars, timer, told, owed>>

(* The delivery in h is over: back into the loop                           *)
Resumes(h) ==
  /\ looping' = TRUE /\ rest' = left[h]
  /\ delivering' = delivering \ {h}
  /\ stage' = [stage EXCEPT ![h] = "free"]
  /\ current' = [current EXCEPT ![h] = None]
  /\ handed' = [handed EXCEPT ![h] = {}]
  /\ left' = [left EXCEPT ![h] = {}]

(* requeue: put the batch back, with what has settled since                *)
Requeue(k, b) ==
  IF disposed \/ k \in suppressed THEN UNCHANGED <<batchJobs, pending>>
  ELSE /\ batchJobs' = IF pending[k] = None THEN batchJobs
                       ELSE [batchJobs EXCEPT ![b] = @ \cup batchJobs[pending[k]]]
       /\ pending' = [pending EXCEPT ![k] = b]

(* deliver returns false: the conversation is not available any more       *)
DeliveryRefused(h) ==
  LET k == batchKey[current[h]] IN
    /\ Quiet /\ stage[h] = "reading" /\ ~StillWanted(k)
    /\ Requeue(k, current[h])
    /\ wakes' = [wakes EXCEPT ![k] = IF @ = 0 THEN 0 ELSE @ - 1]
    /\ Resumes(h)
    /\ UNCHANGED <<jobVars, used, batchKey, suppressed, disposed, connected, selected,
                   replyVars, timer, told, owed>>

(* The read fails, or execute finds a reply in the history and throws      *)
DeliveryFails(h) ==
  /\ Quiet /\ stage[h] = "reading"
  /\ ReadsFail \/ (StillWanted(batchKey[current[h]]) /\ ~Idle(h))
  /\ Requeue(batchKey[current[h]], current[h])
  /\ Resumes(h)
  /\ UNCHANGED <<jobVars, used, batchKey, flagVars, replyVars, timer, told, owed>>

(* execute begins: from here on a stop reaches the reply by its signal     *)
BackgroundReply(h) ==
  LET k == batchKey[current[h]] IN
    /\ Quiet /\ stage[h] = "reading" /\ StillWanted(k) /\ Idle(h)
    /\ reply' = [reply EXCEPT ![h] = k]
    /\ stage' = [stage EXCEPT ![h] = "starting"]
    /\ UNCHANGED <<jobVars, batchVars, flagVars, delivering, looping, rest, handed, current,
                   left, aborted, peeked, timer, told, owed>>

(* It throws before its record is stored: stopped, the session gone, the   *)
(* history unreadable, the thread deleted, or a save that fails.           *)
StartFails(h) ==
  /\ Quiet /\ stage[h] = "starting"
  /\ Requeue(batchKey[current[h]], current[h])
  /\ ReplyOver(h) /\ Resumes(h)
  /\ UNCHANGED <<jobVars, used, batchKey, flagVars, told, owed>>

(* The record is stored with the notice and an error or as stopped, and    *)
(* the model is not asked: a signal, no key, a second read that fails.     *)
ReplyNotAsked(h) ==
  /\ Quiet /\ stage[h] = "starting"
  /\ told' = Bump(handed[h]) /\ owed' = owed \ handed[h]
  /\ ReplyOver(h) /\ Resumes(h)
  /\ UNCHANGED <<jobVars, batchVars, flagVars>>

(* The signal, which aborts every request, is not set                      *)
NotStopped(h) == h \notin aborted

(* The model is asked about the results                                    *)
ModelAsked(h) ==
  /\ Quiet /\ stage[h] = "starting" /\ NotStopped(h)
  /\ stage' = [stage EXCEPT ![h] = "reply"]
  /\ told' = Bump(handed[h]) /\ owed' = owed \ handed[h]
  /\ UNCHANGED <<jobVars, batchVars, flagVars, delivering, looping, rest, handed, current,
                 left, replyVars, timer>>

(* The reply is stored, aborted or not, or its last save fails: then the   *)
(* stored conversation does not know the results.                          *)
BackgroundReplyEnds(h) ==
  LET k == batchKey[current[h]] IN
    /\ Quiet /\ stage[h] = "reply"
    /\ ReplyOver(h) /\ Resumes(h)
    /\ \/ UNCHANGED <<batchJobs, pending, told, owed>>
       \/ /\ Requeue(k, current[h])
          /\ told' = [j \in Jobs |-> IF j \in handed[h] THEN told[j] - 1 ELSE told[j]]
          /\ owed' = IF disposed \/ k \in suppressed THEN owed ELSE owed \cup handed[h]
    /\ UNCHANGED <<jobVars, used, batchKey, flagVars>>
-----------------------------------------------------------------------------
HistoryStep(h) ==
  \/ Peek(h) \/ Acknowledge(h) \/ HumanReplyEnds(h)
  \/ DeliveryRefused(h) \/ DeliveryFails(h) \/ BackgroundReply(h)
  \/ StartFails(h) \/ ReplyNotAsked(h) \/ ModelAsked(h) \/ BackgroundReplyEnds(h)

DrainStep ==
  \/ TimerFires \/ DrainEnds
  \/ \E b \in rest : DropDead(b) \/ Skip(b) \/ Deliver(b)

Next ==
  \/ \E j \in Jobs : Launch(j) \/ Bind(j) \/ JobEnds(j) \/ Collect(j)
  \/ \E k \in Keys : HumanRun(k) \/ Stop(k) \/ SuppressBackground(k) \/ SelectConversation(k)
  \/ \E s \in Sessions : SessionChanges(s)
  \/ \E h \in Histories : HistoryStep(h)
  \/ DrainStep \/ DisposeOwner

(* Timers fire, reads and saves answer, replies end: all but timers        *)
(* between two runs of a drain's loop, if such moments come again and      *)
(* again.                                                                  *)
Fairness ==
  /\ WF_vars(DrainStep)
  /\ \A h \in Histories :
       /\ SF_vars(DeliveryRefused(h) \/ DeliveryFails(h) \/ BackgroundReply(h))
       /\ SF_vars(StartFails(h) \/ ReplyNotAsked(h) \/ ModelAsked(h))
       /\ SF_vars(BackgroundReplyEnds(h)) /\ SF_vars(HumanReplyEnds(h))

Spec == Init /\ [][Next]_vars
FairSpec == Spec /\ Fairness
-----------------------------------------------------------------------------
(* A result is put before the model once: completions are coalesced and    *)
(* duplicates skipped, as long as all results are of one conversation (a   *)
(* stale copy may repeat what another drain has delivered).                *)
ToldOnce == \A j \in Jobs : told[j] <= 1

(* A result that is in the pending batch of a conversation, or in a        *)
(* delivery that has not reached the model.                                *)
Held(j) ==
  \/ \E k \in Keys : pending[k] # None /\ j \in batchJobs[pending[k]]
  \/ \E h \in Histories : stage[h] \in {"reading", "starting"} /\ j \in handed[h]

(* A drain comes to a batch of its copy that was delivered or dropped, and *)
(* another one has taken its place in pending since.                       *)
StaleDelivery == \E b \in rest : Deliver(b) /\ pending[batchKey[b]] \notin {b, None}

(* A result whose conversation was neither stopped nor closed is sent to   *)
(* it: until then it is held (docs/AI.md, background tasks).  The code     *)
(* does not keep this: see ResultsStay.                                    *)
NoResultLost == \A j \in owed : Held(j)

(* Refused and failed deliveries, stops of other conversations, merges     *)
(* with newer results and results that others have collected lose nothing: *)
(* a wanted result stays held through every step but that of a drain that  *)
(* clears a batch it has not copied.                                       *)
ResultsStay ==
  [][\A j \in owed' : (j \in owed => Held(j)) => Held(j)' \/ StaleDelivery]_vars

(* A stopped conversation is not taken up again by its results: whenever   *)
(* the stop or the end of the window comes, before or during the read of   *)
(* the delivery, or in the awaits of the reply before its request, the     *)
(* model is not asked about them, until the user runs it again.  (Only the *)
(* abort signal is looked at in the end, not the stop itself.)             *)
StopIsFinal ==
  [][\A h \in Histories : stage[h] # "reply" /\ stage'[h] = "reply" =>
       ~disposed /\ reply'[h] \notin suppressed]_vars

(* While no SSH session drops, a result does not wait for ever in a        *)
(* history where no reply runs, while its conversation is deliverable and  *)
(* within its budget.  (After a drop during a history read it may: nothing *)
(* flushes again when the session is back.)                                *)
ResultsArrive ==
  [](connected = Sessions) =>
    \A j \in Jobs :
      LET k == Conversation[j]
      IN []<>(\/ j \notin owed \/ ~CanDeliver(k)
              \/ ~Idle(HistoryOf[k]) \/ ~WithinBudget(wakes[k]))
=============================================================================
