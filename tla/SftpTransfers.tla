--------------------------- MODULE SftpTransfers ---------------------------
(***************************************************************************)
(* The transfers of one SFTP session: TransferQueue admits them, each run  *)
(* opens the channel, resolves the target of an upload one at a time per   *)
(* session, may ask the user about a conflict (UploadConflicts), and is    *)
(* handed to the TransferRunner.  The session ends and comes back under    *)
(* the same id, its channel dies, transfers and batches are cancelled and  *)
(* the window closes at any point.                                         *)
(*                                                                         *)
(* An action is one synchronous stretch.  A continuation that runs before  *)
(* any other event (a microtask) has a stage of its own, Micro, and while  *)
(* such a stage exists no event is handled (Quiet).  Names of the target   *)
(* directory are numbers: Wanted is the name every upload asks for, the    *)
(* next ones are what nextRemoteName counts up to.                         *)
(***************************************************************************)
EXTENDS Naturals, Sequences, FiniteSets

CONSTANTS
  Count,      \* transfers the window may start
  Modes,      \* kinds of transfers it starts, a subset of AllModes
  Batches,    \* drops of files that are uploaded with conflict = "ask"
  Limits,     \* values of the concurrency setting
  MaxConns    \* connections under this session id

AllModes == {"direct", "rename", "overwrite", "skip", "ask", "tree"}

ASSUME TransfersAssumption ==
  /\ Count \in Nat /\ MaxConns \in Nat \ {0}
  /\ Modes \subseteq AllModes /\ Batches \subseteq Nat \ {0} /\ Limits \subseteq Nat /\ Limits # {}

T == 1 .. Count
Strategies == {"rename", "overwrite", "skip"}
Wanted == 0
Fallback(t) == Count + t      \* fallbackRemoteName: a name nobody else has
Names == 0 .. 2 * Count

NoTarget == 2 * Count + 1      \* no target yet
Undecided == "undecided"
NoRequest == <<0, 0>>
NoBatch == 0
Files == 1 .. 2               \* files of a tree whose worker may ask

VARIABLES
  stage, mode, batch, birth,  \* per transfer; birth is its connection
  target, answer,
  running,                    \* TransferQueue: entries that left it and run
  cancelled,                  \* pendingRuns: cancelled before the runner
  aborted, stopped, asked,    \* runner: the entry is cancelled; tree jobs
  withdrawn,                  \* UploadConflicts: contexts cancelled
  strategy, batchCancelled,   \* UploadConflicts: batches
  requests, visible,          \* UploadConflicts: prompts <<transfer, file>>
  order,                      \* the Map of requests: <<p, q>> when p came before q
  claims, chain,              \* claimedRemotePaths, resolveChains
  conn, gen, channel, remote, windowGone,
  recalled                    \* history: transfers that somebody cancelled

runVars == <<mode, batch, birth>>
runnerVars == <<aborted, stopped, asked>>
batchVars == <<strategy, batchCancelled>>
promptVars == <<requests, visible, order>>
worldVars == <<conn, gen, channel, remote, windowGone>>
vars == <<stage, runVars, target, answer, running, cancelled, runnerVars,
          withdrawn, batchVars, promptVars, claims, chain, worldVars, recalled>>

Stages == {"new", "waiting", "opening", "opened", "inline", "checking", "listing", "asking",
           "answered", "resolved", "running", "skips", "throws", "completed", "over"}
Micro == {"opened", "answered", "resolved", "skips", "throws"}
Terminal == {"completed", "over"}   \* transferComplete; or skipped, or transferError
InFlight(t) == stage[t] \notin {"new", "waiting"} \cup Terminal
HasContext(t) == stage[t] \notin {"new"} \cup Terminal /\ mode[t] \in {"ask", "tree"}
Requests == T \X Files

TypeOK ==
  /\ stage \in [T -> Stages] /\ mode \in [T -> AllModes]
  /\ batch \in [T -> Batches \cup {NoBatch}] /\ birth \in [T -> 0 .. MaxConns]
  /\ target \in [T -> Names \cup {NoTarget}]
  /\ answer \in [T -> Strategies \cup {Undecided}]
  /\ running \in 0 .. Count
  /\ cancelled \in SUBSET T /\ aborted \in SUBSET T /\ stopped \in SUBSET T
  /\ asked \in SUBSET Requests /\ withdrawn \in SUBSET T /\ recalled \in SUBSET T
  /\ strategy \in [Batches -> Strategies \cup {Undecided}]
  /\ batchCancelled \in SUBSET Batches
  /\ requests \subseteq Requests /\ visible \in requests \cup {NoRequest}
  /\ order \subseteq requests \X requests
  /\ claims \subseteq Names /\ chain \in [1 .. MaxConns -> Seq(T)]
  /\ conn \in {"up", "down"} /\ gen \in 1 .. MaxConns
  /\ channel \in BOOLEAN /\ (channel => conn = "up")
  /\ remote \subseteq Names /\ windowGone \in BOOLEAN

Init ==
  /\ stage = [t \in T |-> "new"] /\ mode = [t \in T |-> "direct"]
  /\ batch = [t \in T |-> NoBatch] /\ birth = [t \in T |-> 0]
  /\ target = [t \in T |-> NoTarget] /\ answer = [t \in T |-> Undecided]
  /\ running = 0
  /\ cancelled = {} /\ aborted = {} /\ stopped = {} /\ asked = {} /\ withdrawn = {}
  /\ strategy = [b \in Batches |-> Undecided] /\ batchCancelled = {}
  /\ requests = {} /\ visible = NoRequest /\ order = {}
  /\ claims = {} /\ chain = [g \in 1 .. MaxConns |-> <<>>]
  /\ conn = "up" /\ gen = 1 /\ channel = FALSE /\ remote \in {{}, {Wanted}}
  /\ windowGone = FALSE /\ recalled = {}
-----------------------------------------------------------------------------
(* Variants that a slip in the code would give; each breaks a property.    *)
AnyOpen(rs, ord, strats) == {q \in rs : \A p \in rs : <<p, q>> \notin ord}  \* the batch is not asked
WithoutMinimum(n, limit) == IF n < limit THEN limit - n ELSE 0   \* 0 admits nobody
KeptClaim(t) == claims                                 \* no release in finally
OnlyContext(t) == mode[t] = "ask" /\ t \in withdrawn   \* pendingRuns not asked
AnyChannel(g) == TRUE                                  \* a late channel is taken

Quiet ==
  /\ \A t \in T : stage[t] \notin Micro
  /\ \A g \in 1 .. MaxConns : chain[g] # <<>> => stage[Head(chain[g])] # "inline"

(* UploadConflicts.pump: a window with no prompt shows the first request   *)
(* whose batch is undecided; those before it get the batch's strategy.     *)
(* Requests of cancelled contexts it never meets: they are gone by then.   *)
FirstOpen(rs, ord, strats) ==
  LET open == {q \in rs : strats[batch[q[1]]] = Undecided}
  IN {q \in open : \A p \in open : <<p, q>> \notin ord}

Pumped(rs, ord, strats) ==
  LET first  == FirstOpen(rs, ord, strats)
      shown  == CHOOSE q \in first : TRUE
      passed == {p \in rs : <<p, shown>> \in ord}
  IN IF visible \in rs THEN [shown |-> visible, left |-> rs, served |-> {}]
     ELSE IF first = {} THEN [shown |-> NoRequest, left |-> {}, served |-> rs]
     ELSE [shown |-> shown, left |-> rs \ passed, served |-> passed]

Shows(p, ord) ==
  requests' = p.left /\ visible' = p.shown /\ order' = ord \cap (p.left \X p.left)

RequestsOf(S) == {q \in requests : q[1] \in S}

(* finish and pump: the requests in gone are taken away                    *)
Prompted(gone, strats) == Pumped(requests \ gone, order, strats)

(* The stage of a transfer whose question is served: an upload goes on     *)
Served(st, served) ==
  [t \in T |-> IF st[t] = "asking" /\ <<t, 1>> \in served THEN "answered" ELSE st[t]]
Answered(served, strats) ==
  [t \in T |-> IF stage[t] = "asking" /\ <<t, 1>> \in served THEN strats[batch[t]] ELSE answer[t]]
(* ... and one whose question is rejected fails                            *)
Rejected(st, S) == [t \in T |-> IF st[t] = "asking" /\ t \in S THEN "throws" ELSE st[t]]

(* TransferQueue.pump: how many entries may leave the queue, under the     *)
(* setting as it is read at that moment                                    *)
Admitted(n, limit) ==
  LET max == IF limit = 0 THEN 1 ELSE limit
  IN IF n < max THEN max - n ELSE 0

(* initSftp: no session rejects, an open channel is taken as it is         *)
FirstStage == IF conn = "down" THEN "throws" ELSE IF channel THEN "opened" ELSE "opening"

(* Transfers are submitted in order, so the queue is the waiting ones in   *)
(* that order; the first of them leave it.                                 *)
First(S, k) == {t \in S : Cardinality({u \in S : u < t}) < k}

Pump(n, st, births) ==
  \E limit \in Limits :
  LET waiting == {t \in T : st[t] = "waiting"}
      started == First(waiting, Admitted(n, limit))
  IN /\ running' = n + Cardinality(started)
     /\ stage' = [t \in T |-> IF t \in started THEN FirstStage ELSE st[t]]
     /\ birth' = [t \in T |-> IF t \in started THEN gen ELSE births[t]]

(* Entries dropped from the queue end at once, as cancelled                *)
Dropped(S) == {t \in S : stage[t] = "waiting"}
Reset(f, S, value) == [t \in T |-> IF t \in S THEN value ELSE f[t]]

ContextCancelled(t) ==
  mode[t] \in {"ask", "tree"} /\ (t \in withdrawn \/ batch[t] \in batchCancelled \/ windowGone)
IsCancelled(t) == t \in cancelled \/ ContextCancelled(t)
-----------------------------------------------------------------------------
(* sftp:download, upload, downloadDirectory, uploadDirectory: the transfer *)
(* is announced and queued.                                                *)
Submit(t, m, b) ==
  /\ Quiet /\ ~windowGone
  /\ stage[t] = "new" /\ (t > 1 => stage[t - 1] # "new")
  /\ b = 1 \/ \E u \in T : batch[u] = b - 1 /\ u < t
  /\ m \notin {"ask", "tree"} => b = 1
  /\ mode' = [mode EXCEPT ![t] = m]
  /\ batch' = [batch EXCEPT ![t] = IF m \in {"ask", "tree"} THEN b ELSE NoBatch]
  /\ Pump(running, [stage EXCEPT ![t] = "waiting"], birth)
  /\ recalled' = IF m \in {"ask", "tree"} /\ b \in batchCancelled THEN recalled \cup {t}
                 ELSE recalled
  /\ UNCHANGED <<target, answer, cancelled, runnerVars, withdrawn, batchVars,
                 promptVars, claims, chain, worldVars>>

(* The end of a run: the claim is released, the terminal event is sent,    *)
(* dispose takes its questions away, and the queue admits the next.        *)
Release(t) == IF target[t] = NoTarget THEN claims ELSE claims \ {target[t]}

Finish(t, what) ==
  LET p == Prompted(RequestsOf({t}), strategy) IN
    /\ claims' = Release(t)
    /\ Shows(p, order)
    /\ Pump(running - 1, Served(Reset(stage, {t}, what), p.served), Reset(birth, {t}, 0))
    /\ answer' = Reset(Answered(p.served, strategy), {t}, Undecided)
    /\ mode' = Reset(mode, {t}, "direct") /\ batch' = Reset(batch, {t}, NoBatch)
    /\ target' = Reset(target, {t}, NoTarget)
    /\ cancelled' = cancelled \ {t} /\ aborted' = aborted \ {t} /\ stopped' = stopped \ {t}
    /\ withdrawn' = withdrawn \ {t} /\ recalled' = recalled \ {t}
    /\ asked' = {q \in asked : q[1] # t}
    /\ UNCHANGED <<batchVars, chain>>

Unwinds(t) ==
  /\ stage[t] \in {"throws", "skips"} /\ Finish(t, "over")
  /\ UNCHANGED worldVars

(* The callback stores the channel in its own session object.              *)
OpensFor(g) == g = gen /\ conn = "up"

(* client.sftp answers: every run that waits for this channel goes on.     *)
ChannelOpens(g) ==
  /\ Quiet /\ \E t \in T : stage[t] = "opening" /\ birth[t] = g
  /\ stage' = [t \in T |-> IF stage[t] = "opening" /\ birth[t] = g THEN "opened" ELSE stage[t]]
  /\ channel' = (channel \/ OpensFor(g))
  /\ UNCHANGED <<runVars, target, answer, running, cancelled, runnerVars, withdrawn,
                 batchVars, promptVars, claims, chain, conn, gen, remote, windowGone, recalled>>

ChannelRefused(g) ==
  /\ Quiet /\ \E t \in T : stage[t] = "opening" /\ birth[t] = g
  /\ stage' = [t \in T |-> IF stage[t] = "opening" /\ birth[t] = g THEN "throws" ELSE stage[t]]
  /\ UNCHANGED <<runVars, target, answer, running, cancelled, runnerVars, withdrawn,
                 batchVars, promptVars, claims, chain, worldVars, recalled>>

(* The run after initSftp: a transfer recalled meanwhile stops, an upload  *)
(* without an explicit target joins the resolvers of the session.          *)
HandOver(t) == IF IsCancelled(t) \/ ~channel THEN "throws" ELSE "running"
Resolves(t) == mode[t] \in Strategies \cup {"ask"}

Joins(t) == chain' = [chain EXCEPT ![gen] = Append(@, t)]

Begin(t) ==
  /\ stage[t] = "opened"
  /\ \/ /\ Resolves(t) /\ ~IsCancelled(t)
        /\ stage' = [stage EXCEPT ![t] = "inline"] /\ Joins(t)
     \/ /\ ~Resolves(t) \/ IsCancelled(t)
        /\ stage' = [stage EXCEPT ![t] = HandOver(t)] /\ UNCHANGED chain
  /\ UNCHANGED <<runVars, target, answer, running, cancelled, runnerVars, withdrawn,
                 batchVars, promptVars, claims, worldVars, recalled>>
-----------------------------------------------------------------------------
(* resolveUploadTarget, one at a time per chain.  A decision of the user   *)
(* takes the place of asking when it is called again.                      *)
AtHead(t) == \E g \in 1 .. MaxConns : chain[g] # <<>> /\ Head(chain[g]) = t
Passed(t) ==
  [g \in 1 .. MaxConns |-> IF chain[g] # <<>> /\ Head(chain[g]) = t THEN Tail(chain[g]) ELSE chain[g]]

Asks(t) == mode[t] = "ask" /\ answer[t] = Undecided
Conflict(t) == IF mode[t] = "ask" THEN answer[t] ELSE mode[t]

Claim(t, n) ==
  /\ claims' = claims \cup {n} /\ target' = [target EXCEPT ![t] = n]
  /\ stage' = [stage EXCEPT ![t] = "resolved"] /\ chain' = Passed(t)
  /\ UNCHANGED <<answer, promptVars>>

FreeName(n, used) == n \notin used /\ \A k \in 0 .. n - 1 : k \in used

(* Files that the runner is creating: the server may show them already     *)
Written == {target[u] : u \in {v \in T : stage[v] = "running" /\ target[v] # NoTarget}}

(* ask: rejected, decided by the batch already, or a question of the window *)
Question(q, st) ==
  LET ord == order \cup (requests \X {q})
      p   == Pumped(requests \cup {q}, ord, strategy)
  IN /\ Shows(p, ord)
     /\ answer' = Answered(p.served, strategy)
     /\ stage' = Served(st, p.served)

AskUser(t) ==
  \/ /\ ContextCancelled(t)
     /\ stage' = [stage EXCEPT ![t] = "throws"] /\ UNCHANGED <<answer, promptVars>>
  \/ /\ ~ContextCancelled(t) /\ strategy[batch[t]] # Undecided
     /\ answer' = [answer EXCEPT ![t] = strategy[batch[t]]]
     /\ stage' = [stage EXCEPT ![t] = "answered"] /\ UNCHANGED promptVars
  \/ /\ ~ContextCancelled(t) /\ strategy[batch[t]] = Undecided
     /\ Question(<<t, 1>>, [stage EXCEPT ![t] = "asking"])

(* The server's answer about the wanted path, or the claim that spares it  *)
Resolve(t, found) ==
  \/ /\ found = "error" /\ Asks(t)
     /\ stage' = [stage EXCEPT ![t] = "throws"] /\ chain' = Passed(t)
     /\ UNCHANGED <<claims, target, answer, promptVars>>
  \/ /\ found = "exists" /\ Asks(t)
     /\ AskUser(t) /\ chain' = Passed(t) /\ UNCHANGED <<claims, target>>
  \/ /\ found = "absent" \/ (~Asks(t) /\ (found = "error" \/ Conflict(t) = "overwrite"))
     /\ Claim(t, Wanted)
  \/ /\ found = "exists" /\ ~Asks(t) /\ Conflict(t) = "skip"
     /\ stage' = [stage EXCEPT ![t] = "skips"] /\ chain' = Passed(t)
     /\ UNCHANGED <<claims, target, answer, promptVars>>
  \/ /\ found = "exists" /\ ~Asks(t) /\ Conflict(t) = "rename"
     /\ \/ /\ channel /\ stage' = [stage EXCEPT ![t] = "listing"]
           /\ UNCHANGED <<chain, claims, target, answer, promptVars>>
        \/ ~channel /\ Claim(t, Fallback(t))

resolveVars == <<runVars, running, cancelled, runnerVars, withdrawn, batchVars,
                 worldVars, recalled>>

StartCheck(t) ==
  /\ stage[t] = "inline" /\ AtHead(t)
  /\ \/ Wanted \in claims /\ Resolve(t, "exists")
     \/ Wanted \notin claims /\ ~channel /\ Resolve(t, "error")
     \/ /\ Wanted \notin claims /\ channel
        /\ stage' = [stage EXCEPT ![t] = "checking"]
        /\ UNCHANGED <<chain, claims, target, answer, promptVars>>
  /\ UNCHANGED resolveVars

ExistsAnswers(t) ==
  /\ Quiet /\ stage[t] = "checking"
  /\ \/ Wanted \in remote \cup Written /\ Resolve(t, "exists")
     \/ Wanted \notin remote /\ Resolve(t, "absent")
     \/ Resolve(t, "error")
  /\ UNCHANGED resolveVars

ListAnswers(t) ==
  /\ Quiet /\ stage[t] = "listing"
  /\ \/ \E seen \in SUBSET Written, n \in Names :
          FreeName(n, remote \cup claims \cup seen) /\ Claim(t, n)
     \/ Claim(t, Fallback(t))
  /\ UNCHANGED resolveVars

(* The decision is there: the target is resolved again, with it.           *)
Rejoin(t) ==
  /\ stage[t] = "answered"
  /\ stage' = [stage EXCEPT ![t] = "inline"] /\ Joins(t)
  /\ UNCHANGED <<claims, target, answer, promptVars, resolveVars>>

(* The last look before the runner, which first looks at the local file    *)
StartUpload(t) ==
  /\ stage[t] = "resolved"
  /\ stage' \in {[stage EXCEPT ![t] = HandOver(t)], [stage EXCEPT ![t] = "throws"]}
  /\ UNCHANGED <<chain, claims, target, answer, promptVars, resolveVars>>
-----------------------------------------------------------------------------
(* The runner.  A file leaves its path behind when it completes, and may   *)
(* when it fails; an entry that was cancelled never completes.             *)
OpenQuestions(t) == RequestsOf({t})

FileEnds(t) ==
  /\ Quiet /\ stage[t] = "running" /\ mode[t] # "tree"
  /\ \/ t \notin aborted /\ Finish(t, "completed") /\ remote' = remote \cup ({target[t]} \ {NoTarget})
     \/ Finish(t, "over") /\ remote' \in {remote, remote \cup ({target[t]} \ {NoTarget})}
  /\ UNCHANGED <<conn, gen, channel, windowGone>>

(* A worker of a tree finds its file on the server and asks.  The refusal  *)
(* of an answer aborts the questions of the whole tree (conflictAbort).    *)
AskFile(t, f) ==
  /\ Quiet /\ stage[t] = "running" /\ mode[t] = "tree"
  /\ t \notin aborted \cup stopped /\ <<t, f>> \notin asked
  /\ asked' = asked \cup {<<t, f>>}
  /\ \/ ~ContextCancelled(t) /\ strategy[batch[t]] = Undecided /\ Question(<<t, f>>, stage)
     \/ /\ ~ContextCancelled(t) /\ strategy[batch[t]] # Undecided
        /\ UNCHANGED <<stage, answer, promptVars>>
  /\ UNCHANGED <<runVars, target, running, cancelled, aborted, stopped, withdrawn,
                 batchVars, claims, chain, worldVars, recalled>>

(* A file of the tree fails under the policy stop.                         *)
FileOfTreeFails(t) ==
  LET p == Prompted(OpenQuestions(t), strategy) IN
    /\ Quiet /\ stage[t] = "running" /\ mode[t] = "tree" /\ t \notin aborted \cup stopped
    /\ stopped' = stopped \cup {t}
    /\ Shows(p, order)
    /\ answer' = Answered(p.served, strategy) /\ stage' = Served(stage, p.served)
    /\ UNCHANGED <<runVars, target, running, cancelled, aborted, asked, withdrawn,
                   batchVars, claims, chain, worldVars, recalled>>

(* runPool resolves or rejects when no worker is left.                     *)
TreeEnds(t) ==
  /\ Quiet /\ stage[t] = "running" /\ mode[t] = "tree" /\ OpenQuestions(t) = {}
  /\ \/ t \notin aborted \cup stopped /\ Finish(t, "completed")
     \/ Finish(t, "over")
  /\ UNCHANGED worldVars
-----------------------------------------------------------------------------
(* cancelRun for all of S, whose contexts C are withdrawn or whose batch   *)
(* B is cancelled: entries leave the queue, runner entries are cancelled   *)
(* with their streams and questions, the others are marked.                *)
Recall(S, withdrawnNow, withdrawnRequests) ==
  LET gone == RequestsOf(withdrawnRequests)
      p == Prompted(gone, strategy)
      drop == Dropped(S)
      run == {t \in S : InFlight(t)}
  IN /\ aborted' = aborted \cup {t \in run : stage[t] = "running"}
     /\ cancelled' = cancelled \cup run
     /\ withdrawn' = (withdrawn \cup withdrawnNow) \ drop
     /\ Shows(p, order)
     /\ answer' = Answered(p.served, strategy)
     /\ stage' = Served(Rejected(Reset(stage, drop, "over"), withdrawnRequests), p.served)
     /\ recalled' = (recalled \cup run) \ drop
     /\ mode' = Reset(mode, drop, "direct") /\ batch' = Reset(batch, drop, NoBatch)
     /\ UNCHANGED <<birth, target, running, stopped, asked, strategy, chain>>

Contexts == {t \in T : HasContext(t)}

(* sftp:cancelTransfer                                                     *)
CancelTransfer(t) ==
  /\ Quiet /\ ~windowGone /\ (stage[t] = "waiting" \/ InFlight(t)) /\ t \notin recalled
  /\ Recall({t}, {t} \cap Contexts, {t})
  /\ UNCHANGED <<batchCancelled, claims, worldVars>>

(* sftp:resolveUploadConflict with an action: of the prompt that is shown  *)
Decided(action, all) ==
  IF all THEN [strategy EXCEPT ![batch[visible[1]]] = action] ELSE strategy

Respond(action, all) ==
  LET strats == Decided(action, all)
      p == Prompted({visible}, strats)
  IN /\ Quiet /\ ~windowGone /\ visible # NoRequest
     /\ strategy' = strats
     /\ Shows(p, order)
     /\ answer' = [t \in T |-> IF stage[t] = "asking" /\ visible = <<t, 1>> THEN action
                               ELSE Answered(p.served, strats)[t]]
     /\ stage' = Served(stage, p.served \cup {visible})
     /\ UNCHANGED <<runVars, target, running, cancelled, runnerVars, withdrawn,
                    batchCancelled, claims, chain, worldVars, recalled>>

(* ... or cancel: the whole batch is cancelled.                            *)
Members(b) == {t \in Contexts : batch[t] = b}

RespondCancel ==
  /\ Quiet /\ ~windowGone /\ visible # NoRequest
  /\ LET b == batch[visible[1]] IN
       /\ batchCancelled' = batchCancelled \cup {b}
       /\ Recall(Members(b), {}, Members(b))
  /\ UNCHANGED <<claims, worldVars>>

(* The window is destroyed: cancelOwner.                                   *)
WindowCloses ==
  /\ Quiet /\ ~windowGone /\ windowGone' = TRUE
  /\ Recall(Contexts, Contexts, Contexts)
  /\ UNCHANGED <<batchCancelled, claims, conn, gen, channel, remote>>

(* cleanupSession: the teardown hook, then cancelTransfersForSession.  A   *)
(* question whose batch is decided already may be served by the pump       *)
(* between two contexts instead of rejected: its upload is recalled by     *)
(* then and throws at its next look, so it fails here at once.             *)
Teardown ==
  /\ Quiet /\ conn = "up" /\ conn' = "down" /\ channel' = FALSE
  /\ Recall({t \in T : stage[t] = "waiting" \/ InFlight(t)}, Contexts, T)
  /\ claims' = {}
  /\ UNCHANGED <<batchCancelled, gen, remote, windowGone>>

(* reconnect registers a session under the same id.                        *)
Reconnected ==
  /\ Quiet /\ conn = "down" /\ gen < MaxConns
  /\ conn' = "up" /\ gen' = gen + 1
  /\ UNCHANGED <<stage, runVars, target, answer, running, cancelled, runnerVars,
                 withdrawn, batchVars, promptVars, claims, chain, channel, remote, windowGone,
                 recalled>>

(* watchSftpChannel: the channel ends and the session lives on.            *)
ChannelDies ==
  /\ Quiet /\ channel /\ channel' = FALSE
  /\ UNCHANGED <<stage, runVars, target, answer, running, cancelled, runnerVars,
                 withdrawn, batchVars, promptVars, claims, chain, conn, gen, remote, windowGone,
                 recalled>>
-----------------------------------------------------------------------------
MicroStep(t) == Unwinds(t) \/ Begin(t) \/ StartCheck(t) \/ Rejoin(t) \/ StartUpload(t)
Answers(t) == ExistsAnswers(t) \/ ListAnswers(t)
RunnerStep(t) == FileEnds(t) \/ TreeEnds(t)

UserStep ==
  \/ \E t \in T, m \in Modes, b \in Batches : Submit(t, m, b)
  \/ \E t \in T : CancelTransfer(t)
  \/ \E a \in Strategies, all \in BOOLEAN : Respond(a, all)
  \/ RespondCancel \/ WindowCloses

SessionStep ==
  \/ \E g \in 1 .. MaxConns : ChannelOpens(g) \/ ChannelRefused(g)
  \/ Teardown \/ Reconnected \/ ChannelDies

TransferStep(t) ==
  \/ MicroStep(t) \/ Answers(t) \/ RunnerStep(t) \/ FileOfTreeFails(t)
  \/ \E f \in Files : AskFile(t, f)

Next == UserStep \/ SessionStep \/ \E t \in T : TransferStep(t)

Spec == Init /\ [][Next]_vars

-----------------------------------------------------------------------------
(* A transfer that was cancelled, by the user, with its batch, with its    *)
(* window or with its session, is not handed to the runner afterwards and  *)
(* does not complete; what has ended stays ended, with one terminal event. *)
CancelledNeverRuns ==
  [][\A t \in T :
       /\ t \in recalled /\ stage[t] # "running" => stage'[t] # "running"
       /\ t \in recalled => stage'[t] # "completed"
       /\ stage[t] \in Terminal => stage'[t] = stage[t]]_vars

(* No question is stuck and none is orphaned: a window with questions      *)
(* shows one of them, about a batch that is undecided, and each belongs to *)
(* a run that waits for the answer and that nobody has cancelled.          *)
PromptsAreLive ==
  /\ requests # {} => visible \in requests /\ strategy[batch[visible[1]]] = Undecided
  /\ requests = {} => visible = NoRequest
  /\ \A q \in requests :
       /\ stage[q[1]] \in {"asking", "running"}
       /\ q[1] \notin recalled \cup stopped

(* Claims end with the upload that made them: none is left to push later   *)
(* uploads to other names, whatever path the run or its session took.      *)
ClaimsAreReleased ==
  \A n \in claims : \E t \in T : InFlight(t) /\ target[t] = n

(* No transfer hangs: each wait has what ends it.  A waiting entry has one *)
(* that runs, and whose end admits the next; an open waits for an answer   *)
(* on a connection; an upload in the resolve chain is behind one whose     *)
(* check runs or is about to; a question has its request, and one of the   *)
(* window's is shown to a window that is there.  The other stages wait for *)
(* the server or the runner, or go on at once.                             *)
InChain(t, g) == \E i \in 1 .. Len(chain[g]) : chain[g][i] = t

NothingStuck ==
  \A t \in T :
    /\ stage[t] = "waiting" => \E u \in T : InFlight(u)
    /\ stage[t] = "opening" => birth[t] \in 1 .. MaxConns
    /\ stage[t] = "inline" =>
         \E g \in 1 .. MaxConns :
           InChain(t, g) /\ stage[Head(chain[g])] \in {"inline", "checking", "listing"}
    /\ stage[t] = "asking" => <<t, 1>> \in requests
    /\ stage[t] = "asking" \/ OpenQuestions(t) # {} => visible # NoRequest /\ ~windowGone

(* rename never hands out a path that another upload of the session is     *)
(* writing, whichever uploads of this connection or of the one before have *)
(* claimed and released it meanwhile (claimedRemotePaths).                 *)
RenameNeverShares ==
  [][\A t, u \in T :
       /\ target[t] = NoTarget /\ target'[t] # NoTarget /\ mode[t] = "rename"
       /\ channel /\ {t, u} \cap recalled = {} /\ stage[u] = "running"
       => target[u] # target'[t]]_vars
=============================================================================
