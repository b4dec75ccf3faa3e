# LiteConnect: formal models

LiteConnect is an Electron SSH workbench: a main process that owns SSH
connections, SFTP, tunnels, databases, an MCP runtime and an AI agent, and a
renderer that shows them. These modules model the part of the **main process**
where the order of events decides whether the program is right. JavaScript runs
each callback to completion, so in every module **one action is one synchronous
stretch of code** (a handler, a callback, the code between two awaits), and
every await, timer, IPC request or event of ssh2 is a point where another action
may come first.

Contents: 1 inventory, 2 modules and code, 3 runs and bounds, 4 fairness,
5 proofs, 6 what the runs found, 7 not modelled, 8 plan.

## 1. Inventory

| Component | State | Operations | Interacts with | Hard behaviour | Correct when |
|---|---|---|---|---|---|
| **SSH sessions** `electron/ssh/manager.ts`, `connectionService.ts`, `electron/ipc/registerSshConnectHandlers.ts` | `sessions`, `sessionEpoch`, `pendingReconnects`, `pendingHostKeys`, clients, forwards | connect, reconnect, cancel, disconnect, confirm/reject host key; events of target and jump client, shell stream | limiter; teardown hooks; renderer callbacks; window registry | superseded attempts return late; one attempt settles many times; jump host dies under a live session | the map holds the current generation, nothing leaks, nothing is silent, closed tabs stay closed |
| **Connection limiter** `ssh/connectionLimiter.ts` | `active`, `waiting` | run, abort | reconnect | wake-up and re-check, aborts in between | limit holds, no lost wake-up |
| **SFTP transfers** `ssh/transfer/*`, `ipc/registerSftpTransferHandlers.ts` | queue per session, `pendingRuns`, claims, conflict prompts | enqueue, run, cancel, resolve target, teardown | sessions | cancellation between queue and runner; claims deleted under running uploads; one question at a time for several batches | no path handed out twice, no orphan run, no dead question, nothing hangs |
| **Port forwards, X11, authentication, trust** `ssh/*Forwards.ts`, `connectionX11.ts`, `connectionAuth.ts`, `ssh/trust/*` | listeners, displays, prompts, known hosts | open, close, ask, verify | sessions | prompts that time out | resources end with the session |
| **Monitoring, alerts, diagnosis** `ssh/monitor/*`, `ssh/diagnosis/*` | samplers, alert states | sample, evaluate, notify | sessions, persistence | consecutive samples, recovery | one alert per incident |
| **Docker, databases** `docker/*`, `db/*` | transports, streams, pools, tunnels | queries, logs, exec, export | sessions, credentials | stream and tunnel teardown | resources end with their owner |
| **MCP runtime** `mcp/*` | `McpJobStore`, PTYs, gateway | start, cancel, list, settle; open, close, sweep | sessions (teardown hook, generations), AI | cancellation races start; a channel arrives after its session or the runtime is gone; PTY limit counted before an await | a job settles once, a shell ends with its session |
| **AI execution** `ai/execution/executionService.ts`, `chatStream.ts` | running histories, selections, owners | run, abort, suppress, dispose | background jobs, history, tools | reply and delivery compete for one history | one reply per history |
| **AI background jobs** `ai/execution/backgroundJobs.ts` | owners, pending batches, suppressed, wakes, delivering | bind, settled, drain, requeue, collect | execution, MCP jobs | several drains suspended in deliveries | a result is told once and is not lost, stop is final |
| **AI deferred jobs** `ai/schedules/deferredJobs.ts` | records (persisted), `bound`, `pendingRecords` | schedule, tick, run, settle, cancel, dispose, recover | MCP job store, background jobs, windows | two delivery paths; quit, crash, restart | begun once, told once, ends |
| **AI schedules** `ai/schedules/scheduler.ts` | plans, runs (persisted), active run, deliveries | save, remove, tick, run, stop, dispose, recover | orchestrator, webhook, persistence | failed writes, late callbacks, time zones | a slot runs once, outcomes are final |
| **AI tools** `ai/tools/*` | pending approvals and questions | ask, answer, abort, time out | execution, renderer | answer races timeout | settles once |
| **AI workspace** `ai/workspace/*`, `ipc/registerSshConnectHandlers.ts` | connection entries per window, attempts with their controllers, the pending host key | open, complete, cancel, close, confirm, reject, dispose | sessions (teardown hook), windows, terminal tabs of the same connection | cancel, close or replace while opening; one pending key for everybody | entries are live, nothing outlives its window, a cancelled attempt completes nothing |
| **AI history, knowledge, persistence** `ai/history/*`, `ai/knowledge/*`, `store/*` | SQLite documents | read, save, delete | everything | write that fails | a failed write is noticed |
| **Application lifecycle, windows** `application/*`, `main.ts`, `window/*` | stopping flag, owners of sessions | stop, drain, close, own | everything | order of stopping; drain deadline | nothing persisted is lost by a quit |
| **Renderer** `src/*` | tabs, reconnect budget | user actions | main process by IPC | may ask anything at any time | environment of the models |

## 2. Modules and code

| Module | Models | Of |
|---|---|---|
| `SshSession` | one session id: generations, attempts, map entry, host-key question, requests of its tab | `SSHManager`, `ConnectionService`, connect IPC |
| `SshSession_proofs` | its theorems | |
| `SlotPool` | what a limiter promises, without queues or wake-ups | abstract |
| `ConnectionLimiter` | the limiter of one key; implements `SlotPool` | `ConnectionLimiter.run` |
| `ConnectionLimiter_proofs` | its theorems and the refinement | |
| `AiBackgroundJobs`, `AiBackgroundJobsMC` | batches, drains, deliveries and the replies they start; values for TLC | `AiBackgroundJobs`, parts of `AiExecutionService` |
| `AiBackgroundJobs_proofs` | its theorems | |
| `AiDeferredJobs` | records and their persisted copy, job store entries, bindings, both delivery paths, session and window | `AiDeferredJobs`, `McpJobStore`, `bindDeferredJob`, `recordCancelledJob`, quit order |
| `AiDeferredJobs_proofs` | its theorems | |
| `AiScheduler` | plans, run records, snapshot, active run, timeout, reports, clock and zone | `AiScheduler`, `nextAiScheduleRun` |
| `AiScheduler_proofs` | its theorems | |
| `SftpTransfers` | the transfers of one SFTP session: queue, channel, target resolution, questions, runner, cancellations, teardown, reconnection | `registerSftpTransferHandlers`, `TransferQueue`, `UploadConflicts`, `TransferRunner`, `SftpSessionOps.initSftp` |
| `SftpTransfers_proofs` | its theorems | |
| `WorkspaceConnections` | entries, attempts and the pending host key of one saved connection, terminal tabs beside the AI | `AiWorkspaceConnections`, `registerSshConnectHandlers`, `confirmHostKey`, `useSecurityDialogs` |
| `WorkspaceConnections_proofs` | its theorems | |
| `AgentPtys` | the agent's interactive shells, parameterised by the live sessions | `PtySessionStore`, `SshMcpRuntime`, `openShellChannel` |
| `AiWorkspace` | the composition of the last two: whatever ends a session runs the hooks of both | `notifySessionTeardown` |
| `AiWorkspace_proofs` | the theorems about the shells and the composition | |

**SshSession.** An attempt is named by its generation (`epoch`); `phase[g]` says
at which await `openConnection` of `g` stands, `settled[g]` what its promise is,
`client[g]`/`jump[g]` the transports (`new`, `up`, `ending` after `end()`,
`closed`, `disposed` once the listeners are gone), `forwards[g]`, `stream[g]`.
`registered` is the entry of `sessions`. Every callback of `openConnection` is an
action that first asks `IsLiveEpoch`, as the code does. `queued` and `running`
are the reconnect in the limiter and the entry of `pendingReconnects`; the
limiter is a step of its own here and modelled in `ConnectionLimiter`. `told[g]`
means that `onError`, `onClose` or the IPC answer reached the renderer. The
connect handler's signal, `confirmHostKey` over its await of the known-hosts
write, and disconnects by another window (`SeveralWindows`) are included.

**ConnectionLimiter.** `active` and `waiting` are the two Maps' entries of one
key; keys share no state. `woken` is the state between the wake-up and the
microtask that re-checks. The refinement maps running callers to the holders of
`SlotPool`, and callers that are done or cancelled to `over`.

**AiBackgroundJobs.** A batch is an object with an identity (`1 .. MaxBatch`),
for a drain keeps the object it copied while `pending` may hold another for the
same conversation. A drain is suspended only in the delivery of one history, so
`stage`, `current`, `left` of that history are its local variables. A delivery reads
the history (`reading`), begins a reply, which stores its record over further awaits
(`starting`), and asks the model (`reply`); the controller of the reply is made between
the first two, and from then on only its signal, `aborted`, is looked at. So a stop
that comes before the controller is seen by the guard, and one that comes after must
reach the signal: `Suppress` aborts a background reply of its conversation and leaves
those of a human, as `suppressBackground` does. `owed` is a history variable: results
whose conversation still wants them. Left out: a thread deleted while its result is
delivered, the difference between the owner's window and the workspace that a
conversation of LiteAI belongs to (`ownerAlive`, `executionAvailable`), and the
`cancelled` callback (that is `ResultWritten` of `AiDeferredJobs`).

**AiDeferredJobs.** All jobs belong to one conversation on one host. The session of
the host is a terminal tab's or a LiteAI transport's (`session`), and `at` is the one
a record names, which need not be the one that is open. A result queued in
`AiBackgroundJobs` counts as told, for what happens then is that module's subject, if a
view selects the conversation it is queued in, and is put in `strayed` otherwise. A
cancelled result is not queued on either path but written (`writing`), which takes an
await during which its window or session may go and the record be dropped; it is told
only when it is written. Quitting runs `deferredServices.stop`: `StopTurn` is the order
in which the clock and the runtime are disposed, and the runtime's job store cancels
every entry it holds. That nothing is cancelled on disk follows from that order and is
not part of the model; a crash runs none of it. The call of `schedule` and the `bind`
that follows it are one action: only microtasks lie between them
(`toolExecution.ts:113`, `:247`). `excused` collects the results the code deliberately
tells nobody: the application quit, the user stopped the conversation, its window
closed. Database writes succeed; the daily pruning of finished records is left out.

**AiScheduler.** Time is counted in slots. A plan or run record is a small
record of what the properties distinguish; `disk` is the snapshot on disk, and
`Persists` may fail up to `MaxFailures` times wherever the code persists. The
executor and the webhook are environment: they answer when and how they like,
also after `dispose`. The limit of 50 plans is above `Plans`; a failed write in
`save` or `remove` changes nothing and is therefore no step; a behaviour that has
used `MaxRuns` runs begins no more.

**SftpTransfers.** `stage[t]` is the await at which the run of `t` stands, from the
queue (`waiting`; transfers are submitted in order, so the waiting ones in that
order are the queue) over the channel (`opening`), the target (`inline`, `checking`,
`listing`, `asking`) to the runner (`running`); the stages of `Micro` are
continuations of settled promises, and no event comes before them (`Quiet`). The
uploads of the model all ask for one name, since uploads to different names do not
meet; names are numbers, so that `FreeName` counts as `nextRemoteName` does.
`chain[g]` is the resolve chain of the connection `g` of the session id, `claims`
the Set of claimed paths, `requests` and `visible` the Maps of `UploadConflicts`
(a Map lists its entries as they were inserted; `order` is that order, as pairs),
`cancelled`, `withdrawn` and `batchCancelled` the three flags a cancellation sets and
`aborted` that of the runner. `recalled` is a history variable: who was cancelled. A
transfer whose end has been reported is forgotten but for its stage. Left out:
resumed uploads and explicit targets (they skip the resolution), the walk of a tree,
the workers of a tree but for their questions (two of them), the count that forgets
a batch after its last upload (no identifier is used again), the wait for the settings
store before a submission, and what the renderer is told of an upload that was skipped.
The fallback name of `rename` (`Date.now()` in base 36) is taken to be unique. A teardown rejects
every question; in the code the pump between two contexts may serve one whose batch is
decided, and its upload, recalled by then, throws at its next look instead.

**WorkspaceConnections.** One saved connection; entries and keys of two connections
never touch. `att[i]` is the `i`-th run of `ssh:connect`, `ai:openWorkspaceConnection`
or `ssh:confirmHostKey`, with its AbortController; a session is named after the
attempt that drew its id, and a confirmation resumes the session that failed on the
key. `line[s]` is the attempt whose signal the handshake of `s` listens to. The
handshake itself is `SshSession`; here it comes up, fails, or fails on an untrusted
key. `dialog[w]` is the question on the screen of `w`, with the purpose it was sent
with, for the renderer decides by that purpose whether a session gets a tab.
`dropped[w]` is a history variable: which attempts had begun when `w` last cancelled
an open. `Disconnect` is `ssh:disconnect`, which also aborts the confirmations under way
for its session; `SessionEnds` is the server's end. `ssh:reconnect` of a terminal tab is
the subject of `SshSession` and not here. The pending key is set in the step that rejects the attempt (the
host verifier sets it earlier in the same handshake, and nobody asks for it before),
and the wait in the limiter before the handshake of a confirmation is part of that
handshake.

**AgentPtys, AiWorkspace.** Generations are not counted: an open under way is
`stale` once a session of its id was torn down. `TornDown(S)` is what the runtime's
hook does when the sessions `S` end; `AiWorkspace` conjoins it to every step of
`WorkspaceConnections`, as the manager calls all hooks in the step that tears down.
`live` and `AgentPtys` share nothing else, so `AllSpec => Spec` (section 5).

`PROJECT.json` maps every definition to the lines it stands for. Each module has
a section "Faulty variants": the bugs that each property is checked to detect.

## 3. Runs and bounds

| Run | Question | Bounds | Distinct states |
|---|---|---|---|
| `SshJump` | may generations disturb each other; does everything settle and release? | 3 generations, jump host, fair | 583,987 |
| `SshJumpSilent` | is a dropped jump connection told? **No** (F1) | 1 generation | up to the violation |
| `BackgroundJobs` | told once, held until told, stop is final, arrives? | 2 conversations of 1 terminal, jobs of one, 2 batches, drops, fair | 361,146 |
| `BackgroundLost` | is no result lost across terminals? **No** (F2) | 2 terminals, 3 jobs, 3 batches | up to the violation |
| `ConnectionLimiter` | wake-ups, service, refinement of `SlotPool` | 5 callers, limit 2, fair | 41,455 |
| `DeferredJobs` | begun and told once, every end told, books agree, quit keeps jobs, every job ends? | 2 jobs, 1 scheduled at a time, 1 quit or crash, fair | 443,021 |
| `DeferredWindow` | is a cancellation told when the window closed? **No** (F3) | 1 job | up to the violation |
| `Scheduler` | slots, spinners, outcomes, removed plans, quiet after dispose, starvation | 1 plan, 3 runs, 1 failed write, 1 crash, fair | 308,484 |
| `SftpTransfers` | cancelled runs, questions, claims, anything stuck? | 2 transfers, up to 2 batches, 2 connections, limits 0 and 2 | 619,634 |
| `SftpRename` | does rename hand a path out once? **No** (F4) | 3 uploads, 2 connections | up to the violation |
| `AiWorkspace` | live entries, destroyed windows, stale attempts, shells, settling opens | 2 windows, 1 with tabs, 3 attempts, 1 PTY, fair | 356,436 |
| `WorkspaceTabs` | do AI sessions stay apart from tabs? **No** (F5) | 1 window, 3 attempts | up to the violation |

Why the bounds are enough. Two generations interact through the map and the
epoch only, so an outdated, a current and a coming one is every combination the
guards can tell apart. The jump host adds states and removes none: a profile
without one takes the same steps from the handshake on, and the theorems of
section 5 cover both. Five callers and two slots have
callers that run, that are woken and lose the re-check, and that queue behind
them. Two jobs and two batches allow a batch in delivery, a newer pending one,
and their merge, while a second conversation looks at the same history. With two
scheduled commands, one of which is pending at a time,
one runs or is settled while the other waits. Three runs with one record kept
push a record out of the history while its report is on its way. Two transfers
are one that holds a claim, the chain or the screen and one that waits for it, on
the same connection or on the next one of the session; a tree asks two questions by
itself, and two batches are needed for an answer to serve one and show the other. Three
attempts are an open, the confirmation of its key and an open or a tab that comes
between, by another window or by the same. One PTY is enough, since PTYs meet in
the limit only, and the limit is no property (the code does not keep it).

Deadlock checking is off in every run: every model may come to rest (all
attempts are over, the bounds are used up), as the program may.

## 4. Fairness

`SshSession` assumes that armed timers fire, that handshakes end (ssh2's
`readyTimeout`) and that the looks at the local display answer; not that a shell
opens, a known-hosts write returns or a user does anything. `AiBackgroundJobs` assumes
that the coalescing timer fires,
that history reads answer, that a reply which has begun fails, is stopped or asks the
model, and that replies end; all but the timer strongly, since a drain inside its loop
disables them for an instant. `ConnectionLimiter` assumes
that microtasks run and tasks end (a handshake has a deadline). `AiDeferredJobs`
assumes that time passes, the clock ticks, the user starts the application again
after a quit, `startScheduledJob` answers or throws, and remote commands end
(`jobTimeoutMs`). `AiScheduler` assumes that
the 30-second interval and the timeout fire and that an aborted execution
unwinds; it does **not** assume that an execution ends by itself, which is why
`OverdueRuns` depends on the timeout. `AiWorkspace` assumes that stores come up or
fail, that a handshake comes up or fails by its deadlines, and that continuations
run; not that a user answers a question, for an open that ends in a question has
settled. `SftpTransfers` states no fairness: `NothingStuck` is an invariant, which says
of each wait that what ends it is there. That the server answers, the user decides and
a run ends is not assumed, so it does not say that every transfer ends.

## 5. Proofs

`SshSession_proofs` proves, for every number of generations, with and without a
jump host, for one or several windows: type correctness, `RegisteredIsCurrent`,
`SettledReleases`, `ClosedTabStaysClosed`, `NoStaleNotice`, and, without a jump
host, `DropIsTold` (with one it is false, F1). The inductive invariant `Inv` is
`TypeOK`, `RegisteredIsCurrent`, `SettledReleases` and `Unreached` (generations
beyond the current one have not begun); without the last a new generation could
inherit resources. `ClosedTabStaysClosed` needs `NoRevival` besides: once the tab
is closed no reconnect is queued or running, no unconfirmed save goes on, and no
attempt of the current generation is still pending. The many callbacks that only
settle or release share the lemmas on `SafeReject`, `AbortAll` and `Cleanup`.

`ConnectionLimiter_proofs` proves, for any finite set of callers and any positive
limit, types, the limit, that nobody sleeps while a slot is free, that aborted
callers stay out, and that the limiter implements `SlotPool`. The invariant ties
`active` to the number of running callers and `waiting` to the queued ones;
without it a release could leave the counter above the tasks.

`AiBackgroundJobs_proofs` proves, for any conversations, histories, sessions and
jobs, types, `StopIsFinal`, and `ResultsStay`: no step but that of a drain with a
stale copy (F2) takes a wanted result away before it is told. So a result is lost by
that race or not at all, whichever deliveries are refused, fail or are merged with
newer results. Their invariant says of batches whose results they hold (`BatchesOK`),
that none is pending and in delivery at once and that a delivery hands over what its
batch holds (`DrainsOK`; a batch put back would otherwise lose or repeat results),
and that nothing is wanted by a stopped conversation or a closed window (`WantedOK`),
which is where `requeue` drops the batch. `StopIsFinal` spans the awaits between the
check of the stop and the request to the model, where nothing looks at the stop again:
it needs `StopsOK`, that a reply under way for a stopped conversation or a closed window
has its signal set, which every stop, close and start of a reply must keep.

`OneLauncherToldOnce` proves `ToldOnce` under the hypothesis that all jobs are of one
conversation, which is what the run checks too; with a second conversation it is false
for the reason of F2. `OnceInv` says why one conversation is enough: the copy that a
drain takes has one batch, so no drain comes back from a delivery with batches it has
not looked at (`CopiesOK`); a result is queued once, when its command has ended
(`EndedOK`); and what is told, pending, read by a running reply or in delivery is
exactly one of these (`ToldOK`), for `get_job` and `drain` both take a batch away and
may both put one back.

`AiDeferredJobs_proofs` proves, for any set of jobs, any limit of scheduled ones and
any number of quits, types, `BegunOnce`, `ToldOnce`, `EndIsTold`, `StoreAgrees` and
`CancelledByHand`. While the application is up the invariant relates each record to
its store entry, its binding and what was begun and told (`JobOK`); while it is
down, to what the copy on disk must allow (`Kept`), for the restart recovers from
that copy alone. `JobOK` is stated of given records and entries and not of the
variables, so that the first tick after a restart, which starts from recovered
records, and the tick of the clock are one lemma (`TickInv`). That a quit keeps the
scheduled jobs (`QuitKeepsJobs`) is a fact about the order of `stop`: the records no
longer hear of the job store when the runtime cancels its entries
(`NothingCancelled`). Its heart is what
`bound` may hold: the running jobs whose result a window will tell or nobody is
to be told. Every way to settle a running job shares the lemma `SettleJob`.

`AiScheduler_proofs` proves, for any plans and any bounds on history, clock, failed
writes and crashes, types and all safety properties of the run. A write may
fail, so memory and disk differ; `Books` is what holds of either, for a restart
takes over the disk: no slot that was claimed lies ahead, removed plans have no
records, and records are of the shapes that recovery understands. `Alive` adds
what holds of a process: only the active run shows work, and only a delivery under
way, or a failed write, leaves "sending" in a record. The properties alone are not
inductive: that a stopped run never completes needs that its signal is aborted, and
that a late delivery does not touch a cancelled record needs that only completed and
failed runs have deliveries. `SendingIsSent` is proved step by step: runs that begin and
ticks say of no record that its report is sent (`BeginsSays`, `TickSays`), and a delivery
that answers after dispose finds the word gone. `NewestKeeps` shows that the history keeps its
limit and the record of the run that begins.

`SftpTransfers_proofs` proves, for any number of transfers, batches and connections
and any limits, `ClaimsAreReleased` and `CancelledNeverRuns`. A claim can be traced to
its upload only while the target is kept, so the invariant adds that a target is set
by the resolution and lasts to the end of the run (`TargetOK`); two uploads may share
a claim (F4), and then it is released early, never late. `RecalledOK` says that
whoever was cancelled is marked where the next look falls: in `pendingRuns` or by its
batch before the runner, by the entry in it. For these two the prompts themselves
do not matter: a question that is served or rejected moves a transfer from `asking`
only (`ServedInv`), and the five ways to cancel share `RecallInv`.

On top of that, `More` proves types, `PromptsAreLive`, and that the queue counts exactly
the entries that left it and have not ended (`PlacesKept`; no run states it). That a
question is never orphaned needs to know which transfers may have one (`RunsOK`) and
that whoever was recalled is withdrawn or of a cancelled batch, for it is `ask` that
refuses them. The requests of a window and their order are sets, and `PumpedFacts` says
all that the proofs need of `pump`: what is shown is left and undecided, who is served
is not left. `PumpCount` and `Moves` give the arithmetic of the count: what leaves the
queue, and that a move between two stages of a run changes nothing.

`Waited` proves `NothingStuck` (`NothingHangs`). While an entry waits another one runs
(`QueueOK`): the queue is pumped whenever a place becomes free, with the exact count and
a limit of at least one, so it lets go the first that waits, which exists for numbers
are well-founded (`FirstOf`). An upload that is resolved stands in one chain, once, and
only the first of a chain is under way (`ChainOK`, also a theorem of its own,
`ResolvedInTurn`); appending and removing are `ChainJoined` and `ChainLeft`. Who asks has
its request, for `pump` keeps or serves every one (`PumpedWhole`), and a window that is gone has none (`AskingOK`), so by `PromptsOK` one of them
is on a screen that is there.

`WorkspaceConnections_proofs` proves, for any windows and any number of attempts, types,
that a window that is gone owns nothing, that an entry hands out live sessions only, and
`StaleNeverCompletes`. The attempts come first (`AttemptsInv`): which session each one
has, that until an attempt fails on its key nobody else knows its session (`FreshOK`),
and that whatever was under way for a destroyed window or a cancelled open has an
aborted signal (`AbortedOK`), which is the fact `complete()` relies on when it looks an
entry up by its name. `EntriesInv` drops the premise `Quiet` of the property: entries
are live within a chain of continuations too, which is what makes it inductive; the
steps that end sessions share `ClosedIsLive`, for all of them run `closed()`.

`AiWorkspace_proofs` carries all of that over to the composition (`WorkspaceRefines`,
`WorkspaceKeeps`) and proves, for any number of PTYs, that no shell outlives its session
(`ShellsEnd`) and that a disposed runtime holds none (`ShellsDisposed`). `ShellsInv` adds
that an open under way is on a live session or knows that it is stale; without it a late
channel could be registered on a session that has come back.

The only assumptions are the modules' named assumptions on constants, and two
hypotheses that theorems state: no jump host (`DirectDropIsTold`) and one conversation
(`OneLauncherToldOnce`). Only model-checked is liveness (`EveryAttemptSettles`,
`Served`, `ResultsArrive`, `EveryJobEnds`, `OverdueRuns`, `OpensSettle`), which is out
of the prover's reach.

## 6. What the runs found

* **F1 `SshJumpSilent`**: an error of the jump client of a *live* session cleans
  up and rejects a promise that has settled; nobody calls `onClose`, though
  `connectLifecycle.ts` says "a live session must notify".
* **F2 `BackgroundLost`**: a drain that comes back from a delivery clears whatever
  batch the next conversation of its copy has pending by now, and delivers the one
  it copied: the newer result is lost, though `docs/AI.md` says that results are sent
  to their conversation when the task ends. With the invariant `ToldOnce` the same
  instance shows a batch that is delivered twice.
* **F3 `DeferredWindow`**: when a window closes while its deferred command runs,
  `bound` still says that a window will tell the result, and neither path does.
* **F4 `SftpRename`**: the claims of a session are a Set, so an upload that
  overwrites shares the claim of another; the first of the two to end releases it,
  and a rename hands out the path the other is writing, though the comment on the
  claims says "rename must never hand one out twice".
* **F5 `WorkspaceTabs`**: `ssh:confirmHostKey` takes its purpose from the window's
  AI entry and not from the question; the confirmation of a terminal tab's key while
  an AI open is under way gives the tab's session to the AI, though AI sessions are
  "dedicated ... independently of terminal tabs".

Weaker observations are stated in the properties rather than as findings, each as an
exemption of exactly what the code does:

* `EveryAttemptSettles` exempts an attempt that is superseded while the X11 fallback
  probes the display: its promise never settles.
* `SendingIsSent` exempts the one record whose own result could not be written.
  `executeRun` sets it to "sending" before it saves; when that write fails no report is
  sent, and the record in memory says "sending" until the next start, though
  `docs/AI-RUNTIME.md` says that the result is saved first. A write that fails for any
  other record excuses nothing.
* `EndIsTold` exempts the results in `strayed`. Transports of LiteAI do have a registered
  window, contrary to the comment in `executionService.ts`, so a job that falls due on
  one is rebound to its session, and its result is queued in a conversation that no view
  can select.
* `OpensSettle` ends at the question: when a tab of the same connection is cancelled the
  pending key of the AI is rejected with it, and the entry waits for a host verification
  that nobody can give until it is cancelled.

`RenameNeverShares` fails in a second way, which a longer trace shows (the instance of
`SftpRename` with `Modes = {"rename"}`): an upload of the connection before claims its
name only when its existence check answers, in the claims of the new connection of the
same session id; its end then releases the claim of a new upload of that name.

## 7. Not modelled

Data: SQL analysis, file contents, terminal output, prompts, known-hosts entries,
wording. Pure I/O: drivers, Docker, statistics, exports. The renderer is
environment, but for the host-key dialog. For every other component `PROJECT.json`
says what is left and why; the hazards listed there without a property name what the
code deliberately does not keep, or what remains.

Most of the repository's lines are of these kinds: views and their settings, SQL
drivers and dialects, message catalogues, test runners, lexical classification of
commands. Their behaviour is a function of data or a request and its response, with
no order of events to check; modelling them would transliterate them. The modules
cover the main process's protocols instead, which is a small share of the lines.

## 8. Plan

1. Done: SSH sessions, limiter, background jobs, deferred jobs, schedules, SFTP
   transfers, workspace connections, PTYs.
2. `ToolApprovals` and `Shutdown`: promises settled by answer, abort or timeout;
   stop, drain deadline, sealing, with the schedulers as clients.
3. Port forwards and the database tunnel: listeners that end with their session.
4. Theorems: every safety property of a passing run has one. Those of the modules of
   steps 2 and 3 come with them.
