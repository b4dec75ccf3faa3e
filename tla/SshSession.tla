----------------------------- MODULE SshSession -----------------------------
(***************************************************************************)
(* One SSH session id of LiteConnect's main process: the generations       *)
(* ("epochs") that SSHManager hands out, the connection attempts that      *)
(* ConnectionService.openConnection runs for them, the entry of the        *)
(* sessions map, the pending host-key prompt and the IPC requests that     *)
(* start, cancel and close all of this.                                    *)
(*                                                                         *)
(* An attempt is named by its generation.  JavaScript runs every callback  *)
(* to completion, so a callback is one action; every await, timer and ssh2 *)
(* event is a point where another action may come first.                   *)
(***************************************************************************)
EXTENDS Naturals

CONSTANTS MaxGen,         \* bound on the generations of a behaviour
          HasJump,        \* the profile goes through a jump host
          SeveralWindows  \* a window may disconnect a session whose attempt
                          \* another window began

ASSUME ConstantsAssumption ==
  /\ MaxGen \in Nat \ {0}
  /\ HasJump \in BOOLEAN
  /\ SeveralWindows \in BOOLEAN

Gen == 1 .. MaxGen
None == 0
Initial == 1        \* the generation of ssh:connect; later ones reconnect

Phases == {"unused", "jump", "forward", "handshake", "refused", "display",
           "recheck", "shellX11", "shell", "fallback", "abandoned", "open"}
Transports == {"new", "up", "ending", "closed", "disposed"}
JumpStates == IF HasJump THEN Transports ELSE {"none"}

VARIABLES
  epoch,       \* sessionEpoch: the current generation
  registered,  \* sessions: the attempt whose session is in the map, or None
  phase,       \* how far openConnection of an attempt has come
  settled,     \* "no" until its promise resolves or rejects
  client,      \* transport of the target ssh2 client
  jump,        \* transport of the jump client, "none" without a jump host
  forwards,    \* local, dynamic and remote forwards are open
  stream,      \* the shell channel
  told,        \* onError, onClose or the IPC layer told the renderer
  queued,      \* a reconnect waits for a slot of the limiter
  running,     \* the attempt behind the entry of pendingReconnects, or None
  hostKey,     \* the attempt whose host-key prompt is pending, or None
  confirming,  \* ssh:confirmHostKey awaits the known-hosts write
  tabClosed    \* ssh:disconnect is the last thing the tab asked for

attemptVars == <<phase, settled, client, jump, forwards, stream, told>>
requestVars == <<queued, running, hostKey, confirming, tabClosed>>
vars == <<epoch, registered, attemptVars, requestVars>>

TypeOK ==
  /\ epoch \in 0 .. MaxGen
  /\ registered \in 0 .. MaxGen
  /\ phase \in [Gen -> Phases]
  /\ settled \in [Gen -> {"no", "resolved", "rejected"}]
  /\ client \in [Gen -> Transports]
  /\ jump \in [Gen -> JumpStates]
  /\ forwards \in [Gen -> BOOLEAN]
  /\ stream \in [Gen -> {"none", "up", "closed"}]
  /\ told \in [Gen -> BOOLEAN]
  /\ queued \in BOOLEAN
  /\ running \in 0 .. MaxGen
  /\ hostKey \in 0 .. MaxGen
  /\ confirming \in {"no", "saving", "aborted"}
  /\ tabClosed \in BOOLEAN

Init ==
  /\ epoch = 0 /\ registered = None
  /\ phase = [g \in Gen |-> "unused"]
  /\ settled = [g \in Gen |-> "no"]
  /\ client = [g \in Gen |-> "new"]
  /\ jump = [g \in Gen |-> IF HasJump THEN "new" ELSE "none"]
  /\ forwards = [g \in Gen |-> FALSE]
  /\ stream = [g \in Gen |-> "none"]
  /\ told = [g \in Gen |-> FALSE]
  /\ queued = FALSE /\ running = None /\ hostKey = None
  /\ confirming = "no" /\ tabClosed = FALSE
-----------------------------------------------------------------------------
(* Faulty variants of definitions below, each a bug this code could have:  *)
(* a property that cannot tell variant and original apart says nothing.    *)
AnyEpoch(g) == TRUE                               \* no generation check
ForgottenEnd(t) == t                              \* no client.end()
NoJumpClient == "none"                            \* jump client not created
StillQueued(q) == q                               \* the limiter does not listen
UnarmedAfterFallback(g) == phase[g] = "recheck"   \* second deadline missing
-----------------------------------------------------------------------------
(* client.end() and client.destroy(): the close event follows later. *)
Ended(t) == IF t = "up" THEN "ending" ELSE t

(* disposeSshClient: listeners are gone, no event is handled any more. *)
Disposed(t) == IF t \in {"none", "closed"} THEN t ELSE "disposed"

IsLiveEpoch(g) == g = epoch
Pending(g) == phase[g] # "unused" /\ settled[g] = "no"
InFlight == {g \in Gen : Pending(g)}

(* The events of an ssh2 client reach its handlers until it closes. *)
Emits(t) == t \in {"up", "ending"}

(* closeLocalForwardServers and closeRemoteForwards *)
ForwardsClosed(g) == [forwards EXCEPT ![g] = FALSE]

(* The renderer hears of the end of a session. *)
Notified(g) == [told EXCEPT ![g] = TRUE]

JumpAtStart == IF HasJump THEN "up" ELSE "none"

(* safeReject on an unsettled attempt, with abortPendingResources; the     *)
(* rejected promise also drops the entry of pendingReconnects.             *)
SafeReject(g, clientNow, jumpNow) ==
  /\ settled' = [settled EXCEPT ![g] = "rejected"]
  /\ client' = [client EXCEPT ![g] = Ended(clientNow)]
  /\ jump' = [jump EXCEPT ![g] = Ended(jumpNow)]
  /\ forwards' = ForwardsClosed(g)
  /\ running' = IF running = g THEN None ELSE running

(* A settled promise makes safeReject a no-op; the event still moves the   *)
(* transports.                                                             *)
Ignore(g, clientNow, jumpNow) ==
  /\ client' = [client EXCEPT ![g] = clientNow]
  /\ jump' = [jump EXCEPT ![g] = jumpNow]
  /\ UNCHANGED <<settled, forwards, running>>

RejectIfPending(g, clientNow, jumpNow) ==
  \/ Pending(g) /\ SafeReject(g, clientNow, jumpNow)
  \/ ~Pending(g) /\ Ignore(g, clientNow, jumpNow)

(* abortPendingResources followed by safeReject *)
AbortAndReject(g, clientNow, jumpNow) ==
  \/ Pending(g) /\ SafeReject(g, clientNow, jumpNow)
  \/ /\ ~Pending(g)
     /\ client' = [client EXCEPT ![g] = clientNow]
     /\ jump' = [jump EXCEPT ![g] = Ended(jumpNow)]
     /\ forwards' = ForwardsClosed(g)
     /\ UNCHANGED <<settled, running>>

(* cleanupSession for the registered attempt g and the end() calls that    *)
(* accompany it.                                                           *)
Cleanup(g, clientNow, jumpNow) ==
  /\ registered' = None
  /\ client' = [client EXCEPT ![g] = clientNow]
  /\ jump' = [jump EXCEPT ![g] = Ended(jumpNow)]
  /\ forwards' = ForwardsClosed(g)
  /\ UNCHANGED <<settled, running>>
-----------------------------------------------------------------------------
(* openConnection, up to the first connect call                            *)
StartAttempt(g) ==
  /\ phase' = [phase EXCEPT ![g] = IF HasJump THEN "jump" ELSE "handshake"]
  /\ jump' = [jump EXCEPT ![g] = JumpAtStart]

(* ssh:connect with a fresh session id *)
Connect ==
  /\ epoch = 0
  /\ epoch' = Initial
  /\ StartAttempt(Initial)
  /\ client' = [client EXCEPT ![Initial] = IF HasJump THEN "new" ELSE "up"]
  /\ UNCHANGED <<registered, settled, forwards, stream, told, requestVars>>

(* The tab exists once a connect, or a confirmed retry, has resolved.      *)
TabExists == \E g \in Gen : settled[g] = "resolved"

(* ssh:reconnect: a registered session is kept, a pending entry is joined, *)
(* and otherwise the request queues at the limiter.                        *)
Reconnect ==
  /\ TabExists /\ registered = None
  /\ queued' = (queued \/ running = None)
  /\ tabClosed' = FALSE
  /\ UNCHANGED <<epoch, registered, attemptVars, running, hostKey, confirming>>

(* startReconnect: bump the generation, dispose of the registered session  *)
(* and open a new attempt.  The old generation keeps its promise.          *)
StartReconnect ==
  /\ queued /\ epoch < MaxGen
  /\ LET g == epoch + 1
         Drops(h) == h = registered
     IN /\ epoch' = g
        /\ phase' = [phase EXCEPT ![g] = IF HasJump THEN "jump" ELSE "handshake"]
        /\ client' = [h \in Gen |->
             IF h = g THEN IF HasJump THEN "new" ELSE "up"
             ELSE IF Drops(h) THEN Disposed(client[h]) ELSE client[h]]
        /\ jump' = [h \in Gen |->
             IF h = g THEN JumpAtStart
             ELSE IF Drops(h) THEN Ended(jump[h]) ELSE jump[h]]
        /\ forwards' = [h \in Gen |-> ~Drops(h) /\ forwards[h]]
        /\ stream' = [h \in Gen |-> IF Drops(h) THEN "closed" ELSE stream[h]]
        /\ running' = g
  /\ registered' = None /\ queued' = FALSE
  /\ UNCHANGED <<settled, told, hostKey, confirming, tabClosed>>
-----------------------------------------------------------------------------
(* The jump client authenticated: ask it for a channel to the target.      *)
JumpReady(g) ==
  /\ phase[g] = "jump" /\ jump[g] = "up" /\ Pending(g)
  /\ \/ /\ ~IsLiveEpoch(g)
        /\ SafeReject(g, client[g], jump[g])
        /\ UNCHANGED phase
     \/ /\ IsLiveEpoch(g)
        /\ phase' = [phase EXCEPT ![g] = "forward"]
        /\ UNCHANGED <<settled, client, jump, forwards, running>>
  /\ UNCHANGED <<epoch, registered, stream, told, queued, hostKey, confirming, tabClosed>>

(* The forwardOut callback; after a rejection it only closes the channel.  *)
ForwardOpened(g) ==
  /\ phase[g] = "forward" /\ Pending(g)
  /\ \/ /\ ~IsLiveEpoch(g)
        /\ SafeReject(g, client[g], jump[g])
        /\ UNCHANGED phase
     \/ /\ IsLiveEpoch(g) /\ jump[g] = "up"
        /\ phase' = [phase EXCEPT ![g] = "handshake"]
        /\ client' = [client EXCEPT ![g] = "up"]
        /\ UNCHANGED <<settled, jump, forwards, running>>
  /\ UNCHANGED <<epoch, registered, stream, told, queued, hostKey, confirming, tabClosed>>

(* The forwardOut callback with an error                                   *)
ForwardFailed(g) ==
  /\ phase[g] = "forward" /\ Pending(g)
  /\ registered' = IF IsLiveEpoch(g) THEN None ELSE registered
  /\ SafeReject(g, client[g], jump[g])
  /\ UNCHANGED <<epoch, phase, stream, told, queued, hostKey, confirming, tabClosed>>

(* jumpForwardTimeout, armed while the forwardOut callback is outstanding  *)
ForwardTimeout(g) ==
  /\ phase[g] = "forward" /\ Pending(g)
  /\ SafeReject(g, client[g], jump[g])
  /\ UNCHANGED <<epoch, registered, phase, stream, told, queued, hostKey, confirming, tabClosed>>

(* error on the jump client: no onError, no onClose, also not for a        *)
(* session that is up.                                                     *)
JumpError(g) ==
  /\ phase[g] # "unused" /\ Emits(jump[g])
  /\ \/ /\ ~IsLiveEpoch(g)
        /\ RejectIfPending(g, client[g], "ending")
        /\ UNCHANGED registered
     \/ /\ IsLiveEpoch(g) /\ registered = g
        /\ Cleanup(g, Ended(client[g]), "ending")
     \/ /\ IsLiveEpoch(g) /\ registered # g
        /\ registered' = None
        /\ RejectIfPending(g, Ended(client[g]), "ending")
  /\ UNCHANGED <<epoch, phase, stream, told, queued, hostKey, confirming, tabClosed>>

JumpClose(g) ==
  /\ phase[g] # "unused" /\ Emits(jump[g])
  /\ \/ /\ ~IsLiveEpoch(g) \/ registered # g
        /\ RejectIfPending(g, client[g], "closed")
        /\ UNCHANGED <<registered, told>>
     \/ /\ IsLiveEpoch(g) /\ registered = g
        /\ Cleanup(g, Ended(client[g]), "closed")
        /\ told' = Notified(g)
  /\ UNCHANGED <<epoch, phase, stream, queued, hostKey, confirming, tabClosed>>
-----------------------------------------------------------------------------
(* rememberHostKeyReject: the key of the jump host or of the target is not *)
(* trusted.  ssh2 answers with an error event on the same client.          *)
HostKeyRefused(g) ==
  /\ phase[g] \in {"jump", "handshake"}
  /\ phase[g] = "jump" => Emits(jump[g])
  /\ phase[g] = "handshake" => Emits(client[g])
  /\ phase' = [phase EXCEPT ![g] = "refused"]
  /\ hostKey' = IF Pending(g) /\ IsLiveEpoch(g) THEN g ELSE hostKey
  /\ UNCHANGED <<epoch, registered, settled, client, jump, forwards, stream,
                 told, queued, running, confirming, tabClosed>>

(* The target authenticated: open the forwards, then wait for the display. *)
ClientReady(g) ==
  /\ phase[g] = "handshake" /\ client[g] = "up" /\ Pending(g)
  /\ \/ /\ ~IsLiveEpoch(g)
        /\ SafeReject(g, client[g], jump[g])
        /\ UNCHANGED phase
     \/ /\ IsLiveEpoch(g)
        /\ phase' = [phase EXCEPT ![g] = "display"]
        /\ forwards' = [forwards EXCEPT ![g] = TRUE]
        /\ UNCHANGED <<settled, client, jump, running>>
  /\ UNCHANGED <<epoch, registered, stream, told, queued, hostKey, confirming, tabClosed>>

(* ensureLocalXBeforeShell after resolveConnectionX11: without a display   *)
(* the plain shell is requested at once.  A rejected display rejects.      *)
DisplayResolved(g) ==
  /\ phase[g] = "display" /\ Pending(g)
  /\ \/ /\ IsLiveEpoch(g)
        /\ \E next \in {"recheck", "shell"} : phase' = [phase EXCEPT ![g] = next]
        /\ UNCHANGED <<settled, client, jump, forwards, running>>
     \/ /\ SafeReject(g, client[g], jump[g])
        /\ UNCHANGED phase
  /\ UNCHANGED <<epoch, registered, stream, told, queued, hostKey, confirming, tabClosed>>

(* ensureLocalXBeforeShell after recheckConnectionX11                      *)
DisplayRechecked(g) ==
  /\ phase[g] = "recheck" /\ Pending(g)
  /\ \/ /\ IsLiveEpoch(g)
        /\ \E next \in {"shellX11", "shell"} : phase' = [phase EXCEPT ![g] = next]
        /\ UNCHANGED <<settled, client, jump, forwards, running>>
     \/ /\ SafeReject(g, client[g], jump[g])
        /\ UNCHANGED phase
  /\ UNCHANGED <<epoch, registered, stream, told, queued, hostKey, confirming, tabClosed>>

(* shellOpenTimeout, armed from the resolved display to the shell answer   *)
DeadlineArmed(g) == phase[g] \in {"recheck", "shellX11", "shell"}

ShellDeadline(g) ==
  /\ DeadlineArmed(g) /\ Pending(g)
  /\ told' = IF IsLiveEpoch(g) THEN Notified(g) ELSE told
  /\ SafeReject(g, client[g], jump[g])
  /\ UNCHANGED <<epoch, registered, phase, stream, queued, hostKey, confirming, tabClosed>>

(* handleShell with an error; only an X11 refusal of the first request is  *)
(* retried, after another look at the local display.                       *)
ShellFailed(g) ==
  /\ phase[g] \in {"shellX11", "shell"} /\ Pending(g)
  /\ \/ /\ IsLiveEpoch(g) /\ phase[g] = "shellX11"
        /\ phase' = [phase EXCEPT ![g] = "fallback"]
        /\ UNCHANGED <<settled, client, jump, forwards, running>>
     \/ /\ SafeReject(g, client[g], jump[g])
        /\ UNCHANGED phase
  /\ UNCHANGED <<epoch, registered, stream, told, queued, hostKey, confirming, tabClosed>>

(* The probe after an X11 refusal: a generation that is no longer live is  *)
(* left as it is, without a rejection and without a deadline.              *)
FallbackProbed(g) ==
  /\ phase[g] = "fallback" /\ Pending(g)
  /\ phase' = [phase EXCEPT ![g] = IF IsLiveEpoch(g) THEN "shell" ELSE "abandoned"]
  /\ UNCHANGED <<epoch, registered, settled, client, jump, forwards, stream, told, requestVars>>

(* handleShell with a channel: register the session and resolve            *)
ShellOpened(g) ==
  /\ phase[g] \in {"shellX11", "shell"} /\ Pending(g)
  /\ \/ /\ ~IsLiveEpoch(g)
        /\ SafeReject(g, client[g], jump[g])
        /\ UNCHANGED <<registered, phase, stream>>
     \/ /\ IsLiveEpoch(g)
        /\ registered' = g
        /\ phase' = [phase EXCEPT ![g] = "open"]
        /\ stream' = [stream EXCEPT ![g] = "up"]
        /\ settled' = [settled EXCEPT ![g] = "resolved"]
        /\ running' = IF running = g THEN None ELSE running
        /\ UNCHANGED <<client, jump, forwards>>
  /\ UNCHANGED <<epoch, told, queued, hostKey, confirming, tabClosed>>

(* end, error and close of the shell channel: dropLiveShell acts once, for *)
(* the registered channel of the live generation.                          *)
StreamEvent(g) ==
  /\ stream[g] = "up"
  /\ \E now \in {"up", "closed"} : stream' = [stream EXCEPT ![g] = now]
  /\ \/ /\ IsLiveEpoch(g) /\ registered = g
        /\ Cleanup(g, Ended(client[g]), jump[g])
        /\ told' = Notified(g)
     \/ /\ ~IsLiveEpoch(g) \/ registered # g
        /\ UNCHANGED <<registered, settled, client, jump, forwards, running, told>>
  /\ UNCHANGED <<epoch, phase, queued, hostKey, confirming, tabClosed>>

(* A client event of a superseded generation, or of one whose entry in the *)
(* sessions map has been taken by another.                                 *)
Superseded(g) == ~IsLiveEpoch(g) \/ registered \notin {None, g}

ClientError(g) ==
  /\ phase[g] # "unused" /\ Emits(client[g])
  /\ \/ /\ Superseded(g)
        /\ AbortAndReject(g, "ending", jump[g])
        /\ UNCHANGED <<registered, told>>
     \/ /\ ~Superseded(g)
        /\ registered' = None
        /\ AbortAndReject(g, "ending", jump[g])
        /\ told' = Notified(g)
  /\ UNCHANGED <<epoch, phase, stream, queued, hostKey, confirming, tabClosed>>

(* clientCloseOutcome: a live session notifies, a handshake rejects.       *)
ClientClose(g) ==
  /\ phase[g] # "unused" /\ Emits(client[g])
  /\ \/ /\ ~Superseded(g) /\ registered = g
        /\ Cleanup(g, "closed", jump[g])
        /\ told' = Notified(g)
     \/ /\ Superseded(g) \/ registered # g
        /\ AbortAndReject(g, "closed", jump[g])
        /\ UNCHANGED <<registered, told>>
  /\ UNCHANGED <<epoch, phase, stream, queued, hostKey, confirming, tabClosed>>
-----------------------------------------------------------------------------
(* The aborted signal replaced the one stored with the prompt, so that the *)
(* reconnect which follows the known-hosts write is refused.               *)
ConfirmAborted(c) == IF c = "saving" THEN "aborted" ELSE c

(* A reconnect that waits for a slot gives up when its signal is aborted.  *)
AfterAbort(q) == FALSE

(* onAbort of every attempt in S: reject it and dispose of both clients.   *)
AbortAll(S) ==
  /\ settled' = [g \in Gen |-> IF g \in S THEN "rejected" ELSE settled[g]]
  /\ running' = IF running \in S THEN None ELSE running

(* ssh:cancelConnect aborts every attempt of the connection and forgets    *)
(* the host-key prompt.                                                    *)
CancelConnect ==
  /\ LET S == InFlight IN
       /\ S # {} \/ queued \/ confirming = "saving" \/ hostKey # None
       /\ AbortAll(S)
       /\ client' = [g \in Gen |-> IF g \in S THEN Disposed(client[g]) ELSE client[g]]
       /\ jump' = [g \in Gen |-> IF g \in S THEN Disposed(jump[g]) ELSE jump[g]]
       /\ forwards' = [g \in Gen |-> g \notin S /\ forwards[g]]
  /\ queued' = AfterAbort(queued) /\ hostKey' = None
  /\ confirming' = ConfirmAborted(confirming)
  /\ UNCHANGED <<epoch, registered, phase, stream, told, tabClosed>>

(* ssh:disconnect, sent when the tab is closed: abort the attempts that    *)
(* carry the session id, then SSHManager.disconnect.                       *)
Aborted == InFlight \ {Initial}

Disconnect ==
  /\ TabExists /\ epoch < MaxGen
  /\ epoch' = epoch + 1
  /\ AbortAll(Aborted)
  /\ LET Drops(g) == g = registered IN
       /\ client' = [g \in Gen |-> IF g \in Aborted THEN Disposed(client[g])
                     ELSE IF Drops(g) THEN Ended(client[g]) ELSE client[g]]
       /\ jump' = [g \in Gen |-> IF g \in Aborted THEN Disposed(jump[g])
                   ELSE IF Drops(g) THEN Ended(jump[g]) ELSE jump[g]]
       /\ forwards' = [g \in Gen |-> g \notin Aborted /\ ~Drops(g) /\ forwards[g]]
  /\ registered' = None /\ queued' = AfterAbort(queued)
  /\ confirming' = ConfirmAborted(confirming)
  /\ tabClosed' = TRUE
  /\ UNCHANGED <<phase, stream, told, hostKey>>

(* SSHManager.disconnect without an abort: by the MCP runtime and by       *)
(* forceDisconnectAll for a session in the map, and by ssh:disconnect from *)
(* a window that did not begin the attempts of this session id.            *)
ManagerDisconnect ==
  /\ TabExists /\ epoch < MaxGen
  /\ epoch' = epoch + 1
  /\ \/ /\ registered # None
        /\ Cleanup(registered, Ended(client[registered]), jump[registered])
     \/ /\ registered = None /\ SeveralWindows
        /\ UNCHANGED <<registered, settled, client, jump, forwards, running>>
  /\ UNCHANGED <<phase, stream, told, queued, hostKey, confirming, tabClosed>>

(* ssh:write on a channel that is not writable: discardDeadSession keeps   *)
(* the generation, the handler broadcasts the error.                       *)
DiscardDeadSession ==
  /\ registered # None
  /\ Cleanup(registered, Ended(client[registered]), jump[registered])
  /\ told' = Notified(registered)
  /\ UNCHANGED <<epoch, phase, stream, queued, hostKey, confirming, tabClosed>>
-----------------------------------------------------------------------------
(* ssh:confirmHostKey: persist the key, then reconnect under the session   *)
(* id of the refused attempt, whatever has happened to it meanwhile.       *)
ConfirmHostKey ==
  /\ hostKey # None /\ confirming = "no"
  /\ confirming' = "saving" /\ tabClosed' = FALSE
  /\ UNCHANGED <<epoch, registered, attemptVars, queued, running, hostKey>>

HostKeySaved ==
  /\ confirming # "no"
  /\ confirming' = "no" /\ hostKey' = None
  /\ queued' = (queued \/ (confirming = "saving" /\ running = None))
  /\ UNCHANGED <<epoch, registered, attemptVars, running, tabClosed>>

(* The known-hosts write fails: the prompt stays.                          *)
HostKeyNotSaved ==
  /\ confirming # "no"
  /\ confirming' = "no"
  /\ UNCHANGED <<epoch, registered, attemptVars, queued, running, hostKey, tabClosed>>

RejectHostKey ==
  /\ hostKey # None
  /\ hostKey' = None
  /\ UNCHANGED <<epoch, registered, attemptVars, queued, running, confirming, tabClosed>>
-----------------------------------------------------------------------------
AttemptStep(g) ==
  \/ JumpReady(g) \/ ForwardOpened(g) \/ ForwardFailed(g) \/ ForwardTimeout(g)
  \/ JumpError(g) \/ JumpClose(g)
  \/ HostKeyRefused(g) \/ ClientReady(g) \/ DisplayResolved(g) \/ DisplayRechecked(g)
  \/ ShellDeadline(g) \/ ShellFailed(g) \/ FallbackProbed(g) \/ ShellOpened(g)
  \/ StreamEvent(g) \/ ClientError(g) \/ ClientClose(g)

RequestStep ==
  \/ Connect \/ Reconnect \/ StartReconnect
  \/ CancelConnect \/ Disconnect \/ ManagerDisconnect \/ DiscardDeadSession
  \/ ConfirmHostKey \/ HostKeySaved \/ HostKeyNotSaved \/ RejectHostKey

Next == RequestStep \/ \E g \in Gen : AttemptStep(g)

(* ssh2's readyTimeout ends a handshake, the channel and display awaits    *)
(* end, and armed timers fire.  Nothing else is promised.                  *)
HandshakeEnds(g) ==
  /\ phase[g] \in {"jump", "handshake", "refused"} /\ Pending(g)
  /\ JumpReady(g) \/ JumpError(g) \/ ClientReady(g) \/ ClientError(g)
AwaitEnds(g) ==
  \/ ForwardTimeout(g) \/ DisplayResolved(g) \/ FallbackProbed(g) \/ ShellDeadline(g)

Fairness == \A g \in Gen : WF_vars(HandshakeEnds(g)) /\ WF_vars(AwaitEnds(g))

Spec == Init /\ [][Next]_vars
FairSpec == Spec /\ Fairness
-----------------------------------------------------------------------------
(* The entry of the sessions map belongs to the current generation and to  *)
(* an attempt that resolved: a late shell never replaces or revives a      *)
(* session (connectionService.ts handleShell, startReconnect, disconnect). *)
RegisteredIsCurrent ==
  registered # None => registered = epoch /\ settled[registered] = "resolved"

(* An attempt that rejected, or whose session has left the map, keeps no   *)
(* port forward listening and no transport that nobody will end: every     *)
(* exit path of openConnection and of the manager releases all of them.    *)
SettledReleases ==
  \A g \in Gen : settled[g] # "no" /\ registered # g =>
    ~forwards[g] /\ client[g] # "up" /\ jump[g] # "up"

(* After the tab is closed no session comes up under its id, however far a *)
(* queued, joined or running reconnect or a confirmed host key had come.   *)
ClosedTabStaysClosed == tabClosed => registered = None

(* A resolved session that left the map while its generation is still the  *)
(* current one was not taken away by the user: the renderer has been told. *)
DropIsTold ==
  \A g \in Gen : settled[g] = "resolved" /\ g = epoch /\ registered = None => told[g]

(* A torn-down client never notifies the renderer: onError and onClose     *)
(* are called for the current generation only, and a promise that settled  *)
(* stays as it settled.                                                    *)
NoStaleNotice ==
  [][\A g \in Gen : /\ told'[g] # told[g] => g = epoch
                    /\ settled[g] # "no" => settled'[g] = settled[g]]_vars

(* Every attempt settles, whatever the interleaving of timers, aborts and  *)
(* superseding generations, so no connect or reconnect call hangs.  One    *)
(* path is exempt: an attempt superseded, without an abort, while it looks *)
(* for the display after an X11 refusal is abandoned unsettled.            *)
EveryAttemptSettles ==
  \A g \in Gen :
    phase[g] # "unused" ~> settled[g] # "no" \/ phase[g] = "abandoned"
=============================================================================
