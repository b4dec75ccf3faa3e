------------------------ MODULE WorkspaceConnections ------------------------
(***************************************************************************)
(* The SSH sessions the AI workspace opens for itself                      *)
(* (ai/workspace/workspaceConnections.ts) and the IPC handlers that open,  *)
(* verify, cancel and close them (ipc/registerSshConnectHandlers.ts).      *)
(*                                                                         *)
(* One saved connection is modelled: entries, attempts and pending host    *)
(* keys of two connections never touch.  A window owns at most one entry   *)
(* for it; terminal tabs of the same connection dial beside the AI, and    *)
(* the pending host key is one per connection, whoever failed on it.       *)
(*                                                                         *)
(* An attempt is a run of ssh:connect, ai:openWorkspaceConnection or       *)
(* ssh:confirmHostKey with its AbortController.  A session is named after  *)
(* the attempt that drew its id; a confirmation resumes the id that failed *)
(* on the key.  How a handshake runs is SshSession; here it comes up,      *)
(* fails, or fails on a host key nobody trusts.                            *)
(***************************************************************************)
EXTENDS Naturals, FiniteSets

CONSTANTS Windows,        \* web contents that may own an AI entry
          MaxAttempts,    \* attempts of one behaviour
          Tabs            \* windows that also open terminal tabs

\* 0 stands for no window: the ids of web contents begin with 1.
ASSUME WorkspaceAssumption ==
  /\ MaxAttempts \in Nat \ {0}
  /\ Tabs \subseteq Windows /\ 0 \notin Windows

Ids      == 1 .. MaxAttempts
Sessions == Ids
None     == 0
NoEntry  == [opener |-> None, session |-> None, opening |-> FALSE]
NoKey    == [id |-> None, session |-> None]
Unused   == [kind |-> "none", win |-> None, stage |-> "idle", session |-> None,
             aborted |-> FALSE, prev |-> None, shown |-> "none"]

Done     == [Unused EXCEPT !.stage = "done"]

VARIABLES
  entry,    \* entry[w]: the entry of w, by the attempt that made it
  pend,     \* the pending host key of the connection, an object with an id
  sig,      \* sig[k]: the attempt whose signal the callbacks of key k carry
  keys,     \* pending host keys made so far
  att,      \* the attempts
  begun,    \* attempts begun so far
  line,     \* line[s]: the attempt whose signal the handshake for s carries
  live,     \* sessions of the manager
  owner,    \* owner[s]: the window a session belongs to
  tabs,     \* sessions shown in a terminal tab
  dialog,   \* dialog[w]: the purpose of the host key question w shows
  gone,     \* destroyed windows
  dropped   \* dropped[w]: attempts begun when w last cancelled its open

vars == <<entry, pend, sig, keys, att, begun, line, live, owner, tabs, dialog,
          gone, dropped>>

Init ==
  /\ entry = [w \in Windows |-> NoEntry]
  /\ pend = NoKey
  /\ sig = [k \in Ids |-> None]
  /\ keys = 0
  /\ att = [i \in Ids |-> Unused]
  /\ begun = 0
  /\ line = [s \in Sessions |-> None]
  /\ live = {}
  /\ owner = [s \in Sessions |-> None]
  /\ tabs = {}
  /\ dialog = [w \in Windows |-> "none"]
  /\ gone = {}
  /\ dropped = [w \in Windows |-> 0]

-----------------------------------------------------------------------------
(* What the handlers share.                                                *)

IsAi(i)       == att[i].kind \in {"ai", "aiKey"}
Purpose(i)    == IF IsAi(i) THEN "ai" ELSE "tab"
IsConfirm(i)  == att[i].kind \in {"aiKey", "tabKey"}
Unfinished    == {i \in Ids : att[i].stage \notin {"idle", "done"}}
AttemptsOf(w) == {i \in Unfinished : att[i].win = w}
OpensOnly(w)  == {i \in AttemptsOf(w) : att[i].kind = "ai"}
AiAttempts(w) == {i \in AttemptsOf(w) : IsAi(i)}
TabAttempts(w) == AttemptsOf(w) \ AiAttempts(w)

\* Continuations of settled promises run before anything else does.
Due   == {i \in Ids : att[i].stage \in {"up", "down"}}
Quiet == Due = {}

Waiting(w) == entry[w] # NoEntry /\ entry[w].session = None

\* The handshake of a session dies: every attempt that waits for it rejects.
Cut(a, S) ==
  [i \in Ids |-> IF a[i].stage = "dial" /\ a[i].session \in S
                 THEN [a[i] EXCEPT !.stage = "down"] ELSE a[i]]

\* Handshakes that carry the signal of one of the attempts.
Carried(A) == {s \in Sessions : line[s] # None /\ line[s] \in A}

Unheard(a, A) ==
  [i \in Ids |-> IF i \in A THEN [a[i] EXCEPT !.aborted = TRUE] ELSE a[i]]
HandshakesOnly(a, A) == Cut(a, Carried(A))

\* The controllers of A abort: handshakes listen, everything else looks later.
Abort(a, A) == Cut(Unheard(a, A), Carried(A))

Idle(S) == [s \in Sessions |-> IF s \in S THEN None ELSE line[s]]

Untouched(e, S) == e

\* The teardown hook: closed() of every session of S.
Closed(e, S) ==
  [w \in Windows |-> IF e[w].session \in S THEN NoEntry ELSE e[w]]

\* finish(): the controller aborts, the attempt leaves its set; the last of a
\* set reports its end, which takes the question off the window's screen.
Finish(a, i) == [Abort(a, {i}) EXCEPT ![i] = Done]
LastOfSet(i) ==
  (IF IsAi(i) THEN AiAttempts(att[i].win) ELSE TabAttempts(att[i].win)) = {i}
Cleared(i) ==
  IF LastOfSet(i) THEN [dialog EXCEPT ![att[i].win] = "none"] ELSE dialog

Attempt(kind, w, s) ==
  [kind |-> kind, win |-> w, stage |-> "stores", session |-> s,
   aborted |-> FALSE, prev |-> None, shown |-> "none"]

-----------------------------------------------------------------------------
(* Requests of a window.                                                   *)

\* ai:openWorkspaceConnection: a live session, a running open and a waiting
\* entry answer at once; so does connectSaved while a key is pending.
OpenAi(w) ==
  /\ Quiet /\ w \notin gone /\ begun < MaxAttempts
  /\ entry[w] = NoEntry \/ (~Waiting(w) /\ entry[w].session \notin live)
  /\ pend = NoKey
  /\ begun' = begun + 1
  /\ entry' = [entry EXCEPT ![w] = [opener |-> begun', session |-> None, opening |-> TRUE]]
  /\ att' = [att EXCEPT ![begun'] = Attempt("ai", w, begun')]
  /\ UNCHANGED <<pend, sig, keys, line, live, owner, tabs, dialog, gone, dropped>>

\* ssh:connect: always a session of its own.
OpenTab(w) ==
  /\ Quiet /\ w \in Tabs \ gone /\ begun < MaxAttempts
  /\ begun' = begun + 1
  /\ att' = [att EXCEPT ![begun'] = Attempt("tab", w, begun')]
  /\ UNCHANGED <<entry, pend, sig, keys, line, live, owner, tabs, dialog, gone, dropped>>

\* ssh:confirmHostKey: the purpose is what the entry says now; the pending
\* object gets the signal of this attempt.
Confirm(w) ==
  /\ Quiet /\ w \notin gone /\ dialog[w] # "none" /\ begun < MaxAttempts
  /\ begun' = begun + 1
  /\ dialog' = [dialog EXCEPT ![w] = "none"]
  /\ att' = [att EXCEPT ![begun'] =
               [kind |-> IF Waiting(w) THEN "aiKey" ELSE "tabKey", win |-> w,
                stage |-> IF pend = NoKey THEN "down" ELSE "trust",
                session |-> pend.session, aborted |-> FALSE, prev |-> pend.id,
                shown |-> dialog[w]]]
  /\ sig' = IF pend = NoKey THEN sig ELSE [sig EXCEPT ![pend.id] = begun']
  /\ UNCHANGED <<entry, pend, keys, line, live, owner, tabs, gone, dropped>>

\* cancel() of an entry without a session: the entry goes, the AI attempts of
\* the window abort and the pending key is rejected, whoever it belongs to.
CancelEntry(w, e, a) ==
  IF e[w] # NoEntry /\ e[w].session = None
  THEN /\ entry' = [e EXCEPT ![w] = NoEntry]
       /\ att' = Abort(a, AiAttempts(w))
       /\ line' = Idle(Carried(AiAttempts(w)))
       /\ pend' = NoKey
  ELSE /\ entry' = e
       /\ att' = a
       /\ UNCHANGED <<line, pend>>

\* ai:cancelWorkspaceConnection.
CancelAi(w) ==
  /\ Quiet /\ w \notin gone /\ Waiting(w)
  /\ CancelEntry(w, entry, att)
  /\ dropped' = [dropped EXCEPT ![w] = begun]
  /\ UNCHANGED <<sig, keys, begun, live, owner, tabs, dialog, gone>>

\* ssh:rejectHostKey, and the progress event that closes the question.
Reject(w) ==
  /\ Quiet /\ w \notin gone /\ dialog[w] # "none"
  /\ dialog' = [dialog EXCEPT ![w] = "none"]
  /\ pend' = NoKey
  /\ IF Waiting(w)
     THEN /\ entry' = [entry EXCEPT ![w] = NoEntry]
          /\ att' = Abort(att, AiAttempts(w))
          /\ line' = Idle(Carried(AiAttempts(w)))
     ELSE UNCHANGED <<entry, att, line>>
  /\ dropped' = IF Waiting(w) THEN [dropped EXCEPT ![w] = begun] ELSE dropped
  /\ UNCHANGED <<sig, keys, begun, live, owner, tabs, gone>>

\* ssh:cancelConnect of a terminal tab: its attempts, if any are left, abort,
\* and the key goes.
CancelTab(w) ==
  /\ Quiet /\ w \in Tabs \ gone
  /\ att' = Abort(att, TabAttempts(w))
  /\ line' = Idle(Carried(TabAttempts(w)))
  /\ pend' = NoKey
  /\ dialog' = [dialog EXCEPT ![w] = "none"]
  /\ UNCHANGED <<entry, sig, keys, begun, live, owner, tabs, gone, dropped>>

\* ai:closeWorkspaceConnection of the session the window owns.
CloseAi(w) ==
  /\ Quiet /\ w \notin gone /\ entry[w].session \in live
  /\ entry' = Closed(entry, {entry[w].session})
  /\ live' = live \ {entry[w].session}
  /\ tabs' = tabs \ {entry[w].session}
  /\ owner' = [owner EXCEPT ![entry[w].session] = None]
  /\ UNCHANGED <<pend, sig, keys, att, begun, line, dialog, gone, dropped>>

\* Confirmations that are to bring a session of the window back.
Resumes(w, s) == {i \in AttemptsOf(w) : IsConfirm(i) /\ att[i].session = s}

\* ssh:disconnect, of the tab of a session that is up or coming back: the
\* confirmations in flight abort, and the session ends.
Disconnect(w, s) ==
  /\ Quiet /\ w \notin gone /\ (s \in live \/ Resumes(w, s) # {})
  /\ entry' = Closed(entry, {s})
  /\ live' = live \ {s}
  /\ tabs' = tabs \ {s}
  /\ owner' = [owner EXCEPT ![s] = None]
  /\ att' = Cut(Abort(att, Resumes(w, s)), {s})
  /\ line' = Idle(Carried(Resumes(w, s)) \cup {s})
  /\ UNCHANGED <<pend, sig, keys, begun, dialog, gone, dropped>>

\* The server ends a session, or the network does.
SessionEnds(s) ==
  /\ Quiet /\ s \in live
  /\ entry' = Closed(entry, {s})
  /\ live' = live \ {s}
  /\ tabs' = tabs \ {s}
  /\ owner' = [owner EXCEPT ![s] = None]
  /\ UNCHANGED <<pend, sig, keys, att, begun, line, dialog, gone, dropped>>

\* A window is destroyed: its attempts abort, disposeOwner closes or cancels
\* its entry, and the sessions it owns are disconnected.
Destroy(w) ==
  /\ Quiet /\ w \notin gone
  /\ gone' = gone \cup {w}
  /\ LET own == {s \in Sessions : owner[s] = w} \cup ({entry[w].session} \ {None})
     IN /\ entry' = [Closed(entry, own) EXCEPT ![w] = NoEntry]
        /\ live' = live \ own
        /\ tabs' = tabs \ own
        /\ owner' = [s \in Sessions |-> IF s \in own THEN None ELSE owner[s]]
        /\ att' = Cut(Abort(att, AttemptsOf(w)), own)
        /\ line' = Idle(Carried(AttemptsOf(w)) \cup own)
  /\ pend' = IF Waiting(w) THEN NoKey ELSE pend
  /\ dialog' = [dialog EXCEPT ![w] = "none"]
  /\ dropped' = IF Waiting(w) THEN [dropped EXCEPT ![w] = begun] ELSE dropped
  /\ UNCHANGED <<sig, keys, begun>>

-----------------------------------------------------------------------------
(* The attempts on their way.                                              *)

\* The stores are ready: the handshake starts with the attempt's own signal.
Dial(i) ==
  /\ Quiet /\ att[i].stage = "stores" /\ ~att[i].aborted
  /\ att' = [att EXCEPT ![i].stage = "dial"]
  /\ line' = [line EXCEPT ![att[i].session] = i]
  /\ UNCHANGED <<entry, pend, sig, keys, begun, live, owner, tabs, dialog, gone, dropped>>

\* A store fails, the connection is unknown, the key cannot be written, or
\* the attempt was aborted while the stores came up.
FailsEarly(i) ==
  /\ Quiet /\ att[i].stage \in {"stores", "trust"}
  /\ att' = [att EXCEPT ![i].stage = "down"]
  /\ UNCHANGED <<entry, pend, sig, keys, begun, line, live, owner, tabs, dialog, gone,
                 dropped>>

\* A signal that is aborted; finish() aborts the controller of its attempt.
Dead(i) == att[i].aborted \/ att[i].stage = "done"

\* updateHostKey is done: whatever key is pending now goes, and the failed
\* session is resumed.  A running resume of it is shared; a new one tears the
\* session down first and carries the signal the key's callbacks have by now.
Trusted(i) ==
  /\ Quiet /\ att[i].stage = "trust"
  /\ pend' = NoKey
  /\ LET s == att[i].session
         by == sig[att[i].prev]
     IN IF line[s] # None
        THEN /\ att' = [att EXCEPT ![i].stage = "dial"]
             /\ UNCHANGED <<entry, line, live, tabs>>
        ELSE /\ entry' = Closed(entry, {s})
             /\ live' = live \ {s}
             /\ tabs' = tabs \ {s}
             /\ att' = [att EXCEPT ![i].stage = IF Dead(by) THEN "down" ELSE "dial"]
             /\ line' = [line EXCEPT ![s] = IF Dead(by) THEN None ELSE by]
  /\ UNCHANGED <<sig, keys, begun, owner, dialog, gone, dropped>>

\* The shell is open: everyone who waits for the session has it.
ComesUp(s) ==
  /\ Quiet /\ line[s] # None
  /\ live' = live \cup {s}
  /\ line' = [line EXCEPT ![s] = None]
  /\ att' = [i \in Ids |-> IF att[i].stage = "dial" /\ att[i].session = s
                           THEN [att[i] EXCEPT !.stage = "up"] ELSE att[i]]
  /\ UNCHANGED <<entry, pend, sig, keys, begun, owner, tabs, dialog, gone, dropped>>

\* The handshake fails, for good or on a key nobody trusts yet.
GoesDown(s) ==
  /\ Quiet /\ line[s] # None
  /\ line' = [line EXCEPT ![s] = None]
  /\ att' = Cut(att, {s})
  /\ \/ UNCHANGED <<pend, sig, keys>>
     \/ /\ keys < MaxAttempts
        /\ keys' = keys + 1
        /\ pend' = [id |-> keys', session |-> s]
        /\ sig' = [sig EXCEPT ![keys'] = line[s]]
  /\ UNCHANGED <<entry, begun, live, owner, tabs, dialog, gone, dropped>>

-----------------------------------------------------------------------------
(* The continuations: what an attempt does with its outcome.               *)

Arrives(i) == att[i].stage = "up" /\ ~att[i].aborted

\* complete(): the entry takes the session unless it, or the session, is gone.
Completes(w, s) == entry[w] # NoEntry /\ s \in live

\* connectSaved returns to open(): a replaced entry gives the session back.
ArriveAi(i) ==
  /\ Arrives(i) /\ att[i].kind = "ai"
  /\ LET w == att[i].win
         s == att[i].session
     IN IF entry[w].opener # i
        THEN /\ live' = live \ {s}
             /\ entry' = Closed(entry, {s})
             /\ UNCHANGED owner
        ELSE /\ entry' = [entry EXCEPT ![w] =
                            IF Completes(w, s)
                            THEN [opener |-> i, session |-> s, opening |-> FALSE]
                            ELSE NoEntry]
             /\ owner' = [owner EXCEPT ![s] = w]
             /\ UNCHANGED live
  /\ att' = Finish(att, i)
  /\ line' = Idle(Carried({i}))
  /\ dialog' = Cleared(i)
  /\ UNCHANGED <<pend, sig, keys, begun, tabs, gone, dropped>>

\* ssh:connect returns to its tab.
ArriveTab(i) ==
  /\ Arrives(i) /\ att[i].kind = "tab"
  /\ owner' = [owner EXCEPT ![att[i].session] = att[i].win]
  /\ tabs' = tabs \cup ({att[i].session} \cap live)
  /\ att' = Finish(att, i)
  /\ line' = Idle(Carried({i}))
  /\ dialog' = Cleared(i)
  /\ UNCHANGED <<entry, pend, sig, keys, begun, live, gone, dropped>>

\* confirmHostKey returns: an AI confirmation without its entry disconnects;
\* the window opens a tab for a session it asked about as a tab's.
ArriveKey(i) ==
  /\ Arrives(i) /\ IsConfirm(i)
  /\ LET w == att[i].win
         s == att[i].session
         kept == ~IsAi(i) \/ Completes(w, s)
     IN /\ live' = IF kept THEN live ELSE live \ {s}
        /\ owner' = [owner EXCEPT ![s] = IF kept THEN w ELSE None]
        /\ entry' = IF ~kept THEN Closed(entry, {s})
                    ELSE IF IsAi(i) THEN [entry EXCEPT ![w].session = s]
                    ELSE entry
        /\ tabs' = IF ~kept THEN tabs \ {s}
                   ELSE IF att[i].shown = "tab" THEN tabs \cup ({s} \cap live)
                   ELSE tabs
  /\ att' = Finish(att, i)
  /\ line' = Idle(Carried({i}))
  /\ dialog' = Cleared(i)
  /\ UNCHANGED <<pend, sig, keys, begun, gone, dropped>>

\* An attempt failed, or arrived after its signal was aborted and disconnects
\* the session it got.
Fails(i) == att[i].stage = "down" \/ (att[i].stage = "up" /\ att[i].aborted)
Undone(i) == IF att[i].stage = "up" THEN {att[i].session} ELSE {}

\* A key is pending and it is not the one this attempt was to confirm.
NewKey(i) == pend # NoKey /\ pend.id # att[i].prev

\* The end of an open that failed: with a key pending, anyone's, its entry
\* stays and waits, and without one it goes.
StillOpening(i, e) ==
  IF e.opener # i \/ NewKey(i) THEN e ELSE NoEntry
FailedOpen(i, e) ==
  IF e.opener # i THEN e
  ELSE IF NewKey(i) THEN [e EXCEPT !.opening = FALSE] ELSE NoEntry

\* connectSaved throws; with a key pending the question goes to the window.
FailConnect(i) ==
  /\ Fails(i) /\ ~IsConfirm(i)
  /\ LET w == att[i].win
         left == Closed(entry, Undone(i))
     IN entry' = IF IsAi(i) THEN [left EXCEPT ![w] = FailedOpen(i, @)] ELSE left
  /\ live' = live \ Undone(i)
  /\ tabs' = tabs \ Undone(i)
  /\ att' = Finish(att, i)
  /\ line' = Idle(Carried({i}))
  /\ dialog' = IF NewKey(i) /\ att[i].win \notin gone
               THEN [dialog EXCEPT ![att[i].win] = Purpose(i)] ELSE Cleared(i)
  /\ UNCHANGED <<pend, sig, keys, begun, owner, gone, dropped>>

\* confirmHostKey throws: an AI confirmation that met no new key cancels the
\* entry its window has by now.
FailKey(i) ==
  /\ Fails(i) /\ IsConfirm(i)
  /\ LET w == att[i].win
         left == Closed(entry, Undone(i))
         rest == Finish(att, i)
     IN IF IsAi(i) /\ ~NewKey(i) /\ left[w] # NoEntry /\ left[w].session = None
        THEN /\ entry' = [left EXCEPT ![w] = NoEntry]
             /\ att' = Abort(rest, AiAttempts(w) \ {i})
             /\ line' = Idle(Carried(AiAttempts(w)))
             /\ pend' = NoKey
        ELSE /\ entry' = left
             /\ att' = rest
             /\ line' = Idle(Carried({i}))
             /\ UNCHANGED pend
  /\ live' = live \ Undone(i)
  /\ tabs' = tabs \ Undone(i)
  /\ dialog' = IF NewKey(i) /\ att[i].win \notin gone
               THEN [dialog EXCEPT ![att[i].win] = Purpose(i)] ELSE Cleared(i)
  /\ UNCHANGED <<sig, keys, begun, owner, gone, dropped>>

-----------------------------------------------------------------------------
Requests == \E w \in Windows :
  OpenAi(w) \/ OpenTab(w) \/ Confirm(w) \/ CancelAi(w) \/ Reject(w)
    \/ CancelTab(w) \/ CloseAi(w) \/ Destroy(w)
    \/ \E s \in Sessions : Disconnect(w, s)

Early(i)  == Dial(i) \/ FailsEarly(i) \/ Trusted(i)
Line(s)   == ComesUp(s) \/ GoesDown(s)
Settle(i) == ArriveAi(i) \/ ArriveTab(i) \/ ArriveKey(i) \/ FailConnect(i) \/ FailKey(i)

Next ==
  \/ Requests
  \/ \E i \in Ids : Early(i) \/ Settle(i)
  \/ \E s \in Sessions : SessionEnds(s) \/ Line(s)

Spec == Init /\ [][Next]_vars

\* The stores settle, a handshake ends by its deadlines, continuations run.
FairSpec ==
  /\ Spec
  /\ \A i \in Ids : WF_vars(Early(i)) /\ WF_vars(Settle(i))
  /\ \A s \in Sessions : WF_vars(Line(s))

-----------------------------------------------------------------------------
(* The type of the state; an attempt dials only while a handshake runs for  *)
(* its session (connectionService.ts onAbort settles it with the socket).   *)
TypeOK ==
  /\ entry \in [Windows -> [opener : 0 .. MaxAttempts, session : 0 .. MaxAttempts,
                            opening : BOOLEAN]]
  /\ pend \in [id : 0 .. MaxAttempts, session : 0 .. MaxAttempts]
  /\ sig \in [Ids -> 0 .. MaxAttempts]
  /\ keys \in 0 .. MaxAttempts
  /\ \A i \in Ids :
       /\ att[i].kind \in {"none", "ai", "tab", "aiKey", "tabKey"}
       /\ att[i].win \in Windows \cup {None}
       /\ att[i].stage \in {"idle", "stores", "trust", "dial", "up", "down", "done"}
       /\ att[i].session \in 0 .. MaxAttempts
       /\ att[i].aborted \in BOOLEAN
       /\ att[i].stage = "dial" => line[att[i].session] # None
  /\ begun \in 0 .. MaxAttempts
  /\ line \in [Sessions -> 0 .. MaxAttempts]
  /\ live \subseteq Sessions /\ tabs \subseteq live
  /\ owner \in [Sessions -> Windows \cup {None}]
  /\ dialog \in [Windows -> {"none", "ai", "tab"}]
  /\ gone \subseteq Windows
  /\ dropped \in [Windows -> 0 .. MaxAttempts]

(* The session an entry hands to the AI tools is alive: it ends, is resumed *)
(* or is disconnected only together with the entry (closed(), line 76).     *)
EntriesAreLive == Quiet =>
  \A w \in Windows : entry[w].session # None => entry[w].session \in live

(* No session outlives the window it was opened for, whatever was under way *)
(* when the window was destroyed: a store, a key being written, a resume    *)
(* another window shares, a question on the screen.                         *)
ClosedWindowsOwnNothing == Quiet =>
  \A w \in gone : entry[w] = NoEntry /\ \A s \in live : owner[s] # w

(* What was under way when an open was cancelled completes no later open:   *)
(* neither its handshake nor the confirmation of its key, although          *)
(* complete() looks the entry up by its name (workspaceConnections.ts:52).  *)
StaleNeverCompletes ==
  [][\A i \in Ids : \A w \in Windows :
       (att[i].stage = "up" /\ att'[i].stage = "done" /\ att[i].win = w
         /\ entry'[w].session = att[i].session /\ entry[w].session # att[i].session)
       => i > dropped[w]]_vars

(* workspaceConnections.ts:8 says AI sessions are dedicated, "independently *)
(* of terminal tabs": no entry holds the session of a tab.                  *)
TabsAreIndependent ==
  \A w \in Windows : entry[w].session \notin tabs

(* Every open settles: it does not hang on a store, a handshake, a question *)
(* or another window's confirmation.                                        *)
OpensSettle ==
  \A w \in Windows : entry[w].opening ~> ~entry[w].opening
=============================================================================
