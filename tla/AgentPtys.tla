------------------------------ MODULE AgentPtys ------------------------------
(***************************************************************************)
(* The interactive shells the agent opens on SSH sessions: the store of    *)
(* mcp/ptySessions.ts, the opener and the teardown hook the MCP runtime    *)
(* gives it (mcp/runtime.ts) and the shell channel it asks the manager for *)
(* (ssh/manager.ts openShellChannel).                                      *)
(*                                                                         *)
(* The sessions are somebody else's: an action that needs to know which    *)
(* are live takes them as an argument, and TornDown is what the hook and   *)
(* the change of generation do when sessions end.  A generation is not     *)
(* counted; an open whose generation has changed since it asked is stale.  *)
(***************************************************************************)
EXTENDS Naturals, FiniteSets

CONSTANTS Ptys,            \* PTYs of one behaviour at a time
          PtyLimit         \* MCP_PTY_MAX_PER_SESSION

ASSUME PtyAssumption == IsFiniteSet(Ptys) /\ PtyLimit \in Nat \ {0}

VARIABLES
  pty,      \* pty[p]: how far p is, and on which session
  channel,  \* PTYs with an open shell channel at the server
  disposed  \* the runtime is disposed

ptyVars == <<pty, channel, disposed>>

NoPty == [stage |-> "none", on |-> 0, stale |-> FALSE]

PtyInit == pty = [p \in Ptys |-> NoPty] /\ channel = {} /\ disposed = FALSE

\* Records in the store, and those that count against the limit.
Records   == {p \in Ptys : pty[p].stage \in {"open", "closed"}}
OpenOn(s) == {p \in Ptys : pty[p].stage = "open" /\ pty[p].on = s}

\* open(): the limit counts what is in the store before the channel is asked for.
PtyOpen(p, s, live) ==
  /\ ~disposed /\ pty[p] = NoPty /\ s \in live
  /\ Cardinality(OpenOn(s)) < PtyLimit
  /\ pty' = [pty EXCEPT ![p] = [stage |-> "asking", on |-> s, stale |-> FALSE]]
  /\ UNCHANGED <<channel, disposed>>

StaleOnly(p)    == pty[p].stale
DisposedOnly(p) == disposed

\* The second looks: the opener's at the generation, then the store's own.
Refused(p) == pty[p].stale \/ disposed

\* The server answers: a channel, which a changed generation destroys at once,
\* or an error.
ShellAnswers(p) ==
  /\ pty[p].stage = "asking"
  /\ \/ /\ ~pty[p].stale
        /\ pty' = [pty EXCEPT ![p].stage = "answered"]
        /\ channel' = channel \cup {p}
     \/ pty' = [pty EXCEPT ![p] = NoPty] /\ UNCHANGED channel
  /\ UNCHANGED disposed

\* The channel is here: the store keeps it, or destroys it.
PtyRegisters(p) ==
  /\ pty[p].stage = "answered"
  /\ IF Refused(p)
     THEN pty' = [pty EXCEPT ![p] = NoPty] /\ channel' = channel \ {p}
     ELSE pty' = [pty EXCEPT ![p].stage = "open"] /\ UNCHANGED channel
  /\ UNCHANGED disposed

\* The channel closes by itself: the record stays to be read.
ChannelEnds(p) ==
  /\ pty[p].stage = "open"
  /\ pty' = [pty EXCEPT ![p].stage = "closed"]
  /\ channel' = channel \ {p}
  /\ UNCHANGED disposed

\* pty_close, and the sweep of idle PTYs.
PtyClose(p) ==
  /\ p \in Records
  /\ pty' = [pty EXCEPT ![p] = NoPty]
  /\ channel' = channel \ {p}
  /\ UNCHANGED disposed

ClosedFor(S) == {p \in Records : pty[p].on \in S}

\* Sessions of S are torn down: closeForSession by the hook, unless the runtime
\* is disposed and has unsubscribed; opens under way are of an old generation.
TornDown(S) ==
  LET gone == IF disposed THEN {} ELSE ClosedFor(S) IN
    /\ pty' = [p \in Ptys |->
                 IF p \in gone THEN NoPty
                 ELSE IF pty[p].on \in S THEN [pty[p] EXCEPT !.stale = TRUE]
                 ELSE pty[p]]
    /\ channel' = channel \ gone
    /\ UNCHANGED disposed

\* dispose() of the runtime.
PtysDisposed ==
  /\ ~disposed /\ disposed' = TRUE
  /\ pty' = [p \in Ptys |-> IF p \in Records THEN NoPty ELSE pty[p]]
  /\ channel' = channel \ Records

PtyStep(live) ==
  \/ \E p \in Ptys :
       \/ \E s \in live : PtyOpen(p, s, live)
       \/ ShellAnswers(p) \/ PtyRegisters(p) \/ ChannelEnds(p) \/ PtyClose(p)
  \/ PtysDisposed
=============================================================================
