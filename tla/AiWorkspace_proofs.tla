------------------------- MODULE AiWorkspace_proofs -------------------------
(***************************************************************************)
(* Proofs about the AI workspace: its sessions behave as they do alone, so *)
(* what is proved of them holds here, and no shell of the agent outlives   *)
(* the connection it was opened on, or the runtime.                        *)
(***************************************************************************)
EXTENDS AiWorkspace, WorkspaceConnections_proofs

(* Beside the agent's shells the sessions behave as without them: the      *)
(* teardown hook never holds a session step up or changes it.              *)
THEOREM WorkspaceRefines == AllSpec => Spec
<1>1. AllInit => Init
  BY DEF AllInit
<1>2. [AllNext]_allVars => [Next]_vars
  BY DEF AllNext, SessionStep, allVars
<1>3. QED
  BY <1>1, <1>2, PTL DEF AllSpec, Spec

(* So the workspace keeps what its sessions promise: entries hand out live *)
(* sessions, destroyed windows own nothing, and a cancelled open is not    *)
(* completed by what was under way for it.                                 *)
THEOREM WorkspaceKeeps ==
  AllSpec => [](TypeOK /\ EntriesAreLive /\ ClosedWindowsOwnNothing) /\ StaleNeverCompletes
BY WorkspaceRefines, Types, EntriesLive, ClosedWindows, StaleAttempts, PTL

-----------------------------------------------------------------------------
(* The shells.                                                             *)

\* An open under way is on a live session or knows to be stale; a PTY of the
\* store is on a live session, and a disposed store is empty.
PtyType == [stage : {"none", "asking", "answered", "open", "closed"},
            on : Sessions \cup {0}, stale : BOOLEAN]

ShellsInv ==
  /\ live \subseteq Sessions
  /\ pty \in [Ptys -> PtyType]
  /\ channel \subseteq Ptys
  /\ \A p \in Ptys :
       /\ pty[p].stage \in {"asking", "answered"} => pty[p].on \in live \/ pty[p].stale
       /\ pty[p].stage \in {"open", "closed"} => ~disposed
       /\ pty[p].stage = "open" => pty[p].on \in live /\ ~pty[p].stale
       /\ p \in channel => pty[p].stage \in {"answered", "open"}

\* A PTY that moves on, and one that is dropped, stay PTYs.
LEMMA PtyMoves ==
  ASSUME pty \in [Ptys -> PtyType], NEW p \in Ptys
  PROVE  /\ [pty EXCEPT ![p] = NoPty] \in [Ptys -> PtyType]
         /\ \A to \in {"answered", "open", "closed"} :
              [pty EXCEPT ![p].stage = to] \in [Ptys -> PtyType]
<1>1. NoPty \in PtyType
  BY DEF NoPty, PtyType
<1>2. ASSUME NEW to \in {"answered", "open", "closed"}
      PROVE  [pty[p] EXCEPT !.stage = to] \in PtyType
  BY DEF PtyType
<1> HIDE DEF PtyType
<1>3. QED
  BY <1>1, <1>2

LEMMA ShellsInit == AllInit => ShellsInv
BY DEF AllInit, Init, PtyInit, ShellsInv, PtyType, NoPty

\* What the store and the server do with a PTY while the sessions stay.
LEMMA ShellsPty ==
  ASSUME ShellsInv, PtyStep(live), live' = live
  PROVE  ShellsInv'
<1>1. ASSUME NEW p \in Ptys, NEW s \in live, PtyOpen(p, s, live)
      PROVE  ShellsInv'
  BY <1>1 DEF ShellsInv, PtyType, PtyOpen, NoPty
<1>2. ASSUME NEW p \in Ptys, ShellAnswers(p)
      PROVE  ShellsInv'
  <2>1. pty' \in [Ptys -> PtyType] /\ channel' \subseteq Ptys
    BY <1>2, PtyMoves DEF ShellsInv, ShellAnswers
  <2>2. \A q \in Ptys : q # p => pty'[q] = pty[q] /\ (q \in channel' <=> q \in channel)
    BY <1>2 DEF ShellsInv, ShellAnswers, NoPty
  <2>3. /\ pty'[p].stage \in {"asking", "answered"} => pty'[p].on \in live \/ pty'[p].stale
        /\ pty'[p].stage \in {"open", "closed"} => ~disposed
        /\ pty'[p].stage = "open" => pty'[p].on \in live /\ ~pty'[p].stale
        /\ p \in channel' => pty'[p].stage \in {"answered", "open"}
    BY <1>2 DEF ShellsInv, PtyType, ShellAnswers, NoPty
  <2>4. disposed' = disposed
    BY <1>2 DEF ShellAnswers, NoPty
  <2>5. live' = live /\ live \subseteq Sessions
    BY DEF ShellsInv
  <2>6. QED
    <3> SUFFICES ASSUME NEW q \in Ptys
                 PROVE  /\ pty'[q].stage \in {"asking", "answered"}
                             => pty'[q].on \in live \/ pty'[q].stale
                        /\ pty'[q].stage \in {"open", "closed"} => ~disposed
                        /\ pty'[q].stage = "open" => pty'[q].on \in live /\ ~pty'[q].stale
                        /\ q \in channel' => pty'[q].stage \in {"answered", "open"}
      BY <2>1, <2>4, <2>5 DEF ShellsInv
    <3>1. CASE q = p
      BY <2>3, <3>1
    <3>2. CASE q # p
      BY <2>2, <3>2 DEF ShellsInv
    <3>3. QED
      BY <3>1, <3>2
<1>3. ASSUME NEW p \in Ptys, PtyRegisters(p)
      PROVE  ShellsInv'
  <2>1. pty' \in [Ptys -> PtyType] /\ channel' \subseteq Ptys
    BY <1>3, PtyMoves DEF ShellsInv, PtyRegisters, Refused
  <2>2. \A q \in Ptys : q # p => pty'[q] = pty[q] /\ (q \in channel' <=> q \in channel)
    BY <1>3 DEF ShellsInv, PtyRegisters, Refused, NoPty
  <2>3. /\ pty'[p].stage \in {"asking", "answered"} => pty'[p].on \in live \/ pty'[p].stale
        /\ pty'[p].stage \in {"open", "closed"} => ~disposed
        /\ pty'[p].stage = "open" => pty'[p].on \in live /\ ~pty'[p].stale
        /\ p \in channel' => pty'[p].stage \in {"answered", "open"}
    BY <1>3 DEF ShellsInv, PtyType, PtyRegisters, Refused, NoPty
  <2>4. disposed' = disposed
    BY <1>3 DEF PtyRegisters, Refused, NoPty
  <2>5. live' = live /\ live \subseteq Sessions
    BY DEF ShellsInv
  <2>6. QED
    <3> SUFFICES ASSUME NEW q \in Ptys
                 PROVE  /\ pty'[q].stage \in {"asking", "answered"}
                             => pty'[q].on \in live \/ pty'[q].stale
                        /\ pty'[q].stage \in {"open", "closed"} => ~disposed
                        /\ pty'[q].stage = "open" => pty'[q].on \in live /\ ~pty'[q].stale
                        /\ q \in channel' => pty'[q].stage \in {"answered", "open"}
      BY <2>1, <2>4, <2>5 DEF ShellsInv
    <3>1. CASE q = p
      BY <2>3, <3>1
    <3>2. CASE q # p
      BY <2>2, <3>2 DEF ShellsInv
    <3>3. QED
      BY <3>1, <3>2
<1>4. ASSUME NEW p \in Ptys, ChannelEnds(p) \/ PtyClose(p)
      PROVE  ShellsInv'
  <2>1. pty' \in [Ptys -> PtyType] /\ channel' \subseteq Ptys
    BY <1>4, PtyMoves DEF ShellsInv, ChannelEnds, PtyClose, Records
  <2>2. \A q \in Ptys : q # p => pty'[q] = pty[q] /\ (q \in channel' <=> q \in channel)
    BY <1>4 DEF ShellsInv, ChannelEnds, PtyClose, Records, NoPty
  <2>3. /\ pty'[p].stage \in {"asking", "answered"} => pty'[p].on \in live \/ pty'[p].stale
        /\ pty'[p].stage \in {"open", "closed"} => ~disposed
        /\ pty'[p].stage = "open" => pty'[p].on \in live /\ ~pty'[p].stale
        /\ p \in channel' => pty'[p].stage \in {"answered", "open"}
    BY <1>4 DEF ShellsInv, PtyType, ChannelEnds, PtyClose, Records, NoPty
  <2>4. disposed' = disposed
    BY <1>4 DEF ChannelEnds, PtyClose, Records, NoPty
  <2>5. live' = live /\ live \subseteq Sessions
    BY DEF ShellsInv
  <2>6. QED
    <3> SUFFICES ASSUME NEW q \in Ptys
                 PROVE  /\ pty'[q].stage \in {"asking", "answered"}
                             => pty'[q].on \in live \/ pty'[q].stale
                        /\ pty'[q].stage \in {"open", "closed"} => ~disposed
                        /\ pty'[q].stage = "open" => pty'[q].on \in live /\ ~pty'[q].stale
                        /\ q \in channel' => pty'[q].stage \in {"answered", "open"}
      BY <2>1, <2>4, <2>5 DEF ShellsInv
    <3>1. CASE q = p
      BY <2>3, <3>1
    <3>2. CASE q # p
      BY <2>2, <3>2 DEF ShellsInv
    <3>3. QED
      BY <3>1, <3>2
<1>5. ASSUME PtysDisposed
      PROVE  ShellsInv'
  BY <1>5 DEF ShellsInv, PtyType, PtysDisposed, Records, NoPty
<1>6. QED
  BY <1>1, <1>2, <1>3, <1>4, <1>5 DEF PtyStep

\* Whatever ends sessions, the hook keeps the store in step with them.
LEMMA ShellsTornDown ==
  ASSUME ShellsInv, live' \subseteq Sessions, TornDown(live \ live')
  PROVE  ShellsInv'
<1> DEFINE torn == live \ live'
           over == IF disposed THEN {} ELSE ClosedFor(torn)
<1>1. /\ pty' = [p \in Ptys |->
                   IF p \in over THEN NoPty
                   ELSE IF pty[p].on \in torn THEN [pty[p] EXCEPT !.stale = TRUE]
                   ELSE pty[p]]
      /\ channel' = channel \ over
      /\ disposed' = disposed
  BY DEF TornDown
<1>2. pty' \in [Ptys -> PtyType]
  BY <1>1 DEF ShellsInv, PtyType, NoPty
<1>3. ASSUME NEW p \in Ptys
      PROVE  /\ pty[p].stage = "open" /\ pty[p].on \in torn => p \in over
             /\ p \in over => pty'[p] = NoPty
             /\ p \notin over => /\ pty'[p].stage = pty[p].stage /\ pty'[p].on = pty[p].on
                               /\ pty'[p].stale = (pty[p].stale \/ pty[p].on \in torn)
  BY <1>1 DEF ShellsInv, PtyType, ClosedFor, Records
<1>4. QED
  BY <1>1, <1>2, <1>3 DEF ShellsInv, NoPty

LEMMA ShellsNext == Inv /\ ShellsInv /\ [AllNext]_allVars => Inv' /\ ShellsInv'
<1> SUFFICES ASSUME Inv, ShellsInv, [AllNext]_allVars PROVE Inv' /\ ShellsInv'
  OBVIOUS
<1>1. [Next]_vars
  BY DEF AllNext, SessionStep, allVars
<1>2. Inv'
  BY <1>1, InvNext
<1>3. live' \subseteq Sessions
  BY <1>2 DEF Inv, StateInv, LiveOK
<1>4. CASE SessionStep
  BY <1>2, <1>3, <1>4, ShellsTornDown DEF SessionStep
<1>5. CASE PtyStep(live) /\ UNCHANGED vars
  BY <1>2, <1>5, ShellsPty DEF vars
<1>6. CASE UNCHANGED allVars
  BY <1>2, <1>6 DEF allVars, vars, ptyVars, ShellsInv
<1>7. QED
  BY <1>4, <1>5, <1>6 DEF AllNext

LEMMA ShellsAlways == AllSpec => []ShellsInv
<1>1. AllInit => Inv /\ ShellsInv
  BY InvInit, ShellsInit DEF AllInit
<1>2. QED
  BY <1>1, ShellsNext, PTL DEF AllSpec

(* No shell of the agent outlives the connection it was opened on          *)
(* (manager.ts openShellChannel, runtime.ts opener and teardown hook), for *)
(* every number of PTYs, sessions and windows.                             *)
THEOREM ShellsEnd == AllSpec => []ShellsEndWithSession
<1>1. ShellsInv => ShellsEndWithSession
  BY DEF ShellsInv, ShellsEndWithSession
<1>2. QED
  BY <1>1, ShellsAlways, PTL

(* No shell of the agent outlives the runtime: a disposed store is empty,  *)
(* and a channel that arrives late is about to be destroyed                *)
(* (ptySessions.ts dispose, open).                                         *)
THEOREM ShellsDisposed == AllSpec => []DisposedHoldsNone
<1>1. ShellsInv => DisposedHoldsNone
  BY DEF ShellsInv, DisposedHoldsNone, Records
<1>2. QED
  BY <1>1, ShellsAlways, PTL
=============================================================================
