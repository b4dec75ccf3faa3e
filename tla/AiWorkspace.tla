----------------------------- MODULE AiWorkspace -----------------------------
(***************************************************************************)
(* The AI workspace at work: its sessions (WorkspaceConnections), the      *)
(* terminal tabs beside them, and the PTYs the agent opens on any of them  *)
(* (AgentPtys).  They meet in the teardown hooks of the SSH manager        *)
(* (ssh/manager.ts notifySessionTeardown): the step that ends a session    *)
(* drops its entry and its PTYs, and changes its generation.               *)
(***************************************************************************)
EXTENDS WorkspaceConnections, AgentPtys

allVars == <<vars, ptyVars>>

AllInit == Init /\ PtyInit

\* A step of the sessions, and the hooks of those it tears down.
SessionStep == Next /\ TornDown(live \ live')

AllNext ==
  \/ SessionStep
  \/ PtyStep(live) /\ UNCHANGED vars

AllSpec == AllInit /\ [][AllNext]_allVars

AllFairSpec ==
  /\ AllSpec
  /\ \A i \in Ids : WF_allVars(Early(i) /\ TornDown(live \ live'))
                    /\ WF_allVars(Settle(i) /\ TornDown(live \ live'))
  /\ \A s \in Sessions : WF_allVars(Line(s) /\ TornDown(live \ live'))

-----------------------------------------------------------------------------
(* A shell of the agent never outlives the connection it was opened on: a  *)
(* channel is either that of a PTY the store knows, on a live session, or  *)
(* of an open that is about to look at the generation and destroy it.      *)
ShellsEndWithSession ==
  \A p \in channel :
    \/ pty[p].stage = "open" /\ pty[p].on \in live /\ ~pty[p].stale
    \/ pty[p].stage = "answered" /\ (pty[p].on \in live \/ pty[p].stale)

(* After the runtime is disposed it holds no shell, whatever was opening.  *)
DisposedHoldsNone ==
  disposed => channel \subseteq {p \in Ptys : pty[p].stage = "answered"} /\ Records = {}
=============================================================================
