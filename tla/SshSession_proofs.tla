------------------------- MODULE SshSession_proofs --------------------------
(***************************************************************************)
(* Proofs about SshSession: type correctness and the safety properties,    *)
(* for any number of generations, with and without a jump host.            *)
(***************************************************************************)
EXTENDS SshSession, TLAPS

LEMMA TransportFacts ==
  /\ \A t \in Transports : Ended(t) \in Transports /\ Disposed(t) \in Transports
  /\ \A t \in JumpStates : Ended(t) \in JumpStates /\ Disposed(t) \in JumpStates
  /\ HasJump => "new" \in JumpStates /\ "up" \in JumpStates
  /\ ~HasJump => "none" \in JumpStates
  /\ JumpAtStart \in JumpStates
  /\ \A t : Ended(t) # "up" /\ Disposed(t) # "up"
  /\ \A t \in JumpStates : Emits(t) => "ending" \in JumpStates /\ "closed" \in JumpStates
  /\ {"new", "up", "ending", "closed"} \subseteq Transports
  BY ConstantsAssumption DEF ConstantsAssumption, Transports, JumpStates, Ended, Disposed,
     JumpAtStart, Emits

(* The initial state, and one leaf per action                              *)
LEMMA InitType == Init => TypeOK
  <1> SUFFICES ASSUME Init PROVE TypeOK
    OBVIOUS
  <1> USE DEF Init
  <1>1. jump \in [Gen -> JumpStates]
    BY TransportFacts, ConstantsAssumption DEF ConstantsAssumption
  <1>2. phase \in [Gen -> Phases] /\ client \in [Gen -> Transports]
    BY DEF Phases, Transports
  <1>3. epoch \in 0 .. MaxGen /\ registered \in 0 .. MaxGen /\ running \in 0 .. MaxGen
        /\ hostKey \in 0 .. MaxGen
    BY ConstantsAssumption DEF ConstantsAssumption, None
  <1> QED BY <1>1, <1>2, <1>3 DEF TypeOK

(* The variables that the ways of ending an attempt write                  *)
EndedType ==
  /\ settled \in [Gen -> {"no", "resolved", "rejected"}]
  /\ client \in [Gen -> Transports]
  /\ jump \in [Gen -> JumpStates]
  /\ forwards \in [Gen -> BOOLEAN]
  /\ running \in 0 .. MaxGen

(* All the others                                                          *)
RestType ==
  /\ epoch \in 0 .. MaxGen
  /\ registered \in 0 .. MaxGen
  /\ phase \in [Gen -> Phases]
  /\ stream \in [Gen -> {"none", "up", "closed"}]
  /\ told \in [Gen -> BOOLEAN]
  /\ queued \in BOOLEAN
  /\ hostKey \in 0 .. MaxGen
  /\ confirming \in {"no", "saving", "aborted"}
  /\ tabClosed \in BOOLEAN

LEMMA NoneType == None \in 0 .. MaxGen
  BY ConstantsAssumption DEF ConstantsAssumption, None

LEMMA RejectType ==
  ASSUME EndedType, NEW g \in Gen, NEW c \in Transports, NEW j \in JumpStates,
         SafeReject(g, c, j)
  PROVE  EndedType'
  BY TransportFacts, NoneType DEF EndedType, SafeReject, ForwardsClosed

LEMMA RejectIfPendingType ==
  ASSUME EndedType, NEW g \in Gen, NEW c \in Transports, NEW j \in JumpStates,
         RejectIfPending(g, c, j)
  PROVE  EndedType'
  <1>1. CASE SafeReject(g, c, j)
    BY <1>1, RejectType
  <1>2. CASE Ignore(g, c, j)
    BY <1>2 DEF Ignore, EndedType
  <1> QED BY <1>1, <1>2 DEF RejectIfPending

LEMMA AbortType ==
  ASSUME EndedType, NEW g \in Gen, NEW c \in Transports, NEW j \in JumpStates,
         AbortAndReject(g, c, j)
  PROVE  EndedType'
  <1>1. CASE SafeReject(g, c, j)
    BY <1>1, RejectType
  <1>2. CASE ~Pending(g)
    BY <1>2, TransportFacts DEF AbortAndReject, ForwardsClosed, EndedType
  <1> QED BY <1>1, <1>2 DEF AbortAndReject

LEMMA CleanupType ==
  ASSUME EndedType, NEW g \in Gen, NEW c \in Transports, NEW j \in JumpStates,
         Cleanup(g, c, j)
  PROVE  EndedType' /\ registered' \in 0 .. MaxGen
  BY TransportFacts, NoneType DEF EndedType, Cleanup, ForwardsClosed

(* What a step of an attempt finds                                         *)
LEMMA AttemptFacts ==
  ASSUME TypeOK, NEW g \in Gen
  PROVE  /\ EndedType /\ g \in 0 .. MaxGen
         /\ client[g] \in Transports /\ jump[g] \in JumpStates
         /\ Ended(client[g]) \in Transports
         /\ "ending" \in Transports /\ "closed" \in Transports
         /\ Emits(jump[g]) => "ending" \in JumpStates /\ "closed" \in JumpStates
         /\ Notified(g) \in [Gen -> BOOLEAN]
  <1>1. client[g] \in Transports /\ jump[g] \in JumpStates
    BY DEF TypeOK
  <1>2. g \in 0 .. MaxGen
    BY ConstantsAssumption DEF ConstantsAssumption, Gen
  <1> QED BY <1>1, <1>2, TransportFacts DEF TypeOK, EndedType, Notified

LEMMA StepType == TypeOK /\ [Next]_vars => TypeOK'
  <1> SUFFICES ASSUME TypeOK, [Next]_vars PROVE TypeOK'
    OBVIOUS
  <1> USE NoneType DEF attemptVars, requestVars
  <1>a. {"unused", "jump", "forward", "handshake", "refused", "display", "recheck",
         "shellX11", "shell", "fallback", "abandoned", "open"} \subseteq Phases
    BY DEF Phases
  <1>b. EndedType
    BY DEF TypeOK, EndedType
  <1>1. CASE Connect
    <2>1. Initial \in Gen /\ Initial \in 0 .. MaxGen
      BY ConstantsAssumption DEF ConstantsAssumption, Initial, Gen
    <2> QED BY <1>a, <1>1, <2>1, TransportFacts DEF TypeOK, Connect, StartAttempt
  <1>2. CASE Reconnect
    BY <1>2 DEF TypeOK, Reconnect
  <1>3. CASE StartReconnect
    <2>1. epoch + 1 \in Gen /\ epoch + 1 \in 0 .. MaxGen
      BY <1>3, ConstantsAssumption DEF ConstantsAssumption, TypeOK, StartReconnect, Gen
    <2>2. phase' \in [Gen -> Phases] /\ stream' \in [Gen -> {"none", "up", "closed"}]
      BY <1>3, <1>a, <2>1 DEF TypeOK, StartReconnect
    <2>3. client' \in [Gen -> Transports]
      BY <1>3, TransportFacts DEF TypeOK, StartReconnect
    <2>4. jump' \in [Gen -> JumpStates]
      BY <1>3, TransportFacts DEF TypeOK, StartReconnect
    <2>5. forwards' \in [Gen -> BOOLEAN]
      BY <1>3 DEF TypeOK, StartReconnect
    <2> QED BY <1>3, <2>1, <2>2, <2>3, <2>4, <2>5 DEF TypeOK, StartReconnect
  <1>4. CASE CancelConnect
    <2>1. client' \in [Gen -> Transports] /\ jump' \in [Gen -> JumpStates]
      BY <1>4, TransportFacts DEF TypeOK, CancelConnect
    <2>2. settled' \in [Gen -> {"no", "resolved", "rejected"}] /\ running' \in 0 .. MaxGen
          /\ forwards' \in [Gen -> BOOLEAN]
      BY <1>4 DEF TypeOK, CancelConnect, AbortAll
    <2> QED BY <1>4, <2>1, <2>2 DEF TypeOK, CancelConnect, ConfirmAborted, AfterAbort
  <1>5. CASE Disconnect
    <2>1. client' \in [Gen -> Transports] /\ jump' \in [Gen -> JumpStates]
      BY <1>5, TransportFacts DEF TypeOK, Disconnect
    <2>2. settled' \in [Gen -> {"no", "resolved", "rejected"}] /\ running' \in 0 .. MaxGen
          /\ forwards' \in [Gen -> BOOLEAN]
      BY <1>5 DEF TypeOK, Disconnect, AbortAll
    <2>3. epoch' \in 0 .. MaxGen
      BY <1>5, ConstantsAssumption DEF ConstantsAssumption, TypeOK, Disconnect
    <2> QED BY <1>5, <2>1, <2>2, <2>3 DEF TypeOK, Disconnect, ConfirmAborted, AfterAbort
  <1>6. CASE ManagerDisconnect
    <2>1. epoch' \in 0 .. MaxGen
      BY <1>6, ConstantsAssumption DEF ConstantsAssumption, TypeOK, ManagerDisconnect
    <2>2. CASE registered # None
      <3>1. registered \in Gen
        BY <2>2, ConstantsAssumption DEF ConstantsAssumption, TypeOK, Gen, None
      <3>2. EndedType' /\ registered' \in 0 .. MaxGen
        BY <1>6, <2>2, <3>1, AttemptFacts, CleanupType DEF ManagerDisconnect
      <3> QED BY <1>6, <2>1, <3>2 DEF TypeOK, EndedType, ManagerDisconnect
    <2>3. CASE registered = None
      BY <1>6, <2>1, <2>3 DEF TypeOK, ManagerDisconnect
    <2> QED BY <2>2, <2>3
  <1>7. CASE DiscardDeadSession
    <2>1. registered \in Gen
      BY <1>7, ConstantsAssumption
         DEF ConstantsAssumption, TypeOK, Gen, None, DiscardDeadSession
    <2>2. EndedType' /\ registered' \in 0 .. MaxGen
      BY <1>7, <2>1, AttemptFacts, CleanupType DEF DiscardDeadSession
    <2> QED BY <1>7, <2>1, <2>2, AttemptFacts DEF TypeOK, EndedType, DiscardDeadSession
  <1>8. CASE ConfirmHostKey \/ HostKeySaved \/ HostKeyNotSaved \/ RejectHostKey
    BY <1>8 DEF TypeOK, ConfirmHostKey, HostKeySaved, HostKeyNotSaved, RejectHostKey
  <1>9. ASSUME NEW g \in Gen, AttemptStep(g) PROVE TypeOK'
    <2>0. /\ EndedType /\ g \in 0 .. MaxGen
          /\ client[g] \in Transports /\ jump[g] \in JumpStates
          /\ Ended(client[g]) \in Transports
          /\ "ending" \in Transports /\ "closed" \in Transports
          /\ Emits(jump[g]) => "ending" \in JumpStates /\ "closed" \in JumpStates
          /\ Notified(g) \in [Gen -> BOOLEAN]
      BY AttemptFacts
    <2>a. RestType
      BY DEF TypeOK, RestType
    <2>b. SafeReject(g, client[g], jump[g]) => EndedType'
      BY <2>0, RejectType
    <2>c. UNCHANGED <<settled, client, jump, forwards, running>> => EndedType'
      BY <2>0 DEF EndedType
    <2>d. SUFFICES EndedType' /\ RestType'
      BY DEF TypeOK, EndedType, RestType
    <2>1. CASE JumpReady(g)
      <3>1. EndedType'
        BY <2>1, <2>b, <2>c DEF JumpReady
      <3> QED BY <1>a, <2>a, <2>1, <3>1 DEF JumpReady, RestType
    <2>2. CASE ForwardOpened(g)
      <3>1. CASE SafeReject(g, client[g], jump[g]) /\ UNCHANGED phase
        BY <2>a, <2>b, <2>2, <3>1 DEF ForwardOpened, RestType
      <3>2. CASE client' = [client EXCEPT ![g] = "up"]
                 /\ phase' = [phase EXCEPT ![g] = "handshake"]
                 /\ UNCHANGED <<settled, jump, forwards, running>>
        <4>1. EndedType'
          BY <2>0, <3>2, TransportFacts DEF EndedType
        <4> QED BY <1>a, <2>a, <2>2, <3>2, <4>1 DEF ForwardOpened, RestType
      <3> QED BY <2>2, <3>1, <3>2 DEF ForwardOpened
    <2>3. CASE ForwardFailed(g) \/ ForwardTimeout(g)
      <3>1. EndedType'
        BY <2>3, <2>b DEF ForwardFailed, ForwardTimeout
      <3> QED BY <2>a, <2>3, <3>1 DEF ForwardFailed, ForwardTimeout, RestType
    <2>4. CASE JumpError(g)
      <3>1. CASE \E c \in Transports : RejectIfPending(g, c, "ending")
        <4>1. EndedType'
          BY <2>0, <2>4, <3>1, RejectIfPendingType DEF JumpError
        <4>2. registered' \in 0 .. MaxGen
          BY <2>a, <2>4, <2>0, CleanupType DEF JumpError, RestType
        <4> QED BY <2>a, <2>4, <4>1, <4>2 DEF JumpError, RestType
      <3>2. CASE Cleanup(g, Ended(client[g]), "ending")
        <4>1. EndedType' /\ registered' \in 0 .. MaxGen
          BY <2>0, <2>4, <3>2, CleanupType DEF JumpError
        <4> QED BY <2>a, <2>4, <4>1 DEF JumpError, RestType
      <3> QED BY <2>0, <2>4, <3>1, <3>2 DEF JumpError
    <2>5. CASE JumpClose(g)
      <3>1. CASE RejectIfPending(g, client[g], "closed") /\ UNCHANGED <<registered, told>>
        <4>1. EndedType'
          BY <2>0, <2>5, <3>1, RejectIfPendingType DEF JumpClose
        <4> QED BY <2>a, <2>5, <3>1, <4>1 DEF JumpClose, RestType
      <3>2. CASE Cleanup(g, Ended(client[g]), "closed") /\ told' = Notified(g)
        <4>1. EndedType' /\ registered' \in 0 .. MaxGen
          BY <2>0, <2>5, <3>2, CleanupType DEF JumpClose
        <4> QED BY <2>0, <2>a, <2>5, <3>2, <4>1 DEF JumpClose, RestType
      <3> QED BY <2>5, <3>1, <3>2 DEF JumpClose
    <2>6. CASE HostKeyRefused(g)
      BY <1>a, <2>0, <2>a, <2>c, <2>6 DEF HostKeyRefused, RestType
    <2>7. CASE ClientReady(g)
      <3>1. CASE SafeReject(g, client[g], jump[g]) /\ UNCHANGED phase
        BY <2>a, <2>b, <2>7, <3>1 DEF ClientReady, RestType
      <3>2. CASE phase' = [phase EXCEPT ![g] = "display"]
                 /\ forwards' = [forwards EXCEPT ![g] = TRUE]
                 /\ UNCHANGED <<settled, client, jump, running>>
        <4>1. EndedType'
          BY <2>0, <3>2 DEF EndedType
        <4> QED BY <1>a, <2>a, <2>7, <3>2, <4>1 DEF ClientReady, RestType
      <3> QED BY <2>7, <3>1, <3>2 DEF ClientReady
    <2>8. CASE DisplayResolved(g) \/ DisplayRechecked(g)
      <3>1. EndedType'
        BY <2>8, <2>b, <2>c DEF DisplayResolved, DisplayRechecked
      <3> QED BY <1>a, <2>a, <2>8, <3>1 DEF DisplayResolved, DisplayRechecked, RestType
    <2>9. CASE ShellDeadline(g)
      <3>1. EndedType'
        BY <2>9, <2>b DEF ShellDeadline
      <3> QED BY <2>0, <2>a, <2>9, <3>1 DEF ShellDeadline, RestType
    <2>10. CASE ShellFailed(g)
      <3>1. EndedType'
        BY <2>10, <2>b, <2>c DEF ShellFailed
      <3> QED BY <1>a, <2>a, <2>10, <3>1 DEF ShellFailed, RestType
    <2>11. CASE FallbackProbed(g)
      <3>1. EndedType'
        BY <2>11, <2>c DEF FallbackProbed
      <3> QED BY <1>a, <2>a, <2>11, <3>1 DEF FallbackProbed, RestType
    <2>12. CASE ShellOpened(g)
      <3>1. CASE SafeReject(g, client[g], jump[g]) /\ UNCHANGED <<registered, phase, stream>>
        BY <2>a, <2>b, <2>12, <3>1 DEF ShellOpened, RestType
      <3>2. CASE settled' = [settled EXCEPT ![g] = "resolved"]
                 /\ registered' = g
        <4>1. EndedType'
          BY <2>0, <2>12, <3>2 DEF EndedType, ShellOpened, SafeReject
        <4> QED BY <1>a, <2>0, <2>a, <2>12, <3>2, <4>1 DEF ShellOpened, RestType
      <3> QED BY <2>12, <3>1, <3>2 DEF ShellOpened
    <2>13. CASE StreamEvent(g)
      <3>1. stream' \in [Gen -> {"none", "up", "closed"}] /\ told' \in [Gen -> BOOLEAN]
        BY <2>0, <2>a, <2>13 DEF StreamEvent, RestType
      <3>2. EndedType' /\ registered' \in 0 .. MaxGen
        BY <2>0, <2>a, <2>c, <2>13, CleanupType DEF StreamEvent, RestType
      <3> QED BY <2>a, <2>13, <3>1, <3>2 DEF StreamEvent, RestType
    <2>14. CASE ClientError(g)
      <3>1. EndedType'
        BY <2>0, <2>14, AbortType DEF ClientError
      <3> QED BY <2>0, <2>a, <2>14, <3>1 DEF ClientError, RestType
    <2>15. CASE ClientClose(g)
      <3>1. CASE AbortAndReject(g, "closed", jump[g]) /\ UNCHANGED <<registered, told>>
        <4>1. EndedType'
          BY <2>0, <3>1, AbortType
        <4> QED BY <2>a, <2>15, <3>1, <4>1 DEF ClientClose, RestType
      <3>2. CASE Cleanup(g, "closed", jump[g]) /\ told' = Notified(g)
        <4>1. EndedType' /\ registered' \in 0 .. MaxGen
          BY <2>0, <3>2, CleanupType
        <4> QED BY <2>0, <2>a, <2>15, <3>2, <4>1 DEF ClientClose, RestType
      <3> QED BY <2>15, <3>1, <3>2 DEF ClientClose
    <2> QED BY <1>9, <2>1, <2>2, <2>3, <2>4, <2>5, <2>6, <2>7, <2>8, <2>9, <2>10, <2>11,
               <2>12, <2>13, <2>14, <2>15 DEF AttemptStep
  <1>10. CASE UNCHANGED vars
    BY <1>10 DEF vars, TypeOK
  <1> QED BY <1>1, <1>2, <1>3, <1>4, <1>5, <1>6, <1>7, <1>8, <1>9, <1>10
          DEF Next, RequestStep

(* Type correctness of the generations, attempts and requests.             *)
THEOREM TypeCorrect == Spec => []TypeOK
  BY InitType, StepType, PTL DEF Spec
-----------------------------------------------------------------------------
(* Generations that have not begun have no attempt.                        *)
Unreached ==
  \A g \in Gen : g > epoch => phase[g] = "unused" /\ settled[g] = "no"

Released(g) == ~forwards[g] /\ client[g] # "up" /\ jump[g] # "up"

(* The inductive invariant: RegisteredIsCurrent makes an event of the live *)
(* generation the only one that can touch the sessions map.                *)
Inv == TypeOK /\ RegisteredIsCurrent /\ Unreached /\ SettledReleases

(* What one step of attempt g does to its own state, to the others' and to *)
(* the sessions map.                                                       *)
Frame(g) ==
  /\ UNCHANGED <<epoch, queued, confirming, tabClosed>>
  /\ \A h \in Gen \ {g} : /\ phase'[h] = phase[h] /\ settled'[h] = settled[h]
                          /\ client'[h] = client[h] /\ jump'[h] = jump[h]
                          /\ forwards'[h] = forwards[h] /\ told'[h] = told[h]

Effect(g) ==
  /\ phase[g] = "unused" => phase'[g] = "unused" /\ settled'[g] = settled[g]
  /\ settled[g] # "no" => settled'[g] = settled[g]
  /\ registered' # registered => g = epoch /\ registered' \in {None, g}
  /\ registered' = g /\ registered # g => settled[g] = "no" /\ settled'[g] = "resolved"
  /\ told'[g] # told[g] => g = epoch
  /\ settled'[g] # "no" /\ registered' # g => Released(g)'

LEMMA SafeRejectEffect ==
  ASSUME TypeOK, NEW g \in Gen, NEW c, NEW j, SafeReject(g, c, j)
  PROVE  /\ settled'[g] = "rejected" /\ Released(g)'
         /\ \A h \in Gen \ {g} : /\ settled'[h] = settled[h] /\ client'[h] = client[h]
                                 /\ jump'[h] = jump[h] /\ forwards'[h] = forwards[h]
  BY TransportFacts DEF SafeReject, TypeOK, Released, ForwardsClosed

LEMMA AbortEffect ==
  ASSUME TypeOK, NEW g \in Gen, NEW c, NEW j, c # "up", AbortAndReject(g, c, j)
  PROVE  /\ settled[g] # "no" => settled'[g] = settled[g]
         /\ settled[g] = "no" /\ phase[g] # "unused" => settled'[g] = "rejected"
         /\ Released(g)'
         /\ \A h \in Gen \ {g} : /\ settled'[h] = settled[h] /\ client'[h] = client[h]
                                 /\ jump'[h] = jump[h] /\ forwards'[h] = forwards[h]
  <1>1. CASE Pending(g) /\ SafeReject(g, c, j)
    BY <1>1, SafeRejectEffect DEF Pending
  <1>2. CASE ~Pending(g)
    BY <1>2, TransportFacts DEF AbortAndReject, TypeOK, Released, ForwardsClosed, Pending
  <1> QED BY <1>1, <1>2 DEF AbortAndReject

LEMMA CleanupEffect ==
  ASSUME TypeOK, NEW g \in Gen, NEW c, NEW j, c # "up", Cleanup(g, c, j)
  PROVE  /\ settled' = settled /\ registered' = None /\ Released(g)'
         /\ \A h \in Gen \ {g} : /\ client'[h] = client[h]
                                 /\ jump'[h] = jump[h] /\ forwards'[h] = forwards[h]
  BY TransportFacts DEF Cleanup, TypeOK, Released, ForwardsClosed

LEMMA AttemptEffect ==
  ASSUME Inv, NEW g \in Gen, AttemptStep(g)
  PROVE  Frame(g) /\ Effect(g)
  <1>0. /\ TypeOK /\ RegisteredIsCurrent
        /\ settled[g] # "no" /\ registered # g => Released(g)
        /\ \A h : h \in Gen => h # None
    BY DEF Inv, SettledReleases, Released, Gen, None
  <1>a. \A h \in Gen \ {g} :
          /\ [phase EXCEPT ![g] = "unused"][h] = phase[h]
          /\ Notified(g)[h] = told[h]
    BY <1>0 DEF TypeOK, Notified
  <1>1. CASE JumpReady(g)
    BY <1>0, <1>1, SafeRejectEffect
       DEF JumpReady, Frame, Effect, Pending, RegisteredIsCurrent, TypeOK
  <1>2. CASE ForwardOpened(g)
    BY <1>0, <1>2, SafeRejectEffect
       DEF ForwardOpened, Frame, Effect, Pending, RegisteredIsCurrent, TypeOK
  <1>3. CASE ForwardFailed(g) \/ ForwardTimeout(g)
    BY <1>0, <1>3, SafeRejectEffect
       DEF ForwardFailed, ForwardTimeout, Frame, Effect, Pending, RegisteredIsCurrent, IsLiveEpoch
  <1>4. CASE JumpError(g)
    <2>1. CASE Cleanup(g, Ended(client[g]), "ending") /\ IsLiveEpoch(g) /\ registered = g
      BY <1>0, <1>4, <2>1, CleanupEffect, TransportFacts
         DEF JumpError, Frame, Effect, IsLiveEpoch, RegisteredIsCurrent
    <2>2. ASSUME NEW c, c \in {client[g], Ended(client[g])}, registered # g,
                 RejectIfPending(g, c, "ending"),
                 registered' # registered => IsLiveEpoch(g) /\ registered' = None
          PROVE  Frame(g) /\ Effect(g)
      <3>1. CASE SafeReject(g, c, "ending") /\ Pending(g)
        BY <1>0, <1>4, <2>2, <3>1, SafeRejectEffect
           DEF JumpError, Frame, Effect, IsLiveEpoch, Pending
      <3>2. CASE Ignore(g, c, "ending") /\ ~Pending(g)
        BY <1>0, <1>4, <2>2, <3>2, TransportFacts
           DEF JumpError, Frame, Effect, IsLiveEpoch, Pending, Ignore, Released, TypeOK
      <3> QED BY <2>2, <3>1, <3>2 DEF RejectIfPending
    <2> QED BY <1>0, <1>4, <2>1, <2>2 DEF JumpError, IsLiveEpoch, RegisteredIsCurrent
  <1>5. CASE JumpClose(g)
    <2>1. CASE Cleanup(g, Ended(client[g]), "closed") /\ IsLiveEpoch(g) /\ registered = g
               /\ told' = Notified(g)
      BY <1>0, <1>a, <1>5, <2>1, CleanupEffect, TransportFacts
         DEF JumpClose, Frame, Effect, IsLiveEpoch, RegisteredIsCurrent
    <2>2. CASE RejectIfPending(g, client[g], "closed") /\ registered # g
               /\ UNCHANGED <<registered, told>>
      <3>1. CASE SafeReject(g, client[g], "closed") /\ Pending(g)
        BY <1>0, <1>5, <2>2, <3>1, SafeRejectEffect
           DEF JumpClose, Frame, Effect, Pending
      <3>2. CASE Ignore(g, client[g], "closed") /\ ~Pending(g)
        BY <1>0, <1>5, <2>2, <3>2, TransportFacts
           DEF JumpClose, Frame, Effect, Pending, Ignore, Released, TypeOK
      <3> QED BY <2>2, <3>1, <3>2 DEF RejectIfPending
    <2> QED BY <1>0, <1>5, <2>1, <2>2 DEF JumpClose, IsLiveEpoch, RegisteredIsCurrent
  <1>6. CASE HostKeyRefused(g)
    BY <1>0, <1>6 DEF HostKeyRefused, Frame, Effect, TypeOK, Released
  <1>7. CASE ClientReady(g)
    BY <1>0, <1>7, SafeRejectEffect
       DEF ClientReady, Frame, Effect, Pending, RegisteredIsCurrent, TypeOK
  <1>8. CASE DisplayResolved(g) \/ DisplayRechecked(g)
    BY <1>0, <1>8, SafeRejectEffect
       DEF DisplayResolved, DisplayRechecked, Frame, Effect, Pending, TypeOK, RegisteredIsCurrent
  <1>9. CASE ShellDeadline(g)
    BY <1>0, <1>a, <1>9, SafeRejectEffect
       DEF ShellDeadline, DeadlineArmed, Frame, Effect, Pending, IsLiveEpoch, RegisteredIsCurrent
  <1>10. CASE ShellFailed(g)
    BY <1>0, <1>10, SafeRejectEffect
       DEF ShellFailed, Frame, Effect, Pending, TypeOK, RegisteredIsCurrent
  <1>11. CASE FallbackProbed(g)
    BY <1>0, <1>11 DEF FallbackProbed, Frame, Effect, Pending, TypeOK, requestVars, Released
  <1>12. CASE ShellOpened(g)
    BY <1>0, <1>12, SafeRejectEffect
       DEF ShellOpened, Frame, Effect, Pending, TypeOK, IsLiveEpoch, RegisteredIsCurrent
  <1>13. CASE StreamEvent(g)
    <2>0. UNCHANGED <<epoch, phase, queued, hostKey, confirming, tabClosed>>
      BY <1>13 DEF StreamEvent
    <2>1. CASE Cleanup(g, Ended(client[g]), jump[g]) /\ IsLiveEpoch(g) /\ registered = g
               /\ told' = Notified(g)
      BY <1>0, <1>a, <2>0, <2>1, CleanupEffect, TransportFacts
         DEF Frame, Effect, IsLiveEpoch, RegisteredIsCurrent
    <2>2. CASE UNCHANGED <<registered, settled, client, jump, forwards, running, told>>
      BY <1>0, <2>0, <2>2 DEF Frame, Effect, Released
    <2> QED BY <1>13, <2>1, <2>2 DEF StreamEvent
  <1>14. CASE ClientError(g)
    BY <1>0, <1>a, <1>14, AbortEffect
       DEF ClientError, Superseded, Frame, Effect, IsLiveEpoch, RegisteredIsCurrent, Pending
  <1>15. CASE ClientClose(g)
    <2>1. CASE Cleanup(g, "closed", jump[g]) /\ IsLiveEpoch(g) /\ registered = g
               /\ told' = Notified(g)
      BY <1>0, <1>a, <1>15, <2>1, CleanupEffect
         DEF ClientClose, Frame, Effect, IsLiveEpoch, RegisteredIsCurrent
    <2>2. CASE AbortAndReject(g, "closed", jump[g]) /\ UNCHANGED <<registered, told>>
      BY <1>0, <1>15, <2>2, AbortEffect DEF ClientClose, Frame, Effect
    <2> QED BY <1>15, <2>1, <2>2 DEF ClientClose, Superseded
  <1> QED BY <1>1, <1>2, <1>3, <1>4, <1>5, <1>6, <1>7, <1>8, <1>9, <1>10, <1>11, <1>12,
             <1>13, <1>14, <1>15 DEF AttemptStep
-----------------------------------------------------------------------------
LEMMA InitInv == Init => Inv
  BY InitType DEF Init, Inv, RegisteredIsCurrent, Unreached, SettledReleases, None

LEMMA GenerationFacts ==
  ASSUME TypeOK
  PROVE  /\ \A g \in Gen : g # None /\ g # epoch + 1 => g > epoch + 1 \/ g <= epoch
         /\ registered # None => registered \in Gen
         /\ Initial \in Gen /\ epoch \in Nat
  BY ConstantsAssumption DEF ConstantsAssumption, TypeOK, Gen, None, Initial

(* A step of an attempt: Frame and Effect say all that matters.            *)
LEMMA AttemptInv ==
  ASSUME Inv, TypeOK', NEW g \in Gen, AttemptStep(g)
  PROVE  RegisteredIsCurrent' /\ Unreached' /\ SettledReleases'
  <1>1. Frame(g) /\ Effect(g)
    BY AttemptEffect
  <1>2. RegisteredIsCurrent'
    BY <1>1, GenerationFacts DEF Inv, RegisteredIsCurrent, Frame, Effect
  <1>3. Unreached'
    BY <1>1 DEF Inv, Unreached, Frame, Effect
  <1>4. SettledReleases'
    <2> SUFFICES ASSUME NEW h \in Gen, settled'[h] # "no", registered' # h
                 PROVE  Released(h)'
      BY DEF SettledReleases, Released
    <2>1. CASE h = g
      BY <1>1, <2>1 DEF Effect
    <2>2. CASE h # g
      <3>1. settled[h] # "no" /\ registered # h
        BY <1>1, <2>2 DEF Inv, RegisteredIsCurrent, Frame, Effect, Gen, None
      <3>2. Released(h)
        BY <3>1 DEF Inv, SettledReleases, Released
      <3> QED BY <1>1, <2>2, <3>2 DEF Frame, Released
    <2> QED BY <2>1, <2>2
  <1> QED BY <1>2, <1>3, <1>4

LEMMA StepInv == Inv /\ [Next]_vars => Inv'
  <1> SUFFICES ASSUME Inv, [Next]_vars PROVE Inv'
    OBVIOUS
  <1>a. TypeOK /\ TypeOK' /\ RegisteredIsCurrent /\ Unreached /\ SettledReleases
    BY StepType DEF Inv
  <1> SUFFICES RegisteredIsCurrent' /\ Unreached' /\ SettledReleases'
    BY <1>a DEF Inv
  <1> USE DEF attemptVars, requestVars
  <1>1. CASE Connect
    <2>1. RegisteredIsCurrent'
      BY <1>a, <1>1 DEF Connect, RegisteredIsCurrent, None
    <2>2. Unreached'
      BY <1>a, <1>1, GenerationFacts
         DEF Connect, StartAttempt, Unreached, TypeOK, Initial, Gen
    <2>3. \A g \in Gen : settled[g] = "no"
      BY <1>a, <1>1 DEF Connect, Unreached, Gen
    <2>4. SettledReleases'
      BY <1>1, <2>3 DEF Connect, SettledReleases
    <2> QED BY <2>1, <2>2, <2>4
  <1>2. CASE Reconnect
    BY <1>a, <1>2 DEF Reconnect, RegisteredIsCurrent, Unreached, SettledReleases
  <1>3. CASE StartReconnect
    <2>1. RegisteredIsCurrent' /\ Unreached'
      <3>1. RegisteredIsCurrent'
        BY <1>3 DEF StartReconnect, RegisteredIsCurrent, None
      <3>2. Unreached'
        BY <1>a, <1>3 DEF StartReconnect, Unreached, TypeOK, Gen
      <3> QED BY <3>1, <3>2
    <2>2. SettledReleases'
      BY <1>a, <1>3, GenerationFacts, TransportFacts
         DEF StartReconnect, Unreached, SettledReleases, TypeOK, None
    <2> QED BY <2>1, <2>2
  <1>4. CASE CancelConnect
    <2>1. /\ UNCHANGED <<epoch, registered, phase>>
          /\ settled' = [g \in Gen |-> IF g \in InFlight THEN "rejected" ELSE settled[g]]
          /\ client' = [g \in Gen |-> IF g \in InFlight THEN Disposed(client[g]) ELSE client[g]]
          /\ jump' = [g \in Gen |-> IF g \in InFlight THEN Disposed(jump[g]) ELSE jump[g]]
          /\ forwards' = [g \in Gen |-> g \notin InFlight /\ forwards[g]]
      BY <1>4 DEF CancelConnect, AbortAll
    <2>2. RegisteredIsCurrent'
      BY <1>a, <2>1, GenerationFacts DEF RegisteredIsCurrent, InFlight, Pending
    <2>3. Unreached'
      BY <1>a, <2>1 DEF Unreached, InFlight, Pending
    <2>4. SettledReleases'
      BY <1>a, <2>1, TransportFacts DEF SettledReleases
    <2> QED BY <2>2, <2>3, <2>4
  <1>5. CASE Disconnect
    <2>1. RegisteredIsCurrent' /\ Unreached'
      BY <1>a, <1>5
         DEF Disconnect, AbortAll, Aborted, InFlight, Pending, RegisteredIsCurrent, Unreached,
             TypeOK, Gen
    <2>2. SettledReleases'
      BY <1>a, <1>5, TransportFacts
         DEF Disconnect, AbortAll, Aborted, InFlight, Pending, SettledReleases, TypeOK
    <2> QED BY <2>1, <2>2
  <1>6. CASE ManagerDisconnect
    <2>1. CASE registered # None
      BY <1>a, <1>6, <2>1, GenerationFacts, TransportFacts, CleanupEffect
         DEF ManagerDisconnect, RegisteredIsCurrent, Unreached, SettledReleases, Released, Gen
    <2>2. CASE registered = None
      BY <1>a, <1>6, <2>2
         DEF ManagerDisconnect, RegisteredIsCurrent, Unreached, SettledReleases, TypeOK, Gen
    <2> QED BY <2>1, <2>2
  <1>7. CASE DiscardDeadSession
    BY <1>a, <1>7, GenerationFacts, TransportFacts, CleanupEffect
       DEF DiscardDeadSession, RegisteredIsCurrent, Unreached, SettledReleases, Released
  <1>8. CASE ConfirmHostKey \/ HostKeySaved \/ HostKeyNotSaved \/ RejectHostKey
    BY <1>a, <1>8
       DEF ConfirmHostKey, HostKeySaved, HostKeyNotSaved, RejectHostKey, RegisteredIsCurrent,
           Unreached, SettledReleases
  <1>9. ASSUME NEW g \in Gen, AttemptStep(g)
        PROVE  RegisteredIsCurrent' /\ Unreached' /\ SettledReleases'
    BY <1>a, <1>9, AttemptInv
  <1>10. CASE UNCHANGED vars
    BY <1>a, <1>10 DEF vars, RegisteredIsCurrent, Unreached, SettledReleases
  <1> QED BY <1>1, <1>2, <1>3, <1>4, <1>5, <1>6, <1>7, <1>8, <1>9, <1>10
          DEF Next, RequestStep

LEMMA Invariance == Spec => []Inv
  BY InitInv, StepInv, PTL DEF Spec

(* The entry of the sessions map is always the current generation's.       *)
THEOREM SessionsMapIsCurrent == Spec => []RegisteredIsCurrent
  BY Invariance, PTL DEF Inv

(* Every way out of an attempt or a session releases what it held.         *)
THEOREM ReleasesEverything == Spec => []SettledReleases
  BY Invariance, PTL DEF Inv
-----------------------------------------------------------------------------
(* Nothing that could still register a session survives the disconnect: no *)
(* queued reconnect, no confirmation that will queue one and no pending    *)
(* attempt of the current generation.                                      *)
NoRevival ==
  tabClosed => /\ registered = None /\ epoch # 0 /\ ~queued /\ confirming # "saving"
               /\ \A g \in Gen : g = epoch => ~Pending(g)

LEMMA StepNoRevival == Inv /\ NoRevival /\ [Next]_vars => NoRevival'
  <1> SUFFICES ASSUME Inv, NoRevival, [Next]_vars, tabClosed' PROVE NoRevival'
    BY DEF NoRevival
  <1>a. TypeOK /\ RegisteredIsCurrent /\ Unreached /\ Inv'
    BY StepInv DEF Inv
  <1> USE DEF attemptVars, requestVars
  <1>1. CASE Connect
    BY <1>1 DEF Connect, NoRevival
  <1>2. CASE Reconnect \/ ConfirmHostKey
    BY <1>2 DEF Reconnect, ConfirmHostKey
  <1>3. CASE StartReconnect
    BY <1>3 DEF StartReconnect, NoRevival
  <1>4. CASE CancelConnect
    BY <1>a, <1>4
       DEF CancelConnect, AbortAll, ConfirmAborted, AfterAbort, InFlight, Pending, NoRevival, TypeOK
  <1>5. CASE Disconnect
    <2>1. \A g \in Gen : g = epoch' => ~Pending(g)'
      BY <1>a, <1>5 DEF Disconnect, Unreached, Pending, TypeOK, Gen
    <2> QED BY <1>a, <1>5, <2>1 DEF Disconnect, ConfirmAborted, AfterAbort, NoRevival, TypeOK
  <1>6. CASE ManagerDisconnect
    <2>1. \A g \in Gen : g = epoch' => ~Pending(g)'
      BY <1>a, <1>6 DEF ManagerDisconnect, Unreached, Pending, TypeOK, Gen
    <2> QED BY <1>a, <1>6, <2>1 DEF ManagerDisconnect, Cleanup, NoRevival, TypeOK
  <1>7. CASE DiscardDeadSession
    BY <1>7 DEF DiscardDeadSession, NoRevival
  <1>8. CASE HostKeySaved \/ HostKeyNotSaved \/ RejectHostKey
    BY <1>8 DEF HostKeySaved, HostKeyNotSaved, RejectHostKey, NoRevival, Pending
  <1>9. ASSUME NEW g \in Gen, AttemptStep(g) PROVE NoRevival'
    <2>1. Frame(g) /\ Effect(g)
      BY <1>9, AttemptEffect
    <2>2. tabClosed /\ (g = epoch => ~Pending(g))
      BY <2>1 DEF Frame, NoRevival
    <2>3. registered' = None
      BY <1>a, <2>1, <2>2, GenerationFacts
         DEF NoRevival, Effect, Frame, Pending, Unreached, RegisteredIsCurrent
    <2>4. \A h \in Gen : h = epoch' => ~Pending(h)'
      BY <2>1, <2>2 DEF NoRevival, Effect, Frame, Pending
    <2> QED BY <2>1, <2>2, <2>3, <2>4 DEF NoRevival, Frame
  <1>10. CASE UNCHANGED vars
    BY <1>10 DEF vars, NoRevival, Pending
  <1> QED BY <1>1, <1>2, <1>3, <1>4, <1>5, <1>6, <1>7, <1>8, <1>9, <1>10
          DEF Next, RequestStep

(* No session comes up under the id of a closed tab.                       *)
THEOREM ClosedTabHolds == Spec => []ClosedTabStaysClosed
  <1>1. Init => NoRevival
    BY DEF Init, NoRevival
  <1>2. NoRevival => ClosedTabStaysClosed
    BY DEF NoRevival, ClosedTabStaysClosed
  <1> QED BY <1>1, <1>2, StepNoRevival, Invariance, PTL DEF Spec
-----------------------------------------------------------------------------
LEMMA StepNotice ==
  Inv /\ [Next]_vars =>
    \A g \in Gen : /\ told'[g] # told[g] => g = epoch
                   /\ settled[g] # "no" => settled'[g] = settled[g]
  <1> SUFFICES ASSUME Inv, [Next]_vars, NEW g \in Gen
               PROVE  /\ told'[g] # told[g] => g = epoch
                      /\ settled[g] # "no" => settled'[g] = settled[g]
    OBVIOUS
  <1>a. TypeOK /\ RegisteredIsCurrent
    BY DEF Inv
  <1> USE DEF attemptVars, requestVars
  <1>1. CASE UNCHANGED <<told, settled>>
    BY <1>1
  <1>2. CASE CancelConnect \/ Disconnect
    BY <1>a, <1>2
       DEF CancelConnect, Disconnect, AbortAll, Aborted, InFlight, Pending, TypeOK
  <1>3. CASE DiscardDeadSession
    BY <1>a, <1>3, GenerationFacts
       DEF DiscardDeadSession, Cleanup, Notified, RegisteredIsCurrent, TypeOK
  <1>4. ASSUME NEW h \in Gen, AttemptStep(h)
        PROVE  /\ told'[g] # told[g] => g = epoch
               /\ settled[g] # "no" => settled'[g] = settled[g]
    <2>1. Frame(h) /\ Effect(h)
      BY <1>4, AttemptEffect
    <2> QED BY <2>1 DEF Frame, Effect
  <1>5. CASE \/ Connect \/ Reconnect \/ StartReconnect \/ ManagerDisconnect
             \/ ConfirmHostKey \/ HostKeySaved \/ HostKeyNotSaved \/ RejectHostKey
    BY <1>1, <1>5
       DEF Connect, Reconnect, StartReconnect, ManagerDisconnect, Cleanup,
           ConfirmHostKey, HostKeySaved, HostKeyNotSaved, RejectHostKey
  <1> QED BY <1>1, <1>2, <1>3, <1>4, <1>5 DEF Next, RequestStep, vars

(* Only the current generation speaks to the renderer, and a promise       *)
(* settles once.                                                           *)
THEOREM NoticesAreCurrent == Spec => NoStaleNotice
  BY StepNotice, Invariance, PTL DEF Spec, NoStaleNotice
-----------------------------------------------------------------------------
(* Without a jump host, a step of an attempt that takes the session out of *)
(* the map tells the renderer, and nothing is untold.                      *)
Tells(g) ==
  /\ registered = g /\ registered' # g => told'[g]
  /\ settled'[g] = "resolved" /\ settled[g] # "resolved" => registered' = g
  /\ told[g] => told'[g]

LEMMA AttemptTells ==
  ASSUME ~HasJump, Inv, NEW g \in Gen, AttemptStep(g)
  PROVE  Tells(g)
  <1>0. /\ TypeOK /\ RegisteredIsCurrent /\ ~Emits(jump[g])
        /\ told \in [Gen -> BOOLEAN] /\ Notified(g)[g] = TRUE
    BY DEF Inv, TypeOK, JumpStates, Emits, Notified
  <1>1. CASE JumpError(g) \/ JumpClose(g)
    BY <1>0, <1>1 DEF JumpError, JumpClose
  <1>2. CASE \/ JumpReady(g) \/ ForwardOpened(g) \/ HostKeyRefused(g) \/ ClientReady(g)
             \/ DisplayResolved(g) \/ DisplayRechecked(g) \/ ShellFailed(g) \/ FallbackProbed(g)
    BY <1>0, <1>2, SafeRejectEffect
       DEF JumpReady, ForwardOpened, HostKeyRefused, ClientReady, DisplayResolved,
           DisplayRechecked, ShellFailed, FallbackProbed, Tells
  <1>3. CASE ForwardFailed(g) \/ ForwardTimeout(g)
    <2>1. registered # g
      BY <1>0, <1>3 DEF ForwardFailed, ForwardTimeout, Pending, RegisteredIsCurrent, Gen, None
    <2> QED BY <1>0, <1>3, <2>1, SafeRejectEffect DEF ForwardFailed, ForwardTimeout, Tells
  <1>4. CASE ShellDeadline(g)
    BY <1>0, <1>4, SafeRejectEffect DEF ShellDeadline, Tells
  <1>5. CASE ShellOpened(g)
    BY <1>0, <1>5, SafeRejectEffect DEF ShellOpened, Tells
  <1>6. CASE StreamEvent(g)
    BY <1>0, <1>6 DEF StreamEvent, Cleanup, Tells
  <1>7. CASE ClientError(g)
    <2>1. settled'[g] = "resolved" => settled[g] = "resolved"
      BY <1>0, <1>7, AbortEffect DEF ClientError, AbortAndReject, Pending
    <2> QED BY <1>0, <1>7, <2>1 DEF ClientError, Superseded, Tells, None
  <1>8. CASE ClientClose(g)
    <2>1. settled'[g] = "resolved" => settled[g] = "resolved"
      BY <1>0, <1>8, AbortEffect DEF ClientClose, AbortAndReject, Pending, Cleanup
    <2> QED BY <1>0, <1>8, <2>1 DEF ClientClose, Superseded, Tells, Cleanup
  <1> QED BY <1>1, <1>2, <1>3, <1>4, <1>5, <1>6, <1>7, <1>8 DEF AttemptStep

LEMMA StepDrop ==
  ASSUME ~HasJump
  PROVE  Inv /\ DropIsTold /\ [Next]_vars => DropIsTold'
  <1> SUFFICES ASSUME Inv, DropIsTold, [Next]_vars,
                      NEW g \in Gen, settled'[g] = "resolved", g = epoch', registered' = None
               PROVE  told'[g]
    BY DEF DropIsTold
  <1>a. TypeOK /\ RegisteredIsCurrent /\ Unreached /\ g # None
    BY DEF Inv, Gen, None
  <1> USE DEF attemptVars, requestVars
  <1>1. CASE epoch' = epoch /\ registered' = registered /\ told' = told
             /\ (settled[g] = "resolved" \/ settled' = settled)
    BY <1>1 DEF DropIsTold
  <1>2. CASE Connect \/ StartReconnect \/ ManagerDisconnect
    <2>1. settled' = settled /\ epoch' = epoch + 1
      BY <1>2 DEF Connect, StartReconnect, ManagerDisconnect, Cleanup, Initial
    <2> QED BY <1>a, <2>1 DEF Unreached, TypeOK
  <1>3. CASE Disconnect
    <2>1. epoch' = epoch + 1 /\ settled[g] = "resolved"
      BY <1>3 DEF Disconnect, AbortAll
    <2> QED BY <1>a, <2>1 DEF Unreached, TypeOK
  <1>4. CASE CancelConnect
    BY <1>1, <1>4 DEF CancelConnect, AbortAll
  <1>5. CASE DiscardDeadSession
    <2>1. settled' = settled /\ epoch' = epoch /\ told' = Notified(registered)
      BY <1>5 DEF DiscardDeadSession, Cleanup
    <2>2. registered = g
      BY <1>a, <1>5, <2>1 DEF DiscardDeadSession, RegisteredIsCurrent
    <2> QED BY <1>a, <2>1, <2>2 DEF Notified, TypeOK
  <1>6. CASE Reconnect \/ ConfirmHostKey \/ HostKeySaved \/ HostKeyNotSaved \/ RejectHostKey
    BY <1>1, <1>6 DEF Reconnect, ConfirmHostKey, HostKeySaved, HostKeyNotSaved, RejectHostKey
  <1>7. ASSUME NEW h \in Gen, AttemptStep(h) PROVE told'[g]
    <2>1. Frame(h) /\ Effect(h) /\ Tells(h)
      BY <1>7, AttemptEffect, AttemptTells
    <2>2. CASE h = g
      <3>1. settled[g] = "resolved" /\ g = epoch
        BY <1>a, <2>1, <2>2 DEF Frame, Tells
      <3> QED BY <1>a, <2>1, <2>2, <3>1 DEF Tells, DropIsTold, RegisteredIsCurrent
    <2>3. CASE h # g
      BY <1>a, <2>1, <2>3 DEF Frame, Effect, DropIsTold, RegisteredIsCurrent
    <2> QED BY <2>2, <2>3
  <1>8. CASE UNCHANGED vars
    BY <1>1, <1>8 DEF vars
  <1> QED BY <1>2, <1>3, <1>4, <1>5, <1>6, <1>7, <1>8 DEF Next, RequestStep

(* Without a jump host no session is lost in silence.                      *)
THEOREM DirectDropIsTold ==
  ASSUME ~HasJump
  PROVE  Spec => []DropIsTold
  <1>1. Init => DropIsTold
    BY DEF Init, DropIsTold
  <1> QED BY <1>1, StepDrop, Invariance, PTL DEF Spec
=============================================================================
