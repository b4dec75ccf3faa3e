------------------------ MODULE SftpTransfers_proofs ------------------------
(***************************************************************************)
(* Claims end with their uploads, cancelled transfers stay cancelled, the  *)
(* queue counts its running entries, no question is orphaned and nothing   *)
(* hangs, for any number of transfers, batches, connections and limits.    *)
(* Inv is what the first two need: there a question that is served or taken *)
(* away moves a transfer from "asking" only.  More adds the types of the   *)
(* rest, the prompts and the count; Waited adds what ends each wait.       *)
(***************************************************************************)
EXTENDS SftpTransfers, FiniteSetTheorems, WellFoundedInduction, TLAPS

Typed ==
  /\ stage \in [T -> Stages] /\ mode \in [T -> AllModes]
  /\ batch \in [T -> Batches \cup {NoBatch}]
  /\ target \in [T -> Names \cup {NoTarget}]
  /\ cancelled \subseteq T /\ aborted \subseteq T /\ recalled \subseteq T
  /\ claims \subseteq Names

\* A target is set when the upload is resolved, and kept to its end.
TargetOK == \A t \in T : target[t] # NoTarget => stage[t] \in {"resolved", "running", "throws"}

\* A transfer that was recalled has not ended, and every later look at it
\* says so: its mark, the batch it joined when that was cancelled already,
\* or the runner's entry.
RecalledOK ==
  \A t \in recalled :
    /\ stage[t] \notin {"new"} \cup Terminal
    /\ t \in cancelled \/ (mode[t] \in {"ask", "tree"} /\ batch[t] \in batchCancelled)
    /\ stage[t] = "running" => t \in aborted

Inv == Typed /\ TargetOK /\ ClaimsAreReleased /\ RecalledOK

\* What CancelledNeverRuns says of a step.
Keeps ==
  \A t \in T :
    /\ t \in recalled /\ stage[t] # "running" => stage'[t] # "running"
    /\ t \in recalled => stage'[t] # "completed"
    /\ stage[t] \in Terminal => stage'[t] = stage[t]

LEMMA InitInv == Init => Inv
<1> SUFFICES ASSUME Init PROVE Inv
  OBVIOUS
<1>1. Typed
  BY DEF Init, Typed, Stages, AllModes
<1>2. QED
  BY <1>1 DEF Init, Inv, TargetOK, ClaimsAreReleased, RecalledOK

\* What the queue admits was waiting.
LEMMA PumpStage ==
  ASSUME NEW n, NEW before \in [T -> Stages], NEW births, Pump(n, before, births)
  PROVE  /\ stage' \in [T -> Stages]
         /\ \A t \in T : \/ stage'[t] = before[t]
                         \/ before[t] = "waiting" /\ stage'[t] \in {"throws", "opened", "opening"}
<1>1. FirstStage \in {"throws", "opened", "opening"}
  BY DEF FirstStage
<1>2. PICK limit \in Limits :
        stage' = [t \in T |-> IF t \in First({u \in T : before[u] = "waiting"}, Admitted(n, limit))
                              THEN FirstStage ELSE before[t]]
  BY DEF Pump
<1>3. \A k : First({u \in T : before[u] = "waiting"}, k) \subseteq {u \in T : before[u] = "waiting"}
  BY DEF First
<1>4. QED
  BY <1>1, <1>2, <1>3 DEF Stages

\* A question that is served moves an upload that asks, and nothing else.
LEMMA ServedStage ==
  ASSUME NEW before \in [T -> Stages], NEW decided
  PROVE  /\ Served(before, decided) \in [T -> Stages]
         /\ \A t \in T : \/ Served(before, decided)[t] = before[t]
                         \/ before[t] = "asking" /\ Served(before, decided)[t] = "answered"
  BY DEF Served, Stages

\* Steps that leave targets, claims and marks alone, and end nothing.
LEMMA StageInv ==
  ASSUME Inv, stage' \in [T -> Stages], mode' = mode, batch' = batch,
         UNCHANGED <<target, claims, cancelled, recalled, aborted>>,
         batchCancelled \subseteq batchCancelled',
         \A t \in T : \/ stage'[t] = stage[t]
                      \/ /\ InFlight(t) /\ stage'[t] \notin {"new", "waiting"} \cup Terminal
                         /\ target[t] # NoTarget => stage'[t] \in {"resolved", "running", "throws"}
                         /\ stage'[t] = "running" => ~IsCancelled(t)
  PROVE  Inv' /\ Keeps
<1> USE DEF Inv, Typed
<1>1. Typed'
  OBVIOUS
<1>2. TargetOK'
  BY DEF TargetOK
<1>3. ClaimsAreReleased'
  BY DEF ClaimsAreReleased, InFlight
<1>4. \A t \in recalled : IsCancelled(t)
  BY DEF RecalledOK, IsCancelled, ContextCancelled
<1>5. RecalledOK'
  BY <1>4 DEF RecalledOK, InFlight
<1>6. Keeps
  BY <1>4 DEF Keeps, InFlight, Terminal, RecalledOK
<1>7. QED
  BY <1>1, <1>2, <1>3, <1>5, <1>6

\* The end of a run: its claim is released, unless another one has it too.
LEMMA FinishInv ==
  ASSUME Inv, NEW t \in T, NEW what \in Terminal, Finish(t, what),
         stage[t] \in {"throws", "skips", "running"},
         what = "completed" => t \notin aborted /\ stage[t] = "running"
  PROVE  Inv' /\ Keeps
<1> DEFINE served == Prompted(RequestsOf({t}), strategy).served
           st == Served(Reset(stage, {t}, what), served)
<1> USE DEF Inv, Typed
<1>1. Reset(stage, {t}, what) \in [T -> Stages]
  BY DEF Reset, Terminal, Stages
<1>2. st \in [T -> Stages] /\ st[t] = what
  BY <1>1, ServedStage DEF Reset, Terminal
<1>3. \A u \in T \ {t} : st[u] = stage[u] \/ (stage[u] = "asking" /\ st[u] = "answered")
  BY <1>1, ServedStage DEF Reset
<1>4. Pump(running - 1, st, Reset(birth, {t}, 0))
  BY DEF Finish
<1> HIDE DEF st
<1>5. stage' \in [T -> Stages] /\ stage'[t] = what
  BY <1>2, <1>4, PumpStage DEF Terminal
<1>6. \A u \in T \ {t} : \/ stage'[u] = stage[u]
                         \/ stage[u] = "asking" /\ stage'[u] = "answered"
                         \/ stage[u] = "waiting" /\ stage'[u] \in {"throws", "opened", "opening"}
  BY <1>2, <1>3, <1>4, PumpStage
<1>7. /\ claims' = Release(t)
      /\ mode' = Reset(mode, {t}, "direct") /\ batch' = Reset(batch, {t}, NoBatch)
      /\ target' = Reset(target, {t}, NoTarget)
      /\ cancelled' = cancelled \ {t} /\ aborted' = aborted \ {t}
      /\ recalled' = recalled \ {t} /\ batchCancelled' = batchCancelled
  BY DEF Finish, batchVars
<1>8. Typed'
  BY <1>5, <1>7 DEF Reset, Release, AllModes
<1>9. TargetOK'
  BY <1>5, <1>6, <1>7 DEF TargetOK, Reset
<1>10. ClaimsAreReleased'
  <2>1. ASSUME NEW n \in claims'
        PROVE  \E u \in T : InFlight(u)' /\ target'[u] = n
    <3>1. n \in claims /\ (target[t] = NoTarget \/ n # target[t])
      BY <1>7 DEF Release
    <3>2. PICK u \in T : InFlight(u) /\ target[u] = n
      BY <3>1 DEF ClaimsAreReleased
    <3>3. n # NoTarget
      BY <3>1, TransfersAssumption DEF Names, NoTarget
    <3>4. u # t
      BY <3>1, <3>2, <3>3
    <3>5. target'[u] = n /\ InFlight(u)'
      BY <3>2, <3>4, <1>6, <1>7 DEF InFlight, Terminal, Reset
    <3>6. QED
      BY <3>5
  <2>2. QED
    BY <2>1 DEF ClaimsAreReleased
<1>11. RecalledOK'
  BY <1>6, <1>7 DEF RecalledOK, Reset, Terminal
<1>12. Keeps
  BY <1>5, <1>6 DEF Keeps, RecalledOK, Terminal
<1>13. QED
  BY <1>8, <1>9, <1>10, <1>11, <1>12

\* Transfers of S are cancelled: the waiting ones end, the others are
\* marked, and questions of R are rejected.
LEMMA RecallInv ==
  ASSUME Inv, NEW S \in SUBSET T, NEW C, NEW R, Recall(S, C, R),
         batchCancelled \subseteq batchCancelled',
         claims' = claims \/ claims' = {}
  PROVE  Inv' /\ Keeps
<1> DEFINE drop == Dropped(S)
           run == {t \in S : InFlight(t)}
           served == Prompted(RequestsOf(R), strategy).served
           reset == Reset(stage, drop, "over")
           st == Rejected(reset, R)
<1> USE DEF Inv, Typed
<1>1. reset \in [T -> Stages]
  BY DEF Reset, Stages
<1>2. st \in [T -> Stages]
  BY <1>1 DEF Rejected, Stages
<1>3. \A t \in T : IF t \in drop THEN st[t] = "over"
                  ELSE st[t] = stage[t] \/ (stage[t] = "asking" /\ st[t] = "throws")
  BY DEF Rejected, Reset
<1>4. /\ stage' = Served(st, served)
      /\ aborted' = aborted \cup {t \in run : stage[t] = "running"}
      /\ cancelled' = cancelled \cup run
      /\ recalled' = (recalled \cup run) \ drop
      /\ mode' = Reset(mode, drop, "direct") /\ batch' = Reset(batch, drop, NoBatch)
      /\ target' = target
  BY DEF Recall
<1> HIDE DEF st
<1>5. /\ stage' \in [T -> Stages]
      /\ \A t \in drop : stage[t] = "waiting" /\ stage'[t] = "over"
      /\ \A t \in T \ drop : \/ stage'[t] = stage[t]
                             \/ stage[t] = "asking" /\ stage'[t] \in {"answered", "throws"}
  BY <1>2, <1>3, <1>4, ServedStage DEF Dropped
<1>6. Typed'
  BY <1>4, <1>5 DEF Reset, AllModes
<1>7. TargetOK'
  BY <1>4, <1>5 DEF TargetOK
<1>8. ClaimsAreReleased'
  BY <1>4, <1>5 DEF ClaimsAreReleased, InFlight, Terminal, Dropped
<1>9. RecalledOK'
  BY <1>4, <1>5 DEF RecalledOK, Reset, Terminal, InFlight
<1>10. Keeps
  BY <1>5 DEF Keeps, RecalledOK, Terminal
<1>11. QED
  BY <1>6, <1>7, <1>8, <1>9, <1>10

\* A path is claimed for an upload that has none.
LEMMA ClaimInv ==
  ASSUME Inv, NEW t \in T, NEW n \in Names, Claim(t, n),
         stage[t] \in {"inline", "checking", "listing"},
         UNCHANGED <<mode, batch, cancelled, recalled, aborted, batchCancelled>>
  PROVE  Inv' /\ Keeps
<1> USE DEF Inv, Typed
<1>1. target[t] = NoTarget /\ n # NoTarget
  BY TransfersAssumption DEF TargetOK, Names, NoTarget
<1>2. /\ claims' = claims \cup {n} /\ target' = [target EXCEPT ![t] = n]
      /\ stage' = [stage EXCEPT ![t] = "resolved"]
  BY DEF Claim
<1>3. Typed'
  BY <1>2 DEF Stages
<1>4. TargetOK'
  BY <1>2 DEF TargetOK
<1>5. ClaimsAreReleased'
  <2>1. ASSUME NEW m \in claims, NEW u \in T, InFlight(u), target[u] = m
        PROVE  InFlight(u)' /\ target'[u] = m
    <3>1. m # NoTarget
      BY TransfersAssumption DEF Names, NoTarget
    <3>2. QED
      BY <2>1, <3>1, <1>1, <1>2 DEF InFlight
  <2>2. InFlight(t)' /\ target'[t] = n
    BY <1>2 DEF InFlight, Terminal
  <2>3. QED
    BY <2>1, <2>2, <1>2 DEF ClaimsAreReleased
<1>6. RecalledOK'
  BY <1>2 DEF RecalledOK, Terminal
<1>7. Keeps
  BY <1>2 DEF Keeps, RecalledOK, Terminal
<1>8. QED
  BY <1>3, <1>4, <1>5, <1>6, <1>7

\* A transfer is announced: it has no target and no claim yet, and it is
\* recalled from the start when its batch was cancelled before.
LEMMA SubmitInv ==
  ASSUME Inv, NEW t \in T, NEW m \in Modes, NEW b \in Batches, Submit(t, m, b)
  PROVE  Inv' /\ Keeps
<1> DEFINE st == [stage EXCEPT ![t] = "waiting"]
<1> USE DEF Inv, Typed
<1>1. /\ stage[t] = "new" /\ Pump(running, st, birth)
      /\ mode' = [mode EXCEPT ![t] = m]
      /\ batch' = [batch EXCEPT ![t] = IF m \in {"ask", "tree"} THEN b ELSE NoBatch]
      /\ recalled' = IF m \in {"ask", "tree"} /\ b \in batchCancelled THEN recalled \cup {t}
                     ELSE recalled
      /\ UNCHANGED <<target, claims, cancelled, aborted, batchCancelled>>
  BY DEF Submit, runnerVars, batchVars
<1>2. st \in [T -> Stages] /\ st[t] = "waiting" /\ \A u \in T \ {t} : st[u] = stage[u]
  BY DEF Stages
<1> HIDE DEF st
<1>3. /\ stage' \in [T -> Stages]
      /\ stage'[t] \in {"waiting", "throws", "opened", "opening"}
      /\ \A u \in T \ {t} : \/ stage'[u] = stage[u]
                            \/ stage[u] = "waiting" /\ stage'[u] \in {"throws", "opened", "opening"}
  BY <1>1, <1>2, PumpStage
<1>4. Typed'
  BY <1>1, <1>3, TransfersAssumption
<1>5. TargetOK'
  BY <1>1, <1>3 DEF TargetOK
<1>6. ClaimsAreReleased'
  BY <1>1, <1>3 DEF ClaimsAreReleased, InFlight, Terminal
<1>7. RecalledOK'
  BY <1>1, <1>3 DEF RecalledOK, Terminal
<1>8. Keeps
  BY <1>1, <1>3 DEF Keeps, RecalledOK, Terminal
<1>9. QED
  BY <1>4, <1>5, <1>6, <1>7, <1>8

\* Questions that are served while nothing else of the run changes.
LEMMA ServedInv ==
  ASSUME Inv, NEW served, stage' = Served(stage, served), mode' = mode, batch' = batch,
         UNCHANGED <<target, claims, cancelled, recalled, aborted>>,
         batchCancelled' = batchCancelled
  PROVE  Inv' /\ Keeps
<1>1. stage \in [T -> Stages] /\ TargetOK
  BY DEF Inv, Typed
<1>2. stage' \in [T -> Stages]
  BY <1>1, ServedStage
<1>3. \A t \in T : stage'[t] = stage[t] \/ (stage[t] = "asking" /\ stage'[t] = "answered")
  BY <1>1, ServedStage
<1>4. \A t \in T : stage[t] = "asking" => InFlight(t) /\ target[t] = NoTarget
  BY <1>1 DEF InFlight, Terminal, TargetOK
<1>5. QED
  BY <1>2, <1>3, <1>4, StageInv DEF Terminal

\* One transfer goes on to a later stage, while questions may be served.
LEMMA OneMoves ==
  ASSUME Inv, NEW t \in T, NEW next \in Stages, NEW served,
         stage' = Served([stage EXCEPT ![t] = next], served),
         stage[t] \in {"opening", "opened", "inline", "checking", "listing", "answered", "resolved"},
         next \notin {"new", "waiting"} \cup Terminal,
         stage[t] = "resolved" => next \in {"running", "throws"},
         next = "running" => ~IsCancelled(t),
         mode' = mode, batch' = batch,
         UNCHANGED <<target, claims, cancelled, recalled, aborted>>,
         batchCancelled' = batchCancelled
  PROVE  Inv' /\ Keeps
<1> DEFINE moved == [stage EXCEPT ![t] = next]
<1>1. stage \in [T -> Stages] /\ TargetOK
  BY DEF Inv, Typed
<1>2. /\ stage' = Served(moved, served)
      /\ moved \in [T -> Stages] /\ moved[t] = next /\ \A u \in T \ {t} : moved[u] = stage[u]
  BY <1>1
<1> HIDE DEF moved
<1>3. /\ Served(moved, served) \in [T -> Stages]
      /\ \A u \in T : \/ Served(moved, served)[u] = moved[u]
                      \/ moved[u] = "asking" /\ Served(moved, served)[u] = "answered"
  BY <1>2, ServedStage
<1>4. \A u \in T : stage'[u] = moved[u] \/ (moved[u] = "asking" /\ stage'[u] = "answered")
  BY <1>2, <1>3
<1>5. \A u \in T \ {t} : stage'[u] = stage[u] \/ (stage[u] = "asking" /\ stage'[u] = "answered")
  BY <1>2, <1>4
<1>6. stage'[t] = next \/ (next = "asking" /\ stage'[t] = "answered")
  BY <1>2, <1>4
<1>7. \A u \in T : stage[u] = "asking" => InFlight(u) /\ target[u] = NoTarget
  BY <1>1 DEF InFlight, Terminal, TargetOK
<1>8. InFlight(t) /\ (target[t] # NoTarget => stage[t] = "resolved")
  BY <1>1 DEF InFlight, Terminal, TargetOK
<1>9. \A u \in T : \/ stage'[u] = stage[u]
                   \/ /\ InFlight(u) /\ stage'[u] \notin {"new", "waiting"} \cup Terminal
                      /\ target[u] # NoTarget => stage'[u] \in {"resolved", "running", "throws"}
                      /\ stage'[u] = "running" => ~IsCancelled(u)
  BY <1>5, <1>6, <1>7, <1>8 DEF Terminal
<1>10. QED
  BY <1>2, <1>3, <1>9, StageInv

\* Serving nothing leaves the stages as they are.
LEMMA ServedNothing ==
  ASSUME NEW st \in [T -> Stages]
  PROVE  Served(st, {}) = st
  BY DEF Served

\* One transfer goes on, and no question is served.
LEMMA OneGoesOn ==
  ASSUME Inv, NEW t \in T, NEW next \in Stages,
         stage' = [stage EXCEPT ![t] = next],
         stage[t] \in {"opening", "opened", "inline", "checking", "listing", "answered", "resolved"},
         next \notin {"new", "waiting"} \cup Terminal,
         stage[t] = "resolved" => next \in {"running", "throws"},
         next = "running" => ~IsCancelled(t),
         mode' = mode, batch' = batch,
         UNCHANGED <<target, claims, cancelled, recalled, aborted>>,
         batchCancelled' = batchCancelled
  PROVE  Inv' /\ Keeps
<1>1. [stage EXCEPT ![t] = next] \in [T -> Stages]
  BY DEF Inv, Typed
<1>2. stage' = Served([stage EXCEPT ![t] = next], {})
  BY <1>1, ServedNothing
<1>3. QED
  BY <1>2, OneMoves

\* The decision about the wanted path, by the user or by the strategy.
LEMMA ResolveInv ==
  ASSUME Inv, NEW t \in T, NEW found, Resolve(t, found), UNCHANGED resolveVars,
         stage[t] \in {"inline", "checking"}
  PROVE  Inv' /\ Keeps
<1> DEFINE Goes(next) == stage' = [stage EXCEPT ![t] = next] /\ UNCHANGED <<claims, target>>
<1>1. /\ mode' = mode /\ batch' = batch
      /\ UNCHANGED <<cancelled, recalled, aborted>> /\ batchCancelled' = batchCancelled
  BY DEF resolveVars, runVars, runnerVars, batchVars
<1>2. ASSUME NEW next \in {"throws", "skips", "listing", "answered"}, Goes(next)
      PROVE  Inv' /\ Keeps
  BY <1>1, <1>2, OneGoesOn DEF Stages, Terminal
<1>3. ASSUME NEW n \in Names, Claim(t, n)
      PROVE  Inv' /\ Keeps
  BY <1>1, <1>3, ClaimInv
<1>4. ASSUME AskUser(t), UNCHANGED <<claims, target>>
      PROVE  Inv' /\ Keeps
  <2>1. CASE Question(<<t, 1>>, [stage EXCEPT ![t] = "asking"])
    <3>1. PICK served : stage' = Served([stage EXCEPT ![t] = "asking"], served)
      BY <2>1 DEF Question
    <3>2. QED
      BY <1>1, <1>4, <3>1, OneMoves DEF Stages, Terminal
  <2>2. CASE Goes("throws") \/ Goes("answered")
    BY <1>2, <2>2
  <2>3. QED
    BY <1>4, <2>1, <2>2 DEF AskUser
<1>5. Wanted \in Names /\ Fallback(t) \in Names
  BY TransfersAssumption DEF Names, Wanted, Fallback, T
<1>6. \/ AskUser(t) /\ UNCHANGED <<claims, target>>
      \/ \E next \in {"throws", "skips", "listing"} : Goes(next)
      \/ Claim(t, Wanted) \/ Claim(t, Fallback(t))
  BY DEF Resolve
<1>7. QED
  BY <1>2, <1>3, <1>4, <1>5, <1>6
-----------------------------------------------------------------------------
\* The steps of a run that are taken at once.
LEMMA MicroInv ==
  ASSUME Inv, NEW t \in T, MicroStep(t)
  PROVE  Inv' /\ Keeps
<1> USE DEF runVars, runnerVars, batchVars
<1>1. CASE Unwinds(t)
  <2>1. stage[t] \in {"throws", "skips"} /\ Finish(t, "over")
    BY <1>1 DEF Unwinds
  <2>2. QED
    BY <2>1, FinishInv DEF Terminal
<1>2. HandOver(t) \in {"throws", "running"} /\ (HandOver(t) = "running" => ~IsCancelled(t))
  BY DEF HandOver
<1>3. CASE Begin(t)
  <2>1. /\ stage[t] = "opened"
        /\ \E next \in {"inline", HandOver(t)} : stage' = [stage EXCEPT ![t] = next]
        /\ UNCHANGED <<mode, batch, target, claims, cancelled, recalled, aborted, batchCancelled>>
    BY <1>3 DEF Begin
  <2>2. QED
    BY <2>1, <1>2, OneGoesOn DEF Stages, Terminal
<1>4. CASE StartCheck(t)
  <2>1. stage[t] = "inline" /\ UNCHANGED resolveVars
    BY <1>4 DEF StartCheck
  <2>2. CASE \E found \in {"exists", "error"} : Resolve(t, found)
    BY <2>1, <2>2, ResolveInv
  <2>3. CASE stage' = [stage EXCEPT ![t] = "checking"] /\ UNCHANGED <<claims, target>>
    BY <2>1, <2>3, OneGoesOn DEF resolveVars, Stages, Terminal
  <2>4. QED
    BY <1>4, <2>2, <2>3 DEF StartCheck
<1>5. CASE Rejoin(t)
  <2>1. /\ stage[t] = "answered" /\ stage' = [stage EXCEPT ![t] = "inline"]
        /\ UNCHANGED <<mode, batch, target, claims, cancelled, recalled, aborted, batchCancelled>>
    BY <1>5 DEF Rejoin, resolveVars
  <2>2. QED
    BY <2>1, OneGoesOn DEF Stages, Terminal
<1>6. CASE StartUpload(t)
  <2>1. /\ stage[t] = "resolved"
        /\ \E next \in {"throws", HandOver(t)} : stage' = [stage EXCEPT ![t] = next]
        /\ UNCHANGED <<mode, batch, target, claims, cancelled, recalled, aborted, batchCancelled>>
    BY <1>6 DEF StartUpload, resolveVars
  <2>2. QED
    BY <2>1, <1>2, OneGoesOn DEF Stages, Terminal
<1>7. QED
  BY <1>1, <1>3, <1>4, <1>5, <1>6 DEF MicroStep

\* The answers of the server and the runner.
LEMMA AwaitedInv ==
  ASSUME Inv, NEW t \in T,
         Answers(t) \/ RunnerStep(t) \/ FileOfTreeFails(t) \/ \E f \in Files : AskFile(t, f)
  PROVE  Inv' /\ Keeps
<1>1. CASE ExistsAnswers(t)
  <2>1. stage[t] = "checking" /\ UNCHANGED resolveVars
    BY <1>1 DEF ExistsAnswers
  <2>2. PICK found \in {"exists", "absent", "error"} : Resolve(t, found)
    BY <1>1 DEF ExistsAnswers
  <2>3. QED
    BY <2>1, <2>2, ResolveInv
<1>2. CASE ListAnswers(t)
  <2>1. Fallback(t) \in Names
    BY TransfersAssumption DEF Names, Fallback, T
  <2>2. PICK n \in Names : Claim(t, n)
    BY <1>2, <2>1 DEF ListAnswers
  <2>3. stage[t] = "listing" /\ UNCHANGED <<mode, batch, cancelled, recalled, aborted, batchCancelled>>
    BY <1>2 DEF ListAnswers, resolveVars, runVars, runnerVars, batchVars
  <2>4. QED
    BY <2>2, <2>3, ClaimInv
<1>3. CASE RunnerStep(t)
  <2>1. stage[t] = "running"
    BY <1>3 DEF RunnerStep, FileEnds, TreeEnds
  <2>2. CASE Finish(t, "completed") /\ t \notin aborted
    BY <2>1, <2>2, FinishInv DEF Terminal
  <2>3. CASE Finish(t, "over")
    BY <2>1, <2>3, FinishInv DEF Terminal
  <2>4. QED
    BY <1>3, <2>2, <2>3 DEF RunnerStep, FileEnds, TreeEnds
<1>4. CASE FileOfTreeFails(t)
  <2>1. PICK served : stage' = Served(stage, served)
    BY <1>4 DEF FileOfTreeFails
  <2>2. /\ mode' = mode /\ batch' = batch /\ batchCancelled' = batchCancelled
        /\ UNCHANGED <<target, claims, cancelled, recalled, aborted>>
    BY <1>4 DEF FileOfTreeFails, runVars, batchVars
  <2>3. QED
    BY <2>1, <2>2, ServedInv
<1>5. ASSUME NEW f \in Files, AskFile(t, f)
      PROVE  Inv' /\ Keeps
  <2>1. stage \in [T -> Stages]
    BY DEF Inv, Typed
  <2>2. PICK served : stage' = Served(stage, served)
    BY <1>5, <2>1, ServedNothing DEF AskFile, Question
  <2>3. /\ mode' = mode /\ batch' = batch /\ batchCancelled' = batchCancelled
        /\ UNCHANGED <<target, claims, cancelled, recalled, aborted>>
    BY <1>5 DEF AskFile, runVars, batchVars
  <2>4. QED
    BY <2>2, <2>3, ServedInv
<1>6. QED
  BY <1>1, <1>2, <1>3, <1>4, <1>5 DEF Answers

\* What the user does.
LEMMA UserInv ==
  ASSUME Inv, UserStep
  PROVE  Inv' /\ Keeps
<1> USE DEF runVars, runnerVars, batchVars
<1>1. ASSUME NEW t \in T, CancelTransfer(t)
      PROVE  Inv' /\ Keeps
  <2>1. Recall({t}, {t} \cap Contexts, {t}) /\ UNCHANGED <<batchCancelled, claims>>
    BY <1>1 DEF CancelTransfer
  <2>2. QED
    BY <2>1, RecallInv
<1>2. ASSUME NEW a \in Strategies, NEW all \in BOOLEAN, Respond(a, all)
      PROVE  Inv' /\ Keeps
  <2>1. PICK served : stage' = Served(stage, served)
    BY <1>2 DEF Respond
  <2>2. /\ mode' = mode /\ batch' = batch /\ batchCancelled' = batchCancelled
        /\ UNCHANGED <<target, claims, cancelled, recalled, aborted>>
    BY <1>2 DEF Respond
  <2>3. QED
    BY <2>1, <2>2, ServedInv
<1>3. CASE RespondCancel
  <2>1. PICK b : /\ batchCancelled' = batchCancelled \cup {b}
                 /\ Recall(Members(b), {}, Members(b))
    BY <1>3 DEF RespondCancel
  <2>2. Members(b) \in SUBSET T /\ claims' = claims
    BY <1>3 DEF Members, Contexts, RespondCancel
  <2>3. QED
    BY <2>1, <2>2, RecallInv
<1>4. CASE WindowCloses
  <2>1. Recall(Contexts, Contexts, Contexts) /\ UNCHANGED <<batchCancelled, claims>>
    BY <1>4 DEF WindowCloses
  <2>2. Contexts \in SUBSET T
    BY DEF Contexts
  <2>3. QED
    BY <2>1, <2>2, RecallInv
<1>5. QED
  BY <1>1, <1>2, <1>3, <1>4, SubmitInv DEF UserStep

\* What happens to the session and to its channel.
LEMMA SessionInv ==
  ASSUME Inv, SessionStep
  PROVE  Inv' /\ Keeps
<1> USE DEF runVars, runnerVars, batchVars
<1>1. stage \in [T -> Stages] /\ TargetOK
  BY DEF Inv, Typed
<1>2. ASSUME NEW g \in 1 .. MaxConns, ChannelOpens(g) \/ ChannelRefused(g)
      PROVE  Inv' /\ Keeps
  <2>1. PICK next \in {"opened", "throws"} :
          stage' = [t \in T |-> IF stage[t] = "opening" /\ birth[t] = g THEN next ELSE stage[t]]
    BY <1>2 DEF ChannelOpens, ChannelRefused
  <2>2. UNCHANGED <<mode, batch, target, claims, cancelled, recalled, aborted, batchCancelled>>
    BY <1>2 DEF ChannelOpens, ChannelRefused
  <2>3. \A t \in T : stage'[t] = stage[t] \/ (stage[t] = "opening" /\ stage'[t] \in {"opened", "throws"})
    BY <2>1
  <2>4. stage' \in [T -> Stages]
    BY <1>1, <2>1 DEF Stages
  <2>5. \A t \in T : stage[t] = "opening" => InFlight(t) /\ target[t] = NoTarget
    BY <1>1 DEF InFlight, Terminal, TargetOK
  <2>6. QED
    BY <2>2, <2>3, <2>4, <2>5, StageInv DEF Terminal
<1>3. CASE Teardown
  <2>1. PICK S \in SUBSET T : Recall(S, Contexts, T)
    BY <1>3 DEF Teardown
  <2>2. claims' = {} /\ batchCancelled' = batchCancelled
    BY <1>3 DEF Teardown
  <2>3. QED
    BY <2>1, <2>2, RecallInv
<1>4. CASE Reconnected \/ ChannelDies
  <2>1. UNCHANGED <<stage, mode, batch, target, claims, cancelled, recalled, aborted, batchCancelled>>
    BY <1>4 DEF Reconnected, ChannelDies
  <2>2. QED
    BY <1>1, <2>1, StageInv
<1>5. QED
  BY <1>2, <1>3, <1>4 DEF SessionStep

LEMMA NextInv == Inv /\ [Next]_vars => Inv' /\ Keeps
<1> SUFFICES ASSUME Inv, [Next]_vars PROVE Inv' /\ Keeps
  OBVIOUS
<1>1. CASE UNCHANGED vars
  <2>1. /\ UNCHANGED <<stage, mode, batch, target, claims, cancelled, recalled, aborted>>
        /\ batchCancelled' = batchCancelled
    BY <1>1 DEF vars, runVars, runnerVars, batchVars
  <2>2. stage' \in [T -> Stages]
    BY <2>1 DEF Inv, Typed
  <2>3. QED
    BY <2>1, <2>2, StageInv
<1>2. ASSUME NEW t \in T, TransferStep(t)
      PROVE  Inv' /\ Keeps
  BY <1>2, MicroInv, AwaitedInv DEF TransferStep
<1>3. QED
  BY <1>1, <1>2, UserInv, SessionInv DEF Next
-----------------------------------------------------------------------------
(* Whatever path a run or its session takes, a path is claimed only while  *)
(* an upload to it is under way (claimedRemotePaths in                     *)
(* registerSftpTransferHandlers.ts and its release in finally).            *)
THEOREM ClaimsEnd == Spec => []ClaimsAreReleased
<1>1. Inv => ClaimsAreReleased
  BY DEF Inv
<1>2. QED
  BY <1>1, InitInv, NextInv, PTL DEF Spec

(* A transfer that was cancelled while it waited, opened the channel, was  *)
(* resolved or asked the user is never handed to the runner, and one that  *)
(* was cancelled in the runner does not complete (cancelRun,               *)
(* cancelTransfersForSession and UploadConflicts.cancelBatch).             *)
THEOREM CancelledStay == Spec => CancelledNeverRuns
<1>1. Inv /\ [Next]_vars => [Keeps]_vars
  BY NextInv
<1>2. QED
  BY <1>1, InitInv, NextInv, PTL DEF Spec, CancelledNeverRuns, Keeps

-----------------------------------------------------------------------------
(* The types of the rest, and the prompts.                                 *)

Questioned(t) == mode[t] \in {"ask", "tree"}

Data ==
  /\ birth \in [T -> 0 .. MaxConns] /\ answer \in [T -> Strategies \cup {Undecided}]
  /\ stopped \subseteq T /\ asked \subseteq Requests /\ withdrawn \subseteq T
  /\ strategy \in [Batches -> Strategies \cup {Undecided}]
  /\ batchCancelled \subseteq Batches
  /\ chain \in [1 .. MaxConns -> Seq(T)]
  /\ conn \in {"up", "down"} /\ gen \in 1 .. MaxConns
  /\ channel \in BOOLEAN /\ (channel => conn = "up")
  /\ remote \subseteq Names /\ windowGone \in BOOLEAN

\* What a transfer with questions is, and how a recalled one is told.
RunsOK ==
  /\ \A t \in T : stage[t] = "asking" => mode[t] = "ask"
  /\ \A t \in T : Questioned(t) => batch[t] \in Batches
  /\ \A t \in stopped : stage[t] = "running"
  /\ \A t \in recalled : Questioned(t) => t \in withdrawn \/ batch[t] \in batchCancelled

\* The prompt that is shown is one of the requests, about a batch that is
\* undecided; each request is of a run that waits for it.
Waits(q) ==
  /\ q[1] \notin recalled \cup stopped
  /\ \/ stage[q[1]] = "asking" /\ q[2] = 1
     \/ stage[q[1]] = "running" /\ mode[q[1]] = "tree"

PromptsOK ==
  /\ requests \subseteq Requests /\ order \subseteq requests \X requests
  /\ requests # {} => visible \in requests /\ strategy[batch[visible[1]]] = Undecided
  /\ requests = {} => visible = NoRequest
  /\ \A q \in requests : Waits(q)

\* The entries that left the queue and have not ended are those that run.
Busy(st) == {t \in T : st[t] \notin {"new", "waiting"} \cup Terminal}
CountOK == running = Cardinality(Busy(stage))

More == Data /\ RunsOK /\ PromptsOK /\ CountOK

\* What is shown is left and undecided; who is not left is served.
LEMMA PumpedFacts ==
  ASSUME NEW rs, NEW ord, NEW strats, visible \in rs => strats[batch[visible[1]]] = Undecided
  PROVE  /\ Pumped(rs, ord, strats).left \subseteq rs
         /\ Pumped(rs, ord, strats).served \subseteq rs
         /\ \A q \in Pumped(rs, ord, strats).left : q \notin Pumped(rs, ord, strats).served
         /\ Pumped(rs, ord, strats).left # {} =>
              /\ Pumped(rs, ord, strats).shown \in Pumped(rs, ord, strats).left
              /\ strats[batch[Pumped(rs, ord, strats).shown[1]]] = Undecided
         /\ Pumped(rs, ord, strats).left = {} => Pumped(rs, ord, strats).shown = NoRequest
<1> DEFINE first  == FirstOpen(rs, ord, strats)
           shown  == CHOOSE q \in first : TRUE
           passed == {p \in rs : <<p, shown>> \in ord}
<1>1. Pumped(rs, ord, strats) =
        IF visible \in rs THEN [shown |-> visible, left |-> rs, served |-> {}]
        ELSE IF first = {} THEN [shown |-> NoRequest, left |-> {}, served |-> rs]
        ELSE [shown |-> shown, left |-> rs \ passed, served |-> passed]
  BY DEF Pumped
<1>2. ASSUME first # {}
      PROVE  /\ shown \in rs /\ strats[batch[shown[1]]] = Undecided
             /\ shown \notin passed
  <2>1. shown \in first
    BY <1>2
  <2> HIDE DEF shown
  <2>2. QED
    BY <2>1 DEF FirstOpen
<1> HIDE DEF first, shown, passed
<1>3. passed \subseteq rs
  BY DEF passed
<1>4. CASE visible \in rs
  BY <1>1, <1>4
<1>5. CASE visible \notin rs /\ first = {}
  BY <1>1, <1>5
<1>6. CASE visible \notin rs /\ first # {}
  BY <1>1, <1>2, <1>3, <1>6
<1>7. QED
  BY <1>4, <1>5, <1>6

\* Who is neither shown nor kept is served: no request is forgotten.
LEMMA PumpedWhole ==
  ASSUME NEW rs, NEW ord, NEW strats
  PROVE  rs = Pumped(rs, ord, strats).left \cup Pumped(rs, ord, strats).served
<1> DEFINE shown  == CHOOSE q \in FirstOpen(rs, ord, strats) : TRUE
           passed == {p \in rs : <<p, shown>> \in ord}
<1>1. Pumped(rs, ord, strats) =
        IF visible \in rs THEN [shown |-> visible, left |-> rs, served |-> {}]
        ELSE IF FirstOpen(rs, ord, strats) = {} THEN [shown |-> NoRequest, left |-> {}, served |-> rs]
        ELSE [shown |-> shown, left |-> rs \ passed, served |-> passed]
  BY DEF Pumped
<1>2. passed \subseteq rs
  OBVIOUS
<1> HIDE DEF shown, passed
<1>3. QED
  BY <1>1, <1>2

\* Requests are taken away or served, and those that are left still wait.
LEMMA PromptsLeave ==
  ASSUME PromptsOK, NEW rest, NEW strats, Shows(Prompted(rest, strats), order),
         strategy' = strats,
         visible \in requests \ rest => strats[batch[visible[1]]] = Undecided,
         \A q \in requests \ rest : q \notin Prompted(rest, strats).served =>
            batch'[q[1]] = batch[q[1]] /\ Waits(q)'
  PROVE  PromptsOK'
<1> DEFINE p == Prompted(rest, strats)
<1>1. /\ p.left \subseteq requests \ rest /\ p.served \subseteq requests \ rest
      /\ \A q \in p.left : q \notin p.served
      /\ p.left # {} => p.shown \in p.left /\ strats[batch[p.shown[1]]] = Undecided
      /\ p.left = {} => p.shown = NoRequest
  BY PumpedFacts DEF Prompted
<1>2. /\ requests' = p.left /\ visible' = p.shown
      /\ order' = order \cap (p.left \X p.left)
      /\ \A q \in requests \ rest : q \notin p.served =>
            batch'[q[1]] = batch[q[1]] /\ Waits(q)'
  BY DEF Shows
<1> HIDE DEF p
<1>3. requests \subseteq Requests
  BY DEF PromptsOK
<1>4. QED
  BY <1>1, <1>2, <1>3 DEF PromptsOK

\* Nobody asks and nobody is answered.
LEMMA PromptsStay ==
  ASSUME PromptsOK, UNCHANGED promptVars, strategy' = strategy,
         \A q \in requests : batch'[q[1]] = batch[q[1]] /\ Waits(q)'
  PROVE  PromptsOK'
BY DEF PromptsOK, promptVars

\* A question comes last, and is shown when there is no other.
LEMMA PromptsCome ==
  ASSUME PromptsOK, NEW q \in Requests, NEW st, Question(q, st), strategy' = strategy,
         batch' = batch, strategy[batch[q[1]]] = Undecided,
         \A r \in requests \cup {q} : Waits(r)'
  PROVE  PromptsOK'
<1> DEFINE rs  == requests \cup {q}
           ord == order \cup (requests \X {q})
           p   == Pumped(rs, ord, strategy)
<1>1. /\ p.left \subseteq rs
      /\ p.left # {} => p.shown \in p.left /\ strategy[batch[p.shown[1]]] = Undecided
      /\ p.left = {} => p.shown = NoRequest
  <2>1. visible \in rs => strategy[batch[visible[1]]] = Undecided
    BY DEF PromptsOK
  <2> HIDE DEF rs, ord
  <2>2. QED
    BY <2>1, PumpedFacts
<1>2. requests' = p.left /\ visible' = p.shown /\ order' = ord \cap (p.left \X p.left)
  BY DEF Question, Shows
<1> HIDE DEF p
<1>3. rs \subseteq Requests
  BY DEF PromptsOK
<1>4. QED
  BY <1>1, <1>2, <1>3 DEF PromptsOK

\* A transfer that leaves the queue is counted.
LEMMA BusyFinite == ASSUME NEW st PROVE IsFiniteSet(Busy(st)) /\ Cardinality(Busy(st)) \in 0 .. Count
<1>1. IsFiniteSet(T) /\ Cardinality(T) = Count
  BY FS_Interval, TransfersAssumption DEF T
<1>2. Busy(st) \in SUBSET T
  BY DEF Busy
<1>3. IsFiniteSet(Busy(st)) /\ Cardinality(Busy(st)) <= Count
  BY <1>1, <1>2, FS_Subset
<1>4. QED
  BY <1>3, FS_CardinalityType, TransfersAssumption

LEMMA PumpCount ==
  ASSUME NEW n, NEW before \in [T -> Stages], NEW births, Pump(n, before, births),
         n = Cardinality(Busy(before))
  PROVE  CountOK'
<1>1. PICK limit \in Limits :
        /\ running' = n + Cardinality(First({u \in T : before[u] = "waiting"}, Admitted(n, limit)))
        /\ stage' = [t \in T |-> IF t \in First({u \in T : before[u] = "waiting"}, Admitted(n, limit))
                                 THEN FirstStage ELSE before[t]]
  BY DEF Pump
<1> DEFINE started == First({u \in T : before[u] = "waiting"}, Admitted(n, limit))
<1>2. started \subseteq {u \in T : before[u] = "waiting"}
  BY DEF First
<1>3. running' = n + Cardinality(started) /\ stage' = [t \in T |-> IF t \in started THEN FirstStage ELSE before[t]]
  BY <1>1
<1> HIDE DEF started
<1>4. Busy(stage') = Busy(before) \cup started /\ Busy(before) \cap started = {}
  BY <1>2, <1>3 DEF Busy, FirstStage, Terminal
<1>5. IsFiniteSet(started) /\ Cardinality(started) \in Nat
  <2>1. IsFiniteSet(T)
    BY FS_Interval, TransfersAssumption DEF T
  <2>2. started \in SUBSET T
    BY <1>2
  <2>3. QED
    BY <2>1, <2>2, FS_Subset, FS_CardinalityType
<1>6. IsFiniteSet(Busy(before)) /\ Cardinality(Busy(before)) \in Nat
  BY BusyFinite
<1>7. Cardinality(Busy(stage')) = Cardinality(Busy(before)) + Cardinality(started)
  <2> DEFINE A == Busy(before)
  <2>1. IsFiniteSet(A) /\ A \cap started = {} /\ Busy(stage') = A \cup started
    BY <1>4, <1>6
  <2> HIDE DEF A
  <2>2. Cardinality(A \cup started) = Cardinality(A) + Cardinality(started) - Cardinality(A \cap started)
    BY <1>5, <2>1, FS_Union
  <2>3. Cardinality(A \cap started) = 0
    BY <2>1, FS_EmptySet
  <2>4. Cardinality(A) \in Nat
    BY <1>6 DEF A
  <2>5. Cardinality(Busy(stage')) = Cardinality(A) + Cardinality(started)
    BY <1>5, <2>1, <2>2, <2>3, <2>4
  <2>6. QED
    BY <2>5 DEF A
<1>8. QED
  BY <1>3, <1>7 DEF CountOK

\* What every invariant says of a transfer that moves: it keeps what it is.
LEMMA Moves ==
  ASSUME Inv, More, stage' \in [T -> Stages], UNCHANGED runVars, UNCHANGED promptVars,
         UNCHANGED batchVars, UNCHANGED <<running, recalled, stopped, withdrawn>>,
         \A t \in T : \/ stage'[t] = stage[t]
                      \/ /\ InFlight(t) /\ stage[t] \notin {"asking", "running"}
                         /\ stage'[t] \notin {"new", "waiting", "asking"} \cup Terminal
  PROVE  RunsOK' /\ PromptsOK' /\ CountOK'
<1> USE DEF runVars, batchVars
<1>1. RunsOK /\ PromptsOK /\ CountOK /\ stage \in [T -> Stages] /\ stopped \subseteq T
  BY DEF More, Data, Inv, Typed
<1>2. RunsOK'
  BY <1>1 DEF RunsOK, Questioned
<1>3. PromptsOK'
  <2>1. \A q \in requests : q[1] \in T
    BY <1>1 DEF PromptsOK, Requests
  <2>2. \A q \in requests : Waits(q)'
    BY <1>1, <2>1 DEF PromptsOK, Waits
  <2>3. QED
    BY <1>1, <2>2, PromptsStay
<1>4. CountOK'
  <2>1. Busy(stage') = Busy(stage)
    BY DEF Busy, InFlight
  <2>2. QED
    BY <1>1, <2>1 DEF CountOK
<1>5. QED
  BY <1>2, <1>3, <1>4

\* A strategy takes the place of an answer, and an answer is one of them.
LEMMA AnsweredType ==
  ASSUME Inv, More, NEW served, NEW strats \in [Batches -> Strategies \cup {Undecided}]
  PROVE  Answered(served, strats) \in [T -> Strategies \cup {Undecided}]
<1>1. \A t \in T : stage[t] = "asking" => batch[t] \in Batches
  BY DEF More, RunsOK, Questioned
<1>2. answer \in [T -> Strategies \cup {Undecided}]
  BY DEF More, Data
<1>3. QED
  BY <1>1, <1>2 DEF Answered

\* The steps of an upload on its way to its target, and of the channel.
LEMMA PassedType ==
  ASSUME Data, NEW t \in T
  PROVE  /\ Passed(t) \in [1 .. MaxConns -> Seq(T)]
         /\ [chain EXCEPT ![gen] = Append(@, t)] \in [1 .. MaxConns -> Seq(T)]
BY DEF Data, Passed

LEMMA WaysMore ==
  ASSUME Inv, More, NEW t \in T, Begin(t) \/ Rejoin(t) \/ StartUpload(t)
  PROVE  More'
<1>1. Inv' /\ UNCHANGED runVars /\ UNCHANGED promptVars /\ UNCHANGED batchVars
  BY MicroInv DEF MicroStep, Begin, Rejoin, StartUpload, resolveVars
<1>2. UNCHANGED <<running, recalled, stopped, withdrawn, asked, answer, worldVars>>
  BY DEF Begin, Rejoin, StartUpload, resolveVars, runnerVars
<1>3. stage \in [T -> Stages] /\ stage' \in [T -> Stages]
  BY <1>1 DEF Inv, Typed
<1>4. PICK next \in {"inline", "throws", "running"} :
        stage' = [stage EXCEPT ![t] = next] /\ stage[t] \in {"opened", "answered", "resolved"}
  BY DEF Begin, Rejoin, StartUpload, HandOver
<1>5. RunsOK' /\ PromptsOK' /\ CountOK'
  BY <1>1, <1>2, <1>3, <1>4, Moves DEF InFlight, Terminal
<1>6. chain' \in [1 .. MaxConns -> Seq(T)]
  BY PassedType DEF More, Data, Begin, Rejoin, StartUpload, Joins
<1>7. QED
  BY <1>1, <1>2, <1>5, <1>6 DEF More, Data, runVars, batchVars, worldVars

\* A new question serves nobody: another one is shown, or it is the only one.
LEMMA QuestionServesNone ==
  ASSUME PromptsOK, NEW q, strategy[batch[q[1]]] = Undecided
  PROVE  Pumped(requests \cup {q}, order \cup (requests \X {q}), strategy).served = {}
<1> DEFINE rs  == requests \cup {q}
           ord == order \cup (requests \X {q})
<1>1. CASE visible \in rs
  BY <1>1 DEF Pumped
<1>2. CASE visible \notin rs
  <2>1. requests = {} /\ rs = {q}
    BY <1>2 DEF PromptsOK
  <2>2. ord = {}
    BY <2>1 DEF PromptsOK
  <2>3. Pumped(rs, ord, strategy).served \subseteq {q}
    BY <1>2, <2>1, <2>2 DEF Pumped
  <2>4. FirstOpen(rs, ord, strategy) = {q}
    BY <2>1, <2>2 DEF FirstOpen
  <2>5. Pumped(rs, ord, strategy).served = {}
    BY <1>2, <2>2, <2>4 DEF Pumped
  <2>6. QED
    BY <2>5
<1>3. QED
  BY <1>1, <1>2

\* A transfer asks the user: as an upload that stops for it, or as one
\* worker of a tree that goes on.
LEMMA Asking ==
  ASSUME Inv, More, NEW t \in T, NEW f \in Files, NEW st \in [T -> Stages],
         Question(<<t, f>>, st), strategy[batch[t]] = Undecided,
         t \notin recalled \cup stopped,
         \A u \in T \ {t} : st[u] = stage[u],
         InFlight(t),
         \/ st[t] = "asking" /\ f = 1 /\ mode[t] = "ask"
         \/ st[t] = "running" /\ stage[t] = "running" /\ mode[t] = "tree",
         UNCHANGED runVars, UNCHANGED batchVars, UNCHANGED <<running, recalled, stopped, withdrawn>>
  PROVE  /\ RunsOK' /\ PromptsOK' /\ CountOK'
         /\ answer' \in [T -> Strategies \cup {Undecided}]
<1> USE DEF runVars, batchVars
<1>1. RunsOK /\ PromptsOK /\ CountOK /\ stage \in [T -> Stages] /\ stopped \subseteq T
  BY DEF More, Data, Inv, Typed
<1>2. stage' = st /\ answer' = Answered({}, strategy)
  BY <1>1, QuestionServesNone, ServedNothing DEF Question
<1>3. RunsOK'
  BY <1>1, <1>2 DEF RunsOK, Questioned
<1>4. PromptsOK'
  <2> DEFINE q == <<t, f>>
  <2>1. q \in Requests /\ q[1] = t /\ q[2] = f
    BY DEF Requests
  <2>2. \A r \in requests : r[1] \in T
    BY <1>1 DEF PromptsOK, Requests
  <2>3. \A r \in requests : Waits(r)'
    BY <1>1, <1>2, <2>2 DEF PromptsOK, Waits
  <2>4. Waits(q)'
    BY <1>2, <2>1 DEF Waits
  <2>5. Question(q, st) /\ strategy[batch[q[1]]] = Undecided
    BY <2>1
  <2> HIDE DEF q
  <2>6. QED
    BY <1>1, <2>1, <2>3, <2>4, <2>5, PromptsCome
<1>5. CountOK'
  <2>1. Busy(stage') = Busy(stage)
    BY <1>2 DEF Busy, InFlight, Terminal
  <2>2. QED
    BY <1>1, <2>1 DEF CountOK
<1>6. strategy \in [Batches -> Strategies \cup {Undecided}]
  BY DEF More, Data
<1>7. answer' \in [T -> Strategies \cup {Undecided}]
  BY <1>2, <1>6, AnsweredType
<1>8. QED
  BY <1>3, <1>4, <1>5, <1>7

\* The first look at the batch and at the context is as good as the prompt.
LEMMA RecalledIsCancelled ==
  ASSUME Inv, More, NEW t \in recalled, Questioned(t)
  PROVE  ContextCancelled(t)
BY DEF More, RunsOK, Questioned, ContextCancelled, Inv, Typed

LEMMA AskUserMore ==
  ASSUME Inv, More, NEW t \in T, AskUser(t), mode[t] = "ask",
         InFlight(t), stage[t] \notin {"asking", "running"},
         Inv', UNCHANGED runVars, UNCHANGED batchVars,
         UNCHANGED <<running, recalled, stopped, withdrawn>>
  PROVE  /\ RunsOK' /\ PromptsOK' /\ CountOK'
         /\ answer' \in [T -> Strategies \cup {Undecided}]
<1>1. /\ stage \in [T -> Stages] /\ stage' \in [T -> Stages] /\ batch[t] \in Batches
      /\ stopped \subseteq T /\ stage[t] # "running" /\ RunsOK
      /\ answer \in [T -> Strategies \cup {Undecided}]
      /\ strategy \in [Batches -> Strategies \cup {Undecided}]
  BY DEF Inv, Typed, More, Data, RunsOK, Questioned
<1>2. CASE /\ stage' \in {[stage EXCEPT ![t] = "throws"], [stage EXCEPT ![t] = "answered"]}
           /\ answer' = answer \/ answer' = [answer EXCEPT ![t] = strategy[batch[t]]]
           /\ UNCHANGED promptVars
  <2>1. \A u \in T : \/ stage'[u] = stage[u]
                     \/ /\ InFlight(u) /\ stage[u] \notin {"asking", "running"}
                        /\ stage'[u] \notin {"new", "waiting", "asking"} \cup Terminal
    BY <1>1, <1>2 DEF Terminal
  <2>2. RunsOK' /\ PromptsOK' /\ CountOK'
    BY <1>1, <1>2, <2>1, Moves
  <2>3. answer' \in [T -> Strategies \cup {Undecided}]
    BY <1>1, <1>2
  <2>4. QED
    BY <2>2, <2>3
<1>3. CASE /\ ~ContextCancelled(t) /\ strategy[batch[t]] = Undecided
           /\ Question(<<t, 1>>, [stage EXCEPT ![t] = "asking"])
  <2> DEFINE st == [stage EXCEPT ![t] = "asking"]
  <2>1. st \in [T -> Stages] /\ st[t] = "asking" /\ \A u \in T \ {t} : st[u] = stage[u]
    BY <1>1 DEF Stages
  <2>2. t \notin recalled
    BY <1>3, RecalledIsCancelled DEF Questioned
  <2>3. t \notin stopped
    BY <1>1 DEF RunsOK
  <2>4. 1 \in Files /\ Question(<<t, 1>>, st)
    BY <1>3 DEF Files
  <2> HIDE DEF st
  <2>5. QED
    BY <1>3, <2>1, <2>2, <2>3, <2>4, Asking
<1>4. QED
  BY <1>2, <1>3 DEF AskUser

\* The rest of the state after a step on the way to the target.
LEMMA OnTheWay ==
  ASSUME Inv, More, NEW t \in T, stage[t] \in {"inline", "checking", "listing"}, Inv',
         UNCHANGED resolveVars,
         \/ \E next \in {"throws", "skips", "listing", "checking", "resolved"} :
              stage' = [stage EXCEPT ![t] = next] /\ UNCHANGED <<answer, promptVars>>
         \/ AskUser(t) /\ Asks(t),
         chain' \in {chain, Passed(t)}
  PROVE  More'
<1> USE DEF resolveVars, runnerVars
<1>1. /\ UNCHANGED runVars /\ UNCHANGED batchVars /\ UNCHANGED worldVars
      /\ UNCHANGED <<running, recalled, stopped, withdrawn, asked>>
  OBVIOUS
<1>2. /\ stage \in [T -> Stages] /\ stage' \in [T -> Stages] /\ Data
      /\ InFlight(t) /\ stage[t] \notin {"asking", "running"}
  BY DEF Inv, Typed, More, InFlight, Terminal
<1>3. RunsOK' /\ PromptsOK' /\ CountOK' /\ answer' \in [T -> Strategies \cup {Undecided}]
  <2>1. CASE AskUser(t) /\ Asks(t)
    BY <1>1, <1>2, <2>1, AskUserMore DEF Asks
  <2>2. CASE \E next \in {"throws", "skips", "listing", "checking", "resolved"} :
               stage' = [stage EXCEPT ![t] = next] /\ UNCHANGED <<answer, promptVars>>
    <3>1. UNCHANGED promptVars /\ answer' = answer
      BY <2>2
    <3>2. \A u \in T : \/ stage'[u] = stage[u]
                       \/ /\ InFlight(u) /\ stage[u] \notin {"asking", "running"}
                          /\ stage'[u] \notin {"new", "waiting", "asking"} \cup Terminal
      BY <1>2, <2>2 DEF Terminal
    <3>3. RunsOK' /\ PromptsOK' /\ CountOK'
      BY <1>1, <1>2, <3>1, <3>2, Moves
    <3>4. QED
      BY <1>2, <3>1, <3>3 DEF Data
  <2>3. QED
    BY <2>1, <2>2
<1>4. chain' \in [1 .. MaxConns -> Seq(T)]
  BY <1>2, PassedType DEF Data
<1>5. Data'
  BY <1>1, <1>2, <1>3, <1>4 DEF Data, runVars, batchVars, worldVars
<1>6. QED
  BY <1>3, <1>5 DEF More

LEMMA ResolvingMore ==
  ASSUME Inv, More, NEW t \in T, StartCheck(t) \/ Answers(t)
  PROVE  More'
<1>1. Inv'
  BY MicroInv, AwaitedInv DEF MicroStep
<1>2. UNCHANGED resolveVars /\ stage[t] \in {"inline", "checking", "listing"}
  BY DEF StartCheck, Answers, ExistsAnswers, ListAnswers
<1>3. ASSUME NEW found, Resolve(t, found)
      PROVE  More'
  <2>1. \/ \E next \in {"throws", "skips", "listing", "checking", "resolved"} :
              stage' = [stage EXCEPT ![t] = next] /\ UNCHANGED <<answer, promptVars>>
        \/ AskUser(t) /\ Asks(t)
    BY <1>3 DEF Resolve, Claim
  <2>2. chain' \in {chain, Passed(t)}
    BY <1>3 DEF Resolve, Claim
  <2>3. QED
    BY <1>1, <1>2, <2>1, <2>2, OnTheWay
<1>4. ASSUME NEW n, Claim(t, n)
      PROVE  More'
  BY <1>1, <1>2, <1>4, OnTheWay DEF Claim
<1>5. CASE /\ stage' = [stage EXCEPT ![t] = "checking"]
           /\ UNCHANGED <<chain, claims, target, answer, promptVars>>
  BY <1>1, <1>2, <1>5, OnTheWay
<1>6. QED
  BY <1>3, <1>4, <1>5 DEF StartCheck, Answers, ExistsAnswers, ListAnswers

\* A worker of a tree asks, or the tree gives its questions up.
LEMMA TreeMore ==
  ASSUME Inv, More, NEW t \in T, FileOfTreeFails(t) \/ \E f \in Files : AskFile(t, f)
  PROVE  More'
<1> USE DEF runVars, batchVars
<1>1. Inv'
  BY AwaitedInv
<1>2. /\ UNCHANGED <<mode, batch, birth, strategy, batchCancelled, running, recalled,
                     withdrawn, chain>>
      /\ UNCHANGED worldVars
      /\ stage[t] = "running" /\ mode[t] = "tree" /\ t \notin aborted \cup stopped
  BY DEF FileOfTreeFails, AskFile
<1>3. /\ stage \in [T -> Stages] /\ Data /\ RunsOK /\ PromptsOK /\ CountOK /\ stopped \subseteq T
  BY DEF Inv, Typed, More, Data
<1>4. stopped' \subseteq T /\ asked' \subseteq Requests
  <2>1. stopped' \in {stopped, stopped \cup {t}}
    BY DEF FileOfTreeFails, AskFile
  <2>2. asked' = asked \/ \E f \in Files : asked' = asked \cup {<<t, f>>}
    BY DEF FileOfTreeFails, AskFile
  <2>3. \A f \in Files : <<t, f>> \in Requests
    BY DEF Requests
  <2>4. asked \subseteq Requests
    BY <1>3 DEF Data
  <2>5. QED
    BY <1>3, <2>1, <2>2, <2>3, <2>4
<1>5. RunsOK' /\ PromptsOK' /\ CountOK' /\ answer' \in [T -> Strategies \cup {Undecided}]
  <2>1. CASE FileOfTreeFails(t)
    <3> DEFINE p == Prompted(OpenQuestions(t), strategy)
    <3>1. /\ stopped' = stopped \cup {t} /\ Shows(p, order)
          /\ answer' = Answered(p.served, strategy) /\ stage' = Served(stage, p.served)
      BY <2>1 DEF FileOfTreeFails
    <3>2. \A u \in T : \/ stage'[u] = stage[u]
                       \/ /\ stage[u] = "asking" /\ stage'[u] = "answered"
                          /\ <<u, 1>> \in p.served
      BY <3>1 DEF Served
    <3>3. answer' \in [T -> Strategies \cup {Undecided}]
      BY <1>3, <3>1, AnsweredType DEF Data
    <3>4. RunsOK'
      BY <1>2, <1>3, <3>1, <3>2 DEF RunsOK, Questioned
    <3>5. CountOK'
      <4>1. Busy(stage') = Busy(stage)
        BY <3>2 DEF Busy, Terminal
      <4>2. QED
        BY <1>2, <1>3, <4>1 DEF CountOK
    <3>6. PromptsOK'
      <4>1. ASSUME NEW q \in requests \ OpenQuestions(t), q \notin p.served
            PROVE  batch'[q[1]] = batch[q[1]] /\ Waits(q)'
        <5>1. q[1] \in T /\ q = <<q[1], q[2]>> /\ q[1] # t /\ Waits(q)
          BY <1>3, <4>1 DEF PromptsOK, Requests, OpenQuestions, RequestsOf
        <5>2. stage'[q[1]] = stage[q[1]]
          BY <3>2, <4>1, <5>1 DEF Waits
        <5>3. QED
          BY <1>2, <3>1, <5>1, <5>2 DEF Waits
      <4> HIDE DEF p
      <4>2. visible \in requests => strategy[batch[visible[1]]] = Undecided
        BY <1>3 DEF PromptsOK
      <4>3. QED
        BY <1>2, <1>3, <3>1, <4>1, <4>2, PromptsLeave DEF p
    <3>7. QED
      BY <3>3, <3>4, <3>5, <3>6
  <2>2. ASSUME NEW f \in Files, AskFile(t, f)
        PROVE  RunsOK' /\ PromptsOK' /\ CountOK' /\ answer' \in [T -> Strategies \cup {Undecided}]
    <3>1. stopped' = stopped
      BY <2>2 DEF AskFile
    <3>2. CASE strategy[batch[t]] = Undecided /\ Question(<<t, f>>, stage)
      <4>1. t \notin recalled
        BY <1>2 DEF Inv, RecalledOK
      <4>2. InFlight(t)
        BY <1>2 DEF InFlight, Terminal
      <4>3. QED
        BY <1>2, <1>3, <3>1, <3>2, <4>1, <4>2, Asking
    <3>3. CASE UNCHANGED <<stage, answer, promptVars>>
      <4>1. RunsOK' /\ PromptsOK' /\ CountOK'
        BY <1>2, <1>3, <3>1, <3>3, Moves
      <4>2. QED
        BY <1>3, <3>3, <4>1 DEF Data
    <3>4. QED
      BY <2>2, <3>2, <3>3 DEF AskFile
  <2>3. QED
    BY <2>1, <2>2
<1>6. Data'
  BY <1>2, <1>3, <1>4, <1>5 DEF Data, worldVars
<1>7. QED
  BY <1>5, <1>6 DEF More

\* An answer: the prompt that is shown is served, and with the batch those
\* that come before the next open one.
LEMMA RespondMore ==
  ASSUME Inv, More, NEW a \in Strategies, NEW all \in BOOLEAN, Respond(a, all)
  PROVE  More'
<1> DEFINE strats == Decided(a, all)
           p == Prompted({visible}, strats)
<1> USE DEF runVars, runnerVars
<1>1. /\ UNCHANGED <<mode, batch, birth, batchCancelled, running, recalled, stopped, asked,
                     withdrawn, chain>>
      /\ UNCHANGED worldVars
      /\ visible # NoRequest /\ strategy' = strats /\ Shows(p, order)
      /\ stage' = Served(stage, p.served \cup {visible})
      /\ answer' = [t \in T |-> IF stage[t] = "asking" /\ visible = <<t, 1>> THEN a
                                ELSE Answered(p.served, strats)[t]]
  BY DEF Respond
<1>2. /\ stage \in [T -> Stages] /\ Data /\ RunsOK /\ PromptsOK /\ CountOK
  BY DEF Inv, Typed, More
<1>3. strats \in [Batches -> Strategies \cup {Undecided}]
  BY <1>2 DEF Decided, Data
<1> HIDE DEF strats, p
<1>4. Inv'
  BY UserInv DEF UserStep
<1>5. \A u \in T : \/ stage'[u] = stage[u]
                   \/ /\ stage[u] = "asking" /\ stage'[u] = "answered"
                      /\ <<u, 1>> \in p.served \cup {visible}
  BY <1>1 DEF Served
<1>6. RunsOK'
  BY <1>1, <1>2, <1>5 DEF RunsOK, Questioned, Data
<1>7. CountOK'
  <2>1. Busy(stage') = Busy(stage)
    BY <1>5 DEF Busy, Terminal
  <2>2. QED
    BY <1>1, <1>2, <2>1 DEF CountOK
<1>8. PromptsOK'
  <2>1. ASSUME NEW q \in requests \ {visible}, q \notin p.served
        PROVE  batch'[q[1]] = batch[q[1]] /\ Waits(q)'
    <3>1. q[1] \in T /\ q = <<q[1], q[2]>> /\ Waits(q)
      BY <1>2 DEF PromptsOK, Requests
    <3>2. stage'[q[1]] = stage[q[1]]
      BY <1>5, <2>1, <3>1 DEF Waits
    <3>3. QED
      BY <1>1, <3>1, <3>2 DEF Waits
  <2>2. QED
    BY <1>1, <1>2, <2>1, PromptsLeave DEF p
<1>9. answer' \in [T -> Strategies \cup {Undecided}]
  <2>1. Answered(p.served, strats) \in [T -> Strategies \cup {Undecided}]
    BY <1>3, AnsweredType
  <2>2. QED
    BY <1>1, <2>1
<1>10. Data'
  BY <1>1, <1>2, <1>3, <1>9 DEF Data, worldVars
<1>11. QED
  BY <1>6, <1>7, <1>8, <1>10 DEF More

\* Transfers of S are cancelled with all their questions; those that have a
\* context are withdrawn, or their batch is cancelled.
LEMMA RecallMore ==
  ASSUME Inv, More, NEW S \in SUBSET T, NEW C \in SUBSET T, NEW R, Recall(S, C, R), S \subseteq R,
         Inv', batchCancelled \subseteq batchCancelled', batchCancelled' \subseteq Batches,
         \A t \in S : HasContext(t) => t \in C \/ batch[t] \in batchCancelled'
  PROVE  /\ RunsOK' /\ PromptsOK' /\ CountOK'
         /\ answer' \in [T -> Strategies \cup {Undecided}] /\ withdrawn' \subseteq T
         /\ UNCHANGED <<birth, stopped, asked, strategy, chain>>
<1> DEFINE drop == Dropped(S)
           run == {t \in S : InFlight(t)}
           p == Prompted(RequestsOf(R), strategy)
           st == Rejected(Reset(stage, drop, "over"), R)
<1>1. /\ stage' = Served(st, p.served) /\ answer' = Answered(p.served, strategy)
      /\ Shows(p, order)
      /\ withdrawn' = (withdrawn \cup C) \ drop
      /\ recalled' = (recalled \cup run) \ drop
      /\ mode' = Reset(mode, drop, "direct") /\ batch' = Reset(batch, drop, NoBatch)
      /\ UNCHANGED <<birth, running, stopped, asked, strategy, chain>>
  BY DEF Recall
<1>2. /\ stage \in [T -> Stages] /\ recalled \subseteq T /\ Data /\ RunsOK /\ PromptsOK /\ CountOK
  BY DEF Inv, Typed, More
<1>3. \A t \in T : IF t \in drop THEN st[t] = "over"
                  ELSE \/ st[t] = stage[t]
                       \/ stage[t] = "asking" /\ st[t] = "throws" /\ t \in R
  BY DEF Rejected, Reset
<1>4. drop \subseteq S /\ \A t \in drop : stage[t] = "waiting"
  BY DEF Dropped
<1> HIDE DEF drop, st, p
<1>5. \A t \in T : IF t \in drop THEN stage'[t] = "over"
                  ELSE \/ stage'[t] = stage[t]
                       \/ /\ stage[t] = "asking" /\ stage'[t] \in {"throws", "answered"}
                          /\ t \in R \/ <<t, 1>> \in p.served
  BY <1>1, <1>3 DEF Served
<1>6. \A t \in T : IF t \in drop THEN mode'[t] = "direct"
                  ELSE mode'[t] = mode[t] /\ batch'[t] = batch[t]
  BY <1>1 DEF Reset
<1>7. RunsOK'
  <2>1. \A t \in T : stage'[t] = "asking" => mode'[t] = "ask"
    BY <1>2, <1>5, <1>6 DEF RunsOK
  <2>2. \A t \in T : Questioned(t)' => t \notin drop /\ Questioned(t) /\ batch'[t] = batch[t]
    BY <1>6 DEF Questioned
  <2>3. \A t \in stopped' : stage'[t] = "running"
    BY <1>1, <1>2, <1>4, <1>5 DEF RunsOK, Data
  <2>4. ASSUME NEW t \in recalled', Questioned(t)'
        PROVE  t \in withdrawn' \/ batch'[t] \in batchCancelled'
    <3>1. t \in T /\ t \notin drop /\ Questioned(t) /\ batch'[t] = batch[t]
      BY <1>1, <1>2, <2>2, <2>4
    <3>2. CASE t \in recalled
      BY <1>1, <1>2, <3>1, <3>2 DEF RunsOK
    <3>3. CASE t \in run
      BY <1>1, <3>1, <3>3 DEF HasContext, Questioned, InFlight
    <3>4. QED
      BY <1>1, <2>4, <3>2, <3>3
  <2>5. \A t \in T : Questioned(t)' => batch'[t] \in Batches
    BY <1>2, <2>2 DEF RunsOK
  <2>6. QED
    BY <2>1, <2>3, <2>4, <2>5 DEF RunsOK
<1>8. CountOK'
  <2>1. Busy(stage') = Busy(stage)
    BY <1>4, <1>5 DEF Busy, Terminal
  <2>2. QED
    BY <1>1, <1>2, <2>1 DEF CountOK
<1>9. PromptsOK'
  <2>1. ASSUME NEW q \in requests \ RequestsOf(R), q \notin p.served
        PROVE  batch'[q[1]] = batch[q[1]] /\ Waits(q)'
    <3>1. q[1] \in T /\ q = <<q[1], q[2]>> /\ Waits(q) /\ q[1] \notin R
      BY <1>2, <2>1 DEF PromptsOK, Requests, RequestsOf
    <3>2. q[1] \notin drop /\ q[1] \notin recalled'
      BY <1>1, <1>4, <3>1 DEF Waits
    <3>3. stage'[q[1]] = stage[q[1]]
      <4>1. stage[q[1]] = "asking" => <<q[1], 1>> \notin p.served
        BY <2>1, <3>1 DEF Waits
      <4>2. PICK u \in T : u = q[1]
        BY <3>1
      <4>3. u \notin drop /\ u \notin R /\ (stage[u] = "asking" => <<u, 1>> \notin p.served)
        BY <3>1, <3>2, <4>1, <4>2
      <4>4. QED
        BY <1>5, <4>2, <4>3
    <3>4. QED
      BY <1>1, <1>6, <3>1, <3>2, <3>3 DEF Waits
  <2>2. visible \in requests => strategy[batch[visible[1]]] = Undecided
    BY <1>2 DEF PromptsOK
  <2>3. QED
    BY <1>1, <1>2, <2>1, <2>2, PromptsLeave DEF p
<1>10. answer' \in [T -> Strategies \cup {Undecided}]
  BY <1>1, <1>2, AnsweredType DEF Data
<1>11. withdrawn' \subseteq T
  BY <1>1, <1>2 DEF Data
<1>12. QED
  BY <1>1, <1>7, <1>8, <1>9, <1>10, <1>11

LEMMA PumpBirth ==
  ASSUME Data, NEW n, NEW before, NEW births \in [T -> 0 .. MaxConns], Pump(n, before, births)
  PROVE  birth' \in [T -> 0 .. MaxConns]
BY TransfersAssumption DEF Data, Pump

\* A run ends: its questions are gone, and the next entries leave the queue.
LEMMA FinishMore ==
  ASSUME Inv, More, NEW t \in T, NEW what \in Terminal, Finish(t, what), Inv',
         stage[t] \in {"throws", "skips", "running"},
         UNCHANGED <<conn, gen, channel, windowGone>>, remote' \subseteq Names
  PROVE  More'
<1> DEFINE p == Prompted(RequestsOf({t}), strategy)
           reset == Reset(stage, {t}, what)
           st == Served(reset, p.served)
<1> USE DEF batchVars
<1>1. /\ Shows(p, order) /\ Pump(running - 1, st, Reset(birth, {t}, 0))
      /\ answer' = Reset(Answered(p.served, strategy), {t}, Undecided)
      /\ mode' = Reset(mode, {t}, "direct") /\ batch' = Reset(batch, {t}, NoBatch)
      /\ stopped' = stopped \ {t} /\ withdrawn' = withdrawn \ {t} /\ recalled' = recalled \ {t}
      /\ asked' = {q \in asked : q[1] # t}
      /\ UNCHANGED <<strategy, batchCancelled, chain>>
  BY DEF Finish
<1>2. /\ stage \in [T -> Stages] /\ recalled \subseteq T /\ Data /\ RunsOK /\ PromptsOK /\ CountOK
  BY DEF Inv, Typed, More
<1>3. /\ reset \in [T -> Stages] /\ reset[t] = what
      /\ \A u \in T \ {t} : reset[u] = stage[u]
  BY <1>2 DEF Reset, Terminal, Stages
<1> HIDE DEF reset, p
<1>4. /\ st \in [T -> Stages] /\ st[t] = what
      /\ \A u \in T \ {t} : \/ st[u] = stage[u]
                            \/ stage[u] = "asking" /\ st[u] = "answered" /\ <<u, 1>> \in p.served
  BY <1>3 DEF Served, Stages, Terminal
<1> HIDE DEF st
<1>5. /\ stage'[t] = what
      /\ \A u \in T \ {t} :
           \/ stage'[u] = stage[u]
           \/ stage[u] = "asking" /\ stage'[u] = "answered" /\ <<u, 1>> \in p.served
           \/ stage[u] = "waiting" /\ stage'[u] \in {"throws", "opened", "opening"}
  <2>1. \A u \in T : \/ stage'[u] = st[u]
                     \/ st[u] = "waiting" /\ stage'[u] \in {"throws", "opened", "opening"}
    BY <1>1, <1>4, PumpStage
  <2>2. QED
    BY <1>4, <2>1 DEF Terminal
<1>6. mode'[t] = "direct" /\ \A u \in T \ {t} : mode'[u] = mode[u] /\ batch'[u] = batch[u]
  BY <1>1 DEF Reset
<1>7. RunsOK'
  <2>1. \A u \in T : stage'[u] = "asking" => mode'[u] = "ask"
    BY <1>2, <1>5, <1>6 DEF RunsOK, Terminal
  <2>2. \A u \in T : Questioned(u)' => u # t /\ Questioned(u) /\ batch'[u] = batch[u]
    BY <1>6 DEF Questioned
  <2>3. \A u \in stopped' : stage'[u] = "running"
    BY <1>1, <1>2, <1>5 DEF RunsOK, Data
  <2>4. \A u \in recalled' : Questioned(u)' => u \in withdrawn' \/ batch'[u] \in batchCancelled'
    BY <1>1, <1>2, <2>2 DEF RunsOK
  <2>5. \A u \in T : Questioned(u)' => batch'[u] \in Batches
    BY <1>2, <2>2 DEF RunsOK
  <2>6. QED
    BY <2>1, <2>3, <2>4, <2>5 DEF RunsOK
<1>8. CountOK'
  <2>1. t \in Busy(stage) /\ Busy(st) = Busy(stage) \ {t}
    BY <1>4 DEF Busy, Terminal
  <2>2. /\ IsFiniteSet(Busy(stage)) /\ Cardinality(Busy(stage)) \in 0 .. Count
    BY BusyFinite
  <2>3. Cardinality(Busy(stage) \ {t}) = Cardinality(Busy(stage)) - 1
    BY <2>1, <2>2, FS_RemoveElement
  <2>4. running - 1 = Cardinality(Busy(st))
    BY <1>2, <2>1, <2>3 DEF CountOK
  <2>5. QED
    BY <1>1, <1>4, <2>4, PumpCount
<1>9. PromptsOK'
  <2>1. ASSUME NEW q \in requests \ RequestsOf({t}), q \notin p.served
        PROVE  batch'[q[1]] = batch[q[1]] /\ Waits(q)'
    <3>1. q[1] \in T /\ q = <<q[1], q[2]>> /\ Waits(q) /\ q[1] # t
      BY <1>2, <2>1 DEF PromptsOK, Requests, RequestsOf
    <3>2. PICK u \in T \ {t} : u = q[1]
      BY <3>1
    <3>3. stage[u] = "asking" => <<u, 1>> \notin p.served
      BY <2>1, <3>1, <3>2 DEF Waits
    <3>4. stage[u] # "waiting"
      BY <3>1, <3>2 DEF Waits
    <3>5. stage'[u] = stage[u]
      BY <1>5, <3>2, <3>3, <3>4
    <3>6. QED
      BY <1>1, <1>6, <3>1, <3>2, <3>5 DEF Waits
  <2>2. visible \in requests => strategy[batch[visible[1]]] = Undecided
    BY <1>2 DEF PromptsOK
  <2>3. QED
    BY <1>1, <1>2, <2>1, <2>2, PromptsLeave DEF p
<1>10. Data'
  <2>1. Answered(p.served, strategy) \in [T -> Strategies \cup {Undecided}]
    BY <1>2, AnsweredType DEF Data
  <2>2. answer' \in [T -> Strategies \cup {Undecided}]
    BY <1>1, <2>1 DEF Reset
  <2>3. Reset(birth, {t}, 0) \in [T -> 0 .. MaxConns]
    BY <1>2, TransfersAssumption DEF Data, Reset
  <2>4. birth' \in [T -> 0 .. MaxConns]
    BY <1>1, <1>2, <2>3, PumpBirth
  <2>5. QED
    BY <1>1, <1>2, <2>2, <2>4 DEF Data
<1>11. QED
  BY <1>7, <1>8, <1>9, <1>10 DEF More

\* The transfers that have ended are all that the queue counts no more.
LEMMA EndsMore ==
  ASSUME Inv, More, NEW t \in T, Unwinds(t) \/ RunnerStep(t)
  PROVE  More'
<1>1. Inv'
  BY MicroInv, AwaitedInv DEF MicroStep
<1>2. stage[t] \in {"throws", "skips", "running"}
  BY DEF Unwinds, RunnerStep, FileEnds, TreeEnds
<1>3. PICK what \in Terminal : Finish(t, what)
  BY DEF Unwinds, RunnerStep, FileEnds, TreeEnds, Terminal
<1>4. UNCHANGED <<conn, gen, channel, windowGone>>
  BY DEF Unwinds, RunnerStep, FileEnds, TreeEnds, worldVars
<1>5. remote' \subseteq Names
  <2>1. remote \subseteq Names /\ target[t] \in Names \cup {NoTarget}
    BY DEF More, Data, Inv, Typed
  <2>2. remote' \in {remote, remote \cup ({target[t]} \ {NoTarget})}
    BY DEF Unwinds, RunnerStep, FileEnds, TreeEnds, worldVars
  <2>3. QED
    BY <2>1, <2>2
<1>6. QED
  BY <1>1, <1>2, <1>3, <1>4, <1>5, FinishMore

\* A transfer is announced: it has no question yet.
LEMMA SubmitMore ==
  ASSUME Inv, More, NEW t \in T, NEW m \in Modes, NEW b \in Batches, Submit(t, m, b)
  PROVE  More'
<1> DEFINE st == [stage EXCEPT ![t] = "waiting"]
<1> USE DEF batchVars, runnerVars
<1>1. /\ stage[t] = "new" /\ Pump(running, st, birth)
      /\ mode' = [mode EXCEPT ![t] = m]
      /\ batch' = [batch EXCEPT ![t] = IF m \in {"ask", "tree"} THEN b ELSE NoBatch]
      /\ recalled' = IF m \in {"ask", "tree"} /\ b \in batchCancelled THEN recalled \cup {t}
                     ELSE recalled
      /\ UNCHANGED <<answer, stopped, asked, withdrawn, strategy, batchCancelled, chain>>
      /\ UNCHANGED promptVars /\ UNCHANGED worldVars
  BY DEF Submit
<1>2. /\ stage \in [T -> Stages] /\ recalled \subseteq T /\ Data /\ RunsOK /\ PromptsOK /\ CountOK
      /\ mode \in [T -> AllModes] /\ batch \in [T -> Batches \cup {NoBatch}]
  BY DEF Inv, Typed, More
<1>3. st \in [T -> Stages] /\ st[t] = "waiting" /\ \A u \in T \ {t} : st[u] = stage[u]
  BY <1>2 DEF Stages
<1> HIDE DEF st
<1>4. /\ stage'[t] \notin {"asking", "running"}
      /\ \A u \in T \ {t} : \/ stage'[u] = stage[u]
                            \/ stage[u] = "waiting" /\ stage'[u] \in {"throws", "opened", "opening"}
  BY <1>1, <1>3, PumpStage
<1>5. /\ mode'[t] = m /\ batch'[t] = IF m \in {"ask", "tree"} THEN b ELSE NoBatch
      /\ \A u \in T \ {t} : mode'[u] = mode[u] /\ batch'[u] = batch[u]
  BY <1>1, <1>2
<1>6. RunsOK'
  <2>1. \A u \in T : stage'[u] = "asking" => mode'[u] = "ask"
    BY <1>2, <1>4, <1>5 DEF RunsOK
  <2>2. \A u \in T : Questioned(u)' => batch'[u] \in Batches
    BY <1>2, <1>5 DEF RunsOK, Questioned
  <2>3. \A u \in stopped' : stage'[u] = "running"
    BY <1>1, <1>2, <1>4 DEF RunsOK, Data
  <2>4. \A u \in recalled' : Questioned(u)' => u \in withdrawn' \/ batch'[u] \in batchCancelled'
    <3>1. t \notin recalled
      BY <1>1 DEF Inv, RecalledOK
    <3>2. QED
      BY <1>1, <1>2, <1>5, <3>1 DEF RunsOK, Questioned
  <2>5. QED
    BY <2>1, <2>2, <2>3, <2>4 DEF RunsOK
<1>7. PromptsOK'
  <2>1. ASSUME NEW q \in requests
        PROVE  batch'[q[1]] = batch[q[1]] /\ Waits(q)'
    <3>1. q[1] \in T /\ Waits(q)
      BY <1>2 DEF PromptsOK, Requests
    <3>2. PICK u \in T \ {t} : u = q[1]
      BY <1>1, <3>1 DEF Waits
    <3>3. stage'[u] = stage[u]
      BY <1>4, <3>1, <3>2 DEF Waits
    <3>4. QED
      BY <1>1, <1>5, <3>1, <3>2, <3>3 DEF Waits
  <2>2. QED
    BY <1>1, <1>2, <2>1, PromptsStay
<1>8. CountOK'
  <2>1. Busy(st) = Busy(stage)
    BY <1>1, <1>3 DEF Busy
  <2>2. QED
    BY <1>1, <1>2, <1>3, <2>1, PumpCount DEF CountOK
<1>9. Data'
  <2>1. birth' \in [T -> 0 .. MaxConns]
    BY <1>1, <1>2, PumpBirth DEF Data
  <2>2. QED
    BY <1>1, <1>2, <2>1 DEF Data, worldVars
<1>10. QED
  BY <1>6, <1>7, <1>8, <1>9 DEF More

\* Every way of cancelling: one transfer, a batch, a window, a session.
LEMMA CancelsMore ==
  ASSUME Inv, More,
         \/ \E t \in T : CancelTransfer(t)
         \/ RespondCancel \/ WindowCloses \/ Teardown
  PROVE  More'
<1> USE DEF worldVars
<1>1. Inv'
  BY UserInv, SessionInv DEF UserStep, SessionStep
<1>2. Data /\ RunsOK /\ PromptsOK
  BY DEF More
<1>3. Contexts \subseteq T /\ \A b : Members(b) \subseteq T
  BY DEF Contexts, Members
<1>4. PICK S \in SUBSET T, C \in SUBSET T, R \in SUBSET T :
        /\ Recall(S, C, R) /\ S \subseteq R
        /\ batchCancelled \subseteq batchCancelled' /\ batchCancelled' \subseteq Batches
        /\ \A t \in S : HasContext(t) => t \in C \/ batch[t] \in batchCancelled'
  <2>1. ASSUME NEW t \in T, CancelTransfer(t)
        PROVE  /\ Recall({t}, {t} \cap Contexts, {t}) /\ batchCancelled' = batchCancelled
               /\ HasContext(t) => t \in {t} \cap Contexts
    BY <2>1 DEF CancelTransfer, Contexts
  <2>2. CASE \E t \in T : CancelTransfer(t)
    <3>1. PICK t \in T : CancelTransfer(t)
      BY <2>2
    <3>2. {t} \in SUBSET T /\ {t} \cap Contexts \in SUBSET T
      OBVIOUS
    <3>3. /\ Recall({t}, {t} \cap Contexts, {t}) /\ {t} \subseteq {t}
          /\ batchCancelled \subseteq batchCancelled' /\ batchCancelled' \subseteq Batches
          /\ \A u \in {t} : HasContext(u) => u \in {t} \cap Contexts
      BY <1>2, <2>1, <3>1 DEF Data
    <3>4. QED
      BY <3>2, <3>3
  <2>3. CASE RespondCancel
    <3>1. visible # NoRequest
      BY <2>3 DEF RespondCancel
    <3>2. visible \in requests /\ visible[1] \in T
      BY <1>2, <3>1 DEF PromptsOK, Requests
    <3>3. Questioned(visible[1])
      BY <1>2, <3>2 DEF PromptsOK, Waits, RunsOK, Questioned
    <3>4. PICK b \in Batches : b = batch[visible[1]]
      BY <1>2, <3>2, <3>3 DEF RunsOK
    <3>5. batchCancelled' = batchCancelled \cup {b} /\ Recall(Members(b), {}, Members(b))
      BY <2>3, <3>4 DEF RespondCancel
    <3>6. \A t \in Members(b) : batch[t] \in batchCancelled'
      BY <3>5 DEF Members
    <3>7. Members(b) \in SUBSET T /\ {} \in SUBSET T /\ Members(b) \subseteq Members(b)
      BY <1>3
    <3>8. batchCancelled \subseteq batchCancelled' /\ batchCancelled' \subseteq Batches
      BY <1>2, <3>4, <3>5 DEF Data
    <3>9. QED
      BY <3>5, <3>6, <3>7, <3>8
  <2>4. CASE WindowCloses
    <3>1. Recall(Contexts, Contexts, Contexts) /\ batchCancelled' = batchCancelled
      BY <2>4 DEF WindowCloses
    <3>2. QED
      BY <1>2, <1>3, <3>1 DEF Data
  <2>5. CASE Teardown
    <3>1. PICK S \in SUBSET T : Recall(S, Contexts, T)
      BY <2>5 DEF Teardown
    <3>2. batchCancelled' = batchCancelled
      BY <2>5 DEF Teardown
    <3>3. \A t \in S : HasContext(t) => t \in Contexts
      BY DEF Contexts
    <3>4. S \subseteq T /\ Contexts \in SUBSET T
      BY <1>3
    <3>5. QED
      BY <1>2, <3>1, <3>2, <3>3, <3>4 DEF Data
  <2>6. QED
    BY <2>2, <2>3, <2>4, <2>5
<1>5. /\ RunsOK' /\ PromptsOK' /\ CountOK'
      /\ answer' \in [T -> Strategies \cup {Undecided}] /\ withdrawn' \subseteq T
      /\ UNCHANGED <<birth, stopped, asked, strategy, chain>>
  BY <1>1, <1>4, RecallMore
<1>6. /\ UNCHANGED <<gen, remote>>
      /\ \/ UNCHANGED <<conn, channel>>
         \/ conn' = "down" /\ channel' = FALSE
      /\ windowGone' \in {windowGone, TRUE}
  BY DEF CancelTransfer, RespondCancel, WindowCloses, Teardown
<1>7. channel' \in BOOLEAN /\ (channel' => conn' = "up") /\ conn' \in {"up", "down"}
  <2>1. channel \in BOOLEAN /\ (channel => conn = "up") /\ conn \in {"up", "down"}
    BY <1>2 DEF Data
  <2>2. CASE channel' = channel /\ conn' = conn
    BY <2>1, <2>2
  <2>3. CASE conn' = "down" /\ channel' = FALSE
    BY <2>3
  <2>4. QED
    BY <1>6, <2>2, <2>3
<1>8. Data'
  BY <1>2, <1>4, <1>5, <1>6, <1>7 DEF Data
<1>9. QED
  BY <1>5, <1>8 DEF More

\* The channel is opened, refused or lost, the session is back.
LEMMA ChannelMore ==
  ASSUME Inv, More,
         \/ \E g \in 1 .. MaxConns : ChannelOpens(g) \/ ChannelRefused(g)
         \/ Reconnected \/ ChannelDies
  PROVE  More'
<1> USE DEF worldVars, runnerVars
<1>1. Inv' /\ Data
  BY SessionInv DEF SessionStep, More
<1>2. /\ UNCHANGED runVars /\ UNCHANGED promptVars /\ UNCHANGED batchVars
      /\ UNCHANGED <<running, recalled, stopped, withdrawn, asked, answer, chain, remote, windowGone>>
  BY DEF ChannelOpens, ChannelRefused, Reconnected, ChannelDies
<1>3. \A t \in T : \/ stage'[t] = stage[t]
                   \/ stage[t] = "opening" /\ stage'[t] \in {"opened", "throws"}
  BY DEF ChannelOpens, ChannelRefused, Reconnected, ChannelDies
<1>4. stage' \in [T -> Stages]
  BY <1>1 DEF Inv, Typed
<1>5. RunsOK' /\ PromptsOK' /\ CountOK'
  BY <1>2, <1>3, <1>4, Moves DEF InFlight, Terminal
<1>6. /\ conn' \in {"up", "down"} /\ gen' \in 1 .. MaxConns
      /\ channel' \in BOOLEAN /\ (channel' => conn' = "up")
  <2>1. CASE \E g \in 1 .. MaxConns : ChannelOpens(g) \/ ChannelRefused(g)
    <3>1. UNCHANGED <<conn, gen>> /\ conn \in {"up", "down"} /\ gen \in 1 .. MaxConns
      BY <1>1, <2>1 DEF ChannelOpens, ChannelRefused, Data
    <3>2. channel \in BOOLEAN /\ (channel => conn = "up")
      BY <1>1 DEF Data
    <3>3. channel' \in {channel, channel \/ conn = "up"}
      BY <2>1, <3>2 DEF ChannelOpens, ChannelRefused, OpensFor
    <3>4. channel' \in BOOLEAN /\ (channel' => conn = "up")
      BY <3>2, <3>3
    <3>5. QED
      BY <3>1, <3>4
  <2>2. CASE Reconnected
    BY <1>1, <2>2, TransfersAssumption DEF Reconnected, Data
  <2>3. CASE ChannelDies
    BY <1>1, <2>3 DEF ChannelDies, Data
  <2>4. QED
    BY <2>1, <2>2, <2>3
<1>7. Data'
  BY <1>1, <1>2, <1>6 DEF Data, runVars, batchVars
<1>8. QED
  BY <1>5, <1>7 DEF More

LEMMA InitMore == Init => More
<1> SUFFICES ASSUME Init PROVE More
  OBVIOUS
<1>1. Data
  <2>1. chain \in [1 .. MaxConns -> Seq(T)] /\ gen \in 1 .. MaxConns
    BY TransfersAssumption DEF Init
  <2>2. birth \in [T -> 0 .. MaxConns] /\ remote \subseteq Names
    BY TransfersAssumption DEF Init, Names, Wanted
  <2>3. QED
    BY <2>1, <2>2 DEF Init, Data
<1>2. RunsOK
  BY DEF Init, RunsOK, Questioned
<1>3. PromptsOK
  BY DEF Init, PromptsOK
<1>4. CountOK
  <2>1. Busy(stage) = {} /\ running = 0
    BY DEF Init, Busy
  <2>2. QED
    BY <2>1, FS_EmptySet DEF CountOK
<1>5. QED
  BY <1>1, <1>2, <1>3, <1>4 DEF More

LEMMA NextMore == Inv /\ More /\ [Next]_vars => More'
<1> SUFFICES ASSUME Inv, More, [Next]_vars PROVE More'
  OBVIOUS
<1>1. CASE UNCHANGED vars
  BY <1>1 DEF vars, runVars, runnerVars, batchVars, promptVars, worldVars, More, Data, RunsOK,
       Questioned, PromptsOK, Waits, CountOK
<1>2. CASE UserStep
  BY <1>2, SubmitMore, CancelsMore, RespondMore DEF UserStep
<1>3. CASE SessionStep
  BY <1>3, ChannelMore, CancelsMore DEF SessionStep
<1>4. ASSUME NEW t \in T, TransferStep(t)
      PROVE  More'
  BY <1>4, EndsMore, WaysMore, ResolvingMore, TreeMore DEF TransferStep, MicroStep
<1>5. QED
  BY <1>1, <1>2, <1>3, <1>4 DEF Next
-----------------------------------------------------------------------------
(* Every part of the state keeps its type; the number the queue keeps of   *)
(* the entries that run, up by one when an entry leaves it and down by one *)
(* in finally (TransferQueue.pump), never leaves 0 .. Count.               *)
THEOREM TransferTypes == Spec => []TypeOK
<1>1. Inv /\ More => TypeOK
  <2> SUFFICES ASSUME Inv, More PROVE TypeOK
    OBVIOUS
  <2>1. running \in 0 .. Count
    BY BusyFinite DEF More, CountOK
  <2>2. visible \in requests \cup {NoRequest}
    BY DEF More, PromptsOK
  <2>3. QED
    BY <2>1, <2>2 DEF Inv, Typed, More, Data, PromptsOK, TypeOK
<1>2. QED
  BY <1>1, InitInv, NextInv, InitMore, NextMore, PTL DEF Spec

(* The queue counts exactly the entries that left it and have not ended:   *)
(* no path of a run, of its session or of its window loses a place of the  *)
(* concurrency limit, or gives one back twice.                             *)
THEOREM PlacesKept == Spec => []CountOK
<1>1. More => CountOK
  BY DEF More
<1>2. QED
  BY <1>1, InitInv, NextInv, InitMore, NextMore, PTL DEF Spec

(* A window with questions shows one, about a batch that is undecided, and *)
(* every question is of a run that waits for the answer and that nobody    *)
(* has cancelled (UploadConflicts: ask, respond, pump, finish, dispose).   *)
THEOREM PromptsLive == Spec => []PromptsAreLive
<1>1. More => PromptsAreLive
  BY DEF More, PromptsOK, Waits, PromptsAreLive
<1>2. QED
  BY <1>1, InitInv, NextInv, InitMore, NextMore, PTL DEF Spec

-----------------------------------------------------------------------------
(* What ends each wait.                                                    *)

\* Stages of an upload that stands in a resolve chain.
Resolving == {"inline", "checking", "listing"}

\* An upload that is resolved stands in one chain, once, and only the first
\* of a chain is under way.
ChainOK ==
  /\ \A g \in 1 .. MaxConns : \A i \in 1 .. Len(chain[g]) :
       /\ stage[chain[g][i]] \in Resolving
       /\ stage[chain[g][i]] # "inline" => i = 1
  /\ \A t \in T : stage[t] \in Resolving => \E g \in 1 .. MaxConns : InChain(t, g)
  /\ \A g, h \in 1 .. MaxConns : \A i \in 1 .. Len(chain[g]), j \in 1 .. Len(chain[h]) :
       chain[g][i] = chain[h][j] => g = h /\ i = j

\* While an entry waits another one runs, and an open knows its connection.
QueueOK ==
  /\ (\E t \in T : stage[t] = "waiting") => \E u \in T : InFlight(u)
  /\ \A t \in T : stage[t] = "opening" => birth[t] # 0

\* Who asks has a request, and a window that is gone has none.
AskingOK ==
  /\ \A t \in T : stage[t] = "asking" => <<t, 1>> \in requests
  /\ windowGone => requests = {}

Waited == ChainOK /\ QueueOK /\ AskingOK

\* Every set of transfers has a first one.
LEMMA FirstOf ==
  ASSUME NEW S \in SUBSET T, S # {}
  PROVE  \E t \in S : \A u \in S : ~(u < t)
<1>1. S \subseteq Nat
  BY TransfersAssumption DEF T
<1>2. IsWellFoundedOn({p \in Nat \X Nat : p[1] < p[2]}, Nat)
  BY NatLessThanWellFounded DEF OpToRel
<1>3. PICK t \in S : \A u \in S : ~(<<u, t>> \in {p \in Nat \X Nat : p[1] < p[2]})
  BY <1>1, <1>2, WFMin
<1>4. QED
  BY <1>1, <1>3

\* The queue lets an entry go, or it has none to let go, or one runs.
LEMMA PumpServes ==
  ASSUME NEW n, NEW before \in [T -> Stages], NEW births, Pump(n, before, births),
         n = Cardinality(Busy(before)), gen # 0,
         \A t \in T : before[t] = "opening" => births[t] # 0
  PROVE  QueueOK'
<1>1. PICK limit \in Limits :
        /\ stage' = [t \in T |-> IF t \in First({u \in T : before[u] = "waiting"}, Admitted(n, limit))
                                 THEN FirstStage ELSE before[t]]
        /\ birth' = [t \in T |-> IF t \in First({u \in T : before[u] = "waiting"}, Admitted(n, limit))
                                 THEN gen ELSE births[t]]
  BY DEF Pump
<1> DEFINE waiting == {u \in T : before[u] = "waiting"}
           started == First(waiting, Admitted(n, limit))
<1>2. /\ stage' = [t \in T |-> IF t \in started THEN FirstStage ELSE before[t]]
      /\ birth' = [t \in T |-> IF t \in started THEN gen ELSE births[t]]
      /\ started \subseteq waiting
  BY <1>1 DEF First
<1>3. FirstStage \in {"throws", "opened", "opening"}
  BY DEF FirstStage
<1>4. \A t \in T : stage'[t] = "opening" => birth'[t] # 0
  BY <1>2
<1>5. ASSUME NEW t \in T, stage'[t] = "waiting"
      PROVE  \E u \in T : InFlight(u)'
  <2>1. t \in waiting
    BY <1>2, <1>3, <1>5
  <2>2. n \in Nat /\ limit \in Nat
    BY BusyFinite, TransfersAssumption
  <2>3. CASE n = 0
    <3>1. Admitted(n, limit) \in Nat /\ Admitted(n, limit) > 0
      BY <2>2, <2>3 DEF Admitted
    <3>2. PICK u \in waiting : \A v \in waiting : ~(v < u)
      BY <2>1, FirstOf
    <3>3. {v \in waiting : v < u} = {}
      BY <3>2
    <3>4. Cardinality({v \in waiting : v < u}) = 0
      BY <3>3, FS_EmptySet
    <3>5. u \in started
      BY <3>1, <3>2, <3>4 DEF First
    <3>6. stage'[u] \in {"throws", "opened", "opening"}
      BY <1>2, <1>3, <3>5
    <3>7. QED
      BY <3>2, <3>6 DEF InFlight, Terminal
  <2>4. CASE n # 0
    <3>1. Busy(before) # {}
      BY <2>4, FS_EmptySet
    <3>2. PICK u \in T : before[u] \notin {"new", "waiting"} \cup Terminal
      BY <3>1 DEF Busy
    <3>3. stage'[u] = before[u]
      BY <1>2, <3>2
    <3>4. QED
      BY <3>2, <3>3 DEF InFlight
  <2>5. QED
    BY <2>3, <2>4
<1>6. QED
  BY <1>4, <1>5 DEF QueueOK

\* Nobody comes into the queue, and what leaves it has ended.
LEMMA QueueKept ==
  ASSUME QueueOK, birth' = birth,
         \A t \in T : \/ stage'[t] = stage[t]
                      \/ InFlight(t) /\ stage'[t] \notin {"new", "waiting", "opening"} \cup Terminal
                      \/ stage[t] = "waiting" /\ stage'[t] = "over"
  PROVE  QueueOK'
<1>1. \A t \in T : InFlight(t) => InFlight(t)'
  BY DEF InFlight, Terminal
<1>2. \A t \in T : stage'[t] = "waiting" => stage[t] = "waiting"
  OBVIOUS
<1>3. \A t \in T : stage'[t] = "opening" => stage[t] = "opening"
  OBVIOUS
<1>4. QED
  BY <1>1, <1>2, <1>3 DEF QueueOK

\* Nobody enters or leaves a chain.
LEMMA ChainKept ==
  ASSUME ChainOK, chain \in [1 .. MaxConns -> Seq(T)], chain' = chain,
         \A t \in T : stage'[t] = stage[t] \/ (stage[t] \notin Resolving /\ stage'[t] \notin Resolving)
  PROVE  ChainOK'
<1>1. \A g \in 1 .. MaxConns : \A i \in 1 .. Len(chain[g]) : chain[g][i] \in T
  OBVIOUS
<1>2. \A g \in 1 .. MaxConns : \A i \in 1 .. Len(chain[g]) : stage'[chain[g][i]] = stage[chain[g][i]]
  BY <1>1 DEF ChainOK
<1>3. \A t \in T : stage'[t] \in Resolving => stage[t] \in Resolving
  OBVIOUS
<1>4. QED
  BY <1>2, <1>3 DEF ChainOK, InChain

\* The first of a chain goes on and stays in it.
LEMMA ChainTurns ==
  ASSUME ChainOK, chain \in [1 .. MaxConns -> Seq(T)], stage \in [T -> Stages], chain' = chain,
         NEW t \in T, stage[t] \in Resolving, AtHead(t),
         NEW next \in {"checking", "listing"}, stage' = [stage EXCEPT ![t] = next]
  PROVE  ChainOK'
<1>1. \A g \in 1 .. MaxConns : \A i \in 1 .. Len(chain[g]) : chain[g][i] \in T
  OBVIOUS
<1>2. PICK h \in 1 .. MaxConns : chain[h] # <<>> /\ Head(chain[h]) = t
  BY DEF AtHead
<1>3. chain[h] \in Seq(T)
  OBVIOUS
<1>4. 1 \in 1 .. Len(chain[h]) /\ chain[h][1] = t
  BY <1>2, <1>3
<1>5. stage'[t] \in Resolving /\ \A u \in T \ {t} : stage'[u] = stage[u]
  BY DEF Resolving
<1>6. ASSUME NEW g \in 1 .. MaxConns, NEW i \in 1 .. Len(chain[g])
      PROVE  stage'[chain[g][i]] \in Resolving /\ (stage'[chain[g][i]] # "inline" => i = 1)
  <2>1. CASE chain[g][i] = t
    BY <2>1, <1>4, <1>5 DEF ChainOK
  <2>2. CASE chain[g][i] # t
    BY <2>2, <1>1, <1>5 DEF ChainOK
  <2>3. QED
    BY <2>1, <2>2
<1>7. \A u \in T : stage'[u] \in Resolving => stage[u] \in Resolving
  BY <1>5
<1>8. QED
  BY <1>6, <1>7 DEF ChainOK, InChain

\* An upload that was in no chain comes last in the one of the connection.
LEMMA ChainJoined ==
  ASSUME ChainOK, chain \in [1 .. MaxConns -> Seq(T)], stage \in [T -> Stages], gen \in 1 .. MaxConns,
         NEW t \in T, stage[t] \notin Resolving, Joins(t), stage' = [stage EXCEPT ![t] = "inline"]
  PROVE  ChainOK'
<1>1. \A g \in 1 .. MaxConns : \A i \in 1 .. Len(chain[g]) : chain[g][i] \in T \ {t}
  BY DEF ChainOK
<1>2. chain[gen] \in Seq(T) /\ Len(chain[gen]) \in Nat
  OBVIOUS
<1>3. /\ \A g \in 1 .. MaxConns : g # gen => chain'[g] = chain[g]
      /\ chain'[gen] = Append(chain[gen], t)
  BY DEF Joins
<1>4. /\ Len(chain'[gen]) = Len(chain[gen]) + 1
      /\ chain'[gen][Len(chain[gen]) + 1] = t
      /\ \A i \in 1 .. Len(chain[gen]) : chain'[gen][i] = chain[gen][i]
  BY <1>2, <1>3
<1>5. stage'[t] = "inline" /\ \A u \in T \ {t} : stage'[u] = stage[u]
  OBVIOUS
<1>6. ASSUME NEW g \in 1 .. MaxConns, NEW i \in 1 .. Len(chain'[g])
      PROVE  \/ i \in 1 .. Len(chain[g]) /\ chain'[g][i] = chain[g][i]
             \/ g = gen /\ i = Len(chain[gen]) + 1 /\ chain'[g][i] = t
  <2>1. CASE g = gen
    BY <1>2, <1>4, <2>1
  <2>2. CASE g # gen
    BY <1>3, <2>2
  <2>3. QED
    BY <2>1, <2>2
<1>7. \A g \in 1 .. MaxConns : \A i \in 1 .. Len(chain'[g]) :
        stage'[chain'[g][i]] \in Resolving /\ (stage'[chain'[g][i]] # "inline" => i = 1)
  BY <1>1, <1>5, <1>6 DEF ChainOK, Resolving
<1>8. ASSUME NEW u \in T, stage'[u] \in Resolving
      PROVE  \E g \in 1 .. MaxConns : InChain(u, g)'
  <2>1. CASE u = t
    <3>1. Len(chain[gen]) + 1 \in 1 .. Len(chain'[gen])
      BY <1>2, <1>4
    <3>2. QED
      BY <1>4, <2>1, <3>1 DEF InChain
  <2>2. CASE u # t
    <3>1. PICK g \in 1 .. MaxConns : InChain(u, g)
      BY <1>5, <1>8, <2>2 DEF ChainOK
    <3>2. PICK i \in 1 .. Len(chain[g]) : chain[g][i] = u
      BY <3>1 DEF InChain
    <3>3. i \in 1 .. Len(chain'[g]) /\ chain'[g][i] = u
      BY <1>2, <1>3, <1>4, <3>2
    <3>4. QED
      BY <3>3 DEF InChain
  <2>3. QED
    BY <2>1, <2>2
<1>9. ASSUME NEW g \in 1 .. MaxConns, NEW h \in 1 .. MaxConns,
             NEW i \in 1 .. Len(chain'[g]), NEW j \in 1 .. Len(chain'[h]), chain'[g][i] = chain'[h][j]
      PROVE  g = h /\ i = j
  <2>1. /\ \/ i \in 1 .. Len(chain[g]) /\ chain'[g][i] = chain[g][i] /\ chain[g][i] # t
           \/ g = gen /\ i = Len(chain[gen]) + 1 /\ chain'[g][i] = t
        /\ \/ j \in 1 .. Len(chain[h]) /\ chain'[h][j] = chain[h][j] /\ chain[h][j] # t
           \/ h = gen /\ j = Len(chain[gen]) + 1 /\ chain'[h][j] = t
    BY <1>1, <1>6
  <2>2. CASE chain'[g][i] = t
    BY <1>9, <2>1, <2>2
  <2>3. CASE chain'[g][i] # t
    BY <1>9, <2>1, <2>3 DEF ChainOK
  <2>4. QED
    BY <2>2, <2>3
<1>10. QED
  BY <1>7, <1>8, <1>9 DEF ChainOK

\* The first of a chain leaves it, and no other chain knows it.
LEMMA ChainLeft ==
  ASSUME ChainOK, chain \in [1 .. MaxConns -> Seq(T)], stage \in [T -> Stages], NEW t \in T, AtHead(t),
         chain' = Passed(t), stage'[t] \notin Resolving,
         \A u \in T \ {t} : stage'[u] = stage[u] \/ (stage[u] \notin Resolving /\ stage'[u] \notin Resolving)
  PROVE  ChainOK'
<1>1. PICK h \in 1 .. MaxConns : chain[h] # <<>> /\ Head(chain[h]) = t
  BY DEF AtHead
<1>2. chain[h] \in Seq(T) /\ Len(chain[h]) \in Nat
  OBVIOUS
<1>3. 1 \in 1 .. Len(chain[h]) /\ chain[h][1] = t
  BY <1>1, <1>2
<1>4. ASSUME NEW g \in 1 .. MaxConns, g # h
      PROVE  chain'[g] = chain[g]
  <2>1. chain[g] \in Seq(T)
    OBVIOUS
  <2>2. chain[g] # <<>> => Head(chain[g]) # t
    <3>1. chain[g] # <<>> => 1 \in 1 .. Len(chain[g]) /\ Head(chain[g]) = chain[g][1]
      BY <2>1
    <3>2. QED
      BY <1>3, <1>4, <3>1 DEF ChainOK
  <2>3. QED
    BY <2>2 DEF Passed
<1>5. chain'[h] = Tail(chain[h])
  BY <1>1 DEF Passed
<1>6. /\ Len(chain'[h]) = Len(chain[h]) - 1
      /\ \A i \in 1 .. Len(chain[h]) - 1 : chain'[h][i] = chain[h][i + 1]
  BY <1>1, <1>2, <1>5
<1> DEFINE Was(g, i) == IF g = h THEN i + 1 ELSE i
<1>7. ASSUME NEW g \in 1 .. MaxConns, NEW i \in 1 .. Len(chain'[g])
      PROVE  Was(g, i) \in 1 .. Len(chain[g]) /\ chain'[g][i] = chain[g][Was(g, i)]
  <2>1. CASE g = h
    BY <1>2, <1>6, <2>1
  <2>2. CASE g # h
    BY <1>4, <2>2
  <2>3. QED
    BY <2>1, <2>2
<1>8. ASSUME NEW g \in 1 .. MaxConns, NEW i \in 1 .. Len(chain'[g])
      PROVE  chain'[g][i] \in T \ {t}
  <2>1. chain[g] \in Seq(T)
    OBVIOUS
  <2>2. PICK k \in 1 .. Len(chain[g]) : k = Was(g, i) /\ chain'[g][i] = chain[g][k]
    BY <1>7
  <2>3. chain[g][k] \in T
    BY <2>1, <2>2
  <2>4. g = h => k # 1
    BY <2>2
  <2>5. chain[g][k] # t
    BY <1>3, <2>2, <2>4 DEF ChainOK
  <2>6. QED
    BY <2>2, <2>3, <2>5
<1>9. ASSUME NEW g \in 1 .. MaxConns, NEW i \in 1 .. Len(chain'[g])
      PROVE  stage'[chain'[g][i]] \in Resolving /\ (stage'[chain'[g][i]] # "inline" => i = 1)
  <2>1. PICK k \in 1 .. Len(chain[g]) : k = Was(g, i) /\ chain'[g][i] = chain[g][k]
    BY <1>7
  <2>2. stage[chain[g][k]] \in Resolving /\ (stage[chain[g][k]] # "inline" => k = 1)
    BY <2>1 DEF ChainOK
  <2>3. stage'[chain'[g][i]] = stage[chain[g][k]]
    BY <1>8, <2>1, <2>2
  <2>4. k = 1 => i = 1
    BY <1>7, <2>1
  <2>5. QED
    BY <2>2, <2>3, <2>4
<1>10. ASSUME NEW u \in T, stage'[u] \in Resolving
       PROVE  \E g \in 1 .. MaxConns : InChain(u, g)'
  <2>1. u # t /\ stage[u] \in Resolving
    BY <1>10
  <2>2. PICK g \in 1 .. MaxConns : InChain(u, g)
    BY <2>1 DEF ChainOK
  <2>3. PICK i \in 1 .. Len(chain[g]) : chain[g][i] = u
    BY <2>2 DEF InChain
  <2>4. CASE g = h
    <3>1. i - 1 \in 1 .. Len(chain'[h]) /\ chain'[h][i - 1] = u
      BY <1>2, <1>3, <1>6, <2>1, <2>3, <2>4
    <3>2. QED
      BY <3>1 DEF InChain
  <2>5. CASE g # h
    BY <1>4, <2>3, <2>5 DEF InChain
  <2>6. QED
    BY <2>4, <2>5
<1>11. ASSUME NEW g \in 1 .. MaxConns, NEW k \in 1 .. MaxConns,
              NEW i \in 1 .. Len(chain'[g]), NEW j \in 1 .. Len(chain'[k]), chain'[g][i] = chain'[k][j]
       PROVE  g = k /\ i = j
  <2>1. PICK x \in 1 .. Len(chain[g]) : x = Was(g, i) /\ chain'[g][i] = chain[g][x]
    BY <1>7
  <2>2. PICK y \in 1 .. Len(chain[k]) : y = Was(k, j) /\ chain'[k][j] = chain[k][y]
    BY <1>7
  <2>3. g = k /\ x = y
    <3>1. chain[g][x] = chain[k][y]
      BY <1>11, <2>1, <2>2
    <3>2. \A b, c \in 1 .. MaxConns : \A m \in 1 .. Len(chain[b]), n \in 1 .. Len(chain[c]) :
            chain[b][m] = chain[c][n] => b = c /\ m = n
      BY DEF ChainOK
    <3>3. QED
      BY <3>1, <3>2
  <2>4. i \in Int /\ j \in Int
    <3>1. CASE g = h
      BY <1>2, <1>6, <2>3, <3>1
    <3>2. CASE g # h
      <4>1. chain[g] \in Seq(T) /\ chain'[g] = chain[g]
        BY <1>4, <3>2
      <4>2. QED
        BY <2>3, <4>1
    <3>3. QED
      BY <3>1, <3>2
  <2>5. x = (IF g = h THEN i + 1 ELSE i) /\ y = (IF g = h THEN j + 1 ELSE j)
    BY <2>1, <2>2, <2>3
  <2>6. i = j
    <3>1. CASE g = h
      <4>1. i + 1 = j + 1
        BY <2>3, <2>5, <3>1
      <4>2. QED
        BY <2>4, <4>1
    <3>2. CASE g # h
      BY <2>3, <2>5, <3>2
    <3>3. QED
      BY <3>1, <3>2
  <2>7. QED
    BY <2>3, <2>6
<1>12. QED
  BY <1>9, <1>10, <1>11 DEF ChainOK

\* What is under way is the first of its chain.
LEMMA UnderWayIsFirst ==
  ASSUME ChainOK, chain \in [1 .. MaxConns -> Seq(T)], NEW t \in T, stage[t] \in {"checking", "listing"}
  PROVE  AtHead(t)
<1>1. PICK g \in 1 .. MaxConns : InChain(t, g)
  BY DEF ChainOK, Resolving
<1>2. PICK i \in 1 .. Len(chain[g]) : chain[g][i] = t
  BY <1>1 DEF InChain
<1>3. i = 1
  BY <1>2 DEF ChainOK
<1>4. chain[g] \in Seq(T)
  OBVIOUS
<1>5. chain[g] # <<>> /\ Head(chain[g]) = t
  BY <1>2, <1>3, <1>4
<1>6. QED
  BY <1>5 DEF AtHead

\* Who still asks after others left or were served has its request still.
LEMMA AskingLeave ==
  ASSUME AskingOK, PromptsOK, NEW rest, NEW strats, Shows(Prompted(rest, strats), order),
         visible \in requests \ rest => strats[batch[visible[1]]] = Undecided,
         \A t \in T : stage'[t] = "asking" =>
           stage[t] = "asking" /\ <<t, 1>> \notin rest \cup Prompted(rest, strats).served,
         windowGone' => windowGone \/ requests \subseteq rest
  PROVE  AskingOK'
<1> DEFINE p == Prompted(rest, strats)
<1>1. p.left \subseteq requests \ rest /\ requests \ rest = p.left \cup p.served
  BY PumpedFacts, PumpedWhole DEF Prompted
<1>2. requests' = p.left
  BY DEF Shows
<1> HIDE DEF p
<1>3. \A t \in T : stage'[t] = "asking" => <<t, 1>> \in requests \ rest /\ <<t, 1>> \notin p.served
  BY DEF AskingOK, p
<1>4. QED
  BY <1>1, <1>2, <1>3 DEF AskingOK

\* Nobody asks and nobody is answered.
LEMMA AskingStay ==
  ASSUME AskingOK, requests' = requests, windowGone' = windowGone,
         \A t \in T : stage'[t] = "asking" => stage[t] = "asking"
  PROVE  AskingOK'
BY DEF AskingOK

\* A new question is one more request, and it moves nobody else.
LEMMA QuestionAdds ==
  ASSUME PromptsOK, NEW q, NEW st \in [T -> Stages], Question(q, st),
         strategy[batch[q[1]]] = Undecided
  PROVE  requests' = requests \cup {q} /\ stage' = st
<1> DEFINE rs  == requests \cup {q}
           ord == order \cup (requests \X {q})
           p   == Pumped(rs, ord, strategy)
<1>1. p.served = {}
  BY QuestionServesNone
<1>2. rs = p.left \cup p.served
  <2> HIDE DEF rs, ord
  <2>1. QED
    BY PumpedWhole
<1>3. requests' = p.left /\ stage' = Served(st, p.served)
  BY DEF Question, Shows
<1> HIDE DEF p
<1>4. QED
  BY <1>1, <1>2, <1>3, ServedNothing

\* An upload before and after its turn in the chain.
LEMMA WaysServed ==
  ASSUME Inv, More, Waited, NEW t \in T, Begin(t) \/ Rejoin(t) \/ StartUpload(t)
  PROVE  Waited'
<1>1. /\ UNCHANGED <<birth, windowGone, requests>>
      /\ stage \in [T -> Stages] /\ chain \in [1 .. MaxConns -> Seq(T)] /\ gen \in 1 .. MaxConns
      /\ ChainOK /\ QueueOK /\ AskingOK
  BY DEF Begin, Rejoin, StartUpload, resolveVars, runVars, promptVars, worldVars,
       Inv, Typed, More, Data, Waited
<1>2. PICK next \in {"inline", "throws", "running"} :
        /\ stage' = [stage EXCEPT ![t] = next] /\ stage[t] \in {"opened", "answered", "resolved"}
        /\ \/ next = "inline" /\ Joins(t)
           \/ next # "inline" /\ chain' = chain
  BY DEF Begin, Rejoin, StartUpload, HandOver
<1>3. ChainOK'
  <2>1. stage[t] \notin Resolving
    BY <1>2 DEF Resolving
  <2>2. CASE next = "inline" /\ Joins(t)
    BY <1>1, <1>2, <2>1, <2>2, ChainJoined
  <2>3. CASE next # "inline" /\ chain' = chain
    <3>1. next \notin Resolving
      BY <2>3 DEF Resolving
    <3>2. QED
      BY <1>1, <1>2, <2>1, <2>3, <3>1, ChainKept
  <2>4. QED
    BY <1>2, <2>2, <2>3
<1>4. QueueOK'
  <2>1. \A u \in T : \/ stage'[u] = stage[u]
                     \/ InFlight(u) /\ stage'[u] \notin {"new", "waiting", "opening"} \cup Terminal
    BY <1>1, <1>2 DEF InFlight, Terminal
  <2>2. QED
    BY <1>1, <2>1, QueueKept
<1>5. AskingOK'
  <2>1. \A u \in T : stage'[u] = "asking" => stage[u] = "asking"
    BY <1>1, <1>2
  <2>2. QED
    BY <1>1, <2>1, AskingStay
<1>6. QED
  BY <1>3, <1>4, <1>5 DEF Waited

\* An upload whose turn it is: it goes on and stays, or leaves the chain
\* with a target, without one, or with a question.
LEMMA TurnServed ==
  ASSUME Inv, More, Waited, NEW t \in T, stage[t] \in Resolving, AtHead(t), UNCHANGED resolveVars,
         \/ /\ \E next \in {"listing", "checking"} : stage' = [stage EXCEPT ![t] = next]
            /\ chain' = chain /\ UNCHANGED promptVars
         \/ /\ \E next \in {"throws", "skips", "resolved"} : stage' = [stage EXCEPT ![t] = next]
            /\ chain' = Passed(t) /\ UNCHANGED promptVars
         \/ AskUser(t) /\ Asks(t) /\ chain' = Passed(t)
  PROVE  Waited'
<1>1. /\ UNCHANGED <<birth, windowGone>>
      /\ stage \in [T -> Stages] /\ chain \in [1 .. MaxConns -> Seq(T)] /\ PromptsOK
      /\ ChainOK /\ QueueOK /\ AskingOK
  BY DEF resolveVars, runVars, worldVars, Inv, Typed, More, Data, Waited
<1>2. PICK next \in {"listing", "checking", "throws", "skips", "resolved", "answered", "asking"} :
        /\ stage' = [stage EXCEPT ![t] = next]
        /\ IF next \in {"listing", "checking"} THEN chain' = chain ELSE chain' = Passed(t)
        /\ IF next = "asking" THEN requests' = requests \cup {<<t, 1>>} /\ ~windowGone
           ELSE requests' = requests
  <2>1. CASE \E next \in {"listing", "checking"} :
               stage' = [stage EXCEPT ![t] = next] /\ chain' = chain /\ UNCHANGED promptVars
    BY <2>1 DEF promptVars
  <2>2. CASE \E next \in {"throws", "skips", "resolved"} :
               stage' = [stage EXCEPT ![t] = next] /\ chain' = Passed(t) /\ UNCHANGED promptVars
    BY <2>2 DEF promptVars
  <2>3. CASE AskUser(t) /\ Asks(t) /\ chain' = Passed(t)
    <3>1. CASE \E next \in {"throws", "answered"} :
                 stage' = [stage EXCEPT ![t] = next] /\ UNCHANGED promptVars
      BY <2>3, <3>1 DEF promptVars
    <3>2. CASE /\ ~ContextCancelled(t) /\ strategy[batch[t]] = Undecided
               /\ Question(<<t, 1>>, [stage EXCEPT ![t] = "asking"])
      <4> DEFINE st == [stage EXCEPT ![t] = "asking"]
      <4>1. st \in [T -> Stages]
        BY <1>1 DEF Stages
      <4>2. requests' = requests \cup {<<t, 1>>} /\ stage' = st
        <5> HIDE DEF st
        <5>1. Question(<<t, 1>>, st) /\ strategy[batch[<<t, 1>>[1]]] = Undecided
          BY <3>2 DEF st
        <5>2. QED
          BY <1>1, <4>1, <5>1, QuestionAdds
      <4>3. ~windowGone
        BY <2>3, <3>2 DEF ContextCancelled, Asks
      <4>4. QED
        BY <2>3, <4>2, <4>3
    <3>3. QED
      BY <2>3, <3>1, <3>2 DEF AskUser
  <2>4. QED
    BY <2>1, <2>2, <2>3
<1>3. ChainOK'
  <2>1. CASE next \in {"listing", "checking"}
    BY <1>1, <1>2, <2>1, ChainTurns
  <2>2. CASE next \notin {"listing", "checking"}
    <3>1. stage'[t] \notin Resolving /\ \A u \in T \ {t} : stage'[u] = stage[u]
      BY <1>1, <1>2, <2>2 DEF Resolving
    <3>2. QED
      BY <1>1, <1>2, <2>2, <3>1, ChainLeft
  <2>3. QED
    BY <2>1, <2>2
<1>4. QueueOK'
  <2>1. \A u \in T : \/ stage'[u] = stage[u]
                     \/ InFlight(u) /\ stage'[u] \notin {"new", "waiting", "opening"} \cup Terminal
    BY <1>1, <1>2 DEF InFlight, Terminal, Resolving
  <2>2. QED
    BY <1>1, <2>1, QueueKept
<1>5. AskingOK'
  <2>1. CASE next = "asking"
    BY <1>1, <1>2, <2>1 DEF AskingOK
  <2>2. CASE next # "asking"
    <3>1. \A u \in T : stage'[u] = "asking" => stage[u] = "asking"
      BY <1>1, <1>2, <2>2
    <3>2. QED
      BY <1>1, <1>2, <2>2, <3>1, AskingStay
  <2>3. QED
    BY <2>1, <2>2
<1>6. QED
  BY <1>3, <1>4, <1>5 DEF Waited

LEMMA ResolvingServed ==
  ASSUME Inv, More, Waited, NEW t \in T, StartCheck(t) \/ Answers(t)
  PROVE  Waited'
<1>1. UNCHANGED resolveVars /\ stage[t] \in Resolving
  BY DEF StartCheck, Answers, ExistsAnswers, ListAnswers, Resolving
<1>2. AtHead(t)
  <2>1. StartCheck(t) \/ stage[t] \in {"checking", "listing"}
    BY DEF StartCheck, Answers, ExistsAnswers, ListAnswers
  <2>2. QED
    BY <2>1, UnderWayIsFirst DEF StartCheck, Waited, More, Data
<1>3. ASSUME NEW n, Claim(t, n)
      PROVE  Waited'
  BY <1>1, <1>2, <1>3, TurnServed DEF Claim
<1>4. ASSUME NEW found, Resolve(t, found)
      PROVE  Waited'
  <2>1. \/ \E n : Claim(t, n)
        \/ /\ \E next \in {"listing", "checking"} : stage' = [stage EXCEPT ![t] = next]
           /\ chain' = chain /\ UNCHANGED promptVars
        \/ /\ \E next \in {"throws", "skips", "resolved"} : stage' = [stage EXCEPT ![t] = next]
           /\ chain' = Passed(t) /\ UNCHANGED promptVars
        \/ AskUser(t) /\ Asks(t) /\ chain' = Passed(t)
    BY <1>4 DEF Resolve
  <2>2. QED
    BY <1>1, <1>2, <1>3, <2>1, TurnServed
<1>5. CASE /\ stage' = [stage EXCEPT ![t] = "checking"]
           /\ UNCHANGED <<chain, claims, target, answer, promptVars>>
  BY <1>1, <1>2, <1>5, TurnServed
<1>6. QED
  BY <1>3, <1>4, <1>5 DEF StartCheck, Answers, ExistsAnswers, ListAnswers

\* Questions are served, and nothing else of a run changes.
LEMMA ServingKeeps ==
  ASSUME Inv, More, Waited, UNCHANGED <<birth, chain>>,
         \A t \in T : stage'[t] = stage[t] \/ (stage[t] = "asking" /\ stage'[t] = "answered")
  PROVE  ChainOK' /\ QueueOK'
<1>1. chain \in [1 .. MaxConns -> Seq(T)] /\ ChainOK /\ QueueOK
  BY DEF More, Data, Waited
<1>2. \A t \in T : stage'[t] = stage[t] \/ (stage[t] \notin Resolving /\ stage'[t] \notin Resolving)
  BY DEF Resolving
<1>3. \A t \in T : \/ stage'[t] = stage[t]
                   \/ InFlight(t) /\ stage'[t] \notin {"new", "waiting", "opening"} \cup Terminal
  BY DEF InFlight, Terminal
<1>4. QED
  BY <1>1, <1>2, <1>3, ChainKept, QueueKept

LEMMA TreeServed ==
  ASSUME Inv, More, Waited, NEW t \in T, FileOfTreeFails(t) \/ \E f \in Files : AskFile(t, f)
  PROVE  Waited'
<1>1. /\ UNCHANGED <<birth, chain, windowGone>> /\ stage[t] = "running" /\ mode[t] = "tree"
      /\ stage \in [T -> Stages] /\ PromptsOK /\ AskingOK
  BY DEF FileOfTreeFails, AskFile, runVars, worldVars, Inv, Typed, More, Waited
<1>2. CASE FileOfTreeFails(t)
  <2> DEFINE p == Prompted(OpenQuestions(t), strategy)
  <2>1. Shows(p, order) /\ stage' = Served(stage, p.served)
    BY <1>2 DEF FileOfTreeFails
  <2>2. ASSUME NEW u \in T
        PROVE  \/ stage'[u] = stage[u] /\ (stage[u] = "asking" => <<u, 1>> \notin p.served)
               \/ stage[u] = "asking" /\ stage'[u] = "answered"
    <3>1. CASE stage[u] = "asking" /\ <<u, 1>> \in p.served
      BY <2>1, <3>1 DEF Served
    <3>2. CASE ~(stage[u] = "asking" /\ <<u, 1>> \in p.served)
      BY <2>1, <3>2 DEF Served
    <3>3. QED
      BY <3>1, <3>2
  <2>3. ChainOK' /\ QueueOK'
    BY <1>1, <2>2, ServingKeeps
  <2> HIDE DEF p
  <2>4. ASSUME NEW u \in T, stage'[u] = "asking"
        PROVE  stage[u] = "asking" /\ <<u, 1>> \notin OpenQuestions(t) \cup p.served
    <3>1. stage[u] = "asking" /\ <<u, 1>> \notin p.served
      BY <2>2, <2>4
    <3>2. u # t /\ <<u, 1>>[1] = u
      BY <1>1, <3>1
    <3>3. QED
      BY <3>1, <3>2 DEF OpenQuestions, RequestsOf
  <2>5. visible \in requests => strategy[batch[visible[1]]] = Undecided
    BY <1>1 DEF PromptsOK
  <2>6. AskingOK'
    BY <1>1, <2>1, <2>4, <2>5, AskingLeave DEF p
  <2>7. QED
    BY <2>3, <2>6 DEF Waited
<1>3. ASSUME NEW f \in Files, AskFile(t, f)
      PROVE  Waited'
  <2>1. CASE UNCHANGED <<stage, promptVars>>
    <3>1. ChainOK' /\ QueueOK'
      BY <1>1, <2>1, ServingKeeps
    <3>2. AskingOK'
      BY <1>1, <2>1, AskingStay DEF promptVars
    <3>3. QED
      BY <3>1, <3>2 DEF Waited
  <2>2. CASE ~ContextCancelled(t) /\ strategy[batch[t]] = Undecided /\ Question(<<t, f>>, stage)
    <3>1. strategy[batch[<<t, f>>[1]]] = Undecided
      BY <2>2
    <3>2. requests' = requests \cup {<<t, f>>} /\ stage' = stage
      BY <1>1, <2>2, <3>1, QuestionAdds
    <3>3. ~windowGone
      BY <1>1, <2>2 DEF ContextCancelled
    <3>4. ChainOK' /\ QueueOK'
      BY <1>1, <3>2, ServingKeeps
    <3>5. AskingOK'
      BY <1>1, <3>2, <3>3 DEF AskingOK
    <3>6. QED
      BY <3>4, <3>5 DEF Waited
  <2>3. QED
    BY <1>3, <2>1, <2>2 DEF AskFile
<1>4. QED
  BY <1>2, <1>3

LEMMA RespondServed ==
  ASSUME Inv, More, Waited, NEW a \in Strategies, NEW all \in BOOLEAN, Respond(a, all)
  PROVE  Waited'
<1> DEFINE strats == Decided(a, all)
           p == Prompted({visible}, strats)
<1>1. /\ UNCHANGED <<birth, chain, windowGone>>
      /\ Shows(p, order) /\ stage' = Served(stage, p.served \cup {visible})
      /\ stage \in [T -> Stages] /\ PromptsOK /\ AskingOK
  BY DEF Respond, runVars, worldVars, Inv, Typed, More, Waited
<1> HIDE DEF strats, p
<1>2. ASSUME NEW u \in T
      PROVE  \/ stage'[u] = stage[u] /\ (stage[u] = "asking" => <<u, 1>> \notin p.served \cup {visible})
             \/ stage[u] = "asking" /\ stage'[u] = "answered"
  <2>1. CASE stage[u] = "asking" /\ <<u, 1>> \in p.served \cup {visible}
    BY <1>1, <2>1 DEF Served
  <2>2. CASE ~(stage[u] = "asking" /\ <<u, 1>> \in p.served \cup {visible})
    BY <1>1, <2>2 DEF Served
  <2>3. QED
    BY <2>1, <2>2
<1>3. ChainOK' /\ QueueOK'
  BY <1>1, <1>2, ServingKeeps
<1>4. \A u \in T : stage'[u] = "asking" =>
        stage[u] = "asking" /\ <<u, 1>> \notin {visible} \cup p.served
  BY <1>2
<1>5. AskingOK'
  BY <1>1, <1>4, AskingLeave DEF p
<1>6. QED
  BY <1>3, <1>5 DEF Waited

\* What a cancellation leaves still waits for something.
LEMMA RecallServed ==
  ASSUME Inv, More, Waited, NEW S \in SUBSET T, NEW C, NEW R, Recall(S, C, R),
         windowGone' => windowGone \/ requests \subseteq RequestsOf(R)
  PROVE  Waited'
<1> DEFINE drop == Dropped(S)
           p == Prompted(RequestsOf(R), strategy)
           st == Rejected(Reset(stage, drop, "over"), R)
<1>1. /\ stage' = Served(st, p.served) /\ Shows(p, order) /\ UNCHANGED <<birth, chain>>
      /\ stage \in [T -> Stages] /\ chain \in [1 .. MaxConns -> Seq(T)] /\ PromptsOK
      /\ ChainOK /\ QueueOK /\ AskingOK
  BY DEF Recall, Inv, Typed, More, Data, Waited
<1>2. \A t \in T : IF t \in drop THEN stage[t] = "waiting" /\ st[t] = "over"
                  ELSE \/ st[t] = stage[t] /\ (stage[t] = "asking" => t \notin R)
                       \/ stage[t] = "asking" /\ st[t] = "throws"
  BY DEF Rejected, Reset, Dropped
<1> HIDE DEF drop, st, p
<1>3. ASSUME NEW t \in T
      PROVE  \/ /\ stage'[t] = stage[t]
                /\ stage[t] = "asking" => t \notin R /\ <<t, 1>> \notin p.served
             \/ stage[t] = "waiting" /\ stage'[t] = "over"
             \/ stage[t] = "asking" /\ stage'[t] \in {"throws", "answered"}
  <2>1. CASE st[t] = "asking" /\ <<t, 1>> \in p.served
    BY <1>1, <1>2, <2>1 DEF Served
  <2>2. CASE ~(st[t] = "asking" /\ <<t, 1>> \in p.served)
    <3>1. stage'[t] = st[t]
      BY <1>1, <2>2 DEF Served
    <3>2. QED
      BY <1>2, <2>2, <3>1
  <2>3. QED
    BY <2>1, <2>2
<1>4. ChainOK'
  <2>1. \A t \in T : stage'[t] = stage[t] \/ (stage[t] \notin Resolving /\ stage'[t] \notin Resolving)
    BY <1>3 DEF Resolving
  <2>2. QED
    BY <1>1, <2>1, ChainKept
<1>5. QueueOK'
  <2>1. \A t \in T : \/ stage'[t] = stage[t]
                     \/ InFlight(t) /\ stage'[t] \notin {"new", "waiting", "opening"} \cup Terminal
                     \/ stage[t] = "waiting" /\ stage'[t] = "over"
    BY <1>3 DEF InFlight, Terminal
  <2>2. QED
    BY <1>1, <2>1, QueueKept
<1>6. AskingOK'
  <2>1. ASSUME NEW t \in T, stage'[t] = "asking"
        PROVE  stage[t] = "asking" /\ <<t, 1>> \notin RequestsOf(R) \cup p.served
    <3>1. stage[t] = "asking" /\ t \notin R /\ <<t, 1>> \notin p.served
      BY <1>3, <2>1
    <3>2. <<t, 1>>[1] = t
      OBVIOUS
    <3>3. QED
      BY <3>1, <3>2 DEF RequestsOf
  <2>2. visible \in requests => strategy[batch[visible[1]]] = Undecided
    BY <1>1 DEF PromptsOK
  <2>3. QED
    BY <1>1, <2>1, <2>2, AskingLeave DEF p
<1>7. QED
  BY <1>4, <1>5, <1>6 DEF Waited

LEMMA CancelsServed ==
  ASSUME Inv, More, Waited,
         \/ \E t \in T : CancelTransfer(t)
         \/ RespondCancel \/ WindowCloses \/ Teardown
  PROVE  Waited'
<1>1. CASE \E t \in T : CancelTransfer(t)
  <2>1. PICK t \in T : Recall({t}, {t} \cap Contexts, {t}) /\ windowGone' = windowGone
    BY <1>1 DEF CancelTransfer, worldVars
  <2>2. QED
    BY <2>1, RecallServed
<1>2. CASE RespondCancel
  <2>1. PICK b : Recall(Members(b), {}, Members(b)) /\ windowGone' = windowGone
    BY <1>2 DEF RespondCancel, worldVars
  <2>2. Members(b) \in SUBSET T
    BY DEF Members, Contexts
  <2>3. QED
    BY <2>1, <2>2, RecallServed
<1>3. CASE WindowCloses
  <2>1. Recall(Contexts, Contexts, Contexts) /\ Contexts \in SUBSET T
    BY <1>3 DEF WindowCloses, Contexts
  <2>2. PromptsOK /\ RunsOK
    BY DEF More
  <2>3. ASSUME NEW q \in requests
        PROVE  q \in RequestsOf(Contexts)
    <3>1. q[1] \in T /\ Waits(q)
      BY <2>2 DEF PromptsOK, Requests
    <3>2. HasContext(q[1])
      BY <2>2, <3>1 DEF Waits, RunsOK, HasContext, Terminal
    <3>3. QED
      BY <3>1, <3>2 DEF RequestsOf, Contexts
  <2>4. QED
    BY <2>1, <2>3, RecallServed
<1>4. CASE Teardown
  <2>1. PICK S \in SUBSET T : Recall(S, Contexts, T) /\ windowGone' = windowGone
    BY <1>4 DEF Teardown
  <2>2. QED
    BY <2>1, RecallServed
<1>5. QED
  BY <1>1, <1>2, <1>3, <1>4

\* A run ends, its questions with it, and the queue admits the next.
LEMMA EndsServed ==
  ASSUME Inv, More, Waited, NEW t \in T, Unwinds(t) \/ RunnerStep(t)
  PROVE  Waited'
<1>1. PICK what \in Terminal : Finish(t, what)
  BY DEF Unwinds, RunnerStep, FileEnds, TreeEnds, Terminal
<1>2. stage[t] \in {"throws", "skips", "running"} /\ windowGone' = windowGone
  BY DEF Unwinds, RunnerStep, FileEnds, TreeEnds, worldVars
<1> DEFINE p == Prompted(RequestsOf({t}), strategy)
           reset == Reset(stage, {t}, what)
           st == Served(reset, p.served)
           births == Reset(birth, {t}, 0)
<1>3. /\ Shows(p, order) /\ Pump(running - 1, st, births) /\ chain' = chain
  BY <1>1 DEF Finish
<1>4. /\ stage \in [T -> Stages] /\ chain \in [1 .. MaxConns -> Seq(T)] /\ gen \in 1 .. MaxConns
      /\ PromptsOK /\ CountOK /\ ChainOK /\ QueueOK /\ AskingOK
  BY DEF Inv, Typed, More, Data, Waited
<1>5. /\ reset \in [T -> Stages] /\ reset[t] = what
      /\ \A u \in T \ {t} : reset[u] = stage[u]
  BY <1>4 DEF Reset, Terminal, Stages
<1>6. \A u \in T : (u = t => births[u] = 0) /\ (u # t => births[u] = birth[u])
  BY DEF Reset
<1> HIDE DEF reset, p, births
<1>7. st \in [T -> Stages] /\ st[t] = what
  BY <1>5 DEF Served, Stages, Terminal
<1>8. ASSUME NEW u \in T \ {t}
      PROVE  \/ st[u] = stage[u] /\ (stage[u] = "asking" => <<u, 1>> \notin p.served)
             \/ stage[u] = "asking" /\ st[u] = "answered"
  <2>1. CASE reset[u] = "asking" /\ <<u, 1>> \in p.served
    BY <1>5, <2>1 DEF Served
  <2>2. CASE ~(reset[u] = "asking" /\ <<u, 1>> \in p.served)
    BY <1>5, <2>2 DEF Served
  <2>3. QED
    BY <2>1, <2>2
<1> HIDE DEF st
<1>9. \A u \in T : \/ stage'[u] = st[u]
                   \/ st[u] = "waiting" /\ stage'[u] \in {"throws", "opened", "opening"}
  BY <1>3, <1>7, PumpStage
<1>10. ChainOK'
  <2>1. \A u \in T : stage'[u] = stage[u] \/ (stage[u] \notin Resolving /\ stage'[u] \notin Resolving)
    BY <1>2, <1>7, <1>8, <1>9 DEF Resolving, Terminal
  <2>2. QED
    BY <1>3, <1>4, <2>1, ChainKept
<1>11. QueueOK'
  <2>1. t \in Busy(stage) /\ Busy(st) = Busy(stage) \ {t}
    BY <1>2, <1>7, <1>8 DEF Busy, Terminal
  <2>2. IsFiniteSet(Busy(stage)) /\ Cardinality(Busy(stage)) \in 0 .. Count
    BY BusyFinite
  <2>3. Cardinality(Busy(stage) \ {t}) = Cardinality(Busy(stage)) - 1
    BY <2>1, <2>2, FS_RemoveElement
  <2>4. running - 1 = Cardinality(Busy(st))
    BY <1>4, <2>1, <2>3 DEF CountOK
  <2>5. \A u \in T : st[u] = "opening" => births[u] # 0
    BY <1>4, <1>6, <1>7, <1>8 DEF QueueOK, Terminal
  <2>6. gen # 0
    BY <1>4
  <2>7. QED
    BY <1>3, <1>7, <2>4, <2>5, <2>6, PumpServes
<1>12. AskingOK'
  <2>1. ASSUME NEW u \in T, stage'[u] = "asking"
        PROVE  stage[u] = "asking" /\ <<u, 1>> \notin RequestsOf({t}) \cup p.served
    <3>1. u # t /\ stage[u] = "asking" /\ <<u, 1>> \notin p.served
      BY <1>7, <1>8, <1>9, <2>1 DEF Terminal
    <3>2. <<u, 1>>[1] = u
      OBVIOUS
    <3>3. QED
      BY <3>1, <3>2 DEF RequestsOf
  <2>2. visible \in requests => strategy[batch[visible[1]]] = Undecided
    BY <1>4 DEF PromptsOK
  <2>3. QED
    BY <1>2, <1>3, <1>4, <2>1, <2>2, AskingLeave DEF p
<1>13. QED
  BY <1>10, <1>11, <1>12 DEF Waited

LEMMA SubmitServed ==
  ASSUME Inv, More, Waited, NEW t \in T, NEW m \in Modes, NEW b \in Batches, Submit(t, m, b)
  PROVE  Waited'
<1> DEFINE st == [stage EXCEPT ![t] = "waiting"]
<1>1. /\ stage[t] = "new" /\ Pump(running, st, birth)
      /\ UNCHANGED <<chain, requests, windowGone>>
  BY DEF Submit, promptVars, worldVars
<1>2. /\ stage \in [T -> Stages] /\ chain \in [1 .. MaxConns -> Seq(T)] /\ gen \in 1 .. MaxConns
      /\ CountOK /\ ChainOK /\ QueueOK /\ AskingOK
  BY DEF Inv, Typed, More, Data, Waited
<1>3. st \in [T -> Stages] /\ st[t] = "waiting" /\ \A u \in T \ {t} : st[u] = stage[u]
  BY <1>2 DEF Stages
<1> HIDE DEF st
<1>4. \A u \in T : \/ stage'[u] = stage[u]
                   \/ /\ stage[u] \in {"new", "waiting"}
                      /\ stage'[u] \in {"waiting", "throws", "opened", "opening"}
  <2>1. \A u \in T : \/ stage'[u] = st[u]
                     \/ st[u] = "waiting" /\ stage'[u] \in {"throws", "opened", "opening"}
    BY <1>1, <1>3, PumpStage
  <2>2. QED
    BY <1>1, <1>3, <2>1
<1>5. ChainOK'
  <2>1. \A u \in T : stage'[u] = stage[u] \/ (stage[u] \notin Resolving /\ stage'[u] \notin Resolving)
    BY <1>4 DEF Resolving
  <2>2. QED
    BY <1>1, <1>2, <2>1, ChainKept
<1>6. QueueOK'
  <2>1. Busy(st) = Busy(stage)
    BY <1>1, <1>3 DEF Busy
  <2>2. running = Cardinality(Busy(st))
    BY <1>2, <2>1 DEF CountOK
  <2>3. \A u \in T : st[u] = "opening" => birth[u] # 0
    BY <1>2, <1>3 DEF QueueOK
  <2>4. gen # 0
    BY <1>2
  <2>5. QED
    BY <1>1, <1>3, <2>2, <2>3, <2>4, PumpServes
<1>7. AskingOK'
  <2>1. \A u \in T : stage'[u] = "asking" => stage[u] = "asking"
    BY <1>4
  <2>2. QED
    BY <1>1, <1>2, <2>1, AskingStay
<1>8. QED
  BY <1>5, <1>6, <1>7 DEF Waited

LEMMA ChannelServed ==
  ASSUME Inv, More, Waited,
         \/ \E g \in 1 .. MaxConns : ChannelOpens(g) \/ ChannelRefused(g)
         \/ Reconnected \/ ChannelDies
  PROVE  Waited'
<1>1. /\ UNCHANGED <<birth, chain, requests, windowGone>>
      /\ chain \in [1 .. MaxConns -> Seq(T)] /\ ChainOK /\ QueueOK /\ AskingOK
  BY DEF ChannelOpens, ChannelRefused, Reconnected, ChannelDies, runVars, promptVars, worldVars,
       More, Data, Waited
<1>2. \A t \in T : \/ stage'[t] = stage[t]
                   \/ stage[t] = "opening" /\ stage'[t] \in {"opened", "throws"}
  BY DEF ChannelOpens, ChannelRefused, Reconnected, ChannelDies
<1>3. ChainOK'
  <2>1. \A t \in T : stage'[t] = stage[t] \/ (stage[t] \notin Resolving /\ stage'[t] \notin Resolving)
    BY <1>2 DEF Resolving
  <2>2. QED
    BY <1>1, <2>1, ChainKept
<1>4. QueueOK'
  <2>1. \A t \in T : \/ stage'[t] = stage[t]
                     \/ InFlight(t) /\ stage'[t] \notin {"new", "waiting", "opening"} \cup Terminal
    BY <1>2 DEF InFlight, Terminal
  <2>2. QED
    BY <1>1, <2>1, QueueKept
<1>5. AskingOK'
  <2>1. \A t \in T : stage'[t] = "asking" => stage[t] = "asking"
    BY <1>2
  <2>2. QED
    BY <1>1, <2>1, AskingStay
<1>6. QED
  BY <1>3, <1>4, <1>5 DEF Waited

LEMMA InitServed == Init => Waited
<1> SUFFICES ASSUME Init PROVE Waited
  OBVIOUS
<1>1. \A g \in 1 .. MaxConns : Len(chain[g]) = 0
  BY DEF Init
<1>2. ChainOK
  BY <1>1 DEF Init, ChainOK, Resolving
<1>3. QueueOK /\ AskingOK
  BY DEF Init, QueueOK, AskingOK
<1>4. QED
  BY <1>2, <1>3 DEF Waited

LEMMA NextServed == Inv /\ More /\ Waited /\ [Next]_vars => Waited'
<1> SUFFICES ASSUME Inv, More, Waited, [Next]_vars PROVE Waited'
  OBVIOUS
<1>1. CASE UNCHANGED vars
  BY <1>1 DEF vars, runVars, promptVars, worldVars, Waited, ChainOK, QueueOK, AskingOK,
       InChain, InFlight
<1>2. CASE UserStep
  BY <1>2, SubmitServed, CancelsServed, RespondServed DEF UserStep
<1>3. CASE SessionStep
  BY <1>3, ChannelServed, CancelsServed DEF SessionStep
<1>4. ASSUME NEW t \in T, TransferStep(t)
      PROVE  Waited'
  BY <1>4, EndsServed, WaysServed, ResolvingServed, TreeServed DEF TransferStep, MicroStep
<1>5. QED
  BY <1>1, <1>2, <1>3, <1>4 DEF Next

(* No transfer hangs, however many there are and whatever the limit: who   *)
(* waits in the queue has a run whose end admits it, who waits in a        *)
(* resolve chain has a first one that is under way, and who asks has a     *)
(* window that shows a question (TransferQueue.pump, runResolveExclusive,  *)
(* UploadConflicts.pump).                                                  *)
THEOREM NothingHangs == Spec => []NothingStuck
<1>1. Inv /\ More /\ Waited => NothingStuck
  <2> SUFFICES ASSUME Inv, More, Waited PROVE NothingStuck
    OBVIOUS
  <2> SUFFICES ASSUME NEW t \in T
               PROVE  /\ stage[t] = "waiting" => \E u \in T : InFlight(u)
                      /\ stage[t] = "opening" => birth[t] \in 1 .. MaxConns
                      /\ stage[t] = "inline" =>
                           \E g \in 1 .. MaxConns :
                             InChain(t, g) /\ stage[Head(chain[g])] \in {"inline", "checking", "listing"}
                      /\ stage[t] = "asking" => <<t, 1>> \in requests
                      /\ stage[t] = "asking" \/ OpenQuestions(t) # {} => visible # NoRequest /\ ~windowGone
    BY Zenon DEF NothingStuck
  <2>1. stage[t] = "waiting" => \E u \in T : InFlight(u)
    BY DEF Waited, QueueOK
  <2>2. stage[t] = "opening" => birth[t] \in 1 .. MaxConns
    BY TransfersAssumption DEF Waited, QueueOK, More, Data
  <2>3. ASSUME stage[t] = "inline"
        PROVE  \E g \in 1 .. MaxConns : InChain(t, g) /\ stage[Head(chain[g])] \in Resolving
    <3>1. PICK g \in 1 .. MaxConns : InChain(t, g)
      BY <2>3 DEF Waited, ChainOK, Resolving
    <3>2. chain[g] \in Seq(T)
      BY DEF More, Data
    <3>3. 1 \in 1 .. Len(chain[g]) /\ Head(chain[g]) = chain[g][1]
      BY <3>1, <3>2 DEF InChain
    <3>4. stage[chain[g][1]] \in Resolving
      BY <3>3 DEF Waited, ChainOK
    <3>5. QED
      BY <3>1, <3>3, <3>4
  <2>4. stage[t] = "asking" => <<t, 1>> \in requests
    BY DEF Waited, AskingOK
  <2>5. ASSUME requests # {}
        PROVE  visible # NoRequest /\ ~windowGone
    <3>1. visible \in T \X Files
      BY <2>5 DEF More, PromptsOK, Requests
    <3>2. visible[1] \in T /\ NoRequest[1] = 0
      BY <3>1 DEF NoRequest
    <3>3. 0 \notin T
      BY TransfersAssumption DEF T
    <3>4. QED
      BY <2>5, <3>2, <3>3 DEF Waited, AskingOK
  <2>6. stage[t] = "asking" \/ OpenQuestions(t) # {} => requests # {}
    BY <2>4 DEF OpenQuestions, RequestsOf
  <2>7. QED
    BY <2>1, <2>2, <2>3, <2>4, <2>5, <2>6 DEF Resolving
<1>2. QED
  BY <1>1, InitInv, NextInv, InitMore, NextMore, InitServed, NextServed, PTL DEF Spec

(* Targets are resolved one at a time on a connection: an upload stands in *)
(* one chain, once, also when it comes back with the user's decision, and  *)
(* only the first of a chain asks the server (runResolveExclusive).        *)
THEOREM ResolvedInTurn == Spec => []ChainOK
<1>1. Waited => ChainOK
  BY DEF Waited
<1>2. QED
  BY <1>1, InitInv, NextInv, InitMore, NextMore, InitServed, NextServed, PTL DEF Spec
=============================================================================
