-------------------- MODULE WorkspaceConnections_proofs --------------------
(***************************************************************************)
(* What holds of the AI workspace's sessions for any windows and any       *)
(* number of attempts.  The attempts come first: their types, where the    *)
(* sessions they dial appear, and which of them are aborted (AttemptsInv). *)
(* What entries hold, what destroyed windows own and which attempts        *)
(* complete an open rest on that (StateInv).                               *)
(***************************************************************************)
EXTENDS WorkspaceConnections, TLAPS

AttemptType ==
  [kind : {"none", "ai", "tab", "aiKey", "tabKey"}, win : Windows \cup {None},
   stage : {"idle", "stores", "trust", "dial", "up", "down", "done"},
   session : 0 .. MaxAttempts, aborted : BOOLEAN, prev : 0 .. MaxAttempts,
   shown : {"none", "ai", "tab"}]

\* An attempt that dials an id of its own, and does not resume another's.
Own(i) == att[i].kind \in {"ai", "tab"}

Typed ==
  /\ att \in [Ids -> AttemptType]
  /\ begun \in 0 .. MaxAttempts /\ keys \in 0 .. MaxAttempts
  /\ sig \in [Ids -> 0 .. MaxAttempts] /\ line \in [Sessions -> 0 .. MaxAttempts]
  /\ pend \in [id : 0 .. MaxAttempts, session : 0 .. MaxAttempts]
  /\ dropped \in [Windows -> 0 .. MaxAttempts] /\ gone \subseteq Windows

\* An attempt has a session, and a signal to resume it with, when it needs one.
AttemptOK(i) ==
  /\ att[i].win \in Windows
  /\ Own(i) \/ IsConfirm(i)
  /\ Own(i) => att[i].session = i /\ att[i].stage # "trust"
  /\ att[i].session <= begun /\ (att[i].stage # "down" => att[i].session # None)
  /\ att[i].stage = "stores" => Own(i) /\ line[i] = None
  /\ att[i].stage = "trust" => att[i].prev \in Ids /\ sig[att[i].prev] # None
  /\ att[i].stage = "dial" => line[att[i].session] # None

AttemptsOK ==
  /\ \A i \in Ids : i > begun => att[i] = Unused
  /\ \A i \in Unfinished : AttemptOK(i)

\* Sessions appear after the attempt that drew their id has begun.
SessionsOK ==
  /\ pend = NoKey \/ (pend.id \in 1 .. keys /\ pend.session \in 1 .. begun)
  /\ \A s \in Sessions : line[s] # None => s <= begun
  /\ tabs \subseteq 1 .. begun
  /\ \A w \in Windows : dropped[w] <= begun

\* Until an attempt has failed on its key nobody else knows its session.
Fresh(i) == Own(i) /\ att[i].stage \in {"stores", "dial", "up"}
FreshOK ==
  \A i \in Ids : Fresh(i) =>
    /\ i \notin tabs /\ pend.session # i
    /\ \A j \in Unfinished : IsConfirm(j) => att[j].session # i

\* What was under way for a window when it was destroyed, or for its open when
\* that was cancelled, has an aborted signal.
AbortedOK ==
  \A i \in Unfinished :
    att[i].win \in gone \/ (IsAi(i) /\ i <= dropped[att[i].win]) => att[i].aborted

AttemptsInv == Typed /\ AttemptsOK /\ SessionsOK /\ FreshOK /\ AbortedOK

DialogOK == dialog \in [Windows -> {"none", "ai", "tab"}]

-----------------------------------------------------------------------------
(* Cutting and aborting.                                                   *)

\* Two records of one attempt at different stages.
Similar(r, q) ==
  /\ r.kind = q.kind /\ r.win = q.win /\ r.session = q.session
  /\ r.prev = q.prev /\ r.shown = q.shown

LEMMA CutFacts ==
  ASSUME NEW a \in [Ids -> AttemptType], NEW S
  PROVE  /\ Cut(a, S) \in [Ids -> AttemptType]
         /\ \A i \in Ids :
              /\ Similar(Cut(a, S)[i], a[i])
              /\ Cut(a, S)[i].aborted = a[i].aborted
              /\ Cut(a, S)[i].stage = IF a[i].stage = "dial" /\ a[i].session \in S
                                      THEN "down" ELSE a[i].stage
              /\ a[i].stage # "dial" => Cut(a, S)[i] = a[i]
<1>1. ASSUME NEW r \in AttemptType
      PROVE  /\ [r EXCEPT !.stage = "down"] \in AttemptType
             /\ Similar([r EXCEPT !.stage = "down"], r)
             /\ [r EXCEPT !.stage = "down"].aborted = r.aborted
             /\ [r EXCEPT !.stage = "down"].stage = "down"
  BY DEF AttemptType, Similar
<1>2. \A i \in Ids : a[i] \in AttemptType
  OBVIOUS
<1>3. \A r : Similar(r, r)
  BY DEF Similar
<1> HIDE DEF AttemptType, Similar
<1>4. QED
  BY <1>1, <1>2, <1>3 DEF Cut

LEMMA AbortFacts ==
  ASSUME NEW a \in [Ids -> AttemptType], NEW A
  PROVE  /\ Abort(a, A) \in [Ids -> AttemptType]
         /\ \A i \in Ids :
              /\ Similar(Abort(a, A)[i], a[i])
              /\ i \in A => Abort(a, A)[i].aborted
              /\ i \notin A => Abort(a, A)[i].aborted = a[i].aborted
              /\ Abort(a, A)[i].stage = IF a[i].stage = "dial" /\ a[i].session \in Carried(A)
                                        THEN "down" ELSE a[i].stage
              /\ a[i].stage # "dial" /\ i \notin A => Abort(a, A)[i] = a[i]
<1> DEFINE b == Unheard(a, A)
<1>1. ASSUME NEW r \in AttemptType
      PROVE  /\ [r EXCEPT !.aborted = TRUE] \in AttemptType
             /\ Similar([r EXCEPT !.aborted = TRUE], r)
             /\ [r EXCEPT !.aborted = TRUE].aborted = TRUE
             /\ [r EXCEPT !.aborted = TRUE].stage = r.stage
             /\ r.aborted \in BOOLEAN
  BY DEF AttemptType, Similar
<1>2. \A i \in Ids : a[i] \in AttemptType
  OBVIOUS
<1>3. /\ b \in [Ids -> AttemptType]
      /\ \A i \in Ids : b[i] = IF i \in A THEN [a[i] EXCEPT !.aborted = TRUE] ELSE a[i]
  BY <1>1, <1>2 DEF Unheard
<1> HIDE DEF b
<1>4. ASSUME NEW i \in Ids
      PROVE  /\ Similar(b[i], a[i]) /\ b[i].stage = a[i].stage
             /\ i \in A => b[i].aborted
             /\ i \notin A => b[i].aborted = a[i].aborted
  <2>1. CASE i \in A
    <3>1. b[i] = [a[i] EXCEPT !.aborted = TRUE]
      BY <1>3, <2>1
    <3>2. QED
      BY <1>1, <1>2, <2>1, <3>1
  <2>2. CASE i \notin A
    <3>1. b[i] = a[i]
      BY <1>3, <2>2
    <3>2. QED
      BY <2>2, <3>1 DEF Similar
  <2>3. QED
    BY <2>1, <2>2
<1>5. Abort(a, A) = Cut(b, Carried(A))
  BY DEF Abort, b
<1>6. /\ Cut(b, Carried(A)) \in [Ids -> AttemptType]
      /\ \A i \in Ids :
           /\ Similar(Cut(b, Carried(A))[i], b[i])
           /\ Cut(b, Carried(A))[i].aborted = b[i].aborted
           /\ Cut(b, Carried(A))[i].stage = IF b[i].stage = "dial" /\ b[i].session \in Carried(A)
                                            THEN "down" ELSE b[i].stage
           /\ b[i].stage # "dial" => Cut(b, Carried(A))[i] = b[i]
  BY <1>3, CutFacts
<1>7. QED
  BY <1>3, <1>4, <1>5, <1>6 DEF Similar

-----------------------------------------------------------------------------
(* The attempts.                                                           *)

\* What cancelling, ending and settling have in common: attempts end, fail or
\* are aborted, handshakes end with all who wait for them, the key may go.
Subsides ==
  /\ att' \in [Ids -> AttemptType]
  /\ \A i \in Ids :
       \/ att'[i] = att[i]
       \/ i \in Unfinished /\ att'[i] = Done
       \/ /\ i \in Unfinished /\ Similar(att'[i], att[i])
          /\ att[i].aborted => att'[i].aborted
          /\ att'[i].stage \in {att[i].stage, "down"}
  /\ line' \in [Sessions -> 0 .. MaxAttempts]
  /\ \A s \in Sessions : line'[s] \in {line[s], None}
  /\ \A i \in Ids : att'[i].stage = "dial" => line'[att[i].session] # None
  /\ pend' \in {pend, NoKey}
  /\ UNCHANGED <<sig, keys, begun>>

\* New tabs show sessions that are not fresh; a window that goes, and one that
\* cancels its open, abort what is under way.
LEMMA SubsidesInv ==
  ASSUME AttemptsInv, Subsides,
         tabs' \subseteq 1 .. begun,
         \A s \in tabs' \ tabs : \/ att'[s] = Done
                                 \/ \E j \in Unfinished : IsConfirm(j) /\ att[j].session = s,
         gone' \subseteq Windows, dropped' \in [Windows -> 0 .. MaxAttempts],
         \A w \in Windows : dropped'[w] \in {dropped[w], begun},
         \A i \in Ids :
           /\ att'[i].stage \notin {"idle", "done"}
           /\ \/ att[i].win \in gone' \ gone
              \/ IsAi(i) /\ dropped'[att[i].win] # dropped[att[i].win]
           => att'[i].aborted
  PROVE  AttemptsInv'
<1> USE DEF AttemptsInv
<1>1. \A i \in Ids : /\ att[i] \in AttemptType /\ att'[i] \in AttemptType
                     /\ att'[i].stage \notin {"idle", "done"} =>
                          /\ i \in Unfinished /\ Similar(att'[i], att[i])
                          /\ att[i].aborted => att'[i].aborted
                          /\ att'[i].stage \in {att[i].stage, "down"}
  BY DEF Subsides, Typed, Done, Unused, Unfinished, Similar
<1>2. \A i \in Ids : i \in Unfinished' => /\ i \in Unfinished
                                          /\ Own(i)' = Own(i) /\ IsConfirm(i)' = IsConfirm(i)
                                          /\ IsAi(i)' = IsAi(i)
  BY <1>1 DEF Unfinished, Similar, Own, IsConfirm, IsAi
<1>3. pend' \in {pend, NoKey} /\ UNCHANGED <<sig, keys, begun>>
  BY DEF Subsides
<1>4. Typed'
  BY <1>3, WorkspaceAssumption DEF Subsides, Typed, NoKey, None
<1>5. AttemptsOK'
  <2>1. ASSUME NEW i \in Ids, i > begun'
        PROVE  att'[i] = Unused
    <3>1. att[i] = Unused
      BY <2>1, <1>3 DEF AttemptsOK
    <3>2. i \notin Unfinished
      BY <3>1 DEF Unfinished, Unused
    <3>3. QED
      BY <3>1, <3>2 DEF Subsides
  <2>2. ASSUME NEW i \in Ids, i \in Unfinished'
        PROVE  AttemptOK(i)'
    <3>1. AttemptOK(i) /\ Similar(att'[i], att[i]) /\ att'[i].stage \in {att[i].stage, "down"}
      BY <1>1, <1>2, <2>2 DEF AttemptsOK, Unfinished
    <3>2. att'[i].stage = "dial" => line'[att[i].session] # None
      BY DEF Subsides
    <3>3. line[i] = None => line'[i] = None
      BY DEF Subsides, Sessions
    <3>4. QED
      BY <1>2, <1>3, <2>2, <3>1, <3>2, <3>3 DEF AttemptOK, Similar
  <2>3. QED
    BY <1>3, <2>1, <2>2 DEF AttemptsOK, Unfinished
<1>6. SessionsOK'
  <2>1. pend' = NoKey \/ (pend'.id \in 1 .. keys' /\ pend'.session \in 1 .. begun')
    BY <1>3 DEF SessionsOK
  <2>2. \A s \in Sessions : line'[s] # None => s <= begun'
    BY <1>3 DEF SessionsOK, Subsides
  <2>3. \A w \in Windows : dropped'[w] <= begun'
    BY <1>3 DEF SessionsOK, Typed
  <2>4. QED
    BY <1>3, <2>1, <2>2, <2>3 DEF SessionsOK
<1>7. FreshOK'
  <2>1. ASSUME NEW i \in Ids, Fresh(i)'
        PROVE  /\ i \notin tabs' /\ pend'.session # i
               /\ \A j \in Ids : j \in Unfinished' /\ IsConfirm(j)' => att'[j].session # i
    <3>1. i \in Unfinished'
      BY <2>1 DEF Fresh, Unfinished
    <3>2. Fresh(i) /\ att'[i] # Done
      BY <2>1, <3>1, <1>1, <1>2 DEF Fresh, Unfinished, Done, Unused
    <3>3. /\ i \notin tabs /\ pend.session # i
          /\ \A j \in Unfinished : IsConfirm(j) => att[j].session # i
      BY <3>2 DEF FreshOK
    <3>4. i \notin tabs'
      BY <3>2, <3>3
    <3>5. pend'.session # i
      BY <1>3, <3>3 DEF NoKey, None, Ids
    <3>6. \A j \in Ids : j \in Unfinished' /\ IsConfirm(j)' => att'[j].session # i
      BY <1>1, <1>2, <3>3 DEF Similar, Unfinished
    <3>7. QED
      BY <3>4, <3>5, <3>6
  <2>2. QED
    BY <2>1 DEF FreshOK, Unfinished
<1>8. AbortedOK'
  <2>1. ASSUME NEW i \in Ids, i \in Unfinished',
               att'[i].win \in gone' \/ (IsAi(i)' /\ i <= dropped'[att'[i].win])
        PROVE  att'[i].aborted
    <3>1. /\ i \in Unfinished /\ att'[i].win = att[i].win /\ IsAi(i)' = IsAi(i)
          /\ att[i].aborted => att'[i].aborted
      BY <2>1, <1>1, <1>2 DEF Similar, Unfinished
    <3>2. CASE att[i].win \in gone \/ (IsAi(i) /\ i <= dropped[att[i].win])
      BY <3>1, <3>2 DEF AbortedOK
    <3>3. CASE att[i].win \in gone' \ gone \/ (IsAi(i) /\ dropped'[att[i].win] # dropped[att[i].win])
      BY <2>1, <3>1, <3>3 DEF Unfinished
    <3>4. QED
      BY <2>1, <3>1, <3>2, <3>3
  <2>2. QED
    BY <2>1 DEF AbortedOK, Unfinished
<1>9. QED
  BY <1>4, <1>5, <1>6, <1>7, <1>8


LEMMA IdleFacts ==
  ASSUME Typed, NEW S
  PROVE  /\ Idle(S) \in [Sessions -> 0 .. MaxAttempts]
         /\ \A s \in Sessions : Idle(S)[s] = IF s \in S THEN None ELSE line[s]
  BY WorkspaceAssumption DEF Typed, Idle, None

LEMMA DoneType == Done \in AttemptType /\ Done.stage = "done"
<1>1. Unused \in AttemptType
  BY WorkspaceAssumption DEF Unused, AttemptType, None
<1>2. ASSUME NEW r \in AttemptType
      PROVE  [r EXCEPT !.stage = "done"] \in AttemptType /\ [r EXCEPT !.stage = "done"].stage = "done"
  BY DEF AttemptType
<1>3. QED
  BY <1>1, <1>2 DEF Done

\* The signals of A abort, and the handshakes for S end beside.
LEMMA AbortSubsides ==
  ASSUME AttemptsInv, NEW A \in SUBSET Unfinished, NEW S,
         att' = Cut(Abort(att, A), S), line' = Idle(Carried(A) \cup S),
         pend' \in {pend, NoKey}, UNCHANGED <<sig, keys, begun>>
  PROVE  Subsides /\ \A i \in A : att'[i].aborted
<1> DEFINE a == Abort(att, A)
<1>1. Typed /\ att \in [Ids -> AttemptType]
  BY DEF AttemptsInv, Typed
<1>2. /\ a \in [Ids -> AttemptType]
      /\ \A i \in Ids :
           /\ Similar(a[i], att[i])
           /\ i \in A => a[i].aborted
           /\ i \notin A => a[i].aborted = att[i].aborted
           /\ a[i].stage = IF att[i].stage = "dial" /\ att[i].session \in Carried(A)
                           THEN "down" ELSE att[i].stage
           /\ att[i].stage # "dial" /\ i \notin A => a[i] = att[i]
  BY <1>1, AbortFacts
<1> HIDE DEF a
<1>3. /\ att' \in [Ids -> AttemptType]
      /\ \A i \in Ids :
           /\ Similar(att'[i], a[i])
           /\ att'[i].aborted = a[i].aborted
           /\ att'[i].stage = IF a[i].stage = "dial" /\ a[i].session \in S
                              THEN "down" ELSE a[i].stage
           /\ a[i].stage # "dial" => att'[i] = a[i]
  <2>1. att' = Cut(a, S)
    BY DEF a
  <2>2. QED
    BY <1>2, <2>1, CutFacts
<1>4. /\ line' \in [Sessions -> 0 .. MaxAttempts]
      /\ \A s \in Sessions : line'[s] = IF s \in Carried(A) \cup S THEN None ELSE line[s]
  BY <1>1, IdleFacts
<1>5. ASSUME NEW i \in Ids
      PROVE  /\ \/ att'[i] = att[i]
                \/ /\ i \in Unfinished /\ Similar(att'[i], att[i])
                   /\ att[i].aborted => att'[i].aborted
                   /\ att'[i].stage \in {att[i].stage, "down"}
             /\ att'[i].stage = "dial" => line'[att[i].session] # None
             /\ i \in A => att'[i].aborted
  <2>1. Similar(att'[i], att[i]) /\ (att[i].aborted => att'[i].aborted)
    BY <1>2, <1>3 DEF Similar
  <2>2. att'[i].stage \in {att[i].stage, "down"}
    BY <1>2, <1>3
  <2>3. i \notin Unfinished => att'[i] = att[i]
    BY <1>2, <1>3 DEF Unfinished
  <2>4. ASSUME att'[i].stage = "dial"
        PROVE  line'[att[i].session] # None
    <3>1. /\ att[i].stage = "dial" /\ att[i].session \notin Carried(A) \cup S
      BY <2>4, <1>2, <1>3 DEF Similar
    <3>2. i \in Unfinished
      BY <3>1 DEF Unfinished
    <3>3. line[att[i].session] # None /\ att[i].session # None
      BY <3>1, <3>2 DEF AttemptsInv, AttemptsOK, AttemptOK
    <3>4. att[i].session \in Sessions
      BY <3>3, <1>1, WorkspaceAssumption DEF AttemptType, Sessions, Ids, None
    <3>5. QED
      BY <3>1, <3>3, <3>4, <1>4
  <2>5. i \in A => att'[i].aborted
    BY <1>2, <1>3
  <2>6. QED
    BY <2>1, <2>2, <2>3, <2>4, <2>5
<1>6. \A s \in Sessions : line'[s] \in {line[s], None}
  BY <1>4
<1>7. QED
  BY <1>3, <1>4, <1>5, <1>6 DEF Subsides, Unfinished

\* The same when no other handshake ends.
LEMMA AbortAlone ==
  ASSUME AttemptsInv, NEW A \in SUBSET Unfinished,
         att' = Abort(att, A), line' = Idle(Carried(A)),
         pend' \in {pend, NoKey}, UNCHANGED <<sig, keys, begun>>
  PROVE  Subsides /\ \A i \in A : att'[i].aborted
<1>1. Abort(att, A) \in [Ids -> AttemptType]
  BY AbortFacts DEF AttemptsInv, Typed
<1>2. Cut(Abort(att, A), {}) = Abort(att, A)
  BY <1>1 DEF Cut
<1>3. Carried(A) \cup {} = Carried(A)
  OBVIOUS
<1>4. QED
  BY <1>2, <1>3, AbortSubsides

\* An attempt ends, with its own signal and those of A.
LEMMA FinishSubsides ==
  ASSUME AttemptsInv, NEW i \in Unfinished, NEW A \in SUBSET (Unfinished \ {i}),
         att' = Abort(Finish(att, i), A), line' = Idle(Carried(A \cup {i})),
         pend' \in {pend, NoKey}, UNCHANGED <<sig, keys, begun>>
  PROVE  Subsides /\ att'[i] = Done
<1> DEFINE a == Abort(att, {i})
           f == Finish(att, i)
<1>1. Typed /\ att \in [Ids -> AttemptType] /\ i \in Ids
  BY DEF AttemptsInv, Typed, Unfinished
<1>2. /\ a \in [Ids -> AttemptType]
      /\ \A j \in Ids :
           /\ Similar(a[j], att[j])
           /\ j # i => a[j].aborted = att[j].aborted
           /\ a[j].stage = IF att[j].stage = "dial" /\ att[j].session \in Carried({i})
                           THEN "down" ELSE att[j].stage
           /\ att[j].stage # "dial" /\ j # i => a[j] = att[j]
  BY <1>1, AbortFacts
<1>3. Done \in AttemptType /\ Done.stage = "done"
  BY DoneType
<1>4. f = [a EXCEPT ![i] = Done]
  BY DEF Finish
<1> HIDE DEF a, f
<1>5. f \in [Ids -> AttemptType] /\ f[i] = Done /\ \A j \in Ids \ {i} : f[j] = a[j]
  BY <1>1, <1>2, <1>3, <1>4
<1>6. /\ att' \in [Ids -> AttemptType]
      /\ \A j \in Ids :
           /\ Similar(att'[j], f[j])
           /\ j \in A => att'[j].aborted
           /\ j \notin A => att'[j].aborted = f[j].aborted
           /\ att'[j].stage = IF f[j].stage = "dial" /\ f[j].session \in Carried(A)
                              THEN "down" ELSE f[j].stage
           /\ f[j].stage # "dial" /\ j \notin A => att'[j] = f[j]
  <2>1. att' = Abort(f, A)
    BY DEF f
  <2>2. QED
    BY <1>5, <2>1, AbortFacts
<1>7. /\ line' \in [Sessions -> 0 .. MaxAttempts]
      /\ \A s \in Sessions : line'[s] = IF s \in Carried(A) \cup Carried({i}) THEN None ELSE line[s]
  <2>1. Carried(A \cup {i}) = Carried(A) \cup Carried({i})
    BY DEF Carried
  <2>2. QED
    BY <1>1, <2>1, IdleFacts
<1>8. att'[i] = Done
  BY <1>1, <1>3, <1>5, <1>6
<1>9. ASSUME NEW j \in Ids, j # i
      PROVE  /\ \/ att'[j] = att[j]
                \/ /\ j \in Unfinished /\ Similar(att'[j], att[j])
                   /\ att[j].aborted => att'[j].aborted
                   /\ att'[j].stage \in {att[j].stage, "down"}
             /\ att'[j].stage = "dial" => line'[att[j].session] # None
  <2>1. f[j] = a[j]
    BY <1>5, <1>9
  <2>2. Similar(att'[j], att[j]) /\ (att[j].aborted => att'[j].aborted)
    BY <1>2, <1>6, <1>9, <2>1 DEF Similar
  <2>3. att'[j].stage \in {att[j].stage, "down"}
    BY <1>2, <1>6, <2>1
  <2>4. j \notin Unfinished => att'[j] = att[j]
    BY <1>2, <1>6, <1>9, <2>1 DEF Unfinished
  <2>5. ASSUME att'[j].stage = "dial"
        PROVE  line'[att[j].session] # None
    <3>0. f[j].stage = "dial" /\ f[j].session \notin Carried(A)
      BY <2>5, <1>6
    <3>1. att[j].stage = "dial" /\ att[j].session \notin Carried(A) \cup Carried({i})
      BY <3>0, <2>1, <1>2 DEF Similar
    <3>2. j \in Unfinished
      BY <3>1 DEF Unfinished
    <3>3. line[att[j].session] # None /\ att[j].session # None
      BY <3>1, <3>2 DEF AttemptsInv, AttemptsOK, AttemptOK
    <3>4. att[j].session \in Sessions
      BY <3>3, <1>1, WorkspaceAssumption DEF AttemptType, Sessions, Ids, None
    <3>5. QED
      BY <3>1, <3>3, <3>4, <1>7
  <2>6. QED
    BY <2>2, <2>3, <2>4, <2>5
<1>10. att'[i].stage # "dial"
  BY <1>3, <1>8
<1>11. QED
  BY <1>6, <1>7, <1>8, <1>9, <1>10 DEF Subsides, None

\* The same when no other signal aborts.
LEMMA FinishAlone ==
  ASSUME AttemptsInv, NEW i \in Unfinished,
         att' = Finish(att, i), line' = Idle(Carried({i})),
         pend' \in {pend, NoKey}, UNCHANGED <<sig, keys, begun>>
  PROVE  Subsides /\ att'[i] = Done
<1>1. Carried({}) = {} /\ {} \cup {i} = {i}
  BY DEF Carried
<1>2. Finish(att, i) \in [Ids -> AttemptType]
  <2>1. Abort(att, {i}) \in [Ids -> AttemptType]
    BY AbortFacts DEF AttemptsInv, Typed
  <2>2. QED
    BY <2>1, DoneType DEF Finish
<1>3. Abort(Finish(att, i), {}) = Finish(att, i)
  BY <1>1, <1>2 DEF Abort, Cut, Unheard
<1>4. {} \in SUBSET (Unfinished \ {i})
  OBVIOUS
<1>5. QED
  BY <1>1, <1>3, <1>4, FinishSubsides


\* Requests of a window that cancel, close or destroy.
LEMMA CancelsInv ==
  ASSUME AttemptsInv, NEW w \in Windows,
         \/ CancelAi(w) \/ Reject(w) \/ CancelTab(w) \/ CloseAi(w) \/ Destroy(w)
         \/ \E s \in Sessions : Disconnect(w, s)
  PROVE  AttemptsInv'
<1> DEFINE Lates(i) == att'[i].stage \notin {"idle", "done"}
<1>1. /\ Typed /\ tabs \subseteq 1 .. begun /\ gone \subseteq Windows
      /\ dropped \in [Windows -> 0 .. MaxAttempts] /\ begun \in 0 .. MaxAttempts
  BY DEF AttemptsInv, Typed, SessionsOK
<1>2. ASSUME Subsides, NEW i \in Ids, Lates(i)
      PROVE  i \in Unfinished
  BY <1>2, DoneType DEF Subsides, Unfinished
<1>3. /\ AiAttempts(w) \in SUBSET Unfinished /\ TabAttempts(w) \in SUBSET Unfinished
      /\ AttemptsOf(w) \in SUBSET Unfinished
  BY DEF AiAttempts, TabAttempts, AttemptsOf
<1>4. ASSUME att' = Abort(att, AiAttempts(w)), line' = Idle(Carried(AiAttempts(w))),
             pend' = NoKey, dropped' = [dropped EXCEPT ![w] = begun],
             UNCHANGED <<sig, keys, begun, tabs, gone>>
      PROVE  AttemptsInv'
  <2>1. Subsides /\ \A i \in AiAttempts(w) : att'[i].aborted
    BY <1>3, <1>4, AbortAlone
  <2>2. \A i \in Ids : Lates(i) =>
          (IsAi(i) /\ dropped'[att[i].win] # dropped[att[i].win] => att'[i].aborted)
    <3>1. ASSUME NEW i \in Ids, Lates(i), IsAi(i), dropped'[att[i].win] # dropped[att[i].win]
          PROVE  att'[i].aborted
      <4>1. i \in Unfinished
        BY <1>2, <2>1, <3>1
      <4>2. att[i].win \in Windows
        BY <4>1 DEF AttemptsInv, AttemptsOK, AttemptOK
      <4>3. att[i].win = w
        BY <4>2, <3>1, <1>1, <1>4
      <4>4. i \in AiAttempts(w)
        BY <3>1, <4>1, <4>3 DEF AiAttempts, AttemptsOf
      <4>5. QED
        BY <2>1, <4>4
    <3>2. QED
      BY <3>1
  <2>3. dropped' \in [Windows -> 0 .. MaxAttempts] /\ \A v \in Windows : dropped'[v] \in {dropped[v], begun}
    BY <1>1, <1>4
  <2> HIDE DEF Lates
  <2>4. QED
    BY <1>1, <1>4, <2>1, <2>2, <2>3, SubsidesInv DEF Lates
<1>5. ASSUME Subsides, tabs' \subseteq tabs, UNCHANGED <<dropped, gone>>
      PROVE  AttemptsInv'
  BY <1>1, <1>5, SubsidesInv
<1>6. ASSUME UNCHANGED <<att, line, sig, keys, begun, dropped, gone>>,
             pend' \in {pend, NoKey}, tabs' \subseteq tabs
      PROVE  AttemptsInv'
  <2>1. Subsides
    <3>1. \A i \in Ids : att[i].stage = "dial" => line[att[i].session] # None
      BY DEF AttemptsInv, AttemptsOK, AttemptOK, Unfinished
    <3>2. QED
      BY <1>1, <1>6, <3>1 DEF Subsides, Typed
  <2>2. QED
    BY <1>5, <1>6, <2>1
<1>7. CASE CancelAi(w)
  BY <1>4, <1>7 DEF CancelAi, CancelEntry, Waiting
<1>8. CASE Reject(w)
  <2>1. CASE Waiting(w)
    BY <1>4, <1>8, <2>1 DEF Reject
  <2>2. CASE ~Waiting(w)
    BY <1>6, <1>8, <2>2 DEF Reject
  <2>3. QED
    BY <2>1, <2>2
<1>9. CASE CancelTab(w)
  <2>1. Subsides
    BY <1>3, <1>9, AbortAlone DEF CancelTab
  <2>2. QED
    BY <1>5, <1>9, <2>1 DEF CancelTab
<1>10. CASE CloseAi(w)
  BY <1>6, <1>10 DEF CloseAi
<1>11. CASE Destroy(w)
  <2> DEFINE own == {s \in Sessions : owner[s] = w} \cup ({entry[w].session} \ {None})
             A == AttemptsOf(w)
  <2>1. /\ att' = Cut(Abort(att, A), own) /\ line' = Idle(Carried(A) \cup own)
        /\ pend' \in {pend, NoKey} /\ UNCHANGED <<sig, keys, begun>>
        /\ tabs' \subseteq tabs /\ gone' = gone \cup {w}
        /\ dropped' = dropped \/ dropped' = [dropped EXCEPT ![w] = begun]
    BY <1>11 DEF Destroy
  <2> HIDE DEF own
  <2>2. Subsides /\ \A i \in A : att'[i].aborted
    BY <1>3, <2>1, AbortSubsides
  <2>3. ASSUME NEW i \in Ids, Lates(i),
               \/ att[i].win \in gone' \ gone
               \/ IsAi(i) /\ dropped'[att[i].win] # dropped[att[i].win]
        PROVE  att'[i].aborted
    <3>1. i \in Unfinished
      BY <1>2, <2>2, <2>3
    <3>2. att[i].win \in Windows
      BY <3>1 DEF AttemptsInv, AttemptsOK, AttemptOK
    <3>3. att[i].win = w
      BY <3>2, <2>1, <2>3, <1>1
    <3>4. QED
      BY <3>1, <3>3, <2>2 DEF AttemptsOf
  <2>4. dropped' \in [Windows -> 0 .. MaxAttempts] /\ \A v \in Windows : dropped'[v] \in {dropped[v], begun}
    BY <1>1, <2>1
  <2>5. QED
    BY <1>1, <2>1, <2>2, <2>3, <2>4, SubsidesInv
<1>12. ASSUME NEW s \in Sessions, Disconnect(w, s)
       PROVE  AttemptsInv'
  <2>1. Resumes(w, s) \in SUBSET Unfinished
    BY <1>3 DEF Resumes
  <2>2. Subsides
    BY <1>12, <2>1, AbortSubsides DEF Disconnect
  <2>3. QED
    BY <1>5, <1>12, <2>2 DEF Disconnect
<1>13. QED
  BY <1>7, <1>8, <1>9, <1>10, <1>11, <1>12

\* A session ends; an attempt fails before it dials.
LEMMA EndsInv ==
  ASSUME AttemptsInv, NEW i \in Ids, SessionEnds(i) \/ FailsEarly(i)
  PROVE  AttemptsInv'
<1>1. /\ Typed /\ tabs \subseteq 1 .. begun /\ gone \subseteq Windows
      /\ dropped \in [Windows -> 0 .. MaxAttempts] /\ begun \in 0 .. MaxAttempts
      /\ att \in [Ids -> AttemptType]
  BY DEF AttemptsInv, Typed, SessionsOK
<1>2. \A j \in Ids : att[j].stage = "dial" => line[att[j].session] # None
  BY DEF AttemptsInv, AttemptsOK, AttemptOK, Unfinished
<1>3. ASSUME Subsides, tabs' \subseteq tabs, UNCHANGED <<dropped, gone>>
      PROVE  AttemptsInv'
  BY <1>1, <1>3, SubsidesInv
<1>4. CASE SessionEnds(i)
  <2>1. Subsides
    BY <1>1, <1>2, <1>4 DEF SessionEnds, Subsides, Typed
  <2>2. QED
    BY <1>3, <1>4, <2>1 DEF SessionEnds
<1>5. CASE FailsEarly(i)
  <2>1. /\ att' = [att EXCEPT ![i].stage = "down"] /\ i \in Unfinished
        /\ UNCHANGED <<line, pend, sig, keys, begun, tabs, dropped, gone>>
    BY <1>5 DEF FailsEarly, Unfinished
  <2>2. /\ [att[i] EXCEPT !.stage = "down"] \in AttemptType
        /\ Similar([att[i] EXCEPT !.stage = "down"], att[i])
        /\ [att[i] EXCEPT !.stage = "down"].aborted = att[i].aborted
        /\ [att[i] EXCEPT !.stage = "down"].stage = "down"
    BY <1>1 DEF AttemptType, Similar
  <2>3. /\ att' \in [Ids -> AttemptType] /\ att'[i] = [att[i] EXCEPT !.stage = "down"]
        /\ \A j \in Ids \ {i} : att'[j] = att[j]
    BY <1>1, <2>1, <2>2
  <2>4. Subsides
    BY <1>1, <1>2, <2>1, <2>2, <2>3 DEF Subsides, Typed
  <2>5. QED
    BY <1>3, <2>1, <2>4
<1>6. QED
  BY <1>4, <1>5

\* Attempts settle: those with a session show it in a tab, or do not.
LEMMA SettleInv ==
  ASSUME AttemptsInv, NEW i \in Ids, Settle(i)
  PROVE  AttemptsInv'
<1>1. /\ Typed /\ tabs \subseteq 1 .. begun /\ gone \subseteq Windows
      /\ dropped \in [Windows -> 0 .. MaxAttempts] /\ begun \in 0 .. MaxAttempts
      /\ att \in [Ids -> AttemptType]
  BY DEF AttemptsInv, Typed, SessionsOK
<1>2. i \in Unfinished
  BY DEF Settle, ArriveAi, ArriveTab, ArriveKey, FailConnect, FailKey, Arrives, Fails, Unfinished
<1>3. AttemptOK(i)
  BY <1>2 DEF AttemptsInv, AttemptsOK
<1>4. UNCHANGED <<sig, keys, begun, gone, dropped>> /\ pend' \in {pend, NoKey}
  BY DEF Settle, ArriveAi, ArriveTab, ArriveKey, FailConnect, FailKey
<1>5. Subsides /\ att'[i] = Done
  <2>1. CASE att' = Finish(att, i) /\ line' = Idle(Carried({i}))
    BY <1>2, <1>4, <2>1, FinishAlone
  <2>2. CASE FailKey(i) /\ IsAi(i) /\ ~(att' = Finish(att, i) /\ line' = Idle(Carried({i})))
    <3> DEFINE A == AiAttempts(att[i].win) \ {i}
    <3>1. /\ att' = Abort(Finish(att, i), A)
          /\ line' = Idle(Carried(AiAttempts(att[i].win)))
      BY <2>2 DEF FailKey
    <3>2. A \in SUBSET (Unfinished \ {i}) /\ A \cup {i} = AiAttempts(att[i].win)
      BY <1>2, <2>2 DEF AiAttempts, AttemptsOf
    <3> HIDE DEF A
    <3>3. QED
      BY <1>2, <1>4, <3>1, <3>2, FinishSubsides
  <2>3. QED
    BY <2>1, <2>2 DEF Settle, ArriveAi, ArriveTab, ArriveKey, FailConnect, FailKey
<1>6. tabs' \subseteq tabs \/ (Arrives(i) /\ ~IsAi(i) /\ tabs' \subseteq tabs \cup {att[i].session})
      \/ (Arrives(i) /\ IsConfirm(i) /\ tabs' \subseteq tabs \cup {att[i].session})
  BY DEF Settle, ArriveAi, ArriveTab, ArriveKey, FailConnect, FailKey, IsAi
<1>7. Arrives(i) => att[i].session \in 1 .. begun
  BY <1>1, <1>3, WorkspaceAssumption DEF Arrives, AttemptOK, AttemptType, None
<1>8. tabs' \subseteq 1 .. begun
  BY <1>1, <1>6, <1>7
<1>9. ASSUME NEW s \in tabs' \ tabs
      PROVE  att'[s] = Done \/ \E j \in Unfinished : IsConfirm(j) /\ att[j].session = s
  <2>1. s = att[i].session /\ (IsConfirm(i) \/ ~IsAi(i))
    BY <1>6, <1>9
  <2>2. CASE IsConfirm(i)
    BY <1>2, <2>1, <2>2
  <2>3. CASE ~IsConfirm(i)
    BY <1>3, <1>5, <2>1, <2>3 DEF AttemptOK
  <2>4. QED
    BY <2>2, <2>3
<1>10. QED
  BY <1>1, <1>4, <1>5, <1>8, <1>9, SubsidesInv


LEMMA AttemptFacts ==
  ASSUME NEW kind \in {"ai", "tab"}, NEW w \in Windows, NEW i \in Ids
  PROVE  /\ Attempt(kind, w, i) \in AttemptType
         /\ Attempt(kind, w, i).kind = kind /\ Attempt(kind, w, i).win = w
         /\ Attempt(kind, w, i).stage = "stores"
         /\ Attempt(kind, w, i).session = i /\ ~Attempt(kind, w, i).aborted
  BY WorkspaceAssumption DEF Attempt, AttemptType, Ids, None

\* A new attempt is nobody's session yet; the confirmation of a key resumes
\* the session that is pending.
LEMMA BeginsInv ==
  ASSUME AttemptsInv, DialogOK, NEW w \in Windows \ gone, OpenAi(w) \/ OpenTab(w) \/ Confirm(w)
  PROVE  AttemptsInv'
<1> USE DEF AttemptsInv
<1>1. PICK new \in Ids : begun' = new /\ new = begun + 1 /\ new > begun
  BY WorkspaceAssumption DEF OpenAi, OpenTab, Confirm, Ids, Typed
<1>2. PICK r \in AttemptType :
        /\ att' = [att EXCEPT ![new] = r] /\ r.win = w /\ ~r.aborted
        /\ \/ r.kind \in {"ai", "tab"} /\ r.stage = "stores" /\ r.session = new /\ sig' = sig
           \/ /\ r.kind \in {"aiKey", "tabKey"} /\ r.session = pend.session /\ r.prev = pend.id
              /\ IF pend = NoKey THEN r.stage = "down" /\ sig' = sig
                 ELSE r.stage = "trust" /\ sig' = [sig EXCEPT ![pend.id] = new]
  <2>1. ASSUME NEW kind \in {"ai", "tab"}
        PROVE  /\ Attempt(kind, w, new) \in AttemptType
               /\ Attempt(kind, w, new).kind = kind /\ Attempt(kind, w, new).win = w
               /\ Attempt(kind, w, new).stage = "stores"
               /\ Attempt(kind, w, new).session = new /\ ~Attempt(kind, w, new).aborted
    BY AttemptFacts
  <2>2. CASE OpenAi(w)
    BY <1>1, <2>1, <2>2 DEF OpenAi
  <2>3. CASE OpenTab(w)
    BY <1>1, <2>1, <2>3 DEF OpenTab
  <2>4. CASE Confirm(w)
    <3> DEFINE q == [kind |-> IF Waiting(w) THEN "aiKey" ELSE "tabKey", win |-> w,
                     stage |-> IF pend = NoKey THEN "down" ELSE "trust",
                     session |-> pend.session, aborted |-> FALSE, prev |-> pend.id,
                     shown |-> dialog[w]]
    <3>1. q \in AttemptType
      BY DEF AttemptType, Typed, DialogOK
    <3>2. /\ att' = [att EXCEPT ![new] = q]
          /\ sig' = IF pend = NoKey THEN sig ELSE [sig EXCEPT ![pend.id] = new]
      BY <2>4, <1>1 DEF Confirm
    <3>3. QED
      BY <3>1, <3>2
  <2>5. QED
    BY <2>2, <2>3, <2>4
<1>3. UNCHANGED <<pend, keys, line, tabs, gone, dropped>> /\ w \in Windows /\ w \notin gone
  BY DEF OpenAi, OpenTab, Confirm
<1>4. /\ att' \in [Ids -> AttemptType] /\ att'[new] = r
      /\ \A i \in Ids \ {new} : att'[i] = att[i]
  BY <1>1, <1>2 DEF Typed
<1>5. /\ MaxAttempts \in Nat /\ Ids = 1 .. MaxAttempts /\ Sessions = Ids /\ new # None
      /\ begun \in Nat
  BY <1>1, WorkspaceAssumption DEF Ids, Sessions, None, Typed
<1>6. /\ pend.session <= begun /\ line[new] = None
      /\ \A i \in Unfinished : att[i].session <= begun
      /\ pend # NoKey => pend.id \in Ids /\ pend.session # None
  <2>1. pend.session <= begun
    BY <1>5 DEF SessionsOK, NoKey, None
  <2>2. line[new] = None
    BY <1>1, <1>5 DEF SessionsOK
  <2>3. \A i \in Unfinished : att[i].session <= begun
    BY DEF AttemptsOK, AttemptOK
  <2>4. pend # NoKey => pend.id \in Ids /\ pend.session # None
    BY <1>5 DEF SessionsOK, Typed, None
  <2>5. QED
    BY <2>1, <2>2, <2>3, <2>4
<1>7. /\ sig' \in [Ids -> 0 .. MaxAttempts]
      /\ \A k \in Ids : sig[k] # None => sig'[k] # None
  <2>1. CASE sig' = sig
    BY <2>1 DEF Typed
  <2>2. CASE pend # NoKey /\ sig' = [sig EXCEPT ![pend.id] = new]
    <3>1. sig \in [Ids -> 0 .. MaxAttempts] /\ new \in 0 .. MaxAttempts /\ pend.id \in Ids
      BY <1>5, <1>6, <2>2 DEF Typed
    <3>2. QED
      BY <2>2, <3>1, <1>5
  <2>3. QED
    BY <1>2, <2>1, <2>2
<1>8. Typed'
  <2>1. begun' \in 0 .. MaxAttempts
    BY <1>1, <1>5
  <2>2. /\ keys' \in 0 .. MaxAttempts /\ gone' \subseteq Windows
        /\ line' \in [Sessions -> 0 .. MaxAttempts]
        /\ dropped' \in [Windows -> 0 .. MaxAttempts]
        /\ pend' \in [id : 0 .. MaxAttempts, session : 0 .. MaxAttempts]
    BY <1>3 DEF Typed
  <2>3. QED
    BY <2>1, <2>2, <1>4, <1>7 DEF Typed
<1>9. AttemptsOK'
  <2>1. ASSUME NEW i \in Ids, i > new
        PROVE  att'[i] = Unused
    BY <2>1, <1>1, <1>4, <1>5 DEF AttemptsOK
  <2>2. AttemptOK(new)'
    <3>1. CASE r.kind \in {"ai", "tab"} /\ r.stage = "stores" /\ r.session = new
      <4>1. att'[new].session <= begun' /\ att'[new].session # None /\ line'[new] = None
        BY <3>1, <1>1, <1>3, <1>4, <1>5, <1>6
      <4>2. QED
        BY <3>1, <4>1, <1>2, <1>3, <1>4 DEF AttemptOK, Own, IsConfirm
    <3>2. CASE r.kind \in {"aiKey", "tabKey"} /\ r.session = pend.session /\ pend = NoKey
      <4>1. r.stage = "down"
        BY <3>2, <1>2
      <4>2. att'[new].session <= begun'
        BY <3>2, <1>1, <1>4, <1>5, <1>6 DEF NoKey, None
      <4>3. QED
        BY <3>2, <4>1, <4>2, <1>2, <1>3, <1>4 DEF AttemptOK, Own, IsConfirm
    <3>3. CASE r.kind \in {"aiKey", "tabKey"} /\ r.session = pend.session /\ pend # NoKey
      <4>1. r.stage = "trust" /\ r.prev = pend.id /\ sig' = [sig EXCEPT ![pend.id] = new]
        BY <3>3, <1>2
      <4>2. sig'[pend.id] = new /\ pend.id \in Ids
        BY <3>3, <4>1, <1>6 DEF Typed
      <4>3. att'[new].session <= begun' /\ att'[new].session # None
        <5>1. pend.session \in Nat
          BY <1>5 DEF Typed
        <5>2. QED
          BY <3>3, <5>1, <1>1, <1>4, <1>5, <1>6
      <4>4. att'[new].prev \in Ids /\ sig'[att'[new].prev] # None
        BY <4>1, <4>2, <1>4, <1>5
      <4>5. QED
        BY <3>3, <4>1, <4>3, <4>4, <1>2, <1>3, <1>4 DEF AttemptOK, Own, IsConfirm
    <3>4. QED
      BY <1>2, <3>1, <3>2, <3>3
  <2>3. ASSUME NEW i \in Ids \ {new}, att'[i].stage \notin {"idle", "done"}
        PROVE  AttemptOK(i)'
    <3>1. AttemptOK(i) /\ att'[i] = att[i]
      BY <2>3, <1>4 DEF AttemptsOK, Unfinished
    <3>2. att[i].session \in Nat /\ att[i].session <= begun'
      BY <3>1, <1>1, <1>5 DEF Typed, AttemptType, AttemptOK
    <3>3. QED
      BY <3>1, <3>2, <1>3, <1>7 DEF AttemptOK, Own, IsConfirm
  <2>4. ASSUME NEW i \in Unfinished'
        PROVE  AttemptOK(i)'
    BY <2>2, <2>3 DEF Unfinished
  <2>5. ASSUME NEW i \in Ids, i > begun'
        PROVE  att'[i] = Unused
    BY <1>1, <2>1, <2>5
  <2>6. QED
    BY <2>4, <2>5 DEF AttemptsOK
<1>10. SessionsOK'
  BY <1>1, <1>3, <1>5 DEF SessionsOK, Typed
<1>11. FreshOK'
  <2>1. ASSUME NEW i \in Ids, Fresh(i)'
        PROVE  /\ i \notin tabs /\ pend.session # i
               /\ \A j \in Ids : j \in Unfinished' /\ IsConfirm(j)' => att'[j].session # i
    <3>1. CASE i = new
      <4>1. i \notin tabs /\ pend.session # i
        BY <1>1, <1>5, <1>6, <3>1 DEF SessionsOK, Typed
      <4>2. ~IsConfirm(i)'
        BY <2>1, <3>1 DEF Fresh, Own, IsConfirm
      <4>3. \A j \in Unfinished : att[j].session # i
        <5>1. \A j \in Ids : att[j].session \in Nat
          BY <1>5 DEF Typed, AttemptType
        <5>2. QED
          BY <5>1, <1>1, <1>5, <1>6, <3>1 DEF Unfinished
      <4>4. QED
        BY <4>1, <4>2, <4>3, <3>1, <1>4 DEF Unfinished, IsConfirm
    <3>2. CASE i # new
      <4>1. Fresh(i)
        BY <2>1, <3>2, <1>4 DEF Fresh, Own
      <4>2. i \notin tabs /\ pend.session # i /\ \A j \in Unfinished : IsConfirm(j) => att[j].session # i
        BY <4>1 DEF FreshOK
      <4>3. IsConfirm(new)' => att'[new].session # i
        <5>1. CASE r.kind \in {"ai", "tab"}
          BY <5>1, <1>4 DEF IsConfirm
        <5>2. CASE r.session = pend.session
          BY <5>2, <4>2, <1>4
        <5>3. QED
          BY <5>1, <5>2, <1>2
      <4>4. ASSUME NEW j \in Ids \ {new}, j \in Unfinished', IsConfirm(j)'
            PROVE  att'[j].session # i
        <5>1. att'[j] = att[j] /\ j \in Unfinished /\ IsConfirm(j)
          BY <4>4, <1>4 DEF Unfinished, IsConfirm
        <5>2. QED
          BY <5>1, <4>2
      <4>5. QED
        BY <4>2, <4>3, <4>4
    <3>3. QED
      BY <3>1, <3>2
  <2>2. QED
    BY <2>1, <1>3 DEF FreshOK, Unfinished
<1>12. AbortedOK'
  <2>1. ASSUME NEW i \in Ids, i \in Unfinished',
               att'[i].win \in gone \/ (IsAi(i)' /\ i <= dropped[att'[i].win])
        PROVE  att'[i].aborted
    <3>1. i # new
      <4>1. dropped[w] \in Nat /\ dropped[w] <= begun
        BY <1>3, <1>5 DEF SessionsOK, Typed
      <4>2. QED
        BY <2>1, <4>1, <1>1, <1>2, <1>3, <1>4, <1>5
    <3>2. QED
      BY <2>1, <3>1, <1>4 DEF AbortedOK, Unfinished, IsAi
  <2>2. QED
    BY <2>1, <1>3 DEF AbortedOK, Unfinished
<1>13. QED
  BY <1>8, <1>9, <1>10, <1>11, <1>12

\* What the attempts on their way have in common: each keeps what it is and may
\* move from its stores or its key to the handshake, and from there to an end.
Proceeds ==
  /\ att' \in [Ids -> AttemptType]
  /\ \A i \in Ids :
       /\ Similar(att'[i], att[i]) /\ (att[i].aborted => att'[i].aborted)
       /\ \/ att'[i].stage = att[i].stage
          \/ /\ att[i].stage \in {"stores", "trust", "dial"}
             /\ att'[i].stage \in {"dial", "up", "down"}
       /\ att[i].stage \in {"idle", "done"} => att'[i] = att[i]
       /\ att'[i].stage = "dial" => line'[att[i].session] # None
       /\ att'[i].stage = "stores" => line'[i] = None
  /\ line' \in [Sessions -> 0 .. MaxAttempts]
  /\ \A s \in Sessions : line'[s] # None => s <= begun
  /\ UNCHANGED <<begun, gone, dropped>> /\ tabs' \subseteq tabs

LEMMA ProceedsInv ==
  ASSUME AttemptsInv, Proceeds,
         keys' \in 0 .. MaxAttempts, sig' \in [Ids -> 0 .. MaxAttempts],
         \A k \in Ids : sig[k] # None => sig'[k] # None,
         pend' \in [id : 0 .. MaxAttempts, session : 0 .. MaxAttempts],
         pend' = NoKey \/ (pend'.id \in 1 .. keys' /\ pend'.session \in 1 .. begun),
         \A i \in Ids : Fresh(i)' => pend' = pend \/ pend'.session # i
  PROVE  AttemptsInv'
<1> USE DEF AttemptsInv
<1>1. \A i \in Ids : /\ Similar(att'[i], att[i]) /\ (att[i].aborted => att'[i].aborted)
                     /\ i \in Unfinished' => i \in Unfinished
                     /\ Own(i)' = Own(i) /\ IsConfirm(i)' = IsConfirm(i)
                     /\ IsAi(i)' = IsAi(i)
  BY DEF Proceeds, Unfinished, Similar, Own, IsConfirm, IsAi
<1>2. UNCHANGED <<begun, gone, dropped>> /\ tabs' \subseteq tabs
  BY DEF Proceeds
<1>3. Typed'
  BY <1>2 DEF Proceeds, Typed
<1>4. AttemptsOK'
  <2>1. ASSUME NEW i \in Ids, i > begun'
        PROVE  att'[i] = Unused
    BY <2>1, <1>2 DEF AttemptsOK, Proceeds, Unused
  <2>2. ASSUME NEW i \in Ids, i \in Unfinished'
        PROVE  AttemptOK(i)'
    <3>1. AttemptOK(i) /\ Similar(att'[i], att[i])
      BY <1>1, <2>2 DEF AttemptsOK
    <3>2. /\ att'[i].stage = "dial" => line'[att[i].session] # None
          /\ att'[i].stage = "stores" => line'[i] = None /\ att[i].stage = "stores"
          /\ att'[i].stage = "trust" => att[i].stage = "trust"
          /\ att'[i].stage # "down" => att[i].stage # "down"
      BY DEF Proceeds
    <3>3. QED
      BY <1>1, <1>2, <3>1, <3>2 DEF AttemptOK, Similar
  <2>3. QED
    BY <2>1, <2>2 DEF AttemptsOK, Unfinished
<1>5. SessionsOK'
  BY <1>2 DEF SessionsOK, Proceeds
<1>6. FreshOK'
  <2>1. ASSUME NEW i \in Ids, Fresh(i)'
        PROVE  /\ i \notin tabs' /\ pend'.session # i
               /\ \A j \in Ids : j \in Unfinished' /\ IsConfirm(j)' => att'[j].session # i
    <3>1. i \in Unfinished' /\ i \in Unfinished /\ Own(i)
      BY <2>1, <1>1 DEF Fresh, Unfinished
    <3>2. Fresh(i)
      BY <2>1, <3>1 DEF Fresh, Proceeds, AttemptsOK, AttemptOK
    <3>3. /\ i \notin tabs /\ pend.session # i
          /\ \A j \in Unfinished : IsConfirm(j) => att[j].session # i
      BY <3>2 DEF FreshOK
    <3>4. pend'.session # i
      BY <2>1, <3>3
    <3>5. QED
      BY <1>1, <1>2, <3>3, <3>4 DEF Similar
  <2>2. QED
    BY <2>1 DEF FreshOK, Unfinished
<1>7. AbortedOK'
  <2>1. ASSUME NEW i \in Ids, i \in Unfinished',
               att'[i].win \in gone' \/ (IsAi(i)' /\ i <= dropped'[att'[i].win])
        PROVE  att'[i].aborted
    BY <2>1, <1>1, <1>2 DEF AbortedOK, Similar
  <2>2. QED
    BY <2>1 DEF AbortedOK, Unfinished
<1>8. QED
  BY <1>3, <1>4, <1>5, <1>6, <1>7

\* A record at another stage.
LEMMA Staged ==
  ASSUME NEW r \in AttemptType, NEW to \in {"dial", "up", "down"}
  PROVE  /\ [r EXCEPT !.stage = to] \in AttemptType
         /\ Similar([r EXCEPT !.stage = to], r)
         /\ [r EXCEPT !.stage = to].aborted = r.aborted
         /\ [r EXCEPT !.stage = to].stage = to
BY DEF AttemptType, Similar

\* What an attempt at work knows of its session and of the handshakes.
LEMMA AtWork ==
  ASSUME AttemptsInv
  PROVE  /\ att \in [Ids -> AttemptType] /\ line \in [Sessions -> 0 .. MaxAttempts]
         /\ Sessions = Ids /\ Ids \subseteq Nat /\ None \notin Ids
         /\ \A s \in Sessions : line[s] # None => s <= begun
         /\ \A i \in Ids : att[i].stage = "dial" => line[att[i].session] # None
         /\ \A i \in Ids : att[i].stage = "stores" =>
              att[i].session = i /\ line[i] = None /\ i <= begun /\ Fresh(i)
         /\ \A i \in Ids : att[i].stage \in {"trust", "dial", "up"} =>
              att[i].session \in Sessions /\ att[i].session <= begun
         /\ \A i \in Ids : att[i].stage = "trust" =>
              /\ IsConfirm(i) /\ att[i].prev \in Ids /\ sig[att[i].prev] # None
              /\ \A j \in Ids : Fresh(j) => att[i].session # j
<1>1. Typed /\ AttemptsOK /\ FreshOK
  BY DEF AttemptsInv
<1>2. /\ att \in [Ids -> AttemptType] /\ line \in [Sessions -> 0 .. MaxAttempts]
      /\ Sessions = Ids /\ Ids \subseteq Nat /\ None \notin Ids
      /\ \A i \in Ids : att[i].session \in 0 .. MaxAttempts
      /\ \A i \in Ids : i \in 0 .. MaxAttempts
      /\ \A i \in 0 .. MaxAttempts : i # None => i \in Ids
  BY <1>1, WorkspaceAssumption DEF Typed, Sessions, Ids, None, AttemptType
<1>3. \A i \in Ids : att[i].stage \in {"stores", "trust", "dial", "up"} => AttemptOK(i)
  BY <1>1 DEF AttemptsOK, Unfinished
<1>4. \A s \in Sessions : line[s] # None => s <= begun
  BY DEF AttemptsInv, SessionsOK
<1>5. ASSUME NEW i \in Ids, att[i].stage = "stores"
      PROVE  att[i].session = i /\ line[i] = None /\ i <= begun /\ Fresh(i)
  BY <1>3, <1>5 DEF AttemptOK, Fresh
<1>6. ASSUME NEW i \in Ids, att[i].stage = "dial"
      PROVE  line[att[i].session] # None
  BY <1>3, <1>6 DEF AttemptOK
<1>7. ASSUME NEW i \in Ids, att[i].stage \in {"trust", "dial", "up"}
      PROVE  att[i].session \in Sessions /\ att[i].session <= begun
  BY <1>2, <1>3, <1>7 DEF AttemptOK
<1>8. ASSUME NEW i \in Ids, att[i].stage = "trust"
      PROVE  /\ IsConfirm(i) /\ att[i].prev \in Ids /\ sig[att[i].prev] # None
             /\ \A j \in Ids : Fresh(j) => att[i].session # j
  <2>1. IsConfirm(i) /\ att[i].prev \in Ids /\ sig[att[i].prev] # None /\ i \in Unfinished
    BY <1>3, <1>8 DEF AttemptOK, Unfinished
  <2>2. QED
    BY <1>1, <2>1 DEF FreshOK
<1>9. QED
  BY <1>2, <1>4, <1>5, <1>6, <1>7, <1>8

\* The handshake of an attempt starts.
LEMMA DialInv ==
  ASSUME AttemptsInv, NEW i \in Ids, Dial(i)
  PROVE  AttemptsInv'
<1>1. /\ att \in [Ids -> AttemptType] /\ line \in [Sessions -> 0 .. MaxAttempts]
      /\ Sessions = Ids /\ None \notin Ids
      /\ \A s \in Sessions : line[s] # None => s <= begun
      /\ \A j \in Ids : att[j].stage = "dial" => line[att[j].session] # None
      /\ \A j \in Ids : att[j].stage = "stores" => line[j] = None
      /\ att[i].session = i /\ i <= begun
  BY AtWork DEF Dial
<1>2. /\ att' = [att EXCEPT ![i].stage = "dial"] /\ att[i].stage = "stores"
      /\ line' = [line EXCEPT ![i] = i]
      /\ UNCHANGED <<pend, sig, keys, begun, tabs, gone, dropped>>
  BY <1>1 DEF Dial
<1>3. /\ [att[i] EXCEPT !.stage = "dial"] \in AttemptType
      /\ Similar([att[i] EXCEPT !.stage = "dial"], att[i])
      /\ [att[i] EXCEPT !.stage = "dial"].aborted = att[i].aborted
      /\ [att[i] EXCEPT !.stage = "dial"].stage = "dial"
  BY <1>1, Staged
<1>4. /\ att' \in [Ids -> AttemptType] /\ att'[i] = [att[i] EXCEPT !.stage = "dial"]
      /\ \A j \in Ids \ {i} : att'[j] = att[j]
  BY <1>1, <1>2, <1>3
<1>5. /\ line' \in [Sessions -> 0 .. MaxAttempts]
      /\ line'[i] = i /\ \A s \in Sessions \ {i} : line'[s] = line[s]
  BY <1>1, <1>2, WorkspaceAssumption DEF Ids
<1>6. Proceeds
  <2>1. \A j \in Ids \ {i} : Similar(att'[j], att[j])
    BY <1>4 DEF Similar
  <2>2. ASSUME NEW j \in Ids, att'[j].stage = "dial"
        PROVE  line'[att[j].session] # None
    <3>1. CASE j = i
      BY <1>1, <1>5, <3>1
    <3>2. CASE j # i
      <4>1. att[j].stage = "dial" /\ att[j].session \in Sessions
        BY <1>4, <2>2, <3>2, AtWork
      <4>2. QED
        BY <4>1, <1>1, <1>5
    <3>3. QED
      BY <3>1, <3>2
  <2>3. \A j \in Ids : att'[j].stage = "stores" => line'[j] = None
    BY <1>1, <1>3, <1>4, <1>5
  <2>4. QED
    BY <1>1, <1>2, <1>3, <1>4, <1>5, <2>1, <2>2, <2>3 DEF Proceeds
<1>7. QED
  BY <1>2, <1>6, ProceedsInv DEF AttemptsInv, Typed, SessionsOK

\* A confirmed key lets the failed session resume, with the signal of its
\* callbacks, or share the handshake that resumes it.
LEMMA TrustedInv ==
  ASSUME AttemptsInv, NEW i \in Ids, Trusted(i)
  PROVE  AttemptsInv'
<1> DEFINE by == sig[att[i].prev]
<1>1. PICK s \in Sessions : s = att[i].session
  BY AtWork DEF Trusted
<1>2. /\ att \in [Ids -> AttemptType] /\ line \in [Sessions -> 0 .. MaxAttempts]
      /\ Sessions = Ids /\ None \notin Ids /\ s <= begun
      /\ \A q \in Sessions : line[q] # None => q <= begun
      /\ \A j \in Ids : att[j].stage = "dial" =>
           line[att[j].session] # None /\ att[j].session \in Sessions
      /\ \A j \in Ids : att[j].stage = "stores" => line[j] = None /\ j # s
      /\ by \in 0 .. MaxAttempts /\ by # None /\ att[i].stage = "trust"
  <2>1. Typed /\ att[i].stage = "trust"
    BY DEF Trusted, AttemptsInv
  <2>2. att[i].prev \in Ids /\ sig[att[i].prev] # None
    BY <2>1, AtWork
  <2>3. by \in 0 .. MaxAttempts
    BY <2>1, <2>2 DEF Typed
  <2>4. \A j \in Ids : att[j].stage = "stores" => line[j] = None /\ j # s
    BY <1>1, <2>1, AtWork
  <2>5. QED
    BY <1>1, <2>1, <2>2, <2>3, <2>4, AtWork
<1>3. UNCHANGED <<sig, keys, begun, gone, dropped>> /\ pend' = NoKey /\ tabs' \subseteq tabs
  BY DEF Trusted
<1> HIDE DEF by
<1>4. PICK to \in {"dial", "down"} :
        /\ att' = [att EXCEPT ![i].stage = to]
        /\ \/ line[s] # None /\ line' = line /\ to = "dial"
           \/ line[s] = None /\ to = "down" /\ line' = [line EXCEPT ![s] = None]
           \/ line[s] = None /\ to = "dial" /\ line' = [line EXCEPT ![s] = by]
  BY <1>1 DEF Trusted, by
<1>5. /\ [att[i] EXCEPT !.stage = to] \in AttemptType
      /\ Similar([att[i] EXCEPT !.stage = to], att[i])
      /\ [att[i] EXCEPT !.stage = to].aborted = att[i].aborted
      /\ [att[i] EXCEPT !.stage = to].stage = to
  <2>1. att[i] \in AttemptType /\ to \in {"dial", "up", "down"}
    BY <1>2
  <2>2. QED
    BY <2>1, Staged
<1>6. /\ att' \in [Ids -> AttemptType] /\ att'[i] = [att[i] EXCEPT !.stage = to]
      /\ \A j \in Ids \ {i} : att'[j] = att[j]
  BY <1>2, <1>4, <1>5
<1>7. /\ line' \in [Sessions -> 0 .. MaxAttempts]
      /\ \A q \in Sessions \ {s} : line'[q] = line[q]
      /\ line[s] # None => line'[s] = line[s]
      /\ to = "dial" => line'[s] # None
  <2>1. None \in 0 .. MaxAttempts
    BY WorkspaceAssumption DEF None
  <2>2. QED
    BY <1>2, <1>4, <2>1
<1>8. Proceeds
  <2>1. \A j \in Ids \ {i} : Similar(att'[j], att[j])
    BY <1>6 DEF Similar
  <2>2. ASSUME NEW j \in Ids, att'[j].stage = "dial"
        PROVE  line'[att[j].session] # None
    <3>1. CASE j = i
      BY <1>1, <1>5, <1>6, <1>7, <2>2, <3>1
    <3>2. CASE j # i
      <4>1. line[att[j].session] # None /\ att[j].session \in Sessions
        BY <1>2, <1>6, <2>2, <3>2
      <4>2. QED
        BY <4>1, <1>7
    <3>3. QED
      BY <3>1, <3>2
  <2>3. \A j \in Ids : att'[j].stage = "stores" => line'[j] = None
    BY <1>2, <1>5, <1>6, <1>7
  <2>4. \A q \in Sessions : line'[q] # None => q <= begun
    BY <1>2, <1>7
  <2>5. QED
    <3>1. att'[i].stage \in {"dial", "down"} /\ (att[i].aborted => att'[i].aborted)
      BY <1>4, <1>5, <1>6
    <3>2. \A j \in Ids :
            /\ Similar(att'[j], att[j]) /\ (att[j].aborted => att'[j].aborted)
            /\ \/ att'[j].stage = att[j].stage
               \/ /\ att[j].stage \in {"stores", "trust", "dial"}
                  /\ att'[j].stage \in {"dial", "up", "down"}
            /\ att[j].stage \in {"idle", "done"} => att'[j] = att[j]
      BY <1>2, <1>5, <1>6, <2>1, <3>1
    <3>3. QED
      BY <1>3, <1>6, <1>7, <2>2, <2>3, <2>4, <3>2 DEF Proceeds
<1>9. NoKey \in [id : 0 .. MaxAttempts, session : 0 .. MaxAttempts] /\ NoKey.session = None
  BY WorkspaceAssumption DEF NoKey, None
<1>10. QED
  BY <1>2, <1>3, <1>8, <1>9, ProceedsInv DEF AttemptsInv, Typed

\* A handshake ends for all who wait for it; a key it failed on is new.
LEMMA LineInv ==
  ASSUME AttemptsInv, NEW s \in Sessions, Line(s)
  PROVE  AttemptsInv'
<1>1. /\ att \in [Ids -> AttemptType] /\ line \in [Sessions -> 0 .. MaxAttempts]
      /\ Sessions = Ids /\ Ids \subseteq Nat /\ None \notin Ids /\ s <= begun /\ line[s] # None
      /\ \A q \in Sessions : line[q] # None => q <= begun
      /\ \A j \in Ids : att[j].stage = "dial" =>
           line[att[j].session] # None /\ att[j].session \in Sessions
      /\ \A j \in Ids : att[j].stage = "stores" => line[j] = None
      /\ Quiet
  BY AtWork DEF Line, ComesUp, GoesDown
<1>2. Typed /\ SessionsOK
  BY DEF AttemptsInv
<1>3. PICK to \in {"up", "down"} :
        /\ att' = [j \in Ids |-> IF att[j].stage = "dial" /\ att[j].session = s
                                 THEN [att[j] EXCEPT !.stage = to] ELSE att[j]]
        /\ line' = [line EXCEPT ![s] = None]
        /\ UNCHANGED <<begun, tabs, gone, dropped>>
        /\ \/ UNCHANGED <<pend, sig, keys>>
           \/ /\ to = "down" /\ keys < MaxAttempts /\ keys' = keys + 1
              /\ pend' = [id |-> keys', session |-> s]
              /\ sig' = [sig EXCEPT ![keys'] = line[s]]
  <2>1. CASE ComesUp(s)
    BY <2>1 DEF ComesUp
  <2>2. CASE GoesDown(s)
    <3>1. Cut(att, {s}) = [j \in Ids |-> IF att[j].stage = "dial" /\ att[j].session = s
                                         THEN [att[j] EXCEPT !.stage = "down"] ELSE att[j]]
      BY DEF Cut
    <3>2. QED
      BY <2>2, <3>1 DEF GoesDown
  <2>3. QED
    BY <2>1, <2>2 DEF Line
<1>4. ASSUME NEW j \in Ids
      PROVE  /\ att'[j] \in AttemptType /\ Similar(att'[j], att[j])
             /\ att'[j].aborted = att[j].aborted
             /\ att[j].stage = "dial" /\ att[j].session = s => att'[j].stage = to
             /\ ~(att[j].stage = "dial" /\ att[j].session = s) => att'[j] = att[j]
  <2>1. att[j] \in AttemptType /\ Similar(att[j], att[j])
    BY <1>1 DEF Similar
  <2>2. /\ [att[j] EXCEPT !.stage = to] \in AttemptType
        /\ Similar([att[j] EXCEPT !.stage = to], att[j])
        /\ [att[j] EXCEPT !.stage = to].aborted = att[j].aborted
        /\ [att[j] EXCEPT !.stage = to].stage = to
    BY <2>1, Staged
  <2>3. QED
    BY <1>3, <2>1, <2>2
<1>5. /\ line' \in [Sessions -> 0 .. MaxAttempts] /\ line'[s] = None
      /\ \A q \in Sessions \ {s} : line'[q] = line[q]
  <2>1. None \in 0 .. MaxAttempts
    BY WorkspaceAssumption DEF None
  <2>2. QED
    BY <1>1, <1>3, <2>1
<1>6. Proceeds
  <2>1. att' \in [Ids -> AttemptType]
    BY <1>3, <1>4
  <2>2. ASSUME NEW j \in Ids, att'[j].stage = "dial"
        PROVE  line'[att[j].session] # None
    <3>1. att[j].stage = "dial" /\ att[j].session # s
      BY <1>4, <2>2
    <3>2. QED
      BY <1>1, <1>5, <3>1
  <2>3. ASSUME NEW j \in Ids, att'[j].stage = "stores"
        PROVE  line'[j] = None
    <3>1. att[j].stage = "stores"
      BY <1>4, <2>3
    <3>2. QED
      BY <1>1, <1>5, <3>1
  <2>4. \A q \in Sessions : line'[q] # None => q <= begun
    BY <1>1, <1>5
  <2>5. QED
    BY <1>3, <1>4, <1>5, <2>1, <2>2, <2>3, <2>4 DEF Proceeds
<1>7. CASE UNCHANGED <<pend, sig, keys>>
  BY <1>2, <1>3, <1>6, <1>7, ProceedsInv DEF Typed, SessionsOK
<1>8. CASE /\ to = "down" /\ keys < MaxAttempts /\ keys' = keys + 1
           /\ pend' = [id |-> keys', session |-> s]
           /\ sig' = [sig EXCEPT ![keys'] = line[s]]
  <2>1. /\ keys' \in 0 .. MaxAttempts /\ keys' \in Ids /\ keys' \in 1 .. keys'
        /\ s \in 0 .. MaxAttempts /\ s \in 1 .. begun
    BY <1>1, <1>2, <1>8, WorkspaceAssumption DEF Typed, Ids, Sessions
  <2>2. /\ sig' \in [Ids -> 0 .. MaxAttempts]
        /\ \A k \in Ids : sig[k] # None => sig'[k] # None
    <3>1. sig \in [Ids -> 0 .. MaxAttempts] /\ line[s] \in 0 .. MaxAttempts
      BY <1>1, <1>2 DEF Typed
    <3>2. QED
      BY <1>1, <1>8, <2>1, <3>1
  <2>3. pend' \in [id : 0 .. MaxAttempts, session : 0 .. MaxAttempts]
        /\ pend'.id = keys' /\ pend'.session = s
    BY <1>8, <2>1
  <2>4. ASSUME NEW j \in Ids, Fresh(j)'
        PROVE  j # s
    <3>1. CASE att'[j].stage = "stores"
      BY <1>1, <1>4, <3>1
    <3>2. CASE att'[j].stage \in {"dial", "up"}
      <4>1. att[j].stage = "dial"
        BY <1>1, <1>4, <1>8, <3>2 DEF Quiet, Due
      <4>2. Own(j) /\ j \in Unfinished
        BY <1>4, <2>4, <4>1 DEF Fresh, Own, Similar, Unfinished
      <4>3. att[j].session = j
        BY <4>2 DEF AttemptsInv, AttemptsOK, AttemptOK
      <4>4. QED
        BY <1>4, <1>8, <3>2, <4>1, <4>3
    <3>3. QED
      BY <2>4, <3>1, <3>2 DEF Fresh
  <2>5. QED
    <3>1. pend' = NoKey \/ (pend'.id \in 1 .. keys' /\ pend'.session \in 1 .. begun)
      BY <2>1, <2>3
    <3>2. \A j \in Ids : Fresh(j)' => pend'.session # j
      BY <2>3, <2>4
    <3>3. QED
      BY <1>6, <2>1, <2>2, <2>3, <3>1, <3>2, ProceedsInv
<1>9. QED
  BY <1>3, <1>7, <1>8

-----------------------------------------------------------------------------
(* Entries, sessions, owners and questions.                                *)

EntryType ==
  [opener : 0 .. MaxAttempts, session : 0 .. MaxAttempts, opening : BOOLEAN]

\* The session of an entry is live.  (EntriesAreLive looks only between
\* handlers; this holds within them too.)
EntriesOK ==
  /\ entry \in [Windows -> EntryType]
  /\ \A w \in Windows : entry[w].session # None => entry[w].session \in live

LiveOK ==
  /\ live \subseteq Sessions /\ tabs \subseteq live
  /\ owner \in [Sessions -> Windows \cup {None}]

\* A destroyed window owns nothing, whatever runs.
GoneOK ==
  /\ \A s \in Sessions : owner[s] \notin gone
  /\ \A w \in gone : entry[w] = NoEntry

StateInv == EntriesOK /\ LiveOK /\ DialogOK /\ GoneOK

LEMMA EntryFacts ==
  /\ NoEntry \in EntryType /\ NoEntry.session = None
  /\ \A i \in Ids : NoEntry.opener # i
  /\ \A i \in Ids : \A s \in Sessions :
       [opener |-> i, session |-> s, opening |-> FALSE] \in EntryType
  /\ \A i \in Ids : [opener |-> i, session |-> None, opening |-> TRUE] \in EntryType
  /\ \A e \in EntryType : [e EXCEPT !.opening = FALSE] \in EntryType
  /\ \A e \in EntryType : \A s \in Sessions : [e EXCEPT !.session = s] \in EntryType
<1>1. /\ None \in 0 .. MaxAttempts
      /\ \A i \in Ids : i \in 0 .. MaxAttempts /\ i # None
      /\ Sessions = Ids
  BY WorkspaceAssumption DEF None, Ids, Sessions
<1>2. ASSUME NEW e \in EntryType, NEW s \in 0 .. MaxAttempts
      PROVE  [e EXCEPT !.opening = FALSE] \in EntryType /\ [e EXCEPT !.session = s] \in EntryType
  BY DEF EntryType
<1>3. ASSUME NEW i \in 0 .. MaxAttempts, NEW s \in 0 .. MaxAttempts, NEW b \in BOOLEAN
      PROVE  [opener |-> i, session |-> s, opening |-> b] \in EntryType
  BY DEF EntryType
<1>4. NoEntry \in EntryType /\ NoEntry.session = None /\ NoEntry.opener = None
  BY <1>1, <1>3 DEF NoEntry
<1>5. QED
  BY <1>1, <1>2, <1>3, <1>4

\* Sessions that end take their entries along and leave the others.
LEMMA ClosedFacts ==
  ASSUME NEW e \in [Windows -> EntryType], NEW S
  PROVE  /\ Closed(e, S) \in [Windows -> EntryType]
         /\ \A w \in Windows : Closed(e, S)[w] \in {e[w], NoEntry}
         /\ \A w \in Windows : Closed(e, S)[w].session # None =>
              Closed(e, S)[w] = e[w] /\ e[w].session \notin S
BY EntryFacts DEF Closed

\* What every step must show of the four parts.
LEMMA StateStep ==
  ASSUME StateInv, AttemptsInv, EntriesOK',
         gone' = gone,
         \A w \in gone : entry'[w] = NoEntry,
         live' \subseteq Sessions, tabs' \subseteq live',
         owner' \in [Sessions -> Windows \cup {None}],
         \A s \in Sessions : owner'[s] \in {owner[s], None} \/ owner'[s] \notin gone,
         DialogOK'
  PROVE  StateInv'
<1>1. None \notin gone
  BY WorkspaceAssumption DEF AttemptsInv, Typed, None
<1>2. QED
  BY <1>1 DEF StateInv, LiveOK, GoneOK

\* Requests of a window that is there.
LEMMA StateRequests ==
  ASSUME StateInv, AttemptsInv, NEW w \in Windows,
         \/ OpenAi(w) \/ OpenTab(w) \/ Confirm(w) \/ CancelAi(w)
         \/ Reject(w) \/ CancelTab(w) \/ CloseAi(w) \/ Destroy(w)
         \/ \E s \in Sessions : Disconnect(w, s)
  PROVE  StateInv'
<1>1. /\ entry \in [Windows -> EntryType]
      /\ \A v \in Windows : entry[v].session # None => entry[v].session \in live
      /\ dialog \in [Windows -> {"none", "ai", "tab"}]
      /\ live \subseteq Sessions /\ tabs \subseteq live
      /\ owner \in [Sessions -> Windows \cup {None}] /\ gone \subseteq Windows
      /\ \A s \in Sessions : owner[s] \notin gone
      /\ \A v \in gone : entry[v] = NoEntry
      /\ None \notin Windows
  BY WorkspaceAssumption DEF StateInv, EntriesOK, LiveOK, DialogOK, GoneOK, AttemptsInv, Typed, None
<1>2. CASE OpenAi(w)
  <2>1. begun + 1 \in Ids
    BY <1>2, WorkspaceAssumption DEF OpenAi, Ids, AttemptsInv, Typed
  <2>2. [opener |-> begun + 1, session |-> None, opening |-> TRUE] \in EntryType
    BY <2>1, EntryFacts
  <2>3. /\ w \notin gone /\ UNCHANGED <<gone, live, tabs, owner, dialog>>
        /\ entry' = [entry EXCEPT ![w] =
                       [opener |-> begun + 1, session |-> None, opening |-> TRUE]]
    BY <1>2 DEF OpenAi
  <2>4. EntriesOK' /\ \A v \in gone : entry'[v] = NoEntry
    BY <1>1, <2>2, <2>3 DEF EntriesOK
  <2>5. QED
    BY <1>1, <2>3, <2>4, StateStep DEF DialogOK
<1>3. CASE OpenTab(w) \/ Confirm(w) \/ CancelTab(w)
  <2>1. /\ UNCHANGED <<entry, gone, live, tabs, owner>>
        /\ dialog' = dialog \/ dialog' = [dialog EXCEPT ![w] = "none"]
    BY <1>3 DEF OpenTab, Confirm, CancelTab
  <2>2. DialogOK'
    BY <1>1, <2>1 DEF DialogOK
  <2>3. QED
    BY <1>1, <2>1, <2>2, StateStep DEF EntriesOK
<1>4. CASE CancelAi(w) \/ Reject(w)
  <2>1. /\ entry' = entry \/ entry' = [entry EXCEPT ![w] = NoEntry]
        /\ UNCHANGED <<gone, live, tabs, owner>>
        /\ dialog' = dialog \/ dialog' = [dialog EXCEPT ![w] = "none"]
    BY <1>4 DEF CancelAi, Reject, CancelEntry
  <2>2. DialogOK'
    BY <1>1, <2>1 DEF DialogOK
  <2>3. EntriesOK' /\ \A v \in gone : entry'[v] = NoEntry
    BY <1>1, <2>1, EntryFacts DEF EntriesOK
  <2>4. QED
    BY <1>1, <2>1, <2>2, <2>3, StateStep
<1>5. CASE CloseAi(w)
  <2>1. PICK s \in live : s = entry[w].session
    BY <1>5 DEF CloseAi
  <2>2. /\ entry' = Closed(entry, {s}) /\ live' = live \ {s} /\ tabs' = tabs \ {s}
        /\ owner' = [owner EXCEPT ![s] = None] /\ UNCHANGED <<gone, dialog>>
    BY <1>5, <2>1 DEF CloseAi
  <2>3. EntriesOK' /\ \A v \in gone : entry'[v] = NoEntry
    BY <1>1, <2>2, ClosedFacts DEF EntriesOK
  <2>4. /\ owner' \in [Sessions -> Windows \cup {None}]
        /\ \A q \in Sessions : owner'[q] \in {owner[q], None}
    BY <1>1, <2>2
  <2>5. QED
    BY <1>1, <2>2, <2>3, <2>4, StateStep DEF DialogOK
<1>6. CASE Destroy(w)
  <2> DEFINE own == {s \in Sessions : owner[s] = w} \cup ({entry[w].session} \ {None})
  <2>1. /\ entry' = [Closed(entry, own) EXCEPT ![w] = NoEntry] /\ gone' = gone \cup {w}
        /\ live' = live \ own /\ tabs' = tabs \ own
        /\ owner' = [s \in Sessions |-> IF s \in own THEN None ELSE owner[s]]
        /\ dialog' = [dialog EXCEPT ![w] = "none"]
    BY <1>6 DEF Destroy
  <2>2. \A s \in Sessions : owner[s] = w => s \in own
    OBVIOUS
  <2> HIDE DEF own
  <2>3. EntriesOK' /\ \A v \in gone \cup {w} : entry'[v] = NoEntry
    BY <1>1, <2>1, ClosedFacts, EntryFacts DEF EntriesOK
  <2>4. LiveOK'
    BY <1>1, <2>1 DEF LiveOK
  <2>5. \A s \in Sessions : owner'[s] \notin gone \cup {w}
    BY <1>1, <2>1, <2>2
  <2>6. DialogOK'
    BY <1>1, <2>1 DEF DialogOK
  <2>7. QED
    BY <2>1, <2>3, <2>4, <2>5, <2>6 DEF StateInv, GoneOK
<1>7. ASSUME NEW s \in Sessions, Disconnect(w, s)
      PROVE  StateInv'
  <2>1. /\ entry' = Closed(entry, {s}) /\ live' = live \ {s} /\ tabs' = tabs \ {s}
        /\ owner' = [owner EXCEPT ![s] = None] /\ UNCHANGED <<gone, dialog>>
    BY <1>7 DEF Disconnect
  <2>2. EntriesOK' /\ \A v \in gone : entry'[v] = NoEntry
    BY <1>1, <2>1, ClosedFacts DEF EntriesOK
  <2>3. /\ owner' \in [Sessions -> Windows \cup {None}]
        /\ \A q \in Sessions : owner'[q] \in {owner[q], None}
    BY <1>1, <2>1
  <2>4. QED
    BY <1>1, <2>1, <2>2, <2>3, StateStep DEF DialogOK
<1>8. QED
  BY <1>2, <1>3, <1>4, <1>5, <1>6, <1>7

\* Attempts on their way, and sessions that end.
LEMMA StateAttempts ==
  ASSUME StateInv, AttemptsInv, NEW i \in Ids, Early(i) \/ Line(i) \/ SessionEnds(i)
  PROVE  StateInv'
<1>1. /\ entry \in [Windows -> EntryType] /\ DialogOK
      /\ \A v \in Windows : entry[v].session # None => entry[v].session \in live
      /\ live \subseteq Sessions /\ tabs \subseteq live /\ Sessions = Ids
      /\ owner \in [Sessions -> Windows \cup {None}] /\ gone \subseteq Windows
      /\ \A v \in gone : entry[v] = NoEntry
  BY DEF StateInv, EntriesOK, LiveOK, GoneOK, AttemptsInv, Typed, Sessions
<1>2. UNCHANGED <<gone, dialog>>
  BY DEF Early, Dial, FailsEarly, Trusted, Line, ComesUp, GoesDown, SessionEnds
<1>3. /\ \/ entry' = entry /\ tabs' = tabs /\ live' \in {live, live \cup {i}}
         \/ \E s \in {i, att[i].session} :
              entry' = Closed(entry, {s}) /\ live' = live \ {s} /\ tabs' = tabs \ {s}
      /\ owner' = owner \/ owner' = [owner EXCEPT ![i] = None]
  BY DEF Early, Dial, FailsEarly, Trusted, Line, ComesUp, GoesDown, SessionEnds
<1>4. EntriesOK' /\ \A v \in gone : entry'[v] = NoEntry
  BY <1>1, <1>3, ClosedFacts DEF EntriesOK
<1>5. live' \subseteq Sessions /\ tabs' \subseteq live'
  BY <1>1, <1>3
<1>6. /\ owner' \in [Sessions -> Windows \cup {None}]
      /\ \A s \in Sessions : owner'[s] \in {owner[s], None}
  BY <1>1, <1>3
<1>7. DialogOK'
  BY <1>1, <1>2 DEF DialogOK
<1>8. QED
  BY <1>2, <1>4, <1>5, <1>6, <1>7, StateStep

\* An attempt that arrives is of a window that is there.
LEMMA ArrivesFacts ==
  ASSUME StateInv, AttemptsInv, NEW i \in Ids, Arrives(i)
  PROVE  /\ att[i].win \in Windows \ gone /\ att[i].session \in Sessions
         /\ IsAi(i) => i > dropped[att[i].win]
         /\ att[i].kind = "ai" => att[i].session \notin tabs
<1>1. /\ i \in Unfinished /\ AttemptOK(i) /\ ~att[i].aborted /\ att[i].stage = "up"
  BY DEF Arrives, Unfinished, AttemptsInv, AttemptsOK
<1>2. att[i].win \in Windows /\ dropped[att[i].win] \in Nat /\ i \in Nat
  BY <1>1, WorkspaceAssumption DEF AttemptOK, AttemptsInv, Typed, Ids
<1>3. att[i].win \notin gone /\ ~(IsAi(i) /\ i <= dropped[att[i].win])
  BY <1>1 DEF AttemptsInv, AbortedOK
<1>4. att[i].session \in Sessions
  BY <1>1, AtWork
<1>5. att[i].kind = "ai" => att[i].session \notin tabs
  BY <1>1 DEF AttemptsInv, FreshOK, Fresh, Own, AttemptOK
<1>6. QED
  BY <1>2, <1>3, <1>4, <1>5

\* The question goes with the last attempt, or a new one comes up.
LEMMA SettleDialog ==
  ASSUME StateInv, AttemptsInv, NEW i \in Ids, Settle(i)
  PROVE  DialogOK'
<1>1. dialog \in [Windows -> {"none", "ai", "tab"}]
  BY DEF StateInv, DialogOK
<1>2. Purpose(i) \in {"ai", "tab"}
  BY DEF Purpose
<1>3. dialog' = [dialog EXCEPT ![att[i].win] = Purpose(i)] \/ dialog' = Cleared(i)
  BY DEF Settle, ArriveAi, ArriveTab, ArriveKey, FailConnect, FailKey
<1>4. Cleared(i) = dialog \/ Cleared(i) = [dialog EXCEPT ![att[i].win] = "none"]
  BY DEF Cleared
<1>5. QED
  BY <1>1, <1>2, <1>3, <1>4 DEF DialogOK

\* A continuation gives its window the session it has, or takes it away.
LEMMA StateSettle ==
  ASSUME StateInv, AttemptsInv, NEW i \in Ids, Settle(i)
  PROVE  StateInv'
<1> DEFINE w == att[i].win
           s == att[i].session
<1>1. /\ entry \in [Windows -> EntryType]
      /\ \A v \in Windows : entry[v].session # None => entry[v].session \in live
      /\ live \subseteq Sessions /\ tabs \subseteq live
      /\ owner \in [Sessions -> Windows \cup {None}] /\ gone \subseteq Windows
      /\ \A v \in gone : entry[v] = NoEntry
  BY DEF StateInv, EntriesOK, LiveOK, GoneOK, AttemptsInv, Typed
<1>2. DialogOK' /\ gone' = gone
  BY SettleDialog DEF Settle, ArriveAi, ArriveTab, ArriveKey, FailConnect, FailKey
<1>3. Arrives(i) => /\ w \in Windows \ gone /\ s \in Sessions
                    /\ att[i].kind = "ai" => s \notin tabs
  BY ArrivesFacts
<1> HIDE DEF w, s
<1>4. ASSUME NEW S, live' = live \ S, entry' \in {Closed(entry, S)} \cup
                              {[Closed(entry, S) EXCEPT ![w] = e] : e \in {NoEntry}}
      PROVE  EntriesOK' /\ \A v \in gone : entry'[v] = NoEntry
  BY <1>1, <1>4, ClosedFacts, EntryFacts DEF EntriesOK
<1>5. CASE ArriveAi(i)
  <2>1. Arrives(i) /\ att[i].kind = "ai" /\ tabs' = tabs
    BY <1>5 DEF ArriveAi
  <2>2. CASE entry[w].opener # i
    <3>1. entry' = Closed(entry, {s}) /\ live' = live \ {s} /\ owner' = owner
      BY <1>5, <2>2 DEF ArriveAi, w, s
    <3>2. EntriesOK' /\ \A v \in gone : entry'[v] = NoEntry
      BY <1>4, <3>1
    <3>3. live' \subseteq Sessions /\ tabs' \subseteq live'
      BY <1>1, <1>3, <2>1, <3>1
    <3>4. QED
      BY <1>1, <1>2, <3>1, <3>2, <3>3, StateStep
  <2>3. CASE entry[w].opener = i
    <3>1. PICK e \in EntryType : /\ entry' = [entry EXCEPT ![w] = e]
                                 /\ e.session # None => e.session \in live
      BY <1>3, <1>5, <2>1, <2>3, EntryFacts DEF ArriveAi, Completes, w, s
    <3>2. owner' = [owner EXCEPT ![s] = w] /\ live' = live
      BY <1>5, <2>3 DEF ArriveAi, w, s
    <3>3. EntriesOK' /\ \A v \in gone : entry'[v] = NoEntry
      BY <1>1, <1>3, <2>1, <3>1, <3>2 DEF EntriesOK
    <3>4. /\ owner' \in [Sessions -> Windows \cup {None}]
          /\ \A q \in Sessions : owner'[q] \in {owner[q], None} \/ owner'[q] \notin gone
      BY <1>1, <1>3, <2>1, <3>2
    <3>5. QED
      BY <1>1, <1>2, <2>1, <3>2, <3>3, <3>4, StateStep
  <2>4. QED
    BY <2>2, <2>3
<1>6. CASE ArriveTab(i)
  <2>1. /\ Arrives(i) /\ UNCHANGED <<entry, live>> /\ owner' = [owner EXCEPT ![s] = w]
        /\ tabs' = tabs \cup ({s} \cap live)
    BY <1>6 DEF ArriveTab, w, s
  <2>2. EntriesOK' /\ \A v \in gone : entry'[v] = NoEntry
    BY <1>1, <2>1 DEF EntriesOK
  <2>3. /\ owner' \in [Sessions -> Windows \cup {None}]
        /\ \A q \in Sessions : owner'[q] \in {owner[q], None} \/ owner'[q] \notin gone
    BY <1>1, <1>3, <2>1
  <2>4. QED
    BY <1>1, <1>2, <2>1, <2>2, <2>3, StateStep
<1>7. CASE ArriveKey(i)
  <2> DEFINE kept == ~IsAi(i) \/ Completes(w, s)
  <2>1. /\ Arrives(i)
        /\ live' = IF kept THEN live ELSE live \ {s}
        /\ owner' = [owner EXCEPT ![s] = IF kept THEN w ELSE None]
        /\ entry' = IF ~kept THEN Closed(entry, {s})
                    ELSE IF IsAi(i) THEN [entry EXCEPT ![w].session = s]
                    ELSE entry
        /\ tabs' \in IF ~kept THEN {tabs \ {s}} ELSE {tabs, tabs \cup ({s} \cap live)}
    BY <1>7 DEF ArriveKey, w, s
  <2>2. EntriesOK' /\ \A v \in gone : entry'[v] = NoEntry
    <3>1. CASE ~kept
      BY <1>4, <2>1, <3>1
    <3>2. CASE kept /\ IsAi(i)
      <4>1. entry' = [entry EXCEPT ![w] = [entry[w] EXCEPT !.session = s]]
        BY <2>1, <3>2
      <4>2. [entry[w] EXCEPT !.session = s] \in EntryType
        BY <1>1, <1>3, <2>1, EntryFacts
      <4>3. [entry[w] EXCEPT !.session = s].session = s /\ s \in live
        <5>1. entry[w] \in EntryType
          BY <1>1, <1>3, <2>1
        <5>2. QED
          BY <3>2, <5>1 DEF EntryType, Completes
      <4>4. QED
        BY <1>1, <1>3, <2>1, <3>2, <4>1, <4>2, <4>3 DEF EntriesOK
    <3>3. CASE kept /\ ~IsAi(i)
      BY <1>1, <2>1, <3>3 DEF EntriesOK
    <3>4. QED
      BY <3>1, <3>2, <3>3
  <2> HIDE DEF kept
  <2>3. live' \subseteq Sessions /\ tabs' \subseteq live'
    BY <1>1, <2>1
  <2>4. /\ owner' \in [Sessions -> Windows \cup {None}]
        /\ \A q \in Sessions : owner'[q] \in {owner[q], None} \/ owner'[q] \notin gone
    BY <1>1, <1>3, <2>1
  <2>5. QED
    BY <1>2, <2>2, <2>3, <2>4, StateStep
<1>8. CASE FailConnect(i) \/ FailKey(i)
  <2>1. live' = live \ Undone(i) /\ tabs' = tabs \ Undone(i) /\ owner' = owner
    BY <1>8 DEF FailConnect, FailKey
  <2>2. EntriesOK' /\ \A v \in gone : entry'[v] = NoEntry
    <3>1. CASE FailKey(i)
      BY <1>4, <3>1 DEF FailKey, w
    <3>2. CASE FailConnect(i) /\ IsAi(i)
      <4> DEFINE left == Closed(entry, Undone(i))
      <4>1. /\ left \in [Windows -> EntryType] /\ \A v \in gone : left[v] = NoEntry
            /\ \A v \in Windows : left[v].session # None => left[v].session \in live \ Undone(i)
        BY <1>1, ClosedFacts
      <4>2. entry' = [left EXCEPT ![w] = FailedOpen(i, left[w])]
        BY <3>2 DEF FailConnect, w
      <4> HIDE DEF left
      <4>3. /\ \A e \in EntryType : FailedOpen(i, e) \in EntryType
            /\ FailedOpen(i, NoEntry) = NoEntry
        BY EntryFacts DEF FailedOpen
      <4>4. \A e \in EntryType : FailedOpen(i, e).session \in {None, e.session}
        BY EntryFacts DEF FailedOpen, EntryType
      <4>5. QED
        BY <1>1, <2>1, <4>1, <4>2, <4>3, <4>4 DEF EntriesOK
    <3>3. CASE FailConnect(i) /\ ~IsAi(i)
      BY <1>4, <3>3 DEF FailConnect
    <3>4. QED
      BY <1>8, <3>1, <3>2, <3>3
  <2>3. QED
    BY <1>1, <1>2, <2>1, <2>2, StateStep
<1>9. QED
  BY <1>5, <1>6, <1>7, <1>8 DEF Settle

-----------------------------------------------------------------------------
(* The theorems.                                                           *)

Inv == AttemptsInv /\ StateInv

LEMMA InvInit == Init => Inv
<1> SUFFICES ASSUME Init PROVE Inv
  OBVIOUS
<1>1. Unused \in AttemptType /\ NoKey \in [id : 0 .. MaxAttempts, session : 0 .. MaxAttempts]
  BY WorkspaceAssumption DEF Unused, NoKey, None, AttemptType
<1>2. Unfinished = {}
  BY DEF Init, Unfinished, Unused
<1>3. Typed
  BY <1>1, WorkspaceAssumption DEF Init, Typed, None
<1>4. AttemptsOK /\ SessionsOK /\ FreshOK /\ AbortedOK
  BY <1>2 DEF Init, AttemptsOK, SessionsOK, FreshOK, AbortedOK, Fresh, Own, Unused
<1>5. StateInv
  BY EntryFacts, WorkspaceAssumption DEF Init, StateInv, EntriesOK, LiveOK, DialogOK, GoneOK
<1>6. QED
  BY <1>3, <1>4, <1>5 DEF Inv, AttemptsInv

\* Every step is one of these.
LEMMA Cases ==
  ASSUME [Next]_vars
  PROVE  \/ \E w \in Windows : /\ w \notin gone
                               /\ OpenAi(w) \/ OpenTab(w) \/ Confirm(w)
         \/ \E w \in Windows :
              \/ CancelAi(w) \/ Reject(w) \/ CancelTab(w) \/ CloseAi(w) \/ Destroy(w)
              \/ \E s \in Sessions : Disconnect(w, s)
         \/ \E i \in Ids : Early(i) \/ SessionEnds(i) \/ Line(i)
         \/ \E i \in Ids : Settle(i)
         \/ UNCHANGED vars
BY DEF Next, Requests, OpenAi, OpenTab, Confirm, Sessions

LEMMA InvNext == Inv /\ [Next]_vars => Inv'
<1> SUFFICES ASSUME AttemptsInv, StateInv, [Next]_vars PROVE Inv'
  BY DEF Inv
<1>1. ASSUME NEW w \in Windows, w \notin gone, OpenAi(w) \/ OpenTab(w) \/ Confirm(w)
      PROVE  Inv'
  BY <1>1, BeginsInv, StateRequests DEF Inv, StateInv
<1>2. ASSUME NEW w \in Windows,
             \/ CancelAi(w) \/ Reject(w) \/ CancelTab(w) \/ CloseAi(w) \/ Destroy(w)
             \/ \E s \in Sessions : Disconnect(w, s)
      PROVE  Inv'
  BY <1>2, CancelsInv, StateRequests DEF Inv
<1>3. ASSUME NEW i \in Ids, Early(i) \/ SessionEnds(i) \/ Line(i)
      PROVE  Inv'
  <2>1. AttemptsInv'
    BY <1>3, DialInv, TrustedInv, LineInv, EndsInv DEF Early, Sessions
  <2>2. QED
    BY <1>3, <2>1, StateAttempts DEF Inv
<1>4. ASSUME NEW i \in Ids, Settle(i)
      PROVE  Inv'
  BY <1>4, SettleInv, StateSettle DEF Inv
<1>5. CASE UNCHANGED vars
  BY <1>5 DEF vars, Inv, AttemptsInv, StateInv, Typed, AttemptsOK, AttemptOK, Own, IsConfirm,
              IsAi, SessionsOK, FreshOK, Fresh, AbortedOK, Unfinished, EntriesOK, LiveOK,
              DialogOK, GoneOK
<1>6. QED
  BY <1>1, <1>2, <1>3, <1>4, <1>5, Cases

(* The state has its type, and an attempt dials only while a handshake     *)
(* runs for its session (connectionService.ts onAbort settles it with the  *)
(* socket), for any number of windows and attempts.                        *)
THEOREM Types == Spec => []TypeOK
<1>1. ASSUME Inv PROVE TypeOK
  <2>1. Typed /\ AttemptsOK /\ EntriesOK /\ LiveOK /\ DialogOK
    BY <1>1 DEF Inv, AttemptsInv, StateInv
  <2>2. ASSUME NEW i \in Ids
        PROVE  /\ att[i].kind \in {"none", "ai", "tab", "aiKey", "tabKey"}
               /\ att[i].win \in Windows \cup {None}
               /\ att[i].stage \in {"idle", "stores", "trust", "dial", "up", "down", "done"}
               /\ att[i].session \in 0 .. MaxAttempts
               /\ att[i].aborted \in BOOLEAN
               /\ att[i].stage = "dial" => line[att[i].session] # None
    <3>1. att[i] \in AttemptType
      BY <2>1 DEF Typed
    <3>2. att[i].stage = "dial" => line[att[i].session] # None
      BY <1>1, AtWork DEF Inv
    <3>3. QED
      BY <3>1, <3>2 DEF AttemptType
  <2>3. QED
    BY <2>1, <2>2 DEF TypeOK, Typed, EntriesOK, EntryType, LiveOK, DialogOK
<1>2. QED
  BY <1>1, InvInit, InvNext, PTL DEF Spec

(* No session outlives the window it was opened for: disposeOwner and the  *)
(* aborted signals of its attempts leave nothing behind, whatever was      *)
(* under way (workspaceConnections.ts, registerSshConnectHandlers.ts).     *)
THEOREM ClosedWindows == Spec => []ClosedWindowsOwnNothing
<1>1. Inv => ClosedWindowsOwnNothing
  BY DEF Inv, StateInv, GoneOK, LiveOK, ClosedWindowsOwnNothing
<1>2. QED
  BY <1>1, InvInit, InvNext, PTL DEF Spec

(* The session an entry hands to the AI tools is alive                     *)
(* (workspaceConnections.ts complete, closed), for any number of windows   *)
(* and attempts.                                                           *)
THEOREM EntriesLive == Spec => []EntriesAreLive
<1>1. Inv => EntriesAreLive
  BY DEF Inv, StateInv, EntriesOK, EntriesAreLive
<1>2. QED
  BY <1>1, InvInit, InvNext, PTL DEF Spec

\* Only the end of an AI attempt gives an entry a session.
LEMMA WhoCompletes ==
  ASSUME Inv, [Next]_vars, NEW w \in Windows, entry'[w].session \notin {None, entry[w].session}
  PROVE  \E i \in Ids : /\ ArriveAi(i) \/ (ArriveKey(i) /\ IsAi(i))
                        /\ att[i].win = w
<1>1. entry \in [Windows -> EntryType] /\ NoEntry.session = None
  BY EntryFacts DEF Inv, StateInv, EntriesOK
<1>2. \A S : /\ Closed(entry, S) \in [Windows -> EntryType]
             /\ \A v \in Windows : Closed(entry, S)[v] \in {entry[v], NoEntry}
  BY <1>1, ClosedFacts
<1>3. ASSUME NEW v \in Windows,
             \/ OpenAi(v) \/ OpenTab(v) \/ Confirm(v) \/ CancelAi(v)
             \/ Reject(v) \/ CancelTab(v) \/ CloseAi(v)
      PROVE  entry'[w].session \in {None, entry[w].session}
  BY <1>1, <1>2, <1>3
     DEF OpenAi, OpenTab, Confirm, CancelAi, CancelEntry, Reject, CancelTab, CloseAi
<1>4. ASSUME NEW v \in Windows, Destroy(v)
      PROVE  entry'[w].session \in {None, entry[w].session}
  <2> DEFINE own == {s \in Sessions : owner[s] = v} \cup ({entry[v].session} \ {None})
  <2>1. entry' = [Closed(entry, own) EXCEPT ![v] = NoEntry]
    BY <1>4 DEF Destroy
  <2> HIDE DEF own
  <2>2. QED
    BY <1>1, <1>2, <2>1
<1>5. ASSUME NEW i \in Ids, Early(i) \/ SessionEnds(i) \/ Line(i)
      PROVE  entry'[w].session \in {None, entry[w].session}
  BY <1>1, <1>2, <1>5
     DEF Early, Dial, FailsEarly, Trusted, Line, ComesUp, GoesDown, SessionEnds
<1>6. ASSUME NEW i \in Ids, Settle(i), ~(ArriveAi(i) \/ (ArriveKey(i) /\ IsAi(i)))
      PROVE  entry'[w].session \in {None, entry[w].session}
  <2>1. CASE ArriveTab(i) \/ (ArriveKey(i) /\ ~IsAi(i)) \/ FailKey(i)
    BY <1>1, <1>2, <2>1 DEF ArriveTab, ArriveKey, FailKey
  <2>2. CASE FailConnect(i)
    <3> DEFINE left == Closed(entry, Undone(i))
    <3>1. entry' \in {left, [left EXCEPT ![att[i].win] = FailedOpen(i, left[att[i].win])]}
      BY <2>2 DEF FailConnect
    <3>2. left \in [Windows -> EntryType] /\ left[w].session \in {None, entry[w].session}
      BY <1>1, <1>2
    <3> HIDE DEF left
    <3>3. FailedOpen(i, left[w]).session \in {None, left[w].session}
      <4>1. left[w] \in EntryType
        BY <3>2
      <4>2. [left[w] EXCEPT !.opening = FALSE].session = left[w].session
        BY <4>1 DEF EntryType
      <4>3. QED
        BY <1>1, <4>2 DEF FailedOpen
    <3>4. QED
      BY <3>1, <3>2, <3>3
  <2>3. QED
    BY <1>6, <2>1, <2>2 DEF Settle
<1>7. ASSUME NEW i \in Ids, ArriveAi(i) \/ (ArriveKey(i) /\ IsAi(i)), att[i].win # w
      PROVE  entry'[w].session \in {None, entry[w].session}
  BY <1>1, <1>2, <1>7 DEF ArriveAi, ArriveKey
<1>8. ~UNCHANGED vars
  BY DEF vars
<1>9. ASSUME NEW v \in Windows, NEW s \in Sessions, Disconnect(v, s)
      PROVE  entry'[w].session \in {None, entry[w].session}
  BY <1>1, <1>2, <1>9 DEF Disconnect
<1>10. QED
  BY <1>3, <1>4, <1>5, <1>6, <1>7, <1>8, <1>9, Cases

(* What was under way when an open was cancelled completes no later open   *)
(* (workspaceConnections.ts complete, cancel): not by a late handshake and *)
(* not by the confirmation of its key, however many opens follow.          *)
THEOREM StaleAttempts == Spec => StaleNeverCompletes
<1>1. ASSUME Inv, [Next]_vars, NEW i \in Ids, NEW w \in Windows,
             att[i].stage = "up", att'[i].stage = "done", att[i].win = w,
             entry'[w].session = att[i].session, entry[w].session # att[i].session
      PROVE  i > dropped[w]
  <2>1. att[i].session # None
    BY <1>1, AtWork DEF Inv
  <2>2. PICK j \in Ids : /\ ArriveAi(j) \/ (ArriveKey(j) /\ IsAi(j))
                         /\ att[j].win = w
    BY <1>1, <2>1, WhoCompletes
  <2>3. att' = Finish(att, j) /\ Arrives(j) /\ IsAi(j)
    BY <2>2 DEF ArriveAi, ArriveKey, IsAi
  <2>4. i = j
    <3>1. Abort(att, {j})[i].stage \in {att[i].stage, "down"}
      BY <1>1, AbortFacts DEF Inv, AttemptsInv, Typed
    <3>2. Abort(att, {j}) \in [Ids -> AttemptType]
      BY <1>1, AbortFacts DEF Inv, AttemptsInv, Typed
    <3>3. i # j => att'[i] = Abort(att, {j})[i]
      BY <2>3, <3>2 DEF Finish
    <3>4. QED
      BY <1>1, <3>1, <3>3
  <2>5. QED
    BY <1>1, <2>3, <2>4, ArrivesFacts DEF Inv
<1>2. Inv /\ [Next]_vars =>
        [\A i \in Ids : \A w \in Windows :
           (att[i].stage = "up" /\ att'[i].stage = "done" /\ att[i].win = w
             /\ entry'[w].session = att[i].session /\ entry[w].session # att[i].session)
           => i > dropped[w]]_vars
  BY <1>1
<1>3. QED
  BY <1>2, InvInit, InvNext, PTL DEF Spec, StaleNeverCompletes
=============================================================================
